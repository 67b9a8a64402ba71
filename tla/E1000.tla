------------------------------- MODULE E1000 -------------------------------
(***************************************************************************)
(* The descriptor rings of the e1000 driver: e1000_rx_packet and           *)
(* e1000_tx_packet against the card, which runs at its own pace.           *)
(*                                                                         *)
(* A packet is a number, its length one of PacketSizes.  A descriptor      *)
(* holds the packet of its buffer and the done bit of its status.  The     *)
(* senders are threads the timer can switch between any two steps: nothing *)
(* locks the ring.                                                         *)
(***************************************************************************)
EXTENDS Naturals, Sequences

CONSTANTS
  DESC_COUNT,      \* E1000_RX_DESC_COUNT and E1000_TX_DESC_COUNT
  TX_BUFFER_SIZE,  \* E1000_TX_BUFFER_SIZE
  RxRoom,          \* max_len of the callers of e1000_rx_packet
  PacketSizes,     \* the lengths of the packets sent and received
  MaxPackets,      \* bound: packets offered to the receiver, sends begun
  Senders          \* the threads that call e1000_tx_packet

ASSUME E1000Assumption == DESC_COUNT \in Nat \ {0, 1}

VARIABLES
  rxRing, rdh, rdt,  \* g_e1000_rx_ring with its buffers, RDH and RDT
  rxCall,            \* the call of e1000_rx_packet, and what it copied
  arrived, got,      \* the packets the card stored; what the callers were given
  txRing, tdh, tdt,  \* g_e1000_tx_ring with its buffers, TDH and TDT
  txCall,            \* where each sender is, and the tail it read
  kicked, sent,      \* the packets handed over by TDT; the packets on the wire
  crossed            \* two senders were inside the unlocked window together

rxVars == <<rxRing, rdh, rdt, rxCall, arrived, got>>
txVars == <<txRing, tdh, tdt, txCall, kicked, sent, crossed>>
e1000Vars == <<rxRing, rdh, rdt, rxCall, arrived, got,
               txRing, tdh, tdt, txCall, kicked, sent, crossed>>

Slots == 0 .. DESC_COUNT - 1
After(i) == (i + 1) % DESC_COUNT
None == [id |-> 0, len |-> 0]
Idle == [at |-> "out", tail |-> 0, pkt |-> None]

-----------------------------------------------------------------------------
(* Receive.  e1000_rx_init leaves every descriptor but one to the card.    *)

e1000_rx_init ==
  /\ rxRing = [i \in Slots |-> [done |-> FALSE, pkt |-> None]]
  /\ rdh = 0 /\ rdt = DESC_COUNT - 1
  /\ rxCall = Idle /\ arrived = <<>> /\ got = <<>>

(* The card stores the next packet at RDH and sets the done bit; with      *)
(* RDH = RDT it has no descriptor and drops the packet.                    *)
CardReceives ==
  /\ Len(arrived) < MaxPackets /\ rdh # rdt
  /\ \E n \in PacketSizes :
       LET p == [id |-> Len(arrived) + 1, len |-> n] IN
         /\ rxRing' = [rxRing EXCEPT ![rdh] = [done |-> TRUE, pkt |-> p]]
         /\ arrived' = Append(arrived, p)
  /\ rdh' = After(rdh)
  /\ UNCHANGED <<rdt, rxCall, got>>

Copied(p) == [p EXCEPT !.len = IF p.len > RxRoom THEN RxRoom ELSE p.len]

rx_copy_unready ==
  /\ rxCall.at = "out" /\ Len(got) < MaxPackets
  /\ rxCall' = [at |-> "copied", tail |-> After(rdt), pkt |-> Copied(rxRing[After(rdt)].pkt)]
  /\ UNCHANGED <<rxRing, rdh, rdt, arrived, got>>

(* e1000_rx_packet up to the copy: nothing to do unless the descriptor     *)
(* after RDT is done.                                                      *)
rx_copy ==
  /\ rxCall.at = "out"
  /\ LET tail == After(rdt) IN
       /\ rxRing[tail].done
       /\ rxCall' = [at |-> "copied", tail |-> tail, pkt |-> Copied(rxRing[tail].pkt)]
  /\ UNCHANGED <<rxRing, rdh, rdt, arrived, got>>

(* The rest of e1000_rx_packet gives the descriptor back and returns.      *)
rx_reclaim ==
  /\ rxCall.at = "copied"
  /\ rxRing' = [rxRing EXCEPT ![rxCall.tail].done = FALSE]
  /\ rdt' = rxCall.tail
  /\ got' = Append(got, rxCall.pkt)
  /\ rxCall' = Idle
  /\ UNCHANGED <<rdh, arrived>>

RxNext == (CardReceives \/ rx_copy \/ rx_reclaim) /\ UNCHANGED txVars

-----------------------------------------------------------------------------
(* Transmit.                                                               *)

e1000_tx_init ==
  /\ txRing = [i \in Slots |-> [done |-> TRUE, pkt |-> None]]
  /\ tdh = 0 /\ tdt = 0
  /\ txCall = [s \in Senders |-> Idle]
  /\ kicked = <<>> /\ sent = <<>> /\ crossed = FALSE

Inside == {s \in Senders : txCall[s].at \in {"begun", "filled"}}

Full_never(tail, head) == FALSE
Full(tail, head) == After(tail) = head

(* e1000_tx_packet reads TDT and TDH; a packet that is too long, or a full *)
(* ring, returns -1 and changes nothing.                                   *)
tx_begin(s) ==
  /\ txCall[s].at = "out" /\ Len(kicked) < MaxPackets
  /\ \E n \in PacketSizes :
       /\ n <= TX_BUFFER_SIZE
       /\ ~ Full(tdt, tdh)
       /\ txCall' = [txCall EXCEPT ![s] = [at |-> "begun", tail |-> tdt,
                                           pkt |-> [id |-> Len(kicked) + 1, len |-> n]]]
  /\ crossed' = (crossed \/ Inside # {})
  /\ UNCHANGED <<txRing, tdh, tdt, kicked, sent>>

tx_fill(s) ==
  /\ txCall[s].at = "begun"
  /\ txRing' = [txRing EXCEPT ![txCall[s].tail] = [done |-> FALSE, pkt |-> txCall[s].pkt]]
  /\ txCall' = [txCall EXCEPT ![s].at = "filled"]
  /\ UNCHANGED <<tdh, tdt, kicked, sent, crossed>>

tx_kick(s) ==
  /\ txCall[s].at = "filled"
  /\ tdt' = After(txCall[s].tail)
  /\ kicked' = Append(kicked, txCall[s].pkt)
  /\ txCall' = [txCall EXCEPT ![s].at = "waiting"]
  /\ UNCHANGED <<txRing, tdh, sent, crossed>>

(* The wait ends on the done bit or after 10000 turns, and both return     *)
(* len: a sender may leave before its packet has gone.                     *)
tx_return(s) ==
  /\ txCall[s].at = "waiting"
  /\ txCall' = [txCall EXCEPT ![s] = Idle]
  /\ UNCHANGED <<txRing, tdh, tdt, kicked, sent, crossed>>

(* The card sends the packet at TDH and sets its done bit.                 *)
CardSends ==
  /\ tdh # tdt
  /\ sent' = Append(sent, txRing[tdh].pkt)
  /\ txRing' = [txRing EXCEPT ![tdh].done = TRUE]
  /\ tdh' = After(tdh)
  /\ UNCHANGED <<tdt, txCall, kicked, crossed>>

TxNext ==
  /\ \/ \E s \in Senders : tx_begin(s) \/ tx_fill(s) \/ tx_kick(s) \/ tx_return(s)
     \/ CardSends
  /\ UNCHANGED rxVars

-----------------------------------------------------------------------------
E1000Init == e1000_rx_init /\ e1000_tx_init
E1000Next == RxNext \/ TxNext

(* The packets in the slots from i up to, not including, j.                *)
Between(ring, i, j) ==
  [k \in 1 .. (j + DESC_COUNT - i) % DESC_COUNT |-> ring[(i + k - 1) % DESC_COUNT].pkt]

(* The callers of e1000_rx_packet get the packets the card stored, each    *)
(* once, in order and cut to their buffer; the ring holds exactly the ones *)
(* still to be read, from the descriptor after RDT up to RDH, and the card *)
(* never stores over one.                                                  *)
RxInOrder ==
  /\ Len(got) <= Len(arrived)
  /\ \A k \in 1 .. Len(got) : got[k] = Copied(arrived[k])
  /\ SubSeq(arrived, Len(got) + 1, Len(arrived)) = Between(rxRing, After(rdt), rdh)
  /\ \A i \in Slots : rxRing[i].done <=> rxRing[i].pkt \in {arrived[k] : k \in Len(got) + 1 .. Len(arrived)}

(* While no two senders are inside e1000_tx_packet together, the card      *)
(* sends the packets in the order TDT handed them over, each once and      *)
(* unchanged, also when senders gave up waiting: the ones not yet sent are *)
(* in the slots from TDH to TDT.                                           *)
TxInOrder ==
  ~ crossed => kicked = sent \o Between(txRing, tdh, tdt)

(* The rings of e1000_rx.c and e1000_tx.c keep packets whole and in order, *)
(* outside the race excepted above.                                        *)
RingsInOrder == RxInOrder /\ TxInOrder
=============================================================================
