------------------------------ MODULE Network ------------------------------
(***************************************************************************)
(* The tables of the network stack: the ARP cache that received frames     *)
(* fill (arp.c), the ARP table with an interface of its own (arp_table.c), *)
(* the routing table, and the list of interfaces ethernet_send walks.      *)
(*                                                                         *)
(* IP and MAC addresses are members of small sets; a netmask is the set of *)
(* the address bits it keeps.  A slot of a table is Unused or an entry.    *)
(* Nothing in the kernel locks these tables and nothing calls them         *)
(* from an interrupt, so a call is one step.                               *)
(***************************************************************************)
EXTENDS Naturals, Sequences, FiniteSets, SequencesExt

CONSTANTS
  ARP_TABLE_SIZE, ROUTE_TABLE_SIZE, NIC_MAX_INTERFACES,
  Hosts, Macs,     \* IP addresses and MAC addresses of the ARP tables
  AddressBits,     \* the bits of an address of the routing table
  FrameLengths,    \* the lengths of the frames sent and polled
  Unused,          \* an invalid entry, and the answer for an unknown address
  MaxCalls         \* bound: calls of a behaviour

VARIABLES
  cache, learned,        \* g_arp_table of arp.c; every binding received, in order
  table, bound,          \* g_arp_table of arp_table.c; the binding last added
  routes,                \* g_route_table
  nics, wire, taken,     \* g_nics; frames the cards accepted; packets polled
  sends,                 \* calls of ethernet_send that returned a length
  calls

arpVars == <<cache, learned>>
tableVars == <<table, bound>>
nicVars == <<nics, wire, taken, sends>>
netVars == <<cache, learned, table, bound, routes, nics, wire, taken, sends, calls>>

FirstSlot(t, P(_)) ==
  LET S == {i \in 1 .. Len(t) : P(t[i])} IN IF S = {} THEN 0 ELSE Min(S)
FirstFree(t) == FirstSlot(t, LAMBDA e : e = Unused)
EmptyTable(n) == [i \in 1 .. n |-> Unused]
Put(t, e) == IF FirstFree(t) = 0 THEN t ELSE [t EXCEPT ![FirstFree(t)] = e]
EntryOf(t, ip) == FirstSlot(t, LAMBDA e : e # Unused /\ e.ip = ip)
Answer(t, ip) == IF EntryOf(t, ip) = 0 THEN Unused ELSE t[EntryOf(t, ip)].mac
Called == calls < MaxCalls /\ calls' = calls + 1

-----------------------------------------------------------------------------
(* Received frames.  ethernet_receive hands an ARP payload to arp_receive, *)
(* which keeps the sender of a well-formed packet in the first free slot,  *)
(* whatever the table already says of it.  An IP payload, and any other    *)
(* type, is only logged.                                                   *)

arp_init == cache = EmptyTable(ARP_TABLE_SIZE) /\ learned = <<>>

arp_receive_drop(ok, ip, mac) == IF ok THEN cache ELSE Put(cache, [ip |-> ip, mac |-> mac])
arp_receive(ok, ip, mac) == IF ok THEN Put(cache, [ip |-> ip, mac |-> mac]) ELSE cache
arp_lookup(ip) == Answer(cache, ip)

(* type is the ethertype; ok says that the packet is long enough, of       *)
(* Ethernet hardware type and has 4-byte protocol addresses.               *)
ethernet_receive(type, ok, ip, mac) ==
  /\ Called
  /\ cache' = IF type = "arp" THEN arp_receive(ok, ip, mac) ELSE cache
  /\ learned' = IF type = "arp" /\ ok THEN Append(learned, [ip |-> ip, mac |-> mac]) ELSE learned
  /\ UNCHANGED <<tableVars, routes, nicVars>>

-----------------------------------------------------------------------------
(* The second ARP table updates an entry in place.                         *)

arp_table_init == table = EmptyTable(ARP_TABLE_SIZE) /\ bound = [ip \in Hosts |-> Unused]

Added_append(t, ip, mac) == Put(t, [ip |-> ip, mac |-> mac])
Added(t, ip, mac) ==
  IF EntryOf(t, ip) # 0
  THEN [t EXCEPT ![EntryOf(t, ip)].mac = mac]
  ELSE Put(t, [ip |-> ip, mac |-> mac])

arp_table_add(ip, mac) ==
  /\ Called
  /\ table' = Added(table, ip, mac)
  /\ bound' = IF EntryOf(table, ip) = 0 /\ FirstFree(table) = 0 THEN bound
              ELSE [bound EXCEPT ![ip] = mac]
  /\ UNCHANGED <<arpVars, routes, nicVars>>

arp_table_remove(ip) ==
  /\ Called
  /\ table' = IF EntryOf(table, ip) = 0 THEN table ELSE [table EXCEPT ![EntryOf(table, ip)] = Unused]
  /\ bound' = [bound EXCEPT ![ip] = Unused]
  /\ UNCHANGED <<arpVars, routes, nicVars>>

arp_table_flush ==
  /\ Called
  /\ table' = EmptyTable(ARP_TABLE_SIZE) /\ bound' = [ip \in Hosts |-> Unused]
  /\ UNCHANGED <<arpVars, routes, nicVars>>

arp_table_lookup(ip) == Answer(table, ip)

-----------------------------------------------------------------------------
(* Routes.  An address, and a netmask, is the set of its one bits.         *)

Addresses == SUBSET AddressBits
Netmasks == {m \in SUBSET AddressBits : \A a \in m, b \in AddressBits : b < a => b \in m}

routing_init == routes = EmptyTable(ROUTE_TABLE_SIZE)

routing_add(dest, netmask, gateway) ==
  /\ Called
  /\ routes' = Put(routes, [dest |-> dest, netmask |-> netmask, gateway |-> gateway])
  /\ UNCHANGED <<arpVars, tableVars, nicVars>>

RouteOf(dest, netmask) ==
  FirstSlot(routes, LAMBDA e : e # Unused /\ e.dest = dest /\ e.netmask = netmask)

routing_remove(dest, netmask) ==
  /\ Called
  /\ RouteOf(dest, netmask) # 0
  /\ routes' = [routes EXCEPT ![RouteOf(dest, netmask)] = Unused]
  /\ UNCHANGED <<arpVars, tableVars, nicVars>>

Matches(i, dest_ip) == routes[i] # Unused /\ (dest_ip \cap routes[i].netmask) = routes[i].dest

(* The loop keeps the first entry with the most mask bits among those the  *)
(* address matches; the metric is never looked at.                         *)
Better_first(i, best, dest_ip) == Matches(i, dest_ip) /\ best = 0
Better(i, best, dest_ip) ==
  /\ Matches(i, dest_ip)
  /\ best = 0 \/ Cardinality(routes[i].netmask) > Cardinality(routes[best].netmask)

routing_lookup(dest_ip) ==
  LET best[i \in 0 .. ROUTE_TABLE_SIZE] ==
        IF i = 0 THEN 0
        ELSE IF Better(i, best[i - 1], dest_ip) THEN i ELSE best[i - 1]
  IN  best[ROUTE_TABLE_SIZE]

-----------------------------------------------------------------------------
(* Interfaces.  A driver registers with or without a send and a poll; both *)
(* drivers of the tree pass NULL for the two.  Its send may refuse.        *)

nic_init == nics = <<>> /\ wire = <<>> /\ taken = <<>> /\ sends = 0

nic_register(mac, able) ==
  /\ Called
  /\ Len(nics) < NIC_MAX_INTERFACES
  /\ nics' = Append(nics, [mac |-> mac, able |-> able, tx_packets |-> 0, tx_bytes |-> 0,
                           rx_packets |-> 0, rx_bytes |-> 0])
  /\ UNCHANGED <<arpVars, tableVars, routes, wire, taken, sends>>

ethernet_get_mac == IF nics = <<>> THEN Unused ELSE nics[1].mac

(* The interfaces that get the frame: the walk stops at the first that     *)
(* takes it.  willing are the ones whose send would return 0 or more.      *)
Takers_all(willing) == {i \in 1 .. Len(nics) : nics[i].able /\ i \in willing}
Takers(willing) ==
  LET able == {i \in 1 .. Len(nics) : nics[i].able /\ i \in willing} IN
    IF able = {} THEN {} ELSE {Min(able)}

(* ethernet_send frees its frame on every path, so only a send that gets   *)
(* through changes anything: too long a payload, no interface, no memory   *)
(* and no taker all return -1.                                             *)
ethernet_send(frame_len, willing) ==
  /\ Called
  /\ nics # <<>>
  /\ Takers(willing) # {}
  /\ nics' = [i \in 1 .. Len(nics) |->
               IF i \in Takers(willing)
               THEN [nics[i] EXCEPT !.tx_packets = @ + 1, !.tx_bytes = @ + frame_len]
               ELSE nics[i]]
  /\ wire' = wire \o SetToSeq({[nic |-> i, src |-> ethernet_get_mac, len |-> frame_len] :
                                i \in Takers(willing)})
  /\ sends' = sends + 1
  /\ UNCHANGED <<arpVars, tableVars, routes, taken>>

nic_poll(len, ready) ==
  /\ Called
  /\ Takers(ready) # {}
  /\ LET i == Min(Takers(ready)) IN
       /\ nics' = [nics EXCEPT ![i].rx_packets = @ + 1, ![i].rx_bytes = @ + len]
       /\ taken' = Append(taken, [nic |-> i, len |-> len])
  /\ UNCHANGED <<arpVars, tableVars, routes, wire, sends>>

-----------------------------------------------------------------------------
NetInit == arp_init /\ arp_table_init /\ routing_init /\ nic_init /\ calls = 0

ArpNext ==
  \E type \in {"arp", "ip", "other"}, ok \in BOOLEAN, ip \in Hosts, mac \in Macs :
    ethernet_receive(type, ok, ip, mac)

ArpTableNext ==
  \/ \E ip \in Hosts, mac \in Macs : arp_table_add(ip, mac)
  \/ \E ip \in Hosts : arp_table_remove(ip)
  \/ arp_table_flush

RouteNext ==
  \/ \E dest \in Addresses, m \in Netmasks, g \in Macs : routing_add(dest, m, g)
  \/ \E dest \in Addresses, m \in Netmasks : routing_remove(dest, m)

NicNext ==
  \/ \E mac \in Macs, able \in BOOLEAN : nic_register(mac, able)
  \/ \E len \in FrameLengths, willing \in SUBSET (1 .. Len(nics)) :
       ethernet_send(len, willing) \/ nic_poll(len, willing)

-----------------------------------------------------------------------------
(* The ARP cache answers with the oldest binding it heard of an address,   *)
(* however many newer ones came, and knows exactly the senders of the      *)
(* first ARP_TABLE_SIZE packets: repeated packets of one host use up the   *)
(* slots of the others.                                                    *)
OldestBinding ==
  LET kept == SubSeq(learned, 1, Min({Len(learned), ARP_TABLE_SIZE})) IN
    \A ip \in Hosts :
      LET heard == {k \in 1 .. Len(kept) : kept[k].ip = ip} IN
        arp_lookup(ip) = IF heard = {} THEN Unused ELSE kept[Min(heard)].mac

(* arp_table_lookup gives the binding of the last successful add that no   *)
(* remove or flush followed, and an address has at most one entry: a       *)
(* removed binding never comes back through an older duplicate.            *)
LatestBinding ==
  \A ip \in Hosts :
    /\ arp_table_lookup(ip) = bound[ip]
    /\ Cardinality({i \in 1 .. ARP_TABLE_SIZE : table[i] # Unused /\ table[i].ip = ip}) <= 1

(* routing_lookup finds a route whenever some entry covers the address,    *)
(* and no entry covering it is more specific; among equally specific ones  *)
(* the slot decides.  An entry added with host bits set covers nothing.    *)
LongestPrefix ==
  \A ip \in Addresses :
    LET covering == {i \in 1 .. ROUTE_TABLE_SIZE :
                       /\ routes[i] # Unused
                       /\ routes[i].dest \subseteq routes[i].netmask
                       /\ \A b \in routes[i].netmask : b \in ip <=> b \in routes[i].dest}
        best == routing_lookup(ip)
    IN  IF covering = {} THEN best = 0
        ELSE /\ best \in covering
             /\ \A i \in covering :
                  \/ Cardinality(routes[i].netmask) < Cardinality(routes[best].netmask)
                  \/ routes[i].netmask = routes[best].netmask /\ i >= best

SumOf(S, F(_)) == FoldSet(LAMBDA x, n : F(x) + n, 0, S)

(* A successful ethernet_send puts its frame on the wire exactly once, and *)
(* the counters of each interface are those of the frames it carried and   *)
(* of the packets it was polled for.  Every frame bears the address of the *)
(* first interface, also one that another interface carries.               *)
SentOnce ==
  /\ sends = Len(wire)
  /\ \A k \in 1 .. Len(wire) : wire[k].src = nics[1].mac
  /\ \A i \in 1 .. Len(nics) :
       LET out == {k \in 1 .. Len(wire) : wire[k].nic = i}
           in == {k \in 1 .. Len(taken) : taken[k].nic = i} IN
         /\ nics[i].tx_packets = Cardinality(out)
         /\ nics[i].tx_bytes = SumOf(out, LAMBDA k : wire[k].len)
         /\ nics[i].rx_packets = Cardinality(in)
         /\ nics[i].rx_bytes = SumOf(in, LAMBDA k : taken[k].len)

(* The address caches, the routes and the interfaces answer with what was  *)
(* put in, as each statement above says.                                   *)
NetworkTables == OldestBinding /\ LatestBinding /\ LongestPrefix /\ SentOnce
=============================================================================
