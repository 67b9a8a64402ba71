-------------------------------- MODULE Ps2 ---------------------------------
(***************************************************************************)
(* The PS/2 controller: ps2_init of drivers/ps2/ps2.c, and mouse_init and  *)
(* mouse_handle_irq of drivers/mouse/mouse.c.                              *)
(*                                                                         *)
(* Both initialisations are programs that run against the controller.  A   *)
(* wait may time out although the answer is still to come: it is then in   *)
(* the output buffer for the next read.  While the first port is enabled a *)
(* key may put a byte there too.  A packet of the mouse is three bytes;    *)
(* moved sums up the moves, and lost says that a byte did not arrive.      *)
(***************************************************************************)
EXTENDS Integers, Sequences

CONSTANTS MoveSizes, MaxPackets, XMax, YMax

VARIABLES ps2, late, keyed, mouse, moved, lost, large, sending

ps2Vars == <<ps2, late, keyed>>
mouseVars == <<mouse, moved, lost, large, sending>>

\* Faulty variant: the devices are not disabled first
ps2_init_enabled ==
  <<"flush", "ask_cfg", "take_cfg", "dual", "quiet", "write_cfg", "ask_test", "take_test",
    "enable_p1", "enable_p2", "ask_cfg", "take_cfg", "irqs", "write_cfg">>

ps2_init ==
  <<"disable_p1", "disable_p2", "flush", "ask_cfg", "take_cfg", "dual", "quiet", "write_cfg",
    "ask_test", "take_test", "enable_p1", "enable_p2", "ask_cfg", "take_cfg", "irqs", "write_cfg">>

mouse_init ==
  <<"flush", "enable_p2_always", "ask_cfg", "take_cfg", "irq12", "write_cfg",
    "defaults", "take_ack", "stream", "take_ack">>

Program == IF ps2.driver = "ps2" THEN ps2_init ELSE mouse_init
Answer(b) == [ps2 EXCEPT !.out = Append(@, b)]

\* What a command or a byte that reaches the controller does to it
Sent(op) ==
  CASE op = "disable_p1" -> [ps2 EXCEPT !.cfg = @ \cup {"dis1"}]
    [] op = "disable_p2" -> [ps2 EXCEPT !.cfg = IF ps2.ports = 2 THEN @ \cup {"dis2"} ELSE @]
    [] op = "enable_p1" -> [ps2 EXCEPT !.cfg = @ \ {"dis1"}]
    [] op = "enable_p2" -> [ps2 EXCEPT !.cfg = IF ps2.dual THEN @ \ {"dis2"} ELSE @]
    [] op = "enable_p2_always" -> [ps2 EXCEPT !.cfg = @ \ {"dis2"}]
    [] op = "ask_cfg" -> Answer(<<"cfg", ps2.cfg>>)
    [] op = "ask_test" -> Answer(<<"passed", {}>>)
    [] op = "write_cfg" -> [ps2 EXCEPT !.cfg = ps2.config]
    [] op \in {"defaults", "stream"} -> Answer(<<"ack", {}>>)
    [] OTHER -> ps2

\* What the driver does by itself
Computed(op) ==
  CASE op = "flush" -> [ps2 EXCEPT !.out = <<>>]
    [] op = "dual" -> [ps2 EXCEPT !.dual = "dis2" \in ps2.config]
    [] op = "quiet" -> [ps2 EXCEPT !.config = @ \ {"irq1", "irq2", "xlat"}]
    [] op = "irqs" -> [ps2 EXCEPT !.config = @ \cup {"irq1"} \cup (IF ps2.dual THEN {"irq2"} ELSE {})]
    [] op = "irq12" -> [ps2 EXCEPT !.config = @ \cup {"irq2"}]
    [] OTHER -> Sent(op)

Advance(p) == [p EXCEPT !.pc = @ + 1]
Running == ps2.pc \in 1 .. Len(Program)
Op == Program[ps2.pc]
Takes == Op \in {"take_cfg", "take_test", "take_ack"}

\* ps2_read_data: the first byte of the output buffer, whatever it answers; a
\* byte that is no configuration taken as one is some configuration
Taken_byte(b, stale) ==
  CASE Op = "take_cfg" -> [ps2 EXCEPT !.config = IF b[1] = "cfg" THEN b[2] ELSE stale]
    [] Op = "take_test" /\ b[1] # "passed" -> [ps2 EXCEPT !.pc = Len(Program)]
    [] OTHER -> ps2

ps2_step ==
  /\ Running /\ ~Takes
  /\ ps2' = Advance(Computed(Op))
  /\ UNCHANGED <<late, keyed>>

ps2_read_data ==
  /\ Running /\ Takes /\ ps2.out # <<>>
  /\ ps2' = Advance([Taken_byte(Head(ps2.out), {"irq1", "dis1"}) EXCEPT !.out = Tail(@)])
  /\ keyed' = (keyed \/ Head(ps2.out)[1] = "key")
  /\ UNCHANGED late

\* A wait gives up: ps2.c drops the write or reads 0, mouse.c writes all the
\* same and reads what was there
ps2_timeout ==
  /\ Running /\ ~late /\ late' = TRUE
  /\ ps2' = Advance(IF ps2.driver = "ps2"
                    THEN IF Takes THEN Taken_byte(<<"cfg", {}>>, {}) ELSE ps2
                    ELSE IF Takes THEN Taken_byte(<<"old", {}>>, {"irq1", "dis1"}) ELSE Computed(Op))
  /\ UNCHANGED keyed

key_arrives ==
  /\ "dis1" \notin ps2.cfg /\ Running /\ Len(ps2.out) < 2
  /\ ps2' = Answer(<<"key", {}>>)
  /\ UNCHANGED <<late, keyed>>

\* A driver and the number of ports it finds
Ps2Init(setups) ==
  /\ ps2 \in {[driver |-> s[1], ports |-> s[2], pc |-> 1, config |-> {}, dual |-> FALSE, out |-> <<>>,
               cfg |-> {"irq1", "xlat"} \cup (IF s[2] = 2 THEN {"dis2"} ELSE {})] : s \in setups}
  /\ late = FALSE /\ keyed = FALSE

Ps2Next == ps2_step \/ ps2_read_data \/ ps2_timeout \/ key_arrives
-----------------------------------------------------------------------------
Moves == MoveSizes \cup {-s : s \in MoveSizes}
Signed8(b) == IF b >= 128 THEN b - 256 ELSE b

\* A packet: the first byte has bit 3 and the signs, then nine-bit moves without theirs
Packet(dx, dy) ==
  <<8 + (IF dx < 0 THEN 16 ELSE 0) + (IF dy < 0 THEN 32 ELSE 0), dx % 256, dy % 256>>

Clamped(v, max) == IF v < 0 THEN 0 ELSE IF v > max THEN max ELSE v

\* g_mouse_packet is signed: the sign bits of the first byte change nothing
\* unless the byte has none, and then they extend it
Delta(byte, sign) == IF sign /\ byte < 128 THEN byte - 256 ELSE Signed8(byte)

\* Faulty variant: the sign bit of y is that of x
Decoded_sign(m) ==
  LET sx == (m.packet[1] \div 16) % 2 = 1
      dx == Delta(m.packet[2], sx)
      dy == Delta(m.packet[3], sx)
  IN  [m EXCEPT !.x = Clamped(@ + dx, XMax), !.y = Clamped(@ - dy, YMax), !.packet = <<>>]

Decoded(m) ==
  LET dx == Delta(m.packet[2], (m.packet[1] \div 16) % 2 = 1)
      dy == Delta(m.packet[3], (m.packet[1] \div 32) % 2 = 1)
  IN  [m EXCEPT !.x = Clamped(@ + dx, XMax), !.y = Clamped(@ - dy, YMax), !.packet = <<>>]

\* Len(packet) is g_mouse_cycle
mouse_handle_irq ==
  /\ sending.bytes # <<>>
  /\ LET data == Head(sending.bytes)
         more == [mouse EXCEPT !.packet = Append(@, data)]
     IN  mouse' = IF mouse.packet = <<>> /\ (data \div 8) % 2 = 0 THEN mouse
                  ELSE IF Len(more.packet) = 3 THEN Decoded(more) ELSE more
  /\ sending' = [sending EXCEPT !.bytes = Tail(@)]
  /\ UNCHANGED <<moved, lost, large>>

mouse_moves(dx, dy) ==
  /\ sending.bytes = <<>> /\ sending.count < MaxPackets
  /\ sending' = [bytes |-> Packet(dx, dy), count |-> sending.count + 1]
  /\ moved' = [x |-> Clamped(moved.x + dx, XMax), y |-> Clamped(moved.y - dy, YMax)]
  /\ large' = (large \/ dx > 127 \/ dy > 127)
  /\ UNCHANGED <<mouse, lost>>

byte_lost ==
  /\ sending.bytes # <<>> /\ lost' = TRUE
  /\ sending' = [sending EXCEPT !.bytes = Tail(@)]
  /\ UNCHANGED <<mouse, moved, large>>

MouseInit ==
  /\ mouse = [packet |-> <<>>, x |-> 0, y |-> 0]
  /\ moved = [x |-> 0, y |-> 0] /\ lost = FALSE /\ large = FALSE
  /\ sending = [bytes |-> <<>>, count |-> 0]

MouseNext == mouse_handle_irq \/ byte_lost \/ \E dx, dy \in Moves : mouse_moves(dx, dy)
-----------------------------------------------------------------------------
(* Unless a wait timed out or a key was taken for an answer, ps2_init ends *)
(* with the first port and its interrupt on, the second port's when there  *)
(* is one, and translation off, and mouse_init adds the mouse's interrupt  *)
(* to the configuration and keeps the rest.  ps2_init can take a key for   *)
(* an answer only at its last read, after it has enabled the keyboard      *)
(* again: the count of ports and the self-test are safe from it.           *)
Ps2Configured ==
  /\ (ps2.pc > Len(Program) /\ ~late /\ ~keyed) =>
       IF ps2.driver = "ps2"
       THEN ps2.cfg = {"irq1"} \cup (IF ps2.ports = 2 THEN {"irq2"} ELSE {})
       ELSE ps2.cfg = {"irq1", "irq2", "xlat"}
  /\ (ps2.driver = "ps2" /\ keyed /\ ~late) => ps2.pc + 2 > Len(Program)

(* Between packets the pointer is where the moves so far take it, however  *)
(* the screen edges cut them, unless a byte was lost (the packets are then *)
(* out of step) or a move right or up of more than 127 was read as one     *)
(* left or down.                                                           *)
PointerFollows ==
  (sending.bytes = <<>> /\ ~lost /\ ~large) => mouse = [packet |-> <<>>, x |-> moved.x, y |-> moved.y]

(* ps2_init and mouse_init leave the controller as they mean to, and       *)
(* mouse_handle_irq follows the mouse, outside the cases excepted above.   *)
Ps2Sound == Ps2Configured /\ PointerFollows
=============================================================================
