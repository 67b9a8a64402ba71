-------------------------- MODULE InterruptsProofs --------------------------
(***************************************************************************)
(* Proofs about module Interrupts, for any number of threads and any set   *)
(* of unmasked lines.                                                      *)
(***************************************************************************)
EXTENDS Interrupts, SequenceTheorems, TLAPS

\* The slave's share of line l: nothing for a line of the master
SlaveBits(l) == IF l >= 8 THEN {l} ELSE {}

\* What the one unfinished handler may have left in service
Owned ==
  \A t \in Threads : frames[t] # <<>> =>
    /\ isr1 \subseteq {Master(frames[t][1].irq)}
    /\ isr2 \subseteq SlaveBits(frames[t][1].irq)
    /\ frames[t][1].pc = "iret" => isr1 = {} /\ isr2 = {}

IInv == TypeOK /\ InServiceDrained /\ HandlersMasked /\ Owned

\* An EOI drains a PIC that has one line in service at most.
LEMMA DrainOne ==
  ASSUME NEW x \in Int, NEW S, S \subseteq {x}
  PROVE  EOI(S) = {}
<1>1. \A l \in S : l = x
  OBVIOUS
<1>2. \A l, k \in S : ~ (k < l)
  BY <1>1
<1> QED
  BY <1>2 DEF EOI

\* A stack that is not empty holds exactly its first frame.
LEMMA OneFrame ==
  ASSUME IInv, InHandler
  PROVE  /\ Depth = 1
         /\ Top = frames[cur][1]
         /\ Top \in Frames
         /\ \A t \in Threads : frames[t] # <<>> => t = cur
         /\ ~ ifl
<1>1. cur \in Threads /\ frames[cur] \in Seq(Frames) /\ frames[cur] # <<>>
  BY DEF IInv, TypeOK, InHandler
<1>2. Len(frames[cur]) <= 1
  BY <1>1 DEF IInv, HandlersMasked
<1>3. Len(frames[cur]) = 1
  <2> DEFINE n == Len(frames[cur])
  <2>1. n \in Nat /\ n # 0 /\ n <= 1
    BY <1>1, <1>2, LenProperties, EmptySeq
  <2> HIDE DEF n
  <2>2. n = 1
    BY <2>1
  <2> QED
    BY <2>2 DEF n
<1>4. frames[cur][1] \in Frames
  BY <1>1, <1>3, ElementOfSeq
<1>5. \A t \in Threads : frames[t] # <<>> => t = cur
  BY <1>1 DEF IInv, HandlersMasked
<1> QED
  BY <1>1, <1>3, <1>4, <1>5 DEF Depth, Top, IInv, HandlersMasked

\* Moving the program counter of the one frame moves nothing else.
LEMMA AtPcFrames ==
  ASSUME IInv, InHandler, NEW p \in {"eoi", "common", "iret"}
  PROVE  /\ AtPc(p) \in [Threads -> Seq(Frames)]
         /\ AtPc(p)[cur] = <<[irq |-> Top.irq, pc |-> p]>>
         /\ \A t \in Threads : t # cur => AtPc(p)[t] = <<>>
<1>1. /\ Depth = 1
      /\ Top = frames[cur][1]
      /\ Top \in Frames
      /\ \A t \in Threads : frames[t] # <<>> => t = cur
  BY OneFrame
<1>2. frames \in [Threads -> Seq(Frames)] /\ cur \in Threads
  BY DEF IInv, TypeOK
<1> DEFINE f == [irq |-> Top.irq, pc |-> p]
<1>3. f \in Frames
  BY <1>1 DEF Frames
<1>4. [Top EXCEPT !.pc = p] = f
  BY <1>1 DEF Frames
<1>5. frames[cur] = <<Top>>
  BY <1>1, <1>2 DEF Depth
<1>6. [frames[cur] EXCEPT ![1] = [frames[cur][1] EXCEPT !.pc = p]] = <<f>>
  BY <1>1, <1>4, <1>5
<1>7. AtPc(p) = [frames EXCEPT ![cur] = <<f>>]
  BY <1>1, <1>2, <1>6 DEF AtPc
<1>8. <<f>> \in Seq(Frames)
  BY <1>3
<1> QED
  BY <1>1, <1>2, <1>7, <1>8
\* The initial state: nothing is in service and no handler has been entered.
LEMMA InitIInv == Init => IInv
<1> SUFFICES ASSUME Init PROVE IInv
  OBVIOUS
<1>1. TypeOK
  BY InterruptsAssumption DEF Init, TypeOK, Threads, Idle
<1>2. \A t \in Threads : frames[t] = <<>>
  BY DEF Init
<1>3. Len(<<>>) = 0
  OBVIOUS
<1> QED
  BY <1>1, <1>2, <1>3 DEF Init, IInv, InServiceDrained, HandlersMasked, Owned

\* Entering a handler with the bits b1 and b2 set for its line
LEMMA EnterKeeps ==
  ASSUME IInv, NEW l \in (0 .. 15) \ {2}, ifl, Enter(l), ready' = ready, cur' = cur, asleep' = asleep,
         irr' \subseteq Lines, isr1' \subseteq {Master(l)}, isr2' \subseteq SlaveBits(l)
  PROVE  IInv'
<1> DEFINE f == [irq |-> l, pc |-> IF l \in {0, 1, 3, 4, 7, 15} THEN "body" ELSE "common"]
<1>1. frames \in [Threads -> Seq(Frames)] /\ cur \in Threads
  BY DEF IInv, TypeOK
<1>2. \A t \in Threads : frames[t] = <<>>
  BY DEF IInv, HandlersMasked
<1>3. f \in Frames
  BY DEF Frames
<1>4. frames' = [frames EXCEPT ![cur] = <<f>>]
  <2>1. frames[cur] = <<>>
    BY <1>1, <1>2
  <2>2. Append(<<>>, f) = <<f>>
    OBVIOUS
  <2> QED
    BY <1>1, <2>1, <2>2 DEF Enter
<1>5. <<f>> \in Seq(Frames) /\ Len(<<f>>) = 1 /\ <<f>>[1] = f /\ <<f>> # <<>>
  BY <1>3
<1> HIDE DEF f
<1>6. /\ frames' \in [Threads -> Seq(Frames)]
      /\ frames'[cur] = <<f>>
      /\ \A t \in Threads : t # cur => frames'[t] = <<>>
  BY <1>1, <1>2, <1>4, <1>5
<1>7. Master(l) \in 0 .. 7 /\ SlaveBits(l) \subseteq 8 .. 15
  BY DEF Master, SlaveBits
<1>8. TypeOK'
  BY <1>6, <1>7 DEF IInv, TypeOK, Enter
<1>9. HandlersMasked' /\ InServiceDrained'
  BY <1>1, <1>5, <1>6 DEF HandlersMasked, InServiceDrained, Enter
<1>10. f.irq = l /\ f.pc # "iret"
  BY DEF f
<1>11. Owned'
  <2> SUFFICES ASSUME NEW t \in Threads, frames'[t] # <<>>
              PROVE  /\ isr1' \subseteq {Master(frames'[t][1].irq)}
                     /\ isr2' \subseteq SlaveBits(frames'[t][1].irq)
                     /\ frames'[t][1].pc # "iret"
    BY DEF Owned, SlaveBits, Master
  <2>1. frames'[t][1] = f
    BY <1>5, <1>6
  <2> QED
    BY <2>1, <1>10
<1> QED
  BY <1>8, <1>9, <1>11 DEF IInv

\* A step of the one unfinished handler that moves its program counter to p
LEMMA AtPcKeeps ==
  ASSUME IInv, InHandler, NEW p \in {"eoi", "common", "iret"},
         frames' = AtPc(p), ifl' = ifl, irr' = irr, cur' \in Threads,
         ready' \subseteq Threads \ {Idle},
         asleep' \in [Threads -> Nat], isr1' \subseteq isr1, isr2' \subseteq isr2,
         p = "iret" => isr1' = {} /\ isr2' = {}
  PROVE  IInv'
<1> DEFINE f == [irq |-> Top.irq, pc |-> p]
<1>1. /\ Top = frames[cur][1]
      /\ Top \in Frames
      /\ ~ ifl
      /\ cur \in Threads
  BY OneFrame DEF IInv, TypeOK
<1>2. /\ frames' \in [Threads -> Seq(Frames)]
      /\ frames'[cur] = <<f>>
      /\ \A t \in Threads : t # cur => frames'[t] = <<>>
  BY AtPcFrames
<1>3. f.irq = Top.irq /\ f.pc = p
  OBVIOUS
<1>4. Len(<<f>>) = 1 /\ <<f>>[1] = f /\ <<f>> # <<>> /\ Len(<<>>) = 0
  OBVIOUS
<1> HIDE DEF f
<1>5. TypeOK'
  BY <1>2 DEF IInv, TypeOK
<1>6. HandlersMasked' /\ InServiceDrained'
  <2>1. ~ ifl'
    BY <1>1
  <2>2. \A t \in Threads : Len(frames'[t]) <= 1
    <3> SUFFICES ASSUME NEW t \in Threads PROVE Len(frames'[t]) <= 1
      OBVIOUS
    <3>1. CASE t = cur
      <4>1. Len(frames'[t]) = 1
        BY <1>2, <1>4, <3>1, Zenon
      <4> QED
        BY <4>1
    <3>2. CASE t # cur
      BY <1>2, <1>4, <3>2
    <3> QED
      BY <3>1, <3>2
  <2>3. \A t, u \in Threads : frames'[t] # <<>> /\ frames'[u] # <<>> => t = u
    BY <1>2
  <2> QED
    BY <2>1, <2>2, <2>3, Zenon DEF HandlersMasked, InServiceDrained
<1>7. isr1 \subseteq {Master(Top.irq)} /\ isr2 \subseteq SlaveBits(Top.irq)
  BY <1>1 DEF IInv, Owned, InHandler
<1>8. Owned'
  <2> SUFFICES ASSUME NEW t \in Threads, frames'[t] # <<>>
              PROVE  /\ isr1' \subseteq {Master(frames'[t][1].irq)}
                     /\ isr2' \subseteq SlaveBits(frames'[t][1].irq)
                     /\ frames'[t][1].pc = "iret" => isr1' = {} /\ isr2' = {}
    BY DEF Owned, SlaveBits, Master
  <2>1. frames'[t][1] = f
    BY <1>2, <1>4
  <2> QED
    BY <2>1, <1>3, <1>7
<1> QED
  BY <1>5, <1>6, <1>8 DEF IInv

\* Steps that leave the stacks, the flag and the PIC alone keep the invariant.
LEMMA ThreadStep ==
  ASSUME IInv, cur' \in Threads, ready' \subseteq Threads \ {Idle}, asleep' \in [Threads -> Nat],
         irr' \subseteq Lines, UNCHANGED <<ifl, isr1, isr2, frames>>
  PROVE  IInv'
BY DEF IInv, TypeOK, InServiceDrained, HandlersMasked, Owned

\* The handler of the only frame ends what its line has in service.
LEMMA EoiDrains ==
  ASSUME IInv, InHandler
  PROVE  /\ EOI(isr1) = {} /\ (IF Top.irq >= 8 THEN EOI(isr2) ELSE isr2) = {}
         /\ isr1 \subseteq {Master(Top.irq)}
<1>1. Top = frames[cur][1] /\ Top \in Frames /\ cur \in Threads
  BY OneFrame DEF IInv, TypeOK
<1>2. isr1 \subseteq {Master(Top.irq)} /\ isr2 \subseteq SlaveBits(Top.irq)
  BY <1>1 DEF IInv, Owned, InHandler
<1>3. Top.irq \in Int /\ Master(Top.irq) \in Int
  BY <1>1 DEF Frames, Master
<1>4. EOI(isr1) = {}
  BY <1>2, <1>3, DrainOne
<1>5. CASE Top.irq >= 8
  <2>1. isr2 \subseteq {Top.irq}
    BY <1>2, <1>5 DEF SlaveBits
  <2> QED
    BY <2>1, <1>2, <1>3, <1>4, <1>5, DrainOne
<1>6. CASE ~ (Top.irq >= 8)
  BY <1>2, <1>4, <1>6 DEF SlaveBits
<1> QED
  BY <1>5, <1>6

\* Every step keeps the invariant.
LEMMA NextIInv == IInv /\ [Next]_vars => IInv'
<1> SUFFICES ASSUME IInv, [Next]_vars PROVE IInv'
  OBVIOUS
<1>0. /\ cur \in Threads /\ ready \subseteq Threads \ {Idle} /\ asleep \in [Threads -> Nat]
      /\ irr \subseteq Lines
  BY DEF IInv, TypeOK
<1>1. ASSUME NEW l \in Lines, raise(l) PROVE IInv'
  BY <1>0, <1>1, ThreadStep DEF raise
<1>2. ASSUME NEW l \in Lines, Interruptible(l)
      PROVE  /\ l \in (0 .. 15) \ {2} /\ ifl /\ isr1 = {} /\ isr2 = {}
             /\ irr' \subseteq Lines /\ ready' = ready /\ cur' = cur /\ asleep' = asleep
  BY <1>0, <1>2, InterruptsAssumption DEF Interruptible, IInv, InServiceDrained
<1>3. ASSUME NEW l \in Lines, deliver(l) PROVE IInv'
  <2>1. isr1' \subseteq {Master(l)} /\ isr2' \subseteq SlaveBits(l)
    BY <1>2, <1>3 DEF deliver, SlaveBits
  <2> QED
    BY <1>2, <1>3, <2>1, EnterKeeps DEF deliver
<1>4. ASSUME NEW l \in Lines, spurious(l) PROVE IInv'
  <2> DEFINE v == IF l >= 8 THEN 15 ELSE 7
  <2>1. v \in (0 .. 15) \ {2} /\ isr1' \subseteq {Master(v)} /\ isr2' \subseteq SlaveBits(v)
    BY <1>2, <1>4 DEF spurious, SlaveBits, Master
  <2>2. Enter(v)
    BY <1>4 DEF spurious
  <2> HIDE DEF v
  <2> QED
    BY <1>2, <1>4, <2>1, <2>2, EnterKeeps DEF spurious
<1>5. CASE pit_handle_tick
  <2>1. asleep' \in [Threads -> Nat] /\ cur' \in Threads /\ ready' \subseteq Threads \ {Idle}
    BY <1>0, <1>5 DEF pit_handle_tick, SwitchTo, Dormant
  <2> QED
    BY <1>5, <2>1, AtPcKeeps DEF pit_handle_tick
<1>6. CASE device_handler
  BY <1>0, <1>6, AtPcKeeps DEF device_handler
<1>7. CASE handler_eoi
  <2>1. isr1' \subseteq isr1 /\ isr2' \subseteq isr2
    BY <1>7 DEF handler_eoi, pic_send_eoi, EOI
  <2> QED
    BY <1>0, <1>7, <2>1, AtPcKeeps DEF handler_eoi
<1>8. CASE common_eoi
  <2>1. isr1' = {} /\ isr2' = {}
    BY <1>8, EoiDrains DEF common_eoi, pic_send_eoi
  <2> QED
    BY <1>0, <1>8, <2>1, AtPcKeeps DEF common_eoi
<1>9. CASE iret
  <2>1. InHandler /\ Depth = 1 /\ Top = frames[cur][1] /\ frames \in [Threads -> Seq(Frames)]
    BY <1>9, OneFrame DEF iret, IInv, TypeOK
  <2>2. isr1 = {} /\ isr2 = {}
    BY <1>0, <1>9, <2>1 DEF iret, IInv, Owned, InHandler
  <2>3. SubSeq(frames[cur], 1, 0) = <<>>
    BY <1>0, <2>1
  <2>4. frames' = [frames EXCEPT ![cur] = <<>>]
    <3>1. Depth - 1 = 0
      BY <2>1
    <3>2. frames' = [frames EXCEPT ![cur] = SubSeq(frames[cur], 1, Depth - 1)]
      BY <1>9 DEF iret
    <3> QED
      BY <2>3, <3>1, <3>2, Zenon
  <2>5. \A t \in Threads : t # cur => frames[t] = <<>>
    BY <2>1, OneFrame
  <2>6. \A t \in Threads : frames'[t] = <<>>
    BY <1>0, <2>1, <2>4, <2>5
  <2>7. frames' \in [Threads -> Seq(Frames)]
    BY <1>0, <2>1, <2>4
  <2>8. TypeOK'
    BY <1>9, <2>7 DEF iret, IInv, TypeOK
  <2>9. HandlersMasked'
    BY <2>6 DEF HandlersMasked
  <2>10. InServiceDrained' /\ Owned'
    BY <1>9, <2>2, <2>6 DEF iret, InServiceDrained, Owned
  <2> QED
    BY <2>8, <2>9, <2>10 DEF IInv
<1>10. CASE yield
  BY <1>0, <1>10, ThreadStep DEF yield, SwitchTo
<1>13. CASE block
  BY <1>0, <1>13, ThreadStep DEF block, SwitchTo
<1>14. ASSUME NEW t \in Threads, proc_create(t) PROVE IInv'
  BY <1>0, <1>14, ThreadStep DEF proc_create, Dormant
<1>11. ASSUME NEW d \in Ticks, pit_sleep_ms(d) PROVE IInv'
  <2>1. d + 1 \in Nat
    BY InterruptsAssumption
  <2>2. asleep' \in [Threads -> Nat]
    BY <1>0, <1>11, <2>1 DEF pit_sleep_ms
  <2> QED
    BY <1>0, <1>11, <2>2, ThreadStep DEF pit_sleep_ms
<1>12. CASE UNCHANGED vars
  BY <1>0, <1>12, ThreadStep DEF vars
<1> QED
  BY <1>1, <1>3, <1>4, <1>5, <1>6, <1>7, <1>8, <1>9, <1>10, <1>11, <1>12, <1>13, <1>14 DEF Next

(* Type correctness of the interrupt path.                                 *)
THEOREM TypeCorrect == Spec => []TypeOK
<1>1. IInv => TypeOK
  BY DEF IInv
<1> QED
  BY <1>1, InitIInv, NextIInv, PTL DEF Spec

(* For any number of threads and lines: no thread runs with interrupts     *)
(* enabled while a handler is unfinished, and handlers never nest, with a  *)
(* context_switch that keeps no interrupt flag (idt.c, scheduler.c).       *)
THEOREM HandlersMaskedAlways == Spec => []HandlersMasked
<1>1. IInv => HandlersMasked
  BY DEF IInv
<1> QED
  BY <1>1, InitIInv, NextIInv, PTL DEF Spec

(* Nothing is left in service when interrupts are enabled (pic_send_eoi).  *)
THEOREM InServiceDrainedAlways == Spec => []InServiceDrained
<1>1. IInv => InServiceDrained
  BY DEF IInv
<1> QED
  BY <1>1, InitIInv, NextIInv, PTL DEF Spec

(* Though every handler's line is ended twice, no EOI ever ends another    *)
(* line's interrupt (pic_irq.c, isr_common_handler).                       *)
THEOREM EoiOwnLineAlways == Spec => EoiOwnLine
<1> DEFINE Own == \A l \in isr1 \ isr1' : InHandler /\ l = Master(Top.irq)
<1>1. ASSUME IInv, [Next]_vars PROVE [Own]_vars
  <2>1. ASSUME NEW l \in Lines, raise(l) PROVE Own
    BY <2>1 DEF raise
  <2>2. ASSUME NEW l \in Lines, deliver(l) PROVE Own
    BY <2>2 DEF deliver
  <2>3. ASSUME NEW l \in Lines, spurious(l) PROVE Own
    BY <2>3 DEF spurious
  <2>4. CASE pit_handle_tick \/ device_handler \/ iret \/ yield \/ block
    BY <2>4 DEF pit_handle_tick, device_handler, iret, yield, block
  <2>5. CASE handler_eoi \/ common_eoi
    <3>1. InHandler
      BY <2>5 DEF handler_eoi, common_eoi
    <3> QED
      BY <1>1, <3>1, EoiDrains
  <2>6. ASSUME NEW d \in Ticks, pit_sleep_ms(d) PROVE Own
    BY <2>6 DEF pit_sleep_ms
  <2>7. ASSUME NEW t \in Threads, proc_create(t) PROVE Own
    BY <2>7 DEF proc_create
  <2> QED
    BY <1>1, <2>1, <2>2, <2>3, <2>4, <2>5, <2>6, <2>7 DEF Next
<1> QED
  BY <1>1, InitIInv, NextIInv, PTL DEF Spec, EoiOwnLine

\* Interrupts are disabled on behalf of a handler only, and its thread is in
\* line for the CPU: idle, which runs when nobody is, finds none unfinished.
Suspended ==
  /\ ifl \/ \E t \in Threads : frames[t] # <<>>
  /\ cur = Idle \/ cur \in ready
  /\ \A t \in Threads : frames[t] # <<>> => t = cur \/ (t \in ready /\ cur # Idle)

\* A handler's step that is not its last keeps Suspended, whoever runs next.
LEMMA HandlerSuspended ==
  ASSUME IInv, Suspended, InHandler, NEW p \in {"eoi", "common", "iret"}, frames' = AtPc(p),
         ready \subseteq ready', ready' \subseteq Threads \ {Idle},
         cur' = cur \/ (cur # Idle /\ \E t \in Threads : SwitchTo(ready', t))
  PROVE  Suspended'
<1> DEFINE f == [irq |-> Top.irq, pc |-> p]
<1>1. /\ frames'[cur] = <<f>>
      /\ \A t \in Threads : t # cur => frames'[t] = <<>>
  BY AtPcFrames
<1>2. <<f>> # <<>>
  OBVIOUS
<1> HIDE DEF f
<1>3. cur \in Threads /\ (cur = Idle \/ cur \in ready')
  BY DEF IInv, TypeOK, Suspended
<1>4. CASE cur' = cur
  BY <1>1, <1>2, <1>3, <1>4 DEF Suspended
<1>5. CASE cur # Idle /\ \E t \in Threads : SwitchTo(ready', t)
  <2>1. cur \in ready' /\ cur' \in ready'
    BY <1>3, <1>5 DEF SwitchTo
  <2>2. \A t \in Threads : frames'[t] # <<>> => t \in ready' /\ cur' # Idle
    BY <1>1, <2>1
  <2>3. \E t \in Threads : frames'[t] # <<>>
    BY <1>1, <1>2, <1>3
  <2> QED
    BY <2>1, <2>2, <2>3 DEF Suspended
<1> QED
  BY <1>4, <1>5

\* Every step keeps Suspended.
LEMMA NextSuspended == IInv /\ IInv' /\ Suspended /\ [Next]_vars => Suspended'
<1> SUFFICES ASSUME IInv, IInv', Suspended, [Next]_vars PROVE Suspended'
  OBVIOUS
<1>0. cur \in Threads /\ ready \subseteq Threads \ {Idle} /\ ready' \subseteq Threads \ {Idle}
  BY DEF IInv, TypeOK
<1>1. CASE UNCHANGED <<ifl, frames, cur>> /\ ready \subseteq ready'
  BY <1>1 DEF Suspended
<1>2. ASSUME NEW l, Interruptible(l), NEW k, Enter(k) PROVE Suspended'
  <2>1. \A t \in Threads : frames[t] = <<>>
    BY <1>2 DEF Interruptible, IInv, HandlersMasked
  <2> DEFINE f == [irq |-> k, pc |-> IF k \in {0, 1, 3, 4, 7, 15} THEN "body" ELSE "common"]
  <2>2. frames \in [Threads -> Seq(Frames)] /\ frames[cur] = <<>>
    BY <1>0, <2>1 DEF IInv, TypeOK
  <2>3. Append(<<>>, f) = <<f>> /\ <<f>> # <<>>
    OBVIOUS
  <2>4. frames' = [frames EXCEPT ![cur] = <<f>>]
    BY <1>2, <2>2, <2>3 DEF Enter
  <2> HIDE DEF f
  <2>5. frames'[cur] # <<>> /\ \A t \in Threads : t # cur => frames'[t] = <<>>
    BY <1>0, <2>1, <2>2, <2>3, <2>4
  <2>6. cur' = cur /\ ready' = ready
    BY <1>2 DEF Interruptible
  <2> QED
    BY <1>0, <2>5, <2>6 DEF Suspended
<1>3. CASE pit_handle_tick
  <2>1. ready \subseteq ready' /\ (cur' = cur \/ (cur # Idle /\ \E t \in Threads : SwitchTo(ready', t)))
    BY <1>3 DEF pit_handle_tick
  <2>2. InHandler /\ frames' = AtPc("eoi")
    BY <1>3 DEF pit_handle_tick
  <2> QED
    BY <1>0, <2>1, <2>2, HandlerSuspended
<1>4. CASE device_handler
  BY <1>0, <1>4, HandlerSuspended DEF device_handler
<1>5. CASE handler_eoi
  BY <1>0, <1>5, HandlerSuspended DEF handler_eoi
<1>6. CASE common_eoi
  BY <1>0, <1>6, HandlerSuspended DEF common_eoi
<1>7. CASE iret
  <2>1. ifl' /\ cur' = cur /\ ready' = ready
    BY <1>7 DEF iret
  <2>2. \A t \in Threads : frames'[t] = <<>>
    BY <2>1 DEF IInv, HandlersMasked
  <2> QED
    BY <2>1, <2>2 DEF Suspended
<1>8. ASSUME ~ InHandler, UNCHANGED <<ifl, frames>>, ready \ {cur} \subseteq ready',
             \E t \in Threads : SwitchTo(ready', t)
      PROVE  Suspended'
  <2>1. \A t \in Threads : frames'[t] # <<>> => t \in ready'
    BY <1>0, <1>8 DEF Suspended, InHandler
  <2>2. cur' \in ready' \/ (cur' = Idle /\ ready' = {})
    BY <1>8 DEF SwitchTo
  <2>3. ifl' \/ \E t \in Threads : frames'[t] # <<>>
    BY <1>8 DEF Suspended
  <2> QED
    BY <1>0, <2>1, <2>2, <2>3 DEF Suspended
<1>9. CASE yield
  BY <1>8, <1>9 DEF yield
<1>10. CASE block
  BY <1>8, <1>10 DEF block
<1>11. CASE UNCHANGED vars
  BY <1>1, <1>11 DEF vars
<1>12. ASSUME NEW l \in Lines, raise(l) PROVE Suspended'
  BY <1>1, <1>12 DEF raise
<1>13. ASSUME NEW l \in Lines, deliver(l) PROVE Suspended'
  BY <1>2, <1>13 DEF deliver
<1>14. ASSUME NEW l \in Lines, spurious(l) PROVE Suspended'
  BY <1>2, <1>14 DEF spurious
<1>15. ASSUME NEW t \in Threads, proc_create(t) PROVE Suspended'
  BY <1>1, <1>15 DEF proc_create
<1>16. ASSUME NEW d \in Ticks, pit_sleep_ms(d) PROVE Suspended'
  BY <1>1, <1>16 DEF pit_sleep_ms
<1> QED
  BY <1>3, <1>4, <1>5, <1>6, <1>7, <1>9, <1>10, <1>11, <1>12, <1>13, <1>14, <1>15, <1>16 DEF Next

(* Idle never runs, and so never halts the CPU, with interrupts disabled   *)
(* outside of a handler of its own (kmain's idle loop, scheduler.c).       *)
THEOREM IdleInterruptibleAlways == Spec => []IdleInterruptible
<1>1. Init => Suspended
  BY DEF Init, Suspended
<1>2. ASSUME IInv, Suspended PROVE IdleInterruptible
  <2> SUFFICES ASSUME cur = Idle, ~ InHandler, ~ ifl PROVE FALSE
    BY DEF IdleInterruptible
  <2>1. PICK t \in Threads : frames[t] # <<>>
    BY <1>2 DEF Suspended
  <2>2. t = cur
    BY <1>2, <2>1 DEF Suspended
  <2> QED
    BY <2>1, <2>2 DEF InHandler
<1> QED
  BY <1>1, <1>2, InitIInv, NextIInv, NextSuspended, PTL DEF Spec
=============================================================================
