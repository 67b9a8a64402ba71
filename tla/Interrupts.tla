----------------------------- MODULE Interrupts -----------------------------
(***************************************************************************)
(* Hardware interrupts from the 8259 pair to iretq, and what a context     *)
(* switch from inside the timer handler does to them: isr_stubs.asm, the   *)
(* IRQ branch of isr_common_handler (hal/idt/idt.c), the handlers of       *)
(* drivers/pic/pic_irq.c, pic_send_eoi, pit_handle_tick and context_switch.*)
(*                                                                         *)
(* The scheduler is taken at what RoundRobin promises: ready threads take  *)
(* turns, by number here, and thread 0, the idle process, which is not     *)
(* queued, runs when there is none.                                        *)
(* frames[t] is what interrupts have left on the kernel stack of t, the    *)
(* innermost last: the line served and how far its handler has come,       *)
(*   "body"    the device's handler is to be called                        *)
(*   "eoi"     it is about to send its own end-of-interrupt                *)
(*   "common"  isr_common_handler is about to send another                 *)
(*   "iret"    the stub is about to return.                                *)
(* context_switch saves neither RFLAGS nor anything of the PIC: a thread   *)
(* resumes where it left off under the interrupt flag of the thread it     *)
(* takes over from.  The PIC is external: fixed priorities, fully nested   *)
(* mode, non-specific EOI.                                                 *)
(***************************************************************************)
EXTENDS Integers, Sequences, FiniteSets

CONSTANTS N,          \* number of threads
          Lines,      \* unmasked interrupt lines
          Ticks       \* lengths of the pit_sleep_ms calls made, in ticks

ASSUME InterruptsAssumption ==
  /\ N \in Nat \ {0}
  /\ Lines \subseteq (0 .. 15) \ {2}
  /\ Ticks \subseteq Nat

Threads == 0 .. N-1
Idle == 0

VARIABLES ifl,      \* the interrupt flag of the CPU
          irr,      \* lines whose request is pending
          isr1,     \* in-service lines of the master PIC, 2 for the slave
          isr2,     \* in-service lines of the slave PIC
          ready,    \* the threads that are ready or running, other than idle
          cur,      \* the thread on the CPU
          frames,   \* frames[t]: interrupt frames on the stack of t
          asleep    \* asleep[t]: ticks until pit_sleep_ms returns in t

vars == <<ifl, irr, isr1, isr2, ready, cur, frames, asleep>>

Frames == [irq : (0 .. 15) \ {2}, pc : {"body", "eoi", "common", "iret"}]

\* The type of every variable.
TypeOK ==
  /\ ifl \in BOOLEAN
  /\ irr \subseteq Lines
  /\ isr1 \subseteq 0 .. 7
  /\ isr2 \subseteq 8 .. 15
  /\ ready \subseteq Threads \ {Idle}
  /\ cur \in Threads
  /\ frames \in [Threads -> Seq(Frames)]
  /\ asleep \in [Threads -> Nat]
-----------------------------------------------------------------------------
(* The PIC *)

\* The line of the master through which line l arrives
Master(l) == IF l < 8 THEN l ELSE 2

\* l is requested and nothing of its priority or above is in service
Deliverable(l) ==
  /\ l \in irr
  /\ \A k \in isr1 : Master(l) < k
  /\ l >= 8 => \A k \in isr2 : l < k

\* a comes before b in the order of priorities
Before(a, b) == Master(a) < Master(b) \/ (Master(a) = Master(b) /\ a < b)

\* Non-specific EOI: end the in-service line of the highest priority
EOI(S) == {l \in S : \E k \in S : k < l}

\* Faulty variant: nothing is sent to the slave
pic_send_eoi_master(l) == isr1' = EOI(isr1) /\ isr2' = isr2

pic_send_eoi(l) ==
  /\ isr1' = EOI(isr1)
  /\ isr2' = IF l >= 8 THEN EOI(isr2) ELSE isr2

\* A device requests service
raise(l) ==
  /\ irr' = irr \cup {l}
  /\ UNCHANGED <<ifl, isr1, isr2, ready, cur, frames, asleep>>
-----------------------------------------------------------------------------
(* Entry, handlers and return *)

Depth == Len(frames[cur])
Top == frames[cur][Depth]
InHandler == frames[cur] # <<>>
AtPc(p) == [frames EXCEPT ![cur][Depth].pc = p]

\* The stub of line l is entered through an interrupt gate
Enter(l) ==
  /\ frames' = [frames EXCEPT ![cur] =
                  Append(@, [irq |-> l,
                             pc |-> IF l \in {0, 1, 3, 4, 7, 15} THEN "body" ELSE "common"])]
  /\ ifl' = FALSE

Interruptible(l) ==
  /\ ifl
  /\ Deliverable(l)
  /\ \A k \in irr : Deliverable(k) /\ k # l => Before(l, k)
  /\ irr' = irr \ {l}
  /\ UNCHANGED <<ready, cur, asleep>>

\* The CPU acknowledges the request of line l
deliver(l) ==
  /\ Interruptible(l)
  /\ isr1' = isr1 \cup {Master(l)}
  /\ isr2' = IF l >= 8 THEN isr2 \cup {l} ELSE isr2
  /\ Enter(l)

\* The request of line l goes away before it is acknowledged: its PIC answers
\* with the vector of its last line, and sets no bit for it
spurious(l) ==
  /\ Interruptible(l)
  /\ isr1' = IF l >= 8 THEN isr1 \cup {2} ELSE isr1
  /\ isr2' = isr2
  /\ Enter(IF l >= 8 THEN 15 ELSE 7)

\* scheduler_yield switches to t when the threads in R are ready
SwitchTo(R, t) ==
  /\ IF R = {}
     THEN t = Idle
     ELSE t \in R /\ \A u \in R : (t - cur - 1) % N <= (u - cur - 1) % N
  /\ cur' = t

\* Threads that are not ready: they sleep in proc_sleep, or are yet to be created
Dormant == Threads \ (ready \cup {Idle})

\* pit_handle_tick: wake those whose time has come, and preempt the current
\* thread unless it is idle
pit_handle_tick ==
  /\ InHandler
  /\ Top = [irq |-> 0, pc |-> "body"]
  /\ asleep' = [t \in Threads |-> IF asleep[t] > 0 THEN asleep[t] - 1 ELSE 0]
  /\ frames' = AtPc("eoi")
  /\ \E W \in SUBSET Dormant :
       /\ ready' = ready \cup W
       /\ IF cur = Idle THEN cur' = cur ELSE \E t \in Threads : SwitchTo(ready', t)
  /\ UNCHANGED <<ifl, irr, isr1, isr2>>

\* The handlers of the other lines serve their device and switch to nobody
device_handler ==
  /\ InHandler
  /\ Top.pc = "body"
  /\ Top.irq # 0
  /\ frames' = AtPc("eoi")
  /\ UNCHANGED <<ifl, irr, isr1, isr2, ready, cur, asleep>>

\* The end of a pic_handle_irq: lines 7 and 15 look for a spurious interrupt
handler_eoi ==
  /\ InHandler
  /\ Top.pc = "eoi"
  /\ frames' = AtPc("common")
  /\ CASE Top.irq = 7 /\ 7 \notin isr1 -> UNCHANGED <<isr1, isr2>>
       [] Top.irq = 15 /\ 15 \notin isr2 -> isr1' = EOI(isr1) /\ isr2' = isr2
       [] OTHER -> pic_send_eoi(Top.irq)
  /\ UNCHANGED <<ifl, irr, ready, cur, asleep>>

\* Faulty variant: the common handler leaves the EOI to the device's handler
common_eoi_left_out ==
  /\ InHandler
  /\ Top.pc = "common"
  /\ frames' = AtPc("iret")
  /\ UNCHANGED <<ifl, irr, isr1, isr2, ready, cur, asleep>>

\* The EOI that isr_common_handler sends for every line, after its handler's own
common_eoi ==
  /\ InHandler
  /\ Top.pc = "common"
  /\ frames' = AtPc("iret")
  /\ pic_send_eoi(Top.irq)
  /\ UNCHANGED <<ifl, irr, ready, cur, asleep>>


\* iretq restores the RFLAGS of the interrupted code, which had interrupts enabled
iret ==
  /\ InHandler
  /\ Top.pc = "iret"
  /\ frames' = [frames EXCEPT ![cur] = SubSeq(@, 1, Depth - 1)]
  /\ ifl' = TRUE
  /\ UNCHANGED <<irr, isr1, isr2, ready, cur, asleep>>
-----------------------------------------------------------------------------
(* The threads' own code *)

\* The current thread gives up the CPU
yield ==
  /\ ~ InHandler
  /\ asleep[cur] = 0
  /\ \E t \in Threads : SwitchTo(ready, t)
  /\ UNCHANGED <<ifl, irr, isr1, isr2, ready, frames, asleep>>

\* The current thread leaves the ready queue: proc_sleep and proc_exit
block ==
  /\ ~ InHandler
  /\ asleep[cur] = 0
  /\ cur # Idle
  /\ ready' = ready \ {cur}
  /\ \E t \in Threads : SwitchTo(ready', t)
  /\ UNCHANGED <<ifl, irr, isr1, isr2, frames, asleep>>

\* The current thread creates another
proc_create(t) ==
  /\ ~ InHandler
  /\ asleep[cur] = 0
  /\ t \in Dormant
  /\ ready' = ready \cup {t}
  /\ UNCHANGED <<ifl, irr, isr1, isr2, cur, frames, asleep>>

\* pit_sleep_ms: the thread halts until the tick counter has passed its target
pit_sleep_ms(d) ==
  /\ ~ InHandler
  /\ asleep[cur] = 0
  /\ asleep' = [asleep EXCEPT ![cur] = d + 1]
  /\ UNCHANGED <<ifl, irr, isr1, isr2, ready, cur, frames>>
-----------------------------------------------------------------------------
\* sti at the end of kernel_early_init, in what becomes the idle process
Init ==
  /\ ifl = TRUE
  /\ irr = {}
  /\ isr1 = {}
  /\ isr2 = {}
  /\ ready = {}
  /\ cur = Idle
  /\ frames = [t \in Threads |-> <<>>]
  /\ asleep = [t \in Threads |-> 0]

HandlerStep == pit_handle_tick \/ device_handler \/ handler_eoi \/ common_eoi \/ iret

Next ==
  \/ \E l \in Lines : raise(l)
  \/ \E l \in Lines : deliver(l)
  \/ \E l \in Lines : spurious(l)
  \/ pit_handle_tick
  \/ device_handler
  \/ handler_eoi
  \/ common_eoi
  \/ iret
  \/ yield
  \/ block
  \/ \E t \in Threads : proc_create(t)
  \/ \E d \in Ticks : pit_sleep_ms(d)

Spec == Init /\ [][Next]_vars

\* The PIT keeps requesting, handlers run to their end, an interrupt that can
\* be taken is taken, and a thread yields in time, unless it is idle, or waits
\* in pit_sleep_ms.
FairSpec ==
  /\ Spec
  /\ WF_vars(0 \in Lines /\ raise(0))
  /\ SF_vars(0 \in Lines /\ deliver(0))
  /\ WF_vars(HandlerStep)
  /\ WF_vars(cur # Idle /\ yield)
-----------------------------------------------------------------------------
(* Whenever the CPU accepts interrupts, none is left in service in either  *)
(* PIC: although a handler can be suspended half-way by the switch in      *)
(* pit_handle_tick and finished by another thread's EOI, no line is locked *)
(* out by an interrupt that nobody will end.                               *)
InServiceDrained == ifl => isr1 = {} /\ isr2 = {}

(* idt.h on the gate type of every IRQ: "auto cli on entry, sti on iret".  *)
(* context_switch does not keep the flag per thread, and still no thread   *)
(* ever runs with interrupts enabled while a handler is unfinished, on its *)
(* own stack or suspended on another's; so handlers never nest, and a      *)
(* kernel stack holds one interrupt frame at most.                         *)
HandlersMasked ==
  /\ ifl => \A t \in Threads : frames[t] = <<>>
  /\ \A t, u \in Threads : frames[t] # <<>> /\ frames[u] # <<>> => t = u
  /\ \A t \in Threads : Len(frames[t]) <= 1

(* The end-of-interrupt that every handler sends twice, once itself and    *)
(* once in isr_common_handler, never ends an interrupt of another line.    *)
EoiOwnLine ==
  [][\A l \in isr1 \ isr1' : InHandler /\ l = Master(Top.irq)]_vars

(* docs/ARCHITECTURE.md on kmain: "enters idle loop with interrupts        *)
(* enabled".  They stay enabled there: every other way to resume a thread  *)
(* may leave them disabled, with the timer's interrupt in service, but     *)
(* idle never halts the CPU like that.                                     *)
IdleInterruptible == cur = Idle /\ ~ InHandler => ifl

=============================================================================
