------------------------------- MODULE Locks -------------------------------
(***************************************************************************)
(* Semaphores (ipc/semaphore.c) and spinlocks (include/gOS/spinlock.h).    *)
(*                                                                         *)
(* A process may be preempted between any two accesses to the semaphore:   *)
(* the steps of processes interleave freely.  semaphore_wait tests count   *)
(* in a loop that yields, and decrements it after the loop.  A CPU that    *)
(* takes an interrupt-safe spinlock saves its interrupt flag in the lock   *)
(* before it has the lock.  raced and mixed remember that two processes    *)
(* were between test and decrement, or two CPUs between save and release,  *)
(* at the same time.                                                       *)
(***************************************************************************)
EXTENDS Integers, FiniteSets

CONSTANTS Procs, Initial, Cpus

VARIABLES sem,      \* count and waiters
          at,       \* at[p]: where process p is
          raced,
          lock, irq_flags, iflag, entered, cpu, mixed

semVars == <<sem, at, raced>>
spinVars == <<lock, irq_flags, iflag, entered, cpu, mixed>>

Holding == {p \in Procs : at[p] = "holds"}

SemInit == /\ sem = [count |-> Initial, waiters |-> 0]
           /\ at = [p \in Procs |-> "out"]
           /\ raced = FALSE

semaphore_wait(p) ==
  /\ at[p] = "out"
  /\ sem' = [sem EXCEPT !.waiters = @ + 1]
  /\ at' = [at EXCEPT ![p] = "waits"]
  /\ UNCHANGED raced


\* The loop of semaphore_wait finds count above 0; otherwise it yields
wait_test(p) ==
  /\ at[p] = "waits"
  /\ sem.count > 0
  /\ at' = [at EXCEPT ![p] = "waited"]
  /\ raced' = (raced \/ \E q \in Procs : at[q] \in {"waited", "tried"})
  /\ UNCHANGED sem

semaphore_try_wait(p) ==
  /\ at[p] = "out"
  /\ IF sem.count > 0
     THEN /\ at' = [at EXCEPT ![p] = "tried"]
          /\ raced' = (raced \/ \E q \in Procs : at[q] \in {"waited", "tried"})
     ELSE UNCHANGED <<at, raced>>
  /\ UNCHANGED sem

\* semaphore_wait and semaphore_try_wait go on after the test
sem_take(p) ==
  /\ at[p] \in {"waited", "tried"}
  /\ sem' = [count |-> sem.count - 1, waiters |-> sem.waiters - IF at[p] = "waited" THEN 1 ELSE 0]
  /\ at' = [at EXCEPT ![p] = "holds"]
  /\ UNCHANGED raced


semaphore_signal(p) ==
  /\ at[p] = "holds"
  /\ sem' = [sem EXCEPT !.count = @ + 1]
  /\ at' = [at EXCEPT ![p] = "out"]
  /\ UNCHANGED raced

SemStep(p) == wait_test(p) \/ sem_take(p) \/ semaphore_signal(p)

SemNext == \E p \in Procs : semaphore_wait(p) \/ semaphore_try_wait(p) \/ SemStep(p)
-----------------------------------------------------------------------------
SpinInit(flags) ==
  /\ lock = 0
  /\ irq_flags = FALSE
  /\ iflag \in flags
  /\ entered = iflag
  /\ cpu = [c \in Cpus |-> "out"]
  /\ mixed = FALSE

\* irq_spinlock_acquire up to the cli
irq_spinlock_acquire(c) ==
  /\ cpu[c] = "out"
  /\ irq_flags' = iflag[c]
  /\ entered' = [entered EXCEPT ![c] = iflag[c]]
  /\ iflag' = [iflag EXCEPT ![c] = FALSE]
  /\ cpu' = [cpu EXCEPT ![c] = "spins"]
  /\ mixed' = (mixed \/ \E d \in Cpus : cpu[d] # "out")
  /\ UNCHANGED lock

\* Faulty variant: the test and the exchange are not one instruction
spinlock_acquire_torn(c) ==
  /\ \/ cpu[c] = "spins" /\ lock = 0 /\ cpu' = [cpu EXCEPT ![c] = "saw"] /\ UNCHANGED lock
     \/ cpu[c] = "saw" /\ lock' = 1 /\ cpu' = [cpu EXCEPT ![c] = "holds"]
  /\ UNCHANGED <<irq_flags, iflag, entered, mixed>>

\* The compare and exchange that succeeds; spinlock_try_acquire is the same
spinlock_acquire(c) ==
  /\ cpu[c] = "spins"
  /\ lock = 0
  /\ lock' = 1
  /\ cpu' = [cpu EXCEPT ![c] = "holds"]
  /\ UNCHANGED <<irq_flags, iflag, entered, mixed>>

spinlock_release(c) ==
  /\ cpu[c] = "holds"
  /\ lock' = 0
  /\ cpu' = [cpu EXCEPT ![c] = "restores"]
  /\ UNCHANGED <<irq_flags, iflag, entered, mixed>>

\* Faulty variant: interrupts are enabled whatever they were
irq_spinlock_release_always(c) ==
  /\ cpu[c] = "restores"
  /\ iflag' = [iflag EXCEPT ![c] = TRUE]
  /\ cpu' = [cpu EXCEPT ![c] = "out"]
  /\ UNCHANGED <<lock, irq_flags, entered, mixed>>

\* The end of irq_spinlock_release
irq_spinlock_release(c) ==
  /\ cpu[c] = "restores"
  /\ iflag' = [iflag EXCEPT ![c] = irq_flags \/ @]
  /\ cpu' = [cpu EXCEPT ![c] = "out"]
  /\ UNCHANGED <<lock, irq_flags, entered, mixed>>

SpinNext == \E c \in Cpus : \/ irq_spinlock_acquire(c) \/ spinlock_acquire(c)
                            \/ spinlock_release(c) \/ irq_spinlock_release(c)
-----------------------------------------------------------------------------
(* No signal is lost and none counted twice, and no more processes hold    *)
(* the semaphore than it was made for, as long as no two of them were      *)
(* preempted between their test of count and its decrement.                *)
SemaphoreKept ==
  /\ sem.count + Cardinality(Holding) = Initial
  /\ sem.waiters = Cardinality({p \in Procs : at[p] \in {"waits", "waited"}})
  /\ raced \/ Cardinality(Holding) <= Initial


(* At most one CPU holds the spinlock, with its interrupts off, and after  *)
(* the release its interrupt flag is what it was before the acquire unless *)
(* another CPU has saved its own flag in the same lock meanwhile.          *)
SpinlockKept ==
  /\ \A c, d \in Cpus : cpu[c] = "holds" /\ cpu[d] = "holds" => c = d
  /\ \A c \in Cpus : /\ cpu[c] # "out" => ~ iflag[c]
                     /\ cpu[c] = "out" /\ ~ mixed => iflag[c] = entered[c]

=============================================================================
