----------------------------- MODULE Scheduler -----------------------------
(***************************************************************************)
(* The process table (proc/proc.c) and the round-robin scheduler           *)
(* (proc/scheduler.c) on one CPU, down to the pointers of the intrusive    *)
(* doubly linked ready queue.                                              *)
(*                                                                         *)
(* A process is its slot in g_process_table; slot 0 is the idle process.   *)
(* The ready queue is the record rq: the two globals head and tail and the *)
(* next and prev members of every slot, with NULL for a null pointer.      *)
(* Nothing in the model keeps the list well formed: add and remove do what *)
(* the C does to the pointers they find, member of the queue or not.       *)
(*                                                                         *)
(* The two loops of the scheduler run one iteration per step: kpc is "run" *)
(* while the current process executes its own code, "wake" inside the      *)
(* wake-up loop of scheduler_tick and "scan" inside the loop of            *)
(* scheduler_yield that skips processes that are not ready; cursor is the  *)
(* loop variable.  No operation starts before the one under way returns:   *)
(* the timer does not interrupt the scheduler's own code here.             *)
(*                                                                         *)
(* Time is relative: wake[s] is wake_time minus g_scheduler_ticks, floored *)
(* at 0, and NoWake stands for wake_time = 0.  proc_sleep reads the PIT    *)
(* tick counter, which is Skew ticks ahead of g_scheduler_ticks because    *)
(* scheduler_init zeroes only the latter.                                  *)
(***************************************************************************)
EXTENDS Integers, Sequences, FiniteSets

CONSTANTS N,              \* PROC_MAX_PROCESSES
          MaxPid,         \* bound on the pids handed out
          Sleeps,         \* the sleep lengths tried, in whole ticks
          Skew,           \* PIT ticks counted before scheduler_init
          IdleYields,     \* states of the idle process in which it calls yield
          DestroyStates   \* states of the processes handed to proc_destroy

ASSUME SchedulerAssumption ==
  /\ N \in Nat \ {0}
  /\ MaxPid \in Nat
  /\ Sleeps \subseteq Nat
  /\ Skew \in Nat

Slots == 0 .. N-1
NULL == -1
NoWake == -1
Idle == 0
Link == Slots \cup {NULL}
States == {"UNUSED", "READY", "RUNNING", "BLOCKED", "ZOMBIE"}

VARIABLES state,    \* state[s]: process_t.state
          pid,      \* pid[s]: process_t.pid
          stack,    \* stack[s]: a kernel stack is allocated to the slot
          wake,     \* wake[s]: ticks until wake_time, or NoWake
          rq,       \* head, tail, next and prev of the ready queue
          current,  \* g_current_proc
          nextPid,  \* g_next_pid
          ticked,   \* the PIT has counted at least one tick
          kpc,      \* which loop of the scheduler is under way
          cursor    \* its loop variable

vars == <<state, pid, stack, wake, rq, current, nextPid, ticked, kpc, cursor>>

Queues == [head : Link, tail : Link, next : [Slots -> Link], prev : [Slots -> Link]]

\* The type of every variable: process_t's members and the scheduler's globals.
TypeOK ==
  /\ state \in [Slots -> States]
  /\ pid \in [Slots -> Nat]
  /\ stack \in [Slots -> BOOLEAN]
  /\ wake \in [Slots -> Nat \cup {NoWake}]
  /\ rq \in Queues
  /\ current \in Slots
  /\ nextPid \in Nat \ {0}
  /\ ticked \in BOOLEAN
  /\ kpc \in {"run", "wake", "scan"}
  /\ cursor \in Nat \cup {NULL}
  /\ kpc = "wake" => cursor \in 1 .. N
  /\ kpc = "scan" => cursor \in Link
-----------------------------------------------------------------------------
(* The ready queue *)

\* p->member = v, where a null p writes nothing
Store(f, p, v) == IF p = NULL THEN f ELSE [f EXCEPT ![p] = v]

\* Faulty variant: the process is put at the head of the queue
scheduler_add_front(q, st, s) ==
  IF st[s] # "READY"
  THEN q
  ELSE [head |-> s,
        tail |-> IF q.head = NULL THEN s ELSE q.tail,
        next |-> [q.next EXCEPT ![s] = q.head],
        prev |-> Store([q.prev EXCEPT ![s] = NULL], q.head, s)]

scheduler_add(q, st, s) ==
  IF st[s] # "READY"
  THEN q
  ELSE [head |-> IF q.tail = NULL THEN s ELSE q.head,
        tail |-> s,
        next |-> Store([q.next EXCEPT ![s] = NULL], q.tail, s),
        prev |-> [q.prev EXCEPT ![s] = q.tail]]

\* Faulty variant: the tail is not moved back
scheduler_remove_keeps_tail(q, s) ==
  LET p == q.prev[s]
      n == q.next[s]
  IN  [head |-> IF p = NULL THEN n ELSE q.head,
       tail |-> q.tail,
       next |-> [Store(q.next, p, n) EXCEPT ![s] = NULL],
       prev |-> [Store(q.prev, n, p) EXCEPT ![s] = NULL]]

scheduler_remove(q, s) ==
  LET p == q.prev[s]
      n == q.next[s]
  IN  [head |-> IF p = NULL THEN n ELSE q.head,
       tail |-> IF n = NULL THEN p ELSE q.tail,
       next |-> [Store(q.next, p, n) EXCEPT ![s] = NULL],
       prev |-> [Store(q.prev, n, p) EXCEPT ![s] = NULL]]

\* scheduler_yield up to its loop, called with process states st and queue q
yield_enter(st, q) ==
  IF q.head = NULL
  THEN /\ state' = st
       /\ rq' = q
       /\ kpc' = "run"
       /\ cursor' = NULL
  ELSE LET moved == st[current] = "RUNNING"
           st2 == IF moved THEN [st EXCEPT ![current] = "READY"] ELSE st
           q2 == IF moved
                 THEN scheduler_add(scheduler_remove(q, current), st2, current)
                 ELSE q
       IN  /\ state' = st2
           /\ rq' = q2
           /\ kpc' = "scan"
           /\ cursor' = q2.head

\* Faulty variant: the loop does not advance past the process it drops
yield_scan_stays ==
  /\ kpc = "scan"
  /\ cursor # NULL
  /\ state[cursor] # "READY"
  /\ rq' = scheduler_remove(rq, cursor)
  /\ UNCHANGED <<state, pid, stack, wake, current, nextPid, ticked, kpc, cursor>>

\* One iteration of scheduler_yield's loop: drop a queued process that is not ready
yield_scan ==
  /\ kpc = "scan"
  /\ cursor # NULL
  /\ state[cursor] # "READY"
  /\ cursor' = rq.next[cursor]
  /\ rq' = scheduler_remove(rq, cursor)
  /\ UNCHANGED <<state, pid, stack, wake, current, nextPid, ticked, kpc>>

\* The loop has ended: run the process it found, or idle, and switch to it
yield_dispatch ==
  /\ kpc = "scan"
  /\ cursor # NULL => state[cursor] = "READY"
  /\ LET next == IF cursor = NULL THEN Idle ELSE cursor
     IN  /\ state' = [state EXCEPT ![next] = "RUNNING"]
         /\ current' = next
  /\ kpc' = "run"
  /\ cursor' = NULL
  /\ UNCHANGED <<pid, stack, wake, rq, nextPid, ticked>>
-----------------------------------------------------------------------------
(* The process table: calls made by the code of the current process *)

proc_create(stackOk) ==
  LET free == {s \in Slots \ {Idle} : state[s] = "UNUSED"}
      slot == CHOOSE s \in free : \A t \in free : s <= t
      cleared == [rq EXCEPT !.next[slot] = NULL, !.prev[slot] = NULL]
      st == [state EXCEPT ![slot] = "READY"]
  IN  /\ kpc = "run"
      /\ nextPid <= MaxPid
      /\ free # {}
      /\ pid' = [pid EXCEPT ![slot] = nextPid]
      /\ nextPid' = nextPid + 1
      /\ stack' = [stack EXCEPT ![slot] = stackOk]
      /\ IF stackOk
         THEN /\ state' = st
              /\ wake' = [wake EXCEPT ![slot] = NoWake]
              /\ rq' = scheduler_add(cleared, st, slot)
         ELSE UNCHANGED <<state, wake, rq>>
      /\ UNCHANGED <<current, ticked, kpc, cursor>>

\* Faulty variant: the process is not taken off the ready queue
proc_destroy_queued(s) ==
  /\ kpc = "run"
  /\ state[s] \in DestroyStates
  /\ pid[s] # 0
  /\ stack' = [stack EXCEPT ![s] = FALSE]
  /\ state' = [state EXCEPT ![s] = "UNUSED"]
  /\ pid' = [pid EXCEPT ![s] = 0]
  /\ UNCHANGED <<rq, wake, current, nextPid, ticked, kpc, cursor>>

\* Faulty variant: the stack is not freed
proc_destroy_leaks(s) ==
  /\ kpc = "run"
  /\ state[s] \in DestroyStates
  /\ pid[s] # 0
  /\ rq' = scheduler_remove(rq, s)
  /\ state' = [state EXCEPT ![s] = "UNUSED"]
  /\ pid' = [pid EXCEPT ![s] = 0]
  /\ UNCHANGED <<stack, wake, current, nextPid, ticked, kpc, cursor>>

proc_destroy(s) ==
  /\ kpc = "run"
  /\ state[s] \in DestroyStates
  /\ pid[s] # 0
  /\ rq' = scheduler_remove(rq, s)
  /\ stack' = [stack EXCEPT ![s] = FALSE]
  /\ state' = [state EXCEPT ![s] = "UNUSED"]
  /\ pid' = [pid EXCEPT ![s] = 0]
  /\ UNCHANGED <<wake, current, nextPid, ticked, kpc, cursor>>

proc_yield ==
  /\ kpc = "run"
  /\ current = Idle => state[Idle] \in IdleYields
  /\ yield_enter(state, rq)
  /\ UNCHANGED <<pid, stack, wake, current, nextPid, ticked>>

proc_exit ==
  /\ kpc = "run"
  /\ pid[current] # 0
  /\ yield_enter([state EXCEPT ![current] = "ZOMBIE"], rq)
  /\ UNCHANGED <<pid, stack, wake, current, nextPid, ticked>>

proc_sleep(d) ==
  /\ kpc = "run"
  /\ pid[current] # 0
  /\ wake' = [wake EXCEPT ![current] = IF ticked \/ d > 0 THEN Skew + d ELSE NoWake]
  /\ yield_enter([state EXCEPT ![current] = "BLOCKED"], rq)
  /\ UNCHANGED <<pid, stack, current, nextPid, ticked>>
-----------------------------------------------------------------------------
(* The timer *)

\* scheduler_tick up to its loop, after handle_tick has counted the PIT tick
scheduler_tick ==
  /\ kpc = "run"
  /\ ticked' = TRUE
  /\ wake' = [s \in Slots |-> IF wake[s] > 0 THEN wake[s] - 1 ELSE wake[s]]
  /\ kpc' = "wake"
  /\ cursor' = 1
  /\ UNCHANGED <<state, pid, stack, rq, current, nextPid>>

\* One iteration of the wake-up loop: make slot `cursor' ready when its time has come
tick_wake ==
  /\ kpc = "wake"
  /\ cursor < N
  /\ cursor' = cursor + 1
  /\ IF state[cursor] = "BLOCKED" /\ wake[cursor] = 0
     THEN /\ state' = [state EXCEPT ![cursor] = "READY"]
          /\ wake' = [wake EXCEPT ![cursor] = NoWake]
          /\ rq' = scheduler_add(rq, state', cursor)
     ELSE UNCHANGED <<state, wake, rq>>
  /\ UNCHANGED <<pid, stack, current, nextPid, ticked, kpc>>

\* The end of scheduler_tick: preempt the current process unless it is idle
tick_preempt ==
  /\ kpc = "wake"
  /\ cursor = N
  /\ IF pid[current] # 0
     THEN yield_enter(state, rq)
     ELSE kpc' = "run" /\ cursor' = NULL /\ UNCHANGED <<state, rq>>
  /\ UNCHANGED <<pid, stack, wake, current, nextPid, ticked>>
-----------------------------------------------------------------------------
\* proc_init and scheduler_init: idle is the current process but is not queued
Init ==
  /\ state = [s \in Slots |-> IF s = Idle THEN "READY" ELSE "UNUSED"]
  /\ pid = [s \in Slots |-> 0]
  /\ stack = [s \in Slots |-> FALSE]
  /\ wake = [s \in Slots |-> NoWake]
  /\ rq = [head |-> NULL, tail |-> NULL,
           next |-> [s \in Slots |-> NULL], prev |-> [s \in Slots |-> NULL]]
  /\ current = Idle
  /\ nextPid = 1
  /\ ticked = (Skew > 0)
  /\ kpc = "run"
  /\ cursor = NULL

\* What is left to do of the scheduler operation under way
KernelStep == yield_scan \/ yield_dispatch \/ tick_wake \/ tick_preempt

Next ==
  \/ \E ok \in BOOLEAN : proc_create(ok)
  \/ \E s \in Slots : proc_destroy(s)
  \/ proc_yield
  \/ proc_exit
  \/ \E d \in Sleeps : proc_sleep(d)
  \/ scheduler_tick
  \/ yield_scan
  \/ yield_dispatch
  \/ tick_wake
  \/ tick_preempt

Spec == Init /\ [][Next]_vars
-----------------------------------------------------------------------------
(* Invariants that hold whatever state the ready queue is in *)

(* One CPU, one running process: only g_current_proc is ever marked        *)
(* RUNNING, even after the queue has lost or kept processes it should not. *)
OneRunning == \A s \in Slots : state[s] = "RUNNING" => s = current

(* Two live processes never share a pid, so proc_get_by_pid is unambiguous *)
(* (below the wrap-around of the 32-bit counter).                          *)
PidUnique ==
  \A s, t \in Slots :
    state[s] # "UNUSED" /\ state[t] # "UNUSED" /\ pid[s] = pid[t] => s = t

(* A slot that is free holds no stack: every stack kmalloc'ed by           *)
(* proc_create is freed before its slot is handed out again.               *)
NoStackLeak == \A s \in Slots : stack[s] => s # Idle /\ state[s] # "UNUSED"

(* There is always a process to fall back on: idle is never unused,        *)
(* blocked or a zombie, so the process switched to can run.                *)
IdleCanRun == state[Idle] \in {"READY", "RUNNING"}
=============================================================================
