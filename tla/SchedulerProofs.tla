-------------------------- MODULE SchedulerProofs --------------------------
(***************************************************************************)
(* For every size of the process table and every choice of who yields and  *)
(* what is destroyed, the pointers of the ready queue stay typed, at most  *)
(* one process is marked RUNNING, live processes have different pids, no   *)
(* free slot holds a stack and idle can always run.  None of this needs    *)
(* the ready queue to be well formed.                                      *)
(***************************************************************************)
EXTENDS Scheduler, NatSets, TLAPS

\* What makes PidUnique inductive: pids come from a counter that only grows,
\* a pid other than 0 belongs to one slot (a slot whose stack could not be
\* allocated keeps its pid and stays unused), and every live process but
\* idle has one.
PidInv ==
  /\ pid[Idle] = 0
  /\ \A s \in Slots : pid[s] < nextPid
  /\ \A s, t \in Slots : pid[s] = pid[t] /\ pid[s] # 0 => s = t
  /\ \A s \in Slots \ {Idle} : state[s] # "UNUSED" => pid[s] # 0

\* What makes OneRunning inductive: while scheduler_yield looks for a process
\* to run, none is marked RUNNING
NoneRunning == kpc = "scan" => \A s \in Slots : state[s] # "RUNNING"

IInv == TypeOK /\ OneRunning /\ NoneRunning /\ IdleCanRun /\ PidInv /\ NoStackLeak

\* Writing through a link: a null pointer writes nothing.
LEMMA StoreType ==
  ASSUME NEW f \in [Slots -> Link], NEW p \in Link, NEW v \in Link
  PROVE  Store(f, p, v) \in [Slots -> Link]
BY DEF Store, Link

\* scheduler_add keeps the queue's pointers inside the table.
LEMMA AddType ==
  ASSUME NEW q \in Queues, NEW st, NEW s \in Slots
  PROVE  scheduler_add(q, st, s) \in Queues
<1> DEFINE f == [q.next EXCEPT ![s] = NULL]
<1>1. f \in [Slots -> Link] /\ q.tail \in Link /\ s \in Link
  BY DEF Queues, Link
<1>2. Store(f, q.tail, s) \in [Slots -> Link]
  BY <1>1, StoreType
<1>3. [q.prev EXCEPT ![s] = q.tail] \in [Slots -> Link]
  BY DEF Queues
<1> QED BY <1>1, <1>2, <1>3 DEF scheduler_add, Queues

\* scheduler_remove keeps the queue's pointers inside the table.
LEMMA RemoveType ==
  ASSUME NEW q \in Queues, NEW s \in Slots
  PROVE  scheduler_remove(q, s) \in Queues
<1> DEFINE p == q.prev[s]
           n == q.next[s]
<1>1. p \in Link /\ n \in Link
  BY DEF Queues
<1>2. Store(q.next, p, n) \in [Slots -> Link] /\ Store(q.prev, n, p) \in [Slots -> Link]
  BY <1>1, StoreType DEF Queues
<1>3. /\ [Store(q.next, p, n) EXCEPT ![s] = NULL] \in [Slots -> Link]
      /\ [Store(q.prev, n, p) EXCEPT ![s] = NULL] \in [Slots -> Link]
  BY <1>2 DEF Link
<1> QED BY <1>1, <1>3 DEF scheduler_remove, Queues

\* What entering scheduler_yield does to everything but the links: the caller
\* of yield, if it was running, is ready, and nobody else's state changes.
LEMMA YieldEnter ==
  ASSUME NEW st \in [Slots -> States], NEW q \in Queues, current \in Slots,
         yield_enter(st, q)
  PROVE  /\ state' \in [Slots -> States]
         /\ rq' \in Queues
         /\ kpc' \in {"run", "scan"}
         /\ cursor' \in Link
         /\ \A s \in Slots \ {current} : state'[s] = st[s]
         /\ \/ state'[current] = st[current]
            \/ st[current] = "RUNNING" /\ state'[current] = "READY"
         /\ kpc' = "scan" => state'[current] # "RUNNING"
<1>1. CASE q.head = NULL
  BY <1>1 DEF yield_enter, Link
<1>2. CASE q.head # NULL /\ st[current] # "RUNNING"
  BY <1>2 DEF yield_enter, Link, Queues
<1>3. CASE q.head # NULL /\ st[current] = "RUNNING"
  <2> DEFINE st2 == [st EXCEPT ![current] = "READY"]
             q2 == scheduler_add(scheduler_remove(q, current), st2, current)
  <2>1. q2 \in Queues
    BY AddType, RemoveType
  <2>2. st2 \in [Slots -> States]
    BY DEF States
  <2>3. state' = st2 /\ rq' = q2 /\ kpc' = "scan" /\ cursor' = q2.head
    BY <1>3 DEF yield_enter
  <2>4. cursor' \in Link
    BY <2>1, <2>3 DEF Queues
  <2> QED BY <2>1, <2>2, <2>3, <2>4, <1>3
<1> QED BY <1>1, <1>2, <1>3

\* The initial state satisfies the inductive invariant.
LEMMA InitIInv == Init => IInv
<1> SUFFICES ASSUME Init PROVE IInv
  OBVIOUS
<1> USE SchedulerAssumption DEF Init
<1>1. Idle \in Slots /\ Idle \in Link /\ NULL \in Link
  BY DEF Idle, Slots, Link
<1>2. TypeOK
  <2>1. rq \in Queues
    BY <1>1 DEF Queues
  <2>2. state \in [Slots -> States]
    BY DEF States
  <2>3. wake \in [Slots -> Nat \cup {NoWake}]
    OBVIOUS
  <2> QED BY <1>1, <2>1, <2>2, <2>3 DEF TypeOK
<1>3. OneRunning /\ NoneRunning /\ IdleCanRun /\ NoStackLeak
  BY <1>1 DEF OneRunning, NoneRunning, IdleCanRun, NoStackLeak
<1>4. PidInv
  BY <1>1 DEF PidInv
<1> QED BY <1>2, <1>3, <1>4 DEF IInv

\* A call into scheduler_yield from the current process keeps the invariant:
\* st is the state function the caller passes, which differs from state at
\* most in the current process, which it may mark BLOCKED or ZOMBIE.
LEMMA EnterIInv ==
  ASSUME IInv,
         NEW st \in [Slots -> States],
         yield_enter(st, rq),
         \A s \in Slots \ {current} : st[s] = state[s],
         \/ st[current] = state[current]
         \/ pid[current] # 0 /\ st[current] \in {"BLOCKED", "ZOMBIE"},
         wake' \in [Slots -> Nat \cup {NoWake}],
         UNCHANGED <<pid, stack, current, nextPid, ticked>>
  PROVE  IInv'
<1> USE SchedulerAssumption
<1>0. rq \in Queues /\ current \in Slots /\ Idle \in Slots /\ state \in [Slots -> States]
  BY DEF IInv, TypeOK, Idle, Slots
<1>1. /\ state' \in [Slots -> States]
      /\ rq' \in Queues
      /\ kpc' \in {"run", "scan"}
      /\ cursor' \in Link
      /\ \A s \in Slots \ {current} : state'[s] = st[s]
      /\ \/ state'[current] = st[current]
         \/ st[current] = "RUNNING" /\ state'[current] = "READY"
      /\ kpc' = "scan" => state'[current] # "RUNNING"
  BY <1>0, YieldEnter
<1>2. TypeOK'
  BY <1>1 DEF IInv, TypeOK, Link, Slots
<1>3. \A s \in Slots : /\ state'[s] = "RUNNING" => state[s] = "RUNNING"
                       /\ state[s] # "UNUSED" => state'[s] # "UNUSED"
                       /\ state[s] = "UNUSED" /\ pid[s] = 0 => state'[s] = "UNUSED"
                       /\ pid[s] = 0 => state'[s] = state[s] \/ state'[s] = "READY"
  BY <1>0, <1>1
<1>4. OneRunning'
  BY <1>3 DEF IInv, OneRunning
<1>5. IdleCanRun'
  BY <1>0, <1>3 DEF IInv, IdleCanRun, PidInv
<1>6. PidInv'
  BY <1>0, <1>3 DEF IInv, PidInv
<1>7. NoStackLeak'
  BY <1>3 DEF IInv, NoStackLeak
<1>8. NoneRunning'
  BY <1>1, <1>3 DEF IInv, OneRunning, NoneRunning
<1> QED BY <1>2, <1>4, <1>5, <1>6, <1>7, <1>8 DEF IInv

\* Every step of the scheduler keeps the inductive invariant.
LEMMA NextIInv == IInv /\ [Next]_vars => IInv'
<1> SUFFICES ASSUME IInv, [Next]_vars PROVE IInv'
  OBVIOUS
<1> USE SchedulerAssumption
<1>0. /\ Idle \in Slots
      /\ state \in [Slots -> States] /\ wake \in [Slots -> Nat \cup {NoWake}]
      /\ rq \in Queues /\ current \in Slots
      /\ pid \in [Slots -> Nat] /\ nextPid \in Nat \ {0} /\ stack \in [Slots -> BOOLEAN]
  BY DEF IInv, TypeOK, Idle, Slots
<1>1. ASSUME NEW ok \in BOOLEAN, proc_create(ok) PROVE IInv'
  <2> DEFINE free == {s \in Slots \ {Idle} : state[s] = "UNUSED"}
             slot == CHOOSE s \in free : \A t \in free : s <= t
             cleared == [rq EXCEPT !.next[slot] = NULL, !.prev[slot] = NULL]
             st == [state EXCEPT ![slot] = "READY"]
  <2>1. slot \in Slots \ {Idle} /\ state[slot] = "UNUSED"
    <3>1. free # {} /\ free \subseteq Nat
      BY <1>1 DEF proc_create, Slots
    <3>2. \E s \in free : \A t \in free : s <= t
      BY <3>1, SmallestExists
    <3> QED BY <3>2
  <2>2. cleared \in Queues
    BY <1>0, <2>1 DEF Queues, Link
  <2>3. scheduler_add(cleared, st, slot) \in Queues
    BY <2>1, <2>2, AddType
  <2> HIDE DEF slot, cleared
  <2>4. /\ pid' = [pid EXCEPT ![slot] = nextPid]
        /\ nextPid' = nextPid + 1
        /\ stack' = [stack EXCEPT ![slot] = ok]
        /\ IF ok
           THEN state' = st /\ wake' = [wake EXCEPT ![slot] = NoWake]
                  /\ rq' = scheduler_add(cleared, st, slot)
           ELSE UNCHANGED <<state, wake, rq>>
        /\ UNCHANGED <<current, ticked, kpc, cursor>>
        /\ kpc = "run"
    BY <1>1 DEF proc_create, slot, cleared
  <2>5. TypeOK'
    BY <1>0, <2>1, <2>3, <2>4 DEF IInv, TypeOK, States
  <2>6. OneRunning' /\ NoneRunning' /\ IdleCanRun' /\ NoStackLeak'
    BY <1>0, <2>1, <2>4 DEF IInv, OneRunning, NoneRunning, IdleCanRun, NoStackLeak
  <2>7. PidInv'
    BY <1>0, <2>1, <2>4 DEF IInv, PidInv
  <2> QED BY <2>5, <2>6, <2>7 DEF IInv
<1>2. ASSUME NEW s \in Slots, proc_destroy(s) PROVE IInv'
  <2>1. scheduler_remove(rq, s) \in Queues
    BY <1>0, RemoveType
  <2>2. TypeOK'
    BY <1>0, <1>2, <2>1 DEF IInv, TypeOK, proc_destroy, States
  <2>3. OneRunning' /\ NoneRunning' /\ IdleCanRun' /\ NoStackLeak'
    BY <1>0, <1>2 DEF IInv, PidInv, OneRunning, NoneRunning, IdleCanRun, NoStackLeak, proc_destroy
  <2>4. PidInv'
    BY <1>0, <1>2 DEF IInv, PidInv, proc_destroy
  <2> QED BY <2>2, <2>3, <2>4 DEF IInv
<1>3. CASE proc_yield
  BY <1>0, <1>3, EnterIInv DEF proc_yield
<1>4. CASE proc_exit
  <2> DEFINE st == [state EXCEPT ![current] = "ZOMBIE"]
  <2>1. st \in [Slots -> States]
    BY <1>0 DEF States
  <2> QED BY <1>0, <1>4, <2>1, EnterIInv DEF proc_exit
<1>5. ASSUME NEW d \in Sleeps, proc_sleep(d) PROVE IInv'
  <2> DEFINE st == [state EXCEPT ![current] = "BLOCKED"]
  <2>1. st \in [Slots -> States]
    BY <1>0 DEF States
  <2>2. wake' \in [Slots -> Nat \cup {NoWake}]
    BY <1>0, <1>5 DEF proc_sleep
  <2> QED BY <1>0, <1>5, <2>1, <2>2, EnterIInv DEF proc_sleep
<1>6. CASE scheduler_tick
  <2>1. TypeOK'
    BY <1>0, <1>6 DEF IInv, TypeOK, scheduler_tick, NoWake
  <2>2. OneRunning' /\ NoneRunning' /\ IdleCanRun' /\ NoStackLeak' /\ PidInv'
    BY <1>6 DEF IInv, PidInv, OneRunning, NoneRunning, IdleCanRun, NoStackLeak, scheduler_tick
  <2> QED BY <2>1, <2>2 DEF IInv
<1>7. CASE yield_scan
  <2>1. cursor \in Slots
    BY <1>7 DEF IInv, TypeOK, yield_scan, Link
  <2>2. scheduler_remove(rq, cursor) \in Queues
    BY <1>0, <2>1, RemoveType
  <2>3. rq.next[cursor] \in Link
    BY <1>0, <2>1 DEF Queues
  <2>4. TypeOK'
    BY <1>7, <2>2, <2>3 DEF IInv, TypeOK, yield_scan, Link, Slots
  <2>5. OneRunning' /\ NoneRunning' /\ IdleCanRun' /\ NoStackLeak' /\ PidInv'
    BY <1>7 DEF IInv, PidInv, OneRunning, NoneRunning, IdleCanRun, NoStackLeak, yield_scan
  <2> QED BY <2>4, <2>5 DEF IInv
<1>8. CASE yield_dispatch
  <2> DEFINE next == IF cursor = NULL THEN Idle ELSE cursor
  <2>1. next \in Slots /\ state[next] # "UNUSED"
    BY <1>0, <1>8 DEF IInv, TypeOK, IdleCanRun, yield_dispatch, Link
  <2>2. /\ state' = [state EXCEPT ![next] = "RUNNING"]
        /\ current' = next /\ kpc' = "run" /\ cursor' = NULL
        /\ UNCHANGED <<pid, stack, wake, rq, nextPid, ticked>>
        /\ kpc = "scan"
    BY <1>8 DEF yield_dispatch
  <2> HIDE DEF next
  <2>3. TypeOK'
    BY <1>0, <2>1, <2>2 DEF IInv, TypeOK, States
  <2>4. OneRunning' /\ NoneRunning' /\ IdleCanRun' /\ NoStackLeak'
    BY <1>0, <2>1, <2>2 DEF IInv, OneRunning, NoneRunning, IdleCanRun, NoStackLeak
  <2>5. PidInv'
    BY <1>0, <2>1, <2>2 DEF IInv, PidInv
  <2> QED BY <2>3, <2>4, <2>5 DEF IInv
<1>9. CASE tick_wake
  <2>1. cursor \in Slots \ {Idle}
    BY <1>9 DEF IInv, TypeOK, tick_wake, Slots, Idle
  <2>2. scheduler_add(rq, state', cursor) \in Queues
    BY <1>0, <2>1, AddType
  <2>3. TypeOK'
    <3>1. cursor \in 1 .. N-1 /\ cursor' \in 1 .. N /\ kpc' = "wake"
      BY <1>9 DEF IInv, TypeOK, tick_wake
    <3>2. state' \in [Slots -> States] /\ wake' \in [Slots -> Nat \cup {NoWake}]
      BY <1>0, <1>9, <2>1 DEF tick_wake, States
    <3>3. rq' \in Queues
      BY <1>0, <1>9, <2>2 DEF tick_wake
    <3>4. UNCHANGED <<pid, stack, current, nextPid, ticked>>
      BY <1>9 DEF tick_wake
    <3> QED BY <3>1, <3>2, <3>3, <3>4 DEF IInv, TypeOK
  <2>4. OneRunning' /\ NoneRunning' /\ IdleCanRun' /\ NoStackLeak' /\ PidInv'
    BY <1>0, <1>9, <2>1 DEF IInv, PidInv, OneRunning, NoneRunning, IdleCanRun, NoStackLeak, tick_wake
  <2> QED BY <2>3, <2>4 DEF IInv
<1>10. CASE tick_preempt
  <2>1. CASE pid[current] # 0
    BY <1>0, <1>10, <2>1, EnterIInv DEF tick_preempt
  <2>2. CASE pid[current] = 0
    BY <1>0, <1>10, <2>2 DEF tick_preempt, IInv, TypeOK, PidInv, OneRunning, NoneRunning,
                             IdleCanRun, NoStackLeak
  <2> QED BY <2>1, <2>2
<1>11. CASE UNCHANGED vars
  BY <1>11 DEF vars, IInv, TypeOK, PidInv, OneRunning, NoneRunning, IdleCanRun, NoStackLeak
<1> QED BY <1>1, <1>2, <1>3, <1>4, <1>5, <1>6, <1>7, <1>8, <1>9, <1>10, <1>11 DEF Next

(* Every value of the scheduler's variables has its type: in particular    *)
(* the loops never follow a pointer out of the process table.              *)
THEOREM TypeCorrect == Spec => []TypeOK
<1>1. IInv => TypeOK
  BY DEF IInv
<1> QED BY InitIInv, NextIInv, <1>1, PTL DEF Spec

(* At most one process is RUNNING, and it is g_current_proc.               *)
THEOREM OneRunningAlways == Spec => []OneRunning
<1>1. IInv => OneRunning
  BY DEF IInv
<1> QED BY InitIInv, NextIInv, <1>1, PTL DEF Spec

(* Live processes have different pids.                                     *)
THEOREM PidUniqueAlways == Spec => []PidUnique
<1>1. IInv => PidUnique
  BY DEF IInv, PidInv, PidUnique
<1> QED BY InitIInv, NextIInv, <1>1, PTL DEF Spec

(* A free slot holds no stack.                                             *)
THEOREM NoStackLeakAlways == Spec => []NoStackLeak
<1>1. IInv => NoStackLeak
  BY DEF IInv
<1> QED BY InitIInv, NextIInv, <1>1, PTL DEF Spec

(* Idle is always ready or running.                                        *)
THEOREM IdleCanRunAlways == Spec => []IdleCanRun
<1>1. IInv => IdleCanRun
  BY DEF IInv
<1> QED BY InitIInv, NextIInv, <1>1, PTL DEF Spec
=============================================================================
