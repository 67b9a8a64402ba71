--------------------------- MODULE SchedulerQueue ---------------------------
(***************************************************************************)
(* Properties of the scheduler that follow the links of the ready queue,   *)
(* and the refinement of RoundRobin by the pointer-level scheduler.        *)
(***************************************************************************)
EXTENDS Scheduler, SequencesExt

\* The slots met from slot p along a link, cut off after N+1 of them
Walk(link, p) ==
  LET node[k \in 0 .. N] ==
        IF k = 0 THEN p
        ELSE LET q == node[k-1] IN IF q = NULL THEN NULL ELSE link[q]
  IN  SelectSeq([k \in 1 .. N+1 |-> node[k-1]], LAMBDA s : s # NULL)

Queued == Walk(rq.next, rq.head)

Runnable == {s \in Slots \ {Idle} : state[s] \in {"READY", "RUNNING"}}

(* The ready queue is a doubly linked list without repetition, read the    *)
(* same from either end; outside scheduler_yield it holds exactly the      *)
(* processes that can run, none lost and none stale, and the running one   *)
(* is at its head.  The C checks membership nowhere.                       *)
ReadyQueue ==
  /\ IsInjective(Queued)
  /\ Queued = Reverse(Walk(rq.prev, rq.tail))
  /\ kpc # "scan" => /\ ToSet(Queued) = Runnable
                     /\ current # Idle => rq.head = current

(* The comment in scheduler_yield: "Move current to tail if it is still    *)
(* ready".  A process that yields goes behind the others, which keep their *)
(* places.                                                                 *)
MoveToTail ==
  [][proc_yield /\ state[current] = "RUNNING" /\ rq.head # NULL
       => Queued' = Append(Remove(Queued, current), current)]_vars
-----------------------------------------------------------------------------
\* The abstract queue: inside scheduler_yield's loop the switch has already
\* happened, and what the loop still has to drop is gone.
ReadyFrom(q) ==
  LET i == {k \in 1 .. Len(q) : state[q[k]] = "READY"}
  IN  IF i = {} THEN <<>> ELSE SubSeq(q, CHOOSE k \in i : \A j \in i : k <= j, Len(q))

AbsQueue == IF kpc = "scan" THEN ReadyFrom(Queued) ELSE Queued

AbsRunning ==
  IF kpc = "scan" THEN (IF AbsQueue = <<>> THEN Idle ELSE Head(AbsQueue)) ELSE current

RR == INSTANCE RoundRobin WITH
        Procs <- Slots \ {Idle}, queue <- AbsQueue, running <- AbsRunning

(* The scheduler implements round-robin: every step of it is an admission, *)
(* a rotation, a departure or a removal of the abstract queue, or changes  *)
(* neither the queue nor the running process.                              *)
RefinesRoundRobin == RR!RRSpec
-----------------------------------------------------------------------------
\* The current process gives up the CPU of its own accord.
GiveUp == current # Idle /\ (proc_yield \/ proc_exit \/ \E d \in Sleeps : proc_sleep(d))

\* A started scheduler operation is run to its end.
KernelSpec == Spec /\ WF_vars(KernelStep)

\* Processes are cooperative: none computes for ever without a call that gives up the CPU.
CooperativeSpec == KernelSpec /\ WF_vars(GiveUp)

(* Every scheduler operation ends, whatever state the links are in: the    *)
(* loop that skips processes that are not ready never goes round for ever. *)
SchedulerReturns == (kpc # "run") ~> (kpc = "run")

(* No starvation: a ready process is scheduled (or destroyed) unless the   *)
(* CPU falls to the idle process, which nothing preempts.                  *)
ReadyRuns ==
  \A s \in Slots \ {Idle} :
    (state[s] = "READY" /\ current # Idle) ~> (state[s] # "READY" \/ current = Idle)
=============================================================================
