----------------------------- MODULE RoundRobin -----------------------------
(***************************************************************************)
(* What a round-robin scheduler promises: the processes that can run stand *)
(* in a FIFO queue, the running one at its head; a switch sends it to the  *)
(* tail and runs the next; the idle process runs when the queue is empty,  *)
(* and is the one process that is never queued.                            *)
(***************************************************************************)
EXTENDS Integers, Sequences, SequencesExt

CONSTANTS Procs, Idle

VARIABLES queue, running

rrvars == <<queue, running>>

FirstOf(q) == IF q = <<>> THEN Idle ELSE Head(q)

RRInit == queue = <<>> /\ running = Idle

\* A new or woken process joins at the tail.
Admit(p) ==
  /\ p \notin Range(queue)
  /\ queue' = Append(queue, p)
  /\ UNCHANGED running

\* The running process gives up the CPU and stays runnable.
Rotate ==
  /\ queue # <<>>
  /\ queue' = IF running = Idle THEN queue ELSE Append(Tail(queue), running)
  /\ running' = Head(queue')

\* The running process sleeps or ends.
Leave ==
  /\ running # Idle
  /\ queue' = Tail(queue)
  /\ running' = FirstOf(queue')

\* A runnable process that is not running is destroyed.
Drop(p) ==
  /\ p \in Range(queue) \ {running}
  /\ queue' = SelectSeq(queue, LAMBDA x : x # p)
  /\ UNCHANGED running

RRNext ==
  \/ \E p \in Procs : Admit(p) \/ Drop(p)
  \/ Rotate
  \/ Leave

RRSpec == RRInit /\ [][RRNext]_rrvars
=============================================================================
