--------------------------- MODULE Communication ---------------------------
(***************************************************************************)
(* The means of inter-process communication beside each other: message     *)
(* queues, pipes, shared memory, semaphores and spinlocks, and the calls   *)
(* of Preemption.  They share no state, so a behaviour uses one of them,   *)
(* chosen at the start.                                                    *)
(***************************************************************************)
EXTENDS Ipc, Pipe, SharedMemory, Locks, Preemption

VARIABLE means

commVars == <<vars, pipeVars, shmVars, semVars, spinVars, preemptVars, means>>

CommInit == /\ means \in {"queue", "pipe", "shm", "semaphore", "spinlock", "pages", "slots", "sends"}
            /\ Init /\ PipeInit /\ ShmInit /\ SemInit /\ PreemptInit
            /\ SpinInit(IF means = "spinlock" THEN [Cpus -> BOOLEAN] ELSE {[c \in Cpus |-> TRUE]})

SemaphoreOnly == means = "semaphore" /\ UNCHANGED <<vars, pipeVars, shmVars, spinVars, preemptVars, means>>

CommNext ==
  /\ UNCHANGED means
  /\ \/ means = "queue" /\ Next /\ UNCHANGED <<pipeVars, shmVars, semVars, spinVars, preemptVars>>
     \/ means = "pipe" /\ PipeNext /\ UNCHANGED <<vars, shmVars, semVars, spinVars, preemptVars>>
     \/ means = "shm" /\ ShmNext /\ UNCHANGED <<vars, pipeVars, semVars, spinVars, preemptVars>>
     \/ SemaphoreOnly /\ SemNext
     \/ means = "spinlock" /\ SpinNext /\ UNCHANGED <<vars, pipeVars, shmVars, semVars, preemptVars>>
     \/ PreemptNext(means) /\ UNCHANGED <<vars, pipeVars, shmVars, semVars, spinVars>>

\* Every process in a call of the semaphore goes on, and holders signal
CommSpec == /\ CommInit /\ [][CommNext]_commVars
            /\ \A p \in Procs : WF_commVars(SemaphoreOnly /\ SemStep(p))
=============================================================================
