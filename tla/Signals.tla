------------------------------ MODULE Signals ------------------------------
(***************************************************************************)
(* Signals (proc/signal.c) on top of the process table: signal_send is a   *)
(* stub that ends a process on SIGKILL, SIGSEGV and SIGTERM and ignores    *)
(* every other signal.                                                     *)
(***************************************************************************)
EXTENDS Scheduler

VARIABLE target   \* the process the last step sent a fatal signal to, or NULL

sigvars == <<vars, target>>

\* A fatal signal sent to s; proc_exit takes no process and ends the current one
signal_send(s) ==
  /\ state[s] # "UNUSED"
  /\ proc_exit
  /\ target' = s

SigInit == Init /\ target = NULL

SigNext ==
  \/ Next /\ target' = NULL
  \/ \E s \in Slots : signal_send(s)

SigSpec == SigInit /\ [][SigNext]_sigvars

(* The comment in signal_send: "just terminate on fatal signals", after    *)
(* logging "Signal ... sent to PID" of its argument.  The process that a   *)
(* fatal signal is sent to has ended once signal_send has entered the      *)
(* scheduler.                                                              *)
FatalSignalEndsTarget == target \notin {NULL, Idle} => state[target] = "ZOMBIE"
=============================================================================
