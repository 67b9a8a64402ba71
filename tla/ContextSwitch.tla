--------------------------- MODULE ContextSwitch ---------------------------
(***************************************************************************)
(* The stack frames that proc_create builds and context_switch             *)
(* (proc/context.c) saves and restores.                                    *)
(*                                                                         *)
(* stack[p] is the kernel stack of process p from its saved stack pointer  *)
(* up, the word at rsp first.  A word is the process whose register or     *)
(* code address it holds: registers of p hold p, "entry" is the entry      *)
(* point of a new process and "zero" a null word.                          *)
(***************************************************************************)
EXTENDS Naturals, Sequences

CONSTANTS Procs,   \* the processes
          First    \* the process that runs first, on the boot stack

VARIABLES stack,   \* stack[p]: words from the saved rsp of p up
          made,    \* processes created
          cur,     \* g_current_proc
          regs,    \* rbp, r15, r14, r13, r12 and rbx, in this order
          rip      \* where the CPU executes: a process's code, "entry" or "zero"

vars == <<stack, made, cur, regs, rip>>

\* The callee-saved registers as the code of p uses them
Regs(p) == [i \in 1 .. 6 |-> p]

\* proc_create: 15 null words, and below them the entry point
proc_create(p) ==
  /\ rip = cur \/ rip = "entry"
  /\ p \notin made
  /\ made' = made \cup {p}
  /\ stack' = [stack EXCEPT ![p] = <<"entry">> \o [i \in 1 .. 15 |-> "zero"]]
  /\ UNCHANGED <<cur, regs, rip>>

\* context_switch, called by the code of cur: it pushes the six registers on
\* top of its return address, and pops those of p from the stack of p
context_switch(p) ==
  /\ rip = cur \/ rip = "entry"
  /\ p \in made \ {cur}
  /\ stack' = [stack EXCEPT ![cur] = regs \o <<cur>> \o @,
                            ![p] = SubSeq(@, 8, Len(@))]
  /\ regs' = SubSeq(stack[p], 1, 6)
  /\ rip' = stack[p][7]
  /\ cur' = p
  /\ UNCHANGED made

Init ==
  /\ stack = [p \in Procs |-> <<>>]
  /\ made = {First}
  /\ cur = First
  /\ regs = Regs(First)
  /\ rip = First

Next == \E p \in Procs : proc_create(p) \/ context_switch(p)

Spec == Init /\ [][Next]_vars

(* The comment in proc_create: 'Entry point pushed as "return address"'.   *)
(* A switch returns into the code of the process switched to, at its entry *)
(* point when the process has not run before.                              *)
ReturnsIntoProcess == rip \in {cur, "entry"}
=============================================================================
