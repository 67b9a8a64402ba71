------------------------------ MODULE Library -------------------------------
(***************************************************************************)
(* The kernel library.  Its parts share no state: a behaviour exercises    *)
(* one of them, and the others keep the state or the input they start      *)
(* with.                                                                   *)
(***************************************************************************)
EXTENDS RbTree, Lists, Sorting, Text, Bits

VARIABLE part

libraryVars == <<part, rbVars, listVars, queueVars, ringVars, sortVars, textVars, bitsVars>>

\* The inputs of the part that is exercised, or the one input of a part that is not
InputsOf(p, inputs, none) == IF part = p THEN inputs ELSE {none}

LibraryInit ==
  /\ part \in {"rbtree", "list", "queue", "ring", "sort", "text", "bits"}
  /\ RbInit /\ ListInit /\ QueueInit /\ RingInit
  /\ SortInit(InputsOf("sort", Arrays \cup {TestArray}, <<>>))
  /\ TextInit(InputsOf("text", Jobs, [op |-> "none"]))
  /\ BitsInit(InputsOf("bits", Inputs, [x |-> 0, n |-> 0]))

LibraryNext ==
  /\ UNCHANGED part
  /\ \/ part = "rbtree" /\ RbNext
        /\ UNCHANGED <<listVars, queueVars, ringVars, sortVars, textVars, bitsVars>>
     \/ part = "list" /\ ListNext
        /\ UNCHANGED <<rbVars, queueVars, ringVars, sortVars, textVars, bitsVars>>
     \/ part = "queue" /\ QueueNext
        /\ UNCHANGED <<rbVars, listVars, ringVars, sortVars, textVars, bitsVars>>
     \/ part = "ring" /\ RingNext
        /\ UNCHANGED <<rbVars, listVars, queueVars, sortVars, textVars, bitsVars>>
     \/ part = "sort" /\ SortNext
        /\ UNCHANGED <<rbVars, listVars, queueVars, ringVars, textVars, bitsVars>>
     \/ part = "text" /\ TextNext
        /\ UNCHANGED <<rbVars, listVars, queueVars, ringVars, sortVars, bitsVars>>
     \/ part = "bits" /\ BitsNext
        /\ UNCHANGED <<rbVars, listVars, queueVars, ringVars, sortVars, textVars>>

LibrarySpec == LibraryInit /\ [][LibraryNext]_libraryVars
=============================================================================
