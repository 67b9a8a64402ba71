-------------------------------- MODULE Pipe --------------------------------
(***************************************************************************)
(* Pipes (ipc/pipe.c): a table of slots, each a ring of bytes with two     *)
(* flags and a reference count.  pipe_create takes two slots, one for each *)
(* end, and each end has a ring of its own.                                *)
(*                                                                         *)
(* The loops of pipe_read and pipe_write are given by what they leave: they *)
(* move as many bytes as fit.  held[s] says which end of a pipe the callers *)
(* have at slot s, accepted[s] what pipe_write took there.  A caller reads, *)
(* writes and closes ends it has; it may close one again that nobody has   *)
(* reopened.                                                               *)
(***************************************************************************)
EXTENDS Integers, Sequences, FiniteSetsExt

CONSTANTS PIPE_MAX_PIPES, PIPE_BUF_SIZE,
          Bytes,       \* what is written
          MaxCount,    \* the largest count handed to pipe_read and pipe_write
          MaxCloses    \* bound on how negative a reference count becomes

ASSUME PipeAssumption ==
  /\ PIPE_MAX_PIPES \in Nat /\ PIPE_BUF_SIZE \in Nat \ {0}
  /\ MaxCount \in Nat /\ MaxCloses \in Nat

Pipes == 0 .. PIPE_MAX_PIPES - 1
Positions == 0 .. PIPE_BUF_SIZE - 1

VARIABLES g_pipes, held, accepted, piped

pipeVars == <<g_pipes, held, accepted, piped>>

Cleared == [buffer |-> [i \in Positions |-> 0], read_pos |-> 0, write_pos |-> 0,
            readable |-> FALSE, writable |-> FALSE, refcount |-> 0]

pipe_empty(p) == p.read_pos = p.write_pos

\* Faulty variant: the ring may be filled to its last slot
pipe_size_full(p) == (p.write_pos - p.read_pos - 1) % PIPE_BUF_SIZE

pipe_size(p) ==
  IF p.write_pos >= p.read_pos
  THEN p.write_pos - p.read_pos
  ELSE PIPE_BUF_SIZE - p.read_pos + p.write_pos

\* pipe_full is this room being 0: one slot always stays free
Room(p) == PIPE_BUF_SIZE - 1 - pipe_size(p)

PipeInit ==
  /\ g_pipes = [s \in Pipes |-> Cleared]
  /\ held = [s \in Pipes |-> "none"]
  /\ accepted = [s \in Pipes |-> <<>>]
  /\ piped = 0

Unused == {s \in Pipes : g_pipes[s].refcount = 0}

\* Faulty variant: both ends are the slot that was found first
pipe_create_shared ==
  LET r == Min(Unused)
  IN  /\ Unused # {}
      /\ g_pipes' = [g_pipes EXCEPT
                       ![r] = [Cleared EXCEPT !.readable = TRUE, !.writable = TRUE, !.refcount = 1]]
      /\ held' = [held EXCEPT ![r] = "read"]
      /\ UNCHANGED <<accepted, piped>>

pipe_create ==
  LET r == Min(Unused)
      w == Min(Unused \ {r})
  IN  IF Cardinality(Unused) < 2
      THEN UNCHANGED pipeVars
      ELSE /\ g_pipes' = [g_pipes EXCEPT
                            ![r] = [Cleared EXCEPT !.readable = TRUE, !.refcount = 1],
                            ![w] = [Cleared EXCEPT !.writable = TRUE, !.refcount = 1]]
           /\ held' = [held EXCEPT ![r] = "read", ![w] = "write"]
           /\ UNCHANGED <<accepted, piped>>

pipe_read(s, count) ==
  LET p == g_pipes[s]
      n == Min({count, pipe_size(p)})
  IN  /\ held[s] # "none"
      /\ p.readable
      /\ g_pipes' = [g_pipes EXCEPT ![s].read_pos = (@ + n) % PIPE_BUF_SIZE]
      /\ piped' = piped + n
      /\ UNCHANGED <<held, accepted>>

pipe_write(s, bytes) ==
  LET p == g_pipes[s]
      n == Min({Len(bytes), Room(p)})
  IN  /\ held[s] # "none"
      /\ p.writable
      /\ g_pipes' = [g_pipes EXCEPT
           ![s].buffer = [i \in Positions |->
                            LET k == (i - p.write_pos) % PIPE_BUF_SIZE
                            IN  IF k < n THEN bytes[k + 1] ELSE @[i]],
           ![s].write_pos = (@ + n) % PIPE_BUF_SIZE]
      /\ accepted' = [accepted EXCEPT ![s] = @ \o SubSeq(bytes, 1, n)]
      /\ UNCHANGED <<held, piped>>


pipe_close(s) ==
  /\ held[s] # "none" \/ g_pipes[s].refcount \in -MaxCloses+1 .. 0
  /\ LET p == [g_pipes[s] EXCEPT !.refcount = @ - 1]
     IN  g_pipes' = [g_pipes EXCEPT ![s] =
           IF p.refcount > 0 THEN p
           ELSE [p EXCEPT !.readable = FALSE, !.writable = FALSE, !.read_pos = 0, !.write_pos = 0]]
  /\ held' = [held EXCEPT ![s] = "none"]
  /\ accepted' = [accepted EXCEPT ![s] = <<>>]
  /\ UNCHANGED piped

PipeNext ==
  \/ pipe_create
  \/ \E s \in Pipes, n \in 1 .. MaxCount : pipe_read(s, n)
  \/ \E s \in Pipes, n \in 1 .. MaxCount : \E bytes \in [1 .. n -> Bytes] : pipe_write(s, bytes)
  \/ \E s \in Pipes : pipe_close(s)
-----------------------------------------------------------------------------
(* An end belongs to one caller and can do exactly what that end is for:   *)
(* a slot is readable or writable only while someone has it, however often *)
(* slots are closed, closed again and handed out anew.                     *)
PipeEnds ==
  \A s \in Pipes :
    /\ g_pipes[s].readable <=> held[s] = "read"
    /\ g_pipes[s].writable <=> held[s] = "write"
    /\ held[s] # "none" <=> g_pipes[s].refcount = 1

(* An open end holds the bytes that pipe_write accepted there, in order,   *)
(* none of them overwritten when the ring is full.                         *)
PipeHoldsWritten ==
  \A s \in Pipes : held[s] = "write" =>
    LET p == g_pipes[s]
    IN  /\ pipe_size(p) = Len(accepted[s])
        /\ \A i \in 1 .. Len(accepted[s]) :
             p.buffer[(p.read_pos + i - 1) % PIPE_BUF_SIZE] = accepted[s][i]

(* The ends share no ring: no byte written to a pipe is ever read from it. *)
PipeCarriesNothing == piped = 0

=============================================================================
