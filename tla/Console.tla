------------------------------ MODULE Console -------------------------------
(***************************************************************************)
(* The command line of the kernel, drivers/console/console.c: its table of *)
(* commands, its line editor and the call of a command.                    *)
(*                                                                         *)
(* A name is a sequence of characters; ConKeys are the characters that can *)
(* be typed, a blank among them.  The line buffer keeps what earlier lines *)
(* left in it.  text is the line as its writer sees it.                    *)
(***************************************************************************)
EXTENDS Integers, Sequences, SequencesExt, FiniteSets

CONSTANTS CONSOLE_CMD_MAX_LEN, MAX_COMMANDS, NAME_MAX, MAX_ARGS, ConKeys

NUL == "nul"
Blank == " "

\* ran: the arguments and the handler of the command just called, if any
VARIABLES g_commands, line, pos, ran, text

conVars == <<g_commands, line, pos, ran, text>>

\* A handler is known by the order of its registration
Named(name, commands) == [name |-> SubSeq(name, 1, Min({NAME_MAX, Len(name)})), handler |-> Len(commands) + 1]

console_register_command(name) ==
  /\ g_commands' = IF Len(g_commands) >= MAX_COMMANDS THEN g_commands
                   ELSE Append(g_commands, Named(name, g_commands))
  /\ ran' = <<>>
  /\ UNCHANGED <<line, pos, text>>

\* The string that starts a buffer
Terminated(buf) ==
  LET stops == {i \in 0 .. CONSOLE_CMD_MAX_LEN - 1 : buf[i] = NUL}
  IN  [i \in 1 .. CHOOSE n \in stops : \A m \in stops : n <= m |-> buf[i - 1]]

RECURSIVE parse_args(_, _)
parse_args(s, max) ==
  LET at(Test(_)) == SelectInSeq(s, Test)
      from == at(LAMBDA c : c # Blank)
      word == SubSeq(s, from, Len(s))
      blank == SelectInSeq(word, LAMBDA c : c = Blank)
  IN  IF from = 0 \/ max = 0 THEN <<>>
      ELSE IF blank = 0 THEN <<word>>
      ELSE <<SubSeq(word, 1, blank - 1)>>
             \o parse_args(SubSeq(word, blank + 1, Len(word)), max - 1)

\* Faulty variant: a command is found by the start of its name
console_process_line_prefix(s) ==
  LET argv == parse_args(s, MAX_ARGS)
      i == SelectInSeq(g_commands, LAMBDA c : IsPrefix(argv[1], c.name))
  IN  IF argv = <<>> \/ i = 0 THEN <<>> ELSE <<argv, g_commands[i].handler>>

\* The first command with the name is called, with all the words as arguments
console_process_line(s) ==
  LET argv == parse_args(s, MAX_ARGS)
      i == SelectInSeq(g_commands, LAMBDA c : c.name = argv[1])
  IN  IF argv = <<>> \/ i = 0 THEN <<>> ELSE <<argv, g_commands[i].handler>>

enter ==
  LET buf == [line EXCEPT ![pos] = NUL]
  IN  /\ line' = buf
      /\ ran' = <<text, console_process_line(Terminated(buf))>>
      /\ pos' = 0 /\ text' = <<>>
      /\ UNCHANGED g_commands

backspace ==
  /\ pos' = IF pos > 0 THEN pos - 1 ELSE 0
  /\ text' = SubSeq(text, 1, Len(text) - 1)
  /\ ran' = <<>>
  /\ UNCHANGED <<g_commands, line>>

\* A character for which there is no room is ignored, and not echoed
type_char(c) ==
  /\ IF pos < CONSOLE_CMD_MAX_LEN - 1
     THEN line' = [line EXCEPT ![pos] = c] /\ pos' = pos + 1 /\ text' = Append(text, c)
     ELSE UNCHANGED <<line, pos, text>>
  /\ ran' = <<>>
  /\ UNCHANGED g_commands

\* The names registered by console_init, and the others that may follow
Builtin == <<<<"p">>, <<"p", "q">>>>
Names == {<<"q">>, <<"p">>, <<"q", "q", "p">>}

ConInit ==
  /\ g_commands = [i \in 1 .. Len(Builtin) |-> [name |-> Builtin[i], handler |-> i]]
  /\ line = [i \in 0 .. CONSOLE_CMD_MAX_LEN - 1 |-> Blank]
  /\ pos = 0 /\ ran = <<>> /\ text = <<>>

ConNext ==
  \/ \E name \in Names : console_register_command(name)
  \/ \E c \in ConKeys : type_char(c)
  \/ backspace
  \/ enter
-----------------------------------------------------------------------------
\* The k-th maximal run of characters other than blanks
WordAt(s, k) ==
  LET starts == {i \in 1 .. Len(s) : s[i] # Blank /\ (i = 1 \/ s[i - 1] = Blank)}
      i == CHOOSE j \in starts : Cardinality({h \in starts : h <= j}) = k
      ends == {j \in i .. Len(s) : s[j] # Blank /\ (j = Len(s) \/ s[j + 1] = Blank)}
  IN  SubSeq(s, i, CHOOSE j \in ends : \A h \in ends : j <= h)

(* A command is called exactly when its name, cut to what the table holds, *)
(* is the first word of the line as edited (nothing of an older, longer    *)
(* line is left in it), with the words of that line up to the limit; of    *)
(* two commands with one name it is the older one.                         *)
ConsoleRuns ==
  ran # <<>> =>
    LET s == ran[1]
        called == ran[2]
        words == Cardinality({i \in 1 .. Len(s) : s[i] # Blank /\ (i = 1 \/ s[i - 1] = Blank)})
        matching == {i \in 1 .. Len(g_commands) : words > 0 /\ g_commands[i].name = WordAt(s, 1)}
    IN  IF matching = {} THEN called = <<>>
        ELSE /\ \A i \in matching : called[2] <= i
             /\ called[2] \in matching
             /\ Len(called[1]) = IF words < MAX_ARGS THEN words ELSE MAX_ARGS
             /\ \A k \in 1 .. Len(called[1]) : called[1][k] = WordAt(s, k)
=============================================================================
