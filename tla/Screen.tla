------------------------------- MODULE Screen -------------------------------
(***************************************************************************)
(* The text screen, drivers/vga/vga.c, and the two writers to it, klog in  *)
(* lib/klog.c and tty_write in lib/tty.c; what they also send to the       *)
(* serial line is left out.                                                *)
(*                                                                         *)
(* A message is a few characters; the tab stops are TAB columns apart.     *)
(* vga_putchar may be interrupted after it has moved to the next row and   *)
(* before it has looked whether to scroll; the handler may log.  paper is  *)
(* what a printer with rows as wide would have printed.                    *)
(***************************************************************************)
EXTENDS Integers, Sequences, SequencesExt

CONSTANTS VGA_WIDTH, VGA_HEIGHT, TAB, ScreenChars, KLOG_NOTICE, MaxPrinted

VARIABLES vga, rest, paper, struck, printed

screenVars == <<vga, rest, paper, struck, printed>>

Blanks == [x \in 0 .. VGA_WIDTH - 1 |-> " "]

vga_clear(v) == [v EXCEPT !.memory = [y \in 0 .. VGA_HEIGHT - 1 |-> Blanks], !.row = 0, !.col = 0, !.cursor = 0]

vga_scroll(v) ==
  [v EXCEPT !.memory = [y \in 0 .. VGA_HEIGHT - 1 |-> IF y + 1 < VGA_HEIGHT THEN v.memory[y + 1] ELSE Blanks],
            !.row = VGA_HEIGHT - 1]

vga_move_cursor(v) == [v EXCEPT !.cursor = v.row * VGA_WIDTH + v.col]

\* A row past the last one is not screen memory
Stored(v, row, col, c) ==
  IF row < VGA_HEIGHT THEN [v EXCEPT !.memory[row][col] = c] ELSE [v EXCEPT !.beyond = TRUE]

IfScroll(v) == IF v.row >= VGA_HEIGHT THEN vga_scroll(v) ELSE v

\* vga_putchar up to the point where the row may be one too many, and after it
AtNextRow(v, c) == c = "nl" \/ (c \notin {"cr", "tab", "bs"} /\ v.col >= VGA_WIDTH)
NextRow(v) == [v EXCEPT !.col = 0, !.row = @ + 1]


Plain(v, c) == vga_move_cursor([Stored(v, v.row, v.col, c) EXCEPT !.col = @ + 1])

RECURSIVE Tabbed(_, _)
Tabbed(v, stop) ==
  IF v.col < stop /\ v.col < VGA_WIDTH
  THEN Tabbed([Stored(v, v.row, v.col, " ") EXCEPT !.col = @ + 1], stop) ELSE v

\* vga_putchar from the test of the row on
Finish(v, c) ==
  CASE c = "nl" -> vga_move_cursor(IfScroll(v))
    [] c = "cr" -> vga_move_cursor([v EXCEPT !.col = 0])
    [] c = "tab" -> vga_move_cursor(Tabbed(v, ((v.col + TAB) \div TAB) * TAB))
    [] c = "bs" -> vga_move_cursor(IF v.col > 0 THEN [Stored(v, v.row, v.col - 1, " ") EXCEPT !.col = @ - 1] ELSE v)
    [] OTHER -> Plain(IF v.opened THEN IfScroll(v) ELSE v, c)

vga_putchar(v, c) ==
  [Finish([IF AtNextRow(v, c) THEN NextRow(v) ELSE v EXCEPT !.opened = AtNextRow(v, c)], c)
     EXCEPT !.opened = FALSE]
vga_puts(v, s) == FoldLeft(vga_putchar, v, s)

\* The printer: it opens rows without end
Printed(p, c) ==
  LET rows == p.rows
      n == Len(rows)
      wrap == c \notin {"nl", "cr", "tab", "bs"} /\ p.col >= VGA_WIDTH
      put(r, col) == [rows EXCEPT ![n] = [@ EXCEPT ![col] = r]]
      stop == ((p.col + TAB) \div TAB) * TAB
  IN  CASE c = "nl" -> [rows |-> Append(rows, Blanks), col |-> 0]
        [] c = "cr" -> [p EXCEPT !.col = 0]
        [] c = "tab" -> [rows |-> [rows EXCEPT ![n] = [x \in DOMAIN Blanks |->
                                    IF p.col <= x /\ x < stop THEN " " ELSE @[x]]],
                        col |-> IF stop < VGA_WIDTH THEN stop ELSE VGA_WIDTH]
        [] c = "bs" -> IF p.col = 0 THEN p ELSE [rows |-> put(" ", p.col - 1), col |-> p.col - 1]
        [] OTHER -> IF wrap THEN [rows |-> Append(rows, [Blanks EXCEPT ![0] = c]), col |-> 1]
                    ELSE [rows |-> put(c, p.col), col |-> p.col + 1]

\* rest has the characters a writer has not yet put on the screen; klog keeps
\* what is less urgent than a notice from it
klog(level, c) ==
  /\ rest = <<>> /\ printed < MaxPrinted /\ printed' = printed + 1
  /\ rest' = IF level <= KLOG_NOTICE THEN <<c, "nl">> ELSE <<>>
  /\ UNCHANGED <<vga, paper, struck>>

tty_write(c) ==
  /\ rest = <<>> /\ printed < MaxPrinted /\ printed' = printed + 1
  /\ rest' = <<c>>
  /\ UNCHANGED <<vga, paper, struck>>

\* The first part of vga_putchar
open_row ==
  /\ rest # <<>> /\ ~vga.opened
  /\ AtNextRow(vga, Head(rest))
  /\ vga' = [NextRow(vga) EXCEPT !.opened = TRUE]
  /\ UNCHANGED <<rest, paper, struck, printed>>

\* The second part, or all of it
put_char ==
  /\ rest # <<>> /\ (vga.opened \/ ~AtNextRow(vga, Head(rest)))
  /\ vga' = [Finish(vga, Head(rest)) EXCEPT !.opened = FALSE]
  /\ paper' = Printed(paper, Head(rest))
  /\ rest' = Tail(rest)
  /\ UNCHANGED <<struck, printed>>

\* A handler logs a message of its own
interrupt_logs(c) ==
  /\ rest # <<>> /\ printed < MaxPrinted /\ printed' = printed + 1
  /\ vga' = [vga_puts([vga EXCEPT !.opened = FALSE], <<c, "nl">>) EXCEPT !.opened = vga.opened]
  /\ struck' = (struck \/ vga.opened)
  /\ paper' = FoldLeft(Printed, paper, <<c, "nl">>)
  /\ UNCHANGED rest

clear_screen ==
  /\ rest = <<>>
  /\ vga' = vga_clear(vga)
  /\ paper' = [rows |-> <<Blanks>>, col |-> 0]
  /\ UNCHANGED <<rest, struck, printed>>

ScreenInit ==
  /\ vga = vga_clear([memory |-> <<>>, row |-> 0, col |-> 0, cursor |-> 0, opened |-> FALSE, beyond |-> FALSE])
  /\ paper = [rows |-> <<Blanks>>, col |-> 0]
  /\ rest = <<>> /\ struck = FALSE /\ printed = 0

ScreenNext ==
  \/ \E c \in ScreenChars : tty_write(c) \/ interrupt_logs(c)
  \/ \E level \in {KLOG_NOTICE, KLOG_NOTICE + 1}, c \in ScreenChars : klog(level, c)
  \/ open_row \/ put_char \/ clear_screen
-----------------------------------------------------------------------------
=============================================================================
