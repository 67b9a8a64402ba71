------------------------------ MODULE Keyboard ------------------------------
(***************************************************************************)
(* The keyboard driver (drivers/keyboard/keyboard.c) and the main loop of  *)
(* the kernel that reads from it (kernel/kmain.c).                         *)
(*                                                                         *)
(* Keys stand for scancodes: letters and digits have a character, dead     *)
(* keys have none, and prefix is 0xE0.  The handler runs with interrupts   *)
(* off, in one step, between any two accesses of the reader.  down has the *)
(* modifier keys that are really pressed; expected has the characters of   *)
(* the keys that found room in the buffer and have not been read.          *)
(***************************************************************************)
EXTENDS Integers, Sequences, FiniteSets

CONSTANTS KEYBOARD_BUFFER_SIZE, KeyLetters, KeyDigits, MaxTyped, Modifiers

VARIABLES kb, down, both, expected, typed, main

kbVars == <<kb, down, both, expected, typed, main>>

\* Shift wins over control: only small letters have control characters
Translate(key, shift, ctrl) ==
  IF shift THEN <<key, "shifted">>
  ELSE IF ctrl /\ key \in KeyLetters THEN <<key, "control">> ELSE <<key, "plain">>

Next_of(i) == (i + 1) % KEYBOARD_BUFFER_SIZE

\* keyboard_handle_irq for the release of a key
key_released(m) ==
  /\ m \in down
  /\ kb' = CASE m \in {"lshift", "rshift"} -> [kb EXCEPT !.shift = FALSE]
             [] m = "ctrl" -> [kb EXCEPT !.ctrl = FALSE]
             [] m = "alt" -> [kb EXCEPT !.alt = FALSE]
  /\ down' = down \ {m}
  /\ UNCHANGED <<both, expected, typed, main>>

key_modifier(m) ==
  /\ m \notin down
  /\ kb' = CASE m \in {"lshift", "rshift"} -> [kb EXCEPT !.shift = TRUE]
             [] m = "ctrl" -> [kb EXCEPT !.ctrl = TRUE]
             [] m = "alt" -> [kb EXCEPT !.alt = TRUE]
  /\ down' = down \cup {m}
  /\ both' = (both \/ {"lshift", "rshift"} \subseteq down')
  /\ UNCHANGED <<expected, typed, main>>

\* Faulty variant: the last slot is filled and the ring looks empty
key_pressed_full(key) ==
  LET c == Translate(key, kb.shift, kb.ctrl)
  IN  /\ typed < MaxTyped /\ typed' = typed + 1
      /\ kb' = [kb EXCEPT !.buffer[kb.head] = c, !.head = Next_of(@)]
      /\ expected' = IF Len(expected) < KEYBOARD_BUFFER_SIZE
                     THEN Append(expected, Translate(key, down \cap {"lshift", "rshift"} # {}, "ctrl" \in down))
                     ELSE expected
      /\ UNCHANGED <<down, both, main>>

\* A key with a character; a key without one, 0xE0 and the release of such
\* keys change nothing
key_pressed(key) ==
  LET c == Translate(key, kb.shift, kb.ctrl)
      room == Next_of(kb.head) # kb.tail
  IN  /\ typed < MaxTyped /\ typed' = typed + 1
      /\ IF room
         THEN /\ kb' = [kb EXCEPT !.buffer[kb.head] = c, !.head = Next_of(@)]
              /\ expected' = Append(expected, Translate(key, down \cap {"lshift", "rshift"} # {}, "ctrl" \in down))
         ELSE UNCHANGED <<kb, expected>>
      /\ UNCHANGED <<down, both, main>>

\* Any interrupt ends a hlt; the timer's does whatever else happens
timer_wakes ==
  /\ main.step = "halted"
  /\ main' = [main EXCEPT !.step = "test"]
  /\ UNCHANGED <<kb, down, both, expected, typed>>

\* Faulty variant: a ring that has wrapped around looks empty
main_test_order ==
  /\ main.step = "test"
  /\ main' = [main EXCEPT !.step = IF kb.head > kb.tail THEN "load" ELSE "hlt"]
  /\ UNCHANGED <<kb, down, both, expected, typed>>

\* keyboard_has_input, and the loop of keyboard_get_char that it lets pass
main_test ==
  /\ main.step = "test"
  /\ main' = [main EXCEPT !.step = IF kb.head # kb.tail THEN "load" ELSE "hlt"]
  /\ UNCHANGED <<kb, down, both, expected, typed>>

main_load ==
  /\ main.step = "load"
  /\ main' = [step |-> "advance", char |-> kb.buffer[kb.tail]]
  /\ UNCHANGED <<kb, down, both, expected, typed>>

\* The end of keyboard_get_char; vga_putchar and serial_putc follow
main_advance ==
  /\ main.step = "advance"
  /\ kb' = [kb EXCEPT !.tail = Next_of(@)]
  /\ main' = [step |-> "hlt", char |-> <<>>]
  /\ expected' = IF expected # <<>> THEN Tail(expected) ELSE <<>>
  /\ UNCHANGED <<down, both, typed>>

main_hlt ==
  /\ main.step = "hlt"
  /\ main' = [main EXCEPT !.step = "halted"]
  /\ UNCHANGED <<kb, down, both, expected, typed>>

KbInit ==
  /\ kb = [buffer |-> [i \in 0 .. KEYBOARD_BUFFER_SIZE - 1 |-> <<>>], head |-> 0, tail |-> 0,
           shift |-> FALSE, ctrl |-> FALSE, alt |-> FALSE]
  /\ down = {} /\ both = FALSE
  /\ expected = <<>> /\ typed = 0
  /\ main = [step |-> "test", char |-> <<>>]

KbStep == timer_wakes \/ main_test \/ main_load \/ main_advance \/ main_hlt

KbNext ==
  \/ \E m \in Modifiers : key_released(m) \/ key_modifier(m)
  \/ \E key \in KeyLetters \cup KeyDigits : key_pressed(key)
  \/ KbStep
-----------------------------------------------------------------------------
(* The buffer holds, in order, the characters of the keys that found room, *)
(* as the modifier keys really were when they were pressed, unless both    *)
(* shift keys were down at once: the release of one ends the shift.  A key *)
(* is dropped only when all but one slot are taken.                        *)
KeysInOrder ==
  LET held == (kb.head - kb.tail) % KEYBOARD_BUFFER_SIZE
  IN  both \/ /\ Len(expected) = held
              /\ \A i \in 1 .. held : kb.buffer[(kb.tail + i - 1) % KEYBOARD_BUFFER_SIZE] = expected[i]
              /\ main.step = "advance" => main.char = expected[1]

(* Once the typing stops, every key that found room is echoed, also one    *)
(* that arrives between the test and the hlt of the main loop: one is      *)
(* echoed for each interrupt, and the timer's go on.                       *)
KeysEchoed == (expected # <<>>) ~> (expected = <<>>)

(* What keyboard_handle_irq puts in its ring the main loop takes out in    *)
(* order and echoes.                                                       *)
KeysDelivered == []KeysInOrder /\ KeysEchoed
=============================================================================
