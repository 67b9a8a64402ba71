------------------------------- MODULE Clock --------------------------------
(***************************************************************************)
(* Time: the real-time clock (drivers/rtc/rtc.c), the tick counter and the *)
(* sleep of the PIT (drivers/pit/pit.c), and the software watchdog         *)
(* (drivers/watchdog/watchdog.c).                                          *)
(*                                                                         *)
(* The chip keeps a calendar date; rtc_read_time reads its registers one   *)
(* by one, and the chip may step on between two of them.  Instants of the  *)
(* tick counter are milliseconds, a tick every 1000 / PIT_HZ of them;      *)
(* unsigned 32-bit products are taken modulo UintMod.                      *)
(***************************************************************************)
EXTENDS Integers, Sequences

CONSTANTS PIT_HZ, UintMod, SleepTimes, WATCHDOG_TIMEOUT_MS, WatchdogTimeouts, MaxMs

VARIABLES chip, mode, reading, read, stepped,          \* the real-time clock
          ms, g_pit_ticks, sleep, dog                  \* the tick counter

rtcVars == <<chip, mode, reading, read, stepped>>
pitVars == <<ms, g_pit_ticks, sleep, dog>>

\* The registers in the order they are read
Registers == <<"second", "minute", "hour", "day", "month", "year">>

Leap(y) == y % 4 = 0
DaysIn(y, m) == CASE m = 2 -> IF Leap(y) THEN 29 ELSE 28 [] m \in {4, 6, 9, 11} -> 30 [] OTHER -> 31

\* The chip's next second, within 2000 .. 2099
Tomorrow(t) ==
  IF t.day < DaysIn(t.year, t.month) THEN [t EXCEPT !.day = @ + 1]
  ELSE IF t.month < 12 THEN [t EXCEPT !.day = 1, !.month = @ + 1]
  ELSE [t EXCEPT !.day = 1, !.month = 1, !.year = @ + 1]
Stepped(t) ==
  IF t.second < 59 THEN [t EXCEPT !.second = @ + 1]
  ELSE IF t.minute < 59 THEN [t EXCEPT !.second = 0, !.minute = @ + 1]
  ELSE IF t.hour < 23 THEN [t EXCEPT !.second = 0, !.minute = 0, !.hour = @ + 1]
  ELSE Tomorrow([t EXCEPT !.second = 0, !.minute = 0, !.hour = 0])

Bcd(v) == (v \div 10) * 16 + (v % 10)

\* What a register holds: with 12 hours, 1 .. 12 with bit 7 for the afternoon
Register(t, reg) ==
  LET twelve == IF t.hour % 12 = 0 THEN 12 ELSE t.hour % 12
      value == IF reg = "hour" /\ ~mode.is_24h THEN twelve ELSE t[reg]
      coded == IF mode.is_binary THEN value ELSE Bcd(value)
  IN  IF reg = "hour" /\ ~mode.is_24h /\ t.hour >= 12 THEN coded + 128 ELSE coded

\* Faulty variant: the low digit keeps the high one
bcd_to_binary_whole(b) == ((b \div 16) * 10 + b) % 256

bcd_to_binary(b) == ((b \div 16) * 10 + (b % 16)) % 256

\* The conversions at the end of rtc_read_time: the afternoon bit is looked at
\* after the conversion from BCD
Converted(raw) ==
  LET v == IF mode.is_binary THEN raw ELSE [r \in DOMAIN raw |-> bcd_to_binary(raw[r])]
  IN  IF ~mode.is_24h /\ v.hour >= 128 THEN [v EXCEPT !.hour = (v.hour - 128 + 12) % 24] ELSE v

\* Faulty variant: no month before the current one is counted
rtc_get_timestamp_year(t) ==
  t.second + 60 * (t.minute + 60 * (t.hour + 24 * (t.day - 1 + t.year * 365 + t.year \div 4)))

rtc_get_timestamp(t) ==
  LET lengths == <<31, 28, 31, 30, 31, 30, 31, 31, 30, 31, 30, 31>>
      before[m \in 1 .. 12] == IF m = 1 THEN 0 ELSE before[m - 1] + lengths[m - 1]
      days == t.year * 365 + t.year \div 4 + before[t.month] + t.day - 1
  IN  t.second + 60 * (t.minute + 60 * (t.hour + 24 * days))

\* The wait for the update in progress bit, and the reads
rtc_read_begin ==
  /\ reading = 0
  /\ reading' = 1 /\ stepped' = FALSE
  /\ UNCHANGED <<chip, mode, read>>

rtc_read_reg ==
  /\ reading \in 1 .. 6
  /\ read' = [read EXCEPT ![Registers[reading]] = Register(chip, Registers[reading])]
  /\ reading' = reading + 1
  /\ UNCHANGED <<chip, mode, stepped>>

rtc_read_end ==
  /\ reading = 7
  /\ read' = Converted(read) /\ reading' = 8
  /\ UNCHANGED <<chip, mode, stepped>>

chip_steps ==
  /\ reading \in 1 .. 6 /\ ~stepped
  /\ chip' = Stepped(chip) /\ stepped' = TRUE
  /\ UNCHANGED <<mode, reading, read>>

At(y, mo, d, h, mi, s) == [year |-> y, month |-> mo, day |-> d, hour |-> h, minute |-> mi, second |-> s]
\* The ends of a day, a month, a year and a leap February, noon and midnight
Moments == {At(3, 12, 31, 23, 59, 59), At(4, 2, 28, 23, 59, 59), At(4, 2, 29, 23, 59, 59), At(1, 2, 28, 23, 59, 59),
            At(2, 4, 30, 11, 59, 59), At(9, 10, 9, 0, 59, 59), At(5, 7, 19, 12, 30, 9), At(7, 1, 1, 0, 0, 0)}

RtcInit(moments, modes) ==
  /\ chip \in moments /\ mode \in modes
  /\ reading = 0 /\ read = chip /\ stepped = FALSE

RtcNext == rtc_read_begin \/ rtc_read_reg \/ rtc_read_end \/ chip_steps
-----------------------------------------------------------------------------
Period == 1000 \div PIT_HZ

\* A millisecond passes; the interrupt of the PIT ends it when a tick is due.
\* The scheduler_tick of its handler changes nothing here: see Interrupts
pit_handle_tick ==
  /\ ms < MaxMs /\ ms' = ms + 1
  /\ g_pit_ticks' = IF ms' % Period = 0 THEN g_pit_ticks + 1 ELSE g_pit_ticks
  /\ UNCHANGED <<sleep, dog>>

\* Faulty variant: the tick that is under way is counted as a whole one
Target_partial(t) == g_pit_ticks + ((t * PIT_HZ) % UintMod) \div 1000

Target(t) == g_pit_ticks + ((t * PIT_HZ) % UintMod) \div 1000 + 1

pit_sleep_ms(t) ==
  /\ sleep.for = -1
  /\ sleep' = [for |-> t, since |-> ms, target |-> Target(t)]
  /\ UNCHANGED <<ms, g_pit_ticks, dog>>

\* The loop of pit_sleep_ms ends
pit_wakes ==
  /\ sleep.for # -1 /\ g_pit_ticks >= sleep.target
  /\ sleep' = [for |-> -1, since |-> 0, target |-> 0]
  /\ UNCHANGED <<ms, g_pit_ticks, dog>>

\* fed is the instant last_feed stands for
Fed(d) == [d EXCEPT !.last_feed = g_pit_ticks * Period, !.fed = ms]

watchdog_feed ==
  /\ dog' = Fed(dog)
  /\ UNCHANGED <<ms, g_pit_ticks, sleep>>

watchdog_enable ==
  /\ dog' = Fed([dog EXCEPT !.enabled = TRUE])
  /\ UNCHANGED <<ms, g_pit_ticks, sleep>>

watchdog_disable ==
  /\ dog' = [dog EXCEPT !.enabled = FALSE]
  /\ UNCHANGED <<ms, g_pit_ticks, sleep>>

watchdog_set_timeout(t) ==
  /\ dog' = [dog EXCEPT !.timeout = t]
  /\ UNCHANGED <<ms, g_pit_ticks, sleep>>

watchdog_check ==
  /\ dog.enabled /\ g_pit_ticks * Period - dog.last_feed > dog.timeout
  /\ dog' = [dog EXCEPT !.panic = TRUE]
  /\ UNCHANGED <<ms, g_pit_ticks, sleep>>

PitInit ==
  /\ ms = 0 /\ g_pit_ticks = 0
  /\ sleep = [for |-> -1, since |-> 0, target |-> 0]
  /\ dog = [enabled |-> FALSE, timeout |-> WATCHDOG_TIMEOUT_MS, last_feed |-> 0, fed |-> 0, panic |-> FALSE]

PitNext ==
  /\ ~dog.panic
  /\ \/ pit_handle_tick \/ pit_wakes
     \/ watchdog_enable \/ watchdog_feed \/ watchdog_disable \/ watchdog_check
     \/ \E t \in SleepTimes : pit_sleep_ms(t)
     \/ \E t \in WatchdogTimeouts : watchdog_set_timeout(t)
-----------------------------------------------------------------------------
(* rtc_read_time returns the time the chip had while it was read, in all   *)
(* encodings, unless the chip stepped on between two registers, or counts  *)
(* to 12 hours and it is in BCD or twelve o'clock.                         *)
ClockRead ==
  (reading = 8 /\ ~stepped /\ (mode.is_24h \/ (mode.is_binary /\ chip.hour % 12 # 0))) => read = chip

(* The timestamp of a later second is greater, by one except at the end of *)
(* a year before a leap year, whose extra day is counted too early; only   *)
(* the 1st of March of a leap year repeats the timestamps of the day       *)
(* before.                                                                 *)
TimestampGrows ==
  LET t == Stepped(chip)
      grown == rtc_get_timestamp(t) - rtc_get_timestamp(chip)
  IN  IF t.month = 3 /\ t.day = 1 /\ Leap(t.year) /\ chip.day = 29 THEN grown = 1 - 86400
      ELSE IF t.year # chip.year /\ Leap(t.year) THEN grown = 1 + 86400
      ELSE grown = 1

(* pit_sleep_ms sleeps no less than the whole ticks in its argument and no *)
(* more than one tick longer,  whatever part of a tick has passed when it  *)
(* is called, unless ms * PIT_HZ overflows; the watchdog panics only if it *)
(* was not fed for its timeout less one tick.                              *)
SleepAndWatchdog ==
  /\ (sleep.for # -1 /\ sleep.for * PIT_HZ < UintMod) =>
       IF g_pit_ticks >= sleep.target THEN ms - sleep.since >= (sleep.for \div Period) * Period
       ELSE ms - sleep.since <= sleep.for + Period
  /\ dog.panic => ms - dog.fed > dog.timeout - Period

(* rtc_read_time, its timestamp, pit_sleep_ms and the watchdog tell the    *)
(* time, outside the cases excepted above.                                 *)
ClocksRight == ClockRead /\ TimestampGrows /\ SleepAndWatchdog
=============================================================================
