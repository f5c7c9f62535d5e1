-------------------------------- MODULE Clock --------------------------------
(***************************************************************************)
(* What the driver of the real-time clock promises its caller: from a set  *)
(* that succeeded on, a reading is the time that was set, advanced by the  *)
(* seconds that have passed. A set that failed leaves a clock that is not  *)
(* right, a read that failed leaves the caller's struct as it was. It also *)
(* reads a thermometer, in quarters of a degree or in whole ones.          *)
(*                                                                         *)
(* Times are struct tm as this driver uses it: tm_year is the calendar     *)
(* year. A reading has no century: it is right modulo 100 years.           *)
(***************************************************************************)
EXTENDS Integers

VARIABLES
  now,     \* the time of the clock
  given,   \* the time it was last set to
  right,   \* no set has failed since
  tm,      \* the caller's struct: the last reading
  heat,    \* the temperature, in quarters of a degree
  celsius, \* the caller's last reading of it
  degrees  \* and the last in whole degrees

thermometer == <<heat, celsius, degrees>>
vars == <<now, given, right, tm, thermometer>>

Tm == [tm_sec : 0 .. 59, tm_min : 0 .. 59, tm_hour : 0 .. 23, tm_wday : 0 .. 6,
       tm_mday : 1 .. 31, tm_mon : 0 .. 11, tm_year : 2000 .. 2199]

Unset == [tm_sec |-> 0, tm_min |-> 0, tm_hour |-> 0, tm_wday |-> 0,
          tm_mday |-> 0, tm_mon |-> 0, tm_year |-> 0]

-----------------------------------------------------------------------------
(* The calendar of the chip: every fourth year is a leap year.             *)
DaysIn(mon, year) ==
  CASE mon = 1               -> IF year % 4 = 0 THEN 29 ELSE 28
    [] mon \in {3, 5, 8, 10} -> 30
    [] OTHER                 -> 31

(* A field that counts from first to last, advanced when those below carry.*)
Advance(x, carry, first, last) ==
  IF ~carry THEN x ELSE IF x < last THEN x + 1 ELSE first

NextSecond(t) ==
  LET min  == t.tm_sec = 59
      hour == min /\ t.tm_min = 59
      day  == hour /\ t.tm_hour = 23
      days == DaysIn(t.tm_mon, t.tm_year)
      mon  == day /\ t.tm_mday >= days
      year == mon /\ t.tm_mon = 11
  IN  [ tm_sec  |-> Advance(t.tm_sec, TRUE, 0, 59),
        tm_min  |-> Advance(t.tm_min, min, 0, 59),
        tm_hour |-> Advance(t.tm_hour, hour, 0, 23),
        tm_wday |-> Advance(t.tm_wday, day, 0, 6),
        tm_mday |-> Advance(t.tm_mday, day, 1, days),
        tm_mon  |-> Advance(t.tm_mon, mon, 0, 11),
        tm_year |-> Advance(t.tm_year, year, 2000, 2199) ]

(* Ten bits with a sign. *)
Heats == -512 .. 511

Shown(t) == [t EXCEPT !.tm_year = 2000 + (t.tm_year % 100)]

-----------------------------------------------------------------------------
Init ==
  /\ given = Unset /\ right = FALSE /\ tm = Unset
  /\ heat \in Heats /\ celsius = 0 /\ degrees = 0

Set ==
  /\ given' \in Tm
  /\ now' = given'
  /\ right' = TRUE
  /\ UNCHANGED <<tm, thermometer>>

SetFails ==
  /\ right' = FALSE
  /\ UNCHANGED <<given, tm, thermometer>>

Second ==
  /\ right => now' = NextSecond(now)
  /\ UNCHANGED <<given, right, tm, thermometer>>

Read ==
  /\ right => tm' = Shown(now)
  /\ UNCHANGED <<now, given, right, thermometer>>

Warms ==
  /\ heat' \in Heats
  /\ UNCHANGED <<now, given, right, tm, celsius, degrees>>

ReadHeat ==
  /\ celsius' = heat
  /\ UNCHANGED <<now, given, right, tm, heat, degrees>>

(* The whole degrees that have been reached, below zero too. *)
ReadDegrees ==
  /\ degrees' \in -128 .. 127
  /\ 4 * degrees' <= heat /\ heat < 4 * degrees' + 4
  /\ UNCHANGED <<now, given, right, tm, heat, celsius>>

Next == Set \/ SetFails \/ Second \/ Read \/ Warms \/ ReadHeat \/ ReadDegrees

Spec == Init /\ [][Next]_vars
=============================================================================
