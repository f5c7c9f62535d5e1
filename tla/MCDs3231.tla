------------------------------ MODULE MCDs3231 ------------------------------
(* Times of which every field carries within a few seconds of one of them. *)
EXTENDS Ds3231

At(year, mon, mday, wday, hour, min, sec) ==
  [ tm_sec |-> sec, tm_min |-> min, tm_hour |-> hour, tm_wday |-> wday,
    tm_mday |-> mday, tm_mon |-> mon, tm_year |-> year ]

MCTimes ==
  { At(2023, 1, 28, 2, 23, 59, 59),    \* February of a common year
    At(2024, 1, 28, 3, 23, 59, 59),    \* and of a leap year
    At(2023, 0, 1, 0, 11, 59, 59),      \* noon of a Sunday in January
    At(2099, 11, 31, 4, 23, 59, 59) }  \* the last day of the century

(* A quarter of a degree below zero, and 25.5 degrees. *)
MCTemps == {-1, 102}
=============================================================================
