------------------------------- MODULE Ds3231 -------------------------------
(***************************************************************************)
(* The driver of the DS3231 real-time clock: ds3231_set_time,              *)
(* ds3231_get_time and the reads of its thermometer over an I2C bus whose  *)
(* transfers can fail, and the chip, which is external: it keeps its time  *)
(* in seven registers, on a battery, and counts seconds, and shows its     *)
(* temperature in two more. Transfers are atomic with respect to its counting,  *)
(* as the chip guarantees. A failed write may have stored the first of its *)
(* bytes; a failed read returns before the caller's struct is written.     *)
(***************************************************************************)
EXTENDS Integers, Sequences

CONSTANTS
  Times,     \* the times the program sets the clock to
  Temps,     \* temperatures, in quarters of a degree
  Cuts,      \* after how many of its seven bytes a write may fail
  MaxTicks,  \* bound of the model: seconds after each set
  MaxFails   \* bound of the model: sets that fail one after the other

VARIABLES
  regs,    \* the chip's registers 0x00..0x06
  tm,      \* the caller's struct tm (local_time)
  given,   \* history: the argument of the last set that succeeded
  fails,   \* history: sets that have failed since, at first more than none
  ticks,   \* seconds since the last set
  heat,    \* the chip's temperature, in quarters of a degree
  celsius, \* the caller's last raw reading; as a float, a quarter of it
  degrees  \* and the last whole one

clock == <<regs, tm, given, fails, ticks>>
thermometer == <<heat, celsius, degrees>>
vars == <<clock, thermometer>>

-----------------------------------------------------------------------------
(* The conversions, in 8 bits.                                             *)
bcd2dec(val) == ((val \div 16) * 10 + (val % 16)) % 256

dec2bcd(val) == ((val \div 10) * 16 + (val % 10)) % 256

Flag(byte, mask) == (byte \div mask) % 2 = 1

DS3231_12HOUR_FLAG == 64
DS3231_PM_FLAG == 32
Low5(byte) == byte % 32     \* & DS3231_12HOUR_MASK, & DS3231_MONTH_MASK

Hour(byte) ==
  IF Flag(byte, DS3231_12HOUR_FLAG)
    THEN bcd2dec(Low5(byte)) - 1 + (IF Flag(byte, DS3231_PM_FLAG) THEN 12 ELSE 0)
    ELSE bcd2dec(byte)

(* The bytes ds3231_set_time writes. *)
Data(t) ==
  << dec2bcd(t.tm_sec), dec2bcd(t.tm_min), dec2bcd(t.tm_hour),
     dec2bcd(t.tm_wday + 1), dec2bcd(t.tm_mday), dec2bcd(t.tm_mon + 1),
     dec2bcd((t.tm_year - 2000) % 256) >>

(* The struct ds3231_get_time makes of the bytes it has read. *)
Converted_noMask(data) ==
  [ tm_sec  |-> bcd2dec(data[1]),
    tm_min  |-> bcd2dec(data[2]),
    tm_hour |-> Hour(data[3]),
    tm_wday |-> bcd2dec(data[4]) - 1,
    tm_mday |-> bcd2dec(data[5]),
    tm_mon  |-> bcd2dec(data[6]) - 1,
    tm_year |-> bcd2dec(data[7]) + 2000 ]

Converted(data) ==
  [ tm_sec  |-> bcd2dec(data[1]),
    tm_min  |-> bcd2dec(data[2]),
    tm_hour |-> Hour(data[3]),
    tm_wday |-> bcd2dec(data[4]) - 1,
    tm_mday |-> bcd2dec(data[5]),
    tm_mon  |-> bcd2dec(Low5(data[6])) - 1,
    tm_year |-> bcd2dec(data[7]) + 2000 ]

(* ds3231_get_raw_temp, from a byte with a sign and two more bits.         *)
Int8(byte) == IF byte < 128 THEN byte ELSE byte - 256

RawTemp(data) == Int8(data[1]) * 4 + data[2] \div 64

TempInteger(raw) == Int8((raw \div 4) % 256)     \* raw >> 2, in 8 bits

-----------------------------------------------------------------------------
(* The chip: what its registers mean, and which it has for a time. Hours   *)
(* of the 12-hour mode are 12, 1, .. 11, with bit 5 for the afternoon; bit *)
(* 7 of the month is the century.                                          *)
Digits(byte) == 10 * (byte \div 16) + (byte % 16)
Bcd(n) == 16 * (n \div 10) + (n % 10)

ChipHour(byte) ==
  IF Flag(byte, 64)
    THEN (Digits(byte % 32) % 12) + (IF Flag(byte, 32) THEN 12 ELSE 0)
    ELSE Digits(byte)

HourByte(h, twelve) ==
  IF twelve THEN 64 + (IF h >= 12 THEN 32 ELSE 0) + Bcd(((h + 11) % 12) + 1)
            ELSE Bcd(h)

ChipTime(r) ==
  [ tm_sec  |-> Digits(r[1]),
    tm_min  |-> Digits(r[2]),
    tm_hour |-> ChipHour(r[3]),
    tm_wday |-> Digits(r[4]) - 1,
    tm_mday |-> Digits(r[5]),
    tm_mon  |-> Digits(r[6] % 128) - 1,
    tm_year |-> 2000 + 100 * (r[6] \div 128) + Digits(r[7]) ]

Registers(t, twelve) ==
  << Bcd(t.tm_sec), Bcd(t.tm_min), HourByte(t.tm_hour, twelve),
     Bcd(t.tm_wday + 1), Bcd(t.tm_mday),
     Bcd(t.tm_mon + 1) + 128 * ((t.tm_year - 2000) \div 100),
     Bcd(t.tm_year % 100) >>

(* The registers 0x11 and 0x12.                                            *)
TempRegisters(quarters) == << (quarters \div 4) % 256, 64 * (quarters % 4) >>

-----------------------------------------------------------------------------
C == INSTANCE Clock WITH now <- ChipTime(regs), right <- fails = 0

ASSUME TimesAssumption == \A t \in Times : t \in C!Tm /\ t.tm_year < 2100
ASSUME TempsAssumption == Temps \subseteq C!Heats
ASSUME CutsAssumption == Cuts \subseteq 0 .. 6
ASSUME BoundsAssumption == MaxTicks \in Nat /\ MaxFails \in Nat \ {0}

Init ==
  /\ \E t \in Times, twelve \in BOOLEAN : regs = Registers(t, twelve)
  /\ tm = C!Unset
  /\ given = C!Unset
  /\ fails = 1
  /\ ticks = 0
  /\ heat \in Temps /\ celsius = 0 /\ degrees = 0

SetTime(t) ==
  /\ regs' = Data(t)
  /\ given' = t
  /\ fails' = 0
  /\ ticks' = 0
  /\ UNCHANGED <<tm, thermometer>>

(* The transfer fails after k bytes have been stored. *)
SetTimeFails(t, k) ==
  /\ fails < MaxFails
  /\ regs' = SubSeq(Data(t), 1, k) \o SubSeq(regs, k + 1, 7)
  /\ fails' = fails + 1
  /\ ticks' = 0
  /\ UNCHANGED <<tm, given, thermometer>>

GetTime ==
  /\ tm' = Converted(regs)
  /\ UNCHANGED <<regs, given, fails, ticks, thermometer>>

(* The caller does not look at the result. A reading of the temperature    *)
(* that fails is like this too.                                            *)
GetTimeFails == UNCHANGED vars

(* ds3231_get_raw_temp and ds3231_get_temp_float, which divides by four.   *)
GetTemp ==
  /\ celsius' = RawTemp(TempRegisters(heat))
  /\ UNCHANGED <<clock, heat, degrees>>

GetTempInteger ==
  /\ degrees' = TempInteger(RawTemp(TempRegisters(heat)))
  /\ UNCHANGED <<clock, heat, celsius>>

Warms ==
  /\ heat' \in Temps
  /\ UNCHANGED <<clock, celsius, degrees>>

Tick ==
  /\ ticks < MaxTicks
  /\ ticks' = ticks + 1
  /\ regs' = Registers(C!NextSecond(ChipTime(regs)), Flag(regs[3], 64))
  /\ UNCHANGED <<tm, given, fails, thermometer>>

Next ==
  \/ \E t \in Times : SetTime(t)
  \/ \E t \in Times, k \in Cuts : SetTimeFails(t, k)
  \/ GetTime
  \/ GetTimeFails
  \/ Tick
  \/ GetTemp
  \/ GetTempInteger
  \/ Warms

Spec == Init /\ [][Next]_vars

-----------------------------------------------------------------------------
(* The registers are seven bytes that mean a time, after writes that were  *)
(* cut short too, and after the chip has counted on from them.             *)
TypeOK ==
  /\ regs \in Seq(0 .. 255) /\ Len(regs) = 7
  /\ ChipTime(regs) \in C!Tm
  /\ fails \in 0 .. MaxFails
  /\ given \in Times \cup {C!Unset}
  /\ ticks \in 0 .. MaxTicks
  /\ heat \in Temps
  /\ celsius \in C!Heats /\ degrees \in -128 .. 127

(* What the driver promises (Clock): a set is read back, later by as much  *)
(* time as has passed, across the ends of minutes, days, months, leap      *)
(* years and the century, whatever was in the registers before the set;    *)
(* and a temperature is read as it is, on both sides of zero.              *)
ImplementsClock == C!Spec
=============================================================================
