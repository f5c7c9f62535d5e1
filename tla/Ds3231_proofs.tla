--------------------------- MODULE Ds3231_proofs ---------------------------
(***************************************************************************)
(* Proofs about the clock driver, for every set of times of this century,  *)
(* every way a write can be cut short and any number of seconds: the       *)
(* registers always mean a time, and the driver keeps the promise of Clock.*)
(*                                                                         *)
(* The types are not inductive as they stand: a write cut short mixes the  *)
(* bytes of two times, so what is preserved is said byte by byte (Fields), *)
(* and a reading is right only because a set that succeeded has also       *)
(* cleared the 12-hour mode (the last conjunct of IInv).                   *)
(***************************************************************************)
EXTENDS Ds3231, SequenceTheorems, TLAPS

Bytes(r) == r \in Seq(0 .. 255) /\ Len(r) = 7

(* What each register may hold by itself.                                  *)
Fields(r) ==
  /\ Bytes(r)
  /\ Digits(r[1]) \in 0 .. 59
  /\ Digits(r[2]) \in 0 .. 59
  /\ ChipHour(r[3]) \in 0 .. 23
  /\ Digits(r[4]) \in 1 .. 7
  /\ Digits(r[5]) \in 1 .. 31
  /\ Digits(r[6] % 128) \in 1 .. 12
  /\ Digits(r[7]) \in 0 .. 99

IInv ==
  /\ Fields(regs)
  /\ fails \in 0 .. MaxFails
  /\ given \in Times \cup {C!Unset}
  /\ ticks \in 0 .. MaxTicks
  /\ heat \in Temps /\ celsius \in C!Heats /\ degrees \in -128 .. 127
  /\ fails = 0 => ~Flag(regs[3], 64)

-----------------------------------------------------------------------------
(* The conversions.                                                        *)

LEMMA BytesFacts ==
  ASSUME NEW r, Bytes(r)
  PROVE  \A i \in 1 .. 7 : r[i] \in 0 .. 255
<1>1. r \in Seq(0 .. 255) /\ Len(r) = 7
  BY DEF Bytes
<1>2. \A i \in 1 .. Len(r) : r[i] \in 0 .. 255
  BY <1>1, ElementOfSeq
<1> QED
  BY <1>1, <1>2

(* In a byte, the code's conversion from BCD never wraps.                  *)
LEMMA ByteFacts ==
  \A b \in 0 .. 255 :
    /\ bcd2dec(b) = Digits(b)
    /\ Digits(b) \in 0 .. 165
    /\ b % 128 \in 0 .. 127 /\ b \div 128 \in 0 .. 1
    /\ Digits(b % 128) \in 0 .. 87
    /\ Low5(b) \in 0 .. 31
  BY DEF bcd2dec, Digits, Low5

(* Two decimal digits survive the round trip, and the code writes them as  *)
(* the chip does.                                                          *)
LEMMA RoundTrip ==
  \A n \in 0 .. 99 : Digits(Bcd(n)) = n /\ Bcd(n) \in 0 .. 255
  BY DEF Bcd, Digits

LEMMA SameDigits ==
  \A n \in 0 .. 99 : dec2bcd(n) = Bcd(n) /\ Bcd(n) \in 0 .. 153
  BY DEF Bcd, dec2bcd

(* The chip reads back the hour it shows, in either mode.                  *)
LEMMA HourFacts ==
  ASSUME NEW h \in 0 .. 23, NEW twelve \in BOOLEAN
  PROVE  /\ HourByte(h, twelve) \in 0 .. 255
         /\ ChipHour(HourByte(h, twelve)) = h
         /\ Flag(HourByte(h, twelve), 64) <=> twelve
<1>1. CASE ~twelve
  <2>1. HourByte(h, twelve) = Bcd(h)
    BY <1>1 DEF HourByte
  <2>2. Bcd(h) \in 0 .. 35 /\ Digits(Bcd(h)) = h
    BY DEF Bcd, Digits
  <2>3. ~Flag(Bcd(h), 64)
    BY <2>2 DEF Flag
  <2> QED
    BY <1>1, <2>1, <2>2, <2>3 DEF ChipHour
<1>2. CASE twelve
  <2>1. PICK n \in 1 .. 12 : n = ((h + 11) % 12) + 1 /\ n % 12 = h % 12
    OBVIOUS
  <2>2. PICK pm \in {0, 32} : pm = IF h >= 12 THEN 32 ELSE 0
    OBVIOUS
  <2>3. Bcd(n) \in 0 .. 18 /\ Digits(Bcd(n)) = n
    BY DEF Bcd, Digits
  <2>4. PICK b \in 64 .. 114 : b = 64 + pm + Bcd(n)
    BY <2>3
  <2>5. HourByte(h, twelve) = b
    BY <1>2, <2>1, <2>2, <2>4 DEF HourByte
  <2>6. /\ Flag(b, 64)
        /\ Flag(b, 32) <=> h >= 12
        /\ b % 32 = Bcd(n)
    BY <2>2, <2>3, <2>4 DEF Flag
  <2>7. ChipHour(b) = (n % 12) + (IF h >= 12 THEN 12 ELSE 0)
    BY <2>3, <2>6 DEF ChipHour
  <2>8. (n % 12) + (IF h >= 12 THEN 12 ELSE 0) = h
    BY <2>1
  <2> QED
    <3>1. ChipHour(b) = h /\ b \in 0 .. 255
      BY <2>4, <2>7, <2>8
    <3> QED
      BY <1>2, <2>5, <2>6, <3>1, Zenon
<1> QED
  BY <1>1, <1>2

(* Bytes that may each stand alone mean a time of the chip's calendar.     *)
LEMMA FieldsMeanATime ==
  ASSUME NEW r, Fields(r)
  PROVE  ChipTime(r) \in C!Tm
<1>1. r[6] \in 0 .. 255
  BY BytesFacts DEF Fields
<1>2. r[6] \div 128 \in 0 .. 1
  BY <1>1, ByteFacts
<1>3. 2000 + 100 * (r[6] \div 128) + Digits(r[7]) \in 2000 .. 2199
  BY <1>2 DEF Fields
<1> QED
  BY <1>3 DEF ChipTime, C!Tm, Fields

(* The chip shows every time as registers that mean it.                    *)
LEMMA RegistersFacts ==
  ASSUME NEW t \in C!Tm, NEW twelve \in BOOLEAN
  PROVE  /\ Fields(Registers(t, twelve))
         /\ ChipTime(Registers(t, twelve)) = t
         /\ Flag(Registers(t, twelve)[3], 64) <=> twelve
<1>1. /\ t.tm_sec \in 0 .. 59 /\ t.tm_min \in 0 .. 59 /\ t.tm_hour \in 0 .. 23
      /\ t.tm_wday \in 0 .. 6 /\ t.tm_mday \in 1 .. 31 /\ t.tm_mon \in 0 .. 11
      /\ t.tm_year \in 2000 .. 2199
      /\ t = [tm_sec |-> t.tm_sec, tm_min |-> t.tm_min, tm_hour |-> t.tm_hour,
              tm_wday |-> t.tm_wday, tm_mday |-> t.tm_mday, tm_mon |-> t.tm_mon,
              tm_year |-> t.tm_year]
  BY DEF C!Tm
<1>2. PICK c \in 0 .. 1, y \in 0 .. 99 :
        /\ c = (t.tm_year - 2000) \div 100 /\ y = t.tm_year % 100
        /\ 2000 + 100 * c + y = t.tm_year
  BY <1>1
<1>3. PICK d \in 1 .. 7, m \in 1 .. 12 : d = t.tm_wday + 1 /\ m = t.tm_mon + 1
  BY <1>1
<1>4. /\ t.tm_sec \in 0 .. 99 /\ t.tm_min \in 0 .. 99 /\ t.tm_mday \in 0 .. 99
      /\ d \in 0 .. 99 /\ m \in 0 .. 99
  BY <1>1
<1>5. /\ Digits(Bcd(t.tm_sec)) = t.tm_sec /\ Bcd(t.tm_sec) \in 0 .. 255
      /\ Digits(Bcd(t.tm_min)) = t.tm_min /\ Bcd(t.tm_min) \in 0 .. 255
      /\ Digits(Bcd(t.tm_mday)) = t.tm_mday /\ Bcd(t.tm_mday) \in 0 .. 255
      /\ Digits(Bcd(d)) = d /\ Bcd(d) \in 0 .. 255
      /\ Digits(Bcd(m)) = m /\ Bcd(m) \in 0 .. 255
      /\ Digits(Bcd(y)) = y /\ Bcd(y) \in 0 .. 255
  BY <1>4, RoundTrip
<1>6. PICK hour \in 0 .. 255 :
        /\ hour = HourByte(t.tm_hour, twelve)
        /\ ChipHour(hour) = t.tm_hour /\ (Flag(hour, 64) <=> twelve)
  <2>1. t.tm_hour \in 0 .. 23
    BY <1>1
  <2>2. /\ HourByte(t.tm_hour, twelve) \in 0 .. 255
        /\ ChipHour(HourByte(t.tm_hour, twelve)) = t.tm_hour
        /\ Flag(HourByte(t.tm_hour, twelve), 64) <=> twelve
    BY <2>1, HourFacts, Zenon
  <2> QED
    BY <2>2, Zenon
<1>7. PICK month \in 0 .. 255 :
        /\ month = Bcd(m) + 128 * c
        /\ Digits(month % 128) = m /\ month \div 128 = c
  <2>1. Bcd(m) \in 0 .. 18
    BY DEF Bcd
  <2>2. (Bcd(m) + 128 * c) % 128 = Bcd(m) /\ (Bcd(m) + 128 * c) \div 128 = c
    BY <2>1
  <2>3. Bcd(m) + 128 * c \in 0 .. 255
    BY <2>1
  <2> QED
    BY <1>5, <2>2, <2>3
<1>8. PICK r : r = Registers(t, twelve)
  OBVIOUS
<1>9. r = << Bcd(t.tm_sec), Bcd(t.tm_min), hour, Bcd(d), Bcd(t.tm_mday), month, Bcd(y) >>
  BY <1>2, <1>3, <1>6, <1>7, <1>8 DEF Registers
<1>10. /\ r \in Seq(0 .. 255) /\ Len(r) = 7
       /\ r[1] = Bcd(t.tm_sec) /\ r[2] = Bcd(t.tm_min) /\ r[3] = hour
       /\ r[4] = Bcd(d) /\ r[5] = Bcd(t.tm_mday) /\ r[6] = month /\ r[7] = Bcd(y)
  BY <1>5, <1>9
<1>11. /\ Digits(r[1]) = t.tm_sec /\ Digits(r[2]) = t.tm_min
       /\ ChipHour(r[3]) = t.tm_hour /\ Digits(r[4]) = d
       /\ Digits(r[5]) = t.tm_mday /\ Digits(r[6] % 128) = m
       /\ r[6] \div 128 = c /\ Digits(r[7]) = y
  BY <1>5, <1>6, <1>7, <1>10
<1>12. Fields(r)
  BY <1>1, <1>10, <1>11 DEF Fields, Bytes
<1>13. ChipTime(r) = t
  <2>1. /\ Digits(r[4]) - 1 = t.tm_wday /\ Digits(r[6] % 128) - 1 = t.tm_mon
        /\ 2000 + 100 * (r[6] \div 128) + Digits(r[7]) = t.tm_year
    BY <1>1, <1>2, <1>3, <1>11
  <2> QED
    BY <1>1, <1>11, <2>1 DEF ChipTime
<1> QED
  BY <1>6, <1>8, <1>10, <1>12, <1>13

(* What the code writes is what the chip itself would show in 24 hours.    *)
LEMMA DataIsRegisters ==
  ASSUME NEW t \in Times
  PROVE  t \in C!Tm /\ Data(t) = Registers(t, FALSE)
<1>1. /\ t \in C!Tm
      /\ t.tm_sec \in 0 .. 99 /\ t.tm_min \in 0 .. 99 /\ t.tm_hour \in 0 .. 99
      /\ t.tm_wday \in 0 .. 6 /\ t.tm_mday \in 0 .. 99 /\ t.tm_mon \in 0 .. 11
      /\ t.tm_year \in 2000 .. 2099
  BY TimesAssumption DEF C!Tm
<1>2. \A n \in 0 .. 99 : dec2bcd(n) = Bcd(n) /\ Bcd(n) \in 0 .. 153
  BY SameDigits
<1>3. /\ (t.tm_year - 2000) % 256 = t.tm_year % 100
      /\ (t.tm_year - 2000) \div 100 = 0
      /\ t.tm_year % 100 \in 0 .. 99
  BY <1>1
<1>4. t.tm_wday + 1 \in 0 .. 99 /\ t.tm_mon + 1 \in 0 .. 99
  BY <1>1
<1>5. Bcd(t.tm_mon + 1) + 128 * ((t.tm_year - 2000) \div 100) = Bcd(t.tm_mon + 1)
  <2>1. Bcd(t.tm_mon + 1) \in 0 .. 153
    BY <1>2, <1>4
  <2> QED
    BY <2>1, <1>3
<1>6. /\ dec2bcd(t.tm_sec) = Bcd(t.tm_sec) /\ dec2bcd(t.tm_min) = Bcd(t.tm_min)
      /\ dec2bcd(t.tm_hour) = HourByte(t.tm_hour, FALSE)
      /\ dec2bcd(t.tm_wday + 1) = Bcd(t.tm_wday + 1)
      /\ dec2bcd(t.tm_mday) = Bcd(t.tm_mday)
      /\ dec2bcd(t.tm_mon + 1) = Bcd(t.tm_mon + 1)
      /\ dec2bcd((t.tm_year - 2000) % 256) = Bcd(t.tm_year % 100)
  <2>1. dec2bcd(t.tm_sec) = Bcd(t.tm_sec)
    BY <1>1, <1>2
  <2>2. dec2bcd(t.tm_min) = Bcd(t.tm_min)
    BY <1>1, <1>2
  <2>3. dec2bcd(t.tm_hour) = HourByte(t.tm_hour, FALSE)
    BY <1>1, <1>2 DEF HourByte
  <2>4. dec2bcd(t.tm_wday + 1) = Bcd(t.tm_wday + 1)
    BY <1>4, <1>2
  <2>5. dec2bcd(t.tm_mday) = Bcd(t.tm_mday)
    BY <1>1, <1>2
  <2>6. dec2bcd(t.tm_mon + 1) = Bcd(t.tm_mon + 1)
    BY <1>4, <1>2
  <2>7. dec2bcd((t.tm_year - 2000) % 256) = Bcd(t.tm_year % 100)
    <3>1. PICK y \in 0 .. 99 : y = t.tm_year % 100 /\ y = (t.tm_year - 2000) % 256
      BY <1>3
    <3>2. dec2bcd(y) = Bcd(y)
      BY <1>2
    <3> QED
      BY <3>1, <3>2
  <2> QED
    BY <2>1, <2>2, <2>3, <2>4, <2>5, <2>6, <2>7
<1> QED
  BY <1>1, <1>5, <1>6 DEF Data, Registers

(* A read in 24 hours is what the chip has, without its century.           *)
LEMMA ReadIsShown ==
  ASSUME Fields(regs), ~Flag(regs[3], 64)
  PROVE  Converted(regs) = C!Shown(ChipTime(regs))
<1>1. \A i \in 1 .. 7 : regs[i] \in 0 .. 255
  BY BytesFacts DEF Fields
<1>2. \A i \in 1 .. 7 : bcd2dec(regs[i]) = Digits(regs[i])
  BY <1>1, ByteFacts
<1>3. Hour(regs[3]) = ChipHour(regs[3])
  BY <1>2 DEF Hour, ChipHour, DS3231_12HOUR_FLAG
<1>4. bcd2dec(Low5(regs[6])) = Digits(regs[6] % 128)
  <2>1. PICK b \in 0 .. 255 : b = regs[6]
    BY <1>1
  <2>2. Digits(b % 128) \in 1 .. 12
    BY <2>1 DEF Fields
  <2>3. b % 128 \in 0 .. 18
    BY <2>2 DEF Digits
  <2>4. Low5(b) = b % 128
    BY <2>3 DEF Low5
  <2>5. b % 128 \in 0 .. 255
    BY <2>3
  <2> QED
    BY <2>1, <2>4, <2>5, ByteFacts
<1>5. (2000 + 100 * (regs[6] \div 128) + Digits(regs[7])) % 100 = Digits(regs[7])
  <2>1. PICK c \in 0 .. 1 : c = regs[6] \div 128
    <3>1. regs[6] \in 0 .. 255
      BY <1>1
    <3>2. regs[6] \div 128 \in 0 .. 1
      BY <3>1, ByteFacts
    <3> QED
      BY <3>2
  <2>2. PICK d \in 0 .. 99 : d = Digits(regs[7])
    BY DEF Fields
  <2>3. (2000 + 100 * c + d) % 100 = d
    OBVIOUS
  <2> QED
    BY <2>1, <2>2, <2>3
<1>6. bcd2dec(regs[7]) + 2000 = 2000 + Digits(regs[7])
  BY <1>2 DEF Fields
<1> QED
  BY <1>2, <1>3, <1>4, <1>5, <1>6 DEF Converted, C!Shown, ChipTime

(* The calendar goes from time to time.                                    *)
LEMMA NextSecondInTm ==
  ASSUME NEW t \in C!Tm
  PROVE  C!NextSecond(t) \in C!Tm
<1>1. C!DaysIn(t.tm_mon, t.tm_year) \in {28, 29, 30, 31}
  BY DEF C!DaysIn
<1> QED
  BY <1>1 DEF C!NextSecond, C!Advance, C!Tm

(* A write cut short leaves each register with one of its two bytes.       *)
LEMMA CutFacts ==
  ASSUME NEW a, NEW b, Fields(a), Fields(b), NEW k \in 0 .. 6
  PROVE  Fields(SubSeq(a, 1, k) \o SubSeq(b, k + 1, 7))
<1>1. /\ \A i \in 1 .. 7 : a[i] \in 0 .. 255
      /\ \A i \in 1 .. 7 : b[i] \in 0 .. 255
  BY BytesFacts DEF Fields
<1>2. PICK low, high : low = SubSeq(a, 1, k) /\ high = SubSeq(b, k + 1, 7)
  OBVIOUS
<1>3. low \in Seq(0 .. 255) /\ Len(low) = k /\ \A i \in 1 .. k : low[i] = a[i]
  <2>1. k \in Int /\ 1 \in Int /\ \A i \in 1 .. k : a[i] \in 0 .. 255
    BY <1>1
  <2>2. /\ SubSeq(a, 1, k) \in Seq(0 .. 255)
        /\ Len(SubSeq(a, 1, k)) = IF 1 <= k THEN k - 1 + 1 ELSE 0
        /\ \A i \in 1 .. k - 1 + 1 : SubSeq(a, 1, k)[i] = a[1 + i - 1]
    BY <2>1, SubSeqProperties, SMTT(20)
  <2> QED
    BY <1>2, <2>2
<1>4. /\ high \in Seq(0 .. 255) /\ Len(high) = 7 - k
      /\ \A i \in 1 .. 7 - k : high[i] = b[k + i]
  <2>1. k + 1 \in Int /\ 7 \in Int /\ \A i \in k + 1 .. 7 : b[i] \in 0 .. 255
    BY <1>1
  <2>2. /\ SubSeq(b, k + 1, 7) \in Seq(0 .. 255)
        /\ Len(SubSeq(b, k + 1, 7)) = IF k + 1 <= 7 THEN 7 - (k + 1) + 1 ELSE 0
        /\ \A i \in 1 .. 7 - (k + 1) + 1 : SubSeq(b, k + 1, 7)[i] = b[(k + 1) + i - 1]
    BY <2>1, SubSeqProperties, SMTT(20)
  <2>3. 7 - (k + 1) + 1 = 7 - k /\ k + 1 <= 7
    OBVIOUS
  <2>4. \A i \in 1 .. 7 - k : high[i] = b[k + i]
    <3> SUFFICES ASSUME NEW i \in 1 .. 7 - k PROVE high[i] = b[k + i]
      OBVIOUS
    <3>1. (k + 1) + i - 1 = k + i /\ i \in 1 .. 7 - (k + 1) + 1
      OBVIOUS
    <3>2. SubSeq(b, k + 1, 7)[i] = b[(k + 1) + i - 1]
      BY <2>2, <3>1
    <3> QED
      BY <1>2, <3>1, <3>2
  <2>5. high \in Seq(0 .. 255) /\ Len(high) = 7 - k
    BY <1>2, <2>2, <2>3
  <2> QED
    BY <2>4, <2>5
<1>5. PICK x : x = low \o high
  OBVIOUS
<1>6. /\ x \in Seq(0 .. 255) /\ Len(x) = 7
      /\ \A i \in 1 .. 7 : x[i] = IF i <= k THEN low[i] ELSE high[i - k]
  <2>1. /\ low \o high \in Seq(0 .. 255)
        /\ Len(low \o high) = Len(low) + Len(high)
        /\ \A i \in 1 .. Len(low) + Len(high) : (low \o high)[i] =
              IF i <= Len(low) THEN low[i] ELSE high[i - Len(low)]
    BY <1>3, <1>4, ConcatProperties, Zenon
  <2>2. Len(low) + Len(high) = 7
    BY <1>3, <1>4
  <2> QED
    BY <1>3, <1>5, <2>1, <2>2
<1>7. \A i \in 1 .. 7 : x[i] = a[i] \/ x[i] = b[i]
  <2> SUFFICES ASSUME NEW i \in 1 .. 7 PROVE x[i] = a[i] \/ x[i] = b[i]
    OBVIOUS
  <2>1. CASE i <= k
    BY <2>1, <1>3, <1>6
  <2>2. CASE ~(i <= k)
    <3>1. i - k \in 1 .. 7 - k /\ k + (i - k) = i
      BY <2>2
    <3>2. high[i - k] = b[k + (i - k)]
      BY <3>1, <1>4
    <3> QED
      BY <2>2, <3>1, <3>2, <1>6
  <2> QED
    BY <2>1, <2>2
<1>8. Digits(x[1]) \in 0 .. 59
  BY <1>7 DEF Fields
<1>9. Digits(x[2]) \in 0 .. 59
  BY <1>7 DEF Fields
<1>10. ChipHour(x[3]) \in 0 .. 23
  BY <1>7 DEF Fields
<1>11. Digits(x[4]) \in 1 .. 7
  BY <1>7 DEF Fields
<1>12. Digits(x[5]) \in 1 .. 31
  BY <1>7 DEF Fields
<1>13. Digits(x[6] % 128) \in 1 .. 12
  BY <1>7 DEF Fields
<1>14. Digits(x[7]) \in 0 .. 99
  BY <1>7 DEF Fields
<1>15. Fields(x)
  BY <1>6, <1>8, <1>9, <1>10, <1>11, <1>12, <1>13, <1>14, Zenon DEF Fields, Bytes
<1> QED
  BY <1>2, <1>5, <1>15

(* The driver reads the temperature the chip shows, and rounds it down.    *)
LEMMA TempFacts ==
  ASSUME NEW q \in C!Heats
  PROVE  /\ RawTemp(TempRegisters(q)) = q
         /\ TempInteger(q) \in -128 .. 127
         /\ 4 * TempInteger(q) <= q /\ q < 4 * TempInteger(q) + 4
<1>1. PICK d \in -128 .. 127, f \in 0 .. 3 : q = 4 * d + f /\ d = q \div 4 /\ f = q % 4
  BY DEF C!Heats
<1>2. Int8(d % 256) = d
  BY DEF Int8
<1>3. (64 * f) \div 64 = f
  OBVIOUS
<1>4. TempRegisters(q)[1] = d % 256 /\ TempRegisters(q)[2] = 64 * f
  BY <1>1 DEF TempRegisters
<1>5. RawTemp(TempRegisters(q)) = 4 * d + f
  BY <1>2, <1>3, <1>4 DEF RawTemp
<1>6. TempInteger(q) = d
  BY <1>1, <1>2 DEF TempInteger
<1> QED
  BY <1>1, <1>5, <1>6

-----------------------------------------------------------------------------
LEMMA InitIInv == Init => IInv
<1> SUFFICES ASSUME Init PROVE IInv
  OBVIOUS
<1>1. PICK t \in Times, twelve \in BOOLEAN : regs = Registers(t, twelve)
  BY DEF Init
<1>2. Fields(regs)
  BY <1>1, DataIsRegisters, RegistersFacts
<1>3. /\ fails = 1 /\ 1 \in 0 .. MaxFails /\ 0 \in 0 .. MaxTicks
      /\ celsius \in C!Heats /\ degrees \in -128 .. 127
  BY BoundsAssumption DEF Init, C!Heats
<1> QED
  BY <1>2, <1>3 DEF Init, IInv

LEMMA StepIInv == IInv /\ [Next]_vars => IInv'
<1> SUFFICES ASSUME IInv, [Next]_vars PROVE IInv'
  OBVIOUS
<1>1. ASSUME NEW t \in Times, SetTime(t) PROVE IInv'
  <2>1. Fields(regs') /\ ~Flag(regs'[3], 64)
    BY <1>1, DataIsRegisters, RegistersFacts DEF SetTime
  <2>2. fails' \in 0 .. MaxFails /\ ticks' \in 0 .. MaxTicks
    BY <1>1, BoundsAssumption DEF SetTime
  <2> QED
    BY <1>1, <2>1, <2>2 DEF SetTime, thermometer, IInv
<1>2. ASSUME NEW t \in Times, NEW k \in Cuts, SetTimeFails(t, k) PROVE IInv'
  <2>1. Fields(Data(t))
    BY DataIsRegisters, RegistersFacts
  <2>2. k \in 0 .. 6
    BY CutsAssumption
  <2>3. Fields(regs')
    BY <1>2, <2>1, <2>2, CutFacts DEF SetTimeFails, thermometer, IInv
  <2>4. fails' \in 0 .. MaxFails /\ fails' # 0 /\ ticks' \in 0 .. MaxTicks
    BY <1>2, BoundsAssumption DEF SetTimeFails, thermometer, IInv
  <2> QED
    BY <1>2, <2>3, <2>4 DEF SetTimeFails, thermometer, IInv
<1>3. CASE GetTime
  BY <1>3 DEF GetTime, thermometer, IInv
<1>4. CASE UNCHANGED vars
  BY <1>4 DEF vars, clock, thermometer, IInv
<1>5. CASE Tick
  <2>1. C!NextSecond(ChipTime(regs)) \in C!Tm
    BY FieldsMeanATime, NextSecondInTm DEF IInv
  <2>2. Flag(regs[3], 64) \in BOOLEAN
    BY DEF Flag
  <2>3. Fields(regs') /\ (Flag(regs'[3], 64) <=> Flag(regs[3], 64))
    BY <1>5, <2>1, <2>2, RegistersFacts DEF Tick
  <2>4. ticks' \in 0 .. MaxTicks
    BY <1>5, BoundsAssumption DEF Tick, thermometer, IInv
  <2> QED
    BY <1>5, <2>3, <2>4 DEF Tick, thermometer, IInv
<1>6. CASE GetTemp
  <2>1. celsius' \in C!Heats
    BY <1>6, TempsAssumption, TempFacts DEF GetTemp, IInv
  <2> QED
    BY <1>6, <2>1 DEF GetTemp, clock, IInv
<1>7. CASE GetTempInteger
  <2>1. degrees' \in -128 .. 127
    BY <1>7, TempsAssumption, TempFacts DEF GetTempInteger, IInv
  <2> QED
    BY <1>7, <2>1 DEF GetTempInteger, clock, IInv
<1>8. CASE Warms
  BY <1>8 DEF Warms, clock, IInv
<1> QED
  BY <1>1, <1>2, <1>3, <1>4, <1>5, <1>6, <1>7, <1>8 DEF Next, GetTimeFails

THEOREM Invariance == Spec => []IInv
  BY InitIInv, StepIInv, PTL DEF Spec

(* The registers always mean a time of the chip's calendar, whichever of   *)
(* the bytes of ds3231_set_time have reached them.                         *)
THEOREM TypeCorrect == Spec => []TypeOK
<1>1. IInv => TypeOK
  BY FieldsMeanATime DEF IInv, TypeOK, Fields, Bytes
<1> QED
  BY <1>1, Invariance, PTL

-----------------------------------------------------------------------------
(* Every step of the driver and the chip is one of Clock, or none.         *)
LEMMA StepRefines == IInv /\ [Next]_vars => [C!Next]_(C!vars)
<1> SUFFICES ASSUME IInv, [Next]_vars PROVE C!Next \/ UNCHANGED C!vars
  OBVIOUS
<1>1. ASSUME NEW t \in Times, SetTime(t) PROVE C!Set
  <2>1. t \in C!Tm /\ ChipTime(regs') = t
    BY <1>1, DataIsRegisters, RegistersFacts DEF SetTime
  <2> QED
    BY <1>1, <2>1 DEF SetTime, thermometer, C!Set, C!thermometer, ChipTime
<1>2. ASSUME NEW t \in Times, NEW k \in Cuts, SetTimeFails(t, k) PROVE C!SetFails
  BY <1>2 DEF SetTimeFails, thermometer, C!SetFails, C!thermometer, IInv
<1>3. CASE GetTime
  <2>1. fails = 0 => tm' = C!Shown(ChipTime(regs))
    BY <1>3, ReadIsShown DEF GetTime, thermometer, IInv
  <2> QED
    BY <1>3, <2>1 DEF GetTime, thermometer, C!Read, C!thermometer, C!Next, ChipTime
<1>4. CASE UNCHANGED vars
  BY <1>4 DEF vars, clock, thermometer, C!vars, C!thermometer, ChipTime
<1>5. CASE Tick
  <2>1. C!NextSecond(ChipTime(regs)) \in C!Tm
    BY FieldsMeanATime, NextSecondInTm DEF IInv
  <2>2. Flag(regs[3], 64) \in BOOLEAN
    BY DEF Flag
  <2>3. ChipTime(regs') = C!NextSecond(ChipTime(regs))
    BY <1>5, <2>1, <2>2, RegistersFacts DEF Tick
  <2> QED
    BY <1>5, <2>3 DEF Tick, thermometer, C!Second, C!thermometer, C!Next, ChipTime
<1>6. CASE GetTemp
  <2>1. celsius' = heat
    BY <1>6, TempsAssumption, TempFacts DEF GetTemp, IInv
  <2> QED
    BY <1>6, <2>1 DEF GetTemp, clock, C!ReadHeat, C!Next, ChipTime
<1>7. CASE GetTempInteger
  <2>1. RawTemp(TempRegisters(heat)) = heat
    BY TempsAssumption, TempFacts DEF IInv
  <2>2. degrees' = TempInteger(heat)
    BY <1>7, <2>1 DEF GetTempInteger
  <2>3. degrees' \in -128 .. 127 /\ 4 * degrees' <= heat /\ heat < 4 * degrees' + 4
    BY <2>2, TempsAssumption, TempFacts DEF IInv
  <2> QED
    BY <1>7, <2>3 DEF GetTempInteger, clock, C!ReadDegrees, C!Next, ChipTime
<1>8. CASE Warms
  <2>1. heat' \in C!Heats
    BY <1>8, TempsAssumption DEF Warms
  <2> QED
    BY <1>8, <2>1 DEF Warms, clock, C!Warms, C!Next, ChipTime
<1> QED
  BY <1>1, <1>2, <1>3, <1>4, <1>5, <1>6, <1>7, <1>8 DEF Next, C!Next, GetTimeFails

(* What is set is read back, later by the time that has passed: through    *)
(* dec2bcd, the registers, the chip's counting and bcd2dec, whatever was   *)
(* in the registers before and wherever earlier writes were cut short.     *)
THEOREM Implements == Spec => ImplementsClock
<1>1. Init => C!Init
  BY TempsAssumption DEF Init, C!Init
<1> QED
  BY <1>1, Invariance, StepRefines, PTL DEF Spec, ImplementsClock, C!Spec
=============================================================================
