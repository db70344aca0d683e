------------------------ MODULE PollersAndTimeProofs ------------------------
(***************************************************************************)
(* Proofs about the two pollers, for any number of descriptors and         *)
(* channels: the tables of each agree, no assert and no epoll_ctl fails,   *)
(* and each implements the abstract Poller.  Proofs about the calendar and *)
(* the time zones of base/time, for every day and every second.            *)
(***************************************************************************)
EXTENDS Pollers, Time, TLAPS

-----------------------------------------------------------------------------
\* The calendar and the time zones.

\* The intermediate values of getYearMonthDay: the day a since 1 March -4800, the
\* century b, the day c in it, the year d of the century, the day e of the year that
\* starts in March and the month m in it.
StepA(j, a) == a = j + 32044
StepB(a, b) == b = (4 * a + 3) \div 146097
StepC(a, b, c) == c = a - ((b * 146097) \div 4)
StepD(c, d) == d = (4 * c + 3) \div 1461
StepE(c, d, e) == e = c - ((1461 * d) \div 4)
StepM(e, m) == m = (5 * e + 2) \div 153
Steps(j, a, b, c, d, e, m) ==
    StepA(j, a) /\ StepB(a, b) /\ StepC(a, b, c) /\ StepD(c, d) /\ StepE(c, d, e) /\ StepM(e, m)

\* What these values are: a century has 36524 days, the last of four one more; a year
\* has 365, the last of four one more, but not the last of a short century; the months
\* from March on have 31, 30, 31, 30, 31, 31, 30, 31, 30, 31, 31 days and the rest.
Ranges(j, b, d, e, m) ==
    /\ 0 <= b /\ 0 <= d /\ d <= 99 /\ 0 <= e /\ e <= 365 /\ 0 <= m /\ m <= 11
    /\ e = j + 32044 - 36524 * b - (b \div 4) - 365 * d - (d \div 4)
    /\ e = 365 => d % 4 = 3 /\ (d = 99 => b % 4 = 3)
    /\ 1 <= e - ((153 * m + 2) \div 5) + 1
    /\ e - ((153 * m + 2) \div 5) + 1 <= 31
    /\ m \in {1, 3, 6, 8} => e - ((153 * m + 2) \div 5) + 1 <= 30
    /\ m = 11 => /\ e - ((153 * m + 2) \div 5) + 1 <= 29
                 /\ e # 365 => e - ((153 * m + 2) \div 5) + 1 <= 28

\* The date they stand for.
YmdIs(ymd, b, d, e, m) ==
    /\ ymd.year = b * 100 + d - 4800 + (m \div 10)
    /\ ymd.month = m + 3 - 12 * (m \div 10)
    /\ ymd.day = e - ((153 * m + 2) \div 5) + 1

LEMMA StepsRange ==
    ASSUME NEW j \in Nat, NEW a \in Nat, NEW b \in Int, NEW c \in Int, NEW d \in Int,
           NEW e \in Int, NEW m \in Int, Steps(j, a, b, c, d, e, m)
    PROVE  Ranges(j, b, d, e, m)
<1>s. StepA(j, a) /\ StepB(a, b) /\ StepC(a, b, c) /\ StepD(c, d) /\ StepE(c, d, e) /\ StepM(e, m)
    BY Zenon DEF Steps
<1>0. a = j + 32044
    BY <1>s DEF StepA
<1>1. b = (4 * a + 3) \div 146097
    BY <1>s DEF StepB
<1>2. c = a - ((b * 146097) \div 4)
    BY <1>s DEF StepC
<1>3. d = (4 * c + 3) \div 1461
    BY <1>s, SMTT(60), Z3T(60) DEF StepD
<1>4. e = c - ((1461 * d) \div 4)
    BY <1>s DEF StepE
<1>5. m = (5 * e + 2) \div 153
    BY <1>s DEF StepM
<1>6. /\ 0 <= b /\ 0 <= c /\ c <= 36524 /\ c = a - 36524 * b - (b \div 4)
      /\ c = 36524 => b % 4 = 3
  <2>1. 0 <= b /\ 146097 * b <= 4 * a + 3 /\ 4 * a + 3 < 146097 * b + 146097
    BY <1>1
  <2>2. (b * 146097) \div 4 = 36524 * b + (b \div 4)
    BY <2>1
  <2>3. b = 4 * (b \div 4) + (b % 4) /\ b % 4 >= 0 /\ b % 4 <= 3 /\ b \div 4 \in Int
    BY <2>1, SMTT(60), Z3T(60)
  <2> QED
    BY <1>2, <2>1, <2>2, <2>3, SMTT(60), Z3T(60)
<1>7. /\ 0 <= d /\ d <= 99 /\ 0 <= e /\ e <= 365 /\ e = c - 365 * d - (d \div 4)
      /\ e = 365 => d % 4 = 3 /\ (d = 99 => c = 36524)
  <2>1. 0 <= d /\ d <= 99 /\ 1461 * d <= 4 * c + 3 /\ 4 * c + 3 < 1461 * d + 1461
    BY <1>3, <1>6
  <2>2. (1461 * d) \div 4 = 365 * d + (d \div 4)
    BY <2>1
  <2>3. d = 4 * (d \div 4) + (d % 4) /\ d % 4 >= 0 /\ d % 4 <= 3 /\ d \div 4 \in Int
    BY <2>1
  <2> QED
    BY <1>4, <1>6, <2>1, <2>2, <2>3, SMTT(60), Z3T(60)
<1>8. /\ 0 <= m /\ m <= 11
      /\ 1 <= e - ((153 * m + 2) \div 5) + 1
      /\ e - ((153 * m + 2) \div 5) + 1 <= 31
      /\ m \in {1, 3, 6, 8} => e - ((153 * m + 2) \div 5) + 1 <= 30
      /\ m = 11 => /\ e - ((153 * m + 2) \div 5) + 1 <= 29
                   /\ e # 365 => e - ((153 * m + 2) \div 5) + 1 <= 28
    BY <1>5, <1>7, SMTT(60), Z3T(60)
<1> QED
  <2>1. b \div 4 \in Int /\ d \div 4 \in Int
    OBVIOUS
  <2>2. e = j + 32044 - 36524 * b - (b \div 4) - 365 * d - (d \div 4)
    BY <1>0, <1>6, <1>7, <2>1
  <2> QED
    BY <1>6, <1>7, <1>8, <2>2 DEF Ranges

\* The day number of a day of the month m of the year y, both counted from March -4800.
JulianOf(day, y, m) ==
    day + ((153 * m + 2) \div 5) + y * 365 + (y \div 4) - (y \div 100) + (y \div 400) - 32045

LEMMA JulianTerms ==
    ASSUME NEW year, NEW month, NEW day, NEW a, a = (14 - month) \div 12
    PROVE  GetJulianDayNumber(year, month, day) = JulianOf(day, year + 4800 - a, month + 12 * a - 3)
    BY DEF GetJulianDayNumber, JulianOf

\* getYearMonthDay in these terms.
LEMMA YmdTerms ==
    ASSUME NEW j \in Nat
    PROVE  \E b, d, e, m \in Int : Ranges(j, b, d, e, m) /\ YmdIs(GetYearMonthDay(j), b, d, e, m)
<1>1. PICK a \in Nat : StepA(j, a)
    BY DEF StepA
<1>2. PICK b \in Int : StepB(a, b)
    BY DEF StepB
<1>3. PICK c \in Int : StepC(a, b, c)
    BY DEF StepC
<1>4. PICK d \in Int : StepD(c, d)
    BY DEF StepD
<1>5. PICK e \in Int : StepE(c, d, e)
    BY DEF StepE
<1>6. PICK m \in Int : StepM(e, m)
    BY DEF StepM
<1>7. Ranges(j, b, d, e, m)
    BY <1>1, <1>2, <1>3, <1>4, <1>5, <1>6, StepsRange, ZenonT(60), ZenonT(90) DEF Steps
<1>8. GetYearMonthDay(j) = DateInCentury(b, c)
    BY <1>1, <1>2, <1>3, SMTT(60), Z3T(60) DEF GetYearMonthDay, StepA, StepB, StepC
<1>9. YmdIs(DateInCentury(b, c), b, d, e, m)
    BY <1>4, <1>5, <1>6, SMTT(60), Z3T(60) DEF DateInCentury, YmdIs, StepD, StepE, StepM
<1> QED
    BY <1>7, <1>8, <1>9, ZenonT(60), ZenonT(90)

\* The last day number getYearMonthDay can be called with.
MaxDay == 536838867

\* No intermediate value of getYearMonthDay leaves the 32 bits of an int for the day
\* numbers up to MaxDay, which is more than a million years away.
THEOREM FitsInt ==
    ASSUME NEW j \in Nat, NEW a \in Nat, NEW b \in Int, NEW c \in Int,
           NEW d \in Int, NEW e \in Int, NEW m \in Int, Steps(j, a, b, c, d, e, m)
    PROVE  j <= MaxDay =>
               \A n \in {4 * a + 3, b * 146097, 4 * c + 3, 1461 * d, 5 * e + 2, 153 * m + 2,
                        b * 100 + d} :
                   n >= 0 /\ n <= 2147483647
<1>1. a = j + 32044 /\ b = (4 * a + 3) \div 146097 /\ e = c - ((1461 * d) \div 4)
  <2>1. StepA(j, a) /\ StepB(a, b) /\ StepE(c, d, e)
    BY Zenon DEF Steps
  <2> QED
    BY <2>1 DEF StepA, StepB, StepE
<1>2. Ranges(j, b, d, e, m)
    BY StepsRange, ZenonT(60), ZenonT(90)
<1>3. 0 <= d /\ d <= 99 /\ 0 <= e /\ e <= 365 /\ 0 <= m /\ m <= 11
    BY <1>2 DEF Ranges
<1> HAVE j <= MaxDay
<1>4. 0 <= b /\ b * 146097 <= 4 * a + 3 /\ 4 * a + 3 <= 2147483647 /\ b <= 14699
    BY <1>1 DEF MaxDay
<1>5. 4 * c + 3 >= 0 /\ 4 * c + 3 <= 2147483647
  <2>1. c = e + ((1461 * d) \div 4)
    BY <1>1
  <2> QED
    BY <1>3, <2>1
<1> QED
    BY <1>3, <1>4, <1>5

\* getYearMonthDay and getJulianDayNumber are inverse: every day number from 0 to MaxDay,
\* up to which an int holds every intermediate value (FitsInt), has its date, and the
\* date gives the day number back.
THEOREM JulianRoundTrip ==
    ASSUME NEW j \in Nat, j <= MaxDay
    PROVE  LET ymd == GetYearMonthDay(j) IN GetJulianDayNumber(ymd.year, ymd.month, ymd.day) = j
<1> DEFINE ymd == GetYearMonthDay(j)
<1>0. PICK b, d, e, m \in Int : Ranges(j, b, d, e, m) /\ YmdIs(ymd, b, d, e, m)
    BY YmdTerms, Zenon
<1> HIDE DEF ymd
<1>y. PICK y \in Int : y = 100 * b + d
    OBVIOUS
<1>1. /\ 0 <= b /\ 0 <= d /\ d <= 99 /\ 0 <= e /\ e <= 365 /\ 0 <= m /\ m <= 11
      /\ e = j + 32044 - 36524 * b - (b \div 4) - 365 * d - (d \div 4)
    BY <1>0 DEF Ranges
<1>4. /\ ymd.year = b * 100 + d - 4800 + (m \div 10) /\ ymd.month = m + 3 - 12 * (m \div 10)
      /\ ymd.day = e - ((153 * m + 2) \div 5) + 1
    BY <1>0 DEF YmdIs
<1>5. ymd.year \in Int /\ ymd.month \in Int /\ ymd.day \in Int
    BY <1>1, <1>4
<1>6. (14 - ymd.month) \div 12 = m \div 10
    BY <1>1, <1>4
<1>7. ymd.year + 4800 - (m \div 10) = y /\ ymd.month + 12 * (m \div 10) - 3 = m
    BY <1>y, <1>1, <1>4
<1>8. GetJulianDayNumber(ymd.year, ymd.month, ymd.day) = JulianOf(ymd.day, y, m)
  <2> DEFINE n == m \div 10
             z == ymd.year + 4800 - n
             k == ymd.month + 12 * n - 3
  <2>1. n = (14 - ymd.month) \div 12 /\ z = y /\ k = m
    BY <1>6, <1>7
  <2>2. GetJulianDayNumber(ymd.year, ymd.month, ymd.day) = JulianOf(ymd.day, z, k)
    BY <2>1, JulianTerms
  <2> HIDE DEF n, z, k
  <2> QED
    BY <2>1, <2>2
<1>9. y \div 100 = b /\ y \div 4 = 25 * b + (d \div 4) /\ y \div 400 = b \div 4
    BY <1>y, <1>1
<1>10. b \div 4 \in Int /\ d \div 4 \in Int /\ (153 * m + 2) \div 5 \in Int
    OBVIOUS
<1>11. JulianOf(ymd.day, y, m) = j
    BY <1>y, <1>1, <1>4, <1>9, <1>10 DEF JulianOf
<1> QED
    BY <1>8, <1>11 DEF ymd

\* Every day number from 0 to MaxDay has a date of the Gregorian calendar: a month of
\* 1..12 and a day the month has in that year, 29 February only in leap years.
THEOREM DateIsValid ==
    ASSUME NEW j \in Nat, j <= MaxDay
    PROVE  LET ymd == GetYearMonthDay(j) IN IsDate(ymd.year, ymd.month, ymd.day)
<1> DEFINE ymd == GetYearMonthDay(j)
<1>0. PICK b, d, e, m \in Int : Ranges(j, b, d, e, m) /\ YmdIs(ymd, b, d, e, m)
    BY YmdTerms, Zenon
<1> HIDE DEF ymd
<1>1. PICK year, month, day \in Int :
          /\ year = b * 100 + d - 4800 + (m \div 10) /\ month = m + 3 - 12 * (m \div 10)
          /\ day = e - ((153 * m + 2) \div 5) + 1
    OBVIOUS
<1>2. /\ 0 <= b /\ 0 <= d /\ d <= 99 /\ 0 <= m /\ m <= 11 /\ 1 <= day /\ day <= 31
      /\ e = 365 => d % 4 = 3 /\ (d = 99 => b % 4 = 3)
      /\ m \in {1, 3, 6, 8} => day <= 30
      /\ m = 11 => day <= 29 /\ (e # 365 => day <= 28)
    BY <1>0, <1>1, SMTT(60), Z3T(60) DEF Ranges
<1>3. year >= -4800 /\ 1 <= month /\ month <= 12
    BY <1>1, <1>2, SMTT(60), Z3T(60)
<1>4. month \in {4, 6, 9, 11} => day <= 30
    BY <1>1, <1>2
<1>5. month = 2 => m = 11
    BY <1>1, <1>2, SMTT(60), Z3T(60)
<1>6. month = 2 /\ day = 29 => year % 4 = 0 /\ (year % 100 # 0 \/ year % 400 = 0)
  <2> SUFFICES ASSUME month = 2, day = 29
               PROVE  year % 4 = 0 /\ (year % 100 # 0 \/ year % 400 = 0)
    OBVIOUS
  <2>1. year = 100 * b + d - 4799 /\ d % 4 = 3 /\ (d = 99 => b % 4 = 3)
    BY <1>1, <1>2, <1>5, SMTT(60), Z3T(60)
  <2>2. year % 4 = 0
    BY <2>1, <1>2
  <2>3. CASE d = 99
    BY <2>1, <2>2, <2>3, <1>2
  <2>4. CASE d # 99
    BY <2>1, <2>2, <2>4, <1>2
  <2> QED
    BY <2>3, <2>4, SMTT(60), Z3T(60)
<1>7. month = 2 => day <= 29
    BY <1>2, <1>5
<1>8. IsDate(year, month, day)
    BY <1>2, <1>3, <1>4, <1>6, <1>7, SMTT(60), Z3T(60) DEF IsDate, DaysIn, IsLeap
<1>9. ymd.year = year /\ ymd.month = month /\ ymd.day = day
    BY <1>0, <1>1, SMTT(60), Z3T(60) DEF YmdIs
<1> QED
    BY <1>8, <1>9 DEF ymd

\* 1 January 1970 is day 2440588.
LEMMA Epoch == kJulianDayOf1970_01_01 = 2440588
    BY DEF kJulianDayOf1970_01_01, GetJulianDayNumber

\* The seconds that Date can represent: from the start of day 0 to the end of MaxDay.
Representable(s) ==
    s \in Int /\ s >= -2440588 * 86400 /\ s < (MaxDay - 2440588 + 1) * 86400

\* The struct tm of a day and the seconds in it.
TmOf(date, seconds) ==
    LET ymd == GetYearMonthDay(date) IN
    [tm_year |-> ymd.year - 1900, tm_mon |-> ymd.month - 1, tm_mday |-> ymd.day,
     tm_hour |-> (seconds \div 60) \div 60, tm_min |-> (seconds \div 60) % 60,
     tm_sec |-> seconds % 60, tm_wday |-> WeekDay(date),
     tm_yday |-> date - GetJulianDayNumber(ymd.year, 1, 1)]

\* toUtcTime cuts the seconds, of either sign, into a day and the seconds in it.
LEMMA DayAndSeconds ==
    ASSUME NEW s, Representable(s)
    PROVE  \E date \in Nat, seconds \in Nat :
             /\ seconds < 86400 /\ date <= MaxDay
             /\ s = (date - 2440588) * 86400 + seconds
             /\ ToUtcTime(s) = TmOf(date, seconds)
<1> DEFINE r == Rem(s, kSecondsPerDay)
           q == Quot(s, kSecondsPerDay)
           seconds == IF r < 0 THEN r + kSecondsPerDay ELSE r
           days == IF r < 0 THEN q - 1 ELSE q
           date == days + kJulianDayOf1970_01_01
<1>1. ToUtcTime(s) = TmOf(date, seconds)
    BY ZenonT(60), ZenonT(90) DEF ToUtcTime, TmOf
<1>2. q \in Int /\ r \in Int /\ s = 86400 * q + r /\ r > -86400 /\ r < 86400
    BY SMTT(60), Z3T(60) DEF Representable, Quot, Rem, kSecondsPerDay
<1> HIDE DEF q, r
<1>3. /\ seconds \in Nat /\ seconds < 86400 /\ days \in Int /\ s = days * 86400 + seconds
    BY <1>2 DEF kSecondsPerDay
<1> HIDE DEF days, seconds
<1>4. date \in Nat /\ days = date - 2440588 /\ date <= MaxDay
    BY <1>3, Epoch, SMTT(60), Z3T(60) DEF Representable, MaxDay
<1> HIDE DEF date
<1>5. s = (date - 2440588) * 86400 + seconds
    BY <1>3, <1>4, SMTT(60), Z3T(60)
<1> QED
    BY <1>1, <1>3, <1>4, <1>5, SMTT(60), Z3T(60)

\* toUtcTime gives the hour, minute and second of a day and a valid date.
THEOREM UtcInRange ==
    ASSUME NEW s, Representable(s)
    PROVE  LET tm == ToUtcTime(s) IN
           /\ IsDate(tm.tm_year + 1900, tm.tm_mon + 1, tm.tm_mday)
           /\ tm.tm_hour \in 0..23 /\ tm.tm_min \in 0..59 /\ tm.tm_sec \in 0..59
<1>1. PICK date \in Nat, seconds \in Nat :
         /\ seconds < 86400 /\ date <= MaxDay
         /\ ToUtcTime(s) = TmOf(date, seconds)
    BY DayAndSeconds, SMTT(60), Z3T(60)
<1> DEFINE tm == ToUtcTime(s)
           ymd == GetYearMonthDay(date)
<1>2. /\ tm.tm_year = ymd.year - 1900 /\ tm.tm_mon = ymd.month - 1 /\ tm.tm_mday = ymd.day
      /\ tm.tm_hour = (seconds \div 60) \div 60 /\ tm.tm_min = (seconds \div 60) % 60
      /\ tm.tm_sec = seconds % 60
    BY <1>1 DEF TmOf
<1>3. IsDate(ymd.year, ymd.month, ymd.day)
    BY <1>1, DateIsValid
<1> HIDE DEF tm, ymd
<1>4. ymd.year \in Int /\ ymd.month \in Int
    BY <1>3 DEF IsDate
<1>5. tm.tm_year + 1900 = ymd.year /\ tm.tm_mon + 1 = ymd.month
    BY <1>2, <1>4
<1>6. IsDate(tm.tm_year + 1900, tm.tm_mon + 1, tm.tm_mday)
    BY <1>2, <1>3, <1>5, SMTT(60), Z3T(60)
<1>7. tm.tm_hour \in 0..23 /\ tm.tm_min \in 0..59 /\ tm.tm_sec \in 0..59
    BY <1>1, <1>2
<1> QED
    BY <1>6, <1>7 DEF tm

\* A time from 1970 on is in a year of four digits or more.
LEMMA ModernYear ==
    ASSUME NEW s, Representable(s), s >= 0
    PROVE  ToUtcTime(s).tm_year \in Int /\ ToUtcTime(s).tm_year >= -100
<1>1. PICK date \in Nat, seconds \in Nat :
         /\ seconds < 86400 /\ date <= MaxDay
         /\ s = (date - 2440588) * 86400 + seconds
         /\ ToUtcTime(s) = TmOf(date, seconds)
    BY DayAndSeconds, SMTT(60), Z3T(60)
<1>2. date >= 2440588
    BY <1>1, SMTT(60), Z3T(60)
<1> DEFINE ymd == GetYearMonthDay(date)
<1>3. PICK b, d, e, m \in Int : Ranges(date, b, d, e, m) /\ YmdIs(ymd, b, d, e, m)
    BY YmdTerms, Zenon
<1>4. ToUtcTime(s).tm_year = ymd.year - 1900
    BY <1>1, SMTT(60), Z3T(60) DEF TmOf
<1> HIDE DEF ymd
<1>5. /\ 0 <= b /\ 0 <= d /\ d <= 99 /\ e <= 365 /\ 0 <= m /\ m <= 11
      /\ e = date + 32044 - 36524 * b - (b \div 4) - 365 * d - (d \div 4)
    BY <1>3, SMTT(60), Z3T(60) DEF Ranges
<1>6. b >= 66
    BY <1>2, <1>5, SMTT(60), Z3T(60)
<1>7. ymd.year >= 1800
  <2>1. ymd.year = b * 100 + d - 4800 + (m \div 10)
    BY <1>3, SMTT(60), Z3T(60) DEF YmdIs
  <2> QED
    BY <1>5, <1>6, <2>1, SMTT(60), Z3T(60)
<1>8. ymd.year \in Int
    BY <1>3, SMTT(60), Z3T(60) DEF YmdIs
<1> QED
    BY <1>4, <1>7, <1>8, SMTT(60), Z3T(60)

\* fromUtcTime undoes toUtcTime, before 1970 too, for the seconds of the days up to
\* MaxDay.
THEOREM UtcRoundTrip ==
    ASSUME NEW s, Representable(s)
    PROVE  FromUtcTime(ToUtcTime(s)) = s
<1>1. PICK date \in Nat, seconds \in Nat :
         /\ seconds < 86400 /\ date <= MaxDay
         /\ s = (date - 2440588) * 86400 + seconds
         /\ ToUtcTime(s) = TmOf(date, seconds)
    BY DayAndSeconds, SMTT(60), Z3T(60)
<1> DEFINE tm == ToUtcTime(s)
           ymd == GetYearMonthDay(date)
<1>2. /\ tm.tm_year = ymd.year - 1900 /\ tm.tm_mon = ymd.month - 1 /\ tm.tm_mday = ymd.day
      /\ tm.tm_hour = (seconds \div 60) \div 60 /\ tm.tm_min = (seconds \div 60) % 60
      /\ tm.tm_sec = seconds % 60
    BY <1>1 DEF TmOf
<1>3. GetJulianDayNumber(ymd.year, ymd.month, ymd.day) = date
    BY <1>1, JulianRoundTrip
<1>4. IsDate(ymd.year, ymd.month, ymd.day)
    BY <1>1, DateIsValid
<1>5. FromUtcTime(tm) = (DayOfTm(tm) - kJulianDayOf1970_01_01) * kSecondsPerDay
                           + tm.tm_hour * 3600 + tm.tm_min * 60 + tm.tm_sec
    BY DEF FromUtcTime
<1> HIDE DEF tm, ymd
<1>6. tm.tm_year + 1900 = ymd.year /\ tm.tm_mon + 1 = ymd.month
    BY <1>2, <1>4 DEF IsDate
<1>7. DayOfTm(tm) = date
    BY <1>2, <1>3, <1>6 DEF DayOfTm
<1>8. tm.tm_hour * 3600 + tm.tm_min * 60 + tm.tm_sec = seconds
  <2>1. PICK minutes \in Nat : minutes = seconds \div 60
    BY <1>1
  <2>2. seconds = 60 * minutes + (seconds % 60)
    BY <1>1, <2>1
  <2>3. minutes = 60 * (minutes \div 60) + (minutes % 60)
    OBVIOUS
  <2>4. (minutes \div 60) * 3600 + (minutes % 60) * 60 + (seconds % 60) = seconds
    BY <2>2, <2>3
  <2> QED
    BY <1>2, <2>1, <2>4
<1>9. tm.tm_hour \in Int /\ tm.tm_min \in Int /\ tm.tm_sec \in Int
    BY <1>2
<1>10. FromUtcTime(tm) = (date - 2440588) * 86400 + (tm.tm_hour * 3600 + tm.tm_min * 60 + tm.tm_sec)
    BY <1>5, <1>7, <1>9, Epoch DEF kSecondsPerDay
<1>11. FromUtcTime(tm) = s
  <2>1. s = (date - 2440588) * 86400 + seconds
    BY <1>1
  <2> QED
    BY <1>8, <1>10, <2>1
<1> QED
    BY <1>11 DEF tm

\* The transitions of a zone: times that ascend, each with the index of a Localtime.
IsZone(data, key) ==
    /\ \E S : data.transitions \in Seq(S)
    /\ \A i \in 1..Len(data.transitions) : data.transitions[i][key] \in Int
    /\ \A i, j \in 1..Len(data.transitions) :
          i < j => data.transitions[i][key] < data.transitions[j][key]

\* findLocaltime finds the last transition that is not after the time it is asked
\* for, and the first Localtime when there is none; the assert before it steps
\* back holds, since it does so only behind a first transition.
THEOREM FindsLastTransition ==
    ASSUME NEW data, NEW key, NEW t \in Int, NEW p, IsZone(data, key),
           LowerBound(data.transitions, key, t, p)
    PROVE  LET trans == data.transitions
               found == FindLocaltime(data, key, t, p)
           IN \/ /\ \A i \in 1..Len(trans) : t < trans[i][key]
                 /\ found = data.localtimes[1]
              \/ \E k \in 1..Len(trans) :
                    /\ trans[k][key] <= t
                    /\ \A i \in 1..Len(trans) : i > k => t < trans[i][key]
                    /\ found = data.localtimes[trans[k].idx]
<1> DEFINE trans == data.transitions
           n == Len(trans)
           found == FindLocaltime(data, key, t, p)
<1>1. /\ n \in Nat /\ \A i \in 1..n : trans[i][key] \in Int
      /\ \A i, j \in 1..n : i < j => trans[i][key] < trans[j][key]
  <2>1. PICK S : trans \in Seq(S)
    BY DEF IsZone
  <2> QED
    BY <2>1 DEF IsZone
<1>2. /\ p \in 1..(n + 1) /\ \A i \in 1..(p - 1) : trans[i][key] < t
      /\ p <= n => ~(trans[p][key] < t)
    BY DEF LowerBound
<1>3. found = IF trans = << >> \/ t < trans[1][key] THEN data.localtimes[1]
              ELSE IF p = n + 1 THEN data.localtimes[trans[n].idx]
              ELSE IF t = trans[p][key] THEN data.localtimes[trans[p].idx]
              ELSE data.localtimes[trans[p - 1].idx]
    BY Zenon DEF FindLocaltime
<1>4. trans = << >> <=> n = 0
  <2>1. PICK S : trans \in Seq(S)
    BY DEF IsZone
  <2> QED
    BY <2>1, SMTT(60), Z3T(60)
<1> HIDE DEF trans, n, found
<1>5. CASE trans = << >> \/ t < trans[1][key]
  <2>1. \A i \in 1..n : t < trans[i][key]
    BY <1>1, <1>4, <1>5, SMTT(60), Z3T(60)
  <2>2. found = data.localtimes[1]
    BY <1>3, <1>5, SMTT(60), Z3T(60)
  <2> QED
    BY <2>1, <2>2, SMTT(60), Z3T(60) DEF trans, n, found
<1>6. CASE ~(trans = << >> \/ t < trans[1][key])
  <2>0. n >= 1 /\ 1 \in 1..n /\ ~(t < trans[1][key])
    BY <1>1, <1>4, <1>6, SMTT(60), Z3T(60)
  <2>1. PICK k \in 1..n : /\ \/ p = n + 1 /\ k = n
                             \/ p # n + 1 /\ t = trans[p][key] /\ k = p
                             \/ p # n + 1 /\ t # trans[p][key] /\ k = p - 1
    <3>1. CASE p = n + 1
      BY <2>0, <1>1, <3>1, SMTT(60), Z3T(60)
    <3>2. CASE p # n + 1 /\ t = trans[p][key]
      BY <1>1, <1>2, <3>2, SMTT(60), Z3T(60)
    <3>3. CASE p # n + 1 /\ t # trans[p][key]
      <4>1. p # 1
        BY <1>1, <1>2, <2>0, <3>3, SMTT(60), Z3T(60)
      <4> QED
        BY <1>1, <1>2, <3>3, <4>1, SMTT(60), Z3T(60)
    <3> QED
      BY <3>1, <3>2, <3>3, SMTT(60), Z3T(60)
  <2>2. found = data.localtimes[trans[k].idx]
    BY <1>3, <1>6, <2>1, SMTT(60), Z3T(60)
  <2>3. trans[k][key] <= t
    BY <1>1, <1>2, <2>0, <2>1, SMTT(60), Z3T(60)
  <2>4. \A i \in 1..n : i > k => t < trans[i][key]
    <3> SUFFICES ASSUME NEW i \in 1..n, i > k PROVE t < trans[i][key]
      BY SMTT(60), Z3T(60)
    <3>1. p \in 1..n /\ i >= p
      BY <1>1, <1>2, <2>1, SMTT(60), Z3T(60)
    <3>2. t <= trans[p][key]
      BY <1>1, <1>2, <3>1, SMTT(60), Z3T(60)
    <3>3. CASE i = p
      BY <1>1, <2>1, <3>1, <3>2, <3>3, SMTT(60), Z3T(60)
    <3>4. CASE i > p
      BY <1>1, <3>1, <3>2, <3>4
    <3> QED
      BY <3>1, <3>3, <3>4, SMTT(60), Z3T(60)
  <2> QED
    BY <2>2, <2>3, <2>4, SMTT(60), Z3T(60) DEF trans, n, found
<1> QED
    BY <1>5, <1>6, ZenonT(60), ZenonT(90)

Localtime == [gmtOffset : Int, isDst : {0, 1}]

\* Two times keep their order when they are shifted by offsets that differ by less
\* than the times do, as the local times of a time zone file are.
LEMMA ShiftKeepsOrder ==
    ASSUME NEW t \in Int, NEW u \in Int, NEW x \in Int, NEW y \in Int, x - y < u - t
    PROVE  t + x < u + y
    BY SMTT(60), Z3T(60)

\* The zone read from a whole file whose times ascend is one findLocaltime can
\* search, by the time in UTC and, when no change of the offset is as long as the
\* time between the transitions around it, by the local time too.
THEOREM FileZoneIsZone ==
    ASSUME NEW file, file.trans \in Seq(Int), file.localtimes \in Seq(Localtime),
           \A i \in 1..Len(file.trans) : file.idx[i] \in 1..Len(file.localtimes),
           \A i, j \in 1..Len(file.trans) : i < j => file.trans[i] < file.trans[j]
    PROVE  LET data == ReadTimeZoneFile(file, Len(file.localtimes))
               offset(i) == file.localtimes[file.idx[i]].gmtOffset
           IN /\ IsZone(data, "gmt")
              /\ (\A i, j \in 1..Len(file.trans) :
                     i < j => offset(i) - offset(j) < file.trans[j] - file.trans[i])
                 => IsZone(data, "local")
<1> DEFINE data == ReadTimeZoneFile(file, Len(file.localtimes))
           offset(i) == file.localtimes[file.idx[i]].gmtOffset
           n == Len(file.trans)
           row(i) == [gmt |-> file.trans[i], local |-> file.trans[i] + offset(i), idx |-> file.idx[i]]
<1>1. n \in Nat
    BY SMTT(60), Z3T(60)
<1>2. ASSUME NEW i \in 1..n PROVE file.trans[i] \in Int /\ offset(i) \in Int
  <2>1. file.trans[i] \in Int /\ file.idx[i] \in 1..Len(file.localtimes)
    OBVIOUS
  <2>2. file.localtimes[file.idx[i]] \in Localtime
    BY <2>1, SMTT(60), Z3T(60)
  <2>3. file.localtimes[file.idx[i]].gmtOffset \in Int
    BY <2>2, SMTT(60), Z3T(60) DEF Localtime
  <2> QED
    BY <2>1, <2>3
<1>3. data.transitions = [i \in 1..n |-> row(i)]
    BY SMTT(60), Z3T(60) DEF ReadTimeZoneFile
<1> HIDE DEF data, n, offset
<1>4. ASSUME NEW i \in 1..n
      PROVE  /\ data.transitions[i]["gmt"] = file.trans[i]
             /\ data.transitions[i]["local"] = file.trans[i] + offset(i)
    BY <1>3
<1>5. (\E S : data.transitions \in Seq(S)) /\ Len(data.transitions) = n
  <2> DEFINE rows == {row(i) : i \in 1..n}
  <2>1. data.transitions \in [1..n -> rows]
    BY <1>3
  <2> HIDE DEF rows
  <2>2. data.transitions \in Seq(rows) /\ Len(data.transitions) = n
    BY <1>1, <2>1
  <2> QED
    BY <2>2, SMTT(60), Z3T(60)
<1>6. \A i, j \in 1..n : i < j => file.trans[i] < file.trans[j]
    BY DEF n
<1>7. IsZone(data, "gmt")
  <2>1. \A i \in 1..n : data.transitions[i]["gmt"] \in Int
    BY <1>2, <1>4, SMTT(60), Z3T(60)
  <2>2. \A i, j \in 1..n : i < j => data.transitions[i]["gmt"] < data.transitions[j]["gmt"]
    BY <1>4, <1>6
  <2> QED
    BY <1>5, <2>1, <2>2, ZenonT(60), ZenonT(90) DEF IsZone
<1>8. ASSUME \A i, j \in 1..n : i < j => offset(i) - offset(j) < file.trans[j] - file.trans[i]
      PROVE  IsZone(data, "local")
  <2>1. \A i \in 1..n : data.transitions[i]["local"] \in Int
    BY <1>2, <1>4, SMTT(60), Z3T(60)
  <2>2. ASSUME NEW i \in 1..n, NEW j \in 1..n, i < j
        PROVE  data.transitions[i]["local"] < data.transitions[j]["local"]
    <3>1. offset(i) - offset(j) < file.trans[j] - file.trans[i]
      BY <1>8, <2>2, SMTT(60), Z3T(60)
    <3>2. /\ file.trans[i] \in Int /\ file.trans[j] \in Int
          /\ offset(i) \in Int /\ offset(j) \in Int
      BY <1>2
    <3>3. file.trans[i] + offset(i) < file.trans[j] + offset(j)
      BY <3>1, <3>2, ShiftKeepsOrder, ZenonT(60), ZenonT(90)
    <3> QED
      BY <1>4, <3>3, SMTT(60), Z3T(60)
  <2> QED
    BY <1>5, <2>1, <2>2, ZenonT(60), ZenonT(90) DEF IsZone
<1> QED
    BY <1>7, <1>8, ZenonT(60), ZenonT(90) DEF data, n, offset

\* fromLocalTime of a time that claims no daylight saving.
LEMMA NoDaylightSaving ==
    ASSUME NEW data, NEW tm, NEW p, NEW q, tm.isdst = 0
    PROVE  FromLocalTime(data, tm, p, q) =
               FromUtcTime(tm.utc) - FindLocaltime(data, "local", FromUtcTime(tm.utc), p).gmtOffset
    BY SMTT(60), Z3T(60) DEF FromLocalTime

\* fromLocalTime undoes toLocalTime in a zone of a fixed offset, which has no
\* transition and so no hour that happens twice.
THEOREM FixedZoneRoundTrip ==
    ASSUME NEW s \in Int, NEW eastOfUtc \in Int, Representable(s + eastOfUtc), NEW p, NEW q
    PROVE  LET zone == FixedZone(eastOfUtc)
               tm == ToLocalTime(zone, s, p)
           IN FromLocalTime(zone, tm, p, q) = s
<1> DEFINE zone == FixedZone(eastOfUtc)
           tm == ToLocalTime(zone, s, p)
<1>1. \A key, t, k : FindLocaltime(zone, key, t, k) = [gmtOffset |-> eastOfUtc, isDst |-> 0]
    BY SMTT(60), Z3T(60) DEF FindLocaltime, FixedZone
<1>1a. \A key, t, k : FindLocaltime(zone, key, t, k).gmtOffset = eastOfUtc
    BY <1>1, SMTT(60), Z3T(60)
<1> HIDE DEF zone
<1>2. tm = [utc |-> ToUtcTime(s + eastOfUtc), isdst |-> 0]
    BY <1>1 DEF ToLocalTime
<1>3. tm.utc = ToUtcTime(s + eastOfUtc) /\ tm.isdst = 0
    BY <1>2
<1> HIDE DEF tm
<1>4. FromUtcTime(tm.utc) = s + eastOfUtc
  <2>1. PICK u : u = s + eastOfUtc
    OBVIOUS
  <2>2. Representable(u)
    BY <2>1
  <2>3. FromUtcTime(ToUtcTime(u)) = u
    BY <2>2, UtcRoundTrip, ZenonT(60), ZenonT(90)
  <2> QED
    BY <1>3, <2>1, <2>3, Zenon
<1>5. FromLocalTime(zone, tm, p, q) = FromUtcTime(tm.utc) - eastOfUtc
    BY <1>1a, <1>3, NoDaylightSaving, ZenonT(60), ZenonT(90)
<1>6. FromLocalTime(zone, tm, p, q) = s
  <2>1. (s + eastOfUtc) - eastOfUtc = s
    BY SMTT(60), Z3T(60)
  <2> QED
    BY <1>4, <1>5, <2>1, Zenon
<1> QED
    BY <1>6, ZenonT(60), ZenonT(90) DEF tm, zone

\* The characters a thread keeps are those of the second it keeps with them, unless it
\* has logged nothing.
KeepsStamp(last, timeZone_) ==
    last = NothingLogged \/ last.t_time = StampOf(last.t_lastSecond, timeZone_)

MaxInt64 == 9223372036854775807

\* The time of a message, moved by timeZone_ hours, is what its stamp says.
ReadsBack(stamp, microSecondsSinceEpoch, timeZone_) ==
    /\ stamp.microseconds >= 0 /\ stamp.microseconds <= 999999
    /\ microSecondsSinceEpoch + timeZone_ * 3600 * 1000000
         = FromUtcTime(stamp.tm) * 1000000 + stamp.microseconds

\* The stamp of a log line is the time of the message, moved by timeZone_ hours, from
\* a thread's first line on and even when the characters of its second are those an
\* earlier line left: the date is a date, and the stamp read back is the time of the
\* message plus timeZone_ hours.  The hour is one of a day only while it stays within the
\* day: past midnight formatTime prints hours from 24 on, or below 0, of the day before.
\* The assertion on the length holds when timeZone_ is -9 or more; an hour of -10 or
\* less is three characters wide and ends the process.  Left out: times before 1970 and
\* the first second of 1970, whose number is that of a thread that has logged nothing.
THEOREM StampReadsBack ==
    ASSUME NEW microSecondsSinceEpoch \in Nat,
           microSecondsSinceEpoch >= kMicroSecondsPerSecond, microSecondsSinceEpoch <= MaxInt64,
           NEW timeZone_ \in Int, NEW last, KeepsStamp(last, timeZone_)
    PROVE  LET stamp == FormatTime(last, microSecondsSinceEpoch, timeZone_) IN
           /\ KeepsStamp(NothingLogged, timeZone_) /\ KeepsStamp(stamp.last, timeZone_)
           /\ ReadsBack(stamp, microSecondsSinceEpoch, timeZone_)
           /\ IsDate(stamp.tm.tm_year + 1900, stamp.tm.tm_mon + 1, stamp.tm.tm_mday)
           /\ stamp.tm.tm_hour \in timeZone_..(timeZone_ + 23)
           /\ timeZone_ >= -9 /\ timeZone_ <= 76 /\ stamp.tm.tm_year <= 8099 => stamp.asserted
           /\ last = NothingLogged /\ ~FillsTwo(stamp.tm.tm_hour) => ~stamp.asserted
<1> DEFINE us == microSecondsSinceEpoch
           sec == us \div 1000000
           stamp == FormatTime(last, us, timeZone_)
           utc == ToUtcTime(sec)
           mic == us % 1000000
<1>1. sec \in Nat /\ sec >= 1 /\ us = sec * 1000000 + (us % 1000000) /\ us % 1000000 >= 0
        /\ us % 1000000 <= 999999 /\ us % 1000000 \in Int
    BY SMTT(60), Z3T(60) DEF kMicroSecondsPerSecond
<1>2. SplitSeconds(us) = [seconds |-> sec, microseconds |-> us % 1000000]
  <2>1. Quot(us, kMicroSecondsPerSecond) = sec
    BY SMTT(60), Z3T(60) DEF Quot, kMicroSecondsPerSecond
  <2>2. us - 1000000 * sec = us % 1000000
    BY <1>1, SMTT(60), Z3T(60)
  <2> HIDE DEF sec
  <2>3. Rem(us, kMicroSecondsPerSecond) = us % 1000000
    BY <2>1, <2>2, SMTT(60), Z3T(60) DEF Rem, kMicroSecondsPerSecond
  <2> QED
    BY <2>1, <2>3, SMTT(60), Z3T(60) DEF SplitSeconds
<1> HIDE DEF sec
<1>3. /\ stamp.tm = StampOf(sec, timeZone_) /\ stamp.microseconds = us % 1000000
      /\ stamp.last.t_lastSecond = sec /\ stamp.last.t_time = StampOf(sec, timeZone_)
  <2>1. last = NothingLogged => sec # last.t_lastSecond
    BY <1>1, SMTT(60), Z3T(60) DEF NothingLogged
  <2>2. /\ stamp.tm = stamp.last.t_time /\ stamp.microseconds = us % 1000000
        /\ sec # last.t_lastSecond => stamp.last = [t_lastSecond |-> sec, t_time |-> StampOf(sec, timeZone_)]
        /\ sec = last.t_lastSecond => stamp.last = last
    BY <1>2, SMTT(60), Z3T(60) DEF FormatTime
  <2>3. sec = last.t_lastSecond => last.t_time = StampOf(sec, timeZone_)
    BY <2>1, ZenonT(60), ZenonT(90) DEF KeepsStamp
  <2> HIDE DEF stamp
  <2> QED
    BY <2>2, <2>3, SMTT(60), Z3T(60)
<1>3a. stamp.asserted <=> /\ sec # last.t_lastSecond => HasSeventeenCharacters(stamp.tm)
                          /\ HasSixCharacters(mic)
  <2>1. SplitSeconds(us).seconds = sec /\ SplitSeconds(us).microseconds = mic
    BY <1>2, SMTT(60), Z3T(60)
  <2> HIDE DEF mic
  <2> QED
    BY <2>1, ZenonT(60), ZenonT(90) DEF FormatTime
<1>4. Representable(sec)
  <2>1. sec <= 9223372036854
    BY SMTT(60), Z3T(60) DEF sec, MaxInt64
  <2> QED
    BY <1>1, <2>1, SMTT(60), Z3T(60) DEF Representable, MaxDay
<1>5. /\ IsDate(utc.tm_year + 1900, utc.tm_mon + 1, utc.tm_mday)
      /\ utc.tm_hour \in 0..23 /\ utc.tm_min \in 0..59 /\ utc.tm_sec \in 0..59
    BY <1>4, UtcInRange, SMTT(60), Z3T(60)
<1>5a. utc.tm_year \in Int /\ utc.tm_year >= -100
    BY <1>1, <1>4, ModernYear, SMTT(60), Z3T(60)
<1>6. FromUtcTime(utc) = sec
    BY <1>4, UtcRoundTrip, SMTT(60), Z3T(60)
<1>7. /\ stamp.tm.tm_year = utc.tm_year /\ stamp.tm.tm_mon = utc.tm_mon
      /\ stamp.tm.tm_mday = utc.tm_mday /\ stamp.tm.tm_hour = utc.tm_hour + timeZone_
      /\ stamp.tm.tm_min = utc.tm_min /\ stamp.tm.tm_sec = utc.tm_sec
      /\ stamp.microseconds = us % 1000000
    BY <1>3, SMTT(60), Z3T(60) DEF StampOf, ToUtcTime
<1> HIDE DEF stamp, utc
<1>8. IsDate(stamp.tm.tm_year + 1900, stamp.tm.tm_mon + 1, stamp.tm.tm_mday)
    BY <1>5, <1>7, SMTT(60), Z3T(60)
<1>9. FromUtcTime(stamp.tm) = FromUtcTime(utc) + timeZone_ * 3600
  <2>1. DayOfTm(stamp.tm) = DayOfTm(utc)
    BY <1>7, SMTT(60), Z3T(60) DEF DayOfTm
  <2>2. PICK z : z = (DayOfTm(utc) - kJulianDayOf1970_01_01) * kSecondsPerDay
    BY SMTT(60), Z3T(60)
  <2>3. z \in Int
    <3>1. DayOfTm(utc) \in Int
      BY <1>5, SMTT(60), Z3T(60) DEF DayOfTm, GetJulianDayNumber, IsDate
    <3> QED
      BY <2>2, <3>1, Epoch, SMTT(60), Z3T(60) DEF kSecondsPerDay
  <2>4. FromUtcTime(utc) = z + utc.tm_hour * 3600 + utc.tm_min * 60 + utc.tm_sec
    BY <2>2, SMTT(60), Z3T(60) DEF FromUtcTime
  <2>5. FromUtcTime(stamp.tm) = z + (utc.tm_hour + timeZone_) * 3600 + utc.tm_min * 60 + utc.tm_sec
    BY <1>7, <2>1, <2>2, SMTT(60), Z3T(60) DEF FromUtcTime
  <2> DEFINE h == utc.tm_hour
             mi == utc.tm_min
             se == utc.tm_sec
  <2>6. h \in Int /\ mi \in Int /\ se \in Int
    BY <1>5, SMTT(60), Z3T(60)
  <2> HIDE DEF h, mi, se
  <2>7. z + (h + timeZone_) * 3600 + mi * 60 + se = (z + h * 3600 + mi * 60 + se) + timeZone_ * 3600
    BY <2>3, <2>6, SMTT(60), Z3T(60)
  <2> QED
    BY <2>4, <2>5, <2>7, SMTT(60), Z3T(60) DEF h, mi, se
<1>10. us + timeZone_ * 3600 * 1000000 = FromUtcTime(stamp.tm) * 1000000 + stamp.microseconds
  <2>1. PICK f \in Int : f = sec + timeZone_ * 3600
    BY <1>1, SMTT(60), Z3T(60)
  <2>2. f * 1000000 = sec * 1000000 + timeZone_ * 3600 * 1000000
    BY <1>1, <2>1, SMTT(60), Z3T(60)
  <2>3. FromUtcTime(stamp.tm) = f
    BY <1>6, <1>9, <2>1, SMTT(60), Z3T(60)
  <2>4. us + timeZone_ * 3600 * 1000000 = f * 1000000 + (us % 1000000)
    BY <1>1, <2>2, SMTT(60), Z3T(60)
  <2> QED
    BY <1>7, <2>3, <2>4, SMTT(60), Z3T(60)
<1>11. stamp.microseconds >= 0 /\ stamp.microseconds <= 999999
    BY <1>1, <1>5, <1>7, SMTT(60), Z3T(60)
<1>11a. stamp.tm.tm_hour \in timeZone_..(timeZone_ + 23)
    BY <1>5, <1>7, SMTT(60), Z3T(60)
<1>12. KeepsStamp(stamp.last, timeZone_)
    BY <1>3, SMTT(60), Z3T(60) DEF KeepsStamp
<1>12a. ReadsBack(stamp, us, timeZone_)
    BY <1>10, <1>11, SMTT(60), Z3T(60) DEF ReadsBack
<1>13. KeepsStamp(NothingLogged, timeZone_)
    BY ZenonT(60), ZenonT(90) DEF KeepsStamp
<1>14. ASSUME timeZone_ >= -9, timeZone_ <= 76, stamp.tm.tm_year <= 8099 PROVE stamp.asserted
  <2>1. /\ stamp.tm.tm_year + 1900 >= -999 /\ stamp.tm.tm_year + 1900 <= 9999
        /\ FillsTwo(stamp.tm.tm_mon + 1) /\ FillsTwo(stamp.tm.tm_mday)
    <3>2. /\ utc.tm_year + 1900 \in Int /\ utc.tm_year + 1900 >= -999 /\ utc.tm_year + 1900 <= 9999
      BY <1>5a, <1>7, <1>14, SMTT(60), Z3T(60)
    <3>3. utc.tm_mon + 1 \in 1..12 /\ utc.tm_mday >= 1 /\ utc.tm_mday <= 31 /\ utc.tm_mday \in Int
      BY <1>5, SMTT(60), Z3T(60) DEF IsDate, DaysIn
    <3> QED
      BY <1>7, <3>2, <3>3, SMTT(60), Z3T(60) DEF FillsTwo
  <2>2. FillsTwo(stamp.tm.tm_hour)
    BY <1>11a, <1>14, SMTT(60), Z3T(60) DEF FillsTwo
  <2>3. FillsTwo(stamp.tm.tm_min) /\ FillsTwo(stamp.tm.tm_sec)
    BY <1>5, <1>7, SMTT(60), Z3T(60) DEF FillsTwo
  <2>4. HasSeventeenCharacters(stamp.tm)
    BY <2>1, <2>2, <2>3, SMTT(60), Z3T(60) DEF HasSeventeenCharacters
  <2>5. HasSixCharacters(mic)
    BY <1>1, SMTT(60), Z3T(60) DEF HasSixCharacters
  <2> HIDE DEF mic
  <2> QED
    BY <1>3a, <2>4, <2>5, ZenonT(60), ZenonT(90)
<1>15. ASSUME last = NothingLogged, ~FillsTwo(stamp.tm.tm_hour) PROVE ~stamp.asserted
  <2>1. ~HasSeventeenCharacters(stamp.tm)
    BY <1>15, SMTT(60), Z3T(60) DEF HasSeventeenCharacters
  <2>2. sec # last.t_lastSecond
    BY <1>1, <1>15, SMTT(60), Z3T(60) DEF NothingLogged
  <2> HIDE DEF mic
  <2> QED
    BY <1>3a, <2>1, <2>2, ZenonT(60), ZenonT(90)
<1>16. timeZone_ >= -9 /\ timeZone_ <= 76 /\ stamp.tm.tm_year <= 8099 => stamp.asserted
    BY <1>14, SMTT(60), Z3T(60)
<1>17. last = NothingLogged /\ ~FillsTwo(stamp.tm.tm_hour) => ~stamp.asserted
    BY <1>15, SMTT(60), Z3T(60)
<1> QED
    BY <1>8, <1>11a, <1>12, <1>12a, <1>13, <1>16, <1>17, SMTT(60), Z3T(60) DEF stamp

-----------------------------------------------------------------------------
\* The pollers.

PollFds == [fd : Int, events : SUBSET Events]

\* A descriptor and its ignored form stand for the same descriptor, and only the
\* ignored form is negative.
LEMMA DecodeIgnored ==
    ASSUME NEW fd \in Nat
    PROVE  /\ Ignored(fd) \in Int /\ Ignored(fd) < 0
           /\ Decode(Ignored(fd)) = fd /\ Decode(fd) = fd
    BY DEF Ignored, Decode

\* A channel is a pair; no channel is the absent one.
LEMMA ChannelFacts ==
    /\ \A c \in Channels : Fd(c) \in Fds /\ Fd(c) \in Nat /\ c # None
    /\ \A fd \in Fds : fd \in Nat
    BY PollAssumption DEF Channels, Fds, Fd, None

\* SwapRemove yields a vector that is one shorter.
LEMMA SwapRemoveIsSeq ==
    ASSUME pollfds_ \in Seq(PollFds), NEW i \in 1..Len(pollfds_)
    PROVE  /\ SwapRemove(i) \in Seq(PollFds)
           /\ Len(SwapRemove(i)) = Len(pollfds_) - 1
           /\ DOMAIN SwapRemove(i) = 1..(Len(pollfds_) - 1)
           /\ \A j \in 1..(Len(pollfds_) - 1) :
                  SwapRemove(i)[j] = IF j = i THEN pollfds_[Len(pollfds_)] ELSE pollfds_[j]
<1>. DEFINE n == Len(pollfds_)
<1>1. n \in Nat /\ n >= 1 /\ n - 1 \in Nat
    OBVIOUS
<1>2. \A j \in 1..(n - 1) : (IF j = i THEN pollfds_[n] ELSE pollfds_[j]) \in PollFds
    BY <1>1
<1>3. SwapRemove(i) \in [1..(n - 1) -> PollFds]
    BY <1>2, SMTT(60), Z3T(60) DEF SwapRemove
<1>. QED BY <1>1, <1>3 DEF SwapRemove

LEMMA InitIInv == Init => IInv
<1>. SUFFICES ASSUME Init PROVE IInv
    OBVIOUS
<1>1. TypeOK
    BY DEF Init, TypeOK
<1>2. Registered = {}
    BY ChannelFacts DEF Init, Registered
<1>3. fail = None
    BY Zenon DEF Init
<1>. QED BY <1>1, <1>2, <1>3 DEF Init, IInv, IndexesAgree, MapAgrees, NoAssertFails

\* Two registered channels have different descriptors and different indexes.
LEMMA IndexesDiffer ==
    ASSUME IInv, NEW c \in Registered, NEW d \in Registered, c # d
    PROVE  Fd(c) # Fd(d) /\ index_[c] # index_[d]
<1>1. c \in Channels /\ d \in Channels /\ channels_[Fd(c)] = c /\ channels_[Fd(d)] = d
    BY DEF Registered
<1>2. Fd(c) # Fd(d)
    BY <1>1
<1>3. Decode(pollfds_[index_[c] + 1].fd) = Fd(c) /\ Decode(pollfds_[index_[d] + 1].fd) = Fd(d)
    <2>1. ASSUME NEW e \in Registered PROVE Decode(pollfds_[index_[e] + 1].fd) = Fd(e)
        <3>0. pollfds_[index_[e] + 1] =
                  PollFd(IF events_[e] = {} /\ e \notin bare THEN Ignored(Fd(e)) ELSE Fd(e),
                         events_[e])
            BY SMTT(60), Z3T(60) DEF IInv, IndexesAgree
        <3>1. pollfds_[index_[e] + 1].fd \in {Ignored(Fd(e)), Fd(e)}
            BY <3>0, SMTT(60), Z3T(60) DEF PollFd
        <3>2. Fd(e) \in Nat
            BY ChannelFacts DEF Registered
        <3>. QED BY <3>1, <3>2, DecodeIgnored, SMTT(60), Z3T(60)
    <2>. QED BY <2>1
<1>. QED BY <1>2, <1>3

LEMMA NextIInv == IInv /\ [Next]_vars => IInv'
<1>. SUFFICES ASSUME IInv, [Next]_vars PROVE IInv'
    OBVIOUS
<1>. USE PollAssumption
<1>t. TypeOK /\ IndexesAgree /\ MapAgrees
    BY DEF IInv
<1>s. pollfds_ \in Seq(PollFds) /\ Len(pollfds_) \in Nat /\ DOMAIN pollfds_ = 1..Len(pollfds_)
    BY <1>t, SMTT(60), Z3T(60) DEF TypeOK, PollFds
<1>1. ASSUME NEW c \in Channels, NEW evs \in SUBSET Events, AddChannel(c, evs)
      PROVE  IInv'
    <2>. DEFINE n == Len(pollfds_)
    <2>a. /\ events_' = [events_ EXCEPT ![c] = evs]
          /\ pollfds_' = Append(pollfds_, PollFd(Fd(c), evs))
          /\ index_' = [index_ EXCEPT ![c] = n]
          /\ channels_' = [channels_ EXCEPT ![Fd(c)] = c]
          /\ closed' = closed
          /\ index_[c] < 0 /\ c \notin closed /\ channels_[Fd(c)] \in {None, c}
          /\ bare' = IF evs = {} THEN bare \cup {c} ELSE bare
          /\ fail' = IF channels_[Fd(c)] # None THEN c ELSE None
        BY <1>1 DEF AddChannel, Usable
    <2>b. Fd(c) \in Fds /\ Fd(c) \in Nat /\ c # None
        BY ChannelFacts, SMTT(60), Z3T(60)
    <2>1. c \notin Registered /\ channels_[Fd(c)] = None
        <3>1. ~(index_[c] >= 0)
            BY <2>a, <1>t DEF TypeOK
        <3>. QED BY <3>1, <2>a, <1>t, SMTT(60), Z3T(60) DEF MapAgrees, Registered
    <2>2. fail' = None
        BY <2>1, <2>a, ZenonT(60), ZenonT(90)
    <2>3. PollFd(Fd(c), evs) \in PollFds
        BY <2>b, SMTT(60), Z3T(60) DEF PollFd, PollFds
    <2>4. /\ pollfds_' \in Seq(PollFds) /\ Len(pollfds_') = n + 1
          /\ pollfds_'[n + 1] = PollFd(Fd(c), evs)
          /\ \A i \in 1..n : pollfds_'[i] = pollfds_[i]
          /\ DOMAIN pollfds_' = 1..(n + 1)
        BY <2>3, <2>a, <1>s, SMTT(60), Z3T(60)
    <2>5. TypeOK'
        <3>1. bare' \subseteq Channels /\ fail' \in Channels \cup {None}
            BY <2>2, <2>a, <1>t, SMTT(60), Z3T(60) DEF TypeOK
        <3>. QED BY <3>1, <2>4, <2>a, <2>b, <1>t, <1>s, SMTT(60), Z3T(60) DEF TypeOK, PollFds
    <2>6. Registered' = Registered \cup {c}
        <3>1. \A fd \in Fds : fd # Fd(c) => channels_'[fd] = channels_[fd]
            BY <2>a, <1>t, SMTT(60), Z3T(60) DEF TypeOK
        <3>2. channels_'[Fd(c)] = c
            BY <2>a, <2>b, <1>t, SMTT(60), Z3T(60) DEF TypeOK
        <3>. QED BY <3>1, <3>2, <2>1, <2>b, ChannelFacts, SMTT(60), Z3T(60) DEF Registered
    <2>7. /\ \A d \in Registered : d # c /\ index_'[d] = index_[d] /\ events_'[d] = events_[d]
          /\ index_'[c] = n /\ events_'[c] = evs
        BY <2>a, <2>1, <1>t, SMTT(60), Z3T(60) DEF TypeOK, Registered
    <2>10. /\ \A d \in Registered : d \in bare' <=> d \in bare
           /\ evs = {} => c \in bare'
        BY <2>a, <2>7, SMTT(60), Z3T(60)
    <2>8. IndexesAgree'
        <3>1. ASSUME NEW d \in Registered'
              PROVE  /\ index_'[d] \in 0..(Len(pollfds_') - 1)
                     /\ pollfds_'[index_'[d] + 1] =
                          PollFd(IF events_'[d] = {} /\ d \notin bare' THEN Ignored(Fd(d)) ELSE Fd(d),
                                 events_'[d])
            <4>1. CASE d = c
                <5>1. /\ events_'[d] = evs /\ ~(evs = {} /\ d \notin bare')
                      /\ index_'[d] = n /\ Fd(d) = Fd(c)
                    BY <4>1, <2>7, <2>10, SMTT(60), Z3T(60)
                <5>2. n \in 0..n /\ Len(pollfds_') - 1 = n
                    BY <2>4, <1>s, SMTT(60), Z3T(60)
                <5>. QED BY <5>1, <5>2, <2>4, SMTT(60), Z3T(60)
            <4>2. CASE d \in Registered
                <5>1. index_[d] \in 0..(n - 1) /\ pollfds_[index_[d] + 1] =
                          PollFd(IF events_[d] = {} /\ d \notin bare THEN Ignored(Fd(d)) ELSE Fd(d),
                         events_[d])
                    BY <4>2, <1>t, SMTT(60), Z3T(60) DEF IndexesAgree
                <5>2. index_[d] + 1 \in 1..n
                    BY <5>1, <1>s, SMTT(60), Z3T(60)
                <5>3. /\ index_'[d] = index_[d] /\ events_'[d] = events_[d]
                      /\ d \in bare' <=> d \in bare
                    BY <4>2, <2>7, <2>10, SMTT(60), Z3T(60)
                <5>4. pollfds_'[index_'[d] + 1] = pollfds_[index_[d] + 1]
                    BY <5>2, <5>3, <2>4, SMTT(60), Z3T(60)
                <5>5. index_'[d] \in 0..(Len(pollfds_') - 1)
                    BY <5>1, <5>3, <2>4, <1>s, SMTT(60), Z3T(60)
                <5>. QED BY <5>1, <5>3, <5>4, <5>5, SMTT(60), Z3T(60)
            <4>. QED BY <4>1, <4>2, <2>6, SMTT(60), Z3T(60)
        <3>2. ASSUME NEW i \in DOMAIN pollfds_'
              PROVE  /\ Decode(pollfds_'[i].fd) \in Fds
                     /\ channels_'[Decode(pollfds_'[i].fd)] # None
                     /\ index_'[channels_'[Decode(pollfds_'[i].fd)]] = i - 1
            <4>1. CASE i = n + 1
                <5>1. Decode(pollfds_'[i].fd) = Fd(c)
                    BY <4>1, <2>4, <2>b, DecodeIgnored, SMTT(60), Z3T(60) DEF PollFd
                <5>2. channels_'[Fd(c)] = c
                    BY <2>a, <2>b, <1>t, SMTT(60), Z3T(60) DEF TypeOK
                <5>. QED BY <5>1, <5>2, <4>1, <2>7, <2>b, <1>s, SMTT(60), Z3T(60)
            <4>2. CASE i \in 1..n
                <5>. DEFINE fd == Decode(pollfds_[i].fd)
                <5>1. fd \in Fds /\ channels_[fd] # None /\ index_[channels_[fd]] = i - 1
                    BY <4>2, <1>t, <1>s, SMTT(60), Z3T(60) DEF IndexesAgree
                <5>2. pollfds_'[i] = pollfds_[i] /\ fd # Fd(c)
                    BY <4>2, <5>1, <2>1, <2>4, SMTT(60), Z3T(60)
                <5>3. channels_'[fd] = channels_[fd]
                    BY <5>1, <5>2, <2>a, <1>t, SMTT(60), Z3T(60) DEF TypeOK
                <5>4. channels_[fd] \in Registered
                    BY <5>1, <1>t, SMTT(60), Z3T(60) DEF TypeOK, MapAgrees, Registered
                <5>5. index_'[channels_[fd]] = index_[channels_[fd]]
                    BY <5>4, <2>7, SMTT(60), Z3T(60)
                <5>. QED BY <5>1, <5>2, <5>3, <5>5, ZenonT(60), ZenonT(90)
            <4>. QED BY <4>1, <4>2, <2>4, <1>s, SMTT(60), Z3T(60)
        <3>. QED BY <3>1, <3>2, SMTT(60), Z3T(60) DEF IndexesAgree
    <2>9. MapAgrees'
        <3>1. \A fd \in Fds : channels_'[fd] # None => Fd(channels_'[fd]) = fd
            BY <2>a, <1>t, ZenonT(60), ZenonT(90) DEF TypeOK, MapAgrees
        <3>2. \A d \in Channels : d # c => index_'[d] = index_[d] /\ events_'[d] = events_[d]
            BY <2>a, <1>t, SMTT(60), Z3T(60) DEF TypeOK
        <3>3. index_'[c] >= 0
            BY <2>7, <1>s, SMTT(60), Z3T(60)
        <3>4. \A d \in Channels : (index_'[d] >= 0) <=> (d \in Registered' \cup closed')
            BY <3>2, <3>3, <2>6, <2>a, <1>t, SMTT(60), Z3T(60) DEF MapAgrees
        <3>5. Registered' \cap closed' = {}
            BY <2>6, <2>a, <1>t, SMTT(60), Z3T(60) DEF MapAgrees
        <3>6. \A d \in Channels \ Registered' : events_'[d] = {}
            BY <3>2, <2>6, <1>t, SMTT(60), Z3T(60) DEF MapAgrees
        <3>. QED BY <3>1, <3>4, <3>5, <3>6, SMTT(60), Z3T(60) DEF MapAgrees
    <2>. QED BY <2>2, <2>5, <2>8, <2>9, SMTT(60), Z3T(60) DEF IInv, NoAssertFails
<1>2. ASSUME NEW c \in Channels, NEW evs \in SUBSET Events, UpdateChannel(c, evs)
      PROVE  IInv'
    <2>. DEFINE n == Len(pollfds_)
                p == PollFd(IF evs = {} THEN Ignored(Fd(c)) ELSE Fd(c), evs)
                k == index_[c] + 1
    <2>b. Fd(c) \in Fds /\ Fd(c) \in Nat /\ c # None
        BY ChannelFacts, SMTT(60), Z3T(60)
    <2>1. c \in Registered
        <3>1. c \in Registered \cup closed
            BY <1>2, <1>t, SMTT(60), Z3T(60) DEF UpdateChannel, MapAgrees
        <3>. QED BY <3>1, <1>2, SMTT(60), Z3T(60) DEF UpdateChannel, Usable
    <2>2. k \in 1..n /\ Known(c)
        <3>1. index_[c] \in 0..(n - 1) /\ pollfds_[k] =
                  PollFd(IF events_[c] = {} /\ c \notin bare THEN Ignored(Fd(c)) ELSE Fd(c),
                         events_[c])
            BY <2>1, <1>t, ZenonT(60), ZenonT(90) DEF IndexesAgree
        <3>2. pollfds_[k].fd \in {Ignored(Fd(c)), Fd(c)}
            BY <3>1, SMTT(60), Z3T(60) DEF PollFd
        <3>3. Decode(pollfds_[k].fd) = Fd(c)
            BY <3>2, <2>b, DecodeIgnored, SMTT(60), Z3T(60)
        <3>. QED BY <3>1, <3>3, <2>1, <1>s, SMTT(60), Z3T(60) DEF Known, Registered
    <2>a. /\ events_' = [events_ EXCEPT ![c] = evs]
          /\ pollfds_' = [pollfds_ EXCEPT ![k] = p]
          /\ UNCHANGED <<index_, channels_, closed, fail>>
          /\ bare' = bare \ {c} /\ fail = None
        BY <1>2, <2>2, SMTT(60), Z3T(60) DEF UpdateChannel
    <2>3. p \in PollFds /\ Decode(p.fd) = Fd(c)
        BY <2>b, DecodeIgnored, SMTT(60), Z3T(60) DEF PollFd, PollFds
    <2>4. /\ pollfds_' \in Seq(PollFds) /\ Len(pollfds_') = n /\ DOMAIN pollfds_' = 1..n
          /\ pollfds_'[k] = p
          /\ \A i \in 1..n : i # k => pollfds_'[i] = pollfds_[i]
        BY <2>3, <2>2, <2>a, <1>s, SMTT(60), Z3T(60)
    <2>5. TypeOK'
        BY <2>4, <2>a, <1>t, SMTT(60), Z3T(60) DEF TypeOK, PollFds
    <2>6. Registered' = Registered
        BY <2>a, SMTT(60), Z3T(60) DEF Registered
    <2>7. events_'[c] = evs /\ \A d \in Channels : d # c => events_'[d] = events_[d]
        BY <2>a, <1>t, ZenonT(60), ZenonT(90) DEF TypeOK
    <2>8. IndexesAgree'
        <3>1. ASSUME NEW d \in Registered'
              PROVE  /\ index_'[d] \in 0..(Len(pollfds_') - 1)
                     /\ pollfds_'[index_'[d] + 1] =
                          PollFd(IF events_'[d] = {} /\ d \notin bare' THEN Ignored(Fd(d)) ELSE Fd(d),
                                 events_'[d])
            <4>1. CASE d = c
                <5>1. d \notin bare' /\ events_'[d] = evs /\ index_'[d] + 1 = k /\ Fd(d) = Fd(c)
                    BY <4>1, <2>7, <2>a, SMTT(60), Z3T(60)
                <5>2. index_'[d] \in 0..(Len(pollfds_') - 1)
                    BY <4>1, <2>2, <2>4, <2>a, ZenonT(60), ZenonT(90) DEF Known
                <5>. QED BY <5>1, <5>2, <2>4, SMTT(60), Z3T(60)
            <4>2. CASE d # c
                <5>1. d \in Registered /\ d \in Channels /\ index_[d] # index_[c]
                    BY <4>2, <2>6, <2>1, IndexesDiffer, ZenonT(60), ZenonT(90) DEF Registered
                <5>2. index_[d] \in 0..(n - 1) /\ pollfds_[index_[d] + 1] =
                          PollFd(IF events_[d] = {} /\ d \notin bare THEN Ignored(Fd(d)) ELSE Fd(d),
                         events_[d])
                    BY <5>1, <1>t, SMTT(60), Z3T(60) DEF IndexesAgree
                <5>3. index_[c] \in Int
                    BY <1>t, SMTT(60), Z3T(60) DEF TypeOK
                <5>4. index_[d] + 1 \in 1..n /\ index_[d] + 1 # k
                    BY <5>1, <5>2, <5>3, <1>s, SMTT(60), Z3T(60)
                <5>5. events_'[d] = events_[d] /\ (d \in bare' <=> d \in bare)
                    BY <5>1, <4>2, <2>7, <2>a, SMTT(60), Z3T(60)
                <5>. QED BY <5>2, <5>4, <5>5, <2>4, <2>a, SMTT(60), Z3T(60)
            <4>. QED BY <4>1, <4>2, ZenonT(60), ZenonT(90)
        <3>2. ASSUME NEW i \in DOMAIN pollfds_'
              PROVE  /\ Decode(pollfds_'[i].fd) \in Fds
                     /\ channels_'[Decode(pollfds_'[i].fd)] # None
                     /\ index_'[channels_'[Decode(pollfds_'[i].fd)]] = i - 1
            <4>1. CASE i = k
                <5>1. channels_[Fd(c)] = c /\ index_[c] \in Int
                    BY <2>1, <1>t, ZenonT(60), ZenonT(90) DEF Registered, TypeOK
                <5>2. Decode(pollfds_'[i].fd) = Fd(c)
                    BY <4>1, <2>3, <2>4, SMTT(60), Z3T(60)
                <5>3. index_[c] = i - 1
                    BY <4>1, <5>1
                <5>4. channels_' = channels_ /\ index_' = index_
                    BY <2>a, Zenon
                <5>. QED BY <5>1, <5>2, <5>3, <5>4, <2>b, SMTT(60), Z3T(60)
            <4>2. CASE i # k
                BY <4>2, <2>4, <2>a, <1>t, <1>s, ZenonT(60), ZenonT(90) DEF IndexesAgree
            <4>. QED BY <4>1, <4>2, SMTT(60), Z3T(60)
        <3>. QED BY <3>1, <3>2, SMTT(60), Z3T(60) DEF IndexesAgree
    <2>9. MapAgrees'
        <3>1. \A fd \in Fds : channels_'[fd] # None => Fd(channels_'[fd]) = fd
            BY <2>a, <1>t, ZenonT(60), ZenonT(90) DEF MapAgrees
        <3>2. \A d \in Channels : (index_'[d] >= 0) <=> (d \in Registered' \cup closed')
            BY <2>a, <2>6, <1>t, ZenonT(60), ZenonT(90) DEF MapAgrees
        <3>3. Registered' \cap closed' = {}
            BY <2>a, <2>6, <1>t, ZenonT(60), ZenonT(90) DEF MapAgrees
        <3>4. \A d \in Channels \ Registered' : events_'[d] = {}
            BY <2>1, <2>6, <2>7, <1>t, ZenonT(60), ZenonT(90) DEF MapAgrees
        <3>. QED BY <3>1, <3>2, <3>3, <3>4, ZenonT(60), ZenonT(90) DEF MapAgrees
    <2>. QED BY <2>5, <2>8, <2>9, <2>a, <1>t, SMTT(60), Z3T(60) DEF IInv, NoAssertFails
<1>3. ASSUME NEW c \in Channels, RemoveChannel(c), c \notin bare
      PROVE  IInv'
    <2>. DEFINE n == Len(pollfds_)
                k == index_[c] + 1
                last == Decode(pollfds_[n].fd)
    <2>b. Fd(c) \in Fds /\ Fd(c) \in Nat /\ c # None
        BY ChannelFacts, ZenonT(60), ZenonT(90)
    <2>c. events_[c] = {} /\ index_[c] >= 0 /\ c \notin closed
        BY <1>3, ZenonT(60), ZenonT(90) DEF RemoveChannel, Usable
    <2>1. c \in Registered
        BY <2>c, <1>t, ZenonT(60), ZenonT(90) DEF MapAgrees
    <2>2. index_[c] \in 0..(n - 1) /\ k \in 1..n /\ pollfds_[k] = PollFd(Ignored(Fd(c)), {})
          /\ Known(c)
        <3>1. index_[c] \in 0..(n - 1) /\ pollfds_[k] =
                  PollFd(IF events_[c] = {} /\ c \notin bare THEN Ignored(Fd(c)) ELSE Fd(c),
                         events_[c])
            BY <2>1, <1>t, ZenonT(60), ZenonT(90) DEF IndexesAgree
        <3>2. pollfds_[k] = PollFd(Ignored(Fd(c)), {})
            BY <3>1, <2>c, <1>3, ZenonT(60), ZenonT(90)
        <3>3. Decode(pollfds_[k].fd) = Fd(c)
            BY <3>2, <2>b, DecodeIgnored, SMTT(60), Z3T(60) DEF PollFd
        <3>. QED BY <3>1, <3>2, <3>3, <2>1, <1>s, SMTT(60), Z3T(60) DEF Known, Registered
    <2>a. /\ channels_' = [channels_ EXCEPT ![Fd(c)] = None]
          /\ pollfds_' = SwapRemove(k)
          /\ index_' = IF k = n THEN index_ ELSE [index_ EXCEPT ![Moved] = k - 1]
          /\ closed' = closed \cup {c}
          /\ UNCHANGED <<fail, events_, bare>> /\ fail = None
        BY <1>3, <2>2, ZenonT(60), ZenonT(90) DEF RemoveChannel
    <2>3. n \in 1..n /\ last \in Fds /\ Moved = channels_[last] /\ Moved # None
          /\ index_[Moved] = n - 1
        <3>1. n \in 1..n /\ n \in DOMAIN pollfds_
            BY <2>2, <1>s, SMTT(60), Z3T(60)
        <3>. QED BY <3>1, <1>t, ZenonT(60), ZenonT(90) DEF IndexesAgree, Moved
    <2>4. Moved \in Registered /\ Moved \in Channels /\ Fd(Moved) = last
        BY <2>3, <1>t, SMTT(60), Z3T(60) DEF TypeOK, MapAgrees, Registered
    <2>5. k # n => Moved # c
        BY <2>2, <2>3, <1>s, SMTT(60), Z3T(60)
    <2>6. /\ pollfds_' \in Seq(PollFds) /\ Len(pollfds_') = n - 1 /\ DOMAIN pollfds_' = 1..(n - 1)
          /\ \A j \in 1..(n - 1) : pollfds_'[j] = IF j = k THEN pollfds_[n] ELSE pollfds_[j]
        BY <2>2, <2>a, <1>s, SwapRemoveIsSeq, ZenonT(60), ZenonT(90)
    <2>7. index_' \in [Channels -> Int]
          /\ (\A d \in Channels : index_'[d] = IF k # n /\ d = Moved THEN k - 1 ELSE index_[d])
        <3>1. k - 1 \in Int
            BY <2>2
        <3>2. CASE k = n
            BY <3>2, <2>a, <1>t, ZenonT(60), ZenonT(90) DEF TypeOK
        <3>3. CASE k # n
            BY <3>1, <3>3, <2>a, <2>4, <1>t, ZenonT(60), ZenonT(90) DEF TypeOK
        <3>. QED BY <3>2, <3>3, SMTT(60), Z3T(60)
    <2>8. TypeOK'
        BY <2>6, <2>7, <2>a, <2>b, <1>t, ZenonT(60), ZenonT(90) DEF TypeOK, PollFds
    <2>9. Registered' = Registered \ {c}
        <3>1. \A fd \in Fds : fd # Fd(c) => channels_'[fd] = channels_[fd]
            BY <2>a, <1>t, SMTT(60), Z3T(60) DEF TypeOK
        <3>2. channels_'[Fd(c)] = None /\ channels_[Fd(c)] = c
            BY <2>a, <2>b, <2>1, <1>t, SMTT(60), Z3T(60) DEF TypeOK, Registered
        <3>3. \A d \in Channels : d \in Registered' <=> d \in Registered /\ d # c
            BY <3>1, <3>2, ChannelFacts, ZenonT(60), ZenonT(90) DEF Registered
        <3>. QED BY <3>3, SMTT(60), Z3T(60) DEF Registered
    <2>10. IndexesAgree'
        <3>1. ASSUME NEW d \in Registered'
              PROVE  /\ index_'[d] \in 0..(Len(pollfds_') - 1)
                     /\ pollfds_'[index_'[d] + 1] =
                          PollFd(IF events_'[d] = {} /\ d \notin bare' THEN Ignored(Fd(d)) ELSE Fd(d),
                                 events_'[d])
            <4>1. d \in Registered /\ d \in Channels /\ d # c /\ index_[d] # index_[c]
                BY <2>9, <2>1, IndexesDiffer, ZenonT(60), ZenonT(90) DEF Registered
            <4>2. index_[d] \in 0..(n - 1) /\ pollfds_[index_[d] + 1] =
                      PollFd(IF events_[d] = {} /\ d \notin bare THEN Ignored(Fd(d)) ELSE Fd(d),
                         events_[d])
                BY <4>1, <1>t, SMTT(60), Z3T(60) DEF IndexesAgree
            <4>3. events_'[d] = events_[d] /\ (d \in bare' <=> d \in bare)
                BY <2>a, ZenonT(60), ZenonT(90)
            <4>4. CASE k # n /\ d = Moved
                <5>1. index_'[d] = k - 1 /\ index_[d] = n - 1
                    BY <4>4, <4>1, <2>3, <2>7, ZenonT(60), ZenonT(90)
                <5>2. index_'[d] \in 0..(n - 2) /\ index_'[d] + 1 = k /\ k \in 1..(n - 1)
                    BY <5>1, <4>4, <2>2, <1>s, SMTT(60), Z3T(60)
                <5>3. pollfds_'[k] = pollfds_[n]
                    BY <5>2, <2>6, ZenonT(60), ZenonT(90)
                <5>4. index_[d] + 1 = n
                    BY <5>1, <1>s, SMTT(60), Z3T(60)
                <5>5. pollfds_'[index_'[d] + 1] = pollfds_[index_[d] + 1]
                    BY <5>2, <5>3, <5>4, ZenonT(60), ZenonT(90)
                <5>6. index_'[d] \in 0..(Len(pollfds_') - 1)
                    BY <5>2, <2>6, <1>s, SMTT(60), Z3T(60)
                <5>. QED BY <5>5, <5>6, <4>2, <4>3, ZenonT(60), ZenonT(90)
            <4>5. CASE ~(k # n /\ d = Moved)
                <5>1. index_'[d] = index_[d]
                    BY <4>5, <4>1, <2>7, SMTT(60), Z3T(60)
                <5>2. index_[d] # n - 1
                    <6>1. CASE k = n
                        BY <6>1, <4>1, <2>2, <1>s, SMTT(60), Z3T(60)
                    <6>2. CASE k # n
                        <7>1. d # Moved
                            BY <6>2, <4>5, ZenonT(60), ZenonT(90)
                        <7>. QED BY <7>1, <4>1, <2>3, <2>4, IndexesDiffer, SMTT(60), Z3T(60)
                    <6>. QED BY <6>1, <6>2, SMTT(60), Z3T(60)
                <5>3. index_[d] + 1 \in 1..(n - 1) /\ index_[d] + 1 # k
                    BY <5>2, <4>1, <4>2, <2>2, <1>s, SMTT(60), Z3T(60)
                <5>4. pollfds_'[index_[d] + 1] = pollfds_[index_[d] + 1]
                    BY <5>3, <2>6, SMTT(60), Z3T(60)
                <5>5. index_[d] \in 0..(n - 2)
                    BY <5>2, <4>2, <1>s, SMTT(60), Z3T(60)
                <5>6. index_'[d] \in 0..(Len(pollfds_') - 1)
                    BY <5>1, <5>5, <2>6, <1>s, SMTT(60), Z3T(60)
                <5>7. pollfds_'[index_'[d] + 1] = pollfds_[index_[d] + 1]
                    BY <5>1, <5>4, ZenonT(60), ZenonT(90)
                <5>. QED BY <5>6, <5>7, <4>2, <4>3, ZenonT(60), ZenonT(90)
            <4>. QED BY <4>4, <4>5
        <3>2. ASSUME NEW i \in DOMAIN pollfds_'
              PROVE  /\ Decode(pollfds_'[i].fd) \in Fds
                     /\ channels_'[Decode(pollfds_'[i].fd)] # None
                     /\ index_'[channels_'[Decode(pollfds_'[i].fd)]] = i - 1
            <4>1. i \in 1..(n - 1)
                BY <2>6, ZenonT(60), ZenonT(90)
            <4>2. CASE i = k
                <5>1. pollfds_'[i] = pollfds_[n] /\ k # n
                    BY <4>1, <4>2, <2>6, <1>s, SMTT(60), Z3T(60)
                <5>2. Moved # c /\ last # Fd(c)
                    BY <5>1, <2>5, <2>4, <2>3, <2>1, SMTT(60), Z3T(60) DEF Registered
                <5>3. channels_'[last] = Moved
                    BY <5>2, <2>3, <2>a, <1>t, SMTT(60), Z3T(60) DEF TypeOK
                <5>4. index_'[Moved] = k - 1
                    BY <5>1, <2>4, <2>7, SMTT(60), Z3T(60)
                <5>. QED BY <5>1, <5>3, <5>4, <4>2, <2>3, SMTT(60), Z3T(60)
            <4>3. CASE i # k
                <5>. DEFINE fd == Decode(pollfds_[i].fd)
                <5>1. i \in DOMAIN pollfds_ /\ pollfds_'[i] = pollfds_[i]
                    BY <4>1, <4>3, <2>6, <1>s, SMTT(60), Z3T(60)
                <5>2. fd \in Fds /\ channels_[fd] # None /\ index_[channels_[fd]] = i - 1
                    BY <5>1, <1>t DEF IndexesAgree
                <5>3. channels_[fd] \in Registered /\ channels_[fd] \in Channels
                      /\ Fd(channels_[fd]) = fd
                    BY <5>2, <1>t, ZenonT(60), ZenonT(90) DEF TypeOK, MapAgrees, Registered
                <5>4. channels_[fd] # c
                    BY <5>2, <4>3, <4>1, <2>2, <1>s, SMTT(60), Z3T(60)
                <5>5. fd # Fd(c)
                    BY <5>4, <2>1, SMTT(60), Z3T(60) DEF Registered
                <5>6. channels_'[fd] = channels_[fd]
                    BY <5>5, <5>2, <2>a, <1>t, SMTT(60), Z3T(60) DEF TypeOK
                <5>7. channels_[fd] # Moved
                    BY <5>2, <2>3, <4>1, <1>s, SMTT(60), Z3T(60)
                <5>8. index_'[channels_[fd]] = i - 1
                    BY <5>2, <5>3, <5>7, <2>7, SMTT(60), Z3T(60)
                <5>. QED BY <5>1, <5>2, <5>6, <5>8, SMTT(60), Z3T(60)
            <4>. QED BY <4>2, <4>3
        <3>. QED BY <3>1, <3>2, ZenonT(60), ZenonT(90) DEF IndexesAgree
    <2>11. MapAgrees'
        <3>1. \A fd \in Fds : channels_'[fd] # None => Fd(channels_'[fd]) = fd
            BY <2>a, <1>t DEF TypeOK, MapAgrees
        <3>2. \A d \in Channels : (index_'[d] >= 0) <=> (index_[d] >= 0)
            <4>1. k - 1 >= 0 /\ index_[Moved] >= 0
                BY <2>2, <2>3, <1>s, SMTT(60), Z3T(60)
            <4>. QED BY <4>1, <2>7, ZenonT(60), ZenonT(90)
        <3>3. \A d \in Channels : (index_'[d] >= 0) <=> (d \in Registered' \cup closed')
            BY <3>2, <2>9, <2>1, <2>a, <1>t, ZenonT(60), ZenonT(90) DEF MapAgrees
        <3>4. Registered' \cap closed' = {}
            BY <2>9, <2>a, <1>t, ZenonT(60), ZenonT(90) DEF MapAgrees
        <3>5. \A d \in Channels \ Registered' : events_'[d] = {}
            BY <2>9, <2>a, <2>c, <1>t, ZenonT(60), ZenonT(90) DEF MapAgrees
        <3>. QED BY <3>1, <3>3, <3>4, <3>5, SMTT(60), Z3T(60) DEF MapAgrees
    <2>. QED BY <2>8, <2>10, <2>11, <2>a, <1>t, SMTT(60), Z3T(60) DEF IInv, NoAssertFails
<1>4. ASSUME UNCHANGED <<pollfds_, channels_, index_, events_, closed, bare>>,
             TypeOK', NoAssertFails'
      PROVE  IInv'
    <2>1. Registered' = Registered
        BY <1>4 DEF Registered
    <2>. QED BY <2>1, <1>4, <1>t, ZenonT(60), ZenonT(90) DEF IInv, IndexesAgree, MapAgrees
<1>5. ASSUME NEW c \in Channels, RemoveChannel(c), c \in bare
      PROVE  IInv'
    <2>1. Fd(c) \in Nat /\ c # None
        BY ChannelFacts, ZenonT(60), ZenonT(90)
    <2>2. events_[c] = {} /\ c \in Registered
        BY <1>5, <1>t, ZenonT(60), ZenonT(90) DEF RemoveChannel, Usable, MapAgrees
    <2>3. pollfds_[index_[c] + 1] = PollFd(Fd(c), {})
        <3>1. pollfds_[index_[c] + 1] =
                  PollFd(IF events_[c] = {} /\ c \notin bare THEN Ignored(Fd(c)) ELSE Fd(c),
                         events_[c])
            BY <2>2, <1>t, ZenonT(60), ZenonT(90) DEF IndexesAgree
        <3>2. c \in bare
            BY <1>5
        <3>. QED BY <2>2, <3>1, <3>2, SMTT(60), Z3T(60)
    <2>4. pollfds_[index_[c] + 1] # PollFd(Ignored(Fd(c)), {})
        BY <2>1, <2>3, DecodeIgnored, SMTT(60), Z3T(60) DEF PollFd
    <2>5. fail' = c /\ UNCHANGED <<pollfds_, channels_, index_, events_, closed, bare>>
        BY <2>4, <1>5, ZenonT(60), ZenonT(90) DEF RemoveChannel
    <2>6. TypeOK'
        BY <2>5, <1>t, ZenonT(60), ZenonT(90) DEF TypeOK
    <2>7. NoAssertFails'
        BY <2>2, <2>5, <1>5, ZenonT(60), ZenonT(90) DEF NoAssertFails, Registered
    <2>. QED BY <2>5, <2>6, <2>7, <1>4, ZenonT(60), ZenonT(90)
<1>6. CASE UNCHANGED vars
    <2>1. UNCHANGED <<pollfds_, channels_, index_, events_, closed, bare>> /\ fail' = fail
        BY <1>6 DEF vars
    <2>2. TypeOK' /\ NoAssertFails'
        BY <2>1, <1>t, ZenonT(60), ZenonT(90) DEF IInv, TypeOK, NoAssertFails, Registered
    <2>. QED BY <2>1, <2>2, <1>4, ZenonT(60), ZenonT(90)
<1>. QED
    BY <1>1, <1>2, <1>3, <1>5, <1>6, ZenonT(60), ZenonT(90) DEF Next

\* What poll() is asked for are the events of the channels.
LEMMA InterestIsEvents == IInv => Interest = events_
<1>. SUFFICES ASSUME IInv PROVE Interest = events_
    BY SMTT(60), Z3T(60)
<1>1. ASSUME NEW c \in Channels PROVE Interest[c] = events_[c]
    <2>1. CASE c \notin Registered
        BY <2>1 DEF Interest, IInv, MapAgrees
    <2>2. CASE c \in Registered
        <3>. DEFINE p == pollfds_[index_[c] + 1]
        <3>1. p = PollFd(IF events_[c] = {} /\ c \notin bare THEN Ignored(Fd(c)) ELSE Fd(c),
                         events_[c])
            BY <2>2, SMTT(60), Z3T(60) DEF IInv, IndexesAgree
        <3>2. Fd(c) \in Nat
            BY ChannelFacts, SMTT(60), Z3T(60)
        <3>3. p.events = events_[c] /\ (p.fd >= 0 \/ events_[c] = {})
            BY <3>1, <3>2, SMTT(60), Z3T(60) DEF PollFd
        <3>. QED BY <3>3, <2>2, ZenonT(60), ZenonT(90) DEF Interest
    <2>. QED BY <2>1, <2>2, SMTT(60), Z3T(60)
<1>2. Interest = [c \in Channels |-> Interest[c]] /\ events_ = [c \in Channels |-> events_[c]]
    BY SMTT(60), Z3T(60) DEF Interest, IInv, TypeOK
<1>. QED BY <1>1, <1>2, SMTT(60), Z3T(60)

\* The set of registered channels after the map has changed for one descriptor.
LEMMA RegisteredChanges ==
    ASSUME TypeOK, NEW c \in Channels, NEW x \in {c, None}, channels_[Fd(c)] \in {None, c},
           channels_' = [channels_ EXCEPT ![Fd(c)] = x]
    PROVE  Registered' = IF x = c THEN Registered \cup {c} ELSE Registered \ {c}
<1>1. Fd(c) \in Fds /\ c # None
    BY ChannelFacts, SMTT(60), Z3T(60)
<1>2. channels_'[Fd(c)] = x /\ \A fd \in Fds : fd # Fd(c) => channels_'[fd] = channels_[fd]
    BY <1>1, SMTT(60), Z3T(60) DEF TypeOK
<1>3. ASSUME NEW d \in Channels, d # c
      PROVE  d \in Registered' <=> d \in Registered
    <2>1. CASE Fd(d) = Fd(c)
        BY <2>1, <1>2, <1>3, ChannelFacts, SMTT(60), Z3T(60) DEF Registered
    <2>2. CASE Fd(d) # Fd(c)
        BY <2>2, <1>2, ChannelFacts, SMTT(60), Z3T(60) DEF Registered
    <2>. QED BY <2>1, <2>2, SMTT(60), Z3T(60)
<1>4. c \in Registered' <=> x = c
    BY <1>1, <1>2, SMTT(60), Z3T(60) DEF Registered
<1>. QED BY <1>3, <1>4, SMTT(60), Z3T(60) DEF Registered

\* A step of PollPoller is a step of the abstract poller.
LEMMA PollerStep ==
    IInv /\ IInv' /\ [Next]_vars => [P!Next]_<<Registered, events_, Interest>>
<1>p. IInv' => (Interest = events_)'
    BY InterestIsEvents, PTL
<1>. SUFFICES ASSUME IInv, IInv', [Next]_vars PROVE [P!Next]_<<Registered, events_, Interest>>
    OBVIOUS
<1>i. Interest = events_ /\ Interest' = events_'
    BY <1>p, InterestIsEvents, SMTT(60), Z3T(60)
<1>t. TypeOK
    BY SMTT(60), Z3T(60) DEF IInv
<1>1. ASSUME NEW c \in Channels, NEW evs \in SUBSET Events, AddChannel(c, evs)
      PROVE  P!Next
    <2>1. Registered' = Registered \cup {c}
        BY <1>1, <1>t, RegisteredChanges, ZenonT(60), ZenonT(90) DEF AddChannel, Usable
    <2>2. P!UpdateChannel(c, evs)
        BY <2>1, <1>1, <1>i, SMTT(60), Z3T(60) DEF P!UpdateChannel, AddChannel
    <2>. QED BY <2>2 DEF P!Next
<1>2. ASSUME NEW c \in Channels, NEW evs \in SUBSET Events, UpdateChannel(c, evs)
      PROVE  P!Next
    <2>1. c \in Registered
        BY <1>2, ZenonT(60), ZenonT(90) DEF UpdateChannel, Usable, IInv, MapAgrees
    <2>2. Registered' = Registered /\ events_' = [events_ EXCEPT ![c] = evs]
        BY <1>2, SMTT(60), Z3T(60) DEF UpdateChannel, Registered
    <2>3. P!UpdateChannel(c, evs)
        BY <2>1, <2>2, <1>i, SMTT(60), Z3T(60) DEF P!UpdateChannel
    <2>. QED BY <2>3, SMTT(60), Z3T(60) DEF P!Next
<1>3. ASSUME NEW c \in Channels, RemoveChannel(c), fail' = None
      PROVE  P!Next
    <2>1. c \in Registered /\ events_[c] = {} /\ events_' = events_
        BY <1>3, ZenonT(60), ZenonT(90) DEF RemoveChannel, Usable, IInv, MapAgrees
    <2>2. c # None
        BY ChannelFacts, SMTT(60), Z3T(60)
    <2>3. channels_' = [channels_ EXCEPT ![Fd(c)] = None]
        BY <1>3, <2>2, ZenonT(60), ZenonT(90) DEF RemoveChannel
    <2>4. Registered' = Registered \ {c}
        BY <2>2, <2>3, <1>3, <1>t, RegisteredChanges, ZenonT(60), ZenonT(90)
        DEF RemoveChannel, Usable
    <2>5. P!RemoveChannel(c)
        BY <2>1, <2>4, <1>i, SMTT(60), Z3T(60) DEF P!RemoveChannel
    <2>. QED BY <2>5, SMTT(60), Z3T(60) DEF P!Next
<1>4. ASSUME UNCHANGED <<channels_, events_>>
      PROVE  UNCHANGED <<Registered, events_, Interest>>
    <2>1. Registered' = Registered
        BY <1>4, SMTT(60), Z3T(60) DEF Registered
    <2>. QED BY <2>1, <1>4, <1>i, SMTT(60), Z3T(60)
<1>5. ASSUME NEW c \in Channels, RemoveChannel(c), fail' # None
      PROVE  UNCHANGED <<channels_, events_>>
    BY <1>5, ZenonT(60), ZenonT(90) DEF RemoveChannel
<1>6. CASE UNCHANGED vars
    BY <1>4, <1>6, ZenonT(60), ZenonT(90) DEF vars
<1>. QED BY <1>1, <1>2, <1>3, <1>4, <1>5, <1>6, ZenonT(60), ZenonT(90) DEF Next

-----------------------------------------------------------------------------
\* The EPollPoller.

\* The EPollPoller's channels are the PollPoller's.
LEMMA EPollChannels ==
    /\ E!Channels = Channels /\ E!Fds = Fds /\ E!None = None
    /\ \A c \in Channels : E!Fd(c) = Fd(c) /\ Fd(c) \in Fds /\ c # None
    BY PollAssumption DEF E!Channels, E!Fds, E!None, E!Fd, Channels, Fds, Fd, None

\* A new EPollPoller has nothing registered.
LEMMA EPollInitIInv == E!Init => E!IInv
  <1> SUFFICES ASSUME E!Init PROVE E!IInv
    OBVIOUS
  <1>1. E!TypeOK
    BY EPollChannels, SizeAssumption, SMTT(60), Z3T(60) DEF E!Init, E!TypeOK, E!NoEntry, E!None
  <1>2. E!KernelAgrees
    <2>1. E!Registered = {}
      BY EPollChannels DEF E!Init, E!Registered
    <2>2. ~eFail
      BY ZenonT(60), ZenonT(90) DEF E!Init
    <2>3. QED
      BY <2>1, <2>2, SMTT(60), Z3T(60) DEF E!Init, E!KernelAgrees
  <1>3. QED
    BY <1>1, <1>2, SMTT(60), Z3T(60) DEF E!IInv


\* Every call of a channel, every epoll_wait and every descriptor that is closed
\* preserves it.
LEMMA EPollNextIInv == E!IInv /\ [E!Next]_(E!vars) => E!IInv'
  <1> SUFFICES ASSUME E!IInv, [E!Next]_(E!vars) PROVE E!IInv'
    OBVIOUS
  <1> USE EPollChannels DEF E!IInv, E!TypeOK, E!KernelAgrees, E!Registered
  <1>1. ASSUME NEW c \in Channels, NEW evs \in SUBSET Events, E!AddChannel(c, evs)
        PROVE  E!IInv'
    <2>1. /\ c \notin eClosed /\ ~eFail
          /\ eChannels[Fd(c)] = IF eIndex[c] = "kNew" THEN None ELSE c
          /\ epoll[Fd(c)] = E!NoEntry
      BY <1>1, ZenonT(60), ZenonT(90) DEF E!AddChannel, E!Usable
    <2>2. /\ eChannels' = [eChannels EXCEPT ![Fd(c)] = c]
          /\ eIndex' = [eIndex EXCEPT ![c] = "kAdded"]
          /\ eEvents' = [eEvents EXCEPT ![c] = evs]
          /\ epoll' = [epoll EXCEPT ![Fd(c)] = E!Entry(c, evs)]
          /\ UNCHANGED <<size, eClosed, active, eFail>>
      BY <1>1, <2>1, ZenonT(60), ZenonT(90) DEF E!AddChannel, E!CtlAdd
    <2>3. E!TypeOK'
      BY <2>2, ZenonT(60), ZenonT(90) DEF E!Entry
    <2>4. E!KernelAgrees'
      BY <2>1, <2>2, SMTT(60), Z3T(60) DEF E!Entry
    <2>5. QED
      BY <2>3, <2>4, ZenonT(60), ZenonT(90)
  <1>2. ASSUME NEW c \in Channels, NEW evs \in SUBSET Events, E!UpdateChannel(c, evs)
        PROVE  E!IInv'
    <2>1. /\ eChannels[Fd(c)] = c /\ ~eFail
          /\ epoll[Fd(c)] # E!NoEntry
      BY <1>2, SMTT(60), Z3T(60) DEF E!UpdateChannel, E!Entry, E!NoEntry
    <2>2. CASE evs = {}
      <3>1. /\ eIndex' = [eIndex EXCEPT ![c] = "kDeleted"]
            /\ eEvents' = [eEvents EXCEPT ![c] = {}]
            /\ epoll' = [epoll EXCEPT ![Fd(c)] = E!NoEntry]
            /\ UNCHANGED <<eChannels, size, eClosed, active, eFail>>
        BY <1>2, <2>1, <2>2, ZenonT(60), ZenonT(90) DEF E!UpdateChannel, E!CtlDel
      <3>2. E!TypeOK'
        BY <3>1, ZenonT(60), ZenonT(90) DEF E!NoEntry
      <3>3. E!KernelAgrees'
        BY <2>1, <3>1, SMTT(60), Z3T(60)
      <3>4. QED
        BY <3>2, <3>3, SMTT(60), Z3T(60)
    <2>3. CASE evs # {}
      <3>1. /\ eEvents' = [eEvents EXCEPT ![c] = evs]
            /\ epoll' = [epoll EXCEPT ![Fd(c)] = E!Entry(c, evs)]
            /\ UNCHANGED <<eIndex, eChannels, size, eClosed, active, eFail>>
        BY <1>2, <2>1, <2>3, ZenonT(60), ZenonT(90) DEF E!UpdateChannel, E!CtlMod
      <3>2. E!TypeOK'
        BY <3>1, SMTT(60), Z3T(60) DEF E!Entry
      <3>3. E!KernelAgrees'
        BY <1>2, <2>1, <3>1, SMTT(60), Z3T(60) DEF E!UpdateChannel
      <3>4. QED
        BY <3>2, <3>3
    <2>4. QED
      BY <2>2, <2>3, ZenonT(60), ZenonT(90)
  <1>3. ASSUME NEW c \in Channels, E!RemoveChannel(c)
        PROVE  E!IInv'
    <2>1. /\ eChannels[Fd(c)] = c /\ ~eFail /\ eEvents[c] = {}
          /\ eIndex[c] # "kAdded" => epoll[Fd(c)] = E!NoEntry
      BY <1>3, ZenonT(60), ZenonT(90) DEF E!RemoveChannel
    <2>2. /\ eChannels' = [eChannels EXCEPT ![Fd(c)] = None]
          /\ eIndex' = [eIndex EXCEPT ![c] = "kNew"]
          /\ epoll' = [epoll EXCEPT ![Fd(c)] = E!NoEntry]
          /\ UNCHANGED <<eEvents, size, eClosed, active, eFail>>
      BY <1>3, <2>1, SMTT(60), Z3T(60) DEF E!RemoveChannel, E!CtlDel
    <2>3. E!TypeOK'
      BY <2>2, ZenonT(60), ZenonT(90) DEF E!NoEntry
    <2>4. E!KernelAgrees'
      BY <2>1, <2>2, SMTT(60), Z3T(60)
    <2>5. QED
      BY <2>3, <2>4, ZenonT(60), ZenonT(90)
  <1>4. ASSUME NEW c \in Channels, E!CloseFd(c)
        PROVE  E!IInv'
    BY <1>4 DEF E!CloseFd
  <1>5. ASSUME NEW c \in Channels, E!HandleEvent(c)
        PROVE  E!IInv'
    BY <1>5, ZenonT(60), ZenonT(90) DEF E!HandleEvent
  <1>6. ASSUME NEW ready \in SUBSET Fds, E!Poll(ready)
        PROVE  E!IInv'
    <2>1. ASSUME NEW fd \in ready
          PROVE  epoll[fd].ptr \in Channels /\ eChannels[Fd(epoll[fd].ptr)] = epoll[fd].ptr
      BY <1>6, SMTT(60), Z3T(60) DEF E!Poll, E!Entry
    <2>2. ~eFail' /\ active' \subseteq Channels /\ size' \in Nat
      BY <1>6, <2>1 DEF E!Poll
    <2>3. QED
      BY <1>6, <2>2, ZenonT(60), ZenonT(90) DEF E!Poll
  <1>7. CASE UNCHANGED E!vars
    BY <1>7, ZenonT(60), ZenonT(90) DEF E!vars
  <1>8. QED
    BY <1>1, <1>2, <1>3, <1>4, <1>5, <1>6, <1>7, ZenonT(60), ZenonT(90) DEF E!Next

\* What the kernel watches for a channel are the events that it has enabled.
LEMMA WatchedIsEvents == E!IInv => E!Watched = eEvents
  <1> SUFFICES ASSUME E!IInv PROVE E!Watched = eEvents
    OBVIOUS
  <1> USE EPollChannels DEF E!IInv, E!TypeOK, E!KernelAgrees, E!Registered
  <1>1. ASSUME NEW c \in Channels
        PROVE  (IF epoll[Fd(c)].ptr = c THEN epoll[Fd(c)].events ELSE {}) = eEvents[c]
    <2>1. CASE eIndex[c] = "kAdded"
      BY <2>1, SMTT(60), Z3T(60) DEF E!Entry
    <2>2. CASE eIndex[c] # "kAdded"
      BY <2>2, SMTT(60), Z3T(60) DEF E!Entry, E!NoEntry
    <2>3. QED
      BY <2>1, <2>2, ZenonT(60), ZenonT(90)
  <1>2. QED
    BY <1>1, SMTT(60), Z3T(60) DEF E!Watched

\* A step of EPollPoller is a step of the abstract poller.
LEMMA EPollStepIsPollerStep ==
    E!IInv /\ E!IInv' /\ [E!Next]_(E!vars) => [E!P!Next]_<<E!Registered, eEvents, E!Watched>>
  <1>1. E!IInv' => (E!Watched = eEvents)'
    BY WatchedIsEvents, PTL
  <1> SUFFICES ASSUME E!IInv, E!IInv', [E!Next]_(E!vars)
               PROVE  [E!P!Next]_<<E!Registered, eEvents, E!Watched>>
    OBVIOUS
  <1>2. E!Watched = eEvents /\ E!Watched' = eEvents'
    BY <1>1, WatchedIsEvents
  <1>3. /\ eChannels \in [Fds -> Channels \cup {None}]
        /\ eIndex \in [Channels -> {"kNew", "kAdded", "kDeleted"}]
        /\ E!Registered = {c \in Channels : eChannels[Fd(c)] = c}
        /\ E!Registered' = {c \in Channels : eChannels'[Fd(c)] = c}
        /\ \A c \in Channels : eIndex[c] # "kNew" <=> eChannels[Fd(c)] = c
        /\ eFail' = FALSE
    BY EPollChannels DEF E!IInv, E!TypeOK, E!KernelAgrees, E!Registered
  <1>4. ASSUME NEW c \in Channels, NEW evs \in SUBSET Events, E!AddChannel(c, evs)
        PROVE  E!P!Next
    <2>1. E!Registered' = E!Registered \cup {c}
      BY <1>3, <1>4, EPollChannels, SMTT(60), Z3T(60) DEF E!AddChannel, E!Usable
    <2>2. eEvents' = [eEvents EXCEPT ![c] = evs]
      BY <1>4, SMTT(60), Z3T(60) DEF E!AddChannel
    <2>3. QED
      BY <1>2, <2>1, <2>2, EPollChannels, ZenonT(60), ZenonT(90) DEF E!P!Next, E!P!UpdateChannel
  <1>5. ASSUME NEW c \in Channels, NEW evs \in SUBSET Events, E!UpdateChannel(c, evs)
        PROVE  E!P!Next
    <2>1. E!Registered' = E!Registered \cup {c}
      BY <1>3, <1>5, EPollChannels, SMTT(60), Z3T(60) DEF E!UpdateChannel
    <2>2. eEvents' = [eEvents EXCEPT ![c] = evs]
      BY <1>5, SMTT(60), Z3T(60) DEF E!UpdateChannel
    <2>3. QED
      BY <1>2, <2>1, <2>2, EPollChannels, Zenon DEF E!P!Next, E!P!UpdateChannel
  <1>6. ASSUME NEW c \in Channels, E!RemoveChannel(c)
        PROVE  E!P!Next
    <2>1. c \in E!Registered /\ E!Registered' = E!Registered \ {c}
      BY <1>3, <1>6, EPollChannels, SMTT(60), Z3T(60) DEF E!RemoveChannel
    <2>2. eEvents[c] = {} /\ eEvents' = eEvents
      BY <1>6 DEF E!RemoveChannel
    <2>3. QED
      BY <1>2, <2>1, <2>2, EPollChannels, SMTT(60), Z3T(60) DEF E!P!Next, E!P!RemoveChannel
  <1>7. ASSUME UNCHANGED <<eChannels, eEvents>>
        PROVE  UNCHANGED <<E!Registered, eEvents, E!Watched>>
    BY <1>2, <1>3, <1>7, Zenon
  <1>8. ASSUME NEW c \in Channels, E!CloseFd(c) \/ E!HandleEvent(c)
        PROVE  UNCHANGED <<eChannels, eEvents>>
    BY <1>8, ZenonT(60), ZenonT(90) DEF E!CloseFd, E!HandleEvent
  <1>9. ASSUME NEW ready \in SUBSET Fds, E!Poll(ready)
        PROVE  UNCHANGED <<eChannels, eEvents>>
    BY <1>9, SMTT(60), Z3T(60) DEF E!Poll
  <1>10. CASE UNCHANGED E!vars
    BY <1>7, <1>10, ZenonT(60), ZenonT(90) DEF E!vars
  <1>11. QED
    BY <1>4, <1>5, <1>6, <1>7, <1>8, <1>9, <1>10, EPollChannels, ZenonT(60), ZenonT(90) DEF E!Next

-----------------------------------------------------------------------------
\* The poller that newDefaultPoller returns.

\* Each of the two takes its own steps, or stands still.
LEMMA EachPollerAlone ==
    [DefaultNext]_<<usePoll, vars, eVars>> => [Next]_vars /\ [E!Next]_(E!vars)
  <1>1. eVars = E!vars /\ eVars' = E!vars'
    BY DEF eVars, E!vars
  <1>2. QED
    BY <1>1, ZenonT(60), ZenonT(90) DEF DefaultNext, PollPollerStep, EPollPollerStep

\* The pollfds, the indexes and the map of a PollPoller agree for any descriptors and
\* any order of updates and removals, and an assert of PollPoller.cpp fails only when a
\* channel is removed that has never enabled an event.
THEOREM PollfdsConsistent == DefaultSpec => []IInv
  <1>1. NewDefaultPoller => IInv
    BY InitIInv DEF NewDefaultPoller
  <1>2. IInv /\ [DefaultNext]_<<usePoll, vars, eVars>> => IInv'
    BY EachPollerAlone, NextIInv, ZenonT(60), ZenonT(90)
  <1>3. QED
    BY <1>1, <1>2, PTL DEF DefaultSpec

\* PollPoller implements the abstract poller: after every call poll() is asked for
\* exactly the events that each channel has enabled.
THEOREM PollPollerImplementsPoller == DefaultSpec => PollsWhatChannelsAsk
  <1>1. NewDefaultPoller => P!Init
    <2> SUFFICES ASSUME NewDefaultPoller PROVE P!Init
      OBVIOUS
    <2>1. Registered = {}
      BY ChannelFacts DEF NewDefaultPoller, Init, Registered
    <2>2. Interest = events_
      BY InitIInv, InterestIsEvents, SMTT(60), Z3T(60) DEF NewDefaultPoller
    <2>3. QED
      BY <2>1, <2>2, SMTT(60), Z3T(60) DEF NewDefaultPoller, Init, P!Init
  <1>2. IInv /\ IInv' /\ [DefaultNext]_<<usePoll, vars, eVars>>
            => [P!Next]_<<Registered, events_, Interest>>
    BY EachPollerAlone, PollerStep, ZenonT(60), ZenonT(90)
  <1>3. QED
    BY <1>1, <1>2, PollfdsConsistent, PTL DEF DefaultSpec, PollsWhatChannelsAsk, P!Spec

\* The EPollPoller's map, channel states and interest list always agree, for any
\* number of descriptors and of channels on them, channels without events included.
THEOREM InterestListConsistent == DefaultSpec => []EPollAgrees
  <1>1. NewDefaultPoller => E!IInv
    BY EPollInitIInv, SMTT(60), Z3T(60) DEF NewDefaultPoller
  <1>2. E!IInv /\ [DefaultNext]_<<usePoll, vars, eVars>> => E!IInv'
    BY EachPollerAlone, EPollNextIInv, ZenonT(60), ZenonT(90)
  <1>3. QED
    BY <1>1, <1>2, PTL DEF DefaultSpec, EPollAgrees

\* EPollPoller implements the same abstract poller: after every call the kernel
\* watches exactly the events that each channel has enabled.
THEOREM EPollPollerImplementsPoller == DefaultSpec => EPollWatchesWhatChannelsAsk
  <1>1. NewDefaultPoller => E!P!Init
    <2> SUFFICES ASSUME NewDefaultPoller PROVE E!P!Init
      BY SMTT(60), Z3T(60)
    <2>1. E!Registered = {}
      BY EPollChannels DEF NewDefaultPoller, E!Init, E!Registered
    <2>2. E!Watched = eEvents
      BY EPollInitIInv, WatchedIsEvents, SMTT(60), Z3T(60) DEF NewDefaultPoller
    <2>3. eEvents = [c \in E!Channels |-> {}]
      BY ZenonT(60), ZenonT(90) DEF NewDefaultPoller, E!Init
    <2>4. QED
      BY <2>1, <2>2, <2>3, ZenonT(60), ZenonT(90) DEF E!P!Init
  <1>2. E!IInv /\ E!IInv' /\ [DefaultNext]_<<usePoll, vars, eVars>>
            => [E!P!Next]_<<E!Registered, eEvents, E!Watched>>
    BY EachPollerAlone, EPollStepIsPollerStep, ZenonT(60), ZenonT(90)
  <1>3. QED
    BY <1>1, <1>2, InterestListConsistent, PTL
    DEF DefaultSpec, EPollAgrees, EPollWatchesWhatChannelsAsk, E!WatchesWhatChannelsAsk, E!P!Spec
=============================================================================
