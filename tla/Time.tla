-------------------------------- MODULE Time --------------------------------
(***************************************************************************)
(* base/time: Date.cpp, TimeZone.cpp and Timestamp.cpp, and the time stamp *)
(* of a log line (Logger::Impl::formatTime).  The conversions are pure     *)
(* functions of integers; a struct tm is the record of its fields.         *)
(***************************************************************************)
EXTENDS Integers, Sequences

\* Division and remainder of C++, which truncate towards zero; b > 0.
Quot(a, b) == IF a >= 0 THEN a \div b ELSE -((-a) \div b)
Rem(a, b) == a - b * Quot(a, b)

-----------------------------------------------------------------------------
\* Date.

\* Dates of years from -4800 on: no operand of a division is negative.
GetJulianDayNumber(year, month, day) ==
    LET a == (14 - month) \div 12
        y == year + 4800 - a
        m == month + 12 * a - 3
    IN day + ((153 * m + 2) \div 5) + y * 365 + (y \div 4) - (y \div 100) + (y \div 400) - 32045

\* The date of day c of century b, counted from 1 March -4800.
DateInCentury(b, c) ==
    LET d == (4 * c + 3) \div 1461
        e == c - ((1461 * d) \div 4)
        m == (5 * e + 2) \div 153
    IN [year |-> b * 100 + d - 4800 + (m \div 10),
        month |-> m + 3 - 12 * (m \div 10),
        day |-> e - ((153 * m + 2) \div 5) + 1]

GetYearMonthDay(julianDayNumber) ==
    LET a == julianDayNumber + 32044
        b == (4 * a + 3) \div 146097
    IN DateInCentury(b, a - ((b * 146097) \div 4))

kJulianDayOf1970_01_01 == GetJulianDayNumber(1970, 1, 1)

WeekDay(julianDayNumber) == (julianDayNumber + 1) % 7

\* The Gregorian calendar, as a reference.
IsLeap(year) == year % 4 = 0 /\ (year % 100 # 0 \/ year % 400 = 0)
DaysIn(year, month) ==
    IF month = 2 THEN (IF IsLeap(year) THEN 29 ELSE 28)
    ELSE IF month \in {4, 6, 9, 11} THEN 30 ELSE 31
IsDate(year, month, day) ==
    /\ year \in Int /\ year >= -4800
    /\ month \in 1..12 /\ day \in 1..DaysIn(year, month)

-----------------------------------------------------------------------------
\* TimeZone.

kSecondsPerDay == 86400

\* A Date of a struct tm.
DayOfTm(tm) == GetJulianDayNumber(tm.tm_year + 1900, tm.tm_mon + 1, tm.tm_mday)

\* toUtcTime, with yday; also what gmtime_r computes.
ToUtcTime(secondsSinceEpoch) ==
    LET r == Rem(secondsSinceEpoch, kSecondsPerDay)
        q == Quot(secondsSinceEpoch, kSecondsPerDay)
        seconds == IF r < 0 THEN r + kSecondsPerDay ELSE r
        days == IF r < 0 THEN q - 1 ELSE q
        date == days + kJulianDayOf1970_01_01
        ymd == GetYearMonthDay(date)
    IN [tm_year |-> ymd.year - 1900, tm_mon |-> ymd.month - 1, tm_mday |-> ymd.day,
        tm_hour |-> (seconds \div 60) \div 60, tm_min |-> (seconds \div 60) % 60,
        tm_sec |-> seconds % 60,
        tm_wday |-> WeekDay(date),
        tm_yday |-> date - GetJulianDayNumber(ymd.year, 1, 1)]

\* fromUtcTime; also what timegm computes.
FromUtcTime(tm) ==
    (DayOfTm(tm) - kJulianDayOf1970_01_01) * kSecondsPerDay
        + tm.tm_hour * 3600 + tm.tm_min * 60 + tm.tm_sec

\* std::lower_bound: p is the first transition that is not before t, or one past the
\* last.  Of a transition the times are its "gmt" and its "local".
LowerBound(transitions, key, t, p) ==
    /\ p \in 1..(Len(transitions) + 1)
    /\ \A i \in 1..(p - 1) : transitions[i][key] < t
    /\ p <= Len(transitions) => ~(transitions[p][key] < t)

\* findLocaltime, with p the result of lower_bound.
FindLocaltime(data, key, t, p) ==
    LET trans == data.transitions IN
    IF trans = << >> \/ t < trans[1][key] THEN data.localtimes[1]
    ELSE IF p = Len(trans) + 1 THEN data.localtimes[trans[Len(trans)].idx]
    ELSE IF t = trans[p][key] THEN data.localtimes[trans[p].idx]
    ELSE data.localtimes[trans[p - 1].idx]

ToLocalTime(data, seconds, p) ==
    LET local == FindLocaltime(data, "gmt", seconds, p) IN
    [utc |-> ToUtcTime(seconds + local.gmtOffset), isdst |-> local.isDst]

\* fromLocalTime, with p and q the results of the two calls of lower_bound.
FromLocalTime(data, tm, p, q) ==
    LET seconds == FromUtcTime(tm.utc)
        local == FindLocaltime(data, "local", seconds, p)
        try == ToLocalTime(data, seconds - local.gmtOffset, q)
        early == /\ tm.isdst # 0 /\ try.isdst = 0
                 /\ try.utc.tm_hour = tm.utc.tm_hour /\ try.utc.tm_min = tm.utc.tm_min
    IN (IF early THEN seconds - 3600 ELSE seconds) - local.gmtOffset

\* readTimeZoneFile: "file" is the file's transition times, the index of the Localtime
\* of each and the Localtimes, of which "read" could be read.  A file that is missing,
\* short or of another kind leaves what was read up to there; the function returns
\* true all the same.
ReadTimeZoneFile(file, read) ==
    [localtimes |-> SubSeq(file.localtimes, 1, read),
     transitions |->
        IF read < Len(file.localtimes) THEN << >>
        ELSE [i \in 1..Len(file.trans) |->
                [gmt |-> file.trans[i],
                 local |-> file.trans[i] + file.localtimes[file.idx[i]].gmtOffset,
                 idx |-> file.idx[i]]]]

\* TimeZone(int eastOfUtc, const char* name).
FixedZone(eastOfUtc) ==
    [transitions |-> << >>, localtimes |-> << [gmtOffset |-> eastOfUtc, isDst |-> 0] >>]

-----------------------------------------------------------------------------
\* Timestamp and Logger.

kMicroSecondsPerSecond == 1000000

\* The two numbers that toString and formatTime print.
SplitSeconds(microSecondsSinceEpoch) ==
    [seconds |-> Quot(microSecondsSinceEpoch, kMicroSecondsPerSecond),
     microseconds |-> Rem(microSecondsSinceEpoch, kMicroSecondsPerSecond)]

\* The characters of a second: the time in UTC, its hours moved by timeZone_.  No
\* program of the repository sets g_logTimeZone.
StampOf(seconds, timeZone_) == [ToUtcTime(seconds) EXCEPT !.tm_hour = @ + timeZone_]

\* assert(len == 17): no field is wider than "%4d%02d%02d %02d:%02d:%02d" makes it at
\* least, a minus sign included.
FillsTwo(v) == v >= -9 /\ v <= 99
HasSeventeenCharacters(tm) ==
    /\ tm.tm_year + 1900 >= -999 /\ tm.tm_year + 1900 <= 9999
    /\ FillsTwo(tm.tm_mon + 1) /\ FillsTwo(tm.tm_mday)
    /\ FillsTwo(tm.tm_hour) /\ FillsTwo(tm.tm_min) /\ FillsTwo(tm.tm_sec)

\* The assertion on the length of "%06d".
HasSixCharacters(microseconds) == microseconds >= -99999 /\ microseconds <= 999999

\* What a thread that has logged nothing keeps: t_lastSecond and t_time are zero.
NothingLogged == [t_lastSecond |-> 0, t_time |-> << >>]

\* formatTime: a thread keeps the characters of the last second it logged in.  The
\* process goes on when both assertions hold.
FormatTime(last, microSecondsSinceEpoch, timeZone_) ==
    LET t == SplitSeconds(microSecondsSinceEpoch)
        fresh == t.seconds # last.t_lastSecond
        now == IF fresh
               THEN [t_lastSecond |-> t.seconds, t_time |-> StampOf(t.seconds, timeZone_)]
               ELSE last
    IN [last |-> now, tm |-> now.t_time, microseconds |-> t.microseconds,
        asserted |-> /\ fresh => HasSeventeenCharacters(now.t_time)
                     /\ HasSixCharacters(t.microseconds)]
=============================================================================
