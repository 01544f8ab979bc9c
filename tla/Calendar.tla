------------------------------ MODULE Calendar ------------------------------
(***************************************************************************)
(* The times in the server's answers: days_from_civil and parse_time of    *)
(* http/client.c, and the calendar they have to agree with.                *)
(*                                                                         *)
(* A timestamp is a record of the numbers sscanf reads from it; NoStamp is *)
(* a timestamp that is missing or does not have that form.                 *)
(***************************************************************************)
EXTENDS Integers

\* Division in C truncates towards zero.
CDiv(a, b) == IF a >= 0 THEN a \div b ELSE -((-a) \div b)

\* The day number of day doy of the year that begins in March of year y.
DayOfEra(y, doy) ==
    LET era == CDiv(IF y >= 0 THEN y ELSE y - 399, 400)
        yoe == y - era * 400
        doe == yoe * 365 + yoe \div 4 - yoe \div 100 + doy
    IN  era * 146097 + doe - 719468

DayOfYear(m, d) == (153 * ((m + 9) % 12) + 2) \div 5 + d - 1

\* days_from_civil: the year begins in March, so that the leap day is its last.
DaysFromCivil(y, m, d) ==
    DayOfEra(IF m <= 2 THEN y - 1 ELSE y, DayOfYear(m, d))

UTC == [kind |-> "utc"]
Unreadable == [kind |-> "unreadable"]
NoStamp == [zone |-> Unreadable]
Offset(sign, h, m) == [kind |-> "offset", sign |-> sign, hours |-> h, minutes |-> m]
Stamp(date, time, zone) ==
    [year |-> date[1], month |-> date[2], day |-> date[3],
     hour |-> time[1], minute |-> time[2], second |-> time[3], zone |-> zone]

\* What a readable timestamp can be read as.
TimeStamps ==
    [year : Int, month : 1 .. 12, day : Int, hour : Int, minute : Int, second : Int,
     zone : {UTC} \cup [kind : {"offset"}, sign : {-1, 1}, hours : Int, minutes : Int]]

OffsetSeconds(zone) ==
    IF zone = UTC THEN 0 ELSE zone.sign * (zone.hours * 60 + zone.minutes) * 60

\* Mutant of ParseTime: the offset from UTC is added.
ParseTimeAddingOffset(s) ==
    IF s.zone = Unreadable THEN 0
    ELSE DaysFromCivil(s.year, s.month, s.day) * 86400
         + s.hour * 3600 + s.minute * 60 + s.second + OffsetSeconds(s.zone)

\* parse_time: Unix seconds, 0 when there is no timestamp or it is malformed.
ParseTime(s) ==
    IF s.zone = Unreadable THEN 0
    ELSE DaysFromCivil(s.year, s.month, s.day) * 86400
         + s.hour * 3600 + s.minute * 60 + s.second - OffsetSeconds(s.zone)

-----------------------------------------------------------------------------
(***************************************************************************)
(* The Gregorian calendar, as the reference.                               *)
(***************************************************************************)
Leap(y) == y % 4 = 0 /\ (y % 100 # 0 \/ y % 400 = 0)

\* Leap years in 1 .. y, and for y < 0 less those in y + 1 .. 0.
LeapsUpTo(y) == y \div 4 - y \div 100 + y \div 400

DaysBeforeMonth == <<0, 31, 59, 90, 120, 151, 181, 212, 243, 273, 304, 334>>

\* Days from 1 January 1970 to day d of month m of year y.
DayNumber(y, m, d) ==
    365 * (y - 1970) + LeapsUpTo(y - 1) - LeapsUpTo(1969)
    + DaysBeforeMonth[m] + (IF m > 2 /\ Leap(y) THEN 1 ELSE 0) + d - 1

DaysInMonth(y, m) ==
    CASE m \in {4, 6, 9, 11} -> 30
      [] m = 2               -> IF Leap(y) THEN 29 ELSE 28
      [] OTHER               -> 31

NextDay(y, m, d) ==
    IF d < DaysInMonth(y, m) THEN <<y, m, d + 1>>
    ELSE IF m < 12 THEN <<y, m + 1, 1>> ELSE <<y + 1, 1, 1>>

\* The instant a timestamp names: local time, ahead of UTC by its offset.
Instant(s) ==
    IF s = NoStamp THEN 0
    ELSE (DayNumber(s.year, s.month, s.day) * 24 + s.hour) * 3600 + s.minute * 60 + s.second
         - (IF s.zone = UTC THEN 0
            ELSE s.zone.sign * (s.zone.hours * 3600 + s.zone.minutes * 60))
=============================================================================
