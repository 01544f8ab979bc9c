----------------------------- MODULE MCExchange -----------------------------
(***************************************************************************)
(* Instance of Exchange for TLC.                                           *)
(***************************************************************************)
EXTENDS Exchange, TLC

CONSTANTS h1, t1, k1

OneThread == t1 :> h1

\* No time, a leap day west of Greenwich, and a New Year east of it.
MCStamps ==
    {NoStamp,
     Stamp(<<2028, 2, 29>>, <<23, 45, 0>>, Offset(-1, 3, 30)),
     Stamp(<<2027, 1, 1>>, <<0, 15, 7>>, Offset(1, 2, 0))}

-----------------------------------------------------------------------------
(***************************************************************************)
(* The calendar's closed form against a calendar that is counted day by    *)
(* day, over the years a licence can speak of.                             *)
(***************************************************************************)
Years == 1970 .. 2100

DaysOfYear == [y \in Years |-> IF Leap(y) THEN 366 ELSE 365]
FirstDay[y \in Years] ==
    IF y = 1970 THEN 0 ELSE FirstDay[y - 1] + DaysOfYear[y - 1]
FirstOfMonth(y) ==
    LET first[m \in 1 .. 12] ==
            IF m = 1 THEN FirstDay[y] ELSE first[m - 1] + DaysInMonth(y, m - 1)
    IN  first

ASSUME CalendarAssumption ==
    \A y \in Years, m \in 1 .. 12 :
        \A d \in 1 .. DaysInMonth(y, m) :
            /\ DaysFromCivil(y, m, d) = FirstOfMonth(y)[m] + d - 1
            /\ DayNumber(y, m, d) = FirstOfMonth(y)[m] + d - 1
=============================================================================
