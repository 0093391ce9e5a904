------------------------------ MODULE ObjectAge ------------------------------
(***************************************************************************)
(* How the S3 store decides that an object is past the grace period: it    *)
(* turns the LastModified text of a listing into days and seconds since    *)
(* 1970 with arithmetic of its own. The behaviour is a calendar that walks *)
(* from 1970-01-01 day by day; the code must agree with it on every day.   *)
(*                                                                         *)
(* A duration since the epoch is a pair of days and seconds: the code has  *)
(* 64 bits for the product, TLC has 32.                                    *)
(***************************************************************************)
EXTENDS Integers

CONSTANTS LastYear,   \* bound on the walk
          Times,      \* times of day, in seconds, of a modification
          Gaps,       \* seconds from the modification to the sweep
          Grace       \* the grace period, in seconds

AgeAssumption ==
  /\ LastYear \in Nat /\ LastYear >= 1970
  /\ Times \subseteq 0..86399
  /\ Gaps \subseteq Int
  /\ Grace \in Nat

VARIABLES date,   \* [year, month, day]
          days    \* days since 1970-01-01

vars == <<date, days>>

-----------------------------------------------------------------------------
(* The calendar.                                                           *)

LeapYear(y) == y % 4 = 0 /\ (y % 100 # 0 \/ y % 400 = 0)

LastDay(y, m) ==
  IF m = 2 THEN IF LeapYear(y) THEN 29 ELSE 28
  ELSE IF m \in {4, 6, 9, 11} THEN 30 ELSE 31

Init ==
  /\ date = [year |-> 1970, month |-> 1, day |-> 1]
  /\ days = 0

NextDay ==
  /\ date.day < LastDay(date.year, date.month)
  /\ date' = [date EXCEPT !.day = @ + 1]
  /\ days' = days + 1

NextMonth ==
  /\ date.day = LastDay(date.year, date.month) /\ date.month < 12
  /\ date' = [date EXCEPT !.day = 1, !.month = @ + 1]
  /\ days' = days + 1

NextYear ==
  /\ date.day = 31 /\ date.month = 12 /\ date.year < LastYear
  /\ date' = [year |-> date.year + 1, month |-> 1, day |-> 1]
  /\ days' = days + 1

Next == NextDay \/ NextMonth \/ NextYear

Spec == Init /\ [][Next]_vars

-----------------------------------------------------------------------------
(* The code.                                                               *)

MONTH_DAYS == <<31, 28, 31, 30, 31, 30, 31, 31, 30, 31, 30, 31>>

MonthOffset[m \in 1..12] == IF m = 1 THEN 0 ELSE MonthOffset[m - 1] + MONTH_DAYS[m - 1]

\* Leap days before a year, from the year 1 on.
LeapDays(year) ==
  LET y == year - 1 IN (y \div 4) - (y \div 100) + (y \div 400)

IsLeap(year) == (year % 4 = 0 /\ year % 100 # 0) \/ year % 400 = 0

gregorian_days_since_epoch(year, month, day) ==
  (year - 1970) * 365 + (LeapDays(year) - LeapDays(1970))
    + MonthOffset[month] + (IF IsLeap(year) /\ month > 2 THEN 1 ELSE 0)
    + (day - 1)

\* parse_iso8601_to_epoch of a text in one of the shapes it handles, by its fields.
\* Days that the month does not have are let through.
Parses(ts) ==
  /\ ts.year >= 1970 /\ ts.month \in 1..12 /\ ts.day \in 1..31
  /\ ts.hour <= 23 /\ ts.minute <= 59 /\ ts.second <= 60

Epoch(ts) ==
  [days |-> gregorian_days_since_epoch(ts.year, ts.month, ts.day),
   secs |-> ts.hour * 3600 + ts.minute * 60 + ts.second]

\* saturating_sub.
Elapsed(now, then) ==
  LET gap == (now.days - then.days) * 86400 + (now.secs - then.secs)
  IN IF gap < 0 THEN 0 ELSE gap

object_is_older_than(ts, now, age) == Parses(ts) /\ Elapsed(now, Epoch(ts)) >= age

-----------------------------------------------------------------------------
(* Properties.                                                             *)

\* The code counts the days of every date as the calendar does, across months, leap
\* years and centuries.
DaysAgree == gregorian_days_since_epoch(date.year, date.month, date.day) = days

\* A modification at second t of the day, and the clock of the sweep gap seconds on.
Stamp(t) ==
  [year |-> date.year, month |-> date.month, day |-> date.day,
   hour |-> t \div 3600, minute |-> (t \div 60) % 60, second |-> t % 60]

Clock(t, gap) ==
  [days |-> days + ((t + gap) \div 86400), secs |-> (t + gap) % 86400]

\* An object is handed to the collector exactly when the grace period has passed
\* since its modification, over midnight and the end of a year as well; never when
\* the clock of the store is ahead of ours.
ListedWhenDue ==
  \A t \in Times, gap \in Gaps :
    object_is_older_than(Stamp(t), Clock(t, gap), Grace) <=> gap >= Grace
=============================================================================
