---------------------------- MODULE MCSchedules -----------------------------
(***************************************************************************)
(* Instances of Schedules for TLC: a calendar of two minutes an hour, two  *)
(* hours a day, and a zone whose clock repeats an hour.                    *)
(***************************************************************************)
EXTENDS Schedules

\* The zone "west" goes back by one hour at minute 3.
MCLocal(zone, m) ==
  LET l == IF zone = "west" /\ m >= 3 THEN m - 2 ELSE m IN
  [minute |-> l % 2, hour |-> (l \div 2) % 2, day |-> 1 + ((l \div 4) % 2),
   month |-> 1 + ((l \div 8) % 2), weekday |-> (l \div 4) % 7]

All(minimum, maximum) == {Item(minimum, maximum, 1)}

\* "* * * * *"
EveryMinute ==
  [minute |-> Field(All(0, 1), TRUE), hour |-> Field(All(0, 1), TRUE),
   month |-> Field(All(1, 2), TRUE), day_of_month |-> Field(All(1, 2), TRUE),
   day_of_week |-> Weekdays(All(0, 7), TRUE)]

\* "1 0 2 * 7": the last minute of the first hour, on second days and on
\* Sundays; in "west" that is minute 1 and, the hour repeated, minute 3.
Daily ==
  [EveryMinute EXCEPT !.minute = Field({Item(1, 1, 1)}, FALSE),
     !.hour = Field({Item(0, 0, 1)}, FALSE),
     !.day_of_month = Field({Item(2, 2, 1)}, FALSE),
     !.day_of_week = Weekdays({Item(7, 7, 1)}, FALSE)]

ASSUME FieldsAccepted ==
  /\ \A i \in All(0, 1) : Accepted(i, 0, 1)
  /\ Accepted(Item(7, 7, 1), 0, 7)

MCExpression == [s \in Ids |-> IF s = 1 THEN EveryMinute ELSE Daily]
MCZone == [s \in Ids |-> IF s = 1 THEN "utc" ELSE "west"]
MCPolicy == [s \in Ids |-> IF s = 1 THEN "buffer_one" ELSE "skip"]

=============================================================================
