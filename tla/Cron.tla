-------------------------------- MODULE Cron --------------------------------
(***************************************************************************)
(* Five-field cron expressions, engine/runtime/cron.py.  Time is counted   *)
(* in UTC minutes; what the clock of a time zone shows at a minute, gaps   *)
(* and repeated hours included, is the parameter Local.                    *)
(***************************************************************************)
EXTENDS Integers, FiniteSets

CONSTANTS
  Local(_, _),    \* Local(zone, m): minute, hour, day, month and weekday (Sunday is 0)
  Lookahead       \* minutes next_cron_time tries before it gives up: five years

\* A comma-separated item of a field: a range with a step.  A single value is
\* a range of one, "*" the range of the whole field.
Item(start, end, step) == [start |-> start, end |-> end, step |-> step]

Accepted(i, minimum, maximum) ==
  i.step >= 1 /\ minimum <= i.start /\ i.start <= i.end /\ i.end <= maximum

\* _field: the values of a field, and whether it was written as a bare "*".
Field(items, wildcard) ==
  [values |-> UNION {{v \in i.start .. i.end : (v - i.start) % i.step = 0} : i \in items},
   wildcard |-> wildcard]

\* The field of weekdays, where 7 is another name of 0.
Weekdays(items, wildcard) ==
  LET f == Field(items, wildcard) IN
  [f EXCEPT !.values = {v % 7 : v \in @}]

\* _matches: a day has to be in both day fields, except that one of them is
\* enough when neither is a bare "*".
Matches(e, local) ==
  /\ local.minute \in e.minute.values
  /\ local.hour \in e.hour.values
  /\ local.month \in e.month.values
  /\ LET month_day == local.day \in e.day_of_month.values
         week_day == local.weekday \in e.day_of_week.values
     IN IF e.day_of_month.wildcard THEN week_day
        ELSE IF e.day_of_week.wildcard THEN month_day
        ELSE month_day \/ week_day

\* The minutes next_cron_time tries that match.
Candidates(e, zone, after) ==
  {m \in (after + 1) .. (after + Lookahead) : Matches(e, Local(zone, m))}

\* next_cron_time: the first of them.
NextCronTime(e, zone, after) ==
  CHOOSE m \in Candidates(e, zone, after) :
    \A n \in Candidates(e, zone, after) : m <= n

=============================================================================
