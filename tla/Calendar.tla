------------------------------ MODULE Calendar ------------------------------
(* The dates of lectures: ScheduleCalculatorService and the part of               *)
(* scheduleNextLecture that calls it (lecture/).                                  *)
(*                                                                                *)
(* A time is a record of a day, counted from a Sunday, and an hour. A step is an  *)
(* index of TimeSlots, from 0.                                                    *)
EXTENDS Integers, Sequences

TimeSlots == <<9, 11, 13, 15, 17, 19, 10, 12, 14, 16, 18, 20>>
FirstHour == 15

Weekday(day) == day % 7
Sunday == 0
Friday == 5

\* TIME_SLOTS.indexOf; an hour that is no slot counts as 15:00.
StepOf(hour) ==
    IF \E i \in DOMAIN TimeSlots : TimeSlots[i] = hour
    THEN (CHOOSE i \in DOMAIN TimeSlots : TimeSlots[i] = hour) - 1
    ELSE 3

HourOf(step) == TimeSlots[step + 1]

\* A plausible bug: the first hour of the prayer is let through.
BlockedAfter(day, hour) == Weekday(day) = Friday /\ 12 < hour /\ hour < 14

\* The hours of the Friday prayer.
Blocked(day, hour) == Weekday(day) = Friday /\ 12 <= hour /\ hour < 14

\* A week later, on Monday instead of Sunday.
WeekAfter(day) == IF Weekday(day + 7) = Sunday THEN day + 8 ELSE day + 7

\* calculateNextLectureTime: a week later in the next slot, and so on while it is blocked.
CalculateNext(day, step) ==
    LET After(n) == (n % Len(TimeSlots)) + 1
        next[t \in [day : Nat, slot : DOMAIN TimeSlots]] ==
          IF Blocked(t.day, TimeSlots[t.slot])
          THEN next[[day |-> WeekAfter(t.day), slot |-> After(t.slot)]]
          ELSE [day |-> t.day, hour |-> TimeSlots[t.slot]]
    IN next[[day |-> WeekAfter(day), slot |-> After(step + 1)]]

\* scheduleNextLecture repeats it until the time is not before day `today'.
NextLecture(last, today) ==
    LET ahead[t \in [day : Nat, hour : Nat]] ==
          IF t.day < today THEN ahead[CalculateNext(t.day, StepOf(t.hour))] ELSE t
    IN ahead[CalculateNext(last.day, StepOf(last.hour))]
=============================================================================
