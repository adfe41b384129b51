--------------------------- MODULE LectureContract ---------------------------
(***************************************************************************)
(* What the lectures of a group promise its teachers and students, with no *)
(* handlers, messages or failures: a lecture has one teacher, the first    *)
(* who claims it; it is held once and completed or canceled; its students  *)
(* are reminded of it while its teacher is known and it has not begun,     *)
(* until it is noted that they were, and never after that.                 *)
(***************************************************************************)
EXTENDS Naturals

CONSTANTS Lecture, Teacher, NoTeacher

VARIABLES
  stage,      \* of each lecture
  teacher,    \* of each lecture
  confirmed,  \* the teachers who were told that the lecture is theirs
  reminded,   \* the reminders sent for each lecture
  noted       \* the lectures whose reminder is noted as sent

vars == <<stage, teacher, confirmed, reminded, noted>>

Init ==
  /\ stage = [l \in Lecture |-> "none"]
  /\ teacher = [l \in Lecture |-> NoTeacher]
  /\ confirmed = [l \in Lecture |-> {}]
  /\ reminded = [l \in Lecture |-> 0]
  /\ noted = [l \in Lecture |-> FALSE]

Moves(l, to) ==
  /\ stage' = [stage EXCEPT ![l] = to]
  /\ UNCHANGED <<teacher, confirmed, reminded, noted>>

Schedule(l) == stage[l] = "none" /\ Moves(l, "scheduled")

\* Whoever is first has it, also when nobody is expected to hold it any more.
Claim(l, t) ==
  /\ stage[l] # "none" /\ teacher[l] = NoTeacher
  /\ stage' = [stage EXCEPT ![l] = "assigned"]
  /\ teacher' = [teacher EXCEPT ![l] = t]
  /\ confirmed' = [confirmed EXCEPT ![l] = {t}]
  /\ UNCHANGED <<reminded, noted>>

Remind(l) ==
  /\ stage[l] = "assigned" /\ ~noted[l]
  /\ reminded' = [reminded EXCEPT ![l] = @ + 1]
  /\ UNCHANGED <<stage, teacher, confirmed, noted>>

Note(l) ==
  /\ stage[l] = "assigned" /\ reminded[l] > 0 /\ ~noted[l]
  /\ noted' = [noted EXCEPT ![l] = TRUE]
  /\ UNCHANGED <<stage, teacher, confirmed, reminded>>

Start(l) == stage[l] = "assigned" /\ Moves(l, "ongoing")

Cancel(l) == stage[l] \in {"scheduled", "assigned", "ongoing"} /\ Moves(l, "canceled")

Complete(l) == stage[l] # "none" /\ Moves(l, "completed")

Next ==
  \E l \in Lecture :
    \/ Schedule(l) \/ Remind(l) \/ Note(l) \/ Start(l) \/ Cancel(l) \/ Complete(l)
    \/ \E t \in Teacher : Claim(l, t)

Spec == Init /\ [][Next]_vars
=============================================================================
