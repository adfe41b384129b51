-------------------------- MODULE LecturesContract --------------------------
(***************************************************************************)
(* The handlers of Lectures implement LectureContract when they work on a  *)
(* lecture one at a time; a reminder is sent again when its handler was    *)
(* abandoned before it could note that it sent one.                        *)
(***************************************************************************)
EXTENDS Lectures

\* What the contract calls the status of a row.
StageOf(status) ==
  CASE status = "SCHEDULED" -> "scheduled"
    [] status = "ASSIGNED" -> "assigned"
    [] status = "ONGOING" -> "ongoing"
    [] status = "CANCELLED" -> "canceled"
    [] OTHER -> "completed"

StageNow(l) == IF Exists(l) THEN StageOf(row[l].status) ELSE "none"

Contract == INSTANCE LectureContract WITH
  stage     <- [l \in Lecture |-> StageNow(l)],
  teacher   <- [l \in Lecture |-> row[l].teacher],
  confirmed <- claimants,
  noted     <- [l \in Lecture |-> row[l].reminderSent]

\* Every step of the requests, the cron jobs, the announcement and the claims of a group's
\* lectures, whatever is abandoned half way, is a step the contract allows for one lecture, or
\* changes nothing of what it speaks of. (lecture.service.ts:272, the status that is read and
\* the row that is saved.)
ImplementsLectureContract == Contract!Spec
=============================================================================
