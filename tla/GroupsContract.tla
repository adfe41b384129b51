--------------------------- MODULE GroupsContract ---------------------------
(***************************************************************************)
(* The handlers of Groups implement GroupContract when adds to a course    *)
(* come one at a time, and not while groups start.                         *)
(***************************************************************************)
EXTENDS Groups

\* What the contract calls the status of a row.
StageOf(status) ==
  CASE status = "FILLING" -> "filling"
    [] status = "WAITING" -> "waiting"
    [] OTHER -> "active"

StageNow(g) == IF Exists(g) THEN StageOf(row[g].status) ELSE "none"

\* What generating the first lecture of a group has come to.
Outcomes(g) ==
  {o \in {"lecture", "no topics"} : IF o = "lecture" THEN lectures[g] > 0 ELSE g \in untitled}

Contract == INSTANCE GroupContract WITH
  stage    <- [g \in Group |-> StageNow(g)],
  course   <- [g \in Group |-> row[g].course],
  seats    <- [g \in Group |-> row[g].count],
  prepared <- [g \in Group |-> Outcomes(g)],
  home     <- member

\* Every step of addStudentToGroup, of the midnight job and of the start requests, whatever
\* is abandoned half way, is a step the contract allows for one group, or changes nothing of
\* what it speaks of: a job's save of rows and members it read earlier takes no student out
\* and no seat back. (group.service.ts, the rows and members that startGroupsIfReady saves.)
ImplementsGroupContract == Contract!Spec
=============================================================================
