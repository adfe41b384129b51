---------------------------- MODULE GroupContract ----------------------------
(***************************************************************************)
(* What the study groups promise, with no handlers, jobs or failures: a    *)
(* course fills one group at a time; a group closes when its last seat is  *)
(* counted, and starts for good when it has a lecture to go to, or its     *)
(* course was found to have no topics; students enter a group while it     *)
(* fills and stay until they enter another.                                *)
(***************************************************************************)
EXTENDS Naturals

CONSTANTS Student, Course, Group, NoGroup, maxStudents

VARIABLES
  stage,     \* of each group
  course,    \* of each group that was opened
  seats,     \* the seats counted in each group
  prepared,  \* what preparing the start of each group has come to
  home       \* the group of each student

vars == <<stage, course, seats, prepared, home>>

Init ==
  /\ stage = [g \in Group |-> "none"]
  /\ course \in [Group -> Course]
  /\ seats = [g \in Group |-> 0]
  /\ prepared = [g \in Group |-> {}]
  /\ home = [s \in Student |-> NoGroup]

Open(g, c) ==
  /\ stage[g] = "none"
  /\ ~\E h \in Group : stage[h] = "filling" /\ course[h] = c
  /\ stage' = [stage EXCEPT ![g] = "filling"]
  /\ course' = [course EXCEPT ![g] = c]
  /\ seats' = [seats EXCEPT ![g] = 0]
  /\ UNCHANGED <<prepared, home>>

Enter(s, g) ==
  /\ stage[g] = "filling"
  /\ home' = [home EXCEPT ![s] = g]
  /\ UNCHANGED <<stage, course, seats, prepared>>

Seat(g) ==
  /\ stage[g] = "filling"
  /\ seats' = [seats EXCEPT ![g] = @ + 1]
  /\ stage' = [stage EXCEPT ![g] = IF seats[g] + 1 = maxStudents THEN "waiting" ELSE @]
  /\ UNCHANGED <<course, prepared, home>>

Prepare(g) ==
  /\ stage[g] = "waiting"
  /\ \E outcome \in {"lecture", "no topics"} :
       prepared' = [prepared EXCEPT ![g] = @ \cup {outcome}]
  /\ UNCHANGED <<stage, course, seats, home>>

Begin(g) ==
  /\ stage[g] = "waiting" /\ prepared[g] # {}
  /\ stage' = [stage EXCEPT ![g] = "active"]
  /\ UNCHANGED <<course, seats, prepared, home>>

Next ==
  \E g \in Group :
    \/ Seat(g) \/ Prepare(g) \/ Begin(g)
    \/ \E c \in Course : Open(g, c)
    \/ \E s \in Student : Enter(s, g)

Spec == Init /\ [][Next]_vars
=============================================================================
