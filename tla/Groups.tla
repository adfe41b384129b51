------------------------------- MODULE Groups -------------------------------
(***************************************************************************)
(* Study groups (src/src/modules/group): a paid student is put into a      *)
(* group that is still filling, a full group waits three days, and the job *)
(* that runs at midnight (or an admin's request) generates its first       *)
(* lecture and makes it ACTIVE.                                            *)
(*                                                                         *)
(* Nothing runs in a database transaction.  TypeORM's save selects the     *)
(* row once more and then updates the columns in which the entity differed *)
(* from what it selected; the job's save does so with the members of the   *)
(* group as well, because it loaded them: students that joined since its   *)
(* read leave the group, students that left it return.                     *)
(***************************************************************************)
EXTENDS Integers, FiniteSets

CONSTANTS
  Student,
  Course,       \* courses, each for the students of one gender
  Worker,       \* addStudentToGroup calls in flight at the same time
  Job,          \* startGroupsIfReady calls in flight at the same time
  maxStudents,
  MaxGroups,    \* bound: groups
  MaxAdds,      \* bound: addStudentToGroup calls
  MaxStarts,    \* bound: start requests of an admin
  MaxAborts,    \* bound: handlers abandoned by an exception or a restart
  Overlap       \* do adds to a course overlap, and adds with a start?

ASSUME GroupsAssumption ==
  /\ Student # {} /\ Course # {}
  /\ maxStudents \in Nat \ {0} /\ MaxGroups \in Nat
  /\ MaxAdds \in Nat /\ MaxStarts \in Nat /\ MaxAborts \in Nat
  /\ Overlap \in BOOLEAN

VARIABLES
  made,      \* groups so far; their ids are 1..made
  row,       \* the rows of the groups
  member,    \* the group of a student: users.group_id
  add,       \* the addStudentToGroup calls in flight
  job,       \* the startGroupsIfReady calls in flight
  lectures,  \* first lectures generated for a group
  untitled,  \* history: groups whose course had no topics when a job came to them
  slot,      \* the time of the day
  cronRan,   \* has the midnight job been fired today?
  joined,    \* history: the group a student was put into last
  adds,      \* addStudentToGroup calls so far
  starts,    \* start requests so far
  aborts     \* handlers abandoned so far

vars == <<made, row, member, add, job, lectures, untitled, slot, cronRan, joined,
          adds, starts, aborts>>
generated == <<lectures, untitled>>
clock == <<slot, cronRan>>
bounds == <<adds, starts, aborts>>

Group == 1..MaxGroups
NoGroup == 0

\* Midnight, later before 15:00, and after 15:00.
Slot == 0..2
Days(n) == 3 * n
\* Ages are told apart up to a day after the third.
OldAge == Days(4)
NotFull == -1

GroupStatusEnum == {"FILLING", "WAITING", "ACTIVE"}
\* waited: slots since fillAt, which is null in a group that was never full.
Row == [course : Course, status : GroupStatusEnum, count : Nat,
        waited : {NotFull} \cup (0..OldAge)]
NewRow(c) == [course |-> c, status |-> "FILLING", count |-> 0, waited |-> NotFull]
AnyCourse == CHOOSE c \in Course : TRUE
\* The columns a save may find different: the course of a row never changes.
Column == {"status", "count", "waited"}

AddStep == {"idle", "find", "create", "join", "count", "select", "update"}
Add == [step : AddStep, student : Student, course : Course,
        group : Group \cup {NoGroup}, entity : Row, write : SUBSET Column]
NoAdd == [step |-> "idle", student |-> CHOOSE s \in Student : TRUE, course |-> AnyCourse,
          group |-> NoGroup, entity |-> NewRow(AnyCourse), write |-> {}]

\* The due groups a job has not finished, the one it is at, all it has read, and the
\* columns and memberships its save is about to write.
Start == [todo : SUBSET Group, step : {"next", "select", "update"},
          at : Group \cup {NoGroup}, row : [Group -> Row],
          member : [Student -> Group \cup {NoGroup}],
          write : SUBSET Column, moved : SUBSET Student]
Started(due) == [todo |-> due, step |-> "next", at |-> NoGroup, row |-> row,
                 member |-> member, write |-> {}, moved |-> {}]
NoStart == [todo |-> {}, step |-> "next", at |-> NoGroup,
            row |-> [g \in Group |-> NewRow(AnyCourse)],
            member |-> [s \in Student |-> NoGroup], write |-> {}, moved |-> {}]

Exists(g) == g <= made
Members(g) == {s \in Student : member[s] = g}
Full(r) == r.count >= maxStudents

NoneAdding(c) == \A w \in Worker : add[w].step = "idle" \/ add[w].course # c
NoneStarting == \A j \in Job : job[j].todo = {}
AllIdle == NoneStarting /\ \A c \in Course : NoneAdding(c)

Init ==
  /\ made = 0
  /\ row = [g \in Group |-> NewRow(AnyCourse)]
  /\ member = [s \in Student |-> NoGroup]
  /\ add = [w \in Worker |-> NoAdd]
  /\ job = [j \in Job |-> NoStart]
  /\ lectures = [g \in Group |-> 0]
  /\ untitled = {}
  /\ slot = 0
  /\ cronRan = FALSE
  /\ joined = [s \in Student |-> NoGroup]
  /\ adds = 0
  /\ starts = 0
  /\ aborts = 0

\* save(): first the columns in which the entity e differs from the row r, later the
\* row as it is then with those columns written.
Differing(r, e) == {c \in Column : e[c] # r[c]}

Written(r, e, write) ==
  [r EXCEPT !.status = IF "status" \in write THEN e.status ELSE @,
            !.count = IF "count" \in write THEN e.count ELSE @,
            !.waited = IF "waited" \in write THEN e.waited ELSE @]

-----------------------------------------------------------------------------
(***************************************************************************)
(* addStudentToGroup.  That a student is in a group already is not looked  *)
(* at: the check is commented out.                                         *)
(***************************************************************************)
AddStudentToGroup(w, s, c) ==
  /\ add[w].step = "idle"
  /\ Overlap \/ (NoneStarting /\ NoneAdding(c))
  /\ adds < MaxAdds
  /\ adds' = adds + 1
  /\ add' = [add EXCEPT ![w] = [step |-> "find", student |-> s, course |-> c,
                                group |-> NoGroup, entity |-> NewRow(c),
                                write |-> {}]]
  /\ UNCHANGED <<made, row, member, job, generated, clock, joined, starts, aborts>>

GoOn(w, step, g) == add' = [add EXCEPT ![w].step = step, ![w].group = g]

\* Mutant: a group with one seat left is passed over.
BuggyAvailable(c) ==
  {g \in Group : Exists(g) /\ row[g].course = c /\ row[g].count + 1 < maxStudents}

Available(c) == {g \in Group : Exists(g) /\ row[g].course = c /\ row[g].status = "FILLING"}

\* Mutant: a group of any status is taken.
BuggyFindAvailableGroup(w) ==
  LET open == {g \in Group : Exists(g) /\ row[g].course = add[w].course}
  IN  /\ add[w].step = "find"
      /\ IF open = {} THEN GoOn(w, "create", NoGroup)
                      ELSE \E g \in open : GoOn(w, "join", g)
      /\ UNCHANGED <<made, row, member, job, generated, clock, joined, bounds>>

FindAvailableGroup(w) ==
  LET open == Available(add[w].course)
  IN  /\ add[w].step = "find"
      /\ IF open = {} THEN GoOn(w, "create", NoGroup)
                      ELSE \E g \in open : GoOn(w, "join", g)
      /\ UNCHANGED <<made, row, member, job, generated, clock, joined, bounds>>

Create(w) ==
  /\ add[w].step = "create"
  /\ made < MaxGroups
  /\ made' = made + 1
  /\ row' = [row EXCEPT ![made + 1] = NewRow(add[w].course)]
  /\ GoOn(w, "join", made + 1)
  /\ UNCHANGED <<member, job, generated, clock, joined, bounds>>

Told(w) ==
  /\ joined' = [joined EXCEPT ![add[w].student] = add[w].group]
  /\ GoOn(w, "count", add[w].group)
  /\ UNCHANGED <<made, row, job, generated, clock, bounds>>

\* Mutant: a student who has a group keeps it.
BuggyJoin(w) ==
  /\ add[w].step = "join"
  /\ member' = [member EXCEPT ![add[w].student] = IF @ = NoGroup THEN add[w].group ELSE @]
  /\ Told(w)

\* The user is saved with the group.
Join(w) ==
  /\ add[w].step = "join"
  /\ member' = [member EXCEPT ![add[w].student] = add[w].group]
  /\ Told(w)

\* Mutant: a group that is full gets no fillAt.
UndatedIncremented(r) ==
  LET counted == [r EXCEPT !.count = @ + 1]
  IN  IF Full(counted) THEN [counted EXCEPT !.status = "WAITING"] ELSE counted

\* The student is counted, and a group that is full closed (again, if others joined late).
Incremented(r) ==
  LET counted == [r EXCEPT !.count = @ + 1]
  IN  IF Full(counted) THEN [counted EXCEPT !.status = "WAITING", !.waited = 0] ELSE counted

\* incrementStudentCount reads the row of the group and saves it.
ReadCount(w) ==
  /\ add[w].step = "count"
  /\ add' = [add EXCEPT ![w].step = "select", ![w].entity = Incremented(row[add[w].group])]
  /\ UNCHANGED <<made, row, member, job, generated, clock, joined, bounds>>

\* A fillAt that has just been set always differs.
SelectCount(w) ==
  LET e == add[w].entity
  IN  /\ add[w].step = "select"
      /\ add' = [add EXCEPT ![w].step = "update",
                            ![w].write = Differing(row[add[w].group], e)
                                           \cup (IF Full(e) THEN {"waited"} ELSE {})]
      /\ UNCHANGED <<made, row, member, job, generated, clock, joined, bounds>>

SaveCount(w) ==
  /\ add[w].step = "update"
  /\ row' = [row EXCEPT ![add[w].group] = Written(@, add[w].entity, add[w].write)]
  /\ add' = [add EXCEPT ![w] = NoAdd]
  /\ UNCHANGED <<made, member, job, generated, clock, joined, bounds>>

\* An awaited call throws (the payment goes on), or the process restarts.
AbortAdd(w) ==
  /\ add[w].step # "idle"
  /\ aborts < MaxAborts
  /\ aborts' = aborts + 1
  /\ add' = [add EXCEPT ![w] = NoAdd]
  /\ UNCHANGED <<made, row, member, job, generated, clock, joined, adds, starts>>

-----------------------------------------------------------------------------
(***************************************************************************)
(* startGroupsIfReady: read the due groups with their members, then for    *)
(* one after the other generate the first lecture and save the group.      *)
(***************************************************************************)

\* fillAt is three days ago; three days to the slot may be a little less.
Due(age) == {g \in Group : Exists(g) /\ row[g].status = "WAITING" /\ row[g].waited >= age}

FindGroupsToStart(j) ==
  /\ job[j].todo = {}
  /\ Overlap \/ AllIdle
  /\ \E age \in {Days(3), Days(3) + 1} :
       job' = [job EXCEPT ![j] = IF Due(age) = {} THEN NoStart ELSE Started(Due(age))]
  /\ UNCHANGED <<made, row, member, add, generated, slot, joined, adds, aborts>>

HandleGroupAutoStart(j) ==
  /\ slot = 0 /\ ~cronRan
  /\ cronRan' = TRUE
  /\ FindGroupsToStart(j)
  /\ UNCHANGED starts

StartReadyGroups(j) ==
  /\ starts < MaxStarts
  /\ starts' = starts + 1
  /\ FindGroupsToStart(j)
  /\ UNCHANGED cronRan

\* Mutant: a generation that fails does not end the job.
TolerantCreateLectures(j) ==
  /\ job[j].step = "next"
  /\ \E g \in job[j].todo : job' = [job EXCEPT ![j].step = "select", ![j].at = g]
  /\ UNCHANGED <<made, row, member, add, generated, clock, joined, bounds>>

\* A course without topics gives the group no lecture, and the job goes on all the same.
CreateLectures(j) ==
  /\ job[j].step = "next"
  /\ \E g \in job[j].todo :
       /\ job' = [job EXCEPT ![j].step = "select", ![j].at = g]
       /\ \/ lectures' = [lectures EXCEPT ![g] = @ + 1] /\ UNCHANGED untitled
          \/ untitled' = untitled \cup {g} /\ UNCHANGED lectures
  /\ UNCHANGED <<made, row, member, add, clock, joined, bounds>>

\* Mutant: the group is saved without its new status.
BuggyActivated(j) == job[j].row[job[j].at]

Activated(j) == [job[j].row[job[j].at] EXCEPT !.status = "ACTIVE"]

\* The members that the job read and that are no longer, and those that are and it did
\* not read.
SelectActive(j) ==
  LET g == job[j].at IN
  /\ job[j].step = "select"
  /\ job' = [job EXCEPT ![j].step = "update",
                        ![j].write = Differing(row[g], Activated(j)),
                        ![j].moved = {s \in Student : (member[s] = g) # (job[j].member[s] = g)}]
  /\ UNCHANGED <<made, row, member, add, generated, clock, joined, bounds>>

\* The job is done with the group it is at.
Done(j) == LET rest == job[j].todo \ {job[j].at}
           IN  job' = [job EXCEPT ![j] =
                         IF rest = {} THEN NoStart
                         ELSE [@ EXCEPT !.todo = rest, !.step = "next", !.at = NoGroup,
                                        !.write = {}, !.moved = {}]]

SaveActive(j) ==
  LET g == job[j].at IN
  /\ job[j].step = "update"
  /\ row' = [row EXCEPT ![g] = Written(@, Activated(j), job[j].write)]
  /\ member' = [s \in Student |-> CASE s \notin job[j].moved -> member[s]
                                    [] job[j].member[s] = g -> g
                                    [] OTHER -> NoGroup]
  /\ Done(j)
  /\ UNCHANGED <<made, add, generated, clock, joined, bounds>>

\* An exception ends the job with its remaining groups not started, as a restart does.
AbortJob(j) ==
  /\ job[j].todo # {}
  /\ aborts < MaxAborts
  /\ aborts' = aborts + 1
  /\ job' = [job EXCEPT ![j] = NoStart]
  /\ UNCHANGED <<made, row, member, add, generated, clock, joined, adds, starts>>

-----------------------------------------------------------------------------
\* No handler is in flight for hours; midnight does not pass without the cron job.
Tick ==
  /\ AllIdle
  /\ slot = 0 => cronRan
  /\ slot' = (slot + 1) % Days(1)
  /\ cronRan' = FALSE
  /\ row' = [g \in Group |->
               [row[g] EXCEPT !.waited = IF @ \in {NotFull, OldAge} THEN @ ELSE @ + 1]]
  /\ UNCHANGED <<made, member, add, job, generated, joined, bounds>>

AddStudent(w) ==
  \/ FindAvailableGroup(w) \/ Create(w) \/ Join(w) \/ ReadCount(w) \/ SelectCount(w)
  \/ SaveCount(w)
StartGroup(j) == CreateLectures(j) \/ SelectActive(j) \/ SaveActive(j)
Cron == \E j \in Job : HandleGroupAutoStart(j)

Next ==
  \/ \E w \in Worker : \/ \E s \in Student, c \in Course : AddStudentToGroup(w, s, c)
                       \/ AddStudent(w) \/ AbortAdd(w)
  \/ \E j \in Job : StartReadyGroups(j) \/ StartGroup(j) \/ AbortJob(j)
  \/ Cron
  \/ Tick

Spec == Init /\ [][Next]_vars

\* Awaited calls are answered, the cron job fires at midnight, and time passes.
FairSpec ==
  /\ Spec
  /\ \A w \in Worker : WF_vars(AddStudent(w))
  /\ \A j \in Job : WF_vars(StartGroup(j))
  /\ WF_vars(Cron)
  /\ WF_vars(Tick)

-----------------------------------------------------------------------------
(***************************************************************************)
(* Properties.                                                             *)
(***************************************************************************)

\* An add that is past its search.
Adding(w) == add[w].step \in {"join", "count", "select", "update"}

\* Type invariant: variables have their types, adds past their search have a group that
\* exists, and a job is at a group it read as due.
TypeOK ==
  /\ made \in 0..MaxGroups
  /\ row \in [Group -> Row]
  /\ member \in [Student -> Group \cup {NoGroup}]
  /\ add \in [Worker -> Add]
  /\ \A w \in Worker : Adding(w) => add[w].group \in 1..made
  /\ job \in [Job -> Start]
  /\ \A j \in Job : IF job[j].step = "next" THEN job[j].at = NoGroup
                    ELSE job[j].at \in job[j].todo
  /\ lectures \in [Group -> Nat] /\ untitled \subseteq Group
  /\ slot \in Slot /\ cronRan \in BOOLEAN
  /\ joined \in [Student -> Group \cup {NoGroup}]
  /\ adds \in Nat /\ starts \in Nat /\ aborts \in Nat

\* A group takes students until its count reaches the maximum, and from then on it has a
\* fillAt: no group waits or runs half empty by its own count, and none that is full by
\* its count keeps taking students (adds and starts one at a time: two saves that overlap
\* can mix the count of one with the status of the other).
ClosedWhenFull ==
  \A g \in Group : /\ row[g].status = "FILLING" <=> ~Full(row[g])
                   /\ row[g].status = "FILLING" <=> row[g].waited = NotFull

\* No group is ACTIVE without a lecture unless its course had no topics when its job came
\* to it, also if jobs overlap or stop half way: the status is saved after the lecture.
ActiveHasLecture ==
  \A g \in Group : row[g].status = "ACTIVE" => lectures[g] > 0 \/ g \in untitled

\* A group starts three days after it was full (adds and starts one at a time).
StartsAfterThreeDays ==
  [][\A g \in Group : (row[g].status # "ACTIVE" /\ row'[g].status = "ACTIVE")
        => row'[g].waited >= Days(3)]_vars

\* A group that was started stays started (adds and starts one at a time).
ActiveIsFinal ==
  [][\A g \in Group : row[g].status = "ACTIVE" => row'[g].status = "ACTIVE"]_vars

\* Adds to a course one at a time leave it with one group that takes students.
OneFillingGroup ==
  \A g, h \in Group :
    (/\ Exists(g) /\ Exists(h) /\ row[g].course = row[h].course
     /\ row[g].status = "FILLING" /\ row[h].status = "FILLING") => g = h

\* Adds to a course one at a time never put more students into a group than its
\* maximum, except those whose add was abandoned before it was counted.
SeatsWithinMax == \A g \in Group : Cardinality(Members(g)) <= maxStudents + aborts

\* A student is in the group that an add put it into last.
JoinSticks == \A s \in Student : member[s] = joined[s]

\* One first lecture is generated for a group, and one more for each job that died: no
\* start request repeats the work of the cron job, on the same day or later.
RepeatsOnlyAfterAbort == \A g \in Group : lectures[g] <= 1 + aborts

\* A group with all its seats taken is started, unless a handler was abandoned.
FullGroupStarts ==
  \A g \in Group : (Cardinality(Members(g)) >= maxStudents)
                     ~> (row[g].status = "ACTIVE" \/ aborts > 0)
=============================================================================
