------------------------------ MODULE GroupsProofs ------------------------------
(***************************************************************************)
(* What holds of groups for any number of students, groups, adds and jobs. *)
(***************************************************************************)
EXTENDS GroupsContract, FiniteSetTheorems, TLAPS

-----------------------------------------------------------------------------
(***************************************************************************)
(* Type correctness.                                                       *)
(***************************************************************************)
LEMMA NewRowType == \A c \in Course : NewRow(c) \in Row
  BY DEF NewRow, Row, GroupStatusEnum, NotFull

LEMMA AnyCourseType == AnyCourse \in Course
  BY GroupsAssumption DEF AnyCourse

LEMMA NoAddType == NoAdd \in Add /\ NoAdd.step = "idle"
<1>1. (CHOOSE s \in Student : TRUE) \in Student
  BY GroupsAssumption
<1>2. QED
  BY <1>1, AnyCourseType, NewRowType DEF NoAdd, Add, AddStep

LEMMA NoStartType ==
  NoStart \in Start /\ NoStart.todo = {} /\ NoStart.step = "next" /\ NoStart.at = NoGroup
  BY AnyCourseType, NewRowType DEF NoStart, Start

LEMMA StartedType ==
  ASSUME TypeOK, NEW due \in SUBSET Group
  PROVE  /\ Started(due) \in Start /\ Started(due).todo = due
         /\ Started(due).step = "next" /\ Started(due).at = NoGroup
         /\ Started(due).row = row /\ Started(due).member = member
  BY DEF Started, Start, TypeOK

LEMMA TypeInit == Init => TypeOK
<1> SUFFICES ASSUME Init PROVE TypeOK
  OBVIOUS
<1>1. row \in [Group -> Row]
  BY AnyCourseType, NewRowType DEF Init
<1>2. /\ add \in [Worker -> Add]
      /\ \A w \in Worker : ~Adding(w)
  BY NoAddType DEF Init, Adding
<1>3. job \in [Job -> Start] /\ \A j \in Job : job[j].step = "next" /\ job[j].at = NoGroup
  BY NoStartType DEF Init
<1>4. /\ member \in [Student -> Group \cup {NoGroup}] /\ joined = member
      /\ lectures \in [Group -> Nat] /\ untitled \subseteq Group
  BY DEF Init
<1>5. made \in 0..MaxGroups /\ slot \in Slot
  BY GroupsAssumption DEF Init, Slot
<1>6. QED
  BY <1>1, <1>2, <1>3, <1>4, <1>5 DEF Init, TypeOK

LEMMA CountedType ==
  ASSUME NEW r \in Row
  PROVE  LET counted == [r EXCEPT !.count = @ + 1]
             closed == [counted EXCEPT !.status = "WAITING", !.waited = 0]
         IN  /\ counted \in Row /\ counted.count = r.count + 1
             /\ counted.course = r.course /\ counted.status = r.status
             /\ counted.waited = r.waited
             /\ closed \in Row /\ closed.count = r.count + 1
             /\ closed.course = r.course /\ closed.status = "WAITING" /\ closed.waited = 0
             /\ Incremented(r) = IF Full(counted) THEN closed ELSE counted
<1> DEFINE counted == [r EXCEPT !.count = @ + 1]
<1>1. /\ counted \in Row /\ counted.count = r.count + 1
      /\ counted.course = r.course /\ counted.status = r.status /\ counted.waited = r.waited
  BY DEF Row
<1>2. Incremented(r) = IF Full(counted)
                       THEN [counted EXCEPT !.status = "WAITING", !.waited = 0] ELSE counted
  BY DEF Incremented
<1>3. 0 \in 0..OldAge /\ "WAITING" \in GroupStatusEnum
  BY DEF OldAge, Days, GroupStatusEnum
<1> HIDE DEF counted
<1>4. /\ [counted EXCEPT !.status = "WAITING", !.waited = 0] \in Row
      /\ [counted EXCEPT !.status = "WAITING", !.waited = 0].count = r.count + 1
      /\ [counted EXCEPT !.status = "WAITING", !.waited = 0].course = r.course
      /\ [counted EXCEPT !.status = "WAITING", !.waited = 0].status = "WAITING"
      /\ [counted EXCEPT !.status = "WAITING", !.waited = 0].waited = 0
  BY <1>1, <1>3 DEF Row
<1>5. QED
  BY <1>1, <1>2, <1>4 DEF counted

LEMMA IncrementedType ==
  ASSUME NEW r \in Row
  PROVE  /\ Incremented(r) \in Row /\ Incremented(r).course = r.course
         /\ Incremented(r).count = r.count + 1
         /\ Incremented(r).status \in {r.status, "WAITING"}
  BY CountedType

\* What a save leaves of a row.
LEMMA WrittenType ==
  ASSUME NEW r \in Row, NEW e \in Row, NEW write
  PROVE  /\ Written(r, e, write) \in Row
         /\ Written(r, e, write).course = r.course
         /\ Written(r, e, write).status = IF "status" \in write THEN e.status ELSE r.status
         /\ Written(r, e, write).count = IF "count" \in write THEN e.count ELSE r.count
         /\ Written(r, e, write).waited = IF "waited" \in write THEN e.waited ELSE r.waited
  BY DEF Written, Row

\* Rows that agree in every column are the same row.
LEMMA SameRow ==
  ASSUME NEW r \in Row, NEW s \in Row, r.course = s.course, r.status = s.status,
         r.count = s.count, r.waited = s.waited
  PROVE  r = s
  BY DEF Row

\* A save that writes at least what differs leaves the row as the entity is.
LEMMA WrittenDiffering ==
  ASSUME NEW r \in Row, NEW e \in Row, e.course = r.course, NEW write,
         Differing(r, e) \subseteq write
  PROVE  Written(r, e, write) = e
<1>1. /\ e.status # r.status => "status" \in write
      /\ e.count # r.count => "count" \in write
      /\ e.waited # r.waited => "waited" \in write
  BY DEF Differing, Column
<1>2. QED
  BY <1>1, WrittenType, SameRow

\* An add that goes on, with a group that exists where it needs one.
LEMMA TypeGoOn ==
  ASSUME TypeOK, NEW w \in Worker, NEW step \in AddStep, NEW g \in Group \cup {NoGroup},
         GoOn(w, step, g), made' \in {made, made + 1},
         step \in {"join", "count", "select", "update"} => g \in 1..made'
  PROVE  /\ add' \in [Worker -> Add]
         /\ \A v \in Worker : Adding(v)' => add'[v].group \in 1..made'
<1>1. add' = [add EXCEPT ![w].step = step, ![w].group = g]
  BY DEF GoOn
<1>2. add' \in [Worker -> Add]
  BY <1>1 DEF TypeOK, Add
<1>3. add'[w].step = step /\ add'[w].group = g
  BY <1>1 DEF TypeOK, Add
<1>4. \A v \in Worker \ {w} : add'[v] = add[v]
  BY <1>1 DEF TypeOK
<1>5. 1..made \subseteq 1..made'
  BY GroupsAssumption DEF TypeOK
<1>6. QED
  BY <1>2, <1>3, <1>4, <1>5 DEF TypeOK, Adding

\* An add that has its group, and goes on with it.
LEMMA TypeCounts ==
  ASSUME TypeOK, NEW w \in Worker, Adding(w), NEW a \in Add, a.group = add[w].group,
         add' = [add EXCEPT ![w] = a], made' = made
  PROVE  /\ add' \in [Worker -> Add]
         /\ \A v \in Worker : Adding(v)' => add'[v].group \in 1..made'
  BY DEF TypeOK, Adding

\* The group of an add, and its row.
LEMMA AddingAt ==
  ASSUME TypeOK, NEW w \in Worker, Adding(w)
  PROVE  /\ add[w].group \in 1..made /\ add[w].group \in Group /\ Exists(add[w].group)
         /\ row[add[w].group] \in Row /\ add[w].entity \in Row
<1>1. add[w].group \in 1..made /\ made \in 0..MaxGroups
  BY DEF TypeOK
<1>2. add[w].group \in Group /\ Exists(add[w].group)
  BY <1>1, GroupsAssumption DEF Group, Exists
<1>3. QED
  BY <1>1, <1>2 DEF TypeOK, Add

\* What ReadCount and SelectCount make of an add.
LEMMA ReadCountAdd ==
  ASSUME TypeOK, NEW w \in Worker, ReadCount(w)
  PROVE  /\ Adding(w) /\ add[w].step = "count"
         /\ add'[w] \in Add /\ add' = [add EXCEPT ![w] = add'[w]]
         /\ add'[w].step = "select" /\ add'[w].group = add[w].group
         /\ add'[w].course = add[w].course /\ add'[w].student = add[w].student
         /\ add'[w].entity = Incremented(row[add[w].group])
         /\ UNCHANGED <<made, row, member, job, generated, clock, joined, bounds>>
<1>1. PICK e : e = Incremented(row[add[w].group])
  OBVIOUS
<1>2. PICK a : a = [add[w] EXCEPT !.step = "select", !.entity = e]
  OBVIOUS
<1>3. Adding(w) /\ add[w] \in Add
  BY DEF ReadCount, Adding, TypeOK
<1>4. e \in Row
  BY <1>1, <1>3, AddingAt, IncrementedType
<1>5. /\ a \in Add /\ a.step = "select" /\ a.entity = e /\ a.group = add[w].group
      /\ a.course = add[w].course /\ a.student = add[w].student
  BY <1>2, <1>3, <1>4 DEF Add, AddStep
<1>6. add' = [add EXCEPT ![w].step = "select", ![w].entity = e]
  BY <1>1 DEF ReadCount
<1>7. add' = [add EXCEPT ![w] = a]
  BY <1>2, <1>6 DEF TypeOK
<1>8. add'[w] = a
  BY <1>7 DEF TypeOK
<1>9. QED
  BY <1>1, <1>3, <1>5, <1>7, <1>8 DEF ReadCount

LEMMA SelectCountAdd ==
  ASSUME TypeOK, NEW w \in Worker, SelectCount(w)
  PROVE  /\ Adding(w) /\ add[w].step = "select"
         /\ add'[w] \in Add /\ add' = [add EXCEPT ![w] = add'[w]]
         /\ add'[w].step = "update" /\ add'[w].group = add[w].group
         /\ add'[w].course = add[w].course /\ add'[w].student = add[w].student
         /\ add'[w].entity = add[w].entity
         /\ Differing(row[add[w].group], add[w].entity) \subseteq add'[w].write
         /\ UNCHANGED <<made, row, member, job, generated, clock, joined, bounds>>
<1>1. PICK write : write = Differing(row[add[w].group], add[w].entity)
                             \cup (IF Full(add[w].entity) THEN {"waited"} ELSE {})
  OBVIOUS
<1>2. PICK a : a = [add[w] EXCEPT !.step = "update", !.write = write]
  OBVIOUS
<1>3. Adding(w) /\ add[w] \in Add
  BY DEF SelectCount, Adding, TypeOK
<1>4. write \in SUBSET Column
  BY <1>1 DEF Differing, Column
<1>5. /\ a \in Add /\ a.step = "update" /\ a.write = write /\ a.group = add[w].group
      /\ a.course = add[w].course /\ a.student = add[w].student /\ a.entity = add[w].entity
  BY <1>2, <1>3, <1>4 DEF Add, AddStep
<1>6. add' = [add EXCEPT ![w].step = "update", ![w].write = write]
  BY <1>1 DEF SelectCount
<1>7. add' = [add EXCEPT ![w] = a]
  BY <1>2, <1>6 DEF TypeOK
<1>8. add'[w] = a
  BY <1>7 DEF TypeOK
<1>9. QED
  BY <1>1, <1>3, <1>5, <1>7, <1>8 DEF SelectCount

LEMMA TypeAdd ==
  ASSUME TypeOK, NEW w \in Worker, AddStudent(w) \/ AbortAdd(w)
  PROVE  TypeOK'
<1>1. CASE FindAvailableGroup(w)
  <2>1. PICK g \in Group \cup {NoGroup}, step \in {"create", "join"} :
          GoOn(w, step, g) /\ (step = "join" => g \in Group /\ Exists(g))
    BY <1>1 DEF FindAvailableGroup, Available
  <2>2. step = "join" => g \in 1..made
    BY <2>1, GroupsAssumption DEF Group, Exists, TypeOK
  <2>3. UNCHANGED <<made, row, member, job, generated, clock, joined, bounds>>
    BY <1>1 DEF FindAvailableGroup
  <2>4. /\ add' \in [Worker -> Add]
        /\ \A v \in Worker : Adding(v)' => add'[v].group \in 1..made'
    BY <2>1, <2>2, <2>3, TypeGoOn DEF AddStep
  <2>5. QED
    BY <2>3, <2>4 DEF TypeOK, clock, bounds, generated
<1>2. CASE Create(w)
  <2>1. made' = made + 1 /\ made + 1 \in 1..MaxGroups /\ made' \in 0..MaxGroups
    BY <1>2, GroupsAssumption DEF Create, TypeOK
  <2>2. /\ add' \in [Worker -> Add]
        /\ \A v \in Worker : Adding(v)' => add'[v].group \in 1..made'
    <3>1. made + 1 \in 1..made'
      BY <2>1 DEF TypeOK
    <3>2. GoOn(w, "join", made + 1) /\ made + 1 \in Group
      BY <1>2, <2>1 DEF Create, Group
    <3>3. QED
      BY <2>1, <3>1, <3>2, TypeGoOn DEF AddStep
  <2>3. add[w].course \in Course
    BY DEF TypeOK, Add
  <2>4. row' \in [Group -> Row]
    BY <1>2, <2>3, NewRowType DEF Create, TypeOK
  <2>5. QED
    BY <1>2, <2>1, <2>2, <2>4 DEF Create, TypeOK, clock, bounds, generated
<1>3. CASE Join(w)
  <2>1. add[w].group \in 1..made /\ add[w].group \in Group /\ add[w].student \in Student
    BY <1>3, AddingAt DEF Join, TypeOK, Adding, Add
  <2>2. /\ member' = [member EXCEPT ![add[w].student] = add[w].group]
        /\ joined' = [joined EXCEPT ![add[w].student] = add[w].group]
        /\ GoOn(w, "count", add[w].group)
        /\ UNCHANGED <<made, row, job, generated, clock, bounds>>
    BY <1>3 DEF Join, Told
  <2>3. /\ add' \in [Worker -> Add]
        /\ \A v \in Worker : Adding(v)' => add'[v].group \in 1..made'
    BY <2>1, <2>2, TypeGoOn DEF AddStep
  <2>4. /\ member' \in [Student -> Group \cup {NoGroup}]
        /\ joined' \in [Student -> Group \cup {NoGroup}]
    BY <2>1, <2>2 DEF TypeOK
  <2>5. QED
    BY <2>2, <2>3, <2>4 DEF TypeOK, clock, bounds, generated
<1>4. ASSUME NEW a \in Add, add' = [add EXCEPT ![w] = a], a.group = add[w].group, Adding(w),
             UNCHANGED <<made, row, member, job, generated, clock, joined, bounds>>
      PROVE  TypeOK'
  <2>1. /\ add' \in [Worker -> Add]
        /\ \A v \in Worker : Adding(v)' => add'[v].group \in 1..made'
    BY <1>4, TypeCounts
  <2>2. QED
    BY <1>4, <2>1 DEF TypeOK, clock, bounds, generated
<1>5. CASE ReadCount(w)
  BY <1>4, <1>5, ReadCountAdd
<1>6. CASE SelectCount(w)
  BY <1>4, <1>6, SelectCountAdd
<1>7. add' = [add EXCEPT ![w] = NoAdd] =>
        /\ add' \in [Worker -> Add]
        /\ \A v \in Worker : Adding(v)' => add[v] = add'[v]
  BY NoAddType DEF TypeOK, Adding
<1>8. CASE SaveCount(w)
  <2>1. add[w].group \in Group /\ row[add[w].group] \in Row /\ add[w].entity \in Row
    BY <1>8, AddingAt DEF SaveCount, Adding
  <2>2. Written(row[add[w].group], add[w].entity, add[w].write) \in Row
    BY <2>1, WrittenType
  <2>3. row' = [row EXCEPT ![add[w].group] = Written(row[add[w].group], add[w].entity,
                                                     add[w].write)]
    BY <1>8 DEF SaveCount
  <2>4. row' \in [Group -> Row]
    BY <2>2, <2>3 DEF TypeOK
  <2>5. /\ add' = [add EXCEPT ![w] = NoAdd]
        /\ UNCHANGED <<made, member, job, generated, clock, joined, bounds>>
    BY <1>8 DEF SaveCount
  <2>6. QED
    BY <1>7, <2>4, <2>5 DEF TypeOK, clock, bounds, generated, Adding
<1>9. CASE AbortAdd(w)
  <2>1. /\ add' = [add EXCEPT ![w] = NoAdd] /\ aborts' \in Nat
        /\ UNCHANGED <<made, row, member, job, generated, clock, joined, adds, starts>>
    BY <1>9 DEF AbortAdd, TypeOK
  <2>2. QED
    BY <1>7, <2>1 DEF TypeOK, clock, generated, Adding
<1>10. QED
  BY <1>1, <1>2, <1>3, <1>5, <1>6, <1>8, <1>9 DEF AddStudent

\* What the steps of a job make of it.
StartOK(s) == s \in Start /\ IF s.step = "next" THEN s.at = NoGroup ELSE s.at \in s.todo

LEMMA TypeStart ==
  ASSUME TypeOK, NEW j \in Job, NEW s, StartOK(s), job' = [job EXCEPT ![j] = s]
  PROVE  /\ job' \in [Job -> Start]
         /\ \A i \in Job : IF job'[i].step = "next" THEN job'[i].at = NoGroup
                           ELSE job'[i].at \in job'[i].todo
  BY DEF TypeOK, StartOK

LEMMA FindStart ==
  ASSUME TypeOK, NEW j \in Job, FindGroupsToStart(j)
  PROVE  \E s : /\ StartOK(s) /\ s.step = "next" /\ job' = [job EXCEPT ![j] = s]
                /\ s.todo # {} => /\ s.row = row /\ s.member = member
                                  /\ \A g \in s.todo : /\ Exists(g) /\ row[g].status = "WAITING"
                                                       /\ row[g].waited >= Days(3)
<1>1. PICK age \in {Days(3), Days(3) + 1} :
        job' = [job EXCEPT ![j] = IF Due(age) = {} THEN NoStart ELSE Started(Due(age))]
  BY DEF FindGroupsToStart
<1>2. CASE Due(age) = {}
  <2>1. job' = [job EXCEPT ![j] = NoStart]
    BY <1>1, <1>2
  <2>2. StartOK(NoStart) /\ NoStart.step = "next" /\ NoStart.todo = {}
    BY NoStartType DEF StartOK
  <2>3. QED
    BY <2>1, <2>2
<1>3. CASE Due(age) # {}
  <2>1. Due(age) \in SUBSET Group
    BY DEF Due
  <2>2. \A g \in Due(age) : Exists(g) /\ row[g].status = "WAITING" /\ row[g].waited >= Days(3)
    BY <2>1 DEF Due, TypeOK, Row, Days, NotFull
  <2>3. PICK s : s = Started(Due(age))
    OBVIOUS
  <2>4. /\ StartOK(s) /\ s.step = "next" /\ s.todo = Due(age)
        /\ s.row = row /\ s.member = member
    BY <2>1, <2>3, StartedType DEF StartOK
  <2>5. job' = [job EXCEPT ![j] = s]
    BY <1>1, <1>3, <2>3
  <2>6. QED
    BY <2>2, <2>4, <2>5
<1>4. QED
  BY <1>2, <1>3

LEMMA CreateStart ==
  ASSUME TypeOK, NEW j \in Job, CreateLectures(j)
  PROVE  \E g \in job[j].todo : \E s :
           /\ g \in Group /\ job[j].step = "next" /\ job[j].at = NoGroup
           /\ StartOK(s) /\ s.step = "select" /\ s.at = g /\ s.todo = job[j].todo
           /\ s.row = job[j].row /\ s.member = job[j].member
           /\ job' = [job EXCEPT ![j] = s]
           /\ \/ lectures' = [lectures EXCEPT ![g] = @ + 1] /\ untitled' = untitled
              \/ untitled' = untitled \cup {g} /\ lectures' = lectures
<1>1. PICK g \in job[j].todo :
        /\ job' = [job EXCEPT ![j].step = "select", ![j].at = g]
        /\ \/ lectures' = [lectures EXCEPT ![g] = @ + 1] /\ untitled' = untitled
           \/ untitled' = untitled \cup {g} /\ lectures' = lectures
  BY DEF CreateLectures
<1>2. PICK s : s = [job[j] EXCEPT !.step = "select", !.at = g]
  OBVIOUS
<1>3. job[j] \in Start /\ g \in Group
  BY <1>1 DEF TypeOK, Start
<1>4. /\ StartOK(s) /\ s.step = "select" /\ s.at = g /\ s.todo = job[j].todo
      /\ s.row = job[j].row /\ s.member = job[j].member
  BY <1>1, <1>2, <1>3 DEF Start, StartOK
<1>5. job' = [job EXCEPT ![j] = s]
  BY <1>1, <1>2 DEF TypeOK
<1>6. job[j].step = "next" /\ job[j].at = NoGroup
  BY DEF CreateLectures, TypeOK
<1>7. QED
  BY <1>1, <1>3, <1>4, <1>5, <1>6

\* The group of a job that is at one.
LEMMA StartAt ==
  ASSUME TypeOK, NEW j \in Job, job[j].step # "next"
  PROVE  /\ job[j].at \in job[j].todo /\ job[j].at \in Group /\ row[job[j].at] \in Row
         /\ Activated(j) \in Row
         /\ Activated(j) = [job[j].row[job[j].at] EXCEPT !.status = "ACTIVE"]
         /\ Activated(j).status = "ACTIVE"
<1>1. job[j].at \in job[j].todo /\ job[j] \in Start
  BY DEF TypeOK
<1>2. job[j].at \in Group /\ job[j].row[job[j].at] \in Row
  BY <1>1 DEF Start
<1>3. QED
  BY <1>1, <1>2 DEF Activated, Row, GroupStatusEnum, TypeOK

LEMMA SelectStart ==
  ASSUME TypeOK, NEW j \in Job, SelectActive(j)
  PROVE  \E s : /\ job[j].step = "select"
                /\ StartOK(s) /\ s.step = "update" /\ s.at = job[j].at
                /\ s.todo = job[j].todo /\ s.row = job[j].row /\ s.member = job[j].member
                /\ s.write = Differing(row[job[j].at], Activated(j))
                /\ s.moved = {t \in Student : (member[t] = job[j].at)
                                                # (job[j].member[t] = job[j].at)}
                /\ job' = [job EXCEPT ![j] = s]
                /\ UNCHANGED <<made, row, member, add, generated, clock, joined, bounds>>
<1>1. PICK write, moved :
        /\ write = Differing(row[job[j].at], Activated(j))
        /\ moved = {t \in Student : (member[t] = job[j].at) # (job[j].member[t] = job[j].at)}
  OBVIOUS
<1>2. PICK s : s = [job[j] EXCEPT !.step = "update", !.write = write, !.moved = moved]
  OBVIOUS
<1>3. job[j] \in Start /\ job[j].at \in job[j].todo /\ job[j].step = "select"
  BY DEF TypeOK, SelectActive
<1>4. write \in SUBSET Column /\ moved \in SUBSET Student
  BY <1>1 DEF Differing
<1>5. /\ StartOK(s) /\ s.step = "update" /\ s.at = job[j].at /\ s.todo = job[j].todo
      /\ s.row = job[j].row /\ s.member = job[j].member
      /\ s.write = write /\ s.moved = moved
  BY <1>2, <1>3, <1>4 DEF Start, StartOK
<1>6. job' = [job EXCEPT ![j].step = "update", ![j].write = write, ![j].moved = moved]
  BY <1>1 DEF SelectActive
<1>7. job' = [job EXCEPT ![j] = s]
  BY <1>2, <1>6 DEF TypeOK
<1>8. QED
  BY <1>1, <1>3, <1>5, <1>7 DEF SelectActive

LEMMA DoneStart ==
  ASSUME TypeOK, NEW j \in Job, Done(j)
  PROVE  \E s : /\ StartOK(s) /\ s.step = "next" /\ job' = [job EXCEPT ![j] = s]
                /\ s.todo = job[j].todo \ {job[j].at}
                /\ s.todo # {} => s.row = job[j].row /\ s.member = job[j].member
<1>1. PICK rest : rest = job[j].todo \ {job[j].at}
  OBVIOUS
<1>2. PICK s : s = IF rest = {} THEN NoStart
                   ELSE [job[j] EXCEPT !.todo = rest, !.step = "next", !.at = NoGroup,
                                       !.write = {}, !.moved = {}]
  OBVIOUS
<1>3. job' = [job EXCEPT ![j] = s]
  BY <1>1, <1>2 DEF Done, TypeOK
<1>4. CASE rest = {}
  BY <1>1, <1>2, <1>3, <1>4, NoStartType DEF StartOK
<1>5. CASE rest # {}
  <2>1. job[j] \in Start /\ rest \in SUBSET Group
    BY <1>1 DEF TypeOK, Start
  <2>2. /\ StartOK(s) /\ s.step = "next" /\ s.todo = rest
        /\ s.row = job[j].row /\ s.member = job[j].member
    BY <1>2, <1>5, <2>1 DEF Start, StartOK
  <2>3. QED
    BY <1>1, <1>3, <2>2
<1>6. QED
  BY <1>4, <1>5

LEMMA TypeJob ==
  ASSUME TypeOK, NEW j \in Job,
         HandleGroupAutoStart(j) \/ StartReadyGroups(j) \/ StartGroup(j) \/ AbortJob(j)
  PROVE  TypeOK'
<1> DEFINE JobsOK == /\ job' \in [Job -> Start]
                     /\ \A i \in Job : IF job'[i].step = "next" THEN job'[i].at = NoGroup
                                       ELSE job'[i].at \in job'[i].todo
<1>1. ASSUME FindGroupsToStart(j), cronRan' \in BOOLEAN, starts' \in Nat PROVE TypeOK'
  <2>1. JobsOK
    BY <1>1, FindStart, TypeStart
  <2>2. UNCHANGED <<made, row, member, add, generated, slot, joined, adds, aborts>>
    BY <1>1 DEF FindGroupsToStart
  <2>3. QED
    BY <1>1, <2>1, <2>2 DEF TypeOK, generated, Adding
<1>2. CASE HandleGroupAutoStart(j)
  BY <1>1, <1>2 DEF HandleGroupAutoStart, TypeOK
<1>3. CASE StartReadyGroups(j)
  <2>1. FindGroupsToStart(j) /\ starts' = starts + 1 /\ cronRan' = cronRan
    BY <1>3 DEF StartReadyGroups
  <2>2. QED
    BY <1>1, <2>1 DEF TypeOK
<1>4. CASE CreateLectures(j)
  <2>1. JobsOK
    BY <1>4, CreateStart, TypeStart
  <2>2. lectures' \in [Group -> Nat] /\ untitled' \subseteq Group
    <3>1. PICK g \in Group : \/ lectures' = [lectures EXCEPT ![g] = @ + 1] /\ untitled' = untitled
                             \/ untitled' = untitled \cup {g} /\ lectures' = lectures
      BY <1>4, CreateStart
    <3>2. QED
      BY <3>1 DEF TypeOK
  <2>3. UNCHANGED <<made, row, member, add, clock, joined, bounds>>
    BY <1>4 DEF CreateLectures
  <2>4. QED
    BY <2>1, <2>2, <2>3 DEF TypeOK, clock, bounds, Adding
<1>5. CASE SelectActive(j)
  <2>1. JobsOK
    BY <1>5, SelectStart, TypeStart
  <2>2. UNCHANGED <<made, row, member, add, generated, clock, joined, bounds>>
    BY <1>5 DEF SelectActive
  <2>3. QED
    BY <2>1, <2>2 DEF TypeOK, clock, bounds, generated, Adding
<1>6. CASE SaveActive(j)
  <2>1. PICK g : g = job[j].at
    OBVIOUS
  <2>2. g \in Group /\ row[g] \in Row /\ Activated(j) \in Row
    BY <1>6, <2>1, StartAt DEF SaveActive
  <2>3. Written(row[g], Activated(j), job[j].write) \in Row
    BY <2>2, WrittenType
  <2>4. row' = [row EXCEPT ![g] = Written(row[g], Activated(j), job[j].write)]
    BY <1>6, <2>1 DEF SaveActive
  <2>5. row' \in [Group -> Row]
    BY <2>3, <2>4 DEF TypeOK
  <2>6. member' \in [Student -> Group \cup {NoGroup}]
    BY <1>6, <2>1, <2>2 DEF SaveActive, TypeOK
  <2>7. Done(j) /\ UNCHANGED <<made, add, generated, clock, joined, bounds>>
    BY <1>6 DEF SaveActive
  <2>8. JobsOK
    BY <2>7, DoneStart, TypeStart
  <2>9. QED
    BY <2>5, <2>6, <2>7, <2>8 DEF TypeOK, clock, bounds, generated, Adding
<1>7. CASE AbortJob(j)
  <2>1. /\ job' = [job EXCEPT ![j] = NoStart] /\ aborts' \in Nat
        /\ UNCHANGED <<made, row, member, add, generated, clock, joined, adds, starts>>
    BY <1>7 DEF AbortJob, TypeOK
  <2>2. JobsOK
    BY <2>1, NoStartType, TypeStart DEF StartOK
  <2>3. QED
    BY <2>1, <2>2 DEF TypeOK, clock, generated, Adding
<1>8. QED
  BY <1>2, <1>3, <1>4, <1>5, <1>6, <1>7 DEF StartGroup

LEMMA TypeStep == TypeOK /\ [Next]_vars => TypeOK'
<1> SUFFICES ASSUME TypeOK, [Next]_vars PROVE TypeOK'
  OBVIOUS
<1>1. ASSUME NEW w \in Worker, NEW s \in Student, NEW c \in Course, AddStudentToGroup(w, s, c)
      PROVE  TypeOK'
  <2>1. PICK a : a = [step |-> "find", student |-> s, course |-> c, group |-> NoGroup,
                      entity |-> NewRow(c), write |-> {}]
    OBVIOUS
  <2>2. a \in Add /\ a.step = "find"
    BY <2>1, NewRowType DEF Add, AddStep
  <2>3. /\ add' = [add EXCEPT ![w] = a] /\ adds' \in Nat
        /\ UNCHANGED <<made, row, member, job, generated, clock, joined, starts, aborts>>
    BY <1>1, <2>1 DEF AddStudentToGroup, TypeOK
  <2>4. /\ add' \in [Worker -> Add]
        /\ \A v \in Worker : Adding(v)' => add'[v] = add[v]
    BY <2>2, <2>3 DEF TypeOK, Adding
  <2>5. QED
    BY <2>3, <2>4 DEF TypeOK, clock, generated, Adding
<1>2. ASSUME NEW w \in Worker, AddStudent(w) \/ AbortAdd(w) PROVE TypeOK'
  BY <1>2, TypeAdd
<1>3. ASSUME NEW j \in Job,
             HandleGroupAutoStart(j) \/ StartReadyGroups(j) \/ StartGroup(j) \/ AbortJob(j)
      PROVE  TypeOK'
  BY <1>3, TypeJob
<1>4. CASE Tick
  <2>1. \A g \in Group :
          [row[g] EXCEPT !.waited = IF @ \in {NotFull, OldAge} THEN @ ELSE @ + 1] \in Row
    BY DEF TypeOK, Row, NotFull, OldAge, Days
  <2>2. row' \in [Group -> Row]
    BY <1>4, <2>1 DEF Tick
  <2>3. slot' \in Slot
    BY <1>4 DEF Tick, TypeOK, Slot, Days
  <2>4. QED
    BY <1>4, <2>2, <2>3 DEF Tick, TypeOK, bounds, generated, Adding
<1>5. CASE UNCHANGED vars
  BY <1>5 DEF vars, TypeOK, Adding
<1>6. QED
  BY <1>1, <1>2, <1>3, <1>4, <1>5 DEF Next, Cron

\* Rows, adds and jobs have their types; adds and jobs work on groups that exist.
THEOREM TypeCorrect == Spec => []TypeOK
  BY TypeInit, TypeStep, PTL DEF Spec

-----------------------------------------------------------------------------
(***************************************************************************)
(* No group is ACTIVE unprepared, whatever overlaps.  ACTIVE is written by *)
(* a job at a group it has prepared, or again by an add that read it.      *)
(***************************************************************************)
Ready(g) == lectures[g] > 0 \/ g \in untitled

Taught ==
  /\ \A g \in Group : row[g].status = "ACTIVE" => Ready(g)
  /\ \A j \in Job : job[j].at # NoGroup => Ready(job[j].at)
  /\ \A w \in Worker : (add[w].step \in {"select", "update"} /\ add[w].entity.status = "ACTIVE")
                         => Ready(add[w].group)

LEMMA TaughtInit == Init => Taught
  BY NoStartType, NoAddType DEF Init, Taught, NewRow

\* What a job has prepared stays so.
LEMMA ReadyStays ==
  ASSUME TypeOK, [Next]_vars, NEW g \in Group, Ready(g)
  PROVE  Ready(g)'
<1>1. lectures[g] \in Nat
  BY DEF TypeOK
<1>2. CASE UNCHANGED generated
  BY <1>2 DEF generated, Ready
<1>3. ASSUME NEW j \in Job, CreateLectures(j) PROVE Ready(g)'
  <2>1. \/ \E h \in Group : lectures' = [lectures EXCEPT ![h] = @ + 1] /\ untitled' = untitled
        \/ \E h \in Group : untitled' = untitled \cup {h} /\ lectures' = lectures
    BY <1>3, CreateStart
  <2>2. QED
    BY <1>1, <2>1 DEF Ready, TypeOK
<1>4. QED
  BY <1>2, <1>3
  DEF Next, vars, generated, AddStudentToGroup, AddStudent, AbortAdd, FindAvailableGroup, Create,
      Join, Told, ReadCount, SelectCount, SaveCount, StartReadyGroups, StartGroup, SelectActive,
      SaveActive, AbortJob, Cron, HandleGroupAutoStart, FindGroupsToStart, Tick

\* A step that leaves rows and jobs alone, and of the adds moves one that brings no ACTIVE.
LEMMA TaughtAdd ==
  ASSUME TypeOK, Taught, [Next]_vars, UNCHANGED <<row, job>>, NEW w \in Worker,
         \A v \in Worker \ {w} : add'[v] = add[v],
         \/ add'[w].step \notin {"select", "update"}
         \/ /\ Adding(w) /\ add'[w].group = add[w].group
            /\ add'[w].entity.status = "ACTIVE" =>
                 \/ row[add[w].group].status = "ACTIVE"
                 \/ add[w].step \in {"select", "update"} /\ add[w].entity.status = "ACTIVE"
  PROVE  Taught'
<1>1. \A j \in Job : job[j].at # NoGroup => job[j].at \in Group
  BY DEF TypeOK, Start
<1>2. \A v \in Worker : Adding(v) => add[v].group \in Group
  BY AddingAt
<1>3. \A v \in Worker : add[v].step \in {"select", "update"} => Adding(v)
  BY DEF Adding
<1>4. \A g \in Group : Ready(g) => Ready(g)'
  BY ReadyStays
<1>5. \A g \in Group : row'[g].status = "ACTIVE" => Ready(g)'
  BY <1>4 DEF Taught
<1>6. \A j \in Job : job'[j].at # NoGroup => Ready(job[j].at)'
  <2>1. TAKE j \in Job
  <2>2. PICK h : h = job[j].at
    OBVIOUS
  <2>3. h # NoGroup => Ready(h)'
    BY <1>1, <1>4, <2>2 DEF Taught
  <2>4. QED
    BY <2>2, <2>3 DEF Ready
<1>7. ASSUME NEW v \in Worker, add'[v].step \in {"select", "update"},
             add'[v].entity.status = "ACTIVE"
      PROVE  Ready(add[v].group)'
  <2>1. PICK h : h = add[v].group
    OBVIOUS
  <2>2. Adding(v) /\ add'[v].group = h
    BY <1>3, <1>7, <2>1
  <2>3. h \in Group
    BY <1>2, <2>1, <2>2
  <2>4. \/ row[h].status = "ACTIVE"
        \/ add[v].step \in {"select", "update"} /\ add[v].entity.status = "ACTIVE"
    BY <1>7, <2>1
  <2>5. Ready(h)'
    BY <1>4, <2>1, <2>3, <2>4 DEF Taught
  <2>6. QED
    BY <2>2, <2>5 DEF Ready
<1>8. QED
  BY <1>5, <1>6, <1>7 DEF Taught

\* A step that leaves the adds that save alone, and moves one job, which has prepared the
\* group it comes to.
LEMMA TaughtJob ==
  ASSUME TypeOK, Taught, [Next]_vars, NEW j \in Job, NEW s, job' = [job EXCEPT ![j] = s],
         add' = add,
         s.at # NoGroup => s.at \in Group /\ (s.at = job[j].at \/ Ready(s.at)'),
         \A g \in Group : (row[g].status # "ACTIVE" /\ row'[g].status = "ACTIVE")
                            => job[j].at = g
  PROVE  Taught'
<1>1. \A g \in Group : Ready(g) => Ready(g)'
  BY ReadyStays
<1>2. \A g \in Group : g # NoGroup
  BY DEF Group, NoGroup
<1>3. \A g \in Group : row'[g].status = "ACTIVE" => Ready(g)'
  BY <1>1, <1>2 DEF Taught
<1>4. ASSUME NEW i \in Job, job'[i].at # NoGroup PROVE Ready(job[i].at)'
  <2>1. CASE i = j
    <3>1. job'[i] = s
      BY <2>1 DEF TypeOK
    <3>2. s.at \in Group /\ (s.at = job[j].at \/ Ready(s.at)')
      BY <1>4, <3>1
    <3>3. PICK h : h = s.at
      OBVIOUS
    <3>4. CASE h = job[j].at
      <4>1. Ready(h)'
        BY <1>1, <1>2, <3>2, <3>3, <3>4 DEF Taught
      <4>2. QED
        BY <3>1, <3>3, <4>1 DEF Ready
    <3>5. CASE h # job[j].at
      BY <3>1, <3>2, <3>3, <3>5 DEF Ready
    <3>6. QED
      BY <3>4, <3>5
  <2>2. CASE i # j
    <3>1. job'[i] = job[i]
      BY <2>2 DEF TypeOK
    <3>2. PICK h : h = job[i].at
      OBVIOUS
    <3>3. h \in Group /\ Ready(h)
      BY <1>4, <3>1, <3>2 DEF TypeOK, Start, Taught
    <3>4. Ready(h)'
      BY <1>1, <3>3
    <3>5. QED
      BY <3>1, <3>2, <3>4 DEF Ready
  <2>3. QED
    BY <2>1, <2>2
<1>5. ASSUME NEW v \in Worker, add'[v].step \in {"select", "update"},
             add'[v].entity.status = "ACTIVE"
      PROVE  Ready(add[v].group)'
  <2>1. PICK h : h = add[v].group
    OBVIOUS
  <2>2. Adding(v) /\ add'[v].group = h
    BY <1>5, <2>1 DEF Adding
  <2>3. h \in Group /\ Ready(h)
    BY <1>5, <2>1, <2>2, AddingAt DEF Taught
  <2>4. Ready(h)'
    BY <1>1, <2>3
  <2>5. QED
    BY <2>2, <2>4 DEF Ready
<1>6. QED
  BY <1>3, <1>4, <1>5 DEF Taught

\* A step that writes rows of adds, and leaves jobs and the other adds alone.
LEMMA TaughtRows ==
  ASSUME TypeOK, Taught, [Next]_vars, job' = job,
         \A v \in Worker : add'[v].step \in {"select", "update"} => add'[v] = add[v],
         \A g \in Group : row'[g].status = "ACTIVE" =>
           \/ row[g].status = "ACTIVE"
           \/ \E w \in Worker : /\ add[w].step = "update" /\ add[w].group = g
                                /\ add[w].entity.status = "ACTIVE"
  PROVE  Taught'
<1>1. \A g \in Group : Ready(g) => Ready(g)'
  BY ReadyStays
<1>2. \A g \in Group : row'[g].status = "ACTIVE" => Ready(g)'
  BY <1>1 DEF Taught
<1>3. ASSUME NEW i \in Job, job'[i].at # NoGroup PROVE Ready(job[i].at)'
  <2>1. PICK h : h = job[i].at
    OBVIOUS
  <2>2. h \in Group /\ Ready(h)
    BY <1>3, <2>1 DEF TypeOK, Start, Taught
  <2>3. Ready(h)'
    BY <1>1, <2>2
  <2>4. QED
    BY <2>1, <2>3 DEF Ready
<1>4. ASSUME NEW v \in Worker, add'[v].step \in {"select", "update"},
             add'[v].entity.status = "ACTIVE"
      PROVE  Ready(add[v].group)'
  <2>1. PICK h : h = add[v].group
    OBVIOUS
  <2>2. add'[v] = add[v] /\ Adding(v)
    BY <1>4 DEF Adding
  <2>3. h \in Group /\ Ready(h)
    BY <1>4, <2>1, <2>2, AddingAt DEF Taught
  <2>4. Ready(h)'
    BY <1>1, <2>3
  <2>5. QED
    BY <2>1, <2>2, <2>4 DEF Ready
<1>5. QED
  BY <1>2, <1>3, <1>4 DEF Taught

LEMMA TaughtStep == TypeOK /\ Taught /\ [Next]_vars => Taught'
<1> SUFFICES ASSUME TypeOK, Taught, [Next]_vars PROVE Taught'
  OBVIOUS
<1>1. ASSUME NEW w \in Worker, NEW s \in Student, NEW c \in Course, AddStudentToGroup(w, s, c)
      PROVE  Taught'
  <2>1. /\ UNCHANGED <<row, job>> /\ add'[w].step = "find"
        /\ \A v \in Worker \ {w} : add'[v] = add[v]
    BY <1>1 DEF AddStudentToGroup, TypeOK
  <2>2. QED
    BY <2>1, TaughtAdd
<1>2. ASSUME NEW w \in Worker, FindAvailableGroup(w) \/ Join(w) PROVE Taught'
  <2>1. PICK step, g :
          /\ step \in {"create", "join", "count"}
          /\ add' = [add EXCEPT ![w].step = step, ![w].group = g]
    BY <1>2 DEF FindAvailableGroup, Join, Told, GoOn
  <2>2. /\ UNCHANGED <<row, job>> /\ add'[w].step = step
        /\ \A v \in Worker \ {w} : add'[v] = add[v]
    BY <1>2, <2>1 DEF FindAvailableGroup, Join, Told, TypeOK, Add
  <2>3. QED
    BY <2>1, <2>2, TaughtAdd
<1>3. ASSUME NEW w \in Worker, Create(w) PROVE Taught'
  <2>1. job' = job /\ add'[w].step = "join" /\ \A v \in Worker \ {w} : add'[v] = add[v]
    BY <1>3 DEF Create, GoOn, TypeOK, Add
  <2>2. \A g \in Group : row'[g].status = "ACTIVE" => row[g].status = "ACTIVE"
    BY <1>3 DEF Create, TypeOK, NewRow
  <2>3. QED
    BY <2>1, <2>2, TaughtRows
<1>4. ASSUME NEW w \in Worker, ReadCount(w) PROVE Taught'
  <2>1. Adding(w) /\ row[add[w].group] \in Row
    BY <1>4, ReadCountAdd, AddingAt
  <2>2. /\ UNCHANGED <<row, job>> /\ add'[w].group = add[w].group
        /\ add'[w].entity = Incremented(row[add[w].group])
        /\ \A v \in Worker \ {w} : add'[v] = add[v]
    BY <1>4, ReadCountAdd DEF TypeOK
  <2>3. add'[w].entity.status = "ACTIVE" => row[add[w].group].status = "ACTIVE"
    BY <2>1, <2>2, IncrementedType
  <2>4. QED
    BY <2>1, <2>2, <2>3, TaughtAdd
<1>5. ASSUME NEW w \in Worker, SelectCount(w) PROVE Taught'
  <2>1. /\ UNCHANGED <<row, job>> /\ Adding(w) /\ add[w].step = "select"
        /\ add'[w].group = add[w].group /\ add'[w].entity = add[w].entity
        /\ \A v \in Worker \ {w} : add'[v] = add[v]
    BY <1>5, SelectCountAdd DEF TypeOK
  <2>2. QED
    BY <2>1, TaughtAdd
<1>6. ASSUME NEW w \in Worker, SaveCount(w) PROVE Taught'
  <2>1. PICK h, e, write : h = add[w].group /\ e = add[w].entity /\ write = add[w].write
    OBVIOUS
  <2>2. Adding(w) /\ add[w].step = "update"
    BY <1>6 DEF SaveCount, Adding
  <2>3. h \in Group /\ row[h] \in Row /\ e \in Row
    BY <2>1, <2>2, AddingAt
  <2>4. row' = [row EXCEPT ![h] = Written(row[h], e, write)]
    BY <1>6, <2>1 DEF SaveCount
  <2>5. \A g \in Group : row'[g].status = "ACTIVE" =>
          row[g].status = "ACTIVE" \/ (g = h /\ e.status = "ACTIVE")
    BY <2>3, <2>4, WrittenType DEF TypeOK
  <2>6. job' = job /\ add' = [add EXCEPT ![w] = NoAdd]
    BY <1>6 DEF SaveCount
  <2>7. \A v \in Worker : add'[v].step \in {"select", "update"} => add'[v] = add[v]
    BY <2>6, NoAddType DEF TypeOK
  <2>8. QED
    BY <2>1, <2>2, <2>5, <2>6, <2>7, TaughtRows
<1>7. ASSUME NEW w \in Worker, AbortAdd(w) PROVE Taught'
  <2>1. UNCHANGED <<row, job>> /\ add' = [add EXCEPT ![w] = NoAdd]
    BY <1>7 DEF AbortAdd
  <2>2. \A v \in Worker : add'[v].step \in {"select", "update"} => add'[v] = add[v]
    BY <2>1, NoAddType DEF TypeOK
  <2>3. QED
    BY <2>1, <2>2, TaughtRows
<1>8. ASSUME NEW j \in Job, HandleGroupAutoStart(j) \/ StartReadyGroups(j) PROVE Taught'
  <2>1. FindGroupsToStart(j)
    BY <1>8 DEF HandleGroupAutoStart, StartReadyGroups
  <2>2. PICK s : StartOK(s) /\ s.step = "next" /\ job' = [job EXCEPT ![j] = s]
    BY <2>1, FindStart
  <2>3. UNCHANGED <<row, add>>
    BY <2>1 DEF FindGroupsToStart
  <2>4. QED
    BY <2>2, <2>3, TaughtJob DEF StartOK
<1>9. ASSUME NEW j \in Job, CreateLectures(j) PROVE Taught'
  <2>1. PICK g, s :
          /\ g \in Group /\ s.at = g /\ job' = [job EXCEPT ![j] = s]
          /\ \/ lectures' = [lectures EXCEPT ![g] = @ + 1] /\ untitled' = untitled
             \/ untitled' = untitled \cup {g} /\ lectures' = lectures
    BY <1>9, CreateStart
  <2>2. UNCHANGED <<row, add>>
    BY <1>9 DEF CreateLectures
  <2>3. Ready(g)'
    BY <2>1 DEF Ready, TypeOK
  <2>4. Ready(s.at)'
    BY <2>1, <2>3 DEF Ready
  <2>5. QED
    BY <2>1, <2>2, <2>4, TaughtJob
<1>10. ASSUME NEW j \in Job, SelectActive(j) PROVE Taught'
  <2>1. PICK s : s.at = job[j].at /\ job' = [job EXCEPT ![j] = s]
    BY <1>10, SelectStart
  <2>2. UNCHANGED <<row, add>>
    BY <1>10 DEF SelectActive
  <2>3. job[j].at \in Group
    BY <1>10, StartAt DEF SelectActive
  <2>4. QED
    BY <2>1, <2>2, <2>3, TaughtJob
<1>11. ASSUME NEW j \in Job, SaveActive(j) PROVE Taught'
  <2>1. PICK h : h = job[j].at
    OBVIOUS
  <2>2. h \in Group /\ row[h] \in Row /\ Activated(j) \in Row
    BY <1>11, <2>1, StartAt DEF SaveActive
  <2>3. row' = [row EXCEPT ![h] = Written(row[h], Activated(j), job[j].write)]
    BY <1>11, <2>1 DEF SaveActive
  <2>4. Done(j) /\ add' = add
    BY <1>11 DEF SaveActive
  <2>5. PICK s : StartOK(s) /\ s.step = "next" /\ job' = [job EXCEPT ![j] = s]
    BY <2>4, DoneStart
  <2>6. \A g \in Group : (row[g].status # "ACTIVE" /\ row'[g].status = "ACTIVE")
                           => job[j].at = g
    BY <2>1, <2>2, <2>3 DEF TypeOK
  <2>7. QED
    BY <2>4, <2>5, <2>6, TaughtJob DEF StartOK
<1>12. ASSUME NEW j \in Job, AbortJob(j) PROVE Taught'
  <2>1. UNCHANGED <<row, add>> /\ job' = [job EXCEPT ![j] = NoStart]
    BY <1>12 DEF AbortJob
  <2>2. QED
    BY <2>1, NoStartType, TaughtJob
<1>13. CASE Tick
  <2>1. UNCHANGED <<add, job>>
    BY <1>13 DEF Tick
  <2>2. \A g \in Group : row'[g].status = row[g].status
    BY <1>13 DEF Tick, TypeOK, Row
  <2>3. QED
    BY <2>1, <2>2, TaughtRows
<1>14. CASE UNCHANGED vars
  BY <1>14, TaughtRows DEF vars
<1>15. QED
  BY <1>1, <1>2, <1>3, <1>4, <1>5, <1>6, <1>7, <1>8, <1>9, <1>10, <1>11, <1>12, <1>13, <1>14
  DEF Next, Cron, AddStudent, StartGroup

\* Whatever overlaps, and wherever a job stops, no group is ACTIVE without a lecture, unless
\* a job found its course without topics: the status is saved after the lecture, and an add
\* that read ACTIVE may at most write it again.  (group.service.ts:153-157,
\* startGroupsIfReady; group.repository.ts, incrementStudentCount.)
THEOREM ActiveHasLectureCorrect == Spec => []ActiveHasLecture
<1>1. Taught => ActiveHasLecture
  BY DEF Taught, ActiveHasLecture, Ready
<1>2. QED
  BY TypeInit, TypeStep, TaughtInit, TaughtStep, <1>1, PTL DEF Spec

-----------------------------------------------------------------------------
(***************************************************************************)
(* Adds to a course one at a time, and not while groups start: no copy is  *)
(* stale and every save writes the row as its handler has it, a course has *)
(* one group that takes students, and no group is started twice.           *)
(***************************************************************************)
Alone ==
  /\ \A v, w \in Worker : (/\ add[v].step # "idle" /\ add[w].step # "idle"
                           /\ add[v].course = add[w].course) => v = w
  /\ \A w \in Worker, j \in Job : add[w].step = "idle" \/ job[j].todo = {}
  /\ \A i, j \in Job : (job[i].todo # {} /\ job[j].todo # {}) => i = j

\* What a step of an add, and of a job, leaves as it is.
LEMMA AddMoves ==
  ASSUME TypeOK, NEW w \in Worker, AddStudent(w) \/ AbortAdd(w)
  PROVE  /\ add[w].step # "idle" /\ job' = job
         /\ \A v \in Worker \ {w} : add'[v] = add[v]
         /\ \/ add'[w].step = "idle"
            \/ /\ add'[w].course = add[w].course
               /\ add'[w].student = add[w].student
<1>1. CASE FindAvailableGroup(w)
  <2>1. PICK step, g : /\ step \in {"create", "join"}
                       /\ add' = [add EXCEPT ![w].step = step, ![w].group = g]
    BY <1>1 DEF FindAvailableGroup, GoOn
  <2>2. QED
    BY <1>1, <2>1 DEF FindAvailableGroup, TypeOK, Add
<1>2. CASE Create(w) \/ Join(w)
  BY <1>2 DEF Create, Join, Told, GoOn, TypeOK, Add
<1>3. CASE ReadCount(w)
  BY <1>3, ReadCountAdd DEF TypeOK
<1>4. CASE SelectCount(w)
  BY <1>4, SelectCountAdd DEF TypeOK
<1>5. CASE SaveCount(w) \/ AbortAdd(w)
  BY <1>5, NoAddType DEF SaveCount, AbortAdd, TypeOK
<1>6. QED
  BY <1>1, <1>2, <1>3, <1>4, <1>5 DEF AddStudent

LEMMA JobMoves ==
  ASSUME TypeOK, NEW j \in Job, StartGroup(j) \/ AbortJob(j)
  PROVE  /\ job[j].todo # {} /\ add' = add
         /\ \A i \in Job \ {j} : job'[i] = job[i]
         /\ job'[j].todo \subseteq job[j].todo
         /\ job'[j].todo # {} => /\ job'[j].row = job[j].row
                                 /\ job'[j].member = job[j].member
<1>1. ASSUME NEW s, job' = [job EXCEPT ![j] = s]
      PROVE  job'[j] = s /\ \A i \in Job \ {j} : job'[i] = job[i]
  BY <1>1 DEF TypeOK
<1>2. CASE CreateLectures(j)
  <2>1. PICK s : /\ job[j].todo # {} /\ s.todo = job[j].todo /\ job' = [job EXCEPT ![j] = s]
                 /\ s.row = job[j].row /\ s.member = job[j].member
    BY <1>2, CreateStart
  <2>2. add' = add
    BY <1>2 DEF CreateLectures
  <2>3. QED
    BY <1>1, <2>1, <2>2
<1>3. CASE SelectActive(j)
  <2>1. PICK s : /\ s.todo = job[j].todo /\ job' = [job EXCEPT ![j] = s]
                 /\ s.row = job[j].row /\ s.member = job[j].member /\ add' = add
    BY <1>3, SelectStart
  <2>2. job[j].todo # {}
    BY <1>3, StartAt DEF SelectActive
  <2>3. QED
    BY <1>1, <2>1, <2>2
<1>4. CASE SaveActive(j)
  <2>1. Done(j) /\ add' = add
    BY <1>4 DEF SaveActive
  <2>2. PICK s : /\ s.todo = job[j].todo \ {job[j].at} /\ job' = [job EXCEPT ![j] = s]
                 /\ s.todo # {} => s.row = job[j].row /\ s.member = job[j].member
    BY <2>1, DoneStart
  <2>3. job[j].todo # {}
    BY <1>4, StartAt DEF SaveActive
  <2>4. QED
    BY <1>1, <2>1, <2>2, <2>3
<1>5. CASE AbortJob(j)
  BY <1>5, NoStartType DEF AbortJob, TypeOK
<1>6. QED
  BY <1>2, <1>3, <1>4, <1>5 DEF StartGroup

LEMMA AloneInit == Init => Alone
  BY NoAddType, NoStartType DEF Init, Alone

LEMMA FindMoves ==
  ASSUME TypeOK, ~Overlap, NEW j \in Job, FindGroupsToStart(j)
  PROVE  /\ \A w \in Worker : add[w].step = "idle"
         /\ \A i \in Job : job[i].todo = {}
         /\ add' = add
         /\ \A i \in Job \ {j} : job'[i] = job[i]
         /\ job'[j].step = "next" /\ job'[j].at = NoGroup
         /\ job'[j].todo # {} => /\ job'[j].row = row /\ job'[j].member = member
                                 /\ \A g \in job'[j].todo :
                                      /\ Exists(g) /\ row[g].status = "WAITING"
                                      /\ row[g].waited >= Days(3)
<1>1. \A w \in Worker : add[w].step = "idle"
  <2>1. TAKE w \in Worker
  <2>2. add[w].course \in Course
    BY DEF TypeOK, Add
  <2>3. QED
    BY <2>2 DEF FindGroupsToStart, AllIdle, NoneAdding
<1>2. \A i \in Job : job[i].todo = {}
  BY DEF FindGroupsToStart, AllIdle, NoneStarting
<1>3. PICK s : /\ StartOK(s) /\ s.step = "next" /\ job' = [job EXCEPT ![j] = s]
               /\ s.todo # {} => /\ s.row = row /\ s.member = member
                                 /\ \A g \in s.todo : /\ Exists(g) /\ row[g].status = "WAITING"
                                                      /\ row[g].waited >= Days(3)
  BY FindStart
<1>4. job'[j] = s /\ s.at = NoGroup /\ \A i \in Job \ {j} : job'[i] = job[i]
  BY <1>3 DEF TypeOK, StartOK
<1>5. add' = add
  BY DEF FindGroupsToStart
<1>6. QED
  BY <1>1, <1>2, <1>3, <1>4, <1>5

LEMMA AllIdleMeans ==
  ASSUME TypeOK, AllIdle
  PROVE  (\A w \in Worker : add[w].step = "idle") /\ \A j \in Job : job[j].todo = {}
  BY DEF AllIdle, NoneStarting, NoneAdding, TypeOK, Add

LEMMA Begins ==
  ASSUME TypeOK, ~Overlap, NEW w \in Worker, NEW s \in Student, NEW c \in Course,
         AddStudentToGroup(w, s, c)
  PROVE  /\ NoneStarting /\ NoneAdding(c)
         /\ add'[w].step = "find" /\ add'[w].course = c
         /\ \A v \in Worker \ {w} : add'[v] = add[v]
         /\ UNCHANGED <<made, row, member, joined, job, generated, aborts>>
  BY DEF AddStudentToGroup, TypeOK

LEMMA AloneStep == ASSUME ~Overlap PROVE TypeOK /\ Alone /\ [Next]_vars => Alone'
<1> SUFFICES ASSUME TypeOK, Alone, [Next]_vars PROVE Alone'
  OBVIOUS
<1>1. ASSUME NEW w \in Worker, NEW s \in Student, NEW c \in Course, AddStudentToGroup(w, s, c)
      PROVE  Alone'
  BY <1>1, Begins DEF Alone, NoneStarting, NoneAdding
<1>2. ASSUME NEW w \in Worker, AddStudent(w) \/ AbortAdd(w) PROVE Alone'
  BY <1>2, AddMoves DEF Alone
<1>3. ASSUME NEW j \in Job, HandleGroupAutoStart(j) \/ StartReadyGroups(j) PROVE Alone'
  BY <1>3, FindMoves DEF HandleGroupAutoStart, StartReadyGroups, Alone
<1>4. ASSUME NEW j \in Job, StartGroup(j) \/ AbortJob(j) PROVE Alone'
  <2>1. /\ job[j].todo # {} /\ add' = add
        /\ \A i \in Job \ {j} : job'[i] = job[i]
    BY <1>4, JobMoves
  <2>2. QED
    BY <2>1 DEF Alone
<1>5. CASE Tick \/ UNCHANGED vars
  BY <1>5 DEF Tick, vars, Alone
<1>6. QED
  BY <1>1, <1>2, <1>3, <1>4, <1>5 DEF Next, Cron

\* What a job has read is so, and its save is to write the new status and to move nobody;
\* a student is where the last add put it.
ReadIsSo(j) ==
  /\ job[j].member = member
  /\ \A g \in job[j].todo : /\ job[j].row[g] = row[g] /\ Exists(g)
                            /\ row[g].status = "WAITING" /\ row[g].waited >= Days(3)

SavesStatus(j) ==
  /\ Differing(row[job[j].at], Activated(j)) \subseteq job[j].write
  /\ job[j].moved = {}

Fresh ==
  /\ JoinSticks
  /\ \A j \in Job : job[j].todo # {} => ReadIsSo(j)
  /\ \A j \in Job : job[j].step = "update" => SavesStatus(j)

LEMMA FreshInit == Init => Fresh
  BY NoStartType DEF Init, Fresh, JoinSticks

LEMMA ActiveMoves ==
  ASSUME TypeOK, Fresh, NEW j \in Job, SaveActive(j)
  PROVE  LET h == job[j].at
         IN  /\ h \in Group /\ h \in job[j].todo /\ row[h] \in Row /\ Exists(h)
             /\ row[h].status = "WAITING" /\ row[h].waited >= Days(3)
             /\ row'[h] = [row[h] EXCEPT !.status = "ACTIVE"]
             /\ \A g \in Group \ {h} : row'[g] = row[g]
             /\ member' = member
             /\ UNCHANGED <<made, add, generated, joined, aborts>>
             /\ job'[j].step = "next" /\ job'[j].at = NoGroup
             /\ job'[j].todo \subseteq job[j].todo \ {h}
             /\ job'[j].todo # {} => job'[j].row = job[j].row /\ job'[j].member = job[j].member
             /\ \A i \in Job \ {j} : job'[i] = job[i]
<1>0. PICK h, e : h = job[j].at /\ e = Activated(j)
  OBVIOUS
<1>1. /\ h \in Group /\ h \in job[j].todo /\ row[h] \in Row /\ e \in Row
      /\ e = [job[j].row[h] EXCEPT !.status = "ACTIVE"] /\ job[j].step = "update"
  BY <1>0, StartAt DEF SaveActive
<1>2. /\ job[j].row[h] = row[h] /\ job[j].member = member /\ Exists(h)
      /\ row[h].status = "WAITING" /\ row[h].waited >= Days(3)
      /\ Differing(row[h], e) \subseteq job[j].write /\ job[j].moved = {}
  BY <1>0, <1>1 DEF Fresh, ReadIsSo, SavesStatus
<1>3. e.course = row[h].course
  BY <1>1, <1>2 DEF Row
<1>4. Written(row[h], e, job[j].write) = e
  BY <1>1, <1>2, <1>3, WrittenDiffering
<1>5. row' = [row EXCEPT ![h] = Written(row[h], e, job[j].write)]
  BY <1>0 DEF SaveActive
<1>6. row'[h] = [row[h] EXCEPT !.status = "ACTIVE"] /\ \A g \in Group \ {h} : row'[g] = row[g]
  BY <1>1, <1>2, <1>4, <1>5 DEF TypeOK
<1>7. member' = member
  <2>1. \A s \in Student : s \notin job[j].moved
    BY <1>2
  <2>2. member' = [s \in Student |-> CASE s \notin job[j].moved -> member[s]
                                       [] job[j].member[s] = h -> h
                                       [] OTHER -> NoGroup]
    BY <1>0 DEF SaveActive
  <2>3. \A s \in Student : member'[s] = member[s]
    <3>1. TAKE s \in Student
    <3>2. s \notin job[j].moved
      BY <2>1
    <3>3. QED
      BY <1>2, <2>2, <3>2 DEF TypeOK
  <2>4. member \in [Student -> Group \cup {NoGroup}]
        /\ member' \in [Student -> Group \cup {NoGroup}]
    BY TypeJob DEF TypeOK, StartGroup
  <2>5. QED
    BY <2>3, <2>4
<1>8. UNCHANGED <<made, add, generated, joined, aborts>> /\ Done(j)
  BY DEF SaveActive, bounds
<1>9. PICK s : /\ StartOK(s) /\ s.step = "next" /\ job' = [job EXCEPT ![j] = s]
               /\ s.todo = job[j].todo \ {h}
               /\ s.todo # {} => s.row = job[j].row /\ s.member = job[j].member
  BY <1>0, <1>8, DoneStart
<1>10. job'[j] = s /\ s.at = NoGroup /\ \A i \in Job \ {j} : job'[i] = job[i]
  BY <1>9 DEF TypeOK, StartOK
<1>11. QED
  BY <1>0, <1>1, <1>2, <1>6, <1>7, <1>8, <1>9, <1>10

\* A step of an add touches no job, and no job is in flight.
LEMMA FreshAdd ==
  ASSUME TypeOK, Alone, Fresh, NEW w \in Worker, AddStudent(w) \/ AbortAdd(w)
  PROVE  Fresh'
<1>1. job' = job /\ \A j \in Job : job[j].todo = {}
  BY AddMoves DEF Alone
<1>2. \A j \in Job : job[j].step # "update"
  BY <1>1 DEF TypeOK
<1>3. JoinSticks'
  <2>1. CASE Join(w)
    <3>1. member' = [member EXCEPT ![add[w].student] = add[w].group]
          /\ joined' = [joined EXCEPT ![add[w].student] = add[w].group]
      BY <2>1 DEF Join, Told
    <3>2. QED
      BY <3>1 DEF TypeOK, Fresh, JoinSticks
  <2>2. CASE ~Join(w)
    BY <2>2 DEF AddStudent, AbortAdd, FindAvailableGroup, Create, ReadCount, SelectCount,
       SaveCount, Fresh, JoinSticks
  <2>3. QED
    BY <2>1, <2>2
<1>4. QED
  BY <1>1, <1>2, <1>3 DEF Fresh

\* A step that changes no row, member or group count, and moves at most one job.
LEMMA FreshJob ==
  ASSUME TypeOK, Fresh, UNCHANGED <<row, member, joined, made>>, NEW j \in Job,
         \A i \in Job \ {j} : job'[i] = job[i],
         job'[j].todo # {} => ReadIsSo(j)', job'[j].step = "update" => SavesStatus(j)'
  PROVE  Fresh'
<1>1. JoinSticks'
  BY DEF Fresh, JoinSticks
<1>2. \A i \in Job \ {j} : /\ job'[i].todo # {} => ReadIsSo(i)'
                           /\ job'[i].step = "update" => SavesStatus(i)'
  BY DEF Fresh, ReadIsSo, SavesStatus, Exists, Activated
<1>3. QED
  BY <1>1, <1>2 DEF Fresh

LEMMA FreshSelect ==
  ASSUME TypeOK, Fresh, NEW j \in Job, SelectActive(j)
  PROVE  Fresh'
<1>1. PICK h : h = job[j].at
  OBVIOUS
<1>2. PICK s : /\ s.at = h /\ s.todo = job[j].todo /\ s.row = job[j].row
               /\ s.member = job[j].member
               /\ s.write = Differing(row[h], Activated(j))
               /\ s.moved = {t \in Student : (member[t] = h) # (job[j].member[t] = h)}
               /\ job' = [job EXCEPT ![j] = s]
               /\ UNCHANGED <<made, row, member, joined>>
  BY <1>1, SelectStart
<1>3. job'[j] = s /\ \A i \in Job \ {j} : job'[i] = job[i]
  BY <1>2 DEF TypeOK
<1>4. ReadIsSo(j) /\ h \in job[j].todo
  BY <1>1, StartAt DEF SelectActive, Fresh
<1>5. ReadIsSo(j)'
  BY <1>2, <1>3, <1>4 DEF ReadIsSo, Exists
<1>6. s.moved = {}
  BY <1>2, <1>4 DEF ReadIsSo
<1>7. Activated(j)' = Activated(j)
  BY <1>1, <1>2, <1>3 DEF Activated
<1>8. SavesStatus(j)'
  <2>1. PICK e : e = Activated(j)
    OBVIOUS
  <2>2. row' = row /\ job'[j].at = h /\ Activated(j)' = e /\ job'[j].moved = {}
        /\ job'[j].write = Differing(row[h], e)
    BY <1>2, <1>3, <1>6, <1>7, <2>1
  <2>3. QED
    BY <2>2 DEF SavesStatus, Differing
<1>9. QED
  BY <1>2, <1>3, <1>5, <1>8, FreshJob

LEMMA FreshStep ==
  ASSUME ~Overlap
  PROVE  TypeOK /\ Alone /\ Fresh /\ [Next]_vars => Fresh'
<1> SUFFICES ASSUME TypeOK, Alone, Fresh, [Next]_vars PROVE Fresh'
  OBVIOUS
<1>0. ASSUME UNCHANGED <<row, member, joined, made, job>> PROVE Fresh'
  BY <1>0 DEF Fresh, JoinSticks, ReadIsSo, SavesStatus, Exists, Activated
<1>1. ASSUME NEW w \in Worker, NEW s \in Student, NEW c \in Course, AddStudentToGroup(w, s, c)
      PROVE  Fresh'
  BY <1>0, <1>1, Begins
<1>2. ASSUME NEW w \in Worker, AddStudent(w) \/ AbortAdd(w) PROVE Fresh'
  BY <1>2, FreshAdd
<1>3. ASSUME NEW j \in Job, HandleGroupAutoStart(j) \/ StartReadyGroups(j) PROVE Fresh'
  <2>1. FindGroupsToStart(j)
    BY <1>3 DEF HandleGroupAutoStart, StartReadyGroups
  <2>2. UNCHANGED <<row, member, joined, made>>
    BY <2>1 DEF FindGroupsToStart
  <2>3. /\ \A i \in Job \ {j} : job'[i] = job[i]
        /\ job'[j].step = "next"
        /\ job'[j].todo # {} => /\ job'[j].row = row /\ job'[j].member = member
                                /\ \A g \in job'[j].todo :
                                     /\ Exists(g) /\ row[g].status = "WAITING"
                                     /\ row[g].waited >= Days(3)
    BY <2>1, FindMoves
  <2>4. job'[j].todo # {} => ReadIsSo(j)'
    BY <2>2, <2>3 DEF ReadIsSo, Exists
  <2>5. QED
    BY <2>2, <2>3, <2>4, FreshJob
<1>4. ASSUME NEW j \in Job, CreateLectures(j) PROVE Fresh'
  <2>1. PICK s : /\ s.step = "select" /\ s.todo = job[j].todo /\ job[j].todo # {}
                 /\ s.row = job[j].row /\ s.member = job[j].member
                 /\ job' = [job EXCEPT ![j] = s]
    BY <1>4, CreateStart
  <2>2. UNCHANGED <<row, member, joined, made>>
    BY <1>4 DEF CreateLectures
  <2>3. job'[j] = s /\ \A i \in Job \ {j} : job'[i] = job[i]
    BY <2>1 DEF TypeOK
  <2>4. ReadIsSo(j)'
    BY <2>1, <2>2, <2>3 DEF Fresh, ReadIsSo, Exists
  <2>5. QED
    BY <2>1, <2>2, <2>3, <2>4, FreshJob
<1>5. ASSUME NEW j \in Job, SelectActive(j) PROVE Fresh'
  BY <1>5, FreshSelect
<1>6. ASSUME NEW j \in Job, SaveActive(j) PROVE Fresh'
  <2>1. PICK h : h = job[j].at
    OBVIOUS
  <2>2. /\ member' = member /\ joined' = joined /\ made' = made /\ h \in job[j].todo
        /\ job'[j].step = "next" /\ job'[j].todo \subseteq job[j].todo \ {h}
        /\ job'[j].todo # {} => job'[j].row = job[j].row /\ job'[j].member = job[j].member
        /\ \A i \in Job \ {j} : job'[i] = job[i]
        /\ \A g \in Group \ {h} : row'[g] = row[g]
    BY <1>6, <2>1, ActiveMoves
  <2>3. \A i \in Job \ {j} : job[i].todo = {} /\ job[i].step # "update"
    BY <2>2 DEF Alone, TypeOK
  <2>4. job[j].todo \subseteq Group
    BY DEF TypeOK, Start
  <2>5. job'[j].todo # {} => ReadIsSo(j)'
    BY <2>2, <2>4 DEF Fresh, ReadIsSo, Exists
  <2>6. QED
    BY <2>2, <2>3, <2>5 DEF Fresh, JoinSticks
<1>7. ASSUME NEW j \in Job, AbortJob(j) PROVE Fresh'
  <2>1. /\ UNCHANGED <<row, member, joined, made>> /\ job'[j] = NoStart
        /\ \A i \in Job \ {j} : job'[i] = job[i]
    BY <1>7 DEF AbortJob, TypeOK
  <2>2. QED
    BY <2>1, NoStartType, FreshJob
<1>8. CASE Tick
  <2>1. \A j \in Job : job[j].todo = {} /\ job[j].step # "update"
    BY <1>8, AllIdleMeans DEF Tick, TypeOK
  <2>2. QED
    BY <1>8, <2>1 DEF Tick, Fresh, JoinSticks
<1>9. CASE UNCHANGED vars
  BY <1>0, <1>9 DEF vars
<1>10. QED
  BY <1>1, <1>2, <1>3, <1>4, <1>5, <1>6, <1>7, <1>8, <1>9 DEF Next, Cron, StartGroup

\* When adds and starts do not overlap, a student is in the group it was put into last: the
\* save of a group that starts, which writes its members, moves nobody.
\* (group.service.ts:157, startGroupsIfReady.)
THEOREM JoinSticksCorrect == ASSUME ~Overlap PROVE Spec => []JoinSticks
<1>1. Fresh => JoinSticks
  BY DEF Fresh
<1>2. /\ TypeOK /\ Alone /\ [Next]_vars => Alone'
      /\ TypeOK /\ Alone /\ Fresh /\ [Next]_vars => Fresh'
  BY AloneStep, FreshStep
<1>3. QED
  BY TypeInit, TypeStep, AloneInit, FreshInit, <1>1, <1>2, PTL DEF Spec

\* By its own columns a group takes students exactly while it has seats, and has no fillAt.
Closed(r) == /\ r.status = "FILLING" <=> ~Full(r)
             /\ r.status = "FILLING" <=> r.waited = NotFull

\* An add works on the group of its course that takes students, counts what the row is, and
\* is to write what differs.
Counts(w) ==
  /\ add[w].step \in {"select", "update"} => add[w].entity = Incremented(row[add[w].group])
  /\ add[w].step = "update" =>
       Differing(row[add[w].group], add[w].entity) \subseteq add[w].write

Filling ==
  /\ OneFillingGroup
  /\ \A g \in Group : Closed(row[g])
  /\ \A g \in Group : ~Exists(g) => row[g].status = "FILLING" /\ row[g].count = 0
  /\ \A w \in Worker : add[w].step = "create" =>
       \A g \in Group : (Exists(g) /\ row[g].course = add[w].course) => row[g].status # "FILLING"
  /\ \A w \in Worker : Adding(w) => /\ row[add[w].group].course = add[w].course
                                    /\ row[add[w].group].status = "FILLING"
  /\ \A w \in Worker : Counts(w)

LEMMA NewRowClosed == \A c : Closed(NewRow(c))
  BY GroupsAssumption DEF Closed, NewRow, Full

LEMMA IncrementedClosed ==
  ASSUME NEW r \in Row, Closed(r)
  PROVE  Closed(Incremented(r))
<1> DEFINE counted == [r EXCEPT !.count = @ + 1]
           shut == [counted EXCEPT !.status = "WAITING", !.waited = 0]
<1>1. /\ counted.count = r.count + 1 /\ counted.status = r.status /\ counted.waited = r.waited
      /\ shut.count = r.count + 1 /\ shut.status = "WAITING" /\ shut.waited = 0
      /\ Incremented(r) = IF Full(counted) THEN shut ELSE counted
      /\ r.count \in Nat
  BY CountedType DEF Row
<1> HIDE DEF counted, shut
<1>2. CASE Full(counted)
  BY <1>1, <1>2 DEF Closed, Full, NotFull
<1>3. CASE ~Full(counted)
  BY <1>1, <1>3, GroupsAssumption DEF Closed, Full
<1>4. QED
  BY <1>2, <1>3

LEMMA FillingInit == Init => Filling
<1> SUFFICES ASSUME Init PROVE Filling
  OBVIOUS
<1>1. OneFillingGroup
  BY DEF Init, OneFillingGroup, Exists, Group
<1>2. \A g \in Group : Closed(row[g]) /\ row[g].status = "FILLING" /\ row[g].count = 0
  BY NewRowClosed DEF Init, NewRow
<1>3. \A w \in Worker : add[w].step = "idle"
  BY NoAddType DEF Init
<1>4. QED
  BY <1>1, <1>2, <1>3 DEF Filling, Adding, Counts

\* A step that changes no row, and of the adds at most some that stay out of a group.
LEMMA FillingReads ==
  ASSUME Filling, UNCHANGED <<row, made>>,
         \A w \in Worker : add'[w] = add[w] \/ add'[w].step \in {"idle", "find"}
  PROVE  Filling'
<1>1. OneFillingGroup'
  BY DEF Filling, OneFillingGroup, Exists
<1>2. \A w \in Worker : Counts(w)'
  BY DEF Filling, Counts
<1>3. \A g \in Group : Closed(row[g])'
  BY DEF Filling
<1>4. QED
  BY <1>1, <1>2, <1>3 DEF Filling, Adding, Exists

\* A step that changes no row, and moves one add that is at its group.
LEMMA FillingCounts ==
  ASSUME TypeOK, Filling, UNCHANGED <<row, made>>, NEW w \in Worker, Adding(w),
         \A v \in Worker \ {w} : add'[v] = add[v], add'[w].step # "create",
         add'[w].group = add[w].group, add'[w].course = add[w].course, Counts(w)'
  PROVE  Filling'
<1>1. OneFillingGroup'
  BY DEF Filling, OneFillingGroup, Exists
<1>2. \A v \in Worker : Counts(v)'
  BY DEF Filling, Counts
<1>3. \A g \in Group : Closed(row[g])'
  BY DEF Filling
<1>4. QED
  BY <1>1, <1>2, <1>3 DEF Filling, Adding, Exists

\* The save of a count writes the row as the add has it.
LEMMA CountMoves ==
  ASSUME TypeOK, Filling, NEW w \in Worker, SaveCount(w)
  PROVE  LET h == add[w].group
         IN  /\ h \in Group /\ row[h] \in Row /\ Exists(h) /\ Adding(w)
             /\ row[h].status = "FILLING" /\ row[h].course = add[w].course
             /\ row' = [row EXCEPT ![h] = Incremented(row[h])]
             /\ row'[h] = Incremented(row[h])
             /\ \A g \in Group \ {h} : row'[g] = row[g]
             /\ UNCHANGED <<made, member, job, generated, joined, aborts>>
             /\ add[w].step = "update" /\ add'[w].step = "idle"
             /\ \A v \in Worker \ {w} : add'[v] = add[v]
<1>1. PICK h, e : h = add[w].group /\ e = add[w].entity
  OBVIOUS
<1>2. Adding(w) /\ add[w].step = "update"
  BY DEF SaveCount, Adding
<1>3. h \in Group /\ row[h] \in Row /\ Exists(h) /\ e \in Row
  BY <1>1, <1>2, AddingAt
<1>4. /\ row[h].status = "FILLING" /\ row[h].course = add[w].course
      /\ e = Incremented(row[h]) /\ Differing(row[h], e) \subseteq add[w].write
  BY <1>1, <1>2 DEF Filling, Counts
<1>5. e.course = row[h].course
  BY <1>3, <1>4, IncrementedType
<1>6. Written(row[h], e, add[w].write) = e
  BY <1>3, <1>4, <1>5, WrittenDiffering
<1>7. /\ row' = [row EXCEPT ![h] = Written(row[h], e, add[w].write)]
      /\ add' = [add EXCEPT ![w] = NoAdd]
      /\ UNCHANGED <<made, member, job, generated, joined, aborts>>
  BY <1>1 DEF SaveCount, bounds
<1>8. row' = [row EXCEPT ![h] = Incremented(row[h])]
  BY <1>4, <1>6, <1>7
<1>9. row'[h] = Incremented(row[h]) /\ \A g \in Group \ {h} : row'[g] = row[g]
  BY <1>3, <1>8 DEF TypeOK
<1>10. add'[w].step = "idle" /\ \A v \in Worker \ {w} : add'[v] = add[v]
  BY <1>7, NoAddType DEF TypeOK
<1>11. QED
  BY <1>1, <1>2, <1>3, <1>4, <1>7, <1>8, <1>9, <1>10

LEMMA FillingFind ==
  ASSUME TypeOK, Filling, NEW w \in Worker, FindAvailableGroup(w)
  PROVE  Filling'
<1>1. PICK step, g :
        /\ step \in {"create", "join"}
        /\ add' = [add EXCEPT ![w].step = step, ![w].group = g]
        /\ step = "create" => Available(add[w].course) = {}
        /\ step = "join" => g \in Available(add[w].course)
  BY DEF FindAvailableGroup, GoOn
<1>2. /\ add'[w].step = step /\ add'[w].group = g /\ add'[w].course = add[w].course
      /\ UNCHANGED <<row, made>> /\ \A v \in Worker \ {w} : add'[v] = add[v]
  BY <1>1 DEF FindAvailableGroup, TypeOK, Add
<1>3. OneFillingGroup' /\ \A h \in Group : Closed(row[h])'
  BY <1>2 DEF Filling, OneFillingGroup, Exists
<1>4. step = "create" =>
        \A h \in Group : (Exists(h) /\ row[h].course = add[w].course) => row[h].status # "FILLING"
  BY <1>1 DEF Available
<1>5. step = "join" => row[g].course = add[w].course /\ row[g].status = "FILLING"
  BY <1>1 DEF Available
<1>6. \A v \in Worker : Counts(v)'
  BY <1>1, <1>2 DEF Filling, Counts
<1>7. \A v \in Worker : Adding(v)' => (v = w /\ step = "join") \/ (v # w /\ Adding(v))
  BY <1>1, <1>2 DEF Adding
<1>8. QED
  BY <1>2, <1>3, <1>4, <1>5, <1>6, <1>7 DEF Filling, Exists

LEMMA FillingCreate ==
  ASSUME TypeOK, Alone, Filling, NEW w \in Worker, Create(w)
  PROVE  Filling'
<1>0. PICK c, h : c = add[w].course /\ h = made + 1
  OBVIOUS
<1>1. /\ \A v \in Worker \ {w} : add'[v] = add[v]
      /\ \A v \in Worker \ {w} : add[v].step # "idle" => add[v].course # c
  BY <1>0, AddMoves DEF Alone, AddStudent
<1>2. h \in Group /\ made \in Nat /\ made' = h /\ h = made + 1
  BY <1>0, GroupsAssumption DEF Create, TypeOK, Group
<1>3. row'[h] = NewRow(c) /\ \A g \in Group : g # h => row'[g] = row[g]
  BY <1>0, <1>2 DEF Create, TypeOK
<1>4. add'[w].step = "join" /\ add'[w].group = h /\ add'[w].course = c
  BY <1>0 DEF Create, GoOn, TypeOK, Add
<1>5. /\ NewRow(c).status = "FILLING" /\ NewRow(c).course = c /\ NewRow(c).count = 0
      /\ Closed(NewRow(c))
  BY NewRowClosed DEF NewRow
<1>6. \A v \in Worker : Adding(v) => add[v].group \in Group /\ add[v].group # h
  BY <1>2, AddingAt DEF Exists, Group
<1>7. \A g \in Group : (g <= made /\ row[g].course = c) => row[g].status # "FILLING"
  BY <1>0 DEF Create, Filling, Exists
<1>8. \A g \in Group : (g <= made' <=> g <= made \/ g = h) /\ (g <= made => g # h)
  BY <1>2 DEF Group
<1>9. OneFillingGroup'
  BY <1>3, <1>5, <1>7, <1>8 DEF Filling, OneFillingGroup, Exists
<1>10. ASSUME NEW v \in Worker, add'[v].step = "create", NEW g \in Group,
              g <= made', row'[g].course = add'[v].course
       PROVE  row'[g].status # "FILLING"
  <2>1. v # w /\ add'[v] = add[v] /\ add[v].course # c
    BY <1>1, <1>4, <1>10
  <2>2. g # h
    BY <1>3, <1>5, <1>10, <2>1
  <2>3. QED
    BY <1>3, <1>8, <1>10, <2>1, <2>2 DEF Filling, Exists
<1>11. ASSUME NEW v \in Worker, Adding(v)'
       PROVE  /\ row'[add'[v].group].course = add'[v].course
              /\ row'[add'[v].group].status = "FILLING"
  <2>1. CASE v = w
    BY <1>3, <1>4, <1>5, <2>1
  <2>2. CASE v # w
    <3>1. add'[v] = add[v] /\ Adding(v)
      BY <1>1, <1>11, <2>2 DEF Adding
    <3>2. QED
      BY <1>3, <1>6, <3>1 DEF Filling
  <2>3. QED
    BY <2>1, <2>2
<1>12. ASSUME NEW v \in Worker PROVE Counts(v)'
  <2>1. CASE v = w
    BY <1>4, <2>1 DEF Counts
  <2>2. CASE add[v].step \notin {"select", "update"}
    BY <1>1, <2>1, <2>2 DEF Counts
  <2>3. CASE v # w /\ add[v].step \in {"select", "update"}
    <3>1. add'[v] = add[v] /\ row'[add[v].group] = row[add[v].group]
      BY <1>1, <1>3, <1>6, <2>3 DEF Adding
    <3>2. QED
      BY <2>3, <3>1 DEF Filling, Counts
  <2>4. QED
    BY <2>1, <2>2, <2>3
<1>13. \A g \in Group : Closed(row[g])'
  <2>1. TAKE g \in Group
  <2>2. Closed(row'[g])
    BY <1>3, <1>5 DEF Filling
  <2>3. QED
    BY <2>2 DEF Closed, Full
<1>14. \A g \in Group : ~Exists(g)' => row'[g].status = "FILLING" /\ row'[g].count = 0
  BY <1>3, <1>5, <1>8 DEF Filling, Exists
<1>15. QED
  BY <1>9, <1>10, <1>11, <1>12, <1>13, <1>14 DEF Filling, Exists

LEMMA FillingSaveCount ==
  ASSUME TypeOK, Alone, Filling, NEW w \in Worker, SaveCount(w)
  PROVE  Filling'
<1>0. PICK h : h = add[w].group
  OBVIOUS
<1>1. /\ h \in Group /\ row[h] \in Row /\ Exists(h) /\ Adding(w)
      /\ row[h].status = "FILLING" /\ row[h].course = add[w].course
      /\ row'[h] = Incremented(row[h]) /\ \A g \in Group \ {h} : row'[g] = row[g]
      /\ made' = made /\ add[w].step = "update" /\ add'[w].step = "idle"
      /\ \A v \in Worker \ {w} : add'[v] = add[v]
  BY <1>0, CountMoves
<1>2. \A v \in Worker \ {w} : add[v].step # "idle" => add[v].course # add[w].course
  BY <1>1 DEF Alone
<1>3. /\ row'[h].course = row[h].course /\ row'[h].status \in {"FILLING", "WAITING"}
  BY <1>1, IncrementedType
<1>4. \A v \in Worker \ {w} : Adding(v) => add[v].group \in Group \ {h}
  BY <1>1, <1>2, AddingAt DEF Adding, Filling
<1>5. OneFillingGroup'
  BY <1>1, <1>3 DEF Filling, OneFillingGroup, Exists
<1>6. \A g \in Group : Closed(row[g])'
  <2>1. TAKE g \in Group
  <2>2. Closed(row'[g])
    BY <1>1, IncrementedClosed DEF Filling
  <2>3. QED
    BY <2>2 DEF Closed, Full
<1>7. \A v \in Worker \ {w} : add[v].step = "create" =>
        \A g \in Group : (Exists(g) /\ row'[g].course = add[v].course) => row'[g].status # "FILLING"
  BY <1>1, <1>2, <1>3 DEF Filling, Exists
<1>8. ASSUME NEW v \in Worker, Adding(v)'
      PROVE  /\ row'[add'[v].group].course = add'[v].course
             /\ row'[add'[v].group].status = "FILLING"
  <2>1. v # w /\ add'[v] = add[v] /\ Adding(v)
    BY <1>1, <1>8 DEF Adding
  <2>2. QED
    BY <1>1, <1>4, <2>1 DEF Filling
<1>9. ASSUME NEW v \in Worker PROVE Counts(v)'
  <2>1. CASE v = w
    BY <1>1, <2>1 DEF Counts
  <2>2. CASE v # w /\ add[v].step \notin {"select", "update"}
    BY <1>1, <2>2 DEF Counts
  <2>3. CASE v # w /\ add[v].step \in {"select", "update"}
    <3>1. add'[v] = add[v] /\ row'[add[v].group] = row[add[v].group]
      BY <1>1, <1>4, <2>3 DEF Adding
    <3>2. QED
      BY <2>3, <3>1 DEF Filling, Counts
  <2>4. QED
    BY <2>1, <2>2, <2>3
<1>10. \A g \in Group : ~Exists(g)' => row'[g].status = "FILLING" /\ row'[g].count = 0
  BY <1>1 DEF Filling, Exists
<1>11. \A v \in Worker : add'[v].step = "create" => v # w /\ add'[v] = add[v]
  BY <1>1
<1>12. QED
  BY <1>1, <1>5, <1>6, <1>7, <1>8, <1>9, <1>10, <1>11 DEF Filling, Exists

LEMMA FillingAdd ==
  ASSUME TypeOK, Alone, Filling, NEW w \in Worker, AddStudent(w)
  PROVE  Filling'
<1>1. \A v \in Worker \ {w} : add'[v] = add[v]
  BY AddMoves
<1>2. CASE Join(w)
  <2>1. /\ Adding(w) /\ add'[w].step = "count" /\ add'[w].group = add[w].group
        /\ add'[w].course = add[w].course /\ UNCHANGED <<row, made>>
    BY <1>2 DEF Join, Told, GoOn, TypeOK, Add, Adding
  <2>2. Counts(w)'
    BY <2>1 DEF Counts
  <2>3. QED
    BY <1>1, <2>1, <2>2, FillingCounts
<1>3. CASE ReadCount(w)
  <2>1. /\ Adding(w) /\ add'[w].step = "select" /\ add'[w].group = add[w].group
        /\ add'[w].course = add[w].course /\ UNCHANGED <<row, made>>
        /\ add'[w].entity = Incremented(row[add[w].group])
    BY <1>3, ReadCountAdd
  <2>2. Counts(w)'
    BY <2>1 DEF Counts
  <2>3. QED
    BY <1>1, <2>1, <2>2, FillingCounts
<1>4. CASE SelectCount(w)
  <2>1. /\ Adding(w) /\ add[w].step = "select"
        /\ add'[w].step = "update" /\ add'[w].group = add[w].group
        /\ add'[w].course = add[w].course /\ add'[w].entity = add[w].entity
        /\ Differing(row[add[w].group], add[w].entity) \subseteq add'[w].write
        /\ UNCHANGED <<row, made>>
    BY <1>4, SelectCountAdd
  <2>2. Counts(w)'
    BY <2>1 DEF Filling, Counts
  <2>3. QED
    BY <1>1, <2>1, <2>2, FillingCounts
<1>5. QED
  BY <1>2, <1>3, <1>4, FillingFind, FillingCreate, FillingSaveCount DEF AddStudent

\* A group that starts takes no students, and no add is in flight.
LEMMA FillingStart ==
  ASSUME TypeOK, Alone, Fresh, Filling, NEW j \in Job, StartGroup(j)
  PROVE  Filling'
<1>1. job[j].todo # {} /\ add' = add
  BY JobMoves
<1>2. \A w \in Worker : add[w].step = "idle"
  BY <1>1 DEF Alone
<1>3. CASE CreateLectures(j) \/ SelectActive(j)
  BY <1>1, <1>3, FillingReads DEF CreateLectures, SelectActive
<1>4. CASE SaveActive(j)
  <2>0. PICK h : h = job[j].at
    OBVIOUS
  <2>1. /\ h \in Group /\ row[h] \in Row /\ Exists(h) /\ row[h].status = "WAITING"
        /\ row'[h] = [row[h] EXCEPT !.status = "ACTIVE"]
        /\ \A g \in Group \ {h} : row'[g] = row[g]
        /\ made' = made
    BY <1>4, <2>0, ActiveMoves
  <2>2. /\ row'[h].status = "ACTIVE" /\ row'[h].count = row[h].count
        /\ row'[h].waited = row[h].waited
    BY <2>1 DEF Row
  <2>3. \A g \in Group : row'[g].status = "FILLING" => g # h /\ row'[g] = row[g]
    BY <2>1, <2>2
  <2>4. OneFillingGroup'
    <3>1. made' = made /\ OneFillingGroup
      BY <2>1 DEF Filling
    <3>2. QED
      BY <2>3, <3>1 DEF OneFillingGroup, Exists
  <2>5. ASSUME NEW g \in Group PROVE Closed(row[g])'
    <3>1. CASE g # h
      <4>1. row'[g] = row[g] /\ Closed(row[g])
        BY <2>1, <3>1 DEF Filling
      <4>2. QED
        BY <4>1 DEF Closed, Full
    <3>2. CASE g = h
      <4>1. Closed(row[h]) /\ row[h].status = "WAITING"
        BY <2>1 DEF Filling
      <4>2. QED
        BY <2>2, <3>2, <4>1 DEF Closed, Full
    <3>3. QED
      BY <3>1, <3>2
  <2>6. \A g \in Group : ~Exists(g)' => row'[g].status = "FILLING" /\ row'[g].count = 0
    BY <2>1 DEF Filling, Exists
  <2>7. QED
    BY <1>1, <1>2, <2>4, <2>5, <2>6 DEF Filling, Adding, Counts
<1>5. QED
  BY <1>3, <1>4 DEF StartGroup

LEMMA FillingStep ==
  ASSUME ~Overlap
  PROVE  TypeOK /\ Alone /\ Fresh /\ Filling /\ [Next]_vars => Filling'
<1> SUFFICES ASSUME TypeOK, Alone, Fresh, Filling, [Next]_vars PROVE Filling'
  OBVIOUS
<1>1. ASSUME NEW w \in Worker, NEW s \in Student, NEW c \in Course, AddStudentToGroup(w, s, c)
      PROVE  Filling'
  BY <1>1, Begins, FillingReads
<1>2. ASSUME NEW w \in Worker, AddStudent(w) PROVE Filling'
  BY <1>2, FillingAdd
<1>3. ASSUME NEW w \in Worker, AbortAdd(w) PROVE Filling'
  BY <1>3, NoAddType, FillingReads DEF AbortAdd, TypeOK
<1>4. ASSUME NEW j \in Job, \/ HandleGroupAutoStart(j) \/ StartReadyGroups(j) \/ AbortJob(j)
      PROVE Filling'
  BY <1>4, FillingReads DEF HandleGroupAutoStart, StartReadyGroups, AbortJob, FindGroupsToStart
<1>5. ASSUME NEW j \in Job, StartGroup(j) PROVE Filling'
  BY <1>5, FillingStart
<1>6. CASE Tick
  <2>1. \A w \in Worker : add[w].step = "idle"
    BY <1>6, AllIdleMeans DEF Tick
  <2>2. \A g \in Group : /\ row'[g].status = row[g].status /\ row'[g].course = row[g].course
                         /\ row'[g].count = row[g].count
                         /\ row'[g].waited = NotFull <=> row[g].waited = NotFull
    BY <1>6 DEF Tick, TypeOK, Row, NotFull
  <2>3. UNCHANGED <<made, add>>
    BY <1>6 DEF Tick
  <2>4. OneFillingGroup'
    BY <2>2, <2>3 DEF Filling, OneFillingGroup, Exists
  <2>5. \A g \in Group : Closed(row[g])'
    BY <2>2 DEF Filling, Closed, Full
  <2>6. QED
    BY <2>1, <2>2, <2>3, <2>4, <2>5 DEF Filling, Adding, Counts, Exists
<1>7. CASE UNCHANGED vars
  BY <1>7, FillingReads DEF vars
<1>8. QED
  BY <1>1, <1>2, <1>3, <1>4, <1>5, <1>6, <1>7 DEF Next, Cron

\* When the adds to a course come one at a time, and not while groups start, the course has
\* one group that takes students: no add creates a second one, also after others were
\* abandoned.  (group.service.ts:68, addStudentToGroup.)
THEOREM OneFillingGroupCorrect == ASSUME ~Overlap PROVE Spec => []OneFillingGroup
<1>1. Filling => OneFillingGroup
  BY DEF Filling
<1>2. /\ TypeOK /\ Alone /\ [Next]_vars => Alone'
      /\ TypeOK /\ Alone /\ Fresh /\ [Next]_vars => Fresh'
      /\ TypeOK /\ Alone /\ Fresh /\ Filling /\ [Next]_vars => Filling'
  BY AloneStep, FreshStep, FillingStep
<1>3. QED
  BY TypeInit, TypeStep, AloneInit, FreshInit, FillingInit, <1>1, <1>2, PTL DEF Spec

\* When adds and starts do not overlap, a group is FILLING exactly while its count is below
\* the maximum and it has no fillAt, also after saves were abandoned half way.
\* (group.repository.ts:65-85, incrementStudentCount.)
THEOREM ClosedWhenFullCorrect == ASSUME ~Overlap PROVE Spec => []ClosedWhenFull
<1>1. Filling => ClosedWhenFull
  BY DEF Filling, ClosedWhenFull, Closed
<1>2. /\ TypeOK /\ Alone /\ [Next]_vars => Alone'
      /\ TypeOK /\ Alone /\ Fresh /\ [Next]_vars => Fresh'
      /\ TypeOK /\ Alone /\ Fresh /\ Filling /\ [Next]_vars => Filling'
  BY AloneStep, FreshStep, FillingStep
<1>3. QED
  BY TypeInit, TypeStep, AloneInit, FreshInit, FillingInit, <1>1, <1>2, PTL DEF Spec

\* Which steps write rows.
LEMMA RowSteps ==
  ASSUME [Next]_vars
  PROVE  \/ row' = row
         \/ \E w \in Worker : Create(w) \/ SaveCount(w)
         \/ \E j \in Job : SaveActive(j)
         \/ Tick
  BY DEF Next, vars, AddStudentToGroup, AddStudent, AbortAdd, FindAvailableGroup, Join, Told,
     ReadCount, SelectCount, StartReadyGroups, StartGroup, CreateLectures, SelectActive, AbortJob,
     Cron, HandleGroupAutoStart, FindGroupsToStart

\* The status of a row: adds leave one that is not FILLING, and make none ACTIVE.
LEMMA StatusSteps ==
  ASSUME TypeOK, Filling, [Next]_vars, \A j \in Job : ~SaveActive(j), NEW g \in Group
  PROVE  row'[g].status = "ACTIVE" <=> row[g].status = "ACTIVE"
<1>1. ASSUME NEW w \in Worker, Create(w) PROVE row'[g].status = "ACTIVE" <=> row[g].status = "ACTIVE"
  <2>1. made + 1 \in Group /\ ~Exists(made + 1)
    BY <1>1, GroupsAssumption DEF Create, TypeOK, Group, Exists
  <2>2. row[made + 1].status = "FILLING"
    BY <2>1 DEF Filling
  <2>3. row' = [row EXCEPT ![made + 1] = NewRow(add[w].course)]
    BY <1>1 DEF Create
  <2>4. NewRow(add[w].course).status = "FILLING"
    BY DEF NewRow
  <2>5. QED
    BY <2>1, <2>2, <2>3, <2>4 DEF TypeOK
<1>2. ASSUME NEW w \in Worker, SaveCount(w) PROVE row'[g].status = "ACTIVE" <=> row[g].status = "ACTIVE"
  <2>1. PICK h : h = add[w].group
    OBVIOUS
  <2>2. /\ h \in Group /\ row[h] \in Row /\ row[h].status = "FILLING"
        /\ row'[h] = Incremented(row[h]) /\ \A k \in Group \ {h} : row'[k] = row[k]
    BY <1>2, <2>1, CountMoves
  <2>3. row'[h].status \in {"FILLING", "WAITING"}
    BY <2>2, IncrementedType
  <2>4. QED
    BY <2>2, <2>3
<1>3. CASE Tick
  BY <1>3 DEF Tick, TypeOK, Row
<1>4. QED
  BY <1>1, <1>2, <1>3, RowSteps

LEMMA StaysActive ==
  ASSUME TypeOK, Fresh, Filling, [Next]_vars, NEW g \in Group, row[g].status = "ACTIVE"
  PROVE  row'[g].status = "ACTIVE"
<1>1. ASSUME NEW j \in Job, SaveActive(j) PROVE row'[g].status = "ACTIVE"
  <2>1. PICK h : h = job[j].at
    OBVIOUS
  <2>2. h \in Group /\ row[h].status = "WAITING" /\ \A k \in Group \ {h} : row'[k] = row[k]
    BY <1>1, <2>1, ActiveMoves
  <2>3. QED
    BY <2>2
<1>2. QED
  BY <1>1, StatusSteps

\* When adds and starts do not overlap, no save of an add takes a group out of ACTIVE again.
\* (group.repository.ts:84, incrementStudentCount.)
THEOREM ActiveIsFinalCorrect == ASSUME ~Overlap PROVE Spec => ActiveIsFinal
<1>1. TypeOK /\ Fresh /\ Filling /\ [Next]_vars =>
        [\A g \in Group : row[g].status = "ACTIVE" => row'[g].status = "ACTIVE"]_vars
  BY StaysActive
<1>2. /\ TypeOK /\ Alone /\ [Next]_vars => Alone'
      /\ TypeOK /\ Alone /\ Fresh /\ [Next]_vars => Fresh'
      /\ TypeOK /\ Alone /\ Fresh /\ Filling /\ [Next]_vars => Filling'
  BY AloneStep, FreshStep, FillingStep
<1>3. QED
  BY TypeInit, TypeStep, AloneInit, FreshInit, FillingInit, <1>1, <1>2, PTL
  DEF Spec, ActiveIsFinal

LEMMA StartsLate ==
  ASSUME TypeOK, Fresh, Filling, [Next]_vars, NEW g \in Group,
         row[g].status # "ACTIVE", row'[g].status = "ACTIVE"
  PROVE  row'[g].waited >= Days(3)
<1>1. PICK j \in Job : SaveActive(j)
  BY StatusSteps
<1>2. PICK h : h = job[j].at
  OBVIOUS
<1>3. /\ h \in Group /\ row[h] \in Row /\ row[h].waited >= Days(3)
      /\ row'[h] = [row[h] EXCEPT !.status = "ACTIVE"]
      /\ \A k \in Group \ {h} : row'[k] = row[k]
  BY <1>1, <1>2, ActiveMoves
<1>4. g = h
  BY <1>3
<1>5. row'[h].waited = row[h].waited
  BY <1>3 DEF Row
<1>6. QED
  BY <1>3, <1>4, <1>5

\* When adds and starts do not overlap, no group starts that has been full for less than
\* three days, however often the job and the admins run.
\* (group.repository.ts:52-63, findGroupsToStart.)
THEOREM StartsAfterThreeDaysCorrect == ASSUME ~Overlap PROVE Spec => StartsAfterThreeDays
<1>1. TypeOK /\ Fresh /\ Filling /\ [Next]_vars =>
        [\A g \in Group : (row[g].status # "ACTIVE" /\ row'[g].status = "ACTIVE")
           => row'[g].waited >= Days(3)]_vars
  BY StartsLate
<1>2. /\ TypeOK /\ Alone /\ [Next]_vars => Alone'
      /\ TypeOK /\ Alone /\ Fresh /\ [Next]_vars => Fresh'
      /\ TypeOK /\ Alone /\ Fresh /\ Filling /\ [Next]_vars => Filling'
  BY AloneStep, FreshStep, FillingStep
<1>3. QED
  BY TypeInit, TypeStep, AloneInit, FreshInit, FillingInit, <1>1, <1>2, PTL
  DEF Spec, StartsAfterThreeDays

\* The lectures of a group: none but those of dead jobs before a job is at it.
Counted ==
  \A g \in Group : /\ lectures[g] <= 1 + aborts
                   /\ (row[g].status # "ACTIVE" /\ \A j \in Job : job[j].at # g) =>
                        lectures[g] <= aborts

LEMMA CountedInit == Init => Counted
  BY NoStartType DEF Init, Counted

\* A step that generates no lecture and leaves no group it was at without its status.
LEMMA CountedStays ==
  ASSUME TypeOK, Fresh, Filling, Counted, [Next]_vars, lectures' = lectures,
         aborts' >= aborts, aborts' \in Nat,
         aborts' = aborts => \A g \in Group, j \in Job :
                               job[j].at = g => job'[j].at = g \/ row'[g].status = "ACTIVE"
  PROVE  Counted'
<1> SUFFICES ASSUME NEW g \in Group
             PROVE  /\ lectures'[g] <= 1 + aborts'
                    /\ (row'[g].status # "ACTIVE" /\ \A j \in Job : job'[j].at # g) =>
                         lectures'[g] <= aborts'
  BY DEF Counted
<1>1. lectures[g] \in Nat /\ aborts \in Nat /\ lectures[g] <= 1 + aborts
  BY DEF TypeOK, Counted
<1>2. CASE aborts' # aborts
  BY <1>1, <1>2
<1>3. CASE aborts' = aborts
  <2>1. (row'[g].status # "ACTIVE" /\ \A j \in Job : job'[j].at # g) =>
          (row[g].status # "ACTIVE" /\ \A j \in Job : job[j].at # g)
    BY <1>3, StaysActive
  <2>2. QED
    BY <1>1, <1>3, <2>1 DEF Counted
<1>4. QED
  BY <1>2, <1>3

LEMMA CountedCreateLectures ==
  ASSUME TypeOK, Alone, Fresh, Filling, Counted, [Next]_vars, NEW j \in Job, CreateLectures(j)
  PROVE  Counted'
<1>1. PICK h, s :
        /\ h \in job[j].todo /\ h \in Group /\ job[j].at = NoGroup /\ s.at = h /\ job' = [job EXCEPT ![j] = s]
        /\ \/ lectures' = [lectures EXCEPT ![h] = @ + 1]
           \/ lectures' = lectures
  BY CreateStart
<1>2. UNCHANGED <<row, aborts>> /\ job[j].todo # {}
  BY <1>1 DEF CreateLectures, bounds
<1>3. h # NoGroup /\ row[h].status = "WAITING"
  BY <1>1, <1>2 DEF Fresh, ReadIsSo, Group, NoGroup
<1>4. \A i \in Job : job[i].at = NoGroup
  BY <1>1, <1>2 DEF Alone, TypeOK
<1>5. lectures[h] <= aborts /\ lectures[h] \in Nat /\ aborts \in Nat
  BY <1>1, <1>3, <1>4 DEF Counted, TypeOK
<1>6. \A g \in Group : g # NoGroup
  BY DEF Group, NoGroup
<1>7. CASE lectures' = lectures
  BY <1>2, <1>4, <1>5, <1>6, <1>7, CountedStays
<1>8. CASE lectures' = [lectures EXCEPT ![h] = @ + 1]
  <2>1. /\ lectures'[h] = lectures[h] + 1
        /\ \A g \in Group \ {h} : lectures'[g] = lectures[g]
    BY <1>1, <1>8 DEF TypeOK
  <2>2. job'[j].at = h
    BY <1>1 DEF TypeOK
  <2>3. QED
    BY <1>1, <1>2, <1>4, <1>5, <1>6, <2>1, <2>2 DEF Counted
<1>9. QED
  BY <1>1, <1>7, <1>8

LEMMA CountedStep ==
  ASSUME ~Overlap
  PROVE  TypeOK /\ Alone /\ Fresh /\ Filling /\ Counted /\ [Next]_vars => Counted'
<1> SUFFICES ASSUME TypeOK, Alone, Fresh, Filling, Counted, [Next]_vars
             PROVE  Counted'
  OBVIOUS
<1>1. aborts \in Nat
  BY DEF TypeOK
<1>2. ASSUME NEW w \in Worker, \/ \E s \in Student, c \in Course : AddStudentToGroup(w, s, c)
                               \/ AddStudent(w) \/ AbortAdd(w)
      PROVE  Counted'
  <2>1. /\ UNCHANGED <<lectures, job>>
        /\ aborts' = aborts \/ aborts' = aborts + 1
    BY <1>2 DEF AddStudentToGroup, AddStudent, AbortAdd, FindAvailableGroup, Create, Join, Told,
       ReadCount, SelectCount, SaveCount, bounds, generated
  <2>2. QED
    BY <1>1, <2>1, CountedStays
<1>3. ASSUME NEW j \in Job, HandleGroupAutoStart(j) \/ StartReadyGroups(j) PROVE Counted'
  <2>1. FindGroupsToStart(j)
    BY <1>3 DEF HandleGroupAutoStart, StartReadyGroups
  <2>2. UNCHANGED <<lectures, aborts>>
    BY <2>1 DEF FindGroupsToStart, generated
  <2>3. \A i \in Job : job[i].at = NoGroup
    BY <2>1, FindMoves DEF TypeOK
  <2>4. \A g \in Group : g # NoGroup
    BY DEF Group, NoGroup
  <2>5. QED
    BY <1>1, <2>2, <2>3, <2>4, CountedStays
<1>4. ASSUME NEW j \in Job, CreateLectures(j) PROVE Counted'
  BY <1>4, CountedCreateLectures
<1>5. ASSUME NEW j \in Job, SaveActive(j) PROVE Counted'
  <2>1. PICK h : h = job[j].at
    OBVIOUS
  <2>2. /\ h \in Group /\ row[h] \in Row
        /\ row'[h] = [row[h] EXCEPT !.status = "ACTIVE"]
        /\ \A i \in Job \ {j} : job'[i] = job[i]
        /\ aborts' = aborts
    BY <1>5, <2>1, ActiveMoves
  <2>3. row'[h].status = "ACTIVE"
    BY <2>2 DEF Row
  <2>4. lectures' = lectures
    BY <1>5 DEF SaveActive, generated
  <2>5. \A g \in Group, i \in Job : job[i].at = g => job'[i].at = g \/ row'[g].status = "ACTIVE"
    BY <2>1, <2>2, <2>3
  <2>6. QED
    BY <1>1, <2>2, <2>4, <2>5, CountedStays
<1>6. ASSUME NEW j \in Job, AbortJob(j) PROVE Counted'
  <2>1. lectures' = lectures /\ aborts' = aborts + 1
    BY <1>6 DEF AbortJob, generated
  <2>2. QED
    BY <1>1, <2>1, CountedStays
<1>9. ASSUME NEW j \in Job, SelectActive(j) PROVE Counted'
  <2>1. PICK s : s.at = job[j].at /\ job' = [job EXCEPT ![j] = s]
    BY <1>9, SelectStart
  <2>2. lectures' = lectures /\ aborts' = aborts
    BY <1>9 DEF SelectActive, generated, bounds
  <2>3. \A i \in Job : job'[i].at = job[i].at
    BY <2>1 DEF TypeOK
  <2>4. QED
    BY <1>1, <2>2, <2>3, CountedStays
<1>7. CASE Tick \/ UNCHANGED vars
  <2>1. UNCHANGED <<lectures, job, aborts>>
    BY <1>7 DEF Tick, vars, bounds, generated
  <2>2. QED
    BY <1>1, <2>1, CountedStays
<1>8. QED
  BY <1>2, <1>3, <1>4, <1>5, <1>6, <1>7, <1>9 DEF Next, Cron, StartGroup

\* When adds and starts do not overlap, a group gets its first lecture once, and once more
\* for each handler that died: whatever the cron job and the admins ask for.
\* (group.service.ts:153, startGroupsIfReady.)
THEOREM RepeatsOnlyAfterAbortCorrect == ASSUME ~Overlap PROVE Spec => []RepeatsOnlyAfterAbort
<1>1. Counted => RepeatsOnlyAfterAbort
  BY DEF Counted, RepeatsOnlyAfterAbort
<1>2. /\ TypeOK /\ Alone /\ [Next]_vars => Alone'
      /\ TypeOK /\ Alone /\ Fresh /\ [Next]_vars => Fresh'
      /\ TypeOK /\ Alone /\ Fresh /\ Filling /\ [Next]_vars => Filling'
      /\ TypeOK /\ Alone /\ Fresh /\ Filling /\ Counted /\ [Next]_vars => Counted'
  BY AloneStep, FreshStep, FillingStep, CountedStep
<1>3. QED
  BY TypeInit, TypeStep, AloneInit, FreshInit, FillingInit, CountedInit, <1>1, <1>2, PTL
  DEF Spec

-----------------------------------------------------------------------------
(***************************************************************************)
(* Seats: the members of a group are those it counts, one whose add is     *)
(* about to count it, and those whose add was abandoned in between.        *)
(***************************************************************************)
Counting(g) == \E w \in Worker : add[w].step \in {"count", "select", "update"} /\ add[w].group = g
Pending(g) == IF Counting(g) THEN 1 ELSE 0

Seated ==
  \A g \in Group : /\ IsFiniteSet(Members(g))
                   /\ Cardinality(Members(g)) <= row[g].count + Pending(g) + aborts
                   /\ row[g].count <= maxStudents
                   /\ ~Exists(g) => row[g].count = 0

LEMMA SeatedInit == Init => Seated
<1> SUFFICES ASSUME Init, NEW g \in Group
             PROVE  /\ IsFiniteSet(Members(g))
                    /\ Cardinality(Members(g)) <= row[g].count + Pending(g) + aborts
                    /\ row[g].count <= maxStudents
                    /\ row[g].count = 0
  BY DEF Seated
<1>1. Members(g) = {}
  BY DEF Init, Members, Group, NoGroup
<1>2. row[g].count = 0 /\ aborts = 0
  BY DEF Init, NewRow
<1>3. Pending(g) \in {0, 1}
  BY DEF Pending
<1>4. QED
  BY <1>1, <1>2, <1>3, FS_EmptySet, GroupsAssumption

\* A step that seats nobody, and forgets nobody it has seated.
LEMMA SeatedStays ==
  ASSUME TypeOK, TypeOK', Seated, member' = member, made' >= made,
         \A g \in Group : row'[g].count = row[g].count,
         \A g \in Group : Pending(g) + aborts <= Pending(g)' + aborts'
  PROVE  Seated'
<1> SUFFICES ASSUME NEW g \in Group
             PROVE  /\ IsFiniteSet(Members(g))'
                    /\ Cardinality(Members(g))' <= row'[g].count + Pending(g)' + aborts'
                    /\ row'[g].count <= maxStudents
                    /\ ~Exists(g)' => row'[g].count = 0
  BY DEF Seated
<1>1. Members(g)' = Members(g)
  BY DEF Members
<1>2. /\ IsFiniteSet(Members(g)) /\ Cardinality(Members(g)) \in Nat
      /\ Cardinality(Members(g)) <= row[g].count + Pending(g) + aborts
  BY FS_CardinalityType DEF Seated
<1>3. row[g].count \in Nat /\ aborts \in Nat /\ aborts' \in Nat /\ made \in Nat /\ made' \in Nat
      /\ Pending(g) \in Nat /\ Pending(g)' \in Nat
  BY DEF TypeOK, Row, Pending
<1>4. Cardinality(Members(g)) <= row[g].count + Pending(g)' + aborts'
  BY <1>2, <1>3
<1>5. ~Exists(g)' => ~Exists(g)
  BY <1>3 DEF Exists, Group
<1>6. QED
  BY <1>1, <1>2, <1>4, <1>5 DEF Seated

\* An add seats its student where there is room, and nobody else is being counted there.
LEMMA SeatedJoin ==
  ASSUME TypeOK, TypeOK', Alone, Filling, Seated, NEW w \in Worker, Join(w)
  PROVE  Seated'
<1>0. PICK h, s : h = add[w].group /\ s = add[w].student
  OBVIOUS
<1>1. /\ member' = [member EXCEPT ![s] = h] /\ s \in Student
      /\ UNCHANGED <<row, made, aborts>> /\ h \in Group
  <2>1. h \in Group /\ s \in Student
    BY <1>0, AddingAt DEF Join, Adding, TypeOK, Add
  <2>2. member' = [member EXCEPT ![s] = h] /\ UNCHANGED <<row, made, aborts>>
    BY <1>0 DEF Join, Told, bounds
  <2>3. QED
    BY <2>1, <2>2
<1>2. /\ add'[w].step = "count" /\ add'[w].group = h /\ add[w].step = "join"
      /\ \A v \in Worker \ {w} : add'[v] = add[v]
  BY <1>0 DEF Join, Told, GoOn, TypeOK, Add
<1>3. ~Counting(h)
  BY <1>0, <1>2 DEF Counting, Filling, Adding, Alone
<1>4. Counting(h)'
  BY <1>2 DEF Counting
<1>5. \A g \in Group \ {h} : Counting(g)' = Counting(g)
  BY <1>2 DEF Counting
<1>6. member \in [Student -> Group \cup {NoGroup}]
  BY DEF TypeOK
<1>7. Members(h)' = Members(h) \cup {s}
  BY <1>1, <1>6 DEF Members
<1>8. \A g \in Group \ {h} : Members(g)' \subseteq Members(g)
  BY <1>1, <1>6 DEF Members
<1>9. row[h].count \in Nat /\ aborts \in Nat
  BY <1>1 DEF TypeOK, Row
<1>10. /\ IsFiniteSet(Members(h))'
       /\ Cardinality(Members(h))' <= row'[h].count + Pending(h)' + aborts'
  <2>1. IsFiniteSet(Members(h)) /\ Cardinality(Members(h)) \in Nat
    BY <1>1, FS_CardinalityType DEF Seated
  <2>0. /\ IsFiniteSet(Members(h) \cup {s})
        /\ Cardinality(Members(h) \cup {s}) = IF s \in Members(h) THEN Cardinality(Members(h))
                                              ELSE Cardinality(Members(h)) + 1
    BY <2>1, FS_AddElement
  <2>2. /\ IsFiniteSet(Members(h) \cup {s})
        /\ Cardinality(Members(h) \cup {s}) <= Cardinality(Members(h)) + 1
    BY <2>0, <2>1
  <2>3. Cardinality(Members(h) \cup {s}) \in Nat
    BY <2>2, FS_CardinalityType
  <2>4. Cardinality(Members(h)) <= row[h].count + aborts
    BY <1>1, <1>3, <1>9 DEF Seated, Pending
  <2>5. Pending(h)' = 1
    BY <1>4 DEF Pending
  <2>6. Cardinality(Members(h) \cup {s}) <= row[h].count + 1 + aborts
    BY <1>9, <2>1, <2>2, <2>3, <2>4
  <2>7. QED
    BY <1>1, <1>7, <2>2, <2>5, <2>6
<1>11. ASSUME NEW g \in Group \ {h}
       PROVE  /\ IsFiniteSet(Members(g))'
              /\ Cardinality(Members(g))' <= row'[g].count + Pending(g)' + aborts'
  <2>1. IsFiniteSet(Members(g)) /\ Cardinality(Members(g)) \in Nat
    BY FS_CardinalityType DEF Seated
  <2>2. /\ IsFiniteSet(Members(g)') /\ Cardinality(Members(g)') \in Nat
        /\ Cardinality(Members(g)') <= Cardinality(Members(g))
    BY <1>8, <2>1, FS_Subset, FS_CardinalityType
  <2>3. Pending(g)' = Pending(g) /\ Pending(g) \in Nat
    BY <1>5 DEF Pending
  <2>4. Cardinality(Members(g)) <= row[g].count + Pending(g) + aborts /\ row[g].count \in Nat
    BY DEF Seated, TypeOK, Row
  <2>5. QED
    BY <1>1, <1>9, <2>1, <2>2, <2>3, <2>4
<1>12. \A g \in Group : row'[g].count <= maxStudents /\ (~Exists(g)' => row'[g].count = 0)
  BY <1>1 DEF Seated, Exists
<1>13. QED
  BY <1>10, <1>11, <1>12 DEF Seated

LEMMA SeatedSaveCount ==
  ASSUME TypeOK, TypeOK', Alone, Filling, Seated, NEW w \in Worker, SaveCount(w)
  PROVE  Seated'
<1>0. PICK h : h = add[w].group
  OBVIOUS
<1>1. /\ h \in Group /\ row[h] \in Row /\ Exists(h) /\ row[h].status = "FILLING"
      /\ row'[h] = Incremented(row[h]) /\ \A g \in Group \ {h} : row'[g] = row[g]
      /\ UNCHANGED <<made, member, aborts>> /\ add'[w].step = "idle"
      /\ \A v \in Worker \ {w} : add'[v] = add[v]
  BY <1>0, CountMoves
<1>2. row[h].count \in Nat /\ row[h].count < maxStudents
  BY <1>1, GroupsAssumption DEF Filling, Closed, Full, Row
<1>3. row'[h].count = row[h].count + 1 /\ \A g \in Group \ {h} : row'[g] = row[g]
  BY <1>1, IncrementedType
<1>4. \A g \in Group \ {h} : Counting(g)' = Counting(g)
  BY <1>0, <1>1 DEF Counting
<1>5. \A g \in Group : Members(g)' = Members(g)
  BY <1>1 DEF Members
<1>6. \A g \in Group : /\ IsFiniteSet(Members(g)) /\ Cardinality(Members(g)) \in Nat
                       /\ Cardinality(Members(g)) <= row[g].count + Pending(g) + aborts
                       /\ row[g].count \in Nat /\ Pending(g) \in {0, 1} /\ Pending(g)' \in {0, 1}
  BY FS_CardinalityType DEF Seated, TypeOK, Row, Pending
<1>7. aborts \in Nat
  BY DEF TypeOK
<1>8. ASSUME NEW g \in Group
      PROVE  /\ IsFiniteSet(Members(g))'
             /\ Cardinality(Members(g))' <= row'[g].count + Pending(g)' + aborts'
             /\ row'[g].count <= maxStudents
             /\ ~Exists(g)' => row'[g].count = 0
  <2>1. CASE g = h
    <3>1. Cardinality(Members(h)) <= row[h].count + 1 + Pending(h)' + aborts
      BY <1>1, <1>6, <1>7
    <3>2. Exists(h)'
      BY <1>1 DEF Exists
    <3>3. row[h].count + 1 <= maxStudents
      BY <1>2, GroupsAssumption
    <3>4. QED
      BY <1>1, <1>3, <1>5, <1>6, <2>1, <3>1, <3>2, <3>3
  <2>2. CASE g # h
    <3>1. Pending(g)' = Pending(g)
      BY <1>4, <2>2 DEF Pending
    <3>2. QED
      BY <1>1, <1>5, <1>6, <2>2, <3>1 DEF Seated, Exists
  <2>3. QED
    BY <2>1, <2>2
<1>9. QED
  BY <1>8 DEF Seated

LEMMA SeatedCreate ==
  ASSUME TypeOK, TypeOK', Seated, NEW w \in Worker, Create(w)
  PROVE  Seated'
<1>1. made' = made + 1 /\ made + 1 \in Group /\ ~Exists(made + 1) /\ made \in Nat
  BY DEF Create, TypeOK, Exists, Group
<1>2. /\ row' = [row EXCEPT ![made + 1] = NewRow(add[w].course)]
      /\ UNCHANGED <<member, aborts>>
  BY DEF Create, bounds
<1>3. \A g \in Group : row'[g].count = row[g].count
  BY <1>1, <1>2 DEF Seated, TypeOK, NewRow
<1>4. \A g \in Group : Counting(g) => Counting(g)'
  BY DEF Create, GoOn, Counting, TypeOK, Add
<1>5. \A g \in Group : Pending(g) <= Pending(g)' /\ Pending(g) \in Nat /\ Pending(g)' \in Nat
  BY <1>4 DEF Pending
<1>6. \A g \in Group : Pending(g) + aborts <= Pending(g)' + aborts'
  BY <1>2, <1>5 DEF TypeOK
<1>7. QED
  BY <1>1, <1>2, <1>3, <1>6, SeatedStays

\* A step that leaves the counts, the members and the adds that count alone.
LEMMA SeatedRests ==
  ASSUME TypeOK, TypeOK', Seated, UNCHANGED <<made, member, aborts>>,
         \A g \in Group : row'[g].count = row[g].count,
         \A g \in Group : Counting(g) => Counting(g)'
  PROVE  Seated'
<1>1. \A g \in Group : Pending(g) <= Pending(g)' /\ Pending(g) \in Nat /\ Pending(g)' \in Nat
  BY DEF Pending
<1>2. \A g \in Group : Pending(g) + aborts <= Pending(g)' + aborts'
  BY <1>1 DEF TypeOK
<1>3. made' >= made
  BY DEF TypeOK
<1>4. QED
  BY <1>2, <1>3, SeatedStays

LEMMA SeatedAdd ==
  ASSUME TypeOK, TypeOK', Alone, Filling, Seated, NEW w \in Worker, AddStudent(w)
  PROVE  Seated'
<1>1. CASE FindAvailableGroup(w)
  <2>1. UNCHANGED <<made, row, member, aborts>> /\ add[w].step = "find"
        /\ \A v \in Worker \ {w} : add'[v] = add[v]
    BY <1>1, AddMoves DEF FindAvailableGroup, bounds, AddStudent
  <2>2. \A g \in Group : Counting(g) => Counting(g)'
    BY <2>1 DEF Counting
  <2>3. QED
    BY <2>1, <2>2, SeatedRests
<1>2. CASE ReadCount(w) \/ SelectCount(w)
  <2>1. /\ UNCHANGED <<made, row, member, aborts>>
        /\ add'[w].step \in {"select", "update"} /\ add'[w].group = add[w].group
        /\ \A v \in Worker \ {w} : add'[v] = add[v]
    BY <1>2, ReadCountAdd, SelectCountAdd, AddMoves DEF bounds, AddStudent
  <2>2. \A g \in Group : Counting(g) => Counting(g)'
    BY <2>1 DEF Counting
  <2>3. QED
    BY <2>1, <2>2, SeatedRests
<1>3. QED
  BY <1>1, <1>2, SeatedCreate, SeatedJoin, SeatedSaveCount DEF AddStudent

\* An abandoned add or job: what was not counted is excused.
LEMMA SeatedAbort ==
  ASSUME TypeOK, TypeOK', Seated, \/ \E w \in Worker : AbortAdd(w)
                                  \/ \E j \in Job : AbortJob(j)
  PROVE  Seated'
<1>1. UNCHANGED <<made, row, member>> /\ aborts' = aborts + 1
  BY DEF AbortAdd, AbortJob
<1>2. CASE \E j \in Job : AbortJob(j)
  <2>1. add' = add
    BY <1>2 DEF AbortJob
  <2>2. \A g \in Group : Pending(g)' = Pending(g) /\ Pending(g) \in Nat
    BY <2>1 DEF Pending, Counting
  <2>3. \A g \in Group : Pending(g) + aborts <= Pending(g)' + aborts'
    BY <1>1, <2>2 DEF TypeOK
  <2>4. made' >= made
    BY <1>1 DEF TypeOK
  <2>5. QED
    BY <1>1, <2>3, <2>4, SeatedStays
<1>3. CASE \E w \in Worker : AbortAdd(w)
  <2>1. \A g \in Group : Pending(g) \in {0, 1} /\ Pending(g)' \in {0, 1}
    BY DEF Pending
  <2>2. \A g \in Group : Pending(g) + aborts <= Pending(g)' + aborts'
    BY <1>1, <2>1 DEF TypeOK
  <2>3. made' >= made
    BY <1>1 DEF TypeOK
  <2>4. QED
    BY <1>1, <2>2, <2>3, SeatedStays
<1>4. QED
  BY <1>2, <1>3

LEMMA SeatedStep ==
  ASSUME ~Overlap
  PROVE  TypeOK /\ TypeOK' /\ Alone /\ Filling /\ Fresh /\ Seated
           /\ [Next]_vars => Seated'
<1> SUFFICES ASSUME TypeOK, TypeOK', Alone, Filling, Fresh, Seated, [Next]_vars
             PROVE  Seated'
  OBVIOUS
<1>1. ASSUME NEW w \in Worker, NEW s \in Student, NEW c \in Course, AddStudentToGroup(w, s, c)
      PROVE  Seated'
  <2>1. UNCHANGED <<made, row, member, aborts>> /\ add[w].step = "idle"
        /\ \A v \in Worker \ {w} : add'[v] = add[v]
    BY <1>1 DEF AddStudentToGroup, TypeOK
  <2>2. \A g \in Group : Counting(g) => Counting(g)'
    BY <2>1 DEF Counting
  <2>3. QED
    BY <2>1, <2>2, SeatedRests
<1>2. ASSUME NEW w \in Worker, AddStudent(w) PROVE Seated'
  BY <1>2, SeatedAdd
<1>3. ASSUME NEW w \in Worker, AbortAdd(w) PROVE Seated'
  BY <1>3, SeatedAbort
<1>4. ASSUME NEW j \in Job, \/ HandleGroupAutoStart(j) \/ StartReadyGroups(j)
                            \/ CreateLectures(j) \/ SelectActive(j)
      PROVE Seated'
  <2>1. UNCHANGED <<made, row, member, add, aborts>>
    BY <1>4 DEF HandleGroupAutoStart, StartReadyGroups, FindGroupsToStart, CreateLectures,
       SelectActive, bounds
  <2>2. QED
    BY <2>1, SeatedRests DEF Counting
<1>5. ASSUME NEW j \in Job, SaveActive(j) PROVE Seated'
  <2>1. PICK h : h = job[j].at
    OBVIOUS
  <2>2. /\ h \in Group /\ row[h] \in Row /\ row'[h] = [row[h] EXCEPT !.status = "ACTIVE"]
        /\ \A g \in Group \ {h} : row'[g] = row[g]
        /\ UNCHANGED <<member, made, add, aborts>>
    BY <1>5, <2>1, ActiveMoves
  <2>3. \A g \in Group : row'[g].count = row[g].count
    BY <2>2 DEF Row
  <2>4. QED
    BY <2>2, <2>3, SeatedRests DEF Counting
<1>6. ASSUME NEW j \in Job, AbortJob(j) PROVE Seated'
  BY <1>6, SeatedAbort
<1>7. CASE Tick
  <2>1. UNCHANGED <<made, member, add, aborts>>
    BY <1>7 DEF Tick, bounds
  <2>2. \A g \in Group : row'[g].count = row[g].count
    BY <1>7 DEF Tick, TypeOK, Row
  <2>3. QED
    BY <2>1, <2>2, SeatedRests DEF Counting
<1>8. CASE UNCHANGED vars
  <2>1. UNCHANGED <<made, row, member, add, aborts>>
    BY <1>8 DEF vars, bounds
  <2>2. QED
    BY <2>1, SeatedRests DEF Counting
<1>9. QED
  BY <1>1, <1>2, <1>3, <1>4, <1>5, <1>6, <1>7, <1>8 DEF Next, Cron, StartGroup

LEMMA SeatedFits ==
  ASSUME TypeOK, Filling, Seated
  PROVE  SeatsWithinMax
<1> SUFFICES ASSUME NEW g \in Group
             PROVE  Cardinality(Members(g)) <= maxStudents + aborts
  BY DEF SeatsWithinMax
<1>1. /\ IsFiniteSet(Members(g)) /\ Cardinality(Members(g)) \in Nat
      /\ Cardinality(Members(g)) <= row[g].count + Pending(g) + aborts
      /\ row[g].count <= maxStudents
  BY FS_CardinalityType DEF Seated
<1>2. row[g].count \in Nat /\ aborts \in Nat /\ maxStudents \in Nat
  BY GroupsAssumption DEF TypeOK, Row
<1>3. CASE Counting(g)
  <2>1. row[g].status = "FILLING"
    BY <1>3 DEF Counting, Filling, Adding
  <2>2. row[g].count < maxStudents
    BY <1>2, <2>1 DEF Filling, Closed, Full
  <2>3. QED
    BY <1>1, <1>2, <1>3, <2>2 DEF Pending
<1>4. CASE ~Counting(g)
  BY <1>1, <1>2, <1>4 DEF Pending
<1>5. QED
  BY <1>3, <1>4

\* When adds and starts do not overlap, no group holds more students than its maximum, but
\* for one of each add that was abandoned after it seated its student and before it counted.
\* (group.service.ts:113, addStudentToGroup; group.repository.ts, incrementStudentCount.)
THEOREM SeatsWithinMaxCorrect == ASSUME ~Overlap PROVE Spec => []SeatsWithinMax
<1>1. TypeOK /\ Filling /\ Seated => SeatsWithinMax
  BY SeatedFits
<1>2. /\ TypeOK /\ Alone /\ [Next]_vars => Alone'
      /\ TypeOK /\ Alone /\ Fresh /\ [Next]_vars => Fresh'
      /\ TypeOK /\ Alone /\ Fresh /\ Filling /\ [Next]_vars => Filling'
      /\ TypeOK /\ TypeOK' /\ Alone /\ Filling /\ Fresh /\ Seated /\ [Next]_vars => Seated'
  BY AloneStep, FreshStep, FillingStep, SeatedStep
<1>3. QED
  BY TypeInit, TypeStep, AloneInit, FreshInit, FillingInit, SeatedInit, <1>1, <1>2, PTL
  DEF Spec

-----------------------------------------------------------------------------
(***************************************************************************)
(* The handlers implement the contract: a create, a join, a count, a first *)
(* lecture and a start change one group as an action of GroupContract      *)
(* does, and the other steps are not seen.                                 *)
(***************************************************************************)
Stages == [g \in Group |-> StageNow(g)]
Courses == [g \in Group |-> row[g].course]
Seats == [g \in Group |-> row[g].count]
Prepared == [g \in Group |-> Outcomes(g)]
Public == <<Stages, Courses, Seats, Prepared, member>>

\* The row of g says the same to the contract.
Same(g) == row'[g].course = row[g].course /\ row'[g].count = row[g].count

LEMMA SameRows ==
  ASSUME \A g \in Group : Same(g)
  PROVE  Courses' = Courses /\ Seats' = Seats
  BY DEF Same, Courses, Seats

\* A step that changes no row as far as the contract goes.
LEMMA StagesStay ==
  ASSUME made' = made, \A g \in Group : row'[g].status = row[g].status
  PROVE  Stages' = Stages
<1>1. \A g \in Group : StageNow(g)' = StageNow(g)
  BY DEF StageNow, Exists
<1>2. QED
  BY <1>1 DEF Stages

LEMMA PreparedStays == ASSUME UNCHANGED generated PROVE Prepared' = Prepared
  BY DEF generated, Prepared, Outcomes

LEMMA Unseen ==
  ASSUME UNCHANGED <<made, member, generated>>,
         \A g \in Group : Same(g) /\ row'[g].status = row[g].status
  PROVE  [Contract!Next]_Public
<1>1. Prepared' = Prepared
  BY PreparedStays
<1>2. QED
  BY <1>1, SameRows, StagesStay DEF Public

\* A step that changes the stage of one group.
LEMMA StageWritten ==
  ASSUME NEW h \in Group, Exists(h), made' = made, NEW s, StageOf(row'[h].status) = s,
         \A g \in Group \ {h} : row'[g].status = row[g].status
  PROVE  Stages' = [Stages EXCEPT ![h] = s]
<1>1. \A g \in Group : Exists(g)' <=> Exists(g)
  BY DEF Exists
<1>2. \A g \in Group : StageNow(g)' = IF g = h THEN s ELSE StageNow(g)
  BY <1>1 DEF StageNow
<1>3. QED
  BY <1>2 DEF Stages

LEMMA ContractCreate ==
  ASSUME TypeOK, Filling, NEW w \in Worker, Create(w)
  PROVE  [Contract!Next]_Public
<1>1. PICK h \in Group, c \in Course : h = made + 1 /\ c = add[w].course
  BY GroupsAssumption DEF Create, TypeOK, Group, Add
<1>2. /\ made' = h /\ ~Exists(h) /\ Exists(h)'
      /\ \A g \in Group \ {h} : Exists(g)' <=> Exists(g)
  BY <1>1, GroupsAssumption DEF Create, TypeOK, Group, Exists
<1>3. row' = [row EXCEPT ![h] = NewRow(c)] /\ UNCHANGED <<member, generated>>
  BY <1>1 DEF Create
<1>4. \A g \in Group : row'[g] = IF g = h THEN NewRow(c) ELSE row[g]
  BY <1>2, <1>3 DEF TypeOK
<1>5. Stages' = [Stages EXCEPT ![h] = "filling"] /\ Stages[h] = "none"
  <2>1. row'[h].status = "FILLING"
    BY <1>2, <1>4 DEF NewRow
  <2>2. StageNow(h)' = "filling"
    BY <1>2, <2>1 DEF StageNow, StageOf
  <2>3. \A g \in Group \ {h} : StageNow(g)' = StageNow(g)
    BY <1>2, <1>4 DEF StageNow
  <2>4. \A g \in Group : StageNow(g)' = IF g = h THEN "filling" ELSE StageNow(g)
    BY <2>2, <2>3
  <2>5. StageNow(h) = "none"
    BY <1>2 DEF StageNow
  <2>6. QED
    BY <1>2, <2>4, <2>5 DEF Stages
<1>6. Courses' = [Courses EXCEPT ![h] = c] /\ Seats' = [Seats EXCEPT ![h] = 0]
  <2>1. NewRow(c).course = c /\ NewRow(c).count = 0
    BY DEF NewRow
  <2>2. \A g \in Group : /\ row'[g].course = IF g = h THEN c ELSE row[g].course
                         /\ row'[g].count = IF g = h THEN 0 ELSE row[g].count
    BY <1>4, <2>1
  <2>3. QED
    BY <2>2 DEF Courses, Seats
<1>7. ~\E g \in Group : Stages[g] = "filling" /\ Courses[g] = c
  <2>1. ASSUME NEW g \in Group, Stages[g] = "filling", Courses[g] = c PROVE FALSE
    <3>1. Exists(g) /\ StageOf(row[g].status) = "filling" /\ row[g].course = c
      BY <2>1 DEF Stages, StageNow, Courses
    <3>2. row[g].status \in GroupStatusEnum
      BY DEF TypeOK, Row
    <3>3. row[g].status = "FILLING"
      BY <3>1, <3>2 DEF StageOf, GroupStatusEnum
    <3>4. QED
      BY <1>1, <3>1, <3>3 DEF Filling, Create
  <2>2. QED
    BY <2>1
<1>8. Prepared' = Prepared
  BY <1>3, PreparedStays
<1>9. Contract!Open(h, c)
  BY <1>2, <1>3, <1>5, <1>6, <1>7, <1>8
  DEF Contract!Open, Stages, Courses, Seats, Prepared
<1>10. QED
  BY <1>9 DEF Contract!Next

\* The group an add is at is filling.
LEMMA AddAt ==
  ASSUME TypeOK, Filling, NEW w \in Worker, Adding(w)
  PROVE  /\ add[w].group \in Group /\ Exists(add[w].group)
         /\ row[add[w].group].status = "FILLING" /\ Stages[add[w].group] = "filling"
<1>1. add[w].group \in Group /\ Exists(add[w].group)
  BY AddingAt
<1>2. row[add[w].group].status = "FILLING"
  BY DEF Filling
<1>3. QED
  BY <1>1, <1>2 DEF Stages, StageNow, StageOf

LEMMA ContractJoin ==
  ASSUME TypeOK, Filling, NEW w \in Worker, Join(w)
  PROVE  [Contract!Next]_Public
<1>1. PICK h \in Group, s \in Student :
        h = add[w].group /\ s = add[w].student /\ Stages[h] = "filling"
  BY AddAt DEF Join, Adding, TypeOK, Add
<1>2. member' = [member EXCEPT ![s] = h] /\ UNCHANGED <<made, row, generated>>
  BY <1>1 DEF Join, Told
<1>3. Stages' = Stages /\ Courses' = Courses /\ Seats' = Seats /\ Prepared' = Prepared
  BY <1>2, SameRows, StagesStay, PreparedStays DEF Same
<1>4. Contract!Enter(s, h)
  BY <1>1, <1>2, <1>3 DEF Contract!Enter, Stages, Courses, Seats, Prepared
<1>5. QED
  BY <1>4 DEF Contract!Next

LEMMA ContractSaveCount ==
  ASSUME TypeOK, Filling, NEW w \in Worker, SaveCount(w)
  PROVE  [Contract!Next]_Public
<1>0. UNCHANGED generated
  BY DEF SaveCount
<1>1. PICK h \in Group :
        /\ h = add[w].group /\ Exists(h) /\ row[h].status = "FILLING" /\ row[h] \in Row
        /\ row'[h] = Incremented(row[h]) /\ \A g \in Group \ {h} : row'[g] = row[g]
        /\ UNCHANGED <<made, member>> /\ Stages[h] = "filling"
  BY AddAt, CountMoves
<1>2. row[h].count \in Nat /\ row[h].count + 1 <= maxStudents
  BY <1>1, GroupsAssumption DEF Row, Filling, Closed, Full
<1>4. /\ Incremented(row[h]).count = row[h].count + 1
      /\ Incremented(row[h]).course = row[h].course
  BY <1>1, IncrementedType
<1>5. Courses' = Courses /\ Seats' = [Seats EXCEPT ![h] = @ + 1] /\ Prepared' = Prepared
  <2>1. \A g \in Group : /\ row'[g].course = row[g].course
                         /\ row'[g].count = IF g = h THEN row[h].count + 1 ELSE row[g].count
    BY <1>1, <1>4
  <2>2. Seats[h] = row[h].count
    BY DEF Seats
  <2>3. QED
    BY <1>0, <2>1, <2>2, PreparedStays DEF Courses, Seats
<1>6. Stages' = [Stages EXCEPT ![h] = IF Seats[h] + 1 = maxStudents THEN "waiting" ELSE @]
  <2>1. Seats[h] = row[h].count
    BY DEF Seats
  <2>2. CASE row[h].count + 1 = maxStudents
    <3>1. Incremented(row[h]).status = "WAITING"
      <4> DEFINE counted == [row[h] EXCEPT !.count = @ + 1]
      <4>1. /\ counted.count = maxStudents
            /\ Incremented(row[h]) = IF Full(counted)
                 THEN [counted EXCEPT !.status = "WAITING", !.waited = 0] ELSE counted
            /\ [counted EXCEPT !.status = "WAITING", !.waited = 0].status = "WAITING"
        BY <1>1, <2>2, CountedType
      <4> HIDE DEF counted
      <4>2. Full(counted)
        BY <4>1, GroupsAssumption DEF Full
      <4>3. QED
        BY <4>1, <4>2
    <3>2. StageOf(row'[h].status) = "waiting"
      BY <1>1, <3>1 DEF StageOf
    <3>3. Stages' = [Stages EXCEPT ![h] = "waiting"]
      BY <1>1, <3>2, StageWritten
    <3>4. QED
      BY <2>1, <2>2, <3>3
  <2>3. CASE row[h].count + 1 # maxStudents
    <3>1. Incremented(row[h]).status = "FILLING"
      <4> DEFINE counted == [row[h] EXCEPT !.count = @ + 1]
      <4>1. /\ counted.count = row[h].count + 1 /\ counted.status = "FILLING"
            /\ Incremented(row[h]) = IF Full(counted)
                 THEN [counted EXCEPT !.status = "WAITING", !.waited = 0] ELSE counted
        BY <1>1, CountedType
      <4> HIDE DEF counted
      <4>2. ~Full(counted)
        BY <1>2, <2>3, <4>1, GroupsAssumption DEF Full
      <4>3. QED
        BY <4>1, <4>2
    <3>2. Stages' = Stages
      BY <1>1, <3>1, StagesStay
    <3>3. QED
      BY <2>1, <2>3, <3>2 DEF Stages
  <2>4. QED
    BY <2>2, <2>3
<1>7. Contract!Seat(h)
  BY <1>1, <1>5, <1>6 DEF Contract!Seat, Stages, Courses, Seats, Prepared
<1>8. QED
  BY <1>7 DEF Contract!Next

LEMMA ContractCreateLectures ==
  ASSUME TypeOK, Fresh, NEW j \in Job, CreateLectures(j)
  PROVE  [Contract!Next]_Public
<1>1. PICK h \in job[j].todo :
        /\ h \in Group
        /\ \/ lectures' = [lectures EXCEPT ![h] = @ + 1] /\ untitled' = untitled
           \/ untitled' = untitled \cup {h} /\ lectures' = lectures
  BY CreateStart
<1>2. UNCHANGED <<made, row, member>>
  BY DEF CreateLectures
<1>3. row[h].status = "WAITING" /\ Exists(h)
  BY <1>1 DEF Fresh, ReadIsSo
<1>4. Stages[h] = "waiting"
  BY <1>1, <1>3 DEF Stages, StageNow, StageOf
<1>5. \E outcome \in {"lecture", "no topics"} :
        Prepared' = [Prepared EXCEPT ![h] = @ \cup {outcome}]
  <2>1. CASE lectures' = [lectures EXCEPT ![h] = @ + 1] /\ untitled' = untitled
    <3>1. /\ lectures'[h] > 0 /\ \A g \in Group \ {h} : lectures'[g] = lectures[g]
      BY <1>1, <2>1 DEF TypeOK
    <3>2. Outcomes(h)' = Outcomes(h) \cup {"lecture"}
      BY <2>1, <3>1 DEF Outcomes
    <3>3. \A g \in Group \ {h} : Outcomes(g)' = Outcomes(g)
      BY <2>1, <3>1 DEF Outcomes
    <3>4. Prepared' = [Prepared EXCEPT ![h] = @ \cup {"lecture"}]
      BY <1>1, <3>2, <3>3 DEF Prepared
    <3>5. QED
      BY <3>4
  <2>2. CASE untitled' = untitled \cup {h} /\ lectures' = lectures
    <3>1. Outcomes(h)' = Outcomes(h) \cup {"no topics"}
      BY <2>2 DEF Outcomes
    <3>2. \A g \in Group \ {h} : Outcomes(g)' = Outcomes(g)
      BY <2>2 DEF Outcomes
    <3>3. Prepared' = [Prepared EXCEPT ![h] = @ \cup {"no topics"}]
      BY <1>1, <3>1, <3>2 DEF Prepared
    <3>4. QED
      BY <3>3
  <2>3. QED
    BY <1>1, <2>1, <2>2
<1>6. Stages' = Stages /\ Courses' = Courses /\ Seats' = Seats
  BY <1>2, SameRows, StagesStay DEF Same
<1>7. Contract!Prepare(h)
  BY <1>2, <1>4, <1>5, <1>6 DEF Contract!Prepare, Stages, Courses, Seats, Prepared
<1>8. QED
  BY <1>1, <1>7 DEF Contract!Next

LEMMA ContractSaveActive ==
  ASSUME TypeOK, Taught, Fresh, NEW j \in Job, SaveActive(j)
  PROVE  [Contract!Next]_Public
<1>1. PICK h : h = job[j].at
  OBVIOUS
<1>2. /\ h \in Group /\ row[h] \in Row /\ row[h].status = "WAITING" /\ Exists(h)
      /\ row'[h] = [row[h] EXCEPT !.status = "ACTIVE"]
      /\ \A g \in Group \ {h} : row'[g] = row[g]
      /\ UNCHANGED <<made, member, generated>>
  BY <1>1, ActiveMoves
<1>3. Ready(h)
  BY <1>1, <1>2 DEF Taught, Group, NoGroup
<1>4. Prepared[h] # {}
  <2>1. \E o \in {"lecture", "no topics"} : o \in Outcomes(h)
    BY <1>3 DEF Ready, Outcomes
  <2>2. QED
    BY <1>2, <2>1 DEF Prepared
<1>5. Stages[h] = "waiting"
  BY <1>2 DEF Stages, StageNow, StageOf
<1>6. /\ row'[h].status = "ACTIVE" /\ row'[h].course = row[h].course
      /\ row'[h].count = row[h].count
  BY <1>2 DEF Row
<1>7. Stages' = [Stages EXCEPT ![h] = "active"]
  <2>1. StageOf(row'[h].status) = "active"
    BY <1>6 DEF StageOf
  <2>2. \A g \in Group \ {h} : row'[g].status = row[g].status
    BY <1>2
  <2>3. QED
    BY <1>2, <2>1, <2>2, StageWritten
<1>8. Courses' = Courses /\ Seats' = Seats /\ Prepared' = Prepared
  BY <1>2, <1>6, SameRows, PreparedStays DEF Same
<1>9. Contract!Begin(h)
  BY <1>2, <1>4, <1>5, <1>7, <1>8 DEF Contract!Begin, Stages, Courses, Seats, Prepared
<1>10. QED
  BY <1>2, <1>9 DEF Contract!Next

LEMMA ContractStep ==
  TypeOK /\ Taught /\ Filling /\ Fresh /\ [Next]_vars => [Contract!Next]_Public
<1> SUFFICES ASSUME TypeOK, Taught, Filling, Fresh, [Next]_vars
             PROVE  [Contract!Next]_Public
  OBVIOUS
<1>1. ASSUME UNCHANGED <<made, row, member, generated>> PROVE [Contract!Next]_Public
  BY <1>1, Unseen DEF Same
<1>2. ASSUME NEW w \in Worker,
             \/ \E s \in Student, c \in Course : AddStudentToGroup(w, s, c)
             \/ FindAvailableGroup(w) \/ ReadCount(w) \/ SelectCount(w) \/ AbortAdd(w)
      PROVE  [Contract!Next]_Public
  BY <1>1, <1>2 DEF AddStudentToGroup, FindAvailableGroup, ReadCount, SelectCount, AbortAdd
<1>3. ASSUME NEW w \in Worker, AddStudent(w) PROVE [Contract!Next]_Public
  BY <1>2, <1>3, ContractCreate, ContractJoin, ContractSaveCount DEF AddStudent
<1>4. ASSUME NEW j \in Job, HandleGroupAutoStart(j) \/ StartReadyGroups(j) \/ AbortJob(j)
      PROVE  [Contract!Next]_Public
  BY <1>1, <1>4 DEF HandleGroupAutoStart, StartReadyGroups, FindGroupsToStart, AbortJob
<1>5. ASSUME NEW j \in Job, StartGroup(j) PROVE [Contract!Next]_Public
  BY <1>1, <1>5, ContractCreateLectures, ContractSaveActive DEF StartGroup, SelectActive
<1>6. CASE Tick
  <2>1. UNCHANGED <<made, member, generated>>
    BY <1>6 DEF Tick
  <2>2. \A g \in Group : Same(g) /\ row'[g].status = row[g].status
    BY <1>6 DEF Tick, TypeOK, Row, Same
  <2>3. QED
    BY <2>1, <2>2, Unseen
<1>7. CASE UNCHANGED vars
  BY <1>1, <1>7 DEF vars, generated
<1>8. QED
  BY <1>2, <1>3, <1>4, <1>5, <1>6, <1>7 DEF Next, Cron

\* When adds and starts do not overlap, the groups keep the contract: for any number of
\* students, courses, adds, jobs and failures a course fills one group at a time, a group
\* closes with its last seat and starts with a lecture or because its course was found without
\* topics, and no save of a job moves a student or gives a seat back.
\* (group.service.ts:68, addStudentToGroup; :148, startGroupsIfReady.)
THEOREM GroupContractCorrect == ASSUME ~Overlap PROVE Spec => ImplementsGroupContract
<1>1. Init => Contract!Init
  <2>1. ASSUME Init
        PROVE  \A g \in Group : /\ StageNow(g) = "none" /\ row[g].course \in Course
                                /\ row[g].count = 0 /\ Outcomes(g) = {}
    BY <2>1, AnyCourseType DEF Init, StageNow, Exists, Group, NewRow, Outcomes
  <2>2. ASSUME Init
        PROVE  /\ Stages = [g \in Group |-> "none"] /\ Courses \in [Group -> Course]
               /\ Seats = [g \in Group |-> 0] /\ Prepared = [g \in Group |-> {}]
               /\ member = [s \in Student |-> NoGroup]
    BY <2>1, <2>2 DEF Init, Stages, Courses, Seats, Prepared
  <2>3. QED
    BY <2>2 DEF Contract!Init, Stages, Courses, Seats, Prepared
<1>2. TypeOK /\ Taught /\ Filling /\ Fresh /\ [Next]_vars => [Contract!Next]_(Contract!vars)
  BY ContractStep DEF Contract!vars, Public, Stages, Courses, Seats, Prepared
<1>3. /\ TypeOK /\ Alone /\ [Next]_vars => Alone'
      /\ TypeOK /\ Alone /\ Fresh /\ [Next]_vars => Fresh'
      /\ TypeOK /\ Alone /\ Fresh /\ Filling /\ [Next]_vars => Filling'
  BY AloneStep, FreshStep, FillingStep
<1>4. QED
  BY TypeInit, TypeStep, TaughtInit, TaughtStep, AloneInit, FreshInit, FillingInit,
     <1>1, <1>2, <1>3, PTL DEF Spec, ImplementsGroupContract, Contract!Spec
=============================================================================
