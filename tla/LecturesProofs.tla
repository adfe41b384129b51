--------------------------- MODULE LecturesProofs ---------------------------
(***************************************************************************)
(* What holds of a group's lectures for any number of lectures, topics,    *)
(* teachers and handlers in flight.                                        *)
(***************************************************************************)
EXTENDS LecturesContract, WellFoundedInduction, TLAPS

-----------------------------------------------------------------------------
(***************************************************************************)
(* Rows, and the columns a save writes.                                    *)
(***************************************************************************)

\* A new row of any order of the course is a row.
LEMMA NewRowType == \A k \in Order : NewRow(k) \in Row
  BY DEF NewRow, Row, LectureStatusEnum

\* A lecture that exists is one of the bounded set, and orders start at 1.
LEMMA ExistsLecture ==
  ASSUME TypeOK, NEW l \in Lecture \cup {1}, Exists(l)
  PROVE  l \in Lecture
  BY LecturesAssumption DEF TypeOK, Exists, Lecture

\* A row with some columns of an entity written is a row of the same order.
LEMMA WrittenType ==
  ASSUME NEW r \in Row, NEW e \in Row, NEW write
  PROVE  /\ Written(r, e, write) \in Row
         /\ Written(r, e, write).order = r.order
         /\ Written(r, e, write).status = IF "status" \in write THEN e.status ELSE r.status
         /\ Written(r, e, write).teacher = IF "teacher" \in write THEN e.teacher ELSE r.teacher
         /\ Written(r, e, write).reminderSent =
              IF "reminderSent" \in write THEN e.reminderSent ELSE r.reminderSent
  BY DEF Written, Row

\* When nobody wrote the row since the save selected it, every column is the entity's.
LEMMA WrittenDiffering ==
  ASSUME NEW r \in Row, NEW e \in Row
  PROVE  /\ Written(r, e, Differing(r, e)).status = e.status
         /\ Written(r, e, Differing(r, e)).teacher = e.teacher
         /\ Written(r, e, Differing(r, e)).reminderSent = e.reminderSent
<1>1. /\ "status" \in Differing(r, e) <=> e.status # r.status
      /\ "teacher" \in Differing(r, e) <=> e.teacher # r.teacher
      /\ "reminderSent" \in Differing(r, e) <=> e.reminderSent # r.reminderSent
  BY DEF Differing, Column
<1>2. QED
  BY <1>1, WrittenType

\* Rows that agree in every column are the same row.
LEMMA SameRow ==
  ASSUME NEW r \in Row, NEW s \in Row, r.status = s.status, r.teacher = s.teacher,
         r.reminderSent = s.reminderSent, r.order = s.order
  PROVE  r = s
  BY DEF Row

-----------------------------------------------------------------------------
(***************************************************************************)
(* The kinds of steps.  Only five actions write rows.                      *)
(***************************************************************************)
QuietNotice(l) ==
  \/ Tick(l) \/ SendNotice(l) \/ FindForNotice(l) \/ SelectNotice(l) \/ TrackNotice(l)
  \/ FailNotice(l)

QuietHandler(w) ==
  Call(w) \/ SendReminder(w) \/ SelectLecture(w) \/ EmitCompleted(w) \/ Abort(w)

LEMMA StepKinds ==
  ASSUME [Next]_vars
  PROVE  \/ CreateLecturesForGroup
         \/ \E k \in Order : ScheduleNext(k)
         \/ FindLatest \/ AbortScheduling
         \/ \E l \in Lecture : QuietNotice(l) \/ SaveNotice(l)
         \/ \E l \in Lecture, t \in Teacher : HandleClaimLecture(l, t)
         \/ \E w \in Worker : QuietHandler(w) \/ SaveLecture(w) \/ SaveCompleted(w)
         \/ UNCHANGED vars
  BY DEF Next, ScheduleNextLecture, Notify, Handle, QuietNotice, QuietHandler

\* What a request or a cron job has read, and what it wants to save.
Plans(r, e) ==
  /\ e.teacher = r.teacher /\ e.order = r.order
  /\ \/ /\ e.reminderSent = r.reminderSent
        /\ \/ e.status = "ONGOING" /\ r.status = "ASSIGNED"
           \/ e.status = "CANCELLED" /\ r.status \notin {"COMPLETED", "CANCELLED"}
           \/ e.status = "COMPLETED"
     \/ /\ e.reminderSent = TRUE /\ r.reminderSent = FALSE
        /\ e.status = r.status /\ r.status = "ASSIGNED"

LEMMA CallBegins ==
  ASSUME TypeOK, NEW w \in Worker, Call(w)
  PROVE  \E l \in Lecture, step \in {"push", "select"}, e \in Row :
           /\ Begin(w, l, step, e) /\ Plans(row[l], e)
           /\ e.reminderSent # row[l].reminderSent <=> step = "push"
<1>1. PICK l \in Lecture :
         \/ StartLecture(w, l) \/ CompleteLecture(w, l) \/ CancelLecture(w, l)
         \/ UpdateInviteLink(w, l) \/ StartDueLectures(w, l)
         \/ CompleteDueLectures(w, l) \/ HandleReminders(w, l)
  BY DEF Call
<1>2. row[l] \in Row
  BY DEF TypeOK
<1>3. ASSUME NEW st \in LectureStatusEnum, BeginStatus(w, l, st),
             \/ st = "ONGOING" /\ row[l].status = "ASSIGNED"
             \/ st = "CANCELLED" /\ row[l].status \notin {"COMPLETED", "CANCELLED"}
             \/ st = "COMPLETED"
      PROVE  \E step \in {"push", "select"}, e \in Row :
               /\ Begin(w, l, step, e) /\ Plans(row[l], e)
               /\ e.reminderSent # row[l].reminderSent <=> step = "push"
  <2>1. PICK e : e = [row[l] EXCEPT !.status = st]
    OBVIOUS
  <2>2. /\ e \in Row /\ e.status = st /\ e.teacher = row[l].teacher
        /\ e.reminderSent = row[l].reminderSent /\ e.order = row[l].order
    BY <1>2, <2>1 DEF Row
  <2>3. Begin(w, l, "select", e) /\ Plans(row[l], e)
    BY <1>3, <2>1, <2>2 DEF BeginStatus, Plans
  <2>4. QED
    BY <2>2, <2>3
<1>4. ASSUME HandleReminders(w, l)
      PROVE  \E step \in {"push", "select"}, e \in Row :
               /\ Begin(w, l, step, e) /\ Plans(row[l], e)
               /\ e.reminderSent # row[l].reminderSent <=> step = "push"
  <2>1. PICK e : e = [row[l] EXCEPT !.reminderSent = TRUE]
    OBVIOUS
  <2>2. /\ e \in Row /\ e.status = row[l].status /\ e.teacher = row[l].teacher
        /\ e.reminderSent = TRUE /\ e.order = row[l].order
    BY <1>2, <2>1 DEF Row
  <2>3. row[l].status = "ASSIGNED" /\ row[l].reminderSent = FALSE
    BY <1>2, <1>4 DEF HandleReminders, Row
  <2>4. Begin(w, l, "push", e) /\ Plans(row[l], e)
    BY <1>4, <2>1, <2>2, <2>3 DEF HandleReminders, BeginReminder, Plans
  <2>5. QED
    BY <2>2, <2>3, <2>4
<1>5. \E step \in {"push", "select"}, e \in Row :
        /\ Begin(w, l, step, e) /\ Plans(row[l], e)
        /\ e.reminderSent # row[l].reminderSent <=> step = "push"
  BY <1>1, <1>3, <1>4 DEF StartLecture, CompleteLecture, CancelLecture, UpdateInviteLink,
     StartDueLectures, CompleteDueLectures, LectureStatusEnum
<1>6. QED
  BY <1>5

-----------------------------------------------------------------------------
(***************************************************************************)
(* Type correctness.                                                       *)
(***************************************************************************)
LEMMA IdleType == Idle \in Handler /\ Idle.step = "idle"
  BY NewRowType, LecturesAssumption DEF Idle, Handler, Step, Order

LEMMA NoticeAtType ==
  \A step \in NoticeStep : NoticeAt(step) \in Notice /\ NoticeAt(step).step = step
  BY NewRowType, LecturesAssumption DEF NoticeAt, Notice, Order

LEMMA TypeInit == Init => TypeOK
  BY NewRowType, IdleType, NoticeAtType, LecturesAssumption
  DEF Init, TypeOK, Exists, Phase, NoticeStep, Order

\* The row, notice and phase of a new lecture are typed.
LEMMA TypeNewLecture ==
  ASSUME TypeOK, NEW k \in Order, NEW phases \in SUBSET Phase, NewLecture(k, phases),
         req' = req
  PROVE  /\ size' \in 0..MaxLectures /\ row' \in [Lecture -> Row]
         /\ phase' \in [Lecture -> Phase] /\ notice' \in [Lecture -> Notice]
         /\ \A w \in Worker : req'[w].step # "idle" => req'[w].lecture <= size'
<1>1. size' \in 0..MaxLectures
  BY LecturesAssumption DEF NewLecture, TypeOK
<1>2. row' \in [Lecture -> Row]
  BY NewRowType DEF NewLecture, TypeOK
<1>3. phase' \in [Lecture -> Phase]
  BY DEF NewLecture, TypeOK
<1>4. notice' \in [Lecture -> Notice]
  BY DEF NewLecture, TypeOK, Notice, NoticeStep
<1>5. \A w \in Worker : req'[w].step # "idle" => req'[w].lecture <= size'
  <2>1. \A w \in Worker : req[w].lecture \in Nat
    BY LecturesAssumption DEF TypeOK, Handler, Lecture
  <2>2. size \in Nat /\ size' = size + 1
    BY LecturesAssumption DEF NewLecture, TypeOK
  <2>3. QED
    BY <2>1, <2>2 DEF TypeOK, Exists
<1>6. QED
  BY <1>1, <1>2, <1>3, <1>4, <1>5

\* A handler that starts is typed.
LEMMA TypeBegin ==
  ASSUME TypeOK, NEW w \in Worker, NEW l \in Lecture, NEW s \in Step, NEW e \in Row,
         Begin(w, l, s, e)
  PROVE  TypeOK'
<1>1. req' \in [Worker -> Handler]
  BY DEF Begin, TypeOK, Handler
<1>2. \A v \in Worker : req'[v].step # "idle" => req'[v].lecture <= size'
  BY DEF Begin, TypeOK, Exists, chain
<1>3. QED
  BY <1>1, <1>2 DEF Begin, TypeOK, Exists, chain, histories

LEMMA TypeFinish ==
  ASSUME TypeOK, NEW w \in Worker, Finish(w), size' = size
  PROVE  /\ req' \in [Worker -> Handler]
         /\ \A v \in Worker : req'[v].step # "idle" => req'[v].lecture <= size'
  BY IdleType DEF TypeOK, Finish, Exists

\* A handler that goes on with its lecture is typed.
LEMMA TypeGoesOn ==
  ASSUME TypeOK, NEW w \in Worker, req[w].step # "idle", size' = size,
         NEW h \in Handler, h.lecture = req[w].lecture, req' = [req EXCEPT ![w] = h]
  PROVE  /\ req' \in [Worker -> Handler]
         /\ \A v \in Worker : req'[v].step # "idle" => req'[v].lecture <= size'
  BY DEF TypeOK, Exists

\* A lecture saved from an entity is typed.
LEMMA TypeUpdate ==
  ASSUME TypeOK, NEW w \in Worker, Update(w)
  PROVE  /\ row' \in [Lecture -> Row] /\ req[w].lecture \in Lecture
         /\ UNCHANGED <<phase, notice, size, completed, inserting, histories, calls, aborts>>
<1>1. req[w].step # "idle" /\ req[w].entity \in Row /\ req[w].lecture \in Lecture
  BY ExistsLecture DEF Update, TypeOK, Handler
<1>2. row[req[w].lecture] \in Row
  BY <1>1 DEF TypeOK
<1>3. Written(row[req[w].lecture], req[w].entity, req[w].write) \in Row
  BY <1>1, <1>2, WrittenType
<1>4. QED
  BY <1>1, <1>3 DEF Update, TypeOK, chain

LEMMA TypeNotice ==
  ASSUME TypeOK, NEW l \in Lecture, QuietNotice(l) \/ SaveNotice(l)
  PROVE  TypeOK'
<1>1. notice' \in [Lecture -> Notice]
  <2>1. /\ NoticeAt("find") \in Notice /\ NoticeAt("track") \in Notice
        /\ NoticeAt("processed") \in Notice /\ NoticeAt("lost") \in Notice
        /\ NoticeAt("failed") \in Notice
    BY NoticeAtType DEF NoticeStep
  <2>2. CASE FindForNotice(l)
    BY <2>2 DEF FindForNotice, TypeOK, Notice, NoticeStep
  <2>3. CASE SelectNotice(l)
    <3>1. PICK d \in SUBSET Column : d = Differing(row[l], notice[l].entity)
      BY DEF Differing
    <3>2. notice' = [notice EXCEPT ![l].step = "update", ![l].write = d]
      BY <2>3, <3>1 DEF SelectNotice
    <3>3. QED
      BY <3>2 DEF TypeOK, Notice, NoticeStep
  <2>4. QED
    BY <2>1, <2>2, <2>3 DEF QuietNotice, Tick, SendNotice, SaveNotice, TrackNotice, FailNotice,
       TypeOK
<1>2. row' \in [Lecture -> Row]
  <2>1. row[l] \in Row /\ notice[l].entity \in Row
    BY DEF TypeOK, Notice
  <2>2. Written(row[l], notice[l].entity, notice[l].write) \in Row
    BY <2>1, WrittenType
  <2>3. QED
    BY <2>2 DEF QuietNotice, Tick, SendNotice, FindForNotice, SelectNotice, SaveNotice,
       TrackNotice, FailNotice, TypeOK
<1>3. phase' \in [Lecture -> Phase]
  BY DEF QuietNotice, Tick, SendNotice, FindForNotice, SelectNotice, SaveNotice, TrackNotice,
     FailNotice, TypeOK, Phase
<1>4. /\ UNCHANGED <<req, chain, histories, calls>>
      /\ aborts' \in {aborts, aborts + 1}
  BY DEF QuietNotice, Tick, SendNotice, FindForNotice, SelectNotice, SaveNotice, TrackNotice,
     FailNotice
<1>5. QED
  BY <1>1, <1>2, <1>3, <1>4 DEF TypeOK, Exists, chain, histories

LEMMA TypeHandler ==
  ASSUME TypeOK, NEW w \in Worker, QuietHandler(w) \/ SaveLecture(w) \/ SaveCompleted(w)
  PROVE  TypeOK'
<1>1. CASE Call(w)
  <2>1. PICK l \in Lecture, step \in {"push", "select"}, e \in Row : Begin(w, l, step, e)
    BY <1>1, CallBegins
  <2>2. QED
    BY <2>1, TypeBegin DEF Step
<1>2. CASE SendReminder(w)
  <2>1. /\ req[w].step # "idle" /\ req[w].lecture \in Lecture
        /\ UNCHANGED <<row, phase, notice, chain, claimants, calls, aborts>>
        /\ reminded' = [reminded EXCEPT ![req[w].lecture] = @ + 1]
    BY <1>2, ExistsLecture DEF SendReminder, TypeOK, Handler
  <2>2. PICK h : h = [req[w] EXCEPT !.step = "select"]
    OBVIOUS
  <2>3. h \in Handler /\ h.lecture = req[w].lecture /\ req' = [req EXCEPT ![w] = h]
    BY <1>2, <2>2 DEF SendReminder, TypeOK, Handler, Step
  <2>4. /\ req' \in [Worker -> Handler]
        /\ \A v \in Worker : req'[v].step # "idle" => req'[v].lecture <= size'
    BY <2>1, <2>3, TypeGoesOn DEF chain
  <2>5. reminded' \in [Lecture -> Nat]
    BY <2>1 DEF TypeOK
  <2>6. QED
    BY <2>1, <2>4, <2>5 DEF TypeOK, Exists, chain
<1>3. CASE SelectLecture(w)
  <2>1. PICK d \in SUBSET Column : d = Differing(row[req[w].lecture], req[w].entity)
    BY DEF Differing
  <2>2. PICK h : h = [req[w] EXCEPT !.step = "update", !.write = d]
    OBVIOUS
  <2>3. h \in Handler /\ h.lecture = req[w].lecture /\ req' = [req EXCEPT ![w] = h]
    BY <1>3, <2>1, <2>2 DEF SelectLecture, TypeOK, Handler, Step
  <2>4. req[w].step # "idle" /\ UNCHANGED <<row, phase, notice, chain, histories, calls, aborts>>
    BY <1>3 DEF SelectLecture
  <2>5. /\ req' \in [Worker -> Handler]
        /\ \A v \in Worker : req'[v].step # "idle" => req'[v].lecture <= size'
    BY <2>3, <2>4, TypeGoesOn DEF chain
  <2>6. QED
    BY <2>4, <2>5 DEF TypeOK, Exists, chain, histories
<1>4. CASE EmitCompleted(w)
  BY <1>4, TypeFinish DEF EmitCompleted, TypeOK, Exists, histories
<1>5. CASE Abort(w)
  BY <1>5, TypeFinish DEF Abort, TypeOK, Exists, chain, histories
<1>6. CASE SaveLecture(w)
  <2>1. Update(w) /\ Finish(w)
    BY <1>6 DEF SaveLecture
  <2>2. QED
    BY <2>1, TypeUpdate, TypeFinish DEF TypeOK, Exists, histories
<1>7. CASE SaveCompleted(w)
  <2>1. Update(w) /\ req[w].step # "idle"
    BY <1>7 DEF SaveCompleted, Update
  <2>2. PICK h : h = [Idle EXCEPT !.step = "emit", !.lecture = req[w].lecture]
    OBVIOUS
  <2>3. h \in Handler /\ h.lecture = req[w].lecture
    <3>1. NewRow(1) \in Row /\ req[w].lecture \in Lecture \cup {1}
      BY NewRowType, LecturesAssumption DEF TypeOK, Handler, Order
    <3>2. h = [step |-> "emit", lecture |-> req[w].lecture, entity |-> NewRow(1), write |-> {}]
      BY <2>2 DEF Idle
    <3>3. QED
      BY <3>1, <3>2 DEF Handler, Step
  <2>4. req' = [req EXCEPT ![w] = h]
    BY <1>7, <2>2 DEF SaveCompleted
  <2>5. QED
    BY <2>1, <2>3, <2>4, TypeUpdate, TypeGoesOn DEF TypeOK, Exists, histories
<1>8. QED
  BY <1>1, <1>2, <1>3, <1>4, <1>5, <1>6, <1>7 DEF QuietHandler

\* Every step keeps the types.
LEMMA TypeStep == TypeOK /\ [Next]_vars => TypeOK'
<1> SUFFICES ASSUME TypeOK, [Next]_vars PROVE TypeOK'
  OBVIOUS
<1>1. CASE CreateLecturesForGroup
  <2>1. 1 \in Order /\ FirstPhase \in SUBSET Phase
    BY LecturesAssumption DEF Order
  <2>2. NewLecture(1, FirstPhase) /\ req' = req
    BY <1>1 DEF CreateLecturesForGroup
  <2>3. QED
    BY <1>1, <2>1, <2>2, TypeNewLecture DEF CreateLecturesForGroup, TypeOK, Exists, histories
<1>2. CASE FindLatest
  <2>1. completed' \in Nat
    BY <1>2 DEF FindLatest, TakeCompleted, TypeOK
  <2>2. inserting' \in [Order -> Nat]
    <3>1. PICK k \in Order :
             \/ k < Topics /\ inserting' = [inserting EXCEPT ![k + 1] = @ + 1]
             \/ inserting' = inserting
      BY <1>2 DEF FindLatest
    <3>2. QED
      BY <3>1 DEF TypeOK
  <2>3. QED
    BY <1>2, <2>1, <2>2 DEF FindLatest, TakeCompleted, TypeOK, Exists, histories
<1>3. ASSUME NEW k \in Order, ScheduleNext(k) PROVE TypeOK'
  <2>1. {"early", "soon"} \in SUBSET Phase
    BY DEF Phase
  <2>2. NewLecture(k, {"early", "soon"}) /\ req' = req
    BY <1>3 DEF ScheduleNext
  <2>3. QED
    BY <1>3, <2>1, <2>2, TypeNewLecture DEF ScheduleNext, TypeOK, Exists, histories
<1>4. CASE AbortScheduling
  BY <1>4 DEF AbortScheduling, TypeOK, Exists, histories
<1>5. ASSUME NEW l \in Lecture, NEW t \in Teacher, HandleClaimLecture(l, t) PROVE TypeOK'
  <2>1. row' \in [Lecture -> Row]
    <3>1. row[l] \in Row
      BY DEF TypeOK
    <3>2. [row[l] EXCEPT !.teacher = t, !.status = "ASSIGNED"] \in Row
      BY <3>1 DEF Row, LectureStatusEnum
    <3>3. row' = [row EXCEPT ![l] = [row[l] EXCEPT !.teacher = t, !.status = "ASSIGNED"]]
      BY <1>5, <3>1 DEF HandleClaimLecture, TypeOK
    <3>4. QED
      BY <3>2, <3>3 DEF TypeOK
  <2>2. QED
    BY <1>5, <2>1 DEF HandleClaimLecture, Confirm, TypeOK, Exists, chain, histories
<1>6. CASE UNCHANGED vars
  BY <1>6 DEF vars, TypeOK, Exists
<1>7. QED
  BY <1>1, <1>2, <1>3, <1>4, <1>5, <1>6, TypeNotice, TypeHandler, StepKinds

\* Rows, notices and handlers have their types, and handlers work on rows that exist.
THEOREM TypeCorrect == Spec => []TypeOK
  BY TypeInit, TypeStep, PTL DEF Spec

-----------------------------------------------------------------------------
(***************************************************************************)
(* The orders of a group's lectures have no gaps.  No save writes the      *)
(* order of a row, and a handler that inserts order k has seen order k-1.  *)
(***************************************************************************)
OrdersKept ==
  /\ \A k \in Order : inserting[k] > 0 => k - 1 \in Orders
  /\ NoTopicSkipped

LEMMA OrdersKeptInit == Init => OrdersKept
<1> SUFFICES ASSUME Init PROVE OrdersKept
  OBVIOUS
<1>1. Orders = {}
  BY LecturesAssumption DEF Init, Orders, Exists, Lecture
<1>2. QED
  BY <1>1 DEF Init, OrdersKept, NoTopicSkipped

LEMMA OrdersType == TypeOK => Orders \subseteq Order
  BY DEF TypeOK, Orders, Row

\* A step that changes no order keeps the set of orders.
LEMMA SameOrders ==
  ASSUME size' = size, \A l \in Lecture : row'[l].order = row[l].order
  PROVE  Orders' = Orders
  BY DEF Orders, Exists

\* Saves and claims write no order.
LEMMA OrdersWritten ==
  ASSUME TypeOK,
         \/ \E l \in Lecture : QuietNotice(l) \/ SaveNotice(l)
         \/ \E l \in Lecture, t \in Teacher : HandleClaimLecture(l, t)
         \/ \E w \in Worker : QuietHandler(w) \/ SaveLecture(w) \/ SaveCompleted(w)
         \/ UNCHANGED vars
  PROVE  size' = size /\ \A l \in Lecture : row'[l].order = row[l].order
<1>1. ASSUME NEW l \in Lecture, QuietNotice(l) \/ SaveNotice(l)
      PROVE  size' = size /\ \A m \in Lecture : row'[m].order = row[m].order
  <2>1. row[l] \in Row /\ notice[l].entity \in Row
    BY DEF TypeOK, Notice
  <2>2. Written(row[l], notice[l].entity, notice[l].write).order = row[l].order
    BY <2>1, WrittenType
  <2>3. QED
    BY <1>1, <2>2 DEF QuietNotice, Tick, SendNotice, FindForNotice, SelectNotice, SaveNotice,
       TrackNotice, FailNotice, TypeOK, chain
<1>2. ASSUME NEW l \in Lecture, NEW t \in Teacher, HandleClaimLecture(l, t)
      PROVE  size' = size /\ \A m \in Lecture : row'[m].order = row[m].order
  BY <1>2 DEF HandleClaimLecture, Confirm, chain, TypeOK, Row
<1>3. ASSUME NEW w \in Worker, QuietHandler(w)
      PROVE  size' = size /\ \A m \in Lecture : row'[m].order = row[m].order
  BY <1>3 DEF QuietHandler, Call, StartLecture, CompleteLecture, CancelLecture,
     UpdateInviteLink, StartDueLectures, CompleteDueLectures, HandleReminders, BeginStatus,
     BeginReminder, Begin, SendReminder, SelectLecture, EmitCompleted, Abort, chain
<1>4. ASSUME NEW w \in Worker, SaveLecture(w) \/ SaveCompleted(w)
      PROVE  size' = size /\ \A m \in Lecture : row'[m].order = row[m].order
  <2>1. Update(w)
    BY <1>4 DEF SaveLecture, SaveCompleted
  <2>2. req[w].lecture \in Lecture /\ req[w].entity \in Row
    BY <2>1, TypeUpdate DEF TypeOK, Handler
  <2>3. row[req[w].lecture] \in Row
    BY <2>2 DEF TypeOK
  <2>4. Written(row[req[w].lecture], req[w].entity, req[w].write).order
          = row[req[w].lecture].order
    BY <2>2, <2>3, WrittenType
  <2>5. QED
    BY <2>1, <2>2, <2>4 DEF Update, TypeOK, chain
<1>5. CASE UNCHANGED vars
  BY <1>5 DEF vars
<1>6. QED
  BY <1>1, <1>2, <1>3, <1>4, <1>5

\* They insert nothing either.
LEMMA InsertingKept ==
  ASSUME \/ \E l \in Lecture : QuietNotice(l) \/ SaveNotice(l)
         \/ \E l \in Lecture, t \in Teacher : HandleClaimLecture(l, t)
         \/ \E w \in Worker : QuietHandler(w) \/ SaveLecture(w) \/ SaveCompleted(w)
         \/ UNCHANGED vars
  PROVE  inserting' = inserting
<1>1. ASSUME NEW l \in Lecture, QuietNotice(l) \/ SaveNotice(l) PROVE inserting' = inserting
  BY <1>1 DEF QuietNotice, Tick, SendNotice, FindForNotice, SelectNotice, SaveNotice,
     TrackNotice, FailNotice, chain
<1>2. ASSUME NEW w \in Worker, QuietHandler(w) PROVE inserting' = inserting
  BY <1>2 DEF QuietHandler, Call, StartLecture, CompleteLecture, CancelLecture,
     UpdateInviteLink, StartDueLectures, CompleteDueLectures, HandleReminders, BeginStatus,
     BeginReminder, Begin, SendReminder, SelectLecture, EmitCompleted, Abort, chain
<1>3. QED
  BY <1>1, <1>2 DEF HandleClaimLecture, Confirm, SaveLecture, SaveCompleted, Update, chain, vars

\* A new lecture adds its order.
LEMMA NewOrder ==
  ASSUME TypeOK, NEW k \in Order, NEW phases, NewLecture(k, phases)
  PROVE  Orders' = Orders \cup {k}
<1>1. size \in Nat /\ size' = size + 1 /\ size + 1 \in Lecture
  BY LecturesAssumption DEF NewLecture, TypeOK, Lecture
<1>2. row' = [row EXCEPT ![size + 1] = NewRow(k)]
  BY DEF NewLecture
<1>3. row'[size + 1].order = k /\ \A l \in Lecture \ {size + 1} : row'[l] = row[l]
  BY <1>1, <1>2 DEF TypeOK, NewRow
<1>4. \A l \in Lecture : l \in Nat
  BY DEF Lecture
<1>5. Orders' = {row'[l].order : l \in {m \in Lecture : m <= size + 1}}
  BY <1>1 DEF Orders, Exists
<1>6. {m \in Lecture : m <= size + 1} = {m \in Lecture : m <= size} \cup {size + 1}
  BY <1>1, <1>4
<1>7. \A m \in Lecture : m <= size => m # size + 1
  BY <1>1, <1>4
<1>8. Orders' = {row'[l].order : l \in {m \in Lecture : m <= size}} \cup {k}
  BY <1>3, <1>5, <1>6
<1>9. \A l \in {m \in Lecture : m <= size} : row'[l].order = row[l].order
  BY <1>3, <1>7
<1>10. QED
  BY <1>8, <1>9 DEF Orders, Exists

\* Adding the order after one that is there leaves no gap.
LEMMA NextOrder ==
  ASSUME TypeOK, OrdersKept, NEW k \in Order, k = 1 \/ k - 1 \in Orders,
         Orders' = Orders \cup {k}
  PROVE  NoTopicSkipped'
<1>1. Orders \subseteq Order /\ Order \subseteq Nat
  BY OrdersType DEF Order
<1>2. 1..k \subseteq Orders \cup {k}
  <2>1. CASE k = 1
    BY <2>1
  <2>2. CASE k - 1 \in Orders
    <3>1. 1..(k - 1) \subseteq Orders
      BY <2>2 DEF OrdersKept, NoTopicSkipped
    <3>2. 1..k \subseteq 1..(k - 1) \cup {k}
      BY <1>1
    <3>3. QED
      BY <3>1, <3>2
  <2>3. QED
    BY <2>1, <2>2
<1>3. QED
  BY <1>2 DEF OrdersKept, NoTopicSkipped

LEMMA OrdersKeptStep == TypeOK /\ OrdersKept /\ [Next]_vars => OrdersKept'
<1> SUFFICES ASSUME TypeOK, OrdersKept, [Next]_vars PROVE OrdersKept'
  OBVIOUS
<1>1. CASE CreateLecturesForGroup
  <2>1. 1 \in Order
    BY LecturesAssumption DEF Order
  <2>2. NewLecture(1, FirstPhase) /\ inserting' = inserting
    BY <1>1 DEF CreateLecturesForGroup
  <2>3. Orders' = Orders \cup {1}
    BY <2>1, <2>2, NewOrder
  <2>4. NoTopicSkipped'
    BY <2>1, <2>3, NextOrder
  <2>5. QED
    BY <2>2, <2>3, <2>4 DEF OrdersKept
<1>2. CASE FindLatest
  <2>1. PICK k \in Order : /\ k \in Orders
                           /\ \/ k < Topics /\ inserting' = [inserting EXCEPT ![k + 1] = @ + 1]
                              \/ inserting' = inserting
    BY <1>2 DEF FindLatest, IsLatest
  <2>2. UNCHANGED <<size, row>>
    BY <1>2 DEF FindLatest, TakeCompleted
  <2>3. Orders' = Orders
    BY <2>2, SameOrders
  <2>4. \A j \in Order : inserting'[j] > 0 => inserting[j] > 0 \/ j = k + 1
    BY <2>1 DEF TypeOK
  <2>5. \A j \in Order : inserting'[j] > 0 => j - 1 \in Orders
    BY <2>1, <2>4 DEF OrdersKept, Order
  <2>6. QED
    BY <2>3, <2>5 DEF OrdersKept, NoTopicSkipped
<1>3. ASSUME NEW k \in Order, ScheduleNext(k) PROVE OrdersKept'
  <2>1. /\ NewLecture(k, {"early", "soon"})
        /\ inserting[k] > 0 /\ inserting' = [inserting EXCEPT ![k] = @ - 1]
    BY <1>3 DEF ScheduleNext
  <2>2. Orders' = Orders \cup {k}
    BY <2>1, NewOrder
  <2>3. k - 1 \in Orders
    BY <2>1 DEF OrdersKept
  <2>4. NoTopicSkipped'
    BY <2>2, <2>3, NextOrder
  <2>5. \A j \in Order : inserting'[j] > 0 => inserting[j] > 0
    BY <2>1 DEF TypeOK
  <2>6. \A j \in Order : inserting'[j] > 0 => j - 1 \in Orders'
    BY <2>2, <2>5 DEF OrdersKept
  <2>7. QED
    BY <2>4, <2>6 DEF OrdersKept
<1>4. CASE AbortScheduling
  <2>1. UNCHANGED <<size, row>>
    BY <1>4 DEF AbortScheduling
  <2>2. \A j \in Order : inserting'[j] > 0 => inserting[j] > 0
    BY <1>4 DEF AbortScheduling, TypeOK
  <2>3. QED
    BY <2>1, <2>2, SameOrders DEF OrdersKept, NoTopicSkipped
<1>5. ASSUME Orders' = Orders, inserting' = inserting PROVE OrdersKept'
  BY <1>5 DEF OrdersKept, NoTopicSkipped
<1>6. QED
  BY <1>1, <1>2, <1>3, <1>4, <1>5, StepKinds, OrdersWritten, InsertingKept, SameOrders

\* However handlers interleave or fail, no topic of the course is skipped.
THEOREM NoTopicSkippedCorrect == Spec => []NoTopicSkipped
<1>1. OrdersKept => NoTopicSkipped
  BY DEF OrdersKept
<1>2. QED
  BY TypeInit, TypeStep, OrdersKeptInit, OrdersKeptStep, <1>1, PTL DEF Spec

-----------------------------------------------------------------------------
(***************************************************************************)
(* Handlers one at a time on a lecture: what a handler wants to save is a  *)
(* change of the row as it is, which the condition under which it began    *)
(* still allows, nobody else holds that lecture, and the columns its save  *)
(* will write are those in which the row still differs.                    *)
(***************************************************************************)
Holds(w) == req[w].step \notin {"idle", "emit"}
Noticing(l) == notice[l].step \in {"select", "update"}

InStep(h) ==
  /\ Plans(row[h.lecture], h.entity)
  /\ h.step = "push" => h.entity.reminderSent # row[h.lecture].reminderSent
  /\ h.step = "update" => h.write = Differing(row[h.lecture], h.entity)

Alone ==
  /\ \A w \in Worker : Holds(w) => InStep(req[w]) /\ ~Noticing(req[w].lecture)
  /\ \A v, w \in Worker : (Holds(v) /\ Holds(w) /\ req[v].lecture = req[w].lecture) => v = w
  /\ \A l \in Lecture :
       Noticing(l) => /\ notice[l].entity = row[l]
                      /\ notice[l].step = "update" => notice[l].write = Differing(row[l], row[l])
  /\ \A l \in Lecture : ~Exists(l) => /\ row[l].teacher = NoTeacher /\ ~row[l].reminderSent
                                      /\ notice[l].step = "none"

LEMMA AloneInit == Init => Alone
  BY DEF Init, Alone, Holds, Noticing, Idle, NoticeAt, NewRow

LEMMA HeldLecture ==
  ASSUME TypeOK
  PROVE  \A w \in Worker : Holds(w) => req[w].lecture \in Lecture /\ Exists(req[w].lecture)
  BY ExistsLecture DEF TypeOK, Handler, Exists, Holds

\* The row of a new lecture was not held by anybody.
LEMMA NewLectureTouches ==
  ASSUME TypeOK, NEW k \in Order, NEW phases, NewLecture(k, phases)
  PROVE  /\ size \in Nat /\ size' = size + 1 /\ size + 1 \in Lecture /\ ~Exists(size + 1)
         /\ row'[size + 1] = NewRow(k) /\ notice'[size + 1].step = "send"
         /\ \A l \in Lecture \ {size + 1} : row'[l] = row[l] /\ notice'[l] = notice[l]
<1>1. size \in Nat /\ size' = size + 1 /\ size + 1 \in Lecture
  BY LecturesAssumption DEF NewLecture, TypeOK, Lecture
<1>2. ~Exists(size + 1)
  BY <1>1 DEF Exists
<1>3. /\ row' = [row EXCEPT ![size + 1] = NewRow(k)]
      /\ notice' = [notice EXCEPT ![size + 1].step = "send"]
  BY DEF NewLecture
<1>4. notice'[size + 1].step = "send"
  BY <1>1, <1>3 DEF TypeOK, Notice
<1>5. QED
  BY <1>1, <1>2, <1>3, <1>4 DEF TypeOK

LEMMA AloneNewLecture ==
  ASSUME TypeOK, Alone, NEW k \in Order, NEW phases, NewLecture(k, phases), req' = req
  PROVE  Alone'
<1>1. \A w \in Worker : Holds(w) => req[w].lecture \in Lecture \ {size + 1}
  BY HeldLecture, NewLectureTouches
<1>2. \A w \in Worker : Holds(w)' = Holds(w)
  BY DEF Holds
<1>3. \A w \in Worker : Holds(w)' => InStep(req[w])' /\ ~Noticing(req[w].lecture)'
  BY <1>1, <1>2, NewLectureTouches DEF Alone, InStep, Noticing
<1>4. \A l \in Lecture :
        Noticing(l)' => /\ notice'[l].entity = row'[l]
                        /\ notice'[l].step = "update"
                             => notice'[l].write = Differing(row'[l], row'[l])
  BY NewLectureTouches DEF Alone, Noticing
<1>5. \A l \in Lecture : ~(l <= size') => l # size + 1 /\ ~Exists(l)
  BY NewLectureTouches DEF Exists, Lecture
<1>6. \A l \in Lecture : ~Exists(l)' => /\ row'[l].teacher = NoTeacher
                                        /\ ~row'[l].reminderSent
                                        /\ notice'[l].step = "none"
  BY <1>5, NewLectureTouches DEF Alone, Exists
<1>7. QED
  BY <1>2, <1>3, <1>4, <1>6 DEF Alone, Holds

\* A step that changes neither rows nor notices, and starts no handler.
LEMMA AloneUnchanged ==
  ASSUME Alone, UNCHANGED <<size, row, notice>>,
         \A w \in Worker : req'[w] = req[w] \/ req'[w].step \in {"idle", "emit"}
  PROVE  Alone'
<1>1. \A w \in Worker : Holds(w)' => Holds(w) /\ req'[w] = req[w]
  BY DEF Holds
<1>2. \A w \in Worker : Holds(w)' => InStep(req[w])' /\ ~Noticing(req[w].lecture)'
  BY <1>1 DEF Alone, InStep, Noticing
<1>3. \A v, w \in Worker :
        (Holds(v)' /\ Holds(w)' /\ req'[v].lecture = req'[w].lecture) => v = w
  BY <1>1 DEF Alone
<1>4. QED
  BY <1>2, <1>3 DEF Alone, Noticing, Exists

\* A handler goes one step on with its lecture.
LEMMA AloneGoesOn ==
  ASSUME TypeOK, Alone, NEW w \in Worker, Holds(w), UNCHANGED <<size, row, notice>>,
         req'[w].lecture = req[w].lecture, InStep(req'[w]),
         \A v \in Worker \ {w} : req'[v] = req[v]
  PROVE  Alone'
<1>1. InStep(req[w])'
  BY DEF InStep
<1>2. \A v \in Worker : Holds(v)' => Holds(v) /\ req'[v].lecture = req[v].lecture
  BY DEF Holds
<1>3. \A v \in Worker : Holds(v)' => InStep(req[v])' /\ ~Noticing(req[v].lecture)'
  BY <1>1, <1>2 DEF Alone, InStep, Noticing
<1>4. \A v, u \in Worker :
        (Holds(v)' /\ Holds(u)' /\ req'[v].lecture = req'[u].lecture) => v = u
  BY <1>2 DEF Alone
<1>5. QED
  BY <1>3, <1>4 DEF Alone, Noticing, Exists

LEMMA Others ==
  ASSUME TypeOK, NEW w \in Worker, Finish(w)
  PROVE  req'[w].step \in {"idle", "emit"} /\ \A v \in Worker \ {w} : req'[v] = req[v]
  BY IdleType DEF TypeOK, Finish

\* An update writes the entity, which is a change of the row that was allowed.
LEMMA UpdatedAlone ==
  ASSUME TypeOK, Alone, NEW w \in Worker, Update(w), NEW l, l = req[w].lecture
  PROVE  /\ l \in Lecture /\ Exists(l) /\ Holds(w) /\ UNCHANGED <<size, notice>>
         /\ Plans(row[l], req[w].entity)
         /\ row'[l].status = req[w].entity.status
         /\ row'[l].teacher = row[l].teacher
         /\ row'[l].reminderSent = req[w].entity.reminderSent
         /\ \A m \in Lecture \ {l} : row'[m] = row[m]
<1>1. Holds(w) /\ req[w].step = "update" /\ UNCHANGED <<size, notice>>
  BY DEF Holds, Update, chain
<1>2. l \in Lecture /\ Exists(l) /\ req[w].entity \in Row
  BY <1>1, HeldLecture DEF TypeOK, Handler
<1>3. Plans(row[l], req[w].entity) /\ req[w].write = Differing(row[l], req[w].entity)
  BY <1>1 DEF Alone, InStep
<1>4. row'[l] = Written(row[l], req[w].entity, Differing(row[l], req[w].entity))
  BY <1>2, <1>3 DEF Update, TypeOK
<1>5. row[l] \in Row /\ \A m \in Lecture \ {l} : row'[m] = row[m]
  BY <1>2 DEF Update, TypeOK
<1>6. QED
  BY <1>1, <1>2, <1>3, <1>4, <1>5, WrittenDiffering DEF Plans

\* The announcement's save writes nothing but the message id.
LEMMA NoticeKeepsRows ==
  ASSUME TypeOK, Alone, NEW l \in Lecture, QuietNotice(l) \/ SaveNotice(l)
  PROVE  row' = row
<1>1. CASE SaveNotice(l)
  <2>1. /\ notice[l].entity = row[l] /\ notice[l].write = Differing(row[l], row[l])
        /\ row[l] \in Row
    BY <1>1 DEF SaveNotice, Alone, Noticing, TypeOK
  <2>2. Differing(row[l], row[l]) = {}
    BY DEF Differing
  <2>3. Written(row[l], notice[l].entity, notice[l].write) = row[l]
    BY <2>1, <2>2, WrittenType, SameRow
  <2>4. row' = [row EXCEPT ![l] = row[l]]
    BY <1>1, <2>3 DEF SaveNotice
  <2>5. QED
    BY <2>4 DEF TypeOK
<1>2. CASE QuietNotice(l)
  BY <1>2 DEF QuietNotice, Tick, SendNotice, FindForNotice, SelectNotice, TrackNotice, FailNotice
<1>3. QED
  BY <1>1, <1>2

\* The holder of a lecture saves it and ends.
LEMMA AloneUpdate ==
  ASSUME TypeOK, Alone, NEW w \in Worker, Update(w), req'[w].step \in {"idle", "emit"},
         \A v \in Worker \ {w} : req'[v] = req[v]
  PROVE  Alone'
<1>1. PICK l : l = req[w].lecture
  OBVIOUS
<1>2. /\ l \in Lecture /\ Exists(l) /\ Holds(w) /\ UNCHANGED <<size, notice>>
      /\ \A m \in Lecture \ {l} : row'[m] = row[m]
  BY <1>1, UpdatedAlone
<1>3. \A v \in Worker : Holds(v)' => /\ Holds(v) /\ req'[v] = req[v]
                                     /\ req[v].lecture \in Lecture \ {l}
  BY <1>1, <1>2, HeldLecture DEF Alone, Holds
<1>4. \A v \in Worker : Holds(v)' => InStep(req[v])' /\ ~Noticing(req[v].lecture)'
  BY <1>2, <1>3 DEF Alone, InStep, Noticing
<1>5. \A v, u \in Worker :
        (Holds(v)' /\ Holds(u)' /\ req'[v].lecture = req'[u].lecture) => v = u
  BY <1>3 DEF Alone
<1>6. ~Noticing(l)
  BY <1>1, <1>2 DEF Alone
<1>7. \A m \in Lecture :
        Noticing(m)' => /\ notice'[m].entity = row'[m]
                        /\ notice'[m].step = "update"
                             => notice'[m].write = Differing(row'[m], row'[m])
  BY <1>2, <1>6 DEF Alone, Noticing
<1>8. \A m \in Lecture : ~Exists(m)' => /\ row'[m].teacher = NoTeacher
                                        /\ ~row'[m].reminderSent
                                        /\ notice'[m].step = "none"
  BY <1>2 DEF Alone, Exists
<1>9. QED
  BY <1>4, <1>5, <1>7, <1>8 DEF Alone

LEMMA AloneNotice ==
  ASSUME ~Overlap, TypeOK, Alone, NEW l \in Lecture, QuietNotice(l) \/ SaveNotice(l)
  PROVE  Alone'
<1>1. UNCHANGED <<size, req, row>>
  BY NoticeKeepsRows DEF QuietNotice, Tick, SendNotice, FindForNotice, SelectNotice,
     SaveNotice, TrackNotice, FailNotice, chain
<1>2. CASE notice' = notice
  BY <1>1, <1>2, AloneUnchanged
<1>3. CASE notice' # notice
  <2>1. notice[l].step # "none" /\ Exists(l)
    BY <1>3 DEF QuietNotice, Tick, SendNotice, FindForNotice, SelectNotice, SaveNotice,
       TrackNotice, FailNotice, Alone
  <2>2. \A m \in Lecture \ {l} : notice'[m] = notice[m]
    BY DEF QuietNotice, Tick, SendNotice, FindForNotice, SelectNotice, SaveNotice,
       TrackNotice, FailNotice, TypeOK
  <2>3. \A step : NoticeAt(step).step = step
    BY DEF NoticeAt
  <2>4. Noticing(l)' => /\ notice'[l].entity = row[l]
                        /\ notice'[l].step = "update" => notice'[l].write = Differing(row[l], row[l])
                        /\ Noticing(l) \/ Untouched(l)
    <3>1. CASE FindForNotice(l)
      BY <3>1 DEF FindForNotice, MayRead, TypeOK, Notice
    <3>2. CASE SelectNotice(l)
      <4>1. Noticing(l) /\ notice[l].entity = row[l]
        BY <3>2 DEF SelectNotice, Noticing, Alone
      <4>2. notice'[l].entity = row[l] /\ notice'[l].write = Differing(row[l], row[l])
        BY <3>2, <4>1 DEF SelectNotice, TypeOK, Notice
      <4>3. QED
        BY <4>1, <4>2
    <3>3. CASE Tick(l)
      BY <3>3, <1>3 DEF Tick
    <3>4. CASE SendNotice(l) \/ SaveNotice(l) \/ TrackNotice(l) \/ FailNotice(l)
      BY <3>4, <2>3 DEF SendNotice, SaveNotice, TrackNotice, FailNotice, Noticing, TypeOK
    <3>5. QED
      BY <3>1, <3>2, <3>3, <3>4 DEF QuietNotice
  <2>5. \A w \in Worker : Holds(w) => ~Noticing(req[w].lecture)'
    <3>1. \A w \in Worker : Holds(w) => (req[w].lecture = l => ~Noticing(l) /\ ~Untouched(l))
      BY DEF Alone, Untouched, Holds
    <3>2. QED
      BY <1>1, <2>2, <2>4, <3>1, HeldLecture DEF Alone, Noticing
  <2>6. \A w \in Worker : Holds(w)' => InStep(req[w])' /\ ~Noticing(req[w].lecture)'
    BY <1>1, <2>5 DEF Alone, Holds, InStep
  <2>7. \A m \in Lecture :
          Noticing(m)' => /\ notice'[m].entity = row'[m]
                          /\ notice'[m].step = "update"
                               => notice'[m].write = Differing(row'[m], row'[m])
    BY <1>1, <2>2, <2>4 DEF Alone, Noticing
  <2>8. \A m \in Lecture : ~Exists(m)' => /\ row'[m].teacher = NoTeacher
                                          /\ ~row'[m].reminderSent
                                          /\ notice'[m].step = "none"
    BY <1>1, <2>1, <2>2 DEF Alone, Exists
  <2>9. QED
    BY <1>1, <2>6, <2>7, <2>8 DEF Alone, Holds
<1>4. QED
  BY <1>2, <1>3

LEMMA AloneCall ==
  ASSUME ~Overlap, TypeOK, Alone, NEW w \in Worker, Call(w)
  PROVE  Alone'
<1>1. PICK l \in Lecture, s \in {"push", "select"}, e \in Row :
        /\ Begin(w, l, s, e) /\ Plans(row[l], e)
        /\ e.reminderSent # row[l].reminderSent <=> s = "push"
  BY CallBegins
<1>2. PICK h : h = [step |-> s, lecture |-> l, entity |-> e, write |-> {}]
  OBVIOUS
<1>3. Untouched(l) /\ UNCHANGED <<size, row, notice>>
  BY <1>1 DEF Begin, MayRead, chain
<1>4. req'[w] = h /\ \A v \in Worker \ {w} : req'[v] = req[v]
  BY <1>1, <1>2 DEF Begin, TypeOK
<1>5. \A v \in Worker : Holds(v) => req[v].lecture # l
  BY <1>3 DEF Untouched, Holds
<1>6. InStep(h) /\ h.lecture = l /\ ~Noticing(l)
  BY <1>1, <1>2, <1>3 DEF InStep, Untouched, Noticing
<1>7. InStep(req[w])' /\ ~Noticing(req[w].lecture)'
  BY <1>3, <1>4, <1>6 DEF InStep, Noticing
<1>8. \A v \in Worker : Holds(v)' => InStep(req[v])' /\ ~Noticing(req[v].lecture)'
  BY <1>3, <1>4, <1>7 DEF Alone, Holds, InStep, Noticing
<1>9. \A v, u \in Worker :
        (Holds(v)' /\ Holds(u)' /\ req'[v].lecture = req'[u].lecture) => v = u
  BY <1>4, <1>5, <1>6 DEF Alone, Holds
<1>10. QED
  BY <1>3, <1>8, <1>9 DEF Alone, Noticing, Exists

LEMMA AloneHandler ==
  ASSUME ~Overlap, TypeOK, Alone, NEW w \in Worker, QuietHandler(w)
  PROVE  Alone'
<1>1. CASE SendReminder(w)
  <2>1. /\ Holds(w) /\ UNCHANGED <<size, row, notice>> /\ req[w].step = "push"
        /\ req' = [req EXCEPT ![w].step = "select"]
    BY <1>1 DEF SendReminder, Holds, chain
  <2>2. /\ req'[w].lecture = req[w].lecture /\ req'[w].entity = req[w].entity
        /\ req'[w].step = "select"
        /\ \A v \in Worker \ {w} : req'[v] = req[v]
    BY <2>1 DEF TypeOK, Handler
  <2>3. InStep(req'[w])
    BY <2>1, <2>2 DEF Alone, InStep
  <2>4. QED
    BY <2>1, <2>2, <2>3, AloneGoesOn
<1>2. CASE SelectLecture(w)
  <2>1. /\ Holds(w) /\ UNCHANGED <<size, row, notice>>
        /\ req' = [req EXCEPT ![w].step = "update",
                              ![w].write = Differing(row[req[w].lecture], req[w].entity)]
    BY <1>2 DEF SelectLecture, Holds, chain
  <2>2. /\ req'[w].lecture = req[w].lecture /\ req'[w].entity = req[w].entity
        /\ req'[w].step = "update"
        /\ req'[w].write = Differing(row[req[w].lecture], req[w].entity)
        /\ \A v \in Worker \ {w} : req'[v] = req[v]
    BY <2>1 DEF TypeOK, Handler
  <2>3. InStep(req'[w])
    BY <2>1, <2>2 DEF Alone, InStep
  <2>4. QED
    BY <2>1, <2>2, <2>3, AloneGoesOn
<1>3. CASE EmitCompleted(w) \/ Abort(w)
  <2>1. UNCHANGED <<size, row, notice>> /\ Finish(w)
    BY <1>3 DEF EmitCompleted, Abort, chain
  <2>2. QED
    BY <2>1, Others, AloneUnchanged
<1>4. QED
  BY <1>1, <1>2, <1>3, AloneCall DEF QuietHandler

LEMMA AloneStep ==
  ASSUME ~Overlap
  PROVE  TypeOK /\ Alone /\ [Next]_vars => Alone'
<1> SUFFICES ASSUME TypeOK, Alone, [Next]_vars PROVE Alone'
  OBVIOUS
<1>1. CASE CreateLecturesForGroup
  BY <1>1, AloneNewLecture, LecturesAssumption DEF CreateLecturesForGroup, Order
<1>2. CASE FindLatest \/ AbortScheduling \/ UNCHANGED vars
  BY <1>2, AloneUnchanged DEF FindLatest, TakeCompleted, AbortScheduling, vars
<1>3. ASSUME NEW k \in Order, ScheduleNext(k) PROVE Alone'
  BY <1>3, AloneNewLecture DEF ScheduleNext
<1>4. ASSUME NEW l \in Lecture, NEW t \in Teacher, HandleClaimLecture(l, t) PROVE Alone'
  <2>1. UNCHANGED <<size, req, notice>> /\ Untouched(l)
    BY <1>4 DEF HandleClaimLecture, Confirm, chain, MayRead
  <2>2. \A m \in Lecture \ {l} : row'[m] = row[m]
    BY <1>4 DEF HandleClaimLecture, TypeOK
  <2>3. Exists(l) /\ ~Noticing(l)
    BY <1>4, <2>1 DEF HandleClaimLecture, Posted, Alone, Untouched, Noticing
  <2>4. \A w \in Worker : Holds(w) => req[w].lecture \in Lecture \ {l}
    BY <2>1, HeldLecture DEF Untouched, Holds
  <2>5. \A w \in Worker : Holds(w)' => InStep(req[w])' /\ ~Noticing(req[w].lecture)'
    BY <2>1, <2>2, <2>4 DEF Alone, Holds, InStep, Noticing
  <2>6. QED
    BY <2>1, <2>2, <2>3, <2>5 DEF Alone, Holds, Noticing, Exists
<1>5. ASSUME NEW w \in Worker, SaveLecture(w) \/ SaveCompleted(w) PROVE Alone'
  <2>1. Update(w)
    BY <1>5 DEF SaveLecture, SaveCompleted
  <2>2. req'[w].step \in {"idle", "emit"} /\ \A v \in Worker \ {w} : req'[v] = req[v]
    BY <1>5, IdleType DEF SaveLecture, SaveCompleted, Finish, TypeOK, Handler
  <2>3. QED
    BY <2>1, <2>2, AloneUpdate
<1>6. QED
  BY <1>1, <1>2, <1>3, <1>4, <1>5, AloneNotice, AloneHandler, StepKinds

-----------------------------------------------------------------------------
(***************************************************************************)
(* What teachers and students were told is what the rows say: the one      *)
(* confirmed claim is the teacher's, and a reminder that is not noted is   *)
(* about to be, or was sent by a handler that was abandoned.               *)
(***************************************************************************)
Reminding(w) ==
  /\ req[w].step \in {"select", "update"}
  /\ req[w].entity.reminderSent # row[req[w].lecture].reminderSent

RemindersOf(l) ==
  \/ reminded[l] <= aborts
  \/ /\ reminded[l] <= 1 + aborts
     /\ row[l].reminderSent \/ \E w \in Worker : Reminding(w) /\ req[w].lecture = l

Told ==
  /\ ClaimKept
  /\ HasTeacher
  /\ \A l \in Lecture : RemindersOf(l)
  /\ \A w \in Worker : Reminding(w) => reminded[req[w].lecture] > 0

LEMMA ToldInit == Init => Told
<1> SUFFICES ASSUME Init PROVE Told
  OBVIOUS
<1>1. ClaimKept /\ HasTeacher
  BY DEF Init, ClaimKept, HasTeacher, NewRow
<1>2. \A l \in Lecture : RemindersOf(l)
  BY DEF Init, RemindersOf
<1>3. \A w \in Worker : ~Reminding(w)
  BY DEF Init, Reminding, Idle
<1>4. QED
  BY <1>1, <1>2, <1>3 DEF Told

\* A step that writes no row and ends no handler.
LEMMA ToldKept ==
  ASSUME Told, UNCHANGED <<row, claimants, reminded>>, aborts' = aborts,
         \A w \in Worker : req'[w] = req[w] \/ (~Reminding(w) /\ ~Reminding(w)')
  PROVE  Told'
<1>1. \A w \in Worker : Reminding(w)' <=> Reminding(w)
  BY DEF Reminding
<1>2. \A w \in Worker : Reminding(w) => req'[w] = req[w]
  OBVIOUS
<1>3. (ClaimKept /\ HasTeacher)'
  BY DEF Told, ClaimKept, HasTeacher
<1>4. \A l \in Lecture : RemindersOf(l)'
  BY <1>1, <1>2 DEF Told, RemindersOf
<1>5. \A w \in Worker : Reminding(w)' => reminded'[req'[w].lecture] > 0
  BY <1>1, <1>2 DEF Told
<1>6. QED
  BY <1>3, <1>4, <1>5 DEF Told

\* A step that abandons a handler.
LEMMA ToldAborted ==
  ASSUME TypeOK, Told, UNCHANGED <<row, claimants, reminded>>, aborts' = aborts + 1,
         \A w \in Worker : req'[w] = req[w] \/ req'[w].step = "idle"
  PROVE  Told'
<1>1. \A w \in Worker : Reminding(w)' => Reminding(w) /\ req'[w] = req[w]
  BY DEF Reminding
<1>2. (ClaimKept /\ HasTeacher)'
  BY DEF Told, ClaimKept, HasTeacher
<1>3. \A l \in Lecture : reminded[l] \in Nat /\ aborts \in Nat
  BY DEF TypeOK
<1>4. \A l \in Lecture : RemindersOf(l)'
  BY <1>3 DEF Told, RemindersOf
<1>5. QED
  BY <1>1, <1>2, <1>4 DEF Told

LEMMA ToldNewLecture ==
  ASSUME TypeOK, Alone, Told, NEW k \in Order, NEW phases, NewLecture(k, phases),
         UNCHANGED <<req, claimants, reminded, aborts>>
  PROVE  Told'
<1>1. PICK n : n = size + 1
  OBVIOUS
<1>2. /\ n \in Lecture /\ ~Exists(n)
      /\ row'[n] = NewRow(k) /\ \A l \in Lecture \ {n} : row'[l] = row[l]
  BY <1>1, NewLectureTouches
<1>3. row[n].teacher = NoTeacher /\ row[n].reminderSent = FALSE
  BY <1>2 DEF Alone, TypeOK, Row
<1>4. /\ NewRow(k).teacher = NoTeacher /\ NewRow(k).reminderSent = FALSE
      /\ NewRow(k).status = "SCHEDULED"
  BY DEF NewRow
<1>5. \A w \in Worker : Reminding(w)' <=> Reminding(w)
  <2>1. \A w \in Worker : req[w].step \in {"select", "update"} => req[w].lecture \in Lecture \ {n}
    BY <1>2, HeldLecture DEF Holds
  <2>2. QED
    BY <1>2, <2>1 DEF Reminding
<1>6. (ClaimKept /\ HasTeacher)'
  BY <1>2, <1>3, <1>4 DEF Told, ClaimKept, HasTeacher
<1>7. \A l \in Lecture : RemindersOf(l)'
  BY <1>2, <1>3, <1>4, <1>5 DEF Told, RemindersOf
<1>8. QED
  BY <1>5, <1>6, <1>7 DEF Told

LEMMA ToldClaim ==
  ASSUME ~Overlap, TypeOK, Told, NEW l \in Lecture, NEW t \in Teacher, HandleClaimLecture(l, t)
  PROVE  Told'
<1>1. row[l].teacher = NoTeacher /\ claimants[l] = {}
  BY DEF HandleClaimLecture, Told, ClaimKept
<1>2. row' = [row EXCEPT ![l].teacher = t, ![l].status = "ASSIGNED"]
  BY DEF HandleClaimLecture
<1>3. /\ row'[l].teacher = t /\ row'[l].reminderSent = row[l].reminderSent
      /\ \A m \in Lecture \ {l} : row'[m] = row[m]
  BY <1>2 DEF TypeOK, Row
<1>4. claimants'[l] = {t} /\ \A m \in Lecture \ {l} : claimants'[m] = claimants[m]
  BY <1>1 DEF HandleClaimLecture, Confirm, TypeOK
<1>5. UNCHANGED <<req, reminded, aborts>> /\ t # NoTeacher
  BY LecturesAssumption DEF HandleClaimLecture, Confirm
<1>6. (ClaimKept /\ HasTeacher)'
  BY <1>3, <1>4, <1>5 DEF Told, ClaimKept, HasTeacher
<1>7. \A w \in Worker : Reminding(w)' <=> Reminding(w)
  <2>1. \A w \in Worker : req[w].step \in {"select", "update"} => req[w].lecture \in Lecture
    BY HeldLecture DEF Holds
  <2>2. QED
    BY <1>3, <1>5, <2>1 DEF Reminding
<1>8. \A m \in Lecture : RemindersOf(m)'
  BY <1>3, <1>5, <1>7 DEF Told, RemindersOf
<1>9. QED
  BY <1>5, <1>6, <1>7, <1>8 DEF Told

LEMMA ToldReminder ==
  ASSUME TypeOK, Alone, Told, NEW w \in Worker, SendReminder(w)
  PROVE  Told'
<1>1. PICK l \in Lecture : l = req[w].lecture
  BY HeldLecture DEF SendReminder, Holds
<1>2. /\ req[w].step = "push" /\ req' = [req EXCEPT ![w].step = "select"]
      /\ reminded' = [reminded EXCEPT ![l] = @ + 1]
      /\ UNCHANGED <<row, claimants, aborts>>
  BY <1>1 DEF SendReminder
<1>3. /\ req'[w].step = "select" /\ req'[w].lecture = l /\ req'[w].entity = req[w].entity
      /\ \A v \in Worker \ {w} : req'[v] = req[v]
  BY <1>1, <1>2 DEF TypeOK, Handler
<1>4. Holds(w) /\ InStep(req[w])
  BY <1>2 DEF Holds, Alone
<1>5. /\ Plans(row[l], req[w].entity)
      /\ req[w].entity.reminderSent # row[l].reminderSent
  BY <1>1, <1>2, <1>4 DEF InStep
<1>6. Reminding(w)' /\ row[l].reminderSent = FALSE
  BY <1>2, <1>3, <1>5 DEF Plans, Reminding
<1>7. \A v \in Worker \ {w} : /\ Reminding(v)' <=> Reminding(v)
                              /\ Reminding(v) => req[v].lecture # l
  BY <1>1, <1>2, <1>3, <1>4 DEF Reminding, Holds, Alone
<1>8. reminded[l] <= aborts
  BY <1>2, <1>6, <1>7 DEF Told, RemindersOf, Reminding
<1>9. /\ reminded[l] \in Nat /\ reminded'[l] = reminded[l] + 1 /\ aborts \in Nat
      /\ \A m \in Lecture \ {l} : reminded'[m] = reminded[m]
  BY <1>2 DEF TypeOK
<1>10. (ClaimKept /\ HasTeacher)'
  BY <1>2 DEF Told, ClaimKept, HasTeacher
<1>11. RemindersOf(l)'
  <2>1. reminded'[l] <= 1 + aborts'
    BY <1>2, <1>8, <1>9
  <2>2. QED
    BY <1>3, <1>6, <2>1 DEF RemindersOf
<1>12. \A m \in Lecture \ {l} : RemindersOf(m)'
  <2>1. \A m \in Lecture \ {l} :
          (\E v \in Worker : Reminding(v) /\ req[v].lecture = m)
            => (\E v \in Worker : Reminding(v)' /\ req'[v].lecture = m)
    BY <1>1, <1>3, <1>7
  <2>2. QED
    BY <1>2, <1>9, <2>1 DEF Told, RemindersOf
<1>13. \A v \in Worker : Reminding(v)' => reminded'[req'[v].lecture] > 0
  <2>1. \A v \in Worker : Reminding(v)' => req'[v].lecture \in Lecture
    BY <1>3, HeldLecture DEF Reminding, Holds
  <2>2. \A v \in Worker \ {w} : Reminding(v)' => reminded'[req'[v].lecture] > 0
    BY <1>3, <1>7, <1>9, <2>1 DEF Told
  <2>3. QED
    BY <1>3, <1>9, <2>2
<1>14. QED
  BY <1>10, <1>11, <1>12, <1>13 DEF Told

LEMMA ToldUpdate ==
  ASSUME TypeOK, Alone, Told, NEW w \in Worker, SaveLecture(w) \/ SaveCompleted(w)
  PROVE  Told'
<1>1. PICK l : l = req[w].lecture
  OBVIOUS
<1>2. Update(w) /\ UNCHANGED <<claimants, reminded, aborts>>
  BY DEF SaveLecture, SaveCompleted, Update, histories
<1>3. /\ l \in Lecture /\ Holds(w)
      /\ Plans(row[l], req[w].entity)
      /\ row'[l].status = req[w].entity.status
      /\ row'[l].teacher = row[l].teacher
      /\ row'[l].reminderSent = req[w].entity.reminderSent
      /\ \A m \in Lecture \ {l} : row'[m] = row[m]
  BY <1>1, <1>2, UpdatedAlone
<1>4. req'[w].step \in {"idle", "emit"} /\ \A v \in Worker \ {w} : req'[v] = req[v]
  BY IdleType DEF SaveLecture, SaveCompleted, Finish, TypeOK, Handler
<1>5. ClaimKept'
  BY <1>2, <1>3 DEF Told, ClaimKept
<1>6. HasTeacher'
  BY <1>3 DEF Told, HasTeacher, Plans
<1>7. ~Reminding(w)' /\ \A v \in Worker \ {w} : /\ Reminding(v) => req[v].lecture # l
                                               /\ Reminding(v)' <=> Reminding(v)
  <2>1. \A v \in Worker \ {w} : Holds(v) => req[v].lecture \in Lecture \ {l}
    BY <1>1, <1>3, HeldLecture DEF Alone
  <2>2. QED
    BY <1>3, <1>4, <2>1 DEF Reminding, Holds
<1>8. \A m \in Lecture \ {l} : RemindersOf(m)'
  <2>1. \A m \in Lecture \ {l} :
          (\E v \in Worker : Reminding(v) /\ req[v].lecture = m)
            => (\E v \in Worker : Reminding(v)' /\ req'[v].lecture = m)
    BY <1>1, <1>4, <1>7
  <2>2. QED
    BY <1>2, <1>3, <2>1 DEF Told, RemindersOf
<1>9. RemindersOf(l)'
  <2>1. RemindersOf(l)
    BY <1>3 DEF Told
  <2>2. row[l].reminderSent => row'[l].reminderSent
    BY <1>3 DEF Plans
  <2>3. Reminding(w) => row'[l].reminderSent
    BY <1>1, <1>3 DEF Reminding, Plans
  <2>4. (\E v \in Worker : Reminding(v) /\ req[v].lecture = l) => row'[l].reminderSent
    BY <1>7, <2>3
  <2>5. QED
    BY <1>2, <2>1, <2>2, <2>4 DEF RemindersOf
<1>10. \A v \in Worker : Reminding(v)' => reminded'[req'[v].lecture] > 0
  BY <1>2, <1>4, <1>7 DEF Told
<1>11. QED
  BY <1>5, <1>6, <1>8, <1>9, <1>10 DEF Told

LEMMA ToldHandler ==
  ASSUME TypeOK, Alone, Told, NEW w \in Worker, QuietHandler(w)
  PROVE  Told'
<1>1. CASE Call(w)
  <2>1. PICK l \in Lecture, s \in {"push", "select"}, e \in Row :
          /\ Begin(w, l, s, e)
          /\ e.reminderSent # row[l].reminderSent <=> s = "push"
    BY <1>1, CallBegins
  <2>2. PICK h : h = [step |-> s, lecture |-> l, entity |-> e, write |-> {}]
    OBVIOUS
  <2>3. /\ req[w].step = "idle" /\ UNCHANGED <<row, claimants, reminded, aborts>>
        /\ req'[w] = h /\ \A v \in Worker \ {w} : req'[v] = req[v]
    BY <2>1, <2>2 DEF Begin, histories, TypeOK
  <2>4. ~Reminding(w) /\ ~Reminding(w)'
    BY <2>1, <2>2, <2>3 DEF Reminding
  <2>5. QED
    BY <2>3, <2>4, ToldKept
<1>2. CASE SelectLecture(w)
  <2>1. /\ req[w].step = "select" /\ UNCHANGED <<row, claimants, reminded, aborts>>
        /\ req' = [req EXCEPT ![w].step = "update",
                              ![w].write = Differing(row[req[w].lecture], req[w].entity)]
    BY <1>2 DEF SelectLecture, histories
  <2>2. /\ req'[w].step = "update" /\ req'[w].lecture = req[w].lecture
        /\ req'[w].entity = req[w].entity /\ \A v \in Worker \ {w} : req'[v] = req[v]
    BY <2>1 DEF TypeOK, Handler
  <2>3. \A v \in Worker : /\ Reminding(v)' <=> Reminding(v)
                          /\ req'[v].lecture = req[v].lecture
    BY <2>1, <2>2 DEF Reminding
  <2>4. (ClaimKept /\ HasTeacher)'
    BY <2>1 DEF Told, ClaimKept, HasTeacher
  <2>5. \A l \in Lecture : RemindersOf(l)'
    <3>1. \A l \in Lecture : (\E v \in Worker : Reminding(v) /\ req[v].lecture = l)
                              => (\E v \in Worker : Reminding(v)' /\ req'[v].lecture = l)
      BY <2>3
    <3>2. QED
      BY <2>1, <3>1 DEF Told, RemindersOf
  <2>6. QED
    BY <2>1, <2>3, <2>4, <2>5 DEF Told
<1>3. CASE EmitCompleted(w)
  <2>1. /\ req[w].step = "emit" /\ UNCHANGED <<row, claimants, reminded, aborts>> /\ Finish(w)
    BY <1>3 DEF EmitCompleted, histories
  <2>2. ~Reminding(w) /\ ~Reminding(w)'
    BY <2>1, IdleType DEF Reminding, Finish, TypeOK
  <2>3. QED
    BY <2>1, <2>2, Others, ToldKept
<1>4. CASE Abort(w)
  BY <1>4, IdleType, ToldAborted DEF Abort, Finish, TypeOK, histories
<1>5. QED
  BY <1>1, <1>2, <1>3, <1>4, ToldReminder DEF QuietHandler

LEMMA ToldStep ==
  ASSUME ~Overlap
  PROVE  TypeOK /\ Alone /\ Told /\ [Next]_vars => Told'
<1> SUFFICES ASSUME TypeOK, Alone, Told, [Next]_vars PROVE Told'
  OBVIOUS
<1>1. CASE CreateLecturesForGroup
  BY <1>1, ToldNewLecture, LecturesAssumption DEF CreateLecturesForGroup, histories, Order
<1>2. ASSUME NEW k \in Order, ScheduleNext(k) PROVE Told'
  BY <1>2, ToldNewLecture DEF ScheduleNext, histories
<1>3. CASE FindLatest \/ UNCHANGED vars
  BY <1>3, ToldKept DEF FindLatest, TakeCompleted, histories, vars
<1>4. CASE AbortScheduling
  BY <1>4, ToldAborted DEF AbortScheduling, histories
<1>5. ASSUME NEW l \in Lecture, QuietNotice(l) \/ SaveNotice(l) PROVE Told'
  <2>1. row' = row
    BY <1>5, NoticeKeepsRows
  <2>2. UNCHANGED <<req, claimants, reminded>> /\ (aborts' = aborts \/ aborts' = aborts + 1)
    BY <1>5 DEF QuietNotice, Tick, SendNotice, FindForNotice, SelectNotice, SaveNotice,
       TrackNotice, FailNotice, histories
  <2>3. QED
    BY <2>1, <2>2, ToldKept, ToldAborted
<1>6. QED
  BY <1>1, <1>2, <1>3, <1>4, <1>5, ToldClaim, ToldUpdate, ToldHandler, StepKinds

LEMMA ToldCorrect == ASSUME ~Overlap PROVE Spec => []Told
  BY TypeInit, TypeStep, AloneInit, AloneStep, ToldInit, ToldStep, PTL DEF Spec

\* With handlers one at a time on a lecture, a lecture has the teacher whose claim was
\* confirmed, and no teacher's confirmed claim is dropped.
THEOREM ClaimKeptCorrect == ASSUME ~Overlap PROVE Spec => []ClaimKept
<1>1. Told => ClaimKept
  BY DEF Told
<1>2. QED
  BY ToldCorrect, <1>1, PTL

\* With handlers one at a time on a lecture, no lecture is assigned or under way without a
\* teacher.
THEOREM HasTeacherCorrect == ASSUME ~Overlap PROVE Spec => []HasTeacher
<1>1. Told => HasTeacher
  BY DEF Told
<1>2. QED
  BY ToldCorrect, <1>1, PTL

\* With handlers one at a time on a lecture, students are reminded of it once, and once more
\* only for every handler that was abandoned.
THEOREM RemindedOnceCorrect == ASSUME ~Overlap PROVE Spec => []RemindedOnce
<1>1. TypeOK /\ Told => RemindedOnce
  BY DEF TypeOK, Told, RemindersOf, RemindedOnce
<1>2. QED
  BY TypeCorrect, ToldCorrect, <1>1, PTL

-----------------------------------------------------------------------------
(***************************************************************************)
(* A claimed lecture does not go back: its next status is decided from the *)
(* status it has.                                                          *)
(***************************************************************************)
Forward(l) ==
  (Exists(l) /\ row[l].teacher # NoTeacher) => Stage[row'[l].status] >= Stage[row[l].status]

LEMMA StageNat ==
  TypeOK => \A l \in Lecture : Stage[row[l].status] \in Nat
  BY DEF TypeOK, Row, LectureStatusEnum, Stage

\* A handler's save moves its lecture forward.
LEMMA ForwardUpdate ==
  ASSUME TypeOK, Alone, NEW w \in Worker, Update(w)
  PROVE  \A l \in Lecture : Forward(l)
<1>1. PICK m : m = req[w].lecture
  OBVIOUS
<1>2. /\ m \in Lecture /\ Plans(row[m], req[w].entity)
      /\ row'[m].status = req[w].entity.status
      /\ \A l \in Lecture \ {m} : row'[l] = row[l]
  BY <1>1, UpdatedAlone
<1>3. row[m].status \in LectureStatusEnum
  BY <1>2 DEF TypeOK, Row
<1>4. Stage[req[w].entity.status] >= Stage[row[m].status]
  BY <1>2, <1>3 DEF Plans, LectureStatusEnum, Stage
<1>5. QED
  BY <1>2, <1>4, StageNat DEF Forward

LEMMA ForwardSame ==
  ASSUME TypeOK, row' = row
  PROVE  \A l \in Lecture : Forward(l)
  BY StageNat DEF Forward

\* The other handlers' steps write no row.
LEMMA QuietRows ==
  ASSUME NEW w \in Worker, QuietHandler(w)
  PROVE  UNCHANGED <<size, row, claimants>> /\ (~SendReminder(w) => reminded' = reminded)
<1>1. UNCHANGED <<size, row, claimants>>
  BY DEF QuietHandler, Call, StartLecture, CompleteLecture, CancelLecture, UpdateInviteLink,
     StartDueLectures, CompleteDueLectures, HandleReminders, BeginStatus, BeginReminder, Begin,
     SendReminder, SelectLecture, EmitCompleted, Abort, chain, histories
<1>2. ~SendReminder(w) => reminded' = reminded
  BY DEF QuietHandler, Call, StartLecture, CompleteLecture, CancelLecture, UpdateInviteLink,
     StartDueLectures, CompleteDueLectures, HandleReminders, BeginStatus, BeginReminder, Begin,
     SelectLecture, EmitCompleted, Abort, histories
<1>3. QED
  BY <1>1, <1>2

LEMMA ForwardStep ==
  ASSUME ~Overlap
  PROVE  TypeOK /\ Alone /\ [Next]_vars => \A l \in Lecture : Forward(l)
<1> SUFFICES ASSUME TypeOK, Alone, [Next]_vars PROVE \A l \in Lecture : Forward(l)
  OBVIOUS
<1>1. ASSUME NEW k \in Order, NEW phases, NewLecture(k, phases)
      PROVE  \A l \in Lecture : Forward(l)
  BY <1>1, NewLectureTouches, StageNat DEF Forward
<1>2. CreateLecturesForGroup => \A l \in Lecture : Forward(l)
  BY <1>1, LecturesAssumption DEF CreateLecturesForGroup, Order
<1>3. \A k \in Order : ScheduleNext(k) => \A l \in Lecture : Forward(l)
  BY <1>1 DEF ScheduleNext
<1>4. CASE FindLatest \/ AbortScheduling \/ UNCHANGED vars
  BY <1>4, ForwardSame DEF FindLatest, TakeCompleted, AbortScheduling, vars
<1>5. ASSUME NEW l \in Lecture, NEW t \in Teacher, HandleClaimLecture(l, t)
      PROVE  \A m \in Lecture : Forward(m)
  <2>1. row[l].teacher = NoTeacher /\ \A m \in Lecture \ {l} : row'[m] = row[m]
    BY <1>5 DEF HandleClaimLecture, TypeOK
  <2>2. QED
    BY <2>1, StageNat DEF Forward
<1>6. ASSUME NEW w \in Worker, SaveLecture(w) \/ SaveCompleted(w)
      PROVE  \A l \in Lecture : Forward(l)
  BY <1>6, ForwardUpdate DEF SaveLecture, SaveCompleted
<1>7. QED
  BY <1>2, <1>3, <1>4, <1>5, <1>6, NoticeKeepsRows, QuietRows, ForwardSame, StepKinds

\* With handlers one at a time on a lecture, a claimed lecture never goes back.
THEOREM ClaimedMovesForwardCorrect == ASSUME ~Overlap PROVE Spec => ClaimedMovesForward
<1>1. (\A l \in Lecture : Forward(l)) =>
        [\A l \in Lecture : (Exists(l) /\ row[l].teacher # NoTeacher)
           => Stage[row'[l].status] >= Stage[row[l].status]]_vars
  BY DEF Forward
<1>2. QED
  BY TypeInit, TypeStep, AloneInit, AloneStep, ForwardStep, <1>1, PTL
  DEF Spec, ClaimedMovesForward

-----------------------------------------------------------------------------
(***************************************************************************)
(* The handlers implement the contract: one save changes one lecture as an *)
(* action of LectureContract does, and the other steps are not seen.       *)
(***************************************************************************)
Stages == [l \in Lecture |-> StageNow(l)]
Teachers == [l \in Lecture |-> row[l].teacher]
Noted == [l \in Lecture |-> row[l].reminderSent]
Public == <<Stages, Teachers, claimants, reminded, Noted>>

\* What the contract sees of a lecture.
Seen(l) == <<StageNow(l), row[l].teacher, row[l].reminderSent>>

\* A step that changes the stage of one lecture.
LEMMA StageWritten ==
  ASSUME NEW l \in Lecture, NEW s, StageNow(l)' = s, row'[l].teacher = row[l].teacher,
         row'[l].reminderSent = row[l].reminderSent,
         \A m \in Lecture \ {l} : Seen(m)' = Seen(m)
  PROVE  Stages' = [Stages EXCEPT ![l] = s] /\ Teachers' = Teachers /\ Noted' = Noted
<1>1. \A m \in Lecture : StageNow(m)' = IF m = l THEN s ELSE StageNow(m)
  BY DEF Seen
<1>2. \A m \in Lecture : /\ row'[m].teacher = row[m].teacher
                         /\ row'[m].reminderSent = row[m].reminderSent
  BY DEF Seen
<1>3. Stages' = [Stages EXCEPT ![l] = s]
  BY <1>1 DEF Stages
<1>4. Teachers' = Teachers /\ Noted' = Noted
  BY <1>2 DEF Teachers, Noted
<1>5. QED
  BY <1>3, <1>4

LEMMA SeenStays ==
  ASSUME \A m \in Lecture : Seen(m)' = Seen(m)
  PROVE  Stages' = Stages /\ Teachers' = Teachers /\ Noted' = Noted
<1>1. \A m \in Lecture : /\ StageNow(m)' = StageNow(m) /\ row'[m].teacher = row[m].teacher
                         /\ row'[m].reminderSent = row[m].reminderSent
  BY DEF Seen
<1>2. QED
  BY <1>1 DEF Stages, Teachers, Noted

\* A step that changes no row the contract sees, and tells nobody anything.
LEMMA Unseen ==
  ASSUME UNCHANGED <<size, row, claimants, reminded>>
  PROVE  [Contract!Next]_Public
<1>1. \A l \in Lecture : Seen(l)' = Seen(l)
  BY DEF Seen, StageNow, Exists
<1>2. QED
  BY <1>1, SeenStays DEF Public

LEMMA ContractNewLecture ==
  ASSUME TypeOK, Alone, NEW k \in Order, NEW phases, NewLecture(k, phases),
         UNCHANGED <<claimants, reminded>>
  PROVE  [Contract!Next]_Public
<1> DEFINE l == size + 1
<1>1. PICK m \in Lecture : m = l
  BY NewLectureTouches
<1>2. /\ StageNow(m) = "none" /\ StageNow(m)' = "scheduled"
      /\ row'[m].teacher = row[m].teacher /\ row'[m].reminderSent = row[m].reminderSent
  <2>1. size' = m /\ ~Exists(m) /\ Exists(m)'
    BY <1>1, NewLectureTouches DEF Exists
  <2>2. /\ row'[m].status = "SCHEDULED" /\ row'[m].teacher = NoTeacher
        /\ row'[m].reminderSent = FALSE
    <3>1. row'[m] = NewRow(k)
      BY <1>1, NewLectureTouches
    <3>2. QED
      BY <3>1 DEF NewRow
  <2>3. row[m].teacher = NoTeacher /\ row[m].reminderSent = FALSE
    BY <2>1 DEF Alone, TypeOK, Row
  <2>4. QED
    BY <2>1, <2>2, <2>3 DEF StageNow, StageOf
<1>3. \A n \in Lecture \ {m} : Seen(n)' = Seen(n)
  <2>1. \A n \in Lecture \ {m} : row'[n] = row[n] /\ (Exists(n)' <=> Exists(n))
    BY <1>1, NewLectureTouches DEF Exists, Lecture
  <2>2. QED
    BY <2>1 DEF Seen, StageNow
<1>4. Contract!Schedule(m)
  BY <1>2, <1>3, StageWritten DEF Contract!Schedule, Contract!Moves, Stages, Teachers, Noted
<1>5. QED
  BY <1>4 DEF Contract!Next

LEMMA ContractClaim ==
  ASSUME TypeOK, Alone, Told, NEW l \in Lecture, NEW t \in Teacher, HandleClaimLecture(l, t)
  PROVE  [Contract!Next]_Public
<1>1. /\ row[l].teacher = NoTeacher /\ Exists(l)
      /\ row' = [row EXCEPT ![l].teacher = t, ![l].status = "ASSIGNED"]
      /\ claimants' = [claimants EXCEPT ![l] = @ \cup {t}]
      /\ UNCHANGED <<size, reminded>>
  BY DEF HandleClaimLecture, Posted, Alone, Confirm, chain
<1>2. /\ row'[l].teacher = t /\ row'[l].status = "ASSIGNED"
      /\ row'[l].reminderSent = row[l].reminderSent
      /\ \A m \in Lecture \ {l} : row'[m] = row[m]
  BY <1>1 DEF TypeOK, Row
<1>3. StageNow(l) # "none" /\ StageNow(l)' = "assigned"
  <2>1. Exists(l)'
    BY <1>1 DEF Exists
  <2>2. StageOf(row[l].status) # "none"
    BY DEF StageOf
  <2>3. QED
    BY <1>1, <1>2, <2>1, <2>2 DEF StageNow, StageOf
<1>4. \A m \in Lecture \ {l} : StageNow(m)' = StageNow(m) /\ row'[m].teacher = row[m].teacher
  <2>1. \A m \in Lecture \ {l} : row'[m] = row[m] /\ (Exists(m)' <=> Exists(m))
    BY <1>1, <1>2 DEF Exists
  <2>2. QED
    BY <2>1 DEF StageNow
<1>5. Stages' = [Stages EXCEPT ![l] = "assigned"]
  <2>1. \A m \in Lecture : StageNow(m)' = IF m = l THEN "assigned" ELSE StageNow(m)
    BY <1>3, <1>4
  <2>2. QED
    BY <2>1 DEF Stages
<1>6. Teachers' = [Teachers EXCEPT ![l] = t] /\ Noted' = Noted
  <2>1. \A m \in Lecture : /\ row'[m].teacher = IF m = l THEN t ELSE row[m].teacher
                           /\ row'[m].reminderSent = row[m].reminderSent
    BY <1>2, <1>4
  <2>2. QED
    BY <2>1 DEF Teachers, Noted
<1>7. claimants' = [claimants EXCEPT ![l] = {t}]
  <2>1. claimants[l] = {}
    BY <1>1 DEF Told, ClaimKept
  <2>2. QED
    BY <1>1, <2>1
<1>8. Contract!Claim(l, t)
  BY <1>1, <1>3, <1>5, <1>6, <1>7 DEF Contract!Claim, Stages, Teachers, Noted
<1>9. QED
  BY <1>8 DEF Contract!Next

\* A handler's save of a status is the step of that name, its save after a reminder the note.
LEMMA ContractUpdate ==
  ASSUME TypeOK, Alone, Told, NEW w \in Worker, Update(w)
  PROVE  [Contract!Next]_Public
<1>1. PICK l \in Lecture : l = req[w].lecture
  BY UpdatedAlone
<1>2. PICK e : e = req[w].entity
  OBVIOUS
<1>3. /\ Exists(l) /\ size' = size /\ Plans(row[l], e)
      /\ row'[l].status = e.status /\ row'[l].teacher = row[l].teacher
      /\ row'[l].reminderSent = e.reminderSent
      /\ \A m \in Lecture \ {l} : row'[m] = row[m]
  BY <1>1, <1>2, UpdatedAlone
<1>4. UNCHANGED <<claimants, reminded>>
  BY DEF Update, histories
<1>5. \A m \in Lecture \ {l} : Seen(m)' = Seen(m)
  BY <1>3 DEF Seen, StageNow, Exists
<1>6. StageNow(l) = StageOf(row[l].status) /\ StageNow(l)' = StageOf(e.status)
  BY <1>3 DEF StageNow, Exists
<1>7. row[l].status \in LectureStatusEnum
  BY DEF TypeOK, Row
<1>8. ASSUME e.reminderSent = row[l].reminderSent
      PROVE  /\ Stages' = [Stages EXCEPT ![l] = StageOf(e.status)]
             /\ Teachers' = Teachers /\ Noted' = Noted /\ Stages[l] = StageOf(row[l].status)
  BY <1>3, <1>5, <1>6, <1>8, StageWritten DEF Stages
<1>9. CASE e.reminderSent = row[l].reminderSent /\ e.status = "ONGOING" /\ row[l].status = "ASSIGNED"
  <2>1. StageOf(row[l].status) = "assigned" /\ StageOf(e.status) = "ongoing"
    BY <1>9 DEF StageOf
  <2>2. Contract!Start(l)
    BY <1>4, <1>8, <1>9, <2>1 DEF Contract!Start, Contract!Moves, Stages, Teachers, Noted
  <2>3. QED
    BY <2>2 DEF Contract!Next
<1>10. CASE /\ e.reminderSent = row[l].reminderSent /\ e.status = "CANCELLED"
            /\ row[l].status \notin {"COMPLETED", "CANCELLED"}
  <2>1. StageOf(row[l].status) \in {"scheduled", "assigned", "ongoing"}
    BY <1>7, <1>10 DEF StageOf, LectureStatusEnum
  <2>2. StageOf(e.status) = "canceled"
    BY <1>10 DEF StageOf
  <2>3. Contract!Cancel(l)
    BY <1>4, <1>8, <1>10, <2>1, <2>2 DEF Contract!Cancel, Contract!Moves, Stages, Teachers, Noted
  <2>4. QED
    BY <2>3 DEF Contract!Next
<1>11. CASE e.reminderSent = row[l].reminderSent /\ e.status = "COMPLETED"
  <2>1. StageOf(row[l].status) # "none" /\ StageOf(e.status) = "completed"
    BY <1>11 DEF StageOf
  <2>2. Contract!Complete(l)
    BY <1>4, <1>8, <1>11, <2>1 DEF Contract!Complete, Contract!Moves, Stages, Teachers, Noted
  <2>3. QED
    BY <2>2 DEF Contract!Next
<1>12. CASE /\ e.reminderSent = TRUE /\ row[l].reminderSent = FALSE
            /\ e.status = row[l].status /\ row[l].status = "ASSIGNED"
  <2>1. Reminding(w)
    BY <1>1, <1>2, <1>12 DEF Update, Reminding
  <2>2. reminded[l] > 0
    BY <1>1, <2>1 DEF Told
  <2>3. Stages[l] = "assigned"
    BY <1>6, <1>12 DEF Stages, StageOf
  <2>4. \A m \in Lecture : /\ StageNow(m)' = StageNow(m) /\ row'[m].teacher = row[m].teacher
                           /\ row'[m].reminderSent = IF m = l THEN TRUE ELSE row[m].reminderSent
    BY <1>3, <1>5, <1>6, <1>12 DEF Seen
  <2>5. Stages' = Stages /\ Teachers' = Teachers
    BY <2>4 DEF Stages, Teachers
  <2>6. Noted' = [Noted EXCEPT ![l] = TRUE] /\ ~Noted[l]
    BY <1>12, <2>4 DEF Noted
  <2>7. Contract!Note(l)
    BY <1>4, <2>2, <2>3, <2>5, <2>6 DEF Contract!Note, Stages, Teachers, Noted
  <2>8. QED
    BY <2>7 DEF Contract!Next
<1>13. QED
  BY <1>3, <1>9, <1>10, <1>11, <1>12 DEF Plans

LEMMA ContractReminder ==
  ASSUME TypeOK, Alone, NEW w \in Worker, SendReminder(w)
  PROVE  [Contract!Next]_Public
<1>1. PICK l \in Lecture : l = req[w].lecture /\ Exists(l)
  BY HeldLecture DEF SendReminder, Holds
<1>2. /\ req[w].step = "push" /\ UNCHANGED <<size, row, claimants>>
      /\ reminded' = [reminded EXCEPT ![l] = @ + 1]
  BY <1>1 DEF SendReminder, chain
<1>3. InStep(req[w])
  BY <1>2 DEF Alone, Holds
<1>4. row[l].status = "ASSIGNED" /\ row[l].reminderSent = FALSE
  BY <1>1, <1>2, <1>3 DEF InStep, Plans
<1>5. \A m \in Lecture : Seen(m)' = Seen(m)
  BY <1>2 DEF Seen, StageNow, Exists
<1>6. Stages[l] = "assigned" /\ ~Noted[l]
  BY <1>1, <1>4 DEF Stages, StageNow, StageOf, Noted
<1>7. Contract!Remind(l)
  BY <1>2, <1>5, <1>6, SeenStays DEF Contract!Remind, Stages, Teachers, Noted
<1>8. QED
  BY <1>7 DEF Contract!Next

LEMMA ContractStep ==
  ASSUME ~Overlap
  PROVE  TypeOK /\ Alone /\ Told /\ [Next]_vars => [Contract!Next]_Public
<1> SUFFICES ASSUME TypeOK, Alone, Told, [Next]_vars PROVE [Contract!Next]_Public
  OBVIOUS
<1>1. CASE CreateLecturesForGroup
  BY <1>1, ContractNewLecture, LecturesAssumption DEF CreateLecturesForGroup, Order, histories
<1>2. ASSUME NEW k \in Order, ScheduleNext(k) PROVE [Contract!Next]_Public
  BY <1>2, ContractNewLecture DEF ScheduleNext, histories
<1>3. CASE FindLatest \/ AbortScheduling \/ UNCHANGED vars
  BY <1>3, Unseen DEF FindLatest, TakeCompleted, AbortScheduling, histories, vars
<1>4. ASSUME NEW l \in Lecture, QuietNotice(l) \/ SaveNotice(l) PROVE [Contract!Next]_Public
  <2>1. UNCHANGED <<size, claimants, reminded>>
    BY <1>4 DEF QuietNotice, Tick, SendNotice, FindForNotice, SelectNotice, SaveNotice,
       TrackNotice, FailNotice, chain, histories
  <2>2. QED
    BY <1>4, <2>1, NoticeKeepsRows, Unseen
<1>5. ASSUME NEW w \in Worker, QuietHandler(w) PROVE [Contract!Next]_Public
  <2>1. CASE SendReminder(w)
    BY <2>1, ContractReminder
  <2>2. CASE ~SendReminder(w)
    BY <1>5, <2>2, QuietRows, Unseen
  <2>3. QED
    BY <2>1, <2>2
<1>6. ASSUME NEW w \in Worker, SaveLecture(w) \/ SaveCompleted(w) PROVE [Contract!Next]_Public
  BY <1>6, ContractUpdate DEF SaveLecture, SaveCompleted
<1>7. QED
  BY <1>1, <1>2, <1>3, <1>4, <1>5, <1>6, ContractClaim, StepKinds

\* With handlers one at a time on a lecture, the group's lectures keep the contract: for any
\* number of lectures, teachers, handlers and failures a lecture is scheduled, claimed by one
\* teacher, reminded of until that is noted and never after, held, and completed or canceled as
\* LectureContract says.
THEOREM LectureContractCorrect == ASSUME ~Overlap PROVE Spec => ImplementsLectureContract
<1>1. Init => Contract!Init
  <2>1. ASSUME Init
        PROVE  \A l \in Lecture : /\ StageNow(l) = "none" /\ row[l].teacher = NoTeacher
                                  /\ row[l].reminderSent = FALSE
    BY <2>1 DEF Init, StageNow, Exists, Lecture, NewRow
  <2>2. QED
    BY <2>1 DEF Init, Contract!Init
<1>2. TypeOK /\ Alone /\ Told /\ [Next]_vars => [Contract!Next]_(Contract!vars)
  BY ContractStep DEF Contract!vars, Public, Stages, Teachers, Noted
<1>3. QED
  BY TypeInit, TypeStep, AloneInit, AloneStep, ToldInit, ToldStep, <1>1, <1>2, PTL
  DEF Spec, ImplementsLectureContract, Contract!Spec

-----------------------------------------------------------------------------
(***************************************************************************)
(* Orders number the lectures when scheduling handlers come one at a time  *)
(* and nobody generates the lectures again: the order about to be inserted *)
(* is not in the group yet.                                                *)
(***************************************************************************)
Numbered ==
  /\ OrderUnique
  /\ \A k \in Order : inserting[k] <= 1 /\ (inserting[k] > 0 => k \notin Orders)
  /\ \A j, k \in Order : (inserting[j] > 0 /\ inserting[k] > 0) => j = k

LEMMA NumberedInit == Init => Numbered
  BY LecturesAssumption DEF Init, Numbered, OrderUnique, Exists, Lecture

\* A step that inserts nothing and schedules nothing.
LEMMA NumberedKept ==
  ASSUME TypeOK, Numbered, UNCHANGED <<size, inserting>>,
         \A l \in Lecture : row'[l].order = row[l].order
  PROVE  Numbered'
<1>1. Orders' = Orders
  BY SameOrders
<1>2. OrderUnique'
  BY DEF Numbered, OrderUnique, Exists
<1>3. QED
  BY <1>1, <1>2 DEF Numbered

\* A row of an order that no lecture has.
LEMMA UniqueNewLecture ==
  ASSUME TypeOK, Numbered, NEW k \in Order, NEW phases, NewLecture(k, phases), k \notin Orders
  PROVE  OrderUnique'
<1>1. \A l \in Lecture : Exists(l)' => l = size + 1 \/ Exists(l)
  BY NewLectureTouches DEF Exists, Lecture
<1>2. \A l \in Lecture : Exists(l) => l # size + 1 /\ row'[l] = row[l] /\ row[l].order # k
  BY NewLectureTouches DEF Orders
<1>3. row'[size + 1].order = k
  <2>1. row'[size + 1] = NewRow(k)
    BY NewLectureTouches
  <2>2. QED
    BY <2>1 DEF NewRow
<1>4. QED
  BY <1>1, <1>2, <1>3 DEF Numbered, OrderUnique

LEMMA NumberedStep ==
  ASSUME ~Overlap, ~Regenerate
  PROVE  TypeOK /\ OrdersKept /\ Numbered /\ [Next]_vars => Numbered'
<1> SUFFICES ASSUME TypeOK, OrdersKept, Numbered, [Next]_vars PROVE Numbered'
  OBVIOUS
<1>1. CASE CreateLecturesForGroup
  <2>1. 1 \in Order
    BY LecturesAssumption DEF Order
  <2>2. size = 0 /\ NewLecture(1, FirstPhase) /\ UNCHANGED <<req, inserting>>
    BY <1>1 DEF CreateLecturesForGroup
  <2>3. Orders = {}
    BY <2>2 DEF Orders, Exists, Lecture
  <2>4. \A k \in Order : ~(inserting[k] > 0)
    BY <2>3 DEF OrdersKept
  <2>5. OrderUnique'
    BY <2>1, <2>2, <2>3, UniqueNewLecture
  <2>6. QED
    BY <2>2, <2>4, <2>5 DEF Numbered
<1>2. CASE FindLatest
  <2>1. PICK k \in Order : /\ IsLatest(k)
                           /\ \/ k < Topics /\ inserting' = [inserting EXCEPT ![k + 1] = @ + 1]
                              \/ inserting' = inserting
    BY <1>2 DEF FindLatest
  <2>2. UNCHANGED <<size, row>> /\ \A j \in Order : inserting[j] = 0
    BY <1>2 DEF FindLatest, TakeCompleted
  <2>3. Orders' = Orders /\ OrderUnique'
    BY <2>2, SameOrders DEF Numbered, OrderUnique, Exists
  <2>4. k + 1 \notin Orders
    BY <2>1 DEF IsLatest, Order
  <2>5. \A j \in Order : inserting'[j] <= 1 /\ (inserting'[j] > 0 => j = k + 1)
    BY <2>1, <2>2 DEF TypeOK
  <2>6. QED
    BY <2>3, <2>4, <2>5 DEF Numbered
<1>3. ASSUME NEW k \in Order, ScheduleNext(k) PROVE Numbered'
  <2>1. /\ NewLecture(k, {"early", "soon"}) /\ req' = req
        /\ inserting[k] > 0 /\ inserting' = [inserting EXCEPT ![k] = @ - 1]
    BY <1>3 DEF ScheduleNext
  <2>2. k \notin Orders /\ inserting[k] = 1
    BY <2>1 DEF Numbered, TypeOK
  <2>3. OrderUnique'
    BY <2>1, <2>2, UniqueNewLecture
  <2>4. \A j \in Order : inserting'[j] = 0
    BY <2>1, <2>2 DEF Numbered, TypeOK
  <2>5. QED
    BY <2>3, <2>4 DEF Numbered
<1>4. CASE AbortScheduling
  <2>1. UNCHANGED <<size, row>>
    BY <1>4 DEF AbortScheduling
  <2>2. \A j \in Order : inserting'[j] <= inserting[j]
    BY <1>4 DEF AbortScheduling, TypeOK
  <2>3. \A j \in Order : inserting[j] \in Nat /\ inserting'[j] \in Nat
    BY TypeStep DEF TypeOK
  <2>4. \A j \in Order : inserting'[j] <= 1 /\ (inserting'[j] > 0 => inserting[j] > 0)
    BY <2>2, <2>3 DEF Numbered
  <2>5. Orders' = Orders /\ OrderUnique'
    BY <2>1, SameOrders DEF Numbered, OrderUnique, Exists
  <2>6. QED
    BY <2>4, <2>5 DEF Numbered
<1>5. QED
  BY <1>1, <1>2, <1>3, <1>4, StepKinds, OrdersWritten, InsertingKept, NumberedKept

\* With one scheduling handler at a time and no repeated generation, no two lectures of
\* the group have the same order.
THEOREM OrderUniqueCorrect == ASSUME ~Overlap, ~Regenerate PROVE Spec => []OrderUnique
<1>1. Numbered => OrderUnique
  BY DEF Numbered
<1>2. QED
  BY TypeInit, TypeStep, OrdersKeptInit, OrdersKeptStep, NumberedInit, NumberedStep, <1>1, PTL
  DEF Spec

-----------------------------------------------------------------------------
(***************************************************************************)
(* The chain of lectures.  A lecture is completed together with its event, *)
(* and the handler of the event inserts an order above every order it      *)
(* finds: a lecture that a save has completed, or may complete again from  *)
(* an old read, has the event, the insertion or a higher order behind it.  *)
(***************************************************************************)
Followed(l) ==
  \/ \E w \in Worker : req[w].step = "emit"
  \/ completed > 0
  \/ \E k \in Order : k > row[l].order /\ inserting[k] > 0
  \/ \E m \in Lecture : Exists(m) /\ row[m].order > row[l].order
  \/ row[l].order = Topics

\* The row of l is that of a completed lecture, or the announcement may save it so.
WasCompleted(l) ==
  \/ row[l].status = "COMPLETED"
  \/ Noticing(l) /\ notice[l].entity.status = "COMPLETED"

Chained ==
  \A l \in Lecture : (aborts = 0 /\ Exists(l) /\ WasCompleted(l)) => Followed(l)

LEMMA ChainedInit == Init => Chained
  BY LecturesAssumption DEF Init, Chained, Exists, Lecture

\* No order of a lecture that exists ever changes, and no lecture goes.
LEMMA OrderStays ==
  ASSUME TypeOK, [Next]_vars
  PROVE  /\ size' \in Nat /\ size' >= size
         /\ \A l \in Lecture : Exists(l) => row'[l].order = row[l].order
<1>1. size \in Nat /\ \A l \in Lecture : l \in Nat
  BY DEF TypeOK, Lecture
<1>2. ASSUME NEW k \in Order, NEW phases, NewLecture(k, phases)
      PROVE  /\ size' = size + 1
             /\ \A l \in Lecture : Exists(l) => row'[l].order = row[l].order
  BY <1>1, <1>2, NewLectureTouches
<1>3. CASE CreateLecturesForGroup
  BY <1>1, <1>2, <1>3, LecturesAssumption DEF CreateLecturesForGroup, Order
<1>4. ASSUME NEW k \in Order, ScheduleNext(k)
      PROVE  /\ size' = size + 1
             /\ \A l \in Lecture : Exists(l) => row'[l].order = row[l].order
  BY <1>2, <1>4 DEF ScheduleNext
<1>5. CASE FindLatest \/ AbortScheduling
  BY <1>1, <1>5 DEF FindLatest, TakeCompleted, AbortScheduling
<1>6. QED
  BY <1>1, <1>3, <1>4, <1>5, StepKinds, OrdersWritten

\* A failure is counted, and the count never falls.
LEMMA AbortsGrow ==
  ASSUME TypeOK, [Next]_vars
  PROVE  /\ aborts \in Nat /\ aborts' \in {aborts, aborts + 1}
         /\ AbortScheduling \/ (\E w \in Worker : Abort(w)) => aborts' = aborts + 1
<1>1. ASSUME NEW w \in Worker, Call(w) PROVE aborts' = aborts
  BY <1>1 DEF Call, StartLecture, CompleteLecture, CancelLecture, UpdateInviteLink,
     StartDueLectures, CompleteDueLectures, HandleReminders, BeginStatus, BeginReminder, Begin
<1>2. ASSUME NEW w \in Worker, Handle(w) PROVE aborts' = aborts
  BY <1>2 DEF Handle, SendReminder, SelectLecture, SaveLecture, SaveCompleted, Update,
     EmitCompleted
<1>3. ASSUME NEW l \in Lecture, \/ Tick(l) \/ Notify(l)
                               \/ \E t \in Teacher : HandleClaimLecture(l, t)
      PROVE  aborts' = aborts
  BY <1>3 DEF Tick, Notify, SendNotice, FindForNotice, SelectNotice, SaveNotice, TrackNotice,
     HandleClaimLecture, Confirm
<1>4. ASSUME CreateLecturesForGroup \/ ScheduleNextLecture \/ UNCHANGED vars
      PROVE  aborts' = aborts
  BY <1>4 DEF CreateLecturesForGroup, ScheduleNextLecture, FindLatest, TakeCompleted,
     ScheduleNext, vars
<1>5. ASSUME \/ AbortScheduling \/ \E l \in Lecture : FailNotice(l)
             \/ \E w \in Worker : Abort(w)
      PROVE  aborts' = aborts + 1
  BY <1>5 DEF AbortScheduling, FailNotice, Abort
<1>6. aborts \in Nat
  BY DEF TypeOK
<1>7. QED
  BY <1>1, <1>2, <1>3, <1>4, <1>5, <1>6 DEF Next

\* The handlers in flight, and the events, around a step that is not theirs.
LEMMA EventsKept ==
  ASSUME \/ CreateLecturesForGroup
         \/ \E l \in Lecture : QuietNotice(l) \/ SaveNotice(l)
         \/ \E l \in Lecture, t \in Teacher : HandleClaimLecture(l, t)
         \/ UNCHANGED vars
  PROVE  UNCHANGED <<req, completed, inserting>>
<1>1. ASSUME NEW l \in Lecture, QuietNotice(l) \/ SaveNotice(l)
      PROVE  UNCHANGED <<req, completed, inserting>>
  BY <1>1 DEF QuietNotice, Tick, SendNotice, FindForNotice, SelectNotice, SaveNotice,
     TrackNotice, FailNotice, chain
<1>2. QED
  BY <1>1 DEF CreateLecturesForGroup, HandleClaimLecture, Confirm, chain, vars

LEMMA EmittersKept ==
  ASSUME TypeOK, NEW w \in Worker, QuietHandler(w) \/ SaveLecture(w) \/ SaveCompleted(w),
         ~EmitCompleted(w), ~Abort(w)
  PROVE  /\ UNCHANGED <<completed, inserting>>
         /\ req[w].step # "emit" /\ \A v \in Worker \ {w} : req'[v] = req[v]
<1>1. CASE Call(w)
  <2>1. PICK l \in Lecture, step \in {"push", "select"}, e \in Row : Begin(w, l, step, e)
    BY <1>1, CallBegins
  <2>2. QED
    BY <2>1 DEF Begin, chain, TypeOK
<1>2. CASE SendReminder(w) \/ SelectLecture(w) \/ SaveLecture(w) \/ SaveCompleted(w)
  BY <1>2 DEF SendReminder, SelectLecture, SaveLecture, SaveCompleted, Update, Finish, chain,
     TypeOK
<1>3. QED
  BY <1>1, <1>2 DEF QuietHandler

\* Behind a lecture there is still what was there, unless a handler took it on.
LEMMA StaysFollowed ==
  ASSUME TypeOK, [Next]_vars, aborts' = 0, NEW l \in Lecture, Exists(l), Followed(l)
  PROVE  Followed(l)'
<1>1. /\ size' \in Nat /\ size' >= size /\ size \in Nat
      /\ \A m \in Lecture : Exists(m) => Exists(m)' /\ row'[m].order = row[m].order
  BY OrderStays DEF TypeOK, Exists, Lecture
<1>2. /\ row[l].order \in Order /\ row'[l].order = row[l].order
      /\ \A m \in Lecture : row[m].order \in Order /\ row'[m].order \in Order
  BY <1>1, TypeStep DEF TypeOK, Row
<1>3. ~AbortScheduling /\ \A w \in Worker : ~Abort(w)
  BY AbortsGrow
<1>4. CASE FindLatest
  <2>1. UNCHANGED <<size, row, req>>
    BY <1>4 DEF FindLatest, TakeCompleted
  <2>2. PICK k \in Order :
          /\ IsLatest(k)
          /\ \/ k < Topics /\ inserting' = [inserting EXCEPT ![k + 1] = @ + 1]
             \/ k >= Topics /\ inserting' = inserting
    <3>1. Topics \in Nat /\ Order \subseteq Nat
      BY LecturesAssumption DEF Order
    <3>2. QED
      BY <1>4, <3>1 DEF FindLatest
  <2>3. row[l].order <= k
    BY <2>2 DEF IsLatest, Orders
  <2>4. CASE k < Topics
    <3>1. k + 1 \in Order /\ k + 1 > row[l].order
      BY <1>2, <2>3, <2>4, LecturesAssumption DEF Order
    <3>2. inserting[k + 1] \in Nat /\ inserting' = [inserting EXCEPT ![k + 1] = @ + 1]
      BY <2>2, <2>4, <3>1, LecturesAssumption DEF TypeOK, Order
    <3>3. inserting'[k + 1] > 0
      BY <3>1, <3>2 DEF TypeOK
    <3>4. QED
      BY <1>2, <3>1, <3>3 DEF Followed
  <2>5. CASE k >= Topics
    <3>1. PICK m \in Lecture : Exists(m) /\ row[m].order = k
      BY <2>2 DEF IsLatest, Orders
    <3>2. k = Topics
      BY <2>5, LecturesAssumption DEF Order
    <3>3. row[l].order = Topics \/ row[l].order < row[m].order
      BY <1>2, <2>3, <3>1, <3>2, LecturesAssumption DEF Order
    <3>4. QED
      BY <1>1, <1>2, <3>1, <3>3 DEF Followed
  <2>6. QED
    BY <2>2, <2>4, <2>5, LecturesAssumption DEF Order
<1>5. ASSUME NEW k \in Order, ScheduleNext(k) PROVE Followed(l)'
  <2>1. /\ UNCHANGED <<req, completed>>
        /\ inserting' = [inserting EXCEPT ![k] = @ - 1]
        /\ NewLecture(k, {"early", "soon"})
    BY <1>5 DEF ScheduleNext
  <2>2. \A j \in Order : inserting[j] > 0 => inserting'[j] > 0 \/ j = k
    BY <2>1 DEF TypeOK
  <2>3. PICK n \in Lecture : n = size + 1
    BY <2>1, NewLectureTouches
  <2>4. Exists(n)' /\ row'[n].order = k
    <3>1. row'[n] = NewRow(k) /\ size' = n
      BY <2>1, <2>3, NewLectureTouches
    <3>2. QED
      BY <1>1, <3>1 DEF Exists, NewRow
  <2>5. CASE \E j \in Order : j > row[l].order /\ inserting[j] > 0
    <3>1. PICK j \in Order : j > row[l].order /\ (inserting'[j] > 0 \/ j = k)
      BY <2>2, <2>5
    <3>2. QED
      BY <1>2, <2>4, <3>1 DEF Followed
  <2>6. CASE \E m \in Lecture : Exists(m) /\ row[m].order > row[l].order
    BY <1>1, <1>2, <2>6 DEF Followed
  <2>7. QED
    BY <1>2, <2>1, <2>5, <2>6 DEF Followed
<1>6. ASSUME NEW w \in Worker, EmitCompleted(w) PROVE Followed(l)'
  BY <1>6 DEF EmitCompleted, TypeOK, Followed
<1>7. ASSUME UNCHANGED <<req, completed, inserting>> PROVE Followed(l)'
  BY <1>1, <1>2, <1>7 DEF Followed
<1>8. ASSUME NEW w \in Worker, QuietHandler(w) \/ SaveLecture(w) \/ SaveCompleted(w),
             ~EmitCompleted(w)
      PROVE  Followed(l)'
  <2>1. /\ UNCHANGED <<completed, inserting>>
        /\ req[w].step # "emit" /\ \A v \in Worker \ {w} : req'[v] = req[v]
    BY <1>3, <1>8, EmittersKept
  <2>2. QED
    BY <1>1, <1>2, <2>1 DEF Followed
<1>9. QED
  BY <1>3, <1>4, <1>5, <1>6, <1>7, <1>8, StepKinds, EventsKept

\* A step that completes no lecture.
LEMMA NoneCompleted ==
  ASSUME TypeOK, Chained, [Next]_vars,
         \A l \in Lecture : (Exists(l)' /\ WasCompleted(l)') => (Exists(l) /\ WasCompleted(l))
  PROVE  Chained'
<1>1. aborts' = 0 => aborts = 0
  BY AbortsGrow
<1>2. QED
  BY <1>1, StaysFollowed DEF Chained

\* The only step that completes one raises its event.
LEMMA OneCompleted ==
  ASSUME TypeOK, NEW w \in Worker, SaveCompleted(w)
  PROVE  Chained'
<1>1. req'[w].step = "emit"
  BY DEF SaveCompleted, TypeOK, Idle
<1>2. \A l \in Lecture : Followed(l)'
  BY <1>1 DEF Followed
<1>3. QED
  BY <1>2 DEF Chained

\* A save whose entity is not that of a completed lecture completes none.
LEMMA NotCompleting ==
  ASSUME TypeOK, NEW w \in Worker, SaveLecture(w)
  PROVE  /\ UNCHANGED <<size, notice>>
         /\ \A m \in Lecture : row'[m] = row[m] \/ row'[m].status = row[m].status
                                 \/ row'[m].status # "COMPLETED"
<1>1. Update(w) /\ req[w].entity.status # "COMPLETED"
  BY DEF SaveLecture
<1>2. PICK l \in Lecture : l = req[w].lecture
  BY <1>1, TypeUpdate
<1>3. row[l] \in Row /\ req[w].entity \in Row
  BY DEF TypeOK, Handler
<1>4. row' = [row EXCEPT ![l] = Written(row[l], req[w].entity, req[w].write)]
  BY <1>1, <1>2 DEF Update, TypeOK
<1>5. row'[l].status = IF "status" \in req[w].write THEN req[w].entity.status ELSE row[l].status
  BY <1>3, <1>4, WrittenType DEF TypeOK
<1>6. \A m \in Lecture \ {l} : row'[m] = row[m]
  BY <1>4 DEF TypeOK
<1>7. QED
  BY <1>1, <1>5, <1>6, TypeUpdate

LEMMA ChainedStep == TypeOK /\ Chained /\ [Next]_vars => Chained'
<1> SUFFICES ASSUME TypeOK, Chained, [Next]_vars PROVE Chained'
  OBVIOUS
<1>1. size \in Nat /\ \A l \in Lecture : l \in Nat
  BY DEF TypeOK, Lecture
<1>2. ASSUME NEW k \in Order, NEW phases, NewLecture(k, phases) PROVE Chained'
  <2>1. PICK n \in Lecture : n = size + 1
    BY <1>2, NewLectureTouches
  <2>2. /\ size' = n /\ row'[n] = NewRow(k) /\ notice'[n].step = "send"
        /\ \A l \in Lecture \ {n} : row'[l] = row[l] /\ notice'[l] = notice[l]
    BY <1>2, <2>1, NewLectureTouches
  <2>3. \A l \in Lecture : Exists(l)' => Exists(l) \/ l = n
    BY <1>1, <2>1, <2>2 DEF Exists
  <2>4. ~WasCompleted(n)'
    BY <2>2 DEF WasCompleted, Noticing, NewRow
  <2>5. \A l \in Lecture \ {n} : WasCompleted(l)' => WasCompleted(l)
    BY <2>2 DEF WasCompleted, Noticing
  <2>6. QED
    BY <2>3, <2>4, <2>5, NoneCompleted
<1>3. CASE CreateLecturesForGroup
  BY <1>2, <1>3, LecturesAssumption DEF CreateLecturesForGroup, Order
<1>4. ASSUME NEW k \in Order, ScheduleNext(k) PROVE Chained'
  BY <1>2, <1>4 DEF ScheduleNext
<1>5. ASSUME UNCHANGED <<size, row, notice>> PROVE Chained'
  BY <1>5, NoneCompleted DEF Exists, WasCompleted, Noticing
<1>6. CASE FindLatest \/ AbortScheduling \/ UNCHANGED vars
  BY <1>5, <1>6 DEF FindLatest, TakeCompleted, AbortScheduling, vars
<1>7. ASSUME NEW w \in Worker, QuietHandler(w) PROVE Chained'
  <2>1. notice' = notice
    BY <1>7 DEF QuietHandler, Call, StartLecture, CompleteLecture, CancelLecture,
       UpdateInviteLink, StartDueLectures, CompleteDueLectures, HandleReminders, BeginStatus,
       BeginReminder, Begin, SendReminder, SelectLecture, EmitCompleted, Abort
  <2>2. QED
    BY <1>5, <1>7, <2>1, QuietRows
<1>8. ASSUME NEW l \in Lecture, QuietNotice(l) \/ SaveNotice(l) PROVE Chained'
  <2>1. size' = size /\ \A m \in Lecture \ {l} : row'[m] = row[m] /\ notice'[m] = notice[m]
    BY <1>8 DEF QuietNotice, Tick, SendNotice, FindForNotice, SelectNotice, SaveNotice,
       TrackNotice, FailNotice, chain, TypeOK
  <2>2. CASE SaveNotice(l)
    <3>1. row[l] \in Row /\ notice[l].entity \in Row
      BY DEF TypeOK, Notice
    <3>2. /\ row'[l] = Written(row[l], notice[l].entity, notice[l].write)
          /\ notice'[l] = NoticeAt("track") /\ Noticing(l)
      BY <2>2 DEF SaveNotice, Noticing, TypeOK
    <3>3. row'[l].status \in {row[l].status, notice[l].entity.status} /\ ~Noticing(l)'
      BY <3>1, <3>2, WrittenType DEF Noticing, NoticeAt
    <3>4. WasCompleted(l)' => WasCompleted(l)
      BY <3>2, <3>3 DEF WasCompleted
    <3>5. QED
      BY <2>1, <3>4, NoneCompleted DEF Exists, WasCompleted, Noticing
  <2>3. CASE QuietNotice(l)
    <3>1. row' = row
      BY <2>3 DEF QuietNotice, Tick, SendNotice, FindForNotice, SelectNotice, TrackNotice,
         FailNotice
    <3>2. \/ ~Noticing(l)'
          \/ notice'[l].entity = row[l]
          \/ Noticing(l) /\ notice'[l].entity = notice[l].entity
      BY <2>3 DEF QuietNotice, Tick, SendNotice, FindForNotice, SelectNotice, TrackNotice,
         FailNotice, Noticing, NoticeAt, TypeOK, Notice
    <3>3. WasCompleted(l)' => WasCompleted(l)
      BY <3>1, <3>2 DEF WasCompleted
    <3>4. QED
      BY <2>1, <3>3, NoneCompleted DEF Exists, WasCompleted, Noticing
  <2>4. QED
    BY <1>8, <2>2, <2>3
<1>9. ASSUME NEW l \in Lecture, NEW t \in Teacher, HandleClaimLecture(l, t) PROVE Chained'
  <2>1. UNCHANGED <<size, notice>>
    BY <1>9 DEF HandleClaimLecture, Confirm, chain
  <2>2. row'[l].status = "ASSIGNED" /\ \A m \in Lecture \ {l} : row'[m] = row[m]
    BY <1>9 DEF HandleClaimLecture, TypeOK, Row
  <2>3. QED
    BY <2>1, <2>2, NoneCompleted DEF Exists, WasCompleted, Noticing
<1>10. ASSUME NEW w \in Worker, SaveLecture(w) PROVE Chained'
  BY <1>10, NotCompleting, NoneCompleted DEF Exists, WasCompleted, Noticing
<1>11. QED
  BY <1>3, <1>4, <1>6, <1>7, <1>8, <1>9, <1>10, OneCompleted, StepKinds

\* A set of numbers that is not empty has a least one.
LEMMA LeastNumber ==
  ASSUME NEW S \in SUBSET Nat, S # {}
  PROVE  \E n \in S : \A m \in S : n <= m
<1>1. PICK n \in S : \A m \in S : <<m, n>> \notin OpToRel(<, Nat)
  BY NatLessThanWellFounded, WFMin, Zenon
<1>2. \A m \in S : ~(m < n)
  BY <1>1, Zenon DEF OpToRel
<1>3. QED
  BY <1>2

\* Among lectures there is one of the highest order.
LEMMA SomeLatest ==
  ASSUME TypeOK, size > 0
  PROVE  \E l \in Lecture :
           Exists(l) /\ \A m \in Lecture : Exists(m) => row[m].order <= row[l].order
<1> DEFINE left == {Topics - row[l].order : l \in {m \in Lecture : Exists(m)}}
<1>1. \A l \in Lecture : row[l].order \in Nat /\ Topics - row[l].order \in Nat
  BY LecturesAssumption DEF TypeOK, Row, Order
<1>2. 1 \in Lecture /\ Exists(1)
  BY LecturesAssumption DEF TypeOK, Lecture, Exists
<1>3. left \in SUBSET Nat /\ left # {}
  BY <1>1, <1>2
<1>4. PICK n \in left : \A m \in left : n <= m
  <2> HIDE DEF left
  <2> QED BY <1>3, LeastNumber
<1>5. PICK l \in Lecture : Exists(l) /\ n = Topics - row[l].order
  BY <1>4
<1>6. \A m \in Lecture : Exists(m) => Topics - row[l].order <= Topics - row[m].order
  BY <1>4, <1>5
<1>7. QED
  BY <1>1, <1>5, <1>6, LecturesAssumption

\* Only a cancellation or a failure stops the course short of its last topic: the handlers
\* of all its lectures may overlap, and old reads be saved over completed lectures.
\* (lecture-scheduler.service.ts, scheduleNextLecture.)
THEOREM ChainContinuesCorrect == Spec => []ChainContinues
<1>1. TypeOK /\ Chained => ChainContinues
  <2> SUFFICES ASSUME TypeOK, Chained, aborts = 0, size > 0,
                      \A l \in Lecture : Exists(l) => row[l].status = "COMPLETED",
                      \A w \in Worker : req[w].step # "emit", ~(completed > 0),
                      \A k \in Order : ~(inserting[k] > 0)
               PROVE  Topics \in Orders
    BY DEF ChainContinues
  <2>1. PICK l \in Lecture :
          Exists(l) /\ \A m \in Lecture : Exists(m) => row[m].order <= row[l].order
    BY SomeLatest
  <2>2. Followed(l)
    BY <2>1 DEF Chained, WasCompleted
  <2>3. \A m \in Lecture : row[m].order \in Nat
    BY DEF TypeOK, Row, Order
  <2>4. row[l].order = Topics
    BY <2>1, <2>2, <2>3 DEF Followed
  <2>5. QED
    BY <2>1, <2>4 DEF Orders
<1>2. QED
  BY TypeInit, TypeStep, OrdersKeptInit, OrdersKeptStep, ChainedInit, ChainedStep, <1>1,
     PTL DEF Spec
=============================================================================
