------------------------------ MODULE Lectures ------------------------------
(***************************************************************************)
(* The lectures of one group: src/src/modules/lecture, the announcement    *)
(* and the claim of a lecture in the teachers' Telegram group              *)
(* (telegram-bot), and the event that schedules the next lecture.          *)
(*                                                                         *)
(* Every handler but the claim reads a row into an entity, changes the     *)
(* entity and saves it.  TypeORM's save selects the row once more, outside *)
(* the transaction of its UPDATE, and then updates the columns in which    *)
(* the entity differed from what it selected: an older read overwrites     *)
(* what others wrote in between, and columns of two writers can be mixed.  *)
(* The claim holds a row lock from its read to its commit and is one step. *)
(***************************************************************************)
EXTENDS Integers, FiniteSets

CONSTANTS
  MaxLectures,  \* bound: lecture rows of the group
  Topics,       \* number of grammar topics of the course
  Teacher,
  NoTeacher,
  Worker,       \* admin requests and cron jobs in flight at the same time
  Overlap,      \* may a handler start on a lecture another one is working on?
  Regenerate,   \* may an admin generate the group's lectures again?
  FirstPhase,   \* where the clock may be when a lecture is generated
  MaxCalls,     \* bound: admin requests and cron jobs
  MaxAborts     \* bound: handlers abandoned by an exception or a restart

\* More than an hour ahead, within the hour, after startTime, after endTime.
Phase == {"early", "soon", "started", "over"}

ASSUME LecturesAssumption ==
  /\ MaxLectures \in Nat /\ Topics \in Nat \ {0}
  /\ NoTeacher \notin Teacher
  /\ Overlap \in BOOLEAN /\ Regenerate \in BOOLEAN /\ FirstPhase \subseteq Phase
  /\ MaxCalls \in Nat /\ MaxAborts \in Nat

VARIABLES
  size,       \* lecture rows so far; their ids are 1..size
  row,        \* the rows
  phase,      \* where the clock is relative to startTime and endTime
  notice,     \* the lecture.created handler of a lecture: step and save
  req,        \* the handlers in flight: step, lecture and save
  completed,  \* lecture.completed handlers that have not read the last lecture
  inserting,  \* inserting[k]: handlers about to insert the lecture of order k
  claimants,  \* history: teachers whose claim of a lecture was confirmed
  reminded,   \* history: reminders sent for a lecture
  calls,      \* admin requests and cron jobs so far
  aborts      \* handlers abandoned so far

vars == <<size, row, phase, notice, req, completed, inserting, claimants,
          reminded, calls, aborts>>
chain == <<size, completed, inserting>>
histories == <<claimants, reminded>>

Lecture == 1..MaxLectures
Order == 1..Topics

LectureStatusEnum == {"SCHEDULED", "ASSIGNED", "ONGOING", "COMPLETED", "CANCELLED"}
Row == [status : LectureStatusEnum, teacher : Teacher \cup {NoTeacher},
        reminderSent : BOOLEAN, order : Order]
NewRow(k) == [status |-> "SCHEDULED", teacher |-> NoTeacher, reminderSent |-> FALSE,
              order |-> k]

\* The columns a save may find different: the order of a row never changes.
Column == {"status", "teacher", "reminderSent"}

\* A handler that saves holds the entity and, once the save has selected the row, the
\* columns it will write.
Idle == [step |-> "idle", lecture |-> 1, entity |-> NewRow(1), write |-> {}]
Step == {"idle", "push", "select", "update", "emit"}
Handler == [step : Step, lecture : Lecture \cup {1}, entity : Row, write : SUBSET Column]

NoticeStep ==
  {"none", "send", "find", "select", "update", "track", "processed", "failed", "lost"}
Notice == [step : NoticeStep, entity : Row, write : SUBSET Column]
NoticeAt(step) == [step |-> step, entity |-> NewRow(1), write |-> {}]

Exists(l) == l <= size
Orders == {row[l].order : l \in {m \in Lecture : Exists(m)}}

Init ==
  /\ size = 0
  /\ row = [l \in Lecture |-> NewRow(1)]
  /\ phase = [l \in Lecture |-> "early"]
  /\ notice = [l \in Lecture |-> NoticeAt("none")]
  /\ req = [w \in Worker |-> Idle]
  /\ completed = 0
  /\ inserting = [k \in Order |-> 0]
  /\ claimants = [l \in Lecture |-> {}]
  /\ reminded = [l \in Lecture |-> 0]
  /\ calls = 0
  /\ aborts = 0

\* Nobody holds an older read of l.
Untouched(l) ==
  /\ \A w \in Worker : req[w].step \notin {"idle", "emit"} => req[w].lecture # l
  /\ notice[l].step \notin {"select", "update"}

MayRead(l) == Overlap \/ Untouched(l)

\* save(): first the columns in which the entity e differs from the row r, later the
\* row as it is then with those columns written.
Differing(r, e) == {c \in Column : e[c] # r[c]}

Written(r, e, write) ==
  [r EXCEPT !.status = IF "status" \in write THEN e.status ELSE @,
                 !.teacher = IF "teacher" \in write THEN e.teacher ELSE @,
                 !.reminderSent = IF "reminderSent" \in write THEN e.reminderSent ELSE @]

-----------------------------------------------------------------------------
(***************************************************************************)
(* New rows.                                                               *)
(***************************************************************************)

\* INSERT of a row of order k, and its lecture.created event.
NewLecture(k, phases) ==
  /\ size < MaxLectures
  /\ size' = size + 1
  /\ row' = [row EXCEPT ![size + 1] = NewRow(k)]
  /\ notice' = [notice EXCEPT ![size + 1].step = "send"]
  /\ \E p \in phases : phase' = [phase EXCEPT ![size + 1] = p]

\* The group starts, or an admin generates its lectures: one lecture, of order 1.
CreateLecturesForGroup ==
  /\ size = 0 \/ Regenerate
  /\ NewLecture(1, FirstPhase)
  /\ UNCHANGED <<req, completed, inserting, histories, calls, aborts>>

\* findLatestByGroupId: a lecture of the highest order.
IsLatest(k) == k \in Orders /\ \A j \in Orders : j <= k

\* One lecture.completed handler starts; handlers one at a time unless Overlap.
TakeCompleted ==
  /\ completed > 0
  /\ Overlap \/ \A k \in Order : inserting[k] = 0
  /\ completed' = completed - 1
  /\ UNCHANGED <<size, row, phase, notice, req, histories, calls, aborts>>

\* Mutants: the course is taken for finished one topic early; the order is
\* incremented twice; the order is not incremented.
EarlyFindLatest ==
  /\ TakeCompleted
  /\ \E k \in Order :
       /\ IsLatest(k)
       /\ IF k < Topics - 1 THEN inserting' = [inserting EXCEPT ![k + 1] = @ + 1]
                            ELSE UNCHANGED inserting
SkippingFindLatest ==
  /\ TakeCompleted
  /\ \E k \in Order :
       /\ IsLatest(k)
       /\ IF k + 1 < Topics THEN inserting' = [inserting EXCEPT ![k + 2] = @ + 1]
                            ELSE UNCHANGED inserting
RepeatingFindLatest ==
  /\ TakeCompleted
  /\ \E k \in Order : IsLatest(k) /\ inserting' = [inserting EXCEPT ![k] = @ + 1]

\* scheduleNextLecture reads the last lecture; after the last topic it stops.
FindLatest ==
  /\ TakeCompleted
  /\ \E k \in Order :
       /\ IsLatest(k)
       /\ IF k < Topics THEN inserting' = [inserting EXCEPT ![k + 1] = @ + 1]
                        ELSE UNCHANGED inserting

\* It inserts the next lecture at a time that is still ahead.
ScheduleNext(k) ==
  /\ inserting[k] > 0
  /\ inserting' = [inserting EXCEPT ![k] = @ - 1]
  /\ NewLecture(k, {"early", "soon"})
  /\ UNCHANGED <<req, completed, histories, calls, aborts>>

Tick(l) ==
  /\ Exists(l)
  /\ \/ phase[l] = "early" /\ phase' = [phase EXCEPT ![l] = "soon"]
     \/ phase[l] = "soon" /\ phase' = [phase EXCEPT ![l] = "started"]
     \/ phase[l] = "started" /\ phase' = [phase EXCEPT ![l] = "over"]
  /\ UNCHANGED <<row, notice, req, chain, histories, calls, aborts>>

-----------------------------------------------------------------------------
(***************************************************************************)
(* The lecture.created handler: post the message, then store its id with a *)
(* read and a save of the row, then write the tracker row.                 *)
(***************************************************************************)
SendNotice(l) ==
  /\ notice[l].step = "send"
  /\ notice' = [notice EXCEPT ![l] = NoticeAt("find")]
  /\ UNCHANGED <<row, phase, req, chain, histories, calls, aborts>>

\* Mutant: a lecture that was claimed in the meantime is not found.
BuggyFindForNotice(l) ==
  /\ notice[l].step = "find"
  /\ MayRead(l) /\ row[l].teacher = NoTeacher
  /\ notice' = [notice EXCEPT ![l].step = "select", ![l].entity = row[l]]
  /\ UNCHANGED <<row, phase, req, chain, histories, calls, aborts>>

FindForNotice(l) ==
  /\ notice[l].step = "find"
  /\ MayRead(l)
  /\ notice' = [notice EXCEPT ![l].step = "select", ![l].entity = row[l]]
  /\ UNCHANGED <<row, phase, req, chain, histories, calls, aborts>>

SelectNotice(l) ==
  /\ notice[l].step = "select"
  /\ notice' = [notice EXCEPT ![l].step = "update",
                              ![l].write = Differing(row[l], notice[l].entity)]
  /\ UNCHANGED <<row, phase, req, chain, histories, calls, aborts>>

\* The message id and the columns that differed.
SaveNotice(l) ==
  /\ notice[l].step = "update"
  /\ row' = [row EXCEPT ![l] = Written(@, notice[l].entity, notice[l].write)]
  /\ notice' = [notice EXCEPT ![l] = NoticeAt("track")]
  /\ UNCHANGED <<phase, req, chain, histories, calls, aborts>>

TrackNotice(l) ==
  /\ notice[l].step = "track"
  /\ notice' = [notice EXCEPT ![l] = NoticeAt("processed")]
  /\ UNCHANGED <<row, phase, req, chain, histories, calls, aborts>>

\* Telegram's retries are used up, a database call fails, or the process restarts.
\* Tracked or not, the event does not come back; "lost" if no message was posted.
FailNotice(l) ==
  /\ aborts < MaxAborts
  /\ aborts' = aborts + 1
  /\ \/ notice[l].step = "send" /\ notice' = [notice EXCEPT ![l] = NoticeAt("lost")]
     \/ /\ notice[l].step \in {"find", "select", "update", "track"}
        /\ notice' = [notice EXCEPT ![l] = NoticeAt("failed")]
  /\ UNCHANGED <<row, phase, req, chain, histories, calls>>

-----------------------------------------------------------------------------
(***************************************************************************)
(* A teacher presses the button under the message.  The lecture is free if *)
(* nobody is assigned; its status is not looked at.                        *)
(***************************************************************************)
Posted(l) == notice[l].step \notin {"none", "send", "lost"}

Confirm(l, t) ==
  /\ claimants' = [claimants EXCEPT ![l] = @ \cup {t}]
  /\ UNCHANGED <<phase, notice, req, chain, reminded, calls, aborts>>

\* Mutants: the assigned teacher is not checked under the lock; the teacher is not
\* written.
UncheckedClaim(l, t) ==
  /\ Posted(l)
  /\ MayRead(l)
  /\ row' = [row EXCEPT ![l].teacher = t, ![l].status = "ASSIGNED"]
  /\ Confirm(l, t)
ForgetfulClaim(l, t) ==
  /\ Posted(l)
  /\ MayRead(l)
  /\ row[l].teacher = NoTeacher
  /\ row' = [row EXCEPT ![l].status = "ASSIGNED"]
  /\ Confirm(l, t)

HandleClaimLecture(l, t) ==
  /\ Posted(l)
  /\ MayRead(l)
  /\ row[l].teacher = NoTeacher
  /\ row' = [row EXCEPT ![l].teacher = t, ![l].status = "ASSIGNED"]
  /\ Confirm(l, t)

-----------------------------------------------------------------------------
(***************************************************************************)
(* Admin requests and the two cron jobs.  Begin reads the row; the cron    *)
(* jobs read all due rows at once, which is one Begin for each of them.    *)
(***************************************************************************)
Begin(w, l, step, entity) ==
  /\ req[w].step = "idle"
  /\ Exists(l)
  /\ MayRead(l)
  /\ calls < MaxCalls
  /\ calls' = calls + 1
  /\ req' = [req EXCEPT ![w] = [step |-> step, lecture |-> l, entity |-> entity,
                                write |-> {}]]
  /\ UNCHANGED <<row, phase, notice, chain, histories, aborts>>

BeginStatus(w, l, status) == Begin(w, l, "select", [row[l] EXCEPT !.status = status])

StartLecture(w, l) == row[l].status = "ASSIGNED" /\ BeginStatus(w, l, "ONGOING")

CompleteLecture(w, l) == row[l].status = "ONGOING" /\ BeginStatus(w, l, "COMPLETED")

\* Mutant: a completed lecture can be canceled.
BuggyCancelLecture(w, l) ==
  /\ row[l].status # "CANCELLED"
  /\ BeginStatus(w, l, "CANCELLED")

CancelLecture(w, l) ==
  /\ row[l].status \notin {"COMPLETED", "CANCELLED"}
  /\ BeginStatus(w, l, "CANCELLED")

UpdateInviteLink(w, l) == BeginStatus(w, l, "COMPLETED")

StartDueLectures(w, l) ==
  /\ row[l].status = "ASSIGNED" /\ phase[l] \in {"started", "over"}
  /\ BeginStatus(w, l, "ONGOING")

CompleteDueLectures(w, l) ==
  /\ row[l].status = "ONGOING" /\ phase[l] = "over"
  /\ BeginStatus(w, l, "COMPLETED")

BeginReminder(w, l) == Begin(w, l, "push", [row[l] EXCEPT !.reminderSent = TRUE])

\* Mutant: lectures that were reminded of already are not left out.
RepeatedReminders(w, l) ==
  /\ row[l].status = "ASSIGNED" /\ phase[l] # "early"
  /\ BeginReminder(w, l)

\* findLecturesNeedingReminder has no lower bound on startTime.
HandleReminders(w, l) ==
  /\ row[l].status = "ASSIGNED" /\ ~row[l].reminderSent /\ phase[l] # "early"
  /\ BeginReminder(w, l)

\* The push notification of a student; those of the other students, whose errors are
\* caught, and then the save follow.
SendReminder(w) ==
  /\ req[w].step = "push"
  /\ reminded' = [reminded EXCEPT ![req[w].lecture] = @ + 1]
  /\ req' = [req EXCEPT ![w].step = "select"]
  /\ UNCHANGED <<row, phase, notice, chain, claimants, calls, aborts>>

SelectLecture(w) ==
  /\ req[w].step = "select"
  /\ req' = [req EXCEPT ![w].step = "update",
                        ![w].write = Differing(row[req[w].lecture], req[w].entity)]
  /\ UNCHANGED <<row, phase, notice, chain, histories, calls, aborts>>

Finish(w) == req' = [req EXCEPT ![w] = Idle]

Update(w) ==
  /\ req[w].step = "update"
  /\ row' = [row EXCEPT ![req[w].lecture] = Written(@, req[w].entity, req[w].write)]
  /\ UNCHANGED <<phase, notice, chain, histories, calls, aborts>>

SaveLecture(w) ==
  /\ req[w].entity.status # "COMPLETED"
  /\ Update(w)
  /\ Finish(w)

\* Mutant: a completed lecture raises no event.
SilentSaveCompleted(w) ==
  /\ req[w].entity.status = "COMPLETED"
  /\ Update(w)
  /\ Finish(w)

\* completeLecture, completeDueLectures and updateInviteLink then raise the event.
SaveCompleted(w) ==
  /\ req[w].entity.status = "COMPLETED"
  /\ Update(w)
  /\ req' = [req EXCEPT ![w] = [Idle EXCEPT !.step = "emit", !.lecture = req[w].lecture]]

EmitCompleted(w) ==
  /\ req[w].step = "emit"
  /\ completed' = completed + 1
  /\ Finish(w)
  /\ UNCHANGED <<size, row, phase, notice, inserting, histories, calls, aborts>>

\* An awaited call throws, or the process restarts.
Abort(w) ==
  /\ req[w].step # "idle"
  /\ aborts < MaxAborts
  /\ aborts' = aborts + 1
  /\ Finish(w)
  /\ UNCHANGED <<row, phase, notice, chain, histories, calls>>

AbortScheduling ==
  /\ aborts < MaxAborts
  /\ aborts' = aborts + 1
  /\ \/ completed > 0 /\ completed' = completed - 1 /\ UNCHANGED inserting
     \/ \E k \in Order : /\ inserting[k] > 0
                         /\ inserting' = [inserting EXCEPT ![k] = @ - 1]
                         /\ UNCHANGED completed
  /\ UNCHANGED <<size, row, phase, notice, req, histories, calls>>

-----------------------------------------------------------------------------
Notify(l) ==
  \/ SendNotice(l) \/ FindForNotice(l) \/ SelectNotice(l) \/ SaveNotice(l)
  \/ TrackNotice(l)

Call(w) ==
  \E l \in Lecture :
    \/ StartLecture(w, l) \/ CompleteLecture(w, l) \/ CancelLecture(w, l)
    \/ UpdateInviteLink(w, l) \/ StartDueLectures(w, l)
    \/ CompleteDueLectures(w, l) \/ HandleReminders(w, l)

Handle(w) ==
  \/ SendReminder(w) \/ SelectLecture(w) \/ SaveLecture(w) \/ SaveCompleted(w)
  \/ EmitCompleted(w)

ScheduleNextLecture == FindLatest \/ \E k \in Order : ScheduleNext(k)

Next ==
  \/ CreateLecturesForGroup
  \/ ScheduleNextLecture
  \/ AbortScheduling
  \/ \E l \in Lecture : \/ Tick(l) \/ Notify(l) \/ FailNotice(l)
                        \/ \E t \in Teacher : HandleClaimLecture(l, t)
  \/ \E w \in Worker : Call(w) \/ Handle(w) \/ Abort(w)

Spec == Init /\ [][Next]_vars

\* The event loop resumes every handler whose awaited call has been answered.
FairSpec ==
  /\ Spec
  /\ WF_vars(ScheduleNextLecture)
  /\ \A l \in Lecture : WF_vars(Notify(l))
  /\ \A w \in Worker : WF_vars(Handle(w))

-----------------------------------------------------------------------------
(***************************************************************************)
(* Properties.                                                             *)
(***************************************************************************)

\* Type invariant: rows, notices and handlers have their types, and a handler works
\* on a row that exists.
TypeOK ==
  /\ size \in 0..MaxLectures
  /\ row \in [Lecture -> Row]
  /\ phase \in [Lecture -> Phase]
  /\ notice \in [Lecture -> Notice]
  /\ req \in [Worker -> Handler]
  /\ \A w \in Worker : req[w].step # "idle" => Exists(req[w].lecture)
  /\ completed \in Nat
  /\ inserting \in [Order -> Nat]
  /\ claimants \in [Lecture -> SUBSET Teacher]
  /\ reminded \in [Lecture -> Nat]
  /\ calls \in Nat /\ aborts \in Nat

\* A lecture that is assigned or under way has a teacher (handlers one at a time on a
\* lecture: two saves that overlap can mix the status of one entity with the teacher of
\* the other).
HasTeacher ==
  \A l \in Lecture : row[l].status \in {"ASSIGNED", "ONGOING"} => row[l].teacher # NoTeacher

\* The orders of a group's lectures have no gaps: races and repeated generation may
\* repeat an order, but no topic is skipped.
NoTopicSkipped == \A k \in Orders : 1..k \subseteq Orders

\* The only things that stop the course short of its last topic are a cancellation
\* and a failure: otherwise a lecture is still to be held, or the event that
\* schedules the next one is on its way.
ChainContinues ==
  (aborts = 0 /\ size > 0) =>
    \/ \E l \in Lecture : Exists(l) /\ row[l].status # "COMPLETED"
    \/ \E w \in Worker : req[w].step = "emit"
    \/ completed > 0
    \/ \E k \in Order : inserting[k] > 0
    \/ Topics \in Orders

\* The teacher of a lecture is the one teacher whose claim of it was confirmed
\* (handlers one at a time on a lecture).
ClaimKept ==
  \A l \in Lecture : claimants[l] = {row[l].teacher} \ {NoTeacher}

\* "order" numbers the lectures of a group (scheduling handlers one at a time).
OrderUnique ==
  \A l, m \in Lecture :
    (Exists(l) /\ Exists(m) /\ row[l].order = row[m].order) => l = m

\* Students are reminded of a lecture once, and once more only for every handler that was
\* abandoned before the reminder was saved (handlers one at a time on a lecture).
RemindedOnce == \A l \in Lecture : reminded[l] <= 1 + aborts

\* With handlers one at a time on a lecture, a lecture that somebody has claimed
\* never goes back: it is not started, reminded of or canceled after it completed,
\* and after a cancellation only updateInviteLink touches its status.
Stage == [SCHEDULED |-> 0, ASSIGNED |-> 1, ONGOING |-> 2, CANCELLED |-> 3, COMPLETED |-> 4]
ClaimedMovesForward ==
  [][\A l \in Lecture : (Exists(l) /\ row[l].teacher # NoTeacher)
        => Stage[row'[l].status] >= Stage[row[l].status]]_vars

\* The completion of a lecture leads to the next one, unless a handler was abandoned.
CompletionContinues ==
  \A l \in Lecture :
    (Exists(l) /\ row[l].status = "COMPLETED" /\ row[l].order < Topics
       /\ size < MaxLectures)
      ~> (row[l].order + 1 \in Orders \/ size = MaxLectures \/ aborts > 0)

\* Every lecture is offered to the teachers and tracked, unless a handler was abandoned.
EveryLectureAnnounced ==
  \A l \in Lecture : Exists(l) ~> (notice[l].step = "processed" \/ aborts > 0)
=============================================================================
