------------------------------ MODULE Learning ------------------------------
(***************************************************************************)
(* A student's way through a course (src/src/modules/lesson-progress,      *)
(* homework-progress, user-courses).  Opening a block creates the progress *)
(* rows of its lessons, the first one unlocked.  A watched lesson puts its *)
(* homework on the queue and unlocks the next lesson, unless too many      *)
(* homeworks are ready; then a later visit to the block unlocks it.  Every *)
(* half hour a scheduler queues one reviewed homework again.               *)
(*                                                                         *)
(* One student and one course.  Every awaited call is a step of its own;   *)
(* a save writes every column in which the copy in memory differs from the *)
(* row, so a stale copy brings old values back.                            *)
(***************************************************************************)
EXTENDS Integers, FiniteSets, Sequences, FiniteSetsExt

CONSTANTS
  Worker,        \* requests of the student in flight at the same time
  Runner,        \* scheduler runs in flight at the same time
  LessonsOf,     \* the lessons each block of the course will have
  NoHomework,    \* lessons without a homework
  QueueLimit,    \* ready homeworks that stop the lessons (5)
  QueueCap,      \* queued homeworks that stop the scheduler (20)
  FreeLessons,   \* the first lesson that has to be paid for (30)
  DailyLimit,    \* watched lessons of a day that stop the lazy unlock (40)
  MaxReviews,    \* reviews after which a homework is done (10)
  MaxCopies,     \* bound: progress rows of a lesson, and queue items of a homework
  MaxAborts,     \* bound: handlers abandoned and counts failed
  Overlap        \* do requests of the student overlap, and scheduler runs?

Block == 1..Len(LessonsOf)
Lesson == {<<b, k>> : b \in Block, k \in 1..Max({LessonsOf[c] : c \in Block})}
\* The id of a progress row of a lesson, or of a queue item of its homework.
Id == Lesson \X (1..MaxCopies)

ASSUME LearningAssumption ==
  /\ LessonsOf \in Seq(Nat \ {0}) /\ LessonsOf # <<>>
  /\ NoHomework \subseteq Lesson
  /\ {QueueLimit, QueueCap, FreeLessons, DailyLimit, MaxReviews} \subseteq Nat \ {0}
  /\ {MaxCopies, MaxAborts} \subseteq Nat
  /\ Overlap \in BOOLEAN

VARIABLES
  published,  \* lessons the admins have added to a block
  made,       \* the ids of the progress rows
  row,        \* the progress rows
  today,      \* the rows of watched lessons that were last changed today
  queue,      \* the items of the homework queue
  reviews,    \* the review counts in the progress rows of a homework
  sub,        \* the student's row in user_courses
  req,        \* the requests of the student in flight
  run,        \* the scheduler runs in flight
  aborts      \* handlers abandoned, and counts that failed, so far

vars == <<published, made, row, today, queue, reviews, sub, req, run, aborts>>
progress == <<made, row, today>>
homework == <<queue, reviews>>

-----------------------------------------------------------------------------
(***************************************************************************)
(* Rows and what the handlers hold between two awaited calls.              *)
(***************************************************************************)
Mark == [unlocked : BOOLEAN, watched : BOOLEAN]
\* warned: the block whose warning was shown today, or 0.
Sub == [paid : BOOLEAN, active : BOOLEAN, ends : {"none", "future", "past"},
        warned : Block \cup {0}]
\* scheduledAt of an item has come or not.
ItemState == {"none", "later", "ready"}

Idle == [step |-> "idle"]
Request ==
  {Idle}
  \cup [step : {"watch", "unlock"}, id : Id, read : Mark]
  \cup [step : {"schedule", "enqueue", "recount"}, id : Id]
  \cup [step : {"warn"}, block : Block, have : Nat, buy : BOOLEAN, sub : Sub]
  \cup [step : {"check"}, block : Block, have : Nat, buy : BOOLEAN]
  \cup [step : {"generate"}, block : Block]
  \cup [step : {"create"}, block : Block, todo : SUBSET Nat, first : BOOLEAN]
  \cup [step : {"review"}, item : Id, at : Nat, count : 0..MaxReviews]
  \cup [step : {"remove"}, item : Id]
Run ==
  {Idle}
  \cup [step : {"expire"}, sub : Sub]
  \cup [step : {"plan"}, paid : BOOLEAN, active : BOOLEAN]
  \cup [step : {"insert"}, homework : Lesson]

RowsOf(b) == {i \in made : i[1][1] = b}
RowsOfLesson(l) == {i \in made : i[1] = l}
LessonOf(i) == i[1][2]
Following(l) == <<l[1], l[2] + 1>>
Watched(l) == \E i \in RowsOfLesson(l) : row[i].watched

Queued == {x \in Id : queue[x] # "none"}
ReadyItems == {x \in Id : queue[x] = "ready"}
QueuedHomeworks == {x[1] : x \in Queued}
\* A new item gets an id that no handler knows.
Held == {req[w].item : w \in {v \in Worker : "item" \in DOMAIN req[v]}}
FreeIds(h) == {x \in (Id \ Queued) \ Held : x[1] = h}

Init ==
  /\ published = [b \in Block |-> 1]
  /\ made = {}
  /\ row = [i \in Id |-> [unlocked |-> FALSE, watched |-> FALSE]]
  /\ today = {}
  /\ queue = [x \in Id |-> "none"]
  /\ reviews = [h \in Lesson |-> <<>>]
  /\ sub = [paid |-> FALSE, active |-> FALSE, ends |-> "none", warned |-> 0]
  /\ req = [w \in Worker |-> Idle]
  /\ run = [r \in Runner |-> Idle]
  /\ aborts = 0

MayStart(w) ==
  /\ req[w] = Idle
  /\ Overlap \/ \A v \in Worker : req[v] = Idle

GoOn(w, q) == req' = [req EXCEPT ![w] = q]

\* Mutant: the lessons of the day are counted by their last change, watched or not.
BuggySaveRow(i, m) ==
  /\ row' = [row EXCEPT ![i] = m]
  /\ today' = IF m = row[i] THEN today ELSE today \cup {i}
  /\ UNCHANGED made

\* TypeORM saves nothing, and leaves lastUpdatedAt alone, if the copy equals the row.
SaveRow(i, m) ==
  /\ row' = [row EXCEPT ![i] = m]
  /\ today' = IF m = row[i] THEN today
              ELSE IF m.watched THEN today \cup {i} ELSE today \ {i}
  /\ UNCHANGED made

AnyOf(ids) == CHOOSE i \in ids : TRUE

AddToQueue(h, state) ==
  /\ FreeIds(h) # {}
  /\ queue' = [queue EXCEPT ![AnyOf(FreeIds(h))] = state]

\* A count that fails is answered as 0.
ReadyCounts == {Cardinality(ReadyItems), 0}
CountQueueItems(n) ==
  IF n = Cardinality(ReadyItems) THEN UNCHANGED aborts
  ELSE aborts < MaxAborts /\ aborts' = aborts + 1

-----------------------------------------------------------------------------
(***************************************************************************)
(* LessonProgressService.update: a lesson was watched.                     *)
(***************************************************************************)
\* The row is read, and the ready homeworks are counted.
LessonProgressUpdate(w, i) ==
  /\ MayStart(w)
  /\ i \in made
  /\ row[i].unlocked /\ ~row[i].watched
  /\ \E n \in ReadyCounts : CountQueueItems(n) /\ n < QueueLimit
  /\ GoOn(w, [step |-> "watch", id |-> i, read |-> row[i]])
  /\ UNCHANGED <<published, progress, homework, sub, run>>

MustBuy(k) ==
  \/ k >= FreeLessons /\ ~sub.paid /\ ~sub.active
  \/ k > FreeLessons /\ sub.paid /\ ~sub.active

\* Mutant: the error of a transaction that was rolled back is swallowed.
BuggySaveWatched(w) ==
  /\ req[w].step = "watch"
  /\ LET i == req[w].id
     IN  IF MustBuy(LessonOf(i))
         THEN /\ GoOn(w, Idle)
              /\ UNCHANGED progress
         ELSE /\ SaveRow(i, [req[w].read EXCEPT !.watched = TRUE]) \/ UNCHANGED progress
              /\ GoOn(w, [step |-> "schedule", id |-> i])
  /\ UNCHANGED <<published, homework, sub, run, aborts>>

\* The subscription is read, and the row is saved as it was read, but watched.
SaveWatched(w) ==
  /\ req[w].step = "watch"
  /\ LET i == req[w].id
     IN  IF MustBuy(LessonOf(i))
         THEN /\ GoOn(w, Idle)
              /\ UNCHANGED progress
         ELSE /\ SaveRow(i, [req[w].read EXCEPT !.watched = TRUE])
              /\ GoOn(w, [step |-> "schedule", id |-> i])
  /\ UNCHANGED <<published, homework, sub, run, aborts>>

\* Without a homework the request ends here, and the next lesson stays locked.
ScheduleHomeworkForLesson(w) ==
  /\ req[w].step = "schedule"
  /\ LET h == req[w].id[1]
     IN  IF h \in NoHomework
         THEN GoOn(w, Idle)
         ELSE IF \E x \in ReadyItems : x[1] = h
              THEN GoOn(w, [req[w] EXCEPT !.step = "recount"])
              ELSE GoOn(w, [req[w] EXCEPT !.step = "enqueue"])
  /\ UNCHANGED <<published, progress, homework, sub, run, aborts>>

Enqueue(w) ==
  /\ req[w].step = "enqueue"
  /\ AddToQueue(req[w].id[1], "ready")
  /\ GoOn(w, [req[w] EXCEPT !.step = "recount"])
  /\ UNCHANGED <<published, progress, reviews, sub, run, aborts>>

\* unlockNextLesson reads a row of the next lesson and saves it unlocked.
FindNextLesson(w) ==
  /\ req[w].step = "recount"
  /\ LET next == RowsOfLesson(Following(req[w].id[1]))
     IN  \E n \in ReadyCounts :
           /\ CountQueueItems(n)
           /\ IF n < QueueLimit /\ next # {}
              THEN \E i \in next : GoOn(w, [step |-> "unlock", id |-> i, read |-> row[i]])
              ELSE GoOn(w, Idle)
  /\ UNCHANGED <<published, progress, homework, sub, run>>

SaveUnlocked(w) ==
  /\ req[w].step = "unlock"
  /\ SaveRow(req[w].id, [req[w].read EXCEPT !.unlocked = TRUE])
  /\ GoOn(w, Idle)
  /\ UNCHANGED <<published, homework, sub, run, aborts>>

-----------------------------------------------------------------------------
(***************************************************************************)
(* LessonProgressService.getVideos: a block is opened.                     *)
(***************************************************************************)
Beyond(b) == \E i \in RowsOf(b) : LessonOf(i) >= FreeLessons /\ row[i].unlocked

IsBlockFullyCompleted(b) == RowsOf(b) # {} /\ \A i \in RowsOf(b) : row[i].watched
Subscribed(s) == s.paid /\ s.active

\* The rows of the block and the whole row in user_courses are read; the warning of an
\* unfinished block is due once a day.
GetVideos(w, b) ==
  /\ MayStart(w)
  /\ LET have == Cardinality(RowsOf(b))
         buy == ~Subscribed(sub) /\ (b > 1 \/ Beyond(b))
         warn == b > 1 /\ ~IsBlockFullyCompleted(b - 1) /\ sub.warned # b
     IN  GoOn(w, IF have = 0 THEN [step |-> "generate", block |-> b]
                 ELSE IF warn THEN [step |-> "warn", block |-> b, have |-> have, buy |-> buy,
                                    sub |-> sub]
                 ELSE [step |-> "check", block |-> b, have |-> have, buy |-> buy])
  /\ UNCHANGED <<published, progress, homework, sub, run, aborts>>

\* ... and saved as it was read, with the warning.
SaveWarning(w) ==
  /\ req[w].step = "warn"
  /\ sub' = [req[w].sub EXCEPT !.warned = req[w].block]
  /\ GoOn(w, [step |-> "check", block |-> req[w].block, have |-> req[w].have,
              buy |-> req[w].buy])
  /\ UNCHANGED <<published, progress, homework, run, aborts>>

\* Mutant: one new lesson is not noticed.
BuggyNewLessons(b, have) == published[b] > have + 1

NewLessons(b, have) == published[b] > have

\* Mutant: the last unlocked lesson counts, watched or not.
BuggyNextOf(b) ==
  LET seen == {LessonOf(i) : i \in {j \in RowsOf(b) : row[j].unlocked}}
  IN  IF seen = {} THEN {} ELSE RowsOfLesson(<<b, Max(seen) + 1>>)

\* The lazy unlock is for the lesson after the last one that is watched and unlocked.
NextOf(b) ==
  LET seen == {LessonOf(i) : i \in {j \in RowsOf(b) : row[j].watched /\ row[j].unlocked}}
  IN  IF seen = {} THEN {} ELSE RowsOfLesson(<<b, Max(seen) + 1>>)

\* New lessons first; then nothing is unlocked while homeworks are ready, if what comes
\* next has to be bought, or after too many lessons today.
CheckBlock(w) ==
  /\ req[w].step = "check"
  /\ LET b == req[w].block
     IN  IF NewLessons(b, req[w].have)
         THEN GoOn(w, [step |-> "generate", block |-> b]) /\ UNCHANGED aborts
         ELSE \E n \in ReadyCounts :
                /\ CountQueueItems(n)
                /\ IF n = 0 /\ ~req[w].buy /\ Cardinality(today) < DailyLimit /\ NextOf(b) # {}
                   THEN \E i \in NextOf(b) :
                          GoOn(w, IF row[i].unlocked THEN Idle
                                  ELSE [step |-> "unlock", id |-> i, read |-> row[i]])
                   ELSE GoOn(w, Idle)
  /\ UNCHANGED <<published, progress, homework, sub, run>>

\* generateLessonProgress reads the lessons and the rows of the block again, and
\* creates the missing rows one by one, in the order of the lessons.
GenerateLessonProgress(w) ==
  /\ req[w].step = "generate"
  /\ LET b == req[w].block
         todo == {k \in 1..published[b] : RowsOfLesson(<<b, k>>) = {}}
     IN  GoOn(w, IF todo = {} THEN Idle
                 ELSE [step |-> "create", block |-> b, todo |-> todo, first |-> RowsOf(b) = {}])
  /\ UNCHANGED <<published, progress, homework, sub, run, aborts>>

\* Mutant: the rows are created in the order in which a query happens to return the
\* lessons.
BuggyCreateProgress(w) ==
  /\ req[w].step = "create"
  /\ LET q == req[w]
         k == Max(q.todo)
         new == {i \in Id \ made : i[1] = <<q.block, k>>}
     IN  /\ new # {}
         /\ made' = made \cup {AnyOf(new)}
         /\ row' = [row EXCEPT ![AnyOf(new)].unlocked = q.first /\ k = 1]
         /\ GoOn(w, IF q.todo = {k} THEN Idle ELSE [q EXCEPT !.todo = @ \ {k}])
  /\ UNCHANGED <<published, today, homework, sub, run, aborts>>

CreateProgress(w) ==
  /\ req[w].step = "create"
  /\ LET q == req[w]
         k == Min(q.todo)
         new == {i \in Id \ made : i[1] = <<q.block, k>>}
     IN  /\ new # {}
         /\ made' = made \cup {AnyOf(new)}
         /\ row' = [row EXCEPT ![AnyOf(new)].unlocked = q.first /\ k = 1]
         /\ GoOn(w, IF q.todo = {k} THEN Idle ELSE [q EXCEPT !.todo = @ \ {k}])
  /\ UNCHANGED <<published, today, homework, sub, run, aborts>>

-----------------------------------------------------------------------------
(***************************************************************************)
(* HomeworkProgressService.update: a queued homework was watched, also one *)
(* whose time has not come.                                                *)
(***************************************************************************)
HomeworkProgressUpdate(w, x) ==
  /\ MayStart(w)
  /\ x \in Queued
  /\ LET counts == reviews[x[1]]
     IN  IF counts = <<>>
         THEN GoOn(w, [step |-> "review", item |-> x, at |-> 0, count |-> 0])
         ELSE \E n \in DOMAIN counts :
                GoOn(w, [step |-> "review", item |-> x, at |-> n, count |-> counts[n]])
  /\ UNCHANGED <<published, progress, homework, sub, run, aborts>>

\* A row is created, or the count that was read is saved one higher.  Counts past
\* MaxReviews are not told apart.
SaveReview(w) ==
  /\ req[w].step = "review"
  /\ LET q == req[w]
         count == Min({q.count + 1, MaxReviews})
     IN  reviews' = [reviews EXCEPT ![q.item[1]] =
                       IF q.at = 0 THEN Append(@, count) ELSE [@ EXCEPT ![q.at] = count]]
  /\ GoOn(w, [step |-> "remove", item |-> req[w].item])
  /\ UNCHANGED <<published, progress, queue, sub, run, aborts>>

RemoveFromQueue(w) ==
  /\ req[w].step = "remove"
  /\ queue' = [queue EXCEPT ![req[w].item] = "none"]
  /\ GoOn(w, Idle)
  /\ UNCHANGED <<published, progress, reviews, sub, run, aborts>>

-----------------------------------------------------------------------------
(***************************************************************************)
(* The scheduler, fired every half hour or by a request.                   *)
(***************************************************************************)
Active == (\E i \in made : row[i].watched) \/ (\E h \in Lesson : reviews[h] # <<>>)

\* findByDate: null is before every date; endedAt is a date column, and whether the
\* comparison finds a past one depends on how it was read.
Over(s) == CASE s.ends = "none" -> {TRUE} [] s.ends = "past" -> BOOLEAN [] OTHER -> {FALSE}

ProcessHomeworkQueue(r) ==
  /\ run[r] = Idle
  /\ Overlap \/ \A v \in Runner : run[v] = Idle
  /\ Active
  /\ \E over \in Over(sub) :
       run' = [run EXCEPT ![r] = IF over THEN [step |-> "expire", sub |-> sub]
                                 ELSE [step |-> "plan", paid |-> sub.paid, active |-> sub.active]]
  /\ UNCHANGED <<published, progress, homework, sub, req, aborts>>

\* The row is saved as it was read, but inactive.
SaveExpired(r) ==
  /\ run[r].step = "expire"
  /\ sub' = [run[r].sub EXCEPT !.active = FALSE]
  /\ run' = [run EXCEPT ![r] = [step |-> "plan", paid |-> run[r].sub.paid, active |-> FALSE]]
  /\ UNCHANGED <<published, progress, homework, req, aborts>>

SlowMode(r) ==
  IF run[r].paid THEN ~run[r].active
  ELSE Cardinality({i \in made : row[i].watched}) >= FreeLessons - 1

\* Mutant: homeworks that are queued are queued again.
RepeatedRecommended ==
  {h \in Lesson : \E n \in DOMAIN reviews[h] : reviews[h][n] < MaxReviews}

\* Mutant: the last review is not asked for.
ShortRecommended ==
  {h \in Lesson \ QueuedHomeworks : \E n \in DOMAIN reviews[h] : reviews[h][n] + 1 < MaxReviews}

Recommended ==
  {h \in Lesson \ QueuedHomeworks : \E n \in DOMAIN reviews[h] : reviews[h][n] < MaxReviews}

ScheduleHomeworkForUser(r) ==
  /\ run[r].step = "plan"
  /\ IF \/ SlowMode(r) /\ Queued # ReadyItems
        \/ Cardinality(Queued) >= QueueCap
        \/ Recommended = {}
     THEN run' = [run EXCEPT ![r] = Idle]
     ELSE \E h \in Recommended : run' = [run EXCEPT ![r] = [step |-> "insert", homework |-> h]]
  /\ UNCHANGED <<published, progress, homework, sub, req, aborts>>

Insert(r) ==
  /\ run[r].step = "insert"
  /\ AddToQueue(run[r].homework, "later")
  /\ run' = [run EXCEPT ![r] = Idle]
  /\ UNCHANGED <<published, progress, reviews, sub, req, aborts>>

-----------------------------------------------------------------------------
(***************************************************************************)
(* Time, the admins, the payments, and crashes.                            *)
(***************************************************************************)
\* scheduledAt of an item has come.
Ripen(x) ==
  /\ queue[x] = "later"
  /\ queue' = [queue EXCEPT ![x] = "ready"]
  /\ UNCHANGED <<published, progress, reviews, sub, req, run, aborts>>

NextDay(s) == [s EXCEPT !.warned = 0]
Aged(h) == IF "sub" \in DOMAIN h THEN [h EXCEPT !.sub = NextDay(@)] ELSE h

Midnight ==
  /\ today' = {}
  /\ sub' = NextDay(sub)
  /\ req' = [w \in Worker |-> Aged(req[w])]
  /\ run' = [r \in Runner |-> Aged(run[r])]
  /\ UNCHANGED <<published, made, row, homework, aborts>>

\* endedAt has come.
EndSubscription ==
  /\ sub.ends = "future"
  /\ sub' = [sub EXCEPT !.ends = "past"]
  /\ UNCHANGED <<published, progress, homework, req, run, aborts>>

\* An admin adds the next lesson of a block, and its homework.
Publish(b) ==
  /\ published[b] < LessonsOf[b]
  /\ published' = [published EXCEPT ![b] = @ + 1]
  /\ UNCHANGED <<progress, homework, sub, req, run, aborts>>

\* performTransaction: the row is read and saved at once, with nothing between.
Pay ==
  /\ sub' = [sub EXCEPT !.paid = TRUE, !.active = TRUE, !.ends = "future"]
  /\ UNCHANGED <<published, progress, homework, req, run, aborts>>

AbortRequest(w) ==
  /\ req[w] # Idle
  /\ aborts < MaxAborts
  /\ GoOn(w, Idle)
  /\ aborts' = aborts + 1
  /\ UNCHANGED <<published, progress, homework, sub, run>>

AbortRun(r) ==
  /\ run[r] # Idle
  /\ aborts < MaxAborts
  /\ run' = [run EXCEPT ![r] = Idle]
  /\ aborts' = aborts + 1
  /\ UNCHANGED <<published, progress, homework, sub, req>>

Handle(w) ==
  \/ SaveWatched(w) \/ ScheduleHomeworkForLesson(w) \/ Enqueue(w)
  \/ FindNextLesson(w) \/ SaveUnlocked(w)
  \/ SaveWarning(w) \/ CheckBlock(w)
  \/ GenerateLessonProgress(w) \/ CreateProgress(w)
  \/ SaveReview(w) \/ RemoveFromQueue(w)
RunOn(r) == SaveExpired(r) \/ ScheduleHomeworkForUser(r) \/ Insert(r)
Watch == \E w \in Worker, i \in Id : LessonProgressUpdate(w, i)
Open(b) == \E w \in Worker : GetVideos(w, b)
Review == \E w \in Worker, x \in Id : HomeworkProgressUpdate(w, x)
Time == Midnight \/ EndSubscription \/ \E x \in Id : Ripen(x)
Schedule == \E r \in Runner : ProcessHomeworkQueue(r)

Next ==
  \/ \E b \in Block : Open(b) \/ Publish(b)
  \/ Watch
  \/ Review
  \/ \E w \in Worker : Handle(w) \/ AbortRequest(w)
  \/ Schedule
  \/ \E r \in Runner : RunOn(r) \/ AbortRun(r)
  \/ Time
  \/ Pay

Spec == Init /\ [][Next]_vars

\* Awaited calls are answered, the cron job fires, time passes; and the student keeps
\* opening the blocks, watching the lessons and reviewing the homeworks shown.
FairSpec ==
  /\ Spec
  /\ \A w \in Worker : WF_vars(Handle(w))
  /\ \A r \in Runner : WF_vars(RunOn(r))
  /\ WF_vars(Schedule)
  /\ WF_vars(Midnight)
  /\ WF_vars(\E x \in Id : Ripen(x))
  /\ \A b \in Block : SF_vars(Open(b))
  /\ SF_vars(Watch /\ UNCHANGED aborts)
  /\ SF_vars(Review)

-----------------------------------------------------------------------------
(***************************************************************************)
(* Properties.                                                             *)
(***************************************************************************)
\* Type invariant: variables have their types, the requests in flight name rows and
\* items that exist, and days are counted of watched rows only.
TypeOK ==
  /\ published \in [Block -> Nat] /\ \A b \in Block : published[b] \in 1..LessonsOf[b]
  /\ made \subseteq Id
  /\ row \in [Id -> Mark]
  /\ today \subseteq {i \in made : row[i].watched}
  /\ queue \in [Id -> ItemState]
  /\ reviews \in [Lesson -> Seq(1..MaxReviews)]
  /\ sub \in Sub
  /\ req \in [Worker -> Request]
  /\ \A w \in Worker : "id" \in DOMAIN req[w] => req[w].id \in made
  /\ run \in [Runner -> Run]
  /\ aborts \in 0..MaxAborts

\* However visits, watched lessons, the queue and the published lessons interleave, a
\* lesson is unlocked only if the one before it was watched.
UnlockedInOrder ==
  \A i \in made : (row[i].unlocked /\ LessonOf(i) > 1) => Watched(<<i[1][1], LessonOf(i) - 1>>)

\* A block whose progress rows were created, all of them or half, begins with an
\* unlocked lesson: no crash between two rows leaves a block that cannot be entered.
BlockStartsOpen ==
  \A b \in Block : RowsOf(b) # {} => \E i \in RowsOfLesson(<<b, 1>>) : row[i].unlocked

\* Between the student's requests and the scheduler, a homework is queued once.
OneItemPerHomework == \A x, y \in Queued : x[1] = y[1] => x = y

\* Homework is asked for, at once or again, only after its lesson was watched.
HomeworkOnlyOfWatched ==
  \A h \in Lesson : (h \in QueuedHomeworks \/ reviews[h] # <<>>) => Watched(h)

\* A student who stays subscribed watches every lesson in the end, whatever requests
\* and runs are abandoned: no order of full queues, daily limits, lessons without a
\* homework and late lessons leaves a lesson locked for good.
CourseFinishes ==
  <>[]Subscribed(sub) => <>[](\A l \in Lesson : l[2] <= published[l[1]] => Watched(l))

\* A homework that was reviewed once is queued again until it is done, also for a
\* student in the slow mode, and whatever runs are abandoned.
HomeworkRepeated ==
  []<>(\A h \in Lesson :
         reviews[h] # <<>> => \E n \in DOMAIN reviews[h] : reviews[h][n] = MaxReviews)

\* A paid subscription is active until it is over.
ActivationKept ==
  [][(Subscribed(sub) /\ sub.ends = "future") => (sub'.active \/ sub'.ends = "past")]_vars
=============================================================================
