# Verification of the tomu backend

The repository is the NestJS backend of an online language school. Students buy courses
through the Payme gateway, watch the lessons of a course block by block, repeat homework
that a scheduler hands out, talk to an AI tutor about what they have watched, are put into
study groups and are taught live lectures that teachers claim in a Telegram group. Data is in
Postgres, written through TypeORM.

Three facts about the code shape every model here.

* **Hardly anything runs in a database transaction.** A handler is a sequence of awaited
  calls. Between two of them any other request, cron job or Telegram callback may run, an
  exception may end the handler, and a restart of the process loses it.
* **`repository.save(entity)` writes what differs.** TypeORM selects the row again, outside
  the transaction of its UPDATE, compares it with the entity in memory and writes every column
  that differs. An entity that was read before another handler's write therefore puts old values
  back, and two saves that overlap can leave the status of one entity with the teacher of the
  other. Lists that were loaded with the entity are written back too. `Lectures` and `Groups`,
  whose rows have several columns with several writers, model a save as these two steps: the
  select, which settles the columns to be written, and the update. In the other modules a save
  is one step that writes the copy. That is exact where one column of the row is
  modelled (the links of `Classroom`, the states of `Payments`, the progress row of `AIChat`);
  `Learning`, `Devices`, `Content` and the subscription in `AIChat` leave out the rows in which
  columns of two overlapping saves mix.
* **The locks there are** are the row lock of a claim (`telegram-bot.service.ts`) and those
  of the AI spending limit. A claim holds its lock from the read to the commit and is one
  step; the locks of the limit are modelled one by one, since they cover only rows that exist.

All source paths below are under `src/src/modules`.

## Inventory

| component | state | operations | what is hard | what makes it correct |
|---|---|---|---|---|
| Payments (`transactions`, `orders`) | `transactions.state`, `orders.status`, `live_chats.status`, `user_courses`, two payment histories | create, perform, cancel, expiry after 12 minutes, create order | gateway retries and overlaps; a handler stops between its nine writes | nothing is delivered without a payment of that order; a payment delivers once; a canceled transaction stays canceled; the records of a payment agree |
| Study groups (`group`) | `groups`, `users.group_id` | add a paid student, start full groups (cron at midnight, or an admin) | joins overlapping joins and starts; counts kept next to the members | one filling group per course, no more students than seats, a full group starts three days later, with its lecture |
| Lectures (`lecture`, `telegram-bot`) | `lectures`, `event_processing_tracker` | start and complete (cron), remind (cron), cancel, set link, announce, claim (Telegram), schedule the next one (event) | cron, requests and callbacks on one row; stale saves; lost events | one teacher per lecture, one reminder, no topic skipped, the course goes on |
| Lecture calendar (`lecture/schedule-calculator.service.ts`) | none | date and hour of the next lecture | Sundays, the Friday prayer, rotation of twelve slots | never on a Sunday nor in the prayer, at least a week later |
| Telegram chat membership (`telegram-bot`) | `group_telegram_members`, `users.telegramGroupLink`, the offset of the polling | track joins and leaves, remove all after a lecture, rotate the invite link | members that join during the removal, calls that fail, restarts | everybody who was tracked leaves and can come back; the saved link works |
| Lessons, homework, subscriptions (`lesson-progress`, `homework-progress`, `user-courses`) | `lesson_progress`, `homework_queue`, `homework_progress`, `user_courses` | open a block, watch a lesson, review a homework, half-hourly scheduler, expiry of a subscription | requests against the scheduler and against payments; rows created one by one; unlocking that depends on four limits | lessons open in order, homework is queued once and only for watched lessons, a diligent student finishes, a paid subscription stays active |
| AI tutor (`ai`) | `ai_chat_sessions`, `ai_chat_messages`, `user_course_progress`, a cache of answers | session, voice message (seven calls to Whisper, Chroma, GPT and TTS), progress from a watched lesson | answers shared between students, calls that fail and are retried, transactions that set the progress back | no answer is made of a lesson beyond the order the student has reached; every question is answered or refused |
| AI spending limit (`ai/services/limit-check.service.ts`) | `ai_usage_costs` | check, lock, sum and record a cost, reset by a payment | row locks do not cover rows to come | the month's cost stays within the limit |
| User devices (`user-device`, `auth`) | `user_devices`, `users.maxDevices` | register at login, refresh, update, remove, clean-up jobs | limit checked before the insert; reactivation; lists read before | a new device only when there is room; forgotten devices are deactivated |
| Course content (`block`, `lesson`, `homework`, `grammar`, `alphabet`) | content rows, statistics of a block, `temp_video.mp4` | admin forms, uploads to Vimeo | minutes of upload between read and save; lists written back; one file for all uploads | a block's statistics are those of its lessons, no lesson loses its block, each item has its own video |
| Quiz (`quiz`) | `quizzes`, `quiz_questions`, `quiz_attempts` | create, replace questions, submit | replacement in two steps | one quiz per lesson, score within 0..100 |
| Login, codes, request limits (`auth`) | cache entries, refresh token hash | login, send and verify a code, count requests | read-then-write of counters | the code sent last is accepted, once |
| Live chat booking, accounts, tariffs, feedback, notifications, media, analytics, shared code | single rows, external services | forms, pushes, uploads, reports | I/O | no state of their own that the parts above depend on |

How they interact:

* `performTransaction` writes `user_courses` (read by lessons, homework and the AI guard),
  calls `addStudentToGroup` and resets the AI limit;
* `startGroupsIfReady` calls the lecture service for the first lecture of a group;
* saving a lecture emits `lecture.created` (announcement); completing one emits
  `lecture.completed` (next lecture from the calendar, removal of the students from the chat,
  new invite link, which the teacher's next claim copies);
* watching a lesson calls the homework service and saves the AI tutor's progress row; the
  homework scheduler calls `UserCoursesService.findByDate`, which writes `user_courses`:
  payments, block warnings and the AI guard write the same rows;
* a login saves the user and registers the device.

`PROJECT.json` lists the hazards found in reading, each at its line, with the properties
that cover it or the reason why none does.

## Modules

| module | models | proofs | instances |
|---|---|---|---|
| `Payments` | `transactions.service.ts`, `orders.service.ts` | `PaymentsProofs` | `MCPayments` |
| `PaymentContract` | abstract: what a payment promises | - | - |
| `PaymentsContract` | the refinement mapping from `Payments` to it | `PaymentsProofs` | `MCPayments` |
| `Groups` | `group.service.ts`, `group-cron.service.ts` | `GroupsProofs` | `MCGroups` |
| `GroupContract` | abstract: what a study group promises | - | - |
| `GroupsContract` | the refinement mapping from `Groups` to it | `GroupsProofs` | `MCGroups` |
| `Lectures` | `lecture` services, `telegram-bot.service.ts`, both listeners | `LecturesProofs` | `MCLectures` |
| `LectureContract` | abstract: what a lecture promises | - | - |
| `LecturesContract` | the refinement mapping from `Lectures` to it | `LecturesProofs` | `MCLectures` |
| `Learning` | `lesson-progress`, `homework-progress`, `user-courses` services | `LearningProofs` | `MCLearning` |
| `Devices` | `user-device` services and repositories, login of `auth.service.ts` | `DevicesProofs` | itself |
| `AIChat` | `ai` services: session, pipeline, cache, progress, limit | `AIChatProofs` | itself |
| `Calendar` | `schedule-calculator.service.ts`, `scheduleNextLecture` | `ClassroomProofs` | `Classroom` |
| `Classroom` | the Telegram chat: polling, removal, invite link; dates from `Calendar` | `ClassroomProofs` | itself |
| `Content` | `block`, `lesson`, `homework`, `grammar`, `alphabet` services, `vimeo.service.ts` | `ContentProofs` | `MCContent` |

Conventions. A handler in flight is a record: the step it takes next and
what it has read. One action is the code between two awaited writes; adjacent reads with no
write of the handler between them are one step (other handlers may still write before the
handler's next write, which is where a stale read hurts). Calls that only answer an error, or an
answer stored earlier, change nothing and are no steps. `Abort...` ends a handler where it stands:
an exception or a restart. Definitions commented "A plausible bug" are mutants, which
the properties are shown to catch.
Constants named `Max...` are bounds of the model; `Overlap` says whether the environment
starts a handler on an object that another handler is still working on.

### Payments

`order`, `tx`, `chat`, `enrolments`, the two histories and `joins` are the tables;
`expired` is the 12 minute clock of a transaction. `req[w].step` names the next awaited
write: `filter` and `insert` of `createTransaction`, `pay` to `orderPaid` of
`performTransaction`, `cancelTx` to `cancelClose` of `cancelTransaction`, and the two steps of an
expiry in either. `payments` records which request wrote PAID; each delivery carries the
number of its request, so that it can be matched with its payment. `insert` is a `save`: it
overwrites the row of a transaction that was created meanwhile. `CancelTariff` deletes a
`user_tariffs` row, or is given none and throws before the order is closed. Users, tariffs
and prices are constants.

`PaymentContract` is what the gateway and a customer may rely on, without handlers:
a transaction is created, paid and canceled, goods come only while a transaction of their order
is paid, and the status of an order says what one of its transactions says, PAID only
after the goods. `PaymentsContract` maps the tables of `Payments` to it: the states of rows,
the orders with an entry in a history (delivered), the order's status. Every write of a
handler is then a step of the contract or a stutter (`ImplementsContract`).

### Groups

`row[g]` is a row of `groups`, with `waited` the slots of time since `fillAt`. A day has three
slots: midnight, later before 15:00, and after 15:00. An add searches
(`FindAvailableGroup`), creates if need be, saves the student (`Join`), reads the row with
its count (`ReadCount`) and saves it (`SelectCount`, `SaveCount`: only the columns the select found
different). A job reads the due groups with their members, then for each asks for a lecture and
saves the group (`SelectActive`, `SaveActive`), members included: the update takes out who joined
since the read and takes back who left. A course without topics gives a group no
lecture, and the group becomes ACTIVE all the same; `untitled` records it. The cron job fires once a day. Time passes (`Tick`)
only while no handler is in flight: a handler takes seconds, a slot hours.

`GroupContract` has no handlers: one group of a course fills at a time, closes when its last seat is
counted, and starts for good once it is `prepared`: it has a lecture, or its course was found
without topics; students enter while it fills. `GroupsContract` maps the rows,
the lectures there are and the group of each student to it.

### Lectures

`row[l]` are the lectures of one group; `phase[l]` is the clock relative to them. `notice`
is the `lecture.created` listener: send, find, save the message id (select and update), track.
`req` are cron jobs and admin requests, which also save by a select and an update
(`SelectLecture`, `SaveLecture`, `SaveCompleted`); a reminder job sends its notifications first
(`SendReminder`) and saves `reminderSent` afterwards, unless it is abandoned in between.
`completed` and `inserting` are the listener that schedules the next
lecture. `HandleClaimLecture` is one step, because it holds the row's lock.
`claimants` and `reminded` are histories. The teachers' Telegram group is taken to be
configured; without one a lecture is neither announced nor claimed (`telegram-bot.service.ts:137`).

`LectureContract` has no handlers: a lecture is scheduled, has the first teacher who claims
it and keeps him, starts, and is completed or canceled; its students are reminded while the
teacher is known, until it is noted that they were, and never after. `LecturesContract` maps
statuses, teachers, `reminderSent` and both histories to it.

### Learning

One student, one course. `row` and `made` are `lesson_progress` (an id is a lesson and a
copy number: nothing keeps a second row of a lesson away), `queue` is `homework_queue`, `reviews`
the `countWatched` of each `homework_progress` row of a homework, `sub` the student's row in
`user_courses` with `ends` for `endedAt` against the clock. `GetVideos`, `SaveWarning`,
`CheckBlock`, `GenerateLessonProgress`, `CreateProgress` are `getVideos`;
`LessonProgressUpdate` to `SaveUnlocked` are `update` of a lesson;
`HomeworkProgressUpdate`, `SaveReview`, `RemoveFromQueue` the review of a homework;
`ProcessHomeworkQueue` to `Insert` the scheduler. `Over` is nondeterministic for a past
`endedAt`: a `date` column may arrive as a string, which compares as false with a date.
`countQueueItems` answers 0 on an error; that is an outcome of `CountQueueItems`.

### Devices

One user. `user` holds the columns of `users` that matter (`deviceManagementEnabled` and
`maxDevices`; 0 stands for null, where the limit of the role counts), `device[d]` the row of
device id `d` with its primary key (`lastId` is the sequence), `req` the requests and `job` the
two clean-up jobs. `Login` and `SaveToken` are the login, whose save of the whole user may put an
old `maxDevices` back; `RegisterDevice` decides between return, refusal and creation, and
`CreateDevice` inserts later, after the count that allowed it. A row read and saved later
replaces the whole row; TypeORM inserts a row again that was removed between (`SavedDevice`,
with a new primary key). `CleanUp`, `FindDevice` and `DeactivateDevice` walk the list a job has
read, one device at a time. Dates are ages in months of thirty days.

### AIChat

One course. `enrolment`, `watched`, `reached`, `session`, `answer` and `cost` are the tables, `cache` the
process-wide answer cache, `visit` the transactions of watched lessons that have read the progress row
and commit or roll back later, lesson and row together. What the tutor stores and filters by is
the order of a lesson, which starts anew in every block, so a number stands for the lessons of that
order in all blocks: `watched[s]` is the highest order a student has watched in any block, a text
is the order it comes from, and an answer the highest order whose material it uses. Money is counted in calls. A voice message
passes `check` (limit), `hear` (Whisper, with the outcomes its validation leaves),
`context` (Chroma, filtered by what the student has reached), `ask` (cache, prepared
answers, follow-ups), `gpt` (with its retries), `speak`, `save`, and then the transaction of
its cost: `begin`, `lock` (`SELECT ... FOR UPDATE` of the rows that exist), `sum`,
`commit`. The services outside answer anything their contract allows: a text from the
material of a lesson they were given, or an error.

### Calendar and Classroom

`Calendar` is pure: `CalculateNext` and `NextLecture` are recursive functions on a day
and a slot. `Classroom` uses them when a lecture is completed. It models one Telegram
chat: who is `inside` or `banned`, the invite `links` that work, and the `updates` the bot has
not confirmed; on the bot's side the batch it works through (`poll`), an update between find and
save (`adding`), the rows of members (`member`), and the handlers of `lecture.completed` (`cleanup[h]`,
one for each lecture that was completed). A handler finds the teacher and the members, bans and
unbans one after another, deletes the rows, revokes the link, exports a new one and saves it;
nothing keeps the handlers of two lectures apart. Each call to Telegram may fail. `Restart` loses the handlers and
the offset of the polling, so that updates come again. `missed`, `stuck` and `broken`
record calls that failed and `overlapped` that two handlers ran at once, for the properties to speak of.

### Content

An operation of an administrator reads what it needs, uploads a video if it has one (`write`
and `send`: the file on disk, then the transfer), and then follows its `plan`: the awaited
calls that remain, each with the copy it will save. A block is loaded with its lessons and
homeworks, and saving it writes these lists back: what joined the block meanwhile loses its
block. `temp` is the one `temp_video.mp4` through which all uploads go. `drifted` records
the blocks whose statistics the code itself leaves wrong in known ways: a homework that
moves to another block, a deletion that is refused after the subtraction, an operation that stops half-way. Forms are
assumed to name blocks that exist and to give every field.

## What the runs check

Every passing run explores its whole state space. `Overlap = FALSE` does not stop handlers
of different objects from interleaving.

| run | instance | shows |
|---|---|---|
| `payments_orderly` | three transactions, two of them on one order, two handlers, 4 requests, 1 abort; no overlap on one transaction; fairness | goods only for a paid order (`DeliveredOnlyWhenPaid`); records agree when nothing is at work (`RecordsAgree`); the handlers implement the abstract payment (`ImplementsContract`); `CancelIsFinal`; `EveryPaymentDelivered` |
| `payments_twice` | two transactions, overlapping requests | **violation** of `PerformedOnce`: two performs both read PENDING, both deliver |
| `groups_orderly` | 3 students, 2 courses, groups of 2, one job, one start request, 1 abort; adds to a course one at a time and not during a start; fairness | `OneFillingGroup`, `SeatsWithinMax`, `JoinSticks`, `RepeatsOnlyAfterAbort`; no group is ACTIVE without a lecture unless its course was found without topics (`ActiveHasLecture`); the handlers implement the abstract group (`ImplementsGroupContract`); `FullGroupStarts` |
| `lectures_orderly` | 2 lectures, 2 teachers, 2 handlers, not two on one lecture, 1 abort; fairness | `HasTeacher`, `OrderUnique`, `ClaimKept`; one reminder, and one more for a handler that died before its save (`RemindedOnce`); the handlers implement the abstract lecture (`ImplementsLectureContract`); `CompletionContinues`, `EveryLectureAnnounced` |
| `lectures_overlap` | 2 rows of a course of 3 topics, every overlap, lectures generated again, all due from the beginning | `NoTopicSkipped`, `ChainContinues` |
| `learning_orderly` | blocks of 2 and 1 lessons, one request and one scheduler run at a time, 1 abort; fairness | `TypeOK`, `UnlockedInOrder`, `BlockStartsOpen`, `OneItemPerHomework`, `HomeworkOnlyOfWatched`, `CourseFinishes`, `HomeworkRepeated` |
| `learning_payment` | one block of two lessons | **violation** of `ActivationKept`: the scheduler's save takes a subscription back that was just paid |
| `devices_jobs` | 2 devices, limits 0 and 2, limit of the role 1, one request at a time against both jobs, 4 requests, 2 months, 1 abort; fairness | a device that is added never brings the active ones over `maxDevices` (`NewDeviceWithinLimit`); a device nobody used for two months does not stay active (`ForgottenIsDeactivated`) |
| `aichat_tutor` | a beginner and a student who watches lessons, two at once, with one cache; lessons of 2 orders, 1 retry, 2 sessions, 2 answers; fairness | no stored answer uses a lesson beyond the order its student has watched in some block (`NeverAheadOfStudent`); a question that passed the limit is answered and stored (`QuestionAnswered`) |
| `aichat_spending` | 1 student, two requests at once, limit of 4 calls with an estimate of 2, a month that ends, a payment that resets, 1 abort | once a month has a record that every later transaction found and locked, what is recorded stays within the limit (`SerialisedWithinLimit`) |
| `classroom` | 2 students, 1 group, starting on a Sunday or a Friday, two weeks late, 2 lectures whose clean-ups may overlap, one failed call or restart; fairness | `StudentsCanReturn`, `SavedLinkWorks`, `TrackedStudentLeaves`, `FollowsTheCalendar` |
| `content_orderly` | 2 blocks, 2 lessons, a homework, a grammar and an alphabet page; every consistent catalogue to begin with; two administrators on disjoint blocks, uploads one at a time, 1 abort | statistics are those of the lessons except in a block that drifted (`StatsMatch`); `LessonKeepsBlock`; an item has the video that was uploaded for it (`OwnVideo`) |

### Bounds, and why they are enough

* Payments: two handlers are enough for every pair of stale reads. Four requests allow
  create, perform, retry and cancel of one transaction, or two of each of two; one abort
  separates "stopped here" from "stopped and retried". Two transactions on one order
  allow a rejected second transaction and one after a cancellation.
* Groups: `maxStudents = 2` makes a group fill, overflow and be replaced with three students;
  time is counted up to a day past the third, after which nothing changes.
* Lectures: two rows give a row to complete and one to schedule; a third topic keeps the
  end of the course apart from the end of the bound. The clock of a new lecture starts at `FirstPhase`. In
  `lectures_overlap` it is past `endTime` from the start, which loses no step: every guard on
  the clock asks for a lower bound only, so that whatever could be done earlier can be done then.
* Learning: the limits 5, 20, 30, 40 and 10 of the code are 1, 2, 2, 1 and 2 (the first is 2 in
  `learning_payment`), so that each is
  reached with three lessons. `MaxCopies = 2` is one more than the number of rows the
  properties allow. Review counts past `MaxReviews` are not told apart.
* Devices: two devices reach the limit of the role (1) and an admin's (2), and pass it when the admin lowers it. Two
  months bring both kinds of expiry, 30 days and 60.
* AIChat: two orders tell "reached" from "ahead"; a beginner next to a student who watches
  (`Learner`) makes the cache matter, and two transactions at once (`MaxVisits`) set the progress back.
  Three answers and a limit of four calls let two requests pass the check
  and only one fit.
* Classroom: two students make one of them join while the other is removed. One update that
  is not confirmed yet is enough to be lost or repeated by a restart; three links are the first and one per
  completed lecture, and two lectures give two clean-ups at once. A failed call and a restart share the
  bound `MaxFaults`: one of either breaks each promise that excepts it. Days 0 and 5, completed two
  weeks late, meet Sundays and the prayer; `CalculateNext` repeats itself until its date is
  ahead, so that a completion in time is the beginning of a late one. The proofs do not depend on the bounds.
* Content: two blocks and two lessons give every move of a lesson and every clash of orders;
  two durations tell an old video from a new one; two operations are a writer and one in its way.
* Symmetry is used in `lectures_overlap` (handlers) and `content_orderly` (blocks,
  lessons, handlers), which check no liveness.

Deadlock is checked in the Learning runs, where visits are always possible; the others have
bounded requests and may stop, so it is switched off.

### Fairness

* `Handle` of Payments, Devices and AIChat, `AddStudent`, `StartGroup`, `Notify`,
  `ScheduleNextLecture`, `RunOn`, and `CleanUp` of Classroom: weak
  fairness, per handler. An awaited call is answered and the event loop resumes the handler.
* `Cron`, `Schedule`, `Tick`, `Midnight`, the ripening of a queue item, `CleanUp` and
  `RunJob` of Devices per job: weak fairness. Jobs fire and time passes. Months
  themselves are bounded and not fair: `ForgottenIsDeactivated` speaks of a device that is due
  already.
* `GetUpdates`, `HandleUpdate`, `SaveMember` of Classroom: the polling loop runs. `FindRecords`,
  `RemoveRecords` of AIChat: a reset that has begun ends.
* Lessons need a diligent student: strong fairness of opening each block, watching and
  reviewing. Strong, since each is enabled only when no other request of the student is in
  flight. This is a hypothesis about the student, not about the code; `CourseFinishes` says what the code owes
  such a student. Watching is fair only for attempts whose queue count succeeds.
* No fairness is assumed of admins, payments, claims, failures, restarts and students who join or leave
  a chat. Content checks no liveness and assumes none.

## What is proved

For every value of the constants that satisfies the module's named assumption, with TLAPS.
Each safety theorem follows from an inductive invariant; the proofs have one step per action.

* **Payments** (`PaymentsProofs`). `TypeCorrect`. `DeliveredCorrect` and `PaidOrderCorrect` from
  `ReceiptInv`: a handler in the delivering half holds a receipt of its own order
  (`PaidBeforeDelivery`); without that, a delivery step could not be matched with a payment.
  `CancelCorrect`: no handler without an older read gets past the guards of a canceled
  transaction. For a gateway that does not overlap
  requests on a transaction, `LifecycleCorrect` and `PerformedOnceCorrect` from `OrderlyInv`: at
  most one handler per transaction (`OneHandler`), whose read is the row (`FreshRead`), and a payment marks its row
  for good (`PaymentMark`). `RecordsAgreeCorrect` from `RecordsFollow`: as long as nothing was abandoned, the
  step of a transaction's only handler says how far its records are apart, so that they agree
  where there is no handler.
* **The refinements.** Without overlap every behaviour of a detailed module is one of its contract under
  the mapping: each write of a handler is mapped to one action of the contract or to a stutter.
  `ContractCorrect` of `PaymentsProofs`, from `ContractInv`, which adds to `OrderlyInv` that each handler
  agrees with its transaction; `LectureContractCorrect` of `LecturesProofs`, from the invariants of
  its safety theorems, with the step of a reminder job tied to the status it read;
  `GroupContractCorrect` of `GroupsProofs`, from all the invariants named below but the counting ones.
* **Lectures** (`LecturesProofs`). `TypeCorrect`. `NoTopicSkippedCorrect`, whatever overlaps, from
  `OrdersKept`: an insert follows an order that is there, and no save writes an order. Without
  overlap: `ClaimKeptCorrect`, `HasTeacherCorrect`,
  `RemindedOnceCorrect` and `ClaimedMovesForwardCorrect` from `Alone` (at most one handler holds an entity of a
  lecture, which differs from the row only in what it is about to write) and `Told` (a lecture
  was reminded of no more often than handlers were abandoned, or once more, and then the
  reminder is saved or a handler is about to save it); with one scheduling handler, `OrderUniqueCorrect` from `Numbered`.
  `ChainContinuesCorrect`, whatever overlaps, from `Chained`: a completed lecture has a follower or an
  insert under way. The lecture it speaks of, one of the highest order, exists because
  the orders of finitely many rows have a greatest one.
* **Groups** (`GroupsProofs`). `TypeCorrect`. `ActiveHasLectureCorrect`, whatever overlaps, from
  `Taught`: whoever is about to write ACTIVE comes after the generation of the lecture, or has read it from the row. When
  adds to a course and starts do not overlap (`Alone`): `JoinSticksCorrect` from `Fresh` (what a
  job holds is the row and the members, so that its save writes the status and moves nobody),
  `OneFillingGroupCorrect`, `ClosedWhenFullCorrect`, `ActiveIsFinalCorrect` and
  `StartsAfterThreeDaysCorrect` from `Filling` (an add works on the filling group of its course,
  its entity is the row with the student counted, and every row is closed exactly when it is full), `RepeatsOnlyAfterAbortCorrect` from
  `Counted`, and `SeatsWithinMaxCorrect` from `Seated`: the members of a group are those it counts,
  one whose add is about to count it, and those whose add was abandoned in between.
* **Learning** (`LearningProofs`). `TypeCorrect`. `BlockStartsOpenCorrect`, whatever overlaps, from
  `OpenInv`: a request that creates rows has the first row of the block still before it or finds it
  unlocked (`Opens`), and copies that are saved are of unlocked rows (`SavesUnlocked`), so that no
  stale save locks a lesson again. `UnlockedInOrderCorrect`, for requests one at a time, from `OrderInv`:
  what a request holds is the row (`Knows`), a lesson has one row, and only of published lessons, so
  that the lesson after the last watched one is well defined (`NextReached`).
  `OneItemPerHomeworkCorrect` and `HomeworkOnlyOfWatchedCorrect`, with scheduler runs one at a time
  as well, from `QueueInv`: the homework of a lesson watched just now was never asked for
  (`Asks`), which keeps the request and the scheduler, which queues reviewed homeworks only
  (`Inserts`), off each other's homework.
* **Devices** (`DevicesProofs`). `TypeCorrect`. `NewDeviceCorrect`, for finitely many devices and one
  request at a time, from `RoomInv`: a request that was allowed to create a device
  still has room when it does, because meanwhile the jobs can only deactivate.
* **AI tutor** (`AIChatProofs`). `NeverAheadCorrect` from `ReachedInv`: what a request holds,
  what the cache holds for an order, and what is stored is never beyond the order the student has
  watched (`Requested`, `Filed`, `Stored`), as the progress row lags behind it, and what a
  transaction is going to save as well, once its own lesson is counted (`Lagging`).
  `SerialisedWithinLimitCorrect` from `SpendInv`: transactions in flight store different messages and
  hold different rows (`Serial`), so that a sum that was taken covers every record that locked
  a row the request holds, and no such chain passes the limit (`Limited`). `TypeCorrect`, from
  what each step of the pipeline may have counted (`Counts`): a message costs three units at most.
* **Chat** (`ClassroomProofs`). `StudentsCanReturnCorrect` and `SavedLinkWorksCorrect` from
  `ChatInv`: whoever is banned is a student that some clean-up is at or is
  recorded as stuck (`BannedOnce`), and links are accounted for (`OneLink`): the last clean-up to revoke
  leaves none but its own (`LastLink`), and with one at a time the link is the one that is
  saved or about to be (`Alone`). `TypeCorrect`.
  `FollowsTheCalendarCorrect`, however late a lecture is completed: `CalculateNext` calls itself at
  most once, and the first date it accepts is never one of a Sunday or of the hours of the prayer.
* **Content** (`ContentProofs`). `TypeCorrect`. `OwnVideoCorrect` and `LessonKeepsBlockCorrect`, for
  administrators on disjoint blocks and one upload at a time, from `Inv`: operations hold different
  blocks and items and the file on the disk is that of the one upload (`Apart`), every row lies in a block that
  is there and has its own video (`Shelved`), and the calls still to come keep to what their
  operation holds (`Prepared`). `StatsMatchCorrect` from `Accounted`: the statistics of a block
  that did not drift are off by exactly what the calls still to come will add or subtract.

Two properties are sums over a set and one follows a recursive function, all three written with the
folds and recursive functions the proofs can expand. A sum is shown to be the number of
elements of a set of bricks (`Weight`), by a minimal counterexample among the finite subsets, and a
recursive function to exist before it is used; from there no induction is needed.

## What is only model-checked

Liveness (`EveryPaymentDelivered`, `FullGroupStarts`, `CompletionContinues`,
`EveryLectureAnnounced`, `CourseFinishes`, `HomeworkRepeated`, `ForgottenIsDeactivated`,
`QuestionAnswered`, `TrackedStudentLeaves`), which is out of the prover's reach, as ENABLED and fairness are.
Every other property of a passing run is stated by a theorem.

The hypotheses of the theorems are those of the runs: `Overlap = FALSE`, one worker (`OneAtATime`) and finitely
many devices in Devices, no second generation of lectures (`Regenerate = FALSE`) in
`OrderUniqueCorrect`. They are there because the property does not hold without (see below),
and only where it does not: `BlockStartsOpen`, `NoTopicSkipped`, `ChainContinues`,
`DeliveredOnlyWhenPaid`, `CancelIsFinal`, `ActiveHasLecture` and the theorems about the AI tutor
and the chat have none.

The other way round, these are proved and belong to no run: `TypeOK` of every module but Learning (where a run
checks it too), `ClosedWhenFull`, `StartsAfterThreeDays`, `ActiveIsFinal`, `ClaimedMovesForward`,
`PaidOrderHasReceipt`, `OrderlyLifecycle`, and `PerformedOnce` without overlap (with overlap
it is the violation of `payments_twice`).

## What does not hold, and where to see it

The two runs with a violation are findings, quoted with the comment they contradict in
`PROJECT.json`. These were met too; they have no run of their own.

With a constant or two of a passing run changed:

* `Overlap = TRUE` in `groups_orderly.cfg`: two adds read one count, so that a group has more
  members than seats, or waits for ever with its seats taken; a job's save puts a student who joined
  meanwhile out of the group; the count of one save stays with the status of another, so that a
  full group goes on filling, and the status an add read is written over a start.
* `Overlap = TRUE` in `lectures_orderly.cfg`: the save of the message id
  (`telegram-bot.service.ts:166`) undoes a claim, and a second teacher claims the lecture; the
  save of a start and that of the message id mix, and a lecture is ONGOING or ASSIGNED without a
  teacher (`HasTeacher`); a reminder job and a start both save; the order of a lecture is used twice; students are
  reminded twice.
* `Overlap = TRUE` and two workers in `learning_orderly.cfg`: a save of an unlocked lesson undoes that it was
  watched; two first visits create a block twice, and a lesson published later is not noticed;
  with two runners the scheduler queues a homework twice.
* `Overlap = TRUE` in `content_orderly.cfg`: a lesson created during the upload of another one
  loses its block; statistics go back to an older value; two uploads store one video under both lessons.
* In `classroom.cfg` itself, of clean-ups that overlap: both read the first link, export a
  second and a third, and save them in the other order, so that the saved link is revoked.
  `SavedLinkWorks` promises the saved link only where none overlapped.
* Two workers in `devices_jobs.cfg`: two logins both count room for one device and both create.

Read from the code, without a model of their own or as an assumption of one:

* The warning of `getVideos` (`lesson-progress.service.ts:275`) undoes a payment in the same
  way as `findByDate`; so does `ai/guards/payment.guard.ts:144`.
* A failure of `performTransaction` after PAID was written is never repaired: the retry is
  answered from the stored row. An order with a paid transaction is closed when another
  transaction of it is canceled or expires; `PaymentContract` allows it.
* A second purchase moves a student to another group without giving the seat back
  (`group.service.ts:113`); the first lecture of a group may be in the past when it is generated
  (`group.repository.ts:59`); an exception for one group ends the job's loop, each night again
  (`group.service.ts:153`).
* The reminder query has no lower bound on `startTime` (`lecture.repository.ts:100`); a claim
  keeps a link that was revoked meanwhile.
* A restart between the review count and the removal of the queue item counts the review again
  (`homework-progress.service.ts:573`); a student with progress and without a user course
  stops the scheduler for all (`user-courses.service.ts:87`).
* A device that was deactivated is active again at its next login, over the limit
  (`device.service.ts:69`). `NewDeviceWithinLimit` is about new ones only.
* The order of a lesson starts anew in every block, and the search and the progress row know
  nothing else (`chroma-search.service.ts:144`, `user-course-progress.service.ts:184`): a student who
  watched lesson 5 of a later block is told of lessons 1 to 5 of every block, watched or not.
  `NeverAheadOfStudent` is about the order, as the code is. Two first lessons watched at once
  insert two progress rows, of which later reads take any; the model keeps one.
* The first messages of a month find no row to lock, and together may pass the limit; the
  rollback in `limit-check.service.ts:262` runs twice and hides the exception that says so; an
  answer given during an outage is cached (`gpt-step.service.ts:276`); sessions are found, then
  created (`ai-chat.service.ts:91`); the call to Whisper has no timeout (`whisper.service.ts:135`); speech
  files are named by the millisecond (`tts.service.ts`).
* A lesson or homework that moves to another block and keeps its order is not compared with the orders there.
  A lesson form that names a block that is not there saves the lesson without one.
* A submitted quiz that repeats an answer counts it twice, so that the score may leave 0..100; an
  update of a quiz deletes the questions before it saves the new ones.
* The request limits of `auth/guards` read a counter and set it again, so that requests at
  one time are counted once; a phone number is looked for and then inserted.

## What is not modelled

* Of the modelled parts: reading endpoints; PATCH and delete of single rows by admins;
  the lists of finished lessons and blocks in the summary a watched lesson writes for the AI
  chat; amounts, prices and the texts of messages; several students in Learning; the limit of seven modules in the strict search
  of the AI tutor (`ai-chat.service.ts:588`), and
  several groups in Lectures, whose rows are disjoint; `getStatement` and
  `checkTransaction`, which read. Of the AI tutor: sessions without a course and the text
  messages no endpoint sends. Of the content: courses, their images and videos, titles.
* Quizzes: forms of administrators, and attempts that one request adds up; no other part
  reads them.
* Login codes and request limits: entries of a cache with a time to live, apart from everything else;
  what a login does to users and devices is in `Devices`.
* Live chat booking (one insert; its payment is in `Payments`), notifications, accounts and
  tariffs, media, analytics and shared code: single-row forms and I/O.

The map covers a minor part of the lines of the repository. The larger part holds no
state logic: DTOs, entities, controllers that call one service method, prompts, seeds,
migrations, configuration and text utilities; and the services whose methods read for reports.

## Plan

Done: all the modules above with their runs and proofs. Next, in this order:

1. `Enrolment`, which composes `Payments` with `Groups`: a paid student has
   a seat unless a handler was abandoned.
2. The parts that are not modelled yet and keep state of their own: submissions of quizzes, login
   codes and request limits, bookings.
3. Theorems about `Overlap = TRUE`: which of the promises of the contracts survive it.
