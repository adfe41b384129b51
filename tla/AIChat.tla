------------------------------- MODULE AIChat -------------------------------
(* The AI tutor of one course (ai/): sessions, the pipeline that answers a      *)
(* voice message, the cache of answers the students share, the lesson each      *)
(* student has reached, and the monthly spending limit.                         *)
(*                                                                              *)
(* A lesson is known to the tutor by its order, which starts anew in every      *)
(* block: a number here stands for the lessons with that order in all blocks.   *)
(* What a student says is the number of the lesson whose dialogue it comes      *)
(* from, 0 when it comes from none; an answer is the highest number whose       *)
(* material it uses. Money is counted in calls: one unit for a transcription,   *)
(* one for a GPT completion, one for the speech of the answer. A request is a   *)
(* record that holds what its pipeline has collected; it moves by one awaited   *)
(* call at a time.                                                              *)
EXTENDS Integers, Sequences, FiniteSets, FiniteSetsExt

CONSTANTS
    Student,
    Worker,        \* requests in flight at once
    MaxLesson,     \* lessons of a block
    CacheEnabled,  \* RESPONSE_CACHE_ENABLED
    Limit,         \* the monthly limit
    Estimate,      \* estimateCost of a voice message
    MaxRetries,    \* retries of a GPT call
    MaxSessions,   \* bound of the model: sessions
    MaxMessages,   \* bound of the model: answers, stored or in the making
    Learner,       \* bound of the model: the students who watch lessons
    MaxVisits,     \* bound of the model: lessons watched at once
    MaxMonths, MaxPayments, MaxAborts  \* bounds of the model

ASSUME AIChatAssumption ==
    /\ CacheEnabled \in BOOLEAN
    /\ Learner \subseteq Student
    /\ {MaxLesson, Limit, Estimate, MaxRetries, MaxSessions, MaxMessages,
        MaxVisits, MaxMonths, MaxPayments, MaxAborts} \subseteq Nat

VARIABLES
    enrolment,  \* user_courses: the subscription of each student
    watched,    \* lesson_progress: the highest order among the lessons the student has watched
    reached,    \* user_course_progress.currentLessonOrder, 0 without a row
    visit,      \* transactions of updateLessonProgress between the read and the commit
    session,    \* ai_chat_sessions: the student of each session
    answer,     \* ai_chat_messages: the answers, in the order of their ids
    cost,       \* ai_usage_costs
    cache,      \* memoryCache
    req,        \* requests in flight
    reset,      \* resetAILimitForCourse of a payment
    month, payments, aborts

vars == <<enrolment, watched, reached, visit, session, answer, cost, cache, req, reset,
          month, payments, aborts>>

Lessons == 1..MaxLesson
Said == 0..MaxLesson
Idle == [step |-> "idle"]
Visit == [student : Student, lesson : Lessons, order : Lessons]
NoReset == [step |-> "none"]
UserCourse == [active : BOOLEAN, ended : BOOLEAN]

Pipeline == {"check", "hear", "context", "ask", "gpt", "speak", "save"}
Tracking == {"begin", "lock", "sum", "commit"}
Messages == 1..MaxMessages
Cost == [message : Messages, student : Student, month : 0..MaxMonths, amount : 0..3,
         after : SUBSET Messages]  \* after: what its transaction held; no column of the table
VoiceInput ==
    [step : Pipeline \cup Tracking, session : 1..MaxSessions, said : Said,
     reached : Said, context : SUBSET Lessons, yesNo : BOOLEAN, lesson : Said,
     tries : 0..MaxRetries, usage : 0..3, message : 0..MaxMessages,
     month : 0..MaxMonths, locked : SUBSET Messages, total : Nat]

TypeOK ==
    /\ enrolment \in [Student -> UserCourse]
    /\ watched \in [Student -> Said] /\ reached \in [Student -> Said]
    /\ visit \subseteq Visit
    /\ session \in Seq(Student) /\ Len(session) <= MaxSessions
    /\ answer \in Seq([session : 1..MaxSessions, lesson : Said]) /\ Len(answer) <= MaxMessages
    /\ cost \subseteq Cost
    /\ cache \subseteq [said : Said, reached : Said, lesson : Said]
    /\ req \in [Worker -> {Idle} \cup [step : {"create"}, student : Student]
                   \cup [step : {"expire"}, student : Student, row : UserCourse] \cup VoiceInput]
    /\ reset \in {NoReset} \cup [step : {"find"}, student : Student]
                   \cup [step : {"remove"}, ids : SUBSET Messages]
    /\ month \in 0..MaxMonths /\ payments \in 0..MaxPayments
    /\ aborts \in 0..MaxAborts

Init ==
    /\ enrolment = [s \in Student |-> [active |-> TRUE, ended |-> FALSE]]
    /\ watched = [s \in Student |-> 0]
    /\ reached = [s \in Student |-> 0]
    /\ visit = {} /\ session = <<>> /\ answer = <<>> /\ cost = {} /\ cache = {}
    /\ req = [w \in Worker |-> Idle]
    /\ reset = NoReset
    /\ month = 0 /\ payments = 0 /\ aborts = 0

-----------------------------------------------------------------------------
Busy(steps) == {w \in Worker : req[w].step \in steps}
World == <<enrolment, watched, reached, visit, reset, month, payments>>

\* Request w goes on as r.
Continue(w, r) == req' = [req EXCEPT ![w] = r]
At(w, step) == req[w].step = step
Owner(w) == session[req[w].session]

Records(s, m) == {c \in cost : c.student = s /\ c.month = m}
\* sumMonthlyByUserAndCourse
MonthTotal(s, m) == MapThenSumSet(LAMBDA c : c.amount, Records(s, m))
Ids(records) == {c.message : c \in records}

-----------------------------------------------------------------------------
(* Sessions. *)

\* PaymentGuard in front of a handler whose first record is `first': a subscription that is
\* over is made inactive by a save of the row that was read.
Guarded(w, s, first) ==
    /\ enrolment[s].active
    /\ Continue(w, IF enrolment[s].ended
                   THEN [step |-> "expire", student |-> s, row |-> enrolment[s]]
                   ELSE first)

\* POST /ai/session: refused over the limit; a session that is open is used again.
CreateSession(w, s) ==
    /\ req[w] = Idle
    /\ MonthTotal(s, month) <= Limit
    /\ \A i \in DOMAIN session : session[i] # s
    /\ Len(session) + Cardinality(Busy({"create"})) < MaxSessions
    /\ Guarded(w, s, [step |-> "create", student |-> s])
    /\ UNCHANGED <<World, session, answer, cost, cache, aborts>>

InsertSession(w) ==
    /\ At(w, "create")
    /\ session' = Append(session, req[w].student)
    /\ Continue(w, Idle)
    /\ UNCHANGED <<World, answer, cost, cache, aborts>>

-----------------------------------------------------------------------------
(* A voice message. *)

\* Request w has its answer: of what the pipeline collected only the usage is used again.
Reply(w, step, lesson, usage) ==
    [req[w] EXCEPT !.step = step, !.lesson = lesson, !.usage = @ + usage, !.said = 0,
                   !.reached = 0, !.context = {}, !.tries = 0, !.yesNo = FALSE]

\* POST /ai/voice, and the session check of sendVoiceMessage.
SendVoice(w, i, said) ==
    /\ req[w] = Idle
    /\ i \in DOMAIN session
    /\ Len(answer) + Cardinality(Busy(Pipeline)) < MaxMessages
    /\ Guarded(w, session[i],
         [step |-> "check", session |-> i, said |-> said, reached |-> 0, context |-> {},
          yesNo |-> FALSE, lesson |-> 0, tries |-> 0, usage |-> 0, message |-> 0,
          month |-> 0, locked |-> {}, total |-> 0])
    /\ UNCHANGED <<World, session, answer, cost, cache, aborts>>

ExpireSubscription(w) ==
    /\ At(w, "expire")
    /\ enrolment' = [enrolment EXCEPT ![req[w].student] = [req[w].row EXCEPT !.active = FALSE]]
    /\ Continue(w, Idle)
    /\ UNCHANGED <<watched, reached, visit, reset, month, payments,
                   session, answer, cost, cache, aborts>>

\* The limit is checked with an estimate; a check that throws is passed over.
CheckLimit(w) ==
    /\ At(w, "check")
    /\ \/ MonthTotal(Owner(w), month) + Estimate > Limit /\ Continue(w, Idle)
       \/ Continue(w, [req[w] EXCEPT !.step = "hear"])
    /\ UNCHANGED <<World, session, answer, cost, cache, aborts>>

\* speechToTextWithUsage: silence, noise, another language or a call that fails give no text
\* and cost nothing. (The upload limit is below the one it checks.)
SpeechToText == {[text |-> FALSE, usage |-> 0], [text |-> TRUE, usage |-> 1]}

\* ValidationStep: a text that is not Arabic is refused, and no text always is.
Validated(heard) == {heard.text, FALSE}

\* What is refused is answered by a prepared message.
Transcribe(w) ==
    /\ At(w, "hear")
    /\ \E heard \in SpeechToText : \E valid \in Validated(heard) :
         Continue(w, IF valid
                     THEN [req[w] EXCEPT !.step = "context", !.usage = heard.usage]
                     ELSE Reply(w, "save", 0, heard.usage))
    /\ UNCHANGED <<World, session, answer, cost, cache, aborts>>

\* searchContext of getChromaContext: only a student with progress is held to the orders that
\* were reached, in every block alike.
Visible(order) == {l \in Lessons : order > 0 => l <= order}

\* The search finds any part of what is visible, and nothing when it fails.
Search(order) == SUBSET Visible(order)

\* findPossibleFutureLessons: names and words of any lesson that was found may be mentioned.
MentionedAhead(found, order) == {l \in found : l > order}

\* A text that is close to a sentence of the context becomes that sentence.
Corrected(said, found) == {said} \cup found

\* ContextStep, and GPTStep up to its first call. Who only mentions lessons to come is
\* answered by a message about it.
BuildContext(w) ==
    /\ At(w, "context")
    /\ LET order == reached[Owner(w)]
       IN \E found \in Search(order) :
            \/ \E said \in Corrected(req[w].said, found) :
                 Continue(w, [req[w] EXCEPT !.step = "ask", !.said = said, !.reached = order,
                                            !.context = found])
            \/ /\ MentionedAhead(found, order) # {}
               /\ Continue(w, Reply(w, "save", 0, 0))
    /\ UNCHANGED <<World, session, answer, cost, cache, aborts>>

\* A plausible bug: answers are cached for every student alike.
LooseCached(w) == {e \in cache : e.said = req[w].said}

\* ResponseCacheService.get: the entries of the text at the lesson the student has reached.
Cached(w) == {e \in cache : e.said = req[w].said /\ e.reached = req[w].reached}

\* ResponseCacheService.set
Remember(w, lesson) ==
    cache' = IF CacheEnabled
             THEN (cache \ Cached(w)) \cup
                  {[said |-> req[w].said, reached |-> req[w].reached, lesson |-> lesson]}
             ELSE cache

\* filterContextByLessonOrder
FilteredContext(w) == {l \in req[w].context : l <= req[w].reached}

\* findPrecomputedResponse: phrases of a lesson that was reached.
Precomputed(w) == {req[w].said} \cap 1..req[w].reached

\* findMaterialResponse: a third of the words in common is enough for a match.
Matches(w) == req[w].context

\* generateFollowUp: a question from the lessons that were reached.
FollowUp(w) == FilteredContext(w)

\* buildResponse: the lessons an answer to a match uses, with and without a follow-up
\* question; none for a match in a lesson to come.
FromMaterial(w, match) ==
    {l \in {match} \cup FollowUp(w) : match <= l /\ l <= req[w].reached}

\* FallbackResponseService: a prepared answer has its audio, but for the end of a dialogue.
PreparedAnswer(w) == \E step \in {"save", "speak"} : Continue(w, Reply(w, step, 0, 0))

\* The first part of GPTStep.execute: a cached answer, a precomputed one, yes or no, an
\* answer from the material, a prepared answer, and otherwise GPT.
Ask(w) ==
    /\ At(w, "ask")
    /\ \/ \E e \in Cached(w) :
            /\ Continue(w, Reply(w, "speak", e.lesson, 0))
            /\ UNCHANGED cache
       \/ /\ Cached(w) = {}
          /\ \/ \E l \in Precomputed(w) :
                  /\ Continue(w, Reply(w, "speak", l, 0))
                  /\ Remember(w, l)
             \/ \E yesNo \in BOOLEAN :
                  /\ Continue(w, [req[w] EXCEPT !.step = "gpt", !.yesNo = yesNo])
                  /\ UNCHANGED cache
             \/ \E match \in Matches(w) :
                  \/ \E l \in FromMaterial(w, match) :
                       /\ Continue(w, Reply(w, "speak", l, 0))
                       /\ Remember(w, l)
                  \/ PreparedAnswer(w) /\ Remember(w, 0)
    /\ UNCHANGED <<World, session, answer, cost, aborts>>

\* The answer to anything but yes or no is cached, a failure's answer too.
AnswerWith(w, step, lesson, usage) ==
    /\ Continue(w, Reply(w, step, lesson, usage))
    /\ IF req[w].yesNo THEN UNCHANGED cache ELSE Remember(w, lesson)

\* A plausible bug: the count of the retries starts anew.
EndlessRetry(w) ==
    /\ Continue(w, [req[w] EXCEPT !.tries = (@ + 1) % (MaxRetries + 1)])
    /\ UNCHANGED cache

\* A call that is worth a retry is tried again.
Retry(w) ==
    /\ req[w].tries < MaxRetries
    /\ Continue(w, [req[w] EXCEPT !.tries = @ + 1])
    /\ UNCHANGED cache

\* generateWithUsage: a completion uses any part of the context it was given.
Completion(w) == {0} \cup FilteredContext(w)

\* generateGPTResponse. A completion that fails validation is dropped with its usage; a call
\* that fails for good is answered by a text made from the question.
CallOpenAI(w) ==
    /\ At(w, "gpt")
    /\ \/ \E l \in Completion(w) : AnswerWith(w, "speak", l, 1)
       \/ AnswerWith(w, "save", 0, 0)
       \/ AnswerWith(w, "speak", 0, 0)
       \/ Retry(w)
    /\ UNCHANGED <<World, session, answer, cost, aborts>>

\* textToSpeechWithUsage: speech that cannot be made is replaced by a placeholder.
Characters == {0, 1}

\* ResponseStep
TextToSpeech(w) ==
    /\ At(w, "speak")
    /\ \E characters \in Characters :
         Continue(w, [req[w] EXCEPT !.step = "save", !.usage = @ + characters])
    /\ UNCHANGED <<World, session, answer, cost, cache, aborts>>

SaveAnswer(w) ==
    /\ At(w, "save")
    /\ answer' = Append(answer, [session |-> req[w].session, lesson |-> req[w].lesson])
    /\ Continue(w, [req[w] EXCEPT !.step = "begin", !.message = Len(answer) + 1])
    /\ UNCHANGED <<World, session, cost, cache, aborts>>

-----------------------------------------------------------------------------
(* saveCostAndCheckLimit: one transaction, four statements. *)

\* The month is taken and the rows to lock are read; a row that another transaction holds
\* is waited for.
SelectForUpdate(w) ==
    /\ At(w, "begin")
    /\ Continue(w, [req[w] EXCEPT !.step = "lock", !.month = month,
                                  !.locked = Ids(Records(Owner(w), month))])
    /\ UNCHANGED <<World, session, answer, cost, cache, aborts>>

LockedBy(ws) == UNION {req[v].locked : v \in ws \cap Busy({"sum", "commit"})}

\* A plausible bug: the rows are read without a lock.
NoLock(w) ==
    /\ At(w, "lock")
    /\ Continue(w, [req[w] EXCEPT !.step = "sum"])
    /\ UNCHANGED <<World, session, answer, cost, cache, aborts>>

Lock(w) ==
    /\ At(w, "lock")
    /\ req[w].locked \cap LockedBy(Worker \ {w}) = {}
    /\ Continue(w, [req[w] EXCEPT !.step = "sum", !.locked = @ \cap Ids(cost)])
    /\ UNCHANGED <<World, session, answer, cost, cache, aborts>>

Sum(w) ==
    /\ At(w, "sum")
    /\ Continue(w, [req[w] EXCEPT !.step = "commit",
                                  !.total = MonthTotal(Owner(w), req[w].month)])
    /\ UNCHANGED <<World, session, answer, cost, cache, aborts>>

\* A message over the limit is rolled back; its answer stays, and no cost is recorded.
Commit(w) ==
    /\ At(w, "commit")
    /\ cost' = IF req[w].total + req[w].usage > Limit
               THEN cost
               ELSE cost \cup {[message |-> req[w].message, student |-> Owner(w),
                                month |-> req[w].month, amount |-> req[w].usage,
                                after |-> req[w].locked]}
    /\ Continue(w, Idle)
    /\ UNCHANGED <<World, session, answer, cache, aborts>>

-----------------------------------------------------------------------------
(* A payment renews the subscription and resets the limit. *)

Requests == <<session, answer, cache, req, aborts>>

Pay(s) ==
    /\ reset = NoReset
    /\ payments < MaxPayments
    /\ payments' = payments + 1
    /\ enrolment' = [enrolment EXCEPT ![s] = [active |-> TRUE, ended |-> FALSE]]
    /\ reset' = [step |-> "find", student |-> s]
    /\ UNCHANGED <<watched, reached, visit, cost, month, Requests>>

\* deleteByUserCourseAndMonth: getMany, then remove.
FindRecords ==
    /\ reset.step = "find"
    /\ reset' = [step |-> "remove", ids |-> Ids(Records(reset.student, month))]
    /\ UNCHANGED <<enrolment, watched, reached, visit, cost, month, payments, Requests>>

RemoveRecords ==
    /\ reset.step = "remove"
    /\ reset.ids \cap LockedBy(Worker) = {}
    /\ cost' = {c \in cost : c.message \notin reset.ids}
    /\ reset' = NoReset
    /\ UNCHANGED <<enrolment, watched, reached, visit, month, payments, Requests>>

-----------------------------------------------------------------------------
(* The progress the tutor reads. *)

Highest(a, b) == IF b > a THEN b ELSE a

\* A student watches a lesson, of whichever block: the transaction has read the progress row,
\* and the order it is going to save only grows. Which lessons are open is the concern of
\* module Learning.
WatchLesson(s, lesson) ==
    /\ Cardinality(visit) < MaxVisits
    /\ visit' = visit \cup {[student |-> s, lesson |-> lesson,
                             order |-> Highest(reached[s], lesson)]}
    /\ UNCHANGED <<enrolment, watched, reached, cost, reset, month, payments, Requests>>

\* The lesson and the progress row are committed together, or rolled back. The save leaves the
\* order alone if its own select finds it already there, before others raise it.
SaveProgress(v) ==
    /\ visit' = visit \ {v}
    /\ \/ /\ watched' = [watched EXCEPT ![v.student] = Highest(@, v.lesson)]
          /\ \/ reached' = [reached EXCEPT ![v.student] = v.order]
             \/ reached[v.student] >= v.order /\ UNCHANGED reached
       \/ UNCHANGED <<watched, reached>>
    /\ UNCHANGED <<enrolment, cost, reset, month, payments, Requests>>

-----------------------------------------------------------------------------
(* The environment. *)

\* An entry is too old, or the oldest of a full cache.
DropEntry ==
    /\ \E e \in cache : cache' = cache \ {e}
    /\ UNCHANGED <<World, session, answer, cost, req, aborts>>

Month ==
    /\ month < MaxMonths
    /\ month' = month + 1
    /\ \E over \in SUBSET Student :
         enrolment' = [s \in Student |-> [enrolment[s] EXCEPT !.ended = @ \/ s \in over]]
    /\ UNCHANGED <<watched, reached, visit, cost, reset, payments, Requests>>

\* The handler throws or the process of the request is gone; a transaction is rolled back.
AbortRequest(w) ==
    /\ req[w] # Idle
    /\ aborts < MaxAborts
    /\ aborts' = aborts + 1
    /\ Continue(w, Idle)
    /\ UNCHANGED <<World, session, answer, cost, cache>>

Handle(w) ==
    \/ InsertSession(w) \/ ExpireSubscription(w)
    \/ CheckLimit(w) \/ Transcribe(w) \/ BuildContext(w) \/ Ask(w) \/ CallOpenAI(w)
    \/ TextToSpeech(w) \/ SaveAnswer(w)
    \/ SelectForUpdate(w) \/ Lock(w) \/ Sum(w) \/ Commit(w)

Next ==
    \/ \E w \in Worker :
        \/ \E s \in Student : CreateSession(w, s)
        \/ \E i \in 1..MaxSessions, said \in Said : SendVoice(w, i, said)
        \/ Handle(w)
        \/ AbortRequest(w)
    \/ \E s \in Student : Pay(s)
    \/ \E s \in Learner, lesson \in Lessons : WatchLesson(s, lesson)
    \/ \E v \in visit : SaveProgress(v)
    \/ FindRecords \/ RemoveRecords
    \/ DropEntry
    \/ Month

Fairness ==
    /\ \A w \in Worker : WF_vars(Handle(w))
    /\ WF_vars(FindRecords) /\ WF_vars(RemoveRecords)

Spec == Init /\ [][Next]_vars /\ Fairness

-----------------------------------------------------------------------------
(* Properties. *)

\* No stored answer uses the material of a lesson beyond the order its student has reached in
\* some block, although the cache is shared by the students, the search of a beginner is not
\* restricted, and transactions that overlap set the progress row back.
\* (gpt-step.service.ts:87, the cache lookup.)
NeverAheadOfStudent ==
    \A i \in DOMAIN answer : answer[i].lesson <= watched[session[answer[i].session]]

\* A question that passed the limit check is answered and the answer stored, whatever the
\* services it calls do, unless a handler is abandoned. (voice-processing-pipeline.service.ts:147.)
QuestionAnswered ==
    \A w \in Worker : At(w, "hear") ~> (At(w, "begin") \/ aborts > 0)

\* Once a month has a record that every later transaction found and locked, overlapping
\* messages never record more than the limit. (limit-check.service.ts:157, FOR UPDATE.)
SerialisedWithinLimit ==
    \A s \in Student, m \in 0..MaxMonths :
        (\E first \in Records(s, m) :
            \A c \in Records(s, m) \ {first} : first.message \in c.after)
        => MonthTotal(s, m) <= Limit
=============================================================================
