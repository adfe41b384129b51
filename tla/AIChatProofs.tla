---------------------------- MODULE AIChatProofs ----------------------------
(***************************************************************************)
(* What holds of the AI tutor for any number of students, lessons,         *)
(* sessions and requests in flight: no answer is ahead of its student,     *)
(* transactions that find a row to lock stay within the limit, and a       *)
(* message costs three units at most.                                      *)
(***************************************************************************)
EXTENDS AIChat, FiniteSetTheorems, WellFoundedInduction, TLAPS

-----------------------------------------------------------------------------
(***************************************************************************)
(* The inductive invariant. A request that has looked up its student's     *)
(* progress holds an order the student has reached, and so does an answer  *)
(* on its way; an entry of the cache is not ahead of the order it is filed *)
(* under.                                                                  *)
(***************************************************************************)
\* The record of a voice message has all its fields.
Field ==
  {"step", "session", "said", "reached", "context", "yesNo", "lesson", "tries", "usage",
   "message", "month", "locked", "total"}
Whole(r) == r = [f \in Field |-> r[f]]

\* The student of session i has watched a lesson of order l or higher.
Behind(l, i) == l \in Said /\ l <= watched[session[i]]

\* What a request in flight may hold.
Good(r) ==
  \/ r = Idle
  \/ r.step = "create" /\ r.student \in Student
  \/ r.step = "expire"
  \/ /\ r.step \in Pipeline \cup Tracking
     /\ Whole(r)
     /\ r.session \in DOMAIN session
     /\ r.step \in {"ask", "gpt"} => Behind(r.reached, r.session) /\ r.context \subseteq Lessons
     /\ r.step \in {"speak", "save"} => Behind(r.lesson, r.session)

Requested ==
  /\ req = [w \in Worker |-> req[w]]
  /\ \A w \in Worker : Good(req[w])

\* The entries of the cache, by the order they are filed under.
Filed ==
  \A e \in cache : e.lesson \in Said /\ e.reached \in Said /\ e.lesson <= e.reached

\* The progress row is behind the lessons, and will be after a transaction on its way.
Lagging ==
  /\ watched \in [Student -> Said] /\ reached \in [Student -> Said]
  /\ visit \subseteq Visit
  /\ \A s \in Student : reached[s] <= watched[s]
  /\ \A v \in visit : v.order <= Highest(watched[v.student], v.lesson)

Stored ==
  /\ session \in Seq(Student)
  /\ answer \in Seq([session : Nat, lesson : Said])
  /\ \A i \in DOMAIN answer :
       answer[i].session \in DOMAIN session /\ Behind(answer[i].lesson, answer[i].session)

ReachedInv == Requested /\ Filed /\ Lagging /\ Stored

LEMMA ReachedInit == Init => ReachedInv
<1> SUFFICES ASSUME Init PROVE ReachedInv
  OBVIOUS
<1>1. Requested
  BY DEF Init, Requested, Good
<1>2. 0 \in Said
  BY AIChatAssumption DEF Said
<1>3. Lagging
  BY <1>2 DEF Init, Lagging, Said
<1>4. QED
  BY <1>1, <1>3 DEF Init, ReachedInv, Filed, Stored

-----------------------------------------------------------------------------
(***************************************************************************)
(* Requests.                                                               *)
(***************************************************************************)
\* Sessions are only added and lessons only watched, so that what is behind stays behind.
Grows ==
  /\ \A i \in DOMAIN session : i \in DOMAIN session' /\ session'[i] = session[i]
  /\ \A s \in Student : watched'[s] \in Said /\ watched[s] <= watched'[s]

LEMMA StillBehind ==
  ASSUME ReachedInv, Grows, NEW l, NEW i \in DOMAIN session, Behind(l, i)
  PROVE  Behind(l, i)'
<1>1. session[i] \in Student
  BY DEF ReachedInv, Stored
<1>2. watched[session[i]] \in Said
  BY <1>1 DEF ReachedInv, Lagging
<1>3. session'[i] = session[i] /\ watched'[session[i]] \in Said
      /\ watched[session[i]] <= watched'[session[i]]
  BY <1>1 DEF Grows
<1>4. QED
  BY <1>2, <1>3, AIChatAssumption DEF Behind, Said

LEMMA StillGood ==
  ASSUME ReachedInv, Grows, NEW r, Good(r)
  PROVE  Good(r)'
  BY StillBehind DEF Good, Grows

LEMMA Others ==
  ASSUME ReachedInv, Grows, req' = req
  PROVE  Requested'
  BY StillGood DEF ReachedInv, Requested

\* A request that goes on as a record it may hold leaves the others alone.
LEMMA GoesOn ==
  ASSUME ReachedInv, Grows, NEW w \in Worker, NEW r, Continue(w, r), Good(r)'
  PROVE  Requested'
<1>1. req' = [v \in Worker |-> IF v = w THEN r ELSE req[v]]
  BY DEF ReachedInv, Requested, Continue
<1>2. \A v \in Worker \ {w} : req'[v] = req[v] /\ Good(req[v])
  BY <1>1 DEF ReachedInv, Requested
<1>3. QED
  BY <1>1, <1>2, StillGood DEF Requested

\* Of what an action that changes no session and watches no lesson has to show.
LEMMA SameWorld ==
  ASSUME ReachedInv, session' = session, watched' = watched
  PROVE  Grows /\ \A r : Good(r) => Good(r)'
<1>1. Grows
  BY AIChatAssumption DEF Grows, ReachedInv, Lagging, Said
<1>2. QED
  BY <1>1, StillGood

\* The record of a voice message at a step.
LEMMA VoiceRecord ==
  ASSUME ReachedInv, NEW w \in Worker, req[w].step \in Pipeline \cup Tracking
  PROVE  /\ Whole(req[w]) /\ req[w].session \in DOMAIN session /\ Owner(w) \in Student
         /\ req[w].step \in {"ask", "gpt"} =>
              /\ Behind(req[w].reached, req[w].session) /\ req[w].reached \in Said
              /\ req[w].context \subseteq Lessons
         /\ req[w].step \in {"speak", "save"} => Behind(req[w].lesson, req[w].session)
<1>1. Good(req[w])
  BY DEF ReachedInv, Requested
<1>2. req[w] # Idle /\ req[w].step \notin {"create", "expire"}
  BY DEF Idle, Pipeline, Tracking
<1>3. /\ Whole(req[w]) /\ req[w].session \in DOMAIN session
      /\ req[w].step \in {"ask", "gpt"} =>
              Behind(req[w].reached, req[w].session) /\ req[w].context \subseteq Lessons
      /\ req[w].step \in {"speak", "save"} => Behind(req[w].lesson, req[w].session)
  BY <1>1, <1>2 DEF Good
<1>4. QED
  BY <1>3 DEF Owner, Behind, ReachedInv, Stored

\* An answer on its way that is behind its student.
LEMMA ReplyGood ==
  ASSUME ReachedInv, NEW w \in Worker, req[w].step \in Pipeline \cup Tracking,
         NEW step \in {"speak", "save"}, NEW lesson, Behind(lesson, req[w].session), NEW usage
  PROVE  Good(Reply(w, step, lesson, usage))
<1> DEFINE r == Reply(w, step, lesson, usage)
<1>1. Whole(req[w]) /\ req[w].session \in DOMAIN session
  BY VoiceRecord
<1> DEFINE now == req[w].usage + usage
<1>2. r = [req[w] EXCEPT !.step = step, !.lesson = lesson, !.usage = now, !.said = 0,
                         !.reached = 0, !.context = {}, !.tries = 0, !.yesNo = FALSE]
  BY Zenon DEF Reply
<1>3. Whole(r) /\ r.step = step /\ r.lesson = lesson /\ r.session = req[w].session
  <2> HIDE DEF now, r
  <2>1. QED
    BY <1>1, <1>2 DEF Whole, Field
<1>4. QED
  BY <1>1, <1>3 DEF Good, Pipeline

\* No lesson at all is behind everybody.
LEMMA NothingBehind ==
  ASSUME ReachedInv, NEW i \in DOMAIN session
  PROVE  Behind(0, i)
<1>1. watched[session[i]] \in Said
  BY DEF ReachedInv, Stored, Lagging
<1>2. QED
  BY <1>1, AIChatAssumption DEF Behind, Said

LEMMA IdleGood == Good(Idle)
  BY DEF Good

\* A step that neither holds an answer nor has looked up the progress holds nothing to be
\* ahead with.
LEMMA PlainGood ==
  ASSUME NEW r, Whole(r), r.session \in DOMAIN session,
         r.step \in (Pipeline \cup Tracking) \ {"ask", "gpt", "speak", "save"}
  PROVE  Good(r)
  BY DEF Good

\* What a step leaves alone that touches neither sessions nor lessons nor answers.
LEMMA Quiet ==
  ASSUME ReachedInv, UNCHANGED <<session, watched, reached, visit, answer>>
  PROVE  Lagging' /\ Stored'
<1>1. Lagging'
  BY DEF ReachedInv, Lagging
<1>2. Stored'
  BY DEF ReachedInv, Stored, Behind
<1>3. QED
  BY <1>1, <1>2

LEMMA Forgets ==
  ASSUME ReachedInv, cache' \subseteq cache
  PROVE  Filed'
  BY DEF ReachedInv, Filed

\* A step of a request that ends as a record it may hold.
LEMMA Moves ==
  ASSUME ReachedInv, NEW w \in Worker, NEW r, Continue(w, r), Good(r), Filed',
         UNCHANGED <<session, watched, reached, visit, answer>>
  PROVE  ReachedInv'
<1>1. Grows /\ Good(r)'
  BY SameWorld
<1>2. Requested'
  BY <1>1, GoesOn
<1>3. QED
  BY <1>2, Quiet DEF ReachedInv

-----------------------------------------------------------------------------
(***************************************************************************)
(* Sessions, and the beginning of a message.                               *)
(***************************************************************************)
LEMMA GuardedGood ==
  ASSUME NEW w, NEW s \in Student, NEW first, Guarded(w, s, first), Good(first)
  PROVE  \E r : Continue(w, r) /\ Good(r)
<1> DEFINE refused == [step |-> "expire", student |-> s, row |-> enrolment[s]]
<1>1. Good(refused)
  BY DEF Good
<1>2. Continue(w, refused) \/ Continue(w, first)
  BY DEF Guarded
<1>3. QED
  BY <1>1, <1>2

LEMMA ReachedCreateSession ==
  ASSUME ReachedInv, NEW w \in Worker, NEW s \in Student, CreateSession(w, s)
  PROVE  ReachedInv'
<1>1. Good([step |-> "create", student |-> s])
  BY DEF Good
<1>2. PICK r : Continue(w, r) /\ Good(r)
  BY <1>1, GuardedGood DEF CreateSession
<1>3. QED
  BY <1>2, Moves, Forgets DEF CreateSession, World

LEMMA ReachedInsertSession ==
  ASSUME ReachedInv, NEW w \in Worker, InsertSession(w)
  PROVE  ReachedInv'
<1>1. req[w].student \in Student
  <2>1. Good(req[w]) /\ req[w].step = "create"
    BY DEF ReachedInv, Requested, InsertSession, At
  <2>2. QED
    BY <2>1 DEF Good, Idle, Pipeline, Tracking
<1>2. session \in Seq(Student) /\ session' = Append(session, req[w].student)
  BY DEF ReachedInv, Stored, InsertSession
<1>3. /\ session' \in Seq(Student)
      /\ \A i \in DOMAIN session : i \in DOMAIN session' /\ session'[i] = session[i]
  BY <1>1, <1>2
<1>4. UNCHANGED <<watched, reached, visit, answer, cache>> /\ Continue(w, Idle)
  BY DEF InsertSession, World
<1>5. Grows
  BY <1>3, <1>4, AIChatAssumption DEF Grows, ReachedInv, Lagging, Said
<1>6. Requested'
  BY <1>4, <1>5, GoesOn, IdleGood DEF Good
<1>7. Lagging' /\ Filed'
  BY <1>4 DEF ReachedInv, Lagging, Filed
<1>8. Stored'
  BY <1>3, <1>4, <1>5, StillBehind DEF ReachedInv, Stored
<1>9. QED
  BY <1>6, <1>7, <1>8 DEF ReachedInv

LEMMA ReachedSendVoice ==
  ASSUME ReachedInv, NEW w \in Worker, NEW i, NEW said, SendVoice(w, i, said)
  PROVE  ReachedInv'
<1> DEFINE first ==
         [step |-> "check", session |-> i, said |-> said, reached |-> 0, context |-> {},
          yesNo |-> FALSE, lesson |-> 0, tries |-> 0, usage |-> 0, message |-> 0,
          month |-> 0, locked |-> {}, total |-> 0]
<1>1. i \in DOMAIN session /\ session[i] \in Student
  BY DEF SendVoice, ReachedInv, Stored
<1>2. Whole(first) /\ first.session = i /\ first.step = "check"
  BY DEF Whole, Field
<1>3. Guarded(w, session[i], first)
  BY DEF SendVoice
<1> HIDE DEF first
<1>4. Good(first)
  BY <1>1, <1>2, PlainGood DEF Pipeline
<1>5. PICK r : Continue(w, r) /\ Good(r)
  BY <1>1, <1>3, <1>4, GuardedGood
<1>6. QED
  BY <1>5, Moves, Forgets DEF SendVoice, World

LEMMA ReachedEnds ==
  ASSUME ReachedInv, NEW w \in Worker, Continue(w, Idle), cache' \subseteq cache,
         UNCHANGED <<session, watched, reached, visit, answer>>
  PROVE  ReachedInv'
  BY Moves, Forgets, IdleGood

LEMMA ReachedExpire ==
  ASSUME ReachedInv, NEW w \in Worker, ExpireSubscription(w)
  PROVE  ReachedInv'
  BY ReachedEnds DEF ExpireSubscription

-----------------------------------------------------------------------------
(***************************************************************************)
(* The pipeline.                                                           *)
(***************************************************************************)
LEMMA ReachedCheckLimit ==
  ASSUME ReachedInv, NEW w \in Worker, CheckLimit(w)
  PROVE  ReachedInv'
<1> DEFINE r == [req[w] EXCEPT !.step = "hear"]
<1>1. Good(r)
  <2>1. Whole(req[w]) /\ req[w].session \in DOMAIN session
    BY VoiceRecord DEF CheckLimit, At, Pipeline
  <2>2. Whole(r) /\ r.step = "hear" /\ r.session = req[w].session
    BY <2>1 DEF Whole, Field
  <2> HIDE DEF r
  <2>3. QED
    BY <2>1, <2>2, PlainGood DEF Pipeline
<1>2. UNCHANGED <<session, watched, reached, visit, answer, cache>>
  BY DEF CheckLimit, World
<1>3. Continue(w, Idle) \/ Continue(w, r)
  BY DEF CheckLimit
<1>4. QED
  BY <1>1, <1>2, <1>3, ReachedEnds, Moves, Forgets

LEMMA ReachedTranscribe ==
  ASSUME ReachedInv, NEW w \in Worker, Transcribe(w)
  PROVE  ReachedInv'
<1>1. PICK heard \in SpeechToText :
        \/ Continue(w, [req[w] EXCEPT !.step = "context", !.usage = heard.usage])
        \/ Continue(w, Reply(w, "save", 0, heard.usage))
  BY DEF Transcribe
<1> DEFINE r == [req[w] EXCEPT !.step = "context", !.usage = heard.usage]
<1>2. req[w].step \in Pipeline \cup Tracking /\ Whole(req[w])
      /\ req[w].session \in DOMAIN session
  BY VoiceRecord DEF Transcribe, At, Pipeline
<1>3. Good(r)
  <2>1. Whole(r) /\ r.step = "context" /\ r.session = req[w].session
    BY <1>2 DEF Whole, Field
  <2> HIDE DEF r
  <2>2. QED
    BY <1>2, <2>1, PlainGood DEF Pipeline
<1>4. Good(Reply(w, "save", 0, heard.usage))
  BY <1>2, ReplyGood, NothingBehind
<1>5. UNCHANGED <<session, watched, reached, visit, answer, cache>>
  BY DEF Transcribe, World
<1>6. QED
  BY <1>1, <1>3, <1>4, <1>5, Moves, Forgets

\* The progress that is looked up is behind the lessons.
LEMMA ReachedBuildContext ==
  ASSUME ReachedInv, NEW w \in Worker, BuildContext(w)
  PROVE  ReachedInv'
<1> DEFINE order == reached[Owner(w)]
           r(said, found) == [req[w] EXCEPT !.step = "ask", !.said = said, !.reached = order,
                                            !.context = found]
<1>1. PICK found \in Search(order) :
        \/ \E said \in Corrected(req[w].said, found) : Continue(w, r(said, found))
        \/ Continue(w, Reply(w, "save", 0, 0))
  BY DEF BuildContext
<1>2. req[w].step \in Pipeline \cup Tracking /\ Whole(req[w])
      /\ req[w].session \in DOMAIN session /\ Owner(w) \in Student
  BY VoiceRecord DEF BuildContext, At, Pipeline
<1>3. found \subseteq Lessons
  BY DEF Search, Visible
<1>4. Behind(order, req[w].session)
  BY <1>2 DEF ReachedInv, Lagging, Behind, Owner
<1>5. \A said : Good(r(said, found))
  <2> TAKE said
  <2>1. /\ Whole(r(said, found)) /\ r(said, found).step = "ask"
        /\ r(said, found).session = req[w].session
        /\ r(said, found).reached = order /\ r(said, found).context = found
    <3> HIDE DEF order
    <3>1. QED
      BY <1>2 DEF Whole, Field
  <2> HIDE DEF r, order
  <2>2. QED
    BY <1>2, <1>3, <1>4, <2>1 DEF Good, Pipeline
<1>6. Good(Reply(w, "save", 0, 0))
  BY <1>2, ReplyGood, NothingBehind
<1>7. UNCHANGED <<session, watched, reached, visit, answer, cache>>
  BY DEF BuildContext, World
<1> HIDE DEF r, order
<1>8. QED
  BY <1>1, <1>5, <1>6, <1>7, Moves, Forgets

\* An answer that is filed is not ahead of the lesson its question was asked at.
LEMMA RememberFiled ==
  ASSUME ReachedInv, NEW w \in Worker, req[w].step \in {"ask", "gpt"},
         NEW lesson \in Said, lesson <= req[w].reached, Remember(w, lesson)
  PROVE  Filed'
<1> DEFINE entry == [said |-> req[w].said, reached |-> req[w].reached, lesson |-> lesson]
<1>1. req[w].reached \in Said
  BY VoiceRecord DEF Pipeline
<1>2. cache' \subseteq cache \cup {entry}
  BY DEF Remember
<1>3. QED
  BY <1>1, <1>2 DEF ReachedInv, Filed

\* An answer no higher than the lesson its request has looked up is behind its student.
LEMMA BehindReached ==
  ASSUME ReachedInv, NEW w \in Worker, req[w].step \in {"ask", "gpt"},
         NEW lesson \in Said, lesson <= req[w].reached
  PROVE  Behind(lesson, req[w].session)
<1>1. /\ Behind(req[w].reached, req[w].session) /\ req[w].reached \in Said
      /\ req[w].session \in DOMAIN session
  BY VoiceRecord DEF Pipeline
<1>2. watched[session[req[w].session]] \in Said
  BY <1>1 DEF ReachedInv, Stored, Lagging
<1>3. QED
  BY <1>1, <1>2, AIChatAssumption DEF Behind, Said

LEMMA NoLesson ==
  ASSUME ReachedInv, NEW w \in Worker, req[w].step \in {"ask", "gpt"}
  PROVE  0 \in Said /\ 0 <= req[w].reached
<1>1. req[w].reached \in Said
  BY VoiceRecord DEF Pipeline
<1>2. QED
  BY <1>1, AIChatAssumption DEF Said

\* A request that waits for GPT holds what it held before.
LEMMA WaitGood ==
  ASSUME ReachedInv, NEW w \in Worker, req[w].step \in {"ask", "gpt"}, NEW r,
         r = [req[w] EXCEPT !.step = "gpt", !.tries = r.tries, !.yesNo = r.yesNo]
  PROVE  Good(r)
<1>1. /\ Whole(req[w]) /\ req[w].session \in DOMAIN session
      /\ Behind(req[w].reached, req[w].session) /\ req[w].context \subseteq Lessons
  BY VoiceRecord DEF Pipeline
<1>2. /\ Whole(r) /\ r.step = "gpt" /\ r.session = req[w].session
      /\ r.reached = req[w].reached /\ r.context = req[w].context
  BY <1>1 DEF Whole, Field
<1>3. QED
  BY <1>1, <1>2 DEF Good, Pipeline

\* An answer from a lesson that was reached, with the cache as it may be then.
LEMMA Answered ==
  ASSUME ReachedInv, NEW w \in Worker, req[w].step \in {"ask", "gpt"},
         NEW step \in {"speak", "save"}, NEW lesson \in Said, lesson <= req[w].reached,
         NEW usage, Continue(w, Reply(w, step, lesson, usage)), Filed',
         UNCHANGED <<session, watched, reached, visit, answer>>
  PROVE  ReachedInv'
<1>1. Good(Reply(w, step, lesson, usage))
  BY BehindReached, ReplyGood DEF Pipeline
<1>2. QED
  BY <1>1, Moves

LEMMA ReachedAsk ==
  ASSUME ReachedInv, NEW w \in Worker, Ask(w)
  PROVE  ReachedInv'
<1>1. req[w].step \in {"ask", "gpt"} /\ UNCHANGED <<session, watched, reached, visit, answer>>
  BY DEF Ask, At, World
<1>2. req[w].reached \in Said /\ req[w].context \subseteq Lessons
  BY <1>1, VoiceRecord DEF Pipeline
<1>3. CASE \E e \in Cached(w) : Continue(w, Reply(w, "speak", e.lesson, 0)) /\ UNCHANGED cache
  <2>1. PICK e \in Cached(w) :
          Continue(w, Reply(w, "speak", e.lesson, 0)) /\ UNCHANGED cache
    BY <1>3
  <2>2. e.lesson \in Said /\ e.lesson <= req[w].reached
    BY <2>1 DEF Cached, ReachedInv, Filed
  <2>3. Filed'
    BY <2>1, Forgets
  <2>4. QED
    BY <1>1, <2>1, <2>2, <2>3, Answered
<1>4. CASE \E l \in Precomputed(w) : Continue(w, Reply(w, "speak", l, 0)) /\ Remember(w, l)
  <2>1. PICK l \in Precomputed(w) : Continue(w, Reply(w, "speak", l, 0)) /\ Remember(w, l)
    BY <1>4
  <2>2. l \in Said /\ l <= req[w].reached
    BY <1>2, <2>1, AIChatAssumption DEF Precomputed, Said
  <2>3. QED
    BY <1>1, <2>1, <2>2, RememberFiled, Answered
<1>5. CASE \E yesNo \in BOOLEAN :
             /\ Continue(w, [req[w] EXCEPT !.step = "gpt", !.yesNo = yesNo])
             /\ UNCHANGED cache
  <2>1. PICK yesNo \in BOOLEAN :
             /\ Continue(w, [req[w] EXCEPT !.step = "gpt", !.yesNo = yesNo])
             /\ UNCHANGED cache
    BY <1>5
  <2> DEFINE r == [req[w] EXCEPT !.step = "gpt", !.yesNo = yesNo]
  <2>2. Whole(req[w])
    BY <1>1, VoiceRecord DEF Pipeline
  <2>3. r = [req[w] EXCEPT !.step = "gpt", !.tries = r.tries, !.yesNo = r.yesNo]
    BY <2>2 DEF Whole, Field
  <2> HIDE DEF r
  <2>4. Good(r)
    BY <1>1, <2>3, WaitGood
  <2> USE DEF r
  <2>5. Continue(w, r) /\ Filed'
    BY <2>1, Forgets
  <2> HIDE DEF r
  <2>6. QED
    BY <1>1, <2>4, <2>5, Moves
<1>6. CASE \E match \in Matches(w) : \E l \in FromMaterial(w, match) :
             Continue(w, Reply(w, "speak", l, 0)) /\ Remember(w, l)
  <2>1. PICK match \in Matches(w) : \E l \in FromMaterial(w, match) :
             Continue(w, Reply(w, "speak", l, 0)) /\ Remember(w, l)
    BY <1>6
  <2>2. PICK l \in FromMaterial(w, match) :
             Continue(w, Reply(w, "speak", l, 0)) /\ Remember(w, l)
    BY <2>1
  <2>3. l \in Said /\ l <= req[w].reached
    BY <1>2, <2>1, <2>2, AIChatAssumption
       DEF FromMaterial, Matches, FollowUp, FilteredContext, Said, Lessons
  <2>4. QED
    BY <1>1, <2>2, <2>3, RememberFiled, Answered
<1>7. CASE PreparedAnswer(w) /\ Remember(w, 0)
  <2>1. PICK step \in {"save", "speak"} : Continue(w, Reply(w, step, 0, 0))
    BY <1>7 DEF PreparedAnswer
  <2>2. 0 \in Said /\ 0 <= req[w].reached /\ Filed'
    BY <1>1, <1>7, NoLesson, RememberFiled
  <2>3. QED
    BY <1>1, <2>1, <2>2, Answered
<1>8. QED
  BY <1>3, <1>4, <1>5, <1>6, <1>7, Zenon DEF Ask

LEMMA AnswerWithFiled ==
  ASSUME ReachedInv, NEW w \in Worker, req[w].step \in {"ask", "gpt"},
         NEW step \in {"speak", "save"}, NEW lesson \in Said, lesson <= req[w].reached,
         NEW usage, AnswerWith(w, step, lesson, usage),
         UNCHANGED <<session, watched, reached, visit, answer>>
  PROVE  ReachedInv'
<1>1. Continue(w, Reply(w, step, lesson, usage)) /\ (UNCHANGED cache \/ Remember(w, lesson))
  BY DEF AnswerWith
<1>2. Filed'
  BY <1>1, Forgets, RememberFiled
<1>3. QED
  BY <1>1, <1>2, Answered

LEMMA ReachedCallOpenAI ==
  ASSUME ReachedInv, NEW w \in Worker, CallOpenAI(w)
  PROVE  ReachedInv'
<1>1. req[w].step \in {"ask", "gpt"} /\ UNCHANGED <<session, watched, reached, visit, answer>>
  BY DEF CallOpenAI, At, World
<1>2. 0 \in Said /\ 0 <= req[w].reached
  BY <1>1, NoLesson
<1>3. req[w].context \subseteq Lessons /\ Whole(req[w])
  BY <1>1, VoiceRecord DEF Pipeline
<1>4. CASE \E l \in Completion(w) : AnswerWith(w, "speak", l, 1)
  <2>1. PICK l \in Completion(w) : AnswerWith(w, "speak", l, 1)
    BY <1>4
  <2>2. l \in Said /\ l <= req[w].reached
    BY <1>2, <1>3, <2>1, AIChatAssumption DEF Completion, FilteredContext, Said, Lessons
  <2>3. QED
    BY <1>1, <2>1, <2>2, AnswerWithFiled
<1>5. CASE AnswerWith(w, "save", 0, 0) \/ AnswerWith(w, "speak", 0, 0)
  BY <1>1, <1>2, <1>5, AnswerWithFiled
<1>6. CASE Retry(w)
  <2> DEFINE more == req[w].tries + 1
             r == [req[w] EXCEPT !.tries = more]
  <2>1. Continue(w, r) /\ UNCHANGED cache
    BY <1>6, Zenon DEF Retry
  <2>2. r = [req[w] EXCEPT !.step = "gpt", !.tries = r.tries, !.yesNo = r.yesNo]
    <3>1. req[w].step = "gpt"
      BY DEF CallOpenAI, At
    <3> HIDE DEF more
    <3>2. QED
      BY <1>3, <3>1 DEF Whole, Field
  <2> HIDE DEF r
  <2>3. Good(r) /\ Filed'
    BY <1>1, <2>1, <2>2, WaitGood, Forgets
  <2>4. QED
    BY <1>1, <2>1, <2>3, Moves
<1>7. QED
  BY <1>4, <1>5, <1>6 DEF CallOpenAI

LEMMA ReachedTextToSpeech ==
  ASSUME ReachedInv, NEW w \in Worker, TextToSpeech(w)
  PROVE  ReachedInv'
<1>1. PICK characters \in Characters :
        Continue(w, [req[w] EXCEPT !.step = "save", !.usage = @ + characters])
  BY DEF TextToSpeech
<1> DEFINE usage == req[w].usage + characters
           r == [req[w] EXCEPT !.step = "save", !.usage = usage]
<1>2. Continue(w, r)
  BY <1>1, Zenon
<1>3. Whole(req[w]) /\ req[w].session \in DOMAIN session
      /\ Behind(req[w].lesson, req[w].session)
  BY VoiceRecord DEF TextToSpeech, At, Pipeline
<1>4. Good(r)
  <2> HIDE DEF usage
  <2>1. /\ Whole(r) /\ r.step = "save" /\ r.session = req[w].session
        /\ r.lesson = req[w].lesson
    BY <1>3 DEF Whole, Field
  <2> HIDE DEF r
  <2>2. QED
    BY <1>3, <2>1 DEF Good, Pipeline
<1>5. UNCHANGED <<session, watched, reached, visit, answer, cache>>
  BY DEF TextToSpeech, World
<1> HIDE DEF r
<1>6. QED
  BY <1>2, <1>4, <1>5, Moves, Forgets

\* The answer that is stored was behind its student.
LEMMA ReachedSaveAnswer ==
  ASSUME ReachedInv, NEW w \in Worker, SaveAnswer(w)
  PROVE  ReachedInv'
<1> DEFINE stored == [session |-> req[w].session, lesson |-> req[w].lesson]
           id == Len(answer) + 1
           next == [req[w] EXCEPT !.step = "begin", !.message = id]
<1>1. /\ Whole(req[w]) /\ req[w].session \in DOMAIN session
      /\ Behind(req[w].lesson, req[w].session)
  BY VoiceRecord DEF SaveAnswer, At, Pipeline
<1>2. UNCHANGED <<session, watched, reached, visit, cache>> /\ answer' = Append(answer, stored)
  BY DEF SaveAnswer, World
<1>3. Continue(w, next)
  BY Zenon DEF SaveAnswer
<1>4. Good(next)
  <2> HIDE DEF id
  <2>1. Whole(next) /\ next.step = "begin" /\ next.session = req[w].session
    BY <1>1 DEF Whole, Field
  <2> HIDE DEF next
  <2>2. QED
    BY <1>1, <2>1, PlainGood DEF Tracking
<1> HIDE DEF next
<1>5. PICK r : Continue(w, r) /\ Good(r)
  BY <1>3, <1>4
<1>6. Requested'
  BY <1>2, <1>5, SameWorld, GoesOn
<1>7. Stored'
  <2>1. stored \in [session : Nat, lesson : Said]
    BY <1>1 DEF Behind, ReachedInv, Stored
  <2>2. answer' \in Seq([session : Nat, lesson : Said])
    BY <1>2, <2>1 DEF ReachedInv, Stored
  <2>3. \A i \in DOMAIN answer' :
          (i \in DOMAIN answer /\ answer'[i] = answer[i]) \/ answer'[i] = stored
    BY <1>2, <2>1 DEF ReachedInv, Stored
  <2>4. \A i \in DOMAIN answer' :
          answer'[i].session \in DOMAIN session /\ Behind(answer'[i].lesson, answer'[i].session)
    BY <1>1, <2>3 DEF ReachedInv, Stored
  <2>5. QED
    BY <1>2, <2>2, <2>4 DEF ReachedInv, Stored, Behind
<1>8. Lagging' /\ Filed'
  BY <1>2 DEF ReachedInv, Lagging, Filed
<1>9. QED
  BY <1>6, <1>7, <1>8 DEF ReachedInv

-----------------------------------------------------------------------------
(***************************************************************************)
(* The cost of an answer, and the other handlers.                          *)
(***************************************************************************)
LEMMA TrackingGood ==
  ASSUME ReachedInv, NEW w \in Worker, req[w].step \in Tracking, NEW step \in Tracking,
         NEW r, r = [req[w] EXCEPT !.step = step, !.month = r.month, !.locked = r.locked,
                                   !.total = r.total]
  PROVE  Good(r)
<1>1. Whole(req[w]) /\ req[w].session \in DOMAIN session
  BY VoiceRecord
<1>2. Whole(r) /\ r.step = step /\ r.session = req[w].session
  BY <1>1 DEF Whole, Field
<1>3. QED
  BY <1>1, <1>2, PlainGood DEF Tracking

LEMMA ReachedTracking ==
  ASSUME ReachedInv, NEW w \in Worker,
         SelectForUpdate(w) \/ Lock(w) \/ Sum(w) \/ Commit(w)
  PROVE  ReachedInv'
<1>1. req[w].step \in Tracking /\ Whole(req[w])
  BY VoiceRecord DEF SelectForUpdate, Lock, Sum, Commit, At, Tracking
<1>2. UNCHANGED <<session, watched, reached, visit, answer, cache>>
  BY DEF SelectForUpdate, Lock, Sum, Commit, World
<1>3. CASE SelectForUpdate(w)
  <2> DEFINE ids == Ids(Records(Owner(w), month))
             r == [req[w] EXCEPT !.step = "lock", !.month = month, !.locked = ids]
  <2>1. Continue(w, r)
    BY <1>3, Zenon DEF SelectForUpdate
  <2>2. r = [req[w] EXCEPT !.step = "lock", !.month = r.month, !.locked = r.locked,
                           !.total = r.total]
    <3> HIDE DEF ids
    <3>1. QED
      BY <1>1 DEF Whole, Field
  <2> HIDE DEF r
  <2>3. QED
    BY <1>1, <1>2, <2>1, <2>2, TrackingGood, Moves, Forgets DEF Tracking
<1>4. CASE Lock(w)
  <2> DEFINE ids == req[w].locked \cap Ids(cost)
             r == [req[w] EXCEPT !.step = "sum", !.locked = ids]
  <2>1. Continue(w, r)
    BY <1>4, Zenon DEF Lock
  <2>2. r = [req[w] EXCEPT !.step = "sum", !.month = r.month, !.locked = r.locked,
                           !.total = r.total]
    <3> HIDE DEF ids
    <3>1. QED
      BY <1>1 DEF Whole, Field
  <2> HIDE DEF r
  <2>3. QED
    BY <1>1, <1>2, <2>1, <2>2, TrackingGood, Moves, Forgets DEF Tracking
<1>5. CASE Sum(w)
  <2> DEFINE sum == MonthTotal(Owner(w), req[w].month)
             r == [req[w] EXCEPT !.step = "commit", !.total = sum]
  <2>1. Continue(w, r)
    BY <1>5, Zenon DEF Sum
  <2>2. r = [req[w] EXCEPT !.step = "commit", !.month = r.month, !.locked = r.locked,
                           !.total = r.total]
    <3> HIDE DEF sum
    <3>1. QED
      BY <1>1 DEF Whole, Field
  <2> HIDE DEF r
  <2>3. QED
    BY <1>1, <1>2, <2>1, <2>2, TrackingGood, Moves, Forgets DEF Tracking
<1>6. CASE Commit(w)
  BY <1>2, <1>6, ReachedEnds DEF Commit
<1>7. QED
  BY <1>3, <1>4, <1>5, <1>6

\* What neither requests nor lessons are concerned with.
LEMMA ReachedElsewhere ==
  ASSUME ReachedInv, UNCHANGED <<session, watched, reached, visit, answer, req>>,
         cache' \subseteq cache
  PROVE  ReachedInv'
<1>1. Requested'
  BY SameWorld, Others
<1>2. QED
  BY <1>1, Quiet, Forgets DEF ReachedInv

\* A transaction begins with what it has read.
LEMMA Reads ==
  ASSUME NEW s \in Student, NEW lesson \in Lessons, reached[s] \in Said
  PROVE  /\ Highest(reached[s], lesson) \in Lessons
         /\ [student |-> s, lesson |-> lesson, order |-> Highest(reached[s], lesson)] \in Visit
<1>1. Highest(reached[s], lesson) \in Lessons
  BY AIChatAssumption DEF Highest, Said, Lessons
<1>2. QED
  BY <1>1 DEF Visit

LEMMA ReachedWatchLesson ==
  ASSUME ReachedInv, NEW s \in Learner, NEW lesson \in Lessons, WatchLesson(s, lesson)
  PROVE  ReachedInv'
<1>1. UNCHANGED <<session, watched, reached, answer, cache, req>>
  BY DEF WatchLesson, Requests
<1>2. s \in Student /\ Lagging
  BY AIChatAssumption DEF ReachedInv
<1>3. PICK v : /\ v = [student |-> s, lesson |-> lesson, order |-> Highest(reached[s], lesson)]
               /\ visit' = visit \cup {v}
  BY DEF WatchLesson
<1>4. reached[s] \in Said /\ watched[s] \in Said /\ reached[s] <= watched[s]
  BY <1>2 DEF Lagging
<1>5. v \in Visit
  BY <1>2, <1>3, <1>4, Reads
<1>6. v.order <= Highest(watched[v.student], v.lesson)
  BY <1>3, <1>4, AIChatAssumption DEF Highest, Said, Lessons
<1>7. Lagging'
  BY <1>1, <1>2, <1>3, <1>5, <1>6 DEF Lagging, Highest
<1>8. Grows
  BY <1>1, <1>2 DEF Grows, Lagging, Said
<1>9. Requested' /\ Filed' /\ Stored'
  BY <1>1, <1>8, Others, StillBehind DEF ReachedInv, Filed, Stored
<1>10. QED
  BY <1>7, <1>9 DEF ReachedInv

LEMMA ReachedSaveProgress ==
  ASSUME ReachedInv, NEW v \in visit, SaveProgress(v)
  PROVE  ReachedInv'
<1>1. UNCHANGED <<session, answer, cache, req>> /\ visit' = visit \ {v}
  BY DEF SaveProgress, Requests
<1>2. Lagging /\ MaxLesson \in Nat
  BY AIChatAssumption DEF ReachedInv
<1>3. PICK s, lesson, order : s = v.student /\ lesson = v.lesson /\ order = v.order
  OBVIOUS
<1>4. /\ s \in Student /\ lesson \in Said /\ order \in Said /\ watched[s] \in Said
      /\ order <= Highest(watched[s], lesson)
  BY <1>2, <1>3 DEF Lagging, Visit, Said, Lessons
<1>5. PICK high : high = Highest(watched[s], lesson)
  OBVIOUS
<1>6. high \in Said /\ watched[s] <= high /\ order <= high
  BY <1>2, <1>4, <1>5 DEF Highest, Said
<1>7. /\ watched' \in {watched, [watched EXCEPT ![s] = high]}
      /\ reached' \in {reached, [reached EXCEPT ![s] = order]}
      /\ reached' # reached => watched' = [watched EXCEPT ![s] = high]
  BY <1>3, <1>5 DEF SaveProgress
<1>8. watched' \in [Student -> Said] /\ reached' \in [Student -> Said]
  BY <1>2, <1>4, <1>6, <1>7 DEF Lagging
<1>9. \A t \in Student : watched[t] <= watched'[t]
  BY <1>2, <1>6, <1>7 DEF Lagging, Said
<1>10. \A t \in Student : reached'[t] <= watched'[t]
  <2>1. ASSUME NEW t \in Student PROVE reached'[t] <= watched'[t]
    <3>1. CASE reached' = reached
      BY <1>2, <1>8, <1>9, <3>1 DEF Lagging, Said
    <3>2. CASE reached' # reached /\ t = s
      BY <1>2, <1>4, <1>6, <1>7, <3>2 DEF Lagging
    <3>3. CASE reached' # reached /\ t # s
      BY <1>2, <1>4, <1>6, <1>7, <3>3 DEF Lagging
    <3>4. QED
      BY <3>1, <3>2, <3>3
  <2>2. QED
    BY <2>1
<1>11. \A u \in visit' : u.order <= Highest(watched'[u.student], u.lesson)
  <2>1. ASSUME NEW u \in visit' PROVE u.order <= Highest(watched'[u.student], u.lesson)
    <3>1. u \in visit /\ u.student \in Student /\ u.lesson \in Nat /\ u.order \in Nat
      BY <1>1, <1>2 DEF Lagging, Visit, Lessons
    <3>2. /\ u.order <= Highest(watched[u.student], u.lesson)
          /\ watched[u.student] <= watched'[u.student]
          /\ watched[u.student] \in Nat /\ watched'[u.student] \in Nat
      BY <1>2, <1>8, <1>9, <3>1 DEF Lagging, Said
    <3>3. QED
      BY <3>1, <3>2 DEF Highest
  <2>2. QED
    BY <2>1
<1>12. Lagging'
  BY <1>1, <1>2, <1>8, <1>10, <1>11 DEF Lagging, Highest
<1>13. Grows
  BY <1>1, <1>8, <1>9 DEF Grows
<1>14. Requested' /\ Filed' /\ Stored'
  BY <1>1, <1>13, Others, StillBehind DEF ReachedInv, Filed, Stored
<1>15. QED
  BY <1>12, <1>14 DEF ReachedInv

-----------------------------------------------------------------------------
LEMMA ReachedNext == ReachedInv /\ [Next]_vars => ReachedInv'
<1> SUFFICES ASSUME ReachedInv, [Next]_vars PROVE ReachedInv'
  OBVIOUS
<1>1. CASE UNCHANGED vars
  BY <1>1, ReachedElsewhere DEF vars
<1>2. CASE \E w \in Worker :
             \/ \E s \in Student : CreateSession(w, s)
             \/ \E i \in 1..MaxSessions, said \in Said : SendVoice(w, i, said)
  BY <1>2, ReachedCreateSession, ReachedSendVoice
<1>3. CASE \E w \in Worker : Handle(w)
  BY <1>3, ReachedInsertSession, ReachedExpire, ReachedCheckLimit, ReachedTranscribe,
     ReachedBuildContext, ReachedAsk, ReachedCallOpenAI, ReachedTextToSpeech,
     ReachedSaveAnswer, ReachedTracking DEF Handle
<1>4. CASE \E w \in Worker : AbortRequest(w)
  BY <1>4, ReachedEnds DEF AbortRequest, World
<1>5. CASE \E s \in Student : Pay(s)
  BY <1>5, ReachedElsewhere DEF Pay, Requests
<1>6. CASE \/ \E s \in Learner, lesson \in Lessons : WatchLesson(s, lesson)
           \/ \E v \in visit : SaveProgress(v)
  BY <1>6, ReachedWatchLesson, ReachedSaveProgress
<1>7. CASE FindRecords \/ RemoveRecords \/ DropEntry \/ Month
  BY <1>7, ReachedElsewhere DEF FindRecords, RemoveRecords, DropEntry, Month, Requests, World
<1>8. QED
  BY <1>1, <1>2, <1>3, <1>4, <1>5, <1>6, <1>7 DEF Next

\* No stored answer uses the material of a lesson beyond the highest order its student has
\* watched in any block, for any number of students who share the cache, of lessons, and of
\* requests and transactions that overlap, and whatever the search, GPT and an abandoned handler
\* do. (gpt-step.service.ts:87.)
THEOREM NeverAheadCorrect == Spec => []NeverAheadOfStudent
<1>1. ReachedInv => NeverAheadOfStudent
  BY DEF ReachedInv, Stored, Behind, NeverAheadOfStudent
<1>2. QED
  BY <1>1, ReachedInit, ReachedNext, PTL DEF Spec

-----------------------------------------------------------------------------
(***************************************************************************)
(* Sums of amounts. A sum is the number of bricks that its amounts stand   *)
(* for, whatever order they are added in.                                  *)
(***************************************************************************)
\* One brick for every unit of the amounts of the records in S.
Bricks(S) == UNION {{i} \X (1..i.amount) : i \in S}
Weight(S) == Cardinality(Bricks(S))

LEMMA BricksFinite ==
  ASSUME NEW S, IsFiniteSet(S), \A i \in S : i.amount \in Nat
  PROVE  IsFiniteSet(Bricks(S))
<1> DEFINE T == {{i} \X (1..i.amount) : i \in S}
           f == [i \in S |-> {i} \X (1..i.amount)]
<1>1. f \in Surjection(S, T)
  BY DEF Surjection
<1>2. IsFiniteSet(T)
  <2> HIDE DEF f, T
  <2> QED BY <1>1, FS_Surjection
<1>3. \A i \in S : IsFiniteSet({i} \X (1..i.amount))
  <2> SUFFICES ASSUME NEW i \in S PROVE IsFiniteSet({i} \X (1..i.amount))
    OBVIOUS
  <2>1. IsFiniteSet({i})
    BY FS_Singleton
  <2>2. IsFiniteSet(1..i.amount)
    BY FS_Interval
  <2> QED BY <2>1, <2>2, FS_Product
<1>4. \A B \in T : IsFiniteSet(B)
  BY <1>3
<1>5. IsFiniteSet(UNION T)
  <2> HIDE DEF T
  <2> QED BY <1>2, <1>4, FS_UNION
<1>6. QED
  BY <1>5 DEF Bricks

LEMMA WeightEmpty == Weight({}) = 0
<1>1. Bricks({}) = {}
  BY DEF Bricks
<1>2. QED
  BY <1>1, FS_EmptySet DEF Weight

LEMMA WeightRemove ==
  ASSUME NEW S, IsFiniteSet(S), \A i \in S : i.amount \in Nat, NEW x \in S
  PROVE  /\ Weight(S) \in Nat
         /\ Weight(S) = x.amount + Weight(S \ {x})
<1> DEFINE R == S \ {x}
           B == {x} \X (1..x.amount)
<1>1. IsFiniteSet(R) /\ \A i \in R : i.amount \in Nat
  BY FS_RemoveElement
<1>2. IsFiniteSet(Bricks(S)) /\ IsFiniteSet(Bricks(R))
  <2> HIDE DEF R
  <2> QED BY <1>1, BricksFinite
<1>3. IsFiniteSet(B) /\ Cardinality(B) = x.amount
  <2>1. IsFiniteSet({x}) /\ Cardinality({x}) = 1
    BY FS_Singleton
  <2>2. PICK n \in Nat : n = x.amount
    OBVIOUS
  <2>3. IsFiniteSet(1..n) /\ Cardinality(1..n) = n
    BY FS_Interval
  <2>4. IsFiniteSet(B) /\ Cardinality(B) = Cardinality({x}) * Cardinality(1..x.amount)
    BY <2>1, <2>2, <2>3, FS_Product
  <2>5. QED
    BY <2>1, <2>2, <2>3, <2>4
<1>4. Bricks(S) = Bricks(R) \cup B /\ Bricks(R) \cap B = {}
  BY DEF Bricks
<1>5. /\ Cardinality(Bricks(S)) =
          Cardinality(Bricks(R)) + Cardinality(B) - Cardinality(Bricks(R) \cap B)
  <2> HIDE DEF R, B
  <2> QED BY <1>2, <1>3, <1>4, FS_Union
<1>6. Cardinality(Bricks(R)) \in Nat /\ Cardinality(Bricks(S)) \in Nat
  BY <1>2, FS_CardinalityType
<1>7. Cardinality(Bricks(R) \cap B) = 0
  BY <1>4, FS_EmptySet
<1>8. QED
  BY <1>3, <1>5, <1>6, <1>7 DEF Weight

LEMMA SameFold ==
  ASSUME NEW S, IsFiniteSet(S), \A i \in S : i.amount \in Nat,
         NEW F, F = [s \in SUBSET S |-> IF s = {} THEN 0 ELSE
                        (CHOOSE y \in s : TRUE).amount + F[s \ {CHOOSE y \in s : TRUE}]]
  PROVE  F[S] = Weight(S)
<1> DEFINE T == {s \in SUBSET S : F[s] # Weight(s)}
<1>1. SUFFICES ASSUME T # {} PROVE FALSE
  OBVIOUS
<1>2. \A s \in SUBSET S : IsFiniteSet(s)
  BY FS_Subset
<1>3. PICK s \in T : \A r \in T : <<r, s>> \notin StrictSubsetOrdering(S)
  <2>1. T \subseteq FiniteSubsetsOf(S)
    BY <1>2 DEF FiniteSubsetsOf
  <2> HIDE DEF T
  <2> QED BY <1>1, <2>1, FS_StrictSubsetOrderingWellFounded, WFMin, Zenon
<1>4. s # {}
  BY WeightEmpty
<1>5. PICK x : x \in s /\ x = CHOOSE y \in s : TRUE
  BY <1>4
<1>6. F[s] = x.amount + F[s \ {x}]
  BY <1>4, <1>5
<1>7. s \ {x} \notin T
  <2>1. <<s \ {x}, s>> \in StrictSubsetOrdering(S)
    BY <1>5 DEF StrictSubsetOrdering
  <2> HIDE DEF T
  <2> QED BY <1>3, <2>1
<1>8. F[s \ {x}] = Weight(s \ {x})
  BY <1>7
<1>9. Weight(s) = x.amount + Weight(s \ {x})
  <2>1. IsFiniteSet(s) /\ \A i \in s : i.amount \in Nat
    BY <1>2
  <2>2. x \in s
    BY <1>5
  <2> HIDE DEF T
  <2> QED BY <2>1, <2>2, WeightRemove
<1>10. QED
  BY <1>6, <1>8, <1>9

LEMMA SumIsWeight ==
  ASSUME NEW S, IsFiniteSet(S), \A i \in S : i.amount \in Nat
  PROVE  MapThenSumSet(LAMBDA c : c.amount, S) = Weight(S)
<1> DEFINE G == [s \in SUBSET S |-> Weight(s)]
           Rec(F) == F = [s \in SUBSET S |-> IF s = {} THEN 0 ELSE
                        (CHOOSE y \in s : TRUE).amount + F[s \ {CHOOSE y \in s : TRUE}]]
<1>1. \A s \in SUBSET S : IsFiniteSet(s)
  BY FS_Subset
<1>2. Rec(G)
  <2>1. ASSUME NEW s \in SUBSET S, s # {}
        PROVE  Weight(s) = (CHOOSE y \in s : TRUE).amount + G[s \ {CHOOSE y \in s : TRUE}]
    <3>1. PICK x : x \in s /\ x = CHOOSE y \in s : TRUE
      BY <2>1
    <3>2. Weight(s) = x.amount + Weight(s \ {x})
      <4>1. IsFiniteSet(s) /\ \A i \in s : i.amount \in Nat
        BY <1>1
      <4> QED BY <3>1, <4>1, WeightRemove
    <3>3. QED
      BY <3>1, <3>2
  <2>2. QED
    BY <2>1, WeightEmpty
<1>3. Rec(CHOOSE F : Rec(F))
  <2> HIDE DEF Rec
  <2> QED BY <1>2
<1>4. MapThenSumSet(LAMBDA c : c.amount, S) = (CHOOSE F : Rec(F))[S]
  BY DEF MapThenSumSet, MapThenFoldSet
<1>5. QED
  BY <1>3, <1>4, SameFold

\* A part of the records has a part of their sum.
LEMMA WeightPart ==
  ASSUME NEW S, IsFiniteSet(S), \A c \in S : c.amount \in Nat, NEW T, T \subseteq S
  PROVE  Weight(T) \in Nat /\ Weight(S) \in Nat /\ Weight(T) <= Weight(S)
<1>1. IsFiniteSet(Bricks(S))
  BY BricksFinite
<1>2. Bricks(T) \subseteq Bricks(S)
  BY DEF Bricks
<1>3. IsFiniteSet(Bricks(T)) /\ Cardinality(Bricks(T)) <= Cardinality(Bricks(S))
  BY <1>1, <1>2, FS_Subset
<1>4. Cardinality(Bricks(T)) \in Nat /\ Cardinality(Bricks(S)) \in Nat
  BY <1>1, <1>3, FS_CardinalityType
<1>5. QED
  BY <1>3, <1>4 DEF Weight

LEMMA WeightAdd ==
  ASSUME NEW S, IsFiniteSet(S), \A c \in S : c.amount \in Nat,
         NEW c, c \notin S, c.amount \in Nat
  PROVE  Weight(S \cup {c}) = Weight(S) + c.amount /\ Weight(S) \in Nat
<1> DEFINE T == S \cup {c}
<1>1. IsFiniteSet(T) /\ (\A d \in T : d.amount \in Nat) /\ c \in T /\ T \ {c} = S
  BY FS_AddElement
<1>2. Weight(S) \in Nat
  BY WeightPart
<1> HIDE DEF T
<1>3. Weight(T) = c.amount + Weight(S)
  BY <1>1, WeightRemove
<1>4. Weight(T) = Weight(S) + c.amount
  BY <1>2, <1>3
<1>5. QED
  BY <1>2, <1>4 DEF T

-----------------------------------------------------------------------------
(***************************************************************************)
(* The invariant of the spending. The transactions that lock one record    *)
(* come one after another, so that each has summed up the records of those *)
(* before it: the records that have locked a record, with that record,     *)
(* never exceed the limit.                                                 *)
(***************************************************************************)
\* A message's record, and the records of a student's month whose transactions locked it.
Chain(s, m, f) == {c \in Records(s, m) : c.message = f \/ f \in c.after}
Spent(s, m, f) == Weight(Chain(s, m, f))

Issued == 1..Len(answer)
Unused(m) == m \in Issued /\ \A c \in cost : c.message # m /\ m \notin c.after
Holding == {"sum", "commit"}

\* What a request in flight has counted, and the rows it holds.
Sound(r) ==
  /\ r.step \in Pipeline \cup Tracking => r.usage \in Nat
  /\ r.step \in Tracking => Unused(r.message)
  /\ r.step \in Holding => r.locked \subseteq Ids(cost)
  /\ r.step = "commit" =>
       /\ r.total \in Nat
       /\ \A f \in r.locked : Spent(session[r.session], r.month, f) <= r.total

\* Two requests store different messages and hold different rows.
Apart(r, q) ==
  /\ r.step \in Tracking /\ q.step \in Tracking => r.message # q.message
  /\ r.step \in Holding /\ q.step \in Holding => r.locked \cap q.locked = {}

Booked ==
  /\ IsFiniteSet(cost)
  /\ \A c \in cost : c.amount \in Nat /\ c.message \in Issued /\ c.after \subseteq Issued

Serial ==
  /\ \A w \in Worker : Sound(req[w])
  /\ \A w \in Worker : \A v \in Worker \ {w} : Apart(req[w], req[v])

Limited == \A c \in cost : Spent(c.student, c.month, c.message) <= Limit

SpendInv == Booked /\ Serial /\ Limited

LEMMA SpendInit == Init => SpendInv
<1> SUFFICES ASSUME Init PROVE SpendInv
  OBVIOUS
<1>1. Booked /\ Limited
  BY FS_EmptySet DEF Init, Booked, Limited
<1>2. Serial
  BY DEF Init, Serial, Sound, Apart, Idle, Pipeline, Tracking, Holding
<1>3. QED
  BY <1>1, <1>2 DEF SpendInv

\* The records of a chain can be summed up.
LEMMA ChainIs ==
  ASSUME Booked, NEW s, NEW m, NEW f
  PROVE  /\ IsFiniteSet(Records(s, m)) /\ \A c \in Records(s, m) : c.amount \in Nat
         /\ Chain(s, m, f) \subseteq Records(s, m)
         /\ Spent(s, m, f) \in Nat
<1>1. Records(s, m) \subseteq cost /\ Chain(s, m, f) \subseteq Records(s, m)
  BY DEF Records, Chain
<1>2. IsFiniteSet(Records(s, m)) /\ \A c \in Records(s, m) : c.amount \in Nat
  BY <1>1, FS_Subset DEF Booked
<1>3. Spent(s, m, f) \in Nat
  BY <1>1, <1>2, WeightPart DEF Spent
<1>4. QED
  BY <1>1, <1>2, <1>3

\* sumMonthlyByUserAndCourse is the sum of the records.
LEMMA MonthIs ==
  ASSUME Booked, NEW s, NEW m
  PROVE  /\ MonthTotal(s, m) = Weight(Records(s, m)) /\ MonthTotal(s, m) \in Nat
         /\ \A f : Spent(s, m, f) <= MonthTotal(s, m)
<1>1. IsFiniteSet(Records(s, m)) /\ \A c \in Records(s, m) : c.amount \in Nat
  BY ChainIs
<1>2. MonthTotal(s, m) = Weight(Records(s, m))
  <2>1. PICK R : R = Records(s, m)
    OBVIOUS
  <2>2. MapThenSumSet(LAMBDA c : c.amount, R) = Weight(R)
    BY <1>1, <2>1, SumIsWeight
  <2>3. QED
    BY <2>1, <2>2 DEF MonthTotal
<1>3. QED
  BY <1>1, <1>2, ChainIs, WeightPart DEF Spent

\* Every chain that holds all records of a month is within the limit.
LEMMA SpendEnough == SpendInv => SerialisedWithinLimit
<1> SUFFICES ASSUME SpendInv, NEW s \in Student, NEW m \in 0..MaxMonths,
                    NEW first \in Records(s, m),
                    \A c \in Records(s, m) \ {first} : first.message \in c.after
             PROVE  MonthTotal(s, m) <= Limit
  BY DEF SerialisedWithinLimit
<1>1. first \in cost /\ first.student = s /\ first.month = m
  BY DEF Records
<1>2. Chain(s, m, first.message) = Records(s, m)
  BY DEF Chain
<1>3. Spent(s, m, first.message) <= Limit
  BY <1>1 DEF SpendInv, Limited
<1>4. QED
  BY <1>2, <1>3, MonthIs DEF SpendInv, Spent

-----------------------------------------------------------------------------
(***************************************************************************)
(* Requests that neither lock nor record.                                  *)
(***************************************************************************)
\* Sessions and answers are only added.
SessionsStay ==
  /\ \A i \in DOMAIN session : i \in DOMAIN session' /\ session'[i] = session[i]
  /\ Issued \subseteq Issued'

LEMMA SpentStays ==
  ASSUME cost' = cost, NEW s, NEW m, NEW f
  PROVE  Spent(s, m, f)' = Spent(s, m, f)
  BY DEF Spent, Chain, Records, Weight, Bricks

LEMMA SoundStays ==
  ASSUME ReachedInv, SessionsStay, cost' = cost, NEW w \in Worker, NEW r, r = req[w], Sound(r)
  PROVE  Sound(r)'
<1>1. Unused(r.message) => Unused(r.message)'
  BY DEF Unused, SessionsStay
<1>2. Ids(cost)' = Ids(cost)
  BY DEF Ids
<1>3. ASSUME r.step = "commit"
      PROVE  r.total \in Nat /\ \A f \in r.locked : Spent(session[r.session], r.month, f)' <= r.total
  <2>1. r.session \in DOMAIN session
    BY <1>3, VoiceRecord DEF Tracking
  <2>2. session'[r.session] = session[r.session]
    BY <2>1 DEF SessionsStay
  <2>3. PICK s : s = session[r.session]
    OBVIOUS
  <2>4. \A f \in r.locked : Spent(s, r.month, f) <= r.total /\ r.total \in Nat
    BY <1>3, <2>3 DEF Sound
  <2>5. \A f : Spent(s, r.month, f)' = Spent(s, r.month, f)
    BY SpentStays
  <2>6. \A f : Spent(session[r.session], r.month, f)' = Spent(s, r.month, f)'
    BY <2>2, <2>3
  <2>7. QED
    BY <1>3, <2>4, <2>5, <2>6 DEF Sound
<1>4. QED
  BY <1>1, <1>2, <1>3 DEF Sound

LEMMA BookedStays ==
  ASSUME SpendInv, SessionsStay, cost' = cost
  PROVE  Booked' /\ Limited'
<1>1. Booked'
  BY DEF SpendInv, Booked, SessionsStay
<1>2. ASSUME NEW c \in cost PROVE Spent(c.student, c.month, c.message)' <= Limit
  BY <1>2, SpentStays DEF SpendInv, Limited
<1>3. QED
  BY <1>1, <1>2 DEF Limited

\* A request that goes on with what it may have counted
LEMMA SpendMoves ==
  ASSUME ReachedInv, SpendInv, SessionsStay, cost' = cost,
         NEW w \in Worker, NEW r, Continue(w, r), Sound(r)',
         \A v \in Worker \ {w} : Apart(r, req[v])
  PROVE  SpendInv'
<1>1. req'[w] = r /\ \A v \in Worker \ {w} : req'[v] = req[v]
  BY DEF ReachedInv, Requested, Continue
<1>2. ASSUME NEW v \in Worker \ {w} PROVE Sound(req[v])'
  BY <1>1, SoundStays DEF SpendInv, Serial
<1>3. Serial'
  <2>1. \A v \in Worker \ {w} : Apart(req[v], r)
    BY DEF Apart
  <2>2. QED
    BY <1>1, <1>2, <2>1 DEF Serial, SpendInv
<1>4. QED
  BY <1>3, BookedStays DEF SpendInv

\* A request that has not come to its transaction has only counted what it used.
Early(r) == r.step \notin Tracking /\ (r.step \in Pipeline => r.usage \in Nat)

LEMMA SpendEarly ==
  ASSUME ReachedInv, SpendInv, SessionsStay, cost' = cost,
         NEW w \in Worker, NEW r, Continue(w, r), Early(r)
  PROVE  SpendInv'
<1>1. Sound(r)'
  BY DEF Early, Sound, Tracking, Holding
<1>2. \A v \in Worker \ {w} : Apart(r, req[v])
  BY DEF Early, Apart, Tracking, Holding
<1>3. QED
  BY <1>1, <1>2, SpendMoves

LEMMA IdleEarly == Early(Idle)
  BY DEF Early, Idle, Tracking, Pipeline

\* What a request of the pipeline has counted
LEMMA Counted ==
  ASSUME ReachedInv, SpendInv, NEW w \in Worker, req[w].step \in Pipeline \cup Tracking
  PROVE  Whole(req[w]) /\ req[w].usage \in Nat
  BY VoiceRecord DEF SpendInv, Serial, Sound

LEMMA ReplyEarly ==
  ASSUME ReachedInv, SpendInv, NEW w \in Worker, req[w].step \in Pipeline \cup Tracking,
         NEW step \in {"speak", "save"}, NEW lesson, NEW usage \in Nat
  PROVE  Early(Reply(w, step, lesson, usage))
<1> DEFINE now == req[w].usage + usage
           r == Reply(w, step, lesson, usage)
<1>1. Whole(req[w]) /\ now \in Nat
  BY Counted
<1>2. r = [req[w] EXCEPT !.step = step, !.lesson = lesson, !.usage = now, !.said = 0,
                         !.reached = 0, !.context = {}, !.tries = 0, !.yesNo = FALSE]
  BY Zenon DEF Reply
<1>3. r.step = step /\ r.usage = now
  <2> HIDE DEF now, r
  <2>1. QED
    BY <1>1, <1>2 DEF Whole, Field
<1>4. QED
  BY <1>1, <1>3 DEF Early, Tracking

\* The request guarded by a payment that is over
LEMMA GuardedEarly ==
  ASSUME NEW w, NEW s, NEW first, Guarded(w, s, first), Early(first)
  PROVE  \E r : Continue(w, r) /\ Early(r)
<1> DEFINE refused == [step |-> "expire", student |-> s, row |-> enrolment[s]]
<1>1. Early(refused)
  BY DEF Early, Tracking, Pipeline
<1>2. Continue(w, refused) \/ Continue(w, first)
  BY DEF Guarded
<1>3. QED
  BY <1>1, <1>2

LEMMA SameSessions ==
  ASSUME UNCHANGED <<session, answer>> PROVE SessionsStay
  BY DEF SessionsStay, Issued

LEMMA SpendSessions ==
  ASSUME ReachedInv, SpendInv, NEW w \in Worker,
         \/ \E s \in Student : CreateSession(w, s)
         \/ \E i \in 1..MaxSessions, said \in Said : SendVoice(w, i, said)
         \/ ExpireSubscription(w) \/ AbortRequest(w)
  PROVE  SpendInv'
<1>1. UNCHANGED <<session, answer, cost>>
  BY DEF CreateSession, SendVoice, ExpireSubscription, AbortRequest, World
<1>2. \E r : Continue(w, r) /\ Early(r)
  <2>1. ASSUME NEW s \in Student, CreateSession(w, s)
        PROVE  \E r : Continue(w, r) /\ Early(r)
    <3>1. Early([step |-> "create", student |-> s])
      BY DEF Early, Tracking, Pipeline
    <3>2. QED
      BY <2>1, <3>1, GuardedEarly DEF CreateSession
  <2>2. ASSUME NEW i \in 1..MaxSessions, NEW said \in Said, SendVoice(w, i, said)
        PROVE  \E r : Continue(w, r) /\ Early(r)
    <3> DEFINE first ==
          [step |-> "check", session |-> i, said |-> said, reached |-> 0, context |-> {},
           yesNo |-> FALSE, lesson |-> 0, tries |-> 0, usage |-> 0, message |-> 0,
           month |-> 0, locked |-> {}, total |-> 0]
    <3>1. Early(first)
      BY DEF Early, Tracking
    <3>2. Guarded(w, session[i], first)
      BY <2>2 DEF SendVoice
    <3> HIDE DEF first
    <3>3. QED
      BY <3>1, <3>2, GuardedEarly
  <2>3. CASE ExpireSubscription(w) \/ AbortRequest(w)
    BY <2>3, IdleEarly DEF ExpireSubscription, AbortRequest
  <2>4. QED
    BY <2>1, <2>2, <2>3
<1>3. QED
  BY <1>1, <1>2, SameSessions, SpendEarly

LEMMA SpendInsertSession ==
  ASSUME ReachedInv, SpendInv, NEW w \in Worker, InsertSession(w)
  PROVE  SpendInv'
<1>1. session' = Append(session, req[w].student) /\ UNCHANGED <<answer, cost>> /\ Continue(w, Idle)
  BY DEF InsertSession
<1>2. session \in Seq(Student)
  BY DEF ReachedInv, Stored
<1>3. SessionsStay
  <2>1. PICK s : s = req[w].student
    OBVIOUS
  <2>2. \A i \in DOMAIN session : i \in DOMAIN session' /\ session'[i] = session[i]
    BY <1>1, <1>2, <2>1
  <2>3. QED
    BY <1>1, <2>2 DEF SessionsStay, Issued
<1>4. QED
  BY <1>1, <1>3, IdleEarly, SpendEarly

\* A request that goes on to step and keeps its usage
LEMMA KeptEarly ==
  ASSUME ReachedInv, SpendInv, NEW w \in Worker, req[w].step \in Pipeline \cup Tracking,
         NEW r, r.step \in Pipeline, r.usage = req[w].usage
  PROVE  Early(r)
  BY Counted DEF Early, Pipeline, Tracking

LEMMA SpendPipeline ==
  ASSUME ReachedInv, SpendInv, NEW w \in Worker,
         \/ CheckLimit(w) \/ Transcribe(w) \/ BuildContext(w) \/ Ask(w) \/ CallOpenAI(w)
         \/ TextToSpeech(w)
  PROVE  SpendInv'
<1>1. UNCHANGED <<session, answer, cost>>
  BY DEF CheckLimit, Transcribe, BuildContext, Ask, CallOpenAI, TextToSpeech, World
<1>2. req[w].step \in Pipeline /\ Whole(req[w]) /\ req[w].usage \in Nat
  <2>1. req[w].step \in Pipeline
    BY DEF CheckLimit, Transcribe, BuildContext, Ask, CallOpenAI, TextToSpeech, At, Pipeline
  <2>2. QED
    BY <2>1, Counted
<1>3. \A lesson : \A step \in {"speak", "save"}, usage \in Nat :
         Early(Reply(w, step, lesson, usage))
  BY <1>2, ReplyEarly
<1>4. SUFFICES \E r : Continue(w, r) /\ Early(r)
  BY <1>1, SameSessions, SpendEarly
<1>5. CASE CheckLimit(w)
  <2> DEFINE r == [req[w] EXCEPT !.step = "hear"]
  <2>1. r.step = "hear" /\ r.usage = req[w].usage
    BY <1>2 DEF Whole, Field
  <2>2. Early(r)
    <3> HIDE DEF r
    <3>1. QED
      BY <1>2, <2>1, KeptEarly DEF Pipeline
  <2>3. QED
    BY <1>5, <2>2, IdleEarly DEF CheckLimit
<1>6. CASE Transcribe(w)
  <2>1. PICK heard \in SpeechToText :
          \/ Continue(w, [req[w] EXCEPT !.step = "context", !.usage = heard.usage])
          \/ Continue(w, Reply(w, "save", 0, heard.usage))
    BY <1>6 DEF Transcribe
  <2>2. heard.usage \in Nat
    BY DEF SpeechToText
  <2> DEFINE r == [req[w] EXCEPT !.step = "context", !.usage = heard.usage]
  <2>3. r.step = "context" /\ r.usage = heard.usage
    BY <1>2 DEF Whole, Field
  <2>4. Early(r)
    <3> HIDE DEF r
    <3>1. QED
      BY <2>2, <2>3 DEF Early, Tracking
  <2>5. QED
    BY <1>3, <2>1, <2>2, <2>4
<1>7. CASE BuildContext(w)
  <2> DEFINE r(said, order, found) ==
        [req[w] EXCEPT !.step = "ask", !.said = said, !.reached = order, !.context = found]
  <2>1. \/ \E said, order, found : Continue(w, r(said, order, found))
        \/ Continue(w, Reply(w, "save", 0, 0))
    BY <1>7 DEF BuildContext
  <2>2. \A said, order, found : Early(r(said, order, found))
    <3> SUFFICES ASSUME NEW said, NEW order, NEW found PROVE Early(r(said, order, found))
      OBVIOUS
    <3>1. r(said, order, found).step = "ask" /\ r(said, order, found).usage = req[w].usage
      BY <1>2 DEF Whole, Field
    <3> HIDE DEF r
    <3>2. QED
      BY <1>2, <3>1, KeptEarly DEF Pipeline
  <2> HIDE DEF r
  <2>3. QED
    BY <1>3, <2>1, <2>2
<1>8. CASE Ask(w)
  <2> DEFINE r(yesNo) == [req[w] EXCEPT !.step = "gpt", !.yesNo = yesNo]
  <2>1. \/ \E lesson : \E step \in {"speak", "save"} : Continue(w, Reply(w, step, lesson, 0))
        \/ \E yesNo \in BOOLEAN : Continue(w, r(yesNo))
    BY <1>8 DEF Ask, PreparedAnswer
  <2>2. \A yesNo : Early(r(yesNo))
    <3> SUFFICES ASSUME NEW yesNo PROVE Early(r(yesNo))
      OBVIOUS
    <3>1. r(yesNo).step = "gpt" /\ r(yesNo).usage = req[w].usage
      BY <1>2 DEF Whole, Field
    <3> HIDE DEF r
    <3>2. QED
      BY <1>2, <3>1, KeptEarly DEF Pipeline
  <2> HIDE DEF r
  <2>3. CASE \E lesson : \E step \in {"speak", "save"} : Continue(w, Reply(w, step, lesson, 0))
    <3>1. PICK lesson : \E step \in {"speak", "save"} : Continue(w, Reply(w, step, lesson, 0))
      BY <2>3
    <3>2. \A step \in {"speak", "save"} : Early(Reply(w, step, lesson, 0))
      BY <1>2, 0 \in Nat, ReplyEarly
    <3>3. QED
      BY <3>1, <3>2
  <2>4. QED
    BY <2>1, <2>2, <2>3
<1>9. CASE CallOpenAI(w)
  <2> DEFINE tries == req[w].tries + 1
             r == [req[w] EXCEPT !.tries = tries]
  <2>1. \/ \E l : Continue(w, Reply(w, "speak", l, 1))
        \/ Continue(w, Reply(w, "save", 0, 0))
        \/ Continue(w, Reply(w, "speak", 0, 0))
        \/ Continue(w, r)
    <3>1. Retry(w) => Continue(w, r)
      BY Zenon DEF Retry
    <3> HIDE DEF r
    <3>2. QED
      BY <1>9, <3>1 DEF CallOpenAI, AnswerWith
  <2>2. Early(r)
    <3>1. r.step = req[w].step /\ r.usage = req[w].usage
      <4> HIDE DEF tries
      <4> QED BY <1>2 DEF Whole, Field
    <3> HIDE DEF r
    <3>2. QED
      BY <1>2, <3>1, KeptEarly
  <2>3. Early(Reply(w, "save", 0, 0)) /\ Early(Reply(w, "speak", 0, 0))
    BY <1>2, 0 \in Nat, ReplyEarly
  <2>4. \A l : Early(Reply(w, "speak", l, 1))
    BY <1>2, 1 \in Nat, ReplyEarly
  <2> HIDE DEF r
  <2>5. QED
    BY <2>1, <2>2, <2>3, <2>4
<1>10. CASE TextToSpeech(w)
  <2>1. PICK characters \in Characters :
          Continue(w, [req[w] EXCEPT !.step = "save", !.usage = @ + characters])
    BY <1>10 DEF TextToSpeech
  <2> DEFINE usage == req[w].usage + characters
             r == [req[w] EXCEPT !.step = "save", !.usage = usage]
  <2>2. Continue(w, r)
    BY <2>1, Zenon
  <2>3. usage \in Nat
    BY <1>2 DEF Characters
  <2>4. r.step = "save" /\ r.usage = usage
    <3> HIDE DEF usage
    <3> QED BY <1>2 DEF Whole, Field
  <2> HIDE DEF r, usage
  <2>5. QED
    BY <2>2, <2>3, <2>4 DEF Early, Tracking
<1>11. QED
  BY <1>5, <1>6, <1>7, <1>8, <1>9, <1>10

-----------------------------------------------------------------------------
(***************************************************************************)
(* The transaction.                                                        *)
(***************************************************************************)
\* The answer that is stored has a number that no record knows.
LEMMA SpendSaveAnswer ==
  ASSUME ReachedInv, SpendInv, NEW w \in Worker, SaveAnswer(w)
  PROVE  SpendInv'
<1> DEFINE stored == [session |-> req[w].session, lesson |-> req[w].lesson]
<1>0. PICK id, r : /\ id = Len(answer) + 1
                   /\ r = [req[w] EXCEPT !.step = "begin", !.message = id]
  OBVIOUS
<1>1. Whole(req[w]) /\ req[w].usage \in Nat /\ req[w].session \in DOMAIN session
  BY Counted, VoiceRecord DEF SaveAnswer, At, Pipeline
<1>2. UNCHANGED <<session, cost>> /\ answer' = Append(answer, stored) /\ Continue(w, r)
  BY <1>0, Zenon DEF SaveAnswer, World
<1>3. Len(answer) \in Nat /\ Len(answer') = id
  <2>1. answer \in Seq([session : Nat, lesson : Said])
    BY DEF ReachedInv, Stored
  <2> HIDE DEF stored
  <2>2. QED
    BY <1>0, <1>2, <2>1
<1>4. SessionsStay /\ id \in Issued' /\ id \notin Issued
  BY <1>2, <1>3 DEF SessionsStay, Issued
<1>5. Unused(id)'
  BY <1>2, <1>4 DEF Unused, SpendInv, Booked
<1>6. r.step = "begin" /\ r.message = id /\ r.usage = req[w].usage
  BY <1>0, <1>1 DEF Whole, Field
<1>7. Sound(r)'
  BY <1>1, <1>5, <1>6 DEF Sound, Holding
<1>8. \A v \in Worker \ {w} : Apart(r, req[v])
  BY <1>4, <1>6 DEF Apart, Holding, SpendInv, Serial, Sound, Unused
<1>9. QED
  BY <1>2, <1>4, <1>7, <1>8, SpendMoves

\* A transaction that goes on keeps its message and its usage.
Proceeds(w, r, step) ==
  r = [req[w] EXCEPT !.step = step, !.month = r.month, !.locked = r.locked, !.total = r.total]

LEMMA ProceedsIs ==
  ASSUME ReachedInv, SpendInv, NEW w \in Worker, req[w].step \in Tracking,
         NEW step \in Tracking, NEW r, Proceeds(w, r, step)
  PROVE  /\ r.step = step /\ r.message = req[w].message /\ r.usage = req[w].usage
         /\ r.session = req[w].session /\ r.usage \in Nat /\ Unused(r.message)
         /\ \A v \in Worker \ {w} : req[v].step \in Tracking => r.message # req[v].message
<1>1. Whole(req[w]) /\ req[w].usage \in Nat /\ Unused(req[w].message)
  BY Counted DEF SpendInv, Serial, Sound
<1>2. /\ r.step = step /\ r.message = req[w].message /\ r.usage = req[w].usage
      /\ r.session = req[w].session
  BY <1>1 DEF Proceeds, Whole, Field
<1>3. QED
  BY <1>1, <1>2 DEF SpendInv, Serial, Apart

LEMMA SpendSelect ==
  ASSUME ReachedInv, SpendInv, NEW w \in Worker, SelectForUpdate(w)
  PROVE  SpendInv'
<1>0. PICK ids, r : /\ ids = Ids(Records(Owner(w), month))
                    /\ r = [req[w] EXCEPT !.step = "lock", !.month = month, !.locked = ids]
  OBVIOUS
<1>1. req[w].step = "begin" /\ UNCHANGED <<session, answer, cost>> /\ Continue(w, r)
  BY <1>0, Zenon DEF SelectForUpdate, At
<1>2. Proceeds(w, r, "lock")
  <2>1. Whole(req[w])
    BY <1>1, Counted DEF Tracking
  <2>2. QED
    BY <1>0, <2>1 DEF Proceeds, Whole, Field
<1>3. /\ r.step = "lock" /\ r.usage \in Nat /\ Unused(r.message)
      /\ \A v \in Worker \ {w} : req[v].step \in Tracking => r.message # req[v].message
  BY <1>1, <1>2, ProceedsIs DEF Tracking
<1>4. Unused(r.message)'
  BY <1>1, <1>3 DEF Unused, Issued
<1>5. Sound(r)'
  BY <1>3, <1>4 DEF Sound, Holding
<1>6. \A v \in Worker \ {w} : Apart(r, req[v])
  BY <1>3 DEF Apart, Holding
<1>7. QED
  BY <1>1, <1>5, <1>6, SameSessions, SpendMoves

\* FOR UPDATE: the rows are held by no other transaction, and are still there.
LEMMA SpendLock ==
  ASSUME ReachedInv, SpendInv, NEW w \in Worker, Lock(w)
  PROVE  SpendInv'
<1>0. PICK ids, r : /\ ids = req[w].locked \cap Ids(cost)
                    /\ r = [req[w] EXCEPT !.step = "sum", !.locked = ids]
  OBVIOUS
<1>1. req[w].step = "lock" /\ UNCHANGED <<session, answer, cost>> /\ Continue(w, r)
  BY <1>0, Zenon DEF Lock, At
<1>2. Whole(req[w])
  BY <1>1, Counted DEF Tracking
<1>3. Proceeds(w, r, "sum") /\ r.locked = ids
  BY <1>0, <1>2 DEF Proceeds, Whole, Field
<1>4. ids \subseteq Ids(cost) /\ \A v \in Worker \ {w} : req[v].step \in Holding =>
        ids \cap req[v].locked = {}
  BY <1>0 DEF Lock, LockedBy, Busy, Holding
<1>5. /\ r.step = "sum" /\ r.usage \in Nat /\ Unused(r.message)
      /\ \A v \in Worker \ {w} : req[v].step \in Tracking => r.message # req[v].message
  BY <1>1, <1>3, ProceedsIs DEF Tracking
<1>6. Unused(r.message)' /\ Ids(cost)' = Ids(cost)
  BY <1>1, <1>5 DEF Unused, Issued, Ids
<1>7. Sound(r)'
  BY <1>3, <1>4, <1>5, <1>6 DEF Sound, Holding
<1>8. \A v \in Worker \ {w} : Apart(r, req[v])
  BY <1>3, <1>4, <1>5 DEF Apart
<1>9. QED
  BY <1>1, <1>7, <1>8, SameSessions, SpendMoves

\* The sum is that of the whole month, and so no less than that of a chain.
LEMMA SpendSum ==
  ASSUME ReachedInv, SpendInv, NEW w \in Worker, Sum(w)
  PROVE  SpendInv'
<1>0. PICK sum, r : /\ sum = MonthTotal(Owner(w), req[w].month)
                    /\ r = [req[w] EXCEPT !.step = "commit", !.total = sum]
  OBVIOUS
<1>1. req[w].step = "sum" /\ UNCHANGED <<session, answer, cost>> /\ Continue(w, r)
  BY <1>0, Zenon DEF Sum, At
<1>2. Whole(req[w])
  BY <1>1, Counted DEF Tracking
<1>3. /\ Proceeds(w, r, "commit") /\ r.locked = req[w].locked /\ r.total = sum
      /\ r.month = req[w].month
  BY <1>0, <1>2 DEF Proceeds, Whole, Field
<1>4. sum \in Nat /\ \A f : Spent(Owner(w), req[w].month, f) <= sum
  BY <1>0, MonthIs DEF SpendInv
<1>5. /\ req[w].locked \subseteq Ids(cost)
      /\ \A v \in Worker \ {w} : req[v].step \in Holding => req[w].locked \cap req[v].locked = {}
  BY <1>1 DEF SpendInv, Serial, Sound, Apart, Holding
<1>6. /\ r.step = "commit" /\ r.usage \in Nat /\ Unused(r.message) /\ r.session = req[w].session
      /\ \A v \in Worker \ {w} : req[v].step \in Tracking => r.message # req[v].message
  BY <1>1, <1>3, ProceedsIs DEF Tracking
<1>7. Unused(r.message)' /\ Ids(cost)' = Ids(cost)
  BY <1>1, <1>6 DEF Unused, Issued, Ids
<1>8. \A f : Spent(session[r.session], r.month, f)' <= r.total
  <2> SUFFICES ASSUME NEW f PROVE Spent(session[r.session], r.month, f)' <= r.total
    OBVIOUS
  <2>1. PICK s, m : s = Owner(w) /\ m = req[w].month
    OBVIOUS
  <2>2. Spent(s, m, f)' = Spent(s, m, f)
    BY <1>1, SpentStays
  <2>3. Spent(s, m, f) <= sum
    BY <1>4, <2>1
  <2>4. session'[r.session] = s /\ r.month = m
    BY <1>1, <1>3, <1>6, <2>1 DEF Owner
  <2>5. Spent(session[r.session], r.month, f)' = Spent(s, m, f)'
    BY <2>4
  <2>6. QED
    BY <1>3, <2>2, <2>3, <2>5
<1>9. Sound(r)'
  BY <1>3, <1>4, <1>5, <1>6, <1>7, <1>8 DEF Sound
<1>10. \A v \in Worker \ {w} : Apart(r, req[v])
  BY <1>3, <1>5, <1>6 DEF Apart
<1>11. QED
  BY <1>1, <1>9, <1>10, SameSessions, SpendMoves

\* A new record belongs to the chains of the rows its transaction held.
LEMMA SpentWith ==
  ASSUME SpendInv, NEW c, c \notin cost, c.amount \in Nat, cost' = cost \cup {c},
         NEW s, NEW m, NEW f, f # c.message
  PROVE  /\ Spent(s, m, f) \in Nat
         /\ c.student = s /\ c.month = m /\ f \in c.after =>
              Spent(s, m, f)' = Spent(s, m, f) + c.amount
         /\ ~(c.student = s /\ c.month = m /\ f \in c.after) =>
              Spent(s, m, f)' = Spent(s, m, f)
<1>1. PICK S, T : S = Chain(s, m, f) /\ T = Chain(s, m, f)'
  OBVIOUS
<1>2. Spent(s, m, f) = Weight(S) /\ Spent(s, m, f)' = Weight(T)
  BY <1>1 DEF Spent
<1>3. Weight(S) \in Nat /\ IsFiniteSet(S) /\ \A d \in S : d.amount \in Nat
  BY <1>1, <1>2, ChainIs, FS_Subset DEF SpendInv
<1>4. CASE c.student = s /\ c.month = m /\ f \in c.after
  <2>1. T = S \cup {c} /\ c \notin S
    BY <1>1, <1>4 DEF Chain, Records
  <2>2. QED
    BY <1>2, <1>3, <1>4, <2>1, WeightAdd
<1>5. CASE ~(c.student = s /\ c.month = m /\ f \in c.after)
  <2>1. T = S
    BY <1>1, <1>5 DEF Chain, Records
  <2>2. QED
    BY <1>2, <1>3, <1>5, <2>1
<1>6. QED
  BY <1>4, <1>5

\* The transaction's sum still covers the chains of the rows it holds, as nobody else could
\* record for them.
LEMMA SpendRecorded ==
  ASSUME ReachedInv, SpendInv, NEW w \in Worker, Commit(w),
         req[w].total + req[w].usage <= Limit
  PROVE  SpendInv'
<1>1. PICK c : c = [message |-> req[w].message, student |-> Owner(w), month |-> req[w].month,
                    amount |-> req[w].usage, after |-> req[w].locked]
  OBVIOUS
<1>2. /\ c.message = req[w].message /\ c.student = Owner(w) /\ c.month = req[w].month
      /\ c.amount = req[w].usage /\ c.after = req[w].locked
  BY <1>1
<1>3. req[w].step = "commit" /\ UNCHANGED <<session, answer>> /\ Continue(w, Idle)
  BY DEF Commit, At
<1>4. Sound(req[w]) /\ req[w].usage \in Nat /\ req[w].total \in Nat
  BY <1>3 DEF SpendInv, Serial, Sound, Tracking
<1>5. cost' = cost \cup {c}
  <2>1. ~(req[w].total + req[w].usage > Limit)
    BY <1>4, AIChatAssumption DEF AIChatAssumption
  <2>2. QED
    BY <1>1, <2>1, Zenon DEF Commit
<1>6. Unused(c.message) /\ c.after \subseteq Ids(cost) /\ c.amount \in Nat
  BY <1>2, <1>3, <1>4 DEF Sound, Tracking, Holding
<1>7. c \notin cost /\ Ids(cost) \subseteq Issued /\ c.message \notin Ids(cost)
  BY <1>6 DEF Unused, SpendInv, Booked, Ids
<1>8. \A f \in c.after : Spent(c.student, c.month, f) <= req[w].total
  BY <1>2, <1>3, <1>4 DEF Sound, Owner
<1>9. Issued' = Issued
  BY <1>3 DEF Issued
<1>10. Booked'
  <2>1. IsFiniteSet(cost')
    BY <1>5, FS_AddElement DEF SpendInv, Booked
  <2>2. QED
    BY <1>5, <1>6, <1>7, <1>9, <2>1 DEF SpendInv, Booked, Unused
<1>11. Limited'
  <2>1. Spent(c.student, c.month, c.message)' <= Limit
    <3>1. Chain(c.student, c.month, c.message)' = {} \cup {c}
      BY <1>5, <1>6 DEF Chain, Records, Unused
    <3>2. Weight({} \cup {c}) = 0 + c.amount
      BY <1>6, WeightAdd, WeightEmpty, FS_EmptySet
    <3>3. Spent(c.student, c.month, c.message)' = c.amount
      BY <1>6, <3>1, <3>2 DEF Spent
    <3>4. QED
      BY <1>2, <1>4, <3>3, AIChatAssumption DEF AIChatAssumption
  <2>2. ASSUME NEW d \in cost PROVE Spent(d.student, d.month, d.message)' <= Limit
    <3>1. d.message # c.message
      BY <1>6 DEF Unused
    <3>2. Spent(d.student, d.month, d.message) <= Limit
      BY DEF SpendInv, Limited
    <3>3. CASE c.student = d.student /\ c.month = d.month /\ d.message \in c.after
      <4>1. PICK x : x = Spent(d.student, d.month, d.message)
        OBVIOUS
      <4>2. x \in Nat /\ Spent(d.student, d.month, d.message)' = x + c.amount
        BY <1>5, <1>6, <1>7, <3>1, <3>3, <4>1, SpentWith
      <4>3. x <= req[w].total
        BY <1>8, <3>3, <4>1
      <4>4. x + c.amount <= Limit
        BY <1>2, <1>4, <4>2, <4>3, AIChatAssumption DEF AIChatAssumption
      <4>5. QED
        BY <4>2, <4>4
    <3>4. CASE ~(c.student = d.student /\ c.month = d.month /\ d.message \in c.after)
      BY <1>5, <1>6, <1>7, <3>1, <3>2, <3>4, SpentWith
    <3>5. QED
      BY <3>3, <3>4
  <2>3. QED
    BY <1>5, <2>1, <2>2 DEF Limited
<1>12. req'[w] = Idle /\ \A v \in Worker \ {w} : req'[v] = req[v]
  BY <1>3 DEF ReachedInv, Requested, Continue
<1>13. ASSUME NEW v \in Worker \ {w} PROVE Sound(req[v])'
  <2>1. PICK r : r = req[v]
    OBVIOUS
  <2>2. Sound(r) /\ Apart(req[w], r)
    BY <2>1 DEF SpendInv, Serial
  <2>3. r.step \in Tracking => Unused(r.message)'
    <3>1. r.step \in Tracking => Unused(r.message) /\ r.message # c.message
      BY <1>2, <1>3, <2>2 DEF Sound, Apart, Tracking
    <3>2. r.step \in Tracking => r.message \notin c.after
      BY <1>6, <3>1 DEF Unused, Ids
    <3>3. QED
      BY <1>5, <1>9, <3>1, <3>2 DEF Unused
  <2>4. r.step \in Holding => r.locked \subseteq Ids(cost)'
    BY <1>5, <2>2 DEF Sound, Ids
  <2>5. ASSUME r.step = "commit"
        PROVE  r.total \in Nat /\ \A f \in r.locked : Spent(session[r.session], r.month, f)' <= r.total
    <3>1. r.total \in Nat /\ r.locked \subseteq Ids(cost) /\ r.locked \cap c.after = {}
      BY <1>2, <1>3, <2>2, <2>5 DEF Sound, Apart, Holding
    <3>2. ASSUME NEW f \in r.locked PROVE Spent(session[r.session], r.month, f)' <= r.total
      <4>1. PICK s : s = session[r.session]
        OBVIOUS
      <4>2. f # c.message /\ f \notin c.after
        BY <1>7, <3>1
      <4>3. Spent(s, r.month, f)' = Spent(s, r.month, f)
        BY <1>5, <1>6, <1>7, <4>2, SpentWith
      <4>4. Spent(s, r.month, f) <= r.total
        BY <2>2, <2>5, <4>1 DEF Sound
      <4>5. Spent(session[r.session], r.month, f)' = Spent(s, r.month, f)'
        BY <1>3, <4>1
      <4>6. QED
        BY <4>3, <4>4, <4>5
    <3>3. QED
      BY <3>1, <3>2
  <2>6. Sound(r)'
    BY <2>2, <2>3, <2>4, <2>5 DEF Sound
  <2>7. req'[v] = r
    BY <1>12, <2>1
  <2>8. QED
    BY <2>6, <2>7
<1>14. Serial'
  <2>1. Sound(Idle)' /\ \A q : Apart(Idle, q) /\ Apart(q, Idle)
    BY DEF Sound, Apart, Idle, Tracking, Pipeline, Holding
  <2>2. \A v \in Worker : Sound(req[v])'
    <3>1. Sound(req[w])'
      BY <1>12, <2>1 DEF Sound, Tracking, Pipeline, Holding, Idle
    <3>2. QED
      BY <1>13, <3>1
  <2>3. QED
    BY <1>12, <2>1, <2>2 DEF Serial, SpendInv
<1>15. QED
  BY <1>10, <1>11, <1>14 DEF SpendInv

LEMMA SpendCommit ==
  ASSUME ReachedInv, SpendInv, NEW w \in Worker, Commit(w)
  PROVE  SpendInv'
<1>1. req[w].total \in Nat /\ req[w].usage \in Nat
  BY DEF Commit, At, SpendInv, Serial, Sound, Tracking
<1>2. CASE req[w].total + req[w].usage > Limit
  <2>1. UNCHANGED <<session, answer, cost>> /\ Continue(w, Idle)
    BY <1>2 DEF Commit
  <2>2. QED
    BY <2>1, SameSessions, IdleEarly, SpendEarly
<1>3. CASE ~(req[w].total + req[w].usage > Limit)
  <2>1. req[w].total + req[w].usage <= Limit
    BY <1>1, <1>3, AIChatAssumption DEF AIChatAssumption
  <2>2. QED
    BY <2>1, SpendRecorded
<1>4. QED
  BY <1>2, <1>3

-----------------------------------------------------------------------------
(***************************************************************************)
(* The reset of the limit, and what is not about the spending.             *)
(***************************************************************************)
\* A record that a transaction holds is not removed.
LEMMA SpendRemoveRecords ==
  ASSUME ReachedInv, SpendInv, RemoveRecords
  PROVE  SpendInv'
<1>1. /\ UNCHANGED <<session, answer, req>>
      /\ cost' = {c \in cost : c.message \notin reset.ids}
      /\ \A w \in Worker : req[w].step \in Holding => reset.ids \cap req[w].locked = {}
  BY DEF RemoveRecords, Requests, LockedBy, Busy, Holding
<1>2. cost' \subseteq cost /\ Issued' = Issued
  BY <1>1 DEF Issued
<1>3. ASSUME NEW s, NEW m, NEW f
      PROVE  Spent(s, m, f)' \in Nat /\ Spent(s, m, f) \in Nat /\ Spent(s, m, f)' <= Spent(s, m, f)
  <2>1. PICK S, T : S = Chain(s, m, f) /\ T = Chain(s, m, f)'
    OBVIOUS
  <2>2. T \subseteq S
    BY <1>2, <2>1 DEF Chain, Records
  <2>3. IsFiniteSet(S) /\ \A d \in S : d.amount \in Nat
    BY <2>1, ChainIs, FS_Subset DEF SpendInv
  <2>4. Weight(T) \in Nat /\ Weight(S) \in Nat /\ Weight(T) <= Weight(S)
    BY <2>2, <2>3, WeightPart
  <2>5. QED
    BY <2>1, <2>4 DEF Spent
<1>4. Booked'
  BY <1>2, FS_Subset DEF SpendInv, Booked
<1>5. Limited'
  <2>1. ASSUME NEW c \in cost' PROVE Spent(c.student, c.month, c.message)' <= Limit
    <3>1. Spent(c.student, c.month, c.message) <= Limit
      BY <1>2 DEF SpendInv, Limited
    <3>2. PICK x, y : x = Spent(c.student, c.month, c.message)
                      /\ y = Spent(c.student, c.month, c.message)'
      OBVIOUS
    <3>3. x \in Nat /\ y \in Nat /\ y <= x
      BY <1>3, <3>2
    <3>4. y <= Limit
      BY <3>1, <3>2, <3>3, AIChatAssumption DEF AIChatAssumption
    <3>5. QED
      BY <3>2, <3>4
  <2>2. QED
    BY <2>1 DEF Limited
<1>6. ASSUME NEW w \in Worker PROVE Sound(req[w])'
  <2>1. PICK r : r = req[w]
    OBVIOUS
  <2>2. Sound(r) /\ (r.step \in Holding => reset.ids \cap r.locked = {})
    BY <1>1, <2>1 DEF SpendInv, Serial
  <2>3. r.step \in Tracking => Unused(r.message)'
    BY <1>2, <2>2 DEF Sound, Unused
  <2>4. r.step \in Holding => r.locked \subseteq Ids(cost)'
    BY <1>1, <2>2 DEF Sound, Ids
  <2>5. ASSUME r.step = "commit"
        PROVE  r.total \in Nat /\ \A f \in r.locked : Spent(session[r.session], r.month, f)' <= r.total
    <3>1. r.total \in Nat
      BY <2>2, <2>5 DEF Sound
    <3>2. ASSUME NEW f \in r.locked PROVE Spent(session[r.session], r.month, f)' <= r.total
      <4>1. PICK s, x, y : /\ s = session[r.session] /\ x = Spent(s, r.month, f)
                           /\ y = Spent(s, r.month, f)'
        OBVIOUS
      <4>2. x <= r.total
        BY <2>2, <2>5, <4>1 DEF Sound
      <4>3. y \in Nat /\ x \in Nat /\ y <= x
        BY <1>3, <4>1
      <4>4. y <= r.total
        BY <3>1, <4>2, <4>3
      <4>5. Spent(session[r.session], r.month, f)' = Spent(s, r.month, f)'
        BY <1>1, <4>1
      <4>6. QED
        BY <4>1, <4>4, <4>5
    <3>3. QED
      BY <3>1, <3>2
  <2>6. Sound(r)'
    BY <2>2, <2>3, <2>4, <2>5 DEF Sound
  <2>7. req'[w] = r
    BY <1>1, <2>1
  <2>8. QED
    BY <2>6, <2>7
<1>7. Serial'
  BY <1>1, <1>6 DEF Serial, SpendInv
<1>8. QED
  BY <1>4, <1>5, <1>7 DEF SpendInv

LEMMA SpendElsewhere ==
  ASSUME ReachedInv, SpendInv, UNCHANGED <<session, answer, req, cost>>
  PROVE  SpendInv'
<1>1. SessionsStay
  BY SameSessions
<1>2. \A w \in Worker : Sound(req[w])'
  BY <1>1, SoundStays DEF SpendInv, Serial
<1>3. Serial'
  BY <1>2 DEF SpendInv, Serial
<1>4. QED
  BY <1>1, <1>3, BookedStays DEF SpendInv

LEMMA SpendNext == ReachedInv /\ SpendInv /\ [Next]_vars => SpendInv'
<1> SUFFICES ASSUME ReachedInv, SpendInv, [Next]_vars PROVE SpendInv'
  OBVIOUS
<1>1. CASE UNCHANGED vars
  BY <1>1, SpendElsewhere DEF vars
<1>2. ASSUME NEW w \in Worker,
             \/ \E s \in Student : CreateSession(w, s)
             \/ \E i \in 1..MaxSessions, said \in Said : SendVoice(w, i, said)
             \/ AbortRequest(w)
      PROVE  SpendInv'
  BY <1>2, SpendSessions
<1>3. ASSUME NEW w \in Worker, Handle(w) PROVE SpendInv'
  BY <1>3, SpendSessions, SpendInsertSession, SpendPipeline, SpendSaveAnswer, SpendSelect,
     SpendLock, SpendSum, SpendCommit DEF Handle
<1>4. CASE \/ \E s \in Student : Pay(s)
           \/ \E s \in Learner, lesson \in Lessons : WatchLesson(s, lesson)
           \/ \E v \in visit : SaveProgress(v)
  BY <1>4, SpendElsewhere DEF Pay, WatchLesson, SaveProgress, Requests
<1>5. CASE FindRecords \/ DropEntry \/ Month
  BY <1>5, SpendElsewhere DEF FindRecords, DropEntry, Month, Requests
<1>6. CASE RemoveRecords
  BY <1>6, SpendRemoveRecords
<1>7. QED
  BY <1>1, <1>2, <1>3, <1>4, <1>5, <1>6 DEF Next

\* Once a month has a record that every later transaction found and locked, overlapping
\* messages never record more than the limit, however many requests are in flight, however
\* often they are abandoned and the limit is reset. (limit-check.service.ts:157, FOR UPDATE.)
THEOREM SerialisedWithinLimitCorrect == Spec => []SerialisedWithinLimit
<1>1. QED
  BY ReachedInit, ReachedNext, SpendInit, SpendNext, SpendEnough, PTL DEF Spec

-----------------------------------------------------------------------------
(***************************************************************************)
(* Type correctness. A message costs three units at most: what its         *)
(* pipeline has counted so far says how much is still to come. The bounds  *)
(* of the model hold because requests in flight have their place already.  *)
(***************************************************************************)
\* What a request in flight may be.
Held ==
  {Idle} \cup [step : {"create"}, student : Student]
         \cup [step : {"expire"}, student : Student, row : UserCourse] \cup VoiceInput

\* What a request has counted before its answer is spoken.
Counts(r) ==
  /\ r.step \in {"check", "hear"} => r.usage = 0
  /\ r.step \in {"context", "ask", "gpt"} => r.usage <= 1
  /\ r.step = "speak" => r.usage <= 2

\* There is room for what is there and what is being made.
Room(there, making, most) ==
  IsFiniteSet(making) /\ there + Cardinality(making) <= most

HasRoom ==
  /\ Room(Len(session), Busy({"create"}), MaxSessions)
  /\ Room(Len(answer), Busy(Pipeline), MaxMessages)

TypeInv == TypeOK /\ HasRoom /\ \A w \in Worker : Counts(req[w])

LEMMA TypeInit == Init => TypeInv
<1> SUFFICES ASSUME Init PROVE TypeInv
  OBVIOUS
<1>1. /\ {0} \subseteq 0..MaxLesson /\ 0 \in 0..MaxMonths /\ 0 \in 0..MaxPayments
      /\ 0 \in 0..MaxAborts /\ MaxSessions \in Nat /\ MaxMessages \in Nat
  BY AIChatAssumption
<1>2. TypeOK
  BY <1>1 DEF Init, TypeOK, Said, UserCourse
<1>3. Busy({"create"}) = {} /\ Busy(Pipeline) = {}
  BY DEF Init, Busy, Idle, Pipeline
<1>4. HasRoom
  <2>1. Len(session) = 0 /\ Len(answer) = 0
    BY DEF Init
  <2>2. IsFiniteSet({}) /\ Cardinality({}) = 0
    BY FS_EmptySet
  <2>3. 0 + 0 <= MaxSessions /\ 0 + 0 <= MaxMessages
    BY <1>1
  <2>4. QED
    BY <1>3, <2>1, <2>2, <2>3, Zenon DEF HasRoom, Room
<1>5. \A w \in Worker : Counts(req[w])
  BY DEF Init, Counts, Idle
<1>6. QED
  BY <1>2, <1>4, <1>5 DEF TypeInv

\* The requests at some steps, when request w goes on as r.
LEMMA BusyMoves ==
  ASSUME req = [v \in Worker |-> req[v]], NEW w \in Worker, NEW r, Continue(w, r),
         NEW S, IsFiniteSet(Busy(S))
  PROVE  /\ IsFiniteSet(Busy(S)')
         /\ Cardinality(Busy(S)) \in Nat /\ Cardinality(Busy(S)') \in Nat
         /\ r.step \in S => Cardinality(Busy(S)') <= Cardinality(Busy(S)) + 1
         /\ r.step \notin S => Cardinality(Busy(S)') <= Cardinality(Busy(S))
         /\ req[w].step \in S => Cardinality(Busy(S)') <= Cardinality(Busy(S))
         /\ req[w].step \in S /\ r.step \notin S =>
              Cardinality(Busy(S)') + 1 = Cardinality(Busy(S))
<1>1. PICK B : B = Busy(S)
  OBVIOUS
<1>2. PICK C : C = Busy(S)'
  OBVIOUS
<1>3. req'[w] = r /\ \A v \in Worker \ {w} : req'[v] = req[v]
  BY DEF Continue
<1>4. /\ r.step \in S => C = B \cup {w}
      /\ r.step \notin S => C = B \ {w}
      /\ req[w].step \in S <=> w \in B
  BY <1>1, <1>2, <1>3, Zenon DEF Busy
<1>5. IsFiniteSet(B)
  BY <1>1
<1>6. /\ IsFiniteSet(B \cup {w}) /\ Cardinality(B) \in Nat
      /\ Cardinality(B \cup {w}) = IF w \in B THEN Cardinality(B) ELSE Cardinality(B) + 1
  BY <1>5, FS_AddElement, FS_CardinalityType
<1>7. /\ IsFiniteSet(B \ {w})
      /\ Cardinality(B \ {w}) = IF w \in B THEN Cardinality(B) - 1 ELSE Cardinality(B)
  BY <1>5, FS_RemoveElement
<1>8. Cardinality(B \ {w}) \in Nat
  BY <1>7, FS_CardinalityType
<1>9. /\ IsFiniteSet(C) /\ Cardinality(C) \in Nat
      /\ r.step \in S => Cardinality(C) <= Cardinality(B) + 1
      /\ r.step \notin S => Cardinality(C) <= Cardinality(B)
      /\ req[w].step \in S => Cardinality(C) <= Cardinality(B)
      /\ req[w].step \in S /\ r.step \notin S => Cardinality(C) + 1 = Cardinality(B)
  <2>1. CASE r.step \in S
    BY <2>1, <1>4, <1>6
  <2>2. CASE r.step \notin S
    BY <2>2, <1>4, <1>6, <1>7, <1>8
  <2>3. QED
    BY <2>1, <2>2
<1>10. QED
  BY <1>1, <1>2, <1>6, <1>9

\* Who makes something has a place for it, and gives it up when it is made.
LEMMA RoomMoves ==
  ASSUME req = [v \in Worker |-> req[v]], NEW w \in Worker, NEW r, Continue(w, r),
         NEW S, NEW most \in Nat, NEW there \in Nat, NEW now \in Nat,
         Room(there, Busy(S), most),
         \/ now = there /\ (r.step \in S => req[w].step \in S)
         \/ now = there /\ there + Cardinality(Busy(S)) < most
         \/ now = there + 1 /\ req[w].step \in S /\ r.step \notin S
  PROVE  Room(now, Busy(S)', most) /\ now <= most
<1>1. PICK b : b = Cardinality(Busy(S))
  OBVIOUS
<1>2. PICK c : c = Cardinality(Busy(S)')
  OBVIOUS
<1>3. IsFiniteSet(Busy(S)) /\ there + b <= most
  BY <1>1 DEF Room
<1>4. /\ IsFiniteSet(Busy(S)') /\ b \in Nat /\ c \in Nat
      /\ r.step \in S => c <= b + 1
      /\ r.step \notin S => c <= b
      /\ req[w].step \in S => c <= b
      /\ req[w].step \in S /\ r.step \notin S => c + 1 = b
  BY <1>1, <1>2, <1>3, BusyMoves
<1>5. now + c <= most /\ now <= most
  <2>1. CASE now = there /\ (r.step \in S => req[w].step \in S)
    BY <1>3, <1>4, <2>1
  <2>2. CASE now = there /\ there + b < most
    BY <1>3, <1>4, <2>2
  <2>3. CASE now = there + 1 /\ req[w].step \in S /\ r.step \notin S
    BY <1>3, <1>4, <2>3
  <2>4. QED
    BY <1>1, <2>1, <2>2, <2>3
<1>6. QED
  BY <1>2, <1>4, <1>5 DEF Room

\* Everything that is typed but the requests and the room for what they make.
Elsewhere ==
  /\ enrolment \in [Student -> UserCourse]
  /\ watched \in [Student -> Said] /\ reached \in [Student -> Said]
  /\ visit \subseteq Visit
  /\ session \in Seq(Student)
  /\ answer \in Seq([session : 1..MaxSessions, lesson : Said])
  /\ cost \subseteq Cost
  /\ cache \subseteq [said : Said, reached : Said, lesson : Said]
  /\ reset \in {NoReset} \cup [step : {"find"}, student : Student]
                 \cup [step : {"remove"}, ids : SUBSET Messages]
  /\ month \in 0..MaxMonths /\ payments \in 0..MaxPayments
  /\ aborts \in 0..MaxAborts

\* A request goes on as r.
LEMMA TypeGoes ==
  ASSUME TypeInv, NEW w \in Worker, NEW r \in Held, Continue(w, r), Counts(r), Elsewhere',
         \/ session' = session /\ (r.step = "create" => req[w].step = "create")
         \/ session' = session /\ Len(session) + Cardinality(Busy({"create"})) < MaxSessions
         \/ Len(session') = Len(session) + 1 /\ req[w].step = "create" /\ r.step # "create",
         \/ answer' = answer /\ (r.step \in Pipeline => req[w].step \in Pipeline)
         \/ answer' = answer /\ Len(answer) + Cardinality(Busy(Pipeline)) < MaxMessages
         \/ /\ Len(answer') = Len(answer) + 1
            /\ req[w].step \in Pipeline /\ r.step \notin Pipeline
  PROVE  TypeInv'
<1>1. req \in [Worker -> Held] /\ req = [v \in Worker |-> req[v]]
  BY DEF TypeInv, TypeOK, Held
<1>2. req' \in [Worker -> Held] /\ \A v \in Worker : req'[v] = IF v = w THEN r ELSE req[v]
  BY <1>1 DEF Continue
<1>3. \A v \in Worker : Counts(req'[v])
  BY <1>2 DEF TypeInv
<1>4. /\ Len(session) \in Nat /\ Len(session') \in Nat /\ MaxSessions \in Nat
      /\ Len(answer) \in Nat /\ Len(answer') \in Nat /\ MaxMessages \in Nat
  <2>1. MaxSessions \in Nat /\ MaxMessages \in Nat
    BY AIChatAssumption
  <2>2. Len(session) \in Nat /\ Len(answer) \in Nat
    BY DEF TypeInv, TypeOK
  <2>3. /\ session' \in Seq(Student)
        /\ answer' \in Seq([session : 1..MaxSessions, lesson : Said])
    BY Zenon DEF Elsewhere
  <2>4. Len(session') \in Nat /\ Len(answer') \in Nat
    BY <2>3
  <2>5. QED
    BY <2>1, <2>2, <2>4
<1>5. /\ Room(Len(session), Busy({"create"}), MaxSessions)
      /\ Room(Len(answer), Busy(Pipeline), MaxMessages)
  BY DEF TypeInv, HasRoom
<1>6. Room(Len(session'), Busy({"create"})', MaxSessions) /\ Len(session') <= MaxSessions
  <2>1. PICK there \in Nat : there = Len(session)
    BY <1>4
  <2>2. PICK now \in Nat : now = Len(session')
    BY <1>4
  <2>3. \/ now = there /\ (r.step \in {"create"} => req[w].step \in {"create"})
        \/ now = there /\ there + Cardinality(Busy({"create"})) < MaxSessions
        \/ now = there + 1 /\ req[w].step \in {"create"} /\ r.step \notin {"create"}
    BY <2>1, <2>2
  <2>4. QED
    BY <1>1, <1>4, <1>5, <2>1, <2>2, <2>3, RoomMoves
<1>7. Room(Len(answer'), Busy(Pipeline)', MaxMessages) /\ Len(answer') <= MaxMessages
  <2>1. PICK there \in Nat : there = Len(answer)
    BY <1>4
  <2>2. PICK now \in Nat : now = Len(answer')
    BY <1>4
  <2>3. \/ now = there /\ (r.step \in Pipeline => req[w].step \in Pipeline)
        \/ now = there /\ there + Cardinality(Busy(Pipeline)) < MaxMessages
        \/ now = there + 1 /\ req[w].step \in Pipeline /\ r.step \notin Pipeline
    BY <2>1, <2>2
  <2>4. QED
    BY <1>1, <1>4, <1>5, <2>1, <2>2, <2>3, RoomMoves
<1>8. HasRoom'
  BY <1>6, <1>7 DEF HasRoom, Room
<1>9. TypeOK'
  BY <1>2, <1>6, <1>7 DEF TypeOK, Elsewhere, Held
<1>10. QED
  BY <1>3, <1>8, <1>9 DEF TypeInv

\* A request that goes on as r, which holds no place that it did not hold before.
LEMMA TypeMoves ==
  ASSUME TypeInv, NEW w \in Worker, NEW r \in Held, Continue(w, r), Counts(r), Elsewhere',
         UNCHANGED <<session, answer>>,
         r.step # "create",
         r.step \in Pipeline => req[w].step \in Pipeline
  PROVE  TypeInv'
  BY TypeGoes

\* What stays typed when an action leaves it alone.
LEMMA StillTyped ==
  ASSUME TypeInv
  PROVE  /\ Elsewhere
         /\ UNCHANGED <<World, session, answer, cost, cache, aborts>> => Elsewhere'
         /\ UNCHANGED <<World, session, answer, cost, aborts>>
            /\ (cache \subseteq [said : Said, reached : Said, lesson : Said])' => Elsewhere'
  BY DEF TypeInv, TypeOK, Elsewhere, World

LEMMA VoiceTyped ==
  ASSUME TypeInv, NEW w \in Worker, req[w].step \in Pipeline \cup Tracking
  PROVE  req[w] \in VoiceInput /\ Counts(req[w])
<1>1. req[w] \in Held /\ Counts(req[w])
  BY DEF TypeInv, TypeOK, Held
<1>2. QED
  BY <1>1 DEF Held, Idle, Pipeline, Tracking

\* An answer on its way.
LEMMA ReplyTyped ==
  ASSUME TypeInv, NEW w \in Worker, req[w].step \in Pipeline \cup Tracking,
         NEW step \in {"speak", "save"}, NEW lesson \in Said, NEW usage \in {0, 1},
         req[w].usage + usage <= 2
  PROVE  /\ Reply(w, step, lesson, usage) \in Held
         /\ Counts(Reply(w, step, lesson, usage))
         /\ Reply(w, step, lesson, usage).step = step
<1>1. req[w] \in VoiceInput
  BY VoiceTyped
<1>2. PICK q \in VoiceInput : q = req[w]
  BY <1>1
<1>3. PICK now \in 0..3 : now = q.usage + usage /\ now <= 2
  BY <1>2 DEF VoiceInput
<1>4. PICK r : r = Reply(w, step, lesson, usage)
  OBVIOUS
<1>5. r = [q EXCEPT !.step = step, !.lesson = lesson, !.usage = now, !.said = 0,
                    !.reached = 0, !.context = {}, !.tries = 0, !.yesNo = FALSE]
  BY <1>2, <1>3, <1>4, Zenon DEF Reply
<1>6. 0 \in Said /\ 0 \in 0..MaxRetries /\ {} \in SUBSET Lessons
  BY AIChatAssumption DEF Said
<1>7. step \in Pipeline
  BY DEF Pipeline
<1>8. r \in VoiceInput /\ r.step = step /\ r.usage = now
  BY <1>2, <1>3, <1>5, <1>6, <1>7 DEF VoiceInput
<1>9. Counts(r)
  BY <1>3, <1>8 DEF Counts
<1>10. QED
  BY <1>4, <1>8, <1>9 DEF Held

-----------------------------------------------------------------------------
LEMMA IdleTyped == Idle \in Held /\ Counts(Idle) /\ Idle.step = "idle"
  BY DEF Held, Idle, Counts

LEMMA TypeEnds ==
  ASSUME TypeInv, NEW w \in Worker, Continue(w, Idle), Elsewhere', UNCHANGED <<session, answer>>
  PROVE  TypeInv'
<1>1. Idle \in Held /\ Counts(Idle) /\ Idle.step # "create" /\ Idle.step \notin Pipeline
  BY IdleTyped DEF Pipeline
<1>2. PICK r \in Held : r = Idle
  BY <1>1
<1>3. QED
  BY <1>1, <1>2, TypeMoves

LEMMA NoneSaid == 0 \in Said
  BY AIChatAssumption DEF Said

LEMMA TypeReplies ==
  ASSUME TypeInv, NEW w \in Worker, req[w].step \in Pipeline, Elsewhere',
         UNCHANGED <<session, answer>>,
         NEW step \in {"speak", "save"}, NEW lesson \in Said, NEW usage \in {0, 1},
         req[w].usage + usage <= 2, Continue(w, Reply(w, step, lesson, usage))
  PROVE  TypeInv'
<1>1. PICK r : r = Reply(w, step, lesson, usage)
  OBVIOUS
<1>2. r \in Held /\ Counts(r) /\ r.step = step
  BY <1>1, ReplyTyped
<1>3. QED
  BY <1>1, <1>2, TypeMoves

LEMMA TypeExpire ==
  ASSUME TypeInv, NEW w \in Worker, ExpireSubscription(w)
  PROVE  TypeInv'
<1>1. req[w] \in Held /\ req[w].step = "expire"
  BY DEF TypeInv, TypeOK, Held, ExpireSubscription, At
<1>2. req[w] \in [step : {"expire"}, student : Student, row : UserCourse]
  BY <1>1 DEF Held, VoiceInput, Pipeline, Tracking, Idle
<1>3. [req[w].row EXCEPT !.active = FALSE] \in UserCourse
  BY <1>2 DEF UserCourse
<1>4. enrolment' \in [Student -> UserCourse]
  BY <1>2, <1>3 DEF ExpireSubscription, TypeInv, TypeOK
<1>5. Elsewhere'
  BY <1>4 DEF Elsewhere, TypeInv, TypeOK, ExpireSubscription
<1>6. QED
  BY <1>5, TypeEnds DEF ExpireSubscription

LEMMA TypeAbort ==
  ASSUME TypeInv, NEW w \in Worker, AbortRequest(w)
  PROVE  TypeInv'
<1>1. aborts' \in 0..MaxAborts
  BY AIChatAssumption DEF TypeInv, TypeOK, AbortRequest
<1>2. Elsewhere'
  BY <1>1 DEF Elsewhere, TypeInv, TypeOK, AbortRequest, World
<1>3. QED
  BY <1>2, TypeEnds DEF AbortRequest

LEMMA TypeCheckLimit ==
  ASSUME TypeInv, NEW w \in Worker, CheckLimit(w)
  PROVE  TypeInv'
<1>1. Elsewhere' /\ UNCHANGED <<session, answer>>
  BY StillTyped DEF CheckLimit
<1>2. CASE Continue(w, Idle)
  BY <1>1, <1>2, TypeEnds
<1>3. CASE Continue(w, [req[w] EXCEPT !.step = "hear"])
  <2>1. req[w].step = "check" /\ req[w] \in VoiceInput /\ Counts(req[w])
    BY VoiceTyped DEF CheckLimit, At, Pipeline
  <2>2. PICK r : r = [req[w] EXCEPT !.step = "hear"]
    OBVIOUS
  <2>3. r \in VoiceInput /\ r.step = "hear" /\ r.usage = req[w].usage
    BY <2>1, <2>2 DEF VoiceInput, Pipeline
  <2>4. Counts(r) /\ r \in Held
    BY <2>1, <2>3 DEF Counts, Held
  <2>5. QED
    BY <1>1, <1>3, <2>1, <2>2, <2>3, <2>4, TypeMoves DEF Pipeline
<1>4. QED
  BY <1>2, <1>3 DEF CheckLimit

LEMMA TypeTranscribe ==
  ASSUME TypeInv, NEW w \in Worker, Transcribe(w)
  PROVE  TypeInv'
<1>1. Elsewhere' /\ UNCHANGED <<session, answer>>
  BY StillTyped DEF Transcribe
<1>2. /\ req[w].step = "hear" /\ req[w].step \in Pipeline
      /\ req[w] \in VoiceInput /\ Counts(req[w]) /\ req[w].usage = 0
  BY VoiceTyped DEF Transcribe, At, Pipeline, Counts
<1>3. PICK usage \in {0, 1} :
        \/ Continue(w, [req[w] EXCEPT !.step = "context", !.usage = usage])
        \/ Continue(w, Reply(w, "save", 0, usage))
  <2>1. PICK heard \in SpeechToText :
          \/ Continue(w, [req[w] EXCEPT !.step = "context", !.usage = heard.usage])
          \/ Continue(w, Reply(w, "save", 0, heard.usage))
    BY Zenon DEF Transcribe
  <2>2. heard.usage \in {0, 1}
    BY DEF SpeechToText
  <2>3. QED
    BY <2>1, <2>2, Zenon
<1>4. CASE Continue(w, [req[w] EXCEPT !.step = "context", !.usage = usage])
  <2>1. PICK r : r = [req[w] EXCEPT !.step = "context", !.usage = usage]
    OBVIOUS
  <2>2. r \in VoiceInput /\ r.step = "context" /\ r.usage = usage
    <3>1. usage \in 0..3
      OBVIOUS
    <3>2. QED
      BY <1>2, <2>1, <3>1 DEF VoiceInput, Pipeline
  <2>3. Counts(r) /\ r \in Held
    BY <2>2 DEF Counts, Held
  <2>4. QED
    BY <1>1, <1>2, <1>4, <2>1, <2>2, <2>3, TypeMoves
<1>5. CASE Continue(w, Reply(w, "save", 0, usage))
  BY <1>1, <1>2, <1>5, TypeReplies, NoneSaid
<1>6. QED
  BY <1>3, <1>4, <1>5

LEMMA TypeBuildContext ==
  ASSUME TypeInv, ReachedInv, NEW w \in Worker, BuildContext(w)
  PROVE  TypeInv'
<1>1. Elsewhere' /\ UNCHANGED <<session, answer>>
  BY StillTyped DEF BuildContext
<1>2. /\ req[w].step = "context" /\ req[w].step \in Pipeline
      /\ req[w] \in VoiceInput /\ Counts(req[w]) /\ req[w].usage <= 1
      /\ req[w].usage \in 0..3
  BY VoiceTyped DEF BuildContext, At, Pipeline, Counts, VoiceInput
<1>3. reached[Owner(w)] \in Said
  <2>1. Owner(w) \in Student
    BY <1>2, VoiceRecord
  <2>2. QED
    BY <2>1 DEF TypeInv, TypeOK
<1>4. PICK order \in Said, found \in SUBSET Lessons :
        \/ \E said \in {req[w].said} \cup found :
             Continue(w, [req[w] EXCEPT !.step = "ask", !.said = said, !.reached = order,
                                        !.context = found])
        \/ Continue(w, Reply(w, "save", 0, 0))
  BY <1>3 DEF BuildContext, Search, Visible, Corrected
<1>5. ASSUME NEW said \in {req[w].said} \cup found,
             Continue(w, [req[w] EXCEPT !.step = "ask", !.said = said, !.reached = order,
                                        !.context = found])
      PROVE  TypeInv'
  <2>1. PICK r : r = [req[w] EXCEPT !.step = "ask", !.said = said, !.reached = order,
                                    !.context = found]
    OBVIOUS
  <2>2. said \in Said
    <3>1. req[w].said \in Said
      BY <1>2 DEF VoiceInput
    <3>2. Lessons \subseteq Said
      BY DEF Lessons, Said
    <3>3. QED
      BY <3>1, <3>2
  <2>3. r \in VoiceInput /\ r.step = "ask" /\ r.usage = req[w].usage
    BY <1>2, <2>1, <2>2 DEF VoiceInput, Pipeline
  <2>4. Counts(r) /\ r \in Held
    BY <1>2, <2>3 DEF Counts, Held
  <2>5. QED
    BY <1>1, <1>2, <1>5, <2>1, <2>3, <2>4, TypeMoves
<1>6. CASE Continue(w, Reply(w, "save", 0, 0))
  BY <1>1, <1>2, <1>6, TypeReplies, NoneSaid
<1>7. QED
  BY <1>4, <1>5, <1>6

LEMMA TypeTextToSpeech ==
  ASSUME TypeInv, NEW w \in Worker, TextToSpeech(w)
  PROVE  TypeInv'
<1>1. Elsewhere' /\ UNCHANGED <<session, answer>>
  BY StillTyped DEF TextToSpeech
<1>2. /\ req[w].step = "speak" /\ req[w].step \in Pipeline
      /\ req[w] \in VoiceInput /\ Counts(req[w]) /\ req[w].usage <= 2
  BY VoiceTyped DEF TextToSpeech, At, Pipeline, Counts
<1>3. PICK characters \in {0, 1} :
        Continue(w, [req[w] EXCEPT !.step = "save", !.usage = @ + characters])
  BY DEF TextToSpeech, Characters
<1>4. PICK now \in 0..3 : now = req[w].usage + characters
  BY <1>2 DEF VoiceInput
<1>5. PICK r : r = [req[w] EXCEPT !.step = "save", !.usage = now]
  OBVIOUS
<1>6. Continue(w, r)
  BY <1>3, <1>4, <1>5, Zenon DEF Continue
<1>7. r \in VoiceInput /\ r.step = "save"
  BY <1>2, <1>5 DEF VoiceInput, Pipeline
<1>8. Counts(r) /\ r \in Held
  BY <1>7 DEF Counts, Held
<1>9. QED
  BY <1>1, <1>2, <1>6, <1>7, <1>8, TypeMoves

LEMMA RememberTyped ==
  ASSUME TypeInv, NEW w \in Worker, req[w] \in VoiceInput, NEW lesson \in Said,
         cache' = cache \/ Remember(w, lesson)
  PROVE  (cache \subseteq [said : Said, reached : Said, lesson : Said])'
<1>1. /\ cache \subseteq [said : Said, reached : Said, lesson : Said]
      /\ req[w].said \in Said /\ req[w].reached \in Said
  BY DEF TypeInv, TypeOK, VoiceInput
<1>2. [said |-> req[w].said, reached |-> req[w].reached, lesson |-> lesson]
        \in [said : Said, reached : Said, lesson : Said]
  BY <1>1
<1>3. cache' \subseteq cache \cup
        {[said |-> req[w].said, reached |-> req[w].reached, lesson |-> lesson]}
  BY DEF Remember
<1>4. QED
  BY <1>1, <1>2, <1>3

\* What an answer may use is a lesson, or none.
LEMMA LessonsTyped ==
  ASSUME TypeInv, NEW w \in Worker, req[w] \in VoiceInput
  PROVE  /\ \A e \in Cached(w) : e.lesson \in Said
         /\ Precomputed(w) \subseteq Said /\ Completion(w) \subseteq Said
         /\ Matches(w) \subseteq Said
         /\ \A match \in Matches(w) : FromMaterial(w, match) \subseteq Said
<1>1. /\ req[w].said \in Said /\ req[w].context \subseteq Lessons
      /\ cache \subseteq [said : Said, reached : Said, lesson : Said]
  BY DEF TypeInv, TypeOK, VoiceInput
<1>2. Lessons \subseteq Said /\ 0 \in Said
  BY NoneSaid DEF Lessons, Said
<1>3. FilteredContext(w) \subseteq Said /\ Matches(w) \subseteq Said
  BY <1>1, <1>2 DEF FilteredContext, Matches
<1>4. \A e \in Cached(w) : e.lesson \in Said
  BY <1>1 DEF Cached
<1>5. Precomputed(w) \subseteq Said /\ Completion(w) \subseteq Said
  BY <1>1, <1>2, <1>3 DEF Precomputed, Completion
<1>6. \A match \in Matches(w) : FromMaterial(w, match) \subseteq Said
  BY <1>3, Zenon DEF FromMaterial, FollowUp
<1>7. QED
  BY <1>3, <1>4, <1>5, <1>6

LEMMA TypeAsk ==
  ASSUME TypeInv, NEW w \in Worker, Ask(w)
  PROVE  TypeInv'
<1>1. UNCHANGED <<session, answer>> /\ UNCHANGED <<World, session, answer, cost, aborts>>
  BY DEF Ask
<1>2. /\ req[w].step = "ask" /\ req[w].step \in Pipeline
      /\ req[w] \in VoiceInput /\ Counts(req[w]) /\ req[w].usage <= 1
      /\ req[w].usage \in 0..3
  BY VoiceTyped DEF Ask, At, Pipeline, Counts, VoiceInput
<1>3. ASSUME NEW step \in {"speak", "save"}, NEW lesson \in Said,
             Continue(w, Reply(w, step, lesson, 0)), cache' = cache \/ Remember(w, lesson)
      PROVE  TypeInv'
  <2>1. Elsewhere'
    BY <1>1, <1>2, <1>3, RememberTyped, StillTyped
  <2>2. QED
    BY <1>1, <1>2, <1>3, <2>1, TypeReplies
<1>4. ASSUME NEW yesNo \in BOOLEAN, cache' = cache,
             Continue(w, [req[w] EXCEPT !.step = "gpt", !.yesNo = yesNo])
      PROVE  TypeInv'
  <2>1. Elsewhere'
    BY <1>1, <1>4, StillTyped DEF TypeInv, TypeOK
  <2>2. PICK r : r = [req[w] EXCEPT !.step = "gpt", !.yesNo = yesNo]
    OBVIOUS
  <2>3. r \in VoiceInput /\ r.step = "gpt" /\ r.usage = req[w].usage
    BY <1>2, <2>2 DEF VoiceInput, Pipeline
  <2>4. Counts(r) /\ r \in Held
    BY <1>2, <2>3 DEF Counts, Held
  <2>5. QED
    BY <1>1, <1>2, <1>4, <2>1, <2>2, <2>3, <2>4, TypeMoves
<1>5. \/ \E e \in Cached(w) : Continue(w, Reply(w, "speak", e.lesson, 0)) /\ cache' = cache
      \/ \E l \in Precomputed(w) : Continue(w, Reply(w, "speak", l, 0)) /\ Remember(w, l)
      \/ \E yesNo \in BOOLEAN :
           Continue(w, [req[w] EXCEPT !.step = "gpt", !.yesNo = yesNo]) /\ cache' = cache
      \/ \E match \in Matches(w) : \E l \in FromMaterial(w, match) :
           Continue(w, Reply(w, "speak", l, 0)) /\ Remember(w, l)
      \/ \E step \in {"save", "speak"} : Continue(w, Reply(w, step, 0, 0)) /\ Remember(w, 0)
  BY Zenon DEF Ask, PreparedAnswer
<1>6. CASE \E e \in Cached(w) : Continue(w, Reply(w, "speak", e.lesson, 0)) /\ cache' = cache
  <2>1. PICK e \in Cached(w) : Continue(w, Reply(w, "speak", e.lesson, 0)) /\ cache' = cache
    BY <1>6
  <2>2. PICK l \in Said : l = e.lesson
    BY <1>2, LessonsTyped
  <2>3. QED
    BY <1>3, <2>1, <2>2
<1>7. CASE \E l \in Precomputed(w) : Continue(w, Reply(w, "speak", l, 0)) /\ Remember(w, l)
  BY <1>2, <1>3, <1>7, LessonsTyped
<1>8. CASE \E match \in Matches(w) : \E l \in FromMaterial(w, match) :
             Continue(w, Reply(w, "speak", l, 0)) /\ Remember(w, l)
  BY <1>2, <1>3, <1>8, LessonsTyped
<1>9. CASE \E step \in {"save", "speak"} :
             Continue(w, Reply(w, step, 0, 0)) /\ Remember(w, 0)
  BY <1>3, <1>9, NoneSaid
<1>10. QED
  BY <1>4, <1>5, <1>6, <1>7, <1>8, <1>9

LEMMA TypeCallOpenAI ==
  ASSUME TypeInv, NEW w \in Worker, CallOpenAI(w)
  PROVE  TypeInv'
<1>1. UNCHANGED <<session, answer>> /\ UNCHANGED <<World, session, answer, cost, aborts>>
  BY DEF CallOpenAI
<1>2. /\ req[w].step = "gpt" /\ req[w].step \in Pipeline
      /\ req[w] \in VoiceInput /\ Counts(req[w]) /\ req[w].usage <= 1
      /\ req[w].usage \in 0..3
  BY VoiceTyped DEF CallOpenAI, At, Pipeline, Counts, VoiceInput
<1>3. ASSUME NEW step \in {"speak", "save"}, NEW lesson \in Said, NEW usage \in {0, 1},
             AnswerWith(w, step, lesson, usage)
      PROVE  TypeInv'
  <2>1. cache' = cache \/ Remember(w, lesson)
    BY <1>3 DEF AnswerWith
  <2>2. Elsewhere'
    BY <1>1, <1>2, <2>1, RememberTyped, StillTyped
  <2>3. req[w].usage + usage <= 2
    BY <1>2
  <2>4. QED
    BY <1>1, <1>2, <1>3, <2>2, <2>3, TypeReplies DEF AnswerWith
<1>4. CASE Retry(w)
  <2>1. Elsewhere'
    BY <1>1, <1>4, StillTyped DEF TypeInv, TypeOK, Retry
  <2>2. PICK tries \in 0..MaxRetries : tries = req[w].tries + 1
    BY <1>2, <1>4, AIChatAssumption DEF Retry, VoiceInput
  <2>3. PICK r : r = [req[w] EXCEPT !.tries = tries]
    OBVIOUS
  <2>4. Continue(w, r)
    BY <1>4, <2>2, <2>3, Zenon DEF Retry, Continue
  <2>5. r \in VoiceInput /\ r.step = "gpt" /\ r.usage = req[w].usage
    BY <1>2, <2>3 DEF VoiceInput
  <2>6. Counts(r) /\ r \in Held
    BY <1>2, <2>5 DEF Counts, Held
  <2>7. QED
    BY <1>1, <1>2, <2>1, <2>4, <2>5, <2>6, TypeMoves
<1>5. CASE \E l \in Completion(w) : AnswerWith(w, "speak", l, 1)
  BY <1>2, <1>3, <1>5, LessonsTyped
<1>6. CASE AnswerWith(w, "save", 0, 0) \/ AnswerWith(w, "speak", 0, 0)
  BY <1>3, <1>6, NoneSaid
<1>7. QED
  BY <1>4, <1>5, <1>6 DEF CallOpenAI

\* The messages of recorded costs.
LEMMA IdsTyped ==
  ASSUME TypeInv, NEW S \in SUBSET cost
  PROVE  Ids(S) \subseteq Messages
<1>1. cost \subseteq Cost
  BY DEF TypeInv, TypeOK
<1>2. QED
  BY <1>1 DEF Ids, Cost

\* A step of the transaction that neither stores nor records anything.
LEMMA TypeTracks ==
  ASSUME TypeInv, NEW w \in Worker, NEW r \in VoiceInput, Continue(w, r),
         r.step \in Tracking, UNCHANGED <<World, session, answer, cost, cache, aborts>>
  PROVE  TypeInv'
<1>1. Elsewhere'
  BY StillTyped
<1>2. Counts(r) /\ r \in Held /\ r.step # "create" /\ r.step \notin Pipeline
  BY DEF Counts, Held, Tracking, Pipeline
<1>3. QED
  BY <1>1, <1>2, TypeMoves

LEMMA TypeSelectForUpdate ==
  ASSUME TypeInv, NEW w \in Worker, SelectForUpdate(w)
  PROVE  TypeInv'
<1>1. req[w] \in VoiceInput
  BY VoiceTyped DEF SelectForUpdate, At, Tracking
<1>2. PICK rows \in SUBSET Messages : rows = Ids(Records(Owner(w), month))
  BY IdsTyped DEF Records
<1>3. month \in 0..MaxMonths
  BY DEF TypeInv, TypeOK
<1>4. PICK r : r = [req[w] EXCEPT !.step = "lock", !.month = month, !.locked = rows]
  OBVIOUS
<1>5. r \in VoiceInput /\ r.step \in Tracking
  BY <1>1, <1>3, <1>4 DEF VoiceInput, Tracking
<1>6. QED
  BY <1>2, <1>4, <1>5, TypeTracks DEF SelectForUpdate

LEMMA TypeLock ==
  ASSUME TypeInv, NEW w \in Worker, Lock(w)
  PROVE  TypeInv'
<1>1. req[w] \in VoiceInput
  BY VoiceTyped DEF Lock, At, Tracking
<1>2. PICK rows \in SUBSET Messages : rows = req[w].locked \cap Ids(cost)
  BY <1>1 DEF VoiceInput
<1>3. PICK r : r = [req[w] EXCEPT !.step = "sum", !.locked = rows]
  OBVIOUS
<1>4. Continue(w, r)
  BY <1>2, <1>3, Zenon DEF Lock, Continue
<1>5. r \in VoiceInput /\ r.step \in Tracking
  BY <1>1, <1>3 DEF VoiceInput, Tracking
<1>6. QED
  BY <1>4, <1>5, TypeTracks DEF Lock

LEMMA TypeSum ==
  ASSUME TypeInv, SpendInv, NEW w \in Worker, Sum(w)
  PROVE  TypeInv'
<1>1. req[w] \in VoiceInput
  BY VoiceTyped DEF Sum, At, Tracking
<1>2. PICK total \in Nat : total = MonthTotal(Owner(w), req[w].month)
  BY MonthIs DEF SpendInv
<1>3. PICK r : r = [req[w] EXCEPT !.step = "commit", !.total = total]
  OBVIOUS
<1>4. r \in VoiceInput /\ r.step \in Tracking
  BY <1>1, <1>3 DEF VoiceInput, Tracking
<1>5. QED
  BY <1>2, <1>3, <1>4, TypeTracks DEF Sum

LEMMA TypeCommit ==
  ASSUME TypeInv, ReachedInv, SpendInv, NEW w \in Worker, Commit(w)
  PROVE  TypeInv'
<1>1. req[w] \in VoiceInput /\ req[w].step \in Tracking
  BY VoiceTyped DEF Commit, At, Tracking
<1>2. Owner(w) \in Student
  BY <1>1, VoiceRecord
<1>3. req[w].message \in Messages
  <2>1. req[w].message \in Issued
    BY <1>1 DEF SpendInv, Serial, Sound, Unused
  <2>2. Len(answer) \in Nat /\ Len(answer) <= MaxMessages
    BY DEF TypeInv, TypeOK
  <2>3. QED
    BY <2>1, <2>2, AIChatAssumption DEF Issued, Messages
<1>4. PICK c : c = [message |-> req[w].message, student |-> Owner(w), month |-> req[w].month,
                    amount |-> req[w].usage, after |-> req[w].locked]
  OBVIOUS
<1>5. c \in Cost
  BY <1>1, <1>2, <1>3, <1>4 DEF VoiceInput, Cost
<1>6. cost' \subseteq cost \cup {c}
  BY <1>4 DEF Commit
<1>7. Elsewhere'
  BY <1>5, <1>6 DEF Elsewhere, TypeInv, TypeOK, Commit, World
<1>8. QED
  BY <1>7, TypeEnds DEF Commit

-----------------------------------------------------------------------------
\* A guarded handler goes on as its first record or saves a subscription that is over.
LEMMA GuardedTyped ==
  ASSUME TypeInv, NEW w \in Worker, NEW s \in Student, NEW first \in Held, Counts(first),
         Guarded(w, s, first)
  PROVE  \E r \in Held : /\ Continue(w, r) /\ Counts(r)
                         /\ r.step = first.step \/ r.step = "expire"
<1>1. PICK r : /\ r = [step |-> "expire", student |-> s, row |-> enrolment[s]] \/ r = first
               /\ Continue(w, r)
  BY DEF Guarded
<1>2. CASE r = first
  BY <1>1, <1>2
<1>3. CASE r = [step |-> "expire", student |-> s, row |-> enrolment[s]]
  <2>1. enrolment[s] \in UserCourse
    BY DEF TypeInv, TypeOK
  <2>2. r \in Held /\ Counts(r) /\ r.step = "expire"
    BY <1>3, <2>1 DEF Held, Counts
  <2>3. QED
    BY <1>1, <2>2
<1>4. QED
  BY <1>1, <1>2, <1>3

LEMMA TypeCreateSession ==
  ASSUME TypeInv, NEW w \in Worker, NEW s \in Student, CreateSession(w, s)
  PROVE  TypeInv'
<1>1. Elsewhere' /\ UNCHANGED <<session, answer>>
  BY StillTyped DEF CreateSession
<1>2. PICK first \in Held : first = [step |-> "create", student |-> s]
  BY DEF Held
<1>3. Counts(first) /\ first.step = "create"
  BY <1>2 DEF Counts
<1>4. PICK r \in Held : /\ Continue(w, r) /\ Counts(r)
                        /\ r.step = "create" \/ r.step = "expire"
  BY <1>2, <1>3, GuardedTyped DEF CreateSession
<1>5. r.step \notin Pipeline
  BY <1>4 DEF Pipeline
<1>6. Len(session) + Cardinality(Busy({"create"})) < MaxSessions
  BY DEF CreateSession
<1>7. QED
  BY <1>1, <1>4, <1>5, <1>6, TypeGoes

LEMMA TypeInsertSession ==
  ASSUME TypeInv, NEW w \in Worker, InsertSession(w)
  PROVE  TypeInv'
<1>1. req[w].step = "create" /\ req[w].student \in Student
  <2>1. req[w] \in Held /\ req[w].step = "create"
    BY DEF TypeInv, TypeOK, Held, InsertSession, At
  <2>2. QED
    BY <2>1 DEF Held, VoiceInput, Pipeline, Tracking, Idle
<1>2. session \in Seq(Student) /\ session' = Append(session, req[w].student)
  BY DEF InsertSession, TypeInv, TypeOK
<1>3. session' \in Seq(Student) /\ Len(session)' = Len(session) + 1
  BY <1>1, <1>2
<1>4. Elsewhere' /\ answer' = answer
  BY <1>3 DEF Elsewhere, TypeInv, TypeOK, InsertSession, World
<1>5. PICK r \in Held : r = Idle /\ Counts(r) /\ r.step = "idle"
  BY IdleTyped
<1>6. Continue(w, r) /\ r.step # "create" /\ r.step \notin Pipeline
  BY <1>5 DEF InsertSession, Pipeline
<1>7. QED
  BY <1>1, <1>3, <1>4, <1>5, <1>6, TypeGoes

LEMMA TypeSendVoice ==
  ASSUME TypeInv, NEW w \in Worker, NEW i \in 1..MaxSessions, NEW said \in Said,
         SendVoice(w, i, said)
  PROVE  TypeInv'
<1>1. Elsewhere' /\ UNCHANGED <<session, answer>>
  BY StillTyped DEF SendVoice
<1>2. PICK first : first =
        [step |-> "check", session |-> i, said |-> said, reached |-> 0, context |-> {},
         yesNo |-> FALSE, lesson |-> 0, tries |-> 0, usage |-> 0, message |-> 0,
         month |-> 0, locked |-> {}, total |-> 0]
  OBVIOUS
<1>3. /\ 0 \in Said /\ 0 \in 0..MaxRetries /\ 0 \in 0..3 /\ 0 \in 0..MaxMessages
      /\ 0 \in 0..MaxMonths /\ 0 \in Nat
  BY NoneSaid, AIChatAssumption
<1>4. first \in VoiceInput /\ first.step = "check" /\ first.usage = 0
  BY <1>2, <1>3 DEF VoiceInput, Pipeline
<1>5. first \in Held /\ Counts(first)
  BY <1>4 DEF Held, Counts
<1>6. session[i] \in Student /\ Guarded(w, session[i], first)
  <2>1. i \in DOMAIN session /\ session \in Seq(Student)
    BY DEF SendVoice, TypeInv, TypeOK
  <2>2. Guarded(w, session[i], first)
    BY <1>2, Zenon DEF SendVoice
  <2>3. QED
    BY <2>1, <2>2
<1>7. PICK r \in Held : /\ Continue(w, r) /\ Counts(r)
                        /\ r.step = "check" \/ r.step = "expire"
  BY <1>4, <1>5, <1>6, GuardedTyped
<1>8. Len(answer) + Cardinality(Busy(Pipeline)) < MaxMessages
  BY DEF SendVoice
<1>9. QED
  BY <1>1, <1>7, <1>8, TypeGoes

LEMMA TypeSaveAnswer ==
  ASSUME TypeInv, NEW w \in Worker, SaveAnswer(w)
  PROVE  TypeInv'
<1>1. req[w] \in VoiceInput /\ req[w].step = "save" /\ req[w].step \in Pipeline
  BY VoiceTyped DEF SaveAnswer, At, Pipeline
<1>2. PICK a \in [session : 1..MaxSessions, lesson : Said] :
        a = [session |-> req[w].session, lesson |-> req[w].lesson]
  BY <1>1 DEF VoiceInput
<1>3. answer \in Seq([session : 1..MaxSessions, lesson : Said]) /\ answer' = Append(answer, a)
  BY <1>2 DEF SaveAnswer, TypeInv, TypeOK
<1>4. /\ answer' \in Seq([session : 1..MaxSessions, lesson : Said])
      /\ Len(answer)' = Len(answer) + 1
  BY <1>3
<1>5. Elsewhere' /\ session' = session
  BY <1>4 DEF Elsewhere, TypeInv, TypeOK, SaveAnswer, World
<1>6. PICK r : r = [req[w] EXCEPT !.step = "begin", !.message = Len(answer) + 1]
  OBVIOUS
<1>7. Continue(w, r) /\ r.step = "begin"
  <2>1. Continue(w, r)
    BY <1>6, Zenon DEF SaveAnswer
  <2>2. QED
    BY <1>1, <1>6, <2>1 DEF VoiceInput
<1>8. r.step # "create" /\ r.step \notin Pipeline
  BY <1>7 DEF Pipeline
<1>9. Len(answer) + 1 \in 0..MaxMessages
  <2>1. PICK n \in Nat : n = Cardinality(Busy(Pipeline))
    BY FS_CardinalityType DEF TypeInv, HasRoom, Room
  <2>2. n >= 1
    <3>1. w \in Busy(Pipeline) /\ IsFiniteSet(Busy(Pipeline))
      BY <1>1 DEF Busy, TypeInv, HasRoom, Room
    <3>2. Cardinality(Busy(Pipeline)) # 0
      BY <3>1, FS_EmptySet
    <3>3. QED
      BY <2>1, <3>2
  <2>3. Len(answer) \in Nat /\ Len(answer) + n <= MaxMessages
    BY <2>1 DEF TypeInv, TypeOK, HasRoom, Room
  <2>4. QED
    BY <2>2, <2>3, AIChatAssumption
<1>10. r \in VoiceInput
  BY <1>1, <1>6, <1>9 DEF VoiceInput, Tracking
<1>11. r \in Held /\ Counts(r)
  BY <1>7, <1>10 DEF Held, Counts
<1>12. QED
  BY <1>1, <1>4, <1>5, <1>7, <1>8, <1>11, TypeGoes

-----------------------------------------------------------------------------
\* What leaves the requests alone.
LEMMA TypeElsewhere ==
  ASSUME TypeInv, UNCHANGED <<session, answer, req>>, Elsewhere'
  PROVE  TypeInv'
<1>1. TypeOK'
  BY DEF TypeInv, TypeOK, Elsewhere
<1>2. HasRoom' /\ \A w \in Worker : Counts(req[w])'
  BY DEF TypeInv, HasRoom, Room, Busy, Counts
<1>3. QED
  BY <1>1, <1>2 DEF TypeInv

LEMMA TypeReset ==
  ASSUME TypeInv, (\E s \in Student : Pay(s)) \/ FindRecords \/ RemoveRecords
  PROVE  TypeInv'
<1>1. CASE \E s \in Student : Pay(s)
  <2>1. PICK s \in Student : Pay(s)
    BY <1>1
  <2>2. payments' \in 0..MaxPayments
    BY <2>1, AIChatAssumption DEF Pay, TypeInv, TypeOK
  <2>3. Elsewhere' /\ UNCHANGED <<session, answer, req>>
    BY <2>1, <2>2 DEF Pay, TypeInv, TypeOK, Elsewhere, Requests, UserCourse
  <2>4. QED
    BY <2>3, TypeElsewhere
<1>2. CASE FindRecords
  <2>1. Ids(Records(reset.student, month)) \subseteq Messages
    BY IdsTyped DEF Records
  <2>2. Elsewhere' /\ UNCHANGED <<session, answer, req>>
    BY <1>2, <2>1 DEF FindRecords, TypeInv, TypeOK, Elsewhere, Requests
  <2>3. QED
    BY <2>2, TypeElsewhere
<1>3. CASE RemoveRecords
  <2>1. Elsewhere' /\ UNCHANGED <<session, answer, req>>
    BY <1>3 DEF RemoveRecords, TypeInv, TypeOK, Elsewhere, Requests
  <2>2. QED
    BY <2>1, TypeElsewhere
<1>4. QED
  BY <1>1, <1>2, <1>3

LEMMA TypeWatchLesson ==
  ASSUME TypeInv, NEW s \in Learner, NEW lesson \in Lessons, WatchLesson(s, lesson)
  PROVE  TypeInv'
<1>1. s \in Student /\ reached[s] \in Said
  BY AIChatAssumption DEF TypeInv, TypeOK
<1>2. visit' \subseteq Visit
  BY <1>1, Reads DEF WatchLesson, TypeInv, TypeOK
<1>3. Elsewhere' /\ UNCHANGED <<session, answer, req>>
  BY <1>2 DEF WatchLesson, TypeInv, TypeOK, Elsewhere, Requests
<1>4. QED
  BY <1>3, TypeElsewhere

LEMMA TypeSaveProgress ==
  ASSUME TypeInv, NEW v \in visit, SaveProgress(v)
  PROVE  TypeInv'
<1>1. PICK s, lesson, order : s = v.student /\ lesson = v.lesson /\ order = v.order
  OBVIOUS
<1>2. s \in Student /\ lesson \in Said /\ order \in Said /\ watched[s] \in Said
  BY <1>1 DEF TypeInv, TypeOK, Visit, Said, Lessons
<1>3. PICK high \in Said : high = Highest(watched[s], lesson)
  BY <1>2 DEF Highest
<1>4. /\ watched' \in {watched, [watched EXCEPT ![s] = high]}
      /\ reached' \in {reached, [reached EXCEPT ![s] = order]}
  BY <1>1, <1>3 DEF SaveProgress
<1>5. watched' \in [Student -> Said] /\ reached' \in [Student -> Said]
  BY <1>2, <1>3, <1>4 DEF TypeInv, TypeOK
<1>6. Elsewhere' /\ UNCHANGED <<session, answer, req>>
  BY <1>5 DEF SaveProgress, TypeInv, TypeOK, Elsewhere, Requests
<1>7. QED
  BY <1>6, TypeElsewhere

LEMMA TypeTime ==
  ASSUME TypeInv, DropEntry \/ Month
  PROVE  TypeInv'
<1>1. CASE DropEntry
  <2>1. cache' \subseteq cache
    BY <1>1 DEF DropEntry
  <2>2. Elsewhere' /\ UNCHANGED <<session, answer, req>>
    BY <1>1, <2>1 DEF DropEntry, TypeInv, TypeOK, Elsewhere, World
  <2>3. QED
    BY <2>2, TypeElsewhere
<1>2. CASE Month
  <2>1. month' \in 0..MaxMonths
    BY <1>2, AIChatAssumption DEF Month, TypeInv, TypeOK
  <2>2. enrolment' \in [Student -> UserCourse]
    <3>1. PICK over \in SUBSET Student :
            enrolment' = [s \in Student |->
                            [enrolment[s] EXCEPT !.ended = enrolment[s].ended \/ s \in over]]
      BY <1>2, Zenon DEF Month
    <3>2. \A s \in Student : enrolment[s] \in UserCourse
      BY DEF TypeInv, TypeOK
    <3>3. ASSUME NEW s \in Student
          PROVE  [enrolment[s] EXCEPT !.ended = enrolment[s].ended \/ s \in over] \in UserCourse
      <4>1. (enrolment[s].ended \/ s \in over) \in BOOLEAN
        BY Zenon
      <4>2. PICK over1 \in BOOLEAN : over1 = (enrolment[s].ended \/ s \in over)
        BY <4>1, Zenon
      <4>3. [enrolment[s] EXCEPT !.ended = over1] \in UserCourse
        BY <3>2 DEF UserCourse
      <4>4. QED
        BY <4>2, <4>3, Zenon
    <3>4. QED
      BY <3>1, <3>3, Zenon
  <2>3. Elsewhere' /\ UNCHANGED <<session, answer, req>>
    BY <1>2, <2>1, <2>2 DEF Month, TypeInv, TypeOK, Elsewhere, Requests
  <2>4. QED
    BY <2>3, TypeElsewhere
<1>3. QED
  BY <1>1, <1>2

LEMMA TypeHandle ==
  ASSUME TypeInv, ReachedInv, SpendInv, NEW w \in Worker, Handle(w)
  PROVE  TypeInv'
<1>1. CASE InsertSession(w) \/ ExpireSubscription(w) \/ CheckLimit(w) \/ Transcribe(w)
  BY <1>1, TypeInsertSession, TypeExpire, TypeCheckLimit, TypeTranscribe
<1>2. CASE BuildContext(w) \/ Ask(w) \/ CallOpenAI(w) \/ TextToSpeech(w)
  BY <1>2, TypeBuildContext, TypeAsk, TypeCallOpenAI, TypeTextToSpeech
<1>3. CASE SaveAnswer(w) \/ SelectForUpdate(w) \/ Lock(w) \/ Sum(w) \/ Commit(w)
  BY <1>3, TypeSaveAnswer, TypeSelectForUpdate, TypeLock, TypeSum, TypeCommit
<1>4. QED
  BY <1>1, <1>2, <1>3 DEF Handle

LEMMA TypeNext == TypeInv /\ ReachedInv /\ SpendInv /\ [Next]_vars => TypeInv'
<1> SUFFICES ASSUME TypeInv, ReachedInv, SpendInv, [Next]_vars PROVE TypeInv'
  OBVIOUS
<1>1. CASE UNCHANGED vars
  <2>1. Elsewhere' /\ UNCHANGED <<session, answer, req>>
    BY <1>1 DEF vars, TypeInv, TypeOK, Elsewhere
  <2>2. QED
    BY <2>1, TypeElsewhere
<1>2. ASSUME NEW w \in Worker, NEW s \in Student, CreateSession(w, s) PROVE TypeInv'
  BY <1>2, TypeCreateSession
<1>3. ASSUME NEW w \in Worker, NEW i \in 1..MaxSessions, NEW said \in Said,
             SendVoice(w, i, said)
      PROVE  TypeInv'
  BY <1>3, TypeSendVoice
<1>4. ASSUME NEW w \in Worker, Handle(w) \/ AbortRequest(w) PROVE TypeInv'
  BY <1>4, TypeHandle, TypeAbort
<1>5. CASE \E s \in Student : Pay(s)
  BY <1>5, TypeReset
<1>6. CASE \/ \E s \in Learner, lesson \in Lessons : WatchLesson(s, lesson)
           \/ \E v \in visit : SaveProgress(v)
  BY <1>6, TypeWatchLesson, TypeSaveProgress
<1>7. CASE FindRecords \/ RemoveRecords \/ DropEntry \/ Month
  BY <1>7, TypeReset, TypeTime
<1>8. QED
  BY <1>1, <1>2, <1>3, <1>4, <1>5, <1>6, <1>7 DEF Next

\* A message costs three units at most, whatever is retried; what is locked, reset and
\* recorded are messages; and the tables and the requests in flight keep their types, for
\* any number of requests at once. (voice-processing-pipeline.service.ts:147.)
THEOREM TypeCorrect == Spec => []TypeOK
<1>1. TypeInv => TypeOK
  BY DEF TypeInv
<1>2. QED
  BY <1>1, TypeInit, TypeNext, ReachedInit, ReachedNext, SpendInit, SpendNext, PTL DEF Spec
=============================================================================
