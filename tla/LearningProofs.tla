--------------------------- MODULE LearningProofs ---------------------------
(***************************************************************************)
(* What holds of a student's way through a course of any shape, with any   *)
(* limits: types and open blocks whatever overlaps, the order of lessons   *)
(* and the homework when requests and scheduler runs come one at a time.   *)
(***************************************************************************)
EXTENDS Learning, FiniteSetTheorems, SequenceTheorems, WellFoundedInduction, TLAPS

-----------------------------------------------------------------------------
(***************************************************************************)
(* Numbers.                                                                *)
(***************************************************************************)
LEMMA LessThan == IsWellFoundedOn({p \in Nat \X Nat : p[1] < p[2]}, Nat)
  BY NatLessThanWellFounded DEF OpToRel

\* The least and the greatest element of a set of lessons numbers.
LEMMA MinOf ==
  ASSUME NEW S \in SUBSET Nat, S # {}
  PROVE  Min(S) \in S /\ \A k \in S : Min(S) <= k
<1>1. PICK n \in S : \A m \in S : n <= m
  <2>1. PICK x \in S : \A y \in S : ~(<<y, x>> \in {p \in Nat \X Nat : p[1] < p[2]})
    BY WFMin, LessThan
  <2>2. ASSUME NEW y \in S, y < x  PROVE FALSE
    <3>1. <<y, x>> \in Nat \X Nat /\ <<y, x>>[1] < <<y, x>>[2]
      BY <2>2
    <3>2. QED
      BY <2>1, <3>1
  <2>3. \A y \in S : x <= y
    BY <2>2
  <2>4. QED
    BY <2>3
<1>2. QED
  BY <1>1 DEF Min

LEMMA MaxOf ==
  ASSUME NEW n \in Nat, NEW S \in SUBSET (1..n), S # {}
  PROVE  Max(S) \in S
<1> DEFINE T == {n - k : k \in S}
<1>1. \A k \in S : k \in Nat /\ n - k \in Nat
  OBVIOUS
<1>2. T \in SUBSET Nat /\ T # {}
  BY <1>1
<1>3. Min(T) \in T /\ \A k \in T : Min(T) <= k
  BY <1>2, MinOf
<1>4. PICK m \in S : Min(T) = n - m
  BY <1>3
<1>5. \A k \in S : n - m <= n - k
  BY <1>3, <1>4
<1>6. \A k \in S : m >= k
  BY <1>1, <1>5
<1>7. QED
  BY <1>4, <1>6 DEF Max

-----------------------------------------------------------------------------
(***************************************************************************)
(* Type correctness.                                                       *)
(***************************************************************************)
OfRow == {"watch", "unlock", "schedule", "enqueue", "recount"}

CourseOK ==
  published \in [Block -> Nat] /\ \A b \in Block : published[b] \in 1..LessonsOf[b]

ProgressOK ==
  /\ made \subseteq Id /\ IsFiniteSet(made)
  /\ row \in [Id -> Mark]
  /\ today \subseteq {i \in made : row[i].watched}

HomeworkOK ==
  /\ queue \in [Id -> ItemState]
  /\ reviews \in [Lesson -> Seq(1..MaxReviews)]

RequestsOK ==
  /\ req \in [Worker -> Request]
  /\ \A w \in Worker : req[w].step \in OfRow => req[w].id \in made

TypeInv ==
  /\ CourseOK /\ ProgressOK /\ HomeworkOK
  /\ sub \in Sub
  /\ RequestsOK
  /\ run \in [Runner -> Run]
  /\ aborts \in 0..MaxAborts

LEMMA TypeInvImplies == TypeInv => TypeOK
<1> SUFFICES ASSUME TypeInv, NEW w \in Worker, "id" \in DOMAIN req[w]
             PROVE  req[w].id \in made
  BY DEF TypeInv, TypeOK, CourseOK, ProgressOK, HomeworkOK, RequestsOK
<1>1. req[w] \in Request
  BY DEF TypeInv, RequestsOK
<1>2. req[w].step \in OfRow
  BY <1>1 DEF Request, Idle, OfRow
<1>3. QED
  BY <1>2 DEF TypeInv, RequestsOK

LEMMA TypeInit == Init => TypeInv
<1> SUFFICES ASSUME Init PROVE TypeInv
  OBVIOUS
<1>1. CourseOK
  BY LearningAssumption DEF Init, CourseOK, Block
<1>2. ProgressOK
  BY FS_EmptySet DEF Init, ProgressOK, Mark
<1>3. HomeworkOK
  BY DEF Init, HomeworkOK, ItemState
<1>4. sub \in Sub
  BY DEF Init, Sub
<1>5. RequestsOK
  BY DEF Init, RequestsOK, Request, Idle, OfRow
<1>6. run \in [Runner -> Run]
  BY DEF Init, Run
<1>7. aborts \in 0..MaxAborts
  BY LearningAssumption DEF Init
<1>8. QED
  BY <1>1, <1>2, <1>3, <1>4, <1>5, <1>6, <1>7 DEF TypeInv

\* What a request and a scheduler run hold at each of their steps.
LEMMA AtStep ==
  ASSUME TypeInv, NEW w \in Worker
  PROVE  /\ req[w] \in Request
         /\ req[w].step \in OfRow => req[w].id \in made /\ req[w].id \in Id
         /\ req[w].step \in {"watch", "unlock"} => req[w].read \in Mark
         /\ req[w].step \in {"warn", "check"} =>
              req[w].block \in Block /\ req[w].have \in Nat /\ req[w].buy \in BOOLEAN
         /\ req[w].step = "warn" => req[w].sub \in Sub
         /\ req[w].step = "generate" => req[w].block \in Block
         /\ req[w].step = "create" =>
              req[w].block \in Block /\ req[w].todo \in SUBSET Nat /\ req[w].first \in BOOLEAN
         /\ req[w].step = "review" =>
              req[w].item \in Id /\ req[w].at \in Nat /\ req[w].count \in 0..MaxReviews
         /\ req[w].step = "remove" => req[w].item \in Id
<1>1. req[w] \in Request
  BY DEF TypeInv, RequestsOK
<1>2. req[w].step \in OfRow => req[w].id \in made /\ req[w].id \in Id
  BY DEF TypeInv, RequestsOK, ProgressOK
<1>3. QED
  BY <1>1, <1>2 DEF Request, Idle

LEMMA AtRun ==
  ASSUME TypeInv, NEW r \in Runner
  PROVE  /\ run[r] \in Run
         /\ run[r].step = "expire" => run[r].sub \in Sub
         /\ run[r].step = "plan" => run[r].paid \in BOOLEAN /\ run[r].active \in BOOLEAN
         /\ run[r].step = "insert" => run[r].homework \in Lesson
<1>1. run[r] \in Run
  BY DEF TypeInv
<1>2. QED
  BY <1>1 DEF Run, Idle

\* The records of a request.
LEMMA RequestTypes ==
  /\ Idle \in Request
  /\ \A step \in {"watch", "unlock"}, i \in Id, m \in Mark :
       [step |-> step, id |-> i, read |-> m] \in Request
  /\ \A step \in {"schedule", "enqueue", "recount"}, i \in Id :
       [step |-> step, id |-> i] \in Request
  /\ \A b \in Block, n \in Nat, buy \in BOOLEAN, s \in Sub :
       [step |-> "warn", block |-> b, have |-> n, buy |-> buy, sub |-> s] \in Request
  /\ \A b \in Block, n \in Nat, buy \in BOOLEAN :
       [step |-> "check", block |-> b, have |-> n, buy |-> buy] \in Request
  /\ \A b \in Block : [step |-> "generate", block |-> b] \in Request
  /\ \A b \in Block, todo \in SUBSET Nat, first \in BOOLEAN :
       [step |-> "create", block |-> b, todo |-> todo, first |-> first] \in Request
  /\ \A x \in Id, n \in Nat, c \in 0..MaxReviews :
       [step |-> "review", item |-> x, at |-> n, count |-> c] \in Request
  /\ \A x \in Id : [step |-> "remove", item |-> x] \in Request
  BY DEF Request

LEMMA RunTypes ==
  /\ Idle \in Run
  /\ \A s \in Sub : [step |-> "expire", sub |-> s] \in Run
  /\ \A paid \in BOOLEAN, active \in BOOLEAN :
       [step |-> "plan", paid |-> paid, active |-> active] \in Run
  /\ \A h \in Lesson : [step |-> "insert", homework |-> h] \in Run
  BY DEF Run

\* What steps leave alone keeps its type.
LEMMA KeepTypes ==
  ASSUME TypeInv
  PROVE  /\ UNCHANGED published => CourseOK'
         /\ UNCHANGED progress => ProgressOK'
         /\ UNCHANGED homework => HomeworkOK'
         /\ UNCHANGED sub => sub' \in Sub
         /\ UNCHANGED run => run' \in [Runner -> Run]
         /\ UNCHANGED aborts => aborts' \in 0..MaxAborts
  BY DEF TypeInv, CourseOK, ProgressOK, HomeworkOK, progress, homework

LEMMA CountType ==
  ASSUME TypeInv, NEW n, CountQueueItems(n)
  PROVE  aborts' \in 0..MaxAborts
  BY LearningAssumption DEF TypeInv, CountQueueItems

\* A request goes on as q.
LEMMA TypeGoOn ==
  ASSUME TypeInv, NEW w \in Worker, NEW q \in Request, GoOn(w, q),
         q.step \in OfRow => q.id \in made', made \subseteq made',
         CourseOK', ProgressOK', HomeworkOK', sub' \in Sub, UNCHANGED run,
         aborts' \in 0..MaxAborts
  PROVE  TypeInv'
<1>1. req' \in [Worker -> Request]
  BY DEF TypeInv, RequestsOK, GoOn
<1>2. ASSUME NEW v \in Worker, req'[v].step \in OfRow PROVE req'[v].id \in made'
  <2>1. CASE v = w
    BY <1>2, <2>1 DEF TypeInv, RequestsOK, GoOn
  <2>2. CASE v # w
    <3>1. req'[v] = req[v]
      BY <2>2 DEF TypeInv, RequestsOK, GoOn
    <3>2. QED
      BY <1>2, <3>1 DEF TypeInv, RequestsOK
  <2>3. QED
    BY <2>1, <2>2
<1>3. QED
  BY <1>1, <1>2 DEF TypeInv, RequestsOK

LEMMA IdleStep == Idle.step \notin OfRow
  BY DEF Idle, OfRow

\* A scheduler run goes on, and nothing else but the queue and the subscription may change.
LEMMA TypeRunOn ==
  ASSUME TypeInv, NEW r \in Runner, NEW task \in Run, run' = [run EXCEPT ![r] = task],
         UNCHANGED <<published, progress, req>>, HomeworkOK', sub' \in Sub,
         aborts' \in 0..MaxAborts
  PROVE  TypeInv'
<1>1. run' \in [Runner -> Run]
  BY DEF TypeInv
<1>2. CourseOK' /\ ProgressOK'
  BY KeepTypes
<1>3. RequestsOK'
  BY DEF TypeInv, RequestsOK, progress
<1>4. QED
  BY <1>1, <1>2, <1>3 DEF TypeInv

-----------------------------------------------------------------------------
(***************************************************************************)
(* The types under the steps of a request.                                 *)
(***************************************************************************)
LEMMA SaveRowType ==
  ASSUME TypeInv, NEW i \in made, NEW m \in Mark, SaveRow(i, m)
  PROVE  ProgressOK' /\ made' = made
<1>1. made' = made /\ i \in Id
  BY DEF SaveRow, TypeInv, ProgressOK
<1>2. row' \in [Id -> Mark] /\ row'[i] = m /\ \A j \in Id \ {i} : row'[j] = row[j]
  BY <1>1 DEF SaveRow, TypeInv, ProgressOK
<1>3. today' \subseteq {j \in made : row'[j].watched}
  BY <1>1, <1>2 DEF SaveRow, TypeInv, ProgressOK
<1>4. QED
  BY <1>1, <1>2, <1>3 DEF TypeInv, ProgressOK

LEMMA TypeLessonProgressUpdate ==
  ASSUME TypeInv, NEW w \in Worker, NEW i \in Id, LessonProgressUpdate(w, i)
  PROVE  TypeInv'
<1> DEFINE q == [step |-> "watch", id |-> i, read |-> row[i]]
<1>1. q \in Request /\ i \in made
  BY RequestTypes DEF LessonProgressUpdate, TypeInv, ProgressOK
<1>2. GoOn(w, q) /\ UNCHANGED <<published, progress, homework, sub, run>>
  BY DEF LessonProgressUpdate
<1>3. aborts' \in 0..MaxAborts
  BY CountType DEF LessonProgressUpdate
<1>4. made' = made
  BY <1>2 DEF progress
<1>5. q.id = i
  OBVIOUS
<1> HIDE DEF q
<1>6. QED
  BY <1>1, <1>2, <1>3, <1>4, <1>5, KeepTypes, TypeGoOn

LEMMA TypeSaveWatched ==
  ASSUME TypeInv, NEW w \in Worker, SaveWatched(w)
  PROVE  TypeInv'
<1> DEFINE i == req[w].id
           m == [req[w].read EXCEPT !.watched = TRUE]
           q == [step |-> "schedule", id |-> i]
<1>1. i \in made /\ i \in Id /\ m \in Mark
  BY AtStep DEF SaveWatched, OfRow, Mark
<1>2. q \in Request /\ q.id = i
  BY <1>1, RequestTypes
<1>3. UNCHANGED <<published, homework, sub, run, aborts>>
  BY DEF SaveWatched
<1>4. \/ GoOn(w, Idle) /\ UNCHANGED progress
      \/ GoOn(w, q) /\ SaveRow(i, m)
  BY DEF SaveWatched
<1> HIDE DEF i, m, q
<1>5. ProgressOK' /\ made' = made
  BY <1>1, <1>4, KeepTypes, SaveRowType DEF progress
<1>6. QED
  BY <1>1, <1>2, <1>3, <1>4, <1>5, KeepTypes, TypeGoOn, RequestTypes, IdleStep

LEMMA TypeScheduleHomework ==
  ASSUME TypeInv, NEW w \in Worker, ScheduleHomeworkForLesson(w)
  PROVE  TypeInv'
<1>1. req[w].id \in made /\ req[w].id \in Id /\ made' = made
  BY AtStep DEF ScheduleHomeworkForLesson, OfRow, progress
<1>2. PICK q \in Request : GoOn(w, q) /\ (q.step \in OfRow => q.id \in made)
  <2>1. req[w] = [step |-> "schedule", id |-> req[w].id]
    BY AtStep DEF ScheduleHomeworkForLesson, Request, Idle
  <2>2. \A step \in {"recount", "enqueue"} :
          /\ [req[w] EXCEPT !.step = step] \in Request
          /\ [req[w] EXCEPT !.step = step].id = req[w].id
    <3> TAKE step \in {"recount", "enqueue"}
    <3>1. [req[w] EXCEPT !.step = step] = [step |-> step, id |-> req[w].id]
      BY <2>1
    <3>2. QED
      BY <1>1, <3>1, RequestTypes
  <2>3. \/ GoOn(w, Idle)
        \/ \E step \in {"recount", "enqueue"} : GoOn(w, [req[w] EXCEPT !.step = step])
    BY DEF ScheduleHomeworkForLesson
  <2>4. QED
    BY <1>1, <2>2, <2>3, RequestTypes, IdleStep
<1>3. QED
  BY <1>1, <1>2, KeepTypes, TypeGoOn DEF ScheduleHomeworkForLesson

\* A new item of the queue has an id of its homework that was free.
LEMMA Added ==
  ASSUME TypeInv, NEW h \in Lesson, NEW state \in {"later", "ready"}, AddToQueue(h, state)
  PROVE  /\ queue' \in [Id -> ItemState]
         /\ \E x \in FreeIds(h) : Queued' = Queued \cup {x}
<1> DEFINE x == AnyOf(FreeIds(h))
<1>1. x \in FreeIds(h)
  BY DEF AddToQueue, AnyOf
<1>2. x \in Id
  BY <1>1 DEF FreeIds
<1>3. queue' = [queue EXCEPT ![x] = state] /\ queue \in [Id -> ItemState]
  BY DEF AddToQueue, TypeInv, HomeworkOK
<1> HIDE DEF x
<1>4. queue' \in [Id -> ItemState]
  BY <1>2, <1>3 DEF ItemState
<1>5. Queued' = Queued \cup {x}
  BY <1>2, <1>3 DEF Queued
<1>6. QED
  BY <1>1, <1>4, <1>5

LEMMA LessonOfId == \A i \in Id : i[1] \in Lesson
  BY DEF Id

LEMMA TypeEnqueue ==
  ASSUME TypeInv, NEW w \in Worker, Enqueue(w)
  PROVE  TypeInv'
<1>1. req[w].id \in made /\ req[w].id \in Id /\ made' = made
  BY AtStep DEF Enqueue, OfRow, progress
<1>2. HomeworkOK'
  BY <1>1, Added, LessonOfId DEF Enqueue, TypeInv, HomeworkOK
<1>3. /\ [req[w] EXCEPT !.step = "recount"] \in Request
      /\ [req[w] EXCEPT !.step = "recount"].id = req[w].id
  <2>1. req[w] = [step |-> "enqueue", id |-> req[w].id]
    BY AtStep DEF Enqueue, Request, Idle
  <2>2. [req[w] EXCEPT !.step = "recount"] = [step |-> "recount", id |-> req[w].id]
    BY <2>1
  <2>3. QED
    BY <1>1, <2>2, RequestTypes
<1>4. PICK q \in Request : GoOn(w, q) /\ q.id \in made
  BY <1>1, <1>3 DEF Enqueue
<1>5. QED
  BY <1>1, <1>2, <1>4, KeepTypes, TypeGoOn DEF Enqueue

LEMMA RowType ==
  ASSUME TypeInv, NEW i \in made
  PROVE  /\ i \in Id /\ row[i] \in Mark
         /\ [step |-> "unlock", id |-> i, read |-> row[i]] \in Request
<1>1. i \in Id /\ row[i] \in Mark
  BY DEF TypeInv, ProgressOK
<1>2. QED
  BY <1>1, RequestTypes

LEMMA TypeFindNextLesson ==
  ASSUME TypeInv, NEW w \in Worker, FindNextLesson(w)
  PROVE  TypeInv'
<1>1. PICK q \in Request : GoOn(w, q) /\ (q.step \in OfRow => q.id \in made)
  BY RowType, RequestTypes, IdleStep DEF FindNextLesson, RowsOfLesson
<1>2. made' = made
  BY DEF FindNextLesson, progress
<1>3. aborts' \in 0..MaxAborts
  BY CountType DEF FindNextLesson
<1>4. QED
  BY <1>1, <1>2, <1>3, KeepTypes, TypeGoOn DEF FindNextLesson

LEMMA TypeSaveUnlocked ==
  ASSUME TypeInv, NEW w \in Worker, SaveUnlocked(w)
  PROVE  TypeInv'
<1> DEFINE m == [req[w].read EXCEPT !.unlocked = TRUE]
<1>1. req[w].id \in made /\ m \in Mark
  BY AtStep DEF SaveUnlocked, OfRow, Mark
<1>2. SaveRow(req[w].id, m)
  BY DEF SaveUnlocked
<1> HIDE DEF m
<1>3. ProgressOK' /\ made' = made
  BY <1>1, <1>2, SaveRowType
<1>4. QED
  BY <1>3, KeepTypes, TypeGoOn, RequestTypes, IdleStep DEF SaveUnlocked

LEMMA RowsFinite ==
  ASSUME TypeInv, NEW b \in Block
  PROVE  Cardinality(RowsOf(b)) \in Nat
<1>1. RowsOf(b) \subseteq made /\ IsFiniteSet(made)
  BY DEF RowsOf, TypeInv, ProgressOK
<1>2. QED
  BY <1>1, FS_Subset, FS_CardinalityType

\* A request that only reads, and goes on without a row.
LEMMA TypeReads ==
  ASSUME TypeInv, NEW w \in Worker, NEW q \in Request, GoOn(w, q), q.step \notin OfRow,
         UNCHANGED <<published, progress, homework, run>>, sub' \in Sub,
         aborts' \in 0..MaxAborts
  PROVE  TypeInv'
<1>1. made' = made
  BY DEF progress
<1>2. QED
  BY <1>1, KeepTypes, TypeGoOn

LEMMA TypeGetVideos ==
  ASSUME TypeInv, NEW w \in Worker, NEW b \in Block, GetVideos(w, b)
  PROVE  TypeInv'
<1> DEFINE buy == ~Subscribed(sub) /\ (b > 1 \/ Beyond(b))
           have == Cardinality(RowsOf(b))
           generate == [step |-> "generate", block |-> b]
           warn == [step |-> "warn", block |-> b, have |-> have, buy |-> buy, sub |-> sub]
           check == [step |-> "check", block |-> b, have |-> have, buy |-> buy]
<1>1. have \in Nat /\ buy \in BOOLEAN /\ sub \in Sub
  BY RowsFinite DEF TypeInv
<1>2. generate \in Request /\ warn \in Request /\ check \in Request
  <2> HIDE DEF have, buy
  <2>1. QED
    BY <1>1, RequestTypes
<1>3. generate.step \notin OfRow /\ warn.step \notin OfRow /\ check.step \notin OfRow
  BY DEF OfRow
<1>4. GoOn(w, generate) \/ GoOn(w, warn) \/ GoOn(w, check)
  BY DEF GetVideos
<1> HIDE DEF generate, warn, check
<1>5. QED
  BY <1>2, <1>3, <1>4, KeepTypes, TypeReads DEF GetVideos

LEMMA TypeSaveWarning ==
  ASSUME TypeInv, NEW w \in Worker, SaveWarning(w)
  PROVE  TypeInv'
<1> DEFINE check == [step |-> "check", block |-> req[w].block, have |-> req[w].have,
                     buy |-> req[w].buy]
<1>1. check \in Request /\ check.step \notin OfRow
  BY AtStep, RequestTypes DEF SaveWarning, OfRow
<1>2. sub' \in Sub
  BY AtStep DEF SaveWarning, Sub
<1>3. GoOn(w, check)
  BY DEF SaveWarning
<1> HIDE DEF check
<1>4. QED
  BY <1>1, <1>2, <1>3, KeepTypes, TypeReads DEF SaveWarning

LEMMA TypeCheckBlock ==
  ASSUME TypeInv, NEW w \in Worker, CheckBlock(w)
  PROVE  TypeInv'
<1> DEFINE b == req[w].block
           generate == [step |-> "generate", block |-> b]
<1>1. b \in Block
  BY AtStep DEF CheckBlock
<1>2. generate \in Request /\ generate.step \notin OfRow
  BY <1>1, RequestTypes DEF OfRow
<1>3. NextOf(b) \subseteq made
  BY DEF NextOf, RowsOfLesson
<1>4. PICK q \in Request : GoOn(w, q) /\ (q.step \in OfRow => q.id \in made)
  <2>1. \/ GoOn(w, generate)
        \/ GoOn(w, Idle)
        \/ \E i \in NextOf(b) : GoOn(w, [step |-> "unlock", id |-> i, read |-> row[i]])
    BY DEF CheckBlock
  <2> HIDE DEF generate
  <2>2. QED
    BY <1>2, <1>3, <2>1, RowType, RequestTypes, IdleStep
<1>5. aborts' \in 0..MaxAborts
  BY CountType, KeepTypes DEF CheckBlock
<1>6. made' = made
  BY DEF CheckBlock, progress
<1>7. QED
  BY <1>4, <1>5, <1>6, KeepTypes, TypeGoOn DEF CheckBlock

LEMMA TypeGenerate ==
  ASSUME TypeInv, NEW w \in Worker, GenerateLessonProgress(w)
  PROVE  TypeInv'
<1> DEFINE b == req[w].block
           todo == {k \in 1..published[b] : RowsOfLesson(<<b, k>>) = {}}
           create == [step |-> "create", block |-> b, todo |-> todo, first |-> RowsOf(b) = {}]
<1>1. b \in Block
  BY AtStep DEF GenerateLessonProgress
<1>2. todo \in SUBSET Nat
  BY <1>1 DEF TypeInv, CourseOK
<1>3. create \in Request
  <2> DEFINE first == RowsOf(b) = {}
  <2>1. first \in BOOLEAN
    OBVIOUS
  <2> HIDE DEF todo, first
  <2>2. [step |-> "create", block |-> b, todo |-> todo, first |-> first] \in Request
    BY <1>1, <1>2, <2>1, RequestTypes
  <2>3. QED
    BY <2>2 DEF first
<1>4. create.step \notin OfRow
  BY DEF OfRow
<1>5. GoOn(w, Idle) \/ GoOn(w, create)
  BY DEF GenerateLessonProgress
<1> HIDE DEF create
<1>6. QED
  BY <1>3, <1>4, <1>5, KeepTypes, TypeReads, RequestTypes, IdleStep DEF GenerateLessonProgress

\* What CreateProgress does, with the row it makes.
LEMMA Creates ==
  ASSUME TypeInv, NEW w \in Worker, CreateProgress(w)
  PROVE  LET q == req[w]
             k == Min(q.todo)
         IN  \E i \in Id \ made :
               /\ i[1] = <<q.block, k>>
               /\ made' = made \cup {i}
               /\ row' \in [Id -> Mark]
               /\ row'[i].unlocked = (q.first /\ k = 1)
               /\ \A j \in Id \ {i} : row'[j] = row[j]
               /\ \/ GoOn(w, Idle)
                  \/ q.todo # {k} /\ GoOn(w, [q EXCEPT !.todo = @ \ {k}])
<1> DEFINE q == req[w]
           k == Min(q.todo)
           new == {j \in Id \ made : j[1] = <<q.block, k>>}
           i == AnyOf(new)
<1>1. i \in new
  BY DEF CreateProgress, AnyOf
<1>2. i \in Id \ made /\ i[1] = <<q.block, k>>
  BY <1>1
<1>3. q.first \in BOOLEAN
  BY AtStep DEF CreateProgress
<1>4. /\ made' = made \cup {i}
      /\ row' = [row EXCEPT ![i].unlocked = q.first /\ k = 1]
      /\ GoOn(w, IF q.todo = {k} THEN Idle ELSE [q EXCEPT !.todo = @ \ {k}])
  BY DEF CreateProgress
<1> HIDE DEF i, new, k
<1>5. row \in [Id -> Mark]
  BY DEF TypeInv, ProgressOK
<1> DEFINE open == q.first /\ k = 1
<1>6. open \in BOOLEAN
  BY <1>3
<1> HIDE DEF open
<1>7. row' = [row EXCEPT ![i].unlocked = open]
  BY <1>4 DEF open
<1>8. row' \in [Id -> Mark] /\ row'[i].unlocked = open /\ \A j \in Id \ {i} : row'[j] = row[j]
  BY <1>2, <1>5, <1>6, <1>7 DEF Mark
<1>9. QED
  BY <1>2, <1>4, <1>8 DEF open, k

LEMMA CreatesOn ==
  ASSUME TypeInv, NEW w \in Worker, req[w].step = "create", NEW k
  PROVE  /\ [req[w] EXCEPT !.todo = @ \ {k}] \in Request
         /\ [req[w] EXCEPT !.todo = @ \ {k}].step = "create"
         /\ [req[w] EXCEPT !.todo = @ \ {k}].block = req[w].block
         /\ [req[w] EXCEPT !.todo = @ \ {k}].first = req[w].first
         /\ [req[w] EXCEPT !.todo = @ \ {k}].todo = req[w].todo \ {k}
<1>1. req[w] \in [step : {"create"}, block : Block, todo : SUBSET Nat, first : BOOLEAN]
  BY AtStep DEF Request, Idle
<1>2. QED
  BY <1>1 DEF Request

LEMMA TypeCreateProgress ==
  ASSUME TypeInv, NEW w \in Worker, CreateProgress(w)
  PROVE  TypeInv'
<1> DEFINE q == [req[w] EXCEPT !.todo = @ \ {Min(req[w].todo)}]
<1>1. PICK i \in Id \ made :
        /\ made' = made \cup {i}
        /\ row' \in [Id -> Mark]
        /\ \A j \in Id \ {i} : row'[j] = row[j]
        /\ GoOn(w, Idle) \/ GoOn(w, q)
  BY Creates
<1>2. q \in Request /\ q.step \notin OfRow
  BY CreatesOn DEF CreateProgress, OfRow
<1>3. UNCHANGED <<published, today, homework, sub, run, aborts>>
  BY DEF CreateProgress
<1> HIDE DEF q
<1>4. ProgressOK'
  <2>1. made' \subseteq Id /\ IsFiniteSet(made')
    BY <1>1, FS_AddElement DEF TypeInv, ProgressOK
  <2>2. today' \subseteq {j \in made' : row'[j].watched}
    BY <1>1, <1>3 DEF TypeInv, ProgressOK
  <2>3. QED
    BY <1>1, <2>1, <2>2 DEF ProgressOK
<1>5. made \subseteq made'
  BY <1>1
<1>6. QED
  BY <1>1, <1>2, <1>3, <1>4, <1>5, KeepTypes, TypeGoOn, RequestTypes, IdleStep

LEMMA TypeReview ==
  ASSUME TypeInv, NEW w \in Worker, NEW x \in Id, HomeworkProgressUpdate(w, x)
  PROVE  TypeInv'
<1>1. reviews[x[1]] \in Seq(1..MaxReviews)
  BY LessonOfId DEF TypeInv, HomeworkOK
<1>2. PICK n \in Nat, c \in 0..MaxReviews :
        GoOn(w, [step |-> "review", item |-> x, at |-> n, count |-> c])
  <2>1. CASE reviews[x[1]] = <<>>
    <3>1. 0 \in Nat /\ 0 \in 0..MaxReviews
      BY LearningAssumption
    <3>2. GoOn(w, [step |-> "review", item |-> x, at |-> 0, count |-> 0])
      BY <2>1 DEF HomeworkProgressUpdate
    <3>3. QED
      BY <3>1, <3>2
  <2>2. CASE reviews[x[1]] # <<>>
    <3>1. PICK n \in DOMAIN reviews[x[1]] :
            GoOn(w, [step |-> "review", item |-> x, at |-> n, count |-> reviews[x[1]][n]])
      BY <2>2 DEF HomeworkProgressUpdate
    <3>2. n \in 1..Len(reviews[x[1]])
      BY <1>1, <3>1, LenProperties
    <3>3. n \in Nat /\ reviews[x[1]][n] \in 0..MaxReviews
      <4>1. reviews[x[1]][n] \in 1..MaxReviews
        BY <1>1, <3>2, ElementOfSeq
      <4>2. Len(reviews[x[1]]) \in Nat
        BY <1>1, LenProperties
      <4>3. QED
        BY <3>2, <4>1, <4>2, LearningAssumption
    <3>4. QED
      BY <3>1, <3>3
  <2>3. QED
    BY <2>1, <2>2
<1> DEFINE q == [step |-> "review", item |-> x, at |-> n, count |-> c]
<1>3. q \in Request /\ q.step \notin OfRow
  BY RequestTypes DEF OfRow
<1>4. GoOn(w, q)
  BY <1>2
<1> HIDE DEF q
<1>5. QED
  BY <1>3, <1>4, KeepTypes, TypeReads DEF HomeworkProgressUpdate

\* The review counts of a homework with one more review.
Reviewed(counts, q) ==
  IF q.at = 0 THEN Append(counts, Min({q.count + 1, MaxReviews}))
  ELSE [counts EXCEPT ![q.at] = Min({q.count + 1, MaxReviews})]

LEMMA ReviewedOnce ==
  ASSUME TypeInv, NEW w \in Worker, req[w].step = "review"
  PROVE  Min({req[w].count + 1, MaxReviews}) \in 1..MaxReviews
<1> DEFINE S == {req[w].count + 1, MaxReviews}
<1>1. req[w].count \in 0..MaxReviews
  BY AtStep
<1>2. S \in SUBSET Nat /\ S # {}
  BY <1>1, LearningAssumption
<1>3. Min(S) \in S /\ \A k \in S : Min(S) <= k
  BY <1>2, MinOf
<1>4. QED
  BY <1>1, <1>3, LearningAssumption

LEMMA ReviewedType ==
  ASSUME TypeInv, NEW w \in Worker, req[w].step = "review", NEW counts \in Seq(1..MaxReviews)
  PROVE  Reviewed(counts, req[w]) \in Seq(1..MaxReviews)
<1> DEFINE c == Min({req[w].count + 1, MaxReviews})
<1>1. c \in 1..MaxReviews
  BY ReviewedOnce
<1>2. Append(counts, c) \in Seq(1..MaxReviews)
  BY <1>1, AppendProperties
<1>3. [counts EXCEPT ![req[w].at] = c] \in Seq(1..MaxReviews)
  <2>1. CASE req[w].at \in 1..Len(counts)
    BY <1>1, <2>1, ExceptSeq
  <2>2. CASE req[w].at \notin 1..Len(counts)
    <3>1. [counts EXCEPT ![req[w].at] = c] = counts
      BY <2>2, LenProperties
    <3>2. QED
      BY <3>1
  <2>3. QED
    BY <2>1, <2>2
<1>4. QED
  BY <1>2, <1>3 DEF Reviewed

LEMMA Reviews ==
  ASSUME NEW w \in Worker, SaveReview(w)
  PROVE  reviews' = [reviews EXCEPT ![req[w].item[1]] = Reviewed(@, req[w])]
  BY DEF SaveReview, Reviewed

LEMMA TypeSaveReview ==
  ASSUME TypeInv, NEW w \in Worker, SaveReview(w)
  PROVE  TypeInv'
<1> DEFINE q == [step |-> "remove", item |-> req[w].item]
<1>1. req[w].step = "review" /\ req[w].item \in Id
  BY AtStep DEF SaveReview
<1>2. q \in Request /\ q.step \notin OfRow
  BY <1>1, RequestTypes DEF OfRow
<1>3. reviews' \in [Lesson -> Seq(1..MaxReviews)]
  <2> DEFINE h == req[w].item[1]
             counts == Reviewed(reviews[h], req[w])
  <2>1. h \in Lesson /\ reviews \in [Lesson -> Seq(1..MaxReviews)]
    BY <1>1, LessonOfId DEF TypeInv, HomeworkOK
  <2>2. counts \in Seq(1..MaxReviews)
    BY <1>1, <2>1, ReviewedType
  <2>3. reviews' = [reviews EXCEPT ![h] = counts]
    BY Reviews
  <2> HIDE DEF h, counts
  <2>4. QED
    BY <2>1, <2>2, <2>3
<1>4. HomeworkOK'
  BY <1>3 DEF SaveReview, TypeInv, HomeworkOK
<1>5. GoOn(w, q) /\ made' = made
  BY DEF SaveReview, progress
<1> HIDE DEF q
<1>6. QED
  BY <1>2, <1>4, <1>5, KeepTypes, TypeGoOn DEF SaveReview

LEMMA TypeRemoveFromQueue ==
  ASSUME TypeInv, NEW w \in Worker, RemoveFromQueue(w)
  PROVE  TypeInv'
<1>1. HomeworkOK'
  BY AtStep DEF RemoveFromQueue, TypeInv, HomeworkOK, ItemState
<1>2. made' = made
  BY DEF RemoveFromQueue, progress
<1>3. QED
  BY <1>1, <1>2, KeepTypes, TypeGoOn, RequestTypes, IdleStep DEF RemoveFromQueue

LEMMA TypeAbortRequest ==
  ASSUME TypeInv, NEW w \in Worker, AbortRequest(w)
  PROVE  TypeInv'
<1>1. aborts' \in 0..MaxAborts
  BY LearningAssumption DEF AbortRequest, TypeInv
<1>2. QED
  BY <1>1, KeepTypes, TypeReads, RequestTypes, IdleStep DEF AbortRequest

-----------------------------------------------------------------------------
(***************************************************************************)
(* The types under the steps of the scheduler, of time, admins and         *)
(* payments.                                                               *)
(***************************************************************************)
LEMMA TypeProcessQueue ==
  ASSUME TypeInv, NEW r \in Runner, ProcessHomeworkQueue(r)
  PROVE  TypeInv'
<1> DEFINE expire == [step |-> "expire", sub |-> sub]
           plan == [step |-> "plan", paid |-> sub.paid, active |-> sub.active]
<1>1. sub \in Sub /\ sub.paid \in BOOLEAN /\ sub.active \in BOOLEAN
  BY DEF TypeInv, Sub
<1>2. expire \in Run /\ plan \in Run
  BY <1>1, RunTypes
<1>3. \/ run' = [run EXCEPT ![r] = expire]
      \/ run' = [run EXCEPT ![r] = plan]
  BY DEF ProcessHomeworkQueue
<1> HIDE DEF expire, plan
<1>4. QED
  BY <1>2, <1>3, KeepTypes, TypeRunOn DEF ProcessHomeworkQueue

LEMMA TypeSaveExpired ==
  ASSUME TypeInv, NEW r \in Runner, SaveExpired(r)
  PROVE  TypeInv'
<1> DEFINE plan == [step |-> "plan", paid |-> run[r].sub.paid, active |-> FALSE]
<1>1. run[r].sub \in Sub
  BY AtRun DEF SaveExpired
<1>2. sub' \in Sub /\ run[r].sub.paid \in BOOLEAN
  BY <1>1 DEF SaveExpired, Sub
<1>3. plan \in Run
  BY <1>2, RunTypes
<1>4. run' = [run EXCEPT ![r] = plan]
  BY DEF SaveExpired
<1> HIDE DEF plan
<1>5. QED
  BY <1>2, <1>3, <1>4, KeepTypes, TypeRunOn DEF SaveExpired

LEMMA TypeScheduleForUser ==
  ASSUME TypeInv, NEW r \in Runner, ScheduleHomeworkForUser(r)
  PROVE  TypeInv'
<1>1. PICK task \in Run : run' = [run EXCEPT ![r] = task]
  BY RunTypes DEF ScheduleHomeworkForUser, Recommended
<1>2. QED
  BY <1>1, KeepTypes, TypeRunOn DEF ScheduleHomeworkForUser

LEMMA TypeInsert ==
  ASSUME TypeInv, NEW r \in Runner, Insert(r)
  PROVE  TypeInv'
<1>1. HomeworkOK'
  BY AtRun, Added DEF Insert, TypeInv, HomeworkOK
<1>2. QED
  BY <1>1, KeepTypes, TypeRunOn, RunTypes DEF Insert

LEMMA TypeAbortRun ==
  ASSUME TypeInv, NEW r \in Runner, AbortRun(r)
  PROVE  TypeInv'
<1>1. aborts' \in 0..MaxAborts
  BY LearningAssumption DEF AbortRun, TypeInv
<1>2. QED
  BY <1>1, KeepTypes, TypeRunOn, RunTypes DEF AbortRun

LEMMA TypeRipen ==
  ASSUME TypeInv, NEW x \in Id, Ripen(x)
  PROVE  TypeInv'
<1>1. HomeworkOK'
  BY DEF Ripen, TypeInv, HomeworkOK, ItemState
<1>2. QED
  BY <1>1, KeepTypes DEF Ripen, TypeInv, RequestsOK, progress

\* Of what a handler holds, midnight changes only a subscription that was read.
LEMMA AgedRequest ==
  ASSUME NEW q \in Request
  PROVE  /\ Aged(q) \in Request
         /\ Aged(q) = q \/ (q.step = "warn" /\ Aged(q).step = "warn")
<1>1. CASE q.step = "warn"
  <2>1. q \in [step : {"warn"}, block : Block, have : Nat, buy : BOOLEAN, sub : Sub]
    BY <1>1 DEF Request, Idle
  <2>2. NextDay(q.sub) \in Sub
    BY <2>1 DEF NextDay, Sub
  <2>3. Aged(q) = [step |-> "warn", block |-> q.block, have |-> q.have, buy |-> q.buy,
                   sub |-> NextDay(q.sub)]
    BY <2>1 DEF Aged
  <2>4. Aged(q) \in Request
    BY <2>1, <2>2, <2>3, RequestTypes
  <2>5. QED
    BY <1>1, <2>3, <2>4
<1>2. CASE q.step # "warn"
  <2>1. "sub" \notin DOMAIN q
    BY <1>2 DEF Request, Idle
  <2>2. QED
    BY <2>1 DEF Aged
<1>3. QED
  BY <1>1, <1>2

LEMMA AgedRun ==
  ASSUME NEW q \in Run
  PROVE  /\ Aged(q) \in Run
         /\ Aged(q) = q \/ (q.step = "expire" /\ Aged(q).step = "expire")
<1>1. CASE q.step = "expire"
  <2>1. q \in [step : {"expire"}, sub : Sub]
    BY <1>1 DEF Run, Idle
  <2>2. NextDay(q.sub) \in Sub
    BY <2>1 DEF NextDay, Sub
  <2>3. Aged(q) = [step |-> "expire", sub |-> NextDay(q.sub)]
    BY <2>1 DEF Aged
  <2>4. Aged(q) \in Run
    BY <2>2, <2>3, RunTypes
  <2>5. QED
    BY <1>1, <2>3, <2>4
<1>2. CASE q.step # "expire"
  <2>1. "sub" \notin DOMAIN q
    BY <1>2 DEF Run, Idle
  <2>2. QED
    BY <2>1 DEF Aged
<1>3. QED
  BY <1>1, <1>2

LEMMA TypeMidnight ==
  ASSUME TypeInv, Midnight
  PROVE  TypeInv'
<1>1. ProgressOK'
  BY DEF Midnight, TypeInv, ProgressOK
<1>2. sub' \in Sub
  BY DEF Midnight, TypeInv, Sub, NextDay
<1>3. RequestsOK'
  <2>1. ASSUME NEW w \in Worker
        PROVE  /\ req'[w] \in Request
               /\ req'[w].step \in OfRow => req'[w].id \in made'
    <3>1. req'[w] = Aged(req[w]) /\ made' = made
      BY DEF Midnight
    <3>2. CASE Aged(req[w]) = req[w]
      BY <3>1, <3>2 DEF TypeInv, RequestsOK
    <3>3. CASE Aged(req[w]).step = "warn"
      BY <3>1, <3>3, AtStep, AgedRequest DEF OfRow
    <3>4. QED
      BY <3>2, <3>3, AtStep, AgedRequest
  <2>2. req' \in [Worker -> Request]
    BY <2>1 DEF Midnight
  <2>3. QED
    BY <2>1, <2>2 DEF RequestsOK
<1>4. run' \in [Runner -> Run]
  BY AgedRun DEF Midnight, TypeInv
<1>5. CourseOK' /\ HomeworkOK' /\ aborts' \in 0..MaxAborts
  BY KeepTypes DEF Midnight
<1>6. QED
  BY <1>1, <1>2, <1>3, <1>4, <1>5 DEF TypeInv

LEMMA TypeElsewhere ==
  ASSUME TypeInv, EndSubscription \/ Pay \/ \E b \in Block : Publish(b)
  PROVE  TypeInv'
<1>1. CourseOK'
  <2>1. CASE \E b \in Block : Publish(b)
    <3>1. PICK b \in Block : Publish(b)
      BY <2>1
    <3>2. published[b] \in Nat /\ LessonsOf[b] \in Nat
      BY LearningAssumption DEF TypeInv, CourseOK, Block
    <3>3. QED
      BY <3>1, <3>2 DEF Publish, TypeInv, CourseOK
  <2>2. QED
    BY <2>1, KeepTypes DEF EndSubscription, Pay
<1>2. sub' \in Sub
  BY DEF EndSubscription, Pay, Publish, TypeInv, Sub
<1>3. UNCHANGED <<progress, homework, req, run, aborts>>
  BY DEF EndSubscription, Pay, Publish
<1>4. RequestsOK'
  BY <1>3 DEF TypeInv, RequestsOK, progress
<1>5. QED
  BY <1>1, <1>2, <1>3, <1>4, KeepTypes DEF TypeInv

LEMMA TypeUnchanged ==
  ASSUME TypeInv, UNCHANGED vars
  PROVE  TypeInv'
  BY DEF TypeInv, CourseOK, ProgressOK, HomeworkOK, RequestsOK, vars, progress, homework

LEMMA TypeNext == TypeInv /\ [Next]_vars => TypeInv'
<1> SUFFICES ASSUME TypeInv, [Next]_vars PROVE TypeInv'
  OBVIOUS
<1>1. ASSUME NEW w \in Worker, Handle(w) PROVE TypeInv'
  BY <1>1, TypeSaveWatched, TypeScheduleHomework, TypeEnqueue, TypeFindNextLesson,
     TypeSaveUnlocked, TypeSaveWarning, TypeCheckBlock, TypeGenerate, TypeCreateProgress,
     TypeSaveReview, TypeRemoveFromQueue DEF Handle
<1>2. ASSUME NEW r \in Runner, RunOn(r) PROVE TypeInv'
  BY <1>2, TypeSaveExpired, TypeScheduleForUser, TypeInsert DEF RunOn
<1>3. ASSUME NEW w \in Worker, \/ AbortRequest(w)
                               \/ \E i \in Id : LessonProgressUpdate(w, i)
                               \/ \E b \in Block : GetVideos(w, b)
                               \/ \E x \in Id : HomeworkProgressUpdate(w, x)
      PROVE  TypeInv'
  BY <1>3, TypeAbortRequest, TypeLessonProgressUpdate, TypeGetVideos, TypeReview
<1>4. ASSUME NEW r \in Runner, ProcessHomeworkQueue(r) \/ AbortRun(r) PROVE TypeInv'
  BY <1>4, TypeProcessQueue, TypeAbortRun
<1>5. CASE Time
  BY <1>5, TypeMidnight, TypeRipen, TypeElsewhere DEF Time
<1>6. CASE Pay \/ \E b \in Block : Publish(b)
  BY <1>6, TypeElsewhere
<1>7. CASE UNCHANGED vars
  BY <1>7, TypeUnchanged
<1>8. QED
  BY <1>1, <1>2, <1>3, <1>4, <1>5, <1>6, <1>7 DEF Next, Watch, Open, Review, Schedule

\* Types are kept whatever requests and scheduler runs overlap and are abandoned.
THEOREM TypeCorrect == Spec => []TypeOK
  BY TypeInit, TypeNext, TypeInvImplies, PTL DEF Spec

-----------------------------------------------------------------------------
(***************************************************************************)
(* A block that was begun can be entered, whatever overlaps and whatever   *)
(* is abandoned: its first row is created unlocked, and no save locks a    *)
(* row again, since the copies that are saved are of unlocked rows.        *)
(***************************************************************************)
OpenBlock(b) == \E i \in RowsOfLesson(<<b, 1>>) : row[i].unlocked

\* Request w opens the block it creates before it creates any other row.
Opens(w) ==
  req[w].step = "create" =>
    /\ req[w].todo # {}
    /\ \A k \in req[w].todo : k >= 1
    /\ OpenBlock(req[w].block) \/ (req[w].first /\ 1 \in req[w].todo)

SavesUnlocked(w) == req[w].step = "watch" => req[w].read.unlocked

OpenInv ==
  /\ TypeInv
  /\ BlockStartsOpen
  /\ \A w \in Worker : Opens(w) /\ SavesUnlocked(w)

LEMMA OpenInit == Init => OpenInv
<1> SUFFICES ASSUME Init PROVE OpenInv
  OBVIOUS
<1>1. BlockStartsOpen /\ \A w \in Worker : Opens(w) /\ SavesUnlocked(w)
  BY DEF Init, BlockStartsOpen, RowsOf, Opens, SavesUnlocked, Idle
<1>2. QED
  BY <1>1, TypeInit DEF OpenInv

\* The rows there were are there, and unlocked if they were.
StillUnlocked ==
  made \subseteq made' /\ \A i \in made : row[i].unlocked => row'[i].unlocked

LEMMA OpenStays ==
  ASSUME StillUnlocked, NEW b, OpenBlock(b)
  PROVE  OpenBlock(b)'
  BY DEF StillUnlocked, OpenBlock, RowsOfLesson

\* A request that holds what it held, or is not at one of the steps that matter.
LEMMA OpensStays ==
  ASSUME StillUnlocked, NEW w \in Worker, Opens(w), SavesUnlocked(w),
         req'[w] = req[w] \/ req'[w].step \notin {"create", "watch"}
  PROVE  Opens(w)' /\ SavesUnlocked(w)'
<1>1. CASE req'[w] = req[w]
  BY <1>1, OpenStays DEF Opens, SavesUnlocked
<1>2. CASE req'[w].step \notin {"create", "watch"}
  BY <1>2 DEF Opens, SavesUnlocked
<1>3. QED
  BY <1>1, <1>2

OthersWait(w) == \A v \in Worker \ {w} : req'[v] = req[v]

LEMMA GoesOn ==
  ASSUME TypeInv, NEW w \in Worker, NEW q, GoOn(w, q)
  PROVE  req'[w] = q /\ OthersWait(w)
  BY DEF GoOn, TypeInv, RequestsOK, OthersWait

\* Where each step of a request takes it.
LEMMA MoveUpdate ==
  ASSUME TypeInv, NEW w \in Worker, NEW i \in Id, LessonProgressUpdate(w, i)
  PROVE  OthersWait(w) /\ req'[w] = [step |-> "watch", id |-> i, read |-> row[i]]
  BY GoesOn DEF LessonProgressUpdate

LEMMA MoveSchedule ==
  ASSUME TypeInv, NEW w \in Worker, ScheduleHomeworkForLesson(w)
  PROVE  /\ OthersWait(w)
         /\ req'[w].step \in {"idle", "recount", "enqueue"}
         /\ req'[w].step \in {"recount", "enqueue"} => req'[w].id = req[w].id
<1>1. req[w] = [step |-> "schedule", id |-> req[w].id]
  BY AtStep DEF ScheduleHomeworkForLesson, Request, Idle
<1>2. /\ [req[w] EXCEPT !.step = "recount"] = [step |-> "recount", id |-> req[w].id]
      /\ [req[w] EXCEPT !.step = "enqueue"] = [step |-> "enqueue", id |-> req[w].id]
  BY <1>1
<1>3. \/ GoOn(w, Idle)
      \/ GoOn(w, [req[w] EXCEPT !.step = "recount"])
      \/ GoOn(w, [req[w] EXCEPT !.step = "enqueue"])
  BY DEF ScheduleHomeworkForLesson
<1>4. /\ OthersWait(w)
      /\ \/ req'[w] = Idle
         \/ req'[w] = [step |-> "recount", id |-> req[w].id]
         \/ req'[w] = [step |-> "enqueue", id |-> req[w].id]
  BY <1>2, <1>3, GoesOn
<1>5. QED
  BY <1>4 DEF Idle

LEMMA MoveEnqueue ==
  ASSUME TypeInv, NEW w \in Worker, Enqueue(w)
  PROVE  OthersWait(w) /\ req'[w].step = "recount" /\ req'[w].id = req[w].id
<1>1. req[w] = [step |-> "enqueue", id |-> req[w].id]
  BY AtStep DEF Enqueue, Request, Idle
<1>2. [req[w] EXCEPT !.step = "recount"] = [step |-> "recount", id |-> req[w].id]
  BY <1>1
<1>3. GoOn(w, [req[w] EXCEPT !.step = "recount"])
  BY DEF Enqueue
<1>4. QED
  BY <1>2, <1>3, GoesOn

MovesToUnlock(w, i) ==
  req'[w].step = "unlock" /\ req'[w].id = i /\ req'[w].read = row[i]

LEMMA GoesToUnlock ==
  ASSUME TypeInv, NEW w \in Worker, NEW i, GoOn(w, [step |-> "unlock", id |-> i, read |-> row[i]])
  PROVE  OthersWait(w) /\ MovesToUnlock(w, i)
  BY GoesOn DEF MovesToUnlock

LEMMA MoveFind ==
  ASSUME TypeInv, NEW w \in Worker, FindNextLesson(w)
  PROVE  /\ OthersWait(w)
         /\ \/ req'[w].step = "idle"
            \/ \E i \in RowsOfLesson(Following(req[w].id[1])) : MovesToUnlock(w, i)
<1>1. \/ GoOn(w, Idle)
      \/ \E i \in RowsOfLesson(Following(req[w].id[1])) :
           GoOn(w, [step |-> "unlock", id |-> i, read |-> row[i]])
  BY DEF FindNextLesson
<1>2. CASE GoOn(w, Idle)
  BY <1>2, GoesOn DEF Idle
<1>3. QED
  BY <1>1, <1>2, GoesToUnlock

LEMMA MoveOpen ==
  ASSUME TypeInv, NEW w \in Worker, NEW b \in Block, GetVideos(w, b)
  PROVE  OthersWait(w) /\ req'[w].step \in {"generate", "warn", "check"}
<1> DEFINE buy == ~Subscribed(sub) /\ (b > 1 \/ Beyond(b))
           have == Cardinality(RowsOf(b))
<1>1. \/ GoOn(w, [step |-> "generate", block |-> b])
      \/ GoOn(w, [step |-> "warn", block |-> b, have |-> have, buy |-> buy, sub |-> sub])
      \/ GoOn(w, [step |-> "check", block |-> b, have |-> have, buy |-> buy])
  BY DEF GetVideos
<1> HIDE DEF buy, have
<1>2. QED
  BY <1>1, GoesOn

LEMMA MoveWarning ==
  ASSUME TypeInv, NEW w \in Worker, SaveWarning(w)
  PROVE  OthersWait(w) /\ req'[w].step = "check"
  BY GoesOn DEF SaveWarning

LEMMA MoveCheck ==
  ASSUME TypeInv, NEW w \in Worker, CheckBlock(w)
  PROVE  /\ OthersWait(w)
         /\ \/ req'[w].step \in {"idle", "generate"}
            \/ \E i \in NextOf(req[w].block) : MovesToUnlock(w, i)
<1>1. \/ GoOn(w, [step |-> "generate", block |-> req[w].block])
      \/ GoOn(w, Idle)
      \/ \E i \in NextOf(req[w].block) :
           GoOn(w, [step |-> "unlock", id |-> i, read |-> row[i]])
  BY DEF CheckBlock
<1>2. CASE GoOn(w, [step |-> "generate", block |-> req[w].block]) \/ GoOn(w, Idle)
  BY <1>2, GoesOn DEF Idle
<1>3. QED
  BY <1>1, <1>2, GoesToUnlock

LEMMA MoveReview ==
  ASSUME TypeInv, NEW w \in Worker, NEW x \in Id, HomeworkProgressUpdate(w, x)
  PROVE  OthersWait(w) /\ req'[w].step = "review" /\ req'[w].item = x
<1>1. \E n, c : GoOn(w, [step |-> "review", item |-> x, at |-> n, count |-> c])
  BY DEF HomeworkProgressUpdate
<1>2. QED
  BY <1>1, GoesOn

LEMMA MoveSaveReview ==
  ASSUME TypeInv, NEW w \in Worker, SaveReview(w)
  PROVE  OthersWait(w) /\ req'[w].step = "remove" /\ req'[w].item = req[w].item
<1>1. GoOn(w, [step |-> "remove", item |-> req[w].item])
  BY DEF SaveReview
<1>2. QED
  BY <1>1, GoesOn

LEMMA MoveEnd ==
  ASSUME TypeInv, NEW w \in Worker, SaveUnlocked(w) \/ RemoveFromQueue(w) \/ AbortRequest(w)
  PROVE  OthersWait(w) /\ req'[w] = Idle
  BY GoesOn DEF SaveUnlocked, RemoveFromQueue, AbortRequest

LEMMA MoveSteps ==
  ASSUME TypeInv, NEW w \in Worker
  PROVE  /\ ScheduleHomeworkForLesson(w) =>
              OthersWait(w) /\ req'[w].step \in {"idle", "recount", "enqueue"}
         /\ Enqueue(w) => OthersWait(w) /\ req'[w].step = "recount"
         /\ FindNextLesson(w) \/ CheckBlock(w) =>
              OthersWait(w) /\ req'[w].step \in {"idle", "generate", "unlock"}
         /\ SaveReview(w) => OthersWait(w) /\ req'[w].step = "remove"
         /\ SaveUnlocked(w) \/ RemoveFromQueue(w) \/ AbortRequest(w) =>
              OthersWait(w) /\ req'[w].step = "idle"
  BY MoveSchedule, MoveEnqueue, MoveFind, MoveCheck, MoveSaveReview, MoveEnd
  DEF MovesToUnlock, Idle

\* A step of request w that creates no row.
LEMMA OpenSteps ==
  ASSUME OpenInv, NEW w \in Worker, OthersWait(w), StillUnlocked, made' = made,
         TypeInv', Opens(w)', SavesUnlocked(w)'
  PROVE  OpenInv'
<1>1. \A v \in Worker \ {w} : req'[v] = req[v]
  BY DEF OthersWait
<1>2. BlockStartsOpen'
  BY OpenStays DEF OpenInv, BlockStartsOpen, OpenBlock, RowsOf
<1>3. \A v \in Worker : Opens(v)' /\ SavesUnlocked(v)'
  BY <1>1, OpensStays DEF OpenInv
<1>4. QED
  BY <1>2, <1>3 DEF OpenInv

LEMMA OpenMoves ==
  ASSUME OpenInv, NEW w \in Worker, OthersWait(w), StillUnlocked, made' = made,
         TypeInv', req'[w].step \notin {"create", "watch"}
  PROVE  OpenInv'
<1>1. Opens(w)' /\ SavesUnlocked(w)'
  BY DEF Opens, SavesUnlocked
<1>2. QED
  BY <1>1, OpenSteps

LEMMA ProgressStays == UNCHANGED progress => StillUnlocked /\ made' = made
  BY DEF progress, StillUnlocked

\* A save of an unlocked copy.
LEMMA SavedRow ==
  ASSUME TypeInv, NEW i \in made, NEW m \in Mark, SaveRow(i, m), m.unlocked
  PROVE  StillUnlocked /\ made' = made
<1>1. made' = made /\ row' = [row EXCEPT ![i] = m] /\ i \in Id /\ made \subseteq Id
  BY DEF SaveRow, TypeInv, ProgressOK
<1>2. QED
  BY <1>1 DEF StillUnlocked, TypeInv, ProgressOK

LEMMA OpenSaveWatched ==
  ASSUME OpenInv, NEW w \in Worker, SaveWatched(w), TypeInv'
  PROVE  OpenInv'
<1> DEFINE m == [req[w].read EXCEPT !.watched = TRUE]
           q == [step |-> "schedule", id |-> req[w].id]
<1>1. req[w].id \in made /\ req[w].read \in Mark /\ req[w].read.unlocked
  BY AtStep DEF SaveWatched, OfRow, OpenInv, SavesUnlocked
<1>2. m \in Mark /\ m.unlocked
  BY <1>1 DEF Mark
<1>3. \/ GoOn(w, Idle) /\ UNCHANGED progress
      \/ GoOn(w, q) /\ SaveRow(req[w].id, m)
  BY DEF SaveWatched
<1> HIDE DEF m
<1>4. StillUnlocked /\ made' = made
  BY <1>1, <1>2, <1>3, ProgressStays, SavedRow DEF OpenInv
<1>5. OthersWait(w) /\ req'[w].step \notin {"create", "watch"}
  BY <1>3, GoesOn DEF OpenInv, Idle
<1>6. QED
  BY <1>4, <1>5, OpenMoves

LEMMA OpenSaveUnlocked ==
  ASSUME OpenInv, NEW w \in Worker, SaveUnlocked(w), TypeInv'
  PROVE  OpenInv'
<1> DEFINE m == [req[w].read EXCEPT !.unlocked = TRUE]
<1>1. req[w].id \in made /\ req[w].read \in Mark
  BY AtStep DEF SaveUnlocked, OfRow, OpenInv
<1>2. m \in Mark /\ m.unlocked
  BY <1>1 DEF Mark
<1>3. SaveRow(req[w].id, m) /\ GoOn(w, Idle)
  BY DEF SaveUnlocked
<1> HIDE DEF m
<1>4. StillUnlocked /\ made' = made
  BY <1>1, <1>2, <1>3, SavedRow DEF OpenInv
<1>5. OthersWait(w) /\ req'[w].step \notin {"create", "watch"}
  BY <1>3, GoesOn DEF OpenInv, Idle
<1>6. QED
  BY <1>4, <1>5, OpenMoves

LEMMA OpenLessonProgressUpdate ==
  ASSUME OpenInv, NEW w \in Worker, NEW i \in Id, LessonProgressUpdate(w, i), TypeInv'
  PROVE  OpenInv'
<1> DEFINE q == [step |-> "watch", id |-> i, read |-> row[i]]
<1>1. StillUnlocked /\ made' = made
  BY ProgressStays DEF LessonProgressUpdate
<1>2. GoOn(w, q) /\ row[i].unlocked
  BY DEF LessonProgressUpdate
<1>3. req'[w] = q /\ OthersWait(w)
  BY <1>2, GoesOn DEF OpenInv
<1>4. Opens(w)' /\ SavesUnlocked(w)'
  BY <1>2, <1>3 DEF Opens, SavesUnlocked
<1>5. QED
  BY <1>1, <1>3, <1>4, OpenSteps

\* The steps of requests that read rows, and neither read one to be watched nor list lessons.
LEMMA OpenReads ==
  ASSUME OpenInv, NEW w \in Worker, TypeInv',
         \/ ScheduleHomeworkForLesson(w) \/ Enqueue(w) \/ FindNextLesson(w)
         \/ \E b \in Block : GetVideos(w, b)
         \/ SaveWarning(w) \/ CheckBlock(w)
         \/ \E x \in Id : HomeworkProgressUpdate(w, x)
         \/ SaveReview(w) \/ RemoveFromQueue(w) \/ AbortRequest(w)
  PROVE  OpenInv'
<1>1. StillUnlocked /\ made' = made
  BY ProgressStays DEF ScheduleHomeworkForLesson, Enqueue, FindNextLesson, GetVideos, SaveWarning,
     CheckBlock, HomeworkProgressUpdate, SaveReview, RemoveFromQueue, AbortRequest
<1>2. OthersWait(w) /\ req'[w].step \notin {"create", "watch"}
  <2>1. TypeInv
    BY DEF OpenInv
  <2>2. CASE ScheduleHomeworkForLesson(w)
    BY <2>1, <2>2, MoveSteps
  <2>3. CASE FindNextLesson(w)
    BY <2>1, <2>3, MoveSteps
  <2>4. CASE CheckBlock(w)
    BY <2>1, <2>4, MoveSteps
  <2>5. CASE Enqueue(w)
    BY <2>1, <2>5, MoveSteps
  <2>6. CASE (\E b \in Block : GetVideos(w, b)) \/ SaveWarning(w)
    BY <2>1, <2>6, MoveOpen, MoveWarning
  <2>7. CASE (\E x \in Id : HomeworkProgressUpdate(w, x)) \/ SaveReview(w)
    BY <2>1, <2>7, MoveReview, MoveSteps
  <2>8. CASE RemoveFromQueue(w) \/ AbortRequest(w)
    BY <2>1, <2>8, MoveSteps
  <2>9. QED
    BY <2>2, <2>3, <2>4, <2>5, <2>6, <2>7, <2>8
<1>3. QED
  BY <1>1, <1>2, OpenMoves

\* A block without rows is opened by the request that finds it so.
LEMMA OpenGenerate ==
  ASSUME OpenInv, NEW w \in Worker, GenerateLessonProgress(w), TypeInv'
  PROVE  OpenInv'
<1> DEFINE b == req[w].block
           todo == {k \in 1..published[b] : RowsOfLesson(<<b, k>>) = {}}
           q == [step |-> "create", block |-> b, todo |-> todo, first |-> RowsOf(b) = {}]
<1>1. StillUnlocked /\ made' = made
  BY ProgressStays DEF GenerateLessonProgress
<1>2. b \in Block /\ published[b] \in Nat \ {0}
  BY AtStep, LearningAssumption DEF OpenInv, TypeInv, CourseOK, GenerateLessonProgress, Block
<1>3. CASE GoOn(w, Idle)
  <2>1. OthersWait(w) /\ req'[w].step \notin {"create", "watch"}
    BY <1>3, GoesOn DEF OpenInv, Idle
  <2>2. QED
    BY <1>1, <2>1, OpenMoves
<1>4. CASE GoOn(w, q) /\ todo # {}
  <2>1. req'[w] = q /\ OthersWait(w)
    BY <1>4, GoesOn DEF OpenInv
  <2>2. \A k \in todo : k >= 1
    BY <1>2
  <2>3. OpenBlock(b) \/ (RowsOf(b) = {} /\ 1 \in todo)
    <3>1. CASE RowsOf(b) = {}
      <4>1. RowsOfLesson(<<b, 1>>) = {}
        BY <3>1 DEF RowsOf, RowsOfLesson
      <4>2. QED
        BY <1>2, <3>1, <4>1
    <3>2. CASE RowsOf(b) # {}
      BY <1>2, <3>2 DEF OpenInv, BlockStartsOpen, OpenBlock
    <3>3. QED
      BY <3>1, <3>2
  <2>4. PICK c : c = b
    OBVIOUS
  <2>5. OpenBlock(c) => OpenBlock(c)'
    BY <1>1, OpenStays
  <2>6. /\ req'[w].step = "create" /\ req'[w].todo = todo /\ req'[w].block = c
        /\ req'[w].first = (RowsOf(b) = {})
    BY <2>1, <2>4
  <2> HIDE DEF todo, q
  <2>7. OpenBlock(c)' => OpenBlock(req[w].block)'
    BY <2>6
  <2>8. Opens(w)' /\ SavesUnlocked(w)'
    BY <1>4, <2>2, <2>3, <2>4, <2>5, <2>6, <2>7 DEF Opens, SavesUnlocked
  <2>9. QED
    BY <1>1, <2>1, <2>8, OpenSteps
<1>5. QED
  BY <1>3, <1>4 DEF GenerateLessonProgress

LEMMA OpenCreateProgress ==
  ASSUME OpenInv, NEW w \in Worker, CreateProgress(w), TypeInv'
  PROVE  OpenInv'
<1> DEFINE k == Min(req[w].todo)
           q == [req[w] EXCEPT !.todo = @ \ {k}]
<1>1. TypeInv /\ Opens(w) /\ req[w].step = "create"
  BY DEF OpenInv, CreateProgress
<1>2. /\ req[w].block \in Block /\ req[w].todo \in SUBSET Nat /\ req[w].first \in BOOLEAN
      /\ req[w].todo # {} /\ \A n \in req[w].todo : n >= 1
  BY <1>1, AtStep DEF Opens
<1>3. k \in req[w].todo /\ \A n \in req[w].todo : k <= n
  BY <1>2, MinOf
<1>4. PICK i \in Id \ made :
        /\ i[1] = <<req[w].block, k>>
        /\ made' = made \cup {i}
        /\ row'[i].unlocked = (req[w].first /\ k = 1)
        /\ \A j \in Id \ {i} : row'[j] = row[j]
        /\ GoOn(w, Idle) \/ (req[w].todo # {k} /\ GoOn(w, q))
  BY <1>1, Creates
<1> HIDE DEF k, q
<1>5. StillUnlocked
  <2>1. made \subseteq Id \ {i}
    BY <1>1, <1>4 DEF TypeInv, ProgressOK
  <2>2. QED
    BY <1>4, <2>1 DEF StillUnlocked
\* The block is open when the row is there: it was, or this is its first row.
<1>6. PICK b : b = req[w].block
  OBVIOUS
<1>7. OpenBlock(b)'
  <2>1. CASE OpenBlock(b)
    BY <1>5, <2>1, OpenStays
  <2>2. CASE ~OpenBlock(b)
    <3>1. req[w].first /\ 1 \in req[w].todo
      BY <1>1, <1>6, <2>2 DEF Opens
    <3>2. k = 1
      BY <1>2, <1>3, <3>1
    <3>3. i \in made' /\ i[1] = <<b, 1>> /\ row'[i].unlocked
      BY <1>4, <1>6, <3>1, <3>2
    <3>4. QED
      BY <3>3 DEF OpenBlock, RowsOfLesson
  <2>3. QED
    BY <2>1, <2>2
<1>8. BlockStartsOpen'
  <2> SUFFICES ASSUME NEW c \in Block, RowsOf(c)' # {} PROVE OpenBlock(c)'
    BY DEF BlockStartsOpen, OpenBlock
  <2>1. CASE c = b
    BY <1>7, <2>1
  <2>2. CASE c # b
    <3>1. i[1][1] = b
      BY <1>4, <1>6
    <3>2. RowsOf(c) # {}
      BY <1>4, <2>2, <3>1 DEF RowsOf
    <3>3. OpenBlock(c)
      BY <3>2 DEF OpenInv, BlockStartsOpen, OpenBlock
    <3>4. QED
      BY <1>5, <3>3, OpenStays
  <2>3. QED
    BY <2>1, <2>2
<1>9. OthersWait(w) /\ Opens(w)' /\ SavesUnlocked(w)'
  <2>1. CASE GoOn(w, Idle)
    <3>1. OthersWait(w) /\ req'[w].step = "idle"
      BY <1>1, <2>1, GoesOn DEF Idle
    <3>2. QED
      BY <3>1 DEF Opens, SavesUnlocked
  <2>2. CASE req[w].todo # {k} /\ GoOn(w, q)
    <3>1. req'[w] = q /\ OthersWait(w)
      BY <1>1, <2>2, GoesOn
    <3>2. /\ req'[w].step = "create" /\ req'[w].block = b /\ req'[w].todo = req[w].todo \ {k}
      BY <1>1, <1>6, <3>1, CreatesOn DEF q
    <3>3. OpenBlock(b)' => OpenBlock(req[w].block)'
      BY <3>2
    <3>4. OpenBlock(req[w].block)'
      BY <1>7, <3>3
    <3>5. Opens(w)'
      BY <1>1, <1>2, <2>2, <3>2, <3>4 DEF Opens
    <3>6. QED
      BY <3>1, <3>2, <3>5 DEF SavesUnlocked
  <2>3. QED
    BY <1>4, <2>1, <2>2
<1>10. \A v \in Worker : Opens(v)' /\ SavesUnlocked(v)'
  BY <1>5, <1>9, OpensStays DEF OpenInv, OthersWait
<1>11. QED
  BY <1>8, <1>10 DEF OpenInv

\* What changes neither a row nor more of a request than a subscription it has read.
LEMMA OpenElsewhere ==
  ASSUME OpenInv, TypeInv', UNCHANGED <<made, row>>,
         \A w \in Worker : req'[w] = req[w] \/ req'[w].step \notin {"create", "watch"}
  PROVE  OpenInv'
<1>1. StillUnlocked
  BY DEF StillUnlocked
<1>2. BlockStartsOpen'
  BY DEF OpenInv, BlockStartsOpen, RowsOf, RowsOfLesson
<1>3. QED
  BY <1>1, <1>2, OpensStays DEF OpenInv

LEMMA MidnightReads ==
  ASSUME TypeInv, Midnight
  PROVE  \A w \in Worker : req'[w] = req[w] \/ req'[w].step = "warn"
<1> TAKE w \in Worker
<1>1. req'[w] = Aged(req[w])
  BY DEF Midnight
<1>2. QED
  BY <1>1, AtStep, AgedRequest

LEMMA OpenNext == OpenInv /\ [Next]_vars => OpenInv'
<1> SUFFICES ASSUME OpenInv, [Next]_vars PROVE OpenInv'
  OBVIOUS
<1>1. TypeInv /\ TypeInv'
  BY TypeNext DEF OpenInv
<1>2. ASSUME NEW w \in Worker, Handle(w) PROVE OpenInv'
  BY <1>1, <1>2, OpenSaveWatched, OpenSaveUnlocked, OpenReads, OpenGenerate, OpenCreateProgress
  DEF Handle
<1>3. ASSUME NEW w \in Worker, \/ AbortRequest(w)
                               \/ \E i \in Id : LessonProgressUpdate(w, i)
                               \/ \E b \in Block : GetVideos(w, b)
                               \/ \E x \in Id : HomeworkProgressUpdate(w, x)
      PROVE  OpenInv'
  BY <1>1, <1>3, OpenReads, OpenLessonProgressUpdate
<1>4. CASE \/ Schedule \/ \E r \in Runner : RunOn(r) \/ AbortRun(r)
           \/ EndSubscription \/ Pay
           \/ \E b \in Block : Publish(b)
           \/ \E x \in Id : Ripen(x)
           \/ UNCHANGED vars
  <2>1. UNCHANGED <<made, row, req>>
    BY <1>4 DEF Schedule, RunOn, ProcessHomeworkQueue, SaveExpired, ScheduleHomeworkForUser,
       Insert, AbortRun, EndSubscription, Pay, Publish, Ripen, vars, progress
  <2>2. QED
    BY <1>1, <2>1, OpenElsewhere
<1>5. CASE Midnight
  <2>1. UNCHANGED <<made, row>>
    BY <1>5 DEF Midnight
  <2>2. \A w \in Worker : req'[w] = req[w] \/ req'[w].step \notin {"create", "watch"}
    BY <1>1, <1>5, MidnightReads
  <2>3. QED
    BY <1>1, <2>1, <2>2, OpenElsewhere
<1>6. QED
  BY <1>2, <1>3, <1>4, <1>5 DEF Next, Watch, Open, Review, Time

\* A block whose progress rows were created, all of them or half, begins with an unlocked
\* lesson: however many visits create it at once, and wherever one of them is abandoned.
\* (lesson-progress.service.ts:509, generateLessonProgress.)
THEOREM BlockStartsOpenCorrect == Spec => []BlockStartsOpen
<1>1. OpenInv => BlockStartsOpen
  BY DEF OpenInv
<1>2. QED
  BY <1>1, OpenInit, OpenNext, PTL DEF Spec

-----------------------------------------------------------------------------
(***************************************************************************)
(* One request at a time: what a request read is still so when it saves,   *)
(* a lesson has one row, and the row it unlocks is of the lesson after a   *)
(* watched one.                                                            *)
(***************************************************************************)
Alone == \A v, w \in Worker : (req[v].step # "idle" /\ req[w].step # "idle") => v = w

OneRow == \A i, j \in made : i[1] = j[1] => i = j

OnlyPublished == \A i \in made : LessonOf(i) \in 1..published[i[1][1]]

Reached(i) == LessonOf(i) > 1 => Watched(<<i[1][1], LessonOf(i) - 1>>)

\* What request w read and decided is true of the rows.
Knows(w) ==
  /\ req[w].step \in {"watch", "unlock"} => req[w].read = row[req[w].id]
  /\ req[w].step = "watch" => ~req[w].read.watched
  /\ req[w].step = "unlock" => Reached(req[w].id)
  /\ req[w].step \in {"schedule", "enqueue", "recount"} => row[req[w].id].watched
  /\ req[w].step = "create" =>
       /\ req[w].todo # {}
       /\ \A k \in req[w].todo : k \in 1..published[req[w].block]
                                 /\ RowsOfLesson(<<req[w].block, k>>) = {}

OrderInv ==
  /\ TypeInv
  /\ Alone /\ OneRow /\ OnlyPublished
  /\ UnlockedInOrder
  /\ \A w \in Worker : Knows(w)

OthersIdle(w) == \A v \in Worker \ {w} : req[v].step = "idle"

LEMMA OrderInit == Init => OrderInv
<1> SUFFICES ASSUME Init PROVE OrderInv
  OBVIOUS
<1>1. Alone /\ OneRow /\ OnlyPublished /\ UnlockedInOrder
  BY DEF Init, Alone, OneRow, OnlyPublished, UnlockedInOrder, Idle
<1>2. \A w \in Worker : Knows(w)
  BY DEF Init, Knows, Idle
<1>3. QED
  BY <1>1, <1>2, TypeInit DEF OrderInv

\* The request that is at work, or starts, is the only one.
LEMMA WorksAlone ==
  ASSUME ~Overlap, Alone, NEW w \in Worker, req[w].step # "idle" \/ MayStart(w)
  PROVE  OthersIdle(w)
<1>1. CASE req[w].step # "idle"
  BY <1>1 DEF Alone, OthersIdle
<1>2. CASE MayStart(w)
  BY <1>2 DEF MayStart, OthersIdle, Idle
<1>3. QED
  BY <1>1, <1>2

LEMMA AloneSteps ==
  ASSUME NEW w \in Worker, OthersIdle(w), OthersWait(w), Knows(w)'
  PROVE  Alone' /\ \A v \in Worker : Knows(v)'
<1>1. \A v \in Worker \ {w} : req'[v].step = "idle"
  BY DEF OthersIdle, OthersWait
<1>2. Alone'
  BY <1>1 DEF Alone
<1>3. QED
  BY <1>1, <1>2 DEF Knows

\* Reading, and saving elsewhere.
LEMMA OrderReads ==
  ASSUME OrderInv, TypeInv', NEW w \in Worker, OthersIdle(w), OthersWait(w), Knows(w)',
         UNCHANGED <<published, made, row>>
  PROVE  OrderInv'
<1>1. OneRow' /\ OnlyPublished'
  BY DEF OrderInv, OneRow, OnlyPublished
<1>2. UnlockedInOrder'
  BY DEF OrderInv, UnlockedInOrder, Watched, RowsOfLesson
<1>3. QED
  BY <1>1, <1>2, AloneSteps DEF OrderInv

LEMMA LessonPair == \A l \in Lesson : l = <<l[1], l[2]>> /\ l[1] \in Block /\ l[2] \in Int
<1> DEFINE last == Max({LessonsOf[c] : c \in Block})
<1>1. Lesson = {<<b, k>> : b \in Block, k \in 1..last}
  BY DEF Lesson
<1> HIDE DEF last
<1>2. \A k \in 1..last : k \in Int
  OBVIOUS
<1>3. QED
  BY <1>1, <1>2

\* The lesson after the last one that is watched and unlocked.
LEMMA NextReached ==
  ASSUME TypeInv, OnlyPublished, NEW b \in Block, NEW i \in NextOf(b)
  PROVE  i \in made /\ Reached(i)
<1> DEFINE rows == {j \in RowsOf(b) : row[j].watched /\ row[j].unlocked}
           seen == {LessonOf(j) : j \in rows}
<1>1. seen # {} /\ i \in RowsOfLesson(<<b, Max(seen) + 1>>)
  BY DEF NextOf
<1>2. published[b] \in Nat
  BY DEF TypeInv, CourseOK
<1>3. seen \in SUBSET (1..published[b])
  BY DEF OnlyPublished, RowsOf
<1>4. Max(seen) \in seen
  BY <1>1, <1>2, <1>3, MaxOf
<1>5. PICK j \in rows : Max(seen) = LessonOf(j)
  BY <1>4
<1>6. LessonOf(j) \in 1..published[b]
  BY <1>3, <1>4, <1>5
<1>7. i \in made /\ i[1] = <<b, LessonOf(j) + 1>>
  BY <1>1, <1>5 DEF RowsOfLesson
<1>8. j \in made /\ j[1][1] = b /\ row[j].watched
  BY DEF RowsOf
<1>9. j[1] = <<b, LessonOf(j)>>
  BY <1>8, LessonOfId, LessonPair DEF LessonOf, TypeInv, ProgressOK
<1>10. Watched(<<b, LessonOf(j)>>)
  BY <1>8, <1>9 DEF Watched, RowsOfLesson
<1>11. i[1][1] = b /\ LessonOf(i) = LessonOf(j) + 1 /\ LessonOf(i) - 1 = LessonOf(j)
  BY <1>6, <1>7 DEF LessonOf
<1>12. QED
  BY <1>7, <1>10, <1>11 DEF Reached

LEMMA FollowingReached ==
  ASSUME TypeInv, NEW j \in made, row[j].watched, NEW i \in RowsOfLesson(Following(j[1]))
  PROVE  i \in made /\ Reached(i)
<1>1. i \in made /\ i[1] = <<j[1][1], j[1][2] + 1>>
  BY DEF RowsOfLesson, Following
<1>2. j[1] = <<j[1][1], j[1][2]>> /\ j[1][2] \in Int
  BY LessonOfId, LessonPair DEF TypeInv, ProgressOK
<1>3. Watched(<<j[1][1], j[1][2]>>)
  BY <1>2 DEF Watched, RowsOfLesson
<1>4. i[1][1] = j[1][1] /\ LessonOf(i) - 1 = j[1][2]
  BY <1>1, <1>2 DEF LessonOf
<1>5. QED
  BY <1>1, <1>3, <1>4 DEF Reached

\* The steps of a request that only read rows.
LEMMA OrderUpdate ==
  ASSUME ~Overlap, OrderInv, TypeInv', NEW w \in Worker, NEW i \in Id, LessonProgressUpdate(w, i)
  PROVE  OrderInv'
<1>1. OthersIdle(w)
  BY WorksAlone DEF OrderInv, LessonProgressUpdate
<1>2. OthersWait(w) /\ req'[w] = [step |-> "watch", id |-> i, read |-> row[i]]
  BY MoveUpdate DEF OrderInv
<1>3. UNCHANGED <<published, made, row>> /\ ~row[i].watched
  BY DEF LessonProgressUpdate, progress
<1>4. Knows(w)'
  BY <1>2, <1>3 DEF Knows
<1>5. QED
  BY <1>1, <1>2, <1>3, <1>4, OrderReads

LEMMA OrderHomework ==
  ASSUME ~Overlap, OrderInv, TypeInv', NEW w \in Worker,
         ScheduleHomeworkForLesson(w) \/ Enqueue(w)
  PROVE  OrderInv'
<1>1. OthersIdle(w)
  BY WorksAlone DEF OrderInv, ScheduleHomeworkForLesson, Enqueue
<1>2. /\ OthersWait(w)
      /\ req'[w].step \in {"idle", "recount", "enqueue"}
      /\ req'[w].step \in {"recount", "enqueue"} => req'[w].id = req[w].id
  <2>1. TypeInv
    BY DEF OrderInv
  <2>2. CASE ScheduleHomeworkForLesson(w)
    BY <2>1, <2>2, MoveSchedule
  <2>3. CASE Enqueue(w)
    BY <2>1, <2>3, MoveEnqueue
  <2>4. QED
    BY <2>2, <2>3
<1>3. UNCHANGED <<published, made, row>> /\ row[req[w].id].watched
  BY DEF ScheduleHomeworkForLesson, Enqueue, progress, OrderInv, Knows
<1>4. Knows(w)'
  BY <1>2, <1>3 DEF Knows
<1>5. QED
  BY <1>1, <1>2, <1>3, <1>4, OrderReads

LEMMA KnowsUnlock ==
  ASSUME NEW w \in Worker, NEW i \in made, MovesToUnlock(w, i), Reached(i), UNCHANGED <<made, row>>
  PROVE  Knows(w)'
<1>1. Reached(i)'
  BY DEF Reached, Watched, RowsOfLesson
<1>2. Reached(i)' => Reached(req[w].id)'
  BY DEF MovesToUnlock
<1>3. QED
  BY <1>1, <1>2 DEF Knows, MovesToUnlock

LEMMA OrderUnlocks ==
  ASSUME ~Overlap, OrderInv, TypeInv', NEW w \in Worker, FindNextLesson(w) \/ CheckBlock(w)
  PROVE  OrderInv'
<1>1. OthersIdle(w)
  BY WorksAlone DEF OrderInv, FindNextLesson, CheckBlock
<1>2. UNCHANGED <<published, made, row>>
  BY DEF FindNextLesson, CheckBlock, progress
<1>3. TypeInv /\ OnlyPublished /\ Knows(w)
  BY DEF OrderInv
<1>4. OthersWait(w) /\ (\/ req'[w].step \in {"idle", "generate"}
                        \/ \E i \in made : Reached(i) /\ MovesToUnlock(w, i))
  <2>1. CASE FindNextLesson(w)
    <3>1. row[req[w].id].watched /\ req[w].id \in made
      BY <1>3, <2>1, AtStep DEF FindNextLesson, Knows, OfRow
    <3>2. QED
      BY <1>3, <2>1, <3>1, MoveFind, FollowingReached
  <2>2. CASE CheckBlock(w)
    <3>1. req[w].block \in Block
      BY <1>3, <2>2, AtStep DEF CheckBlock
    <3>2. QED
      BY <1>3, <2>2, <3>1, MoveCheck, NextReached
  <2>3. QED
    BY <2>1, <2>2
<1>5. Knows(w)'
  <2>1. CASE req'[w].step \in {"idle", "generate"}
    BY <2>1 DEF Knows
  <2>2. QED
    BY <1>2, <1>4, <2>1, KnowsUnlock
<1>6. QED
  BY <1>1, <1>2, <1>4, <1>5, OrderReads

LEMMA OrderIgnores ==
  ASSUME ~Overlap, OrderInv, TypeInv', NEW w \in Worker,
         \/ \E b \in Block : GetVideos(w, b)
         \/ SaveWarning(w)
         \/ \E x \in Id : HomeworkProgressUpdate(w, x)
         \/ SaveReview(w) \/ RemoveFromQueue(w) \/ AbortRequest(w)
  PROVE  OrderInv'
<1>1. OthersIdle(w)
  <2>1. CASE AbortRequest(w)
    <3>1. req[w] \in Request /\ req[w] # Idle
      BY <2>1 DEF AbortRequest, OrderInv, TypeInv, RequestsOK
    <3>2. req[w].step # "idle"
      BY <3>1 DEF Request, Idle
    <3>3. QED
      BY <3>2, WorksAlone DEF OrderInv
  <2>2. CASE ~AbortRequest(w)
    BY <2>2, WorksAlone DEF OrderInv, GetVideos, SaveWarning, HomeworkProgressUpdate, SaveReview,
       RemoveFromQueue
  <2>3. QED
    BY <2>1, <2>2
<1>2. UNCHANGED <<published, made, row>>
  BY DEF GetVideos, SaveWarning, HomeworkProgressUpdate, SaveReview, RemoveFromQueue,
     AbortRequest, progress
<1>3. TypeInv
  BY DEF OrderInv
<1>4. OthersWait(w)
      /\ req'[w].step \in {"generate", "warn", "check", "review", "remove", "idle"}
  <2>1. CASE (\E b \in Block : GetVideos(w, b)) \/ SaveWarning(w)
    BY <1>3, <2>1, MoveOpen, MoveWarning
  <2>2. CASE (\E x \in Id : HomeworkProgressUpdate(w, x)) \/ SaveReview(w)
    BY <1>3, <2>2, MoveReview, MoveSteps
  <2>3. CASE RemoveFromQueue(w) \/ AbortRequest(w)
    BY <1>3, <2>3, MoveSteps
  <2>4. QED
    BY <2>1, <2>2, <2>3
<1>5. Knows(w)'
  BY <1>4 DEF Knows
<1>6. QED
  BY <1>1, <1>2, <1>4, <1>5, OrderReads

LEMMA OrderGenerate ==
  ASSUME ~Overlap, OrderInv, TypeInv', NEW w \in Worker, GenerateLessonProgress(w)
  PROVE  OrderInv'
<1> DEFINE b == req[w].block
           todo == {k \in 1..published[b] : RowsOfLesson(<<b, k>>) = {}}
           q == [step |-> "create", block |-> b, todo |-> todo, first |-> RowsOf(b) = {}]
<1>1. OthersIdle(w)
  BY WorksAlone DEF OrderInv, GenerateLessonProgress
<1>2. UNCHANGED <<published, made, row>>
  BY DEF GenerateLessonProgress, progress
<1>3. GoOn(w, Idle) \/ (todo # {} /\ GoOn(w, q))
  BY DEF GenerateLessonProgress
<1>4. OthersWait(w) /\ Knows(w)'
  <2>1. CASE GoOn(w, Idle)
    <3>1. OthersWait(w) /\ req'[w].step = "idle"
      BY <2>1, GoesOn DEF OrderInv, Idle
    <3>2. QED
      BY <3>1 DEF Knows
  <2>2. CASE todo # {} /\ GoOn(w, q)
    <3>1. OthersWait(w) /\ req'[w] = q
      BY <2>2, GoesOn DEF OrderInv
    <3>2. PICK c, t : c = b /\ t = todo
      OBVIOUS
    <3>3. \A k \in t : k \in 1..published[c] /\ RowsOfLesson(<<c, k>>) = {}
      BY <3>2
    <3>4. req'[w].step = "create" /\ req'[w].block = c /\ req'[w].todo = t /\ t # {}
      BY <2>2, <3>1, <3>2
    <3> HIDE DEF todo, q
    <3>5. \A k \in t : k \in 1..published'[c] /\ RowsOfLesson(<<c, k>>)' = {}
      BY <1>2, <3>3 DEF RowsOfLesson
    <3>6. QED
      BY <3>1, <3>4, <3>5 DEF Knows, RowsOfLesson
  <2>3. QED
    BY <1>3, <2>1, <2>2
<1>5. QED
  BY <1>1, <1>2, <1>4, OrderReads

\* Saves keep what is watched, and unlock what is reached.
StillWatched ==
  made \subseteq made' /\ \A i \in made : row[i].watched => row'[i].watched

LEMMA WatchedStays ==
  ASSUME StillWatched
  PROVE  /\ \A l : Watched(l) => Watched(l)'
         /\ \A i : Reached(i) => Reached(i)'
<1>1. \A l : Watched(l) => Watched(l)'
  BY DEF StillWatched, Watched, RowsOfLesson
<1>2. \A i : LessonOf(i)' = LessonOf(i)
  BY DEF LessonOf
<1>3. ASSUME NEW i, Reached(i) PROVE Reached(i)'
  <2>1. PICK l : l = <<i[1][1], LessonOf(i) - 1>>
    OBVIOUS
  <2>2. Watched(l) => Watched(l)'
    BY <1>1
  <2>3. QED
    BY <1>2, <1>3, <2>1, <2>2 DEF Reached
<1>4. QED
  BY <1>1, <1>3

LEMMA OrderSaves ==
  ASSUME OrderInv, TypeInv', NEW w \in Worker, OthersIdle(w), OthersWait(w), Knows(w)',
         UNCHANGED <<published, made>>, StillWatched,
         \A i \in made : row'[i].unlocked => row[i].unlocked \/ Reached(i)
  PROVE  OrderInv'
<1>1. OneRow' /\ OnlyPublished'
  BY DEF OrderInv, OneRow, OnlyPublished
<1>2. \A i \in made : row'[i].unlocked => Reached(i)
  BY DEF OrderInv, UnlockedInOrder, Reached
<1>3. \A i \in made : row'[i].unlocked => Reached(i)'
  BY <1>2, WatchedStays
<1>4. UnlockedInOrder'
  BY <1>3 DEF UnlockedInOrder, Reached
<1>5. QED
  BY <1>1, <1>4, AloneSteps DEF OrderInv

\* A save of a row that is still as it was read.
LEMMA SavesRow ==
  ASSUME TypeInv, NEW i \in made, NEW m \in Mark, SaveRow(i, m)
  PROVE  made' = made /\ row'[i] = m /\ \A j \in made \ {i} : row'[j] = row[j]
  BY DEF SaveRow, TypeInv, ProgressOK

LEMMA OrderSaveWatched ==
  ASSUME ~Overlap, OrderInv, TypeInv', NEW w \in Worker, SaveWatched(w)
  PROVE  OrderInv' /\ StillWatched
<1> DEFINE m == [req[w].read EXCEPT !.watched = TRUE]
           q == [step |-> "schedule", id |-> req[w].id]
<1>1. OthersIdle(w)
  BY WorksAlone DEF OrderInv, SaveWatched
<1>2. TypeInv /\ Knows(w) /\ req[w].step = "watch" /\ UNCHANGED published
  BY DEF OrderInv, SaveWatched
<1>3. req[w].id \in made /\ req[w].read \in Mark /\ req[w].read = row[req[w].id]
  BY <1>2, AtStep DEF OfRow, Knows
<1>4. \/ GoOn(w, Idle) /\ UNCHANGED progress
      \/ GoOn(w, q) /\ SaveRow(req[w].id, m)
  BY DEF SaveWatched
<1>5. CASE GoOn(w, Idle) /\ UNCHANGED progress
  <2>1. OthersWait(w) /\ req'[w].step = "idle"
    BY <1>2, <1>5, GoesOn DEF Idle
  <2>2. Knows(w)'
    BY <2>1 DEF Knows
  <2>3. QED
    BY <1>1, <1>2, <1>5, <2>1, <2>2, OrderReads DEF progress, StillWatched
<1>6. CASE GoOn(w, q) /\ SaveRow(req[w].id, m)
  <2>1. OthersWait(w) /\ req'[w].step = "schedule" /\ req'[w].id = req[w].id
    BY <1>2, <1>6, GoesOn
  <2>2. m \in Mark /\ m.watched /\ m.unlocked = row[req[w].id].unlocked
    BY <1>3 DEF Mark
  <2> HIDE DEF m, q
  <2>3. /\ made' = made /\ row'[req[w].id] = m
        /\ \A j \in made \ {req[w].id} : row'[j] = row[j]
    BY <1>2, <1>3, <1>6, <2>2, SavesRow
  <2>4. StillWatched /\ \A j \in made : row'[j].unlocked => row[j].unlocked \/ Reached(j)
    BY <2>2, <2>3 DEF StillWatched
  <2>5. Knows(w)'
    BY <2>1, <2>2, <2>3 DEF Knows
  <2>6. QED
    BY <1>1, <1>2, <2>1, <2>3, <2>4, <2>5, OrderSaves
<1>7. QED
  BY <1>4, <1>5, <1>6

LEMMA OrderSaveUnlocked ==
  ASSUME ~Overlap, OrderInv, TypeInv', NEW w \in Worker, SaveUnlocked(w)
  PROVE  OrderInv' /\ StillWatched
<1> DEFINE m == [req[w].read EXCEPT !.unlocked = TRUE]
<1>1. OthersIdle(w)
  BY WorksAlone DEF OrderInv, SaveUnlocked
<1>2. TypeInv /\ Knows(w) /\ req[w].step = "unlock" /\ UNCHANGED published
  BY DEF OrderInv, SaveUnlocked
<1>3. /\ req[w].id \in made /\ req[w].read \in Mark /\ req[w].read = row[req[w].id]
      /\ Reached(req[w].id)
  BY <1>2, AtStep DEF OfRow, Knows
<1>4. GoOn(w, Idle) /\ SaveRow(req[w].id, m)
  BY DEF SaveUnlocked
<1>5. OthersWait(w) /\ req'[w].step = "idle"
  BY <1>2, <1>4, GoesOn DEF Idle
<1>6. m \in Mark /\ m.watched = row[req[w].id].watched
  BY <1>3 DEF Mark
<1> HIDE DEF m
<1>7. /\ made' = made /\ row'[req[w].id] = m
      /\ \A j \in made \ {req[w].id} : row'[j] = row[j]
  BY <1>2, <1>3, <1>4, <1>6, SavesRow
<1>8. StillWatched /\ \A j \in made : row'[j].unlocked => row[j].unlocked \/ Reached(j)
  BY <1>3, <1>6, <1>7 DEF StillWatched
<1>9. Knows(w)'
  BY <1>5 DEF Knows
<1>10. QED
  BY <1>1, <1>2, <1>5, <1>7, <1>8, <1>9, OrderSaves

LEMMA OrderCreateProgress ==
  ASSUME ~Overlap, OrderInv, TypeInv', NEW w \in Worker, CreateProgress(w)
  PROVE  OrderInv' /\ StillWatched
<1> DEFINE k == Min(req[w].todo)
           q == [req[w] EXCEPT !.todo = @ \ {k}]
<1>1. OthersIdle(w)
  BY WorksAlone DEF OrderInv, CreateProgress
<1>2. /\ TypeInv /\ Knows(w) /\ req[w].step = "create" /\ UNCHANGED published
      /\ OneRow /\ OnlyPublished /\ UnlockedInOrder
  BY DEF OrderInv, CreateProgress
<1>3. PICK i \in Id \ made :
        /\ i[1] = <<req[w].block, k>>
        /\ made' = made \cup {i}
        /\ row'[i].unlocked = (req[w].first /\ k = 1)
        /\ \A j \in Id \ {i} : row'[j] = row[j]
        /\ GoOn(w, Idle) \/ (req[w].todo # {k} /\ GoOn(w, q))
  BY <1>2, Creates
<1> HIDE DEF k, q
<1>4. PICK b, todo : b = req[w].block /\ todo = req[w].todo
  OBVIOUS
<1>5. \A n \in todo : n \in 1..published[b] /\ RowsOfLesson(<<b, n>>) = {}
  BY <1>2, <1>4 DEF Knows
<1>6. k \in todo
  BY <1>2, <1>4, AtStep, MinOf DEF Knows, k
<1>7. i[1] = <<b, k>> /\ i[1][1] = b /\ LessonOf(i) = k
  BY <1>3, <1>4 DEF LessonOf
<1>8. made \subseteq Id \ {i}
  BY <1>2, <1>3 DEF TypeInv, ProgressOK
<1>9. OneRow' /\ OnlyPublished'
  <2>1. \A j \in made : j[1] # <<b, k>>
    BY <1>5, <1>6 DEF RowsOfLesson
  <2>2. OneRow'
    BY <1>2, <1>3, <1>7, <2>1 DEF OneRow
  <2>3. LessonOf(i) \in 1..published[i[1][1]]
    BY <1>5, <1>6, <1>7
  <2>4. OnlyPublished'
    BY <1>2, <1>3, <2>3 DEF OnlyPublished, LessonOf
  <2>5. QED
    BY <2>2, <2>4
<1>10. UnlockedInOrder' /\ StillWatched
  <2>1. StillWatched
    BY <1>3, <1>8 DEF StillWatched
  <2>2. \A j \in made : row'[j].unlocked => Reached(j)
    BY <1>2, <1>3, <1>8 DEF UnlockedInOrder, Reached
  <2>3. row'[i].unlocked => Reached(i)
    <3>1. row'[i].unlocked => k = 1
      BY <1>3
    <3>2. ~(1 > 1)
      OBVIOUS
    <3>3. QED
      BY <1>7, <3>1, <3>2 DEF Reached
  <2>4. \A j \in made' : row'[j].unlocked => Reached(j)'
    BY <1>3, <2>1, <2>2, <2>3, WatchedStays
  <2>5. QED
    BY <2>1, <2>4 DEF UnlockedInOrder, Reached
<1>11. OthersWait(w) /\ Knows(w)'
  <2>1. CASE GoOn(w, Idle)
    <3>1. OthersWait(w) /\ req'[w].step = "idle"
      BY <1>2, <2>1, GoesOn DEF Idle
    <3>2. QED
      BY <3>1 DEF Knows
  <2>2. CASE req[w].todo # {k} /\ GoOn(w, q)
    <3>1. req'[w] = q /\ OthersWait(w)
      BY <1>2, <2>2, GoesOn
    <3>2. req'[w].step = "create" /\ req'[w].block = b /\ req'[w].todo = todo \ {k}
      BY <1>2, <1>4, <3>1, CreatesOn DEF q
    <3>3. \A n \in todo \ {k} : n \in 1..published'[b] /\ RowsOfLesson(<<b, n>>)' = {}
      <4>1. TAKE n \in todo \ {k}
      <4>2. n \in 1..published'[b] /\ RowsOfLesson(<<b, n>>) = {}
        BY <1>2, <1>5
      <4>3. i[1] # <<b, n>>
        BY <1>7
      <4>4. RowsOfLesson(<<b, n>>)' = {}
        BY <1>3, <4>2, <4>3 DEF RowsOfLesson
      <4>5. QED
        BY <4>2, <4>4
    <3>4. todo \ {k} # {}
      BY <1>4, <1>6, <2>2
    <3>5. QED
      BY <3>1, <3>2, <3>3, <3>4 DEF Knows, RowsOfLesson
  <2>3. QED
    BY <1>3, <2>1, <2>2
<1>12. QED
  BY <1>1, <1>9, <1>10, <1>11, AloneSteps DEF OrderInv

\* What changes no row and no request, except for the day of a warning.
LEMMA OrderElsewhere ==
  ASSUME OrderInv, TypeInv', UNCHANGED <<made, row>>,
         \A b \in Block : published[b] <= published'[b],
         \A w \in Worker : req'[w] = req[w] \/ (req[w].step = "warn" /\ req'[w].step = "warn")
  PROVE  OrderInv'
<1>1. Alone'
  <2>1. \A w \in Worker : req'[w].step = req[w].step
    OBVIOUS
  <2>2. QED
    BY <2>1 DEF OrderInv, Alone
<1>2. OneRow'
  BY DEF OrderInv, OneRow
<1>3. \A b \in Block : \A k \in 1..published[b] : k \in 1..published'[b]
  BY DEF OrderInv, TypeInv, CourseOK
<1>4. OnlyPublished'
  <2>1. \A i \in made : i[1][1] \in Block
    BY LessonOfId, LessonPair DEF OrderInv, TypeInv, ProgressOK
  <2>2. QED
    BY <1>3, <2>1 DEF OrderInv, OnlyPublished, LessonOf
<1>5. UnlockedInOrder'
  BY DEF OrderInv, UnlockedInOrder, Watched, RowsOfLesson
<1>6. ASSUME NEW w \in Worker PROVE Knows(w)'
  <2>1. Knows(w)
    BY DEF OrderInv
  <2>2. CASE req'[w].step = "warn"
    BY <2>2 DEF Knows
  <2>3. CASE req'[w] = req[w]
    <3>1. req[w].step = "create" => req[w].block \in Block
      BY AtStep DEF OrderInv
    <3>2. req[w].step = "create" =>
            \A k \in req[w].todo : k \in 1..published'[req[w].block]
      BY <1>3, <2>1, <3>1 DEF Knows
    <3>3. Reached(req[w].id) => Reached(req[w].id)'
      BY <2>3 DEF Reached, Watched, RowsOfLesson
    <3>4. QED
      BY <2>1, <2>3, <3>2, <3>3 DEF Knows, RowsOfLesson
  <2>4. QED
    BY <2>2, <2>3
<1>7. QED
  BY <1>1, <1>2, <1>4, <1>5, <1>6 DEF OrderInv

LEMMA OrderNext == ASSUME ~Overlap PROVE OrderInv /\ [Next]_vars => OrderInv'
<1> SUFFICES ASSUME OrderInv, [Next]_vars PROVE OrderInv'
  OBVIOUS
<1>1. TypeInv /\ TypeInv'
  BY TypeNext DEF OrderInv
<1>2. ASSUME NEW w \in Worker, Handle(w) PROVE OrderInv'
  BY <1>1, <1>2, OrderSaveWatched, OrderHomework, OrderUnlocks, OrderSaveUnlocked, OrderIgnores,
     OrderGenerate, OrderCreateProgress
  DEF Handle
<1>3. ASSUME NEW w \in Worker, \/ AbortRequest(w)
                               \/ \E i \in Id : LessonProgressUpdate(w, i)
                               \/ \E b \in Block : GetVideos(w, b)
                               \/ \E x \in Id : HomeworkProgressUpdate(w, x)
      PROVE  OrderInv'
  BY <1>1, <1>3, OrderIgnores, OrderUpdate
<1>4. CASE \/ Schedule \/ \E r \in Runner : RunOn(r) \/ AbortRun(r)
           \/ EndSubscription \/ Pay
           \/ \E x \in Id : Ripen(x)
           \/ UNCHANGED vars
  <2>1. UNCHANGED <<published, made, row, req>>
    BY <1>4 DEF Schedule, RunOn, ProcessHomeworkQueue, SaveExpired, ScheduleHomeworkForUser,
       Insert, AbortRun, EndSubscription, Pay, Ripen, vars, progress
  <2>2. \A b \in Block : published[b] <= published'[b]
    BY <1>1, <2>1 DEF TypeInv, CourseOK
  <2>3. QED
    BY <1>1, <2>1, <2>2, OrderElsewhere
<1>5. ASSUME NEW b \in Block, Publish(b) PROVE OrderInv'
  <2>1. UNCHANGED <<made, row, req>> /\ published' = [published EXCEPT ![b] = @ + 1]
    BY <1>5 DEF Publish, progress
  <2>2. \A c \in Block : published[c] <= published'[c]
    BY <1>1, <2>1 DEF TypeInv, CourseOK
  <2>3. QED
    BY <1>1, <2>1, <2>2, OrderElsewhere
<1>6. CASE Midnight
  <2>1. UNCHANGED <<published, made, row>>
    BY <1>6 DEF Midnight
  <2>2. \A w \in Worker : req'[w] = req[w] \/ (req[w].step = "warn" /\ req'[w].step = "warn")
    <3>1. TAKE w \in Worker
    <3>2. req'[w] = Aged(req[w])
      BY <1>6 DEF Midnight
    <3>3. QED
      BY <1>1, <3>2, AtStep, AgedRequest
  <2>3. \A b \in Block : published[b] <= published'[b]
    BY <1>1, <2>1 DEF TypeInv, CourseOK
  <2>4. QED
    BY <1>1, <2>1, <2>2, <2>3, OrderElsewhere
<1>7. QED
  BY <1>2, <1>3, <1>4, <1>5, <1>6 DEF Next, Watch, Open, Review, Time

\* When a student's requests come one at a time, a lesson is unlocked only after the one
\* before it was watched, whatever the shape of the course, whenever lessons are published,
\* and wherever a request is abandoned.  (lesson-progress.service.ts:206, unlockNextLesson,
\* and 391, the lazy unlock.)
THEOREM UnlockedInOrderCorrect == ASSUME ~Overlap PROVE Spec => []UnlockedInOrder
<1>1. OrderInv => UnlockedInOrder
  BY DEF OrderInv
<1>2. OrderInv /\ [Next]_vars => OrderInv'
  BY OrderNext
<1>3. QED
  BY <1>1, <1>2, OrderInit, PTL DEF Spec

-----------------------------------------------------------------------------
(***************************************************************************)
(* One request and one scheduler run at a time: a homework that was never  *)
(* asked for has no item, and one that was reviewed is queued again only   *)
(* by the scheduler, when no item of it is left.                           *)
(***************************************************************************)
AloneRun == \A r, t \in Runner : (run[r].step # "idle" /\ run[t].step # "idle") => r = t

\* No item of the homework is on the queue, and it was never reviewed.
Unasked(h) == h \notin QueuedHomeworks /\ reviews[h] = <<>>

\* The homework of a lesson just watched was never asked for, and one that is being
\* reviewed is of a watched lesson.
Asks(w) ==
  /\ req[w].step \in {"schedule", "enqueue"} => Unasked(req[w].id[1])
  /\ req[w].step = "review" => Watched(req[w].item[1])

\* A homework that run r is about to queue has no item, and was reviewed.
Inserts(r) ==
  run[r].step = "insert" =>
    run[r].homework \notin QueuedHomeworks /\ reviews[run[r].homework] # <<>>

QueueInv ==
  /\ OrderInv
  /\ AloneRun
  /\ HomeworkOnlyOfWatched
  /\ OneItemPerHomework
  /\ \A w \in Worker : Asks(w)
  /\ \A r \in Runner : Inserts(r)

LEMMA QueueInit == Init => QueueInv
<1> SUFFICES ASSUME Init PROVE QueueInv
  OBVIOUS
<1>1. Queued = {} /\ \A h \in Lesson : reviews[h] = <<>>
  BY DEF Init, Queued
<1>2. AloneRun /\ HomeworkOnlyOfWatched /\ OneItemPerHomework
  BY <1>1 DEF Init, AloneRun, HomeworkOnlyOfWatched, OneItemPerHomework, QueuedHomeworks, Idle
<1>3. (\A w \in Worker : Asks(w)) /\ (\A r \in Runner : Inserts(r))
  BY DEF Init, Asks, Inserts, Idle
<1>4. QED
  BY <1>2, <1>3, OrderInit DEF QueueInv

\* What is watched stays watched.
LEMMA WatchedKept ==
  ASSUME ~Overlap, OrderInv, [Next]_vars
  PROVE  StillWatched
<1>1. TypeInv /\ TypeInv'
  BY TypeNext DEF OrderInv
<1>2. ASSUME UNCHANGED <<made, row>> PROVE StillWatched
  BY <1>2 DEF StillWatched
<1>3. ASSUME NEW w \in Worker, Handle(w) PROVE StillWatched
  <2>1. CASE SaveWatched(w) \/ SaveUnlocked(w) \/ CreateProgress(w)
    BY <1>1, <2>1, OrderSaveWatched, OrderSaveUnlocked, OrderCreateProgress
  <2>2. CASE ~(SaveWatched(w) \/ SaveUnlocked(w) \/ CreateProgress(w))
    <3>1. UNCHANGED <<made, row>>
      BY <1>3, <2>2 DEF Handle, ScheduleHomeworkForLesson, Enqueue, FindNextLesson, SaveWarning,
         CheckBlock, GenerateLessonProgress, SaveReview, RemoveFromQueue, progress
    <3>2. QED
      BY <1>2, <3>1
  <2>3. QED
    BY <2>1, <2>2
<1>4. CASE ~\E w \in Worker : Handle(w)
  <2>1. UNCHANGED <<made, row>>
    BY <1>4 DEF Next, Watch, Open, Review, Time, Schedule, RunOn, LessonProgressUpdate, GetVideos,
       HomeworkProgressUpdate, ProcessHomeworkQueue, SaveExpired, ScheduleHomeworkForUser, Insert,
       AbortRun, AbortRequest, EndSubscription, Pay, Publish, Ripen, Midnight, vars, progress
  <2>2. QED
    BY <1>2, <2>1
<1>5. QED
  BY <1>3, <1>4

LEMMA QueuedSame == queue' = queue => Queued' = Queued /\ QueuedHomeworks' = QueuedHomeworks
  BY DEF Queued, QueuedHomeworks

LEMMA StillOfWatched ==
  ASSUME HomeworkOnlyOfWatched, StillWatched,
         \A h \in Lesson : (h \in QueuedHomeworks' \/ reviews'[h] # <<>>) =>
                              h \in QueuedHomeworks \/ reviews[h] # <<>> \/ Watched(h)
  PROVE  HomeworkOnlyOfWatched'
<1>1. ASSUME NEW h \in Lesson, h \in QueuedHomeworks' \/ reviews'[h] # <<>>
      PROVE  Watched(h)'
  <2>1. Watched(h)
    BY <1>1 DEF HomeworkOnlyOfWatched
  <2>2. Watched(h) => Watched(h)'
    BY WatchedStays
  <2>3. QED
    BY <2>1, <2>2
<1>2. QED
  BY <1>1 DEF HomeworkOnlyOfWatched

\* Steps of requests that leave the homework alone.
LEMMA QueueReads ==
  ASSUME QueueInv, OrderInv', StillWatched, NEW w \in Worker, OthersIdle(w), OthersWait(w),
         Asks(w)', UNCHANGED <<queue, reviews, run>>
  PROVE  QueueInv'
<1>1. Queued' = Queued /\ QueuedHomeworks' = QueuedHomeworks
  BY QueuedSame
<1>2. HomeworkOnlyOfWatched'
  BY <1>1, StillOfWatched DEF QueueInv
<1>3. AloneRun' /\ OneItemPerHomework' /\ \A r \in Runner : Inserts(r)'
  BY <1>1 DEF QueueInv, AloneRun, OneItemPerHomework, Inserts
<1>4. \A v \in Worker \ {w} : req'[v].step = "idle"
  BY DEF OthersIdle, OthersWait
<1>5. \A v \in Worker : Asks(v)'
  BY <1>4 DEF Asks
<1>6. QED
  BY <1>2, <1>3, <1>5 DEF QueueInv

\* A lesson that is not watched yet was never asked for.
LEMMA QueueSaveWatched ==
  ASSUME ~Overlap, QueueInv, OrderInv', StillWatched, NEW w \in Worker, SaveWatched(w)
  PROVE  QueueInv'
<1>1. OthersIdle(w)
  BY WorksAlone DEF QueueInv, OrderInv, SaveWatched
<1>2. TypeInv /\ Knows(w) /\ OneRow /\ req[w].step = "watch" /\ UNCHANGED <<queue, reviews, run>>
  BY DEF QueueInv, OrderInv, SaveWatched, homework
<1>3. req[w].id \in made /\ req[w].id \in Id /\ ~row[req[w].id].watched
  BY <1>2, AtStep DEF Knows, OfRow
<1>4. Unasked(req[w].id[1])
  <2>1. PICK h : h = req[w].id[1]
    OBVIOUS
  <2>2. h \in Lesson
    BY <1>3, <2>1, LessonOfId
  <2>3. ~Watched(h)
    BY <1>2, <1>3, <2>1 DEF Watched, RowsOfLesson, OneRow
  <2>4. QED
    BY <2>1, <2>2, <2>3 DEF QueueInv, HomeworkOnlyOfWatched, Unasked
<1>5. OthersWait(w) /\ req'[w].step \in {"idle", "schedule"}
      /\ (req'[w].step = "schedule" => req'[w].id = req[w].id)
  <2>1. GoOn(w, Idle) \/ GoOn(w, [step |-> "schedule", id |-> req[w].id])
    BY DEF SaveWatched
  <2>2. CASE GoOn(w, Idle)
    BY <1>2, <2>2, GoesOn DEF Idle
  <2>3. CASE GoOn(w, [step |-> "schedule", id |-> req[w].id])
    BY <1>2, <2>3, GoesOn
  <2>4. QED
    BY <2>1, <2>2, <2>3
<1>6. Asks(w)'
  BY <1>2, <1>4, <1>5, QueuedSame DEF Asks, Unasked
<1>7. QED
  BY <1>1, <1>2, <1>5, <1>6, QueueReads

LEMMA QueueSchedule ==
  ASSUME ~Overlap, QueueInv, OrderInv', StillWatched, NEW w \in Worker,
         ScheduleHomeworkForLesson(w)
  PROVE  QueueInv'
<1>1. OthersIdle(w)
  BY WorksAlone DEF QueueInv, OrderInv, ScheduleHomeworkForLesson
<1>2. TypeInv /\ Asks(w) /\ req[w].step = "schedule" /\ UNCHANGED <<queue, reviews, run>>
  BY DEF QueueInv, OrderInv, ScheduleHomeworkForLesson, homework
<1>3. /\ OthersWait(w)
      /\ req'[w].step \in {"idle", "recount", "enqueue"}
      /\ req'[w].step \in {"recount", "enqueue"} => req'[w].id = req[w].id
  BY <1>2, MoveSchedule
<1>4. Asks(w)'
  BY <1>2, <1>3, QueuedSame DEF Asks, Unasked
<1>5. QED
  BY <1>1, <1>2, <1>3, <1>4, QueueReads

LEMMA QueueIgnores ==
  ASSUME ~Overlap, QueueInv, OrderInv', StillWatched, NEW w \in Worker,
         \/ \E i \in Id : LessonProgressUpdate(w, i)
         \/ \E b \in Block : GetVideos(w, b)
         \/ FindNextLesson(w) \/ SaveUnlocked(w) \/ SaveWarning(w) \/ CheckBlock(w)
         \/ GenerateLessonProgress(w) \/ CreateProgress(w) \/ AbortRequest(w)
  PROVE  QueueInv'
<1>1. TypeInv /\ Alone /\ UNCHANGED <<queue, reviews, run>>
  BY DEF QueueInv, OrderInv, LessonProgressUpdate, GetVideos, FindNextLesson, SaveUnlocked,
     SaveWarning, CheckBlock, GenerateLessonProgress, CreateProgress, AbortRequest, homework
<1>2. OthersIdle(w)
  <2>1. CASE AbortRequest(w)
    <3>1. req[w] \in Request /\ req[w] # Idle
      BY <1>1, <2>1 DEF AbortRequest, TypeInv, RequestsOK
    <3>2. req[w].step # "idle"
      BY <3>1 DEF Request, Idle
    <3>3. QED
      BY <1>1, <3>2, WorksAlone
  <2>2. CASE ~AbortRequest(w)
    BY <1>1, <2>2, WorksAlone DEF LessonProgressUpdate, GetVideos, FindNextLesson, SaveUnlocked,
       SaveWarning, CheckBlock, GenerateLessonProgress, CreateProgress
  <2>3. QED
    BY <2>1, <2>2
<1>3. OthersWait(w) /\ req'[w].step \notin {"schedule", "enqueue", "review"}
  <2>1. CASE (\E i \in Id : LessonProgressUpdate(w, i)) \/ (\E b \in Block : GetVideos(w, b))
    <3>1. ASSUME NEW i \in Id, LessonProgressUpdate(w, i)
          PROVE  OthersWait(w) /\ req'[w].step = "watch"
      <4>1. OthersWait(w) /\ req'[w] = [step |-> "watch", id |-> i, read |-> row[i]]
        BY <1>1, <3>1, MoveUpdate
      <4>2. QED
        BY <4>1
    <3>2. ASSUME NEW b \in Block, GetVideos(w, b)
          PROVE  OthersWait(w) /\ req'[w].step \in {"generate", "warn", "check"}
      BY <1>1, <3>2, MoveOpen
    <3>3. QED
      BY <2>1, <3>1, <3>2
  <2>2. CASE FindNextLesson(w) \/ CheckBlock(w)
    BY <1>1, <2>2, MoveSteps
  <2>3. CASE SaveUnlocked(w) \/ AbortRequest(w)
    BY <1>1, <2>3, MoveSteps
  <2>4. CASE SaveWarning(w)
    BY <1>1, <2>4, MoveWarning
  <2>5. CASE GenerateLessonProgress(w)
    <3> DEFINE b == req[w].block
               q == [step |-> "create", block |-> b,
                     todo |-> {k \in 1..published[b] : RowsOfLesson(<<b, k>>) = {}},
                     first |-> RowsOf(b) = {}]
    <3>1. GoOn(w, Idle) \/ GoOn(w, q)
      BY <2>5 DEF GenerateLessonProgress
    <3>2. q.step = "create"
      OBVIOUS
    <3> HIDE DEF q
    <3>3. QED
      BY <1>1, <3>1, <3>2, GoesOn DEF Idle
  <2>6. CASE CreateProgress(w)
    <3> DEFINE k == Min(req[w].todo)
               q == [req[w] EXCEPT !.todo = @ \ {k}]
    <3>1. GoOn(w, Idle) \/ GoOn(w, q)
      BY <2>6 DEF CreateProgress
    <3>2. q.step = "create"
      BY <1>1, <2>6, CreatesOn DEF CreateProgress
    <3> HIDE DEF k, q
    <3>3. QED
      BY <1>1, <3>1, <3>2, GoesOn DEF Idle
  <2>7. QED
    BY <2>1, <2>2, <2>3, <2>4, <2>5, <2>6
<1>4. Asks(w)'
  BY <1>3 DEF Asks
<1>5. QED
  BY <1>1, <1>2, <1>3, <1>4, QueueReads

LEMMA QueueReview ==
  ASSUME ~Overlap, QueueInv, OrderInv', StillWatched, NEW w \in Worker, NEW x \in Id,
         HomeworkProgressUpdate(w, x)
  PROVE  QueueInv'
<1>1. OthersIdle(w)
  BY WorksAlone DEF QueueInv, OrderInv, HomeworkProgressUpdate
<1>2. UNCHANGED <<queue, reviews, run>> /\ x \in Queued
  BY DEF HomeworkProgressUpdate, homework
<1>3. OthersWait(w) /\ req'[w].step = "review" /\ req'[w].item = x
  BY MoveReview DEF QueueInv, OrderInv
<1>4. PICK h : h = x[1]
  OBVIOUS
<1>5. h \in Lesson /\ h \in QueuedHomeworks
  BY <1>2, <1>4, LessonOfId DEF ReadyItems, Queued, QueuedHomeworks
<1>6. Watched(h) /\ (Watched(h) => Watched(h)')
  BY <1>5, WatchedStays DEF QueueInv, HomeworkOnlyOfWatched
<1>7. Watched(h)' => Watched(req[w].item[1])'
  BY <1>3, <1>4
<1>8. Asks(w)'
  BY <1>3, <1>6, <1>7 DEF Asks
<1>9. QED
  BY <1>1, <1>2, <1>3, <1>8, QueueReads

\* A new item of a homework without one.
LEMMA QueueAdds ==
  ASSUME QueueInv, StillWatched, NEW h \in Lesson, NEW state \in {"later", "ready"},
         AddToQueue(h, state), reviews' = reviews, h \notin QueuedHomeworks, Watched(h)
  PROVE  /\ HomeworkOnlyOfWatched' /\ OneItemPerHomework'
         /\ QueuedHomeworks' = QueuedHomeworks \cup {h}
<1>1. PICK x \in FreeIds(h) : Queued' = Queued \cup {x}
  BY Added DEF QueueInv, OrderInv
<1>2. x[1] = h
  BY DEF FreeIds
<1>3. QueuedHomeworks' = QueuedHomeworks \cup {h}
  BY <1>1, <1>2 DEF QueuedHomeworks
<1>4. HomeworkOnlyOfWatched'
  BY <1>3, StillOfWatched DEF QueueInv
<1>5. \A y \in Queued : y[1] # h
  BY DEF QueuedHomeworks
<1>6. OneItemPerHomework'
  BY <1>1, <1>2, <1>5 DEF QueueInv, OneItemPerHomework
<1>7. QED
  BY <1>3, <1>4, <1>6

LEMMA QueueEnqueue ==
  ASSUME ~Overlap, QueueInv, OrderInv', StillWatched, NEW w \in Worker, Enqueue(w)
  PROVE  QueueInv'
<1>1. OthersIdle(w)
  BY WorksAlone DEF QueueInv, OrderInv, Enqueue
<1>2. /\ TypeInv /\ Knows(w) /\ Asks(w) /\ req[w].step = "enqueue"
      /\ UNCHANGED <<reviews, run>>
  BY DEF QueueInv, OrderInv, Enqueue
<1>3. PICK h : h = req[w].id[1]
  OBVIOUS
<1>4. req[w].id \in made /\ row[req[w].id].watched /\ h \in Lesson
  BY <1>2, <1>3, AtStep, LessonOfId DEF Knows, OfRow
<1>5. Watched(h)
  BY <1>3, <1>4 DEF Watched, RowsOfLesson
<1>6. h \notin QueuedHomeworks /\ reviews[h] = <<>>
  BY <1>2, <1>3 DEF Asks, Unasked
<1>7. AddToQueue(h, "ready")
  BY <1>3 DEF Enqueue
<1>8. /\ HomeworkOnlyOfWatched' /\ OneItemPerHomework'
      /\ QueuedHomeworks' = QueuedHomeworks \cup {h}
  BY <1>2, <1>4, <1>5, <1>6, <1>7, QueueAdds
<1>9. OthersWait(w) /\ req'[w].step = "recount"
  BY <1>2, MoveEnqueue
<1>10. \A v \in Worker : Asks(v)'
  BY <1>1, <1>9 DEF Asks, OthersIdle, OthersWait
<1>11. \A r \in Runner : Inserts(r)'
  BY <1>2, <1>6, <1>8 DEF QueueInv, Inserts
<1>12. AloneRun'
  BY <1>2 DEF QueueInv, AloneRun
<1>13. QED
  BY <1>8, <1>10, <1>11, <1>12 DEF QueueInv

LEMMA ReviewsStay ==
  ASSUME TypeInv, NEW w \in Worker, req[w].step = "review",
         NEW counts \in Seq(1..MaxReviews), counts # <<>>
  PROVE  Reviewed(counts, req[w]) # <<>>
<1> DEFINE c == Min({req[w].count + 1, MaxReviews})
<1>1. Len(counts) \in Nat \ {0}
  BY EmptySeq, LenProperties
<1>2. Append(counts, c) # <<>>
  BY ReviewedOnce, AppendProperties
<1>3. DOMAIN [counts EXCEPT ![req[w].at] = c] = 1..Len(counts)
  BY LenProperties
<1>4. [counts EXCEPT ![req[w].at] = c] # <<>>
  BY <1>1, <1>3
<1>5. QED
  BY <1>2, <1>4 DEF Reviewed

LEMMA QueueSaveReview ==
  ASSUME ~Overlap, QueueInv, OrderInv', StillWatched, NEW w \in Worker, SaveReview(w)
  PROVE  QueueInv'
<1>1. OthersIdle(w)
  BY WorksAlone DEF QueueInv, OrderInv, SaveReview
<1>2. TypeInv /\ Asks(w) /\ req[w].step = "review" /\ UNCHANGED <<queue, run>>
  BY DEF QueueInv, OrderInv, SaveReview
<1>3. PICK h : h = req[w].item[1]
  OBVIOUS
<1>4. h \in Lesson /\ Watched(h)
  BY <1>2, <1>3, AtStep, LessonOfId DEF Asks
<1>5. reviews \in [Lesson -> Seq(1..MaxReviews)] /\ reviews'[h] = Reviewed(reviews[h], req[w])
      /\ \A g \in Lesson \ {h} : reviews'[g] = reviews[g]
  <2>1. reviews' = [reviews EXCEPT ![h] = Reviewed(@, req[w])]
    BY <1>3, Reviews
  <2>2. QED
    BY <1>2, <1>4, <2>1 DEF TypeInv, HomeworkOK
<1>6. reviews[h] # <<>> => reviews'[h] # <<>>
  BY <1>2, <1>4, <1>5, ReviewsStay
<1>7. Queued' = Queued /\ QueuedHomeworks' = QueuedHomeworks
  BY <1>2, QueuedSame
<1>8. HomeworkOnlyOfWatched'
  BY <1>4, <1>5, <1>7, StillOfWatched DEF QueueInv
<1>9. OthersWait(w) /\ req'[w].step = "remove"
  BY <1>2, MoveSaveReview
<1>10. \A v \in Worker : Asks(v)'
  BY <1>1, <1>9 DEF Asks, OthersIdle, OthersWait
<1>11. ASSUME NEW r \in Runner PROVE Inserts(r)'
  <2>1. run[r].step = "insert" => run[r].homework \in Lesson
    BY <1>2, AtRun
  <2>2. QED
    BY <1>2, <1>5, <1>6, <1>7, <2>1 DEF QueueInv, Inserts
<1>12. AloneRun' /\ OneItemPerHomework'
  BY <1>2, <1>7 DEF QueueInv, AloneRun, OneItemPerHomework
<1>13. QED
  BY <1>8, <1>10, <1>11, <1>12 DEF QueueInv

LEMMA QueueRemove ==
  ASSUME ~Overlap, QueueInv, OrderInv', StillWatched, NEW w \in Worker, RemoveFromQueue(w)
  PROVE  QueueInv'
<1>1. OthersIdle(w)
  BY WorksAlone DEF QueueInv, OrderInv, RemoveFromQueue
<1>2. TypeInv /\ UNCHANGED <<reviews, run>> /\ queue' = [queue EXCEPT ![req[w].item] = "none"]
  BY DEF QueueInv, OrderInv, RemoveFromQueue
<1>3. \A x \in Id : queue'[x] \in {queue[x], "none"}
  BY <1>2 DEF TypeInv, HomeworkOK
<1>4. Queued' \subseteq Queued
  BY <1>3 DEF Queued
<1>5. QueuedHomeworks' \subseteq QueuedHomeworks
  BY <1>4 DEF QueuedHomeworks
<1>6. HomeworkOnlyOfWatched'
  BY <1>2, <1>5, StillOfWatched DEF QueueInv
<1>7. OthersWait(w) /\ req'[w].step = "idle"
  BY <1>2, MoveSteps
<1>8. \A v \in Worker : Asks(v)'
  BY <1>1, <1>7 DEF Asks, OthersIdle, OthersWait
<1>9. OneItemPerHomework' /\ AloneRun' /\ \A r \in Runner : Inserts(r)'
  BY <1>2, <1>4, <1>5 DEF QueueInv, OneItemPerHomework, AloneRun, Inserts
<1>10. QED
  BY <1>6, <1>8, <1>9 DEF QueueInv

\* A scheduler run at one of its steps is the only one, and leaves the requests alone.
LEMMA QueueRuns ==
  ASSUME ~Overlap, QueueInv, NEW r \in Runner, NEW task,
         run' = [run EXCEPT ![r] = task],
         run[r] # Idle \/ \A t \in Runner : run[t] = Idle
  PROVE  /\ AloneRun'
         /\ run'[r] = task
         /\ \A t \in Runner \ {r} : run'[t].step = "idle"
<1>1. run \in [Runner -> Run] /\ AloneRun
  BY DEF QueueInv, OrderInv, TypeInv
<1>2. \A t \in Runner : run[t] # Idle => run[t].step # "idle"
  BY <1>1 DEF Run, Idle
<1>3. \A t \in Runner \ {r} : run[t].step = "idle"
  <2>1. CASE run[r] # Idle
    BY <1>1, <1>2, <2>1 DEF AloneRun
  <2>2. CASE \A t \in Runner : run[t] = Idle
    BY <2>2 DEF Idle
  <2>3. QED
    BY <2>1, <2>2
<1>4. run'[r] = task /\ \A t \in Runner \ {r} : run'[t].step = "idle"
  BY <1>1, <1>3
<1>5. QED
  BY <1>4 DEF AloneRun

LEMMA QueueRunReads ==
  ASSUME ~Overlap, QueueInv, OrderInv', StillWatched, NEW r \in Runner, NEW task,
         run' = [run EXCEPT ![r] = task],
         run[r] # Idle \/ \A t \in Runner : run[t] = Idle,
         task.step = "insert" =>
           task.homework \notin QueuedHomeworks /\ reviews[task.homework] # <<>>,
         UNCHANGED <<queue, reviews, made, row, req>>
  PROVE  QueueInv'
<1>1. /\ AloneRun' /\ run'[r] = task
      /\ \A t \in Runner \ {r} : run'[t].step = "idle"
  BY QueueRuns
<1>2. Queued' = Queued /\ QueuedHomeworks' = QueuedHomeworks
  BY QueuedSame
<1>3. HomeworkOnlyOfWatched'
  BY <1>2, StillOfWatched DEF QueueInv
<1>4. OneItemPerHomework'
  BY <1>2 DEF QueueInv, OneItemPerHomework
<1>5. \A w \in Worker : Asks(w)'
  BY <1>2 DEF QueueInv, Asks, Unasked, Watched, RowsOfLesson
<1>6. \A t \in Runner : Inserts(t)'
  BY <1>1, <1>2 DEF Inserts
<1>7. QED
  BY <1>1, <1>3, <1>4, <1>5, <1>6 DEF QueueInv

LEMMA QueueProcess ==
  ASSUME ~Overlap, QueueInv, OrderInv', StillWatched, NEW r \in Runner,
         ProcessHomeworkQueue(r) \/ SaveExpired(r) \/ AbortRun(r)
  PROVE  QueueInv'
<1>1. PICK task : run' = [run EXCEPT ![r] = task] /\ task.step # "insert"
  <2>1. CASE ProcessHomeworkQueue(r)
    <3> DEFINE expire == [step |-> "expire", sub |-> sub]
               plan == [step |-> "plan", paid |-> sub.paid, active |-> sub.active]
    <3>1. run' = [run EXCEPT ![r] = expire] \/ run' = [run EXCEPT ![r] = plan]
      BY <2>1 DEF ProcessHomeworkQueue
    <3>2. expire.step # "insert" /\ plan.step # "insert"
      OBVIOUS
    <3> HIDE DEF expire, plan
    <3>3. QED
      BY <3>1, <3>2
  <2>2. CASE SaveExpired(r)
    <3> DEFINE plan == [step |-> "plan", paid |-> run[r].sub.paid, active |-> FALSE]
    <3>1. run' = [run EXCEPT ![r] = plan]
      BY <2>2 DEF SaveExpired
    <3>2. plan.step # "insert"
      OBVIOUS
    <3> HIDE DEF plan
    <3>3. QED
      BY <3>1, <3>2
  <2>3. CASE AbortRun(r)
    <3>1. run' = [run EXCEPT ![r] = Idle]
      BY <2>3 DEF AbortRun
    <3>2. Idle.step # "insert"
      BY DEF Idle
    <3>3. QED
      BY <3>1, <3>2
  <2>4. QED
    BY <2>1, <2>2, <2>3
<1>2. run[r] # Idle \/ \A t \in Runner : run[t] = Idle
  BY DEF ProcessHomeworkQueue, SaveExpired, AbortRun, Idle
<1>3. UNCHANGED <<queue, reviews, made, row, req>>
  BY DEF ProcessHomeworkQueue, SaveExpired, AbortRun, homework, progress
<1>4. QED
  BY <1>1, <1>2, <1>3, QueueRunReads

LEMMA QueuePlan ==
  ASSUME ~Overlap, QueueInv, OrderInv', StillWatched, NEW r \in Runner,
         ScheduleHomeworkForUser(r)
  PROVE  QueueInv'
<1>1. PICK task : /\ run' = [run EXCEPT ![r] = task]
                  /\ task.step = "insert" => task.homework \in Recommended
  <2>1. CASE run' = [run EXCEPT ![r] = Idle]
    <3>1. Idle.step # "insert"
      BY DEF Idle
    <3>2. QED
      BY <2>1, <3>1
  <2>2. ASSUME NEW h \in Recommended, run' = [run EXCEPT ![r] = [step |-> "insert", homework |-> h]]
        PROVE  \E task : /\ run' = [run EXCEPT ![r] = task]
                         /\ task.step = "insert" => task.homework \in Recommended
    <3>1. PICK task : task = [step |-> "insert", homework |-> h]
      OBVIOUS
    <3>2. task.homework = h
      BY <3>1
    <3>3. QED
      BY <2>2, <3>1, <3>2
  <2>3. QED
    BY <2>1, <2>2 DEF ScheduleHomeworkForUser
<1>2. \A h \in Recommended : h \notin QueuedHomeworks /\ reviews[h] # <<>>
  BY DEF Recommended
<1>3. run[r] # Idle
  BY DEF ScheduleHomeworkForUser, Idle
<1>4. UNCHANGED <<queue, reviews, made, row, req>>
  BY DEF ScheduleHomeworkForUser, homework, progress
<1>5. QED
  BY <1>1, <1>2, <1>3, <1>4, QueueRunReads

LEMMA QueueInsert ==
  ASSUME ~Overlap, QueueInv, OrderInv', StillWatched, NEW r \in Runner, Insert(r)
  PROVE  QueueInv'
<1>1. /\ run[r].step = "insert" /\ run' = [run EXCEPT ![r] = Idle]
      /\ UNCHANGED <<reviews, made, row, req>>
  BY DEF Insert, progress
<1>2. PICK h \in Lesson : h = run[r].homework
  BY <1>1, AtRun DEF QueueInv, OrderInv
<1>3. h \notin QueuedHomeworks /\ reviews[h] # <<>>
  BY <1>1, <1>2 DEF QueueInv, Inserts
<1>4. Watched(h) /\ AddToQueue(h, "later")
  BY <1>2, <1>3 DEF QueueInv, HomeworkOnlyOfWatched, Insert
<1>5. /\ HomeworkOnlyOfWatched' /\ OneItemPerHomework'
      /\ QueuedHomeworks' = QueuedHomeworks \cup {h}
  BY <1>1, <1>3, <1>4, QueueAdds
<1>6. AloneRun' /\ \A t \in Runner : Inserts(t)'
  <2>1. run[r] # Idle
    BY <1>1 DEF Idle
  <2>2. AloneRun' /\ run'[r] = Idle /\ \A t \in Runner \ {r} : run'[t].step = "idle"
    BY <1>1, <2>1, QueueRuns
  <2>3. \A t \in Runner : run'[t].step = "idle"
    BY <2>2 DEF Idle
  <2>4. QED
    BY <2>2, <2>3 DEF Inserts
<1>7. \A w \in Worker : Asks(w)'
  BY <1>1, <1>3, <1>5 DEF QueueInv, Asks, Unasked, Watched, RowsOfLesson
<1>8. QED
  BY <1>5, <1>6, <1>7 DEF QueueInv

\* What leaves the homework, and the rows and the tasks, alone.
LEMMA QueueElsewhere ==
  ASSUME QueueInv, OrderInv', StillWatched, Queued' = Queued, UNCHANGED <<reviews, made, row>>,
         \A w \in Worker : req'[w] = req[w] \/ req'[w].step = "warn",
         \A r \in Runner : run'[r] = run[r] \/ (run[r].step = "expire" /\ run'[r].step = "expire")
  PROVE  QueueInv'
<1>1. QueuedHomeworks' = QueuedHomeworks
  BY DEF QueuedHomeworks
<1>2. HomeworkOnlyOfWatched'
  BY <1>1, StillOfWatched DEF QueueInv
<1>3. OneItemPerHomework'
  BY DEF QueueInv, OneItemPerHomework
<1>4. AloneRun'
  <2>1. \A r \in Runner : run'[r].step = run[r].step
    OBVIOUS
  <2>2. QED
    BY <2>1 DEF QueueInv, AloneRun
<1>5. \A w \in Worker : Asks(w)'
  BY <1>1 DEF QueueInv, Asks, Unasked, Watched, RowsOfLesson
<1>6. \A r \in Runner : Inserts(r)'
  BY <1>1 DEF QueueInv, Inserts
<1>7. QED
  BY <1>2, <1>3, <1>4, <1>5, <1>6 DEF QueueInv

LEMMA QueueNext == ASSUME ~Overlap PROVE QueueInv /\ [Next]_vars => QueueInv'
<1> SUFFICES ASSUME QueueInv, [Next]_vars PROVE QueueInv'
  OBVIOUS
<1>1. OrderInv /\ OrderInv' /\ StillWatched /\ TypeInv
  BY OrderNext, WatchedKept DEF QueueInv, OrderInv
<1>2. ASSUME NEW w \in Worker, Handle(w) PROVE QueueInv'
  <2>1. CASE SaveWatched(w) \/ ScheduleHomeworkForLesson(w) \/ Enqueue(w)
    BY <1>1, <2>1, QueueSaveWatched, QueueSchedule, QueueEnqueue
  <2>2. CASE SaveReview(w) \/ RemoveFromQueue(w)
    BY <1>1, <2>2, QueueSaveReview, QueueRemove
  <2>3. CASE \/ FindNextLesson(w) \/ SaveUnlocked(w) \/ SaveWarning(w) \/ CheckBlock(w)
             \/ GenerateLessonProgress(w) \/ CreateProgress(w)
    BY <1>1, <2>3, QueueIgnores
  <2>4. QED
    BY <1>2, <2>1, <2>2, <2>3 DEF Handle
<1>3. ASSUME NEW w \in Worker, \/ AbortRequest(w)
                               \/ \E i \in Id : LessonProgressUpdate(w, i)
                               \/ \E b \in Block : GetVideos(w, b)
      PROVE  QueueInv'
  BY <1>1, <1>3, QueueIgnores
<1>4. ASSUME NEW w \in Worker, NEW x \in Id, HomeworkProgressUpdate(w, x) PROVE QueueInv'
  BY <1>1, <1>4, QueueReview
<1>5. ASSUME NEW r \in Runner, ProcessHomeworkQueue(r) \/ RunOn(r) \/ AbortRun(r)
      PROVE  QueueInv'
  BY <1>1, <1>5, QueueProcess, QueuePlan, QueueInsert DEF RunOn
<1>6. CASE EndSubscription \/ Pay \/ (\E b \in Block : Publish(b)) \/ UNCHANGED vars
  <2>1. UNCHANGED <<queue, reviews, made, row, req, run>>
    BY <1>6 DEF EndSubscription, Pay, Publish, vars, progress, homework
  <2>2. QED
    BY <1>1, <2>1, QueuedSame, QueueElsewhere
<1>7. ASSUME NEW x \in Id, Ripen(x) PROVE QueueInv'
  <2>1. /\ UNCHANGED <<reviews, made, row, req, run>>
        /\ queue[x] = "later" /\ queue' = [queue EXCEPT ![x] = "ready"]
    BY <1>7 DEF Ripen, progress
  <2>2. Queued' = Queued
    BY <1>1, <2>1 DEF Queued, TypeInv, HomeworkOK
  <2>3. QED
    BY <1>1, <2>1, <2>2, QueueElsewhere
<1>8. CASE Midnight
  <2>1. UNCHANGED <<queue, reviews, made, row>>
    BY <1>8 DEF Midnight, homework
  <2>2. \A w \in Worker : req'[w] = req[w] \/ req'[w].step = "warn"
    BY <1>1, <1>8, MidnightReads
  <2>3. ASSUME NEW r \in Runner
        PROVE  run'[r] = run[r] \/ (run[r].step = "expire" /\ run'[r].step = "expire")
    <3>1. run'[r] = Aged(run[r])
      BY <1>8 DEF Midnight
    <3>2. QED
      BY <1>1, <3>1, AtRun, AgedRun
  <2>4. QED
    BY <1>1, <2>1, <2>2, <2>3, QueuedSame, QueueElsewhere
<1>9. QED
  BY <1>2, <1>3, <1>4, <1>5, <1>6, <1>7, <1>8 DEF Next, Watch, Open, Review, Time, Schedule

\* When requests and scheduler runs come one at a time, no homework has two items on the
\* queue, whoever queued it.  (homework-progress.service.ts:413, getHomeworkRecommendations.)
THEOREM OneItemPerHomeworkCorrect == ASSUME ~Overlap PROVE Spec => []OneItemPerHomework
<1>1. QueueInv => OneItemPerHomework
  BY DEF QueueInv
<1>2. QueueInv /\ [Next]_vars => QueueInv'
  BY QueueNext
<1>3. QED
  BY <1>1, <1>2, QueueInit, PTL DEF Spec

\* ... and no homework is on the queue, or was reviewed, whose lesson was not watched.
\* (homework-progress.service.ts:227, scheduleHomeworkForLesson.)
THEOREM HomeworkOnlyOfWatchedCorrect == ASSUME ~Overlap PROVE Spec => []HomeworkOnlyOfWatched
<1>1. QueueInv => HomeworkOnlyOfWatched
  BY DEF QueueInv
<1>2. QueueInv /\ [Next]_vars => QueueInv'
  BY QueueNext
<1>3. QED
  BY <1>1, <1>2, QueueInit, PTL DEF Spec
=============================================================================
