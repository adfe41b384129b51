---------------------------- MODULE ContentProofs ----------------------------
(* Content: its types, and three facts about administrators who do not work on the same      *)
(* blocks and videos at once. Every video is the one that was given, no lesson is left       *)
(* without a block, and the statistics of a block that nobody works on are right.            *)
(*                                                                                           *)
(* Inv says what an operation knows of the calls that it still has to make: the block that a *)
(* save writes back is the block as it is, an item that is saved or removed is where it was  *)
(* read. Accounted says that the row of a block is off by what the calls still to come make  *)
(* up for. Length is a sum over a set, defined by recursion: it is the number of bricks of   *)
(* the items, one for every second of a video, and of sets of bricks the cardinality is      *)
(* known.                                                                                    *)
EXTENDS Content, FiniteSetTheorems, WellFoundedInduction, TLAPS

-----------------------------------------------------------------------------
(***************************************************************************)
(* Sums of lengths.  A sum is the number of bricks that its numbers stand  *)
(* for, whatever order they are added in.                                  *)
(***************************************************************************)

\* One brick for every unit of the numbers it[i].duration, i in S.
Bricks(S, it) == UNION {{i} \X (1..it[i].duration) : i \in S}
Weight(S, it) == Cardinality(Bricks(S, it))

LEMMA BricksFinite ==
  ASSUME NEW S, IsFiniteSet(S), NEW it, \A i \in S : it[i].duration \in Nat
  PROVE  IsFiniteSet(Bricks(S, it))
<1> DEFINE T == {{i} \X (1..it[i].duration) : i \in S}
           f == [i \in S |-> {i} \X (1..it[i].duration)]
<1>1. f \in Surjection(S, T)
  BY DEF Surjection
<1>2. IsFiniteSet(T)
  <2> HIDE DEF f, T
  <2> QED BY <1>1, FS_Surjection
<1>3. \A i \in S : IsFiniteSet({i} \X (1..it[i].duration))
  <2> SUFFICES ASSUME NEW i \in S PROVE IsFiniteSet({i} \X (1..it[i].duration))
    OBVIOUS
  <2>1. IsFiniteSet({i})
    BY FS_Singleton
  <2>2. IsFiniteSet(1..it[i].duration)
    BY FS_Interval
  <2> QED BY <2>1, <2>2, FS_Product
<1>4. \A B \in T : IsFiniteSet(B)
  BY <1>3
<1>5. IsFiniteSet(UNION T)
  <2> HIDE DEF T
  <2> QED BY <1>2, <1>4, FS_UNION
<1>6. QED
  BY <1>5 DEF Bricks

LEMMA WeightEmpty == ASSUME NEW it PROVE Weight({}, it) = 0
<1>1. Bricks({}, it) = {}
  BY DEF Bricks
<1>2. QED
  BY <1>1, FS_EmptySet DEF Weight

LEMMA WeightRemove ==
  ASSUME NEW S, IsFiniteSet(S), NEW it, \A i \in S : it[i].duration \in Nat, NEW x \in S
  PROVE  /\ Weight(S, it) \in Nat
         /\ Weight(S, it) = it[x].duration + Weight(S \ {x}, it)
<1> DEFINE R == S \ {x}
           B == {x} \X (1..it[x].duration)
<1>1. IsFiniteSet(R) /\ \A i \in R : it[i].duration \in Nat
  BY FS_RemoveElement
<1>2. IsFiniteSet(Bricks(S, it)) /\ IsFiniteSet(Bricks(R, it))
  <2> HIDE DEF R
  <2> QED BY <1>1, BricksFinite
<1>3. IsFiniteSet(B) /\ Cardinality(B) = it[x].duration
  <2>1. IsFiniteSet({x}) /\ Cardinality({x}) = 1
    BY FS_Singleton
  <2>2. PICK n \in Nat : n = it[x].duration
    OBVIOUS
  <2>3. IsFiniteSet(1..n) /\ Cardinality(1..n) = n
    BY FS_Interval
  <2>4. IsFiniteSet(B) /\ Cardinality(B) = Cardinality({x}) * Cardinality(1..it[x].duration)
    BY <2>1, <2>2, <2>3, FS_Product
  <2>5. QED
    BY <2>1, <2>2, <2>3, <2>4
<1>4. Bricks(S, it) = Bricks(R, it) \cup B /\ Bricks(R, it) \cap B = {}
  BY DEF Bricks
<1>5. /\ Cardinality(Bricks(S, it)) =
          Cardinality(Bricks(R, it)) + Cardinality(B) - Cardinality(Bricks(R, it) \cap B)
  <2> HIDE DEF R, B
  <2> QED BY <1>2, <1>3, <1>4, FS_Union
<1>6. Cardinality(Bricks(R, it)) \in Nat /\ Cardinality(Bricks(S, it)) \in Nat
  BY <1>2, FS_CardinalityType
<1>7. Cardinality(Bricks(R, it) \cap B) = 0
  BY <1>4, FS_EmptySet
<1>8. QED
  BY <1>3, <1>5, <1>6, <1>7 DEF Weight

LEMMA SameFold ==
  ASSUME NEW S, IsFiniteSet(S), NEW it, \A i \in S : it[i].duration \in Nat,
         NEW F, F = [s \in SUBSET S |-> IF s = {} THEN 0 ELSE
                        it[CHOOSE y \in s : TRUE].duration + F[s \ {CHOOSE y \in s : TRUE}]]
  PROVE  F[S] = Weight(S, it)
<1> DEFINE T == {s \in SUBSET S : F[s] # Weight(s, it)}
<1>1. SUFFICES ASSUME T # {} PROVE FALSE
  OBVIOUS
<1>2. \A s \in SUBSET S : IsFiniteSet(s)
  BY FS_Subset
<1>3. PICK s \in T : \A r \in T : <<r, s>> \notin StrictSubsetOrdering(S)
  <2>1. T \subseteq FiniteSubsetsOf(S)
    BY <1>2 DEF FiniteSubsetsOf
  <2> HIDE DEF T
  <2> QED BY <1>1, <2>1, FS_StrictSubsetOrderingWellFounded, WFMin, Zenon
<1>4. s # {}
  BY WeightEmpty
<1>5. PICK x : x \in s /\ x = CHOOSE y \in s : TRUE
  BY <1>4
<1>6. F[s] = it[x].duration + F[s \ {x}]
  BY <1>4, <1>5
<1>7. s \ {x} \notin T
  <2>1. <<s \ {x}, s>> \in StrictSubsetOrdering(S)
    BY <1>5 DEF StrictSubsetOrdering
  <2> HIDE DEF T
  <2> QED BY <1>3, <2>1
<1>8. F[s \ {x}] = Weight(s \ {x}, it)
  BY <1>7
<1>9. Weight(s, it) = it[x].duration + Weight(s \ {x}, it)
  <2>1. IsFiniteSet(s) /\ \A i \in s : it[i].duration \in Nat
    BY <1>2
  <2>2. x \in s
    BY <1>5
  <2> HIDE DEF T
  <2> QED BY <2>1, <2>2, WeightRemove
<1>10. QED
  BY <1>6, <1>8, <1>9

LEMMA SumIsWeight ==
  ASSUME NEW S, IsFiniteSet(S), NEW it, \A i \in S : it[i].duration \in Nat
  PROVE  MapThenSumSet(LAMBDA i : it[i].duration, S) = Weight(S, it)
<1> DEFINE G == [s \in SUBSET S |-> Weight(s, it)]
           Rec(F) == F = [s \in SUBSET S |-> IF s = {} THEN 0 ELSE
                        it[CHOOSE y \in s : TRUE].duration + F[s \ {CHOOSE y \in s : TRUE}]]
<1>1. \A s \in SUBSET S : IsFiniteSet(s)
  BY FS_Subset
<1>2. Rec(G)
  <2>1. ASSUME NEW s \in SUBSET S, s # {}
        PROVE  Weight(s, it) = it[CHOOSE y \in s : TRUE].duration + G[s \ {CHOOSE y \in s : TRUE}]
    <3>1. PICK x : x \in s /\ x = CHOOSE y \in s : TRUE
      BY <2>1
    <3>2. Weight(s, it) = it[x].duration + Weight(s \ {x}, it)
      <4>1. IsFiniteSet(s) /\ \A i \in s : it[i].duration \in Nat
        BY <1>1
      <4> QED BY <3>1, <4>1, WeightRemove
    <3>3. QED
      BY <3>1, <3>2
  <2>2. QED
    BY <2>1, WeightEmpty
<1>3. Rec(CHOOSE F : Rec(F))
  <2> HIDE DEF Rec
  <2> QED BY <1>2
<1>4. MapThenSumSet(LAMBDA i : it[i].duration, S) = (CHOOSE F : Rec(F))[S]
  BY DEF MapThenSumSet, MapThenFoldSet
<1>5. QED
  BY <1>3, <1>4, SameFold

\* Items of the same lengths have the same sum.
LEMMA WeightSame ==
  ASSUME NEW S, NEW it, NEW jt, \A i \in S : it[i].duration = jt[i].duration
  PROVE  Weight(S, it) = Weight(S, jt)
<1>1. \A i \in S : {i} \X (1..it[i].duration) = {i} \X (1..jt[i].duration)
  OBVIOUS
<1>2. Bricks(S, it) = Bricks(S, jt)
  BY <1>1 DEF Bricks
<1>3. QED
  BY <1>2 DEF Weight

-----------------------------------------------------------------------------
(***************************************************************************)
(* The statistics that a block should have.                                *)
(***************************************************************************)
Weighed ==
  \A b \in Block : /\ IsFiniteSet(ItemsOf(b)) /\ Counted(b) \in Nat
                   /\ Length(b) = Weight(ItemsOf(b), item) /\ Length(b) \in Nat

RowsTyped == item \in [Item -> ItemRow \cup {NoRow}]

LEMMA RowTypes ==
  ASSUME RowsTyped, NEW i \in Item, item[i] # NoRow
  PROVE  /\ item[i] \in ItemRow
         /\ item[i].duration \in Nat /\ item[i].order \in Orders
  BY ContentAssumption DEF RowsTyped, ItemRow

LEMMA RowsWeighed == RowsTyped => Weighed
<1> SUFFICES ASSUME RowsTyped, NEW b \in Block
             PROVE  /\ IsFiniteSet(ItemsOf(b)) /\ Counted(b) \in Nat
                    /\ Length(b) = Weight(ItemsOf(b), item) /\ Length(b) \in Nat
  BY DEF Weighed
<1>1. IsFiniteSet(ItemsOf(b))
  <2>1. IsFiniteSet(Item) /\ ItemsOf(b) \in SUBSET Item
    BY ContentAssumption, Zenon DEF Item, Page, ItemsOf
  <2>2. QED
    BY <2>1, FS_Subset
<1>2. Counted(b) \in Nat
  <2>1. IsFiniteSet(ItemsOf(b) \cap Lesson)
    BY <1>1, FS_Intersection
  <2>2. QED
    BY <2>1, FS_CardinalityType DEF Counted
<1>3. \A i \in ItemsOf(b) : item[i].duration \in Nat
  BY RowTypes DEF ItemsOf
<1>4. MapThenSumSet(LAMBDA i : item[i].duration, ItemsOf(b)) = Weight(ItemsOf(b), item)
  BY <1>1, <1>3, SumIsWeight
<1>5. Length(b) = Weight(ItemsOf(b), item)
  BY <1>4 DEF Length
<1>6. Weight(ItemsOf(b), item) \in Nat
  <2>1. CASE ItemsOf(b) = {}
    BY <2>1, WeightEmpty
  <2>2. CASE ItemsOf(b) # {}
    BY <1>1, <1>3, <2>2, WeightRemove
  <2>3. QED
    BY <2>1, <2>2
<1>7. QED
  BY <1>1, <1>2, <1>5, <1>6

LEMMA StatsWeighed == TypeOK => Weighed
  BY RowsWeighed DEF TypeOK, RowsTyped

LEMMA StatsWeighedNext == TypeOK' => Weighed'
  BY StatsWeighed, PTL

-----------------------------------------------------------------------------
(***************************************************************************)
(* Type correctness.  An operation is idle, or has a form to upload, or a  *)
(* plan of calls.                                                          *)
(***************************************************************************)
Place == [block : Block \cup {NoBlock}, order : Orders]
Placed == [block : Block, order : Orders, duration : Durations, own : BOOLEAN]
Copy == [id : Block, row : BlockRow, items : SUBSET Item]

Call ==
    [call : {"saveBlock"}, copy : Copy, recount : BOOLEAN]
    \cup [call : {"findBlock"}, block : Block, count : Int, duration : Int]
    \cup [call : {"saveItem"}, id : Item, row : ItemRow]
    \cup [call : {"insert"}, kind : {Lesson, Homework, Grammar, Alphabet}, row : ItemRow]
    \cup [call : {"remove"}, id : Item]
    \cup [call : {"insertBlock"}, order : Orders]
    \cup [call : {"removeBlock"}, block : Block]

Form ==
    [do : {"create"}, kind : {Lesson, Homework}, copy : Copy, new : Place]
    \cup [do : {"lesson"}, id : Lesson, old : Placed, new : Placed]
    \cup [do : {"homework"}, id : Homework, old : ItemRow, new : ItemRow, copy : Copy]
    \cup [do : {"newPage"}, kind : {Grammar, Alphabet}, new : Place]
    \cup [do : {"page"}, id : Page, new : ItemRow]

IsRequest(r) ==
    \/ r = Idle
    \/ /\ r.step = "run" /\ r = [step |-> "run", on |-> r.on, plan |-> r.plan]
       /\ r.plan \in Seq(Call) \ {<<>>}
    \/ /\ r.step \in {"write", "send"} /\ r = [step |-> r.step, on |-> r.on, form |-> r.form]
       /\ r.form \in Form

Typed ==
    /\ TypeOK
    /\ req = [w \in Worker |-> req[w]]
    /\ \A w \in Worker : IsRequest(req[w])

\* The fields of a call.
LEMMA CallFields ==
  ASSUME NEW c \in Call
  PROVE  /\ c.call \in {"saveBlock", "findBlock", "saveItem", "insert", "remove", "insertBlock",
                        "removeBlock"}
         /\ c.call = "saveBlock" => c.copy \in Copy /\ c.recount \in BOOLEAN
         /\ c.call = "findBlock" => c.block \in Block /\ c.count \in Int /\ c.duration \in Int
         /\ c.call = "saveItem" => c.id \in Item /\ c.row \in ItemRow
         /\ c.call = "insert" =>
              c.kind \in {Lesson, Homework, Grammar, Alphabet} /\ c.row \in ItemRow
         /\ c.call = "remove" => c.id \in Item
         /\ c.call = "insertBlock" => c.order \in Orders
         /\ c.call = "removeBlock" => c.block \in Block
  BY DEF Call

LEMMA CallTypes ==
  /\ \A copy \in Copy : SaveBlockOf(copy) \in Call
                        /\ [SaveBlockOf(copy) EXCEPT !.recount = TRUE] \in Call
  /\ \A b \in Block : \A n, m \in Int : Adjust(b, n, m) \in Call
  /\ \A i \in Item : \A row \in ItemRow : SaveItemOf(i, row) \in Call
  /\ \A kind \in {Lesson, Homework, Grammar, Alphabet} : \A row \in ItemRow :
       InsertOf(kind, row) \in Call
  /\ \A i \in Item : RemoveOf(i) \in Call
  /\ \A order \in Orders : [call |-> "insertBlock", order |-> order] \in Call
  /\ \A b \in Block : [call |-> "removeBlock", block |-> b] \in Call
<1>1. \A copy \in Copy : SaveBlockOf(copy) \in Call
                         /\ [SaveBlockOf(copy) EXCEPT !.recount = TRUE] \in Call
  BY DEF Call, SaveBlockOf
<1>2. \A b \in Block : \A n, m \in Int : Adjust(b, n, m) \in Call
  BY DEF Call, Adjust
<1>3. \A i \in Item : \A row \in ItemRow : SaveItemOf(i, row) \in Call
  BY DEF Call, SaveItemOf
<1>4. \A kind \in {Lesson, Homework, Grammar, Alphabet} : \A row \in ItemRow :
        InsertOf(kind, row) \in Call
  BY DEF Call, InsertOf
<1>5. \A i \in Item : RemoveOf(i) \in Call
  BY DEF Call, RemoveOf
<1>6. \A order \in Orders : [call |-> "insertBlock", order |-> order] \in Call
  BY DEF Call
<1>7. \A b \in Block : [call |-> "removeBlock", block |-> b] \in Call
  BY DEF Call
<1>8. QED
  BY <1>1, <1>2, <1>3, <1>4, <1>5, <1>6, <1>7, Zenon

\* A copy of a block with changed statistics is a copy.
LEMMA CopyTypes ==
  ASSUME TypeOK
  PROVE  /\ \A b \in There : Loaded(b) \in Copy /\ Loaded(b).id = b
         /\ \A copy \in Copy : \A n, m \in Int :
              /\ Changed(copy, n, m) \in Copy
              /\ Changed(copy, n, m).id = copy.id /\ Changed(copy, n, m).items = copy.items
              /\ Changed(copy, n, m).row.order = copy.row.order
              /\ Changed(copy, n, m).row.count = copy.row.count + n
              /\ Changed(copy, n, m).row.duration = copy.row.duration + m
<1>1. \A b \in There : Loaded(b) \in Copy /\ Loaded(b).id = b
  BY DEF TypeOK, There, Loaded, Copy, ItemsOf
<1>2. ASSUME NEW copy \in Copy, NEW n \in Int, NEW m \in Int
      PROVE  /\ Changed(copy, n, m) \in Copy
             /\ Changed(copy, n, m).id = copy.id /\ Changed(copy, n, m).items = copy.items
             /\ Changed(copy, n, m).row.order = copy.row.order
             /\ Changed(copy, n, m).row.count = copy.row.count + n
             /\ Changed(copy, n, m).row.duration = copy.row.duration + m
  <2>1. PICK c, d : c = copy.row.count + n /\ d = copy.row.duration + m
    OBVIOUS
  <2>2. copy.row \in BlockRow /\ c \in Int /\ d \in Int
    BY <2>1 DEF Copy, BlockRow
  <2>3. PICK row : row = [copy.row EXCEPT !.count = c, !.duration = d]
    OBVIOUS
  <2>4. row \in BlockRow /\ row.order = copy.row.order /\ row.count = c /\ row.duration = d
    BY <2>2, <2>3 DEF BlockRow
  <2>5. Changed(copy, n, m) = [copy EXCEPT !.row = row]
    BY <2>1, <2>3 DEF Copy, BlockRow, Changed
  <2>6. QED
    BY <2>1, <2>4, <2>5 DEF Copy
<1>3. QED
  BY <1>1, <1>2

\* Sequences of calls.
LEMMA Rest ==
  ASSUME NEW p \in Seq(Call), p # <<>>
  PROVE  /\ Len(p) \in Nat \ {0} /\ Head(p) = p[1] /\ p[1] \in Call
         /\ Tail(p) \in Seq(Call) /\ Len(Tail(p)) = Len(p) - 1
         /\ \A k \in 1..Len(p) - 1 : Tail(p)[k] = p[k + 1]
  OBVIOUS

LEMMA Before ==
  ASSUME NEW p \in Seq(Call), NEW c \in Call
  PROVE  /\ <<c>> \o p \in Seq(Call) /\ <<c>> \o p # <<>> /\ Len(<<c>> \o p) = Len(p) + 1
         /\ (<<c>> \o p)[1] = c
         /\ \A k \in 1..Len(p) : (<<c>> \o p)[k + 1] = p[k]
  OBVIOUS

LEMMA Short ==
  ASSUME NEW c \in Call, NEW d \in Call
  PROVE  /\ <<>> \in Seq(Call)
         /\ <<c>> \in Seq(Call) /\ <<c>> # <<>>
         /\ <<c, d>> \in Seq(Call) /\ <<c, d>> # <<>>
  OBVIOUS

LEMMA IdleRequest == IsRequest(Idle) /\ Idle.step = "idle" /\ Idle.on = {}
  BY DEF IsRequest, Idle

LEMMA RunRequest ==
  ASSUME NEW r, IsRequest(r), r.step = "run"
  PROVE  /\ r = [step |-> "run", on |-> r.on, plan |-> r.plan]
         /\ r.plan \in Seq(Call) /\ r.plan # <<>>
  BY DEF IsRequest, Idle

LEMMA UploadRequest ==
  ASSUME NEW r, IsRequest(r), r.step \in {"write", "send"}
  PROVE  /\ r = [step |-> r.step, on |-> r.on, form |-> r.form]
         /\ r.form \in Form
  BY DEF IsRequest, Idle

\* What an operation that begins puts into req, and Proceed.
LEMMA Replaced ==
  ASSUME Typed, NEW w \in Worker, NEW r, IsRequest(r), req' = [req EXCEPT ![w] = r]
  PROVE  /\ req'[w] = r /\ \A v \in Worker : v # w => req'[v] = req[v]
         /\ req' = [v \in Worker |-> req'[v]] /\ \A v \in Worker : IsRequest(req'[v])
<1>1. req' = [v \in Worker |-> IF v = w THEN r ELSE req[v]]
  BY DEF Typed
<1>2. QED
  BY <1>1 DEF Typed

LEMMA RunTyped ==
  ASSUME Typed, NEW w \in Worker, NEW on, NEW p \in Seq(Call), p # <<>>, Run(w, on, p)
  PROVE  /\ req'[w] = [step |-> "run", on |-> on, plan |-> p]
         /\ \A v \in Worker : v # w => req'[v] = req[v]
         /\ req' = [v \in Worker |-> req'[v]] /\ \A v \in Worker : IsRequest(req'[v])
<1>1. IsRequest([step |-> "run", on |-> on, plan |-> p])
  BY DEF IsRequest
<1>2. QED
  BY <1>1, Replaced DEF Run

LEMMA UploadTyped ==
  ASSUME Typed, NEW w \in Worker, NEW on, NEW f \in Form, Upload(w, on, f)
  PROVE  /\ req'[w] = [step |-> "write", on |-> on, form |-> f]
         /\ \A v \in Worker : v # w => req'[v] = req[v]
         /\ req' = [v \in Worker |-> req'[v]] /\ \A v \in Worker : IsRequest(req'[v])
<1>1. IsRequest([step |-> "write", on |-> on, form |-> f])
  BY DEF IsRequest
<1>2. QED
  BY <1>1, Replaced DEF Upload

\* What is left of a plan.
LEMMA ProceedTyped ==
  ASSUME Typed, NEW w \in Worker, req[w].step = "run", NEW p \in Seq(Call), Proceed(w, p)
  PROVE  /\ req'[w] = IF p = <<>> THEN Idle
                      ELSE [step |-> "run", on |-> req[w].on, plan |-> p]
         /\ \A v \in Worker : v # w => req'[v] = req[v]
         /\ req' = [v \in Worker |-> req'[v]] /\ \A v \in Worker : IsRequest(req'[v])
<1>1. req[w] = [step |-> "run", on |-> req[w].on, plan |-> req[w].plan]
  BY RunRequest DEF Typed
<1>2. PICK r : r = IF p = <<>> THEN Idle ELSE [req[w] EXCEPT !.plan = p]
  OBVIOUS
<1>3. r = IF p = <<>> THEN Idle ELSE [step |-> "run", on |-> req[w].on, plan |-> p]
  <2>1. CASE p = <<>>
    BY <1>2, <2>1
  <2>2. CASE p # <<>>
    <3>1. r = [req[w] EXCEPT !.plan = p]
      BY <1>2, <2>2
    <3>2. r = [step |-> "run", on |-> req[w].on, plan |-> p]
      BY <1>1, <3>1
    <3>3. QED
      BY <2>2, <3>2
  <2>3. QED
    BY <2>1, <2>2
<1>4. IsRequest(r)
  BY <1>3, IdleRequest DEF IsRequest
<1>5. req' = [req EXCEPT ![w] = r]
  BY <1>2 DEF Proceed, Typed
<1>6. QED
  BY <1>3, <1>4, <1>5, Replaced

\* The first call of a plan, and the others.
LEMMA FirstCall ==
  ASSUME Typed, NEW w \in Worker, req[w].step = "run"
  PROVE  /\ Now(w) \in Call /\ Now(w) = req[w].plan[1]
         /\ Tail(req[w].plan) \in Seq(Call)
         /\ req[w].plan \in Seq(Call) /\ req[w].plan # <<>>
<1>1. req[w].plan \in Seq(Call) /\ req[w].plan # <<>>
  BY RunRequest DEF Typed
<1>2. QED
  BY <1>1, Rest DEF Now

LEMMA DoneTyped ==
  ASSUME Typed, NEW w \in Worker, req[w].step = "run", Done(w)
  PROVE  /\ req'[w] = IF Tail(req[w].plan) = <<>> THEN Idle
                      ELSE [step |-> "run", on |-> req[w].on, plan |-> Tail(req[w].plan)]
         /\ \A v \in Worker : v # w => req'[v] = req[v]
         /\ req' = [v \in Worker |-> req'[v]] /\ \A v \in Worker : IsRequest(req'[v])
  BY FirstCall, ProceedTyped DEF Done

LEMMA TypedInit == Init => Typed
<1> SUFFICES ASSUME Init PROVE Typed
  OBVIOUS
<1>1. PICK order \in [Block -> Orders \cup {0}] :
        /\ \E row \in [Lesson \cup Homework ->
                         [block : {b \in Block : order[b] # 0}, order : Orders,
                          duration : FirstDurations, own : {TRUE}] \cup {NoRow}] :
             item = [i \in Item |-> IF i \in Page THEN NoRow ELSE row[i]]
        /\ block = [b \in Block |->
             IF order[b] = 0 THEN NoRow
             ELSE [order |-> order[b], count |-> Counted(b), duration |-> Length(b)]]
  BY DEF Init
<1>2. PICK row \in [Lesson \cup Homework ->
                      [block : {b \in Block : order[b] # 0}, order : Orders,
                       duration : FirstDurations, own : {TRUE}] \cup {NoRow}] :
        item = [i \in Item |-> IF i \in Page THEN NoRow ELSE row[i]]
  BY <1>1
<1>3. item \in [Item -> ItemRow \cup {NoRow}]
  <2>1. \A i \in Lesson \cup Homework : row[i] \in ItemRow \cup {NoRow}
    BY ContentAssumption DEF ItemRow
  <2>2. QED
    BY <1>2, <2>1 DEF Item
<1>4. Weighed
  BY <1>3, RowsWeighed DEF RowsTyped
<1>5. block \in [Block -> BlockRow \cup {NoRow}]
  BY <1>1, <1>4 DEF Weighed, BlockRow
<1>6. used \subseteq Block \cup Item /\ temp \in Worker \cup {NoFile} /\ drifted \subseteq Block
      /\ requests \in 0..MaxRequests /\ aborts \in 0..MaxAborts
  BY ContentAssumption DEF Init, There
<1>7. req = [w \in Worker |-> Idle]
  BY DEF Init
<1>8. QED
  BY <1>3, <1>5, <1>6, <1>7, IdleRequest DEF Typed, TypeOK

Uploading(w) == req[w].step \in {"write", "send"}
Todo(w) == IF req[w].step = "run" THEN req[w].plan ELSE <<>>

\* One operation on a block or item at a time, one upload at a time.
Apart ==
    /\ \A v, w \in Worker : v # w => req[v].on \cap req[w].on = {}
    /\ \A v, w \in Worker : Uploading(v) /\ Uploading(w) => v = w
    /\ \A w \in Worker : req[w].step = "send" => temp = w

\* An item of its own blocks that the operation `on' holds
Held(i, on) == item[i] # NoRow /\ i \in on /\ item[i].block \in on

FormGood(form, on) ==
    /\ form.do = "create" =>
         /\ form.copy.id \in There \cap on
         /\ form.copy = Loaded(form.copy.id)
         /\ form.new.block = form.copy.id
    /\ form.do \in {"lesson", "homework"} =>
         /\ Held(form.id, on) /\ form.old = item[form.id]
         /\ form.new.block \in There \cap on
    /\ form.do = "lesson" => form.old.block \in Block
    /\ form.do = "homework" => form.copy = Loaded(form.new.block)
    /\ form.do \in {"newPage", "page"} => form.new.block = NoBlock

\* What an operation on `on' knows of a call that is still to come.
CallGood(c, on) ==
    /\ c.call = "saveBlock" =>
         /\ c.copy.id \in There \cap on
         /\ c.copy.items = ItemsOf(c.copy.id)
         /\ c.recount => /\ c.copy.row.count = Counted(c.copy.id)
                         /\ c.copy.row.duration = Length(c.copy.id)
    /\ c.call = "findBlock" => c.block \in on
    /\ c.call \in {"insert", "saveItem"} =>
         /\ c.row.own
         /\ c.row.block = NoBlock \/ c.row.block \in on
    /\ c.call = "insert" => \A i \in c.kind : i \in Page <=> c.row.block = NoBlock
    /\ c.call = "saveItem" => c.id \in Page <=> c.row.block = NoBlock
    /\ c.call \in {"remove", "saveItem"} => c.id \in Page \/ Held(c.id, on)
    /\ c.call = "insertBlock" => Block \subseteq on
    /\ c.call = "removeBlock" => c.block \in on

Harmless(c) == c.call = "removeBlock" \/ (c.call = "remove" /\ c.id \in Lesson)
OnItem(c) == c.call \in {"insert", "saveItem", "remove"}

PlanGood(p, on) ==
    /\ Len(p) <= 3
    /\ \A k \in 1..Len(p) :
         /\ CallGood(p[k], on)
         /\ p[k].call = "saveBlock" => k = 1 /\ (p[k].recount => Len(p) = 1)
         /\ p[k].call \in {"insertBlock", "removeBlock"} => Len(p) = 1
         /\ \A j \in 1..Len(p) : OnItem(p[j]) /\ OnItem(p[k]) => j = k
         /\ Harmless(p[k]) => k = 1

Prepared ==
    \A w \in Worker :
        /\ Uploading(w) => FormGood(req[w].form, req[w].on)
        /\ PlanGood(Todo(w), req[w].on)

Shelved ==
    /\ There \subseteq used /\ \A i \in Item \ Page : item[i] # NoRow => i \in used
    /\ \A i \in Item : item[i] # NoRow =>
         /\ item[i].own
         /\ item[i].block \in There \cup {NoBlock}
         /\ i \in Lesson => item[i].block \in There
         /\ i \in Page => item[i].block = NoBlock

Share(i, b) == IF item[i] # NoRow /\ item[i].block = b THEN item[i].duration ELSE 0
One(i, b) == IF item[i] # NoRow /\ item[i].block = b /\ i \in Lesson THEN 1 ELSE 0

\* What a call that is still to come adds to the length of b less what it adds to the length
\* that the row of b has.
NetLength(c, b) ==
    CASE c.call = "saveItem" -> (IF c.row.block = b THEN c.row.duration ELSE 0) - Share(c.id, b)
      [] c.call = "insert" -> IF c.row.block = b THEN c.row.duration ELSE 0
      [] c.call = "remove" -> - Share(c.id, b)
      [] c.call = "findBlock" -> IF c.block = b THEN - c.duration ELSE 0
      [] c.call = "saveBlock" -> IF c.copy.id = b THEN block[b].duration - c.copy.row.duration
                                 ELSE 0
      [] OTHER -> 0

NetCount(c, b) ==
    CASE c.call = "saveItem" -> (IF c.row.block = b /\ c.id \in Lesson THEN 1 ELSE 0) - One(c.id, b)
      [] c.call = "insert" -> IF c.row.block = b THEN IsLesson(c.kind) ELSE 0
      [] c.call = "remove" -> - One(c.id, b)
      [] c.call = "findBlock" -> IF c.block = b THEN - c.count ELSE 0
      [] c.call = "saveBlock" -> IF c.copy.id = b THEN block[b].count - c.copy.row.count ELSE 0
      [] OTHER -> 0

LengthAt(p, k, b) == IF k <= Len(p) THEN NetLength(p[k], b) ELSE 0
CountAt(p, k, b) == IF k <= Len(p) THEN NetCount(p[k], b) ELSE 0

\* A homework of b, or one that comes to b, is about to move.
Moves(c, b) ==
    /\ c.call = "saveItem" /\ c.id \in Homework
    /\ item[c.id].block # c.row.block /\ b \in {item[c.id].block, c.row.block}

Balanced(b, p) ==
    \/ \E k \in 1..Len(p) : Moves(p[k], b)
    \/ /\ block[b].count = Counted(b) + CountAt(p, 1, b) + CountAt(p, 2, b) + CountAt(p, 3, b)
       /\ block[b].duration =
            Length(b) + LengthAt(p, 1, b) + LengthAt(p, 2, b) + LengthAt(p, 3, b)

Even(b) == block[b].count = Counted(b) /\ block[b].duration = Length(b)

Accounted ==
    \A b \in There \ drifted :
        /\ (\A w \in Worker : b \notin req[w].on) => Even(b)
        /\ \A w \in Worker : b \in req[w].on =>
             /\ Balanced(b, Todo(w))
             /\ (Todo(w) # <<>> /\ Harmless(Head(Todo(w)))) => Even(b)

-----------------------------------------------------------------------------
(***************************************************************************)
(* Sequences of calls that are plans.                                      *)
(***************************************************************************)
LEMMA OneCall ==
  ASSUME NEW c \in Call
  PROVE  /\ <<c>> \in Seq(Call) /\ <<c>> # <<>> /\ Len(<<c>>) = 1
         /\ <<c>>[1] = c /\ Head(<<c>>) = c
  OBVIOUS

LEMMA TwoCalls ==
  ASSUME NEW c \in Call, NEW d \in Call
  PROVE  /\ <<c, d>> \in Seq(Call) /\ <<c, d>> # <<>> /\ Len(<<c, d>>) = 2
         /\ <<c, d>>[1] = c /\ <<c, d>>[2] = d /\ Head(<<c, d>>) = c
  OBVIOUS

LEMMA RowTyped ==
  /\ \A row \in ItemRow : row # NoRow /\ row.duration \in Nat /\ row.block \in Block \cup {NoBlock}
  /\ \A row \in BlockRow : row # NoRow /\ row.count \in Int /\ row.duration \in Int
  /\ Placed = {row \in ItemRow : row.block \in Block}
<1>1. \A row \in ItemRow : row # NoRow /\ row.duration \in Nat /\ row.block \in Block \cup {NoBlock}
  <2> SUFFICES ASSUME NEW row \in ItemRow
               PROVE  row # NoRow /\ row.duration \in Nat /\ row.block \in Block \cup {NoBlock}
    OBVIOUS
  <2>1. row.order \in Orders /\ row.duration \in Durations /\ row.block \in Block \cup {NoBlock}
    BY DEF ItemRow
  <2>2. NoRow.order = 0
    BY DEF NoRow
  <2>3. row.order # 0 /\ row.duration \in Nat
    BY <2>1, ContentAssumption
  <2>4. QED
    BY <2>1, <2>2, <2>3
<1>2. \A row \in BlockRow : row # NoRow /\ row.count \in Int /\ row.duration \in Int
  BY DEF BlockRow, NoRow
<1>3. Placed = {row \in ItemRow : row.block \in Block}
  BY DEF Placed, ItemRow
<1>4. QED
  BY <1>1, <1>2, <1>3

\* The statistics of a copy after Changed.
LEMMA CopyRow ==
  ASSUME NEW copy \in Copy
  PROVE  copy.id \in Block /\ copy.row \in BlockRow /\ copy.row.count \in Int
         /\ copy.row.duration \in Int
  BY DEF Copy, BlockRow

LEMMA Kinds ==
  /\ \A kind \in {Lesson, Homework} : kind \cap Page = {} /\ kind \subseteq Item
  /\ \A kind \in {Grammar, Alphabet} : kind \subseteq Page
  /\ Page \subseteq Item /\ Page \cap (Lesson \cup Homework) = {}
  /\ \A kind : IsLesson(kind) \in Int
  /\ \A kind \in {Lesson, Homework, Grammar, Alphabet} : \A i \in kind :
        i \in Item /\ (IsLesson(kind) = IF i \in Lesson THEN 1 ELSE 0)
  BY ContentAssumption DEF Page, Item, IsLesson

LEMMA CreatePlanIs ==
  ASSUME TypeOK, NEW form \in Form, form.do = "create", NEW new \in ItemRow
  PROVE  LET p == CreatePlan(form, new)
             save == SaveBlockOf(Changed(form.copy, IsLesson(form.kind), new.duration))
         IN /\ p \in Seq(Call) /\ p # <<>> /\ Len(p) = 2
            /\ p[1] = save /\ p[2] = InsertOf(form.kind, new)
            /\ form.kind \in {Lesson, Homework} /\ form.copy \in Copy
<1> DEFINE save == SaveBlockOf(Changed(form.copy, IsLesson(form.kind), new.duration))
<1>1. form.kind \in {Lesson, Homework} /\ form.copy \in Copy
  BY DEF Form
<1>2. save \in Call
  <2>1. IsLesson(form.kind) \in Int /\ new.duration \in Int
    BY RowTyped DEF IsLesson
  <2>2. Changed(form.copy, IsLesson(form.kind), new.duration) \in Copy
    BY <1>1, <2>1, CopyTypes
  <2>3. QED
    BY <2>2, CallTypes
<1>3. InsertOf(form.kind, new) \in Call
  BY <1>1, CallTypes
<1>4. CreatePlan(form, new) = <<save, InsertOf(form.kind, new)>>
  BY DEF CreatePlan
<1>5. QED
  <2> HIDE DEF save
  <2>1. PICK c, d : c = save /\ d = InsertOf(form.kind, new) /\ c \in Call /\ d \in Call
    BY <1>2, <1>3
  <2>2. CreatePlan(form, new) = <<c, d>>
    BY <1>4, <2>1
  <2> QED BY <1>1, <2>1, <2>2, TwoCalls DEF save

LEMMA LessonPlanIs ==
  ASSUME NEW form \in Form, form.do = "lesson", NEW new \in Placed, NEW filed \in BOOLEAN
  PROVE  LET p == LessonPlan(form, new, filed)
         IN /\ p \in Seq(Call) /\ p # <<>> /\ p[1] = SaveItemOf(form.id, new)
            /\ form.id \in Lesson /\ form.old \in Placed
            /\ IF new.block # form.old.block
               THEN /\ Len(p) = 3
                    /\ p[2] = Adjust(form.old.block, -1, -form.old.duration)
                    /\ p[3] = Adjust(new.block, 1, new.duration)
               ELSE IF filed
               THEN Len(p) = 2 /\ p[2] = Adjust(new.block, 0, new.duration - form.old.duration)
               ELSE Len(p) = 1
<1>1. form.id \in Lesson /\ form.old \in Placed
  BY DEF Form
<1>2. /\ new \in ItemRow /\ form.old \in ItemRow /\ new.block \in Block
      /\ form.old.block \in Block /\ new.duration \in Nat /\ form.old.duration \in Nat
  BY <1>1, RowTyped
<1>3. PICK c : c = SaveItemOf(form.id, new) /\ c \in Call
  BY <1>1, <1>2, CallTypes DEF Item
<1>4. PICK d : d = Adjust(form.old.block, -1, -form.old.duration) /\ d \in Call
  <2>1. -1 \in Int /\ -form.old.duration \in Int
    BY <1>2
  <2>2. QED
    BY <1>2, <2>1, CallTypes
<1>5. PICK e : e = Adjust(new.block, 1, new.duration) /\ e \in Call
  <2>1. 1 \in Int /\ new.duration \in Int
    BY <1>2
  <2>2. QED
    BY <1>2, <2>1, CallTypes
<1>6. PICK g : g = Adjust(new.block, 0, new.duration - form.old.duration) /\ g \in Call
  <2>1. 0 \in Int /\ new.duration - form.old.duration \in Int
    BY <1>2
  <2>2. QED
    BY <1>2, <2>1, CallTypes
<1>7. CASE new.block # form.old.block
  <2>1. LessonPlan(form, new, filed) = <<c>> \o <<d, e>>
    BY <1>3, <1>4, <1>5, <1>7 DEF LessonPlan
  <2>2. /\ <<d, e>> \in Seq(Call) /\ Len(<<d, e>>) = 2 /\ <<d, e>>[1] = d /\ <<d, e>>[2] = e
    BY <1>4, <1>5, TwoCalls
  <2>3. PICK q : q = <<d, e>>
    OBVIOUS
  <2>4. QED
    BY <1>1, <1>3, <1>4, <1>5, <1>7, <2>1, <2>2, <2>3, Before
<1>8. CASE new.block = form.old.block /\ filed
  <2>1. LessonPlan(form, new, filed) = <<c>> \o <<g>>
    BY <1>3, <1>6, <1>8 DEF LessonPlan
  <2>2. <<g>> \in Seq(Call) /\ Len(<<g>>) = 1 /\ <<g>>[1] = g
    BY <1>6, OneCall
  <2>3. PICK q \in Seq(Call) : q = <<g>> /\ Len(q) = 1 /\ q[1] = g
    BY <2>2
  <2>4. PICK p : p = LessonPlan(form, new, filed) /\ p = <<c>> \o q
    BY <2>1, <2>3
  <2>5. p \in Seq(Call) /\ p # <<>> /\ Len(p) = 2 /\ p[1] = c /\ p[2] = g
    <3>1. 1 \in 1..Len(q) /\ 1 + 1 = 2
      BY <2>3
    <3>2. QED
      BY <1>3, <2>3, <2>4, <3>1, Before
  <2>6. QED
    BY <1>1, <1>3, <1>6, <1>8, <2>4, <2>5
<1>9. CASE new.block = form.old.block /\ ~filed
  <2>1. LessonPlan(form, new, filed) = <<c>>
    <3>1. LessonPlan(form, new, filed) = <<c>> \o <<>>
      BY <1>3, <1>9 DEF LessonPlan
    <3>2. <<c>> \o <<>> = <<c>>
      OBVIOUS
    <3>3. QED
      BY <3>1, <3>2
  <2>2. QED
    BY <1>1, <1>3, <1>9, <2>1, OneCall
<1>10. QED
  <2> DEFINE p == LessonPlan(form, new, filed)
  <2> HIDE DEF p
  <2> QED BY <1>7, <1>8, <1>9 DEF p

LEMMA HomeworkPlanIs ==
  ASSUME TypeOK, NEW form \in Form, form.do = "homework", NEW new \in ItemRow
  PROVE  LET p == HomeworkPlan(form, new)
             save == SaveBlockOf(Changed(form.copy, 0, new.duration - form.old.duration))
         IN /\ p \in Seq(Call) /\ p # <<>> /\ Len(p) = 2
            /\ p[1] = save /\ p[2] = SaveItemOf(form.id, new)
            /\ form.id \in Homework /\ form.copy \in Copy /\ form.old \in ItemRow
<1> DEFINE save == SaveBlockOf(Changed(form.copy, 0, new.duration - form.old.duration))
<1>1. form.id \in Homework /\ form.copy \in Copy /\ form.old \in ItemRow
  BY DEF Form
<1>2. save \in Call
  <2>1. 0 \in Int /\ new.duration - form.old.duration \in Int
    BY <1>1, RowTyped
  <2>2. QED
    BY <1>1, <2>1, CopyTypes, CallTypes
<1>3. SaveItemOf(form.id, new) \in Call
  BY <1>1, CallTypes DEF Item
<1>4. HomeworkPlan(form, new) = <<save, SaveItemOf(form.id, new)>>
  BY DEF HomeworkPlan
<1>5. QED
  <2> HIDE DEF save
  <2>1. PICK c, d : c = save /\ d = SaveItemOf(form.id, new) /\ c \in Call /\ d \in Call
    BY <1>2, <1>3
  <2>2. HomeworkPlan(form, new) = <<c, d>>
    BY <1>4, <2>1
  <2> QED BY <1>1, <2>1, <2>2, TwoCalls DEF save

LEMMA PagePlanIs ==
  ASSUME NEW form \in Form, form.do \in {"newPage", "page"}, NEW new \in ItemRow
  PROVE  LET p == PlanOf(form, new)
         IN /\ p \in Seq(Call) /\ p # <<>> /\ Len(p) = 1
            /\ p[1] = IF form.do = "newPage" THEN InsertOf(form.kind, new)
                      ELSE SaveItemOf(form.id, new)
            /\ form.do = "newPage" => form.kind \in {Grammar, Alphabet}
            /\ form.do = "page" => form.id \in Page
<1>1. CASE form.do = "newPage"
  <2>1. form.kind \in {Grammar, Alphabet}
    BY <1>1 DEF Form
  <2>2. PICK c : c = InsertOf(form.kind, new) /\ c \in Call
    BY <2>1, CallTypes
  <2>3. PlanOf(form, new) = <<c>>
    BY <1>1, <2>2 DEF PlanOf
  <2>4. QED
    BY <1>1, <2>1, <2>2, <2>3, OneCall
<1>2. CASE form.do = "page"
  <2>1. form.id \in Page
    BY <1>2 DEF Form
  <2>2. PICK c : c = SaveItemOf(form.id, new) /\ c \in Call
    BY <2>1, CallTypes, Kinds
  <2>3. PlanOf(form, new) = <<c>>
    BY <1>2, <2>2 DEF PlanOf
  <2>4. QED
    BY <1>2, <2>1, <2>2, <2>3, OneCall
<1>3. QED
  BY <1>1, <1>2

LEMMA PlanTyped ==
  ASSUME TypeOK, NEW form \in Form, NEW new \in ItemRow, new.block = form.new.block
  PROVE  PlanOf(form, new) \in Seq(Call) /\ PlanOf(form, new) # <<>>
<1>1. form.do \in {"create", "lesson", "homework", "newPage", "page"}
  BY DEF Form
<1>2. CASE form.do = "create"
  BY <1>2, CreatePlanIs DEF PlanOf
<1>3. CASE form.do = "lesson"
  <2>1. form.new \in Placed
    BY <1>3 DEF Form
  <2>2. new \in Placed
    BY <2>1, RowTyped
  <2>3. PlanOf(form, new) = LessonPlan(form, new, TRUE)
    BY <1>3 DEF PlanOf
  <2>4. QED
    BY <1>3, <2>2, <2>3, LessonPlanIs
<1>4. CASE form.do = "homework"
  BY <1>4, HomeworkPlanIs DEF PlanOf
<1>5. CASE form.do \in {"newPage", "page"}
  BY <1>5, PagePlanIs
<1>6. QED
  BY <1>1, <1>2, <1>3, <1>4, <1>5

-----------------------------------------------------------------------------
(***************************************************************************)
(* What the plans promise: the calls of a plan are good, and they add to   *)
(* the statistics of a block what they add to its lessons and homeworks.   *)
(***************************************************************************)
LEMMA GoodSave ==
  ASSUME NEW on, NEW copy, copy.id \in There, copy.id \in on, copy.items = ItemsOf(copy.id)
  PROVE  CallGood(SaveBlockOf(copy), on)
  BY DEF CallGood, SaveBlockOf

LEMMA GoodAdjust ==
  ASSUME NEW on, NEW b \in on, NEW n, NEW m
  PROVE  CallGood(Adjust(b, n, m), on)
  BY DEF CallGood, Adjust

LEMMA GoodSaveItem ==
  ASSUME NEW on, NEW i, NEW row, row.own, row.block = NoBlock \/ row.block \in on,
         i \in Page <=> row.block = NoBlock, i \in Page \/ Held(i, on)
  PROVE  CallGood(SaveItemOf(i, row), on)
  BY DEF CallGood, SaveItemOf

LEMMA GoodInsert ==
  ASSUME NEW on, NEW kind, NEW row, row.own, row.block = NoBlock \/ row.block \in on,
         \A i \in kind : i \in Page <=> row.block = NoBlock
  PROVE  CallGood(InsertOf(kind, row), on)
  BY DEF CallGood, InsertOf

LEMMA GoodRemove ==
  ASSUME NEW on, NEW i, i \in Page \/ Held(i, on)
  PROVE  CallGood(RemoveOf(i), on)
  BY DEF CallGood, RemoveOf

LEMMA Kind ==
  /\ \A copy : /\ ~OnItem(SaveBlockOf(copy)) /\ ~Harmless(SaveBlockOf(copy))
               /\ SaveBlockOf(copy).call = "saveBlock" /\ ~SaveBlockOf(copy).recount
  /\ \A b, n, m : /\ ~OnItem(Adjust(b, n, m)) /\ ~Harmless(Adjust(b, n, m))
                  /\ Adjust(b, n, m).call = "findBlock"
  /\ \A i, row : SaveItemOf(i, row).call = "saveItem" /\ ~Harmless(SaveItemOf(i, row))
  /\ \A kind, row : InsertOf(kind, row).call = "insert" /\ ~Harmless(InsertOf(kind, row))
  /\ \A i : /\ RemoveOf(i).call = "remove" /\ RemoveOf(i).id = i
            /\ Harmless(RemoveOf(i)) <=> i \in Lesson
  BY DEF SaveBlockOf, Adjust, SaveItemOf, InsertOf, RemoveOf, OnItem, Harmless

LEMMA NetSave ==
  ASSUME NEW b, NEW copy
  PROVE  /\ NetLength(SaveBlockOf(copy), b) =
              IF copy.id = b THEN block[b].duration - copy.row.duration ELSE 0
         /\ NetCount(SaveBlockOf(copy), b) =
              IF copy.id = b THEN block[b].count - copy.row.count ELSE 0
  BY DEF NetLength, NetCount, SaveBlockOf

LEMMA NetAdjust ==
  ASSUME NEW b, NEW a, NEW n, NEW m
  PROVE  /\ NetLength(Adjust(a, n, m), b) = IF a = b THEN -m ELSE 0
         /\ NetCount(Adjust(a, n, m), b) = IF a = b THEN -n ELSE 0
  BY DEF NetLength, NetCount, Adjust

LEMMA NetSaveItem ==
  ASSUME NEW b, NEW i, NEW row
  PROVE  /\ NetLength(SaveItemOf(i, row), b) =
              (IF row.block = b THEN row.duration ELSE 0) - Share(i, b)
         /\ NetCount(SaveItemOf(i, row), b) =
              (IF row.block = b /\ i \in Lesson THEN 1 ELSE 0) - One(i, b)
         /\ Moves(SaveItemOf(i, row), b) <=>
              (i \in Homework /\ item[i].block # row.block /\ b \in {item[i].block, row.block})
  BY DEF NetLength, NetCount, SaveItemOf, Moves

LEMMA NetInsert ==
  ASSUME NEW b, NEW kind, NEW row
  PROVE  /\ NetLength(InsertOf(kind, row), b) = IF row.block = b THEN row.duration ELSE 0
         /\ NetCount(InsertOf(kind, row), b) = IF row.block = b THEN IsLesson(kind) ELSE 0
  BY DEF NetLength, NetCount, InsertOf

LEMMA NetRemove ==
  ASSUME NEW b, NEW i
  PROVE  NetLength(RemoveOf(i), b) = -Share(i, b) /\ NetCount(RemoveOf(i), b) = -One(i, b)
  BY DEF NetLength, NetCount, RemoveOf

\* What a plan needs to be good and to settle the accounts.
Settles(p, on) ==
  /\ PlanGood(p, on)
  /\ \A b \in There : Even(b) => Balanced(b, p)

LEMMA OneSettles ==
  ASSUME NEW on, NEW p \in Seq(Call), Len(p) = 1, CallGood(p[1], on),
         \A b \in There : /\ Even(b) /\ ~Moves(p[1], b)
            => block[b].count = Counted(b) + NetCount(p[1], b) + 0 + 0
               /\ block[b].duration = Length(b) + NetLength(p[1], b) + 0 + 0
  PROVE  Settles(p, on)
<1>1. \A k \in 1..Len(p) : k = 1
  OBVIOUS
<1>2. PlanGood(p, on)
  BY <1>1 DEF PlanGood
<1>3. ASSUME NEW b \in There, Even(b) PROVE Balanced(b, p)
  <2>1. /\ CountAt(p, 1, b) = NetCount(p[1], b) /\ CountAt(p, 2, b) = 0 /\ CountAt(p, 3, b) = 0
        /\ LengthAt(p, 1, b) = NetLength(p[1], b) /\ LengthAt(p, 2, b) = 0 /\ LengthAt(p, 3, b) = 0
    BY DEF CountAt, LengthAt
  <2>2. 1 \in 1..Len(p)
    OBVIOUS
  <2>3. QED
    BY <1>3, <2>1, <2>2 DEF Balanced
<1>4. QED
  BY <1>2, <1>3 DEF Settles

LEMMA TwoSettle ==
  ASSUME NEW on, NEW p \in Seq(Call), Len(p) = 2, CallGood(p[1], on), CallGood(p[2], on),
         p[1].call = "saveBlock" => ~p[1].recount, ~Harmless(p[2]),
         p[1].call \notin {"insertBlock", "removeBlock"},
         p[2].call \notin {"saveBlock", "insertBlock", "removeBlock"},
         OnItem(p[1]) => ~OnItem(p[2]),
         \A b \in There : /\ Even(b) /\ ~Moves(p[1], b) /\ ~Moves(p[2], b)
            => block[b].count = Counted(b) + NetCount(p[1], b) + NetCount(p[2], b) + 0
               /\ block[b].duration = Length(b) + NetLength(p[1], b) + NetLength(p[2], b) + 0
  PROVE  Settles(p, on)
<1>1. \A k \in 1..Len(p) : k = 1 \/ k = 2
  OBVIOUS
<1>2. PlanGood(p, on)
  BY <1>1 DEF PlanGood
<1>3. ASSUME NEW b \in There, Even(b) PROVE Balanced(b, p)
  <2>1. /\ CountAt(p, 1, b) = NetCount(p[1], b) /\ CountAt(p, 2, b) = NetCount(p[2], b)
        /\ CountAt(p, 3, b) = 0 /\ LengthAt(p, 1, b) = NetLength(p[1], b)
        /\ LengthAt(p, 2, b) = NetLength(p[2], b) /\ LengthAt(p, 3, b) = 0
    BY DEF CountAt, LengthAt
  <2>2. 1 \in 1..Len(p) /\ 2 \in 1..Len(p)
    OBVIOUS
  <2>3. QED
    BY <1>3, <2>1, <2>2 DEF Balanced
<1>4. QED
  BY <1>2, <1>3 DEF Settles

LEMMA ThreeSettle ==
  ASSUME NEW on, NEW p \in Seq(Call), Len(p) = 3,
         CallGood(p[1], on), CallGood(p[2], on), CallGood(p[3], on),
         p[1].call = "saveItem", p[2].call = "findBlock", p[3].call = "findBlock",
         \A b \in There : /\ Even(b) /\ ~Moves(p[1], b)
            => /\ block[b].count =
                    Counted(b) + NetCount(p[1], b) + NetCount(p[2], b) + NetCount(p[3], b)
               /\ block[b].duration =
                    Length(b) + NetLength(p[1], b) + NetLength(p[2], b) + NetLength(p[3], b)
  PROVE  Settles(p, on)
<1>1. \A k \in 1..Len(p) : k = 1 \/ k = 2 \/ k = 3
  OBVIOUS
<1>2. PlanGood(p, on)
  BY <1>1 DEF PlanGood, OnItem, Harmless
<1>3. ASSUME NEW b \in There, Even(b) PROVE Balanced(b, p)
  <2>1. /\ CountAt(p, 1, b) = NetCount(p[1], b) /\ CountAt(p, 2, b) = NetCount(p[2], b)
        /\ CountAt(p, 3, b) = NetCount(p[3], b) /\ LengthAt(p, 1, b) = NetLength(p[1], b)
        /\ LengthAt(p, 2, b) = NetLength(p[2], b) /\ LengthAt(p, 3, b) = NetLength(p[3], b)
    BY DEF CountAt, LengthAt
  <2>2. 1 \in 1..Len(p)
    OBVIOUS
  <2>3. QED
    BY <1>3, <2>1, <2>2 DEF Balanced
<1>4. QED
  BY <1>2, <1>3 DEF Settles

LEMMA Standing ==
  ASSUME TypeOK, NEW b \in There
  PROVE  /\ b \in Block /\ b # NoBlock /\ block[b] \in BlockRow
         /\ block[b].count \in Int /\ block[b].duration \in Int
         /\ Counted(b) \in Nat /\ Length(b) \in Nat
         /\ Loaded(b).row = block[b] /\ Loaded(b).items = ItemsOf(b) /\ Loaded(b).id = b
         /\ Loaded(b) \in Copy
<1>1. b \in Block /\ b # NoBlock /\ block[b] \in BlockRow
  BY ContentAssumption DEF TypeOK, There
<1>2. QED
  BY <1>1, RowTyped, StatsWeighed, CopyTypes DEF Weighed, Loaded

\* Of the item i that is held
LEMMA Shares ==
  ASSUME TypeOK, NEW i \in Item, item[i] # NoRow, NEW b
  PROVE  /\ Share(i, b) = IF item[i].block = b THEN item[i].duration ELSE 0
         /\ One(i, b) = IF item[i].block = b /\ i \in Lesson THEN 1 ELSE 0
         /\ item[i] \in ItemRow
  BY RowTypes DEF Share, One, TypeOK, RowsTyped

\* A page is in no block.
LEMMA PageShares ==
  ASSUME TypeOK, Shelved, NEW i \in Page, NEW b \in Block
  PROVE  Share(i, b) = 0 /\ One(i, b) = 0 /\ (item[i] # NoRow => item[i].block # b)
  BY ContentAssumption, Kinds DEF Share, One, Shelved

LEMMA CreateSettles ==
  ASSUME TypeOK, NEW form \in Form, form.do = "create", NEW on, FormGood(form, on),
         NEW new \in ItemRow, new.own, new.block = form.new.block
  PROVE  Settles(PlanOf(form, new), on)
<1> DEFINE p == CreatePlan(form, new)
           copy == Changed(form.copy, IsLesson(form.kind), new.duration)
<1>1. /\ p \in Seq(Call) /\ Len(p) = 2 /\ p[1] = SaveBlockOf(copy)
      /\ p[2] = InsertOf(form.kind, new) /\ form.kind \in {Lesson, Homework} /\ form.copy \in Copy
  BY CreatePlanIs
<1>2. form.copy.id \in There /\ form.copy.id \in on /\ form.copy = Loaded(form.copy.id)
      /\ new.block = form.copy.id
  BY DEF FormGood
<1>3. IsLesson(form.kind) \in Int /\ new.duration \in Int
  BY RowTyped DEF IsLesson
<1>4. copy.id = form.copy.id /\ copy.items = ItemsOf(form.copy.id)
      /\ copy.row.count = block[form.copy.id].count + IsLesson(form.kind)
      /\ copy.row.duration = block[form.copy.id].duration + new.duration
  <2>1. form.copy.row = block[form.copy.id] /\ form.copy.items = ItemsOf(form.copy.id)
    <3>1. PICK a : a = form.copy.id
      OBVIOUS
    <3>2. form.copy = [id |-> a, row |-> block[a], items |-> ItemsOf(a)]
      BY <1>2, <3>1 DEF Loaded
    <3>3. QED
      BY <3>1, <3>2
  <2>2. /\ copy.id = form.copy.id /\ copy.items = form.copy.items
        /\ copy.row.count = form.copy.row.count + IsLesson(form.kind)
        /\ copy.row.duration = form.copy.row.duration + new.duration
    BY <1>1, <1>3, CopyTypes
  <2>3. QED
    BY <2>1, <2>2
<1>5. CallGood(p[1], on)
  <2> HIDE DEF copy, p
  <2> QED BY <1>1, <1>2, <1>4, GoodSave
<1>6. CallGood(p[2], on)
  <2>1. \A i \in form.kind : i \in Page <=> new.block = NoBlock
    BY <1>1, <1>2, Kinds, Standing
  <2> HIDE DEF copy, p
  <2> QED BY <1>1, <1>2, <2>1, GoodInsert
<1>7. ASSUME NEW b \in There, Even(b)
      PROVE  /\ block[b].count = Counted(b) + NetCount(p[1], b) + NetCount(p[2], b) + 0
             /\ block[b].duration = Length(b) + NetLength(p[1], b) + NetLength(p[2], b) + 0
  <2>1. /\ NetCount(p[1], b) =
             IF form.copy.id = b THEN block[b].count - (block[b].count + IsLesson(form.kind)) ELSE 0
        /\ NetLength(p[1], b) =
             IF form.copy.id = b THEN block[b].duration - (block[b].duration + new.duration) ELSE 0
    <3> HIDE DEF copy, p
    <3> QED BY <1>1, <1>4, NetSave
  <2>2. /\ NetCount(p[2], b) = IF form.copy.id = b THEN IsLesson(form.kind) ELSE 0
        /\ NetLength(p[2], b) = IF form.copy.id = b THEN new.duration ELSE 0
    <3> HIDE DEF copy, p
    <3> QED BY <1>1, <1>2, NetInsert
  <2> HIDE DEF p
  <2> QED BY <1>3, <1>7, <2>1, <2>2, Standing DEF Even
<1>8. Settles(p, on)
  <2> HIDE DEF copy, p
  <2> QED BY <1>1, <1>5, <1>6, <1>7, TwoSettle, Kind
<1>9. QED
  BY <1>8 DEF PlanOf

LEMMA LessonSettles ==
  ASSUME TypeOK, NEW form \in Form, form.do = "lesson", NEW on, FormGood(form, on),
         NEW new \in Placed, new.own, new.block = form.new.block,
         NEW filed \in BOOLEAN, filed \/ new.duration = form.old.duration
  PROVE  Settles(LessonPlan(form, new, filed), on)
<1> DEFINE p == LessonPlan(form, new, filed)
           i == form.id
           old == form.old
<1>1. /\ p \in Seq(Call) /\ p[1] = SaveItemOf(i, new) /\ i \in Lesson /\ old \in Placed
      /\ IF new.block # old.block
         THEN /\ Len(p) = 3 /\ p[2] = Adjust(old.block, -1, -old.duration)
              /\ p[3] = Adjust(new.block, 1, new.duration)
         ELSE IF filed
         THEN Len(p) = 2 /\ p[2] = Adjust(new.block, 0, new.duration - old.duration)
         ELSE Len(p) = 1
  BY LessonPlanIs
<1>2. /\ Held(i, on) /\ old = item[i] /\ new.block \in There /\ new.block \in on
      /\ item[i] # NoRow /\ old.block \in on
  BY DEF FormGood, Held
<1>3. /\ new.duration \in Int /\ old.duration \in Int /\ old.block \in Block /\ i \in Item
      /\ i \notin Page /\ i \notin Homework
  BY <1>1, RowTyped, Kinds, ContentAssumption
<1>4. CallGood(p[1], on)
  <2>1. new.block # NoBlock
    BY <1>2, Standing
  <2> HIDE DEF p, old, i
  <2> QED BY <1>1, <1>2, <1>3, <2>1, GoodSaveItem
<1>5. ASSUME NEW b \in There
      PROVE  /\ NetLength(p[1], b) = (IF new.block = b THEN new.duration ELSE 0)
                                     - (IF old.block = b THEN old.duration ELSE 0)
             /\ NetCount(p[1], b) = (IF new.block = b THEN 1 ELSE 0)
                                    - (IF old.block = b THEN 1 ELSE 0)
  <2>1. /\ Share(i, b) = IF item[i].block = b THEN item[i].duration ELSE 0
        /\ One(i, b) = IF item[i].block = b /\ i \in Lesson THEN 1 ELSE 0
    <3> HIDE DEF p, old, i
    <3> QED BY <1>2, <1>3, Shares
  <2> HIDE DEF p, old, i
  <2> QED BY <1>1, <1>2, <2>1, NetSaveItem
<1>6. CASE new.block # old.block
  <2>1. CallGood(p[2], on) /\ CallGood(p[3], on)
    <3> HIDE DEF p, old, i
    <3> QED BY <1>1, <1>2, <1>6, GoodAdjust
  <2>2. ASSUME NEW b \in There, Even(b)
        PROVE  /\ block[b].count =
                    Counted(b) + NetCount(p[1], b) + NetCount(p[2], b) + NetCount(p[3], b)
               /\ block[b].duration =
                    Length(b) + NetLength(p[1], b) + NetLength(p[2], b) + NetLength(p[3], b)
    <3>1. /\ NetCount(p[2], b) = IF old.block = b THEN - (-1) ELSE 0
          /\ NetCount(p[3], b) = IF new.block = b THEN -1 ELSE 0
          /\ NetLength(p[2], b) = IF old.block = b THEN - (-old.duration) ELSE 0
          /\ NetLength(p[3], b) = IF new.block = b THEN -new.duration ELSE 0
      <4> HIDE DEF p, old, i
      <4> QED BY <1>1, <1>6, NetAdjust
    <3> HIDE DEF p, old, i
    <3> QED BY <1>3, <1>5, <1>6, <2>2, <3>1, Standing DEF Even
  <2> HIDE DEF p, old, i
  <2> QED BY <1>1, <1>4, <1>6, <2>1, <2>2, ThreeSettle, Kind DEF p
<1>7. CASE new.block = old.block /\ filed
  <2>1. CallGood(p[2], on)
    <3> HIDE DEF p, old, i
    <3> QED BY <1>1, <1>2, <1>7, GoodAdjust
  <2>2. ASSUME NEW b \in There, Even(b)
        PROVE  /\ block[b].count = Counted(b) + NetCount(p[1], b) + NetCount(p[2], b) + 0
               /\ block[b].duration = Length(b) + NetLength(p[1], b) + NetLength(p[2], b) + 0
    <3>1. /\ NetCount(p[2], b) = IF new.block = b THEN 0 ELSE 0
          /\ NetLength(p[2], b) = IF new.block = b THEN - (new.duration - old.duration) ELSE 0
      <4> HIDE DEF p, old, i
      <4> QED BY <1>1, <1>7, NetAdjust
    <3> HIDE DEF p, old, i
    <3> QED BY <1>3, <1>5, <1>7, <2>2, <3>1, Standing DEF Even
  <2> HIDE DEF p, old, i
  <2>3. ~OnItem(p[2]) /\ ~Harmless(p[2]) /\ p[2].call = "findBlock" /\ p[1].call = "saveItem"
    BY <1>1, <1>7, Kind
  <2> QED BY <1>1, <1>4, <1>7, <2>1, <2>2, <2>3, TwoSettle DEF p
<1>8. CASE new.block = old.block /\ ~filed
  <2>2. ASSUME NEW b \in There, Even(b)
        PROVE  /\ block[b].count = Counted(b) + NetCount(p[1], b) + 0 + 0
               /\ block[b].duration = Length(b) + NetLength(p[1], b) + 0 + 0
    <3>1. new.duration = old.duration
      BY <1>8
    <3> HIDE DEF p, old, i
    <3> QED BY <1>3, <1>5, <1>8, <2>2, <3>1, Standing DEF Even
  <2> HIDE DEF p, old, i
  <2> QED BY <1>1, <1>4, <1>8, <2>2, OneSettles DEF p
<1>9. QED
  BY <1>6, <1>7, <1>8

LEMMA HomeworkSettles ==
  ASSUME TypeOK, NEW form \in Form, form.do = "homework", NEW on, FormGood(form, on),
         NEW new \in ItemRow, new.own, new.block = form.new.block
  PROVE  Settles(PlanOf(form, new), on)
<1> DEFINE p == HomeworkPlan(form, new)
           i == form.id
           old == form.old
           copy == Changed(form.copy, 0, new.duration - form.old.duration)
<1>1. /\ p \in Seq(Call) /\ Len(p) = 2 /\ p[1] = SaveBlockOf(copy) /\ p[2] = SaveItemOf(i, new)
      /\ i \in Homework /\ form.copy \in Copy /\ old \in ItemRow
  BY HomeworkPlanIs
<1>2. /\ Held(i, on) /\ old = item[i] /\ new.block \in There /\ new.block \in on
      /\ item[i] # NoRow /\ form.copy = Loaded(new.block)
  BY DEF FormGood, Held
<1>3. /\ new.duration \in Int /\ old.duration \in Int /\ i \in Item
      /\ i \notin Page /\ i \notin Lesson
  BY <1>1, RowTyped, Kinds, ContentAssumption
<1>4. /\ copy.id = new.block /\ copy.items = ItemsOf(new.block)
      /\ copy.row.count = block[new.block].count + 0
      /\ copy.row.duration = block[new.block].duration + (new.duration - old.duration)
  <2>1. 0 \in Int /\ new.duration - old.duration \in Int
    BY <1>3
  <2>2. QED
    BY <1>1, <1>2, <2>1, CopyTypes, Standing
<1>5. CallGood(p[1], on)
  <2> HIDE DEF copy, p
  <2> QED BY <1>1, <1>2, <1>4, GoodSave
<1>6. CallGood(p[2], on)
  <2>1. new.block # NoBlock
    BY <1>2, Standing
  <2> HIDE DEF p, old, i, copy
  <2> QED BY <1>1, <1>2, <1>3, <2>1, GoodSaveItem
<1>7. ASSUME NEW b \in There, Even(b), ~Moves(p[2], b)
      PROVE  /\ block[b].count = Counted(b) + NetCount(p[1], b) + NetCount(p[2], b) + 0
             /\ block[b].duration = Length(b) + NetLength(p[1], b) + NetLength(p[2], b) + 0
  <2>1. /\ NetCount(p[1], b) =
             IF new.block = b THEN block[b].count - (block[b].count + 0) ELSE 0
        /\ NetLength(p[1], b) =
             IF new.block = b
             THEN block[b].duration - (block[b].duration + (new.duration - old.duration)) ELSE 0
    <3> HIDE DEF copy, p, old, i
    <3> QED BY <1>1, <1>4, NetSave
  <2>2. /\ Share(i, b) = IF item[i].block = b THEN item[i].duration ELSE 0
        /\ One(i, b) = IF item[i].block = b /\ i \in Lesson THEN 1 ELSE 0
    <3> HIDE DEF p, old, i, copy
    <3> QED BY <1>2, <1>3, Shares
  <2>3. /\ NetLength(p[2], b) = (IF new.block = b THEN new.duration ELSE 0)
                                - (IF old.block = b THEN old.duration ELSE 0)
        /\ NetCount(p[2], b) = 0
    <3> HIDE DEF p, old, i, copy
    <3> QED BY <1>1, <1>2, <1>3, <2>2, NetSaveItem
  <2>4. old.block = b <=> new.block = b
    <3>1. i \in Homework /\ b \in {old.block, new.block} => old.block = new.block
      <4> HIDE DEF p, old, i, copy
      <4> QED BY <1>1, <1>2, <1>7, NetSaveItem
    <3> HIDE DEF p, old, i, copy
    <3> QED BY <1>1, <3>1
  <2> HIDE DEF p, old, i, copy
  <2> QED BY <1>3, <1>7, <2>1, <2>3, <2>4, Standing DEF Even
<1>8. Settles(p, on)
  <2> HIDE DEF copy, p, old, i
  <2> QED BY <1>1, <1>5, <1>6, <1>7, TwoSettle, Kind
<1>9. QED
  BY <1>8 DEF PlanOf

LEMMA PageSettles ==
  ASSUME TypeOK, Shelved, NEW form \in Form, form.do \in {"newPage", "page"}, NEW on,
         FormGood(form, on), NEW new \in ItemRow, new.own, new.block = form.new.block
  PROVE  Settles(PlanOf(form, new), on)
<1> DEFINE p == PlanOf(form, new)
<1>1. /\ p \in Seq(Call) /\ Len(p) = 1
      /\ p[1] = IF form.do = "newPage" THEN InsertOf(form.kind, new) ELSE SaveItemOf(form.id, new)
      /\ form.do = "newPage" => form.kind \in {Grammar, Alphabet}
      /\ form.do = "page" => form.id \in Page
  BY PagePlanIs
<1>2. new.block = NoBlock
  BY DEF FormGood
<1> HIDE DEF p
<1>3. CallGood(p[1], on)
  <2>1. CASE form.do = "newPage"
    <3>1. \A i \in form.kind : i \in Page <=> new.block = NoBlock
      BY <1>1, <1>2, <2>1, Kinds
    <3>2. QED
      BY <1>1, <1>2, <2>1, <3>1, GoodInsert
  <2>2. CASE form.do = "page"
    BY <1>1, <1>2, <2>2, GoodSaveItem
  <2>3. QED
    BY <2>1, <2>2
<1>4. ASSUME NEW b \in There, Even(b)
      PROVE  /\ block[b].count = Counted(b) + NetCount(p[1], b) + 0 + 0
             /\ block[b].duration = Length(b) + NetLength(p[1], b) + 0 + 0
  <2>1. b \in Block /\ b # NoBlock
    BY Standing
  <2>2. NetCount(p[1], b) = 0 /\ NetLength(p[1], b) = 0
    <3>1. CASE form.do = "newPage"
      BY <1>1, <1>2, <2>1, <3>1, NetInsert
    <3>2. CASE form.do = "page"
      <4>1. Share(form.id, b) = 0 /\ One(form.id, b) = 0
        BY <1>1, <2>1, <3>2, PageShares
      <4>2. QED
        BY <1>1, <1>2, <2>1, <3>2, <4>1, NetSaveItem
    <3>3. QED
      BY <3>1, <3>2
  <2>3. QED
    BY <1>4, <2>2, Standing DEF Even
<1>5. QED
  BY <1>1, <1>3, <1>4, OneSettles DEF p

\* What is made of a form when its video is uploaded
LEMMA PlanSettles ==
  ASSUME TypeOK, Shelved, NEW form \in Form, NEW on, FormGood(form, on),
         NEW new \in ItemRow, new.own, new.block = form.new.block
  PROVE  Settles(PlanOf(form, new), on)
<1>1. form.do \in {"create", "lesson", "homework", "newPage", "page"}
  BY DEF Form
<1>2. CASE form.do = "create"
  BY <1>2, CreateSettles
<1>3. CASE form.do = "lesson"
  <2>1. form.new \in Placed
    BY <1>3 DEF Form
  <2>2. new \in Placed
    BY <2>1, RowTyped
  <2>3. PlanOf(form, new) = LessonPlan(form, new, TRUE)
    BY <1>3 DEF PlanOf
  <2>4. QED
    BY <1>3, <2>2, <2>3, LessonSettles
<1>4. CASE form.do = "homework"
  BY <1>4, HomeworkSettles
<1>5. CASE form.do \in {"newPage", "page"}
  BY <1>5, PageSettles
<1>6. QED
  BY <1>1, <1>2, <1>3, <1>4, <1>5

-----------------------------------------------------------------------------
(***************************************************************************)
(* How operations begin: with a form that is good, or with a plan that     *)
(* settles.                                                                *)
(***************************************************************************)
Begins(w) ==
  \E on :
    /\ Begin(w, on)
    /\ \/ \E form \in Form : Upload(w, on, form) /\ (Shelved => FormGood(form, on))
       \/ \E p \in Seq(Call) : p # <<>> /\ Run(w, on, p) /\ (Shelved => Settles(p, on))

LEMMA CreateBegins ==
  ASSUME Typed, NEW w \in Worker, NEW kind \in {Lesson, Homework}, NEW b \in Block,
         NEW order \in Orders, Create(w, kind, b, order)
  PROVE  Begins(w)
<1> DEFINE form == [do |-> "create", kind |-> kind, copy |-> Loaded(b),
                    new |-> [block |-> b, order |-> order]]
<1>1. b \in There /\ Begin(w, {b}) /\ Upload(w, {b}, form)
  BY DEF Create
<1>2. Loaded(b) \in Copy /\ Loaded(b).id = b
  BY <1>1, Standing DEF Typed
<1>3. form \in Form
  BY <1>2 DEF Form, Place
<1>4. FormGood(form, {b})
  BY <1>1, <1>2 DEF FormGood
<1>5. QED
  <2> HIDE DEF form
  <2> QED BY <1>1, <1>3, <1>4 DEF Begins

LEMMA UpdateLessonBegins ==
  ASSUME Typed, NEW w \in Worker, NEW l \in Lesson, NEW b \in Block, NEW order \in Orders,
         NEW filed \in BOOLEAN, UpdateLesson(w, l, b, order, filed)
  PROVE  Begins(w)
<1> DEFINE on == {l, item[l].block, b}
           new == [item[l] EXCEPT !.block = b, !.order = order]
           form == [do |-> "lesson", id |-> l, old |-> item[l], new |-> new]
<1>1. /\ item[l] # NoRow /\ item[l].block # NoBlock /\ b \in There /\ Begin(w, on)
      /\ IF filed THEN Upload(w, on, form) ELSE Run(w, on, LessonPlan(form, new, FALSE))
  BY DEF UpdateLesson
<1>2. l \in Item
  BY DEF Item
<1>3. /\ new \in Placed /\ item[l] \in ItemRow /\ new.block = b
      /\ new.duration = item[l].duration /\ new.own = item[l].own
  <2>1. item[l] \in ItemRow
    BY <1>1, <1>2 DEF Typed, TypeOK
  <2>2. QED
    BY <2>1 DEF ItemRow, Placed
<1>4. item[l] \in Placed
  BY <1>1, <1>3, RowTyped
<1>5. /\ form \in Form /\ form.do = "lesson" /\ form.id = l /\ form.old = item[l]
      /\ form.new = new
  <2> HIDE DEF new
  <2> QED BY <1>3, <1>4 DEF Form
<1>6. FormGood(form, on)
  <2>1. Held(l, on)
    BY <1>1 DEF Held
  <2>2. form.old.block \in Block /\ form.new.block = b
    BY <1>3, <1>4, <1>5 DEF Placed
  <2> HIDE DEF form, new
  <2> QED BY <1>1, <1>5, <2>1, <2>2 DEF FormGood
<1>7. CASE filed
  <2> HIDE DEF form, on
  <2> QED BY <1>1, <1>5, <1>6, <1>7 DEF Begins
<1>8. CASE ~filed
  <2> DEFINE p == LessonPlan(form, new, FALSE)
  <2>1. p \in Seq(Call) /\ p # <<>>
    <3> HIDE DEF form, new
    <3> QED BY <1>3, <1>5, LessonPlanIs
  <2>2. ASSUME Shelved PROVE Settles(p, on)
    <3>1. new.own
      BY <1>1, <1>2, <1>3, <2>2 DEF Shelved
    <3> HIDE DEF form, new, on
    <3> QED BY <1>3, <1>5, <1>6, <3>1, LessonSettles DEF Typed
  <2> HIDE DEF p, on
  <2> QED BY <1>1, <1>8, <2>1, <2>2 DEF Begins, p
<1>9. QED
  BY <1>7, <1>8

LEMMA DeleteLessonBegins ==
  ASSUME Typed, NEW w \in Worker, NEW l \in Lesson, DeleteLesson(w, l)
  PROVE  Begins(w)
<1> DEFINE on == {l, item[l].block}
           c == RemoveOf(l)
           d == Adjust(item[l].block, -1, -item[l].duration)
<1>1. item[l] # NoRow /\ item[l].block # NoBlock /\ Begin(w, on) /\ Run(w, on, <<c, d>>)
  BY DEF DeleteLesson
<1>2. l \in Item /\ TypeOK
  BY DEF Item, Typed
<1>3. item[l].block \in Block /\ item[l].duration \in Int
  BY <1>1, <1>2, Shares, RowTyped
<1>4. c \in Call /\ d \in Call
  <2>1. -1 \in Int /\ -item[l].duration \in Int
    BY <1>3
  <2>2. QED
    BY <1>2, <1>3, <2>1, CallTypes
<1>5. PICK p : p = <<c, d>>
  OBVIOUS
<1> HIDE DEF c, d
<1>6. p \in Seq(Call) /\ p # <<>> /\ Len(p) = 2 /\ p[1] = c /\ p[2] = d
  BY <1>4, <1>5, TwoCalls
<1>7. CallGood(c, on) /\ CallGood(d, on)
  <2>1. Held(l, on)
    BY <1>1 DEF Held
  <2>2. QED
    BY <2>1, GoodRemove, GoodAdjust DEF c, d
<1>8. ASSUME NEW b \in There, Even(b)
      PROVE  /\ block[b].count = Counted(b) + NetCount(c, b) + NetCount(d, b) + 0
             /\ block[b].duration = Length(b) + NetLength(c, b) + NetLength(d, b) + 0
  <2>1. /\ NetCount(c, b) = -One(l, b) /\ NetLength(c, b) = -Share(l, b)
        /\ NetCount(d, b) = IF item[l].block = b THEN -(-1) ELSE 0
        /\ NetLength(d, b) = IF item[l].block = b THEN -(-item[l].duration) ELSE 0
    BY NetRemove, NetAdjust DEF c, d
  <2>2. /\ Share(l, b) = IF item[l].block = b THEN item[l].duration ELSE 0
        /\ One(l, b) = IF item[l].block = b /\ l \in Lesson THEN 1 ELSE 0
    BY <1>1, <1>2, Shares
  <2>3. QED
    BY <1>2, <1>3, <1>8, <2>1, <2>2, Standing DEF Even
<1>9. Settles(p, on)
  <2>1. ~OnItem(d) /\ ~Harmless(d) /\ c.call = "remove" /\ d.call = "findBlock"
    BY Kind DEF c, d
  <2> HIDE DEF on
  <2> QED BY <1>6, <1>7, <1>8, <2>1, TwoSettle
<1>10. QED
  <2> HIDE DEF on
  <2> QED BY <1>1, <1>5, <1>6, <1>9 DEF Begins

LEMMA UpdateHomeworkBegins ==
  ASSUME Typed, NEW w \in Worker, NEW h \in Homework, NEW b \in Block, NEW order \in Orders,
         NEW filed \in BOOLEAN, UpdateHomework(w, h, b, order, filed)
  PROVE  Begins(w)
<1> DEFINE on == {h, item[h].block, b}
           new == [item[h] EXCEPT !.block = b, !.order = order]
           form == [do |-> "homework", id |-> h, old |-> item[h], new |-> new,
                    copy |-> Loaded(b)]
<1>1. /\ item[h] # NoRow /\ b \in There /\ Begin(w, on)
      /\ IF filed THEN Upload(w, on, form) ELSE Run(w, on, <<SaveItemOf(h, new)>>)
  BY DEF UpdateHomework
<1>2. h \in Item /\ TypeOK /\ h \notin Page /\ h \notin Lesson
  BY Kinds, ContentAssumption DEF Item, Typed
<1>3. /\ new \in ItemRow /\ item[h] \in ItemRow /\ new.block = b
      /\ new.duration = item[h].duration /\ new.own = item[h].own
  <2>1. item[h] \in ItemRow
    BY <1>1, <1>2 DEF Typed, TypeOK
  <2>2. QED
    BY <2>1 DEF ItemRow, Placed
<1>4. Held(h, on)
  BY <1>1 DEF Held
<1> HIDE DEF new
<1>7. CASE filed
  <2>1. Loaded(b) \in Copy /\ Loaded(b).id = b
    BY <1>1, <1>2, Standing
  <2>2. form \in Form
    BY <1>3, <2>1 DEF Form
  <2>3. FormGood(form, on)
    BY <1>1, <1>3, <1>4, <2>1 DEF FormGood
  <2> HIDE DEF form, on
  <2> QED BY <1>1, <1>7, <2>2, <2>3 DEF Begins
<1>8. CASE ~filed
  <2>1. PICK c : c = SaveItemOf(h, new) /\ c \in Call
    BY <1>2, <1>3, CallTypes
  <2>2. PICK p : p = <<c>>
    OBVIOUS
  <2>3. p \in Seq(Call) /\ p # <<>> /\ Len(p) = 1 /\ p[1] = c
    BY <2>1, <2>2, OneCall
  <2>4. ASSUME Shelved PROVE Settles(p, on)
    <3>1. new.own
      BY <1>1, <1>2, <1>3, <2>4 DEF Shelved
    <3>2. CallGood(c, on)
      <4>1. new.block # NoBlock /\ new.block \in on
        BY <1>1, <1>2, <1>3, Standing
      <4> HIDE DEF on
      <4> QED BY <1>2, <1>4, <2>1, <3>1, <4>1, GoodSaveItem
    <3>3. ASSUME NEW a \in There, Even(a), ~Moves(c, a)
          PROVE  /\ block[a].count = Counted(a) + NetCount(c, a) + 0 + 0
                 /\ block[a].duration = Length(a) + NetLength(c, a) + 0 + 0
      <4>1. /\ Share(h, a) = IF item[h].block = a THEN item[h].duration ELSE 0
            /\ One(h, a) = IF item[h].block = a /\ h \in Lesson THEN 1 ELSE 0
        BY <1>1, <1>2, Shares
      <4>2. /\ NetLength(c, a) = (IF new.block = a THEN new.duration ELSE 0)
                                 - (IF item[h].block = a THEN item[h].duration ELSE 0)
            /\ NetCount(c, a) = 0
            /\ Moves(c, a) <=> (item[h].block # new.block /\ a \in {item[h].block, new.block})
        BY <1>2, <2>1, <4>1, NetSaveItem
      <4>3. QED
        BY <1>2, <1>3, <3>3, <4>2, RowTyped, Standing DEF Even
    <3> HIDE DEF on
    <3>4. QED
      BY <2>3, <3>2, <3>3, OneSettles
  <2> HIDE DEF on
  <2> QED BY <1>1, <1>8, <2>1, <2>2, <2>3, <2>4 DEF Begins
<1>9. QED
  BY <1>7, <1>8

LEMMA DeleteHomeworkBegins ==
  ASSUME Typed, NEW w \in Worker, NEW h \in Homework, DeleteHomework(w, h)
  PROVE  Begins(w)
<1> DEFINE on == {h, item[h].block}
           c == Adjust(item[h].block, 0, -item[h].duration)
           d == RemoveOf(h)
<1>1. item[h] # NoRow /\ item[h].block # NoBlock /\ Begin(w, on) /\ Run(w, on, <<c, d>>)
  BY DEF DeleteHomework
<1>2. h \in Item /\ TypeOK /\ h \notin Lesson
  BY ContentAssumption DEF Item, Typed
<1>3. item[h].block \in Block /\ item[h].duration \in Int
  BY <1>1, <1>2, Shares, RowTyped
<1>4. c \in Call /\ d \in Call
  <2>1. 0 \in Int /\ -item[h].duration \in Int
    BY <1>3
  <2>2. QED
    BY <1>2, <1>3, <2>1, CallTypes
<1>5. PICK p : p = <<c, d>>
  OBVIOUS
<1> HIDE DEF c, d
<1>6. p \in Seq(Call) /\ p # <<>> /\ Len(p) = 2 /\ p[1] = c /\ p[2] = d
  BY <1>4, <1>5, TwoCalls
<1>7. CallGood(c, on) /\ CallGood(d, on)
  <2>1. Held(h, on)
    BY <1>1 DEF Held
  <2>2. QED
    BY <2>1, GoodRemove, GoodAdjust DEF c, d
<1>8. ASSUME NEW b \in There, Even(b)
      PROVE  /\ block[b].count = Counted(b) + NetCount(c, b) + NetCount(d, b) + 0
             /\ block[b].duration = Length(b) + NetLength(c, b) + NetLength(d, b) + 0
  <2>1. /\ NetCount(d, b) = -One(h, b) /\ NetLength(d, b) = -Share(h, b)
        /\ NetCount(c, b) = IF item[h].block = b THEN -0 ELSE 0
        /\ NetLength(c, b) = IF item[h].block = b THEN -(-item[h].duration) ELSE 0
    BY NetRemove, NetAdjust DEF c, d
  <2>2. /\ Share(h, b) = IF item[h].block = b THEN item[h].duration ELSE 0
        /\ One(h, b) = IF item[h].block = b /\ h \in Lesson THEN 1 ELSE 0
    BY <1>1, <1>2, Shares
  <2>3. QED
    BY <1>2, <1>3, <1>8, <2>1, <2>2, Standing DEF Even
<1>9. Settles(p, on)
  <2>1. /\ ~OnItem(c) /\ c.call = "findBlock" /\ d.call = "remove" /\ ~Harmless(d)
    BY <1>2, Kind DEF c, d
  <2> HIDE DEF on
  <2> QED BY <1>6, <1>7, <1>8, <2>1, TwoSettle
<1>10. QED
  <2> HIDE DEF on
  <2> QED BY <1>1, <1>5, <1>6, <1>9 DEF Begins

LEMMA CreatePageBegins ==
  ASSUME Typed, NEW w \in Worker, NEW kind \in {Grammar, Alphabet}, NEW order \in Orders,
         CreatePage(w, kind, order)
  PROVE  Begins(w)
<1> DEFINE form == [do |-> "newPage", kind |-> kind,
                    new |-> [block |-> NoBlock, order |-> order]]
<1>1. Begin(w, kind) /\ Upload(w, kind, form)
  BY DEF CreatePage
<1>2. form \in Form
  BY DEF Form, Place
<1>3. FormGood(form, kind)
  BY DEF FormGood
<1>4. QED
  <2> HIDE DEF form
  <2> QED BY <1>1, <1>2, <1>3 DEF Begins

\* A page that is there, with another order
LEMMA PageRow ==
  ASSUME TypeOK, NEW p \in Page, item[p] # NoRow, NEW order \in Orders,
         NEW new, new = [item[p] EXCEPT !.order = order]
  PROVE  /\ p \in Item /\ new \in ItemRow
         /\ Shelved => new.block = NoBlock /\ new.own
<1>1. p \in Item /\ item[p] \in ItemRow
  BY Kinds DEF TypeOK
<1>2. new \in ItemRow /\ new.block = item[p].block /\ new.own = item[p].own
  BY <1>1 DEF ItemRow
<1>3. QED
  BY <1>1, <1>2 DEF Shelved

LEMMA UpdatePageBegins ==
  ASSUME Typed, NEW w \in Worker, NEW kind \in {Grammar, Alphabet}, NEW p \in kind,
         NEW order \in Orders, NEW filed \in BOOLEAN, UpdatePage(w, kind, p, order, filed)
  PROVE  Begins(w)
<1>1. PICK new : new = [item[p] EXCEPT !.order = order]
  OBVIOUS
<1> DEFINE form == [do |-> "page", id |-> p, new |-> new]
<1>2. /\ item[p] # NoRow /\ Begin(w, kind)
      /\ IF filed THEN Upload(w, kind, form) ELSE Run(w, kind, <<SaveItemOf(p, new)>>)
  BY <1>1 DEF UpdatePage
<1>3. /\ p \in Page /\ p \in Item /\ new \in ItemRow /\ TypeOK
      /\ Shelved => new.block = NoBlock /\ new.own
  <2>1. p \in Page /\ TypeOK
    BY Kinds DEF Typed
  <2>2. QED
    BY <1>1, <1>2, <2>1, PageRow
<1>4. form \in Form
  BY <1>3 DEF Form
<1>5. Shelved => FormGood(form, kind)
  BY <1>3 DEF FormGood
<1>6. CASE filed
  <2> HIDE DEF form
  <2> QED BY <1>2, <1>4, <1>5, <1>6 DEF Begins
<1>7. CASE ~filed
  <2>1. PICK c : c = SaveItemOf(p, new) /\ c \in Call
    BY <1>3, CallTypes
  <2>2. PICK q : q = <<c>>
    OBVIOUS
  <2>3. q \in Seq(Call) /\ q # <<>> /\ Len(q) = 1 /\ q[1] = c
    BY <2>1, <2>2, OneCall
  <2>4. ASSUME Shelved PROVE Settles(q, kind)
    <3>1. CallGood(c, kind)
      BY <1>3, <2>1, <2>4, GoodSaveItem
    <3>2. ASSUME NEW a \in There, Even(a)
          PROVE  /\ block[a].count = Counted(a) + NetCount(c, a) + 0 + 0
                 /\ block[a].duration = Length(a) + NetLength(c, a) + 0 + 0
      <4>1. Share(p, a) = 0 /\ One(p, a) = 0 /\ a # NoBlock /\ a \in Block
        BY <1>3, <2>4, Standing, PageShares
      <4>2. /\ NetLength(c, a) = 0 - 0
            /\ NetCount(c, a) = 0 - 0
        BY <1>3, <2>1, <2>4, <4>1, NetSaveItem
      <4>3. QED
        BY <1>3, <3>2, <4>2, Standing DEF Even
    <3>3. QED
      BY <2>3, <3>1, <3>2, OneSettles
  <2>5. QED
    BY <1>2, <1>7, <2>1, <2>2, <2>3, <2>4 DEF Begins
<1>8. QED
  BY <1>6, <1>7

LEMMA DeletePageBegins ==
  ASSUME Typed, NEW w \in Worker, NEW kind \in {Grammar, Alphabet}, NEW p \in kind,
         DeletePage(w, kind, p)
  PROVE  Begins(w)
<1>1. p \in Page /\ p \in Item /\ TypeOK
  BY Kinds DEF Typed
<1>2. PICK c : c = RemoveOf(p) /\ c \in Call
  BY <1>1, CallTypes
<1>3. PICK q : q = <<c>>
  OBVIOUS
<1>4. Begin(w, kind) /\ Run(w, kind, q)
  BY <1>2, <1>3 DEF DeletePage
<1>5. q \in Seq(Call) /\ q # <<>> /\ Len(q) = 1 /\ q[1] = c
  BY <1>2, <1>3, OneCall
<1>6. ASSUME Shelved PROVE Settles(q, kind)
  <2>1. CallGood(c, kind)
    BY <1>1, <1>2, GoodRemove
  <2>2. ASSUME NEW a \in There, Even(a)
        PROVE  /\ block[a].count = Counted(a) + NetCount(c, a) + 0 + 0
               /\ block[a].duration = Length(a) + NetLength(c, a) + 0 + 0
    <3>1. Share(p, a) = 0 /\ One(p, a) = 0
      BY <1>1, <1>6, Standing, PageShares
    <3>2. NetLength(c, a) = -0 /\ NetCount(c, a) = -0
      BY <1>2, <3>1, NetRemove
    <3>3. QED
      BY <1>1, <2>2, <3>2, Standing DEF Even
  <2>3. QED
    BY <1>5, <2>1, <2>2, OneSettles
<1>7. QED
  BY <1>4, <1>5, <1>6 DEF Begins

LEMMA CreateBlockBegins ==
  ASSUME Typed, NEW w \in Worker, NEW order \in Orders, CreateBlock(w, order)
  PROVE  Begins(w)
<1>1. PICK c : c = [call |-> "insertBlock", order |-> order] /\ c \in Call
  BY CallTypes
<1>2. PICK p : p = <<c>>
  OBVIOUS
<1>3. p \in Seq(Call) /\ p # <<>> /\ Len(p) = 1 /\ p[1] = c
  BY <1>1, <1>2, OneCall
<1>4. Begin(w, Block) /\ Run(w, Block, p)
  BY <1>1, <1>2 DEF CreateBlock
<1>5. CallGood(c, Block)
  BY <1>1 DEF CallGood
<1>6. \A b : NetCount(c, b) = 0 /\ NetLength(c, b) = 0
  BY <1>1 DEF NetCount, NetLength
<1>7. Settles(p, Block)
  <2>1. TypeOK
    BY DEF Typed
  <2>2. QED
    BY <1>3, <1>5, <1>6, <2>1, OneSettles, Standing DEF Even
<1>8. QED
  BY <1>3, <1>4, <1>7 DEF Begins

\* A plan of one save of a block
LEMMA SaveSettles ==
  ASSUME TypeOK, NEW on, NEW copy \in Copy, copy.id \in There, copy.id \in on,
         copy.items = ItemsOf(copy.id), NEW c, c \in {SaveBlockOf(copy),
                                                      [SaveBlockOf(copy) EXCEPT !.recount = TRUE]},
         Even(copy.id) => /\ copy.row.count = block[copy.id].count
                          /\ copy.row.duration = block[copy.id].duration,
         c.recount => copy.row.count = Counted(copy.id) /\ copy.row.duration = Length(copy.id)
  PROVE  <<c>> \in Seq(Call) /\ <<c>> # <<>> /\ Settles(<<c>>, on)
<1>1. c.call = "saveBlock" /\ c.copy = copy
  BY DEF SaveBlockOf
<1>2. c \in Call
  BY CallTypes
<1>3. PICK p : p = <<c>>
  OBVIOUS
<1>4. p \in Seq(Call) /\ p # <<>> /\ Len(p) = 1 /\ p[1] = c
  BY <1>2, <1>3, OneCall
<1>5. CallGood(c, on)
  BY <1>1 DEF CallGood
<1>6. ASSUME NEW b \in There, Even(b)
      PROVE  /\ block[b].count = Counted(b) + NetCount(c, b) + 0 + 0
             /\ block[b].duration = Length(b) + NetLength(c, b) + 0 + 0
  <2>1. /\ NetLength(c, b) = IF copy.id = b THEN block[b].duration - copy.row.duration ELSE 0
        /\ NetCount(c, b) = IF copy.id = b THEN block[b].count - copy.row.count ELSE 0
    BY <1>1 DEF NetLength, NetCount
  <2>2. NetLength(c, b) = 0 /\ NetCount(c, b) = 0
    BY <1>6, <2>1, Standing
  <2>3. QED
    BY <1>6, <2>2, Standing DEF Even
<1>7. QED
  BY <1>3, <1>4, <1>5, <1>6, OneSettles

LEMMA UpdateBlockBegins ==
  ASSUME Typed, NEW w \in Worker, NEW b \in Block, NEW order \in Orders, UpdateBlock(w, b, order)
  PROVE  Begins(w)
<1>1. PICK copy : copy = [Loaded(b) EXCEPT !.row.order = order]
  OBVIOUS
<1>2. b \in There /\ Begin(w, Block) /\ Run(w, Block, <<SaveBlockOf(copy)>>) /\ TypeOK
  BY <1>1 DEF UpdateBlock, Typed
<1>3. copy \in Copy /\ copy.id = b /\ copy.items = ItemsOf(b)
      /\ copy.row.count = block[b].count /\ copy.row.duration = block[b].duration
  <2>1. block[b] \in BlockRow /\ b \in Block /\ Loaded(b).items = ItemsOf(b)
        /\ Loaded(b) \in Copy
    BY <1>2, Standing
  <2>2. PICK row : row = [block[b] EXCEPT !.order = order]
    OBVIOUS
  <2>3. row \in BlockRow /\ row.count = block[b].count /\ row.duration = block[b].duration
    BY <2>1, <2>2 DEF BlockRow
  <2>4. copy = [id |-> b, row |-> row, items |-> ItemsOf(b)]
    BY <1>1, <2>2 DEF Loaded
  <2>5. QED
    BY <2>1, <2>3, <2>4 DEF Copy
<1>4. PICK c : c = SaveBlockOf(copy) /\ ~c.recount
  BY Kind
<1>5. <<c>> \in Seq(Call) /\ <<c>> # <<>> /\ Settles(<<c>>, Block)
  BY <1>2, <1>3, <1>4, SaveSettles
<1>6. QED
  BY <1>2, <1>4, <1>5 DEF Begins

LEMMA RecalculateBegins ==
  ASSUME Typed, NEW w \in Worker, NEW b \in Block, Recalculate(w, b)
  PROVE  Begins(w)
<1>1. PICK copy : copy = [Loaded(b) EXCEPT !.row.count = Counted(b), !.row.duration = Length(b)]
  OBVIOUS
<1>2. /\ b \in There /\ copy # Loaded(b) /\ Begin(w, {b}) /\ TypeOK
      /\ Run(w, {b}, <<[SaveBlockOf(copy) EXCEPT !.recount = TRUE]>>)
  BY <1>1 DEF Recalculate, Typed
<1>3. /\ copy \in Copy /\ copy.id = b /\ copy.items = ItemsOf(b)
      /\ copy.row.count = Counted(b) /\ copy.row.duration = Length(b)
  <2>1. block[b] \in BlockRow /\ b \in Block /\ Loaded(b).items = ItemsOf(b)
        /\ Loaded(b) \in Copy /\ Counted(b) \in Int /\ Length(b) \in Int
    BY <1>2, Standing
  <2>2. PICK n, m : n = Counted(b) /\ m = Length(b)
    OBVIOUS
  <2>3. PICK row : row = [block[b] EXCEPT !.count = n, !.duration = m]
    OBVIOUS
  <2>4. row \in BlockRow /\ row.count = n /\ row.duration = m
    BY <2>1, <2>2, <2>3 DEF BlockRow
  <2>5. copy = [id |-> b, row |-> row, items |-> ItemsOf(b)]
    BY <1>1, <2>2, <2>3 DEF Loaded
  <2>6. QED
    BY <2>1, <2>2, <2>4, <2>5 DEF Copy
<1>4. PICK c : c = [SaveBlockOf(copy) EXCEPT !.recount = TRUE]
  OBVIOUS
<1>5. <<c>> \in Seq(Call) /\ <<c>> # <<>> /\ Settles(<<c>>, {b})
  BY <1>2, <1>3, <1>4, SaveSettles DEF Even
<1>6. QED
  BY <1>2, <1>4, <1>5 DEF Begins

LEMMA DeleteBlockBegins ==
  ASSUME Typed, NEW w \in Worker, NEW b \in Block, DeleteBlock(w, b)
  PROVE  Begins(w)
<1>1. PICK c : c = [call |-> "removeBlock", block |-> b] /\ c \in Call
  BY CallTypes
<1>2. PICK p : p = <<c>>
  OBVIOUS
<1>3. p \in Seq(Call) /\ p # <<>> /\ Len(p) = 1 /\ p[1] = c
  BY <1>1, <1>2, OneCall
<1>4. Begin(w, {b}) /\ Run(w, {b}, p)
  BY <1>1, <1>2 DEF DeleteBlock
<1>5. CallGood(c, {b})
  BY <1>1 DEF CallGood
<1>6. \A a : NetCount(c, a) = 0 /\ NetLength(c, a) = 0
  BY <1>1 DEF NetCount, NetLength
<1>7. Settles(p, {b})
  <2>1. TypeOK
    BY DEF Typed
  <2>2. QED
    BY <1>3, <1>5, <1>6, <2>1, OneSettles, Standing DEF Even
<1>8. QED
  BY <1>3, <1>4, <1>7 DEF Begins

LEMMA OperationBegins ==
  ASSUME Typed, NEW w \in Worker, Operate(w)
  PROVE  Begins(w)
<1>1. ASSUME NEW b \in Block, NEW order \in Orders,
             \/ CreateLesson(w, b, order) \/ CreateHomework(w, b, order)
             \/ \E l \in Lesson, filed \in BOOLEAN : UpdateLesson(w, l, b, order, filed)
             \/ \E h \in Homework, filed \in BOOLEAN : UpdateHomework(w, h, b, order, filed)
             \/ UpdateBlock(w, b, order)
      PROVE  Begins(w)
  BY <1>1, CreateBegins, UpdateLessonBegins, UpdateHomeworkBegins, UpdateBlockBegins
     DEF CreateLesson, CreateHomework
<1>2. ASSUME NEW order \in Orders, NEW filed \in BOOLEAN,
             \/ CreateBlock(w, order) \/ CreateGrammar(w, order) \/ CreateAlphabet(w, order)
             \/ UpdateGrammar(w, order, filed) \/ UpdateAlphabet(w, order, filed)
      PROVE  Begins(w)
  BY <1>2, CreateBlockBegins, CreatePageBegins, UpdatePageBegins
     DEF CreateGrammar, CreateAlphabet, UpdateGrammar, UpdateAlphabet
<1>3. CASE DeleteGrammar(w) \/ DeleteAlphabet(w)
  BY <1>3, DeletePageBegins DEF DeleteGrammar, DeleteAlphabet
<1>4. ASSUME NEW b \in Block, DeleteBlock(w, b) \/ Recalculate(w, b)
      PROVE  Begins(w)
  BY <1>4, DeleteBlockBegins, RecalculateBegins
<1>5. ASSUME NEW l \in Lesson, DeleteLesson(w, l) PROVE Begins(w)
  BY <1>5, DeleteLessonBegins
<1>6. ASSUME NEW h \in Homework, DeleteHomework(w, h) PROVE Begins(w)
  BY <1>6, DeleteHomeworkBegins
<1>7. QED
  BY <1>1, <1>2, <1>3, <1>4, <1>5, <1>6 DEF Operate

-----------------------------------------------------------------------------
(***************************************************************************)
(* Every step keeps the types.                                             *)
(***************************************************************************)
LEMMA BeginsTyped ==
  ASSUME Typed, NEW w \in Worker, Begins(w)
  PROVE  Typed'
<1>1. PICK on : /\ Begin(w, on)
                /\ \/ \E form \in Form : Upload(w, on, form)
                   \/ \E p \in Seq(Call) : p # <<>> /\ Run(w, on, p)
  BY DEF Begins
<1>2. TypeOK'
  <2>1. requests' \in 0..MaxRequests
    BY <1>1, ContentAssumption DEF Begin, Typed, TypeOK
  <2>2. QED
    BY <1>1, <2>1 DEF Begin, Tables, Typed, TypeOK
<1>3. req' = [v \in Worker |-> req'[v]] /\ \A v \in Worker : IsRequest(req'[v])
  BY <1>1, UploadTyped, RunTyped
<1>4. QED
  BY <1>2, <1>3 DEF Typed, IsRequest

LEMMA WriteTyped ==
  ASSUME Typed, NEW w \in Worker, WriteFile(w)
  PROVE  /\ Typed'
         /\ req'[w] = [step |-> "send", on |-> req[w].on, form |-> req[w].form]
         /\ \A v \in Worker : v # w => req'[v] = req[v]
<1>1. /\ req[w] = [step |-> "write", on |-> req[w].on, form |-> req[w].form]
      /\ req[w].form \in Form
  BY UploadRequest DEF WriteFile, Typed
<1>2. PICK r : r = [req[w] EXCEPT !.step = "send"]
  OBVIOUS
<1>3. r = [step |-> "send", on |-> req[w].on, form |-> req[w].form]
  BY <1>1, <1>2
<1>4. IsRequest(r)
  BY <1>1, <1>3 DEF IsRequest
<1>5. req' = [req EXCEPT ![w] = r]
  BY <1>2 DEF WriteFile, Typed
<1>6. TypeOK'
  BY DEF WriteFile, Tables, Typed, TypeOK
<1>7. QED
  BY <1>3, <1>4, <1>5, <1>6, Replaced DEF Typed, IsRequest

LEMMA UploadedTyped ==
  ASSUME Typed, NEW w \in Worker, NEW duration \in Durations, Uploaded(w, duration)
  PROVE  LET form == req[w].form
             given == [block |-> form.new.block, order |-> form.new.order,
                       duration |-> duration, own |-> temp = w]
             p == PlanOf(form, given)
         IN /\ Typed'
            /\ form \in Form /\ given \in ItemRow /\ p \in Seq(Call) /\ p # <<>>
            /\ req'[w] = [step |-> "run", on |-> req[w].on, plan |-> p]
            /\ \A v \in Worker : v # w => req'[v] = req[v]
<1> DEFINE form == req[w].form
           given == [block |-> form.new.block, order |-> form.new.order,
                     duration |-> duration, own |-> temp = w]
           p == PlanOf(form, given)
<1>1. form \in Form
  BY UploadRequest DEF Uploaded, Typed
<1>2. form.new.block \in Block \cup {NoBlock} /\ form.new.order \in Orders
  <2> HIDE DEF form
  <2> QED BY <1>1 DEF Form, Place, Placed, ItemRow
<1>3. given \in ItemRow
  <2>1. (temp = w) \in BOOLEAN
    OBVIOUS
  <2> HIDE DEF form
  <2> QED BY <1>2, <2>1 DEF ItemRow
<1>4. p \in Seq(Call) /\ p # <<>>
  <2>1. given.block = form.new.block /\ TypeOK
    BY DEF Typed
  <2> HIDE DEF form, given
  <2> QED BY <1>1, <1>3, <2>1, PlanTyped
<1>5. Run(w, req[w].on, p)
  BY DEF Uploaded
<1>6. /\ req'[w] = [step |-> "run", on |-> req[w].on, plan |-> p]
      /\ \A v \in Worker : v # w => req'[v] = req[v]
      /\ req' = [v \in Worker |-> req'[v]] /\ \A v \in Worker : IsRequest(req'[v])
  <2> HIDE DEF p
  <2> QED BY <1>4, <1>5, RunTyped
<1>7. TypeOK'
  BY DEF Uploaded, Tables, Typed, TypeOK
<1>8. Typed'
  <2> HIDE DEF p
  <2> QED BY <1>6, <1>7 DEF Typed, IsRequest
<1>9. QED
  BY <1>1, <1>3, <1>4, <1>6, <1>8

\* An operation is given up.
LEMMA StopTyped ==
  ASSUME Typed, NEW w \in Worker, req' = [req EXCEPT ![w] = Idle]
  PROVE  /\ req'[w] = Idle /\ \A v \in Worker : v # w => req'[v] = req[v]
         /\ req' = [v \in Worker |-> req'[v]] /\ \A v \in Worker : IsRequest(req'[v])
  BY IdleRequest, Replaced

LEMMA UploadFailsTyped ==
  ASSUME Typed, NEW w \in Worker, UploadFails(w)
  PROVE  /\ Typed' /\ req'[w] = Idle /\ \A v \in Worker : v # w => req'[v] = req[v]
<1>1. TypeOK'
  <2>1. aborts' \in 0..MaxAborts
    BY ContentAssumption DEF UploadFails, Typed, TypeOK
  <2>2. QED
    BY <2>1 DEF UploadFails, Tables, Typed, TypeOK
<1>2. QED
  BY <1>1, StopTyped DEF UploadFails, Typed, IsRequest

LEMMA AbortTyped ==
  ASSUME Typed, NEW w \in Worker, AbortOperation(w)
  PROVE  /\ Typed' /\ req'[w] = Idle /\ \A v \in Worker : v # w => req'[v] = req[v]
<1>1. TypeOK'
  <2>1. aborts' \in 0..MaxAborts
    BY ContentAssumption DEF AbortOperation, Typed, TypeOK
  <2>2. QED
    BY <2>1 DEF AbortOperation, Tables, Typed, TypeOK
<1>2. QED
  BY <1>1, StopTyped DEF AbortOperation, Typed, IsRequest

LEMMA RefusedTyped ==
  ASSUME Typed, NEW w \in Worker, Refused(w)
  PROVE  /\ Typed' /\ req'[w] = Idle /\ \A v \in Worker : v # w => req'[v] = req[v]
<1>1. req[w].step = "run"
  BY DEF Refused, Calls
<1>2. TypeOK'
  BY DEF Refused, Proceed, Tables, Typed, TypeOK
<1>3. Proceed(w, <<>>) /\ <<>> \in Seq(Call)
  BY DEF Refused
<1>4. QED
  BY <1>1, <1>2, <1>3, ProceedTyped DEF Typed, IsRequest

\* What is left of the plan after a call.
Rested(w) ==
  /\ req'[w] = IF Tail(req[w].plan) = <<>> THEN Idle
               ELSE [step |-> "run", on |-> req[w].on, plan |-> Tail(req[w].plan)]
  /\ \A v \in Worker : v # w => req'[v] = req[v]

LEMMA FindTyped ==
  ASSUME Typed, NEW w \in Worker, FindBlock(w)
  PROVE  LET call == Now(w)
             save == SaveBlockOf(Changed(Loaded(call.block), call.count, call.duration))
         IN /\ Typed'
            /\ IF call.block \in There
               THEN /\ req'[w] = [step |-> "run", on |-> req[w].on,
                                  plan |-> <<save>> \o Tail(req[w].plan)]
                    /\ \A v \in Worker : v # w => req'[v] = req[v]
                    /\ save \in Call
               ELSE Rested(w)
<1> DEFINE call == Now(w)
           save == SaveBlockOf(Changed(Loaded(call.block), call.count, call.duration))
           rest == Tail(req[w].plan)
<1>1. /\ req[w].step = "run" /\ call.call = "findBlock"
      /\ Proceed(w, IF call.block \in There THEN <<save>> \o rest ELSE rest)
      /\ UNCHANGED <<Tables, drifted, temp, requests, aborts>>
  BY DEF FindBlock, Calls, Proceed
<1>2. /\ call \in Call /\ rest \in Seq(Call) /\ call.count \in Int /\ call.duration \in Int
      /\ TypeOK
  <2>1. call \in Call /\ rest \in Seq(Call)
    BY <1>1, FirstCall
  <2> HIDE DEF call, rest
  <2> QED BY <1>1, <2>1, CallFields DEF Typed
<1>3. TypeOK'
  BY <1>1 DEF Tables, Typed, TypeOK
<1>4. CASE call.block \in There
  <2>1. save \in Call
    <3>1. Loaded(call.block) \in Copy
      <4> HIDE DEF call
      <4> QED BY <1>2, <1>4, Standing
    <3> HIDE DEF call
    <3> QED BY <1>2, <3>1, CopyTypes, CallTypes
  <2>2. PICK p : p = <<save>> \o rest
    OBVIOUS
  <2>3. p \in Seq(Call) /\ p # <<>>
    <3> HIDE DEF save, rest
    <3> QED BY <1>2, <2>1, <2>2, Before
  <2>4. Proceed(w, p)
    BY <1>1, <1>4, <2>2
  <2> HIDE DEF save, rest, call
  <2>5. /\ req'[w] = [step |-> "run", on |-> req[w].on, plan |-> p]
        /\ \A v \in Worker : v # w => req'[v] = req[v]
        /\ req' = [v \in Worker |-> req'[v]] /\ \A v \in Worker : IsRequest(req'[v])
    BY <1>1, <2>3, <2>4, ProceedTyped
  <2>6. Typed'
    BY <1>3, <2>5 DEF Typed, IsRequest
  <2>7. QED
    BY <1>4, <2>1, <2>2, <2>5, <2>6 DEF save, rest, call
<1>5. CASE call.block \notin There
  <2>1. Proceed(w, rest)
    BY <1>1, <1>5
  <2>2. /\ Rested(w)
        /\ req' = [v \in Worker |-> req'[v]] /\ \A v \in Worker : IsRequest(req'[v])
    BY <1>1, <1>2, <2>1, ProceedTyped DEF Rested
  <2> HIDE DEF save, rest, call
  <2>3. Typed'
    BY <1>3, <2>2 DEF Typed, IsRequest
  <2>4. QED
    BY <1>5, <2>2, <2>3 DEF call
<1>6. QED
  BY <1>4, <1>5

\* The other calls
Calling(w) == SaveBlock(w) \/ RemoveBlock(w) \/ SaveItem(w) \/ Remove(w)
              \/ (\E b \in Block : InsertBlock(w, b)) \/ (\E i \in Item : Insert(w, i))

LEMMA CallingRests ==
  ASSUME Typed, NEW w \in Worker, Calling(w)
  PROVE  /\ req[w].step = "run" /\ Now(w) \in Call /\ Rested(w)
         /\ TypeOK' => Typed'
<1>1. req[w].step = "run" /\ Done(w)
  BY DEF Calling, SaveBlock, RemoveBlock, SaveItem, Remove, InsertBlock, Insert, Calls
<1>2. Now(w) \in Call
  BY <1>1, FirstCall
<1>3. Rested(w) /\ req' = [v \in Worker |-> req'[v]] /\ \A v \in Worker : IsRequest(req'[v])
  BY <1>1, DoneTyped DEF Rested
<1>4. QED
  BY <1>1, <1>2, <1>3 DEF Typed, IsRequest

LEMMA CallingTyped ==
  ASSUME Typed, NEW w \in Worker, Calling(w)
  PROVE  Typed'
<1>1. req[w].step = "run" /\ Now(w) \in Call /\ (TypeOK' => Typed')
  BY CallingRests
<1>2. TypeOK
  BY DEF Typed
<1>3. UNCHANGED <<temp, requests, aborts>>
  BY DEF Calling, SaveBlock, RemoveBlock, SaveItem, Remove, InsertBlock, Insert, Done, Proceed
<1>4. CASE SaveBlock(w)
  <2>1. Now(w).copy.id \in Block /\ Now(w).copy.row \in BlockRow
    BY <1>1, <1>4, CallFields, CopyRow DEF SaveBlock, Calls
  <2>2. block' \in [Block -> BlockRow \cup {NoRow}]
    BY <1>2, <1>4, <2>1 DEF SaveBlock, TypeOK
  <2>3. item' \in [Item -> ItemRow \cup {NoRow}]
    <3>1. PICK copy : copy = Now(w).copy /\ copy.id \in Block
      BY <2>1
    <3>2. item' = [i \in Item |->
                     IF item[i] = NoRow THEN NoRow
                     ELSE IF i \in copy.items THEN [item[i] EXCEPT !.block = copy.id]
                     ELSE IF item[i].block = copy.id THEN [item[i] EXCEPT !.block = NoBlock]
                     ELSE item[i]]
      BY <1>4, <3>1 DEF SaveBlock
    <3>3. \A i \in Item : item[i] # NoRow =>
            /\ [item[i] EXCEPT !.block = copy.id] \in ItemRow
            /\ [item[i] EXCEPT !.block = NoBlock] \in ItemRow
      BY <1>2, <3>1 DEF TypeOK, ItemRow
    <3>4. QED
      BY <1>2, <3>2, <3>3 DEF TypeOK
  <2>4. QED
    BY <1>1, <1>2, <1>3, <1>4, <2>2, <2>3 DEF SaveBlock, TypeOK
<1>5. CASE RemoveBlock(w)
  <2>1. block' \in [Block -> BlockRow \cup {NoRow}]
    BY <1>2, <1>5 DEF RemoveBlock, TypeOK
  <2>2. item' \in [Item -> ItemRow \cup {NoRow}]
    <3>1. \A i \in Item : item[i] # NoRow => [item[i] EXCEPT !.block = NoBlock] \in ItemRow
      BY <1>2 DEF TypeOK, ItemRow
    <3>2. item' = [i \in Item |-> IF i \in ItemsOf(Now(w).block)
                                  THEN [item[i] EXCEPT !.block = NoBlock] ELSE item[i]]
      BY <1>5 DEF RemoveBlock
    <3>3. QED
      BY <1>2, <3>1, <3>2 DEF TypeOK, ItemsOf
  <2>3. QED
    BY <1>1, <1>2, <1>3, <1>5, <2>1, <2>2 DEF RemoveBlock, TypeOK
<1>6. CASE SaveItem(w)
  <2>1. Now(w).id \in Item /\ Now(w).row \in ItemRow
    BY <1>1, <1>6, CallFields DEF SaveItem, Calls
  <2>2. item' \in [Item -> ItemRow \cup {NoRow}]
    BY <1>2, <1>6, <2>1 DEF SaveItem, TypeOK
  <2>3. drifted' \subseteq Block
    BY <1>2, <1>6 DEF SaveItem, TypeOK
  <2>4. QED
    BY <1>1, <1>2, <1>3, <1>6, <2>2, <2>3 DEF SaveItem, TypeOK
<1>7. CASE Remove(w)
  <2>1. item' \in [Item -> ItemRow \cup {NoRow}]
    BY <1>2, <1>7 DEF Remove, TypeOK
  <2>2. QED
    BY <1>1, <1>2, <1>3, <1>7, <2>1 DEF Remove, TypeOK
<1>8. ASSUME NEW b \in Block, InsertBlock(w, b) PROVE Typed'
  <2>1. Now(w).order \in Orders
    BY <1>1, <1>8, CallFields DEF InsertBlock, Calls
  <2>2. [order |-> Now(w).order, count |-> 0, duration |-> 0] \in BlockRow
    BY <2>1 DEF BlockRow
  <2>3. block' \in [Block -> BlockRow \cup {NoRow}]
    BY <1>2, <1>8, <2>2 DEF InsertBlock, TypeOK
  <2>4. QED
    BY <1>1, <1>2, <1>3, <1>8, <2>3 DEF InsertBlock, TypeOK
<1>9. ASSUME NEW i \in Item, Insert(w, i) PROVE Typed'
  <2>1. Now(w).row \in ItemRow
    BY <1>1, <1>9, CallFields DEF Insert, Calls
  <2>2. item' \in [Item -> ItemRow \cup {NoRow}]
    BY <1>2, <1>9, <2>1 DEF Insert, TypeOK
  <2>3. QED
    BY <1>1, <1>2, <1>3, <1>9, <2>2 DEF Insert, TypeOK
<1>10. QED
  BY <1>4, <1>5, <1>6, <1>7, <1>8, <1>9 DEF Calling

LEMMA StillTyped == Typed /\ UNCHANGED vars => Typed'
  BY DEF Typed, IsRequest, TypeOK, vars, Tables

\* The steps.
LEMMA Steps ==
  ASSUME Typed, Next
  PROVE  \E w \in Worker :
           \/ Begins(w) \/ WriteFile(w) \/ UploadFails(w) \/ AbortOperation(w) \/ Refused(w)
           \/ FindBlock(w) \/ Calling(w)
           \/ \E duration \in Durations : Uploaded(w, duration)
<1>1. PICK w \in Worker : Operate(w) \/ Handle(w) \/ UploadFails(w) \/ AbortOperation(w)
  BY DEF Next
<1>2. CASE Operate(w)
  BY <1>2, OperationBegins
<1>3. CASE Handle(w)
  BY <1>3 DEF Handle, Calling
<1>4. QED
  BY <1>1, <1>2, <1>3

LEMMA TypedStep == Typed /\ [Next]_vars => Typed'
<1> SUFFICES ASSUME Typed, [Next]_vars PROVE Typed'
  OBVIOUS
<1>1. CASE UNCHANGED vars
  BY <1>1, StillTyped
<1>2. CASE Next
  BY <1>2, Steps, BeginsTyped, WriteTyped, UploadFailsTyped, AbortTyped, RefusedTyped, FindTyped,
     CallingTyped, UploadedTyped
<1>3. QED
  BY <1>1, <1>2

\* Rows, plans and files are of their types, whatever operations overlap.
THEOREM TypeCorrect == Spec => []TypeOK
<1>1. Typed => TypeOK
  BY DEF Typed
<1>2. QED
  BY <1>1, TypedInit, TypedStep, PTL DEF Spec

-----------------------------------------------------------------------------
(***************************************************************************)
(* Operations on other blocks and items.  What an operation knows of its   *)
(* own, another one leaves as it is.                                       *)
(***************************************************************************)

\* A step changes only what is on `on'.
Confined(on) ==
  /\ \A b \in Block \ on : /\ block'[b] = block[b] /\ ItemsOf(b)' = ItemsOf(b)
                           /\ \A i \in ItemsOf(b) : item'[i] = item[i]
  /\ \A i \in Item \ Page : (item[i] # NoRow /\ i \notin on /\ item[i].block \notin on)
                               => item'[i] = item[i]

LEMMA SameTables ==
  ASSUME UNCHANGED <<block, item>>, NEW on
  PROVE  /\ Confined(on) /\ There' = There /\ \A b : ItemsOf(b)' = ItemsOf(b)
  BY DEF Confined, There, ItemsOf

LEMMA SameStats ==
  ASSUME TypeOK, TypeOK', NEW b \in Block, ItemsOf(b)' = ItemsOf(b),
         \A i \in ItemsOf(b) : item'[i] = item[i]
  PROVE  Counted(b)' = Counted(b) /\ Length(b)' = Length(b)
<1>1. Length(b) = Weight(ItemsOf(b), item)
  BY StatsWeighed DEF Weighed
<1>2. Length(b)' = Weight(ItemsOf(b)', item')
  BY StatsWeighedNext DEF Weighed
<1>3. PICK it : it = item'
  OBVIOUS
<1>4. Weight(ItemsOf(b), item) = Weight(ItemsOf(b), it)
  BY <1>3, WeightSame
<1>5. Counted(b)' = Counted(b)
  BY DEF Counted
<1>6. QED
  BY <1>1, <1>2, <1>3, <1>4, <1>5

LEMMA OtherBlock ==
  ASSUME TypeOK, TypeOK', NEW on, Confined(on), NEW b \in Block \ on
  PROVE  /\ block'[b] = block[b] /\ (b \in There' <=> b \in There)
         /\ ItemsOf(b)' = ItemsOf(b) /\ Loaded(b)' = Loaded(b)
         /\ Counted(b)' = Counted(b) /\ Length(b)' = Length(b)
<1>1. block'[b] = block[b] /\ ItemsOf(b)' = ItemsOf(b) /\ \A i \in ItemsOf(b) : item'[i] = item[i]
  BY DEF Confined
<1>2. Counted(b)' = Counted(b) /\ Length(b)' = Length(b)
  BY <1>1, SameStats
<1>3. QED
  BY <1>1, <1>2 DEF There, Loaded

LEMMA OtherHeld ==
  ASSUME NEW on, Confined(on), NEW other, other \cap on = {}, NEW i \in Item \ Page,
         Held(i, other)
  PROVE  item'[i] = item[i] /\ Held(i, other)'
  BY DEF Confined, Held

LEMMA OtherCall ==
  ASSUME Typed, Typed', NEW on, Confined(on), NEW other, other \cap on = {},
         NEW c \in Call, CallGood(c, other)
  PROVE  CallGood(c, other)'
<1>1. CASE c.call = "saveBlock"
  <2>1. /\ c.copy.id \in There /\ c.copy.id \in other
        /\ c.copy.items = ItemsOf(c.copy.id)
        /\ c.recount => /\ c.copy.row.count = Counted(c.copy.id)
                        /\ c.copy.row.duration = Length(c.copy.id)
    BY <1>1 DEF CallGood
  <2>2. /\ c.copy.id \in There' /\ ItemsOf(c.copy.id)' = ItemsOf(c.copy.id)
        /\ Counted(c.copy.id)' = Counted(c.copy.id) /\ Length(c.copy.id)' = Length(c.copy.id)
    <3>1. PICK b : b = c.copy.id
      OBVIOUS
    <3>2. b \in other /\ b \in There
      BY <2>1, <3>1, Zenon
    <3>3. b \in Block \ on
      BY <3>2 DEF There
    <3>4. TypeOK /\ TypeOK'
      BY DEF Typed
    <3>5. /\ b \in There' /\ ItemsOf(b)' = ItemsOf(b)
          /\ Counted(b)' = Counted(b) /\ Length(b)' = Length(b)
      BY <3>2, <3>3, <3>4, OtherBlock
    <3>6. QED
      BY <3>1, <3>5
  <2>3. QED
    BY <1>1, <2>1, <2>2 DEF CallGood
<1>2. CASE c.call \in {"remove", "saveItem"}
  <2>1. c.id \in Item
    BY <1>2, CallFields
  <2>2. c.id \in Page \/ Held(c.id, other)
    BY <1>2 DEF CallGood
  <2>3. c.id \in Page \/ Held(c.id, other)'
    BY <2>1, <2>2, OtherHeld
  <2>4. QED
    BY <1>2, <2>3 DEF CallGood
<1>3. CASE c.call \notin {"saveBlock", "remove", "saveItem"}
  BY <1>3 DEF CallGood
<1>4. QED
  BY <1>1, <1>2, <1>3

LEMMA OtherPlan ==
  ASSUME Typed, Typed', NEW on, Confined(on), NEW other, other \cap on = {},
         NEW p \in Seq(Call), PlanGood(p, other)
  PROVE  PlanGood(p, other)'
<1>1. \A k \in 1..Len(p) : p[k] \in Call
  OBVIOUS
<1>2. \A k \in 1..Len(p) : CallGood(p[k], other)
  BY DEF PlanGood
<1>3. \A k \in 1..Len(p) : CallGood(p[k], other)'
  BY <1>1, <1>2, OtherCall
<1>4. QED
  BY <1>3 DEF PlanGood, OnItem, Harmless

LEMMA OtherForm ==
  ASSUME Typed, Typed', NEW on, Confined(on), NEW other, other \cap on = {},
         NEW form \in Form, FormGood(form, other)
  PROVE  FormGood(form, other)'
<1>1. CASE form.do = "create"
  <2>1. form.copy.id \in Block /\ form.copy.id \notin on
    BY <1>1 DEF FormGood, There
  <2>2. form.copy.id \in There' /\ Loaded(form.copy.id)' = Loaded(form.copy.id)
    BY <1>1, <2>1, OtherBlock DEF Typed, FormGood
  <2>3. QED
    BY <1>1, <2>2 DEF FormGood
<1>2. CASE form.do \in {"lesson", "homework"}
  <2>1. form.id \in Item \ Page
    BY <1>2, Kinds DEF Form
  <2>2. item'[form.id] = item[form.id] /\ Held(form.id, other)'
    BY <1>2, <2>1, OtherHeld DEF FormGood
  <2>3. form.new.block \in Block /\ form.new.block \notin on
    BY <1>2 DEF FormGood, There
  <2>4. form.new.block \in There' /\ Loaded(form.new.block)' = Loaded(form.new.block)
    BY <1>2, <2>3, OtherBlock DEF Typed, FormGood
  <2>5. QED
    BY <1>2, <2>2, <2>4 DEF FormGood
<1>3. CASE form.do \notin {"create", "lesson", "homework"}
  BY <1>3 DEF FormGood
<1>4. QED
  BY <1>1, <1>2, <1>3

\* The request of another operation
LEMMA OtherRequest ==
  ASSUME Typed, Typed', Prepared, NEW on, Confined(on), NEW v \in Worker, req'[v] = req[v],
         req[v].on \cap on = {}
  PROVE  /\ Uploading(v)' => FormGood(req[v].form, req[v].on)'
         /\ PlanGood(Todo(v), req[v].on)'
<1>1. PICK other : other = req[v].on
  OBVIOUS
<1>2. PICK p : p = Todo(v)
  OBVIOUS
<1>3. Todo(v)' = p /\ req'[v].on = other /\ (Uploading(v)' <=> Uploading(v))
  BY <1>1, <1>2 DEF Todo, Uploading
<1>4. p \in Seq(Call)
  BY <1>2, FirstCall DEF Todo
<1>5. PlanGood(p, other)'
  BY <1>1, <1>2, <1>4, OtherPlan DEF Prepared
<1>6. PlanGood(Todo(v), req[v].on)'
  BY <1>3, <1>5
<1>7. ASSUME Uploading(v) PROVE FormGood(req[v].form, req[v].on)'
  <2>1. PICK form : form = req[v].form
    OBVIOUS
  <2>2. form \in Form
    BY <1>7, <2>1, UploadRequest DEF Uploading, Typed
  <2>3. FormGood(form, other)'
    BY <1>1, <1>7, <2>1, <2>2, OtherForm DEF Prepared
  <2>4. req'[v].form = form
    BY <2>1
  <2>5. QED
    BY <1>3, <2>3, <2>4
<1>8. QED
  BY <1>3, <1>6, <1>7

LEMMA PreparedKept ==
  ASSUME Typed, Typed', Prepared, Apart, NEW w \in Worker, Confined(req[w].on),
         \A v \in Worker : v # w => req'[v] = req[v],
         Uploading(w)' => FormGood(req[w].form, req[w].on)',
         PlanGood(Todo(w), req[w].on)'
  PROVE  Prepared'
<1>1. ASSUME NEW v \in Worker, v # w
      PROVE  /\ Uploading(v)' => FormGood(req[v].form, req[v].on)'
             /\ PlanGood(Todo(v), req[v].on)'
  <2>1. req'[v] = req[v] /\ req[v].on \cap req[w].on = {}
    BY <1>1 DEF Apart
  <2>2. QED
    BY <2>1, OtherRequest
<1>2. QED
  BY <1>1 DEF Prepared

LEMMA ApartKept ==
  ASSUME Typed, Apart, NEW w \in Worker,
         req'[w] = Idle \/ (req'[w].step = "run" /\ req'[w].on = req[w].on),
         \A v \in Worker : v # w => req'[v] = req[v],
         temp' = temp \/ Uploading(w)
  PROVE  Apart'
<1>1. req'[w].on \subseteq req[w].on /\ req'[w].step \notin {"write", "send"}
  BY IdleRequest
<1>2. \A u, v \in Worker : u # v => req'[u].on \cap req'[v].on = {}
  BY <1>1 DEF Apart
<1>3. \A v \in Worker : (req'[v].step = "send" \/ req'[v].step = "write") => v # w
  BY <1>1
<1>4. \A u, v \in Worker : Uploading(u)' /\ Uploading(v)' => u = v
  BY <1>3 DEF Apart, Uploading
<1>5. \A v \in Worker : req'[v].step = "send" => temp' = v
  BY <1>3 DEF Apart, Uploading
<1>6. QED
  BY <1>2, <1>4, <1>5 DEF Apart

\* Later calls of a plan
LEMMA Later ==
  ASSUME NEW on, NEW p \in Seq(Call), p # <<>>, PlanGood(p, on)
  PROVE  /\ CallGood(p[1], on) /\ Len(p) \in 1..3
         /\ \A k \in 2..Len(p) :
              /\ p[k] \in Call /\ CallGood(p[k], on) /\ ~Harmless(p[k])
              /\ p[k].call \in {"findBlock", "insert", "saveItem", "remove"}
              /\ OnItem(p[1]) => p[k].call = "findBlock"
              /\ p[1].call \notin {"insertBlock", "removeBlock"}
              /\ p[1].call = "saveBlock" => ~p[1].recount
<1>1. Len(p) \in 1..3 /\ 1 \in 1..Len(p)
  <2>1. PICK n : n = Len(p)
    OBVIOUS
  <2>2. n \in Nat \ {0} /\ n <= 3
    BY <2>1, Rest, Zenon DEF PlanGood
  <2>3. QED
    BY <2>1, <2>2
<1>2. CallGood(p[1], on)
  BY <1>1 DEF PlanGood
<1>3. ASSUME NEW k \in 2..Len(p)
      PROVE  /\ p[k] \in Call /\ CallGood(p[k], on) /\ ~Harmless(p[k])
             /\ p[k].call \in {"findBlock", "insert", "saveItem", "remove"}
             /\ OnItem(p[1]) => p[k].call = "findBlock"
             /\ p[1].call \notin {"insertBlock", "removeBlock"}
             /\ p[1].call = "saveBlock" => ~p[1].recount
  <2>1. k \in 1..Len(p) /\ k # 1 /\ Len(p) # 1
    <3>1. PICK n : n = Len(p)
      OBVIOUS
    <3>2. n \in 1..3 /\ k \in 2..n
      BY <1>1, <3>1, Zenon
    <3>3. QED
      BY <3>1, <3>2
  <2>2. p[k] \in Call
    BY <2>1
  <2>3. p[k].call \in {"saveBlock", "findBlock", "saveItem", "insert", "remove", "insertBlock",
                       "removeBlock"}
    BY <2>2, CallFields
  <2>4. /\ CallGood(p[k], on) /\ ~Harmless(p[k])
        /\ p[k].call \notin {"saveBlock", "insertBlock", "removeBlock"}
        /\ p[1].call \notin {"insertBlock", "removeBlock"}
        /\ p[1].call = "saveBlock" => ~p[1].recount
        /\ ~(OnItem(p[1]) /\ OnItem(p[k]))
    BY <1>1, <2>1 DEF PlanGood
  <2>5. QED
    BY <2>2, <2>3, <2>4 DEF OnItem
<1>4. QED
  BY <1>1, <1>2, <1>3

LEMMA TailGood ==
  ASSUME NEW on, NEW p \in Seq(Call), p # <<>>, PlanGood(p, on),
         \A k \in 2..Len(p) : CallGood(p[k], on)'
  PROVE  PlanGood(Tail(p), on)'
<1>1. PICK q : q = Tail(p)
  OBVIOUS
<1>2. /\ q \in Seq(Call) /\ Len(q) = Len(p) - 1 /\ Len(p) \in 1..3
      /\ \A k \in 1..Len(p) - 1 : q[k] = p[k + 1]
  BY <1>1, Rest, Later
<1>3. \A k \in 1..Len(q) : /\ k + 1 \in 2..Len(p) /\ q[k] = p[k + 1]
  BY <1>2
<1>4. \A k \in 1..Len(q) : /\ CallGood(q[k], on)' /\ ~Harmless(q[k])
                           /\ q[k].call \in {"findBlock", "insert", "saveItem", "remove"}
  BY <1>3, Later
<1>5. \A j, k \in 1..Len(q) : OnItem(q[j]) /\ OnItem(q[k]) => j = k
  <2>1. \A j, k \in 1..Len(p) : OnItem(p[j]) /\ OnItem(p[k]) => j = k
    BY DEF PlanGood
  <2>2. \A k \in 1..Len(q) : k \in Int /\ k + 1 \in 1..Len(p) /\ q[k] = p[k + 1]
    BY <1>2, <1>3
  <2>3. ASSUME NEW j \in 1..Len(q), NEW k \in 1..Len(q), OnItem(q[j]), OnItem(q[k])
        PROVE  j = k
    <3>1. j + 1 = k + 1
      BY <2>1, <2>2, <2>3
    <3>2. QED
      BY <2>2, <3>1
  <2>4. QED
    BY <2>3
<1>6. PlanGood(q, on)'
  BY <1>2, <1>4, <1>5 DEF PlanGood, OnItem, Harmless
<1>7. QED
  BY <1>1, <1>6

-----------------------------------------------------------------------------
(***************************************************************************)
(* Operations that keep apart: every item has its own video, and every     *)
(* lesson is in a block that is there.                                     *)
(***************************************************************************)
Inv == Typed /\ Apart /\ Shelved /\ Prepared

LEMMA TablesKept == Shelved /\ UNCHANGED Tables => Shelved'
  BY DEF Shelved, Tables, There

LEMMA IdleGood ==
  ASSUME NEW w \in Worker, req'[w] = Idle
  PROVE  /\ ~Uploading(w)' /\ Todo(w)' = <<>> /\ req'[w].on = {}
         /\ PlanGood(Todo(w), req[w].on)'
<1>1. ~Uploading(w)' /\ Todo(w)' = <<>> /\ req'[w].on = {}
  BY IdleRequest DEF Uploading, Todo
<1>2. PICK p : p = <<>>
  OBVIOUS
<1>3. Len(p) = 0
  BY <1>2
<1>4. \A on : PlanGood(p, on)'
  BY <1>3 DEF PlanGood
<1>5. PlanGood(Todo(w), req[w].on)'
  BY <1>1, <1>2, <1>4
<1>6. QED
  BY <1>1, <1>5

LEMMA RunGood ==
  ASSUME NEW w \in Worker, NEW on, NEW p,
         req'[w] = [step |-> "run", on |-> on, plan |-> p], PlanGood(p, on)'
  PROVE  /\ ~Uploading(w)' /\ Todo(w)' = p /\ req'[w].on = on
         /\ PlanGood(Todo(w), req[w].on)'
<1>1. ~Uploading(w)' /\ Todo(w)' = p /\ req'[w].on = on
  BY DEF Uploading, Todo
<1>2. QED
  BY <1>1

LEMMA BeginsInv ==
  ASSUME ~Overlap, Inv, NEW w \in Worker, Begins(w)
  PROVE  Inv'
<1>1. Typed /\ Apart /\ Shelved /\ Prepared /\ Typed'
  BY BeginsTyped DEF Inv
<1>2. PICK on :
        /\ Begin(w, on)
        /\ \/ \E form \in Form : Upload(w, on, form) /\ FormGood(form, on)
           \/ \E p \in Seq(Call) : p # <<>> /\ Run(w, on, p) /\ Settles(p, on)
  BY <1>1 DEF Begins
<1>3. /\ req[w] = Idle /\ \A v \in Worker : req[v].on \cap on = {}
      /\ UNCHANGED <<Tables, temp>> /\ UNCHANGED <<block, item>>
  BY <1>2 DEF Begin, Tables
<1>4. Shelved'
  BY <1>1, <1>3, TablesKept
<1>5. Confined({}) /\ req[w].on = {} /\ Confined(req[w].on) /\ on \cap {} = {}
  BY <1>3, SameTables, IdleRequest
<1>6. ASSUME NEW form \in Form, Upload(w, on, form), FormGood(form, on)
      PROVE  Apart' /\ Prepared'
  <2>1. /\ req'[w] = [step |-> "write", on |-> on, form |-> form]
        /\ \A v \in Worker : v # w => req'[v] = req[v]
    BY <1>1, <1>6, UploadTyped
  <2>2. FormGood(form, on)'
    BY <1>1, <1>5, <1>6, OtherForm
  <2>3. req'[w].form = form /\ req'[w].on = on /\ Todo(w)' = <<>>
    BY <2>1 DEF Todo
  <2>4. FormGood(req[w].form, req[w].on)'
    BY <2>2, <2>3
  <2>5. PlanGood(Todo(w), req[w].on)'
    <3>1. PICK p : p = <<>> /\ Len(p) = 0
      OBVIOUS
    <3>2. PlanGood(p, on)'
      BY <3>1 DEF PlanGood
    <3>3. QED
      BY <2>3, <3>1, <3>2
  <2>6. Prepared'
    BY <1>1, <1>5, <2>1, <2>4, <2>5, PreparedKept
  <2>7. \A v \in Worker : req[v].step \notin {"write", "send"}
    BY <1>6 DEF Upload
  <2>8. \A v \in Worker : req'[v].step \in {"write", "send"} => v = w /\ req'[v].step = "write"
    BY <2>1, <2>7
  <2>9. \A u, v \in Worker : u # v => req'[u].on \cap req'[v].on = {}
    BY <1>1, <1>3, <2>1, <2>3 DEF Apart
  <2>10. Apart'
    BY <2>8, <2>9 DEF Apart, Uploading
  <2>11. QED
    BY <2>6, <2>10
<1>7. ASSUME NEW p \in Seq(Call), p # <<>>, Run(w, on, p), Settles(p, on)
      PROVE  Apart' /\ Prepared'
  <2>1. /\ req'[w] = [step |-> "run", on |-> on, plan |-> p]
        /\ \A v \in Worker : v # w => req'[v] = req[v]
    BY <1>1, <1>7, RunTyped
  <2>2. PlanGood(p, on)'
    BY <1>1, <1>5, <1>7, OtherPlan DEF Settles
  <2>3. ~Uploading(w)' /\ req'[w].on = on /\ PlanGood(Todo(w), req[w].on)'
    BY <2>1, <2>2, RunGood
  <2>4. Prepared'
    BY <1>1, <1>5, <2>1, <2>3, PreparedKept
  <2>5. \A v \in Worker : req'[v].step \in {"write", "send"} => v # w
    BY <2>1
  <2>6. \A u, v \in Worker : u # v => req'[u].on \cap req'[v].on = {}
    BY <1>1, <1>3, <2>1, <2>3 DEF Apart
  <2>7. Apart'
    BY <1>1, <1>3, <2>1, <2>5, <2>6 DEF Apart, Uploading
  <2>8. QED
    BY <2>4, <2>7
<1>8. QED
  BY <1>1, <1>2, <1>4, <1>6, <1>7 DEF Inv

LEMMA WriteInv ==
  ASSUME Inv, NEW w \in Worker, WriteFile(w)
  PROVE  Inv'
<1>1. Typed /\ Apart /\ Shelved /\ Prepared /\ Typed'
  BY WriteTyped DEF Inv
<1>2. /\ req'[w] = [step |-> "send", on |-> req[w].on, form |-> req[w].form]
      /\ \A v \in Worker : v # w => req'[v] = req[v]
      /\ req[w].step = "write" /\ temp' = w /\ UNCHANGED <<block, item>> /\ UNCHANGED Tables
  BY <1>1, WriteTyped DEF WriteFile, Tables
<1>3. Shelved'
  BY <1>1, <1>2, TablesKept
<1>4. PICK on, form : on = req[w].on /\ form = req[w].form
  OBVIOUS
<1>5. Confined({}) /\ Confined(req[w].on) /\ on \cap {} = {}
  BY <1>2, SameTables
<1>6. form \in Form /\ FormGood(form, on)
  BY <1>1, <1>2, <1>4, UploadRequest DEF Typed, Prepared, Uploading
<1>7. FormGood(form, on)'
  BY <1>1, <1>5, <1>6, OtherForm
<1>8. req'[w].form = form /\ req'[w].on = on /\ Todo(w)' = <<>>
  BY <1>2, <1>4 DEF Todo
<1>9. FormGood(req[w].form, req[w].on)'
  BY <1>7, <1>8
<1>10. PlanGood(Todo(w), req[w].on)'
  <2>1. PICK p : p = <<>> /\ Len(p) = 0
    OBVIOUS
  <2>2. PlanGood(p, on)'
    BY <2>1 DEF PlanGood
  <2>3. QED
    BY <1>8, <2>1, <2>2
<1>11. Prepared'
  BY <1>1, <1>2, <1>5, <1>9, <1>10, PreparedKept
<1>12. \A v \in Worker : req[v].step \in {"write", "send"} => v = w
  BY <1>1, <1>2 DEF Apart, Uploading
<1>13. \A v \in Worker : req'[v].step \in {"write", "send"} => v = w
  BY <1>2, <1>12
<1>14. \A u, v \in Worker : u # v => req'[u].on \cap req'[v].on = {}
  BY <1>1, <1>2 DEF Apart
<1>15. Apart'
  BY <1>2, <1>13, <1>14 DEF Apart, Uploading
<1>16. QED
  BY <1>1, <1>3, <1>11, <1>15 DEF Inv

LEMMA UploadedInv ==
  ASSUME Inv, NEW w \in Worker, NEW duration \in Durations, Uploaded(w, duration)
  PROVE  /\ Inv'
         /\ \E p \in Seq(Call) :
              /\ req'[w] = [step |-> "run", on |-> req[w].on, plan |-> p]
              /\ Settles(p, req[w].on)
         /\ \A v \in Worker : v # w => req'[v] = req[v]
<1> DEFINE f == req[w].form
           g == [block |-> f.new.block, order |-> f.new.order,
                 duration |-> duration, own |-> temp = w]
<1>1. Typed /\ Apart /\ Shelved /\ Prepared
  BY DEF Inv
<1>2. PICK form, given, p :
        /\ form = f /\ given = g /\ p = PlanOf(form, given)
        /\ Typed' /\ form \in Form /\ given \in ItemRow /\ p \in Seq(Call)
        /\ req'[w] = [step |-> "run", on |-> req[w].on, plan |-> p]
        /\ \A v \in Worker : v # w => req'[v] = req[v]
  <2> DEFINE q == PlanOf(f, g)
  <2>1. /\ Typed' /\ f \in Form /\ g \in ItemRow /\ q \in Seq(Call)
        /\ req'[w] = [step |-> "run", on |-> req[w].on, plan |-> q]
        /\ \A v \in Worker : v # w => req'[v] = req[v]
    BY <1>1, UploadedTyped, Zenon
  <2>2. PlanOf(f, g) = q
    OBVIOUS
  <2> HIDE DEF f, g, q
  <2>3. QED
    BY <2>1, <2>2
<1>3. /\ req[w].step = "send" /\ UNCHANGED <<block, item>> /\ UNCHANGED Tables
  BY DEF Uploaded, Tables
<1>4. temp = w
  BY <1>1, <1>3 DEF Apart
<1>5. given.own /\ given.block = form.new.block
  BY <1>2, <1>4
<1>6. FormGood(form, req[w].on)
  BY <1>1, <1>2, <1>3 DEF Prepared, Uploading
<1> HIDE DEF f, g
<1>7. Settles(p, req[w].on)
  BY <1>1, <1>2, <1>5, <1>6, PlanSettles DEF Typed
<1>8. PICK on : on = req[w].on
  OBVIOUS
<1>9. Confined({}) /\ Confined(req[w].on) /\ on \cap {} = {}
  BY <1>3, SameTables
<1>10. PlanGood(p, on)'
  BY <1>1, <1>2, <1>7, <1>8, <1>9, OtherPlan DEF Settles
<1>11. ~Uploading(w)' /\ PlanGood(Todo(w), req[w].on)'
  BY <1>2, <1>8, <1>10, RunGood
<1>12. Prepared'
  BY <1>1, <1>2, <1>9, <1>11, PreparedKept
<1>13. Apart'
  BY <1>1, <1>2, <1>3, ApartKept DEF Uploading
<1>14. Shelved'
  BY <1>1, <1>3, TablesKept
<1>15. QED
  BY <1>1, <1>2, <1>7, <1>12, <1>13, <1>14 DEF Inv

\* An operation stops.
LEMMA StopInv ==
  ASSUME Inv, NEW w \in Worker, Typed', req'[w] = Idle,
         \A v \in Worker : v # w => req'[v] = req[v], UNCHANGED Tables, UNCHANGED temp
  PROVE  Inv'
<1>1. Typed /\ Apart /\ Shelved /\ Prepared
  BY DEF Inv
<1>2. UNCHANGED <<block, item>>
  BY DEF Tables
<1>3. Confined(req[w].on)
  BY <1>2, SameTables
<1>4. Prepared'
  BY <1>1, <1>3, IdleGood, PreparedKept
<1>5. Apart'
  BY <1>1, ApartKept
<1>6. QED
  BY <1>1, <1>4, <1>5, TablesKept DEF Inv

LEMMA StopsInv ==
  ASSUME Inv, NEW w \in Worker, UploadFails(w) \/ AbortOperation(w) \/ Refused(w)
  PROVE  Inv' /\ req'[w] = Idle /\ \A v \in Worker : v # w => req'[v] = req[v]
<1>1. Typed
  BY DEF Inv
<1>2. Typed' /\ req'[w] = Idle /\ \A v \in Worker : v # w => req'[v] = req[v]
  BY <1>1, UploadFailsTyped, AbortTyped, RefusedTyped
<1>3. UNCHANGED Tables /\ UNCHANGED temp
  BY DEF UploadFails, AbortOperation, Refused, Proceed, Tables
<1>4. QED
  BY <1>2, <1>3, StopInv

\* A call is done, and what it changed is in order.
LEMMA CallKept ==
  ASSUME Inv, Typed', NEW w \in Worker, req[w].step = "run", Rested(w), UNCHANGED temp,
         Confined(req[w].on), Shelved',
         NEW on, on = req[w].on, NEW p, p = req[w].plan,
         \A k \in 2..Len(p) : CallGood(p[k], on)'
  PROVE  Inv'
<1>1. Typed /\ Apart /\ Shelved /\ Prepared
  BY DEF Inv
<1>3. p \in Seq(Call) /\ p # <<>> /\ Tail(p) \in Seq(Call)
  BY <1>1, FirstCall
<1>4. PlanGood(p, on)
  BY <1>1 DEF Prepared, Todo
<1>6. PICK q : q = Tail(p)
  OBVIOUS
<1>7. PlanGood(q, on)'
  BY <1>3, <1>4, <1>6, TailGood
<1>8. CASE q = <<>>
  <2>1. req'[w] = Idle
    BY <1>6, <1>8 DEF Rested
  <2>2. Prepared'
    BY <1>1, <2>1, IdleGood, PreparedKept DEF Rested
  <2>3. Apart'
    BY <1>1, <2>1, ApartKept DEF Rested
  <2>4. QED
    BY <2>2, <2>3 DEF Inv
<1>9. CASE q # <<>>
  <2>1. req'[w] = [step |-> "run", on |-> on, plan |-> q]
    BY <1>6, <1>9 DEF Rested
  <2>2. ~Uploading(w)' /\ PlanGood(Todo(w), req[w].on)'
    BY <1>7, <2>1, RunGood
  <2>3. Prepared'
    BY <1>1, <2>2, PreparedKept DEF Rested
  <2>4. req'[w].step = "run" /\ req'[w].on = req[w].on
    BY <2>1
  <2>5. Apart'
    BY <1>1, <2>4, ApartKept DEF Rested
  <2>6. QED
    BY <1>1, <2>3, <2>5 DEF Inv
<1>10. QED
  BY <1>8, <1>9

\* A step changes one item, and that is on `on' before and after.
LEMMA ItemConfined ==
  ASSUME TypeOK, TypeOK', Shelved, block' = block, NEW i \in Item,
         \A j \in Item : j # i => item'[j] = item[j], NEW on,
         i \in Page \/ item[i] = NoRow \/ Held(i, on),
         item'[i] = NoRow \/ item'[i].block = NoBlock \/ item'[i].block \in on
  PROVE  Confined(on) /\ There' = There
<1>1. \A b \in Block : b # NoBlock
  BY ContentAssumption
<1>2. ASSUME NEW b \in Block \ on
      PROVE  ItemsOf(b)' = ItemsOf(b) /\ i \notin ItemsOf(b)
  <2>1. i \notin ItemsOf(b)
    BY <1>1 DEF ItemsOf, Shelved, Held
  <2>2. ~(item'[i] # NoRow /\ item'[i].block = b)
    BY <1>1
  <2>3. QED
    BY <2>1, <2>2 DEF ItemsOf
<1>3. \A j \in Item \ Page : (item[j] # NoRow /\ j \notin on /\ item[j].block \notin on)
         => item'[j] = item[j]
  BY DEF Held
<1>4. Confined(on)
  <2>1. \A b \in Block \ on : \A j \in ItemsOf(b) : item'[j] = item[j]
    BY <1>2 DEF ItemsOf
  <2>2. QED
    BY <1>2, <1>3, <2>1 DEF Confined
<1>5. QED
  BY <1>4 DEF There

LEMMA ItemShelved ==
  ASSUME Shelved, block' = block, used \subseteq used', NEW i \in Item,
         \A j \in Item : j # i => item'[j] = item[j],
         item'[i] # NoRow =>
           /\ item'[i].own /\ item'[i].block \in There \cup {NoBlock}
           /\ i \in Lesson => item'[i].block \in There
           /\ i \in Page => item'[i].block = NoBlock
           /\ i \notin Page => i \in used'
  PROVE  Shelved'
<1>1. There' = There
  BY DEF There
<1>2. \A j \in Item \ Page : item'[j] # NoRow => j \in used'
  BY DEF Shelved
<1>3. \A j \in Item : item'[j] # NoRow =>
        /\ item'[j].own /\ item'[j].block \in There' \cup {NoBlock}
        /\ j \in Lesson => item'[j].block \in There'
        /\ j \in Page => item'[j].block = NoBlock
  BY <1>1 DEF Shelved
<1>4. There' \subseteq used'
  BY <1>1 DEF Shelved
<1>5. QED
  BY <1>2, <1>3, <1>4 DEF Shelved

\* After a write of an item only blocks are to be read.
LEMMA ItemCall ==
  ASSUME Inv, Typed', NEW w \in Worker, req[w].step = "run", Rested(w), UNCHANGED temp,
         OnItem(Now(w)), Confined(req[w].on), Shelved'
  PROVE  Inv'
<1>1. PICK on, p : on = req[w].on /\ p = req[w].plan
  OBVIOUS
<1>2. p \in Seq(Call) /\ p # <<>> /\ Now(w) = p[1]
  BY <1>1, FirstCall DEF Inv
<1>3. PlanGood(p, on)
  BY <1>1 DEF Inv, Prepared, Todo
<1>4. \A k \in 2..Len(p) : CallGood(p[k], on)'
  <2> SUFFICES ASSUME NEW k \in 2..Len(p) PROVE CallGood(p[k], on)'
    OBVIOUS
  <2>1. p[k].call = "findBlock" /\ CallGood(p[k], on)
    BY <1>2, <1>3, Later
  <2>2. QED
    BY <2>1 DEF CallGood
<1>5. QED
  BY <1>1, <1>4, CallKept

\* What is known of the call that is done
LEMMA NowGood ==
  ASSUME Inv, NEW w \in Worker, Calling(w)
  PROVE  /\ Typed /\ Typed' /\ Shelved /\ TypeOK /\ TypeOK' /\ Rested(w) /\ UNCHANGED temp
         /\ req[w].step = "run" /\ Now(w) \in Call /\ CallGood(Now(w), req[w].on)
         /\ req[w].plan \in Seq(Call) /\ req[w].plan # <<>> /\ Now(w) = req[w].plan[1]
         /\ PlanGood(req[w].plan, req[w].on)
<1>1. Typed /\ Shelved /\ TypeOK
  BY DEF Inv, Typed
<1>2. Typed' /\ TypeOK' /\ Rested(w) /\ req[w].step = "run"
  BY <1>1, CallingTyped, CallingRests DEF Typed
<1>3. UNCHANGED temp
  BY DEF Calling, SaveBlock, RemoveBlock, SaveItem, Remove, InsertBlock, Insert, Done, Proceed
<1>4. PlanGood(req[w].plan, req[w].on)
  BY <1>2 DEF Inv, Prepared, Todo
<1>5. /\ Now(w) \in Call /\ Now(w) = req[w].plan[1]
      /\ req[w].plan \in Seq(Call) /\ req[w].plan # <<>>
  BY <1>1, <1>2, FirstCall
<1>6. QED
  BY <1>1, <1>2, <1>3, <1>4, <1>5, Later

LEMMA SaveItemInv ==
  ASSUME Inv, NEW w \in Worker, SaveItem(w)
  PROVE  Inv' /\ Confined(req[w].on)
<1>1. Calling(w)
  BY DEF Calling
<1>2. PICK i, row, on : i = Now(w).id /\ row = Now(w).row /\ on = req[w].on
  OBVIOUS
<1>3. /\ Now(w).call = "saveItem" /\ i \in Item /\ row \in ItemRow /\ row # NoRow
      /\ row.block \in There \cup {NoBlock} /\ item' = [item EXCEPT ![i] = row]
      /\ block' = block /\ used' = used
  BY <1>1, <1>2, NowGood, CallFields, RowTyped DEF SaveItem, Calls
<1>4. item'[i] = row /\ \A j \in Item : j # i => item'[j] = item[j]
  BY <1>1, <1>3, NowGood DEF TypeOK
<1>5. /\ row.own /\ (row.block = NoBlock \/ row.block \in on)
      /\ i \in Page <=> row.block = NoBlock
      /\ i \in Page \/ Held(i, on)
  BY <1>1, <1>2, <1>3, NowGood DEF CallGood
<1>6. Confined(on)
  BY <1>1, <1>3, <1>4, <1>5, NowGood, ItemConfined
<1>7. Shelved'
  <2>1. /\ i \in Lesson => row.block \in There
        /\ i \notin Page => i \in used
    BY <1>1, <1>3, <1>5, NowGood, Kinds DEF Held, Shelved
  <2>2. QED
    BY <1>1, <1>3, <1>4, <1>5, <2>1, NowGood, ItemShelved
<1>8. QED
  BY <1>1, <1>2, <1>3, <1>6, <1>7, NowGood, ItemCall DEF OnItem

LEMMA RemoveInv ==
  ASSUME Inv, NEW w \in Worker, Remove(w)
  PROVE  Inv' /\ Confined(req[w].on)
<1>1. Calling(w)
  BY DEF Calling
<1>2. PICK i, on : i = Now(w).id /\ on = req[w].on
  OBVIOUS
<1>3. /\ Now(w).call = "remove" /\ i \in Item /\ item' = [item EXCEPT ![i] = NoRow]
      /\ block' = block /\ used' = used
  BY <1>1, <1>2, NowGood, CallFields DEF Remove, Calls
<1>4. item'[i] = NoRow /\ \A j \in Item : j # i => item'[j] = item[j]
  BY <1>1, <1>3, NowGood DEF TypeOK
<1>5. i \in Page \/ Held(i, on)
  BY <1>1, <1>2, <1>3, NowGood DEF CallGood
<1>6. Confined(on)
  BY <1>1, <1>3, <1>4, <1>5, NowGood, ItemConfined
<1>7. Shelved'
  BY <1>1, <1>3, <1>4, NowGood, ItemShelved
<1>8. QED
  BY <1>1, <1>2, <1>3, <1>6, <1>7, NowGood, ItemCall DEF OnItem

LEMMA InsertInv ==
  ASSUME Inv, NEW w \in Worker, NEW i \in Item, Insert(w, i)
  PROVE  Inv' /\ Confined(req[w].on)
<1>1. Calling(w)
  BY DEF Calling
<1>2. PICK kind, row, on : kind = Now(w).kind /\ row = Now(w).row /\ on = req[w].on
  OBVIOUS
<1>3. /\ Now(w).call = "insert" /\ row \in ItemRow /\ row # NoRow
      /\ i \in kind /\ i \notin used /\ row.block \in There \cup {NoBlock}
      /\ item' = [item EXCEPT ![i] = row]
      /\ block' = block /\ used' = used \cup {i}
  BY <1>1, <1>2, NowGood, CallFields, RowTyped DEF Insert, Calls
<1>4. item'[i] = row /\ \A j \in Item : j # i => item'[j] = item[j]
  BY <1>1, <1>3, NowGood DEF TypeOK
<1>5. /\ row.own /\ (row.block = NoBlock \/ row.block \in on)
      /\ i \in Page <=> row.block = NoBlock
  BY <1>1, <1>2, <1>3, NowGood DEF CallGood
<1>6. i \in Page \/ item[i] = NoRow
  BY <1>1, <1>3, NowGood DEF Shelved
<1>7. Confined(on)
  BY <1>1, <1>3, <1>4, <1>5, <1>6, NowGood, ItemConfined
<1>8. Shelved'
  <2>1. i \in Lesson => row.block \in There
    BY <1>3, <1>5, Kinds
  <2>2. QED
    BY <1>1, <1>3, <1>4, <1>5, <2>1, NowGood, ItemShelved
<1>9. QED
  BY <1>1, <1>2, <1>3, <1>7, <1>8, NowGood, ItemCall DEF OnItem

LEMMA SaveBlockSame ==
  ASSUME Inv, NEW w \in Worker, SaveBlock(w)
  PROVE  LET copy == Now(w).copy
         IN /\ item' = item /\ block' = [block EXCEPT ![copy.id] = copy.row] /\ used' = used
            /\ copy \in Copy /\ copy.id \in There /\ copy.id \in req[w].on
            /\ copy.row \in BlockRow /\ There' = There /\ \A b : ItemsOf(b)' = ItemsOf(b)
            /\ Now(w).call = "saveBlock"
<1>1. Calling(w)
  BY DEF Calling
<1>2. PICK copy, on : copy = Now(w).copy /\ on = req[w].on
  OBVIOUS
<1>3. /\ Now(w).call = "saveBlock" /\ copy \in Copy /\ copy.id \in Block /\ copy.row \in BlockRow
      /\ copy.row # NoRow
  BY <1>1, <1>2, NowGood, CallFields, CopyRow, RowTyped DEF SaveBlock, Calls
<1>4. copy.id \in There /\ copy.id \in on /\ copy.items = ItemsOf(copy.id)
  BY <1>1, <1>2, <1>3, NowGood DEF CallGood
<1>5. /\ block' = [block EXCEPT ![copy.id] = copy.row] /\ used' = used
      /\ item' = [i \in Item |->
                    IF item[i] = NoRow THEN NoRow
                    ELSE IF i \in copy.items THEN [item[i] EXCEPT !.block = copy.id]
                    ELSE IF item[i].block = copy.id THEN [item[i] EXCEPT !.block = NoBlock]
                    ELSE item[i]]
  BY <1>2 DEF SaveBlock
<1>6. item' = item
  <2>1. ASSUME NEW i \in Item PROVE item'[i] = item[i]
    <3>1. CASE item[i] # NoRow /\ item[i].block = copy.id
      <4>1. i \in copy.items /\ item[i] \in ItemRow
        BY <1>1, <1>4, <3>1, NowGood DEF ItemsOf, TypeOK
      <4>2. [item[i] EXCEPT !.block = copy.id] = item[i]
        BY <3>1, <4>1 DEF ItemRow
      <4>3. QED
        BY <1>5, <3>1, <4>1, <4>2
    <3>2. CASE item[i] = NoRow \/ item[i].block # copy.id
      <4>1. i \notin copy.items
        BY <1>4, <3>2 DEF ItemsOf
      <4>2. QED
        BY <1>5, <3>2, <4>1
    <3>3. QED
      BY <3>1, <3>2
  <2>2. item = [i \in Item |-> item[i]] /\ item' = [i \in Item |-> item'[i]]
    BY <1>1, NowGood DEF TypeOK
  <2>3. QED
    BY <2>1, <2>2
<1>7. There' = There
  BY <1>1, <1>3, <1>4, <1>5, NowGood DEF There, TypeOK
<1>8. \A b : ItemsOf(b)' = ItemsOf(b)
  BY <1>6 DEF ItemsOf
<1>9. QED
  BY <1>2, <1>3, <1>4, <1>5, <1>6, <1>7, <1>8

LEMMA SaveBlockInv ==
  ASSUME Inv, NEW w \in Worker, SaveBlock(w)
  PROVE  Inv' /\ Confined(req[w].on)
<1>1. Calling(w)
  BY DEF Calling
<1>2. PICK copy, on, p : copy = Now(w).copy /\ on = req[w].on /\ p = req[w].plan
  OBVIOUS
<1>3. /\ item' = item /\ block' = [block EXCEPT ![copy.id] = copy.row] /\ used' = used
      /\ copy.id \in on /\ There' = There /\ \A b : ItemsOf(b)' = ItemsOf(b)
  BY <1>2, SaveBlockSame
<1>4. Confined(on)
  <2>1. \A b \in Block \ on : block'[b] = block[b]
    BY <1>1, <1>3, NowGood DEF TypeOK
  <2>2. QED
    BY <1>3, <2>1 DEF Confined
<1>5. Shelved'
  BY <1>1, <1>3, NowGood DEF Shelved
<1>6. \A k \in 2..Len(p) : CallGood(p[k], on)'
  <2> SUFFICES ASSUME NEW k \in 2..Len(p) PROVE CallGood(p[k], on)'
    OBVIOUS
  <2>1. p[k].call \in {"findBlock", "insert", "saveItem", "remove"} /\ CallGood(p[k], on)
    BY <1>1, <1>2, NowGood, Later
  <2>2. \A i : Held(i, on)' <=> Held(i, on)
    BY <1>3 DEF Held
  <2>3. QED
    BY <2>1, <2>2 DEF CallGood
<1>7. QED
  BY <1>1, <1>2, <1>4, <1>5, <1>6, NowGood, CallKept

\* The only call of its plan
LEMMA LoneCall ==
  ASSUME Inv, NEW w \in Worker, Calling(w), Now(w).call \in {"insertBlock", "removeBlock"},
         Confined(req[w].on), Shelved'
  PROVE  Inv' /\ Len(req[w].plan) = 1 /\ req'[w] = Idle
<1>1. PICK on, p : on = req[w].on /\ p = req[w].plan
  OBVIOUS
<1>2. Len(p) = 1
  <2>1. 1 \in 1..Len(p)
    BY <1>1, NowGood, Later
  <2>2. QED
    BY <1>1, <2>1, NowGood DEF PlanGood
<1>3. \A k \in 2..Len(p) : CallGood(p[k], on)'
  BY <1>2
<1>4. Inv'
  BY <1>1, <1>3, NowGood, CallKept
<1>5. Tail(p) = <<>>
  <2>1. p \in Seq(Call)
    BY <1>1, NowGood
  <2>2. p # <<>>
    BY <1>1, NowGood
  <2>3. PICK q : q = Tail(p)
    OBVIOUS
  <2>4. q \in Seq(Call) /\ Len(q) = 0
    BY <1>2, <2>1, <2>2, <2>3, Rest
  <2>5. QED
    BY <2>3, <2>4
<1>6. QED
  BY <1>1, <1>2, <1>4, <1>5, NowGood DEF Rested

\* A block that is removed takes nothing from the others.
LEMMA RemoveBlockConfined ==
  ASSUME Inv, NEW w \in Worker, RemoveBlock(w)
  PROVE  LET a == Now(w).block
         IN /\ Now(w).call = "removeBlock" /\ a \in Block /\ a # NoBlock /\ a \in req[w].on
            /\ ItemsOf(a) \cap Lesson = {} /\ There' = There \ {a} /\ used' = used
            /\ \A i \in ItemsOf(a) : /\ item[i].block = a /\ item'[i].block = NoBlock
                                     /\ item'[i] # NoRow /\ item'[i].own = item[i].own
            /\ \A i \in Item \ ItemsOf(a) : item'[i] = item[i]
            /\ Confined({a})
<1>1. Calling(w)
  BY DEF Calling
<1>2. PICK a, on : a = Now(w).block /\ on = req[w].on
  OBVIOUS
<1>3. /\ Now(w).call = "removeBlock" /\ a \in Block /\ a # NoBlock /\ a \in on
      /\ ItemsOf(a) \cap Lesson = {} /\ block' = [block EXCEPT ![a] = NoRow] /\ used' = used
      /\ item' = [i \in Item |-> IF i \in ItemsOf(a) THEN [item[i] EXCEPT !.block = NoBlock]
                                 ELSE item[i]]
  <2>1. Now(w).call = "removeBlock"
    BY DEF RemoveBlock, Calls
  <2>2. a \in Block /\ a \in on /\ a # NoBlock
    BY <1>1, <1>2, <2>1, NowGood, CallFields, ContentAssumption DEF CallGood
  <2>3. QED
    BY <1>2, <2>1, <2>2 DEF RemoveBlock
<1>4. \A i \in ItemsOf(a) : /\ i \in Item /\ item[i] # NoRow /\ item[i].block = a
                            /\ item'[i] # NoRow /\ item'[i].block = NoBlock
                            /\ item'[i].own = item[i].own
  <2> SUFFICES ASSUME NEW i \in ItemsOf(a)
               PROVE  /\ i \in Item /\ item[i] # NoRow /\ item[i].block = a
                      /\ item'[i] # NoRow /\ item'[i].block = NoBlock
                      /\ item'[i].own = item[i].own
    OBVIOUS
  <2>1. i \in Item /\ item[i] # NoRow /\ item[i].block = a
    BY DEF ItemsOf
  <2>2. item[i] \in ItemRow /\ item'[i] = [item[i] EXCEPT !.block = NoBlock]
    BY <1>1, <1>3, <2>1, NowGood DEF TypeOK
  <2>3. item'[i] \in ItemRow /\ item'[i].block = NoBlock /\ item'[i].own = item[i].own
    BY <2>2 DEF ItemRow
  <2>4. QED
    BY <2>1, <2>3, RowTyped
<1>5. \A i \in Item \ ItemsOf(a) : item'[i] = item[i]
  BY <1>3
<1>6. ASSUME NEW b \in Block \ {a}
      PROVE  /\ block'[b] = block[b] /\ ItemsOf(b)' = ItemsOf(b)
             /\ \A i \in ItemsOf(b) : item'[i] = item[i]
  <2>1. b # NoBlock
    BY ContentAssumption
  <2>2. \A i \in Item : (item'[i] # NoRow /\ item'[i].block = b)
                           <=> (item[i] # NoRow /\ item[i].block = b)
    BY <1>4, <1>5, <2>1
  <2>3. ItemsOf(b)' = ItemsOf(b)
    BY <2>2 DEF ItemsOf
  <2>4. \A i \in ItemsOf(b) : i \in Item \ ItemsOf(a)
    BY DEF ItemsOf
  <2>5. block'[b] = block[b]
    BY <1>1, <1>3, NowGood DEF TypeOK
  <2>6. QED
    BY <1>5, <2>3, <2>4, <2>5
<1>7. Confined({a})
  <2>1. \A i \in Item : (item[i] # NoRow /\ item[i].block # a) => item'[i] = item[i]
    BY <1>4, <1>5
  <2>2. QED
    BY <1>3, <1>6, <2>1 DEF Confined
<1>8. There' = There \ {a}
  BY <1>1, <1>3, <1>6, NowGood DEF There, TypeOK
<1>9. QED
  BY <1>2, <1>3, <1>4, <1>5, <1>7, <1>8

LEMMA RemoveBlockInv ==
  ASSUME Inv, NEW w \in Worker, RemoveBlock(w)
  PROVE  Inv' /\ Confined(req[w].on)
<1>1. Calling(w)
  BY DEF Calling
<1>2. PICK a, on : a = Now(w).block /\ on = req[w].on
  OBVIOUS
<1>3. /\ Now(w).call = "removeBlock" /\ a \in Block /\ a \in on
      /\ ItemsOf(a) \cap Lesson = {} /\ There' = There \ {a} /\ used' = used
      /\ \A i \in ItemsOf(a) : /\ item[i].block = a /\ item'[i].block = NoBlock
                               /\ item'[i] # NoRow /\ item'[i].own = item[i].own
      /\ \A i \in Item \ ItemsOf(a) : item'[i] = item[i]
      /\ Confined({a})
  BY <1>2, RemoveBlockConfined
<1>4. Confined(on)
  <2>1. \A b \in Block \ on : b \in Block \ {a}
    BY <1>3
  <2>2. \A i \in Item : item[i].block \notin on => item'[i] = item[i]
    BY <1>3
  <2>3. QED
    BY <1>3, <2>1, <2>2 DEF Confined
<1>5. Shelved'
  <2>1. \A i \in Item : item'[i] # NoRow => item[i] # NoRow
    BY <1>3 DEF ItemsOf
  <2>2. There' \subseteq used' /\ \A i \in Item \ Page : item'[i] # NoRow => i \in used'
    BY <1>1, <1>3, <2>1, NowGood DEF Shelved
  <2>3. ASSUME NEW i \in Item, item'[i] # NoRow
        PROVE  /\ item'[i].own /\ item'[i].block \in There' \cup {NoBlock}
               /\ i \in Lesson => item'[i].block \in There'
               /\ i \in Page => item'[i].block = NoBlock
    <3>1. /\ item[i] # NoRow /\ item[i].own /\ item[i].block \in There \cup {NoBlock}
          /\ i \in Lesson => item[i].block \in There
          /\ i \in Page => item[i].block = NoBlock
      BY <1>1, <2>1, <2>3, NowGood DEF Shelved
    <3>2. CASE i \in ItemsOf(a)
      BY <1>3, <3>1, <3>2
    <3>3. CASE i \notin ItemsOf(a)
      <4>1. item'[i] = item[i] /\ item[i].block # a
        BY <1>3, <3>1, <3>3 DEF ItemsOf
      <4>2. QED
        BY <1>3, <3>1, <4>1
    <3>4. QED
      BY <3>2, <3>3
  <2>4. QED
    BY <2>2, <2>3 DEF Shelved
<1>6. QED
  BY <1>1, <1>2, <1>3, <1>4, <1>5, LoneCall

LEMMA InsertBlockInv ==
  ASSUME Inv, NEW w \in Worker, NEW a \in Block, InsertBlock(w, a)
  PROVE  Inv' /\ Confined(req[w].on)
<1>1. Calling(w)
  BY DEF Calling
<1>2. PICK on : on = req[w].on
  OBVIOUS
<1>3. /\ Now(w).call = "insertBlock" /\ a \notin used /\ used' = used \cup {a} /\ item' = item
      /\ block' = [block EXCEPT ![a] = [order |-> Now(w).order, count |-> 0, duration |-> 0]]
  BY DEF InsertBlock, Calls
<1>4. Block \subseteq on
  BY <1>1, <1>2, <1>3, NowGood DEF CallGood
<1>5. Confined(on)
  BY <1>3, <1>4 DEF Confined
<1>6. There' = There \cup {a}
  <2>1. block'[a] # NoRow
    BY <1>1, <1>3, NowGood DEF TypeOK, NoRow
  <2>2. \A b \in Block \ {a} : block'[b] = block[b]
    BY <1>1, <1>3, NowGood DEF TypeOK
  <2>3. QED
    BY <2>1, <2>2 DEF There
<1>7. Shelved'
  BY <1>1, <1>3, <1>6, NowGood DEF Shelved
<1>8. QED
  BY <1>1, <1>2, <1>3, <1>5, <1>7, LoneCall

LEMMA FindInv ==
  ASSUME Inv, NEW w \in Worker, FindBlock(w)
  PROVE  Inv'
<1>1. Typed /\ Apart /\ Shelved /\ Prepared /\ TypeOK
  BY DEF Inv, Typed
<1>2. PICK on, p, c : on = req[w].on /\ p = req[w].plan /\ c = Now(w)
  OBVIOUS
<1>3. /\ req[w].step = "run" /\ c.call = "findBlock" /\ UNCHANGED temp /\ UNCHANGED Tables
      /\ UNCHANGED <<block, item>>
  BY <1>2 DEF FindBlock, Calls, Proceed, Tables
<1>4. p \in Seq(Call) /\ p # <<>> /\ c = p[1] /\ c \in Call /\ PlanGood(p, on)
  BY <1>1, <1>2, <1>3, FirstCall DEF Prepared, Todo
<1>5. Confined(on) /\ Confined({}) /\ on \cap {} = {} /\ Shelved'
  BY <1>1, <1>3, SameTables, TablesKept
<1>6. CASE c.block \notin There
  <2>1. Typed' /\ Rested(w)
    BY <1>1, <1>2, <1>6, FindTyped
  <2>2. \A k \in 2..Len(p) : CallGood(p[k], on)'
    BY <1>1, <1>4, <1>5, <2>1, Later, OtherCall
  <2>3. QED
    BY <1>2, <1>3, <1>5, <2>1, <2>2, CallKept
<1>7. CASE c.block \in There
  <2>1. PICK copy, save : /\ copy = Changed(Loaded(c.block), c.count, c.duration)
                          /\ save = SaveBlockOf(copy)
    OBVIOUS
  <2>2. PICK q : q = <<save>> \o Tail(p)
    OBVIOUS
  <2>3. /\ Typed' /\ save \in Call /\ req'[w] = [step |-> "run", on |-> on, plan |-> q]
        /\ \A v \in Worker : v # w => req'[v] = req[v]
    BY <1>1, <1>2, <1>7, <2>1, <2>2, FindTyped
  <2>4. CallGood(save, on)
    <3>1. c.block \in on /\ c.count \in Int /\ c.duration \in Int
      BY <1>3, <1>4, Later, CallFields DEF CallGood
    <3>2. copy.id = c.block /\ copy.items = ItemsOf(c.block)
      <4>1. PICK loaded : loaded = Loaded(c.block) /\ loaded \in Copy /\ loaded.id = c.block
                          /\ loaded.items = ItemsOf(c.block)
        BY <1>1, <1>7, Standing
      <4>2. copy = Changed(loaded, c.count, c.duration)
        BY <2>1, <4>1
      <4>3. QED
        BY <1>1, <3>1, <4>1, <4>2, CopyTypes
    <3>3. QED
      BY <1>7, <2>1, <3>1, <3>2, GoodSave
  <2>5. CallGood(save, on)'
    BY <1>1, <1>5, <2>3, <2>4, OtherCall
  <2>6. PlanGood(q, on)'
    <3>1. PICK r : r = Tail(p)
      OBVIOUS
    <3>2. /\ r \in Seq(Call) /\ Len(r) = Len(p) - 1 /\ Len(p) \in 1..3
          /\ \A k \in 1..Len(p) - 1 : r[k] = p[k + 1]
      BY <1>4, <3>1, Rest, Later
    <3>3. /\ q \in Seq(Call) /\ Len(q) = Len(p) /\ q[1] = save
          /\ \A k \in 1..Len(r) : q[k + 1] = r[k]
      BY <2>2, <2>3, <3>1, <3>2, Before
    <3>4. \A k \in 2..Len(q) : q[k] = p[k]
      <4> SUFFICES ASSUME NEW k \in 2..Len(q) PROVE q[k] = p[k]
        OBVIOUS
      <4>1. k - 1 \in 1..Len(r) /\ (k - 1) + 1 = k
        BY <3>2, <3>3
      <4>2. q[(k - 1) + 1] = r[k - 1] /\ r[k - 1] = p[(k - 1) + 1]
        BY <3>2, <3>3, <4>1
      <4>3. QED
        BY <4>1, <4>2
    <3>5. \A k \in 2..Len(q) :
            /\ CallGood(q[k], on)' /\ ~Harmless(q[k])
            /\ q[k].call \in {"findBlock", "insert", "saveItem", "remove"}
      BY <1>1, <1>4, <1>5, <2>3, <3>3, <3>4, Later, OtherCall
    <3>6. \A j, k \in 1..Len(p) : OnItem(p[j]) /\ OnItem(p[k]) => j = k
      BY <1>4 DEF PlanGood
    <3>7. save.call = "saveBlock" /\ ~OnItem(save) /\ ~Harmless(save) /\ ~save.recount
      BY <2>1, Kind
    <3>8. \A k \in 1..Len(q) : k = 1 \/ k \in 2..Len(q)
      BY <3>2, <3>3
    <3>9. \A j, k \in 1..Len(q) : OnItem(q[j]) /\ OnItem(q[k]) => j = k
      BY <3>3, <3>4, <3>6, <3>7, <3>8
    <3>10. QED
      BY <2>5, <3>2, <3>3, <3>5, <3>7, <3>8, <3>9 DEF PlanGood, OnItem, Harmless
  <2>7. ~Uploading(w)' /\ PlanGood(Todo(w), req[w].on)'
    BY <2>3, <2>6, RunGood
  <2>8. Prepared'
    BY <1>1, <1>2, <1>5, <2>3, <2>7, PreparedKept
  <2>9. Apart'
    BY <1>1, <1>2, <1>3, <2>3, ApartKept
  <2>10. QED
    BY <1>5, <2>3, <2>8, <2>9 DEF Inv
<1>8. QED
  BY <1>6, <1>7

LEMMA CallingInv ==
  ASSUME Inv, NEW w \in Worker, Calling(w)
  PROVE  Inv' /\ Confined(req[w].on)
  BY SaveItemInv, RemoveInv, InsertInv, SaveBlockInv, RemoveBlockInv, InsertBlockInv DEF Calling

LEMMA InvInit == Init => Inv
<1> SUFFICES ASSUME Init PROVE Inv
  OBVIOUS
<1>1. Typed
  BY TypedInit
<1>2. req = [w \in Worker |-> Idle] /\ \A w \in Worker : req[w] = Idle
  BY DEF Init
<1>3. Apart
  BY <1>2, IdleRequest DEF Apart, Uploading
<1>4. Prepared
  <2>1. \A w \in Worker : Todo(w) = <<>> /\ ~Uploading(w)
    BY <1>2, IdleRequest DEF Todo, Uploading
  <2>2. \A on : PlanGood(<<>>, on)
    BY DEF PlanGood
  <2>3. QED
    BY <2>1, <2>2 DEF Prepared
<1>5. Shelved
  <2>1. PICK order \in [Block -> Orders \cup {0}] :
          /\ \E row \in [Lesson \cup Homework ->
                           [block : {b \in Block : order[b] # 0}, order : Orders,
                            duration : FirstDurations, own : {TRUE}] \cup {NoRow}] :
               item = [i \in Item |-> IF i \in Page THEN NoRow ELSE row[i]]
          /\ block = [b \in Block |->
               IF order[b] = 0 THEN NoRow
               ELSE [order |-> order[b], count |-> Counted(b), duration |-> Length(b)]]
    BY DEF Init
  <2>2. PICK row \in [Lesson \cup Homework ->
                        [block : {b \in Block : order[b] # 0}, order : Orders,
                         duration : FirstDurations, own : {TRUE}] \cup {NoRow}] :
          item = [i \in Item |-> IF i \in Page THEN NoRow ELSE row[i]]
    BY <2>1
  <2>3. There = {b \in Block : order[b] # 0}
    BY <2>1 DEF There, NoRow
  <2>4. used = There \cup {i \in Item : item[i] # NoRow}
    BY DEF Init
  <2>5. ASSUME NEW i \in Item, item[i] # NoRow
        PROVE  i \notin Page /\ item[i].own /\ item[i].block \in There
    <3>1. i \notin Page /\ i \in Lesson \cup Homework /\ item[i] = row[i]
      BY <2>2, <2>5 DEF Item
    <3>2. row[i] \in [block : {b \in Block : order[b] # 0}, order : Orders,
                      duration : FirstDurations, own : {TRUE}]
      BY <2>5, <3>1
    <3>3. QED
      BY <2>3, <3>1, <3>2
  <2>6. QED
    BY <2>4, <2>5 DEF Shelved
<1>6. QED
  BY <1>1, <1>3, <1>4, <1>5 DEF Inv

LEMMA InvStep == ~Overlap /\ Inv /\ [Next]_vars => Inv'
<1> SUFFICES ASSUME ~Overlap, Inv, [Next]_vars PROVE Inv'
  OBVIOUS
<1>1. CASE UNCHANGED vars
  <2>1. Typed' /\ Shelved'
    <3>1. UNCHANGED Tables
      BY <1>1 DEF vars, Tables
    <3>2. QED
      BY <1>1, <3>1, StillTyped, TablesKept DEF Inv
  <2>2. UNCHANGED <<req, temp>> /\ UNCHANGED <<block, item>>
    BY <1>1 DEF vars, Tables
  <2>3. Apart'
    BY <2>2 DEF Inv, Apart, Uploading
  <2>4. Confined({}) /\ \A v \in Worker : req'[v] = req[v] /\ req[v].on \cap {} = {}
    BY <2>2, SameTables
  <2>5. Prepared'
    BY <2>1, <2>4, OtherRequest DEF Inv, Prepared
  <2>6. QED
    BY <2>1, <2>3, <2>5 DEF Inv
<1>2. CASE Next
  BY <1>2, Steps, BeginsInv, WriteInv, UploadedInv, StopsInv, FindInv, CallingInv DEF Inv
<1>3. QED
  BY <1>1, <1>2

\* Every lesson, homework and page shows the video its administrator gave, when no operation
\* begins on what another one works on and no upload during another one.
THEOREM OwnVideoCorrect == ASSUME ~Overlap PROVE Spec => []OwnVideo
<1>1. Inv => OwnVideo
  BY DEF Inv, Shelved, OwnVideo
<1>2. Inv /\ [Next]_vars => Inv'
  BY InvStep
<1>3. QED
  BY <1>1, <1>2, InvInit, PTL DEF Spec

\* No save of a block leaves a lesson without one, when no operation begins on what another one
\* works on.
THEOREM LessonKeepsBlockCorrect == ASSUME ~Overlap PROVE Spec => []LessonKeepsBlock
<1>1. Inv => LessonKeepsBlock
  BY Kinds DEF Inv, Shelved, LessonKeepsBlock
<1>2. Inv /\ [Next]_vars => Inv'
  BY InvStep
<1>3. QED
  BY <1>1, <1>2, InvInit, PTL DEF Spec

-----------------------------------------------------------------------------
(***************************************************************************)
(* Statistics.  The row of a block that an operation works on is off by    *)
(* what the calls still to come make up for.                               *)
(***************************************************************************)

\* One item more or less
LEMMA Without ==
  TypeOK => \A b \in Block : \A i \in Item :
    LET R == ItemsOf(b) \ {i}
    IN /\ Length(b) = Share(i, b) + Weight(R, item)
       /\ Counted(b) = One(i, b) + Cardinality(R \cap Lesson)
       /\ Weight(R, item) \in Nat /\ Cardinality(R \cap Lesson) \in Nat
       /\ Share(i, b) \in Nat /\ One(i, b) \in Nat
<1> SUFFICES ASSUME TypeOK, NEW b \in Block, NEW i \in Item
             PROVE  LET R == ItemsOf(b) \ {i}
                    IN /\ Length(b) = Share(i, b) + Weight(R, item)
                       /\ Counted(b) = One(i, b) + Cardinality(R \cap Lesson)
                       /\ Weight(R, item) \in Nat /\ Cardinality(R \cap Lesson) \in Nat
                       /\ Share(i, b) \in Nat /\ One(i, b) \in Nat
  OBVIOUS
<1>1. PICK S, R : S = ItemsOf(b) /\ R = S \ {i}
  OBVIOUS
<1>2. IsFiniteSet(S) /\ Length(b) = Weight(S, item) /\ Length(b) \in Nat
  BY <1>1, StatsWeighed DEF Weighed
<1>3. \A j \in S : item[j].duration \in Nat
  BY <1>1, RowTypes DEF ItemsOf, TypeOK, RowsTyped
<1>4. IsFiniteSet(R) /\ (\A j \in R : item[j].duration \in Nat)
  BY <1>1, <1>2, <1>3, FS_RemoveElement
<1>5. Weight(R, item) \in Nat
  <2>1. CASE R = {}
    BY <2>1, WeightEmpty
  <2>2. CASE R # {}
    BY <1>4, <2>2, WeightRemove
  <2>3. QED
    BY <2>1, <2>2
<1>6. IsFiniteSet(S \cap Lesson) /\ IsFiniteSet(R \cap Lesson)
  BY <1>2, <1>4, FS_Intersection
<1>7. Cardinality(S \cap Lesson) \in Nat /\ Cardinality(R \cap Lesson) \in Nat
  BY <1>6, FS_CardinalityType
<1>8. Counted(b) = Cardinality(S \cap Lesson)
  BY <1>1 DEF Counted
<1>9. CASE i \in S
  <2>1. Share(i, b) = item[i].duration /\ One(i, b) = IF i \in Lesson THEN 1 ELSE 0
    BY <1>1, <1>9 DEF ItemsOf, Share, One
  <2>2. Weight(S, item) = item[i].duration + Weight(R, item)
    BY <1>1, <1>2, <1>3, <1>9, WeightRemove
  <2>3. Cardinality(S \cap Lesson) = One(i, b) + Cardinality(R \cap Lesson)
    <3>1. CASE i \in Lesson
      <4>1. R \cap Lesson = (S \cap Lesson) \ {i} /\ i \in S \cap Lesson
        BY <1>1, <1>9, <3>1
      <4>2. Cardinality(R \cap Lesson) = Cardinality(S \cap Lesson) - 1
        BY <1>6, <4>1, FS_RemoveElement
      <4>3. One(i, b) = 1
        BY <2>1, <3>1
      <4>4. PICK n, m : n = Cardinality(S \cap Lesson) /\ m = Cardinality(R \cap Lesson)
        OBVIOUS
      <4>5. n \in Nat /\ m = n - 1
        BY <1>7, <4>2, <4>4
      <4>6. QED
        BY <4>3, <4>4, <4>5
    <3>2. CASE i \notin Lesson
      <4>1. R \cap Lesson = S \cap Lesson
        BY <1>1, <3>2
      <4>2. One(i, b) = 0
        BY <2>1, <3>2
      <4>3. Cardinality(S \cap Lesson) = Cardinality(R \cap Lesson)
        BY <4>1, Zenon
      <4>4. QED
        BY <1>7, <4>2, <4>3
    <3>3. QED
      BY <3>1, <3>2
  <2>4. QED
    BY <1>1, <1>2, <1>3, <1>5, <1>7, <1>8, <1>9, <2>1, <2>2, <2>3
<1>10. CASE i \notin S
  <2>1. Share(i, b) = 0 /\ One(i, b) = 0
    BY <1>1, <1>10 DEF ItemsOf, Share, One
  <2>2. R = S
    BY <1>1, <1>10
  <2>3. QED
    BY <1>1, <1>2, <1>5, <1>7, <1>8, <2>1, <2>2
<1>11. QED
  BY <1>9, <1>10

LEMMA WithoutNext ==
  TypeOK' => \A b \in Block : \A i \in Item :
    LET R == ItemsOf(b)' \ {i}
    IN /\ Length(b)' = Share(i, b)' + Weight(R, item')
       /\ Counted(b)' = One(i, b)' + Cardinality(R \cap Lesson)
       /\ Weight(R, item') \in Nat /\ Cardinality(R \cap Lesson) \in Nat
       /\ Share(i, b)' \in Nat /\ One(i, b)' \in Nat
<1>1. (TypeOK => \A b \in Block : \A i \in Item :
         LET R == ItemsOf(b) \ {i}
         IN /\ Length(b) = Share(i, b) + Weight(R, item)
            /\ Counted(b) = One(i, b) + Cardinality(R \cap Lesson)
            /\ Weight(R, item) \in Nat /\ Cardinality(R \cap Lesson) \in Nat
            /\ Share(i, b) \in Nat /\ One(i, b) \in Nat)'
  BY Without, PTL
<1>2. QED
  BY <1>1

LEMMA ChangeOne ==
  ASSUME TypeOK, TypeOK', NEW i \in Item, \A j \in Item : j # i => item'[j] = item[j],
         NEW b \in Block
  PROVE  /\ Length(b)' = Length(b) - Share(i, b) + Share(i, b)'
         /\ Counted(b)' = Counted(b) - One(i, b) + One(i, b)'
         /\ Length(b) \in Nat /\ Counted(b) \in Nat
         /\ Share(i, b) \in Nat /\ Share(i, b)' \in Nat
         /\ One(i, b) \in Nat /\ One(i, b)' \in Nat
<1>1. PICK R : R = ItemsOf(b) \ {i}
  OBVIOUS
<1>2. ItemsOf(b)' \ {i} = R
  BY <1>1 DEF ItemsOf
<1>3. PICK it : it = item'
  OBVIOUS
<1>4. \A j \in R : item[j].duration = it[j].duration
  BY <1>1, <1>3 DEF ItemsOf
<1>5. Weight(R, item) = Weight(R, it)
  BY <1>4, WeightSame
<1>6. /\ Length(b) = Share(i, b) + Weight(R, item)
      /\ Counted(b) = One(i, b) + Cardinality(R \cap Lesson)
      /\ Weight(R, item) \in Nat /\ Cardinality(R \cap Lesson) \in Nat
      /\ Share(i, b) \in Nat /\ One(i, b) \in Nat
  BY <1>1, Without
<1>7. /\ Length(b)' = Share(i, b)' + Weight(R, it)
      /\ Counted(b)' = One(i, b)' + Cardinality(R \cap Lesson)
      /\ Share(i, b)' \in Nat /\ One(i, b)' \in Nat
  BY <1>2, <1>3, WithoutNext
<1>8. QED
  BY <1>5, <1>6, <1>7

\* A page adds to no block.
LEMMA PagesShare ==
  TypeOK /\ Shelved => \A i \in Page : \A b \in Block : Share(i, b) = 0 /\ One(i, b) = 0
  BY PageShares

LEMMA PagesShareNext ==
  TypeOK' /\ Shelved' => \A i \in Page : \A b \in Block : Share(i, b)' = 0 /\ One(i, b)' = 0
<1>1. (TypeOK /\ Shelved
         => \A i \in Page : \A b \in Block : Share(i, b) = 0 /\ One(i, b) = 0)'
  BY PagesShare, PTL
<1>2. QED
  BY <1>1

LEMMA ShareTypes ==
  ASSUME TypeOK, NEW i \in Item, NEW b
  PROVE  Share(i, b) \in Nat /\ One(i, b) \in Nat
  BY RowTypes DEF Share, One, TypeOK, RowsTyped

\* The nets of a call are numbers,
LEMMA NetTypes ==
  ASSUME TypeOK, NEW c \in Call, NEW b \in There
  PROVE  NetLength(c, b) \in Int /\ NetCount(c, b) \in Int
<1>1. b \in Block /\ block[b].count \in Int /\ block[b].duration \in Int
  BY Standing
<1>2. CASE c.call = "saveItem"
  <2>1. c.id \in Item /\ c.row.duration \in Int
    BY <1>2, CallFields, RowTyped
  <2>2. Share(c.id, b) \in Int /\ One(c.id, b) \in Int
    BY <1>1, <2>1, ShareTypes
  <2>3. QED
    BY <1>2, <2>1, <2>2 DEF NetLength, NetCount
<1>3. CASE c.call = "remove"
  <2>1. c.id \in Item
    BY <1>3, CallFields
  <2>2. Share(c.id, b) \in Int /\ One(c.id, b) \in Int
    BY <1>1, <2>1, ShareTypes
  <2>3. QED
    BY <1>3, <2>2 DEF NetLength, NetCount
<1>4. CASE c.call = "insert"
  <2>1. c.row.duration \in Int /\ IsLesson(c.kind) \in Int
    BY <1>4, CallFields, RowTyped DEF IsLesson
  <2>2. QED
    BY <1>4, <2>1 DEF NetLength, NetCount
<1>5. CASE c.call = "findBlock"
  <2>1. c.count \in Int /\ c.duration \in Int
    BY <1>5, CallFields
  <2>2. QED
    BY <1>5, <2>1 DEF NetLength, NetCount
<1>6. CASE c.call = "saveBlock"
  <2>1. c.copy.row.count \in Int /\ c.copy.row.duration \in Int
    BY <1>6, CallFields, CopyRow
  <2>2. QED
    BY <1>1, <1>6, <2>1 DEF NetLength, NetCount
<1>7. CASE c.call \notin {"saveItem", "remove", "insert", "findBlock", "saveBlock"}
  BY <1>7 DEF NetLength, NetCount
<1>8. QED
  BY <1>2, <1>3, <1>4, <1>5, <1>6, <1>7

\* and those of another operation do not change.
LEMMA OtherNets ==
  ASSUME Inv, Inv', NEW on, Confined(on), NEW other, other \cap on = {},
         NEW c \in Call, CallGood(c, other), NEW b \in Block \ on
  PROVE  /\ NetLength(c, b)' = NetLength(c, b) /\ NetCount(c, b)' = NetCount(c, b)
         /\ Moves(c, b)' <=> Moves(c, b)
<1>1. TypeOK /\ TypeOK' /\ Shelved /\ Shelved'
  BY DEF Inv, Typed
<1>2. block'[b] = block[b]
  BY DEF Confined
<1>3. ASSUME c.call \in {"saveItem", "remove"}
      PROVE  Share(c.id, b)' = Share(c.id, b) /\ One(c.id, b)' = One(c.id, b)
  <2>1. c.id \in Item /\ (c.id \in Page \/ Held(c.id, other))
    BY <1>3, CallFields DEF CallGood
  <2>2. CASE c.id \in Page
    BY <1>1, <2>2, PagesShare, PagesShareNext
  <2>3. CASE c.id \notin Page
    <3>1. item'[c.id] = item[c.id]
      BY <2>1, <2>3, OtherHeld
    <3>2. QED
      BY <3>1 DEF Share, One
  <2>4. QED
    BY <2>2, <2>3
<1>4. NetLength(c, b)' = NetLength(c, b)
  BY <1>2, <1>3 DEF NetLength
<1>5. NetCount(c, b)' = NetCount(c, b)
  BY <1>2, <1>3 DEF NetCount
<1>6. Moves(c, b)' <=> Moves(c, b)
  <2>1. CASE c.call = "saveItem" /\ c.id \in Homework
    <3>1. c.id \in Item \ Page /\ Held(c.id, other)
      BY <2>1, CallFields, Kinds DEF CallGood
    <3>2. item'[c.id] = item[c.id]
      BY <3>1, OtherHeld
    <3>3. QED
      BY <3>2 DEF Moves
  <2>2. CASE ~(c.call = "saveItem" /\ c.id \in Homework)
    BY <2>2 DEF Moves
  <2>3. QED
    BY <2>1, <2>2
<1>7. QED
  BY <1>4, <1>5, <1>6

LEMMA OtherEven ==
  ASSUME Inv, Inv', NEW on, Confined(on), NEW b \in Block \ on
  PROVE  /\ Even(b)' <=> Even(b)
         /\ block'[b] = block[b] /\ Counted(b)' = Counted(b) /\ Length(b)' = Length(b)
         /\ b \in There' <=> b \in There
<1>1. TypeOK /\ TypeOK'
  BY DEF Inv, Typed
<1>2. QED
  BY <1>1, OtherBlock DEF Even

LEMMA OtherBalanced ==
  ASSUME Inv, Inv', NEW on, Confined(on), NEW other, other \cap on = {},
         NEW p \in Seq(Call), PlanGood(p, other), NEW b \in Block \ on
  PROVE  Balanced(b, p)' <=> Balanced(b, p)
<1>1. \A k \in 1..Len(p) : /\ NetLength(p[k], b)' = NetLength(p[k], b)
                           /\ NetCount(p[k], b)' = NetCount(p[k], b)
                           /\ Moves(p[k], b)' <=> Moves(p[k], b)
  <2> SUFFICES ASSUME NEW k \in 1..Len(p)
               PROVE  /\ NetLength(p[k], b)' = NetLength(p[k], b)
                      /\ NetCount(p[k], b)' = NetCount(p[k], b)
                      /\ Moves(p[k], b)' <=> Moves(p[k], b)
    OBVIOUS
  <2>1. PICK c \in Call : c = p[k]
    OBVIOUS
  <2>2. CallGood(c, other)
    BY <2>1 DEF PlanGood
  <2>3. QED
    BY <2>1, <2>2, OtherNets
<1>2. \A k \in {1, 2, 3} : /\ LengthAt(p, k, b)' = LengthAt(p, k, b)
                           /\ CountAt(p, k, b)' = CountAt(p, k, b)
  BY <1>1 DEF LengthAt, CountAt
<1>3. block'[b] = block[b] /\ Counted(b)' = Counted(b) /\ Length(b)' = Length(b)
  BY OtherEven
<1>4. (\E k \in 1..Len(p) : Moves(p[k], b))' <=> \E k \in 1..Len(p) : Moves(p[k], b)
  BY <1>1
<1>5. QED
  BY <1>2, <1>3, <1>4 DEF Balanced

\* A plan that is done
LEMMA NothingToDo ==
  ASSUME TypeOK, NEW b \in There
  PROVE  Balanced(b, <<>>) <=> Even(b)
<1>1. PICK p : p = <<>> /\ Len(p) = 0
  OBVIOUS
<1>2. /\ CountAt(p, 1, b) = 0 /\ CountAt(p, 2, b) = 0 /\ CountAt(p, 3, b) = 0
      /\ LengthAt(p, 1, b) = 0 /\ LengthAt(p, 2, b) = 0 /\ LengthAt(p, 3, b) = 0
  BY <1>1 DEF CountAt, LengthAt
<1>3. Balanced(b, p) <=> Even(b)
  BY <1>1, <1>2, Standing DEF Balanced, Even
<1>4. QED
  BY <1>1, <1>3

LEMMA NothingToDoNext ==
  TypeOK' => \A b \in There' : Balanced(b, <<>>)' <=> Even(b)'
<1>1. TypeOK => \A b \in There : Balanced(b, <<>>) <=> Even(b)
  BY NothingToDo
<1>2. (TypeOK => \A b \in There : Balanced(b, <<>>) <=> Even(b))'
  BY <1>1, PTL
<1>3. QED
  BY <1>2

\* The rows of the blocks that one operation works on
Settled(w, b) ==
  /\ Balanced(b, Todo(w))
  /\ (Todo(w) # <<>> /\ Harmless(Head(Todo(w)))) => Even(b)

LEMMA AccountedKept ==
  ASSUME Inv, Inv', Accounted, NEW w \in Worker, NEW on, on = req[w].on, Confined(on),
         \A v \in Worker : v # w => req'[v] = req[v],
         req'[w] = Idle \/ req'[w].on = on,
         \A b \in Block \ on : b \in drifted => b \in drifted',
         \A b \in There' : b \in on /\ b \notin drifted' => Settled(w, b)'
  PROVE  Accounted'
<1>1. SUFFICES ASSUME NEW b \in There', b \notin drifted'
      PROVE  /\ (\A v \in Worker : b \notin req'[v].on) => Even(b)'
             /\ \A v \in Worker : b \in req'[v].on => Settled(v, b)'
  BY DEF Accounted, Settled
<1>2. TypeOK /\ TypeOK' /\ Prepared /\ Apart /\ Typed /\ b \in Block
  BY DEF Inv, Typed, There
<1>3. CASE b \in on
  <2>1. Settled(w, b)'
    BY <1>1, <1>3
  <2>2. \A v \in Worker : b \in req'[v].on => v = w
    BY <1>2, <1>3 DEF Apart
  <2>3. ASSUME \A v \in Worker : b \notin req'[v].on PROVE Even(b)'
    <3>1. req'[w] = Idle
      BY <1>3, <2>3
    <3>2. Todo(w)' = <<>>
      BY <3>1, IdleGood
    <3>3. Balanced(b, <<>>)'
      BY <2>1, <3>2 DEF Settled
    <3>4. QED
      BY <1>1, <1>2, <3>3, NothingToDoNext
  <2>4. QED
    BY <2>1, <2>2, <2>3
<1>4. CASE b \notin on
  <2>1. b \in There /\ b \notin drifted /\ (Even(b)' <=> Even(b))
    BY <1>1, <1>2, <1>4, OtherEven
  <2>2. b \notin req'[w].on /\ \A v \in Worker : b \in req[v].on => b \in req'[v].on
    BY <1>4, IdleRequest
  <2>3. ASSUME \A v \in Worker : b \notin req'[v].on PROVE Even(b)'
    BY <2>1, <2>2, <2>3 DEF Accounted
  <2>4. ASSUME NEW v \in Worker, b \in req'[v].on PROVE Settled(v, b)'
    <3>1. v # w /\ req'[v] = req[v] /\ b \in req[v].on /\ req[v].on \cap on = {}
      BY <1>2, <2>2, <2>4 DEF Apart
    <3>2. PICK p, other : p = Todo(v) /\ other = req[v].on
      OBVIOUS
    <3>3. Todo(v)' = p
      BY <3>1, <3>2 DEF Todo
    <3>4. p \in Seq(Call) /\ PlanGood(p, other)
      BY <1>2, <3>2, FirstCall DEF Todo, Prepared
    <3>5. Balanced(b, p) /\ ((p # <<>> /\ Harmless(Head(p))) => Even(b))
      BY <2>1, <3>1, <3>2 DEF Accounted
    <3>6. Balanced(b, p)'
      BY <1>2, <1>4, <3>1, <3>2, <3>4, <3>5, OtherBalanced
    <3>7. QED
      BY <2>1, <3>3, <3>5, <3>6 DEF Settled, Harmless
  <2>5. QED
    BY <2>3, <2>4
<1>5. QED
  BY <1>3, <1>4

LEMMA StopsAccounted ==
  ASSUME Inv, Accounted, NEW w \in Worker, UploadFails(w) \/ AbortOperation(w) \/ Refused(w)
  PROVE  Accounted'
<1>1. PICK on : on = req[w].on
  OBVIOUS
<1>2. Inv' /\ req'[w] = Idle /\ \A v \in Worker : v # w => req'[v] = req[v]
  BY StopsInv
<1>3. UNCHANGED <<block, item>> /\ There' = There /\ Confined(on) /\ Confined({})
  <2>1. UNCHANGED <<block, item>>
    BY DEF UploadFails, AbortOperation, Refused, Tables
  <2>2. QED
    BY <2>1, SameTables
<1>4. TypeOK /\ TypeOK' /\ Typed /\ Prepared
  BY <1>2 DEF Inv, Typed
<1>5. drifted \subseteq drifted'
  BY DEF UploadFails, AbortOperation, Refused
<1>6. ASSUME NEW b \in There', b \in on, b \notin drifted' PROVE Settled(w, b)'
  <2>1. b \in Block /\ b \in There /\ b \notin drifted
    BY <1>3, <1>5, <1>6 DEF There
  <2>2. Balanced(b, Todo(w)) /\ ((Todo(w) # <<>> /\ Harmless(Head(Todo(w)))) => Even(b))
    BY <1>1, <1>6, <2>1 DEF Accounted
  <2>3. Even(b)
    <3>1. CASE UploadFails(w)
      <4>1. Todo(w) = <<>>
        BY <3>1 DEF UploadFails, Todo
      <4>2. QED
        BY <1>4, <2>1, <2>2, <4>1, NothingToDo
    <3>2. CASE AbortOperation(w)
      BY <1>1, <1>6, <2>1, <3>2 DEF AbortOperation
    <3>3. CASE Refused(w)
      <4>1. req[w].step = "run"
        BY <3>3 DEF Refused, Calls
      <4>2. Todo(w) # <<>> /\ Head(Todo(w)) = Now(w)
        BY <1>4, <4>1, FirstCall DEF Todo, Now
      <4>3. Calls(w, "removeBlock") \/ (Calls(w, "remove") /\ Now(w).id \in Lesson)
        BY <1>1, <1>6, <2>1, <3>3 DEF Refused
      <4>4. QED
        BY <2>2, <4>2, <4>3 DEF Harmless, Calls
    <3>4. QED
      BY <3>1, <3>2, <3>3
  <2>4. Even(b)'
    BY <1>2, <1>3, <2>1, <2>3, OtherEven
  <2>5. Todo(w)' = <<>>
    BY <1>2, IdleGood
  <2>6. Balanced(b, <<>>)'
    BY <1>4, <1>6, <2>4, NothingToDoNext
  <2>7. QED
    BY <2>4, <2>5, <2>6 DEF Settled
<1>7. QED
  BY <1>1, <1>2, <1>3, <1>5, <1>6, AccountedKept

LEMMA UploadedAccounted ==
  ASSUME Inv, Accounted, NEW w \in Worker, NEW duration \in Durations, Uploaded(w, duration)
  PROVE  Accounted'
<1>1. PICK on : on = req[w].on
  OBVIOUS
<1>2. /\ Inv' /\ \A v \in Worker : v # w => req'[v] = req[v]
      /\ \E p \in Seq(Call) :
           req'[w] = [step |-> "run", on |-> req[w].on, plan |-> p] /\ Settles(p, req[w].on)
  BY UploadedInv
<1>3. PICK p \in Seq(Call) :
        req'[w] = [step |-> "run", on |-> on, plan |-> p] /\ Settles(p, on)
  BY <1>1, <1>2
<1>4. /\ UNCHANGED <<block, item>> /\ There' = There /\ Confined(on) /\ Confined({})
      /\ drifted' = drifted /\ on \cap {} = {}
  <2>1. UNCHANGED <<block, item>> /\ drifted' = drifted
    BY DEF Uploaded, Tables
  <2>2. QED
    BY <2>1, SameTables
<1>5. TypeOK /\ Todo(w) = <<>>
  BY DEF Inv, Typed, Uploaded, Todo
<1>6. ASSUME NEW b \in There', b \in on, b \notin drifted' PROVE Settled(w, b)'
  <2>1. b \in Block /\ b \in There /\ b \notin drifted
    BY <1>4, <1>6 DEF There
  <2>2. Even(b)
    BY <1>1, <1>5, <1>6, <2>1, NothingToDo DEF Accounted
  <2>3. Even(b)'
    BY <1>2, <1>4, <2>1, <2>2, OtherEven
  <2>4. Balanced(b, p) /\ PlanGood(p, on)
    BY <1>3, <2>1, <2>2 DEF Settles
  <2>5. Balanced(b, p)'
    BY <1>2, <1>4, <2>1, <2>4, OtherBalanced
  <2>6. Todo(w)' = p
    BY <1>3 DEF Todo
  <2>7. QED
    BY <2>3, <2>5, <2>6 DEF Settled
<1>7. req'[w].on = on
  BY <1>3
<1>8. QED
  BY <1>1, <1>2, <1>4, <1>6, <1>7, AccountedKept

LEMMA WriteAccounted ==
  ASSUME Inv, Accounted, NEW w \in Worker, WriteFile(w)
  PROVE  Accounted'
<1>1. PICK on : on = req[w].on
  OBVIOUS
<1>2. Inv' /\ Typed /\ TypeOK
  BY WriteInv DEF Inv, Typed
<1>3. /\ req'[w] = [step |-> "send", on |-> on, form |-> req[w].form]
      /\ \A v \in Worker : v # w => req'[v] = req[v]
  BY <1>1, <1>2, WriteTyped
<1>4. /\ UNCHANGED <<block, item>> /\ There' = There /\ Confined(on) /\ Confined({})
      /\ drifted' = drifted
  <2>1. UNCHANGED <<block, item>> /\ drifted' = drifted
    BY DEF WriteFile, Tables
  <2>2. QED
    BY <2>1, SameTables
<1>5. Todo(w) = <<>> /\ Todo(w)' = <<>> /\ req'[w].on = on
  BY <1>3 DEF WriteFile, Todo
<1>6. ASSUME NEW b \in There', b \in on, b \notin drifted' PROVE Settled(w, b)'
  <2>1. b \in Block /\ b \in There /\ b \notin drifted
    BY <1>4, <1>6 DEF There
  <2>2. Even(b)
    BY <1>1, <1>2, <1>5, <1>6, <2>1, NothingToDo DEF Accounted
  <2>3. Even(b)'
    BY <1>2, <1>4, <2>1, <2>2, OtherEven
  <2>4. Balanced(b, <<>>)'
    BY <1>2, <1>6, <2>3, NothingToDoNext DEF Inv, Typed
  <2>5. QED
    BY <1>5, <2>3, <2>4 DEF Settled
<1>7. QED
  BY <1>1, <1>2, <1>3, <1>4, <1>5, <1>6, AccountedKept

LEMMA BeginsAccounted ==
  ASSUME ~Overlap, Inv, Accounted, NEW w \in Worker, Begins(w)
  PROVE  Accounted'
<1>1. Inv' /\ Typed /\ Apart /\ Shelved /\ Prepared /\ TypeOK /\ TypeOK'
  BY BeginsInv DEF Inv, Typed
<1>2. PICK on :
        /\ Begin(w, on)
        /\ \/ \E form \in Form : Upload(w, on, form)
           \/ \E p \in Seq(Call) : p # <<>> /\ Run(w, on, p) /\ Settles(p, on)
  BY <1>1 DEF Begins
<1>3. /\ req[w] = Idle /\ (\A v \in Worker : req[v].on \cap on = {})
      /\ UNCHANGED <<block, item>> /\ drifted' = drifted
  BY <1>2 DEF Begin, Tables
<1>4. There' = There /\ Confined({})
  BY <1>3, SameTables
<1>5. /\ req'[w].on = on /\ \A v \in Worker : v # w => req'[v] = req[v]
      /\ \/ Todo(w)' = <<>>
         \/ \E p \in Seq(Call) : Todo(w)' = p /\ Settles(p, on)
  <2>1. ASSUME NEW form \in Form, Upload(w, on, form)
        PROVE  req'[w].on = on /\ (\A v \in Worker : v # w => req'[v] = req[v]) /\ Todo(w)' = <<>>
    <3>1. /\ req'[w] = [step |-> "write", on |-> on, form |-> form]
          /\ \A v \in Worker : v # w => req'[v] = req[v]
      BY <1>1, <2>1, UploadTyped
    <3>2. QED
      BY <3>1 DEF Todo
  <2>2. ASSUME NEW p \in Seq(Call), p # <<>>, Run(w, on, p)
        PROVE  req'[w].on = on /\ (\A v \in Worker : v # w => req'[v] = req[v]) /\ Todo(w)' = p
    <3>1. /\ req'[w] = [step |-> "run", on |-> on, plan |-> p]
          /\ \A v \in Worker : v # w => req'[v] = req[v]
      BY <1>1, <2>2, RunTyped
    <3>2. QED
      BY <3>1 DEF Todo
  <2>3. QED
    BY <1>2, <2>1, <2>2
<1>6. ASSUME NEW b \in There', b \notin drifted'
      PROVE  /\ (\A v \in Worker : b \notin req'[v].on) => Even(b)'
             /\ \A v \in Worker : b \in req'[v].on => Settled(v, b)'
  <2>1. b \in Block /\ b \in There /\ b \notin drifted
    BY <1>3, <1>4, <1>6 DEF There
  <2>2. Even(b)' <=> Even(b)
    BY <1>1, <1>4, <2>1, OtherEven
  <2>3. CASE b \in on
    <3>1. Even(b)
      BY <1>3, <2>1, <2>3 DEF Accounted
    <3>2. \A v \in Worker : b \in req'[v].on => v = w
      BY <1>3, <1>5, <2>3
    <3>3. b \in req'[w].on
      BY <1>5, <2>3
    <3>4. Balanced(b, Todo(w))'
      <4>1. CASE Todo(w)' = <<>>
        <5>1. Balanced(b, <<>>)'
          BY <1>1, <1>6, <2>2, <3>1, NothingToDoNext
        <5>2. QED
          BY <4>1, <5>1
      <4>2. ASSUME NEW p \in Seq(Call), Todo(w)' = p, Settles(p, on) PROVE Balanced(b, Todo(w))'
        <5>1. Balanced(b, p) /\ PlanGood(p, on) /\ on \cap {} = {}
          BY <2>1, <3>1, <4>2 DEF Settles
        <5>2. Balanced(b, p)'
          BY <1>1, <1>4, <2>1, <5>1, OtherBalanced
        <5>3. QED
          BY <4>2, <5>2
      <4>3. QED
        BY <1>5, <4>1, <4>2
    <3>5. QED
      BY <2>2, <3>1, <3>2, <3>3, <3>4 DEF Settled
  <2>4. CASE b \notin on
    <3>1. \A v \in Worker : b \in req'[v].on => v # w /\ b \in req[v].on
      BY <1>5, <2>4
    <3>2. \A v \in Worker : b \in req[v].on => b \in req'[v].on
      BY <1>3, <1>5, IdleRequest
    <3>3. ASSUME NEW v \in Worker, b \in req'[v].on PROVE Settled(v, b)'
      <4>1. v # w /\ req'[v] = req[v] /\ b \in req[v].on
        BY <1>5, <3>1, <3>3
      <4>2. PICK p, other : p = Todo(v) /\ other = req[v].on
        OBVIOUS
      <4>3. Todo(v)' = p
        BY <4>1, <4>2 DEF Todo
      <4>4. p \in Seq(Call) /\ PlanGood(p, other) /\ other \cap {} = {}
        BY <1>1, <4>2, FirstCall DEF Todo, Prepared
      <4>5. Balanced(b, p) /\ ((p # <<>> /\ Harmless(Head(p))) => Even(b))
        BY <2>1, <4>1, <4>2 DEF Accounted
      <4>6. Balanced(b, p)'
        BY <1>1, <1>4, <2>1, <4>4, <4>5, OtherBalanced
      <4>7. QED
        BY <2>2, <4>3, <4>5, <4>6 DEF Settled, Harmless
    <3>4. QED
      BY <2>1, <2>2, <3>2, <3>3 DEF Accounted
  <2>5. QED
    BY <2>3, <2>4
<1>7. QED
  BY <1>6 DEF Accounted, Settled

\* What is left of a plan keeps a balance.
LEMMA TailBalanced ==
  ASSUME NEW on, NEW p \in Seq(Call), p # <<>>, PlanGood(p, on), NEW b,
         \A k \in 2..Len(p) : /\ NetCount(p[k], b)' = NetCount(p[k], b)
                              /\ NetLength(p[k], b)' = NetLength(p[k], b)
                              /\ Moves(p[k], b)' <=> Moves(p[k], b),
         \/ \E k \in 2..Len(p) : Moves(p[k], b)
         \/ /\ block'[b].count = Counted(b)' + CountAt(p, 2, b) + CountAt(p, 3, b) + 0
            /\ block'[b].duration = Length(b)' + LengthAt(p, 2, b) + LengthAt(p, 3, b) + 0
  PROVE  Balanced(b, Tail(p))'
<1>1. PICK q : q = Tail(p)
  OBVIOUS
<1>2. /\ Len(p) \in 1..3 /\ Len(q) = Len(p) - 1
      /\ \A k \in 1..Len(p) - 1 : q[k] = p[k + 1]
  BY <1>1, Rest, Later
<1>3. ASSUME NEW k \in {1, 2, 3}
      PROVE  /\ CountAt(q, k, b)' = IF k = 3 THEN 0 ELSE CountAt(p, k + 1, b)
             /\ LengthAt(q, k, b)' = IF k = 3 THEN 0 ELSE LengthAt(p, k + 1, b)
  <2>1. CASE k <= Len(q)
    <3>1. k \in 1..Len(p) - 1 /\ k + 1 \in 2..Len(p) /\ k # 3 /\ k + 1 <= Len(p)
      BY <1>2, <2>1
    <3>2. q[k] = p[k + 1]
      BY <1>2, <3>1
    <3>3. CountAt(q, k, b)' = NetCount(q[k], b)' /\ LengthAt(q, k, b)' = NetLength(q[k], b)'
      BY <2>1 DEF CountAt, LengthAt
    <3>4. /\ CountAt(p, k + 1, b) = NetCount(p[k + 1], b)
          /\ LengthAt(p, k + 1, b) = NetLength(p[k + 1], b)
      BY <3>1 DEF CountAt, LengthAt
    <3>5. QED
      BY <3>1, <3>2, <3>3, <3>4
  <2>2. CASE ~(k <= Len(q))
    <3>1. k = 3 \/ ~(k + 1 <= Len(p))
      BY <1>2, <2>2
    <3>2. QED
      BY <2>2, <3>1 DEF CountAt, LengthAt
  <2>3. QED
    BY <2>1, <2>2
<1>4. /\ CountAt(q, 1, b)' = CountAt(p, 2, b) /\ CountAt(q, 2, b)' = CountAt(p, 3, b)
      /\ CountAt(q, 3, b)' = 0
      /\ LengthAt(q, 1, b)' = LengthAt(p, 2, b) /\ LengthAt(q, 2, b)' = LengthAt(p, 3, b)
      /\ LengthAt(q, 3, b)' = 0
  BY <1>3
<1>5. CASE \E k \in 2..Len(p) : Moves(p[k], b)
  <2>1. PICK k \in 2..Len(p) : Moves(p[k], b)
    BY <1>5
  <2>2. PICK j : j = k - 1 /\ j \in 1..Len(q) /\ q[j] = p[k]
    <3>1. k - 1 \in 1..Len(p) - 1 /\ (k - 1) + 1 = k
      BY <1>2
    <3>2. q[k - 1] = p[(k - 1) + 1]
      BY <1>2, <3>1
    <3>3. QED
      BY <1>2, <3>1, <3>2
  <2>3. Moves(q[j], b)'
    BY <2>1, <2>2
  <2>4. Balanced(b, q)'
    BY <2>2, <2>3 DEF Balanced
  <2>5. QED
    BY <1>1, <2>4
<1>6. CASE /\ block'[b].count = Counted(b)' + CountAt(p, 2, b) + CountAt(p, 3, b) + 0
           /\ block'[b].duration = Length(b)' + LengthAt(p, 2, b) + LengthAt(p, 3, b) + 0
  <2>1. Balanced(b, q)'
    BY <1>4, <1>6 DEF Balanced
  <2>2. QED
    BY <1>1, <2>1
<1>7. QED
  BY <1>5, <1>6

\* What the first call of a plan makes up for
LEMMA CallDue ==
  ASSUME Inv, Accounted, NEW w \in Worker, req[w].step = "run", NEW p, p = req[w].plan,
         NEW b \in There, b \in req[w].on, b \notin drifted
  PROVE  /\ block[b].count \in Int /\ block[b].duration \in Int
         /\ Counted(b) \in Nat /\ Length(b) \in Nat
         /\ NetCount(p[1], b) \in Int /\ CountAt(p, 2, b) \in Int /\ CountAt(p, 3, b) \in Int
         /\ NetLength(p[1], b) \in Int /\ LengthAt(p, 2, b) \in Int /\ LengthAt(p, 3, b) \in Int
         /\ \/ Moves(p[1], b)
            \/ \E k \in 2..Len(p) : Moves(p[k], b)
            \/ /\ block[b].count =
                    Counted(b) + NetCount(p[1], b) + CountAt(p, 2, b) + CountAt(p, 3, b)
               /\ block[b].duration =
                    Length(b) + NetLength(p[1], b) + LengthAt(p, 2, b) + LengthAt(p, 3, b)
<1>1. TypeOK /\ Typed /\ p \in Seq(Call) /\ p # <<>> /\ Todo(w) = p
  BY FirstCall DEF Inv, Typed, Todo
<1>2. Len(p) \in Nat \ {0}
  BY <1>1, Rest
<1>3. \A k \in 1..Len(p) : NetCount(p[k], b) \in Int /\ NetLength(p[k], b) \in Int
  <2> SUFFICES ASSUME NEW k \in 1..Len(p)
               PROVE  NetCount(p[k], b) \in Int /\ NetLength(p[k], b) \in Int
    OBVIOUS
  <2>1. p[k] \in Call
    BY <1>1
  <2>2. QED
    BY <1>1, <2>1, NetTypes
<1>4. \A k \in {2, 3} : CountAt(p, k, b) \in Int /\ LengthAt(p, k, b) \in Int
  BY <1>2, <1>3 DEF CountAt, LengthAt
<1>5. CountAt(p, 1, b) = NetCount(p[1], b) /\ LengthAt(p, 1, b) = NetLength(p[1], b)
  BY <1>2 DEF CountAt, LengthAt
<1>6. Balanced(b, p)
  BY <1>1 DEF Accounted
<1>7. \/ Moves(p[1], b)
      \/ \E k \in 2..Len(p) : Moves(p[k], b)
      \/ /\ block[b].count =
              Counted(b) + NetCount(p[1], b) + CountAt(p, 2, b) + CountAt(p, 3, b)
         /\ block[b].duration =
              Length(b) + NetLength(p[1], b) + LengthAt(p, 2, b) + LengthAt(p, 3, b)
  <2>1. CASE \E k \in 1..Len(p) : Moves(p[k], b)
    <3>1. PICK k \in 1..Len(p) : Moves(p[k], b)
      BY <2>1
    <3>2. k = 1 \/ k \in 2..Len(p)
      BY <1>2
    <3>3. QED
      BY <3>1, <3>2
  <2>2. CASE ~\E k \in 1..Len(p) : Moves(p[k], b)
    BY <1>5, <1>6, <2>2 DEF Balanced
  <2>3. QED
    BY <2>1, <2>2
<1>8. b \in Block /\ block[b].count \in Int /\ block[b].duration \in Int
      /\ Counted(b) \in Nat /\ Length(b) \in Nat
  BY <1>1, Standing, StatsWeighed DEF Weighed
<1>9. QED
  BY <1>2, <1>3, <1>4, <1>7, <1>8

\* After a call the rest of the plan is to be done.
LEMMA RestSettled ==
  ASSUME NEW w \in Worker, Rested(w), NEW on, NEW p \in Seq(Call), p # <<>>, p = req[w].plan,
         PlanGood(p, on), NEW b,
         \A k \in 2..Len(p) : /\ NetCount(p[k], b)' = NetCount(p[k], b)
                              /\ NetLength(p[k], b)' = NetLength(p[k], b)
                              /\ Moves(p[k], b)' <=> Moves(p[k], b),
         \/ \E k \in 2..Len(p) : Moves(p[k], b)
         \/ /\ block'[b].count = Counted(b)' + CountAt(p, 2, b) + CountAt(p, 3, b) + 0
            /\ block'[b].duration = Length(b)' + LengthAt(p, 2, b) + LengthAt(p, 3, b) + 0
  PROVE  Settled(w, b)'
<1>1. Balanced(b, Tail(p))'
  BY TailBalanced
<1>2. Todo(w)' = Tail(p)
  <2>1. CASE Tail(p) = <<>>
    BY <2>1, IdleGood DEF Rested
  <2>2. CASE Tail(p) # <<>>
    BY <2>2 DEF Rested, Todo
  <2>3. QED
    BY <2>1, <2>2
<1>3. Tail(p) # <<>> => ~Harmless(Head(Tail(p)))
  <2>1. SUFFICES ASSUME Tail(p) # <<>> PROVE ~Harmless(Head(Tail(p)))
    OBVIOUS
  <2>2. PICK q, n : q = Tail(p) /\ n = Len(p)
    OBVIOUS
  <2>3. /\ q \in Seq(Call) /\ q # <<>> /\ Len(q) = n - 1 /\ n \in Nat
        /\ \A k \in 1..n - 1 : q[k] = p[k + 1]
    BY <2>1, <2>2, Rest
  <2>4. Len(q) \in Nat \ {0} /\ Head(q) = q[1]
    BY <2>3, Rest
  <2>5. 1 \in 1..n - 1 /\ 2 \in 2..n /\ 1 + 1 = 2
    BY <2>3, <2>4
  <2>6. Head(q) = p[2]
    BY <2>3, <2>4, <2>5
  <2>7. ~Harmless(p[2])
    BY <2>2, <2>5, Later
  <2>8. QED
    BY <2>2, <2>6, <2>7
<1>4. QED
  BY <1>1, <1>2, <1>3 DEF Settled, Harmless

\* What a call adds to a sum it no longer owes it.
LEMMA Shifted ==
  ASSUME NEW a \in Int, NEW l \in Int, NEW m, NEW n, NEW x \in Int, NEW y \in Int,
         NEW s \in Int, NEW t \in Int, a = l + n + x + y, n = t - s, m = l - s + t
  PROVE  a = m + x + y + 0
OBVIOUS

\* A call that changes one item
LEMMA ItemAccounted ==
  ASSUME Inv, Inv', Accounted, NEW w \in Worker, Calling(w), OnItem(Now(w)),
         Confined(req[w].on), block' = block, drifted \subseteq drifted',
         NEW i \in Item, \A j \in Item : j # i => item'[j] = item[j],
         \A b \in There : /\ NetLength(Now(w), b) = Share(i, b)' - Share(i, b)
                          /\ NetCount(Now(w), b) = One(i, b)' - One(i, b)
                          /\ Moves(Now(w), b) => b \in drifted'
  PROVE  Accounted'
<1>1. PICK on, p : on = req[w].on /\ p = req[w].plan
  OBVIOUS
<1>2. /\ Rested(w) /\ p \in Seq(Call) /\ p # <<>> /\ PlanGood(p, on) /\ Now(w) = p[1]
      /\ req[w].step = "run" /\ TypeOK /\ TypeOK'
  BY <1>1, NowGood
<1>3. req'[w] = Idle \/ req'[w].on = on
  <2>1. CASE Tail(p) = <<>>
    BY <1>1, <1>2, <2>1 DEF Rested
  <2>2. CASE Tail(p) # <<>>
    BY <1>1, <1>2, <2>2 DEF Rested
  <2>3. QED
    BY <2>1, <2>2
<1>4. ASSUME NEW b \in There', b \in on, b \notin drifted' PROVE Settled(w, b)'
  <2>1. b \in Block /\ b \in There /\ b \notin drifted
    BY <1>4 DEF There
  <2>2. /\ block[b].count \in Int /\ block[b].duration \in Int
        /\ Counted(b) \in Nat /\ Length(b) \in Nat
        /\ CountAt(p, 2, b) \in Int /\ CountAt(p, 3, b) \in Int
        /\ LengthAt(p, 2, b) \in Int /\ LengthAt(p, 3, b) \in Int
        /\ \/ Moves(p[1], b)
           \/ \E k \in 2..Len(p) : Moves(p[k], b)
           \/ /\ block[b].count =
                   Counted(b) + NetCount(p[1], b) + CountAt(p, 2, b) + CountAt(p, 3, b)
              /\ block[b].duration =
                   Length(b) + NetLength(p[1], b) + LengthAt(p, 2, b) + LengthAt(p, 3, b)
    BY <1>1, <1>2, <1>4, <2>1, CallDue
  <2>3. ASSUME NEW k \in 2..Len(p)
        PROVE  /\ NetCount(p[k], b)' = NetCount(p[k], b)
               /\ NetLength(p[k], b)' = NetLength(p[k], b)
               /\ Moves(p[k], b)' <=> Moves(p[k], b)
    <3>1. p[k].call = "findBlock"
      BY <1>2, Later
    <3>2. QED
      BY <3>1 DEF NetCount, NetLength, Moves
  <2>4. /\ Length(b)' = Length(b) - Share(i, b) + Share(i, b)'
        /\ Counted(b)' = Counted(b) - One(i, b) + One(i, b)'
        /\ Share(i, b) \in Nat /\ Share(i, b)' \in Nat
        /\ One(i, b) \in Nat /\ One(i, b)' \in Nat
    BY <1>2, <2>1, ChangeOne
  <2>5. /\ NetLength(p[1], b) = Share(i, b)' - Share(i, b)
        /\ NetCount(p[1], b) = One(i, b)' - One(i, b)
        /\ ~Moves(p[1], b)
    BY <1>2, <1>4, <2>1
  <2>6. CASE \E k \in 2..Len(p) : Moves(p[k], b)
    BY <1>1, <1>2, <2>3, <2>6, RestSettled
  <2>7. CASE ~\E k \in 2..Len(p) : Moves(p[k], b)
    <3>1. /\ block[b].count =
                Counted(b) + NetCount(p[1], b) + CountAt(p, 2, b) + CountAt(p, 3, b)
          /\ block[b].duration =
                Length(b) + NetLength(p[1], b) + LengthAt(p, 2, b) + LengthAt(p, 3, b)
      BY <2>2, <2>5, <2>7
    <3>2. block[b].count = Counted(b)' + CountAt(p, 2, b) + CountAt(p, 3, b) + 0
      BY <2>2, <2>4, <2>5, <3>1, Shifted
    <3>3. block[b].duration = Length(b)' + LengthAt(p, 2, b) + LengthAt(p, 3, b) + 0
      BY <2>2, <2>4, <2>5, <3>1, Shifted
    <3>4. QED
      BY <1>1, <1>2, <2>3, <3>2, <3>3, RestSettled
  <2>8. QED
    BY <2>6, <2>7
<1>5. \A v \in Worker : v # w => req'[v] = req[v]
  BY <1>2 DEF Rested
<1>6. QED
  BY <1>1, <1>3, <1>4, <1>5, AccountedKept

LEMMA SaveItemAccounted ==
  ASSUME Inv, Accounted, NEW w \in Worker, SaveItem(w)
  PROVE  Accounted'
<1>1. Calling(w) /\ Inv' /\ Confined(req[w].on)
  BY SaveItemInv DEF Calling
<1>2. PICK i, row : i = Now(w).id /\ row = Now(w).row
  OBVIOUS
<1>3. /\ Now(w).call = "saveItem" /\ i \in Item /\ row \in ItemRow /\ row # NoRow
      /\ item' = [item EXCEPT ![i] = row] /\ block' = block
      /\ drifted' = IF i \in Homework /\ item[i] # NoRow /\ item[i].block # row.block
                    THEN drifted \cup ({item[i].block, row.block} \cap Block) ELSE drifted
  BY <1>1, <1>2, NowGood, CallFields, RowTyped DEF SaveItem, Calls
<1>4. item'[i] = row /\ \A j \in Item : j # i => item'[j] = item[j]
  BY <1>1, <1>3, NowGood DEF TypeOK
<1>5. ASSUME NEW b \in There
      PROVE  /\ NetLength(Now(w), b) = Share(i, b)' - Share(i, b)
             /\ NetCount(Now(w), b) = One(i, b)' - One(i, b)
             /\ Moves(Now(w), b) => b \in drifted'
  <2>1. /\ Share(i, b)' = IF row.block = b THEN row.duration ELSE 0
        /\ One(i, b)' = IF row.block = b /\ i \in Lesson THEN 1 ELSE 0
    BY <1>3, <1>4 DEF Share, One
  <2>2. /\ NetLength(Now(w), b) = (IF row.block = b THEN row.duration ELSE 0) - Share(i, b)
        /\ NetCount(Now(w), b) = (IF row.block = b /\ i \in Lesson THEN 1 ELSE 0) - One(i, b)
    BY <1>2, <1>3 DEF NetLength, NetCount
  <2>3. Moves(Now(w), b) => b \in drifted'
    <3>1. SUFFICES ASSUME Moves(Now(w), b) PROVE b \in drifted'
      OBVIOUS
    <3>2. /\ i \in Homework /\ item[i].block # row.block /\ b \in {item[i].block, row.block}
          /\ i \notin Page /\ b \in Block
      BY <1>2, <1>3, <3>1, Kinds DEF Moves, There
    <3>3. item[i] # NoRow
      BY <1>1, <1>2, <1>3, <3>2, NowGood DEF CallGood, Held
    <3>4. QED
      BY <1>3, <3>2, <3>3
  <2>4. QED
    BY <2>1, <2>2, <2>3
<1>6. QED
  BY <1>1, <1>3, <1>4, <1>5, ItemAccounted DEF OnItem

LEMMA RemoveAccounted ==
  ASSUME Inv, Accounted, NEW w \in Worker, Remove(w)
  PROVE  Accounted'
<1>1. Calling(w) /\ Inv' /\ Confined(req[w].on)
  BY RemoveInv DEF Calling
<1>2. PICK i : i = Now(w).id
  OBVIOUS
<1>3. /\ Now(w).call = "remove" /\ i \in Item /\ item' = [item EXCEPT ![i] = NoRow]
      /\ block' = block /\ drifted' = drifted
  BY <1>1, <1>2, NowGood, CallFields DEF Remove, Calls
<1>4. item'[i] = NoRow /\ \A j \in Item : j # i => item'[j] = item[j]
  BY <1>1, <1>3, NowGood DEF TypeOK
<1>5. ASSUME NEW b \in There
      PROVE  /\ NetLength(Now(w), b) = Share(i, b)' - Share(i, b)
             /\ NetCount(Now(w), b) = One(i, b)' - One(i, b)
             /\ Moves(Now(w), b) => b \in drifted'
  <2>1. Share(i, b)' = 0 /\ One(i, b)' = 0
    BY <1>4 DEF Share, One
  <2>2. NetLength(Now(w), b) = - Share(i, b) /\ NetCount(Now(w), b) = - One(i, b)
    BY <1>2, <1>3 DEF NetLength, NetCount
  <2>3. Share(i, b) \in Nat /\ One(i, b) \in Nat
    BY <1>1, <1>3, NowGood, ShareTypes
  <2>4. ~Moves(Now(w), b)
    BY <1>3 DEF Moves
  <2>5. QED
    BY <2>1, <2>2, <2>3, <2>4
<1>6. QED
  BY <1>1, <1>3, <1>4, <1>5, ItemAccounted DEF OnItem

LEMMA InsertAccounted ==
  ASSUME Inv, Accounted, NEW w \in Worker, NEW i \in Item, Insert(w, i)
  PROVE  Accounted'
<1>1. Calling(w) /\ Inv' /\ Confined(req[w].on)
  BY InsertInv DEF Calling
<1>2. PICK kind, row : kind = Now(w).kind /\ row = Now(w).row
  OBVIOUS
<1>3. /\ Now(w).call = "insert" /\ row \in ItemRow /\ row # NoRow
      /\ kind \in {Lesson, Homework, Grammar, Alphabet} /\ i \in kind /\ i \notin used
      /\ item' = [item EXCEPT ![i] = row] /\ block' = block /\ drifted' = drifted
  BY <1>1, <1>2, NowGood, CallFields, RowTyped DEF Insert, Calls
<1>4. item'[i] = row /\ \A j \in Item : j # i => item'[j] = item[j]
  BY <1>1, <1>3, NowGood DEF TypeOK
<1>5. ASSUME NEW b \in There
      PROVE  /\ NetLength(Now(w), b) = Share(i, b)' - Share(i, b)
             /\ NetCount(Now(w), b) = One(i, b)' - One(i, b)
             /\ Moves(Now(w), b) => b \in drifted'
  <2>1. IsLesson(kind) = IF i \in Lesson THEN 1 ELSE 0
    BY <1>3, Kinds
  <2>2. /\ Share(i, b)' = IF row.block = b THEN row.duration ELSE 0
        /\ One(i, b)' = IF row.block = b /\ i \in Lesson THEN 1 ELSE 0
    BY <1>3, <1>4 DEF Share, One
  <2>3. Share(i, b) = 0 /\ One(i, b) = 0
    <3>1. CASE i \in Page
      BY <1>1, <3>1, NowGood, PagesShare DEF There
    <3>2. CASE i \notin Page
      <4>1. item[i] = NoRow
        BY <1>1, <1>3, <3>2, NowGood DEF Shelved
      <4>2. QED
        BY <4>1 DEF Share, One
    <3>3. QED
      BY <3>1, <3>2
  <2>4. /\ NetLength(Now(w), b) = IF row.block = b THEN row.duration ELSE 0
        /\ NetCount(Now(w), b) = IF row.block = b THEN IsLesson(kind) ELSE 0
    BY <1>2, <1>3 DEF NetLength, NetCount
  <2>5. row.duration \in Nat
    BY <1>3, RowTyped
  <2>6. ~Moves(Now(w), b)
    BY <1>3 DEF Moves
  <2>7. QED
    BY <2>1, <2>2, <2>3, <2>4, <2>5, <2>6
<1>6. QED
  BY <1>1, <1>3, <1>4, <1>5, ItemAccounted DEF OnItem

LEMMA Owed ==
  ASSUME NEW x \in Int, NEW y \in Int, NEW s \in Int, NEW r \in Int, NEW n \in Int,
         x = y + (x - n) + s + r
  PROVE  n = y + s + r + 0
  OBVIOUS

LEMMA Cancels ==
  ASSUME NEW x \in Int, NEW n \in Int
  PROVE  x - (x + n) = -n
  OBVIOUS

LEMMA SaveBlockAccounted ==
  ASSUME Inv, Accounted, NEW w \in Worker, SaveBlock(w)
  PROVE  Accounted'
<1>1. Calling(w) /\ Inv' /\ Confined(req[w].on)
  BY SaveBlockInv DEF Calling
<1>2. PICK on, p, copy, a :
        on = req[w].on /\ p = req[w].plan /\ copy = Now(w).copy /\ a = copy.id
  OBVIOUS
<1>3. /\ Rested(w) /\ p \in Seq(Call) /\ p # <<>> /\ PlanGood(p, on) /\ Now(w) = p[1]
      /\ req[w].step = "run" /\ TypeOK /\ TypeOK' /\ CallGood(p[1], on)
  BY <1>1, <1>2, NowGood
<1>4. /\ item' = item /\ block' = [block EXCEPT ![a] = copy.row] /\ There' = There
      /\ a \in There /\ copy.row \in BlockRow /\ p[1].call = "saveBlock"
      /\ \A b : ItemsOf(b)' = ItemsOf(b)
  BY <1>2, <1>3, SaveBlockSame
<1>5. drifted' = IF p[1].recount THEN drifted \ {a} ELSE drifted
  BY <1>2, <1>3 DEF SaveBlock
<1>6. p[1].recount => Len(p) = 1 /\ copy.row.count = Counted(a) /\ copy.row.duration = Length(a)
  <2>1. 1 \in 1..Len(p)
    BY <1>3, Rest
  <2>2. QED
    BY <1>2, <1>3, <1>4, <2>1 DEF PlanGood, CallGood
<1>7. ASSUME NEW b \in There', b \in on, b \notin drifted' PROVE Settled(w, b)'
  <2>1. b \in Block /\ b \in There
    BY <1>4, <1>7 DEF There
  <2>2. block'[b] = IF b = a THEN copy.row ELSE block[b]
    BY <1>3, <1>4, <2>1 DEF TypeOK
  <2>3. Counted(b)' = Counted(b) /\ Length(b)' = Length(b)
    BY <1>3, <1>4, <2>1, SameStats
  <2>4. ASSUME NEW k \in 2..Len(p)
        PROVE  /\ NetCount(p[k], b)' = NetCount(p[k], b)
               /\ NetLength(p[k], b)' = NetLength(p[k], b)
               /\ Moves(p[k], b)' <=> Moves(p[k], b)
    <3>1. p[k].call \in {"findBlock", "insert", "saveItem", "remove"}
      BY <1>3, Later
    <3>2. QED
      BY <1>4, <3>1 DEF NetCount, NetLength, Moves, Share, One
  <2>5. CASE p[1].recount /\ b = a
    <3>1. /\ CountAt(p, 2, b) = 0 /\ CountAt(p, 3, b) = 0
          /\ LengthAt(p, 2, b) = 0 /\ LengthAt(p, 3, b) = 0
      <4>1. Len(p) = 1
        BY <1>6, <2>5
      <4>2. QED
        BY <4>1 DEF CountAt, LengthAt
    <3>2. copy.row.count \in Int /\ copy.row.duration \in Int
      BY <1>4, RowTyped
    <3>3. /\ block'[b].count = Counted(b)' + CountAt(p, 2, b) + CountAt(p, 3, b) + 0
          /\ block'[b].duration = Length(b)' + LengthAt(p, 2, b) + LengthAt(p, 3, b) + 0
      BY <1>6, <2>2, <2>3, <2>5, <3>1, <3>2
    <3>4. QED
      BY <1>2, <1>3, <2>4, <3>3, RestSettled
  <2>6. CASE ~(p[1].recount /\ b = a)
    <3>1. b \notin drifted
      BY <1>5, <1>7, <2>6
    <3>2. /\ block[b].count \in Int /\ block[b].duration \in Int
          /\ Counted(b) \in Nat /\ Length(b) \in Nat
          /\ CountAt(p, 2, b) \in Int /\ CountAt(p, 3, b) \in Int
          /\ LengthAt(p, 2, b) \in Int /\ LengthAt(p, 3, b) \in Int
          /\ \/ Moves(p[1], b)
             \/ \E k \in 2..Len(p) : Moves(p[k], b)
             \/ /\ block[b].count =
                     Counted(b) + NetCount(p[1], b) + CountAt(p, 2, b) + CountAt(p, 3, b)
                /\ block[b].duration =
                     Length(b) + NetLength(p[1], b) + LengthAt(p, 2, b) + LengthAt(p, 3, b)
      BY <1>2, <1>3, <1>7, <2>1, <3>1, CallDue
    <3>3. /\ NetCount(p[1], b) = IF b = a THEN block[b].count - copy.row.count ELSE 0
          /\ NetLength(p[1], b) = IF b = a THEN block[b].duration - copy.row.duration ELSE 0
          /\ ~Moves(p[1], b)
      BY <1>2, <1>3, <1>4 DEF NetCount, NetLength, Moves
    <3>4. copy.row.count \in Int /\ copy.row.duration \in Int
      BY <1>4, RowTyped
    <3>5. CASE \E k \in 2..Len(p) : Moves(p[k], b)
      BY <1>2, <1>3, <2>4, <3>5, RestSettled
    <3>6. CASE ~\E k \in 2..Len(p) : Moves(p[k], b)
      <4>1. CASE b = a
        <5>1. /\ block[b].count = Counted(b) + (block[b].count - copy.row.count)
                                      + CountAt(p, 2, b) + CountAt(p, 3, b)
              /\ block[b].duration = Length(b) + (block[b].duration - copy.row.duration)
                                      + LengthAt(p, 2, b) + LengthAt(p, 3, b)
          BY <3>2, <3>3, <3>6, <4>1
        <5>2. Counted(b) \in Int /\ Length(b) \in Int
          BY <3>2
        <5>3. copy.row.count = Counted(b) + CountAt(p, 2, b) + CountAt(p, 3, b) + 0
          <6>1. PICK x, y, s, r, n : /\ x = block[b].count /\ y = Counted(b) /\ n = copy.row.count
                                     /\ s = CountAt(p, 2, b) /\ r = CountAt(p, 3, b)
            OBVIOUS
          <6>2. x \in Int /\ y \in Int /\ s \in Int /\ r \in Int /\ n \in Int
            BY <3>2, <3>4, <5>2, <6>1, Zenon
          <6>3. x = y + (x - n) + s + r
            BY <5>1, <6>1, Zenon
          <6>4. n = y + s + r + 0
            BY <6>2, <6>3, Owed
          <6>5. QED
            BY <6>1, <6>4, Zenon
        <5>4. copy.row.duration = Length(b) + LengthAt(p, 2, b) + LengthAt(p, 3, b) + 0
          <6>1. PICK x, y, s, r, n : /\ x = block[b].duration /\ y = Length(b)
                                     /\ n = copy.row.duration /\ s = LengthAt(p, 2, b)
                                     /\ r = LengthAt(p, 3, b)
            OBVIOUS
          <6>2. x \in Int /\ y \in Int /\ s \in Int /\ r \in Int /\ n \in Int
            BY <3>2, <3>4, <5>2, <6>1, Zenon
          <6>3. x = y + (x - n) + s + r
            BY <5>1, <6>1, Zenon
          <6>4. n = y + s + r + 0
            BY <6>2, <6>3, Owed
          <6>5. QED
            BY <6>1, <6>4, Zenon
        <5>5. QED
          BY <1>2, <1>3, <2>2, <2>3, <2>4, <4>1, <5>3, <5>4, RestSettled
      <4>2. CASE b # a
        <5>1. /\ block'[b].count = Counted(b)' + CountAt(p, 2, b) + CountAt(p, 3, b) + 0
              /\ block'[b].duration = Length(b)' + LengthAt(p, 2, b) + LengthAt(p, 3, b) + 0
          BY <2>2, <2>3, <3>2, <3>3, <3>6, <4>2
        <5>2. QED
          BY <1>2, <1>3, <2>4, <5>1, RestSettled
      <4>3. QED
        BY <4>1, <4>2
    <3>7. QED
      BY <3>5, <3>6
  <2>7. QED
    BY <2>5, <2>6
<1>8. req'[w] = Idle \/ req'[w].on = on
  <2>1. CASE Tail(p) = <<>>
    BY <1>2, <1>3, <2>1 DEF Rested
  <2>2. CASE Tail(p) # <<>>
    BY <1>2, <1>3, <2>2 DEF Rested
  <2>3. QED
    BY <2>1, <2>2
<1>9. /\ \A v \in Worker : v # w => req'[v] = req[v]
      /\ \A b \in Block \ on : b \in drifted => b \in drifted'
  <2>1. a \in on
    BY <1>2, <1>3, <1>4 DEF CallGood
  <2>2. QED
    BY <1>3, <1>5, <2>1 DEF Rested
<1>10. QED
  BY <1>1, <1>2, <1>7, <1>8, <1>9, AccountedKept

\* The one call of a plan is made: no statistics of another block change.
LEMMA LoneAccounted ==
  ASSUME Inv, Inv', Accounted, NEW w \in Worker, Calling(w), Confined(req[w].on),
         Len(req[w].plan) = 1, req'[w] = Idle, drifted' = drifted,
         Now(w).call \in {"insertBlock", "removeBlock"}, NEW a, Confined({a}),
         a \in There' => Even(a)'
  PROVE  Accounted'
<1>1. PICK on, p : on = req[w].on /\ p = req[w].plan
  OBVIOUS
<1>2. /\ Rested(w) /\ p \in Seq(Call) /\ p # <<>> /\ PlanGood(p, on) /\ Now(w) = p[1]
      /\ req[w].step = "run" /\ TypeOK /\ TypeOK' /\ Len(p) = 1
  BY <1>1, NowGood
<1>3. ASSUME NEW b \in There', b \in on, b \notin drifted' PROVE Settled(w, b)'
  <2>1. b \in Block /\ b \notin drifted
    BY <1>3 DEF There
  <2>2. Even(b)'
    <3>1. CASE b = a
      BY <1>3, <3>1
    <3>2. CASE b # a
      <4>1. b \in Block \ {a} /\ b \in There
        BY <1>3, <2>1, <3>2, OtherEven
      <4>2. /\ CountAt(p, 2, b) = 0 /\ CountAt(p, 3, b) = 0
            /\ LengthAt(p, 2, b) = 0 /\ LengthAt(p, 3, b) = 0
            /\ ~\E k \in 2..Len(p) : Moves(p[k], b)
        BY <1>2 DEF CountAt, LengthAt
      <4>3. NetCount(p[1], b) = 0 /\ NetLength(p[1], b) = 0 /\ ~Moves(p[1], b)
        BY <1>2 DEF NetCount, NetLength, Moves
      <4>4. /\ Counted(b) \in Nat /\ Length(b) \in Nat
            /\ block[b].count = Counted(b) + NetCount(p[1], b) + CountAt(p, 2, b) + CountAt(p, 3, b)
            /\ block[b].duration =
                  Length(b) + NetLength(p[1], b) + LengthAt(p, 2, b) + LengthAt(p, 3, b)
        BY <1>1, <1>2, <1>3, <2>1, <4>1, <4>2, <4>3, CallDue
      <4>5. Even(b)
        BY <4>2, <4>3, <4>4 DEF Even
      <4>6. QED
        BY <4>1, <4>5, OtherEven
    <3>3. QED
      BY <3>1, <3>2
  <2>3. Balanced(b, <<>>)' /\ Todo(w)' = <<>>
    BY <1>2, <1>3, <2>2, NothingToDoNext, IdleGood
  <2>4. QED
    BY <2>2, <2>3 DEF Settled
<1>4. \A v \in Worker : v # w => req'[v] = req[v]
  BY <1>2 DEF Rested
<1>5. QED
  BY <1>1, <1>3, <1>4, AccountedKept

LEMMA RemoveBlockAccounted ==
  ASSUME Inv, Accounted, NEW w \in Worker, RemoveBlock(w)
  PROVE  Accounted'
<1>1. Calling(w) /\ Inv' /\ Shelved' /\ Confined(req[w].on)
  BY RemoveBlockInv DEF Calling, Inv
<1>2. PICK a : a = Now(w).block
  OBVIOUS
<1>3. Now(w).call = "removeBlock" /\ There' = There \ {a} /\ Confined({a})
  BY <1>2, RemoveBlockConfined
<1>4. Len(req[w].plan) = 1 /\ req'[w] = Idle
  BY <1>1, <1>3, LoneCall
<1>5. drifted' = drifted
  BY DEF RemoveBlock
<1>6. QED
  BY <1>1, <1>3, <1>4, <1>5, LoneAccounted

LEMMA InsertBlockAccounted ==
  ASSUME Inv, Accounted, NEW w \in Worker, NEW a \in Block, InsertBlock(w, a)
  PROVE  Accounted'
<1>1. Calling(w) /\ Inv' /\ Shelved /\ Shelved' /\ Confined(req[w].on) /\ TypeOK /\ TypeOK'
  BY InsertBlockInv DEF Calling, Inv, Typed
<1>2. /\ Now(w).call = "insertBlock" /\ a \notin used /\ item' = item /\ drifted' = drifted
      /\ block' = [block EXCEPT ![a] = [order |-> Now(w).order, count |-> 0, duration |-> 0]]
  BY DEF InsertBlock, Calls
<1>3. Len(req[w].plan) = 1 /\ req'[w] = Idle
  BY <1>1, <1>2, LoneCall
<1>4. /\ block'[a] = [order |-> Now(w).order, count |-> 0, duration |-> 0]
      /\ \A b \in Block \ {a} : block'[b] = block[b]
      /\ \A b : ItemsOf(b)' = ItemsOf(b)
  BY <1>1, <1>2 DEF TypeOK, ItemsOf
<1>5. Confined({a})
  BY <1>2, <1>4 DEF Confined
<1>6. ItemsOf(a) = {}
  BY <1>1, <1>2, ContentAssumption DEF Shelved, ItemsOf
<1>7. Counted(a) = 0 /\ Length(a) = 0
  <2>1. Counted(a) = Cardinality({})
    <3>1. ItemsOf(a) \cap Lesson = {}
      BY <1>6
    <3>2. QED
      BY <3>1, Zenon DEF Counted
  <2>2. Length(a) = Weight({}, item)
    BY <1>1, <1>6, StatsWeighed, Zenon DEF Weighed
  <2>3. QED
    BY <2>1, <2>2, FS_EmptySet, WeightEmpty
<1>8. Counted(a)' = Counted(a) /\ Length(a)' = Length(a)
  BY <1>1, <1>2, <1>4, SameStats
<1>9. Even(a)'
  BY <1>4, <1>7, <1>8 DEF Even
<1>10. QED
  BY <1>1, <1>2, <1>3, <1>5, <1>9, LoneAccounted

LEMMA FindAccounted ==
  ASSUME Inv, Accounted, NEW w \in Worker, FindBlock(w)
  PROVE  Accounted'
<1>1. PICK on, p, c, save :
        /\ on = req[w].on /\ p = req[w].plan /\ c = Now(w)
        /\ save = SaveBlockOf(Changed(Loaded(c.block), c.count, c.duration))
  OBVIOUS
<1>2. Inv' /\ Typed /\ TypeOK /\ TypeOK' /\ Prepared
  BY FindInv DEF Inv, Typed
<1>3. /\ req[w].step = "run" /\ c.call = "findBlock" /\ UNCHANGED <<block, item>>
      /\ drifted' = drifted
  BY <1>1 DEF FindBlock, Calls, Tables
<1>4. p \in Seq(Call) /\ p # <<>> /\ c = p[1] /\ c \in Call /\ Tail(p) \in Seq(Call)
  BY <1>1, <1>2, <1>3, FirstCall
<1>5. PlanGood(p, on)
  BY <1>1, <1>2, <1>3 DEF Prepared, Todo
<1>6. There' = There /\ Confined(on) /\ Confined({})
  BY <1>3, SameTables
<1>7. IF c.block \in There
      THEN /\ req'[w] = [step |-> "run", on |-> on, plan |-> <<save>> \o Tail(p)]
           /\ \A v \in Worker : v # w => req'[v] = req[v]
           /\ save \in Call
      ELSE Rested(w)
  BY <1>1, <1>2, FindTyped
<1>8. c.block \in Block /\ c.count \in Int /\ c.duration \in Int
  BY <1>3, <1>4, CallFields
<1>9. ASSUME NEW b \in There', b \in on, b \notin drifted' PROVE Settled(w, b)'
  <2>1. b \in Block /\ b \in There /\ b \notin drifted
    BY <1>3, <1>6, <1>9 DEF There
  <2>2. block'[b] = block[b] /\ Counted(b)' = Counted(b) /\ Length(b)' = Length(b)
    BY <1>2, <1>6, <2>1, OtherEven
  <2>3. \A d : /\ NetCount(d, b)' = NetCount(d, b) /\ NetLength(d, b)' = NetLength(d, b)
               /\ Moves(d, b)' <=> Moves(d, b)
    BY <1>3 DEF NetCount, NetLength, Moves, Share, One
  <2>4. /\ block[b].count \in Int /\ block[b].duration \in Int
        /\ Counted(b) \in Nat /\ Length(b) \in Nat
        /\ CountAt(p, 2, b) \in Int /\ CountAt(p, 3, b) \in Int
        /\ LengthAt(p, 2, b) \in Int /\ LengthAt(p, 3, b) \in Int
        /\ \/ Moves(p[1], b)
           \/ \E k \in 2..Len(p) : Moves(p[k], b)
           \/ /\ block[b].count =
                   Counted(b) + NetCount(p[1], b) + CountAt(p, 2, b) + CountAt(p, 3, b)
              /\ block[b].duration =
                   Length(b) + NetLength(p[1], b) + LengthAt(p, 2, b) + LengthAt(p, 3, b)
    BY <1>1, <1>3, <1>9, <2>1, CallDue
  <2>5. /\ NetCount(c, b) = IF c.block = b THEN - c.count ELSE 0
        /\ NetLength(c, b) = IF c.block = b THEN - c.duration ELSE 0
        /\ ~Moves(c, b)
    BY <1>3 DEF NetCount, NetLength, Moves
  <2>6. CASE c.block \notin There
    <3>1. NetCount(c, b) = 0 /\ NetLength(c, b) = 0 /\ Rested(w)
      BY <1>7, <2>1, <2>5, <2>6
    <3>2. \/ \E k \in 2..Len(p) : Moves(p[k], b)
          \/ /\ block'[b].count = Counted(b)' + CountAt(p, 2, b) + CountAt(p, 3, b) + 0
             /\ block'[b].duration = Length(b)' + LengthAt(p, 2, b) + LengthAt(p, 3, b) + 0
      BY <1>4, <2>2, <2>4, <2>5, <3>1
    <3>3. \A k \in 2..Len(p) : /\ NetCount(p[k], b)' = NetCount(p[k], b)
                               /\ NetLength(p[k], b)' = NetLength(p[k], b)
                               /\ Moves(p[k], b)' <=> Moves(p[k], b)
      BY <2>3
    <3>4. p = req[w].plan
      BY <1>1
    <3>5. QED
      BY <1>4, <1>5, <3>1, <3>2, <3>3, <3>4, RestSettled
  <2>7. CASE c.block \in There
    <3>1. PICK q : q = <<save>> \o Tail(p)
      OBVIOUS
    <3>2. PICK n \in Nat \ {0} : n = Len(p) /\ Len(Tail(p)) = n - 1
                                 /\ \A k \in 1..n - 1 : Tail(p)[k] = p[k + 1]
      BY <1>4, Rest
    <3>3. /\ Len(q) = n /\ q[1] = save /\ \A k \in 1..n - 1 : q[k + 1] = p[k + 1]
          /\ q # <<>> /\ q \in Seq(Call) /\ save \in Call
      BY <1>4, <1>7, <2>7, <3>1, <3>2, Before
    <3>4. \A k \in 2..n : q[k] = p[k]
      <4> SUFFICES ASSUME NEW k \in 2..n PROVE q[k] = p[k]
        OBVIOUS
      <4>1. k - 1 \in 1..n - 1 /\ (k - 1) + 1 = k
        BY <3>2
      <4>2. q[(k - 1) + 1] = p[(k - 1) + 1]
        BY <3>3, <4>1
      <4>3. QED
        BY <4>1, <4>2
    <3>5. NetCount(save, b) = NetCount(c, b) /\ NetLength(save, b) = NetLength(c, b)
      <4>1. PICK copy : copy = Changed(Loaded(c.block), c.count, c.duration)
        OBVIOUS
      <4>2. /\ copy.id = c.block /\ copy.row.count = block[c.block].count + c.count
            /\ copy.row.duration = block[c.block].duration + c.duration
        BY <1>2, <1>8, <2>7, <4>1, CopyTypes DEF Loaded
      <4>3. /\ NetLength(save, b) =
                  IF copy.id = b THEN block[b].duration - copy.row.duration ELSE 0
            /\ NetCount(save, b) = IF copy.id = b THEN block[b].count - copy.row.count ELSE 0
        BY <1>1, <4>1, NetSave
      <4>4. CASE c.block = b
        <5>1. /\ NetCount(save, b) = block[b].count - (block[b].count + c.count)
              /\ NetLength(save, b) = block[b].duration - (block[b].duration + c.duration)
              /\ NetCount(c, b) = -c.count /\ NetLength(c, b) = -c.duration
          BY <2>5, <4>2, <4>3, <4>4
        <5>2. block[b].count - (block[b].count + c.count) = -c.count
          BY <1>8, <2>4, Cancels
        <5>3. block[b].duration - (block[b].duration + c.duration) = -c.duration
          BY <1>8, <2>4, Cancels
        <5>4. QED
          BY <5>1, <5>2, <5>3, Zenon
      <4>5. CASE c.block # b
        BY <2>5, <4>2, <4>3, <4>5
      <4>6. QED
        BY <4>4, <4>5
    <3>6. /\ CountAt(q, 1, b)' = NetCount(c, b) /\ LengthAt(q, 1, b)' = NetLength(c, b)
          /\ CountAt(q, 2, b)' = CountAt(p, 2, b) /\ LengthAt(q, 2, b)' = LengthAt(p, 2, b)
          /\ CountAt(q, 3, b)' = CountAt(p, 3, b) /\ LengthAt(q, 3, b)' = LengthAt(p, 3, b)
      <4>1. CountAt(q, 1, b)' = NetCount(c, b) /\ LengthAt(q, 1, b)' = NetLength(c, b)
        BY <2>3, <3>2, <3>3, <3>5 DEF CountAt, LengthAt
      <4>2. \A k \in {2, 3} : /\ CountAt(q, k, b)' = CountAt(p, k, b)
                              /\ LengthAt(q, k, b)' = LengthAt(p, k, b)
        BY <2>3, <3>2, <3>3, <3>4 DEF CountAt, LengthAt
      <4>3. QED
        BY <4>1, <4>2
    <3>7. Balanced(b, q)'
      <4>1. CASE \E k \in 2..Len(p) : Moves(p[k], b)
        <5>1. PICK k \in 2..n : Moves(p[k], b)
          BY <3>2, <4>1
        <5>2. k \in 1..Len(q) /\ Moves(q[k], b)'
          BY <2>3, <3>2, <3>3, <3>4, <5>1
        <5>3. QED
          BY <5>2 DEF Balanced
      <4>2. CASE ~\E k \in 2..Len(p) : Moves(p[k], b)
        BY <1>4, <2>2, <2>4, <2>5, <3>6, <4>2 DEF Balanced
      <4>3. QED
        BY <4>1, <4>2
    <3>8. Todo(w)' = q
      BY <1>7, <2>7, <3>1 DEF Todo
    <3>9. ~Harmless(Head(q))
      BY <1>1, <3>3, Rest, Kind
    <3>10. QED
      BY <3>7, <3>8, <3>9 DEF Settled, Harmless
  <2>8. QED
    BY <2>6, <2>7
<1>10. /\ req'[w] = Idle \/ req'[w].on = on
       /\ \A v \in Worker : v # w => req'[v] = req[v]
  <2>1. CASE c.block \in There
    BY <1>7, <2>1
  <2>2. CASE c.block \notin There /\ Tail(p) = <<>>
    BY <1>1, <1>7, <2>2 DEF Rested
  <2>3. CASE c.block \notin There /\ Tail(p) # <<>>
    BY <1>1, <1>7, <2>3 DEF Rested
  <2>4. QED
    BY <2>1, <2>2, <2>3
<1>11. QED
  BY <1>1, <1>2, <1>3, <1>6, <1>9, <1>10, AccountedKept

LEMMA CallingAccounted ==
  ASSUME Inv, Accounted, NEW w \in Worker, Calling(w)
  PROVE  Accounted'
  BY SaveBlockAccounted, RemoveBlockAccounted, SaveItemAccounted, RemoveAccounted,
     InsertBlockAccounted, InsertAccounted DEF Calling

LEMMA AccountedInit == Init => Accounted
<1> SUFFICES ASSUME Init PROVE Accounted
  OBVIOUS
<1>1. PICK order \in [Block -> Orders \cup {0}] :
        block = [b \in Block |->
             IF order[b] = 0 THEN NoRow
             ELSE [order |-> order[b], count |-> Counted(b), duration |-> Length(b)]]
  BY DEF Init
<1>2. \A b \in There : Even(b)
  <2> SUFFICES ASSUME NEW b \in There PROVE Even(b)
    OBVIOUS
  <2>1. b \in Block /\ block[b] # NoRow
    BY DEF There
  <2>2. block[b] = [order |-> order[b], count |-> Counted(b), duration |-> Length(b)]
    BY <1>1, <2>1
  <2>3. QED
    BY <2>2 DEF Even
<1>3. \A w \in Worker : req[w].on = {}
  BY DEF Init, Idle
<1>4. QED
  BY <1>2, <1>3 DEF Accounted

LEMMA AccountedStep == ~Overlap /\ Inv /\ Accounted /\ [Next]_vars => Accounted'
<1> SUFFICES ASSUME ~Overlap, Inv, Accounted, [Next]_vars PROVE Accounted'
  OBVIOUS
<1>1. CASE Next
  <2>1. PICK w \in Worker :
           \/ Begins(w) \/ WriteFile(w) \/ UploadFails(w) \/ AbortOperation(w) \/ Refused(w)
           \/ FindBlock(w) \/ Calling(w)
           \/ \E duration \in Durations : Uploaded(w, duration)
    BY <1>1, Steps DEF Inv
  <2>2. QED
    BY <2>1, BeginsAccounted, WriteAccounted, StopsAccounted, FindAccounted, CallingAccounted,
       UploadedAccounted
<1>2. CASE UNCHANGED vars
  <2>1. /\ UNCHANGED <<block, item>> /\ req' = req /\ drifted' = drifted
        /\ Typed /\ Prepared /\ Inv'
    BY <1>2, InvStep DEF vars, Inv
  <2>2. There' = There /\ Confined({})
    BY <2>1, SameTables
  <2>3. SUFFICES ASSUME NEW b \in There', b \notin drifted'
        PROVE  /\ (\A v \in Worker : b \notin req'[v].on) => Even(b)'
               /\ \A v \in Worker : b \in req'[v].on => Settled(v, b)'
    BY <2>3 DEF Accounted, Settled
  <2>4. b \in Block \ {} /\ b \in There /\ b \notin drifted
    BY <2>1, <2>2, <2>3 DEF There
  <2>5. Even(b)' <=> Even(b)
    BY <2>1, <2>2, <2>4, OtherEven
  <2>6. ASSUME NEW v \in Worker, b \in req'[v].on PROVE Settled(v, b)'
    <3>1. PICK p, other : p = Todo(v) /\ other = req[v].on
      OBVIOUS
    <3>2. Todo(v)' = p
      BY <2>1, <3>1 DEF Todo
    <3>3. p \in Seq(Call) /\ PlanGood(p, other) /\ other \cap {} = {}
      BY <2>1, <3>1, FirstCall DEF Todo, Prepared
    <3>4. Balanced(b, p) /\ ((p # <<>> /\ Harmless(Head(p))) => Even(b))
      BY <2>1, <2>4, <2>6, <3>1 DEF Accounted
    <3>5. Balanced(b, p)'
      BY <2>1, <2>2, <2>4, <3>3, <3>4, OtherBalanced
    <3>6. QED
      BY <2>5, <3>2, <3>4, <3>5 DEF Settled, Harmless
  <2>7. QED
    BY <2>1, <2>4, <2>5, <2>6 DEF Accounted
<1>3. QED
  BY <1>1, <1>2

\* The statistics of a block that no operation works on are right, unless the code leaves them
\* wrong, in whatever order the calls of operations on different blocks come
\* (block.service.ts:143).
THEOREM StatsMatchCorrect == ASSUME ~Overlap PROVE Spec => []StatsMatch
<1>1. Init => Inv /\ Accounted
  BY InvInit, AccountedInit
<1>2. (Inv /\ Accounted) /\ [Next]_vars => (Inv /\ Accounted)'
  BY InvStep, AccountedStep
<1>3. Inv /\ Accounted => StatsMatch
  BY DEF Accounted, StatsMatch, Even
<1>4. QED
  BY <1>1, <1>2, <1>3, PTL DEF Spec
=============================================================================
