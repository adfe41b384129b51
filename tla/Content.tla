------------------------------- MODULE Content -------------------------------
(* The content of one course and category: its blocks, the lessons and homeworks in them,    *)
(* and its grammar and alphabet pages, all with a video (block/, lesson/, homework/,         *)
(* grammar/, alphabet/).                                                                     *)
(*                                                                                           *)
(* A block keeps the number of its lessons and the length of all its videos. An operation of *)
(* an administrator reads, uploads a video if there is one, which takes minutes, and then    *)
(* follows a plan: the awaited calls it still has to make, each with what was read for it.   *)
(* A block is read with its lessons and homeworks, and a save writes these lists back: one   *)
(* that is in the block and not in the list loses its block, one in the list is put back.    *)
EXTENDS Integers, Sequences, FiniteSets, FiniteSetsExt

CONSTANTS
    Block, Lesson, Homework, Grammar, Alphabet,  \* ids
    Orders,       \* order numbers
    Durations,    \* lengths of a video
    FirstDurations,   \* ... of those that are there at first
    Worker,       \* operations in flight at once
    Overlap,      \* may an operation begin on blocks or videos another one is working on?
    MaxRequests, MaxAborts    \* bounds of the model

NoBlock == "no block"

ASSUME ContentAssumption ==
    /\ NoBlock \notin Block
    /\ IsFiniteSet(Lesson \cup Homework \cup Grammar \cup Alphabet)
    /\ Orders \subseteq Nat \ {0} /\ Durations \subseteq Nat \ {0}
    /\ FirstDurations \subseteq Durations
    /\ Lesson \cap Homework = {} /\ Grammar \cap Alphabet = {}
    /\ (Lesson \cup Homework) \cap (Grammar \cup Alphabet) = {}
    /\ Overlap \in BOOLEAN
    /\ MaxRequests \in Nat /\ MaxAborts \in Nat

VARIABLES
    block,     \* blocks
    item,      \* lessons, homeworks and pages
    used,      \* the ids that were given out
    temp,      \* temp_video.mp4: the operation whose video it holds
    req,       \* operations in flight
    drifted,   \* blocks whose statistics the code leaves wrong (no column)
    requests, aborts

vars == <<block, item, used, temp, req, drifted, requests, aborts>>
Tables == <<block, item, used>>

Page == Grammar \cup Alphabet
Item == Lesson \cup Homework \cup Page
NoFile == "no file"
NoRow == [order |-> 0]
Idle == [step |-> "idle", on |-> {}]

BlockRow == [order : Orders, count : Int, duration : Int]
\* A page has no block. own: the video is the one that the administrator gave (no column).
ItemRow == [block : Block \cup {NoBlock}, order : Orders, duration : Durations, own : BOOLEAN]

There == {b \in Block : block[b] # NoRow}
ItemsOf(b) == {i \in Item : item[i] # NoRow /\ item[i].block = b}
\* The statistics that recalculateCountVideos computes.
Counted(b) == Cardinality(ItemsOf(b) \cap Lesson)
Length(b) == MapThenSumSet(LAMBDA i : item[i].duration, ItemsOf(b))

\* Items i and j are of one kind, in one block, with one order.
Clash(i, j) ==
    /\ i # j /\ item[i] # NoRow /\ item[j] # NoRow
    /\ i \in Lesson <=> j \in Lesson
    /\ item[i].block = item[j].block /\ item[i].block # NoBlock
    /\ item[i].order = item[j].order

\* Any catalogue in order, without pages.
Init ==
    \E order \in [Block -> Orders \cup {0}] :
        /\ \A a, b \in Block : (a # b /\ order[a] = order[b]) => order[a] = 0
        /\ LET Placed == [block : {b \in Block : order[b] # 0}, order : Orders,
                          duration : FirstDurations, own : {TRUE}]
           IN \E row \in [Lesson \cup Homework -> Placed \cup {NoRow}] :
                item = [i \in Item |-> IF i \in Page THEN NoRow ELSE row[i]]
        /\ \A i, j \in Item : ~Clash(i, j)
        /\ block = [b \in Block |->
             IF order[b] = 0 THEN NoRow
             ELSE [order |-> order[b], count |-> Counted(b), duration |-> Length(b)]]
        /\ used = There \cup {i \in Item : item[i] # NoRow}
        /\ temp = NoFile
        /\ req = [w \in Worker |-> Idle]
        /\ drifted = {}
        /\ requests = 0 /\ aborts = 0

-----------------------------------------------------------------------------
(* The calls a plan is made of. *)

\* findById of a block, and the entity with other statistics
Loaded(b) == [id |-> b, row |-> block[b], items |-> ItemsOf(b)]
Changed(copy, count, duration) ==
    [copy EXCEPT !.row.count = @ + count, !.row.duration = @ + duration]

SaveBlockOf(copy) == [call |-> "saveBlock", copy |-> copy, recount |-> FALSE]
\* A block that is read first, and saved with other statistics.
Adjust(b, count, duration) ==
    [call |-> "findBlock", block |-> b, count |-> count, duration |-> duration]
SaveItemOf(i, row) == [call |-> "saveItem", id |-> i, row |-> row]
InsertOf(kind, row) == [call |-> "insert", kind |-> kind, row |-> row]
RemoveOf(i) == [call |-> "remove", id |-> i]

\* An operation on the blocks and items `on' begins.
Begin(w, on) ==
    /\ req[w] = Idle
    /\ requests < MaxRequests
    /\ requests' = requests + 1
    /\ Overlap \/ \A v \in Worker : req[v].on \cap on = {}
    /\ UNCHANGED <<Tables, temp, drifted, aborts>>

Run(w, on, plan) == req' = [req EXCEPT ![w] = [step |-> "run", on |-> on, plan |-> plan]]

\* `form' is what the operation does with the video once that is uploaded.
Upload(w, on, form) ==
    /\ Overlap \/ \A v \in Worker : req[v].step \notin {"write", "send"}
    /\ req' = [req EXCEPT ![w] = [step |-> "write", on |-> on, form |-> form]]

Now(w) == Head(req[w].plan)
Calls(w, call) == req[w].step = "run" /\ Now(w).call = call

Proceed(w, rest) ==
    /\ req' = [req EXCEPT ![w] = IF rest = <<>> THEN Idle ELSE [@ EXCEPT !.plan = rest]]
    /\ UNCHANGED <<temp, requests, aborts>>
Done(w) == Proceed(w, Tail(req[w].plan))

-----------------------------------------------------------------------------
(* The plans. *)

IsLesson(kind) == IF kind = Lesson THEN 1 ELSE 0

\* A plausible bug: the lesson is inserted before the block is saved with its old lists.
InsertFirst(form, new) ==
    << InsertOf(form.kind, new),
       SaveBlockOf(Changed(form.copy, IsLesson(form.kind), new.duration)) >>

\* create: `copy' was read before the upload, `new' has its duration now.
CreatePlan(form, new) ==
    << SaveBlockOf(Changed(form.copy, IsLesson(form.kind), new.duration)),
       InsertOf(form.kind, new) >>

\* A plausible bug: a new video of a lesson that stays in its block is not accounted for.
ForgetsVideo(form, new, filed) ==
    <<SaveItemOf(form.id, new)>> \o
    IF new.block # form.old.block
    THEN << Adjust(form.old.block, -1, -form.old.duration), Adjust(new.block, 1, new.duration) >>
    ELSE <<>>

\* update of a lesson: what comes after the upload
LessonPlan(form, new, filed) ==
    <<SaveItemOf(form.id, new)>> \o
    IF new.block # form.old.block
    THEN << Adjust(form.old.block, -1, -form.old.duration), Adjust(new.block, 1, new.duration) >>
    ELSE IF filed THEN << Adjust(new.block, 0, new.duration - form.old.duration) >>
    ELSE <<>>

\* update of a homework with a video: the block it goes to is saved, the old one is not.
HomeworkPlan(form, new) ==
    << SaveBlockOf(Changed(form.copy, 0, new.duration - form.old.duration)),
       SaveItemOf(form.id, new) >>

PlanOf(form, new) ==
    CASE form.do = "create" -> CreatePlan(form, new)
      [] form.do = "lesson" -> LessonPlan(form, new, TRUE)
      [] form.do = "homework" -> HomeworkPlan(form, new)
      [] form.do = "newPage" -> <<InsertOf(form.kind, new)>>
      [] form.do = "page" -> <<SaveItemOf(form.id, new)>>

-----------------------------------------------------------------------------
(* The operations of the administrators, who name blocks that are there. *)

\* findOneByOrder
Taken(kind, b, order) ==
    \E i \in kind : item[i] # NoRow /\ item[i].block = b /\ item[i].order = order

\* create of a lesson or a homework
Create(w, kind, b, order) ==
    /\ Begin(w, {b})
    /\ b \in There
    /\ ~Taken(kind, b, order)
    /\ Upload(w, {b}, [do |-> "create", kind |-> kind, copy |-> Loaded(b),
                       new |-> [block |-> b, order |-> order]])

\* LessonService.create, HomeworkService.create
CreateLesson(w, b, order) == Create(w, Lesson, b, order)
CreateHomework(w, b, order) == Create(w, Homework, b, order)

\* LessonService.update. A new order is looked for in the block the lesson goes to; the order
\* it had is not.
UpdateLesson(w, l, b, order, filed) ==
    /\ item[l] # NoRow /\ item[l].block # NoBlock
    /\ b \in There
    /\ order = item[l].order \/ ~Taken(Lesson, b, order)
    /\ LET on == {l, item[l].block, b}
           new == [item[l] EXCEPT !.block = b, !.order = order]
           form == [do |-> "lesson", id |-> l, old |-> item[l], new |-> new]
       IN /\ Begin(w, on)
          /\ IF filed THEN Upload(w, on, form) ELSE Run(w, on, LessonPlan(form, new, FALSE))

\* LessonService.delete
DeleteLesson(w, l) ==
    /\ item[l] # NoRow /\ item[l].block # NoBlock
    /\ LET on == {l, item[l].block} IN
         /\ Begin(w, on)
         /\ Run(w, on, <<RemoveOf(l), Adjust(item[l].block, -1, -item[l].duration)>>)

\* HomeworkService.update
UpdateHomework(w, h, b, order, filed) ==
    /\ item[h] # NoRow
    /\ b \in There
    /\ order = item[h].order \/ ~Taken(Homework, b, order)
    /\ LET on == {h, item[h].block, b}
           new == [item[h] EXCEPT !.block = b, !.order = order]
       IN /\ Begin(w, on)
          /\ IF filed
             THEN Upload(w, on, [do |-> "homework", id |-> h, old |-> item[h], new |-> new,
                                 copy |-> Loaded(b)])
             ELSE Run(w, on, <<SaveItemOf(h, new)>>)

\* HomeworkService.delete: the block first
DeleteHomework(w, h) ==
    /\ item[h] # NoRow /\ item[h].block # NoBlock
    /\ LET on == {h, item[h].block} IN
         /\ Begin(w, on)
         /\ Run(w, on, <<Adjust(item[h].block, 0, -item[h].duration), RemoveOf(h)>>)

\* create of a page: the order is looked for in the course
CreatePage(w, kind, order) ==
    /\ ~Taken(kind, NoBlock, order)
    /\ Begin(w, kind)
    /\ Upload(w, kind, [do |-> "newPage", kind |-> kind,
                          new |-> [block |-> NoBlock, order |-> order]])

\* update of a page
UpdatePage(w, kind, p, order, filed) ==
    /\ item[p] # NoRow
    /\ order = item[p].order \/ ~Taken(kind, NoBlock, order)
    /\ Begin(w, kind)
    /\ LET new == [item[p] EXCEPT !.order = order] IN
         IF filed THEN Upload(w, kind, [do |-> "page", id |-> p, new |-> new])
         ELSE Run(w, kind, <<SaveItemOf(p, new)>>)

\* delete of a page
DeletePage(w, kind, p) ==
    /\ item[p] # NoRow
    /\ Begin(w, kind)
    /\ Run(w, kind, <<RemoveOf(p)>>)

\* GrammarService
CreateGrammar(w, order) == CreatePage(w, Grammar, order)
UpdateGrammar(w, order, filed) == \E p \in Grammar : UpdatePage(w, Grammar, p, order, filed)
DeleteGrammar(w) == \E p \in Grammar : DeletePage(w, Grammar, p)

\* AlphabetService
CreateAlphabet(w, order) == CreatePage(w, Alphabet, order)
UpdateAlphabet(w, order, filed) == \E p \in Alphabet : UpdatePage(w, Alphabet, p, order, filed)
DeleteAlphabet(w) == \E p \in Alphabet : DeletePage(w, Alphabet, p)

\* findByOderCourseIdAndCategory
BlockTaken(order) == \E b \in There : block[b].order = order

\* BlockService.create
CreateBlock(w, order) ==
    /\ ~BlockTaken(order)
    /\ Begin(w, Block)
    /\ Run(w, Block, <<[call |-> "insertBlock", order |-> order]>>)

\* BlockService.update
UpdateBlock(w, b, order) ==
    /\ b \in There
    /\ order = block[b].order \/ ~BlockTaken(order)
    /\ Begin(w, Block)
    /\ Run(w, Block, <<SaveBlockOf([Loaded(b) EXCEPT !.row.order = order])>>)

\* BlockService.delete
DeleteBlock(w, b) ==
    /\ b \in There
    /\ Begin(w, {b})
    /\ Run(w, {b}, <<[call |-> "removeBlock", block |-> b]>>)

\* BlockService.recalculateCountVideos
Recalculate(w, b) ==
    LET counted == [Loaded(b) EXCEPT !.row.count = Counted(b), !.row.duration = Length(b)] IN
    /\ b \in There
    /\ counted # Loaded(b)
    /\ Begin(w, {b})
    /\ Run(w, {b}, <<[SaveBlockOf(counted) EXCEPT !.recount = TRUE]>>)

-----------------------------------------------------------------------------
(* Uploading, VimeoService.uploadVideo. *)

\* A plausible bug: a temporary file that is there is taken for this upload's.
KeepFile(w) ==
    /\ req[w].step = "write"
    /\ temp' = IF temp = NoFile THEN w ELSE temp
    /\ req' = [req EXCEPT ![w].step = "send"]
    /\ UNCHANGED <<Tables, drifted, requests, aborts>>

\* fs.writeFile
WriteFile(w) ==
    /\ req[w].step = "write"
    /\ temp' = w
    /\ req' = [req EXCEPT ![w].step = "send"]
    /\ UNCHANGED <<Tables, drifted, requests, aborts>>

\* The file is sent, and deleted; its length is known, or taken as 1.
Uploaded(w, duration) ==
    /\ req[w].step = "send"
    /\ temp # NoFile
    /\ temp' = NoFile
    /\ LET form == req[w].form
           given == [block |-> form.new.block, order |-> form.new.order,
                     duration |-> duration, own |-> temp = w]
       IN Run(w, req[w].on, PlanOf(form, given))
    /\ UNCHANGED <<Tables, drifted, requests, aborts>>

\* The promise is rejected; the file stays.
UploadFails(w) ==
    /\ req[w].step = "send"
    /\ aborts < MaxAborts
    /\ aborts' = aborts + 1
    /\ req' = [req EXCEPT ![w] = Idle]
    /\ UNCHANGED <<Tables, temp, drifted, requests>>

-----------------------------------------------------------------------------
(* The awaited calls. *)

\* blockRepository.findById: a block that is gone is passed over
FindBlock(w) ==
    /\ Calls(w, "findBlock")
    /\ LET call == Now(w)
           save == SaveBlockOf(Changed(Loaded(call.block), call.count, call.duration))
           rest == Tail(req[w].plan)
       IN Proceed(w, IF call.block \in There THEN <<save>> \o rest ELSE rest)
    /\ UNCHANGED <<Tables, drifted>>

\* blockRepository.update
SaveBlock(w) ==
    /\ Calls(w, "saveBlock")
    /\ LET copy == Now(w).copy
           Saved(i) == IF item[i] = NoRow THEN NoRow
                       ELSE IF i \in copy.items THEN [item[i] EXCEPT !.block = copy.id]
                       ELSE IF item[i].block = copy.id THEN [item[i] EXCEPT !.block = NoBlock]
                       ELSE item[i]
       IN /\ block' = [block EXCEPT ![copy.id] = copy.row]
          /\ item' = [i \in Item |-> Saved(i)]
          /\ drifted' = IF Now(w).recount THEN drifted \ {copy.id} ELSE drifted
    /\ Done(w)
    /\ UNCHANGED used

\* blockRepository.create
InsertBlock(w, b) ==
    /\ Calls(w, "insertBlock")
    /\ b \notin used
    /\ block' = [block EXCEPT ![b] = [order |-> Now(w).order, count |-> 0, duration |-> 0]]
    /\ used' = used \cup {b}
    /\ Done(w)
    /\ UNCHANGED <<item, drifted>>

\* blockRepository.delete: refused while a lesson is in the block, homeworks lose it
RemoveBlock(w) ==
    /\ Calls(w, "removeBlock")
    /\ LET b == Now(w).block IN
         /\ ItemsOf(b) \cap Lesson = {}
         /\ block' = [block EXCEPT ![b] = NoRow]
         /\ item' = [i \in Item |-> IF i \in ItemsOf(b) THEN [item[i] EXCEPT !.block = NoBlock]
                                    ELSE item[i]]
    /\ Done(w)
    /\ UNCHANGED <<used, drifted>>

\* lessonRepository.create, homeworkRepository.create
Insert(w, i) ==
    /\ Calls(w, "insert")
    /\ i \in Now(w).kind \ used
    /\ Now(w).row.block \in There \cup {NoBlock}
    /\ item' = [item EXCEPT ![i] = Now(w).row]
    /\ used' = used \cup {i}
    /\ Done(w)
    /\ UNCHANGED <<block, drifted>>

\* lessonRepository.update, homeworkRepository.update. A homework that moves leaves both
\* blocks with the statistics they had.
SaveItem(w) ==
    /\ Calls(w, "saveItem")
    /\ LET i == Now(w).id
           row == Now(w).row
       IN /\ row.block \in There \cup {NoBlock}
          /\ item' = [item EXCEPT ![i] = row]
          /\ drifted' = IF i \in Homework /\ item[i] # NoRow /\ item[i].block # row.block
                        THEN drifted \cup ({item[i].block, row.block} \cap Block) ELSE drifted
    /\ Done(w)
    /\ UNCHANGED <<block, used>>

\* lessonRepository.delete, homeworkRepository.delete
Remove(w) ==
    /\ Calls(w, "remove")
    /\ item' = [item EXCEPT ![Now(w).id] = NoRow]
    /\ Done(w)
    /\ UNCHANGED <<block, used, drifted>>

\* A foreign key refuses a removal or a write. The rest of the plan is lost; a homework that
\* stays has been taken out of the statistics.
Refused(w) ==
    /\ \/ Calls(w, "remove")
       \/ Calls(w, "removeBlock")
       \/ /\ Calls(w, "insert") \/ Calls(w, "saveItem")
          /\ Now(w).row.block \notin There \cup {NoBlock}
    /\ LET harmless == Calls(w, "removeBlock") \/ (Calls(w, "remove") /\ Now(w).id \in Lesson)
       IN drifted' = IF harmless THEN drifted ELSE drifted \cup (req[w].on \cap Block)
    /\ Proceed(w, <<>>)
    /\ UNCHANGED Tables

\* An exception of an awaited call, or a restart of the process.
AbortOperation(w) ==
    /\ req[w].step = "run"
    /\ aborts < MaxAborts
    /\ aborts' = aborts + 1
    /\ drifted' = drifted \cup (req[w].on \cap Block)
    /\ req' = [req EXCEPT ![w] = Idle]
    /\ UNCHANGED <<Tables, temp, requests>>

Operate(w) ==
    \/ \E b \in Block, order \in Orders :
         \/ CreateLesson(w, b, order) \/ CreateHomework(w, b, order)
         \/ \E l \in Lesson, filed \in BOOLEAN : UpdateLesson(w, l, b, order, filed)
         \/ \E h \in Homework, filed \in BOOLEAN : UpdateHomework(w, h, b, order, filed)
         \/ UpdateBlock(w, b, order)
    \/ \E order \in Orders, filed \in BOOLEAN :
         \/ CreateBlock(w, order) \/ CreateGrammar(w, order) \/ CreateAlphabet(w, order)
         \/ UpdateGrammar(w, order, filed) \/ UpdateAlphabet(w, order, filed)
    \/ DeleteGrammar(w) \/ DeleteAlphabet(w)
    \/ \E b \in Block : DeleteBlock(w, b) \/ Recalculate(w, b)
    \/ \E l \in Lesson : DeleteLesson(w, l)
    \/ \E h \in Homework : DeleteHomework(w, h)

Handle(w) ==
    \/ WriteFile(w)
    \/ \E duration \in Durations : Uploaded(w, duration)
    \/ FindBlock(w) \/ SaveBlock(w) \/ RemoveBlock(w)
    \/ \E b \in Block : InsertBlock(w, b)
    \/ \E i \in Item : Insert(w, i)
    \/ SaveItem(w) \/ Remove(w) \/ Refused(w)

Next == \E w \in Worker : Operate(w) \/ Handle(w) \/ UploadFails(w) \/ AbortOperation(w)

Spec == Init /\ [][Next]_vars

-----------------------------------------------------------------------------
(* Properties. *)

TypeOK ==
    /\ block \in [Block -> BlockRow \cup {NoRow}]
    /\ item \in [Item -> ItemRow \cup {NoRow}]
    /\ used \subseteq Block \cup Item
    /\ temp \in Worker \cup {NoFile}
    /\ drifted \subseteq Block
    /\ requests \in 0..MaxRequests /\ aborts \in 0..MaxAborts

\* The statistics of a block that no operation works on are those of its lessons and
\* homeworks, except where the code leaves them wrong: a homework was moved or could not be
\* deleted, or an operation was abandoned, and they were not recalculated since.
\* (block.service.ts:143, recalculateCountVideos.)
StatsMatch ==
    \A b \in There \ drifted :
        (\A w \in Worker : b \notin req[w].on)
            => block[b].count = Counted(b) /\ block[b].duration = Length(b)

\* No lesson is left without a block by the lists that a save of a block writes back.
\* Operations come one at a time on a block: an overlapping one does take lessons out (Overlap).
\* (lesson.service.ts:69, the save of the block that was read before the upload.)
LessonKeepsBlock == \A l \in Lesson : item[l] # NoRow => item[l].block \in There

\* Every lesson, homework and page shows the video its administrator gave, although all uploads
\* share a file, and an upload that fails leaves it behind, while uploads come one at a time: two
\* at once do mix (Overlap). (vimeo.service.ts:47.)
OwnVideo == \A i \in Item : item[i] # NoRow => item[i].own
=============================================================================
