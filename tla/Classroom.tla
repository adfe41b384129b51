----------------------------- MODULE Classroom -----------------------------
(* The Telegram chat of one teacher, where the lectures of several groups are   *)
(* held: the bot that tracks who is in it, the clean-up after a lecture and the  *)
(* invite link (telegram-bot/services/telegram-bot.service.ts), and the date of  *)
(* the lecture that follows (Calendar). The life of a lecture and the races for  *)
(* it are those of module Lectures; here its events are single steps.            *)
(*                                                                               *)
(* Telegram keeps the chat: who is inside or banned, the links that work, and    *)
(* the updates the bot has not confirmed. The bot keeps a row of each member it  *)
(* was told of. A call to Telegram is tried four times before it fails.          *)
EXTENDS Calendar, FiniteSets

CONSTANTS
    Student, Group,
    FirstDays,     \* the days a group may start on
    Late,          \* the weeks a lecture may be completed late
    MaxLectures,   \* bound of the model: lectures completed
    MaxUpdates,    \* bound of the model: updates not confirmed when a student joins or leaves
    MaxLinks,      \* bound of the model: invite links
    MaxFaults      \* bound of the model: calls that fail, and restarts

ASSUME ClassroomAssumption ==
    /\ FirstDays \subseteq Nat /\ Late \subseteq Nat /\ MaxLinks > 0
    /\ {MaxLectures, MaxUpdates, MaxLinks, MaxFaults} \subseteq Nat

VARIABLES
    inside, banned,      \* the chat: its members and those it shuts out
    links, primary,      \* the invite links that work, and the primary one
    updates,             \* updates that Telegram has not seen confirmed
    poll,                \* the batch of getUpdates: its length, what of it is handled
    adding,              \* handleChatMemberUpdate between its find and its save
    member,              \* group_telegram_members of the chat
    teacherLink,         \* users.telegramGroupLink of the teacher
    lecture,             \* the current lecture of each group
    cleanup,             \* handleLectureCompleted, one for each completed lecture
    completed, lastLink, restarts,
    missed, stuck, broken, \* history: bans that failed, unbans that failed, links that failed
    overlapped           \* history: a lecture was completed during a clean-up

vars == <<inside, banned, links, primary, updates, poll, adding, member, teacherLink, lecture,
          cleanup, completed, lastLink, restarts, missed, stuck, broken, overlapped>>

chat == <<inside, banned, links, primary>>
bot == <<updates, poll, adding, member>>
history == <<missed, stuck, broken, overlapped>>

Handler == 1..MaxLectures
NoCleanup == [step |-> "none"]
Nobody == "nobody"
Links == 0..MaxLinks
Lecture == [status : {"SCHEDULED", "ASSIGNED", "ONGOING"}, link : Links, day : Nat, hour : 9..20]
Cleanup == [step : {"teacher", "find", "ban", "unban", "delete", "revoke", "export", "save"},
            list : SUBSET Student, student : Student \cup {Nobody}, old : Links, new : Links]

TypeOK ==
    /\ inside \subseteq Student /\ banned \subseteq Student
    /\ links \subseteq Links /\ primary \in Links
    /\ updates \in Seq([student : Student, status : {"member", "left"}])
    /\ poll \in [size : Nat, handled : Nat]
    /\ poll.handled <= poll.size /\ poll.size <= Len(updates)
    /\ adding \in Student \cup {Nobody}
    /\ member \subseteq Student
    /\ teacherLink \in Links
    /\ lecture \in [Group -> Lecture]
    /\ cleanup \in [Handler -> Cleanup \cup {NoCleanup}]
    /\ completed \in 0..MaxLectures /\ lastLink \in Links /\ restarts \in 0..MaxFaults
    /\ missed \subseteq Student /\ stuck \subseteq Student /\ broken \in 0..MaxFaults
    /\ overlapped \in BOOLEAN

Init ==
    /\ inside = {} /\ banned = {}
    /\ links = {1} /\ primary = 0
    /\ updates = <<>> /\ poll = [size |-> 0, handled |-> 0] /\ adding = Nobody
    /\ member = {}
    /\ teacherLink = 1
    /\ \E first \in [Group -> FirstDays] :
         lecture = [g \in Group |-> [status |-> "SCHEDULED", link |-> 0,
                                     day |-> first[g], hour |-> FirstHour]]
    /\ cleanup = [h \in Handler |-> NoCleanup]
    /\ completed = 0 /\ lastLink = 1 /\ restarts = 0
    /\ missed = {} /\ stuck = {} /\ broken = 0
    /\ overlapped = FALSE

-----------------------------------------------------------------------------
(* Lectures. *)

\* The teacher claims the lecture, which takes the teacher's link as it is then.
ClaimLecture(g) ==
    /\ lecture[g].status = "SCHEDULED"
    /\ lecture' = [lecture EXCEPT ![g].status = "ASSIGNED", ![g].link = teacherLink]
    /\ UNCHANGED <<chat, bot, teacherLink, cleanup, completed, lastLink, restarts, history>>

\* A lecture the bound leaves no completion for is not followed.
StartLecture(g) ==
    /\ lecture[g].status = "ASSIGNED"
    /\ completed < MaxLectures
    /\ lecture' = [lecture EXCEPT ![g].status = "ONGOING"]
    /\ UNCHANGED <<chat, bot, teacherLink, cleanup, completed, lastLink, restarts, history>>

CanFail == Cardinality(missed) + Cardinality(stuck) + broken + restarts < MaxFaults
Idle == \A h \in Handler : cleanup[h] = NoCleanup

\* lecture.completed: the next lecture is scheduled and its own handler begins the clean-up, whether
\* or not another one still runs.
CompleteLecture(g) ==
    /\ lecture[g].status = "ONGOING"
    /\ completed < MaxLectures
    /\ completed' = completed + 1
    /\ \E late \in Late :
         LET next == NextLecture(lecture[g], lecture[g].day + 7 * late)
         IN lecture' = [lecture EXCEPT ![g] = [status |-> "SCHEDULED", link |-> 0,
                                               day |-> next.day, hour |-> next.hour]]
    /\ cleanup' = [cleanup EXCEPT ![completed + 1] = [step |-> "teacher", list |-> {},
                                                      student |-> Nobody, old |-> 0, new |-> 0]]
    /\ overlapped' = (overlapped \/ ~Idle)
    /\ UNCHANGED <<chat, bot, teacherLink, lastLink, restarts, missed, stuck, broken>>

-----------------------------------------------------------------------------
(* Telegram. *)

Reports(s, status) == updates' = Append(updates, [student |-> s, status |-> status])

\* A student follows the link of a lecture.
Join(s) ==
    /\ s \notin inside \cup banned
    /\ \E g \in Group : lecture[g].status # "SCHEDULED" /\ lecture[g].link \in links
    /\ Len(updates) < MaxUpdates
    /\ inside' = inside \cup {s}
    /\ Reports(s, "member")
    /\ UNCHANGED <<banned, links, primary, poll, adding, member, teacherLink, lecture, cleanup,
                   completed, lastLink, restarts, history>>

Leave(s) ==
    /\ s \in inside
    /\ Len(updates) < MaxUpdates
    /\ inside' = inside \ {s}
    /\ Reports(s, "left")
    /\ UNCHANGED <<banned, links, primary, poll, adding, member, teacherLink, lecture, cleanup,
                   completed, lastLink, restarts, history>>

-----------------------------------------------------------------------------
(* startManualPolling. *)

Others == <<chat, teacherLink, lecture, cleanup, completed, lastLink, restarts, history>>

\* The next getUpdates confirms what was handled, and reads the rest.
GetUpdates ==
    /\ poll.handled = poll.size /\ adding = Nobody
    /\ updates # <<>>
    /\ updates' = SubSeq(updates, poll.handled + 1, Len(updates))
    /\ poll' = [size |-> Len(updates) - poll.handled, handled |-> 0]
    /\ UNCHANGED <<Others, adding, member>>

\* handleChatMemberUpdate: a member who is known or has left takes one statement.
HandleUpdate ==
    /\ poll.handled < poll.size /\ adding = Nobody
    /\ LET u == updates[poll.handled + 1]
       IN IF u.status = "member" /\ u.student \notin member
          THEN adding' = u.student /\ UNCHANGED <<poll, member>>
          ELSE /\ member' = IF u.status = "left" THEN member \ {u.student} ELSE member
               /\ poll' = [poll EXCEPT !.handled = @ + 1]
               /\ UNCHANGED adding
    /\ UNCHANGED <<Others, updates>>

SaveMember ==
    /\ adding # Nobody
    /\ member' = member \cup {adding}
    /\ adding' = Nobody
    /\ poll' = [poll EXCEPT !.handled = @ + 1]
    /\ UNCHANGED <<Others, updates>>

-----------------------------------------------------------------------------
(* handleLectureCompleted: removeStudentsFromGroup, then rotateInviteLink. *)

Cleaning(h, step) == cleanup[h].step = step
Kept == <<teacherLink, lecture, completed, restarts, overlapped>>

\* The link of the teacher is the old one from here on.
FindTeacher(h) ==
    /\ Cleaning(h, "teacher")
    /\ cleanup' = [cleanup EXCEPT ![h].step = "find", ![h].old = teacherLink]
    /\ UNCHANGED <<chat, bot, Kept, lastLink, missed, stuck, broken>>

\* Without a row nobody is removed.
FindMembers(h) ==
    /\ Cleaning(h, "find")
    /\ cleanup' = [cleanup EXCEPT ![h].step = IF member = {} THEN "revoke" ELSE "ban",
                                  ![h].list = member]
    /\ UNCHANGED <<chat, bot, Kept, lastLink, missed, stuck, broken>>

\* Student s of the list has been dealt with.
Advance(h, s) ==
    cleanup' = [cleanup EXCEPT
                    ![h].list = @ \ {s}, ![h].student = Nobody,
                    ![h].step = IF cleanup[h].list \ {s} = {} THEN "delete" ELSE "ban"]

BanMember(h) ==
    /\ Cleaning(h, "ban")
    /\ \E s \in cleanup[h].list :
        /\ inside' = inside \ {s}
        /\ banned' = banned \cup {s}
        /\ IF s \in inside THEN Reports(s, "left") ELSE UNCHANGED updates
        /\ cleanup' = [cleanup EXCEPT ![h].step = "unban", ![h].student = s]
    /\ UNCHANGED <<links, primary, poll, adding, member, Kept, lastLink, missed, stuck, broken>>

\* A plausible bug: the first ban that fails ends the loop.
FailedBanEndsLoop(h) ==
    /\ Cleaning(h, "ban") /\ CanFail
    /\ \E s \in cleanup[h].list : missed' = missed \cup {s}
    /\ cleanup' = [cleanup EXCEPT ![h].list = {}, ![h].step = "delete"]
    /\ UNCHANGED <<chat, bot, Kept, lastLink, stuck, broken>>

\* A ban that fails is passed over.
FailedBan(h) ==
    /\ Cleaning(h, "ban") /\ CanFail
    /\ \E s \in cleanup[h].list :
        /\ missed' = missed \cup {s}
        /\ Advance(h, s)
    /\ UNCHANGED <<chat, bot, Kept, lastLink, stuck, broken>>

\* A plausible bug: members are removed for good.
BanForGood(h) ==
    /\ Cleaning(h, "unban")
    /\ Advance(h, cleanup[h].student)
    /\ UNCHANGED <<chat, bot, Kept, lastLink, missed, stuck, broken>>

UnbanMember(h) ==
    /\ Cleaning(h, "unban")
    /\ \/ banned' = banned \ {cleanup[h].student} /\ UNCHANGED stuck
       \/ CanFail /\ stuck' = stuck \cup {cleanup[h].student} /\ UNCHANGED banned
    /\ Advance(h, cleanup[h].student)
    /\ UNCHANGED <<inside, links, primary, bot, Kept, lastLink, missed, broken>>

\* The rows of the chat are deleted, whoever they are of by now.
DeleteMembers(h) ==
    /\ Cleaning(h, "delete")
    /\ member' = {}
    /\ cleanup' = [cleanup EXCEPT ![h].step = "revoke"]
    /\ UNCHANGED <<chat, updates, poll, adding, Kept, lastLink, missed, stuck, broken>>

\* A link that cannot be revoked is left as it is.
RevokeLink(h) ==
    /\ Cleaning(h, "revoke")
    /\ \/ links' = links \ {cleanup[h].old} /\ UNCHANGED broken
       \/ CanFail /\ broken' = broken + 1 /\ UNCHANGED links
    /\ cleanup' = [cleanup EXCEPT ![h].step = "export"]
    /\ UNCHANGED <<inside, banned, primary, bot, Kept, lastLink, missed, stuck>>

\* A new primary link takes the place of the one before. Without one the handler ends.
ExportLink(h) ==
    /\ Cleaning(h, "export")
    /\ lastLink < MaxLinks
    /\ \/ /\ lastLink' = lastLink + 1
          /\ primary' = lastLink + 1
          /\ links' = (links \ {primary}) \cup {lastLink + 1}
          /\ cleanup' = [cleanup EXCEPT ![h].step = "save", ![h].new = lastLink + 1]
          /\ UNCHANGED broken
       \/ /\ CanFail
          /\ broken' = broken + 1
          /\ cleanup' = [cleanup EXCEPT ![h] = NoCleanup]
          /\ UNCHANGED <<lastLink, primary, links>>
    /\ UNCHANGED <<inside, banned, bot, Kept, missed, stuck>>

\* A plausible bug: the teacher keeps the link that was read first.
SaveOldLink(h) ==
    /\ Cleaning(h, "save")
    /\ teacherLink' = cleanup[h].old
    /\ cleanup' = [cleanup EXCEPT ![h] = NoCleanup]
    /\ UNCHANGED <<chat, bot, lecture, completed, restarts, lastLink, history>>

SaveLink(h) ==
    /\ Cleaning(h, "save")
    /\ teacherLink' = cleanup[h].new
    /\ cleanup' = [cleanup EXCEPT ![h] = NoCleanup]
    /\ UNCHANGED <<chat, bot, lecture, completed, restarts, lastLink, history>>

\* The process starts again: the handlers are gone, and so is the offset of the polling; what
\* was not confirmed comes again.
Restart ==
    /\ CanFail
    /\ restarts' = restarts + 1
    /\ poll' = [size |-> 0, handled |-> 0]
    /\ adding' = Nobody
    /\ cleanup' = [h \in Handler |-> NoCleanup]
    /\ stuck' = stuck \cup banned
    /\ UNCHANGED <<chat, updates, member, teacherLink, lecture, completed, lastLink, missed, broken,
                   overlapped>>

CleanUp(h) ==
    \/ FindTeacher(h) \/ FindMembers(h)
    \/ BanMember(h) \/ FailedBan(h) \/ UnbanMember(h) \/ DeleteMembers(h)
    \/ RevokeLink(h) \/ ExportLink(h) \/ SaveLink(h)

Next ==
    \/ \E g \in Group : ClaimLecture(g) \/ StartLecture(g) \/ CompleteLecture(g)
    \/ \E s \in Student : Join(s) \/ Leave(s)
    \/ GetUpdates \/ HandleUpdate \/ SaveMember
    \/ \E h \in Handler : CleanUp(h)
    \/ Restart

Fairness ==
    /\ WF_vars(GetUpdates) /\ WF_vars(HandleUpdate) /\ WF_vars(SaveMember)
    /\ \A h \in Handler : WF_vars(CleanUp(h))

Spec == Init /\ [][Next]_vars /\ Fairness

-----------------------------------------------------------------------------
(* Properties. *)

\* A student a clean-up has found leaves the chat, whoever joins or leaves meanwhile, even if
\* removing another student fails and while another clean-up works on the same chat.
\* (telegram-bot.service.ts:514, the loop.)
TrackedStudentLeaves ==
    \A s \in Student :
        (\E h \in Handler : Cleaning(h, "ban") /\ s \in cleanup[h].list)
            ~> (s \notin inside \/ s \in missed \/ restarts > 0)

\* When no clean-up runs nobody is shut out who was not left so by a failed call or a restart,
\* also when two clean-ups have removed the same student.
\* (telegram-bot.service.ts:498, 'qayta qo''shilish imkonini berish'.)
StudentsCanReturn == Idle => banned \subseteq stuck

\* When no clean-up runs exactly one link works, unless a call failed or the process was
\* restarted: clean-ups that overlap neither leave an old link open nor the chat without one.
\* It is the teacher's link, which the next claim copies, unless two clean-ups overlapped.
\* (telegram-bot.service.ts:546.)
SavedLinkWorks ==
    (Idle /\ broken = 0 /\ restarts = 0) =>
        /\ Cardinality(links) = 1
        /\ overlapped \/ links = {teacherLink}

\* A lecture that is scheduled after another one, in time or late, is at least a week after
\* it, in a slot, neither on a Sunday nor in the hours of the Friday prayer.
\* (schedule-calculator.service.ts:36.)
FollowsTheCalendar ==
    [][\A g \in Group : lecture'[g].status = "SCHEDULED" /\ lecture[g].status = "ONGOING" =>
         LET next == lecture'[g]
         IN /\ next.day >= lecture[g].day + 7
            /\ next.hour \in {TimeSlots[i] : i \in DOMAIN TimeSlots}
            /\ Weekday(next.day) # Sunday
            /\ ~(Weekday(next.day) = Friday /\ next.hour \in {12, 13})]_vars
=============================================================================
