-------------------------- MODULE ClassroomProofs --------------------------
(***************************************************************************)
(* What holds of a teacher's chat for any number of students, groups,      *)
(* lectures, failed calls and restarts, and of clean-ups that overlap.     *)
(***************************************************************************)
EXTENDS Classroom, FiniteSetTheorems, WellFoundedInduction, TLAPS

-----------------------------------------------------------------------------
(***************************************************************************)
(* The calendar. calculateNextLectureTime calls itself, but only once: the *)
(* slot after one that a Friday prayer blocks is not blocked a week later. *)
(* Its repetition by scheduleNextLecture is a recursive function of times. *)
(* That such a function exists follows from the set of times it passes by  *)
(* (Reached); that its results are proper times follows for the last time  *)
(* before today of which they would not be.                                *)
(***************************************************************************)
Slots == DOMAIN TimeSlots
After(n) == (n % Len(TimeSlots)) + 1

LEMMA SlotHours ==
  /\ Slots = 1..12 /\ Len(TimeSlots) = 12
  /\ \A n \in Slots : TimeSlots[n] \in 9..20 /\ After(n) \in Slots
  /\ \A n \in Slots : \A d : Blocked(d, TimeSlots[n]) => ~Blocked(d + 7, TimeSlots[After(n)])
<1>1. Slots = 1..12 /\ Len(TimeSlots) = 12
  BY DEF Slots, TimeSlots
<1>2. \A n \in Slots : TimeSlots[n] \in 9..20 /\ After(n) \in Slots
  BY <1>1 DEF TimeSlots, After
<1>3. ASSUME NEW n \in Slots, NEW d, Blocked(d, TimeSlots[n])
      PROVE  ~(12 <= TimeSlots[After(n)] /\ TimeSlots[After(n)] < 14)
  BY <1>1, <1>3 DEF TimeSlots, After, Blocked
<1>4. QED
  BY <1>1, <1>2, <1>3 DEF Blocked

LEMMA StepIs == ASSUME NEW hour PROVE StepOf(hour) + 1 \in Slots /\ StepOf(hour) \in 0..11
<1>1. CASE \E i \in DOMAIN TimeSlots : TimeSlots[i] = hour
  <2>1. PICK n : n = CHOOSE i \in DOMAIN TimeSlots : TimeSlots[i] = hour
    OBVIOUS
  <2>2. n \in Slots
    BY <1>1, <2>1 DEF Slots
  <2>3. QED
    BY <1>1, <2>1, <2>2, SlotHours DEF StepOf
<1>2. CASE ~\E i \in DOMAIN TimeSlots : TimeSlots[i] = hour
  BY <1>2, SlotHours DEF StepOf
<1>3. QED
  BY <1>1, <1>2

LEMMA WeekIs ==
  ASSUME NEW d \in Nat
  PROVE  /\ WeekAfter(d) \in Nat /\ WeekAfter(d) >= d + 7 /\ Weekday(WeekAfter(d)) # Sunday
         /\ Weekday(d) = Friday => WeekAfter(d) = d + 7 /\ Weekday(d + 7) = Friday
  BY DEF WeekAfter, Weekday, Sunday, Friday

\* The first time after d that is not blocked
Free(d, n) ==
    IF Blocked(d, TimeSlots[n]) THEN [day |-> WeekAfter(d), hour |-> TimeSlots[After(n)]]
    ELSE [day |-> d, hour |-> TimeSlots[n]]

Proper(t) ==
    /\ t \in [day : Nat, hour : Nat]
    /\ t.hour \in {TimeSlots[i] : i \in DOMAIN TimeSlots}
    /\ Weekday(t.day) # Sunday /\ ~Blocked(t.day, t.hour)

LEMMA FreeIs ==
  ASSUME NEW d \in Nat, NEW n \in Slots, Weekday(d) # Sunday
  PROVE  Proper(Free(d, n)) /\ Free(d, n).day >= d
<1>1. CASE Blocked(d, TimeSlots[n])
  <2>1. WeekAfter(d) = d + 7 /\ Weekday(d + 7) = Friday
    BY <1>1, WeekIs DEF Blocked
  <2>2. Free(d, n) = [day |-> d + 7, hour |-> TimeSlots[After(n)]]
    BY <1>1, <2>1 DEF Free
  <2>3. After(n) \in Slots /\ TimeSlots[After(n)] \in Nat /\ ~Blocked(d + 7, TimeSlots[After(n)])
    BY <1>1, SlotHours
  <2>4. QED
    BY <2>1, <2>2, <2>3 DEF Proper, Slots, Friday, Sunday
<1>2. CASE ~Blocked(d, TimeSlots[n])
  <2>1. Free(d, n) = [day |-> d, hour |-> TimeSlots[n]]
    BY <1>2 DEF Free
  <2>2. TimeSlots[n] \in Nat
    BY SlotHours
  <2>3. QED
    BY <1>2, <2>1, <2>2 DEF Proper, Slots
<1>3. QED
  BY <1>1, <1>2

\* calculateNextLectureTime looks at two weeks at most.
Point == [day : Nat, slot : Slots]
Next1(t) == [day |-> WeekAfter(t.day), slot |-> After(t.slot)]
FreeOf(t) == Free(t.day, t.slot)
NextSearch(f) ==
    f = [t \in Point |-> IF Blocked(t.day, TimeSlots[t.slot]) THEN f[Next1(t)]
                         ELSE [day |-> t.day, hour |-> TimeSlots[t.slot]]]

LEMMA Step1 ==
  ASSUME NEW t \in Point
  PROVE  /\ Next1(t) \in Point
         /\ FreeOf(t) = IF Blocked(t.day, TimeSlots[t.slot]) THEN FreeOf(Next1(t))
                        ELSE [day |-> t.day, hour |-> TimeSlots[t.slot]]
         /\ Blocked(t.day, TimeSlots[t.slot]) =>
              ~Blocked(Next1(t).day, TimeSlots[Next1(t).slot])
<1>1. t.day \in Nat /\ t.slot \in Slots /\ After(t.slot) \in Slots /\ WeekAfter(t.day) \in Nat
  BY WeekIs, SlotHours DEF Point
<1>2. Next1(t) \in Point /\ Next1(t).day = WeekAfter(t.day) /\ Next1(t).slot = After(t.slot)
  BY <1>1 DEF Next1, Point
<1>3. CASE Blocked(t.day, TimeSlots[t.slot])
  <2>1. WeekAfter(t.day) = t.day + 7 /\ ~Blocked(t.day + 7, TimeSlots[After(t.slot)])
    BY <1>1, <1>3, WeekIs, SlotHours DEF Blocked
  <2>2. QED
    BY <1>2, <1>3, <2>1 DEF FreeOf, Free
<1>4. CASE ~Blocked(t.day, TimeSlots[t.slot])
  BY <1>2, <1>4 DEF FreeOf, Free
<1>5. QED
  BY <1>3, <1>4

LEMMA SearchExists == NextSearch(CHOOSE f : NextSearch(f))
<1>1. NextSearch([t \in Point |-> FreeOf(t)])
  BY Step1 DEF NextSearch
<1>2. QED
  BY <1>1

\* calculateNextLectureTime looks at two weeks at most.
LEMMA NextIsFree ==
  ASSUME NEW d \in Nat, NEW step \in 0..11
  PROVE  CalculateNext(d, step) = Free(WeekAfter(d), After(step + 1))
<1>1. CalculateNext(d, step)
        = (CHOOSE f : NextSearch(f))[[day |-> WeekAfter(d), slot |-> After(step + 1)]]
  BY DEF CalculateNext, NextSearch, Point, Next1, Slots, After
<1>2. PICK f : f = CHOOSE g : NextSearch(g)
  OBVIOUS
<1>3. NextSearch(f)
  BY <1>2, SearchExists
<1>4. ASSUME NEW t \in Point PROVE f[t] = FreeOf(t)
  <2>1. \A u \in Point : f[u] = IF Blocked(u.day, TimeSlots[u.slot]) THEN f[Next1(u)]
                                ELSE [day |-> u.day, hour |-> TimeSlots[u.slot]]
    BY <1>3 DEF NextSearch
  <2>2. CASE Blocked(t.day, TimeSlots[t.slot])
    <3>1. f[t] = f[Next1(t)]
      BY <2>1, <2>2
    <3>2. f[Next1(t)] = [day |-> Next1(t).day, hour |-> TimeSlots[Next1(t).slot]]
      BY <2>1, <2>2, Step1
    <3>3. FreeOf(Next1(t)) = [day |-> Next1(t).day, hour |-> TimeSlots[Next1(t).slot]]
      BY <2>2, Step1 DEF FreeOf, Free
    <3>4. QED
      BY <2>2, <3>1, <3>2, <3>3, Step1
  <2>3. CASE ~Blocked(t.day, TimeSlots[t.slot])
    BY <2>1, <2>3, Step1
  <2>4. QED
    BY <2>2, <2>3
<1>5. PICK t \in Point : t = [day |-> WeekAfter(d), slot |-> After(step + 1)]
  <2>1. step + 1 \in Slots
    BY SlotHours
  <2>2. QED
    BY <2>1, WeekIs, SlotHours DEF Point
<1>6. QED
  BY <1>1, <1>2, <1>4, <1>5 DEF FreeOf

LEMMA CalculateNextIs ==
  ASSUME NEW d \in Nat, NEW hour
  PROVE  LET next == CalculateNext(d, StepOf(hour)) IN Proper(next) /\ next.day >= d + 7
<1>1. PICK step \in 0..11 : step = StepOf(hour) /\ step + 1 \in Slots
  BY StepIs
<1>2. After(step + 1) \in Slots
  BY <1>1, SlotHours
<1>3. /\ WeekAfter(d) \in Nat /\ WeekAfter(d) >= d + 7 /\ Weekday(WeekAfter(d)) # Sunday
  BY WeekIs
<1>4. PICK t : t = Free(WeekAfter(d), After(step + 1))
  OBVIOUS
<1>5. Proper(t) /\ t.day >= WeekAfter(d)
  BY <1>2, <1>3, <1>4, FreeIs
<1>6. t.day \in Nat
  BY <1>5 DEF Proper
<1>7. CalculateNext(d, StepOf(hour)) = t
  BY <1>1, <1>4, NextIsFree
<1>8. QED
  BY <1>3, <1>5, <1>6, <1>7

Time == [day : Nat, hour : Nat]
Following(t) == CalculateNext(t.day, StepOf(t.hour))

AheadOf(f, today) == f = [t \in Time |-> IF t.day < today THEN f[Following(t)] ELSE t]

\* What is reached from t by way of times before day `today'
Closed(S, today) == \A u \in S : u.day < today => Following(u) \in S
Reached(t, today) == {u \in Time : \A S \in SUBSET Time : t \in S /\ Closed(S, today) => u \in S}
Ends(t, today) == {u \in Reached(t, today) : ~(u.day < today)}

LEMMA FollowingTime == ASSUME NEW t \in Time PROVE Following(t) \in Time
  BY CalculateNextIs DEF Time, Following, Proper

LEMMA ReachedStep ==
  ASSUME NEW t \in Time, NEW today
  PROVE  Ends(t, today) = IF t.day < today THEN Ends(Following(t), today) ELSE {t}
<1>1. Following(t) \in Time
  BY FollowingTime
<1>2. t \in Reached(t, today)
  BY DEF Reached
<1>3. CASE t.day < today
  <2>1. PICK R : R = Reached(Following(t), today)
    OBVIOUS
  <2>2. R \subseteq Reached(t, today)
    <3>1. ASSUME NEW S \in SUBSET Time, t \in S, Closed(S, today) PROVE Following(t) \in S
      BY <1>3, <3>1 DEF Closed
    <3>2. QED
      BY <2>1, <3>1 DEF Reached
  <2>3. Closed(R, today)
    <3> SUFFICES ASSUME NEW u \in R, u.day < today PROVE Following(u) \in R
      BY DEF Closed
    <3>1. u \in Time /\ Following(u) \in Time
      BY <2>1, FollowingTime DEF Reached
    <3>2. ASSUME NEW S \in SUBSET Time, Following(t) \in S, Closed(S, today)
          PROVE  Following(u) \in S
      BY <2>1, <3>2 DEF Reached, Closed
    <3>3. QED
      BY <2>1, <3>1, <3>2 DEF Reached
  <2>4. Following(t) \in R /\ R \subseteq Time
    BY <1>1, <2>1 DEF Reached
  <2>5. Closed({t} \cup R, today) /\ {t} \cup R \in SUBSET Time
    BY <2>3, <2>4 DEF Closed
  <2>6. Reached(t, today) \subseteq {t} \cup R
    BY <2>5 DEF Reached
  <2>7. QED
    BY <1>3, <2>1, <2>2, <2>6 DEF Ends
<1>4. CASE ~(t.day < today)
  <2>1. Closed({t}, today)
    BY <1>4 DEF Closed
  <2>2. Reached(t, today) \subseteq {t}
    BY <2>1 DEF Reached
  <2>3. QED
    BY <1>2, <1>4, <2>2 DEF Ends
<1>5. QED
  BY <1>3, <1>4

LEMMA AheadExists == ASSUME NEW today PROVE AheadOf(CHOOSE f : AheadOf(f, today), today)
<1>1. PICK A : A = [t \in Time |-> CHOOSE u : u \in Ends(t, today)]
  OBVIOUS
<1>2. ASSUME NEW t \in Time PROVE A[t] = IF t.day < today THEN A[Following(t)] ELSE t
  <2>1. CASE t.day < today
    <3>1. Following(t) \in Time /\ Ends(t, today) = Ends(Following(t), today)
      BY <2>1, FollowingTime, ReachedStep
    <3>2. A[t] = A[Following(t)]
      BY <1>1, <3>1
    <3>3. QED
      BY <2>1, <3>2
  <2>2. CASE ~(t.day < today)
    <3>1. Ends(t, today) = {t}
      BY <2>2, ReachedStep
    <3>2. (CHOOSE u : u \in {t}) = t
      OBVIOUS
    <3>3. QED
      BY <1>1, <2>2, <3>1, <3>2
  <2>3. QED
    BY <2>1, <2>2
<1>3. AheadOf(A, today)
  BY <1>1, <1>2 DEF AheadOf
<1>4. QED
  BY <1>3

LEMMA LeastNumber ==
  ASSUME NEW S \in SUBSET Nat, S # {}
  PROVE  \E n \in S : \A m \in S : n <= m
<1>1. PICK n \in S : \A m \in S : <<m, n>> \notin OpToRel(<, Nat)
  BY NatLessThanWellFounded, WFMin, Zenon
<1>2. \A m \in S : ~(m < n)
  BY <1>1, Zenon DEF OpToRel
<1>3. QED
  BY <1>2

\* A late lecture's successor: each repetition is a proper time a week later, so that the last
\* one is.
LEMMA AheadIsProper ==
  ASSUME NEW today \in Nat, NEW f, AheadOf(f, today), NEW t, Proper(t)
  PROVE  Proper(f[t]) /\ f[t].day >= t.day /\ ~(f[t].day < today)
<1> DEFINE Fine(u) == Proper(f[u]) /\ f[u].day >= u.day /\ ~(f[u].day < today)
           bad == {u \in Time : Proper(u) /\ ~Fine(u)}
           left == {today - u.day : u \in bad}
<1>1. \A u \in Time : f[u] = IF u.day < today THEN f[Following(u)] ELSE u
  BY DEF AheadOf
<1>2. \A u \in bad : u.day < today /\ u.day \in Nat
  BY <1>1 DEF Time
<1>3. SUFFICES bad = {}
  <2>1. t \in Time
    BY DEF Proper, Time
  <2>2. QED
    BY <1>3, <2>1
<1>4. SUFFICES ASSUME bad # {} PROVE FALSE
  OBVIOUS
<1>5. left \in SUBSET Nat /\ left # {}
  <2>1. left # {}
    BY <1>4
  <2>2. \A u \in bad : today - u.day \in Nat
    BY <1>2
  <2>3. QED
    BY <2>1, <2>2
<1>6. PICK n \in left : \A m \in left : n <= m
  <2> HIDE DEF left
  <2> QED BY <1>5, LeastNumber
<1>7. PICK u \in bad : n = today - u.day
  BY <1>6
<1>8. PICK v : v = Following(u)
  OBVIOUS
<1>9. Proper(v) /\ v.day >= u.day + 7 /\ v \in Time /\ v.day \in Nat
  <2>1. u.day \in Nat
    BY <1>2
  <2>2. Proper(v) /\ v.day >= u.day + 7
    BY <1>8, <2>1, CalculateNextIs DEF Following
  <2>3. QED
    BY <2>2 DEF Proper, Time
<1>10. f[u] = f[v]
  BY <1>1, <1>2, <1>7, <1>8
<1>11. v \notin bad
  <2>1. SUFFICES ASSUME v \in bad PROVE FALSE
    OBVIOUS
  <2>2. today - v.day \in left
    BY <2>1
  <2>3. n <= today - v.day
    BY <1>6, <2>2
  <2>4. QED
    BY <1>2, <1>7, <1>9, <2>3
<1>12. Fine(v)
  BY <1>9, <1>11
<1>13. f[v].day \in Nat
  BY <1>12 DEF Proper
<1>14. Fine(u)
  BY <1>2, <1>7, <1>9, <1>10, <1>12, <1>13
<1>15. QED
  BY <1>7, <1>14

LEMMA NextLectureIs ==
  ASSUME NEW last, last.day \in Nat, NEW today \in Nat
  PROVE  LET next == NextLecture(last, today)
         IN Proper(next) /\ next.day >= last.day + 7 /\ ~(next.day < today)
<1>1. PICK f : f = CHOOSE g : AheadOf(g, today)
  OBVIOUS
<1>2. AheadOf(f, today)
  BY <1>1, AheadExists
<1>3. PICK t : t = CalculateNext(last.day, StepOf(last.hour))
  OBVIOUS
<1>4. Proper(t) /\ t.day >= last.day + 7 /\ t.day \in Nat
  <2>1. Proper(t) /\ t.day >= last.day + 7
    BY <1>3, CalculateNextIs
  <2>2. QED
    BY <2>1 DEF Proper
<1>5. NextLecture(last, today) = f[t]
  BY <1>1, <1>3 DEF NextLecture, AheadOf, Time, Following
<1>6. Proper(f[t]) /\ f[t].day >= t.day /\ ~(f[t].day < today)
  BY <1>2, <1>4, AheadIsProper
<1>7. f[t].day \in Nat
  BY <1>6 DEF Proper
<1>8. QED
  BY <1>4, <1>5, <1>6, <1>7

-----------------------------------------------------------------------------
(***************************************************************************)
(* Type correctness. The polling handles no more than it has read, a       *)
(* clean-up lifts a ban of a student, and as many calls may fail as the    *)
(* failures counted so far, which are finite sets.                         *)
(***************************************************************************)
Update == [student : Student, status : {"member", "left"}]

ChatTyped ==
  /\ inside \subseteq Student /\ banned \subseteq Student /\ IsFiniteSet(banned)
  /\ links \subseteq Links /\ primary \in Links
FailuresTyped ==
  /\ missed \subseteq Student /\ IsFiniteSet(missed)
  /\ stuck \subseteq Student /\ IsFiniteSet(stuck)
  /\ broken \in 0..MaxFaults
PollTyped ==
  /\ updates \in Seq(Update)
  /\ poll \in [size : Nat, handled : Nat]
  /\ poll.handled <= poll.size /\ poll.size <= Len(updates)
  /\ adding \in Student \cup {Nobody}
  /\ adding # Nobody => poll.handled < poll.size
  /\ member \subseteq Student
LecturesTyped ==
  /\ teacherLink \in Links /\ lastLink \in Links
  /\ lecture \in [Group -> Lecture]
  /\ completed \in 0..MaxLectures /\ restarts \in 0..MaxFaults
  /\ overlapped \in BOOLEAN
CleanupTyped ==
  /\ cleanup \in [Handler -> Cleanup \cup {NoCleanup}]
  /\ \A h \in Handler : Cleaning(h, "unban") => cleanup[h].student \in Student

Typed == ChatTyped /\ FailuresTyped /\ PollTyped /\ LecturesTyped /\ CleanupTyped

LEMMA TypedIs == Typed => TypeOK
  BY DEF Typed, ChatTyped, FailuresTyped, PollTyped, LecturesTyped, CleanupTyped, TypeOK, Update

LEMMA NotRunning == NoCleanup \notin Cleanup /\ NoCleanup.step = "none"
  BY DEF NoCleanup, Cleanup

LEMMA RunningIs ==
  ASSUME CleanupTyped, NEW h \in Handler, cleanup[h].step # "none"
  PROVE  cleanup[h] \in Cleanup
  BY NotRunning DEF CleanupTyped

LEMMA TypedInit == Init => Typed
<1> SUFFICES ASSUME Init PROVE Typed
  OBVIOUS
<1>1. ChatTyped /\ FailuresTyped
  BY FS_EmptySet, ClassroomAssumption
  DEF Init, ChatTyped, FailuresTyped, Links, ClassroomAssumption
<1>2. PollTyped
  BY DEF Init, PollTyped
<1>3. LecturesTyped
  <2>1. PICK first \in [Group -> FirstDays] :
           lecture = [g \in Group |-> [status |-> "SCHEDULED", link |-> 0,
                                       day |-> first[g], hour |-> FirstHour]]
    BY DEF Init
  <2>2. \A g \in Group : first[g] \in Nat
    BY ClassroomAssumption DEF ClassroomAssumption
  <2>3. 0 \in Links /\ 1 \in Links
    BY ClassroomAssumption DEF Links, ClassroomAssumption
  <2>4. lecture \in [Group -> Lecture]
    BY <2>1, <2>2, <2>3 DEF Lecture, FirstHour
  <2>5. /\ teacherLink \in Links /\ lastLink \in Links
        /\ completed \in 0..MaxLectures /\ restarts \in 0..MaxFaults
    BY <2>3, ClassroomAssumption DEF Init, ClassroomAssumption
  <2>6. overlapped \in BOOLEAN
    BY Zenon DEF Init
  <2>7. QED
    BY <2>4, <2>5, <2>6, Zenon DEF LecturesTyped
<1>4. CleanupTyped
  BY DEF Init, CleanupTyped, Cleaning, NoCleanup
<1>5. QED
  BY <1>1, <1>2, <1>3, <1>4 DEF Typed

\* What stays typed because nothing of it changes.
LEMMA ChatKept == ASSUME ChatTyped, UNCHANGED chat PROVE ChatTyped'
  BY DEF ChatTyped, chat
LEMMA FailuresKept ==
  ASSUME FailuresTyped, UNCHANGED <<missed, stuck, broken>> PROVE FailuresTyped'
  BY DEF FailuresTyped
LEMMA PollKept == ASSUME PollTyped, UNCHANGED bot PROVE PollTyped'
  BY DEF PollTyped, bot
LEMMA LecturesKept ==
  ASSUME LecturesTyped,
         UNCHANGED <<teacherLink, lastLink, lecture, completed, restarts, overlapped>>
  PROVE  LecturesTyped'
  BY DEF LecturesTyped
LEMMA CleanupKept == ASSUME CleanupTyped, UNCHANGED cleanup PROVE CleanupTyped'
  BY DEF CleanupTyped, Cleaning

\* One more call may fail, or the process may restart, while there were fewer faults than the
\* maximum.
LEMMA MayFail ==
  ASSUME FailuresTyped, LecturesTyped, CanFail
  PROVE  broken + 1 \in 0..MaxFaults /\ restarts + 1 \in 0..MaxFaults
<1>1. Cardinality(missed) \in Nat /\ Cardinality(stuck) \in Nat
  BY FS_CardinalityType DEF FailuresTyped
<1>2. /\ broken \in Nat /\ restarts \in Nat
      /\ Cardinality(missed) + Cardinality(stuck) + broken + restarts < MaxFaults
  BY DEF FailuresTyped, LecturesTyped, CanFail
<1>3. QED
  BY <1>1, <1>2, ClassroomAssumption DEF ClassroomAssumption

\* The update of a student is queued behind what the polling has read.
LEMMA PollReports ==
  ASSUME PollTyped, NEW s \in Student, NEW status \in {"member", "left"}, Reports(s, status),
         UNCHANGED <<poll, adding, member>>
  PROVE  PollTyped'
<1>1. PICK u \in Update : updates' = Append(updates, u)
  BY DEF Reports, Update
<1>2. updates' \in Seq(Update) /\ Len(updates') = Len(updates) + 1
  BY <1>1 DEF PollTyped
<1>3. poll.size \in Nat /\ Len(updates) \in Nat
  BY DEF PollTyped
<1>4. QED
  BY <1>2, <1>3 DEF PollTyped

-----------------------------------------------------------------------------
(***************************************************************************)
(* What a step makes of the clean-up it is a step of.                      *)
(***************************************************************************)
Becomes(h, r) == cleanup' = [cleanup EXCEPT ![h] = r]

LEMMA BecomesIs ==
  ASSUME CleanupTyped, NEW h \in Handler, NEW r, Becomes(h, r)
  PROVE  cleanup'[h] = r /\ \A i \in Handler : i # h => cleanup'[i] = cleanup[i]
  BY DEF CleanupTyped, Becomes

LEMMA BecomesTyped ==
  ASSUME CleanupTyped, NEW h \in Handler, NEW r \in Cleanup \cup {NoCleanup}, Becomes(h, r),
         r.step = "unban" => r.student \in Student
  PROVE  CleanupTyped'
<1>1. cleanup' \in [Handler -> Cleanup \cup {NoCleanup}]
  BY DEF CleanupTyped, Becomes
<1>2. cleanup'[h] = r /\ \A i \in Handler : i # h => cleanup'[i] = cleanup[i]
  BY BecomesIs
<1>3. QED
  BY <1>1, <1>2 DEF CleanupTyped, Cleaning

LEMMA CompleteIs ==
  ASSUME ClassroomAssumption, LecturesTyped, CleanupTyped, NEW g \in Group, CompleteLecture(g)
  PROVE  /\ completed + 1 \in Handler
         /\ \E r \in Cleanup : Becomes(completed + 1, r) /\ r.step = "teacher"
<1>1. PICK r : r = [step |-> "teacher", list |-> {}, student |-> Nobody, old |-> 0, new |-> 0]
  OBVIOUS
<1>2. 0 \in Links
  BY DEF Links, ClassroomAssumption
<1>3. r \in Cleanup /\ r.step = "teacher"
  BY <1>1, <1>2 DEF Cleanup
<1>4. Becomes(completed + 1, r)
  BY <1>1, Zenon DEF CompleteLecture, Becomes
<1>5. completed + 1 \in Handler
  BY DEF CompleteLecture, LecturesTyped, Handler, ClassroomAssumption
<1>6. QED
  BY <1>3, <1>4, <1>5

LEMMA FindTeacherIs ==
  ASSUME CleanupTyped, teacherLink \in Links, NEW h \in Handler, FindTeacher(h)
  PROVE  \E r \in Cleanup : Becomes(h, r) /\ r.step = "find" /\ r.old = teacherLink
<1>1. cleanup[h] \in Cleanup
  BY RunningIs DEF FindTeacher, Cleaning
<1>2. PICK r : r = [cleanup[h] EXCEPT !.step = "find", !.old = teacherLink]
  OBVIOUS
<1>3. r \in Cleanup /\ r.step = "find" /\ r.old = teacherLink
  BY <1>1, <1>2 DEF Cleanup
<1>4. Becomes(h, r)
  BY <1>2 DEF FindTeacher, Becomes, CleanupTyped
<1>5. QED
  BY <1>3, <1>4

LEMMA FindMembersIs ==
  ASSUME CleanupTyped, member \subseteq Student, NEW h \in Handler, FindMembers(h)
  PROVE  \E r \in Cleanup : Becomes(h, r) /\ r.step \in {"revoke", "ban"} /\ r.old = cleanup[h].old
<1>1. cleanup[h] \in Cleanup
  BY RunningIs DEF FindMembers, Cleaning
<1>2. PICK step : step = IF member = {} THEN "revoke" ELSE "ban"
  OBVIOUS
<1>3. PICK r : r = [cleanup[h] EXCEPT !.step = step, !.list = member]
  OBVIOUS
<1>4. step \in {"revoke", "ban"}
  BY <1>2
<1>5. r \in Cleanup /\ r.step = step /\ r.old = cleanup[h].old
  BY <1>1, <1>3, <1>4 DEF Cleanup
<1>6. Becomes(h, r)
  BY <1>2, <1>3 DEF FindMembers, Becomes, CleanupTyped
<1>7. QED
  BY <1>4, <1>5, <1>6

LEMMA BanIs ==
  ASSUME CleanupTyped, NEW h \in Handler, Cleaning(h, "ban"), NEW s \in cleanup[h].list,
         cleanup' = [cleanup EXCEPT ![h].step = "unban", ![h].student = s]
  PROVE  /\ s \in Student
         /\ \E r \in Cleanup : Becomes(h, r) /\ r.step = "unban" /\ r.student = s
                               /\ r.old = cleanup[h].old
<1>1. cleanup[h] \in Cleanup
  BY RunningIs DEF Cleaning
<1>2. s \in Student
  BY <1>1 DEF Cleanup
<1>3. PICK r : r = [cleanup[h] EXCEPT !.step = "unban", !.student = s]
  OBVIOUS
<1>4. r \in Cleanup /\ r.step = "unban" /\ r.student = s /\ r.old = cleanup[h].old
  BY <1>1, <1>2, <1>3 DEF Cleanup
<1>5. Becomes(h, r)
  BY <1>3 DEF Becomes, CleanupTyped
<1>6. QED
  BY <1>2, <1>4, <1>5

LEMMA AdvanceIs ==
  ASSUME CleanupTyped, NEW h \in Handler, cleanup[h].step # "none", NEW s, Advance(h, s)
  PROVE  \E r \in Cleanup : Becomes(h, r) /\ r.step \in {"delete", "ban"} /\ r.old = cleanup[h].old
<1>1. cleanup[h] \in Cleanup
  BY RunningIs
<1>2. PICK list, step : list = cleanup[h].list \ {s} /\ step = IF list = {} THEN "delete" ELSE "ban"
  OBVIOUS
<1>3. PICK r : r = [cleanup[h] EXCEPT !.list = list, !.student = Nobody, !.step = step]
  OBVIOUS
<1>4. step \in {"delete", "ban"} /\ list \subseteq Student
  BY <1>1, <1>2 DEF Cleanup
<1>5. r \in Cleanup /\ r.step = step /\ r.old = cleanup[h].old
  BY <1>1, <1>3, <1>4 DEF Cleanup
<1>6. Becomes(h, r)
  BY <1>2, <1>3 DEF Advance, Becomes, CleanupTyped
<1>7. QED
  BY <1>4, <1>5, <1>6

LEMMA NextStepIs ==
  ASSUME CleanupTyped, NEW h \in Handler, cleanup[h].step # "none",
         NEW step \in {"revoke", "export"}, cleanup' = [cleanup EXCEPT ![h].step = step]
  PROVE  \E r \in Cleanup : Becomes(h, r) /\ r.step = step /\ r.old = cleanup[h].old
<1>1. cleanup[h] \in Cleanup
  BY RunningIs
<1>2. PICK r : r = [cleanup[h] EXCEPT !.step = step]
  OBVIOUS
<1>3. r \in Cleanup /\ r.step = step /\ r.old = cleanup[h].old
  BY <1>1, <1>2 DEF Cleanup
<1>4. Becomes(h, r)
  BY <1>2 DEF Becomes, CleanupTyped
<1>5. QED
  BY <1>3, <1>4

LEMMA ExportIs ==
  ASSUME CleanupTyped, NEW h \in Handler, cleanup[h].step # "none", NEW link \in Links,
         cleanup' = [cleanup EXCEPT ![h].step = "save", ![h].new = link]
  PROVE  \E r \in Cleanup : Becomes(h, r) /\ r.step = "save" /\ r.new = link
<1>1. cleanup[h] \in Cleanup
  BY RunningIs
<1>2. PICK r : r = [cleanup[h] EXCEPT !.step = "save", !.new = link]
  OBVIOUS
<1>3. r \in Cleanup /\ r.step = "save" /\ r.new = link
  BY <1>1, <1>2 DEF Cleanup
<1>4. Becomes(h, r)
  BY <1>2 DEF Becomes, CleanupTyped
<1>5. QED
  BY <1>3, <1>4

LEMMA TypedLecture ==
  ASSUME Typed, NEW g \in Group, ClaimLecture(g) \/ StartLecture(g) \/ CompleteLecture(g)
  PROVE  Typed'
<1>1. /\ ChatTyped /\ FailuresTyped /\ PollTyped /\ LecturesTyped /\ CleanupTyped
      /\ UNCHANGED <<chat, bot, missed, stuck, broken, teacherLink, lastLink, restarts>>
  BY DEF Typed, ClaimLecture, StartLecture, CompleteLecture, history
<1>2. lecture \in [Group -> Lecture] /\ teacherLink \in Links
  BY <1>1 DEF LecturesTyped
<1>3. ChatTyped' /\ FailuresTyped' /\ PollTyped'
  BY <1>1, ChatKept, FailuresKept, PollKept
<1>4. CASE ClaimLecture(g) \/ StartLecture(g)
  <2>1. lecture' \in [Group -> Lecture]
    BY <1>2, <1>4 DEF ClaimLecture, StartLecture, Lecture
  <2>2. UNCHANGED <<completed, cleanup, overlapped>>
    BY <1>4 DEF ClaimLecture, StartLecture, history
  <2>3. LecturesTyped'
    BY <1>1, <2>1, <2>2 DEF LecturesTyped
  <2>4. QED
    BY <1>1, <1>3, <2>2, <2>3, CleanupKept DEF Typed
<1>5. CASE CompleteLecture(g)
  <2>1. lecture' \in [Group -> Lecture]
    <3>1. PICK late \in Late :
            LET next == NextLecture(lecture[g], lecture[g].day + 7 * late)
            IN lecture' = [lecture EXCEPT ![g] = [status |-> "SCHEDULED", link |-> 0,
                                                  day |-> next.day, hour |-> next.hour]]
      BY <1>5 DEF CompleteLecture
    <3>2. lecture[g].day \in Nat /\ late \in Nat
      BY <1>2, ClassroomAssumption DEF Lecture, ClassroomAssumption
    <3>3. PICK today \in Nat : today = lecture[g].day + 7 * late
      <4>1. \A d \in Nat : d + 7 * late \in Nat
        BY <3>2
      <4>2. QED
        BY <3>2, <4>1
    <3>4. PICK next : next = NextLecture(lecture[g], today)
      OBVIOUS
    <3>5. Proper(next)
      BY <3>2, <3>4, NextLectureIs
    <3>6. next.day \in Nat /\ next.hour \in 9..20
      BY <3>5 DEF Proper, TimeSlots
    <3>7. lecture' = [lecture EXCEPT ![g] = [status |-> "SCHEDULED", link |-> 0,
                                             day |-> next.day, hour |-> next.hour]]
      BY <3>1, <3>3, <3>4, Zenon
    <3>8. 0 \in Links
      BY ClassroomAssumption DEF Links, ClassroomAssumption
    <3>9. QED
      BY <1>2, <3>6, <3>7, <3>8 DEF Lecture
  <2>2. completed' \in 0..MaxLectures
    BY <1>1, <1>5, ClassroomAssumption DEF CompleteLecture, LecturesTyped, ClassroomAssumption
  <2>3. overlapped' \in BOOLEAN
    BY <1>5, Zenon DEF CompleteLecture
  <2>4. LecturesTyped'
    BY <1>1, <2>1, <2>2, <2>3 DEF LecturesTyped
  <2>5. CleanupTyped'
    BY <1>1, <1>5, CompleteIs, BecomesTyped, ClassroomAssumption
  <2>6. QED
    BY <1>3, <2>4, <2>5 DEF Typed
<1>6. QED
  BY <1>4, <1>5

LEMMA TypedStudent ==
  ASSUME Typed, NEW s \in Student, Join(s) \/ Leave(s)
  PROVE  Typed'
<1>1. /\ ChatTyped /\ FailuresTyped /\ PollTyped /\ LecturesTyped /\ CleanupTyped
      /\ UNCHANGED <<banned, links, primary, poll, adding, member, teacherLink, lecture, cleanup,
                     completed, lastLink, restarts, overlapped, missed, stuck, broken>>
  BY DEF Typed, Join, Leave, history
<1>2. ChatTyped'
  BY <1>1 DEF ChatTyped, Join, Leave
<1>3. PollTyped'
  BY <1>1, PollReports DEF Join, Leave
<1>4. QED
  BY <1>1, <1>2, <1>3, FailuresKept, LecturesKept, CleanupKept DEF Typed

LEMMA TypedPolling ==
  ASSUME Typed, GetUpdates \/ HandleUpdate \/ SaveMember
  PROVE  Typed'
<1>1. /\ ChatTyped /\ FailuresTyped /\ PollTyped /\ LecturesTyped /\ CleanupTyped
      /\ UNCHANGED <<chat, teacherLink, lecture, cleanup, completed, lastLink, restarts,
                     overlapped, missed, stuck, broken>>
  BY DEF Typed, GetUpdates, HandleUpdate, SaveMember, Others, history
<1>2. /\ poll.size \in Nat /\ poll.handled \in Nat /\ Len(updates) \in Nat
      /\ poll.handled <= poll.size /\ poll.size <= Len(updates)
  BY <1>1 DEF PollTyped
<1>3. ASSUME GetUpdates PROVE PollTyped'
  <2>1. /\ updates' = SubSeq(updates, poll.handled + 1, Len(updates))
        /\ poll' = [size |-> Len(updates) - poll.handled, handled |-> 0]
        /\ UNCHANGED <<adding, member>> /\ adding = Nobody
    BY <1>3 DEF GetUpdates
  <2>2. updates' \in Seq(Update) /\ Len(updates') = Len(updates) - poll.handled
    <3>1. PICK n \in Nat : n = poll.handled
      BY <1>2
    <3>2. \A i \in 1..Len(updates) : updates[i] \in Update
      BY <1>1 DEF PollTyped
    <3>3. updates' = [i \in 1..(Len(updates) - n) |-> updates[n + i]]
      BY <1>1, <1>2, <2>1, <3>1 DEF PollTyped
    <3>4. \A i \in 1..(Len(updates) - n) : updates[n + i] \in Update
      BY <1>2, <3>1, <3>2
    <3>5. Len(updates) - n \in Nat
      BY <1>2, <3>1
    <3>6. QED
      BY <3>1, <3>3, <3>4, <3>5
  <2>3. poll' \in [size : Nat, handled : Nat] /\ poll'.handled <= poll'.size
        /\ poll'.size <= Len(updates')
    BY <1>2, <2>1, <2>2
  <2>4. QED
    BY <1>1, <2>1, <2>2, <2>3 DEF PollTyped
<1>4. ASSUME HandleUpdate PROVE PollTyped'
  <2>1. PICK u \in Update : u = updates[poll.handled + 1]
    BY <1>1, <1>2, <1>4 DEF HandleUpdate, PollTyped
  <2>2. /\ poll.handled < poll.size /\ updates' = updates /\ u.student \in Student
        /\ \/ adding' = u.student /\ UNCHANGED <<poll, member>>
           \/ /\ member' \in {member, member \ {u.student}}
              /\ poll' = [poll EXCEPT !.handled = @ + 1]
              /\ adding' = adding /\ adding = Nobody
    BY <1>4, <2>1 DEF HandleUpdate, Update
  <2>3. CASE adding' = u.student /\ UNCHANGED <<poll, member>>
    BY <1>1, <2>2, <2>3 DEF PollTyped
  <2>4. CASE /\ member' \in {member, member \ {u.student}}
             /\ poll' = [poll EXCEPT !.handled = @ + 1] /\ adding' = adding /\ adding = Nobody
    <3>1. /\ poll' \in [size : Nat, handled : Nat] /\ poll'.handled <= poll'.size
          /\ poll'.size = poll.size
      BY <1>1, <1>2, <2>2, <2>4 DEF PollTyped
    <3>2. QED
      BY <1>1, <1>2, <2>2, <2>4, <3>1 DEF PollTyped
  <2>5. QED
    BY <2>2, <2>3, <2>4
<1>5. ASSUME SaveMember PROVE PollTyped'
  <2>1. /\ adding # Nobody /\ member' = member \cup {adding} /\ adding' = Nobody
        /\ poll' = [poll EXCEPT !.handled = @ + 1] /\ updates' = updates
    BY <1>5 DEF SaveMember
  <2>2. /\ poll' \in [size : Nat, handled : Nat] /\ poll'.handled <= poll'.size
        /\ poll'.size = poll.size
    BY <1>1, <1>2, <2>1 DEF PollTyped
  <2>3. QED
    BY <1>1, <2>1, <2>2 DEF PollTyped
<1>6. PollTyped'
  BY <1>3, <1>4, <1>5
<1>7. QED
  BY <1>1, <1>6, ChatKept, FailuresKept, LecturesKept, CleanupKept DEF Typed

LEMMA TypedRestart == ASSUME Typed, Restart PROVE Typed'
<1>1. /\ ChatTyped /\ FailuresTyped /\ PollTyped /\ LecturesTyped
      /\ CanFail /\ restarts' = restarts + 1
      /\ poll' = [size |-> 0, handled |-> 0] /\ adding' = Nobody
      /\ cleanup' = [h \in Handler |-> NoCleanup]
      /\ stuck' = stuck \cup banned
      /\ UNCHANGED <<chat, updates, member, teacherLink, lecture, completed, lastLink, missed,
                     broken, overlapped>>
  BY DEF Typed, Restart
<1>2. FailuresTyped'
  BY <1>1, FS_Union DEF FailuresTyped, ChatTyped
<1>3. PollTyped'
  BY <1>1 DEF PollTyped
<1>4. LecturesTyped'
  BY <1>1, MayFail DEF LecturesTyped
<1>5. CleanupTyped'
  BY <1>1, NotRunning DEF CleanupTyped, Cleaning
<1>6. QED
  BY <1>1, <1>2, <1>3, <1>4, <1>5, ChatKept DEF Typed

LEMMA TypedRemoval ==
  ASSUME Typed, NEW h \in Handler,
         \/ FindTeacher(h) \/ FindMembers(h) \/ BanMember(h) \/ FailedBan(h)
         \/ UnbanMember(h) \/ DeleteMembers(h)
  PROVE  Typed'
<1>1. ChatTyped /\ FailuresTyped /\ PollTyped /\ LecturesTyped /\ CleanupTyped
  BY DEF Typed
<1>2. cleanup[h].step # "none"
  BY DEF FindTeacher, FindMembers, BanMember, FailedBan, UnbanMember, DeleteMembers, Cleaning
<1>3. LecturesTyped'
  BY <1>1, LecturesKept
  DEF FindTeacher, FindMembers, BanMember, FailedBan, UnbanMember, DeleteMembers, Kept
<1>4. CASE FindTeacher(h) \/ FindMembers(h)
  <2>1. teacherLink \in Links /\ member \subseteq Student
    BY <1>1 DEF LecturesTyped, PollTyped
  <2>2. PICK r \in Cleanup : Becomes(h, r) /\ r.step # "unban"
    BY <1>1, <1>4, <2>1, FindTeacherIs, FindMembersIs
  <2>3. CleanupTyped' /\ UNCHANGED <<chat, bot, missed, stuck, broken>>
    BY <1>1, <1>4, <2>2, BecomesTyped DEF FindTeacher, FindMembers
  <2>4. QED
    BY <1>1, <1>3, <2>3, ChatKept, PollKept, FailuresKept DEF Typed
<1>5. CASE BanMember(h)
  <2>1. PICK s \in cleanup[h].list :
          /\ inside' = inside \ {s} /\ banned' = banned \cup {s}
          /\ IF s \in inside THEN Reports(s, "left") ELSE UNCHANGED updates
          /\ cleanup' = [cleanup EXCEPT ![h].step = "unban", ![h].student = s]
    BY <1>5 DEF BanMember
  <2>2. /\ s \in Student
        /\ \E r \in Cleanup : Becomes(h, r) /\ r.step = "unban" /\ r.student = s
                              /\ r.old = cleanup[h].old
    BY <1>1, <1>5, <2>1, BanIs DEF BanMember
  <2>3. UNCHANGED <<links, primary, poll, adding, member, missed, stuck, broken>>
    BY <1>5 DEF BanMember
  <2>4. ChatTyped'
    BY <1>1, <2>1, <2>2, <2>3, FS_AddElement DEF ChatTyped
  <2>5. PollTyped'
    <3>1. CASE s \in inside
      BY <1>1, <2>1, <2>2, <2>3, <3>1, PollReports
    <3>2. CASE s \notin inside
      BY <1>1, <2>1, <2>3, <3>2, PollKept DEF bot
    <3>3. QED
      BY <3>1, <3>2
  <2>6. CleanupTyped'
    BY <1>1, <2>2, BecomesTyped
  <2>7. FailuresTyped'
    BY <1>1, <2>3, FailuresKept
  <2>8. QED
    BY <1>3, <2>4, <2>5, <2>6, <2>7 DEF Typed
<1>6. CASE FailedBan(h)
  <2>1. PICK s \in cleanup[h].list : missed' = missed \cup {s} /\ Advance(h, s)
    BY <1>6 DEF FailedBan
  <2>2. s \in Student /\ UNCHANGED <<chat, bot, stuck, broken>>
    BY <1>1, <1>2, <1>6, RunningIs DEF FailedBan, Cleanup
  <2>3. FailuresTyped'
    BY <1>1, <2>1, <2>2, FS_AddElement DEF FailuresTyped
  <2>4. ChatTyped' /\ PollTyped'
    BY <1>1, <2>2, ChatKept, PollKept
  <2>5. CleanupTyped'
    BY <1>1, <1>2, <2>1, AdvanceIs, BecomesTyped
  <2>6. QED
    BY <1>3, <2>3, <2>4, <2>5 DEF Typed
<1>7. CASE UnbanMember(h)
  <2>1. PICK s \in Student : s = cleanup[h].student
    BY <1>1, <1>7 DEF UnbanMember, CleanupTyped
  <2>2. /\ banned' \in {banned, banned \ {s}} /\ stuck' \in {stuck, stuck \cup {s}}
        /\ Advance(h, s)
        /\ UNCHANGED <<inside, links, primary, bot, missed, broken>>
    BY <1>7, <2>1 DEF UnbanMember
  <2>3. ChatTyped'
    BY <1>1, <2>2, FS_RemoveElement DEF ChatTyped
  <2>4. FailuresTyped'
    BY <1>1, <2>1, <2>2, FS_AddElement DEF FailuresTyped
  <2>5. PollTyped'
    BY <1>1, <2>2, PollKept
  <2>6. CleanupTyped'
    BY <1>1, <1>2, <2>2, AdvanceIs, BecomesTyped
  <2>7. QED
    BY <1>3, <2>3, <2>4, <2>5, <2>6 DEF Typed
<1>8. CASE DeleteMembers(h)
  <2>1. /\ member' = {} /\ cleanup' = [cleanup EXCEPT ![h].step = "revoke"]
        /\ UNCHANGED <<chat, updates, poll, adding, missed, stuck, broken>>
    BY <1>8 DEF DeleteMembers
  <2>2. PollTyped'
    BY <1>1, <2>1 DEF PollTyped
  <2>3. CleanupTyped'
    BY <1>1, <1>2, <2>1, NextStepIs, BecomesTyped
  <2>4. ChatTyped' /\ FailuresTyped'
    BY <1>1, <2>1, ChatKept, FailuresKept
  <2>5. QED
    BY <1>3, <2>2, <2>3, <2>4 DEF Typed
<1>9. QED
  BY <1>4, <1>5, <1>6, <1>7, <1>8

LEMMA TypedLink ==
  ASSUME Typed, NEW h \in Handler, RevokeLink(h) \/ ExportLink(h) \/ SaveLink(h)
  PROVE  Typed'
<1>1. ChatTyped /\ FailuresTyped /\ PollTyped /\ LecturesTyped /\ CleanupTyped
  BY DEF Typed
<1>2. cleanup[h] \in Cleanup /\ cleanup[h].step # "none"
  BY <1>1, RunningIs DEF RevokeLink, ExportLink, SaveLink, Cleaning
<1>3. PollTyped'
  <2>1. UNCHANGED bot
    BY DEF RevokeLink, ExportLink, SaveLink
  <2>2. QED
    BY <1>1, <2>1, PollKept
<1>4. CASE RevokeLink(h)
  <2>1. /\ links' \subseteq links
        /\ \/ broken' = broken
           \/ CanFail /\ broken' = broken + 1
        /\ cleanup' = [cleanup EXCEPT ![h].step = "export"]
        /\ UNCHANGED <<inside, banned, primary, missed, stuck, lastLink, teacherLink, lecture,
                       completed, restarts, overlapped>>
    BY <1>4 DEF RevokeLink, Kept
  <2>2. ChatTyped'
    BY <1>1, <2>1 DEF ChatTyped
  <2>3. FailuresTyped'
    BY <1>1, <2>1, MayFail DEF FailuresTyped
  <2>4. CleanupTyped'
    BY <1>1, <1>2, <2>1, NextStepIs, BecomesTyped
  <2>5. QED
    BY <1>1, <1>3, <2>1, <2>2, <2>3, <2>4, LecturesKept DEF Typed
<1>5. CASE ExportLink(h)
  <2>1. /\ lastLink < MaxLinks
        /\ UNCHANGED <<inside, banned, missed, stuck, teacherLink, lecture, completed, restarts,
                       overlapped>>
        /\ \/ /\ lastLink' = lastLink + 1 /\ primary' = lastLink + 1
              /\ links' = (links \ {primary}) \cup {lastLink + 1}
              /\ cleanup' = [cleanup EXCEPT ![h].step = "save", ![h].new = lastLink + 1]
              /\ broken' = broken
           \/ /\ CanFail /\ broken' = broken + 1
              /\ cleanup' = [cleanup EXCEPT ![h] = NoCleanup]
              /\ UNCHANGED <<lastLink, primary, links>>
    BY <1>5 DEF ExportLink, Kept
  <2>2. lastLink + 1 \in Links
    BY <1>1, <2>1, ClassroomAssumption DEF LecturesTyped, Links, ClassroomAssumption
  <2>3. ChatTyped' /\ LecturesTyped'
    BY <1>1, <2>1, <2>2 DEF ChatTyped, LecturesTyped
  <2>4. FailuresTyped'
    BY <1>1, <2>1, MayFail DEF FailuresTyped
  <2>5. CleanupTyped'
    <3>1. CASE cleanup' = [cleanup EXCEPT ![h].step = "save", ![h].new = lastLink + 1]
      BY <1>1, <1>2, <2>2, <3>1, ExportIs, BecomesTyped
    <3>2. CASE cleanup' = [cleanup EXCEPT ![h] = NoCleanup]
      BY <1>1, <3>2, NotRunning, BecomesTyped DEF Becomes
    <3>3. QED
      BY <2>1, <3>1, <3>2
  <2>6. QED
    BY <1>3, <2>3, <2>4, <2>5 DEF Typed
<1>6. CASE SaveLink(h)
  <2>1. /\ teacherLink' = cleanup[h].new /\ cleanup' = [cleanup EXCEPT ![h] = NoCleanup]
        /\ UNCHANGED <<chat, history, lecture, completed, restarts, lastLink>>
    BY <1>6 DEF SaveLink
  <2>2. LecturesTyped' /\ UNCHANGED <<missed, stuck, broken>>
    BY <1>1, <1>2, <2>1 DEF LecturesTyped, Cleanup, history
  <2>3. CleanupTyped'
    BY <1>1, <2>1, NotRunning, BecomesTyped DEF Becomes
  <2>4. QED
    BY <1>1, <1>3, <2>1, <2>2, <2>3, ChatKept, FailuresKept DEF Typed
<1>7. QED
  BY <1>4, <1>5, <1>6

LEMMA TypedNext == Typed /\ [Next]_vars => Typed'
<1> SUFFICES ASSUME Typed, [Next]_vars PROVE Typed'
  OBVIOUS
<1>1. CASE UNCHANGED vars
  <2>1. UNCHANGED <<chat, bot, missed, stuck, broken, overlapped, teacherLink, lastLink, lecture,
                    completed, restarts, cleanup>>
    BY <1>1 DEF vars, chat, bot
  <2>2. QED
    BY <2>1, ChatKept, FailuresKept, PollKept, LecturesKept, CleanupKept DEF Typed
<1>2. QED
  BY <1>1, TypedLecture, TypedStudent, TypedPolling, TypedRestart, TypedRemoval, TypedLink
  DEF Next, CleanUp

\* For any number of students, groups, clean-ups, failed calls and restarts, the variables have
\* their types: the polling never handles more updates than it read, and a clean-up bans and
\* deletes students only.  (telegram-bot.service.ts:498.)
THEOREM TypeCorrect == Spec => []TypeOK
<1>1. QED
  BY TypedInit, TypedNext, TypedIs, PTL DEF Spec

-----------------------------------------------------------------------------
(***************************************************************************)
(* The inductive invariant of the chat. A student is banned only by a      *)
(* clean-up that is about to lift the ban. The link that works is the last *)
(* one that was exported, and there is none only before an export. A       *)
(* clean-up that overlaps with no other one holds the successor of the     *)
(* teacher's link from the export to the save.                             *)
(***************************************************************************)
\* The handlers of lectures that are not completed yet have not started.
Unused == \A h \in Handler : h > completed => cleanup[h] = NoCleanup

BannedOnce ==
  \A s \in banned :
    s \in stuck \/ \E h \in Handler : Cleaning(h, "unban") /\ cleanup[h].student = s

BeforeRevoke == {"find", "ban", "unban", "delete", "revoke"}

\* Before the first export: every clean-up revokes link 1.
FirstLink ==
  /\ lastLink = 1 /\ teacherLink = 1
  /\ \A h \in Handler : Cleaning(h, "export") => links = {}
  /\ \A h \in Handler : cleanup[h].step \in BeforeRevoke => cleanup[h].old = 1

LastLink ==
  /\ links \subseteq {lastLink}
  /\ lastLink \in links \/ \E h \in Handler : Cleaning(h, "export")
  /\ primary = lastLink \/ FirstLink
  /\ \A h \in Handler : Cleaning(h, "save") => primary = lastLink

\* As long as clean-ups do not overlap.
Alone ==
  /\ \A h, i \in Handler : cleanup[h] # NoCleanup /\ cleanup[i] # NoCleanup => h = i
  /\ teacherLink = lastLink \/ \E h \in Handler : Cleaning(h, "save")
  /\ \A h \in Handler : Cleaning(h, "save") => cleanup[h].new = lastLink

\* As long as no call for a link has failed and the process has run through.
OneLink == broken = 0 /\ restarts = 0 => LastLink /\ (overlapped \/ Alone)

ChatInv == Unused /\ BannedOnce /\ OneLink

LEMMA ChatInit == Init => ChatInv
<1> SUFFICES ASSUME Init PROVE ChatInv
  OBVIOUS
<1>1. \A h \in Handler : cleanup[h] = NoCleanup /\ cleanup[h].step = "none"
  BY NotRunning DEF Init
<1>2. Unused /\ BannedOnce
  BY <1>1 DEF Init, Unused, BannedOnce
<1>3. LastLink
  BY <1>1 DEF Init, LastLink, FirstLink, Cleaning, BeforeRevoke
<1>4. Alone
  BY <1>1 DEF Init, Alone, Cleaning
<1>5. QED
  BY <1>2, <1>3, <1>4 DEF ChatInv, OneLink

\* A step that neither the clean-ups, nor the links, nor the bans are concerned with.
LEMMA ChatElsewhere ==
  ASSUME ChatInv,
         UNCHANGED <<banned, links, primary, lastLink, teacherLink, cleanup, completed, restarts,
                     stuck, broken, overlapped>>
  PROVE  ChatInv'
<1>1. Unused' /\ BannedOnce'
  BY DEF ChatInv, Unused, BannedOnce, Cleaning
<1>2. LastLink => LastLink'
  BY DEF LastLink, FirstLink, Cleaning
<1>3. Alone => Alone'
  BY DEF Alone, Cleaning
<1>4. QED
  BY <1>1, <1>2, <1>3 DEF ChatInv, OneLink

\* A step of the clean-up h, of which the other clean-ups know nothing.
LEMMA OthersKept ==
  ASSUME Typed, ChatInv, NEW h \in Handler, cleanup[h].step # "none", NEW r, Becomes(h, r),
         UNCHANGED completed
  PROVE  /\ cleanup'[h] = r /\ \A i \in Handler : i # h => cleanup'[i] = cleanup[i]
         /\ Unused'
<1>1. cleanup'[h] = r /\ \A i \in Handler : i # h => cleanup'[i] = cleanup[i]
  BY BecomesIs DEF Typed
<1>2. ~(h > completed)
  BY NotRunning DEF ChatInv, Unused
<1>3. QED
  BY <1>1, <1>2 DEF ChatInv, Unused

\* A lecture that is completed starts a clean-up with nothing but its step.
LEMMA ChatCompleteLecture ==
  ASSUME Typed, ChatInv, NEW g \in Group, CompleteLecture(g)
  PROVE  ChatInv'
<1>1. PICK h \in Handler : h = completed + 1
  BY ClassroomAssumption, CompleteIs DEF Typed
<1>2. PICK r \in Cleanup : Becomes(h, r) /\ r.step = "teacher"
  BY <1>1, ClassroomAssumption, CompleteIs DEF Typed
<1>3. cleanup'[h] = r /\ \A i \in Handler : i # h => cleanup'[i] = cleanup[i]
  BY <1>2, BecomesIs DEF Typed
<1>4. completed \in Nat /\ completed' = completed + 1
  BY ClassroomAssumption DEF Typed, LecturesTyped, CompleteLecture, ClassroomAssumption
<1>5. cleanup[h] = NoCleanup /\ cleanup[h].step = "none"
  BY <1>1, <1>4, NotRunning DEF ChatInv, Unused
<1>6. UNCHANGED <<banned, links, primary, lastLink, teacherLink, restarts, stuck, broken>>
  BY DEF CompleteLecture, chat
<1>7. Unused'
  BY <1>1, <1>3, <1>4 DEF ChatInv, Unused, Handler
<1>8. BannedOnce'
  BY <1>2, <1>3, <1>5, <1>6 DEF ChatInv, BannedOnce, Cleaning
<1>9. LastLink => LastLink'
  BY <1>2, <1>3, <1>5, <1>6 DEF LastLink, FirstLink, Cleaning, BeforeRevoke
<1>10. ASSUME Alone, Idle PROVE Alone'
  BY <1>2, <1>3, <1>5, <1>6, <1>10 DEF Alone, Cleaning, Idle
<1>11. overlapped' = (overlapped \/ ~Idle)
  BY DEF CompleteLecture
<1>12. OneLink'
  BY <1>6, <1>9, <1>10, <1>11, Zenon DEF ChatInv, OneLink
<1>13. QED
  BY <1>7, <1>8, <1>12 DEF ChatInv

-----------------------------------------------------------------------------
(***************************************************************************)
(* A clean-up.                                                             *)
(***************************************************************************)
\* A step before the link is revoked.
LEMMA LinkBefore ==
  ASSUME Typed, ChatInv, NEW h \in Handler, cleanup[h].step \in BeforeRevoke \cup {"teacher"},
         NEW r \in Cleanup, Becomes(h, r), r.step \in BeforeRevoke,
         \/ r.old = teacherLink
         \/ cleanup[h].step \in BeforeRevoke /\ r.old = cleanup[h].old,
         UNCHANGED <<links, primary, lastLink, teacherLink, completed, restarts, broken,
                     overlapped>>
  PROVE  Unused' /\ OneLink'
<1>1. /\ cleanup'[h] = r /\ \A i \in Handler : i # h => cleanup'[i] = cleanup[i]
      /\ Unused'
  BY OthersKept DEF BeforeRevoke
<1>2. LastLink => LastLink'
  BY <1>1 DEF LastLink, FirstLink, Cleaning, BeforeRevoke
<1>3. cleanup[h] # NoCleanup
  BY NotRunning DEF BeforeRevoke
<1>4. Alone => Alone'
  BY <1>1, <1>3 DEF Alone, Cleaning, BeforeRevoke
<1>5. QED
  BY <1>1, <1>2, <1>4 DEF ChatInv, OneLink

\* A step that bans nobody, of a clean-up that has no ban to lift.
LEMMA BannedKept ==
  ASSUME Typed, ChatInv, NEW h \in Handler, cleanup[h].step # "none", ~Cleaning(h, "unban"),
         NEW r, Becomes(h, r), UNCHANGED <<completed, banned, stuck>>
  PROVE  BannedOnce'
<1>1. \A i \in Handler : i # h => cleanup'[i] = cleanup[i]
  BY OthersKept
<1>2. QED
  BY <1>1 DEF ChatInv, BannedOnce, Cleaning

LEMMA ChatFinds ==
  ASSUME Typed, ChatInv, NEW h \in Handler, FindTeacher(h) \/ FindMembers(h)
  PROVE  ChatInv'
<1>1. teacherLink \in Links /\ member \subseteq Student /\ CleanupTyped
  BY DEF Typed, LecturesTyped, PollTyped
<1>2. /\ cleanup[h].step \in BeforeRevoke \cup {"teacher"} /\ cleanup[h].step # "none"
      /\ ~Cleaning(h, "unban")
      /\ UNCHANGED <<banned, stuck, links, primary, lastLink, teacherLink, completed, restarts,
                     broken, overlapped>>
  BY DEF FindTeacher, FindMembers, Cleaning, BeforeRevoke, chat, Kept
<1>3. PICK r \in Cleanup :
        /\ Becomes(h, r) /\ r.step \in BeforeRevoke
        /\ \/ r.old = teacherLink
           \/ cleanup[h].step \in BeforeRevoke /\ r.old = cleanup[h].old
  <2>1. CASE FindTeacher(h)
    BY <1>1, <2>1, FindTeacherIs DEF BeforeRevoke
  <2>2. CASE FindMembers(h)
    BY <1>1, <2>2, FindMembersIs DEF BeforeRevoke, FindMembers, Cleaning
  <2>3. QED
    BY <2>1, <2>2
<1>4. Unused' /\ OneLink'
  BY <1>2, <1>3, LinkBefore
<1>5. BannedOnce'
  BY <1>2, <1>3, BannedKept
<1>6. QED
  BY <1>4, <1>5 DEF ChatInv

\* Who is removed is banned by this clean-up.
LEMMA ChatBanMember ==
  ASSUME Typed, ChatInv, NEW h \in Handler, BanMember(h) PROVE ChatInv'
<1>1. PICK s \in cleanup[h].list :
        /\ banned' = banned \cup {s}
        /\ cleanup' = [cleanup EXCEPT ![h].step = "unban", ![h].student = s]
  BY DEF BanMember
<1>2. cleanup[h].step = "ban" /\ CleanupTyped
  BY DEF BanMember, Cleaning, Typed
<1>3. PICK r \in Cleanup : Becomes(h, r) /\ r.step = "unban" /\ r.student = s
                           /\ r.old = cleanup[h].old
  BY <1>1, <1>2, BanIs DEF Cleaning
<1>4. UNCHANGED <<stuck, links, primary, lastLink, teacherLink, completed, restarts, broken,
                  overlapped>>
  BY DEF BanMember, Kept
<1>5. Unused' /\ OneLink'
  BY <1>2, <1>3, <1>4, LinkBefore DEF BeforeRevoke
<1>6. cleanup'[h] = r /\ \A i \in Handler : i # h => cleanup'[i] = cleanup[i]
  BY <1>2, <1>3, <1>4, OthersKept
<1>7. BannedOnce'
  <2>1. cleanup'[h].step = "unban" /\ cleanup'[h].student = s
    BY <1>3, <1>6
  <2>2. \A i \in Handler : cleanup[i].step = "unban" => i # h /\ cleanup'[i] = cleanup[i]
    BY <1>2, <1>6
  <2>3. banned' = banned \cup {s} /\ stuck' = stuck
    BY <1>1, <1>4
  <2>4. QED
    BY <2>1, <2>2, <2>3 DEF ChatInv, BannedOnce, Cleaning
<1>8. QED
  BY <1>5, <1>7 DEF ChatInv

\* A ban that failed bans nobody.
LEMMA ChatFailedBan ==
  ASSUME Typed, ChatInv, NEW h \in Handler, FailedBan(h) PROVE ChatInv'
<1>1. PICK s \in cleanup[h].list : Advance(h, s)
  BY DEF FailedBan
<1>2. cleanup[h].step = "ban" /\ ~Cleaning(h, "unban") /\ CleanupTyped
  BY DEF FailedBan, Cleaning, Typed
<1>3. PICK r \in Cleanup : Becomes(h, r) /\ r.step \in {"delete", "ban"} /\ r.old = cleanup[h].old
  BY <1>1, <1>2, AdvanceIs
<1>4. UNCHANGED <<banned, stuck, links, primary, lastLink, teacherLink, completed, restarts,
                  broken, overlapped>>
  BY DEF FailedBan, Kept, chat
<1>5. Unused' /\ OneLink'
  BY <1>2, <1>3, <1>4, LinkBefore DEF BeforeRevoke
<1>6. BannedOnce'
  BY <1>2, <1>3, <1>4, BannedKept
<1>7. QED
  BY <1>5, <1>6 DEF ChatInv

\* The ban is lifted, or it is known that the call failed.
LEMMA ChatUnbanMember ==
  ASSUME Typed, ChatInv, NEW h \in Handler, UnbanMember(h) PROVE ChatInv'
<1>1. cleanup[h].step = "unban" /\ CleanupTyped
  BY DEF UnbanMember, Cleaning, Typed
<1>2. PICK s : s = cleanup[h].student
  OBVIOUS
<1>3. /\ \/ banned' = banned \ {s} /\ stuck' = stuck
         \/ stuck' = stuck \cup {s} /\ banned' = banned
      /\ Advance(h, s)
      /\ UNCHANGED <<links, primary, lastLink, teacherLink, completed, restarts, broken,
                     overlapped>>
  BY <1>2 DEF UnbanMember, Kept
<1>4. PICK r \in Cleanup : Becomes(h, r) /\ r.step \in {"delete", "ban"} /\ r.old = cleanup[h].old
  BY <1>1, <1>3, AdvanceIs
<1>5. Unused' /\ OneLink'
  BY <1>1, <1>3, <1>4, LinkBefore DEF BeforeRevoke
<1>6. \A i \in Handler : i # h => cleanup'[i] = cleanup[i]
  BY <1>1, <1>3, <1>4, OthersKept
<1>7. BannedOnce'
  BY <1>2, <1>3, <1>6 DEF ChatInv, BannedOnce, Cleaning
<1>8. QED
  BY <1>5, <1>7 DEF ChatInv

LEMMA ChatDeleteMembers ==
  ASSUME Typed, ChatInv, NEW h \in Handler, DeleteMembers(h) PROVE ChatInv'
<1>1. /\ cleanup[h].step = "delete" /\ ~Cleaning(h, "unban") /\ CleanupTyped
      /\ cleanup' = [cleanup EXCEPT ![h].step = "revoke"]
      /\ UNCHANGED <<banned, stuck, links, primary, lastLink, teacherLink, completed, restarts,
                     broken, overlapped>>
  BY DEF DeleteMembers, Cleaning, Typed, Kept, chat
<1>2. PICK r \in Cleanup : Becomes(h, r) /\ r.step = "revoke" /\ r.old = cleanup[h].old
  BY <1>1, NextStepIs
<1>3. Unused' /\ OneLink'
  BY <1>1, <1>2, LinkBefore DEF BeforeRevoke
<1>4. BannedOnce'
  BY <1>1, <1>2, BannedKept
<1>5. QED
  BY <1>3, <1>4 DEF ChatInv

\* No link is left before the first export; later on the old link may be one that works no more.
LEMMA ChatRevokeLink ==
  ASSUME Typed, ChatInv, NEW h \in Handler, RevokeLink(h) PROVE ChatInv'
<1>1. /\ cleanup[h].step = "revoke" /\ ~Cleaning(h, "unban") /\ CleanupTyped
      /\ cleanup' = [cleanup EXCEPT ![h].step = "export"]
      /\ UNCHANGED <<banned, stuck, primary, lastLink, teacherLink, completed, restarts,
                     overlapped>>
  BY DEF RevokeLink, Cleaning, Typed, Kept
<1>2. PICK r \in Cleanup : Becomes(h, r) /\ r.step = "export"
  BY <1>1, NextStepIs
<1>3. /\ cleanup'[h] = r /\ \A i \in Handler : i # h => cleanup'[i] = cleanup[i]
      /\ Unused'
  BY <1>1, <1>2, OthersKept
<1>4. BannedOnce'
  BY <1>1, <1>2, BannedKept
<1>5. OneLink'
  <2>1. CASE links' = links \ {cleanup[h].old} /\ broken' = broken
    <3>1. LastLink => LastLink'
      BY <1>1, <1>2, <1>3, <2>1 DEF LastLink, FirstLink, Cleaning, BeforeRevoke
    <3>2. cleanup[h] # NoCleanup
      BY <1>1, NotRunning
    <3>3. Alone => Alone'
      BY <1>1, <1>2, <1>3, <3>2 DEF Alone, Cleaning
    <3>4. QED
      BY <1>1, <2>1, <3>1, <3>3 DEF ChatInv, OneLink
  <2>2. CASE broken' = broken + 1
    BY <2>2 DEF Typed, FailuresTyped, OneLink
  <2>3. QED
    BY <2>1, <2>2 DEF RevokeLink
<1>6. QED
  BY <1>3, <1>4, <1>5 DEF ChatInv

\* The new link is the only one.
LEMMA ChatExportLink ==
  ASSUME Typed, ChatInv, NEW h \in Handler, ExportLink(h) PROVE ChatInv'
<1>1. /\ cleanup[h].step = "export" /\ ~Cleaning(h, "unban") /\ CleanupTyped
      /\ UNCHANGED <<banned, stuck, teacherLink, completed, restarts, overlapped>>
  BY DEF ExportLink, Cleaning, Typed, Kept
<1>2. CASE /\ lastLink' = lastLink + 1 /\ primary' = lastLink + 1
           /\ links' = (links \ {primary}) \cup {lastLink + 1}
           /\ cleanup' = [cleanup EXCEPT ![h].step = "save", ![h].new = lastLink + 1]
           /\ UNCHANGED broken
  <2>1. PICK new \in Links : new = lastLink + 1
    BY ClassroomAssumption DEF ExportLink, Typed, LecturesTyped, Links, ClassroomAssumption
  <2>2. PICK r \in Cleanup : Becomes(h, r) /\ r.step = "save" /\ r.new = new
    BY <1>1, <1>2, <2>1, ExportIs
  <2>3. /\ cleanup'[h] = r /\ \A i \in Handler : i # h => cleanup'[i] = cleanup[i]
        /\ Unused'
    BY <1>1, <2>2, OthersKept
  <2>4. BannedOnce'
    BY <1>1, <2>2, BannedKept
  <2>5. ASSUME LastLink PROVE LastLink'
    <3>1. links \ {primary} = {}
      BY <1>1, <2>5 DEF LastLink, FirstLink, Cleaning
    <3>2. links' = {new} /\ lastLink' = new /\ primary' = new
      BY <1>2, <2>1, <3>1
    <3>3. QED
      BY <3>2 DEF LastLink
  <2>6. ASSUME Alone PROVE Alone'
    <3>1. cleanup[h] # NoCleanup
      BY <1>1, NotRunning
    <3>2. \A i \in Handler : i # h => cleanup[i] = NoCleanup
      BY <2>6, <3>1 DEF Alone
    <3>3. \A i \in Handler : i # h => cleanup'[i].step = "none" /\ cleanup'[i] = NoCleanup
      BY <2>3, <3>2, NotRunning
    <3>4. lastLink' = new
      BY <1>2, <2>1
    <3>5. QED
      BY <2>2, <2>3, <3>3, <3>4 DEF Alone, Cleaning
  <2>7. OneLink'
    BY <1>1, <1>2, <2>5, <2>6 DEF ChatInv, OneLink
  <2>8. QED
    BY <2>3, <2>4, <2>7 DEF ChatInv
<1>3. CASE broken' = broken + 1 /\ cleanup' = [cleanup EXCEPT ![h] = NoCleanup]
  <2>1. OneLink'
    BY <1>3 DEF Typed, FailuresTyped, OneLink
  <2>2. Becomes(h, NoCleanup)
    BY <1>3 DEF Becomes
  <2>3. Unused' /\ BannedOnce'
    BY <1>1, <2>2, OthersKept, BannedKept
  <2>4. QED
    BY <2>1, <2>3 DEF ChatInv
<1>4. QED
  BY <1>2, <1>3 DEF ExportLink

LEMMA ChatSaveLink ==
  ASSUME Typed, ChatInv, NEW h \in Handler, SaveLink(h) PROVE ChatInv'
<1>1. /\ cleanup[h].step = "save" /\ ~Cleaning(h, "unban") /\ CleanupTyped
      /\ teacherLink' = cleanup[h].new /\ Becomes(h, NoCleanup)
      /\ UNCHANGED <<banned, stuck, links, primary, lastLink, completed, restarts, broken,
                     overlapped>>
  BY DEF SaveLink, Cleaning, Typed, chat, history, Becomes
<1>2. /\ cleanup'[h] = NoCleanup /\ \A i \in Handler : i # h => cleanup'[i] = cleanup[i]
      /\ Unused' /\ BannedOnce'
  BY <1>1, OthersKept, BannedKept
<1>3. LastLink => LastLink'
  BY <1>1, <1>2, NotRunning DEF LastLink, Cleaning
<1>4. Alone => Alone'
  BY <1>1, <1>2, NotRunning DEF Alone, Cleaning
<1>5. QED
  BY <1>1, <1>2, <1>3, <1>4 DEF ChatInv, OneLink

LEMMA ChatRestart ==
  ASSUME Typed, ChatInv, Restart PROVE ChatInv'
<1>1. /\ restarts' = restarts + 1 /\ cleanup' = [h \in Handler |-> NoCleanup]
      /\ stuck' = stuck \cup banned /\ banned' = banned
  BY DEF Restart, chat
<1>2. QED
  BY <1>1 DEF Typed, LecturesTyped, ChatInv, Unused, BannedOnce, OneLink

LEMMA ChatNext == Typed /\ ChatInv /\ [Next]_vars => ChatInv'
<1> SUFFICES ASSUME Typed, ChatInv, [Next]_vars PROVE ChatInv'
  OBVIOUS
<1>1. CASE UNCHANGED vars
  BY <1>1, ChatElsewhere DEF vars
<1>2. ASSUME NEW g \in Group, ClaimLecture(g) \/ StartLecture(g) \/ CompleteLecture(g)
      PROVE  ChatInv'
  BY <1>2, ChatElsewhere, ChatCompleteLecture DEF ClaimLecture, StartLecture, chat, history
<1>3. ASSUME NEW s \in Student, Join(s) \/ Leave(s)
      PROVE  ChatInv'
  BY <1>3, ChatElsewhere DEF Join, Leave, history
<1>4. CASE GetUpdates \/ HandleUpdate \/ SaveMember
  BY <1>4, ChatElsewhere DEF GetUpdates, HandleUpdate, SaveMember, Others, chat, history
<1>5. ASSUME NEW h \in Handler, CleanUp(h) PROVE ChatInv'
  BY <1>5, ChatFinds, ChatBanMember, ChatFailedBan, ChatUnbanMember,
     ChatDeleteMembers, ChatRevokeLink, ChatExportLink, ChatSaveLink DEF CleanUp
<1>6. CASE Restart
  BY <1>6, ChatRestart
<1>7. QED
  BY <1>1, <1>2, <1>3, <1>4, <1>5, <1>6 DEF Next

-----------------------------------------------------------------------------
\* When no clean-up runs nobody is shut out of the chat who was not left so by a failed call or
\* a restart, however many students join, leave and are removed, by clean-ups that may overlap.
\* (telegram-bot.service.ts:498.)
THEOREM StudentsCanReturnCorrect == Spec => []StudentsCanReturn
<1>1. ChatInv => StudentsCanReturn
  BY NotRunning DEF ChatInv, BannedOnce, StudentsCanReturn, Cleaning, Idle
<1>2. QED
  BY <1>1, TypedInit, TypedNext, ChatInit, ChatNext, PTL DEF Spec

\* When no clean-up runs exactly one link works, unless a call failed or the process was
\* restarted, after any number of rotations, also ones that overlapped; it is the one the next
\* claim copies, unless they overlapped. (telegram-bot.service.ts:546.)
THEOREM SavedLinkWorksCorrect == Spec => []SavedLinkWorks
<1>1. ASSUME ChatInv PROVE SavedLinkWorks
  <2> SUFFICES ASSUME Idle, broken = 0, restarts = 0
               PROVE  Cardinality(links) = 1 /\ (overlapped \/ links = {teacherLink})
    BY DEF SavedLinkWorks
  <2>1. \A h \in Handler : cleanup[h].step = "none"
    BY NotRunning DEF Idle
  <2>2. LastLink /\ (overlapped \/ Alone)
    BY <1>1 DEF ChatInv, OneLink
  <2>3. links = {lastLink}
    BY <2>1, <2>2 DEF LastLink, Cleaning
  <2>4. Alone => teacherLink = lastLink
    BY <2>1 DEF Alone, Cleaning
  <2>5. Cardinality(links) = 1
    BY <2>3, FS_Singleton
  <2>6. QED
    BY <2>2, <2>3, <2>4, <2>5, Zenon
<1>2. QED
  BY <1>1, TypedInit, TypedNext, ChatInit, ChatNext, PTL DEF Spec

-----------------------------------------------------------------------------
(***************************************************************************)
(* Every lecture has a day, and only its completion moves it.              *)
(***************************************************************************)
LectureFields == {"status", "link", "day", "hour"}

Dated ==
  /\ lecture = [g \in Group |-> lecture[g]]
  /\ \A g \in Group : lecture[g] = [f \in LectureFields |-> lecture[g][f]] /\ lecture[g].day \in Nat

\* What FollowsTheCalendar says of the lecture of group g in a step
Follows(g) ==
  lecture'[g].status = "SCHEDULED" /\ lecture[g].status = "ONGOING" =>
    /\ lecture'[g].day >= lecture[g].day + 7
    /\ lecture'[g].hour \in {TimeSlots[i] : i \in DOMAIN TimeSlots}
    /\ Weekday(lecture'[g].day) # Sunday
    /\ ~(Weekday(lecture'[g].day) = Friday /\ lecture'[g].hour \in {12, 13})

\* The hours that are not blocked, as the property says it.
LEMMA ProperIs ==
  ASSUME NEW t, Proper(t) PROVE ~(Weekday(t.day) = Friday /\ t.hour \in {12, 13})
  BY DEF Proper, Blocked

LEMMA DatedInit == Init => Dated
<1> SUFFICES ASSUME Init PROVE Dated
  OBVIOUS
<1>1. PICK first \in [Group -> FirstDays] :
         lecture = [g \in Group |-> [status |-> "SCHEDULED", link |-> 0,
                                     day |-> first[g], hour |-> FirstHour]]
  BY DEF Init
<1>2. \A g \in Group : first[g] \in Nat
  BY ClassroomAssumption DEF ClassroomAssumption
<1>3. QED
  BY <1>1, <1>2 DEF Dated, LectureFields

\* A step that leaves the lectures as they are
LEMMA DatedElsewhere ==
  ASSUME Dated, UNCHANGED lecture
  PROVE  Dated' /\ \A g \in Group : Follows(g)
  BY DEF Dated, Follows

\* A step of one lecture, which gets a record r
LEMMA DatedOne ==
  ASSUME Dated, NEW g \in Group, NEW r, lecture' = [lecture EXCEPT ![g] = r],
         r = [f \in LectureFields |-> r[f]], r.day \in Nat,
         r.status = "SCHEDULED" =>
           \E next : Proper(next) /\ r.day = next.day /\ r.hour = next.hour
                     /\ next.day >= lecture[g].day + 7
  PROVE  Dated' /\ \A h \in Group : Follows(h)
<1>1. /\ lecture' = [h \in Group |-> lecture'[h]] /\ lecture'[g] = r
      /\ \A h \in Group : h # g => lecture'[h] = lecture[h]
  BY DEF Dated
<1>2. Dated'
  BY <1>1 DEF Dated
<1>3. Follows(g)
  <2>1. CASE r.status = "SCHEDULED"
    <3>1. PICK next : Proper(next) /\ r.day = next.day /\ r.hour = next.hour
                      /\ next.day >= lecture[g].day + 7
      BY <2>1
    <3>2. QED
      BY <1>1, <3>1, ProperIs DEF Follows, Proper
  <2>2. QED
    BY <1>1, <2>1 DEF Follows
<1>4. ASSUME NEW h \in Group, h # g PROVE Follows(h)
  BY <1>1, <1>4 DEF Follows
<1>5. QED
  BY <1>2, <1>3, <1>4

LEMMA DatedClaim ==
  ASSUME Dated, NEW g \in Group, ClaimLecture(g) \/ StartLecture(g)
  PROVE  Dated' /\ \A h \in Group : Follows(h)
<1>1. lecture[g] = [f \in LectureFields |-> lecture[g][f]] /\ lecture[g].day \in Nat
  BY DEF Dated
<1>2. CASE ClaimLecture(g)
  <2>1. PICK r : r = [lecture[g] EXCEPT !.status = "ASSIGNED", !.link = teacherLink]
    OBVIOUS
  <2>2. lecture' = [lecture EXCEPT ![g] = r]
    BY <1>2, <2>1 DEF ClaimLecture, Dated
  <2>3. r = [f \in LectureFields |-> r[f]] /\ r.day \in Nat /\ r.status # "SCHEDULED"
    BY <1>1, <2>1 DEF LectureFields
  <2>4. QED
    BY <2>2, <2>3, DatedOne
<1>3. CASE StartLecture(g)
  <2>1. PICK r : r = [lecture[g] EXCEPT !.status = "ONGOING"]
    OBVIOUS
  <2>2. lecture' = [lecture EXCEPT ![g] = r]
    BY <1>3, <2>1 DEF StartLecture, Dated
  <2>3. r = [f \in LectureFields |-> r[f]] /\ r.day \in Nat /\ r.status # "SCHEDULED"
    BY <1>1, <2>1 DEF LectureFields
  <2>4. QED
    BY <2>2, <2>3, DatedOne
<1>4. QED
  BY <1>2, <1>3

LEMMA DatedComplete ==
  ASSUME Dated, NEW g \in Group, CompleteLecture(g)
  PROVE  Dated' /\ \A h \in Group : Follows(h)
<1>1. PICK late \in Late :
        LET next == NextLecture(lecture[g], lecture[g].day + 7 * late)
        IN lecture' = [lecture EXCEPT ![g] = [status |-> "SCHEDULED", link |-> 0,
                                              day |-> next.day, hour |-> next.hour]]
  BY DEF CompleteLecture
<1>2. lecture[g].day \in Nat
  BY DEF Dated
<1>3. PICK today \in Nat : today = lecture[g].day + 7 * late
  <2>1. late \in Nat
    BY ClassroomAssumption DEF ClassroomAssumption
  <2>2. \A d \in Nat : d + 7 * late \in Nat
    BY <2>1
  <2>3. QED
    BY <1>2, <2>2
<1>4. PICK next : next = NextLecture(lecture[g], today)
  OBVIOUS
<1>5. Proper(next) /\ next.day >= lecture[g].day + 7
  BY <1>2, <1>4, NextLectureIs
<1>6. PICK r : r = [status |-> "SCHEDULED", link |-> 0, day |-> next.day, hour |-> next.hour]
  OBVIOUS
<1>7. lecture' = [lecture EXCEPT ![g] = r]
  BY <1>1, <1>3, <1>4, <1>6, Zenon
<1>8. r = [f \in LectureFields |-> r[f]] /\ r.day = next.day /\ r.hour = next.hour
  BY <1>6 DEF LectureFields
<1>9. r.day \in Nat
  BY <1>5, <1>8 DEF Proper
<1>10. QED
  BY <1>5, <1>7, <1>8, <1>9, DatedOne

LEMMA DatedNext == Dated /\ [Next]_vars => Dated' /\ \A g \in Group : Follows(g)
<1> SUFFICES ASSUME Dated, [Next]_vars PROVE Dated' /\ \A g \in Group : Follows(g)
  OBVIOUS
<1>1. CASE UNCHANGED vars
  BY <1>1, DatedElsewhere DEF vars
<1>2. ASSUME NEW g \in Group, ClaimLecture(g) \/ StartLecture(g) \/ CompleteLecture(g)
      PROVE  Dated' /\ \A h \in Group : Follows(h)
  BY <1>2, DatedClaim, DatedComplete
<1>3. ASSUME NEW s \in Student, Join(s) \/ Leave(s) PROVE UNCHANGED lecture
  BY <1>3 DEF Join, Leave
<1>4. CASE GetUpdates \/ HandleUpdate \/ SaveMember \/ Restart
  <2>1. UNCHANGED lecture
    BY <1>4 DEF GetUpdates, HandleUpdate, SaveMember, Restart, Others
  <2>2. QED
    BY <2>1, DatedElsewhere
<1>5. ASSUME NEW i \in Handler, CleanUp(i) PROVE UNCHANGED lecture
  BY <1>5 DEF CleanUp, FindTeacher, FindMembers, BanMember, FailedBan, UnbanMember,
     DeleteMembers, RevokeLink, ExportLink, SaveLink, Kept
<1>6. QED
  BY <1>1, <1>2, <1>3, <1>4, <1>5, DatedElsewhere DEF Next

\* However late lectures are completed and however often, the one that follows is at least a
\* week later, in a slot, neither on a Sunday nor in the hours of the Friday prayer.
\* (schedule-calculator.service.ts:36.)
THEOREM FollowsTheCalendarCorrect == Spec => FollowsTheCalendar
<1>1. Dated /\ [Next]_vars =>
        [\A g \in Group : lecture'[g].status = "SCHEDULED" /\ lecture[g].status = "ONGOING" =>
           LET next == lecture'[g]
           IN /\ next.day >= lecture[g].day + 7
              /\ next.hour \in {TimeSlots[i] : i \in DOMAIN TimeSlots}
              /\ Weekday(next.day) # Sunday
              /\ ~(Weekday(next.day) = Friday /\ next.hour \in {12, 13})]_vars
  BY DatedNext DEF Follows
<1>2. QED
  BY <1>1, DatedInit, DatedNext, PTL DEF Spec, FollowsTheCalendar

=============================================================================
