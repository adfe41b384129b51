--------------------------- MODULE DevicesProofs ---------------------------
(***************************************************************************)
(* What holds of the devices of a user for any number of devices, limits   *)
(* and requests.                                                           *)
(***************************************************************************)
EXTENDS Devices, FiniteSetTheorems, TLAPS

-----------------------------------------------------------------------------
(***************************************************************************)
(* Type correctness.                                                       *)
(***************************************************************************)
Request ==
  {Idle} \cup [step : {"token"}, user : UserRow, device : Device \cup {NoDevice}]
         \cup [step : {"user"}, user : UserRow]
         \cup [step : {"register", "create"}, device : Device]
         \cup [step : {"save", "remove"}, device : Device, row : Row]

Task ==
  {Asleep} \cup [step : {"find"}, list : [Device -> Nat]]
           \cup [step : {"deactivate"}, list : [Device -> Nat], device : Device, row : Row]

RowsOK ==
  /\ user \in UserRow
  /\ device \in [Device -> Row \cup {NoRow}]
  /\ lastId \in Nat

TypeInv ==
  /\ RowsOK
  /\ req \in [Worker -> Request]
  /\ job \in [Jobs -> Task]
  /\ requests \in 0..MaxRequests /\ months \in 0..MaxMonths /\ aborts \in 0..MaxAborts

LEMMA TypeInvIsTypeOK == TypeInv <=> TypeOK
  BY DEF TypeInv, TypeOK, RowsOK, Request, Task

LEMMA TypeInit == Init => TypeInv
  BY DevicesAssumption DEF Init, TypeInv, RowsOK, UserRow, Request, Task

\* What a request holds at each of its steps.
LEMMA AtStep ==
  ASSUME TypeInv, NEW w \in Worker
  PROVE  /\ req[w].step = "token" =>
              req[w].user \in UserRow /\ req[w].device \in Device \cup {NoDevice}
         /\ req[w].step = "user" => req[w].user \in UserRow
         /\ req[w].step \in {"register", "create"} => req[w].device \in Device
         /\ req[w].step \in {"save", "remove"} => req[w].device \in Device /\ req[w].row \in Row
<1>1. req[w] \in Request
  BY DEF TypeInv
<1>2. QED
  BY <1>1 DEF Request, Idle

\* What the operations change of a row.
LEMMA RowChanges ==
  ASSUME NEW r \in Row
  PROVE  /\ [r EXCEPT !.active = TRUE, !.login = 0] \in Row
         /\ [r EXCEPT !.login = 0, !.expiry = -1] \in Row
         /\ [r EXCEPT !.active = FALSE] \in Row
         /\ [r EXCEPT !.active = FALSE].active = FALSE
<1> DEFINE used == [r EXCEPT !.active = TRUE]
           fresh == [r EXCEPT !.login = 0]
<1>1. used \in Row /\ fresh \in Row
  <2>1. used \in Row
    BY DEF Row
  <2>2. \A n \in 0..2 : [r EXCEPT !.login = n] \in Row
    BY DEF Row
  <2>3. QED
    BY <2>1, <2>2
<1>2. [r EXCEPT !.active = FALSE] \in Row /\ [r EXCEPT !.active = FALSE].active = FALSE
  BY DEF Row
<1> HIDE DEF used, fresh
<1>3. [used EXCEPT !.login = 0] \in Row
  BY <1>1 DEF Row
<1>4. [fresh EXCEPT !.expiry = -1] \in Row
  <2>1. \A n \in -1..1 : [fresh EXCEPT !.expiry = n] \in Row
    BY <1>1 DEF Row
  <2>2. QED
    BY <2>1
<1>5. QED
  BY <1>2, <1>3, <1>4, Zenon DEF used, fresh

LEMMA RegisteredRow ==
  ASSUME TypeInv, NEW d \in Registered
  PROVE  d \in Device /\ device[d] \in Row
  BY DEF TypeInv, RowsOK, Registered

LEMMA SavedType ==
  ASSUME TypeInv, NEW d \in Device, NEW row \in Row
  PROVE  /\ SavedDevice(d, row) \in [Device -> Row \cup {NoRow}]
         /\ SavedDevice(d, row)[d] \in {device[d], row}
         /\ \A e \in Device \ {d} : SavedDevice(d, row)[e] = device[e]
  BY DEF TypeInv, RowsOK, SavedDevice

\* The parts of a step of a request.
LEMMA TypeStart ==
  ASSUME TypeInv, NEW w \in Worker, NEW first \in Request, Start(w, first)
  PROVE  TypeInv'
<1>1. req' \in [Worker -> Request]
  BY DEF Start, TypeInv
<1>2. requests' \in 0..MaxRequests
  BY DevicesAssumption DEF Start, TypeInv
<1>3. QED
  BY <1>1, <1>2 DEF Start, TypeInv, RowsOK, Rows

LEMMA TypeContinue ==
  ASSUME TypeInv, NEW w \in Worker, NEW next \in Request, Continue(w, next), RowsOK'
  PROVE  TypeInv'
  BY DEF Continue, TypeInv

LEMMA IdleType == Idle \in Request
  BY DEF Request

LEMMA SaveType ==
  ASSUME NEW d \in Device, NEW row \in Row, NEW step \in {"save", "remove"}
  PROVE  [step |-> step, device |-> d, row |-> row] \in Request
  BY DEF Request

LEMMA RegisterType ==
  ASSUME NEW d \in Device, NEW step \in {"register", "create"}
  PROVE  [step |-> step, device |-> d] \in Request
  BY DEF Request

-----------------------------------------------------------------------------
LEMMA TypeLogin ==
  ASSUME TypeInv, NEW w \in Worker, NEW d \in Device \cup {NoDevice}, Login(w, d)
  PROVE  TypeInv'
<1>1. [step |-> "token", user |-> user, device |-> d] \in Request
  BY DEF Request, TypeInv, RowsOK
<1>2. QED
  BY <1>1, TypeStart DEF Login

LEMMA TypeSaveToken ==
  ASSUME TypeInv, NEW w \in Worker, SaveToken(w)
  PROVE  TypeInv'
<1>1. req[w].user \in UserRow /\ req[w].device \in Device \cup {NoDevice}
  BY AtStep DEF SaveToken
<1>2. RowsOK'
  BY <1>1 DEF SaveToken, TypeInv, RowsOK
<1>3. PICK next \in Request : Continue(w, next)
  <2>1. CASE req[w].device # NoDevice /\ req[w].user.managed
    BY <1>1, <2>1, RegisterType DEF SaveToken
  <2>2. CASE ~(req[w].device # NoDevice /\ req[w].user.managed)
    BY <2>2, IdleType DEF SaveToken
  <2>3. QED
    BY <2>1, <2>2
<1>4. QED
  BY <1>2, <1>3, TypeContinue

LEMMA ReturnedType == \A d \in Registered : TypeInv => Returned(d) \in Row
<1> SUFFICES ASSUME NEW d \in Registered, TypeInv PROVE Returned(d) \in Row
  OBVIOUS
<1>1. device[d] \in Row
  BY RegisteredRow
<1>2. QED
  BY <1>1, RowChanges DEF Returned

LEMMA TypeRegisterDevice ==
  ASSUME TypeInv, NEW w \in Worker, RegisterDevice(w)
  PROVE  TypeInv'
<1> DEFINE d == req[w].device
<1>1. d \in Device
  BY AtStep DEF RegisterDevice
<1>2. RowsOK'
  BY DEF RegisterDevice, TypeInv, RowsOK, Rows
<1>3. PICK next \in Request : Continue(w, next)
  <2>1. CASE user.managed /\ d \in Registered
    BY <1>1, <2>1, ReturnedType, SaveType DEF RegisterDevice
  <2>2. CASE ~(user.managed /\ d \in Registered) /\ user.managed /\ ~CanAdd
    BY <2>2, IdleType DEF RegisterDevice
  <2>3. CASE ~(user.managed /\ d \in Registered) /\ ~(user.managed /\ ~CanAdd)
    BY <1>1, <2>3, RegisterType DEF RegisterDevice
  <2>4. QED
    BY <2>1, <2>2, <2>3
<1>4. QED
  BY <1>2, <1>3, TypeContinue

LEMMA NewRowType ==
  ASSUME TypeInv
  PROVE  [id |-> lastId + 1, active |-> TRUE, login |-> 0, expiry |-> -1] \in Row
  BY DEF TypeInv, RowsOK, Row

LEMMA TypeCreateDevice ==
  ASSUME TypeInv, NEW w \in Worker, CreateDevice(w)
  PROVE  TypeInv'
<1>1. req[w].device \in Device
  BY AtStep DEF CreateDevice
<1>2. device' \in [Device -> Row \cup {NoRow}]
  BY <1>1, NewRowType, SavedType DEF CreateDevice
<1>3. RowsOK'
  <2>1. lastId' = lastId + 1 /\ user' = user
    BY DEF CreateDevice
  <2>2. QED
    BY <1>2, <2>1 DEF TypeInv, RowsOK
<1>4. QED
  BY <1>3, IdleType, TypeContinue DEF CreateDevice

LEMMA TypeOpen ==
  ASSUME TypeInv, NEW w \in Worker, NEW d \in Device,
         RefreshDeviceSession(w, d) \/ UpdateDevice(w, d) \/ RemoveDevice(w, d)
  PROVE  TypeInv'
<1>1. device[d] \in Row
  BY RegisteredRow DEF RefreshDeviceSession, UpdateDevice, RemoveDevice
<1>2. [device[d] EXCEPT !.login = 0, !.expiry = -1] \in Row
  BY <1>1, RowChanges
<1>3. QED
  BY <1>1, <1>2, SaveType, TypeStart DEF RefreshDeviceSession, UpdateDevice, RemoveDevice

LEMMA TypeSaves ==
  ASSUME TypeInv, NEW w \in Worker, SaveDevice(w) \/ DeleteDevice(w) \/ SaveUser(w)
  PROVE  TypeInv'
<1>1. CASE SaveDevice(w)
  <2>1. req[w].device \in Device /\ req[w].row \in Row
    BY <1>1, AtStep DEF SaveDevice
  <2>2. RowsOK'
    BY <1>1, <2>1, SavedType DEF SaveDevice, TypeInv, RowsOK
  <2>3. QED
    BY <1>1, <2>2, IdleType, TypeContinue DEF SaveDevice
<1>2. CASE DeleteDevice(w)
  <2>1. RowsOK'
    BY <1>2 DEF DeleteDevice, TypeInv, RowsOK
  <2>2. QED
    BY <1>2, <2>1, IdleType, TypeContinue DEF DeleteDevice
<1>3. CASE SaveUser(w)
  <2>1. RowsOK'
    BY <1>3, AtStep DEF SaveUser, TypeInv, RowsOK
  <2>2. QED
    BY <1>3, <2>1, IdleType, TypeContinue DEF SaveUser
<1>4. QED
  BY <1>1, <1>2, <1>3

LEMMA TypeRemoveAllDevices ==
  ASSUME TypeInv, NEW w \in Worker, RemoveAllDevices(w)
  PROVE  TypeInv'
<1>1. requests' \in 0..MaxRequests
  BY DevicesAssumption DEF RemoveAllDevices, TypeInv
<1>2. RowsOK'
  BY DEF RemoveAllDevices, TypeInv, RowsOK
<1>3. QED
  BY <1>1, <1>2 DEF RemoveAllDevices, TypeInv

LEMMA TypeSettings ==
  ASSUME TypeInv, NEW w \in Worker,
         \/ \E on \in BOOLEAN : SetManagement(w, on)
         \/ \E m \in Limits : SetMaxDevices(w, m)
  PROVE  TypeInv'
<1>1. user \in UserRow
  BY DEF TypeInv, RowsOK
<1>2. /\ \A on \in BOOLEAN : [step |-> "user", user |-> [user EXCEPT !.managed = on]] \in Request
      /\ \A m \in Limits : [step |-> "user", user |-> [user EXCEPT !.max = m]] \in Request
  BY <1>1 DEF UserRow, Request
<1>3. QED
  BY <1>2, TypeStart DEF SetManagement, SetMaxDevices

-----------------------------------------------------------------------------
\* The clean-up jobs.
LEMMA AwakeType ==
  ASSUME NEW list \in [Device -> Nat]
  PROVE  Awake(list) \in Task
  BY DEF Awake, Task

LEMMA AtTask ==
  ASSUME TypeInv, NEW j \in Jobs
  PROVE  /\ job[j].step \in {"find", "deactivate"} => job[j].list \in [Device -> Nat]
         /\ job[j].step = "deactivate" => job[j].device \in Device /\ job[j].row \in Row
<1>1. job[j] \in Task
  BY DEF TypeInv
<1>2. QED
  BY <1>1 DEF Task, Asleep

LEMMA TypeTask ==
  ASSUME TypeInv, NEW j \in Jobs, NEW task \in Task, job' = [job EXCEPT ![j] = task], RowsOK',
         UNCHANGED <<req, requests, months, aborts>>
  PROVE  TypeInv'
  BY DEF TypeInv

LEMMA TypeCleanUp ==
  ASSUME TypeInv, NEW j \in Jobs, CleanUp(j)
  PROVE  TypeInv'
<1> DEFINE list == [d \in Device |-> IF d \in Due(j) THEN device[d].id ELSE 0]
<1>1. \A d \in Due(j) : device[d].id \in Nat
  <2> SUFFICES ASSUME NEW d \in Due(j) PROVE device[d].id \in Nat
    OBVIOUS
  <2>1. device[d] \in Row
    BY RegisteredRow DEF Due, Active
  <2>2. QED
    BY <2>1 DEF Row
<1>2. list \in [Device -> Nat]
  BY <1>1
<1>3. job' = [job EXCEPT ![j] = Awake(list)] /\ UNCHANGED <<req, requests, months, aborts>>
  BY DEF CleanUp
<1>4. RowsOK'
  BY DEF CleanUp, Rows, TypeInv, RowsOK
<1> HIDE DEF list
<1>5. QED
  BY <1>2, <1>3, <1>4, AwakeType, TypeTask

LEMMA WithoutType ==
  ASSUME NEW list \in [Device -> Nat], NEW d \in Device
  PROVE  Without(list, d) \in [Device -> Nat]
  BY DEF Without

LEMMA TypeFindDevice ==
  ASSUME TypeInv, NEW j \in Jobs, FindDevice(j)
  PROVE  TypeInv'
<1>1. job[j].list \in [Device -> Nat]
  BY AtTask DEF FindDevice
<1> DEFINE next(d) ==
         IF device[d].id = job[j].list[d]
         THEN [step |-> "deactivate", list |-> Without(job[j].list, d), device |-> d,
               row |-> device[d]]
         ELSE Awake(Without(job[j].list, d))
<1>2. PICK d \in ToDo(job[j].list) : job' = [job EXCEPT ![j] = next(d)]
  BY DEF FindDevice, TypeInv
<1>3. d \in Device /\ job[j].list[d] # 0
  BY <1>1, <1>2 DEF ToDo
<1>4. next(d) \in Task
  <2>1. CASE device[d].id = job[j].list[d]
    <3>1. device[d] # NoRow
      BY <1>3, <2>1 DEF NoRow
    <3>2. device[d] \in Row
      BY <1>3, <3>1 DEF TypeInv, RowsOK
    <3>3. QED
      BY <1>1, <1>3, <2>1, <3>2, WithoutType DEF Task
  <2>2. CASE device[d].id # job[j].list[d]
    BY <1>1, <1>3, <2>2, WithoutType, AwakeType
  <2>3. QED
    BY <2>1, <2>2
<1>5. RowsOK' /\ UNCHANGED <<req, requests, months, aborts>>
  BY DEF FindDevice, Rows, TypeInv, RowsOK
<1> HIDE DEF next
<1>6. QED
  BY <1>2, <1>4, <1>5, TypeTask

\* What deactivating a device leaves of the rows.
LEMMA Deactivated ==
  ASSUME TypeInv, NEW j \in Jobs, DeactivateDevice(j)
  PROVE  /\ device' \in [Device -> Row \cup {NoRow}]
         /\ \A d \in Device : device'[d] = device[d]
                               \/ (device'[d] \in Row /\ ~device'[d].active)
         /\ user' = user
<1> DEFINE d == job[j].device
           row == [job[j].row EXCEPT !.active = FALSE]
<1>1. d \in Device /\ job[j].row \in Row
  BY AtTask DEF DeactivateDevice
<1>2. row \in Row /\ row.active = FALSE
  BY <1>1, RowChanges
<1>3. device' = SavedDevice(d, row) /\ user' = user
  BY DEF DeactivateDevice
<1> HIDE DEF row, d
<1>4. QED
  BY <1>1, <1>2, <1>3, SavedType

LEMMA TypeDeactivateDevice ==
  ASSUME TypeInv, NEW j \in Jobs, DeactivateDevice(j)
  PROVE  TypeInv'
<1>1. job[j].list \in [Device -> Nat]
  BY AtTask DEF DeactivateDevice
<1>2. RowsOK'
  BY Deactivated DEF DeactivateDevice, TypeInv, RowsOK
<1>3. PICK task \in {Awake(job[j].list), Asleep} : job' = [job EXCEPT ![j] = task]
  BY DEF DeactivateDevice, TypeInv
<1>4. task \in Task
  BY <1>1, AwakeType DEF Task
<1>5. QED
  BY <1>2, <1>3, <1>4, TypeTask DEF DeactivateDevice

LEMMA TypeAborts ==
  ASSUME TypeInv, (\E w \in Worker : AbortRequest(w)) \/ (\E j \in Jobs : AbortJob(j))
  PROVE  TypeInv'
<1>1. aborts' \in 0..MaxAborts
  BY DevicesAssumption DEF AbortRequest, AbortJob, TypeInv
<1>2. req' \in [Worker -> Request] /\ job' \in [Jobs -> Task]
  BY DEF AbortRequest, AbortJob, TypeInv, Request, Task
<1>3. QED
  BY <1>1, <1>2 DEF AbortRequest, AbortJob, TypeInv, RowsOK, Rows

\* A month makes rows older, and changes nothing else of them.
LEMMA Aged ==
  ASSUME TypeInv, Month
  PROVE  /\ device' \in [Device -> Row \cup {NoRow}]
         /\ \A d \in Device : device[d] = NoRow => device'[d] = NoRow
         /\ \A d \in Registered : device'[d] \in Row /\ device'[d].active = device[d].active
<1> DEFINE old(d) == [device[d] EXCEPT !.login = Older(@, 2), !.expiry = Older(@, 1)]
<1>1. device' = [d \in Device |-> IF d \in Registered THEN old(d) ELSE NoRow]
  BY DEF Month
<1>2. ASSUME NEW d \in Registered
      PROVE  old(d) \in Row /\ old(d).active = device[d].active
  <2> DEFINE login == Older(device[d].login, 2)
             expiry == Older(device[d].expiry, 1)
             later == [device[d] EXCEPT !.login = login]
  <2>1. device[d] \in Row
    BY RegisteredRow
  <2>2. login \in 0..2 /\ expiry \in -1..1
    BY <2>1 DEF Older, Row
  <2>3. old(d) = [later EXCEPT !.expiry = expiry]
    <3>1. later.expiry = device[d].expiry
      <4> HIDE DEF login
      <4>1. QED
        BY <2>1 DEF Row
    <3>2. QED
      BY <3>1, Zenon
  <2> HIDE DEF login, expiry, old
  <2>4. later \in Row /\ later.active = device[d].active
    BY <2>1, <2>2 DEF Row
  <2> HIDE DEF later
  <2>5. QED
    BY <2>2, <2>3, <2>4 DEF Row
<1> HIDE DEF old
<1>3. QED
  BY <1>1, <1>2 DEF Registered

LEMMA TypeMonth ==
  ASSUME TypeInv, Month
  PROVE  TypeInv'
<1>1. months' \in 0..MaxMonths
  <2>1. months < MaxMonths /\ months' = months + 1
    BY DEF Month
  <2>2. QED
    BY <2>1, DevicesAssumption DEF TypeInv
<1>2. RowsOK'
  BY Aged DEF Month, TypeInv, RowsOK
<1>3. QED
  BY <1>1, <1>2 DEF Month, TypeInv

LEMMA TypeNext == TypeInv /\ [Next]_vars => TypeInv'
<1> SUFFICES ASSUME TypeInv, [Next]_vars PROVE TypeInv'
  OBVIOUS
<1>1. CASE UNCHANGED vars
  BY <1>1 DEF vars, TypeInv, RowsOK
<1>2. ASSUME NEW w \in Worker, \E d \in Device \cup {NoDevice} : Login(w, d)
      PROVE  TypeInv'
  BY <1>2, TypeLogin
<1>3. ASSUME NEW w \in Worker, NEW d \in Device,
             \/ Register(w, d) \/ RefreshDeviceSession(w, d) \/ UpdateDevice(w, d)
             \/ RemoveDevice(w, d)
      PROVE  TypeInv'
  BY <1>3, TypeOpen, TypeStart, RegisterType DEF Register
<1>4. ASSUME NEW w \in Worker,
             \/ RemoveAllDevices(w)
             \/ \E on \in BOOLEAN : SetManagement(w, on)
             \/ \E m \in Limits : SetMaxDevices(w, m)
      PROVE  TypeInv'
  BY <1>4, TypeRemoveAllDevices, TypeSettings
<1>5. ASSUME NEW w \in Worker, Handle(w)
      PROVE  TypeInv'
  BY <1>5, TypeSaveToken, TypeRegisterDevice, TypeCreateDevice, TypeSaves DEF Handle
<1>6. ASSUME NEW j \in Jobs, CleanUp(j) \/ RunJob(j)
      PROVE  TypeInv'
  BY <1>6, TypeCleanUp, TypeFindDevice, TypeDeactivateDevice DEF RunJob
<1>7. CASE (\E w \in Worker : AbortRequest(w)) \/ (\E j \in Jobs : AbortJob(j))
  BY <1>7, TypeAborts
<1>8. CASE Month
  BY <1>8, TypeMonth
<1>9. QED
  BY <1>1, <1>2, <1>3, <1>4, <1>5, <1>6, <1>7, <1>8 DEF Next

\* Every row has the columns of user_devices, and what a handler holds is what its step needs,
\* for any number of devices and requests that overlap in any way.
THEOREM TypeCorrect == Spec => []TypeOK
  BY TypeInit, TypeNext, TypeInvIsTypeOK, PTL DEF Spec

-----------------------------------------------------------------------------
(***************************************************************************)
(* The limit, for a user whose requests come one at a time: a request that *)
(* is about to create a device has found room, which neither the jobs nor  *)
(* time take away, and a device that is about to be saved is there.        *)
(***************************************************************************)
OneAtATime == \A v, w \in Worker : v = w

Room == Cardinality(Active) < MaxDevices(user)

RoomInv ==
  /\ TypeInv
  /\ \A w \in Worker :
       /\ req[w].step = "create" /\ user.managed => Room
       /\ req[w].step = "save" => req[w].device \in Registered

LEMMA ActiveFinite ==
  ASSUME IsFiniteSet(Device)
  PROVE  IsFiniteSet(Active) /\ Cardinality(Active) \in Nat
  BY FS_Subset, FS_CardinalityType DEF Active, Registered

LEMMA MaxDevicesType ==
  ASSUME TypeInv
  PROVE  MaxDevices(user) \in Nat
  BY DevicesAssumption DEF TypeInv, RowsOK, UserRow, MaxDevices

\* Room stays while no device becomes active and the user row is left alone.
LEMMA RoomStays ==
  ASSUME IsFiniteSet(Device), TypeInv, Room, Active' \subseteq Active, user' = user
  PROVE  Room'
<1>1. Cardinality(Active') <= Cardinality(Active) /\ Cardinality(Active') \in Nat
  BY ActiveFinite, FS_Subset, FS_CardinalityType
<1>2. MaxDevices(user)' = MaxDevices(user)
  BY DEF MaxDevices
<1>3. QED
  BY <1>1, <1>2, ActiveFinite, MaxDevicesType DEF Room

LEMMA RoomInit == Init => RoomInv
  BY TypeInit DEF Init, RoomInv, Idle

\* A step that changes no request.
LEMMA RoomJobs ==
  ASSUME IsFiniteSet(Device), RoomInv, TypeInv', req' = req, user' = user,
         Active' \subseteq Active, Registered \subseteq Registered'
  PROVE  RoomInv'
  BY RoomStays DEF RoomInv

\* A request that begins.
LEMMA RoomStart ==
  ASSUME IsFiniteSet(Device), OneAtATime, RoomInv, TypeInv', NEW w \in Worker, NEW first,
         Start(w, first), first.step # "create",
         first.step = "save" => first.device \in Registered
  PROVE  RoomInv'
<1>1. req'[w] = first /\ \A v \in Worker : v = w
  BY DEF OneAtATime, Start, RoomInv, TypeInv
<1>2. Registered' = Registered
  BY DEF Start, Rows, Registered
<1>3. QED
  BY <1>1, <1>2 DEF RoomInv

\* A request that goes on to another step or ends.
LEMMA RoomContinue ==
  ASSUME OneAtATime, RoomInv, TypeInv', NEW w \in Worker, NEW next, Continue(w, next),
         next.step = "create" /\ user'.managed => Room',
         next.step # "save"
  PROVE  RoomInv'
<1>1. req'[w] = next /\ \A v \in Worker : v = w
  BY DEF OneAtATime, Continue, RoomInv, TypeInv
<1>2. QED
  BY <1>1 DEF RoomInv

LEMMA RoomSaveToken ==
  ASSUME OneAtATime, RoomInv, TypeInv', NEW w \in Worker, SaveToken(w)
  PROVE  RoomInv'
<1>1. PICK next \in {[step |-> "register", device |-> req[w].device], Idle} : Continue(w, next)
  BY DEF SaveToken
<1>2. next.step \notin {"create", "save"}
  BY DEF Idle
<1>3. QED
  BY <1>1, <1>2, RoomContinue

LEMMA RoomRegisterDevice ==
  ASSUME OneAtATime, RoomInv, TypeInv', NEW w \in Worker, RegisterDevice(w)
  PROVE  RoomInv'
<1> DEFINE d == req[w].device
<1>1. UNCHANGED <<user, device>> /\ \A v \in Worker : v = w
  BY DEF OneAtATime, RegisterDevice, Rows
<1>2. Registered' = Registered /\ (Room' <=> Room)
  BY <1>1 DEF Registered, Room, Active, MaxDevices
<1>3. CASE user.managed /\ d \in Registered
  <2>1. req'[w] = [step |-> "save", device |-> d, row |-> Returned(d)]
    BY <1>3 DEF RegisterDevice, Continue, RoomInv, TypeInv
  <2>2. QED
    BY <1>1, <1>2, <1>3, <2>1 DEF RoomInv
<1>4. CASE ~(user.managed /\ d \in Registered) /\ user.managed /\ ~CanAdd
  <2>1. Continue(w, Idle)
    BY <1>4 DEF RegisterDevice
  <2>2. QED
    BY <2>1, RoomContinue DEF Idle
<1>5. CASE ~(user.managed /\ d \in Registered) /\ ~(user.managed /\ ~CanAdd)
  <2>1. Continue(w, [step |-> "create", device |-> d])
    BY <1>5 DEF RegisterDevice
  <2>2. user'.managed => Room'
    BY <1>1, <1>2, <1>5 DEF CanAdd, Room
  <2>3. QED
    BY <2>1, <2>2, RoomContinue
<1>6. QED
  BY <1>3, <1>4, <1>5

LEMMA RoomEnds ==
  ASSUME OneAtATime, RoomInv, TypeInv', NEW w \in Worker, Continue(w, Idle)
  PROVE  RoomInv'
  BY RoomContinue DEF Idle

\* The devices that are active and registered after a job or a month.
LEMMA RoomDeactivate ==
  ASSUME IsFiniteSet(Device), RoomInv, TypeInv', NEW j \in Jobs, DeactivateDevice(j)
  PROVE  RoomInv'
<1>1. TypeInv
  BY DEF RoomInv
<1>2. /\ user' = user
      /\ \A d \in Device : device'[d] = device[d]
                            \/ (device'[d] \in Row /\ ~device'[d].active)
  BY <1>1, Deactivated
<1>3. Active' \subseteq Active
  BY <1>2 DEF Active, Registered
<1>4. Registered \subseteq Registered'
  <2>1. NoRow \notin Row
    BY DEF NoRow, Row
  <2>2. QED
    BY <1>2, <2>1 DEF Registered
<1>5. req' = req
  BY DEF DeactivateDevice
<1>6. QED
  BY <1>2, <1>3, <1>4, <1>5, RoomJobs

LEMMA RoomMonth ==
  ASSUME IsFiniteSet(Device), RoomInv, TypeInv', Month
  PROVE  RoomInv'
<1>1. TypeInv /\ NoRow \notin Row
  BY DEF RoomInv, NoRow, Row
<1>2. /\ \A d \in Device : device[d] = NoRow => device'[d] = NoRow
      /\ \A d \in Registered : device'[d] \in Row /\ device'[d].active = device[d].active
  BY <1>1, Aged
<1>3. Active' \subseteq Active /\ Registered \subseteq Registered'
  BY <1>1, <1>2 DEF Active, Registered
<1>4. req' = req /\ user' = user
  BY DEF Month
<1>5. QED
  BY <1>3, <1>4, RoomJobs

LEMMA RoomNext ==
  ASSUME IsFiniteSet(Device), OneAtATime, RoomInv, [Next]_vars
  PROVE  RoomInv'
<1>1. TypeInv /\ TypeInv'
  BY TypeNext DEF RoomInv
<1>2. CASE UNCHANGED vars
  BY <1>1, <1>2, RoomJobs DEF vars, Active, Registered
<1>3. ASSUME NEW w \in Worker, NEW d \in Device \cup {NoDevice},
             Login(w, d) \/ Register(w, d)
      PROVE  RoomInv'
  BY <1>1, <1>3, RoomStart DEF Login, Register
<1>4. ASSUME NEW w \in Worker, NEW d \in Device,
             RefreshDeviceSession(w, d) \/ UpdateDevice(w, d) \/ RemoveDevice(w, d)
      PROVE  RoomInv'
  BY <1>1, <1>4, RoomStart DEF RefreshDeviceSession, UpdateDevice, RemoveDevice
<1>5. ASSUME NEW w \in Worker, RemoveAllDevices(w)
      PROVE  RoomInv'
  <2>1. req[w] = Idle /\ req' = req /\ \A v \in Worker : v = w
    BY <1>5 DEF RemoveAllDevices, OneAtATime
  <2>2. QED
    BY <1>1, <2>1 DEF RoomInv, Idle
<1>6. ASSUME NEW w \in Worker,
             \/ \E on \in BOOLEAN : SetManagement(w, on)
             \/ \E m \in Limits : SetMaxDevices(w, m)
      PROVE  RoomInv'
  <2>1. PICK u : Start(w, [step |-> "user", user |-> u])
    BY <1>6 DEF SetManagement, SetMaxDevices
  <2>2. QED
    BY <1>1, <2>1, RoomStart
<1>7. ASSUME NEW w \in Worker, Handle(w)
      PROVE  RoomInv'
  BY <1>1, <1>7, RoomSaveToken, RoomRegisterDevice, RoomEnds
     DEF Handle, CreateDevice, SaveDevice, DeleteDevice, SaveUser
<1>8. ASSUME NEW j \in Jobs, CleanUp(j) \/ FindDevice(j) \/ AbortJob(j)
      PROVE  RoomInv'
  BY <1>1, <1>8, RoomJobs DEF CleanUp, FindDevice, AbortJob, Rows, Active, Registered
<1>9. ASSUME NEW w \in Worker, AbortRequest(w)
      PROVE  RoomInv'
  <2>1. req'[w] = Idle /\ \A v \in Worker : v = w
    BY <1>1, <1>9 DEF AbortRequest, OneAtATime, TypeInv
  <2>2. QED
    BY <1>1, <2>1 DEF RoomInv, Idle
<1>10. QED
  BY <1>1, <1>2, <1>3, <1>4, <1>5, <1>6, <1>7, <1>8, <1>9, RoomDeactivate, RoomMonth
     DEF Next, RunJob

\* A device that is new and active in a step.
Added(d) == device[d] = NoRow /\ device'[d] # NoRow /\ device'[d].active

\* Only a request that creates it adds a device, and it has found room.
LEMMA AddedWithinLimit ==
  ASSUME IsFiniteSet(Device), RoomInv, [Next]_vars, NEW d \in Device, Added(d), user.managed
  PROVE  Cardinality(Active') <= MaxDevices(user')
<1>1. TypeInv /\ device[d] = NoRow /\ device'[d] # NoRow /\ device'[d] # device[d]
  BY DEF Added, RoomInv
<1>2. ASSUME NEW w \in Worker, CreateDevice(w)
      PROVE  Cardinality(Active') <= MaxDevices(user')
  <2>1. Room /\ user' = user /\ req[w].device \in Device
    BY <1>1, <1>2, AtStep DEF RoomInv, CreateDevice
  <2>2. \A e \in Device \ {req[w].device} : device'[e] = device[e]
    BY <1>1, <1>2, <2>1, NewRowType, SavedType DEF CreateDevice
  <2>3. Active' \subseteq Active \cup {d}
    BY <1>1, <2>1, <2>2 DEF Active, Registered
  <2>4. /\ IsFiniteSet(Active \cup {d}) /\ Cardinality(Active) \in Nat
        /\ Cardinality(Active \cup {d}) <= Cardinality(Active) + 1
    <3>1. IsFiniteSet(Active) /\ Cardinality(Active) \in Nat
      BY ActiveFinite
    <3>2. /\ IsFiniteSet(Active \cup {d})
          /\ Cardinality(Active \cup {d}) =
               IF d \in Active THEN Cardinality(Active) ELSE Cardinality(Active) + 1
      BY <3>1, FS_AddElement, Zenon
    <3>3. QED
      BY <3>1, <3>2
  <2>5. /\ Cardinality(Active') <= Cardinality(Active \cup {d})
        /\ Cardinality(Active') \in Nat /\ Cardinality(Active \cup {d}) \in Nat
    BY <2>3, <2>4, FS_Subset, FS_CardinalityType
  <2>6. MaxDevices(user') = MaxDevices(user) /\ MaxDevices(user) \in Nat
    BY <1>1, <2>1, MaxDevicesType DEF MaxDevices
  <2>7. QED
    BY <2>1, <2>4, <2>5, <2>6 DEF Room
<1>3. ASSUME NEW w \in Worker, SaveDevice(w)
      PROVE  FALSE
  <2>1. req[w].device \in Registered /\ req[w].device \in Device /\ req[w].row \in Row
    BY <1>1, <1>3, AtStep DEF RoomInv, SaveDevice
  <2>2. \A e \in Device \ {req[w].device} : device'[e] = device[e]
    BY <1>1, <1>3, <2>1, SavedType DEF SaveDevice
  <2>3. QED
    BY <1>1, <2>1, <2>2 DEF Registered
<1>4. ASSUME NEW w \in Worker, DeleteDevice(w) \/ RemoveAllDevices(w)
      PROVE  FALSE
  BY <1>1, <1>4 DEF DeleteDevice, RemoveAllDevices, TypeInv, RowsOK
<1>5. ASSUME NEW j \in Jobs, DeactivateDevice(j)
      PROVE  FALSE
  BY <1>1, <1>5, Deactivated DEF Added
<1>6. CASE Month
  BY <1>1, <1>6, Aged
<1>7. CASE device' = device
  BY <1>1, <1>7
<1>8. CASE Next
  <2>1. ASSUME NEW w \in Worker,
               \/ \E e \in Device \cup {NoDevice} : Login(w, e)
               \/ \E e \in Device :
                    \/ Register(w, e) \/ RefreshDeviceSession(w, e) \/ UpdateDevice(w, e)
                    \/ RemoveDevice(w, e)
               \/ \E on \in BOOLEAN : SetManagement(w, on)
               \/ \E m \in Limits : SetMaxDevices(w, m)
        PROVE  device' = device
    <3>1. PICK first : Start(w, first)
      BY <2>1, Zenon DEF Login, Register, RefreshDeviceSession, UpdateDevice, RemoveDevice,
         SetManagement, SetMaxDevices
    <3>2. QED
      BY <3>1 DEF Start, Rows
  <2>2. ASSUME NEW w \in Worker,
               SaveToken(w) \/ RegisterDevice(w) \/ SaveUser(w) \/ AbortRequest(w)
        PROVE  device' = device
    BY <2>2 DEF SaveToken, RegisterDevice, SaveUser, AbortRequest, Rows
  <2>3. ASSUME NEW j \in Jobs, CleanUp(j) \/ FindDevice(j) \/ AbortJob(j)
        PROVE  device' = device
    BY <2>3 DEF CleanUp, FindDevice, AbortJob, Rows
  <2>4. QED
    BY <1>2, <1>3, <1>4, <1>5, <1>6, <1>7, <1>8, <2>1, <2>2, <2>3 DEF Next, Handle, RunJob
<1>9. QED
  BY <1>7, <1>8 DEF vars

\* For a user with any number of devices and any limit, whose requests come one at a time: a
\* device that is added never leaves more active devices than maxDevices, whatever the jobs
\* save meanwhile and whatever was abandoned. (device.service.ts:87.)
THEOREM NewDeviceCorrect ==
  ASSUME IsFiniteSet(Device), OneAtATime
  PROVE  Spec => NewDeviceWithinLimit
<1>1. RoomInv /\ [Next]_vars => RoomInv'
  BY RoomNext
<1>2. RoomInv /\ [Next]_vars =>
        [\A d \in Device :
          (device[d] = NoRow /\ device'[d] # NoRow /\ device'[d].active /\ user.managed)
            => Cardinality(Active') <= MaxDevices(user')]_vars
  BY AddedWithinLimit DEF Added
<1>3. QED
  BY <1>1, <1>2, RoomInit, PTL DEF Spec, NewDeviceWithinLimit
=============================================================================
