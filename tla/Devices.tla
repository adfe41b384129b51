------------------------------- MODULE Devices -------------------------------
(* The devices of one user: login and registration against maxDevices, the     *)
(* operations of the devices controller, and the two clean-up jobs             *)
(* (user-device/services, user-device/repositories, auth/auth.service.ts).     *)
(*                                                                             *)
(* A request in flight is a record of Worker w: the step it takes next, and    *)
(* the rows it has read. A save writes the whole row that was read; a saved    *)
(* row that was removed meanwhile is inserted again. A clean-up job walks the  *)
(* list it read. Dates are counted in months of 30 days: `login' is the age of *)
(* lastLoginAt, `expiry' the time since expiresAt (-1 before it).              *)
EXTENDS Integers, FiniteSets

CONSTANTS
    Device,       \* device ids
    Limits,       \* the values an admin gives to maxDevices, 0 among them
    RoleLimit,    \* DEFAULT_DEVICE_LIMITS of the role of the user
    Worker,       \* requests in flight at once
    MaxRequests,  \* bound of the model: requests started
    MaxMonths,    \* bound of the model: months that pass
    MaxAborts     \* bound of the model: handlers abandoned

ASSUME DevicesAssumption ==
    /\ Limits \subseteq Nat
    /\ RoleLimit \in Nat \ {0}
    /\ MaxRequests \in Nat /\ MaxMonths \in Nat /\ MaxAborts \in Nat

VARIABLES
    user,      \* the columns of users that matter here
    device,    \* user_devices: the row of each device id
    lastId,    \* the sequence of user_devices.id
    req,       \* requests in flight
    job,       \* the clean-up jobs
    requests, months, aborts

vars == <<user, device, lastId, req, job, requests, months, aborts>>

Jobs == {"expired", "inactive"}
NoDevice == "none"     \* a login without device information
UserRow == [managed : BOOLEAN, max : Limits]
Row == [id : Nat \ {0}, active : BOOLEAN, login : 0..2, expiry : -1..1]
NoRow == [id |-> 0]
Idle == [step |-> "idle"]
Asleep == [step |-> "asleep"]

Registered == {d \in Device : device[d] # NoRow}
Active == {d \in Registered : device[d].active}
MaxDevices(u) == IF u.max = 0 THEN RoleLimit ELSE u.max

TypeOK ==
    /\ user \in UserRow
    /\ device \in [Device -> Row \cup {NoRow}]
    /\ lastId \in Nat
    /\ req \in [Worker ->
        {Idle} \cup [step : {"token"}, user : UserRow, device : Device \cup {NoDevice}]
               \cup [step : {"user"}, user : UserRow]
               \cup [step : {"register", "create"}, device : Device]
               \cup [step : {"save", "remove"}, device : Device, row : Row]]
    /\ job \in [Jobs ->
        {Asleep} \cup [step : {"find"}, list : [Device -> Nat]]
                 \cup [step : {"deactivate"}, list : [Device -> Nat], device : Device, row : Row]]
    /\ requests \in 0..MaxRequests /\ months \in 0..MaxMonths /\ aborts \in 0..MaxAborts

Init ==
    /\ user \in [managed : BOOLEAN, max : Limits]
    /\ device = [d \in Device |-> NoRow]
    /\ lastId = 0
    /\ req = [w \in Worker |-> Idle]
    /\ job = [j \in Jobs |-> Asleep]
    /\ requests = 0 /\ months = 0 /\ aborts = 0

-----------------------------------------------------------------------------
Rows == <<user, device, lastId>>

Start(w, first) ==
    /\ req[w] = Idle
    /\ requests < MaxRequests
    /\ requests' = requests + 1
    /\ req' = [req EXCEPT ![w] = first]
    /\ UNCHANGED <<Rows, job, months, aborts>>

Continue(w, next) ==
    /\ req' = [req EXCEPT ![w] = next]
    /\ UNCHANGED <<job, requests, months, aborts>>

\* What repository.save leaves of device d when it is given `row': the row of that id is
\* overwritten, a row that is gone is inserted again, and an insert next to another row of
\* the device violates the unique index and throws.
SavedDevice(d, row) ==
    IF device[d] = NoRow \/ device[d].id = row.id THEN [device EXCEPT ![d] = row] ELSE device

-----------------------------------------------------------------------------
(* Login, with or without device information. *)

Login(w, d) == Start(w, [step |-> "token", user |-> user, device |-> d])

\* The hash of the refresh token is saved with the row as it was read. The device is
\* registered when the row that was read has device management enabled.
SaveToken(w) ==
    /\ req[w].step = "token"
    /\ user' = req[w].user
    /\ UNCHANGED <<device, lastId>>
    /\ Continue(w, IF req[w].device # NoDevice /\ req[w].user.managed
                   THEN [step |-> "register", device |-> req[w].device]
                   ELSE Idle)

\* POST /devices/register
Register(w, d) == Start(w, [step |-> "register", device |-> d])

\* A device that exists is used again whatever the limit; its expiry stays what it was.
Returned(d) == [device[d] EXCEPT !.active = TRUE, !.login = 0]

\* A plausible bug: the device to come is not counted.
LooseCanAdd == Cardinality(Active) <= MaxDevices(user)

CanAdd == Cardinality(Active) < MaxDevices(user)

\* The reads of registerDevice; without room it throws DeviceLimitExceededException.
RegisterDevice(w) ==
    /\ req[w].step = "register"
    /\ UNCHANGED Rows
    /\ LET d == req[w].device
       IN Continue(w,
            IF user.managed /\ d \in Registered
            THEN [step |-> "save", device |-> d, row |-> Returned(d)]
            ELSE IF user.managed /\ ~CanAdd
            THEN Idle
            ELSE [step |-> "create", device |-> d])

\* The insert of a row that is there already violates the unique index and throws.
CreateDevice(w) ==
    /\ req[w].step = "create"
    /\ lastId' = lastId + 1
    /\ device' = SavedDevice(req[w].device,
                    [id |-> lastId + 1, active |-> TRUE, login |-> 0, expiry |-> -1])
    /\ UNCHANGED user
    /\ Continue(w, Idle)

-----------------------------------------------------------------------------
(* The other operations of the controller. *)

\* The expiry starts anew.
RefreshDeviceSession(w, d) ==
    /\ d \in Registered
    /\ Start(w, [step |-> "save", device |-> d,
                 row |-> [device[d] EXCEPT !.login = 0, !.expiry = -1]])

\* updateDevice and setDeviceSecurityLevel change columns that are not modelled.
UpdateDevice(w, d) ==
    /\ d \in Registered
    /\ Start(w, [step |-> "save", device |-> d, row |-> device[d]])

SaveDevice(w) ==
    /\ req[w].step = "save"
    /\ device' = SavedDevice(req[w].device, req[w].row)
    /\ UNCHANGED <<user, lastId>>
    /\ Continue(w, Idle)

RemoveDevice(w, d) ==
    /\ d \in Registered
    /\ Start(w, [step |-> "remove", device |-> d, row |-> device[d]])

DeleteDevice(w) ==
    /\ req[w].step = "remove"
    /\ LET d == req[w].device
       IN device' = IF device[d].id = req[w].row.id THEN [device EXCEPT ![d] = NoRow] ELSE device
    /\ UNCHANGED <<user, lastId>>
    /\ Continue(w, Idle)

\* One statement deletes every row.
RemoveAllDevices(w) ==
    /\ req[w] = Idle
    /\ requests < MaxRequests
    /\ requests' = requests + 1
    /\ device' = [d \in Device |-> NoRow]
    /\ UNCHANGED <<user, lastId, req, job, months, aborts>>

\* enableDeviceManagement, disableDeviceManagement
SetManagement(w, on) == Start(w, [step |-> "user", user |-> [user EXCEPT !.managed = on]])

\* An admin gives the user another limit.
SetMaxDevices(w, m) == Start(w, [step |-> "user", user |-> [user EXCEPT !.max = m]])

SaveUser(w) ==
    /\ req[w].step = "user"
    /\ user' = req[w].user
    /\ UNCHANGED <<device, lastId>>
    /\ Continue(w, Idle)

-----------------------------------------------------------------------------
(* The clean-up jobs: every hour the devices that expired a month ago, every six hours *)
(* those that were not used for two months.                                            *)

\* A plausible bug: the wrong end of the interval.
LateDue(j) ==
    {d \in Active : IF j = "expired" THEN device[d].expiry > 1 ELSE device[d].login > 2}

Due(j) ==
    {d \in Active : IF j = "expired" THEN device[d].expiry >= 1 ELSE device[d].login >= 2}

\* The ids of the devices a job still has to look at; 0 for the others.
Without(list, d) == [list EXCEPT ![d] = 0]
ToDo(list) == {d \in DOMAIN list : list[d] # 0}
Awake(list) == IF ToDo(list) = {} THEN Asleep ELSE [step |-> "find", list |-> list]

CleanUp(j) ==
    /\ job[j] = Asleep
    /\ Due(j) # {}
    /\ job' = [job EXCEPT ![j] = Awake([d \in Device |-> IF d \in Due(j) THEN device[d].id ELSE 0])]
    /\ UNCHANGED <<Rows, req, requests, months, aborts>>

\* deactivateDevice finds the row by its id; when it is gone the job goes on.
FindDevice(j) ==
    /\ job[j].step = "find"
    /\ \E d \in ToDo(job[j].list) :
         job' = [job EXCEPT ![j] =
            IF device[d].id = @.list[d]
            THEN [step |-> "deactivate", list |-> Without(@.list, d), device |-> d,
                  row |-> device[d]]
            ELSE Awake(Without(@.list, d))]
    /\ UNCHANGED <<Rows, req, requests, months, aborts>>

\* A save that throws ends the job.
DeactivateDevice(j) ==
    /\ job[j].step = "deactivate"
    /\ LET d == job[j].device
           row == [job[j].row EXCEPT !.active = FALSE]
       IN /\ device' = SavedDevice(d, row)
          /\ job' = [job EXCEPT ![j] = IF device'[d] = row THEN Awake(@.list) ELSE Asleep]
    /\ UNCHANGED <<user, lastId, req, requests, months, aborts>>

-----------------------------------------------------------------------------
(* The environment. *)

AbortRequest(w) ==
    /\ req[w] # Idle
    /\ aborts < MaxAborts
    /\ aborts' = aborts + 1
    /\ req' = [req EXCEPT ![w] = Idle]
    /\ UNCHANGED <<Rows, job, requests, months>>

AbortJob(j) ==
    /\ job[j] # Asleep
    /\ aborts < MaxAborts
    /\ aborts' = aborts + 1
    /\ job' = [job EXCEPT ![j] = Asleep]
    /\ UNCHANGED <<Rows, req, requests, months>>

Older(age, top) == IF age < top THEN age + 1 ELSE age

\* A month passes; no handler takes that long.
Month ==
    /\ months < MaxMonths
    /\ \A w \in Worker : req[w] = Idle
    /\ \A j \in Jobs : job[j] = Asleep
    /\ months' = months + 1
    /\ device' = [d \in Device |->
         IF d \in Registered
         THEN [device[d] EXCEPT !.login = Older(@, 2), !.expiry = Older(@, 1)]
         ELSE NoRow]
    /\ UNCHANGED <<user, lastId, req, job, requests, aborts>>

Handle(w) ==
    \/ SaveToken(w) \/ RegisterDevice(w) \/ CreateDevice(w)
    \/ SaveDevice(w) \/ DeleteDevice(w) \/ SaveUser(w)

RunJob(j) == FindDevice(j) \/ DeactivateDevice(j)

Next ==
    \/ \E w \in Worker :
        \/ \E d \in Device \cup {NoDevice} : Login(w, d)
        \/ \E d \in Device :
            Register(w, d) \/ RefreshDeviceSession(w, d) \/ UpdateDevice(w, d) \/ RemoveDevice(w, d)
        \/ RemoveAllDevices(w)
        \/ \E on \in BOOLEAN : SetManagement(w, on)
        \/ \E m \in Limits : SetMaxDevices(w, m)
        \/ Handle(w)
        \/ AbortRequest(w)
    \/ \E j \in Jobs : CleanUp(j) \/ RunJob(j) \/ AbortJob(j)
    \/ Month

Fairness ==
    /\ \A w \in Worker : WF_vars(Handle(w))
    /\ \A j \in Jobs : WF_vars(CleanUp(j)) /\ WF_vars(RunJob(j))

Spec == Init /\ [][Next]_vars /\ Fairness

-----------------------------------------------------------------------------
(* Properties. *)

\* For a user whose requests come one at a time, a login or registration that adds a device
\* never leaves more active devices than maxDevices, whatever the clean-up jobs do meanwhile
\* and whatever was abandoned before. (device.service.ts:87, the limit check.)
NewDeviceWithinLimit ==
    [][\A d \in Device :
        (device[d] = NoRow /\ device'[d] # NoRow /\ device'[d].active /\ user.managed)
            => Cardinality(Active') <= MaxDevices(user')]_vars

\* An active device that nobody used for two months is deactivated, or it is used or removed
\* before, even though requests and the other job save older copies of its row.
\* (device-cleanup.service.ts:47.)
ForgottenIsDeactivated ==
    \A d \in Device :
        (d \in Active /\ device[d].login = 2) ~> ~(d \in Active /\ device[d].login = 2)
=============================================================================
