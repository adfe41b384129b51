SPECIFICATION Spec
CONSTANTS
    Device = {d1, d2}
    Limits = {0, 2}
    RoleLimit = 1
    Worker = {w1}
    MaxRequests = 4
    MaxMonths = 2
    MaxAborts = 1
PROPERTIES
    NewDeviceWithinLimit
    ForgottenIsDeactivated
CHECK_DEADLOCK FALSE
