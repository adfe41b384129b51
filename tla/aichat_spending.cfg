SPECIFICATION Spec
CONSTANTS
    Student = {s1}
    Worker = {w1, w2}
    MaxLesson = 0
    CacheEnabled = FALSE
    Limit = 4
    Estimate = 2
    MaxRetries = 0
    MaxSessions = 1
    MaxMessages = 3
    Learner = {}
    MaxVisits = 0
    MaxMonths = 1
    MaxPayments = 1
    MaxAborts = 1
INVARIANTS
    SerialisedWithinLimit
CHECK_DEADLOCK FALSE
