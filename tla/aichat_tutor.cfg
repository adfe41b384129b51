SPECIFICATION Spec
CONSTANTS
    Student = {s1, s2}
    Worker = {w1}
    MaxLesson = 2
    CacheEnabled = TRUE
    Limit = 0
    Estimate = 0
    MaxRetries = 1
    MaxSessions = 2
    MaxMessages = 2
    Learner = {s1}
    MaxVisits = 2
    MaxMonths = 0
    MaxPayments = 0
    MaxAborts = 0

    
PROPERTIES
    QuestionAnswered
CHECK_DEADLOCK FALSE
