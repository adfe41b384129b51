CONSTANTS
    Block = {b1, b2}
    Lesson = {l1, l2}
    Homework = {h1}
    Grammar = {g1}
    Alphabet = {a1}
    Orders = {1, 2}
    Durations = {1, 3}
    FirstDurations = {1}
    Worker = {w1, w2}
    Overlap = FALSE
    MaxRequests = 2
    MaxAborts = 1
SPECIFICATION Spec
INVARIANTS StatsMatch LessonKeepsBlock OwnVideo
SYMMETRY Symmetry
CHECK_DEADLOCK FALSE
