SPECIFICATION Spec
CONSTANTS
    Student = {s1, s2}
    Group = {g1}
    FirstDays = {0, 5}
    Late = {2}
    MaxLectures = 2
    MaxUpdates = 1
    MaxLinks = 3
    MaxFaults = 1
INVARIANTS
    StudentsCanReturn
    SavedLinkWorks
PROPERTIES
    TrackedStudentLeaves
    FollowsTheCalendar
CHECK_DEADLOCK FALSE
