\* One handler at a time on a lecture.
CONSTANTS
  MaxLectures = 2
  Topics = 2
  Teacher = {a, b}
  NoTeacher = NoTeacher
  Worker = {w1, w2}
  Overlap = FALSE
  Regenerate = FALSE
  FirstPhase = {"early", "soon", "started", "over"}
  MaxCalls = 2
  MaxAborts = 1
SPECIFICATION FairSpec
INVARIANTS HasTeacher OrderUnique RemindedOnce ClaimKept
PROPERTIES ImplementsLectureContract CompletionContinues EveryLectureAnnounced
CHECK_DEADLOCK FALSE
