\* Every interleaving of the handlers, and an admin who generates lectures again.
CONSTANTS
  MaxLectures = 2
  Topics = 3
  Teacher = {a}
  NoTeacher = NoTeacher
  Worker = {w1, w2}
  Overlap = TRUE
  Regenerate = TRUE
  FirstPhase = {"over"}
  MaxCalls = 2
  MaxAborts = 1
SPECIFICATION Spec
SYMMETRY HandlerSymmetry
INVARIANTS NoTopicSkipped ChainContinues
CHECK_DEADLOCK FALSE
