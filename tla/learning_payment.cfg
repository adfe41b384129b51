\* A payment that lands while findByDate holds the row it is about to save.
CONSTANTS
  Worker = {w1}
  Runner = {r1}
  LessonsOf <- OneBlock
  NoHomework = {}
  QueueLimit = 2
  QueueCap = 2
  FreeLessons = 2
  DailyLimit = 1
  MaxReviews = 2
  MaxCopies = 2
  MaxAborts = 1
  Overlap = FALSE
SPECIFICATION Spec
PROPERTIES ActivationKept
