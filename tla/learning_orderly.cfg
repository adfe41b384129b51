\* One request of the student and one scheduler run at a time, each may be abandoned.
CONSTANTS
  Worker = {w1}
  Runner = {r1}
  LessonsOf <- TwoBlocks
  NoHomework <- LastLesson
  QueueLimit = 1
  QueueCap = 2
  FreeLessons = 2
  DailyLimit = 1
  MaxReviews = 2
  MaxCopies = 2
  MaxAborts = 1
  Overlap = FALSE
SPECIFICATION FairSpec
INVARIANTS TypeOK UnlockedInOrder BlockStartsOpen OneItemPerHomework HomeworkOnlyOfWatched
PROPERTIES CourseFinishes HomeworkRepeated
