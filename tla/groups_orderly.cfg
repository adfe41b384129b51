\* Adds to a course one at a time, and not while groups start.
CONSTANTS
  Student = {s1, s2, s3}
  Course = {c, d}
  Worker = {w1, w2}
  Job = {j1}
  maxStudents = 2
  MaxGroups = 3
  MaxAdds = 3
  MaxStarts = 1
  MaxAborts = 1
  Overlap = FALSE
SPECIFICATION FairSpec
INVARIANTS OneFillingGroup SeatsWithinMax JoinSticks RepeatsOnlyAfterAbort ActiveHasLecture
CHECK_DEADLOCK FALSE
PROPERTIES ImplementsGroupContract FullGroupStarts
