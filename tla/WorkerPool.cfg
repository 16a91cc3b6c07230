CONSTANTS
  Threads = {t1, t2, t3}
  MaxJobs = 2
SPECIFICATION FairPool
INVARIANTS
  SlotsAddUp
PROPERTIES
  JobsAreTaken
  Rests
CHECK_DEADLOCK FALSE
