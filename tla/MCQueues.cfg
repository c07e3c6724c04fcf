\* Two producers, the stopping handler and a queue of one; three jobs with one slot and one retry;
\* two servers with one worker each, two jobs and one loss;
\* replies of five symbols, of which three are held back.
SPECIFICATION MCSpec
CONSTANTS
  p1 = p1
  p2 = p2
  Producers = {p1, p2}
  Capacity = 1
  MaxFrames = 3
  j1 = j1
  j2 = j2
  j3 = j3
  Jobs = {j1, j2, j3}
  MaxWorkers = 1
  MaxRetries = 1
  Servers = {"a", "b"}
  RedisJobs = {"x", "y"}
  Slots = {1}
  MaxLosses = 1
  MaxSymbols = 5
  HeldBack = 3
INVARIANTS
  RoomIsHandedOn
  StreamsAgree
  RedisJobsHold
PROPERTIES
  FramesArrive
  JobsHold
  RedisJobsSettle
CHECK_DEADLOCK FALSE
