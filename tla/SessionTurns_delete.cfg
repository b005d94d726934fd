\* A reply that may fail to parse, a prompt and a batch; DELETE at any moment.
CONSTANTS
  r1 = r1  r2 = r2  q1 = q1  q2 = q2  q3 = q3  t1 = t1  w1 = w1  f1 = f1
  NoReq = NoReq  Retry = Retry  WakeTask = WakeTask
  ReplyReqs = {r1}
  QueueReqs = {q1}
  TickReqs = {}
  WakeReqs = {w1}
  BadBodies = {r1}
  Foreign = {f1}
  Promotes = TRUE
  Deletes = TRUE
  LiveTurnsExpire = FALSE
  MaxSteer = 1
  MaxFollowUp = 2
  Requests <- MCRequests
SPECIFICATION FairSpec
CHECK_DEADLOCK FALSE
INVARIANTS
  SpillQuiet
PROPERTIES
  LifecycleSpec AcceptedSettles
