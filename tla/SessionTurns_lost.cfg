\* A retry in flight is cancelled with the prompt it has popped.
CONSTANTS
  r1 = r1  r2 = r2  q1 = q1  q2 = q2  q3 = q3  t1 = t1  w1 = w1  f1 = f1
  NoReq = NoReq  Retry = Retry  WakeTask = WakeTask
  ReplyReqs = {r1}
  QueueReqs = {q1, q2}
  TickReqs = {}
  WakeReqs = {}
  BadBodies = {}
  Foreign = {}
  Promotes = FALSE
  Deletes = FALSE
  LiveTurnsExpire = FALSE
  MaxSteer = 1
  MaxFollowUp = 2
  Requests <- MCRequests
SPECIFICATION Spec
CHECK_DEADLOCK FALSE
INVARIANT NoLostFollowUp
