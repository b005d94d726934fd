\* Two prompts, a scheduled tick and a background batch share the session.
CONSTANTS
  r1 = r1  r2 = r2  q1 = q1  q2 = q2  q3 = q3  t1 = t1  w1 = w1  f1 = f1
  NoReq = NoReq  Retry = Retry  WakeTask = WakeTask
  ReplyReqs = {}
  QueueReqs = {q1, q2}
  TickReqs = {t1}
  WakeReqs = {w1}
  BadBodies = {}
  Foreign = {f1}
  Promotes = TRUE
  Deletes = FALSE
  LiveTurnsExpire = FALSE
  MaxSteer = 1
  MaxFollowUp = 1
  Requests <- MCRequests
SPECIFICATION Spec
CHECK_DEADLOCK FALSE
SYMMETRY QueueSymmetry
INVARIANTS
  LockInv TurnExclusion AdmissionSafe
