--------------------------- MODULE MCSessionTurns ---------------------------
(***************************************************************************)
(* Small instances of SessionTurns for TLC.  Each .cfg picks the requests  *)
(* of one kind of session; the ids are model values.                       *)
(***************************************************************************)
EXTENDS SessionTurns, TLC

CONSTANTS r1, r2, q1, q2, q3, t1, w1, f1

MCRequests == ReplyReqs \cup QueueReqs \cup TickReqs \cup WakeReqs

\* Prompts waiting in the queue are interchangeable.
QueueSymmetry == Permutations(QueueReqs)
=============================================================================
