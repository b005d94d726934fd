-------------------------- MODULE FollowUpLifecycle --------------------------
(***************************************************************************)
(* What a client may rely on for the id it sent: the outcomes of a request *)
(* and their order, with none of the queues, tasks and locks that produce  *)
(* them.  docs/features.md promises it for POST /reply, POST /queue, the   *)
(* promotion of a queued prompt and its DELETE.                            *)
(***************************************************************************)
CONSTANT Requests
VARIABLE fate

Init == fate = [r \in Requests |-> "new"]

Becomes(r, f) == fate' = [fate EXCEPT ![r] = f]

\* A background batch finished; its wake is not sent yet.
Ready(r) == fate[r] = "new" /\ Becomes(r, "ready")

Refuse(r) == fate[r] = "new" /\ Becomes(r, "refused")

Accept(r) ==
    fate[r] \in {"new", "ready"} /\ \E f \in {"accepted", "cleared"} : Becomes(r, f)

\* A prompt is settled once, and only after it was accepted: what was
\* deleted never starts, and what started never starts again.
Settle(r) ==
    /\ fate[r] = "accepted"
    /\ \E f \in {"started", "injected", "deleted", "expired", "skipped"} :
          Becomes(r, f)

\* The session goes away with everything it still had accepted.
Clear ==
    fate' = [r \in Requests |->
               IF fate[r] = "accepted" THEN "cleared" ELSE fate[r]]

Next == Clear \/ \E r \in Requests :
                   Ready(r) \/ Refuse(r) \/ Accept(r) \/ Settle(r)

Spec == Init /\ [][Next]_fate
=============================================================================
