--------------------------- MODULE InputAdmission ---------------------------
(***************************************************************************)
(* The per-session steer and follow-up queues of                           *)
(* core/runtime/input_admission.py, as operators on one record             *)
(*                                                                         *)
(*   steer     mid-turn injections, oldest first                           *)
(*   followUp  prompts waiting for an idle session, oldest first           *)
(*   draining  ids popped by a drain and not yet committed or requeued     *)
(*   dropped   ids DELETEd while they were draining                        *)
(*                                                                         *)
(* Message content is abstracted away: a follow-up is its request id, its  *)
(* provenance and whether a drain already failed to get the turn lock      *)
(* (first_lock_fail_at_ms is set); a steer is the id of the follow-up it   *)
(* was promoted from, or NoReq.  Every method is synchronous code on one   *)
(* event loop, so each operator is one atomic step of its caller.          *)
(***************************************************************************)
EXTENDS Sublists

CONSTANTS Requests,     \* request ids
          NoReq,        \* None
          MaxSteer,     \* MONKEYBOT_STEER_QUEUE_MAX
          MaxFollowUp   \* MONKEYBOT_FOLLOW_UP_QUEUE_MAX

ASSUME NoReqAssumption == NoReq \notin Requests

ASSUME QueueLimitAssumption ==
    /\ MaxSteer \in Nat \ {0}
    /\ MaxFollowUp \in Nat \ {0}

Provenance == {"human", "harness"}

FollowUpItem == [rid : Requests, prov : Provenance, failed : BOOLEAN]

SteerItem == [queued : Requests \cup {NoReq}]

Admission == [steer    : Seq(SteerItem),
              followUp : Seq(FollowUpItem),
              draining : SUBSET Requests,
              dropped  : SUBSET Requests]

EmptyAdmission ==
    [steer |-> <<>>, followUp |-> <<>>, draining |-> {}, dropped |-> {}]

NewFollowUp(r, prov) == [rid |-> r, prov |-> prov, failed |-> FALSE]

SteerFull(adm) == Len(adm.steer) >= MaxSteer

FollowUpFull(adm) == Len(adm.followUp) >= MaxFollowUp

QueuedIds(adm) == {adm.followUp[i].rid : i \in DOMAIN adm.followUp}

PromotedIds(adm) == {adm.steer[i].queued : i \in DOMAIN adm.steer} \ {NoReq}

-----------------------------------------------------------------------------
EnqueueSteer(adm, item) == [adm EXCEPT !.steer = Append(@, item)]

EnqueueFollowUp(adm, item) == [adm EXCEPT !.followUp = Append(@, item)]

\* _follow_up_index: where the oldest follow-up with this id stands.
FollowUpIndex(adm, r) ==
    CHOOSE i \in DOMAIN adm.followUp :
        /\ adm.followUp[i].rid = r
        /\ \A j \in 1..(i - 1) : adm.followUp[j].rid # r

\* Delete that follow-up; the others keep their order.
WithoutFollowUp(adm, r) ==
    LET i == FollowUpIndex(adm, r)
    IN  [adm EXCEPT !.followUp = SubSeq(@, 1, i - 1)
                                   \o SubSeq(@, i + 1, Len(@))]

\* Mutant: promoting leaves the prompt in the queue as well.
PromoteKeepsFollowUp(adm, r) == EnqueueSteer(adm, [queued |-> r])

PromoteFollowUp(adm, r) ==
    EnqueueSteer(WithoutFollowUp(adm, r), [queued |-> r])

DropFollowUp(adm, r) ==
    IF r \in QueuedIds(adm) THEN WithoutFollowUp(adm, r)
                            ELSE [adm EXCEPT !.dropped = @ \cup {r}]

PopSteer(adm) == [adm EXCEPT !.steer = Tail(@)]

\* Mutant: the popped id is not remembered.
PopFollowUpUntracked(adm) == [adm EXCEPT !.followUp = Tail(@)]

PopFollowUp(adm) ==
    [adm EXCEPT !.followUp = Tail(@),
                !.draining = @ \cup {Head(adm.followUp).rid}]

\* Commit a drain: forget the id, and with it the mark a DELETE left on it.
FinishFollowUpDrain(adm, r) ==
    [adm EXCEPT !.draining = @ \ {r}, !.dropped = @ \ {r}]

\* Mutant: requeueing overlooks the DELETE that came meanwhile.
RequeueDeleted(adm, item) ==
    [FinishFollowUpDrain(adm, item.rid) EXCEPT !.followUp = <<item>> \o @]

\* Put a popped item back at the front, unless a DELETE won meanwhile.
RequeueFollowUpFront(adm, item) ==
    LET cleared == FinishFollowUpDrain(adm, item.rid)
    IN  IF item.rid \in adm.dropped
        THEN cleared
        ELSE [cleared EXCEPT !.followUp = <<item>> \o @]

\* Mutant: plain steers are taken for promoted ones.
RestoreEverySteer(adm) ==
    [adm EXCEPT
       !.steer    = <<>>,
       !.followUp = [i \in 1..Len(adm.steer) |->
                       NewFollowUp(adm.steer[i].queued, "human")] \o @]

\* Promoted steers go back to the front of the FIFO, in order, rebuilt as
\* fresh human follow-ups; plain steers stay.  Capacity is not enforced.
RestorePromotedSteers(adm) ==
    LET promoted == {i \in DOMAIN adm.steer : adm.steer[i].queued # NoReq}
        back     == Sublist(adm.steer, promoted)
    IN  [adm EXCEPT
           !.steer    = Sublist(@, DOMAIN @ \ promoted),
           !.followUp = [i \in DOMAIN back |->
                           NewFollowUp(back[i].queued, "human")] \o @]

ClearSteer(adm) == [RestorePromotedSteers(adm) EXCEPT !.steer = <<>>]
=============================================================================
