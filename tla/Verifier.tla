------------------------------ MODULE Verifier ------------------------------
(***************************************************************************)
(* The background verifier of one thread: ProgressTracker latches signals  *)
(* on tool results, JudgeWorker judges them in tasks the turn never waits  *)
(* for, VerdictMailbox takes the verdicts and turns them into a sticky     *)
(* nudge or a one-shot replan, and the turn loop drains, shows and clears  *)
(* them.  A verdict can arrive after the signal went away, after a newer   *)
(* verdict, and after its request ended.                                   *)
(***************************************************************************)
EXTENDS Sublists

CONSTANTS Signals,      \* signals the tracker can latch
          NoEpisode,    \* no record for the thread in a mailbox table
          MaxVerdicts,  \* judge.max_verdicts_per_message
          MinGap,       \* judge.min_turns_between_verdicts
          QueueCap, MaxInFlight,   \* judge.queue_cap, judge.max_in_flight
          MaxRequests, MaxInner, MaxEpoch  \* bounds: requests, provider calls of the first (one in later ones),
                                           \* times a signal comes back in one

Reqs == 1..MaxRequests

\* _Episode.
Episodes == [r : Reqs, signals : SUBSET Signals, epochs : [Signals -> Nat]]

ASSUME VerifierAssumption == MaxRequests \in Nat /\ NoEpisode \notin Episodes

VARIABLES req,      \* the request the loop runs, 0 before the first
          at,    \* "idle", "run", "tail" of the loop
          inner,    \* inner_turn
          emitted,  \* _ThreadTrack.emitted_this_turn
          current,  \* mailbox._current: the request that may deposit, 0 for none
          episode,  \* mailbox._episodes: [r, signals, epochs]
          nudge,   \* mailbox._active: [r, epochs]; its domain is triggering_signals
          replan,   \* mailbox._replans: the verdict whose replan waits
          ready,    \* mailbox._ready of the requests, oldest first
          lastVerdict, \* mailbox._last
          pend,     \* mailbox._pending per request
          armed,    \* mailbox._replan_armed
          draining, \* verdicts _drain_verdicts took and has still to commit
          jobs,     \* JudgeWorker._jobs
          charged,  \* _verdicts_this_request
          lastTurn, \* _last_turn, 0 when unset
          landed,   \* history: jobs that deposited, per request
          replans   \* history: verdicts whose replan the loop took, in order

vfVars == <<req, at, inner, emitted, current, episode, nudge, replan, ready, lastVerdict, pend,
            armed, draining, jobs, charged, lastTurn, landed, replans>>


\* A verdict or job is named by its checkpoint, request_id:inner_turn.
VfTypeOK ==
    /\ req \in 0..MaxRequests /\ at \in {"idle", "run", "tail"} /\ inner \in 0..MaxInner
    /\ emitted \in BOOLEAN /\ current \in 0..MaxRequests
    /\ pend \in [Reqs -> Nat] /\ charged \in [Reqs -> 0..MaxVerdicts]
    /\ lastTurn \in [Reqs -> 0..MaxInner] /\ landed \in [Reqs -> Nat]
    /\ \A j \in jobs : j.st \in {"wait", "run", "cancelled"} /\ j.r \in Reqs
    /\ Cardinality({j \in jobs : j.st = "run"}) <= MaxInFlight

VfInit ==
    /\ req = 0 /\ at = "idle" /\ inner = 0 /\ emitted = FALSE /\ current = 0
    /\ episode = NoEpisode /\ nudge = NoEpisode /\ replan = NoEpisode /\ lastVerdict = NoEpisode
    /\ ready = <<>> /\ pend = [r \in Reqs |-> 0] /\ armed = {} /\ draining = <<>> /\ jobs = {}
    /\ charged = [r \in Reqs |-> 0] /\ lastTurn = [r \in Reqs |-> 0]
    /\ landed = [r \in Reqs |-> 0] /\ replans = <<>>

-----------------------------------------------------------------------------
(* The mailbox.                                                            *)

Of(record, r) == record # NoEpisode /\ record.r = r

\* set_current_signals: a signal that comes back starts a new epoch, and the
\* nudge keeps only what is still live in the epoch it was armed for.
NewEpisode(r, sigs) ==
    LET old == IF Of(episode, r) THEN episode
               ELSE [r |-> r, signals |-> {}, epochs |-> [s \in Signals |-> 0]]
    IN  [r |-> r, signals |-> sigs,
         epochs |-> [s \in Signals |-> old.epochs[s] + IF s \in sigs \ old.signals THEN 1 ELSE 0]]

Restricted(f, S) == [s \in S |-> f[s]]

Pruned(r, ep) ==
    IF ~Of(nudge, r) THEN nudge
    ELSE LET kept == {s \in DOMAIN nudge.epochs \intersect ep.signals : nudge.epochs[s] = ep.epochs[s]}
         IN  IF kept = {} THEN NoEpisode ELSE [r |-> r, epochs |-> Restricted(ep.epochs, kept), judged |-> Restricted(nudge.judged, kept)]

\* Mutant: a verdict is matched by signal name, not by epoch.
FencedByName(ep, v) == {s \in DOMAIN v.epochs \intersect ep.signals : TRUE}

\* _fence_signals.
Fenced(ep, v) == {s \in DOMAIN v.epochs \intersect ep.signals : v.epochs[s] = ep.epochs[s]}

\* activate_nudge: overlapping verdicts join their signals.  judged is history:
\* the epoch each verdict was judged in.
ActivateNudge(v) ==
    LET incoming == Fenced(episode, v)
        before   == IF Of(nudge, v.r) THEN DOMAIN nudge.epochs ELSE {}
    IN  IF current # v.r \/ incoming = {} \/ incoming \subseteq before THEN nudge
        ELSE [r |-> v.r,
              epochs |-> [s \in before \union incoming |->
                             IF s \in incoming THEN episode.epochs[s] ELSE nudge.epochs[s]],
              judged |-> [s \in before \union incoming |->
                             IF s \in incoming THEN v.epochs[s] ELSE nudge.judged[s]]]

\* Mutant: a verdict that was armed once may be armed again.
ArmEscalationAgain(v, newest) ==
    LET outranked == /\ newest # NoEpisode /\ newest.r = v.r /\ newest.turn > v.turn
                     /\ newest.sev = "replan"
    IN  \/ /\ v.sev = "nudge"
           /\ nudge' = ActivateNudge(v) /\ UNCHANGED <<replan, armed>>
       \/ /\ v.sev = "replan" /\ ~outranked /\ current = v.r
          /\ replan' = v /\ armed' = armed \union {v.id} /\ UNCHANGED nudge
       \/ /\ v.sev = "none" \/ (v.sev = "replan" /\ (outranked \/ current # v.r))
          /\ UNCHANGED <<nudge, replan, armed>>

\* arm_escalation, called with the latest verdict newest.
ArmEscalation(v, newest) ==
    LET outranked == /\ newest # NoEpisode /\ newest.r = v.r /\ newest.turn > v.turn
                     /\ newest.sev = "replan"
    IN  \/ /\ v.sev = "nudge"
           /\ nudge' = ActivateNudge(v) /\ UNCHANGED <<replan, armed>>
       \/ /\ v.sev = "replan" /\ ~outranked /\ v.id \notin armed /\ current = v.r
          /\ replan' = v /\ armed' = armed \union {v.id} /\ UNCHANGED nudge
       \/ /\ v.sev = "none" \/ (v.sev = "replan" /\ (outranked \/ v.id \in armed \/ current # v.r))
          /\ UNCHANGED <<nudge, replan, armed>>

\* put: only the open request, only a verdict that is not older than the last.
Accepted(v) == current = v.r /\ (Of(lastVerdict, v.r) => v.turn >= lastVerdict.turn)

Put(v) ==
    IF Accepted(v)
    THEN /\ ready' = Append(ready, v) /\ lastVerdict' = v /\ ArmEscalation(v, v)
    ELSE UNCHANGED <<ready, lastVerdict, nudge, replan, armed>>

-----------------------------------------------------------------------------
(* The tracker, called by the hooks of the turn that runs.                 *)

Enqueueable(r, t) ==
    /\ charged[r] < MaxVerdicts
    /\ lastTurn[r] > 0 => t - lastTurn[r] >= MinGap
    /\ Cardinality({j \in jobs : j.queued}) < QueueCap

\* enqueue: charge the budget, mark pending, cancel the older jobs.
Enqueue(sigs, ep) ==
    LET job == [r |-> req, turn |-> inner, st |-> "wait", queued |-> TRUE, prev |-> lastTurn[req],
                epochs |-> Restricted(ep.epochs, sigs \intersect ep.signals)]
    IN  /\ charged' = [charged EXCEPT ![req] = @ + 1]
        /\ lastTurn' = [lastTurn EXCEPT ![req] = inner]
        /\ pend' = [pend EXCEPT ![req] = @ + IF current = req THEN 1 ELSE 0]
        /\ jobs' = {IF j.r = req /\ j.turn < inner THEN [j EXCEPT !.st = "cancelled"] ELSE j : j \in jobs}
                       \union {job}

\* _observe_tool / _observe_turn_end: the latches change, they are published,
\* and at most one bundle per provider call goes to the judge; a bundle over a
\* limit, or over the spend ratio, is dropped.
ObserveTool ==
    /\ at = "run" /\ inner > 0
    /\ \E latched \in SUBSET Signals, fired \in SUBSET Signals :
          LET ep == NewEpisode(req, latched)
              emit == fired # {} /\ ~emitted
          IN  /\ fired \subseteq latched /\ \A s \in Signals : ep.epochs[s] <= MaxEpoch
              /\ IF current = req THEN episode' = ep /\ nudge' = Pruned(req, ep)
                 ELSE UNCHANGED <<episode, nudge>>
              /\ emitted' = (emitted \/ emit)
              /\ \/ emit /\ Enqueueable(req, inner) /\ Enqueue(fired, ep)
                 \/ UNCHANGED <<charged, lastTurn, pend, jobs>>
    /\ UNCHANGED <<req, at, inner, current, replan, ready, lastVerdict, armed, draining, landed, replans>>

-----------------------------------------------------------------------------
(* The judge worker.                                                       *)

\* Mutant: the charge is given back only to the newest job.
RefundUnmarked(j) ==
    /\ charged' = [charged EXCEPT ![j.r] = IF lastTurn[j.r] = j.turn THEN @ - 1 ELSE @]
    /\ lastTurn' = [lastTurn EXCEPT ![j.r] = IF @ = j.turn THEN j.prev ELSE @]

Refund(j) ==
    /\ charged' = [charged EXCEPT ![j.r] = @ - 1]
    /\ lastTurn' = [lastTurn EXCEPT ![j.r] = IF @ = j.turn THEN j.prev ELSE @]

\* Mutant: a finished call leaves its mark.
ReleasePendingNever(j) == UNCHANGED pend

ReleasePending(j) == pend' = [pend EXCEPT ![j.r] = IF @ > 0 THEN @ - 1 ELSE 0]

\* Mutant: the semaphore is not taken.
JudgeStartsAtOnce(j) ==
    /\ j \in jobs /\ j.st = "wait"
    /\ jobs' = (jobs \ {j}) \union {[j EXCEPT !.st = "run", !.queued = FALSE]}
    /\ UNCHANGED <<req, at, inner, emitted, current, episode, nudge, replan, ready, lastVerdict, pend,
                   armed, draining, charged, lastTurn, landed, replans>>

\* The scope lock and the semaphore.
JudgeStarts(j) ==
    /\ j \in jobs /\ j.st = "wait"
    /\ ~ \E o \in jobs : o # j /\ o.r = j.r /\ ~o.queued
    /\ Cardinality({o \in jobs : ~o.queued}) < MaxInFlight
    /\ jobs' = (jobs \ {j}) \union {[j EXCEPT !.st = "run", !.queued = FALSE]}
    /\ UNCHANGED <<req, at, inner, emitted, current, episode, nudge, replan, ready, lastVerdict, pend,
                   armed, draining, charged, lastTurn, landed, replans>>

\* _verify_and_deposit: put and arm_escalation happen in one step.
JudgeReturns(j) ==
    /\ j \in jobs /\ j.st = "run" /\ jobs' = jobs \ {j} /\ ReleasePending(j)
    /\ \/ /\ \E sev \in {"none", "nudge", "replan"} :
                Put([id |-> <<j.r, j.turn>>, r |-> j.r, turn |-> j.turn, sev |-> sev, epochs |-> j.epochs])
          /\ landed' = [landed EXCEPT ![j.r] = @ + 1]
          /\ UNCHANGED <<charged, lastTurn>>
       \/ /\ Refund(j) /\ UNCHANGED <<ready, lastVerdict, nudge, replan, armed, landed>>
    /\ UNCHANGED <<req, at, inner, emitted, current, episode, draining, replans>>

\* A cancelled task, or one that bails out before it starts.
JudgeGivesUp(j) ==
    /\ j \in jobs /\ j.st \in {"wait", "cancelled"} /\ jobs' = jobs \ {j}
    /\ Refund(j) /\ ReleasePending(j)
    /\ UNCHANGED <<req, at, inner, emitted, current, episode, nudge, replan, ready, lastVerdict,
                   armed, draining, landed, replans>>

-----------------------------------------------------------------------------
(* The turn loop.                                                          *)

\* Mutant: the mailbox keeps the request that was open.
OpenRequestQuietly ==
    /\ at = "idle" /\ req < MaxRequests
    /\ req' = req + 1 /\ current' = (IF current = 0 THEN req + 1 ELSE current) /\ at' = "run" /\ inner' = 0
    /\ UNCHANGED <<emitted, episode, nudge, replan, ready, lastVerdict, pend, armed, draining, jobs,
                   charged, lastTurn, landed, replans>>

OpenRequest ==
    /\ at = "idle" /\ req < MaxRequests
    /\ req' = req + 1 /\ current' = req + 1 /\ at' = "run" /\ inner' = 0
    /\ UNCHANGED <<emitted, episode, nudge, replan, ready, lastVerdict, pend, armed, draining, jobs,
                   charged, lastTurn, landed, replans>>

\* The verdicts of request r in the mailbox.
ReadyOf(r) == {i \in DOMAIN ready : ready[i].r = r}

\* take_ready, then one commit after the other with a history write between.
Drain ==
    /\ at \in {"run", "tail"} /\ draining = <<>>
    /\ ReadyOf(req) # {}
    /\ draining' = Sublist(ready, ReadyOf(req))
    /\ ready' = Sublist(ready, DOMAIN ready \ ReadyOf(req))
    /\ UNCHANGED <<req, at, inner, emitted, current, episode, nudge, replan, lastVerdict, pend, armed,
                   jobs, charged, lastTurn, landed, replans>>

DrainOne ==
    /\ draining # <<>> /\ draining' = Tail(draining)
    /\ ArmEscalation(Head(draining), lastVerdict)
    /\ UNCHANGED <<req, at, inner, emitted, current, episode, ready, lastVerdict, pend, jobs,
                   charged, lastTurn, landed, replans>>

\* The next provider call: _arm_replan_from_mailbox takes the note of its own
\* request and throws any other away.
ProviderCall ==
    /\ at = "run" /\ inner < (IF req = 1 THEN MaxInner ELSE 1) /\ draining = <<>>
    /\ inner' = inner + 1 /\ emitted' = FALSE /\ replan' = NoEpisode
    /\ replans' = IF Of(replan, req) THEN Append(replans, replan.id) ELSE replans
    /\ UNCHANGED <<req, at, current, episode, nudge, ready, lastVerdict, pend, armed, draining, jobs,
                   charged, lastTurn, landed>>

TurnEnds ==
    /\ at = "run" /\ draining = <<>> /\ at' = "tail"
    /\ UNCHANGED <<req, inner, emitted, current, episode, nudge, replan, ready, lastVerdict, pend, armed,
                   draining, jobs, charged, lastTurn, landed, replans>>

\* clear_request after the last drain ...
Without(record, r) == IF Of(record, r) THEN NoEpisode ELSE record

ClearRequest ==
    /\ at = "tail" /\ draining = <<>> /\ at' = "idle"
    /\ ready' = Sublist(ready, DOMAIN ready \ ReadyOf(req))
    /\ pend' = [pend EXCEPT ![req] = 0]
    /\ lastVerdict' = Without(lastVerdict, req) /\ nudge' = Without(nudge, req)
    /\ episode' = Without(episode, req) /\ replan' = Without(replan, req)
    /\ current' = IF current = req THEN 0 ELSE current
    /\ UNCHANGED <<req, inner, emitted, armed, draining, jobs, charged, lastTurn, landed, replans>>

\* ... which a second cancellation of the tail skips.
TailCancelled ==
    /\ at = "tail" /\ at' = "idle" /\ draining' = <<>>
    /\ UNCHANGED <<req, inner, emitted, current, episode, nudge, replan, ready, lastVerdict, pend, armed,
                   jobs, charged, lastTurn, landed, replans>>

-----------------------------------------------------------------------------
Judge(j) == JudgeStarts(j) \/ JudgeReturns(j) \/ JudgeGivesUp(j)

VfNext ==
    \/ ObserveTool \/ OpenRequest \/ Drain \/ DrainOne \/ ProviderCall \/ TurnEnds
    \/ ClearRequest \/ TailCancelled
    \/ \E j \in jobs : Judge(j)

VfSpec == VfInit /\ [][VfNext]_vfVars

-----------------------------------------------------------------------------
\* The nudge every provider call of the open request shows rests on signals
\* that are latched now, in the epoch the verdict was judged in: a late verdict
\* never corrects an agent that has recovered.
NudgeIsLive ==
    (at = "run" /\ Of(nudge, req)) =>
        /\ Of(episode, req) /\ DOMAIN nudge.epochs # {}
        /\ \A s \in DOMAIN nudge.epochs :
              s \in episode.signals /\ nudge.judged[s] = episode.epochs[s]

\* The verdict budget of a request is what landed plus what is under way, so a
\* failed, cancelled or superseded call costs nothing and none is refunded twice.
BudgetExact ==
    \A r \in Reqs : charged[r] = landed[r] + Cardinality({j \in jobs : j.r = r})

\* The tail waits exactly for the open request's calls.
PendingExact ==
    at # "idle" => pend[req] = Cardinality({j \in jobs : j.r = req})

\* Deposit and drain both arm a verdict's replan; the loop obeys it once.
ReplanOnce == \A i, k \in DOMAIN replans : replans[i] = replans[k] => i = k

\* What a request leaves behind never reaches a later one, not even when its
\* tail was cut off.
RequestsApart ==
    /\ at # "idle" => current = req
    /\ \A i \in DOMAIN draining : draining[i].r = req
    /\ \A i \in DOMAIN replans : replans[i][1] <= req
    /\ at = "run" => (Of(lastVerdict, req) => lastVerdict.turn <= inner)

\* Verdicts act on the request and the suspicion they were made for, once,
\* and the worker's books agree with its jobs.
VerdictsSafe == NudgeIsLive /\ BudgetExact /\ PendingExact /\ ReplanOnce /\ RequestsApart
=============================================================================
