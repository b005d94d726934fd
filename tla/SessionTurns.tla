---------------------------- MODULE SessionTurns ----------------------------
(***************************************************************************)
(* Who may run a turn of one chat session, and what becomes of the         *)
(* follow-up prompts queued meanwhile: gateway/sse/routes.py (reply,       *)
(* steer, queue, promote, drop, cancel, _schedule_turn, _drain_follow_up,  *)
(* _schedule_follow_up_retry), gateway/sse/session_bus.py (one SessionBus  *)
(* and its removal), gateway/sse/scheduler_wiring.py (a scheduled tick),   *)
(* the on_wake callback of gateway/sse/app.py, and the durable turn lock   *)
(* of core/persistence/session_turn_locks.py.                              *)
(*                                                                         *)
(* The gateway is one asyncio event loop: code between two awaits is       *)
(* atomic, and every await on the lock store is two steps, the statement   *)
(* taking effect in the database and the coroutine resuming.  The          *)
(* processes are                                                           *)
(*                                                                         *)
(*   a request id  the HTTP handler that received it, then its turn task   *)
(*                 (for a tick, the scheduler's invoke_tick)               *)
(*   Retry         bus.follow_up_retry_task                                *)
(*   WakeTask      the supervisor's debounced wake task                    *)
(*   Foreign       holders of the same lock that are not on this bus: the  *)
(*                 other replicas, history rewrites, reverts               *)
(*                                                                         *)
(* One session id is followed from creation to DELETE.  Request ids are    *)
(* used once, and the lock store's calls do not fail.                      *)
(***************************************************************************)
EXTENDS InputAdmission, FiniteSets

CONSTANTS ReplyReqs,        \* ids sent to POST /reply
          QueueReqs,        \* ids sent to POST /queue
          TickReqs,         \* ids of scheduled ticks run on this replica
          WakeReqs,         \* ids of harness wakes, one per finished batch
          BadBodies,        \* replies whose content may fail to parse
          Foreign,          \* lock holders outside this bus
          Retry, WakeTask,  \* the two per-bus helper tasks
          Promotes,         \* whether clients promote and steer
          Deletes,          \* whether the session is DELETEd
          LiveTurnsExpire   \* may a running turn outlast the stale window?

ASSUME RequestAssumption ==
    /\ Requests = ReplyReqs \cup QueueReqs \cup TickReqs \cup WakeReqs
    /\ BadBodies \subseteq ReplyReqs
    /\ ReplyReqs \cap (QueueReqs \cup TickReqs \cup WakeReqs) = {}
    /\ QueueReqs \cap (TickReqs \cup WakeReqs) = {}
    /\ TickReqs \cap WakeReqs = {}

ASSUME ProcessAssumption ==
    /\ Requests \cap Foreign = {}
    /\ Retry # WakeTask
    /\ {Retry, WakeTask} \cap (Requests \cup Foreign) = {}
    /\ NoReq \notin Foreign \cup {Retry, WakeTask}

ASSUME SwitchAssumption ==
    Promotes \in BOOLEAN /\ Deletes \in BOOLEAN /\ LiveTurnsExpire \in BOOLEAN

VARIABLES
    registered,  \* the bus is in SessionRegistry._sessions
    lock,        \* session_turn_locks.request_id: {} or a singleton
    stale,       \* the claim is older than the stale window
    current,     \* bus.current_request_id
    active,      \* bus.active_turn_task
    adm,         \* bus.admission
    pc,          \* where each process stands
    item,        \* the follow-up a draining process popped
    waking,      \* turn tasks inside wake_if_idle's nested drain
    awaited,     \* wake batches whose runs a turn has awaited
    fate,        \* history: what became of each request
    ranAs,       \* history: the provenance its turn was started with
    teardown,    \* progress of remove_async
    victim       \* the turn task quiesce_active_turn waits for

busVars    == <<registered, current, active, adm>>
lockVars   == <<lock, stale>>
histVars   == <<fate, ranAs>>
deleteVars == <<registered, teardown, victim>>
vars == <<registered, lock, stale, current, active, adm, pc, item, waking,
          awaited, fate, ranAs, teardown, victim>>

Procs == Requests \cup Foreign \cup {Retry, WakeTask}

NoItem == [rid |-> NoReq, prov |-> "human", failed |-> FALSE]

Fates == {"new", "ready", "refused", "accepted", "started", "injected",
          "deleted", "expired", "skipped", "cleared"}

Places == {"idle", "sleep", "acq", "got", "denied", "queued", "sched", "turn",
           "rel", "relDone", "drainAcq", "drainGot", "drainDenied",
           "drainDrop", "drainDropDone", "done"}

\* One type invariant: the queues, the lock, the tasks and the history.
TypeOK ==
    /\ registered \in BOOLEAN /\ stale \in BOOLEAN
    /\ lock \in {{}} \cup {{x} : x \in Requests \cup Foreign}
    /\ current \in Requests \cup {NoReq}
    /\ active \in Requests \cup {NoReq}
    /\ adm \in Admission
    /\ pc \in [Procs -> Places]
    /\ item \in [Procs -> FollowUpItem \cup {NoItem}]
    /\ waking \subseteq Requests
    /\ awaited \subseteq WakeReqs
    /\ fate \in [Requests -> Fates]
    /\ ranAs \in [Requests -> Provenance \cup {"none"}]
    /\ teardown \in {"none", "detached", "quiesce", "cleaned"}
    /\ victim \in Requests \cup {NoReq}

Init ==
    /\ registered = TRUE
    /\ lock = {} /\ stale = FALSE
    /\ current = NoReq /\ active = NoReq
    /\ adm = EmptyAdmission
    /\ pc = [p \in Procs |-> "idle"]
    /\ item = [p \in Procs |-> NoItem]
    /\ waking = {} /\ awaited = {}
    /\ fate = [r \in Requests |-> "new"]
    /\ ranAs = [r \in Requests |-> "none"]
    /\ teardown = "none" /\ victim = NoReq
-----------------------------------------------------------------------------
(* The durable lock.                                                       *)

\* Mutant: try_acquire without its "request_id IS NULL" condition.
LockFreeAlways == TRUE

\* try_acquire: stale claims are released first, then the free row is taken.
LockFree == lock = {} \/ stale

TryAcquire(r, p, yes, no) ==
    /\ IF LockFree THEN lock' = {r} /\ stale' = FALSE
                   ELSE UNCHANGED lockVars
    /\ pc' = [pc EXCEPT ![p] = IF LockFree THEN yes ELSE no]

\* release: only the request that holds the row clears it.
Release(r) ==
    /\ lock' = lock \ {r}
    /\ stale' = (stale /\ r \notin lock)

\* The id under which process p holds the lock, and whether p does.
Token(p) == IF pc[p] \in {"drainGot", "drainDrop"} THEN item[p].rid ELSE p

Holding(p) == pc[p] \in {"got", "sched", "turn", "rel",
                         "drainGot", "drainDrop"}

\* claimed_at_ms falls behind the stale window.  It is set once, when the
\* lock is taken; unless LiveTurnsExpire, only abandoned claims grow old.
Expire ==
    /\ lock # {} /\ ~stale
    /\ LiveTurnsExpire \/ \A p \in Procs : ~(Holding(p) /\ Token(p) \in lock)
    /\ stale' = TRUE
    /\ UNCHANGED <<busVars, lock, pc, item, waking, awaited, histVars,
                   teardown, victim>>

-----------------------------------------------------------------------------
(* _schedule_follow_up_retry and cancel_follow_up_retry, on (pc, item).    *)

\* Mutant: nobody schedules a retry.
ScheduleNothing(pcs, p) == pcs

\* One retry task per bus; the retry task itself may replace itself.
ScheduleRetry(pcs, p) ==
    IF pc[Retry] = "idle" \/ p = Retry THEN [pcs EXCEPT ![Retry] = "sleep"]
                                       ELSE pcs

CancelRetry(pcs) == [pcs EXCEPT ![Retry] = "idle"]

ForgetItem(items, p) == [items EXCEPT ![p] = NoItem]

-----------------------------------------------------------------------------
(* _drain_follow_up.  It runs at the end of a turn task, in the retry      *)
(* task, in the wake task, and nested in wake_if_idle at a turn's end.     *)

\* Where a process goes when its drain has returned.
Ended(p) == IF p \in {Retry, WakeTask} THEN "idle" ELSE "done"

PopInto(p, a, pcs, items) ==
    /\ adm' = PopFollowUp(a)
    /\ item' = [items EXCEPT ![p] = Head(a.followUp)]
    /\ pc' = [pcs EXCEPT ![p] = "drainAcq"]

\* The call returns: a nested drain goes on with restore_promoted_steers and
\* the turn end's own drain, everyone else is finished.
ReturnFromDrain(p, a, cur, pcs, items) ==
    LET nested == p \in waking
        b == IF nested THEN RestorePromotedSteers(a) ELSE a
    IN  /\ waking' = waking \ {p}
        /\ IF nested /\ cur = NoReq /\ b.followUp # <<>>
           THEN PopInto(p, b, pcs, items)
           ELSE adm' = b /\ pc' = pcs /\ item' = ForgetItem(items, p)

\* The call begins: only an idle session drains, oldest prompt first.
EnterDrain(p, a, cur) ==
    IF cur = NoReq /\ a.followUp # <<>>
    THEN PopInto(p, a, pc, item) /\ UNCHANGED waking
    ELSE ReturnFromDrain(p, a, cur, [pc EXCEPT ![p] = Ended(p)], item)

DrainAcquire(p) ==
    /\ pc[p] = "drainAcq"
    /\ TryAcquire(item[p].rid, p, "drainGot", "drainDenied")
    /\ UNCHANGED <<busVars, item, waking, awaited, histVars, teardown, victim>>

\* Mutant: the lock taken for a deleted prompt is not handed back.
DrainDroppedKeepsLock(p) ==
    /\ pc[p] = "drainGot"
    /\ item[p].rid \in adm.dropped
    /\ EnterDrain(p, FinishFollowUpDrain(adm, item[p].rid), current)
    /\ UNCHANGED <<lockVars, current, active, awaited, histVars, deleteVars>>

\* The lock is ours, but a DELETE won the race: hand the lock back.
DrainDropped(p) ==
    /\ pc[p] = "drainGot"
    /\ item[p].rid \in adm.dropped
    /\ adm' = FinishFollowUpDrain(adm, item[p].rid)
    /\ pc' = [pc EXCEPT ![p] = "drainDrop"]
    /\ UNCHANGED <<lockVars, current, active, item, waking, awaited, histVars,
                   deleteVars>>

\* A wake whose runs were all awaited meanwhile is not worth a turn.
DrainSkipped(p) ==
    /\ pc[p] = "drainGot"
    /\ item[p].rid \notin adm.dropped
    /\ item[p].prov = "harness" /\ item[p].rid \in awaited
    /\ adm' = FinishFollowUpDrain(adm, item[p].rid)
    /\ pc' = [pc EXCEPT ![p] = "drainDrop"]
    /\ fate' = [fate EXCEPT ![item[p].rid] =
                  IF registered THEN "skipped" ELSE @]
    /\ UNCHANGED <<lockVars, current, active, item, waking, awaited, ranAs,
                   deleteVars>>

\* The popped prompt becomes the next turn; the retry task is cancelled
\* wherever it stands.
DrainStart(p) ==
    LET r == item[p].rid
        pcs == CancelRetry([pc EXCEPT ![p] = Ended(p), ![r] = "sched"])
    IN  /\ pc[p] = "drainGot"
        /\ r \notin adm.dropped
        /\ ~(item[p].prov = "harness" /\ r \in awaited)
        /\ current' = r /\ active' = r
        /\ ranAs' = [ranAs EXCEPT ![r] = item[p].prov]
        /\ ReturnFromDrain(p, FinishFollowUpDrain(adm, r), r, pcs,
                           ForgetItem(item, Retry))
        /\ UNCHANGED <<lockVars, awaited, fate, deleteVars>>

DrainRelease(p) ==
    /\ pc[p] = "drainDrop"
    /\ Release(item[p].rid)
    /\ pc' = [pc EXCEPT ![p] = "drainDropDone"]
    /\ UNCHANGED <<busVars, item, waking, awaited, histVars, teardown, victim>>

DrainAgain(p) ==
    /\ pc[p] = "drainDropDone"
    /\ EnterDrain(p, adm, current)
    /\ UNCHANGED <<lockVars, current, active, awaited, histVars, deleteVars>>

\* The lock was held past the wait budget: give the prompt up, try the next.
DrainGiveUp(p) ==
    /\ pc[p] = "drainDenied"
    /\ item[p].failed
    /\ fate' = [fate EXCEPT ![item[p].rid] =
                  IF registered /\ item[p].rid \notin adm.dropped
                  THEN "expired" ELSE @]
    /\ EnterDrain(p, FinishFollowUpDrain(adm, item[p].rid), current)
    /\ UNCHANGED <<lockVars, current, active, awaited, ranAs, deleteVars>>

\* The lock is held elsewhere: back to the front of the queue, rebuilt from
\* its id and content alone, and retry later.  A DELETE that won meanwhile
\* ends it, and the drain goes on with the next prompt.
Requeued(it) == [it EXCEPT !.failed = TRUE, !.prov = "human"]

DrainRequeue(p) ==
    LET a == RequeueFollowUpFront(adm, Requeued(item[p]))
    IN  /\ pc[p] = "drainDenied"
        /\ IF item[p].rid \in adm.dropped
           THEN EnterDrain(p, a, current)
           ELSE ReturnFromDrain(p, a, current,
                   ScheduleRetry([pc EXCEPT ![p] = Ended(p)], p), item)
        /\ UNCHANGED <<lockVars, current, active, awaited, histVars, deleteVars>>

RetryFires ==
    /\ pc[Retry] = "sleep"
    /\ EnterDrain(Retry, adm, current)
    /\ UNCHANGED <<lockVars, current, active, awaited, histVars, deleteVars>>

-----------------------------------------------------------------------------
(* The HTTP handlers and the tick invoker, up to the start of a turn.      *)

\* POST /reply, POST /queue, or a due tick: the first thing is the lock.
Arrive(r) ==
    /\ registered
    /\ r \in ReplyReqs \cup QueueReqs \cup TickReqs
    /\ fate[r] = "new" /\ pc[r] = "idle"
    /\ pc' = [pc EXCEPT ![r] = "acq"]
    /\ UNCHANGED <<busVars, lockVars, item, waking, awaited, histVars, teardown,
                   victim>>

Acquire(r) ==
    /\ pc[r] = "acq"
    /\ TryAcquire(r, r, "got", "denied")
    /\ UNCHANGED <<busVars, item, waking, awaited, histVars, teardown, victim>>

\* The session was idle: the request becomes the current turn.  A tick runs
\* its turn inline and leaves active_turn_task alone.
Got(r) ==
    /\ pc[r] = "got"
    /\ current' = IF r \in TickReqs /\ ~registered THEN current ELSE r
    /\ active' = IF r \in TickReqs THEN active ELSE r
    /\ pc' = [pc EXCEPT ![r] = "sched"]
    /\ fate' = [fate EXCEPT ![r] = IF registered THEN "accepted" ELSE "cleared"]
    /\ ranAs' = [ranAs EXCEPT ![r] = "human"]
    /\ UNCHANGED <<lockVars, adm, item, waking, awaited, deleteVars>>

\* POST /reply parses the body only now, and a bad one is an error response:
\* nothing releases the lock.
GotBadBody(r) ==
    /\ pc[r] = "got" /\ r \in BadBodies
    /\ pc' = [pc EXCEPT ![r] = "done"]
    /\ fate' = [fate EXCEPT ![r] = "refused"]
    /\ UNCHANGED <<busVars, lockVars, item, waking, awaited, ranAs, teardown,
                   victim>>

\* SESSION_BUSY: a reply and a tick are turned away.
Busy(r) ==
    /\ pc[r] = "denied" /\ r \notin QueueReqs
    /\ pc' = [pc EXCEPT ![r] = "done"]
    /\ fate' = [fate EXCEPT ![r] = "refused"]
    /\ UNCHANGED <<busVars, lockVars, item, waking, awaited, ranAs, teardown,
                   victim>>

\* A prompt sent to POST /queue waits in the FIFO, unless it is full.
QueueBusy(r) ==
    /\ pc[r] = "denied" /\ r \in QueueReqs
    /\ IF FollowUpFull(adm)
       THEN /\ fate' = [fate EXCEPT ![r] = "refused"]
            /\ pc' = [pc EXCEPT ![r] = "done"]
            /\ UNCHANGED adm
       ELSE /\ adm' = EnqueueFollowUp(adm, NewFollowUp(r, "human"))
            /\ fate' = [fate EXCEPT ![r] =
                          IF registered THEN "accepted" ELSE "cleared"]
            /\ pc' = ScheduleRetry([pc EXCEPT ![r] = "queued"], r)
    /\ UNCHANGED <<lockVars, current, active, item, waking, awaited, ranAs,
                   deleteVars>>

-----------------------------------------------------------------------------
(* The turn task (_schedule_turn) and the inline tick.                     *)

\* start_turn: without a bus in the registry there is nothing to run.
TurnBegin(r) ==
    /\ pc[r] = "sched"
    /\ pc' = [pc EXCEPT ![r] = IF registered THEN "turn" ELSE "rel"]
    /\ fate' = [fate EXCEPT ![r] = IF registered THEN "started" ELSE @]
    /\ UNCHANGED <<busVars, lockVars, item, waking, awaited, ranAs, teardown,
                   victim>>

\* The turn loop takes one steer at the top of an inner turn.
TurnInject(r) ==
    LET q == Head(adm.steer).queued
    IN  /\ r \in Requests /\ pc[r] = "turn"
        /\ adm.steer # <<>>
        /\ adm' = PopSteer(adm)
        /\ fate' = [x \in Requests |-> IF x = q THEN "injected" ELSE fate[x]]
        /\ UNCHANGED <<lockVars, current, active, pc, item, waking, awaited,
                       ranAs, deleteVars>>

\* The turn calls await_task on the runs of a finished batch.
TurnAwaits(r, w) ==
    /\ r \in Requests /\ pc[r] = "turn"
    /\ fate[w] \in {"ready", "accepted", "cleared"} /\ w \notin awaited
    /\ awaited' = awaited \cup {w}
    /\ UNCHANGED <<busVars, lockVars, pc, item, waking, histVars, teardown,
                   victim>>

\* start_turn returns or raises; the finally block starts.
TurnEnd(r) ==
    /\ pc[r] = "turn"
    /\ pc' = [pc EXCEPT ![r] = "rel"]
    /\ UNCHANGED <<busVars, lockVars, item, waking, awaited, histVars, teardown,
                   victim>>

TurnRelease(r) ==
    /\ pc[r] = "rel"
    /\ Release(r)
    /\ pc' = [pc EXCEPT ![r] = IF r \in Foreign THEN "done" ELSE "relDone"]
    /\ UNCHANGED <<busVars, item, waking, awaited, histVars, teardown, victim>>

CurrentAfter(r) == IF current = r THEN NoReq ELSE current

\* Mutant: a tick does not clear current_request_id.
TickReturnsCurrent(r) ==
    /\ pc[r] = "relDone" /\ r \in TickReqs
    /\ pc' = [pc EXCEPT ![r] = "done"]
    /\ UNCHANGED <<lockVars, busVars, item, waking, awaited, histVars, teardown,
                   victim>>

\* invoke_tick ends here: no wake, no restore, no drain.
TickReturns(r) ==
    /\ pc[r] = "relDone" /\ r \in TickReqs
    /\ current' = IF registered THEN CurrentAfter(r) ELSE current
    /\ pc' = [pc EXCEPT ![r] = "done"]
    /\ UNCHANGED <<lockVars, registered, active, adm, item, waking, awaited,
                   histVars, teardown, victim>>

\* on_wake: an idle session with room gets one harness prompt for the batch.
CanWake(w, cur) ==
    /\ fate[w] = "ready" /\ w \notin awaited
    /\ cur = NoReq /\ ~FollowUpFull(adm)

Woken(w) == EnqueueFollowUp(adm, NewFollowUp(w, "harness"))

\* Turn end without a wake: the batch is empty, the session is not idle, or
\* the wake task is already on its way.
TurnReturns(r) ==
    /\ pc[r] = "relDone" /\ r \notin TickReqs
    /\ pc[WakeTask] = "idle" => \A w \in WakeReqs : ~CanWake(w, CurrentAfter(r))
    /\ current' = CurrentAfter(r)
    /\ EnterDrain(r, RestorePromotedSteers(adm), CurrentAfter(r))
    /\ UNCHANGED <<lockVars, active, awaited, histVars, deleteVars>>

\* Turn end with a wake: wake_if_idle enqueues and drains, then the turn end
\* restores and drains again.
TurnWakes(r, w) ==
    /\ pc[r] = "relDone" /\ r \notin TickReqs
    /\ pc[WakeTask] = "idle" /\ CanWake(w, CurrentAfter(r))
    /\ current' = CurrentAfter(r)
    /\ fate' = [fate EXCEPT ![w] = IF registered THEN "accepted" ELSE "cleared"]
    /\ PopInto(r, Woken(w), pc, item)
    /\ waking' = waking \cup {r}
    /\ UNCHANGED <<lockVars, active, awaited, ranAs, deleteVars>>

-----------------------------------------------------------------------------
(* The supervisor's wake task.                                             *)

\* A batch of background runs finishes; runs that finish before the wake is
\* sent join the batch.
RunsFinish(w) ==
    /\ fate[w] = "new"
    /\ \E r \in Requests : fate[r] = "started"
    /\ \A v \in WakeReqs : fate[v] # "ready"
    /\ teardown \in {"none", "detached"}
    /\ fate' = [fate EXCEPT ![w] = "ready"]
    /\ pc' = [pc EXCEPT ![WakeTask] = IF @ = "idle" THEN "sleep" ELSE @]
    /\ UNCHANGED <<busVars, lockVars, item, waking, awaited, ranAs, teardown,
                   victim>>

WakeFires(w) ==
    /\ pc[WakeTask] = "sleep" /\ CanWake(w, current)
    /\ fate' = [fate EXCEPT ![w] = IF registered THEN "accepted" ELSE "cleared"]
    /\ PopInto(WakeTask, Woken(w), pc, item)
    /\ UNCHANGED <<lockVars, current, active, waking, awaited, ranAs, deleteVars>>

WakeIdles ==
    /\ pc[WakeTask] = "sleep" /\ \A w \in WakeReqs : ~CanWake(w, current)
    /\ pc' = [pc EXCEPT ![WakeTask] = "idle"]
    /\ UNCHANGED <<busVars, lockVars, item, waking, awaited, histVars, teardown,
                   victim>>

-----------------------------------------------------------------------------
(* The client's other calls.                                               *)

\* POST /steer
Steer ==
    /\ Promotes /\ registered /\ current # NoReq /\ ~SteerFull(adm)
    /\ adm' = EnqueueSteer(adm, [queued |-> NoReq])
    /\ UNCHANGED <<lockVars, current, active, pc, item, waking, awaited,
                   histVars, deleteVars>>

\* POST /queue/{id}/steer
Promote(r) ==
    /\ Promotes /\ registered /\ current # NoReq
    /\ r \in QueuedIds(adm) /\ ~SteerFull(adm)
    /\ adm' = PromoteFollowUp(adm, r)
    /\ UNCHANGED <<lockVars, current, active, pc, item, waking, awaited,
                   histVars, deleteVars>>

\* DELETE /queue/{id}
Drop(r) ==
    /\ registered /\ r \in QueuedIds(adm) \cup adm.draining
    /\ fate[r] # "deleted"
    /\ adm' = DropFollowUp(adm, r)
    /\ fate' = [fate EXCEPT ![r] = "deleted"]
    /\ UNCHANGED <<lockVars, current, active, pc, item, waking, awaited, ranAs,
                   deleteVars>>

\* POST /cancel: the steers go, promoted ones back to the queue.  That the
\* turn stops early needs no action of its own: TurnEnd is always possible.
Cancel ==
    /\ Promotes /\ registered /\ adm.steer # <<>>
    /\ adm' = ClearSteer(adm)
    /\ UNCHANGED <<lockVars, current, active, pc, item, waking, awaited,
                   histVars, deleteVars>>

-----------------------------------------------------------------------------
(* DELETE /sessions/{id}: _detach, close the supervisor, wait for the      *)
(* active turn, remove the spill directories.                              *)

\* A task is cancelled at its await: a lock statement that was under way may
\* still be carried out.
KilledAtAwait(p) ==
    \/ UNCHANGED lockVars
    \/ /\ pc[p] = "drainAcq" /\ LockFree
       /\ lock' = {item[p].rid} /\ stale' = FALSE
    \/ /\ pc[p] \in {"rel", "drainDrop"}
       /\ Release(Token(p))

Detach ==
    /\ Deletes /\ registered
    /\ registered' = FALSE /\ teardown' = "detached"
    /\ adm' = EmptyAdmission
    /\ pc' = CancelRetry(pc) /\ item' = ForgetItem(item, Retry)
    /\ KilledAtAwait(Retry)
    /\ fate' = [r \in Requests |->
                  IF fate[r] = "accepted" THEN "cleared" ELSE fate[r]]
    /\ UNCHANGED <<current, active, waking, awaited, ranAs, victim>>

\* aclose cancels the wake task; then the active turn's task is looked up.
Quiesce ==
    /\ teardown = "detached"
    /\ teardown' = "quiesce" /\ victim' = active
    /\ pc' = [pc EXCEPT ![WakeTask] = "idle"]
    /\ item' = ForgetItem(item, WakeTask)
    /\ KilledAtAwait(WakeTask)
    /\ UNCHANGED <<busVars, waking, awaited, histVars>>

\* The turn did not stop in time and is cancelled: its finally block still
\* runs, but a cancellation inside that block ends the task there.
HardCancel ==
    /\ teardown = "quiesce" /\ victim \in Requests
    /\ pc[victim] \notin {"sched", "done"}
    /\ pc' = [pc EXCEPT ![victim] = IF @ = "turn" THEN "rel" ELSE "done"]
    /\ item' = ForgetItem(item, victim)
    /\ waking' = waking \ {victim}
    /\ KilledAtAwait(victim)
    /\ UNCHANGED <<busVars, awaited, histVars, teardown, victim>>

\* Mutant: the spill directories go without waiting for the active turn.
CleanupSpillAtOnce ==
    /\ teardown = "quiesce"
    /\ teardown' = "cleaned"
    /\ UNCHANGED <<busVars, lockVars, pc, item, waking, awaited, histVars,
                   victim>>

CleanupSpill ==
    /\ teardown = "quiesce"
    /\ victim \in {NoReq} \cup {r \in Requests : pc[r] = "done"}
    /\ teardown' = "cleaned"
    /\ UNCHANGED <<busVars, lockVars, pc, item, waking, awaited, histVars,
                   victim>>

-----------------------------------------------------------------------------
(* The lock's other users.                                                 *)

ForeignAcquire(f) ==
    /\ pc[f] = "idle" /\ LockFree
    /\ lock' = {f} /\ stale' = FALSE
    /\ pc' = [pc EXCEPT ![f] = "turn"]
    /\ UNCHANGED <<busVars, item, waking, awaited, histVars, teardown, victim>>

\* Another replica dies in the middle of a turn.
ForeignCrash(f) ==
    /\ pc[f] \in {"turn", "rel"}
    /\ pc' = [pc EXCEPT ![f] = "done"]
    /\ UNCHANGED <<busVars, lockVars, item, waking, awaited, histVars, teardown,
                   victim>>

-----------------------------------------------------------------------------
\* What a process does by itself, once it exists.
Drain(p) ==
    \/ DrainAcquire(p) \/ DrainDropped(p) \/ DrainSkipped(p) \/ DrainStart(p)
    \/ DrainRelease(p) \/ DrainAgain(p) \/ DrainGiveUp(p) \/ DrainRequeue(p)

Handle(r) ==
    \/ Acquire(r) \/ Got(r) \/ GotBadBody(r) \/ Busy(r) \/ QueueBusy(r)

Turn(r) ==
    \/ TurnBegin(r) \/ TurnEnd(r) \/ TurnRelease(r)
    \/ TickReturns(r) \/ TurnReturns(r) \/ \E w \in WakeReqs : TurnWakes(r, w)

Helper ==
    RetryFires \/ WakeIdles \/ \E w \in WakeReqs : WakeFires(w)

Client ==
    \/ Steer \/ Cancel
    \/ \E r \in Requests : Arrive(r)
    \/ \E r \in QueueReqs : Promote(r) \/ Drop(r)

Teardown == Detach \/ Quiesce \/ HardCancel \/ CleanupSpill

Next ==
    \/ \E p \in Requests \cup {Retry, WakeTask} : Drain(p)
    \/ \E r \in Requests : Handle(r) \/ Turn(r) \/ TurnInject(r)
    \/ \E r \in Requests, w \in WakeReqs : TurnAwaits(r, w)
    \/ Helper \/ Client \/ Teardown \/ Expire
    \/ \E w \in WakeReqs : RunsFinish(w)
    \/ \E f \in Foreign : \/ ForeignAcquire(f) \/ ForeignCrash(f)
                          \/ TurnEnd(f) \/ TurnRelease(f)

Spec == Init /\ [][Next]_vars

\* The event loop runs every ready task, statements complete, turns end, the
\* retry delay elapses, and foreign turns end or their claim grows stale.
Fairness ==
    /\ \A p \in Requests \cup {Retry, WakeTask} : WF_vars(Drain(p))
    /\ \A r \in Requests : WF_vars(Handle(r)) /\ WF_vars(Turn(r))
    /\ \A f \in Foreign :
          WF_vars(TurnEnd(f)) /\ WF_vars(TurnRelease(f))
    /\ WF_vars(Helper) /\ WF_vars(Expire) /\ WF_vars(Quiesce)
    /\ WF_vars(CleanupSpill)

FairSpec == Spec /\ Fairness

-----------------------------------------------------------------------------
(* Properties.                                                             *)

\* At most one turn of the session is scheduled or running, on this replica
\* and all others together: the turn lock is exclusive as long as no turn
\* outlasts the stale window (try_acquire, _schedule_turn, invoke_tick).
TurnExclusion ==
    \A p, q \in Procs :
        pc[p] \in {"sched", "turn"} /\ pc[q] \in {"sched", "turn"} => p = q

\* The strengthening that makes exclusion inductive: whoever is between a
\* successful try_acquire and its release holds a fresh claim under its own
\* id, and nobody else is in that stretch of code.
LockInv ==
    /\ \A p \in Procs : Holding(p) => lock = {Token(p)} /\ ~stale
    /\ \A p, q \in Procs : Holding(p) /\ Holding(q) => p = q

\* While the session exists, a claim taken by this replica has a task that
\* is going to release it: no error path leaves the session busy.
LockHasOwner ==
    registered /\ lock # {} /\ lock \subseteq Requests =>
        \E p \in Procs : Holding(p) /\ lock = {Token(p)}

\* bus.current_request_id names a turn that is under way and will clear it,
\* and a local turn under way is the current one; a dangling id would stop
\* every later drain.
CurrentIsLive ==
    registered =>
        /\ current # NoReq =>
              pc[current] \in {"sched", "turn", "rel", "relDone"}
        /\ \A r \in Requests :
              pc[r] \in {"sched", "turn", "rel"} => current = r

Popped(p) == pc[p] \in {"drainAcq", "drainGot", "drainDenied"}

\* All the copies of request r that some code still means to act on.
Copies(r) ==
      {<<"queued", i>> : i \in {j \in DOMAIN adm.followUp :
                                  adm.followUp[j].rid = r}}
    \cup {<<"steer", i>> : i \in {j \in DOMAIN adm.steer :
                                  adm.steer[j].queued = r}}
    \cup {<<"popped", p>> : p \in {q \in Procs : Popped(q) /\ item[q].rid = r}}
    \cup {<<"turn", p>> : p \in {r} \cap {q \in Procs : pc[q] = "sched"}}

\* An accepted prompt is in one place at a time, and one that was started,
\* injected, deleted, expired or skipped is nowhere, so nothing runs it
\* again; a DELETEd prompt may still be in the hands of the drain that will
\* drop it.
OnePlace ==
    registered =>
        \A r \in Requests :
            Cardinality(Copies(r)) <=
                IF fate[r] = "accepted" \/ r \in adm.dropped THEN 1 ELSE 0

\* A prompt popped by a drain can still be DELETEd, and a DELETE is
\* remembered only for such prompts.
PoppedIsDraining ==
    /\ adm.dropped \subseteq adm.draining
    /\ registered => \A p \in Procs : Popped(p) => item[p].rid \in adm.draining

\* The books of a session agree: the claim, the current turn, the queues and
\* the prompts in the hands of drains, in every order of their steps.
AdmissionSafe == TypeOK /\ LockHasOwner /\ CurrentIsLive /\ OnePlace /\ PoppedIsDraining

\* remove_async removes the spill directories only when no turn of the
\* session is running.
SpillQuiet ==
    teardown = "cleaned" => \A r \in Requests : pc[r] # "turn"

\* An accepted prompt that nobody holds any more.
Lost(r) == registered /\ fate[r] = "accepted" /\ Copies(r) = {}

\* Prompts accepted with 202 are never dropped silently.
NoLostFollowUp == \A r \in Requests : ~Lost(r)

\* The turn of a harness wake is never taken for human input.
WakeIsNotHuman == \A w \in WakeReqs : ranAs[w] # "human"

\* Every accepted prompt is eventually started, injected, deleted, given up
\* or skipped, unless the session goes away or the prompt is lost.
AcceptedSettles ==
    \A r \in Requests :
        fate[r] = "accepted" ~>
            fate[r] # "accepted" \/ ~registered \/ Lost(r)

\* fate records the life the queue promises its clients.
Lifecycle == INSTANCE FollowUpLifecycle
LifecycleSpec == Lifecycle!Spec

=============================================================================
