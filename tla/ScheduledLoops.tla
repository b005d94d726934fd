---------------------------- MODULE ScheduledLoops ----------------------------
(***************************************************************************)
(* Scheduled loops and goals: the rows of the scheduled_loops table        *)
(* (core/persistence/scheduled_loops.py), the workers that poll, claim and *)
(* run their ticks (scheduler/engine.py), the session turn a tick needs    *)
(* (gateway/sse/scheduler_wiring.py, scheduler/http_invoker.py), and the   *)
(* people and tools that create, pause, resume and stop them               *)
(* (gateway/sse/scheduler_routes.py, core/goals/service.py).               *)
(*                                                                         *)
(* A claim of a row is a lease: the row names the worker, not the task, so *)
(* a task may meet a claim that is no longer the one it was started for.   *)
(* Clock readings are abstracted to two bits of a row: due (next_tick_at_ms*)
(* is past) and stale (claimed_at_ms is older than the stale window).      *)
(***************************************************************************)
EXTENDS Integers, FiniteSets

CONSTANTS
    Loops,         \* loop ids, goals included
    Goals,         \* the rows whose kind is "goal"
    Sessions,      \* conversation threads
    SessionOf,     \* the session a row's ticks run in
    MaxTicksOf,    \* max_ticks of a row, 0 when it has none
    Timed,         \* the loops with a max_runtime
    SkipIfBusy,    \* the rows with skip_if_busy
    Workers,       \* scheduler worker ids
    Tasks,         \* identities of tick tasks
    Admins,        \* concurrent callers of the goal service
    Concurrency,   \* max_concurrency of a worker
    GoalMaxErrors, \* GOAL_MAX_CONSECUTIVE_ERRORS
    MaxClaims,     \* bound: claims made of one row
    MaxEdits,      \* bound: pauses, resumes and stops
    MaxCrashes,    \* bound: crashes, shutdowns and failed store calls
    None

ASSUME LoopsAssumption ==
    /\ Goals \subseteq Loops
    /\ SessionOf \in [Loops -> Sessions]
    /\ MaxTicksOf \in [Loops -> Nat]
    /\ \A g \in Goals : MaxTicksOf[g] = 0 /\ g \notin Timed
    /\ None \notin Workers
    /\ Concurrency \in Nat \ {0}
    /\ GoalMaxErrors \in Nat \ {0}

VARIABLES
    row,     \* the table: one record per loop
    worker,  \* poll loop of each worker
    task,    \* tick tasks
    turn,    \* session_turns: who holds the turn of a session
    admin,   \* goal service calls between their read and their write
    \* What happened so far, for bounds and properties only.
    claims,  \* claims made of a row
    runs,    \* turns run for it
    lost,    \* claims of it that ended without their tick being counted
    revived, \* rows a pause took out of a final status
    stopped, \* rows that were stopped
    edits,   \* pauses, resumes and stops so far
    crashes  \* worker and store faults so far

past == <<claims, runs, lost, revived, stopped, edits, crashes>>
vars == <<row, worker, task, turn, admin, past>>

Statuses == {"absent", "active", "paused", "completed", "failed"}
Open == {"active", "paused"}
Other == "other"  \* a turn that is not a live tick task's
Idle == [op |-> "none", loop |-> None]
NoTask == [stage |-> "none", loop |-> None, worker |-> None, beats |-> FALSE]
Started == {"check", "skip", "defer", "invoke", "turn", "ok", "error"}

Init ==
    /\ row = [l \in Loops |-> [status |-> "absent", worker |-> None, ticks |-> 0,
                               errors |-> 0, due |-> FALSE, stale |-> FALSE]]
    /\ worker = [w \in Workers |->
                    [stage |-> "release", due |-> {}, claimed |-> {}, shutdown |-> FALSE]]
    /\ task = [t \in Tasks |-> NoTask]
    /\ turn = [s \in Sessions |-> None]
    /\ admin = [a \in Admins |-> Idle]
    /\ claims = [l \in Loops |-> 0] /\ runs = claims /\ lost = claims
    /\ revived = {} /\ stopped = {} /\ edits = 0 /\ crashes = 0

-----------------------------------------------------------------------------
(* The statements of the store, as functions of one row.  tick_in_flight is *)
(* worker # None: every statement writes the two together.                  *)

InFlight(r) == r.worker # None
Claimable(r) == r.status = "active" /\ ~InFlight(r) /\ r.due
Owned(r, w) == InFlight(r) /\ r.worker = w

\* A row whose claim is given up, with what the statement writes besides.
Released(status, ticks, errors, due) ==
    [status |-> status, worker |-> None, ticks |-> ticks, errors |-> errors,
     due |-> due, stale |-> FALSE]

ClaimTick(r, w) == [r EXCEPT !.worker = w, !.stale = FALSE]

RenewTickClaim(r) == [r EXCEPT !.stale = FALSE]

DeferTick(r) == Released(r.status, r.ticks, r.errors, FALSE)

\* Mutant: a goal whose ticks all go stale is never given up.
ReleaseStaleClaimKeepsGoal(l, r) ==
    Released(r.status, r.ticks, IF l \in Goals THEN r.errors + 1 ELSE r.errors, r.due)

ReleaseStaleClaim(l, r) ==
    IF l \in Goals
    THEN Released(IF r.errors + 1 >= GoalMaxErrors THEN "failed" ELSE r.status,
                  r.ticks, r.errors + 1, r.due)
    ELSE Released(r.status, r.ticks, r.errors, r.due)

\* Mutant: a failed tick is retried without being counted.
CompleteTickErrorUncounted(l, r) == Released("active", r.ticks, r.errors + 1, FALSE)

CompleteTickError(l, r) ==
    IF l \in Goals /\ r.errors + 1 < GoalMaxErrors
    THEN Released("active", r.ticks + 1, r.errors + 1, FALSE)
    ELSE Released("failed", r.ticks + 1, r.errors + 1, r.due)

\* Mutant: max_ticks is compared with the old index.
CompleteTickOkOffByOne(l, r, timeout) ==
    Released(IF MaxTicksOf[l] > 0 /\ r.ticks >= MaxTicksOf[l] THEN "completed" ELSE r.status,
             r.ticks + 1, 0, FALSE)

CompleteTickOk(l, r, timeout) ==
    IF timeout \/ (MaxTicksOf[l] > 0 /\ r.ticks + 1 >= MaxTicksOf[l])
    THEN Released("completed", r.ticks + 1, 0, r.due)
    ELSE Released(r.status, r.ticks + 1, 0, FALSE)

\* Mutant: a pause or stop leaves the claim in place.
SetStatusKeepsClaim(r, status) == [r EXCEPT !.status = status]

SetStatus(r, status) == Released(status, r.ticks, r.errors, r.due)

ResumeRow(r) == Released("active", r.ticks, r.errors, TRUE)

\* idx_scheduled_loops_one_open_goal: one open goal per session.
OpenGoalFree(l) ==
    l \in Goals => \A g \in Goals \ {l} :
        ~(row[g].status \in Open /\ SessionOf[g] = SessionOf[l])

\* A claim that ended without its tick being counted.
LostIf(l) == IF InFlight(row[l]) THEN [lost EXCEPT ![l] = @ + 1] ELSE lost

-----------------------------------------------------------------------------
(* Creation, pause, resume and stop.                                        *)

Create(l) ==
    /\ row[l].status = "absent" /\ OpenGoalFree(l)
    /\ row' = [row EXCEPT ![l].status = "active", ![l].due = l \notin Goals]
    /\ UNCHANGED <<worker, task, turn, admin, past>>

Edited(l, new) ==
    /\ edits < MaxEdits
    /\ OpenGoalFree(l) \/ new.status \notin Open
    /\ row' = [row EXCEPT ![l] = new]
    /\ lost' = LostIf(l)
    /\ revived' = revived \cup
           (IF row[l].status \notin Open /\ new.status \in Open THEN {l} ELSE {})
    /\ stopped' = stopped \cup (IF new.status = "completed" THEN {l} ELSE {})
    /\ edits' = edits + 1
    /\ UNCHANGED <<worker, task, turn, claims, runs, crashes>>

Pause(l) == Edited(l, SetStatus(row[l], "paused"))

Stop(l) == Edited(l, SetStatus(row[l], "completed"))

Resume(l) == row[l].status = "paused" /\ Edited(l, ResumeRow(row[l]))

\* The routes and tools of plain loops check only that the row exists and is
\* not a goal, which never changes.
EditLoop(l) ==
    /\ l \notin Goals /\ row[l].status # "absent"
    /\ Pause(l) \/ Stop(l) \/ Resume(l)
    /\ UNCHANGED admin

\* The goal service reads the row, decides, and writes in a later statement.
Allowed(op, status) ==
    \/ op = "pause" /\ status = "active"
    \/ op = "resume" /\ status = "paused"
    \/ op = "stop" /\ status \in Open

GoalRead(a, op, g) ==
    /\ admin[a] = Idle /\ edits < MaxEdits
    /\ Allowed(op, row[g].status)
    /\ admin' = [admin EXCEPT ![a] = [op |-> op, loop |-> g]]
    /\ UNCHANGED <<row, worker, task, turn, past>>

GoalWrite(a) ==
    /\ admin[a] # Idle
    /\ LET g == admin[a].loop IN
           \/ admin[a].op = "pause" /\ Pause(g)
           \/ admin[a].op = "resume" /\ Resume(g)
           \/ admin[a].op = "stop" /\ Stop(g)
    /\ admin' = [admin EXCEPT ![a] = Idle]

\* The write is refused: the row is no longer paused, or the one-open-goal
\* index rejects it.  The caller gets the error and nothing changes.
GoalRefused(a) ==
    /\ \/ admin[a].op = "resume" /\ row[admin[a].loop].status # "paused"
       \/ admin[a].op = "pause" /\ ~OpenGoalFree(admin[a].loop)
    /\ admin' = [admin EXCEPT ![a] = Idle]
    /\ UNCHANGED <<row, worker, task, turn, past>>

-----------------------------------------------------------------------------
(* The poll loop of a worker.                                               *)

Stage(w, stage) == worker' = [worker EXCEPT ![w].stage = stage]

\* Mutant: a worker releases only its own stale claims.
ReleaseOwnStaleClaims(w) ==
    LET gone == {l \in Loops : Owned(row[l], w) /\ row[l].stale} IN
    /\ worker[w].stage = "release" /\ ~worker[w].shutdown
    /\ row' = [l \in Loops |-> IF l \in gone THEN ReleaseStaleClaim(l, row[l]) ELSE row[l]]
    /\ lost' = [l \in Loops |-> IF l \in gone THEN lost[l] + 1 ELSE lost[l]]
    /\ Stage(w, "list")
    /\ UNCHANGED <<task, turn, admin, claims, runs, revived, stopped, edits, crashes>>

ReleaseStaleClaims(w) ==
    LET gone == {l \in Loops : InFlight(row[l]) /\ row[l].stale} IN
    /\ worker[w].stage = "release" /\ ~worker[w].shutdown
    /\ row' = [l \in Loops |-> IF l \in gone THEN ReleaseStaleClaim(l, row[l]) ELSE row[l]]
    /\ lost' = [l \in Loops |-> IF l \in gone THEN lost[l] + 1 ELSE lost[l]]
    /\ Stage(w, "list")
    /\ UNCHANGED <<task, turn, admin, claims, runs, revived, stopped, edits, crashes>>

ListDue(w) ==
    /\ worker[w].stage = "list"
    /\ worker' = [worker EXCEPT ![w].stage = "claim",
                      ![w].due = {l \in Loops : Claimable(row[l]) /\ claims[l] < MaxClaims}]
    /\ UNCHANGED <<row, task, turn, admin, past>>

\* claim_tick of the next candidate: the row may have changed since it was listed.
Claim(w, l) ==
    /\ worker[w].stage = "claim" /\ l \in worker[w].due /\ ~worker[w].shutdown
    /\ IF Claimable(row[l])
       THEN /\ row' = [row EXCEPT ![l] = ClaimTick(@, w)]
            /\ worker' = [worker EXCEPT ![w].due = @ \ {l}, ![w].claimed = @ \cup {l}]
            /\ claims' = [claims EXCEPT ![l] = @ + 1]
       ELSE /\ worker' = [worker EXCEPT ![w].due = @ \ {l}]
            /\ UNCHANGED <<row, claims>>
    /\ UNCHANGED <<task, turn, admin, runs, lost, revived, stopped, edits, crashes>>

PollEnd(w) == worker' = [worker EXCEPT ![w].stage = "release", ![w].due = {}, ![w].claimed = {}]

\* One task per claimed row, all created in one synchronous loop.
SpawnTicks(w) ==
    /\ worker[w].stage = "claim" /\ worker[w].due = {} /\ ~worker[w].shutdown
    /\ \E f \in [worker[w].claimed -> {t \in Tasks : task[t] = NoTask}] :
           /\ \A k, l \in worker[w].claimed : f[k] = f[l] => k = l
           /\ task' = [t \in Tasks |->
                  IF \E l \in worker[w].claimed : f[l] = t
                  THEN [NoTask EXCEPT !.stage = "waiting", !.worker = w,
                            !.loop = CHOOSE l \in worker[w].claimed : f[l] = t]
                  ELSE task[t]]
    /\ PollEnd(w)
    /\ UNCHANGED <<row, turn, admin, past>>

CountCrash ==
    /\ crashes < MaxCrashes /\ crashes' = crashes + 1
    /\ UNCHANGED <<claims, runs, lost, revived, stopped, edits>>

\* A store call raises: the poll is logged and retried, its claims are dropped.
PollFails(w) ==
    /\ worker[w].stage \in {"list", "claim"}
    /\ PollEnd(w)
    /\ CountCrash
    /\ UNCHANGED <<row, task, turn, admin>>

Shutdown(w) ==
    /\ worker[w].stage # "down" /\ ~worker[w].shutdown
    /\ worker' = [worker EXCEPT ![w].shutdown = TRUE]
    /\ CountCrash
    /\ UNCHANGED <<row, task, turn, admin>>

TasksOf(w) == {t \in Tasks : task[t].worker = w}

\* shutdown is seen before a claim or before the tasks are created: what is
\* already claimed stays in flight, and the started tasks are awaited.
Drained(w) ==
    /\ worker[w].stage \in {"release", "claim"} /\ worker[w].shutdown
    /\ TasksOf(w) = {}
    /\ worker' = [worker EXCEPT ![w] = [stage |-> "down", due |-> {}, claimed |-> {},
                                        shutdown |-> FALSE]]
    /\ UNCHANGED <<row, task, turn, admin, past>>

\* The process dies, or shutdown_scheduler gives up and cancels: no statement
\* is written for the ticks, and their turns end on their own.
Crash(w) ==
    /\ worker[w].stage # "down"
    /\ worker' = [worker EXCEPT ![w] = [stage |-> "down", due |-> {}, claimed |-> {},
                                        shutdown |-> FALSE]]
    /\ task' = [t \in Tasks |-> IF task[t].worker = w THEN NoTask ELSE task[t]]
    /\ turn' = [s \in Sessions |-> IF turn[s] \in TasksOf(w) THEN Other ELSE turn[s]]
    /\ CountCrash
    /\ UNCHANGED <<row, admin>>

Restart(w) ==
    /\ worker[w].stage = "down" /\ Stage(w, "release")
    /\ UNCHANGED <<row, task, turn, admin, past>>

-----------------------------------------------------------------------------
(* One tick task.                                                           *)

Goto(t, stage) == task' = [task EXCEPT ![t].stage = stage]
TurnOf(t) == turn[SessionOf[task[t].loop]]
SetTurn(t, v) == turn' = [turn EXCEPT ![SessionOf[task[t].loop]] = v]

\* The semaphore of the worker.
Admit(t) ==
    /\ task[t].stage = "waiting"
    /\ Cardinality({u \in TasksOf(task[t].worker) : task[u].stage \in Started}) < Concurrency
    /\ Goto(t, "check")
    /\ UNCHANGED <<row, worker, turn, admin, past>>

BusyChecked(t) ==
    /\ task[t].stage = "check"
    /\ IF task[t].loop \in SkipIfBusy /\ TurnOf(t) # None
       THEN Goto(t, "skip")
       ELSE task' = [task EXCEPT ![t].stage = "invoke", ![t].beats = TRUE]
    /\ UNCHANGED <<row, worker, turn, admin, past>>

Defer(t) ==
    LET l == task[t].loop IN
    /\ task[t].stage \in {"skip", "defer"}
    /\ row' = IF Owned(row[l], task[t].worker)
              THEN [row EXCEPT ![l] = DeferTick(@)] ELSE row
    /\ task' = [task EXCEPT ![t] = NoTask]
    /\ UNCHANGED <<worker, turn, admin, past>>

\* try_acquire of the session turn; the claim is not looked at again.
InvokeTick(t) ==
    /\ task[t].stage = "invoke"
    /\ IF TurnOf(t) = None
       THEN /\ SetTurn(t, t) /\ Goto(t, "turn")
            /\ runs' = [runs EXCEPT ![task[t].loop] = @ + 1]
       ELSE Goto(t, "defer") /\ UNCHANGED <<turn, runs>>
    /\ UNCHANGED <<row, worker, admin, claims, lost, revived, stopped, edits, crashes>>

\* ensure_session or the call to the gateway raises.
InvokeFails(t) ==
    /\ task[t].stage = "invoke" /\ Goto(t, "error")
    /\ UNCHANGED <<row, worker, turn, admin, past>>

TurnEnds(t) ==
    /\ task[t].stage = "turn" /\ SetTurn(t, None)
    /\ \E result \in {"ok", "error"} : Goto(t, result)
    /\ UNCHANGED <<row, worker, admin, past>>

\* HttpTickInvoker times out; the gateway is still running the turn.
InvokeTimesOut(t) ==
    /\ task[t].stage = "turn" /\ SetTurn(t, Other) /\ Goto(t, "error")
    /\ UNCHANGED <<row, worker, admin, past>>

Completed(t, l, r) ==
    IF task[t].stage = "ok"
    THEN {CompleteTickOk(l, r, timeout) : timeout \in {FALSE} \cup {l \in Timed}}
    ELSE {CompleteTickError(l, r)}

Complete(t) ==
    LET l == task[t].loop IN
    /\ task[t].stage \in {"ok", "error"}
    /\ IF Owned(row[l], task[t].worker)
       THEN \E new \in Completed(t, l, row[l]) : row' = [row EXCEPT ![l] = new]
       ELSE UNCHANGED row
    /\ task' = [task EXCEPT ![t] = NoTask]
    /\ UNCHANGED <<worker, turn, admin, past>>

\* The statement that ends the tick raises.  Inside the try block the tick is
\* then completed with an error; elsewhere the task dies and the claim stays.
StoreRaises(t) ==
    /\ task[t].stage \in {"skip", "defer", "ok", "error"}
    /\ IF task[t].stage \in {"defer", "ok"}
       THEN Goto(t, "error")
       ELSE task' = [task EXCEPT ![t] = NoTask]
    /\ CountCrash
    /\ UNCHANGED <<row, worker, turn, admin>>

\* The heartbeat of a tick that is being invoked; it ends at the first
\* renewal that finds the claim gone.
Heartbeat(t) ==
    LET l == task[t].loop IN
    /\ task[t].beats
    /\ IF Owned(row[l], task[t].worker)
       THEN /\ row[l].stale /\ row' = [row EXCEPT ![l] = RenewTickClaim(@)]
            /\ UNCHANGED task
       ELSE task' = [task EXCEPT ![t].beats = FALSE] /\ UNCHANGED row
    /\ UNCHANGED <<worker, turn, admin, past>>

\* renew_tick_claim raises: the heartbeat dies, the tick goes on without it.
HeartbeatFails(t) ==
    /\ task[t].beats /\ task' = [task EXCEPT ![t].beats = FALSE]
    /\ CountCrash
    /\ UNCHANGED <<row, worker, turn, admin>>

-----------------------------------------------------------------------------
(* Time, and turns of the sessions that are not ticks.                      *)

BecomesDue(l) ==
    /\ row[l].status # "absent" /\ ~row[l].due
    /\ row' = [row EXCEPT ![l].due = TRUE]
    /\ UNCHANGED <<worker, task, turn, admin, past>>

\* claimed_at_ms is renewed far more often than the stale window while a
\* heartbeat runs.
BecomesStale(l) ==
    /\ InFlight(row[l]) /\ ~row[l].stale
    /\ ~\E t \in TasksOf(row[l].worker) : task[t].loop = l /\ task[t].beats
    /\ row' = [row EXCEPT ![l].stale = TRUE]
    /\ UNCHANGED <<worker, task, turn, admin, past>>

OtherTurn(s) ==
    /\ \/ turn[s] = None /\ turn' = [turn EXCEPT ![s] = Other]
       \/ turn[s] = Other /\ turn' = [turn EXCEPT ![s] = None]
    /\ UNCHANGED <<row, worker, task, admin, past>>

-----------------------------------------------------------------------------
WorkerStep(w) ==
    \/ ReleaseStaleClaims(w) \/ ListDue(w) \/ SpawnTicks(w)
    \/ \E l \in Loops : Claim(w, l)

TaskStep(t) ==
    \/ Admit(t) \/ BusyChecked(t) \/ Defer(t) \/ InvokeTick(t)
    \/ InvokeFails(t) \/ TurnEnds(t) \/ InvokeTimesOut(t) \/ Complete(t)

Fault(w) == PollFails(w) \/ Shutdown(w) \/ Drained(w) \/ Crash(w) \/ Restart(w)

Next ==
    \/ \E l \in Loops : Create(l) \/ EditLoop(l) \/ BecomesDue(l) \/ BecomesStale(l)
    \/ \E a \in Admins, g \in Goals, op \in {"pause", "resume", "stop"} : GoalRead(a, op, g)
    \/ \E a \in Admins : GoalWrite(a) \/ GoalRefused(a)
    \/ \E w \in Workers : WorkerStep(w) \/ Fault(w)
    \/ \E t \in Tasks : TaskStep(t) \/ Heartbeat(t) \/ HeartbeatFails(t) \/ StoreRaises(t)
    \/ \E s \in Sessions : OtherTurn(s)

Spec == Init /\ [][Next]_vars

\* The event loop runs every ready coroutine, turns end, clocks advance.
Fairness ==
    /\ \A w \in Workers : WF_vars(WorkerStep(w))
    /\ \A t \in Tasks : WF_vars(TaskStep(t))
    /\ \A l \in Loops : WF_vars(BecomesStale(l))

FairSpec == Spec /\ Fairness

-----------------------------------------------------------------------------
(* Properties.                                                              *)

\* A row of the table, a poll loop, a goal service call, a tick task.
Row == [status : Statuses, worker : Workers \cup {None}, ticks : Nat, errors : Nat,
        due : BOOLEAN, stale : BOOLEAN]
Poll == [stage : {"release", "list", "claim", "down"}, due : SUBSET Loops,
         claimed : SUBSET Loops, shutdown : BOOLEAN]
Call == [op : {"pause", "resume", "stop"}, loop : Goals]
Tick == [stage : Started \cup {"waiting"}, loop : Loops, worker : Workers, beats : BOOLEAN]

\* Every variable has the shape the store and the engine give it.
TypeOK ==
    /\ row \in [Loops -> Row]
    /\ worker \in [Workers -> Poll]
    /\ task \in [Tasks -> Tick \cup {NoTask}]
    /\ turn \in [Sessions -> Tasks \cup {None, Other}]
    /\ admin \in [Admins -> Call \cup {Idle}]
    /\ claims \in [Loops -> Nat] /\ runs \in [Loops -> Nat] /\ lost \in [Loops -> Nat]
    /\ revived \subseteq Loops /\ stopped \subseteq Loops /\ edits \in Nat /\ crashes \in Nat

\* A row is in flight only while it is active: a pause or a stop ends the
\* claim, so a tick that finishes afterwards finds nothing to write to
\* (set_status clears tick_in_flight, complete_tick checks it).
ClaimIsActive == \A l \in Loops : InFlight(row[l]) => row[l].status = "active"

\* Every turn a loop has run is counted in tick_index, or is the tick in
\* flight, or belongs to a claim that was taken away (paused, resumed,
\* stopped or released as stale), however late the tasks of old claims write
\* and whichever later claim of the same worker they meet.
TicksAccounted ==
    \A l \in Loops :
        runs[l] <= row[l].ticks + lost[l] + (IF InFlight(row[l]) THEN 1 ELSE 0)

\* No worker, tick or stale release puts a paused, stopped or failed row back
\* to work: only creation and resume make a row active.
OnlyResumeReopens ==
    [][\A l \in Loops :
        row[l].status # "active" /\ row'[l].status = "active" => Create(l) \/ Resume(l)]_vars

\* An active row is below its limits: fewer ticks than max_ticks, fewer
\* consecutive errors than a goal may have, unless a pause took it out of
\* its final status.
LimitsHold ==
    \A l \in Loops \ revived : row[l].status = "active" =>
        /\ MaxTicksOf[l] > 0 => row[l].ticks < MaxTicksOf[l]
        /\ l \in Goals => row[l].errors < GoalMaxErrors

\* A claim always ends: by its tick, by an edit, or by the stale release
\* another worker's poll performs after a crash.
ClaimsEnd == \A l \in Loops : InFlight(row[l]) ~> ~InFlight(row[l])

\* "stop_loop: Stop a scheduled loop permanently": a stopped loop is never
\* active again.
StopIsPermanent == \A l \in stopped \ Goals : row[l].status # "active"

\* max_ticks is a hard guard: a loop runs no more turns than that.
HardTickGuard == \A l \in Loops : MaxTicksOf[l] > 0 => runs[l] <= MaxTicksOf[l]

\* A goal continues across scheduled turns until completed: once it is
\* completed or failed it is not open again.
GoalDoneIsFinal ==
    [][\A g \in Goals : row[g].status \in {"completed", "failed"} =>
                            row'[g].status = row[g].status]_vars

\* A paused or stopped loop is held: no turn of it starts.
PauseHolds ==
    [][\A t \in Tasks : task[t].stage = "invoke" /\ task'[t].stage = "turn" =>
                            row[task[t].loop].status = "active"]_vars

=============================================================================
