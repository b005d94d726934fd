----------------------------- MODULE SubagentRuns -----------------------------
(***************************************************************************)
(* Subagent runs of one session: the supervisor that starts, awaits, kills *)
(* and closes background children (core/subagents/supervisor.py), the      *)
(* blocking runs of the task tool (core/tools/core_tool_executor.py), the  *)
(* child processes (core/subprocess_groups.py) and the subagent_runs table *)
(* that outlives the gateway process (core/persistence/durable_runs.py).   *)
(*                                                                         *)
(* An owner is one gateway process from its start to its end: a restart is *)
(* a new owner on the same host. A child runs in a process group of its    *)
(* own and survives its owner. Wake-up turns are modelled in SessionTurns. *)
(***************************************************************************)
EXTENDS Naturals, FiniteSets

CONSTANTS
    Owners,        \* gateway processes (process_owner_id)
    HostOf,        \* the host a process runs on
    Runs,          \* run ids
    Blocking,      \* the runs of a task call without background
    MaxBackground, \* subagents.max_background
    Neighbours,    \* may two processes of one host be up together?
    MaxCrashes,    \* bound: processes that die without closing the session
    MaxStoreFaults,\* bound: calls of the run store that raise
    MaxDrainErrors,\* bound: children whose output the parent fails to read
    MaxCancels,    \* bound: turns cancelled inside supervisor.spawn
    None

ASSUME RunsAssumption ==
    /\ Blocking \subseteq Runs
    /\ None \notin Owners \cup Runs
    /\ MaxBackground \in Nat \ {0}
    /\ Neighbours \in BOOLEAN

ASSUME OutcomeAssumption == None \notin {"ok", "bad"}  \* a payload is not null

VARIABLES
    proc,   \* a process: new, sweeping its host's orphans, up, or dead
    sweep,  \* its start-up sweep: rows to fail, and the row being failed
    sup,    \* its supervisor of the session: state, and runs aclose still visits
    look,   \* its await_task or kill_task of a run it does not hold
    mem,    \* the _Run object of a run, in the process that started it
    row,    \* the subagent_runs table
    child,  \* the child process of a run
    told,   \* outcomes await_task has reported of a run
    faults  \* crashes, store faults, drain errors and cancels so far

vars == <<proc, sweep, sup, look, mem, row, child, told, faults>>

Outcome == {"ok", "bad"}                      \* completed, or failed in some way
Phase   == {"none", "starting", "inserted", "driving", "persisting", "done", "stuck", "lost"}
Run     == [at : Phase, by : Owners \cup {None}, kill : BOOLEAN, payload : Outcome \cup {None}]
Status  == {"none", "running", "completed", "failed"}
Row     == [status : Status, owner : Owners \cup {None}, result : Outcome \cup {None}]
Child   == {"none", "unrecorded", "recorded", "exited", "killed"}
Fault   == {"crash", "store", "drain", "cancel"}
Limit   == [f \in Fault |-> CASE f = "crash" -> MaxCrashes [] f = "store" -> MaxStoreFaults
                              [] f = "drain" -> MaxDrainErrors [] f = "cancel" -> MaxCancels]

Init ==
    /\ proc = [o \in Owners |-> "new"]
    /\ sweep = [o \in Owners |-> [todo |-> {}, at |-> None]]
    /\ sup = [o \in Owners |-> [at |-> "open", todo |-> {}]]
    /\ look = [o \in Owners |-> [run |-> None, step |-> "idle"]]
    /\ mem = [r \in Runs |-> [at |-> "none", by |-> None, kill |-> FALSE, payload |-> None]]
    /\ row = [r \in Runs |-> [status |-> "none", owner |-> None, result |-> None]]
    /\ child = [r \in Runs |-> "none"]
    /\ told = [r \in Runs |-> {}]
    /\ faults = [f \in Fault |-> 0]

-----------------------------------------------------------------------------
(* Helpers.                                                                *)

Up(o)      == proc[o] = "up"
Held(r)    == mem[r].by # None /\ Up(mem[r].by) /\ mem[r].at # "lost"
Working(r) == mem[r].at \in {"driving", "persisting"}
Alive(r)   == child[r] \in {"unrecorded", "recorded"}
RunsOf(o)  == {r \in Runs \ Blocking : mem[r].by = o /\ mem[r].at # "lost"}

\* _Run.finished is set by _drive alone
RunningCount(o) == Cardinality({r \in RunsOf(o) : mem[r].at # "done"})

At(r, p)    == mem' = [mem EXCEPT ![r].at = p]
Spend(f)    == faults[f] < Limit[f] /\ faults' = [faults EXCEPT ![f] = @ + 1]
Stopped(r)  == IF Alive(r) THEN [child EXCEPT ![r] = "killed"] ELSE child

\* "orphan" for process o: no owner, or another process of its host
ClassifyOrphanByHost(p, o) == p = None \/ (p # o /\ HostOf[p] # HostOf[o])
ClassifyOrphan(p, o) == p = None \/ (p # o /\ HostOf[p] = HostOf[o])

\* the pid file names the child on the host that started it
KillRecordedNobody(o, r) == child
KillRecorded(o, r) ==
    IF child[r] = "recorded" /\ HostOf[mem[r].by] = HostOf[o]
    THEN [child EXCEPT ![r] = "killed"] ELSE child

(* The UPDATE statements of the run store. With a worker id they only      *)
(* touch a running row of that worker; without one they touch any row.     *)
RecordOwnedAny(r, o, x) ==
    IF row[r].status # "none"
    THEN [row EXCEPT ![r].status = IF x = "ok" THEN "completed" ELSE "failed", ![r].result = x]
    ELSE row
RecordOwned(r, o, x) ==
    IF row[r].status = "running" /\ row[r].owner = o
    THEN [row EXCEPT ![r].status = IF x = "ok" THEN "completed" ELSE "failed", ![r].result = x]
    ELSE row
RecordBlocking(r, x) ==
    [row EXCEPT ![r].status = IF x = "ok" THEN "completed" ELSE "failed",
                ![r].result = IF x = "ok" THEN x ELSE @]
RecordOrphan(r) == [row EXCEPT ![r].status = "failed"]

\* _stored_terminal: the payload if there is one, else the status
StoredOutcome(r) == IF row[r].result # None THEN row[r].result ELSE "bad"

-----------------------------------------------------------------------------
(* Process life.                                                           *)

\* fail_orphaned_runs: list_running, filtered by classify_owner
Start(o) ==
    /\ proc[o] = "new"
    /\ Neighbours \/ \A p \in Owners : HostOf[p] = HostOf[o] => proc[p] \in {"new", "dead"}
    /\ proc' = [proc EXCEPT ![o] = "sweeping"]
    /\ sweep' = [sweep EXCEPT ![o].todo =
                    {r \in Runs : row[r].status = "running" /\ ClassifyOrphan(row[r].owner, o)}]
    /\ UNCHANGED <<sup, look, mem, row, child, told, faults>>

\* the child is killed first, then the row is marked
SweepKill(o, r) ==
    /\ proc[o] = "sweeping" /\ sweep[o].at = None /\ r \in sweep[o].todo
    /\ sweep' = [sweep EXCEPT ![o] = [todo |-> @.todo \ {r}, at |-> r]]
    /\ child' = KillRecorded(o, r)
    /\ UNCHANGED <<proc, sup, look, mem, row, told, faults>>

SweepRecord(o) ==
    /\ proc[o] = "sweeping" /\ sweep[o].at # None
    /\ row' = RecordOrphan(sweep[o].at)
    /\ sweep' = [sweep EXCEPT ![o].at = None]
    /\ UNCHANGED <<proc, sup, look, mem, child, told, faults>>

\* start-up goes on when the sweep raises
SweepRaises(o) ==
    /\ proc[o] = "sweeping" /\ Spend("store")
    /\ proc' = [proc EXCEPT ![o] = "up"]
    /\ sweep' = [sweep EXCEPT ![o] = [todo |-> {}, at |-> None]]
    /\ UNCHANGED <<sup, look, mem, row, child, told>>

Serve(o) ==
    /\ proc[o] = "sweeping" /\ sweep[o] = [todo |-> {}, at |-> None]
    /\ proc' = [proc EXCEPT ![o] = "up"]
    /\ UNCHANGED <<sweep, sup, look, mem, row, child, told, faults>>

\* everything in memory is gone; the children are not
Dies(o) ==
    /\ proc' = [proc EXCEPT ![o] = "dead"]
    /\ sweep' = [sweep EXCEPT ![o] = [todo |-> {}, at |-> None]]
    /\ look' = [look EXCEPT ![o] = [run |-> None, step |-> "idle"]]
    /\ mem' = [r \in Runs |-> IF mem[r].by = o THEN [mem[r] EXCEPT !.at = "lost"] ELSE mem[r]]
    /\ UNCHANGED <<sup, row, child, told>>

Crash(o) ==
    /\ proc[o] \in {"sweeping", "up"} /\ Spend("crash")
    /\ Dies(o)

\* a graceful shutdown closes every session first, and then waits for nothing else
Exit(o) ==
    /\ Up(o) /\ sup[o].at = "closed"
    /\ Dies(o)
    /\ UNCHANGED faults

-----------------------------------------------------------------------------
(* Starting a run.                                                         *)

\* SubagentSupervisor.spawn up to its await: the slot is taken
SpawnOverCap(o, r) ==
    /\ Up(o) /\ sup[o].at = "open" /\ mem[r].at = "none" /\ r \notin Blocking
    /\ RunningCount(o) <= MaxBackground
    /\ mem' = [mem EXCEPT ![r].at = "starting", ![r].by = o]
    /\ UNCHANGED <<proc, sweep, sup, look, row, child, told, faults>>
Spawn(o, r) ==
    /\ Up(o) /\ sup[o].at = "open" /\ mem[r].at = "none" /\ r \notin Blocking
    /\ RunningCount(o) < MaxBackground
    /\ mem' = [mem EXCEPT ![r].at = "starting", ![r].by = o]
    /\ UNCHANGED <<proc, sweep, sup, look, row, child, told, faults>>

\* _tool_task without background: no supervisor, no owner in the row
TaskBlocking(o, r) ==
    /\ Up(o) /\ sup[o].at = "open" /\ mem[r].at = "none" /\ r \in Blocking
    /\ mem' = [mem EXCEPT ![r].at = "starting", ![r].by = o]
    /\ UNCHANGED <<proc, sweep, sup, look, row, child, told, faults>>

Inserted(r) == [row EXCEPT ![r] = [status |-> "running", result |-> None,
                                   owner |-> IF r \in Blocking THEN None ELSE mem[r].by]]

RecordStarted(r) ==
    /\ Held(r) /\ mem[r].at = "starting"
    /\ row' = Inserted(r)
    /\ At(r, "inserted")
    /\ UNCHANGED <<proc, sweep, sup, look, child, told, faults>>

\* the exception leaves spawn; a background run stays in _runs
RecordStartedRaises(r) ==
    /\ Held(r) /\ mem[r].at = "starting" /\ Spend("store")
    /\ At(r, IF r \in Blocking THEN "done" ELSE "stuck")
    /\ UNCHANGED <<proc, sweep, sup, look, row, child, told>>

\* quiesce_active_turn cancels a turn that is inside spawn; the INSERT may still land
SpawnCancelled(r) ==
    /\ Held(r) /\ mem[r].at \in {"starting", "inserted"} /\ r \notin Blocking
    /\ sup[mem[r].by].at = "closed" /\ Spend("cancel")
    /\ At(r, "stuck")
    /\ row' \in IF mem[r].at = "starting" THEN {row, Inserted(r)} ELSE {row}
    /\ UNCHANGED <<proc, sweep, sup, look, child, told>>

Drive(r) ==
    /\ Held(r) /\ mem[r].at = "inserted"
    /\ At(r, "driving")
    /\ UNCHANGED <<proc, sweep, sup, look, row, child, told, faults>>

-----------------------------------------------------------------------------
(* The child and the driver that waits for it.                             *)

\* create_subprocess_exec, then write_subagent_pid
ChildStarts(r) ==
    /\ Held(r) /\ mem[r].at = "driving" /\ child[r] = "none"
    /\ child' = [child EXCEPT ![r] = "unrecorded"]
    /\ UNCHANGED <<proc, sweep, sup, look, mem, row, told, faults>>

PidWritten(r) ==
    /\ Held(r) /\ mem[r].at = "driving" /\ child[r] = "unrecorded"
    /\ child' = [child EXCEPT ![r] = "recorded"]
    /\ UNCHANGED <<proc, sweep, sup, look, mem, row, told, faults>>

ChildExits(r) ==
    /\ Alive(r)
    /\ child' = [child EXCEPT ![r] = "exited"]
    /\ UNCHANGED <<proc, sweep, sup, look, mem, row, told, faults>>

Ends(r, x) == mem' = [mem EXCEPT ![r].at = "persisting", ![r].payload = x]

\* end of the child's output, whatever ended the child
DrainEnds(r) ==
    /\ Held(r) /\ mem[r].at = "driving" /\ child[r] \in {"exited", "killed"}
    /\ \E x \in IF child[r] = "exited" THEN Outcome ELSE {"bad"} : Ends(r, x)
    /\ UNCHANGED <<proc, sweep, sup, look, row, child, told, faults>>

\* kill event: stop_subagent_process, then the drain is cancelled
DriveKilled(r) ==
    /\ Held(r) /\ mem[r].at = "driving" /\ mem[r].kill
    /\ child' = Stopped(r)
    /\ Ends(r, "bad")
    /\ UNCHANGED <<proc, sweep, sup, look, row, told, faults>>

\* the run's timeout, Stop during a blocking run, or a child that cannot be started
DriveTimesOut(r) ==
    /\ Held(r) /\ mem[r].at = "driving"
    /\ child' = Stopped(r)
    /\ Ends(r, "bad")
    /\ UNCHANGED <<proc, sweep, sup, look, row, told, faults>>

\* an exception out of spawn_subagent does not stop the child
DrainRaises(r) ==
    /\ Held(r) /\ mem[r].at = "driving" /\ Alive(r) /\ Spend("drain")
    /\ Ends(r, "bad")
    /\ UNCHANGED <<proc, sweep, sup, look, row, child, told>>

\* _record_terminal, then _drive's finally block
PersistOnlySuccess(r) ==
    /\ Held(r) /\ mem[r].at = "persisting"
    /\ row' = IF mem[r].payload = "ok" THEN RecordOwned(r, mem[r].by, "ok") ELSE row
    /\ At(r, "done")
    /\ UNCHANGED <<proc, sweep, sup, look, child, told, faults>>
Persist(r) ==
    /\ Held(r) /\ mem[r].at = "persisting"
    /\ row' = IF r \in Blocking THEN RecordBlocking(r, mem[r].payload)
                                ELSE RecordOwned(r, mem[r].by, mem[r].payload)
    /\ At(r, "done")
    /\ UNCHANGED <<proc, sweep, sup, look, child, told, faults>>

PersistRaises(r) ==
    /\ Held(r) /\ mem[r].at = "persisting" /\ Spend("store")
    /\ At(r, "done")
    /\ UNCHANGED <<proc, sweep, sup, look, row, child, told>>

-----------------------------------------------------------------------------
(* await_task, kill_task, and the end of the session.                      *)

Tell(r, x) == told' = [told EXCEPT ![r] = @ \cup {x}]

\* await_run of a finished run this process holds
AwaitRun(r) ==
    /\ Held(r) /\ mem[r].at = "done" /\ r \notin Blocking /\ sup[mem[r].by].at = "open"
    /\ Tell(r, mem[r].payload)
    /\ UNCHANGED <<proc, sweep, sup, look, mem, row, child, faults>>

\* _from_store: get_run; a running row is an orphan or is left alone
FromStore(o, r) ==
    /\ Up(o) /\ sup[o].at = "open" /\ look[o].run = None
    /\ r \notin Blocking /\ mem[r].by # o /\ row[r].status # "none"
    /\ \/ /\ row[r].status = "running" /\ ClassifyOrphan(row[r].owner, o)
          /\ look' = [look EXCEPT ![o] = [run |-> r, step |-> "record"]]
          /\ UNCHANGED told
       \/ /\ row[r].status # "running"
          /\ Tell(r, StoredOutcome(r))
          /\ UNCHANGED look
    /\ UNCHANGED <<proc, sweep, sup, mem, row, child, faults>>

FromStoreRecord(o) ==
    /\ look[o].step = "record"
    /\ row' = RecordOrphan(look[o].run)
    /\ look' = [look EXCEPT ![o].step = "kill"]
    /\ UNCHANGED <<proc, sweep, sup, mem, child, told, faults>>

FromStoreKill(o) ==
    /\ look[o].step = "kill"
    /\ child' = KillRecorded(o, look[o].run)
    /\ Tell(look[o].run, "bad")
    /\ look' = [look EXCEPT ![o] = [run |-> None, step |-> "idle"]]
    /\ UNCHANGED <<proc, sweep, sup, mem, row, faults>>

KillTask(r) ==
    /\ Held(r) /\ Working(r) /\ r \notin Blocking /\ ~mem[r].kill /\ sup[mem[r].by].at = "open"
    /\ mem' = [mem EXCEPT ![r].kill = TRUE]
    /\ UNCHANGED <<proc, sweep, sup, look, row, child, told, faults>>

\* aclose: flag every unfinished run; wait for the tasks there are now
AcloseFlagsWaited(o) ==
    /\ Up(o) /\ sup[o].at = "open"
    /\ LET unfinished == {r \in RunsOf(o) : mem[r].at \in {"driving", "persisting"}} IN
       /\ mem' = [r \in Runs |-> IF r \in unfinished THEN [mem[r] EXCEPT !.kill = TRUE] ELSE mem[r]]
       /\ sup' = [sup EXCEPT ![o] = [at |-> "gathering", todo |-> {r \in unfinished : Working(r)}]]
    /\ UNCHANGED <<proc, sweep, look, row, child, told, faults>>
Aclose(o) ==
    /\ Up(o) /\ sup[o].at = "open"
    /\ LET unfinished == {r \in RunsOf(o) : mem[r].at # "done"} IN
       /\ mem' = [r \in Runs |-> IF r \in unfinished THEN [mem[r] EXCEPT !.kill = TRUE] ELSE mem[r]]
       /\ sup' = [sup EXCEPT ![o] = [at |-> "gathering", todo |-> {r \in unfinished : Working(r)}]]
    /\ UNCHANGED <<proc, sweep, look, row, child, told, faults>>

AcloseGathered(o) ==
    /\ Up(o) /\ sup[o].at = "gathering" /\ \A r \in sup[o].todo : mem[r].at = "done"
    /\ sup' = [sup EXCEPT ![o] = [at |-> "recording", todo |-> RunsOf(o)]]
    /\ UNCHANGED <<proc, sweep, look, mem, row, child, told, faults>>

\* a run without a payload is recorded as killed
AcloseRecord(o, r) ==
    /\ Up(o) /\ sup[o].at = "recording" /\ r \in sup[o].todo
    /\ row' = IF mem[r].payload = None THEN RecordOwned(r, o, "bad") ELSE row
    /\ sup' = [sup EXCEPT ![o].todo = @ \ {r}]
    /\ UNCHANGED <<proc, sweep, look, mem, child, told, faults>>

AcloseEnds(o) ==
    /\ Up(o) /\ sup[o] = [at |-> "recording", todo |-> {}]
    /\ sup' = [sup EXCEPT ![o].at = "closed"]
    /\ UNCHANGED <<proc, sweep, look, mem, row, child, told, faults>>

-----------------------------------------------------------------------------
ProcessStep(o) ==
    \/ Start(o) \/ SweepRecord(o) \/ SweepRaises(o) \/ Serve(o) \/ Crash(o) \/ Exit(o)
    \/ FromStoreRecord(o) \/ FromStoreKill(o)
    \/ Aclose(o) \/ AcloseGathered(o) \/ AcloseEnds(o)
RunStep(r) ==
    \/ RecordStarted(r) \/ RecordStartedRaises(r) \/ SpawnCancelled(r) \/ Drive(r)
    \/ ChildStarts(r) \/ PidWritten(r) \/ ChildExits(r)
    \/ DrainEnds(r) \/ DriveKilled(r) \/ DriveTimesOut(r) \/ DrainRaises(r)
    \/ Persist(r) \/ PersistRaises(r) \/ AwaitRun(r) \/ KillTask(r)
Next ==
    \/ \E o \in Owners : ProcessStep(o)
    \/ \E r \in Runs : RunStep(r)
    \/ \E o \in Owners, r \in Runs :
         Spawn(o, r) \/ TaskBlocking(o, r) \/ SweepKill(o, r) \/ FromStore(o, r) \/ AcloseRecord(o, r)

Spec == Init /\ [][Next]_vars

(* The event loop of a live process runs its tasks: a driver sees its kill *)
(* event, store calls return, aclose goes on. Nothing is assumed of the    *)
(* child, which may never exit by itself, of timeouts, or of faults.       *)
FairSpec ==
    /\ Spec
    /\ \A r \in Runs :
          WF_vars(RecordStarted(r) \/ Drive(r) \/ DriveKilled(r) \/ DrainEnds(r) \/ Persist(r))
    /\ \A o \in Owners :
          /\ WF_vars(SweepRecord(o) \/ Serve(o) \/ \E r \in Runs : SweepKill(o, r))
          /\ WF_vars(AcloseGathered(o) \/ AcloseEnds(o) \/ \E r \in Runs : AcloseRecord(o, r))

-----------------------------------------------------------------------------
(* Type invariant of the module: states of processes, supervisors, runs,   *)
(* rows and children, and what each of them may name.                      *)
TypeOK ==
    /\ proc \in [Owners -> {"new", "sweeping", "up", "dead"}]
    /\ sweep \in [Owners -> [todo : SUBSET Runs, at : Runs \cup {None}]]
    /\ sup \in [Owners -> [at : {"open", "gathering", "recording", "closed"}, todo : SUBSET Runs]]
    /\ look \in [Owners -> [run : Runs \cup {None}, step : {"idle", "record", "kill"}]]
    /\ mem \in [Runs -> Run]
    /\ row \in [Runs -> Row]
    /\ child \in [Runs -> Child]
    /\ told \in [Runs -> SUBSET Outcome]
    /\ faults \in [Fault -> Nat]

(* No store call has failed, no child was unreadable and no turn was       *)
(* cancelled inside spawn.                                                 *)
FaultFree == \A f \in Fault \ {"crash"} : faults[f] = 0

(* A running row of a live process has a task that will end it, as long as *)
(* nothing but crashes went wrong: no order                                *)
(* of spawn, aclose, kill and finish leaves the row running with nobody    *)
(* behind it, which await_task would report as running for ever.           *)
RowHasDriver ==
    \A r \in Runs \ Blocking :
        row[r].status = "running" /\ Up(row[r].owner) /\ FaultFree =>
            mem[r].by = row[r].owner /\ mem[r].at \in {"inserted", "driving", "persisting"}

(* Once a gateway serves, no background run of an earlier process of its   *)
(* host is still marked running, wherever that process died, if the store  *)
(* answered.                                                               *)
SweptClean ==
    \A o \in Owners, r \in Runs \ Blocking :
        Up(o) /\ row[r].status = "running" /\ row[r].owner # o /\ FaultFree
            => HostOf[row[r].owner] # HostOf[o]

(* Nor is a child of a process that died with the session open, if its    *)
(* pid had been written and nothing but crashes went wrong: the sweep      *)
(* kills before it records, so that a crash between the two leaves the     *)
(* row for the next sweep.                                                 *)
NoStrayChild ==
    \A o \in Owners, r \in Runs \ Blocking :
        Up(o) /\ child[r] = "recorded" /\ mem[r].by # o /\ HostOf[mem[r].by] = HostOf[o] /\ FaultFree
            => sup[mem[r].by].at # "open"

(* A child does not outlive both its session and its process: a gateway    *)
(* that shut down in order leaves no child behind.                         *)
NoChildOutlivesSession ==
    \A r \in Runs \ Blocking :
        mem[r].by # None /\ proc[mem[r].by] = "dead" /\ sup[mem[r].by].at = "closed" => ~Alive(r)

(* await_task gives one answer about a run: what it reported from memory   *)
(* is what the table says, before and after a restart and on any host, if  *)
(* the store answered.                                                     *)
AwaitIsDurable ==
    FaultFree => \A r \in Runs \ Blocking : \A x \in told[r] :
        row[r].status \in {"completed", "failed"} /\ StoredOutcome(r) = x

(* Two calls of await_task never report different outcomes of one run.     *)
OneAnswer == \A r \in Runs \ Blocking : Cardinality(told[r]) <= 1

(* A row that has an outcome keeps it: a late driver, an aclose and a      *)
(* sweep that race for one row write it once.                              *)
OutcomeFinal ==
    [][\A r \in Runs \ Blocking :
          row[r].status \in {"completed", "failed"} => row'[r] = row[r]]_vars

(* While its process is up and nobody asked to stop it, a run is left      *)
(* alone by every other process: its row keeps its status and its child    *)
(* is not killed.                                                          *)
LiveRunsAreSpared ==
    [][\A r \in Runs :
          Held(r) /\ mem[r].at = "driving" /\ mem'[r].at = "driving" /\ ~mem[r].kill =>
              /\ row'[r].status = row[r].status
              /\ Alive(r) => child'[r] # "killed"]_vars

(* The session never has more than max_background children of one process *)
(* at work, counted as processes of the operating system.                  *)
ChildrenWithinCap ==
    \A o \in Owners : Up(o) => Cardinality({r \in RunsOf(o) : Alive(r)}) <= MaxBackground

(* What the supervisor remembers, the table and the processes agree: every *)
(* running row has a driver and the children keep to the cap               *)
(* (SubagentSupervisor.spawn, _drive).                                     *)
RunsOwned == RowHasDriver /\ ChildrenWithinCap

(* A slot that counts against the cap belongs to a run that is starting or *)
(* has a driver, so that it is free again some day.                        *)
SlotsAreLive ==
    \A o \in Owners : Up(o) /\ sup[o].at = "open" => \A r \in RunsOf(o) : mem[r].at # "stuck"

(* Deleting the session ends its children, the ones whose spawn was still  *)
(* waiting for the table when the session was closed included, unless a    *)
(* fault other than a crash comes in between.                              *)
DeleteKills ==
    \A o \in Owners :
        (Up(o) /\ sup[o].at = "closed") ~>
            (~Up(o) \/ ~FaultFree \/ \A r \in RunsOf(o) : ~Alive(r) /\ mem[r].at = "done")
(* The run table, the children and the answers given agree, wherever a     *)
(* process died.                                                           *)
RunsSafe == RowHasDriver /\ SweptClean /\ NoStrayChild /\ AwaitIsDurable
=============================================================================
