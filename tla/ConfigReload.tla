---------------------------- MODULE ConfigReload ----------------------------
(***************************************************************************)
(* Configuration hot reload beside running turns (gateway/sse/reload.py,   *)
(* core/config/snapshot.py, GatewayRuntime and start_turn of               *)
(* gateway/sse/app.py).                                                    *)
(*                                                                         *)
(* A turn pins its dependencies under the reload lock, in one event-loop   *)
(* step, and reads the memory, the goal ledger and the verdict mailbox     *)
(* later, after it has let the lock go.  A reload keeps the lock through   *)
(* every await: it stages the new slices on a copy of the runtime, waits   *)
(* for idle turns where a shared object is replaced in place, installs the *)
(* copy and commits the snapshot.                                          *)
(*                                                                         *)
(* A configuration is a version number for each Part.  "hot" stands for    *)
(* the keys a turn reads from its pinned snapshot, "computer" for the      *)
(* inspector key that is the only one an admin request may patch in the    *)
(* environment, "memory" for the keys that rebuild the hook manager.       *)
(***************************************************************************)
EXTENDS Naturals, FiniteSets

CONSTANTS Turns,        \* start_turn calls
          MaxEdits,   \* edits of the configuration file and patches
          MaxReloads, \* admin reload requests
          MaxJobs     \* judge and ledger jobs

ASSUME ReloadAssumption == MaxEdits \in Nat /\ MaxReloads \in Nat

Parts == {"hot", "provider", "computer", "memory", "verifier", "mcp"}

VARIABLES disk,       \* what the configuration file says
          pin,        \* the patched environment key: _PINNED_ENV and os.environ
          committed,  \* ConfigStore._current
          revision,   \* its revision
          serving,    \* the slices of gateway_runtime
          memory,     \* fastapi_app.state.memory
          mcp,        \* the shared MCP client: overlay and catalog
          mailbox,    \* verdicts in the mailbox of each verifier built
          working,    \* a judge or ledger job of the serving verifier runs
          judging,    \* jobs so far
          judged,     \* verdicts delivered so far
          closed,     \* verifiers that have been closed
          built,      \* verifiers constructed so far
          reload,     \* the reload that holds the lock
          requests,   \* reload requests so far
          edits,      \* edits so far
          turns       \* what each turn has pinned

judgeVars == <<mailbox, working, judging, judged>>
storeVars == <<committed, revision>>
rlVars == <<disk, pin, storeVars, serving, memory, mcp, judgeVars, closed, built, reload, requests,
            edits, turns>>

Versions == 0..MaxEdits
Configs == [Parts -> Versions]
VerifierObjects == [id : Nat, of : Versions]
Slices == [provider : Versions, inspectors : Versions, guard : VerifierObjects,
           hooks : Versions, observer : VerifierObjects, verifier : VerifierObjects]
NoReload == [phase |-> "free"]
NoPins == [at |-> "new"]
Phases == {"mcp_wait", "mcp_apply", "verifier_wait", "warm", "publish"}

RlTypeOK ==
    /\ disk \in Configs /\ committed \in Configs /\ pin \in Versions /\ memory \in Versions
    /\ revision \in 1..(MaxReloads + 1) /\ judged \in Nat /\ built \in Nat /\ requests \in Nat
    /\ mailbox \in [0..MaxReloads -> Nat] /\ judging \in 0..MaxJobs
    /\ edits \in Versions /\ working \in BOOLEAN
    /\ serving \in Slices /\ closed \subseteq VerifierObjects
    /\ mcp \in [overlay : Versions, catalog : Versions]
    /\ reload = NoReload \/ reload.phase \in Phases
    /\ \A t \in Turns : turns[t].at \in {"new", "wait", "pinned", "running", "over"}

First == [id |-> 0, of |-> 0]

RlInit ==
    /\ disk = [p \in Parts |-> 0] /\ committed = disk /\ pin = 0 /\ revision = 1
    /\ serving = [provider |-> 0, inspectors |-> 0, guard |-> First, hooks |-> 0, observer |-> First,
               verifier |-> First]
    /\ memory = 0 /\ mcp = [overlay |-> 0, catalog |-> 0]
    /\ mailbox = [i \in 0..MaxReloads |-> 0] /\ judging = 0 /\ working = FALSE /\ judged = 0
    /\ closed = {} /\ built = 0
    /\ reload = NoReload /\ requests = 0 /\ edits = 0
    /\ turns = [t \in Turns |-> NoPins]

-----------------------------------------------------------------------------
\* The operator changes some keys of the file.
EditFile ==
    /\ edits < MaxEdits
    /\ \E ps \in SUBSET (Parts \ {"computer"}) \ {{}} :
         disk' = [p \in Parts |-> IF p \in ps THEN edits + 1 ELSE disk[p]]
    /\ edits' = edits + 1
    /\ UNCHANGED <<pin, storeVars, serving, memory, mcp, judgeVars, closed, built, reload,
                   requests, turns>>

\* A turn is admitted and asks for the lock.
StartTurn(t) ==
    /\ turns[t].at = "new"
    /\ turns' = [turns EXCEPT ![t] = [at |-> "wait"]]
    /\ UNCHANGED <<disk, pin, storeVars, serving, memory, mcp, judgeVars, closed, built, reload,
                   requests, edits>>

\* The body of `async with get_reload_lock()` has no await: it is one step.
PinTurn(t) ==
    /\ turns[t].at = "wait" /\ reload = NoReload
    /\ turns' = [turns EXCEPT ![t] = [at |-> "pinned", cfg |-> committed, slices |-> serving]]
    /\ UNCHANGED <<disk, pin, storeVars, serving, memory, mcp, judgeVars, closed, built, reload,
                   requests, edits>>

\* Mutant: the snapshot is read where it is used.
BuildContextLate(t) ==
    /\ turns[t].at = "pinned"
    /\ turns' = [turns EXCEPT ![t] = [at |-> "running", cfg |-> committed, slices |-> @.slices,
                                    memory |-> memory, mailbox |-> serving.verifier, mcp |-> mcp]]
    /\ UNCHANGED <<disk, pin, storeVars, serving, memory, mcp, judgeVars, closed, built, reload,
                   requests, edits>>

\* build_context: what the turn reads after it has released the lock.
BuildContext(t) ==
    /\ turns[t].at = "pinned"
    /\ turns' = [turns EXCEPT ![t] = [at |-> "running", cfg |-> @.cfg, slices |-> @.slices,
                                    memory |-> memory, mailbox |-> serving.verifier, mcp |-> mcp]]
    /\ UNCHANGED <<disk, pin, storeVars, serving, memory, mcp, judgeVars, closed, built, reload,
                   requests, edits>>

\* The turn's hooks hand a job to the tracker's judge or the ledger.  A closed
\* worker takes none.
EnqueueWork(t) ==
    /\ turns[t].at = "running" /\ ~working /\ turns[t].slices.observer \notin closed
    /\ judging < MaxJobs /\ judging' = judging + 1
    /\ working' = TRUE
    /\ UNCHANGED <<disk, pin, storeVars, serving, memory, mcp, mailbox, judged, closed, built,
                   reload, requests, edits, turns>>

\* The finally of start_turn: end_in_flight_turn, whether the turn ran, failed
\* while it was set up, or was cancelled.
EndTurn(t) ==
    /\ turns[t].at \in {"pinned", "running"}
    /\ turns' = [turns EXCEPT ![t] = [at |-> "over"]]
    /\ UNCHANGED <<disk, pin, storeVars, serving, memory, mcp, judgeVars, closed, built, reload,
                   requests, edits>>

\* The job ends with a verdict for the serving mailbox, or without one.
WorkEnds ==
    /\ working /\ working' = FALSE
    /\ \E v \in {0, 1} : mailbox' = [mailbox EXCEPT ![serving.verifier.id] = @ + v] /\ judged' = judged + v
    /\ UNCHANGED <<disk, pin, storeVars, serving, memory, mcp, judging, closed, built, reload,
                   requests, edits, turns>>

-----------------------------------------------------------------------------
InFlight == {t \in Turns : turns[t].at \in {"pinned", "running"}}

\* diff_runtime_configs
DiffKeys(cfg) == {p \in Parts : cfg[p] # committed[p]}

\* _rebuild_live_slices on the staging copy.  The verifier inspector is
\* attached to whichever mailbox the copy has; rebuild_hooks registers the
\* tracker the copy has.
RebuildLiveSlices(cfg, diff) ==
    LET verifier == IF "verifier" \in diff THEN [id |-> built + 1, of |-> cfg["verifier"]]
                    ELSE serving.verifier
        rehook   == diff \intersect {"memory", "verifier"} # {}
    IN [provider   |-> IF "provider" \in diff THEN cfg["provider"] ELSE serving.provider,
        inspectors |-> IF "computer" \in diff THEN cfg["computer"] ELSE serving.inspectors,
        guard      |-> verifier,
        hooks      |-> IF rehook THEN cfg["memory"] ELSE serving.hooks,
        observer   |-> IF rehook THEN verifier ELSE serving.observer,
        verifier   |-> verifier]

\* rebuild_hooks also writes app.state.memory, at once.
StagedMemory(cfg, diff) == IF diff \intersect {"memory", "verifier"} # {} THEN cfg["memory"] ELSE memory

Replaced(staging) == staging.verifier # serving.verifier

\* _install_live_slices, _close_replaced_after_commit and what leads to the
\* commit: the connection of a new provider is warmed first.
Install(r) ==
    /\ serving' = r.staging
    /\ closed' = IF Replaced(r.staging) THEN closed \union {serving.verifier} ELSE closed
    /\ IF "provider" \in r.diff
       THEN reload' = [r EXCEPT !.phase = "warm"] /\ UNCHANGED <<storeVars>>
       ELSE /\ reload' = [r EXCEPT !.phase = "publish"]
            /\ committed' = r.cfg /\ revision' = revision + 1

\* Mutant: app.state.memory is not put back.
AbortStagedMemory(r) ==
    /\ closed' = IF Replaced(r.staging) THEN closed \union {r.staging.verifier} ELSE closed
    /\ memory' = memory
    /\ pin' = r.pin
    /\ reload' = NoReload

\* _abort_staged and the finally of run_config_reload.
AbortStaged(r) ==
    /\ closed' = IF Replaced(r.staging) THEN closed \union {r.staging.verifier} ELSE closed
    /\ memory' = r.memory
    /\ pin' = r.pin
    /\ reload' = NoReload

-----------------------------------------------------------------------------
\* run_config_reload up to its first await: the patch is staged, the snapshot
\* prepared, and slices that need no idle turns are installed in this step.
Prepared(patch) == [disk EXCEPT !["computer"] = patch]

\* ConfigError, a digest that did not change, or a slice that fails to build
\* (the provider, the inspectors and the subagents come before the hooks and
\* the verifier): the patch is rolled back in the same step.
ReloadRefused ==
    /\ reload = NoReload /\ requests < MaxReloads
    /\ requests' = requests + 1
    /\ UNCHANGED <<disk, pin, storeVars, serving, memory, mcp, judgeVars, closed, built, reload,
                   edits, turns>>

\* Only keys a turn reads from its snapshot have changed: commit, no apply.
ReloadHot ==
    /\ reload = NoReload /\ requests < MaxReloads
    /\ requests' = requests + 1
    /\ DiffKeys(Prepared(pin)) = {"hot"}
    /\ committed' = Prepared(pin) /\ revision' = revision + 1
    /\ reload' = [phase |-> "publish"]
    /\ UNCHANGED <<disk, pin, serving, memory, mcp, judgeVars, closed, built, edits, turns>>

\* GatewayRuntime.apply until it first waits.
ReloadApplies ==
    /\ reload = NoReload /\ requests < MaxReloads
    /\ requests' = requests + 1
    /\ \E patch \in {pin, edits} :
         LET cfg == Prepared(patch)
             diff == DiffKeys(cfg)
             staging == RebuildLiveSlices(cfg, diff)
             r == [phase |-> "mcp_wait", cfg |-> cfg, diff |-> diff, staging |-> staging,
                   memory |-> memory, pin |-> pin, overlay |-> mcp.overlay]
         IN /\ diff \ {"hot"} # {}
            /\ pin' = patch
            /\ memory' = StagedMemory(cfg, diff)
            /\ built' = IF Replaced(staging) THEN built + 1 ELSE built
            /\ IF "mcp" \in diff THEN reload' = r /\ UNCHANGED <<serving, storeVars, closed>>
               ELSE IF Replaced(staging)
               THEN /\ reload' = [r EXCEPT !.phase = "verifier_wait"]
                    /\ UNCHANGED <<serving, storeVars, closed>>
               ELSE Install(r)
    /\ UNCHANGED <<disk, mcp, judgeVars, edits, turns>>

\* wait_for_idle_turns returned: the overlay is set, the catalog follows.
McpIdle ==
    /\ reload.phase = "mcp_wait" /\ InFlight = {}
    /\ mcp' = [mcp EXCEPT !.overlay = reload.cfg["mcp"]]
    /\ reload' = [reload EXCEPT !.phase = "mcp_apply"]
    /\ UNCHANGED <<disk, pin, storeVars, serving, memory, judgeVars, closed, built, requests,
                   edits, turns>>

McpApplied ==
    /\ reload.phase = "mcp_apply"
    /\ mcp' = [mcp EXCEPT !.catalog = reload.cfg["mcp"]]
    /\ IF Replaced(reload.staging)
       THEN /\ reload' = [reload EXCEPT !.phase = "verifier_wait"]
            /\ UNCHANGED <<serving, storeVars, closed>>
       ELSE Install(reload)
    /\ UNCHANGED <<disk, pin, memory, judgeVars, built, requests, edits, turns>>

\* The wait ran into IDLE_TURN_WAIT_SEC, or apply_catalog_diff raised after it
\* had changed the catalog or before: the overlay goes back.
McpFails ==
    /\ \/ reload.phase = "mcp_wait" /\ InFlight # {} /\ UNCHANGED mcp
       \/ /\ reload.phase = "mcp_apply"
          /\ \E c \in {mcp.catalog, reload.cfg["mcp"]} :
               mcp' = [overlay |-> reload.overlay, catalog |-> c]
    /\ AbortStaged(reload)
    /\ UNCHANGED <<disk, storeVars, serving, judgeVars, built, requests, edits, turns>>

\* Mutant: the new mailbox starts empty.
VerifierSwapped ==
    /\ reload.phase = "verifier_wait" /\ InFlight = {} /\ ~working
    /\ mailbox' = mailbox
    /\ Install(reload)
    /\ UNCHANGED <<disk, pin, memory, mcp, working, judging, judged, built, requests, edits,
                   turns>>

\* Mutant: the verifier is replaced under running turns.
VerifierReplaced ==
    /\ reload.phase = "verifier_wait" /\ ~working
    /\ mailbox' = [mailbox EXCEPT ![reload.staging.verifier.id] = mailbox[serving.verifier.id]]
    /\ Install(reload)
    /\ UNCHANGED <<disk, pin, memory, mcp, working, judging, judged, built, requests, edits,
                   turns>>

\* The turns are idle and the outgoing ledger and judge have drained: the new
\* mailbox is hydrated from the old one and the copy is installed.
VerifierDrained ==
    /\ reload.phase = "verifier_wait" /\ InFlight = {} /\ ~working
    /\ mailbox' = [mailbox EXCEPT ![reload.staging.verifier.id] = mailbox[serving.verifier.id]]
    /\ Install(reload)
    /\ UNCHANGED <<disk, pin, memory, mcp, working, judging, judged, built, requests, edits,
                   turns>>

\* Mutant: the wait for the old judge and ledger has no timeout.
VerifierWaitsOn ==
    /\ reload.phase = "verifier_wait" /\ InFlight # {}
    /\ AbortStaged(reload)
    /\ UNCHANGED <<disk, storeVars, serving, mcp, judgeVars, built, requests, edits, turns>>

\* One of the three waits timed out.
VerifierTimesOut ==
    /\ reload.phase = "verifier_wait" /\ (InFlight # {} \/ working)
    /\ AbortStaged(reload)
    /\ UNCHANGED <<disk, storeVars, serving, mcp, judgeVars, built, requests, edits, turns>>

\* Mutant: the commit is repeated for each warmed connection.
WarmedAgain ==
    /\ reload.phase = "warm"
    /\ committed' = reload.cfg /\ revision' = revision + 1
    /\ UNCHANGED reload
    /\ UNCHANGED <<disk, pin, serving, memory, mcp, judgeVars, closed, built, requests, edits,
                   turns>>

\* warm_provider_connection returned (it never raises): ConfigStore.commit.
Warmed ==
    /\ reload.phase = "warm"
    /\ committed' = reload.cfg /\ revision' = revision + 1
    /\ reload' = [phase |-> "publish"]
    /\ UNCHANGED <<disk, pin, serving, memory, mcp, judgeVars, closed, built, requests, edits,
                   turns>>

\* ConfigReloaded is on every bus; the lock is released.
Published ==
    /\ reload.phase = "publish"
    /\ reload' = NoReload
    /\ UNCHANGED <<disk, pin, storeVars, serving, memory, mcp, judgeVars, closed, built,
                   requests, edits, turns>>

ReloadStep == McpIdle \/ McpApplied \/ McpFails \/ VerifierDrained \/ VerifierTimesOut \/ Warmed \/ Published

RlNext ==
    \/ EditFile \/ WorkEnds \/ ReloadRefused \/ ReloadHot \/ ReloadApplies
    \/ McpIdle \/ McpApplied \/ McpFails \/ VerifierDrained \/ VerifierTimesOut \/ Warmed \/ Published
    \/ \E t \in Turns : StartTurn(t) \/ PinTurn(t) \/ BuildContext(t) \/ EnqueueWork(t) \/ EndTurn(t)

RlSpec == RlInit /\ [][RlNext]_rlVars

\* Every wait of a reload has a timeout and asyncio.Lock wakes its waiters in
\* order.  Nothing is assumed of how long a turn or a judge job runs.
RlFairness == WF_rlVars(ReloadStep) /\ \A t \in Turns : WF_rlVars(PinTurn(t))

-----------------------------------------------------------------------------
\* A turn works with one revision: the slices it pinned are the ones its
\* snapshot asked for, though reloads replace them while it runs.
PinnedTogether ==
    \A t \in InFlight :
      LET s == turns[t].slices  c == turns[t].cfg
      IN s.provider = c["provider"] /\ s.inspectors = c["computer"] /\ s.hooks = c["memory"]
         /\ s.verifier.of = c["verifier"]

\* The mailbox and the MCP client a turn reads after it has let the reload lock
\* go are those its pinned hooks and inspectors feed, still open, and of its
\* own snapshot: a reload replaces neither while a turn is in flight.
OneVerifierPerTurn ==
    \A t \in InFlight :
      /\ turns[t].slices.observer = turns[t].slices.guard /\ serving.verifier = turns[t].slices.guard
      /\ turns[t].at = "running" => turns[t].mailbox = turns[t].slices.observer
      /\ turns[t].slices.observer \notin closed

\* With no reload under way, the gateway serves the committed snapshot: the
\* slices, the memory and the patched environment follow a commit, and a reload
\* that failed at any point has put them all back.
ServesCommitted ==
    reload = NoReload =>
      /\ serving.provider = committed["provider"] /\ serving.inspectors = committed["computer"]
      /\ serving.hooks = committed["memory"] /\ serving.verifier.of = committed["verifier"]
      /\ memory = committed["memory"] /\ pin = committed["computer"]
      /\ serving.verifier \notin closed

\* A verdict the judge delivered is in the mailbox the gateway serves, however
\* many times the verifier has been replaced.
VerdictsSurvive == mailbox[serving.verifier.id] = judged

\* A failed reload leaves nothing behind: whatever the gateway serves, the MCP
\* client included, is the committed configuration's.
FailedLeavesNothing == reload = NoReload => mcp.overlay = committed["mcp"]

\* The turns that wait for the lock get it, all of them: a reload ends, at the
\* latest by its timeouts, however long the turns it waits for run.
TurnsStart == (\E t \in Turns : turns[t].at = "wait") ~> (\A t \in Turns : turns[t].at # "wait")

\* A reload is all or nothing for the turns and for what is served next, and
\* it loses no verdict.
ReloadSafe == PinnedTogether /\ OneVerifierPerTurn /\ ServesCommitted /\ VerdictsSurvive
=============================================================================
