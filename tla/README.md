# TLA+ models of monkeybot

monkeybot is an agent gateway: a FastAPI process holds chat sessions, runs a model turn per
prompt, executes the tools the model calls, runs subagents in child processes, and wakes sessions
on a schedule. This directory models the parts of it in which several tasks, processes or replicas
act on the same state, checks them with TLC and proves their central invariants with TLAPS.
Paths below are relative to `src/src/monkeybot/` unless they start with `src/`.

## 1. Inventory

| part | state | operations | what is hard | correct when |
|---|---|---|---|---|
| Turn admission (`gateway/sse/routes.py`, `core/runtime/input_admission.py`, `core/persistence/session_turn_locks.py`) | steer and follow-up queues, `current_request_id`, `active_turn_task`, retry task, durable lock row | reply, queue, steer, promote, drop, cancel, drain, retry, wake, tick, DELETE | every drain awaits the lock with a popped prompt in hand; three kinds of drains; replicas share the lock row; claims expire | one turn per session; each accepted prompt is run once or its end is reported; no lock without owner |
| Session events (`gateway/sse/session_bus.py`, `src/cli/src/monkeybot_cli/chat_session.py`) | two replay lanes, subscribers, the client's last id | publish, subscribe, replay, reconnect, restart | frames published while a client reconnects; frames of subagents share the buffer; ids start again after a restart | a client sees every frame that is kept, once and in order |
| Turn loop (`core/runtime/turn_loop.py`, `doom_loop.py`, `core/coding/verification_gate.py`) | held reply, counters of retries, nudges and refusals, cancel event | stream, hold, release, dispatch, nudge, gate, retry, recover, persist | what is decided before a stream is used after it; five reasons to go on | a reply that was shown is stored, guards fire as often as they say, the loop ends |
| Tool batch and questions (`core/runtime/tool_dispatch.py`, `tool_batch.py`, `core/tools/ask_user.py`) | blocks of the chunk and of the batch, allowed calls, pending futures | reject, gate, inspect, confirm, execute, abort, append | Stop, DELETE, the timer and the client end the same wait | one truthful response per call; only approved calls run |
| Files and undo (`core/tools/patch.py`, `change_recorder.py`) | workspace files, records with bodies, set of undone records | write, patch, roll back, record, undo a change or a request | a patch fails half way; later changes, moves and edits of others stand on the one undone | undo restores what was there and touches nothing else |
| Reads before edits (`core/tools/read_ledger.py`, `core_tool_executor.py`) | stamps of the files the model was shown | read, edit, delete, compact | editors, commands and other sessions change files between any two steps | an edit replaces only what the messages show |
| Stored answers (`core/tools/grant_store.py`, `permission.py`, `computer/approvals.py`, `permissions.py`) | file, lock file, cached entries with a stamp, answers a session remembers | add, remove, check, reload | several processes rewrite one file; holders of the lock die; answers are taken back | none is lost, none is used after it was removed |
| MCP connections (`core/mcp/mcp_client.py`) | record, status and catalog entry per server, one task per session | connect, disconnect, enable, disable, reload, shutdown | callers work on one server by name and may be cancelled at any await | what is offered is an open session; none is left open |
| Background commands (`core/tools/terminal.py`, `background_jobs.py`) | registry of jobs, processes, watchers, logs | start, watch, time out, kill, close, read a page | kill, timeout and the end of the process race | outcomes are true; nothing outlives a closed turn; pages are the text |
| History (`core/runtime/history_compaction.py`, `background_summary.py`, `history_rewrite.py`, `core/persistence/branches.py`, `core/messages/tool_integrity.py`) | rows of threads, branch table, a summary prepared in the background | append, compact, rewind, edit, regenerate, restore, activate, repair | a summary meets a history that has grown or was rewritten; branches fork from rows that move | goal and pins kept, pairs not split, every version reachable, requests well formed |
| Goal ledger (`core/verifier/ledger.py`, `core/persistence/goal_ledger.py`) | entries, queue, cached view | admit, classify, commit, prune, drop, copy, clear | a rewrite drops rows that are being classified | the ledger is what the rows that are left imply |
| Verifier (`core/verifier/judge.py`, `mailbox.py`, `tracker.py`) | signals and their epochs, jobs with a budget, verdicts | observe, enqueue, judge, deposit, drain, arm | verdicts are late, superseded or of an ended request | a verdict reaches only the request and signals it is about; the budget is exact |
| Memory outbox (`core/memory/*`, `core/persistence/history.py`) | history, outbox rows with leases, palace | append, claim, file, mark, drain, crash | lost acknowledgements, expired leases, a thread that goes on after a cancel | every message stored once and filed in one palace |
| Memory at a start (`core/memory/migrate_layout.py`, `migrate_embedding.py`, `palace.py`, `core/layout.py`) | old and new directory, `monkeybot.yaml`, name of the embedder, id of the palace, three locks | move, merge, rewrite, rename, open, create the id | two processes start at once and either dies between two steps | no file is lost, names agree, one id |
| Reload (`gateway/sse/app.py`, `reload.py`, `core/config/snapshot.py`) | committed and staged configuration, live slices, pins of turns | prepare, stage, wait, install, commit, abort | turns run meanwhile; some step fails | a turn sees one configuration; a failure puts the slices back |
| Realtime calls (`gateway/realtime/*`, `core/runtime/realtime_loop.py`, `utterance_buffer.py`) | slots, claims, utterance buffer, state of the call, idle deliveries | connect, speak, type, interrupt, handle a turn, run its tools, close | two tasks store turns from one buffer; the call may end at every await | every text stored once, every tool call answered, slots and marks exact |
| Scheduler (`scheduler/engine.py`, `core/persistence/scheduled_loops.py`) and goals (`core/goals/service.py`) | loop rows with claim, counters, status; worker polls; tick tasks | claim, renew, release stale, defer, complete, pause, resume, stop | workers crash or stall, claims go stale, edits race with ticks | every tick accounted for; limits hold; claims end |
| Subagent runs (`core/subagents/supervisor.py`, `core/persistence/durable_runs.py`, `core/subprocess_groups.py`) | runs in memory, run table, pid files, child processes | spawn, drive, persist, kill, await, aclose, startup sweep | crashes between any two of memory, table, child; two processes on one table | an outcome is final; no child or row is left behind; the cap holds |

Interaction: an HTTP handler, a drain or the scheduler takes the durable lock and starts a turn
task; the turn pins the live slices of the configuration, runs its loop and in it tool batches; a
batch waits for the client through the session bus, and its tools write files, start background
commands, connect MCP servers and spawn runs in the supervisor; rows go to the history and the
outbox, rows of the user also to the ledger; a finished background run calls back (`on_wake`) and
becomes a harness prompt of the queue; DELETE walks through all of them (`_detach`,
`quiesce_active_turn`, `aclose`, spill cleanup). A voice call is a second way in, which excludes
history rewrites by its claim.

`PROJECT.json` lists all components, with the reason where one is not modelled, and the hazards at
their lines.

## 2. Modules

| module | models |
|---|---|
| `Sublists` | list comprehensions and sorted lists, as operators on positions (`Sublist`, `Ascending`) that proofs can follow |
| `InputAdmission` | the two queues of `input_admission.py` as operators on one record |
| `SessionTurns` | one session: handlers, drains, retry and wake tasks, ticks, foreign lock holders, DELETE |
| `FollowUpLifecycle` | abstract: what the queue promises about one prompt; `SessionTurns` implements it with `fate` |
| `EventDelivery` | abstract: frames of two lanes, each client is given the next one it has not had |
| `EventStream` | the bus, its buffers and the reconnecting client; implements `EventDelivery` |
| `TurnLoop` | the inner turns of one message, with the doom loop tracker and the verification gate |
| `HistoryRows` | operators on a list of rows: split, pins, pairs, rebuild, truncation |
| `ThreadHistory` | a thread with its background summary, inline compaction and truncation, on `HistoryRows` |
| `HistoryBranches` | the versions of a chat: rows shared between threads, branch table, navigator |
| `ToolIntegrity` | strip, coalesce and repair of every small stored history |
| `GoalLedger` | the classifying worker and the rewrites |
| `ToolBatch` | one batch of tool calls and its questions |
| `FileChanges` | patches, records and undo |
| `ReadLedger` | one file between reads, edits and the changes of others |
| `Grants` | one file of stored answers, its writers, the reader and the sessions of one gateway |
| `MCPConnections` | one server of the MCP client and its callers |
| `BackgroundJobs` | the commands of one turn and the pages of a log |
| `MemoryOutbox`, `Verifier`, `ConfigReload` | the services beside the turns |
| `PalaceStartup` | the processes that start on one agent directory |
| `RealtimeCall` | the connections of one session and the call in progress |
| `ScheduledLoops` | loop table, worker polls, tick tasks, goal service calls |
| `SubagentRuns` | processes of several hosts, their supervisors, the run table, child processes |
| `MCSessionTurns`, `MCScheduledLoops`, `MCSubagentRuns` | instances for TLC: definitions for constants, symmetry sets, constraints |
| `MCTools`, `MCGateway`, `MCConversation` | instances of several modules that share no variable |
| `SublistProofs` | what `Sublist` and `Ascending` return, for lists of any length |
| `AdmissionProofs`, `SessionTurnsProofs` | the queues and fates, then the lock, the turn and the spill of `SessionTurns` |
| `ScheduledLoopsProofs`, `SubagentRunsProofs` | the loop table; the run table, children and slots |
| `ToolsProofs`, `ConversationProofs`, `GatewayProofs` | parts of the three composed modules |

An atomic step is what one asyncio task does between two awaits; a statement of the store and the
resumption of its caller are two steps where something can happen in between. Data is reduced to what the properties
tell apart: prompts are ids with a provenance, a lock claim is an id and a stale bit, time is "due",
"stale" or "expired", a list of response blocks is a count per call, a file body or a digest is one
of a few values, an embedding is its drawer.

The three composed modules have a variable `part` that is chosen once and names the module that
moves; the variables of the others stay. Their states are the sum of those of the parts, and
their fairness is that of each part, under `part = ...`. What the parts exchange is an input of each (the
end of a job for `TurnLoop`, the verdict of the inspectors for `ToolBatch`, an idle gateway for a
reload), so every part is checked against all its environments.

**SessionTurns.** `pc[p]` is the place of process `p` in its coroutine: `acq`/`got`/`denied` around
`try_acquire` of a handler, `drainAcq`/`drainGot`/`drainDenied` around the one of `_drain_follow_up`,
`sched` and `turn` for a task that is created and that runs, `rel`/`relDone` in its `finally`.
`fate` and `ranAs` are history variables. Assumed: request ids are unique, a database is configured,
its calls do not fail, a deleted session id is not created again, and one wake stands for one batch
of finished runs.

**EventStream.** `publish_data` gives a frame the next id and puts it in one of two lanes of bounded
length; `_merged_replay` gives a new subscriber what is above its `Last-Event-ID`. The client is the
loop of `chat_session.py`: frames, a lost connection at any place, a reconnect that may fail, a new
session when the old one is unknown. `EventDelivery` promises that a client is given frames in order,
none twice, and misses only those a full lane has pushed out or a restart has lost.

**TurnLoop.** One message from `loop.run` to its end. `hold` says why the reply that streams is held,
decided before it does; `running` jobs end, the Stop arrives and the provider fails at any time.
What the tools did (edits, checks, nothing) is an input. The counters are the ones of the code.

**ThreadHistory, HistoryBranches, ToolIntegrity.** A row has an id and what the split looks at (who,
visible or not, pinned, calls, answers, weight), what it `says`, its media and, when they are frozen, what
they are described as (`about`). A summary records the ids it stands for, so
`CompactionSafe` can say that no row is lost or told twice. A job is fresh when the rows it read still say the same
(`Same`): the code compares `Message`s, and `row_id` takes no part in that. So a user who rewinds and sends the same text
again makes an old job fresh, and the rows it read, with their ids, take the place of the new ones; `twins` remembers which
(section 5). Ids of tool calls are unique, so no request says what another one says. The end of a turn freezes the media of every row
that has some left, also those of turns that were stopped. A response weighs more than other rows. In `ToolIntegrity` a result may
lack the name of its tool; it takes it from a request with its id, and an orphan that stays without a name is left
in its message unpaired (`core/messages/tool_integrity.py:145`), the one exception `WireSound` makes. Branches are threads that share rows by
id; `AllReachable` says that from every version the navigator leads to every other.

**ToolBatch.** Init picks every batch of `N` calls: their kinds (`task`, parallel-safe, serial,
`ask_user`), the verdict of the first inspector that does not simply allow, and whether the stream
was truncated. Call ids are unique; tools return; the ring of ended keys is unbounded; the append of
the row does not fail; clients post to the route the question came with. When the timer and an
answer are ready in one pass of the event loop, either may win, since this depends on the asyncio version.

**FileChanges.** `tree` maps paths to bodies, `log` is the record file of the session. A patch is a
sequence of one or two hunks of all kinds; a failure may strike each operation, and each path of the
rollback. `outside` remembers which bodies no tool wrote: undo without force must spare them.

**Grants.** A writer takes the lock file (`open`, or `unlink` when it has seen a stale one), reads,
writes and releases; the gateway `Agent` also checks, and its check takes the stamp and loads in two steps.
`store` picks the file, whose code differs: `approvals.py` reads an unreadable file as empty, and its
reader makes the session forget. The lock of a live holder does not age: it is held for milliseconds and
is stale after five seconds.

**ReadLedger.** A call reads or edits in two steps, since `stamp_of` is taken after the body was read or
written. `shown` is what the messages of the model say is in the file; `excused` marks the changes
no stamp can tell. A read of some lines counts as one of the file, as in the code.

**MCPConnections.** A session opens and closes in a task of its own; `calls[c]` is the place of a
caller. `races` remembers which overlaps there were, for the conditions under which the properties hold.

**BackgroundJobs.** A job has a status (what the model is told), a process, a watcher and whether a
kill was asked for. The log is read only in behaviours with one job (`Alone`), since jobs share no log.

**GoalLedger.** One thread. `gen` and `droppedRows` are the marks that make queued jobs stale, a
rewrite waits in `Drain` for an idle worker or until the classifier has taken too long.

**RealtimeCall.** `task["provider"]` and `task["client"]` are the two tasks of a call; each may be
inside `_handle_assistant_boundary`. The provider is external: it sends what `gemini_live.py` maps,
in any order. `MaxInputs` bounds texts, deltas, calls, interrupts and errors together.

**MemoryOutbox.** The append is one transaction whose acknowledgement may be lost; writers claim rows
with a lease, file them in an upsert thread that a cancellation does not stop, and mark them.

**PalaceStartup.** The steps of `bootstrap_agent_layout` and of the first `MemPalaceAdapter`, in their order;
`new[f]` tells a copied file from one that is half copied, `yaml.torn` the time between truncation and
write. The old memory has no palace in it; a truncated configuration names the default embedder. `hit` remembers
what the code does not guard against, for the conditions under which the properties hold.

**Verifier.** Signals have epochs, jobs and verdicts carry the ones they were made for; the mailbox,
the judge and the loop that drains are separate actors.

**ConfigReload.** The sequence of `run_config_reload` and `GatewayRuntime.apply` with every wait and
every failure, beside turns that pin slices and work that is queued on them.

**ScheduledLoops.** Rows, worker polls (`release`, `list`, `claim`), tick tasks (`waiting` for the
semaphore, `check` of the session, `invoke`, `turn`, and the write of the outcome). The heartbeat is shorter than the stale
window, so a claim with a beating heartbeat does not go stale unless its worker died; but a renewal that
raises ends the heartbeat for the rest of the tick (`HeartbeatFails`), and then the claim of a live worker goes stale.

**SubagentRuns.** An owner is one life of a gateway process; restarts are new owners of the same
host. Budgets (`MaxCrashes`, `MaxStoreFaults`, `MaxDrainErrors`, `MaxCancels`) bound the faults.
`Neighbours` allows two live processes on one host.

## 3. Runs

A property that is a conjunction is named for what it promises; its parts are defined next to it.

| run | instance | shows |
|---|---|---|
| `turns_queue` | two prompts, a tick, a wake, a foreign holder, queue bound 1 | `LockInv`, `TurnExclusion`: one turn at a time under an own fresh claim; `AdmissionSafe`: no leaked lock, each prompt in one place |
| `turns_delete` | a reply that may not parse, a prompt, a wake, DELETE; fair | `SpillQuiet`: spill removed only in quiet; `LifecycleSpec`: the refinement; `AcceptedSettles` |
| `turns_lost` | a reply, two prompts | violation: a cancelled retry loses its prompt |
| `loops_loop` | a loop and a goal (one of them in use, `OneRow`), two workers, crash, edits, two goal calls, busy session | `ClaimIsActive`, `TicksAccounted`, `LimitsHold` |
| `loops_live` | a goal, two workers, one crash; fair | `ClaimsEnd`, `OnlyResumeReopens` |
| `runs_restart` | one run, three processes of one host, one of another, two crashes, a store fault, an unreadable child | `RunsSafe` (table, children and answers agree), `OutcomeFinal`, `LiveRunsAreSpared` |
| `runs_cap` | three runs of which one blocks, one slot, a store fault, a cancelled turn; fair | `RunsOwned` (no row without driver, cap), `DeleteKills` |
| `runs_neighbour` | two live processes on one host | violation: a live run is swept |
| `tools_calls` | `MCTools` | batch: `BatchSettles`, `HonestResponses`, `OnlyApprovedRun`, `StopHolds`, `StopEnds`; files and reads: `FilesSafe`; stored answers: `GrantsSafe`; MCP and commands: `OutlivesSafe` |
| `conversation_rows` | `MCConversation` | loop: `LoopSafe`, `Terminates`; history: `CompactionSafe`, `GoalAndPinsKept`; versions: `AllReachable`; repair: `WireSound`; ledger: `LedgerSafe` |
| `gateway_services` | `MCGateway` | events: `ImplementsDelivery`; outbox and start: `MemorySafe`; reload: `ReloadSafe`; verifier: `VerdictsSafe`; calls: `RealtimeSafe`; all that must happen: `ServicesProgress` |
| `realtime_twice` | one call, four inputs | violation: words of the user stored twice |

Bounds. Two prompts are enough for two drains to hold one each; one more prompt changes which of
them waits, not how. A queue bound of 1 makes the full queue happen. Two workers give the claimer
and the one who takes over; a third is symmetric to the second. `OneRow` explores the loop and the
goal in separate behaviours, since rows of different loops meet only in the semaphore: either is edited twice, so that
a pause is followed by a resume, or loses a worker; the goal is claimed twice, so that both ticks may fail and
reach the limit of two errors, beside an edit and late goal calls. Two crashes reach a crash of the process that recovers from a crash.
Two calls reach a chunk of two, two chunks, and one call that is done while the other is asked for.
Two records reach a change under a later one, a move of a changed file and a patch of two hunks;
`Large` is empty since a large body only makes undo refuse. Two callers of the MCP client besides the batch, the reload
and the shutdown reach every pair; two sessions reach the old and the new one. Three jobs with a cap
of two reach the full registry and a close that waits for one while another ends; pages of two bytes
cut a character of two. Three rows of the ledger reach an entry that is related to one that is dropped and a prune. A lane of two
frames overflows with four; three lost connections reach a second loss during replay. One message with two writers and
two palaces reaches a late mark after a hand-over. Two reloads reach one on top of a failed one. Two gateways, a settings window and
two changes of two entries reach a lost update and a revoke beside an addition; five changes of one
file and two compactions reach a stale read after every kind of change; two starts, one death and one
disk error reach every pair of steps with a failure in between. One signal with two epochs reaches its return. Two connections reach the slot, the claim and a lingering
handler of the one before; three inputs reach an interrupted turn that is followed by another. Six to eight row ids reach a tail,
a prefix, a pair across the cut and a summary of a summary; rows 2 and 5 say the same, which reaches a rewind after which the
same text is sent again under a pending job, and row 3 carries media when it is of the user or a tool response.
The theorems of section 4 lift most of the safety properties to all sizes.

Deadlock is not checked where the system may rest (all prompts settled, all runs over, batch over,
no more inputs).

Fairness is weak and only on steps the event loop or a timer takes by itself: resuming a ready
coroutine, a turn or a tool that returns, a timer that fires, a poll of a live worker, a claim or a lease that
ages, a client program that reads what it is sent, a waiting reload. No action of a person is fair, and nothing of a dead process is. `AcceptedSettles` and `ClaimsEnd`
therefore say that the code makes progress without anybody's help; that turns and tools return is an
assumption about the provider and tools. `loops_live` has a second worker and at most one crash:
when all workers are gone nothing releases a claim. `ServicesProgress` has three parts: a client that
stays connected catches up; an outbox row is filed or dead-lettered as long as some writer with its
palace runs; a turn behind the reload lock starts.

Refinement. `SessionTurns` implements `FollowUpLifecycle` (`LifecycleSpec`), `EventStream` implements
`EventDelivery` (`ImplementsDelivery`): the abstract next id is that of the bus, the kept frames those of
the lanes, and a client's position the last id it has read.

Mutants: each property has small changes of mapped definitions (a dropped guard, a missing reset, a
swapped order), each marked `Mutant` next to the definition it changes; for every part of a
conjunction there is one that breaks it, or one of the part's neighbours.

## 4. Theorems

All proved for every value of the constants, from the `ASSUME`s of the modules; further hypotheses
are named. The assumptions say that placeholders are none of the values they stand for (`NoReq`,
`Nobody`, `Unbound`, `NoStart`, `NoEpisode`, `None`), that bounds are natural numbers,
that the sets of processes, requests and callers are disjoint, that a server may have a session, and that the caps of the
background commands are not zero and a page has room for a character. TLC evaluates them in every run.

Each proof has an inductive invariant, which was first checked with TLC as an invariant of the run,
a lemma per action, and a theorem that combines them. What the invariants add to the
properties, and why they need it:

* `SublistProofs`: a list comprehension returns the elements at the kept positions, in order, each
  once. `Sublist` picks the k-th kept position by counting the smaller ones instead of
  recursing; that there is such a position follows from the least number of a set, so no induction over lists is needed.
  These are lemmas about the operator, for the proofs of the theorems below.
  `AscendingJoined` says what `Ascending` returns for two sets of which one lies above the other.
* `AdmissionProofs`. `AdmInv`: every id is in one place (`Once`, `OnceFrom` of the queues, `Sound` for
  the prompts in the hands of drains and for those a turn has promoted), and what is booked has a
  fate that allows it. It holds whatever expires or is deleted (`BooksSafety`). On it rests the step simulation of
  `FollowUpLifecycle`: the history variable `fate` is the abstract state (`LifecycleRefinement`).
* `SessionTurnsProofs`: `TurnExclusion` is not inductive, because a turn is started by whoever took
  the lock for it. `LockInv` covers the stretch from `try_acquire` to `release`: the holder's claim is
  fresh, carries the id under which it will be released, and there is one holder. `SeatInv` relates
  `current` and `active` to the places of the coroutines and to the stages of a DELETE. Hypotheses:
  `~LiveTurnsExpire` (turns end within the stale window) for `LockSafety` and `ExclusionSafety`; also `BadBodies = {}`
  (replies parse) for `AdmissionSafety`, and `TickReqs = {}` (DELETE does not wait for ticks) for
  `SpillSafety`. For each hypothesis, section 5 has the run that fails without it.
* `ScheduledLoopsProofs`: `LimitsHold` speaks of active rows, but a paused row becomes active without
  a check, so the invariant bounds paused and not yet created rows too (`Below`). `ClaimIsActive`,
  `OnlyResumeReopens` and the types follow by the same case analysis over the store's statements.
  `TicksAccounted` is a balance (`Budget`): turns run and still to run, per loop, are at most the ticks
  of the row, the claim in hand and the claims that were lost; each step of a task moves one unit.
* `SubagentRunsProofs`: the sweep and `await_task` write without a condition. `OutcomeFinal` holds
  because (`SweepOK`, `LookOK`) every such write in flight is about a row of a dead owner of the
  same host, and (`OneProcess`) one process per host is alive. `Agreement` adds what a run without a store
  fault has in its row (`RunsSafety`), `CapInv` that a live child has a slot and that the slots of an owner are
  within the cap (`OwnedSafety`). Hypothesis: `Neighbours = FALSE`; for `OwnedSafety` also
  `MaxDrainErrors = 0` (the output of children can be read), for `SpareSafety` `Blocking = {}`.
* `ToolsProofs`, the batch: the invariant says for each place of the batch which calls have a block
  (`Counted`), which are in flight (`Executed`), that blocks are truthful (`Said`), who waits for a
  question (`Waiting`) and what the event leaves (`Stopped`). All safety properties of the batch
  follow, for batches of any length; `BatchSafety` puts three of them together. The stored answers
  (`GrantsSafety`): `SectionOK` and `ReadOK` give one writer in the locked section, whose copy is the file, unless
  a lock was stolen; stamps grow, so a stamp that matches is one of the same contents (`StampsOK`).
  Reads before edits (`EditSafety`): `LdInv` says at each place of a call that what the guard lets through is `Informed`.
  A server (`ServerSafety`): a session that is not told to stop belongs to one caller or is installed (`McpOwned`); only a
  handshake beside another one, or beside an installed session, breaks that there is one caller at work (`McpCounted`,
  `McpAlone`), and then status and entry follow the caller (`McpShown`, `McpFresh`). Background commands (`JobsSafety`): `Closing` says
  which jobs `aclose` has still to come to, `Reading` that the cursor of a log is not within a character unless its rest can no
  longer be written; the pages then add up by `AscendingJoined`. `OutlivesSafety` puts the last two into `ToolsSpec`.
  Files (`ChangesSafety`): `FcInv` has little beyond types (a recorded move has something to move, to another path,
  `MoveFits`); the work is in what a patch, a rollback, a selection and the chains of an undo compute, which
  are recursive functions. `Counting` is induction up to a number, from the least-number principle, `Recursion` that such a
  function exists. A rollback leaves each path it can write as it was, by the first operation that touched it
  (`FirstTouch`, `RollBackRestores`); `SelectionCloses` says what is undone with a selection; `GroupFits` that every
  change of it is in one chain unless a file was moved over its path, `GroupPlain` that without a tangle a chain is one move or the
  changes of one path in their order; so each path has one chain to restore it (`UndoRestoresFirst`). `FilesSafety`
  puts this and `EditSafety` into `ToolsSpec`, `ToolsTypes` the types of all parts, with the bounds.
* `ConversationProofs`: `LoopInv` ties the place in the loop to the reply (`Held`, `KeptSoFar`): what was
  shown before the end of an inner turn is either stored or still in hand; `Streak` is what the doom-loop tracker has seen of
  the calls so far. Hypothesis: `MaxTurns > 0`, without which a message ends in silence (section 5).
  `LedgerSafety`: `LedgerInv` has the order of rows in queue and ledger (`InOrder`), so what a rewrite cuts is an end and the
  status of an entry depends on later ones only; a job in hand is stale or its row is in the history (`WorkerCurrent`), an entry
  may be of a dropped row only until the rewrite cuts it (`EntriesSpared`); unless a rewrite was hasty it has the ledger to
  itself (`Alone`), so entries read for a view are the stored ones (`SeenFresh`).
  `CompactionSafety` and `PinsSafety`: `HistInv` says of the rows that they are in order, cover apart and keep pairs
  side by side (`Sound`), and where every id is (`Accounted`: `Replaced` are those whose row gave way to an equal one); of a job, that
  it summarizes the middle of a prefix it read, whatever has become of that prefix since: all responses to requests in it are
  in it (`JobFits`, `NoLate`), and the rows behind its cut are later ones (`OnlyLater`); and of an inline summarizer that the
  rows are as it read them (`AwaitInv`). When the job is applied the proof goes in two steps: the rows that say the same give way to the copies, which
  keeps order, pairs and the account (`Swapped`, `SwappedSound`, `SwappedUntorn`, `SwappedAccounted`), and then the summary takes the place of the
  middle, as for an inline one (`CompactionHist`). That requests and summaries are equal only if they are one row (`SameRow`) is
  what keeps a pair together. `SplitFits` says where head
  and tail of a split lie: a tail never begins with a response, because `TailStart` goes back to the request.
  `ConversationTypes` adds the branches: the list of recently used ones names every opened branch once, without a gap in
  the numbers (`Listed`), so the length of the list is a number no branch has yet (same hypothesis on `MaxTurns`).
* `GatewayProofs`, one part per module:
  `ReloadSafety` (`StagingOK`: what a reload would put back is what was committed; `PinsOK`: a pin names a
  configuration that was installed; `VerifiersOK`: a verifier a turn uses is not closed);
  `OutboxSafety` (`HandlesOK`: a handle in a writer is a row it has or had; `FiledOK`, `OwnedOK`: what an upsert
  thread may still file goes to the palace of the row; `LeaseHasHolder`); `StartupSafety` (`Exclusive`: the locked sections, unless
  a lock was taken from a live process; `MergesOK`, `MovedOK`: a note is in the old directory until it is
  whole in the new one; `NamedOK`, `RenamedOK`, `IdsOK`), both joined in `MemorySafety`;
  `DeliveryRefinement` (`RingsOK`: a ring is sorted, and a frame that is not in it has as many newer ones of
  its lane as the ring holds; `ClientsOK`: the frames between the last one read and the next one in the queue were
  pushed out; then every step of the bus and of a client is one of `EventDelivery` or a stutter), with the hypothesis that
  there is no restart or one client, see section 5;
  `VerdictsSafety` (`JobsOK`: a job is the one of its checkpoint, since `emitted` is set once per provider
  call; `BooksOK` counts them; `VerdictsOK`, `NudgeOK`: what waits in the mailbox for the open request has an episode to be
  compared with; `ReplansOK`: a replan that was taken stays armed);
  `RealtimeSafety` (`ManagerInv`: slots and registration follow the connections; `TaskInv`: where the tasks may be, and that
  a turn in the provider's task keeps another from beginning; `UserPlaces`, `SpokenPlaces`: a text is in the buffer, on the
  way to the store in one task, or in one row; `ToolPlaces`: a stored tool call is in hand, unlucky, or answered, and
  its results are the last row that names it).

Only model-checked:

* liveness (`AcceptedSettles`, `ClaimsEnd`, `DeleteKills`, `StopEnds`, `Terminates`, `ServicesProgress`):
  fairness and `ENABLED` are outside what the provers do;
* the type invariant `GatewayTypeOK`, which the invariants above contain only where a proof needs it;
* `AllReachable` and `WireSound`.

The library's induction theorems take an operator as a parameter, which the provers cannot instantiate; so what the
folds of `ToolIntegrity` compute is checked over all small inputs. Where a definition counts positions (`Sublists`) or is a
recursive function over `0..n` (`FileChanges`), the least-number principle takes the place of induction.

## 5. Findings and further divergences

`PROJECT.json` "findings" has the three disagreements with a run of their own: a follow-up lost with
a cancelled retry, a second process sweeping live runs, and the words of a user who is still speaking
stored by every turn that ends meanwhile.
The models show more. Those of the first table are reproduced by giving the named constants these values in the cfg of a
run of the same module and checking the named property; a row with `FcSpec` or `RlSpec` runs the module of the part by itself
(`FileChanges`, `ConfigReload`), with its constants from the run that composes it.

| what the code does | where | reproduce |
|---|---|---|
| A prompt whose retry fires during a scheduled tick waits for an unrelated later turn (ticks do not drain) | `gateway/sse/routes.py:273` | `QueueReqs={q1}`, `TickReqs={t1}`, others empty, `FairSpec`: `AcceptedSettles` |
| A wake requeued behind a held lock comes back as human input | `gateway/sse/routes.py:316` | `ReplyReqs={r1}`, `WakeReqs={w1}`, `Foreign={f1}`: `WakeIsNotHuman` |
| A reply that does not parse keeps the lock until it is stale | `gateway/sse/routes.py:756` | `ReplyReqs=BadBodies={r1}`: `LockHasOwner` |
| A turn longer than the stale window loses exclusion | `core/persistence/session_turn_locks.py:44` | `ReplyReqs={r1}`, `QueueReqs={q1}`, `LiveTurnsExpire=TRUE`: `TurnExclusion` |
| DELETE does not wait for a tick before it removes the spill | `gateway/sse/session_bus.py:252` | `TickReqs={t1}`, `Deletes=TRUE`: `SpillQuiet` |
| After a restart another client creates the session again; the first one reconnects with an id above all new ones and skips frames | `gateway/sse/session_bus.py:233` | `Clients={c1, c2}`: `ImplementsDelivery` |
| `max_ticks` is exceeded by a pause and a resume during a tick, which clear its claim | `core/persistence/scheduled_loops.py:674` | `Loops={k1}`, `Goals={}`, `MaxEdits=2`: `HardTickGuard` |
| A stopped loop can be paused, resumed and run | `core/persistence/scheduled_loops.py:674` | `Loops={k1}`, `Goals={}`, `MaxEdits=3`: `StopIsPermanent` |
| A pause does not hold a tick that is claimed and waits | `scheduler/engine.py:257` | `Loops={k1}`, `Goals={}`: `PauseHolds` |
| A goal that ends during `GoalService.pause` becomes paused | `core/goals/service.py:133` | `Loops=Goals={g1}`, `Admins={a1,a2}`, `MaxClaims=2`: `GoalDoneIsFinal` |
| A blocking task's row has no owner and any starting host fails it | `core/tools/core_tool_executor.py:2183` | `Owners={o1,o3}`, `Runs=Blocking={r1}`: `LiveRunsAreSpared` |
| A spawn whose INSERT fails keeps its slot | `core/subagents/supervisor.py:203` | `MaxStoreFaults=1`: `SlotsAreLive` |
| An unreadable child is reported finished and left running | `core/tools/core_tool_executor.py:500` | `Runs={r1,r2}`, `MaxBackground=1`, `MaxDrainErrors=1`: `ChildrenWithinCap` |
| A failed write of an outcome gives two answers across a restart | `core/subagents/supervisor.py:416` | `Owners={o1,o2}`, `MaxStoreFaults=1`, `MaxCrashes=1`: `OneAnswer` |
| A spawn waiting for the table outlives `aclose` | `core/subagents/supervisor.py:294` | `Owners={o1}`, `Runs={r1}`: `NoChildOutlivesSession` |
| A Stop that names an earlier turn cancels the questions of the present one without setting its event, and the batch, with its completed results, is thrown away | `gateway/sse/routes.py:1098` | drop `\/ strayed` from `LeavesOnlyOnDelete` |
| `ask_user` called after a Stop waits without limit | `core/tools/ask_user.py:71` | drop the exception from `StopEnds` |
| `MAX_TURNS=0` is accepted, and every message then ends without reply or error | `core/runtime/loop_usage.py:41` | `ConversationSpec`, `MaxTurns=0`: `EndsAnswered` |
| A reload whose second wait times out is reported as failed and leaves the MCP client on the new configuration | `gateway/sse/app.py:691` | `RlSpec`, `Turns={t1}`, `MaxEdits=1`, `MaxReloads=2`, `MaxJobs=1`: `FailedLeavesNothing` |
| Undo of an edit and a move of one file writes its first body where the file was moved to and leaves its path empty, against line 438: "Restore each path to the earliest pre-image in the selection." | `core/tools/change_recorder.py:744` | `FcSpec`, `MaxRecords=2`: `UndoRestores` |
| A file moved to a path that has a chain of changes drops the chain: those changes are neither undone nor marked undone | `core/tools/change_recorder.py:744` | `FcSpec`, `Paths={p,q,x}`, `Present={p,x}`, `MaxRecords=5`: drop `~MovedOver(Chosen(s))` from `UndoIsSuffix` |
| Undo of two moves, of `p` to `q` and then of `x` to `p`, restores `p` and then trashes it as the target of the second | `core/tools/change_recorder.py:607` | `FcSpec`, `Paths={p,q,x}`, `Present={p,x}`: drop `~Tangled(Chosen(s))` from `UndoExact` |
| Undo of a move without force overwrites a file that was made at its source since | `core/tools/change_recorder.py:607` | drop the last disjunct of `UndoSparesOutside` |
| Two connects of one server that overlap leave the session of the first open, with no record | `core/mcp/mcp_client.py:754` | drop `"connects" \in races` from `NoLeak` |
| A Stop while a remote browser is being stopped leaves the session open, with no record | `core/mcp/mcp_client.py:1005` | drop `cutShort` from `NoLeak` |
| A reload whose teardown of a server raises leaves it shown as connected | `core/mcp/mcp_client.py:1677` | drop `"raised"` from `StatusTrue` |
| A server whose entry is removed while another caller connects it stays connected, outside the catalog | `core/mcp/mcp_client.py:1212` | drop `"entry"` from `EntryFresh` |
| After a rewrite that did not wait for the classifier the cached view may show dropped entries until the next row | `core/verifier/ledger.py:527` | drop `~hasty` from `ViewFresh` |
| An entry whose successor was pruned becomes active, not superseded, when a rewrite touches it | `core/verifier/ledger.py:79` | drop `~pruned` from `StatusesImplied` |
| A pending summary survives a rewind after which the same text comes again: it counts the new rows as read, and the deleted ones it did read come back in their place, so that the id of a row changes, which `core/llm/provider.py:23` calls the "Stable id of the stored history row" | `core/runtime/background_summary.py:88` | drop the term of `twins` from `RowsAccounted` |
| A client lost between the slot and `accept` keeps the slot | `gateway/realtime/routes.py:886` | drop `count.slots` from `SlotsExact` |
| A frame about killed jobs that cannot be sent leaves the turn marked in flight; reloads time out from then on | `gateway/realtime/routes.py:503` | drop `count.marks` from `InFlightExact` |
| Two waiters that judge a dead holder's lock: the second removes the first one's fresh lock and an answer is lost | `core/tools/grant_store.py:89`, `computer/approvals.py:85` | `GrantsKept` with the guard `"lost" \notin spoilt` |
| `approvals.py` reads an unreadable file as empty and the next answer overwrites it; `grant_store.py` refuses | `computer/approvals.py:153` | `GrantsKept` with the guard `"stolen" \notin spoilt` |
| A removal in the settings is heard only by the chat whose check reloads the file: other chats, and every chat after a new inspector, go on remembering | `computer/permissions.py:125` | drop `\ deaf` from `RevokeHeard` |
| A file that changes between its read and its stamp, or within a tick at the same size, may be overwritten unseen; so may one whose read an edit of the chat has dropped | `core/tools/core_tool_executor.py:1653` | drop `excused` from `EditsAreInformed` |
| A move of the old memory that meets a directory another start has just made ends up inside it | `core/memory/migrate_layout.py:235` | drop `hit.beaten` from `NotesFound` |
| A migration lock older than five minutes is taken from a live process, and one of the two removes the old files while the other still copies them | `core/memory/migrate_layout.py:152` | drop `hit.slow` from `NotesKept` |
| `monkeybot.yaml` is rewritten in place: a start beside it reads an empty file, or puts an old embedder name back | `core/memory/migrate_layout.py:90` | drop `hit.clobbered` or `hit.halfRead` from `IdentityFollows` |
| A death between truncation and write leaves the configuration empty | `core/memory/migrate_layout.py:90` | drop `hit.deaths > 0` from `YamlWhole` |
| A start that skips the held embedding lock is refused by the palace, or gives a new palace the old name, so that others are refused | `core/memory/migrate_embedding.py:257` | drop `ps[p].skipped` or `hit.mislabelled` from `Opens` |

Seen while modelling, without a property of their own:

* `core/runtime/turn_loop.py`: a reply released together with the error about background jobs is shown
  and not stored, against the comment at line 1443 ("Persist already-streamed assistant output so
  Stop/errors keep model context."); the comment at line 1819 says "Post-tool silence: keep retrying
  until the turn budget", the code retries once.
* `gateway/sse/app.py`: `rebuild_hooks` writes `app.state.memory` while the reload is still staged; a turn
  pinned before it can read the staged memory.
* `core/memory/migrate_embedding.py:211` says that a palace with a legacy identity "still opens once config
  says minilm"; `_check_embedder_identity` (`core/memory/palace.py:209`) compares the names and raises.
* `core/tools/grant_store.py:94`: the wait for the lock sleeps on the event loop of the gateway, for up to five seconds.
* `core/tools/patch.py`: the rollback of a binary file writes text decoded with replacements.
* Realtime: tool calls of a turn the provider has interrupted raise in `transition` (`gateway/realtime/session.py:174`);
  they are neither stored nor answered. The event an interrupt frame sets is never cleared and is shared with the context, so later
  subagents of the call start cancelled (`src/docs/deploy-pattern-d-realtime.md:307`: "No mid-tool
  interruption. Once a tool call is dispatched, it runs to completion."); an interrupt during an elicitation ends the
  call; the client's handler may set "listening" while the provider's tools run; a second typed text, or
  an end of the audio stream, before the reply replaces the first text, which is never stored; the close
  waits for the first cancelled task only; rows of an interrupted fragment may land after later ones;
  the state "thinking" is never entered.
* Background commands: `aclose` reports a job that exited while it closed another as killed; an `aclose`
  that is cancelled leaves the other jobs to their timeouts; a start that is cancelled leaves a running
  job without process until the turn closes; a descendant that writes after the exit of the command can
  have its last character cut.

## 6. Not modelled

* Providers, prompt and context assembly, hooks, text matching of patches, reads and searches, terminal and sandbox, OAuth,
  attachments, transcripts, the terminal interface of the client, the browser server, the actions of computer use, logs and the regression
  tools under `src/regression`: input and output, parsing and formatting, without state shared between actors.
* The Postgres and Firestore stores as separate implementations; only the Postgres transaction with a lost acknowledgement
  is in `MemoryOutbox`. (Firestore claims pending rows first and releases expired ones after.)
* `SessionTurns`: the content of prompts; comment frames of the bus. `ToolBatch`: MCP elicitations, budgets of results.
* `TurnLoop`: errors of the store at the end of a message, token accounting, secret scanning.
* `ConfigReload`: a request for a reload that is cancelled, an MCP file that stays invalid, the live slices of voice calls,
  the reply without a bound runtime, a mailbox the new configuration turns off.
* `HistoryBranches`: the cut of a loaded history at its limit, a crash between the copy of a prefix and the row of its branch.
* `Verifier`: the caps of the mailbox and their evictions, the spend ratio, the prompts of the classifiers.
* `ToolIntegrity`: ids repeated within one run of assistant rows.
* `FileChanges`: eviction of old bodies at the cap of all sessions, notes, binary bodies, an undo that an error of the disk stops.
* `Grants`: the rules of the inspectors and their patterns, folders above the one asked for, entries the parser skips.
* `PalaceStartup`: the allowlist and the example configuration (rewritten like `monkeybot.yaml`), a palace inside the old memory,
  several agents at once, a file system on which a move is a copy.
* `MCPConnections`: the calls of tools, OAuth, several servers (they meet only in the batch and the shutdown).
* `GoalLedger`: constraints and their sources, the cap on threads, the hand-over of the view at a reload, rows not from a person.
* `RealtimeCall`: partial transcripts, boundaries of the user (`gemini_live.py` sends none), a failed idle flush, metering.
* `SubagentRuns`: renewal and listing of stale claims, which nothing calls; the lines of the child's protocol.
* `ScheduledLoops`: deletion of loops, rates and cron expressions (a row is due or not).

## 7. Plan

Done: who may run a turn; the scheduler and the subagents that compete with it; the batch inside a
turn and what its tools do; the loop and the history around it; the services beside it; voice calls.

Left, in this order:

1. Theorems: `AllReachable`, `WireSound`.
2. The rules of the inspectors, as the source of the verdicts `ToolBatch` takes as input.
3. A composition of `TurnLoop`, `ToolBatch` and `InputAdmission` with shared variables, one call per batch.
