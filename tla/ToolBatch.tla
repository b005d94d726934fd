------------------------------ MODULE ToolBatch ------------------------------
(***************************************************************************)
(* One batch of tool calls of a model turn (core/runtime/tool_dispatch.py  *)
(* and tool_batch.py) with the questions it puts to the user: the          *)
(* confirmation of a call and the ask_user tool wait on a future of the    *)
(* session bus, and a POST of the client, a timer, the Stop button, the    *)
(* DELETE of the session and the hard cancellation of the turn compete to  *)
(* end the wait.  The batch has to put one response for every call into    *)
(* the history, whatever happens.                                          *)
(*                                                                         *)
(* Everything runs on one event loop: a step is what a task does between   *)
(* two awaits at which others can run.  A list of response blocks is kept  *)
(* as the number of blocks per call id; arguments, results and events are  *)
(* left out.                                                               *)
(***************************************************************************)
EXTENDS Integers, FiniteSets

CONSTANTS N,          \* calls in the batch
          Kinds,      \* kinds of tools that occur in it
          Verdicts,   \* what the inspectors may say of a call
          Conc        \* _parallel_tool_concurrency

ASSUME BatchAssumption ==
    /\ N \in Nat \ {0} /\ Conc \in Nat \ {0}
    /\ Kinds \subseteq {"task", "safe", "serial", "ask"}
    /\ Verdicts \subseteq {"allow", "deny", "confirm", "unparsed"}

Calls == 1..N

VARIABLES
    kind, verdict, truncated,   \* the batch: never changes
    pc,          \* where dispatch_tool_batch stands
    at,          \* the next call to gate
    allowed,     \* allowed_exec of the chunk
    inChunk,     \* chunk_responses: blocks per call
    inBatch,     \* all_tool_responses: blocks per call
    says,        \* what the last block of a call tells the model
    ran,         \* the execution of a tool
    fut,         \* the future registered for a call
    keys,        \* bus.pending_responses
    ended,       \* bus.terminated_pending_keys
    expired,     \* the timer of the confirm wait has fired
    event,       \* turn_cancel_event is set
    wanted,      \* cancel_requested_for is this turn
    strayed,     \* a Stop meant for an earlier turn has come in
    session,     \* the DELETE of the session
    history,     \* blocks per call in the history row
    answer,      \* the answers a client was told were accepted (202)
    spared       \* calls past their check when the event was set

batch == <<kind, verdict, truncated>>
place == <<pc, at, allowed>>
blocks == <<inChunk, inBatch, says, history>>
bus == <<keys, ended, fut, answer>>
cancel == <<event, wanted, strayed, spared, session>>
vars == <<batch, place, blocks, ran, bus, expired, cancel>>

Nothing == [c \in Calls |-> 0]
Over == {"done", "dead"}

Init ==
    /\ kind \in [Calls -> Kinds] /\ verdict \in [Calls -> Verdicts]
    /\ truncated \in BOOLEAN
    /\ pc = "start" /\ at = 1 /\ allowed = {}
    /\ inChunk = Nothing /\ inBatch = Nothing /\ history = Nothing
    /\ says = [c \in Calls |-> "nothing"] /\ ran = [c \in Calls |-> "no"]
    /\ fut = [c \in Calls |-> "none"] /\ answer = [c \in Calls |-> {}]
    /\ keys = {} /\ ended = {} /\ expired = FALSE
    /\ event = FALSE /\ wanted = FALSE /\ strayed = FALSE /\ spared = {} /\ session = "open"

-----------------------------------------------------------------------------
(* The pending responses of the bus.                                       *)

RegisterPending(c) ==
    /\ fut' = [fut EXCEPT ![c] = "pending"]
    /\ keys' = keys \cup {c}
    /\ UNCHANGED <<ended, answer>>

\* Mutant: the future is completed but its key stays registered.
ResolvePendingKeepsKey(c, a) ==
    /\ c \in keys /\ fut[c] = "pending"
    /\ fut' = [fut EXCEPT ![c] = "answered"]
    /\ answer' = [answer EXCEPT ![c] = @ \cup {a}]
    /\ UNCHANGED <<keys, ended>>

ResolvePending(c, a) ==
    /\ c \in keys /\ fut[c] = "pending"
    /\ fut' = [fut EXCEPT ![c] = "answered"]
    /\ answer' = [answer EXCEPT ![c] = @ \cup {a}]
    /\ keys' = keys \ {c} /\ ended' = ended \cup {c}

AbandonPendingTimeout(c) ==
    /\ fut' = [fut EXCEPT ![c] =
                  IF c \in keys /\ @ = "pending" THEN "cancelled" ELSE @]
    /\ keys' = keys \ {c}
    /\ ended' = ended \cup ({c} \cap keys)
    /\ UNCHANGED answer

AbandonPendingCancelAll ==
    /\ fut' = [c \in Calls |->
                  IF c \in keys /\ fut[c] = "pending" THEN "cancelled" ELSE fut[c]]
    /\ keys' = {} /\ ended' = ended \cup keys
    /\ UNCHANGED answer

-----------------------------------------------------------------------------
(* Gating: the chunks and the inspectors.                                  *)

\* _chunk_tool_calls: maximal runs of task calls, maximal runs of
\* parallel-safe calls, every other call by itself.
NewChunk(c) ==
    c = 1 \/ kind[c] \notin {"task", "safe"} \/ kind[c] # kind[c - 1]

\* Where the batch goes after call c: to the next of its chunk, or on to
\* execute the chunk.
After(c) == IF c = N \/ NewChunk(c + 1) THEN "gated" ELSE "gate"

Goto(where) == pc' = where /\ UNCHANGED <<at, allowed>>

\* finish_tool and the append of its block to chunk_responses.
Finished(said) ==
    /\ inChunk' = [c \in Calls |-> inChunk[c] + IF c \in DOMAIN said THEN 1 ELSE 0]
    /\ says' = [c \in Calls |-> IF c \in DOMAIN said THEN said[c] ELSE says[c]]

\* The call at hand is refused with an error result.
Refuse(what) ==
    /\ Finished([c \in {at} |-> what])
    /\ pc' = After(at) /\ at' = at + 1
    /\ UNCHANGED <<allowed, inBatch, history>>

Allow ==
    /\ allowed' = allowed \cup {at}
    /\ pc' = After(at) /\ at' = at + 1
    /\ UNCHANGED blocks

RejectBatch ==
    truncated \/ \A c \in Calls : verdict[c] = "unparsed"

\* _emit_rejected_batch, when the stream was cut or no call parses.
Reject ==
    /\ pc = "start" /\ RejectBatch
    /\ inBatch' = [c \in Calls |-> 1]
    /\ says' = [c \in Calls |-> "rejected"]
    /\ Goto("append")
    /\ UNCHANGED <<batch, inChunk, history, ran, bus, expired, cancel>>

Begin ==
    /\ pc = "start" /\ ~RejectBatch
    /\ Goto("chunk")
    /\ UNCHANGED <<batch, blocks, ran, bus, expired, cancel>>

\* The top of the loop over chunks.
NextChunk ==
    /\ pc = "chunk"
    /\ Goto(IF at > N THEN "append" ELSE IF event THEN "settle" ELSE "gate")
    /\ UNCHANGED <<batch, blocks, ran, bus, expired, cancel>>

\* Mutant: the event is looked at only between chunks.
GateCallUnchecked ==
    /\ pc = "gate"
    /\ IF verdict[at] = "unparsed"
       THEN Refuse("error")
       ELSE Goto("inspect") /\ UNCHANGED blocks
    /\ UNCHANGED <<batch, ran, bus, expired, cancel>>

\* The top of the loop over the calls of a chunk.
GateCall ==
    /\ pc = "gate"
    /\ IF ~event /\ verdict[at] = "unparsed"
       THEN Refuse("error")
       ELSE Goto(IF event THEN "settle" ELSE "inspect") /\ UNCHANGED blocks
    /\ UNCHANGED <<batch, ran, bus, expired, cancel>>

\* _resolve_inspector_decision up to its result or its question.
Inspect ==
    /\ pc = "inspect"
    /\ \/ verdict[at] = "allow" /\ Allow /\ UNCHANGED bus
       \/ verdict[at] = "deny" /\ Refuse("denied") /\ UNCHANGED bus
       \/ /\ verdict[at] = "confirm"
          /\ RegisterPending(at) /\ Goto("confirm") /\ UNCHANGED blocks
    /\ expired' = FALSE
    /\ UNCHANGED <<batch, ran, cancel>>

\* The wait returns the payload of the client.  When the timer has fired as
\* well, which of the two wins depends on the asyncio version.
ConfirmAnswered ==
    /\ pc = "confirm" /\ fut[at] = "answered"
    /\ IF "yes" \in answer[at] THEN Allow ELSE Refuse("denied")
    /\ UNCHANGED <<batch, ran, bus, expired, cancel>>

\* Mutant: a wait that times out lets the call through.
ConfirmTimesOutAllows ==
    /\ pc = "confirm" /\ expired
    /\ AbandonPendingTimeout(at)
    /\ Allow
    /\ UNCHANGED <<batch, ran, expired, cancel>>

ConfirmTimesOut ==
    /\ pc = "confirm" /\ expired
    /\ AbandonPendingTimeout(at)
    /\ Refuse("denied")
    /\ UNCHANGED <<batch, ran, expired, cancel>>

\* Mutant: any cancelled wait is re-raised.
StoppedNever(c) == FALSE

\* confirm_wait_stopped_by_user
StoppedByUser(c) == event /\ c \notin keys /\ c \in ended

\* A Stop settles the batch; any other cancellation leaves it.
ConfirmCancelled ==
    /\ pc = "confirm" /\ fut[at] = "cancelled"
    /\ Goto(IF StoppedByUser(at) THEN "settle" ELSE "dead")
    /\ UNCHANGED <<batch, blocks, ran, bus, expired, cancel>>

-----------------------------------------------------------------------------
(* Execution of the allowed calls of a chunk.                              *)

\* Mutant: the blocks of a chunk are not taken over.
MergeLost ==
    /\ inChunk' = Nothing
    /\ UNCHANGED inBatch

\* all_tool_responses.extend(chunk_responses)
Merge ==
    /\ inBatch' = [c \in Calls |-> inBatch[c] + inChunk[c]]
    /\ inChunk' = Nothing

NothingAllowed ==
    /\ pc = "gated" /\ allowed = {}
    /\ Merge /\ Goto("chunk")
    /\ UNCHANGED <<batch, says, history, ran, bus, expired, cancel>>

Parallel ==
    \/ \A c \in allowed : kind[c] = "task"
    \/ Cardinality(allowed) > 1 /\ \A c \in allowed : kind[c] = "safe"

ExecuteSerial ==
    /\ pc = "gated" /\ allowed # {} /\ ~Parallel
    /\ ran' = [c \in Calls |-> IF c \in allowed THEN "running" ELSE ran[c]]
    /\ Goto("executing")
    /\ UNCHANGED <<batch, blocks, bus, expired, cancel>>

ExecuteParallel ==
    /\ pc = "gated" /\ allowed # {} /\ Parallel
    /\ ran' = [c \in Calls |-> IF c \in allowed /\ ~event THEN "queued" ELSE ran[c]]
    /\ Goto(IF event THEN "settle" ELSE "executing")
    /\ UNCHANGED <<batch, blocks, bus, expired, cancel>>

\* A task of _run_parallel gets the semaphore.
ToolStarts(c) ==
    /\ ran[c] = "queued"
    /\ Cardinality({d \in Calls : ran[d] = "running"}) < Conc
    /\ ran' = [ran EXCEPT ![c] = "running"]
    /\ UNCHANGED <<batch, place, blocks, bus, expired, cancel>>

ToolEnds(c) ==
    /\ ran[c] = "running" /\ kind[c] # "ask"
    /\ \E how \in {"done", "failed"} : ran' = [ran EXCEPT ![c] = how]
    /\ UNCHANGED <<batch, place, blocks, bus, expired, cancel>>

\* ask_user publishes its question and waits without a time limit.
Ask(c) ==
    /\ ran[c] = "running" /\ kind[c] = "ask"
    /\ RegisterPending(c)
    /\ ran' = [ran EXCEPT ![c] = "asking"]
    /\ UNCHANGED <<batch, place, blocks, expired, cancel>>

AskReturns(c) ==
    /\ ran[c] = "asking" /\ fut[c] # "pending"
    /\ ran' = [ran EXCEPT ![c] = IF fut[c] = "answered" THEN "done" ELSE "cancelled"]
    /\ UNCHANGED <<batch, place, blocks, bus, expired, cancel>>

\* Mutant: the results of an aborted chunk are dropped.
ChunkReturnsAllOrNone ==
    LET back == {c \in allowed : ran[c] \in {"done", "failed"}}
        kept == IF back = allowed THEN back ELSE {}
    IN
    /\ pc = "executing"
    /\ \A c \in allowed : ran[c] \in {"done", "failed", "cancelled"}
    /\ Finished([c \in kept |-> IF ran[c] = "done" THEN "result" ELSE "error"])
    /\ Goto(IF back = allowed /\ session # "cancelled" THEN "merge" ELSE "settle")
    /\ UNCHANGED <<batch, inBatch, history, ran, bus, expired, cancel>>

\* Every tool of the chunk has returned or was cancelled: the results of the
\* others are kept also when the chunk is aborted.
ChunkReturns ==
    LET back == {c \in allowed : ran[c] \in {"done", "failed"}} IN
    /\ pc = "executing"
    /\ \A c \in allowed : ran[c] \in {"done", "failed", "cancelled"}
    /\ Finished([c \in back |-> IF ran[c] = "done" THEN "result" ELSE "error"])
    /\ Goto(IF back = allowed /\ session # "cancelled" THEN "merge" ELSE "settle")
    /\ UNCHANGED <<batch, inBatch, history, ran, bus, expired, cancel>>

MergeChunk ==
    /\ pc = "merge"
    /\ Merge /\ pc' = "chunk" /\ allowed' = {}
    /\ UNCHANGED <<batch, at, says, history, ran, bus, expired, cancel>>

-----------------------------------------------------------------------------
(* The end of the batch.                                                   *)

\* Mutant: a cancel envelope for every call without a block of an earlier
\* chunk, also for the ones of this chunk.
FillAbortTwice ==
    /\ inBatch' = [c \in Calls |-> inChunk[c] + IF inBatch[c] = 0 THEN 1 ELSE inBatch[c]]
    /\ says' = [c \in Calls |-> IF inBatch[c] = 0 THEN "cancelled" ELSE says[c]]

\* _fill_abort_tool_responses
FillAbort ==
    LET got(c) == inBatch[c] + inChunk[c] IN
    /\ inBatch' = [c \in Calls |-> IF got(c) = 0 THEN 1 ELSE got(c)]
    /\ says' = [c \in Calls |-> IF got(c) = 0 THEN "cancelled" ELSE says[c]]

Settle ==
    /\ pc = "settle"
    /\ FillAbort /\ inChunk' = Nothing
    /\ Goto("append")
    /\ UNCHANGED <<batch, history, ran, bus, expired, cancel>>

\* _append_budgeted_tool_responses: one row for the whole batch.
AppendRow ==
    /\ pc = "append"
    /\ history' = inBatch
    /\ Goto("done")
    /\ UNCHANGED <<batch, inChunk, inBatch, says, ran, bus, expired, cancel>>

-----------------------------------------------------------------------------
(* The client, the timer, the Stop button and the DELETE of the session.   *)

Active == pc \notin Over

\* POST tool-confirmations and ask-user: accepted, or 409 and nothing done.
Post(c, a) ==
    /\ session = "open"
    /\ (a = "text") <=> (ran[c] = "asking")
    /\ ResolvePending(c, a)
    /\ UNCHANGED <<batch, place, blocks, ran, expired, cancel>>

\* PENDING_RESPONSE_TIMEOUT_SEC passes.
TimerFires ==
    /\ pc = "confirm" /\ ~expired
    /\ expired' = TRUE
    /\ UNCHANGED <<batch, place, blocks, ran, bus, cancel>>

SetEvent ==
    /\ event' = TRUE
    /\ spared' = IF event THEN spared
                 ELSE {c \in Calls : c < at \/ (c = at /\ pc \in {"inspect", "confirm"})}

\* POST /cancel for this turn, and for one that is over.
Stop ==
    /\ session = "open" /\ Active
    /\ SetEvent /\ wanted' = TRUE
    /\ AbandonPendingCancelAll
    /\ UNCHANGED <<batch, place, blocks, ran, expired, strayed, session>>

StaleStop ==
    /\ session = "open" /\ Active
    /\ wanted' = FALSE /\ strayed' = TRUE
    /\ AbandonPendingCancelAll
    /\ UNCHANGED <<batch, place, blocks, ran, expired, event, spared, session>>

\* DELETE: _detach, then quiesce_active_turn.
Detach ==
    /\ session = "open" /\ Active
    /\ session' = "detached"
    /\ AbandonPendingCancelAll
    /\ UNCHANGED <<batch, place, blocks, ran, expired, event, wanted, strayed, spared>>

Quiesce ==
    /\ session = "detached"
    /\ session' = "quiesced" /\ wanted' = TRUE
    /\ UNCHANGED <<batch, place, blocks, ran, bus, expired, event, strayed, spared>>

\* _watch_cancel
Watch ==
    /\ wanted /\ ~event /\ Active
    /\ SetEvent
    /\ UNCHANGED <<batch, place, blocks, ran, bus, expired, wanted, strayed, session>>

InFlight == {c \in Calls : ran[c] \in {"queued", "running", "asking"}}

\* Mutant: a turn that was asked to stop is not cancelled as well.
HardCancelUnasked ==
    /\ session = "quiesced" /\ Active /\ ~event
    /\ session' = "cancelled"
    /\ Goto("dead")
    /\ UNCHANGED <<batch, blocks, ran, bus, expired, event, wanted, strayed, spared>>

\* The quiesce timeout: the turn task is cancelled at its await.  While it
\* waits for tools they are cancelled with it and the batch settles; anywhere
\* else the cancellation leaves the batch.
HardCancel ==
    /\ session = "quiesced" /\ Active
    /\ session' = "cancelled"
    /\ IF pc = "executing" /\ (Parallel \/ InFlight # {})
       THEN /\ ran' = [c \in Calls |-> IF c \in InFlight THEN "cancelled" ELSE ran[c]]
            /\ fut' = [c \in Calls |-> IF ran[c] = "asking" /\ fut[c] = "pending"
                                       THEN "cancelled" ELSE fut[c]]
            /\ UNCHANGED place
       ELSE /\ Goto(IF pc = "confirm" /\ StoppedByUser(at) THEN "settle" ELSE "dead")
            /\ UNCHANGED <<ran, fut>>
    /\ UNCHANGED <<batch, blocks, keys, ended, answer, expired, event, wanted, strayed, spared>>

-----------------------------------------------------------------------------
Gate ==
    \/ Reject \/ Begin \/ NextChunk \/ GateCall \/ Inspect
    \/ ConfirmAnswered \/ ConfirmTimesOut \/ ConfirmCancelled

Execute ==
    \/ NothingAllowed \/ ExecuteSerial \/ ExecuteParallel
    \/ ChunkReturns \/ MergeChunk \/ Settle \/ AppendRow

Tool(c) == ToolStarts(c) \/ ToolEnds(c) \/ Ask(c) \/ AskReturns(c)

Client ==
    \/ \E c \in Calls, a \in {"yes", "no", "text"} : Post(c, a)
    \/ Stop \/ StaleStop \/ Detach

Next ==
    \/ Gate \/ Execute \/ \E c \in Calls : Tool(c)
    \/ Client \/ TimerFires \/ Quiesce \/ Watch \/ HardCancel

Spec == Init /\ [][Next]_vars

\* The event loop runs what is ready, tools return, timers fire.
Fairness ==
    /\ WF_vars(Gate) /\ WF_vars(Execute) /\ \A c \in Calls : WF_vars(Tool(c))
    /\ WF_vars(TimerFires) /\ WF_vars(Quiesce) /\ WF_vars(Watch) /\ WF_vars(HardCancel)

FairSpec == Spec /\ Fairness

-----------------------------------------------------------------------------
(* Properties.                                                             *)

\* Types of the variables; no list of blocks holds two blocks of one call.
TypeOK ==
    /\ kind \in [Calls -> Kinds] /\ verdict \in [Calls -> Verdicts]
    /\ truncated \in BOOLEAN
    /\ pc \in {"start", "chunk", "gate", "inspect", "confirm", "gated",
               "executing", "merge", "settle", "append"} \cup Over
    /\ at \in 1..(N + 1) /\ allowed \subseteq Calls
    /\ inChunk \in [Calls -> 0..1] /\ inBatch \in [Calls -> 0..1]
    /\ history \in [Calls -> 0..1]
    /\ says \in [Calls -> {"nothing", "result", "error", "denied", "rejected",
                           "cancelled"}]
    /\ ran \in [Calls -> {"no", "queued", "running", "asking", "done", "failed",
                          "cancelled"}]
    /\ fut \in [Calls -> {"none", "pending", "answered", "cancelled"}]
    /\ answer \in [Calls -> SUBSET {"yes", "no", "text"}]
    /\ keys \subseteq Calls /\ ended \subseteq Calls /\ spared \subseteq Calls
    /\ expired \in BOOLEAN /\ event \in BOOLEAN /\ wanted \in BOOLEAN
    /\ strayed \in BOOLEAN
    /\ session \in {"open", "detached", "quiesced", "cancelled"}

\* The row a batch leaves in the history has exactly one response block for
\* every call the model made, whatever was denied, cancelled or left out:
\* providers refuse a history in which the counts differ
\* (dispatch_tool_batch, _fill_abort_tool_responses).
OneResponseEach == pc = "done" => \A c \in Calls : history[c] = 1

\* The history tells the truth: a tool that returned is reported with its own
\* result, also when a Stop cut the batch short, and a call reported as
\* denied, rejected or not executed had no complete execution
\* (_execute_parallel_chunk, _fill_abort_tool_responses).
HonestResponses ==
    pc \in {"append", "done"} =>
        \A c \in Calls :
            /\ ran[c] = "done" <=> says[c] = "result"
            /\ ran[c] = "failed" => says[c] = "error"
            /\ says[c] \in {"denied", "rejected"} => ran[c] = "no"
            /\ says[c] = "cancelled" => ran[c] \in {"no", "cancelled"}

\* A call for which the inspectors want a confirmation runs only after the
\* user approved this call, and a call they deny or that does not parse never
\* runs: no timeout, Stop or DELETE that ends the wait lets it through
\* (_resolve_inspector_decision, _gate_chunk_calls).
OnlyApprovedRun ==
    \A c \in Calls : ran[c] # "no" =>
        \/ verdict[c] = "allow"
        \/ verdict[c] = "confirm" /\ "yes" \in answer[c]

\* Once the cancel event is set no call starts that had not passed its check
\* before (_gate_chunk_calls, _execute_parallel_chunk).
StopHolds ==
    [][\A c \in Calls : ran[c] = "no" /\ ran'[c] # "no" /\ event => c \in spared]_vars

\* A Stop never throws a batch away: a batch of an open session settles, and no
\* wait that is cut short takes the results of the tools that already ran with
\* it.  The exception is a Stop that names an earlier turn: post_cancel cancels
\* the questions of the present turn without setting its event
\* (the except clause of _gate_chunk_calls, confirm_wait_stopped_by_user).
LeavesOnlyOnDelete == pc = "dead" => session # "open" \/ strayed

\* When a batch of an open session is over no question is left registered
\* that a client could answer to nobody
\* (abandon_pending_timeout, abandon_pending_cancel_all).
NoOrphanQuestion == pc \in Over /\ session = "open" => keys = {}

\* A batch that is over has left everything in order, in every interleaving of
\* answers, the timer, Stop and DELETE: one response per call in the history,
\* no question without a waiter, and no batch lost but to a DELETE
\* (dispatch_tool_batch).
BatchSettles == OneResponseEach /\ NoOrphanQuestion /\ LeavesOnlyOnDelete

\* A Stop ends the batch, unless ask_user put its question to the user after
\* the Stop; a DELETE always ends it (post_cancel, quiesce_active_turn).
StopEnds ==
    event \/ session # "open" ~>
        pc \in Over \/ (session = "open" /\ \E c \in Calls : ran[c] = "asking")

=============================================================================
