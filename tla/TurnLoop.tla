------------------------------ MODULE TurnLoop ------------------------------
(***************************************************************************)
(* One user message through the agent loop (run, _run_inner_core): inner   *)
(* turns that drain steers and verdicts, prepare a prompt, stream the      *)
(* model, and then either dispatch the tool calls or settle the text: a    *)
(* nudge while background jobs run, a plan restated for the verifier, a    *)
(* refusal by the verification gate, a retry after silence, or the end.    *)
(* Stop, provider failures, background jobs and verdicts come at any time. *)
(* A reply is named by the inner turn that produced it.                    *)
(***************************************************************************)
EXTENDS Naturals, FiniteSets

CONSTANTS MaxTurns,        \* effective_max
          DoomThreshold,   \* DOOM_LOOP_THRESHOLD, 0 disables
          EmptyRetries,    \* _EMPTY_COMPLETION_RETRIES
          PostToolRetries, \* _POST_TOOL_EMPTY_RETRIES
          JobNudges,       \* _BACKGROUND_JOB_NUDGES
          Rejections,      \* _FINAL_ANSWER_REJECTIONS
          GateMax,         \* coding.verification_gate.max_rejections
          MaxVerdicts      \* bound: verdicts of the judge for this message

ASSUME LoopConstants ==
    \A c \in {MaxTurns, DoomThreshold, EmptyRetries, PostToolRetries, JobNudges, Rejections, GateMax, MaxVerdicts} : c \in Nat

VARIABLES pc,         \* "top", "prepare", "call", "settle", "tail", "done"
          turn,       \* turn_index
          reply,      \* what the last stream left: [text, tools]
          held,       \* hold_assistant_text: its text events are kept back
          followup,   \* needs_followup_after_tools
          left,       \* remaining retries, nudges and refusals
          lastRow,    \* kind of the newest history row
          jobs,       \* a background job of this turn is running
          gate,       \* VerificationGate: [unverified, rejections]
          mail,       \* verdict mailbox: [replan, owesRead]
          replanTurn, suppressed,
          doom,       \* _DoomLoopTracker: [streak, force]
          stopped,    \* the cancel event of the request
          failed,     \* the Error that ended the turn was sent
          shown, saved, refused,  \* history: replies shown, stored, turned down
          unsaved,    \* history: replies released with the jobs error
          repeats,    \* history: identical calls since a call without tools
          verdicts

loopVars == <<pc, turn, reply, held, followup, left, lastRow, jobs, gate, mail, replanTurn,
              suppressed, doom, stopped, failed, shown, saved, refused, unsaved, repeats, verdicts>>

\* The tool batches the loop tells apart: the call repeated, an edit of a
\* file, a passing verification, a read of the edited file, a background job.
Batches == {"same", "write", "verify", "read", "spawn"}

NoReply == [text |-> FALSE, tools |-> "none"]

TypeOK ==
    /\ pc \in {"top", "prepare", "call", "settle", "tail", "done"}
    /\ turn \in 0..MaxTurns
    /\ reply \in [text : BOOLEAN, tools : Batches \cup {"none"}]
    /\ left \in [empty : 0..EmptyRetries, post : 0..PostToolRetries,
                 nudge : 0..JobNudges, refuse : 0..Rejections]
    /\ lastRow \in {"user", "assistant", "result"}
    /\ gate \in [unverified : BOOLEAN, rejections : 0..GateMax]
    /\ mail \in [replan : BOOLEAN, owesRead : BOOLEAN]
    /\ doom \in [streak : 0..DoomThreshold, force : BOOLEAN]
    /\ {held, followup, jobs, replanTurn, suppressed, stopped, failed} \subseteq BOOLEAN
    /\ shown \cup saved \cup refused \cup unsaved \subseteq 1..MaxTurns
    /\ verdicts \in 0..MaxVerdicts

\* The user row is stored and the gate forgot the previous message.
Init ==
    /\ pc = "top" /\ turn = 0 /\ reply = NoReply /\ held = FALSE /\ followup = FALSE
    /\ left = [empty |-> EmptyRetries, post |-> PostToolRetries, nudge |-> JobNudges, refuse |-> Rejections]
    /\ lastRow = "user" /\ jobs = FALSE
    /\ gate = [unverified |-> FALSE, rejections |-> 0]
    /\ mail = [replan |-> FALSE, owesRead |-> FALSE]
    /\ replanTurn = FALSE /\ suppressed = FALSE
    /\ doom = [streak |-> 0, force |-> FALSE]
    /\ stopped = FALSE /\ failed = FALSE
    /\ shown = {} /\ saved = {} /\ refused = {} /\ unsaved = {} /\ repeats = 0 /\ verdicts = 0

-----------------------------------------------------------------------------
(* How an inner turn ends.                                                 *)

Again == pc' = "top" /\ followup' = FALSE /\ UNCHANGED failed

EndWithError == pc' = "tail" /\ failed' = TRUE /\ followup' = FALSE

\* _release_held_text: text that was kept back reaches the client now.
Release == shown' = IF reply.text THEN shown \cup {turn} ELSE shown

Persist == saved' = IF reply.text THEN saved \cup {turn} ELSE saved

\* _discard_held_text: the reply is neither shown nor stored.
Discard ==
    /\ refused' = IF reply.text THEN refused \cup {turn} ELSE refused
    /\ reply' = NoReply /\ held' = FALSE
    /\ UNCHANGED <<shown, saved>>

\* The gate would refuse an answer now.
GateObjects == gate.unverified /\ gate.rejections < GateMax

-----------------------------------------------------------------------------
(* Top of the loop and the prompt.                                         *)

LoopTop ==
    /\ pc = "top"
    /\ \/ /\ turn >= MaxTurns
          /\ pc' = "tail"
          /\ UNCHANGED <<turn, followup, lastRow, mail, replanTurn, suppressed, failed, verdicts>>
       \/ /\ turn < MaxTurns /\ stopped
          /\ EndWithError
          /\ UNCHANGED <<turn, lastRow, mail, replanTurn, suppressed, verdicts>>
       \/ /\ turn < MaxTurns /\ ~stopped
          /\ pc' = "prepare" /\ turn' = turn + 1
          /\ lastRow' \in {lastRow, "user"}        \* steers are appended
          /\ \/ mail' = mail /\ verdicts' = verdicts
             \/ /\ verdicts < MaxVerdicts /\ verdicts' = verdicts + 1
                /\ mail' \in {[mail EXCEPT !.replan = TRUE], [mail EXCEPT !.owesRead = TRUE]}
          /\ replanTurn' = FALSE /\ suppressed' = FALSE
          /\ UNCHANGED <<followup, failed>>
    /\ UNCHANGED <<reply, held, left, jobs, gate, doom, stopped, shown, saved, refused, unsaved, repeats>>

\* Mutant: the recovery call offers the tools.
ConsumeRecoveryWithTools(force) ==
    /\ suppressed' = FALSE
    /\ doom' = IF force THEN [streak |-> 0, force |-> FALSE] ELSE doom
    /\ repeats' = repeats

\* consume_recovery: a recovery call has no tools and re-arms the tracker.
ConsumeRecovery(force) ==
    /\ suppressed' = force
    /\ doom' = IF force THEN [streak |-> 0, force |-> FALSE] ELSE doom
    /\ repeats' = IF force THEN 0 ELSE repeats

\* Mutant: only running jobs hold the text back, the gate does not.
HoldTextForJobs == held' \in {jobs, TRUE}

\* BEFORE_PROVIDER_REQUEST hooks and running jobs hold the text back.  A jobs
\* check that fails holds too.
HoldText == held' \in {jobs \/ GateObjects, TRUE}

PrepareTurnContext ==
    /\ pc = "prepare"
    /\ \/ /\ stopped
          /\ EndWithError
          /\ UNCHANGED <<reply, held, mail, replanTurn, suppressed, doom, repeats>>
       \/ /\ ~stopped
          /\ pc' = "call"
          /\ replanTurn' = mail.replan
          /\ mail' = [mail EXCEPT !.replan = FALSE]
          /\ ConsumeRecovery(doom.force \/ mail.replan)
          /\ reply' = NoReply /\ HoldText
          /\ UNCHANGED <<failed, followup>>
    /\ UNCHANGED <<turn, left, lastRow, jobs, gate, stopped, shown, saved, refused, unsaved, verdicts>>

\* An exception or a task cancel while the prompt is built leaves _run_inner.
PrepareRaises ==
    /\ pc = "prepare"
    /\ pc' = "done" /\ failed' = TRUE
    /\ UNCHANGED <<turn, reply, held, followup, left, lastRow, jobs, gate, mail, replanTurn, suppressed,
                   doom, stopped, shown, saved, refused, unsaved, repeats, verdicts>>

-----------------------------------------------------------------------------
(* The provider call.                                                      *)

StreamEnds ==
    /\ pc = "call"
    /\ pc' = "settle"
    /\ reply' \in [text : BOOLEAN, tools : IF suppressed THEN {"none"} ELSE Batches \cup {"none"}]
    /\ shown' = IF reply'.text /\ ~held THEN shown \cup {turn} ELSE shown
    /\ UNCHANGED <<turn, held, followup, left, lastRow, jobs, gate, mail, replanTurn, suppressed, doom,
                   stopped, failed, saved, refused, unsaved, repeats, verdicts>>

\* _persist_partial_assistant_on_abort: text and settled tool calls are stored.
PersistPartial ==
    /\ Release /\ Persist
    /\ lastRow' = IF reply.tools # "none" THEN "result" ELSE IF reply.text THEN "assistant" ELSE lastRow
    /\ held' = FALSE

\* Stop, a provider error, or the outbound scan of a routine ends the call;
\* what had been streamed is released.
StreamAborts ==
    /\ pc = "call"
    /\ EndWithError
    /\ \E text \in BOOLEAN, tools \in {"none", "same"} :
          /\ tools = "same" => ~suppressed
          /\ reply' = [text |-> text, tools |-> "none"]
          /\ shown' = IF text THEN shown \cup {turn} ELSE shown
          /\ saved' = IF text THEN saved \cup {turn} ELSE saved
          /\ lastRow' = IF tools # "none" THEN "result" ELSE IF text THEN "assistant" ELSE lastRow
    /\ held' = FALSE
    /\ UNCHANGED <<turn, left, jobs, gate, mail, replanTurn, suppressed, doom, stopped, refused,
                   unsaved, repeats, verdicts>>

\* Mutant: Stop after the last token releases the text without storing it.
StopAfterStreamQuietly ==
    /\ pc = "settle" /\ stopped
    /\ EndWithError /\ Release /\ held' = FALSE /\ UNCHANGED <<saved, lastRow>>
    /\ reply' = [reply EXCEPT !.tools = "none"]
    /\ UNCHANGED <<turn, left, jobs, gate, mail, replanTurn, suppressed, doom, stopped, refused,
                   unsaved, repeats, verdicts>>

\* Stop was set while the last token came.
StopAfterStream ==
    /\ pc = "settle" /\ stopped
    /\ EndWithError /\ PersistPartial
    /\ reply' = [reply EXCEPT !.tools = "none"]
    /\ UNCHANGED <<turn, left, jobs, gate, mail, replanTurn, suppressed, doom, stopped, refused,
                   unsaved, repeats, verdicts>>

-----------------------------------------------------------------------------
(* Tool calls.                                                             *)

\* Mutant: the streak is compared before it is counted.
RecordLate(tools) ==
    LET n == IF tools = "same" THEN doom.streak + 1 ELSE 1
    IN  IF DoomThreshold = 0 THEN doom
        ELSE [streak |-> IF tools = "same" THEN n ELSE 0, force |-> n > DoomThreshold]

\* _DoomLoopTracker.record for a batch of one call; only "same" is ever made
\* with the arguments of the call before it.
Record(tools) ==
    LET n == IF tools = "same" THEN doom.streak + 1 ELSE 1
    IN  IF DoomThreshold = 0 THEN doom
        ELSE [streak |-> IF tools = "same" THEN n ELSE 0, force |-> n >= DoomThreshold]

\* What the gate and the tracker of reads learn at the settlement barrier.
Observe(tools) ==
    /\ gate' = [gate EXCEPT !.unverified = (@ \/ tools = "write") /\ tools # "verify"]
    /\ mail' = [mail EXCEPT !.owesRead = @ /\ tools # "read"]
    /\ jobs' = (jobs \/ tools = "spawn")

\* _append_tool_requests_and_dispatch with the batch that ToolBatch models:
\* one response row for the request row, whether it was aborted or not.
DispatchTools ==
    /\ pc = "settle" /\ ~stopped /\ reply.tools # "none"
    /\ Release /\ Persist /\ held' = FALSE
    /\ lastRow' = "result"
    /\ doom' = Record(reply.tools)
    /\ repeats' = IF reply.tools = "same" THEN repeats + 1 ELSE 0
    /\ Observe(reply.tools)
    /\ \/ pc' = "top" /\ followup' = TRUE /\ UNCHANGED <<failed, stopped>>
       \/ EndWithError /\ stopped' = TRUE                 \* Stop in the batch
    /\ UNCHANGED <<turn, reply, left, replanTurn, suppressed, refused, unsaved, verdicts>>

-----------------------------------------------------------------------------
(* No tool calls: _handle_empty_or_final_text.                             *)

Settling == pc = "settle" /\ ~stopped /\ reply.tools = "none"

SameTurn == UNCHANGED <<turn, jobs, mail, suppressed, doom, stopped, repeats, verdicts>>

\* The status of the jobs cannot be read.
JobsCheckFails ==
    /\ Settling
    /\ Release /\ EndWithError
    /\ unsaved' = unsaved \cup (shown' \ saved)
    /\ UNCHANGED <<reply, held, left, lastRow, gate, replanTurn, saved, refused>> /\ SameTurn

\* Mutant: the last inner turn is nudged like any other.
NudgeOnJobsAtEnd ==
    /\ Settling /\ jobs /\ left.nudge > 0
    /\ Discard /\ Again
    /\ left' = [left EXCEPT !.nudge = @ - 1]
    /\ UNCHANGED <<lastRow, gate, replanTurn, unsaved>> /\ SameTurn

\* Jobs still run: nudge the model, or report the jobs and end.
NudgeOnJobs ==
    /\ Settling /\ jobs /\ turn < MaxTurns /\ left.nudge > 0
    /\ Discard /\ Again
    /\ left' = [left EXCEPT !.nudge = @ - 1]
    /\ UNCHANGED <<lastRow, gate, replanTurn, unsaved>> /\ SameTurn

ErrorOnJobs ==
    /\ Settling /\ jobs /\ ~(turn < MaxTurns /\ left.nudge > 0)
    /\ Release /\ EndWithError
    /\ unsaved' = unsaved \cup (shown' \ saved)
    /\ UNCHANGED <<reply, held, left, lastRow, gate, replanTurn, saved, refused>> /\ SameTurn

\* The text restates a plan, or a read is still owed: keep it and go on.
WantsAnotherCall == reply.text /\ (replanTurn \/ (mail.owesRead /\ ~suppressed))

KeepAndContinue ==
    /\ Settling /\ ~jobs /\ WantsAnotherCall
    /\ Release /\ Persist /\ Again
    /\ held' = FALSE /\ replanTurn' = FALSE /\ lastRow' = "assistant"
    /\ UNCHANGED <<reply, left, gate, refused, unsaved>> /\ SameTurn

\* Mutant: the gate gives up one inner turn too early.
RefusableEarly == reply.text /\ left.refuse > 0 /\ turn + 1 < MaxTurns /\ GateObjects

\* _gate_final_answer.
Refusable == reply.text /\ left.refuse > 0 /\ turn < MaxTurns /\ GateObjects

GateFinalAnswer ==
    /\ Settling /\ ~jobs /\ ~WantsAnotherCall /\ Refusable
    /\ Discard /\ Again
    /\ left' = [left EXCEPT !.refuse = @ - 1]
    /\ gate' = [gate EXCEPT !.rejections = @ + 1]
    /\ UNCHANGED <<lastRow, replanTurn, unsaved>> /\ SameTurn

FinalText ==
    /\ Settling /\ ~jobs /\ ~WantsAnotherCall /\ ~Refusable /\ reply.text
    /\ Release /\ Persist
    /\ pc' = "tail" /\ followup' = FALSE /\ lastRow' = "assistant" /\ held' = FALSE
    /\ UNCHANGED <<reply, left, gate, replanTurn, failed, refused, unsaved>> /\ SameTurn

OwesToolFollowup == followup \/ lastRow = "result"

RetryEmpty ==
    /\ Settling /\ ~jobs /\ ~reply.text /\ turn < MaxTurns
    /\ pc' = "top"
    /\ \/ /\ OwesToolFollowup /\ left.post > 0
          /\ left' = [left EXCEPT !.post = @ - 1]
          /\ UNCHANGED followup
       \/ /\ ~OwesToolFollowup /\ left.empty > 0
          /\ left' = [left EXCEPT !.empty = @ - 1]
          /\ followup' = FALSE
    /\ UNCHANGED <<reply, held, lastRow, gate, replanTurn, failed, shown, saved, refused, unsaved>> /\ SameTurn

EmptyExhausted ==
    /\ Settling /\ ~jobs /\ ~reply.text
    /\ ~(turn < MaxTurns /\ IF OwesToolFollowup THEN left.post > 0 ELSE left.empty > 0)
    /\ EndWithError
    /\ UNCHANGED <<reply, held, left, lastRow, gate, replanTurn, shown, saved, refused, unsaved>> /\ SameTurn

-----------------------------------------------------------------------------
(* The tail of the turn, and what happens around it.                       *)

\* Mutant: the turn waits for its background jobs.
LoopTailAfterJobs ==
    /\ pc = "tail" /\ ~jobs
    /\ pc' = "done"
    /\ failed' \in {failed \/ followup \/ jobs, TRUE}
    /\ UNCHANGED <<turn, reply, held, followup, left, lastRow, jobs, gate, mail, replanTurn, suppressed,
                   doom, stopped, shown, saved, refused, unsaved, repeats, verdicts>>

\* Jobs that still run are reported; a turn that stopped at its budget with
\* tool results unanswered says so.  TurnComplete follows.
LoopTail ==
    /\ pc = "tail"
    /\ pc' = "done"
    /\ failed' \in {failed \/ followup \/ jobs, TRUE}
    /\ UNCHANGED <<turn, reply, held, followup, left, lastRow, jobs, gate, mail, replanTurn, suppressed,
                   doom, stopped, shown, saved, refused, unsaved, repeats, verdicts>>

\* POST /cancel sets the event.
RequestCancel ==
    /\ pc # "done" /\ ~stopped
    /\ stopped' = TRUE
    /\ UNCHANGED <<pc, turn, reply, held, followup, left, lastRow, jobs, gate, mail, replanTurn, suppressed,
                   doom, failed, shown, saved, refused, unsaved, repeats, verdicts>>

JobExits ==
    /\ pc # "done" /\ jobs
    /\ jobs' = FALSE
    /\ UNCHANGED <<pc, turn, reply, held, followup, left, lastRow, gate, mail, replanTurn, suppressed,
                   doom, stopped, failed, shown, saved, refused, unsaved, repeats, verdicts>>

Step ==
    \/ LoopTop \/ PrepareTurnContext \/ PrepareRaises
    \/ StreamEnds \/ StreamAborts \/ StopAfterStream \/ DispatchTools
    \/ JobsCheckFails \/ NudgeOnJobs \/ ErrorOnJobs \/ KeepAndContinue
    \/ GateFinalAnswer \/ FinalText \/ RetryEmpty \/ EmptyExhausted \/ LoopTail

Next == Step \/ RequestCancel \/ JobExits

Spec == Init /\ [][Next]_loopVars

\* The coroutine runs on; providers, tools and hooks have timeouts of their own.
FairSpec == Spec /\ WF_loopVars(Step)

-----------------------------------------------------------------------------
(* Properties.                                                             *)

\* A reply that was turned down, by the gate or because jobs still ran, is
\* never shown to the user and never stored: the text was held from its first
\* token on, whatever became known while it streamed.
RefusedNeverSeen == refused \cap (shown \cup saved) = {}

\* What the user has seen of the model is in the history when the turn is
\* over, so the next turn knows it; the reply released together with the
\* background-jobs error is the exception.
ShownIsSaved == pc = "done" => shown \subseteq saved \cup unsaved

\* A turn that ends without an Error ends with the text of its last model
\* call, shown and stored: no sequence of nudges, refusals and retries leaves
\* the user with nothing.
EndsAnswered == pc = "done" /\ ~failed => turn \in shown \cap saved

\* An answer that follows edits nobody verified is accepted only after the
\* gate has spent its refusals or the loop has no turn left to fix it.
GateHeld ==
    pc = "done" /\ ~failed /\ gate.unverified =>
        gate.rejections = GateMax \/ left.refuse = 0 \/ turn = MaxTurns

\* The model never gets to make the same call more than DoomThreshold times
\* in a row without a call that offers it no tools.
DoomBroken == DoomThreshold > 0 => repeats <= DoomThreshold

\* Every message comes to an end: no mix of retries, nudges, refusals,
\* recovery calls and verdicts keeps the loop alive for ever.
Terminates == turn > 0 ~> pc = "done"

\* What the loop shows, stores and refuses agrees, at every step and at the
\* end of the message, whatever was held, nudged, retried or stopped.
RepliesKept == RefusedNeverSeen /\ ShownIsSaved /\ EndsAnswered

\* The gate on unverified edits and the doom-loop tracker cannot be outrun by
\* the other ways to get one more call.
GuardsHold == GateHeld /\ DoomBroken

\* Both of the above.
LoopSafe == RepliesKept /\ GuardsHold
=============================================================================
