-------------------------- MODULE ConversationProofs --------------------------
(***************************************************************************)
(* What holds of one conversation for every number of turns, retries and   *)
(* rows: the loop of a message (TurnLoop), the ledger of the goals         *)
(* (GoalLedger), compaction and what it must keep (ThreadHistory), and the *)
(* types of all four parts, the branches of a thread included.             *)
(***************************************************************************)
EXTENDS MCConversation, SublistProofs, SequenceTheorems, TLAPS

-----------------------------------------------------------------------------
(* The loop.  A reply may be turned down only if it was held from its first *)
(* token on, and it was held if anything could turn it down; so what was    *)
(* turned down was never seen, and what was seen is stored.                 *)

\* The bounds of the loop are natural numbers.
LEMMA Limits ==
    /\ MaxTurns \in Nat /\ DoomThreshold \in Nat /\ EmptyRetries \in Nat /\ PostToolRetries \in Nat
    /\ JobNudges \in Nat /\ Rejections \in Nat /\ GateMax \in Nat /\ MaxVerdicts \in Nat
BY LoopConstants

\* The flags are Booleans.
LoopFlags ==
    /\ held \in BOOLEAN /\ followup \in BOOLEAN /\ jobs \in BOOLEAN /\ replanTurn \in BOOLEAN
    /\ suppressed \in BOOLEAN /\ stopped \in BOOLEAN /\ failed \in BOOLEAN

\* A prompt is built, and a reply streams and settles, in a turn.
Flow ==
    /\ pc \in {"top", "prepare", "call", "settle", "tail", "done"}
    /\ turn \in 0..MaxTurns /\ verdicts \in 0..MaxVerdicts
    /\ pc \in {"prepare", "call", "settle"} => turn > 0
    /\ lastRow \in {"user", "assistant", "result"}

\* The records of the loop, by name.
Replies == [text : BOOLEAN, tools : Batches \cup {"none"}]

Trackers == [streak : 0..DoomThreshold, force : BOOLEAN]

\* A tracker is made of a streak below the threshold and a flag.
LEMMA TrackerType ==
    ASSUME NEW n \in 0..DoomThreshold, NEW b \in BOOLEAN
    PROVE  [streak |-> n, force |-> b] \in Trackers
BY DEF Trackers

\* Its fields.
LEMMA TrackerFields ==
    ASSUME NEW d \in Trackers
    PROVE  d.streak \in Nat /\ d.streak <= DoomThreshold /\ d.force \in BOOLEAN
BY Limits DEF Trackers

LoopRecords ==
    /\ reply \in Replies
    /\ left \in [empty : 0..EmptyRetries, post : 0..PostToolRetries,
                nudge : 0..JobNudges, refuse : 0..Rejections]
    /\ gate \in [unverified : BOOLEAN, rejections : 0..GateMax]
    /\ mail \in [replan : BOOLEAN, owesRead : BOOLEAN]
    /\ doom \in Trackers

\* A reply belongs to an inner turn that has begun.
Marks == shown \cup saved \cup refused \cup unsaved \subseteq 1..turn

\* The reply of the present turn is nowhere before it has streamed; then it is
\* shown exactly when it was not held.
SafeSoFar ==
    /\ Marks /\ refused \cap (shown \cup saved) = {}
    /\ pc \in {"prepare", "call"} => turn \notin shown \cup saved \cup refused \cup unsaved
    /\ pc = "settle" =>
         /\ turn \notin saved \cup refused \cup unsaved
         /\ turn \in shown <=> reply.text /\ ~held

\* Whatever may turn a reply down has held it before it streamed: jobs only
\* end and the gate only changes between streams.
Held == pc \in {"call", "settle"} => (jobs \/ GateObjects => held)

\* Only the reply that settles is shown and not stored.
KeptSoFar == shown \ saved \subseteq unsaved \cup (IF pc = "settle" THEN {turn} ELSE {})

\* A loop that is out of turns owes a follow-up or has answered.
EndsSoFar ==
    /\ pc \notin {"tail", "done"} => ~failed
    /\ pc = "top" /\ turn >= MaxTurns => followup \/ turn \in shown \cap saved
    /\ pc = "tail" /\ ~failed => followup \/ turn \in shown \cap saved
    /\ pc = "done" /\ ~failed => turn \in shown \cap saved

\* The gate stands from the final text to the end.
GateSoFar ==
    pc \in {"tail", "done"} /\ ~failed /\ gate.unverified =>
        gate.rejections = GateMax \/ left.refuse = 0 \/ turn = MaxTurns

\* The tracker counts the repeated calls, and a full streak asks for the
\* recovery that the next prompt consumes.
Streak ==
    /\ doom.force => DoomThreshold > 0
    /\ DoomThreshold > 0 =>
         /\ repeats = doom.streak
         /\ doom.streak >= DoomThreshold => doom.force
         /\ pc \in {"call", "settle"} => ~doom.force

LoopInv ==
    /\ LoopFlags /\ Flow /\ LoopRecords /\ SafeSoFar /\ Held /\ KeptSoFar /\ EndsSoFar /\ GateSoFar /\ Streak

\* A new inner turn starts with a reply that is nowhere yet.
LEMMA LoopTopInv ==
    ASSUME LoopInv, LoopTop
    PROVE  LoopInv'
<1> USE Limits
<1>1. LoopFlags'
  BY DEF LoopInv, LoopFlags, Flow, LoopRecords, LoopTop, EndWithError
<1>2. Flow'
  BY DEF LoopInv, LoopFlags, Flow, LoopRecords, LoopTop, EndWithError
<1>3. LoopRecords'
  BY DEF LoopInv, LoopFlags, Flow, LoopRecords, Replies, Trackers, Streak, LoopTop, EndWithError
<1>4. Marks'
  BY DEF LoopInv, LoopFlags, Flow, LoopRecords, Marks, SafeSoFar, Replies, LoopTop, EndWithError
<1>5. SafeSoFar'
  BY DEF LoopInv, LoopFlags, Flow, LoopRecords, SafeSoFar, Held, Marks, Replies, LoopTop, EndWithError
<1>6. Held'
  BY DEF LoopInv, LoopFlags, Flow, LoopRecords, Held, GateObjects, LoopTop, EndWithError
<1>7. KeptSoFar'
  BY DEF LoopInv, LoopFlags, Flow, LoopRecords, KeptSoFar, SafeSoFar, Held, Replies, LoopTop, EndWithError
<1>8. EndsSoFar'
  BY DEF LoopInv, LoopFlags, Flow, LoopRecords, EndsSoFar, LoopTop, EndWithError
<1>9. GateSoFar'
  BY DEF LoopInv, LoopFlags, Flow, LoopRecords, GateSoFar, LoopTop, EndWithError
<1>10. Streak'
  BY DEF LoopInv, LoopFlags, Flow, LoopRecords, Streak, Replies, Trackers, LoopTop, EndWithError
<1> QED BY <1>1, <1>2, <1>3, <1>4, <1>5, <1>6, <1>7, <1>8, <1>9, <1>10 DEF LoopInv

\* The prompt consumes the recovery, and the hold is decided for what the jobs and the gate say now.
LEMMA PrepareTurnContextInv ==
    ASSUME LoopInv, PrepareTurnContext
    PROVE  LoopInv'
<1> USE Limits
<1>a. \/ pc' = "tail" /\ failed' = TRUE /\ UNCHANGED <<reply, mail, doom, repeats>>
      \/ /\ pc' = "call" /\ reply' = NoReply /\ mail' = [mail EXCEPT !.replan = FALSE] /\ UNCHANGED failed
         /\ ConsumeRecovery(doom.force \/ mail.replan)
  BY DEF PrepareTurnContext, EndWithError
<1>b. NoReply \in Replies
  BY DEF NoReply, Replies
<1>c. \/ pc' = "tail" /\ UNCHANGED <<doom, repeats>>
      \/ pc' = "call" /\ ~doom.force /\ UNCHANGED <<doom, repeats>>
      \/ pc' = "call" /\ doom' = [streak |-> 0, force |-> FALSE] /\ repeats' = 0
  BY <1>a DEF ConsumeRecovery
<1>d. pc = "prepare" /\ UNCHANGED <<turn, left, gate, shown, saved>>
  BY DEF PrepareTurnContext
<1>1. LoopFlags'
  BY DEF LoopInv, LoopFlags, Flow, LoopRecords, PrepareTurnContext, EndWithError, ConsumeRecovery, NoReply,
         HoldText, GateObjects
<1>2. Flow'
  BY DEF LoopInv, LoopFlags, Flow, LoopRecords, PrepareTurnContext, EndWithError, ConsumeRecovery, NoReply,
         HoldText, GateObjects
<1>3. LoopRecords'
  <2>1. reply' \in Replies /\ mail' \in [replan : BOOLEAN, owesRead : BOOLEAN]
    BY <1>a, <1>b DEF LoopInv, LoopRecords
  <2>2. doom' \in Trackers
    <3>1. 0 \in 0..DoomThreshold
      OBVIOUS
    <3>2. [streak |-> 0, force |-> FALSE] \in Trackers
      BY <3>1, TrackerType
    <3> QED BY <1>c, <3>2 DEF LoopInv, LoopRecords
  <2> QED BY <1>d, <2>1, <2>2 DEF LoopInv, LoopRecords
<1>4. Marks'
  BY DEF LoopInv, LoopFlags, Flow, LoopRecords, Marks, SafeSoFar, Replies, PrepareTurnContext, EndWithError,
         ConsumeRecovery, NoReply, HoldText, GateObjects
<1>5. SafeSoFar'
  BY DEF LoopInv, LoopFlags, Flow, LoopRecords, SafeSoFar, Held, Marks, Replies, PrepareTurnContext,
         EndWithError, ConsumeRecovery, NoReply, HoldText, GateObjects
<1>6. Held'
  BY DEF LoopInv, LoopFlags, Flow, LoopRecords, Held, GateObjects, PrepareTurnContext, EndWithError,
         ConsumeRecovery, NoReply, HoldText, GateObjects
<1>7. KeptSoFar'
  BY DEF LoopInv, LoopFlags, Flow, LoopRecords, KeptSoFar, SafeSoFar, Held, Replies, PrepareTurnContext,
         EndWithError, ConsumeRecovery, NoReply, HoldText, GateObjects
<1>8. EndsSoFar'
  BY <1>a, <1>d DEF LoopInv, EndsSoFar
<1>9. GateSoFar'
  BY DEF LoopInv, LoopFlags, Flow, LoopRecords, GateSoFar, PrepareTurnContext, EndWithError,
         ConsumeRecovery, NoReply, HoldText, GateObjects
<1>10. Streak'
  BY <1>c DEF LoopInv, LoopRecords, Streak
<1> QED BY <1>1, <1>2, <1>3, <1>4, <1>5, <1>6, <1>7, <1>8, <1>9, <1>10 DEF LoopInv

\* An exception ends the message with its error.
LEMMA PrepareRaisesInv ==
    ASSUME LoopInv, PrepareRaises
    PROVE  LoopInv'
<1> USE Limits
<1>1. LoopFlags'
  BY DEF LoopInv, LoopFlags, Flow, LoopRecords, PrepareRaises
<1>2. Flow'
  BY DEF LoopInv, LoopFlags, Flow, LoopRecords, PrepareRaises
<1>3. LoopRecords'
  BY DEF LoopInv, LoopFlags, Flow, LoopRecords, Replies, Trackers, Streak, PrepareRaises
<1>4. Marks'
  BY DEF LoopInv, LoopFlags, Flow, LoopRecords, Marks, SafeSoFar, Replies, PrepareRaises
<1>5. SafeSoFar'
  BY DEF LoopInv, LoopFlags, Flow, LoopRecords, SafeSoFar, Held, Marks, Replies, PrepareRaises
<1>6. Held'
  BY DEF LoopInv, LoopFlags, Flow, LoopRecords, Held, GateObjects, PrepareRaises
<1>7. KeptSoFar'
  BY DEF LoopInv, LoopFlags, Flow, LoopRecords, KeptSoFar, SafeSoFar, Held, Replies, PrepareRaises
<1>8. EndsSoFar'
  BY DEF LoopInv, LoopFlags, Flow, LoopRecords, EndsSoFar, PrepareRaises
<1>9. GateSoFar'
  BY DEF LoopInv, LoopFlags, Flow, LoopRecords, GateSoFar, PrepareRaises
<1>10. Streak'
  BY DEF LoopInv, LoopFlags, Flow, LoopRecords, Streak, Replies, Trackers, PrepareRaises
<1> QED BY <1>1, <1>2, <1>3, <1>4, <1>5, <1>6, <1>7, <1>8, <1>9, <1>10 DEF LoopInv

\* The reply is shown as it streams unless it is held.
LEMMA StreamEndsInv ==
    ASSUME LoopInv, StreamEnds
    PROVE  LoopInv'
<1> USE Limits
<1>1. LoopFlags'
  BY DEF LoopInv, LoopFlags, Flow, LoopRecords, StreamEnds, Batches
<1>2. Flow'
  BY DEF LoopInv, LoopFlags, Flow, LoopRecords, StreamEnds, Batches
<1>3. LoopRecords'
  BY DEF LoopInv, LoopFlags, Flow, LoopRecords, Replies, Trackers, Streak, StreamEnds, Batches
<1>4. Marks'
  BY DEF LoopInv, LoopFlags, Flow, LoopRecords, Marks, SafeSoFar, Replies, StreamEnds, Batches
<1>5. SafeSoFar'
  BY DEF LoopInv, LoopFlags, Flow, LoopRecords, SafeSoFar, Held, Marks, Replies, StreamEnds, Batches
<1>6. Held'
  BY DEF LoopInv, LoopFlags, Flow, LoopRecords, Held, GateObjects, StreamEnds, Batches
<1>7. KeptSoFar'
  BY DEF LoopInv, LoopFlags, Flow, LoopRecords, KeptSoFar, SafeSoFar, Held, Replies, StreamEnds, Batches
<1>8. EndsSoFar'
  BY DEF LoopInv, LoopFlags, Flow, LoopRecords, EndsSoFar, StreamEnds, Batches
<1>9. GateSoFar'
  BY DEF LoopInv, LoopFlags, Flow, LoopRecords, GateSoFar, StreamEnds, Batches
<1>10. Streak'
  BY DEF LoopInv, LoopFlags, Flow, LoopRecords, Streak, Replies, Trackers, StreamEnds, Batches
<1> QED BY <1>1, <1>2, <1>3, <1>4, <1>5, <1>6, <1>7, <1>8, <1>9, <1>10 DEF LoopInv

\* An aborted call shows and stores what it streamed.
LEMMA StreamAbortsInv ==
    ASSUME LoopInv, StreamAborts
    PROVE  LoopInv'
<1> USE Limits
<1>1. LoopFlags'
  BY DEF LoopInv, LoopFlags, Flow, LoopRecords, StreamAborts, EndWithError
<1>2. Flow'
  BY DEF LoopInv, LoopFlags, Flow, LoopRecords, StreamAborts, EndWithError
<1>3. LoopRecords'
  BY DEF LoopInv, LoopFlags, Flow, LoopRecords, Replies, Trackers, Streak, StreamAborts, EndWithError
<1>4. Marks'
  BY DEF LoopInv, LoopFlags, Flow, LoopRecords, Marks, SafeSoFar, Replies, StreamAborts, EndWithError
<1>5. SafeSoFar'
  BY DEF LoopInv, LoopFlags, Flow, LoopRecords, SafeSoFar, Held, Marks, Replies, StreamAborts, EndWithError
<1>6. Held'
  BY DEF LoopInv, LoopFlags, Flow, LoopRecords, Held, GateObjects, StreamAborts, EndWithError
<1>7. KeptSoFar'
  BY DEF LoopInv, LoopFlags, Flow, LoopRecords, KeptSoFar, SafeSoFar, Held, Replies, StreamAborts,
         EndWithError
<1>8. EndsSoFar'
  BY DEF LoopInv, LoopFlags, Flow, LoopRecords, EndsSoFar, StreamAborts, EndWithError
<1>9. GateSoFar'
  BY DEF LoopInv, LoopFlags, Flow, LoopRecords, GateSoFar, StreamAborts, EndWithError
<1>10. Streak'
  BY DEF LoopInv, LoopFlags, Flow, LoopRecords, Streak, Replies, Trackers, StreamAborts, EndWithError
<1> QED BY <1>1, <1>2, <1>3, <1>4, <1>5, <1>6, <1>7, <1>8, <1>9, <1>10 DEF LoopInv

\* So does a Stop after the last token.
LEMMA StopAfterStreamInv ==
    ASSUME LoopInv, StopAfterStream
    PROVE  LoopInv'
<1> USE Limits
<1>1. LoopFlags'
  BY DEF LoopInv, LoopFlags, Flow, LoopRecords, StopAfterStream, EndWithError, PersistPartial, Release,
         Persist
<1>2. Flow'
  BY DEF LoopInv, LoopFlags, Flow, LoopRecords, StopAfterStream, EndWithError, PersistPartial, Release,
         Persist
<1>3. LoopRecords'
  BY DEF LoopInv, LoopFlags, Flow, LoopRecords, Replies, Trackers, Streak, StopAfterStream, EndWithError,
         PersistPartial, Release, Persist
<1>4. Marks'
  BY DEF LoopInv, LoopFlags, Flow, LoopRecords, Marks, SafeSoFar, Replies, StopAfterStream, EndWithError,
         PersistPartial, Release, Persist
<1>5. SafeSoFar'
  BY DEF LoopInv, LoopFlags, Flow, LoopRecords, SafeSoFar, Held, Marks, Replies, StopAfterStream,
         EndWithError, PersistPartial, Release, Persist
<1>6. Held'
  BY DEF LoopInv, LoopFlags, Flow, LoopRecords, Held, GateObjects, StopAfterStream, EndWithError,
         PersistPartial, Release, Persist
<1>7. KeptSoFar'
  BY DEF LoopInv, LoopFlags, Flow, LoopRecords, KeptSoFar, SafeSoFar, Held, Replies, StopAfterStream,
         EndWithError, PersistPartial, Release, Persist
<1>8. EndsSoFar'
  BY DEF LoopInv, LoopFlags, Flow, LoopRecords, EndsSoFar, StopAfterStream, EndWithError, PersistPartial,
         Release, Persist
<1>9. GateSoFar'
  BY DEF LoopInv, LoopFlags, Flow, LoopRecords, GateSoFar, StopAfterStream, EndWithError, PersistPartial,
         Release, Persist
<1>10. Streak'
  BY DEF LoopInv, LoopFlags, Flow, LoopRecords, Streak, Replies, Trackers, StopAfterStream, EndWithError,
         PersistPartial, Release, Persist
<1> QED BY <1>1, <1>2, <1>3, <1>4, <1>5, <1>6, <1>7, <1>8, <1>9, <1>10 DEF LoopInv

\* A reply with tool calls is stored with them; the tracker counts.
LEMMA DispatchToolsInv ==
    ASSUME LoopInv, DispatchTools
    PROVE  LoopInv'
<1> USE Limits
<1>a. doom' = Record(reply.tools) /\ pc' \in {"top", "tail"} /\ reply.tools \in Batches /\ pc = "settle"
  BY DEF DispatchTools, EndWithError, LoopInv, LoopRecords, Replies
<1>b. PICK n \in Nat, b \in BOOLEAN :
        \/ DoomThreshold = 0 /\ doom' = doom
        \/ /\ DoomThreshold > 0 /\ doom' = [streak |-> n, force |-> b]
           /\ n = IF reply.tools = "same" THEN doom.streak + 1 ELSE 0
           /\ b <=> DoomThreshold <= IF reply.tools = "same" THEN doom.streak + 1 ELSE 1
  <2> DEFINE n == IF reply.tools = "same" THEN doom.streak + 1 ELSE 0
             b == DoomThreshold <= IF reply.tools = "same" THEN doom.streak + 1 ELSE 1
  <2>1. n \in Nat /\ b \in BOOLEAN
    BY TrackerFields DEF LoopInv, LoopRecords
  <2>2. DoomThreshold # 0 => DoomThreshold > 0
    OBVIOUS
  <2>3. DoomThreshold # 0 => doom' = [streak |-> n, force |-> b]
    BY <1>a, TrackerFields DEF Record, LoopInv, LoopRecords
  <2>4. DoomThreshold = 0 => doom' = doom
    BY <1>a DEF Record
  <2> QED BY <2>1, <2>2, <2>3, <2>4
<1>c. repeats' = IF reply.tools = "same" THEN repeats + 1 ELSE 0
  BY DEF DispatchTools
<1>d. DoomThreshold > 0 => repeats = doom.streak /\ doom.streak \in Nat /\ doom.streak + 1 <= DoomThreshold
  BY <1>a, TrackerFields DEF LoopInv, LoopRecords, Streak
<1>e. /\ gate' = [gate EXCEPT !.unverified = (@ \/ reply.tools = "write") /\ reply.tools # "verify"]
      /\ mail' = [mail EXCEPT !.owesRead = @ /\ reply.tools # "read"] /\ UNCHANGED <<reply, left>>
  BY DEF DispatchTools, Observe
<1>f. DoomThreshold > 0 => /\ n \in 0..DoomThreshold /\ doom'.streak = n /\ (doom'.force <=> b)
                             /\ doom' = [streak |-> n, force |-> b]
  BY <1>b, <1>d
<1>g. doom' \in Trackers
  BY <1>b, <1>f, TrackerType DEF LoopInv, LoopRecords
<1>1. LoopFlags'
  BY DEF LoopInv, LoopFlags, Flow, LoopRecords, DispatchTools, Release, Persist, Record, Observe,
         EndWithError
<1>2. Flow'
  BY DEF LoopInv, LoopFlags, Flow, LoopRecords, DispatchTools, Release, Persist, Record, Observe,
         EndWithError
<1>3. LoopRecords'
  BY <1>e, <1>g DEF LoopInv, LoopRecords
<1>4. Marks'
  BY DEF LoopInv, LoopFlags, Flow, LoopRecords, Marks, SafeSoFar, Replies, DispatchTools, Release, Persist,
         Record, Observe, EndWithError
<1>5. SafeSoFar'
  BY DEF LoopInv, LoopFlags, Flow, LoopRecords, SafeSoFar, Held, Marks, Replies, DispatchTools, Release,
         Persist, Record, Observe, EndWithError
<1>6. Held'
  BY DEF LoopInv, LoopFlags, Flow, LoopRecords, Held, GateObjects, DispatchTools, Release, Persist, Record,
         Observe, EndWithError
<1>7. KeptSoFar'
  BY DEF LoopInv, LoopFlags, Flow, LoopRecords, KeptSoFar, SafeSoFar, Held, Replies, DispatchTools, Release,
         Persist, Record, Observe, EndWithError
<1>8. EndsSoFar'
  BY DEF LoopInv, LoopFlags, Flow, LoopRecords, EndsSoFar, DispatchTools, Release, Persist, Record, Observe,
         EndWithError
<1>9. GateSoFar'
  BY DEF LoopInv, LoopFlags, Flow, LoopRecords, GateSoFar, DispatchTools, Release, Persist, Record, Observe,
         EndWithError
<1>10. Streak'
  <2>1. CASE DoomThreshold = 0
    BY <1>b, <2>1 DEF LoopInv, Streak
  <2>2. CASE DoomThreshold > 0
    <3>1. n = repeats'
      BY <1>b, <1>c, <1>d, <2>2
    <3>2. n >= DoomThreshold => b
      BY <1>b, <1>d, <2>2
    <3> QED BY <1>a, <1>f, <2>2, <3>1, <3>2 DEF Streak
  <2> QED BY <2>1, <2>2
<1> QED BY <1>1, <1>2, <1>3, <1>4, <1>5, <1>6, <1>7, <1>8, <1>9, <1>10 DEF LoopInv

\* A reply released with the error about jobs is remembered as unsaved.
LEMMA JobsCheckFailsInv ==
    ASSUME LoopInv, JobsCheckFails
    PROVE  LoopInv'
<1> USE Limits
<1>1. LoopFlags'
  BY DEF LoopInv, LoopFlags, Flow, LoopRecords, JobsCheckFails, Settling, Release, EndWithError, SameTurn
<1>2. Flow'
  BY DEF LoopInv, LoopFlags, Flow, LoopRecords, JobsCheckFails, Settling, Release, EndWithError, SameTurn
<1>3. LoopRecords'
  BY DEF LoopInv, LoopFlags, Flow, LoopRecords, Replies, Trackers, Streak, JobsCheckFails, Settling,
         Release, EndWithError, SameTurn
<1>4. Marks'
  BY DEF LoopInv, LoopFlags, Flow, LoopRecords, Marks, SafeSoFar, Replies, JobsCheckFails, Settling,
         Release, EndWithError, SameTurn
<1>5. SafeSoFar'
  BY DEF LoopInv, LoopFlags, Flow, LoopRecords, SafeSoFar, Held, Marks, Replies, JobsCheckFails, Settling,
         Release, EndWithError, SameTurn
<1>6. Held'
  BY DEF LoopInv, LoopFlags, Flow, LoopRecords, Held, GateObjects, JobsCheckFails, Settling, Release,
         EndWithError, SameTurn
<1>7. KeptSoFar'
  BY DEF LoopInv, LoopFlags, Flow, LoopRecords, KeptSoFar, SafeSoFar, Held, Replies, JobsCheckFails,
         Settling, Release, EndWithError, SameTurn
<1>8. EndsSoFar'
  BY DEF LoopInv, LoopFlags, Flow, LoopRecords, EndsSoFar, JobsCheckFails, Settling, Release, EndWithError,
         SameTurn
<1>9. GateSoFar'
  BY DEF LoopInv, LoopFlags, Flow, LoopRecords, GateSoFar, JobsCheckFails, Settling, Release, EndWithError,
         SameTurn
<1>10. Streak'
  BY DEF LoopInv, LoopFlags, Flow, LoopRecords, Streak, Replies, Trackers, JobsCheckFails, Settling,
         Release, EndWithError, SameTurn
<1> QED BY <1>1, <1>2, <1>3, <1>4, <1>5, <1>6, <1>7, <1>8, <1>9, <1>10 DEF LoopInv

\* A reply turned down since jobs run was held.
LEMMA NudgeOnJobsInv ==
    ASSUME LoopInv, NudgeOnJobs
    PROVE  LoopInv'
<1> USE Limits
<1>1. LoopFlags'
  BY DEF LoopInv, LoopFlags, Flow, LoopRecords, NudgeOnJobs, Settling, Discard, Again, SameTurn, NoReply
<1>2. Flow'
  BY DEF LoopInv, LoopFlags, Flow, LoopRecords, NudgeOnJobs, Settling, Discard, Again, SameTurn, NoReply
<1>3. LoopRecords'
  BY DEF LoopInv, LoopFlags, Flow, LoopRecords, Replies, Trackers, Streak, NudgeOnJobs, Settling, Discard,
         Again, SameTurn, NoReply
<1>4. Marks'
  BY DEF LoopInv, LoopFlags, Flow, LoopRecords, Marks, SafeSoFar, Replies, NudgeOnJobs, Settling, Discard,
         Again, SameTurn, NoReply
<1>5. SafeSoFar'
  BY DEF LoopInv, LoopFlags, Flow, LoopRecords, SafeSoFar, Held, Marks, Replies, NudgeOnJobs, Settling,
         Discard, Again, SameTurn, NoReply
<1>6. Held'
  BY DEF LoopInv, LoopFlags, Flow, LoopRecords, Held, GateObjects, NudgeOnJobs, Settling, Discard, Again,
         SameTurn, NoReply
<1>7. KeptSoFar'
  BY DEF LoopInv, LoopFlags, Flow, LoopRecords, KeptSoFar, SafeSoFar, Held, Replies, NudgeOnJobs, Settling,
         Discard, Again, SameTurn, NoReply
<1>8. EndsSoFar'
  BY DEF LoopInv, LoopFlags, Flow, LoopRecords, EndsSoFar, NudgeOnJobs, Settling, Discard, Again, SameTurn,
         NoReply
<1>9. GateSoFar'
  BY DEF LoopInv, LoopFlags, Flow, LoopRecords, GateSoFar, NudgeOnJobs, Settling, Discard, Again, SameTurn,
         NoReply
<1>10. Streak'
  BY DEF LoopInv, LoopFlags, Flow, LoopRecords, Streak, Replies, Trackers, NudgeOnJobs, Settling, Discard,
         Again, SameTurn, NoReply
<1> QED BY <1>1, <1>2, <1>3, <1>4, <1>5, <1>6, <1>7, <1>8, <1>9, <1>10 DEF LoopInv

\* The jobs are reported with the reply.
LEMMA ErrorOnJobsInv ==
    ASSUME LoopInv, ErrorOnJobs
    PROVE  LoopInv'
<1> USE Limits
<1>1. LoopFlags'
  BY DEF LoopInv, LoopFlags, Flow, LoopRecords, ErrorOnJobs, Settling, Release, EndWithError, SameTurn
<1>2. Flow'
  BY DEF LoopInv, LoopFlags, Flow, LoopRecords, ErrorOnJobs, Settling, Release, EndWithError, SameTurn
<1>3. LoopRecords'
  BY DEF LoopInv, LoopFlags, Flow, LoopRecords, Replies, Trackers, Streak, ErrorOnJobs, Settling, Release,
         EndWithError, SameTurn
<1>4. Marks'
  BY DEF LoopInv, LoopFlags, Flow, LoopRecords, Marks, SafeSoFar, Replies, ErrorOnJobs, Settling, Release,
         EndWithError, SameTurn
<1>5. SafeSoFar'
  BY DEF LoopInv, LoopFlags, Flow, LoopRecords, SafeSoFar, Held, Marks, Replies, ErrorOnJobs, Settling,
         Release, EndWithError, SameTurn
<1>6. Held'
  BY DEF LoopInv, LoopFlags, Flow, LoopRecords, Held, GateObjects, ErrorOnJobs, Settling, Release,
         EndWithError, SameTurn
<1>7. KeptSoFar'
  BY DEF LoopInv, LoopFlags, Flow, LoopRecords, KeptSoFar, SafeSoFar, Held, Replies, ErrorOnJobs, Settling,
         Release, EndWithError, SameTurn
<1>8. EndsSoFar'
  BY DEF LoopInv, LoopFlags, Flow, LoopRecords, EndsSoFar, ErrorOnJobs, Settling, Release, EndWithError,
         SameTurn
<1>9. GateSoFar'
  BY DEF LoopInv, LoopFlags, Flow, LoopRecords, GateSoFar, ErrorOnJobs, Settling, Release, EndWithError,
         SameTurn
<1>10. Streak'
  BY DEF LoopInv, LoopFlags, Flow, LoopRecords, Streak, Replies, Trackers, ErrorOnJobs, Settling, Release,
         EndWithError, SameTurn
<1> QED BY <1>1, <1>2, <1>3, <1>4, <1>5, <1>6, <1>7, <1>8, <1>9, <1>10 DEF LoopInv

\* A plan is kept: shown and stored.
LEMMA KeepAndContinueInv ==
    ASSUME LoopInv, KeepAndContinue
    PROVE  LoopInv'
<1> USE Limits
<1>1. LoopFlags'
  BY DEF LoopInv, LoopFlags, Flow, LoopRecords, KeepAndContinue, Settling, WantsAnotherCall, Release,
         Persist, Again, SameTurn
<1>2. Flow'
  BY DEF LoopInv, LoopFlags, Flow, LoopRecords, KeepAndContinue, Settling, WantsAnotherCall, Release,
         Persist, Again, SameTurn
<1>3. LoopRecords'
  BY DEF LoopInv, LoopFlags, Flow, LoopRecords, Replies, Trackers, Streak, KeepAndContinue, Settling,
         WantsAnotherCall, Release, Persist, Again, SameTurn
<1>4. Marks'
  BY DEF LoopInv, LoopFlags, Flow, LoopRecords, Marks, SafeSoFar, Replies, KeepAndContinue, Settling,
         WantsAnotherCall, Release, Persist, Again, SameTurn
<1>5. SafeSoFar'
  BY DEF LoopInv, LoopFlags, Flow, LoopRecords, SafeSoFar, Held, Marks, Replies, KeepAndContinue, Settling,
         WantsAnotherCall, Release, Persist, Again, SameTurn
<1>6. Held'
  BY DEF LoopInv, LoopFlags, Flow, LoopRecords, Held, GateObjects, KeepAndContinue, Settling,
         WantsAnotherCall, Release, Persist, Again, SameTurn
<1>7. KeptSoFar'
  BY DEF LoopInv, LoopFlags, Flow, LoopRecords, KeptSoFar, SafeSoFar, Held, Replies, KeepAndContinue,
         Settling, WantsAnotherCall, Release, Persist, Again, SameTurn
<1>8. EndsSoFar'
  BY DEF LoopInv, LoopFlags, Flow, LoopRecords, EndsSoFar, KeepAndContinue, Settling, WantsAnotherCall,
         Release, Persist, Again, SameTurn
<1>9. GateSoFar'
  BY DEF LoopInv, LoopFlags, Flow, LoopRecords, GateSoFar, KeepAndContinue, Settling, WantsAnotherCall,
         Release, Persist, Again, SameTurn
<1>10. Streak'
  BY DEF LoopInv, LoopFlags, Flow, LoopRecords, Streak, Replies, Trackers, KeepAndContinue, Settling,
         WantsAnotherCall, Release, Persist, Again, SameTurn
<1> QED BY <1>1, <1>2, <1>3, <1>4, <1>5, <1>6, <1>7, <1>8, <1>9, <1>10 DEF LoopInv

\* A reply turned down by the gate was held.
LEMMA GateFinalAnswerInv ==
    ASSUME LoopInv, GateFinalAnswer
    PROVE  LoopInv'
<1> USE Limits
<1>1. LoopFlags'
  BY DEF LoopInv, LoopFlags, Flow, LoopRecords, GateFinalAnswer, Settling, WantsAnotherCall, Refusable,
         Discard, Again, SameTurn, GateObjects, NoReply
<1>2. Flow'
  BY DEF LoopInv, LoopFlags, Flow, LoopRecords, GateFinalAnswer, Settling, WantsAnotherCall, Refusable,
         Discard, Again, SameTurn, GateObjects, NoReply
<1>3. LoopRecords'
  BY DEF LoopInv, LoopFlags, Flow, LoopRecords, Replies, Trackers, Streak, GateFinalAnswer, Settling,
         WantsAnotherCall, Refusable, Discard, Again, SameTurn, GateObjects, NoReply
<1>4. Marks'
  BY DEF LoopInv, LoopFlags, Flow, LoopRecords, Marks, SafeSoFar, Replies, GateFinalAnswer, Settling,
         WantsAnotherCall, Refusable, Discard, Again, SameTurn, GateObjects, NoReply
<1>5. SafeSoFar'
  BY DEF LoopInv, LoopFlags, Flow, LoopRecords, SafeSoFar, Held, Marks, Replies, GateFinalAnswer, Settling,
         WantsAnotherCall, Refusable, Discard, Again, SameTurn, GateObjects, NoReply
<1>6. Held'
  BY DEF LoopInv, LoopFlags, Flow, LoopRecords, Held, GateObjects, GateFinalAnswer, Settling,
         WantsAnotherCall, Refusable, Discard, Again, SameTurn, GateObjects, NoReply
<1>7. KeptSoFar'
  BY DEF LoopInv, LoopFlags, Flow, LoopRecords, KeptSoFar, SafeSoFar, Held, Replies, GateFinalAnswer,
         Settling, WantsAnotherCall, Refusable, Discard, Again, SameTurn, GateObjects, NoReply
<1>8. EndsSoFar'
  BY DEF LoopInv, LoopFlags, Flow, LoopRecords, EndsSoFar, GateFinalAnswer, Settling, WantsAnotherCall,
         Refusable, Discard, Again, SameTurn, GateObjects, NoReply
<1>9. GateSoFar'
  BY DEF LoopInv, LoopFlags, Flow, LoopRecords, GateSoFar, GateFinalAnswer, Settling, WantsAnotherCall,
         Refusable, Discard, Again, SameTurn, GateObjects, NoReply
<1>10. Streak'
  BY DEF LoopInv, LoopFlags, Flow, LoopRecords, Streak, Replies, Trackers, GateFinalAnswer, Settling,
         WantsAnotherCall, Refusable, Discard, Again, SameTurn, GateObjects, NoReply
<1> QED BY <1>1, <1>2, <1>3, <1>4, <1>5, <1>6, <1>7, <1>8, <1>9, <1>10 DEF LoopInv

\* The answer is shown, stored and past the gate.
LEMMA FinalTextInv ==
    ASSUME LoopInv, FinalText
    PROVE  LoopInv'
<1> USE Limits
<1>1. LoopFlags'
  BY DEF LoopInv, LoopFlags, Flow, LoopRecords, FinalText, Settling, WantsAnotherCall, Refusable, Release,
         Persist, SameTurn, GateObjects
<1>2. Flow'
  BY DEF LoopInv, LoopFlags, Flow, LoopRecords, FinalText, Settling, WantsAnotherCall, Refusable, Release,
         Persist, SameTurn, GateObjects
<1>3. LoopRecords'
  BY DEF LoopInv, LoopFlags, Flow, LoopRecords, Replies, Trackers, Streak, FinalText, Settling,
         WantsAnotherCall, Refusable, Release, Persist, SameTurn, GateObjects
<1>4. Marks'
  BY DEF LoopInv, LoopFlags, Flow, LoopRecords, Marks, SafeSoFar, Replies, FinalText, Settling,
         WantsAnotherCall, Refusable, Release, Persist, SameTurn, GateObjects
<1>5. SafeSoFar'
  BY DEF LoopInv, LoopFlags, Flow, LoopRecords, SafeSoFar, Held, Marks, Replies, FinalText, Settling,
         WantsAnotherCall, Refusable, Release, Persist, SameTurn, GateObjects
<1>6. Held'
  BY DEF LoopInv, LoopFlags, Flow, LoopRecords, Held, GateObjects, FinalText, Settling, WantsAnotherCall,
         Refusable, Release, Persist, SameTurn, GateObjects
<1>7. KeptSoFar'
  BY DEF LoopInv, LoopFlags, Flow, LoopRecords, KeptSoFar, SafeSoFar, Held, Replies, FinalText, Settling,
         WantsAnotherCall, Refusable, Release, Persist, SameTurn, GateObjects
<1>8. EndsSoFar'
  BY DEF LoopInv, LoopFlags, Flow, LoopRecords, EndsSoFar, FinalText, Settling, WantsAnotherCall, Refusable,
         Release, Persist, SameTurn, GateObjects
<1>9. GateSoFar'
  BY DEF LoopInv, LoopFlags, Flow, LoopRecords, GateSoFar, FinalText, Settling, WantsAnotherCall, Refusable,
         Release, Persist, SameTurn, GateObjects
<1>10. Streak'
  BY DEF LoopInv, LoopFlags, Flow, LoopRecords, Streak, Replies, Trackers, FinalText, Settling,
         WantsAnotherCall, Refusable, Release, Persist, SameTurn, GateObjects
<1> QED BY <1>1, <1>2, <1>3, <1>4, <1>5, <1>6, <1>7, <1>8, <1>9, <1>10 DEF LoopInv

\* An empty reply leaves no trace, and a turn remains.
LEMMA RetryEmptyInv ==
    ASSUME LoopInv, RetryEmpty
    PROVE  LoopInv'
<1> USE Limits
<1>1. LoopFlags'
  BY DEF LoopInv, LoopFlags, Flow, LoopRecords, RetryEmpty, Settling, OwesToolFollowup, SameTurn
<1>2. Flow'
  BY DEF LoopInv, LoopFlags, Flow, LoopRecords, RetryEmpty, Settling, OwesToolFollowup, SameTurn
<1>3. LoopRecords'
  BY DEF LoopInv, LoopFlags, Flow, LoopRecords, Replies, Trackers, Streak, RetryEmpty, Settling,
         OwesToolFollowup, SameTurn
<1>4. Marks'
  BY DEF LoopInv, LoopFlags, Flow, LoopRecords, Marks, SafeSoFar, Replies, RetryEmpty, Settling,
         OwesToolFollowup, SameTurn
<1>5. SafeSoFar'
  BY DEF LoopInv, LoopFlags, Flow, LoopRecords, SafeSoFar, Held, Marks, Replies, RetryEmpty, Settling,
         OwesToolFollowup, SameTurn
<1>6. Held'
  BY DEF LoopInv, LoopFlags, Flow, LoopRecords, Held, GateObjects, RetryEmpty, Settling, OwesToolFollowup,
         SameTurn
<1>7. KeptSoFar'
  BY DEF LoopInv, LoopFlags, Flow, LoopRecords, KeptSoFar, SafeSoFar, Held, Replies, RetryEmpty, Settling,
         OwesToolFollowup, SameTurn
<1>8. EndsSoFar'
  BY DEF LoopInv, LoopFlags, Flow, LoopRecords, EndsSoFar, RetryEmpty, Settling, OwesToolFollowup, SameTurn
<1>9. GateSoFar'
  BY DEF LoopInv, LoopFlags, Flow, LoopRecords, GateSoFar, RetryEmpty, Settling, OwesToolFollowup, SameTurn
<1>10. Streak'
  BY DEF LoopInv, LoopFlags, Flow, LoopRecords, Streak, Replies, Trackers, RetryEmpty, Settling,
         OwesToolFollowup, SameTurn
<1> QED BY <1>1, <1>2, <1>3, <1>4, <1>5, <1>6, <1>7, <1>8, <1>9, <1>10 DEF LoopInv

\* Silence to the end is an error.
LEMMA EmptyExhaustedInv ==
    ASSUME LoopInv, EmptyExhausted
    PROVE  LoopInv'
<1> USE Limits
<1>1. LoopFlags'
  BY DEF LoopInv, LoopFlags, Flow, LoopRecords, EmptyExhausted, Settling, OwesToolFollowup, EndWithError,
         SameTurn
<1>2. Flow'
  BY DEF LoopInv, LoopFlags, Flow, LoopRecords, EmptyExhausted, Settling, OwesToolFollowup, EndWithError,
         SameTurn
<1>3. LoopRecords'
  BY DEF LoopInv, LoopFlags, Flow, LoopRecords, Replies, Trackers, Streak, EmptyExhausted, Settling,
         OwesToolFollowup, EndWithError, SameTurn
<1>4. Marks'
  BY DEF LoopInv, LoopFlags, Flow, LoopRecords, Marks, SafeSoFar, Replies, EmptyExhausted, Settling,
         OwesToolFollowup, EndWithError, SameTurn
<1>5. SafeSoFar'
  BY DEF LoopInv, LoopFlags, Flow, LoopRecords, SafeSoFar, Held, Marks, Replies, EmptyExhausted, Settling,
         OwesToolFollowup, EndWithError, SameTurn
<1>6. Held'
  BY DEF LoopInv, LoopFlags, Flow, LoopRecords, Held, GateObjects, EmptyExhausted, Settling,
         OwesToolFollowup, EndWithError, SameTurn
<1>7. KeptSoFar'
  BY DEF LoopInv, LoopFlags, Flow, LoopRecords, KeptSoFar, SafeSoFar, Held, Replies, EmptyExhausted,
         Settling, OwesToolFollowup, EndWithError, SameTurn
<1>8. EndsSoFar'
  BY DEF LoopInv, LoopFlags, Flow, LoopRecords, EndsSoFar, EmptyExhausted, Settling, OwesToolFollowup,
         EndWithError, SameTurn
<1>9. GateSoFar'
  BY DEF LoopInv, LoopFlags, Flow, LoopRecords, GateSoFar, EmptyExhausted, Settling, OwesToolFollowup,
         EndWithError, SameTurn
<1>10. Streak'
  BY DEF LoopInv, LoopFlags, Flow, LoopRecords, Streak, Replies, Trackers, EmptyExhausted, Settling,
         OwesToolFollowup, EndWithError, SameTurn
<1> QED BY <1>1, <1>2, <1>3, <1>4, <1>5, <1>6, <1>7, <1>8, <1>9, <1>10 DEF LoopInv

\* The end: an owed follow-up is an error.
LEMMA LoopTailInv ==
    ASSUME LoopInv, LoopTail
    PROVE  LoopInv'
<1> USE Limits
<1>1. LoopFlags'
  BY DEF LoopInv, LoopFlags, Flow, LoopRecords, LoopTail
<1>2. Flow'
  BY DEF LoopInv, LoopFlags, Flow, LoopRecords, LoopTail
<1>3. LoopRecords'
  BY DEF LoopInv, LoopFlags, Flow, LoopRecords, Replies, Trackers, Streak, LoopTail
<1>4. Marks'
  BY DEF LoopInv, LoopFlags, Flow, LoopRecords, Marks, SafeSoFar, Replies, LoopTail
<1>5. SafeSoFar'
  BY DEF LoopInv, LoopFlags, Flow, LoopRecords, SafeSoFar, Held, Marks, Replies, LoopTail
<1>6. Held'
  BY DEF LoopInv, LoopFlags, Flow, LoopRecords, Held, GateObjects, LoopTail
<1>7. KeptSoFar'
  BY DEF LoopInv, LoopFlags, Flow, LoopRecords, KeptSoFar, SafeSoFar, Held, Replies, LoopTail
<1>8. EndsSoFar'
  BY DEF LoopInv, LoopFlags, Flow, LoopRecords, EndsSoFar, LoopTail
<1>9. GateSoFar'
  BY DEF LoopInv, LoopFlags, Flow, LoopRecords, GateSoFar, LoopTail
<1>10. Streak'
  BY DEF LoopInv, LoopFlags, Flow, LoopRecords, Streak, Replies, Trackers, LoopTail
<1> QED BY <1>1, <1>2, <1>3, <1>4, <1>5, <1>6, <1>7, <1>8, <1>9, <1>10 DEF LoopInv

\* A Stop changes the event only.
LEMMA RequestCancelInv ==
    ASSUME LoopInv, RequestCancel
    PROVE  LoopInv'
<1> USE Limits
<1>1. LoopFlags'
  BY DEF LoopInv, LoopFlags, Flow, LoopRecords, RequestCancel
<1>2. Flow'
  BY DEF LoopInv, LoopFlags, Flow, LoopRecords, RequestCancel
<1>3. LoopRecords'
  BY DEF LoopInv, LoopFlags, Flow, LoopRecords, Replies, Trackers, Streak, RequestCancel
<1>4. Marks'
  BY DEF LoopInv, LoopFlags, Flow, LoopRecords, Marks, SafeSoFar, Replies, RequestCancel
<1>5. SafeSoFar'
  BY DEF LoopInv, LoopFlags, Flow, LoopRecords, SafeSoFar, Held, Marks, Replies, RequestCancel
<1>6. Held'
  BY DEF LoopInv, LoopFlags, Flow, LoopRecords, Held, GateObjects, RequestCancel
<1>7. KeptSoFar'
  BY DEF LoopInv, LoopFlags, Flow, LoopRecords, KeptSoFar, SafeSoFar, Held, Replies, RequestCancel
<1>8. EndsSoFar'
  BY DEF LoopInv, LoopFlags, Flow, LoopRecords, EndsSoFar, RequestCancel
<1>9. GateSoFar'
  BY DEF LoopInv, LoopFlags, Flow, LoopRecords, GateSoFar, RequestCancel
<1>10. Streak'
  BY DEF LoopInv, LoopFlags, Flow, LoopRecords, Streak, Replies, Trackers, RequestCancel
<1> QED BY <1>1, <1>2, <1>3, <1>4, <1>5, <1>6, <1>7, <1>8, <1>9, <1>10 DEF LoopInv

\* A job that ends takes a reason to hold away, not the hold.
LEMMA JobExitsInv ==
    ASSUME LoopInv, JobExits
    PROVE  LoopInv'
<1> USE Limits
<1>1. LoopFlags'
  BY DEF LoopInv, LoopFlags, Flow, LoopRecords, JobExits
<1>2. Flow'
  BY DEF LoopInv, LoopFlags, Flow, LoopRecords, JobExits
<1>3. LoopRecords'
  BY DEF LoopInv, LoopFlags, Flow, LoopRecords, Replies, Trackers, Streak, JobExits
<1>4. Marks'
  BY DEF LoopInv, LoopFlags, Flow, LoopRecords, Marks, SafeSoFar, Replies, JobExits
<1>5. SafeSoFar'
  BY DEF LoopInv, LoopFlags, Flow, LoopRecords, SafeSoFar, Held, Marks, Replies, JobExits
<1>6. Held'
  BY DEF LoopInv, LoopFlags, Flow, LoopRecords, Held, GateObjects, JobExits
<1>7. KeptSoFar'
  BY DEF LoopInv, LoopFlags, Flow, LoopRecords, KeptSoFar, SafeSoFar, Held, Replies, JobExits
<1>8. EndsSoFar'
  BY DEF LoopInv, LoopFlags, Flow, LoopRecords, EndsSoFar, JobExits
<1>9. GateSoFar'
  BY DEF LoopInv, LoopFlags, Flow, LoopRecords, GateSoFar, JobExits
<1>10. Streak'
  BY DEF LoopInv, LoopFlags, Flow, LoopRecords, Streak, Replies, Trackers, JobExits
<1> QED BY <1>1, <1>2, <1>3, <1>4, <1>5, <1>6, <1>7, <1>8, <1>9, <1>10 DEF LoopInv

\* A message starts with nothing said.
LEMMA LoopInitInv ==
    ASSUME MaxTurns > 0, Init
    PROVE  LoopInv
<1> USE Limits DEF Init
<1>1. LoopFlags
  BY DEF LoopFlags
<1>5. Flow
  BY DEF Flow
<1>2. reply \in Replies
  BY DEF NoReply, Replies
<1>6. 0 \in 0..DoomThreshold
  OBVIOUS
<1>7. doom \in Trackers
  BY <1>6, TrackerType
<1>3. LoopRecords
  BY <1>2, <1>7 DEF LoopRecords
<1>4. SafeSoFar /\ Held /\ KeptSoFar /\ EndsSoFar /\ GateSoFar /\ Streak
  BY DEF Marks, SafeSoFar, Held, KeptSoFar, EndsSoFar, GateSoFar, Streak
<1> QED BY <1>1, <1>3, <1>4, <1>5 DEF LoopInv

\* Every step of the loop keeps the invariant.
LEMMA LoopStepInv == LoopInv /\ [Next]_loopVars => LoopInv'
<1> SUFFICES ASSUME LoopInv, [Next]_loopVars PROVE LoopInv'
  OBVIOUS
<1>1. CASE Next
  BY <1>1, LoopTopInv, PrepareTurnContextInv, PrepareRaisesInv, StreamEndsInv, StreamAbortsInv, StopAfterStreamInv,
     DispatchToolsInv, JobsCheckFailsInv, NudgeOnJobsInv, ErrorOnJobsInv, KeepAndContinueInv, GateFinalAnswerInv,
     FinalTextInv, RetryEmptyInv, EmptyExhaustedInv, LoopTailInv, RequestCancelInv, JobExitsInv DEF Next, Step
<1>2. CASE UNCHANGED loopVars
  BY <1>2 DEF loopVars, LoopInv, LoopFlags, Flow, LoopRecords, Marks, SafeSoFar, Held, KeptSoFar, EndsSoFar, GateSoFar,
              Streak, GateObjects
<1> QED BY <1>1, <1>2

\* The invariant has the types.
LEMMA LoopInvTypes == LoopInv => TypeOK
<1> SUFFICES ASSUME LoopInv PROVE TypeOK
  OBVIOUS
<1>1. shown \cup saved \cup refused \cup unsaved \subseteq 1..MaxTurns
  BY Limits DEF LoopInv, Flow, SafeSoFar, Marks
<1> QED BY <1>1 DEF LoopInv, LoopFlags, Flow, LoopRecords, Replies, Trackers, TypeOK

\* The invariant says what the loop promises.
LEMMA LoopInvSafe == LoopInv => LoopSafe
<1> SUFFICES ASSUME LoopInv PROVE LoopSafe
  OBVIOUS
<1>1. RefusedNeverSeen /\ ShownIsSaved
  BY DEF LoopInv, SafeSoFar, KeptSoFar, RefusedNeverSeen, ShownIsSaved
<1>2. EndsAnswered /\ GateHeld
  BY DEF LoopInv, EndsSoFar, GateSoFar, EndsAnswered, GateHeld
<1>3. DoomBroken
  BY Limits, TrackerFields DEF LoopInv, LoopRecords, Streak, DoomBroken
<1> QED BY <1>1, <1>2, <1>3 DEF LoopSafe, RepliesKept, GuardsHold
-----------------------------------------------------------------------------
\* In a message of at least one inner turn, what the loop shows, stores and
\* refuses agrees, and neither the gate nor the doom-loop tracker is outrun
\* (_run_inner_core, _handle_empty_or_final_text, _DoomLoopTracker).
THEOREM LoopSafety ==
    ASSUME MaxTurns > 0
    PROVE  ConversationSpec => []LoopSafe
<1>1. ConversationInit => LoopInv
  BY LoopInitInv DEF ConversationInit
<1>2. LoopInv /\ [ConversationNext]_conversationVars => LoopInv'
  <2>1. [ConversationNext]_conversationVars => [Next]_loopVars
    BY DEF ConversationNext, conversationVars
  <2> QED BY <2>1, LoopStepInv
<1>3. LoopInv => LoopSafe
  BY LoopInvSafe
<1> QED BY <1>1, <1>2, <1>3, PTL DEF ConversationSpec
-----------------------------------------------------------------------------
(* The goal ledger.  A rewrite of the history marks the jobs whose rows it   *)
(* drops before it looks at the entries, and waits until the worker is idle  *)
(* or classifies: what is stored later has passed the marks.  Entries are in *)
(* the order of their rows, so what is cut is an end of the ledger, and the  *)
(* status of an entry depends on later ones only.                            *)

\* An entry of the ledger.
LedgerEntry == [row : Nat \ {0}, intent : Intents, status : Statuses, relates : Nat]

\* A job of the queue.
Job == [row : Nat \ {0}, gen : Nat]

\* The worker holds a job.
HasJob == worker.at \in {"list", "classify", "commit", "prune", "finish"}
\* and has not stored or given up its entry.
Unstored == worker.at \in {"list", "classify", "commit"}

\* The variables of the ledger.
LedgerTypes ==
    /\ entries \in Seq(LedgerEntry) /\ copied \in Seq(LedgerEntry) /\ queue \in Seq(Job)
    /\ pending \in Nat /\ gen \in Nat /\ said \in Nat /\ kept \subseteq Nat /\ hasty \in BOOLEAN /\ pruned \in BOOLEAN

\* What the worker carries, by its place.
WorkerFits ==
    /\ worker.at \in {"idle", "refresh", "show"} \/ HasJob
    /\ worker.at = "idle" => worker = Idle
    /\ HasJob => worker.job \in Job
    /\ worker.at = "classify" => worker.seen \in Seq(LedgerEntry)
    /\ worker.at = "commit" => worker.entry \in LedgerEntry

\* A rewrite that has not applied its effect yet.
Rewriting == rewrite.at \in {"drain", "read", "cut"}

\* What a rewrite carries, by its place.
RewriteFits ==
    /\ rewrite.at \in {"idle", "refresh", "show"} \/ Rewriting
    /\ rewrite.at = "idle" => rewrite = Idle
    /\ Rewriting => rewrite \in [at : {"drain", "read", "cut"}, op : {"drop", "copy", "clear"}, from : Nat]
    /\ rewrite.at = "cut" => rewrite.op = "drop"

\* Rows are queued and stored in the order they were said.
InOrder ==
    /\ \A k \in DOMAIN queue : queue[k].row <= said
    /\ \A j, k \in DOMAIN queue : j < k => queue[j].row < queue[k].row
    /\ \A i \in DOMAIN entries : entries[i].row <= said /\ entries[i].relates < entries[i].row
    /\ \A i, j \in DOMAIN entries : i < j => entries[i].row < entries[j].row
    /\ \A i \in DOMAIN entries, k \in DOMAIN queue : entries[i].row < queue[k].row

\* The row of the job comes after the stored ones and before the queued ones.
JobInOrder ==
    Unstored => /\ worker.job.row <= said
                /\ \A k \in DOMAIN queue : worker.job.row < queue[k].row
                /\ \A i \in DOMAIN entries : entries[i].row < worker.job.row

\* So do the entries its classification is based on.
SeenInOrder ==
    /\ worker.at = "classify" => \A i \in DOMAIN worker.seen : worker.seen[i].row < worker.job.row
    /\ worker.at = "commit" => /\ worker.entry.row = worker.job.row /\ worker.entry.relates < worker.entry.row
                               /\ worker.entry.status = Own(worker.entry)

\* The queue is counted, and no job is of a generation to come.
Marked ==
    /\ PendingExact
    /\ \A k \in DOMAIN queue : queue[k].gen <= gen
    /\ HasJob => worker.job.gen <= gen

\* A row that is in the history, or that the rewrite under way is about to drop.
Spared(row) ==
    \/ row \in kept
    \/ Rewriting /\ (rewrite.op = "clear" \/ (rewrite.op = "drop" /\ row >= rewrite.from))

\* A queued job is stale, or its row is in the history.
QueueCurrent == \A k \in DOMAIN queue : IsStale(queue[k]) \/ queue[k].row \in kept

\* So is the job in hand; what is about to be stored is stale only as long as
\* the rewrite that drops it still waits for the worker.
WorkerCurrent ==
    /\ worker.at \in {"list", "classify"} => IsStale(worker.job) \/ worker.job.row \in kept
    /\ worker.at = "commit" => /\ rewrite.at = "drain" => Spared(worker.job.row)
                               /\ rewrite.at # "drain" => worker.job.row \in kept

\* A stored entry is of a row in the history, or about to be dropped.
EntriesSpared == \A i \in DOMAIN entries : Spared(entries[i].row)


\* A rewrite that waited for the worker has the ledger to itself.
Alone == hasty \/ rewrite.at \in {"idle", "drain"} \/ (worker.at = "idle" /\ queue = <<>>)

\* Entries read for a view are the stored ones until the view is shown.
SeenFresh ==
    hasty \/ /\ worker.at = "show" => worker.seen = entries
             /\ rewrite.at = "show" => rewrite.seen = entries

\* With nothing to do and no view to build, the cached one is right.
CacheFresh ==
    \/ hasty \/ worker.at # "idle" \/ queue # <<>> \/ rewrite.at \in {"refresh", "show"}
    \/ cache \in {Unseen, View(entries)}

\* The inductive invariant.
LedgerInv ==
    /\ LedgerTypes /\ WorkerFits /\ RewriteFits /\ InOrder /\ JobInOrder /\ SeenInOrder /\ Marked
    /\ QueueCurrent /\ WorkerCurrent /\ EntriesSpared /\ StatusesImplied /\ Alone /\ SeenFresh /\ CacheFresh

\* A sequence that has grown by an element.
LEMMA Pushed ==
    ASSUME NEW S, NEW q \in Seq(S), NEW e \in S
    PROVE  /\ Append(q, e) \in Seq(S)
           /\ DOMAIN q = 1..Len(q) /\ Len(q) \in Nat
           /\ DOMAIN Append(q, e) = 1..Len(q) + 1
           /\ Len(Append(q, e)) = Len(q) + 1
           /\ \A k \in 1..Len(q) : Append(q, e)[k] = q[k]
           /\ Append(q, e)[Len(q) + 1] = e
BY AppendProperties, LenProperties

\* A sequence without its first element.
LEMMA Popped ==
    ASSUME NEW S, NEW q \in Seq(S), q # <<>>
    PROVE  /\ Head(q) = q[1] /\ Head(q) \in S /\ 1 \in DOMAIN q
           /\ DOMAIN q = 1..Len(q) /\ Len(q) \in Nat \ {0}
           /\ Tail(q) \in Seq(S)
           /\ Len(Tail(q)) = Len(q) - 1 /\ DOMAIN Tail(q) = 1..Len(q) - 1
           /\ \A k \in 1..Len(q) - 1 : Tail(q)[k] = q[k + 1]
<1>1. /\ Head(q) \in S /\ Tail(q) \in Seq(S) /\ Len(Tail(q)) = Len(q) - 1
      /\ \A k \in 1..Len(Tail(q)) : Tail(q)[k] = q[k + 1]
  BY HeadTailProperties
<1>2. Len(q) \in Nat \ {0} /\ DOMAIN q = 1..Len(q)
  BY EmptySeq, LenProperties
<1> QED
  BY <1>1, <1>2, LenProperties

\* Every set of positions that has an element has a greatest one.
LEMMA Greatest ==
    ASSUME NEW n \in Nat, NEW S \in SUBSET (1..n), S # {}
    PROVE  LET j == CHOOSE j \in S : \A k \in S : k <= j
           IN j \in S /\ \A k \in S : k <= j
<1>1. n \in {m \in Nat : \A k \in S : k <= m}
  OBVIOUS
<1>2. PICK m \in Nat : (\A k \in S : k <= m) /\ \A l \in Nat : (\A k \in S : k <= l) => m <= l
  BY <1>1, LeastNumber
<1>3. m \in S
  <2>1. CASE m = 0
    <3>1. PICK k \in S : TRUE
      OBVIOUS
    <3>2. k <= m /\ k \in 1..n
      BY <3>1, <1>2
    <3> QED
      BY <2>1, <3>2
  <2>2. CASE m # 0 /\ m \notin S
    <3>1. m - 1 \in Nat /\ \A k \in S : k <= m - 1
      BY <2>2, <1>2
    <3> QED
      BY <3>1, <1>2
  <2> QED
    BY <2>1, <2>2
<1> QED
  BY <1>2, <1>3

\* The entries that give the i-th one its status.
Later(es, i) == {j \in DOMAIN es : es[j].relates = es[i].row /\ es[j].intent \in DOMAIN Related}

\* Whether an entry is touched later is told by rows and relations alone.
LEMMA ImpliedSame ==
    ASSUME NEW es \in Seq(LedgerEntry), NEW fs \in Seq(LedgerEntry), NEW i \in DOMAIN es, i \in DOMAIN fs,
           es[i].intent = fs[i].intent, Later(es, i) = Later(fs, i),
           \A j \in Later(es, i) : es[j].intent = fs[j].intent
    PROVE  Implied(es, i) = Implied(fs, i)
<1>1. CASE Later(es, i) = {}
  BY <1>1 DEF Implied, Later, Own
<1>2. CASE Later(es, i) # {}
  <2>1. PICK j : j = CHOOSE m \in Later(es, i) : \A k \in Later(es, i) : k <= m
    OBVIOUS
  <2>2. Later(es, i) \subseteq 1..Len(es) /\ Len(es) \in Nat
    BY LenProperties DEF Later
  <2>3. j \in Later(es, i)
    BY <1>2, <2>1, <2>2, Greatest
  <2>4. Implied(es, i) = Related[es[j].intent]
    BY <1>2, <2>1 DEF Implied, Later
  <2>5. Implied(fs, i) = Related[fs[j].intent]
    BY <1>2, <2>1 DEF Implied, Later
  <2> QED
    BY <2>3, <2>4, <2>5
<1> QED
  BY <1>1, <1>2


\* The fields of the entries and of the jobs.
LEMMA LedgerFields ==
    ASSUME LedgerTypes
    PROVE  /\ DOMAIN entries = 1..Len(entries) /\ Len(entries) \in Nat
           /\ \A i \in DOMAIN entries : /\ entries[i] \in LedgerEntry /\ entries[i].row \in Nat \ {0}
                                        /\ entries[i].relates \in Nat /\ entries[i].row # None
           /\ DOMAIN queue = 1..Len(queue) /\ Len(queue) \in Nat
           /\ \A k \in DOMAIN queue : queue[k] \in Job /\ queue[k].row \in Nat \ {0} /\ queue[k].gen \in Nat
<1>1. entries \in Seq(LedgerEntry) /\ queue \in Seq(Job)
  BY DEF LedgerTypes
<1>2. \A i \in DOMAIN entries : entries[i] \in LedgerEntry
  BY <1>1
<1>3. \A k \in DOMAIN queue : queue[k] \in Job
  BY <1>1
<1> QED
  BY <1>1, <1>2, <1>3, LenProperties DEF LedgerEntry, Job, None

\* What the classifier says becomes an entry of the row; it relates to rows that
\* were said before.
LEMMA ClassifiedFits ==
    ASSUME NEW item \in Job, NEW seen \in Seq(LedgerEntry), NEW intent \in Intents, NEW relates \in Nat,
           \A i \in DOMAIN seen : seen[i].row < item.row
    PROVE  LET e == Classified(item, seen, intent, relates)
           IN e \in LedgerEntry /\ e.row = item.row /\ e.relates < e.row /\ e.status = Own(e)
<1>1. PICK last : last = View(seen)[1]
  OBVIOUS
<1>2. last \in Nat /\ last < item.row
  <2>1. PICK standing : standing = {i \in DOMAIN seen : seen[i].status = "active"}
    OBVIOUS
  <2>2. CASE standing = {}
    BY <1>1, <2>1, <2>2 DEF View, None, Job
  <2>3. CASE standing # {}
    <3>1. standing \in SUBSET (1..Len(seen)) /\ Len(seen) \in Nat
      BY <2>1, LenProperties
    <3>2. PICK j : j = CHOOSE m \in standing : \A k \in standing : k <= m
      OBVIOUS
    <3>3. j \in standing /\ j \in DOMAIN seen
      BY <2>1, <2>3, <3>1, <3>2, Greatest
    <3>4. last = seen[CHOOSE m \in standing : \A k \in standing : k <= m].row
      BY <1>1, <2>1, <2>3 DEF View
    <3>5. seen[j] \in LedgerEntry /\ last = seen[j].row
      BY <3>2, <3>3, <3>4
    <3> QED
      BY <3>3, <3>5 DEF LedgerEntry, Job
  <2> QED
    BY <2>2, <2>3
<1>3. PICK to : to = IF relates # None /\ Has(seen, relates) THEN relates ELSE IF intent # "noise" THEN last ELSE None
  OBVIOUS
<1>4. to \in Nat /\ to < item.row
  BY <1>2, <1>3 DEF Has, None, Job
<1>5. Classified(item, seen, intent, relates) =
        [row |-> item.row, intent |-> intent, relates |-> to, status |-> IF intent = "noise" THEN "satisfied" ELSE "active"]
  BY <1>1, <1>3 DEF Classified
<1> QED
  BY <1>4, <1>5 DEF LedgerEntry, Job, Own, Statuses

\* A change of the status of one row leaves the rest of the entries alone.
LEMMA WithStatusFits ==
    ASSUME NEW es \in Seq(LedgerEntry), NEW row, NEW status \in Statuses
    PROVE  LET ms == WithStatus(es, row, status)
           IN /\ ms \in Seq(LedgerEntry) /\ DOMAIN ms = DOMAIN es /\ Len(ms) = Len(es)
              /\ \A i \in DOMAIN es : /\ ms[i].row = es[i].row /\ ms[i].intent = es[i].intent
                                      /\ ms[i].relates = es[i].relates
                                      /\ ms[i].status = IF es[i].row = row THEN status ELSE es[i].status
<1>1. PICK ms : ms = WithStatus(es, row, status)
  OBVIOUS
<1>2. DOMAIN ms = DOMAIN es
  BY <1>1 DEF WithStatus
<1>3. ASSUME NEW i \in DOMAIN es
      PROVE  /\ ms[i] \in LedgerEntry
             /\ ms[i].row = es[i].row /\ ms[i].intent = es[i].intent /\ ms[i].relates = es[i].relates
             /\ ms[i].status = IF es[i].row = row THEN status ELSE es[i].status
  <2>1. es[i] \in LedgerEntry
    OBVIOUS
  <2>2. ms[i] = IF es[i].row = row THEN [es[i] EXCEPT !.status = status] ELSE es[i]
    BY <1>1 DEF WithStatus
  <2> QED
    BY <2>1, <2>2 DEF LedgerEntry
<1>4. ms \in Seq(LedgerEntry) /\ Len(ms) = Len(es)
  <2>1. DOMAIN es = 1..Len(es) /\ Len(es) \in Nat
    BY LenProperties
  <2>2. ms = [i \in 1..Len(es) |-> ms[i]]
    BY <1>1, <2>1 DEF WithStatus
  <2>3. ms \in Seq(LedgerEntry)
    BY <1>3, <2>1, <2>2
  <2> QED
    BY <1>2, <2>1, <2>3, LenProperties
<1> QED
  BY <1>1, <1>2, <1>3, <1>4

\* The entries before the first one of a dropped row.
LEMMA FirstDroppedFits ==
    ASSUME NEW es \in Seq(LedgerEntry), NEW from \in Nat
    PROVE  /\ FirstDropped(es, from) \in 1..Len(es) + 1
           /\ \A i \in 1..FirstDropped(es, from) - 1 : es[i].row < from
<1>1. PICK late : late = {i \in DOMAIN es : es[i].row >= from}
  OBVIOUS
<1>2. DOMAIN es = 1..Len(es) /\ Len(es) \in Nat /\ \A i \in DOMAIN es : es[i] \in LedgerEntry /\ es[i].row \in Nat
  <2>1. \A i \in DOMAIN es : es[i] \in LedgerEntry
    OBVIOUS
  <2> QED
    BY <2>1, LenProperties DEF LedgerEntry
<1>3. CASE late = {}
  BY <1>1, <1>2, <1>3 DEF FirstDropped
<1>4. CASE late # {}
  <2>1. \E m \in late : \A j \in late : m <= j
    BY <1>1, <1>2, <1>4, LeastNumber
  <2>2. PICK c : c = CHOOSE m \in late : \A j \in late : m <= j
    OBVIOUS
  <2>3. c \in late /\ \A j \in late : c <= j
    BY <2>1, <2>2
  <2>4. FirstDropped(es, from) = c
    BY <1>1, <1>4, <2>2 DEF FirstDropped
  <2> QED
    BY <1>1, <1>2, <2>3, <2>4
<1> QED
  BY <1>3, <1>4

\* What is left without the dropped entries: the ones before, with the status
\* that the ones left imply if a dropped one has touched it.
LEMMA WithoutDroppedFits ==
    ASSUME NEW es \in Seq(LedgerEntry), NEW cut \in 1..Len(es) + 1
    PROVE  LET ws == WithoutDropped(es, cut)
           IN /\ ws \in Seq(LedgerEntry) /\ DOMAIN ws = 1..cut - 1 /\ DOMAIN ws \subseteq DOMAIN es
              /\ \A i \in 1..cut - 1 : /\ ws[i].row = es[i].row /\ ws[i].intent = es[i].intent
                                       /\ ws[i].relates = es[i].relates
              /\ (\A i \in DOMAIN es : es[i].status = Implied(es, i))
                    => \A i \in DOMAIN ws : ws[i].status = Implied(ws, i)
<1>1. PICK n \in Nat : n = Len(es) /\ DOMAIN es = 1..n
  BY LenProperties
<1>2. \A i \in 1..n : es[i] \in LedgerEntry
  BY <1>1
<1>3. PICK stay : stay = Before(es, cut)
  OBVIOUS
<1>4. stay \in Seq(LedgerEntry) /\ DOMAIN stay = 1..cut - 1 /\ \A i \in 1..cut - 1 : stay[i] = es[i]
  <2>1. \A i \in 1..cut - 1 : es[i] \in LedgerEntry
    BY <1>1, <1>2
  <2>2. 1 \in Int /\ cut - 1 \in Int
    OBVIOUS
  <2>3. /\ SubSeq(es, 1, cut - 1) \in Seq(LedgerEntry)
        /\ Len(SubSeq(es, 1, cut - 1)) = IF 1 <= cut - 1 THEN cut - 1 - 1 + 1 ELSE 0
        /\ \A i \in 1..cut - 1 - 1 + 1 : SubSeq(es, 1, cut - 1)[i] = es[1 + i - 1]
    BY <2>1, <2>2, SubSeqProperties
  <2>4. Len(stay) = cut - 1 /\ stay \in Seq(LedgerEntry) /\ \A i \in 1..cut - 1 : stay[i] = es[i]
    BY <1>1, <1>3, <2>3 DEF Before
  <2> QED
    BY <2>4, LenProperties
<1>5. PICK touched : touched = {es[i].relates : i \in {j \in cut..Len(es) : es[j].intent \in DOMAIN Related}}
  OBVIOUS
<1>6. PICK ws : ws = WithoutDropped(es, cut)
  OBVIOUS
<1>7. ws = [i \in DOMAIN stay |-> IF stay[i].row \in touched THEN [stay[i] EXCEPT !.status = Implied(stay, i)] ELSE stay[i]]
  BY <1>3, <1>5, <1>6 DEF WithoutDropped
<1>8. ASSUME NEW i \in 1..cut - 1 PROVE Implied(stay, i) \in Statuses
  <2>1. CASE Later(stay, i) = {}
    BY <2>1 DEF Implied, Later, Own, Statuses
  <2>2. CASE Later(stay, i) # {}
    <3>1. PICK m \in Nat : m = cut - 1
      BY <1>1
    <3>2. Later(stay, i) \in SUBSET (1..m)
      BY <1>4, <3>1 DEF Later
    <3>3. PICK j : j = CHOOSE l \in Later(stay, i) : \A k \in Later(stay, i) : k <= l
      OBVIOUS
    <3>4. j \in Later(stay, i)
      BY <2>2, <3>2, <3>3, Greatest
    <3>5. Implied(stay, i) = Related[stay[j].intent]
      BY <2>2, <3>3 DEF Implied, Later
    <3> QED
      BY <3>4, <3>5 DEF Later, Related, Statuses
  <2> QED
    BY <2>1, <2>2
<1>9. DOMAIN ws = 1..cut - 1
  BY <1>4, <1>7
<1>10. ASSUME NEW i \in 1..cut - 1
       PROVE  /\ ws[i] \in LedgerEntry
              /\ ws[i].row = es[i].row /\ ws[i].intent = es[i].intent /\ ws[i].relates = es[i].relates
              /\ ws[i].status = IF es[i].row \in touched THEN Implied(stay, i) ELSE es[i].status
  <2>1. ws[i] = IF stay[i].row \in touched THEN [stay[i] EXCEPT !.status = Implied(stay, i)] ELSE stay[i]
    BY <1>4, <1>7
  <2>2. stay[i] = es[i] /\ es[i] \in LedgerEntry /\ Implied(stay, i) \in Statuses
    BY <1>1, <1>2, <1>4, <1>8
  <2> QED
    BY <2>1, <2>2 DEF LedgerEntry
<1>11. ws \in Seq(LedgerEntry)
  <2>1. ws \in [1..cut - 1 -> LedgerEntry] /\ cut - 1 \in Nat
    BY <1>1, <1>4, <1>7, <1>10
  <2> QED
    BY <2>1
<1>12. ASSUME \A i \in DOMAIN es : es[i].status = Implied(es, i), NEW i \in 1..cut - 1
       PROVE  ws[i].status = Implied(ws, i)
  <2>1. Later(stay, i) = Later(ws, i) /\ \A j \in Later(stay, i) : stay[j].intent = ws[j].intent
    BY <1>4, <1>9, <1>10 DEF Later
  <2>2. Implied(stay, i) = Implied(ws, i)
    <3>1. i \in DOMAIN stay /\ i \in DOMAIN ws /\ stay[i].intent = ws[i].intent
      BY <1>4, <1>9, <1>10
    <3> QED
      BY <1>4, <1>11, <2>1, <3>1, ImpliedSame
  <2>3. CASE es[i].row \in touched
    BY <1>10, <2>2, <2>3
  <2>4. CASE es[i].row \notin touched
    <3>1. \A j \in cut..n : ~(es[j].relates = es[i].row /\ es[j].intent \in DOMAIN Related)
      BY <1>1, <1>5, <2>4
    <3>2. Later(stay, i) = Later(es, i)
      BY <1>1, <1>4, <3>1 DEF Later
    <3>3. \A j \in Later(stay, i) : stay[j].intent = es[j].intent
      BY <1>4 DEF Later
    <3>4. Implied(stay, i) = Implied(es, i)
      <4>1. i \in DOMAIN stay /\ i \in DOMAIN es /\ stay[i].intent = es[i].intent
        BY <1>1, <1>4
      <4> QED
        BY <1>4, <3>2, <3>3, <4>1, ImpliedSame
    <3>5. i \in DOMAIN es
      BY <1>1
    <3> QED
      BY <1>10, <1>12, <2>2, <2>4, <3>4, <3>5
  <2> QED
    BY <2>3, <2>4
<1> QED
  BY <1>1, <1>6, <1>9, <1>10, <1>11, <1>12

\* A row that is said comes after all others, and is in the history.
LEMMA AdmitLedger ==
    ASSUME LedgerInv, Admit
    PROVE  LedgerInv'
<1> USE DEF LedgerInv
<1>a. PICK new \in Job : new = [row |-> said + 1, gen |-> gen] /\ new.row = said + 1 /\ new.gen = gen
  <2>1. [row |-> said + 1, gen |-> gen] \in Job
    BY DEF LedgerTypes, Job
  <2> QED
    BY <2>1
<1>b. /\ queue' = Append(queue, new) /\ said' = said + 1 /\ pending' = pending + 1
      /\ UNCHANGED <<entries, worker, gen, droppedRows>>
  BY <1>a DEF Admit
<1>c. /\ DOMAIN queue = 1..Len(queue) /\ Len(queue) \in Nat /\ DOMAIN queue' = 1..Len(queue) + 1
      /\ Len(queue') = Len(queue) + 1
      /\ \A k \in 1..Len(queue) : queue'[k] = queue[k] /\ queue[k] \in Job
      /\ queue'[Len(queue) + 1] = new
  BY <1>a, <1>b, Pushed DEF LedgerTypes
<1>1. LedgerTypes'
  BY DEF Admit, LedgerTypes, LedgerEntry, Job
<1>2. WorkerFits'
  BY DEF Admit, WorkerFits, HasJob
<1>3. RewriteFits'
  BY DEF Admit, RewriteFits, Rewriting
<1>4. InOrder'
  <2>1. said \in Nat /\ \A k \in 1..Len(queue) : queue[k].row \in Nat
    BY LedgerFields DEF LedgerTypes
  <2>2. \A k \in DOMAIN queue' : queue'[k].row <= said'
    BY <1>a, <1>b, <1>c, <2>1 DEF InOrder
  <2>3. \A j, k \in DOMAIN queue' : j < k => queue'[j].row < queue'[k].row
    BY <1>a, <1>b, <1>c, <2>1 DEF InOrder
  <2>4. \A i \in DOMAIN entries : entries[i].row \in Nat
    BY LedgerFields
  <2>5. \A i \in DOMAIN entries, k \in DOMAIN queue' : entries[i].row < queue'[k].row
    BY <1>a, <1>b, <1>c, <2>1, <2>4 DEF InOrder
  <2>6. \A i \in DOMAIN entries : entries[i].row <= said'
    BY <1>b, <2>1, <2>4 DEF InOrder
  <2> QED
    BY <1>b, <2>2, <2>3, <2>5, <2>6 DEF InOrder
<1>5. JobInOrder'
  BY <1>a, <1>b, <1>c DEF JobInOrder, InOrder, Unstored, WorkerFits, HasJob, LedgerTypes, LedgerEntry, Job
<1>6. SeenInOrder'
  BY DEF Admit, SeenInOrder
<1>7. Marked'
  <2>1. PICK busy \in Nat : busy = IF worker.at \in {"idle", "refresh", "show"} THEN 0 ELSE 1
    OBVIOUS
  <2>2. pending = Len(queue) + busy /\ pending' = Len(queue') + busy /\ pending' # 0
    <3>1. pending = Len(queue) + busy
      BY <2>1 DEF Marked, PendingExact
    <3>2. Len(queue') = Len(queue) + 1 /\ pending' = pending + 1 /\ Len(queue) \in Nat
      BY <1>b, <1>c
    <3> QED
      BY <3>1, <3>2
  <2>4. worker' = worker /\ gen' = gen
    BY <1>b
  <2>3. \A k \in DOMAIN queue' : queue'[k].gen <= gen
    BY <1>a, <1>c DEF Marked, LedgerTypes
  <2> QED
    BY <2>1, <2>2, <2>3, <2>4 DEF Marked, PendingExact, HasJob
<1>8. QueueCurrent'
  <2>1. kept' = kept \union {said + 1}
    BY DEF Admit
  <2> QED
    BY <1>a, <1>b, <1>c, <2>1 DEF QueueCurrent, IsStale
<1>9. WorkerCurrent'
  BY DEF Admit, WorkerCurrent, WorkerFits, HasJob, Job, LedgerTypes, Spared, Rewriting, IsStale
<1>10. EntriesSpared'
  BY DEF Admit, EntriesSpared, Spared, Rewriting
<1>11. StatusesImplied'
  BY DEF Admit, StatusesImplied
<1>12. Alone'
  BY DEF Admit, Alone, RewriteFits, Rewriting, Idle
<1>13. SeenFresh'
  BY DEF Admit, SeenFresh, Alone
<1>14. CacheFresh'
  BY DEF Admit, CacheFresh, Alone, Idle, RewriteFits, WorkerFits, Rewriting
<1> QED BY <1>1, <1>2, <1>3, <1>4, <1>5, <1>6, <1>7, <1>8, <1>9, <1>10, <1>11, <1>12, <1>13, <1>14

\* The first job leaves the queue, and may be stale already.
LEMMA TakeLedger ==
    ASSUME LedgerInv, Take
    PROVE  LedgerInv'
<1> USE DEF LedgerInv
<1>a. /\ queue # <<>> /\ queue' = Tail(queue) /\ worker = Idle
      /\ worker' = [at |-> IF IsStale(Head(queue)) THEN "finish" ELSE "list", job |-> Head(queue)]
      /\ UNCHANGED <<entries, pending, gen, droppedRows, said, rewrite, kept>>
  BY DEF Take
<1>b. /\ Head(queue) = queue[1] /\ Head(queue) \in Job /\ 1 \in DOMAIN queue
      /\ DOMAIN queue = 1..Len(queue) /\ Len(queue) \in Nat \ {0} /\ queue' \in Seq(Job)
      /\ Len(queue') = Len(queue) - 1 /\ DOMAIN queue' = 1..Len(queue) - 1
      /\ \A k \in 1..Len(queue) - 1 : queue'[k] = queue[k + 1]
  BY <1>a, Popped DEF LedgerTypes
<1>c. /\ worker.at = "idle" /\ worker'.at \in {"finish", "list"} /\ worker'.job = queue[1]
      /\ worker'.at = "list" => ~IsStale(queue[1])
  BY <1>a, <1>b DEF Idle
<1>d. queue[1] \in Job /\ \A k \in DOMAIN queue : queue[k] \in Job
  BY <1>b DEF LedgerTypes
<1>1. LedgerTypes'
  BY DEF Take, LedgerTypes, LedgerEntry, Job
<1>2. WorkerFits'
  BY <1>b, <1>c DEF WorkerFits, HasJob
<1>3. RewriteFits'
  BY DEF Take, RewriteFits, Rewriting
<1>4. InOrder'
  <2>1. \A k \in DOMAIN queue' : k \in 1..Len(queue) - 1 /\ k + 1 \in DOMAIN queue /\ queue'[k] = queue[k + 1]
    BY <1>b
  <2>2. \A j, k \in DOMAIN queue' : j < k => queue'[j].row < queue'[k].row
    BY <1>b, <2>1 DEF InOrder
  <2> QED
    BY <1>a, <2>1, <2>2 DEF InOrder
<1>5. JobInOrder'
  <2>1. queue[1].row <= said /\ \A i \in DOMAIN entries : entries[i].row < queue[1].row
    BY <1>b DEF InOrder
  <2>2. \A k \in DOMAIN queue' : k \in 1..Len(queue) - 1 /\ k + 1 \in DOMAIN queue /\ queue'[k] = queue[k + 1] /\ 1 < k + 1
    BY <1>b
  <2>3. \A k \in DOMAIN queue' : queue[1].row < queue'[k].row
    BY <1>b, <2>2 DEF InOrder
  <2> QED
    BY <1>a, <1>c, <2>1, <2>3 DEF JobInOrder
<1>6. SeenInOrder'
  BY <1>c DEF SeenInOrder
<1>7. Marked'
  <2>1. pending = Len(queue) /\ (pending = 0 => droppedRows = {}) /\ \A k \in DOMAIN queue : queue[k].gen <= gen
    BY <1>b, <1>c DEF Marked, PendingExact
  <2>2. \A k \in DOMAIN queue' : queue'[k].gen <= gen
    BY <1>b, <2>1
  <2>3. worker'.job.gen <= gen
    BY <1>b, <1>c, <2>1
  <2>4. pending = Len(queue') + 1
    BY <1>b, <2>1
  <2> QED
    BY <1>a, <1>c, <2>1, <2>2, <2>3, <2>4 DEF Marked, PendingExact, HasJob
<1>8. QueueCurrent'
  BY <1>a, <1>b DEF QueueCurrent, IsStale
<1>9. WorkerCurrent'
  BY <1>a, <1>b, <1>c DEF WorkerCurrent, QueueCurrent, IsStale
<1>10. EntriesSpared'
  BY DEF Take, EntriesSpared, Spared, Rewriting
<1>11. StatusesImplied'
  BY DEF Take, StatusesImplied
<1>12. Alone'
  <2>1. rewrite = Idle => rewrite.at = "idle"
    BY DEF Idle
  <2>2. rewrite.at \in {"idle", "drain"} \/ hasty
    BY <1>a DEF Alone
  <2>3. hasty' = (hasty /\ rewrite # Idle)
    BY DEF Take
  <2>4. hasty' \/ rewrite.at \in {"idle", "drain"}
    BY <2>1, <2>2, <2>3 DEF RewriteFits
  <2> QED
    BY <1>a, <2>4 DEF Alone
<1>13. SeenFresh'
  <2>1. hasty' = (hasty /\ rewrite # Idle)
    BY DEF Take
  <2>2. ~hasty' => rewrite.at # "show"
    BY <1>a, <2>1 DEF Alone, Idle, LedgerTypes
  <2> QED
    BY <1>a, <1>c, <2>2 DEF SeenFresh
<1>14. CacheFresh'
  BY DEF Take, CacheFresh, Alone, Idle, RewriteFits, WorkerFits, Rewriting
<1> QED BY <1>1, <1>2, <1>3, <1>4, <1>5, <1>6, <1>7, <1>8, <1>9, <1>10, <1>11, <1>12, <1>13, <1>14

\* What a classification is based on are entries of earlier rows.
LEMMA ListLedger ==
    ASSUME LedgerInv, List
    PROVE  LedgerInv'
<1> USE DEF LedgerInv
<1>1. LedgerTypes'
  BY DEF List, LedgerTypes, LedgerEntry, Job
<1>2. WorkerFits'
  BY DEF List, WorkerFits, HasJob, LedgerTypes
<1>3. RewriteFits'
  BY DEF List, RewriteFits, Rewriting
<1>4. InOrder'
  BY DEF List, InOrder
<1>5. JobInOrder'
  BY DEF List, JobInOrder, Unstored
<1>6. SeenInOrder'
  BY DEF List, SeenInOrder, JobInOrder, Unstored
<1>7. Marked'
  BY DEF List, Marked, PendingExact, HasJob
<1>8. QueueCurrent'
  BY DEF List, QueueCurrent, IsStale, LedgerTypes, Job
<1>9. WorkerCurrent'
  BY DEF List, WorkerCurrent, WorkerFits, HasJob, Job, LedgerTypes, Spared, Rewriting, IsStale
<1>10. EntriesSpared'
  BY DEF List, EntriesSpared, Spared, Rewriting
<1>11. StatusesImplied'
  BY DEF List, StatusesImplied
<1>12. Alone'
  BY DEF List, Alone, RewriteFits, Rewriting, Idle
<1>13. SeenFresh'
  BY DEF List, SeenFresh, Alone
<1>14. CacheFresh'
  BY DEF List, CacheFresh, Alone, Idle, RewriteFits, WorkerFits, Rewriting
<1> QED BY <1>1, <1>2, <1>3, <1>4, <1>5, <1>6, <1>7, <1>8, <1>9, <1>10, <1>11, <1>12, <1>13, <1>14

\* A job that has gone stale meanwhile is given up.
LEMMA ClassifyLedger ==
    ASSUME LedgerInv, NEW intent \in Intents, NEW relates \in 0..MaxRows, Classify(intent, relates)
    PROVE  LedgerInv'
<1> USE DEF LedgerInv
<1>a. PICK e : e = Classified(worker.job, worker.seen, intent, relates)
  OBVIOUS
<1>b. worker.at = "classify" /\ worker.job \in Job /\ worker.seen \in Seq(LedgerEntry)
  BY DEF Classify, WorkerFits, HasJob
<1>c. e \in LedgerEntry /\ e.row = worker.job.row /\ e.relates < e.row /\ e.status = Own(e)
  <2>1. relates \in Nat /\ \A i \in DOMAIN worker.seen : worker.seen[i].row < worker.job.row
    BY <1>b DEF SeenInOrder
  <2> QED
    BY <1>a, <1>b, <2>1, ClassifiedFits
<1>d. \/ worker'.at = "finish" /\ worker'.job = worker.job
      \/ /\ ~IsStale(worker.job) /\ worker'.at = "commit" /\ worker'.job = worker.job /\ worker'.entry = e
  BY <1>a DEF Classify
<1>1. LedgerTypes'
  BY DEF Classify, LedgerTypes, LedgerEntry, Job
<1>2. WorkerFits'
  BY <1>b, <1>c, <1>d DEF WorkerFits, HasJob
<1>3. RewriteFits'
  BY DEF Classify, RewriteFits, Rewriting
<1>4. InOrder'
  BY DEF Classify, InOrder
<1>5. JobInOrder'
  BY DEF Classify, JobInOrder, Unstored
<1>6. SeenInOrder'
  BY <1>c, <1>d DEF SeenInOrder
<1>7. Marked'
  BY DEF Classify, Marked, PendingExact, HasJob
<1>8. QueueCurrent'
  BY DEF Classify, QueueCurrent, IsStale, LedgerTypes, Job
<1>9. WorkerCurrent'
  BY DEF Classify, WorkerCurrent, WorkerFits, HasJob, Job, LedgerTypes, Spared, Rewriting, IsStale
<1>10. EntriesSpared'
  BY DEF Classify, EntriesSpared, Spared, Rewriting
<1>11. StatusesImplied'
  BY DEF Classify, StatusesImplied
<1>12. Alone'
  BY DEF Classify, Alone, RewriteFits, Rewriting, Idle
<1>13. SeenFresh'
  BY DEF Classify, SeenFresh, Alone
<1>14. CacheFresh'
  BY DEF Classify, CacheFresh, Alone, Idle, RewriteFits, WorkerFits, Rewriting
<1> QED BY <1>1, <1>2, <1>3, <1>4, <1>5, <1>6, <1>7, <1>8, <1>9, <1>10, <1>11, <1>12, <1>13, <1>14

\* The new entry is the last one, and the only one to touch another.
LEMMA CommitLedger ==
    ASSUME LedgerInv, Commit
    PROVE  LedgerInv'
<1> USE DEF LedgerInv
<1>a. PICK e \in LedgerEntry : e = worker.entry
  BY DEF Commit, WorkerFits
<1>b. PICK ms : ms = IF e.intent \in DOMAIN Related /\ e.relates # None
                     THEN WithStatus(entries, e.relates, Related[e.intent]) ELSE entries
  OBVIOUS
<1>c. /\ entries' = Append(ms, e) /\ worker.at = "commit" /\ worker' = [at |-> "prune", job |-> worker.job]
      /\ UNCHANGED <<queue, said, kept, rewrite>>
  BY <1>a, <1>b DEF Commit
<1>d. /\ ms \in Seq(LedgerEntry) /\ DOMAIN ms = DOMAIN entries /\ Len(ms) = Len(entries)
      /\ \A i \in DOMAIN entries : /\ ms[i].row = entries[i].row /\ ms[i].intent = entries[i].intent
                                   /\ ms[i].relates = entries[i].relates
                                   /\ ms[i].status = IF e.intent \in DOMAIN Related /\ entries[i].row = e.relates
                                                     THEN Related[e.intent] ELSE entries[i].status
  <2>1. e.intent \in DOMAIN Related => Related[e.intent] \in Statuses
    BY DEF Related, Statuses
  <2>2. entries \in Seq(LedgerEntry) /\ \A i \in DOMAIN entries : entries[i].row # None
    BY LedgerFields DEF LedgerTypes
  <2> QED
    BY <1>b, <2>1, <2>2, WithStatusFits
<1>e. /\ entries' \in Seq(LedgerEntry) /\ DOMAIN entries = 1..Len(entries) /\ Len(entries) \in Nat
      /\ DOMAIN entries' = 1..Len(entries) + 1
      /\ \A i \in 1..Len(entries) : entries'[i] = ms[i] /\ entries[i] \in LedgerEntry /\ entries'[i].row = entries[i].row
                                   /\ entries'[i].intent = entries[i].intent /\ entries'[i].relates = entries[i].relates
      /\ entries'[Len(entries) + 1] = e
  <2>1. /\ entries' \in Seq(LedgerEntry) /\ DOMAIN entries' = 1..Len(entries) + 1
        /\ \A i \in 1..Len(entries) : entries'[i] = ms[i]
        /\ entries'[Len(entries) + 1] = e
    BY <1>c, <1>d, Pushed
  <2> QED
    BY <1>d, <2>1, LedgerFields
<1>f. /\ e.row = worker.job.row /\ e.relates < e.row /\ e.status = Own(e) /\ e.row <= said
      /\ \A i \in DOMAIN entries : entries[i].row < e.row
      /\ \A k \in DOMAIN queue : e.row < queue[k].row
  BY <1>a, <1>c DEF SeenInOrder, JobInOrder, Unstored
<1>1. LedgerTypes'
  BY <1>e DEF Commit, LedgerTypes
<1>2. WorkerFits'
  BY DEF Commit, WorkerFits, HasJob
<1>3. RewriteFits'
  BY DEF Commit, RewriteFits, Rewriting
<1>4. InOrder'
  <2>1. \A i \in DOMAIN entries' : entries'[i].row <= said /\ entries'[i].relates < entries'[i].row
    BY <1>e, <1>f DEF InOrder
  <2>2. ASSUME NEW i \in DOMAIN entries', NEW j \in DOMAIN entries', i < j PROVE entries'[i].row < entries'[j].row
    <3>1. i \in DOMAIN entries
      BY <1>e, <2>2
    <3>2. CASE j \in DOMAIN entries
      BY <1>e, <2>2, <3>1, <3>2 DEF InOrder
    <3>3. CASE j = Len(entries) + 1
      BY <1>e, <1>f, <3>1, <3>3
    <3> QED
      BY <1>e, <3>2, <3>3
  <2>3. \A i \in DOMAIN entries', k \in DOMAIN queue : entries'[i].row < queue[k].row
    BY <1>e, <1>f DEF InOrder
  <2> QED
    BY <1>c, <2>1, <2>2, <2>3 DEF InOrder
<1>5. JobInOrder'
  BY DEF Commit, JobInOrder, Unstored
<1>6. SeenInOrder'
  BY DEF Commit, SeenInOrder
<1>7. Marked'
  BY DEF Commit, Marked, PendingExact, HasJob
<1>8. QueueCurrent'
  BY DEF Commit, QueueCurrent, IsStale, LedgerTypes, Job
<1>9. WorkerCurrent'
  BY DEF Commit, WorkerCurrent, WorkerFits, HasJob, Job, LedgerTypes, Spared, Rewriting, IsStale
<1>10. EntriesSpared'
  <2>1. Spared(e.row)
    BY <1>c, <1>f DEF WorkerCurrent, Spared
  <2>2. \A i \in DOMAIN entries' : Spared(entries'[i].row)
    BY <1>e, <2>1 DEF EntriesSpared
  <2> QED
    BY <1>c, <2>2 DEF EntriesSpared, Spared, Rewriting
<1>11. StatusesImplied'
  <2>1. SUFFICES ASSUME ~pruned PROVE /\ \A i \in DOMAIN entries' : entries'[i].status = Implied(entries', i)
                                      /\ \A i \in DOMAIN copied : copied[i].status = Implied(copied, i)
    BY DEF Commit, StatusesImplied
  <2>2. \A i \in DOMAIN copied : copied[i].status = Implied(copied, i)
    BY <2>1 DEF StatusesImplied
  <2>3. PICK es \in Seq(LedgerEntry) : es = entries /\ \A i \in DOMAIN es : es[i].status = Implied(es, i)
    BY <2>1 DEF StatusesImplied, LedgerTypes
  <2>4. PICK n \in Nat : n = Len(es) /\ DOMAIN es = 1..n
    BY <1>e, <2>3
  <2>5. PICK fs \in Seq(LedgerEntry) : fs = entries'
    BY <1>e
  <2>6. /\ DOMAIN fs = 1..n + 1 /\ fs[n + 1] = e
        /\ \A i \in 1..n : /\ fs[i].row = es[i].row /\ fs[i].intent = es[i].intent /\ fs[i].relates = es[i].relates
                         /\ fs[i].status = IF e.intent \in DOMAIN Related /\ es[i].row = e.relates
                                           THEN Related[e.intent] ELSE es[i].status
    BY <1>d, <1>e, <2>3, <2>4, <2>5
  <2>7. \A i \in 1..n : es[i].row < e.row /\ es[i].relates < e.row /\ es[i] \in LedgerEntry
    <3>1. \A i \in DOMAIN entries : entries[i].relates < entries[i].row /\ entries[i].row < e.row
      BY <1>f DEF InOrder
    <3> QED
      BY <2>3, <2>4, <3>1, LedgerFields DEF LedgerEntry
  <2>8. ASSUME NEW i \in 1..n PROVE fs[i].status = Implied(fs, i)
    <3>1. CASE e.intent \in DOMAIN Related /\ es[i].row = e.relates
      <4>1. n + 1 \in Later(fs, i) /\ Later(fs, i) \in SUBSET (1..n + 1)
        BY <2>6, <3>1 DEF Later
      <4>2. PICK j : j = CHOOSE m \in Later(fs, i) : \A k \in Later(fs, i) : k <= m
        OBVIOUS
      <4>3. j \in Later(fs, i) /\ \A k \in Later(fs, i) : k <= j
        <5>1. n + 1 \in Nat /\ Later(fs, i) # {}
          BY <4>1
        <5> QED
          BY <4>1, <4>2, <5>1, Greatest
      <4>4. j = n + 1
        BY <4>1, <4>3
      <4>5. Implied(fs, i) = Related[fs[j].intent]
        BY <4>1, <4>2 DEF Implied, Later
      <4> QED
        BY <2>6, <3>1, <4>4, <4>5
    <3>2. CASE ~(e.intent \in DOMAIN Related /\ es[i].row = e.relates)
      <4>1. Later(es, i) = Later(fs, i)
        BY <2>4, <2>6, <3>2 DEF Later
      <4>2. \A j \in Later(es, i) : es[j].intent = fs[j].intent
        BY <2>4, <2>6 DEF Later
      <4>3. Implied(es, i) = Implied(fs, i)
        <5>1. i \in DOMAIN es /\ i \in DOMAIN fs /\ es[i].intent = fs[i].intent
          BY <2>4, <2>6
        <5> QED
          BY <4>1, <4>2, <5>1, ImpliedSame
      <4>4. fs[i].status = es[i].status
        BY <2>6, <3>2
      <4> QED
        BY <2>3, <2>4, <4>3, <4>4
    <3> QED
      BY <3>1, <3>2
  <2>9. fs[n + 1].status = Implied(fs, n + 1)
    <3>1. Later(fs, n + 1) = {}
      BY <1>f, <2>6, <2>7 DEF Later, LedgerEntry
    <3>2. Implied(fs, n + 1) = Own(e)
      BY <2>6, <3>1 DEF Implied, Later
    <3> QED
      BY <1>f, <2>6, <3>2
  <2> QED
    BY <2>2, <2>5, <2>6, <2>8, <2>9
<1>12. Alone'
  BY DEF Commit, Alone, RewriteFits, Rewriting, Idle
<1>13. SeenFresh'
  BY DEF Commit, SeenFresh, Alone
<1>14. CacheFresh'
  BY DEF Commit, CacheFresh, Alone, Idle, RewriteFits, WorkerFits, Rewriting
<1> QED BY <1>1, <1>2, <1>3, <1>4, <1>5, <1>6, <1>7, <1>8, <1>9, <1>10, <1>11, <1>12, <1>13, <1>14

\* The entries that stay keep their order.
LEMMA PruneLedger ==
    ASSUME LedgerInv, Prune
    PROVE  LedgerInv'
<1> USE DEF LedgerInv
<1>a. PICK keep \in SUBSET DOMAIN entries : entries' = entries \/ entries' = Sublist(entries, keep)
  <2> DEFINE over == {i \in DOMAIN entries : entries[i].status \in {"superseded", "satisfied"}}
             many == Len(entries) - MaxEntries
             goes == {j \in over : Cardinality({k \in over : k < j}) < many}
  <2>1. entries' = entries \/ entries' = Sublist(entries, DOMAIN entries \ goes)
    BY DEF Prune
  <2>2. DOMAIN entries \ goes \in SUBSET DOMAIN entries
    OBVIOUS
  <2> QED
    BY <2>1, <2>2
<1>b. PICK at \in [DOMAIN entries' -> DOMAIN entries] :
          /\ entries' \in Seq(LedgerEntry)
          /\ \A i \in DOMAIN entries' : entries'[i] = entries[at[i]]
          /\ \A i, j \in DOMAIN entries' : i < j => at[i] < at[j]
  <2>1. CASE entries' = entries
    <3>1. [i \in DOMAIN entries |-> i] \in [DOMAIN entries' -> DOMAIN entries]
      BY <2>1
    <3> QED
      BY <2>1, <3>1 DEF LedgerTypes
  <2>2. CASE entries' = Sublist(entries, keep)
    <3>1. PICK es \in Seq(LedgerEntry) : es = entries
      BY DEF LedgerTypes
    <3>2. /\ Sublist(es, keep) \in Seq(LedgerEntry)
          /\ \A k \in DOMAIN Sublist(es, keep) : Place(keep, k) \in keep /\ Sublist(es, keep)[k] = es[Place(keep, k)]
          /\ \A k, l \in DOMAIN Sublist(es, keep) : k < l => Place(keep, k) < Place(keep, l)
      BY <3>1, SublistType, SublistElements, SublistOrder
    <3>3. [k \in DOMAIN Sublist(es, keep) |-> Place(keep, k)] \in [DOMAIN entries' -> DOMAIN entries]
      BY <2>2, <3>1, <3>2
    <3> QED
      BY <2>2, <3>1, <3>2, <3>3
  <2> QED
    BY <1>a, <2>1, <2>2
<1>c. /\ worker.at = "prune" /\ worker'.at = "finish"
      /\ UNCHANGED <<queue, said, kept, rewrite, copied>> /\ pruned' = (pruned \/ entries' # entries)
  BY DEF Prune
<1>1. LedgerTypes'
  BY <1>b DEF Prune, LedgerTypes
<1>2. WorkerFits'
  BY DEF Prune, WorkerFits, HasJob
<1>3. RewriteFits'
  BY DEF Prune, RewriteFits, Rewriting
<1>4. InOrder'
  <2>1. \A i, j \in DOMAIN entries' : i < j => entries'[i].row < entries'[j].row
    BY <1>b DEF InOrder
  <2> QED
    BY <1>b, <1>c, <2>1 DEF InOrder
<1>5. JobInOrder'
  BY DEF Prune, JobInOrder, Unstored
<1>6. SeenInOrder'
  BY DEF Prune, SeenInOrder
<1>7. Marked'
  BY DEF Prune, Marked, PendingExact, HasJob
<1>8. QueueCurrent'
  BY DEF Prune, QueueCurrent, IsStale, LedgerTypes, Job
<1>9. WorkerCurrent'
  BY DEF Prune, WorkerCurrent, WorkerFits, HasJob, Job, LedgerTypes, Spared, Rewriting, IsStale
<1>10. EntriesSpared'
  <2>1. \A i \in DOMAIN entries' : Spared(entries'[i].row)
    BY <1>b DEF EntriesSpared
  <2> QED
    BY <1>c, <2>1 DEF EntriesSpared, Spared, Rewriting
<1>11. StatusesImplied'
  BY DEF Prune, StatusesImplied
<1>12. Alone'
  BY DEF Prune, Alone, RewriteFits, Rewriting, Idle
<1>13. SeenFresh'
  BY DEF Prune, SeenFresh, Alone
<1>14. CacheFresh'
  BY DEF Prune, CacheFresh, Alone, Idle, RewriteFits, WorkerFits, Rewriting
<1> QED BY <1>1, <1>2, <1>3, <1>4, <1>5, <1>6, <1>7, <1>8, <1>9, <1>10, <1>11, <1>12, <1>13, <1>14

\* A job that fails stores nothing.
LEMMA StoreFailsLedger ==
    ASSUME LedgerInv, StoreFails
    PROVE  LedgerInv'
<1> USE DEF LedgerInv
<1>1. LedgerTypes'
  BY DEF StoreFails, LedgerTypes, LedgerEntry, Job
<1>2. WorkerFits'
  BY DEF StoreFails, WorkerFits, HasJob
<1>3. RewriteFits'
  BY DEF StoreFails, RewriteFits, Rewriting
<1>4. InOrder'
  BY DEF StoreFails, InOrder
<1>5. JobInOrder'
  BY DEF StoreFails, JobInOrder, Unstored
<1>6. SeenInOrder'
  BY DEF StoreFails, SeenInOrder
<1>7. Marked'
  BY DEF StoreFails, Marked, PendingExact, HasJob
<1>8. QueueCurrent'
  BY DEF StoreFails, QueueCurrent, IsStale, LedgerTypes, Job
<1>9. WorkerCurrent'
  BY DEF StoreFails, WorkerCurrent, WorkerFits, HasJob, Job, LedgerTypes, Spared, Rewriting, IsStale
<1>10. EntriesSpared'
  BY DEF StoreFails, EntriesSpared, Spared, Rewriting
<1>11. StatusesImplied'
  BY DEF StoreFails, StatusesImplied
<1>12. Alone'
  BY DEF StoreFails, Alone, RewriteFits, Rewriting, Idle
<1>13. SeenFresh'
  BY DEF StoreFails, SeenFresh, Alone
<1>14. CacheFresh'
  BY DEF StoreFails, CacheFresh, Alone, Idle, RewriteFits, WorkerFits, Rewriting
<1> QED BY <1>1, <1>2, <1>3, <1>4, <1>5, <1>6, <1>7, <1>8, <1>9, <1>10, <1>11, <1>12, <1>13, <1>14

\* The marks go when no job is left that they could be for.
LEMMA FinishLedger ==
    ASSUME LedgerInv, Finish
    PROVE  LedgerInv'
<1> USE DEF LedgerInv
<1>a. pending = Len(queue) + 1 /\ Len(queue) \in Nat /\ DOMAIN queue = 1..Len(queue)
  BY LedgerFields DEF Finish, Marked, PendingExact
<1>1. LedgerTypes'
  BY <1>a DEF Finish, LedgerTypes
<1>2. WorkerFits'
  BY DEF Finish, WorkerFits, HasJob
<1>3. RewriteFits'
  BY DEF Finish, RewriteFits, Rewriting
<1>4. InOrder'
  BY DEF Finish, InOrder
<1>5. JobInOrder'
  BY DEF Finish, JobInOrder, Unstored
<1>6. SeenInOrder'
  BY DEF Finish, SeenInOrder
<1>7. Marked'
  BY DEF Finish, Marked, PendingExact, HasJob
<1>8. QueueCurrent'
  <2>1. CASE pending = 1
    BY <1>a, <2>1 DEF Finish, QueueCurrent
  <2>2. CASE pending # 1
    BY <2>2 DEF Finish, QueueCurrent, IsStale
  <2> QED
    BY <2>1, <2>2
<1>9. WorkerCurrent'
  BY DEF Finish, WorkerCurrent, WorkerFits, HasJob, Job, LedgerTypes, Spared, Rewriting, IsStale
<1>10. EntriesSpared'
  BY DEF Finish, EntriesSpared, Spared, Rewriting
<1>11. StatusesImplied'
  BY DEF Finish, StatusesImplied
<1>12. Alone'
  BY DEF Finish, Alone, RewriteFits, Rewriting, Idle
<1>13. SeenFresh'
  BY DEF Finish, SeenFresh, Alone
<1>14. CacheFresh'
  BY DEF Finish, CacheFresh, Alone, Idle, RewriteFits, WorkerFits, Rewriting
<1> QED BY <1>1, <1>2, <1>3, <1>4, <1>5, <1>6, <1>7, <1>8, <1>9, <1>10, <1>11, <1>12, <1>13, <1>14

\* The view is built from the stored entries.
LEMMA RefreshLedger ==
    ASSUME LedgerInv, Refresh
    PROVE  LedgerInv'
<1> USE DEF LedgerInv
<1>a. \/ worker.at = "refresh" /\ worker'.at = "show" /\ worker'.seen = entries /\ cache' = cache
      \/ worker.at = "show" /\ worker' = Idle /\ worker'.at = "idle" /\ cache' = View(worker.seen)
  BY DEF Refresh, Idle
<1>b. UNCHANGED <<entries, queue, pending, gen, droppedRows, rewrite, copied, said, kept, hasty, pruned>>
  BY DEF Refresh
<1>1. LedgerTypes'
  BY DEF Refresh, LedgerTypes, LedgerEntry, Job
<1>2. WorkerFits'
  BY <1>a DEF WorkerFits, HasJob
<1>3. RewriteFits'
  BY DEF Refresh, RewriteFits, Rewriting
<1>4. InOrder'
  BY DEF Refresh, InOrder
<1>5. JobInOrder'
  BY <1>a DEF JobInOrder, Unstored
<1>6. SeenInOrder'
  BY <1>a DEF SeenInOrder
<1>7. Marked'
  BY <1>a, <1>b DEF Marked, PendingExact, HasJob
<1>8. QueueCurrent'
  BY DEF Refresh, QueueCurrent, IsStale, LedgerTypes, Job
<1>9. WorkerCurrent'
  BY <1>a DEF WorkerCurrent
<1>10. EntriesSpared'
  BY DEF Refresh, EntriesSpared, Spared, Rewriting
<1>11. StatusesImplied'
  BY DEF Refresh, StatusesImplied
<1>12. Alone'
  BY DEF Refresh, Alone, RewriteFits, Rewriting, Idle
<1>13. SeenFresh'
  <2>1. hasty \/ rewrite.at \in {"idle", "drain"}
    BY <1>a DEF Alone
  <2> QED
    BY <1>a, <1>b, <2>1 DEF SeenFresh
<1>14. CacheFresh'
  <2>1. CASE worker.at = "refresh"
    BY <1>a, <2>1 DEF CacheFresh
  <2>2. CASE worker.at = "show"
    BY <1>a, <1>b, <2>2 DEF CacheFresh, SeenFresh
  <2> QED
    BY <1>a, <2>1, <2>2
<1> QED BY <1>1, <1>2, <1>3, <1>4, <1>5, <1>6, <1>7, <1>8, <1>9, <1>10, <1>11, <1>12, <1>13, <1>14

\* Every row that is dropped and not stored yet is marked.
LEMMA DropRowsLedger ==
    ASSUME LedgerInv, NEW from \in Nat, DropRows(from)
    PROVE  LedgerInv'
<1> USE DEF LedgerInv
<1>a. /\ rewrite.at = "idle" /\ rewrite' = [at |-> "drain", op |-> "drop", from |-> from]
      /\ rewrite'.at = "drain" /\ rewrite'.op = "drop" /\ rewrite'.from = from
      /\ UNCHANGED <<entries, queue, worker, pending, said>>
  BY DEF DropRows, Begin, Idle
<1>b. ~Rewriting /\ Rewriting'
  BY <1>a DEF Rewriting
<1>c. /\ kept' = {r \in kept : r < from} /\ gen' = gen /\ kept \subseteq Nat
      /\ droppedRows' = IF pending > 0 THEN droppedRows \union from..said ELSE droppedRows
  BY DEF DropRows, LedgerTypes
<1>1. LedgerTypes'
  BY DEF DropRows, Begin, LedgerTypes, LedgerEntry, Job
<1>2. WorkerFits'
  BY DEF DropRows, Begin, WorkerFits, HasJob
<1>3. RewriteFits'
  BY DEF DropRows, Begin, RewriteFits, Rewriting
<1>4. InOrder'
  BY DEF DropRows, Begin, InOrder
<1>5. JobInOrder'
  BY DEF DropRows, Begin, JobInOrder, Unstored
<1>6. SeenInOrder'
  BY DEF DropRows, Begin, SeenInOrder
<1>7. Marked'
  BY DEF DropRows, Begin, Marked, PendingExact, HasJob
<1>8. QueueCurrent'
  <2>1. ASSUME NEW k \in DOMAIN queue PROVE IsStale(queue[k])' \/ queue[k].row \in kept'
    <3>1. queue[k].row \in Nat /\ queue[k].row <= said /\ Len(queue) > 0 /\ Len(queue) \in Nat
      BY LedgerFields DEF InOrder
    <3>0. pending > 0
      BY <3>1 DEF Marked, PendingExact
    <3>2. IsStale(queue[k]) \/ queue[k].row \in kept
      BY DEF QueueCurrent
    <3> QED
      BY <1>a, <1>c, <3>0, <3>1, <3>2 DEF IsStale, LedgerTypes
  <2> QED
    BY <1>a, <2>1 DEF QueueCurrent, IsStale
<1>9. WorkerCurrent'
  <2>1. CASE worker.at \in {"list", "classify"}
    <3>0. worker.job.row \in Nat /\ worker.job.row <= said
      BY <2>1 DEF JobInOrder, Unstored, WorkerFits, HasJob, Job
    <3>a. pending = Len(queue) + 1 /\ Len(queue) \in Nat
      BY <2>1, LedgerFields DEF Marked, PendingExact
    <3>1. pending > 0 /\ worker.job.row \in Nat /\ worker.job.row <= said
      BY <3>0, <3>a
    <3>2. IsStale(worker.job) \/ worker.job.row \in kept
      BY <2>1 DEF WorkerCurrent
    <3> QED
      BY <1>a, <1>c, <2>1, <3>1, <3>2 DEF IsStale, LedgerTypes, WorkerCurrent
  <2>2. CASE worker.at = "commit"
    <3>1. worker.job.row \in Nat /\ worker.job.row \in kept
      BY <1>a, <2>2 DEF WorkerCurrent, WorkerFits, HasJob, Job
    <3> QED
      BY <1>a, <1>b, <1>c, <2>2, <3>1 DEF WorkerCurrent, Spared
  <2> QED
    BY <1>a, <2>1, <2>2 DEF WorkerCurrent
<1>10. EntriesSpared'
  <2>1. \A i \in DOMAIN entries : entries[i].row \in kept /\ entries[i].row \in Nat
    BY <1>b, LedgerFields DEF EntriesSpared, Spared
  <2> QED
    BY <1>a, <1>b, <1>c, <2>1 DEF EntriesSpared, Spared
<1>11. StatusesImplied'
  BY DEF DropRows, Begin, StatusesImplied
<1>12. Alone'
  BY DEF DropRows, Begin, Alone, RewriteFits, Rewriting, Idle
<1>13. SeenFresh'
  BY DEF DropRows, Begin, SeenFresh, Alone
<1>14. CacheFresh'
  BY DEF DropRows, Begin, CacheFresh, Alone, Idle, RewriteFits, WorkerFits, Rewriting
<1> QED BY <1>1, <1>2, <1>3, <1>4, <1>5, <1>6, <1>7, <1>8, <1>9, <1>10, <1>11, <1>12, <1>13, <1>14

\* A copy leaves the ledger alone.
LEMMA CopyBranchLedger ==
    ASSUME LedgerInv, NEW from \in Nat, CopyBranch(from)
    PROVE  LedgerInv'
<1> USE DEF LedgerInv
<1>a. /\ rewrite.at = "idle" /\ rewrite' = [at |-> "drain", op |-> "copy", from |-> from]
      /\ rewrite'.at = "drain" /\ rewrite'.op = "copy" /\ rewrite'.from = from
      /\ UNCHANGED <<entries, queue, worker, pending, said>>
  BY DEF CopyBranch, Begin, Idle
<1>b. ~Rewriting /\ Rewriting'
  BY <1>a DEF Rewriting
<1>c. UNCHANGED <<kept, droppedRows, gen>>
  BY DEF CopyBranch
<1>1. LedgerTypes'
  BY DEF CopyBranch, Begin, LedgerTypes, LedgerEntry, Job
<1>2. WorkerFits'
  BY DEF CopyBranch, Begin, WorkerFits, HasJob
<1>3. RewriteFits'
  BY DEF CopyBranch, Begin, RewriteFits, Rewriting
<1>4. InOrder'
  BY DEF CopyBranch, Begin, InOrder
<1>5. JobInOrder'
  BY DEF CopyBranch, Begin, JobInOrder, Unstored
<1>6. SeenInOrder'
  BY DEF CopyBranch, Begin, SeenInOrder
<1>7. Marked'
  BY DEF CopyBranch, Begin, Marked, PendingExact, HasJob
<1>8. QueueCurrent'
  BY DEF CopyBranch, Begin, QueueCurrent, IsStale, LedgerTypes, Job
<1>9. WorkerCurrent'
  BY <1>a, <1>b, <1>c DEF WorkerCurrent, IsStale, Spared
<1>10. EntriesSpared'
  BY <1>a, <1>b, <1>c DEF EntriesSpared, Spared
<1>11. StatusesImplied'
  BY DEF CopyBranch, Begin, StatusesImplied
<1>12. Alone'
  BY DEF CopyBranch, Begin, Alone, RewriteFits, Rewriting, Idle
<1>13. SeenFresh'
  BY DEF CopyBranch, Begin, SeenFresh, Alone
<1>14. CacheFresh'
  BY DEF CopyBranch, Begin, CacheFresh, Alone, Idle, RewriteFits, WorkerFits, Rewriting
<1> QED BY <1>1, <1>2, <1>3, <1>4, <1>5, <1>6, <1>7, <1>8, <1>9, <1>10, <1>11, <1>12, <1>13, <1>14

\* Every job is of an earlier generation then.
LEMMA ClearThreadLedger ==
    ASSUME LedgerInv, ClearThread
    PROVE  LedgerInv'
<1> USE DEF LedgerInv
<1>a. /\ rewrite.at = "idle" /\ rewrite' = [at |-> "drain", op |-> "clear", from |-> 1]
      /\ rewrite'.at = "drain" /\ rewrite'.op = "clear" /\ rewrite'.from = 1
      /\ UNCHANGED <<entries, queue, worker, pending, said>>
  BY DEF ClearThread, Begin, Idle
<1>b. ~Rewriting /\ Rewriting'
  BY <1>a DEF Rewriting
<1>c. gen' = gen + 1 /\ droppedRows' = droppedRows /\ kept' = {} /\ gen \in Nat
  BY DEF ClearThread, LedgerTypes
<1>1. LedgerTypes'
  BY DEF ClearThread, Begin, LedgerTypes, LedgerEntry, Job
<1>2. WorkerFits'
  BY DEF ClearThread, Begin, WorkerFits, HasJob
<1>3. RewriteFits'
  BY DEF ClearThread, Begin, RewriteFits, Rewriting
<1>4. InOrder'
  BY DEF ClearThread, Begin, InOrder
<1>5. JobInOrder'
  BY DEF ClearThread, Begin, JobInOrder, Unstored
<1>6. SeenInOrder'
  BY DEF ClearThread, Begin, SeenInOrder
<1>7. Marked'
  <2>1. \A k \in DOMAIN queue : queue[k].gen \in Nat
    BY LedgerFields
  <2>2. HasJob => worker.job.gen \in Nat
    BY DEF WorkerFits, Job
  <2> QED
    BY <1>a, <1>c, <2>1, <2>2 DEF Marked, PendingExact, HasJob
<1>8. QueueCurrent'
  <2>1. \A k \in DOMAIN queue : queue[k].gen \in Nat /\ queue[k].gen <= gen
    BY LedgerFields DEF Marked
  <2> QED
    BY <1>a, <1>c, <2>1 DEF QueueCurrent, IsStale
<1>9. WorkerCurrent'
  <2>1. HasJob => worker.job.gen \in Nat /\ worker.job.gen <= gen
    BY DEF WorkerFits, Job, Marked
  <2> QED
    BY <1>a, <1>b, <1>c, <2>1 DEF WorkerCurrent, IsStale, HasJob, Spared
<1>10. EntriesSpared'
  BY DEF ClearThread, Begin, EntriesSpared, Spared, Rewriting
<1>11. StatusesImplied'
  BY DEF ClearThread, Begin, StatusesImplied
<1>12. Alone'
  BY DEF ClearThread, Begin, Alone, RewriteFits, Rewriting, Idle
<1>13. SeenFresh'
  BY DEF ClearThread, Begin, SeenFresh, Alone
<1>14. CacheFresh'
  BY DEF ClearThread, Begin, CacheFresh, Alone, Idle, RewriteFits, WorkerFits, Rewriting
<1> QED BY <1>1, <1>2, <1>3, <1>4, <1>5, <1>6, <1>7, <1>8, <1>9, <1>10, <1>11, <1>12, <1>13, <1>14

\* A rewrite goes on without the worker only while the classifier works.
LEMMA DrainLedger ==
    ASSUME LedgerInv, Drain
    PROVE  LedgerInv'
<1> USE DEF LedgerInv
<1>1. LedgerTypes'
  BY DEF Drain, LedgerTypes, LedgerEntry, Job
<1>2. WorkerFits'
  BY DEF Drain, WorkerFits, HasJob
<1>3. RewriteFits'
  BY DEF Drain, RewriteFits, Rewriting
<1>4. InOrder'
  BY DEF Drain, InOrder
<1>5. JobInOrder'
  BY DEF Drain, JobInOrder, Unstored
<1>6. SeenInOrder'
  BY DEF Drain, SeenInOrder
<1>7. Marked'
  BY DEF Drain, Marked, PendingExact, HasJob
<1>8. QueueCurrent'
  BY DEF Drain, QueueCurrent, IsStale, LedgerTypes, Job
<1>9. WorkerCurrent'
  <2>1. worker.at \in {"idle", "classify"} /\ UNCHANGED <<worker, gen, droppedRows, kept>>
    BY DEF Drain, Idle
  <2> QED
    BY <2>1 DEF WorkerCurrent, IsStale
<1>10. EntriesSpared'
  BY DEF Drain, EntriesSpared, Spared, Rewriting
<1>11. StatusesImplied'
  BY DEF Drain, StatusesImplied
<1>12. Alone'
  BY DEF Drain, Alone, RewriteFits, Rewriting, Idle
<1>13. SeenFresh'
  BY DEF Drain, SeenFresh, Alone
<1>14. CacheFresh'
  BY DEF Drain, CacheFresh, Alone, Idle, RewriteFits, WorkerFits, Rewriting
<1> QED BY <1>1, <1>2, <1>3, <1>4, <1>5, <1>6, <1>7, <1>8, <1>9, <1>10, <1>11, <1>12, <1>13, <1>14

\* A clear leaves nothing; without an entry to drop there is nothing to do.
LEMMA ReadEntriesLedger ==
    ASSUME LedgerInv, ReadEntries
    PROVE  LedgerInv'
<1> USE DEF LedgerInv
<1>a. rewrite.at = "read" /\ Rewriting /\ rewrite.op \in {"drop", "copy", "clear"} /\ rewrite.from \in Nat
  BY DEF ReadEntries, RewriteFits, Rewriting
<1>b. PICK from \in Nat : from = rewrite.from
  BY <1>a
<1>c. PICK cut \in 1..Len(entries) + 1 : cut = FirstDropped(entries, from) /\ \A i \in 1..cut - 1 : entries[i].row < from
  BY FirstDroppedFits DEF LedgerTypes
<1>d. PICK ws \in Seq(LedgerEntry) :
          /\ ws = WithoutDropped(entries, cut)
          /\ (\A i \in DOMAIN entries : entries[i].status = Implied(entries, i))
                => \A i \in DOMAIN ws : ws[i].status = Implied(ws, i)
  BY <1>c, WithoutDroppedFits DEF LedgerTypes
<1>e. \/ rewrite.op = "clear" /\ entries' = <<>> /\ rewrite' = Idle /\ copied' = copied
      \/ rewrite.op = "copy" /\ copied' = ws /\ rewrite' = Idle /\ entries' = entries
      \/ /\ rewrite.op = "drop" /\ entries' = entries /\ copied' = copied
         /\ rewrite' = IF cut > Len(entries) THEN Idle ELSE [rewrite EXCEPT !.at = "cut"]
  BY <1>a, <1>b, <1>c, <1>d DEF ReadEntries
<1>f. UNCHANGED <<queue, worker, pending, gen, droppedRows, said, kept, pruned, hasty>>
  BY DEF ReadEntries
<1>1. LedgerTypes'
  <2>0. <<>> \in Seq(LedgerEntry) /\ entries \in Seq(LedgerEntry) /\ copied \in Seq(LedgerEntry)
    BY DEF LedgerTypes
  <2>1. entries' \in Seq(LedgerEntry) /\ copied' \in Seq(LedgerEntry)
    BY <1>d, <1>e, <2>0
  <2> QED
    BY <1>f, <2>1 DEF LedgerTypes
<1>2. WorkerFits'
  BY DEF ReadEntries, WorkerFits, HasJob
<1>3. RewriteFits'
  <2>1. [rewrite EXCEPT !.at = "cut"] \in [at : {"drain", "read", "cut"}, op : {"drop", "copy", "clear"}, from : Nat]
    BY <1>a DEF RewriteFits
  <2>2. [rewrite EXCEPT !.at = "cut"].at = "cut" /\ [rewrite EXCEPT !.at = "cut"].op = rewrite.op
    BY <1>a DEF RewriteFits
  <2> QED
    BY <1>e, <2>1, <2>2 DEF RewriteFits, Rewriting, Idle
<1>4. InOrder'
  BY DEF ReadEntries, InOrder
<1>5. JobInOrder'
  BY DEF ReadEntries, JobInOrder, Unstored
<1>6. SeenInOrder'
  BY DEF ReadEntries, SeenInOrder
<1>7. Marked'
  BY DEF ReadEntries, Marked, PendingExact, HasJob
<1>8. QueueCurrent'
  BY DEF ReadEntries, QueueCurrent, IsStale, LedgerTypes, Job
<1>9. WorkerCurrent'
  BY DEF ReadEntries, WorkerCurrent, WorkerFits, HasJob, Job, LedgerTypes, Spared, Rewriting, IsStale
<1>10. EntriesSpared'
  <2>1. CASE rewrite.op = "clear"
    BY <1>e, <2>1 DEF EntriesSpared
  <2>2. CASE rewrite.op = "copy"
    BY <1>e, <1>f, <2>2 DEF EntriesSpared, Spared
  <2>3. CASE rewrite.op = "drop" /\ cut > Len(entries)
    <3>1. \A i \in DOMAIN entries : entries[i].row < from /\ entries[i].row \in Nat
      BY <1>c, <2>3, LedgerFields
    <3> QED
      BY <1>b, <1>e, <1>f, <2>3, <3>1 DEF EntriesSpared, Spared
  <2>4. CASE rewrite.op = "drop" /\ ~(cut > Len(entries))
    <3>1. rewrite'.at = "cut" /\ rewrite'.op = "drop" /\ rewrite'.from = rewrite.from
      BY <1>a, <1>e, <2>4 DEF RewriteFits
    <3> QED
      BY <1>e, <1>f, <2>4, <3>1 DEF EntriesSpared, Spared, Rewriting
  <2> QED
    BY <1>a, <2>1, <2>2, <2>3, <2>4
<1>11. StatusesImplied'
  BY <1>d, <1>e, <1>f DEF StatusesImplied
<1>12. Alone'
  BY DEF ReadEntries, Alone, RewriteFits, Rewriting, Idle
<1>13. SeenFresh'
  <2>1. hasty \/ worker.at = "idle"
    BY <1>a DEF Alone
  <2>2. rewrite'.at # "show"
    BY <1>a, <1>e DEF RewriteFits, Idle
  <2> QED
    BY <1>f, <2>1, <2>2 DEF SeenFresh
<1>14. CacheFresh'
  BY DEF ReadEntries, CacheFresh, Alone, Idle, RewriteFits, WorkerFits, Rewriting
<1> QED BY <1>1, <1>2, <1>3, <1>4, <1>5, <1>6, <1>7, <1>8, <1>9, <1>10, <1>11, <1>12, <1>13, <1>14

\* The entries before the first dropped one are of rows that stay.
LEMMA CutEntriesLedger ==
    ASSUME LedgerInv, CutEntries
    PROVE  LedgerInv'
<1> USE DEF LedgerInv
<1>a. UNCHANGED <<queue, worker, pending, gen, droppedRows, copied, said, kept, pruned, hasty>>
  BY DEF CutEntries
<1>b. PICK from \in Nat : rewrite.at = "cut" => from = rewrite.from
  BY DEF RewriteFits, Rewriting
<1>c. PICK cut \in 1..Len(entries) + 1 : cut = FirstDropped(entries, from) /\ \A i \in 1..cut - 1 : entries[i].row < from
  BY FirstDroppedFits DEF LedgerTypes
<1>d. PICK ws \in Seq(LedgerEntry) :
          /\ ws = WithoutDropped(entries, cut) /\ DOMAIN ws = 1..cut - 1 /\ DOMAIN ws \subseteq DOMAIN entries
          /\ \A i \in 1..cut - 1 : ws[i].row = entries[i].row /\ ws[i].relates = entries[i].relates
          /\ (\A i \in DOMAIN entries : entries[i].status = Implied(entries, i))
                => \A i \in DOMAIN ws : ws[i].status = Implied(ws, i)
  <2>1. PICK es \in Seq(LedgerEntry) : es = entries
    BY DEF LedgerTypes
  <2>2. cut \in 1..Len(es) + 1
    BY <2>1
  <2>3. PICK ws : ws = WithoutDropped(es, cut)
    OBVIOUS
  <2>4. /\ ws \in Seq(LedgerEntry) /\ DOMAIN ws = 1..cut - 1 /\ DOMAIN ws \subseteq DOMAIN es
        /\ \A i \in 1..cut - 1 : /\ ws[i].row = es[i].row /\ ws[i].intent = es[i].intent
                                 /\ ws[i].relates = es[i].relates
        /\ (\A i \in DOMAIN es : es[i].status = Implied(es, i))
              => \A i \in DOMAIN ws : ws[i].status = Implied(ws, i)
    BY <2>2, <2>3, WithoutDroppedFits
  <2> QED
    BY <2>1, <2>3, <2>4
<1>e. \/ rewrite.at = "cut" /\ rewrite'.at = "refresh" /\ entries' = ws /\ cache' = cache
      \/ rewrite.at = "refresh" /\ rewrite'.at = "show" /\ rewrite'.seen = entries /\ UNCHANGED <<entries, cache>>
      \/ /\ rewrite.at = "show" /\ rewrite' = Idle /\ rewrite'.at = "idle" /\ cache' = View(rewrite.seen)
         /\ entries' = entries
  BY <1>b, <1>c, <1>d DEF CutEntries, Idle
<1>f. hasty \/ (worker.at = "idle" /\ queue = <<>>)
  BY <1>e DEF Alone
<1>1. LedgerTypes'
  BY <1>a, <1>d, <1>e DEF LedgerTypes
<1>2. WorkerFits'
  BY DEF CutEntries, WorkerFits, HasJob
<1>3. RewriteFits'
  BY <1>e DEF RewriteFits, Rewriting
<1>4. InOrder'
  <2>1. CASE entries' = entries
    BY <1>a, <2>1 DEF InOrder
  <2>2. CASE entries' = ws
    BY <1>a, <1>d, <2>2 DEF InOrder
  <2> QED
    BY <1>e, <2>1, <2>2
<1>5. JobInOrder'
  <2>1. CASE entries' = entries
    BY <1>a, <2>1 DEF JobInOrder, Unstored
  <2>2. CASE entries' = ws
    BY <1>a, <1>d, <2>2 DEF JobInOrder, Unstored
  <2> QED
    BY <1>e, <2>1, <2>2
<1>6. SeenInOrder'
  BY DEF CutEntries, SeenInOrder
<1>7. Marked'
  BY DEF CutEntries, Marked, PendingExact, HasJob
<1>8. QueueCurrent'
  BY DEF CutEntries, QueueCurrent, IsStale, LedgerTypes, Job
<1>9. WorkerCurrent'
  BY DEF CutEntries, WorkerCurrent, WorkerFits, HasJob, Job, LedgerTypes, Spared, Rewriting, IsStale
<1>10. EntriesSpared'
  <2>1. CASE rewrite.at = "cut"
    <3>1. \A i \in 1..cut - 1 : entries[i].row \in Nat /\ entries[i].row < from /\ Spared(entries[i].row)
      BY <1>c, <1>d, LedgerFields DEF EntriesSpared
    <3>2. \A i \in 1..cut - 1 : entries[i].row \in kept
      BY <1>b, <2>1, <3>1 DEF Spared, RewriteFits
    <3> QED
      BY <1>a, <1>d, <1>e, <2>1, <3>2 DEF EntriesSpared, Spared
  <2>2. CASE rewrite.at # "cut"
    <3>1. \A i \in DOMAIN entries : entries[i].row \in kept
      BY <1>e, <2>2 DEF EntriesSpared, Spared, Rewriting
    <3> QED
      BY <1>a, <1>e, <2>2, <3>1 DEF EntriesSpared, Spared
  <2> QED
    BY <2>1, <2>2
<1>11. StatusesImplied'
  BY <1>a, <1>d, <1>e DEF StatusesImplied
<1>12. Alone'
  BY DEF CutEntries, Alone, RewriteFits, Rewriting, Idle
<1>13. SeenFresh'
  BY <1>a, <1>e, <1>f DEF SeenFresh
<1>14. CacheFresh'
  <2>1. CASE rewrite'.at \in {"refresh", "show"}
    BY <2>1 DEF CacheFresh
  <2>2. CASE rewrite.at = "show"
    BY <1>a, <1>e, <2>2 DEF CacheFresh, SeenFresh
  <2> QED
    BY <1>e, <2>1, <2>2
<1> QED BY <1>1, <1>2, <1>3, <1>4, <1>5, <1>6, <1>7, <1>8, <1>9, <1>10, <1>11, <1>12, <1>13, <1>14

\* At first there is nothing to be stale.
LEMMA LedgerInitInv == GlInit => LedgerInv
<1> SUFFICES ASSUME GlInit PROVE LedgerInv
  OBVIOUS
<1>1. LedgerTypes
  <2>1. <<>> \in Seq(LedgerEntry) /\ <<>> \in Seq(Job)
    OBVIOUS
  <2>2. entries = <<>> /\ copied = <<>> /\ queue = <<>>
    BY DEF GlInit
  <2>3. pending = 0 /\ gen = 0 /\ said = 0 /\ kept = {} /\ hasty = FALSE /\ pruned = FALSE
    BY DEF GlInit
  <2> QED
    BY <2>1, <2>2, <2>3 DEF LedgerTypes
<1>2. /\ worker.at = "idle" /\ worker = Idle /\ rewrite.at = "idle" /\ rewrite = Idle
      /\ entries = <<>> /\ copied = <<>> /\ queue = <<>> /\ Len(queue) = 0 /\ pending = 0 /\ droppedRows = {} /\ cache = Unseen
      /\ DOMAIN entries = {} /\ DOMAIN queue = {} /\ DOMAIN copied = {}
  BY DEF GlInit, Idle
<1>3. WorkerFits /\ RewriteFits /\ InOrder /\ JobInOrder /\ SeenInOrder
  BY <1>2 DEF WorkerFits, RewriteFits, InOrder, JobInOrder, SeenInOrder, HasJob, Unstored, Rewriting
<1>4. Marked
  BY <1>2 DEF Marked, PendingExact, HasJob
<1>5. QueueCurrent /\ WorkerCurrent /\ EntriesSpared /\ StatusesImplied /\ Alone /\ SeenFresh /\ CacheFresh
  BY <1>2 DEF QueueCurrent, WorkerCurrent, EntriesSpared, StatusesImplied, Alone, SeenFresh, CacheFresh
<1> QED
  BY <1>1, <1>3, <1>4, <1>5 DEF LedgerInv

\* Every step of the worker and of a rewrite keeps it.
LEMMA LedgerStepInv == LedgerInv /\ [GlNext]_glVars => LedgerInv'
<1> SUFFICES ASSUME LedgerInv, [GlNext]_glVars PROVE LedgerInv'
  OBVIOUS
<1>1. CASE GlNext
  BY <1>1, AdmitLedger, TakeLedger, ListLedger, ClassifyLedger, CommitLedger, PruneLedger, StoreFailsLedger, FinishLedger,
     RefreshLedger, DropRowsLedger, CopyBranchLedger, ClearThreadLedger, DrainLedger, ReadEntriesLedger, CutEntriesLedger
     DEF GlNext
<1>2. CASE UNCHANGED glVars
  BY <1>2 DEF glVars, LedgerInv, LedgerTypes, WorkerFits, RewriteFits, InOrder, JobInOrder, SeenInOrder, Marked, PendingExact,
              QueueCurrent, WorkerCurrent, EntriesSpared, StatusesImplied, Alone, SeenFresh, CacheFresh, HasJob, Unstored, Rewriting, Spared, IsStale
<1> QED
  BY <1>1, <1>2

\* Entries are of rows in the history and have the status that the entries left
\* imply, the view is theirs, and the pending flag is exact, however many rows are
\* classified while the history is rewritten (ledger.py, goal_ledger.py).
THEOREM LedgerSafety == ConversationSpec => []LedgerSafe
<1>1. LedgerInv => LedgerSafe
  BY DEF LedgerInv, LedgerSafe, EntriesSpared, Spared, NoGhostEntries, Marked, ViewFresh, CacheFresh, AtRest, RewriteFits, Rewriting, Idle
<1>2. ConversationInit => LedgerInv
  BY LedgerInitInv DEF ConversationInit
<1>3. LedgerInv /\ [ConversationNext]_conversationVars => LedgerInv'
  <2>1. [ConversationNext]_conversationVars => [GlNext]_glVars
    BY DEF ConversationNext, conversationVars
  <2> QED BY <2>1, LedgerStepInv
<1> QED BY <1>1, <1>2, <1>3, PTL DEF ConversationSpec

-----------------------------------------------------------------------------
(* The thread.  A summary stands for the rows between the goal and the tail;*)
(* the job that prepares it read a prefix, and no response in the rest has  *)
(* its request there, so putting it in tears no pair and loses no row.      *)

\* The kinds of rows.
Kinds == {"user", "reply", "call", "result", "pin", "ui", "summary"}
\* A row.
AnyRow == [id : Nat, kind : Kinds, of : Nat, says : Nat, media : {"none", "raw", "frozen"}, about : Nat,
           tok : Nat, covers : SUBSET Nat]
\* A stored row: no request or summary says what another one says.
StoredRow == {r \in AnyRow : r.kind \in {"call", "summary"} => r.says = r.id}

\* Rows that are the same agree in everything but the id, and are one row if they
\* are requests or summaries.
LEMMA SameRow ==
    ASSUME NEW r \in StoredRow, NEW q \in StoredRow, Same(r, q)
    PROVE  /\ r.kind = q.kind /\ r.of = q.of /\ r.covers = q.covers
           /\ r.id = q.id => r = q
           /\ r.kind \in {"call", "summary"} => r = q
           /\ Same(q, r)
<1> DEFINE R(i, k, o, s, m, a, w, c) ==
              [id |-> i, kind |-> k, of |-> o, says |-> s, media |-> m, about |-> a, tok |-> w, covers |-> c]
<1>1. \A x \in AnyRow : x = R(x.id, x.kind, x.of, x.says, x.media, x.about, x.tok, x.covers)
  BY DEF AnyRow
<1>2. \A i, k, o, s, m, a, w, c, x : [R(i, k, o, s, m, a, w, c) EXCEPT !.id = x] = R(x, k, o, s, m, a, w, c)
  OBVIOUS
<1>3. \A i, k, o, s, m, a, w, c : /\ R(i, k, o, s, m, a, w, c).id = i /\ R(i, k, o, s, m, a, w, c).kind = k
                                  /\ R(i, k, o, s, m, a, w, c).of = o /\ R(i, k, o, s, m, a, w, c).says = s
                                  /\ R(i, k, o, s, m, a, w, c).media = m /\ R(i, k, o, s, m, a, w, c).about = a
                                  /\ R(i, k, o, s, m, a, w, c).tok = w /\ R(i, k, o, s, m, a, w, c).covers = c
  OBVIOUS
<1> HIDE DEF R
<1>4. r \in AnyRow /\ q \in AnyRow /\ (r.kind \in {"call", "summary"} => r.says = r.id)
      /\ (q.kind \in {"call", "summary"} => q.says = q.id)
  BY DEF StoredRow
<1>5. /\ r = R(r.id, r.kind, r.of, r.says, r.media, r.about, r.tok, r.covers)
      /\ q = R(q.id, q.kind, q.of, q.says, q.media, q.about, q.tok, q.covers)
  BY <1>1, <1>4
<1>6. [r EXCEPT !.id = q.id] = R(q.id, r.kind, r.of, r.says, r.media, r.about, r.tok, r.covers)
  BY <1>2, <1>5
<1>7. q = R(q.id, r.kind, r.of, r.says, r.media, r.about, r.tok, r.covers)
  BY <1>6 DEF Same
<1>8. /\ r.kind = q.kind /\ r.of = q.of /\ r.says = q.says /\ r.media = q.media /\ r.about = q.about
      /\ r.tok = q.tok /\ r.covers = q.covers
  BY <1>3, <1>7
<1>9. r.id = q.id => r = q
  BY <1>5, <1>7
<1>10. Same(q, r)
  <2>1. [q EXCEPT !.id = r.id] = R(r.id, q.kind, q.of, q.says, q.media, q.about, q.tok, q.covers)
    BY <1>2, <1>5
  <2> QED BY <1>5, <1>8, <2>1 DEF Same
<1> QED BY <1>4, <1>8, <1>9, <1>10

\* The least element of a set of numbers, as Min has it.
LEMMA Smallest ==
    ASSUME NEW S, S \subseteq Nat, S # {}
    PROVE  Min(S) \in S /\ \A k \in S : Min(S) <= k
<1>1. \E m \in S : \A k \in S : m <= k
  BY LeastNumber
<1> QED BY <1>1 DEF Min

\* The greatest element of a set of positions, as Max has it.
LEMMA Largest ==
    ASSUME NEW n \in Nat, NEW S \in SUBSET (1..n), S # {}
    PROVE  Max(S) \in S /\ \A k \in S : k <= Max(S)
<1>1. \E m \in S : \A k \in S : k <= m
  BY Greatest
<1>2. PICK m \in S : \A k \in S : m >= k
  BY <1>1
<1>3. Max(S) \in S /\ \A k \in S : Max(S) >= k
  BY <1>2 DEF Max
<1> QED BY <1>3

\* No id is used twice.
DistinctIds(s) == \A i, k \in DOMAIN s : s[i].id = s[k].id => i = k

\* A response stands behind its request, or is the oldest row.
Behind(s) ==
    \A k \in DOMAIN s : s[k].kind = "result" => k = 1 \/ (s[k - 1].kind = "call" /\ s[k - 1].id = s[k].of)

\* The tail starts behind the head, and not with a response.
LEMMA TailStartFits ==
    ASSUME NEW ms \in Seq(StoredRow), NEW h \in 1..Len(ms), NEW budget,
           DistinctIds(ms), Behind(ms)
    PROVE  /\ TailStart(ms, h, budget) \in h..(Len(ms) + 1)
           /\ TailStart(ms, h, budget) \in DOMAIN ms /\ TailStart(ms, h, budget) > h
                => ms[TailStart(ms, h, budget)].kind # "result"
<1> DEFINE n == Len(ms)
           Fits(j) ==
             LET newer == SubSeq(ms, j + 1, n)
                 seen  == {i \in DOMAIN newer : ProviderVisible(newer[i])}
             IN  /\ n - j < n - h - 1
                 /\ ProviderVisible(ms[j]) =>
                        Cardinality(seen) < KeepTailMin \/ TailTokens(newer) + ms[j].tok <= budget
           S      == {s \in (h + 1)..(n + 1) : \A j \in s..n : Fits(j)}
           start  == Min(S)
           tail   == SubSeq(ms, start, n)
           owed   == Responses(tail) \ Requests(tail)
           owners == {i \in 1..(start - 1) : ms[i].kind = "call" /\ ms[i].id \in owed}
<1>1. TailStart(ms, h, budget) = IF owed # {} /\ owed = {ms[i].id : i \in owners} THEN Min(owners) ELSE start
  BY DEF TailStart
<1>n. n \in Nat /\ h \in Nat \ {0} /\ h <= n /\ DOMAIN ms = 1..n
  OBVIOUS
<1> HIDE DEF Fits
<1>2. start \in (h + 1)..(n + 1)
  <2>1. n + 1 \in S
    BY <1>n
  <2>2. S \subseteq Nat
    BY <1>n
  <2>3. start \in S
    BY <2>1, <2>2, Smallest
  <2> QED BY <2>3
<1> HIDE DEF S, start
<1>3. /\ Responses(tail) = {ms[i].of : i \in {j \in start..n : ms[j].kind = "result"}}
      /\ Requests(tail) = {ms[i].id : i \in {j \in start..n : ms[j].kind = "call"}}
  <2>1. CASE start = n + 1
    <3>1. tail = <<>>
      BY <1>n, <2>1, SubSeqEmpty
    <3>2. DOMAIN tail = {} /\ start..n = {}
      BY <1>n, <2>1, <3>1
    <3> QED BY <3>2 DEF Responses, Requests
  <2>2. CASE start <= n
    <3>1. /\ DOMAIN tail = 1..(n - start + 1)
          /\ \A i \in 1..(n - start + 1) : tail[i] = ms[start + i - 1]
      BY <1>n, <1>2, <2>2
    <3>2. \A i \in DOMAIN tail : start + i - 1 \in start..n /\ tail[i] = ms[start + i - 1]
      BY <1>n, <1>2, <3>1
    <3>3. \A j \in start..n : j - start + 1 \in DOMAIN tail /\ tail[j - start + 1] = ms[j]
      BY <1>n, <1>2, <3>1
    <3> HIDE DEF tail
    <3>4. Responses(tail) = {ms[i].of : i \in {j \in start..n : ms[j].kind = "result"}}
      BY <3>2, <3>3 DEF Responses
    <3>5. Requests(tail) = {ms[i].id : i \in {j \in start..n : ms[j].kind = "call"}}
      BY <3>2, <3>3 DEF Requests
    <3> QED BY <3>4, <3>5
  <2> QED BY <1>n, <1>2, <2>1, <2>2
<1> HIDE DEF tail
<1>4. \A j \in start..n : ms[j].kind = "result" => /\ j - 1 \in DOMAIN ms /\ j \in DOMAIN ms
                                                   /\ ms[j - 1].kind = "call" /\ ms[j - 1].id = ms[j].of
  BY <1>n, <1>2 DEF Behind
<1>5. CASE ~(start <= n /\ ms[start].kind = "result")
  <2>1. ASSUME NEW j \in start..n, ms[j].kind = "result" PROVE ms[j].of \in Requests(tail)
    <3>1. j - 1 \in start..n /\ ms[j - 1].kind = "call" /\ ms[j - 1].id = ms[j].of
      BY <1>n, <1>2, <1>4, <1>5, <2>1
    <3> QED BY <1>3, <3>1
  <2>2. owed = {}
    BY <1>3, <2>1
  <2>3. TailStart(ms, h, budget) = start
    BY <1>1, <2>2
  <2> QED BY <1>n, <1>2, <1>5, <2>3
<1>6. CASE start <= n /\ ms[start].kind = "result"
  <2>1. /\ start \in start..n /\ start - 1 \in DOMAIN ms /\ ms[start - 1].kind = "call" /\ ms[start - 1].id = ms[start].of
    BY <1>n, <1>2, <1>4, <1>6
  <2>2. ASSUME NEW x \in owed PROVE x = ms[start - 1].id
    <3>1. PICK j \in start..n : ms[j].kind = "result" /\ x = ms[j].of
      BY <1>3
    <3>2. j # start => j - 1 \in start..n /\ ms[j - 1].kind = "call" /\ ms[j - 1].id = x
      BY <1>n, <1>2, <1>4, <3>1
    <3>3. j # start => x \in Requests(tail)
      BY <1>3, <3>2
    <3> QED BY <2>1, <3>1, <3>3
  <2>3. ms[start - 1].id \in owed
    <3>1. ms[start - 1].id \in Responses(tail)
      BY <1>3, <1>6, <2>1
    <3>2. ASSUME ms[start - 1].id \in Requests(tail) PROVE FALSE
      <4>1. PICK j \in start..n : ms[start - 1].id = ms[j].id
        BY <1>3, <3>2
      <4>2. start - 1 = j
        BY <1>n, <1>2, <2>1, <4>1 DEF DistinctIds
      <4> QED BY <1>n, <1>2, <4>1, <4>2
    <3> QED BY <3>1, <3>2
  <2>4. owners = {start - 1}
    <3>1. start - 1 \in owners
      BY <1>n, <1>2, <2>1, <2>3
    <3>2. ASSUME NEW i \in owners PROVE i = start - 1
      <4>1. i \in DOMAIN ms /\ ms[i].id = ms[start - 1].id
        BY <1>n, <1>2, <2>2
      <4> QED BY <2>1, <4>1 DEF DistinctIds
    <3> QED BY <3>1, <3>2
  <2> HIDE DEF owed, owners
  <2>5. owed = {ms[start - 1].id} /\ {ms[i].id : i \in owners} = {ms[start - 1].id}
    BY <2>2, <2>3, <2>4
  <2>6. Min(owners) = start - 1
    <3>1. owners \subseteq Nat /\ owners # {}
      BY <1>n, <1>2, <2>4
    <3> QED BY <3>1, <2>4, Smallest
  <2>7. TailStart(ms, h, budget) = start - 1
    BY <1>1, <2>5, <2>6
  <2> QED BY <1>n, <1>2, <2>1, <2>7
<1> QED BY <1>5, <1>6

\* The rows that are not pinned, and the list of them.
Free(s) == {i \in DOMAIN s : ~Pinned(s[i])}
FreeRows(s) == Sublist(s, Free(s))

\* A response stands behind its request, or is of a request that was lost and no
\* row that is not pinned is older.
Paired(s, lost) ==
    \A k \in DOMAIN s : s[k].kind = "result" =>
        \/ k > 1 /\ s[k - 1].kind = "call" /\ s[k - 1].id = s[k].of
        \/ s[k].of \in lost /\ \A m \in 1..(k - 1) : Pinned(s[m])

\* The list of the rows that are not pinned, by their positions.
LEMMA FreeRowsAt ==
    ASSUME NEW s \in Seq(StoredRow)
    PROVE  /\ FreeRows(s) \in Seq(StoredRow) /\ DOMAIN FreeRows(s) = 1..Len(FreeRows(s)) /\ Len(FreeRows(s)) \in Nat
           /\ \A k \in DOMAIN FreeRows(s) : Place(Free(s), k) \in Free(s) /\ FreeRows(s)[k] = s[Place(Free(s), k)]
           /\ \A i \in Free(s) : \E k \in DOMAIN FreeRows(s) : Place(Free(s), k) = i /\ FreeRows(s)[k] = s[i]
           /\ \A k, l \in DOMAIN FreeRows(s) : k < l => Place(Free(s), k) < Place(Free(s), l)
<1>1. Free(s) \in SUBSET DOMAIN s
  BY DEF Free
<1>2. Sublist(s, Free(s)) \in Seq(StoredRow)
  BY <1>1, SublistType
<1>3. /\ \A k \in DOMAIN Sublist(s, Free(s)) : Place(Free(s), k) \in Free(s) /\ Sublist(s, Free(s))[k] = s[Place(Free(s), k)]
      /\ \A i \in Free(s) : \E k \in DOMAIN Sublist(s, Free(s)) : Place(Free(s), k) = i /\ Sublist(s, Free(s))[k] = s[i]
  BY <1>1, SublistElements
<1>4. \A k, l \in DOMAIN Sublist(s, Free(s)) : k < l => Place(Free(s), k) < Place(Free(s), l)
  BY <1>1, SublistOrder
<1>5. Len(Sublist(s, Free(s))) \in Nat /\ DOMAIN Sublist(s, Free(s)) = 1..Len(Sublist(s, Free(s)))
  BY <1>2
<1> QED BY <1>2, <1>3, <1>4, <1>5 DEF FreeRows

\* Among the rows that are not pinned, ids differ and a response stands behind its
\* request.
LEMMA FreeRowsFit ==
    ASSUME NEW s \in Seq(StoredRow), NEW lost, DistinctIds(s), Paired(s, lost)
    PROVE  DistinctIds(FreeRows(s)) /\ Behind(FreeRows(s))
<1> DEFINE ms == FreeRows(s)
           at(k) == Place(Free(s), k)
<1>1. /\ DOMAIN ms = 1..Len(ms) /\ Len(ms) \in Nat
      /\ \A k \in DOMAIN ms : at(k) \in Free(s) /\ ms[k] = s[at(k)]
      /\ \A i \in Free(s) : \E k \in DOMAIN ms : at(k) = i /\ ms[k] = s[i]
      /\ \A k, l \in DOMAIN ms : k < l => at(k) < at(l)
  BY FreeRowsAt
<1>2. \A i \in Free(s) : i \in DOMAIN s /\ i \in Nat
  BY DEF Free
<1> HIDE DEF ms, at
<1>3. DistinctIds(ms)
  <2>1. ASSUME NEW k \in DOMAIN ms, NEW l \in DOMAIN ms, ms[k].id = ms[l].id PROVE k = l
    <3>1. at(k) = at(l)
      BY <1>1, <1>2, <2>1 DEF DistinctIds
    <3>2. at(k) \in Nat /\ at(l) \in Nat /\ k \in Nat /\ l \in Nat
      BY <1>1, <1>2
    <3> QED BY <1>1, <3>1, <3>2
  <2> QED BY <2>1 DEF DistinctIds
<1>4. Behind(ms)
  <2> SUFFICES ASSUME NEW k \in DOMAIN ms, ms[k].kind = "result", k # 1
               PROVE  ms[k - 1].kind = "call" /\ ms[k - 1].id = ms[k].of
    BY DEF Behind
  <2>1. k \in Nat /\ k - 1 \in DOMAIN ms /\ k - 1 < k
    BY <1>1
  <2>2. at(k) \in DOMAIN s /\ at(k - 1) \in DOMAIN s /\ at(k) \in Nat /\ at(k - 1) \in Nat /\ at(k - 1) < at(k)
        /\ ~Pinned(s[at(k - 1)]) /\ s[at(k)].kind = "result"
    BY <1>1, <1>2, <2>1 DEF Free
  <2>3. at(k - 1) \in 1..(at(k) - 1)
    BY <2>2
  <2>4. s[at(k) - 1].kind = "call" /\ s[at(k) - 1].id = s[at(k)].of
    BY <2>2, <2>3 DEF Paired
  <2>5. at(k) - 1 \in Free(s)
    <3>1. at(k) - 1 \in DOMAIN s
      BY <2>2
    <3> QED BY <2>4, <3>1 DEF Free, Pinned
  <2>6. PICK l \in DOMAIN ms : at(l) = at(k) - 1 /\ ms[l] = s[at(k) - 1]
    BY <1>1, <2>5
  <2>7. l = k - 1
    <3>1. l \in Nat /\ at(l) \in Nat
      BY <1>1, <1>2
    <3>2. CASE l < k - 1
      <4>1. at(l) < at(k - 1)
        BY <1>1, <2>1, <3>2
      <4> QED BY <2>2, <2>6, <4>1
    <3>3. CASE l > k - 1
      <4>1. l = k \/ at(k) < at(l)
        BY <1>1, <2>1, <3>1, <3>3
      <4> QED BY <2>2, <2>6, <4>1
    <3> QED BY <2>1, <3>1, <3>2, <3>3
  <2> QED BY <1>1, <2>4, <2>6, <2>7
<1> QED BY <1>3, <1>4 DEF ms

\* The rows between the head, which ends at hp, and the tail, which begins at tp.
Middle(s, hp, tp) == {i \in (hp + 1)..(tp - 1) : i \in Free(s)}

\* hp is the oldest row a provider sees.
FirstVisible(s, hp) ==
    hp \in DOMAIN s /\ ProviderVisible(s[hp]) /\ \A k \in 1..(hp - 1) : ~ProviderVisible(s[k])

\* The ids of the rows at some positions, and what they cover.
IdsAt(s, P) == {s[i].id : i \in P}
CoveredAt(s, P) == UNION {s[i].covers : i \in P}

\* What a compaction summarizes lies between head and tail.
Parts(s, hp, tp, sp) ==
    /\ FirstVisible(s, hp) /\ tp \in (hp + 1)..(Len(s) + 1)
    /\ Ids(sp.head) = IdsAt(s, Free(s) \cap (1..hp))
    /\ Ids(sp.middle) = IdsAt(s, Middle(s, hp, tp)) /\ Covered(sp.middle) = CoveredAt(s, Middle(s, hp, tp))
    /\ Ids(sp.tail) = IdsAt(s, Free(s) \cap (tp..Len(s)))
    /\ Middle(s, hp, tp) # {}
    /\ sp.tail # <<>> => tp \in DOMAIN s /\ sp.tail[1] = s[tp]
    /\ tp \in DOMAIN s => tp \in Free(s) /\ s[tp].kind # "result"

\* The ids of a part of the rows that are not pinned.
LEMMA PartAt ==
    ASSUME NEW s \in Seq(StoredRow), NEW a \in 1..(Len(FreeRows(s)) + 1), NEW b \in 0..Len(FreeRows(s)), NEW P,
           \A i \in P : i \in Free(s),
           \A k \in DOMAIN FreeRows(s) : Place(Free(s), k) \in P <=> a <= k /\ k <= b
    PROVE  /\ Ids(SubSeq(FreeRows(s), a, b)) = IdsAt(s, P)
           /\ Covered(SubSeq(FreeRows(s), a, b)) = CoveredAt(s, P)
<1> DEFINE ms == FreeRows(s)
           at(k) == Place(Free(s), k)
           piece == SubSeq(ms, a, b)
<1>1. /\ ms \in Seq(StoredRow) /\ DOMAIN ms = 1..Len(ms) /\ Len(ms) \in Nat
      /\ \A k \in DOMAIN ms : at(k) \in Free(s) /\ ms[k] = s[at(k)]
      /\ \A i \in Free(s) : \E k \in DOMAIN ms : at(k) = i /\ ms[k] = s[i]
  BY FreeRowsAt
<1>p. \A k \in DOMAIN ms : at(k) \in P <=> a <= k /\ k <= b
  OBVIOUS
<1>t. a \in 1..(Len(ms) + 1) /\ b \in 0..Len(ms)
  OBVIOUS
<1> HIDE DEF ms, at
<1>2. \A i \in DOMAIN piece : \E k \in DOMAIN ms : a <= k /\ k <= b /\ piece[i] = ms[k]
  <2>1. CASE b < a
    <3>1. piece = <<>>
      BY <1>1, <1>t, <2>1, SubSeqEmpty
    <3> QED BY <3>1
  <2>2. CASE a <= b
    <3>1. DOMAIN piece = 1..(b - a + 1) /\ \A i \in 1..(b - a + 1) : piece[i] = ms[a + i - 1]
      BY <1>1, <1>t, <2>2
    <3>2. \A i \in DOMAIN piece : a + i - 1 \in DOMAIN ms /\ a <= a + i - 1 /\ a + i - 1 <= b /\ piece[i] = ms[a + i - 1]
      BY <1>1, <1>t, <3>1
    <3> QED BY <3>2
  <2> QED BY <1>t, <2>1, <2>2
<1>3. \A k \in DOMAIN ms : a <= k /\ k <= b => \E i \in DOMAIN piece : piece[i] = ms[k]
  <2> SUFFICES ASSUME NEW k \in DOMAIN ms, a <= k, k <= b PROVE \E i \in DOMAIN piece : piece[i] = ms[k]
    OBVIOUS
  <2>1. DOMAIN piece = 1..(b - a + 1) /\ \A i \in 1..(b - a + 1) : piece[i] = ms[a + i - 1]
    BY <1>1, <1>t
  <2>2. k - a + 1 \in DOMAIN piece /\ piece[k - a + 1] = ms[a + (k - a + 1) - 1] /\ a + (k - a + 1) - 1 = k
    BY <1>1, <1>t, <2>1
  <2> QED BY <2>2
<1> HIDE DEF piece
<1>4. \A i \in DOMAIN piece : \E p \in P : piece[i] = s[p]
  BY <1>1, <1>2, <1>p
<1>5. \A p \in P : \E i \in DOMAIN piece : piece[i] = s[p]
  <2> SUFFICES ASSUME NEW p \in P PROVE \E i \in DOMAIN piece : piece[i] = s[p]
    OBVIOUS
  <2>1. PICK k \in DOMAIN ms : at(k) = p /\ ms[k] = s[p]
    BY <1>1
  <2> QED BY <1>3, <1>p, <2>1
<1>6. Ids(piece) = IdsAt(s, P)
  BY <1>4, <1>5 DEF Ids, IdsAt
<1>7. Covered(piece) = CoveredAt(s, P)
  <2>1. \A x : (\E i \in DOMAIN piece : x \in piece[i].covers) <=> (\E p \in P : x \in s[p].covers)
    BY <1>4, <1>5
  <2> QED BY <2>1 DEF Covered, CoveredAt
<1> QED BY <1>6, <1>7 DEF piece, ms

\* A split that has something to summarize has its parts in their order.
LEMMA SplitFits ==
    ASSUME NEW s \in Seq(StoredRow), NEW lost, NEW budget, DistinctIds(s), Paired(s, lost),
           Compactable(SplitForCompaction(s, budget))
    PROVE  \E hp, tp \in Nat : Parts(s, hp, tp, SplitForCompaction(s, budget))
<1> DEFINE ms  == FreeRows(s)
           at(k) == Place(Free(s), k)
           n   == Len(ms)
           vis == {i \in DOMAIN ms : ProviderVisible(ms[i])}
           h   == Min(vis)
           t   == TailStart(ms, h, budget)
           sp  == SplitForCompaction(s, budget)
<1>1. sp = IF Cardinality(vis) < 1 + KeepTailMin + 1
           THEN [head |-> ms, middle |-> <<>>, tail |-> <<>>]
           ELSE [head   |-> SubSeq(ms, 1, IF t <= h THEN t - 1 ELSE h),
                 middle |-> SubSeq(ms, h + 1, t - 1),
                 tail   |-> SubSeq(ms, t, n)]
  BY DEF SplitForCompaction, FreeRows, Free
<1>2. /\ ms \in Seq(StoredRow) /\ DOMAIN ms = 1..n /\ n \in Nat
      /\ \A k \in DOMAIN ms : at(k) \in Free(s) /\ ms[k] = s[at(k)]
      /\ \A i \in Free(s) : \E k \in DOMAIN ms : at(k) = i /\ ms[k] = s[i]
      /\ \A k, l \in DOMAIN ms : k < l => at(k) < at(l)
  BY FreeRowsAt
<1>3. \A i \in Free(s) : i \in DOMAIN s /\ i \in Nat
  BY DEF Free
<1>4. DistinctIds(ms) /\ Behind(ms)
  BY FreeRowsFit
<1>5. Compactable(sp)
  OBVIOUS
<1> HIDE DEF ms, at, n, sp
<1>6. sp.middle # <<>>
  <2>1. PICK i \in DOMAIN sp.middle : TRUE
    BY <1>5 DEF Compactable
  <2>2. DOMAIN <<>> = {}
    OBVIOUS
  <2> QED BY <2>1, <2>2
<1>7. ~(Cardinality(vis) < 1 + KeepTailMin + 1)
  <2>1. Cardinality(vis) < 1 + KeepTailMin + 1 => sp.middle = <<>>
    BY <1>1
  <2> QED BY <1>6, <2>1
<1>8. vis # {} /\ vis \subseteq Nat
  <2>1. vis = {} => Cardinality(vis) = 0
    BY FS_EmptySet
  <2> QED BY <1>2, <1>7, <2>1 DEF KeepTailMin
<1>9. h \in vis /\ \A k \in vis : h <= k
  BY <1>8, Smallest
<1>10. h \in 1..n
  BY <1>2, <1>9
<1>11. t \in h..(n + 1) /\ (t \in DOMAIN ms /\ t > h => ms[t].kind # "result")
  <2>1. h \in 1..Len(ms)
    BY <1>10 DEF n
  <2> HIDE DEF vis, h
  <2> QED BY <1>2, <1>4, <2>1, TailStartFits DEF n
<1> HIDE DEF t, h
<1>12. sp.middle = SubSeq(ms, h + 1, t - 1)
  BY <1>1, <1>7
<1>13. h + 1 <= t - 1
  <2>1. t - 1 < h + 1 => SubSeq(ms, h + 1, t - 1) = <<>>
    BY <1>2, <1>10, <1>11, SubSeqEmpty
  <2> QED BY <1>6, <1>10, <1>11, <1>12, <2>1
<1>14. sp.head = SubSeq(ms, 1, h) /\ sp.tail = SubSeq(ms, t, n)
  <2>1. ~(t <= h)
    BY <1>10, <1>11, <1>13
  <2> QED BY <1>1, <1>7, <2>1
<1> HIDE DEF vis
<1> DEFINE hp == at(h)
           tp == IF t <= n THEN at(t) ELSE Len(s) + 1
<1>15. \A k, l \in DOMAIN ms : /\ at(k) \in DOMAIN s /\ at(k) \in Nat /\ at(k) >= 1 /\ at(k) <= Len(s) /\ k \in Nat
                               /\ at(k) <= at(l) <=> k <= l
  <2>1. ASSUME NEW k \in DOMAIN ms, NEW l \in DOMAIN ms
        PROVE  /\ at(k) \in DOMAIN s /\ at(k) \in Nat /\ at(k) >= 1 /\ at(k) <= Len(s) /\ k \in Nat
               /\ at(k) <= at(l) <=> k <= l
    <3>1. at(k) \in DOMAIN s /\ at(k) \in Nat /\ at(l) \in Nat /\ k \in Nat /\ l \in Nat
      BY <1>2, <1>3
    <3>2. at(k) >= 1 /\ at(k) <= Len(s)
      BY <3>1
    <3>3. (k < l => at(k) < at(l)) /\ (l < k => at(l) < at(k)) /\ (k = l => at(k) = at(l))
      BY <1>2
    <3> QED BY <3>1, <3>2, <3>3
  <2> QED BY <2>1
<1>16. h \in DOMAIN ms /\ hp \in DOMAIN s /\ hp \in Nat
  BY <1>2, <1>10, <1>15
<1>17. tp \in Nat /\ tp \in (hp + 1)..(Len(s) + 1)
  <2>1. CASE t <= n
    <3>1. t \in DOMAIN ms /\ tp = at(t)
      BY <1>2, <1>10, <1>11, <2>1
    <3>2. at(t) > at(h)
      BY <1>2, <1>10, <1>13, <1>16, <3>1
    <3> QED BY <1>15, <1>16, <3>1, <3>2
  <2>2. CASE ~(t <= n)
    BY <1>15, <1>16, <2>2
  <2> QED BY <2>1, <2>2
<1>18. \A k \in DOMAIN ms : at(k) < tp <=> k < t
  <2>1. CASE t <= n
    <3>1. t \in DOMAIN ms /\ tp = at(t)
      BY <1>2, <1>10, <1>11, <2>1
    <3>2. \A k \in DOMAIN ms : at(t) <= at(k) <=> t <= k
      BY <1>15, <3>1
    <3>3. \A k \in DOMAIN ms : k \in Nat /\ at(k) \in Nat /\ t \in Nat /\ at(t) \in Nat
      BY <1>15, <3>1
    <3> QED BY <3>1, <3>2, <3>3
  <2>2. CASE ~(t <= n)
    <3>1. tp = Len(s) + 1
      BY <2>2
    <3>2. \A k \in DOMAIN ms : at(k) < tp
      BY <1>15, <3>1
    <3>3. \A k \in DOMAIN ms : k < t
      BY <1>2, <1>11, <1>10, <2>2
    <3> QED BY <3>2, <3>3
  <2> QED BY <2>1, <2>2
<1>19. \A k \in DOMAIN ms : at(k) <= hp <=> k <= h
  BY <1>15, <1>16
<1> HIDE DEF hp, tp
<1>20. FirstVisible(s, hp)
  <2>1. ProviderVisible(s[hp])
    BY <1>2, <1>9, <1>16 DEF vis, hp
  <2>2. ASSUME NEW k \in 1..(hp - 1), ProviderVisible(s[k]) PROVE FALSE
    <3>1. k \in DOMAIN s /\ k \in Nat /\ k < hp
      BY <1>16
    <3>2. k \in Free(s)
      BY <2>2, <3>1 DEF Free, Pinned, ProviderVisible
    <3>3. PICK l \in DOMAIN ms : at(l) = k /\ ms[l] = s[k]
      BY <1>2, <3>2
    <3>4. l \in vis
      BY <2>2, <3>3 DEF vis
    <3>5. ~(l < h)
      BY <1>2, <1>9, <1>10, <3>4
    <3>6. l <= h /\ l # h
      BY <1>19, <3>1, <3>3, <1>16 DEF hp
    <3> QED BY <1>2, <1>10, <3>5, <3>6
  <2> QED BY <1>16, <2>1, <2>2 DEF FirstVisible
<1>21. Ids(sp.head) = IdsAt(s, Free(s) \cap (1..hp))
  <2>1. ASSUME NEW k \in DOMAIN ms PROVE at(k) \in Free(s) \cap (1..hp) <=> 1 <= k /\ k <= h
    BY <1>2, <1>15, <1>16, <1>19
  <2>2. 1 \in 1..(n + 1) /\ h \in 0..n
    BY <1>2, <1>10
  <2>3. \A i \in Free(s) \cap (1..hp) : i \in Free(s)
    OBVIOUS
  <2> QED BY <1>14, <2>1, <2>2, <2>3, PartAt DEF ms, at, n
<1>22. /\ Ids(sp.middle) = IdsAt(s, Middle(s, hp, tp))
       /\ Covered(sp.middle) = CoveredAt(s, Middle(s, hp, tp))
  <2>1. ASSUME NEW k \in DOMAIN ms PROVE at(k) \in Middle(s, hp, tp) <=> h + 1 <= k /\ k <= t - 1
    <3>1. at(k) \in Nat /\ k \in Nat /\ at(k) \in Free(s)
      BY <1>2, <1>15
    <3>2. at(k) \in Middle(s, hp, tp) <=> ~(at(k) <= hp) /\ at(k) < tp
      BY <1>16, <1>17, <3>1 DEF Middle
    <3>3. (h + 1 <= k /\ k <= t - 1) <=> ~(k <= h) /\ k < t
      BY <1>10, <1>11, <3>1
    <3> QED BY <1>18, <1>19, <3>2, <3>3
  <2>2. \A i \in Middle(s, hp, tp) : i \in Free(s)
    BY DEF Middle
  <2>3. h + 1 \in 1..(n + 1) /\ t - 1 \in 0..n
    BY <1>2, <1>10, <1>11, <1>13
  <2>4. /\ Ids(SubSeq(ms, h + 1, t - 1)) = IdsAt(s, Middle(s, hp, tp))
        /\ Covered(SubSeq(ms, h + 1, t - 1)) = CoveredAt(s, Middle(s, hp, tp))
    BY <2>1, <2>2, <2>3, PartAt DEF ms, at, n
  <2> QED BY <1>12, <2>4
<1>23. Ids(sp.tail) = IdsAt(s, Free(s) \cap (tp..Len(s)))
  <2>1. ASSUME NEW k \in DOMAIN ms PROVE at(k) \in Free(s) \cap (tp..Len(s)) <=> t <= k /\ k <= n
    <3>1. at(k) \in Nat /\ k \in Nat /\ at(k) \in Free(s) /\ at(k) <= Len(s) /\ k <= n
      BY <1>2, <1>15
    <3>2. at(k) \in Free(s) \cap (tp..Len(s)) <=> ~(at(k) < tp)
      BY <1>17, <3>1
    <3>3. t <= k <=> ~(k < t)
      BY <1>10, <1>11, <3>1
    <3> QED BY <1>18, <3>1, <3>2, <3>3
  <2>2. t \in 1..(n + 1) /\ n \in 0..n
    BY <1>2, <1>10, <1>11, <1>13
  <2>3. \A i \in Free(s) \cap (tp..Len(s)) : i \in Free(s)
    OBVIOUS
  <2> QED BY <1>14, <2>1, <2>2, <2>3, PartAt DEF ms, at, n
<1>24. Middle(s, hp, tp) # {}
  <2>1. h + 1 \in DOMAIN ms /\ ~(h + 1 <= h) /\ h + 1 < t
    BY <1>2, <1>10, <1>11, <1>13
  <2>2. ~(at(h + 1) <= hp) /\ at(h + 1) < tp /\ at(h + 1) \in Nat /\ at(h + 1) \in Free(s)
    BY <1>2, <1>15, <1>18, <1>19, <2>1
  <2>3. at(h + 1) \in Middle(s, hp, tp)
    BY <1>16, <1>17, <2>2 DEF Middle
  <2> QED BY <2>3
<1>25. tp \in DOMAIN s => tp \in Free(s) /\ s[tp].kind # "result"
  <2>1. CASE t <= n
    <3>1. t \in DOMAIN ms /\ tp = at(t) /\ t > h
      BY <1>2, <1>10, <1>11, <1>13, <2>1 DEF tp
    <3> QED BY <1>2, <1>11, <3>1
  <2>2. CASE ~(t <= n)
    BY <2>2 DEF tp
  <2> QED BY <2>1, <2>2
<1>26. sp.tail # <<>> => tp \in DOMAIN s /\ sp.tail[1] = s[tp]
  <2>1. CASE t <= n
    <3>1. t \in DOMAIN ms /\ tp = at(t)
      BY <1>2, <1>10, <1>11, <2>1 DEF tp
    <3>2. SubSeq(ms, t, n)[1] = ms[t]
      BY <1>2, <3>1, <2>1
    <3> QED BY <1>2, <1>14, <1>15, <3>1, <3>2
  <2>2. CASE ~(t <= n)
    <3>1. sp.tail = <<>>
      BY <1>2, <1>10, <1>11, <1>14, <2>2, SubSeqEmpty
    <3> QED BY <3>1
  <2> QED BY <2>1, <2>2
<1>27. Parts(s, hp, tp, sp)
  BY <1>17, <1>20, <1>21, <1>22, <1>23, <1>24, <1>25, <1>26 DEF Parts
<1> QED BY <1>16, <1>17, <1>27 DEF sp

\* The list new has the elements of old at the positions stay, in their order, and
\* at z the row sum; f says where the others come from.  What stands before z comes
\* from before at.
Rebuilt(old, new, stay, sum, z, at, f) ==
    /\ z \in DOMAIN new /\ new[z] = sum
    /\ \A k \in DOMAIN new \ {z} : f[k] \in stay /\ new[k] = old[f[k]] /\ (k < z <=> f[k] < at)
    /\ \A i \in stay : \E k \in DOMAIN new \ {z} : f[k] = i
    /\ \A k, l \in DOMAIN new \ {z} : k < l => f[k] < f[l]

\* Two lists of kept rows with a row between them, and a list behind them.
LEMMA RebuiltAround ==
    ASSUME NEW p \in Seq(StoredRow), NEW q \in Seq(StoredRow), NEW sum \in StoredRow,
           NEW stay \in SUBSET DOMAIN p, NEW at \in 1..Len(p)
    PROVE  LET low  == Sublist(p, {i \in stay : i < at})
               high == Sublist(p, {i \in stay : i >= at})
               new  == (low \o <<sum>> \o high) \o q
           IN  /\ new \in Seq(StoredRow)
               /\ \E f : Rebuilt(p \o q, new, stay \cup ((Len(p) + 1)..(Len(p) + Len(q))), sum, Len(low) + 1, at, f)
<1> DEFINE lo   == {i \in stay : i < at}
           hi   == {i \in stay : i >= at}
           low  == Sublist(p, lo)
           high == Sublist(p, hi)
           mid  == low \o <<sum>>
           all  == mid \o high
           new  == all \o q
           n    == Len(p)
           a    == Len(low)
           b    == Len(high)
           z    == a + 1
           c    == a + 1
           d    == a + 1 + b
           f    == [k \in DOMAIN new |-> IF k <= a THEN Place(lo, k) ELSE IF k <= d THEN Place(hi, k - c)
                                         ELSE n + (k - d)]
           late == (n + 1)..(n + Len(q))
<1>1. lo \in SUBSET DOMAIN p /\ hi \in SUBSET DOMAIN p /\ n \in Nat /\ DOMAIN p = 1..n /\ Len(q) \in Nat
  OBVIOUS
<1>2. low \in Seq(StoredRow) /\ high \in Seq(StoredRow)
  BY <1>1, SublistType
<1>3. a \in Nat /\ DOMAIN low = 1..a /\ b \in Nat /\ DOMAIN high = 1..b
  BY <1>2
<1>4. /\ \A k \in 1..a : Place(lo, k) \in lo /\ low[k] = p[Place(lo, k)]
      /\ \A i \in lo : \E k \in 1..a : Place(lo, k) = i
  <2>1. /\ \A k \in DOMAIN low : Place(lo, k) \in lo /\ low[k] = p[Place(lo, k)]
        /\ \A i \in lo : \E k \in DOMAIN low : Place(lo, k) = i /\ low[k] = p[i]
    BY <1>1, SublistElements
  <2> HIDE DEF lo, low, a
  <2> QED BY <1>3, <2>1
<1>5. /\ \A k \in 1..b : Place(hi, k) \in hi /\ high[k] = p[Place(hi, k)]
      /\ \A i \in hi : \E k \in 1..b : Place(hi, k) = i
  <2>1. /\ \A k \in DOMAIN high : Place(hi, k) \in hi /\ high[k] = p[Place(hi, k)]
        /\ \A i \in hi : \E k \in DOMAIN high : Place(hi, k) = i /\ high[k] = p[i]
    BY <1>1, SublistElements
  <2> HIDE DEF hi, high, b
  <2> QED BY <1>3, <2>1
<1>6. \A k, l \in 1..a : k < l => Place(lo, k) < Place(lo, l)
  BY <1>1, <1>3, SublistOrder
<1>7. \A k, l \in 1..b : k < l => Place(hi, k) < Place(hi, l)
  BY <1>1, <1>3, SublistOrder
<1>8. \A i \in lo : i \in stay /\ i \in Nat /\ i >= 1 /\ i <= n /\ i < at
  BY <1>1
<1>9. \A i \in hi : i \in stay /\ i \in Nat /\ i >= 1 /\ i <= n /\ i >= at
  BY <1>1
<1>10. \A i \in stay : i \in lo \/ i \in hi
  BY <1>1
<1>at. at \in Nat /\ at <= n
  BY <1>1
<1>c. c \in Nat /\ d \in Nat /\ c = a + 1 /\ d = c + b
  BY <1>3
<1> HIDE DEF lo, hi, low, high, a, b, n, c, d
<1>11. mid \in Seq(StoredRow) /\ Len(mid) = c /\ \A k \in 1..c : mid[k] = IF k <= a THEN low[k] ELSE sum
  <2>1. mid \in Seq(StoredRow) /\ Len(mid) = a + 1 /\ \A k \in 1..(a + 1) : mid[k] = IF k <= a THEN low[k] ELSE sum
    BY <1>2, <1>3 DEF a
  <2> QED BY <1>c, <2>1
<1> HIDE DEF mid
<1>12. all \in Seq(StoredRow) /\ Len(all) = d /\ \A k \in 1..d : all[k] = IF k <= c THEN mid[k] ELSE high[k - c]
  <2>1. /\ mid \o high \in Seq(StoredRow) /\ Len(mid \o high) = Len(mid) + Len(high)
        /\ \A k \in 1..(Len(mid) + Len(high)) : (mid \o high)[k] = IF k <= Len(mid) THEN mid[k] ELSE high[k - Len(mid)]
    BY <1>2, <1>11, ConcatProperties
  <2>2. Len(mid) = c /\ Len(mid) + Len(high) = d
    BY <1>11, <1>c DEF b
  <2> QED BY <2>1, <2>2 DEF all
<1> HIDE DEF all
<1>13. /\ new \in Seq(StoredRow) /\ Len(new) = d + Len(q) /\ DOMAIN new = 1..(d + Len(q))
       /\ \A k \in 1..(d + Len(q)) : new[k] = IF k <= d THEN all[k] ELSE q[k - d]
  <2>1. /\ all \o q \in Seq(StoredRow) /\ Len(all \o q) = Len(all) + Len(q)
        /\ \A k \in 1..(Len(all) + Len(q)) : (all \o q)[k] = IF k <= Len(all) THEN all[k] ELSE q[k - Len(all)]
    BY <1>12, ConcatProperties
  <2>2. DOMAIN (all \o q) = 1..Len(all \o q)
    BY <2>1
  <2> QED BY <1>12, <2>1, <2>2 DEF new
<1>14. (p \o q) \in Seq(StoredRow) /\ \A i \in 1..(n + Len(q)) : (p \o q)[i] = IF i <= n THEN p[i] ELSE q[i - n]
  BY <1>1 DEF n
<1> HIDE DEF new
<1>15. ASSUME NEW k \in 1..a
       PROVE  /\ k \in DOMAIN new \ {z} /\ f[k] = Place(lo, k) /\ f[k] \in stay
              /\ f[k] \in Nat /\ f[k] < at /\ new[k] = (p \o q)[f[k]]
  <2>1. k \in DOMAIN new /\ k # z /\ k <= a
    BY <1>1, <1>3, <1>c, <1>13
  <2>2. f[k] = Place(lo, k)
    BY <2>1
  <2>3. f[k] \in stay /\ f[k] \in Nat /\ f[k] >= 1 /\ f[k] < at /\ f[k] <= n
    BY <1>4, <1>8, <2>2
  <2>4. new[k] = p[f[k]]
    <3>1. k <= c /\ k <= d /\ k \in 1..c /\ k \in 1..d /\ k \in 1..(d + Len(q))
      BY <1>1, <1>3, <1>c
    <3> QED BY <1>4, <1>11, <1>12, <1>13, <2>1, <2>2, <3>1
  <2>5. (p \o q)[f[k]] = p[f[k]]
    BY <1>1, <1>14, <2>3
  <2> QED BY <2>1, <2>2, <2>3, <2>4, <2>5
<1>16. ASSUME NEW j \in 1..b
       PROVE  /\ c + j \in DOMAIN new \ {z} /\ f[c + j] = Place(hi, j) /\ f[c + j] \in stay
              /\ f[c + j] \in Nat /\ f[c + j] >= at /\ f[c + j] <= n /\ new[c + j] = (p \o q)[f[c + j]]
  <2>1. c + j \in DOMAIN new /\ c + j # z /\ ~(c + j <= a) /\ c + j <= d /\ (c + j) - c = j
    BY <1>1, <1>3, <1>c, <1>13
  <2>2. f[c + j] = Place(hi, j)
    BY <2>1
  <2>3. f[c + j] \in stay /\ f[c + j] \in Nat /\ f[c + j] >= 1 /\ f[c + j] >= at /\ f[c + j] <= n
    BY <1>5, <1>9, <2>2
  <2>4. new[c + j] = p[f[c + j]]
    <3>1. new[c + j] = all[c + j]
      BY <1>3, <1>c, <1>13, <2>1
    <3>2. all[c + j] = high[j]
      BY <1>3, <1>c, <1>12, <2>1
    <3> QED BY <1>5, <2>2, <3>1, <3>2
  <2>5. (p \o q)[f[c + j]] = p[f[c + j]]
    BY <1>1, <1>14, <2>3
  <2> QED BY <2>1, <2>2, <2>3, <2>4, <2>5
<1>17. ASSUME NEW j \in 1..Len(q)
       PROVE  /\ d + j \in DOMAIN new \ {z} /\ f[d + j] = n + j /\ f[d + j] \in late
              /\ f[d + j] \in Nat /\ f[d + j] >= at /\ new[d + j] = (p \o q)[f[d + j]]
  <2>1. /\ d + j \in DOMAIN new /\ d + j # z
        /\ ~(d + j <= a) /\ ~(d + j <= d) /\ (d + j) - d = j /\ j \in Nat
    <3>1. j \in Nat /\ j >= 1 /\ j <= Len(q)
      BY <1>1
    <3>2. a \in Nat /\ b \in Nat /\ c = a + 1 /\ d = c + b /\ z = a + 1
      BY <1>3, <1>c
    <3>3. d + j \in 1..(d + Len(q)) /\ d + j > d /\ d + j > c /\ d >= a
      BY <1>1, <3>1, <3>2
    <3> QED BY <1>13, <3>1, <3>2, <3>3
  <2>2. f[d + j] = n + j
    BY <2>1
  <2>3. n + j \in late /\ n + j \in Nat /\ n + j >= at /\ n + j \in 1..(n + Len(q)) /\ ~(n + j <= n)
    BY <1>1, <1>at, <2>1
  <2>4. new[d + j] = q[j]
    BY <1>3, <1>c, <1>13, <2>1
  <2>5. (p \o q)[n + j] = q[j]
    BY <1>1, <1>14, <2>1, <2>3
  <2> QED BY <2>1, <2>2, <2>3, <2>4, <2>5
<1>18. \A k \in DOMAIN new \ {z} : k \in 1..a \/ (\E j \in 1..b : k = c + j) \/ (\E j \in 1..Len(q) : k = d + j)
  <2> SUFFICES ASSUME NEW k \in DOMAIN new \ {z}
               PROVE  k \in 1..a \/ (\E j \in 1..b : k = c + j) \/ (\E j \in 1..Len(q) : k = d + j)
    OBVIOUS
  <2>1. k \in Nat /\ k >= 1 /\ k <= d + Len(q) /\ k # c
    <3>1. k \in 1..(d + Len(q)) /\ k # z
      BY <1>13
    <3>2. z = c
      BY <1>c
    <3> QED BY <1>1, <1>c, <3>1, <3>2
  <2>2. a \in Nat /\ b \in Nat /\ c = a + 1 /\ d = c + b
    BY <1>3, <1>c
  <2>3. CASE k <= a
    BY <2>1, <2>2, <2>3
  <2>4. CASE k > c /\ k <= d
    <3>1. k - c \in 1..b /\ k = c + (k - c)
      BY <2>1, <2>2, <2>4
    <3> QED BY <3>1
  <2>5. CASE k > d
    <3>1. k - d \in 1..Len(q) /\ k = d + (k - d)
      BY <1>1, <2>1, <2>2, <2>5
    <3> QED BY <3>1
  <2> QED BY <2>1, <2>2, <2>3, <2>4, <2>5
<1> DEFINE old  == p \o q
           keep == stay \cup late
<1> HIDE DEF f, late, z
<1>z. z = a + 1 /\ z \in DOMAIN new /\ new[z] = sum
  <2>1. z = a + 1
    BY DEF z
  <2>2. a + 1 \in DOMAIN new
    BY <1>1, <1>3, <1>c, <1>13
  <2>3. new[a + 1] = sum
    BY <1>1, <1>3, <1>c, <1>11, <1>12, <1>13
  <2> QED BY <2>1, <2>2, <2>3
<1>19. \A k \in DOMAIN new \ {z} : f[k] \in keep /\ new[k] = old[f[k]] /\ (k < z <=> f[k] < at)
  <2> SUFFICES ASSUME NEW k \in DOMAIN new \ {z}
               PROVE  f[k] \in keep /\ new[k] = old[f[k]] /\ (k < z <=> f[k] < at)
    OBVIOUS
  <2>1. CASE k \in 1..a
    <3>1. k < z
      BY <1>3, <1>z, <2>1
    <3> QED BY <1>15, <2>1, <3>1
  <2>2. ASSUME NEW j \in 1..b, k = c + j PROVE f[k] \in keep /\ new[k] = old[f[k]] /\ (k < z <=> f[k] < at)
    <3>1. ~(c + j < z)
      BY <1>3, <1>c, <1>z, <2>2
    <3>2. ~(f[k] < at)
      BY <1>16, <1>at, <2>2
    <3> QED BY <1>16, <2>2, <3>1, <3>2
  <2>3. ASSUME NEW j \in 1..Len(q), k = d + j PROVE f[k] \in keep /\ new[k] = old[f[k]] /\ (k < z <=> f[k] < at)
    BY <1>1, <1>3, <1>c, <1>17, <1>z, <1>at, <2>3
  <2> QED BY <1>18, <2>1, <2>2, <2>3
<1>20. \A i \in keep : \E k \in DOMAIN new \ {z} : f[k] = i
  <2> SUFFICES ASSUME NEW i \in keep PROVE \E k \in DOMAIN new \ {z} : f[k] = i
    OBVIOUS
  <2>1. CASE i \in lo
    BY <1>4, <1>15, <2>1
  <2>2. CASE i \in hi
    BY <1>5, <1>16, <2>2
  <2>3. CASE i \in late
    <3>1. i - n \in 1..Len(q) /\ n + (i - n) = i
      BY <1>1, <2>3 DEF late
    <3> QED BY <1>17, <3>1
  <2> QED BY <1>10, <2>1, <2>2, <2>3
<1>21. \A k, l \in DOMAIN new \ {z} : k < l => f[k] < f[l]
  <2> SUFFICES ASSUME NEW k \in DOMAIN new \ {z}, NEW l \in DOMAIN new \ {z}, k < l PROVE f[k] < f[l]
    OBVIOUS
  <2>1. CASE k \in 1..a /\ l \in 1..a
    BY <1>6, <1>15, <2>1
  <2>2. ASSUME k \in 1..a, NEW j \in 1..b, l = c + j PROVE f[k] < f[l]
    BY <1>15, <1>16, <1>at, <2>2
  <2>3. ASSUME k \in 1..a, NEW j \in 1..Len(q), l = d + j PROVE f[k] < f[l]
    BY <1>15, <1>17, <1>at, <2>3
  <2>4. ASSUME NEW i \in 1..b, k = c + i, NEW j \in 1..b, l = c + j PROVE f[k] < f[l]
    <3>1. i < j
      BY <1>3, <1>c, <2>4
    <3> QED BY <1>7, <1>16, <2>4, <3>1
  <2>5. ASSUME NEW i \in 1..b, k = c + i, NEW j \in 1..Len(q), l = d + j PROVE f[k] < f[l]
    <3>1. f[k] \in Nat /\ f[k] <= n
      BY <1>16, <2>5
    <3>2. f[l] = n + j /\ j \in Nat /\ j >= 1
      BY <1>1, <1>17, <2>5
    <3> QED BY <1>1, <3>1, <3>2
  <2>6. ASSUME NEW i \in 1..Len(q), k = d + i, NEW j \in 1..Len(q), l = d + j PROVE f[k] < f[l]
    <3>1. i < j
      BY <1>1, <1>3, <1>c, <2>6
    <3> QED BY <1>1, <1>17, <2>6, <3>1
  <2>7. ~(l \in 1..a) \/ k \in 1..a
    BY <1>1, <1>3, <1>c, <1>13
  <2>8. ASSUME NEW j \in 1..b, l = c + j, NEW i \in 1..Len(q), k = d + i PROVE FALSE
    BY <1>1, <1>3, <1>c, <2>8
  <2> QED BY <1>18, <2>1, <2>2, <2>3, <2>4, <2>5, <2>6, <2>7, <2>8
<1>22. Rebuilt(old, new, keep, sum, z, at, f)
  BY <1>z, <1>19, <1>20, <1>21 DEF Rebuilt
<1> QED BY <1>13, <1>22, <1>z DEF new, all, mid, low, high, lo, hi, a, late, n

\* A compaction drops the middle and puts the summary where the middle began.
LEMMA Compacted ==
    ASSUME NEW p \in Seq(StoredRow), NEW q \in Seq(StoredRow), NEW sum \in StoredRow, DistinctIds(p),
           NEW hp \in Nat, NEW tp \in Nat, NEW head, NEW tail,
           hp \in DOMAIN p, tp \in (hp + 1)..(Len(p) + 1), Middle(p, hp, tp) # {},
           Ids(head) = IdsAt(p, Free(p) \cap (1..hp)), Ids(tail) = IdsAt(p, Free(p) \cap (tp..Len(p)))
    PROVE  LET new == RebuildCompacted(p, head, sum, tail) \o q
           IN  /\ new \in Seq(StoredRow)
               /\ \E z, at, f : /\ at \in Middle(p, hp, tp)
                                /\ Rebuilt(p \o q, new, DOMAIN (p \o q) \ Middle(p, hp, tp), sum, z, at, f)
<1> DEFINE stay == {i \in DOMAIN p : Pinned(p[i]) \/ p[i].id \in Ids(head) \cup Ids(tail)}
           cut  == {i \in DOMAIN p : ~Pinned(p[i]) /\ p[i].id \notin Ids(head)}
           at   == IF cut = {} THEN Len(p) + 1 ELSE Min(cut)
           M    == Middle(p, hp, tp)
           low  == Sublist(p, {i \in stay : i < at})
           high == Sublist(p, {i \in stay : i >= at})
           all  == stay \cup ((Len(p) + 1)..(Len(p) + Len(q)))
<1>1. RebuildCompacted(p, head, sum, tail) = low \o <<sum>> \o high
  BY DEF RebuildCompacted
<1>2. DOMAIN p = 1..Len(p) /\ Len(p) \in Nat /\ Len(q) \in Nat
  OBVIOUS
<1>3. \A P \in SUBSET DOMAIN p : \A i \in DOMAIN p : p[i].id \in IdsAt(p, P) <=> i \in P
  BY DEF IdsAt, DistinctIds
<1>4. \A i \in DOMAIN p : /\ p[i].id \in Ids(head) <=> i \in Free(p) /\ i <= hp
                          /\ p[i].id \in Ids(tail) <=> i \in Free(p) /\ i >= tp
                          /\ i \in Free(p) <=> ~Pinned(p[i])
  <2>1. Free(p) \cap (1..hp) \in SUBSET DOMAIN p /\ Free(p) \cap (tp..Len(p)) \in SUBSET DOMAIN p
    BY DEF Free
  <2>2. \A i \in DOMAIN p : i \in Nat /\ i >= 1 /\ i <= Len(p) /\ (i \in 1..hp <=> i <= hp) /\ (i \in tp..Len(p) <=> i >= tp)
    BY <1>2
  <2>3. \A i \in DOMAIN p : i \in Free(p) <=> ~Pinned(p[i])
    BY DEF Free
  <2> QED BY <1>3, <2>1, <2>2, <2>3
<1>5. \A i \in DOMAIN p : i \in M <=> i \in Free(p) /\ ~(i <= hp) /\ ~(i >= tp)
  BY <1>2 DEF Middle
<1>6. \A i \in M : i \in DOMAIN p /\ i \in Nat /\ i < tp
  BY <1>2 DEF Middle, Free
<1>7. \A i \in DOMAIN p : i \in stay <=> i \notin M
  BY <1>4, <1>5
<1>8. \A i \in DOMAIN p : i \in cut <=> i \in Free(p) /\ ~(i <= hp)
  BY <1>4
<1>9. stay \in SUBSET DOMAIN p /\ cut \in SUBSET DOMAIN p
  OBVIOUS
<1> HIDE DEF stay, cut, M
<1>10. at \in M
  <2>1. PICK m \in M : TRUE
    BY DEF M
  <2>2. m \in cut /\ m < tp
    BY <1>5, <1>6, <1>8, <2>1
  <2>3. cut \subseteq Nat /\ cut # {}
    BY <1>2, <1>9, <2>2
  <2>4. at \in cut /\ at <= m
    BY <2>2, <2>3, Smallest
  <2>5. at \in DOMAIN p /\ at \in Nat /\ ~(at >= tp)
    BY <1>2, <1>6, <1>9, <2>2, <2>4
  <2> QED BY <1>5, <1>8, <2>4, <2>5
<1>11. at \in 1..Len(p)
  BY <1>2, <1>6, <1>10
<1> HIDE DEF at
<1>12. /\ (low \o <<sum>> \o high) \o q \in Seq(StoredRow)
       /\ \E f : Rebuilt(p \o q, (low \o <<sum>> \o high) \o q, all, sum, Len(low) + 1, at, f)
  BY <1>9, <1>11, RebuiltAround
<1>13. all = DOMAIN (p \o q) \ M
  <2>1. DOMAIN (p \o q) = 1..(Len(p) + Len(q))
    BY <1>2
  <2>2. \A i \in all : i \in DOMAIN (p \o q) \ M
    <3>1. ASSUME NEW i \in stay PROVE i \in DOMAIN (p \o q) \ M
      BY <1>2, <1>7, <1>9, <2>1
    <3>2. ASSUME NEW i \in (Len(p) + 1)..(Len(p) + Len(q)) PROVE i \in DOMAIN (p \o q) \ M
      <4>1. i \notin DOMAIN p
        BY <1>2
      <4> QED BY <1>2, <1>6, <2>1, <4>1
    <3> QED BY <3>1, <3>2
  <2>3. \A i \in DOMAIN (p \o q) \ M : i \in all
    <3> SUFFICES ASSUME NEW i \in DOMAIN (p \o q) \ M PROVE i \in all
      OBVIOUS
    <3>1. CASE i \in DOMAIN p
      BY <1>7, <3>1
    <3>2. CASE i \notin DOMAIN p
      BY <1>2, <2>1, <3>2
    <3> QED BY <3>1, <3>2
  <2> HIDE DEF all
  <2> QED BY <2>2, <2>3
<1> QED BY <1>1, <1>10, <1>12, <1>13 DEF M

\* What the rows of a thread are: no id is used twice, those that are no summary
\* stand in the order they were written in and cover nothing, and no two cover the
\* same row.
Sorted(s) ==
    \A i, k \in DOMAIN s : i < k /\ s[i].kind # "summary" /\ s[k].kind # "summary" => s[i].id < s[k].id
PlainCovers(s) == \A i \in DOMAIN s : s[i].kind # "summary" => s[i].covers = {}
CoversApart(s) == \A i, k \in DOMAIN s : i # k => s[i].covers \cap s[k].covers = {}
Sound(s, lost) ==
    s \in Seq(StoredRow) /\ DistinctIds(s) /\ Sorted(s) /\ PlainCovers(s) /\ CoversApart(s) /\ Paired(s, lost)
        /\ Ids(s) \cap Covered(s) = {}

\* The rows M of old are gone from new and covered by the row with this id.
Summed(old, new, M, id) ==
    /\ Ids(new) = IdsAt(old, DOMAIN old \ M) \cup {id}
    /\ Covered(new) = Covered(old) \cup IdsAt(old, M)

\* No response outside the rows M has its request in M.
Untorn(s, M) ==
    \A i \in DOMAIN s \ M :
        i > 1 /\ s[i].kind = "result" /\ s[i - 1].kind = "call" /\ s[i - 1].id = s[i].of => i - 1 \notin M

\* A compaction leaves such rows: the request of a kept response is kept, and what
\* the summary covers no other row covers.
LEMMA CompactedSound ==
    ASSUME NEW old, NEW lost, Sound(old, lost), NEW new \in Seq(StoredRow), NEW sum \in StoredRow,
           NEW M \in SUBSET Free(old), NEW z, NEW at \in M, NEW f,
           Rebuilt(old, new, DOMAIN old \ M, sum, z, at, f),
           sum.kind = "summary", sum.covers = IdsAt(old, M) \cup CoveredAt(old, M),
           sum.id \notin Ids(old), sum.id \notin Covered(old),
           Untorn(old, M)
    PROVE  Sound(new, lost) /\ Summed(old, new, M, sum.id)
<1> DEFINE K == DOMAIN new \ {z}
           stay == DOMAIN old \ M
<1>1. /\ old \in Seq(StoredRow) /\ DistinctIds(old) /\ Sorted(old) /\ PlainCovers(old) /\ CoversApart(old)
      /\ Paired(old, lost) /\ Ids(old) \cap Covered(old) = {}
  BY DEF Sound
<1>2. /\ z \in DOMAIN new /\ new[z] = sum
      /\ \A k \in K : f[k] \in stay /\ new[k] = old[f[k]] /\ (k < z <=> f[k] < at)
      /\ \A i \in stay : \E k \in K : f[k] = i
      /\ \A k, l \in K : k < l => f[k] < f[l]
  BY DEF Rebuilt
<1>3. /\ \A i \in DOMAIN old : i \in Nat /\ i >= 1 /\ old[i] \in StoredRow
      /\ \A i \in DOMAIN new : i \in Nat /\ i >= 1
      /\ \A i \in M : i \in DOMAIN old /\ ~Pinned(old[i])
  BY <1>1 DEF Free
<1> HIDE DEF K, stay
<1>4. \A k \in DOMAIN new : k = z \/ k \in K
  BY DEF K
<1>5. \A k \in K : k \in DOMAIN new /\ k # z
  BY DEF K
<1>6. \A i \in stay : i \in DOMAIN old /\ i \notin M
  BY DEF stay
<1>7. \A k \in K : \A l \in K : k # l => f[k] # f[l]
  <2> SUFFICES ASSUME NEW k \in K, NEW l \in K, k # l PROVE f[k] # f[l]
    OBVIOUS
  <2>1. k \in Nat /\ l \in Nat /\ f[k] \in Nat /\ f[l] \in Nat
    BY <1>2, <1>3, <1>5, <1>6
  <2>2. (k < l => f[k] < f[l]) /\ (l < k => f[l] < f[k])
    BY <1>2
  <2> QED BY <2>1, <2>2
<1>8. DistinctIds(new)
  <2> SUFFICES ASSUME NEW k \in DOMAIN new, NEW l \in DOMAIN new, new[k].id = new[l].id PROVE k = l
    BY DEF DistinctIds
  <2>1. \A j \in K : new[j].id # sum.id
    BY <1>2, <1>6 DEF Ids
  <2>2. CASE k \in K /\ l \in K
    BY <1>1, <1>2, <1>6, <1>7, <2>2 DEF DistinctIds
  <2> QED BY <1>2, <1>4, <2>1, <2>2
<1>9. Sorted(new)
  <2> SUFFICES ASSUME NEW k \in DOMAIN new, NEW l \in DOMAIN new, k < l, new[k].kind # "summary", new[l].kind # "summary"
               PROVE  new[k].id < new[l].id
    BY DEF Sorted
  <2>1. k \in K /\ l \in K
    BY <1>2, <1>4
  <2>2. f[k] < f[l] /\ f[k] \in DOMAIN old /\ f[l] \in DOMAIN old
    BY <1>2, <1>6, <2>1
  <2> QED BY <1>1, <1>2, <2>1, <2>2 DEF Sorted
<1>10. PlainCovers(new)
  BY <1>1, <1>2, <1>4, <1>6 DEF PlainCovers
<1>11. CoversApart(new)
  <2>1. ASSUME NEW k \in K PROVE new[k].covers \cap sum.covers = {}
    <3>1. f[k] \in DOMAIN old /\ f[k] \notin M /\ new[k].covers = old[f[k]].covers
      BY <1>2, <1>6
    <3>2. ASSUME NEW x \in old[f[k]].covers, x \in IdsAt(old, M) PROVE FALSE
      <4>1. x \in Ids(old)
        BY <1>3, <3>2 DEF IdsAt, Ids
      <4>2. x \in Covered(old)
        BY <3>1, <3>2 DEF Covered
      <4> QED BY <1>1, <4>1, <4>2
    <3>3. ASSUME NEW x \in old[f[k]].covers, x \in CoveredAt(old, M) PROVE FALSE
      <4>1. PICK i \in M : x \in old[i].covers
        BY <3>3 DEF CoveredAt
      <4> QED BY <1>1, <1>3, <3>1, <3>3, <4>1 DEF CoversApart
    <3> QED BY <3>1, <3>2, <3>3
  <2>2. ASSUME NEW k \in K, NEW l \in K, k # l PROVE new[k].covers \cap new[l].covers = {}
    <3>1. f[k] \in DOMAIN old /\ f[l] \in DOMAIN old /\ f[k] # f[l]
      BY <1>2, <1>6, <1>7, <2>2
    <3> QED BY <1>1, <1>2, <3>1 DEF CoversApart
  <2> SUFFICES ASSUME NEW k \in DOMAIN new, NEW l \in DOMAIN new, k # l PROVE new[k].covers \cap new[l].covers = {}
    BY DEF CoversApart
  <2> QED BY <1>2, <1>4, <2>1, <2>2
<1>12. Ids(new) = IdsAt(old, stay) \cup {sum.id}
  <2>1. \A k \in K : new[k].id \in IdsAt(old, stay)
    BY <1>2 DEF IdsAt
  <2>2. \A i \in stay : old[i].id \in Ids(new)
    BY <1>2, <1>5 DEF Ids
  <2>3. \A x \in Ids(new) : x \in IdsAt(old, stay) \cup {sum.id}
    BY <1>2, <1>4, <2>1 DEF Ids
  <2>4. \A x \in IdsAt(old, stay) : x \in Ids(new)
    BY <2>2 DEF IdsAt
  <2>5. sum.id \in Ids(new)
    BY <1>2 DEF Ids
  <2> QED BY <2>3, <2>4, <2>5
<1>13. Covered(new) = Covered(old) \cup IdsAt(old, M)
  <2>1. ASSUME NEW x \in Covered(new) PROVE x \in Covered(old) \cup IdsAt(old, M)
    <3>1. PICK k \in DOMAIN new : x \in new[k].covers
      BY <2>1 DEF Covered
    <3>2. CASE k \in K
      BY <1>2, <1>6, <3>1, <3>2 DEF Covered
    <3>3. CASE k = z
      <4>1. x \in CoveredAt(old, M) => x \in Covered(old)
        BY <1>3 DEF CoveredAt, Covered
      <4> QED BY <1>2, <3>1, <3>3, <4>1
    <3> QED BY <1>4, <3>1, <3>2, <3>3
  <2>2. ASSUME NEW x \in Covered(old) PROVE x \in Covered(new)
    <3>1. PICK i \in DOMAIN old : x \in old[i].covers
      BY <2>2 DEF Covered
    <3>2. CASE i \in M
      <4>1. x \in CoveredAt(old, M)
        BY <3>1, <3>2 DEF CoveredAt
      <4> QED BY <1>2, <4>1 DEF Covered
    <3>3. CASE i \notin M
      <4>1. i \in stay
        BY <3>3 DEF stay
      <4>2. PICK k \in K : f[k] = i
        BY <1>2, <4>1
      <4>3. k \in DOMAIN new /\ new[k] = old[i]
        BY <1>2, <1>5, <4>2
      <4> QED BY <3>1, <4>3 DEF Covered
    <3> QED BY <3>2, <3>3
  <2>3. \A x \in IdsAt(old, M) : x \in Covered(new)
    BY <1>2 DEF Covered
  <2> QED BY <2>1, <2>2, <2>3
<1>14. Ids(new) \cap Covered(new) = {}
  <2>1. \A x \in IdsAt(old, stay) : x \in Ids(old) /\ x \notin IdsAt(old, M)
    <3>1. ASSUME NEW i \in stay, NEW j \in M, old[i].id = old[j].id PROVE FALSE
      BY <1>1, <1>3, <1>6, <3>1 DEF DistinctIds
    <3>2. \A i \in stay : old[i].id \in Ids(old)
      BY <1>6 DEF Ids
    <3> QED BY <3>1, <3>2 DEF IdsAt
  <2>2. \A x \in IdsAt(old, M) : x \in Ids(old)
    BY <1>3 DEF IdsAt, Ids
  <2> QED BY <1>1, <1>12, <1>13, <2>1, <2>2
<1>15. Paired(new, lost)
  <2> SUFFICES ASSUME NEW k \in DOMAIN new, new[k].kind = "result"
               PROVE  \/ k > 1 /\ new[k - 1].kind = "call" /\ new[k - 1].id = new[k].of
                      \/ new[k].of \in lost /\ \A m \in 1..(k - 1) : Pinned(new[m])
    BY DEF Paired
  <2>1. k \in K
    BY <1>2, <1>4
  <2> DEFINE i == f[k]
  <2>2. i \in stay /\ i \in DOMAIN old /\ i \notin M /\ i \in Nat /\ new[k] = old[i] /\ k \in Nat /\ k >= 1 /\ (k < z <=> i < at)
    BY <1>2, <1>3, <1>5, <1>6, <2>1
  <2>3. at \in Nat /\ at \in DOMAIN old /\ ~Pinned(old[at]) /\ i # at /\ z \in Nat
    BY <1>2, <1>3, <2>2
  <2>4. CASE i > 1 /\ old[i - 1].kind = "call" /\ old[i - 1].id = old[i].of
    <3>1. i - 1 \in stay
      <4>1. i - 1 \in DOMAIN old
        BY <1>1, <2>2, <2>4
      <4>2. i - 1 \notin M
        BY <2>2, <2>4 DEF Untorn
      <4> QED BY <4>1, <4>2 DEF stay
    <3>2. PICK l \in K : f[l] = i - 1
      BY <1>2, <3>1
    <3>3. l \in Nat /\ l \in DOMAIN new /\ new[l] = old[i - 1] /\ (l < z <=> i - 1 < at) /\ l # z
      BY <1>2, <1>3, <1>5, <3>2
    <3>4. l < k
      <4>1. k < l => i < i - 1
        BY <1>2, <2>1, <3>2
      <4>2. k # l
        BY <2>2, <3>2
      <4> QED BY <2>2, <3>3, <4>1, <4>2
    <3>5. k - 1 \in DOMAIN new
      BY <2>2, <3>3, <3>4
    <3>6. k - 1 # z
      <4>1. k - 1 = z => l < z /\ ~(k < z)
        BY <2>2, <2>3, <3>3, <3>4
      <4>2. l < z /\ ~(k < z) => i = at
        BY <2>2, <2>3, <3>3
      <4> QED BY <2>3, <4>1, <4>2
    <3>7. k - 1 = l
      <4>1. k - 1 \in K
        BY <1>4, <3>5, <3>6
      <4>2. f[k - 1] \in Nat
        BY <1>2, <1>3, <1>6, <4>1
      <4>3. f[k - 1] < f[k]
        BY <1>2, <2>1, <2>2, <4>1
      <4>4. l < k - 1 => f[l] < f[k - 1]
        BY <1>2, <4>1
      <4> QED BY <2>2, <3>2, <3>3, <3>4, <4>2, <4>3, <4>4
    <3> QED BY <2>2, <2>4, <3>3, <3>4, <3>7
  <2>5. CASE old[i].of \in lost /\ \A m \in 1..(i - 1) : Pinned(old[m])
    <3>1. ~(at < i)
      BY <2>2, <2>3, <2>5, <1>3
    <3>2. k < z
      BY <2>2, <2>3, <3>1
    <3>3. ASSUME NEW m \in 1..(k - 1) PROVE Pinned(new[m])
      <4>1. m \in DOMAIN new /\ m < k /\ m # z
        BY <2>2, <2>3, <3>2, <1>1, <1>5, <2>1
      <4>2. m \in K
        BY <1>4, <4>1
      <4>3. f[m] \in 1..(i - 1) /\ new[m] = old[f[m]]
        <5>1. f[m] < f[k]
          BY <1>2, <2>1, <4>1, <4>2
        <5>2. f[m] \in Nat /\ f[m] >= 1 /\ new[m] = old[f[m]]
          BY <1>2, <1>3, <1>6, <4>2
        <5> QED BY <2>2, <5>1, <5>2
      <4> QED BY <2>5, <4>3
    <3> QED BY <2>2, <2>5, <3>3
  <2>6. old[i].kind = "result"
    BY <2>2
  <2> QED BY <1>1, <2>2, <2>4, <2>5, <2>6 DEF Paired
<1> QED BY <1>8, <1>9, <1>10, <1>11, <1>12, <1>13, <1>14, <1>15 DEF Sound, stay, Summed

\* Where the ids written so far, those below n, have gone.
Accounted(s, n, deleted, lost) ==
    Ids(s) \cup Covered(s) \cup deleted \cup lost = 1..(n - 1) /\ Ids(s) \cap deleted = {}

\* A row is added, with the next id.
LEMMA AppendedSound ==
    ASSUME NEW s, NEW lost, NEW deleted, NEW away, NEW n \in Nat \ {0}, NEW r \in StoredRow,
           Sound(s, lost), Accounted(s, n, deleted, away),
           r.id = n, r.covers = {}, r.kind # "summary",
           r.kind = "result" => s # <<>> /\ s[Len(s)].kind = "call" /\ s[Len(s)].id = r.of
    PROVE  /\ Sound(Append(s, r), lost) /\ Accounted(Append(s, r), n + 1, deleted, away)
           /\ Len(Append(s, r)) = Len(s) + 1 /\ Append(s, r)[Len(s) + 1] = r
           /\ \A i \in DOMAIN s : i \in DOMAIN Append(s, r) /\ Append(s, r)[i] = s[i]
           /\ \A i \in DOMAIN Append(s, r) : i \in DOMAIN s \/ i = Len(s) + 1
<1> DEFINE new == Append(s, r)
           m   == Len(s) + 1
<1>1. /\ s \in Seq(StoredRow) /\ DistinctIds(s) /\ Sorted(s) /\ PlainCovers(s) /\ CoversApart(s)
      /\ Paired(s, lost) /\ Ids(s) \cap Covered(s) = {}
  BY DEF Sound
<1>2. /\ new \in Seq(StoredRow) /\ Len(new) = m /\ new[m] = r /\ m \in Nat /\ m >= 1
      /\ \A i \in DOMAIN s : i \in DOMAIN new /\ new[i] = s[i] /\ i \in Nat /\ i < m /\ i >= 1
      /\ \A i \in DOMAIN new : i \in DOMAIN s \/ i = m
      /\ m \in DOMAIN new
  BY <1>1
<1>3. /\ Ids(s) \subseteq 1..(n - 1) /\ Covered(s) \subseteq 1..(n - 1) /\ deleted \subseteq 1..(n - 1)
      /\ n \notin 1..(n - 1) /\ 1..(n - 1) \cup {n} = 1..n /\ n + 1 - 1 = n
  <2>1. n \notin 1..(n - 1) /\ 1..(n - 1) \cup {n} = 1..n /\ n + 1 - 1 = n
    OBVIOUS
  <2> QED BY <2>1 DEF Accounted
<1>4. \A i \in DOMAIN s : s[i].id \in Ids(s) /\ s[i].id \in Nat /\ s[i].id < n
  <2>1. \A i \in DOMAIN s : s[i].id \in Ids(s)
    BY DEF Ids
  <2> QED BY <1>3, <2>1
<1> HIDE DEF new, m
<1>5. Ids(new) = Ids(s) \cup {n}
  BY <1>2 DEF Ids
<1>6. Covered(new) = Covered(s)
  <2>1. \A x : (\E i \in DOMAIN new : x \in new[i].covers) <=> (\E i \in DOMAIN s : x \in s[i].covers)
    BY <1>2
  <2> QED BY <2>1 DEF Covered
<1>7. DistinctIds(new)
  BY <1>1, <1>2, <1>4 DEF DistinctIds
<1>8. Sorted(new)
  <2> SUFFICES ASSUME NEW i \in DOMAIN new, NEW k \in DOMAIN new, i < k, new[i].kind # "summary", new[k].kind # "summary"
               PROVE  new[i].id < new[k].id
    BY DEF Sorted
  <2>1. i \in DOMAIN s
    BY <1>2
  <2>2. CASE k = m
    BY <1>2, <1>4, <2>1, <2>2
  <2>3. CASE k \in DOMAIN s
    BY <1>1, <1>2, <2>1, <2>3 DEF Sorted
  <2> QED BY <1>2, <2>2, <2>3
<1>9. PlainCovers(new)
  BY <1>1, <1>2 DEF PlainCovers
<1>10. CoversApart(new)
  BY <1>1, <1>2 DEF CoversApart
<1>11. Paired(new, lost)
  <2> SUFFICES ASSUME NEW k \in DOMAIN new, new[k].kind = "result"
               PROVE  \/ k > 1 /\ new[k - 1].kind = "call" /\ new[k - 1].id = new[k].of
                      \/ new[k].of \in lost /\ \A i \in 1..(k - 1) : Pinned(new[i])
    BY DEF Paired
  <2>1. CASE k = m
    <3>1. Len(s) \in DOMAIN s /\ k - 1 = Len(s) /\ k > 1
      BY <1>1, <1>2, <2>1 DEF m
    <3> QED BY <1>2, <2>1, <3>1
  <2>2. CASE k \in DOMAIN s
    <3>1. \A i \in 1..(k - 1) : i \in DOMAIN s /\ new[i] = s[i]
      BY <1>1, <1>2, <2>2
    <3>2. new[k] = s[k] /\ (k > 1 => k - 1 \in 1..(k - 1))
      BY <1>2, <2>2
    <3> QED BY <1>1, <2>2, <3>1, <3>2 DEF Paired
  <2> QED BY <1>2, <2>1, <2>2
<1>12. Ids(new) \cap Covered(new) = {} /\ Ids(new) \cap deleted = {}
  BY <1>1, <1>3, <1>5, <1>6 DEF Accounted
<1>13. Ids(new) \cup Covered(new) \cup deleted \cup away = 1..n
  BY <1>3, <1>5, <1>6 DEF Accounted
<1>14. Sound(new, lost) /\ Accounted(new, n + 1, deleted, away)
  BY <1>2, <1>3, <1>7, <1>8, <1>9, <1>10, <1>11, <1>12, <1>13 DEF Sound, Accounted
<1> QED BY <1>2, <1>14 DEF new, m

\* What is left of a list, by its positions.
LEMMA SublistParts ==
    ASSUME NEW s \in Seq(StoredRow), NEW keep \in SUBSET DOMAIN s
    PROVE  /\ Ids(Sublist(s, keep)) = IdsAt(s, keep) /\ Covered(Sublist(s, keep)) = CoveredAt(s, keep)
           /\ \A k \in DOMAIN Sublist(s, keep) : \E i \in keep : Sublist(s, keep)[k] = s[i]
<1> DEFINE new == Sublist(s, keep)
<1>1. /\ \A k \in DOMAIN Sublist(s, keep) : Place(keep, k) \in keep /\ Sublist(s, keep)[k] = s[Place(keep, k)]
      /\ \A i \in keep : \E k \in DOMAIN Sublist(s, keep) : Place(keep, k) = i /\ Sublist(s, keep)[k] = s[i]
  <2> HIDE DEF new
  <2> QED BY SublistElements
<1>2. (\A k \in DOMAIN new : \E i \in keep : new[k] = s[i]) /\ \A i \in keep : \E k \in DOMAIN new : new[k] = s[i]
  BY <1>1
<1> HIDE DEF new
<1>3. Ids(new) = IdsAt(s, keep)
  BY <1>2 DEF Ids, IdsAt
<1>4. Covered(new) = CoveredAt(s, keep)
  <2>1. \A x : (\E k \in DOMAIN new : x \in new[k].covers) <=> (\E i \in keep : x \in s[i].covers)
    BY <1>2
  <2> QED BY <2>1 DEF Covered, CoveredAt
<1> QED BY <1>2, <1>3, <1>4 DEF new

\* What is left of a list of rows is sound, if it keeps their order and a response
\* loses its request only to lost, and then is the oldest.
LEMMA SublistSound ==
    ASSUME NEW s, NEW lost, NEW more, Sound(s, lost), lost \subseteq more, NEW keep \in SUBSET DOMAIN s,
           \A i \in keep : s[i].kind = "result" /\ i > 1 /\ s[i - 1].kind = "call" /\ s[i - 1].id = s[i].of
               => \/ i - 1 \in keep
                  \/ s[i].of \in more /\ \A m \in keep : m < i => Pinned(s[m])
    PROVE  Sound(Sublist(s, keep), more)
<1> DEFINE new  == Sublist(s, keep)
           f(k) == Place(keep, k)
<1>1. /\ s \in Seq(StoredRow) /\ DistinctIds(s) /\ Sorted(s) /\ PlainCovers(s) /\ CoversApart(s)
      /\ Paired(s, lost) /\ Ids(s) \cap Covered(s) = {}
  BY DEF Sound
<1>2. new \in Seq(StoredRow)
  BY <1>1, SublistType
<1>3. /\ \A k \in DOMAIN new : f(k) \in keep /\ new[k] = s[f(k)]
      /\ \A i \in keep : \E k \in DOMAIN new : f(k) = i /\ new[k] = s[i]
  <2>1. /\ \A k \in DOMAIN Sublist(s, keep) : Place(keep, k) \in keep /\ Sublist(s, keep)[k] = s[Place(keep, k)]
        /\ \A i \in keep : \E k \in DOMAIN Sublist(s, keep) : Place(keep, k) = i /\ Sublist(s, keep)[k] = s[i]
    <3>1. s \in Seq(StoredRow)
      BY <1>1
    <3> HIDE DEF new, f
    <3> QED BY <3>1, SublistElements
  <2> QED BY <2>1
<1>4. \A k, l \in DOMAIN new : k < l => f(k) < f(l)
  BY <1>1, SublistOrder
<1>5. /\ \A i \in keep : i \in DOMAIN s /\ i \in Nat /\ i >= 1
      /\ \A k \in DOMAIN new : k \in Nat /\ k >= 1
  BY <1>1, <1>2
<1> HIDE DEF new, f
<1>6. \A k, l \in DOMAIN new : k # l => f(k) # f(l)
  <2> SUFFICES ASSUME NEW k \in DOMAIN new, NEW l \in DOMAIN new, k # l PROVE f(k) # f(l)
    OBVIOUS
  <2>1. k \in Nat /\ l \in Nat /\ f(k) \in Nat /\ f(l) \in Nat
    BY <1>3, <1>5
  <2>2. (k < l => f(k) < f(l)) /\ (l < k => f(l) < f(k))
    BY <1>4
  <2> QED BY <2>1, <2>2
<1>7. DistinctIds(new)
  BY <1>1, <1>3, <1>5, <1>6 DEF DistinctIds
<1>8. Sorted(new)
  BY <1>1, <1>3, <1>4, <1>5 DEF Sorted
<1>9. PlainCovers(new)
  BY <1>1, <1>3, <1>5 DEF PlainCovers
<1>10. CoversApart(new)
  BY <1>1, <1>3, <1>5, <1>6 DEF CoversApart
<1>11. Ids(new) = IdsAt(s, keep) /\ Covered(new) = CoveredAt(s, keep)
  BY <1>1, SublistParts DEF new
<1>12. Ids(new) \cap Covered(new) = {}
  <2>1. \A x \in IdsAt(s, keep) : x \in Ids(s)
    BY <1>5 DEF IdsAt, Ids
  <2>2. \A x \in CoveredAt(s, keep) : x \in Covered(s)
    BY <1>5 DEF CoveredAt, Covered
  <2> QED BY <1>1, <1>11, <2>1, <2>2
<1>13. Paired(new, more)
  <2> SUFFICES ASSUME NEW k \in DOMAIN new, new[k].kind = "result"
               PROVE  \/ k > 1 /\ new[k - 1].kind = "call" /\ new[k - 1].id = new[k].of
                      \/ new[k].of \in more /\ \A m \in 1..(k - 1) : Pinned(new[m])
    BY DEF Paired
  <2> DEFINE i == f(k)
  <2>1. i \in keep /\ i \in DOMAIN s /\ i \in Nat /\ i >= 1 /\ new[k] = s[i] /\ s[i].kind = "result" /\ k \in Nat /\ k >= 1
    BY <1>3, <1>5
  <2>2. \A m \in 1..(k - 1) : m \in DOMAIN new /\ f(m) \in keep /\ f(m) < i /\ f(m) \in 1..(i - 1) /\ new[m] = s[f(m)]
    <3> SUFFICES ASSUME NEW m \in 1..(k - 1)
                 PROVE  m \in DOMAIN new /\ f(m) \in keep /\ f(m) < i /\ f(m) \in 1..(i - 1) /\ new[m] = s[f(m)]
      OBVIOUS
    <3>1. m \in DOMAIN new /\ m < k
      BY <1>2, <2>1
    <3>2. f(m) \in keep /\ new[m] = s[f(m)] /\ f(m) < i /\ f(m) \in Nat /\ f(m) >= 1
      BY <1>3, <1>4, <1>5, <3>1
    <3> QED BY <2>1, <3>1, <3>2
  <2>3. CASE i > 1 /\ s[i - 1].kind = "call" /\ s[i - 1].id = s[i].of /\ i - 1 \in keep
    <3>1. PICK l \in DOMAIN new : f(l) = i - 1 /\ new[l] = s[i - 1]
      BY <1>3, <2>3
    <3>2. l \in Nat /\ l >= 1 /\ l < k
      <4>1. l \in Nat /\ l >= 1 /\ l # k
        BY <1>5, <2>1, <3>1
      <4>2. k < l => i < i - 1
        BY <1>4, <3>1
      <4> QED BY <2>1, <4>1, <4>2
    <3>3. l = k - 1
      <4>1. CASE l < k - 1
        <5>1. k - 1 \in 1..(k - 1)
          BY <2>1, <3>2
        <5>2. f(k - 1) < i /\ f(l) < f(k - 1) /\ f(k - 1) \in Nat
          BY <1>4, <1>5, <2>2, <4>1, <5>1
        <5> QED BY <2>1, <3>1, <5>2
      <4> QED BY <2>1, <3>2, <4>1
    <3> QED BY <2>1, <2>3, <3>1, <3>2, <3>3
  <2>4. CASE s[i].of \in more /\ \A m \in keep : m < i => Pinned(s[m])
    BY <2>1, <2>2, <2>4
  <2>5. CASE s[i].of \in lost /\ \A m \in 1..(i - 1) : Pinned(s[m])
    BY <2>1, <2>2, <2>5
  <2> QED BY <1>1, <2>1, <2>3, <2>4, <2>5 DEF Paired
<1> QED BY <1>2, <1>7, <1>8, <1>9, <1>10, <1>12, <1>13 DEF Sound, new

\* A prefix of the rows is sound.
LEMMA PrefixSound ==
    ASSUME NEW s, NEW lost, Sound(s, lost), NEW e \in 0..Len(s)
    PROVE  /\ Sound(SubSeq(s, 1, e), lost)
           /\ Len(SubSeq(s, 1, e)) = e /\ DOMAIN SubSeq(s, 1, e) = 1..e /\ \A i \in 1..e : SubSeq(s, 1, e)[i] = s[i]
<1> DEFINE new == SubSeq(s, 1, e)
<1>1. /\ s \in Seq(StoredRow) /\ DistinctIds(s) /\ Sorted(s) /\ PlainCovers(s) /\ CoversApart(s)
      /\ Paired(s, lost) /\ Ids(s) \cap Covered(s) = {}
  BY DEF Sound
<1>2. new \in Seq(StoredRow) /\ Len(new) = e /\ DOMAIN new = 1..e /\ \A i \in 1..e : new[i] = s[i]
  BY <1>1
<1>3. \A i \in 1..e : i \in DOMAIN s /\ i \in Nat
  BY <1>1
<1> HIDE DEF new
<1>4. DistinctIds(new) /\ Sorted(new) /\ PlainCovers(new) /\ CoversApart(new)
  BY <1>1, <1>2, <1>3 DEF DistinctIds, Sorted, PlainCovers, CoversApart
<1>5. Paired(new, lost)
  <2> SUFFICES ASSUME NEW k \in 1..e, new[k].kind = "result"
               PROVE  \/ k > 1 /\ new[k - 1].kind = "call" /\ new[k - 1].id = new[k].of
                      \/ new[k].of \in lost /\ \A m \in 1..(k - 1) : Pinned(new[m])
    BY <1>2 DEF Paired
  <2>1. \A m \in 1..(k - 1) : m \in 1..e /\ new[m] = s[m]
    BY <1>2
  <2>2. k > 1 => k - 1 \in 1..(k - 1)
    OBVIOUS
  <2> QED BY <1>1, <1>2, <1>3, <2>1, <2>2 DEF Paired
<1>6. Ids(new) \cap Covered(new) = {}
  <2>1. \A x \in Ids(new) : x \in Ids(s)
    BY <1>2, <1>3 DEF Ids
  <2>2. \A x \in Covered(new) : x \in Covered(s)
    BY <1>2, <1>3 DEF Covered
  <2> QED BY <1>1, <2>1, <2>2
<1> QED BY <1>2, <1>4, <1>5, <1>6 DEF Sound, new

\* A compaction whose summary stands for the rows between head and tail: the rows
\* stay sound, and no id is lost or comes back.
LEMMA Summarized ==
    ASSUME NEW p \in Seq(StoredRow), NEW q \in Seq(StoredRow), NEW lost, Sound(p \o q, lost),
           NEW hp \in Nat, NEW tp \in Nat, NEW head, NEW tail, NEW middle, NEW id \in Nat,
           FirstVisible(p, hp), tp \in (hp + 1)..(Len(p) + 1), Middle(p, hp, tp) # {},
           Ids(head) = IdsAt(p, Free(p) \cap (1..hp)), Ids(tail) = IdsAt(p, Free(p) \cap (tp..Len(p))),
           Ids(middle) = IdsAt(p, Middle(p, hp, tp)), Covered(middle) = CoveredAt(p, Middle(p, hp, tp)),
           id \notin Ids(p \o q), id \notin Covered(p \o q),
           Untorn(p \o q, Middle(p, hp, tp))
    PROVE  LET old == p \o q
               new == RebuildCompacted(p, head, SummaryOf(id, middle), tail) \o q
           IN  /\ Sound(new, lost)
               /\ Ids(new) \cup Covered(new) = Ids(old) \cup Covered(old) \cup {id}
               /\ Ids(new) \subseteq Ids(old) \cup {id}
               /\ \A i \in DOMAIN old : i \notin Middle(p, hp, tp) => old[i] \in Range(new)
<1> DEFINE old == p \o q
           M   == Middle(p, hp, tp)
           sum == SummaryOf(id, middle)
           new == RebuildCompacted(p, head, sum, tail) \o q
<1>1. DistinctIds(p)
  <2>1. DistinctIds(old)
    BY DEF Sound
  <2>2. \A i \in DOMAIN p : i \in DOMAIN old /\ old[i] = p[i]
    BY ConcatProperties
  <2> QED BY <2>1, <2>2 DEF DistinctIds
<1>2. \A i \in M : i \in DOMAIN p /\ ~Pinned(p[i]) /\ i \in DOMAIN old /\ old[i] = p[i]
  <2>1. \A i \in DOMAIN p : i \in DOMAIN old /\ old[i] = p[i]
    BY ConcatProperties
  <2> QED BY <2>1 DEF Middle, Free
<1>3. M \in SUBSET Free(old)
  BY <1>2 DEF Free
<1>4. IdsAt(p, M) = IdsAt(old, M) /\ CoveredAt(p, M) = CoveredAt(old, M)
  BY <1>2 DEF IdsAt, CoveredAt
<1>5. sum \in StoredRow /\ sum.kind = "summary" /\ sum.id = id /\ sum.covers = IdsAt(old, M) \cup CoveredAt(old, M)
  <2>1. \A i \in M : p[i].id \in Nat /\ p[i].covers \subseteq Nat
    <3>1. \A i \in M : p[i] \in StoredRow
      BY <1>2
    <3> QED BY <3>1 DEF StoredRow, AnyRow
  <2>2. IdsAt(p, M) \subseteq Nat /\ CoveredAt(p, M) \subseteq Nat
    BY <2>1 DEF IdsAt, CoveredAt
  <2>3. Ids(middle) \cup Covered(middle) \in SUBSET Nat
    BY <2>2
  <2>4. sum.kind = "summary" /\ sum.id = id /\ sum.covers = IdsAt(old, M) \cup CoveredAt(old, M)
    BY <1>4 DEF SummaryOf
  <2>5. sum \in AnyRow /\ sum.says = sum.id
    BY <2>3, <2>4 DEF SummaryOf, AnyRow, Kinds
  <2> QED BY <2>4, <2>5 DEF StoredRow
<1>6. hp \in DOMAIN p
  BY DEF FirstVisible
<1> HIDE DEF sum
<1>7. /\ new \in Seq(StoredRow)
      /\ \E z, at, f : at \in M /\ Rebuilt(old, new, DOMAIN old \ M, sum, z, at, f)
  BY <1>1, <1>5, <1>6, Compacted
<1>8. PICK z, at, f : at \in M /\ Rebuilt(old, new, DOMAIN old \ M, sum, z, at, f)
  BY <1>7
<1>9. Untorn(old, M)
  OBVIOUS
<1>10. Sound(old, lost) /\ id \notin Ids(old) /\ id \notin Covered(old)
  OBVIOUS
<1> HIDE DEF old, M, new
<1>11. Sound(new, lost) /\ Summed(old, new, M, id)
  <2>1. new \in Seq(StoredRow) /\ sum \in StoredRow /\ sum.kind = "summary"
        /\ sum.covers = IdsAt(old, M) \cup CoveredAt(old, M)
    BY <1>5, <1>7
  <2>2. sum.id \notin Ids(old) /\ sum.id \notin Covered(old) /\ sum.id = id
    BY <1>5, <1>10
  <2>3. at \in M /\ Rebuilt(old, new, DOMAIN old \ M, sum, z, at, f)
    BY <1>8
  <2>4. Sound(old, lost)
    BY <1>10
  <2>5. Sound(new, lost) /\ Summed(old, new, M, sum.id)
    BY <1>3, <1>9, <2>1, <2>2, <2>3, <2>4, CompactedSound
  <2> QED BY <2>2, <2>5
<1>12. Ids(old) = IdsAt(old, DOMAIN old \ M) \cup IdsAt(old, M)
  BY <1>2 DEF Ids, IdsAt
<1>13. \A i \in DOMAIN old : i \notin M => old[i] \in Range(new)
  BY <1>8 DEF Rebuilt, Range
<1> QED BY <1>11, <1>12, <1>13 DEF old, M, new, sum, Summed

-----------------------------------------------------------------------------
(* The invariant of a thread. *)

\* Rows that stand in for each other in a list.
Alike(r, q) == r.id = q.id /\ r.kind = q.kind /\ r.of = q.of /\ r.covers = q.covers

\* A response to a request among the rows p is among them itself.
NoLate(s, p) == \A k \in DOMAIN s : s[k].kind = "result" /\ s[k].of \in Ids(p) => s[k].id \in Ids(p)

\* Head and middle are those of the rows p.
Cuts(p, head, middle) ==
    \E hp \in 1..Len(p) :
        /\ FirstVisible(p, hp) /\ Middle(p, hp, Len(p) + 1) # {}
        /\ Ids(head) = IdsAt(p, Free(p) \cap (1..hp))
        /\ Ids(middle) = IdsAt(p, Middle(p, hp, Len(p) + 1))
        /\ Covered(middle) = CoveredAt(p, Middle(p, hp, Len(p) + 1))

\* Behind the rows p there is none of them, and what was written stands in order.
OnlyLater(s, p) ==
    \A k \in DOMAIN s : k > Len(p) =>
        /\ s[k].id \notin Ids(p)
        /\ \A i \in DOMAIN p : p[i].kind # "summary" /\ s[k].kind # "summary" => p[i].id < s[k].id

\* A job summarizes the middle of the rows it read, which were written before the
\* id n, and whose responses it read too; none of them is summed up or moved back.
JobFits(j, s, n) ==
    /\ j.covered \in Seq(StoredRow) /\ Len(j.covered) = j.cut /\ j.state \in {"running", "text", "empty"}
    /\ j = [cut |-> j.cut, covered |-> j.covered, head |-> j.head, middle |-> j.middle, base |-> j.base,
            suffix |-> j.suffix, state |-> j.state]
    /\ Cuts(j.covered, j.head, j.middle) /\ Ids(j.covered) \subseteq 1..(n - 1)
    /\ DistinctIds(j.covered) /\ Sorted(j.covered) /\ Ids(j.covered) \cap Covered(s) = {}
    /\ NoLate(s, j.covered) /\ OnlyLater(s, j.covered)

\* The ids of the rows whose copies took their place.
Replaced == {s[2].id : s \in twins}

\* The rows are sound and account for every id.
RowsInv ==
    /\ nextId \in 1..(MaxIds + 1) /\ phase \in {"idle", "turn", "job", "inline"}
    /\ Sound(rows, cutoff) /\ Accounted(rows, nextId, gone, cutoff \cup Replaced)
    /\ \A s \in twins : Same(s[1], s[2])

\* A turn that awaits a summary has something to summarize, and the inline
\* summarizer read the rows as they are.
AwaitInv ==
    /\ phase = "inline" => snap = rows /\ job = {}
    /\ phase \in {"job", "inline"} => Compactable(SplitForCompaction(rows, TailBudget)) /\ nextId <= MaxIds

\* At most one job, and it fits.
JobInv == \A j \in job : job = {j} /\ JobFits(j, rows, nextId)

\* The inductive invariant of a thread.
HistInv == RowsInv /\ AwaitInv /\ JobInv

\* The row of the goal and the verdicts.
Guarded(s) ==
    {i \in DOMAIN s : s[i].kind = "pin" \/ (ProviderVisible(s[i]) /\ ~\E k \in 1..(i - 1) : ProviderVisible(s[k]))}

\* What a step keeps of them.
GuardedStay ==
    \A i \in Guarded(rows) :
        rows[i].id \in Ids(rows') \cup gone' \cup cutoff' \/ \E r \in Range(rows') : Same(r, rows[i])

\* The rows t are rows of s, no further back, or written from the id n on.
Follows(t, s, n) ==
    \A k \in DOMAIN t :
        \/ \E i \in DOMAIN s : i >= k /\ Alike(s[i], t[k])
        \/ t[k].id >= n /\ t[k].covers = {} /\ (t[k].kind = "result" => t[k].of >= n)

\* A job still fits when ids are added and no late response comes.
LEMMA JobStays ==
    ASSUME NEW j, NEW s \in Seq(StoredRow), NEW t \in Seq(StoredRow), NEW n \in Nat, NEW m \in Nat, n <= m,
           JobFits(j, s, n), Follows(t, s, n)
    PROVE  JobFits(j, t, m)
<1> DEFINE p == j.covered
<1>1. /\ Ids(p) \subseteq 1..(n - 1) /\ NoLate(s, p) /\ OnlyLater(s, p) /\ p \in Seq(StoredRow)
      /\ Ids(p) \cap Covered(s) = {}
  BY DEF JobFits
<1>2. Ids(p) \subseteq 1..(m - 1)
  BY <1>1
<1>3. /\ \A x \in Ids(p) : x \in Nat /\ x < n
      /\ \A k \in DOMAIN t : k \in Nat
      /\ \A k \in DOMAIN s : k \in Nat
      /\ Len(p) \in Nat
      /\ \A i \in DOMAIN p : p[i].id \in Ids(p)
      /\ \A k \in DOMAIN t : t[k].id \in Nat /\ t[k].of \in Nat
  <2>1. \A k \in DOMAIN t : t[k] \in StoredRow
    OBVIOUS
  <2>2. \A k \in DOMAIN t : t[k].id \in Nat /\ t[k].of \in Nat
    BY <2>1 DEF StoredRow, AnyRow
  <2>3. \A i \in DOMAIN p : p[i].id \in Ids(p)
    BY DEF Ids
  <2> QED BY <1>1, <2>2, <2>3
<1> HIDE DEF p
<1>4. NoLate(t, p)
  <2> SUFFICES ASSUME NEW k \in DOMAIN t, t[k].kind = "result", t[k].of \in Ids(p) PROVE t[k].id \in Ids(p)
    BY DEF NoLate
  <2>1. ~(t[k].of >= n)
    BY <1>3
  <2>2. PICK i \in DOMAIN s : Alike(s[i], t[k])
    BY <2>1 DEF Follows
  <2> QED BY <1>1, <2>2 DEF Alike, NoLate
<1>5. Covered(t) \subseteq Covered(s)
  <2>1. ASSUME NEW k \in DOMAIN t, NEW x \in t[k].covers PROVE x \in Covered(s)
    <3>1. PICK i \in DOMAIN s : Alike(s[i], t[k])
      BY <2>1 DEF Follows
    <3> QED BY <2>1, <3>1 DEF Alike, Covered
  <2> QED BY <2>1 DEF Covered
<1>6. OnlyLater(t, p)
  <2> SUFFICES ASSUME NEW k \in DOMAIN t, k > Len(p)
               PROVE  /\ t[k].id \notin Ids(p)
                      /\ \A i \in DOMAIN p : p[i].kind # "summary" /\ t[k].kind # "summary" => p[i].id < t[k].id
    BY DEF OnlyLater
  <2>1. ASSUME NEW i \in DOMAIN s, i >= k, Alike(s[i], t[k])
        PROVE  /\ t[k].id \notin Ids(p)
               /\ \A l \in DOMAIN p : p[l].kind # "summary" /\ t[k].kind # "summary" => p[l].id < t[k].id
    <3>1. i > Len(p)
      BY <1>3, <2>1
    <3> QED BY <1>1, <2>1, <3>1 DEF Alike, OnlyLater
  <2>2. CASE t[k].id >= n
    <3>1. t[k].id \notin Ids(p)
      BY <1>3, <2>2
    <3>2. \A l \in DOMAIN p : p[l].id < t[k].id
      BY <1>3, <2>2
    <3> QED BY <3>1, <3>2
  <2> QED BY <2>1, <2>2 DEF Follows
<1>7. Ids(p) \cap Covered(t) = {}
  BY <1>1, <1>5
<1> QED BY <1>2, <1>4, <1>6, <1>7 DEF JobFits, p

\* The registered job still fits.
LEMMA JobInvStays ==
    ASSUME RowsInv, JobInv, rows' \in Seq(StoredRow), nextId' \in Nat, nextId <= nextId', job' = job,
           Follows(rows', rows, nextId)
    PROVE  JobInv'
<1> SUFFICES ASSUME NEW j \in job' PROVE job' = {j} /\ JobFits(j, rows', nextId')
  BY DEF JobInv
<1>1. job = {j} /\ JobFits(j, rows, nextId) /\ rows \in Seq(StoredRow) /\ nextId \in Nat
  BY DEF JobInv, RowsInv, Sound
<1>2. JobFits(j, rows', nextId')
  BY <1>1, JobStays
<1> QED BY <1>1, <1>2

\* Rows written stay, and the guarded ones with them.
LEMMA GuardedKept ==
    ASSUME \A i \in DOMAIN rows : rows[i].id \in Ids(rows')
    PROVE  GuardedStay
BY DEF GuardedStay, Guarded

\* A fresh row is a row.
LEMMA FreshRow ==
    ASSUME NEW id \in Nat, NEW kind \in Kinds \ {"summary"}, NEW of \in Nat, NEW says \in Nat,
           NEW media \in {"none", "raw"}, kind = "call" => says = id
    PROVE  LET r == Fresh(id, kind, of, says, media)
           IN  r \in StoredRow /\ r.id = id /\ r.covers = {} /\ r.kind = kind /\ r.of = of
<1> DEFINE r == Fresh(id, kind, of, says, media)
<1>1. r.id = id /\ r.covers = {} /\ r.kind = kind /\ r.of = of /\ r.says = says
  BY DEF Fresh
<1>2. r \in AnyRow
  BY DEF Fresh, AnyRow, Kinds
<1> QED BY <1>1, <1>2 DEF StoredRow

\* One row is added.
LEMMA AppendHist ==
    ASSUME RowsInv, JobInv, nextId < MaxIds, NEW kind \in Kinds \ {"summary", "result", "call"},
           NEW says \in Nat, NEW media \in {"none", "raw"},
           rows' = Append(rows, Fresh(nextId, kind, 0, says, media)), nextId' = nextId + 1,
           UNCHANGED <<job, gone, cutoff, twins>>, phase' \in {"idle", "turn", "job", "inline"}
    PROVE  RowsInv' /\ JobInv' /\ GuardedStay
<1> DEFINE r == Fresh(nextId, kind, 0, says, media)
<1>1. nextId \in Nat \ {0} /\ MaxIds \in Nat /\ nextId' \in 1..(MaxIds + 1)
  BY HistoryConstants DEF RowsInv
<1>2. /\ r \in StoredRow /\ r.id = nextId /\ r.covers = {} /\ r.kind # "summary" /\ r.kind # "result"
  <2>1. kind \in Kinds \ {"summary"} /\ (kind = "call" => says = nextId) /\ nextId \in Nat /\ 0 \in Nat
    BY <1>1
  <2>2. r \in StoredRow /\ r.id = nextId /\ r.covers = {} /\ r.kind = kind
    BY <2>1, FreshRow
  <2> QED BY <2>2
<1> HIDE DEF r
<1>3. /\ Sound(Append(rows, r), cutoff) /\ Accounted(Append(rows, r), nextId + 1, gone, cutoff \cup Replaced)
      /\ Append(rows, r)[Len(rows) + 1] = r
      /\ \A i \in DOMAIN rows : i \in DOMAIN Append(rows, r) /\ Append(rows, r)[i] = rows[i]
      /\ \A i \in DOMAIN Append(rows, r) : i \in DOMAIN rows \/ i = Len(rows) + 1
  BY <1>1, <1>2, AppendedSound DEF RowsInv
<1>4. RowsInv'
  BY <1>1, <1>3 DEF RowsInv, r, Replaced
<1>5. Follows(rows', rows, nextId)
  <2>1. \A i \in DOMAIN rows : i >= i
    <3>1. rows \in Seq(StoredRow)
      BY DEF RowsInv, Sound
    <3> QED BY <3>1
  <2>2. r.id >= nextId
    BY <1>1, <1>2
  <2> QED BY <1>2, <1>3, <2>1, <2>2 DEF Follows, Alike, r
<1>6. JobInv'
  <2>1. rows' \in Seq(StoredRow) /\ nextId' \in Nat /\ nextId <= nextId'
    BY <1>1, <1>4 DEF RowsInv, Sound
  <2> QED BY <1>5, <2>1, JobInvStays
<1>7. GuardedStay
  <2>1. \A i \in DOMAIN rows : rows[i].id \in Ids(rows')
    BY <1>3 DEF Ids, r
  <2> QED BY <2>1, GuardedKept
<1> QED BY <1>4, <1>6, <1>7

\* What the bounds say of the next row.
LEMMA TextFits ==
    ASSUME RowsInv, NEW i \in {nextId, nextId + 1}, i <= MaxIds
    PROVE  (\A says \in Texts[i] : says \in Nat) /\ \A media \in Media[i] : media \in {"none", "raw"}
<1>1. i \in 1..MaxIds
  BY HistoryConstants DEF RowsInv
<1>2. Texts[i] \in SUBSET Nat /\ Media[i] \in SUBSET {"none", "raw"}
  BY <1>1, HistoryConstants
<1> QED BY <1>2

\* The turn starts with the message of the user.
LEMMA StartTurnHist == HistInv /\ StartTurn => HistInv' /\ GuardedStay
<1> SUFFICES ASSUME HistInv, StartTurn PROVE HistInv' /\ GuardedStay
  OBVIOUS
<1>1. nextId < MaxIds /\ nextId <= MaxIds /\ RowsInv /\ JobInv
  BY HistoryConstants DEF HistInv, RowsInv, StartTurn
<1>2. PICK says \in Texts[nextId], media \in Media[nextId] :
        rows' = Append(rows, Fresh(nextId, "user", 0, says, media))
  BY DEF StartTurn
<1>3. says \in Nat /\ media \in {"none", "raw"}
  BY <1>1, TextFits
<1>4. RowsInv' /\ JobInv' /\ GuardedStay
  <2>1. "user" \in Kinds \ {"summary", "result", "call"}
    BY DEF Kinds
  <2>2. nextId' = nextId + 1 /\ UNCHANGED <<job, gone, cutoff, twins>> /\ phase' = "turn"
    BY DEF StartTurn
  <2> QED BY <1>1, <1>2, <1>3, <2>1, <2>2, AppendHist
<1>5. AwaitInv'
  BY DEF AwaitInv, StartTurn
<1> QED BY <1>4, <1>5 DEF HistInv

\* A reply, a verdict or a row of the interface.
LEMMA AppendRowHist ==
    ASSUME HistInv, NEW kind \in {"reply", "pin", "ui"}, AppendRow(kind)
    PROVE  HistInv' /\ GuardedStay
<1>1. nextId < MaxIds /\ nextId <= MaxIds /\ RowsInv /\ JobInv
  BY HistoryConstants DEF HistInv, RowsInv, AppendRow
<1>2. PICK says \in Texts[nextId] : rows' = Append(rows, Fresh(nextId, kind, 0, says, "none"))
  BY DEF AppendRow
<1>3. says \in Nat
  BY <1>1, TextFits
<1>4. RowsInv' /\ JobInv' /\ GuardedStay
  <2>1. kind \in Kinds \ {"summary", "result", "call"} /\ "none" \in {"none", "raw"}
    BY DEF Kinds
  <2>2. nextId' = nextId + 1 /\ UNCHANGED <<job, gone, cutoff, twins>> /\ phase' = "turn"
    BY DEF AppendRow
  <2> QED BY <1>1, <1>2, <1>3, <2>1, <2>2, AppendHist
<1>5. AwaitInv'
  BY DEF AwaitInv, AppendRow
<1> QED BY <1>4, <1>5 DEF HistInv

\* A batch: the requests and then their responses.
LEMMA AppendBatchHist == HistInv /\ AppendBatch => HistInv' /\ GuardedStay
<1> SUFFICES ASSUME HistInv, AppendBatch PROVE HistInv' /\ GuardedStay
  OBVIOUS
<1>1. /\ nextId \in Nat \ {0} /\ MaxIds \in Nat /\ nextId' \in 1..(MaxIds + 1) /\ nextId' = (nextId + 1) + 1
      /\ nextId + 1 \in {nextId, nextId + 1} /\ nextId + 1 <= MaxIds
  BY HistoryConstants DEF HistInv, RowsInv, AppendBatch
<1>a. PICK says \in Texts[nextId + 1], media \in Media[nextId + 1] :
        rows' = rows \o <<Fresh(nextId, "call", 0, nextId, "none"), Fresh(nextId + 1, "result", nextId, says, media)>>
  BY DEF AppendBatch
<1>b. says \in Nat /\ media \in {"none", "raw"}
  BY <1>1, TextFits DEF HistInv
<1> DEFINE c == Fresh(nextId, "call", 0, nextId, "none")
           r == Fresh(nextId + 1, "result", nextId, says, media)
           mid == Append(rows, c)
           new == Append(mid, r)
<1>2. c \in StoredRow /\ c.id = nextId /\ c.covers = {} /\ c.kind = "call"
  BY <1>1, FreshRow DEF Kinds
<1>3. r \in StoredRow /\ r.id = nextId + 1 /\ r.covers = {} /\ r.kind = "result" /\ r.of = nextId
  <2>1. "result" \in Kinds \ {"summary"} /\ nextId + 1 \in Nat /\ nextId \in Nat /\ "result" # "call"
    BY <1>1 DEF Kinds
  <2> QED BY <1>b, <2>1, FreshRow
<1>4. rows' = rows \o <<c, r>>
  BY <1>a
<1> HIDE DEF c, r
<1>5. rows \in Seq(StoredRow)
  BY DEF HistInv, RowsInv, Sound
<1>6. rows \o <<c, r>> = new
  BY <1>2, <1>3, <1>5
<1>7. /\ Sound(mid, cutoff) /\ Accounted(mid, nextId + 1, gone, cutoff \cup Replaced)
      /\ Len(mid) = Len(rows) + 1 /\ mid[Len(rows) + 1] = c
      /\ \A i \in DOMAIN rows : i \in DOMAIN mid /\ mid[i] = rows[i]
      /\ \A i \in DOMAIN mid : i \in DOMAIN rows \/ i = Len(rows) + 1
  BY <1>1, <1>2, AppendedSound DEF HistInv, RowsInv
<1>8. mid # <<>> /\ mid[Len(mid)] = c
  <2>1. Len(<<>>) = 0 /\ Len(rows) \in Nat
    BY <1>5
  <2> QED BY <1>7, <2>1
<1> HIDE DEF mid
<1>9. /\ Sound(new, cutoff) /\ Accounted(new, nextId + 1 + 1, gone, cutoff \cup Replaced)
      /\ new[Len(mid) + 1] = r
      /\ \A i \in DOMAIN mid : i \in DOMAIN new /\ new[i] = mid[i]
      /\ \A i \in DOMAIN new : i \in DOMAIN mid \/ i = Len(mid) + 1
  <2>1. nextId + 1 \in Nat \ {0}
    BY <1>1
  <2> QED BY <1>2, <1>3, <1>7, <1>8, <2>1, AppendedSound
<1>10. RowsInv'
  BY <1>1, <1>4, <1>6, <1>9 DEF RowsInv, HistInv, AppendBatch, Replaced
<1>11. Follows(rows', rows, nextId)
  <2>1. \A i \in DOMAIN rows : i >= i
    BY <1>5
  <2>2. c.id >= nextId /\ r.id >= nextId /\ r.of >= nextId /\ c.kind # "result"
    BY <1>1, <1>2, <1>3
  <2>3. ASSUME NEW k \in DOMAIN new
        PROVE  \/ k \in DOMAIN rows /\ new[k] = rows[k]
               \/ new[k] = c
               \/ new[k] = r
    BY <1>7, <1>9
  <2>4. \A k \in DOMAIN rows : Alike(rows[k], rows[k])
    BY DEF Alike
  <2> HIDE DEF new
  <2> QED BY <1>2, <1>3, <1>4, <1>6, <2>1, <2>2, <2>3, <2>4 DEF Follows
<1>12. JobInv'
  <2>1. rows' \in Seq(StoredRow) /\ nextId' \in Nat /\ nextId <= nextId' /\ job' = job
    BY <1>1, <1>10 DEF RowsInv, Sound, AppendBatch
  <2> QED BY <1>11, <2>1, JobInvStays DEF HistInv
<1>13. AwaitInv'
  BY DEF AwaitInv, AppendBatch
<1>14. GuardedStay
  <2>1. \A i \in DOMAIN rows : rows[i].id \in Ids(rows')
    BY <1>4, <1>6, <1>7, <1>9 DEF Ids
  <2> QED BY <2>1, GuardedKept
<1> QED BY <1>10, <1>12, <1>13, <1>14 DEF HistInv

\* A summary takes the place of what it stands for: the rows stay sound and account
\* for every id, and the goal and the verdicts stay.
LEMMA CompactionHist ==
    ASSUME RowsInv, NEW p \in Seq(StoredRow), NEW q \in Seq(StoredRow), Sound(p \o q, cutoff),
           NEW dead, NEW away, Accounted(p \o q, nextId, dead, away),
           NEW hp \in Nat, NEW tp \in Nat, NEW head, NEW tail, NEW middle,
           FirstVisible(p, hp), tp \in (hp + 1)..(Len(p) + 1), Middle(p, hp, tp) # {},
           Ids(head) = IdsAt(p, Free(p) \cap (1..hp)), Ids(tail) = IdsAt(p, Free(p) \cap (tp..Len(p))),
           Ids(middle) = IdsAt(p, Middle(p, hp, tp)), Covered(middle) = CoveredAt(p, Middle(p, hp, tp)),
           Untorn(p \o q, Middle(p, hp, tp)),
           NEW new, new = RebuildCompacted(p, head, SummaryOf(nextId, middle), tail) \o q
    PROVE  /\ Sound(new, cutoff) /\ Accounted(new, nextId + 1, dead, away)
           /\ \A i \in Guarded(p \o q) : (p \o q)[i] \in Range(new)
<1> DEFINE M == Middle(p, hp, tp)
           old == p \o q
<1>1. /\ nextId \in Nat \ {0} /\ nextId \notin 1..(nextId - 1)
      /\ 1..(nextId - 1) \cup {nextId} = 1..nextId /\ nextId + 1 - 1 = nextId
  BY HistoryConstants DEF RowsInv
<1>2. /\ Ids(old) \cup Covered(old) \cup dead \cup away = 1..(nextId - 1) /\ Ids(old) \cap dead = {}
  BY DEF Accounted
<1>3. nextId \notin Ids(old) /\ nextId \notin Covered(old) /\ nextId \notin dead
  BY <1>1, <1>2
<1>4. /\ Sound(new, cutoff)
      /\ Ids(new) \cup Covered(new) = Ids(old) \cup Covered(old) \cup {nextId}
      /\ Ids(new) \subseteq Ids(old) \cup {nextId}
      /\ \A i \in DOMAIN old : i \notin M => old[i] \in Range(new)
  <2>1. nextId \in Nat /\ nextId \notin Ids(p \o q) /\ nextId \notin Covered(p \o q)
    BY <1>1, <1>3
  <2>2. LET o == p \o q
            n == RebuildCompacted(p, head, SummaryOf(nextId, middle), tail) \o q
        IN  /\ Sound(n, cutoff)
            /\ Ids(n) \cup Covered(n) = Ids(o) \cup Covered(o) \cup {nextId}
            /\ Ids(n) \subseteq Ids(o) \cup {nextId}
            /\ \A i \in DOMAIN o : i \notin Middle(p, hp, tp) => o[i] \in Range(n)
    BY <2>1, Summarized
  <2> QED BY <2>2
<1>5. Accounted(new, nextId + 1, dead, away)
  <2>1. Ids(new) \cap dead = {}
    BY <1>2, <1>3, <1>4
  <2>2. Ids(new) \cup Covered(new) \cup dead \cup away = 1..((nextId + 1) - 1)
    BY <1>1, <1>2, <1>4
  <2> QED BY <2>1, <2>2, Zenon DEF Accounted
<1>6. \A i \in Guarded(old) : old[i] \in Range(new)
  <2> SUFFICES ASSUME NEW i \in Guarded(old) PROVE i \in DOMAIN old /\ i \notin M
    BY <1>4
  <2>1. i \in DOMAIN old
    BY DEF Guarded
  <2>2. \A k \in DOMAIN p : old[k] = p[k]
    BY ConcatProperties
  <2>3. ASSUME i \in M PROVE FALSE
    <3>1. i \in DOMAIN p /\ ~Pinned(p[i]) /\ hp < i /\ hp \in Nat /\ i \in Nat
      BY <2>3 DEF Middle, Free
    <3>2. hp \in DOMAIN p /\ hp >= 1 /\ ProviderVisible(p[hp])
      BY DEF FirstVisible
    <3>3. old[i] = p[i] /\ old[hp] = p[hp] /\ hp \in 1..(i - 1)
      BY <2>2, <3>1, <3>2
    <3> HIDE DEF old
    <3> QED BY <3>1, <3>2, <3>3 DEF Guarded, Pinned
  <2> QED BY <2>1, <2>3
<1> QED BY <1>4, <1>5, <1>6

\* A list is its prefix and the rest.
LEMMA PrefixAndRest ==
    ASSUME NEW s \in Seq(StoredRow), NEW e \in 0..Len(s)
    PROVE  /\ SubSeq(s, 1, e) \in Seq(StoredRow) /\ SubSeq(s, e + 1, Len(s)) \in Seq(StoredRow)
           /\ Len(SubSeq(s, 1, e)) = e /\ DOMAIN SubSeq(s, 1, e) = 1..e
           /\ \A i \in 1..e : SubSeq(s, 1, e)[i] = s[i]
           /\ s = SubSeq(s, 1, e) \o SubSeq(s, e + 1, Len(s))
<1> DEFINE p == SubSeq(s, 1, e)
           q == SubSeq(s, e + 1, Len(s))
<1>1. p \in Seq(StoredRow) /\ Len(p) = e /\ DOMAIN p = 1..e /\ \A i \in 1..e : p[i] = s[i]
  OBVIOUS
<1>2. q \in Seq(StoredRow)
  <2>1. CASE e = Len(s)
    <3>1. q = <<>>
      BY <2>1, SubSeqEmpty
    <3> QED BY <3>1
  <2>2. CASE e < Len(s)
    BY <2>2
  <2> QED BY <2>1, <2>2
<1>3. p \o q = s
  <2>1. 1 \in 1..(Len(s) + 1) /\ e \in (1 - 1)..Len(s) /\ Len(s) \in e..Len(s)
    OBVIOUS
  <2>2. SubSeq(s, 1, e) \o SubSeq(s, e + 1, Len(s)) = SubSeq(s, 1, Len(s))
    BY <2>1, ConcatAdjacentSubSeq
  <2>3. SubSeq(s, 1, Len(s)) = s
    OBVIOUS
  <2> QED BY <2>2, <2>3
<1> QED BY <1>1, <1>2, <1>3

\* Parts of a prefix.
LEMMA PrefixParts ==
    ASSUME NEW s \in Seq(StoredRow), NEW e \in 0..Len(s)
    PROVE  LET p == SubSeq(s, 1, e) IN
           /\ \A i \in 1..e : i \in Free(p) <=> i \in Free(s)
           /\ \A P \in SUBSET (1..e) : IdsAt(p, P) = IdsAt(s, P) /\ CoveredAt(p, P) = CoveredAt(s, P)
           /\ \A hp \in 1..e : FirstVisible(p, hp) <=> FirstVisible(s, hp)
<1> DEFINE p == SubSeq(s, 1, e)
<1>1. /\ DOMAIN p = 1..e /\ \A i \in 1..e : p[i] = s[i]
      /\ \A i \in 1..e : i \in DOMAIN s /\ i \in Nat /\ \A k \in 1..(i - 1) : k \in 1..e
  BY PrefixAndRest
<1> HIDE DEF p
<1>2. \A i \in 1..e : i \in Free(p) <=> i \in Free(s)
  BY <1>1 DEF Free
<1>3. \A P \in SUBSET (1..e) : IdsAt(p, P) = IdsAt(s, P) /\ CoveredAt(p, P) = CoveredAt(s, P)
  BY <1>1 DEF IdsAt, CoveredAt
<1>4. \A hp \in 1..e : FirstVisible(p, hp) <=> FirstVisible(s, hp)
  BY <1>1 DEF FirstVisible
<1> QED BY <1>2, <1>3, <1>4 DEF p

\* No step of the thread itself: the rows, and what a job read, stay.
LEMMA RowsStay ==
    ASSUME RowsInv, JobInv, UNCHANGED <<rows, nextId, gone, cutoff, twins>>, phase' \in {"idle", "turn", "job", "inline"},
           job' = job \/ job' = {}
    PROVE  RowsInv' /\ JobInv' /\ GuardedStay
<1>1. RowsInv'
  BY DEF RowsInv, Replaced
<1>2. JobInv'
  BY DEF JobInv
<1>3. GuardedStay
  <2>1. \A i \in DOMAIN rows : rows[i].id \in Ids(rows')
    BY DEF Ids
  <2> QED BY <2>1, GuardedKept
<1> QED BY <1>1, <1>2, <1>3

\* Rows that stand in for rows of a sound list.
LEMMA AlikeSound ==
    ASSUME NEW s, NEW lost, Sound(s, lost), NEW t \in Seq(StoredRow), DOMAIN t = DOMAIN s,
           \A i \in DOMAIN s : Alike(s[i], t[i])
    PROVE  Sound(t, lost) /\ Ids(t) = Ids(s) /\ Covered(t) = Covered(s)
<1>1. /\ s \in Seq(StoredRow) /\ DistinctIds(s) /\ Sorted(s) /\ PlainCovers(s) /\ CoversApart(s)
      /\ Paired(s, lost) /\ Ids(s) \cap Covered(s) = {}
  BY DEF Sound
<1>2. Ids(t) = Ids(s)
  BY DEF Ids, Alike
<1>3. Covered(t) = Covered(s)
  <2>1. \A x : (\E i \in DOMAIN t : x \in t[i].covers) <=> (\E i \in DOMAIN s : x \in s[i].covers)
    BY DEF Alike
  <2> QED BY <2>1 DEF Covered
<1>4. DistinctIds(t) /\ Sorted(t) /\ PlainCovers(t) /\ CoversApart(t)
  BY <1>1 DEF DistinctIds, Sorted, PlainCovers, CoversApart, Alike
<1>5. Paired(t, lost)
  <2> SUFFICES ASSUME NEW k \in DOMAIN t, t[k].kind = "result"
               PROVE  \/ k > 1 /\ t[k - 1].kind = "call" /\ t[k - 1].id = t[k].of
                      \/ t[k].of \in lost /\ \A m \in 1..(k - 1) : Pinned(t[m])
    BY DEF Paired
  <2>1. s[k].kind = "result" /\ s[k].of = t[k].of
    BY DEF Alike
  <2>2. \A m \in 1..(k - 1) : m \in DOMAIN s /\ s[m].kind = t[m].kind /\ s[m].id = t[m].id
    BY <1>1 DEF Alike
  <2>3. k > 1 => k - 1 \in 1..(k - 1)
    BY <1>1
  <2> QED BY <1>1, <2>1, <2>2, <2>3 DEF Paired, Pinned
<1> QED BY <1>1, <1>2, <1>3, <1>4, <1>5 DEF Sound

\* A row is frozen in its place.
LEMMA FrozenAlike ==
    ASSUME rows \in Seq(StoredRow), NEW i \in DOMAIN rows
    PROVE  Freeze(rows[i]) \in StoredRow /\ Alike(rows[i], Freeze(rows[i]))
<1> DEFINE r == rows[i]
           n == Len(rows)
<1>1. n \in Nat /\ DOMAIN rows = 1..n /\ \A k \in DOMAIN rows : rows[k] \in StoredRow /\ rows[k].says \in Nat
  <2>1. n \in Nat /\ DOMAIN rows = 1..n /\ \A k \in DOMAIN rows : rows[k] \in StoredRow
    OBVIOUS
  <2>2. \A x \in StoredRow : x.says \in Nat
    BY DEF StoredRow, AnyRow
  <2> QED BY <2>1, <2>2
<1>2. Described(r) \in Nat
  <2> DEFINE asked   == Max({0} \cup {k \in DOMAIN rows : rows[k].kind = "user"})
             replies == {k \in DOMAIN rows : k > asked /\ rows[k].kind = "reply"}
  <2>1. CASE r.kind = "result" \/ replies = {}
    BY <1>1, <2>1 DEF Described
  <2>2. CASE ~(r.kind = "result" \/ replies = {})
    <3>1. replies \in SUBSET (1..n) /\ replies # {}
      BY <1>1, <2>2
    <3>2. Described(r) = rows[Max(replies)].says
      BY <2>2 DEF Described
    <3> HIDE DEF replies
    <3>3. Max(replies) \in DOMAIN rows
      BY <1>1, <3>1, Largest
    <3> QED BY <1>1, <3>2, <3>3
  <2> QED BY <2>1, <2>2
<1>3. CASE r.media = "raw"
  <2> DEFINE q == [r EXCEPT !.media = "frozen", !.about = Described(r)]
  <2>1. r \in AnyRow /\ (r.kind \in {"call", "summary"} => r.says = r.id)
    BY <1>1 DEF StoredRow
  <2>2. q \in AnyRow /\ q.kind = r.kind /\ q.says = r.says /\ q.id = r.id /\ q.of = r.of /\ q.covers = r.covers
    BY <1>2, <2>1 DEF AnyRow
  <2>3. Freeze(r) = q
    BY <1>3 DEF Freeze
  <2> QED BY <2>1, <2>2, <2>3 DEF StoredRow, Alike
<1>4. CASE r.media # "raw"
  BY <1>1, <1>4 DEF Freeze, Alike
<1> QED BY <1>3, <1>4

\* A turn ends; media are frozen in their rows, or stay as they are.
LEMMA EndTurnHist == HistInv /\ EndTurn => HistInv' /\ GuardedStay
<1> SUFFICES ASSUME HistInv, EndTurn PROVE HistInv' /\ GuardedStay
  OBVIOUS
<1>1. UNCHANGED <<nextId, gone, cutoff, twins>> /\ phase' = "idle" /\ job' = job
  BY DEF EndTurn
<1>2. /\ rows \in Seq(StoredRow) /\ Sound(rows, cutoff) /\ RowsInv /\ JobInv /\ nextId \in Nat
  BY DEF HistInv, RowsInv, Sound
<1>3. rows' \in Seq(StoredRow) /\ DOMAIN rows' = DOMAIN rows /\ \A i \in DOMAIN rows : Alike(rows[i], rows'[i])
  <2>1. CASE rows' = rows
    BY <1>2, <2>1 DEF Alike
  <2>2. CASE rows' = [i \in DOMAIN rows |-> Freeze(rows[i])]
    <3>1. \A i \in DOMAIN rows : Freeze(rows[i]) \in StoredRow /\ Alike(rows[i], Freeze(rows[i]))
      BY <1>2, FrozenAlike
    <3>2. DOMAIN rows = 1..Len(rows) /\ Len(rows) \in Nat
      BY <1>2
    <3> QED BY <2>2, <3>1, <3>2
  <2> QED BY <2>1, <2>2 DEF EndTurn
<1>4. Sound(rows', cutoff) /\ Ids(rows') = Ids(rows) /\ Covered(rows') = Covered(rows)
  BY <1>2, <1>3, AlikeSound
<1>5. RowsInv'
  BY <1>1, <1>2, <1>4 DEF RowsInv, Accounted, Replaced
<1>6. JobInv'
  <2>1. \A i \in DOMAIN rows : i >= i
    BY <1>2
  <2>2. Follows(rows', rows, nextId)
    BY <1>3, <2>1 DEF Follows
  <2>3. nextId' \in Nat /\ nextId <= nextId'
    BY <1>1, <1>2
  <2> QED BY <1>1, <1>2, <1>3, <2>2, <2>3, JobInvStays
<1>7. AwaitInv'
  BY <1>1 DEF AwaitInv
<1>8. GuardedStay
  <2>1. \A i \in DOMAIN rows : rows[i].id \in Ids(rows)
    BY DEF Ids
  <2> QED BY <1>4, <2>1, GuardedKept
<1> QED BY <1>5, <1>6, <1>7, <1>8 DEF HistInv

\* The job stays registered.
LEMMA CancelHist == HistInv /\ CancelCompaction => HistInv' /\ GuardedStay
<1> SUFFICES ASSUME HistInv, CancelCompaction PROVE HistInv' /\ GuardedStay
  OBVIOUS
<1>1. UNCHANGED <<rows, nextId, gone, cutoff, twins>> /\ phase' = "idle" /\ job' = job
  BY DEF CancelCompaction
<1>2. RowsInv' /\ JobInv' /\ GuardedStay
  BY <1>1, RowsStay DEF HistInv
<1>3. AwaitInv'
  BY <1>1 DEF AwaitInv
<1> QED BY <1>2, <1>3 DEF HistInv

\* A turn starts to compact.
LEMMA CompactHist == HistInv /\ Compact => HistInv' /\ GuardedStay
<1> SUFFICES ASSUME HistInv, Compact PROVE HistInv' /\ GuardedStay
  OBVIOUS
<1>1. /\ UNCHANGED <<rows, nextId, gone, cutoff, twins>> /\ nextId <= MaxIds
      /\ Compactable(SplitForCompaction(rows, TailBudget))
  BY DEF Compact
<1>2. (phase' = "job" /\ job' = job) \/ (phase' = "inline" /\ snap' = rows /\ job' = {})
  BY DEF Compact, InlineFrom
<1>3. RowsInv' /\ JobInv' /\ GuardedStay
  BY <1>1, <1>2, RowsStay DEF HistInv
<1>4. AwaitInv'
  BY <1>1, <1>2 DEF AwaitInv
<1> QED BY <1>3, <1>4 DEF HistInv

\* The model of the job answers: what it read stays.
LEMMA JobEndsHist == HistInv /\ JobEnds => HistInv' /\ GuardedStay
<1> SUFFICES ASSUME HistInv, JobEnds PROVE HistInv' /\ GuardedStay
  OBVIOUS
<1>1. UNCHANGED <<rows, nextId, phase, snap, gone, cutoff, twins>>
  BY DEF JobEnds
<1>2. PICK j \in job, st \in {"text", "empty"} : job' = {[j EXCEPT !.state = st]}
  BY DEF JobEnds
<1>3. JobFits(j, rows, nextId) /\ job = {j}
  BY DEF HistInv, JobInv
<1> DEFINE k == [j EXCEPT !.state = st]
           lit == [cut |-> j.cut, covered |-> j.covered, head |-> j.head, middle |-> j.middle, base |-> j.base,
                   suffix |-> j.suffix, state |-> st]
<1>4. k = lit
  <2>1. j = [cut |-> j.cut, covered |-> j.covered, head |-> j.head, middle |-> j.middle, base |-> j.base,
             suffix |-> j.suffix, state |-> j.state]
    BY <1>3 DEF JobFits
  <2> DEFINE J(c, v, h, m, b, u, t) == [cut |-> c, covered |-> v, head |-> h, middle |-> m, base |-> b, suffix |-> u, state |-> t]
  <2>2. \A c, v, h, m, b, u, t, x : [J(c, v, h, m, b, u, t) EXCEPT !.state = x] = J(c, v, h, m, b, u, x)
    OBVIOUS
  <2>3. j = J(j.cut, j.covered, j.head, j.middle, j.base, j.suffix, j.state)
    BY <2>1
  <2> HIDE DEF J
  <2>4. k = J(j.cut, j.covered, j.head, j.middle, j.base, j.suffix, st)
    BY <2>2, <2>3
  <2> QED BY <2>4 DEF J
<1>5. /\ lit.cut = j.cut /\ lit.covered = j.covered /\ lit.head = j.head /\ lit.middle = j.middle
      /\ lit.base = j.base /\ lit.suffix = j.suffix /\ lit.state = st
  OBVIOUS
<1> HIDE DEF lit
<1>7. JobFits(lit, rows, nextId)
  <2>1. lit = [cut |-> lit.cut, covered |-> lit.covered, head |-> lit.head, middle |-> lit.middle, base |-> lit.base,
               suffix |-> lit.suffix, state |-> lit.state]
    BY <1>5 DEF lit
  <2> QED BY <1>2, <1>3, <1>5, <2>1 DEF JobFits
<1>8. job' = {lit}
  BY <1>2, <1>4
<1>9. JobInv'
  BY <1>1, <1>7, <1>8 DEF JobInv
<1>10. RowsInv' /\ GuardedStay
  <2>1. RowsInv'
    BY <1>1 DEF HistInv, RowsInv, Replaced
  <2>2. \A i \in DOMAIN rows : rows[i].id \in Ids(rows')
    BY <1>1 DEF Ids
  <2> QED BY <2>1, <2>2, GuardedKept
<1>11. AwaitInv'
  <2>1. phase # "inline"
    BY <1>3 DEF HistInv, AwaitInv
  <2> QED BY <1>1, <2>1 DEF HistInv, AwaitInv
<1> QED BY <1>9, <1>10, <1>11 DEF HistInv

\* A job starts: it reads the rows before the tail, and a response in the tail has
\* its request there.
LEMMA MaybeStartHist == HistInv /\ MaybeStart => HistInv' /\ GuardedStay
<1> SUFFICES ASSUME HistInv, MaybeStart PROVE HistInv' /\ GuardedStay
  OBVIOUS
<1> DEFINE sp  == SplitForCompaction(rows, TailBudget)
           cut == (CHOOSE i \in DOMAIN rows : rows[i].id = sp.tail[1].id) - 1
           p   == SubSeq(rows, 1, cut)
           base == Len(rows)
           suffix == TailTokens(SubSeq(rows, cut + 1, Len(rows)))
           j   == [cut |-> cut, covered |-> p, head |-> sp.head, middle |-> sp.middle, base |-> base,
                   suffix |-> suffix, state |-> "running"]
<1>1. /\ Compactable(sp) /\ sp.tail # <<>> /\ job' = {j} /\ phase = "turn"
      /\ UNCHANGED <<rows, nextId, phase, snap, gone, cutoff, twins>>
  BY DEF MaybeStart
<1>2. /\ rows \in Seq(StoredRow) /\ DistinctIds(rows) /\ Sorted(rows) /\ Paired(rows, cutoff) /\ Sound(rows, cutoff)
      /\ Ids(rows) \subseteq 1..(nextId - 1) /\ Ids(rows) \cap Covered(rows) = {}
  BY DEF HistInv, RowsInv, Sound, Accounted
<1>3. \E hp, tp \in Nat : Parts(rows, hp, tp, sp)
  BY <1>1, <1>2, SplitFits
<1> HIDE DEF sp
<1>4. PICK hp \in Nat, tp \in Nat : Parts(rows, hp, tp, sp)
  BY <1>3
<1>5. /\ FirstVisible(rows, hp) /\ tp \in (hp + 1)..(Len(rows) + 1) /\ tp \in DOMAIN rows /\ sp.tail[1] = rows[tp]
      /\ Ids(sp.head) = IdsAt(rows, Free(rows) \cap (1..hp))
      /\ Ids(sp.middle) = IdsAt(rows, Middle(rows, hp, tp)) /\ Covered(sp.middle) = CoveredAt(rows, Middle(rows, hp, tp))
      /\ Middle(rows, hp, tp) # {} /\ rows[tp].kind # "result"
  BY <1>1, <1>4 DEF Parts
<1>6. (CHOOSE i \in DOMAIN rows : rows[i].id = sp.tail[1].id) = tp
  <2> DEFINE c == CHOOSE i \in DOMAIN rows : rows[i].id = sp.tail[1].id
  <2>1. c \in DOMAIN rows /\ rows[c].id = rows[tp].id
    BY <1>5
  <2> HIDE DEF c
  <2>2. c = tp
    BY <1>2, <1>5, <2>1 DEF DistinctIds
  <2> QED BY <2>2 DEF c
<1>7. cut = tp - 1
  BY <1>6
<1> HIDE DEF cut
<1>8. hp \in 1..cut /\ cut \in 0..Len(rows) /\ cut \in Nat /\ cut + 1 = tp /\ hp \in DOMAIN rows
  BY <1>2, <1>5, <1>7 DEF FirstVisible
<1>9. /\ p \in Seq(StoredRow) /\ Len(p) = cut /\ DOMAIN p = 1..cut /\ \A i \in 1..cut : p[i] = rows[i]
  BY <1>2, <1>8, PrefixAndRest
<1>10. /\ \A i \in 1..cut : i \in Free(p) <=> i \in Free(rows)
       /\ \A P \in SUBSET (1..cut) : IdsAt(p, P) = IdsAt(rows, P) /\ CoveredAt(p, P) = CoveredAt(rows, P)
       /\ FirstVisible(p, hp)
  BY <1>2, <1>5, <1>8, PrefixParts
<1> HIDE DEF p, base, suffix
<1>11. j.cut = cut /\ j.covered = p /\ j.head = sp.head /\ j.middle = sp.middle /\ j.state = "running"
       /\ j.base = base /\ j.suffix = suffix
  OBVIOUS
<1> HIDE DEF j
<1>13. Middle(p, hp, Len(p) + 1) = Middle(rows, hp, tp) /\ Middle(rows, hp, tp) \in SUBSET (1..cut)
  <2>1. \A i \in (hp + 1)..(tp - 1) : i \in 1..cut
    BY <1>7, <1>8
  <2>2. Len(p) + 1 = tp
    BY <1>8, <1>9
  <2> QED BY <1>10, <2>1, <2>2 DEF Middle
<1>14. Free(p) \cap (1..hp) = Free(rows) \cap (1..hp) /\ Free(rows) \cap (1..hp) \in SUBSET (1..cut)
  <2>1. \A i \in 1..hp : i \in 1..cut
    BY <1>8
  <2> QED BY <1>10, <2>1
<1>15. Cuts(p, j.head, j.middle)
  <2>1. hp \in 1..Len(p) /\ Middle(p, hp, Len(p) + 1) # {}
    BY <1>5, <1>8, <1>9, <1>13
  <2>2. Ids(j.head) = IdsAt(p, Free(p) \cap (1..hp))
    BY <1>5, <1>10, <1>11, <1>14
  <2>3. /\ Ids(j.middle) = IdsAt(p, Middle(p, hp, Len(p) + 1))
        /\ Covered(j.middle) = CoveredAt(p, Middle(p, hp, Len(p) + 1))
    BY <1>5, <1>10, <1>11, <1>13
  <2> QED BY <1>10, <2>1, <2>2, <2>3 DEF Cuts
<1>16. Ids(p) \subseteq Ids(rows) /\ Ids(p) \subseteq 1..(nextId - 1)
  <2>1. \A i \in 1..cut : i \in DOMAIN rows
    BY <1>2, <1>8
  <2>2. Ids(p) \subseteq Ids(rows)
    BY <1>9, <2>1 DEF Ids
  <2> QED BY <1>2, <2>2
<1>17. NoLate(rows, p)
  <2> SUFFICES ASSUME NEW k \in DOMAIN rows, rows[k].kind = "result", rows[k].of \in Ids(p)
               PROVE  rows[k].id \in Ids(p)
    BY DEF NoLate
  <2>1. k \in Nat /\ k >= 1 /\ k <= Len(rows)
    BY <1>2
  <2>2. k # tp
    BY <1>5
  <2>3. k \in 1..cut
    <3>1. CASE k > 1 /\ rows[k - 1].kind = "call" /\ rows[k - 1].id = rows[k].of
      <4>1. PICK i \in 1..cut : rows[k].of = rows[i].id
        BY <1>9 DEF Ids
      <4>2. i \in DOMAIN rows /\ k - 1 \in DOMAIN rows
        BY <1>2, <1>8, <2>1, <3>1
      <4>3. k - 1 = i
        BY <1>2, <3>1, <4>1, <4>2 DEF DistinctIds
      <4> QED BY <1>8, <2>1, <2>2, <4>3
    <3>2. CASE \A m \in 1..(k - 1) : Pinned(rows[m])
      <4>1. ~Pinned(rows[hp]) /\ hp \in Nat /\ hp >= 1
        BY <1>5, <1>8 DEF FirstVisible, ProviderVisible, Pinned
      <4>2. ~(hp < k)
        BY <2>1, <3>2, <4>1
      <4> QED BY <1>8, <2>1, <4>1, <4>2
    <3> QED BY <1>2, <3>1, <3>2 DEF Paired
  <2> QED BY <1>9, <2>3 DEF Ids
<1>a. DistinctIds(p) /\ Sorted(p)
  <2>1. Sound(p, cutoff)
    BY <1>2, <1>8, PrefixSound DEF p
  <2> QED BY <2>1 DEF Sound
<1>b. OnlyLater(rows, p)
  <2> SUFFICES ASSUME NEW k \in DOMAIN rows, k > cut
               PROVE  /\ rows[k].id \notin Ids(p)
                      /\ \A i \in 1..cut : p[i].kind # "summary" /\ rows[k].kind # "summary" => p[i].id < rows[k].id
    BY <1>9 DEF OnlyLater
  <2>1. \A i \in 1..cut : i \in DOMAIN rows /\ i < k /\ i # k /\ p[i] = rows[i]
    BY <1>2, <1>8, <1>9
  <2>2. rows[k].id \notin Ids(p)
    BY <1>2, <1>9, <2>1 DEF Ids, DistinctIds
  <2> QED BY <1>2, <2>1, <2>2 DEF Sorted
<1>18. JobFits(j, rows, nextId)
  <2>1. j = [cut |-> j.cut, covered |-> j.covered, head |-> j.head, middle |-> j.middle, base |-> j.base,
             suffix |-> j.suffix, state |-> j.state]
    BY <1>11 DEF j
  <2>2. Ids(p) \cap Covered(rows) = {}
    BY <1>2, <1>16
  <2> QED BY <1>9, <1>11, <1>15, <1>16, <1>17, <1>a, <1>b, <2>1, <2>2 DEF JobFits
<1>19. JobInv'
  BY <1>1, <1>18 DEF JobInv
<1>20. RowsInv' /\ GuardedStay
  <2>1. RowsInv'
    BY <1>1 DEF HistInv, RowsInv, Replaced
  <2>2. \A i \in DOMAIN rows : rows[i].id \in Ids(rows')
    BY <1>1 DEF Ids
  <2> QED BY <2>1, <2>2, GuardedKept
<1>21. AwaitInv'
  BY <1>1 DEF AwaitInv
<1> QED BY <1>19, <1>20, <1>21 DEF HistInv

\* The list s with its oldest rows replaced by rows c that say the same.
SwapFacts(s, c, new) ==
    /\ new \in Seq(StoredRow) /\ DOMAIN new = DOMAIN s /\ DOMAIN c = 1..Len(c) /\ Len(c) \in Nat
    /\ \A i \in DOMAIN s : i \in Nat /\ i >= 1 /\ new[i] = IF i <= Len(c) THEN c[i] ELSE s[i]
    /\ \A i \in DOMAIN s : /\ new[i].kind = s[i].kind /\ new[i].of = s[i].of /\ new[i].covers = s[i].covers
                           /\ Same(new[i], s[i]) /\ Same(s[i], new[i])
                           /\ s[i].kind \in {"call", "summary"} => new[i] = s[i]

\* Rows c take the place of the oldest rows of a list.
LEMMA Swapped ==
    ASSUME NEW s \in Seq(StoredRow), NEW c \in Seq(StoredRow), Len(c) <= Len(s),
           \A i \in 1..Len(c) : Same(s[i], c[i])
    PROVE  /\ SubSeq(s, Len(c) + 1, Len(s)) \in Seq(StoredRow)
           /\ SwapFacts(s, c, c \o SubSeq(s, Len(c) + 1, Len(s)))
<1> DEFINE n == Len(c)
           q == SubSeq(s, n + 1, Len(s))
           new == c \o q
<1>1. n \in Nat /\ n \in 0..Len(s) /\ Len(s) \in Nat /\ DOMAIN s = 1..Len(s) /\ DOMAIN c = 1..n
  OBVIOUS
<1>2. /\ SubSeq(s, 1, n) \in Seq(StoredRow) /\ q \in Seq(StoredRow) /\ Len(SubSeq(s, 1, n)) = n
      /\ s = SubSeq(s, 1, n) \o q
  BY <1>1, PrefixAndRest
<1> HIDE DEF q, n
<1>3. Len(s) = n + Len(q) /\ Len(q) \in Nat /\ \A i \in 1..Len(s) : ~(i <= n) => s[i] = q[i - n]
  <2>1. PICK p \in Seq(StoredRow) : Len(p) = n /\ s = p \o q
    BY <1>2
  <2>2. Len(p \o q) = n + Len(q) /\ \A i \in 1..(n + Len(q)) : ~(i <= n) => (p \o q)[i] = q[i - n]
    BY <1>1, <1>2, <2>1
  <2> QED BY <1>1, <1>2, <2>1, <2>2
<1>4. new \in Seq(StoredRow) /\ Len(new) = n + Len(q)
      /\ \A i \in 1..(n + Len(q)) : new[i] = IF i <= n THEN c[i] ELSE q[i - n]
  BY <1>1, <1>2 DEF n
<1> HIDE DEF new
<1>5. DOMAIN new = DOMAIN s
  BY <1>1, <1>3, <1>4
<1>6. \A i \in DOMAIN s : i \in Nat /\ i >= 1 /\ new[i] = IF i <= n THEN c[i] ELSE s[i]
  BY <1>1, <1>3, <1>4
<1>7. ASSUME NEW i \in DOMAIN s
      PROVE  /\ new[i].kind = s[i].kind /\ new[i].of = s[i].of /\ new[i].covers = s[i].covers
             /\ Same(new[i], s[i]) /\ Same(s[i], new[i])
             /\ s[i].kind \in {"call", "summary"} => new[i] = s[i]
  <2>1. s[i] \in StoredRow /\ new[i] \in StoredRow
    BY <1>4, <1>5
  <2>2. Same(s[i], new[i])
    <3>1. CASE i <= n
      <4>1. i \in 1..Len(c)
        BY <1>1, <1>6, <3>1 DEF n
      <4> QED BY <1>6, <3>1, <4>1
    <3>2. CASE ~(i <= n)
      <4>1. new[i] = s[i]
        BY <1>6, <3>2
      <4>2. [s[i] EXCEPT !.id = s[i].id] = s[i]
        BY <2>1 DEF StoredRow, AnyRow
      <4> QED BY <4>1, <4>2 DEF Same
    <3> QED BY <3>1, <3>2
  <2> QED BY <2>1, <2>2, SameRow
<1>8. SwapFacts(s, c, new)
  BY <1>1, <1>4, <1>5, <1>6, <1>7 DEF SwapFacts, n
<1> QED BY <1>2, <1>8 DEF new, q, n

\* Such rows are sound, if the rows c are in order and apart from the others.
LEMMA SwappedSound ==
    ASSUME NEW s, NEW lost, Sound(s, lost), NEW c \in Seq(StoredRow), Len(c) <= Len(s),
           \A i \in 1..Len(c) : Same(s[i], c[i]),
           DistinctIds(c), Sorted(c), Ids(c) \cap Covered(s) = {}, OnlyLater(s, c)
    PROVE  LET new == c \o SubSeq(s, Len(c) + 1, Len(s))
           IN  Sound(new, lost) /\ Covered(new) = Covered(s)
<1> DEFINE n == Len(c)
           new == c \o SubSeq(s, n + 1, Len(s))
<1>1. /\ s \in Seq(StoredRow) /\ DistinctIds(s) /\ Sorted(s) /\ PlainCovers(s) /\ CoversApart(s)
      /\ Paired(s, lost) /\ Ids(s) \cap Covered(s) = {}
  BY DEF Sound
<1>2. /\ new \in Seq(StoredRow) /\ DOMAIN new = DOMAIN s /\ DOMAIN c = 1..n /\ n \in Nat
      /\ \A i \in DOMAIN s : i \in Nat /\ i >= 1 /\ new[i] = IF i <= n THEN c[i] ELSE s[i]
      /\ \A i \in DOMAIN s : /\ new[i].kind = s[i].kind /\ new[i].of = s[i].of /\ new[i].covers = s[i].covers
                             /\ s[i].kind \in {"call", "summary"} => new[i] = s[i]
  <2>1. SwapFacts(s, c, new)
    BY <1>1, Swapped
  <2> HIDE DEF new
  <2> QED BY <2>1 DEF SwapFacts
<1> HIDE DEF new, n
<1>3. ASSUME NEW i \in DOMAIN s
      PROVE  \/ i <= n /\ i \in DOMAIN c /\ new[i] = c[i] /\ c[i].id \in Ids(c)
             \/ i > n /\ new[i] = s[i] /\ s[i].id \notin Ids(c)
  <2>1. i \in Nat /\ i >= 1 /\ new[i] = IF i <= n THEN c[i] ELSE s[i]
    BY <1>2
  <2>2. CASE i <= n
    <3>1. i \in DOMAIN c
      BY <1>2, <2>1, <2>2
    <3> QED BY <2>1, <2>2, <3>1 DEF Ids
  <2>3. CASE ~(i <= n)
    <3>1. i > n
      BY <1>2, <2>1, <2>3
    <3> QED BY <2>1, <2>3, <3>1 DEF OnlyLater, n
  <2> QED BY <2>2, <2>3
<1>4. DistinctIds(new)
  <2> SUFFICES ASSUME NEW i \in DOMAIN s, NEW k \in DOMAIN s, new[i].id = new[k].id PROVE i = k
    BY <1>2 DEF DistinctIds
  <2> QED BY <1>1, <1>3 DEF DistinctIds
<1>5. Sorted(new)
  <2> SUFFICES ASSUME NEW i \in DOMAIN s, NEW k \in DOMAIN s, i < k, new[i].kind # "summary", new[k].kind # "summary"
               PROVE  new[i].id < new[k].id
    BY <1>2 DEF Sorted
  <2>1. i \in Nat /\ k \in Nat /\ n \in Nat
    BY <1>2
  <2>2. CASE k <= n
    <3>1. i <= n
      BY <2>1, <2>2
    <3>2. i \in DOMAIN c /\ k \in DOMAIN c /\ new[i] = c[i] /\ new[k] = c[k]
      BY <1>2, <2>1, <2>2, <3>1
    <3> QED BY <3>2 DEF Sorted
  <2>3. CASE k > n /\ i <= n
    <3>1. i \in DOMAIN c /\ new[i] = c[i] /\ new[k] = s[k]
      BY <1>2, <2>1, <2>3
    <3> QED BY <2>3, <3>1 DEF OnlyLater, n
  <2>4. CASE k > n /\ i > n
    <3>1. new[i] = s[i] /\ new[k] = s[k]
      BY <1>2, <2>1, <2>4
    <3> QED BY <1>1, <3>1 DEF Sorted
  <2> QED BY <2>1, <2>2, <2>3, <2>4
<1>6. PlainCovers(new) /\ CoversApart(new)
  BY <1>1, <1>2 DEF PlainCovers, CoversApart
<1>7. Covered(new) = Covered(s)
  <2>1. Covered(new) = UNION {new[i].covers : i \in DOMAIN s}
    BY <1>2 DEF Covered
  <2>2. \A i \in DOMAIN s : new[i].covers = s[i].covers
    BY <1>2
  <2>3. UNION {new[i].covers : i \in DOMAIN s} = UNION {s[i].covers : i \in DOMAIN s}
    BY <2>2
  <2> QED BY <2>1, <2>3 DEF Covered
<1>8. Ids(new) \cap Covered(new) = {}
  <2> SUFFICES ASSUME NEW i \in DOMAIN s PROVE new[i].id \notin Covered(s)
    BY <1>2, <1>7 DEF Ids
  <2>1. s[i].id \in Ids(s)
    BY DEF Ids
  <2> QED BY <1>1, <1>3, <2>1
<1>9. Paired(new, lost)
  <2> SUFFICES ASSUME NEW k \in DOMAIN s, new[k].kind = "result"
               PROVE  \/ k > 1 /\ new[k - 1].kind = "call" /\ new[k - 1].id = new[k].of
                      \/ new[k].of \in lost /\ \A m \in 1..(k - 1) : Pinned(new[m])
    BY <1>2 DEF Paired
  <2>1. s[k].kind = "result" /\ s[k].of = new[k].of
    BY <1>2
  <2>2. \A m \in 1..(k - 1) : /\ m \in DOMAIN s /\ new[m].kind = s[m].kind
                              /\ s[m].kind = "call" => new[m] = s[m]
    <3>1. \A m \in 1..(k - 1) : m \in DOMAIN s
      BY <1>1
    <3> QED BY <1>2, <3>1
  <2>3. k > 1 => k - 1 \in 1..(k - 1)
    BY <1>1
  <2> QED BY <1>1, <2>1, <2>2, <2>3 DEF Paired, Pinned
<1> QED BY <1>2, <1>4, <1>5, <1>6, <1>7, <1>8, <1>9 DEF Sound, new, n

\* No response behind the rows c has its request in their middle.
LEMMA SwappedUntorn ==
    ASSUME NEW s \in Seq(StoredRow), NEW c \in Seq(StoredRow), Len(c) <= Len(s),
           \A i \in 1..Len(c) : Same(s[i], c[i]), NoLate(s, c), OnlyLater(s, c), NEW hp \in 1..Len(c)
    PROVE  Untorn(c \o SubSeq(s, Len(c) + 1, Len(s)), Middle(c, hp, Len(c) + 1))
<1> DEFINE n == Len(c)
           new == c \o SubSeq(s, n + 1, Len(s))
           M == Middle(c, hp, n + 1)
<1>1. /\ new \in Seq(StoredRow) /\ DOMAIN new = DOMAIN s /\ DOMAIN c = 1..n /\ n \in Nat
      /\ \A i \in DOMAIN s : i \in Nat /\ i >= 1 /\ new[i] = IF i <= n THEN c[i] ELSE s[i]
      /\ \A i \in DOMAIN s : /\ new[i].kind = s[i].kind /\ new[i].of = s[i].of
                             /\ s[i].kind \in {"call", "summary"} => new[i] = s[i]
  <2>1. SwapFacts(s, c, new)
    BY Swapped
  <2> HIDE DEF new
  <2> QED BY <2>1 DEF SwapFacts
<1> HIDE DEF new, n, M
<1> SUFFICES ASSUME NEW i \in DOMAIN s, i \notin M, i > 1, new[i].kind = "result",
                    new[i - 1].kind = "call", new[i - 1].id = new[i].of, i - 1 \in M
             PROVE  FALSE
  BY <1>1 DEF Untorn, new, n, M
<1>2. i \in Nat /\ i - 1 \in DOMAIN c /\ i - 1 > hp /\ hp \in Nat /\ i - 1 <= n
  BY <1>1 DEF M, Middle, n
<1>3. i - 1 \in DOMAIN s
  <2>1. DOMAIN s = 1..Len(s) /\ Len(s) \in Nat
    OBVIOUS
  <2> QED BY <1>2, <2>1
<1>4. new[i - 1] = c[i - 1]
  BY <1>1, <1>2, <1>3
<1>5. s[i].of \in Ids(c) /\ s[i].kind = "result"
  BY <1>1, <1>2, <1>4 DEF Ids
<1>6. s[i].id \in Ids(c)
  BY <1>5 DEF NoLate
<1>7. i <= n
  BY <1>1, <1>2, <1>6 DEF OnlyLater, n
<1>8. i \in DOMAIN c /\ ~Pinned(c[i])
  BY <1>1, <1>2, <1>7 DEF Pinned
<1>9. i \in (hp + 1)..((n + 1) - 1) /\ i \in Free(c)
  BY <1>1, <1>2, <1>7, <1>8 DEF Free
<1>10. i \in M
  BY <1>9 DEF M, Middle
<1> QED BY <1>10

\* Where the ids are when the rows c are back.
LEMMA SwappedAccounted ==
    ASSUME NEW s, NEW n \in Nat, NEW dead, NEW away, Accounted(s, n, dead, away),
           s \in Seq(StoredRow), NEW c \in Seq(StoredRow), Len(c) <= Len(s),
           \A i \in 1..Len(c) : Same(s[i], c[i]), Ids(c) \subseteq 1..(n - 1),
           NEW st, st = {<<c[i], s[i]>> : i \in {k \in 1..Len(c) : s[k].id # c[k].id}}
    PROVE  LET new == c \o SubSeq(s, Len(c) + 1, Len(s))
           IN  Accounted(new, n, dead \ {x[1].id : x \in st}, away \cup {x[2].id : x \in st})
<1> DEFINE m == Len(c)
           new == c \o SubSeq(s, m + 1, Len(s))
           back == {x[1].id : x \in st}
           taken == {x[2].id : x \in st}
<1>1. /\ DOMAIN new = DOMAIN s /\ DOMAIN c = 1..m /\ m \in Nat
      /\ \A i \in DOMAIN s : i \in Nat /\ i >= 1 /\ new[i] = IF i <= m THEN c[i] ELSE s[i]
      /\ \A i \in DOMAIN s : new[i].covers = s[i].covers
  <2>1. SwapFacts(s, c, new)
    BY Swapped
  <2> HIDE DEF new
  <2> QED BY <2>1 DEF SwapFacts
<1>2. DOMAIN s = 1..Len(s) /\ Len(s) \in Nat /\ \A i \in 1..m : i \in DOMAIN s
  BY <1>1
<1>3. /\ Ids(s) \cup Covered(s) \cup dead \cup away = 1..(n - 1) /\ Ids(s) \cap dead = {}
  BY DEF Accounted
<1> HIDE DEF new, m
<1>4. Covered(new) = Covered(s)
  <2>1. \A x : (\E i \in DOMAIN new : x \in new[i].covers) <=> (\E i \in DOMAIN s : x \in s[i].covers)
    BY <1>1
  <2> QED BY <2>1 DEF Covered
<1>5. /\ \A i \in 1..m : s[i].id # c[i].id => c[i].id \in back /\ s[i].id \in taken
      /\ \A x \in back : x \in Ids(c)
      /\ \A x \in taken : x \in Ids(s)
  <2>1. \A i \in 1..m : s[i].id # c[i].id => <<c[i], s[i]>> \in st
    BY DEF m
  <2>2. \A x \in st : \E i \in 1..m : x = <<c[i], s[i]>>
    BY DEF m
  <2>3. \A a, b : <<a, b>>[1] = a /\ <<a, b>>[2] = b
    OBVIOUS
  <2>4. \A i \in 1..m : s[i].id # c[i].id => c[i].id \in back /\ s[i].id \in taken
    <3> SUFFICES ASSUME NEW i \in 1..m, s[i].id # c[i].id PROVE c[i].id \in back /\ s[i].id \in taken
      OBVIOUS
    <3>1. <<c[i], s[i]>> \in st
      BY <2>1
    <3>2. \A x \in st : x[1].id \in back /\ x[2].id \in taken
      OBVIOUS
    <3> QED BY <2>3, <3>1, <3>2
  <2>5. \A x \in st : x[1].id \in Ids(c) /\ x[2].id \in Ids(s)
    BY <1>1, <1>2, <2>2, <2>3 DEF Ids
  <2> QED BY <2>4, <2>5
<1> HIDE DEF back, taken
<1>6. \A x \in Ids(c) : x \in Ids(new)
  <2>1. \A i \in DOMAIN c : i \in DOMAIN new /\ new[i] = c[i]
    BY <1>1, <1>2
  <2> QED BY <2>1 DEF Ids
<1>7. \A i \in DOMAIN s : s[i].id \in Ids(new) \cup taken
  <2> SUFFICES ASSUME NEW i \in DOMAIN s PROVE s[i].id \in Ids(new) \cup taken
    OBVIOUS
  <2>1. new[i].id \in Ids(new)
    BY <1>1 DEF Ids
  <2>2. CASE i <= m
    <3>1. i \in 1..m /\ new[i] = c[i]
      BY <1>1, <2>2
    <3> QED BY <1>5, <2>1, <3>1
  <2>3. CASE ~(i <= m)
    BY <1>1, <2>1, <2>3
  <2> QED BY <2>2, <2>3
<1>8. \A i \in DOMAIN s : new[i].id \in Ids(s) \/ (new[i].id \in back /\ new[i].id \in Ids(c))
  <2> SUFFICES ASSUME NEW i \in DOMAIN s PROVE new[i].id \in Ids(s) \/ (new[i].id \in back /\ new[i].id \in Ids(c))
    OBVIOUS
  <2>1. s[i].id \in Ids(s)
    BY DEF Ids
  <2>2. CASE i <= m
    <3>1. i \in 1..m /\ new[i] = c[i] /\ c[i].id \in Ids(c)
      BY <1>1, <2>2 DEF Ids
    <3> QED BY <1>5, <2>1, <3>1
  <2>3. CASE ~(i <= m)
    BY <1>1, <2>1, <2>3
  <2> QED BY <2>2, <2>3
<1>9. /\ \A x \in Ids(s) : x \in Ids(new) \cup taken
      /\ \A x \in Ids(new) : x \in Ids(s) \/ (x \in back /\ x \in Ids(c))
  <2>1. \A x \in Ids(s) : x \in Ids(new) \cup taken
    BY <1>7 DEF Ids
  <2>2. \A x \in Ids(new) : x \in Ids(s) \/ (x \in back /\ x \in Ids(c))
    <3>1. \A x \in Ids(new) : \E i \in DOMAIN s : x = new[i].id
      BY <1>1 DEF Ids
    <3> QED BY <1>8, <3>1
  <2> QED BY <2>1, <2>2
<1>10. Ids(new) \cap (dead \ back) = {}
  BY <1>3, <1>9
<1>11. Ids(new) \cup Covered(new) \cup (dead \ back) \cup (away \cup taken) = 1..(n - 1)
  <2>1. \A x \in 1..(n - 1) : x \in Ids(new) \cup Covered(new) \cup (dead \ back) \cup (away \cup taken)
    BY <1>3, <1>4, <1>5, <1>6, <1>9
  <2>2. \A x \in Ids(new) \cup Covered(new) \cup (dead \ back) \cup (away \cup taken) : x \in 1..(n - 1)
    BY <1>3, <1>4, <1>5, <1>9
  <2> QED BY <2>1, <2>2
<1> QED BY <1>10, <1>11 DEF Accounted, new, m, back, taken

\* The summary of a job goes in with the rows it read, if rows that say the same are
\* still there.
LEMMA ApplyJobHist == HistInv /\ ApplyJob => HistInv' /\ GuardedStay
<1> SUFFICES ASSUME HistInv, ApplyJob PROVE HistInv' /\ GuardedStay
  OBVIOUS
<1>1. phase = "job" /\ nextId <= MaxIds /\ Compactable(SplitForCompaction(rows, TailBudget))
  BY DEF ApplyJob, HistInv, AwaitInv
<1>2. PICK j \in job :
        /\ job' = {}
        /\ IF JobFresh(j)
           THEN /\ rows' = RebuildCompacted(j.covered, j.head, SummaryOf(nextId, j.middle), <<>>)
                               \o SubSeq(rows, j.cut + 1, Len(rows))
                /\ nextId' = nextId + 1
                /\ twins' = twins \cup Stands(j)
                /\ gone' = gone \ {s[1].id : s \in Stands(j)}
                /\ phase' = "turn" /\ UNCHANGED snap
           ELSE InlineFrom /\ UNCHANGED <<rows, nextId, gone, twins>>
  BY DEF ApplyJob
<1>3. cutoff' = cutoff
  BY DEF ApplyJob
<1>4. CASE ~JobFresh(j)
  <2>1. UNCHANGED <<rows, nextId, gone, cutoff, twins>> /\ phase' = "inline" /\ snap' = rows /\ job' = {}
    BY <1>2, <1>3, <1>4 DEF InlineFrom
  <2>2. RowsInv' /\ JobInv' /\ GuardedStay
    BY <2>1, RowsStay DEF HistInv
  <2>3. AwaitInv'
    BY <1>1, <2>1 DEF AwaitInv
  <2> QED BY <2>2, <2>3 DEF HistInv
<1>5. CASE JobFresh(j)
  <2> DEFINE c == j.covered
             q == SubSeq(rows, Len(c) + 1, Len(rows))
             mid == c \o q
             st == Stands(j)
             away == cutoff \cup Replaced \cup {x[2].id : x \in st}
             dead == gone \ {x[1].id : x \in st}
  <2>1. /\ rows \in Seq(StoredRow) /\ DistinctIds(rows) /\ Sound(rows, cutoff) /\ RowsInv
        /\ JobFits(j, rows, nextId) /\ nextId \in Nat
    BY DEF HistInv, RowsInv, JobInv, Sound
  <2>2. /\ c \in Seq(StoredRow) /\ Len(c) = j.cut /\ Cuts(c, j.head, j.middle) /\ Ids(c) \subseteq 1..(nextId - 1)
        /\ DistinctIds(c) /\ Sorted(c) /\ Ids(c) \cap Covered(rows) = {} /\ NoLate(rows, c) /\ OnlyLater(rows, c)
    BY <2>1 DEF JobFits
  <2>3. Len(c) <= Len(rows) /\ \A i \in 1..Len(c) : Same(rows[i], c[i])
    BY <1>5, <2>2 DEF JobFresh
  <2>4. rows' = RebuildCompacted(c, j.head, SummaryOf(nextId, j.middle), <<>>) \o q /\ nextId' = nextId + 1
        /\ phase' = "turn" /\ job' = {} /\ twins' = twins \cup st /\ gone' = dead
    BY <1>2, <1>5, <2>2
  <2>5. /\ q \in Seq(StoredRow) /\ mid \in Seq(StoredRow) /\ DOMAIN mid = DOMAIN rows
        /\ DOMAIN c = 1..Len(c) /\ Len(c) \in Nat
        /\ \A i \in DOMAIN rows : /\ mid[i].kind = rows[i].kind /\ Same(mid[i], rows[i])
                                  /\ i \in Nat
    <3>1. q \in Seq(StoredRow) /\ SwapFacts(rows, c, mid)
      BY <2>1, <2>2, <2>3, Swapped
    <3> HIDE DEF mid, q
    <3> QED BY <3>1 DEF SwapFacts
  <2>6. Sound(mid, cutoff)
    BY <2>1, <2>2, <2>3, SwappedSound
  <2>7. st = {<<c[i], rows[i]>> : i \in {k \in 1..Len(c) : rows[k].id # c[k].id}}
    BY <2>2 DEF Stands
  <2>8. Accounted(mid, nextId, dead, away)
    <3>1. Accounted(rows, nextId, gone, cutoff \cup Replaced)
      BY <2>1 DEF RowsInv
    <3> HIDE DEF st
    <3> QED BY <2>1, <2>2, <2>3, <2>7, <3>1, SwappedAccounted
  <2>9. PICK hp \in 1..Len(c) :
        /\ FirstVisible(c, hp) /\ Middle(c, hp, Len(c) + 1) # {}
        /\ Ids(j.head) = IdsAt(c, Free(c) \cap (1..hp))
        /\ Ids(j.middle) = IdsAt(c, Middle(c, hp, Len(c) + 1))
        /\ Covered(j.middle) = CoveredAt(c, Middle(c, hp, Len(c) + 1))
    BY <2>2 DEF Cuts
  <2> DEFINE tp == Len(c) + 1
  <2>10. hp \in Nat /\ tp \in Nat /\ tp \in (hp + 1)..(Len(c) + 1)
    BY <2>5, <2>9
  <2>11. Ids(<<>>) = IdsAt(c, Free(c) \cap (tp..Len(c)))
    <3>1. tp..Len(c) = {}
      BY <2>5
    <3>2. Ids(<<>>) = {}
      BY DEF Ids
    <3>3. Free(c) \cap (tp..Len(c)) = {}
      BY <3>1
    <3> QED BY <3>2, <3>3 DEF IdsAt
  <2>12. Untorn(mid, Middle(c, hp, tp))
    BY <2>1, <2>2, <2>3, <2>9, SwappedUntorn
  <2> HIDE DEF st, away, dead, q
  <2>13. /\ Sound(rows', cutoff) /\ Accounted(rows', nextId + 1, dead, away)
         /\ \A i \in Guarded(mid) : mid[i] \in Range(rows')
    <3>1. /\ tp \in Nat /\ tp \in (hp + 1)..(Len(c) + 1) /\ Middle(c, hp, tp) # {} /\ hp \in Nat /\ FirstVisible(c, hp)
          /\ Ids(j.head) = IdsAt(c, Free(c) \cap (1..hp)) /\ Ids(<<>>) = IdsAt(c, Free(c) \cap (tp..Len(c)))
          /\ Ids(j.middle) = IdsAt(c, Middle(c, hp, tp)) /\ Covered(j.middle) = CoveredAt(c, Middle(c, hp, tp))
      BY <2>9, <2>10, <2>11
    <3> HIDE DEF tp, c
    <3> QED BY <2>1, <2>2, <2>4, <2>5, <2>6, <2>8, <2>12, <3>1, CompactionHist
  <2>14. \A s \in twins' : Same(s[1], s[2])
    <3>1. \A s \in twins : Same(s[1], s[2])
      BY <2>1 DEF RowsInv
    <3>2. ASSUME NEW s \in st PROVE Same(s[1], s[2])
      <4>1. PICK i \in 1..Len(c) : s = <<c[i], rows[i]>>
        BY <2>7, <3>2
      <4>2. c[i] \in StoredRow /\ rows[i] \in StoredRow /\ Same(rows[i], c[i])
        <5>1. Len(c) \in Nat /\ Len(rows) \in Nat /\ DOMAIN rows = 1..Len(rows) /\ DOMAIN c = 1..Len(c)
          BY <2>1, <2>5
        <5>2. i \in DOMAIN c /\ i \in DOMAIN rows
          BY <2>3, <5>1
        <5> QED BY <2>1, <2>2, <2>3, <5>2
      <4>3. Same(c[i], rows[i])
        BY <4>2, SameRow
      <4>4. s[1] = c[i] /\ s[2] = rows[i]
        BY <4>1
      <4> QED BY <4>3, <4>4
    <3> QED BY <2>4, <3>1, <3>2
  <2>15. Replaced' = Replaced \cup {x[2].id : x \in st}
    BY <2>4 DEF Replaced
  <2>16. RowsInv'
    <3>1. cutoff' \cup Replaced' = away
      BY <1>3, <2>15 DEF away
    <3>2. nextId' \in 1..(MaxIds + 1) /\ phase' \in {"idle", "turn", "job", "inline"}
      BY <1>1, <2>1, <2>4, HistoryConstants
    <3> QED BY <1>3, <2>4, <2>13, <2>14, <3>1, <3>2 DEF RowsInv
  <2>17. GuardedStay
    <3> SUFFICES ASSUME NEW i \in Guarded(rows) PROVE \E r \in Range(rows') : Same(r, rows[i])
      BY DEF GuardedStay
    <3>1. i \in DOMAIN rows /\ i \in Nat
      BY <2>5 DEF Guarded
    <3>2. \A k \in 1..(i - 1) : k \in DOMAIN rows
      BY <2>1, <3>1
    <3>3. i \in Guarded(mid)
      <4> HIDE DEF mid
      <4> QED BY <2>5, <3>1, <3>2 DEF Guarded, ProviderVisible
    <3> QED BY <2>5, <2>13, <3>1, <3>3
  <2>18. JobInv' /\ AwaitInv'
    BY <2>4 DEF JobInv, AwaitInv
  <2> QED BY <2>16, <2>17, <2>18 DEF HistInv
<1> QED BY <1>4, <1>5

\* The inline model call answers.
LEMMA InlineEndsHist == HistInv /\ InlineEnds => HistInv' /\ GuardedStay
<1> SUFFICES ASSUME HistInv, InlineEnds PROVE HistInv' /\ GuardedStay
  OBVIOUS
<1> DEFINE sp == SplitForCompaction(rows, TailBudget)
<1>1. phase = "inline" /\ snap = rows /\ job = {} /\ Compactable(sp) /\ nextId <= MaxIds
  BY DEF InlineEnds, HistInv, AwaitInv
<1>2. UNCHANGED <<job, gone, cutoff, twins>> /\ phase' = "turn"
  BY DEF InlineEnds
<1>3. \/ rows' = RebuildCompacted(rows, sp.head, SummaryOf(nextId, sp.middle), sp.tail) /\ nextId' = nextId + 1
      \/ UNCHANGED <<rows, nextId>>
  BY <1>1 DEF InlineEnds
<1>4. JobInv' /\ AwaitInv'
  BY <1>1, <1>2 DEF JobInv, AwaitInv
<1>5. CASE UNCHANGED <<rows, nextId>>
  <2>1. RowsInv' /\ GuardedStay
    BY <1>2, <1>5, RowsStay DEF HistInv
  <2> QED BY <1>4, <2>1 DEF HistInv
<1>6. CASE rows' = RebuildCompacted(rows, sp.head, SummaryOf(nextId, sp.middle), sp.tail) /\ nextId' = nextId + 1
  <2>1. rows \in Seq(StoredRow) /\ DistinctIds(rows) /\ Paired(rows, cutoff) /\ RowsInv /\ Sound(rows, cutoff)
        /\ Accounted(rows, nextId, gone, cutoff \cup Replaced)
    BY DEF HistInv, RowsInv, Sound
  <2>2. \E hp, tp \in Nat : Parts(rows, hp, tp, sp)
    BY <1>1, <2>1, SplitFits
  <2> HIDE DEF sp
  <2>3. PICK hp \in Nat, tp \in Nat : Parts(rows, hp, tp, sp)
    BY <2>2
  <2>4. /\ FirstVisible(rows, hp) /\ tp \in (hp + 1)..(Len(rows) + 1) /\ Middle(rows, hp, tp) # {}
        /\ Ids(sp.head) = IdsAt(rows, Free(rows) \cap (1..hp)) /\ Ids(sp.tail) = IdsAt(rows, Free(rows) \cap (tp..Len(rows)))
        /\ Ids(sp.middle) = IdsAt(rows, Middle(rows, hp, tp)) /\ Covered(sp.middle) = CoveredAt(rows, Middle(rows, hp, tp))
        /\ tp \in DOMAIN rows => tp \in Free(rows) /\ rows[tp].kind # "result"
    BY <2>3 DEF Parts
  <2>5. Untorn(rows, Middle(rows, hp, tp))
    <3> SUFFICES ASSUME NEW i \in DOMAIN rows \ Middle(rows, hp, tp), i > 1, rows[i].kind = "result",
                        i - 1 \in Middle(rows, hp, tp)
                 PROVE  FALSE
      BY DEF Untorn
    <3>1. i \in Nat /\ i - 1 \in (hp + 1)..(tp - 1) /\ i # tp
      BY <2>1, <2>4 DEF Middle
    <3>2. i \in (hp + 1)..(tp - 1)
      BY <2>4, <3>1
    <3>3. i \in Free(rows)
      BY DEF Free, Pinned
    <3> QED BY <3>2, <3>3 DEF Middle
  <2>6. rows = rows \o <<>> /\ <<>> \in Seq(StoredRow)
    BY <2>1, ConcatEmptySeq
  <2> DEFINE new == RebuildCompacted(rows, sp.head, SummaryOf(nextId, sp.middle), sp.tail)
  <2>7. new = new \o <<>>
    <3>1. \E low, high \in Seq(StoredRow) : new = low \o <<SummaryOf(nextId, sp.middle)>> \o high
      <4>1. \A keep : keep \in SUBSET DOMAIN rows => Sublist(rows, keep) \in Seq(StoredRow)
        BY <2>1, SublistType
      <4>2. \E K, L : K \subseteq DOMAIN rows /\ L \subseteq DOMAIN rows
                      /\ new = Sublist(rows, K) \o <<SummaryOf(nextId, sp.middle)>> \o Sublist(rows, L)
        BY DEF RebuildCompacted
      <4> QED BY <4>1, <4>2
    <3>2. PICK low \in Seq(StoredRow), high \in Seq(StoredRow) : new = low \o <<SummaryOf(nextId, sp.middle)>> \o high
      BY <3>1
    <3> DEFINE T == StoredRow \cup {SummaryOf(nextId, sp.middle)}
               one == <<SummaryOf(nextId, sp.middle)>>
    <3>3. low \in Seq(T) /\ high \in Seq(T) /\ one \in Seq(T)
      <4>1. low \in Seq(T) /\ high \in Seq(T)
        OBVIOUS
      <4> QED BY <4>1
    <3> HIDE DEF T, new
    <3>4. (low \o one) \o high \in Seq(T)
      BY <3>3, ConcatProperties
    <3>5. new \in Seq(T)
      BY <3>2, <3>4
    <3> QED BY <3>5, ConcatEmptySeq
  <2>8. rows' = new \o <<>>
    BY <1>6, <2>7
  <2>9. /\ Sound(rows', cutoff) /\ Accounted(rows', nextId + 1, gone, cutoff \cup Replaced)
        /\ \A i \in Guarded(rows) : rows[i] \in Range(rows')
    <3> HIDE DEF new
    <3>1. Sound(rows \o <<>>, cutoff) /\ Accounted(rows \o <<>>, nextId, gone, cutoff \cup Replaced)
          /\ Untorn(rows \o <<>>, Middle(rows, hp, tp))
      BY <2>1, <2>5, <2>6
    <3>2. /\ Sound(new \o <<>>, cutoff) /\ Accounted(new \o <<>>, nextId + 1, gone, cutoff \cup Replaced)
          /\ \A i \in Guarded(rows \o <<>>) : (rows \o <<>>)[i] \in Range(new \o <<>>)
      BY <2>1, <2>4, <2>6, <3>1, CompactionHist DEF new
    <3> QED BY <2>6, <2>8, <3>2
  <2>10. RowsInv'
    <3>1. nextId' \in 1..(MaxIds + 1) /\ phase' \in {"idle", "turn", "job", "inline"} /\ nextId' = nextId + 1
      BY <1>1, <1>2, <1>6, <2>1, HistoryConstants DEF RowsInv
    <3> QED BY <1>2, <2>1, <2>9, <3>1 DEF RowsInv, Replaced
  <2>11. GuardedStay
    <3>1. \A x \in Range(rows') : x.id \in Ids(rows')
      BY DEF Range, Ids
    <3>2. \A i \in Guarded(rows) : rows[i].id \in Ids(rows')
      BY <2>9, <3>1
    <3> QED BY <3>2 DEF GuardedStay
  <2> QED BY <1>4, <2>10, <2>11 DEF HistInv
<1> QED BY <1>3, <1>5, <1>6

\* The rows the load limit keeps: whatever is older than a request it drops is a
\* verdict.
LEMMA LimitKeeps ==
    ASSUME NEW s \in Seq(StoredRow), NEW max \in Nat, ~(Len(s) <= max)
    PROVE  \E keep \in SUBSET DOMAIN s :
               /\ TruncatePreservingPins(s, max) = Sublist(s, keep)
               /\ \A d \in DOMAIN s : ~Pinned(s[d]) /\ d \notin keep => \A m \in keep : m < d => Pinned(s[m])
<1> DEFINE pins == {i \in DOMAIN s : Pinned(s[i])}
           acc  == DOMAIN s \ pins
           room == IF max > Cardinality(pins) THEN max - Cardinality(pins) ELSE 0
           stay == pins \cup {i \in acc : Cardinality({j \in acc : j > i}) < room}
           drop == {i \in pins : Cardinality({j \in pins : j < i}) < Cardinality(stay) - max}
           last == IF Cardinality(stay) > max THEN stay \ drop ELSE stay
<1>1. TruncatePreservingPins(s, max) = Sublist(s, last)
  BY DEF TruncatePreservingPins
<1>2. DOMAIN s = 1..Len(s) /\ Len(s) \in Nat /\ IsFiniteSet(DOMAIN s)
  BY FS_Interval
<1>3. Cardinality(pins) \in Nat
  BY <1>2, FS_Subset, FS_CardinalityType
<1>4. room \in Nat
  BY <1>3
<1>5. \A i \in DOMAIN s : ~Pinned(s[i]) => (i \in last <=> Cardinality({j \in acc : j > i}) < room)
  OBVIOUS
<1>6. last \in SUBSET DOMAIN s
  OBVIOUS
<1> HIDE DEF last, room
<1>7. ASSUME NEW d \in DOMAIN s, ~Pinned(s[d]), d \notin last, NEW m \in last, m < d PROVE Pinned(s[m])
  <2> DEFINE A == {j \in acc : j > d}
             B == {j \in acc : j > m}
  <2>1. m \in DOMAIN s /\ m \in Nat /\ d \in Nat
    BY <1>2, <1>6
  <2>2. A \subseteq B
    BY <1>2, <1>7, <2>1
  <2>3. IsFiniteSet(B)
    BY <1>2, FS_Subset
  <2>4. Cardinality(A) \in Nat /\ Cardinality(B) \in Nat /\ Cardinality(A) <= Cardinality(B)
    BY <2>2, <2>3, FS_Subset, FS_CardinalityType
  <2>5. ~(Cardinality(A) < room)
    BY <1>5, <1>7
  <2>6. ~Pinned(s[m]) => Cardinality(B) < room
    BY <1>5, <2>1
  <2> HIDE DEF A, B
  <2> QED BY <1>4, <2>4, <2>5, <2>6
<1> QED BY <1>1, <1>6, <1>7

\* The load limit cuts the thread.
LEMMA LoadMaxHist == HistInv /\ LoadMaxSafety => HistInv' /\ GuardedStay
<1> SUFFICES ASSUME HistInv, LoadMaxSafety PROVE HistInv' /\ GuardedStay
  OBVIOUS
<1>1. /\ rows' = TruncatePreservingPins(rows, LoadMax) /\ Len(rows) > LoadMax /\ phase = "turn"
      /\ cutoff' = cutoff \cup (Ids(rows) \ Ids(rows')) \cup (Covered(rows) \ Covered(rows'))
      /\ UNCHANGED <<nextId, job, phase, snap, gone, twins>>
  BY DEF LoadMaxSafety
<1>2. rows \in Seq(StoredRow) /\ DistinctIds(rows) /\ Sound(rows, cutoff) /\ nextId \in Nat
      /\ Ids(rows) \cup Covered(rows) \cup gone \cup (cutoff \cup Replaced) = 1..(nextId - 1) /\ Ids(rows) \cap gone = {}
  BY DEF HistInv, RowsInv, Sound, Accounted
<1>3. LoadMax \in Nat /\ ~(Len(rows) <= LoadMax)
  BY <1>1, <1>2, HistoryConstants
<1>4. PICK keep \in SUBSET DOMAIN rows :
        /\ TruncatePreservingPins(rows, LoadMax) = Sublist(rows, keep)
        /\ \A d \in DOMAIN rows : ~Pinned(rows[d]) /\ d \notin keep => \A m \in keep : m < d => Pinned(rows[m])
  BY <1>2, <1>3, LimitKeeps
<1>5. rows' = Sublist(rows, keep)
  BY <1>1, <1>4
<1>6. /\ Ids(rows') = IdsAt(rows, keep) /\ Covered(rows') = CoveredAt(rows, keep)
      /\ \A k \in DOMAIN rows' : \E i \in keep : rows'[k] = rows[i]
  BY <1>2, <1>5, SublistParts
<1>7. \A i \in keep : rows[i].kind = "result" /\ i > 1 /\ rows[i - 1].kind = "call" /\ rows[i - 1].id = rows[i].of
               => \/ i - 1 \in keep
                  \/ rows[i].of \in cutoff' /\ \A m \in keep : m < i => Pinned(rows[m])
  <2> SUFFICES ASSUME NEW i \in keep, rows[i].kind = "result", i > 1, rows[i - 1].kind = "call", rows[i - 1].id = rows[i].of,
                      i - 1 \notin keep
               PROVE  rows[i].of \in cutoff' /\ \A m \in keep : m < i => Pinned(rows[m])
    OBVIOUS
  <2>1. i \in Nat /\ i - 1 \in DOMAIN rows /\ ~Pinned(rows[i - 1])
    <3>1. i \in DOMAIN rows
      OBVIOUS
    <3>2. i \in Nat /\ i - 1 \in DOMAIN rows
      BY <1>2, <3>1
    <3> QED BY <3>2 DEF Pinned
  <2>2. \A m \in keep : m < i - 1 => Pinned(rows[m])
    BY <1>4, <2>1
  <2>3. \A m \in keep : m < i => m < i - 1
    <3> SUFFICES ASSUME NEW m \in keep, m < i PROVE m < i - 1
      OBVIOUS
    <3>1. m \in DOMAIN rows /\ m # i - 1
      OBVIOUS
    <3>2. m \in Nat
      BY <1>2, <3>1
    <3> QED BY <2>1, <3>1, <3>2
  <2>4. rows[i].of \in Ids(rows)
    BY <2>1 DEF Ids
  <2>5. rows[i].of \notin Ids(rows')
    <3>1. ASSUME NEW k \in keep, rows[k].id = rows[i - 1].id PROVE FALSE
      <4>1. k \in DOMAIN rows
        OBVIOUS
      <4>2. k = i - 1
        BY <1>2, <2>1, <3>1, <4>1 DEF DistinctIds
      <4> QED BY <4>2
    <3> QED BY <1>6, <3>1 DEF IdsAt
  <2> QED BY <1>1, <2>2, <2>3, <2>4, <2>5
<1>8. Sound(rows', cutoff')
  <2>1. cutoff \subseteq cutoff'
    BY <1>1
  <2>2. Sound(Sublist(rows, keep), cutoff')
    BY <1>2, <1>7, <2>1, SublistSound
  <2> QED BY <1>5, <2>2
<1>9. Ids(rows') \subseteq Ids(rows) /\ Covered(rows') \subseteq Covered(rows)
  BY <1>6 DEF IdsAt, CoveredAt, Ids, Covered
<1>10. RowsInv'
  <2>1. Accounted(rows', nextId', gone', cutoff' \cup Replaced')
    <3>1. Ids(rows') \cap gone' = {}
      BY <1>1, <1>2, <1>9
    <3>2. Ids(rows') \cup Covered(rows') \cup gone' \cup (cutoff' \cup Replaced') = 1..(nextId' - 1)
      BY <1>1, <1>2, <1>9 DEF Replaced
    <3> QED BY <3>1, <3>2 DEF Accounted
  <2> QED BY <1>1, <1>8, <2>1 DEF HistInv, RowsInv
<1>11. JobInv'
  <2>1. rows' \in Seq(StoredRow) /\ nextId' \in Nat /\ nextId <= nextId' /\ job' = job
    BY <1>1, <1>2, <1>8 DEF Sound
  <2>2. \A k \in DOMAIN rows' : \E i \in DOMAIN rows : i >= k /\ rows'[k] = rows[i]
    <3>1. \A k \in DOMAIN Sublist(rows, keep) : /\ Place(keep, k) \in keep
                                                /\ Sublist(rows, keep)[k] = rows[Place(keep, k)]
                                                /\ Place(keep, k) >= k
      BY <1>2, SublistElements, SublistLeft
    <3> QED BY <1>5, <3>1
  <2>3. Follows(rows', rows, nextId)
    BY <2>2 DEF Follows, Alike
  <2> QED BY <2>1, <2>3, JobInvStays DEF HistInv
<1>12. AwaitInv'
  BY <1>1 DEF AwaitInv
<1>13. GuardedStay
  <2>1. \A i \in DOMAIN rows : rows[i].id \in Ids(rows)
    BY DEF Ids
  <2>2. \A i \in Guarded(rows) : i \in DOMAIN rows
    BY DEF Guarded
  <2> QED BY <1>1, <2>1, <2>2 DEF GuardedStay
<1> QED BY <1>10, <1>11, <1>12, <1>13 DEF HistInv

\* Where a rewind cuts.
LEMMA RewindFits ==
    ASSUME NEW s \in Seq(StoredRow), NEW i \in DOMAIN s
    PROVE  RewindEnd(s, i) \in 1..Len(s)
<1>1. DOMAIN s = 1..Len(s) /\ Len(s) \in Nat
  OBVIOUS
<1> DEFINE E == {e \in i..Len(s) : \A j \in (i + 1)..e : s[j].kind # "user"}
<1>2. E \in SUBSET (1..Len(s))
  BY <1>1
<1>3. i \in E
  BY <1>1
<1>4. Max(E) \in E
  <2> HIDE DEF E
  <2>1. E # {}
    BY <1>3
  <2> QED BY <1>1, <1>2, <2>1, Largest
<1> HIDE DEF E
<1> QED BY <1>1, <1>2, <1>4 DEF RewindEnd, E

\* The rows behind the last summary are none.
LEMMA NoSummaryBehind ==
    ASSUME NEW s \in Seq(StoredRow), NEW e \in 1..Len(s), KeepsSummary(s, e)
    PROVE  \A k \in DOMAIN s : k > e => s[k].kind # "summary"
<1> SUFFICES ASSUME NEW k \in DOMAIN s, k > e, s[k].kind = "summary" PROVE FALSE
  OBVIOUS
<1> DEFINE S == {i \in DOMAIN s : s[i].kind = "summary"}
<1>1. S \in SUBSET (1..Len(s)) /\ Len(s) \in Nat /\ k \in S /\ S # {}
  OBVIOUS
<1>2. LastSummary(s) = Max(S)
  BY <1>1 DEF LastSummary
<1> HIDE DEF S
<1>3. Max(S) \in S /\ k <= Max(S)
  BY <1>1, Largest
<1>4. Max(S) \in 1..Len(s)
  BY <1>1, <1>3
<1>5. Max(S) <= e
  BY <1>2 DEF KeepsSummary
<1> QED BY <1>3, <1>4, <1>5

\* The user rewinds.
LEMMA TruncateHist == HistInv /\ TruncateActive => HistInv' /\ GuardedStay
<1> SUFFICES ASSUME HistInv, TruncateActive PROVE HistInv' /\ GuardedStay
  OBVIOUS
<1>1. UNCHANGED <<nextId, job, phase, snap, cutoff, twins>> /\ phase = "idle"
  BY DEF TruncateActive
<1>2. PICK i \in DOMAIN rows :
        LET end == RewindEnd(rows, i)
        IN  /\ KeepsSummary(rows, end) /\ end < Len(rows)
            /\ ~SplitsToolPair(rows, end)
            /\ rows' = SubSeq(rows, 1, end)
            /\ gone' = gone \cup Ids(SubSeq(rows, end + 1, Len(rows)))
  BY DEF TruncateActive
<1> DEFINE e == RewindEnd(rows, i)
           q == SubSeq(rows, e + 1, Len(rows))
<1>3. /\ KeepsSummary(rows, e) /\ e < Len(rows) /\ rows' = SubSeq(rows, 1, e) /\ gone' = gone \cup Ids(q)
  BY <1>2
<1>4. /\ rows \in Seq(StoredRow) /\ DistinctIds(rows) /\ Sound(rows, cutoff) /\ nextId \in Nat /\ PlainCovers(rows)
      /\ Ids(rows) \cup Covered(rows) \cup gone \cup (cutoff \cup Replaced) = 1..(nextId - 1) /\ Ids(rows) \cap gone = {}
  BY DEF HistInv, RowsInv, Sound, Accounted
<1>5. e \in 1..Len(rows) /\ e \in 0..Len(rows) /\ Len(rows) \in Nat /\ DOMAIN rows = 1..Len(rows)
  BY <1>4, RewindFits
<1> HIDE DEF e
<1>6. Sound(rows', cutoff) /\ DOMAIN rows' = 1..e /\ \A k \in 1..e : rows'[k] = rows[k]
  BY <1>3, <1>4, <1>5, PrefixSound
<1>7. Ids(q) = IdsAt(rows, (e + 1)..Len(rows))
  <2>1. DOMAIN q = 1..(Len(rows) - e) /\ \A k \in 1..(Len(rows) - e) : q[k] = rows[e + k]
    BY <1>3, <1>4, <1>5
  <2>2. \A k \in DOMAIN q : e + k \in (e + 1)..Len(rows) /\ q[k] = rows[e + k]
    BY <1>5, <2>1
  <2>3. \A k \in (e + 1)..Len(rows) : k - e \in DOMAIN q /\ q[k - e] = rows[k]
    BY <1>5, <2>1
  <2> HIDE DEF q
  <2> QED BY <2>2, <2>3 DEF Ids, IdsAt
<1> HIDE DEF q
<1>8. \A k \in DOMAIN rows : k \in 1..e \/ k \in (e + 1)..Len(rows)
  BY <1>5
<1>9. \A k \in 1..e : k \in DOMAIN rows
  BY <1>5
<1>10. \A k \in (e + 1)..Len(rows) : k \in DOMAIN rows /\ k \notin 1..e /\ k > e
  BY <1>5
<1>11. Ids(rows) = Ids(rows') \cup Ids(q)
  BY <1>6, <1>7, <1>8, <1>9, <1>10 DEF Ids, IdsAt
<1>12. Ids(rows') \cap Ids(q) = {}
  <2> SUFFICES ASSUME NEW x \in Ids(rows'), x \in Ids(q) PROVE FALSE
    OBVIOUS
  <2>1. PICK k \in 1..e : x = rows[k].id
    BY <1>6 DEF Ids
  <2>2. PICK l \in (e + 1)..Len(rows) : x = rows[l].id
    BY <1>7 DEF IdsAt
  <2>3. k \in DOMAIN rows /\ l \in DOMAIN rows /\ l \notin 1..e
    BY <1>9, <1>10
  <2>4. k = l
    BY <1>4, <2>1, <2>2, <2>3 DEF DistinctIds
  <2> QED BY <2>3, <2>4
<1>13. Covered(rows') = Covered(rows)
  <2>1. \A k \in (e + 1)..Len(rows) : rows[k].covers = {}
    BY <1>3, <1>4, <1>5, <1>10, NoSummaryBehind DEF PlainCovers
  <2>2. \A x : (\E k \in DOMAIN rows' : x \in rows'[k].covers) <=> (\E k \in DOMAIN rows : x \in rows[k].covers)
    BY <1>6, <1>8, <1>9, <2>1
  <2> QED BY <2>2 DEF Covered
<1>14. RowsInv'
  <2>1. Accounted(rows', nextId', gone', cutoff' \cup Replaced')
    <3>1. Ids(rows') \cap gone' = {}
      BY <1>3, <1>4, <1>11, <1>12
    <3>2. Ids(rows') \cup Covered(rows') \cup gone' \cup (cutoff' \cup Replaced') = 1..(nextId' - 1)
      BY <1>1, <1>3, <1>4, <1>11, <1>13 DEF Replaced
    <3> QED BY <3>1, <3>2 DEF Accounted
  <2> QED BY <1>1, <1>6, <2>1 DEF HistInv, RowsInv
<1>15. JobInv'
  <2>1. rows' \in Seq(StoredRow) /\ nextId' \in Nat /\ nextId <= nextId' /\ job' = job
    BY <1>1, <1>4, <1>6 DEF Sound
  <2>2. \A k \in 1..e : k >= k /\ k \in DOMAIN rows
    BY <1>5
  <2>3. Follows(rows', rows, nextId)
    BY <1>6, <2>2 DEF Follows, Alike
  <2> QED BY <2>1, <2>3, JobInvStays DEF HistInv
<1>16. AwaitInv'
  BY <1>1 DEF AwaitInv
<1>17. GuardedStay
  <2>1. \A k \in DOMAIN rows : rows[k].id \in Ids(rows') \cup gone'
    <3>1. \A k \in DOMAIN rows : rows[k].id \in Ids(rows)
      BY DEF Ids
    <3> QED BY <1>3, <1>11, <3>1
  <2>2. \A k \in Guarded(rows) : k \in DOMAIN rows
    BY DEF Guarded
  <2> QED BY <2>1, <2>2 DEF GuardedStay
<1> QED BY <1>14, <1>15, <1>16, <1>17 DEF HistInv

\* An empty thread.
LEMMA HistInitInv == HistInit => HistInv
<1> SUFFICES ASSUME HistInit PROVE HistInv
  OBVIOUS
<1>1. rows = <<>> /\ nextId = 1 /\ job = {} /\ phase = "idle" /\ gone = {} /\ cutoff = {} /\ twins = {} /\ Replaced = {}
  BY DEF HistInit, Replaced
<1>2. DOMAIN rows = {} /\ rows \in Seq(StoredRow)
  BY <1>1
<1>3. Ids(rows) = {} /\ Covered(rows) = {}
  BY <1>2 DEF Ids, Covered
<1>4. Sound(rows, cutoff)
  BY <1>2, <1>3 DEF Sound, DistinctIds, Sorted, PlainCovers, CoversApart, Paired
<1>5. Accounted(rows, nextId, gone, cutoff \cup Replaced)
  <2>1. 1..(nextId - 1) = {}
    BY <1>1
  <2> QED BY <1>1, <1>3, <2>1 DEF Accounted
<1>6. nextId \in 1..(MaxIds + 1)
  BY <1>1, HistoryConstants
<1>7. RowsInv
  BY <1>1, <1>4, <1>5, <1>6 DEF RowsInv
<1>8. AwaitInv /\ JobInv
  BY <1>1 DEF AwaitInv, JobInv
<1> QED BY <1>7, <1>8 DEF HistInv

\* Every step of the thread.
LEMMA HistNextInv == HistInv /\ HistNext => HistInv' /\ GuardedStay
<1> SUFFICES ASSUME HistInv, HistNext PROVE HistInv' /\ GuardedStay
  OBVIOUS
<1>1. CASE StartTurn
  BY <1>1, StartTurnHist
<1>2. CASE AppendBatch
  BY <1>2, AppendBatchHist
<1>3. CASE EndTurn
  BY <1>3, EndTurnHist
<1>4. ASSUME NEW k \in {"reply", "pin", "ui"}, AppendRow(k) PROVE HistInv' /\ GuardedStay
  BY <1>4, AppendRowHist
<1>5. CASE MaybeStart
  BY <1>5, MaybeStartHist
<1>6. CASE JobEnds
  BY <1>6, JobEndsHist
<1>7. CASE Compact
  BY <1>7, CompactHist
<1>8. CASE ApplyJob
  BY <1>8, ApplyJobHist
<1>9. CASE InlineEnds
  BY <1>9, InlineEndsHist
<1>10. CASE CancelCompaction
  BY <1>10, CancelHist
<1>11. CASE LoadMaxSafety
  BY <1>11, LoadMaxHist
<1>12. CASE TruncateActive
  BY <1>12, TruncateHist
<1> QED BY <1>1, <1>2, <1>3, <1>4, <1>5, <1>6, <1>7, <1>8, <1>9, <1>10, <1>11, <1>12 DEF HistNext

\* And a step of anything else.
LEMMA HistStepInv == HistInv /\ [HistNext]_histVars => HistInv'
<1>1. HistInv /\ UNCHANGED histVars => HistInv'
  BY DEF HistInv, RowsInv, AwaitInv, JobInv, Replaced, histVars
<1> QED BY <1>1, HistNextInv

\* What the invariant says of the rows.
LEMMA HistInvSafe == HistInv => CompactionSafe
<1> SUFFICES ASSUME HistInv PROVE CompactionSafe
  OBVIOUS
<1>1. /\ Sound(rows, cutoff) /\ Accounted(rows, nextId, gone, cutoff \cup Replaced) /\ rows \in Seq(StoredRow)
      /\ \A s \in twins : Same(s[1], s[2])
  BY DEF HistInv, RowsInv, Sound
<1>2. RowsAccounted
  BY <1>1 DEF RowsAccounted, Sound, Accounted, CoversApart, Replaced
<1>3. OrderKept
  BY <1>1 DEF OrderKept, Sound, Sorted
<1>4. PairsKept
  <2> SUFFICES ASSUME NEW k \in DOMAIN rows, rows[k].kind = "result" PROVE rows[k].of \in Requests(rows) \cup cutoff
    BY DEF PairsKept, Responses
  <2>1. CASE k > 1 /\ rows[k - 1].kind = "call" /\ rows[k - 1].id = rows[k].of
    <3>1. k - 1 \in DOMAIN rows
      BY <1>1, <2>1
    <3> QED BY <2>1, <3>1 DEF Requests
  <2> QED BY <1>1, <2>1 DEF Sound, Paired
<1> QED BY <1>2, <1>3, <1>4 DEF CompactionSafe

\* A thread stays in the invariant, whatever else the conversation does.
LEMMA HistAlways == ConversationSpec => []HistInv
<1>1. ConversationInit => HistInv
  BY HistInitInv DEF ConversationInit
<1>2. HistInv /\ [ConversationNext]_conversationVars => HistInv'
  <2>1. [ConversationNext]_conversationVars => [HistNext]_histVars
    BY DEF ConversationNext, conversationVars
  <2> QED BY <2>1, HistStepInv
<1> QED BY <1>1, <1>2, PTL DEF ConversationSpec

\* Compaction loses no row, brings none back, keeps the order and the pairs.
THEOREM CompactionSafety == ConversationSpec => []CompactionSafe
BY HistAlways, HistInvSafe, PTL

\* The row of the goal and every verdict outlive every step that is not the user's
\* own truncate or the load limit.
THEOREM PinsSafety == ConversationSpec => GoalAndPinsKept
<1> DEFINE Outlives ==
      \A i \in DOMAIN rows :
          rows[i].kind = "pin" \/ (ProviderVisible(rows[i]) /\ ~\E k \in 1..(i - 1) : ProviderVisible(rows[k])) =>
              \/ rows[i].id \in Ids(rows') \cup gone' \cup cutoff'
              \/ \E r \in Range(rows') : Same(r, rows[i])
<1>1. HistInv /\ [ConversationNext]_conversationVars => [Outlives]_histVars
  <2>1. [ConversationNext]_conversationVars => [HistNext]_histVars
    BY DEF ConversationNext, conversationVars
  <2>2. GuardedStay => Outlives
    BY DEF GuardedStay, Guarded
  <2> HIDE DEF Outlives
  <2> QED BY <2>1, <2>2, HistNextInv
<1>2. ConversationSpec => [][Outlives]_histVars
  BY <1>1, HistAlways, PTL DEF ConversationSpec
<1> QED BY <1>2 DEF GoalAndPinsKept

-----------------------------------------------------------------------------
(* The types.  A branch is opened under the number of those there are, so   *)
(* the records list each branch once and no branch is opened over another.  *)

\* A row of a branch: nothing there has a verdict or a tool call.
BranchRow ==
    {r \in [id : 1..MaxBranchIds, kind : {"user", "reply", "summary"}, of : {0}, says : 1..MaxBranchIds,
             media : {"none"}, about : {0}, tok : {1}, covers : SUBSET (1..MaxBranchIds)] :
        r.kind = "summary" => r.says = r.id}

\* The numbers from 0 on, each once.
Listed(q) == (\A i, k \in DOMAIN q : q[i] = q[k] => i = k) /\ Range(q) = 0..(Len(q) - 1)

\* The inductive invariant of the branches.
BranchInv ==
    /\ thread \in [Branches -> Seq(BranchRow)] /\ parent \in [Branches -> Branches] /\ forkRow \in [Branches -> 0..MaxBranchIds]
    /\ recent \in Seq(Branches) /\ Listed(recent) /\ active \in Branches /\ nextRow \in 1..(MaxBranchIds + 1)

\* A branch that is used moves to the end of the list.
LEMMA TouchedFits ==
    ASSUME NEW q \in Seq(Branches), Listed(q), NEW b
    PROVE  Touched(q, b) \in Seq(Branches) /\ Listed(Touched(q, b))
<1>1. CASE b \notin Range(q)
  BY <1>1 DEF Touched
<1>2. CASE b \in Range(q)
  <2> DEFINE keep == {i \in DOMAIN q : q[i] # b}
             s == Sublist(q, keep)
             t == Append(s, b)
  <2>1. DOMAIN q = 1..Len(q) /\ Len(q) \in Nat
    OBVIOUS
  <2>2. PICK p \in DOMAIN q : q[p] = b
    BY <1>2 DEF Range
  <2>3. b \in Branches /\ b \in 0..(Len(q) - 1)
    <3>1. b \in Range(q) /\ Range(q) = 0..(Len(q) - 1)
      BY <1>2 DEF Listed
    <3> QED BY <2>2, <3>1
  <2>4. keep = DOMAIN q \ {p}
    BY <2>2 DEF Listed
  <2>5. Cardinality(keep) = Len(q) - 1
    <3>1. IsFiniteSet(1..Len(q)) /\ Cardinality(1..Len(q)) = Len(q)
      <4>1. Cardinality(1..Len(q)) = IF 1 > Len(q) THEN 0 ELSE Len(q) - 1 + 1
        BY <2>1, FS_Interval
      <4>2. IsFiniteSet(1..Len(q))
        BY <2>1, FS_Interval
      <4> QED BY <2>1, <4>1, <4>2
    <3>2. Cardinality((1..Len(q)) \ {p}) = Cardinality(1..Len(q)) - 1
      BY <2>1, <2>2, <3>1, FS_RemoveElement
    <3> QED BY <2>1, <2>4, <3>1, <3>2
  <2>6. keep \in SUBSET DOMAIN q
    OBVIOUS
  <2>7. /\ s \in Seq(Branches) /\ Len(s) = Len(q) - 1 /\ DOMAIN s = 1..(Len(q) - 1)
    <3> HIDE DEF keep
    <3> QED BY <2>5, <2>6, SublistType
  <2>8. /\ \A k \in DOMAIN s : Place(keep, k) \in keep /\ s[k] = q[Place(keep, k)]
        /\ \A i \in keep : \E k \in DOMAIN s : Place(keep, k) = i /\ s[k] = q[i]
        /\ \A k, l \in DOMAIN s : k < l => Place(keep, k) < Place(keep, l)
    <3> HIDE DEF keep
    <3>1. /\ \A k \in DOMAIN Sublist(q, keep) : Place(keep, k) \in keep /\ Sublist(q, keep)[k] = q[Place(keep, k)]
          /\ \A i \in keep : \E k \in DOMAIN Sublist(q, keep) : Place(keep, k) = i /\ Sublist(q, keep)[k] = q[i]
      BY <2>6, SublistElements
    <3>2. \A k, l \in DOMAIN Sublist(q, keep) : k < l => Place(keep, k) < Place(keep, l)
      BY <2>6, SublistOrder
    <3> QED BY <3>1, <3>2
  <2> HIDE DEF s
  <2>9. /\ t \in Seq(Branches) /\ DOMAIN t = 1..Len(q) /\ Len(t) = Len(q) /\ t[Len(q)] = b
        /\ \A k \in 1..(Len(q) - 1) : t[k] = s[k]
    <3>1. /\ t \in Seq(Branches) /\ DOMAIN t = 1..(Len(s) + 1) /\ Len(t) = Len(s) + 1 /\ t[Len(s) + 1] = b
          /\ \A k \in 1..Len(s) : t[k] = s[k]
      BY <2>3, <2>7, Pushed
    <3>2. Len(s) + 1 = Len(q) /\ Len(s) = Len(q) - 1
      BY <2>1, <2>7
    <3> HIDE DEF t
    <3> QED BY <3>1, <3>2
  <2>10. \A k \in DOMAIN s : Place(keep, k) \in Nat /\ Place(keep, k) \in DOMAIN q /\ s[k] # b
    BY <2>1, <2>8
  <2>11. \A i, k \in DOMAIN s : s[i] = s[k] => i = k
    <3> SUFFICES ASSUME NEW i \in DOMAIN s, NEW k \in DOMAIN s, s[i] = s[k] PROVE i = k
      OBVIOUS
    <3>1. Place(keep, i) = Place(keep, k)
      BY <2>8, <2>10 DEF Listed
    <3>2. ~(i < k) /\ ~(k < i)
      BY <2>8, <2>10, <3>1
    <3>3. i \in Nat /\ k \in Nat
      BY <2>1, <2>7
    <3> QED BY <3>2, <3>3
  <2> HIDE DEF keep, t
  <2>12. \A i, k \in DOMAIN t : t[i] = t[k] => i = k
    <3>1. \A i \in DOMAIN t : i = Len(q) \/ i \in DOMAIN s
      BY <2>1, <2>7, <2>9
    <3>2. \A i \in DOMAIN s : t[i] # b /\ t[i] = s[i]
      BY <2>7, <2>9, <2>10
    <3> QED BY <2>9, <2>11, <3>1, <3>2
  <2>13. \A x : x \in Range(t) <=> x \in Range(q)
    <3>1. ASSUME NEW k \in DOMAIN t PROVE \E i \in DOMAIN q : t[k] = q[i]
      <4>1. k = Len(q) \/ k \in DOMAIN s
        BY <2>1, <2>7, <2>9
      <4>2. k \in DOMAIN s => t[k] = q[Place(keep, k)] /\ Place(keep, k) \in DOMAIN q
        BY <2>7, <2>8, <2>9, <2>10
      <4> QED BY <2>2, <2>9, <4>1, <4>2
    <3>2. ASSUME NEW i \in DOMAIN q PROVE \E k \in DOMAIN t : t[k] = q[i]
      <4>1. CASE i = p
        BY <2>1, <2>2, <2>9, <4>1
      <4>2. CASE i # p
        <5>1. i \in keep
          BY <2>4, <4>2
        <5>2. PICK k \in DOMAIN s : s[k] = q[i]
          BY <2>8, <5>1
        <5> QED BY <2>1, <2>7, <2>9, <5>2
      <4> QED BY <4>1, <4>2
    <3> QED BY <3>1, <3>2 DEF Range
  <2>14. Range(t) = Range(q)
    BY <2>13
  <2>15. Touched(q, b) = t
    BY <1>2 DEF Touched, t, s, keep
  <2> QED BY <2>9, <2>12, <2>14, <2>15 DEF Listed
<1> QED BY <1>1, <1>2

\* The records are as many as the list is long.
LEMMA ListedMany ==
    ASSUME NEW q \in Seq(Branches), Listed(q)
    PROVE  Cardinality(Range(q)) = Len(q)
<1>1. Range(q) = 0..(Len(q) - 1) /\ Len(q) \in Nat
  BY DEF Listed
<1>2. Cardinality(0..(Len(q) - 1)) = IF 0 > Len(q) - 1 THEN 0 ELSE Len(q) - 1 - 0 + 1
  BY <1>1, FS_Interval
<1> QED BY <1>1, <1>2

\* A prefix of the rows of a branch.
LEMMA BranchPrefix ==
    ASSUME NEW s \in Seq(BranchRow), NEW e \in 0..Len(s)
    PROVE  SubSeq(s, 1, e) \in Seq(BranchRow)
<1>1. e \in Int /\ \A i \in 1..e : s[i] \in BranchRow
  OBVIOUS
<1> QED BY <1>1, SubSeqProperties

\* A turn writes one row or two.
LEMMA TurnBranch ==
    ASSUME BranchInv, NEW withReply \in BOOLEAN, Turn(withReply)
    PROVE  BranchInv'
<1> DEFINE n  == IF withReply THEN 2 ELSE 1
           r1 == Row(nextRow, "user")
           r2 == Row(nextRow + 1, "reply")
           new == SubSeq(<<r1, r2>>, 1, n)
<1>1. /\ nextRow + n - 1 <= MaxBranchIds /\ thread' = [thread EXCEPT ![active] = @ \o new] /\ nextRow' = nextRow + n
      /\ recent' = Touched(recent, active) /\ UNCHANGED <<parent, forkRow, active>>
  BY DEF Turn
<1>2. thread \in [Branches -> Seq(BranchRow)] /\ active \in Branches /\ nextRow \in 1..(MaxBranchIds + 1) /\ MaxBranchIds \in Nat
  BY BranchConstants DEF BranchInv
<1>3. nextRow \in 1..MaxBranchIds /\ nextRow + n \in 1..(MaxBranchIds + 1) /\ (withReply => nextRow + 1 \in 1..MaxBranchIds)
  BY <1>1, <1>2
<1>4. r1 \in BranchRow /\ (withReply => r2 \in BranchRow)
  BY <1>3 DEF Row, BranchRow
<1> HIDE DEF r1, r2
<1>5. n \in Int /\ \A i \in 1..n : <<r1, r2>>[i] \in BranchRow
  BY <1>4
<1>6. new \in Seq(BranchRow)
  <2> HIDE DEF n
  <2> QED BY <1>5, SubSeqProperties
<1> HIDE DEF new, n
<1>7. thread' \in [Branches -> Seq(BranchRow)]
  <2>1. thread[active] \o new \in Seq(BranchRow)
    BY <1>2, <1>6
  <2> QED BY <1>1, <1>2, <2>1
<1>8. recent' \in Seq(Branches) /\ Listed(recent')
  BY <1>1, TouchedFits DEF BranchInv
<1> QED BY <1>1, <1>3, <1>7, <1>8 DEF BranchInv

\* Where the tail of a compaction may begin when nothing is a response.
LEMMA PlainTailStart ==
    ASSUME NEW ms \in Seq(BranchRow), NEW h \in 1..Len(ms), NEW budget
    PROVE  TailStart(ms, h, budget) \in (h + 1)..(Len(ms) + 1)
<1> DEFINE n == Len(ms)
           Fits(j) ==
             LET newer == SubSeq(ms, j + 1, n)
                 seen  == {i \in DOMAIN newer : ProviderVisible(newer[i])}
             IN  /\ n - j < n - h - 1
                 /\ ProviderVisible(ms[j]) =>
                        Cardinality(seen) < KeepTailMin \/ TailTokens(newer) + ms[j].tok <= budget
           S      == {s \in (h + 1)..(n + 1) : \A j \in s..n : Fits(j)}
           start  == Min(S)
           tail   == SubSeq(ms, start, n)
           owed   == Responses(tail) \ Requests(tail)
           owners == {i \in 1..(start - 1) : ms[i].kind = "call" /\ ms[i].id \in owed}
<1>1. TailStart(ms, h, budget) = IF owed # {} /\ owed = {ms[i].id : i \in owners} THEN Min(owners) ELSE start
  BY DEF TailStart
<1>n. n \in Nat /\ h \in Nat \ {0} /\ h <= n /\ DOMAIN ms = 1..n
  OBVIOUS
<1> HIDE DEF Fits
<1>2. start \in (h + 1)..(n + 1)
  <2>1. n + 1 \in S
    BY <1>n
  <2>2. S \subseteq Nat
    BY <1>n
  <2>3. start \in S
    BY <2>1, <2>2, Smallest
  <2> QED BY <2>3
<1> HIDE DEF S, start
<1>3. tail \in Seq(BranchRow)
  <2>1. start \in Int /\ n \in Int /\ \A i \in start..n : ms[i] \in BranchRow
    BY <1>n, <1>2
  <2> HIDE DEF n
  <2> QED BY <2>1, SubSeqProperties
<1> HIDE DEF tail
<1>4. \A i \in DOMAIN tail : tail[i].kind # "result"
  <2>1. \A i \in DOMAIN tail : tail[i] \in BranchRow
    BY <1>3
  <2> QED BY <2>1 DEF BranchRow
<1>5. owed = {}
  BY <1>4 DEF Responses
<1> QED BY <1>1, <1>2, <1>5

\* What a compaction summarizes are rows of the branch.
LEMMA BranchMiddle ==
    ASSUME NEW s \in Seq(BranchRow), NEW budget, Compactable(SplitForCompaction(s, budget))
    PROVE  SplitForCompaction(s, budget).middle \in Seq(BranchRow)
<1> DEFINE free == {i \in DOMAIN s : ~Pinned(s[i])}
           ms  == Sublist(s, free)
           n   == Len(ms)
           vis == {i \in DOMAIN ms : ProviderVisible(ms[i])}
           h   == Min(vis)
           t   == TailStart(ms, h, budget)
           sp  == SplitForCompaction(s, budget)
<1>1. sp = IF Cardinality(vis) < 1 + KeepTailMin + 1
           THEN [head |-> ms, middle |-> <<>>, tail |-> <<>>]
           ELSE [head   |-> SubSeq(ms, 1, IF t <= h THEN t - 1 ELSE h),
                 middle |-> SubSeq(ms, h + 1, t - 1),
                 tail   |-> SubSeq(ms, t, n)]
  BY DEF SplitForCompaction
<1>2. ms \in Seq(BranchRow)
  <2>1. free \in SUBSET DOMAIN s
    OBVIOUS
  <2> HIDE DEF free
  <2> QED BY <2>1, SublistType
<1> HIDE DEF ms, sp
<1>3. CASE Cardinality(vis) < 1 + KeepTailMin + 1
  BY <1>1, <1>3 DEF sp
<1>4. CASE ~(Cardinality(vis) < 1 + KeepTailMin + 1)
  <2>1. vis # {}
    <3>1. vis = {} => Cardinality(vis) = 0
      BY FS_EmptySet
    <3> QED BY <1>4, <3>1 DEF KeepTailMin
  <2>2. vis \subseteq 1..n /\ n \in Nat /\ vis \subseteq Nat
    BY <1>2
  <2>3. h \in vis
    <3> HIDE DEF vis
    <3> QED BY <2>1, <2>2, Smallest
  <2> HIDE DEF vis
  <2>4. h \in 1..n
    BY <2>2, <2>3
  <2> HIDE DEF h
  <2>5. t \in (h + 1)..(n + 1)
    BY <1>2, <2>4, PlainTailStart
  <2> HIDE DEF t
  <2>6. SubSeq(ms, h + 1, t - 1) \in Seq(BranchRow)
    <3>1. h + 1 \in Int /\ t - 1 \in Int /\ \A i \in (h + 1)..(t - 1) : i \in 1..n /\ ms[i] \in BranchRow
      BY <1>2, <2>2, <2>4, <2>5
    <3> QED BY <3>1, SubSeqProperties
  <2> QED BY <1>1, <1>4, <2>6 DEF sp
<1> QED BY <1>3, <1>4

\* A summary takes the place of the middle.
LEMMA CompactBranch == BranchInv /\ CompactThread => BranchInv'
<1> SUFFICES ASSUME BranchInv, CompactThread PROVE BranchInv'
  OBVIOUS
<1> DEFINE s == thread[active]
           sp == SplitForCompaction(s, BranchBudget)
           sum == SummaryOf(nextRow, sp.middle)
           stay == {i \in DOMAIN s : Pinned(s[i]) \/ s[i].id \in Ids(sp.head) \cup Ids(sp.tail)}
           cut == {i \in DOMAIN s : ~Pinned(s[i]) /\ s[i].id \notin Ids(sp.head)}
           at  == IF cut = {} THEN Len(s) + 1 ELSE Min(cut)
           low == Sublist(s, {i \in stay : i < at})
           high == Sublist(s, {i \in stay : i >= at})
<1>1. /\ nextRow <= MaxBranchIds /\ Compactable(sp) /\ nextRow' = nextRow + 1
      /\ thread' = [thread EXCEPT ![active] = RebuildCompacted(s, sp.head, sum, sp.tail)]
      /\ UNCHANGED <<parent, forkRow, recent, active>>
  BY DEF CompactThread
<1>2. thread \in [Branches -> Seq(BranchRow)] /\ active \in Branches /\ nextRow \in 1..(MaxBranchIds + 1) /\ MaxBranchIds \in Nat
  BY BranchConstants DEF BranchInv
<1>3. s \in Seq(BranchRow) /\ nextRow \in 1..MaxBranchIds /\ nextRow + 1 \in 1..(MaxBranchIds + 1)
  BY <1>1, <1>2
<1>4. RebuildCompacted(s, sp.head, sum, sp.tail) = low \o <<sum>> \o high
  BY DEF RebuildCompacted
<1> HIDE DEF s
<1>5. sp.middle \in Seq(BranchRow)
  BY <1>1, <1>3, BranchMiddle
<1> HIDE DEF sp
<1>6. sum \in BranchRow
  <2>1. \A i \in DOMAIN sp.middle : sp.middle[i].id \in 1..MaxBranchIds /\ sp.middle[i].covers \in SUBSET (1..MaxBranchIds)
    <3>1. \A i \in DOMAIN sp.middle : sp.middle[i] \in BranchRow
      BY <1>5
    <3> QED BY <3>1 DEF BranchRow
  <2>2. Ids(sp.middle) \cup Covered(sp.middle) \in SUBSET (1..MaxBranchIds)
    BY <2>1 DEF Ids, Covered
  <2> QED BY <1>3, <2>2 DEF SummaryOf, BranchRow
<1> HIDE DEF sum
<1>7. low \in Seq(BranchRow) /\ high \in Seq(BranchRow)
  <2>1. {i \in stay : i < at} \in SUBSET DOMAIN s /\ {i \in stay : i >= at} \in SUBSET DOMAIN s
    OBVIOUS
  <2> HIDE DEF stay, at
  <2> QED BY <1>3, <2>1, SublistType
<1> HIDE DEF low, high
<1>8. low \o <<sum>> \o high \in Seq(BranchRow)
  BY <1>6, <1>7
<1>9. thread' \in [Branches -> Seq(BranchRow)]
  BY <1>1, <1>2, <1>4, <1>8
<1> QED BY <1>1, <1>3, <1>9 DEF BranchInv

\* Where a rewind cuts a branch.
LEMMA RewindOfBranch ==
    ASSUME NEW s \in Seq(BranchRow), NEW i \in DOMAIN s
    PROVE  RewindEnd(s, i) \in 1..Len(s)
<1>1. BranchRow \subseteq StoredRow
  <2> SUFFICES ASSUME NEW r \in BranchRow PROVE r \in StoredRow
    OBVIOUS
  <2>1. r \in AnyRow
    BY BranchConstants DEF BranchRow, AnyRow, Kinds
  <2>2. r.kind \in {"call", "summary"} => r.says = r.id
    BY DEF BranchRow
  <2> QED BY <2>1, <2>2 DEF StoredRow
<1>2. s \in Seq(StoredRow)
  BY <1>1
<1> QED BY <1>2, RewindFits

\* Where an operation cuts.
LEMMA PrefixEndFits ==
    ASSUME NEW s \in Seq(BranchRow), NEW i \in DOMAIN s, NEW op \in Ops, PrefixEnd(s, i, op) # Beyond
    PROVE  PrefixEnd(s, i, op) \in 0..Len(s)
<1> DEFINE owner == {j \in 1..i : s[j].kind = "user"}
           end == CASE op \in {"edit", "restore"} -> i - 1
                    [] op = "regenerate" -> Max({0} \cup owner) - 1
                    [] op = "rewind" -> RewindEnd(s, i)
<1>1. PrefixEnd(s, i, op) = end /\ (op = "regenerate" => owner # {})
  BY DEF PrefixEnd
<1>2. DOMAIN s = 1..Len(s) /\ Len(s) \in Nat /\ i \in 1..Len(s)
  OBVIOUS
<1>3. CASE op \in {"edit", "restore"}
  BY <1>1, <1>2, <1>3
<1>4. CASE op = "regenerate"
  <2> DEFINE m == Max({0} \cup owner)
  <2>1. PICK p \in owner : \A k \in owner : k <= p
    <3>1. owner \in SUBSET (1..i) /\ owner # {} /\ i \in Nat
      BY <1>1, <1>2, <1>4
    <3> HIDE DEF owner
    <3> QED BY <3>1, Greatest
  <2>2. p \in 1..i
    OBVIOUS
  <2> HIDE DEF owner
  <2>3. p \in {0} \cup owner /\ \A k \in {0} \cup owner : p >= k
    BY <2>1, <2>2
  <2>4. m \in {0} \cup owner /\ \A k \in {0} \cup owner : m >= k
    BY <2>3 DEF Max
  <2>5. m >= p /\ m \in 0..i
    <3>1. \A k \in {0} \cup owner : k \in 0..i
      BY <1>2 DEF owner
    <3> HIDE DEF m
    <3> QED BY <2>3, <2>4, <3>1
  <2>6. end = m - 1
    BY <1>4
  <2> HIDE DEF m, end
  <2>7. m \in Int /\ p \in Int /\ m - 1 \in 0..Len(s)
    BY <1>2, <2>2, <2>5
  <2> QED BY <1>1, <2>6, <2>7
<1>5. CASE op = "rewind"
  <2>1. RewindEnd(s, i) \in 1..Len(s)
    BY RewindOfBranch
  <2> QED BY <1>1, <1>2, <1>5, <2>1
<1> QED BY <1>3, <1>4, <1>5 DEF Ops

\* A new branch is of a number that no record has yet.
LEMMA OpenBranch ==
    ASSUME BranchInv, NEW op \in Ops, NEW i \in DOMAIN thread[active], BranchOp(op, i)
    PROVE  BranchInv'
<1> DEFINE s   == thread[active]
           end == PrefixEnd(s, i, op)
           new == IF recent = <<>> THEN 1 ELSE Cardinality(Records)
           prefix == SubSeq(s, 1, end)
           old == IF recent = <<>> THEN <<Root>> ELSE recent
<1>1. /\ new <= MaxBranches /\ end # Beyond
      /\ parent' = [parent EXCEPT ![new] = active]
      /\ forkRow' = [forkRow EXCEPT ![new] = IF end = 0 THEN 0 ELSE s[end].id]
      /\ recent' = Append(old, new) /\ active' = new
      /\ \/ thread' = [thread EXCEPT ![new] = prefix] /\ UNCHANGED nextRow
         \/ /\ nextRow <= MaxBranchIds /\ nextRow' = nextRow + 1
            /\ thread' = [thread EXCEPT ![new] = Append(prefix, Row(nextRow, "user"))]
  BY DEF BranchOp
<1>2. /\ thread \in [Branches -> Seq(BranchRow)] /\ active \in Branches /\ nextRow \in 1..(MaxBranchIds + 1) /\ MaxBranchIds \in Nat
      /\ MaxBranches \in Nat /\ recent \in Seq(Branches) /\ Listed(recent)
      /\ parent \in [Branches -> Branches] /\ forkRow \in [Branches -> 0..MaxBranchIds]
  BY BranchConstants DEF BranchInv
<1>3. s \in Seq(BranchRow) /\ i \in DOMAIN s
  BY <1>2
<1> HIDE DEF s
<1>4. end \in 0..Len(s)
  BY <1>1, <1>3, PrefixEndFits
<1> HIDE DEF end
<1>5. prefix \in Seq(BranchRow)
  BY <1>3, <1>4, BranchPrefix
<1>6. (IF end = 0 THEN 0 ELSE s[end].id) \in 0..MaxBranchIds
  <2>1. CASE end # 0
    <3>1. end \in DOMAIN s
      BY <1>3, <1>4, <2>1
    <3>2. s[end] \in BranchRow
      BY <1>3, <3>1
    <3>3. s[end].id \in 1..MaxBranchIds
      BY <3>2 DEF BranchRow
    <3> QED BY <1>2, <2>1, <3>3
  <2> QED BY <1>2, <2>1
<1> HIDE DEF prefix
<1>7. /\ old \in Seq(Branches) /\ DOMAIN old = 1..Len(old) /\ Len(old) = new /\ new \in Nat \ {0}
      /\ (\A j, k \in DOMAIN old : old[j] = old[k] => j = k) /\ Range(old) = 0..(new - 1)
  <2>1. CASE recent = <<>>
    <3>1. old = <<Root>> /\ new = 1 /\ Root = 0 /\ 0 \in Branches
      BY <1>2, <2>1 DEF Root, Branches
    <3> HIDE DEF old, new
    <3>2. old \in Seq(Branches) /\ DOMAIN old = {1} /\ Len(old) = 1 /\ old[1] = 0
      BY <3>1
    <3>3. Range(old) = {0}
      BY <3>2 DEF Range
    <3> QED BY <3>1, <3>2, <3>3
  <2>2. CASE recent # <<>>
    <3>1. old = recent /\ new = Len(recent) /\ Len(recent) \in Nat \ {0} /\ DOMAIN recent = 1..Len(recent)
      BY <1>2, <2>2, ListedMany DEF Records
    <3> HIDE DEF old, new
    <3> QED BY <1>2, <3>1 DEF Listed
  <2> QED BY <2>1, <2>2
<1> HIDE DEF old, new
<1>8. new \in Branches
  BY <1>1, <1>2, <1>7 DEF Branches
<1>9. recent' \in Seq(Branches) /\ Listed(recent')
  <2>1. /\ Append(old, new) \in Seq(Branches) /\ DOMAIN Append(old, new) = 1..(Len(old) + 1) /\ Len(Append(old, new)) = Len(old) + 1
        /\ \A k \in 1..Len(old) : Append(old, new)[k] = old[k]
        /\ Append(old, new)[Len(old) + 1] = new
    BY <1>7, <1>8, Pushed
  <2> DEFINE q == Append(old, new)
  <2>2. q \in Seq(Branches) /\ DOMAIN q = 1..(new + 1) /\ Len(q) = new + 1 /\ q[new + 1] = new /\ \A k \in 1..new : q[k] = old[k]
    BY <1>7, <2>1
  <2> HIDE DEF q
  <2>3. \A k \in 1..new : old[k] \in 0..(new - 1) /\ old[k] # new
    <3>1. \A k \in 1..new : old[k] \in Range(old)
      BY <1>7 DEF Range
    <3> QED BY <1>7, <3>1
  <2>4. \A j, k \in DOMAIN q : q[j] = q[k] => j = k
    <3>1. \A j \in DOMAIN q : j = new + 1 \/ j \in 1..new
      BY <1>7, <2>2
    <3> QED BY <1>7, <2>2, <2>3, <3>1
  <2>5. \A x : x \in Range(q) <=> x \in 0..new
    <3>1. \A x : x \in Range(q) <=> x = new \/ x \in Range(old)
      <4>1. \A j \in DOMAIN q : j = new + 1 \/ j \in 1..new
        BY <1>7, <2>2
      <4>2. new + 1 \in DOMAIN q /\ \A k \in 1..new : k \in DOMAIN q
        BY <1>7, <2>2
      <4>3. DOMAIN old = 1..new
        BY <1>7
      <4> QED BY <2>2, <4>1, <4>2, <4>3 DEF Range
    <3>2. \A x : x \in 0..new <=> x = new \/ x \in 0..(new - 1)
      BY <1>7
    <3> QED BY <1>7, <3>1, <3>2
  <2>6. Range(q) = 0..(Len(q) - 1)
    <3>1. Len(q) - 1 = new
      BY <1>7, <2>2
    <3> QED BY <2>5, <3>1
  <2> QED BY <1>1, <2>2, <2>4, <2>6 DEF Listed, q
<1>10. thread' \in [Branches -> Seq(BranchRow)] /\ nextRow' \in 1..(MaxBranchIds + 1)
  <2>1. CASE thread' = [thread EXCEPT ![new] = prefix] /\ UNCHANGED nextRow
    BY <1>2, <1>5, <1>8, <2>1
  <2>2. CASE /\ nextRow <= MaxBranchIds /\ nextRow' = nextRow + 1
             /\ thread' = [thread EXCEPT ![new] = Append(prefix, Row(nextRow, "user"))]
    <3>1. nextRow \in 1..MaxBranchIds /\ nextRow' \in 1..(MaxBranchIds + 1)
      BY <1>2, <2>2
    <3>2. Row(nextRow, "user") \in BranchRow
      BY <3>1 DEF Row, BranchRow
    <3>3. Append(prefix, Row(nextRow, "user")) \in Seq(BranchRow)
      BY <1>5, <3>2
    <3> QED BY <1>2, <1>8, <2>2, <3>1, <3>3
  <2> QED BY <1>1, <2>1, <2>2
<1>11. parent' \in [Branches -> Branches]
  BY <1>1, <1>2, <1>8
<1>12. forkRow' \in [Branches -> 0..MaxBranchIds]
  BY <1>1, <1>2, <1>6, <1>8
<1> QED BY <1>1, <1>8, <1>9, <1>10, <1>11, <1>12 DEF BranchInv

\* Another branch is read and written from now on.
LEMMA ActivateOther ==
    ASSUME BranchInv, NEW b \in Records, ActivateBranch(b)
    PROVE  BranchInv'
<1>1. b \in Branches
  BY DEF BranchInv, Records, Range
<1>2. recent' = Touched(recent, b) /\ active' = b /\ UNCHANGED <<thread, parent, forkRow, nextRow>>
  BY DEF ActivateBranch
<1>3. recent' \in Seq(Branches) /\ Listed(recent')
  BY <1>2, TouchedFits DEF BranchInv
<1> QED BY <1>1, <1>2, <1>3 DEF BranchInv

\* The active branch is cut in place.
LEMMA CutBranch ==
    ASSUME BranchInv, NEW i \in DOMAIN thread[active], TruncateBranch(i)
    PROVE  BranchInv'
<1>1. /\ thread' = [thread EXCEPT ![active] = SubSeq(thread[active], 1, RewindEnd(thread[active], i))]
      /\ UNCHANGED <<parent, forkRow, recent, active, nextRow>>
  BY DEF TruncateBranch
<1>2. thread \in [Branches -> Seq(BranchRow)] /\ active \in Branches /\ thread[active] \in Seq(BranchRow)
  BY DEF BranchInv
<1>3. RewindEnd(thread[active], i) \in 0..Len(thread[active])
  BY <1>2, RewindOfBranch
<1>4. SubSeq(thread[active], 1, RewindEnd(thread[active], i)) \in Seq(BranchRow)
  BY <1>2, <1>3, BranchPrefix
<1>5. thread' \in [Branches -> Seq(BranchRow)]
  BY <1>1, <1>2, <1>4
<1> QED BY <1>1, <1>5 DEF BranchInv

\* A session begins without branches.
LEMMA BranchInitInv == BranchInit => BranchInv
<1> SUFFICES ASSUME BranchInit PROVE BranchInv
  OBVIOUS
<1>1. 0 \in Branches /\ 0 \in 0..MaxBranchIds /\ 1 \in 1..(MaxBranchIds + 1) /\ <<>> \in Seq(BranchRow)
  BY BranchConstants DEF Branches
<1>2. recent = <<>> /\ Len(recent) = 0 /\ DOMAIN recent = {} /\ recent \in Seq(Branches)
  BY DEF BranchInit
<1>3. Listed(recent)
  <2>1. 0..(0 - 1) = {}
    OBVIOUS
  <2> QED BY <1>2, <2>1 DEF Listed, Range
<1> QED BY <1>1, <1>2, <1>3 DEF BranchInit, BranchInv, Root

\* Every step of the branches.
LEMMA BranchStepInv == BranchInv /\ [BranchNext]_branchVars => BranchInv'
<1> SUFFICES ASSUME BranchInv, [BranchNext]_branchVars PROVE BranchInv'
  OBVIOUS
<1>1. CASE BranchNext
  BY <1>1, TurnBranch, CompactBranch, CutBranch, OpenBranch, ActivateOther DEF BranchNext
<1>2. CASE UNCHANGED branchVars
  BY <1>2 DEF branchVars, BranchInv
<1> QED BY <1>1, <1>2

\* What the invariant says of the types.
LEMMA BranchInvTypes == BranchInv => BranchTypeOK
<1> SUFFICES ASSUME BranchInv PROVE BranchTypeOK
  OBVIOUS
<1> DEFINE R == [id : 1..MaxBranchIds, kind : {"user", "reply", "summary"}, of : {0}, says : 1..MaxBranchIds,
                 media : {"none"}, about : {0}, tok : {1}, covers : SUBSET (1..MaxBranchIds)]
<1>1. thread \in [Branches -> Seq(R)]
  <2>1. BranchRow \subseteq R
    BY DEF BranchRow
  <2>2. \A b \in Branches : thread[b] \in Seq(R)
    <3>1. \A b \in Branches : thread[b] \in Seq(BranchRow)
      BY DEF BranchInv
    <3> HIDE DEF R
    <3> QED BY <2>1, <3>1
  <2> HIDE DEF R
  <2> QED BY <2>2 DEF BranchInv
<1> QED BY <1>1, ListedMany DEF BranchInv, BranchTypeOK, Records

-----------------------------------------------------------------------------
(* The bounds of the ledger.  A job is pending for a row that was said, and *)
(* a generation is of a rewrite.                                            *)

\* The inductive invariant of the bounds.
LedgerBounds ==
    /\ said \in 0..MaxRows /\ kept \subseteq 1..said /\ pending \in 0..said
    /\ rewrites \in 0..MaxRewrites /\ gen \in 0..rewrites

\* No step of the ledger leaves them.
LEMMA LedgerBoundsStep == LedgerInv /\ LedgerBounds /\ [GlNext]_glVars => LedgerBounds'
<1> SUFFICES ASSUME LedgerInv, LedgerBounds, [GlNext]_glVars PROVE LedgerBounds'
  OBVIOUS
<1>c. MaxRows \in Nat /\ MaxRewrites \in Nat
  BY LedgerConstants
<1>1. CASE Admit
  <2>1. /\ said < MaxRows /\ said' = said + 1 /\ kept' = kept \cup {said + 1} /\ pending' = pending + 1
        /\ UNCHANGED <<gen, rewrites>>
    BY <1>1 DEF Admit
  <2> QED BY <1>c, <2>1 DEF LedgerBounds
<1>2. CASE Finish
  <2>1. /\ pending' = pending - 1 /\ gen' \in {0, gen} /\ UNCHANGED <<said, kept, rewrites>> /\ worker.at = "finish"
    BY <1>2 DEF Finish
  <2>2. pending > 0
    <3>1. pending = Len(queue) + 1 /\ Len(queue) \in Nat
      BY <2>1 DEF LedgerInv, LedgerTypes, Marked, PendingExact
    <3> QED BY <3>1
  <2> QED BY <1>c, <2>1, <2>2 DEF LedgerBounds
<1>3. ASSUME NEW from \in 1..MaxRows, DropRows(from) PROVE LedgerBounds'
  <2>1. Begin([at |-> "drain", op |-> "drop", from |-> from]) /\ kept' = {r \in kept : r < from} /\ UNCHANGED gen
    BY <1>3 DEF DropRows
  <2>2. rewrites < MaxRewrites /\ rewrites' = rewrites + 1 /\ UNCHANGED <<said, pending>>
    BY <2>1 DEF Begin
  <2>3. said' = said /\ pending' = pending /\ gen' = gen
    BY <2>1, <2>2
  <2>4. kept' \subseteq 1..said'
    <3>1. kept \subseteq 1..said
      BY DEF LedgerBounds
    <3>2. \A r \in kept' : r \in kept
      BY <2>1
    <3> QED BY <2>3, <3>1, <3>2
  <2>5. rewrites' \in 0..MaxRewrites /\ gen' \in 0..rewrites'
    BY <1>c, <2>2, <2>3 DEF LedgerBounds
  <2> QED BY <2>3, <2>4, <2>5 DEF LedgerBounds
<1>4. ASSUME NEW from \in 1..MaxRows, CopyBranch(from) PROVE LedgerBounds'
  <2>1. rewrites < MaxRewrites /\ rewrites' = rewrites + 1 /\ UNCHANGED <<said, pending, gen, kept>>
    BY <1>4 DEF CopyBranch, Begin
  <2> QED BY <1>c, <2>1 DEF LedgerBounds
<1>5. CASE ClearThread
  <2>1. /\ rewrites < MaxRewrites /\ rewrites' = rewrites + 1 /\ kept' = {} /\ gen' = gen + 1 /\ UNCHANGED <<said, pending>>
    BY <1>5 DEF ClearThread, Begin
  <2> QED BY <1>c, <2>1 DEF LedgerBounds
<1>6. ASSUME UNCHANGED <<said, kept, pending, gen, rewrites>> PROVE LedgerBounds'
  BY <1>6 DEF LedgerBounds
<1>7. CASE \/ Take \/ List \/ (\E i \in Intents, r \in 0..MaxRows : Classify(i, r)) \/ Commit \/ Prune \/ StoreFails
           \/ Refresh \/ Drain \/ ReadEntries \/ CutEntries
  <2>1. UNCHANGED <<said, kept, pending, gen, rewrites>>
    BY <1>7 DEF Take, List, Classify, Commit, Prune, StoreFails, Refresh, Drain, ReadEntries, CutEntries
  <2> QED BY <1>6, <2>1
<1>8. CASE UNCHANGED glVars
  BY <1>6, <1>8 DEF glVars
<1> QED BY <1>1, <1>2, <1>3, <1>4, <1>5, <1>7, <1>8 DEF GlNext

\* What the invariants say of the types.
LEMMA LedgerInvTypes == LedgerInv /\ LedgerBounds => GlTypeOK
<1> SUFFICES ASSUME LedgerInv, LedgerBounds PROVE GlTypeOK
  OBVIOUS
<1>1. ASSUME NEW i \in DOMAIN entries
      PROVE  entries[i] \in [row : 1..MaxRows, intent : Intents, status : Statuses, relates : 0..MaxRows]
  <2>1. entries[i] \in LedgerEntry
    BY DEF LedgerInv, LedgerTypes
  <2>2. entries[i].row <= said /\ entries[i].relates < entries[i].row
    BY DEF LedgerInv, InOrder
  <2>3. entries[i].row \in 1..MaxRows /\ entries[i].relates \in 0..MaxRows
    BY <2>1, <2>2, LedgerConstants DEF LedgerEntry, LedgerBounds
  <2> QED BY <2>1, <2>3 DEF LedgerEntry
<1>2. worker.at \in {"idle", "list", "classify", "commit", "prune", "finish", "refresh", "show"}
  BY DEF LedgerInv, WorkerFits, HasJob
<1>3. rewrite.at \in {"idle", "drain", "read", "cut", "refresh", "show"}
  BY DEF LedgerInv, RewriteFits, Rewriting
<1>4. pending \in 0..MaxRows /\ gen \in 0..MaxRewrites /\ kept \subseteq 1..said /\ said <= MaxRows
  BY LedgerConstants DEF LedgerBounds
<1> QED BY <1>1, <1>2, <1>3, <1>4 DEF GlTypeOK

-----------------------------------------------------------------------------
(* All together. *)

\* What the invariant says of the types.
LEMMA HistInvTypes == HistInv => HistTypeOK
<1> SUFFICES ASSUME HistInv PROVE HistTypeOK
  OBVIOUS
<1>1. nextId \in 1..(MaxIds + 1) /\ phase \in {"idle", "turn", "job", "inline"}
  BY DEF HistInv, RowsInv
<1>2. Ids(rows) \subseteq 1..MaxIds
  <2>1. Ids(rows) \subseteq 1..(nextId - 1) /\ MaxIds \in Nat
    BY HistoryConstants DEF HistInv, RowsInv, Accounted
  <2> QED BY <1>1, <2>1
<1>3. \A j \in job : j.state \in {"running", "text", "empty"}
  BY DEF HistInv, JobInv, JobFits
<1>4. Cardinality(job) <= 1
  <2>1. CASE job = {}
    BY <2>1, FS_EmptySet
  <2>2. CASE job # {}
    <3>1. PICK j \in job : job = {j}
      BY <2>2 DEF HistInv, JobInv
    <3> QED BY <3>1, FS_Singleton
  <2> QED BY <2>1, <2>2
<1> QED BY <1>1, <1>2, <1>3, <1>4 DEF HistTypeOK

\* Every part of a conversation keeps its types, and every counter its bound.
THEOREM ConversationTypes ==
    ASSUME MaxTurns > 0
    PROVE  ConversationSpec => []ConversationTypeOK
<1> DEFINE Inv == LoopInv /\ HistInv /\ BranchInv /\ LedgerInv /\ LedgerBounds
<1>1. ConversationInit => Inv
  <2>1. GlInit => LedgerBounds
    BY LedgerConstants DEF GlInit, LedgerBounds
  <2> QED BY <2>1, LoopInitInv, HistInitInv, BranchInitInv, LedgerInitInv DEF ConversationInit
<1>2. Inv /\ [ConversationNext]_conversationVars => Inv'
  <2>1. [ConversationNext]_conversationVars =>
            [Next]_loopVars /\ [HistNext]_histVars /\ [BranchNext]_branchVars /\ [GlNext]_glVars
    BY DEF ConversationNext, conversationVars
  <2> QED BY <2>1, LoopStepInv, HistStepInv, BranchStepInv, LedgerStepInv, LedgerBoundsStep
<1>3. Inv => ConversationTypeOK
  BY LoopInvTypes, HistInvTypes, BranchInvTypes, LedgerInvTypes DEF ConversationTypeOK
<1> HIDE DEF Inv
<1> QED BY <1>1, <1>2, <1>3, PTL DEF ConversationSpec
=============================================================================
