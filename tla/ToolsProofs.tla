--------------------------- MODULE ToolsProofs ----------------------------
(*************************************************************************)
(* What holds of the tool calls of a turn for every value of the         *)
(* constants: one truthful response per call of a batch of any length,   *)
(* only approved calls run, and what a Stop leaves behind (ToolBatch);   *)
(* and of the file of stored answers, for any number of gateways,        *)
(* settings windows, chats and changes: unless a live lock was removed   *)
(* or approvals.py read an unreadable file as an empty one, no stored    *)
(* answer is lost, and one that was taken back is not read from a cache  *)
(* (Grants); of the reads that come before an edit (ReadLedger); of one  *)
(* MCP server and any number of callers (MCPConnections); of the         *)
(* background commands and the pages of their logs (BackgroundJobs); and *)
(* of patches, recorded changes and their undo (FileChanges).            *)
(*************************************************************************)
EXTENDS MCTools, SublistProofs, SequenceTheorems, TLAPS

(* The batch.                                                              *)

Approved(c) ==
    \/ verdict[c] = "allow"
    \/ verdict[c] = "confirm" /\ "yes" \in answer[c]

Unsettled(c) == ran[c] \in {"queued", "running", "asking"}

\* The blocks of call c that the batch has so far.
Blocks(c) == inBatch[c] + inChunk[c]

Gating == {"start", "chunk", "gate", "inspect", "confirm", "gated"}
Open == Gating \cup {"executing", "merge"}

Placed ==
    /\ pc = "start" => at = 1
    /\ pc \in {"start", "chunk"} => allowed = {}
    /\ pc \in {"gate", "inspect", "confirm"} => at \in Calls
    /\ pc = "confirm" => verdict[at] = "confirm"
    /\ \A c \in allowed : c < at /\ Approved(c)

\* A call before the next one has its block, unless it is allowed and its
\* chunk has not returned; a call further on has none.
Counted ==
    \A c \in Calls :
        /\ pc \in Open =>
             Blocks(c) = IF c < at /\ (c \notin allowed \/ pc = "merge") THEN 1 ELSE 0
        /\ pc \in {"start", "chunk"} => inChunk[c] = 0
        /\ pc = "settle" => Blocks(c) \in 0..1
        /\ pc \in {"append", "done"} => inBatch[c] = 1
        /\ pc = "done" => history[c] = 1

\* Only calls of the chunk at hand are in flight, and a call without a block
\* either waits for its result or did not complete.
Executed ==
    \A c \in Calls :
        /\ ran[c] # "no" => Approved(c)
        /\ Unsettled(c) => pc = "executing" /\ c \in allowed
        /\ /\ Blocks(c) = 0
           /\ pc \in Gating \cup {"merge"} \/ (pc = "executing" /\ c \notin allowed)
           => ran[c] = "no"
        /\ Blocks(c) = 0 /\ pc = "settle" => ran[c] \in {"no", "cancelled"}

Truth(c) ==
    /\ ran[c] = "done" <=> says[c] = "result"
    /\ ran[c] = "failed" => says[c] = "error"
    /\ says[c] \in {"denied", "rejected"} => ran[c] = "no"
    /\ says[c] = "cancelled" => ran[c] \in {"no", "cancelled"}

Said == \A c \in Calls : Blocks(c) # 0 => Truth(c)

\* A registered question has somebody waiting for it, and a confirmation that
\* was cancelled in an open session was cancelled by a Stop for this turn.
Waiting ==
    /\ session = "open" => \A c \in keys :
           fut[c] = "pending" /\ ((pc = "confirm" /\ c = at) \/ ran[c] = "asking")
    /\ session = "open" /\ ~strayed /\ pc = "confirm" /\ fut[at] = "cancelled"
           => event /\ at \in ended /\ at \notin keys

\* After the event only calls that had passed their check are left.
Stopped ==
    event /\ pc \in Open =>
        /\ \A c \in Calls : c < at => c \in spared
        /\ pc \in {"inspect", "confirm"} => at \in spared

\* Inductive: TypeOK and the properties do not say which calls the lists hold
\* at each place of the batch; Counted does, and the rest hangs on it.
IndInv ==
    /\ TypeOK /\ Placed /\ Counted /\ Executed /\ Said /\ Waiting /\ Stopped

-----------------------------------------------------------------------------
\* What a refusal and an approval do to the call at hand.
Refused(what) ==
    /\ inChunk' = [inChunk EXCEPT ![at] = @ + 1]
    /\ says' = [says EXCEPT ![at] = what]
    /\ inBatch' = inBatch /\ history' = history
    /\ allowed' = allowed /\ at' = at + 1
    /\ pc' \in {"gate", "gated"} /\ (pc' = "gate" => at # N)

Admitted ==
    /\ inChunk' = inChunk /\ says' = says
    /\ inBatch' = inBatch /\ history' = history
    /\ allowed' = allowed \cup {at} /\ at' = at + 1
    /\ pc' \in {"gate", "gated"} /\ (pc' = "gate" => at # N)

\* A refusal gives the call at hand its block (_gate_chunk_calls).
LEMMA RefuseDoes ==
    ASSUME TypeOK, at \in Calls, NEW what, Refuse(what)
    PROVE  Refused(what)
<1>1. inChunk' = [inChunk EXCEPT ![at] = @ + 1]
  <2>1. \A c \in Calls : inChunk'[c] = inChunk[c] + IF c = at THEN 1 ELSE 0
    BY DEF Refuse, Finished
  <2>2. inChunk' = [c \in Calls |-> inChunk'[c]]
    BY DEF Refuse, Finished
  <2> QED BY <2>1, <2>2 DEF TypeOK
<1>2. says' = [says EXCEPT ![at] = what]
  <2>1. \A c \in Calls : says'[c] = IF c = at THEN what ELSE says[c]
    BY DEF Refuse, Finished
  <2>2. says' = [c \in Calls |-> says'[c]]
    BY DEF Refuse, Finished
  <2> QED BY <2>1, <2>2 DEF TypeOK
<1>3. /\ inBatch' = inBatch /\ history' = history
      /\ allowed' = allowed /\ at' = at + 1
  BY DEF Refuse
<1>4. pc' \in {"gate", "gated"} /\ (pc' = "gate" => at # N)
  BY DEF Refuse, After
<1> QED BY <1>1, <1>2, <1>3, <1>4 DEF Refused

\* The call at hand has no block yet, and the next place is in range.
LEMMA AtHand ==
    ASSUME IndInv, pc \in {"gate", "inspect", "confirm"}
    PROVE  TypeOK /\ at \in Calls /\ at + 1 \in 1..(N + 1) /\ inChunk[at] = 0
<1>1. TypeOK /\ at \in Calls
  BY DEF IndInv, Placed
<1>2. at + 1 \in 1..(N + 1)
  BY <1>1, BatchAssumption DEF Calls
<1>3. inChunk[at] = 0
  BY <1>1 DEF IndInv, Counted, Blocks, Open, Gating, TypeOK
<1> QED BY <1>1, <1>2, <1>3

\* An approval puts the call on the list of the chunk (_gate_chunk_calls).
LEMMA AllowDoes ==
    ASSUME Allow
    PROVE  Admitted
BY DEF Allow, After, blocks, Admitted

\* The other cases leave the blocks and the calls alone.
Unmoved(where) ==
    /\ inChunk' = inChunk /\ says' = says
    /\ inBatch' = inBatch /\ history' = history
    /\ allowed' = allowed /\ at' = at /\ pc' = where

\* Reject keeps the invariant (_emit_rejected_batch).
LEMMA RejectInv ==
    ASSUME IndInv, Reject
    PROVE  IndInv'
<1>1. TypeOK'
  BY DEF IndInv, TypeOK, Over, Reject, Goto, batch, place, blocks, bus, cancel
<1>2. Placed'
  BY DEF IndInv, Placed, Approved, Reject, Goto, batch, place, blocks, bus, cancel
<1>3. Counted'
  BY DEF IndInv, Counted, Blocks, Open, Gating, Reject, Goto, batch, place, blocks,
     bus, cancel
<1>4. Executed'
  BY DEF IndInv, Executed, Unsettled, Approved, Blocks, Gating, Reject, Goto, batch,
     place, blocks, bus, cancel
<1>5. Said'
  BY BatchAssumption DEF IndInv, TypeOK, Placed, Counted, Executed, Unsettled, Said,
     Truth, Blocks, Open, Gating, Calls, Reject, Goto, batch, place, blocks, bus,
     cancel
<1>6. Waiting'
  BY DEF IndInv, Waiting, Reject, Goto, batch, place, blocks, bus, cancel
<1>7. Stopped'
  BY DEF IndInv, Stopped, Open, Gating, Reject, Goto, batch, place, blocks, bus,
     cancel
<1> QED BY <1>1, <1>2, <1>3, <1>4, <1>5, <1>6, <1>7 DEF IndInv

\* Begin keeps the invariant (dispatch_tool_batch).
LEMMA BeginInv ==
    ASSUME IndInv, Begin
    PROVE  IndInv'
<1>1. TypeOK'
  BY DEF IndInv, TypeOK, Over, Begin, Goto, batch, place, blocks, bus, cancel
<1>2. Placed'
  BY DEF IndInv, Placed, Approved, Begin, Goto, batch, place, blocks, bus, cancel
<1>3. Counted'
  BY DEF IndInv, Counted, Blocks, Open, Gating, Begin, Goto, batch, place, blocks,
     bus, cancel
<1>4. Executed'
  BY DEF IndInv, Executed, Unsettled, Approved, Blocks, Gating, Begin, Goto, batch,
     place, blocks, bus, cancel
<1>5. Said'
  BY DEF IndInv, Said, Truth, Blocks, Begin, Goto, batch, place, blocks, bus, cancel
<1>6. Waiting'
  BY DEF IndInv, Waiting, Begin, Goto, batch, place, blocks, bus, cancel
<1>7. Stopped'
  BY DEF IndInv, Stopped, Open, Gating, Begin, Goto, batch, place, blocks, bus,
     cancel
<1> QED BY <1>1, <1>2, <1>3, <1>4, <1>5, <1>6, <1>7 DEF IndInv

\* NextChunk keeps the invariant (dispatch_tool_batch).
LEMMA NextChunkInv ==
    ASSUME IndInv, NextChunk
    PROVE  IndInv'
<1>1. TypeOK'
  BY DEF IndInv, TypeOK, Over, NextChunk, Goto, batch, place, blocks, bus, cancel
<1>2. Placed'
  BY BatchAssumption DEF IndInv, TypeOK, Placed, Approved, Calls, NextChunk, Goto,
     batch, place, blocks, bus, cancel
<1>3. Counted'
  BY BatchAssumption DEF IndInv, TypeOK, Placed, Counted, Blocks, Open, Gating,
     Calls, NextChunk, Goto, batch, place, blocks, bus, cancel
<1>4. Executed'
  BY DEF IndInv, Executed, Unsettled, Approved, Blocks, Gating, NextChunk, Goto, batch,
     place, blocks, bus, cancel
<1>5. Said'
  BY DEF IndInv, Said, Truth, Blocks, NextChunk, Goto, batch, place, blocks, bus,
     cancel
<1>6. Waiting'
  BY DEF IndInv, Waiting, NextChunk, Goto, batch, place, blocks, bus, cancel
<1>7. Stopped'
  BY DEF IndInv, Stopped, Open, Gating, NextChunk, Goto, batch, place, blocks, bus,
     cancel
<1> QED BY <1>1, <1>2, <1>3, <1>4, <1>5, <1>6, <1>7 DEF IndInv

\* GateCall keeps the invariant (_gate_chunk_calls).
LEMMA GateCallInv ==
    ASSUME IndInv, GateCall
    PROVE  IndInv'
<1>0. TypeOK /\ at \in Calls /\ at + 1 \in 1..(N + 1) /\ inChunk[at] = 0
  BY AtHand DEF GateCall
<1>1. CASE ~event /\ verdict[at] = "unparsed"
  <2>0. Refused("error")
    BY <1>0, <1>1, RefuseDoes DEF GateCall
  <2>1. TypeOK'
    BY <1>0, <1>1, <2>0 DEF TypeOK, Over, GateCall, Refused, batch, place, blocks,
       bus, cancel
  <2>2. Placed'
    BY BatchAssumption, <1>1, <2>0 DEF IndInv, TypeOK, Placed, Approved, Calls,
       GateCall, Refused, batch, place, blocks, bus, cancel
  <2>3. Counted'
    BY BatchAssumption, <1>1, <2>0 DEF IndInv, TypeOK, Placed, Counted, Blocks,
       Open, Gating, Calls, GateCall, Refused, batch, place, blocks, bus, cancel
  <2>4. Executed'
    BY <1>1, <2>0 DEF IndInv, Executed, Unsettled, Approved, Blocks, Gating, GateCall,
       Refused, batch, place, blocks, bus, cancel
  <2>5. Said'
    BY <1>1, <2>0 DEF IndInv, TypeOK, Placed, Counted, Executed, Unsettled, Said, Truth,
       Blocks, Open, Gating, GateCall, Refused, batch, place, blocks, bus, cancel
  <2>6. Waiting'
    BY <1>1, <2>0 DEF IndInv, Waiting, GateCall, Refused, batch, place, blocks, bus,
       cancel
  <2>7. Stopped'
    BY <1>1, <2>0 DEF IndInv, Stopped, Open, Gating, GateCall, Refused, batch,
       place, blocks, bus, cancel
  <2> QED BY <2>1, <2>2, <2>3, <2>4, <2>5, <2>6, <2>7 DEF IndInv
<1>2. CASE ~(~event /\ verdict[at] = "unparsed")
  <2>0. Unmoved(IF event THEN "settle" ELSE "inspect")
    BY <1>0, <1>2 DEF GateCall, Goto, Unmoved, blocks
  <2>1. TypeOK'
    BY <1>0, <1>2, <2>0 DEF TypeOK, Over, GateCall, Unmoved, batch, place, blocks,
       bus, cancel
  <2>2. Placed'
    BY <1>2, <2>0 DEF IndInv, Placed, Approved, GateCall, Unmoved, batch, place,
       blocks, bus, cancel
  <2>3. Counted'
    BY <1>2, <2>0 DEF IndInv, Counted, Blocks, Open, Gating, GateCall, Unmoved,
       batch, place, blocks, bus, cancel
  <2>4. Executed'
    BY <1>2, <2>0 DEF IndInv, Executed, Unsettled, Approved, Blocks, Gating, GateCall,
       Unmoved, batch, place, blocks, bus, cancel
  <2>5. Said'
    BY <1>2, <2>0 DEF IndInv, Said, Truth, Blocks, GateCall, Unmoved, batch, place,
       blocks, bus, cancel
  <2>6. Waiting'
    BY <1>2, <2>0 DEF IndInv, Waiting, GateCall, Unmoved, batch, place, blocks, bus,
       cancel
  <2>7. Stopped'
    BY <1>2, <2>0 DEF IndInv, Stopped, Open, Gating, GateCall, Unmoved, batch,
       place, blocks, bus, cancel
  <2> QED BY <2>1, <2>2, <2>3, <2>4, <2>5, <2>6, <2>7 DEF IndInv
<1> QED BY <1>0, <1>1, <1>2 DEF GateCall, IndInv, TypeOK

\* Inspect keeps the invariant (_resolve_inspector_decision).
LEMMA InspectInv ==
    ASSUME IndInv, Inspect
    PROVE  IndInv'
<1>0. TypeOK /\ at \in Calls /\ at + 1 \in 1..(N + 1) /\ inChunk[at] = 0
  BY AtHand DEF Inspect
<1>9. pc = "inspect" /\ expired' = FALSE /\ UNCHANGED <<batch, ran, cancel>>
  BY DEF Inspect
<1>1. CASE verdict[at] = "allow"
  <2>0. Admitted /\ UNCHANGED bus
    BY <1>0, <1>1, AllowDoes DEF Inspect
  <2>1. TypeOK'
    BY <1>0, <1>1, <2>0, <1>9 DEF TypeOK, Over, Admitted, batch, place, blocks, bus,
       cancel
  <2>2. Placed'
    BY BatchAssumption, <1>1, <2>0, <1>9 DEF IndInv, TypeOK, Placed, Approved,
       Calls, Admitted, batch, place, blocks, bus, cancel
  <2>3. Counted'
    BY BatchAssumption, <1>1, <2>0, <1>9 DEF IndInv, TypeOK, Placed, Counted,
       Blocks, Open, Gating, Calls, Admitted, batch, place, blocks, bus, cancel
  <2>4. Executed'
    BY <1>1, <2>0, <1>9 DEF IndInv, Executed, Unsettled, Approved, Blocks, Gating,
       Admitted, batch, place, blocks, bus, cancel
  <2>5. Said'
    BY <1>1, <2>0, <1>9 DEF IndInv, Said, Truth, Blocks, Admitted, batch, place,
       blocks, bus, cancel
  <2>6. Waiting'
    BY <1>1, <2>0, <1>9 DEF IndInv, Waiting, Admitted, batch, place, blocks, bus,
       cancel
  <2>7. Stopped'
    BY BatchAssumption, <1>1, <2>0, <1>9 DEF IndInv, TypeOK, Placed, Stopped, Open,
       Gating, Calls, Admitted, batch, place, blocks, bus, cancel
  <2> QED BY <2>1, <2>2, <2>3, <2>4, <2>5, <2>6, <2>7 DEF IndInv
<1>2. CASE verdict[at] = "deny"
  <2>0. Refused("denied") /\ UNCHANGED bus
    BY <1>0, <1>2, RefuseDoes DEF Inspect
  <2>1. TypeOK'
    <3>1. inChunk' \in [Calls -> 0..1] /\ at' \in 1..(N + 1)
      BY <1>0, <2>0 DEF TypeOK, Refused
    <3>2. says' \in [Calls -> {"nothing", "result", "error", "denied", "rejected", "cancelled"}]
      BY <1>0, <2>0 DEF TypeOK, Refused
    <3> QED BY <1>0, <1>9, <2>0, <3>1, <3>2 DEF TypeOK, Refused, batch, bus, cancel
  <2>2. Placed'
    BY BatchAssumption, <1>2, <2>0, <1>9 DEF IndInv, TypeOK, Placed, Approved,
       Calls, Refused, batch, place, blocks, bus, cancel
  <2>3. Counted'
    BY BatchAssumption, <1>2, <2>0, <1>9 DEF IndInv, TypeOK, Placed, Counted,
       Blocks, Open, Gating, Calls, Refused, batch, place, blocks, bus, cancel
  <2>4. Executed'
    BY <1>2, <2>0, <1>9 DEF IndInv, Executed, Unsettled, Approved, Blocks, Gating,
       Refused, batch, place, blocks, bus, cancel
  <2>5. Said'
    BY <1>2, <2>0, <1>9 DEF IndInv, TypeOK, Placed, Counted, Executed, Unsettled, Said,
       Truth, Blocks, Open, Gating, Refused, batch, place, blocks, bus, cancel
  <2>6. Waiting'
    BY <1>2, <2>0, <1>9 DEF IndInv, Waiting, Refused, batch, place, blocks, bus,
       cancel
  <2>7. Stopped'
    BY BatchAssumption, <1>2, <2>0, <1>9 DEF IndInv, TypeOK, Placed, Stopped, Open,
       Gating, Calls, Refused, batch, place, blocks, bus, cancel
  <2> QED BY <2>1, <2>2, <2>3, <2>4, <2>5, <2>6, <2>7 DEF IndInv
<1>3. CASE verdict[at] = "confirm"
  <2>0. Unmoved("confirm") /\ RegisterPending(at)
    BY <1>0, <1>3 DEF Inspect, Goto, Unmoved, blocks
  <2>1. TypeOK'
    BY <1>0, <1>3, <2>0, <1>9 DEF TypeOK, Over, Unmoved, RegisterPending, batch,
       place, blocks, bus, cancel
  <2>2. Placed'
    BY <1>3, <2>0, <1>9 DEF IndInv, Placed, Approved, Unmoved, RegisterPending,
       batch, place, blocks, bus, cancel
  <2>3. Counted'
    BY <1>3, <2>0, <1>9 DEF IndInv, Counted, Blocks, Open, Gating, Unmoved,
       RegisterPending, batch, place, blocks, bus, cancel
  <2>4. Executed'
    BY <1>3, <2>0, <1>9 DEF IndInv, Executed, Unsettled, Approved, Blocks, Gating,
       Unmoved, RegisterPending, batch, place, blocks, bus, cancel
  <2>5. Said'
    BY <1>3, <2>0, <1>9 DEF IndInv, Said, Truth, Blocks, Unmoved, RegisterPending,
       batch, place, blocks, bus, cancel
  <2>6. Waiting'
    BY <1>3, <2>0, <1>9 DEF IndInv, TypeOK, Placed, Waiting, Unmoved,
       RegisterPending, batch, place, blocks, bus, cancel
  <2>7. Stopped'
    BY <1>3, <2>0, <1>9 DEF IndInv, Stopped, Open, Gating, Unmoved, RegisterPending,
       batch, place, blocks, bus, cancel
  <2> QED BY <2>1, <2>2, <2>3, <2>4, <2>5, <2>6, <2>7 DEF IndInv
<1> QED BY <1>0, <1>1, <1>2, <1>3 DEF Inspect, IndInv, TypeOK

\* ConfirmAnswered keeps the invariant (_resolve_inspector_decision).
LEMMA ConfirmAnsweredInv ==
    ASSUME IndInv, ConfirmAnswered
    PROVE  IndInv'
<1>0. TypeOK /\ at \in Calls /\ at + 1 \in 1..(N + 1) /\ inChunk[at] = 0
  BY AtHand DEF ConfirmAnswered
<1>1. CASE "yes" \in answer[at]
  <2>0. Admitted
    BY <1>0, <1>1, AllowDoes DEF ConfirmAnswered
  <2>1. TypeOK'
    BY <1>0, <1>1, <2>0 DEF TypeOK, Over, ConfirmAnswered, Admitted, batch, place,
       blocks, bus, cancel
  <2>2. Placed'
    BY BatchAssumption, <1>1, <2>0 DEF IndInv, TypeOK, Placed, Approved, Calls,
       ConfirmAnswered, Admitted, batch, place, blocks, bus, cancel
  <2>3. Counted'
    BY BatchAssumption, <1>1, <2>0 DEF IndInv, TypeOK, Placed, Counted, Blocks,
       Open, Gating, Calls, ConfirmAnswered, Admitted, batch, place, blocks, bus,
       cancel
  <2>4. Executed'
    BY <1>1, <2>0 DEF IndInv, Executed, Unsettled, Approved, Blocks, Gating,
       ConfirmAnswered, Admitted, batch, place, blocks, bus, cancel
  <2>5. Said'
    BY <1>1, <2>0 DEF IndInv, Said, Truth, Blocks, ConfirmAnswered, Admitted, batch,
       place, blocks, bus, cancel
  <2>6. Waiting'
    BY <1>1, <2>0 DEF IndInv, Waiting, ConfirmAnswered, Admitted, batch, place,
       blocks, bus, cancel
  <2>7. Stopped'
    BY BatchAssumption, <1>1, <2>0 DEF IndInv, TypeOK, Placed, Stopped, Open,
       Gating, Calls, ConfirmAnswered, Admitted, batch, place, blocks, bus, cancel
  <2> QED BY <2>1, <2>2, <2>3, <2>4, <2>5, <2>6, <2>7 DEF IndInv
<1>2. CASE "yes" \notin answer[at]
  <2>0. Refused("denied")
    BY <1>0, <1>2, RefuseDoes DEF ConfirmAnswered
  <2>1. TypeOK'
    BY <1>0, <1>2, <2>0 DEF TypeOK, Over, ConfirmAnswered, Refused, batch, place,
       blocks, bus, cancel
  <2>2. Placed'
    BY BatchAssumption, <1>2, <2>0 DEF IndInv, TypeOK, Placed, Approved, Calls,
       ConfirmAnswered, Refused, batch, place, blocks, bus, cancel
  <2>3. Counted'
    BY BatchAssumption, <1>2, <2>0 DEF IndInv, TypeOK, Placed, Counted, Blocks,
       Open, Gating, Calls, ConfirmAnswered, Refused, batch, place, blocks, bus,
       cancel
  <2>4. Executed'
    BY <1>2, <2>0 DEF IndInv, TypeOK, Executed, Unsettled, Approved, Blocks, Gating,
       ConfirmAnswered, Refused, batch, place, blocks, bus, cancel
  <2>5. Said'
    BY <1>2, <2>0 DEF IndInv, TypeOK, Placed, Counted, Executed, Unsettled, Said, Truth,
       Blocks, Open, Gating, ConfirmAnswered, Refused, batch, place, blocks, bus,
       cancel
  <2>6. Waiting'
    BY <1>2, <2>0 DEF IndInv, Waiting, ConfirmAnswered, Refused, batch, place,
       blocks, bus, cancel
  <2>7. Stopped'
    BY BatchAssumption, <1>2, <2>0 DEF IndInv, TypeOK, Placed, Stopped, Open,
       Gating, Calls, ConfirmAnswered, Refused, batch, place, blocks, bus, cancel
  <2> QED BY <2>1, <2>2, <2>3, <2>4, <2>5, <2>6, <2>7 DEF IndInv
<1> QED BY <1>0, <1>1, <1>2 DEF ConfirmAnswered, IndInv, TypeOK

\* ConfirmTimesOut keeps the invariant (_await_user_response_any).
LEMMA ConfirmTimesOutInv ==
    ASSUME IndInv, ConfirmTimesOut
    PROVE  IndInv'
<1>0. TypeOK /\ at \in Calls /\ at + 1 \in 1..(N + 1) /\ inChunk[at] = 0
  BY AtHand DEF ConfirmTimesOut
<1>1. CASE TRUE
  <2>0. Refused("denied")
    BY <1>0, <1>1, RefuseDoes DEF ConfirmTimesOut
  <2>1. TypeOK'
    BY <1>0, <1>1, <2>0 DEF TypeOK, Over, ConfirmTimesOut, AbandonPendingTimeout,
       Refused, batch, place, blocks, bus, cancel
  <2>2. Placed'
    BY BatchAssumption, <1>1, <2>0 DEF IndInv, TypeOK, Placed, Approved, Calls,
       ConfirmTimesOut, AbandonPendingTimeout, Refused, batch, place, blocks, bus,
       cancel
  <2>3. Counted'
    BY BatchAssumption, <1>1, <2>0 DEF IndInv, TypeOK, Placed, Counted, Blocks,
       Open, Gating, Calls, ConfirmTimesOut, AbandonPendingTimeout, Refused, batch,
       place, blocks, bus, cancel
  <2>4. Executed'
    BY <1>1, <2>0 DEF IndInv, TypeOK, Executed, Unsettled, Approved, Blocks, Gating,
       ConfirmTimesOut, AbandonPendingTimeout, Refused, batch, place, blocks, bus,
       cancel
  <2>5. Said'
    BY <1>1, <2>0 DEF IndInv, TypeOK, Placed, Counted, Executed, Unsettled, Said, Truth,
       Blocks, Open, Gating, ConfirmTimesOut, AbandonPendingTimeout, Refused, batch,
       place, blocks, bus, cancel
  <2>6. Waiting'
    BY <1>1, <2>0 DEF IndInv, Waiting, ConfirmTimesOut, AbandonPendingTimeout,
       Refused, batch, place, blocks, bus, cancel
  <2>7. Stopped'
    BY BatchAssumption, <1>1, <2>0 DEF IndInv, TypeOK, Placed, Stopped, Open,
       Gating, Calls, ConfirmTimesOut, AbandonPendingTimeout, Refused, batch, place,
       blocks, bus, cancel
  <2> QED BY <2>1, <2>2, <2>3, <2>4, <2>5, <2>6, <2>7 DEF IndInv
<1> QED BY <1>0, <1>1 DEF ConfirmTimesOut, IndInv, TypeOK

\* ConfirmCancelled keeps the invariant (_gate_chunk_calls).
LEMMA ConfirmCancelledInv ==
    ASSUME IndInv, ConfirmCancelled
    PROVE  IndInv'
<1>1. TypeOK'
  BY DEF IndInv, TypeOK, Over, ConfirmCancelled, StoppedByUser, Goto, batch, place,
     blocks, bus, cancel
<1>2. Placed'
  BY DEF IndInv, Placed, Approved, ConfirmCancelled, StoppedByUser, Goto, batch,
     place, blocks, bus, cancel
<1>3. Counted'
  BY DEF IndInv, Counted, Blocks, Open, Gating, ConfirmCancelled, StoppedByUser,
     Goto, batch, place, blocks, bus, cancel
<1>4. Executed'
  BY DEF IndInv, Executed, Unsettled, Approved, Blocks, Gating, ConfirmCancelled,
     StoppedByUser, Goto, batch, place, blocks, bus, cancel
<1>5. Said'
  BY DEF IndInv, Said, Truth, Blocks, ConfirmCancelled, StoppedByUser, Goto, batch,
     place, blocks, bus, cancel
<1>6. Waiting'
  BY DEF IndInv, Waiting, ConfirmCancelled, StoppedByUser, Goto, batch, place,
     blocks, bus, cancel
<1>7. Stopped'
  BY DEF IndInv, Stopped, Open, Gating, ConfirmCancelled, StoppedByUser, Goto,
     batch, place, blocks, bus, cancel
<1> QED BY <1>1, <1>2, <1>3, <1>4, <1>5, <1>6, <1>7 DEF IndInv

\* NothingAllowed keeps the invariant (dispatch_tool_batch).
LEMMA NothingAllowedInv ==
    ASSUME IndInv, NothingAllowed
    PROVE  IndInv'
<1>1. TypeOK'
  BY DEF IndInv, TypeOK, Over, Counted, Blocks, Open, Gating, NothingAllowed, Merge,
     Goto, Nothing, batch, place, blocks, bus, cancel
<1>2. Placed'
  BY DEF IndInv, Placed, Approved, NothingAllowed, Merge, Goto, Nothing, batch,
     place, blocks, bus, cancel
<1>3. Counted'
  BY DEF IndInv, Counted, Blocks, Open, Gating, NothingAllowed, Merge, Goto,
     Nothing, batch, place, blocks, bus, cancel
<1>4. Executed'
  BY DEF IndInv, TypeOK, Executed, Unsettled, Approved, Blocks, Gating, NothingAllowed,
     Merge, Goto, Nothing, batch, place, blocks, bus, cancel
<1>5. Said'
  BY DEF IndInv, Said, Truth, Blocks, NothingAllowed, Merge, Goto, Nothing, batch,
     place, blocks, bus, cancel
<1>6. Waiting'
  BY DEF IndInv, Waiting, NothingAllowed, Merge, Goto, Nothing, batch, place,
     blocks, bus, cancel
<1>7. Stopped'
  BY DEF IndInv, Stopped, Open, Gating, NothingAllowed, Merge, Goto, Nothing, batch,
     place, blocks, bus, cancel
<1> QED BY <1>1, <1>2, <1>3, <1>4, <1>5, <1>6, <1>7 DEF IndInv

\* ExecuteSerial keeps the invariant (_execute_serial_chunk).
LEMMA ExecuteSerialInv ==
    ASSUME IndInv, ExecuteSerial
    PROVE  IndInv'
<1>1. TypeOK'
  BY DEF IndInv, TypeOK, Over, ExecuteSerial, Goto, batch, place, blocks, bus,
     cancel
<1>2. Placed'
  BY DEF IndInv, Placed, Approved, ExecuteSerial, Goto, batch, place, blocks, bus,
     cancel
<1>3. Counted'
  BY DEF IndInv, Counted, Blocks, Open, Gating, ExecuteSerial, Goto, batch, place,
     blocks, bus, cancel
<1>4. Executed'
  BY DEF IndInv, TypeOK, Placed, Executed, Unsettled, Approved, Blocks, Gating,
     ExecuteSerial, Goto, batch, place, blocks, bus, cancel
<1>5. Said'
  BY DEF IndInv, TypeOK, Counted, Said, Truth, Blocks, Open, Gating, ExecuteSerial,
     Goto, batch, place, blocks, bus, cancel
<1>6. Waiting'
  BY DEF IndInv, TypeOK, Executed, Unsettled, Blocks, Waiting, ExecuteSerial, Goto,
     batch, place, blocks, bus, cancel
<1>7. Stopped'
  BY DEF IndInv, Stopped, Open, Gating, ExecuteSerial, Goto, batch, place, blocks,
     bus, cancel
<1> QED BY <1>1, <1>2, <1>3, <1>4, <1>5, <1>6, <1>7 DEF IndInv

\* ExecuteParallel keeps the invariant (_execute_parallel_chunk).
LEMMA ExecuteParallelInv ==
    ASSUME IndInv, ExecuteParallel
    PROVE  IndInv'
<1>1. TypeOK'
  BY DEF IndInv, TypeOK, Over, ExecuteParallel, Goto, batch, place, blocks, bus,
     cancel
<1>2. Placed'
  BY DEF IndInv, Placed, Approved, ExecuteParallel, Goto, batch, place, blocks, bus,
     cancel
<1>3. Counted'
  BY DEF IndInv, Counted, Blocks, Open, Gating, ExecuteParallel, Goto, batch, place,
     blocks, bus, cancel
<1>4. Executed'
  BY DEF IndInv, TypeOK, Placed, Executed, Unsettled, Approved, Blocks, Gating,
     ExecuteParallel, Goto, batch, place, blocks, bus, cancel
<1>5. Said'
  BY DEF IndInv, TypeOK, Counted, Said, Truth, Blocks, Open, Gating,
     ExecuteParallel, Goto, batch, place, blocks, bus, cancel
<1>6. Waiting'
  BY DEF IndInv, TypeOK, Executed, Unsettled, Blocks, Waiting, ExecuteParallel, Goto,
     batch, place, blocks, bus, cancel
<1>7. Stopped'
  BY DEF IndInv, Stopped, Open, Gating, ExecuteParallel, Goto, batch, place, blocks,
     bus, cancel
<1> QED BY <1>1, <1>2, <1>3, <1>4, <1>5, <1>6, <1>7 DEF IndInv

\* ToolStarts keeps the invariant (_run_parallel).
LEMMA ToolStartsInv ==
    ASSUME IndInv, NEW c \in Calls, ToolStarts(c)
    PROVE  IndInv'
<1>1. TypeOK'
  BY DEF IndInv, TypeOK, Over, ToolStarts, batch, place, blocks, bus, cancel
<1>2. Placed'
  BY DEF IndInv, Placed, Approved, ToolStarts, batch, place, blocks, bus, cancel
<1>3. Counted'
  BY DEF IndInv, Counted, Blocks, Open, Gating, ToolStarts, batch, place, blocks,
     bus, cancel
<1>4. Executed'
  BY DEF IndInv, Executed, Unsettled, Approved, Blocks, Gating, ToolStarts, batch, place,
     blocks, bus, cancel
<1>5. Said'
  BY DEF IndInv, Said, Truth, Blocks, ToolStarts, batch, place, blocks, bus, cancel
<1>6. Waiting'
  BY DEF IndInv, Waiting, ToolStarts, batch, place, blocks, bus, cancel
<1>7. Stopped'
  BY DEF IndInv, Stopped, Open, Gating, ToolStarts, batch, place, blocks, bus,
     cancel
<1> QED BY <1>1, <1>2, <1>3, <1>4, <1>5, <1>6, <1>7 DEF IndInv

\* ToolEnds keeps the invariant (_execute_one_tool_call).
LEMMA ToolEndsInv ==
    ASSUME IndInv, NEW c \in Calls, ToolEnds(c)
    PROVE  IndInv'
<1>1. TypeOK'
  BY DEF IndInv, TypeOK, Over, ToolEnds, batch, place, blocks, bus, cancel
<1>2. Placed'
  BY DEF IndInv, Placed, Approved, ToolEnds, batch, place, blocks, bus, cancel
<1>3. Counted'
  BY DEF IndInv, Counted, Blocks, Open, Gating, ToolEnds, batch, place, blocks, bus,
     cancel
<1>4. Executed'
  BY DEF IndInv, Executed, Unsettled, Approved, Blocks, Gating, ToolEnds, batch, place,
     blocks, bus, cancel
<1>5. Said'
  BY DEF IndInv, TypeOK, Placed, Counted, Executed, Unsettled, Said, Truth, Blocks, Open,
     Gating, ToolEnds, batch, place, blocks, bus, cancel
<1>6. Waiting'
  BY DEF IndInv, Waiting, ToolEnds, batch, place, blocks, bus, cancel
<1>7. Stopped'
  BY DEF IndInv, Stopped, Open, Gating, ToolEnds, batch, place, blocks, bus, cancel
<1> QED BY <1>1, <1>2, <1>3, <1>4, <1>5, <1>6, <1>7 DEF IndInv

\* Ask keeps the invariant (_tool_ask_user).
LEMMA AskInv ==
    ASSUME IndInv, NEW c \in Calls, Ask(c)
    PROVE  IndInv'
<1>1. TypeOK'
  BY DEF IndInv, TypeOK, Over, Ask, RegisterPending, batch, place, blocks, bus,
     cancel
<1>2. Placed'
  BY DEF IndInv, Placed, Approved, Ask, RegisterPending, batch, place, blocks, bus,
     cancel
<1>3. Counted'
  BY DEF IndInv, Counted, Blocks, Open, Gating, Ask, RegisterPending, batch, place,
     blocks, bus, cancel
<1>4. Executed'
  BY DEF IndInv, Executed, Unsettled, Approved, Blocks, Gating, Ask, RegisterPending,
     batch, place, blocks, bus, cancel
<1>5. Said'
  BY DEF IndInv, Said, Truth, Blocks, Ask, RegisterPending, batch, place, blocks,
     bus, cancel
<1>6. Waiting'
  BY DEF IndInv, TypeOK, Waiting, Ask, RegisterPending, batch, place, blocks, bus,
     cancel
<1>7. Stopped'
  BY DEF IndInv, Stopped, Open, Gating, Ask, RegisterPending, batch, place, blocks,
     bus, cancel
<1> QED BY <1>1, <1>2, <1>3, <1>4, <1>5, <1>6, <1>7 DEF IndInv

\* AskReturns keeps the invariant (await_ask_user_answer).
LEMMA AskReturnsInv ==
    ASSUME IndInv, NEW c \in Calls, AskReturns(c)
    PROVE  IndInv'
<1>1. TypeOK'
  BY DEF IndInv, TypeOK, Over, AskReturns, batch, place, blocks, bus, cancel
<1>2. Placed'
  BY DEF IndInv, Placed, Approved, AskReturns, batch, place, blocks, bus, cancel
<1>3. Counted'
  BY DEF IndInv, Counted, Blocks, Open, Gating, AskReturns, batch, place, blocks,
     bus, cancel
<1>4. Executed'
  BY DEF IndInv, Executed, Unsettled, Approved, Blocks, Gating, AskReturns, batch, place,
     blocks, bus, cancel
<1>5. Said'
  BY DEF IndInv, TypeOK, Placed, Counted, Executed, Unsettled, Said, Truth, Blocks, Open,
     Gating, AskReturns, batch, place, blocks, bus, cancel
<1>6. Waiting'
  BY DEF IndInv, Waiting, AskReturns, batch, place, blocks, bus, cancel
<1>7. Stopped'
  BY DEF IndInv, Stopped, Open, Gating, AskReturns, batch, place, blocks, bus,
     cancel
<1> QED BY <1>1, <1>2, <1>3, <1>4, <1>5, <1>6, <1>7 DEF IndInv

\* ChunkReturns keeps the invariant (_execute_parallel_chunk).
LEMMA ChunkReturnsInv ==
    ASSUME IndInv, ChunkReturns
    PROVE  IndInv'
<1> DEFINE back == {c \in allowed : ran[c] \in {"done", "failed"}}
           all == back = allowed /\ session # "cancelled"
<1>1. \A c \in Calls : inChunk'[c] = inChunk[c] + IF c \in back THEN 1 ELSE 0
  BY DEF ChunkReturns, Finished
<1>2. inChunk' = [c \in Calls |-> inChunk'[c]]
  BY DEF ChunkReturns, Finished
<1>3. \A c \in Calls :
         says'[c] = IF c \in back THEN IF ran[c] = "done" THEN "result" ELSE "error"
                    ELSE says[c]
  BY DEF ChunkReturns, Finished
<1>4. says' = [c \in Calls |-> says'[c]]
  BY DEF ChunkReturns, Finished
<1>5. /\ pc = "executing" /\ pc' = IF all THEN "merge" ELSE "settle"
      /\ \A c \in allowed : ran[c] \in {"done", "failed", "cancelled"}
      /\ UNCHANGED <<at, allowed, batch, inBatch, history, ran, bus, expired, cancel>>
  BY DEF ChunkReturns, Goto
<1>6. \A c \in Calls : /\ inBatch[c] + inChunk[c] = IF c < at /\ c \notin allowed THEN 1 ELSE 0
                       /\ inBatch[c] \in 0..1 /\ inChunk[c] \in 0..1
  BY <1>5 DEF IndInv, TypeOK, Counted, Blocks, Open
<1>7. \A c \in allowed : c \in Calls /\ c < at /\ inBatch[c] = 0 /\ inChunk[c] = 0
  BY <1>6 DEF IndInv, TypeOK, Placed
<1>8. TypeOK'
  <2>1. inChunk' \in [Calls -> 0..1]
    BY <1>1, <1>2, <1>6, <1>7
  <2>2. says' \in [Calls -> {"nothing", "result", "error", "denied", "rejected", "cancelled"}]
    BY <1>3, <1>4 DEF IndInv, TypeOK
  <2> QED BY <1>5, <2>1, <2>2 DEF IndInv, TypeOK, Over, batch, bus, cancel
<1>9. Placed'
  BY <1>5 DEF IndInv, Placed, Approved, batch, bus
<1>10. Counted'
  BY <1>1, <1>5, <1>6, <1>7 DEF Counted, Blocks, Open, Gating
<1>11. Executed'
  BY <1>1, <1>5, <1>6, <1>7 DEF IndInv, Executed, Unsettled, Approved, Blocks, Gating,
     batch, bus
<1>12. Said'
  <2>1. ASSUME NEW c \in Calls, Blocks(c)' # 0
        PROVE  Truth(c)'
    <3>1. CASE c \in back
      BY <1>3, <1>5, <3>1 DEF Truth
    <3>2. CASE c \notin back
      <4>1. Blocks(c) # 0
        BY <1>1, <1>5, <1>6, <2>1, <3>2 DEF Blocks
      <4> QED BY <1>3, <1>5, <3>2, <4>1 DEF IndInv, Said, Truth
    <3> QED BY <3>1, <3>2
  <2> QED BY <2>1 DEF Said
<1>13. Waiting'
  BY <1>5 DEF IndInv, Waiting, bus, cancel
<1>14. Stopped'
  BY <1>5 DEF IndInv, Stopped, Open, cancel
<1> QED BY <1>8, <1>9, <1>10, <1>11, <1>12, <1>13, <1>14 DEF IndInv

\* MergeChunk keeps the invariant (dispatch_tool_batch).
LEMMA MergeChunkInv ==
    ASSUME IndInv, MergeChunk
    PROVE  IndInv'
<1>1. TypeOK'
  BY DEF IndInv, TypeOK, Over, Counted, Blocks, Open, Gating, MergeChunk, Merge,
     Nothing, batch, place, blocks, bus, cancel
<1>2. Placed'
  BY DEF IndInv, Placed, Approved, MergeChunk, Merge, Nothing, batch, place, blocks,
     bus, cancel
<1>3. Counted'
  BY DEF IndInv, Counted, Blocks, Open, Gating, MergeChunk, Merge, Nothing, batch,
     place, blocks, bus, cancel
<1>4. Executed'
  BY DEF IndInv, TypeOK, Executed, Unsettled, Approved, Blocks, Gating, MergeChunk,
     Merge, Nothing, batch, place, blocks, bus, cancel
<1>5. Said'
  BY DEF IndInv, Said, Truth, Blocks, MergeChunk, Merge, Nothing, batch, place,
     blocks, bus, cancel
<1>6. Waiting'
  BY DEF IndInv, Waiting, MergeChunk, Merge, Nothing, batch, place, blocks, bus,
     cancel
<1>7. Stopped'
  BY DEF IndInv, Stopped, Open, Gating, MergeChunk, Merge, Nothing, batch, place,
     blocks, bus, cancel
<1> QED BY <1>1, <1>2, <1>3, <1>4, <1>5, <1>6, <1>7 DEF IndInv

\* Settle keeps the invariant (dispatch_tool_batch).
LEMMA SettleInv ==
    ASSUME IndInv, Settle
    PROVE  IndInv'
<1>1. TypeOK'
  BY DEF IndInv, TypeOK, Over, Counted, Blocks, Open, Gating, Settle, FillAbort,
     Nothing, Goto, batch, place, blocks, bus, cancel
<1>2. Placed'
  BY DEF IndInv, Placed, Approved, Settle, FillAbort, Nothing, Goto, batch, place,
     blocks, bus, cancel
<1>3. Counted'
  BY DEF IndInv, Counted, Blocks, Open, Gating, Settle, FillAbort, Nothing, Goto,
     batch, place, blocks, bus, cancel
<1>4. Executed'
  BY DEF IndInv, Executed, Unsettled, Approved, Blocks, Gating, Settle, FillAbort,
     Nothing, Goto, batch, place, blocks, bus, cancel
<1>5. Said'
  BY DEF IndInv, TypeOK, Executed, Unsettled, Said, Truth, Blocks, Settle, FillAbort,
     Nothing, Goto, batch, place, blocks, bus, cancel
<1>6. Waiting'
  BY DEF IndInv, Waiting, Settle, FillAbort, Nothing, Goto, batch, place, blocks,
     bus, cancel
<1>7. Stopped'
  BY DEF IndInv, Stopped, Open, Gating, Settle, FillAbort, Nothing, Goto, batch,
     place, blocks, bus, cancel
<1> QED BY <1>1, <1>2, <1>3, <1>4, <1>5, <1>6, <1>7 DEF IndInv

\* AppendRow keeps the invariant (_post_batch_budget_and_registry).
LEMMA AppendRowInv ==
    ASSUME IndInv, AppendRow
    PROVE  IndInv'
<1>1. TypeOK'
  BY DEF IndInv, TypeOK, Over, AppendRow, Goto, batch, place, blocks, bus, cancel
<1>2. Placed'
  BY DEF IndInv, Placed, Approved, AppendRow, Goto, batch, place, blocks, bus,
     cancel
<1>3. Counted'
  BY DEF IndInv, Counted, Blocks, Open, Gating, AppendRow, Goto, batch, place,
     blocks, bus, cancel
<1>4. Executed'
  BY DEF IndInv, Executed, Unsettled, Approved, Blocks, Gating, AppendRow, Goto, batch,
     place, blocks, bus, cancel
<1>5. Said'
  BY DEF IndInv, Said, Truth, Blocks, AppendRow, Goto, batch, place, blocks, bus,
     cancel
<1>6. Waiting'
  BY DEF IndInv, Waiting, AppendRow, Goto, batch, place, blocks, bus, cancel
<1>7. Stopped'
  BY DEF IndInv, Stopped, Open, Gating, AppendRow, Goto, batch, place, blocks, bus,
     cancel
<1> QED BY <1>1, <1>2, <1>3, <1>4, <1>5, <1>6, <1>7 DEF IndInv

\* Post keeps the invariant (post_tool_confirmation).
LEMMA PostInv ==
    ASSUME IndInv, NEW c \in Calls, NEW a \in {"yes", "no", "text"}, Post(c, a)
    PROVE  IndInv'
<1>1. TypeOK'
  BY DEF IndInv, TypeOK, Over, Post, ResolvePending, batch, place, blocks, bus,
     cancel
<1>2. Placed'
  BY DEF IndInv, Placed, Approved, Post, ResolvePending, batch, place, blocks, bus,
     cancel
<1>3. Counted'
  BY DEF IndInv, Counted, Blocks, Open, Gating, Post, ResolvePending, batch, place,
     blocks, bus, cancel
<1>4. Executed'
  BY DEF IndInv, Executed, Unsettled, Approved, Blocks, Gating, Post, ResolvePending,
     batch, place, blocks, bus, cancel
<1>5. Said'
  BY DEF IndInv, Said, Truth, Blocks, Post, ResolvePending, batch, place, blocks,
     bus, cancel
<1>6. Waiting'
  BY DEF IndInv, Waiting, Post, ResolvePending, batch, place, blocks, bus, cancel
<1>7. Stopped'
  BY DEF IndInv, Stopped, Open, Gating, Post, ResolvePending, batch, place, blocks,
     bus, cancel
<1> QED BY <1>1, <1>2, <1>3, <1>4, <1>5, <1>6, <1>7 DEF IndInv

\* TimerFires keeps the invariant (_await_user_response_any).
LEMMA TimerFiresInv ==
    ASSUME IndInv, TimerFires
    PROVE  IndInv'
<1>1. TypeOK'
  BY DEF IndInv, TypeOK, Over, TimerFires, batch, place, blocks, bus, cancel
<1>2. Placed'
  BY DEF IndInv, Placed, Approved, TimerFires, batch, place, blocks, bus, cancel
<1>3. Counted'
  BY DEF IndInv, Counted, Blocks, Open, Gating, TimerFires, batch, place, blocks,
     bus, cancel
<1>4. Executed'
  BY DEF IndInv, Executed, Unsettled, Approved, Blocks, Gating, TimerFires, batch, place,
     blocks, bus, cancel
<1>5. Said'
  BY DEF IndInv, Said, Truth, Blocks, TimerFires, batch, place, blocks, bus, cancel
<1>6. Waiting'
  BY DEF IndInv, Waiting, TimerFires, batch, place, blocks, bus, cancel
<1>7. Stopped'
  BY DEF IndInv, Stopped, Open, Gating, TimerFires, batch, place, blocks, bus,
     cancel
<1> QED BY <1>1, <1>2, <1>3, <1>4, <1>5, <1>6, <1>7 DEF IndInv

\* Stop keeps the invariant (post_cancel).
LEMMA StopInv ==
    ASSUME IndInv, Stop
    PROVE  IndInv'
<1>1. TypeOK'
  BY DEF IndInv, TypeOK, Over, Stop, SetEvent, AbandonPendingCancelAll, Active,
     Over, batch, place, blocks, bus, cancel
<1>2. Placed'
  BY DEF IndInv, Placed, Approved, Stop, SetEvent, AbandonPendingCancelAll, Active,
     batch, place, blocks, bus, cancel
<1>3. Counted'
  BY DEF IndInv, Counted, Blocks, Open, Gating, Stop, SetEvent,
     AbandonPendingCancelAll, Active, batch, place, blocks, bus, cancel
<1>4. Executed'
  BY DEF IndInv, Executed, Unsettled, Approved, Blocks, Gating, Stop, SetEvent,
     AbandonPendingCancelAll, Active, batch, place, blocks, bus, cancel
<1>5. Said'
  BY DEF IndInv, Said, Truth, Blocks, Stop, SetEvent, AbandonPendingCancelAll,
     Active, batch, place, blocks, bus, cancel
<1>6. Waiting'
  BY DEF IndInv, TypeOK, Placed, Waiting, Stop, SetEvent, AbandonPendingCancelAll,
     Active, batch, place, blocks, bus, cancel
<1>7. Stopped'
  BY DEF IndInv, TypeOK, Placed, Stopped, Open, Gating, Stop, SetEvent,
     AbandonPendingCancelAll, Active, batch, place, blocks, bus, cancel
<1> QED BY <1>1, <1>2, <1>3, <1>4, <1>5, <1>6, <1>7 DEF IndInv

\* StaleStop keeps the invariant (post_cancel).
LEMMA StaleStopInv ==
    ASSUME IndInv, StaleStop
    PROVE  IndInv'
<1>1. TypeOK'
  BY DEF IndInv, TypeOK, Over, StaleStop, AbandonPendingCancelAll, Active, Over,
     batch, place, blocks, bus, cancel
<1>2. Placed'
  BY DEF IndInv, Placed, Approved, StaleStop, AbandonPendingCancelAll, Active,
     batch, place, blocks, bus, cancel
<1>3. Counted'
  BY DEF IndInv, Counted, Blocks, Open, Gating, StaleStop, AbandonPendingCancelAll,
     Active, batch, place, blocks, bus, cancel
<1>4. Executed'
  BY DEF IndInv, Executed, Unsettled, Approved, Blocks, Gating, StaleStop,
     AbandonPendingCancelAll, Active, batch, place, blocks, bus, cancel
<1>5. Said'
  BY DEF IndInv, Said, Truth, Blocks, StaleStop, AbandonPendingCancelAll, Active,
     batch, place, blocks, bus, cancel
<1>6. Waiting'
  BY DEF IndInv, Waiting, StaleStop, AbandonPendingCancelAll, Active, batch, place,
     blocks, bus, cancel
<1>7. Stopped'
  BY DEF IndInv, Stopped, Open, Gating, StaleStop, AbandonPendingCancelAll, Active,
     batch, place, blocks, bus, cancel
<1> QED BY <1>1, <1>2, <1>3, <1>4, <1>5, <1>6, <1>7 DEF IndInv

\* Detach keeps the invariant (_detach).
LEMMA DetachInv ==
    ASSUME IndInv, Detach
    PROVE  IndInv'
<1>1. TypeOK'
  BY DEF IndInv, TypeOK, Over, Detach, AbandonPendingCancelAll, Active, Over, batch,
     place, blocks, bus, cancel
<1>2. Placed'
  BY DEF IndInv, Placed, Approved, Detach, AbandonPendingCancelAll, Active, batch,
     place, blocks, bus, cancel
<1>3. Counted'
  BY DEF IndInv, Counted, Blocks, Open, Gating, Detach, AbandonPendingCancelAll,
     Active, batch, place, blocks, bus, cancel
<1>4. Executed'
  BY DEF IndInv, Executed, Unsettled, Approved, Blocks, Gating, Detach,
     AbandonPendingCancelAll, Active, batch, place, blocks, bus, cancel
<1>5. Said'
  BY DEF IndInv, Said, Truth, Blocks, Detach, AbandonPendingCancelAll, Active,
     batch, place, blocks, bus, cancel
<1>6. Waiting'
  BY DEF IndInv, Waiting, Detach, AbandonPendingCancelAll, Active, batch, place,
     blocks, bus, cancel
<1>7. Stopped'
  BY DEF IndInv, Stopped, Open, Gating, Detach, AbandonPendingCancelAll, Active,
     batch, place, blocks, bus, cancel
<1> QED BY <1>1, <1>2, <1>3, <1>4, <1>5, <1>6, <1>7 DEF IndInv

\* Quiesce keeps the invariant (quiesce_active_turn).
LEMMA QuiesceInv ==
    ASSUME IndInv, Quiesce
    PROVE  IndInv'
<1>1. TypeOK'
  BY DEF IndInv, TypeOK, Over, Quiesce, batch, place, blocks, bus, cancel
<1>2. Placed'
  BY DEF IndInv, Placed, Approved, Quiesce, batch, place, blocks, bus, cancel
<1>3. Counted'
  BY DEF IndInv, Counted, Blocks, Open, Gating, Quiesce, batch, place, blocks, bus,
     cancel
<1>4. Executed'
  BY DEF IndInv, Executed, Unsettled, Approved, Blocks, Gating, Quiesce, batch, place,
     blocks, bus, cancel
<1>5. Said'
  BY DEF IndInv, Said, Truth, Blocks, Quiesce, batch, place, blocks, bus, cancel
<1>6. Waiting'
  BY DEF IndInv, Waiting, Quiesce, batch, place, blocks, bus, cancel
<1>7. Stopped'
  BY DEF IndInv, Stopped, Open, Gating, Quiesce, batch, place, blocks, bus, cancel
<1> QED BY <1>1, <1>2, <1>3, <1>4, <1>5, <1>6, <1>7 DEF IndInv

\* Watch keeps the invariant (_watch_cancel).
LEMMA WatchInv ==
    ASSUME IndInv, Watch
    PROVE  IndInv'
<1>1. TypeOK'
  BY DEF IndInv, TypeOK, Over, Watch, SetEvent, Active, Over, batch, place, blocks,
     bus, cancel
<1>2. Placed'
  BY DEF IndInv, Placed, Approved, Watch, SetEvent, Active, batch, place, blocks,
     bus, cancel
<1>3. Counted'
  BY DEF IndInv, Counted, Blocks, Open, Gating, Watch, SetEvent, Active, batch,
     place, blocks, bus, cancel
<1>4. Executed'
  BY DEF IndInv, Executed, Unsettled, Approved, Blocks, Gating, Watch, SetEvent, Active,
     batch, place, blocks, bus, cancel
<1>5. Said'
  BY DEF IndInv, Said, Truth, Blocks, Watch, SetEvent, Active, batch, place, blocks,
     bus, cancel
<1>6. Waiting'
  BY DEF IndInv, Waiting, Watch, SetEvent, Active, batch, place, blocks, bus, cancel
<1>7. Stopped'
  BY DEF IndInv, TypeOK, Placed, Stopped, Open, Gating, Watch, SetEvent, Active,
     batch, place, blocks, bus, cancel
<1> QED BY <1>1, <1>2, <1>3, <1>4, <1>5, <1>6, <1>7 DEF IndInv

\* HardCancel keeps the invariant (quiesce_active_turn).
LEMMA HardCancelInv ==
    ASSUME IndInv, HardCancel
    PROVE  IndInv'
<1> DEFINE hit == pc = "executing" /\ (Parallel \/ InFlight # {})
<1>1. /\ session' = "cancelled" /\ pc \notin Over
      /\ UNCHANGED <<batch, blocks, keys, ended, answer, expired, event, wanted, strayed, spared>>
  BY DEF HardCancel, Active
<1>2. CASE hit
  <2>1. /\ UNCHANGED place /\ pc = "executing"
        /\ ran' = [c \in Calls |-> IF Unsettled(c) THEN "cancelled" ELSE ran[c]]
        /\ fut' = [c \in Calls |-> IF ran[c] = "asking" /\ fut[c] = "pending"
                                   THEN "cancelled" ELSE fut[c]]
    BY <1>2 DEF HardCancel, InFlight, Unsettled, IndInv, TypeOK
  <2>2. TypeOK'
    BY <1>1, <2>1 DEF IndInv, TypeOK, Over, batch, place, blocks, bus, cancel
  <2>3. Placed'
    BY <1>1, <2>1 DEF IndInv, Placed, Approved, batch, place, blocks, bus, cancel
  <2>4. Counted'
    BY <1>1, <2>1 DEF IndInv, Counted, Blocks, Open, Gating, batch, place, blocks,
       bus, cancel
  <2>5. Executed'
    BY <1>1, <2>1 DEF IndInv, Executed, Unsettled, Approved, Blocks, Gating, Unsettled, batch,
       place, blocks, bus, cancel
  <2>6. Said'
    BY <1>1, <2>1 DEF IndInv, TypeOK, Executed, Unsettled, Said, Truth, Blocks, Unsettled,
       batch, place, blocks, bus, cancel
  <2>7. Waiting'
    BY <1>1, <2>1 DEF IndInv, Waiting, batch, place, blocks, bus, cancel
  <2>8. Stopped'
    BY <1>1, <2>1 DEF IndInv, Stopped, Open, Gating, batch, place, blocks, bus,
       cancel
  <2> QED BY <2>2, <2>3, <2>4, <2>5, <2>6, <2>7, <2>8 DEF IndInv
<1>3. CASE ~hit
  <2>1. /\ at' = at /\ allowed' = allowed /\ ran' = ran /\ fut' = fut
        /\ pc' = IF pc = "confirm" /\ StoppedByUser(at) THEN "settle" ELSE "dead"
    BY <1>3 DEF HardCancel, Goto
  <2>2. \A c \in Calls : ~Unsettled(c)
    BY <1>3 DEF IndInv, Executed, InFlight, Unsettled
  <2>3. TypeOK'
    BY <1>1, <2>1, <2>2 DEF IndInv, TypeOK, Over, batch, place, blocks, bus, cancel
  <2>4. Placed'
    BY <1>1, <2>1, <2>2 DEF IndInv, Placed, Approved, batch, place, blocks, bus,
       cancel
  <2>5. Counted'
    BY <1>1, <2>1, <2>2 DEF IndInv, Counted, Blocks, Open, Gating, batch, place,
       blocks, bus, cancel
  <2>6. Executed'
    BY <1>1, <2>1, <2>2 DEF IndInv, Executed, Unsettled, Approved, Blocks, Gating, Unsettled,
       batch, place, blocks, bus, cancel
  <2>7. Said'
    BY <1>1, <2>1, <2>2 DEF IndInv, Said, Truth, Blocks, batch, place, blocks, bus,
       cancel
  <2>8. Waiting'
    BY <1>1, <2>1, <2>2 DEF IndInv, Waiting, batch, place, blocks, bus, cancel
  <2>9. Stopped'
    BY <1>1, <2>1, <2>2 DEF IndInv, Stopped, Open, Gating, batch, place, blocks,
       bus, cancel
  <2> QED BY <2>3, <2>4, <2>5, <2>6, <2>7, <2>8, <2>9 DEF IndInv
<1> QED BY <1>2, <1>3

-----------------------------------------------------------------------------
\* Init establishes the invariant.
LEMMA InitInv == Init => IndInv
<1> SUFFICES ASSUME Init PROVE IndInv
  OBVIOUS
<1>1. TypeOK
  <2>1. 1 \in 1..(N + 1) /\ Nothing \in [Calls -> 0..1]
    BY BatchAssumption DEF Nothing
  <2> QED BY <2>1 DEF Init, TypeOK
<1>2. Placed /\ Waiting /\ Stopped
  BY DEF Init, Placed, Waiting, Stopped
<1>3. Counted /\ Executed /\ Said
  BY DEF Init, Nothing, Counted, Executed, Unsettled, Said, Blocks, Calls
<1> QED BY <1>1, <1>2, <1>3 DEF IndInv

\* A step that changes nothing keeps it.
LEMMA StutterInv ==
    ASSUME IndInv, UNCHANGED vars
    PROVE  IndInv'
<1>1. TypeOK'
  BY DEF IndInv, TypeOK, vars, batch, place, blocks, bus, cancel
<1>2. Placed' /\ Stopped' /\ Waiting'
  BY DEF IndInv, Placed, Approved, Stopped, Waiting, vars, batch, place, blocks,
     bus, cancel
<1>3. Counted' /\ Executed' /\ Said'
  BY DEF IndInv, Counted, Executed, Unsettled, Approved, Said, Truth, Blocks, vars,
     batch, place, blocks, bus, cancel
<1> QED BY <1>1, <1>2, <1>3 DEF IndInv

\* Every step keeps it.
LEMMA StepInv == IndInv /\ [Next]_vars => IndInv'
<1> SUFFICES ASSUME IndInv, [Next]_vars PROVE IndInv'
  OBVIOUS
<1>1. CASE Gate
  BY <1>1, RejectInv, BeginInv, NextChunkInv, GateCallInv, InspectInv,
     ConfirmAnsweredInv, ConfirmTimesOutInv, ConfirmCancelledInv DEF Gate
<1>2. CASE Execute
  BY <1>2, NothingAllowedInv, ExecuteSerialInv, ExecuteParallelInv,
     ChunkReturnsInv, MergeChunkInv, SettleInv, AppendRowInv DEF Execute
<1>3. CASE \E c \in Calls : Tool(c)
  BY <1>3, ToolStartsInv, ToolEndsInv, AskInv, AskReturnsInv DEF Tool
<1>4. CASE Client
  BY <1>4, PostInv, StopInv, StaleStopInv, DetachInv DEF Client
<1>5. CASE TimerFires \/ Quiesce \/ Watch \/ HardCancel
  BY <1>5, TimerFiresInv, QuiesceInv, WatchInv, HardCancelInv
<1>6. CASE UNCHANGED vars
  BY <1>6, StutterInv
<1> QED BY <1>1, <1>2, <1>3, <1>4, <1>5, <1>6 DEF Next

\* The invariant holds in every reachable state.
LEMMA Inductive == Spec => []IndInv
BY InitInv, StepInv, PTL DEF Spec

-----------------------------------------------------------------------------
\* The types, and no list of blocks holds two blocks of one call: the lists of
\* dispatch_tool_batch never count a call twice.
THEOREM TypeSafety == Spec => []TypeOK
<1>1. IndInv => TypeOK
  BY DEF IndInv
<1> QED BY Inductive, <1>1, PTL

\* The history row of a finished batch holds exactly one response per call
\* (dispatch_tool_batch, _fill_abort_tool_responses).
THEOREM ResponseSafety == Spec => []OneResponseEach
<1>1. IndInv => OneResponseEach
  BY DEF IndInv, Counted, OneResponseEach
<1> QED BY Inductive, <1>1, PTL

\* The row says of every call what happened to it
\* (_execute_parallel_chunk, _fill_abort_tool_responses).
THEOREM HonestySafety == Spec => []HonestResponses
<1>1. IndInv => HonestResponses
  <2> SUFFICES ASSUME IndInv, pc \in {"append", "done"}, NEW c \in Calls
               PROVE  Truth(c)
    BY DEF HonestResponses, Truth
  <2>1. Blocks(c) # 0
    BY DEF IndInv, TypeOK, Counted, Blocks
  <2> QED BY <2>1 DEF IndInv, Said
<1> QED BY Inductive, <1>1, PTL

\* Only calls the inspectors allow or the user approved run
\* (_resolve_inspector_decision, _gate_chunk_calls).
THEOREM ApprovalSafety == Spec => []OnlyApprovedRun
<1>1. IndInv => OnlyApprovedRun
  BY DEF IndInv, Executed, Approved, OnlyApprovedRun
<1> QED BY Inductive, <1>1, PTL

\* In an open session no question outlives its batch
\* (abandon_pending_timeout, abandon_pending_cancel_all).
THEOREM QuestionSafety == Spec => []NoOrphanQuestion
<1>1. IndInv => NoOrphanQuestion
  BY DEF IndInv, TypeOK, Waiting, Executed, Unsettled, Over, NoOrphanQuestion
<1> QED BY Inductive, <1>1, PTL

\* After the cancel event no call starts that had not passed its check
\* (_gate_chunk_calls, _execute_parallel_chunk).
THEOREM StopSafety == Spec => StopHolds
<1>1. IndInv /\ [Next]_vars =>
        [\A c \in Calls : ran[c] = "no" /\ ran'[c] # "no" /\ event => c \in spared]_vars
  <2> SUFFICES ASSUME IndInv, Next, NEW c \in Calls,
                      ran[c] = "no", ran'[c] # "no", event
               PROVE  c \in spared
    OBVIOUS
  <2>1. CASE ExecuteSerial \/ ExecuteParallel
    BY <2>1 DEF ExecuteSerial, ExecuteParallel, IndInv, TypeOK, Placed, Stopped,
       Open, Gating
  <2>2. CASE \E d \in Calls : Tool(d)
    BY <2>2 DEF Tool, ToolStarts, ToolEnds, Ask, AskReturns, IndInv, TypeOK
  <2>3. CASE HardCancel
    BY <2>3 DEF HardCancel, InFlight, IndInv, TypeOK
  <2>4. CASE ran' = ran
    BY <2>4
  <2>5. Gate \/ Client \/ TimerFires \/ Quiesce \/ Watch => ran' = ran
    BY DEF Gate, Reject, Begin, NextChunk, GateCall, Inspect, ConfirmAnswered,
           ConfirmTimesOut, ConfirmCancelled, Client, Post, Stop, StaleStop, Detach,
           TimerFires, Quiesce, Watch
  <2>6. NothingAllowed \/ ChunkReturns \/ MergeChunk \/ Settle \/ AppendRow => ran' = ran
    BY DEF NothingAllowed, ChunkReturns, MergeChunk, Settle, AppendRow
  <2> QED BY <2>1, <2>2, <2>3, <2>4, <2>5, <2>6 DEF Next, Execute
<1> QED BY Inductive, <1>1, PTL DEF Spec, StopHolds

\* Only a DELETE, or a Stop that names an earlier turn, throws a batch away
\* (the except clause of _gate_chunk_calls, confirm_wait_stopped_by_user).
THEOREM SettleSafety == Spec => []LeavesOnlyOnDelete
<1>1. Init => IndInv /\ LeavesOnlyOnDelete
  BY InitInv DEF Init, LeavesOnlyOnDelete
<1>2. IndInv /\ LeavesOnlyOnDelete /\ [Next]_vars => IndInv' /\ LeavesOnlyOnDelete'
  <2> SUFFICES ASSUME IndInv, LeavesOnlyOnDelete, [Next]_vars
               PROVE  LeavesOnlyOnDelete'
    BY StepInv
  <2>1. CASE ConfirmCancelled
    BY <2>1 DEF ConfirmCancelled, StoppedByUser, Goto, IndInv, Waiting,
       LeavesOnlyOnDelete, cancel
  <2>2. CASE HardCancel
    BY <2>2 DEF HardCancel, LeavesOnlyOnDelete
  <2>3. CASE Detach \/ StaleStop \/ Stop \/ Quiesce
    BY <2>3 DEF Detach, StaleStop, Stop, Quiesce, place, LeavesOnlyOnDelete
  <2>4. CASE \/ Reject \/ Begin \/ NextChunk \/ GateCall \/ Inspect
             \/ ConfirmAnswered \/ ConfirmTimesOut
    BY <2>4 DEF Reject, Begin, NextChunk, GateCall, Inspect, ConfirmAnswered,
       ConfirmTimesOut,
                Goto, Refuse, Allow, After, LeavesOnlyOnDelete
  <2>5. CASE Execute
    BY <2>5 DEF Execute, NothingAllowed, ExecuteSerial, ExecuteParallel,
       ChunkReturns,
                MergeChunk, Settle, AppendRow, Goto, LeavesOnlyOnDelete
  <2>6. CASE \/ TimerFires \/ Watch
             \/ \E c \in Calls : Tool(c) \/ \E a \in {"yes", "no", "text"} : Post(c, a)
    BY <2>6 DEF TimerFires, Watch, Tool, ToolStarts, ToolEnds, Ask, AskReturns,
       Post,
                place, cancel, LeavesOnlyOnDelete
  <2>7. CASE UNCHANGED vars
    BY <2>7 DEF vars, place, cancel, LeavesOnlyOnDelete
  <2> QED BY <2>1, <2>2, <2>3, <2>4, <2>5, <2>6, <2>7 DEF Next, Gate, Client
<1> QED BY <1>1, <1>2, PTL DEF Spec

\* A batch of any length leaves its responses, its questions and itself in
\* order (dispatch_tool_batch).
THEOREM BatchSafety == Spec => []BatchSettles
<1>1. OneResponseEach /\ NoOrphanQuestion /\ LeavesOnlyOnDelete => BatchSettles
  BY DEF BatchSettles
<1> QED BY ResponseSafety, QuestionSafety, SettleSafety, <1>1, PTL

-----------------------------------------------------------------------------
(* The stored answers.                                                     *)

(* The inductive invariant.  While no lock was stolen a writer in the       *)
(* critical section owns a fresh lock file, what it is about to write is    *)
(* what it read, and nothing else writes; the reader's stamp is never ahead *)
(* of the file's.                                                           *)

InSection(p) == writer[p].at \in {"read", "write", "release", "stored"}

\* The sets of records the types are made of.
Ops == {"add", "remove"}
WriterRec == [at : {"idle", "open", "unlink", "read", "write", "release", "stored"},
              op : Ops, item : Items,
              chat : Chats \union {"no chat"}, read : SUBSET Items]
DiskRec == [items : SUBSET Items, text : {"good", "damaged"}, stamp : Nat]
LockRec == [by : Writers \union {"no one"}, age : {"fresh", "old"}]
CacheRec == [items : SUBSET Items, stamp : Nat]
CheckRec == [chat : Chats \union {"no chat"}, stamp : Nat]
UsedRec == [asks : Nat, mishaps : Nat]

\* The type invariant, one set per variable.
GrTypes ==
    /\ store \in {"grants", "approvals"} /\ disk \in DiskRec /\ lockFile \in LockRec
    /\ writer \in [Writers -> WriterRec] /\ cache \in CacheRec /\ check \in CheckRec
    /\ mem \in [Chats -> SUBSET Items] /\ kept \in SUBSET Items /\ deaf \in SUBSET Chats
    /\ spoilt \in SUBSET {"stolen", "lost"} /\ used \in UsedRec

\* Unless a live lock was removed, a writer in the critical section owns the
\* lock file, and no one else finds it old (_file_lock).
SectionOK ==
    "stolen" \notin spoilt => \A p \in Writers : InSection(p) => lockFile = [by |-> p, age |-> "fresh"]

\* What a writer is about to replace is what the file has (_write_atomic).
ReadOK ==
    spoilt = {} =>
        /\ kept \subseteq disk.items
        /\ \A p \in Writers : writer[p].at = "write" => writer[p].read = disk.items

\* A reader has never seen a later file than there is (GrantStoreCache).
StampsOK ==
    /\ cache.stamp <= disk.stamp /\ check.stamp <= disk.stamp
    /\ cache.stamp = disk.stamp => cache.items = Loaded
    /\ disk.stamp = 0 => /\ disk.items = {} /\ disk.text = "good"
                         /\ \A c \in Chats : mem[c] = {}

\* Only the gateway remembers answers for a chat, and checks are of chats.
AgentOK ==
    /\ writer[Agent].at # "idle" => check = NoCheck
    /\ writer[Agent].at = "stored" => cache.stamp < disk.stamp
    /\ \A p \in Writers \ {Agent} : writer[p].chat = "no chat"
    /\ check # NoCheck => check.chat \in Chats

\* A reader that is current has forgotten what was removed
\* (_reload_overlay_if_stale).
HeardOK ==
    store = "approvals" /\ cache.stamp = disk.stamp =>
        \A c \in Chats \ deaf : mem[c] \subseteq disk.items

\* The inductive invariant.
GrInv == GrTypes /\ SectionOK /\ ReadOK /\ StampsOK /\ AgentOK /\ HeardOK

\* The constant records have their types.
LEMMA IdleIsWriter ==
    /\ IdleWriter \in WriterRec
    /\ IdleWriter.at = "idle" /\ IdleWriter.chat = "no chat"
BY GrantsAssumption DEF IdleWriter, WriterRec, Ops

\* No lock, no check and an empty cache have their types.
LEMMA NothingIsTyped ==
    /\ NoLock \in LockRec /\ NoCheck \in CheckRec /\ NoCheck.stamp = 0 /\ [items |-> {}, stamp |-> 0] \in CacheRec
    /\ Agent \in Writers /\ "no one" \notin Writers
BY GrantsAssumption DEF NoLock, LockRec, NoCheck, CheckRec, CacheRec, Writers

\* The fields of the records of the state.
LEMMA FieldTypes ==
    ASSUME GrTypes
    PROVE  /\ disk.items \in SUBSET Items /\ disk.text \in {"good", "damaged"} /\ disk.stamp \in Nat
           /\ cache.stamp \in Nat /\ check.stamp \in Nat
           /\ writer \in [Writers -> WriterRec] /\ Loaded \in SUBSET Items
BY DEF GrTypes, DiskRec, CacheRec, CheckRec, Loaded

\* An empty store is consistent.
LEMMA GrInitInv == GrInit => GrInv
<1> SUFFICES ASSUME GrInit PROVE GrInv
  OBVIOUS
<1>0. \A p \in Writers : writer[p].at = "idle" /\ writer[p].chat = "no chat"
  BY IdleIsWriter DEF GrInit
<1>1. disk \in DiskRec /\ used \in UsedRec
  BY DEF GrInit, DiskRec, UsedRec
<1>2. GrTypes
  BY <1>1, IdleIsWriter, NothingIsTyped DEF GrTypes, GrInit
<1>3. SectionOK /\ ReadOK
  BY <1>0 DEF GrInit, SectionOK, InSection, ReadOK
<1>4. /\ disk.stamp = 0 /\ disk.items = {} /\ disk.text = "good" /\ check.stamp = 0
      /\ cache.stamp = 0 /\ cache.items = {} /\ \A c \in Chats : mem[c] = {}
  BY NothingIsTyped DEF GrInit
<1>5. StampsOK
  BY <1>4 DEF StampsOK, Loaded
<1>6. AgentOK /\ HeardOK
  BY <1>0, NothingIsTyped DEF GrInit, AgentOK, HeardOK
<1> QED BY <1>2, <1>3, <1>5, <1>6 DEF GrInv

\* An update of one writer leaves the others alone.
LEMMA WriterSet ==
    ASSUME writer \in [Writers -> WriterRec], NEW p \in Writers, NEW v \in WriterRec,
           writer' = [writer EXCEPT ![p] = v]
    PROVE  /\ writer' \in [Writers -> WriterRec] /\ writer'[p] = v
           /\ \A q \in Writers \ {p} : writer'[q] = writer[q]
OBVIOUS

\* What Goes changes.
LEMMA GoesTo ==
    ASSUME writer \in [Writers -> WriterRec], NEW p \in Writers,
           NEW to \in {"idle", "open", "unlink", "read", "write", "release", "stored"}, Goes(p, to)
    PROVE  /\ writer' \in [Writers -> WriterRec]
           /\ \A q \in Writers \ {p} : writer'[q] = writer[q]
           /\ writer'[p].at = to /\ writer'[p].chat = writer[p].chat
           /\ writer'[p].read = writer[p].read
<1> DEFINE v == [writer[p] EXCEPT !.at = to]
<1>1. v \in WriterRec /\ v.at = to /\ v.chat = writer[p].chat /\ v.read = writer[p].read
  BY DEF WriterRec
<1>2. writer' = [writer EXCEPT ![p] = v]
  BY DEF Goes
<1> HIDE DEF v
<1> QED BY <1>1, <1>2, WriterSet

\* What the start of a change sets.
LEMMA Opens ==
    ASSUME writer \in [Writers -> WriterRec], NEW p \in Writers, NEW op \in Ops,
           NEW i \in Items, NEW c \in Chats \union {"no chat"}, BeginsChange(p, op, i, c)
    PROVE  /\ writer' \in [Writers -> WriterRec]
           /\ \A q \in Writers \ {p} : writer'[q] = writer[q]
           /\ writer'[p].at = "open" /\ writer'[p].chat = c
<1> DEFINE v == [IdleWriter EXCEPT !.at = "open", !.op = op, !.item = i, !.chat = c]
<1>1. v \in WriterRec /\ v.at = "open" /\ v.chat = c
  BY IdleIsWriter DEF WriterRec, Ops
<1>2. writer' = [writer EXCEPT ![p] = v]
  BY DEF BeginsChange
<1> HIDE DEF v
<1> QED BY <1>1, <1>2, WriterSet

\* What ReadFile changes.
LEMMA Reads ==
    ASSUME writer \in [Writers -> WriterRec], NEW p \in Writers, Loaded \subseteq Items, ReadFile(p)
    PROVE  /\ writer' \in [Writers -> WriterRec]
           /\ \A q \in Writers \ {p} : writer'[q] = writer[q]
           /\ writer'[p].chat = writer[p].chat
           /\ \/ writer'[p].at = "release"
              \/ writer'[p].at = "write" /\ writer'[p].read = Loaded /\ ~Refuses(p)
<1>1. CASE Goes(p, "release")
  BY <1>1, GoesTo
<1>2. CASE ~Refuses(p) /\ writer' = [writer EXCEPT ![p].at = "write", ![p].read = Loaded]
  <2> DEFINE v == [writer[p] EXCEPT !.at = "write", !.read = Loaded]
  <2>1. v \in WriterRec /\ v.at = "write" /\ v.read = Loaded /\ v.chat = writer[p].chat
    BY DEF WriterRec
  <2>2. writer' = [writer EXCEPT ![p] = v]
    BY <1>2
  <2> HIDE DEF v
  <2> QED BY <1>2, <2>1, <2>2, WriterSet
<1> QED BY <1>1, <1>2 DEF ReadFile

\* What Removes changes.
LEMMA RemovesLock ==
    ASSUME NEW p \in Writers, Removes(p), spoilt \in SUBSET {"stolen", "lost"}
    PROVE  /\ lockFile' = NoLock /\ spoilt \subseteq spoilt' /\ spoilt' \in SUBSET {"stolen", "lost"}
           /\ \A q \in Writers \ {p} : lockFile = [by |-> q, age |-> "fresh"] => "stolen" \in spoilt'
<1>1. lockFile' = NoLock /\ spoilt \subseteq spoilt' /\ spoilt' \in SUBSET {"stolen", "lost"}
  BY DEF Removes
<1>2. ASSUME NEW q \in Writers \ {p}, lockFile = [by |-> q, age |-> "fresh"] PROVE "stolen" \in spoilt'
  <2>1. lockFile.by = q /\ lockFile.age = "fresh" /\ NoLock.by = "no one" /\ q # "no one"
    BY <1>2, NothingIsTyped DEF NoLock
  <2> QED BY <2>1 DEF Removes
<1> QED BY <1>1, <1>2

\* Every step of the stores keeps the invariant.
LEMMA GrStepInv ==
    ASSUME GrInv, [GrNext]_grVars
    PROVE  GrInv'
<1>1. GrTypes
  BY DEF GrInv
<1>2. SectionOK
  BY DEF GrInv
<1>3. ReadOK
  BY DEF GrInv
<1>4. StampsOK
  BY DEF GrInv
<1>5. AgentOK
  BY DEF GrInv
<1>31. HeardOK
  BY DEF GrInv
<1>6. ASSUME NEW c \in Chats, NEW i \in Items, AllowAlways(c, i) PROVE GrInv'
  <2>1. /\ UNCHANGED <<store, disk, lockFile, cache, check, mem, kept, spoilt, deaf>>
        /\ check = NoCheck
        /\ used' = [used EXCEPT !.asks = @ + 1]
    BY <1>6 DEF AllowAlways, BeginsChange
  <2>2. /\ writer' \in [Writers -> WriterRec]
        /\ \A q \in Writers \ {Agent} : writer'[q] = writer[q]
        /\ writer'[Agent].at = "open" /\ writer'[Agent].chat = c
    BY <1>1, <1>6, NothingIsTyped, FieldTypes, Opens DEF AllowAlways, Ops
  <2>3. used' \in UsedRec
    BY <1>1, <2>1 DEF GrTypes, UsedRec
  <2>4. GrTypes'
    BY <1>1, <2>1, <2>2, <2>3 DEF GrTypes
  <2>5. SectionOK'
    BY <1>2, <2>1, <2>2, <2>3, NothingIsTyped DEF SectionOK, InSection, NoLock
  <2>6. ReadOK'
    BY <1>3, <2>1, <2>2, <2>3 DEF ReadOK
  <2>7. StampsOK'
    BY <1>1, <1>4, <2>1, <2>2, <2>3, FieldTypes DEF StampsOK, Loaded
  <2>8. AgentOK'
    BY <1>1, <1>4, <1>5, <2>1, <2>2, <2>3, FieldTypes, NothingIsTyped DEF AgentOK, StampsOK
  <2>9. HeardOK'
    BY <1>1, <1>4, <1>31, <2>1, <2>2, <2>3, FieldTypes DEF HeardOK, StampsOK
  <2> QED BY <2>4, <2>5, <2>6, <2>7, <2>8, <2>9 DEF GrInv
<1>7. ASSUME NEW p \in Writers \ {Agent}, NEW op \in {"add", "remove"}, NEW i \in Items, Elsewhere(p, op, i) PROVE GrInv'
  <2>1. /\ UNCHANGED <<store, disk, lockFile, cache, check, mem, kept, spoilt, deaf>>
        /\ used' = [used EXCEPT !.asks = @ + 1]
    BY <1>7 DEF Elsewhere, BeginsChange
  <2>2. /\ writer' \in [Writers -> WriterRec]
        /\ \A q \in Writers \ {p} : writer'[q] = writer[q]
        /\ writer'[p].at = "open" /\ writer'[p].chat = "no chat"
    <3>1. "no chat" \in Chats \union {"no chat"} /\ p \in Writers /\ BeginsChange(p, op, i, "no chat")
      BY <1>7 DEF Elsewhere
    <3>2. writer \in [Writers -> WriterRec] /\ op \in Ops
      BY <1>1, FieldTypes DEF Ops
    <3>3. ASSUME NEW c \in Chats \union {"no chat"}, BeginsChange(p, op, i, c)
          PROVE  /\ writer' \in [Writers -> WriterRec]
                 /\ \A q \in Writers \ {p} : writer'[q] = writer[q]
                 /\ writer'[p].at = "open" /\ writer'[p].chat = c
      BY <3>1, <3>2, <3>3, Opens
    <3> QED BY <3>1, <3>3
  <2>3. used' \in UsedRec
    BY <1>1, <2>1 DEF GrTypes, UsedRec
  <2>4. GrTypes'
    BY <1>1, <2>1, <2>2, <2>3 DEF GrTypes
  <2>5. SectionOK'
    BY <1>2, <2>1, <2>2, <2>3, NothingIsTyped DEF SectionOK, InSection, NoLock
  <2>6. ReadOK'
    BY <1>3, <2>1, <2>2, <2>3 DEF ReadOK
  <2>7. StampsOK'
    BY <1>1, <1>4, <2>1, <2>2, <2>3, FieldTypes DEF StampsOK, Loaded
  <2>8. AgentOK'
    BY <1>1, <1>4, <1>5, <2>1, <2>2, <2>3, FieldTypes, NothingIsTyped DEF AgentOK, StampsOK
  <2>9. HeardOK'
    BY <1>1, <1>4, <1>31, <2>1, <2>2, <2>3, FieldTypes DEF HeardOK, StampsOK
  <2> QED BY <2>4, <2>5, <2>6, <2>7, <2>8, <2>9 DEF GrInv
<1>8. ASSUME NEW p \in Writers, TakeLock(p) PROVE GrInv'
  <2>1. /\ UNCHANGED <<store, disk, cache, check, mem, kept, spoilt, deaf, used>>
        /\ lockFile = NoLock /\ lockFile' = [by |-> p, age |-> "fresh"] /\ writer[p].at = "open"
    BY <1>8 DEF TakeLock
  <2>2. /\ writer' \in [Writers -> WriterRec]
        /\ \A q \in Writers \ {p} : writer'[q] = writer[q]
        /\ writer'[p].at = "read" /\ writer'[p].chat = writer[p].chat
    BY <1>1, <1>8, NothingIsTyped, FieldTypes, GoesTo DEF TakeLock
  <2>10. lockFile' \in LockRec
    BY <2>1 DEF LockRec
  <2>4. GrTypes'
    BY <1>1, <2>1, <2>2, <2>10 DEF GrTypes
  <2>5. SectionOK'
    BY <1>2, <2>1, <2>2, <2>10, NothingIsTyped DEF SectionOK, InSection, NoLock
  <2>6. ReadOK'
    BY <1>3, <2>1, <2>2, <2>10 DEF ReadOK
  <2>7. StampsOK'
    BY <1>1, <1>4, <2>1, <2>2, <2>10, FieldTypes DEF StampsOK, Loaded
  <2>8. AgentOK'
    BY <1>1, <1>4, <1>5, <2>1, <2>2, <2>10, FieldTypes, NothingIsTyped DEF AgentOK, StampsOK
  <2>9. HeardOK'
    BY <1>1, <1>4, <1>31, <2>1, <2>2, <2>10, FieldTypes DEF HeardOK, StampsOK
  <2> QED BY <2>4, <2>5, <2>6, <2>7, <2>8, <2>9 DEF GrInv
<1>9. ASSUME NEW p \in Writers, SeesStale(p) PROVE GrInv'
  <2>1. /\ UNCHANGED <<store, disk, lockFile, cache, check, mem, kept, spoilt, deaf, used>>
        /\ writer[p].at = "open"
    BY <1>9 DEF SeesStale
  <2>2. /\ writer' \in [Writers -> WriterRec]
        /\ \A q \in Writers \ {p} : writer'[q] = writer[q]
        /\ writer'[p].at = "unlink" /\ writer'[p].chat = writer[p].chat
    BY <1>1, <1>9, NothingIsTyped, FieldTypes, GoesTo DEF SeesStale
  <2>4. GrTypes'
    BY <1>1, <2>1, <2>2 DEF GrTypes
  <2>5. SectionOK'
    BY <1>2, <2>1, <2>2, NothingIsTyped DEF SectionOK, InSection, NoLock
  <2>6. ReadOK'
    BY <1>3, <2>1, <2>2 DEF ReadOK
  <2>7. StampsOK'
    BY <1>1, <1>4, <2>1, <2>2, FieldTypes DEF StampsOK, Loaded
  <2>8. AgentOK'
    BY <1>1, <1>4, <1>5, <2>1, <2>2, FieldTypes, NothingIsTyped DEF AgentOK, StampsOK
  <2>9. HeardOK'
    BY <1>1, <1>4, <1>31, <2>1, <2>2, FieldTypes DEF HeardOK, StampsOK
  <2> QED BY <2>4, <2>5, <2>6, <2>7, <2>8, <2>9 DEF GrInv
<1>10. ASSUME NEW p \in Writers, LockTimeout(p) PROVE GrInv'
  <2>1. /\ UNCHANGED <<store, disk, lockFile, cache, check, mem, kept, spoilt, deaf, used>>
        /\ writer[p].at = "open"
    BY <1>10 DEF LockTimeout
  <2>2. /\ writer' \in [Writers -> WriterRec]
        /\ \A q \in Writers \ {p} : writer'[q] = writer[q]
        /\ writer'[p].at = "idle" /\ writer'[p].chat = "no chat"
    BY <1>1, <1>10, NothingIsTyped, FieldTypes, IdleIsWriter, WriterSet DEF LockTimeout
  <2>4. GrTypes'
    BY <1>1, <2>1, <2>2 DEF GrTypes
  <2>5. SectionOK'
    BY <1>2, <2>1, <2>2, NothingIsTyped DEF SectionOK, InSection, NoLock
  <2>6. ReadOK'
    BY <1>3, <2>1, <2>2 DEF ReadOK
  <2>7. StampsOK'
    BY <1>1, <1>4, <2>1, <2>2, FieldTypes DEF StampsOK, Loaded
  <2>8. AgentOK'
    BY <1>1, <1>4, <1>5, <2>1, <2>2, FieldTypes, NothingIsTyped DEF AgentOK, StampsOK
  <2>9. HeardOK'
    BY <1>1, <1>4, <1>31, <2>1, <2>2, FieldTypes DEF HeardOK, StampsOK
  <2> QED BY <2>4, <2>5, <2>6, <2>7, <2>8, <2>9 DEF GrInv
<1>11. ASSUME NEW p \in Writers, Reclaim(p) PROVE GrInv'
  <2>1. /\ UNCHANGED <<store, disk, cache, check, mem, kept, deaf, used>>
        /\ writer[p].at = "unlink"
        /\ lockFile' = NoLock /\ spoilt \subseteq spoilt' /\ spoilt' \in SUBSET {"stolen", "lost"}
        /\ \A q \in Writers \ {p} : lockFile = [by |-> q, age |-> "fresh"] => "stolen" \in spoilt'
    BY <1>1, RemovesLock, <1>11 DEF Reclaim, GrTypes
  <2>2. /\ writer' \in [Writers -> WriterRec]
        /\ \A q \in Writers \ {p} : writer'[q] = writer[q]
        /\ writer'[p].at = "open" /\ writer'[p].chat = writer[p].chat
    BY <1>1, <1>11, NothingIsTyped, FieldTypes, GoesTo DEF Reclaim
  <2>10. lockFile' \in LockRec
    BY <2>1, NothingIsTyped
  <2>4. GrTypes'
    BY <1>1, <2>1, <2>2, <2>10 DEF GrTypes
  <2>5. SectionOK'
    BY <1>2, <2>1, <2>2, <2>10, NothingIsTyped DEF SectionOK, InSection, NoLock
  <2>6. ReadOK'
    BY <1>3, <2>1, <2>2, <2>10 DEF ReadOK
  <2>7. StampsOK'
    BY <1>1, <1>4, <2>1, <2>2, <2>10, FieldTypes DEF StampsOK, Loaded
  <2>8. AgentOK'
    BY <1>1, <1>4, <1>5, <2>1, <2>2, <2>10, FieldTypes, NothingIsTyped DEF AgentOK, StampsOK
  <2>9. HeardOK'
    BY <1>1, <1>4, <1>31, <2>1, <2>2, <2>10, FieldTypes DEF HeardOK, StampsOK
  <2> QED BY <2>4, <2>5, <2>6, <2>7, <2>8, <2>9 DEF GrInv
<1>12. ASSUME NEW p \in Writers, ReadFile(p) PROVE GrInv'
  <2>1. /\ UNCHANGED <<store, disk, lockFile, cache, check, mem, kept, deaf, used>>
        /\ writer[p].at = "read" /\ spoilt \subseteq spoilt' /\ ("stolen" \in spoilt' <=> "stolen" \in spoilt)
        /\ spoilt' \in SUBSET {"stolen", "lost"}
        /\ spoilt' = {} /\ writer'[p].at = "write" => disk.text # "damaged" \/ store # "approvals"
    BY <1>1, <1>12 DEF ReadFile, GrTypes
  <2>2. /\ writer' \in [Writers -> WriterRec]
        /\ \A q \in Writers \ {p} : writer'[q] = writer[q]
        /\ writer'[p].chat = writer[p].chat
        /\ \/ writer'[p].at = "release"
           \/ writer'[p].at = "write" /\ writer'[p].read = Loaded /\ ~Refuses(p)
    BY <1>1, <1>12, NothingIsTyped, FieldTypes, Reads DEF ReadFile
  <2>4. GrTypes'
    BY <1>1, <2>1, <2>2 DEF GrTypes
  <2>5. SectionOK'
    BY <1>2, <2>1, <2>2, NothingIsTyped DEF SectionOK, InSection, NoLock
  <2>6. ReadOK'
    BY <1>1, <1>3, FieldTypes, <2>1, <2>2 DEF ReadOK, Refuses, Loaded, GrTypes
  <2>7. StampsOK'
    BY <1>1, <1>4, <2>1, <2>2, FieldTypes DEF StampsOK, Loaded
  <2>8. AgentOK'
    BY <1>1, <1>4, <1>5, <2>1, <2>2, FieldTypes, NothingIsTyped DEF AgentOK, StampsOK
  <2>9. HeardOK'
    BY <1>1, <1>4, <1>31, <2>1, <2>2, FieldTypes DEF HeardOK, StampsOK
  <2> QED BY <2>4, <2>5, <2>6, <2>7, <2>8, <2>9 DEF GrInv
<1>13. ASSUME NEW p \in Writers, WriteGrants(p) PROVE GrInv'
  <2>1. /\ UNCHANGED <<store, lockFile, cache, check, mem, spoilt, deaf, used>>
        /\ writer[p].at = "write" /\ disk'.stamp = disk.stamp + 1 /\ disk'.text = "good"
        /\ \E i \in Items :
                 \/ disk'.items = writer[p].read \union {i} /\ kept' = kept \union {i}
                 \/ disk'.items = writer[p].read \ {i} /\ kept' = kept \ {i}
    BY <1>1, FieldTypes, <1>13 DEF WriteGrants, WriterRec
  <2>2. /\ writer' \in [Writers -> WriterRec]
        /\ \A q \in Writers \ {p} : writer'[q] = writer[q]
        /\ writer'[p].at = "stored" /\ writer'[p].chat = writer[p].chat
    BY <1>1, <1>13, NothingIsTyped, FieldTypes, GoesTo DEF WriteGrants
  <2>10. disk' \in DiskRec /\ kept' \in SUBSET Items
    <3>1. writer[p].read \in SUBSET Items /\ writer[p].item \in Items /\ kept \in SUBSET Items
      BY <1>1 DEF GrTypes, WriterRec
    <3>2. disk.stamp + 1 \in Nat
      BY <1>1, FieldTypes
    <3> DEFINE its == IF writer[p].op = "add" THEN writer[p].read \union {writer[p].item}
                                             ELSE writer[p].read \ {writer[p].item}
    <3>3. its \in SUBSET Items /\ disk' = [items |-> its, text |-> "good", stamp |-> disk.stamp + 1]
      BY <1>13, <3>1 DEF WriteGrants
    <3>4. kept' \in SUBSET Items
      BY <1>13, <3>1 DEF WriteGrants
    <3> HIDE DEF its
    <3> QED BY <3>2, <3>3, <3>4 DEF DiskRec
  <2>11. writer'[Agent].at = "stored" => cache'.stamp < disk'.stamp
    <3>1. disk.stamp \in Nat /\ cache.stamp \in Nat /\ cache'.stamp = cache.stamp
      BY <1>1, <2>1, FieldTypes
    <3>2. cache.stamp <= disk.stamp /\ disk'.stamp = disk.stamp + 1
      BY <1>4, <2>1 DEF StampsOK
    <3> QED BY <3>1, <3>2
  <2>4. GrTypes'
    BY <1>1, <2>1, <2>2, <2>10 DEF GrTypes
  <2>5. SectionOK'
    BY <1>2, <2>1, <2>2, <2>10, NothingIsTyped DEF SectionOK, InSection, NoLock
  <2>6. ReadOK'
    BY <1>2, <1>3, <2>1, <2>2 DEF SectionOK, InSection, ReadOK
  <2>7. StampsOK'
    BY <1>1, <1>4, <2>1, <2>2, <2>10, FieldTypes DEF StampsOK, Loaded
  <2>8. AgentOK'
    BY <1>5, <2>1, <2>2, <2>11, NothingIsTyped DEF AgentOK
  <2>9. HeardOK'
    BY <1>1, <1>4, <1>31, <2>1, <2>2, <2>10, FieldTypes DEF HeardOK, StampsOK
  <2> QED BY <2>4, <2>5, <2>6, <2>7, <2>8, <2>9 DEF GrInv
<1>14. ASSUME NEW p \in Writers, ReleaseGrants(p) PROVE GrInv'
  <2>1. /\ UNCHANGED <<store, disk, cache, check, kept, deaf, used>>
        /\ writer[p].at \in {"release", "stored"}
        /\ lockFile' = NoLock /\ spoilt \subseteq spoilt' /\ spoilt' \in SUBSET {"stolen", "lost"}
        /\ \A q \in Writers \ {p} : lockFile = [by |-> q, age |-> "fresh"] => "stolen" \in spoilt'
        /\ mem' = IF writer[p].at = "stored" /\ writer[p].chat \in Chats
                   THEN [mem EXCEPT ![writer[p].chat] = @ \union {writer[p].item}] ELSE mem
    BY <1>1, RemovesLock, <1>14 DEF ReleaseGrants, GrTypes
  <2>2. /\ writer' \in [Writers -> WriterRec]
        /\ \A q \in Writers \ {p} : writer'[q] = writer[q]
        /\ writer'[p].at = "idle" /\ writer'[p].chat = "no chat"
    BY <1>1, <1>14, NothingIsTyped, FieldTypes, IdleIsWriter, WriterSet DEF ReleaseGrants
  <2>10. lockFile' \in LockRec /\ mem' \in [Chats -> SUBSET Items]
    BY <1>1, <2>1, NothingIsTyped, FieldTypes DEF GrTypes, WriterRec
  <2>11. mem' = mem \/ cache.stamp < disk.stamp
    BY <1>5, <2>1, GrantsAssumption DEF AgentOK
  <2>12. disk.stamp \in Nat /\ cache.stamp \in Nat /\ (disk.stamp = 0 => mem' = mem)
         /\ (cache.stamp = disk.stamp => mem' = mem)
    <3>1. disk.stamp \in Nat /\ cache.stamp \in Nat
      BY <1>1, FieldTypes
    <3> QED BY <2>11, <3>1
  <2>4. GrTypes'
    BY <1>1, <2>1, <2>2, <2>10, <2>11 DEF GrTypes
  <2>5. SectionOK'
    BY <1>2, <2>1, <2>2, <2>10, <2>11, NothingIsTyped DEF SectionOK, InSection, NoLock
  <2>6. ReadOK'
    BY <1>3, <2>1, <2>2, <2>10, <2>11 DEF ReadOK
  <2>7. StampsOK'
    BY <1>4, <2>1, <2>12 DEF StampsOK, Loaded
  <2>8. AgentOK'
    BY <1>1, <1>4, <1>5, <2>1, <2>2, <2>10, <2>11, FieldTypes, NothingIsTyped DEF AgentOK, StampsOK
  <2>9. HeardOK'
    BY <1>31, <2>1, <2>12 DEF HeardOK
  <2> QED BY <2>4, <2>5, <2>6, <2>7, <2>8, <2>9 DEF GrInv
<1>15. ASSUME NEW p \in Writers, WriterDies(p) PROVE GrInv'
  <2>1. /\ UNCHANGED <<store, disk, lockFile, kept, spoilt>>
        /\ used' = [used EXCEPT !.mishaps = @ + 1]
        /\ IF p = Agent
           THEN /\ mem' = [c \in Chats |-> {}] /\ deaf' = {}
                /\ cache' = [items |-> {}, stamp |-> 0] /\ check' = NoCheck
           ELSE UNCHANGED <<mem, deaf, cache, check>>
    BY <1>15 DEF WriterDies, Mishap
  <2>2. /\ writer' \in [Writers -> WriterRec]
        /\ \A q \in Writers \ {p} : writer'[q] = writer[q]
        /\ writer'[p].at = "idle" /\ writer'[p].chat = "no chat"
    BY <1>1, <1>15, NothingIsTyped, FieldTypes, IdleIsWriter, WriterSet DEF WriterDies
  <2>3. used' \in UsedRec
    BY <1>1, <2>1 DEF GrTypes, UsedRec
  <2>10. /\ mem' \in [Chats -> SUBSET Items] /\ deaf' \in SUBSET Chats
         /\ cache' \in CacheRec /\ check' \in CheckRec
    BY <1>1, <2>1, NothingIsTyped DEF GrTypes
  <2>11. \/ p # Agent /\ UNCHANGED <<mem, deaf, cache, check>>
         \/ /\ p = Agent /\ \A c \in Chats : mem'[c] = {}
            /\ cache'.stamp = 0 /\ cache'.items = {} /\ check' = NoCheck /\ check'.stamp = 0
    <3>1. CASE p = Agent
      <4>1. mem' = [c \in Chats |-> {}] /\ cache' = [items |-> {}, stamp |-> 0] /\ check' = NoCheck
        BY <2>1, <3>1
      <4> QED BY <3>1, <4>1, NothingIsTyped
    <3>2. CASE p # Agent
      BY <2>1, <3>2
    <3> QED BY <3>1, <3>2
  <2>4. GrTypes'
    BY <1>1, <2>1, <2>2, <2>3, <2>10, <2>11 DEF GrTypes
  <2>5. SectionOK'
    BY <1>2, <2>1, <2>2, <2>3, <2>10, <2>11, NothingIsTyped DEF SectionOK, InSection, NoLock
  <2>6. ReadOK'
    BY <1>3, <2>1, <2>2, <2>3, <2>10, <2>11 DEF ReadOK
  <2>7. StampsOK'
    <3>1. disk' = disk /\ Loaded' = Loaded /\ disk.stamp \in Nat
      BY <1>1, <2>1, FieldTypes DEF Loaded
    <3>2. CASE p # Agent
      BY <1>4, <2>11, <3>1, <3>2 DEF StampsOK
    <3>3. CASE p = Agent
      <4>1. /\ cache'.stamp = 0 /\ cache'.items = {} /\ check'.stamp = 0
            /\ \A c \in Chats : mem'[c] = {}
        BY <2>11, <3>3
      <4>2. disk.stamp = 0 => Loaded = {} /\ disk.items = {} /\ disk.text = "good"
        BY <1>4 DEF StampsOK, Loaded
      <4>3. 0 <= disk.stamp
        BY <3>1
      <4> QED BY <3>1, <4>1, <4>2, <4>3 DEF StampsOK
    <3> QED BY <3>2, <3>3
  <2>8. AgentOK'
    BY <1>1, <1>4, <1>5, <2>1, <2>2, <2>3, <2>10, <2>11, FieldTypes, NothingIsTyped DEF AgentOK,
       StampsOK
  <2>9. HeardOK'
    BY <1>1, <1>4, <1>31, <2>1, <2>2, <2>3, <2>10, <2>11, FieldTypes DEF HeardOK, StampsOK
  <2> QED BY <2>4, <2>5, <2>6, <2>7, <2>8, <2>9 DEF GrInv
<1>16. CASE LockAges
  <2>1. /\ UNCHANGED <<store, disk, writer, cache, check, mem, kept, spoilt, deaf, used>>
        /\ writer[lockFile.by].at \notin {"read", "write", "release", "stored"}
        /\ lockFile # NoLock /\ lockFile' = [lockFile EXCEPT !.age = "old"]
    BY <1>16 DEF LockAges
  <2>10. lockFile' \in LockRec
    BY <1>1, <2>1 DEF GrTypes, LockRec
  <2>4. GrTypes'
    BY <1>1, <2>1, <2>10 DEF GrTypes
  <2>5. SectionOK'
    <3> SUFFICES ASSUME "stolen" \notin spoilt, NEW p \in Writers, InSection(p) PROVE FALSE
      BY <2>1 DEF SectionOK, InSection
    <3>1. lockFile.by = p
      BY <1>2 DEF SectionOK
    <3> QED BY <2>1, <3>1 DEF InSection
  <2>6. ReadOK'
    BY <1>3, <2>1, <2>10 DEF ReadOK
  <2>7. StampsOK'
    BY <1>1, <1>4, <2>1, <2>10, FieldTypes DEF StampsOK, Loaded
  <2>8. AgentOK'
    BY <1>1, <1>4, <1>5, <2>1, <2>10, FieldTypes, NothingIsTyped DEF AgentOK, StampsOK
  <2>9. HeardOK'
    BY <1>1, <1>4, <1>31, <2>1, <2>10, FieldTypes DEF HeardOK, StampsOK
  <2> QED BY <2>4, <2>5, <2>6, <2>7, <2>8, <2>9 DEF GrInv
<1>17. CASE HandEdit
  <2>1. /\ UNCHANGED <<store, lockFile, writer, cache, check, mem, kept, spoilt, deaf>>
        /\ disk.stamp > 0 /\ disk'.stamp = disk.stamp + 1 /\ disk'.items = disk.items
        /\ used' = [used EXCEPT !.mishaps = @ + 1]
    BY <1>1, <1>17 DEF HandEdit, Mishap, GrTypes, DiskRec
  <2>3. used' \in UsedRec
    BY <1>1, <2>1 DEF GrTypes, UsedRec
  <2>10. disk' \in DiskRec
    <3> DEFINE txt == IF disk.text = "good" THEN "damaged" ELSE "good"
    <3>1. disk' = [disk EXCEPT !.text = txt, !.stamp = disk.stamp + 1] /\ txt \in {"good", "damaged"}
      BY <1>17 DEF HandEdit
    <3>2. disk \in DiskRec /\ disk.stamp + 1 \in Nat
      BY <1>1, FieldTypes DEF GrTypes
    <3> HIDE DEF txt
    <3> QED BY <3>1, <3>2 DEF DiskRec
  <2>11. writer'[Agent].at = "stored" => cache'.stamp < disk'.stamp
    <3>1. disk.stamp \in Nat /\ cache.stamp \in Nat /\ cache'.stamp = cache.stamp
      BY <1>1, <2>1, FieldTypes
    <3>2. cache.stamp <= disk.stamp /\ disk'.stamp = disk.stamp + 1
      BY <1>4, <2>1 DEF StampsOK
    <3> QED BY <3>1, <3>2
  <2>4. GrTypes'
    BY <1>1, <2>1, <2>3, <2>10 DEF GrTypes
  <2>5. SectionOK'
    BY <1>2, <2>1, <2>3, <2>10, NothingIsTyped DEF SectionOK, InSection, NoLock
  <2>6. ReadOK'
    BY <1>3, <2>1, <2>3, <2>10 DEF ReadOK
  <2>7. StampsOK'
    BY <1>1, <1>4, <2>1, <2>3, <2>10, FieldTypes DEF StampsOK, Loaded
  <2>8. AgentOK'
    BY <1>5, <2>1, <2>11 DEF AgentOK
  <2>9. HeardOK'
    BY <1>1, <1>4, <1>31, <2>1, <2>3, <2>10, FieldTypes DEF HeardOK, StampsOK
  <2> QED BY <2>4, <2>5, <2>6, <2>7, <2>8, <2>9 DEF GrInv
<1>18. ASSUME NEW c \in Chats, CheckStamp(c) PROVE GrInv'
  <2>1. /\ UNCHANGED <<store, disk, lockFile, writer, cache, mem, kept, spoilt, deaf, used>>
        /\ check' = [chat |-> c, stamp |-> disk.stamp]
        /\ writer[Agent].at = "idle"
    BY <1>18 DEF CheckStamp
  <2>10. check' \in CheckRec
    BY <1>1, <2>1, FieldTypes DEF CheckRec
  <2>4. GrTypes'
    BY <1>1, <2>1, <2>10 DEF GrTypes
  <2>5. SectionOK'
    BY <1>2, <2>1, <2>10, NothingIsTyped DEF SectionOK, InSection, NoLock
  <2>6. ReadOK'
    BY <1>3, <2>1, <2>10 DEF ReadOK
  <2>7. StampsOK'
    BY <1>1, <1>4, <2>1, <2>10, FieldTypes DEF StampsOK, Loaded
  <2>8. AgentOK'
    BY <1>1, <1>4, <1>5, <2>1, <2>10, FieldTypes, NothingIsTyped DEF AgentOK, StampsOK
  <2>9. HeardOK'
    BY <1>1, <1>4, <1>31, <2>1, <2>10, FieldTypes DEF HeardOK, StampsOK
  <2> QED BY <2>4, <2>5, <2>6, <2>7, <2>8, <2>9 DEF GrInv
<1>19. CASE LoadCache
  <2>1. /\ UNCHANGED <<store, disk, lockFile, writer, kept, spoilt, used>>
        /\ check # NoCheck /\ check' = NoCheck
        /\ cache' = [items |-> Loaded, stamp |-> check.stamp]
        /\ mem' = [c \in Chats |-> Remembers(c)]
        /\ deaf' = {c \in Chats : /\ c \in deaf \/ c # check.chat \/ cache.stamp = 0
                                  /\ ~(c = check.chat /\ cache.stamp # 0)
                                  /\ ~(mem[c] \subseteq Loaded)}
    BY <1>19 DEF LoadCache
  <2>10. /\ check' \in CheckRec /\ cache' \in CacheRec /\ deaf' \in SUBSET Chats
         /\ mem' \in [Chats -> SUBSET Items]
    BY <1>1, <2>1, NothingIsTyped, FieldTypes DEF CacheRec, GrTypes, Remembers
  <2>11. check'.stamp = 0 /\ cache'.stamp = check.stamp /\ cache'.items = Loaded /\ Loaded \subseteq disk.items
    BY <2>1, NothingIsTyped DEF Loaded
  <2>12. \A c \in Chats : mem'[c] \subseteq mem[c]
    BY <2>1 DEF Remembers
  <2>13. store = "approvals" => \A c \in Chats \ deaf' : mem'[c] \subseteq Loaded
    BY <2>1 DEF Remembers
  <2>4. GrTypes'
    BY <1>1, <2>1, <2>10, <2>11, <2>12, <2>13 DEF GrTypes
  <2>5. SectionOK'
    BY <1>2, <2>1, <2>10, <2>11, <2>12, <2>13, NothingIsTyped DEF SectionOK, InSection, NoLock
  <2>6. ReadOK'
    BY <1>3, <2>1, <2>10, <2>11, <2>12, <2>13 DEF ReadOK
  <2>7. StampsOK'
    BY <1>1, <1>4, <2>1, <2>10, <2>11, <2>12, <2>13, FieldTypes DEF StampsOK, Loaded
  <2>8. AgentOK'
    BY <1>1, <1>4, <1>5, <2>1, <2>10, <2>11, <2>12, <2>13, FieldTypes, NothingIsTyped DEF AgentOK,
       StampsOK
  <2>9. HeardOK'
    BY <1>1, <1>4, <1>31, <2>1, <2>10, <2>11, <2>12, <2>13, FieldTypes DEF HeardOK, StampsOK
  <2> QED BY <2>4, <2>5, <2>6, <2>7, <2>8, <2>9 DEF GrInv
<1>20. CASE NewReader
  <2>1. /\ UNCHANGED <<store, disk, lockFile, writer, check, mem, kept, spoilt, deaf>>
        /\ cache' = [items |-> {}, stamp |-> 0]
        /\ writer[Agent].at = "idle"
        /\ used' = [used EXCEPT !.mishaps = @ + 1]
    BY <1>20 DEF NewReader, Mishap
  <2>3. used' \in UsedRec
    BY <1>1, <2>1 DEF GrTypes, UsedRec
  <2>10. cache' \in CacheRec /\ cache'.stamp = 0 /\ cache'.items = {}
    BY <2>1, NothingIsTyped
  <2>4. GrTypes'
    BY <1>1, <2>1, <2>3, <2>10 DEF GrTypes
  <2>5. SectionOK'
    BY <1>2, <2>1, <2>3, <2>10, NothingIsTyped DEF SectionOK, InSection, NoLock
  <2>6. ReadOK'
    BY <1>3, <2>1, <2>3, <2>10 DEF ReadOK
  <2>7. StampsOK'
    BY <1>1, <1>4, <2>1, <2>3, <2>10, FieldTypes DEF StampsOK, Loaded
  <2>8. AgentOK'
    BY <1>1, <1>4, <1>5, <2>1, <2>3, <2>10, FieldTypes, NothingIsTyped DEF AgentOK, StampsOK
  <2>9. HeardOK'
    BY <1>1, <1>4, <1>31, <2>1, <2>3, <2>10, FieldTypes DEF HeardOK, StampsOK
  <2> QED BY <2>4, <2>5, <2>6, <2>7, <2>8, <2>9 DEF GrInv
<1>21. CASE UNCHANGED grVars
  <2>1. GrTypes'
    BY <1>1, <1>21 DEF grVars, GrTypes
  <2>2. SectionOK' /\ ReadOK'
    BY <1>2, <1>3, <1>21 DEF grVars, SectionOK, InSection, ReadOK
  <2>3. StampsOK' /\ AgentOK' /\ HeardOK'
    BY <1>4, <1>5, <1>31, <1>21 DEF grVars, StampsOK, AgentOK, HeardOK, Loaded
  <2> QED BY <2>1, <2>2, <2>3 DEF GrInv
<1>22. ASSUME NEW p \in Adders \union Removers PROVE p \in Writers \ {Agent}
  BY <1>22, GrantsAssumption DEF Writers
<1> QED BY <1>6, <1>7, <1>8, <1>9, <1>10, <1>11, <1>12, <1>13, <1>14, <1>15, <1>16, <1>17, <1>18,
           <1>19, <1>20, <1>21, <1>22 DEF GrNext

(* Nothing a person allowed is lost, whichever writers of the file cross    *)
(* and die, unless a lock was stolen or approvals.py read an unreadable     *)
(* file; a cache with the stamp of the file has its entries; and once the   *)
(* reader of a session is current, what was removed elsewhere is forgotten. *)
THEOREM GrantsSafety == GrSpec => []GrantsSafe
<1>1. GrInv => GrantsSafe
  BY DEF GrInv, GrantsSafe, GrantsKept, CacheTrue, RevokeHeard, ReadOK, StampsOK, HeardOK
<1> QED BY <1>1, GrInitInv, GrStepInv, PTL DEF GrSpec

---------------------------------------------------------------------------
(* The read ledger.                                                       *)

\* The variables of the ledger, and what a call under way carries.
LdTypes ==
    /\ body \in [LedgerPaths -> LedgerBodies \cup {NoBody, CHOOSE b \in LedgerBodies : TRUE}]
    /\ stamp \in [LedgerPaths -> Nat]
    /\ seen \in [LedgerPaths -> Nat]
    /\ DOMAIN shown = LedgerPaths
    /\ call \in [at : {"idle", "read", "write", "note", "forget"},
                 path : LedgerPaths \cup {NoCall.path},
                 body : LedgerBodies \cup {NoBody, CHOOSE b \in LedgerBodies : TRUE}]
    /\ call.at # "idle" => call.path \in LedgerPaths
    /\ clock \in Nat

\* The model has read what is on the disk, or the file is excused.
Informed(p) == shown[p] = body[p] \/ p \in excused

\* A guard that lets an edit through means that the model is informed, and it
\* stays so until the edit is written and noted.
LdInv ==
    /\ LdTypes
    /\ \A p \in LedgerPaths : seen[p] <= clock /\ stamp[p] <= clock
    /\ \A p \in LedgerPaths :
          CheckWrite(p) /\ ~(call.at = "read" /\ call.path = p) => Informed(p)
    /\ call.at = "read" => call.body = body[call.path] \/ call.path \in excused
    /\ call.at = "write" => body[call.path] = NoBody \/ Informed(call.path)
    /\ call.at = "note" => Informed(call.path)

\* At first nothing is read, and no edit is let through.
LEMMA LdInitInv == LdInit => LdInv
<1> SUFFICES ASSUME LdInit
             PROVE  LdInv
  OBVIOUS
<1>1. call.at = "idle"
  BY DEF LdInit, NoCall
<1>2. LdTypes
  BY DEF LdInit, LdTypes, NoCall
<1>3. \A p \in LedgerPaths : seen[p] = 0 /\ stamp[p] = 1 /\ clock = 1
  BY DEF LdInit
<1> QED
  BY <1>1, <1>2, <1>3 DEF LdInv, CheckWrite

\* A read, a rewrite of the history and an edit keep the ledger truthful.
LEMMA LdStepInv == LdInv /\ [LdNext]_ldVars => LdInv'
<1> SUFFICES ASSUME LdInv, [LdNext]_ldVars
             PROVE  LdInv'
  OBVIOUS
<1> USE DEF LdInv, LdTypes, CheckWrite, Informed
<1>1. ASSUME NEW p \in LedgerPaths, ReadBody(p)  PROVE LdInv'
  BY <1>1 DEF ReadBody
<1>2. ASSUME NEW p \in LedgerPaths, EditGuard(p)  PROVE LdInv'
  BY <1>2 DEF EditGuard
<1>3. ASSUME NEW p \in LedgerPaths, RewriteDrops(p)  PROVE LdInv'
  BY <1>3 DEF RewriteDrops
<1>4. ASSUME NEW b \in LedgerBodies \cup {NoBody}, EditFile(b)  PROVE LdInv'
  <2> DEFINE p == call.path
  <2>1. /\ p \in LedgerPaths /\ body' = [body EXCEPT ![p] = b] /\ stamp' = [stamp EXCEPT ![p] = clock + 1]
        /\ clock' = clock + 1 /\ seen' = seen /\ shown' = [shown EXCEPT ![p] = b]
        /\ call'.at \in {"note", "forget"} /\ call'.path = p /\ excused' = excused
    BY <1>4 DEF EditFile, Changes
  <2>a. call' \in [at : {"idle", "read", "write", "note", "forget"},
                   path : LedgerPaths \cup {NoCall.path},
                   body : LedgerBodies \cup {NoBody, CHOOSE c \in LedgerBodies : TRUE}]
    <3>1. call' = [call EXCEPT !.at = IF b = NoBody THEN "forget" ELSE "note", !.body = b]
      BY <1>4 DEF EditFile
    <3> QED
      BY <3>1
  <2>b. DOMAIN shown' = LedgerPaths /\ clock' \in Nat /\ stamp' \in [LedgerPaths -> Nat]
    BY <2>1
  <2>2. LdTypes'
    BY <2>1, <2>a, <2>b
  <2>3. stamp'[p] = clock + 1 /\ shown'[p] = body'[p]
    BY <2>1
  <2>4. \A q \in LedgerPaths \ {p} : stamp'[q] = stamp[q] /\ shown'[q] = shown[q] /\ body'[q] = body[q]
    BY <2>1
  <2>5. \A q \in LedgerPaths : seen'[q] <= clock' /\ stamp'[q] <= clock'
    BY <2>1
  <2>6. \A q \in LedgerPaths : CheckWrite(q)' => Informed(q)'
    BY <1>4, <2>1, <2>3, <2>4 DEF EditFile
  <2> QED
    BY <2>1, <2>2, <2>3, <2>5, <2>6
<1>5. ASSUME NEW p \in LedgerPaths, NEW b \in LedgerBodies \cup {NoBody}, ChangedElsewhere(p, b)
      PROVE  LdInv'
  <2>1. CASE Changes(p, b)
    <3>1. /\ body' = [body EXCEPT ![p] = b] /\ stamp' = [stamp EXCEPT ![p] = clock + 1]
          /\ clock' = clock + 1 /\ seen' = seen /\ shown' = shown /\ call' = call
          /\ excused \subseteq excused'
          /\ call.at # "idle" /\ call.path = p => p \in excused'
      BY <1>5, <2>1 DEF ChangedElsewhere, Changes
    <3>2. LdTypes'
      BY <3>1
    <3>3. \A q \in LedgerPaths : seen'[q] <= clock' /\ stamp'[q] <= clock'
      BY <3>1
    <3>4. stamp'[p] = clock + 1 /\ ~CheckWrite(p)'
      BY <3>1
    <3>5. \A q \in LedgerPaths \ {p} : stamp'[q] = stamp[q] /\ body'[q] = body[q]
      BY <3>1
    <3>6. \A q \in LedgerPaths : CheckWrite(q)' /\ ~(call'.at = "read" /\ call'.path = q) => Informed(q)'
      BY <3>1, <3>4, <3>5
    <3> QED
      BY <3>1, <3>2, <3>3, <3>5, <3>6
  <2>2. CASE body' = [body EXCEPT ![p] = b] /\ UNCHANGED <<stamp, clock>>
    <3>1. /\ body' = [body EXCEPT ![p] = b] /\ stamp' = stamp /\ clock' = clock
          /\ seen' = seen /\ shown' = shown /\ call' = call
          /\ excused' = excused \cup {p}
      BY <1>5, <2>2 DEF ChangedElsewhere
    <3>2. LdTypes'
      BY <3>1
    <3> QED
      BY <3>1, <3>2
  <2> QED
    BY <1>5, <2>1, <2>2 DEF ChangedElsewhere
<1>6. CASE NoteRead
  <2>p. PICK p \in LedgerPaths : p = call.path
    BY <1>6 DEF NoteRead, NoteWrite
  <2>1. /\ body' = body /\ stamp' = stamp /\ clock' = clock
        /\ excused' = excused /\ call' = NoCall /\ shown' = [shown EXCEPT ![p] = call.body]
        /\ seen' = seen \/ seen' = [seen EXCEPT ![p] = stamp[p]]
    BY <1>6, <2>p DEF NoteRead
  <2>i. Informed(p)'
    BY <1>6, <2>p, <2>1 DEF NoteRead
  <2>2. call'.at = "idle" /\ LdTypes'
    <3>1. call'.at = "idle" /\ call'.path = NoCall.path /\ call'.body = NoBody
      BY <2>1 DEF NoCall
    <3>2. call' \in [at : {"idle", "read", "write", "note", "forget"},
                     path : LedgerPaths \cup {NoCall.path},
                     body : LedgerBodies \cup {NoBody, CHOOSE b \in LedgerBodies : TRUE}]
      BY <2>1 DEF NoCall
    <3> QED
      BY <2>1, <3>1, <3>2
  <2>3. \A q \in LedgerPaths : seen'[q] <= clock' /\ stamp'[q] <= clock'
    BY <2>1
  <2>4. ASSUME NEW q \in LedgerPaths \ {p}, CheckWrite(q)'
        PROVE  Informed(q)'
    <3>1. seen'[q] = seen[q] /\ stamp'[q] = stamp[q] /\ shown'[q] = shown[q] /\ body'[q] = body[q]
      BY <2>1
    <3>2. Informed(q)
      BY <2>4, <3>1, <1>6 DEF NoteRead
    <3> QED
      BY <3>1, <3>2, <2>1
  <2> QED
    BY <2>i, <2>2, <2>3, <2>4
<1>7. CASE EditFails
  BY <1>7 DEF EditFails, NoCall
<1>8. CASE NoteWrite
  <2>p. PICK p \in LedgerPaths : p = call.path
    BY <1>8 DEF NoteRead, NoteWrite
  <2>1. /\ body' = body /\ stamp' = stamp /\ clock' = clock
        /\ excused' = excused /\ call' = NoCall /\ shown' = shown
        /\ seen' = seen \/ seen' = [seen EXCEPT ![p] = stamp[p]]
    BY <1>8, <2>p DEF NoteWrite
  <2>i. Informed(p)'
    BY <1>8, <2>p, <2>1 DEF NoteWrite
  <2>2. call'.at = "idle" /\ LdTypes'
    <3>1. call'.at = "idle" /\ call'.path = NoCall.path /\ call'.body = NoBody
      BY <2>1 DEF NoCall
    <3>2. call' \in [at : {"idle", "read", "write", "note", "forget"},
                     path : LedgerPaths \cup {NoCall.path},
                     body : LedgerBodies \cup {NoBody, CHOOSE b \in LedgerBodies : TRUE}]
      BY <2>1 DEF NoCall
    <3> QED
      BY <2>1, <3>1, <3>2
  <2>3. \A q \in LedgerPaths : seen'[q] <= clock' /\ stamp'[q] <= clock'
    BY <2>1
  <2>4. ASSUME NEW q \in LedgerPaths \ {p}, CheckWrite(q)'
        PROVE  Informed(q)'
    <3>1. seen'[q] = seen[q] /\ stamp'[q] = stamp[q] /\ shown'[q] = shown[q] /\ body'[q] = body[q]
      BY <2>1
    <3>2. Informed(q)
      BY <2>4, <3>1, <1>8 DEF NoteWrite
    <3> QED
      BY <3>1, <3>2, <2>1
  <2> QED
    BY <2>i, <2>2, <2>3, <2>4
<1>9. CASE NoteForgotten
  BY <1>9 DEF NoteForgotten, NoCall
<1>10. CASE Compacts
  BY <1>10 DEF Compacts
<1>11. CASE UNCHANGED ldVars
  BY <1>11 DEF ldVars
<1> QED
  BY <1>1, <1>2, <1>3, <1>4, <1>5, <1>6, <1>7, <1>8, <1>9, <1>10, <1>11 DEF LdNext

\* An edit replaces only a body that the model has read, whatever other writers
\* and rewrites of the history come between the guard and the write
\* (_edit_guard), unless the stamps of the file did not tell.
THEOREM EditSafety == LdSpec => EditsAreInformed
<1>1. LdInv /\ [LdNext]_ldVars =>
        [call.at = "write" /\ call'.at \in {"note", "forget"} =>
          \/ body[call.path] = NoBody
          \/ shown[call.path] = body[call.path]
          \/ call.path \in excused]_ldVars
  BY DEF LdInv, Informed
<1> QED
  BY LdInitInv, LdStepInv, <1>1, PTL DEF LdSpec, EditsAreInformed

\* The call and the bodies of the ledger have their types at first.
LEMMA LdInitTypes == LdInit => LdTypeOK
<1> SUFFICES ASSUME LdInit PROVE LdTypeOK
  OBVIOUS
<1>1. (CHOOSE p \in LedgerPaths : TRUE) \in LedgerPaths /\ (CHOOSE b \in LedgerBodies : TRUE) \in LedgerBodies
  BY LedgerAssumption
<1>2. call \in [at : {"idle", "read", "write", "note", "forget"}, path : LedgerPaths, body : LedgerBodies \union {NoBody}]
  BY <1>1 DEF LdInit, NoCall
<1>3. body \in [LedgerPaths -> LedgerBodies \union {NoBody}]
  BY <1>1 DEF LdInit
<1> QED BY <1>2, <1>3, LedgerAssumption DEF LdInit, LdTypeOK

\* Every step of the ledger keeps the types.
LEMMA LdStepTypes == LdTypeOK /\ [LdNext]_ldVars => LdTypeOK'
<1> SUFFICES ASSUME LdTypeOK, [LdNext]_ldVars PROVE LdTypeOK'
  OBVIOUS
<1>0. NoCall \in [at : {"idle", "read", "write", "note", "forget"}, path : LedgerPaths, body : LedgerBodies \union {NoBody}]
      /\ MaxStamp \in Nat \ {0} /\ MaxFolds \in Nat
  BY LedgerAssumption DEF NoCall
<1> HIDE DEF NoCall
<1> USE DEF LdTypeOK
<1>1. ASSUME NEW p \in LedgerPaths, ReadBody(p) PROVE LdTypeOK'
  BY <1>1 DEF ReadBody
<1>2. ASSUME NEW p \in LedgerPaths, EditGuard(p) PROVE LdTypeOK'
  BY <1>2 DEF EditGuard
<1>3. ASSUME NEW p \in LedgerPaths, RewriteDrops(p) PROVE LdTypeOK'
  BY <1>0, <1>3 DEF RewriteDrops
<1>4. ASSUME NEW b \in LedgerBodies \union {NoBody}, EditFile(b) PROVE LdTypeOK'
  <2>1. call' \in [at : {"idle", "read", "write", "note", "forget"}, path : LedgerPaths, body : LedgerBodies \union {NoBody}]
    BY <1>4 DEF EditFile
  <2>2. body' \in [LedgerPaths -> LedgerBodies \union {NoBody}] /\ shown' \in [LedgerPaths -> LedgerBodies \union {NoBody}]
    BY <1>4 DEF EditFile, Changes
  <2>3. clock' \in 1..MaxStamp /\ stamp' \in [LedgerPaths -> 1..MaxStamp]
    BY <1>0, <1>4 DEF EditFile, Changes
  <2> QED BY <1>4, <2>1, <2>2, <2>3 DEF EditFile
<1>5. ASSUME NEW p \in LedgerPaths, NEW b \in LedgerBodies \union {NoBody}, ChangedElsewhere(p, b) PROVE LdTypeOK'
  <2>1. body' \in [LedgerPaths -> LedgerBodies \union {NoBody}]
    BY <1>5 DEF ChangedElsewhere, Changes
  <2>2. clock' \in 1..MaxStamp /\ stamp' \in [LedgerPaths -> 1..MaxStamp]
    BY <1>0, <1>5 DEF ChangedElsewhere, Changes
  <2>3. excused' \subseteq LedgerPaths
    BY <1>5 DEF ChangedElsewhere
  <2> QED BY <1>5, <2>1, <2>2, <2>3 DEF ChangedElsewhere
<1>6. CASE NoteRead
  BY <1>0, <1>6 DEF NoteRead
<1>7. CASE EditFails
  BY <1>0, <1>7 DEF EditFails
<1>8. CASE NoteWrite
  BY <1>0, <1>8 DEF NoteWrite
<1>9. CASE NoteForgotten
  BY <1>0, <1>9 DEF NoteForgotten
<1>10. CASE Compacts
  BY <1>0, <1>10 DEF Compacts
<1>11. CASE UNCHANGED ldVars
  BY <1>11 DEF ldVars
<1> QED BY <1>1, <1>2, <1>3, <1>4, <1>5, <1>6, <1>7, <1>8, <1>9, <1>10, <1>11 DEF LdNext

---------------------------------------------------------------------------
(* The MCP server.                                                        *)

SessionRecord == [st : {"opening", "open", "failed", "closed"}, entry : Entries,
                  stop : BOOLEAN, error : BOOLEAN]
Places == {"idle", "handshake", "remote stop", "closing", "releasing", "draining", "ended"}
Plans == [then : {"end", "connect", "adopt"}, record : BOOLEAN,
          entry : Entries \cup {NoEntry, Disabled}, connects : BOOLEAN]

\* The variables of the server and of its callers.
McpTypes ==
    /\ file \in Entries \cup {NoEntry, Disabled}
    /\ catalog \in Entries \cup {NoEntry}
    /\ sessions \in Seq(SessionRecord)
    /\ server \in 0..Len(sessions)
    /\ calls \in [Everyone -> [at : Places, sid : 0..Len(sessions), plan : Plans]]

\* A caller that has a session of its own; one that has any.
Holding(c) == calls[c].at \in {"handshake", "remote stop"}
McpActive(c) == calls[c].at \in {"handshake", "remote stop", "closing", "releasing"}

\* A session that is not told to stop belongs to one caller, or is installed.
McpOwned ==
    /\ server # 0 => ~sessions[server].stop /\ sessions[server].st \in {"open", "closed"}
    /\ \A c \in Everyone :
          /\ McpActive(c) => calls[c].sid # 0
          /\ Holding(c) => calls[c].sid # server /\ ~sessions[calls[c].sid].stop
          /\ McpActive(c) /\ ~Holding(c) => sessions[calls[c].sid].stop
    /\ \A c, d \in Everyone : c # d /\ Holding(c) /\ Holding(d) => calls[c].sid # calls[d].sid
    /\ \A s \in DOMAIN sessions :
          sessions[s].st = "opening" /\ ~sessions[s].stop =>
             \E c \in Everyone : calls[c].at = "handshake" /\ calls[c].sid = s

\* Two handshakes at once, or one beside an installed session, are overlaps.
McpCounted ==
    /\ \A c \in Everyone : calls[c].at = "handshake" /\ server # 0 => "connects" \in races
    /\ \A c, d \in Everyone :
          c # d /\ calls[c].at = "handshake" /\ calls[d].at = "handshake" => "connects" \in races

\* No overlap of enable_mcp and of disconnect so far.
McpQuiet == races \cap {"connects", "closes"} = {}

\* Without an overlap there is one caller at work at a time.
McpAlone ==
    McpQuiet => \A c \in Everyone :
       McpActive(c) => server = 0 /\ \A d \in Everyone : McpActive(d) => c = d

Disconnecting(c) == calls[c].at \in {"remote stop", "closing"}

\* What a disconnect goes on to do, by the caller.
McpPlanned(c) ==
    LET plan == calls[c].plan IN
    /\ c = Shutdown => plan.then = "end"
    /\ plan.then # "adopt" => plan.record
    /\ plan.then = "adopt" => c = Reload /\ plan.record = ~plan.connects
    /\ plan.connects => plan.entry \in Entries
    /\ plan.then = "adopt" /\ plan.entry = NoEntry => catalog # NoEntry

\* Where the batch, the reload and the shutdown can be.
McpRoles ==
    /\ calls[Shutdown].at \in {"idle", "remote stop", "closing", "draining", "ended"}
    /\ calls[Reload].at # "releasing"
    /\ \A c \in Everyone : calls[c].at \in {"draining", "ended"} => c = Shutdown
    /\ Busy(Reload) => \A c \in Callers \cup {Batch} : ~Busy(c)
    /\ Disconnecting(Reload) => server = 0
    /\ \A c \in Everyone : Disconnecting(c) => McpPlanned(c)

\* Without an overlap the status of the server is that of its session.
McpShown ==
    McpQuiet /\ "raised" \notin races =>
      /\ (\A c \in Everyone : ~McpActive(c)) => (status = "connected" <=> server # 0)
      /\ \A c \in Callers \cup {Batch} :
            calls[c].at \in {"handshake", "releasing"} => status # "connected"

\* Without an overlap a session serves the entry of the catalog.
McpFresh ==
    races \cap {"connects", "entry"} = {} =>
      /\ server # 0 => sessions[server].entry = catalog
      /\ \A c \in Everyone : calls[c].at = "handshake" => sessions[calls[c].sid].entry = catalog

\* The inductive invariant.
McpInv == McpTypes /\ McpOwned /\ NoLeak /\ McpCounted /\ McpAlone /\ McpRoles /\ McpShown /\ McpFresh

\* The part of it that does not speak of the status and of the entries.
McpStructure == McpTypes /\ McpOwned /\ NoLeak /\ McpCounted /\ McpAlone

\* The callers are different from each other.
LEMMA McpNames ==
    /\ Batch \notin Callers /\ Reload \notin Callers /\ Shutdown \notin Callers
    /\ Batch # Reload /\ Batch # Shutdown /\ Reload # Shutdown
    /\ Batch \in Everyone /\ Reload \in Everyone /\ Shutdown \in Everyone
    /\ Callers \subseteq Everyone
    /\ NoEntry \notin Entries /\ Disabled \notin Entries /\ NoEntry # Disabled
  BY McpAssumption DEF Everyone, Batch, Reload, Shutdown, Entries, NoEntry, Disabled

\* The sessions are a sequence.
LEMMA SessionsAre ==
    McpStructure => /\ Len(sessions) \in Nat /\ DOMAIN sessions = 1..Len(sessions)
                 /\ sessions \in Seq(SessionRecord)
  BY DEF McpStructure, McpTypes

\* Telling a session to stop changes nothing else of it.
LEMMA Stopping ==
    ASSUME sessions \in Seq(SessionRecord), NEW n \in DOMAIN sessions,
           sessions' = [sessions EXCEPT ![n].stop = TRUE]
    PROVE  /\ sessions' \in Seq(SessionRecord) /\ Len(sessions') = Len(sessions)
           /\ DOMAIN sessions' = DOMAIN sessions
           /\ \A s \in DOMAIN sessions \ {n} : sessions'[s] = sessions[s]
           /\ sessions'[n].entry = sessions[n].entry /\ sessions'[n].st = sessions[n].st
           /\ sessions'[n].stop = TRUE
<1> DEFINE r == [sessions[n] EXCEPT !.stop = TRUE]
<1>1. DOMAIN sessions = 1..Len(sessions) /\ Len(sessions) \in Nat /\ sessions[n] \in SessionRecord
  OBVIOUS
<1>2. r \in SessionRecord /\ r.entry = sessions[n].entry /\ r.st = sessions[n].st /\ r.stop = TRUE
  BY <1>1 DEF SessionRecord
<1>3. sessions' = [sessions EXCEPT ![n] = r]
  OBVIOUS
<1> HIDE DEF r
<1>4. sessions'[n] = r /\ \A s \in DOMAIN sessions \ {n} : sessions'[s] = sessions[s]
  BY <1>3
<1>5. sessions' \in Seq(SessionRecord) /\ Len(sessions') = Len(sessions) /\ DOMAIN sessions' = DOMAIN sessions
  <2>1. n \in 1..Len(sessions) /\ r \in SessionRecord
    BY <1>1, <1>2
  <2>2. PICK S : S = SessionRecord
    OBVIOUS
  <2>3. sessions \in Seq(S) /\ r \in S
    BY <2>1, <2>2
  <2>4. [sessions EXCEPT ![n] = r] \in Seq(S) /\ Len([sessions EXCEPT ![n] = r]) = Len(sessions)
    BY <2>1, <2>3, ExceptSeq
  <2> QED
    BY <2>2, <2>4, <1>3, <1>1
<1> QED
  BY <1>2, <1>4, <1>5

\* A caller that holds no session opens one, when none is installed.
LEMMA Spawns ==
    ASSUME McpStructure, NEW c \in Everyone, NEW e \in Entries,
           server = 0, ~Holding(c), SpawnHeld(c, e),
           file' \in Entries \cup {NoEntry, Disabled}, catalog' \in Entries \cup {NoEntry},
           cutShort' = cutShort
    PROVE  /\ McpStructure'
           /\ McpQuiet' => McpQuiet /\ \A d \in Everyone \ {c} : ~McpActive(d)
           /\ calls'[c].at = "handshake" /\ sessions'[calls'[c].sid].entry = e
           /\ server' = 0 /\ races \subseteq races'
           /\ \A d \in Everyone \ {c} : calls[d].at = "handshake" => "connects" \in races'
           /\ \A d \in Everyone \ {c} : calls'[d] = calls[d]
<1> DEFINE new == Len(sessions) + 1
<1>1. /\ sessions' = Append(sessions, Session(e))
      /\ calls' = [calls EXCEPT ![c] = [@ EXCEPT !.at = "handshake", !.sid = new]]
      /\ server' = server
  BY DEF SpawnHeld
<1>2. Session(e) \in SessionRecord /\ Session(e).st = "opening" /\ Session(e).stop = FALSE /\ Session(e).entry = e
  BY DEF Session, SessionRecord
<1>3. /\ sessions' \in Seq(SessionRecord) /\ Len(sessions') = new /\ sessions'[new] = Session(e)
      /\ \A s \in 1..Len(sessions) : sessions'[s] = sessions[s]
      /\ Len(sessions) \in Nat /\ DOMAIN sessions = 1..Len(sessions) /\ DOMAIN sessions' = 1..new
  BY <1>1, <1>2 DEF McpStructure, McpTypes
<1>4. /\ calls'[c].at = "handshake" /\ calls'[c].sid = new /\ calls'[c].plan = calls[c].plan
      /\ \A d \in Everyone \ {c} : calls'[d] = calls[d]
      /\ calls' \in [Everyone -> [at : Places, sid : 0..new, plan : Plans]]
  <2>1. /\ calls[c] \in [at : Places, sid : 0..Len(sessions), plan : Plans]
        /\ calls \in [Everyone -> [at : Places, sid : 0..new, plan : Plans]]
    BY <1>3 DEF McpStructure, McpTypes
  <2> DEFINE mid == [calls[c] EXCEPT !.at = "handshake"]
  <2>2. mid \in [at : Places, sid : 0..new, plan : Plans] /\ mid.at = "handshake" /\ mid.plan = calls[c].plan
    BY <2>1, <1>3 DEF Places
  <2>3. calls' = [calls EXCEPT ![c] = [mid EXCEPT !.sid = new]]
    BY <1>1
  <2>4. new \in 0..new
    BY <1>3
  <2> HIDE DEF mid, new
  <2>5. [mid EXCEPT !.sid = new] \in [at : Places, sid : 0..new, plan : Plans]
    BY <2>2, <2>4
  <2> QED
    BY <2>1, <2>2, <2>3, <2>5
<1>5. races \subseteq races'
  BY DEF SpawnHeld
<1>6. \A d \in Everyone \ {c} : Busy(d) => races' \cap {"connects", "closes"} # {}
  BY DEF SpawnHeld, Others
<1>7. \A d \in Everyone \ {c} : calls[d].at = "handshake" => "connects" \in races'
  BY DEF SpawnHeld, Others, Busy
<1>8. \A d \in Everyone : McpActive(d) => calls[d].sid \in 1..Len(sessions)
  BY <1>3 DEF McpStructure, McpTypes, McpOwned
<1>9. McpTypes'
  BY <1>1, <1>3, <1>4 DEF McpStructure, McpTypes
<1> HIDE DEF new
<1>10. new \notin 1..Len(sessions) /\ new # 0
  BY <1>3 DEF new
<1>11. McpOwned'
  <2>a. \A d \in Everyone \ {c} :
          /\ (McpActive(d)' <=> McpActive(d)) /\ (Holding(d)' <=> Holding(d))
          /\ calls'[d].sid = calls[d].sid
    BY <1>4 DEF McpActive, Holding
  <2>1. \A d \in Everyone : McpActive(d)' => calls'[d].sid # 0
    BY <2>a, <1>4, <1>8, <1>10
  <2>b. \A d \in Everyone :
          /\ Holding(d) => calls[d].sid # server /\ ~sessions[calls[d].sid].stop
          /\ McpActive(d) /\ ~Holding(d) => sessions[calls[d].sid].stop
          /\ Holding(d) => McpActive(d)
    BY DEF McpStructure, McpOwned, Holding, McpActive
  <2>c. \A d, f \in Everyone : d # f /\ Holding(d) /\ Holding(f) => calls[d].sid # calls[f].sid
    BY DEF McpStructure, McpOwned
  <2>d. /\ calls'[c].sid = new /\ Holding(c)' /\ McpActive(c)' /\ ~sessions'[new].stop
    BY <1>2, <1>3, <1>4 DEF Holding, McpActive
  <2>e. \A d \in Everyone \ {c} : McpActive(d) =>
          /\ calls'[d].sid \in 1..Len(sessions)
          /\ sessions'[calls'[d].sid] = sessions[calls[d].sid]
    BY <2>a, <1>3, <1>8
  <2>2. ASSUME NEW d \in Everyone, Holding(d)'
        PROVE  calls'[d].sid # server' /\ ~sessions'[calls'[d].sid].stop
    <3>1. CASE d = c
      BY <3>1, <2>d, <1>1, <1>10
    <3>2. CASE d # c
      BY <3>2, <2>2, <2>a, <2>b, <2>e, <1>1
    <3> QED
      BY <3>1, <3>2
  <2>3. ASSUME NEW d \in Everyone, McpActive(d)', ~Holding(d)'
        PROVE  sessions'[calls'[d].sid].stop
    BY <2>3, <2>a, <2>b, <2>d, <2>e
  <2>4. ASSUME NEW d \in Everyone, NEW f \in Everyone, d # f, Holding(d)', Holding(f)'
        PROVE  calls'[d].sid # calls'[f].sid
    BY <2>4, <2>a, <2>b, <2>c, <2>d, <2>e, <1>10
  <2>5. ASSUME NEW s \in DOMAIN sessions', sessions'[s].st = "opening", ~sessions'[s].stop
        PROVE  \E d \in Everyone : calls'[d].at = "handshake" /\ calls'[d].sid = s
    <3>1. CASE s = new
      BY <3>1, <1>4
    <3>2. CASE s # new
      <4>1. s \in DOMAIN sessions /\ sessions'[s] = sessions[s]
        BY <3>2, <2>5, <1>3 DEF new
      <4>2. PICK d \in Everyone : calls[d].at = "handshake" /\ calls[d].sid = s
        BY <4>1, <2>5 DEF McpStructure, McpOwned
      <4>3. d # c
        BY <4>2 DEF Holding
      <4> QED
        BY <4>2, <4>3, <1>4
    <3> QED
      BY <3>1, <3>2
  <2>6. server' = 0
    BY <1>1
  <2> QED
    BY <2>1, <2>2, <2>3, <2>4, <2>5, <2>6 DEF McpOwned
<1>12. NoLeak'
  <2>1. ASSUME NEW s \in DOMAIN sessions', sessions'[s].st = "open", ~sessions'[s].stop
        PROVE  \/ server' = s
               \/ \E d \in Everyone : calls'[d].sid = s /\ calls'[d].at \in {"handshake", "remote stop"}
               \/ "connects" \in races' \/ cutShort'
    <3>1. s \in DOMAIN sessions /\ sessions'[s] = sessions[s]
      BY <2>1, <1>2, <1>3 DEF new
    <3>2. \/ server = s
          \/ \E d \in Everyone : calls[d].sid = s /\ calls[d].at \in {"handshake", "remote stop"}
          \/ "connects" \in races \/ cutShort
      BY <2>1, <3>1 DEF McpStructure, NoLeak
    <3>3. ASSUME NEW d \in Everyone, calls[d].sid = s, calls[d].at \in {"handshake", "remote stop"}
          PROVE  calls'[d] = calls[d]
      BY <3>3, <1>4 DEF Holding
    <3> QED
      BY <3>2, <3>3, <1>1, <1>5
  <2> QED
    BY <2>1 DEF NoLeak
<1>13. McpCounted'
  BY <1>1, <1>4, <1>5, <1>7 DEF McpStructure, McpCounted
<1>14. McpQuiet' => McpQuiet /\ \A d \in Everyone \ {c} : ~McpActive(d)
  BY <1>5, <1>6 DEF McpQuiet, McpActive, Busy
<1>15. McpAlone'
  BY <1>1, <1>4, <1>14 DEF McpAlone, McpActive
<1> QED
  BY <1>1, <1>2, <1>3, <1>4, <1>5, <1>7, <1>9, <1>11, <1>12, <1>13, <1>14, <1>15 DEF McpStructure

\* A caller that holds no session takes out the installed one.
LEMMA Disconnects ==
    ASSUME McpStructure, NEW c \in Everyone, NEW plan \in Plans,
           server # 0, ~Holding(c), Disconnect(c, plan),
           file' \in Entries \cup {NoEntry, Disabled}, catalog' \in Entries \cup {NoEntry},
           cutShort' = cutShort
    PROVE  /\ McpStructure'
           /\ McpQuiet => \A d \in Everyone : ~McpActive(d)
           /\ server' = 0 /\ races' = races
           /\ calls'[c].at \in {"remote stop", "closing"} /\ calls'[c].plan = plan
           /\ \A d \in Everyone \ {c} : calls'[d] = calls[d]
           /\ Len(sessions') = Len(sessions)
           /\ \A s \in DOMAIN sessions : sessions'[s].entry = sessions[s].entry
<1>1. /\ server' = 0 /\ races' = races
      /\ calls' = [calls EXCEPT ![c] = [at |-> IF RemoteStop THEN "remote stop" ELSE "closing",
                                      sid |-> server, plan |-> plan]]
      /\ sessions' = IF RemoteStop THEN sessions ELSE [sessions EXCEPT ![server].stop = TRUE]
  BY DEF Disconnect
<1>2. server \in 1..Len(sessions) /\ Len(sessions) \in Nat /\ DOMAIN sessions = 1..Len(sessions)
  BY DEF McpStructure, McpTypes
<1>3. /\ sessions' \in Seq(SessionRecord) /\ Len(sessions') = Len(sessions) /\ DOMAIN sessions' = DOMAIN sessions
      /\ \A s \in DOMAIN sessions :
            /\ sessions'[s].entry = sessions[s].entry /\ sessions'[s].st = sessions[s].st
            /\ s # server \/ RemoteStop => sessions'[s] = sessions[s]
      /\ ~RemoteStop => sessions'[server].stop = TRUE
  <2>1. CASE RemoteStop
    BY <1>1, <1>2, <2>1 DEF McpStructure, McpTypes
  <2>2. CASE ~RemoteStop
    <3>1. sessions' = [sessions EXCEPT ![server].stop = TRUE]
      BY <1>1, <2>2
    <3> QED
      BY <1>2, <2>2, <3>1, Stopping DEF McpStructure, McpTypes
  <2> QED
    BY <2>1, <2>2
<1>4. /\ calls'[c].at = (IF RemoteStop THEN "remote stop" ELSE "closing")
      /\ calls'[c].sid = server /\ calls'[c].plan = plan
      /\ \A d \in Everyone \ {c} : calls'[d] = calls[d]
      /\ calls' \in [Everyone -> [at : Places, sid : 0..Len(sessions), plan : Plans]]
  BY <1>1, <1>2 DEF McpStructure, McpTypes, Places
<1>5. McpTypes'
  <2>1. calls' \in [Everyone -> [at : Places, sid : 0..Len(sessions'), plan : Plans]]
    BY <1>3, <1>4
  <2>a. Len(sessions') = Len(sessions) /\ Len(sessions) \in Nat /\ server' = 0
    BY <1>1, <1>2, <1>3
  <2>2. server' \in 0..Len(sessions')
    BY <2>a
  <2> QED
    BY <1>3, <2>1, <2>2 DEF McpTypes
<1>6. \A d \in Everyone : McpActive(d) => calls[d].sid \in 1..Len(sessions)
  BY <1>2 DEF McpStructure, McpTypes, McpOwned
<1>7. McpOwned'
  <2>a. \A d \in Everyone \ {c} :
          /\ (McpActive(d)' <=> McpActive(d)) /\ (Holding(d)' <=> Holding(d))
          /\ calls'[d].sid = calls[d].sid
    BY <1>4 DEF McpActive, Holding
  <2>b. \A d \in Everyone :
          /\ Holding(d) => calls[d].sid # server /\ ~sessions[calls[d].sid].stop
          /\ McpActive(d) /\ ~Holding(d) => sessions[calls[d].sid].stop
          /\ McpActive(d) => calls[d].sid \in DOMAIN sessions /\ calls[d].sid # 0
          /\ Holding(d) => McpActive(d)
    BY <1>2, <1>6 DEF McpStructure, McpOwned, Holding, McpActive
  <2>c. \A d, f \in Everyone : d # f /\ Holding(d) /\ Holding(f) => calls[d].sid # calls[f].sid
    BY DEF McpStructure, McpOwned
  <2>d. /\ calls'[c].sid = server
        /\ Holding(c)' => ~sessions'[server].stop
        /\ McpActive(c)' /\ ~Holding(c)' => sessions'[server].stop
    BY <1>2, <1>3, <1>4 DEF McpStructure, McpOwned, Holding, McpActive
  <2>e. \A s \in DOMAIN sessions :
          /\ s # server => sessions'[s].stop = sessions[s].stop
          /\ sessions[s].stop => sessions'[s].stop
    BY <1>2, <1>3 DEF McpStructure, McpOwned
  <2>1. ASSUME NEW d \in Everyone, McpActive(d)'
        PROVE  calls'[d].sid # 0
    BY <2>1, <2>a, <2>b, <2>d
  <2>2. ASSUME NEW d \in Everyone, Holding(d)'
        PROVE  calls'[d].sid # server' /\ ~sessions'[calls'[d].sid].stop
  <3>1. CASE d = c
    BY <2>2, <2>d, <3>1, <1>1, <1>2
  <3>2. CASE d # c
    BY <2>2, <3>2, <2>a, <2>b, <2>e, <1>1
  <3> QED
    BY <3>1, <3>2
  <2>3. ASSUME NEW d \in Everyone, McpActive(d)', ~Holding(d)'
        PROVE  sessions'[calls'[d].sid].stop
    BY <2>3, <2>a, <2>b, <2>d, <2>e
  <2>4. ASSUME NEW d \in Everyone, NEW f \in Everyone, d # f, Holding(d)', Holding(f)'
        PROVE  calls'[d].sid # calls'[f].sid
    BY <2>4, <2>a, <2>b, <2>c, <2>d
  <2>5. ASSUME NEW s \in DOMAIN sessions', sessions'[s].st = "opening", ~sessions'[s].stop
        PROVE  \E d \in Everyone : calls'[d].at = "handshake" /\ calls'[d].sid = s
    <3>1. s \in DOMAIN sessions /\ sessions[s].st = "opening" /\ s # server
      BY <2>5, <1>2, <1>3 DEF McpStructure, McpOwned
    <3>2. PICK d \in Everyone : calls[d].at = "handshake" /\ calls[d].sid = s
      BY <3>1, <2>5, <1>3 DEF McpStructure, McpOwned
    <3> QED
      BY <3>2, <1>4 DEF Holding
  <2> QED
    BY <1>1, <2>1, <2>2, <2>3, <2>4, <2>5 DEF McpOwned
<1>8. NoLeak'
  <2>1. ASSUME NEW s \in DOMAIN sessions', sessions'[s].st = "open", ~sessions'[s].stop
        PROVE  \/ \E d \in Everyone : calls'[d].sid = s /\ calls'[d].at \in {"handshake", "remote stop"}
               \/ "connects" \in races' \/ cutShort'
    <3>1. CASE s = server
      <4>1. RemoteStop
        BY <2>1, <3>1, <1>3
      <4> QED
        BY <3>1, <4>1, <1>4
    <3>2. CASE s # server
      <4>1. s \in DOMAIN sessions /\ sessions'[s] = sessions[s]
        BY <2>1, <3>2, <1>3
      <4>2. \/ \E d \in Everyone : calls[d].sid = s /\ calls[d].at \in {"handshake", "remote stop"}
            \/ "connects" \in races \/ cutShort
        BY <2>1, <4>1, <3>2 DEF McpStructure, NoLeak
      <4>3. ASSUME NEW d \in Everyone, calls[d].sid = s, calls[d].at \in {"handshake", "remote stop"}
            PROVE  calls'[d] = calls[d]
        BY <4>3, <1>4 DEF Holding
      <4> QED
        BY <4>2, <4>3, <1>1
    <3> QED
      BY <3>1, <3>2
  <2> QED
    BY <2>1 DEF NoLeak
<1>9. McpCounted'
  BY <1>1, <1>4 DEF McpStructure, McpCounted
<1>10. McpQuiet => \A d \in Everyone : ~McpActive(d)
  BY DEF McpStructure, McpAlone
<1>11. McpAlone'
  BY <1>1, <1>4, <1>10 DEF McpAlone, McpActive, McpQuiet
<1> QED
  BY <1>1, <1>3, <1>4, <1>5, <1>7, <1>8, <1>9, <1>10, <1>11 DEF McpStructure

\* A caller that holds a session tells it to stop and waits on.
LEMMA Stops ==
    ASSUME McpStructure, NEW c \in Everyone, Holding(c),
           sessions' = [sessions EXCEPT ![calls[c].sid].stop = TRUE],
           UNCHANGED <<file, catalog, server, races, cutShort>>,
           calls' \in [Everyone -> [at : Places, sid : 0..Len(sessions), plan : Plans]],
           calls'[c].at \in {"closing", "releasing"}, calls'[c].sid = calls[c].sid,
           \A d \in Everyone \ {c} :
              /\ McpActive(d)' <=> McpActive(d)
              /\ McpActive(d) => calls'[d].at = calls[d].at /\ calls'[d].sid = calls[d].sid
    PROVE  /\ McpStructure'
           /\ \A s \in DOMAIN sessions : sessions'[s].entry = sessions[s].entry
           /\ \A d \in Everyone : McpActive(d)' <=> McpActive(d)
<1> DEFINE n == calls[c].sid
<1>1. Len(sessions) \in Nat /\ DOMAIN sessions = 1..Len(sessions) /\ sessions \in Seq(SessionRecord)
  BY DEF McpStructure, McpTypes
<1>2. \A d \in Everyone :
        /\ Holding(d) => calls[d].sid # server /\ ~sessions[calls[d].sid].stop
        /\ McpActive(d) /\ ~Holding(d) => sessions[calls[d].sid].stop
        /\ McpActive(d) => calls[d].sid \in DOMAIN sessions /\ calls[d].sid # 0
        /\ Holding(d) => McpActive(d)
  <2>1. \A d \in Everyone : McpActive(d) => calls[d].sid \in DOMAIN sessions /\ calls[d].sid # 0
    BY <1>1 DEF McpStructure, McpTypes, McpOwned
  <2> QED
    BY <2>1 DEF McpStructure, McpOwned, Holding, McpActive
<1>3. n \in DOMAIN sessions /\ n # server
  BY <1>2
<1> HIDE DEF n
<1>4. /\ sessions' \in Seq(SessionRecord) /\ Len(sessions') = Len(sessions)
      /\ DOMAIN sessions' = DOMAIN sessions
      /\ \A s \in DOMAIN sessions \ {n} : sessions'[s] = sessions[s]
      /\ sessions'[n].entry = sessions[n].entry /\ sessions'[n].st = sessions[n].st
      /\ sessions'[n].stop = TRUE
  <2>1. sessions' = [sessions EXCEPT ![n].stop = TRUE]
    BY DEF n
  <2> QED
    BY <1>1, <1>3, <2>1, Stopping
<1>5. \A d \in Everyone \ {c} :
        /\ (McpActive(d)' <=> McpActive(d)) /\ (Holding(d)' <=> Holding(d))
        /\ McpActive(d) => calls'[d].at = calls[d].at /\ calls'[d].sid = calls[d].sid
  BY DEF McpActive, Holding
<1>6. calls'[c].sid = n /\ McpActive(c) /\ McpActive(c)' /\ ~Holding(c)' /\ calls'[c].at # "handshake"
  BY DEF McpActive, Holding, n
<1>7. McpTypes'
  <2>1. calls' \in [Everyone -> [at : Places, sid : 0..Len(sessions'), plan : Plans]]
    BY <1>4
  <2>2. server' \in 0..Len(sessions') /\ file' \in Entries \cup {NoEntry, Disabled}
        /\ catalog' \in Entries \cup {NoEntry}
    BY <1>4 DEF McpStructure, McpTypes
  <2> QED
    BY <1>4, <2>1, <2>2 DEF McpTypes
<1>8. \A s \in DOMAIN sessions :
        /\ sessions[s].stop => sessions'[s].stop
        /\ s # n => sessions'[s].stop = sessions[s].stop
        /\ sessions'[s].st = sessions[s].st
  BY <1>3, <1>4
<1>9. \A d, f \in Everyone : d # f /\ Holding(d) /\ Holding(f) => calls[d].sid # calls[f].sid
  BY DEF McpStructure, McpOwned
<1>10. McpOwned'
  <2>1. server' # 0 => ~sessions'[server'].stop /\ sessions'[server'].st \in {"open", "closed"}
    <3>1. server' = server
      OBVIOUS
    <3>2. CASE server # 0
      <4>1. server \in DOMAIN sessions
        BY <3>2, <1>1 DEF McpStructure, McpTypes
      <4>2. ~sessions[server].stop /\ sessions[server].st \in {"open", "closed"}
        BY <3>2 DEF McpStructure, McpOwned
      <4> QED
        BY <3>1, <4>1, <4>2, <1>3, <1>4
    <3> QED
      BY <3>1, <3>2
  <2>2. ASSUME NEW d \in Everyone, McpActive(d)'
        PROVE  calls'[d].sid # 0
    BY <2>2, <1>2, <1>3, <1>5, <1>6
  <2>3. ASSUME NEW d \in Everyone, Holding(d)'
        PROVE  calls'[d].sid # server' /\ ~sessions'[calls'[d].sid].stop
    <3>1. d # c /\ Holding(d) /\ calls'[d].sid = calls[d].sid
      BY <2>3, <1>2, <1>5, <1>6
    <3>2. calls[d].sid # n
      BY <3>1, <1>9 DEF n
    <3>3. calls[d].sid # server /\ ~sessions[calls[d].sid].stop /\ calls[d].sid \in DOMAIN sessions
      BY <3>1, <1>2
    <3> QED
      BY <3>1, <3>2, <3>3, <1>4
  <2>4. ASSUME NEW d \in Everyone, McpActive(d)', ~Holding(d)'
        PROVE  sessions'[calls'[d].sid].stop
    <3>1. CASE d = c
      BY <3>1, <1>4, <1>6
    <3>2. CASE d # c
      BY <2>4, <3>2, <1>2, <1>5, <1>8
    <3> QED
      BY <3>1, <3>2
  <2>5. ASSUME NEW d \in Everyone, NEW f \in Everyone, d # f, Holding(d)', Holding(f)'
        PROVE  calls'[d].sid # calls'[f].sid
    BY <2>5, <1>2, <1>5, <1>6, <1>9
  <2>6. ASSUME NEW s \in DOMAIN sessions', sessions'[s].st = "opening", ~sessions'[s].stop
        PROVE  \E d \in Everyone : calls'[d].at = "handshake" /\ calls'[d].sid = s
    <3>1. s \in DOMAIN sessions /\ s # n /\ sessions[s].st = "opening" /\ ~sessions[s].stop
      BY <2>6, <1>4, <1>8
    <3>2. PICK d \in Everyone : calls[d].at = "handshake" /\ calls[d].sid = s
      BY <3>1 DEF McpStructure, McpOwned
    <3>3. d # c /\ McpActive(d)
      BY <3>1, <3>2 DEF n, McpActive
    <3> QED
      BY <3>2, <3>3, <1>5
  <2> QED
    BY <2>1, <2>2, <2>3, <2>4, <2>5, <2>6 DEF McpOwned
<1>11. NoLeak'
  <2>1. ASSUME NEW s \in DOMAIN sessions', sessions'[s].st = "open", ~sessions'[s].stop
        PROVE  \/ server' = s
               \/ \E d \in Everyone : calls'[d].sid = s /\ calls'[d].at \in {"handshake", "remote stop"}
               \/ "connects" \in races' \/ cutShort'
    <3>1. s \in DOMAIN sessions /\ s # n /\ sessions[s].st = "open" /\ ~sessions[s].stop
      BY <2>1, <1>4, <1>8
    <3>2. \/ server = s
          \/ \E d \in Everyone : calls[d].sid = s /\ calls[d].at \in {"handshake", "remote stop"}
          \/ "connects" \in races \/ cutShort
      BY <3>1 DEF McpStructure, NoLeak
    <3>3. ASSUME NEW d \in Everyone, calls[d].sid = s, calls[d].at \in {"handshake", "remote stop"}
          PROVE  calls'[d].sid = s /\ calls'[d].at \in {"handshake", "remote stop"}
      <4>1. d # c /\ McpActive(d)
        BY <3>1, <3>3 DEF n, McpActive
      <4> QED
        BY <3>3, <4>1, <1>5
    <3> QED
      BY <3>2, <3>3
  <2> QED
    BY <2>1 DEF NoLeak
<1>12. ASSUME NEW d \in Everyone, calls'[d].at = "handshake"
       PROVE  calls[d].at = "handshake"
  <2>1. d # c /\ McpActive(d)'
    BY <1>12, <1>6 DEF McpActive
  <2> QED
    BY <2>1, <1>12, <1>5
<1>13. McpCounted'
  BY <1>12 DEF McpStructure, McpCounted
<1>14. \A d \in Everyone : McpActive(d)' <=> McpActive(d)
  BY <1>5, <1>6
<1>15. McpAlone'
  BY <1>14 DEF McpStructure, McpAlone, McpQuiet
<1> QED
  BY <1>4, <1>7, <1>10, <1>11, <1>13, <1>14, <1>15 DEF McpStructure

\* The task of a session moves on; what the caller does is unchanged.
LEMMA McpMoves ==
    ASSUME McpStructure, NEW s \in DOMAIN sessions, NEW r \in SessionRecord,
           sessions' = [sessions EXCEPT ![s] = r],
           r.entry = sessions[s].entry, r.stop = sessions[s].stop,
           \/ sessions[s].st = "opening" /\ ~sessions[s].stop /\ r.st \in {"open", "failed"}
           \/ r.st = "closed",
           server = s => sessions[s].st # "opening" \/ sessions[s].stop,
           UNCHANGED <<file, catalog, server, calls, races, cutShort>>
    PROVE  /\ McpStructure'
           /\ \A n \in DOMAIN sessions : sessions'[n].entry = sessions[n].entry
<1>1. Len(sessions) \in Nat /\ DOMAIN sessions = 1..Len(sessions) /\ sessions \in Seq(SessionRecord)
  BY DEF McpStructure, McpTypes
<1>2. sessions'[s] = r /\ \A n \in DOMAIN sessions \ {s} : sessions'[n] = sessions[n]
  BY <1>1
<1>3. sessions' \in Seq(SessionRecord) /\ Len(sessions') = Len(sessions) /\ DOMAIN sessions' = DOMAIN sessions
  <2>1. PICK S : S = SessionRecord
    OBVIOUS
  <2>2. sessions \in Seq(S) /\ r \in S /\ s \in 1..Len(sessions)
    BY <1>1, <2>1
  <2>3. [sessions EXCEPT ![s] = r] \in Seq(S) /\ Len([sessions EXCEPT ![s] = r]) = Len(sessions)
    BY <2>2, ExceptSeq
  <2> QED
    BY <1>1, <2>1, <2>3
<1>4. \A n \in DOMAIN sessions :
        /\ sessions'[n].stop = sessions[n].stop /\ sessions'[n].entry = sessions[n].entry
        /\ sessions'[n].st = "opening" => sessions[n].st = "opening"
        /\ sessions'[n].st = "open" => sessions[n].st \in {"open", "opening"}
  BY <1>2
<1>5. McpTypes'
  <2>1. calls' \in [Everyone -> [at : Places, sid : 0..Len(sessions'), plan : Plans]]
    BY <1>3 DEF McpStructure, McpTypes
  <2>2. server' \in 0..Len(sessions') /\ file' \in Entries \cup {NoEntry, Disabled}
        /\ catalog' \in Entries \cup {NoEntry}
    BY <1>3 DEF McpStructure, McpTypes
  <2> QED
    BY <1>3, <2>1, <2>2 DEF McpTypes
<1>6. server # 0 => server \in DOMAIN sessions /\ ~sessions[server].stop /\ sessions[server].st \in {"open", "closed"}
  BY <1>1 DEF McpStructure, McpTypes, McpOwned
<1>7. \A d \in Everyone : McpActive(d) => calls[d].sid \in DOMAIN sessions
  BY <1>1 DEF McpStructure, McpTypes, McpOwned
<1>8. McpOwned'
  <2>1. server # 0 => ~sessions'[server].stop /\ sessions'[server].st \in {"open", "closed"}
    BY <1>2, <1>4, <1>6
  <2>2. \A d \in Everyone :
          /\ Holding(d) => calls[d].sid # server /\ ~sessions'[calls[d].sid].stop
          /\ McpActive(d) /\ ~Holding(d) => sessions'[calls[d].sid].stop
    <3>1. \A d \in Everyone :
          /\ Holding(d) => McpActive(d) /\ calls[d].sid # server /\ ~sessions[calls[d].sid].stop
          /\ McpActive(d) /\ ~Holding(d) => sessions[calls[d].sid].stop
      BY DEF McpStructure, McpOwned, Holding, McpActive
    <3> QED
      BY <3>1, <1>4, <1>7
  <2>3. \A n \in DOMAIN sessions' : sessions'[n].st = "opening" /\ ~sessions'[n].stop =>
             \E c \in Everyone : calls[c].at = "handshake" /\ calls[c].sid = n
    BY <1>3, <1>4 DEF McpStructure, McpOwned
  <2>4. \A c \in Everyone : (McpActive(c)' <=> McpActive(c)) /\ (Holding(c)' <=> Holding(c)) /\ calls'[c] = calls[c]
    BY DEF McpActive, Holding
  <2>5. \A c, d \in Everyone : c # d /\ Holding(c) /\ Holding(d) => calls[c].sid # calls[d].sid
    BY DEF McpStructure, McpOwned
  <2>6. \A c \in Everyone : McpActive(c) => calls[c].sid # 0
    BY DEF McpStructure, McpOwned
  <2> QED
    BY <2>1, <2>2, <2>3, <2>4, <2>5, <2>6 DEF McpOwned
<1>9. NoLeak'
  <2>1. ASSUME NEW n \in DOMAIN sessions', sessions'[n].st = "open", ~sessions'[n].stop
        PROVE  \/ server = n
               \/ \E d \in Everyone : calls[d].sid = n /\ calls[d].at \in {"handshake", "remote stop"}
               \/ "connects" \in races \/ cutShort
    <3>1. n \in DOMAIN sessions /\ ~sessions[n].stop /\ sessions[n].st \in {"open", "opening"}
      BY <2>1, <1>3, <1>4
    <3>2. CASE sessions[n].st = "open"
      BY <3>1, <3>2 DEF McpStructure, NoLeak
    <3>3. CASE sessions[n].st = "opening"
      BY <3>1, <3>3 DEF McpStructure, McpOwned
    <3> QED
      BY <3>1, <3>2, <3>3
  <2> QED
    BY <2>1 DEF NoLeak
<1>10. McpCounted' /\ McpAlone'
  BY DEF McpStructure, McpCounted, McpAlone, McpQuiet, McpActive
<1> QED
  BY <1>4, <1>5, <1>8, <1>9, <1>10 DEF McpStructure

\* A caller goes, or nobody does anything to a session.
LEMMA McpLeaves ==
    ASSUME McpStructure, NEW c \in Everyone,
           calls' \in [Everyone -> [at : Places, sid : 0..Len(sessions), plan : Plans]],
           \/ calls'[c] = calls[c]
           \/ /\ calls'[c].at \in {"idle", "ended"}
              /\ calls[c].at = "handshake" => sessions[calls[c].sid].st = "failed"
              /\ calls[c].at = "remote stop" => cutShort',
           \A d \in Everyone \ {c} : calls'[d] = calls[d],
           UNCHANGED <<server, sessions>>,
           file' \in Entries \cup {NoEntry, Disabled}, catalog' \in Entries \cup {NoEntry},
           races \subseteq races', races' \subseteq races \cup {"entry", "raised"},
           cutShort => cutShort'
    PROVE  /\ McpStructure'
           /\ McpQuiet' <=> McpQuiet
<1>1. Len(sessions) \in Nat /\ DOMAIN sessions = 1..Len(sessions) /\ sessions \in Seq(SessionRecord)
  BY SessionsAre
<1>2. McpTypes'
  BY DEF McpStructure, McpTypes
<1>3. ASSUME NEW d \in Everyone
      PROVE  /\ McpActive(d)' => McpActive(d) /\ calls'[d] = calls[d]
             /\ Holding(d)' => Holding(d) /\ calls'[d] = calls[d]
             /\ McpActive(d)' => (Holding(d)' <=> Holding(d))
             /\ calls'[d].at = "handshake" => calls[d].at = "handshake" /\ calls'[d] = calls[d]
  <2>1. CASE calls'[d] = calls[d]
    BY <2>1 DEF McpActive, Holding
  <2>2. CASE calls'[d] # calls[d]
    <3>1. calls'[d].at \in {"idle", "ended"}
      BY <2>2
    <3> QED
      BY <3>1 DEF McpActive, Holding
  <2> QED
    BY <2>1, <2>2
<1>4. McpOwned'
  <2>1. server' # 0 => ~sessions'[server'].stop /\ sessions'[server'].st \in {"open", "closed"}
    BY DEF McpStructure, McpOwned
  <2>2. ASSUME NEW d \in Everyone
        PROVE  /\ McpActive(d)' => calls'[d].sid # 0
               /\ Holding(d)' => calls'[d].sid # server' /\ ~sessions'[calls'[d].sid].stop
               /\ McpActive(d)' /\ ~Holding(d)' => sessions'[calls'[d].sid].stop
    <3>1. /\ McpActive(d) => calls[d].sid # 0
          /\ Holding(d) => calls[d].sid # server /\ ~sessions[calls[d].sid].stop
          /\ McpActive(d) /\ ~Holding(d) => sessions[calls[d].sid].stop
      BY DEF McpStructure, McpOwned
    <3> QED
      BY <3>1, <1>3
  <2>3. ASSUME NEW d \in Everyone, NEW f \in Everyone, d # f, Holding(d)', Holding(f)'
        PROVE  calls'[d].sid # calls'[f].sid
    <3>1. Holding(d) /\ Holding(f) /\ calls'[d] = calls[d] /\ calls'[f] = calls[f]
      BY <2>3, <1>3
    <3>2. \A g, h \in Everyone : g # h /\ Holding(g) /\ Holding(h) => calls[g].sid # calls[h].sid
      BY DEF McpStructure, McpOwned
    <3>3. calls[d].sid # calls[f].sid
      BY <2>3, <3>1, <3>2
    <3> QED
      BY <3>1, <3>3
  <2>4. ASSUME NEW s \in DOMAIN sessions', sessions'[s].st = "opening", ~sessions'[s].stop
        PROVE  \E d \in Everyone : calls'[d].at = "handshake" /\ calls'[d].sid = s
    <3>1. PICK d \in Everyone : calls[d].at = "handshake" /\ calls[d].sid = s
      BY <2>4 DEF McpStructure, McpOwned
    <3>2. calls'[d] = calls[d]
      BY <3>1, <2>4
    <3> QED
      BY <3>1, <3>2
  <2>5. \A d \in Everyone :
          /\ McpActive(d)' => calls'[d].sid # 0
          /\ Holding(d)' => calls'[d].sid # server' /\ ~sessions'[calls'[d].sid].stop
          /\ McpActive(d)' /\ ~Holding(d)' => sessions'[calls'[d].sid].stop
    BY <2>2
  <2>6. \A d, f \in Everyone : d # f /\ Holding(d)' /\ Holding(f)' => calls'[d].sid # calls'[f].sid
    BY <2>3
  <2>7. \A s \in DOMAIN sessions' : sessions'[s].st = "opening" /\ ~sessions'[s].stop =>
          \E d \in Everyone : calls'[d].at = "handshake" /\ calls'[d].sid = s
    BY <2>4
  <2> QED
    BY <2>1, <2>5, <2>6, <2>7 DEF McpOwned
<1>5. NoLeak'
  <2>1. ASSUME NEW s \in DOMAIN sessions, sessions[s].st = "open", ~sessions[s].stop
        PROVE  \/ server = s
               \/ \E d \in Everyone : calls'[d].sid = s /\ calls'[d].at \in {"handshake", "remote stop"}
               \/ "connects" \in races' \/ cutShort'
    <3>1. \/ server = s
          \/ \E d \in Everyone : calls[d].sid = s /\ calls[d].at \in {"handshake", "remote stop"}
          \/ "connects" \in races \/ cutShort
      BY <2>1 DEF McpStructure, NoLeak
    <3>2. ASSUME NEW d \in Everyone, calls[d].sid = s, calls[d].at \in {"handshake", "remote stop"}
          PROVE  calls'[d] = calls[d] \/ cutShort'
      BY <3>2, <2>1
    <3> QED
      BY <3>1, <3>2
  <2> QED
    BY <2>1 DEF NoLeak
<1>6. McpCounted'
  BY <1>3 DEF McpStructure, McpCounted
<1>7. McpQuiet' <=> McpQuiet
  BY DEF McpQuiet
<1>8. McpAlone'
  BY <1>3, <1>7 DEF McpStructure, McpAlone
<1> QED
  BY <1>2, <1>4, <1>5, <1>6, <1>7, <1>8 DEF McpStructure

\* A caller installs the session it opened.
LEMMA Installs ==
    ASSUME McpStructure, NEW c \in Everyone, Install(c)
    PROVE  McpStructure'
<1> DEFINE n == calls[c].sid
<1>1. Len(sessions) \in Nat /\ DOMAIN sessions = 1..Len(sessions)
  BY DEF McpStructure, McpTypes
<1>2. /\ calls[c].at = "handshake" /\ sessions[n].st \in {"open", "closed"} /\ server' = n
      /\ calls' = [calls EXCEPT ![c] = Idle]
      /\ UNCHANGED <<file, catalog, sessions, races, cutShort>>
  BY DEF Install, End
<1>3. McpActive(c) /\ Holding(c) /\ n # 0 /\ n # server /\ n \in DOMAIN sessions /\ ~sessions[n].stop
  <2>1. McpActive(c) /\ Holding(c)
    BY <1>2 DEF McpActive, Holding
  <2> QED
    BY <1>1, <2>1 DEF McpStructure, McpTypes, McpOwned
<1>4. Idle \in [at : Places, sid : 0..Len(sessions), plan : Plans] /\ Idle.at = "idle"
  BY <1>1 DEF Idle, Plan, Plans, Places, Entries
<1>5. calls'[c] = Idle /\ \A d \in Everyone \ {c} : calls'[d] = calls[d]
  BY <1>2 DEF McpStructure, McpTypes
<1>6. McpTypes'
  BY <1>1, <1>2, <1>3, <1>4 DEF McpStructure, McpTypes
<1> HIDE DEF n
<1>7. \A d \in Everyone :
        /\ McpActive(d)' => d # c /\ McpActive(d) /\ calls'[d] = calls[d] /\ (Holding(d)' <=> Holding(d))
        /\ Holding(d)' => McpActive(d)'
        /\ calls'[d].at = "handshake" => d # c /\ calls[d].at = "handshake"
  BY <1>4, <1>5 DEF McpActive, Holding
<1>8. McpOwned'
  <2>1. ~sessions'[server'].stop /\ sessions'[server'].st \in {"open", "closed"}
    BY <1>2, <1>3
  <2>2. ASSUME NEW d \in Everyone
        PROVE  /\ McpActive(d)' => calls'[d].sid # 0
               /\ Holding(d)' => calls'[d].sid # server' /\ ~sessions'[calls'[d].sid].stop
               /\ McpActive(d)' /\ ~Holding(d)' => sessions'[calls'[d].sid].stop
    <3>1. /\ McpActive(d) => calls[d].sid # 0
          /\ Holding(d) => ~sessions[calls[d].sid].stop
          /\ McpActive(d) /\ ~Holding(d) => sessions[calls[d].sid].stop
          /\ d # c /\ Holding(d) => calls[d].sid # n
      BY <1>3 DEF McpStructure, McpOwned, n
    <3> QED
      BY <3>1, <1>2, <1>7
  <2>3. ASSUME NEW d \in Everyone, NEW f \in Everyone, d # f, Holding(d)', Holding(f)'
        PROVE  calls'[d].sid # calls'[f].sid
    BY <2>3, <1>7 DEF McpStructure, McpOwned
  <2>4. ASSUME NEW s \in DOMAIN sessions', sessions'[s].st = "opening", ~sessions'[s].stop
        PROVE  \E d \in Everyone : calls'[d].at = "handshake" /\ calls'[d].sid = s
    <3>1. PICK d \in Everyone : calls[d].at = "handshake" /\ calls[d].sid = s
      BY <2>4, <1>2 DEF McpStructure, McpOwned
    <3>2. d # c
      BY <3>1, <2>4, <1>2 DEF n
    <3> QED
      BY <3>1, <3>2, <1>5
  <2> QED
    BY <2>1, <2>2, <2>3, <2>4 DEF McpOwned
<1>9. server # 0 => "connects" \in races
  BY <1>2 DEF McpStructure, McpCounted
<1>10. NoLeak'
  <2>1. ASSUME NEW s \in DOMAIN sessions, sessions[s].st = "open", ~sessions[s].stop
        PROVE  \/ server' = s
               \/ \E d \in Everyone : calls'[d].sid = s /\ calls'[d].at \in {"handshake", "remote stop"}
               \/ "connects" \in races \/ cutShort
    <3>1. s # 0
      BY <1>1
    <3>2. \/ server = s
          \/ \E d \in Everyone : calls[d].sid = s /\ calls[d].at \in {"handshake", "remote stop"}
          \/ "connects" \in races \/ cutShort
      BY <2>1 DEF McpStructure, NoLeak
    <3>3. ASSUME NEW d \in Everyone, calls[d].sid = s, calls[d].at \in {"handshake", "remote stop"}
          PROVE  server' = s \/ calls'[d] = calls[d]
      BY <3>3, <1>2, <1>5 DEF n
    <3> QED
      BY <1>9, <3>1, <3>2, <3>3
  <2> QED
    BY <2>1, <1>2 DEF NoLeak
<1>11. McpCounted'
  BY <1>2, <1>7 DEF McpStructure, McpCounted
<1>12. McpAlone'
  BY <1>2, <1>3, <1>7 DEF McpStructure, McpAlone, McpQuiet
<1> QED
  BY <1>6, <1>8, <1>10, <1>11, <1>12 DEF McpStructure

\* A step of one caller keeps the roles of the others.
LEMMA RolesKept ==
    ASSUME McpRoles, NEW c \in Everyone,
           \A d \in Everyone \ {c} : calls'[d] = calls[d],
           c = Shutdown => calls'[c].at \in {"idle", "remote stop", "closing", "draining", "ended"},
           c = Reload => calls'[c].at # "releasing" /\ (Disconnecting(c)' => server' = 0),
           calls'[c].at \in {"draining", "ended"} => c = Shutdown,
           Busy(c)' /\ ~Busy(c) =>
              \/ c = Shutdown
              \/ c # Reload /\ ~Busy(Reload)
              \/ c = Reload /\ \A d \in Callers \cup {Batch} : ~Busy(d),
           c # Reload => server' \in {0, server} \/ ~Busy(Reload),
           Disconnecting(c)' => McpPlanned(c)',
           c # Reload => catalog' = catalog \/ ~Busy(Reload)
    PROVE  McpRoles'
<1>1. \A d \in Everyone \ {c} : /\ (Busy(d)' <=> Busy(d)) /\ (Disconnecting(d)' <=> Disconnecting(d))
                                /\ calls'[d] = calls[d]
  BY DEF Busy, Disconnecting
<1>2. \A d \in Everyone : Disconnecting(d) => Busy(d)
  BY DEF Disconnecting, Busy
<1>3. ASSUME NEW d \in Everyone, Disconnecting(d)'
      PROVE  McpPlanned(d)'
  <2>1. CASE d # c
    <3>1. McpPlanned(d) /\ calls'[d] = calls[d] /\ Busy(d)
      BY <1>1, <1>2, <1>3, <2>1 DEF McpRoles
    <3>2. CASE c = Reload
      BY <2>1, <3>1, <3>2 DEF McpPlanned
    <3>3. CASE d = Reload
      BY <2>1, <3>1, <3>3 DEF McpPlanned
    <3>4. CASE d # Reload
      BY <3>1, <3>4 DEF McpPlanned
    <3> QED
      BY <3>2, <3>3, <3>4
  <2> QED
    BY <1>3, <2>1
<1>4. calls'[Shutdown].at \in {"idle", "remote stop", "closing", "draining", "ended"}
  BY <1>1, McpNames DEF McpRoles
<1>5. calls'[Reload].at # "releasing"
  BY <1>1, McpNames DEF McpRoles
<1>6. \A d \in Everyone : calls'[d].at \in {"draining", "ended"} => d = Shutdown
  BY <1>1 DEF McpRoles
<1>7. Busy(Reload)' => \A d \in Callers \cup {Batch} : ~Busy(d)'
  <2>1. ASSUME Busy(Reload)', NEW d \in Callers \cup {Batch}
        PROVE  ~Busy(d)'
    <3>1. d # Reload /\ d # Shutdown /\ d \in Everyone /\ Reload \in Everyone
      BY McpNames
    <3>2. Busy(Reload) => ~Busy(d)
      BY DEF McpRoles
    <3>3. CASE c = Reload
      <4>1. Busy(c)' /\ (Busy(c) <=> Busy(Reload))
        BY <2>1, <3>3
      <4>2. ~Busy(d)
        BY <4>1, <3>2, <3>3, McpNames
      <4> QED
        BY <4>2, <3>1, <3>3, <1>1
    <3>4. CASE c # Reload
      <4>1. Busy(Reload) /\ ~Busy(d)
        BY <2>1, <3>1, <3>2, <3>4, <1>1
      <4>2. c = d => ~Busy(d)'
        BY <3>1, <4>1
      <4> QED
        BY <3>1, <4>1, <4>2, <1>1
    <3> QED
      BY <3>3, <3>4
  <2> QED
    BY <2>1
<1>8. Disconnecting(Reload)' => server' = 0
  BY <1>1, <1>2, McpNames DEF McpRoles
<1> QED
  BY <1>3, <1>4, <1>5, <1>6, <1>7, <1>8 DEF McpRoles

\* What the invariant says of the types, for the steps.
LEMMA McpTyped ==
    McpInv => /\ McpStructure /\ McpRoles /\ McpShown /\ McpFresh
              /\ file \in Entries \cup {NoEntry, Disabled} /\ catalog \in Entries \cup {NoEntry}
              /\ calls \in [Everyone -> [at : Places, sid : 0..Len(sessions), plan : Plans]]
              /\ \A c \in Everyone : McpActive(c) => calls[c].sid \in DOMAIN sessions
  BY DEF McpInv, McpStructure, McpTypes, McpOwned

\* A plan is a plan.
LEMMA PlanTypes ==
    /\ Plan("end") \in Plans /\ Plan("connect") \in Plans
    /\ Idle \in [at : Places, sid : {0}, plan : Plans] /\ Idle.at = "idle"
    /\ Plan("end").then = "end" /\ Plan("end").record /\ ~Plan("end").connects
    /\ Plan("connect").then = "connect" /\ Plan("connect").record /\ ~Plan("connect").connects
  BY DEF Plan, Plans, Idle, Places

\* Where a caller that has gone is.
McpOver == {Idle, [Idle EXCEPT !.at = "ended"]}

\* Whoever goes is idle, or has ended.
LEMMA Ending ==
    ASSUME McpInv, NEW c \in Everyone, NEW r \in McpOver, calls' = [calls EXCEPT ![c] = r]
    PROVE  /\ calls' \in [Everyone -> [at : Places, sid : 0..Len(sessions), plan : Plans]]
           /\ calls'[c].at \in {"idle", "ended"} /\ (r = Idle => calls'[c].at = "idle")
           /\ \A d \in Everyone \ {c} : calls'[d] = calls[d]
           /\ \A d \in Everyone : McpActive(d)' => d # c /\ McpActive(d)
           /\ ~Busy(c)' /\ ~Disconnecting(c)' /\ calls'[c].at # "draining"
<1>1. /\ r \in [at : Places, sid : 0..Len(sessions), plan : Plans] /\ r.at \in {"idle", "ended"}
      /\ (r = Idle => r.at = "idle")
  <2>1. Len(sessions) \in Nat
    BY McpTyped, SessionsAre
  <2>2. Idle = [at |-> "idle", sid |-> 0, plan |-> Plan("end")]
    BY DEF Idle
  <2>3. [Idle EXCEPT !.at = "ended"] = [at |-> "ended", sid |-> 0, plan |-> Plan("end")]
    BY <2>2
  <2>4. r = [at |-> "idle", sid |-> 0, plan |-> Plan("end")] \/ r = [at |-> "ended", sid |-> 0, plan |-> Plan("end")]
    BY <2>2, <2>3 DEF McpOver
  <2>5. 0 \in 0..Len(sessions) /\ "idle" \in Places /\ "ended" \in Places /\ Plan("end") \in Plans
    <3>1. 0 \in 0..Len(sessions)
      BY <2>1
    <3>2. "idle" \in Places /\ "ended" \in Places
      BY DEF Places
    <3> QED
      BY <3>1, <3>2, PlanTypes
  <2>6. r.at \in {"idle", "ended"} /\ (r = Idle => r.at = "idle")
    BY <2>2, <2>4
  <2>7. r \in [at : Places, sid : 0..Len(sessions), plan : Plans]
    BY <2>4, <2>5
  <2> QED
    BY <2>6, <2>7
<1>2. calls \in [Everyone -> [at : Places, sid : 0..Len(sessions), plan : Plans]]
  BY McpTyped
<1>3. calls'[c] = r /\ \A d \in Everyone \ {c} : calls'[d] = calls[d]
  BY <1>2
<1> QED
  BY <1>1, <1>2, <1>3 DEF McpActive, Busy, Disconnecting

\* While a session is closed, nothing is installed and nobody else is at work.
LEMMA Showing ==
    ASSUME McpShown, NEW c \in Everyone,
           McpQuiet => \A d \in Everyone \ {c} : ~McpActive(d),
           calls'[c].at \in {"remote stop", "closing"},
           \A d \in Everyone \ {c} : calls'[d] = calls[d],
           races' = races
    PROVE  McpShown'
<1>1. McpActive(c)' /\ calls'[c].at \notin {"handshake", "releasing"}
  BY DEF McpActive
<1>2. McpQuiet' => McpQuiet /\ \A d \in Everyone \ {c} : ~McpActive(d)'
  BY DEF McpQuiet, McpActive
<1>3. Callers \cup {Batch} \subseteq Everyone
  BY McpNames
<1> QED
  BY <1>1, <1>2, <1>3 DEF McpShown, McpActive

\* A session that is taken out while another one is opened is an overlap.
LEMMA Freshening ==
    ASSUME McpStructure, McpFresh, server # 0, server' = 0, races' = races, NEW c \in Everyone,
           calls'[c].at \in {"remote stop", "closing"},
           \A d \in Everyone \ {c} : calls'[d] = calls[d]
    PROVE  McpFresh'
<1>1. \A d \in Everyone : calls'[d].at = "handshake" => "connects" \in races'
  BY DEF McpStructure, McpCounted
<1> QED
  BY <1>1 DEF McpFresh

\* Whoever connects while nothing is installed does not find it connected.
LEMMA Spawning ==
    ASSUME McpShown, NEW c \in Everyone, server = 0, races \subseteq races',
           McpQuiet' => McpQuiet /\ \A d \in Everyone \ {c} : ~McpActive(d),
           status' = "connected" => c = Reload \/ (status = "connected" /\ ~McpActive(c)),
           calls'[c].at = "handshake",
           \A d \in Everyone \ {c} : calls'[d] = calls[d]
    PROVE  McpShown'
<1>1. McpActive(c)' /\ Reload \notin Callers \cup {Batch}
  BY McpNames DEF McpActive
<1>2. Callers \cup {Batch} \subseteq Everyone
  BY McpNames
<1>3. ASSUME McpQuiet', "raised" \notin races', NEW d \in Callers \cup {Batch},
             calls'[d].at \in {"handshake", "releasing"}
      PROVE  status' # "connected"
  <2>1. d = c
    BY <1>2, <1>3 DEF McpActive
  <2>2. status' = "connected" => status = "connected" /\ \A f \in Everyone : ~McpActive(f)
    BY <1>1, <1>3, <2>1
  <2> QED
    BY <1>3, <2>2 DEF McpShown
<1> QED
  BY <1>1, <1>3 DEF McpShown

\* enable_mcp opens a session, or has nothing to do.
LEMMA EnableMcpInv ==
    ASSUME McpInv, NEW c \in Callers, EnableMcp(c)
    PROVE  McpInv'
<1>1. /\ c \in Everyone /\ c # Reload /\ c # Shutdown /\ c # Batch /\ calls[c].at = "idle" /\ ~Busy(Reload)
      /\ catalog' = FileEntry /\ UNCHANGED <<file, status, cutShort>>
      /\ FileEntry \in Entries \cup {NoEntry} /\ (FileEntry # NoEntry => FileEntry \in Entries)
  BY McpNames DEF EnableMcp, FileEntry
<1>2. ~Holding(c) /\ ~McpActive(c) /\ ~Busy(c)
  BY <1>1 DEF Holding, McpActive, Busy
<1>3. /\ file' \in Entries \cup {NoEntry, Disabled} /\ catalog' \in Entries \cup {NoEntry}
      /\ McpStructure /\ McpRoles /\ McpShown /\ McpFresh
      /\ calls \in [Everyone -> [at : Places, sid : 0..Len(sessions), plan : Plans]]
  <2>1. /\ McpStructure /\ McpRoles /\ McpShown /\ McpFresh /\ file \in Entries \cup {NoEntry, Disabled}
        /\ calls \in [Everyone -> [at : Places, sid : 0..Len(sessions), plan : Plans]]
    BY McpTyped
  <2>2. file' \in Entries \cup {NoEntry, Disabled} /\ catalog' \in Entries \cup {NoEntry}
    BY <1>1, <2>1
  <2> QED
    BY <2>1, <2>2
<1>4. CASE server # 0 /\ catalog = FileEntry /\ NoChange
  <2>1. UNCHANGED <<server, sessions, calls, races, catalog>>
    BY <1>1, <1>4 DEF NoChange
  <2>2. McpStructure'
    BY <1>1, <1>3, <2>1, McpLeaves
  <2>3. McpRoles' /\ McpShown' /\ McpFresh'
    BY <1>1, <1>3, <2>1 DEF McpRoles, McpShown, McpFresh, Busy, Disconnecting, McpPlanned, McpQuiet, McpActive
  <2> QED
    BY <2>2, <2>3 DEF McpInv, McpStructure
<1>5. CASE server # 0 /\ Disconnect(c, Plan("connect"))
  <2>1. /\ McpStructure' /\ (McpQuiet => \A d \in Everyone : ~McpActive(d))
        /\ server' = 0 /\ races' = races
        /\ calls'[c].at \in {"remote stop", "closing"} /\ calls'[c].plan = Plan("connect")
        /\ \A d \in Everyone \ {c} : calls'[d] = calls[d]
    BY <1>1, <1>2, <1>3, <1>5, PlanTypes, Disconnects
  <2>2. McpRoles'
    <3>1. McpPlanned(c)'
      BY <1>1, <2>1, PlanTypes DEF McpPlanned
    <3> QED
      BY <1>1, <1>2, <1>3, <2>1, <3>1, RolesKept
  <2>3. McpShown' /\ McpFresh'
    BY <1>1, <1>3, <1>5, <2>1, Showing, Freshening
  <2> QED
    BY <2>1, <2>2, <2>3 DEF McpInv, McpStructure
<1>6. CASE server = 0 /\ FileEntry = NoEntry
           /\ races' = (IF Others(c) = {} THEN races ELSE races \cup {"entry"})
           /\ UNCHANGED <<server, sessions, calls>>
  <2>1. McpStructure' /\ (McpQuiet' <=> McpQuiet)
    BY <1>1, <1>3, <1>6, McpLeaves
  <2>2. McpRoles'
    BY <1>1, <1>2, <1>3, <1>6, RolesKept DEF Disconnecting
  <2>3. McpShown'
    BY <1>1, <1>3, <1>6, <2>1 DEF McpShown, McpActive
  <2>4. "entry" \notin races' => \A d \in Everyone : calls[d].at # "handshake"
    BY <1>1, <1>6 DEF Others, Busy
  <2>5. McpFresh'
    BY <1>6, <2>4 DEF McpFresh
  <2> QED
    BY <2>1, <2>2, <2>3, <2>5 DEF McpInv, McpStructure
<1>7. CASE server = 0 /\ FileEntry \in Entries /\ SpawnHeld(c, FileEntry)
  <2>1. /\ McpStructure'
        /\ McpQuiet' => McpQuiet /\ \A d \in Everyone \ {c} : ~McpActive(d)
        /\ calls'[c].at = "handshake" /\ sessions'[calls'[c].sid].entry = FileEntry
        /\ server' = 0 /\ races \subseteq races'
        /\ \A d \in Everyone \ {c} : calls[d].at = "handshake" => "connects" \in races'
        /\ \A d \in Everyone \ {c} : calls'[d] = calls[d]
    BY <1>1, <1>2, <1>3, <1>7, Spawns
  <2>2. McpRoles'
    BY <1>1, <1>2, <1>3, <2>1, RolesKept DEF Disconnecting
  <2>3. McpShown'
    BY <1>1, <1>2, <1>3, <1>7, <2>1, Spawning
  <2>4. McpFresh'
    BY <1>1, <2>1 DEF McpFresh
  <2> QED
    BY <2>1, <2>2, <2>3, <2>4 DEF McpInv, McpStructure
<1>8. CASE server # 0 /\ catalog # NoEntry /\ catalog = FileEntry
  BY <1>4, <1>8 DEF EnableMcp
<1>9. CASE server # 0 /\ ~(catalog # NoEntry /\ catalog = FileEntry)
  BY <1>5, <1>9 DEF EnableMcp
<1>10. CASE server = 0 /\ FileEntry = NoEntry
  BY <1>6, <1>10 DEF EnableMcp
<1>11. CASE server = 0 /\ FileEntry # NoEntry
  BY <1>1, <1>7, <1>11 DEF EnableMcp
<1> QED
  BY <1>8, <1>9, <1>10, <1>11

\* The entry of what is served, and of what is opened, is still that of the catalog.
LEMMA FreshKept ==
    ASSUME McpInv, races \subseteq races', UNCHANGED <<catalog, server>>,
           \A s \in DOMAIN sessions : sessions'[s].entry = sessions[s].entry,
           \A d \in Everyone : calls'[d].at = "handshake" =>
              calls[d].at = "handshake" /\ calls'[d].sid = calls[d].sid
    PROVE  McpFresh'
<1>1. server # 0 => server \in DOMAIN sessions
  BY DEF McpInv, McpTypes
<1>2. \A d \in Everyone : calls[d].at = "handshake" => calls[d].sid \in DOMAIN sessions
  <2>1. \A d \in Everyone : calls[d].at = "handshake" => McpActive(d)
    BY DEF McpActive
  <2> QED
    BY <2>1, McpTyped
<1>3. McpFresh
  BY McpTyped
<1> QED
  BY <1>1, <1>2, <1>3 DEF McpFresh

\* The one caller at work goes, and does not leave the status at connected.
LEMMA Leaving ==
    ASSUME McpInv, NEW c \in Everyone, McpActive(c), races \subseteq races', UNCHANGED server,
           calls'[c].at \in {"idle", "ended"}, \A d \in Everyone \ {c} : calls'[d] = calls[d],
           McpQuiet' /\ "raised" \notin races' => status' # "connected"
    PROVE  McpShown'
<1>1. McpQuiet' => McpQuiet
  BY DEF McpQuiet
<1>2. McpQuiet => server = 0 /\ \A d \in Everyone : McpActive(d) => c = d
  BY DEF McpInv, McpAlone
<1>3. ASSUME McpQuiet', NEW d \in Callers \cup {Batch}
      PROVE  calls'[d].at \notin {"handshake", "releasing"}
  <2>1. d \in Everyone
    BY McpNames
  <2>2. CASE d = c
    BY <2>2
  <2>3. CASE d # c
    BY <1>1, <1>2, <1>3, <2>1, <2>3 DEF McpActive
  <2> QED
    BY <2>2, <2>3
<1> QED
  BY <1>1, <1>2, <1>3 DEF McpShown

\* disable_mcp takes the session out, or there is none.
LEMMA DisableMcpInv ==
    ASSUME McpInv, NEW c \in Callers, DisableMcp(c)
    PROVE  McpInv'
<1>1. /\ c \in Everyone /\ c # Reload /\ c # Shutdown /\ calls[c].at = "idle" /\ ~Busy(Reload) /\ server # 0
      /\ Disconnect(c, Plan("end")) /\ UNCHANGED <<file, catalog, status, cutShort>>
  BY McpNames DEF DisableMcp
<1>2. ~Holding(c) /\ ~McpActive(c) /\ ~Busy(c)
  BY <1>1 DEF Holding, McpActive, Busy
<1>3. McpStructure /\ McpRoles /\ McpShown /\ McpFresh
      /\ file \in Entries \cup {NoEntry, Disabled} /\ catalog \in Entries \cup {NoEntry}
  BY McpTyped
<1>4. /\ McpStructure' /\ (McpQuiet => \A d \in Everyone : ~McpActive(d))
      /\ server' = 0 /\ races' = races
      /\ calls'[c].at \in {"remote stop", "closing"} /\ calls'[c].plan = Plan("end")
      /\ \A d \in Everyone \ {c} : calls'[d] = calls[d]
  BY <1>1, <1>2, <1>3, PlanTypes, Disconnects
<1>5. McpRoles'
  <2>1. McpPlanned(c)'
    BY <1>1, <1>4, PlanTypes DEF McpPlanned
  <2> QED
    BY <1>1, <1>2, <1>3, <1>4, <2>1, RolesKept
<1>6. McpShown' /\ McpFresh'
  BY <1>1, <1>3, <1>4, Showing, Freshening
<1> QED
  BY <1>4, <1>5, <1>6 DEF McpInv, McpStructure

\* The turn is cancelled during a handshake, and the session is told to stop.
LEMMA CancelHandshakeInv ==
    ASSUME McpInv, NEW c \in Callers, CancelHandshake(c)
    PROVE  McpInv'
<1>1. /\ c \in Everyone /\ c # Reload /\ c # Shutdown /\ calls[c].at = "handshake"
      /\ sessions' = [sessions EXCEPT ![calls[c].sid].stop = TRUE]
      /\ calls' = [calls EXCEPT ![c].at = "releasing"]
      /\ UNCHANGED <<file, catalog, server, status, races, cutShort>>
  BY McpNames DEF CancelHandshake
<1>2. Holding(c) /\ McpActive(c) /\ Busy(c)
  BY <1>1 DEF Holding, McpActive, Busy
<1>3. McpStructure /\ McpRoles /\ McpShown /\ McpFresh
  BY McpTyped
<1>4. /\ calls' \in [Everyone -> [at : Places, sid : 0..Len(sessions), plan : Plans]]
      /\ calls'[c].at = "releasing" /\ calls'[c].sid = calls[c].sid
      /\ \A d \in Everyone \ {c} : calls'[d] = calls[d]
  BY <1>1, McpTyped DEF Places
<1>5. \A d \in Everyone \ {c} :
        /\ McpActive(d)' <=> McpActive(d)
        /\ McpActive(d) => calls'[d].at = calls[d].at /\ calls'[d].sid = calls[d].sid
  BY <1>4 DEF McpActive
<1>6. /\ McpStructure'
      /\ \A s \in DOMAIN sessions : sessions'[s].entry = sessions[s].entry
      /\ \A d \in Everyone : McpActive(d)' <=> McpActive(d)
  BY <1>1, <1>2, <1>3, <1>4, <1>5, Stops
<1>7. McpRoles'
  BY <1>1, <1>2, <1>3, <1>4, RolesKept DEF Disconnecting
<1>8. McpShown'
  <2>1. \A d \in Callers \cup {Batch} :
          calls'[d].at \in {"handshake", "releasing"} => calls[d].at \in {"handshake", "releasing"}
    BY <1>1, <1>4, McpNames
  <2> QED
    BY <1>1, <1>3, <1>6, <2>1 DEF McpShown, McpQuiet
<1>9. McpFresh'
  BY <1>1, <1>4, <1>6, FreshKept
<1> QED
  BY <1>6, <1>7, <1>8, <1>9 DEF McpInv, McpStructure

\* browser_stop returns, and the session is told to stop.
LEMMA RemoteStopEndsInv ==
    ASSUME McpInv, NEW c \in Everyone, RemoteStopEnds(c)
    PROVE  McpInv'
<1>1. /\ calls[c].at = "remote stop"
      /\ sessions' = [sessions EXCEPT ![calls[c].sid].stop = TRUE]
      /\ calls' = [calls EXCEPT ![c].at = "closing"]
      /\ UNCHANGED <<file, catalog, server, status, races, cutShort>>
  BY DEF RemoteStopEnds
<1>2. Holding(c) /\ McpActive(c) /\ Busy(c) /\ Disconnecting(c)
  BY <1>1 DEF Holding, McpActive, Busy, Disconnecting
<1>3. McpStructure /\ McpRoles /\ McpShown /\ McpFresh
  BY McpTyped
<1>4. /\ calls' \in [Everyone -> [at : Places, sid : 0..Len(sessions), plan : Plans]]
      /\ calls'[c].at = "closing" /\ calls'[c].sid = calls[c].sid /\ calls'[c].plan = calls[c].plan
      /\ \A d \in Everyone \ {c} : calls'[d] = calls[d]
  BY <1>1, McpTyped DEF Places
<1>5. \A d \in Everyone \ {c} :
        /\ McpActive(d)' <=> McpActive(d)
        /\ McpActive(d) => calls'[d].at = calls[d].at /\ calls'[d].sid = calls[d].sid
  BY <1>4 DEF McpActive
<1>6. /\ McpStructure'
      /\ \A s \in DOMAIN sessions : sessions'[s].entry = sessions[s].entry
      /\ \A d \in Everyone : McpActive(d)' <=> McpActive(d)
  BY <1>1, <1>2, <1>3, <1>4, <1>5, Stops
<1>7. McpRoles'
  <2>1. McpPlanned(c)'
    BY <1>1, <1>2, <1>3, <1>4 DEF McpRoles, McpPlanned
  <2>2. c = Reload => server' = 0
    BY <1>1, <1>2, <1>3 DEF McpRoles
  <2> QED
    BY <1>1, <1>2, <1>3, <1>4, <2>1, <2>2, RolesKept
<1>8. McpShown'
  <2>1. \A d \in Callers \cup {Batch} :
          calls'[d].at \in {"handshake", "releasing"} => calls[d].at \in {"handshake", "releasing"}
    BY <1>1, <1>4, McpNames
  <2> QED
    BY <1>1, <1>3, <1>6, <2>1 DEF McpShown, McpQuiet
<1>9. McpFresh'
  BY <1>1, <1>4, <1>6, FreshKept
<1> QED
  BY <1>6, <1>7, <1>8, <1>9 DEF McpInv, McpStructure

\* A caller that held no session that anybody would miss goes.
LEMMA LeavingInv ==
    ASSUME McpInv, NEW c \in Everyone, McpActive(c), NEW r \in McpOver, r = Idle \/ c = Shutdown,
           calls' = [calls EXCEPT ![c] = r],
           calls[c].at = "handshake" => sessions[calls[c].sid].st = "failed",
           calls[c].at = "remote stop" => cutShort',
           UNCHANGED <<file, catalog, server, sessions>>,
           races \subseteq races', races' \subseteq races \cup {"raised"},
           cutShort => cutShort',
           McpQuiet' /\ "raised" \notin races' => status' # "connected"
    PROVE  McpInv'
<1>1. /\ calls' \in [Everyone -> [at : Places, sid : 0..Len(sessions), plan : Plans]]
      /\ calls'[c].at \in {"idle", "ended"} /\ (r = Idle => calls'[c].at = "idle")
      /\ \A d \in Everyone \ {c} : calls'[d] = calls[d]
      /\ ~Busy(c)' /\ ~Disconnecting(c)'
  BY Ending
<1>2. McpStructure /\ McpRoles /\ file \in Entries \cup {NoEntry, Disabled} /\ catalog \in Entries \cup {NoEntry}
  BY McpTyped
<1>3. McpStructure'
  BY <1>1, <1>2, McpLeaves
<1>4. McpRoles'
  BY <1>1, <1>2, RolesKept
<1>5. McpShown'
  BY <1>1, Leaving
<1>6. McpFresh'
  BY <1>1, FreshKept
<1> QED
  BY <1>3, <1>4, <1>5, <1>6 DEF McpInv, McpStructure

\* What disconnect records is not the status of a connected server.
LEMMA Recorded ==
    ASSUME McpInv, NEW c \in Everyone, Disconnecting(c), RecordStopped(c)
    PROVE  /\ calls[c].plan.record => status' # "connected"
           /\ c # Reload \/ calls[c].plan.then # "adopt" => calls[c].plan.record
  BY DEF McpInv, McpRoles, McpPlanned, RecordStopped

\* The turn is cancelled during a disconnect.
LEMMA CancelDisconnectInv ==
    ASSUME McpInv, NEW c \in Callers, CancelDisconnect(c)
    PROVE  McpInv'
<1>1. /\ c \in Everyone /\ c # Reload /\ calls[c].at \in {"remote stop", "closing"}
      /\ RecordStopped(c) /\ calls' = [calls EXCEPT ![c] = Idle]
      /\ cutShort' = (cutShort \/ calls[c].at = "remote stop")
      /\ UNCHANGED <<file, catalog, server, sessions, races>>
  BY McpNames DEF CancelDisconnect, End
<1>2. McpActive(c) /\ Disconnecting(c) /\ Idle \in McpOver
  BY <1>1 DEF McpActive, Disconnecting, McpOver
<1>3. status' # "connected"
  BY <1>1, <1>2, Recorded
<1> QED
  BY <1>1, <1>2, <1>3, LeavingInv

\* The session of a cancelled handshake has ended.
LEMMA ReleasedInv ==
    ASSUME McpInv, NEW c \in Everyone, Released(c)
    PROVE  McpInv'
<1>1. /\ calls[c].at = "releasing" /\ calls' = [calls EXCEPT ![c] = Idle]
      /\ UNCHANGED <<file, catalog, server, status, sessions, races, cutShort>>
  BY DEF Released, End
<1>2. McpActive(c) /\ Idle \in McpOver
  BY <1>1 DEF McpActive, McpOver
<1>3. c \in Callers \cup {Batch}
  BY <1>1, McpTyped DEF McpRoles, Everyone
<1>4. McpQuiet' /\ "raised" \notin races' => status' # "connected"
  BY <1>1, <1>3, McpTyped DEF McpShown, McpQuiet
<1> QED
  BY <1>1, <1>2, <1>4, LeavingInv

\* A handshake that failed.
LEMMA ConnectFailsInv ==
    ASSUME McpInv, NEW c \in Everyone, ConnectFails(c)
    PROVE  McpInv'
<1>1. /\ calls[c].at = "handshake" /\ calls' = [calls EXCEPT ![c] = Idle]
      /\ sessions[calls[c].sid].st = "failed" /\ status' = "failed"
      /\ UNCHANGED <<file, catalog, server, sessions, races, cutShort>>
  BY DEF ConnectFails, End
<1>2. McpActive(c) /\ Idle \in McpOver
  BY <1>1 DEF McpActive, McpOver
<1> QED
  BY <1>1, <1>2, LeavingInv

\* What ends the wait of a disconnect is a session that is closed.
LEMMA ClosedIs ==
    ASSUME NEW c \in Everyone, Closed(c)
    PROVE  calls[c].at = "closing" /\ McpActive(c) /\ Disconnecting(c) /\ ~Holding(c) /\ Busy(c)
  BY DEF Closed, McpActive, Disconnecting, Holding, Busy

\* A disconnect ends, and records what it was told to.
LEMMA DisconnectEndsInv ==
    ASSUME McpInv, NEW c \in Everyone, DisconnectEnds(c)
    PROVE  McpInv'
<1>1. /\ Closed(c) /\ calls[c].plan.then = "end" /\ RecordStopped(c)
      /\ calls' = [calls EXCEPT ![c] = Idle] /\ Idle \in McpOver
      /\ UNCHANGED <<file, catalog, server, sessions, races, cutShort>>
  BY DEF DisconnectEnds, End, McpOver
<1>2. calls[c].at = "closing" /\ McpActive(c) /\ Disconnecting(c)
  BY <1>1, ClosedIs
<1>3. status' # "connected"
  BY <1>1, <1>2, Recorded
<1> QED
  BY <1>1, <1>2, <1>3, LeavingInv

\* The shutdown has disconnected the server.
LEMMA AllDisconnectedInv ==
    ASSUME McpInv, AllDisconnected
    PROVE  McpInv'
<1>1. /\ Shutdown \in Everyone /\ Shutdown # Reload /\ Closed(Shutdown) /\ RecordStopped(Shutdown)
      /\ calls' = [calls EXCEPT ![Shutdown] = [Idle EXCEPT !.at = "ended"]]
      /\ [Idle EXCEPT !.at = "ended"] \in McpOver
      /\ UNCHANGED <<file, catalog, server, sessions, races, cutShort>>
  BY McpNames DEF AllDisconnected, McpOver
<1>2. calls[Shutdown].at = "closing" /\ McpActive(Shutdown) /\ Disconnecting(Shutdown)
  BY <1>1, ClosedIs
<1>3. status' # "connected"
  BY <1>1, <1>2, Recorded
<1> QED
  BY <1>1, <1>2, <1>3, LeavingInv

\* A disconnect raises what the session ended with.
LEMMA DisconnectRaisesInv ==
    ASSUME McpInv, NEW c \in Everyone, DisconnectRaises(c)
    PROVE  McpInv'
<1>1. /\ Closed(c) /\ RecordStopped(c)
      /\ races' = (IF calls[c].plan.record THEN races ELSE races \cup {"raised"})
      /\ UNCHANGED <<file, catalog, server, sessions, cutShort>>
  BY DEF DisconnectRaises
<1>2. calls[c].at = "closing" /\ McpActive(c) /\ Disconnecting(c)
  BY <1>1, ClosedIs
<1>3. PICK r \in McpOver : (r = Idle \/ c = Shutdown) /\ calls' = [calls EXCEPT ![c] = r]
  BY DEF DisconnectRaises, McpOver
<1>4. "raised" \notin races' => status' # "connected"
  BY <1>1, <1>2, Recorded
<1>5. races \subseteq races' /\ races' \subseteq races \cup {"raised"}
  BY <1>1
<1> QED
  BY <1>1, <1>2, <1>3, <1>4, <1>5, LeavingInv

\* A session that opened is installed, or is let go.
LEMMA InstallInv ==
    ASSUME McpInv, NEW c \in Everyone, Install(c)
    PROVE  McpInv'
<1>1. /\ calls[c].at = "handshake" /\ server' = calls[c].sid /\ status' = "connected"
      /\ calls' = [calls EXCEPT ![c] = Idle] /\ Idle \in McpOver
      /\ UNCHANGED <<file, catalog, sessions, races, cutShort>>
  BY DEF Install, End, McpOver
<1>2. /\ calls'[c].at = "idle" /\ \A d \in Everyone \ {c} : calls'[d] = calls[d]
      /\ \A d \in Everyone : McpActive(d)' => d # c /\ McpActive(d)
      /\ ~Busy(c)' /\ ~Disconnecting(c)'
  BY <1>1, Ending
<1>3. McpStructure /\ McpRoles /\ McpShown /\ McpFresh /\ McpActive(c) /\ Busy(c)
  BY <1>1, McpTyped DEF McpActive, Busy
<1>4. McpStructure'
  BY <1>3, Installs
<1>5. McpRoles'
  <2>1. c # Shutdown
    BY <1>1, <1>3 DEF McpRoles
  <2>2. c # Reload => ~Busy(Reload)
    BY <1>3, <2>1 DEF McpRoles, Everyone
  <2> QED
    BY <1>1, <1>2, <1>3, <2>1, <2>2, RolesKept
<1>6. calls[c].sid # 0
  BY <1>3 DEF McpStructure, McpOwned
<1>7. McpQuiet => \A d \in Everyone : McpActive(d) => c = d
  BY <1>3 DEF McpStructure, McpAlone
<1>8. McpShown'
  <2>1. McpQuiet' => \A d \in Callers \cup {Batch} : calls'[d].at \notin {"handshake", "releasing"}
    BY <1>1, <1>2, <1>7, McpNames DEF McpQuiet, McpActive
  <2> QED
    BY <1>1, <1>6, <2>1 DEF McpShown
<1>9. McpFresh'
  BY <1>1, <1>2, <1>3 DEF McpFresh
<1> QED
  BY <1>4, <1>5, <1>8, <1>9 DEF McpInv, McpStructure

\* The task of a session moves on.
LEMMA SessionInv ==
    ASSUME McpInv, NEW s \in DOMAIN sessions, NEW r \in SessionRecord,
           sessions' = [sessions EXCEPT ![s] = r],
           r.entry = sessions[s].entry, r.stop = sessions[s].stop,
           \/ sessions[s].st = "opening" /\ ~sessions[s].stop /\ r.st \in {"open", "failed"}
           \/ sessions[s].st \in {"opening", "open"} /\ r.st = "closed",
           UNCHANGED <<file, catalog, server, status, calls, races, cutShort>>
    PROVE  McpInv'
<1>1. McpStructure /\ McpRoles /\ McpShown
  BY McpTyped
<1>2. server = s => sessions[s].st # "opening" \/ sessions[s].stop
  <2>1. server = s => server # 0
    BY <1>1, SessionsAre
  <2> QED
    BY <1>1, <2>1 DEF McpStructure, McpOwned
<1>3. /\ McpStructure'
      /\ \A n \in DOMAIN sessions : sessions'[n].entry = sessions[n].entry
  BY <1>1, <1>2, McpMoves
<1>4. McpRoles' /\ McpShown'
  BY <1>1 DEF McpRoles, McpShown, Busy, Disconnecting, McpPlanned, McpQuiet, McpActive
<1>5. McpFresh'
  BY <1>3, FreshKept
<1> QED
  BY <1>3, <1>4, <1>5 DEF McpInv, McpStructure

\* The task of a session keeps the invariant.
LEMMA SessionStepInv ==
    ASSUME McpInv, NEW s \in DOMAIN sessions,
           HandshakeEnds(s) \/ SessionCloses(s) \/ SessionDies(s)
    PROVE  McpInv'
<1>1. sessions[s] \in SessionRecord /\ sessions \in Seq(SessionRecord)
  BY McpTyped, SessionsAre
<1>2. CASE HandshakeEnds(s)
  <2>1. PICK st \in {"open", "failed"} : sessions' = [sessions EXCEPT ![s].st = st]
    BY <1>2 DEF HandshakeEnds
  <2>2. PICK r : r = [sessions[s] EXCEPT !.st = st]
    OBVIOUS
  <2>3. /\ r \in SessionRecord /\ r.entry = sessions[s].entry /\ r.stop = sessions[s].stop /\ r.st = st
    BY <1>1, <2>2 DEF SessionRecord
  <2>4. sessions' = [sessions EXCEPT ![s] = r]
    BY <2>1, <2>2
  <2> QED
    BY <1>2, <2>3, <2>4, SessionInv DEF HandshakeEnds
<1>3. CASE SessionCloses(s) \/ SessionDies(s)
  <2>1. PICK e \in BOOLEAN : sessions' = [sessions EXCEPT ![s].st = "closed", ![s].error = e]
    BY <1>3 DEF SessionCloses, SessionDies
  <2>2. PICK r : r = [[sessions[s] EXCEPT !.st = "closed"] EXCEPT !.error = e]
    OBVIOUS
  <2>3. /\ r \in SessionRecord /\ r.entry = sessions[s].entry /\ r.stop = sessions[s].stop /\ r.st = "closed"
    BY <1>1, <2>2 DEF SessionRecord
  <2>4. sessions' = [sessions EXCEPT ![s] = r]
    BY <1>1, <2>1, <2>2
  <2>5. sessions[s].st \in {"opening", "open"} /\ UNCHANGED <<file, catalog, server, status, calls, races, cutShort>>
    BY <1>3 DEF SessionCloses, SessionDies
  <2> QED
    BY <2>3, <2>4, <2>5, SessionInv
<1> QED
  BY <1>2, <1>3

\* A disconnect that was to connect again opens a session.
LEMMA DisconnectedConnectsInv ==
    ASSUME McpInv, NEW c \in Everyone, DisconnectedConnects(c)
    PROVE  McpInv'
<1>1. /\ Closed(c) /\ calls[c].plan.then = "connect" /\ RecordStopped(c)
      /\ UNCHANGED <<file, catalog, cutShort>> /\ Idle \in McpOver
  BY DEF DisconnectedConnects, McpOver
<1>2. calls[c].at = "closing" /\ McpActive(c) /\ Disconnecting(c) /\ ~Holding(c) /\ Busy(c)
  BY <1>1, ClosedIs
<1>3. status' # "connected"
  BY <1>1, <1>2, Recorded
<1>4. McpStructure /\ McpRoles /\ McpShown /\ McpFresh
      /\ file \in Entries \cup {NoEntry, Disabled} /\ catalog \in Entries \cup {NoEntry}
  BY McpTyped
<1>5. c # Shutdown /\ (c # Reload => ~Busy(Reload)) /\ (c = Reload => server = 0)
  <2>1. c # Shutdown
    BY <1>1, <1>2, <1>4 DEF McpRoles, McpPlanned
  <2> QED
    BY <1>2, <1>4, <2>1 DEF McpRoles, Everyone
<1>6. CASE calls' = [calls EXCEPT ![c] = Idle] /\ UNCHANGED <<server, sessions, races>>
  BY <1>1, <1>2, <1>3, <1>6, LeavingInv
<1>7. CASE server # 0 /\ Disconnect(c, Plan("connect"))
  <2>1. /\ McpStructure' /\ (McpQuiet => \A d \in Everyone : ~McpActive(d))
        /\ server' = 0 /\ races' = races
        /\ calls'[c].at \in {"remote stop", "closing"} /\ calls'[c].plan = Plan("connect")
        /\ \A d \in Everyone \ {c} : calls'[d] = calls[d]
    BY <1>1, <1>2, <1>4, <1>7, PlanTypes, Disconnects
  <2>2. McpRoles'
    <3>1. McpPlanned(c)'
      BY <1>5, <2>1, PlanTypes DEF McpPlanned
    <3> QED
      BY <1>1, <1>2, <1>4, <1>5, <2>1, <3>1, RolesKept
  <2>3. McpShown' /\ McpFresh'
    BY <1>4, <1>7, <2>1, Showing, Freshening
  <2> QED
    BY <2>1, <2>2, <2>3 DEF McpInv, McpStructure
<1>8. CASE server = 0 /\ catalog \in Entries /\ SpawnHeld(c, catalog)
  <2>1. /\ McpStructure'
        /\ McpQuiet' => McpQuiet /\ \A d \in Everyone \ {c} : ~McpActive(d)
        /\ calls'[c].at = "handshake" /\ sessions'[calls'[c].sid].entry = catalog
        /\ server' = 0 /\ races \subseteq races'
        /\ \A d \in Everyone \ {c} : calls[d].at = "handshake" => "connects" \in races'
        /\ \A d \in Everyone \ {c} : calls'[d] = calls[d]
    BY <1>1, <1>2, <1>4, <1>8, Spawns
  <2>2. McpRoles'
    BY <1>1, <1>2, <1>4, <1>5, <2>1, RolesKept DEF Disconnecting
  <2>3. McpShown'
    BY <1>3, <1>4, <1>8, <2>1, Spawning
  <2>4. McpFresh'
    BY <1>1, <2>1 DEF McpFresh
  <2> QED
    BY <2>1, <2>2, <2>3, <2>4 DEF McpInv, McpStructure
<1>9. CASE catalog = NoEntry
  BY <1>6, <1>9 DEF DisconnectedConnects, End
<1>10. CASE catalog # NoEntry
  <2>1. Connect(c, catalog) /\ catalog \in Entries
    BY <1>4, <1>10 DEF DisconnectedConnects
  <2> QED
    BY <1>7, <1>8, <2>1 DEF Connect
<1> QED
  BY <1>9, <1>10

\* The rest of the reload: the catalog takes the entry, and a session is opened for it.
LEMMA AdoptInv ==
    ASSUME McpInv, NEW e \in Entries \cup {NoEntry, Disabled}, NEW connects \in BOOLEAN,
           Adopt(e, connects), UNCHANGED <<file, cutShort>>,
           connects => e \in Entries,
           calls[Reload].at \in {"idle", "closing"}, \A c \in Callers \cup {Batch} : ~Busy(c),
           server # 0 => calls[Reload].at = "idle" /\ e # Disabled /\ (catalog = NoEntry \/ e = catalog),
           calls[Reload].at = "closing" /\ e = NoEntry => catalog # NoEntry
    PROVE  McpInv'
<1>1. /\ McpStructure /\ McpRoles /\ McpShown /\ McpFresh
      /\ file \in Entries \cup {NoEntry, Disabled} /\ catalog \in Entries \cup {NoEntry}
      /\ catalog' = (IF e \in Entries THEN e ELSE NoEntry)
      /\ Reload \in Everyone /\ Reload # Shutdown
  BY McpTyped, McpNames DEF Adopt
<1>2. file' \in Entries \cup {NoEntry, Disabled} /\ catalog' \in Entries \cup {NoEntry}
  BY <1>1
<1>3. ~Holding(Reload)
  BY DEF Holding
<1>4. \A d \in Everyone \ {Reload} : calls[d].at # "handshake"
  BY <1>1 DEF McpRoles, Everyone, Busy
<1>5. \A d \in Callers \cup {Batch} : d # Reload /\ d \in Everyone /\ calls[d].at \notin {"handshake", "releasing"}
  BY McpNames DEF Busy
<1>6. CASE connects /\ server # 0
  <2>1. Disconnect(Reload, Plan("connect"))
    BY <1>6 DEF Adopt, Connect
  <2>2. /\ McpStructure' /\ (McpQuiet => \A d \in Everyone : ~McpActive(d))
        /\ server' = 0 /\ races' = races
        /\ calls'[Reload].at \in {"remote stop", "closing"} /\ calls'[Reload].plan = Plan("connect")
        /\ \A d \in Everyone \ {Reload} : calls'[d] = calls[d]
    BY <1>1, <1>2, <1>3, <1>6, <2>1, PlanTypes, Disconnects
  <2>3. McpRoles'
    <3>1. McpPlanned(Reload)'
      BY <1>1, <2>2, PlanTypes DEF McpPlanned
    <3> QED
      BY <1>1, <2>2, <3>1, RolesKept
  <2>4. McpShown' /\ McpFresh'
    BY <1>1, <1>6, <2>2, Showing, Freshening
  <2> QED
    BY <2>2, <2>3, <2>4 DEF McpInv, McpStructure
<1>7. CASE connects /\ server = 0
  <2>1. SpawnHeld(Reload, e) /\ e \in Entries
    BY <1>7 DEF Adopt, Connect
  <2>2. /\ McpStructure'
        /\ McpQuiet' => McpQuiet /\ \A d \in Everyone \ {Reload} : ~McpActive(d)
        /\ calls'[Reload].at = "handshake" /\ sessions'[calls'[Reload].sid].entry = e
        /\ server' = 0 /\ races \subseteq races'
        /\ \A d \in Everyone \ {Reload} : calls[d].at = "handshake" => "connects" \in races'
        /\ \A d \in Everyone \ {Reload} : calls'[d] = calls[d]
    BY <1>1, <1>2, <1>3, <1>7, <2>1, Spawns
  <2>3. McpRoles'
    BY <1>1, <2>2, RolesKept DEF Disconnecting
  <2>4. McpShown'
    BY <1>1, <1>7, <2>2, Spawning
  <2>5. McpFresh'
    BY <1>1, <2>1, <2>2 DEF McpFresh
  <2> QED
    BY <2>2, <2>3, <2>4, <2>5 DEF McpInv, McpStructure
<1>8. CASE ~connects
  <2>1. /\ calls' = [calls EXCEPT ![Reload] = Idle] /\ Idle \in McpOver
        /\ UNCHANGED <<server, sessions, races>>
    BY <1>8 DEF Adopt, End, McpOver
  <2>2. /\ calls' \in [Everyone -> [at : Places, sid : 0..Len(sessions), plan : Plans]]
        /\ calls'[Reload].at = "idle" /\ \A d \in Everyone \ {Reload} : calls'[d] = calls[d]
        /\ \A d \in Everyone : McpActive(d)' => d # Reload /\ McpActive(d)
        /\ ~Busy(Reload)' /\ ~Disconnecting(Reload)'
    BY <1>1, <2>1, Ending
  <2>3. McpStructure' /\ (McpQuiet' <=> McpQuiet)
    BY <1>1, <1>2, <2>1, <2>2, McpLeaves
  <2>4. McpRoles'
    BY <1>1, <2>2, RolesKept
  <2>5. McpShown'
    <3>1. \A d \in Callers \cup {Batch} : calls'[d].at \notin {"handshake", "releasing"}
      BY <1>5, <2>2
    <3>2. CASE calls[Reload].at = "closing"
      <4>1. server = 0 /\ status' # "connected"
        BY <1>1, <1>8, <3>2, McpNames DEF Adopt
      <4> QED
        BY <2>1, <3>1, <4>1 DEF McpShown
    <3>3. CASE calls[Reload].at = "idle"
      <4>1. ~McpActive(Reload)
        BY <3>3 DEF McpActive
      <4>2. \A d \in Everyone \ {Reload} : McpActive(d)' <=> McpActive(d)
        BY <2>2 DEF McpActive
      <4>3. (\A d \in Everyone : ~McpActive(d)') => \A d \in Everyone : ~McpActive(d)
        BY <4>1, <4>2
      <4>4. status' = status \/ (server = 0 /\ status' # "connected")
        BY <1>1, <1>8, <3>3, McpNames DEF Adopt
      <4> QED
        BY <1>1, <2>1, <2>3, <3>1, <4>3, <4>4 DEF McpShown
    <3> QED
      BY <3>2, <3>3
  <2>6. McpFresh'
    <3>1. \A d \in Everyone : calls'[d].at # "handshake"
      BY <1>4, <2>2
    <3>2. server # 0 /\ sessions[server].entry = catalog => catalog' = catalog
      <4>1. server # 0 => sessions[server].entry \in Entries
        <5>1. sessions \in Seq(SessionRecord) /\ (server # 0 => server \in DOMAIN sessions)
          BY <1>1, SessionsAre DEF McpStructure, McpTypes
        <5>2. server # 0 => sessions[server] \in SessionRecord
          BY <5>1
        <5> QED
          BY <5>2 DEF SessionRecord
      <4> QED
        BY <1>1, <4>1, McpNames
    <3> QED
      BY <1>1, <2>1, <3>1, <3>2 DEF McpFresh
  <2> QED
    BY <2>3, <2>4, <2>5, <2>6 DEF McpInv, McpStructure
<1> QED
  BY <1>6, <1>7, <1>8

\* A reload reads mcp.json and drops or replaces the session.
LEMMA ReloadStartsInv ==
    ASSUME McpInv, ReloadStarts
    PROVE  McpInv'
<1> DEFINE changed == catalog # NoEntry /\ file # catalog
           connects == /\ file \in Entries /\ file # catalog
                       /\ file \in AutoStart \/ (server # 0 /\ changed)
           plan == [then |-> "adopt", record |-> ~connects, entry |-> file, connects |-> connects]
<1>1. /\ calls[Reload].at = "idle" /\ \A c \in Callers \cup {Batch} : ~Busy(c)
      /\ UNCHANGED <<file, cutShort>>
  BY DEF ReloadStarts, Ready
<1>2. /\ McpStructure /\ McpRoles /\ McpShown /\ McpFresh
      /\ file \in Entries \cup {NoEntry, Disabled} /\ catalog \in Entries \cup {NoEntry}
      /\ Reload \in Everyone /\ Reload # Shutdown
  BY McpTyped, McpNames
<1>3. connects \in BOOLEAN /\ (connects => file \in Entries)
  OBVIOUS
<1>4. CASE server # 0 /\ (changed \/ file = Disabled)
  <2>1. Disconnect(Reload, plan) /\ UNCHANGED <<catalog, status>>
    BY <1>4 DEF ReloadStarts
  <2>2. /\ plan \in Plans /\ plan.then = "adopt" /\ plan.record = ~plan.connects
        /\ plan.connects = connects /\ plan.entry = file
    BY <1>2, <1>3 DEF Plans
  <2> HIDE DEF plan
  <2>3. ~Holding(Reload) /\ ~Busy(Reload)
    BY <1>1 DEF Holding, Busy
  <2>4. file' \in Entries \cup {NoEntry, Disabled} /\ catalog' \in Entries \cup {NoEntry}
    BY <1>1, <1>2, <2>1
  <2>5. /\ McpStructure' /\ (McpQuiet => \A d \in Everyone : ~McpActive(d))
        /\ server' = 0 /\ races' = races
        /\ calls'[Reload].at \in {"remote stop", "closing"} /\ calls'[Reload].plan = plan
        /\ \A d \in Everyone \ {Reload} : calls'[d] = calls[d]
    BY <1>1, <1>2, <1>4, <2>1, <2>2, <2>3, <2>4, Disconnects
  <2>6. McpPlanned(Reload)'
    <3>1. file = NoEntry => catalog' # NoEntry
      BY <1>4, <2>1, McpNames
    <3> HIDE DEF connects
    <3> QED
      BY <1>2, <1>3, <2>2, <2>5, <3>1 DEF McpPlanned
  <2>7. McpRoles'
    BY <1>1, <1>2, <2>5, <2>6, RolesKept
  <2>8. McpShown' /\ McpFresh'
    BY <1>2, <1>4, <2>5, Showing, Freshening
  <2> QED
    BY <2>5, <2>7, <2>8 DEF McpInv, McpStructure
<1>5. CASE ~(server # 0 /\ (changed \/ file = Disabled))
  <2>1. Adopt(file, connects)
    BY <1>5 DEF ReloadStarts
  <2>2. server # 0 => calls[Reload].at = "idle" /\ file # Disabled /\ (catalog = NoEntry \/ file = catalog)
    BY <1>1, <1>5
  <2> HIDE DEF connects
  <2> QED
    BY <1>1, <1>2, <1>3, <2>1, <2>2, AdoptInv
<1> QED
  BY <1>4, <1>5

\* A reload goes on after its disconnect.
LEMMA ReloadAdoptsInv ==
    ASSUME McpInv, ReloadAdopts
    PROVE  McpInv'
<1> DEFINE plan == calls[Reload].plan
<1>1. /\ Closed(Reload) /\ plan.then = "adopt" /\ Adopt(plan.entry, plan.connects)
      /\ UNCHANGED <<file, cutShort>>
  BY DEF ReloadAdopts
<1>2. calls[Reload].at = "closing" /\ Disconnecting(Reload) /\ Busy(Reload) /\ Reload \in Everyone
  BY <1>1, ClosedIs, McpNames
<1>3. plan \in Plans
  BY <1>2, McpTyped
<1>4. plan.entry \in Entries \cup {NoEntry, Disabled} /\ plan.connects \in BOOLEAN
  BY <1>3 DEF Plans
<1>5. McpPlanned(Reload) /\ server = 0 /\ \A c \in Callers \cup {Batch} : ~Busy(c)
  BY <1>2, McpTyped DEF McpRoles
<1>6. (plan.connects => plan.entry \in Entries) /\ (plan.entry = NoEntry => catalog # NoEntry)
  BY <1>1, <1>5 DEF McpPlanned
<1> HIDE DEF plan
<1> QED
  BY <1>1, <1>2, <1>4, <1>5, <1>6, AdoptInv

\* The start of the process is cancelled.
LEMMA CancelBatchInv ==
    ASSUME McpInv, CancelBatch
    PROVE  McpInv'
<1>1. /\ calls[Batch].at = "handshake" /\ calls[Shutdown].at = "idle"
      /\ sessions' = [sessions EXCEPT ![calls[Batch].sid].stop = TRUE]
      /\ calls' = [calls EXCEPT ![Batch].at = "releasing", ![Shutdown].at = "draining"]
      /\ UNCHANGED <<file, catalog, server, status, races, cutShort>>
      /\ Batch \in Everyone /\ Shutdown \in Everyone /\ Reload \in Everyone
      /\ Batch # Shutdown /\ Batch # Reload /\ Reload # Shutdown
  BY McpNames DEF CancelBatch, Up
<1>2. Holding(Batch) /\ Busy(Batch)
  BY <1>1 DEF Holding, Busy
<1>3. McpStructure /\ McpRoles /\ McpShown /\ McpFresh
  BY McpTyped
<1>4. /\ calls' \in [Everyone -> [at : Places, sid : 0..Len(sessions), plan : Plans]]
      /\ calls'[Batch].at = "releasing" /\ calls'[Batch].sid = calls[Batch].sid
      /\ calls'[Shutdown].at = "draining" /\ calls'[Shutdown].sid = calls[Shutdown].sid
      /\ \A d \in Everyone \ {Batch, Shutdown} : calls'[d] = calls[d]
  BY <1>1, McpTyped DEF Places
<1>5. \A d \in Everyone \ {Batch} :
        /\ McpActive(d)' <=> McpActive(d)
        /\ McpActive(d) => calls'[d].at = calls[d].at /\ calls'[d].sid = calls[d].sid
  BY <1>1, <1>4 DEF McpActive
<1>6. /\ McpStructure'
      /\ \A s \in DOMAIN sessions : sessions'[s].entry = sessions[s].entry
      /\ \A d \in Everyone : McpActive(d)' <=> McpActive(d)
  BY <1>1, <1>2, <1>3, <1>4, <1>5, Stops
<1>7. McpRoles'
  <2>1. ~Busy(Reload) /\ ~Busy(Reload)' /\ ~Disconnecting(Reload)'
    BY <1>1, <1>2, <1>3, <1>4 DEF McpRoles, Busy, Disconnecting
  <2>2. ASSUME NEW d \in Everyone, Disconnecting(d)'
        PROVE  McpPlanned(d)'
    <3>1. d \notin {Batch, Shutdown} /\ calls'[d] = calls[d] /\ Disconnecting(d)
      BY <1>4, <2>2 DEF Disconnecting
    <3> QED
      BY <1>1, <1>3, <3>1 DEF McpRoles, McpPlanned
  <2>3. \A d \in Everyone : calls'[d].at \in {"draining", "ended"} => d = Shutdown
    BY <1>3, <1>4 DEF McpRoles
  <2>4. calls'[Reload].at # "releasing"
    BY <1>1, <1>3, <1>4 DEF McpRoles
  <2> QED
    BY <1>4, <2>1, <2>2, <2>3, <2>4 DEF McpRoles
<1>8. McpShown'
  <2>1. \A d \in Callers \cup {Batch} :
          calls'[d].at \in {"handshake", "releasing"} => calls[d].at \in {"handshake", "releasing"}
    BY <1>1, <1>4, McpNames
  <2> QED
    BY <1>1, <1>3, <1>6, <2>1 DEF McpShown, McpQuiet
<1>9. McpFresh'
  BY <1>1, <1>4, <1>6, FreshKept
<1> QED
  BY <1>6, <1>7, <1>8, <1>9 DEF McpInv, McpStructure

\* The shutdown takes the session out.
LEMMA DisconnectAllInv ==
    ASSUME McpInv, DisconnectAll
    PROVE  McpInv'
<1>1. /\ calls[Shutdown].at \in {"idle", "draining"} /\ Shutdown \in Everyone /\ Shutdown # Reload
      /\ UNCHANGED <<file, catalog, status, cutShort>>
  BY McpNames DEF DisconnectAll
<1>2. ~Holding(Shutdown) /\ ~McpActive(Shutdown) /\ ~Disconnecting(Shutdown)
  BY <1>1 DEF Holding, McpActive, Disconnecting
<1>3. McpStructure /\ McpRoles /\ McpShown /\ McpFresh
      /\ file \in Entries \cup {NoEntry, Disabled} /\ catalog \in Entries \cup {NoEntry}
  BY McpTyped
<1>4. file' \in Entries \cup {NoEntry, Disabled} /\ catalog' \in Entries \cup {NoEntry}
  BY <1>1, <1>3
<1>5. CASE server = 0
  <2>1. calls' = [calls EXCEPT ![Shutdown].at = "ended"] /\ UNCHANGED <<server, sessions, races>>
    BY <1>5 DEF DisconnectAll
  <2>2. /\ calls' \in [Everyone -> [at : Places, sid : 0..Len(sessions), plan : Plans]]
        /\ calls'[Shutdown].at = "ended" /\ \A d \in Everyone \ {Shutdown} : calls'[d] = calls[d]
    BY <1>1, <2>1, McpTyped DEF Places
  <2>3. McpStructure' /\ (McpQuiet' <=> McpQuiet)
    BY <1>1, <1>3, <1>4, <2>1, <2>2, McpLeaves
  <2>4. McpRoles'
    BY <1>1, <1>3, <2>1, <2>2, RolesKept DEF Disconnecting, Busy
  <2>5. \A d \in Everyone : McpActive(d)' <=> McpActive(d)
    BY <1>2, <2>2 DEF McpActive
  <2>6. McpShown'
    BY <1>1, <1>3, <2>1, <2>2, <2>3, <2>5, McpNames DEF McpShown
  <2>7. McpFresh'
    BY <1>1, <1>3, <2>1, <2>2 DEF McpFresh
  <2> QED
    BY <2>3, <2>4, <2>6, <2>7 DEF McpInv, McpStructure
<1>6. CASE server # 0
  <2>1. Disconnect(Shutdown, Plan("end"))
    BY <1>6 DEF DisconnectAll
  <2>2. /\ McpStructure' /\ (McpQuiet => \A d \in Everyone : ~McpActive(d))
        /\ server' = 0 /\ races' = races
        /\ calls'[Shutdown].at \in {"remote stop", "closing"} /\ calls'[Shutdown].plan = Plan("end")
        /\ \A d \in Everyone \ {Shutdown} : calls'[d] = calls[d]
    BY <1>1, <1>2, <1>3, <1>4, <1>6, <2>1, PlanTypes, Disconnects
  <2>3. McpRoles'
    <3>1. McpPlanned(Shutdown)'
      BY <1>1, <2>2, PlanTypes DEF McpPlanned
    <3> QED
      BY <1>1, <1>3, <2>2, <3>1, RolesKept
  <2>4. McpShown' /\ McpFresh'
    BY <1>1, <1>3, <1>6, <2>2, Showing, Freshening
  <2> QED
    BY <2>2, <2>3, <2>4 DEF McpInv, McpStructure
<1> QED
  BY <1>5, <1>6

\* The edits of mcp.json, and the steps that change nothing here.
LEMMA QuietStepInv ==
    ASSUME McpInv, UNCHANGED <<catalog, server, status, sessions, calls, races, cutShort>>,
           file' \in Entries \cup {NoEntry, Disabled}
    PROVE  McpInv'
<1>1. McpTypes'
  BY DEF McpInv, McpTypes
<1>2. /\ \A c \in Everyone : /\ (McpActive(c)' <=> McpActive(c)) /\ (Holding(c)' <=> Holding(c)) /\ (Busy(c)' <=> Busy(c))
                            /\ (Disconnecting(c)' <=> Disconnecting(c)) /\ (McpPlanned(c)' <=> McpPlanned(c))
      /\ McpQuiet' <=> McpQuiet
  BY DEF McpActive, Holding, Busy, Disconnecting, McpPlanned, McpQuiet
<1>3. McpOwned' /\ NoLeak' /\ McpCounted' /\ McpAlone'
  BY <1>2 DEF McpInv, McpOwned, NoLeak, McpCounted, McpAlone
<1>4. McpRoles' /\ McpShown' /\ McpFresh'
  BY <1>2, McpNames DEF McpInv, McpRoles, McpShown, McpFresh
<1> QED
  BY <1>1, <1>3, <1>4 DEF McpInv

\* At first nothing is connected, or the batch connects at the start.
LEMMA McpInitInv == McpInit => McpInv
<1> SUFFICES ASSUME McpInit
             PROVE  McpInv
  OBVIOUS
<1>1. server = 0 /\ file \in Entries /\ catalog = file /\ races = {}
  BY DEF McpInit
<1>2. Idle \in [at : Places, sid : 0..0, plan : Plans] /\ Idle.at = "idle"
  BY DEF Idle, Plan, Plans, Places
<1>3. CASE file \in AutoStart
  <2>1. status = "connecting" /\ sessions = <<Session(file)>>
    BY <1>3 DEF McpInit
  <2>2. /\ Session(file) \in SessionRecord /\ Session(file).st = "opening" /\ ~Session(file).stop
        /\ Session(file).entry = file
    BY <1>1 DEF Session, SessionRecord
  <2>3. sessions \in Seq(SessionRecord) /\ Len(sessions) = 1 /\ DOMAIN sessions = {1} /\ sessions[1] = Session(file)
    BY <2>1, <2>2
  <2>4. /\ calls[Batch].at = "handshake" /\ calls[Batch].sid = 1
        /\ \A d \in Everyone \ {Batch} : calls[d].at = "idle"
        /\ calls \in [Everyone -> [at : Places, sid : 0..1, plan : Plans]]
    <3>1. calls = [c \in Everyone |-> IF c = Batch THEN [Idle EXCEPT !.at = "handshake", !.sid = 1] ELSE Idle]
      BY <1>3 DEF McpInit
    <3>2. Idle = [at |-> "idle", sid |-> 0, plan |-> Plan("end")]
      BY DEF Idle
    <3>3. PICK m : m = [Idle EXCEPT !.at = "handshake"]
      OBVIOUS
    <3>4. m = [at |-> "handshake", sid |-> 0, plan |-> Plan("end")]
      BY <3>2, <3>3
    <3>5. PICK r : r = [m EXCEPT !.sid = 1]
      OBVIOUS
    <3>6. r = [at |-> "handshake", sid |-> 1, plan |-> Plan("end")]
      BY <3>4, <3>5
    <3>7. calls = [c \in Everyone |-> IF c = Batch THEN r ELSE Idle]
      BY <3>1, <3>3, <3>5
    <3>8. r \in [at : Places, sid : 0..1, plan : Plans] /\ r.at = "handshake" /\ r.sid = 1
      <4>1. "handshake" \in Places /\ 1 \in 0..1
        BY DEF Places
      <4>2. PICK p \in Plans : p = Plan("end")
        BY PlanTypes
      <4>3. r = [at |-> "handshake", sid |-> 1, plan |-> p]
        BY <3>6, <4>2
      <4> QED
        BY <4>1, <4>3
    <3>9. Idle \in [at : Places, sid : 0..1, plan : Plans] /\ Idle.at = "idle"
      BY <3>2, PlanTypes DEF Places
    <3> QED
      BY <3>7, <3>8, <3>9, McpNames
  <2>5. McpTypes
    BY <1>1, <2>3, <2>4 DEF McpTypes
  <2>6. \A d \in Everyone : (McpActive(d) => d = Batch) /\ (Holding(d) <=> McpActive(d))
    BY <2>4 DEF McpActive, Holding
  <2>7. McpOwned /\ NoLeak
    <3>1. \A d \in Everyone : McpActive(d) => d = Batch /\ calls[d].sid = 1 /\ Holding(d)
      BY <2>4, <2>6
    <3>2. /\ \A s \in DOMAIN sessions : s = 1
          /\ sessions[1].st = "opening" /\ ~sessions[1].stop
      BY <2>2, <2>3
    <3>3. Batch \in Everyone
      BY McpNames
    <3>4. \A s \in DOMAIN sessions : \E c \in Everyone : calls[c].at = "handshake" /\ calls[c].sid = s
      BY <2>4, <3>2, <3>3
    <3>5. McpOwned
      BY <1>1, <2>6, <3>1, <3>2, <3>4 DEF McpOwned
    <3>6. NoLeak
      BY <3>2 DEF NoLeak
    <3> QED
      BY <3>5, <3>6
  <2>8. McpCounted /\ McpAlone
    BY <1>1, <2>4, <2>6 DEF McpCounted, McpAlone
  <2>9. McpRoles
    BY <2>4, McpNames DEF McpRoles, Busy, Disconnecting
  <2>10. McpShown
    BY <1>1, <2>1 DEF McpShown
  <2>11. McpFresh
    BY <1>1, <2>2, <2>3, <2>4 DEF McpFresh
  <2> QED
    BY <2>5, <2>7, <2>8, <2>9, <2>10, <2>11 DEF McpInv
<1>4. CASE file \notin AutoStart
  <2>1. status = "catalogued" /\ sessions = <<>> /\ calls = [c \in Everyone |-> Idle]
    BY <1>4 DEF McpInit
  <2>2. sessions \in Seq(SessionRecord) /\ Len(sessions) = 0 /\ DOMAIN sessions = {}
    BY <2>1
  <2>3. McpTypes
    BY <1>1, <1>2, <2>1, <2>2 DEF McpTypes
  <2>4. \A d \in Everyone : calls[d].at = "idle" /\ ~McpActive(d) /\ ~Holding(d) /\ ~Busy(d) /\ ~Disconnecting(d)
    BY <1>2, <2>1 DEF McpActive, Holding, Busy, Disconnecting
  <2>5. McpOwned /\ NoLeak /\ McpCounted /\ McpAlone
    BY <1>1, <2>2, <2>4 DEF McpOwned, NoLeak, McpCounted, McpAlone
  <2>6. McpRoles /\ McpShown /\ McpFresh
    BY <1>1, <2>1, <2>4, McpNames DEF McpRoles, McpShown, McpFresh
  <2> QED
    BY <2>3, <2>5, <2>6 DEF McpInv
<1> QED
  BY <1>3, <1>4

\* Every step keeps the invariant.
LEMMA McpStepInv == McpInv /\ [McpNext]_mcpVars => McpInv'
<1> SUFFICES ASSUME McpInv, [McpNext]_mcpVars
             PROVE  McpInv'
  OBVIOUS
<1>1. ASSUME NEW c \in Callers, EnableMcp(c) \/ DisableMcp(c) \/ CancelHandshake(c) \/ CancelDisconnect(c)
      PROVE  McpInv'
  BY <1>1, EnableMcpInv, DisableMcpInv, CancelHandshakeInv, CancelDisconnectInv
<1>2. ASSUME NEW c \in Everyone,
             \/ Released(c) \/ RemoteStopEnds(c) \/ Install(c) \/ ConnectFails(c)
             \/ DisconnectEnds(c) \/ DisconnectedConnects(c) \/ DisconnectRaises(c)
      PROVE  McpInv'
  BY <1>2, ReleasedInv, RemoteStopEndsInv, InstallInv, ConnectFailsInv, DisconnectEndsInv,
     DisconnectedConnectsInv, DisconnectRaisesInv
<1>3. ASSUME NEW s \in DOMAIN sessions, HandshakeEnds(s) \/ SessionCloses(s) \/ SessionDies(s)
      PROVE  McpInv'
  BY <1>3, SessionStepInv
<1>4. CASE ReloadStarts \/ ReloadAdopts \/ CancelBatch \/ DisconnectAll \/ AllDisconnected
  BY <1>4, ReloadStartsInv, ReloadAdoptsInv, CancelBatchInv, DisconnectAllInv, AllDisconnectedInv
<1>5. CASE EditMcpJson
  BY <1>5, QuietStepInv DEF EditMcpJson
<1>6. CASE UNCHANGED mcpVars
  BY <1>6, McpTyped, QuietStepInv DEF mcpVars
<1> QED
  BY <1>1, <1>2, <1>3, <1>4, <1>5, <1>6 DEF McpNext

\* The inductive invariant says of every state what the four promises say.
LEMMA McpInvSafe == McpInv => McpSafe
<1> SUFFICES ASSUME McpInv
             PROVE  McpSafe
  OBVIOUS
<1>1. ServesOpen
  BY DEF McpInv, McpOwned, ServesOpen, Died
<1>2. Settled => \A c \in Everyone : ~McpActive(c)
  BY DEF Settled, McpActive, Busy
<1>3. StatusTrue
  BY <1>2 DEF McpInv, McpShown, McpQuiet, StatusTrue
<1>4. EntryFresh
  BY DEF McpInv, McpFresh, EntryFresh
<1> QED
  BY <1>1, <1>3, <1>4 DEF McpInv, McpSafe

\* However enable_mcp, disable_mcp, the batch at the start, reloads and the
\* shutdown interleave, are cancelled and fail: no session is left without an
\* owner, and without an overlap the status and the entry that callers see are
\* those of the session that serves (MCPSubsystem).
THEOREM ServerSafety == McpSpec => []McpSafe
  BY McpInitInv, McpStepInv, McpInvSafe, PTL DEF McpSpec

\* The statuses list_mcp_status shows.
McpStatuses == {"catalogued", "connecting", "connected", "failed", "disconnected", "disabled"}

\* The sessions there were and the status of the server are bounded.
McpBounded == Len(sessions) <= MaxSessions /\ status \in McpStatuses

\* At first there is one session at most.
LEMMA McpInitBounded == McpInit => McpBounded
<1> SUFFICES ASSUME McpInit PROVE McpBounded
  OBVIOUS
<1>1. CASE file \in AutoStart
  <2>1. status = "connecting" /\ sessions = <<Session(file)>>
    BY <1>1 DEF McpInit
  <2>2. Len(sessions) = 1
    BY <2>1
  <2> QED BY <2>1, <2>2, McpBound DEF McpBounded, McpStatuses
<1>2. CASE file \notin AutoStart
  <2>1. status = "catalogued" /\ sessions = <<>>
    BY <1>2 DEF McpInit
  <2>2. Len(sessions) = 0
    BY <2>1
  <2> QED BY <2>1, <2>2, McpBound DEF McpBounded, McpStatuses
<1> QED BY <1>1, <1>2

\* An update of sessions opens none, and a spawn opens one if there is room.
LEMMA SpawnBounded ==
    ASSUME McpInv, McpBounded, NEW c \in Everyone, NEW e, SpawnHeld(c, e)
    PROVE  Len(sessions') <= MaxSessions
<1>1. sessions \in Seq(SessionRecord) /\ Len(sessions) \in Nat
  BY DEF McpInv, McpTypes
<1>2. Len(Append(sessions, Session(e))) = Len(sessions) + 1
  BY <1>1
<1> QED BY <1>1, <1>2, McpBound DEF SpawnHeld

\* Telling a session to stop opens none.
LEMMA DisconnectBounded ==
    ASSUME McpInv, McpBounded, NEW c, NEW plan, Disconnect(c, plan)
    PROVE  Len(sessions') <= MaxSessions
<1>1. sessions \in Seq(SessionRecord) /\ Len(sessions) <= MaxSessions
  BY DEF McpInv, McpTypes, McpBounded
<1>2. sessions' = IF RemoteStop THEN sessions ELSE [sessions EXCEPT ![server] = [@ EXCEPT !.stop = TRUE]]
  BY DEF Disconnect
<1>3. \A f : Len([sessions EXCEPT ![server] = f]) = Len(sessions)
  BY <1>1
<1>4. CASE RemoteStop
  BY <1>1, <1>2, <1>4
<1>5. CASE ~RemoteStop
  BY <1>1, <1>2, <1>3, <1>5
<1> QED BY <1>4, <1>5

\* Every step keeps to the bound.
LEMMA McpStepBounded == McpInv /\ McpBounded /\ [McpNext]_mcpVars => McpBounded'
<1> SUFFICES ASSUME McpInv, McpBounded, [McpNext]_mcpVars PROVE McpBounded'
  OBVIOUS
<1>0. sessions \in Seq(SessionRecord) /\ Len(sessions) <= MaxSessions /\ status \in McpStatuses
  BY DEF McpInv, McpTypes, McpBounded
<1>a. ASSUME NEW s, NEW f, sessions' = [sessions EXCEPT ![s] = f] PROVE Len(sessions') <= MaxSessions
  BY <1>0, <1>a
<1>b. ASSUME NEW c \in Everyone, RecordStopped(c) PROVE status' \in McpStatuses
  BY <1>0, <1>b DEF RecordStopped, McpStatuses
<1>c. ASSUME NEW c \in Everyone, NEW e, Connect(c, e) PROVE Len(sessions') <= MaxSessions
  BY <1>c, SpawnBounded, DisconnectBounded DEF Connect
<1>d. Reload \in Everyone /\ Shutdown \in Everyone /\ Batch \in Everyone
  BY DEF Everyone
<1>e. ASSUME NEW e, NEW connects, Adopt(e, connects) PROVE McpBounded'
  <2>1. status' \in McpStatuses
    BY <1>0, <1>e DEF Adopt, McpStatuses
  <2>2. Len(sessions') <= MaxSessions
    BY <1>0, <1>c, <1>d, <1>e DEF Adopt
  <2> QED BY <2>1, <2>2 DEF McpBounded
<1>1. ASSUME NEW c \in Callers, EnableMcp(c) PROVE McpBounded'
  <2>1. c \in Everyone
    BY DEF Everyone
  <2>2. CASE UNCHANGED sessions
    BY <1>0, <1>1, <2>2 DEF EnableMcp, McpBounded
  <2>3. CASE Disconnect(c, Plan("connect"))
    BY <1>0, <1>1, <2>3, DisconnectBounded DEF EnableMcp, McpBounded
  <2>4. CASE SpawnHeld(c, FileEntry)
    BY <1>0, <1>1, <2>1, <2>4, SpawnBounded DEF EnableMcp, McpBounded
  <2> QED BY <1>1, <2>2, <2>3, <2>4 DEF EnableMcp, NoChange
<1>2. ASSUME NEW c \in Callers, DisableMcp(c) PROVE McpBounded'
  BY <1>0, <1>2, DisconnectBounded DEF DisableMcp, McpBounded
<1>3. ASSUME NEW c \in Callers, CancelHandshake(c) PROVE McpBounded'
  BY <1>0, <1>3 DEF CancelHandshake, McpBounded
<1>4. ASSUME NEW c \in Callers, CancelDisconnect(c) PROVE McpBounded'
  <2>1. c \in Everyone
    BY DEF Everyone
  <2> QED BY <1>0, <1>4, <2>1, <1>b DEF CancelDisconnect, McpBounded
<1>5. ASSUME NEW c \in Everyone, Released(c) \/ RemoteStopEnds(c) PROVE McpBounded'
  <2>1. CASE Released(c)
    BY <1>0, <2>1 DEF Released, McpBounded
  <2>2. CASE RemoteStopEnds(c)
    <3>1. sessions' = [sessions EXCEPT ![calls[c].sid].stop = TRUE] /\ status' = status
      BY <2>2 DEF RemoteStopEnds
    <3>2. Len(sessions') <= MaxSessions
      BY <1>0, <3>1
    <3> QED BY <1>0, <3>1, <3>2 DEF McpBounded
  <2> QED BY <1>5, <2>1, <2>2
<1>6. ASSUME NEW c \in Everyone, Install(c) \/ ConnectFails(c) PROVE McpBounded'
  BY <1>0, <1>6 DEF Install, ConnectFails, McpBounded, McpStatuses
<1>7. ASSUME NEW c \in Everyone, DisconnectEnds(c) \/ DisconnectRaises(c) PROVE McpBounded'
  BY <1>0, <1>7, <1>b DEF DisconnectEnds, DisconnectRaises, McpBounded
<1>8. ASSUME NEW c \in Everyone, DisconnectedConnects(c) PROVE McpBounded'
  <2>1. status' \in McpStatuses
    BY <1>8, <1>b DEF DisconnectedConnects
  <2>2. Len(sessions') <= MaxSessions
    BY <1>0, <1>8, <1>c DEF DisconnectedConnects
  <2> QED BY <2>1, <2>2 DEF McpBounded
<1>9. ASSUME NEW s \in DOMAIN sessions, HandshakeEnds(s) \/ SessionCloses(s) \/ SessionDies(s) PROVE McpBounded'
  <2>1. CASE HandshakeEnds(s)
    BY <1>0, <2>1 DEF HandshakeEnds, McpBounded
  <2>2. ASSUME NEW e, sessions' = [sessions EXCEPT ![s].st = "closed", ![s].error = e] PROVE Len(sessions') <= MaxSessions
    BY <1>0, <2>2
  <2>3. CASE SessionCloses(s)
    BY <1>0, <2>2, <2>3 DEF SessionCloses, McpBounded
  <2>4. CASE SessionDies(s)
    BY <1>0, <2>2, <2>4 DEF SessionDies, McpBounded
  <2> QED BY <1>9, <2>1, <2>3, <2>4
<1>10. CASE ReloadStarts
  <2>1. CASE \E e, connects : Adopt(e, connects)
    BY <2>1, <1>e
  <2>2. CASE (\E plan : Disconnect(Reload, plan)) /\ UNCHANGED status
    BY <1>0, <2>2, DisconnectBounded DEF McpBounded
  <2> QED BY <1>10, <2>1, <2>2 DEF ReloadStarts
<1>11. CASE ReloadAdopts
  BY <1>11, <1>e DEF ReloadAdopts
<1>12. CASE CancelBatch
  BY <1>0, <1>12 DEF CancelBatch, McpBounded
<1>13. CASE DisconnectAll
  BY <1>0, <1>13, DisconnectBounded DEF DisconnectAll, McpBounded
<1>14. CASE AllDisconnected
  BY <1>0, <1>14, <1>b, <1>d DEF AllDisconnected, McpBounded
<1>15. CASE EditMcpJson
  BY <1>0, <1>15 DEF EditMcpJson, McpBounded
<1>16. CASE UNCHANGED mcpVars
  BY <1>0, <1>16 DEF mcpVars, McpBounded
<1> QED BY <1>1, <1>2, <1>3, <1>4, <1>5, <1>6, <1>7, <1>8, <1>9, <1>10, <1>11, <1>12, <1>13, <1>14, <1>15, <1>16 DEF McpNext

\* The types of the connection.
LEMMA McpTypesHold == McpInv /\ McpBounded => McpTypeOK
<1> SUFFICES ASSUME McpInv, McpBounded PROVE McpTypeOK
  OBVIOUS
<1>1. McpTypes
  BY DEF McpInv
<1>2. \A s \in DOMAIN sessions : sessions[s].st \in {"opening", "open", "failed", "closed"} /\ sessions[s].entry \in Entries
  <2>1. \A s \in DOMAIN sessions : sessions[s] \in SessionRecord
    BY <1>1 DEF McpTypes
  <2> QED BY <2>1 DEF SessionRecord
<1>3. \A c \in Everyone : calls[c].at \in Places /\ calls[c].sid \in 0..Len(sessions)
  BY <1>1 DEF McpTypes
<1> QED BY <1>1, <1>2, <1>3 DEF McpTypes, McpTypeOK, McpBounded, McpStatuses, Places

---------------------------------------------------------------------------
(* The background commands.                                                *)

\* What the log is made of.
Bytes == {"a", "L", "T"}

\* The bytes that begin a character are some of the positions of the list.
LEMMA StartsType ==
    ASSUME NEW s \in Seq(Bytes)
    PROVE  /\ Len(s) \in Nat /\ Starts(s) \in SUBSET (1..Len(s)) /\ Cardinality(Starts(s)) \in Nat
           /\ DOMAIN Ascending(Starts(s)) = 1..Cardinality(Starts(s))
           /\ \A k \in 1..Cardinality(Starts(s)) : Ascending(Starts(s))[k] \in Starts(s)
           /\ Len(Decode(s)) = Cardinality(Starts(s)) /\ DOMAIN Decode(s) = 1..Cardinality(Starts(s))
           /\ Decode(s) \in Seq({"a", "LT", "?"})
<1>1. PICK n \in Nat : n = Len(s)
  OBVIOUS
<1>2. Starts(s) \in SUBSET (1..n)
  BY <1>1 DEF Starts
<1>3. /\ DOMAIN Ascending(Starts(s)) = 1..Cardinality(Starts(s)) /\ Cardinality(Starts(s)) \in Nat
      /\ \A k \in DOMAIN Ascending(Starts(s)) : Ascending(Starts(s))[k] \in Starts(s)
  BY <1>2, AscendingType, Finite
<1>4. DOMAIN Decode(s) = 1..Cardinality(Starts(s))
  BY <1>3 DEF Decode
<1>5. \A k \in 1..Cardinality(Starts(s)) : Decode(s)[k] \in {"a", "LT", "?"}
  BY <1>3 DEF Decode, Character
<1>6. Decode(s) = [k \in 1..Cardinality(Starts(s)) |-> Decode(s)[k]]
  BY <1>3 DEF Decode
<1>7. Decode(s) \in Seq({"a", "LT", "?"})
  BY <1>3, <1>5, <1>6
<1> QED BY <1>1, <1>2, <1>3, <1>4, <1>7

\* Text can be decoded in parts when no part ends within a character.
LEMMA DecodeParts ==
    ASSUME NEW s \in Seq(Bytes), NEW c \in 0..Len(s),
           c > 0 /\ c < Len(s) /\ s[c] = "L" => s[c + 1] # "T"
    PROVE  Decode(s) = Decode(SubSeq(s, 1, c)) \o Decode(SubSeq(s, c + 1, Len(s)))
<1>1. PICK t : t = SubSeq(s, 1, c)
  OBVIOUS
<1>2. PICK u : u = SubSeq(s, c + 1, Len(s))
  OBVIOUS
<1>3. t \in Seq(Bytes) /\ Len(t) = c /\ c \in Nat /\ \A i \in 1..c : t[i] = s[i]
  BY <1>1
<1>4. PICK n \in Nat : n = Len(s) - c
  <2>1. Len(s) \in Nat /\ Len(s) - c \in Nat
    BY <1>3
  <2> QED BY <2>1
<1>5. u \in Seq(Bytes) /\ Len(u) = n /\ \A i \in 1..n : u[i] = s[c + i]
  BY <1>2, <1>4
<1>6. Len(s) = c + n /\ DOMAIN s = 1..c + n /\ DOMAIN t = 1..c /\ DOMAIN u = 1..n
  BY <1>3, <1>4, <1>5
<1>7. \A i \in 1..c : Second(s, i) <=> Second(t, i)
  BY <1>3 DEF Second
<1>8. \A i \in 1..n : Second(s, c + i) <=> Second(u, i)
  <2>1. ASSUME NEW i \in 1..n, i > 1 PROVE Second(s, c + i) <=> Second(u, i)
    <3>1. i - 1 \in 1..n /\ (c + i) - 1 = c + (i - 1) /\ c + i > 1
      BY <2>1, <1>3
    <3> QED BY <2>1, <3>1, <1>5 DEF Second
  <2>2. ~Second(u, 1)
    BY DEF Second
  <2>3. n > 0 => ~Second(s, c + 1)
    <3>1. n > 0 => c < Len(s)
      BY <1>6, <1>3
    <3>2. c + 1 > 1 => c > 0
      BY <1>3
    <3>3. (c + 1) - 1 = c
      BY <1>3
    <3> QED BY <3>1, <3>2, <3>3 DEF Second
  <2>4. \A i \in 1..n : i > 1 \/ (i = 1 /\ n > 0)
    OBVIOUS
  <2> QED BY <2>1, <2>2, <2>3, <2>4
<1>9. Starts(s) = Joined(c, Starts(t), Starts(u))
  <2>1. Starts(t) = {i \in 1..c : ~Second(s, i)}
    BY <1>6, <1>7 DEF Starts
  <2>2. Starts(u) = {i \in 1..n : ~Second(s, c + i)}
    BY <1>6, <1>8 DEF Starts
  <2>3. Starts(s) = {i \in 1..c + n : ~Second(s, i)}
    BY <1>6 DEF Starts
  <2>4. ASSUME NEW i \in 1..c + n PROVE i \in 1..c \/ \E j \in 1..n : i = c + j
    <3>1. i \in 1..c \/ (i - c \in 1..n /\ i = c + (i - c))
      BY <1>3
    <3> QED BY <3>1
  <2>5. \A i \in 1..c : i \in 1..c + n
    BY <1>3
  <2>6. \A j \in 1..n : c + j \in 1..c + n
    BY <1>3
  <2>7. ASSUME NEW i \in Starts(s) PROVE i \in Joined(c, Starts(t), Starts(u))
    BY <2>1, <2>2, <2>3, <2>4, <2>7 DEF Joined
  <2>8. ASSUME NEW i \in Joined(c, Starts(t), Starts(u)) PROVE i \in Starts(s)
    BY <2>1, <2>2, <2>3, <2>5, <2>6, <2>8 DEF Joined
  <2> QED BY <2>7, <2>8
<1>10. /\ Starts(t) \in SUBSET (1..c) /\ Starts(u) \in SUBSET (1..n)
       /\ Cardinality(Starts(t)) \in Nat /\ Cardinality(Starts(u)) \in Nat
  BY <1>3, <1>5, StartsType
<1>a. PICK A \in SUBSET (1..c) : A = Starts(t)
  BY <1>10
<1>b. PICK B \in SUBSET (1..n) : B = Starts(u)
  BY <1>10
<1>c. /\ Cardinality(Joined(c, A, B)) = Cardinality(A) + Cardinality(B)
      /\ \A k \in 1..Cardinality(A) : Ascending(Joined(c, A, B))[k] = Ascending(A)[k]
      /\ \A k \in 1..Cardinality(B) : Ascending(Joined(c, A, B))[Cardinality(A) + k] = c + Ascending(B)[k]
  <2>1. c \in Nat
    OBVIOUS
  <2> QED BY <2>1, AscendingJoined
<1>11. /\ Cardinality(Starts(s)) = Cardinality(Starts(t)) + Cardinality(Starts(u))
       /\ \A k \in 1..Cardinality(Starts(t)) : Ascending(Starts(s))[k] = Ascending(Starts(t))[k]
       /\ \A k \in 1..Cardinality(Starts(u)) :
              Ascending(Starts(s))[Cardinality(Starts(t)) + k] = c + Ascending(Starts(u))[k]
  BY <1>9, <1>a, <1>b, <1>c
<1>12. PICK p \in Nat : p = Cardinality(Starts(t))
  BY <1>10
<1>13. PICK q \in Nat : q = Cardinality(Starts(u))
  BY <1>10
<1>14. /\ Decode(s) \in Seq({"a", "LT", "?"}) /\ Len(Decode(s)) = p + q
       /\ Decode(t) \in Seq({"a", "LT", "?"}) /\ Len(Decode(t)) = p
       /\ Decode(u) \in Seq({"a", "LT", "?"}) /\ Len(Decode(u)) = q
  BY <1>3, <1>5, <1>11, <1>12, <1>13, StartsType
<1>15. /\ \A k \in 1..p : Ascending(Starts(t))[k] \in Starts(t)
       /\ \A k \in 1..q : Ascending(Starts(u))[k] \in Starts(u)
       /\ DOMAIN Ascending(Starts(t)) = 1..p /\ DOMAIN Ascending(Starts(u)) = 1..q
       /\ DOMAIN Ascending(Starts(s)) = 1..p + q
  BY <1>3, <1>5, <1>11, <1>12, <1>13, StartsType
<1>16. \A i \in Starts(t) : Character(s, i) = Character(t, i)
  <2> SUFFICES ASSUME NEW i \in Starts(t) PROVE Character(s, i) = Character(t, i)
    OBVIOUS
  <2>1. i \in 1..c /\ s[i] = t[i] /\ i < Len(s) + 1
    BY <1>3, <1>6, <1>10
  <2>2. CASE i < c
    <3>1. i + 1 \in 1..c /\ i < Len(s) /\ i < Len(t)
      BY <2>1, <2>2, <1>3, <1>6
    <3> QED BY <2>1, <3>1, <1>3 DEF Character
  <2>3. CASE i = c
    <3>1. ~(i < Len(t))
      BY <2>3, <1>3
    <3>2. s[i] = "L" /\ i < Len(s) => s[i + 1] # "T"
      BY <2>1, <2>3, <1>3
    <3> QED BY <2>1, <3>1, <3>2 DEF Character
  <2> QED BY <2>1, <2>2, <2>3, <1>3
<1>17. \A i \in Starts(u) : Character(s, c + i) = Character(u, i)
  <2> SUFFICES ASSUME NEW i \in Starts(u) PROVE Character(s, c + i) = Character(u, i)
    OBVIOUS
  <2>1. i \in 1..n /\ s[c + i] = u[i]
    BY <1>5, <1>10
  <2>2. c + i < Len(s) <=> i < Len(u)
    BY <2>1, <1>5, <1>6, <1>3
  <2>3. i < Len(u) => s[(c + i) + 1] = u[i + 1]
    <3>1. i < Len(u) => i + 1 \in 1..n
      BY <2>1, <1>5
    <3>2. (c + i) + 1 = c + (i + 1)
      BY <2>1, <1>3
    <3> QED BY <3>1, <3>2, <1>5
  <2> QED BY <2>1, <2>2, <2>3 DEF Character
<1>18. \A k \in 1..p : Decode(s)[k] = Decode(t)[k]
  <2>1. \A k \in 1..p : k \in 1..p + q
    OBVIOUS
  <2> QED BY <2>1, <1>11, <1>12, <1>15, <1>16 DEF Decode
<1>19. \A k \in 1..q : Decode(s)[p + k] = Decode(u)[k]
  <2>1. \A k \in 1..q : p + k \in 1..p + q
    OBVIOUS
  <2> QED BY <2>1, <1>11, <1>12, <1>13, <1>15, <1>17 DEF Decode
<1>20. PICK D : D = Decode(s)
  OBVIOUS
<1>21. PICK E : E = Decode(t)
  OBVIOUS
<1>22. PICK F : F = Decode(u)
  OBVIOUS
<1>23. PICK C : C = {"a", "LT", "?"}
  OBVIOUS
<1>24. /\ D \in Seq(C) /\ Len(D) = p + q
       /\ E \in Seq(C) /\ Len(E) = p
       /\ F \in Seq(C) /\ Len(F) = q
       /\ \A k \in 1..p : D[k] = E[k]
       /\ \A k \in 1..q : D[p + k] = F[k]
  BY <1>14, <1>18, <1>19, <1>20, <1>21, <1>22, <1>23
<1>25. D = E \o F
  <2>1. /\ E \o F \in Seq(C) /\ Len(E \o F) = p + q
        /\ \A k \in 1..p + q : (E \o F)[k] = IF k <= p THEN E[k] ELSE F[k - p]
    BY <1>24, ConcatProperties
  <2>2. ASSUME NEW k \in 1..p + q PROVE D[k] = (E \o F)[k]
    <3>1. CASE k <= p
      <4>1. k \in 1..p
        BY <3>1
      <4> QED BY <1>24, <2>1, <3>1, <4>1
    <3>2. CASE ~(k <= p)
      <4>1. k - p \in 1..q /\ k = p + (k - p)
        BY <3>2
      <4> QED BY <1>24, <2>1, <3>2, <4>1
    <3> QED BY <3>1, <3>2
  <2>3. \A k \in 1..Len(D) : D[k] = (E \o F)[k]
    BY <1>24, <2>2
  <2>4. Len(D) = Len(E \o F)
    BY <1>24, <2>1
  <2> QED BY <1>24, <2>1, <2>3, <2>4, SeqEqual
<1> QED BY <1>1, <1>2, <1>20, <1>21, <1>22, <1>25

-----------------------------------------------------------------------------

\* The records of a job.
JobRecords == [status : {"none", "running", "exited", "killed", "lost"},
               proc : {"none", "spawning", "alive", "signalled", "gone"}, asked : BOOLEAN,
               watch : {"none", "waiting", "draining", "done"}, own : BOOLEAN]

\* What is known of each job: a process that works belongs to a running job
\* with a watcher, and nothing has told it to end.
JobFits(m) ==
    /\ m.status = "none" => m = NoJob
    /\ m.proc = "spawning" => m.status = "running" /\ m.watch = "none"
    /\ m.proc = "alive" => m.status = "running" /\ m.watch = "waiting" /\ ~m.asked
    /\ m.watch = "none" => ~m.asked /\ m.proc \in {"none", "spawning"}
    /\ m.status = "exited" => m.own /\ ~m.asked /\ m.watch = "done" /\ m.proc = "gone"
    /\ m.watch = "waiting" /\ m.proc = "signalled" => m.asked
    /\ m.watch = "waiting" /\ m.proc = "gone" /\ ~m.asked => m.own
    /\ m.asked => m.proc \notin {"alive", "spawning"}

\* The jobs, and the kills that wait for one.
JobsFit ==
    /\ job \in [Jobs -> JobRecords] /\ \A j \in Jobs : JobFits(job[j])
    /\ killing \in SUBSET Jobs /\ \A j \in killing : job[j].asked

\* start_background finds the turn open, a free number and room below the cap.
MayStart(j) == turn = "open" /\ job[j] = NoJob /\ Cardinality(Live) < JobCap

\* What a step may make of a job: it gets a record that fits, it is the first
\* to start, or its start is over and stays so, and a kill that waits for it
\* has asked for its end.
JobMoves ==
    \E j \in Jobs, m \in JobRecords :
        /\ Change(j, m) /\ JobFits(m)
        /\ m.status = "running" => job[j].status = "running" \/ MayStart(j)
        /\ m.proc = "spawning" => MayStart(j)
        /\ job[j].asked => m.asked
        /\ job[j].watch # "none" => m.watch # "none"
        /\ killing' \subseteq killing \union {j} /\ (j \in killing' => m.asked)

\* Such a step leaves jobs that fit.
LEMMA MovesFit ==
    ASSUME JobsFit, JobMoves
    PROVE  JobsFit'
<1>1. PICK j \in Jobs, m \in JobRecords :
          /\ job' = [job EXCEPT ![j] = m] /\ JobFits(m)
          /\ job[j].asked => m.asked
          /\ killing' \subseteq killing \union {j} /\ (j \in killing' => m.asked)
  BY DEF JobMoves, Change
<1>2. job' \in [Jobs -> JobRecords] /\ \A i \in Jobs : job'[i] = IF i = j THEN m ELSE job[i]
  BY <1>1 DEF JobsFit
<1>3. \A i \in Jobs : JobFits(job'[i])
  BY <1>1, <1>2 DEF JobsFit
<1>4. killing' \in SUBSET Jobs /\ \A i \in killing' : job'[i].asked
  BY <1>1, <1>2 DEF JobsFit
<1> QED BY <1>2, <1>3, <1>4 DEF JobsFit

\* Each step moves one job, or none.
LEMMA StartMoves ==
    ASSUME JobsFit, NEW j \in Jobs, Start(j)
    PROVE  JobMoves
<1>1. PICK m : m = [NoJob EXCEPT !.status = "running", !.proc = "spawning"]
  OBVIOUS
<1>2. /\ m \in JobRecords /\ m.status = "running" /\ m.proc = "spawning" /\ m.watch = "none"
      /\ ~m.asked /\ JobFits(m)
  BY <1>1 DEF NoJob, JobRecords, JobFits
<1>3. /\ ~job[j].asked /\ job[j].watch = "none" /\ job[j] = NoJob /\ killing' = killing /\ j \notin killing
      /\ MayStart(j)
  BY DEF Start, NoJob, JobsFit, MayStart
<1>4. Change(j, m)
  BY <1>1 DEF Start
<1> QED BY <1>2, <1>3, <1>4 DEF JobMoves

\* The start of the process returns.
LEMMA SpawnMoves ==
    ASSUME JobsFit, NEW j \in Jobs, Spawn(j)
    PROVE  JobMoves
<1>1. job[j] \in JobRecords /\ JobFits(job[j]) /\ job[j].proc = "spawning" /\ killing' = killing
  BY DEF JobsFit, Spawn
<1>2. job[j].status = "running" /\ job[j].watch = "none" /\ ~job[j].asked /\ j \notin killing
  BY <1>1 DEF JobFits, JobsFit
<1>3. PICK m : /\ Change(j, m)
               /\ \/ m = [job[j] EXCEPT !.proc = "alive", !.watch = "waiting"]
                  \/ m = [job[j] EXCEPT !.proc = "none", !.status = "lost"]
                  \/ m = [job[j] EXCEPT !.proc = "none"]
  BY DEF Spawn
<1>4. m \in JobRecords
  BY <1>1, <1>3 DEF JobRecords
<1>5. JobFits(m) /\ m.proc # "spawning"
  BY <1>1, <1>2, <1>3 DEF JobFits, JobRecords
<1> QED BY <1>1, <1>2, <1>3, <1>4, <1>5 DEF JobMoves

\* The process ends.
LEMMA EndsMoves ==
    ASSUME JobsFit, NEW j \in Jobs, ProcessEnds(j)
    PROVE  JobMoves
<1>1. job[j] \in JobRecords /\ JobFits(job[j]) /\ job[j].proc \in {"alive", "signalled"} /\ killing' = killing
  BY DEF JobsFit, ProcessEnds
<1>2. j \in killing => job[j].asked
  BY DEF JobsFit
<1>3. PICK m : /\ Change(j, m)
               /\ m = [job[j] EXCEPT !.proc = "gone", !.own = job[j].proc = "alive"]
  BY DEF ProcessEnds
<1>4. m \in JobRecords
  BY <1>1, <1>3 DEF JobRecords
<1>5. JobFits(m)
  <2>1. /\ m.status = job[j].status /\ m.proc = "gone" /\ m.asked = job[j].asked /\ m.watch = job[j].watch
        /\ job[j].proc = "alive" => m.own
    BY <1>1, <1>3 DEF JobRecords
  <2>2. /\ job[j].status \notin {"none", "exited"} /\ job[j].watch # "none"
        /\ job[j].watch = "waiting" /\ ~job[j].asked => job[j].proc = "alive"
    BY <1>1 DEF JobFits, NoJob
  <2> QED BY <2>1, <2>2 DEF JobFits
<1>6. /\ m.status = "running" => job[j].status = "running"
      /\ job[j].asked => m.asked
      /\ job[j].watch # "none" => m.watch # "none"
  BY <1>1, <1>3 DEF JobRecords
<1>7. m.proc # "spawning"
  BY <1>1, <1>2, <1>5, <1>6 DEF JobFits
<1> QED BY <1>1, <1>2, <1>3, <1>4, <1>5, <1>6, <1>7 DEF JobMoves

\* The deadline passes.
LEMMA TimeoutMoves ==
    ASSUME JobsFit, NEW j \in Jobs, TimeoutStrikes(j)
    PROVE  JobMoves
<1>1. job[j] \in JobRecords /\ JobFits(job[j]) /\ job[j].watch = "waiting" /\ job[j].proc \in {"alive", "signalled"} /\ killing' = killing
  BY DEF JobsFit, TimeoutStrikes
<1>2. j \in killing => job[j].asked
  BY DEF JobsFit
<1>3. PICK m : /\ Change(j, m)
               /\ m = IF job[j].asked THEN [job[j] EXCEPT !.watch = "done", !.status = "killed"]
                      ELSE [job[j] EXCEPT !.watch = "draining", !.proc = "signalled"]
  BY DEF TimeoutStrikes
<1>4. m \in JobRecords
  BY <1>1, <1>3 DEF JobRecords
<1>5. JobFits(m)
  BY <1>1, <1>2, <1>3 DEF JobFits, JobRecords, NoJob
<1>6. /\ m.status = "running" => job[j].status = "running"
      /\ job[j].asked => m.asked
      /\ job[j].watch # "none" => m.watch # "none"
  BY <1>1, <1>3 DEF JobRecords
<1>7. m.proc # "spawning"
  BY <1>1, <1>2, <1>5, <1>6 DEF JobFits
<1> QED BY <1>1, <1>2, <1>3, <1>4, <1>5, <1>6, <1>7 DEF JobMoves

\* The watcher notes how the process ended.
LEMMA WatchMoves ==
    ASSUME JobsFit, NEW j \in Jobs, WatchEnds(j)
    PROVE  JobMoves
<1>1. job[j] \in JobRecords /\ JobFits(job[j]) /\ job[j].watch = "waiting" /\ job[j].proc = "gone" /\ killing' = killing
  BY DEF JobsFit, WatchEnds
<1>2. j \in killing => job[j].asked
  BY DEF JobsFit
<1>3. PICK m : /\ Change(j, m)
               /\ m = [job[j] EXCEPT !.watch = "done", !.status = IF job[j].asked THEN "killed" ELSE "exited"]
  BY DEF WatchEnds
<1>4. m \in JobRecords
  BY <1>1, <1>3 DEF JobRecords
<1>5. JobFits(m)
  BY <1>1, <1>2, <1>3 DEF JobFits, JobRecords, NoJob
<1>6. /\ m.status = "running" => job[j].status = "running"
      /\ job[j].asked => m.asked
      /\ job[j].watch # "none" => m.watch # "none"
  BY <1>1, <1>3 DEF JobRecords
<1>7. m.proc # "spawning"
  BY <1>1, <1>2, <1>5, <1>6 DEF JobFits
<1> QED BY <1>1, <1>2, <1>3, <1>4, <1>5, <1>6, <1>7 DEF JobMoves

\* The watcher gives up on a process it has signalled.
LEMMA DrainMoves ==
    ASSUME JobsFit, NEW j \in Jobs, DrainEnds(j)
    PROVE  JobMoves
<1>1. job[j] \in JobRecords /\ JobFits(job[j]) /\ job[j].watch = "draining" /\ killing' = killing
  BY DEF JobsFit, DrainEnds
<1>2. j \in killing => job[j].asked
  BY DEF JobsFit
<1>3. PICK m : /\ Change(j, m)
               /\ m = [job[j] EXCEPT !.watch = "done", !.status = "killed"]
  BY DEF DrainEnds
<1>4. m \in JobRecords
  BY <1>1, <1>3 DEF JobRecords
<1>5. JobFits(m)
  BY <1>1, <1>2, <1>3 DEF JobFits, JobRecords, NoJob
<1>6. /\ m.status = "running" => job[j].status = "running"
      /\ job[j].asked => m.asked
      /\ job[j].watch # "none" => m.watch # "none"
  BY <1>1, <1>3 DEF JobRecords
<1>7. m.proc # "spawning"
  BY <1>1, <1>2, <1>5, <1>6 DEF JobFits
<1> QED BY <1>1, <1>2, <1>3, <1>4, <1>5, <1>6, <1>7 DEF JobMoves

\* The wait of a kill is over.
LEMMA KillReturnsMoves ==
    ASSUME JobsFit, NEW j \in Jobs, KillReturns(j)
    PROVE  JobMoves
<1>1. job[j] \in JobRecords /\ JobFits(job[j]) /\ j \in killing /\ killing' = killing \ {j}
  BY DEF JobsFit, KillReturns
<1>2. j \in killing => job[j].asked
  BY DEF JobsFit
<1>3. PICK m : /\ Change(j, m)
               /\ m = [job[j] EXCEPT !.status = IF @ = "running" THEN "killed" ELSE @]
  BY DEF KillReturns
<1>4. m \in JobRecords
  BY <1>1, <1>3 DEF JobRecords
<1>5. JobFits(m)
  BY <1>1, <1>2, <1>3 DEF JobFits, JobRecords, NoJob
<1>6. /\ m.status = "running" => job[j].status = "running"
      /\ job[j].asked => m.asked
      /\ job[j].watch # "none" => m.watch # "none"
  BY <1>1, <1>3 DEF JobRecords
<1>7. m.proc # "spawning"
  BY <1>1, <1>2, <1>5, <1>6 DEF JobFits
<1> QED BY <1>1, <1>2, <1>3, <1>4, <1>5, <1>6, <1>7 DEF JobMoves

\* A kill leaves a job that is over as it is.
LEMMA KillMoves ==
    ASSUME JobsFit, NEW j \in Jobs, Kill(j), job[j].proc # "spawning"
    PROVE  /\ JobMoves \/ (job' = job /\ killing' = killing)
           /\ job'[j].status = "running" => j \in killing'
<1>1. job \in [Jobs -> JobRecords] /\ job[j] \in JobRecords /\ JobFits(job[j])
  BY DEF JobsFit
<1>2. j \in killing => job[j].asked
  BY DEF JobsFit
<1>3. CASE job[j].status # "running"
  BY <1>3 DEF Kill
<1>4. CASE job[j].status = "running" /\ job[j].watch = "none"
  <2>1. PICK m : Change(j, m) /\ m = [job[j] EXCEPT !.status = "lost"] /\ killing' = killing
    BY <1>4 DEF Kill
  <2>2. m \in JobRecords
    BY <1>1, <2>1 DEF JobRecords
  <2>3. JobFits(m)
    BY <1>1, <1>2, <1>4, <2>1 DEF JobFits, JobRecords, NoJob
  <2>4. m.status = "lost" /\ m.proc = job[j].proc /\ m.asked = job[j].asked /\ m.watch = job[j].watch
    BY <1>1, <2>1 DEF JobRecords
  <2>5. job'[j].status # "running"
    BY <1>1, <2>1, <2>4 DEF Change
  <2> QED BY <1>2, <1>4, <2>1, <2>2, <2>3, <2>4, <2>5 DEF JobMoves
<1>5. CASE job[j].status = "running" /\ job[j].watch # "none"
  <2>1. PICK m : /\ Change(j, m)
                 /\ m = [job[j] EXCEPT !.asked = TRUE, !.proc = IF @ = "alive" THEN "signalled" ELSE @]
                 /\ killing' = killing \union {j}
    BY <1>5 DEF Kill
  <2>2. m \in JobRecords
    BY <1>1, <2>1 DEF JobRecords
  <2>3. JobFits(m)
    BY <1>1, <1>5, <2>1 DEF JobFits, JobRecords, NoJob
  <2>4. m.status = job[j].status /\ m.proc # "spawning" /\ m.asked /\ m.watch = job[j].watch
    BY <1>1, <2>1 DEF JobRecords
  <2> QED BY <1>2, <1>5, <2>1, <2>2, <2>3, <2>4 DEF JobMoves
<1> QED BY <1>3, <1>4, <1>5

\* What aclose has not come to: every job that runs is still listed, or a kill
\* waits for it, and none starts meanwhile.
Closing ==
    /\ turn \in {"open", "closing", "closed", "cut"} /\ toKill \in Seq(Jobs) /\ killed \in SUBSET Jobs
    /\ turn # "open" => \A j \in Jobs : job[j].proc # "spawning"
    /\ turn = "closing" => \A j \in Jobs : job[j].status = "running" =>
                               j \in killing \/ \E k \in 1..Len(toKill) : toKill[k] = j
    /\ turn = "closed" => \A j \in Jobs : job[j].status # "running"

\* A step of the jobs, or of the list and the log.
LEMMA StepMoves ==
    ASSUME JobsFit, Closing, [JobsNext]_jobsVars
    PROVE  JobMoves \/ (job' = job /\ killing' \subseteq killing)
<1>1. ASSUME NEW j \in Jobs, Start(j) \/ Spawn(j) \/ ProcessEnds(j) \/ TimeoutStrikes(j) PROVE JobMoves
  BY <1>1, StartMoves, SpawnMoves, EndsMoves, TimeoutMoves
<1>2. ASSUME NEW j \in Jobs, WatchEnds(j) \/ DrainEnds(j) \/ KillReturns(j) PROVE JobMoves
  BY <1>2, WatchMoves, DrainMoves, KillReturnsMoves
<1>3. ASSUME NEW j \in Jobs, KillCommand(j) PROVE JobMoves \/ (job' = job /\ killing' = killing)
  <2>1. job[j].proc # "spawning"
    BY <1>3 DEF KillCommand, JobsFit, JobFits
  <2> QED BY <1>3, <2>1, KillMoves DEF KillCommand
<1>4. ASSUME Close \/ CloseCut \/ ReadPage \/ (\E b \in {"a", "L", "T"} : Emit(b))
      PROVE  job' = job /\ killing' \subseteq killing
  BY <1>4 DEF Close, CloseCut, ReadPage, Emit
<1>5. ASSUME CloseNext PROVE JobMoves \/ (job' = job /\ killing' = killing)
  <2>1. CASE toKill = <<>>
    BY <1>5, <2>1 DEF CloseNext
  <2>2. CASE toKill # <<>>
    <3>1. PICK j \in Jobs : j = Head(toKill)
      BY <2>2 DEF Closing
    <3>2. Kill(j) /\ job[j].proc # "spawning"
      BY <1>5, <2>2, <3>1 DEF CloseNext, Closing
    <3> QED BY <3>2, KillMoves
  <2> QED BY <2>1, <2>2
<1>6. ASSUME UNCHANGED jobsVars PROVE job' = job /\ killing' = killing
  BY <1>6 DEF jobsVars
<1> QED BY <1>1, <1>2, <1>3, <1>4, <1>5, <1>6 DEF JobsNext

\* So the jobs fit after every step.
LEMMA FitKept ==
    ASSUME JobsFit, Closing, [JobsNext]_jobsVars
    PROVE  JobsFit'
<1>1. CASE JobMoves
  BY <1>1, MovesFit
<1>2. CASE job' = job /\ killing' \subseteq killing
  BY <1>2 DEF JobsFit
<1> QED BY <1>1, <1>2, StepMoves

\* What a step leaves running was running, or has just started, and only a
\* job that has just started has no process yet.
LEMMA RunningKept ==
    ASSUME JobsFit, Closing, [JobsNext]_jobsVars, NEW i \in Jobs
    PROVE  /\ job'[i].status = "running" => job[i].status = "running" \/ MayStart(i)
           /\ job'[i].proc = "spawning" => job[i].proc = "spawning" \/ MayStart(i)
           /\ job[i].watch # "none" => job'[i].watch # "none"
<1>1. CASE JobMoves
  <2>1. PICK j \in Jobs, m \in JobRecords :
            /\ job' = [job EXCEPT ![j] = m]
            /\ m.status = "running" => job[j].status = "running" \/ MayStart(j)
            /\ m.proc = "spawning" => MayStart(j)
            /\ job[j].watch # "none" => m.watch # "none"
    BY <1>1 DEF JobMoves, Change
  <2>2. job'[i] = IF i = j THEN m ELSE job[i]
    BY <2>1 DEF JobsFit
  <2> QED BY <2>1, <2>2
<1>2. CASE job' = job
  BY <1>2
<1> QED BY <1>1, <1>2, StepMoves

\* The cap on jobs that run.
Capped == Cardinality(Live) <= JobCap

\* Only one job starts at a time, and below the cap.
LEMMA CappedKept ==
    ASSUME JobsAssumption, JobsFit, Closing, Capped, [JobsNext]_jobsVars
    PROVE  Capped'
<1>1. IsFiniteSet(Live) /\ Cardinality(Live) \in Nat /\ JobCap \in Nat
  <2>1. IsFiniteSet(Jobs)
    BY FS_Interval DEF Jobs, JobsAssumption
  <2>2. Live \subseteq Jobs
    BY DEF Live
  <2> QED BY <2>1, <2>2, FS_Subset, FS_CardinalityType DEF JobsAssumption
<1>2. CASE JobMoves
  <2>1. PICK j \in Jobs, m \in JobRecords :
            /\ job' = [job EXCEPT ![j] = m]
            /\ m.status = "running" => job[j].status = "running" \/ MayStart(j)
    BY <1>2 DEF JobMoves, Change
  <2>2. \A i \in Jobs : job'[i] = IF i = j THEN m ELSE job[i]
    BY <2>1 DEF JobsFit
  <2>3. CASE m.status = "running" /\ job[j].status # "running"
    <3>1. Live' = Live \union {j} /\ j \notin Live
      BY <2>2, <2>3 DEF Live
    <3>2. Cardinality(Live') = Cardinality(Live) + 1
      BY <1>1, <3>1, FS_AddElement
    <3> QED BY <1>1, <2>1, <2>3, <3>2 DEF Capped, MayStart
  <2>4. CASE ~(m.status = "running" /\ job[j].status # "running")
    <3>1. Live' \subseteq Live
      BY <2>2, <2>4 DEF Live
    <3>2. Cardinality(Live') \in Nat /\ Cardinality(Live') <= Cardinality(Live)
      BY <1>1, <3>1, FS_Subset, FS_CardinalityType
    <3> QED BY <1>1, <3>2 DEF Capped
  <2> QED BY <2>3, <2>4
<1>3. CASE job' = job
  BY <1>3 DEF Capped, Live
<1> QED BY <1>2, <1>3, StepMoves

\* A job that a kill waited for, or that aclose came to, no longer runs.
LEMMA ClosingKept ==
    ASSUME JobsAssumption, JobsFit, Closing, [JobsNext]_jobsVars
    PROVE  Closing'
<1>1. ASSUME UNCHANGED <<turn, toKill, killed>>,
             turn = "closing" => \A j \in killing : j \in killing' \/ job'[j].status # "running"
      PROVE  Closing'
  <2>1. turn # "open" => \A j \in Jobs : ~MayStart(j)
    BY DEF MayStart
  <2>2. turn' # "open" => \A j \in Jobs : job'[j].proc # "spawning"
    BY <1>1, <2>1, RunningKept DEF Closing
  <2>3. turn # "open" => \A j \in Jobs : job'[j].status = "running" => job[j].status = "running"
    BY <2>1, RunningKept
  <2>4. turn' = "closed" => \A j \in Jobs : job'[j].status # "running"
    BY <1>1, <2>3 DEF Closing
  <2>5. ASSUME turn' = "closing", NEW j \in Jobs, job'[j].status = "running"
        PROVE  j \in killing' \/ \E k \in 1..Len(toKill') : toKill'[k] = j
    <3>1. job[j].status = "running" /\ turn = "closing"
      BY <1>1, <2>3, <2>5
    <3> QED BY <1>1, <2>5, <3>1 DEF Closing
  <2> QED BY <1>1, <2>2, <2>4, <2>5 DEF Closing
<1>2. ASSUME NEW j \in Jobs, Start(j) \/ Spawn(j) \/ ProcessEnds(j) \/ TimeoutStrikes(j)
      PROVE  Closing'
  BY <1>1, <1>2 DEF Start, Spawn, ProcessEnds, TimeoutStrikes
<1>3. ASSUME NEW j \in Jobs, WatchEnds(j) \/ DrainEnds(j)
      PROVE  Closing'
  BY <1>1, <1>3 DEF WatchEnds, DrainEnds
<1>4. ASSUME NEW j \in Jobs, KillReturns(j)
      PROVE  Closing'
  <2>1. job'[j].status # "running"
    <3>1. PICK m : job' = [job EXCEPT ![j] = m] /\ m = [job[j] EXCEPT !.status = IF @ = "running" THEN "killed" ELSE @]
      BY <1>4 DEF KillReturns, Change
    <3>2. m.status # "running"
      BY <3>1 DEF JobsFit, JobRecords
    <3> QED BY <3>1, <3>2 DEF JobsFit
  <2> QED BY <1>1, <1>4, <2>1 DEF KillReturns
<1>5. ASSUME NEW j \in Jobs, KillCommand(j)
      PROVE  Closing'
  BY <1>1, <1>5 DEF KillCommand
<1>6. ASSUME Close
      PROVE  Closing'
  <2>1. PICK n \in Nat : n = MaxStarts /\ Jobs = 1..n
    BY DEF JobsAssumption, Jobs
  <2>2. Live \in SUBSET (1..n)
    BY <2>1 DEF Live
  <2>3. /\ Ascending(Live) \in Seq(1..n)
        /\ \A i \in Live : \E k \in DOMAIN Ascending(Live) : Ascending(Live)[k] = i
    BY <2>2, AscendingType
  <2>4. PICK L : L = Ascending(Live)
    OBVIOUS
  <2>5. L \in Seq(Jobs) /\ \A i \in Live : \E k \in 1..Len(L) : L[k] = i
    BY <2>1, <2>3, <2>4
  <2>6. turn' = "closing" /\ toKill' = L /\ UNCHANGED <<job, killing, killed>> /\ \A j \in Jobs : job[j].proc # "spawning"
    BY <1>6, <2>4 DEF Close
  <2> QED BY <2>5, <2>6 DEF Closing, Live
<1>7. ASSUME CloseNext
      PROVE  Closing'
  <2>1. CASE toKill = <<>>
    BY <1>7, <2>1 DEF CloseNext, Closing
  <2>2. CASE toKill # <<>>
    <3>1. PICK j \in Jobs : j = Head(toKill)
      BY <2>2 DEF Closing
    <3>2. /\ Kill(j) /\ toKill' = Tail(toKill) /\ turn' = turn /\ turn = "closing"
          /\ killed' = killed \union {j} /\ killing = {}
      BY <1>7, <2>2, <3>1 DEF CloseNext
    <3>3. job'[j].status = "running" => j \in killing'
      BY <3>2, KillMoves DEF Closing
    <3>4. \A i \in Jobs : job'[i].proc # "spawning" /\ (job'[i].status = "running" => job[i].status = "running")
      BY <3>2, RunningKept DEF Closing, MayStart
    <3>5. PICK L : L = toKill
      OBVIOUS
    <3>6. /\ L \in Seq(Jobs) /\ L # <<>> /\ toKill' = Tail(L)
          /\ \A i \in Jobs : job[i].status = "running" => \E k \in 1..Len(L) : L[k] = i
      BY <2>2, <3>2, <3>5 DEF Closing
    <3>7. Tail(L) \in Seq(Jobs) /\ \A k \in 1..Len(L) : k = 1 \/ (k - 1 \in 1..Len(Tail(L)) /\ Tail(L)[k - 1] = L[k])
      BY <3>6
    <3>8. ASSUME NEW i \in Jobs, job'[i].status = "running"
          PROVE  i \in killing' \/ \E k \in 1..Len(Tail(L)) : Tail(L)[k] = i
      <4>1. PICK k \in 1..Len(L) : L[k] = i
        BY <3>4, <3>6, <3>8
      <4>2. L[1] = j
        BY <3>1, <3>5, <3>6
      <4> QED BY <3>3, <3>7, <3>8, <4>1, <4>2
    <3> QED BY <3>2, <3>4, <3>6, <3>7, <3>8 DEF Closing
  <2> QED BY <2>1, <2>2
<1>8. ASSUME CloseCut
      PROVE  Closing'
  BY <1>8 DEF CloseCut, Closing
<1>9. ASSUME ReadPage \/ (\E b \in {"a", "L", "T"} : Emit(b))
      PROVE  Closing'
  BY <1>1, <1>9 DEF ReadPage, Emit
<1>10. ASSUME UNCHANGED jobsVars
       PROVE  Closing'
  BY <1>1, <1>10 DEF jobsVars
<1> QED BY <1>2, <1>3, <1>4, <1>5, <1>6, <1>7, <1>8, <1>9, <1>10 DEF JobsNext

\* The log and the pages of it: the cursor is not within a character, unless
\* the rest of it can no longer be written.
Reading ==
    /\ output \in Seq(Bytes) /\ Len(output) <= MaxLog /\ cursor \in 0..Len(output)
    /\ cursor > 0 => job[1].watch # "none"
    /\ cursor > 0 /\ output[cursor] = "L" =>
           IF cursor = Len(output) THEN job[1].status # "running" ELSE output[cursor + 1] # "T"
    /\ PagesExact

\* A byte more in the log changes nothing for the pages before it.
LEMMA LogGrows ==
    ASSUME Reading, Len(output) < MaxLog, UNCHANGED <<cursor, pages>>, MaxLog \in Nat,
           NEW b \in Bytes, output' = Append(output, b),
           cursor > 0 => job'[1].watch # "none",
           b = "T" => job[1].status = "running"
    PROVE  Reading'
<1>1. PICK s \in Seq(Bytes) : s = output
  BY DEF Reading
<1>2. PICK t : t = Append(s, b)
  OBVIOUS
<1>3. PICK c \in 0..Len(s) : c = cursor
  BY <1>1 DEF Reading
<1>4. t \in Seq(Bytes) /\ Len(t) = Len(s) + 1 /\ Len(s) \in Nat /\ t[Len(s) + 1] = b /\ \A i \in 1..Len(s) : t[i] = s[i]
  BY <1>2
<1>5. SubSeq(t, 1, c) = SubSeq(s, 1, c)
  BY <1>2, <1>4
<1>6. PagesExact'
  <2>1. pages = Decode(SubSeq(s, 1, c))
    BY <1>1, <1>3 DEF Reading, PagesExact
  <2>2. output' = t /\ cursor' = c /\ pages' = pages
    BY <1>1, <1>2, <1>3
  <2> QED BY <1>5, <2>1, <2>2 DEF PagesExact
<1>7. ASSUME c > 0, t[c] = "L" PROVE c # Len(t) /\ t[c + 1] # "T"
  <2>1. c \in 1..Len(s) /\ s[c] = "L"
    BY <1>4, <1>7
  <2>2. IF c = Len(s) THEN job[1].status # "running" ELSE s[c + 1] # "T"
    BY <1>1, <1>3, <1>7, <2>1 DEF Reading
  <2>3. c = Len(s) => t[c + 1] = b
    BY <1>4
  <2>4. c # Len(s) => c + 1 \in 1..Len(s)
    BY <2>1
  <2> QED BY <1>4, <2>1, <2>2, <2>3, <2>4
<1>8. output' = t /\ cursor' = c /\ Len(t) <= MaxLog /\ c \in 0..Len(t)
  BY <1>1, <1>2, <1>3, <1>4
<1>9. cursor' > 0 /\ output'[cursor'] = "L" =>
          IF cursor' = Len(output') THEN job'[1].status # "running" ELSE output'[cursor' + 1] # "T"
  BY <1>7, <1>8
<1>10. output' \in Seq(Bytes) /\ Len(output') <= MaxLog /\ cursor' \in 0..Len(output')
  BY <1>4, <1>8
<1>11. cursor' > 0 => job'[1].watch # "none"
  BY <1>3, <1>8
<1> QED BY <1>6, <1>9, <1>10, <1>11 DEF Reading

\* A page that ends where the decoder stops: the text so far and its own.
LEMMA PageAdds ==
    ASSUME NEW s \in Seq(Bytes), NEW c \in 0..Len(s), NEW e \in 0..Len(s), c <= e,
           c > 0 /\ c < Len(s) /\ s[c] = "L" => s[c + 1] # "T"
    PROVE  Decode(SubSeq(s, 1, e)) = Decode(SubSeq(s, 1, c)) \o Decode(SubSeq(s, c + 1, e))
<1>1. PICK t : t = SubSeq(s, 1, e)
  OBVIOUS
<1>2. t \in Seq(Bytes) /\ Len(t) = e /\ e \in Nat /\ c \in 0..e /\ \A i \in 1..e : t[i] = s[i]
  BY <1>1
<1>3. c > 0 /\ c < Len(t) /\ t[c] = "L" => t[c + 1] # "T"
  BY <1>2
<1>4. SubSeq(t, 1, c) = SubSeq(s, 1, c) /\ SubSeq(t, c + 1, Len(t)) = SubSeq(s, c + 1, e)
  BY <1>1, <1>2
<1>5. Decode(t) = Decode(SubSeq(t, 1, c)) \o Decode(SubSeq(t, c + 1, Len(t)))
  BY <1>2, <1>3, DecodeParts
<1> QED BY <1>1, <1>4, <1>5

\* The pages stay exact while the log grows and while the jobs end.
LEMMA ReadingKept ==
    ASSUME JobsAssumption, JobsFit, Closing, Reading, [JobsNext]_jobsVars
    PROVE  Reading'
<1>0. 1 \in Jobs /\ MaxLog \in Nat /\ PageBytes \in Nat /\ PageBytes >= 2
  BY DEF JobsAssumption, Jobs
<1>a. job[1].watch # "none" => job[1].status # "none" /\ job'[1].watch # "none"
  BY <1>0, RunningKept DEF JobsFit, JobFits, NoJob
<1>b. job[1].watch # "none" /\ job[1].status # "running" => job'[1].status # "running"
  BY <1>0, <1>a, RunningKept DEF MayStart, NoJob
<1>1. ASSUME UNCHANGED readerVars PROVE Reading'
  BY <1>a, <1>b, <1>1 DEF Reading, readerVars, PagesExact
<1>2. ASSUME NEW j \in Jobs, Start(j) \/ Spawn(j) \/ ProcessEnds(j) \/ TimeoutStrikes(j)
      PROVE  Reading'
  BY <1>1, <1>2 DEF Start, Spawn, ProcessEnds, TimeoutStrikes
<1>3. ASSUME NEW j \in Jobs, WatchEnds(j) \/ KillCommand(j) \/ KillReturns(j)
      PROVE  Reading'
  BY <1>1, <1>3 DEF WatchEnds, KillCommand, KillReturns
<1>4. ASSUME Close \/ CloseNext \/ CloseCut
      PROVE  Reading'
  BY <1>1, <1>4 DEF Close, CloseNext, CloseCut
<1>5. ASSUME NEW j \in Jobs, DrainEnds(j)
      PROVE  Reading'
  <2>1. CASE output' = output
    BY <1>1, <1>5, <2>1 DEF DrainEnds, readerVars
  <2>2. CASE output' # output
    <3>1. output' = Append(output, "a") /\ Len(output) < MaxLog /\ UNCHANGED <<cursor, pages>>
      BY <1>5, <2>2 DEF DrainEnds
    <3>2. "a" \in Bytes /\ "a" # "T"
      BY DEF Bytes
    <3>3. cursor > 0 => job'[1].watch # "none"
      BY <1>a DEF Reading
    <3> QED BY <1>0, <3>1, <3>2, <3>3, LogGrows
  <2> QED BY <2>1, <2>2
<1>6. ASSUME NEW b \in {"a", "L", "T"}, Emit(b)
      PROVE  Reading'
  <2>1. output' = Append(output, b) /\ Len(output) < MaxLog /\ UNCHANGED <<cursor, pages>> /\ job[1].proc = "alive"
    BY <1>6 DEF Emit
  <2>2. b \in Bytes /\ job[1].status = "running"
    BY <1>0, <2>1 DEF Bytes, JobsFit, JobFits
  <2>3. cursor > 0 => job'[1].watch # "none"
    BY <1>a DEF Reading
  <2> QED BY <1>0, <2>1, <2>2, <2>3, LogGrows
<1>7. ASSUME ReadPage
      PROVE  Reading'
  <2>1. PICK s \in Seq(Bytes) : s = output
    BY DEF Reading
  <2>2. PICK c \in 0..Len(s) : c = cursor
    BY <2>1 DEF Reading
  <2>3. PICK end : end = IF c + PageBytes < Len(s) THEN c + PageBytes ELSE Len(s)
    OBVIOUS
  <2>4. end \in 0..Len(s) /\ c <= end
    BY <1>0, <2>3
  <2>5. PICK data : data = SubSeq(s, c + 1, end)
    OBVIOUS
  <2>6. data \in Seq(Bytes) /\ Len(data) = end - c /\ \A i \in 1..Len(data) : data[i] = s[c + i]
    BY <2>4, <2>5
  <2>7. PICK held : held = KeptBack(data, job[1].status # "running" /\ end = Len(s))
    OBVIOUS
  <2>8. held \in {0, 1}
    BY <2>7 DEF KeptBack
  <2>9. /\ job[1].watch # "none" /\ end - held > c /\ job' = job /\ output' = s
        /\ cursor' = end - held /\ pages' = pages \o Decode(SubSeq(data, 1, Len(data) - held))
    BY <1>7, <2>1, <2>2, <2>3, <2>5, <2>7 DEF ReadPage
  <2>10. PICK e \in 0..Len(s) : e = end - held /\ c < e
    BY <2>4, <2>8, <2>9
  <2>11. SubSeq(data, 1, Len(data) - held) = SubSeq(s, c + 1, e)
    <3>1. Len(data) - held = e - c /\ e - c \in 1..Len(data)
      BY <2>4, <2>6, <2>8, <2>10
    <3>2. PICK p : p = SubSeq(data, 1, e - c)
      OBVIOUS
    <3>3. PICK q : q = SubSeq(s, c + 1, e)
      OBVIOUS
    <3>4. p \in Seq(Bytes) /\ Len(p) = e - c /\ \A i \in 1..e - c : p[i] = s[c + i]
      BY <2>6, <3>1, <3>2
    <3>5. q \in Seq(Bytes) /\ Len(q) = e - c /\ \A i \in 1..e - c : q[i] = s[c + i]
      BY <2>10, <3>3
    <3>6. p = q
      BY <3>4, <3>5, SeqEqual
    <3> QED BY <3>1, <3>2, <3>3, <3>6
  <2>12. c > 0 /\ c < Len(s) /\ s[c] = "L" => s[c + 1] # "T"
    BY <2>1, <2>2 DEF Reading
  <2>13. Decode(SubSeq(s, 1, e)) = Decode(SubSeq(s, 1, c)) \o Decode(SubSeq(s, c + 1, e))
    <3>1. c <= e
      BY <2>10
    <3> QED BY <2>12, <3>1, PageAdds
  <2>14. PagesExact'
    <3>1. pages = Decode(SubSeq(s, 1, c))
      BY <2>1, <2>2 DEF Reading, PagesExact
    <3>2. output' = s /\ cursor' = e /\ pages' = Decode(SubSeq(s, 1, c)) \o Decode(SubSeq(s, c + 1, e))
      BY <2>9, <2>10, <2>11, <3>1
    <3> QED BY <2>13, <3>2 DEF PagesExact
  <2>15. ASSUME s[e] = "L"
         PROVE  IF e = Len(s) THEN job[1].status # "running" ELSE s[e + 1] # "T"
    <3>1. CASE held = 0
      <4>1. e = end /\ Len(data) = e - c /\ Len(data) \in 1..Len(data) /\ data # <<>>
        BY <2>4, <2>6, <2>10, <3>1
      <4>2. data[Len(data)] = s[e]
        <5>1. c + Len(data) = e
          BY <2>10, <4>1
        <5> QED BY <2>6, <4>1, <5>1
      <4> QED BY <2>7, <2>15, <3>1, <4>1, <4>2 DEF KeptBack
    <3>2. CASE held = 1
      <4>1. Len(data) = end - c /\ Len(data) \in 1..Len(data) /\ e + 1 = end /\ e # Len(s)
        BY <2>4, <2>6, <2>10, <3>2
      <4>2. data[Len(data)] = s[end]
        <5>1. c + Len(data) = end
          BY <2>4, <4>1
        <5> QED BY <2>6, <4>1, <5>1
      <4>3. data[Len(data)] = "L"
        BY <2>7, <3>2 DEF KeptBack
      <4> QED BY <4>1, <4>2, <4>3
    <3> QED BY <2>8, <3>1, <3>2
  <2>16. output' = s /\ cursor' = e /\ job' = job /\ Len(s) <= MaxLog /\ job[1].watch # "none"
    BY <2>1, <2>9, <2>10 DEF Reading
  <2> QED BY <2>14, <2>15, <2>16 DEF Reading
<1>8. ASSUME UNCHANGED jobsVars
      PROVE  Reading'
  BY <1>1, <1>8 DEF jobsVars, readerVars
<1> QED BY <1>2, <1>3, <1>4, <1>5, <1>6, <1>7, <1>8 DEF JobsNext

-----------------------------------------------------------------------------

\* The inductive invariant.
JobsInv == JobsFit /\ Closing /\ Capped /\ Reading

\* At first there is no job, and nothing is read.
LEMMA JobsInvInit ==
    ASSUME JobsAssumption, JobsInit
    PROVE  JobsInv
<1>1. JobsFit
  <2>1. NoJob \in JobRecords /\ JobFits(NoJob)
    BY DEF NoJob, JobRecords, JobFits
  <2> QED BY <2>1 DEF JobsInit, JobsFit
<1>2. Closing
  BY DEF JobsInit, Closing
<1>3. Live = {}
  BY DEF JobsInit, Live, NoJob
<1>4. Capped
  BY <1>3, FS_EmptySet DEF Capped, JobsAssumption
<1>5. Reading
  <2>1. SubSeq(<<>>, 1, 0) = <<>>
    OBVIOUS
  <2>2. Starts(<<>>) = {}
    BY DEF Starts
  <2>3. Decode(<<>>) = <<>>
    BY <2>2, FS_EmptySet DEF Decode, Ascending
  <2>4. PagesExact
    BY <2>1, <2>3 DEF JobsInit, PagesExact
  <2> QED BY <2>4 DEF JobsInit, Reading, JobsAssumption
<1> QED BY <1>1, <1>2, <1>4, <1>5 DEF JobsInv

\* Every step keeps the invariant.
LEMMA JobsInvStep ==
    ASSUME JobsAssumption, JobsInv, [JobsNext]_jobsVars
    PROVE  JobsInv'
BY FitKept, ClosingKept, CappedKept, ReadingKept DEF JobsInv

\* The invariant says of every state what JobRegistry promises.
LEMMA JobsInvSafe ==
    ASSUME JobsAssumption, JobsInv
    PROVE  JobsTypeOK /\ JobsSafe
<1>1. JobsTypeOK
  BY DEF JobsInv, JobsFit, Closing, Reading, JobsTypeOK, JobRecords
<1>2. PagesExact
  BY DEF JobsInv, Reading
<1>3. ClosedIsClean
  BY DEF JobsInv, Closing, JobsFit, JobFits, ClosedIsClean
<1>4. OutcomesTrue
  <2>1. \A j \in Jobs : /\ job[j].status \in {"exited", "killed", "lost"} => job[j].proc # "alive"
                        /\ job[j].status = "exited" => job[j].own /\ ~job[j].asked
    BY DEF JobsInv, JobsFit, JobFits
  <2>2. {j \in Jobs : job[j].proc = "alive"} \subseteq Live
    BY DEF JobsInv, JobsFit, JobFits, Live
  <2>3. IsFiniteSet(Live) /\ Cardinality(Live) \in Nat /\ JobCap \in Nat
    <3>1. IsFiniteSet(Jobs)
      BY FS_Interval DEF Jobs, JobsAssumption
    <3>2. Live \subseteq Jobs
      BY DEF Live
    <3> QED BY <3>1, <3>2, FS_Subset, FS_CardinalityType DEF JobsAssumption
  <2>4. /\ Cardinality({j \in Jobs : job[j].proc = "alive"}) <= Cardinality(Live)
        /\ Cardinality({j \in Jobs : job[j].proc = "alive"}) \in Nat
    BY <2>2, <2>3, FS_Subset, FS_CardinalityType
  <2>5. Cardinality({j \in Jobs : job[j].proc = "alive"}) <= JobCap
    BY <2>3, <2>4 DEF JobsInv, Capped
  <2> QED BY <2>1, <2>5 DEF OutcomesTrue
<1> QED BY <1>1, <1>2, <1>3, <1>4 DEF JobsSafe

\* For any number of jobs, any cap and any size of a page: an outcome is never
\* that of another end than the one the process had, aclose leaves no job
\* running, and the pages of a log that grows are its text (JobRegistry,
\* read_log_from).
THEOREM JobsSafety == JobsSpec => [](JobsTypeOK /\ JobsSafe)
<1>1. JobsInit => JobsInv
  BY JobsAssumption, JobsInvInit
<1>2. JobsInv /\ [JobsNext]_jobsVars => JobsInv'
  BY JobsAssumption, JobsInvStep
<1>3. JobsInv => JobsTypeOK /\ JobsSafe
  BY JobsAssumption, JobsInvSafe
<1> QED BY <1>1, <1>2, <1>3, PTL DEF JobsSpec

-----------------------------------------------------------------------------
(* The files and their records.                                             *)

\* The files of a workspace, each with its body.
Trees == [Paths -> Bodies \union {NoFile}]

\* A hunk that applies leaves a tree.
LEMMA AppliedFits ==
    ASSUME NEW t \in Trees, NEW h \in Hunks
    PROVE  Applied(t, h) \in Trees
<1>1. h.path \in Paths /\ h.body \in Bodies \union {NoFile} /\ (h.op = "move" => h.to \in Paths)
  BY DEF Hunks
<1>2. NoFile \in Bodies \union {NoFile}
  OBVIOUS
<1> QED BY <1>1, <1>2 DEF Applied, Trees

\* The trees of a patch: the one at first, and one after each operation.
LEMMA AppliedSteps ==
    ASSUME tree \in Trees, NEW hs \in Seq(Hunks), NEW n \in 0..Len(hs)
    PROVE  /\ AppliedUpTo(hs, n) \in [0..n -> Trees] /\ AppliedUpTo(hs, n)[0] = tree
           /\ \A i \in 1..n : AppliedUpTo(hs, n)[i] = Applied(AppliedUpTo(hs, n)[i - 1], hs[i])
<1> DEFINE step == [i \in Nat |-> [q \in Trees |-> IF i \in 1..n THEN Applied(q, hs[i]) ELSE q]]
           t == AppliedUpTo(hs, n)
<1>0. n \in Nat /\ \A i \in 1..n : hs[i] \in Hunks
  OBVIOUS
<1>1. Stepping(Trees, step)
  BY <1>0, AppliedFits DEF Stepping
<1>a. PICK f : Iterates(f, Trees, tree, step, n)
  <2> HIDE DEF step
  <2> QED BY <1>0, <1>1, Recursion
<1>2. f \in [0..n -> Trees] /\ f[0] = tree /\ \A i \in 1..n : f[i] = step[i][f[i - 1]]
  BY <1>a DEF Iterates
<1>3. \A i \in 1..n : f[i] = Applied(f[i - 1], hs[i])
  <2> TAKE i \in 1..n
  <2>1. i - 1 \in 0..n /\ f[i - 1] \in Trees
    BY <1>0, <1>2
  <2>2. step[i] = [q \in Trees |-> Applied(q, hs[i])]
    OBVIOUS
  <2> QED BY <1>2, <2>1, <2>2
<1>4. f = [i \in 0..n |-> IF i = 0 THEN tree ELSE Applied(f[i - 1], hs[i])]
  <2>1. \A i \in 0..n : i = 0 \/ i \in 1..n
    BY <1>0
  <2> QED BY <1>2, <1>3, <2>1
<1>5. t = [i \in 0..n |-> IF i = 0 THEN tree ELSE Applied(t[i - 1], hs[i])]
  BY <1>4 DEF AppliedUpTo
<1>6. DOMAIN t = 0..n /\ t[0] = tree /\ \A i \in 1..n : t[i] = Applied(t[i - 1], hs[i])
  BY <1>5, <1>0
<1>7. \A i \in 0..n : t[i] = f[i]
  <2> DEFINE S == {i \in 0..n : t[i] = f[i]}
  <2>1. 0 \in S
    BY <1>0, <1>2, <1>6
  <2>2. \A i \in 1..n : i - 1 \in S => i \in S
    BY <1>3, <1>6
  <2> HIDE DEF S
  <2>3. \A i \in 0..n : i \in S
    BY <2>1, <2>2, <1>0, Counting
  <2> QED BY <2>3 DEF S
<1>8. t = f
  BY <1>2, <1>5, <1>7
<1> QED BY <1>2, <1>6, <1>8
\* A rolled back operation leaves a tree.
LEMMA RolledBackFits ==
    ASSUME tree \in Trees, NEW t \in Trees, NEW h, NEW stuck
    PROVE  RolledBack(t, h, stuck) \in Trees
<1>1. \A p \in Paths : tree[p] \in Bodies \union {NoFile} /\ t[p] \in Bodies \union {NoFile}
  BY DEF Trees
<1> QED BY <1>1 DEF RolledBack, Trees

\* The trees of a rollback: the one it begins with, and one after each operation.
RollsBack(back, t, done, stuck) ==
    /\ back \in [0..Len(done) -> Trees]
    /\ back[0] = t /\ RollBack(t, done, stuck) = back[Len(done)]
    /\ \A i \in 1..Len(done) : back[i] = RolledBack(back[i - 1], done[Len(done) + 1 - i], stuck)

\* A rollback goes through such trees.
LEMMA RollBackSteps ==
    ASSUME tree \in Trees, NEW t \in Trees, NEW done \in Seq(Hunks), NEW stuck
    PROVE  \E back : RollsBack(back, t, done, stuck)
<1> DEFINE n == Len(done)
           step == [i \in Nat |-> [q \in Trees |-> RolledBack(q, done[n + 1 - i], stuck)]]
           back == CHOOSE f : f = [i \in 0..n |-> IF i = 0 THEN t ELSE RolledBack(f[i - 1], done[n + 1 - i], stuck)]
<1>0. n \in Nat
  OBVIOUS
<1>1. Stepping(Trees, step)
  BY RolledBackFits DEF Stepping
<1>a. PICK f : Iterates(f, Trees, t, step, n)
  <2> HIDE DEF step, n
  <2> QED BY <1>0, <1>1, Recursion
<1>2. f \in [0..n -> Trees] /\ f[0] = t /\ \A i \in 1..n : f[i] = step[i][f[i - 1]]
  BY <1>a DEF Iterates
<1>3. \A i \in 1..n : f[i] = RolledBack(f[i - 1], done[n + 1 - i], stuck)
  <2> TAKE i \in 1..n
  <2>1. i - 1 \in 0..n /\ f[i - 1] \in Trees /\ i \in Nat
    BY <1>0, <1>2
  <2>2. step[i] = [q \in Trees |-> RolledBack(q, done[n + 1 - i], stuck)]
    BY <2>1
  <2> HIDE DEF step, n
  <2> QED BY <1>2, <2>1, <2>2
<1>4. f = [i \in 0..n |-> IF i = 0 THEN t ELSE RolledBack(f[i - 1], done[n + 1 - i], stuck)]
  <2> HIDE DEF step, n
  <2>1. \A i \in 0..n : i = 0 \/ i \in 1..n
    BY <1>0
  <2> QED BY <1>2, <1>3, <2>1
<1>5. back = [i \in 0..n |-> IF i = 0 THEN t ELSE RolledBack(back[i - 1], done[n + 1 - i], stuck)]
  <2> HIDE DEF n
  <2> QED BY <1>4
<1>6. RollBack(t, done, stuck) = back[n]
  BY DEF RollBack
<1> HIDE DEF back, step, n
<1>7. DOMAIN back = 0..n /\ back[0] = t /\ \A i \in 1..n : back[i] = RolledBack(back[i - 1], done[n + 1 - i], stuck)
  BY <1>5, <1>0
<1>8. \A i \in 0..n : back[i] = f[i]
  <2> DEFINE S == {i \in 0..n : back[i] = f[i]}
  <2>1. 0 \in S
    BY <1>0, <1>2, <1>7
  <2>2. \A i \in 1..n : i - 1 \in S => i \in S
    BY <1>3, <1>7
  <2> HIDE DEF S
  <2>3. \A i \in 0..n : i \in S
    BY <2>1, <2>2, <1>0, Counting
  <2> QED BY <2>3 DEF S
<1>9. back = f
  BY <1>2, <1>5, <1>8
<1>b. RollsBack(back, t, done, stuck)
  BY <1>2, <1>6, <1>7, <1>9 DEF n, RollsBack
<1> QED BY <1>b

\* What the hunks of a plan have removed and claimed.
Claims == [gone : SUBSET Paths, taken : SUBSET Paths]

\* A claim that a hunk changes is a claim, and removes no other path.
LEMMA ClaimedFits ==
    ASSUME NEW c \in Claims, NEW h \in Hunks
    PROVE  Claimed(c, h) \in Claims /\ Claimed(c, h).gone \subseteq c.gone \union {h.path}
<1>1. h.path \in Paths /\ (h.op = "move" => h.to \in Paths) /\ h.op \in {"add", "update", "delete", "move"}
  BY DEF Hunks
<1>2. c = [gone |-> c.gone, taken |-> c.taken] /\ c.gone \subseteq Paths /\ c.taken \subseteq Paths
  BY DEF Claims
<1>3. CASE h.op = "add"
  BY <1>1, <1>2, <1>3 DEF Claimed, Claims
<1>4. CASE h.op = "delete"
  BY <1>1, <1>2, <1>4 DEF Claimed, Claims
<1>5. CASE h.op = "move"
  BY <1>1, <1>2, <1>5 DEF Claimed, Claims
<1>6. CASE h.op = "update"
  BY <1>1, <1>2, <1>6 DEF Claimed, Claims
<1> QED BY <1>1, <1>3, <1>4, <1>5, <1>6

\* The claims of a plan: none at first, and what each hunk makes of those before it.
LEMMA ClaimSteps ==
    ASSUME NEW hs \in Seq(Hunks)
    PROVE  /\ PlanClaims(hs) \in [0..Len(hs) -> Claims] /\ PlanClaims(hs)[0] = [gone |-> {}, taken |-> {}]
           /\ \A i \in 1..Len(hs) : PlanClaims(hs)[i] = Claimed(PlanClaims(hs)[i - 1], hs[i])
<1> DEFINE n == Len(hs)
           none == [gone |-> {}, taken |-> {}]
           step == [i \in Nat |-> [q \in Claims |-> IF i \in 1..n THEN Claimed(q, hs[i]) ELSE q]]
           claim == PlanClaims(hs)
<1>0. n \in Nat /\ (\A i \in 1..n : hs[i] \in Hunks) /\ none \in Claims
  BY DEF Claims
<1>1. Stepping(Claims, step)
  BY <1>0, ClaimedFits DEF Stepping
<1>a. PICK f : Iterates(f, Claims, none, step, n)
  <2> HIDE DEF step, n, none
  <2> QED BY <1>0, <1>1, Recursion
<1>2. f \in [0..n -> Claims] /\ f[0] = none /\ \A i \in 1..n : f[i] = step[i][f[i - 1]]
  BY <1>a DEF Iterates
<1>3. \A i \in 1..n : f[i] = Claimed(f[i - 1], hs[i])
  <2> TAKE i \in 1..n
  <2>1. i - 1 \in 0..n /\ f[i - 1] \in Claims /\ i \in Nat
    BY <1>0, <1>2
  <2>2. step[i] = [q \in Claims |-> Claimed(q, hs[i])]
    BY <2>1
  <2> HIDE DEF step, n, none
  <2> QED BY <1>2, <2>1, <2>2
<1>5. claim = [i \in 0..n |-> IF i = 0 THEN none ELSE Claimed(claim[i - 1], hs[i])]
  <2>1. f = [i \in 0..n |-> IF i = 0 THEN none ELSE Claimed(f[i - 1], hs[i])]
    <3> HIDE DEF step, n, none
    <3>1. \A i \in 0..n : i = 0 \/ i \in 1..n
      BY <1>0
    <3> QED BY <1>2, <1>3, <3>1
  <2> QED BY <2>1 DEF PlanClaims
<1> HIDE DEF claim, step, n, none
<1>6. DOMAIN claim = 0..n /\ claim[0] = none /\ \A i \in 1..n : claim[i] = Claimed(claim[i - 1], hs[i])
  BY <1>5, <1>0
<1>7. \A i \in 0..n : claim[i] = f[i]
  <2> DEFINE S == {i \in 0..n : claim[i] = f[i]}
  <2>1. 0 \in S
    BY <1>0, <1>2, <1>6
  <2>2. \A i \in 1..n : i - 1 \in S => i \in S
    BY <1>3, <1>6
  <2> HIDE DEF S
  <2>3. \A i \in 0..n : i \in S
    BY <2>1, <2>2, <1>0, Counting
  <2> QED BY <2>3 DEF S
<1>8. claim = f
  BY <1>2, <1>5, <1>7
<1> QED BY <1>2, <1>6, <1>8 DEF claim, n, none

\* The paths a hunk writes or removes.
Touches(h, p) == p = h.path \/ p = h.to

\* What is gone before a hunk of a plan was removed by an earlier one.
LEMMA GoneWasTouched ==
    ASSUME NEW hs \in Seq(Hunks), NEW i \in 0..Len(hs), NEW p \in PlanClaims(hs)[i].gone
    PROVE  \E j \in 1..i : Touches(hs[j], p)
<1> DEFINE n == Len(hs)
           claim == PlanClaims(hs)
           S == {k \in 0..n : p \in claim[k].gone => \E j \in 1..k : Touches(hs[j], p)}
<1>0. n \in Nat /\ \A k \in 1..n : hs[k] \in Hunks
  OBVIOUS
<1>1. claim \in [0..n -> Claims] /\ claim[0].gone = {} /\ \A k \in 1..n : claim[k] = Claimed(claim[k - 1], hs[k])
  BY ClaimSteps
<1> HIDE DEF claim, n
<1>2. 0 \in S
  BY <1>0, <1>1
<1>3. ASSUME NEW k \in 1..n, k - 1 \in S PROVE k \in S
  <2>1. k \in 0..n /\ k - 1 \in 0..n /\ claim[k - 1] \in Claims
    BY <1>0, <1>1
  <2>2. claim[k].gone \subseteq claim[k - 1].gone \union {hs[k].path}
    BY <1>0, <1>1, <2>1, ClaimedFits
  <2>3. CASE p = hs[k].path
    BY <2>1, <2>3, <1>0 DEF Touches
  <2>4. CASE p \in claim[k - 1].gone
    <3>1. PICK j \in 1..(k - 1) : Touches(hs[j], p)
      BY <1>3, <2>4
    <3>2. j \in 1..k
      BY <2>1
    <3> QED BY <3>1, <3>2, <2>1
  <2>5. CASE p \notin claim[k].gone
    BY <2>5, <2>1
  <2> QED BY <2>2, <2>3, <2>4, <2>5
<1> HIDE DEF S
<1>4. \A k \in 0..n : k \in S
  BY <1>0, <1>2, <1>3, Counting
<1>5. i \in S
  BY <1>4 DEF n
<1> QED BY <1>5 DEF S, claim

\* A hunk that is the first to touch a path is rolled back to what was there.
LEMMA FirstTouch ==
    ASSUME tree \in Trees, NEW hs \in Seq(Hunks), Planned(hs), NEW i \in 1..Len(hs), NEW p \in Paths,
           Touches(hs[i], p), \A j \in 1..(i - 1) : ~Touches(hs[j], p),
           NEW t, NEW stuck, p \notin stuck
    PROVE  RolledBack(t, hs[i], stuck)[p] = tree[p]
<1> DEFINE claim == PlanClaims(hs)
           h == hs[i]
<1>1. /\ h.op = "add" => (tree[h.path] = NoFile \/ h.path \in claim[i - 1].gone)
      /\ h.op = "move" => (tree[h.to] = NoFile \/ h.to \in claim[i - 1].gone)
  BY DEF Planned
<1>2. h \in Hunks
  OBVIOUS
<1>3. i - 1 \in 0..Len(hs)
  OBVIOUS
<1>4. p \notin claim[i - 1].gone
  BY <1>3, GoneWasTouched
<1> HIDE DEF claim
<1>5. RolledBack(t, h, stuck)[p] =
          IF p = h.to \/ (p = h.path /\ h.op = "add") THEN NoFile ELSE tree[p]
  BY DEF RolledBack, Touches
<1>6. h.op # "move" => h.to = NoPath
  BY <1>2 DEF Hunks
<1>7. CASE p = h.to
  BY <1>1, <1>4, <1>5, <1>6, <1>7, FileConstants
<1>8. CASE p # h.to
  BY <1>1, <1>4, <1>5, <1>8
<1> QED BY <1>7, <1>8

\* What an operation that does not touch a path makes of it.
LEMMA Untouched ==
    ASSUME NEW t \in Trees, NEW h \in Hunks, NEW p \in Paths, ~Touches(h, p), NEW stuck
    PROVE  Applied(t, h)[p] = t[p] /\ RolledBack(t, h, stuck)[p] = t[p]
<1>1. DOMAIN t = Paths
  BY DEF Trees
<1> QED BY <1>1 DEF Applied, RolledBack, Touches

\* A rollback restores every path but those it cannot write.
LEMMA RollBackRestores ==
    ASSUME tree \in Trees, NEW hs \in Seq(Hunks), Planned(hs), NEW n \in 0..Len(hs), NEW t \in Trees,
           NEW stuck, NEW p \in Paths, p \notin stuck,
           (\A i \in 1..n : ~Touches(hs[i], p)) => t[p] = tree[p]
    PROVE  RollBack(t, SubSeq(hs, 1, n), stuck)[p] = tree[p]
<1> DEFINE done == SubSeq(hs, 1, n)
<1>0. /\ n \in Nat /\ done \in Seq(Hunks) /\ Len(done) = n /\ \A i \in 1..n : done[i] = hs[i] /\ hs[i] \in Hunks
      /\ \A i \in 1..n : i \in 1..Len(hs)
  BY SubSeqProperties
<1> HIDE DEF done
<1>a. PICK back : RollsBack(back, t, done, stuck)
  BY <1>0, RollBackSteps
<1>1. /\ back \in [0..n -> Trees] /\ back[0] = t /\ RollBack(t, done, stuck) = back[n]
      /\ \A i \in 1..n : back[i] = RolledBack(back[i - 1], done[n + 1 - i], stuck)
  BY <1>0, <1>a DEF RollsBack
<1>b. \A k \in 1..n : k \in 0..n /\ k - 1 \in 0..n /\ n + 1 - k \in 1..n /\ back[k - 1] \in Trees
  BY <1>0, <1>1
<1>2. CASE \A i \in 1..n : ~Touches(hs[i], p)
  <2> DEFINE S == {k \in 0..n : back[k][p] = tree[p]}
  <2>1. 0 \in S
    BY <1>0, <1>1, <1>2
  <2>2. ASSUME NEW k \in 1..n, k - 1 \in S PROVE k \in S
    <3>1. n + 1 - k \in 1..n /\ k \in 0..n /\ k - 1 \in 0..n /\ back[k - 1] \in Trees
      BY <1>b
    <3>2. RolledBack(back[k - 1], done[n + 1 - k], stuck)[p] = back[k - 1][p]
      BY <3>1, <1>0, <1>2, Untouched
    <3> QED BY <1>1, <2>2, <3>1, <3>2
  <2> HIDE DEF S
  <2>3. \A k \in 0..n : k \in S
    BY <1>0, <2>1, <2>2, Counting
  <2> QED BY <1>0, <1>1, <2>3 DEF S, done
<1>3. CASE \E i \in 1..n : Touches(hs[i], p)
  <2> DEFINE touching == {i \in 1..n : Touches(hs[i], p)}
  <2>1. PICK i \in touching : \A k \in touching : i <= k
    <3>1. touching \subseteq Nat /\ touching # {}
      BY <1>0, <1>3
    <3> HIDE DEF touching
    <3> QED BY <3>1, LeastNumber
  <2>2. i \in 1..n /\ Touches(hs[i], p) /\ \A j \in 1..(i - 1) : ~Touches(hs[j], p)
    <3>1. ASSUME NEW j \in 1..(i - 1), Touches(hs[j], p) PROVE FALSE
      <4>1. j \in touching /\ j < i
        BY <3>1, <2>1, <1>0
      <4> QED BY <2>1, <4>1, <1>0
    <3> QED BY <2>1, <3>1
  <2> HIDE DEF touching
  <2> DEFINE m == n + 1 - i
             S == {k \in 0..n : k >= m => back[k][p] = tree[p]}
  <2>3. m \in 1..n /\ n + 1 - m = i
    BY <1>0, <2>2
  <2>4. back[m][p] = tree[p]
    <3>1. back[m] = RolledBack(back[m - 1], hs[i], stuck)
      BY <1>0, <1>1, <2>2, <2>3
    <3>2. i \in 1..Len(hs)
      BY <1>0, <2>2
    <3> HIDE DEF m
    <3> QED BY <3>1, <3>2, <2>2, FirstTouch
  <2>5. 0 \in S
    BY <1>0, <2>3
  <2>6. ASSUME NEW k \in 1..n, k - 1 \in S PROVE k \in S
    <3>1. k \in 0..n /\ k - 1 \in 0..n /\ back[k - 1] \in Trees /\ n + 1 - k \in 1..n
      BY <1>b
    <3>2. CASE k < m
      BY <3>1, <3>2, <2>3, <1>0
    <3>3. CASE k = m
      BY <3>1, <3>3, <2>4
    <3>4. CASE k > m
      <4>1. n + 1 - k \in 1..(i - 1)
        BY <3>1, <3>4, <1>0, <2>2
      <4>2. ~Touches(hs[n + 1 - k], p) /\ done[n + 1 - k] = hs[n + 1 - k] /\ hs[n + 1 - k] \in Hunks
        BY <4>1, <3>1, <2>2, <1>0
      <4>3. RolledBack(back[k - 1], done[n + 1 - k], stuck)[p] = back[k - 1][p]
        BY <4>2, <3>1, Untouched
      <4>4. k - 1 >= m
        BY <3>1, <3>4, <2>3
      <4> QED BY <1>1, <2>6, <3>1, <4>3, <4>4
    <3> QED BY <3>1, <3>2, <3>3, <3>4, <2>3
  <2> HIDE DEF S
  <2>7. \A k \in 0..n : k \in S
    BY <1>0, <2>5, <2>6, Counting
  <2>8. n \in 0..n /\ n >= m
    BY <1>0, <2>3
  <2>9. back[n][p] = tree[p]
    BY <2>7, <2>8 DEF S
  <2> QED BY <1>1, <2>9 DEF done
<1> QED BY <1>2, <1>3 DEF done

\* A move has something to move, to another path.
MoveFits(r) == r.action = "move" => r.from \in Paths /\ r.from # r.path /\ r.before # NoFile

\* The inductive invariant of the files and their records.
FcInv ==
    /\ tree \in Trees /\ log \in Seq(Records) /\ Len(log) <= MaxRecords /\ (\A i \in DOMAIN log : MoveFits(log[i]))
    /\ undone \subseteq DOMAIN log /\ request \in {1, 2} /\ outside \subseteq Paths /\ dirty \subseteq Paths
    /\ last \in {"tool", "failed", "outside", "undo", "forced"}

\* The files at first.
LEMMA FcInitInv == FcInit => FcInv
<1> SUFFICES ASSUME FcInit PROVE FcInv
  OBVIOUS
<1>1. tree \in Trees
  BY FileConstants DEF FcInit, Trees
<1>2. log = <<>> /\ Len(log) = 0 /\ DOMAIN log = {} /\ log \in Seq(Records)
  BY DEF FcInit
<1> QED BY <1>1, <1>2, FileConstants DEF FcInit, FcInv

\* A patch is a list of hunks.
LEMMA PatchesAreLists ==
    ASSUME NEW hs \in Patches
    PROVE  hs \in Seq(Hunks)
<1>1. CASE hs \in {<<h>> : h \in Hunks}
  <2>1. PICK h \in Hunks : hs = <<h>>
    BY <1>1
  <2> QED BY <2>1
<1>2. CASE hs \in Hunks \X Hunks
  <2>1. PICK g \in Hunks, h \in Hunks : hs = <<g, h>>
    BY <1>2
  <2> QED BY <2>1
<1> QED BY <1>1, <1>2 DEF Patches

\* What one operation leaves half done.
LEMMA HalfMove ==
    ASSUME NEW t \in Trees, NEW h \in Hunks, h.op = "move"
    PROVE  [t EXCEPT ![h.to] = h.body] \in Trees /\ \A p \in Paths : p # h.to => [t EXCEPT ![h.to] = h.body][p] = t[p]
<1>1. h.to \in Paths /\ h.body \in Bodies \union {NoFile}
  BY DEF Hunks
<1> QED BY <1>1 DEF Trees

\* The trees of a patch touch only the paths of its operations.
LEMMA AppliedTouches ==
    ASSUME tree \in Trees, NEW hs \in Seq(Hunks), NEW n \in 0..Len(hs), NEW p \in Paths,
           \A i \in 1..n : ~Touches(hs[i], p)
    PROVE  AppliedUpTo(hs, n)[n][p] = tree[p]
<1> DEFINE t == AppliedUpTo(hs, n)
           S == {k \in 0..n : t[k][p] = tree[p]}
<1>1. t \in [0..n -> Trees] /\ t[0] = tree /\ \A i \in 1..n : t[i] = Applied(t[i - 1], hs[i])
  BY AppliedSteps
<1>2. n \in Nat /\ \A i \in 1..n : hs[i] \in Hunks /\ i \in 0..n /\ i - 1 \in 0..n
  OBVIOUS
<1> HIDE DEF t
<1>3. 0 \in S
  BY <1>1, <1>2
<1>4. ASSUME NEW i \in 1..n, i - 1 \in S PROVE i \in S
  <2>1. t[i - 1] \in Trees
    BY <1>1, <1>2
  <2>2. Applied(t[i - 1], hs[i])[p] = t[i - 1][p]
    BY <2>1, <1>2, Untouched
  <2> QED BY <2>2, <1>1, <1>2, <1>4
<1> HIDE DEF S
<1>5. \A k \in 0..n : k \in S
  BY <1>2, <1>3, <1>4, Counting
<1>6. n \in S
  BY <1>2, <1>5
<1> QED BY <1>6 DEF S, t

\* A patch that fails leaves a tree, which differs from the one before it at
\* paths that could not be written.
LEMMA FailureRestores ==
    ASSUME FcInv, NEW hs \in Seq(Hunks), NEW n \in DOMAIN hs, PatchFails(hs, n)
    PROVE  /\ tree' \in Trees /\ dirty' \subseteq Paths
           /\ \A p \in Paths : p \notin dirty' => tree'[p] = tree[p]
<1> DEFINE t == AppliedUpTo(hs, n - 1)
<1>1. PICK wrote \in {FALSE, hs[n].op = "move"} :
         LET done == IF wrote THEN SubSeq(hs, 1, n) ELSE SubSeq(hs, 1, n - 1)
             now  == IF wrote THEN [t[n - 1] EXCEPT ![hs[n].to] = hs[n].body] ELSE t[n - 1]
         IN \E stuck \in SUBSET Touched(done) :
              dirty' = stuck /\ tree' = RollBack(now, done, stuck)
  BY DEF PatchFails
<1> DEFINE m == IF wrote THEN n ELSE n - 1
           done == SubSeq(hs, 1, m)
           now  == IF wrote THEN [t[n - 1] EXCEPT ![hs[n].to] = hs[n].body] ELSE t[n - 1]
<1>2. PICK stuck \in SUBSET Touched(done) : dirty' = stuck /\ tree' = RollBack(now, done, stuck)
  BY <1>1
<1>3. /\ n \in 1..Len(hs) /\ n - 1 \in 0..Len(hs) /\ m \in 0..Len(hs) /\ hs[n] \in Hunks
      /\ done \in Seq(Hunks) /\ Len(done) = m /\ \A i \in 1..m : done[i] = hs[i] /\ done[i] \in Hunks
  <2>1. n \in 1..Len(hs) /\ n - 1 \in 0..Len(hs) /\ hs[n] \in Hunks
    OBVIOUS
  <2>2. m \in 0..Len(hs)
    BY <2>1
  <2> HIDE DEF m
  <2>3. done \in Seq(Hunks) /\ Len(done) = m /\ \A i \in 1..m : done[i] = hs[i]
    BY <2>2, SubSeqProperties
  <2> QED BY <2>1, <2>2, <2>3
<1>4. tree \in Trees /\ Planned(hs)
  BY DEF FcInv, PatchFails
<1>5. t[n - 1] \in Trees
  BY <1>3, <1>4, AppliedSteps
<1>6. wrote => hs[n].op = "move"
  BY <1>1
<1> HIDE DEF t
<1>7. now \in Trees
  BY <1>3, <1>5, <1>6, HalfMove
<1>8. ASSUME NEW p \in Paths, \A i \in 1..m : ~Touches(hs[i], p)
      PROVE  now[p] = tree[p]
  <2>1. \A i \in 1..(n - 1) : ~Touches(hs[i], p)
    BY <1>3, <1>8
  <2>2. t[n - 1][p] = tree[p]
    BY <1>3, <1>4, <2>1, AppliedTouches DEF t
  <2>3. wrote => ~Touches(hs[n], p)
    BY <1>3, <1>8
  <2> QED BY <1>3, <1>5, <1>6, <2>2, <2>3, HalfMove DEF Touches
<1> HIDE DEF now
<1>9. tree' \in Trees
  <2>1. PICK back : RollsBack(back, now, done, stuck)
    BY <1>3, <1>4, <1>7, RollBackSteps
  <2>2. Len(done) \in 0..Len(done)
    BY <1>3
  <2> QED BY <1>2, <2>1, <2>2 DEF RollsBack
<1>10. dirty' \subseteq Paths
  <2>1. \A i \in 1..m : done[i].path \in Paths /\ done[i].to \in Paths \union {NoPath}
    BY <1>3 DEF Hunks
  <2>2. DOMAIN done = 1..m
    BY <1>3
  <2> HIDE DEF done
  <2>3. Touched(done) \subseteq Paths
    BY <2>1, <2>2 DEF Touched
  <2> QED BY <1>2, <2>3
<1>11. \A p \in Paths : p \notin dirty' => tree'[p] = tree[p]
  <2> SUFFICES ASSUME NEW p \in Paths, p \notin stuck PROVE tree'[p] = tree[p]
    BY <1>2
  <2>0. m \in 0..Len(hs) /\ tree \in Trees /\ Planned(hs) /\ now \in Trees
    BY <1>3, <1>4, <1>7
  <2>1. (\A i \in 1..m : ~Touches(hs[i], p)) => now[p] = tree[p]
    BY <1>8
  <2> HIDE DEF m
  <2>2. RollBack(now, SubSeq(hs, 1, m), stuck)[p] = tree[p]
    BY <2>0, <2>1, RollBackRestores
  <2> QED BY <1>2, <2>2
<1> QED BY <1>9, <1>10, <1>11

\* The paths of any record, and what a pass can be.
AllEnds == UNION {Ends(i) : i \in DOMAIN log}

\* What a pass over the records has armed and chosen.
PassStates == [armed : SUBSET AllEnds, chosen : SUBSET DOMAIN log]

\* A pass stays one.
LEMMA IncludedFits ==
    ASSUME NEW pass \in PassStates, NEW selected, NEW i \in DOMAIN log
    PROVE  Included(pass, selected, i) \in PassStates
<1>1. pass.armed \subseteq AllEnds /\ pass.chosen \subseteq DOMAIN log /\ Ends(i) \subseteq AllEnds
  BY DEF PassStates, AllEnds
<1> QED BY <1>1 DEF Included, PassStates

\* The passes: nothing at first, and one record more each time.
LEMMA PassSteps ==
    ASSUME log \in Seq(Records), NEW selected
    PROVE  /\ Passes(selected) \in [0..Len(log) -> PassStates] /\ Passes(selected)[0] = [armed |-> {}, chosen |-> {}]
           /\ \A i \in 1..Len(log) : Passes(selected)[i] = Included(Passes(selected)[i - 1], selected, i)
<1> DEFINE n == Len(log)
           none == [armed |-> {}, chosen |-> {}]
           step == [i \in Nat |-> [q \in PassStates |-> IF i \in 1..n THEN Included(q, selected, i) ELSE q]]
           pass == Passes(selected)
<1>0. n \in Nat /\ DOMAIN log = 1..n /\ none \in PassStates
  BY DEF PassStates
<1>1. Stepping(PassStates, step)
  BY <1>0, IncludedFits DEF Stepping
<1>a. PICK f : Iterates(f, PassStates, none, step, n)
  <2> HIDE DEF step, n, none
  <2> QED BY <1>0, <1>1, Recursion
<1>2. f \in [0..n -> PassStates] /\ f[0] = none /\ \A i \in 1..n : f[i] = step[i][f[i - 1]]
  BY <1>a DEF Iterates
<1>3. \A i \in 1..n : f[i] = Included(f[i - 1], selected, i)
  <2> TAKE i \in 1..n
  <2>1. i - 1 \in 0..n /\ f[i - 1] \in PassStates /\ i \in Nat
    BY <1>0, <1>2
  <2>2. step[i] = [q \in PassStates |-> Included(q, selected, i)]
    BY <2>1
  <2> HIDE DEF step, n, none
  <2> QED BY <1>2, <2>1, <2>2
<1>5. pass = [i \in 0..n |-> IF i = 0 THEN none ELSE Included(pass[i - 1], selected, i)]
  <2>1. f = [i \in 0..n |-> IF i = 0 THEN none ELSE Included(f[i - 1], selected, i)]
    <3> HIDE DEF step, n, none
    <3>1. \A i \in 0..n : i = 0 \/ i \in 1..n
      BY <1>0
    <3> QED BY <1>2, <1>3, <3>1
  <2> QED BY <2>1 DEF Passes
<1> HIDE DEF pass, step, n, none
<1>6. DOMAIN pass = 0..n /\ pass[0] = none /\ \A i \in 1..n : pass[i] = Included(pass[i - 1], selected, i)
  BY <1>5, <1>0
<1>7. \A i \in 0..n : pass[i] = f[i]
  <2> DEFINE S == {i \in 0..n : pass[i] = f[i]}
  <2>1. 0 \in S
    BY <1>0, <1>2, <1>6
  <2>2. \A i \in 1..n : i - 1 \in S => i \in S
    BY <1>3, <1>6
  <2> HIDE DEF S
  <2>3. \A i \in 0..n : i \in S
    BY <2>1, <2>2, <1>0, Counting
  <2> QED BY <2>3 DEF S
<1>8. pass = f
  BY <1>2, <1>5, <1>7
<1> QED BY <1>2, <1>6, <1>8 DEF pass, n, none

\* What the first k records make of a selection: none that is undone, and every
\* later change of a path of one that is chosen.
PassFits(pass, k) ==
    /\ pass.chosen \subseteq 1..k /\ pass.chosen \intersect undone = {}
    /\ \A i \in pass.chosen : Ends(i) \subseteq pass.armed
    /\ \A i \in pass.chosen, j \in 1..k : i < j /\ j \notin undone /\ Ends(i) \intersect Ends(j) # {} => j \in pass.chosen

\* A selection with what is undone with it.
LEMMA SelectionCloses ==
    ASSUME log \in Seq(Records), NEW selected, selected \intersect undone = {}
    PROVE  /\ IncludeLater(selected) \subseteq DOMAIN log /\ IncludeLater(selected) \intersect undone = {}
           /\ \A i \in IncludeLater(selected), j \in DOMAIN log :
                 i < j /\ j \notin undone /\ Ends(i) \intersect Ends(j) # {} => j \in IncludeLater(selected)
<1> DEFINE n == Len(log)
           pass == Passes(selected)
           S == {k \in 0..n : PassFits(pass[k], k)}
<1>0. n \in Nat /\ DOMAIN log = 1..n
  OBVIOUS
<1>1. /\ pass \in [0..n -> PassStates] /\ pass[0] = [armed |-> {}, chosen |-> {}]
      /\ \A i \in 1..n : pass[i] = Included(pass[i - 1], selected, i)
  BY PassSteps
<1>2. IncludeLater(selected) = pass[n].chosen
  BY DEF IncludeLater
<1> HIDE DEF pass, n
<1>3. 0 \in S
  BY <1>0, <1>1 DEF PassFits
<1>4. ASSUME NEW k \in 1..n, k - 1 \in S PROVE k \in S
  <2>1. k \in 0..n /\ k - 1 \in 0..n /\ k \in DOMAIN log
    BY <1>0
  <2> DEFINE old == pass[k - 1]
             new == pass[k]
  <2>2. PassFits(old, k - 1) /\ new = Included(old, selected, k)
    BY <1>1, <1>4
  <2> HIDE DEF old, new
  <2>3. CASE k \in selected \/ (k \notin undone /\ Ends(k) \intersect old.armed # {})
    <3>1. new.armed = old.armed \union Ends(k) /\ new.chosen = old.chosen \union {k} /\ k \notin undone
      BY <2>2, <2>3 DEF Included
    <3>2. old.chosen \subseteq 1..(k - 1)
      BY <2>2 DEF PassFits
    <3>3. ASSUME NEW i \in new.chosen, NEW j \in 1..k, i < j, j \notin undone, Ends(i) \intersect Ends(j) # {}
          PROVE  j \in new.chosen
      <4>1. CASE j = k
        BY <4>1, <3>1
      <4>2. CASE j # k
        <5>1. j \in 1..(k - 1) /\ i # k
          BY <4>2, <3>3, <2>1, <1>0, <3>1, <3>2
        <5>2. i \in old.chosen
          BY <5>1, <3>1
        <5> QED BY <5>1, <5>2, <3>3, <3>1, <2>2 DEF PassFits
      <4> QED BY <4>1, <4>2
    <3>4. new.chosen \subseteq 1..k
      BY <3>1, <3>2, <2>1, <1>0
    <3>5. new.chosen \intersect undone = {} /\ \A i \in new.chosen : Ends(i) \subseteq new.armed
      BY <3>1, <2>2 DEF PassFits
    <3>6. PassFits(new, k)
      BY <3>3, <3>4, <3>5 DEF PassFits
    <3> QED BY <2>1, <3>6 DEF new
  <2>4. CASE ~(k \in selected \/ (k \notin undone /\ Ends(k) \intersect old.armed # {}))
    <3>1. new = old
      BY <2>2, <2>4 DEF Included
    <3>2. old.chosen \subseteq 1..(k - 1)
      BY <2>2 DEF PassFits
    <3>3. ASSUME NEW i \in old.chosen, NEW j \in 1..k, i < j, j \notin undone, Ends(i) \intersect Ends(j) # {}
          PROVE  j \in old.chosen
      <4>1. j # k
        BY <3>3, <2>2, <2>4 DEF PassFits
      <4>2. j \in 1..(k - 1)
        BY <4>1, <2>1, <1>0
      <4> QED BY <4>2, <3>3, <2>2 DEF PassFits
    <3>4. old.chosen \subseteq 1..k
      BY <3>2, <2>1, <1>0
    <3>5. PassFits(old, k)
      BY <3>3, <3>4, <2>2 DEF PassFits
    <3> QED BY <2>1, <3>1, <3>5 DEF new
  <2> QED BY <2>3, <2>4
<1> HIDE DEF S
<1>5. \A k \in 0..n : k \in S
  BY <1>0, <1>3, <1>4, Counting
<1>6. PassFits(pass[n], n)
  BY <1>0, <1>5 DEF S
<1> QED BY <1>0, <1>2, <1>6 DEF PassFits

\* The chains of an undo.
Chain == [key : Paths, ids : Seq(DOMAIN log)]

\* What grouping keeps: the chains so far, and where each file is now.
Groups == [chains : Seq(Chain), at : [Paths -> Paths]]

\* A dictionary has a key once.
KeysOnce(d) == \A j, k \in DOMAIN d : d[j].key = d[k].key => j = k

\* Its chains, in no order.
ChainsIn(d) == {d[j] : j \in DOMAIN d}

\* A chain is found by its key.
LEMMA FoundByKey ==
    ASSUME NEW d \in Seq(Chain), KeysOnce(d), NEW k
    PROVE  /\ ChainOf(d, k) \in Seq(DOMAIN log)
           /\ \A c \in ChainsIn(d) : c.key = k => ChainOf(d, k) = c.ids
           /\ (\A c \in ChainsIn(d) : c.key # k) => ChainOf(d, k) = <<>>
<1>1. \A j \in DOMAIN d : d[j].ids \in Seq(DOMAIN log)
  <2>1. \A j \in DOMAIN d : d[j] \in Chain
    OBVIOUS
  <2> QED BY <2>1 DEF Chain
<1>2. CASE k \in Keys(d)
  <2>1. \E j \in DOMAIN d : d[j].key = k
    BY <1>2 DEF Keys
  <2> DEFINE where == CHOOSE j \in DOMAIN d : d[j].key = k
  <2>2. where \in DOMAIN d /\ d[where].key = k
    BY <2>1
  <2>3. ChainOf(d, k) = d[where].ids
    BY <1>2 DEF ChainOf
  <2> HIDE DEF where
  <2>4. \A j \in DOMAIN d : d[j].key = k => j = where
    BY <2>2 DEF KeysOnce
  <2> QED BY <1>1, <2>2, <2>3, <2>4 DEF ChainsIn
<1>3. CASE k \notin Keys(d)
  BY <1>3 DEF Keys, ChainOf, ChainsIn
<1> QED BY <1>2, <1>3

\* Popping a key leaves the other chains.
LEMMA PoppedLeaves ==
    ASSUME NEW d \in Seq(Chain), KeysOnce(d), NEW k
    PROVE  /\ Popped(d, k) \in Seq(Chain) /\ KeysOnce(Popped(d, k))
           /\ ChainsIn(Popped(d, k)) = {c \in ChainsIn(d) : c.key # k}
<1> DEFINE keep == {j \in DOMAIN d : d[j].key # k}
           s == Sublist(d, keep)
<1>1. keep \in SUBSET DOMAIN d
  OBVIOUS
<1> HIDE DEF keep
<1>2. s \in Seq(Chain) /\ Popped(d, k) = s
  BY <1>1, SublistType DEF Popped, keep
<1>3. /\ \A x \in DOMAIN s : Place(keep, x) \in keep /\ s[x] = d[Place(keep, x)]
      /\ \A i \in keep : \E x \in DOMAIN s : Place(keep, x) = i /\ s[x] = d[i]
  BY <1>1, SublistElements
<1>4. KeysOnce(s)
  <2> SUFFICES ASSUME NEW x \in DOMAIN s, NEW y \in DOMAIN s, s[x].key = s[y].key PROVE x = y
    BY DEF KeysOnce
  <2>1. Place(keep, x) = Place(keep, y)
    BY <1>1, <1>3 DEF KeysOnce
  <2>2. x \in Nat /\ y \in Nat /\ \A l \in Nat : ~(l < l)
    <3>1. x \in 1..Len(s) /\ y \in 1..Len(s) /\ Len(s) \in Nat
      BY <1>2
    <3> QED BY <3>1
  <2>3. Place(keep, x) \in Nat
    <3>1. Place(keep, x) \in DOMAIN d
      BY <1>1, <1>3
    <3> QED BY <3>1
  <2>4. ~(x < y)
    BY <1>1, <2>1, <2>2, <2>3, SublistOrder
  <2>5. ~(y < x)
    BY <1>1, <2>1, <2>2, <2>3, SublistOrder
  <2> QED BY <2>2, <2>4, <2>5
<1>5. ChainsIn(s) = {c \in ChainsIn(d) : c.key # k}
  <2>1. ASSUME NEW c \in ChainsIn(s) PROVE c \in ChainsIn(d) /\ c.key # k
    <3>1. PICK x \in DOMAIN s : c = s[x]
      BY <2>1 DEF ChainsIn
    <3> QED BY <3>1, <1>1, <1>3 DEF ChainsIn, keep
  <2>2. ASSUME NEW c \in ChainsIn(d), c.key # k PROVE c \in ChainsIn(s)
    <3>1. PICK j \in DOMAIN d : c = d[j]
      BY <2>2 DEF ChainsIn
    <3>2. j \in keep
      BY <3>1, <2>2 DEF keep
    <3> QED BY <3>1, <3>2, <1>3 DEF ChainsIn
  <2> QED BY <2>1, <2>2
<1> QED BY <1>2, <1>4, <1>5

\* Putting a chain replaces the one of its key.
LEMMA PutReplaces ==
    ASSUME NEW d \in Seq(Chain), KeysOnce(d), NEW k \in Paths, NEW ids \in Seq(DOMAIN log)
    PROVE  /\ Put(d, k, ids) \in Seq(Chain) /\ KeysOnce(Put(d, k, ids))
           /\ ChainsIn(Put(d, k, ids)) = {c \in ChainsIn(d) : c.key # k} \union {[key |-> k, ids |-> ids]}
<1> DEFINE new == [key |-> k, ids |-> ids]
           s == Put(d, k, ids)
<1>0. new \in Chain /\ new.key = k /\ Len(d) \in Nat /\ DOMAIN d = 1..Len(d) /\ \A j \in DOMAIN d : d[j] \in Chain
  <2>1. Len(d) \in Nat /\ DOMAIN d = 1..Len(d) /\ \A j \in DOMAIN d : d[j] \in Chain
    OBVIOUS
  <2>2. new \in Chain /\ new.key = k
    BY DEF Chain
  <2> QED BY <2>1, <2>2
<1>1. CASE k \in Keys(d)
  <2>1. PICK where \in DOMAIN d : d[where].key = k
    BY <1>1 DEF Keys
  <2>2. \A j \in DOMAIN d : d[j].key = k => j = where
    BY <2>1 DEF KeysOnce
  <2>3. [d[where] EXCEPT !.ids = ids] = new
    BY <1>0, <2>1 DEF Chain
  <2>4. s = [j \in DOMAIN d |-> IF j = where THEN new ELSE d[j]]
    <3>1. s = [j \in DOMAIN d |-> IF d[j].key = k THEN [d[j] EXCEPT !.ids = ids] ELSE d[j]]
      BY <1>1 DEF Put
    <3> QED BY <2>1, <2>2, <2>3, <3>1
  <2> HIDE DEF s, new
  <2>5. s \in Seq(Chain) /\ DOMAIN s = DOMAIN d
    BY <1>0, <2>4
  <2>6. \A j \in DOMAIN d : s[j].key = d[j].key
    BY <1>0, <2>1, <2>4
  <2>7. KeysOnce(s)
    BY <2>5, <2>6 DEF KeysOnce
  <2>8. ChainsIn(s) = {c \in ChainsIn(d) : c.key # k} \union {new}
    <3>1. \A j \in DOMAIN d : s[j] = IF j = where THEN new ELSE d[j]
      BY <2>4
    <3>2. ASSUME NEW c \in ChainsIn(s) PROVE c = new \/ (c \in ChainsIn(d) /\ c.key # k)
      <4>1. PICK j \in DOMAIN d : c = s[j]
        BY <2>5 DEF ChainsIn
      <4> QED BY <4>1, <3>1, <2>2 DEF ChainsIn
    <3>3. ASSUME NEW c \in ChainsIn(d), c.key # k PROVE c \in ChainsIn(s)
      <4>1. PICK j \in DOMAIN d : c = d[j]
        BY DEF ChainsIn
      <4> QED BY <4>1, <3>1, <3>3, <2>1, <2>5 DEF ChainsIn
    <3>4. new \in ChainsIn(s)
      BY <3>1, <2>1, <2>5 DEF ChainsIn
    <3> QED BY <3>2, <3>3, <3>4
  <2> QED BY <2>5, <2>7, <2>8 DEF s, new
<1>2. CASE k \notin Keys(d)
  <2>1. \A j \in DOMAIN d : d[j].key # k
    BY <1>2 DEF Keys
  <2>2. s = Append(d, new)
    BY <1>2 DEF Put
  <2> HIDE DEF s, new
  <2>3. /\ s \in Seq(Chain) /\ DOMAIN s = 1..(Len(d) + 1) /\ s[Len(d) + 1] = new
        /\ \A j \in DOMAIN d : s[j] = d[j]
    BY <2>2, <1>0
  <2>4. \A j \in DOMAIN s : j = Len(d) + 1 \/ j \in DOMAIN d
    BY <2>3, <1>0
  <2>5. KeysOnce(s)
    <3> SUFFICES ASSUME NEW x \in DOMAIN s, NEW y \in DOMAIN s, s[x].key = s[y].key PROVE x = y
      BY DEF KeysOnce
    <3> QED BY <1>0, <2>1, <2>3, <2>4 DEF KeysOnce
  <2>6. ChainsIn(s) = ChainsIn(d) \union {new}
    <3>1. \A j \in DOMAIN d : j \in DOMAIN s
      BY <1>0, <2>3
    <3>2. Len(d) + 1 \in DOMAIN s
      BY <1>0, <2>3
    <3> QED BY <2>3, <2>4, <3>1, <3>2 DEF ChainsIn
  <2>7. \A c \in ChainsIn(d) : c.key # k
    BY <2>1 DEF ChainsIn
  <2> QED BY <2>3, <2>5, <2>6, <2>7 DEF s, new
<1> QED BY <1>1, <1>2

\* Where the chain a change joins is found, and where it is put.
Source(s, i) == s.at[IF Moves(i) THEN log[i].from ELSE log[i].path]
\* The key of the chain that a change goes to.
Target(s, i) == IF Moves(i) THEN log[i].path ELSE Source(s, i)

\* What a change makes of the chains.
LEMMA GroupedIs ==
    ASSUME log \in Seq(Records), \A i \in DOMAIN log : MoveFits(log[i]),
           NEW s \in Groups, KeysOnce(s.chains), NEW i \in DOMAIN log
    PROVE  /\ Grouped(s, i) \in Groups /\ KeysOnce(Grouped(s, i).chains)
           /\ ChainsIn(Grouped(s, i).chains) =
                  {c \in ChainsIn(s.chains) : c.key # Source(s, i) /\ c.key # Target(s, i)}
                  \union {[key |-> Target(s, i), ids |-> Append(ChainOf(s.chains, Source(s, i)), i)]}
           /\ \A p \in Paths : Grouped(s, i).at[p] =
                  IF Moves(i) /\ p \in {log[i].from, log[i].path} THEN log[i].path ELSE s.at[p]
<1> DEFINE r == log[i]
           a == Source(s, i)
           ids == Append(ChainOf(s.chains, a), i)
           g == Grouped(s, i)
<1>0. r \in Records /\ MoveFits(r)
  OBVIOUS
<1>1. r.path \in Paths /\ (Moves(i) => r.from \in Paths)
  BY <1>0 DEF Records, MoveFits, Moves
<1>2. s.chains \in Seq(Chain) /\ s.at \in [Paths -> Paths]
  BY DEF Groups
<1>3. a \in Paths
  BY <1>1, <1>2 DEF Source
<1> HIDE DEF a
<1>4. ChainOf(s.chains, a) \in Seq(DOMAIN log)
  BY <1>2, FoundByKey
<1>5. ids \in Seq(DOMAIN log)
  BY <1>4
<1> HIDE DEF ids
<1>6. CASE Moves(i)
  <2>1. /\ g.chains = Put(Popped(s.chains, a), r.path, ids)
        /\ g.at = [s.at EXCEPT ![r.from] = r.path, ![r.path] = r.path]
        /\ g = [chains |-> g.chains, at |-> g.at]
    BY <1>6 DEF Grouped, a, Source, ids
  <2>2. /\ Popped(s.chains, a) \in Seq(Chain) /\ KeysOnce(Popped(s.chains, a))
        /\ ChainsIn(Popped(s.chains, a)) = {c \in ChainsIn(s.chains) : c.key # a}
    BY <1>2, PoppedLeaves
  <2>3. /\ g.chains \in Seq(Chain) /\ KeysOnce(g.chains)
        /\ ChainsIn(g.chains) = {c \in ChainsIn(Popped(s.chains, a)) : c.key # r.path} \union {[key |-> r.path, ids |-> ids]}
    BY <1>1, <1>5, <2>1, <2>2, PutReplaces
  <2>4. Target(s, i) = r.path
    BY <1>6 DEF Target
  <2>5. g.at \in [Paths -> Paths] /\ \A p \in Paths : g.at[p] = IF p \in {r.from, r.path} THEN r.path ELSE s.at[p]
    BY <1>1, <1>2, <1>6, <2>1
  <2>6. g \in Groups
    BY <2>1, <2>3, <2>5 DEF Groups
  <2>7. ChainsIn(g.chains) = {c \in ChainsIn(s.chains) : c.key # a /\ c.key # r.path} \union {[key |-> r.path, ids |-> ids]}
    BY <2>2, <2>3
  <2> HIDE DEF g
  <2> QED BY <1>6, <2>3, <2>4, <2>5, <2>6, <2>7 DEF a, ids, g
<1>7. CASE ~Moves(i)
  <2>1. /\ g.chains = Put(s.chains, a, ids) /\ g.at = s.at /\ g = [chains |-> g.chains, at |-> g.at]
    BY <1>7 DEF Grouped, a, Source, ids
  <2>3. /\ g.chains \in Seq(Chain) /\ KeysOnce(g.chains)
        /\ ChainsIn(g.chains) = {c \in ChainsIn(s.chains) : c.key # a} \union {[key |-> a, ids |-> ids]}
    BY <1>2, <1>3, <1>5, <2>1, PutReplaces
  <2>4. Target(s, i) = a
    BY <1>7 DEF Target, a
  <2>6. g \in Groups
    BY <1>2, <2>1, <2>3 DEF Groups
  <2> HIDE DEF g
  <2> QED BY <1>7, <2>1, <2>3, <2>4, <2>6 DEF a, ids, g
<1> QED BY <1>6, <1>7

\* The groups keep the keys of a dictionary apart.
SoundGroups == {s \in Groups : KeysOnce(s.chains)}

\* The groups: none at first, and a record more each time.
LEMMA GroupSteps ==
    ASSUME log \in Seq(Records), \A i \in DOMAIN log : MoveFits(log[i]), NEW chosen
    PROVE  /\ Groupings(chosen) \in [0..Len(log) -> SoundGroups]
           /\ Groupings(chosen)[0] = [chains |-> <<>>, at |-> [p \in Paths |-> p]]
           /\ \A i \in 1..Len(log) : Groupings(chosen)[i] =
                  IF i \in chosen THEN Grouped(Groupings(chosen)[i - 1], i) ELSE Groupings(chosen)[i - 1]
<1> DEFINE n == Len(log)
           none == [chains |-> <<>>, at |-> [p \in Paths |-> p]]
           Next1(q, i) == IF i \in chosen THEN Grouped(q, i) ELSE q
           step == [i \in Nat |-> [q \in SoundGroups |-> IF i \in 1..n THEN Next1(q, i) ELSE q]]
           group == Groupings(chosen)
<1>0. n \in Nat /\ DOMAIN log = 1..n /\ none \in SoundGroups
  BY DEF SoundGroups, Groups, KeysOnce
<1>1. Stepping(SoundGroups, step)
  BY <1>0, GroupedIs DEF Stepping, SoundGroups
<1>a. PICK f : Iterates(f, SoundGroups, none, step, n)
  <2> HIDE DEF step, n, none
  <2> QED BY <1>0, <1>1, Recursion
<1>2. f \in [0..n -> SoundGroups] /\ f[0] = none /\ \A i \in 1..n : f[i] = step[i][f[i - 1]]
  BY <1>a DEF Iterates
<1>3. \A i \in 1..n : f[i] = Next1(f[i - 1], i)
  <2> TAKE i \in 1..n
  <2>1. i - 1 \in 0..n /\ f[i - 1] \in SoundGroups /\ i \in Nat
    BY <1>0, <1>2
  <2>2. step[i] = [q \in SoundGroups |-> Next1(q, i)]
    BY <2>1
  <2> HIDE DEF step, n, none, Next1
  <2> QED BY <1>2, <2>1, <2>2
<1>5. group = [i \in 0..n |-> IF i = 0 THEN none ELSE Next1(group[i - 1], i)]
  <2>1. f = [i \in 0..n |-> IF i = 0 THEN none ELSE Next1(f[i - 1], i)]
    <3> HIDE DEF step, n, none, Next1
    <3>1. \A i \in 0..n : i = 0 \/ i \in 1..n
      BY <1>0
    <3> QED BY <1>2, <1>3, <3>1
  <2> QED BY <2>1 DEF Groupings
<1> HIDE DEF group, step, n, none, Next1
<1>6. DOMAIN group = 0..n /\ group[0] = none /\ \A i \in 1..n : group[i] = Next1(group[i - 1], i)
  BY <1>5, <1>0
<1>7. \A i \in 0..n : group[i] = f[i]
  <2> DEFINE S == {i \in 0..n : group[i] = f[i]}
  <2>1. 0 \in S
    BY <1>0, <1>2, <1>6
  <2>2. \A i \in 1..n : i - 1 \in S => i \in S
    BY <1>3, <1>6
  <2> HIDE DEF S
  <2>3. \A i \in 0..n : i \in S
    BY <2>1, <2>2, <1>0, Counting
  <2> QED BY <2>3 DEF S
<1>8. group = f
  BY <1>2, <1>5, <1>7
<1> QED BY <1>2, <1>6, <1>8 DEF group, n, none, Next1

\* Where a path is now is that path, or one that a chosen change is recorded for.
\* The chains are of chosen changes, each under such a path; and unless a file
\* was moved over another chain, all of them are in one.
GroupFits(s, chosen, k) ==
    /\ \A c \in ChainsIn(s.chains) : c.ids # <<>> /\ \A x \in DOMAIN c.ids : c.ids[x] \in chosen /\ c.ids[x] \in 1..k
    /\ \A c \in ChainsIn(s.chains) : \E j \in chosen : j \in 1..k /\ c.key = log[j].path
    /\ \A p \in Paths : s.at[p] = p \/ \E j \in chosen : j \in 1..k /\ s.at[p] = log[j].path
    /\ ~MovedOver(chosen) =>
          \A j \in chosen : j \in 1..k => \E c \in ChainsIn(s.chains) : \E x \in DOMAIN c.ids : c.ids[x] = j

\* A change that joins keeps what the groups are.
LEMMA GroupedFits ==
    ASSUME log \in Seq(Records), \A i \in DOMAIN log : MoveFits(log[i]),
           NEW chosen \in SUBSET DOMAIN log, NEW k \in chosen, NEW s \in SoundGroups, GroupFits(s, chosen, k - 1)
    PROVE  GroupFits(Grouped(s, k), chosen, k)
<1> DEFINE g == Grouped(s, k)
           a == Source(s, k)
           to == Target(s, k)
           q == ChainOf(s.chains, a)
           new == [key |-> to, ids |-> Append(q, k)]
           C == ChainsIn(s.chains)
           D == ChainsIn(g.chains)
<1>0. /\ k \in DOMAIN log /\ k \in Nat /\ k >= 1 /\ s \in Groups /\ KeysOnce(s.chains)
      /\ s.chains \in Seq(Chain) /\ s.at \in [Paths -> Paths] /\ log[k] \in Records /\ MoveFits(log[k])
  <2>1. DOMAIN log = 1..Len(log) /\ Len(log) \in Nat
    OBVIOUS
  <2>2. k \in DOMAIN log /\ s \in Groups /\ KeysOnce(s.chains)
    BY DEF SoundGroups
  <2> QED BY <2>1, <2>2 DEF Groups
<1>1. /\ D = {c \in C : c.key # a /\ c.key # to} \union {new}
      /\ \A p \in Paths : g.at[p] = IF Moves(k) /\ p \in {log[k].from, log[k].path} THEN log[k].path ELSE s.at[p]
  BY <1>0, GroupedIs
<1>2. q \in Seq(DOMAIN log) /\ (\A c \in C : c.key = a => q = c.ids) /\ ((\A c \in C : c.key # a) => q = <<>>)
  BY <1>0, FoundByKey
<1>3. /\ Len(q) \in Nat /\ DOMAIN q = 1..Len(q) /\ DOMAIN new.ids = 1..(Len(q) + 1)
      /\ new.ids[Len(q) + 1] = k /\ \A x \in DOMAIN q : new.ids[x] = q[x]
  BY <1>2
<1>4. \A x \in DOMAIN new.ids : x \in DOMAIN q \/ x = Len(q) + 1
  BY <1>3
<1>5. a = (IF Moves(k) THEN s.at[log[k].from] ELSE s.at[log[k].path]) /\ to = IF Moves(k) THEN log[k].path ELSE a
  BY DEF Source, Target
<1>6. log[k].path \in Paths /\ (Moves(k) => log[k].from \in Paths)
  BY <1>0 DEF Records, MoveFits, Moves
<1>7. \A x \in 1..(k - 1) : x \in 1..k
  BY <1>0
<1>8. k \in 1..k /\ 1 \in DOMAIN new.ids /\ Len(q) + 1 \in DOMAIN new.ids
  BY <1>0, <1>3
<1> HIDE DEF g, a, to, q, C, D
<1>11. \A c \in D : c.ids # <<>> /\ \A x \in DOMAIN c.ids : c.ids[x] \in chosen /\ c.ids[x] \in 1..k
  <2>1. \A x \in DOMAIN q : q[x] \in chosen /\ q[x] \in 1..(k - 1)
    <3>1. CASE \A c \in C : c.key # a
      BY <3>1, <1>2
    <3>2. CASE \E c \in C : c.key = a
      BY <3>2, <1>2 DEF GroupFits, C
    <3> QED BY <3>1, <3>2
  <2>2. \A x \in DOMAIN new.ids : new.ids[x] \in chosen /\ new.ids[x] \in 1..k
    BY <2>1, <1>3, <1>4, <1>7, <1>8
  <2>3. new.ids # <<>>
    BY <1>8
  <2>4. \A c \in C : c.ids # <<>> /\ \A x \in DOMAIN c.ids : c.ids[x] \in chosen /\ c.ids[x] \in 1..k
    BY <1>7 DEF GroupFits, C
  <2> HIDE DEF new
  <2> QED BY <1>1, <2>2, <2>3, <2>4
<1>12. \A c \in D : \E j \in chosen : j \in 1..k /\ c.key = log[j].path
  <2>1. \A c \in C : \E j \in chosen : j \in 1..k /\ c.key = log[j].path
    BY <1>7 DEF GroupFits, C
  <2>2. \E j \in chosen : j \in 1..k /\ to = log[j].path
    <3>1. CASE Moves(k)
      BY <3>1, <1>5, <1>8
    <3>2. CASE ~Moves(k)
      <4>1. to = s.at[log[k].path]
        BY <3>2, <1>5
      <4>2. s.at[log[k].path] = log[k].path \/ \E j \in chosen : j \in 1..(k - 1) /\ s.at[log[k].path] = log[j].path
        BY <1>6 DEF GroupFits
      <4> QED BY <4>1, <4>2, <1>7, <1>8
    <3> QED BY <3>1, <3>2
  <2>3. new.key = to
    OBVIOUS
  <2> HIDE DEF new
  <2> QED BY <1>1, <2>1, <2>2, <2>3
<1>13. \A p \in Paths : g.at[p] = p \/ \E j \in chosen : j \in 1..k /\ g.at[p] = log[j].path
  BY <1>1, <1>7, <1>8 DEF GroupFits
<1>14. ASSUME ~MovedOver(chosen), NEW j \in chosen, j \in 1..k
       PROVE  \E c \in D : \E x \in DOMAIN c.ids : c.ids[x] = j
  <2>0. new \in D
    BY <1>1
  <2>1. CASE j = k
    BY <2>0, <2>1, <1>3, <1>8
  <2>2. CASE j # k
    <3>1. j \in 1..(k - 1)
      BY <2>2, <1>14, <1>0
    <3>2. PICK c \in C : \E x \in DOMAIN c.ids : c.ids[x] = j
      BY <3>1, <1>14 DEF GroupFits, C
    <3>3. PICK x \in DOMAIN c.ids : c.ids[x] = j
      BY <3>2
    <3>4. CASE c.key = a
      <4>1. q = c.ids
        BY <3>2, <3>4, <1>2
      <4>2. x \in DOMAIN new.ids /\ new.ids[x] = j
        BY <4>1, <3>3, <1>3
      <4> QED BY <4>2, <2>0
    <3>5. CASE c.key # a
      <4>1. c.key # to
        <5>1. CASE ~Moves(k)
          BY <5>1, <3>5, <1>5
        <5>2. CASE Moves(k)
          <6>1. PICK i \in chosen : i \in 1..(k - 1) /\ c.key = log[i].path
            BY <3>2 DEF GroupFits, C
          <6>2. i < k
            BY <6>1, <1>0
          <6>3. log[k].path # log[i].path
            BY <6>1, <6>2, <5>2, <1>14 DEF MovedOver
          <6> QED BY <6>1, <6>3, <5>2, <1>5
        <5> QED BY <5>1, <5>2
      <4>2. c \in D
        BY <4>1, <3>5, <3>2, <1>1
      <4> QED BY <4>2, <3>3
    <3> QED BY <3>4, <3>5
  <2> QED BY <2>1, <2>2
<1> QED BY <1>11, <1>12, <1>13, <1>14 DEF GroupFits, g, D

\* A chain of one move, and a chain of changes that move nothing.
OneMove(c) == DOMAIN c.ids = {1} /\ Moves(c.ids[1]) /\ c.key = log[c.ids[1]].path

\* A chain of changes to one path, in their order, none of them a move.
InPlace(c) ==
    /\ \A x \in DOMAIN c.ids : ~Moves(c.ids[x]) /\ c.key = log[c.ids[x]].path
    /\ \A x, y \in DOMAIN c.ids : x < y => c.ids[x] < c.ids[y]

\* Without a tangle a path is elsewhere only if it was moved, and no chain has
\* a move and another change.
GroupPlain(s, chosen, k) ==
    /\ \A p \in Paths : s.at[p] = p \/ \E j \in chosen : j \in 1..k /\ Moves(j) /\ log[j].from = p
    /\ \A c \in ChainsIn(s.chains) : OneMove(c) \/ InPlace(c)

\* A change that joins keeps the groups plain.
LEMMA GroupedPlain ==
    ASSUME log \in Seq(Records), \A i \in DOMAIN log : MoveFits(log[i]),
           NEW chosen \in SUBSET DOMAIN log, ~Tangled(chosen), NEW k \in chosen, NEW s \in SoundGroups,
           GroupFits(s, chosen, k - 1), GroupPlain(s, chosen, k - 1)
    PROVE  GroupPlain(Grouped(s, k), chosen, k)
<1> DEFINE g == Grouped(s, k)
           a == Source(s, k)
           to == Target(s, k)
           q == ChainOf(s.chains, a)
           new == [key |-> to, ids |-> Append(q, k)]
           C == ChainsIn(s.chains)
           D == ChainsIn(g.chains)
<1>0. /\ k \in DOMAIN log /\ k \in Nat /\ k >= 1 /\ s \in Groups /\ KeysOnce(s.chains)
      /\ s.chains \in Seq(Chain) /\ s.at \in [Paths -> Paths] /\ log[k] \in Records /\ MoveFits(log[k])
  <2>1. DOMAIN log = 1..Len(log) /\ Len(log) \in Nat
    OBVIOUS
  <2>2. k \in DOMAIN log /\ s \in Groups /\ KeysOnce(s.chains)
    BY DEF SoundGroups
  <2> QED BY <2>1, <2>2 DEF Groups
<1>1. /\ D = {c \in C : c.key # a /\ c.key # to} \union {new}
      /\ \A p \in Paths : g.at[p] = IF Moves(k) /\ p \in {log[k].from, log[k].path} THEN log[k].path ELSE s.at[p]
  BY <1>0, GroupedIs
<1>2. q \in Seq(DOMAIN log) /\ (\A c \in C : c.key = a => q = c.ids) /\ ((\A c \in C : c.key # a) => q = <<>>)
  BY <1>0, FoundByKey
<1>3. /\ Len(q) \in Nat /\ DOMAIN q = 1..Len(q) /\ DOMAIN new.ids = 1..(Len(q) + 1)
      /\ new.ids[Len(q) + 1] = k /\ \A x \in DOMAIN q : new.ids[x] = q[x]
  BY <1>2
<1>5. a = (IF Moves(k) THEN s.at[log[k].from] ELSE s.at[log[k].path]) /\ to = IF Moves(k) THEN log[k].path ELSE a
  BY DEF Source, Target
<1>6. log[k].path \in Paths /\ (Moves(k) => log[k].from \in Paths)
  BY <1>0 DEF Records, MoveFits, Moves
<1>7. \A x \in 1..(k - 1) : x \in 1..k /\ x # k /\ x < k
  BY <1>0
<1>8. k \in 1..k
  BY <1>0
<1>9. ASSUME NEW j \in chosen, j # k PROVE (Moves(j) \/ Moves(k)) => Ends(j) \intersect Ends(k) = {}
  BY <1>9 DEF Tangled
<1> HIDE DEF g, a, to, q, C, D
<1>b. \A c \in C : \E j \in chosen : j \in 1..(k - 1) /\ c.key \in Ends(j) /\ (OneMove(c) => Moves(j))
  <2> SUFFICES ASSUME NEW c \in C PROVE \E j \in chosen : j \in 1..(k - 1) /\ c.key \in Ends(j) /\ (OneMove(c) => Moves(j))
    OBVIOUS
  <2>1. CASE OneMove(c)
    <3>1. 1 \in DOMAIN c.ids /\ c.ids[1] \in chosen /\ c.ids[1] \in 1..(k - 1) /\ Moves(c.ids[1]) /\ c.key = log[c.ids[1]].path
      BY <2>1 DEF OneMove, GroupFits, C
    <3> QED BY <3>1 DEF Ends
  <2>2. CASE ~OneMove(c)
    <3>1. PICK j \in chosen : j \in 1..(k - 1) /\ c.key = log[j].path
      BY DEF GroupFits, C
    <3> QED BY <2>2, <3>1 DEF Ends
  <2> QED BY <2>1, <2>2
<1>11. ASSUME NEW p \in Paths PROVE g.at[p] = p \/ \E j \in chosen : j \in 1..k /\ Moves(j) /\ log[j].from = p
  <2>1. CASE Moves(k) /\ p = log[k].from
    BY <2>1, <1>8
  <2>2. CASE Moves(k) /\ p = log[k].path
    BY <2>2, <1>1
  <2>3. CASE ~(Moves(k) /\ p \in {log[k].from, log[k].path})
    BY <2>3, <1>1, <1>7 DEF GroupPlain
  <2> QED BY <2>1, <2>2, <2>3
<1>12. OneMove(new) \/ InPlace(new)
  <2>1. CASE Moves(k)
    <3>1. a = log[k].from
      <4>1. s.at[log[k].from] = log[k].from \/ \E j \in chosen : j \in 1..(k - 1) /\ Moves(j) /\ log[j].from = log[k].from
        BY <2>1, <1>6 DEF GroupPlain
      <4>2. ASSUME NEW j \in chosen, j \in 1..(k - 1), Moves(j), log[j].from = log[k].from PROVE FALSE
        <5>1. log[k].from \in Ends(j) \intersect Ends(k)
          BY <4>2, <2>1 DEF Ends
        <5> QED BY <5>1, <4>2, <1>7, <1>9
      <4> QED BY <4>1, <4>2, <2>1, <1>5
    <3>2. \A c \in C : c.key # a
      <4> SUFFICES ASSUME NEW c \in C, c.key = a PROVE FALSE
        OBVIOUS
      <4>1. PICK j \in chosen : j \in 1..(k - 1) /\ c.key \in Ends(j)
        BY <1>b
      <4>2. a \in Ends(k)
        BY <3>1, <2>1 DEF Ends
      <4> QED BY <4>1, <4>2, <1>7, <1>9, <2>1
    <3>3. Len(q) = 0
      BY <3>2, <1>2
    <3>4. DOMAIN new.ids = {1} /\ new.ids[1] = k /\ new.key = log[k].path
      BY <3>3, <1>3, <1>5, <2>1
    <3> QED BY <3>4, <2>1 DEF OneMove
  <2>2. CASE ~Moves(k)
    <3>1. a = log[k].path
      <4>1. s.at[log[k].path] = log[k].path \/ \E j \in chosen : j \in 1..(k - 1) /\ Moves(j) /\ log[j].from = log[k].path
        BY <1>6 DEF GroupPlain
      <4>2. ASSUME NEW j \in chosen, j \in 1..(k - 1), Moves(j), log[j].from = log[k].path PROVE FALSE
        <5>1. log[k].path \in Ends(j) \intersect Ends(k)
          BY <4>2 DEF Ends
        <5> QED BY <5>1, <4>2, <1>7, <1>9
      <4> QED BY <4>1, <4>2, <2>2, <1>5
    <3>2. new.key = log[k].path
      BY <3>1, <2>2, <1>5
    <3>3. /\ \A x \in DOMAIN q : ~Moves(q[x]) /\ log[q[x]].path = log[k].path /\ q[x] < k
          /\ \A x, y \in DOMAIN q : x < y => q[x] < q[y]
      <4>1. CASE \A c \in C : c.key # a
        BY <4>1, <1>2
      <4>2. CASE \E c \in C : c.key = a
        <5>1. PICK c \in C : c.key = a
          BY <4>2
        <5>2. q = c.ids
          BY <5>1, <1>2
        <5>3. ~OneMove(c)
          <6>1. PICK j \in chosen : j \in 1..(k - 1) /\ c.key \in Ends(j) /\ (OneMove(c) => Moves(j))
            BY <1>b
          <6>2. a \in Ends(k)
            BY <3>1 DEF Ends
          <6> QED BY <5>1, <6>1, <6>2, <1>7, <1>9
        <5>4. InPlace(c)
          BY <5>3 DEF GroupPlain, C
        <5>5. \A x \in DOMAIN c.ids : c.ids[x] \in 1..(k - 1)
          BY DEF GroupFits, C
        <5> QED BY <5>1, <5>2, <5>4, <5>5, <3>1, <1>7 DEF InPlace
      <4> QED BY <4>1, <4>2
    <3>4. ASSUME NEW x \in DOMAIN new.ids PROVE ~Moves(new.ids[x]) /\ new.key = log[new.ids[x]].path
      BY <3>2, <3>3, <2>2, <1>3
    <3>5. ASSUME NEW x \in DOMAIN new.ids, NEW y \in DOMAIN new.ids, x < y PROVE new.ids[x] < new.ids[y]
      <4>1. x \in DOMAIN q /\ (y \in DOMAIN q \/ y = Len(q) + 1)
        BY <1>3, <3>5
      <4> QED BY <4>1, <3>3, <3>5, <1>3
    <3> HIDE DEF new
    <3> QED BY <3>4, <3>5 DEF InPlace
  <2> QED BY <2>1, <2>2
<1>13. \A c \in D : OneMove(c) \/ InPlace(c)
  <2> HIDE DEF new
  <2> QED BY <1>1, <1>12 DEF GroupPlain, C
<1> QED BY <1>11, <1>13 DEF GroupPlain, g, D

\* The chains of a selection.
LEMMA ChainsOfSelection ==
    ASSUME log \in Seq(Records), \A i \in DOMAIN log : MoveFits(log[i]), NEW chosen \in SUBSET DOMAIN log
    PROVE  /\ ChainGroups(chosen) \in Seq(Chain) /\ KeysOnce(ChainGroups(chosen))
           /\ GroupFits(Groupings(chosen)[Len(log)], chosen, Len(log))
           /\ ~Tangled(chosen) => GroupPlain(Groupings(chosen)[Len(log)], chosen, Len(log))
<1> DEFINE n == Len(log)
           group == Groupings(chosen)
           S == {k \in 0..n : GroupFits(group[k], chosen, k) /\ (~Tangled(chosen) => GroupPlain(group[k], chosen, k))}
<1>0. n \in Nat /\ DOMAIN log = 1..n
  OBVIOUS
<1>1. /\ group \in [0..n -> SoundGroups] /\ group[0] = [chains |-> <<>>, at |-> [p \in Paths |-> p]]
      /\ \A i \in 1..n : group[i] = IF i \in chosen THEN Grouped(group[i - 1], i) ELSE group[i - 1]
  BY GroupSteps
<1> HIDE DEF group, n
<1>2. 0 \in S
  <2>1. ChainsIn(group[0].chains) = {} /\ \A p \in Paths : group[0].at[p] = p
    BY <1>1 DEF ChainsIn
  <2>2. ~ \E j \in chosen : j \in 1..0
    OBVIOUS
  <2> QED BY <1>0, <2>1, <2>2 DEF GroupFits, GroupPlain
<1>3. ASSUME NEW k \in 1..n, k - 1 \in S PROVE k \in S
  <2>1. k \in 0..n /\ k - 1 \in 0..n /\ group[k - 1] \in SoundGroups
    BY <1>0, <1>1
  <2>2. CASE k \in chosen
    <3>1. group[k] = Grouped(group[k - 1], k)
      BY <1>1, <2>2
    <3>2. GroupFits(group[k], chosen, k)
      BY <1>3, <2>1, <2>2, <3>1, GroupedFits
    <3>3. ~Tangled(chosen) => GroupPlain(group[k], chosen, k)
      BY <1>3, <2>1, <2>2, <3>1, GroupedPlain
    <3> QED BY <2>1, <3>2, <3>3
  <2>3. CASE k \notin chosen
    <3>1. group[k] = group[k - 1]
      BY <1>1, <2>3
    <3>2. \A j \in chosen : j \in 1..k <=> j \in 1..(k - 1)
      BY <1>0, <2>3
    <3>3. \A j : j \in 1..(k - 1) => j \in 1..k
      BY <1>0
    <3>4. GroupFits(group[k], chosen, k)
      BY <1>3, <3>1, <3>2, <3>3 DEF GroupFits
    <3>5. ~Tangled(chosen) => GroupPlain(group[k], chosen, k)
      BY <1>3, <3>1, <3>2, <3>3 DEF GroupPlain
    <3> QED BY <2>1, <3>4, <3>5
  <2> QED BY <2>2, <2>3
<1> HIDE DEF S
<1>4. \A k \in 0..n : k \in S
  BY <1>0, <1>2, <1>3, Counting
<1>5. n \in S /\ n \in 0..n
  BY <1>0, <1>4
<1>6. group[n] \in SoundGroups /\ ChainGroups(chosen) = group[n].chains
  BY <1>1, <1>5 DEF ChainGroups, group, n
<1> QED BY <1>5, <1>6 DEF S, SoundGroups, Groups, group, n

\* The paths that undoing a chain changes.
Affects(c, p) == p = c.key \/ (Moves(c.ids[1]) /\ p = log[c.ids[1]].from)

\* Chains that are not empty.
Links == {c \in Chain : c.ids # <<>>}

\* A chain begins with a record.
LEMMA LinkBegins ==
    ASSUME log \in Seq(Records), \A i \in DOMAIN log : MoveFits(log[i]), NEW c \in Links
    PROVE  /\ c.key \in Paths /\ c.ids[1] \in DOMAIN log /\ 1 \in DOMAIN c.ids
           /\ log[c.ids[1]] \in Records /\ MoveFits(log[c.ids[1]])
<1>1. c.key \in Paths /\ c.ids \in Seq(DOMAIN log) /\ c.ids # <<>>
  BY DEF Links, Chain
<1>2. 1 \in DOMAIN c.ids /\ c.ids[1] \in DOMAIN log
  BY <1>1
<1> QED BY <1>1, <1>2

\* Undoing a chain leaves a tree, and the other paths alone.
LEMMA RestoreFits ==
    ASSUME log \in Seq(Records), \A i \in DOMAIN log : MoveFits(log[i]), NEW c \in Links, NEW t \in Trees
    PROVE  /\ Restore(t, c.key, log[c.ids[1]]) \in Trees
           /\ \A p \in Paths : ~Affects(c, p) => Restore(t, c.key, log[c.ids[1]])[p] = t[p]
<1> DEFINE e == log[c.ids[1]]
<1>1. c.key \in Paths /\ e \in Records /\ MoveFits(e)
  BY LinkBegins
<1>2. e.before \in Bodies \union {NoFile} /\ (e.action = "move" => e.from \in Paths) /\ (Moves(c.ids[1]) <=> e.action = "move")
  BY <1>1 DEF Records, MoveFits, Moves
<1> HIDE DEF e
<1>3. CASE e.action = "create" \/ e.before = NoFile
  <2>1. Restore(t, c.key, e) = [t EXCEPT ![c.key] = NoFile]
    BY <1>3 DEF Restore
  <2> QED BY <1>1, <2>1 DEF Trees, Affects, e
<1>4. CASE ~(e.action = "create" \/ e.before = NoFile)
  <2> DEFINE target == IF e.action = "move" THEN e.from ELSE c.key
  <2>1. Restore(t, c.key, e) = [p \in Paths |-> IF p = target THEN e.before
                                                ELSE IF p = c.key /\ e.action = "move" THEN NoFile ELSE t[p]]
    BY <1>4 DEF Restore
  <2>2. \A p \in Paths : ~Affects(c, p) => p # target /\ p # c.key
    BY <1>2 DEF Affects, e
  <2>3. \A p \in Paths : t[p] \in Bodies \union {NoFile}
    BY DEF Trees
  <2> HIDE DEF target
  <2>4. Restore(t, c.key, e) \in Trees
    BY <1>2, <2>1, <2>3 DEF Trees
  <2> QED BY <2>1, <2>2, <2>4 DEF e
<1> QED BY <1>3, <1>4

\* Undoing a chain of one move puts the file back; undoing changes in place
\* restores what was there before the first.
LEMMA RestoreIs ==
    ASSUME log \in Seq(Records), \A i \in DOMAIN log : MoveFits(log[i]), NEW c \in Links, NEW t \in Trees,
           NEW e, e = log[c.ids[1]]
    PROVE  /\ OneMove(c) => /\ Restore(t, c.key, e)[e.from] = e.before
                            /\ Restore(t, c.key, e)[c.key] = NoFile
           /\ e.action # "move" => Restore(t, c.key, e)[c.key] = IF e.action = "create" THEN NoFile ELSE e.before
<1>1. c.key \in Paths /\ e \in Records /\ MoveFits(e) /\ DOMAIN t = Paths /\ (Moves(c.ids[1]) <=> e.action = "move")
  BY LinkBegins DEF Trees, Moves
<1>2. CASE e.action = "move" /\ OneMove(c)
  <2>1. e.from \in Paths /\ e.from # c.key /\ e.before # NoFile
    BY <1>1, <1>2 DEF MoveFits, OneMove
  <2> QED BY <1>1, <1>2, <2>1 DEF Restore
<1>3. CASE e.action # "move"
  <2>1. ~OneMove(c)
    BY <1>1, <1>3 DEF OneMove
  <2>2. CASE e.action = "create" \/ e.before = NoFile
    BY <1>1, <1>3, <2>1, <2>2 DEF Restore
  <2>3. CASE ~(e.action = "create" \/ e.before = NoFile)
    BY <1>1, <1>3, <2>1, <2>3 DEF Restore
  <2> QED BY <2>2, <2>3
<1> QED BY <1>1, <1>2, <1>3

\* The trees of an undo: the one at first, and one after each chain.
LEMMA RestoredSteps ==
    ASSUME tree \in Trees, log \in Seq(Records), \A i \in DOMAIN log : MoveFits(log[i]), NEW d \in Seq(Links)
    PROVE  /\ Restored(d) \in [0..Len(d) -> Trees] /\ Restored(d)[0] = tree
           /\ \A j \in 1..Len(d) : Restored(d)[j] = Restore(Restored(d)[j - 1], d[j].key, log[d[j].ids[1]])
<1> DEFINE n == Len(d)
           Back(q, j) == Restore(q, d[j].key, log[d[j].ids[1]])
           step == [j \in Nat |-> [q \in Trees |-> IF j \in 1..n THEN Back(q, j) ELSE q]]
           t == Restored(d)
<1>0. n \in Nat /\ \A j \in 1..n : d[j] \in Links
  OBVIOUS
<1>1. Stepping(Trees, step)
  <2>1. \A j \in 1..n : \A q \in Trees : Back(q, j) \in Trees
    BY <1>0, RestoreFits
  <2> HIDE DEF Back, n
  <2> QED BY <2>1 DEF Stepping
<1>a. PICK f : Iterates(f, Trees, tree, step, n)
  <2> HIDE DEF step, n, Back
  <2> QED BY <1>0, <1>1, Recursion
<1>2. f \in [0..n -> Trees] /\ f[0] = tree /\ \A j \in 1..n : f[j] = step[j][f[j - 1]]
  BY <1>a DEF Iterates
<1>3. \A j \in 1..n : f[j] = Back(f[j - 1], j)
  <2> TAKE j \in 1..n
  <2>1. j - 1 \in 0..n /\ f[j - 1] \in Trees /\ j \in Nat
    BY <1>0, <1>2
  <2>2. step[j] = [q \in Trees |-> Back(q, j)]
    BY <2>1
  <2> HIDE DEF step, n, Back
  <2> QED BY <1>2, <2>1, <2>2
<1>5. t = [j \in 0..n |-> IF j = 0 THEN tree ELSE Back(t[j - 1], j)]
  <2>1. f = [j \in 0..n |-> IF j = 0 THEN tree ELSE Back(f[j - 1], j)]
    <3> HIDE DEF step, n, Back
    <3>1. \A j \in 0..n : j = 0 \/ j \in 1..n
      BY <1>0
    <3> QED BY <1>2, <1>3, <3>1
  <2> QED BY <2>1 DEF Restored
<1> HIDE DEF t, step, n, Back
<1>6. DOMAIN t = 0..n /\ t[0] = tree /\ \A j \in 1..n : t[j] = Back(t[j - 1], j)
  BY <1>5, <1>0
<1>7. \A j \in 0..n : t[j] = f[j]
  <2> DEFINE S == {j \in 0..n : t[j] = f[j]}
  <2>1. 0 \in S
    BY <1>0, <1>2, <1>6
  <2>2. \A j \in 1..n : j - 1 \in S => j \in S
    BY <1>3, <1>6
  <2> HIDE DEF S
  <2>3. \A j \in 0..n : j \in S
    BY <2>1, <2>2, <1>0, Counting
  <2> QED BY <2>3 DEF S
<1>8. t = f
  BY <1>2, <1>5, <1>7
<1> QED BY <1>2, <1>6, <1>8 DEF t, n, Back

\* A path that no chain affects stays.
LEMMA RestoredSpares ==
    ASSUME tree \in Trees, log \in Seq(Records), \A i \in DOMAIN log : MoveFits(log[i]), NEW d \in Seq(Links),
           NEW p \in Paths, \A j \in DOMAIN d : ~Affects(d[j], p)
    PROVE  Restored(d)[Len(d)][p] = tree[p]
<1> DEFINE n == Len(d)
           t == Restored(d)
<1>0. n \in Nat /\ DOMAIN d = 1..n /\ \A j \in 1..n : d[j] \in Links /\ j \in 0..n /\ j - 1 \in 0..n
  OBVIOUS
<1>1. t \in [0..n -> Trees] /\ t[0] = tree /\ \A j \in 1..n : t[j] = Restore(t[j - 1], d[j].key, log[d[j].ids[1]])
  BY RestoredSteps
<1> HIDE DEF t, n
<1>2. ASSUME NEW j \in 1..n, ~Affects(d[j], p) PROVE t[j][p] = t[j - 1][p]
  <2>1. t[j - 1] \in Trees /\ d[j] \in Links
    BY <1>0, <1>1
  <2>2. Restore(t[j - 1], d[j].key, log[d[j].ids[1]])[p] = t[j - 1][p]
    BY <1>2, <2>1, RestoreFits
  <2> QED BY <1>1, <2>2
<1> DEFINE S == {j \in 0..n : t[j][p] = tree[p]}
<1>3. 0 \in S
  BY <1>0, <1>1
<1>4. \A j \in 1..n : j - 1 \in S => j \in S
  BY <1>0, <1>2
<1> HIDE DEF S
<1>5. \A j \in 0..n : j \in S
  BY <1>0, <1>3, <1>4, Counting
<1>6. n \in S
  BY <1>0, <1>5
<1> QED BY <1>6 DEF S, t, n

\* A path that a single chain affects is what undoing that chain makes of it.
LEMMA RestoredIs ==
    ASSUME tree \in Trees, log \in Seq(Records), \A i \in DOMAIN log : MoveFits(log[i]), NEW d \in Seq(Links),
           NEW p \in Paths, NEW k \in DOMAIN d, \A j \in DOMAIN d : j # k => ~Affects(d[j], p),
           NEW v, \A q \in Trees : Restore(q, d[k].key, log[d[k].ids[1]])[p] = v
    PROVE  Restored(d)[Len(d)][p] = v
<1> DEFINE n == Len(d)
           t == Restored(d)
<1>0. n \in Nat /\ DOMAIN d = 1..n /\ \A j \in 1..n : d[j] \in Links /\ j \in 0..n /\ j - 1 \in 0..n
  OBVIOUS
<1>1. t \in [0..n -> Trees] /\ t[0] = tree /\ \A j \in 1..n : t[j] = Restore(t[j - 1], d[j].key, log[d[j].ids[1]])
  BY RestoredSteps
<1> HIDE DEF t, n
<1>2. ASSUME NEW j \in 1..n, ~Affects(d[j], p) PROVE t[j][p] = t[j - 1][p]
  <2>1. t[j - 1] \in Trees /\ d[j] \in Links
    BY <1>0, <1>1
  <2>2. Restore(t[j - 1], d[j].key, log[d[j].ids[1]])[p] = t[j - 1][p]
    BY <1>2, <2>1, RestoreFits
  <2> QED BY <1>1, <2>2
<1> DEFINE S == {j \in 0..n : j >= k => t[j][p] = v}
<1>3. k \in 1..n /\ k \in Nat /\ k >= 1
  BY <1>0
<1>4. 0 \in S
  BY <1>0, <1>3
<1>5. ASSUME NEW j \in 1..n, j - 1 \in S PROVE j \in S
  <2>1. CASE j < k
    BY <2>1, <1>0, <1>3
  <2>2. CASE j = k
    <3>1. t[j - 1] \in Trees
      BY <1>0, <1>1
    <3>2. t[j][p] = v
      BY <3>1, <2>2, <1>1
    <3> QED BY <3>2, <1>0
  <2>3. CASE j > k
    <3>1. t[j][p] = t[j - 1][p]
      BY <2>3, <1>0, <1>2, <1>3
    <3>2. j - 1 >= k
      BY <2>3, <1>3
    <3> QED BY <3>1, <3>2, <1>5, <1>0
  <2> QED BY <2>1, <2>2, <2>3, <1>3
<1> HIDE DEF S
<1>6. \A j \in 0..n : j \in S
  BY <1>0, <1>4, <1>5, Counting
<1>7. n \in S /\ n >= k
  BY <1>0, <1>3, <1>6
<1> QED BY <1>7 DEF S, t, n

\* What is undone with a selection, and its chains.
LEMMA UndoFits ==
    ASSUME FcInv, NEW s, NEW chosen, chosen = Chosen(s), NEW d, d = ChainGroups(chosen)
    PROVE  /\ chosen \in SUBSET DOMAIN log /\ chosen \intersect undone = {}
           /\ \A i \in chosen, j \in DOMAIN log : i < j /\ j \notin undone /\ Ends(i) \intersect Ends(j) # {} => j \in chosen
           /\ d \in Seq(Links) /\ KeysOnce(d)
           /\ \A j \in DOMAIN d : \A x \in DOMAIN d[j].ids : d[j].ids[x] \in chosen
           /\ ~MovedOver(chosen) => \A i \in chosen : \E j \in DOMAIN d : \E x \in DOMAIN d[j].ids : d[j].ids[x] = i
           /\ ~Tangled(chosen) => \A j \in DOMAIN d : OneMove(d[j]) \/ InPlace(d[j])
<1> DEFINE n == Len(log)
           g == Groupings(chosen)[n]
<1>0. log \in Seq(Records) /\ (\A i \in DOMAIN log : MoveFits(log[i])) /\ n \in Nat /\ DOMAIN log = 1..n
  BY DEF FcInv
<1>1. (s \ undone) \intersect undone = {}
  OBVIOUS
<1>2. /\ chosen \subseteq DOMAIN log /\ chosen \intersect undone = {}
      /\ \A i \in chosen, j \in DOMAIN log : i < j /\ j \notin undone /\ Ends(i) \intersect Ends(j) # {} => j \in chosen
  <2> DEFINE sel == s \ undone
  <2>1. chosen = IncludeLater(sel) /\ sel \intersect undone = {}
    BY DEF Chosen
  <2> HIDE DEF sel
  <2> QED BY <1>0, <2>1, SelectionCloses
<1>3. /\ d \in Seq(Chain) /\ KeysOnce(d) /\ GroupFits(g, chosen, n) /\ (~Tangled(chosen) => GroupPlain(g, chosen, n))
  BY <1>0, <1>2, ChainsOfSelection
<1>4. d = g.chains
  BY DEF ChainGroups
<1> HIDE DEF g, n
<1>5. \A j \in DOMAIN d : d[j] \in ChainsIn(g.chains) /\ d[j] \in Chain
  BY <1>3, <1>4 DEF ChainsIn
<1>6. \A j \in DOMAIN d : d[j].ids # <<>> /\ \A x \in DOMAIN d[j].ids : d[j].ids[x] \in chosen
  BY <1>3, <1>5 DEF GroupFits
<1>7. d \in Seq(Links)
  <2>1. \A j \in DOMAIN d : d[j] \in Links
    BY <1>5, <1>6 DEF Links
  <2>2. Len(d) \in Nat /\ DOMAIN d = 1..Len(d) /\ d = [j \in 1..Len(d) |-> d[j]]
    BY <1>3
  <2> QED BY <2>1, <2>2
<1>8. ~MovedOver(chosen) => \A i \in chosen : \E j \in DOMAIN d : \E x \in DOMAIN d[j].ids : d[j].ids[x] = i
  <2> SUFFICES ASSUME ~MovedOver(chosen), NEW i \in chosen
               PROVE \E j \in DOMAIN d : \E x \in DOMAIN d[j].ids : d[j].ids[x] = i
    OBVIOUS
  <2>1. i \in 1..n
    BY <1>0, <1>2
  <2>2. PICK c \in ChainsIn(g.chains) : \E x \in DOMAIN c.ids : c.ids[x] = i
    BY <1>3, <2>1 DEF GroupFits
  <2>3. PICK j \in DOMAIN d : c = d[j]
    BY <1>4, <2>2 DEF ChainsIn
  <2> QED BY <2>2, <2>3
<1>9. ~Tangled(chosen) => \A j \in DOMAIN d : OneMove(d[j]) \/ InPlace(d[j])
  BY <1>3, <1>5 DEF GroupPlain
<1> QED BY <1>2, <1>3, <1>6, <1>7, <1>8, <1>9

\* A file moved over other changes is tangled with them.
LEMMA MovedOverIsTangled ==
    ASSUME NEW chosen, chosen \subseteq Nat, MovedOver(chosen)
    PROVE  Tangled(chosen)
<1>1. PICK i \in chosen, j \in chosen : j < i /\ Moves(i) /\ log[i].path = log[j].path
  BY DEF MovedOver
<1>2. i # j
  <2>1. i \in Nat /\ j \in Nat
    OBVIOUS
  <2> QED BY <1>1, <2>1
<1>3. log[i].path \in Ends(i) \intersect Ends(j)
  BY <1>1 DEF Ends
<1> QED BY <1>1, <1>2, <1>3 DEF Tangled

\* What an undo is.
LEMMA RevertIs ==
    ASSUME FcInv, NEW s, NEW force, Revert(s, force), NEW chosen, chosen = Chosen(s), NEW d, d = ChainGroups(chosen)
    PROVE  /\ tree' = Restored(d)[Len(d)] /\ (force \/ MatchesExpected(d))
           /\ undone' = undone \union {i \in chosen : \E j \in DOMAIN d : \E x \in DOMAIN d[j].ids : d[j].ids[x] = i}
           /\ outside' \subseteq outside /\ last' \in {"forced", "undo"} /\ dirty' = {} /\ log' = log /\ request' = request
<1>1. \A j \in DOMAIN d : \A x \in DOMAIN d[j].ids : d[j].ids[x] \in chosen
  BY UndoFits
<1>2. UNION {{d[j].ids[k] : k \in DOMAIN d[j].ids} : j \in DOMAIN d} =
          {i \in chosen : \E j \in DOMAIN d : \E x \in DOMAIN d[j].ids : d[j].ids[x] = i}
  BY <1>1
<1>3. IncludeLater(s \ undone) = chosen
  BY DEF Chosen
<1>4. /\ tree' = Restored(d)[Len(d)] /\ (force \/ MatchesExpected(d))
      /\ undone' = undone \union UNION {{d[j].ids[k] : k \in DOMAIN d[j].ids} : j \in DOMAIN d}
      /\ outside' = outside \ {p \in Paths : tree'[p] # tree[p]}
      /\ last' = (IF force THEN "forced" ELSE "undo") /\ dirty' = {}
      /\ log' = log /\ request' = request
  <2> DEFINE c == IncludeLater(s \ undone)
             e == ChainGroups(c)
  <2>1. c = chosen /\ e = d
    BY <1>3
  <2>2. tree' = Restored(e)[Len(e)]
    BY DEF Revert
  <2>3. force \/ MatchesExpected(e)
    BY DEF Revert
  <2>4. undone' = undone \union UNION {{e[j].ids[k] : k \in DOMAIN e[j].ids} : j \in DOMAIN e}
    BY DEF Revert
  <2>5. outside' = outside \ {p \in Paths : tree'[p] # tree[p]}
    BY DEF Revert
  <2>6. last' = (IF force THEN "forced" ELSE "undo") /\ dirty' = {} /\ log' = log /\ request' = request
    BY DEF Revert
  <2> HIDE DEF c, e
  <2> QED BY <2>1, <2>2, <2>3, <2>4, <2>5, <2>6
<1>5. outside' \subseteq outside /\ last' \in {"forced", "undo"} /\ dirty' = {} /\ log' = log /\ request' = request
  BY <1>4
<1>6. undone' = undone \union {i \in chosen : \E j \in DOMAIN d : \E x \in DOMAIN d[j].ids : d[j].ids[x] = i}
  BY <1>2, <1>4
<1> QED BY <1>4, <1>5, <1>6

\* An undo leaves a tree, and undoes records.
LEMMA RevertInv ==
    ASSUME FcInv, NEW s, NEW force, Revert(s, force)
    PROVE  FcInv'
<1> DEFINE chosen == Chosen(s)
           d == ChainGroups(chosen)
<1>1. /\ chosen \in SUBSET DOMAIN log /\ d \in Seq(Links)
  BY UndoFits
<1>2. /\ tree' = Restored(d)[Len(d)]
      /\ undone' = undone \union {i \in chosen : \E j \in DOMAIN d : \E x \in DOMAIN d[j].ids : d[j].ids[x] = i}
      /\ outside' \subseteq outside /\ last' \in {"forced", "undo"} /\ dirty' = {} /\ log' = log /\ request' = request
  BY RevertIs
<1> HIDE DEF chosen, d
<1>3. tree \in Trees /\ log \in Seq(Records) /\ \A i \in DOMAIN log : MoveFits(log[i])
  BY DEF FcInv
<1>4. tree' \in Trees
  <2>1. Len(d) \in 0..Len(d)
    BY <1>1
  <2> QED BY <1>1, <1>2, <1>3, <2>1, RestoredSteps
<1>5. undone' \subseteq DOMAIN log
  BY <1>1, <1>2 DEF FcInv
<1>6. MoveFits(log[1])' <=> MoveFits(log'[1])
  BY DEF MoveFits
<1> QED BY <1>2, <1>4, <1>5 DEF FcInv, MoveFits

\* What is undone is what was chosen, unless a file was moved over it.
LEMMA FreshIsChosen ==
    ASSUME FcInv, NEW s, NEW force, Revert(s, force), ~MovedOver(Chosen(s))
    PROVE  Fresh = Chosen(s)
<1> DEFINE chosen == Chosen(s)
           d == ChainGroups(chosen)
<1>1. /\ chosen \intersect undone = {}
      /\ \A i \in chosen : \E j \in DOMAIN d : \E x \in DOMAIN d[j].ids : d[j].ids[x] = i
  BY UndoFits
<1>2. undone' = undone \union {i \in chosen : \E j \in DOMAIN d : \E x \in DOMAIN d[j].ids : d[j].ids[x] = i}
  BY RevertIs
<1> HIDE DEF chosen, d
<1>3. Fresh = chosen
  BY <1>1, <1>2 DEF Fresh
<1> QED BY <1>3 DEF chosen

\* An undone change is not brought back.
LEMMA SuffixUndone ==
    ASSUME FcInv, NEW s, NEW force, Revert(s, force), ~MovedOver(Chosen(s)),
           NEW i \in Fresh, NEW j \in DOMAIN log, j > i, log[j].path = log[i].path
    PROVE  j \in undone'
<1> DEFINE chosen == Chosen(s)
<1>1. Fresh = chosen
  BY FreshIsChosen
<1>2. \A k \in chosen, l \in DOMAIN log : k < l /\ l \notin undone /\ Ends(k) \intersect Ends(l) # {} => l \in chosen
  BY UndoFits
<1>3. chosen \subseteq DOMAIN log /\ DOMAIN log \subseteq Nat
  <2>1. chosen \in SUBSET DOMAIN log
    BY UndoFits
  <2> QED BY <2>1 DEF FcInv
<1> HIDE DEF chosen
<1>4. i < j /\ log[i].path \in Ends(i) \intersect Ends(j)
  BY <1>1, <1>3 DEF Ends
<1>5. j \in undone \/ j \in Fresh
  BY <1>1, <1>2, <1>4
<1>6. undone \subseteq undone'
  <2>1. undone' = undone \union {k \in Chosen(s) : \E m \in DOMAIN ChainGroups(Chosen(s)) :
                      \E x \in DOMAIN ChainGroups(Chosen(s))[m].ids : ChainGroups(Chosen(s))[m].ids[x] = k}
    BY RevertIs
  <2> QED BY <2>1
<1> QED BY <1>5, <1>6 DEF Fresh

\* The chains of an undo without a tangle: each begins with a change that is
\* undone, and the paths it affects are those of that change.
LEMMA ChainsApart ==
    ASSUME FcInv, NEW s, NEW chosen, chosen = Chosen(s), ~Tangled(chosen), NEW d, d = ChainGroups(chosen)
    PROVE  /\ \A j \in DOMAIN d, p \in Paths : Affects(d[j], p) => d[j].ids[1] \in chosen /\ p \in Ends(d[j].ids[1])
           /\ \A j \in DOMAIN d : \A x \in DOMAIN d[j].ids : d[j].key = log[d[j].ids[x]].path
           /\ \A j \in DOMAIN d : OneMove(d[j]) \/ InPlace(d[j])
<1>0. log \in Seq(Records) /\ \A i \in DOMAIN log : MoveFits(log[i])
  BY DEF FcInv
<1>1. /\ d \in Seq(Links) /\ (\A j \in DOMAIN d : \A x \in DOMAIN d[j].ids : d[j].ids[x] \in chosen)
      /\ \A j \in DOMAIN d : OneMove(d[j]) \/ InPlace(d[j])
  BY UndoFits
<1>2. \A j \in DOMAIN d : 1 \in DOMAIN d[j].ids
  BY <1>0, <1>1, LinkBegins
<1>3. \A j \in DOMAIN d : \A x \in DOMAIN d[j].ids : d[j].key = log[d[j].ids[x]].path
  BY <1>1 DEF OneMove, InPlace
<1>4. \A j \in DOMAIN d, p \in Paths : Affects(d[j], p) => d[j].ids[1] \in chosen /\ p \in Ends(d[j].ids[1])
  BY <1>1, <1>2, <1>3 DEF Affects, Ends
<1> QED BY <1>1, <1>3, <1>4

\* The first change of a path among those undone.
LEMMA FirstIs ==
    ASSUME FcInv, Fresh \subseteq Nat, NEW p, InUndo(p)
    PROVE  FirstOf(p) \in Fresh /\ p \in Ends(FirstOf(p)) /\ \A j \in Fresh : p \in Ends(j) => FirstOf(p) <= j
<1> DEFINE S == {i \in Fresh : p \in Ends(i)}
<1>1. S \subseteq Nat /\ S # {}
  BY DEF InUndo
<1>2. PICK m \in S : \A j \in S : m <= j
  <2> HIDE DEF S
  <2> QED BY <1>1, LeastNumber
<1>3. \E i \in Fresh : p \in Ends(i) /\ \A j \in Fresh : p \in Ends(j) => i <= j
  BY <1>2
<1> QED BY <1>3 DEF FirstOf

\* Undo restores the earliest body of a path.
LEMMA UndoRestoresFirst ==
    ASSUME FcInv, NEW s, NEW force, Revert(s, force), ~Tangled(Chosen(s)), NEW p \in Paths
    PROVE  tree'[p] = IF InUndo(p) THEN BodyBefore(p) ELSE tree[p]
<1> DEFINE chosen == Chosen(s)
           d == ChainGroups(chosen)
<1>0. tree \in Trees /\ log \in Seq(Records) /\ (\A i \in DOMAIN log : MoveFits(log[i]))
  BY DEF FcInv
<1>1. chosen \in SUBSET DOMAIN log /\ chosen \subseteq Nat
  <2>1. chosen \in SUBSET DOMAIN log
    BY UndoFits
  <2> QED BY <2>1, <1>0
<1>2. ~MovedOver(chosen)
  BY <1>1, MovedOverIsTangled
<1>3. Fresh = chosen
  BY <1>2, FreshIsChosen
<1>4. /\ d \in Seq(Links) /\ KeysOnce(d)
      /\ \A i \in chosen : \E j \in DOMAIN d : \E x \in DOMAIN d[j].ids : d[j].ids[x] = i
  BY <1>2, UndoFits
<1>5. /\ \A j \in DOMAIN d, q \in Paths : Affects(d[j], q) => d[j].ids[1] \in chosen /\ q \in Ends(d[j].ids[1])
      /\ \A j \in DOMAIN d : \A x \in DOMAIN d[j].ids : d[j].key = log[d[j].ids[x]].path
      /\ \A j \in DOMAIN d : OneMove(d[j]) \/ InPlace(d[j])
  BY ChainsApart
<1>6. tree' = Restored(d)[Len(d)]
  BY RevertIs
<1>7. \A i, j \in chosen : i # j /\ Moves(i) => Ends(i) \intersect Ends(j) = {}
  BY DEF Tangled
<1> HIDE DEF chosen, d
<1>8. CASE ~InUndo(p)
  <2>1. \A j \in DOMAIN d : ~Affects(d[j], p)
    BY <1>3, <1>5, <1>8 DEF InUndo
  <2>2. Restored(d)[Len(d)][p] = tree[p]
    BY <1>0, <1>4, <2>1, RestoredSpares
  <2> QED BY <1>6, <1>8, <2>2
<1>9. CASE InUndo(p)
  <2> DEFINE f == FirstOf(p)
             r == log[f]
  <2>1. f \in chosen /\ p \in Ends(f) /\ \A j \in chosen : p \in Ends(j) => f <= j
    BY <1>1, <1>3, <1>9, FirstIs
  <2>2. PICK k \in DOMAIN d : \E x \in DOMAIN d[k].ids : d[k].ids[x] = f
    BY <1>4, <2>1
  <2>3. PICK x \in DOMAIN d[k].ids : d[k].ids[x] = f
    BY <2>2
  <2>4. d[k] \in Links /\ d[k].key \in Paths /\ 1 \in DOMAIN d[k].ids /\ d[k].key = r.path
    <3>1. d[k] \in Links
      BY <1>4
    <3>2. d[k].key = r.path
      BY <1>5, <2>3
    <3> QED BY <1>0, <3>1, <3>2, LinkBegins
  <2>5. f \in DOMAIN log /\ r \in Records /\ MoveFits(r)
    BY <1>0, <1>1, <2>1
  <2>6. BodyBefore(p) = IF r.action = "create" \/ (r.action = "move" /\ p = r.path) THEN NoFile ELSE r.before
    BY DEF BodyBefore
  <2>7. Ends(f) = {r.path} \union (IF r.action = "move" THEN {r.from} ELSE {}) /\ (Moves(f) <=> r.action = "move")
    BY DEF Ends, Moves
  <2> HIDE DEF f, r
  <2>8. d[k].ids[1] = f
    <3>1. CASE OneMove(d[k])
      BY <2>3, <3>1 DEF OneMove
    <3>2. CASE InPlace(d[k])
      <4>1. ~Moves(f) /\ p = r.path
        BY <2>1, <2>3, <2>7, <3>2 DEF InPlace
      <4>2. log[d[k].ids[1]].path = p
        BY <1>5, <2>4, <4>1
      <4>3. d[k].ids[1] \in chosen
        <5>1. Affects(d[k], d[k].key)
          BY DEF Affects
        <5> QED BY <1>5, <2>4, <5>1
      <4>4. f <= d[k].ids[1]
        BY <2>1, <4>2, <4>3 DEF Ends
      <4>5. 1 < x => d[k].ids[1] < f
        BY <2>3, <2>4, <3>2 DEF InPlace
      <4>6. x \in Nat /\ x >= 1
        <5>1. d[k].ids \in Seq(DOMAIN log)
          BY <2>4 DEF Links, Chain
        <5> QED BY <2>3, <5>1
      <4>7. f \in Nat /\ d[k].ids[1] \in Nat
        BY <1>1, <2>1, <4>3
      <4> QED BY <2>3, <4>4, <4>5, <4>6, <4>7
    <3> QED BY <1>5, <3>1, <3>2
  <2>9. \A j \in DOMAIN d : j # k => ~Affects(d[j], p)
    <3> SUFFICES ASSUME NEW j \in DOMAIN d, j # k, Affects(d[j], p) PROVE FALSE
      OBVIOUS
    <3> DEFINE i == d[j].ids[1]
    <3>1. i \in chosen /\ p \in Ends(i)
      BY <1>5
    <3>2. d[j].key # d[k].key
      BY <1>4 DEF KeysOnce
    <3>3. d[j].key = log[i].path
      <4>1. d[j] \in Links
        BY <1>4
      <4>2. 1 \in DOMAIN d[j].ids
        BY <1>0, <4>1, LinkBegins
      <4> QED BY <1>5, <4>2
    <3> HIDE DEF i
    <3>4. i # f
      BY <3>2, <3>3, <2>4 DEF r
    <3>5. ~Moves(i) /\ ~Moves(f)
      BY <1>7, <2>1, <3>1, <3>4
    <3>6. p = log[i].path /\ p = r.path
      BY <2>1, <2>7, <3>1, <3>5 DEF Ends
    <3> QED BY <3>2, <3>3, <3>6, <2>4
  <2>10. \A t \in Trees : Restore(t, d[k].key, log[d[k].ids[1]])[p] = BodyBefore(p)
    <3> TAKE t \in Trees
    <3>1. r = log[d[k].ids[1]]
      BY <2>8 DEF r
    <3>2. /\ OneMove(d[k]) => Restore(t, d[k].key, r)[r.from] = r.before /\ Restore(t, d[k].key, r)[d[k].key] = NoFile
          /\ r.action # "move" => Restore(t, d[k].key, r)[d[k].key] = IF r.action = "create" THEN NoFile ELSE r.before
      BY <1>0, <2>4, <3>1, RestoreIs
    <3>3. CASE r.action = "move"
      <4>1. OneMove(d[k])
        BY <1>5, <2>4, <2>7, <2>8, <3>3 DEF InPlace
      <4>2. p = r.path \/ p = r.from
        BY <2>1, <2>7, <3>3
      <4>3. r.from # r.path
        BY <2>5, <3>3 DEF MoveFits
      <4> QED BY <2>4, <2>6, <3>1, <3>2, <3>3, <4>1, <4>2, <4>3
    <3>4. CASE r.action # "move"
      <4>1. p = r.path
        BY <2>1, <2>7, <3>4
      <4> QED BY <2>4, <2>6, <3>1, <3>2, <3>4, <4>1
    <3> QED BY <3>3, <3>4
  <2>11. Restored(d)[Len(d)][p] = BodyBefore(p)
    <3>1. PICK v : v = BodyBefore(p)
      OBVIOUS
    <3>2. \A t \in Trees : Restore(t, d[k].key, log[d[k].ids[1]])[p] = v
      BY <2>10, <3>1
    <3>3. Restored(d)[Len(d)][p] = v
      BY <1>0, <1>4, <2>9, <3>2, RestoredIs
    <3> QED BY <3>1, <3>3
  <2> QED BY <1>6, <1>9, <2>11
<1> QED BY <1>8, <1>9

\* Without force an undo leaves what others made of a file.
LEMMA OthersSpared ==
    ASSUME FcInv, NEW s, Revert(s, FALSE), ~Tangled(Chosen(s)), NEW p \in Paths
    PROVE  \/ tree'[p] = tree[p]
           \/ \E i \in Fresh : log[i].path = p /\ log[i].after = tree[p]
           \/ \E i \in Fresh : Moves(i) /\ log[i].from = p
<1> DEFINE chosen == Chosen(s)
           d == ChainGroups(chosen)
<1>0. log \in Seq(Records) /\ \A i \in DOMAIN log : MoveFits(log[i])
  BY DEF FcInv
<1>1. chosen \in SUBSET DOMAIN log /\ chosen \subseteq Nat
  <2>1. chosen \in SUBSET DOMAIN log
    BY UndoFits
  <2> QED BY <2>1, <1>0
<1>2. ~MovedOver(chosen)
  BY <1>1, MovedOverIsTangled
<1>3. Fresh = chosen
  BY <1>2, FreshIsChosen
<1>4. /\ d \in Seq(Links) /\ (\A j \in DOMAIN d : \A x \in DOMAIN d[j].ids : d[j].ids[x] \in chosen)
      /\ \A i \in chosen : \E j \in DOMAIN d : \E x \in DOMAIN d[j].ids : d[j].ids[x] = i
  BY <1>2, UndoFits
<1>5. \A j \in DOMAIN d : \A x \in DOMAIN d[j].ids : d[j].key = log[d[j].ids[x]].path
  BY ChainsApart
<1>6. MatchesExpected(d)
  BY RevertIs
<1>7. tree'[p] = IF InUndo(p) THEN BodyBefore(p) ELSE tree[p]
  BY UndoRestoresFirst
<1> HIDE DEF chosen, d
<1>8. CASE InUndo(p)
  <2>1. PICK i \in Fresh : p \in Ends(i)
    BY <1>8 DEF InUndo
  <2>2. CASE p # log[i].path
    BY <2>1, <2>2 DEF Ends
  <2>3. CASE p = log[i].path
    <3>1. PICK j \in DOMAIN d : \E x \in DOMAIN d[j].ids : d[j].ids[x] = i
      BY <1>3, <1>4, <2>1
    <3>2. d[j].key = p
      BY <1>5, <2>3, <3>1
    <3> DEFINE e == d[j].ids[Len(d[j].ids)]
    <3>3. tree[d[j].key] = log[e].after
      BY <1>6 DEF MatchesExpected
    <3>4. Len(d[j].ids) \in DOMAIN d[j].ids
      <4>1. d[j] \in Links
        BY <1>4
      <4>2. d[j].ids \in Seq(DOMAIN log) /\ d[j].ids # <<>>
        BY <4>1 DEF Links, Chain
      <4> QED BY <4>2
    <3>5. e \in chosen /\ d[j].key = log[e].path
      BY <1>4, <1>5, <3>4
    <3> QED BY <1>3, <3>2, <3>3, <3>5
  <2> QED BY <2>2, <2>3
<1>9. CASE ~InUndo(p)
  BY <1>7, <1>9
<1> QED BY <1>8, <1>9

\* The record of a hunk that was planned, or written at once.
LEMMA RecordFits ==
    ASSUME tree \in Trees, request \in {1, 2}, NEW h \in Hunks, NEW t \in Trees,
           h.op = "move" => tree[h.path] # NoFile
    PROVE  Record(h, t) \in Records /\ MoveFits(Record(h, t))
<1> DEFINE path == IF h.op = "move" THEN h.to ELSE h.path
           before == tree[h.path]
           after == t[path]
           from == IF h.op = "move" THEN h.path ELSE NoPath
           action == IF h.op = "delete" \/ (after = NoFile /\ before # NoFile) THEN "delete"
                     ELSE IF h.op = "move" THEN "move"
                     ELSE IF h.op = "add" \/ before = NoFile THEN "create" ELSE "modify"
           large == before \in Large \/ after \in Large
           r == Record(h, t)
<1>1. h.path \in Paths /\ (h.op = "move" => h.to \in Paths /\ h.path # h.to)
  BY DEF Hunks
<1>2. path \in Paths /\ from \in Paths \union {NoPath}
  BY <1>1
<1>3. before \in Bodies \union {NoFile} /\ after \in Bodies \union {NoFile}
  BY <1>1, <1>2 DEF Trees
<1>4. action \in {"create", "modify", "delete", "move"} /\ (action = "move" => h.op = "move") /\ large \in BOOLEAN
  OBVIOUS
<1>5. r = [path |-> path, from |-> from, request |-> request, action |-> action,
           before |-> before, after |-> after, large |-> large]
  BY DEF Record
<1>6. (h.op = "move" => from = h.path /\ path = h.to) /\ before = tree[h.path]
  OBVIOUS
<1> HIDE DEF path, before, after, from, action, large, r
<1>7. r \in Records
  BY <1>2, <1>3, <1>4, <1>5 DEF Records
<1>8. MoveFits(r)
  BY <1>1, <1>4, <1>5, <1>6 DEF MoveFits
<1> QED BY <1>7, <1>8 DEF r

\* A call that succeeded leaves a tree and records that fit.
LEMMA CommitFits ==
    ASSUME FcInv, NEW hs \in Seq(Hunks), NEW t \in Trees, Commit(hs, t),
           \A i \in DOMAIN hs : hs[i].op = "move" => tree[hs[i].path] # NoFile
    PROVE  FcInv' /\ last' = "tool" /\ undone' = undone
<1> DEFINE added == [i \in DOMAIN hs |-> Record(hs[i], t)]
           n == Len(log)
           m == Len(hs)
<1>0. tree \in Trees /\ log \in Seq(Records) /\ request \in {1, 2} /\ n \in Nat /\ DOMAIN log = 1..n
      /\ m \in Nat /\ DOMAIN hs = 1..m /\ \A i \in DOMAIN hs : hs[i] \in Hunks
  BY DEF FcInv
<1>1. tree' = t /\ log' = log \o added /\ n + m <= MaxRecords
      /\ outside' \subseteq outside /\ last' = "tool" /\ dirty' = {} /\ undone' = undone /\ request' = request
  BY DEF Commit
<1>2. \A i \in 1..m : added[i] \in Records /\ MoveFits(added[i])
  BY <1>0, RecordFits
<1>3. added \in Seq(Records) /\ Len(added) = m /\ DOMAIN added = 1..m
  BY <1>0, <1>2
<1> HIDE DEF added, n, m
<1>4. log' \in Seq(Records) /\ Len(log') = n + m /\ DOMAIN log' = 1..(n + m)
      /\ \A i \in 1..(n + m) : log'[i] = IF i <= n THEN log[i] ELSE added[i - n]
  <2>1. log \o added \in Seq(Records) /\ Len(log \o added) = n + m
    BY <1>0, <1>3, ConcatProperties DEF n
  <2>2. \A i \in 1..(n + m) : (log \o added)[i] = IF i <= n THEN log[i] ELSE added[i - n]
    BY <1>0, <1>3, ConcatProperties DEF n
  <2> QED BY <1>1, <2>1, <2>2
<1>5. \A i \in DOMAIN log' : MoveFits(log'[i])
  <2> SUFFICES ASSUME NEW i \in 1..(n + m) PROVE MoveFits(log'[i])
    BY <1>4
  <2>1. CASE i <= n
    <3>1. i \in DOMAIN log
      BY <1>0, <2>1
    <3> QED BY <1>4, <2>1, <3>1 DEF FcInv
  <2>2. CASE ~(i <= n)
    <3>1. i - n \in 1..m
      BY <1>0, <2>2
    <3> QED BY <1>2, <1>4, <2>2, <3>1
  <2> QED BY <2>1, <2>2
<1>6. undone' \subseteq DOMAIN log'
  BY <1>0, <1>1, <1>4 DEF FcInv
<1>7. Len(log') <= MaxRecords
  BY <1>1, <1>4
<1> QED BY <1>1, <1>4, <1>5, <1>6, <1>7 DEF FcInv, MoveFits

\* A file written at once.
LEMMA WriteFits ==
    ASSUME FcInv, NEW p \in Paths, NEW b \in Bodies, WriteFile(p, b)
    PROVE  FcInv' /\ last' = "tool" /\ undone' = undone
<1> DEFINE h == [op |-> IF tree[p] = NoFile THEN "add" ELSE "update", path |-> p, to |-> NoPath, body |-> b]
           hs == <<h>>
<1>1. Commit(hs, Applied(tree, h))
  BY DEF WriteFile
<1>2. h \in Hunks /\ h.op # "move"
  BY DEF Hunks
<1> HIDE DEF h
<1>3. hs \in Seq(Hunks) /\ \A i \in DOMAIN hs : hs[i].op # "move"
  BY <1>2
<1>4. Applied(tree, h) \in Trees
  BY <1>2, AppliedFits DEF FcInv
<1> HIDE DEF hs
<1> QED BY <1>1, <1>3, <1>4, CommitFits

\* A patch that applies.
LEMMA PatchFits ==
    ASSUME FcInv, NEW hs \in Patches, ApplyPatch(hs)
    PROVE  FcInv' /\ last' = "tool" /\ undone' = undone
<1> DEFINE t == AppliedUpTo(hs, Len(hs))[Len(hs)]
<1>1. Commit(hs, t) /\ Planned(hs)
  BY DEF ApplyPatch
<1>2. hs \in Seq(Hunks) /\ Len(hs) \in 0..Len(hs)
  BY PatchesAreLists
<1>3. t \in Trees
  BY <1>2, AppliedSteps DEF FcInv
<1>4. \A i \in DOMAIN hs : hs[i].op = "move" => tree[hs[i].path] # NoFile
  BY <1>1 DEF Planned
<1> HIDE DEF t
<1> QED BY <1>1, <1>2, <1>3, <1>4, CommitFits

\* Every step keeps the files and their records.
LEMMA FcNextInv == FcInv /\ [FcNext]_fcVars => FcInv'
<1> SUFFICES ASSUME FcInv, [FcNext]_fcVars PROVE FcInv'
  OBVIOUS
<1>1. CASE \E p \in Paths, b \in Bodies : WriteFile(p, b)
  BY <1>1, WriteFits
<1>2. CASE \E hs \in Patches : ApplyPatch(hs)
  BY <1>2, PatchFits
<1>3. ASSUME NEW hs \in Patches, NEW n \in DOMAIN hs, PatchFails(hs, n) PROVE FcInv'
  <2>1. tree' \in Trees /\ dirty' \subseteq Paths
    BY <1>3, PatchesAreLists, FailureRestores
  <2>2. last' = "failed" /\ outside' \subseteq outside \union Paths /\ log' = log /\ undone' = undone /\ request' = request
    BY <1>3 DEF PatchFails
  <2> QED BY <2>1, <2>2 DEF FcInv, MoveFits
<1>4. CASE NextRequest
  BY <1>4 DEF NextRequest, FcInv, MoveFits
<1>5. ASSUME NEW p \in Paths, NEW b \in Bodies \union {NoFile}, OutsideEdit(p, b) PROVE FcInv'
  <2>1. tree' = [tree EXCEPT ![p] = b] /\ outside' = outside \union {p} /\ last' = "outside" /\ dirty' = {}
        /\ log' = log /\ undone' = undone /\ request' = request
    BY <1>5 DEF OutsideEdit
  <2>2. tree' \in Trees
    BY <2>1 DEF FcInv, Trees
  <2> QED BY <2>1, <2>2 DEF FcInv, MoveFits
<1>6. CASE \E r \in {1, 2}, force \in BOOLEAN : RevertRequest(r, force)
  BY <1>6, RevertInv DEF RevertRequest
<1>7. CASE \E i \in DOMAIN log, force \in BOOLEAN : RevertChange(i, force)
  BY <1>7, RevertInv DEF RevertChange
<1>8. CASE UNCHANGED fcVars
  BY <1>8 DEF fcVars, FcInv, MoveFits
<1> QED BY <1>1, <1>2, <1>3, <1>4, <1>5, <1>6, <1>7, <1>8 DEF FcNext

\* A step that fails is a patch that failed, and leaves the other files alone.
LEMMA FailureSpares ==
    ASSUME FcInv, [FcNext]_fcVars, last' = "failed", NEW p \in Paths
    PROVE  tree'[p] = tree[p] \/ p \in dirty'
<1>1. CASE \E q \in Paths, b \in Bodies : WriteFile(q, b)
  BY <1>1, WriteFits
<1>2. CASE \E hs \in Patches : ApplyPatch(hs)
  BY <1>2, PatchFits
<1>3. CASE \E hs \in Patches : \E n \in DOMAIN hs : PatchFails(hs, n)
  BY <1>3, PatchesAreLists, FailureRestores
<1>4. CASE NextRequest
  BY <1>4 DEF NextRequest
<1>5. CASE \E q \in Paths, b \in Bodies \union {NoFile} : OutsideEdit(q, b)
  BY <1>5 DEF OutsideEdit
<1>6. CASE \E r \in {1, 2}, force \in BOOLEAN : RevertRequest(r, force)
  BY <1>6, RevertIs DEF RevertRequest
<1>7. CASE \E i \in DOMAIN log, force \in BOOLEAN : RevertChange(i, force)
  BY <1>7, RevertIs DEF RevertChange
<1>8. CASE UNCHANGED fcVars
  BY <1>8 DEF fcVars
<1> QED BY <1>1, <1>2, <1>3, <1>4, <1>5, <1>6, <1>7, <1>8 DEF FcNext

\* The invariant of the files.
THEOREM FcInvariant == FcSpec => []FcInv
<1>1. FcInit => FcInv
  BY FcInitInv
<1>2. FcInv /\ [FcNext]_fcVars => FcInv'
  BY FcNextInv
<1> QED BY <1>1, <1>2, PTL DEF FcSpec

\* The files, their records and what was undone keep their types, for any
\* paths, bodies and number of records (ChangeRecorder).
THEOREM FilesTypes == FcSpec => []FcTypeOK
<1>1. FcInv => FcTypeOK
  BY DEF FcInv, FcTypeOK, Trees
<1> QED BY <1>1, FcInvariant, PTL

\* What undo and a failed patch leave (revert, _rollback_ops): an undo restores
\* the first body of every path it undoes and no other path, unless a moved
\* file is tangled with other changes; it undoes the later changes of a file
\* too, and without force spares a body that no undone change left; a patch
\* that fails leaves only the paths it reports.
THEOREM ChangesSafety == FcSpec => ChangesSafe
<1> DEFINE Exact == \A s \in Selections, force \in BOOLEAN :
                       Undoes /\ Revert(s, force) /\ ~Tangled(Chosen(s)) =>
                           \A p \in Paths : tree'[p] = IF InUndo(p) THEN BodyBefore(p) ELSE tree[p]
           Suffix == \A s \in Selections, force \in BOOLEAN :
                       Undoes /\ Revert(s, force) /\ ~MovedOver(Chosen(s)) =>
                           \A i \in Fresh, j \in DOMAIN log : j > i /\ log[j].path = log[i].path => j \in undone'
           Spares == \A s \in Selections :
                       Undoes /\ Revert(s, FALSE) /\ ~Tangled(Chosen(s)) =>
                           \A p \in outside :
                              \/ tree'[p] = tree[p]
                              \/ \E i \in Fresh : log[i].path = p /\ log[i].after = tree[p]
                              \/ \E i \in Fresh : Moves(i) /\ log[i].from = p
           Atomic == last' = "failed" => \A p \in Paths : tree'[p] = tree[p] \/ p \in dirty'
<1>1. FcInv => Exact
  BY UndoRestoresFirst
<1>2. FcInv => Suffix
  BY SuffixUndone
<1>3. FcInv => Spares
  <2> SUFFICES ASSUME FcInv, NEW s \in Selections, Revert(s, FALSE), ~Tangled(Chosen(s)), NEW p \in outside
               PROVE  \/ tree'[p] = tree[p]
                      \/ \E i \in Fresh : log[i].path = p /\ log[i].after = tree[p]
                      \/ \E i \in Fresh : Moves(i) /\ log[i].from = p
    OBVIOUS
  <2>1. p \in Paths
    BY DEF FcInv
  <2> QED BY <2>1, OthersSpared
<1>4. FcInv /\ [FcNext]_fcVars => Atomic
  BY FailureSpares
<1> HIDE DEF Exact, Suffix, Spares, Atomic
<1>5. FcSpec => [][Exact /\ Suffix /\ Spares /\ Atomic]_fcVars
  BY <1>1, <1>2, <1>3, <1>4, FcInvariant, PTL DEF FcSpec
<1>6. FcSpec => [][Exact]_fcVars /\ [][Suffix]_fcVars /\ [][Spares]_fcVars /\ [][Atomic]_fcVars
  BY <1>5, PTL
<1> QED BY <1>6 DEF ChangesSafe, UndoExact, UndoIsSuffix, UndoSparesOutside, PatchAtomic, Exact, Suffix, Spares, Atomic

-----------------------------------------------------------------------------

\* In every behaviour of the tools of a turn the servers and the commands that
\* outlive a call are accounted for (MCPSubsystem and JobRegistry): the one
\* module never touches the state of the other.
THEOREM OutlivesSafety == ToolsSpec => []OutlivesSafe
<1>1. ToolsInit => McpInit /\ JobsInit
  BY DEF ToolsInit
<1>2. [ToolsNext]_toolsVars => [McpNext]_mcpVars
  BY DEF ToolsNext, toolsVars
<1>3. [ToolsNext]_toolsVars => [JobsNext]_jobsVars
  BY DEF ToolsNext, toolsVars
<1>4. ToolsSpec => McpSpec
  BY <1>1, <1>2, PTL DEF ToolsSpec, McpSpec
<1>5. ToolsSpec => JobsSpec
  BY <1>1, <1>3, PTL DEF ToolsSpec, JobsSpec
<1> QED BY <1>4, <1>5, ServerSafety, JobsSafety, PTL DEF OutlivesSafe

\* In every behaviour of the tools of a turn a change can be had back and an
\* edit is informed (ChangeRecorder, _edit_guard), whatever the other parts do.
THEOREM FilesSafety == ToolsSpec => FilesSafe
<1>1. ToolsInit => FcInit /\ LdInit
  BY DEF ToolsInit
<1>2. [ToolsNext]_toolsVars => [FcNext]_fcVars
  BY DEF ToolsNext, toolsVars
<1>3. [ToolsNext]_toolsVars => [LdNext]_ldVars
  BY DEF ToolsNext, toolsVars
<1>4. ToolsSpec => FcSpec
  BY <1>1, <1>2, PTL DEF ToolsSpec, FcSpec
<1>5. ToolsSpec => LdSpec
  BY <1>1, <1>3, PTL DEF ToolsSpec, LdSpec
<1>6. ToolsSpec => ChangesSafe
  BY <1>4, ChangesSafety
<1>7. ToolsSpec => EditsAreInformed
  BY <1>5, EditSafety
<1> QED BY <1>6, <1>7 DEF FilesSafe

\* In every behaviour of the tools of a turn the batch, the stored answers, the
\* files, the ledger, the server and the background commands keep their types,
\* within the bounds on sessions, stamps and records.
THEOREM ToolsTypes == ToolsSpec => []ToolsTypeOK
<1>1. ToolsInit => Init /\ GrInit /\ FcInit /\ LdInit /\ McpInit /\ JobsInit
  BY DEF ToolsInit
<1>2. [ToolsNext]_toolsVars => [Next]_vars /\ [GrNext]_grVars
  BY DEF ToolsNext, toolsVars
<1>3. [ToolsNext]_toolsVars => [FcNext]_fcVars /\ [LdNext]_ldVars
  BY DEF ToolsNext, toolsVars
<1>4. [ToolsNext]_toolsVars => [McpNext]_mcpVars /\ [JobsNext]_jobsVars
  BY DEF ToolsNext, toolsVars
<1>5. ToolsSpec => []TypeOK
  <2>1. IndInv => TypeOK
    BY DEF IndInv
  <2> QED BY <1>1, <1>2, <2>1, InitInv, StepInv, PTL DEF ToolsSpec
<1>6. ToolsSpec => []GrTypeOK
  <2>1. GrInv => GrTypeOK
    BY DEF GrInv, GrTypes, GrTypeOK, DiskRec, LockRec, WriterRec, CacheRec, CheckRec, Ops
  <2> QED BY <1>1, <1>2, <2>1, GrInitInv, GrStepInv, PTL DEF ToolsSpec
<1>7. ToolsSpec => []FcTypeOK
  <2>1. ToolsSpec => FcSpec
    BY <1>1, <1>3, PTL DEF ToolsSpec, FcSpec
  <2> QED BY <2>1, FilesTypes
<1>8. ToolsSpec => []LdTypeOK
  BY <1>1, <1>3, LdInitTypes, LdStepTypes, PTL DEF ToolsSpec
<1>9. ToolsSpec => []McpTypeOK
  BY <1>1, <1>4, McpInitInv, McpStepInv, McpInitBounded, McpStepBounded, McpTypesHold, PTL DEF ToolsSpec
<1>10. ToolsSpec => []JobsTypeOK
  <2>1. ToolsSpec => JobsSpec
    BY <1>1, <1>4, PTL DEF ToolsSpec, JobsSpec
  <2> QED BY <2>1, JobsSafety, PTL
<1>11. TypeOK /\ GrTypeOK /\ FcTypeOK /\ LdTypeOK /\ McpTypeOK /\ JobsTypeOK => ToolsTypeOK
  BY DEF ToolsTypeOK
<1> QED BY <1>5, <1>6, <1>7, <1>8, <1>9, <1>10, <1>11, PTL
===========================================================================
