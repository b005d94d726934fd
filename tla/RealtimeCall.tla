---------------------------- MODULE RealtimeCall ----------------------------
(***************************************************************************)
(* Voice calls on one session (gateway/realtime/routes.py, session.py and  *)
(* manager.py, core/runtime/realtime_loop.py and utterance_buffer.py).     *)
(*                                                                         *)
(* A connection takes a slot, claims the session, connects the provider    *)
(* and then runs two tasks: one handles the provider's events, the other   *)
(* the client's frames.  When an assistant turn ends, or is interrupted    *)
(* with something said, the task that saw it stores the turn and runs its  *)
(* tools (_handle_assistant_boundary); the other task goes on meanwhile.   *)
(* The provider is external: it sends what gemini_live.py maps.            *)
(***************************************************************************)
EXTENDS Naturals, Sequences, FiniteSets

CONSTANTS MaxConns,     \* bound: connections that arrive for the session
          MaxSlots,     \* max_concurrent_sessions
          MaxSaid,      \* bound: user texts
          MaxSpoken,    \* bound: text deltas of the assistant
          MaxToolCalls, \* bound: tool calls
          MaxBarges,    \* bound: interrupt frames
          MaxTrouble,   \* bound: store errors, lost clients and failed connects
          MaxInputs     \* bound: all of these together

\* Connections are counted from 1.
ASSUME CallAssumption == MaxConns \in Nat

Conns == 1..MaxConns \* in the order they arrive
NoCall == 0
Quiet == [text |-> <<>>, tools |-> <<>>]
Empty(t) == t = Quiet
Rest == [at |-> "rest", turn |-> Quiet, user |-> <<>>, next |-> 1, notes |-> 0]

VARIABLES conns,      \* what every connection is doing
          slots,     \* slots taken
          claimed,   \* the connection that holds the claim
          registered,      \* the connection registered for the session
          rewriting, \* is a history rewrite running?
          moved,     \* has the active thread changed since the call resolved it?
          st,        \* RealtimeConnectionState.state
          buf,       \* the UtteranceBuffer
          idleQueue, \* idle_delivery_queue: texts of hooks
          task,      \* the boundary handlers of the two tasks
          typing,    \* a typed text the client task is sending
          lingering, \* handlers of closed calls that are still closing their executor
          inflight,  \* in-flight turns the reload counts
          rows,      \* the rows the call has stored
          answered,  \* its tool calls answered to the provider
          \* What happened, for bounds and properties only.
          count,     \* ids given out, interrupts and troubles so far
          reopened,  \* user texts stored before they were final or completed
          unlucky    \* tool calls of turns that failed

callVars == <<st, buf, idleQueue, task, typing>>
historyVars == <<rows, answered, reopened, unlucky>>
managerVars == <<conns, slots, claimed, registered, rewriting, moved>>
rtVars == <<managerVars, callVars, lingering, inflight, historyVars, count>>

Tasks == {"provider", "client"}
Fresh == [inUser |-> FALSE, parts |-> <<>>, last |-> <<>>, committed |-> FALSE,
          inTurn |-> FALSE, now |-> Quiet, ended |-> Quiet]

RtTypeOK ==
    /\ conns \in [Conns -> {"new", "accepting", "connecting", "running", "closing", "dropped", "gone"}]
    /\ slots \in 0..MaxSlots /\ claimed \in Conns \union {NoCall} /\ registered \in Conns \union {NoCall}
    /\ rewriting \in BOOLEAN /\ moved \in BOOLEAN /\ inflight \in 0..4
    /\ st \in {"listening", "thinking", "speaking", "interrupted", "tool_running", "closing"}
    /\ \A t \in Tasks : task[t].at \in {"rest", "boundary", "lock", "user", "assistant", "tool", "confirm",
                                        "running", "elicit", "results", "inject", "teardown"}

RtInit ==
    /\ conns = [c \in Conns |-> "new"] /\ slots = 0 /\ claimed = NoCall /\ registered = NoCall
    /\ rewriting = FALSE /\ moved = FALSE
    /\ st = "closing" /\ buf = Fresh /\ idleQueue = 0
    /\ task = [t \in Tasks |-> Rest] /\ typing = 0
    /\ lingering = 0 /\ inflight = 0 /\ rows = <<>> /\ answered = {}
    /\ count = [said |-> 0, spoken |-> 0, tools |-> 0, barges |-> 0, trouble |-> 0,
                slots |-> 0, marks |-> 0]
    /\ reopened = {} /\ unlucky = {}

\* The bounds: one more input of a kind, and one more in all.
More(kind, max) ==
    /\ count[kind] < max
    /\ count.said + count.spoken + count.tools + count.barges + count.trouble < MaxInputs
MoreTrouble == More("trouble", MaxTrouble)
Trouble == MoreTrouble /\ count' = [count EXCEPT !.trouble = @ + 1]

-----------------------------------------------------------------------------
(* Connections and the manager.                                            *)

AcquireSlot(c) ==
    /\ conns[c] = "new" /\ \A d \in 1..c - 1 : conns[d] # "new"
    /\ IF slots = MaxSlots THEN conns' = [conns EXCEPT ![c] = "gone"] /\ UNCHANGED slots
       ELSE conns' = [conns EXCEPT ![c] = "accepting"] /\ slots' = slots + 1
    /\ UNCHANGED <<claimed, registered, rewriting, moved, callVars, lingering, inflight, historyVars, count>>

\* The client went away before the handshake was answered: the slot is not
\* given back.
AcceptFails(c) ==
    /\ conns[c] = "accepting" /\ MoreTrouble
    /\ conns' = [conns EXCEPT ![c] = "gone"]
    /\ count' = [count EXCEPT !.trouble = @ + 1, !.slots = @ + 1]
    /\ UNCHANGED <<slots, claimed, registered, rewriting, moved, callVars, lingering, inflight, historyVars>>

\* Mutant: a call that is connecting does not keep rewrites out.
ClaimUnlessLive(c) ==
    /\ conns[c] = "accepting"
    /\ IF rewriting \/ claimed # NoCall
       THEN conns' = [conns EXCEPT ![c] = "gone"] /\ slots' = slots - 1 /\ UNCHANGED <<claimed, moved>>
       ELSE conns' = [conns EXCEPT ![c] = "connecting"] /\ moved' = FALSE /\ UNCHANGED <<claimed, slots>>
    /\ UNCHANGED <<registered, rewriting, callVars, lingering, inflight, historyVars, count>>

\* claim, and the thread is resolved: a refusal gives the slot back.
Claim(c) ==
    /\ conns[c] = "accepting"
    /\ IF rewriting \/ claimed # NoCall
       THEN conns' = [conns EXCEPT ![c] = "gone"] /\ slots' = slots - 1 /\ UNCHANGED <<claimed, moved>>
       ELSE conns' = [conns EXCEPT ![c] = "connecting"] /\ claimed' = c /\ moved' = FALSE /\ UNCHANGED slots
    /\ UNCHANGED <<registered, rewriting, callVars, lingering, inflight, historyVars, count>>

ConnectFails(c) ==
    /\ conns[c] = "connecting" /\ Trouble
    /\ conns' = [conns EXCEPT ![c] = "gone"] /\ slots' = slots - 1
    /\ claimed' = IF claimed = c THEN NoCall ELSE claimed
    /\ UNCHANGED <<registered, rewriting, moved, callVars, lingering, inflight, historyVars>>

\* register, with a new state and an empty buffer.
Register(c) ==
    /\ conns[c] = "connecting" /\ registered = NoCall
    /\ conns' = [conns EXCEPT ![c] = "running"] /\ registered' = c
    /\ st' = "listening" /\ buf' = Fresh /\ idleQueue' = 0
    /\ UNCHANGED <<slots, claimed, rewriting, moved, task, typing, lingering, inflight, historyVars,
                   count>>

Calling(c) == conns[c] \in {"connecting", "running", "closing"}

\* A rewrite of the history moves the session to another thread.
BeginRewrite ==
    /\ ~rewriting /\ claimed = NoCall /\ registered = NoCall
    /\ rewriting' = TRUE
    /\ UNCHANGED <<conns, slots, claimed, registered, moved, callVars, lingering, inflight, historyVars, count>>

EndRewrite ==
    /\ rewriting /\ rewriting' = FALSE /\ moved' = \E c \in Conns : Calling(c)
    /\ UNCHANGED <<conns, slots, claimed, registered, callVars, lingering, inflight, historyVars, count>>

-----------------------------------------------------------------------------
(* The utterance buffer.                                                   *)

Running == registered # NoCall /\ conns[registered] = "running"
IsIdle(s, b) == s = "listening" /\ ~b.inUser

\* add_user_text; for audio there is no text.
UserAdds(b, texts) == [b EXCEPT !.inUser = TRUE, !.parts = @ \o texts]

UserBoundary(b) == [b EXCEPT !.inUser = FALSE, !.last = b.parts, !.parts = <<>>, !.committed = FALSE]

\* apply_final_user_transcript.
FinalTranscript(b, u) ==
    IF b.inUser THEN [b EXCEPT !.parts = Append(@, u)]
    ELSE [b EXCEPT !.last = Append(@, u), !.committed = FALSE]

\* consume_user_text_for_commit: the text, and the buffer after it.
UserText(b) == IF b.inUser THEN b.parts ELSE IF b.committed THEN <<>> ELSE b.last

\* Mutant: a text that was stored is not remembered as stored.
ConsumeAgain(b) == b

Consume(b) == IF b.inUser \/ b.last = <<>> THEN b ELSE [b EXCEPT !.committed = TRUE]

AssistantBoundary(b) == [b EXCEPT !.inTurn = FALSE, !.ended = b.now, !.now = Quiet]

\* Mutant: what was said stays in the buffer.
InterruptKeeps(b) == [b EXCEPT !.inTurn = FALSE, !.ended = [b.now EXCEPT !.tools = <<>>]]

\* interrupt: what was said is kept as the last turn, tool calls are dropped.
Interrupt(b) ==
    [b EXCEPT !.inTurn = FALSE, !.now = Quiet,
              !.ended = IF b.now.text = <<>> THEN @ ELSE [b.now EXCEPT !.tools = <<>>]]

CurrentTurn(b) == IF b.inTurn THEN b.now ELSE b.ended

Ids(s) == {s[i] : i \in DOMAIN s}

\* _handle_assistant_boundary up to its first await, for a turn that is not empty.
Handle(t, b) ==
    /\ task' = [task EXCEPT ![t] = [Rest EXCEPT !.at = "lock", !.turn = CurrentTurn(b),
                                                !.user = UserText(b)]]
    /\ buf' = Consume(b)
    /\ reopened' = IF b.inUser THEN reopened \union Ids(b.parts) ELSE reopened

-----------------------------------------------------------------------------
(* The provider's events.  A handler that runs holds the next event up.    *)

Listens == Running /\ task["provider"].at = "rest"

\* The queue is flushed after every event that leaves the session idle.
Flush(s, b) == idleQueue' = IF IsIdle(s, b) THEN 0 ELSE idleQueue

TextDelta ==
    /\ Listens /\ More("spoken", MaxSpoken)
    /\ count' = [count EXCEPT !.spoken = @ + 1]
    /\ buf' = [buf EXCEPT !.inTurn = TRUE, !.now.text = Append(@, count.spoken + 1)]
    /\ st' = IF st \in {"listening", "thinking"} THEN "speaking" ELSE st
    /\ UNCHANGED <<managerVars, idleQueue, task, typing, lingering, inflight, historyVars>>

ToolCall ==
    /\ Listens /\ More("tools", MaxToolCalls)
    /\ count' = [count EXCEPT !.tools = @ + 1]
    /\ buf' = [buf EXCEPT !.inTurn = TRUE, !.now.tools = Append(@, count.tools + 1)]
    /\ Flush(st, buf)
    /\ UNCHANGED <<managerVars, st, task, typing, lingering, inflight, historyVars>>

\* The assistant's turn is over.  Tools of a turn that was interrupted raise in
\* transition: nothing is stored or answered; RealtimeDone, when the message has
\* it, ends the interruption.
TurnBoundary(complete) ==
    LET b == AssistantBoundary(buf) IN
    /\ Listens
    /\ IF b.ended.tools # <<>> /\ st = "interrupted"
       THEN /\ unlucky' = unlucky \union Ids(b.ended.tools)
            /\ buf' = IF complete THEN AssistantBoundary(b) ELSE b
            /\ st' = IF complete THEN "listening" ELSE st
            /\ Flush(st', buf') /\ UNCHANGED task
       ELSE /\ st' = IF b.ended.tools # <<>> THEN "tool_running" ELSE "listening"
            /\ buf' = b /\ task' = [task EXCEPT !["provider"].at = "boundary"]
            /\ UNCHANGED <<idleQueue, unlucky>>
    /\ UNCHANGED <<managerVars, typing, lingering, inflight, rows, answered, reopened, count>>

\* The client has the boundary frame, and the turn is handled.
BoundarySent ==
    /\ Running /\ task["provider"].at = "boundary"
    /\ IF Empty(CurrentTurn(buf))
       THEN task' = [task EXCEPT !["provider"] = Rest] /\ Flush(st, buf) /\ UNCHANGED <<buf, reopened>>
       ELSE Handle("provider", buf) /\ UNCHANGED idleQueue
    /\ UNCHANGED <<managerVars, st, typing, lingering, inflight, rows, answered, unlucky, count>>

InterruptedEvent ==
    /\ Listens /\ st \in {"speaking", "thinking"} /\ st' = "interrupted"
    /\ UNCHANGED <<managerVars, buf, idleQueue, task, typing, lingering, inflight,
                   historyVars, count>>

\* The provider's final transcript of what the user said, or a piece of it.
Transcript ==
    /\ Listens /\ More("said", MaxSaid)
    /\ count' = [count EXCEPT !.said = @ + 1]
    /\ buf' = FinalTranscript(buf, count.said + 1) /\ Flush(st, buf')
    /\ reopened' = IF ~buf.inUser /\ buf.committed THEN reopened \union Ids(buf.last) ELSE reopened
    /\ UNCHANGED <<managerVars, st, task, typing, lingering, inflight, rows, answered,
                   unlucky>>

-----------------------------------------------------------------------------
(* The client's frames.                                                    *)

Reads == Running /\ task["client"].at = "rest" /\ typing = 0

Audio ==
    /\ Reads /\ ~buf.inUser /\ buf' = UserAdds(buf, <<>>)
    /\ UNCHANGED <<managerVars, st, idleQueue, task, typing, lingering, inflight,
                   historyVars, count>>

AudioStreamEnd ==
    /\ Reads /\ buf' = UserBoundary(buf) /\ Flush(st, buf')
    /\ UNCHANGED <<managerVars, st, task, typing, lingering, inflight, historyVars, count>>

\* The text is in the buffer while it is sent.
TypeText ==
    /\ Reads /\ More("said", MaxSaid)
    /\ count' = [count EXCEPT !.said = @ + 1]
    /\ buf' = UserAdds(buf, <<count.said + 1>>) /\ typing' = count.said + 1
    /\ UNCHANGED <<managerVars, st, idleQueue, task, lingering, inflight, historyVars>>

TextSent ==
    /\ Running /\ typing # 0 /\ typing' = 0
    /\ buf' = UserBoundary(buf) /\ Flush(st, buf')
    /\ UNCHANGED <<managerVars, st, task, lingering, inflight, historyVars, count>>

\* Mutant: Stop settles the question and forgets the calls after it.
SettleOne(k) == [k EXCEPT !.at = "results", !.turn.tools = SubSeq(@, 1, k.next)]

\* The confirmation was cancelled by the user: this call and the ones after it
\* get a cancelled result.
SettleRest(k) == [k EXCEPT !.at = "results"]

\* The end of a call cancels both tasks: one that has an executor closes it, and
\* nothing more is stored or answered.
Cancelled(k) == IF k.at \in {"rest", "boundary", "lock"} THEN Rest ELSE [k EXCEPT !.at = "teardown"]
EndCall(tasks) ==
    /\ conns' = [conns EXCEPT ![registered] = "closing"] /\ typing' = 0 /\ task' = tasks
    /\ buf' = Fresh /\ rows' = <<>> /\ answered' = {} /\ reopened' = {} /\ unlucky' = {}

\* An interrupt frame abandons the question that is open: a confirmation is
\* settled as cancelled, an elicitation takes the call down.  Otherwise what the
\* assistant has said so far is stored as a turn; tools that run are left alone.
InterruptFrame ==
    LET asks == task["provider"].at
        b    == Interrupt(buf)
    IN /\ Reads /\ More("barges", MaxBarges) /\ count' = [count EXCEPT !.barges = @ + 1]
       /\ CASE asks = "confirm" -> /\ task' = [task EXCEPT !["provider"] = SettleRest(@)]
                                   /\ UNCHANGED <<conns, st, buf, typing, historyVars>>
            [] asks = "elicit"  -> EndCall([t \in Tasks |-> Cancelled(task[t])]) /\ UNCHANGED st
            [] st = "speaking"  -> /\ st' = "interrupted"
                                   /\ IF buf.now.text = <<>> THEN buf' = b /\ UNCHANGED <<task, reopened>>
                                      ELSE Handle("client", b)
                                   /\ UNCHANGED <<conns, typing, rows, answered, unlucky>>
            [] OTHER            -> UNCHANGED <<conns, st, buf, task, typing, historyVars>>
       /\ UNCHANGED <<slots, claimed, registered, rewriting, moved, idleQueue, lingering, inflight>>

-----------------------------------------------------------------------------
(* _handle_assistant_boundary and run_realtime_turn, after the lock.       *)

At(t, where) == Running /\ task[t].at = where
Goes(t, where) == task' = [task EXCEPT ![t].at = where]

\* The call number next has its result: the next one, or the row of results.
NextCall(k, notes) ==
    IF k.next = Len(k.turn.tools) THEN [k EXCEPT !.at = "results", !.notes = @ + notes]
    ELSE [k EXCEPT !.at = "tool", !.next = @ + 1, !.notes = @ + notes]

NewRow(who, text, tools) == [who |-> who, text |-> text, tools |-> tools]

BeginTurn(t) ==
    /\ At(t, "lock") /\ Goes(t, "user") /\ inflight' = inflight + 1
    /\ UNCHANGED <<managerVars, st, buf, idleQueue, typing, lingering, historyVars, count>>

StoreUser(t) ==
    /\ At(t, "user") /\ Goes(t, "assistant")
    /\ rows' = IF task[t].user = <<>> THEN rows ELSE Append(rows, NewRow("user", task[t].user, <<>>))
    /\ UNCHANGED <<managerVars, st, buf, idleQueue, typing, lingering, inflight, answered, reopened, unlucky,
                   count>>

StoreAssistant(t) ==
    LET turn == task[t].turn IN
    /\ At(t, "assistant") /\ Goes(t, IF turn.tools = <<>> THEN "inject" ELSE "tool")
    /\ rows' = Append(rows, NewRow("assistant", turn.text, turn.tools))
    /\ UNCHANGED <<managerVars, st, buf, idleQueue, typing, lingering, inflight, answered, reopened, unlucky,
                   count>>

\* The steps of one call: it is refused (or did not parse), asks first, runs,
\* and may ask the user for input before it is done; a hook may leave a note.
ToolStep(t) ==
    /\ \/ At(t, "tool") /\ \/ task' = [task EXCEPT ![t] = NextCall(@, 0)]
                           \/ Goes(t, "confirm") \/ Goes(t, "running")
       \/ At(t, "confirm") /\ \/ Reads /\ Goes(t, "running")
                              \/ task' = [task EXCEPT ![t] = NextCall(@, 0)]
       \/ At(t, "running") /\ \/ Goes(t, "elicit")
                              \/ \E notes \in 0..1 : task' = [task EXCEPT ![t] = NextCall(@, notes)]
       \/ At(t, "elicit") /\ task' = [task EXCEPT ![t] = NextCall(@, 0)]
    /\ UNCHANGED <<managerVars, st, buf, idleQueue, typing, lingering, inflight, historyVars, count>>

StoreResults(t) ==
    /\ At(t, "results") /\ Goes(t, "inject")
    /\ rows' = Append(rows, NewRow("results", <<>>, task[t].turn.tools))
    /\ UNCHANGED <<managerVars, st, buf, idleQueue, typing, lingering, inflight, answered, reopened, unlucky,
                   count>>

\* The results are sent at once, the notes when the session is idle.
InjectResults(t) ==
    /\ At(t, "inject") /\ Goes(t, "teardown")
    /\ answered' = answered \union Ids(task[t].turn.tools)
    /\ idleQueue' = IF IsIdle(st, buf) THEN 0 ELSE idleQueue + task[t].notes
    /\ st' = IF st = "tool_running" THEN "listening" ELSE st
    /\ UNCHANGED <<managerVars, buf, typing, lingering, inflight, rows, reopened, unlucky, count>>

\* Mutant: a turn that fails leaves the session waiting for its tools.
FailsQuietly(t) ==
    /\ task[t].at \in {"user", "assistant", "results", "inject"} /\ Running /\ Trouble
    /\ task[t].at = "inject" => task[t].turn.tools # <<>>
    /\ Goes(t, "teardown") /\ unlucky' = unlucky \union Ids(task[t].turn.tools)
    /\ UNCHANGED <<managerVars, st, buf, idleQueue, typing, lingering, inflight, rows, answered, reopened>>

\* The store, or the provider that should get the results, fails.
HandlerFails(t) ==
    /\ task[t].at \in {"user", "assistant", "results", "inject"} /\ Running /\ Trouble
    /\ task[t].at = "inject" => task[t].turn.tools # <<>>
    /\ Goes(t, "teardown") /\ unlucky' = unlucky \union Ids(task[t].turn.tools)
    /\ st' = IF st = "tool_running" THEN "listening" ELSE st
    /\ UNCHANGED <<managerVars, buf, idleQueue, typing, lingering, inflight, rows, answered, reopened>>

\* The executor is closed; the provider's task then delivers what waited.
Teardown(t) ==
    /\ task[t].at = "teardown" /\ task' = [task EXCEPT ![t] = Rest] /\ inflight' = inflight - 1
    /\ IF t = "provider" /\ Running THEN Flush(st, buf) ELSE UNCHANGED idleQueue
    /\ UNCHANGED <<managerVars, st, buf, typing, lingering, historyVars, count>>

\* Jobs were killed and the client that should hear of it is gone: the turn
\* stays counted, and the error ends the call.
TeardownLeaks(t) ==
    /\ task[t].at = "teardown" /\ MoreTrouble
    /\ count' = [count EXCEPT !.trouble = @ + 1, !.marks = @ + 1]
    /\ EndCall([u \in Tasks |-> IF u = t THEN Rest ELSE Cancelled(task[u])])
    /\ UNCHANGED <<slots, claimed, registered, rewriting, moved, st, idleQueue, lingering, inflight>>

-----------------------------------------------------------------------------
(* The end of a call.                                                      *)

\* The client closes or is lost, the provider's stream ends, or a guardrail
\* strikes: the first task to end takes the others down.
CallEnds ==
    /\ Running /\ EndCall([t \in Tasks |-> Cancelled(task[t])])
    /\ UNCHANGED <<slots, claimed, registered, rewriting, moved, st, idleQueue, lingering, inflight, count>>

\* _close_session, and the claim is given up.  Only the first cancelled task is
\* waited for: another may still be closing its executor.
CloseSession ==
    LET left == {t \in Tasks : task[t].at = "teardown"} IN
    /\ registered # NoCall /\ conns[registered] = "closing" /\ Cardinality(left) < 2
    /\ conns' = [conns EXCEPT ![registered] = "gone"] /\ registered' = NoCall /\ claimed' = NoCall
    /\ slots' = slots - 1 /\ st' = "closing" /\ idleQueue' = 0
    /\ task' = [t \in Tasks |-> Rest] /\ lingering' = lingering + Cardinality(left)
    /\ UNCHANGED <<rewriting, moved, buf, typing, inflight, historyVars, count>>

LingerEnds ==
    /\ lingering > 0 /\ lingering' = lingering - 1
    /\ \/ inflight' = inflight - 1 /\ UNCHANGED count
       \/ MoreTrouble /\ count' = [count EXCEPT !.trouble = @ + 1, !.marks = @ + 1]
          /\ UNCHANGED inflight
    /\ UNCHANGED <<managerVars, callVars, historyVars>>

RtNext ==
    \/ \E c \in Conns : AcquireSlot(c) \/ AcceptFails(c) \/ Claim(c) \/ ConnectFails(c) \/ Register(c)
    \/ BeginRewrite \/ EndRewrite
    \/ TextDelta \/ ToolCall \/ InterruptedEvent \/ Transcript \/ BoundarySent
    \/ \E complete \in BOOLEAN : TurnBoundary(complete)
    \/ Audio \/ AudioStreamEnd \/ TypeText \/ TextSent \/ InterruptFrame
    \/ \E t \in Tasks : BeginTurn(t) \/ StoreUser(t) \/ StoreAssistant(t) \/ ToolStep(t) \/ StoreResults(t)
                      \/ InjectResults(t) \/ HandlerFails(t) \/ Teardown(t) \/ TeardownLeaks(t)
    \/ CallEnds \/ CloseSession \/ LingerEnds

RtSpec == RtInit /\ [][RtNext]_rtVars

-----------------------------------------------------------------------------
(* Properties.                                                             *)

Stored(who, id) == {i \in DOMAIN rows : rows[i].who = who /\ id \in Ids(rows[i].text)}

\* A user text is stored once, whatever turns follow it and whichever task
\* stores it.  (A text that is stored while its utterance is still open, or
\* completed by a late transcript, is not: see UserRowOnce.)
UserOnce == \A u \in 1..MaxSaid \ reopened : Cardinality(Stored("user", u)) <= 1

\* What the assistant said is stored once, also when the client interrupts it
\* and the provider's own boundary follows.
SpokenOnce == \A s \in 1..MaxSpoken : Cardinality(Stored("assistant", s)) <= 1

\* "Outstanding tool calls must be answered immediately or Gemini Live hangs":
\* every stored tool call of a turn that is over has its row of results and its
\* answer, also when the user stops the batch at a question.  (Not when the
\* store or the provider failed.)
ToolsAnswered ==
    \A i \in DOMAIN rows : \A id \in Ids(rows[i].tools) :
        \/ id \in unlucky
        \/ \E t \in Tasks : task[t].at # "teardown" /\ id \in Ids(task[t].turn.tools)
        \/ id \in answered /\ \E j \in i..Len(rows) : rows[j].who = "results" /\ id \in Ids(rows[j].tools)

\* The session does not stay in tool_running, where it takes no interrupt and
\* delivers nothing, when no tools run.
NotStuck == Running /\ st = "tool_running" => task["provider"].at # "rest" /\ task["provider"].at # "teardown"

\* The reload waits for exactly the turns that hold an executor (and for the
\* marks of TeardownLeaks, for ever).
InFlightExact ==
    inflight = Cardinality({t \in Tasks : task[t].at \notin {"rest", "boundary", "lock"}}) + lingering + count.marks

\* A call and a rewrite of the history keep apart: the thread a call writes is
\* the active one from the claim on.
CallsApart ==
    \A c \in Conns : Calling(c) => ~rewriting /\ ~moved /\ claimed = c

\* Every slot belongs to a connection, or was lost in AcceptFails.
SlotsExact ==
    slots = Cardinality({c \in Conns : conns[c] \in {"accepting", "connecting", "running", "closing"}}) + count.slots

\* A note of a hook does not wait in an idle session.
IdleDelivered ==
    Running /\ IsIdle(st, buf) /\ task["provider"].at = "rest" => idleQueue = 0

\* All of the above.
RealtimeSafe ==
    /\ UserOnce /\ SpokenOnce /\ ToolsAnswered /\ NotStuck
    /\ InFlightExact /\ CallsApart /\ SlotsExact /\ IdleDelivered

\* "Consume once per utterance so tool-call then prose boundaries do not
\* duplicate the same user row in HistoryStore": no user text is stored twice.
UserRowOnce == \A u \in 1..MaxSaid : Cardinality(Stored("user", u)) <= 1
=============================================================================
