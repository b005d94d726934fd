--------------------------- MODULE ToolIntegrity ---------------------------
(***************************************************************************)
(* transform_context: from the stored rows of a thread to the messages a   *)
(* provider accepts.  A message is [role, blocks]; a block is              *)
(* [t, id, syn, named] with t in "text", "ui" (never leaves the process),  *)
(* "think", "req" and "res" for the tool call id; syn marks what the       *)
(* repair made up, named a result that says which tool it is of.  The      *)
(* stored rows grow block by block, so that every history a crash, a cut   *)
(* or a rewind can leave is a state.                                       *)
(***************************************************************************)
EXTENDS Naturals, Sequences, SequencesExt, FiniteSetsExt

CONSTANTS CallIds,   \* tool call ids, reused by some providers
          MaxBlocks  \* blocks of a stored history

VARIABLE stored

Block(t, id) == [t |-> t, id |-> id, syn |-> FALSE, named |-> TRUE]
Unnamed(b) == [b EXCEPT !.named = FALSE]
NoCall == 0

Blocks == [role \in {"user", "assistant"} |->
    {Block("text", NoCall), Block("ui", NoCall)}
        \union (IF role = "user"
                THEN UNION {{Block("res", c), Unnamed(Block("res", c))} : c \in CallIds}
                ELSE {Block("req", c) : c \in CallIds} \union {Block("think", NoCall)})]

IdsOf(m, t) == {b.id : b \in {b \in ToSet(m.blocks) : b.t = t}}

Size(ms) == FoldFunction(LAMBDA m, n : n + Len(m.blocks), 0, ms)

-----------------------------------------------------------------------------
(* Stripping and merging.                                                  *)

\* Thinking stays only beside a tool request.
VisibleBlocks(m) ==
    SelectSeq(m.blocks, LAMBDA b : b.t # "ui" /\ (b.t = "think" => IdsOf(m, "req") # {}))

Strip(ms) ==
    SelectSeq([i \in DOMAIN ms |-> [ms[i] EXCEPT !.blocks = VisibleBlocks(ms[i])]],
              LAMBDA m : m.blocks # <<>>)

Coalesce(ms) ==
    FoldLeft(LAMBDA out, m : IF out # <<>> /\ Last(out).role = m.role
                             THEN [out EXCEPT ![Len(out)].blocks = @ \o m.blocks]
                             ELSE Append(out, m),
             <<>>, ms)

-----------------------------------------------------------------------------
(* Repair.  acc is [out, answered, owed]: the messages so far, the ids with *)
(* a result, and the requests of the assistant message just read.          *)

Synthetic(t, id) == [Block(t, id) EXCEPT !.syn = TRUE]

SyntheticBlocks(t, ids) == LET order == SetToSortSeq(ids, <) IN [k \in DOMAIN order |-> Synthetic(t, order[k])]

SyntheticResults(m) ==
    LET reqs == SelectSeq(m.blocks, LAMBDA b : b.t = "req") IN [k \in DOMAIN reqs |-> Synthetic("res", reqs[k].id)]

\* Mutant: a repeated result is kept.
KeptAll(m, owed, answered) ==
    {i \in DOMAIN m.blocks :
        m.blocks[i].t = "res" =>
            /\ TRUE
            /\ m.blocks[i].id \in answered => m.blocks[i].id \in owed}

\* Positions of the blocks _settle_user_message keeps.
Kept(m, owed, answered) ==
    {i \in DOMAIN m.blocks :
        m.blocks[i].t = "res" =>
            /\ \A j \in 1..(i - 1) : m.blocks[j].t = "res" => m.blocks[j].id # m.blocks[i].id
            /\ m.blocks[i].id \in answered => m.blocks[i].id \in owed}

\* Mutant: a result is sent without the name of its tool.
WithNameNever(b, owed) == b

\* A result without the name of its tool takes the one of its request.
WithName(b, owed) == IF b.t = "res" /\ b.id \in owed THEN [b EXCEPT !.named = TRUE] ELSE b

\* An orphan gets a request made up for it, unless its tool is not known.
SettleUserMessage(acc, m) ==
    LET order   == SetToSortSeq(Kept(m, acc.owed, acc.answered), <)
        kept    == [k \in DOMAIN order |-> WithName(m.blocks[order[k]], acc.owed)]
        have    == {b.id : b \in {b \in ToSet(kept) : b.t = "res"}}
        blocks  == kept \o SyntheticBlocks("res", acc.owed \ have)
        orphans == SelectSeq(kept, LAMBDA b : b.t = "res" /\ b.id \notin acc.owed /\ b.named)
        calls   == [k \in DOMAIN orphans |-> Synthetic("req", orphans[k].id)]
    IN  [out |-> acc.out
                 \o (IF calls = <<>> THEN <<>> ELSE <<[role |-> "assistant", blocks |-> calls]>>)
                 \o (IF blocks = <<>> THEN <<>> ELSE <<[role |-> "user", blocks |-> blocks]>>),
         answered |-> acc.answered \union have \union acc.owed,
         owed |-> {}]

\* Requests without a user message behind them get their results in a row of
\* their own.
SettleMissing(acc) ==
    IF acc.owed = {} THEN acc
    ELSE [out |-> Append(acc.out, [role |-> "user", blocks |-> SyntheticResults(Last(acc.out))]),
          answered |-> acc.answered \union acc.owed, owed |-> {}]

RepairStep(acc, m) ==
    IF m.role = "assistant"
    THEN LET a == SettleMissing(acc) IN [a EXCEPT !.out = Append(@, m), !.owed = IdsOf(m, "req")]
    ELSE IF acc.owed # {} \/ IdsOf(m, "res") # {} THEN SettleUserMessage(acc, m)
    ELSE [acc EXCEPT !.out = Append(@, m)]

Repair(ms) == SettleMissing(FoldLeft(RepairStep, [out |-> <<>>, answered |-> {}, owed |-> {}], ms)).out

\* Mutant: the repair reads the stored rows before they are stripped.
TransformContextOldOrder(ms) == Coalesce(Strip(Repair(ms)))

\* Mutant: the repaired rows are not merged again.
TransformContextUnmerged(ms) == Repair(Coalesce(Strip(ms)))

TransformContext(ms) == Coalesce(Repair(Coalesce(Strip(ms))))

-----------------------------------------------------------------------------
(* The histories.                                                          *)

WireInit == stored = <<>>

\* Within one run of assistant rows a provider does not repeat a call id.
FreshCalls(ms) ==
    \A m \in ToSet(Coalesce(Strip(ms))) :
        \A j, k \in DOMAIN m.blocks : (j # k /\ m.blocks[j].t = "req") => m.blocks[j] # m.blocks[k]

AddBlock ==
    /\ Size(stored) < MaxBlocks
    /\ \E role \in DOMAIN Blocks : \E b \in Blocks[role] :
          \/ stored' = Append(stored, [role |-> role, blocks |-> <<b>>])
          \/ /\ stored # <<>> /\ Last(stored).role = role
             /\ stored' = [stored EXCEPT ![Len(stored)].blocks = Append(@, b)]
    /\ FreshCalls(stored')

-----------------------------------------------------------------------------
NamedResults(m) == {b.id : b \in {b \in ToSet(m.blocks) : b.t = "res" /\ b.named}}

\* What providers demand: roles alternate, every result answers a request of
\* the message before it and every request has exactly one result after it.
\* Only a stored result that names no tool and follows no request of its own
\* is left as it is.
WireValid ==
    LET ms == TransformContext(stored) IN
    \A i \in DOMAIN ms :
        /\ ms[i].blocks # <<>>
        /\ i > 1 => ms[i].role # ms[i - 1].role
        /\ \A j, k \in DOMAIN ms[i].blocks :
              (ms[i].blocks[j].t = "res" /\ ms[i].blocks[k].t = "res" /\ j # k)
                  => ms[i].blocks[j].id # ms[i].blocks[k].id
        /\ ms[i].role = "user" => NamedResults(ms[i]) = IF i = 1 THEN {} ELSE IdsOf(ms[i - 1], "req")
        /\ ms[i].role = "assistant" /\ i = Len(ms) => IdsOf(ms[i], "req") = {}

\* The repair is a fixed point: a repaired context is sent as it is, and no
\* repair of a repair piles up placeholder rows.
RepairOnce == LET ms == TransformContext(stored) IN TransformContext(ms) = ms

\* A result the store holds right behind its request is the one the provider
\* gets, whatever user-interface rows stand between the two; nothing else of
\* the conversation is dropped or reordered.
StoredResultWins ==
    LET seen == Coalesce(Strip(stored))
        out  == TransformContext(stored)
        Told(c, m) == \E b \in ToSet(m.blocks) : b.t = "res" /\ b.id = c /\ ~b.syn
        real == FlattenSeq([i \in DOMAIN out |-> SelectSeq(out[i].blocks, LAMBDA b : ~b.syn)])
    IN  /\ \A i \in 1..(Len(seen) - 1) :
              seen[i].role = "assistant" =>
                  \A c \in IdsOf(seen[i], "req") \intersect IdsOf(seen[i + 1], "res") :
                      Cardinality({k \in DOMAIN out : Told(c, out[k])}) >=
                          Cardinality({k \in 1..(Len(seen) - 1) : /\ c \in IdsOf(seen[k], "req")
                                                                  /\ c \in IdsOf(seen[k + 1], "res")})
        /\ SelectSeq(real, LAMBDA b : b.t # "res") =
               SelectSeq(FlattenSeq([i \in DOMAIN seen |-> seen[i].blocks]), LAMBDA b : b.t # "res")

\* What is sent to the provider is valid, stays as it is when it is sent
\* again, and says what the store says.
WireSound == WireValid /\ RepairOnce /\ StoredResultWins
=============================================================================
