---------------------------- MODULE HistoryRows ----------------------------
(***************************************************************************)
(* The stored rows of a conversation and the pure functions that cut them: *)
(* which rows a compaction keeps, where its summary goes, what a rewind or *)
(* an edit keeps.  A row has an id and a kind: "user" (text of the user),  *)
(* "reply" (assistant text), "call" (tool request with the row's id),      *)
(* "result" (response to the call "of"), "pin" (verifier verdict), "ui"    *)
(* (nothing a provider sees) or "summary".  says is its text, media what   *)
(* is attached ("none", "raw", or "frozen" to a text that says about), tok *)
(* its weight; covers is the history of a summary: the ids of the rows it  *)
(* stands for.                                                             *)
(***************************************************************************)
EXTENDS FiniteSetsExt, SequencesExt, Sublists

KeepTailMin == 2    \* SUMMARY_KEEP_TAIL_MIN; the kept head is one row

\* Message equality: row_id is compare=False.
Same(r, q) == [r EXCEPT !.id = q.id] = q

Ids(s) == {s[i].id : i \in DOMAIN s}

\* Mutant: verdict rows are compacted like any other row.
PinnedNever(r) == FALSE

Pinned(r) == r.kind = "pin"

\* A row some block of which survives transform_context.
ProviderVisible(r) == r.kind \notin {"pin", "ui"}

Requests(s) == {s[i].id : i \in {j \in DOMAIN s : s[j].kind = "call"}}

Responses(s) == {s[i].of : i \in {j \in DOMAIN s : s[j].kind = "result"}}

Covered(s) == UNION {s[i].covers : i \in DOMAIN s}

TailTokens(s) == MapThenSumSet(LAMBDA i : IF ProviderVisible(s[i]) THEN s[i].tok ELSE 0, DOMAIN s)

-----------------------------------------------------------------------------
(* Compaction: head, middle and tail of the rows that are not pinned.      *)

\* Mutant: the tail is not pulled back to the request of a response.
TailStartUnpaired(ms, headEnd, budget) ==
    LET n == Len(ms)
        Fits(j) ==
            LET newer == SubSeq(ms, j + 1, n)
                seen  == {i \in DOMAIN newer : ProviderVisible(newer[i])}
            IN  /\ n - j < n - headEnd - 1
                /\ ProviderVisible(ms[j]) =>
                       Cardinality(seen) < KeepTailMin \/ TailTokens(newer) + ms[j].tok <= budget
        start  == Min({s \in (headEnd + 1)..(n + 1) : \A j \in s..n : Fits(j)})
        tail   == SubSeq(ms, start, n)
        owed   == Responses(tail) \ Requests(tail)
        owners == {i \in 1..(start - 1) : ms[i].kind = "call" /\ ms[i].id \in owed}
    IN  start

\* Start of the tail: newest rows while they fit the budget, at least two
\* visible ones, never the whole rest, pulled back to the request of a kept
\* response.
TailStart(ms, headEnd, budget) ==
    LET n == Len(ms)
        Fits(j) ==
            LET newer == SubSeq(ms, j + 1, n)
                seen  == {i \in DOMAIN newer : ProviderVisible(newer[i])}
            IN  /\ n - j < n - headEnd - 1
                /\ ProviderVisible(ms[j]) =>
                       Cardinality(seen) < KeepTailMin \/ TailTokens(newer) + ms[j].tok <= budget
        start  == Min({s \in (headEnd + 1)..(n + 1) : \A j \in s..n : Fits(j)})
        tail   == SubSeq(ms, start, n)
        owed   == Responses(tail) \ Requests(tail)
        owners == {i \in 1..(start - 1) : ms[i].kind = "call" /\ ms[i].id \in owed}
    IN  IF owed # {} /\ owed = {ms[i].id : i \in owners} THEN Min(owners) ELSE start

SplitForCompaction(rows, budget) ==
    LET ms  == Sublist(rows, {i \in DOMAIN rows : ~Pinned(rows[i])})
        n   == Len(ms)
        vis == {i \in DOMAIN ms : ProviderVisible(ms[i])}
        headEnd == Min(vis)
        start   == TailStart(ms, headEnd, budget)
    IN  IF Cardinality(vis) < 1 + KeepTailMin + 1
        THEN [head |-> ms, middle |-> <<>>, tail |-> <<>>]
        ELSE [head   |-> SubSeq(ms, 1, IF start <= headEnd THEN start - 1 ELSE headEnd),
              middle |-> SubSeq(ms, headEnd + 1, start - 1),
              tail   |-> SubSeq(ms, start, n)]

\* _summarization_viable: some middle row yields a summary line.
Compactable(sp) == \E i \in DOMAIN sp.middle : ProviderVisible(sp.middle[i])

SummaryOf(id, middle) ==
    [id |-> id, kind |-> "summary", of |-> 0, says |-> id, media |-> "none", about |-> 0, tok |-> 1,
     covers |-> Ids(middle) \cup Covered(middle)]

\* Mutant: the head goes behind the rows that follow the summary.
RebuildCompactedTailFirst(rows, head, summary, tail) ==
    LET kept == {i \in DOMAIN rows : Pinned(rows[i]) \/ rows[i].id \in Ids(head) \cup Ids(tail)}
        cut == {i \in DOMAIN rows : ~Pinned(rows[i]) /\ rows[i].id \notin Ids(head)}
        at  == IF cut = {} THEN Len(rows) + 1 ELSE Min(cut)
    IN  Sublist(rows, {i \in kept : i >= at}) \o <<summary>> \o Sublist(rows, {i \in kept : i < at})

\* The summary takes the place of the first row that is neither pinned nor head.
RebuildCompacted(rows, head, summary, tail) ==
    LET kept == {i \in DOMAIN rows : Pinned(rows[i]) \/ rows[i].id \in Ids(head) \cup Ids(tail)}
        cut == {i \in DOMAIN rows : ~Pinned(rows[i]) /\ rows[i].id \notin Ids(head)}
        at  == IF cut = {} THEN Len(rows) + 1 ELSE Min(cut)
    IN  Sublist(rows, {i \in kept : i < at}) \o <<summary>> \o Sublist(rows, {i \in kept : i >= at})

\* Newest accountable rows plus the pinned ones; old pins go last.
TruncatePreservingPins(rows, max) ==
    LET pins == {i \in DOMAIN rows : Pinned(rows[i])}
        acc  == DOMAIN rows \ pins
        room == IF max > Cardinality(pins) THEN max - Cardinality(pins) ELSE 0
        kept == pins \cup {i \in acc : Cardinality({j \in acc : j > i}) < room}
        drop == {i \in pins : Cardinality({j \in pins : j < i}) < Cardinality(kept) - max}
        last == IF Cardinality(kept) > max THEN kept \ drop ELSE kept
    IN  IF Len(rows) <= max THEN rows
        ELSE Sublist(rows, last)

-----------------------------------------------------------------------------
(* Rewrites: the exclusive end of the prefix an operation keeps.           *)

LastSummary(rows) == LET s == {i \in DOMAIN rows : rows[i].kind = "summary"} IN IF s = {} THEN 0 ELSE Max(s)

\* A user row keeps itself; any other row keeps the rest of its turn.
RewindEnd(rows, i) ==
    IF rows[i].kind = "user" THEN i
    ELSE Max({e \in i..Len(rows) : \A j \in (i + 1)..e : rows[j].kind # "user"})

SplitsToolPair(rows, end) ==
    LET kept == SubSeq(rows, 1, end)  cut == SubSeq(rows, end + 1, Len(rows))
    IN  Requests(kept) \cap Responses(cut) # {} \/ Responses(kept) \cap Requests(cut) # {}

KeepsSummary(rows, end) == LastSummary(rows) <= end
=============================================================================
