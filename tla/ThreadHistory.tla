--------------------------- MODULE ThreadHistory ---------------------------
(***************************************************************************)
(* One history thread over many turns: rows are appended, a summary of the *)
(* middle is prepared in the background (background_summary) and applied   *)
(* by the turn that crosses the bar, or the turn summarizes inline         *)
(* (history_compaction), media are frozen to text at the end of a turn,    *)
(* the user truncates while the session is idle, and a thread that         *)
(* outgrows the load limit is cut.  The turn lock orders all of it, but a  *)
(* job outlives the turn that started it and meets rows it has never seen, *)
(* among them rows that say what deleted ones said.                        *)
(***************************************************************************)
EXTENDS HistoryRows

CONSTANTS TailBudget,   \* tokens of SUMMARY_KEEP_TAIL_RATIO
          LoadMax,      \* HISTORY_LOAD_MAX
          MaxIds,       \* bound: rows ever written, the last one a summary
          NoteIds,      \* bound: rows that may be a verdict or UI-only
          Texts,        \* bound: the texts a row may have, by its id
          Media         \* bound: whether it may carry an attachment or media

ASSUME HistoryConstants ==
    TailBudget \in Nat /\ LoadMax \in Nat \ {0} /\ MaxIds \in Nat /\ NoteIds \subseteq Nat
    /\ Texts \in [1..MaxIds -> SUBSET Nat] /\ Media \in [1..MaxIds -> SUBSET {"none", "raw"}]

VARIABLES rows,      \* the stored thread
          nextId,
          job,       \* _pending[thread]: {} or one PendingSummary
          phase,     \* "idle", "turn", or what the turn awaits: "job", "inline"
          snap,      \* the rows _summarize_history loaded before its model call
          gone,      \* history: ids a truncate of the user deleted
          cutoff,    \* history: ids the load limit dropped
          twins      \* history: <<copy, row>>: a job wrote its copy over the row

histVars == <<rows, nextId, job, phase, snap, gone, cutoff, twins>>

Fresh(id, kind, of, says, media) ==
    [id |-> id, kind |-> kind, of |-> of, says |-> says, media |-> media, about |-> 0,
     tok |-> IF kind = "result" THEN 3 ELSE 1, covers |-> {}]

HistTypeOK ==
    /\ nextId \in 1..(MaxIds + 1) /\ Ids(rows) \subseteq 1..MaxIds
    /\ phase \in {"idle", "turn", "job", "inline"}
    /\ Cardinality(job) <= 1 /\ \A j \in job : j.state \in {"running", "text", "empty"}

HistInit ==
    /\ rows = <<>> /\ nextId = 1 /\ job = {} /\ phase = "idle" /\ snap = <<>>
    /\ gone = {} /\ cutoff = {} /\ twins = {}

-----------------------------------------------------------------------------
(* Turns write rows.                                                       *)

StartTurn ==
    /\ phase = "idle" /\ nextId < MaxIds
    /\ phase' = "turn"
    /\ \E says \in Texts[nextId], media \in Media[nextId] :
           rows' = Append(rows, Fresh(nextId, "user", 0, says, media))
    /\ nextId' = nextId + 1
    /\ UNCHANGED <<job, snap, gone, cutoff, twins>>

\* A reply, a verdict or a UI-only row.
AppendRow(kind) ==
    /\ phase = "turn" /\ nextId < MaxIds
    /\ kind \in {"pin", "ui"} => nextId \in NoteIds
    /\ \E says \in Texts[nextId] : rows' = Append(rows, Fresh(nextId, kind, 0, says, "none"))
    /\ nextId' = nextId + 1
    /\ UNCHANGED <<job, phase, snap, gone, cutoff, twins>>

\* A tool batch: the requests first, then one row with every response.  The
\* ids of tool calls are unique, so no request says what another one says.
AppendBatch ==
    /\ phase = "turn" /\ nextId + 1 < MaxIds
    /\ \E says \in Texts[nextId + 1], media \in Media[nextId + 1] :
           rows' = rows \o <<Fresh(nextId, "call", 0, nextId, "none"),
                            Fresh(nextId + 1, "result", nextId, says, media)>>
    /\ nextId' = nextId + 2
    /\ UNCHANGED <<job, phase, snap, gone, cutoff, twins>>

\* The description of a frozen attachment is the last reply of the turn, or
\* else the text it came with; that of a tool's media is about the tool.
Described(r) ==
    LET asked   == Max({0} \cup {i \in DOMAIN rows : rows[i].kind = "user"})
        replies == {i \in DOMAIN rows : i > asked /\ rows[i].kind = "reply"}
    IN  IF r.kind = "result" \/ replies = {} THEN r.says ELSE rows[Max(replies)].says

Freeze(r) ==
    IF r.media = "raw" THEN [r EXCEPT !.media = "frozen", !.about = Described(r)] ELSE r

\* freeze_attachments_in_history at the tail of the turn rewrites every row
\* whose media are not frozen yet, those of stopped turns too; a turn that
\* raises or is cancelled does not come to it.
EndTurn ==
    /\ phase = "turn" /\ phase' = "idle"
    /\ rows' \in {rows, [i \in DOMAIN rows |-> Freeze(rows[i])]}
    /\ UNCHANGED <<nextId, job, snap, gone, cutoff, twins>>

-----------------------------------------------------------------------------
(* The background job.                                                     *)

\* Mutant: the stored prefix is not compared with the one the job read.
JobFreshUncovered(j) ==
    /\ j.state # "empty"
    /\ j.cut <= Len(rows)
    /\ Len(rows) >= j.base
    /\ TailTokens(SubSeq(rows, j.cut + 1, Len(rows))) <= Max({j.suffix, TailBudget})

JobFresh(j) ==
    /\ j.state # "empty"
    /\ j.cut <= Len(rows) /\ \A i \in 1..j.cut : Same(rows[i], j.covered[i])
    /\ Len(rows) >= j.base
    /\ TailTokens(SubSeq(rows, j.cut + 1, Len(rows))) <= Max({j.suffix, TailBudget})

\* Mutant: a second job is started beside the first.
MaybeStartAgain ==
    LET sp  == SplitForCompaction(rows, TailBudget)
        cut == IF sp.tail = <<>> THEN Len(rows)
               ELSE (CHOOSE i \in DOMAIN rows : rows[i].id = sp.tail[1].id) - 1
    IN  /\ phase = "turn"
        /\ ~\E j \in job : JobFresh(j)
        /\ Compactable(sp) /\ sp.tail # <<>> /\ cut > 0 /\ cut < Len(rows)
        /\ job' = job \cup {[cut |-> cut, covered |-> SubSeq(rows, 1, cut),
                    head |-> sp.head, middle |-> sp.middle, base |-> Len(rows),
                    suffix |-> TailTokens(SubSeq(rows, cut + 1, Len(rows))), state |-> "running"]}
        /\ UNCHANGED <<rows, nextId, phase, snap, gone, cutoff, twins>>

\* maybe_start: past the moderate band a job is started unless a fresh one runs.
MaybeStart ==
    LET sp  == SplitForCompaction(rows, TailBudget)
        cut == IF sp.tail = <<>> THEN Len(rows)
               ELSE (CHOOSE i \in DOMAIN rows : rows[i].id = sp.tail[1].id) - 1
    IN  /\ phase = "turn"
        /\ ~\E j \in job : JobFresh(j)
        /\ Compactable(sp) /\ sp.tail # <<>> /\ cut > 0 /\ cut < Len(rows)
        /\ job' = {[cut |-> cut, covered |-> SubSeq(rows, 1, cut),
                    head |-> sp.head, middle |-> sp.middle, base |-> Len(rows),
                    suffix |-> TailTokens(SubSeq(rows, cut + 1, Len(rows))), state |-> "running"]}
        /\ UNCHANGED <<rows, nextId, phase, snap, gone, cutoff, twins>>

JobEnds ==
    /\ \E j \in job, s \in {"text", "empty"} :
          j.state = "running" /\ job' = {[j EXCEPT !.state = s]}
    /\ UNCHANGED <<rows, nextId, phase, snap, gone, cutoff, twins>>

-----------------------------------------------------------------------------
(* Compaction by the turn that crosses the bar.                            *)

InlineFrom == phase' = "inline" /\ snap' = rows

\* apply_pending_summary up to its await, or the inline summarizer at once.
\* A bare row is never compacted: _summarization_viable gates the call.
Compact ==
    /\ phase = "turn" /\ nextId <= MaxIds
    /\ Compactable(SplitForCompaction(rows, TailBudget))
    /\ \/ /\ \E j \in job : JobFresh(j)
          /\ phase' = "job"
          /\ UNCHANGED <<job, snap>>
       \/ /\ ~\E j \in job : JobFresh(j)
          /\ job' = {}
          /\ InlineFrom
    /\ UNCHANGED <<rows, nextId, gone, cutoff, twins>>

\* The copies of a job that are not the row they are equal to.
Stands(j) == {<<j.covered[i], rows[i]>> : i \in {k \in 1..j.cut : rows[k].id # j.covered[k].id}}

\* The job's text is there: load again, check again, and write the rows the
\* job had read, with their ids, before the rows that followed.
ApplyJob ==
    /\ phase = "job"
    /\ \E j \in job :
          /\ j.state # "running"
          /\ job' = {}
          /\ IF JobFresh(j)
             THEN /\ rows' = RebuildCompacted(j.covered, j.head, SummaryOf(nextId, j.middle), <<>>)
                                 \o SubSeq(rows, j.cut + 1, Len(rows))
                  /\ nextId' = nextId + 1
                  /\ twins' = twins \cup Stands(j)
                  /\ gone' = gone \ {s[1].id : s \in Stands(j)}
                  /\ phase' = "turn" /\ UNCHANGED snap
             ELSE InlineFrom /\ UNCHANGED <<rows, nextId, gone, twins>>
    /\ UNCHANGED cutoff

\* The inline model call answers, with text or not at all.
InlineEnds ==
    /\ phase = "inline"
    /\ phase' = "turn" /\ snap' = <<>>
    /\ LET sp == SplitForCompaction(snap, TailBudget)
       IN  \/ /\ rows' = RebuildCompacted(snap, sp.head, SummaryOf(nextId, sp.middle), sp.tail)
              /\ nextId' = nextId + 1
           \/ UNCHANGED <<rows, nextId>>
    /\ UNCHANGED <<job, gone, cutoff, twins>>

\* Stop while the turn awaits a summary: the job stays registered.
CancelCompaction ==
    /\ phase \in {"job", "inline"}
    /\ phase' = "idle" /\ snap' = <<>>
    /\ UNCHANGED <<rows, nextId, job, gone, cutoff, twins>>

\* _apply_history_load_max_safety.
LoadMaxSafety ==
    /\ phase = "turn" /\ Len(rows) > LoadMax
    /\ rows' = TruncatePreservingPins(rows, LoadMax)
    /\ cutoff' = cutoff \cup (Ids(rows) \ Ids(rows')) \cup (Covered(rows) \ Covered(rows'))
    /\ UNCHANGED <<nextId, job, phase, snap, gone, twins>>

-----------------------------------------------------------------------------
(* The user rewinds while the session is idle (POST /truncate).            *)

TruncateActive ==
    /\ phase = "idle"
    /\ \E i \in DOMAIN rows :
          LET end == RewindEnd(rows, i)
          IN  /\ KeepsSummary(rows, end) /\ end < Len(rows)
              /\ ~SplitsToolPair(rows, end)
              /\ rows' = SubSeq(rows, 1, end)
              /\ gone' = gone \cup Ids(SubSeq(rows, end + 1, Len(rows)))
    /\ UNCHANGED <<nextId, job, phase, snap, cutoff, twins>>

HistNext ==
    \/ StartTurn \/ AppendBatch \/ EndTurn
    \/ \E k \in {"reply", "pin", "ui"} : AppendRow(k)
    \/ MaybeStart \/ JobEnds \/ Compact \/ ApplyJob \/ InlineEnds
    \/ CancelCompaction \/ LoadMaxSafety \/ TruncateActive

HistSpec == HistInit /\ [][HistNext]_histVars

-----------------------------------------------------------------------------
(* Properties.                                                             *)

\* Every row ever written is still there, or stands in exactly one summary,
\* or was deleted by the user or by the load limit, or a row that says the
\* same took its place: a job that outlived its turn never drops what it has
\* not seen, and brings a deleted row back only for one that says the same.
RowsAccounted ==
    LET there == Ids(rows)  summed == Covered(rows)
    IN  /\ there \cup summed \cup gone \cup cutoff \cup {s[2].id : s \in twins} = 1..(nextId - 1)
        /\ there \cap summed = {} /\ there \cap gone = {}
        /\ \A s \in twins : Same(s[1], s[2])
        /\ \A i, k \in DOMAIN rows : i # k => rows[i].covers \cap rows[k].covers = {}

\* Rows keep the order in which they were written, whatever was compacted.
OrderKept ==
    \A i, k \in DOMAIN rows :
        i < k /\ rows[i].kind # "summary" /\ rows[k].kind # "summary" => rows[i].id < rows[k].id

\* A stored tool response keeps its request beside it: no compaction, now or
\* by an old job, leaves one without the other (only the load limit may).
PairsKept == Responses(rows) \subseteq Requests(rows) \cup cutoff

\* The oldest row, the goal of the conversation, and every verdict survive,
\* or a row that says the same does.
GoalAndPinsKept ==
    [][\A i \in DOMAIN rows :
          rows[i].kind = "pin" \/ (ProviderVisible(rows[i]) /\ ~\E k \in 1..(i - 1) : ProviderVisible(rows[k])) =>
              \/ rows[i].id \in Ids(rows') \cup gone' \cup cutoff'
              \/ \E r \in Range(rows') : Same(r, rows[i])]_histVars

\* Compaction loses no text, brings back none that nobody said again, keeps the
\* order and the pairs, though its summary was prepared on an older copy.
CompactionSafe == RowsAccounted /\ OrderKept /\ PairsKept
=============================================================================
