----------------------------- MODULE GoalLedger -----------------------------
(***************************************************************************)
(* The goal ledger of one thread (core/verifier/ledger.py,                 *)
(* core/persistence/goal_ledger.py and core/verifier/rewrite_effects.py).  *)
(*                                                                         *)
(* A row of the user is admitted to a queue; a worker has it classified    *)
(* and stores an entry, which may defer or supersede an earlier one.  A    *)
(* rewrite of the history drops entries again and undoes what they did: it *)
(* waits for the worker, but only for a while.                             *)
(***************************************************************************)
EXTENDS Sublists

CONSTANTS MaxRows,     \* bound: rows admitted
          MaxEntries,  \* max_entries_per_thread
          MaxRewrites, \* bound: rewrites of the history
          MaxBroken    \* bound: errors of the store

ASSUME LedgerConstants == MaxRows \in Nat /\ MaxRewrites \in Nat

None == 0
Unseen == <<"none">>

VARIABLES entries,  \* the stored entries, in the order of seq
          queue,    \* the jobs not taken yet
          worker,   \* what the worker does
          pending,  \* _pending
          gen,      \* _generations
          droppedRows, \* _dropped_rows
          cache,    \* the cached view, or Unseen
          rewrite,  \* what a rewrite does
          copied,   \* the entries a branch got
          said,     \* rows said so far
          kept,     \* the ones still in the history
          rewrites, broken, \* bounds
          pruned,   \* has an entry been pruned?
          hasty     \* has a rewrite not waited for the worker, and no job come after it?

glVars == <<entries, queue, worker, pending, gen, droppedRows, cache, rewrite, copied, said, kept,
            rewrites, broken, pruned, hasty>>

Idle == [at |-> "idle"]

Intents == {"new_goal", "preempt", "refinement", "noise"}
Statuses == {"active", "deferred", "superseded", "satisfied"}

GlTypeOK ==
    /\ \A i \in DOMAIN entries : entries[i] \in
           [row : 1..MaxRows, intent : Intents, status : Statuses, relates : 0..MaxRows]
    /\ worker.at \in {"idle", "list", "classify", "commit", "prune", "finish", "refresh", "show"}
    /\ rewrite.at \in {"idle", "drain", "read", "cut", "refresh", "show"}
    /\ pending \in 0..MaxRows /\ gen \in 0..MaxRewrites /\ kept \subseteq 1..said /\ said <= MaxRows

GlInit ==
    /\ entries = <<>> /\ queue = <<>> /\ worker = Idle /\ pending = 0 /\ gen = 0 /\ droppedRows = {}
    /\ cache = Unseen /\ rewrite = Idle /\ copied = <<>> /\ said = 0 /\ kept = {}
    /\ rewrites = 0 /\ broken = 0 /\ pruned = FALSE /\ hasty = FALSE

\* resolve_intent: the last active goal and the deferred ones.
View(es) ==
    LET active == {i \in DOMAIN es : es[i].status = "active"}
    IN <<IF active = {} THEN None ELSE es[CHOOSE i \in active : \A j \in active : j <= i].row,
         {es[i].row : i \in {j \in DOMAIN es : es[j].status = "deferred"}}>>

Index(es, row) == CHOOSE i \in DOMAIN es : es[i].row = row
Has(es, row) == \E i \in DOMAIN es : es[i].row = row
WithStatus(es, row, status) ==
    [i \in DOMAIN es |-> IF es[i].row = row THEN [es[i] EXCEPT !.status = status] ELSE es[i]]

\* _RELATED_STATUS, and the status an entry starts with.
Related == [new_goal |-> "superseded", preempt |-> "deferred"]
Own(e) == IF e.intent = "noise" THEN "satisfied" ELSE "active"

-----------------------------------------------------------------------------
(* Rows and the worker.                                                    *)

\* admit, in a turn: a rewrite holds the turn lock.
Admit ==
    /\ rewrite = Idle /\ said < MaxRows
    /\ said' = said + 1 /\ kept' = kept \union {said + 1}
    /\ queue' = Append(queue, [row |-> said + 1, gen |-> gen]) /\ pending' = pending + 1
    /\ cache' = IF cache = Unseen THEN View(<<>>) ELSE cache
    /\ UNCHANGED <<entries, worker, gen, droppedRows, rewrite, copied, rewrites, broken, pruned, hasty>>

\* Mutant: only the rows a truncate dropped are skipped.
IsDropped(job) == job.row \in droppedRows

\* _is_stale
IsStale(job) == job.gen # gen \/ job.row \in droppedRows

Take ==
    /\ worker = Idle /\ queue # <<>>
    /\ worker' = [at |-> IF IsStale(Head(queue)) THEN "finish" ELSE "list", job |-> Head(queue)]
    /\ queue' = Tail(queue) /\ hasty' = (hasty /\ rewrite # Idle)
    /\ UNCHANGED <<entries, pending, gen, droppedRows, cache, rewrite, copied, said, kept, rewrites, broken, pruned>>

List ==
    /\ worker.at = "list"
    /\ worker' = [at |-> "classify", job |-> worker.job, seen |-> entries]
    /\ UNCHANGED <<entries, queue, pending, gen, droppedRows, cache, rewrite, copied, said, kept, rewrites, broken,
                   pruned, hasty>>

\* The entry a classification becomes: a goal that names no other one relates
\* to the last active goal the worker saw.
Classified(job, seen, intent, relates) ==
    LET last == View(seen)[1]
        to   == IF relates # None /\ Has(seen, relates) THEN relates
                ELSE IF intent # "noise" THEN last ELSE None
    IN [row |-> job.row, intent |-> intent, relates |-> to,
        status |-> IF intent = "noise" THEN "satisfied" ELSE "active"]

\* Mutant: what a rewrite dropped while the classifier ran is stored.
ClassifyAnyway(intent, relates) ==
    /\ worker.at = "classify"
    /\ worker' = [at |-> "commit", job |-> worker.job,
                  entry |-> Classified(worker.job, worker.seen, intent, relates)]
    /\ UNCHANGED <<entries, queue, pending, gen, droppedRows, cache, rewrite, copied, said, kept, rewrites,
                   broken, pruned, hasty>>

\* The classifier answers, or fails open; the job may be stale by now.
Classify(intent, relates) ==
    /\ worker.at = "classify"
    /\ worker' = IF IsStale(worker.job) THEN [at |-> "finish", job |-> worker.job]
                 ELSE [at |-> "commit", job |-> worker.job,
                       entry |-> Classified(worker.job, worker.seen, intent, relates)]
    /\ UNCHANGED <<entries, queue, pending, gen, droppedRows, cache, rewrite, copied, said, kept, rewrites,
                   broken, pruned, hasty>>

\* commit_classified, one transaction.
Commit ==
    LET e == worker.entry IN
    /\ worker.at = "commit"
    /\ entries' = Append(IF e.intent \in DOMAIN Related /\ e.relates # None
                         THEN WithStatus(entries, e.relates, Related[e.intent]) ELSE entries, e)
    /\ worker' = [at |-> "prune", job |-> worker.job]
    /\ UNCHANGED <<queue, pending, gen, droppedRows, cache, rewrite, copied, said, kept, rewrites, broken, pruned, hasty>>

\* Entries that are over go first to last, as many as are too many.
Prune ==
    LET over == {i \in DOMAIN entries : entries[i].status \in {"superseded", "satisfied"}}
        many == Len(entries) - MaxEntries
        goes == {j \in over : Cardinality({k \in over : k < j}) < many}
    IN /\ worker.at = "prune"
       /\ worker' = [at |-> "finish", job |-> worker.job]
       /\ entries' = IF Len(entries) <= MaxEntries THEN entries
                     ELSE Sublist(entries, DOMAIN entries \ goes)
       /\ pruned' = (pruned \/ entries' # entries)
       /\ UNCHANGED <<queue, pending, gen, droppedRows, cache, rewrite, copied, said, kept, rewrites, broken, hasty>>

StoreFails ==
    /\ worker.at \in {"list", "commit"} /\ broken < MaxBroken /\ broken' = broken + 1
    /\ worker' = [at |-> "finish", job |-> worker.job]
    /\ UNCHANGED <<entries, queue, pending, gen, droppedRows, cache, rewrite, copied, said, kept, rewrites, pruned, hasty>>

\* The marks of a rewrite go with the last job.
Finish ==
    /\ worker.at = "finish" /\ worker' = [at |-> "refresh"]
    /\ pending' = pending - 1
    /\ IF pending = 1 THEN gen' = 0 /\ droppedRows' = {} ELSE UNCHANGED <<gen, droppedRows>>
    /\ UNCHANGED <<entries, queue, cache, rewrite, copied, said, kept, rewrites, broken, pruned, hasty>>

\* _refresh_view, then the job counts as done.
Refresh ==
    /\ \/ worker.at = "refresh" /\ worker' = [at |-> "show", seen |-> entries] /\ UNCHANGED cache
       \/ worker.at = "show" /\ worker' = Idle /\ cache' = View(worker.seen)
    /\ UNCHANGED <<entries, queue, pending, gen, droppedRows, rewrite, copied, said, kept, rewrites, broken, pruned, hasty>>

-----------------------------------------------------------------------------
(* Rewrites of the history.                                                *)

Begin(op) ==
    /\ rewrite = Idle /\ rewrites < MaxRewrites /\ rewrites' = rewrites + 1
    /\ rewrite' = op /\ UNCHANGED <<entries, queue, worker, pending, cache, copied, said, broken, pruned, hasty>>

\* drop_rows: the rows from the number from on are gone from the history.
DropRows(from) ==
    /\ Begin([at |-> "drain", op |-> "drop", from |-> from])
    /\ kept' = {r \in kept : r < from}
    /\ droppedRows' = IF pending > 0 THEN droppedRows \union from..said ELSE droppedRows
    /\ UNCHANGED gen

\* copy_branch: the history before the row from goes to a new thread.
CopyBranch(from) ==
    Begin([at |-> "drain", op |-> "copy", from |-> from]) /\ UNCHANGED <<kept, droppedRows, gen>>

\* clear_thread
ClearThread ==
    /\ Begin([at |-> "drain", op |-> "clear", from |-> 1])
    /\ kept' = {} /\ gen' = gen + 1 /\ UNCHANGED droppedRows

\* The queue is idle, or the wait is over while the classifier works.
Drain ==
    /\ rewrite.at = "drain"
    /\ \/ worker = Idle /\ queue = <<>> /\ UNCHANGED hasty
       \/ worker.at = "classify" /\ hasty' = TRUE
    /\ rewrite' = [rewrite EXCEPT !.at = "read"]
    /\ UNCHANGED <<entries, queue, worker, pending, gen, droppedRows, cache, copied, said, kept, rewrites, broken,
                   pruned>>

\* _split_at_dropped: the entries before the first one of a dropped row.
FirstDropped(es, from) ==
    LET gone == {i \in DOMAIN es : es[i].row >= from}
    IN IF gone = {} THEN Len(es) + 1 ELSE CHOOSE i \in gone : \A j \in gone : i <= j
Before(es, cut) == SubSeq(es, 1, cut - 1)

\* The status an entry has from its own intent and from the entries after it.
Implied(es, i) ==
    LET later == {j \in DOMAIN es : es[j].relates = es[i].row /\ es[j].intent \in DOMAIN Related}
    IN IF later = {} THEN Own(es[i]) ELSE Related[es[CHOOSE j \in later : \A k \in later : k <= j].intent]

\* Mutant: the entries that stay keep the status the dropped ones gave them.
AsTheyAre(es, cut) == Before(es, cut)

\* statuses_without_dropped, applied: entries a dropped one has touched get the
\* status the others imply.
WithoutDropped(es, cut) ==
    LET touched == {es[i].relates : i \in {j \in cut..Len(es) : es[j].intent \in DOMAIN Related}}
        stay    == Before(es, cut)
    IN [i \in DOMAIN stay |-> IF stay[i].row \in touched THEN [stay[i] EXCEPT !.status = Implied(stay, i)]
                              ELSE stay[i]]

\* The entries are read; a clear deletes them all at once.
ReadEntries ==
    LET cut == FirstDropped(entries, rewrite.from) IN
    /\ rewrite.at = "read"
    /\ CASE rewrite.op = "clear" -> entries' = <<>> /\ cache' = Unseen /\ rewrite' = Idle /\ UNCHANGED copied
         [] rewrite.op = "copy" -> /\ copied' = WithoutDropped(entries, cut) /\ rewrite' = Idle
                                   /\ UNCHANGED <<entries, cache>>
         [] OTHER -> /\ rewrite' = IF cut > Len(entries) THEN Idle
                                   ELSE [rewrite EXCEPT !.at = "cut"]
                     /\ UNCHANGED <<entries, cache, copied>>
    /\ UNCHANGED <<queue, worker, pending, gen, droppedRows, said, kept, rewrites, broken, pruned, hasty>>

\* truncate_entries, one transaction; then the view is built again.
CutEntries ==
    /\ \/ /\ rewrite.at = "cut" /\ rewrite' = [at |-> "refresh"]
          /\ entries' = WithoutDropped(entries, FirstDropped(entries, rewrite.from)) /\ UNCHANGED cache
       \/ /\ rewrite.at = "refresh" /\ rewrite' = [at |-> "show", seen |-> entries] /\ UNCHANGED <<entries, cache>>
       \/ /\ rewrite.at = "show" /\ rewrite' = Idle /\ cache' = View(rewrite.seen) /\ UNCHANGED entries
    /\ UNCHANGED <<queue, worker, pending, gen, droppedRows, copied, said, kept, rewrites, broken, pruned, hasty>>

GlNext ==
    \/ Admit \/ Take \/ List \/ \E i \in Intents, r \in 0..MaxRows : Classify(i, r)
    \/ Commit \/ Prune \/ StoreFails \/ Finish \/ Refresh
    \/ \E from \in 1..MaxRows : from \in kept /\ (DropRows(from) \/ CopyBranch(from))
    \/ ClearThread \/ Drain \/ ReadEntries \/ CutEntries

GlSpec == GlInit /\ [][GlNext]_glVars

-----------------------------------------------------------------------------
(* Properties.                                                             *)

AtRest == worker = Idle /\ queue = <<>> /\ rewrite = Idle

\* Entries come from rows that are still in the history, also when the rewrite
\* did not wait for a classification that was under way.
NoGhostEntries == rewrite = Idle => \A i \in DOMAIN entries : entries[i].row \in kept

\* The ledger, and the copy a branch gets, is what it would be had the dropped
\* rows never been said: every entry has the status that its own intent and the
\* entries that are left imply.  (Not for an entry whose successor was pruned.)
StatusesImplied ==
    ~pruned => /\ \A i \in DOMAIN entries : entries[i].status = Implied(entries, i)
               /\ \A i \in DOMAIN copied : copied[i].status = Implied(copied, i)

\* When everything is at rest the cached view is the view of the stored entries.
\* (A rewrite that did not wait may cut the entries between the worker's reading
\* them and its storing the view: the view is stale until the next row.)
ViewFresh == AtRest /\ ~hasty => cache \in {Unseen, View(entries)}

\* The pending flag is on exactly while a row waits or is being classified, and
\* the marks of a rewrite do not outlive the jobs they are for.
PendingExact ==
    /\ pending = Len(queue) + IF worker.at \in {"idle", "refresh", "show"} THEN 0 ELSE 1
    /\ pending = 0 => droppedRows = {}

LedgerSafe == NoGhostEntries /\ StatusesImplied /\ ViewFresh /\ PendingExact
=============================================================================
