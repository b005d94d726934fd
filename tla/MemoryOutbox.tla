---------------------------- MODULE MemoryOutbox ----------------------------
(***************************************************************************)
(* From a message of a turn to a drawer of the memory palace:              *)
(* persist_message stores the history row and the outbox row in one        *)
(* transaction whose acknowledgement can be lost; the MemoryWriter of each *)
(* process claims outbox rows under a lease, upserts them in an executor   *)
(* thread that no cancellation reaches, and marks them.  Processes close,  *)
(* crash and come back, with the same palace or with another one.          *)
(***************************************************************************)
EXTENDS Naturals, FiniteSets

CONSTANTS Msgs,       \* messages to ingest, each with its message_id
          Writers,    \* MemoryWriter objects, one _lease_owner each
          Palaces,    \* palace_instance_id values
          Unbound,    \* palace_id = ''
          Nobody,     \* lease_owner IS NULL
          ClaimLimit, \* limit of claim_batch
          MaxFaults   \* failed upserts, lost acknowledgements and expired leases

ASSUME OutboxAssumption == Nobody \notin Writers \union Msgs /\ Unbound \notin Palaces

VARIABLES call,    \* message -> where its persist_message call is
          late,    \* message -> a transaction without acknowledgement still open
          copies,  \* message -> its rows in conversation_history
          box,     \* message -> its memory_outbox row
          writer,  \* writer -> its process, flush and drain
          threads, \* <<writer, message>> upserts left running by a cancelled flush
          drawers, \* palace -> messages filed there
          faults

memVars == <<call, late, copies, box, writer, threads, drawers, faults>>

Final == {"committed", "dead"}
Status == {"absent", "pending", "processing", "gone"} \union Final
Row == [st : Status, owner : Writers \union {Nobody}, expired : BOOLEAN,
        due : BOOLEAN, palace : Palaces \union {Unbound}]
NoRow == [st |-> "absent", owner |-> Nobody, expired |-> FALSE, due |-> TRUE, palace |-> Unbound]

\* step: what the flush holding _flush_lock does; cur: the row it upserts;
\* by: the task the flush runs in; drain: close() waits in drain_writer().
Writer == [up : {"new", "up", "closed"}, palace : Palaces \union {Unbound},
           step : {"idle", "next", "upsert", "ok", "transient", "permanent"},
           batch : SUBSET Msgs, cur : Msgs \union {Nobody}, by : {"run", "drain"}, drain : BOOLEAN]
NewWriter == [up |-> "new", palace |-> Unbound, step |-> "idle", batch |-> {},
              cur |-> Nobody, by |-> "run", drain |-> FALSE]

MemTypeOK ==
    /\ call \in [Msgs -> {"new", "retry", "plain", "acked", "stored", "raised"}]
    /\ late \in [Msgs -> BOOLEAN] /\ copies \in [Msgs -> 0..1]
    /\ box \in [Msgs -> Row] /\ writer \in [Writers -> Writer]
    /\ threads \subseteq Writers \X Msgs
    /\ drawers \in [Palaces -> SUBSET Msgs] /\ faults \in 0..MaxFaults

MemInit ==
    /\ call = [m \in Msgs |-> "new"] /\ late = [m \in Msgs |-> FALSE]
    /\ copies = [m \in Msgs |-> 0] /\ box = [m \in Msgs |-> NoRow]
    /\ writer = [w \in Writers |-> NewWriter] /\ threads = {}
    /\ drawers = [p \in Palaces |-> {}] /\ faults = 0

Fault == faults < MaxFaults /\ faults' = faults + 1

-----------------------------------------------------------------------------
(* persist_message and the transaction of the history store.               *)

\* Mutant: the insert does not look for the message_id.
InsertHistoryAgain(m) == copies' = [copies EXCEPT ![m] = @ + 1]

\* _insert_history_row: a known message_id inserts nothing.
InsertHistory(m) == copies' = [copies EXCEPT ![m] = IF @ = 0 THEN 1 ELSE @]

\* insert_pending: a known id inserts nothing.
InsertPending(m, p) ==
    box' = [box EXCEPT ![m] = IF @.st = "absent" THEN [NoRow EXCEPT !.st = "pending", !.palace = p] ELSE @]

AppendWithOutbox(m, p) == InsertHistory(m) /\ InsertPending(m, p)

\* The transaction commits and persist_message learns of it.
AppendAcked(m) ==
    /\ call[m] \in {"new", "retry"} /\ ~late[m]
    /\ \E p \in Palaces \union {Unbound} : AppendWithOutbox(m, p)
    /\ call' = [call EXCEPT ![m] = "acked"]
    /\ UNCHANGED <<late, writer, threads, drawers, faults>>

\* Mutant: a lost acknowledgement counts as a commit.
AppendAmbiguousTrusted(m) ==
    /\ call[m] \in {"new", "retry"} /\ ~late[m] /\ Fault
    /\ call' = [call EXCEPT ![m] = "acked"]
    /\ \/ (\E p \in Palaces \union {Unbound} : AppendWithOutbox(m, p)) /\ UNCHANGED late
       \/ UNCHANGED <<copies, box, late>>
       \/ copies[m] = 0 /\ late' = [late EXCEPT ![m] = TRUE] /\ UNCHANGED <<copies, box>>
    /\ UNCHANGED <<writer, threads, drawers>>

\* AmbiguousCommitError: committed, rolled back or still open at the database.
AppendAmbiguous(m) ==
    /\ call[m] \in {"new", "retry"} /\ ~late[m] /\ Fault
    /\ call' = [call EXCEPT ![m] = IF @ = "new" THEN "retry" ELSE "plain"]
    /\ \/ (\E p \in Palaces \union {Unbound} : AppendWithOutbox(m, p)) /\ UNCHANGED late
       \/ UNCHANGED <<copies, box, late>>
       \/ copies[m] = 0 /\ late' = [late EXCEPT ![m] = TRUE] /\ UNCHANGED <<copies, box>>
    /\ UNCHANGED <<writer, threads, drawers>>

\* Any other error rolls back; with an open transaction on the same message_id
\* the insert waits for it and, if it commits, fails on the unique index.
AppendFails(m) ==
    /\ call[m] \in {"new", "retry"} /\ ~late[m] /\ Fault
    /\ call' = [call EXCEPT ![m] = "plain"]
    /\ UNCHANGED <<late, copies, box, writer, threads, drawers>>

\* The open transaction ends; an insert of the same id waits for it.
LateEnds(m) ==
    /\ late[m] /\ late' = [late EXCEPT ![m] = FALSE]
    /\ \/ UNCHANGED <<call, copies, box>>
       \/ /\ \E p \in Palaces \union {Unbound} : AppendWithOutbox(m, p)
          /\ call' = [call EXCEPT ![m] = IF @ = "retry" THEN "plain" ELSE "raised"]
       \/ (\E p \in Palaces \union {Unbound} : AppendWithOutbox(m, p)) /\ UNCHANGED call
    /\ UNCHANGED <<writer, threads, drawers, faults>>

\* The history-only fallback: its error leaves persist_message.
AppendHistory(m) ==
    /\ call[m] = "plain" /\ ~late[m]
    /\ \/ /\ InsertHistory(m) /\ call' = [call EXCEPT ![m] = "stored"] /\ UNCHANGED faults
       \/ Fault /\ call' = [call EXCEPT ![m] = "raised"] /\ UNCHANGED copies
    /\ UNCHANGED <<late, box, writer, threads, drawers>>

-----------------------------------------------------------------------------
(* The outbox store.                                                       *)

\* Mutant: a released row may be taken by any palace.
ReleasedUnbound(r) == [r EXCEPT !.st = "pending", !.owner = Nobody, !.expired = FALSE, !.palace = Unbound]

Released(r) == [r EXCEPT !.st = "pending", !.owner = Nobody, !.expired = FALSE]

\* Mutant: expired leases are not freed.
ClaimableLive(w, m) ==
    LET r == box[m] IN
    /\ r.st = "pending"
    /\ r.due /\ r.palace \in {Unbound, writer[w].palace}

\* claim_batch frees the expired leases, then takes due rows of its palace.
Claimable(w, m) ==
    LET r == box[m] IN
    /\ r.st = "pending" \/ (r.st = "processing" /\ r.expired)
    /\ r.due /\ r.palace \in {Unbound, writer[w].palace}

ClaimRow(r, w) == [r EXCEPT !.st = "processing", !.owner = w, !.expired = FALSE,
                            !.palace = IF @ = Unbound THEN writer[w].palace ELSE @]

ClaimBatch(w, S) ==
    box' = [m \in Msgs |-> IF m \in S THEN ClaimRow(box[m], w)
                           ELSE IF box[m].st = "processing" /\ box[m].expired THEN Released(box[m]) ELSE box[m]]

MarkCommitted(w, m) ==
    box' = [box EXCEPT ![m] = IF @.owner = w THEN [@ EXCEPT !.st = "committed", !.owner = Nobody, !.expired = FALSE] ELSE @]

MarkRetry(w, m, permanent) ==
    box' = [box EXCEPT ![m] = IF @.owner = w
                              THEN [Released(@) EXCEPT !.st = IF permanent THEN "dead" ELSE "pending",
                                                       !.due = permanent] ELSE @]

\* Mutant: a drain that times out keeps its leases.
ReleaseNothing(w) ==
    box' = box

ReleaseProcessing(w) ==
    box' = [m \in Msgs |-> IF box[m].st = "processing" /\ box[m].owner = w THEN Released(box[m]) ELSE box[m]]

\* The clock: a lease runs out (under a slow embedder it counts as a fault), a
\* backoff ends.
LeaseExpires(m) ==
    /\ box[m].st = "processing" /\ ~box[m].expired
    /\ IF writer[box[m].owner].up = "up" THEN Fault ELSE UNCHANGED faults
    /\ box' = [box EXCEPT ![m].expired = TRUE]
    /\ UNCHANGED <<call, late, copies, writer, threads, drawers>>

BackoffEnds(m) ==
    /\ ~box[m].due /\ box' = [box EXCEPT ![m].due = TRUE]
    /\ UNCHANGED <<call, late, copies, writer, threads, drawers, faults>>

-----------------------------------------------------------------------------
(* The writer of a process.                                                *)

\* ensure_ready: collect old committed rows, start the writer task.
EnsureReady(w) ==
    /\ writer[w].up = "new"
    /\ \E p \in Palaces : writer' = [writer EXCEPT ![w].up = "up", ![w].palace = p]
    /\ \E S \in SUBSET {m \in Msgs : box[m].st = "committed"} :
          box' = [m \in Msgs |-> IF m \in S THEN [box[m] EXCEPT !.st = "gone"] ELSE box[m]]
    /\ UNCHANGED <<call, late, copies, threads, drawers, faults>>

\* flush_once takes _flush_lock; the writer task and a drain compete for it.
FlushOnce(w, t) ==
    /\ writer[w].up = "up" /\ writer[w].step = "idle" /\ (t = "drain" => writer[w].drain)
    /\ \E S \in SUBSET {m \in Msgs : Claimable(w, m)} :
          /\ Cardinality(S) = ClaimLimit \/ S = {m \in Msgs : Claimable(w, m)}
          /\ Cardinality(S) \in 1..ClaimLimit
          /\ ClaimBatch(w, S)
          /\ writer' = [writer EXCEPT ![w].step = "next", ![w].batch = S, ![w].by = t]
    /\ UNCHANGED <<call, late, copies, threads, drawers, faults>>

NextRow(w) ==
    /\ writer[w].step = "next"
    /\ IF writer[w].batch = {} THEN writer' = [writer EXCEPT ![w].step = "idle", ![w].cur = Nobody]
       ELSE \E m \in writer[w].batch :
               writer' = [writer EXCEPT ![w].step = "upsert", ![w].cur = m, ![w].batch = @ \ {m}]
    /\ UNCHANGED <<call, late, copies, box, threads, drawers, faults>>

File(w, m) == drawers' = [drawers EXCEPT ![writer[w].palace] = @ \union {m}]

\* It may fail with the drawer written, and so may the store that marks the row.
UpsertOne(w) ==
    /\ writer[w].step = "upsert"
    /\ \/ File(w, writer[w].cur) /\ writer' = [writer EXCEPT ![w].step = "ok"] /\ UNCHANGED faults
       \/ /\ Fault /\ (File(w, writer[w].cur) \/ UNCHANGED drawers)
          /\ \E e \in {"transient", "permanent"} : writer' = [writer EXCEPT ![w].step = e]
    /\ UNCHANGED <<call, late, copies, box, threads>>

\* Mutant: a transient failure is marked like a success.
CommitRowAnyway(w) ==
    /\ writer[w].step \in {"ok", "transient", "permanent"}
    /\ IF writer[w].step # "permanent" THEN MarkCommitted(w, writer[w].cur)
       ELSE MarkRetry(w, writer[w].cur, writer[w].step = "permanent")
    /\ writer' = [writer EXCEPT ![w].step = "next"]
    /\ UNCHANGED <<call, late, copies, threads, drawers, faults>>

CommitRow(w) ==
    /\ writer[w].step \in {"ok", "transient", "permanent"}
    /\ IF writer[w].step = "ok" THEN MarkCommitted(w, writer[w].cur)
       ELSE MarkRetry(w, writer[w].cur, writer[w].step = "permanent")
    /\ writer' = [writer EXCEPT ![w].step = "next"]
    /\ UNCHANGED <<call, late, copies, threads, drawers, faults>>

\* A cancelled flush leaves its thread behind.
Abandoned(w) == IF writer[w].step = "upsert" THEN threads \union {<<w, writer[w].cur>>} ELSE threads

ThreadEnds(w, m) ==
    /\ <<w, m>> \in threads /\ threads' = threads \ {<<w, m>>}
    /\ File(w, m) \/ UNCHANGED drawers
    /\ UNCHANGED <<call, late, copies, box, writer, faults>>

\* close(): drain_writer ...
Close(w) ==
    /\ writer[w].up = "up" /\ ~writer[w].drain
    /\ writer' = [writer EXCEPT ![w].drain = TRUE]
    /\ UNCHANGED <<call, late, copies, box, threads, drawers, faults>>

\* ... whose time can run out in its own flush or behind the writer task's ...
DrainTimesOut(w) ==
    /\ writer[w].drain /\ writer[w].step # "idle" /\ Fault
    /\ ReleaseProcessing(w)
    /\ IF writer[w].by = "drain"
       THEN /\ threads' = Abandoned(w)
            /\ writer' = [writer EXCEPT ![w].step = "idle", ![w].batch = {}, ![w].cur = Nobody]
       ELSE UNCHANGED <<threads, writer>>
    /\ UNCHANGED <<call, late, copies, drawers>>

\* ... then stop(): the task ends its flush or is cancelled within it.
StopWriter(w) ==
    /\ writer[w].drain /\ (writer[w].step # "idle" => writer[w].by = "run")
    /\ writer' = [writer EXCEPT ![w].up = "closed", ![w].step = "idle", ![w].batch = {},
                                ![w].cur = Nobody, ![w].drain = FALSE]
    /\ threads' = Abandoned(w)
    /\ UNCHANGED <<call, late, copies, box, drawers, faults>>

\* The process dies: nothing of it is left but its leases.
Crash(w) ==
    /\ writer[w].up = "up" /\ Fault
    /\ writer' = [writer EXCEPT ![w].up = "closed", ![w].step = "idle", ![w].batch = {},
                                ![w].cur = Nobody, ![w].drain = FALSE]
    /\ threads' = {t \in threads : t[1] # w}
    /\ UNCHANGED <<call, late, copies, box, drawers>>

-----------------------------------------------------------------------------
MemNext ==
    \/ \E m \in Msgs : AppendAcked(m) \/ AppendAmbiguous(m) \/ AppendFails(m) \/ LateEnds(m)
                       \/ AppendHistory(m) \/ LeaseExpires(m) \/ BackoffEnds(m)
    \/ \E w \in Writers : EnsureReady(w) \/ NextRow(w) \/ UpsertOne(w) \/ CommitRow(w)
                          \/ Close(w) \/ DrainTimesOut(w) \/ StopWriter(w) \/ Crash(w)
    \/ \E w \in Writers, t \in {"run", "drain"} : FlushOnce(w, t)
    \/ \E w \in Writers, m \in Msgs : ThreadEnds(w, m)

MemSpec == MemInit /\ [][MemNext]_memVars

WriterStep(w) == FlushOnce(w, "run") \/ NextRow(w) \/ UpsertOne(w) \/ CommitRow(w)

\* The loop of _run polls every two seconds; an embedder call, a backoff and a lease end.
MemFairness ==
    /\ \A w \in Writers : WF_memVars(WriterStep(w))
    /\ \A m \in Msgs : WF_memVars(BackoffEnds(m)) /\ WF_memVars(LeaseExpires(m))

-----------------------------------------------------------------------------
\* A row marked committed has its drawer in the palace the row is bound to.
CommittedIsFiled ==
    \A m \in Msgs : box[m].st \in {"committed", "gone"} => m \in drawers[box[m].palace]

\* No message is filed in two palaces, however often its row changes hands.
OnePalace == \A p, q \in Palaces : p # q => drawers[p] \intersect drawers[q] = {}

\* persist_message returns only with the message once in the history, and with
\* its outbox row when it says so; lost acknowledgements never double a row.
HistoryCanonical ==
    \A m \in Msgs : /\ call[m] \in {"acked", "stored"} => copies[m] = 1
                    /\ call[m] = "acked" => box[m].st # "absent"
                    /\ box[m].st # "absent" => copies[m] = 1

\* A leased row is in the hands of the lease's owner alone: its flush has the
\* row before it, or the owner closed or crashed and the lease has to run out.
LeaseHasHolder ==
    \A m \in Msgs : LET w == box[m].owner IN
        box[m].st = "processing" =>
            /\ w # Nobody /\ box[m].palace = writer[w].palace
            /\ m \in writer[w].batch \/ writer[w].cur = m \/ writer[w].up = "closed"

\* As long as a process with the row's palace keeps running, every row it may
\* take is filed or dead-lettered at last; no row is stuck in an old lease.
RowsSettle ==
    \A m \in Msgs : (box[m].st \in {"pending", "processing"}) ~>
        \/ box[m].st \in Final \union {"gone"}
        \/ ~ \E w \in Writers : writer[w].up = "up" /\ box[m].palace \in {Unbound, writer[w].palace}

\* A message is in the history once, in one palace at most, in that palace if
\* its row says so, and its lease is in known hands.
OutboxSafe == CommittedIsFiled /\ OnePalace /\ HistoryCanonical /\ LeaseHasHolder
=============================================================================
