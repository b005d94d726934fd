----------------------------- MODULE FileChanges -----------------------------
(***************************************************************************)
(* What the write tools do to the workspace and how it is undone           *)
(* (core/tools/patch.py, core/tools/change_recorder.py and the tool step   *)
(* of core/tools/core_tool_executor.py).                                   *)
(*                                                                         *)
(* A patch is planned against the files on disk, applied hunk by hunk, and *)
(* rolled back when a hunk fails.  A call that succeeded is recorded, one  *)
(* record per hunk, with the body before and after.  Undo restores the     *)
(* earliest body of every file in the selection.  A body is one of Bodies; *)
(* its digest is the body itself.                                          *)
(***************************************************************************)
EXTENDS Sublists

CONSTANTS Paths,
          Bodies,     \* file contents
          Large,      \* those above BLOB_CAP_BYTES
          Present,    \* the files there are at first
          FirstBody,  \* and their body
          MaxRecords, \* bound: recorded changes
          MaxFaults,  \* bound: edits no write tool made, and patches that fail half way
          MaxUndos    \* bound: undo requests that restore something

NoFile == "no file"
NoPath == "no path"

ASSUME FileConstants == FirstBody \in Bodies /\ NoFile \notin Bodies /\ NoPath \notin Paths /\ MaxRecords \in Nat

VARIABLES tree,     \* the files of the workspace
          log,      \* log.jsonl of the session
          undone,   \* reverted.json: the records undone
          request,  \* the request (turn) that records now
          \* What happened, for bounds and properties only.
          outside,  \* paths whose present body no write tool left there
          last,     \* the last step: tool, failed, outside, undo or forced
          dirty,    \* the paths the last failed patch reported as dirty
          spent     \* undos and faults so far

fcVars == <<tree, log, undone, request, outside, last, dirty, spent>>

Hunks ==
    [op : {"add", "update"}, path : Paths, to : {NoPath}, body : Bodies]
    \union [op : {"delete"}, path : Paths, to : {NoPath}, body : {NoFile}]
    \union {h \in [op : {"move"}, path : Paths, to : Paths, body : Bodies] : h.path # h.to}

Patches == {<<h>> : h \in Hunks} \union (Hunks \X Hunks)

Records == [path : Paths, from : Paths \union {NoPath}, request : {1, 2},
            action : {"create", "modify", "delete", "move"},
            before : Bodies \union {NoFile}, after : Bodies \union {NoFile}, large : BOOLEAN]

FcTypeOK ==
    /\ tree \in [Paths -> Bodies \union {NoFile}]
    /\ Len(log) <= MaxRecords /\ \A i \in DOMAIN log : log[i] \in Records
    /\ undone \subseteq DOMAIN log /\ request \in {1, 2}
    /\ outside \subseteq Paths /\ dirty \subseteq Paths
    /\ last \in {"tool", "failed", "outside", "undo", "forced"}

FcInit ==
    /\ tree = [p \in Paths |-> IF p \in Present THEN FirstBody ELSE NoFile]
    /\ log = <<>> /\ undone = {} /\ request = 1
    /\ outside = {} /\ last = "tool" /\ dirty = {}
    /\ spent = [undo |-> 0, faults |-> 0]

-----------------------------------------------------------------------------
(* Patches.                                                                *)

\* What the hunks before the next one have removed and claimed.
Claimed(claim, h) ==
    CASE h.op = "add"    -> [gone |-> claim.gone \ {h.path}, taken |-> claim.taken \union {h.path}]
      [] h.op = "delete" -> [gone |-> claim.gone \union {h.path}, taken |-> claim.taken \ {h.path}]
      [] h.op = "move"   -> [gone |-> (claim.gone \union {h.path}) \ {h.to},
                             taken |-> (claim.taken \union {h.to}) \ {h.path}]
      [] OTHER           -> claim

\* What the hunks of a patch before each one have removed and claimed.
PlanClaims(hs) ==
    LET claim[i \in 0..Len(hs)] ==
            IF i = 0 THEN [gone |-> {}, taken |-> {}] ELSE Claimed(claim[i - 1], hs[i])
    IN claim

\* _plan_ops: every hunk is checked against the disk as it is now.
Planned(hs) ==
    LET claim == PlanClaims(hs)
        Absent(p, c) == (tree[p] = NoFile \/ p \in c.gone) /\ p \notin c.taken
    IN \A i \in DOMAIN hs :
          /\ hs[i].op = "add" => Absent(hs[i].path, claim[i - 1])
          /\ hs[i].op \in {"delete", "update", "move"} => tree[hs[i].path] # NoFile
          /\ hs[i].op = "move" => Absent(hs[i].to, claim[i - 1])

\* _apply_ops, one operation.
Applied(t, h) ==
    IF h.op = "move" THEN [t EXCEPT ![h.to] = h.body, ![h.path] = NoFile]
    ELSE [t EXCEPT ![h.path] = h.body]

\* delete_file raises when there is nothing to delete.
Applies(t, h) == h.op \in {"delete", "move"} => t[h.path] # NoFile

AppliedUpTo(hs, n) ==
    LET t[i \in 0..n] == IF i = 0 THEN tree ELSE Applied(t[i - 1], hs[i]) IN t

\* _rollback_ops for one operation; a path of stuck cannot be written.
RolledBack(t, h, stuck) ==
    [p \in Paths |-> IF p \in stuck THEN t[p]
                     ELSE IF p = h.to \/ (p = h.path /\ h.op = "add") THEN NoFile
                     ELSE IF p = h.path THEN tree[p]
                     ELSE t[p]]

\* Mutant: the operations are undone in the order they were made.
RollBackForward(t, done, stuck) ==
    LET back[i \in 0..Len(done)] ==
            IF i = 0 THEN t ELSE RolledBack(back[i - 1], done[i], stuck)
    IN back[Len(done)]

RollBack(t, done, stuck) ==
    LET back[i \in 0..Len(done)] ==
            IF i = 0 THEN t ELSE RolledBack(back[i - 1], done[Len(done) + 1 - i], stuck)
    IN back[Len(done)]

-----------------------------------------------------------------------------
(* Records.                                                                *)

\* The preimage of a hunk with what commit finds after the call.
Record(h, t) ==
    LET path   == IF h.op = "move" THEN h.to ELSE h.path
        before == tree[h.path]
        after  == t[path]
    IN [path |-> path, from |-> IF h.op = "move" THEN h.path ELSE NoPath, request |-> request,
        action |-> IF h.op = "delete" \/ (after = NoFile /\ before # NoFile) THEN "delete"
                   ELSE IF h.op = "move" THEN "move"
                   ELSE IF h.op = "add" \/ before = NoFile THEN "create" ELSE "modify",
        before |-> before, after |-> after,
        large |-> before \in Large \/ after \in Large]

Touched(hs) == {hs[i].path : i \in DOMAIN hs} \union ({hs[i].to : i \in DOMAIN hs} \ {NoPath})

\* A call that succeeded: the tree, and one record per hunk.
Commit(hs, t) ==
    /\ Len(log) + Len(hs) <= MaxRecords
    /\ tree' = t
    /\ log' = log \o [i \in DOMAIN hs |-> Record(hs[i], t)]
    /\ outside' = outside \ Touched(hs) /\ last' = "tool" /\ dirty' = {}
    /\ UNCHANGED <<undone, request, spent>>

\* write_file writes any path, replace_in_file one that exists: the record is
\* that of a patch of one hunk.
WriteFile(p, b) ==
    LET h == [op |-> IF tree[p] = NoFile THEN "add" ELSE "update", path |-> p, to |-> NoPath, body |-> b]
    IN Commit(<<h>>, Applied(tree, h))

ApplyPatch(hs) ==
    LET t == AppliedUpTo(hs, Len(hs)) IN
    /\ Len(log) + Len(hs) <= MaxRecords
    /\ Planned(hs)
    /\ \A i \in DOMAIN hs : Applies(t[i - 1], hs[i])
    /\ Commit(hs, t[Len(hs)])

\* Operation n raises: the disk refuses it, or there is nothing to delete.  A
\* move whose destination was written counts as done.  Nothing is recorded.
PatchFails(hs, n) ==
    LET t == AppliedUpTo(hs, n - 1) IN
    /\ spent.faults < MaxFaults /\ spent' = [spent EXCEPT !.faults = @ + 1]
    /\ Planned(hs) /\ \A i \in 1..(n - 1) : Applies(t[i - 1], hs[i])
    /\ \E wrote \in {FALSE, hs[n].op = "move"} :
         LET done == IF wrote THEN SubSeq(hs, 1, n) ELSE SubSeq(hs, 1, n - 1)
             now  == IF wrote THEN [t[n - 1] EXCEPT ![hs[n].to] = hs[n].body] ELSE t[n - 1]
         IN \E stuck \in SUBSET Touched(done) :
              dirty' = stuck /\ tree' = RollBack(now, done, stuck)
    /\ last' = "failed"
    /\ outside' = outside \union {p \in Paths : tree'[p] # tree[p]}
    /\ UNCHANGED <<log, undone, request>>

NextRequest ==
    /\ request = 1 /\ log # <<>> /\ request' = 2
    /\ UNCHANGED <<tree, log, undone, outside, last, dirty, spent>>

\* A terminal command or the user edits a file.
OutsideEdit(p, b) ==
    /\ spent.faults < MaxFaults /\ spent' = [spent EXCEPT !.faults = @ + 1]
    /\ b # tree[p] /\ tree' = [tree EXCEPT ![p] = b]
    /\ outside' = outside \union {p} /\ last' = "outside" /\ dirty' = {}
    /\ UNCHANGED <<log, undone, request>>

-----------------------------------------------------------------------------
(* Undo.                                                                   *)

Moves(i) == log[i].action = "move"
Ends(i) == {log[i].path} \union (IF Moves(i) THEN {log[i].from} ELSE {})

\* Mutant: only the changes that were asked for.
OnlySelected(selected) == selected

\* A selected change, and a later change of a path the selection touches.
Included(pass, selected, i) ==
    IF i \in selected \/ (i \notin undone /\ Ends(i) \intersect pass.armed # {})
    THEN [armed |-> pass.armed \union Ends(i), chosen |-> pass.chosen \union {i}] ELSE pass

\* _include_later: the selection and the paths it touches, after each record.
Passes(selected) ==
    LET pass[i \in 0..Len(log)] ==
            IF i = 0 THEN [armed |-> {}, chosen |-> {}] ELSE Included(pass[i - 1], selected, i)
    IN pass

IncludeLater(selected) == Passes(selected)[Len(log)].chosen

\* An ordered dictionary of chains, as a sequence of keys and their chains.
Keys(d) == {d[j].key : j \in DOMAIN d}
ChainOf(d, k) == IF k \in Keys(d) THEN d[CHOOSE j \in DOMAIN d : d[j].key = k].ids ELSE <<>>
Popped(d, k) == Sublist(d, {j \in DOMAIN d : d[j].key # k})
Put(d, k, ids) ==
    IF k \in Keys(d) THEN [j \in DOMAIN d |-> IF d[j].key = k THEN [d[j] EXCEPT !.ids = ids] ELSE d[j]]
    ELSE Append(d, [key |-> k, ids |-> ids])

\* A change joins the chain of the path where its file is now; a move takes
\* the chain along.
Grouped(s, i) ==
    LET r == log[i] IN
    IF Moves(i)
    THEN [chains |-> Put(Popped(s.chains, s.at[r.from]), r.path, Append(ChainOf(s.chains, s.at[r.from]), i)),
          at |-> [s.at EXCEPT ![r.from] = r.path, ![r.path] = r.path]]
    ELSE [chains |-> Put(s.chains, s.at[r.path], Append(ChainOf(s.chains, s.at[r.path]), i)),
          at |-> s.at]

\* _chain_groups: the changes of a file, under the path where it ended up.
Groupings(chosen) ==
    LET step[i \in 0..Len(log)] ==
          IF i = 0 THEN [chains |-> <<>>, at |-> [p \in Paths |-> p]]
          ELSE IF i \in chosen THEN Grouped(step[i - 1], i) ELSE step[i - 1]
    IN step

ChainGroups(chosen) == Groupings(chosen)[Len(log)].chains

\* Mutant: a move is undone without removing its destination.
RestoreOver(t, key, e) ==
    LET target == IF e.action = "move" THEN e.from ELSE key IN
    IF e.action = "create" \/ e.before = NoFile THEN [t EXCEPT ![key] = NoFile]
    ELSE [t EXCEPT ![target] = e.before]

\* _restore: to the body before the first change of the chain.
Restore(t, key, e) ==
    LET target == IF e.action = "move" THEN e.from ELSE key IN
    IF e.action = "create" \/ e.before = NoFile THEN [t EXCEPT ![key] = NoFile]
    ELSE [p \in Paths |-> IF p = target THEN e.before
                          ELSE IF p = key /\ e.action = "move" THEN NoFile ELSE t[p]]

\* Mutant: the files are not compared with what was recorded.
MatchesAlways(d) == TRUE

MatchesExpected(d) == \A j \in DOMAIN d : tree[d[j].key] = log[d[j].ids[Len(d[j].ids)]].after

\* The trees of an undo, one more after each chain.
Restored(d) ==
    LET t[j \in 0..Len(d)] == IF j = 0 THEN tree ELSE Restore(t[j - 1], d[j].key, log[d[j].ids[1]])
    IN t

\* revert: refused when a body was too large to keep or, without force, when a
\* file is not what the last change left.  A refusal changes nothing.
Revert(selected, force) ==
    LET chosen == IncludeLater(selected \ undone)
        d      == ChainGroups(chosen)
    IN /\ spent.undo < MaxUndos /\ spent' = [spent EXCEPT !.undo = @ + 1] /\ log # <<>>
       /\ chosen # {} /\ \A i \in chosen : ~log[i].large
       /\ force \/ MatchesExpected(d)
       /\ tree' = Restored(d)[Len(d)]
       /\ undone' = undone \union UNION {{d[j].ids[k] : k \in DOMAIN d[j].ids} : j \in DOMAIN d}
       /\ outside' = outside \ {p \in Paths : tree'[p] # tree[p]}
       /\ last' = (IF force THEN "forced" ELSE "undo") /\ dirty' = {}
       /\ UNCHANGED <<log, request>>

RevertRequest(r, force) == Revert({i \in DOMAIN log : log[i].request = r}, force)
RevertChange(i, force) == Revert({i}, force)

FcNext ==
    \/ \E p \in Paths, b \in Bodies : WriteFile(p, b)
    \/ \E hs \in Patches : ApplyPatch(hs)
    \/ \E hs \in Patches : \E n \in DOMAIN hs : PatchFails(hs, n)
    \/ NextRequest
    \/ \E p \in Paths, b \in Bodies \union {NoFile} : OutsideEdit(p, b)
    \/ \E r \in {1, 2}, force \in BOOLEAN : RevertRequest(r, force)
    \/ \E i \in DOMAIN log, force \in BOOLEAN : RevertChange(i, force)

FcSpec == FcInit /\ [][FcNext]_fcVars

-----------------------------------------------------------------------------
Undoes == undone' # undone
Fresh == undone' \ undone

\* Is p a path of the changes being undone, and what was there before them?
InUndo(p) == \E i \in Fresh : p \in Ends(i)
FirstOf(p) == CHOOSE i \in Fresh : p \in Ends(i) /\ \A j \in Fresh : p \in Ends(j) => i <= j
BodyBefore(p) ==
    LET r == log[FirstOf(p)] IN
    IF r.action = "create" \/ (r.action = "move" /\ p = r.path) THEN NoFile ELSE r.before

\* Undo restores the earliest body of every path in the selection and touches
\* no other path.
UndoRestores ==
    [][Undoes => \A p \in Paths : tree'[p] = IF InUndo(p) THEN BodyBefore(p) ELSE tree[p]]_fcVars

\* What a request or the id of a change selects, and what is undone with it.
Selections == {{i \in DOMAIN log : log[i].request = r} : r \in {1, 2}} \union {{i} : i \in DOMAIN log}
Chosen(selected) == IncludeLater(selected \ undone)

\* A moved file has other changes among those being undone.
Tangled(chosen) == \E i, j \in chosen : i # j /\ Moves(i) /\ Ends(i) \intersect Ends(j) # {}

\* A file was moved to a path that the changes being undone had changed before.
MovedOver(chosen) == \E i, j \in chosen : j < i /\ Moves(i) /\ log[i].path = log[j].path

\* Undo restores the earliest body of every path in the selection and touches
\* no other path, when no moved file has other changes in the selection.
UndoExact ==
    [][\A s \in Selections, force \in BOOLEAN :
          Undoes /\ Revert(s, force) /\ ~Tangled(Chosen(s)) =>
              \A p \in Paths : tree'[p] = IF InUndo(p) THEN BodyBefore(p) ELSE tree[p]]_fcVars

\* An undone change is not brought back: what later changes made of the file
\* is undone with it, unless another file was moved over theirs.
UndoIsSuffix ==
    [][\A s \in Selections, force \in BOOLEAN :
          Undoes /\ Revert(s, force) /\ ~MovedOver(Chosen(s)) =>
              \A i \in Fresh, j \in DOMAIN log : j > i /\ log[j].path = log[i].path => j \in undone']_fcVars

\* Without force an undo leaves a body that no undone change left there, unless
\* it stands where a file was moved away from.
UndoSparesOutside ==
    [][\A s \in Selections :
          Undoes /\ Revert(s, FALSE) /\ ~Tangled(Chosen(s)) =>
              \A p \in outside :
                 \/ tree'[p] = tree[p]
                 \/ \E i \in Fresh : log[i].path = p /\ log[i].after = tree[p]
                 \/ \E i \in Fresh : Moves(i) /\ log[i].from = p]_fcVars

\* A patch that fails half way leaves the files as they were, but for those it
\* reports as dirty.
PatchAtomic ==
    [][last' = "failed" => \A p \in Paths : tree'[p] = tree[p] \/ p \in dirty']_fcVars

\* The files a write tool changed can be had back.
ChangesSafe == UndoExact /\ UndoIsSuffix /\ UndoSparesOutside /\ PatchAtomic
=============================================================================
