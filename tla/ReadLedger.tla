------------------------------ MODULE ReadLedger ------------------------------
(***************************************************************************)
(* The rule that an edit follows a read (core/tools/read_ledger.py with    *)
(* the file tools of core/tools/core_tool_executor.py): the ledger of a    *)
(* session keeps the stamp (mtime and size) of every file the model was    *)
(* shown, an edit is refused when the file has no stamp or another one,    *)
(* and compaction forgets the reads with the messages it folds.            *)
(*                                                                         *)
(* The tools run on the event loop.  Editors, commands, other sessions and *)
(* undo change files between any two steps of a call.                      *)
(***************************************************************************)
EXTENDS Naturals

CONSTANTS LedgerPaths,
          LedgerBodies,
          MaxStamp,    \* bound: changes of the files
          MaxFolds     \* bound: compactions and rewrites

\* There is a file, which can have a body, and room for the changes.
ASSUME LedgerAssumption ==
    /\ LedgerPaths # {} /\ LedgerBodies # {}
    /\ MaxStamp \in Nat \ {0} /\ MaxFolds \in Nat

NoBody == "no body"

VARIABLES body,     \* the files; NoBody when there is none
          stamp,    \* the stamp of each
          seen,     \* FileReadLedger._seen; 0 when the path is not in it
          shown,    \* the body the messages of the model show; NoBody when none does
          call,     \* the tool call that runs
          \* What happened, for bounds and properties only.
          excused,  \* paths changed inside a call or within a tick, or whose read a rewrite dropped
          clock,    \* the latest stamp
          folds     \* compactions and rewrites so far

ldVars == <<body, stamp, seen, shown, call, excused, clock, folds>>

NoCall == [at |-> "idle", path |-> CHOOSE p \in LedgerPaths : TRUE, body |-> NoBody]

LdTypeOK ==
    /\ body \in [LedgerPaths -> LedgerBodies \union {NoBody}]
    /\ stamp \in [LedgerPaths -> 1..MaxStamp] /\ seen \in [LedgerPaths -> 0..MaxStamp]
    /\ shown \in [LedgerPaths -> LedgerBodies \union {NoBody}]
    /\ call \in [at : {"idle", "read", "write", "note", "forget"}, path : LedgerPaths,
                 body : LedgerBodies \union {NoBody}]
    /\ excused \subseteq LedgerPaths /\ clock \in 1..MaxStamp /\ folds \in 0..MaxFolds

LdInit ==
    /\ body \in [LedgerPaths -> {NoBody, CHOOSE b \in LedgerBodies : TRUE}]
    /\ stamp = [p \in LedgerPaths |-> 1] /\ seen = [p \in LedgerPaths |-> 0]
    /\ shown = [p \in LedgerPaths |-> NoBody] /\ call = NoCall
    /\ excused = {} /\ clock = 1 /\ folds = 0

Changes(p, b) ==
    /\ clock < MaxStamp /\ clock' = clock + 1
    /\ body' = [body EXCEPT ![p] = b] /\ stamp' = [stamp EXCEPT ![p] = clock + 1]

\* read_file: the body first, the stamp with _note_read after it.
ReadBody(p) ==
    /\ call.at = "idle" /\ body[p] # NoBody
    /\ call' = [at |-> "read", path |-> p, body |-> body[p]]
    /\ excused' = excused \ {p}
    /\ UNCHANGED <<body, stamp, seen, shown, clock, folds>>

\* stamp_of has no stamp for a file that is gone.
NoteRead ==
    LET p == call.path IN
    /\ call.at = "read" /\ call' = NoCall
    /\ shown' = [shown EXCEPT ![p] = call.body]
    /\ seen' = IF body[p] = NoBody THEN seen ELSE [seen EXCEPT ![p] = stamp[p]]
    /\ UNCHANGED <<body, stamp, excused, clock, folds>>

\* Mutant: any read will do.
ReadOnce(p) == seen[p] # 0

\* check_write: the path was read, and its stamp is still the same.
CheckWrite(p) == seen[p] # 0 /\ seen[p] = stamp[p]

\* _edit_guard of write_file, replace_in_file and apply_patch; a new file passes.
EditGuard(p) ==
    /\ call.at = "idle" /\ (body[p] = NoBody \/ CheckWrite(p))
    /\ call' = [at |-> "write", path |-> p, body |-> body[p]]
    /\ UNCHANGED <<body, stamp, seen, shown, excused, clock, folds>>

\* The tool writes the file, or a patch deletes it.
EditFile(b) ==
    LET p == call.path IN
    /\ call.at = "write" /\ Changes(p, b)
    /\ b = NoBody => body[p] # NoBody
    /\ call' = [call EXCEPT !.at = IF b = NoBody THEN "forget" ELSE "note", !.body = b]
    /\ shown' = [shown EXCEPT ![p] = b]
    /\ UNCHANGED <<seen, excused, folds>>

\* The tool reports an error: nothing matched, or the file was gone.
EditFails ==
    /\ call.at = "write" /\ call' = NoCall
    /\ UNCHANGED <<body, stamp, seen, shown, excused, clock, folds>>

\* _note_write: the stamp the file has now.
NoteWrite ==
    LET p == call.path IN
    /\ call.at = "note" /\ call' = NoCall
    /\ seen' = IF body[p] = NoBody THEN seen ELSE [seen EXCEPT ![p] = stamp[p]]
    /\ UNCHANGED <<body, stamp, shown, excused, clock, folds>>

NoteForgotten ==
    /\ call.at = "forget" /\ call' = NoCall
    /\ seen' = [seen EXCEPT ![call.path] = 0]
    /\ UNCHANGED <<body, stamp, shown, excused, clock, folds>>

\* Someone else changes the file.  A change within the tick of the last one
\* that keeps the size keeps the stamp too.
ChangedElsewhere(p, b) ==
    /\ b # body[p]
    /\ \/ Changes(p, b)
       \/ /\ b # NoBody /\ body[p] # NoBody
          /\ body' = [body EXCEPT ![p] = b] /\ UNCHANGED <<stamp, clock>>
    /\ excused' = IF (call.at # "idle" /\ call.path = p) \/ stamp' = stamp
                  THEN excused \union {p} ELSE excused
    /\ UNCHANGED <<seen, shown, call, folds>>

\* Mutant: compaction does not clear the ledger.
FoldOnly ==
    /\ call.at = "idle" /\ folds < MaxFolds /\ folds' = folds + 1
    /\ shown' = [p \in LedgerPaths |-> NoBody] /\ excused' = {}
    /\ UNCHANGED <<body, stamp, seen, call, clock>>

\* Compaction: the summary replaces the bodies, _fire_history_compacted clears.
Compacts ==
    /\ call.at = "idle" /\ folds < MaxFolds /\ folds' = folds + 1
    /\ shown' = [p \in LedgerPaths |-> NoBody]
    /\ seen' = [p \in LedgerPaths |-> 0] /\ excused' = {}
    /\ UNCHANGED <<body, stamp, call, clock>>

\* A rewrite of the history drops the messages of a read; the ledger stays.
RewriteDrops(p) ==
    /\ call.at = "idle" /\ shown[p] # NoBody /\ folds < MaxFolds /\ folds' = folds + 1
    /\ shown' = [shown EXCEPT ![p] = NoBody]
    /\ excused' = excused \union {p}
    /\ UNCHANGED <<body, stamp, seen, call, clock>>

LdNext ==
    \/ \E p \in LedgerPaths : ReadBody(p) \/ EditGuard(p) \/ RewriteDrops(p)
    \/ \E b \in LedgerBodies \union {NoBody} : EditFile(b)
    \/ \E p \in LedgerPaths, b \in LedgerBodies \union {NoBody} : ChangedElsewhere(p, b)
    \/ NoteRead \/ EditFails \/ NoteWrite \/ NoteForgotten \/ Compacts

LdSpec == LdInit /\ [][LdNext]_ldVars

-----------------------------------------------------------------------------
\* An edit that passed the guard replaces only what the messages show the
\* model: compaction, an edit from outside or a deletion in between makes it
\* read again (_edit_guard, ReadLedgerCompactionHook).
EditsAreInformed ==
    [][call.at = "write" /\ call'.at \in {"note", "forget"} =>
          \/ body[call.path] = NoBody
          \/ shown[call.path] = body[call.path]
          \/ call.path \in excused]_ldVars
=============================================================================
