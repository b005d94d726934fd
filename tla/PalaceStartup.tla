---------------------------- MODULE PalaceStartup ----------------------------
(***************************************************************************)
(* What a start does to the memory of an agent before it uses it           *)
(* (bootstrap_agent_layout in core/layout.py): data/memory is moved to     *)
(* memory (core/memory/migrate_layout.py), the name of the embedder is     *)
(* replaced in monkeybot.yaml and in the palace                            *)
(* (core/memory/migrate_embedding.py), and the palace is opened and gets   *)
(* its id (core/memory/palace.py).                                         *)
(*                                                                         *)
(* The app, the command line and a gateway may start at the same time, and *)
(* any of them may die.  Only flocks are released then.                    *)
(***************************************************************************)
EXTENDS Naturals, FiniteSets

CONSTANTS Starts,     \* processes that start; one that died is another
          Notes,      \* files of the old memory
          MaxDeaths,  \* bound: processes that die
          MaxErrors   \* bound: disk errors during a merge

NoStart == "no start"

ASSUME StartupAssumption == {NoStart, "none", "empty"} \intersect Starts = {}

VARIABLES old,      \* the files of data/memory
          oldDir,   \* is data/memory there?
          new,      \* the files of memory: whole, part or none
          newDir,   \* memory: none, scaffold, or real when other files are in it
          palaceDir,\* is the directory of the palace in it?
          nested,   \* data/memory was moved into memory instead of to it
          mLock,    \* the lock file of the layout: who created it, older than 5 minutes
          yaml,     \* monkeybot.yaml: uri, model, and torn while it is written in place
          recorded, \* .embedder_identity: none, legacy or minilm
          eLock,    \* who holds the flock of the embedding migration
          idFile,   \* .palace_id: none, empty or a token (its writer)
          idLock,   \* who holds the volume flock
          ps,       \* each start: the step it is at, and what it has read
          \* What happened, for bounds and properties only.
          hit       \* deaths, errors; slow: a live lock was stolen; beaten: memory appeared
                    \* before the move; clobbered: yaml was written from an earlier text;
                    \* halfRead: it was read while it was truncated; mislabelled:
                    \* a start that was told to skip named a new palace

psVars == <<old, oldDir, new, newDir, palaceDir, nested, mLock, yaml, recorded, eLock, idFile, idLock, ps, hit>>

Steps == {"layout", "steal", "look", "rename", "merge", "copying", "free", "uri", "uriWrite", "uriEnd",
          "embed", "model", "modelRead", "modelWrite", "verify", "identity", "read", "open", "id", "idCreate",
          "idWrite", "ready", "refused", "dead"}

NewStart == [at |-> "layout", file |-> CHOOSE f \in Notes : TRUE, uri |-> "old", model |-> "legacy",
             was |-> "none", skipped |-> FALSE, id |-> NoStart]

PsTypeOK ==
    /\ old \subseteq Notes /\ oldDir \in BOOLEAN
    /\ new \in [Notes -> {"none", "part", "whole"}] /\ newDir \in {"none", "scaffold", "real"}
    /\ palaceDir \in BOOLEAN /\ nested \in BOOLEAN
    /\ mLock \in [by : Starts \union {NoStart}, aged : BOOLEAN]
    /\ yaml \in [uri : {"old", "new"}, model : {"legacy", "minilm"}, torn : BOOLEAN]
    /\ recorded \in {"none", "legacy", "minilm"}
    /\ {eLock, idLock} \subseteq Starts \union {NoStart}
    /\ idFile \in Starts \union {"none", "empty"}
    /\ \A p \in Starts : ps[p].at \in Steps /\ ps[p].file \in Notes /\ ps[p].id \in Starts \union {NoStart}

PsInit ==
    /\ oldDir \in BOOLEAN /\ old = (IF oldDir THEN Notes ELSE {})
    /\ newDir \in {"none", "scaffold", "real"} /\ new = [f \in Notes |-> "none"] /\ nested = FALSE
    /\ mLock = [by |-> NoStart, aged |-> FALSE]
    /\ yaml \in [uri : {"old"}, model : {"legacy", "minilm"}, torn : {FALSE}]
    /\ palaceDir \in BOOLEAN /\ (palaceDir => newDir = "real")
    /\ recorded \in {"none", yaml.model} /\ (recorded # "none" => palaceDir)
    /\ eLock = NoStart /\ idFile = "none" /\ idLock = NoStart
    /\ ps = [p \in Starts |-> NewStart]
    /\ hit = [deaths |-> 0, errors |-> 0, slow |-> FALSE, beaten |-> FALSE, clobbered |-> FALSE, halfRead |-> FALSE, mislabelled |-> FALSE]

Goto(p, at) == ps' = [ps EXCEPT ![p].at = at]

-----------------------------------------------------------------------------
(* data/memory becomes memory.                                             *)

layoutRest == <<palaceDir, yaml, recorded, eLock, idFile, idLock>>

\* _acquire_migrate_lock; a lock older than five minutes is taken over.
AcquireLayout(p) ==
    /\ ps[p].at = "layout"
    /\ IF oldDir /\ mLock.by = NoStart
       THEN mLock' = [by |-> p, aged |-> FALSE] /\ Goto(p, "look")
       ELSE Goto(p, IF oldDir /\ mLock.aged THEN "steal" ELSE "uri") /\ UNCHANGED mLock
    /\ UNCHANGED <<old, oldDir, new, newDir, nested, hit>> /\ UNCHANGED layoutRest

\* unlink takes a path: by now the lock may be another one.
StealLayout(p) ==
    /\ ps[p].at = "steal" /\ mLock' = [by |-> p, aged |-> FALSE] /\ Goto(p, "look")
    /\ hit' = [hit EXCEPT !.slow = @ \/ (mLock.by # NoStart /\ ps[mLock.by].at # "dead")]
    /\ UNCHANGED <<old, oldDir, new, newDir, nested>> /\ UNCHANGED layoutRest

\* A copy of a large memory may take longer than five minutes.
LayoutLockAges ==
    /\ mLock.by # NoStart /\ ~mLock.aged /\ mLock' = [mLock EXCEPT !.aged = TRUE]
    /\ UNCHANGED <<old, oldDir, new, newDir, nested, ps, hit>> /\ UNCHANGED layoutRest

\* Mutant: whatever is in memory is merged into.
MergesAlways == newDir # "none"

\* _is_scaffold_only.
ScaffoldOnly == newDir = "scaffold" /\ \A f \in Notes : new[f] = "none"

\* The choice that _move_legacy_memory_dir makes under the lock.
LooksAtBoth(p) ==
    /\ ps[p].at = "look"
    /\ Goto(p, IF ~oldDir THEN "free" ELSE IF newDir = "none" THEN "rename"
               ELSE IF ScaffoldOnly THEN "merge" ELSE "free")
    /\ UNCHANGED <<old, oldDir, new, newDir, nested, mLock, hit>> /\ UNCHANGED layoutRest

\* shutil.move: into the destination when that has become a directory.
RenameOld(p) ==
    /\ ps[p].at = "rename" /\ Goto(p, "free")
    /\ IF ~oldDir THEN UNCHANGED <<old, oldDir, new, newDir, nested, hit>>
       ELSE /\ old' = {} /\ oldDir' = FALSE /\ newDir' = "real"
            /\ IF newDir = "none"
               THEN /\ new' = [f \in Notes |-> IF f \in old THEN "whole" ELSE new[f]]
                    /\ UNCHANGED <<nested, hit>>
               ELSE nested' = TRUE /\ hit' = [hit EXCEPT !.beaten = TRUE] /\ UNCHANGED new
    /\ UNCHANGED mLock /\ UNCHANGED layoutRest

\* _merge_legacy_into_dest: a file that is missing is copied ...
CopyStarts(p, f) ==
    /\ ps[p].at = "merge" /\ f \in old /\ new[f] = "none"
    /\ new' = [new EXCEPT ![f] = "part"] /\ ps' = [ps EXCEPT ![p].at = "copying", ![p].file = f]
    /\ UNCHANGED <<old, oldDir, newDir, nested, mLock, hit>> /\ UNCHANGED layoutRest

CopyEnds(p) ==
    /\ ps[p].at = "copying" /\ Goto(p, "merge")
    /\ new' = [new EXCEPT ![ps[p].file] = "whole"]
    /\ UNCHANGED <<old, oldDir, newDir, nested, mLock, hit>> /\ UNCHANGED layoutRest

\* Mutant: the error is passed over.
CopyPassed(p) ==
    /\ ps[p].at = "copying" /\ Goto(p, "merge")
    /\ hit.errors < MaxErrors /\ hit' = [hit EXCEPT !.errors = @ + 1]
    /\ UNCHANGED <<old, oldDir, new, newDir, nested, mLock>> /\ UNCHANGED layoutRest

\* ... and an error ends the merge with both directories in place.
CopyFails(p) ==
    /\ ps[p].at = "copying" /\ Goto(p, "free")
    /\ hit.errors < MaxErrors /\ hit' = [hit EXCEPT !.errors = @ + 1]
    /\ UNCHANGED <<old, oldDir, new, newDir, nested, mLock>> /\ UNCHANGED layoutRest

RemoveOld(p) ==
    /\ ps[p].at = "merge" /\ \A f \in old : new[f] # "none"
    /\ old' = {} /\ oldDir' = FALSE /\ Goto(p, "free")
    /\ UNCHANGED <<new, newDir, nested, mLock, hit>> /\ UNCHANGED layoutRest

\* unlink, whoever created it.
FreeLayout(p) ==
    /\ ps[p].at = "free" /\ mLock' = [by |-> NoStart, aged |-> FALSE] /\ Goto(p, "uri")
    /\ UNCHANGED <<old, oldDir, new, newDir, nested, hit>> /\ UNCHANGED layoutRest

-----------------------------------------------------------------------------
(* monkeybot.yaml.                                                         *)

memoryDirs == <<old, oldDir, new, newDir, palaceDir, nested, mLock>>

\* _rewrite_text_file reads the text; nothing to replace, nothing written.
ReadsUri(p) ==
    /\ ps[p].at = "uri"
    /\ IF yaml.torn \/ yaml.uri = "new" THEN Goto(p, "embed")
       ELSE ps' = [ps EXCEPT ![p].at = "uriWrite", ![p].model = yaml.model]
    /\ UNCHANGED memoryDirs /\ UNCHANGED <<yaml, recorded, eLock, idFile, idLock, hit>>

\* write_text truncates the file first.
TruncatesYaml(p) ==
    /\ ps[p].at = "uriWrite" /\ yaml' = [yaml EXCEPT !.torn = TRUE] /\ Goto(p, "uriEnd")
    /\ UNCHANGED memoryDirs /\ UNCHANGED <<recorded, eLock, idFile, idLock, hit>>

WritesUri(p) ==
    /\ ps[p].at = "uriEnd" /\ Goto(p, "embed")
    /\ yaml' = [uri |-> "new", model |-> ps[p].model, torn |-> FALSE]
    /\ hit' = [hit EXCEPT !.clobbered = @ \/ yaml.model # ps[p].model]
    /\ UNCHANGED memoryDirs /\ UNCHANGED <<recorded, eLock, idFile, idLock>>

\* The model a reader of the file finds; a truncated file names the default.
Configured == IF yaml.torn THEN "minilm" ELSE yaml.model
ReadConfig == hit' = [hit EXCEPT !.halfRead = @ \/ yaml.torn]

-----------------------------------------------------------------------------
(* The name of the embedder.                                               *)

\* migrate_agent_embedding: the flock does not wait.
LocksEmbedding(p) ==
    /\ ps[p].at = "embed"
    /\ IF palaceDir /\ eLock # NoStart
       THEN ps' = [ps EXCEPT ![p].at = "read", ![p].skipped = TRUE] /\ UNCHANGED eLock
       ELSE Goto(p, "model") /\ eLock' = IF palaceDir THEN p ELSE eLock
    /\ UNCHANGED memoryDirs /\ UNCHANGED <<yaml, recorded, idFile, idLock, hit>>

Unlocks(p) == eLock' = IF eLock = p THEN NoStart ELSE eLock

\* _needs_migration.
ReadsModel(p) ==
    /\ ps[p].at = "model"
    /\ IF Configured = "legacy" \/ recorded = "legacy"
       THEN ps' = [ps EXCEPT ![p].at = "modelRead", ![p].was = recorded] /\ UNCHANGED eLock
       ELSE Goto(p, "read") /\ Unlocks(p)
    /\ ReadConfig
    /\ UNCHANGED memoryDirs /\ UNCHANGED <<yaml, recorded, idFile, idLock>>

\* _rewrite_config_files reads the text once more ...
ReadsText(p) ==
    /\ ps[p].at = "modelRead"
    /\ ps' = [ps EXCEPT ![p].at = "modelWrite", ![p].uri = yaml.uri, ![p].model = Configured]
    /\ ReadConfig
    /\ UNCHANGED memoryDirs /\ UNCHANGED <<yaml, recorded, eLock, idFile, idLock>>

\* Mutant: the palace is renamed before the configuration.
IdentityFirst(p) ==
    /\ ps[p].at = "modelWrite" /\ recorded' = (IF ps[p].was = "legacy" THEN "minilm" ELSE recorded)
    /\ Goto(p, "verify") /\ yaml' = yaml
    /\ UNCHANGED memoryDirs /\ UNCHANGED <<eLock, idFile, idLock, hit>>

\* ... and puts the rewritten one in its place with os.replace.
WritesModel(p) ==
    /\ ps[p].at = "modelWrite" /\ Goto(p, "verify")
    /\ yaml' = IF ps[p].model = "legacy" THEN [uri |-> ps[p].uri, model |-> "minilm", torn |-> FALSE]
               ELSE yaml
    /\ UNCHANGED memoryDirs /\ UNCHANGED <<recorded, eLock, idFile, idLock, hit>>

\* The configuration is read again before the palace is touched.
VerifiesModel(p) ==
    /\ ps[p].at = "verify"
    /\ IF Configured = "minilm" /\ palaceDir /\ ps[p].was = "legacy"
       THEN Goto(p, "identity") /\ UNCHANGED eLock
       ELSE Goto(p, "read") /\ Unlocks(p)
    /\ ReadConfig
    /\ UNCHANGED memoryDirs /\ UNCHANGED <<yaml, recorded, idFile, idLock>>

WritesIdentity(p) ==
    /\ ps[p].at = "identity" /\ recorded' = "minilm" /\ Goto(p, "read") /\ Unlocks(p)
    /\ UNCHANGED memoryDirs /\ UNCHANGED <<yaml, idFile, idLock, hit>>

-----------------------------------------------------------------------------
(* The palace is opened.                                                   *)

\* apply_monkeybot_runtime_env.
ReadsConfig(p) ==
    /\ ps[p].at = "read" /\ ps' = [ps EXCEPT ![p].at = "open", ![p].model = Configured]
    /\ ReadConfig
    /\ UNCHANGED memoryDirs /\ UNCHANGED <<yaml, recorded, eLock, idFile, idLock>>

\* MemPalaceAdapter.__init__: the directory, then _check_embedder_identity.
OpensPalace(p) ==
    LET right == recorded \in {"none", ps[p].model} IN
    /\ ps[p].at = "open" /\ newDir' = "real" /\ palaceDir' = TRUE
    /\ Goto(p, IF right /\ ps[p].model = "minilm" THEN "id" ELSE "refused")
    /\ recorded' = IF recorded = "none" THEN ps[p].model ELSE recorded
    /\ hit' = [hit EXCEPT !.mislabelled = @ \/ (recorded' = "legacy" /\ recorded = "none")]
    /\ UNCHANGED <<old, oldDir, new, nested, mLock, yaml, eLock, idFile, idLock>>

palace == <<yaml, recorded, eLock, hit>>

\* Mutant: the id is created without the volume lock.
ReadsIdUnlocked(p) ==
    /\ ps[p].at = "id"
    /\ IF idFile \in Starts THEN ps' = [ps EXCEPT ![p].at = "ready", ![p].id = idFile]
       ELSE Goto(p, "idCreate")
    /\ UNCHANGED memoryDirs /\ UNCHANGED palace /\ UNCHANGED <<idFile, idLock>>

\* palace_instance_id: first without the lock.
ReadsId(p) ==
    /\ ps[p].at = "id"
    /\ IF idFile \in Starts
       THEN ps' = [ps EXCEPT ![p].at = "ready", ![p].id = idFile] /\ UNCHANGED idLock
       ELSE idLock = NoStart /\ idLock' = p /\ Goto(p, "idCreate")
    /\ UNCHANGED memoryDirs /\ UNCHANGED palace /\ UNCHANGED idFile

\* The file is created or truncated ...
CreatesId(p) ==
    /\ ps[p].at = "idCreate"
    /\ IF idFile \in Starts
       THEN /\ ps' = [ps EXCEPT ![p].at = "ready", ![p].id = idFile]
            /\ idLock' = NoStart /\ UNCHANGED idFile
       ELSE idFile' = "empty" /\ Goto(p, "idWrite") /\ UNCHANGED idLock
    /\ UNCHANGED memoryDirs /\ UNCHANGED palace

\* ... and then written.
WritesId(p) ==
    /\ ps[p].at = "idWrite" /\ idFile' = p /\ idLock' = NoStart
    /\ ps' = [ps EXCEPT ![p].at = "ready", ![p].id = p]
    /\ UNCHANGED memoryDirs /\ UNCHANGED palace

StartDies(p) ==
    /\ ps[p].at \notin {"layout", "ready", "refused", "dead"}
    /\ hit.deaths < MaxDeaths /\ hit' = [hit EXCEPT !.deaths = @ + 1]
    /\ Goto(p, "dead") /\ Unlocks(p) /\ idLock' = (IF idLock = p THEN NoStart ELSE idLock)
    /\ UNCHANGED memoryDirs /\ UNCHANGED <<yaml, recorded, idFile>>

StartStep(p) ==
    \/ AcquireLayout(p) \/ StealLayout(p) \/ LooksAtBoth(p) \/ RenameOld(p) \/ CopyEnds(p) \/ CopyFails(p)
    \/ \E f \in Notes : CopyStarts(p, f)
    \/ RemoveOld(p) \/ FreeLayout(p)
    \/ ReadsUri(p) \/ TruncatesYaml(p) \/ WritesUri(p)
    \/ LocksEmbedding(p) \/ ReadsModel(p) \/ ReadsText(p) \/ WritesModel(p) \/ VerifiesModel(p) \/ WritesIdentity(p)
    \/ ReadsConfig(p) \/ OpensPalace(p) \/ ReadsId(p) \/ CreatesId(p) \/ WritesId(p)

PsNext == (\E p \in Starts : StartStep(p) \/ StartDies(p)) \/ LayoutLockAges

PsSpec == PsInit /\ [][PsNext]_psVars

-----------------------------------------------------------------------------
HadNotes == oldDir \/ nested \/ \E f \in Notes : new[f] # "none"

\* Every note is whole somewhere, whoever dies or fails on the way.
NotesKept == hit.slow \/ (HadNotes => \A f \in Notes : f \in old \/ nested \/ new[f] = "whole")

\* data/memory ends up as memory, not inside it.
NotesFound == hit.beaten \/ ~nested

\* "the reverse (identity=minilm, config=legacy) trips embedder mismatch".
IdentityFollows == hit.clobbered \/ hit.halfRead \/ (recorded = "minilm" => Configured = "minilm")

\* A start that was not told to skip can open the palace.
Opens == hit.clobbered \/ hit.halfRead \/ hit.mislabelled \/ \A p \in Starts : ps[p].at = "refused" => ps[p].skipped

\* Every process has the same id for the palace.
OneId == \A p, q \in Starts : NoStart \in {ps[p].id, ps[q].id} \/ ps[p].id = ps[q].id

\* The configuration is truncated only while someone writes it.
YamlWhole == hit.deaths > 0 \/ (yaml.torn => \E p \in Starts : ps[p].at = "uriEnd")

\* A start loses no memory, whoever else starts or dies.
StartupSafe == NotesKept /\ NotesFound /\ IdentityFollows /\ Opens /\ OneId /\ YamlWhole
=============================================================================
