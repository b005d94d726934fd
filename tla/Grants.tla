------------------------------- MODULE Grants -------------------------------
(***************************************************************************)
(* The stored "Always allow" answers: the file of a home                   *)
(* (core/tools/grant_store.py) or of an agent (computer/approvals.py), the *)
(* lock file its writers create, the reader that caches it by its stamp    *)
(* (GrantStoreCache, ComputerAwarePermissionInspector) and the answers a   *)
(* session remembers (core/tools/permission.py).                           *)
(*                                                                         *)
(* Several processes write one file: gateways, and the settings window,    *)
(* which follows the same protocol.  Only Agent has sessions here.  It     *)
(* writes and checks on one event loop, so it never does both at once.     *)
(***************************************************************************)
EXTENDS Naturals, FiniteSets

CONSTANTS Agent,      \* the gateway whose sessions are modelled
          Adders,     \* the other gateways that share the file
          Removers,   \* the settings windows
          Chats,      \* sessions of Agent
          Items,      \* commands, folders or resources
          MaxAsks,    \* bound: additions and removals begun
          MaxMishaps  \* bound: crashes, edits by hand and configuration reloads

Writers == {Agent} \union Adders \union Removers

ASSUME GrantsAssumption ==
    /\ Agent \notin Adders \union Removers
    /\ "no one" \notin Writers /\ "no chat" \notin Chats
    /\ Items # {}

NoLock == [by |-> "no one", age |-> "fresh"]
NoCheck == [chat |-> "no chat", stamp |-> 0]

VARIABLES store,    \* grants or approvals
          disk,     \* the file: its entries, its text (can it be read?), its stamp (0: no file)
          lockFile, \* the lock file: who created it, and its age (old: past _LOCK_STALE_S)
          writer,   \* what each process does
          cache,    \* the reader of Agent: the entries it holds and their stamp
          check,    \* a check that has taken the stamp and not loaded yet
          mem,      \* session_approvals of each chat
          \* What happened, for bounds and properties only.
          kept,     \* entries whose addition was reported and that no one removed
          spoilt,   \* "stolen": a lock was removed that was not abandoned; "lost":
                    \* approvals.py read an unreadable file as an empty one and writes it
          deaf,     \* chats that remembered a revoked entry when others, or a new reader, loaded
          used      \* asks and mishaps so far

grVars == <<store, disk, lockFile, writer, cache, check, mem, kept, spoilt, deaf, used>>

IdleWriter == [at |-> "idle", op |-> "add", item |-> CHOOSE i \in Items : TRUE,
         chat |-> "no chat", read |-> {}]

GrTypeOK ==
    /\ store \in {"grants", "approvals"}
    /\ disk \in [items : SUBSET Items, text : {"good", "damaged"}, stamp : Nat]
    /\ lockFile \in [by : Writers \union {"no one"}, age : {"fresh", "old"}]
    /\ writer \in [Writers -> [at : {"idle", "open", "unlink", "read", "write", "release", "stored"},
                               op : {"add", "remove"}, item : Items,
                               chat : Chats \union {"no chat"}, read : SUBSET Items]]
    /\ cache \in [items : SUBSET Items, stamp : Nat]
    /\ check \in [chat : Chats \union {"no chat"}, stamp : Nat]
    /\ mem \in [Chats -> SUBSET Items]
    /\ kept \subseteq Items /\ deaf \subseteq Chats /\ spoilt \subseteq {"stolen", "lost"}

GrInit ==
    /\ store \in {"grants", "approvals"}
    /\ disk = [items |-> {}, text |-> "good", stamp |-> 0]
    /\ lockFile = NoLock /\ writer = [p \in Writers |-> IdleWriter]
    /\ cache = [items |-> {}, stamp |-> 0] /\ check = NoCheck /\ mem = [c \in Chats |-> {}]
    /\ kept = {} /\ spoilt = {} /\ deaf = {}
    /\ used = [asks |-> 0, mishaps |-> 0]

Mishap == used.mishaps < MaxMishaps /\ used' = [used EXCEPT !.mishaps = @ + 1]

Goes(p, at) == writer' = [writer EXCEPT ![p].at = at]

-----------------------------------------------------------------------------
(* Writers.                                                                *)

BeginsChange(p, op, i, c) ==
    /\ writer[p].at = "idle" /\ used.asks < MaxAsks
    /\ writer' = [writer EXCEPT ![p] = [IdleWriter EXCEPT !.at = "open", !.op = op, !.item = i, !.chat = c]]
    /\ used' = [used EXCEPT !.asks = @ + 1]
    /\ UNCHANGED <<store, disk, lockFile, cache, check, mem, kept, spoilt, deaf>>

\* remember_always_approval: the answer to a question asked some time before.
AllowAlways(c, i) == check = NoCheck /\ BeginsChange(Agent, "add", i, c)

\* The settings window removes an entry, another gateway adds one.
Elsewhere(p, op, i) == BeginsChange(p, op, i, "no chat")

\* Mutant: the lock file is opened without O_EXCL.
OpensLock(p) ==
    /\ writer[p].at = "open" /\ lockFile' = [by |-> p, age |-> "fresh"] /\ Goes(p, "read")
    /\ UNCHANGED <<store, disk, cache, check, mem, kept, spoilt, deaf, used>>

\* os.open with O_CREAT and O_EXCL.
TakeLock(p) ==
    /\ writer[p].at = "open" /\ lockFile = NoLock
    /\ lockFile' = [by |-> p, age |-> "fresh"] /\ Goes(p, "read")
    /\ UNCHANGED <<store, disk, cache, check, mem, kept, spoilt, deaf, used>>

\* The stat of a lock file that another process created.
SeesStale(p) ==
    /\ writer[p].at = "open" /\ lockFile.age = "old" /\ Goes(p, "unlink")
    /\ UNCHANGED <<store, disk, lockFile, cache, check, mem, kept, spoilt, deaf, used>>

\* TimeoutError after _LOCK_TIMEOUT_S: nothing is written or remembered.
LockTimeout(p) ==
    /\ writer[p].at = "open" /\ lockFile # NoLock /\ lockFile.age = "fresh"
    /\ writer' = [writer EXCEPT ![p] = IdleWriter]
    /\ UNCHANGED <<store, disk, lockFile, cache, check, mem, kept, spoilt, deaf, used>>

\* unlink takes a path: it removes the lock that is there now.
Removes(p) ==
    /\ lockFile' = NoLock
    /\ spoilt' = IF lockFile # NoLock /\ lockFile.by # p /\ lockFile.age = "fresh"
                 THEN spoilt \union {"stolen"} ELSE spoilt

Reclaim(p) ==
    /\ writer[p].at = "unlink" /\ Removes(p) /\ Goes(p, "open")
    /\ UNCHANGED <<store, disk, cache, check, mem, kept, deaf, used>>

\* load_grants and load_approvals: an unreadable file has no entries.
Loaded == IF disk.text = "damaged" THEN {} ELSE disk.items

\* Mutant: an addition reads as the checks do.
RefusesAnyway(p) == FALSE

\* _parse_grants returns None; approvals.py has no such answer.
Refuses(p) == disk.text = "damaged" /\ store = "grants"

\* A removal of what is not there writes nothing.
ReadFile(p) ==
    LET w == writer[p] IN
    /\ w.at = "read"
    /\ IF Refuses(p) \/ (w.op = "remove" /\ w.item \notin Loaded)
       THEN Goes(p, "release")
       ELSE writer' = [writer EXCEPT ![p].at = "write", ![p].read = Loaded]
    /\ spoilt' = IF disk.text = "damaged" /\ store = "approvals" /\ writer'[p].at = "write"
                 THEN spoilt \union {"lost"} ELSE spoilt
    /\ UNCHANGED <<store, disk, lockFile, cache, check, mem, kept, deaf, used>>

\* _write_atomic: os.replace of a complete file.
WriteGrants(p) ==
    LET w == writer[p] IN
    /\ w.at = "write" /\ Goes(p, "stored")
    /\ disk' = [items |-> IF w.op = "add" THEN w.read \union {w.item} ELSE w.read \ {w.item},
                text |-> "good", stamp |-> disk.stamp + 1]
    /\ kept' = (IF w.op = "add" THEN kept \union {w.item} ELSE kept \ {w.item})
    /\ UNCHANGED <<store, lockFile, cache, check, mem, spoilt, deaf, used>>

\* The finally of _file_lock; then Agent remembers what was stored.
ReleaseGrants(p) ==
    LET w == writer[p] IN
    /\ w.at \in {"release", "stored"} /\ Removes(p)
    /\ writer' = [writer EXCEPT ![p] = IdleWriter]
    /\ mem' = IF w.at = "stored" /\ w.chat \in Chats THEN [mem EXCEPT ![w.chat] = @ \union {w.item}] ELSE mem
    /\ UNCHANGED <<store, disk, cache, check, kept, deaf, used>>

\* A process dies.  The sessions and the reader of Agent go with it.
WriterDies(p) ==
    /\ Mishap
    /\ writer[p].at # "idle" /\ writer' = [writer EXCEPT ![p] = IdleWriter]
    /\ IF p = Agent
       THEN /\ mem' = [c \in Chats |-> {}] /\ deaf' = {}
            /\ cache' = [items |-> {}, stamp |-> 0] /\ check' = NoCheck
       ELSE UNCHANGED <<mem, deaf, cache, check>>
    /\ UNCHANGED <<store, disk, lockFile, kept, spoilt>>

\* A holder is done well under a second: the lock that ages is a dead one's.
LockAges ==
    /\ lockFile # NoLock /\ lockFile.age = "fresh"
    /\ writer[lockFile.by].at \notin {"read", "write", "release", "stored"}
    /\ lockFile' = [lockFile EXCEPT !.age = "old"]
    /\ UNCHANGED <<store, disk, writer, cache, check, mem, kept, spoilt, deaf, used>>

\* The file is edited by hand: broken, or made readable again.
HandEdit ==
    /\ disk.stamp > 0 /\ Mishap
    /\ disk' = [disk EXCEPT !.text = IF @ = "good" THEN "damaged" ELSE "good",
                            !.stamp = @ + 1]
    /\ UNCHANGED <<store, lockFile, writer, cache, check, mem, kept, spoilt, deaf>>

-----------------------------------------------------------------------------
(* Checks.                                                                 *)

\* A check of chat c finds that the file has changed.
CheckStamp(c) ==
    /\ writer[Agent].at = "idle" /\ check = NoCheck /\ disk.stamp # cache.stamp
    /\ check' = [chat |-> c, stamp |-> disk.stamp]
    /\ UNCHANGED <<store, disk, lockFile, writer, cache, mem, kept, spoilt, deaf, used>>

\* Mutant: the session keeps what it remembers.
KeepsAll(c) == mem[c]

\* _reload_overlay_if_stale: the chat that checks forgets, unless the reader is new.
Remembers(c) == IF store = "approvals" /\ c = check.chat /\ cache.stamp # 0 THEN {} ELSE mem[c]

LoadCache ==
    /\ check # NoCheck /\ check' = NoCheck
    /\ cache' = [items |-> Loaded, stamp |-> check.stamp]
    /\ mem' = [c \in Chats |-> Remembers(c)]
    /\ deaf' = {c \in Chats : /\ c \in deaf \/ c # check.chat \/ cache.stamp = 0
                              /\ ~(c = check.chat /\ cache.stamp # 0)
                              /\ ~(mem[c] \subseteq Loaded)}
    /\ UNCHANGED <<store, disk, lockFile, writer, kept, spoilt, used>>

\* build_inspectors: a new reader that has loaded nothing.
NewReader ==
    /\ Mishap
    /\ writer[Agent].at = "idle" /\ check = NoCheck
    /\ cache' = [items |-> {}, stamp |-> 0]
    /\ UNCHANGED <<store, disk, lockFile, writer, check, mem, kept, spoilt, deaf>>

GrNext ==
    \/ \E c \in Chats, i \in Items : AllowAlways(c, i)
    \/ \E p \in Adders, i \in Items : Elsewhere(p, "add", i)
    \/ \E p \in Removers, i \in Items : Elsewhere(p, "remove", i)
    \/ \E p \in Writers :
         \/ TakeLock(p) \/ SeesStale(p) \/ LockTimeout(p) \/ Reclaim(p)
         \/ ReadFile(p) \/ WriteGrants(p) \/ ReleaseGrants(p) \/ WriterDies(p)
    \/ LockAges \/ HandEdit
    \/ \E c \in Chats : CheckStamp(c)
    \/ LoadCache \/ NewReader

GrSpec == GrInit /\ [][GrNext]_grVars

-----------------------------------------------------------------------------
\* An entry whose addition was reported is in the file until someone removes
\* it: neither a writer at the same time nor an unreadable file loses it
\* (_file_lock, _parse_grants).
GrantsKept == spoilt = {} => kept \subseteq disk.items

\* A reader whose stamp is that of the file has the entries of the file
\* (GrantStoreCache.get).
CacheTrue == check = NoCheck /\ cache.stamp = disk.stamp => cache.items = Loaded

\* A chat does not go on with an entry that was removed in the settings
\* (_reload_overlay_if_stale).
RevokeHeard ==
    store = "approvals" /\ check = NoCheck /\ cache.stamp = disk.stamp =>
        \A c \in Chats \ deaf : mem[c] \subseteq disk.items

\* Stored answers are neither lost nor used after they were taken back.
GrantsSafe == GrantsKept /\ CacheTrue /\ RevokeHeard
=============================================================================
