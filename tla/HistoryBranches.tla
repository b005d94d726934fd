-------------------------- MODULE HistoryBranches --------------------------
(***************************************************************************)
(* The branch tree of one session (history_rewrite, BranchStore): edit,    *)
(* regenerate, rewind and restore copy a prefix of the active thread onto  *)
(* a new active branch; truncate cuts the active thread in place; turns    *)
(* and compactions change it.  The client has one way to another version   *)
(* of the chat: the options of the navigator points on the active thread,  *)
(* placed by the ids of fork rows that may be compacted away.              *)
(***************************************************************************)
EXTENDS HistoryRows

CONSTANTS MaxBranches,  \* bound: branches besides the root
          MaxBranchIds, \* bound: rows ever written
          BranchBudget  \* tail budget of a compaction

ASSUME BranchConstants == MaxBranches \in Nat /\ MaxBranchIds \in Nat /\ BranchBudget \in Nat

VARIABLES thread,   \* branch -> its rows; the root is branch 0
          parent,   \* branch -> parent_branch_id
          forkRow,  \* branch -> fork_row_id, 0 for None
          recent,   \* branches with a record, least recently active first
          active,   \* the branch turns read and write
          nextRow

branchVars == <<thread, parent, forkRow, recent, active, nextRow>>

Root == 0

Branches == 0..MaxBranches

\* The records of the session: none before the first branch.
Records == Range(recent)

BranchTypeOK ==
    /\ thread \in [Branches -> Seq([id : 1..MaxBranchIds, kind : {"user", "reply", "summary"},
                                    of : {0}, says : 1..MaxBranchIds, media : {"none"}, about : {0},
                                    tok : {1}, covers : SUBSET (1..MaxBranchIds)])]
    /\ parent \in [Branches -> Branches] /\ forkRow \in [Branches -> 0..MaxBranchIds]
    /\ recent \in Seq(Branches) /\ Cardinality(Records) = Len(recent) /\ active \in Branches /\ nextRow \in 1..(MaxBranchIds + 1)

BranchInit ==
    /\ thread = [b \in Branches |-> <<>>]
    /\ parent = [b \in Branches |-> Root] /\ forkRow = [b \in Branches |-> 0]
    /\ recent = <<>> /\ active = Root /\ nextRow = 1

-----------------------------------------------------------------------------
(* The navigator on the thread of the active branch a.                     *)

Beyond == MaxBranchIds + 1   \* math.inf

PositionIn(rows, id) == LET at == {i \in DOMAIN rows : rows[i].id = id} IN IF at = {} THEN Beyond ELSE Min(at)

Up == [b \in Branches |->
          LET up[n \in Nat] == IF n = 0 THEN {b} ELSE up[n - 1] \cup {parent[x] : x \in up[n - 1]}
          IN  up[MaxBranches]]

Members(key) ==
    UNION {{b, parent[b]} : b \in {x \in Records \ {Root} : forkRow[x] = key}}

\* Where the fork row of a key sits: before the first row, on its row, on the
\* summary that swallowed it, or nowhere.
KeyPosition(key, a, rows) ==
    CASE key = 0 -> 0
      [] key # 0 /\ PositionIn(rows, key) # Beyond -> PositionIn(rows, key)
      [] OTHER -> IF a \in Members(key) /\ LastSummary(rows) # 0 THEN LastSummary(rows) ELSE Beyond

\* Last position that branches x and y share, seen from the key.
SplitPosition(x, y, key, r, rows) ==
    LET position(f) == IF f = key THEN r ELSE IF f = 0 THEN 0 ELSE PositionIn(rows, f)
        hops == (Up[x] \ Up[y]) \cup (Up[y] \ Up[x])
    IN  IF x = y THEN Beyond ELSE Min({position(forkRow[h]) : h \in hops})

RecentIndex(b) == CHOOSE i \in DOMAIN recent : recent[i] = b

\* The continuations at a key, each offered as the active branch or else its
\* most recently active member.
Options(key, a, rows) ==
    LET r == KeyPosition(key, a, rows)
        candidates == Members(key) \cup {a}
        Together(x) == {y \in candidates : SplitPosition(x, y, key, r, rows) > r}
        Offer(g) == IF a \in g THEN a ELSE CHOOSE b \in g : \A c \in g : RecentIndex(c) <= RecentIndex(b)
        groups == {Together(x) \cup {x} : x \in candidates}
    IN  IF r = Beyond \/ rows = <<>> \/ Cardinality(groups) < 2 THEN {} ELSE {Offer(g) : g \in groups}

Keys == {forkRow[b] : b \in Records \ {Root}}

Offered(a, rows) == UNION {Options(key, a, rows) : key \in Keys}

\* Mutant: a truncate may cut any row.
StrandsNothing(rows, end) == FALSE

\* _strands_a_branch: the cut drops a fork row with a point, or an option.
Strands(rows, end) ==
    LET cut == SubSeq(rows, 1, end)  dropped == Ids(rows) \ Ids(cut)
    IN  \E key \in Keys :
            /\ Options(key, active, rows) # {}
            /\ key \in dropped \/ ~(Options(key, active, rows) \subseteq Options(key, active, cut))

-----------------------------------------------------------------------------
(* Turns and compactions of the active thread.                             *)

Row(id, kind) ==
    [id |-> id, kind |-> kind, of |-> 0, says |-> id, media |-> "none", about |-> 0, tok |-> 1, covers |-> {}]

\* Mutant: the branch is listed again each time it is used.
TouchedTwice(seq, b) == IF b \in Range(seq) THEN Append(seq, b) ELSE seq

\* touch and set_active move a branch to the end; a session without records
\* has nothing to touch.
Touched(seq, b) == IF b \in Range(seq) THEN Append(Sublist(seq, {i \in DOMAIN seq : seq[i] # b}), b) ELSE seq

\* A turn stores the message of the user and, unless it fails, a reply.
Turn(withReply) ==
    LET n == IF withReply THEN 2 ELSE 1
    IN  /\ nextRow + n - 1 <= MaxBranchIds
        /\ thread' = [thread EXCEPT ![active] =
                @ \o SubSeq(<<Row(nextRow, "user"), Row(nextRow + 1, "reply")>>, 1, n)]
        /\ nextRow' = nextRow + n
        /\ recent' = Touched(recent, active)
        /\ UNCHANGED <<parent, forkRow, active>>

CompactThread ==
    LET rows == thread[active]  sp == SplitForCompaction(rows, BranchBudget)
    IN  /\ nextRow <= MaxBranchIds /\ Compactable(sp)
        /\ thread' = [thread EXCEPT ![active] =
                RebuildCompacted(rows, sp.head, SummaryOf(nextRow, sp.middle), sp.tail)]
        /\ nextRow' = nextRow + 1
        /\ UNCHANGED <<parent, forkRow, recent, active>>

-----------------------------------------------------------------------------
(* The operations of the user; each holds the session idle.                *)

Ops == {"edit", "regenerate", "rewind", "restore"}

\* prefix_end_for: the end an operation keeps, Beyond when it is refused.
PrefixEnd(rows, i, op) ==
    LET owner == {j \in 1..i : rows[j].kind = "user"}
        end == CASE op \in {"edit", "restore"} -> i - 1
                 [] op = "regenerate" -> Max({0} \cup owner) - 1
                 [] op = "rewind" -> RewindEnd(rows, i)
    IN  IF \/ op \in {"edit", "restore"} /\ rows[i].kind # "user"
           \/ op = "restore" /\ i = 1
           \/ op = "regenerate" /\ owner = {}
           \/ op = "rewind" /\ end >= Len(rows)
           \/ ~KeepsSummary(rows, end) \/ SplitsToolPair(rows, end)
        THEN Beyond ELSE end

\* branch_op; edit and regenerate hand the lock to a turn, which stores its
\* message first (unless the process dies before).
BranchOp(op, i) ==
    LET rows == thread[active]
        end  == PrefixEnd(rows, i, op)
        new  == IF recent = <<>> THEN 1 ELSE Cardinality(Records)
        prefix == SubSeq(rows, 1, end)
    IN  /\ new <= MaxBranches /\ end # Beyond
        /\ parent' = [parent EXCEPT ![new] = active]
        /\ forkRow' = [forkRow EXCEPT ![new] = IF end = 0 THEN 0 ELSE rows[end].id]
        /\ recent' = Append(IF recent = <<>> THEN <<Root>> ELSE recent, new)
        /\ active' = new
        /\ \/ /\ thread' = [thread EXCEPT ![new] = prefix]
              /\ UNCHANGED nextRow
           \/ /\ op \in {"edit", "regenerate"} /\ nextRow <= MaxBranchIds
              /\ thread' = [thread EXCEPT ![new] = Append(prefix, Row(nextRow, "user"))]
              /\ nextRow' = nextRow + 1

ActivateBranch(b) ==
    /\ b \in Records \ {active}
    /\ active' = b
    /\ recent' = Touched(recent, b)
    /\ UNCHANGED <<thread, parent, forkRow, nextRow>>

TruncateBranch(i) ==
    LET rows == thread[active]  end == RewindEnd(rows, i)
    IN  /\ end < Len(rows) /\ KeepsSummary(rows, end) /\ ~SplitsToolPair(rows, end)
        /\ ~Strands(rows, end)
        /\ thread' = [thread EXCEPT ![active] = SubSeq(rows, 1, end)]
        /\ UNCHANGED <<parent, forkRow, recent, active, nextRow>>

BranchNext ==
    \/ \E withReply \in BOOLEAN : Turn(withReply)
    \/ CompactThread
    \/ \E i \in DOMAIN thread[active] :
          TruncateBranch(i) \/ \E op \in Ops : BranchOp(op, i)
    \/ \E b \in Records : ActivateBranch(b)

BranchSpec == BranchInit /\ [][BranchNext]_branchVars

-----------------------------------------------------------------------------
(* Properties.                                                             *)

\* Every version of the chat stays within reach: following the options the
\* navigator offers, from the active thread on, leads to every branch,
\* whatever was compacted or cut on either side of a fork.  An empty thread
\* shows no navigator.
AllReachable ==
    LET from[n \in Nat] ==
            IF n = 0 THEN {active}
            ELSE from[n - 1] \cup UNION {Offered(b, thread[b]) : b \in from[n - 1]}
    IN  thread[active] # <<>> => Records \subseteq from[MaxBranches]
=============================================================================
