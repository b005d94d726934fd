--------------------------- MODULE MCScheduledLoops ---------------------------
(* Small instances of ScheduledLoops: plain loops and goals that share one   *)
(* session, and the symmetric identities of workers, tasks and callers.      *)
EXTENDS ScheduledLoops, TLC

CONSTANTS k1, g1, g2, w1, w2, t1, t2, t3, a1, a2, s1, Two

OneSession == [l \in Loops |-> s1]
TickLimits == [l \in Loops |-> IF l \in Goals THEN 0 ELSE Two]

\* A plain loop or a goal, not both; two edits (a pause and a resume) or a crash.
\* The loop: two tasks and two claims.  The goal: two calls of its service, and two
\* claims in turn, both of which may end in an error, the second beside one edit.
OneRow ==
    /\ row[k1].status = "absent" \/ row[g1].status = "absent"
    /\ edits = 0 \/ crashes = 0
    /\ row[g1].status # "absent" =>
           /\ claims[g1] > 1 => edits <= 1 /\ crashes = 0
           /\ Cardinality({t \in Tasks : task[t] # NoTask}) <= 1

RowSymmetry == Permutations(Tasks) \cup Permutations(Workers) \cup Permutations(Admins)
=============================================================================
