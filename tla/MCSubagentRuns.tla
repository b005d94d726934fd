---------------------------- MODULE MCSubagentRuns ----------------------------
(* Small instances of SubagentRuns: up to four processes on two hosts.     *)
EXTENDS SubagentRuns, TLC

CONSTANTS o1, o2, o3, o4, h1, h2

\* o1, o2 and o4 are processes of one host, o3 is on another
TwoHosts == (o1 :> h1) @@ (o2 :> h1) @@ (o4 :> h1) @@ (o3 :> h2)
\* the processes of the first host are interchangeable
OwnerSymmetry == Permutations({o1, o2, o4})
=============================================================================
