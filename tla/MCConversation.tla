---------------------------- MODULE MCConversation ----------------------------
(***************************************************************************)
(* What happens to one conversation: the inner turns of the loop, the      *)
(* compaction of its history, the branches a rewrite leaves, the repair of *)
(* its tool calls and the ledger of its goals.  The modules share no       *)
(* variable; part names the one that moves, so the states are the sum of   *)
(* the five.                                                               *)
(***************************************************************************)
EXTENDS TurnLoop, ThreadHistory, HistoryBranches, ToolIntegrity, GoalLedger

\* Rows 2 and 5 say the same; row 3 comes with media, if it is of the user or
\* the response to a tool call.
SomeTexts == [id \in 1..MaxIds |-> {IF id \in {2, 5} THEN 0 ELSE id}]
SomeMedia == [id \in 1..MaxIds |-> {IF id = 3 THEN "raw" ELSE "none"}]

VARIABLE part

conversationVars == <<part, loopVars, histVars, branchVars, stored, glVars>>

ConversationInit ==
    /\ part \in {"loop", "history", "branches", "wire", "ledger"}
    /\ Init /\ HistInit /\ BranchInit /\ WireInit /\ GlInit

ConversationNext ==
    /\ UNCHANGED part
    /\ \/ part = "loop" /\ Next /\ UNCHANGED <<histVars, branchVars, stored, glVars>>
       \/ part = "history" /\ HistNext /\ UNCHANGED <<loopVars, branchVars, stored, glVars>>
       \/ part = "branches" /\ BranchNext /\ UNCHANGED <<loopVars, histVars, stored, glVars>>
       \/ part = "wire" /\ AddBlock /\ UNCHANGED <<loopVars, histVars, branchVars, glVars>>
       \/ part = "ledger" /\ GlNext /\ UNCHANGED <<loopVars, histVars, branchVars, stored>>

\* The fairness of FairSpec, for the part that moves.
ConversationSpec ==
    ConversationInit /\ [][ConversationNext]_conversationVars /\ WF_loopVars(part = "loop" /\ Step)

\* The variables of the part that moves keep their types.
ConversationTypeOK ==
    /\ part = "loop" => TypeOK
    /\ part = "history" => HistTypeOK
    /\ part = "branches" => BranchTypeOK
    /\ part = "ledger" => GlTypeOK
=============================================================================
