------------------------------- MODULE MCTools -------------------------------
(***************************************************************************)
(* What the tool calls of a turn do, in one instance: the batch they are   *)
(* dispatched in, the stored answers that let a call pass, the files the   *)
(* write tools change and the ledger that guards them, the MCP server that *)
(* enable_mcp and disable_mcp act on, and the background commands.  The    *)
(* modules share no variable; part names the one that moves, so the states *)
(* are the sum of the six.                                                 *)
(***************************************************************************)
EXTENDS ToolBatch, Grants, FileChanges, ReadLedger, MCPConnections, BackgroundJobs

VARIABLE part

toolsVars == <<part, vars, grVars, fcVars, ldVars, mcpVars, jobsVars>>

\* A part that does not move starts in one of its initial states.
ToolsInit ==
    /\ part \in {"batch", "grants", "files", "ledger", "mcp", "jobs"}
    /\ Init /\ GrInit /\ FcInit /\ LdInit /\ McpInit /\ JobsInit
    /\ part # "batch" =>
          batch = <<[c \in Calls |-> "safe"], [c \in Calls |-> "allow"], FALSE>>
    /\ part # "grants" => store = "grants"
    /\ part # "ledger" => \A p \in LedgerPaths : body[p] = NoBody
    /\ part # "mcp" => file = "first"

ToolsNext ==
    /\ UNCHANGED part
    /\ \/ part = "batch" /\ Next /\ UNCHANGED <<grVars, fcVars, ldVars, mcpVars, jobsVars>>
       \/ part = "grants" /\ GrNext /\ UNCHANGED <<vars, fcVars, ldVars, mcpVars, jobsVars>>
       \/ part = "files" /\ FcNext /\ UNCHANGED <<vars, grVars, ldVars, mcpVars, jobsVars>>
       \/ part = "ledger" /\ LdNext /\ UNCHANGED <<vars, grVars, fcVars, mcpVars, jobsVars>>
       \/ part = "mcp" /\ McpNext /\ UNCHANGED <<vars, grVars, fcVars, ldVars, jobsVars>>
       \/ part = "jobs" /\ JobsNext /\ UNCHANGED <<vars, grVars, fcVars, ldVars, mcpVars>>

\* The fairness of ToolBatch, for the part that moves.
ToolsFairness ==
    /\ WF_vars(part = "batch" /\ Gate) /\ WF_vars(part = "batch" /\ Execute)
    /\ \A c \in Calls : WF_vars(part = "batch" /\ Tool(c))
    /\ WF_vars(part = "batch" /\ TimerFires) /\ WF_vars(part = "batch" /\ Quiesce)
    /\ WF_vars(part = "batch" /\ Watch) /\ WF_vars(part = "batch" /\ HardCancel)

ToolsSpec == ToolsInit /\ [][ToolsNext]_toolsVars /\ ToolsFairness

\* The variables of the part that moves keep their types.
ToolsTypeOK ==
    /\ part = "batch" => TypeOK
    /\ part = "grants" => GrTypeOK
    /\ part = "files" => FcTypeOK
    /\ part = "ledger" => LdTypeOK
    /\ part = "mcp" => McpTypeOK
    /\ part = "jobs" => JobsTypeOK

\* What outlives a call is accounted for: the servers that enable_mcp connected
\* (MCPSubsystem) and the commands that run in the background (JobRegistry).
OutlivesSafe == McpSafe /\ JobsSafe

\* What the file tools do to the workspace: a change record restores what it
\* recorded (ChangeRecorder), and an edit replaces what the model has read
\* (_edit_guard).
FilesSafe == ChangesSafe /\ EditsAreInformed
=============================================================================
