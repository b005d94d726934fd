------------------------------ MODULE MCGateway ------------------------------
(***************************************************************************)
(* The components of the gateway that share no state in one instance: the  *)
(* event stream of a session, the memory outbox, what a start does to the  *)
(* memory, the reload of the configuration, the verifier and the voice     *)
(* calls.  part names the one that moves; the others stay where they       *)
(* start, so the states are the sum of the six.                            *)
(***************************************************************************)
EXTENDS EventStream, MemoryOutbox, PalaceStartup, ConfigReload, Verifier, RealtimeCall

VARIABLE part

gatewayVars == <<part, evVars, memVars, psVars, rlVars, vfVars, rtVars>>

\* A part that does not move starts in one of its initial states.
GatewayInit ==
    /\ part \in {"events", "outbox", "startup", "reload", "verifier", "call"}
    /\ EvInit /\ MemInit /\ PsInit /\ RlInit /\ VfInit /\ RtInit
    /\ part # "startup" => ~oldDir /\ newDir = "none" /\ yaml.model = "minilm"

GatewayNext ==
    /\ UNCHANGED part
    /\ \/ part = "events" /\ EvNext /\ UNCHANGED <<memVars, psVars, rlVars, vfVars, rtVars>>
       \/ part = "outbox" /\ MemNext /\ UNCHANGED <<evVars, psVars, rlVars, vfVars, rtVars>>
       \/ part = "startup" /\ PsNext /\ UNCHANGED <<evVars, memVars, rlVars, vfVars, rtVars>>
       \/ part = "reload" /\ RlNext /\ UNCHANGED <<evVars, memVars, psVars, vfVars, rtVars>>
       \/ part = "verifier" /\ VfNext /\ UNCHANGED <<evVars, memVars, psVars, rlVars, rtVars>>
       \/ part = "call" /\ RtNext /\ UNCHANGED <<evVars, memVars, psVars, rlVars, vfVars>>

\* EvFairness, MemFairness and RlFairness, each for the part that moves.
GatewayFairness ==
    /\ \A c \in Clients : WF_evVars(part = "events" /\ ClientStep(c))
    /\ \A w \in Writers : WF_memVars(part = "outbox" /\ WriterStep(w))
    /\ \A m \in Msgs : /\ WF_memVars(part = "outbox" /\ BackoffEnds(m))
                       /\ WF_memVars(part = "outbox" /\ LeaseExpires(m))
    /\ WF_rlVars(part = "reload" /\ ReloadStep)
    /\ \A t \in Turns : WF_rlVars(part = "reload" /\ PinTurn(t))

GatewaySpec == GatewayInit /\ [][GatewayNext]_gatewayVars /\ GatewayFairness

\* The variables of the part that moves keep their types.
GatewayTypeOK ==
    /\ part = "events" => EvTypeOK
    /\ part = "outbox" => MemTypeOK
    /\ part = "startup" => PsTypeOK
    /\ part = "reload" => RlTypeOK
    /\ part = "verifier" => VfTypeOK
    /\ part = "call" => RtTypeOK

\* What must happen in the services happens: a client that stays connected gets
\* every frame that is kept for it (SessionBus.subscribe), a stored message is
\* filed or given up for good (MemoryWriter), and a turn behind a reload starts
\* (run_config_reload).
ServicesProgress == CatchesUp /\ RowsSettle /\ TurnsStart

\* The memory of an agent is safe: a message is filed once, in the palace it was
\* stored for (MemoryWriter), and a start loses none of what was filed, whoever
\* else starts or dies (bootstrap_agent_layout).
MemorySafe == OutboxSafe /\ StartupSafe
=============================================================================
