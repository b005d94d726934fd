---------------------------- MODULE EventStream ----------------------------
(***************************************************************************)
(* The event stream of one session: SessionBus.publish_data with its two   *)
(* replay lanes, the SSE route that subscribes, replays and then follows   *)
(* the queue, and the CLI client that reconnects with the id of the last   *)
(* frame it has seen.  A client loses its connection at any moment, with   *)
(* whatever was on the wire; the gateway restarts and forgets every bus.   *)
(***************************************************************************)
EXTENDS Sublists

CONSTANTS Clients,       \* CLI processes attached to the session
          PrimaryMax,    \* SSE_REPLAY_MAX
          NestedMax,     \* SSE_NESTED_REPLAY_MAX
          MaxAttempts,   \* _RECONNECT_MAX_ATTEMPTS
          MaxEvents, MaxDrops, MaxRestarts  \* bounds of the model

ASSUME StreamAssumption == PrimaryMax \in Nat /\ NestedMax \in Nat

VARIABLES live,      \* the registry holds a bus for the session
          seq,       \* SessionBus._seq
          ring,      \* lane -> ids in its replay deque
          conn,      \* client -> "off" (backoff), "open", "dead" (stream_failed)
          wire,      \* client -> frames sent or queued, not yet read
          last,      \* client -> _last_event_id, 0 for None
          attempts,  \* client -> failed attempts in a row
          lanes,     \* history: the lane of each frame of this bus
          got,       \* history: ids a client read since it joined this bus
          drops, restarts

evVars == <<live, seq, ring, conn, wire, last, attempts, lanes, got, drops, restarts>>

KeepMax == [l \in {"primary", "nested"} |-> IF l = "primary" THEN PrimaryMax ELSE NestedMax]

EvTypeOK ==
    /\ live \in BOOLEAN /\ seq \in 0..MaxEvents
    /\ ring \in [DOMAIN KeepMax -> Seq(1..MaxEvents)]
    /\ conn \in [Clients -> {"off", "open", "dead"}]
    /\ wire \in [Clients -> Seq(1..MaxEvents)]
    /\ last \in [Clients -> 0..MaxEvents]
    /\ attempts \in [Clients -> 0..(MaxAttempts + 1)]
    /\ lanes \in Seq(DOMAIN KeepMax) /\ got \in [Clients -> Seq(1..MaxEvents)]
    /\ drops \in 0..MaxDrops /\ restarts \in 0..MaxRestarts

\* A session was created and each client has just asked for its first stream.
EvInit ==
    /\ live = TRUE /\ seq = 0
    /\ ring = [l \in DOMAIN KeepMax |-> <<>>]
    /\ conn = [c \in Clients |-> "off"]
    /\ wire = [c \in Clients |-> <<>>]
    /\ last = [c \in Clients |-> 0]
    /\ attempts = [c \in Clients |-> 0]
    /\ lanes = <<>> /\ got = [c \in Clients |-> <<>>]
    /\ drops = 0 /\ restarts = 0

-----------------------------------------------------------------------------
(* The bus.                                                                *)

\* deque(maxlen): the oldest entry falls off.
Pushed(q, x, max) == IF Len(q) < max THEN Append(q, x) ELSE Tail(Append(q, x))

\* The frames that are kept.
Buffered == UNION {{ring[l][i] : i \in DOMAIN ring[l]} : l \in DOMAIN ring}

\* Mutant: nested frames share the primary buffer.
PublishDataOneLane(l) ==
    /\ live /\ seq < MaxEvents
    /\ seq' = seq + 1
    /\ ring' = [ring EXCEPT !["primary"] = Pushed(@, seq + 1, PrimaryMax)]
    /\ wire' = [c \in Clients |-> IF conn[c] = "open" THEN Append(wire[c], seq + 1) ELSE wire[c]]
    /\ lanes' = Append(lanes, l)
    /\ UNCHANGED <<live, conn, last, attempts, got, drops, restarts>>

PublishData(l) ==
    /\ live /\ seq < MaxEvents
    /\ seq' = seq + 1
    /\ ring' = [ring EXCEPT ![l] = Pushed(@, seq + 1, KeepMax[l])]
    /\ wire' = [c \in Clients |-> IF conn[c] = "open" THEN Append(wire[c], seq + 1) ELSE wire[c]]
    /\ lanes' = Append(lanes, l)
    /\ UNCHANGED <<live, conn, last, attempts, got, drops, restarts>>

\* Mutant: the replay starts with the frame the client has.
ReplayFrom(cutoff) == Ascending({n \in Buffered : n >= cutoff})

\* Primary and nested frames with an id above the cutoff, in sequence order.
ReplayAfter(cutoff) == Ascending({n \in Buffered : n > cutoff})

-----------------------------------------------------------------------------
(* One client.                                                             *)

\* GET /events on a live session: subscribe and replay under the bus lock.
OpenStream(c) ==
    /\ conn[c] = "off" /\ live
    /\ conn' = [conn EXCEPT ![c] = "open"]
    /\ wire' = [wire EXCEPT ![c] = ReplayAfter(last[c])]
    /\ attempts' = [attempts EXCEPT ![c] = 0]
    /\ UNCHANGED <<live, seq, ring, last, lanes, got, drops, restarts>>

\* 404 is final for this stream.
StreamNotFound(c) ==
    /\ conn[c] = "off" /\ ~live
    /\ conn' = [conn EXCEPT ![c] = "dead"]
    /\ UNCHANGED <<live, seq, ring, wire, last, attempts, lanes, got, drops, restarts>>

\* Mutant: the attempts are not limited.
ReconnectFailsForever(c) ==
    /\ conn[c] = "off" /\ drops < MaxDrops
    /\ drops' = drops + 1
    /\ attempts' = [attempts EXCEPT ![c] = @ + 1]
    /\ conn' = [conn EXCEPT ![c] = "off"]
    /\ UNCHANGED <<live, seq, ring, wire, last, lanes, got, restarts>>

\* The gateway cannot be reached; after the last attempt the client gives up.
ReconnectFails(c) ==
    /\ conn[c] = "off" /\ drops < MaxDrops
    /\ drops' = drops + 1
    /\ attempts' = [attempts EXCEPT ![c] = @ + 1]
    /\ conn' = [conn EXCEPT ![c] = IF attempts[c] + 1 > MaxAttempts THEN "dead" ELSE "off"]
    /\ UNCHANGED <<live, seq, ring, wire, last, lanes, got, restarts>>

ReadFrame(c) ==
    /\ conn[c] = "open" /\ wire[c] # <<>>
    /\ wire' = [wire EXCEPT ![c] = Tail(@)]
    /\ last' = [last EXCEPT ![c] = Head(wire[c])]
    /\ got' = [got EXCEPT ![c] = Append(@, Head(wire[c]))]
    /\ UNCHANGED <<live, seq, ring, conn, attempts, lanes, drops, restarts>>

\* EOF or a transport error in the middle of the stream.
LoseStream(c) ==
    /\ conn[c] = "open" /\ drops < MaxDrops
    /\ drops' = drops + 1
    /\ conn' = [conn EXCEPT ![c] = "off"]
    /\ wire' = [wire EXCEPT ![c] = <<>>]
    /\ attempts' = [attempts EXCEPT ![c] = 1]
    /\ UNCHANGED <<live, seq, ring, last, lanes, got, restarts>>

\* connect(resume_session_id) after a fatal end: attach, or create the session
\* again under the same id; no Last-Event-ID.
ResumeSession(c) ==
    /\ conn[c] = "dead"
    /\ live' = TRUE
    /\ conn' = [conn EXCEPT ![c] = "off"]
    /\ last' = [last EXCEPT ![c] = 0]
    /\ attempts' = [attempts EXCEPT ![c] = 0]
    /\ got' = [got EXCEPT ![c] = <<>>]
    /\ UNCHANGED <<seq, ring, wire, lanes, drops, restarts>>

\* Mutant: clients keep waiting on the stream of the old process.
GatewayRestartUnnoticed ==
    /\ restarts < MaxRestarts
    /\ restarts' = restarts + 1
    /\ live' = FALSE /\ seq' = 0
    /\ ring' = [l \in DOMAIN KeepMax |-> <<>>]
    /\ lanes' = <<>>
    /\ conn' = conn
    /\ wire' = [c \in Clients |-> <<>>]
    /\ got' = [c \in Clients |-> <<>>]
    /\ UNCHANGED <<last, attempts, drops>>

\* The registry is in memory: a restarted gateway knows no session.
GatewayRestart ==
    /\ restarts < MaxRestarts
    /\ restarts' = restarts + 1
    /\ live' = FALSE /\ seq' = 0
    /\ ring' = [l \in DOMAIN KeepMax |-> <<>>]
    /\ lanes' = <<>>
    /\ conn' = [c \in Clients |-> IF conn[c] = "open" THEN "off" ELSE conn[c]]
    /\ wire' = [c \in Clients |-> <<>>]
    /\ got' = [c \in Clients |-> <<>>]
    /\ UNCHANGED <<last, attempts, drops>>

EvNext ==
    \/ \E l \in DOMAIN KeepMax : PublishData(l)
    \/ \E c \in Clients :
          OpenStream(c) \/ StreamNotFound(c) \/ ReconnectFails(c)
          \/ ReadFrame(c) \/ LoseStream(c) \/ ResumeSession(c)
    \/ GatewayRestart

EvSpec == EvInit /\ [][EvNext]_evVars

ClientStep(c) == OpenStream(c) \/ StreamNotFound(c) \/ ReadFrame(c)

\* The reconnect loop and the reader keep running; a user need not resume.
EvFairness == \A c \in Clients : WF_evVars(ClientStep(c))

-----------------------------------------------------------------------------
(* Properties.                                                             *)

Delivery == INSTANCE EventDelivery WITH Keep <- KeepMax, published <- lanes

\* The bus, the route and the reconnect loop together deliver what
\* EventDelivery promises: in order, no frame twice, no gap except frames
\* that their own lane pushed out.
ImplementsDelivery == Delivery!DeliverySpec

\* A client whose stream is not given up ends up with the newest frame, even
\* when every frame was published while it was disconnected.
CatchesUp == \A c \in Clients : <>[](conn[c] = "dead" \/ last[c] = seq)
=============================================================================
