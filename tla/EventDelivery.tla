--------------------------- MODULE EventDelivery ---------------------------
(***************************************************************************)
(* What a client of a session's event stream may rely on, whatever its     *)
(* connection does: frames arrive in the order they were published, none   *)
(* twice, and one may only be missing when at least Keep[lane] newer       *)
(* frames of its own lane pushed it out of the replay buffer.  EventStream *)
(* (the bus, the SSE route and the CLI's reconnect loop) implements this.  *)
(***************************************************************************)
EXTENDS Naturals, Sequences, FiniteSets

CONSTANTS Clients,   \* the clients of one session
          Keep       \* lane -> frames of that lane that survive a reconnect

VARIABLES published, \* the lane of every frame of this bus, in order
          got        \* client -> ids received since it last joined

deliveryVars == <<published, got>>

Lanes == DOMAIN Keep

Latest(c) == IF got[c] = <<>> THEN 0 ELSE got[c][Len(got[c])]

PushedOut(j) ==
    Cardinality({i \in (j + 1)..Len(published) : published[i] = published[j]})
        >= Keep[published[j]]

DeliveryInit == published = <<>> /\ got = [c \in Clients |-> <<>>]

Emit(l) ==
    /\ published' = Append(published, l)
    /\ UNCHANGED got

Deliver(c) ==
    \E k \in (Latest(c) + 1)..Len(published) :
        /\ \A j \in (Latest(c) + 1)..(k - 1) : PushedOut(j)
        /\ got' = [got EXCEPT ![c] = Append(@, k)]
        /\ UNCHANGED published

\* A client that joins again, by choice, starts over.
Rejoin(c) == got' = [got EXCEPT ![c] = <<>>] /\ UNCHANGED published

\* A new bus after a restart of the gateway has published nothing.
Forget == published' = <<>> /\ got' = [c \in Clients |-> <<>>]

DeliveryNext ==
    \/ \E l \in Lanes : Emit(l)
    \/ \E c \in Clients : Deliver(c) \/ Rejoin(c)
    \/ Forget

DeliverySpec == DeliveryInit /\ [][DeliveryNext]_deliveryVars
=============================================================================
