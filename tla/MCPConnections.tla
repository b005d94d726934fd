--------------------------- MODULE MCPConnections ---------------------------
(***************************************************************************)
(* The connection of the MCP client to one server (core/mcp/mcp_client.py).*)
(*                                                                         *)
(* A session is opened and closed by a task of its own (_hold_session);    *)
(* the caller that asked for it waits until the handshake is over and      *)
(* installs the record.  The callers are the tools enable_mcp and          *)
(* disable_mcp of the turns, which a Stop may cancel at any await, the     *)
(* batch that connects autoConnect servers at startup, the reload of the   *)
(* configuration and the shutdown.  Every caller works on the server by    *)
(* name; nothing keeps two of them apart.                                  *)
(***************************************************************************)
EXTENDS Naturals, Sequences, FiniteSets

CONSTANTS Callers,     \* tool calls of turns
          RemoteStop,  \* does the server offer browser_stop?
          AutoStart,   \* the entries that say autoConnect
          MaxSessions, \* bound: sessions ever opened
          MaxMcpEdits, \* bound: edits of mcp.json
          MaxDeaths    \* bound: sessions that end by themselves

Batch == "batch"
Reload == "reload"
Shutdown == "shutdown"
Everyone == Callers \union {Batch, Reload, Shutdown}

\* A tool call is none of the others.
ASSUME McpAssumption == Callers \intersect {Batch, Reload, Shutdown} = {}

\* One session may be opened at the start.
ASSUME McpBound == MaxSessions \in Nat \ {0}

Entries == {"first", "second"}
NoEntry == "no entry"
Disabled == "disabled"   \* the entry says enabled: false

VARIABLES file,      \* the entry in mcp.json
          catalog,   \* _catalog[name]
          server,    \* _servers[name]: the number of a session, or 0
          status,    \* _statuses[name]
          sessions,  \* the sessions ever opened
          calls,     \* what every caller is doing
          \* What happened, for bounds and properties only.
          races,     \* the kinds of overlap there were
          cutShort,  \* was a caller cancelled before it told a session to stop?
          toFile     \* edits so far

mcpVars == <<file, catalog, server, status, sessions, calls, races, cutShort, toFile>>

\* What a caller does when the session it closes is closed, whether disconnect
\* records the status, and what apply_catalog_diff has worked out before.
Plan(then) == [then |-> then, record |-> TRUE, entry |-> NoEntry, connects |-> FALSE]

Idle == [at |-> "idle", sid |-> 0, plan |-> Plan("end")]

Session(e) == [st |-> "opening", entry |-> e, stop |-> FALSE, error |-> FALSE]

McpTypeOK ==
    /\ file \in Entries \union {NoEntry, Disabled} /\ catalog \in Entries \union {NoEntry}
    /\ Len(sessions) <= MaxSessions /\ server \in 0..Len(sessions)
    /\ status \in {"catalogued", "connecting", "connected", "failed", "disconnected", "disabled"}
    /\ \A s \in DOMAIN sessions :
          /\ sessions[s].st \in {"opening", "open", "failed", "closed"}
          /\ sessions[s].entry \in Entries
    /\ \A c \in Everyone :
          /\ calls[c].at \in {"idle", "handshake", "remote stop", "closing", "releasing", "draining", "ended"}
          /\ calls[c].sid \in 0..Len(sessions)

\* load_from_config with wait=False, once, before the first turn.
McpInit ==
    /\ file \in Entries /\ catalog = file /\ server = 0
    /\ IF file \in AutoStart
       THEN /\ status = "connecting" /\ sessions = <<Session(file)>>
            /\ calls = [c \in Everyone |->
                          IF c = Batch THEN [Idle EXCEPT !.at = "handshake", !.sid = 1] ELSE Idle]
       ELSE /\ status = "catalogued" /\ sessions = <<>>
            /\ calls = [c \in Everyone |-> Idle]
    /\ races = {} /\ cutShort = FALSE /\ toFile = 0

Busy(c) == calls[c].at \notin {"idle", "ended"}
Others(c) == {d \in Everyone \ {c} : Busy(d)}

\* wait_until_ready: the batch is over.
Ready == ~Busy(Batch)
Up == calls[Shutdown].at = "idle"

-----------------------------------------------------------------------------
NoChange == UNCHANGED <<server, sessions, calls, races>>

(* Steps that several callers share.                                       *)

End(c) == calls' = [calls EXCEPT ![c] = Idle]

\* _spawn_held_session: a task opens the session, the caller waits for it.
SpawnHeld(c, e) ==
    /\ Len(sessions) < MaxSessions
    /\ sessions' = Append(sessions, Session(e))
    /\ calls' = [calls EXCEPT ![c] = [@ EXCEPT !.at = "handshake", !.sid = Len(sessions) + 1]]
    /\ races' = races \union (IF \E d \in Others(c) : calls[d].at = "handshake" THEN {"connects"} ELSE {})
                     \union (IF \E d \in Others(c) : calls[d].at # "handshake" THEN {"closes"} ELSE {})
    /\ UNCHANGED server

\* Mutant: the record is taken out when the session is closed.
DisconnectLate(c, plan) ==
    /\ UNCHANGED <<server, races>>
    /\ calls' = [calls EXCEPT ![c] = [at |-> IF RemoteStop THEN "remote stop" ELSE "closing",
                                      sid |-> server, plan |-> plan]]
    /\ sessions' = IF RemoteStop THEN sessions ELSE [sessions EXCEPT ![server].stop = TRUE]

\* disconnect: the record is taken out first; then the session is told to stop,
\* after the remote browser when the server has one.
Disconnect(c, plan) ==
    /\ server' = 0 /\ UNCHANGED races
    /\ calls' = [calls EXCEPT ![c] = [at |-> IF RemoteStop THEN "remote stop" ELSE "closing",
                                      sid |-> server, plan |-> plan]]
    /\ sessions' = IF RemoteStop THEN sessions ELSE [sessions EXCEPT ![server].stop = TRUE]

\* connect: a server that is connected is disconnected first.
Connect(c, e) == IF server # 0 THEN Disconnect(c, Plan("connect")) ELSE SpawnHeld(c, e)

\* The finally of disconnect.
RecordStopped(c) ==
    status' = IF ~calls[c].plan.record THEN status
              ELSE IF catalog # NoEntry THEN "catalogued" ELSE "disconnected"

-----------------------------------------------------------------------------
(* The session's own task.                                                 *)

HandshakeEnds(s) ==
    /\ sessions[s].st = "opening" /\ ~sessions[s].stop
    /\ \E st \in {"open", "failed"} : sessions' = [sessions EXCEPT ![s].st = st]
    /\ UNCHANGED <<file, catalog, server, status, calls, races, cutShort, toFile>>

\* The stack is closed on stop or on cancel; closing it may raise what
\* _mcp_disconnect_teardown_noise does not know.
SessionCloses(s) ==
    /\ sessions[s].stop /\ sessions[s].st \in {"opening", "open"}
    /\ \E e \in {FALSE, sessions[s].st = "open"} :
          sessions' = [sessions EXCEPT ![s].st = "closed", ![s].error = e]
    /\ UNCHANGED <<file, catalog, server, status, calls, races, cutShort, toFile>>

\* The server goes away: the transport cancels the task that holds it.
SessionDies(s) ==
    /\ Cardinality({d \in DOMAIN sessions : sessions[d].st = "closed" /\ ~sessions[d].stop}) < MaxDeaths
    /\ sessions[s].st = "open" /\ ~sessions[s].stop
    /\ \E e \in BOOLEAN : sessions' = [sessions EXCEPT ![s].st = "closed", ![s].error = e]
    /\ UNCHANGED <<file, catalog, server, status, calls, races, cutShort, toFile>>

-----------------------------------------------------------------------------
(* The tools.                                                              *)

FileEntry == IF file \in Entries THEN file ELSE NoEntry

\* Mutant: a connected server is left alone.
EnableIfDown(c) ==
    /\ Up /\ ~Busy(Reload) /\ calls[c].at = "idle" /\ Ready
    /\ catalog' = FileEntry
    /\ IF server # 0 \/ FileEntry = NoEntry THEN NoChange
       ELSE SpawnHeld(c, FileEntry)
    /\ UNCHANGED <<file, status, cutShort, toFile>>

\* connect_from_catalog up to its first await: the entry is read again, and a
\* connected server whose entry changed is replaced.
EnableMcp(c) ==
    /\ Up /\ ~Busy(Reload) /\ calls[c].at = "idle" /\ Ready
    /\ catalog' = FileEntry
    /\ IF server # 0 /\ catalog # NoEntry /\ catalog = FileEntry THEN NoChange
       ELSE IF server # 0 THEN Disconnect(c, Plan("connect"))
       ELSE IF FileEntry = NoEntry
            THEN /\ races' = IF Others(c) = {} THEN races ELSE races \union {"entry"}
                 /\ UNCHANGED <<server, sessions, calls>>
       ELSE SpawnHeld(c, FileEntry)
    /\ UNCHANGED <<file, status, cutShort, toFile>>

\* disable_mcp does not wait for the batch.
DisableMcp(c) ==
    /\ Up /\ ~Busy(Reload) /\ calls[c].at = "idle" /\ server # 0
    /\ Disconnect(c, Plan("end"))
    /\ UNCHANGED <<file, catalog, status, cutShort, toFile>>

\* Mutant: the caller goes without telling the session's task.
CancelHandshakeOnly(c) ==
    /\ calls[c].at = "handshake" /\ End(c)
    /\ UNCHANGED <<file, catalog, server, status, sessions, races, cutShort, toFile>>

\* A Stop while the caller waits for the handshake, also when it is over and
\* the caller has not run since: _release_held_session.
CancelHandshake(c) ==
    /\ calls[c].at = "handshake"
    /\ sessions' = [sessions EXCEPT ![calls[c].sid].stop = TRUE]
    /\ calls' = [calls EXCEPT ![c].at = "releasing"]
    /\ UNCHANGED <<file, catalog, server, status, races, cutShort, toFile>>

Released(c) ==
    /\ calls[c].at = "releasing" /\ sessions[calls[c].sid].st \in {"failed", "closed"}
    /\ End(c)
    /\ UNCHANGED <<file, catalog, server, status, sessions, races, cutShort, toFile>>

\* A Stop during a disconnect: the session closes once it was told to stop, and
\* stays open when the remote browser was still being stopped.
CancelDisconnect(c) ==
    /\ calls[c].at \in {"remote stop", "closing"}
    /\ RecordStopped(c) /\ End(c)
    /\ cutShort' = (cutShort \/ calls[c].at = "remote stop")
    /\ UNCHANGED <<file, catalog, server, sessions, races, toFile>>

-----------------------------------------------------------------------------
(* What every caller does after an await.                                  *)

\* The browser_stop call is over, or timed out.
RemoteStopEnds(c) ==
    /\ calls[c].at = "remote stop"
    /\ sessions' = [sessions EXCEPT ![calls[c].sid].stop = TRUE]
    /\ calls' = [calls EXCEPT ![c].at = "closing"]
    /\ UNCHANGED <<file, catalog, server, status, races, cutShort, toFile>>

\* _install_connected: whatever is there is replaced.  The session may have died
\* since the handshake.
Install(c) ==
    /\ calls[c].at = "handshake" /\ sessions[calls[c].sid].st \in {"open", "closed"}
    /\ server' = calls[c].sid /\ status' = "connected"
    /\ End(c)
    /\ UNCHANGED <<file, catalog, sessions, races, cutShort, toFile>>

ConnectFails(c) ==
    /\ calls[c].at = "handshake" /\ sessions[calls[c].sid].st = "failed"
    /\ status' = "failed"
    /\ End(c)
    /\ UNCHANGED <<file, catalog, server, sessions, races, cutShort, toFile>>

Closed(c) == calls[c].at = "closing" /\ sessions[calls[c].sid].st = "closed"

DisconnectEnds(c) ==
    /\ c # Shutdown /\ Closed(c) /\ ~sessions[calls[c].sid].error /\ calls[c].plan.then = "end"
    /\ RecordStopped(c) /\ End(c)
    /\ UNCHANGED <<file, catalog, server, sessions, races, cutShort, toFile>>

\* The rest of enable_mcp.
DisconnectedConnects(c) ==
    /\ Closed(c) /\ ~sessions[calls[c].sid].error /\ calls[c].plan.then = "connect"
    /\ RecordStopped(c)
    /\ IF catalog = NoEntry THEN End(c) /\ UNCHANGED <<server, sessions, races>>
       ELSE Connect(c, catalog)
    /\ UNCHANGED <<file, catalog, cutShort, toFile>>

\* The teardown raised: what the caller would have done next is not done.
DisconnectRaises(c) ==
    /\ Closed(c) /\ sessions[calls[c].sid].error
    /\ RecordStopped(c)
    /\ calls' = [calls EXCEPT ![c] = IF c = Shutdown THEN [Idle EXCEPT !.at = "ended"] ELSE Idle]
    /\ races' = IF calls[c].plan.record THEN races ELSE races \union {"raised"}
    /\ UNCHANGED <<file, catalog, server, sessions, cutShort, toFile>>

-----------------------------------------------------------------------------
(* The reload (apply_catalog_diff).                                        *)

\* Mutant: an entry that is disabled stays in the catalog.
AdoptDisabled(e, connects) ==
    /\ catalog' = e
    /\ status' = IF e = Disabled THEN "disabled"
                 ELSE IF e = NoEntry THEN IF catalog = NoEntry THEN status ELSE "disconnected"
                 ELSE IF server = 0 /\ ~connects THEN "catalogued" ELSE status
    /\ IF connects THEN Connect(Reload, e) ELSE End(Reload) /\ UNCHANGED <<server, sessions, races>>

\* The rest of it, once the old session is closed: the catalog, the status and
\* the connect.
Adopt(e, connects) ==
    /\ catalog' = IF e \in Entries THEN e ELSE NoEntry
    /\ status' = IF e = Disabled THEN "disabled"
                 ELSE IF e = NoEntry THEN IF catalog = NoEntry THEN status ELSE "disconnected"
                 ELSE IF server = 0 /\ ~connects THEN "catalogued" ELSE status
    /\ IF connects THEN Connect(Reload, e) ELSE End(Reload) /\ UNCHANGED <<server, sessions, races>>

\* After wait_for_idle_turns and wait_until_ready; a turn starts only when the
\* reload is over.
ReloadStarts ==
    /\ Up /\ calls[Reload].at = "idle" /\ Ready
    /\ \A c \in Callers : ~Busy(c)
    /\ LET changed  == catalog # NoEntry /\ file # catalog
           connects == /\ file \in Entries /\ file # catalog
                       /\ file \in AutoStart \/ (server # 0 /\ changed)
       IN IF server # 0 /\ (changed \/ file = Disabled)
          THEN /\ Disconnect(Reload, [then |-> "adopt", record |-> ~connects,
                                        entry |-> file, connects |-> connects])
               /\ UNCHANGED <<catalog, status>>
          ELSE Adopt(file, connects)
    /\ UNCHANGED <<file, cutShort, toFile>>

ReloadAdopts ==
    /\ Closed(Reload) /\ ~sessions[calls[Reload].sid].error /\ calls[Reload].plan.then = "adopt"
    /\ Adopt(calls[Reload].plan.entry, calls[Reload].plan.connects)
    /\ UNCHANGED <<file, cutShort, toFile>>

-----------------------------------------------------------------------------
(* Shutdown (disconnect_all).                                              *)

\* _cancel_pending_connect.
CancelBatch ==
    /\ Up /\ calls[Batch].at = "handshake"
    /\ sessions' = [sessions EXCEPT ![calls[Batch].sid].stop = TRUE]
    /\ calls' = [calls EXCEPT ![Batch].at = "releasing", ![Shutdown].at = "draining"]
    /\ UNCHANGED <<file, catalog, server, status, races, cutShort, toFile>>

DisconnectAll ==
    /\ calls[Shutdown].at \in {"idle", "draining"} /\ Ready
    /\ IF server = 0
       THEN calls' = [calls EXCEPT ![Shutdown].at = "ended"] /\ UNCHANGED <<server, sessions, races>>
       ELSE Disconnect(Shutdown, Plan("end"))
    /\ UNCHANGED <<file, catalog, status, cutShort, toFile>>

AllDisconnected ==
    /\ Closed(Shutdown) /\ ~sessions[calls[Shutdown].sid].error
    /\ RecordStopped(Shutdown)
    /\ calls' = [calls EXCEPT ![Shutdown] = [Idle EXCEPT !.at = "ended"]]
    /\ UNCHANGED <<file, catalog, server, sessions, races, cutShort, toFile>>

EditMcpJson ==
    /\ toFile < MaxMcpEdits /\ toFile' = toFile + 1
    /\ file' \in (Entries \union {NoEntry, Disabled}) \ {file}
    /\ UNCHANGED <<catalog, server, status, sessions, calls, races, cutShort>>

McpNext ==
    \/ \E c \in Callers : EnableMcp(c) \/ DisableMcp(c) \/ CancelHandshake(c) \/ CancelDisconnect(c)
    \/ \E c \in Everyone :
          \/ Released(c) \/ RemoteStopEnds(c) \/ Install(c) \/ ConnectFails(c)
          \/ DisconnectEnds(c) \/ DisconnectedConnects(c) \/ DisconnectRaises(c)
    \/ \E s \in DOMAIN sessions : HandshakeEnds(s) \/ SessionCloses(s) \/ SessionDies(s)
    \/ ReloadStarts \/ ReloadAdopts \/ CancelBatch \/ DisconnectAll \/ AllDisconnected \/ EditMcpJson

McpSpec == McpInit /\ [][McpNext]_mcpVars

-----------------------------------------------------------------------------
Settled == \A c \in Everyone : ~Busy(c)
Died(s) == sessions[s].st = "closed" /\ ~sessions[s].stop

\* The tools offered are those of an open session that nobody has told to stop,
\* unless the server went away by itself.
ServesOpen == server # 0 => ~sessions[server].stop /\ (sessions[server].st = "open" \/ Died(server))

\* A session that is open and not told to stop is the one installed, or a
\* caller will see to it; but two connects that overlap lose one, and so does
\* a Stop while a remote browser is being stopped.
NoLeak ==
    \A s \in DOMAIN sessions :
      sessions[s].st = "open" /\ ~sessions[s].stop =>
        \/ server = s
        \/ \E c \in Everyone : calls[c].sid = s /\ calls[c].at \in {"handshake", "remote stop"}
        \/ "connects" \in races \/ cutShort

\* When nobody works on it, the server is shown as connected exactly when it is,
\* unless callers overlapped or a reload met a teardown error.
StatusTrue ==
    Settled /\ races \intersect {"connects", "closes", "raised"} = {} => (status = "connected" <=> server # 0)

\* When nobody works on it, a connected server runs the entry of the catalog:
\* a changed entry is never served by the session of the old one.
EntryFresh ==
    Settled /\ server # 0 /\ races \intersect {"connects", "entry"} = {} => sessions[server].entry = catalog

McpSafe == ServesOpen /\ NoLeak /\ StatusTrue /\ EntryFresh
=============================================================================
