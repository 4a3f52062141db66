---------------------------- MODULE Connections ----------------------------
(***************************************************************************)
(* The connection registry of the WebSocket hub (services/hub_service.go)  *)
(* and the goroutines every connection owns: the upgrade handler that      *)
(* starts it (handlers/websocket_handler.go), its ReadPump and its         *)
(* WritePump (services/websocket_service.go).  Who may close a Send        *)
(* channel, and who may still be about to use it, is what is at stake.     *)
(*                                                                         *)
(* The module describes the hub of ONE lobby: every key of the hub's maps  *)
(* is a lobby ID or "playerID:lobbyID" and a player row belongs to one     *)
(* lobby, so lobbies share nothing but the time of the Run goroutine.      *)
(* The presence half of the register and unregister cases, grace-period    *)
(* timers and suppress flags, is module Presence; module Hub joins them.   *)
(*                                                                         *)
(* Grain of atomicity: one case of Run's select is one action, because     *)
(* Run alone writes the registry and alone closes channels.  A pump step   *)
(* is one channel or one network operation.                                *)
(***************************************************************************)
EXTENDS Registry, Naturals

CONSTANT
  SendCap      \* capacity of Client.Send (256 in websocket_handler.go)

ASSUME SendCapAssumption == SendCap \in Nat \ {0}

VARIABLES
  stage,        \* where the upgrade handler / ReadPump of a connection is
  socket,       \* connections whose TCP connection still works
  writer,       \* connections whose WritePump runs
  lobbyEntry,   \* whether h.lobbies has an entry for the lobby
  closed,       \* connections whose Send channel was closed
  queued,       \* number of messages in a Send channel
  staticCache,  \* whether h.staticCache has an entry for the lobby
  lobbyRow,     \* whether the lobby's row is in the database
  fault         \* a Go run-time panic; no goroutine recovers, the process dies

conVars == <<pid, stage, socket, writer, registry, lobbyEntry, closed, queued,
             staticCache, lobbyRow, fault>>

----------------------------------------------------------------------------
Stages == {"idle", "registering", "joining", "greeting", "reading", "replying",
           "leaving", "gone"}
Faults == {"none", "close of closed channel", "send on closed channel",
           "nil lobby"}

\* Stages in which the hub has registered the connection and has not yet been
\* asked to unregister it.
Open == {"joining", "greeting", "reading", "replying", "leaving"}

TypeOK ==
  /\ pid \in [Clients -> Players \cup {NoPlayer}]
  /\ stage \in [Clients -> Stages]
  /\ socket \in SUBSET Clients
  /\ writer \in SUBSET Clients
  /\ registry \in SUBSET Clients
  /\ lobbyEntry \in BOOLEAN
  /\ closed \in SUBSET Clients
  /\ queued \in [Clients -> 0..SendCap]
  /\ staticCache \in BOOLEAN
  /\ lobbyRow \in BOOLEAN
  /\ fault \in Faults

Init ==
  /\ pid = [c \in Clients |-> NoPlayer]
  /\ stage = [c \in Clients |-> "idle"]
  /\ socket = {}
  /\ writer = {}
  /\ registry = {}
  /\ lobbyEntry = FALSE
  /\ closed = {}
  /\ queued = [c \in Clients |-> 0]
  /\ staticCache = FALSE
  /\ lobbyRow = TRUE
  /\ fault = "none"

----------------------------------------------------------------------------
(* Channel operations *)

\* close(client.Send) for every connection of cs: the runtime panics when one
\* of them is closed already.
Close(cs) ==
  /\ closed' = closed \cup cs
  /\ fault' = IF cs \cap closed # {} THEN "close of closed channel" ELSE fault

\* Connections that the non-blocking send of a broadcast cannot serve.
Full == {c \in registry : queued[c] = SendCap}

\* Mutant: a send that does not look at the buffer.
BroadcastUnbounded ==
  /\ queued' = [c \in Clients |-> IF c \in registry THEN queued[c] + 1 ELSE queued[c]]
  /\ UNCHANGED <<closed, fault, registry, lobbyEntry>>

\* One broadcast by Run, when the lobby has an entry: a non-blocking send to
\* every registered connection; one whose buffer is full is closed and dropped
\* from the map.  The map entry stays, even when the last connection is dropped.
Broadcast ==
  /\ IF lobbyEntry
     THEN /\ Close(Full)
          /\ registry' = registry \ Full
          /\ queued' = [c \in Clients |-> IF c \in registry \ Full
                                          THEN queued[c] + 1 ELSE queued[c]]
     ELSE UNCHANGED <<closed, fault, registry, queued>>
  /\ UNCHANGED lobbyEntry

\* The blocking client.Send <- m of ReadPump.
DirectSend(c) ==
  \/ /\ c \in closed
     /\ fault' = "send on closed channel"
     /\ UNCHANGED queued
  \/ /\ c \notin closed
     /\ queued[c] < SendCap
     /\ queued' = [queued EXCEPT ![c] = @ + 1]
     /\ UNCHANGED fault

----------------------------------------------------------------------------
(* Cases of Run *)

\* Mutant: a replaced connection is dropped without closing its channel.
RegisterNoClose(c) ==
  /\ fault = "none"
  /\ stage[c] = "registering"
  /\ stage' = [stage EXCEPT ![c] = "joining"]
  /\ registry' = (registry \ Replaced(c)) \cup {c}
  /\ lobbyEntry' = TRUE
  /\ UNCHANGED <<pid, socket, writer, queued, closed, fault, staticCache, lobbyRow>>

\* case client := <-h.register
Register(c) ==
  /\ fault = "none"
  /\ stage[c] = "registering"
  /\ stage' = [stage EXCEPT ![c] = "joining"]
  /\ Close(Replaced(c))
  /\ registry' = (registry \ Replaced(c)) \cup {c}
  /\ lobbyEntry' = TRUE
  /\ UNCHANGED <<pid, socket, writer, queued, staticCache, lobbyRow>>

\* Mutant: the channel is closed without looking whether it is in the map.
UnregisterUnchecked(c) ==
  /\ fault = "none"
  /\ stage[c] = "leaving"
  /\ stage' = [stage EXCEPT ![c] = "gone"]
  /\ socket' = socket \ {c}
  /\ Close({c})
  /\ registry' = registry \ {c}
  /\ lobbyEntry' = (registry \ {c} # {})
  /\ staticCache' = (staticCache /\ registry \ {c} # {})
  /\ UNCHANGED <<pid, writer, queued, lobbyRow>>

\* case client := <-h.unregister, sent by ReadPump's deferred function, which
\* then closes the connection.  The last connection takes the lobby's entry
\* and its cached statics along.
Unregister(c) ==
  /\ fault = "none"
  /\ stage[c] = "leaving"
  /\ stage' = [stage EXCEPT ![c] = "gone"]
  /\ socket' = socket \ {c}
  /\ IF c \in registry
     THEN /\ Close({c})
          /\ registry' = registry \ {c}
          /\ lobbyEntry' = (registry \ {c} # {})
          /\ staticCache' = (staticCache /\ registry \ {c} # {})
     ELSE UNCHANGED <<closed, fault, registry, lobbyEntry, staticCache>>
  /\ UNCHANGED <<pid, writer, queued, lobbyRow>>

\* case message := <-h.broadcast, for a message of a goroutine outside this
\* module: a lobby service call, or the presence goroutines of Run.  Some
\* services invalidate the cached statics first.
HubBroadcast ==
  /\ fault = "none"
  /\ Broadcast
  /\ staticCache' \in {staticCache, FALSE}
  /\ UNCHANGED <<pid, stage, socket, writer, lobbyRow>>

----------------------------------------------------------------------------
(* A connection: HandleWebSocket, ReadPump, WritePump *)

\* HandleWebSocket: upgrade, make the client, block on h.register.  The page
\* connects with the player ID it knows, the empty one before it knows any.
Connect(c, p) ==
  /\ fault = "none"
  /\ stage[c] = "idle"
  /\ pid' = [pid EXCEPT ![c] = p]
  /\ stage' = [stage EXCEPT ![c] = "registering"]
  /\ socket' = socket \cup {c}
  /\ UNCHANGED <<writer, registry, lobbyEntry, closed, queued, staticCache, lobbyRow, fault>>

\* HandleWebSocket broadcasts "join", which finds the entry that Register made
\* unless it is gone again, and starts the two pumps.
Join(c) ==
  /\ fault = "none"
  /\ stage[c] = "joining"
  /\ Broadcast
  /\ stage' = [stage EXCEPT ![c] = "greeting"]
  /\ writer' = writer \cup {c}
  /\ UNCHANGED <<pid, socket, staticCache, lobbyRow>>

\* ReadPump starts: BroadcastLobbyUpdate, whose getLobby fills the statics
\* cache (without the row it only logs); then the pending question, if there is
\* one, is sent directly.
Greet(c) ==
  /\ fault = "none"
  /\ stage[c] = "greeting"
  /\ IF lobbyRow
     THEN Broadcast /\ staticCache' = TRUE
     ELSE UNCHANGED <<closed, fault, registry, queued, lobbyEntry, staticCache>>
  /\ \E s \in {"replying", "reading"} : stage' = [stage EXCEPT ![c] = s]
  /\ UNCHANGED <<pid, socket, writer, lobbyRow>>

\* ReadPump reads a message, and getLobby fills the statics cache.  A message
\* out of turn is answered directly, any other is broadcast, by the pump or by
\* the lobby service it calls.  The error of getLobby is not looked at before
\* the lobby is, so without a row the pump dereferences nil.
ReadMessage(c) ==
  /\ fault = "none"
  /\ stage[c] = "reading"
  /\ c \in socket
  /\ \/ /\ lobbyRow
        /\ staticCache' = TRUE
        /\ Broadcast
        /\ UNCHANGED stage
     \/ /\ lobbyRow
        /\ staticCache' = TRUE
        /\ stage' = [stage EXCEPT ![c] = "replying"]
        /\ UNCHANGED <<closed, fault, registry, queued, lobbyEntry>>
     \/ /\ ~lobbyRow
        /\ fault' = "nil lobby"
        /\ UNCHANGED <<staticCache, stage, closed, registry, queued, lobbyEntry>>
  /\ UNCHANGED <<pid, socket, writer, lobbyRow>>

\* ReadPump sends the pending question, or "It's not your turn!", into its own
\* client's channel; it waits while the buffer is full.
Reply(c) ==
  /\ fault = "none"
  /\ stage[c] = "replying"
  /\ DirectSend(c)
  /\ stage' = [stage EXCEPT ![c] = "reading"]
  /\ UNCHANGED <<pid, socket, writer, registry, lobbyEntry, closed, staticCache,
                 lobbyRow>>

\* ReadJSON fails: the peer went away, the pong deadline passed or WritePump
\* closed the connection.
ReadFails(c) ==
  /\ fault = "none"
  /\ stage[c] = "reading"
  /\ c \notin socket
  /\ stage' = [stage EXCEPT ![c] = "leaving"]
  /\ UNCHANGED <<pid, socket, writer, registry, lobbyEntry, closed, queued,
                 staticCache, lobbyRow, fault>>

\* WritePump takes a message from the channel and writes it.
WriteMessage(c) ==
  /\ fault = "none"
  /\ c \in writer
  /\ queued[c] > 0
  /\ queued' = [queued EXCEPT ![c] = @ - 1]
  /\ UNCHANGED <<pid, stage, socket, writer, registry, lobbyEntry, closed,
                 staticCache, lobbyRow, fault>>

\* Mutant: WritePump returns without closing the connection.
WriteEndsQuietly(c) ==
  /\ fault = "none"
  /\ c \in writer
  /\ (c \in closed /\ queued[c] = 0) \/ c \notin socket
  /\ writer' = writer \ {c}
  /\ UNCHANGED <<pid, stage, socket, registry, lobbyEntry, closed, queued,
                 staticCache, lobbyRow, fault>>

\* WritePump ends: the channel is closed and drained, or a write or a ping
\* failed.  Its deferred conn.Close makes the read of ReadPump fail.
WriteEnds(c) ==
  /\ fault = "none"
  /\ c \in writer
  /\ (c \in closed /\ queued[c] = 0) \/ c \notin socket
  /\ writer' = writer \ {c}
  /\ socket' = socket \ {c}
  /\ UNCHANGED <<pid, stage, registry, lobbyEntry, closed, queued, staticCache, lobbyRow, fault>>

\* The network or the browser drops the connection.
Drop(c) ==
  /\ fault = "none"
  /\ c \in socket
  /\ socket' = socket \ {c}
  /\ UNCHANGED <<pid, stage, writer, registry, lobbyEntry, closed, queued,
                 staticCache, lobbyRow, fault>>

\* The cleanup goroutine (services/cleanup.go) deletes the row of a lobby that
\* is over for 5 minutes or idle for 30, whoever is still connected.
DeleteLobbyRow ==
  /\ fault = "none"
  /\ lobbyRow
  /\ lobbyRow' = FALSE
  /\ UNCHANGED <<pid, stage, socket, writer, registry, lobbyEntry, closed, queued,
                 staticCache, fault>>

----------------------------------------------------------------------------
Run == (\E c \in Clients : Register(c) \/ Unregister(c)) \/ HubBroadcast

Pumps ==
  \E c \in Clients :
    \/ Join(c) \/ Greet(c) \/ ReadMessage(c) \/ Reply(c) \/ ReadFails(c)
    \/ WriteMessage(c) \/ WriteEnds(c)

Network ==
  \E c \in Clients : Drop(c) \/ \E p \in Players \cup {NoPlayer} : Connect(c, p)

Next == Run \/ Pumps \/ Network \/ DeleteLobbyRow

Spec == Init /\ [][Next]_conVars

\* What the Go runtime owes a connection: Run serves every goroutine blocked on
\* its channels (a select chooses among ready cases at random, a channel serves
\* its senders in order), and a pump that can go on does.  Reading a message,
\* connecting and dropping are up to the outside world.
Fairness ==
  \A c \in Clients :
    /\ WF_conVars(Register(c)) /\ WF_conVars(Unregister(c))
    /\ WF_conVars(Join(c)) /\ WF_conVars(Greet(c))
    /\ WF_conVars(Reply(c)) /\ WF_conVars(ReadFails(c))
    /\ WF_conVars(WriteMessage(c)) /\ WF_conVars(WriteEnds(c))

FairSpec == Spec /\ Fairness

----------------------------------------------------------------------------
(* What the hub promises *)

\* A registered connection has an open channel, and one that left the map, by
\* unregistering, by being replaced or by being dropped with a full buffer, has
\* a closed one: its WritePump ends, and nobody broadcasts to it any more.
ClosedIffOut ==
  \A c \in Clients :
    /\ stage[c] \in Open => (c \in closed <=> c \notin registry)
    /\ stage[c] = "gone" => c \in closed \ registry
    /\ stage[c] \in {"idle", "registering"} => c \notin closed \cup registry

\* A player is registered at most once, however many tabs race to register; a
\* second entry would deliver every message twice and keep the player present
\* after one of them leaves.
OneConnectionPerPlayer ==
  \A c, d \in registry : pid[c] = pid[d] /\ pid[c] # NoPlayer => c = d

\* Run never panics: it closes no channel twice although three of its paths
\* (replace, drop, unregister) close channels.  The only panics are a pump's.
OnlyPumpsPanic ==
  [][fault' # fault =>
       \E c \in Clients : \/ stage[c] = "replying" /\ c \in closed
                          \/ stage[c] = "reading" /\ ~lobbyRow]_conVars

\* A connection the hub has given up (replaced, or too slow) does not linger:
\* closing its channel ends WritePump, which closes the socket, which ends
\* ReadPump, which unregisters.
GivenUpEnds ==
  \A c \in Clients : c \in closed ~> (stage[c] = "gone" \/ fault # "none")

=============================================================================
