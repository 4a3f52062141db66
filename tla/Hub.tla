--------------------------------- MODULE Hub -------------------------------
(***************************************************************************)
(* The whole hub of one lobby: Connections and Presence joined.  A case of *)
(* Run's select does the work of both modules in one step; the steps of    *)
(* the pumps are those of Connections, the steps of the timers and of the  *)
(* lobby's HTTP calls those of Presence.                                   *)
(*                                                                         *)
(* What neither module can say is said here: that a player whose network   *)
(* is lost is noticed at all.  The way from a dead socket to a verdict     *)
(* leads through ReadPump, the unregister channel, Run, a timer and the    *)
(* lobby service.                                                          *)
(***************************************************************************)
EXTENDS Connections, Grace

\* The grace periods, their players, and what the lobby has come to.
presenceVars == <<timer, startedAt, disconnectTimers, suppressDisconnect, quit,
                  notices, phase, left, forfeited>>
hubVars == <<conVars, presenceVars>>

\* What Presence sees of the stage of a connection.
Link == [c \in Clients |-> CASE stage[c] = "idle" -> "idle"
                             [] stage[c] = "registering" -> "opening"
                             [] stage[c] = "gone" -> "gone"
                             [] OTHER -> "open"]

P == INSTANCE Presence WITH link <- Link

HubInit == Init /\ P!PresenceInit

----------------------------------------------------------------------------
(* Cases of Run that concern both modules *)

HubRegister(c) == Register(c) /\ P!RegisterPlayer(c)

\* Mutant: a connection that was dropped from the map unregisters silently.
HubUnregisterMapped(c) ==
  /\ Unregister(c)
  /\ IF c \in registry THEN P!UnregisterPlayer(c) ELSE UNCHANGED presenceVars

HubUnregister(c) == Unregister(c) /\ P!UnregisterPlayer(c)

\* A presence message is broadcast like any other.
HubSendNotice(c, kind) ==
  /\ HubBroadcast
  /\ UNCHANGED staticCache
  /\ P!SendNotice(c, kind, registry \ registry')

HubConnect(c, p) == Connect(c, p) /\ P!ConnectPlayer(c, p)

\* The cleanup service takes the lobby away from the handlers as well.
HubDeleteLobbyRow ==
  /\ DeleteLobbyRow
  /\ P!EndLobby \/ (phase = "over" /\ UNCHANGED presenceVars)

\* Steps of one module only.  A broadcast may drop connections that are full.
HubPumps == (Pumps \/ HubBroadcast) /\ UNCHANGED presenceVars

HubNetwork == (\E c \in Clients : Drop(c)) /\ UNCHANGED presenceVars

HubFire(c)        == fault = "none" /\ UNCHANGED conVars /\ P!Fire(c)
HubDeleteKey(c)   == fault = "none" /\ UNCHANGED conVars /\ P!DeleteKey(c)
HubCallHandler(c) == fault = "none" /\ UNCHANGED conVars /\ P!CallHandler(c)

HubCalls ==
  /\ fault = "none"
  /\ UNCHANGED conVars
  /\ (\E p \in Players : P!Leave(p) \/ P!Forfeit(p)) \/ P!StartGame \/ P!EndLobby

----------------------------------------------------------------------------
HubNext ==
  \/ \E c \in Clients :
       \/ HubRegister(c) \/ HubUnregister(c)
       \/ HubFire(c) \/ HubDeleteKey(c) \/ HubCallHandler(c)
       \/ \E kind \in P!Kinds : HubSendNotice(c, kind)
       \/ \E p \in Players \cup {NoPlayer} : HubConnect(c, p)
  \/ HubPumps
  \/ HubNetwork
  \/ HubDeleteLobbyRow
  \/ HubCalls

HubSpec == HubInit /\ [][HubNext]_hubVars

\* As in the two modules: Run serves whoever waits for it, pumps go on, the
\* runtime fires timers.  Nobody has to read, connect or drop.
HubFairness ==
  \A c \in Clients :
    /\ WF_hubVars(HubRegister(c)) /\ WF_hubVars(HubUnregister(c))
    /\ WF_hubVars(Join(c) /\ HubPumps) /\ WF_hubVars(Greet(c) /\ HubPumps)
    /\ WF_hubVars(Reply(c) /\ HubPumps) /\ WF_hubVars(ReadFails(c) /\ HubPumps)
    /\ WF_hubVars(WriteMessage(c) /\ HubPumps) /\ WF_hubVars(WriteEnds(c) /\ HubPumps)
    /\ WF_hubVars(HubFire(c)) /\ WF_hubVars(HubDeleteKey(c))
    /\ WF_hubVars(HubCallHandler(c))

HubFairSpec == HubSpec /\ HubFairness

----------------------------------------------------------------------------
\* The hub keeps the promises of Presence although broadcasts drop connections
\* behind its back, pumps end in any order and the process may die: each of its
\* steps is a step of Presence or leaves what Presence sees alone.
ImplementsPresence == P!PresenceSpec

\* A player who was connected and has no working socket any more, in a lobby
\* that goes on, and who did not leave on purpose.
Lost(p) ==
  /\ \E c \in Clients : pid[c] = p
  /\ \A c \in Clients : pid[c] = p => c \notin socket
  /\ phase # "over"
  /\ p \notin left \cup quit

\* A pump that waits for room in the channel of a WritePump that has returned.
Stuck(c) == stage[c] = "replying" /\ queued[c] = SendCap /\ c \notin writer

\* A lost player is not waited for without end: the player comes back, or the
\* grace period ends the game or frees the seat.  It takes the pump to notice,
\* so a pump that is stuck, and a process that is dead, are excepted.
LostIsResolved ==
  \A p \in Players :
    Lost(p) ~> (\/ ~Lost(p)
                \/ fault # "none"
                \/ \E c \in Clients : pid[c] = p /\ Stuck(c))

=============================================================================
