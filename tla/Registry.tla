------------------------------ MODULE Registry -----------------------------
(***************************************************************************)
(* What Connections and Presence both speak of: the connections that were  *)
(* opened for the players of one lobby, and which of them the hub has      *)
(* registered (services/hub_service.go, h.lobbies).                        *)
(***************************************************************************)
CONSTANTS
  Players,     \* player IDs: the seats of the lobby
  Clients,     \* connection IDs; each is used by one HandleWebSocket call
  NoPlayer     \* the empty player ID of a page that has no player yet

ASSUME NoPlayerAssumption == NoPlayer \notin Players

VARIABLES
  pid,          \* Client.PlayerId
  registry      \* h.lobbies[lobby]: the registered connections

\* Mutant: nobody is replaced.
ReplacedNobody(c) == {}

\* The older connections of the player of c that a registration of c replaces.
Replaced(c) ==
  {d \in registry : pid[c] # NoPlayer /\ pid[d] = pid[c] /\ d # c}

=============================================================================
