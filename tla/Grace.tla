-------------------------------- MODULE Grace ------------------------------
(***************************************************************************)
(* The state of the grace periods: what Presence has besides connections,  *)
(* and what module Hub adds to Connections.                                *)
(***************************************************************************)
EXTENDS Registry

CONSTANTS
  NoTimer,     \* no entry in the disconnectTimers map
  Overlap      \* whether a player may open a socket before an older one is gone

ASSUME NoTimerAssumption == NoTimer \notin Clients
ASSUME OverlapAssumption == Overlap \in BOOLEAN

VARIABLES
  timer,        \* the timer that was armed when connection c unregistered
  startedAt,    \* connections whose timer's closure captured gameStarted = true
  disconnectTimers,    \* h.disconnectTimers: player -> connection that armed it
  suppressDisconnect,  \* h.suppressDisconnect
  quit,         \* players who pressed Leave or Forfeit (history)
  notices,      \* goroutines of Run blocked on h.broadcast
  phase,        \* the lobby row as IsGameStarted sees it
  left,         \* players whose row was deleted from the lobby
  forfeited     \* players a timer took out of the game

=============================================================================
