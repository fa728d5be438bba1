----------------------------- MODULE SourcesMC -----------------------------
(* Run loop sources in their modes, and a socket that calls back through    *)
(* one, side by side for TLC: the initial state says which one a behaviour  *)
(* is about, and the other stays as it is.                                  *)
EXTENDS RunLoopModesMC, SocketMC

VARIABLE about          \* "modes" or "socket"

SourcesInit ==
  /\ about \in {"modes", "socket"}
  /\ Init
  /\ SocketInit
  /\ about = "modes" => sock.kind = Accepting

SourcesNext ==
  /\ UNCHANGED about
  /\ \/ about = "modes" /\ Next /\ UNCHANGED socketVars
     \/ about = "socket" /\ SocketNext /\ UNCHANGED vars

SourcesSpec == SourcesInit /\ [][SourcesNext]_<<about, vars, socketVars>>
=============================================================================
