---------------------------- MODULE TunnelConfig ----------------------------
(***************************************************************************)
(* What the administration of tunnels talks about: the fields of Config    *)
(* (tun/config.go) that the tunnel manager looks at, and the requests of   *)
(* the admin API (admin/controller/tunnel).                                *)
(***************************************************************************)
CONSTANTS
  Names,     \* Config.Name, the key of Manager.services and the file name
  UUIDs,     \* Config.UUID; the API passes the client's value through
  Ports,     \* the listening address in Config.Input
  MuxModes,  \* is the output multiplexed (its Run blocks until the peer answers)?
  Null

ASSUME ConfigAssumption == /\ MuxModes \subseteq BOOLEAN
                           /\ Null \notin Names \cup UUIDs \cup Ports

Configs == [uuid : UUIDs, name : Names, port : Ports, mux : MuxModes, disabled : BOOLEAN]

AddRequests     == [op : {"add"}, cfg : Configs]
ReplaceRequests == [op : {"replace"}, cfg : Configs]
ToggleRequests  == [op : {"toggle"}, name : Names, disabled : BOOLEAN]
RemoveRequests  == [op : {"remove"}, name : Names]

Requests == AddRequests \cup ReplaceRequests \cup ToggleRequests \cup RemoveRequests

ASSUME NullAssumption == Null \notin Configs \cup Requests

(* Config's Disabled field, changed by SetServiceDisabled.                 *)
WithDisabled(c, d) == [c EXCEPT !.disabled = d]
=============================================================================
