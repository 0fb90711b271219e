-------------------------- MODULE MCTunnelManager ---------------------------
(* The tunnel manager for TLC: names, UUIDs, ports and administrators are  *)
(* interchangeable, which the safety runs use.                             *)
EXTENDS TunnelManager, TLC

Interchangeable ==
  Permutations(Names) \cup Permutations(UUIDs) \cup Permutations(Ports)
    \cup Permutations(Admins)
=============================================================================
