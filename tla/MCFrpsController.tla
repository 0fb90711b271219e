-------------------------- MODULE MCFrpsController --------------------------
(* The controller of a reverse tunnel for TLC, with short channels.  Which *)
(* of two things a behaviour shows is chosen at the start: a user comes    *)
(* while the client sends pings, or two users compete for the workers of a *)
(* client that sends none.  Only the arrival of pings and of users is      *)
(* restricted, on which no fairness is assumed.                            *)
EXTENDS FrpsController

VARIABLE scenario

TheUser == CHOOSE u \in Users : TRUE

Within ==
  CASE scenario = "pings" -> /\ calls' <= 2
                             /\ \A u \in Users \ {TheUser} : pc'[u] = "idle"
    [] scenario = "rush"  -> pc'[Reader] # "lock"

MCInit == Init /\ scenario \in {"pings", "rush"}
MCNext == Next /\ Within /\ UNCHANGED scenario
MCSpec == MCInit /\ [][MCNext]_<<vars, scenario>> /\ Fairness
=============================================================================
