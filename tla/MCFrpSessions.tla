--------------------------- MODULE MCFrpSessions ----------------------------
(* The sessions of a reverse tunnel for TLC.                               *)
EXTENDS FrpSessions
=============================================================================
