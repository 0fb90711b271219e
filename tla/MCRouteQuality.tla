--------------------------- MODULE MCRouteQuality ---------------------------
(* The route prober for TLC; the .cfg files scale its thresholds down.     *)
EXTENDS RouteQuality
=============================================================================
