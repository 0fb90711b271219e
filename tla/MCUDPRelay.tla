----------------------------- MODULE MCUDPRelay -----------------------------
(* The UDP input and its pipes for TLC.                                    *)
EXTENDS UDPRelay
=============================================================================
