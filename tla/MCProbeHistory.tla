--------------------------- MODULE MCProbeHistory ---------------------------
(* The store of probe results for TLC: the queue has room for two requests *)
(* (two results, or a Flush behind one), a batch takes two results, and    *)
(* pages of one row are read while a third matching row may be inserted.   *)
EXTENDS ProbeHistory
=============================================================================
