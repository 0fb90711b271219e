---------------------------- MODULE MCOutputPool ----------------------------
(* The pool of OutputPool for TLC: one slot, a handler of user connections *)
(* and a bandwidth test.  The handler calls twice, so that a creator that  *)
(* its first call started and one that the second call started can work    *)
(* for the slot at the same time.                                          *)
EXTENDS OutputPool

MCMaxCalls == [c \in Callers |-> IF c \in Business THEN 2 ELSE 1]
=============================================================================
