------------------------------ MODULE MCAdminUI -----------------------------
(* The administration pages for TLC.                                       *)
EXTENDS AdminUI
=============================================================================
