------------------------------- MODULE AdminUI ------------------------------
(***************************************************************************)
(* The administration pages with the in-memory API of the browser test.    *)
(* The list with its probing loop, the history dialog and the MTR dialog   *)
(* share no data, and a dialog hides the list: a behaviour is about one of *)
(* the three, which the user has chosen at its beginning.                  *)
(***************************************************************************)
EXTENDS AdminList, AdminHistory, AdminMTR

VARIABLES tool      \* what the user works with

vars == <<tool, listVars, historyVars, mtrVars>>

Init ==
  /\ tool \in {"list", "history", "mtr"}
  /\ ListInit /\ HistoryInit /\ MTRInit

Next ==
  \/ tool = "list" /\ ListNext /\ UNCHANGED <<tool, historyVars, mtrVars>>
  \/ tool = "history" /\ HistoryNext /\ UNCHANGED <<tool, listVars, mtrVars>>
  \/ tool = "mtr" /\ MTRNext /\ UNCHANGED <<tool, listVars, historyVars>>

Spec == Init /\ [][Next]_vars
-----------------------------------------------------------------------------
(* The type invariant of the pages.                                        *)
TypeOK == ListTypeOK /\ HistoryTypeOK /\ MTRTypeOK
=============================================================================
