------------------------------ MODULE AdminAPI ------------------------------
(***************************************************************************)
(* The in-memory API of scripts/test-admin-ui.cjs, against which the       *)
(* administration pages are tested: its fixtures, and what each handler    *)
(* does to them and answers.  The pages' modules send requests to it.      *)
(*                                                                         *)
(* A row of a list is what the pages tell apart of it, its flag disabled   *)
(* and its status; a list is a function from the uuids of its rows.        *)
(***************************************************************************)
EXTENDS Integers, FiniteSets

CONSTANTS
  HistoryLen,   \* records of the probe history (55 in the script)
  HistoryPage   \* records on a page of it (50 in the script)

ASSUME APIAssumption == HistoryLen \in Nat /\ HistoryPage \in Nat \ {0}

Row(disabled, status) == [disabled |-> disabled, status |-> status]
RowSet == [disabled : BOOLEAN, status : {"running", "disabled", "failed", "init"}]
NoRows == [u \in {} |-> Row(FALSE, "running")]

(* The fixtures.                                                           *)
Tunnels == [a |-> Row(FALSE, "running"), b |-> Row(TRUE, "disabled"), c |-> Row(FALSE, "failed")]

RouteFixture == Row(FALSE, "running")

Records ==
  [tunnel       |-> Tunnels,
   route_output |-> [output |-> RouteFixture],
   route_input  |-> [u \in {"input", "priority", "legacy"} |-> RouteFixture],
   service      |-> [u \in {"s0", "s1", "s2", "s3"} |-> Row(FALSE, "running")]]

HistoryFixture == [id \in 1 .. HistoryLen |-> IF id % 2 = 0 THEN "route" ELSE "frame"]   \* kinds
-----------------------------------------------------------------------------
(* The handlers that change rows.  One that does not find its row ends     *)
(* with an exception, which is answered like any failure.                  *)
StatusOf(disabled) == IF disabled THEN "disabled" ELSE "running"

SetDisabled(rows, u, disabled) == [rows EXCEPT ![u] = Row(disabled, StatusOf(disabled))]

\* edit assigns the fields of the form, and status is not one of them.
EditRow(rows, u, disabled) == [rows EXCEPT ![u].disabled = disabled]

AddRow(rows, u, disabled) ==
  [v \in DOMAIN rows \cup {u} |-> IF v = u THEN Row(disabled, StatusOf(disabled)) ELSE rows[v]]

DeleteRow(rows, u) == [v \in DOMAIN rows \ {u} |-> rows[v]]

(* probe_history.  A query has the filter kind ("" for any), inside, which *)
(* says whether the records lie in its range of time, and the cursor       *)
(* before (0: none).  The filter status is like kind and left out.         *)
Matches(q) ==
  {id \in 1 .. HistoryLen :
     /\ q.inside
     /\ q.before = 0 \/ id < q.before
     /\ q.kind \in {"", HistoryFixture[id]}}

Newest(S, n) == {x \in S : Cardinality({y \in S : y > x}) < n}

HistoryAnswer(q) ==
  LET rows == Newest(Matches(q), HistoryPage) IN
  [rows |-> rows,
   next |-> IF Cardinality(Matches(q)) > HistoryPage
              THEN CHOOSE x \in rows : \A y \in rows : x <= y ELSE 0]
=============================================================================
