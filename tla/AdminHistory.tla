---------------------------- MODULE AdminHistory ----------------------------
(***************************************************************************)
(* The dialog of the probe history on the tunnel page (tunnel/list.html):  *)
(* its filters, its pages and the requests that are under way.  Answers    *)
(* arrive in any order; a request counter tells the ones that still count. *)
(***************************************************************************)
EXTENDS AdminAPI, Sequences

CONSTANTS MaxQueries      \* how many requests are sent (bounds the model)

VARIABLES
  hist,      \* the dialog's state
  queries    \* requests under way: [id, query, state ("sent", "ok" or "failed")]

historyVars == <<hist, queries>>

FilterSet == [kind : {"", "route"}, inside : BOOLEAN]
AnyRecord == [kind |-> "", inside |-> TRUE]
Routes    == [AnyRecord EXCEPT !.kind = "route"]
Outside   == [AnyRecord EXCEPT !.inside = FALSE]
Query(h) == [kind |-> h.filter.kind, inside |-> h.filter.inside, before |-> h.before]

HistoryInit ==
  /\ hist = [open |-> FALSE, filter |-> AnyRecord, valid |-> TRUE, before |-> 0, next |-> 0,
             previous |-> <<>>, rows |-> {}, loading |-> FALSE, error |-> FALSE, id |-> 0]
  /\ queries = {}

(* loadProbeHistory.  A range of time that is not valid is refused before  *)
(* anything is sent, and outdates what is under way all the same.          *)
Load(h) ==
  LET g == [h EXCEPT !.id = @ + 1, !.rows = {}, !.error = ~h.valid, !.loading = h.valid,
                     !.next = IF h.valid THEN @ ELSE 0]
  IN /\ hist' = g
     /\ queries' = IF g.valid
                     THEN queries \cup {[id |-> g.id, query |-> Query(g), state |-> "sent"]}
                     ELSE queries

Reset(h) == Load([h EXCEPT !.previous = <<>>, !.before = 0, !.next = 0])

OpenHistory ==
  /\ ~hist.open
  /\ Reset([hist EXCEPT !.open = TRUE, !.filter = AnyRecord, !.valid = TRUE])

(* A filter or the range of time changes; a range may be incomplete or     *)
(* end before it begins.                                                   *)
ChangeFilter(f, v) ==
  /\ hist.open
  /\ <<f, v>> # <<hist.filter, hist.valid>>
  /\ Reset([hist EXCEPT !.filter = f, !.valid = v])

RefreshHistory == hist.open /\ ~hist.loading /\ Reset(hist)

RetryHistory == hist.open /\ hist.error /\ Load(hist)

NextPage ==
  /\ hist.open /\ ~hist.loading /\ hist.next # 0
  /\ Load([hist EXCEPT !.previous = Append(@, hist.before), !.before = hist.next])

PreviousPage ==
  /\ hist.open /\ ~hist.loading /\ hist.previous # <<>>
  /\ Load([hist EXCEPT !.before = hist.previous[Len(hist.previous)],
                       !.previous = SubSeq(@, 1, Len(@) - 1)])

CloseHistory ==
  /\ hist.open
  /\ hist' = [hist EXCEPT !.open = FALSE, !.id = @ + 1, !.loading = FALSE]
  /\ UNCHANGED queries
-----------------------------------------------------------------------------
(* The API answers a query, or with an error (failHistory).                *)
ServeHistory(m, result) ==
  /\ m.state = "sent"
  /\ queries' = (queries \ {m}) \cup {[m EXCEPT !.state = result]}
  /\ UNCHANGED hist

\* Faulty variant of Current: any answer counts.
CurrentAlways(m) == TRUE

Current(m) == m.id = hist.id

(* An answer arrives.                                                      *)
HistoryArrives(m) ==
  /\ m.state \in {"ok", "failed"}
  /\ queries' = queries \ {m}
  /\ \/ /\ ~Current(m)
        /\ UNCHANGED hist
     \/ /\ Current(m) /\ m.state = "ok"
        /\ LET a == HistoryAnswer(m.query)
           IN hist' = [hist EXCEPT !.rows = a.rows, !.next = a.next, !.loading = FALSE]
     \/ /\ Current(m) /\ m.state = "failed"
        /\ hist' = [hist EXCEPT !.error = TRUE, !.next = 0, !.loading = FALSE]

HistoryUser ==
  \/ OpenHistory \/ RefreshHistory \/ RetryHistory \/ NextPage \/ PreviousPage
  \/ \E f \in {AnyRecord, Routes, Outside}, v \in BOOLEAN : ChangeFilter(f, v)

HistoryNext ==
  \/ hist.id < MaxQueries /\ HistoryUser
  \/ CloseHistory
  \/ \E m \in queries : HistoryArrives(m) \/ \E r \in {"ok", "failed"} : ServeHistory(m, r)
-----------------------------------------------------------------------------
HistoryTypeOK ==
  /\ hist.filter \in FilterSet
  /\ hist.rows \subseteq 1 .. HistoryLen
  /\ {hist.before, hist.next} \subseteq 0 .. HistoryLen
  /\ hist.previous \in Seq(0 .. HistoryLen)
  /\ hist.id \in Nat
  /\ \A m \in queries : m.id \in 1 .. hist.id

(* What the dialog shows is the page it says: the records and the cursor   *)
(* of the next page are the ones for the filters and the cursor that are   *)
(* set, whatever was under way when they were set; and the cursors of the  *)
(* pages before lead through the records of these filters without a gap,   *)
(* so that going back and forth shows each of them.                        *)
ShownPage ==
  hist.open /\ ~hist.loading /\ ~hist.error =>
    LET a == HistoryAnswer(Query(hist)) IN hist.rows = a.rows /\ hist.next = a.next
Cursors == Append(hist.previous, hist.before)
CursorChain ==
  \A k \in 1 .. Len(Cursors) :
    IF k = 1 THEN Cursors[k] = 0
    ELSE LET q == [Query(hist) EXCEPT !.before = Cursors[k - 1]]
         IN Cursors[k] # 0 /\ Cursors[k] = HistoryAnswer(q).next
HistoryConsistent == ShownPage /\ CursorChain
=============================================================================
