------------------------------ MODULE AdminList -----------------------------
(***************************************************************************)
(* The list pages of the administration (admin-ui.js, tunnel/list.html,    *)
(* route_input/list.html): the list that is shown, the requests that       *)
(* change rows, the refreshes that follow them, and the probing loop of    *)
(* the tunnel page.  Every visit of a page is a component of its own;      *)
(* answers and timers of a component that has been destroyed still run.    *)
(*                                                                         *)
(* Requests are served and answered in any order, and may be lost on       *)
(* either way, which the page sees as an error.                            *)
(***************************************************************************)
EXTENDS AdminAPI, Sequences

CONSTANTS
  Pages,        \* the kinds of pages the user visits
  Touched,      \* uuids of the rows the user operates on
  MaxVisits,    \* how many pages are visited (bounds the model)
  MaxActions    \* how many requests the user and the probe timer cause

ASSUME ListAssumption == Pages \subseteq DOMAIN Records

VARIABLES
  records,      \* the API's lists
  probeCount,   \* the API's count of probes
  ui,           \* the components, the last of which is on the screen
  net,          \* the requests and answers under way
  actions,      \* how many requests the user and the probe timer caused
  missed        \* history: a change was made whose answer the page on the
                \* screen did not get
listVars == <<records, probeCount, ui, net, actions, missed>>

(* The data of a component.  gen is the request whose answer is shown,     *)
(* saving stands for clonePending on the tunnel page.                      *)
Component(kind) ==
  [kind |-> kind, rows |-> NoRows, gen |-> 0, req |-> 0, err |-> FALSE,
   busy |-> {}, saving |-> FALSE, timer |-> kind = "tunnel",
   enabled |-> FALSE, session |-> 0, pending |-> FALSE, ptimer |-> FALSE]

NewName == "created"
NoUuid == ""        \* of a request that is not about a row

(* A request: req is the list's request, the list the row was seen on or   *)
(* the probing loop, by which the answer is judged.                        *)
Msg(op, i, req, row, disabled, then) ==
  [op |-> op, from |-> i, req |-> req, row |-> row, disabled |-> disabled,
   then |-> then, state |-> "sent", rows |-> NoRows]

ListInit ==
  /\ records = Records
  /\ probeCount = 0
  /\ ui = <<Component("tunnel")>>
  /\ net = {} /\ actions = 0 /\ missed = FALSE

Screen == Len(ui)
Send(m) == net' = net \cup {m}
Act     == actions' = actions + 1
-----------------------------------------------------------------------------
(* loadList for component i, whose data is now d: the answer counts while  *)
(* no newer request has been sent.  then is what ends with the request.    *)
LoadList(i, d, done, row, then) ==
  /\ ui' = [ui EXCEPT ![i] = [d EXCEPT !.req = @ + 1, !.err = FALSE]]
  /\ net' = (net \ done) \cup {Msg("list", i, d.req + 1, row, FALSE, then)}

Refresh ==
  /\ Act
  /\ LoadList(Screen, ui[Screen], {}, NoUuid, "none")
  /\ UNCHANGED <<records, probeCount, missed>>

(* The page number in the address changes, which loads the list like the   *)
(* button; the lists of the API fit on one page.                           *)
ChangePage == Refresh

(* The timers of refreshListDelayed and scheduleProbeListRefresh.          *)
TimerFires(i) ==
  /\ ui[i].timer
  /\ LoadList(i, [ui[i] EXCEPT !.timer = FALSE], {}, NoUuid, "none")
  /\ UNCHANGED <<records, probeCount, actions, missed>>

ProbeRefresh(i) ==
  /\ ui[i].ptimer
  /\ LoadList(i, [ui[i] EXCEPT !.ptimer = FALSE], {}, NoUuid, "none")
  /\ UNCHANGED <<records, probeCount, actions, missed>>

(* invokeSetDisabled: one request for a row at a time.                     *)
Toggle(u) ==
  LET d == ui[Screen] IN
  /\ Act
  /\ u \in DOMAIN d.rows \ d.busy
  /\ ui' = [ui EXCEPT ![Screen].busy = @ \cup {u}]
  /\ Send(Msg("set_disabled", Screen, d.gen, u, ~d.rows[u].disabled, "busy"))
  /\ UNCHANGED <<records, probeCount, missed>>

(* saveConfiguration for the form of a row, or for a new one, on the other *)
(* pages; invokeClone on the tunnel page, where the copy is disabled.      *)
Save(u, disabled) ==
  LET d == ui[Screen]
      new == u \notin DOMAIN d.rows IN
  /\ Act
  /\ ~d.saving
  /\ new => u = NewName /\ u \notin DOMAIN records[d.kind]
  /\ d.kind = "tunnel" => new /\ disabled /\ d.rows # NoRows
  /\ ui' = [ui EXCEPT ![Screen].saving = TRUE]
  /\ Send(Msg(IF new THEN "create" ELSE "edit", Screen, 0, u, disabled, "save"))
  /\ UNCHANGED <<records, probeCount, missed>>

(* invokeConfirmDelete.                                                    *)
Delete(u) ==
  /\ Act
  /\ u \in DOMAIN ui[Screen].rows
  /\ Send(Msg("delete", Screen, 0, u, FALSE, "none"))
  /\ UNCHANGED <<records, probeCount, ui, missed>>
-----------------------------------------------------------------------------
(* The probing loop: fireProbe, invokeProbeToggle and stopProbeLoop.       *)
StopProbeLoop(d) ==
  [d EXCEPT !.session = @ + 1, !.enabled = FALSE, !.ptimer = FALSE, !.pending = FALSE]

ProbeToggle ==
  LET d == ui[Screen] IN
  /\ d.kind = "tunnel"
  /\ Act
  /\ \/ /\ d.enabled
        /\ ui' = [ui EXCEPT ![Screen] = StopProbeLoop(d)]
        /\ UNCHANGED net
     \/ /\ ~d.enabled
        /\ ui' = [ui EXCEPT ![Screen] =
                    [d EXCEPT !.session = @ + 1, !.enabled = TRUE, !.pending = TRUE]]
        /\ Send(Msg("probe", Screen, d.session + 1, NoUuid, FALSE, "probe"))
  /\ UNCHANGED <<records, probeCount, missed>>

FireProbe(i) ==
  /\ Act
  /\ ui[i].enabled /\ ~ui[i].pending
  /\ ui' = [ui EXCEPT ![i].pending = TRUE]
  /\ Send(Msg("probe", i, ui[i].session, NoUuid, FALSE, "probe"))
  /\ UNCHANGED <<records, probeCount, missed>>

(* Another page: the component is destroyed and one is created, which      *)
(* loads its list, after a moment on the tunnel page.                      *)
\* Faulty variant of Destroyed: the probing loop outlives its page.
DestroyedProbing(d) == [d EXCEPT !.req = @ + 1, !.timer = FALSE]

Destroyed(d) == [StopProbeLoop(d) EXCEPT !.req = @ + 1, !.timer = FALSE]

Leave(kind) ==
  LET old == [ui EXCEPT ![Screen] = Destroyed(ui[Screen])] IN
  /\ kind # ui[Screen].kind
  /\ \/ /\ kind = "tunnel"
        /\ ui' = Append(old, Component(kind))
        /\ UNCHANGED net
     \/ /\ kind # "tunnel"
        /\ ui' = Append(old, [Component(kind) EXCEPT !.req = 1])
        /\ Send(Msg("list", Screen + 1, 1, NoUuid, FALSE, "none"))
  /\ UNCHANGED <<records, probeCount, actions, missed>>
-----------------------------------------------------------------------------
(* The API serves a request.  A change for a page that is not on the       *)
(* screen any more is noted.  The requests for the quality of a tunnel,    *)
(* the switch log, the checks and the bandwidth get answers that depend on *)
(* nothing and change nothing, and are left out; those for the history and *)
(* the MTR stream are in AdminHistory and AdminMTR.                        *)
Reply(m, state, rows) == net' = (net \ {m}) \cup {[m EXCEPT !.state = state, !.rows = rows]}

ServeList(m) ==
  /\ m.op = "list"
  /\ \/ Reply(m, "ok", records[ui[m.from].kind])
     \/ Reply(m, "failed", NoRows)
  /\ UNCHANGED <<records, probeCount, missed>>

ServeProbe(m) ==
  /\ m.op = "probe"
  /\ probeCount' = probeCount + 1
  /\ Reply(m, "ok", NoRows)
  /\ UNCHANGED <<records, missed>>

Changed(m, rows) ==
  /\ records' = [records EXCEPT ![ui[m.from].kind] = rows]
  /\ missed' = (missed \/ m.from # Screen)
  /\ Reply(m, "ok", NoRows)
  /\ UNCHANGED probeCount
Refused(m) == Reply(m, "failed", NoRows) /\ UNCHANGED <<records, probeCount, missed>>

ServeSetDisabled(m) ==
  LET rows == records[ui[m.from].kind] IN
  /\ m.op = "set_disabled"
  /\ \/ Refused(m)
     \/ m.row \in DOMAIN rows /\ Changed(m, SetDisabled(rows, m.row, m.disabled))

ServeSave(m) ==
  LET rows == records[ui[m.from].kind] IN
  /\ m.op \in {"edit", "create"}
  /\ \/ Refused(m)
     \/ m.op = "edit" /\ m.row \in DOMAIN rows /\ Changed(m, EditRow(rows, m.row, m.disabled))
     \/ m.op = "create" /\ Changed(m, AddRow(rows, m.row, m.disabled))

ServeDelete(m) ==
  /\ m.op = "delete"
  /\ Changed(m, DeleteRow(records[ui[m.from].kind], m.row))

Serve(m) ==
  /\ m.state = "sent"
  /\ ServeList(m) \/ ServeProbe(m) \/ ServeSetDisabled(m) \/ ServeSave(m) \/ ServeDelete(m)
  /\ UNCHANGED <<ui, actions>>
-----------------------------------------------------------------------------
(* What ends with a request, however it ends: finally.                     *)
\* Faulty variant of Finally: an old probe ends the wait for a newer one.
FinallyAnyProbe(m, d) ==
  CASE m.then = "busy"  -> [d EXCEPT !.busy = @ \ {m.row}]
    [] m.then = "save"  -> [d EXCEPT !.saving = FALSE]
    [] m.then = "probe" -> [d EXCEPT !.pending = FALSE]
    [] OTHER            -> d

Finally(m, d) ==
  CASE m.then = "busy"  -> [d EXCEPT !.busy = @ \ {m.row}]
    [] m.then = "save"  -> [d EXCEPT !.saving = FALSE]
    [] m.then = "probe" /\ m.req = d.session -> [d EXCEPT !.pending = FALSE]
    [] OTHER            -> d

\* normalizeTunnelRow; the other pages take a row as it is.
Normalize(kind, rows) ==
  [u \in DOMAIN rows |->
     IF kind = "tunnel" /\ rows[u].disabled THEN Row(TRUE, "disabled") ELSE rows[u]]

\* Faulty variant of IsLatest: every answer of a list is shown.
IsLatestAlways(m, d) == TRUE

IsLatest(m, d) == m.req = d.req

(* An answer of the list.                                                  *)
ListArrives(m) ==
  LET d == ui[m.from] IN
  /\ m.op = "list"
  /\ \/ /\ IsLatest(m, d) /\ m.state = "ok"
        /\ ui' = [ui EXCEPT ![m.from] =
                    Finally(m, [d EXCEPT !.rows = Normalize(d.kind, m.rows), !.gen = m.req])]
     \/ /\ IsLatest(m, d) /\ m.state = "failed"
        /\ ui' = [ui EXCEPT ![m.from] = Finally(m, [d EXCEPT !.err = TRUE])]
     \/ /\ ~IsLatest(m, d)
        /\ ui' = [ui EXCEPT ![m.from] = Finally(m, d)]
  /\ net' = net \ {m}

(* An answer to a change.  The tunnel page alters the row it was about, if *)
(* the row is still on the list, and loads the list after a moment; the    *)
(* other pages load it at once, and the row stays busy until then.         *)
InPlace(m, d) ==
  IF m.op = "set_disabled" /\ m.req = d.gen
    THEN [d EXCEPT !.rows[m.row] = Row(m.disabled, IF m.disabled THEN "disabled" ELSE "init")]
    ELSE d

ChangeArrives(m) ==
  LET d == ui[m.from] IN
  /\ m.op \in {"set_disabled", "edit", "create", "delete"}
  /\ \/ /\ m.state = "failed"
        /\ ui' = [ui EXCEPT ![m.from] = Finally(m, d)]
        /\ net' = net \ {m}
     \/ /\ m.state = "ok" /\ d.kind = "tunnel"
        /\ ui' = [ui EXCEPT ![m.from] = Finally(m, [InPlace(m, d) EXCEPT !.timer = TRUE])]
        /\ net' = net \ {m}
     \/ /\ m.state = "ok" /\ d.kind # "tunnel"
        /\ LoadList(m.from, d, {m}, m.row, m.then)

(* An answer to a probe: the list is loaded in a moment, if the loop that  *)
(* sent the probe still runs.                                              *)
ProbeArrives(m) ==
  LET d == ui[m.from] IN
  /\ m.op = "probe"
  /\ ui' = [ui EXCEPT ![m.from] =
              Finally(m, IF m.req = d.session /\ d.enabled THEN [d EXCEPT !.ptimer = TRUE] ELSE d)]
  /\ net' = net \ {m}

Arrives(m) ==
  /\ m.state # "sent"
  /\ ListArrives(m) \/ ChangeArrives(m) \/ ProbeArrives(m)
  /\ UNCHANGED <<records, probeCount, actions, missed>>

(* A request or an answer is lost.                                         *)
Lost(m) ==
  LET d == ui[m.from] IN
  /\ ui' = [ui EXCEPT ![m.from] =
              Finally(m, CASE m.op = "list" /\ IsLatest(m, d) -> [d EXCEPT !.err = TRUE]
                           [] m.op = "probe" /\ m.req = d.session /\ d.enabled -> StopProbeLoop(d)
                           [] OTHER -> d)]
  /\ net' = net \ {m}
  /\ missed' = (missed \/ (m.state = "ok" /\ m.op \notin {"list", "probe"}))
  /\ UNCHANGED <<records, probeCount, actions>>

(* What the user sees of the rows: the numbers of countRows and the rows   *)
(* that the chosen filter lets through (the text of a search aside).       *)
IsRunning(row) == ~row.disabled /\ row.status = "running"

CountRows(rows) ==
  [all     |-> Cardinality(DOMAIN rows),
   running |-> Cardinality({u \in DOMAIN rows : IsRunning(rows[u])}),
   off     |-> Cardinality({u \in DOMAIN rows : rows[u].disabled})]

FilteredRows(rows, filter) ==
  LET Passes(row) == /\ filter = "off" => row.disabled
                     /\ filter = "running" => IsRunning(row)
  IN [u \in {v \in DOMAIN rows : Passes(rows[v])} |-> rows[u]]

Seen(rows) == <<CountRows(rows), [f \in {"all", "running", "off"} |-> FilteredRows(rows, f)]>>

ListUser ==
  \/ Refresh \/ ChangePage \/ ProbeToggle
  \/ \E u \in Touched : Toggle(u) \/ Delete(u) \/ \E disabled \in BOOLEAN : Save(u, disabled)
  \/ \E i \in DOMAIN ui : FireProbe(i)

ListNext ==
  \/ actions < MaxActions /\ ListUser
  \/ \E i \in DOMAIN ui : TimerFires(i) \/ ProbeRefresh(i)
  \/ \E kind \in Pages : Screen < MaxVisits /\ Leave(kind)
  \/ \E m \in net : Serve(m) \/ Arrives(m) \/ Lost(m)
-----------------------------------------------------------------------------
ListTypeOK ==
  /\ \A k \in DOMAIN records : \A u \in DOMAIN records[k] : records[k][u] \in RowSet
  /\ \A i \in DOMAIN ui :
       /\ ui[i].kind \in DOMAIN records
       /\ \A u \in DOMAIN ui[i].rows : ui[i].rows[u] \in RowSet
       /\ ui[i].gen <= ui[i].req
       /\ ui[i].busy \subseteq Touched
  /\ probeCount <= actions

(* When nothing is under way any more the page shows what the API has: no  *)
(* order in which lists, changes and their answers arrive leaves an older  *)
(* list, a row in between or a row that was altered in place on the        *)
(* screen, in the counts or under a filter.  Excepted are a list that could*)
(* not be loaded, which is shown as an error, and a change whose answer    *)
(* did not come to this page.                                              *)
Settled == net = {} /\ ~ui[Screen].timer /\ ~ui[Screen].ptimer
SettledIsCurrent ==
  Settled /\ ~ui[Screen].err /\ ~missed =>
    Seen(ui[Screen].rows) = Seen(Normalize(ui[Screen].kind, records[ui[Screen].kind]))

(* A row or the form that waits for an answer is released in the end: what *)
(* is marked as waiting has a request under way that ends the wait.  And a *)
(* probing loop has one probe under way at most, also when it is stopped   *)
(* and started again or its page is left while one is.                     *)
Waits(i, then, u) ==
  {m \in net : m.from = i /\ m.then = then /\ (then # "busy" \/ m.row = u)}
ProbesOf(i) == {m \in net : m.from = i /\ m.op = "probe" /\ m.req = ui[i].session}
WaitsHaveRequests ==
  \A i \in DOMAIN ui :
    /\ \A u \in ui[i].busy : Cardinality(Waits(i, "busy", u)) = 1
    /\ ui[i].saving => Cardinality(Waits(i, "save", NoUuid)) = 1
    /\ Cardinality(ProbesOf(i)) = IF ui[i].pending THEN 1 ELSE 0

(* A page that has been left sends no probe any more: neither the interval *)
(* of its probing loop nor the answer of a probe that was under way when   *)
(* it was left starts another one.  What the API still counts afterwards   *)
(* was sent before (test-admin-ui.cjs:538-540 compares the counts).        *)
SentProbes == {m \in net : m.op = "probe" /\ m.state = "sent"}
ProbesFromScreen == \A m \in SentProbes' \ SentProbes : m.from = Screen
LeftPagesSilent == [][ProbesFromScreen]_listVars
=============================================================================
