---------------------------- MODULE AdminUIProofs ---------------------------
(***************************************************************************)
(* What holds of the administration pages for any number of visits,        *)
(* requests, records, pages of records and diagnoses.                      *)
(***************************************************************************)
EXTENDS AdminUI, FiniteSetTheorems, WellFoundedInduction, TLAPS

USE APIAssumption, MTRAssumption, ListAssumption
-----------------------------------------------------------------------------
(* The MTR dialog.                                                         *)

(* Attempts that do not overlap: one is under way at most, and the session *)
(* check of the last one has closed the stream before it.                  *)
OneAttempt ==
  overlaps = {} =>
    /\ \A m, n \in Attempts : UnderWay(m) /\ UnderWay(n) => m = n
    /\ \A n \in Attempts : attempt[n] = "terminal" => source = 0

MTRInv == /\ MTRTypeOK
          /\ source \in Attempts \cup {0}
          /\ OneAttempt
          /\ MTRReleased

LEMMA MTRStart == MTRInit => MTRInv
  BY DEF MTRInit, MTRInv, MTRTypeOK, OneAttempt, UnderWay, MTRReleased, Attempts

LEMMA MTRAttemptStep ==
  ASSUME MTRInv, NEW n \in Attempts, InvokeMTR(n) \/ SessionFails(n)
  PROVE  MTRInv'
  BY DEF InvokeMTR, SessionFails, MTRInv, MTRTypeOK, OneAttempt, UnderWay, MTRReleased

LEMMA SessionAliveStep ==
  ASSUME MTRInv, NEW n \in Attempts, SessionAlive(n)
  PROVE  MTRInv'
  BY DEF SessionAlive, StreamClosed, MTRInv, MTRTypeOK, OneAttempt, UnderWay, MTRReleased

LEMMA TerminalReadyStep ==
  ASSUME MTRInv, NEW n \in Attempts, TerminalReady(n)
  PROVE  MTRInv'
  BY DEF TerminalReady, StreamOpened, MTRInv, MTRTypeOK, OneAttempt, UnderWay, MTRReleased, Attempts

(* Every step that calls closeMTRSource leaves no stream open.             *)
LEMMA CloseSourceStep ==
  ASSUME MTRInv, CloseMTRSource,
         attempt' \in [Attempts -> {"no", "session", "terminal", "ended"}],
         \A n \in Attempts : attempt'[n] = attempt[n] \/ attempt'[n] = "ended",
         status' \in {"idle", "connecting", "running", "done", "error", "timeout", "stopped"},
         {modal', left'} \subseteq BOOLEAN,
         UNCHANGED <<api, loader, unseen, overlaps>>
  PROVE  MTRInv'
  <1>1. 0 \notin Attempts /\ source' = 0 /\ pending' = FALSE
    BY DEF CloseMTRSource, Attempts
  <1>2. /\ stream' \in [Attempts -> {"none", "open", "closed"}]
        /\ \A n \in Attempts : stream'[n] = "open" => stream[n] = "open" /\ n # source
        /\ \A n \in Attempts : stream'[n] = "none" => stream[n] = "none"
    BY <1>1 DEF CloseMTRSource, StreamClosed, MTRInv, MTRTypeOK
  <1>3. MTRTypeOK'
    BY <1>1, <1>2 DEF MTRInv, MTRTypeOK
  <1>4. OneAttempt' /\ MTRReleased'
    BY <1>1, <1>2 DEF MTRInv, OneAttempt, UnderWay, MTRReleased
  <1> QED
    BY <1>1, <1>3, <1>4 DEF MTRInv

LEMMA MTRNextStep ==
  ASSUME MTRInv, MTRNext
  PROVE  MTRInv'
  <1>1. ASSUME NEW n \in Attempts,
               InvokeMTR(n) \/ SessionFails(n) \/ SessionAlive(n) \/ TerminalReady(n)
        PROVE  MTRInv'
    BY <1>1, MTRAttemptStep, SessionAliveStep, TerminalReadyStep
  <1>2. ASSUME NEW n \in Attempts, TerminalFails(n) \/ LastEvent(n) \/ Disconnected(n)
        PROVE  MTRInv'
    BY <1>2, CloseSourceStep DEF TerminalFails, LastEvent, Disconnected, MTRInv, MTRTypeOK
  <1>3. ASSUME NEW n \in Attempts, StartEvent(n)
        PROVE  MTRInv'
    BY <1>3 DEF StartEvent, MTRInv, MTRTypeOK, OneAttempt, UnderWay, MTRReleased
  <1>7. ASSUME NEW n \in Attempts, StreamServed(n) \/ StreamEnds(n)
        PROVE  MTRInv'
    BY <1>7 DEF StreamServed, StreamEnds, MTRInv, MTRTypeOK, OneAttempt, UnderWay, MTRReleased
  <1>4. CASE ScriptLoads
    BY <1>4 DEF ScriptLoads, MTRInv, MTRTypeOK, OneAttempt, UnderWay, MTRReleased
  <1>5. CASE StopMTR \/ LeaveMTR
    BY <1>5, CloseSourceStep DEF StopMTR, LeaveMTR, MTRInv, MTRTypeOK
  <1>6. CASE CloseMTR
    <2>1. CASE CloseMTRSource /\ status' = "stopped"
      BY <1>6, <2>1, CloseSourceStep DEF CloseMTR, MTRInv, MTRTypeOK
    <2>2. CASE source = 0 /\ UNCHANGED <<stream, source, pending, status>>
      <3>1. 0 \notin Attempts
        BY DEF Attempts
      <3>2. modal' = FALSE /\ UNCHANGED <<attempt, api, loader, left, unseen, overlaps>>
        BY <1>6 DEF CloseMTR
      <3>3. MTRTypeOK' /\ OneAttempt'
        BY <2>2, <3>2 DEF MTRInv, MTRTypeOK, OneAttempt, UnderWay
      <3>4. MTRReleased'
        BY <2>2, <3>1, <3>2 DEF MTRInv, MTRReleased
      <3> QED
        BY <2>2, <3>3, <3>4 DEF MTRInv
    <2> QED
      BY <1>6, <2>1, <2>2 DEF CloseMTR
  <1> QED
    BY <1>1, <1>2, <1>3, <1>4, <1>5, <1>6, <1>7 DEF MTRNext

LEMMA MTRKept ==
  ASSUME MTRInv, UNCHANGED mtrVars
  PROVE  MTRInv'
  BY DEF mtrVars, MTRInv, MTRTypeOK, OneAttempt, UnderWay, MTRReleased
-----------------------------------------------------------------------------
(* The history dialog.                                                     *)

(* A set of natural numbers has a least element, and a greatest one if it  *)
(* is bounded.                                                             *)
LEMMA MinExists ==
  ASSUME NEW T, T \subseteq Nat, T # {}
  PROVE  \E x \in T : \A y \in T : x <= y
  <1>1. PICK x \in T : \A y \in T : ~ (<<y, x>> \in OpToRel(<, Nat))
    BY NatLessThanWellFounded, WFMin
  <1>2. \A y \in T : ~(y < x)
    BY <1>1 DEF OpToRel
  <1> QED
    BY <1>2

LEMMA MaxExists ==
  ASSUME NEW N \in Nat, NEW T, T \subseteq 0 .. N, T # {}
  PROVE  \E x \in T : \A y \in T : y <= x
  <1> DEFINE R == {N - t : t \in T}
  <1>1. R \subseteq Nat
    <2>1. \A t \in T : t \in Int /\ 0 <= t /\ t <= N
      OBVIOUS
    <2> QED
      BY <2>1
  <1>4. R # {}
    OBVIOUS
  <1>2. PICK r \in R : \A y \in R : r <= y
    BY <1>1, <1>4, MinExists
  <1>3. PICK x \in T : r = N - x
    OBVIOUS
  <1>5. \A y \in T : N - x <= N - y
    BY <1>2, <1>3
  <1> QED
    BY <1>5

QuerySet == [kind : {"", "route"}, inside : BOOLEAN, before : 0 .. HistoryLen]

AnswerSet == [rows : SUBSET (1 .. HistoryLen), next : 0 .. HistoryLen]

(* probe_history answers with records and, if there are more of them, with *)
(* the oldest one as the cursor of the next page.                          *)
LEMMA AnswerType ==
  ASSUME NEW q
  PROVE  HistoryAnswer(q) \in AnswerSet
  <1> DEFINE S == Matches(q)
             rows == Newest(S, HistoryPage)
  <1>1. S \subseteq 1 .. HistoryLen /\ rows \subseteq S
    BY DEF Matches, Newest
  <1>2. CASE Cardinality(S) > HistoryPage
    <2>1. S # {}
      BY <1>2, FS_EmptySet
    <2>2. S \subseteq 0 .. HistoryLen
      BY <1>1
    <2>3. PICK x \in S : \A y \in S : y <= x
      BY <2>1, <2>2, MaxExists
    <2>4. {y \in S : y > x} = {}
      BY <2>2, <2>3
    <2>5. Cardinality({y \in S : y > x}) < HistoryPage
      BY <2>4, FS_EmptySet
    <2>6. rows # {} /\ rows \subseteq Nat
      <3>1. x \in rows
        BY <2>3, <2>5, Zenon DEF Newest
      <3>2. 1 .. HistoryLen \subseteq Nat
        OBVIOUS
      <3> QED
        BY <1>1, <3>1, <3>2
    <2>7. \E z \in rows : \A y \in rows : z <= y
      BY <2>6, MinExists
    <2>8. (CHOOSE z \in rows : \A y \in rows : z <= y) \in rows
      BY <2>7
    <2> QED
      BY <1>1, <1>2, <2>8 DEF HistoryAnswer, AnswerSet
  <1>3. CASE ~(Cardinality(S) > HistoryPage)
    BY <1>1, <1>3 DEF HistoryAnswer, AnswerSet
  <1> QED
    BY <1>2, <1>3

HistSet ==
  [open : BOOLEAN, filter : FilterSet, valid : BOOLEAN,
   before : 0 .. HistoryLen, next : 0 .. HistoryLen,
   previous : Seq(0 .. HistoryLen), rows : SUBSET (1 .. HistoryLen),
   loading : BOOLEAN, error : BOOLEAN, id : Nat]

QueryMsgs == [id : Nat, query : QuerySet, state : {"sent", "ok", "failed"}]

HistoryType ==
  /\ hist \in HistSet
  /\ queries \subseteq QueryMsgs

(* A query under way that still counts is the one for the page that is set *)
(* and is being loaded, and there is no other like it.                     *)
QueryInv ==
  /\ \A m \in queries : 1 <= m.id /\ m.id <= hist.id
  /\ \A m \in queries : m.id = hist.id => m.query = Query(hist) /\ hist.loading
  /\ \A m, n \in queries : m.id = n.id => m = n
  /\ hist.error => hist.next = 0 /\ ~hist.loading

HistoryInv == HistoryType /\ QueryInv /\ HistoryConsistent

LEMMA QueryType ==
  ASSUME HistoryType
  PROVE  Query(hist) \in QuerySet
  BY DEF HistoryType, HistSet, Query, QuerySet, FilterSet

(* The query of an earlier page of the same filters.                       *)
LEMMA QueryBefore ==
  ASSUME NEW b
  PROVE  [Query(hist) EXCEPT !.before = b] =
           [kind |-> hist.filter.kind, inside |-> hist.filter.inside, before |-> b]
  BY DEF Query

LEMMA HistoryStart == HistoryInit => HistoryInv
  <1> SUFFICES ASSUME HistoryInit PROVE HistoryInv
    OBVIOUS
  <1>1. HistoryType
    <2>1. AnyRecord \in FilterSet
      BY DEF AnyRecord, FilterSet
    <2>2. 0 \in 0 .. HistoryLen /\ << >> \in Seq(0 .. HistoryLen)
      OBVIOUS
    <2> QED
      BY <2>1, <2>2 DEF HistoryInit, HistoryType, HistSet
  <1>2. QueryInv /\ ShownPage
    BY DEF HistoryInit, QueryInv, ShownPage
  <1>3. Cursors = <<0>>
    BY DEF HistoryInit, Cursors
  <1>4. CursorChain
    BY <1>3 DEF CursorChain
  <1> QED
    BY <1>1, <1>2, <1>4 DEF HistoryInv, HistoryConsistent

(* loadProbeHistory, called with the page to be loaded: it counts on the   *)
(* cursors only.                                                           *)
LEMMA LoadStep ==
  ASSUME HistoryInv, NEW h \in HistSet, h.id = hist.id, Load(h), CursorChain'
  PROVE  HistoryInv'
  <1>1. /\ hist' = [h EXCEPT !.id = @ + 1, !.rows = {}, !.error = ~h.valid, !.loading = h.valid,
                            !.next = IF h.valid THEN @ ELSE 0]
        /\ queries' = IF hist'.valid
                        THEN queries \cup {[id |-> hist'.id, query |-> Query(hist'), state |-> "sent"]}
                        ELSE queries
    BY DEF Load
  <1>2. /\ hist' \in HistSet
        /\ hist'.id = hist.id + 1
        /\ hist'.error = ~h.valid /\ hist'.loading = h.valid /\ hist'.valid = h.valid
        /\ ~h.valid => hist'.next = 0
    <2>1. (~h.valid) \in BOOLEAN /\ h.valid \in BOOLEAN
      BY Zenon DEF HistSet
    <2>2. (IF h.valid THEN h.next ELSE 0) \in 0 .. HistoryLen /\ h.id + 1 \in Nat
      BY DEF HistSet
    <2> QED
      BY <1>1, <2>1, <2>2 DEF HistSet
  <1>3. /\ hist.id \in Nat
        /\ \A m \in queries : m.id \in Nat /\ m.id <= hist.id /\ 1 <= m.id
    <2>1. \A m \in queries : 1 <= m.id /\ m.id <= hist.id
      BY DEF HistoryInv, QueryInv
    <2>2. hist.id \in Nat /\ \A m \in queries : m.id \in Nat
      BY DEF HistoryInv, HistoryType, HistSet, QueryMsgs
    <2> QED
      BY <2>1, <2>2
  <1>4. Query(hist') \in QuerySet
    BY <1>2 DEF HistSet, Query, QuerySet, FilterSet
  <1> DEFINE new == [id |-> hist'.id, query |-> Query(hist'), state |-> "sent"]
  <1>5. \A m \in queries' : m \in queries \/ (h.valid /\ m = new)
    BY <1>1, <1>2
  <1>6. new \in QueryMsgs /\ new.id = hist.id + 1 /\ new.query = Query(hist')
    BY <1>2, <1>3, <1>4 DEF QueryMsgs
  <1> HIDE DEF new
  <1>7. HistoryType'
    BY <1>2, <1>5, <1>6 DEF HistoryInv, HistoryType
  <1>8. QueryInv'
    <2>1. \A m \in queries' : /\ 1 <= m.id /\ m.id <= hist'.id
                              /\ m.id = hist'.id => m = new /\ h.valid
      BY <1>2, <1>3, <1>5, <1>6
    <2>2. \A m, n \in queries' : m.id = n.id => m = n
      BY <1>2, <1>3, <1>5, <1>6 DEF HistoryInv, QueryInv
    <2> QED
      BY <1>2, <1>6, <2>1, <2>2 DEF QueryInv
  <1>9. ShownPage'
    BY <1>2 DEF ShownPage
  <1> QED
    BY <1>7, <1>8, <1>9 DEF HistoryInv, HistoryConsistent

(* The chain of cursors depends on the filters and the cursors alone.      *)
LEMMA ChainKept ==
  ASSUME CursorChain, hist'.filter = hist.filter, Cursors' = Cursors
  PROVE  CursorChain'
  <1>1. \A b : [Query(hist) EXCEPT !.before = b]' = [Query(hist) EXCEPT !.before = b]
    BY DEF Query
  <1> QED
    BY <1>1 DEF CursorChain

LEMMA ChainBegins ==
  ASSUME hist'.previous = << >>, hist'.before = 0
  PROVE  CursorChain'
  <1>1. Cursors' = <<0>>
    BY DEF Cursors
  <1> QED
    BY <1>1 DEF CursorChain

LEMMA ResetStep ==
  ASSUME HistoryInv, NEW h \in HistSet, h.id = hist.id, Reset(h)
  PROVE  HistoryInv'
  <1> DEFINE g == [h EXCEPT !.previous = << >>, !.before = 0, !.next = 0]
  <1>1. Load(g)
    BY DEF Reset
  <1>2. g \in HistSet /\ g.id = hist.id /\ g.previous = << >> /\ g.before = 0
    <2>1. 0 \in 0 .. HistoryLen /\ << >> \in Seq(0 .. HistoryLen)
      OBVIOUS
    <2> QED
      BY <2>1 DEF HistSet
  <1> HIDE DEF g
  <1>3. hist'.previous = << >> /\ hist'.before = 0
    BY <1>1, <1>2 DEF Load, HistSet
  <1> QED
    BY <1>1, <1>2, <1>3, ChainBegins, LoadStep

LEMMA FilterStep ==
  ASSUME HistoryInv, NEW f \in FilterSet, NEW v \in BOOLEAN,
         OpenHistory \/ RefreshHistory \/ ChangeFilter(f, v)
  PROVE  HistoryInv'
  <1>1. hist \in HistSet /\ AnyRecord \in FilterSet
    BY DEF HistoryInv, HistoryType, AnyRecord, FilterSet
  <1>2. CASE OpenHistory
    <2> DEFINE h == [hist EXCEPT !.open = TRUE, !.filter = AnyRecord, !.valid = TRUE]
    <2>1. h \in HistSet /\ h.id = hist.id
      BY <1>1 DEF HistSet
    <2> QED
      BY <1>2, <2>1, ResetStep DEF OpenHistory
  <1>3. CASE RefreshHistory
    BY <1>1, <1>3, ResetStep DEF RefreshHistory
  <1>4. CASE ChangeFilter(f, v)
    <2> DEFINE h == [hist EXCEPT !.filter = f, !.valid = v]
    <2>1. h \in HistSet /\ h.id = hist.id
      BY <1>1 DEF HistSet
    <2> QED
      BY <1>4, <2>1, ResetStep DEF ChangeFilter
  <1> QED
    BY <1>2, <1>3, <1>4

LEMMA RetryStep ==
  ASSUME HistoryInv, RetryHistory
  PROVE  HistoryInv'
  <1>1. hist \in HistSet
    BY DEF HistoryInv, HistoryType
  <1>2. hist'.filter = hist.filter /\ hist'.previous = hist.previous /\ hist'.before = hist.before
    BY <1>1 DEF RetryHistory, Load, HistSet
  <1>3. CursorChain'
    BY <1>2, ChainKept DEF Cursors, HistoryInv, HistoryConsistent
  <1> QED
    BY <1>1, <1>3, LoadStep DEF RetryHistory

LEMMA NextPageStep ==
  ASSUME HistoryInv, NextPage
  PROVE  HistoryInv'
  <1> DEFINE h == [hist EXCEPT !.previous = Append(@, hist.before), !.before = hist.next]
  <1>1. hist \in HistSet
    BY DEF HistoryInv, HistoryType
  <1>2. /\ h \in HistSet /\ h.id = hist.id
        /\ h.filter = hist.filter /\ h.previous = Cursors /\ h.before = hist.next
    <2>1. Append(hist.previous, hist.before) \in Seq(0 .. HistoryLen) /\ hist.next \in 0 .. HistoryLen
      BY <1>1 DEF HistSet
    <2> QED
      BY <1>1, <2>1 DEF HistSet, Cursors
  <1>3. Load(h)
    BY DEF NextPage
  <1> HIDE DEF h
  <1>4. hist'.filter = hist.filter /\ hist'.previous = Cursors /\ hist'.before = hist.next
    BY <1>2, <1>3 DEF Load, HistSet
  <1>5. Cursors \in Seq(0 .. HistoryLen) /\ Len(Cursors) >= 1 /\ Cursors[Len(Cursors)] = hist.before
    BY <1>1 DEF Cursors, HistSet
  <1>6. hist.next # 0 /\ hist.next = HistoryAnswer(Query(hist)).next
    BY DEF NextPage, HistoryInv, QueryInv, HistoryConsistent, ShownPage
  <1>7. \A b : [Query(hist) EXCEPT !.before = b]' = [Query(hist) EXCEPT !.before = b]
    BY <1>4 DEF Query
  <1>8. [Query(hist) EXCEPT !.before = hist.before] = Query(hist)
    BY DEF Query
  <1>9. /\ Len(Cursors') = Len(Cursors) + 1
        /\ Cursors'[Len(Cursors) + 1] = hist.next
        /\ \A k \in 1 .. Len(Cursors) : Cursors'[k] = Cursors[k]
    <2>1. Cursors' = Append(Cursors, hist.next) /\ hist.next \in 0 .. HistoryLen
      BY <1>1, <1>4 DEF Cursors, HistSet
    <2> QED
      BY <1>5, <2>1
  <1>10. CursorChain'
    <2> SUFFICES ASSUME NEW k \in 1 .. Len(Cursors')
                 PROVE  IF k = 1 THEN Cursors'[k] = 0
                        ELSE LET q == [Query(hist) EXCEPT !.before = Cursors[k - 1]]'
                             IN Cursors'[k] # 0 /\ Cursors'[k] = HistoryAnswer(q).next
      BY DEF CursorChain
    <2>1. Len(Cursors) \in Nat
      BY <1>5
    <2>2. CASE k \in 1 .. Len(Cursors)
      <3>1. k = 1 \/ k - 1 \in 1 .. Len(Cursors)
        BY <2>1, <2>2
      <3> QED
        BY <1>7, <1>9, <2>2, <3>1 DEF HistoryInv, HistoryConsistent, CursorChain
    <2>3. CASE k = Len(Cursors) + 1
      <3>1. k # 1 /\ k - 1 = Len(Cursors) /\ Cursors'[k - 1] = hist.before
        BY <1>5, <1>9, <2>1, <2>3
      <3> QED
        BY <1>6, <1>7, <1>8, <1>9, <2>3, <3>1
    <2> QED
      BY <1>9, <2>1, <2>2, <2>3
  <1> QED
    BY <1>2, <1>3, <1>10, LoadStep

LEMMA PreviousPageStep ==
  ASSUME HistoryInv, PreviousPage
  PROVE  HistoryInv'
  <1> DEFINE p == hist.previous
             h == [hist EXCEPT !.before = p[Len(p)], !.previous = SubSeq(@, 1, Len(@) - 1)]
  <1>1. hist \in HistSet /\ p # << >> /\ p \in Seq(0 .. HistoryLen)
    BY DEF HistoryInv, HistoryType, PreviousPage, HistSet
  <1>2. /\ SubSeq(p, 1, Len(p) - 1) \in Seq(0 .. HistoryLen)
        /\ p[Len(p)] \in 0 .. HistoryLen
        /\ Append(SubSeq(p, 1, Len(p) - 1), p[Len(p)]) = p
        /\ Len(p) >= 1
    <2> DEFINE q == SubSeq(p, 1, Len(p) - 1)
    <2> HIDE DEF p
    <2>1. Len(p) \in Nat /\ Len(p) >= 1
      BY <1>1
    <2>2. p[Len(p)] \in 0 .. HistoryLen
      BY <1>1, <2>1
    <2>3. q \in Seq(0 .. HistoryLen)
      BY <1>1, <2>1
    <2>4. Append(q, p[Len(p)]) = p
      BY <1>1, <2>1
    <2> QED
      BY <2>1, <2>2, <2>3, <2>4
  <1>3. /\ h \in HistSet /\ h.id = hist.id /\ h.filter = hist.filter
        /\ h.previous = SubSeq(p, 1, Len(p) - 1) /\ h.before = p[Len(p)]
    BY <1>1, <1>2 DEF HistSet
  <1>4. Load(h)
    BY DEF PreviousPage
  <1> HIDE DEF h
  <1>5. hist'.filter = hist.filter /\ hist'.previous = SubSeq(p, 1, Len(p) - 1) /\ hist'.before = p[Len(p)]
    BY <1>3, <1>4 DEF Load, HistSet
  <1>6. Cursors' = p
    BY <1>2, <1>5 DEF Cursors
  <1>7. /\ Len(Cursors) = Len(p) + 1
        /\ \A k \in 1 .. Len(p) : Cursors[k] = p[k]
    BY <1>1 DEF Cursors, HistSet
  <1>8. \A b : [Query(hist) EXCEPT !.before = b]' = [Query(hist) EXCEPT !.before = b]
    BY <1>5 DEF Query
  <1>9. CursorChain'
    <2> SUFFICES ASSUME NEW k \in 1 .. Len(p)
                 PROVE  IF k = 1 THEN p[k] = 0
                        ELSE LET q == [Query(hist) EXCEPT !.before = p[k - 1]]
                             IN p[k] # 0 /\ p[k] = HistoryAnswer(q).next
      BY <1>6, <1>8 DEF CursorChain
    <2>1. Len(p) \in Nat /\ k \in 1 .. Len(Cursors) /\ (k = 1 \/ k - 1 \in 1 .. Len(p))
      BY <1>1, <1>7
    <2> QED
      BY <1>7, <2>1 DEF HistoryInv, HistoryConsistent, CursorChain
  <1> QED
    BY <1>3, <1>4, <1>9, LoadStep

LEMMA CloseHistoryStep ==
  ASSUME HistoryInv, CloseHistory
  PROVE  HistoryInv'
  <1>1. hist \in HistSet /\ hist.id \in Nat
    BY DEF HistoryInv, HistoryType, HistSet
  <1>2. /\ hist' \in HistSet /\ hist'.id = hist.id + 1 /\ ~hist'.open /\ ~hist'.loading /\ UNCHANGED queries
        /\ hist'.filter = hist.filter /\ hist'.previous = hist.previous /\ hist'.before = hist.before
        /\ hist'.error = hist.error /\ hist'.next = hist.next
    <2>1. hist' = [hist EXCEPT !.open = FALSE, !.id = @ + 1, !.loading = FALSE]
      BY DEF CloseHistory
    <2>2. FALSE \in BOOLEAN /\ hist.id + 1 \in Nat
      BY <1>1
    <2>3. hist' \in HistSet /\ hist'.id = hist.id + 1
      BY <1>1, <2>1, <2>2 DEF HistSet
    <2>4. hist'.open = FALSE /\ hist'.loading = FALSE
      BY <1>1, <2>1 DEF HistSet
    <2>5. /\ hist'.filter = hist.filter /\ hist'.previous = hist.previous /\ hist'.before = hist.before
          /\ hist'.error = hist.error /\ hist'.next = hist.next
      BY <1>1, <2>1 DEF HistSet
    <2> QED
      BY <2>3, <2>4, <2>5 DEF CloseHistory
  <1>3. CursorChain' /\ ShownPage'
    BY <1>2, ChainKept DEF Cursors, ShownPage, HistoryInv, HistoryConsistent
  <1>4. QueryInv'
    <2>1. \A m \in queries : m.id \in Nat /\ 1 <= m.id /\ m.id <= hist.id
      BY DEF HistoryInv, HistoryType, QueryInv, QueryMsgs
    <2>2. \A m \in queries : m.id <= hist.id + 1 /\ m.id # hist.id + 1
      BY <1>1, <2>1
    <2> QED
      BY <1>2, <2>1, <2>2 DEF HistoryInv, QueryInv
  <1> QED
    BY <1>2, <1>3, <1>4 DEF HistoryInv, HistoryType, HistoryConsistent

LEMMA ServeHistoryStep ==
  ASSUME HistoryInv, NEW m \in queries, NEW r \in {"ok", "failed"}, ServeHistory(m, r)
  PROVE  HistoryInv'
  <1> DEFINE w == [m EXCEPT !.state = r]
  <1>1. m \in QueryMsgs
    BY DEF HistoryInv, HistoryType
  <1>2. w \in QueryMsgs /\ w.id = m.id /\ w.query = m.query
    BY <1>1 DEF QueryMsgs
  <1>3. queries' = (queries \ {m}) \cup {w} /\ UNCHANGED hist
    BY DEF ServeHistory
  <1> HIDE DEF w
  <1>4. HistoryType'
    BY <1>2, <1>3 DEF HistoryInv, HistoryType
  <1>5. QueryInv'
    BY <1>2, <1>3 DEF HistoryInv, QueryInv
  <1>6. HistoryConsistent'
    BY <1>3, ChainKept DEF HistoryInv, HistoryConsistent, ShownPage, Cursors
  <1> QED
    BY <1>4, <1>5, <1>6 DEF HistoryInv

LEMMA HistoryArrivesStep ==
  ASSUME HistoryInv, NEW m \in queries, HistoryArrives(m)
  PROVE  HistoryInv'
  <1>1. hist \in HistSet /\ m \in QueryMsgs /\ queries' = queries \ {m}
    BY DEF HistoryInv, HistoryType, HistoryArrives
  <1>2. CASE UNCHANGED hist
    <2>1. HistoryType' /\ QueryInv'
      BY <1>1, <1>2 DEF HistoryInv, HistoryType, QueryInv
    <2>2. HistoryConsistent'
      BY <1>2, ChainKept DEF HistoryInv, HistoryConsistent, ShownPage, Cursors
    <2> QED
      BY <2>1, <2>2 DEF HistoryInv
  <1>3. CASE Current(m) /\ hist' # hist
    <2>1. m.id = hist.id /\ m.query = Query(hist) /\ \A n \in queries' : n.id # hist.id
      BY <1>1, <1>3 DEF Current, HistoryInv, QueryInv
    <2> DEFINE a == HistoryAnswer(Query(hist))
    <2>2. a \in AnswerSet
      BY AnswerType
    <2>3. \/ hist' = [hist EXCEPT !.rows = a.rows, !.next = a.next, !.loading = FALSE]
          \/ hist' = [hist EXCEPT !.error = TRUE, !.next = 0, !.loading = FALSE]
      BY <1>3, <2>1 DEF HistoryArrives
    <2> HIDE DEF a
    <2>4. /\ hist' \in HistSet /\ hist'.id = hist.id
          /\ hist'.filter = hist.filter /\ hist'.previous = hist.previous /\ hist'.before = hist.before
      <3>1. a.rows \in SUBSET (1 .. HistoryLen) /\ a.next \in 0 .. HistoryLen /\ 0 \in 0 .. HistoryLen
        BY <2>2 DEF AnswerSet
      <3> QED
        BY <1>1, <2>3, <3>1 DEF HistSet
    <2>5. Query(hist') = Query(hist)
      BY <2>4 DEF Query
    <2>6. ~hist'.loading
      BY <1>1, <2>3 DEF HistSet
    <2>7. ShownPage' /\ (hist'.error => hist'.next = 0)
      <3>1. CASE hist' = [hist EXCEPT !.error = TRUE, !.next = 0, !.loading = FALSE]
        BY <1>1, <3>1 DEF HistSet, ShownPage
      <3>2. CASE hist' = [hist EXCEPT !.rows = a.rows, !.next = a.next, !.loading = FALSE]
        <4>1. hist'.rows = a.rows /\ hist'.next = a.next /\ hist'.error = hist.error
          BY <1>1, <3>2 DEF HistSet
        <4>2. ~hist.error
          BY <2>1 DEF HistoryInv, QueryInv
        <4> QED
          BY <2>5, <4>1, <4>2 DEF ShownPage, a
      <3> QED
        BY <2>3, <3>1, <3>2
    <2>8. QueryInv'
      BY <1>1, <2>1, <2>4, <2>6, <2>7 DEF HistoryInv, QueryInv
    <2>9. CursorChain'
      BY <2>4, ChainKept DEF Cursors, HistoryInv, HistoryConsistent
    <2> QED
      BY <1>1, <2>4, <2>7, <2>8, <2>9 DEF HistoryInv, HistoryType, HistoryConsistent
  <1> QED
    BY <1>2, <1>3 DEF HistoryArrives

LEMMA FilterTypes == {AnyRecord, Routes, Outside} \subseteq FilterSet
  <1>1. AnyRecord \in FilterSet
    BY DEF AnyRecord, FilterSet
  <1>2. \A f \in FilterSet : /\ [f EXCEPT !.kind = "route"] \in FilterSet
                            /\ [f EXCEPT !.inside = FALSE] \in FilterSet
    BY DEF FilterSet
  <1> QED
    BY <1>1, <1>2 DEF Routes, Outside

LEMMA HistoryNextStep ==
  ASSUME HistoryInv, HistoryNext
  PROVE  HistoryInv'
  <1>1. {AnyRecord, Routes, Outside} \subseteq FilterSet
    BY FilterTypes
  <1>2. CASE HistoryUser
    BY <1>1, <1>2, FilterStep, RetryStep, NextPageStep, PreviousPageStep DEF HistoryUser
  <1> QED
    BY <1>2, CloseHistoryStep, HistoryArrivesStep, ServeHistoryStep DEF HistoryNext

LEMMA HistoryKept ==
  ASSUME HistoryInv, UNCHANGED historyVars
  PROVE  HistoryInv'
  <1>1. HistoryType' /\ QueryInv'
    BY DEF historyVars, HistoryInv, HistoryType, QueryInv
  <1>2. HistoryConsistent'
    BY ChainKept DEF historyVars, HistoryInv, HistoryConsistent, ShownPage, Cursors
  <1> QED
    BY <1>1, <1>2 DEF HistoryInv
-----------------------------------------------------------------------------
(* The list pages: types.                                                  *)
Kinds == {"tunnel", "route_output", "route_input", "service"}
Uuids == Touched \cup {"a", "b", "c", "output", "input", "priority", "legacy", "s0", "s1", "s2", "s3"}
RowLists == UNION {[D -> RowSet] : D \in SUBSET Uuids}
Changes == {"set_disabled", "edit", "create", "delete"}

CompSet ==
  [kind : Kinds, rows : RowLists, gen : Nat, req : Nat, err : BOOLEAN,
   busy : SUBSET Touched, saving : BOOLEAN, timer : BOOLEAN,
   enabled : BOOLEAN, session : Nat, pending : BOOLEAN, ptimer : BOOLEAN]

MsgSet ==
  [op : Changes \cup {"list", "probe"}, from : Nat, req : Nat, row : Uuids \cup {NoUuid},
   disabled : BOOLEAN, then : {"none", "busy", "save", "probe"},
   state : {"sent", "ok", "failed"}, rows : RowLists]

ListType ==
  /\ records \in [Kinds -> RowLists]
  /\ ui \in Seq(CompSet) /\ ui # << >>
  /\ net \subseteq MsgSet
  /\ \A m \in net : m.from \in 1 .. Len(ui) /\ (m.op \in Changes => m.row \in Touched)
  /\ missed \in BOOLEAN

LEMMA RowsIntro ==
  ASSUME NEW D, D \subseteq Uuids, NEW r \in [D -> RowSet]
  PROVE  r \in RowLists
  BY DEF RowLists

LEMMA RowsElim ==
  ASSUME NEW r \in RowLists
  PROVE  DOMAIN r \subseteq Uuids /\ r \in [DOMAIN r -> RowSet]
  BY DEF RowLists

LEMMA RowType ==
  ASSUME NEW d \in BOOLEAN, NEW s \in {"running", "disabled", "failed", "init"}
  PROVE  Row(d, s) \in RowSet
  BY DEF Row, RowSet

LEMMA NoRowsType == NoRows \in RowLists
  <1>1. NoRows \in [{} -> RowSet]
    BY DEF NoRows
  <1> QED
    BY <1>1, RowsIntro

LEMMA StatusType ==
  ASSUME NEW d \in BOOLEAN
  PROVE  Row(d, StatusOf(d)) \in RowSet
  BY RowType DEF StatusOf

LEMMA HandlerTypes ==
  ASSUME NEW r \in RowLists, NEW u \in Uuids, NEW d \in BOOLEAN
  PROVE  /\ SetDisabled(r, u, d) \in RowLists
         /\ EditRow(r, u, d) \in RowLists
         /\ AddRow(r, u, d) \in RowLists
         /\ DeleteRow(r, u) \in RowLists
  <1>1. DOMAIN r \subseteq Uuids /\ r \in [DOMAIN r -> RowSet]
    BY RowsElim
  <1>2. SetDisabled(r, u, d) \in [DOMAIN r -> RowSet]
    BY <1>1, StatusType DEF SetDisabled
  <1>3. EditRow(r, u, d) \in [DOMAIN r -> RowSet]
    <2>1. \A x \in RowSet : [x EXCEPT !.disabled = d] \in RowSet
      BY DEF RowSet
    <2> QED
      BY <1>1, <2>1 DEF EditRow
  <1>4. AddRow(r, u, d) \in [DOMAIN r \cup {u} -> RowSet]
    BY <1>1, StatusType DEF AddRow
  <1>5. DeleteRow(r, u) \in [DOMAIN r \ {u} -> RowSet]
    BY <1>1 DEF DeleteRow
  <1> QED
    BY <1>1, <1>2, <1>3, <1>4, <1>5, RowsIntro

LEMMA NormalizeType ==
  ASSUME NEW k, NEW r \in RowLists
  PROVE  Normalize(k, r) \in RowLists
  <1>1. DOMAIN r \subseteq Uuids /\ r \in [DOMAIN r -> RowSet]
    BY RowsElim
  <1>2. Row(TRUE, "disabled") \in RowSet
    BY RowType
  <1>3. Normalize(k, r) \in [DOMAIN r -> RowSet]
    BY <1>1, <1>2 DEF Normalize
  <1> QED
    BY <1>1, <1>3, RowsIntro

LEMMA RecordsType == Records \in [Kinds -> RowLists]
  <1>1. Row(FALSE, "running") \in RowSet /\ Row(TRUE, "disabled") \in RowSet /\ Row(FALSE, "failed") \in RowSet
    BY RowType
  <1>2. \A x, y, z \in RowSet : [a |-> x, b |-> y, c |-> z] \in [{"a", "b", "c"} -> RowSet]
    OBVIOUS
  <1>3. \A x \in RowSet : [output |-> x] \in [{"output"} -> RowSet]
    OBVIOUS
  <1>4. /\ [u \in {"input", "priority", "legacy"} |-> RouteFixture] \in [{"input", "priority", "legacy"} -> RowSet]
        /\ [u \in {"s0", "s1", "s2", "s3"} |-> Row(FALSE, "running")] \in [{"s0", "s1", "s2", "s3"} -> RowSet]
    BY <1>1 DEF RouteFixture
  <1>5. /\ Tunnels \in [{"a", "b", "c"} -> RowSet]
        /\ [output |-> RouteFixture] \in [{"output"} -> RowSet]
    BY <1>1, <1>2, <1>3 DEF Tunnels, RouteFixture
  <1>6. /\ Tunnels \in RowLists
        /\ [output |-> RouteFixture] \in RowLists
        /\ [u \in {"input", "priority", "legacy"} |-> RouteFixture] \in RowLists
        /\ [u \in {"s0", "s1", "s2", "s3"} |-> Row(FALSE, "running")] \in RowLists
    BY <1>4, <1>5, RowsIntro DEF Uuids
  <1>7. \A x, y, z, w \in RowLists :
          [tunnel |-> x, route_output |-> y, route_input |-> z, service |-> w] \in [Kinds -> RowLists]
    BY DEF Kinds
  <1> QED
    BY <1>6, <1>7 DEF Records
-----------------------------------------------------------------------------
(* The list pages: how a component changes.                                *)
LEMMA ComponentType ==
  ASSUME NEW k \in Kinds
  PROVE  Component(k) \in CompSet
  <1>1. (k = "tunnel") \in BOOLEAN
    OBVIOUS
  <1> QED
    BY <1>1, NoRowsType DEF Component, CompSet

LEMMA MsgType ==
  ASSUME NEW op \in Changes \cup {"list", "probe"}, NEW i \in Nat, NEW req \in Nat,
         NEW row \in Uuids \cup {NoUuid}, NEW disabled \in BOOLEAN,
         NEW then \in {"none", "busy", "save", "probe"}
  PROVE  Msg(op, i, req, row, disabled, then) \in MsgSet
  BY NoRowsType DEF Msg, MsgSet

LEMMA ReplyType ==
  ASSUME NEW m \in MsgSet, NEW st \in {"sent", "ok", "failed"}, NEW r \in RowLists
  PROVE  [m EXCEPT !.state = st, !.rows = r] \in MsgSet
  BY DEF MsgSet

LEMMA Put ==
  ASSUME ui \in Seq(CompSet), NEW i \in 1 .. Len(ui), NEW d \in CompSet,
         ui' = [ui EXCEPT ![i] = d]
  PROVE  /\ ui' \in Seq(CompSet) /\ Len(ui') = Len(ui)
         /\ ui'[i] = d
         /\ \A j \in 1 .. Len(ui) : j # i => ui'[j] = ui[j]
  OBVIOUS

LEMMA FinallyView ==
  ASSUME NEW m \in MsgSet, NEW d \in CompSet
  PROVE  LET f == Finally(m, d) IN
         /\ f \in CompSet
         /\ f.kind = d.kind /\ f.rows = d.rows /\ f.gen = d.gen /\ f.req = d.req
         /\ f.err = d.err /\ f.timer = d.timer
  <1>1. CASE m.then = "busy"
    BY <1>1 DEF Finally, CompSet
  <1>2. CASE m.then = "save"
    BY <1>2 DEF Finally, CompSet
  <1>3. CASE m.then = "probe" /\ m.req = d.session
    BY <1>3 DEF Finally, CompSet
  <1>4. CASE m.then \notin {"busy", "save"} /\ ~(m.then = "probe" /\ m.req = d.session)
    <2>1. Finally(m, d) = d
      BY <1>4 DEF Finally
    <2> QED
      BY <1>4, <2>1
  <1> QED
    BY <1>1, <1>2, <1>3, <1>4

LEMMA FinallyWaits ==
  ASSUME NEW m \in MsgSet, NEW d \in CompSet
  PROVE  LET f == Finally(m, d) IN
         /\ f.session = d.session
         /\ f.busy = IF m.then = "busy" THEN d.busy \ {m.row} ELSE d.busy
         /\ (f.saving <=> m.then # "save" /\ d.saving)
         /\ (f.pending <=> ~(m.then = "probe" /\ m.req = d.session) /\ d.pending)
  <1>1. CASE m.then = "busy"
    BY <1>1 DEF Finally, CompSet
  <1>2. CASE m.then = "save"
    BY <1>2 DEF Finally, CompSet
  <1>3. CASE m.then = "probe" /\ m.req = d.session
    BY <1>3 DEF Finally, CompSet
  <1>4. CASE m.then \notin {"busy", "save"} /\ ~(m.then = "probe" /\ m.req = d.session)
    <2>1. Finally(m, d) = d
      BY <1>4 DEF Finally
    <2> QED
      BY <1>4, <2>1
  <1> QED
    BY <1>1, <1>2, <1>3, <1>4

LEMMA StopFields ==
  ASSUME NEW d \in CompSet
  PROVE  LET f == StopProbeLoop(d) IN
         /\ f \in CompSet
         /\ f.kind = d.kind /\ f.rows = d.rows /\ f.gen = d.gen /\ f.req = d.req
         /\ f.err = d.err /\ f.timer = d.timer /\ f.busy = d.busy /\ f.saving = d.saving
         /\ f.session = d.session + 1 /\ f.pending = FALSE
  <1>1. d.session + 1 \in Nat
    BY DEF CompSet
  <1>2. \A n \in Nat : [d EXCEPT !.session = n, !.enabled = FALSE, !.ptimer = FALSE, !.pending = FALSE] \in CompSet
    BY DEF CompSet
  <1>3. StopProbeLoop(d) =
          [d EXCEPT !.session = d.session + 1, !.enabled = FALSE, !.ptimer = FALSE, !.pending = FALSE]
    BY DEF StopProbeLoop
  <1>4. StopProbeLoop(d) \in CompSet
    BY <1>1, <1>2, <1>3
  <1> QED
    BY <1>3, <1>4 DEF CompSet

LEMMA DestroyedFields ==
  ASSUME NEW d \in CompSet
  PROVE  LET f == Destroyed(d) IN
         /\ f \in CompSet
         /\ f.kind = d.kind /\ f.gen = d.gen /\ f.req = d.req + 1
         /\ f.busy = d.busy /\ f.saving = d.saving
         /\ f.session = d.session + 1 /\ f.pending = FALSE
  <1> DEFINE e == StopProbeLoop(d)
  <1>1. /\ e \in CompSet
        /\ e.kind = d.kind /\ e.gen = d.gen /\ e.req = d.req /\ e.busy = d.busy
        /\ e.saving = d.saving /\ e.session = d.session + 1 /\ e.pending = FALSE
    BY StopFields
  <1> HIDE DEF e
  <1>2. e.req + 1 \in Nat
    BY <1>1 DEF CompSet
  <1>3. \A n \in Nat : [e EXCEPT !.req = n, !.timer = FALSE] \in CompSet
    BY <1>1 DEF CompSet
  <1>4. Destroyed(d) = [e EXCEPT !.req = e.req + 1, !.timer = FALSE]
    BY DEF Destroyed, e
  <1>5. Destroyed(d) \in CompSet
    BY <1>2, <1>3, <1>4
  <1> QED
    BY <1>1, <1>4, <1>5 DEF CompSet

LEMMA LoadFields ==
  ASSUME NEW d \in CompSet
  PROVE  LET f == [d EXCEPT !.req = @ + 1, !.err = FALSE] IN
         /\ f \in CompSet
         /\ f.kind = d.kind /\ f.gen = d.gen /\ f.req = d.req + 1
         /\ f.busy = d.busy /\ f.saving = d.saving
         /\ f.session = d.session /\ f.pending = d.pending
  <1>1. d.req + 1 \in Nat
    BY DEF CompSet
  <1>2. \A n \in Nat : [d EXCEPT !.req = n, !.err = FALSE] \in CompSet
    BY DEF CompSet
  <1>3. [d EXCEPT !.req = @ + 1, !.err = FALSE] = [d EXCEPT !.req = d.req + 1, !.err = FALSE]
    OBVIOUS
  <1>4. [d EXCEPT !.req = @ + 1, !.err = FALSE] \in CompSet
    BY <1>1, <1>2, <1>3
  <1> QED
    BY <1>4 DEF CompSet

LEMMA InPlaceFields ==
  ASSUME NEW d \in CompSet, NEW m \in MsgSet
  PROVE  LET f == InPlace(m, d) IN
         /\ f \in CompSet
         /\ f.kind = d.kind /\ f.gen = d.gen /\ f.req = d.req
         /\ f.err = d.err /\ f.busy = d.busy /\ f.saving = d.saving
         /\ f.session = d.session /\ f.pending = d.pending
  <1>1. \A r \in RowLists : \A x \in RowSet : [r EXCEPT ![m.row] = x] \in RowLists
    <2> TAKE r \in RowLists
    <2> TAKE x \in RowSet
    <2>1. DOMAIN r \subseteq Uuids /\ r \in [DOMAIN r -> RowSet]
      BY RowsElim
    <2>2. [r EXCEPT ![m.row] = x] \in [DOMAIN r -> RowSet]
      BY <2>1
    <2> QED
      BY <2>1, <2>2, RowsIntro
  <1> DEFINE x == Row(m.disabled, IF m.disabled THEN "disabled" ELSE "init")
  <1>2. x \in RowSet
    <2>1. m.disabled \in BOOLEAN
      BY DEF MsgSet
    <2> QED
      BY <2>1, RowType
  <1>3. d.rows \in RowLists
    BY DEF CompSet
  <1>4. [d.rows EXCEPT ![m.row] = x] \in RowLists
    BY <1>1, <1>2, <1>3
  <1> HIDE DEF x
  <1>5. CASE m.op = "set_disabled" /\ m.req = d.gen
    <2> DEFINE y == [d.rows EXCEPT ![m.row] = x]
    <2>1. InPlace(m, d) = [d EXCEPT !.rows = y]
      BY <1>5 DEF InPlace, CompSet, x
    <2>2. y \in RowLists
      BY <1>4
    <2> HIDE DEF y
    <2> QED
      BY <2>1, <2>2 DEF CompSet
  <1>6. CASE ~(m.op = "set_disabled" /\ m.req = d.gen)
    BY <1>6 DEF InPlace
  <1> QED
    BY <1>5, <1>6
-----------------------------------------------------------------------------
(* The list pages: who waits for what.  A row that is busy, the form that  *)
(* is being saved and the probe of the running loop each have the one      *)
(* request that ends the wait, and no request waits for anything else.     *)
SameWait(m, n) ==
  /\ m.from = n.from /\ m.then = n.then /\ m.then # "none"
  /\ m.then = "busy" => m.row = n.row
  /\ m.then = "probe" => m.req = n.req

WaitInv ==
  /\ \A m \in net :
       /\ m.then = "busy" => m.row \in ui[m.from].busy
       /\ m.then = "save" => ui[m.from].saving
       /\ m.op = "probe" <=> m.then = "probe"
       /\ m.op = "probe" => m.req <= ui[m.from].session
       /\ m.op = "probe" /\ m.req = ui[m.from].session => ui[m.from].pending
  /\ \A i \in 1 .. Len(ui) :
       /\ \A u \in ui[i].busy : \E m \in net : m.from = i /\ m.then = "busy" /\ m.row = u
       /\ ui[i].saving => \E m \in net : m.from = i /\ m.then = "save"
       /\ ui[i].pending => \E m \in net : m.from = i /\ m.then = "probe" /\ m.req = ui[i].session
  /\ \A m, n \in net : SameWait(m, n) => m = n

SameWaits(d, e) ==
  d.busy = e.busy /\ (d.saving <=> e.saving) /\ d.session = e.session /\ (d.pending <=> e.pending)

(* The waits stay as they are: nothing is sent but what nobody waits for.  *)
LEMMA WaitKept ==
  ASSUME ListType, WaitInv, NEW N, net' = net \cup N,
         \A n \in N : n.then = "none" /\ n.op # "probe",
         Len(ui') = Len(ui), \A i \in 1 .. Len(ui) : SameWaits(ui'[i], ui[i])
  PROVE  WaitInv'
  <1>1. \A x, y \in net' : SameWait(x, y) => x = y
    BY DEF WaitInv, SameWait
  <1>2. \A x \in net' :
           /\ x.then = "busy" => x.row \in ui'[x.from].busy
           /\ x.then = "save" => ui'[x.from].saving
           /\ x.op = "probe" <=> x.then = "probe"
           /\ x.op = "probe" => x.req <= ui'[x.from].session
           /\ x.op = "probe" /\ x.req = ui'[x.from].session => ui'[x.from].pending
    BY DEF ListType, WaitInv, SameWaits
  <1>3. \A i \in 1 .. Len(ui) :
          /\ \A u \in ui'[i].busy : \E x \in net' : x.from = i /\ x.then = "busy" /\ x.row = u
          /\ ui'[i].saving => \E x \in net' : x.from = i /\ x.then = "save"
          /\ ui'[i].pending => \E x \in net' : x.from = i /\ x.then = "probe" /\ x.req = ui'[i].session
    BY DEF WaitInv, SameWaits
  <1> QED
    BY <1>1, <1>2, <1>3 DEF WaitInv

(* A request is answered, or ends in a request that goes on with the wait. *)
LEMMA WaitPassed ==
  ASSUME ListType, WaitInv, NEW m \in net, NEW n, net' = (net \ {m}) \cup {n},
         n.from = m.from, n.then = m.then, n.row = m.row,
         n.op = "probe" <=> m.op = "probe", m.op = "probe" => n.req = m.req,
         Len(ui') = Len(ui), \A i \in 1 .. Len(ui) : SameWaits(ui'[i], ui[i])
  PROVE  WaitInv'
  <1>1. \A x \in net' : x = n \/ (x \in net /\ x # m)
    OBVIOUS
  <1>2. \A x, y \in net' : SameWait(x, y) => x = y
    BY <1>1 DEF WaitInv, SameWait
  <1>3. \A x \in net' :
           /\ x.then = "busy" => x.row \in ui'[x.from].busy
           /\ x.then = "save" => ui'[x.from].saving
           /\ x.op = "probe" <=> x.then = "probe"
           /\ x.op = "probe" => x.req <= ui'[x.from].session
           /\ x.op = "probe" /\ x.req = ui'[x.from].session => ui'[x.from].pending
    BY <1>1 DEF ListType, WaitInv, SameWaits
  <1>4. \A i \in 1 .. Len(ui) :
          /\ \A u \in ui'[i].busy : \E x \in net' : x.from = i /\ x.then = "busy" /\ x.row = u
          /\ ui'[i].saving => \E x \in net' : x.from = i /\ x.then = "save"
          /\ ui'[i].pending => \E x \in net' : x.from = i /\ x.then = "probe" /\ x.req = ui'[i].session
    <2> TAKE i \in 1 .. Len(ui)
    <2>1. \A u \in ui'[i].busy : \E x \in net' : x.from = i /\ x.then = "busy" /\ x.row = u
      BY DEF WaitInv, SameWaits
    <2>2. ui'[i].saving => \E x \in net' : x.from = i /\ x.then = "save"
      BY DEF WaitInv, SameWaits
    <2>3. ui'[i].pending => \E x \in net' : x.from = i /\ x.then = "probe" /\ x.req = ui'[i].session
      BY DEF WaitInv, SameWaits
    <2> QED
      BY <2>1, <2>2, <2>3
  <1> QED
    BY <1>2, <1>3, <1>4 DEF WaitInv

(* A request ends, and with it the wait.                                   *)
LEMMA WaitEnds ==
  ASSUME ListType, WaitInv, NEW m \in net, net' = net \ {m},
         NEW d \in CompSet, SameWaits(d, ui[m.from]),
         ui' = [ui EXCEPT ![m.from] = Finally(m, d)]
  PROVE  WaitInv'
  <1> DEFINE i == m.from
             f == Finally(m, d)
  <1>1. /\ f \in CompSet /\ f.session = d.session
        /\ f.busy = IF m.then = "busy" THEN d.busy \ {m.row} ELSE d.busy
        /\ (f.saving <=> m.then # "save" /\ d.saving)
        /\ (f.pending <=> ~(m.then = "probe" /\ m.req = d.session) /\ d.pending)
    <2>1. m \in MsgSet
      BY DEF ListType
    <2> QED
      BY <2>1, FinallyView, FinallyWaits, Zenon
  <1> HIDE DEF f
  <1>2. /\ i \in 1 .. Len(ui) /\ Len(ui') = Len(ui)
        /\ ui'[i] = f
        /\ \A j \in 1 .. Len(ui) : j # i => ui'[j] = ui[j]
    BY <1>1, Put DEF ListType, f
  <1>3. \A x \in net' : x \in net /\ x # m /\ ~SameWait(x, m) /\ x.from \in 1 .. Len(ui)
    BY DEF WaitInv, ListType
  <1>4. \A x, y \in net' : SameWait(x, y) => x = y
    BY DEF WaitInv
  <1>5. \A x \in net' :
           /\ x.then = "busy" => x.row \in ui'[x.from].busy
           /\ x.then = "save" => ui'[x.from].saving
           /\ x.op = "probe" <=> x.then = "probe"
           /\ x.op = "probe" => x.req <= ui'[x.from].session
           /\ x.op = "probe" /\ x.req = ui'[x.from].session => ui'[x.from].pending
    <2> TAKE x \in net'
    <2>1. CASE x.from = i
      <3>1. x.then = "busy" => x.row \in ui'[i].busy
        BY <1>1, <1>2, <1>3, <2>1 DEF WaitInv, SameWait, SameWaits
      <3>2. x.then = "save" => ui'[i].saving
        BY <1>1, <1>2, <1>3, <2>1 DEF WaitInv, SameWait, SameWaits
      <3>3. x.op = "probe" <=> x.then = "probe"
        BY <1>3 DEF WaitInv
      <3>4. x.op = "probe" => x.req <= ui'[i].session
        BY <1>1, <1>2, <1>3, <2>1 DEF WaitInv, SameWaits
      <3>5. x.op = "probe" /\ x.req = ui'[i].session => ui'[i].pending
        BY <1>1, <1>2, <1>3, <2>1, <3>3 DEF WaitInv, SameWait, SameWaits
      <3> QED
        BY <2>1, <3>1, <3>2, <3>3, <3>4, <3>5
    <2>2. CASE x.from # i
      BY <1>2, <1>3, <2>2 DEF WaitInv
    <2> QED
      BY <2>1, <2>2
  <1>6. \A j \in 1 .. Len(ui) :
          /\ \A u \in ui'[j].busy : \E x \in net' : x.from = j /\ x.then = "busy" /\ x.row = u
          /\ ui'[j].saving => \E x \in net' : x.from = j /\ x.then = "save"
          /\ ui'[j].pending => \E x \in net' : x.from = j /\ x.then = "probe" /\ x.req = ui'[j].session
    <2> TAKE j \in 1 .. Len(ui)
    <2>1. CASE j = i
      <3>1. \A u \in ui'[j].busy : \E x \in net' : x.from = j /\ x.then = "busy" /\ x.row = u
        BY <1>1, <1>2, <2>1 DEF WaitInv, SameWaits
      <3>2. ui'[j].saving => \E x \in net' : x.from = j /\ x.then = "save"
        BY <1>1, <1>2, <2>1 DEF WaitInv, SameWaits
      <3>3. ui'[j].pending => \E x \in net' : x.from = j /\ x.then = "probe" /\ x.req = ui'[j].session
        BY <1>1, <1>2, <2>1 DEF WaitInv, SameWaits
      <3> QED
        BY <3>1, <3>2, <3>3
    <2>2. CASE j # i
      BY <1>2, <2>2 DEF WaitInv
    <2> QED
      BY <2>1, <2>2
  <1> QED
    BY <1>2, <1>4, <1>5, <1>6 DEF WaitInv
-----------------------------------------------------------------------------
(* The list pages: what the page on the screen will come to show.  While   *)
(* it does not show what the API has, its timer runs, the answer to a      *)
(* change is on its way to it, its latest list is, or the last one failed. *)
Answering == \E m \in net : m.from = Screen /\ m.op \in Changes /\ m.state = "ok"
Loading == \E m \in net : m.from = Screen /\ m.op = "list" /\ m.req = ui[Screen].req
Behind == ui[Screen].timer \/ missed \/ Answering
Stored == records[ui[Screen].kind]

CurrentInv ==
  /\ \A i \in 1 .. Len(ui) : ui[i].gen <= ui[i].req
  /\ \A m \in net : m.op = "list" => m.req <= ui[m.from].req
  /\ \/ ui[Screen].rows = Normalize(ui[Screen].kind, Stored)
     \/ Behind \/ ui[Screen].err \/ Loading
  /\ \A m \in net :
       m.op = "list" /\ m.from = Screen /\ m.req = ui[Screen].req /\ m.state = "ok" =>
         m.rows = Stored \/ Behind

SameView(d, e) ==
  /\ d.kind = e.kind /\ d.rows = e.rows /\ d.gen = e.gen /\ d.req = e.req
  /\ d.err = e.err /\ d.timer = e.timer

(* A list is asked for.                                                    *)
LEMMA CurrentLoads ==
  ASSUME ListType, CurrentInv, NEW i \in 1 .. Len(ui), NEW done \in SUBSET net, NEW n,
         \A m \in done : m.from = i,
         net' = (net \ done) \cup {n}, n.op = "list", n.from = i, n.state = "sent",
         n.req = ui[i].req + 1,
         Len(ui') = Len(ui), \A j \in 1 .. Len(ui) : j # i => ui'[j] = ui[j],
         ui'[i].req = n.req, ui'[i].gen = ui[i].gen, UNCHANGED <<records, missed>>
  PROVE  CurrentInv'
  <1>0. ui[i].req \in Nat /\ ui[i].gen \in Nat /\ Len(ui) \in Nat /\ Len(ui) >= 1
    <2>1. ui[i] \in CompSet
      BY DEF ListType
    <2>2. Len(ui) \in Nat /\ Len(ui) >= 1
      BY DEF ListType
    <2> QED
      BY <2>1, <2>2 DEF CompSet
  <1>1. \A j \in 1 .. Len(ui) : ui'[j].gen <= ui'[j].req
    BY <1>0 DEF CurrentInv
  <1>2. \A m \in net' : m.op = "list" => m.req <= ui'[m.from].req
    <2> TAKE m \in net'
    <2>1. CASE m = n
      BY <2>1, <1>0
    <2>2. CASE m # n
      <3>1. m \in net /\ m.from \in 1 .. Len(ui) /\ m.req \in Nat
        BY <2>2 DEF ListType, MsgSet
      <3> QED
        BY <3>1, <1>0 DEF CurrentInv
    <2> QED
      BY <2>1, <2>2
  <1>3. CASE i = Len(ui)
    <2>1. Loading'
      BY <1>3 DEF Loading, Screen
    <2>2. \A m \in net' : m.op = "list" /\ m.from = i /\ m.req = n.req => m = n
      <3> SUFFICES ASSUME NEW m \in net, m.op = "list", m.from = i, m.req = n.req
                   PROVE  FALSE
        OBVIOUS
      <3>1. m.req <= ui[i].req /\ m.req \in Nat
        BY DEF CurrentInv, ListType, MsgSet
      <3> QED
        BY <3>1, <1>0
    <2> QED
      BY <1>1, <1>2, <1>3, <2>1, <2>2 DEF CurrentInv, Screen
  <1>4. CASE i # Len(ui)
    <2>1. ui'[Len(ui)] = ui[Len(ui)] /\ Len(ui) \in 1 .. Len(ui)
      BY <1>0, <1>4
    <2>2. Behind => Behind'
      BY <1>4, <2>1 DEF Behind, Answering, Screen
    <2>3. Loading => Loading'
      BY <1>4, <2>1 DEF Loading, Screen
    <2> QED
      BY <1>1, <1>2, <1>4, <2>1, <2>2, <2>3 DEF CurrentInv, Screen, Stored
  <1> QED
    BY <1>3, <1>4

(* What the page shows, and what there is to show, stay as they are.  N is *)
(* sent, and of the requests in M none ends that matters for the view.     *)
LEMMA CurrentKept ==
  ASSUME ListType, CurrentInv, NEW M, NEW N,
         \A m \in M : m.op # "list" /\ ~(m.op \in Changes /\ m.state = "ok"),
         net' = (net \ M) \cup N, \A n \in N : n.op # "list",
         Len(ui') = Len(ui), \A j \in 1 .. Len(ui) : SameView(ui'[j], ui[j]),
         UNCHANGED <<records, missed>>
  PROVE  CurrentInv'
  <1>1. Len(ui) \in 1 .. Len(ui) /\ \A m \in net : m.from \in 1 .. Len(ui)
    BY DEF ListType
  <1>2. Behind => Behind'
    BY <1>1 DEF Behind, Answering, Screen, SameView
  <1>3. Loading => Loading'
    BY <1>1 DEF Loading, Screen, SameView
  <1> QED
    BY <1>1, <1>2, <1>3 DEF CurrentInv, Screen, Stored, SameView
-----------------------------------------------------------------------------
(* The list pages: the steps.                                              *)
ListInv == ListType /\ WaitInv /\ CurrentInv

LEMMA TypeStep ==
  ASSUME ListType, ui' \in Seq(CompSet), Len(ui') >= Len(ui), NEW N, N \subseteq MsgSet,
         \A n \in N : n.from \in 1 .. Len(ui') /\ (n.op \in Changes => n.row \in Touched),
         net' \subseteq net \cup N, records' \in [Kinds -> RowLists], missed' \in BOOLEAN
  PROVE  ListType'
  <1>1. Len(ui) \in Nat /\ Len(ui) >= 1 /\ Len(ui') \in Nat
    BY DEF ListType
  <1>2. ui' # << >>
    BY <1>1
  <1>3. net' \subseteq MsgSet
    BY DEF ListType
  <1>4. \A m \in net' : m.from \in 1 .. Len(ui') /\ (m.op \in Changes => m.row \in Touched)
    BY <1>1 DEF ListType
  <1> QED
    BY <1>2, <1>3, <1>4 DEF ListType

LEMMA Shape == 
  ASSUME ListType
  PROVE  /\ Screen \in 1 .. Len(ui) /\ Len(ui) \in Nat /\ DOMAIN ui = 1 .. Len(ui)
         /\ \A i \in 1 .. Len(ui) : ui[i] \in CompSet
         /\ \A m \in net : m \in MsgSet /\ m.from \in 1 .. Len(ui) /\ ui[m.from] \in CompSet
  BY DEF ListType, Screen

LEMMA LoadListStep ==
  ASSUME ListInv, NEW i \in 1 .. Len(ui), NEW d \in CompSet, SameWaits(d, ui[i]),
         d.req = ui[i].req, d.gen = ui[i].gen,
         NEW done \in SUBSET net, NEW row \in Uuids \cup {NoUuid},
         NEW then \in {"none", "busy", "save", "probe"},
         \/ done = {} /\ then = "none"
         \/ \E m \in net : /\ done = {m} /\ m.from = i /\ m.op \in Changes
                           /\ m.then = then /\ m.row = row,
         LoadList(i, d, done, row, then), UNCHANGED <<records, missed>>
  PROVE  ListInv'
  <1> USE DEF ListInv
  <1>0. Len(ui) \in Nat
    BY Shape
  <1> DEFINE f == [d EXCEPT !.req = @ + 1, !.err = FALSE]
             n == Msg("list", i, d.req + 1, row, FALSE, then)
  <1>1. /\ f \in CompSet /\ f.gen = d.gen /\ f.req = d.req + 1
        /\ SameWaits(f, d)
    BY LoadFields DEF SameWaits
  <1>2. /\ n \in MsgSet
        /\ n.op = "list" /\ n.from = i /\ n.req = d.req + 1 /\ n.state = "sent"
        /\ n.row = row /\ n.then = then
    <2>1. d.req \in Nat
      BY DEF CompSet
    <2>2. d.req + 1 \in Nat /\ i \in Nat
      BY <1>0, <2>1
    <2>3. n \in MsgSet
      BY <2>2, MsgType
    <2> QED
      BY <2>3 DEF Msg
  <1>3. ui' = [ui EXCEPT ![i] = f] /\ net' = (net \ done) \cup {n}
    BY DEF LoadList
  <1> HIDE DEF f, n
  <1>4. /\ ui' \in Seq(CompSet) /\ Len(ui') = Len(ui)
        /\ ui'[i] = f
        /\ \A j \in 1 .. Len(ui) : j # i => ui'[j] = ui[j]
    BY <1>1, <1>3, Put DEF ListType
  <1>5. ListType'
    <2>1. {n} \subseteq MsgSet /\ \A x \in {n} : x.from \in 1 .. Len(ui') /\ (x.op \in Changes => x.row \in Touched)
      BY <1>2, <1>4 DEF Changes
    <2>2. net' \subseteq net \cup {n}
      BY <1>3
    <2>4. Len(ui') >= Len(ui)
      BY <1>0, <1>4
    <2>3. records' \in [Kinds -> RowLists] /\ missed' \in BOOLEAN
      BY DEF ListType
    <2> QED
      BY <1>4, <2>1, <2>2, <2>3, <2>4, TypeStep
  <1>6. \A j \in 1 .. Len(ui) : SameWaits(ui'[j], ui[j])
    BY <1>1, <1>4 DEF SameWaits
  <1>7. WaitInv'
    <2>1. CASE done = {} /\ then = "none"
      <3> DEFINE N == {n}
      <3>1. net' = net \cup N /\ \A x \in N : x.then = "none" /\ x.op # "probe"
        BY <1>2, <1>3, <2>1
      <3> HIDE DEF N
      <3> QED
        BY <1>4, <1>6, <3>1, WaitKept
    <2>2. ASSUME NEW m \in net, done = {m}, m.from = i, m.op \in Changes, m.then = then, m.row = row
          PROVE  WaitInv'
      <3>1. /\ n.from = m.from /\ n.then = m.then /\ n.row = m.row
            /\ n.op # "probe" /\ m.op # "probe" /\ net' = (net \ {m}) \cup {n}
        BY <1>2, <1>3, <2>2 DEF Changes
      <3> QED
        BY <1>4, <1>6, <3>1, WaitPassed
    <2> QED
      BY <2>1, <2>2
  <1>8. CurrentInv'
    <2>1. \A m \in done : m.from = i
      OBVIOUS
    <2>2. n.req = ui[i].req + 1 /\ ui'[i].req = n.req /\ ui'[i].gen = ui[i].gen
      BY <1>1, <1>2, <1>4
    <2> QED
      BY <1>2, <1>3, <1>4, <2>1, <2>2, CurrentLoads
  <1> QED
    BY <1>5, <1>7, <1>8

LEMMA RefreshStep ==
  ASSUME ListInv, Refresh
  PROVE  ListInv'
  <1>1. Screen \in 1 .. Len(ui) /\ ui[Screen] \in CompSet /\ SameWaits(ui[Screen], ui[Screen])
    BY Shape DEF ListInv, SameWaits
  <1>2. {} \in SUBSET net /\ NoUuid \in Uuids \cup {NoUuid}
    OBVIOUS
  <1> QED
    BY <1>1, <1>2, LoadListStep DEF Refresh

LEMMA TimerStep ==
  ASSUME ListInv, NEW i \in DOMAIN ui, TimerFires(i) \/ ProbeRefresh(i)
  PROVE  ListInv'
  <1>1. i \in 1 .. Len(ui) /\ ui[i] \in CompSet
    BY Shape DEF ListInv
  <1>2. \A d \in CompSet :
          /\ [d EXCEPT !.timer = FALSE] \in CompSet
          /\ [d EXCEPT !.ptimer = FALSE] \in CompSet
    BY DEF CompSet
  <1>3. \A d \in CompSet :
          LET f == [d EXCEPT !.timer = FALSE] IN
          f.busy = d.busy /\ f.saving = d.saving /\ f.session = d.session
          /\ f.pending = d.pending /\ f.req = d.req /\ f.gen = d.gen
    BY DEF CompSet
  <1>4. \A d \in CompSet :
          LET f == [d EXCEPT !.ptimer = FALSE] IN
          f.busy = d.busy /\ f.saving = d.saving /\ f.session = d.session
          /\ f.pending = d.pending /\ f.req = d.req /\ f.gen = d.gen
    BY DEF CompSet
  <1>5. {} \in SUBSET net /\ NoUuid \in Uuids \cup {NoUuid}
    OBVIOUS
  <1>6. CASE TimerFires(i)
    <2> DEFINE d == [ui[i] EXCEPT !.timer = FALSE]
    <2>1. d \in CompSet /\ SameWaits(d, ui[i]) /\ d.req = ui[i].req /\ d.gen = ui[i].gen
      BY <1>1, <1>2, <1>3 DEF SameWaits
    <2>2. LoadList(i, d, {}, NoUuid, "none") /\ UNCHANGED <<records, missed>>
      BY <1>6 DEF TimerFires
    <2> HIDE DEF d
    <2> QED
      BY <1>1, <1>5, <2>1, <2>2, LoadListStep
  <1>7. CASE ProbeRefresh(i)
    <2> DEFINE d == [ui[i] EXCEPT !.ptimer = FALSE]
    <2>1. d \in CompSet /\ SameWaits(d, ui[i]) /\ d.req = ui[i].req /\ d.gen = ui[i].gen
      BY <1>1, <1>2, <1>4 DEF SameWaits
    <2>2. LoadList(i, d, {}, NoUuid, "none") /\ UNCHANGED <<records, missed>>
      BY <1>7 DEF ProbeRefresh
    <2> HIDE DEF d
    <2> QED
      BY <1>1, <1>5, <2>1, <2>2, LoadListStep
  <1> QED
    BY <1>6, <1>7

(* A request is sent for which somebody begins to wait.                    *)
Begins(n, e, d) ==
  \/ /\ n.then = "busy" /\ n.op # "probe" /\ n.row \notin e.busy /\ d.busy = e.busy \cup {n.row}
     /\ d.saving <=> e.saving
     /\ d.session = e.session
     /\ d.pending <=> e.pending
  \/ /\ n.then = "save" /\ n.op # "probe" /\ ~e.saving /\ d.saving
     /\ d.busy = e.busy /\ d.session = e.session
     /\ d.pending <=> e.pending
  \/ /\ n.then = "probe" /\ n.op = "probe" /\ n.req = d.session /\ d.pending
     /\ d.busy = e.busy
     /\ d.saving <=> e.saving
     /\ (d.session = e.session /\ ~e.pending) \/ d.session = e.session + 1

LEMMA WaitBegins ==
  ASSUME ListType, WaitInv, NEW i \in 1 .. Len(ui), NEW d \in CompSet, NEW n \in MsgSet,
         n.from = i, Begins(n, ui[i], d), net' = net \cup {n},
         Len(ui') = Len(ui), ui'[i] = d, \A j \in 1 .. Len(ui) : j # i => ui'[j] = ui[j]
  PROVE  WaitInv'
  <1>0. /\ \A x \in net' : x = n \/ x \in net
        /\ \A x \in net : x.from \in 1 .. Len(ui) /\ x.req \in Nat
        /\ ui[i].session \in Nat /\ n.req \in Nat /\ d.session \in Nat
    <2>1. ui[i] \in CompSet /\ \A x \in net : x \in MsgSet
      BY DEF ListType
    <2>2. \A x \in net : x.req \in Nat
      BY <2>1 DEF MsgSet
    <2>3. ui[i].session \in Nat /\ n.req \in Nat /\ d.session \in Nat
      BY <2>1 DEF MsgSet, CompSet
    <2> QED
      BY <2>2, <2>3 DEF ListType
  <1>1. \A x \in net : ~SameWait(x, n) /\ ~SameWait(n, x)
    <2> TAKE x \in net
    <2> SUFFICES ASSUME x.from = i, x.then = n.then, x.then = "busy" => x.row = n.row,
                        x.then = "probe" => x.req = n.req
                 PROVE  FALSE
      BY DEF SameWait, Begins
    <2>1. CASE n.then = "busy"
      BY <2>1 DEF WaitInv, Begins
    <2>2. CASE n.then = "save"
      BY <2>2 DEF WaitInv, Begins
    <2>3. CASE n.then = "probe"
      BY <1>0, <2>3 DEF WaitInv, Begins
    <2> QED
      BY <2>1, <2>2, <2>3 DEF Begins
  <1>2. \A x, y \in net' : SameWait(x, y) => x = y
    BY <1>0, <1>1 DEF WaitInv
  <1>3. \A x \in net' :
           /\ x.then = "busy" => x.row \in ui'[x.from].busy
           /\ x.then = "save" => ui'[x.from].saving
           /\ x.op = "probe" <=> x.then = "probe"
           /\ x.op = "probe" => x.req <= ui'[x.from].session
           /\ x.op = "probe" /\ x.req = ui'[x.from].session => ui'[x.from].pending
    <2> TAKE x \in net'
    <2>1. CASE x = n
      BY <1>0, <2>1 DEF Begins
    <2>2. CASE x \in net /\ x.from = i
      BY <1>0, <2>2 DEF WaitInv, Begins
    <2>3. CASE x \in net /\ x.from # i
      BY <1>0, <2>3 DEF WaitInv
    <2> QED
      BY <1>0, <2>1, <2>2, <2>3
  <1>4. \A j \in 1 .. Len(ui) :
          /\ \A u \in ui'[j].busy : \E x \in net' : x.from = j /\ x.then = "busy" /\ x.row = u
          /\ ui'[j].saving => \E x \in net' : x.from = j /\ x.then = "save"
          /\ ui'[j].pending => \E x \in net' : x.from = j /\ x.then = "probe" /\ x.req = ui'[j].session
    <2> TAKE j \in 1 .. Len(ui)
    <2>1. CASE j = i
      BY <2>1 DEF WaitInv, Begins
    <2>2. CASE j # i
      BY <2>2 DEF WaitInv
    <2> QED
      BY <2>1, <2>2
  <1> QED
    BY <1>2, <1>3, <1>4 DEF WaitInv

(* A probing loop stops: the probes it has under way do not count again.   *)
LEMMA WaitStops ==
  ASSUME ListType, WaitInv, NEW i \in 1 .. Len(ui), NEW M, NEW N, net' = (net \ M) \cup N,
         \A m \in M : m.from = i /\ m.then = "probe",
         \A n \in N : n.then = "none" /\ n.op # "probe",
         Len(ui') \in Nat, Len(ui') >= Len(ui),
         \A j \in 1 .. Len(ui) : j # i => ui'[j] = ui[j],
         ui'[i].busy = ui[i].busy, ui'[i].saving = ui[i].saving,
         ui'[i].session = ui[i].session + 1, ~ui'[i].pending,
         \A j \in Len(ui) + 1 .. Len(ui') : ui'[j].busy = {} /\ ~ui'[j].saving /\ ~ui'[j].pending
  PROVE  WaitInv'
  <1>0. /\ \A x \in net' : x \in N \/ x \in net
        /\ \A x \in net : x.from \in 1 .. Len(ui) /\ x.req \in Nat
        /\ ui[i].session \in Nat /\ Len(ui) \in Nat
    <2>1. ui[i] \in CompSet /\ \A x \in net : x \in MsgSet
      BY DEF ListType
    <2>2. \A x \in net : x.req \in Nat
      BY <2>1 DEF MsgSet
    <2>3. ui[i].session \in Nat
      BY <2>1 DEF CompSet
    <2> QED
      BY <2>2, <2>3 DEF ListType
  <1>1. \A x, y \in net' : SameWait(x, y) => x = y
    BY <1>0 DEF WaitInv, SameWait
  <1>2. \A x \in net' :
           /\ x.then = "busy" => x.row \in ui'[x.from].busy
           /\ x.then = "save" => ui'[x.from].saving
           /\ x.op = "probe" <=> x.then = "probe"
           /\ x.op = "probe" => x.req <= ui'[x.from].session
           /\ x.op = "probe" /\ x.req = ui'[x.from].session => ui'[x.from].pending
    <2> TAKE x \in net'
    <2>1. CASE x \in N
      BY <2>1
    <2>2. CASE x \in net /\ x.from = i
      BY <1>0, <2>2 DEF WaitInv
    <2>3. CASE x \in net /\ x.from # i
      <3>1. ui'[x.from] = ui[x.from]
        BY <1>0, <2>3
      <3> QED
        BY <2>3, <3>1 DEF WaitInv
    <2> QED
      BY <1>0, <2>1, <2>2, <2>3
  <1>3. \A j \in 1 .. Len(ui') :
          /\ \A u \in ui'[j].busy : \E x \in net' : x.from = j /\ x.then = "busy" /\ x.row = u
          /\ ui'[j].saving => \E x \in net' : x.from = j /\ x.then = "save"
          /\ ui'[j].pending => \E x \in net' : x.from = j /\ x.then = "probe" /\ x.req = ui'[j].session
    <2> TAKE j \in 1 .. Len(ui')
    <2>1. CASE j = i
      BY <2>1 DEF WaitInv
    <2>2. CASE j # i /\ j \in 1 .. Len(ui)
      BY <2>2 DEF WaitInv
    <2>3. CASE j \in Len(ui) + 1 .. Len(ui')
      BY <2>3
    <2> QED
      BY <1>0, <2>1, <2>2, <2>3
  <1> QED
    BY <1>1, <1>2, <1>3 DEF WaitInv

LEMMA SendStep ==
  ASSUME ListInv, NEW i \in 1 .. Len(ui), NEW d \in CompSet, ui' = [ui EXCEPT ![i] = d],
         SameView(d, ui[i]), NEW n \in MsgSet, n.from = i, n.op # "list",
         n.op \in Changes => n.row \in Touched, net' = net \cup {n},
         Begins(n, ui[i], d), UNCHANGED <<records, missed>>
  PROVE  ListInv'
  <1> USE DEF ListInv
  <1>1. /\ ui' \in Seq(CompSet) /\ Len(ui') = Len(ui)
        /\ ui'[i] = d
        /\ \A j \in 1 .. Len(ui) : j # i => ui'[j] = ui[j]
    BY Put DEF ListType
  <1> DEFINE N == {n}
  <1>2. /\ N \subseteq MsgSet
        /\ \A x \in N : x.from \in 1 .. Len(ui') /\ (x.op \in Changes => x.row \in Touched)
        /\ \A x \in N : x.op # "list"
        /\ net' = net \cup N
    BY <1>1
  <1>3. ListType'
    <2>1. records' \in [Kinds -> RowLists] /\ missed' \in BOOLEAN
      BY DEF ListType
    <2>2. Len(ui') >= Len(ui)
      BY <1>1, Shape
    <2> HIDE DEF N
    <2> QED
      BY <1>1, <1>2, <2>1, <2>2, TypeStep
  <1>4. WaitInv'
    BY <1>1, WaitBegins
  <1>5. CurrentInv'
    <2> DEFINE M == {}
    <2>1. net' = (net \ M) \cup N /\ \A m \in M : m.op # "list" /\ ~(m.op \in Changes /\ m.state = "ok")
      OBVIOUS
    <2>2. \A j \in 1 .. Len(ui) : SameView(ui'[j], ui[j])
      BY <1>1 DEF SameView
    <2> HIDE DEF M, N
    <2> QED
      BY <1>1, <1>2, <2>1, <2>2, CurrentKept
  <1> QED
    BY <1>3, <1>4, <1>5

LEMMA TouchedType == Touched \subseteq Uuids
  BY DEF Uuids

LEMMA ToggleStep ==
  ASSUME ListInv, NEW u \in Touched, Toggle(u)
  PROVE  ListInv'
  <1> DEFINE s == Screen
             e == ui[s]
             d == [e EXCEPT !.busy = @ \cup {u}]
             n == Msg("set_disabled", s, e.gen, u, ~e.rows[u].disabled, "busy")
  <1>1. s \in 1 .. Len(ui) /\ e \in CompSet /\ s \in Nat
    BY Shape DEF ListInv
  <1>2. /\ u \in DOMAIN e.rows /\ u \notin e.busy
        /\ ui' = [ui EXCEPT ![s] = d]
        /\ net' = net \cup {n} /\ UNCHANGED <<records, missed>>
    BY DEF Toggle, Send
  <1>3. e.gen \in Nat /\ (~e.rows[u].disabled) \in BOOLEAN
    BY <1>1 DEF CompSet
  <1> HIDE DEF s, e
  <1>4. /\ d \in CompSet /\ SameView(d, e) /\ d.busy = e.busy \cup {u} /\ d.saving = e.saving
        /\ d.session = e.session /\ d.pending = e.pending
    <2>1. \A b \in SUBSET Touched : [e EXCEPT !.busy = b] \in CompSet
      BY <1>1 DEF CompSet
    <2>2. e.busy \cup {u} \in SUBSET Touched
      BY <1>1 DEF CompSet
    <2>3. d = [e EXCEPT !.busy = e.busy \cup {u}]
      OBVIOUS
    <2>4. d \in CompSet
      BY <2>1, <2>2, <2>3
    <2> QED
      BY <1>1, <2>4 DEF CompSet, SameView
  <1>5. /\ n \in MsgSet /\ n.from = s /\ n.op = "set_disabled" /\ n.then = "busy" /\ n.row = u
    <2>1. n \in MsgSet
      BY <1>1, <1>3, MsgType, TouchedType DEF Changes
    <2> QED
      BY <2>1 DEF Msg
  <1>6. Begins(n, e, d)
    <2> HIDE DEF n, d
    <2> QED
      BY <1>2, <1>4, <1>5 DEF Begins
  <1> HIDE DEF n, d
  <1>7. n.op # "list" /\ (n.op \in Changes => n.row \in Touched)
    BY <1>5
  <1> QED
    BY <1>1, <1>2, <1>4, <1>5, <1>6, <1>7, SendStep DEF e

LEMMA SaveStep ==
  ASSUME ListInv, NEW u \in Touched, NEW disabled \in BOOLEAN, Save(u, disabled)
  PROVE  ListInv'
  <1> DEFINE s == Screen
             e == ui[s]
             d == [e EXCEPT !.saving = TRUE]
             op == IF u \notin DOMAIN e.rows THEN "create" ELSE "edit"
             n == Msg(op, s, 0, u, disabled, "save")
  <1>1. s \in 1 .. Len(ui) /\ e \in CompSet /\ s \in Nat
    BY Shape DEF ListInv
  <1>2. /\ ~e.saving
        /\ ui' = [ui EXCEPT ![s] = d]
        /\ net' = net \cup {n} /\ UNCHANGED <<records, missed>>
    BY DEF Save, Send
  <1>3. op \in {"create", "edit"}
    OBVIOUS
  <1> HIDE DEF s, e, op
  <1>4. /\ d \in CompSet /\ SameView(d, e) /\ d.busy = e.busy /\ d.saving
        /\ d.session = e.session /\ d.pending = e.pending
    <2>1. d \in CompSet
      BY <1>1 DEF CompSet
    <2> QED
      BY <1>1, <2>1 DEF CompSet, SameView
  <1>5. /\ n \in MsgSet /\ n.from = s /\ n.op = op /\ n.then = "save" /\ n.row = u
    <2>1. n \in MsgSet
      BY <1>1, <1>3, MsgType, TouchedType DEF Changes
    <2> QED
      BY <2>1 DEF Msg
  <1>6. Begins(n, e, d)
    <2> HIDE DEF n, d
    <2> QED
      BY <1>2, <1>3, <1>4, <1>5 DEF Begins
  <1> HIDE DEF n, d
  <1>7. n.op # "list" /\ (n.op \in Changes => n.row \in Touched)
    BY <1>3, <1>5
  <1> QED
    BY <1>1, <1>2, <1>4, <1>5, <1>6, <1>7, SendStep DEF e

LEMMA FireProbeStep ==
  ASSUME ListInv, NEW s \in DOMAIN ui, FireProbe(s)
  PROVE  ListInv'
  <1> DEFINE e == ui[s]
             d == [e EXCEPT !.pending = TRUE]
             n == Msg("probe", s, e.session, NoUuid, FALSE, "probe")
  <1>1. s \in 1 .. Len(ui) /\ e \in CompSet /\ s \in Nat
    BY Shape DEF ListInv
  <1>2. /\ ~e.pending
        /\ ui' = [ui EXCEPT ![s] = d]
        /\ net' = net \cup {n} /\ UNCHANGED <<records, missed>>
    BY DEF FireProbe, Send
  <1>3. e.session \in Nat
    BY <1>1 DEF CompSet
  <1> HIDE DEF e
  <1>4. /\ d \in CompSet /\ SameView(d, e) /\ d.busy = e.busy /\ d.saving = e.saving
        /\ d.session = e.session /\ d.pending
    <2>1. d \in CompSet
      BY <1>1 DEF CompSet
    <2> QED
      BY <1>1, <2>1 DEF CompSet, SameView
  <1>5. /\ n \in MsgSet /\ n.from = s /\ n.op = "probe" /\ n.then = "probe" /\ n.req = e.session
    <2>1. n \in MsgSet
      BY <1>1, <1>3, MsgType
    <2> QED
      BY <2>1 DEF Msg
  <1>6. Begins(n, e, d)
    <2> HIDE DEF n, d
    <2> QED
      BY <1>2, <1>4, <1>5 DEF Begins
  <1> HIDE DEF n, d
  <1>7. n.op # "list" /\ n.op \notin Changes
    BY <1>5 DEF Changes
  <1> QED
    BY <1>1, <1>2, <1>4, <1>5, <1>6, <1>7, SendStep DEF e

LEMMA DeleteStep ==
  ASSUME ListInv, NEW u \in Touched, Delete(u)
  PROVE  ListInv'
  <1> DEFINE n == Msg("delete", Screen, 0, u, FALSE, "none")
             N == {n}
  <1>1. Screen \in 1 .. Len(ui) /\ Screen \in Nat /\ Len(ui) \in Nat /\ ListType /\ WaitInv /\ CurrentInv
    BY Shape DEF ListInv
  <1>2. net' = net \cup N /\ UNCHANGED <<ui, records, missed>>
    BY DEF Delete, Send
  <1>3. n \in MsgSet /\ n.from = Screen /\ n.op = "delete" /\ n.then = "none" /\ n.row = u
    <2>1. n \in MsgSet
      BY <1>1, MsgType, TouchedType DEF Changes
    <2> QED
      BY <2>1 DEF Msg
  <1> HIDE DEF n
  <1>4. /\ N \subseteq MsgSet
        /\ \A x \in N : x.from \in 1 .. Len(ui') /\ (x.op \in Changes => x.row \in Touched)
        /\ \A x \in N : x.op # "list" /\ x.op # "probe" /\ x.then = "none"
    BY <1>1, <1>2, <1>3
  <1> HIDE DEF N
  <1>5. ListType'
    <2>1. /\ records' \in [Kinds -> RowLists] /\ missed' \in BOOLEAN /\ ui' \in Seq(CompSet)
          /\ net' \subseteq net \cup N
      BY <1>1, <1>2 DEF ListType
    <2>2. Len(ui') >= Len(ui)
      BY <1>1, <1>2
    <2> QED
      BY <1>1, <1>4, <2>1, <2>2, TypeStep
  <1>6. WaitInv'
    <2>1. Len(ui') = Len(ui) /\ \A j \in 1 .. Len(ui) : SameWaits(ui'[j], ui[j])
      BY <1>2 DEF SameWaits
    <2> QED
      BY <1>1, <1>2, <1>4, <2>1, WaitKept
  <1>7. CurrentInv'
    <2> DEFINE M == {}
    <2>1. net' = (net \ M) \cup N /\ \A m \in M : m.op # "list" /\ ~(m.op \in Changes /\ m.state = "ok")
      BY <1>2
    <2>2. Len(ui') = Len(ui) /\ \A j \in 1 .. Len(ui) : SameView(ui'[j], ui[j])
      BY <1>2 DEF SameView
    <2> HIDE DEF M
    <2> QED
      BY <1>1, <1>2, <1>4, <2>1, <2>2, CurrentKept
  <1> QED
    BY <1>5, <1>6, <1>7 DEF ListInv

LEMMA ProbeToggleStep ==
  ASSUME ListInv, ProbeToggle
  PROVE  ListInv'
  <1> DEFINE s == Screen
             e == ui[s]
             d == [e EXCEPT !.session = @ + 1, !.enabled = TRUE, !.pending = TRUE]
             n == Msg("probe", s, e.session + 1, NoUuid, FALSE, "probe")
  <1>1. s \in 1 .. Len(ui) /\ e \in CompSet /\ s \in Nat /\ ListType /\ WaitInv /\ CurrentInv /\ Len(ui) \in Nat
    BY Shape DEF ListInv
  <1>2. /\ UNCHANGED <<records, missed>>
        /\ \/ ui' = [ui EXCEPT ![s] = StopProbeLoop(e)] /\ net' = net
           \/ ui' = [ui EXCEPT ![s] = d] /\ net' = net \cup {n}
    BY DEF ProbeToggle, Send
  <1>3. e.session \in Nat /\ e.session + 1 \in Nat
    BY <1>1 DEF CompSet
  <1> HIDE DEF s, e
  <1>4. CASE ui' = [ui EXCEPT ![s] = d] /\ net' = net \cup {n}
    <2>1. /\ d \in CompSet /\ SameView(d, e) /\ d.busy = e.busy /\ d.saving = e.saving
          /\ d.session = e.session + 1 /\ d.pending
      <3>1. \A k \in Nat : [e EXCEPT !.session = k, !.enabled = TRUE, !.pending = TRUE] \in CompSet
        BY <1>1 DEF CompSet
      <3>2. d = [e EXCEPT !.session = e.session + 1, !.enabled = TRUE, !.pending = TRUE]
        OBVIOUS
      <3>3. d \in CompSet
        BY <1>3, <3>1, <3>2
      <3> QED
        BY <1>1, <3>3 DEF CompSet, SameView
    <2>2. /\ n \in MsgSet /\ n.from = s /\ n.op = "probe" /\ n.then = "probe" /\ n.req = e.session + 1
      <3>1. n \in MsgSet
        BY <1>1, <1>3, MsgType
      <3> QED
        BY <3>1 DEF Msg
    <2>3. Begins(n, e, d)
      <3> HIDE DEF n, d
      <3> QED
        BY <2>1, <2>2 DEF Begins
    <2>4. n.op # "list" /\ n.op \notin Changes
      BY <2>2 DEF Changes
    <2> HIDE DEF n, d
    <2> QED
      BY <1>1, <1>2, <1>4, <2>1, <2>2, <2>3, <2>4, SendStep DEF e
  <1>5. CASE ui' = [ui EXCEPT ![s] = StopProbeLoop(e)] /\ net' = net
    <2> DEFINE f == StopProbeLoop(e)
               M == {}
               N == {}
    <2>1. /\ f \in CompSet /\ SameView(f, e) /\ f.busy = e.busy /\ f.saving = e.saving
          /\ f.session = e.session + 1 /\ f.pending = FALSE
      BY <1>1, StopFields DEF SameView
    <2> HIDE DEF f
    <2>2. /\ ui' \in Seq(CompSet) /\ Len(ui') = Len(ui)
          /\ ui'[s] = f
          /\ \A j \in 1 .. Len(ui) : j # s => ui'[j] = ui[j]
      BY <1>1, <1>5, <2>1, Put DEF ListType, f
    <2>3. /\ net' = (net \ M) \cup N
          /\ \A m \in M : m.op # "list" /\ ~(m.op \in Changes /\ m.state = "ok")
          /\ \A m \in M : m.from = s /\ m.then = "probe"
          /\ \A x \in N : x.op # "list" /\ x.op # "probe" /\ x.then = "none"
      BY <1>5
    <2>4. N \subseteq MsgSet /\ net' \subseteq net \cup N
          /\ \A x \in N : x.from \in 1 .. Len(ui') /\ (x.op \in Changes => x.row \in Touched)
      BY <1>5
    <2> HIDE DEF M, N
    <2>5. Len(ui') >= Len(ui) /\ Len(ui') \in Nat
      BY <1>1, <2>2
    <2>6. ListType'
      <3>1. records' \in [Kinds -> RowLists] /\ missed' \in BOOLEAN
        BY <1>1, <1>2 DEF ListType
      <3> QED
        BY <1>1, <2>2, <2>4, <2>5, <3>1, TypeStep
    <2>7. WaitInv'
      <3>1. \A j \in Len(ui) + 1 .. Len(ui') : ui'[j].busy = {} /\ ~ui'[j].saving /\ ~ui'[j].pending
        BY <1>1, <2>2
      <3>2. /\ ui'[s].busy = ui[s].busy /\ ui'[s].saving = ui[s].saving
            /\ ui'[s].session = ui[s].session + 1 /\ ~ui'[s].pending
        BY <2>1, <2>2 DEF e
      <3> QED
        BY <1>1, <2>2, <2>3, <2>5, <3>1, <3>2, WaitStops
    <2>8. CurrentInv'
      <3>1. \A j \in 1 .. Len(ui) : SameView(ui'[j], ui[j])
        BY <2>1, <2>2 DEF SameView, e
      <3> QED
        BY <1>1, <1>2, <2>2, <2>3, <3>1, CurrentKept
    <2> QED
      BY <2>6, <2>7, <2>8 DEF ListInv
  <1> QED
    BY <1>2, <1>4, <1>5

LEMMA LeaveStep ==
  ASSUME ListInv, NEW kind \in Kinds, Leave(kind)
  PROVE  ListInv'
  <1> DEFINE s == Screen
             e == ui[s]
             f == Destroyed(e)
             old == [ui EXCEPT ![s] = f]
             c == IF kind = "tunnel" THEN Component(kind) ELSE [Component(kind) EXCEPT !.req = 1]
             n == Msg("list", s + 1, 1, NoUuid, FALSE, "none")
             N == IF kind = "tunnel" THEN {} ELSE {n}
             M == {}
  <1>1. s \in 1 .. Len(ui) /\ e \in CompSet /\ s \in Nat /\ ListType /\ WaitInv /\ CurrentInv
        /\ Len(ui) \in Nat /\ s = Len(ui)
    BY Shape DEF ListInv, Screen
  <1>2. ui' = Append(old, c) /\ net' = net \cup N /\ UNCHANGED <<records, missed>>
    BY DEF Leave, Send
  <1>3. /\ f \in CompSet /\ f.gen = e.gen /\ f.req = e.req + 1
        /\ f.busy = e.busy /\ f.saving = e.saving /\ f.session = e.session + 1 /\ f.pending = FALSE
    BY <1>1, DestroyedFields
  <1>4. c \in CompSet /\ c.gen = 0 /\ c.busy = {} /\ ~c.saving /\ ~c.pending
        /\ (kind = "tunnel" => c.timer) /\ (kind # "tunnel" => c.req = 1) /\ c.req \in Nat
    <2>1. Component(kind) \in CompSet
      BY ComponentType
    <2>2. /\ Component(kind).gen = 0 /\ Component(kind).busy = {} /\ ~Component(kind).saving
          /\ ~Component(kind).pending /\ (kind = "tunnel" => Component(kind).timer)
          /\ Component(kind).req = 0
      BY DEF Component
    <2> DEFINE b == Component(kind)
    <2>3. [b EXCEPT !.req = 1] \in CompSet
      <3> HIDE DEF b
      <3>1. b \in CompSet
        BY <2>1 DEF b
      <3> QED
        BY <3>1 DEF CompSet
    <2>4. /\ [b EXCEPT !.req = 1].gen = b.gen /\ [b EXCEPT !.req = 1].busy = b.busy
          /\ [b EXCEPT !.req = 1].saving = b.saving /\ [b EXCEPT !.req = 1].pending = b.pending
          /\ [b EXCEPT !.req = 1].req = 1
      <3> HIDE DEF b
      <3>1. b \in CompSet
        BY <2>1 DEF b
      <3> QED
        BY <3>1 DEF CompSet
    <2> HIDE DEF b
    <2>5. CASE kind = "tunnel"
      <3>1. c = b
        BY <2>5 DEF b
      <3> HIDE DEF c
      <3> QED
        BY <2>5, <2>1, <2>2, <3>1 DEF b
    <2>6. CASE kind # "tunnel"
      <3>1. c = [b EXCEPT !.req = 1]
        BY <2>6 DEF b
      <3>2. b.gen = 0 /\ b.busy = {} /\ ~b.saving /\ ~b.pending
        BY <2>2 DEF b
      <3> HIDE DEF c
      <3> QED
        BY <2>6, <2>3, <2>4, <3>1, <3>2
    <2> QED
      BY <2>5, <2>6
  <1>5. /\ n \in MsgSet /\ n.from = s + 1 /\ n.op = "list" /\ n.then = "none" /\ n.req = 1 /\ n.state = "sent"
    <2>0. s + 1 \in Nat
      BY <1>1
    <2>1. n \in MsgSet
      BY <2>0, MsgType
    <2> QED
      BY <2>1 DEF Msg
  <1> HIDE DEF s, e, f, c, n
  <1>6. /\ ui' \in Seq(CompSet) /\ Len(ui') = s + 1
        /\ ui'[s + 1] = c /\ ui'[s] = f
        /\ \A j \in 1 .. s : j # s => ui'[j] = ui[j]
    BY <1>1, <1>2, <1>3, <1>4 DEF ListType
  <1>7. /\ N \subseteq MsgSet /\ net' \subseteq net \cup N /\ net' = (net \ M) \cup N
        /\ \A x \in N : x.from = s + 1 /\ x.op = "list" /\ x.then = "none" /\ x.req = 1 /\ x.state = "sent"
        /\ \A m \in M : m.from = s /\ m.then = "probe"
        /\ (kind # "tunnel" => n \in N)
    BY <1>2, <1>5
  <1> HIDE DEF N, M, old
  <1>8. ListType'
    <2>1. records' \in [Kinds -> RowLists] /\ missed' \in BOOLEAN /\ Len(ui') >= Len(ui)
      BY <1>1, <1>2, <1>6 DEF ListType
    <2>2. \A x \in N : x.from \in 1 .. Len(ui') /\ (x.op \in Changes => x.row \in Touched)
      BY <1>1, <1>6, <1>7 DEF Changes
    <2> QED
      BY <1>1, <1>6, <1>7, <2>1, <2>2, TypeStep
  <1>9. WaitInv'
    <2>1. Len(ui') \in Nat /\ Len(ui') >= Len(ui)
      BY <1>1, <1>6
    <2>2. \A j \in Len(ui) + 1 .. Len(ui') : ui'[j].busy = {} /\ ~ui'[j].saving /\ ~ui'[j].pending
      <3> TAKE j \in Len(ui) + 1 .. Len(ui')
      <3>1. j = s + 1
        BY <1>1, <1>6
      <3> QED
        BY <1>4, <1>6, <3>1
    <2>3. /\ ui'[s].busy = ui[s].busy /\ ui'[s].saving = ui[s].saving
          /\ ui'[s].session = ui[s].session + 1 /\ ~ui'[s].pending
      BY <1>3, <1>6 DEF e
    <2>4. /\ \A x \in N : x.then = "none" /\ x.op # "probe"
          /\ \A j \in 1 .. Len(ui) : j # s => ui'[j] = ui[j]
      BY <1>1, <1>6, <1>7
    <2> QED
      BY <1>1, <1>7, <2>1, <2>2, <2>3, <2>4, WaitStops
  <1>10. CurrentInv'
    <2>0. e.req \in Nat /\ e.gen \in Nat
      BY <1>1 DEF CompSet
    <2>1. \A j \in 1 .. Len(ui') : ui'[j].gen <= ui'[j].req
      <3> TAKE j \in 1 .. Len(ui')
      <3>1. CASE j = s + 1
        BY <1>4, <1>6, <3>1
      <3>2. CASE j = s
        BY <1>1, <1>3, <1>6, <2>0, <3>2 DEF CurrentInv, e
      <3>3. CASE j \in 1 .. s /\ j # s
        BY <1>1, <1>6, <3>3 DEF CurrentInv
      <3> QED
        BY <1>1, <1>6, <3>1, <3>2, <3>3
    <2>2. \A m \in net' : m.op = "list" => m.req <= ui'[m.from].req
      <3> TAKE m \in net'
      <3>1. CASE m \in N
        <4>1. kind # "tunnel"
          BY <3>1 DEF N
        <4> QED
          BY <1>4, <1>6, <1>7, <3>1, <4>1
      <3>2. CASE m \in net
        <4>1. m.from \in 1 .. s /\ m.req \in Nat
          BY <1>1, <3>2 DEF ListType, MsgSet
        <4>2. CASE m.from = s
          BY <1>1, <1>3, <1>6, <2>0, <3>2, <4>1, <4>2 DEF CurrentInv, e
        <4>3. CASE m.from # s
          BY <1>1, <1>6, <3>2, <4>1, <4>3 DEF CurrentInv
        <4> QED
          BY <4>2, <4>3
      <3> QED
        BY <1>7, <3>1, <3>2
    <2>3. \A m \in net' : m.from = s + 1 => m \in N
      BY <1>1, <1>7 DEF ListType
    <2>4. CASE kind = "tunnel"
      <3>1. Behind'
        BY <1>4, <1>6, <2>4 DEF Behind, Screen
      <3> QED
        BY <2>1, <2>2, <3>1 DEF CurrentInv
    <2>5. CASE kind # "tunnel"
      <3>1. Loading'
        BY <1>4, <1>5, <1>6, <1>7, <2>5 DEF Loading, Screen
      <3>2. \A m \in net' : m.from = Len(ui') => m.state = "sent"
        BY <1>6, <1>7, <2>3
      <3> QED
        BY <2>1, <2>2, <3>1, <3>2 DEF CurrentInv, Screen
    <2> QED
      BY <2>4, <2>5
  <1> QED
    BY <1>8, <1>9, <1>10 DEF ListInv
-----------------------------------------------------------------------------
(* The list pages: answers.                                                *)
LEMMA ReplyStep ==
  ASSUME ListInv, NEW m \in net, m.state = "sent", NEW st \in {"ok", "failed"}, NEW r \in RowLists,
         Reply(m, st, r), UNCHANGED ui, records' \in [Kinds -> RowLists], missed' \in BOOLEAN,
         \/ UNCHANGED <<records, missed>> /\ (m.op = "list" /\ st = "ok" => r = records[ui[m.from].kind])
         \/ m.op \in Changes /\ st = "ok" /\ (missed' \/ m.from = Screen)
  PROVE  ListInv'
  <1> USE DEF ListInv
  <1> DEFINE n == [m EXCEPT !.state = st, !.rows = r]
             N == {n}
  <1>1. m \in MsgSet /\ m.from \in 1 .. Len(ui) /\ Len(ui) \in Nat /\ Screen \in 1 .. Len(ui)
    BY Shape
  <1>2. /\ n \in MsgSet /\ n.op = m.op /\ n.from = m.from /\ n.req = m.req /\ n.row = m.row
        /\ n.then = m.then /\ n.state = st /\ n.rows = r
    <2>1. n \in MsgSet
      BY <1>1, ReplyType
    <2> QED
      BY <1>1 , <2>1 DEF MsgSet
  <1>3. net' = (net \ {m}) \cup {n}
    BY DEF Reply
  <1> HIDE DEF n
  <1>4. ListType'
    <2>1. /\ N \subseteq MsgSet /\ net' \subseteq net \cup N
          /\ \A x \in N : x.from \in 1 .. Len(ui') /\ (x.op \in Changes => x.row \in Touched)
      BY <1>1, <1>2, <1>3 DEF ListType
    <2>2. Len(ui') >= Len(ui) /\ ui' \in Seq(CompSet)
      BY <1>1 DEF ListType
    <2> HIDE DEF N
    <2> QED
      BY <2>1, <2>2, TypeStep
  <1>5. WaitInv'
    <2>1. Len(ui') = Len(ui) /\ \A i \in 1 .. Len(ui) : SameWaits(ui'[i], ui[i])
      BY DEF SameWaits
    <2> QED
      BY <1>2, <1>3, <2>1, WaitPassed
  <1>6. CurrentInv'
    <2>1. /\ \A i \in 1 .. Len(ui') : ui'[i].gen <= ui'[i].req
          /\ \A x \in net' : x.op = "list" => x.req <= ui'[x.from].req
      BY <1>2, <1>3 DEF CurrentInv
    <2>2. CASE m.op \in Changes /\ st = "ok" /\ (missed' \/ m.from = Screen)
      <3>1. Behind'
        BY <1>2, <1>3, <2>2 DEF Behind, Answering, Screen
      <3> QED
        BY <2>1, <3>1 DEF CurrentInv
    <2>3. CASE UNCHANGED <<records, missed>> /\ (m.op = "list" /\ st = "ok" => r = records[ui[m.from].kind])
      <3>1. Behind => Behind'
        BY <1>3, <2>3 DEF Behind, Answering, Screen
      <3>2. Loading => Loading'
        BY <1>2, <1>3, <2>3 DEF Loading, Screen
      <3>3. \A x \in net' :
              x.op = "list" /\ x.from = Screen /\ x.req = ui[Screen].req /\ x.state = "ok" =>
                x.rows = Stored \/ Behind
        BY <1>2, <1>3, <2>3 DEF CurrentInv, Stored
      <3> QED
        BY <2>1, <2>3, <3>1, <3>2, <3>3 DEF CurrentInv, Screen, Stored
    <2> QED
      BY <2>2, <2>3
  <1> QED
    BY <1>4, <1>5, <1>6

LEMMA ChangedStep ==
  ASSUME ListInv, NEW m \in net, m.state = "sent", m.op \in Changes, NEW r \in RowLists,
         Changed(m, r), UNCHANGED ui
  PROVE  ListInv'
  <1>1. records' \in [Kinds -> RowLists] /\ missed' \in BOOLEAN
    BY DEF Changed, ListInv, ListType
  <1>2. Reply(m, "ok", NoRows) /\ (missed' \/ m.from = Screen)
    BY DEF Changed
  <1> QED
    BY <1>1, <1>2, NoRowsType, ReplyStep

LEMMA RefusedStep ==
  ASSUME ListInv, NEW m \in net, m.state = "sent", Refused(m), UNCHANGED ui
  PROVE  ListInv'
  <1>1. records' \in [Kinds -> RowLists] /\ missed' \in BOOLEAN
    BY DEF Refused, ListInv, ListType
  <1>2. Reply(m, "failed", NoRows) /\ UNCHANGED <<records, missed>>
    BY DEF Refused
  <1> QED
    BY <1>1, <1>2, NoRowsType, ReplyStep

LEMMA ServeStep ==
  ASSUME ListInv, NEW m \in net, Serve(m)
  PROVE  ListInv'
  <1> DEFINE r == records[ui[m.from].kind]
  <1>1. m.state = "sent" /\ UNCHANGED ui
    BY DEF Serve
  <1>2. r \in RowLists /\ m.disabled \in BOOLEAN
    <2>1. m \in MsgSet /\ ui[m.from] \in CompSet
      BY Shape DEF ListInv
    <2>2. ui[m.from].kind \in Kinds
      BY <2>1 DEF CompSet
    <2>3. m.disabled \in BOOLEAN
      BY <2>1 DEF MsgSet
    <2> QED
      BY <2>2, <2>3 DEF ListInv, ListType
  <1> HIDE DEF r
  <1>3. m.op \in Changes => m.row \in Uuids
    BY TouchedType DEF ListInv, ListType
  <1>4. CASE ServeList(m)
    <2>1. UNCHANGED <<records, missed>> /\ records' \in [Kinds -> RowLists] /\ missed' \in BOOLEAN
      BY <1>4 DEF ServeList, ListInv, ListType
    <2>2. Reply(m, "ok", r) \/ Reply(m, "failed", NoRows)
      BY <1>4 DEF ServeList, r
    <2>3. CASE Reply(m, "ok", r)
      <3>1. r = records[ui[m.from].kind]
        BY DEF r
      <3> QED
        BY <1>1, <1>2, <2>1, <2>3, <3>1, ReplyStep
    <2>4. CASE Reply(m, "failed", NoRows)
      BY <1>1, <2>1, <2>4, NoRowsType, ReplyStep
    <2> QED
      BY <2>2, <2>3, <2>4
  <1>5. CASE ServeProbe(m)
    <2>1. UNCHANGED <<records, missed>> /\ records' \in [Kinds -> RowLists] /\ missed' \in BOOLEAN
      BY <1>5 DEF ServeProbe, ListInv, ListType
    <2>2. m.op = "probe" /\ Reply(m, "ok", NoRows)
      BY <1>5 DEF ServeProbe
    <2> QED
      BY <1>1, <2>1, <2>2, NoRowsType, ReplyStep
  <1>6. CASE ServeSetDisabled(m)
    <2>1. m.op \in Changes
      BY <1>6 DEF ServeSetDisabled, Changes
    <2>2. CASE Refused(m)
      BY <1>1, <2>2, RefusedStep
    <2>3. CASE Changed(m, SetDisabled(r, m.row, m.disabled))
      <3>1. SetDisabled(r, m.row, m.disabled) \in RowLists
        BY <1>2, <1>3, <2>1, HandlerTypes
      <3> QED
        BY <1>1, <2>1, <2>3, <3>1, ChangedStep
    <2> QED
      BY <1>6, <2>2, <2>3 DEF ServeSetDisabled, r
  <1>7. CASE ServeSave(m)
    <2>1. m.op \in Changes
      BY <1>7 DEF ServeSave, Changes
    <2>2. CASE Refused(m)
      BY <1>1, <2>2, RefusedStep
    <2>3. CASE Changed(m, EditRow(r, m.row, m.disabled))
      <3>1. EditRow(r, m.row, m.disabled) \in RowLists
        BY <1>2, <1>3, <2>1, HandlerTypes
      <3> QED
        BY <1>1, <2>1, <2>3, <3>1, ChangedStep
    <2>4. CASE Changed(m, AddRow(r, m.row, m.disabled))
      <3>1. AddRow(r, m.row, m.disabled) \in RowLists
        BY <1>2, <1>3, <2>1, HandlerTypes
      <3> QED
        BY <1>1, <2>1, <2>4, <3>1, ChangedStep
    <2> QED
      BY <1>7, <2>2, <2>3, <2>4 DEF ServeSave, r
  <1>8. CASE ServeDelete(m)
    <2>1. m.op \in Changes /\ Changed(m, DeleteRow(r, m.row))
      BY <1>8 DEF ServeDelete, Changes, r
    <2>2. DeleteRow(r, m.row) \in RowLists
      BY <1>2, <1>3, <2>1, HandlerTypes
    <2> QED
      BY <1>1, <2>1, <2>2, ChangedStep
  <1> QED
    BY <1>4, <1>5, <1>6, <1>7, <1>8 DEF Serve

(* A request ends: the page takes the list it asked for, notes that it did *)
(* not get it, starts its timer, or shows what it did.                     *)
EndsAs(m, e, d) ==
  \/ /\ SameView(d, e)
     /\ ~(m.op = "list" /\ m.req = e.req)
     /\ ~(m.op \in Changes /\ m.state = "ok")
  \/ m.op = "list" /\ m.req = e.req /\ d.err /\ d.timer = e.timer
  \/ /\ m.op = "list" /\ m.req = e.req /\ m.state = "ok"
     /\ d.rows = Normalize(e.kind, m.rows) /\ d.timer = e.timer
  \/ d.timer
  \/ missed'

LEMMA CurrentEnds ==
  ASSUME ListType, CurrentInv, NEW m \in net, net' = net \ {m},
         NEW f \in CompSet, ui' = [ui EXCEPT ![m.from] = f],
         f.kind = ui[m.from].kind, f.req = ui[m.from].req, f.gen <= f.req,
         UNCHANGED records, missed => missed', EndsAs(m, ui[m.from], f)
  PROVE  CurrentInv'
  <1> DEFINE i == m.from
  <1>1. /\ i \in 1 .. Len(ui) /\ Len(ui') = Len(ui)
        /\ ui'[i] = f
        /\ \A j \in 1 .. Len(ui) : j # i => ui'[j] = ui[j]
    BY Put DEF ListType
  <1>2. Len(ui) \in 1 .. Len(ui) /\ \A x \in net : x.from \in 1 .. Len(ui)
    BY DEF ListType
  <1>3. /\ \A j \in 1 .. Len(ui') : ui'[j].gen <= ui'[j].req
        /\ \A x \in net' : x.op = "list" => x.req <= ui'[x.from].req
    BY <1>1, <1>2 DEF CurrentInv
  <1>4. CASE missed'
    BY <1>3, <1>4 DEF CurrentInv, Behind
  <1>5. CASE ~missed' /\ i # Len(ui)
    <2>1. ui'[Len(ui)] = ui[Len(ui)]
      BY <1>1, <1>2, <1>5
    <2>2. Behind => Behind'
      BY <1>1, <1>5, <2>1 DEF Behind, Answering, Screen
    <2>3. Loading => Loading'
      BY <1>1, <1>5, <2>1 DEF Loading, Screen
    <2> QED
      BY <1>1, <1>3, <2>1, <2>2, <2>3 DEF CurrentInv, Screen, Stored
  <1>6. CASE ~missed' /\ i = Len(ui) /\ f.timer
    <2>1. Behind'
      BY <1>1, <1>6 DEF Behind, Screen
    <2> QED
      BY <1>3, <2>1 DEF CurrentInv
  <1>7. CASE ~missed' /\ i = Len(ui) /\ ~f.timer
    <2>0. m.op # "list" \/ m.op \notin Changes
      BY DEF Changes
    <2>1. Behind => Behind'
      BY <1>1, <1>7, <2>0 DEF Behind, Answering, Screen, EndsAs, SameView
    <2>2. \A x \in net' :
              x.op = "list" /\ x.from = Len(ui) /\ x.req = f.req /\ x.state = "ok" =>
                x.rows = Stored \/ Behind
      BY <1>7 DEF CurrentInv, Stored, Screen
    <2>3. Stored' = Stored
      <3>1. ui'[Len(ui')].kind = ui[Len(ui)].kind
        BY <1>1, <1>7
      <3> QED
        BY <3>1 DEF Stored, Screen
    <2>4. Len(ui') = Len(ui) /\ ui'[Len(ui)] = f
      BY <1>1, <1>7
    <2>5. \A x \in net' :
            x.op = "list" /\ x.from = Len(ui') /\ x.req = ui'[Len(ui')].req /\ x.state = "ok" =>
              x.rows = Stored' \/ Behind'
      BY <2>1, <2>2, <2>3, <2>4
    <2>6. f.rows = Normalize(f.kind, Stored) \/ Behind' \/ f.err \/ Loading'
      <3>1. CASE /\ SameView(f, ui[i])
                 /\ ~(m.op = "list" /\ m.req = ui[i].req)
                 /\ ~(m.op \in Changes /\ m.state = "ok")
        <4>1. Loading => Loading'
          BY <1>7, <2>4, <3>1 DEF Loading, Screen
        <4>2. \/ ui[i].rows = Normalize(ui[i].kind, Stored)
              \/ Behind \/ ui[i].err \/ Loading
          BY <1>7 DEF CurrentInv, Screen
        <4> QED
          BY <2>1, <3>1, <4>1, <4>2 DEF SameView
      <3>2. CASE /\ m.op = "list" /\ m.req = ui[i].req /\ m.state = "ok"
                 /\ f.rows = Normalize(ui[i].kind, m.rows)
        <4>1. m.rows = Stored \/ Behind
          BY <1>7, <3>2 DEF CurrentInv, Screen
        <4> QED
          BY <2>1, <3>2, <4>1
      <3> QED
        BY <1>7, <3>1, <3>2 DEF EndsAs
    <2> QED
      BY <1>3, <2>3, <2>4, <2>5, <2>6 DEF CurrentInv, Screen
  <1> QED
    BY <1>4, <1>5, <1>6, <1>7

LEMMA EndType ==
  ASSUME ListType, NEW m \in net, net' = net \ {m}, NEW f \in CompSet,
         ui' = [ui EXCEPT ![m.from] = f], UNCHANGED records, missed' \in BOOLEAN
  PROVE  ListType'
  <1> DEFINE N == {}
  <1>1. /\ ui' \in Seq(CompSet) /\ Len(ui') >= Len(ui)
    <2>1. m.from \in 1 .. Len(ui) /\ Len(ui) \in Nat
      BY Shape
    <2>2. ui' \in Seq(CompSet) /\ Len(ui') = Len(ui)
      BY <2>1, Put DEF ListType
    <2> QED
      BY <2>1, <2>2
  <1>2. /\ N \subseteq MsgSet /\ net' \subseteq net \cup N
        /\ \A n \in N : n.from \in 1 .. Len(ui') /\ (n.op \in Changes => n.row \in Touched)
    OBVIOUS
  <1>3. records' \in [Kinds -> RowLists]
    BY DEF ListType
  <1> HIDE DEF N
  <1> QED
    BY <1>1, <1>2, <1>3, TypeStep

(* The view of a page does not depend on what else ends with a request.    *)
LEMMA EndStep ==
  ASSUME ListInv, NEW m \in net, net' = net \ {m}, NEW d \in CompSet,
         SameWaits(d, ui[m.from]), ui' = [ui EXCEPT ![m.from] = Finally(m, d)],
         d.kind = ui[m.from].kind, d.req = ui[m.from].req, d.gen <= d.req,
         UNCHANGED records, missed' \in BOOLEAN, missed => missed', EndsAs(m, ui[m.from], d)
  PROVE  ListInv'
  <1> DEFINE f == Finally(m, d)
  <1>1. /\ f \in CompSet
        /\ f.kind = d.kind /\ f.rows = d.rows /\ f.gen = d.gen /\ f.req = d.req
        /\ f.err = d.err /\ f.timer = d.timer
    <2>1. m \in MsgSet
      BY Shape DEF ListInv
    <2> QED
      BY <2>1, FinallyView, Zenon
  <1>2. ui' = [ui EXCEPT ![m.from] = f]
    OBVIOUS
  <1> HIDE DEF f
  <1>3. EndsAs(m, ui[m.from], f)
    BY <1>1 DEF EndsAs, SameView
  <1>4. ListType'
    BY <1>1, <1>2, EndType DEF ListInv
  <1>5. WaitInv'
    BY WaitEnds DEF ListInv
  <1>6. CurrentInv'
    <2>1. f.kind = ui[m.from].kind /\ f.req = ui[m.from].req /\ f.gen <= f.req
      BY <1>1
    <2> QED
      BY <1>1, <1>2, <1>3, <2>1, CurrentEnds DEF ListInv
  <1> QED
    BY <1>4, <1>5, <1>6 DEF ListInv

LEMMA EndPlain ==
  ASSUME ListInv, NEW m \in net, net' = net \ {m}, ui' = [ui EXCEPT ![m.from] = Finally(m, ui[m.from])],
         UNCHANGED records, missed' \in BOOLEAN, missed => missed',
         \/ missed'
         \/ /\ ~(m.op = "list" /\ m.req = ui[m.from].req)
            /\ ~(m.op \in Changes /\ m.state = "ok")
  PROVE  ListInv'
  <1> DEFINE e == ui[m.from]
  <1>1. e \in CompSet /\ SameWaits(e, ui[m.from]) /\ e.kind = ui[m.from].kind /\ e.req = ui[m.from].req
    BY Shape DEF ListInv, SameWaits
  <1>2. e.gen <= e.req
    BY Shape DEF ListInv, CurrentInv
  <1>3. EndsAs(m, ui[m.from], e)
    BY DEF EndsAs, SameView
  <1>4. ui' = [ui EXCEPT ![m.from] = Finally(m, e)]
    OBVIOUS
  <1> HIDE DEF e
  <1> QED
    BY <1>1, <1>2, <1>3, <1>4, EndStep

LEMMA EndErr ==
  ASSUME ListInv, NEW m \in net, net' = net \ {m}, m.op = "list", m.req = ui[m.from].req,
         ui' = [ui EXCEPT ![m.from] = Finally(m, [ui[m.from] EXCEPT !.err = TRUE])],
         UNCHANGED records, missed' \in BOOLEAN, missed => missed'
  PROVE  ListInv'
  <1> DEFINE e == ui[m.from]
             d == [e EXCEPT !.err = TRUE]
  <1>1. e \in CompSet /\ e.gen <= e.req
    BY Shape DEF ListInv, CurrentInv
  <1>2. ui' = [ui EXCEPT ![m.from] = Finally(m, d)] /\ m.req = e.req
    OBVIOUS
  <1> HIDE DEF e
  <1>3. /\ d \in CompSet /\ d.kind = e.kind /\ d.req = e.req /\ d.gen = e.gen /\ d.busy = e.busy
        /\ d.saving = e.saving /\ d.session = e.session /\ d.pending = e.pending
        /\ d.err /\ d.timer = e.timer
    <2>1. d \in CompSet
      BY <1>1 DEF CompSet
    <2> QED
      BY <1>1, <2>1 DEF CompSet
  <1> HIDE DEF d
  <1>4. SameWaits(d, e) /\ EndsAs(m, e, d) /\ d.gen <= d.req
    BY <1>1, <1>2, <1>3 DEF SameWaits, EndsAs
  <1> QED
    BY <1>2, <1>3, <1>4, EndStep DEF e

LEMMA ListArrivesStep ==
  ASSUME ListInv, NEW m \in net, ListArrives(m), UNCHANGED <<records, missed>>
  PROVE  ListInv'
  <1> DEFINE e == ui[m.from]
             d == [e EXCEPT !.rows = Normalize(e.kind, m.rows), !.gen = m.req]
  <1>1. m.op = "list" /\ net' = net \ {m} /\ m.op \notin Changes
    BY DEF ListArrives, Changes
  <1>2. missed' \in BOOLEAN /\ (missed => missed')
    BY DEF ListInv, ListType
  <1>3. CASE ~IsLatest(m, e) /\ ui' = [ui EXCEPT ![m.from] = Finally(m, e)]
    BY <1>1, <1>2, <1>3, EndPlain DEF IsLatest
  <1>4. CASE IsLatest(m, e) /\ ui' = [ui EXCEPT ![m.from] = Finally(m, [e EXCEPT !.err = TRUE])]
    BY <1>1, <1>2, <1>4, EndErr DEF IsLatest
  <1>5. CASE IsLatest(m, e) /\ m.state = "ok" /\ ui' = [ui EXCEPT ![m.from] = Finally(m, d)]
    <2>1. e \in CompSet /\ m \in MsgSet /\ m.req = e.req
      BY <1>5, Shape DEF ListInv, IsLatest
    <2>2. m.rows \in RowLists /\ m.req \in Nat
      BY <2>1 DEF MsgSet
    <2>3. Normalize(e.kind, m.rows) \in RowLists
      BY <2>2, NormalizeType
    <2> DEFINE r == Normalize(e.kind, m.rows)
    <2> HIDE DEF e
    <2>4. \A x \in RowLists : \A k \in Nat :
            LET g == [e EXCEPT !.rows = x, !.gen = k] IN
            /\ g \in CompSet
            /\ g.rows = x /\ g.gen = k
            /\ g.kind = e.kind /\ g.req = e.req /\ g.busy = e.busy
            /\ g.saving = e.saving /\ g.session = e.session /\ g.pending = e.pending
            /\ g.timer = e.timer
      BY <2>1 DEF CompSet
    <2>5. /\ d \in CompSet /\ d.kind = e.kind /\ d.req = e.req /\ d.gen = m.req /\ d.busy = e.busy
          /\ d.saving = e.saving /\ d.session = e.session /\ d.pending = e.pending
          /\ d.rows = Normalize(e.kind, m.rows) /\ d.timer = e.timer
      BY <2>2, <2>3, <2>4, ZenonT(40)
    <2>6. ui' = [ui EXCEPT ![m.from] = Finally(m, d)]
      BY <1>5
    <2> HIDE DEF d
    <2>7. SameWaits(d, e) /\ EndsAs(m, e, d) /\ d.gen <= d.req
      BY <1>1, <1>5, <2>1, <2>2, <2>5 DEF SameWaits, EndsAs
    <2> QED
      BY <1>1, <1>2, <2>5, <2>6, <2>7, EndStep DEF e
  <1> QED
    BY <1>3, <1>4, <1>5 DEF ListArrives

LEMMA ChangeArrivesStep ==
  ASSUME ListInv, NEW m \in net, ChangeArrives(m), UNCHANGED <<records, missed>>
  PROVE  ListInv'
  <1> DEFINE e == ui[m.from]
             b == InPlace(m, e)
             d == [b EXCEPT !.timer = TRUE]
  <1>1. m.op \in Changes /\ m.op # "list"
    BY DEF ChangeArrives, Changes
  <1>2. missed' \in BOOLEAN /\ (missed => missed')
    BY DEF ListInv, ListType
  <1>3. CASE m.state = "failed" /\ ui' = [ui EXCEPT ![m.from] = Finally(m, e)] /\ net' = net \ {m}
    BY <1>1, <1>2, <1>3, EndPlain
  <1>4. CASE ui' = [ui EXCEPT ![m.from] = Finally(m, d)] /\ net' = net \ {m}
    <2>1. e \in CompSet /\ m \in MsgSet /\ e.gen <= e.req
      BY Shape DEF ListInv, CurrentInv
    <2>2. /\ b \in CompSet
          /\ b.kind = e.kind /\ b.gen = e.gen /\ b.req = e.req /\ b.busy = e.busy /\ b.saving = e.saving
          /\ b.session = e.session /\ b.pending = e.pending
      BY <2>1, InPlaceFields
    <2> HIDE DEF b, e
    <2>3. /\ d \in CompSet /\ d.kind = b.kind /\ d.req = b.req /\ d.gen = b.gen /\ d.busy = b.busy
          /\ d.saving = b.saving /\ d.session = b.session /\ d.pending = b.pending /\ d.timer
      <3>1. d \in CompSet
        BY <2>2 DEF CompSet
      <3> QED
        BY <2>2, <3>1 DEF CompSet
    <2> HIDE DEF d
    <2>4. SameWaits(d, e) /\ EndsAs(m, e, d) /\ d.gen <= d.req
      BY <2>1, <2>2, <2>3 DEF SameWaits, EndsAs
    <2> QED
      BY <1>2, <1>4, <2>2, <2>3, <2>4, EndStep DEF e
  <1>5. CASE LoadList(m.from, e, {m}, m.row, m.then)
    <2>1. m.from \in 1 .. Len(ui) /\ e \in CompSet /\ SameWaits(e, ui[m.from]) /\ m \in MsgSet
      BY Shape DEF ListInv, SameWaits
    <2>2. {m} \in SUBSET net /\ m.row \in Uuids \cup {NoUuid} /\ m.then \in {"none", "busy", "save", "probe"}
      BY <2>1 DEF MsgSet
    <2> QED
      BY <1>1, <1>5, <2>1, <2>2, LoadListStep
  <1> QED
    BY <1>3, <1>4, <1>5 DEF ChangeArrives

LEMMA ProbeArrivesStep ==
  ASSUME ListInv, NEW m \in net, ProbeArrives(m), UNCHANGED <<records, missed>>
  PROVE  ListInv'
  <1> DEFINE e == ui[m.from]
             d == [e EXCEPT !.ptimer = TRUE]
  <1>1. m.op = "probe" /\ m.op # "list" /\ m.op \notin Changes /\ net' = net \ {m}
    BY DEF ProbeArrives, Changes
  <1>2. missed' \in BOOLEAN /\ (missed => missed')
    BY DEF ListInv, ListType
  <1>3. CASE ui' = [ui EXCEPT ![m.from] = Finally(m, e)]
    BY <1>1, <1>2, <1>3, EndPlain
  <1>4. CASE ui' = [ui EXCEPT ![m.from] = Finally(m, d)]
    <2>1. e \in CompSet /\ e.gen <= e.req
      BY Shape DEF ListInv, CurrentInv
    <2> HIDE DEF e
    <2>2. /\ d \in CompSet /\ SameView(d, e) /\ d.busy = e.busy
          /\ d.saving = e.saving /\ d.session = e.session /\ d.pending = e.pending
      <3>1. d \in CompSet
        BY <2>1 DEF CompSet
      <3> QED
        BY <2>1, <3>1 DEF CompSet, SameView
    <2> HIDE DEF d
    <2>3. SameWaits(d, e) /\ EndsAs(m, e, d) /\ d.gen <= d.req /\ d.kind = e.kind /\ d.req = e.req
      BY <1>1, <2>1, <2>2 DEF SameWaits, EndsAs, SameView
    <2> QED
      BY <1>1, <1>2, <1>4, <2>2, <2>3, EndStep DEF e
  <1> QED
    BY <1>3, <1>4 DEF ProbeArrives

LEMMA ArrivesStep ==
  ASSUME ListInv, NEW m \in net, Arrives(m)
  PROVE  ListInv'
  BY ListArrivesStep, ChangeArrivesStep, ProbeArrivesStep DEF Arrives

LEMMA LostStep ==
  ASSUME ListInv, NEW m \in net, Lost(m)
  PROVE  ListInv'
  <1> DEFINE e == ui[m.from]
             b == StopProbeLoop(e)
             f == Finally(m, b)
  <1>0. m.from \in 1 .. Len(ui) /\ e \in CompSet /\ m \in MsgSet /\ Len(ui) \in Nat
    BY Shape DEF ListInv
  <1>1. net' = net \ {m} /\ UNCHANGED records
    BY DEF Lost
  <1>2. /\ missed' \in BOOLEAN /\ (missed => missed')
        /\ m.op \in Changes /\ m.state = "ok" => missed'
    <2>1. missed' = (missed \/ (m.state = "ok" /\ m.op \notin {"list", "probe"}))
      BY DEF Lost
    <2>2. missed \in BOOLEAN
      BY DEF ListInv, ListType
    <2>3. m.op \in Changes => m.op \notin {"list", "probe"}
      BY DEF Changes
    <2> QED
      BY <2>1, <2>2, <2>3
  <1>3. CASE m.op = "list" /\ IsLatest(m, e)
    <2>1. ui' = [ui EXCEPT ![m.from] = Finally(m, [e EXCEPT !.err = TRUE])]
      BY <1>3 DEF Lost
    <2> QED
      BY <1>1, <1>2, <1>3, <2>1, EndErr DEF IsLatest
  <1>4. CASE m.op = "probe" /\ m.req = e.session /\ e.enabled
    <2>1. ui' = [ui EXCEPT ![m.from] = f]
      BY <1>4 DEF Lost
    <2>2. /\ b \in CompSet
          /\ b.kind = e.kind /\ b.rows = e.rows /\ b.gen = e.gen /\ b.req = e.req
          /\ b.err = e.err /\ b.timer = e.timer /\ b.busy = e.busy /\ b.saving = e.saving
          /\ b.session = e.session + 1 /\ b.pending = FALSE
      BY <1>0, StopFields
    <2>3. m.then = "probe" /\ m.op # "list" /\ m.op \notin Changes
      BY <1>4 DEF ListInv, WaitInv, Changes
    <2>4. f = b
      <3>1. e.session \in Nat
        BY <1>0 DEF CompSet
      <3> HIDE DEF b, e
      <3>2. m.req # b.session
        BY <1>4, <2>2, <3>1
      <3> QED
        BY <2>3, <3>2 DEF Finally
    <2> HIDE DEF f, b, e
    <2>5. f \in CompSet /\ SameView(f, e)
      BY <2>2, <2>4 DEF SameView
    <2>6. ListType'
      BY <1>1, <1>2, <2>1, <2>5, EndType DEF ListInv
    <2>7. CurrentInv'
      <3>1. EndsAs(m, e, f)
        BY <2>3, <2>5 DEF EndsAs
      <3>2. f.kind = ui[m.from].kind /\ f.req = ui[m.from].req /\ f.gen <= f.req
        BY <1>0, <2>5 DEF SameView, ListInv, CurrentInv, e
      <3> QED
        BY <1>1, <1>2, <2>1, <2>5, <3>1, <3>2, CurrentEnds DEF ListInv, e
    <2>8. WaitInv'
      <3> DEFINE i == m.from
                 M == {m}
                 N == {}
      <3>1. /\ Len(ui') = Len(ui) /\ ui'[i] = f
            /\ \A j \in 1 .. Len(ui) : j # i => ui'[j] = ui[j]
        BY <1>0, <2>1, <2>5, Put DEF ListInv, ListType
      <3>2. /\ net' = (net \ M) \cup N
            /\ \A x \in M : x.from = i /\ x.then = "probe"
            /\ \A x \in N : x.then = "none" /\ x.op # "probe"
        BY <1>1, <2>3
      <3>3. /\ ui'[i].busy = ui[i].busy /\ ui'[i].saving = ui[i].saving
            /\ ui'[i].session = ui[i].session + 1 /\ ~ui'[i].pending
        BY <2>2, <2>4, <3>1 DEF e
      <3>4. /\ Len(ui') \in Nat /\ Len(ui') >= Len(ui)
            /\ \A j \in Len(ui) + 1 .. Len(ui') : ui'[j].busy = {} /\ ~ui'[j].saving /\ ~ui'[j].pending
        BY <1>0, <3>1
      <3> HIDE DEF M, N
      <3> QED
        BY <1>0, <3>1, <3>2, <3>3, <3>4, WaitStops DEF ListInv
    <2> QED
      BY <2>6, <2>7, <2>8 DEF ListInv
  <1>5. CASE /\ ~(m.op = "list" /\ IsLatest(m, e))
             /\ ~(m.op = "probe" /\ m.req = e.session /\ e.enabled)
    <2>1. ui' = [ui EXCEPT ![m.from] = Finally(m, e)]
      BY <1>5 DEF Lost
    <2> QED
      BY <1>1, <1>2, <1>5, <2>1, EndPlain DEF IsLatest
  <1> QED
    BY <1>3, <1>4, <1>5
-----------------------------------------------------------------------------
(* The list pages: the API counts no probe that was not asked for.         *)
ProbeInv ==
  /\ probeCount \in Nat /\ actions \in Nat
  /\ IsFiniteSet(SentProbes)
  /\ probeCount + Cardinality(SentProbes) <= actions

LEMMA ProbesKept ==
  ASSUME ProbeInv, SentProbes' \subseteq SentProbes, UNCHANGED probeCount,
         actions' = actions \/ actions' = actions + 1
  PROVE  ProbeInv'
  <1>1. IsFiniteSet(SentProbes') /\ Cardinality(SentProbes') <= Cardinality(SentProbes)
    BY FS_Subset DEF ProbeInv
  <1>2. Cardinality(SentProbes) \in Nat /\ Cardinality(SentProbes') \in Nat
    BY <1>1, FS_CardinalityType DEF ProbeInv
  <1> QED
    BY <1>1, <1>2 DEF ProbeInv

LEMMA ProbeSent ==
  ASSUME ProbeInv, NEW n, SentProbes' \subseteq SentProbes \cup {n}, UNCHANGED probeCount,
         actions' = actions + 1
  PROVE  ProbeInv'
  <1> DEFINE S == SentProbes \cup {n}
  <1>0. IsFiniteSet(SentProbes)
    BY DEF ProbeInv
  <1>1. Cardinality(SentProbes) \in Nat
    BY <1>0, FS_CardinalityType
  <1>2. /\ IsFiniteSet(S)
        /\ Cardinality(S) = IF n \in SentProbes THEN Cardinality(SentProbes) ELSE Cardinality(SentProbes) + 1
    BY <1>0, FS_AddElement
  <1>3. Cardinality(S) <= Cardinality(SentProbes) + 1
    BY <1>1, <1>2
  <1> HIDE DEF S
  <1>4. IsFiniteSet(SentProbes') /\ Cardinality(SentProbes') <= Cardinality(S)
    BY <1>2, FS_Subset DEF S
  <1>5. Cardinality(S) \in Nat /\ Cardinality(SentProbes') \in Nat
    BY <1>2, <1>4, FS_CardinalityType
  <1> QED
    BY <1>1, <1>3, <1>4, <1>5 DEF ProbeInv

LEMMA ProbeServed ==
  ASSUME ProbeInv, NEW m \in SentProbes, SentProbes' \subseteq SentProbes \ {m},
         probeCount' = probeCount + 1, UNCHANGED actions
  PROVE  ProbeInv'
  <1> DEFINE S == SentProbes \ {m}
  <1>0. IsFiniteSet(SentProbes)
    BY DEF ProbeInv
  <1>1. Cardinality(SentProbes) \in Nat
    BY <1>0, FS_CardinalityType
  <1>2. IsFiniteSet(S) /\ Cardinality(S) = Cardinality(SentProbes) - 1
    BY <1>0, FS_RemoveElement
  <1> HIDE DEF S
  <1>3. IsFiniteSet(SentProbes') /\ Cardinality(SentProbes') <= Cardinality(S)
    BY <1>2, FS_Subset DEF S
  <1>4. Cardinality(SentProbes') \in Nat
    BY <1>3, FS_CardinalityType
  <1> QED
    BY <1>1, <1>2, <1>3, <1>4 DEF ProbeInv

LEMMA LoadsNoProbe ==
  ASSUME NEW i, NEW d, NEW done, NEW row, NEW then, LoadList(i, d, done, row, then)
  PROVE  SentProbes' \subseteq SentProbes
  <1>1. Msg("list", i, d.req + 1, row, FALSE, then).op = "list"
    BY DEF Msg
  <1> QED
    BY <1>1 DEF LoadList, SentProbes

LEMMA SendsNoProbe ==
  ASSUME NEW op, op # "probe", NEW i, NEW req, NEW row, NEW disabled, NEW then,
         Send(Msg(op, i, req, row, disabled, then))
  PROVE  SentProbes' \subseteq SentProbes
  <1>1. Msg(op, i, req, row, disabled, then).op = op
    BY DEF Msg
  <1> QED
    BY <1>1 DEF Send, SentProbes

LEMMA ProbeUser ==
  ASSUME ProbeInv,
         \/ Refresh \/ ProbeToggle
         \/ \E u \in Touched : Toggle(u) \/ Delete(u) \/ \E disabled \in BOOLEAN : Save(u, disabled)
         \/ \E i \in DOMAIN ui : FireProbe(i)
  PROVE  ProbeInv'
  <1>1. CASE Refresh
    <2>1. SentProbes' \subseteq SentProbes
      BY <1>1, LoadsNoProbe DEF Refresh
    <2> QED
      BY <1>1, <2>1, ProbesKept DEF Refresh, Act
  <1>2. CASE ProbeToggle
    <2>1. CASE net' = net
      <3>1. SentProbes' \subseteq SentProbes
        BY <2>1 DEF SentProbes
      <3> QED
        BY <1>2, <3>1, ProbesKept DEF ProbeToggle, Act
    <2>2. ASSUME NEW n, net' = net \cup {n}
          PROVE  ProbeInv'
      <3>1. SentProbes' \subseteq SentProbes \cup {n}
        BY <2>2 DEF SentProbes
      <3> QED
        BY <1>2, <3>1, ProbeSent DEF ProbeToggle, Act
    <2> QED
      BY <1>2, <2>1, <2>2 DEF ProbeToggle, Send
  <1>3. ASSUME NEW u \in Touched, Toggle(u)
        PROVE  ProbeInv'
    <2>1. SentProbes' \subseteq SentProbes
      BY <1>3, SendsNoProbe DEF Toggle
    <2> QED
      BY <1>3, <2>1, ProbesKept DEF Toggle, Act
  <1>4. ASSUME NEW u \in Touched, Delete(u)
        PROVE  ProbeInv'
    <2>1. SentProbes' \subseteq SentProbes
      BY <1>4, SendsNoProbe DEF Delete
    <2> QED
      BY <1>4, <2>1, ProbesKept DEF Delete, Act
  <1>5. ASSUME NEW u \in Touched, NEW disabled \in BOOLEAN, Save(u, disabled)
        PROVE  ProbeInv'
    <2> DEFINE op == IF u \notin DOMAIN ui[Screen].rows THEN "create" ELSE "edit"
    <2>1. Send(Msg(op, Screen, 0, u, disabled, "save"))
      BY <1>5 DEF Save
    <2>2. op # "probe"
      OBVIOUS
    <2> HIDE DEF op
    <2>3. SentProbes' \subseteq SentProbes
      BY <2>1, <2>2, SendsNoProbe
    <2> QED
      BY <1>5, <2>3, ProbesKept DEF Save, Act
  <1>6. ASSUME NEW i \in DOMAIN ui, FireProbe(i)
        PROVE  ProbeInv'
    <2>1. PICK n : net' = net \cup {n}
      BY <1>6 DEF FireProbe, Send
    <2>2. SentProbes' \subseteq SentProbes \cup {n}
      BY <2>1 DEF SentProbes
    <2> QED
      BY <1>6, <2>2, ProbeSent DEF FireProbe, Act
  <1> QED
    BY <1>1, <1>2, <1>3, <1>4, <1>5, <1>6

LEMMA ReplyNoProbe ==
  ASSUME ListType, NEW m \in net, NEW st, st # "sent", NEW r, Reply(m, st, r)
  PROVE  SentProbes' \subseteq SentProbes \ {m}
  <1>1. m \in MsgSet
    BY DEF ListType
  <1>2. [m EXCEPT !.state = st, !.rows = r].state = st
    BY <1>1 DEF MsgSet
  <1> QED
    BY <1>2 DEF Reply, SentProbes

LEMMA AnswersSendNone ==
  ASSUME ListType, NEW m \in net, Serve(m) \/ Arrives(m) \/ Lost(m)
  PROVE  SentProbes' \subseteq SentProbes
  <1>1. CASE Serve(m)
    <2>1. \E st \in {"ok", "failed"} : \E r : Reply(m, st, r)
      BY <1>1 DEF Serve, ServeProbe, ServeList, ServeSetDisabled, ServeSave, ServeDelete, Changed, Refused
    <2> QED
      BY <2>1, ReplyNoProbe
  <1>2. CASE net' = net \ {m}
    BY <1>2 DEF SentProbes
  <1>3. CASE Arrives(m) /\ ChangeArrives(m)
    BY <1>2, <1>3, LoadsNoProbe DEF ChangeArrives
  <1> QED
    BY <1>1, <1>2, <1>3 DEF Arrives, ListArrives, ProbeArrives, Lost

LEMMA ProbeAnswers ==
  ASSUME ListType, ProbeInv, NEW m \in net, Serve(m) \/ Arrives(m) \/ Lost(m)
  PROVE  ProbeInv'
  <1>1. CASE Serve(m) /\ ServeProbe(m)
    <2>1. m \in SentProbes
      BY <1>1 DEF Serve, ServeProbe, SentProbes
    <2>2. SentProbes' \subseteq SentProbes \ {m}
      BY <1>1, ReplyNoProbe DEF ServeProbe
    <2> QED
      BY <1>1, <2>1, <2>2, ProbeServed DEF Serve, ServeProbe
  <1>2. CASE UNCHANGED <<probeCount, actions>>
    BY <1>2, AnswersSendNone, ProbesKept
  <1> QED
    BY <1>1, <1>2 DEF Serve, ServeList, ServeSetDisabled, ServeSave, ServeDelete, Changed, Refused,
                      Arrives, Lost

LEMMA ProbeTimers ==
  ASSUME ProbeInv, NEW i, TimerFires(i) \/ ProbeRefresh(i)
  PROVE  ProbeInv'
  <1>1. SentProbes' \subseteq SentProbes
    BY LoadsNoProbe DEF TimerFires, ProbeRefresh
  <1> QED
    BY <1>1, ProbesKept DEF TimerFires, ProbeRefresh

LEMMA LeaveSendsNone ==
  ASSUME NEW kind, Leave(kind)
  PROVE  SentProbes' \subseteq SentProbes
  <1>1. CASE net' = net
    BY <1>1 DEF SentProbes
  <1>2. CASE Send(Msg("list", Screen + 1, 1, NoUuid, FALSE, "none"))
    BY <1>2, SendsNoProbe
  <1> QED
    BY <1>1, <1>2 DEF Leave

LEMMA ProbeLeave ==
  ASSUME ProbeInv, NEW kind, Leave(kind)
  PROVE  ProbeInv'
  BY LeaveSendsNone, ProbesKept DEF Leave
-----------------------------------------------------------------------------
(* The list pages together.                                                *)
PageInv == ListInv /\ ProbeInv

LEMMA PageStart == ListInit => PageInv
  <1> SUFFICES ASSUME ListInit PROVE PageInv
    OBVIOUS
  <1> DEFINE c == Component("tunnel")
  <1>1. c \in CompSet
    BY ComponentType DEF Kinds
  <1>2. c.gen = 0 /\ c.req = 0 /\ c.timer /\ c.busy = {} /\ ~c.saving /\ ~c.pending
    BY DEF Component
  <1>3. ui = <<c>> /\ net = {} /\ missed = FALSE /\ probeCount = 0 /\ actions = 0 /\ records = Records
    BY DEF ListInit
  <1> HIDE DEF c
  <1>4. ui \in Seq(CompSet) /\ ui # << >> /\ Len(ui) = 1 /\ ui[1] = c
    BY <1>1, <1>3
  <1>5. ListType
    BY <1>3, <1>4, RecordsType DEF ListType
  <1>6. WaitInv
    BY <1>2, <1>3, <1>4 DEF WaitInv
  <1>7. CurrentInv
    BY <1>2, <1>3, <1>4 DEF CurrentInv, Behind, Screen
  <1>8. ProbeInv
    <2>1. SentProbes = {}
      BY <1>3 DEF SentProbes
    <2> QED
      BY <1>3, <2>1, FS_EmptySet DEF ProbeInv
  <1> QED
    BY <1>5, <1>6, <1>7, <1>8 DEF PageInv, ListInv

LEMMA PageKept ==
  ASSUME PageInv, UNCHANGED listVars
  PROVE  PageInv'
  BY DEF listVars, PageInv, ListInv, ListType, WaitInv, CurrentInv, Behind, Answering, Loading,
         Stored, Screen, ProbeInv, SentProbes

LEMMA UserStep ==
  ASSUME PageInv,
         \/ Refresh \/ ProbeToggle
         \/ \E u \in Touched : Toggle(u) \/ Delete(u) \/ \E disabled \in BOOLEAN : Save(u, disabled)
         \/ \E i \in DOMAIN ui : FireProbe(i)
  PROVE  PageInv'
  <1>1. ListInv'
    BY RefreshStep, ProbeToggleStep, ToggleStep, DeleteStep, SaveStep, FireProbeStep DEF PageInv
  <1>2. ProbeInv'
    BY ProbeUser DEF PageInv
  <1> QED
    BY <1>1, <1>2 DEF PageInv

LEMMA GoesOnStep ==
  ASSUME PageInv,
         \/ \E i \in DOMAIN ui : TimerFires(i) \/ ProbeRefresh(i)
         \/ \E kind \in Kinds : Leave(kind)
         \/ \E m \in net : Serve(m) \/ Arrives(m) \/ Lost(m)
  PROVE  PageInv'
  <1>1. ListInv'
    BY TimerStep, LeaveStep, ServeStep, ArrivesStep, LostStep DEF PageInv
  <1>2. ProbeInv'
    BY ProbeTimers, ProbeLeave, ProbeAnswers DEF PageInv, ListInv
  <1> QED
    BY <1>1, <1>2 DEF PageInv

LEMMA PageNextStep ==
  ASSUME PageInv, ListNext
  PROVE  PageInv'
  <1>1. Pages \subseteq Kinds
    BY RecordsType
  <1>2. CASE ListUser
    BY <1>2, UserStep DEF ListUser, ChangePage
  <1> QED
    BY <1>1, <1>2, GoesOnStep DEF ListNext

LEMMA PageTypes == PageInv => ListTypeOK
  <1> SUFFICES ASSUME PageInv PROVE ListTypeOK
    OBVIOUS
  <1>1. \A r \in RowLists : \A u \in DOMAIN r : r[u] \in RowSet
    BY RowsElim
  <1>2. DOMAIN records = Kinds /\ \A k \in Kinds : records[k] \in RowLists
    BY DEF PageInv, ListInv, ListType
  <1>3. \A i \in DOMAIN ui : i \in 1 .. Len(ui) /\ ui[i] \in CompSet
    BY Shape DEF PageInv, ListInv
  <1>4. \A i \in DOMAIN ui : ui[i].kind \in Kinds /\ ui[i].rows \in RowLists /\ ui[i].busy \subseteq Touched
    BY <1>3 DEF CompSet
  <1>5. \A i \in DOMAIN ui : ui[i].gen <= ui[i].req
    BY <1>3 DEF PageInv, ListInv, CurrentInv
  <1>6. probeCount <= actions
    <2>1. Cardinality(SentProbes) \in Nat
      BY FS_CardinalityType DEF PageInv, ProbeInv
    <2> QED
      BY <2>1 DEF PageInv, ProbeInv
  <1> QED
    BY <1>1, <1>2, <1>4, <1>5, <1>6 DEF ListTypeOK

LEMMA PageSettled == PageInv => SettledIsCurrent
  <1> SUFFICES ASSUME PageInv, Settled, ~ui[Screen].err, ~missed
               PROVE  ui[Screen].rows = Normalize(ui[Screen].kind, records[ui[Screen].kind])
    BY DEF SettledIsCurrent
  <1>1. ~Behind /\ ~Loading
    BY DEF Settled, Behind, Answering, Loading
  <1> QED
    BY <1>1 DEF PageInv, ListInv, CurrentInv, Stored

LEMMA One ==
  ASSUME NEW S, NEW x \in S, \A y \in S : y = x
  PROVE  Cardinality(S) = 1
  <1>1. S = {x}
    OBVIOUS
  <1> QED
    BY <1>1, FS_Singleton

LEMMA PageWaits == PageInv => WaitsHaveRequests
  <1> SUFFICES ASSUME PageInv, NEW i \in DOMAIN ui
               PROVE  /\ \A u \in ui[i].busy : Cardinality(Waits(i, "busy", u)) = 1
                      /\ ui[i].saving => Cardinality(Waits(i, "save", NoUuid)) = 1
                      /\ Cardinality(ProbesOf(i)) = IF ui[i].pending THEN 1 ELSE 0
    BY DEF WaitsHaveRequests
  <1>0. WaitInv /\ i \in 1 .. Len(ui)
    BY Shape DEF PageInv, ListInv
  <1>1. \A u \in ui[i].busy : Cardinality(Waits(i, "busy", u)) = 1
    <2> TAKE u \in ui[i].busy
    <2>1. PICK m \in net : m.from = i /\ m.then = "busy" /\ m.row = u
      BY <1>0 DEF WaitInv
    <2>2. m \in Waits(i, "busy", u) /\ \A n \in Waits(i, "busy", u) : n = m
      BY <1>0, <2>1 DEF Waits, WaitInv, SameWait
    <2> QED
      BY <2>2, One
  <1>2. ui[i].saving => Cardinality(Waits(i, "save", NoUuid)) = 1
    <2> SUFFICES ASSUME ui[i].saving
                 PROVE  Cardinality(Waits(i, "save", NoUuid)) = 1
      OBVIOUS
    <2>1. PICK m \in net : m.from = i /\ m.then = "save"
      BY <1>0 DEF WaitInv
    <2>2. m \in Waits(i, "save", NoUuid) /\ \A n \in Waits(i, "save", NoUuid) : n = m
      BY <1>0, <2>1 DEF Waits, WaitInv, SameWait
    <2> QED
      BY <2>2, One
  <1>3. CASE ui[i].pending
    <2>1. PICK m \in net : m.from = i /\ m.then = "probe" /\ m.req = ui[i].session
      BY <1>0, <1>3 DEF WaitInv
    <2>2. m \in ProbesOf(i) /\ \A n \in ProbesOf(i) : n = m
      BY <1>0, <2>1 DEF ProbesOf, WaitInv, SameWait
    <2>3. Cardinality(ProbesOf(i)) = 1
      BY <2>2, One
    <2> QED
      BY <1>1, <1>2, <1>3, <2>3
  <1>4. CASE ~ui[i].pending
    <2>1. ProbesOf(i) = {}
      BY <1>0, <1>4 DEF ProbesOf, WaitInv
    <2>2. Cardinality(ProbesOf(i)) = 0
      BY <2>1, FS_EmptySet
    <2> QED
      BY <1>1, <1>2, <1>4, <2>2
  <1> QED
    BY <1>3, <1>4
-----------------------------------------------------------------------------
(* The list pages: only the page on the screen probes.                     *)
QuietInv == \A i \in 1 .. Len(ui) - 1 : ~ui[i].enabled

LEMMA FinallyEnabled ==
  ASSUME NEW m \in MsgSet, NEW d \in CompSet
  PROVE  Finally(m, d).enabled = d.enabled
  <1>1. CASE m.then = "busy"
    BY <1>1 DEF Finally, CompSet
  <1>2. CASE m.then = "save"
    BY <1>2 DEF Finally, CompSet
  <1>3. CASE m.then = "probe" /\ m.req = d.session
    BY <1>3 DEF Finally, CompSet
  <1>4. CASE m.then \notin {"busy", "save"} /\ ~(m.then = "probe" /\ m.req = d.session)
    <2>1. Finally(m, d) = d
      BY <1>4 DEF Finally
    <2> QED
      BY <1>4, <2>1
  <1> QED
    BY <1>1, <1>2, <1>3, <1>4

LEMMA InPlaceEnabled ==
  ASSUME NEW d \in CompSet, NEW m \in MsgSet
  PROVE  InPlace(m, d).enabled = d.enabled
  BY DEF InPlace, CompSet

LEMMA Below ==
  ASSUME NEW n \in Nat, NEW j \in 1 .. n - 1
  PROVE  j \in 1 .. n /\ j # n
  OBVIOUS

(* A step that changes one component, and starts no loop in it unless it   *)
(* is on the screen.                                                       *)
LEMMA QuietKept ==
  ASSUME ListType, QuietInv, NEW i \in 1 .. Len(ui), NEW e,
         ui' = [ui EXCEPT ![i] = e], i = Len(ui) \/ ~e.enabled \/ e.enabled = ui[i].enabled
  PROVE  QuietInv'
  <1>1. Len(ui') = Len(ui) /\ Len(ui) \in Nat
    BY DEF ListType
  <1>2. \A j \in 1 .. Len(ui) : ui'[j] = IF j = i THEN e ELSE ui[j]
    BY DEF ListType
  <1> SUFFICES ASSUME NEW j \in 1 .. Len(ui) - 1 PROVE ~ui'[j].enabled
    BY <1>1, Zenon DEF QuietInv
  <1>3. j \in 1 .. Len(ui) - 1 /\ j \in 1 .. Len(ui) /\ j # Len(ui)
    BY <1>1, Below, Zenon
  <1>4. ~ui[j].enabled
    BY <1>3, Zenon DEF QuietInv
  <1>5. ui'[j] = IF j = i THEN e ELSE ui[j]
    BY <1>2, <1>3, Zenon
  <1>6. CASE j = i
    <2>1. ui'[j] = e /\ i # Len(ui)
      BY <1>3, <1>5, <1>6, Zenon
    <2> QED
      BY <1>4, <1>6, <2>1, Zenon
  <1>7. CASE j # i
    BY <1>4, <1>5, <1>7, Zenon
  <1> QED
    BY <1>6, <1>7

LEMMA QuietLoad ==
  ASSUME ListType, QuietInv, NEW i \in 1 .. Len(ui), NEW d \in CompSet,
         d.enabled = ui[i].enabled, NEW done, NEW row, NEW then, LoadList(i, d, done, row, then)
  PROVE  QuietInv'
  <1>1. [d EXCEPT !.req = @ + 1, !.err = FALSE].enabled = d.enabled
    BY DEF CompSet
  <1> QED
    BY <1>1, QuietKept DEF LoadList

LEMMA QuietUser ==
  ASSUME ListType, QuietInv,
         \/ Refresh \/ ProbeToggle
         \/ \E u \in Touched : Toggle(u) \/ Delete(u) \/ \E disabled \in BOOLEAN : Save(u, disabled)
         \/ \E i \in DOMAIN ui : FireProbe(i)
  PROVE  QuietInv'
  <1>0. Screen \in 1 .. Len(ui) /\ Screen = Len(ui) /\ DOMAIN ui = 1 .. Len(ui)
    BY Shape DEF Screen
  <1>1. CASE Refresh
    BY <1>0, <1>1, Shape, QuietLoad DEF Refresh
  <1>2. CASE \E e : ui' = [ui EXCEPT ![Screen] = e]
    BY <1>0, <1>2, QuietKept
  <1>3. CASE ProbeToggle
    BY <1>2, <1>3 DEF ProbeToggle
  <1>4. ASSUME NEW u \in Touched, Toggle(u) \/ \E disabled \in BOOLEAN : Save(u, disabled)
        PROVE  QuietInv'
    BY <1>2, <1>4 DEF Toggle, Save
  <1>5. ASSUME NEW u \in Touched, Delete(u)
        PROVE  QuietInv'
    BY <1>5 DEF Delete, QuietInv
  <1>6. ASSUME NEW i \in DOMAIN ui, FireProbe(i)
        PROVE  QuietInv'
    <2>1. ui' = [ui EXCEPT ![i] = [ui[i] EXCEPT !.pending = TRUE]] /\ ui[i] \in CompSet
      BY <1>0, <1>6, Shape DEF FireProbe
    <2>2. [ui[i] EXCEPT !.pending = TRUE].enabled = ui[i].enabled
      BY <2>1 DEF CompSet
    <2> QED
      BY <1>0, <2>1, <2>2, QuietKept
  <1> QED
    BY <1>1, <1>3, <1>4, <1>5, <1>6

LEMMA QuietLeave ==
  ASSUME ListType, QuietInv, NEW kind \in Kinds, Leave(kind)
  PROVE  QuietInv'
  <1> DEFINE e == Destroyed(ui[Screen])
             old == [ui EXCEPT ![Screen] = e]
  <1>1. Screen \in 1 .. Len(ui) /\ Screen = Len(ui) /\ ui[Screen] \in CompSet
    BY Shape DEF Screen
  <1>2. e \in CompSet /\ ~e.enabled
    <2>1. StopProbeLoop(ui[Screen]) \in CompSet /\ ~StopProbeLoop(ui[Screen]).enabled
      BY <1>1, StopFields DEF StopProbeLoop, CompSet
    <2>2. e \in CompSet
      BY <1>1, DestroyedFields
    <2> QED
      BY <2>1, <2>2 DEF Destroyed, CompSet
  <1> HIDE DEF e
  <1>3. /\ old \in Seq(CompSet) /\ Len(old) = Len(ui) /\ Len(ui) \in Nat
        /\ \A j \in 1 .. Len(ui) : ~old[j].enabled
    BY <1>1, <1>2 DEF ListType, QuietInv
  <1>4. \E c \in CompSet : ui' = Append(old, c)
    <2>1. Component(kind) \in CompSet
      BY ComponentType
    <2>2. [Component(kind) EXCEPT !.req = 1] \in CompSet
      BY <2>1 DEF CompSet
    <2> QED
      BY <2>1, <2>2 DEF Leave, e
  <1> HIDE DEF old
  <1> QED
    BY <1>3, <1>4 DEF QuietInv

LEMMA QuietAnswers ==
  ASSUME ListType, QuietInv, NEW m \in net, Serve(m) \/ Arrives(m) \/ Lost(m)
  PROVE  QuietInv'
  <1> DEFINE d == ui[m.from]
  <1>0. m \in MsgSet /\ m.from \in 1 .. Len(ui) /\ d \in CompSet
    BY Shape
  <1> HIDE DEF d
  <1>1. CASE Serve(m)
    BY <1>1 DEF Serve, QuietInv
  <1>2. ASSUME NEW f \in CompSet, f.enabled = d.enabled \/ ~f.enabled,
               ui' = [ui EXCEPT ![m.from] = Finally(m, f)]
        PROVE  QuietInv'
    BY <1>0, <1>2, FinallyEnabled, QuietKept DEF d
  <1>3. CASE Arrives(m) /\ ListArrives(m)
    <2>1. ASSUME m.state = "ok"
          PROVE  /\ [d EXCEPT !.rows = Normalize(d.kind, m.rows), !.gen = m.req] \in CompSet
                 /\ [d EXCEPT !.rows = Normalize(d.kind, m.rows), !.gen = m.req].enabled = d.enabled
      <3>1. Normalize(d.kind, m.rows) \in RowLists /\ m.req \in Nat
        BY <1>0, NormalizeType DEF CompSet, MsgSet
      <3> QED
        BY <1>0, <3>1 DEF CompSet
    <2>2. [d EXCEPT !.err = TRUE] \in CompSet /\ [d EXCEPT !.err = TRUE].enabled = d.enabled
      BY <1>0 DEF CompSet
    <2> QED
      BY <1>0, <1>2, <1>3, <2>1, <2>2 DEF ListArrives, d
  <1>4. CASE Arrives(m) /\ ChangeArrives(m)
    <2> DEFINE f == InPlace(m, d)
    <2>1. f \in CompSet /\ f.enabled = d.enabled
      BY <1>0, InPlaceFields, InPlaceEnabled
    <2> HIDE DEF f
    <2>2. [f EXCEPT !.timer = TRUE] \in CompSet /\ [f EXCEPT !.timer = TRUE].enabled = d.enabled
      BY <2>1 DEF CompSet
    <2>3. CASE LoadList(m.from, d, {m}, m.row, m.then)
      BY <1>0, <2>3, QuietLoad DEF d
    <2>4. CASE ui' = [ui EXCEPT ![m.from] = Finally(m, d)]
      BY <1>0, <1>2, <2>4
    <2>5. CASE ui' = [ui EXCEPT ![m.from] = Finally(m, [f EXCEPT !.timer = TRUE])]
      BY <1>2, <2>2, <2>5
    <2> QED
      BY <1>4, <2>3, <2>4, <2>5 DEF ChangeArrives, d, f
  <1>5. CASE Arrives(m) /\ ProbeArrives(m)
    <2>1. [d EXCEPT !.ptimer = TRUE] \in CompSet /\ [d EXCEPT !.ptimer = TRUE].enabled = d.enabled
      BY <1>0 DEF CompSet
    <2> QED
      BY <1>0, <1>2, <1>5, <2>1 DEF ProbeArrives, d
  <1>6. CASE Lost(m)
    <2>1. [d EXCEPT !.err = TRUE] \in CompSet /\ [d EXCEPT !.err = TRUE].enabled = d.enabled
      BY <1>0 DEF CompSet
    <2>2. StopProbeLoop(d) \in CompSet /\ ~StopProbeLoop(d).enabled
      BY <1>0, StopFields DEF StopProbeLoop, CompSet
    <2> QED
      BY <1>0, <1>2, <1>6, <2>1, <2>2 DEF Lost, d
  <1> QED
    BY <1>1, <1>3, <1>4, <1>5, <1>6 DEF Arrives

LEMMA QuietTimers ==
  ASSUME ListType, QuietInv, NEW i \in DOMAIN ui, TimerFires(i) \/ ProbeRefresh(i)
  PROVE  QuietInv'
  <1>0. i \in 1 .. Len(ui) /\ ui[i] \in CompSet
    BY Shape
  <1>1. /\ [ui[i] EXCEPT !.timer = FALSE] \in CompSet
        /\ [ui[i] EXCEPT !.timer = FALSE].enabled = ui[i].enabled
        /\ [ui[i] EXCEPT !.ptimer = FALSE] \in CompSet
        /\ [ui[i] EXCEPT !.ptimer = FALSE].enabled = ui[i].enabled
    BY <1>0 DEF CompSet
  <1> QED
    BY <1>0, <1>1, QuietLoad DEF TimerFires, ProbeRefresh

LEMMA QuietNextStep ==
  ASSUME PageInv, QuietInv, ListNext
  PROVE  QuietInv'
  <1>1. Pages \subseteq Kinds /\ ListType
    BY RecordsType DEF PageInv, ListInv
  <1>2. CASE ListUser
    BY <1>1, <1>2, QuietUser DEF ListUser, ChangePage
  <1> QED
    BY <1>1, <1>2, QuietTimers, QuietLeave, QuietAnswers DEF ListNext

LEMMA QuietStart == ListInit => QuietInv
  BY DEF ListInit, QuietInv

LEMMA QuietSame ==
  ASSUME QuietInv, UNCHANGED listVars
  PROVE  QuietInv'
  BY DEF QuietInv, listVars
-----------------------------------------------------------------------------
(* The pages together.                                                     *)
IInv == PageInv /\ QuietInv /\ HistoryInv /\ MTRInv

LEMMA UIInvariant == Spec => []IInv
  <1>1. Init => IInv
    BY PageStart, QuietStart, HistoryStart, MTRStart DEF Init, IInv
  <1>2. IInv /\ [Next]_vars => IInv'
    <2> SUFFICES ASSUME IInv, [Next]_vars PROVE IInv'
      OBVIOUS
    <2>1. CASE ListNext /\ UNCHANGED <<historyVars, mtrVars>>
      BY <2>1, PageNextStep, QuietNextStep, HistoryKept, MTRKept DEF IInv
    <2>2. CASE HistoryNext /\ UNCHANGED <<listVars, mtrVars>>
      BY <2>2, PageKept, QuietSame, HistoryNextStep, MTRKept DEF IInv
    <2>3. CASE MTRNext /\ UNCHANGED <<listVars, historyVars>>
      BY <2>3, PageKept, QuietSame, HistoryKept, MTRNextStep DEF IInv
    <2>4. CASE UNCHANGED vars
      <3>1. UNCHANGED listVars /\ UNCHANGED historyVars /\ UNCHANGED mtrVars
        BY <2>4 DEF vars
      <3> QED
        BY <3>1, PageKept, HistoryKept, MTRKept, QuietSame DEF IInv
    <2> QED
      BY <2>1, <2>2, <2>3, <2>4 DEF Next
  <1> QED
    BY <1>1, <1>2, PTL DEF Spec
-----------------------------------------------------------------------------
(* The types of the pages: what is shown are rows, of the pages that there *)
(* are; the cursors and records of the history are those of the API; and   *)
(* the API never counts more probes than the loops were made to send.      *)
THEOREM UITypeCorrect == Spec => []TypeOK
  <1>1. IInv => TypeOK
    <2> SUFFICES ASSUME IInv PROVE TypeOK
      OBVIOUS
    <2>1. ListTypeOK
      BY PageTypes DEF IInv
    <2>2. HistoryTypeOK
      <3>1. hist \in HistSet /\ \A m \in queries : m.id \in Nat /\ 1 <= m.id /\ m.id <= hist.id
        BY DEF IInv, HistoryInv, HistoryType, QueryInv, QueryMsgs
      <3>2. /\ hist.filter \in FilterSet /\ hist.rows \subseteq 1 .. HistoryLen
            /\ hist.before \in 0 .. HistoryLen /\ hist.next \in 0 .. HistoryLen
            /\ hist.previous \in Seq(0 .. HistoryLen) /\ hist.id \in Nat
        BY <3>1 DEF HistSet
      <3> QED
        BY <3>1, <3>2 DEF HistoryTypeOK
    <2>3. MTRTypeOK
      BY DEF IInv, MTRInv
    <2> QED
      BY <2>1, <2>2, <2>3 DEF TypeOK
  <1> QED
    BY <1>1, UIInvariant, PTL

(* A list page that has settled shows what the API has, whatever the order *)
(* in which lists, changes and their answers came: loadList's request      *)
(* counter, the in-place change and the delayed refresh leave no gap.      *)
THEOREM UISettledIsCurrent == Spec => []SettledIsCurrent
  <1>1. IInv => SettledIsCurrent
    BY PageSettled DEF IInv
  <1> QED
    BY <1>1, UIInvariant, PTL

(* Every row or form that waits has one request under way that ends the    *)
(* wait in finally, and a probing loop one probe, on every page that was   *)
(* visited.                                                                *)
THEOREM UIWaitsHaveRequests == Spec => []WaitsHaveRequests
  <1>1. IInv => WaitsHaveRequests
    BY PageWaits DEF IInv
  <1> QED
    BY <1>1, UIInvariant, PTL

(* The history dialog shows the page that its filters and its cursor say,  *)
(* and the cursors of the pages before form the chain that nextPage made.  *)
THEOREM UIHistoryConsistent == Spec => []HistoryConsistent
  <1>1. IInv => HistoryConsistent
    BY DEF IInv, HistoryInv
  <1> QED
    BY <1>1, UIInvariant, PTL

(* The MTR dialog releases its stream when it is closed or the page is     *)
(* left, but for streams opened unseen and attempts that overlapped.       *)
THEOREM UIMTRReleased == Spec => []MTRReleased
  <1>1. IInv => MTRReleased
    BY DEF IInv, MTRInv
  <1> QED
    BY <1>1, UIInvariant, PTL

(* A page that has been left sends no probe, whatever was under way when   *)
(* it was left: stopProbeLoop in beforeDestroy is final, since nothing but *)
(* the switch on the screen sets the loop's flag again.                    *)
THEOREM UILeftPagesSilent == Spec => LeftPagesSilent
  <1>1. IInv /\ [Next]_vars => [ProbesFromScreen]_listVars
    <2> SUFFICES ASSUME IInv, Next, ~UNCHANGED listVars PROVE ProbesFromScreen
      BY DEF vars
    <2>1. ListNext
      BY DEF Next
    <2>2. ListType /\ QuietInv /\ Screen = Len(ui) /\ DOMAIN ui = 1 .. Len(ui) /\ Len(ui) \in Nat
      BY Shape DEF IInv, PageInv, ListInv, Screen
    <2>3. ASSUME SentProbes' \subseteq SentProbes
          PROVE  ProbesFromScreen
      BY <2>3 DEF ProbesFromScreen
    <2>4. ASSUME NEW i, NEW r, Send(Msg("probe", i, r, NoUuid, FALSE, "probe")), i = Screen
          PROVE  ProbesFromScreen
      <3>1. Msg("probe", i, r, NoUuid, FALSE, "probe").from = i
        BY DEF Msg
      <3> QED
        BY <2>4, <3>1 DEF Send, SentProbes, ProbesFromScreen
    <2>5. CASE Refresh
      BY <2>3, <2>5, LoadsNoProbe DEF Refresh
    <2>6. CASE ProbeToggle
      <3>1. CASE net' = net
        BY <2>3, <3>1 DEF SentProbes
      <3> QED
        BY <2>4, <2>6, <3>1 DEF ProbeToggle
    <2>7. ASSUME NEW u \in Touched, Toggle(u) \/ Delete(u)
          PROVE  ProbesFromScreen
      BY <2>3, <2>7, SendsNoProbe DEF Toggle, Delete
    <2>8. ASSUME NEW u \in Touched, NEW disabled \in BOOLEAN, Save(u, disabled)
          PROVE  ProbesFromScreen
      <3> DEFINE op == IF u \notin DOMAIN ui[Screen].rows THEN "create" ELSE "edit"
      <3>1. Send(Msg(op, Screen, 0, u, disabled, "save")) /\ op # "probe"
        BY <2>8 DEF Save
      <3> HIDE DEF op
      <3> QED
        BY <2>3, <3>1, SendsNoProbe
    <2>9. ASSUME NEW i \in DOMAIN ui, FireProbe(i)
          PROVE  ProbesFromScreen
      <3>1. i = Screen
        BY <2>2, <2>9 DEF FireProbe, QuietInv
      <3> QED
        BY <2>4, <2>9, <3>1 DEF FireProbe
    <2>10. ASSUME NEW i \in DOMAIN ui, TimerFires(i) \/ ProbeRefresh(i)
           PROVE  ProbesFromScreen
      BY <2>3, <2>10, LoadsNoProbe DEF TimerFires, ProbeRefresh
    <2>11. ASSUME NEW kind \in Pages, Leave(kind)
           PROVE  ProbesFromScreen
      BY <2>3, <2>11, LeaveSendsNone
    <2>12. ASSUME NEW m \in net, Serve(m) \/ Arrives(m) \/ Lost(m)
           PROVE  ProbesFromScreen
      BY <2>2, <2>3, <2>12, AnswersSendNone
    <2> QED
      BY <2>1, <2>5, <2>6, <2>7, <2>8, <2>9, <2>10, <2>11, <2>12 DEF ListNext, ListUser, ChangePage
  <1> QED
    BY <1>1, UIInvariant, PTL DEF Spec, LeftPagesSilent
=============================================================================
