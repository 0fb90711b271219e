------------------------ MODULE FrpsControllerProofs ------------------------
(* What holds of the controller of a reverse tunnel for any number of      *)
(* users and worker streams and any capacity of its channels.              *)
EXTENDS FrpsController, FiniteSetTheorems, TLAPS

(* Appending to, and taking from, sendCh.                                  *)
LEMMA AppendType ==
  ASSUME NEW s \in Seq(Messages), NEW m \in Messages
  PROVE  /\ Append(s, m) \in Seq(Messages)
         /\ Len(Append(s, m)) = Len(s) + 1
  OBVIOUS

LEMMA QueueType ==
  ASSUME TypeOK, NEW m \in Messages, HasRoom
  PROVE  Append(sendCh, m) \in Seq(Messages) /\ Len(Append(sendCh, m)) <= SendCap
  <1>1. sendCh \in Seq(Messages) /\ Len(sendCh) < SendCap
    BY DEF TypeOK, HasRoom
  <1>2. Append(sendCh, m) \in Seq(Messages) /\ Len(Append(sendCh, m)) = Len(sendCh) + 1
    BY <1>1, AppendType
  <1>3. Len(sendCh) \in Nat /\ SendCap \in Nat
    BY <1>1, FrpsAssumption
  <1> QED
    BY <1>1, <1>2, <1>3

LEMMA TailType ==
  ASSUME NEW s \in Seq(Messages), s # << >>
  PROVE  /\ Head(s) \in Messages
         /\ Tail(s) \in Seq(Messages)
         /\ Len(Tail(s)) = Len(s) - 1
  OBVIOUS

(* A step of goroutine p keeps the type of pc and moves nobody else.       *)
LEMMA GotoType ==
  ASSUME TypeOK, NEW p \in Procs, NEW l \in PCs, Goto(p, l)
  PROVE  /\ pc' \in [Procs -> PCs]
         /\ pc'[p] = l
         /\ \A q \in Procs : q # p => pc'[q] = pc[q]
  BY DEF TypeOK, Goto

LEMMA InitType == Init => TypeOK
  <1> SUFFICES ASSUME Init PROVE TypeOK
    OBVIOUS
  <1>1. sendCh \in Seq(Messages) /\ Len(sendCh) = 0
    BY DEF Init
  <1>2. pc \in [Procs -> PCs]
    BY DEF Init, PCs
  <1>3. {SendCap, ReadCap, WorkerCap, MaxCalls} \subseteq Nat
    BY FrpsAssumption
  <1>4. /\ Len(sendCh) <= SendCap
        /\ readCh \in 0 .. ReadCap
        /\ workers \in 0 .. WorkerCap
        /\ calls \in 0 .. MaxCalls
        /\ asked \in Nat
    BY <1>1, <1>3 DEF Init
  <1> QED
    BY <1>1, <1>2, <1>4 DEF Init, TypeOK

LEMMA NextType == TypeOK /\ [Next]_vars => TypeOK'
  <1> SUFFICES ASSUME TypeOK, [Next]_vars PROVE TypeOK'
    OBVIOUS
  <1> USE FrpsAssumption
  <1>p. Reader \in Procs /\ Handler \in Procs /\ Users \subseteq Procs /\ Registrars \subseteq Procs
    BY DEF Procs
  <1>1. ASSUME NEW p \in Procs, RLock(p) PROVE TypeOK'
    <2>1. AfterRefusal(p) \in PCs /\ "send" \in PCs
      BY DEF AfterRefusal, PCs
    <2>2. pc' \in [Procs -> PCs]
      BY <1>1, <2>1, GotoType DEF RLock
    <2> QED
      BY <1>1, <2>2 DEF RLock, TypeOK
  <1>2. CASE ReadMsg
    BY <1>2, <1>p DEF ReadMsg, Goto, TypeOK, PCs
  <1>3. CASE ReadFails
    BY <1>3, <1>p DEF ReadFails, Goto, TypeOK, PCs
  <1>4. CASE QueueRead
    BY <1>4, <1>p DEF QueueRead, RUnlock, Goto, TypeOK, PCs
  <1>5. CASE RecvPing
    BY <1>5, <1>p DEF RecvPing, Goto, TypeOK, PCs
  <1>6. CASE RecvEnd
    BY <1>6, <1>p DEF RecvEnd, Goto, TypeOK, PCs
  <1>7. CASE SendPong
    <2>1. sendCh' \in Seq(Messages) /\ Len(sendCh') <= SendCap
      <3>1. CASE HasRoom
        BY <1>7, <3>1, QueueType DEF SendPong, Messages
      <3>2. CASE ~HasRoom
        BY <1>7, <3>2 DEF SendPong, TypeOK
      <3> QED
        BY <3>1, <3>2
    <2> QED
      BY <1>7, <1>p, <2>1 DEF SendPong, RUnlock, Goto, TypeOK, PCs
  <1>8. CASE WriterRecv
    <2>1. CASE sendCh # << >> /\ wpc' = Head(sendCh) /\ sendCh' = Tail(sendCh)
      <3>1. /\ wpc' \in Messages
            /\ sendCh' \in Seq(Messages)
            /\ Len(sendCh') = Len(sendCh) - 1
        BY <2>1, TailType DEF TypeOK
      <3> QED
        BY <1>8, <3>1 DEF WriterRecv, TypeOK
    <2>2. CASE wpc' = "done" /\ UNCHANGED sendCh
      BY <1>8, <2>2 DEF WriterRecv, TypeOK
    <2> QED
      BY <1>8, <2>1, <2>2 DEF WriterRecv
  <1>9. CASE WriteMsg
    BY <1>9 DEF WriteMsg, TypeOK
  <1>10. ASSUME NEW r \in Registrars, NewWorkConn(r) PROVE TypeOK'
    BY <1>10, <1>p DEF NewWorkConn, Goto, TypeOK, PCs
  <1>11. ASSUME NEW p \in Procs, GetController(p) PROVE TypeOK'
    <2>1. (IF p \in Users THEN "check" ELSE "lock") \in PCs
      BY DEF PCs
    <2>2. pc' \in [Procs -> PCs]
      BY <1>11, <2>1, GotoType DEF GetController
    <2> QED
      BY <1>11, <2>2 DEF GetController, TypeOK
  <1>12. ASSUME NEW r \in Registrars, RegisterWorker(r) PROVE TypeOK'
    BY <1>12, <1>p DEF RegisterWorker, RUnlock, Goto, TypeOK, PCs
  <1>13. ASSUME NEW u \in Users, Accept(u) PROVE TypeOK'
    BY <1>13, <1>p DEF Accept, Goto, TypeOK, PCs
  <1>14. ASSUME NEW u \in Users, CheckWorkers(u) PROVE TypeOK'
    <2>1. (IF FewWorkers THEN "lock" ELSE "wait") \in PCs
      BY DEF PCs
    <2>2. pc' \in [Procs -> PCs]
      BY <1>14, <1>p, <2>1, GotoType DEF CheckWorkers
    <2> QED
      BY <1>14, <2>2 DEF CheckWorkers, TypeOK
  <1>15. ASSUME NEW u \in Users, SendReq(u) PROVE TypeOK'
    <2>1. sendCh' \in Seq(Messages) /\ Len(sendCh') <= SendCap
      <3>1. CASE HasRoom
        BY <1>15, <3>1, QueueType DEF SendReq, Messages
      <3>2. CASE ~HasRoom
        BY <1>15, <3>2 DEF SendReq, TypeOK
      <3> QED
        BY <3>1, <3>2
    <2> QED
      BY <1>15, <1>p, <2>1 DEF SendReq, RUnlock, Goto, TypeOK, PCs
  <1>16. ASSUME NEW u \in Users, TakeWorker(u) PROVE TypeOK'
    BY <1>16, <1>p DEF TakeWorker, Goto, TypeOK, PCs
  <1>17. ASSUME NEW u \in Users, GiveUp(u) PROVE TypeOK'
    BY <1>17, <1>p DEF GiveUp, Goto, TypeOK, PCs
  <1>18. ASSUME NEW u \in Users, SayStart(u) PROVE TypeOK'
    BY <1>18, <1>p DEF SayStart, Goto, TypeOK, PCs
  <1>19. ASSUME NEW u \in Users, PipeEnds(u) PROVE TypeOK'
    BY <1>19, <1>p DEF PipeEnds, Goto, TypeOK, PCs
  <1>20. CASE ClientFails
    BY <1>20 DEF ClientFails, TypeOK
  <1>21. CASE CloseCalled
    BY <1>21 DEF CloseCalled, TypeOK
  <1>22. CASE Close
    BY <1>22 DEF Close, CloseCtl, TypeOK
  <1>23. CASE Break
    BY <1>23 DEF Break, TypeOK
  <1>24. CASE UNCHANGED vars
    BY <1>24 DEF vars, TypeOK
  <1> QED
    BY <1>p, <1>1, <1>2, <1>3, <1>4, <1>5, <1>6, <1>7, <1>8, <1>9, <1>10, <1>11, <1>12, <1>13,
       <1>14, <1>15, <1>16, <1>17, <1>18, <1>19, <1>20, <1>21, <1>22, <1>23, <1>24
    DEF Next, ReaderStep, HandlerStep, WriterStep, RegStep, UserStep

(* The controller's channels never exceed their capacities and its         *)
(* goroutines stay in their control states.                                *)
THEOREM FrpsTypeCorrect == Spec => []TypeOK
  BY InitType, NextType, PTL DEF Spec
-----------------------------------------------------------------------------
(* Between its look at closed and its send a goroutine holds the lock.     *)
SendersHoldLock == \A p \in Procs : pc[p] = "send" => p \in readers
LockInv == SendersHoldLock /\ NoSendOnClosed

(* A goroutine that leaves its send, or never was at one, disturbs nobody. *)
LEMMA LeaveSend ==
  ASSUME TypeOK, LockInv, NEW p \in Procs, NEW l \in PCs, l # "send", Goto(p, l),
         readers \ {p} \subseteq readers', UNCHANGED closer
  PROVE  LockInv'
  <1>1. \A q \in Procs : pc'[q] = "send" => q # p /\ pc[q] = "send"
    BY GotoType
  <1> QED
    BY <1>1 DEF LockInv, SendersHoldLock, NoSendOnClosed, closed

LEMMA LockStep == TypeOK /\ LockInv /\ [Next]_vars => LockInv'
  <1> SUFFICES ASSUME TypeOK, LockInv, [Next]_vars PROVE LockInv'
    OBVIOUS
  <1> USE FrpsAssumption
  <1>p. Reader \in Procs /\ Handler \in Procs /\ Users \subseteq Procs /\ Registrars \subseteq Procs
    BY DEF Procs
  <1>l. PCs \ {"send"} = {"idle", "get", "check", "lock", "wait", "start", "pipe", "read", "recv", "done"}
    BY DEF PCs
  <1>1. ASSUME NEW p \in Procs, RLock(p) PROVE LockInv'
    <2>1. CASE closed
      <3>1. AfterRefusal(p) \in PCs \ {"send"}
        BY <1>l DEF AfterRefusal
      <3>2. Goto(p, AfterRefusal(p)) /\ readers' = readers /\ closer' = closer
        BY <1>1, <2>1 DEF RLock
      <3> QED
        BY <3>1, <3>2, LeaveSend
    <2>2. CASE ~closed
      <3>1. "send" \in PCs /\ Goto(p, "send") /\ readers' = readers \cup {p} /\ closer' = closer
        BY <1>1, <2>2 DEF RLock, PCs
      <3>2. \A q \in Procs : q # p => pc'[q] = pc[q]
        BY <3>1, GotoType
      <3> QED
        BY <2>2, <3>1, <3>2 DEF LockInv, SendersHoldLock, NoSendOnClosed, closed
    <2> QED
      BY <2>1, <2>2
  <1>2. CASE ReadMsg
    BY <1>2, <1>p, <1>l, LeaveSend DEF ReadMsg
  <1>3. CASE ReadFails
    BY <1>3, <1>p, <1>l, LeaveSend DEF ReadFails
  <1>4. CASE QueueRead
    BY <1>4, <1>p, <1>l, LeaveSend DEF QueueRead, RUnlock
  <1>5. CASE RecvPing
    BY <1>5, <1>p, <1>l, LeaveSend DEF RecvPing
  <1>6. CASE RecvEnd
    BY <1>6, <1>p, <1>l, LeaveSend DEF RecvEnd
  <1>7. CASE SendPong
    BY <1>7, <1>p, <1>l, LeaveSend DEF SendPong, RUnlock
  <1>8. CASE WriterStep \/ ClientFails \/ Break \/ UNCHANGED vars
    BY <1>8 DEF WriterStep, WriterRecv, WriteMsg, ClientFails, Break, vars,
                LockInv, SendersHoldLock, NoSendOnClosed, closed
  <1>9. ASSUME NEW r \in Registrars, NewWorkConn(r) PROVE LockInv'
    BY <1>9, <1>p, <1>l, LeaveSend DEF NewWorkConn
  <1>10. ASSUME NEW p \in Procs, GetController(p) PROVE LockInv'
    <2>1. (IF p \in Users THEN "check" ELSE "lock") \in PCs \ {"send"}
      BY <1>l
    <2> QED
      BY <1>10, <2>1, LeaveSend DEF GetController
  <1>11. ASSUME NEW r \in Registrars, RegisterWorker(r) PROVE LockInv'
    BY <1>11, <1>p, <1>l, LeaveSend DEF RegisterWorker, RUnlock
  <1>12. ASSUME NEW u \in Users, Accept(u) PROVE LockInv'
    BY <1>12, <1>p, <1>l, LeaveSend DEF Accept
  <1>13. ASSUME NEW u \in Users, CheckWorkers(u) PROVE LockInv'
    <2>1. (IF FewWorkers THEN "lock" ELSE "wait") \in PCs \ {"send"}
      BY <1>l
    <2> QED
      BY <1>13, <1>p, <2>1, LeaveSend DEF CheckWorkers
  <1>14. ASSUME NEW u \in Users, SendReq(u) PROVE LockInv'
    BY <1>14, <1>p, <1>l, LeaveSend DEF SendReq, RUnlock
  <1>15. ASSUME NEW u \in Users, TakeWorker(u) \/ GiveUp(u) \/ SayStart(u) \/ PipeEnds(u)
         PROVE  LockInv'
    BY <1>15, <1>p, <1>l, LeaveSend DEF TakeWorker, GiveUp, SayStart, PipeEnds
  <1>16. CASE CloseCalled
    BY <1>16 DEF CloseCalled, LockInv, SendersHoldLock, NoSendOnClosed, closed
  <1>17. CASE Close
    BY <1>17 DEF Close, CanLock, LockInv, SendersHoldLock, NoSendOnClosed, closed
  <1> QED
    BY <1>p, <1>1, <1>2, <1>3, <1>4, <1>5, <1>6, <1>7, <1>8, <1>9, <1>10, <1>11, <1>12, <1>13,
       <1>14, <1>15, <1>16, <1>17
    DEF Next, ReaderStep, HandlerStep, RegStep, UserStep

(* No goroutine of the controller ever sends to a closed channel: doReadLoop, *)
(* Write and RegisterWorker hold the read lock while they send, and Close     *)
(* waits for them.                                                            *)
THEOREM FrpsNoSendOnClosed == Spec => []NoSendOnClosed
  <1>1. Init => LockInv
    BY FrpsAssumption DEF Init, LockInv, SendersHoldLock, NoSendOnClosed, closed
  <1>2. LockInv => NoSendOnClosed
    BY DEF LockInv
  <1> QED
    BY <1>1, <1>2, FrpsTypeCorrect, LockStep, PTL DEF Spec
-----------------------------------------------------------------------------
LEMMA ReqsFinite ==
  ASSUME NEW s \in Seq(Messages)
  PROVE  IsFiniteSet(ReqsIn(s)) /\ Cardinality(ReqsIn(s)) \in Nat
  <1>1. Len(s) \in Nat /\ DOMAIN s = 1 .. Len(s)
    OBVIOUS
  <1>2. IsFiniteSet(1 .. Len(s))
    BY <1>1, FS_Interval
  <1> QED
    BY <1>1, <1>2, FS_Subset, FS_CardinalityType DEF ReqsIn

(* A request put at the end of the channel is one more request in it.      *)
LEMMA ReqsAppend ==
  ASSUME NEW s \in Seq(Messages)
  PROVE  /\ Cardinality(ReqsIn(Append(s, "req"))) = Cardinality(ReqsIn(s)) + 1
         /\ ReqsIn(Append(s, "pong")) = ReqsIn(s)
  <1>1. ReqsIn(Append(s, "req")) = ReqsIn(s) \cup {Len(s) + 1}
    BY DEF ReqsIn
  <1>2. Len(s) + 1 \notin ReqsIn(s)
    BY DEF ReqsIn
  <1>3. ReqsIn(Append(s, "pong")) = ReqsIn(s)
    BY DEF ReqsIn
  <1> QED
    BY <1>1, <1>2, <1>3, ReqsFinite, FS_AddElement

(* Taking the first message leaves the requests behind it.                 *)
LEMMA ReqsTail ==
  ASSUME NEW s \in Seq(Messages), s # << >>
  PROVE  Cardinality(ReqsIn(s)) <= Cardinality(ReqsIn(Tail(s))) + (IF Head(s) = "req" THEN 1 ELSE 0)
  <1> DEFINE P == ReqsIn(s) \ {1}
             T == ReqsIn(Tail(s))
             f == [k \in P |-> k - 1]
  <1>1. Tail(s) \in Seq(Messages) /\ Len(Tail(s)) = Len(s) - 1
    BY TailType
  <1>2. IsFiniteSet(T) /\ Cardinality(T) \in Nat /\ IsFiniteSet(ReqsIn(s))
    BY <1>1, ReqsFinite
  <1>3. ASSUME NEW k \in P PROVE k - 1 \in T /\ k \in Int
    <2>1. k \in 2 .. Len(s) /\ s[k] = "req"
      BY DEF ReqsIn
    <2>2. k - 1 \in 1 .. Len(Tail(s)) /\ Tail(s)[k - 1] = s[k]
      BY <1>1, <2>1
    <2> QED
      BY <1>1, <2>1, <2>2 DEF ReqsIn
  <1>4. f \in Injection(P, T)
    <2>1. f \in [P -> T]
      BY <1>3
    <2>2. IsInjective(f)
      BY <1>3 DEF IsInjective
    <2> QED
      BY <2>1, <2>2 DEF Injection
  <1>5. Cardinality(P) <= Cardinality(T)
    BY <1>2, <1>4, FS_Injection
  <1>6. Cardinality(ReqsIn(s)) \in Nat
    BY ReqsFinite
  <1>7. CASE Head(s) = "req"
    <2>1. 1 \in ReqsIn(s)
      BY <1>7 DEF ReqsIn
    <2>2. Cardinality(P) = Cardinality(ReqsIn(s)) - 1
      BY <1>2, <2>1, FS_RemoveElement
    <2> HIDE DEF P, T
    <2>3. Cardinality(ReqsIn(s)) <= Cardinality(T) + 1
      BY <1>2, <1>5, <1>6, <2>2
    <2> QED
      BY <1>7, <2>3 DEF T
  <1>8. CASE Head(s) # "req"
    <2>1. P = ReqsIn(s)
      BY <1>8 DEF ReqsIn
    <2>2. Cardinality(ReqsIn(s)) <= Cardinality(T)
      BY <1>5, <2>1
    <2> HIDE DEF T
    <2>3. Cardinality(ReqsIn(s)) <= Cardinality(T) + 0
      BY <1>2, <2>2
    <2> QED
      BY <1>8, <2>3 DEF T
  <1> QED
    BY <1>7, <1>8

(* Arithmetic of the supply: with n requests on the way, c workers each.   *)
LEMMA OneMoreReq ==
  ASSUME NEW c \in Nat, NEW n \in Nat
  PROVE  c * n \in Nat /\ c * (n + 1) = c * n + c
  OBVIOUS

LEMMA MoreReqs ==
  ASSUME NEW c \in Nat, NEW m \in Nat, NEW n \in Nat, m <= n
  PROVE  c * m <= c * n
  OBVIOUS

(* What DemandCovered counts are finite sets and natural numbers.          *)
CountsOK ==
  /\ IsFiniteSet(Waiting) /\ Cardinality(Waiting) \in Nat
  /\ Cardinality(Waiting) <= Cardinality(Users)
  /\ IsFiniteSet(Arriving) /\ Cardinality(Arriving) \in Nat
  /\ workers \in Nat /\ asked \in Nat
  /\ ReqsOnTheWay \in Nat /\ WorkerCount * ReqsOnTheWay \in Nat
  /\ Supply \in Nat
  /\ workers <= Supply

LEMMA Counts == TypeOK => CountsOK
  <1> SUFFICES ASSUME TypeOK PROVE CountsOK
    OBVIOUS
  <1>1. /\ IsFiniteSet(Waiting) /\ Cardinality(Waiting) \in Nat
        /\ Cardinality(Waiting) <= Cardinality(Users)
        /\ IsFiniteSet(Arriving) /\ Cardinality(Arriving) \in Nat
    BY FrpsAssumption, FS_Subset, FS_CardinalityType DEF Waiting, Arriving
  <1>2. ReqsOnTheWay \in Nat
    BY ReqsFinite DEF TypeOK, ReqsOnTheWay
  <1>3. WorkerCount * ReqsOnTheWay \in Nat
    BY <1>2, FrpsAssumption, OneMoreReq
  <1>4. workers \in Nat /\ asked \in Nat
    BY FrpsAssumption DEF TypeOK
  <1>5. Supply \in Nat /\ workers <= Supply
    BY <1>1, <1>3, <1>4 DEF Supply
  <1> QED
    BY <1>1, <1>2, <1>3, <1>4, <1>5 DEF CountsOK

LEMMA CountsNext == TypeOK' => CountsOK'
  BY Counts, PTL

Covered == Cardinality(Waiting) <= Supply

(* A step of goroutine p changes who waits and who arrives only in p.      *)
LEMMA MoveSets ==
  ASSUME TypeOK, NEW p \in Procs, NEW l \in PCs, Goto(p, l)
  PROVE  /\ Waiting' = IF p \in Users /\ l = "wait" THEN Waiting \cup {p} ELSE Waiting \ {p}
         /\ Arriving' = IF p \in Registrars /\ l \in {"get", "lock", "send"}
                          THEN Arriving \cup {p} ELSE Arriving \ {p}
  <1>1. pc'[p] = l /\ \A q \in Procs : q # p => pc'[q] = pc[q]
    BY GotoType
  <1>2. Users \subseteq Procs /\ Registrars \subseteq Procs
    BY DEF Procs
  <1>3. Waiting' = {u \in Users : pc'[u] = "wait"}
    BY DEF Waiting
  <1>4. Arriving' = {r \in Registrars : pc'[r] \in {"get", "lock", "send"}}
    BY DEF Arriving
  <1>5. Waiting' = IF p \in Users /\ l = "wait" THEN Waiting \cup {p} ELSE Waiting \ {p}
    BY <1>1, <1>2, <1>3 DEF Waiting
  <1>6. Arriving' = IF p \in Registrars /\ l \in {"get", "lock", "send"}
                      THEN Arriving \cup {p} ELSE Arriving \ {p}
    BY <1>1, <1>2, <1>4 DEF Arriving
  <1> QED
    BY <1>5, <1>6

(* Steps that let nobody new wait and do not change the supply.            *)
LEMMA QuietStep ==
  ASSUME TypeOK, TypeOK', Covered, Waiting' \subseteq Waiting, Arriving' = Arriving,
         UNCHANGED <<workers, asked>>, ReqsOnTheWay' = ReqsOnTheWay
  PROVE  Covered'
  <1>1. CountsOK /\ CountsOK'
    BY Counts, CountsNext
  <1>2. Cardinality(Waiting') <= Cardinality(Waiting)
    BY <1>1, FS_Subset DEF CountsOK
  <1>3. Supply' = Supply
    BY DEF Supply
  <1> QED
    BY <1>1, <1>2, <1>3 DEF Covered, CountsOK

(* In particular the steps of one goroutine that neither starts to wait nor *)
(* comes with a worker or leaves it.                                        *)
LEMMA QuietMove ==
  ASSUME TypeOK, TypeOK', Covered, NEW p \in Procs, NEW l \in PCs, Goto(p, l),
         p \in Users => l # "wait",
         p \in Registrars => pc[p] \in {"get", "lock", "send"} /\ l \in {"get", "lock", "send"},
         UNCHANGED <<workers, asked, wpc>>, ReqsIn(sendCh') = ReqsIn(sendCh)
  PROVE  Covered'
  <1>1. Waiting' \subseteq Waiting
    BY MoveSets
  <1>2. Arriving' = Arriving
    BY MoveSets DEF Arriving
  <1>3. ReqsOnTheWay' = ReqsOnTheWay
    BY DEF ReqsOnTheWay, ReqsIn
  <1> QED
    BY <1>1, <1>2, <1>3, QuietStep

(* The supply makes up for what the steps of the writer, of the worker      *)
(* streams and of the users take from it.                                   *)
LEMMA WriterRecvCovers ==
  ASSUME TypeOK, TypeOK', Covered, WriterRecv, wpc' # "done"
  PROVE  Covered'
  <1>1. CountsOK /\ CountsOK'
    BY Counts, CountsNext
  <1>2. sendCh # << >> /\ wpc = "recv" /\ wpc' = Head(sendCh) /\ sendCh' = Tail(sendCh)
    BY DEF WriterRecv
  <1>3. Cardinality(ReqsIn(sendCh)) <= Cardinality(ReqsIn(sendCh')) + (IF wpc' = "req" THEN 1 ELSE 0)
    BY <1>2, ReqsTail DEF TypeOK
  <1>4. Cardinality(ReqsIn(sendCh)) \in Nat
    BY ReqsFinite DEF TypeOK
  <1>5. ReqsOnTheWay = Cardinality(ReqsIn(sendCh))
    BY <1>2, <1>4 DEF ReqsOnTheWay
  <1>6. ReqsOnTheWay' = Cardinality(ReqsIn(sendCh')) + (IF wpc' = "req" THEN 1 ELSE 0)
    BY DEF ReqsOnTheWay, ReqsIn
  <1>7. ReqsOnTheWay <= ReqsOnTheWay'
    BY <1>3, <1>5, <1>6
  <1>8. WorkerCount * ReqsOnTheWay <= WorkerCount * ReqsOnTheWay'
    BY <1>1, <1>7, MoreReqs, FrpsAssumption DEF CountsOK
  <1>9. Waiting' = Waiting /\ Arriving' = Arriving /\ workers' = workers /\ asked' = asked
    BY DEF WriterRecv, Waiting, Arriving
  <1>10. Supply <= Supply'
    BY <1>1, <1>8, <1>9 DEF Supply, CountsOK
  <1> QED
    BY <1>1, <1>9, <1>10 DEF Covered, CountsOK

LEMMA WriteMsgCovers ==
  ASSUME TypeOK, TypeOK', Covered, WriteMsg, conn = "up"
  PROVE  Covered'
  <1>1. CountsOK /\ CountsOK'
    BY Counts, CountsNext
  <1>2. /\ wpc' = "recv" /\ sendCh' = sendCh
        /\ Waiting' = Waiting /\ Arriving' = Arriving /\ workers' = workers
    BY DEF WriteMsg, Waiting, Arriving
  <1>3. Cardinality(ReqsIn(sendCh)) \in Nat
    BY ReqsFinite DEF TypeOK
  <1>4. ReqsOnTheWay' = Cardinality(ReqsIn(sendCh))
    BY <1>2, <1>3 DEF ReqsOnTheWay, ReqsIn
  <1>5. CASE wpc = "req"
    <2>1. ReqsOnTheWay = ReqsOnTheWay' + 1
      BY <1>3, <1>4, <1>5 DEF ReqsOnTheWay
    <2>2. WorkerCount * ReqsOnTheWay = WorkerCount * ReqsOnTheWay' + WorkerCount
      BY <1>1, <2>1, OneMoreReq, FrpsAssumption DEF CountsOK
    <2>3. asked' = asked + WorkerCount /\ WorkerCount \in Nat
      BY <1>5, FrpsAssumption DEF WriteMsg
    <2> DEFINE a == Cardinality(Arriving)
               m == WorkerCount * ReqsOnTheWay'
    <2>4. Supply = workers + asked + a + (m + WorkerCount) /\ Supply' = workers + asked' + a + m
      BY <1>2, <2>2 DEF Supply
    <2>5. a \in Nat /\ m \in Nat /\ workers \in Nat /\ asked \in Nat
      BY <1>1 DEF CountsOK
    <2> HIDE DEF a, m
    <2>6. Supply' = Supply
      BY <2>3, <2>4, <2>5
    <2> QED
      BY <1>2, <2>6 DEF Covered
  <1>6. CASE wpc # "req"
    <2>1. ReqsOnTheWay = ReqsOnTheWay' /\ asked' = asked
      BY <1>3, <1>4, <1>6 DEF ReqsOnTheWay, WriteMsg
    <2> QED
      BY <1>2, <2>1, QuietStep
  <1> QED
    BY <1>5, <1>6

LEMMA NewWorkConnCovers ==
  ASSUME TypeOK, TypeOK', Covered, NEW r \in Registrars, NewWorkConn(r)
  PROVE  Covered'
  <1>1. CountsOK /\ CountsOK'
    BY Counts, CountsNext
  <1>2. r \in Procs /\ r \notin Users /\ "get" \in PCs
    BY FrpsAssumption DEF Procs, PCs
  <1>3. Arriving' = Arriving \cup {r} /\ Waiting' = Waiting
    BY <1>2, MoveSets DEF NewWorkConn, Waiting
  <1>4. r \notin Arriving
    BY DEF NewWorkConn, Arriving
  <1>5. Cardinality(Arriving') = Cardinality(Arriving) + 1
    BY <1>1, <1>3, <1>4, FS_AddElement DEF CountsOK
  <1>6. ReqsOnTheWay' = ReqsOnTheWay /\ workers' = workers /\ asked' = asked - 1
    BY DEF NewWorkConn, ReqsOnTheWay, ReqsIn
  <1>7. Supply' = Supply
    BY <1>1, <1>5, <1>6 DEF Supply, CountsOK
  <1> QED
    BY <1>3, <1>7 DEF Covered

(* A worker that finds the channel full is not needed.                      *)
LEMMA RegisterWorkerCovers ==
  ASSUME TypeOK, TypeOK', Covered, NEW r \in Registrars, RegisterWorker(r),
         Cardinality(Users) <= LowWater
  PROVE  Covered'
  <1>1. CountsOK /\ CountsOK'
    BY Counts, CountsNext
  <1>2. r \in Procs /\ r \notin Users /\ "idle" \in PCs
    BY FrpsAssumption DEF Procs, PCs
  <1>3. Arriving' = Arriving \ {r} /\ Waiting' = Waiting
    BY <1>2, MoveSets DEF RegisterWorker, RUnlock, Waiting
  <1>4. r \in Arriving
    BY DEF RegisterWorker, Arriving
  <1>5. Cardinality(Arriving') = Cardinality(Arriving) - 1
    BY <1>1, <1>3, <1>4, FS_RemoveElement DEF CountsOK
  <1>6. ReqsOnTheWay' = ReqsOnTheWay /\ asked' = asked
    BY DEF RegisterWorker, ReqsOnTheWay, ReqsIn
  <1>7. CASE workers < WorkerCap
    <2>1. workers' = workers + 1
      BY <1>7 DEF RegisterWorker
    <2>2. Supply' = Supply
      BY <1>1, <1>5, <1>6, <2>1 DEF Supply, CountsOK
    <2> QED
      BY <1>3, <2>2 DEF Covered
  <1>8. CASE ~(workers < WorkerCap)
    <2>1. workers' = workers /\ workers = WorkerCap
      BY <1>8, FrpsAssumption DEF RegisterWorker, TypeOK
    <2>2. LowWater <= workers' /\ LowWater \in Nat
      BY <2>1, FrpsAssumption DEF LowWater
    <2>3. workers' <= Supply' /\ Cardinality(Waiting') <= Cardinality(Users)
      BY <1>1 DEF CountsOK
    <2>4. Cardinality(Users) \in Nat
      BY FrpsAssumption, FS_CardinalityType
    <2> QED
      BY <1>1, <2>2, <2>3, <2>4 DEF Covered, CountsOK
  <1> QED
    BY <1>7, <1>8

(* Who finds enough workers finds one for each user.                        *)
LEMMA CheckWorkersCovers ==
  ASSUME TypeOK, TypeOK', Covered, NEW u \in Users, CheckWorkers(u),
         Cardinality(Users) <= LowWater
  PROVE  Covered'
  <1>1. CountsOK /\ CountsOK'
    BY Counts, CountsNext
  <1>2. u \in Procs /\ u \notin Registrars /\ "lock" \in PCs /\ "wait" \in PCs
    BY FrpsAssumption DEF Procs, PCs
  <1>3. CASE FewWorkers
    BY <1>2, <1>3, QuietMove DEF CheckWorkers
  <1>4. CASE ~FewWorkers
    <2>1. LowWater \in Nat /\ Cardinality(Users) \in Nat
      BY FrpsAssumption, FS_CardinalityType DEF LowWater
    <2>2. LowWater <= workers /\ workers' = workers
      BY <1>1, <1>4, <2>1 DEF FewWorkers, CheckWorkers, CountsOK
    <2>3. Cardinality(Waiting') <= Cardinality(Users) /\ workers' <= Supply'
      BY <1>1 DEF CountsOK
    <2> QED
      BY <1>1, <2>1, <2>2, <2>3 DEF Covered, CountsOK
  <1> QED
    BY <1>3, <1>4

LEMMA SendReqCovers ==
  ASSUME TypeOK, TypeOK', Covered, NEW u \in Users, SendReq(u)
  PROVE  Covered'
  <1>1. CountsOK /\ CountsOK'
    BY Counts, CountsNext
  <1>2. u \in Procs /\ u \notin Registrars /\ "idle" \in PCs /\ "wait" \in PCs
    BY FrpsAssumption DEF Procs, PCs
  <1>3. CASE HasRoom
    <2>1. Goto(u, "wait") /\ sendCh' = Append(sendCh, "req")
      BY <1>3 DEF SendReq, RUnlock
    <2>2. Waiting' = Waiting \cup {u} /\ Arriving' = Arriving
      BY <1>2, <2>1, MoveSets DEF Arriving
    <2>3. Cardinality(Waiting') <= Cardinality(Waiting) + 1
      BY <1>1, <2>2, FS_AddElement DEF CountsOK
    <2>4. Cardinality(ReqsIn(sendCh')) = Cardinality(ReqsIn(sendCh)) + 1
      BY <2>1, ReqsAppend DEF TypeOK
    <2>5. Cardinality(ReqsIn(sendCh)) \in Nat /\ wpc' = wpc
      BY ReqsFinite DEF TypeOK, SendReq
    <2>6. ReqsOnTheWay' = Cardinality(ReqsIn(sendCh')) + (IF wpc' = "req" THEN 1 ELSE 0)
      BY DEF ReqsOnTheWay, ReqsIn
    <2>7. ReqsOnTheWay' = ReqsOnTheWay + 1
      BY <2>4, <2>5, <2>6 DEF ReqsOnTheWay
    <2>8. WorkerCount * ReqsOnTheWay' = WorkerCount * ReqsOnTheWay + WorkerCount
      BY <1>1, <2>7, OneMoreReq, FrpsAssumption DEF CountsOK
    <2>9. workers' = workers /\ asked' = asked /\ WorkerCount \in Nat /\ WorkerCount >= 1
      BY FrpsAssumption DEF SendReq
    <2> DEFINE a == Cardinality(Arriving)
               m == WorkerCount * ReqsOnTheWay
    <2>10. Supply = workers + asked + a + m /\ Supply' = workers + asked + a + (m + WorkerCount)
      BY <2>2, <2>8, <2>9 DEF Supply
    <2>11. a \in Nat /\ m \in Nat /\ workers \in Nat /\ asked \in Nat
      BY <1>1 DEF CountsOK
    <2> HIDE DEF a, m
    <2>12. Supply' = Supply + WorkerCount
      BY <2>9, <2>10, <2>11
    <2> QED
      BY <1>1, <2>3, <2>9, <2>12 DEF Covered, CountsOK
  <1>4. CASE ~HasRoom
    BY <1>2, <1>4, QuietMove DEF SendReq, RUnlock
  <1> QED
    BY <1>3, <1>4

LEMMA TakeWorkerCovers ==
  ASSUME TypeOK, TypeOK', Covered, NEW u \in Users, TakeWorker(u)
  PROVE  Covered'
  <1>1. CountsOK /\ CountsOK'
    BY Counts, CountsNext
  <1>2. u \in Procs /\ u \notin Registrars /\ "start" \in PCs
    BY FrpsAssumption DEF Procs, PCs
  <1>3. Waiting' = Waiting \ {u} /\ Arriving' = Arriving
    BY <1>2, MoveSets DEF TakeWorker, Arriving
  <1>4. u \in Waiting
    BY DEF TakeWorker, Waiting
  <1>5. Cardinality(Waiting') = Cardinality(Waiting) - 1
    BY <1>1, <1>3, <1>4, FS_RemoveElement DEF CountsOK
  <1>6. ReqsOnTheWay' = ReqsOnTheWay /\ asked' = asked /\ workers' = workers - 1
    BY DEF TakeWorker, ReqsOnTheWay, ReqsIn
  <1>7. Supply' = Supply - 1
    BY <1>1, <1>3, <1>6 DEF Supply, CountsOK
  <1> QED
    BY <1>1, <1>5, <1>7 DEF Covered, CountsOK

DemandInv == Cardinality(Users) <= LowWater /\ ClientDelivers => Covered

(* A client that has once failed, a broken connection, an ended write loop   *)
(* and a closed controller stay so.                                          *)
LEMMA ClientStaysBad ==
  ASSUME TypeOK, [Next]_vars
  PROVE  /\ missed => missed'
         /\ conn = "down" => conn' = "down"
         /\ wpc = "done" => wpc' = "done"
         /\ closer = "done" => closer' = "done"
  <1>1. missed' = missed \/ missed' = TRUE
    BY DEF Next, ReaderStep, HandlerStep, WriterStep, RegStep, UserStep,
         vars, ReadMsg, ReadFails, RLock, QueueRead, RecvPing, RecvEnd, SendPong, WriterRecv,
         WriteMsg, NewWorkConn, GetController, RegisterWorker, Accept, CheckWorkers, SendReq,
         TakeWorker, GiveUp, SayStart, PipeEnds, ClientFails, CloseCalled, Close, Break
  <1>2. conn' = conn \/ conn' = "down"
    BY DEF Next, ReaderStep, HandlerStep, WriterStep, RegStep, UserStep,
         vars, ReadMsg, ReadFails, RLock, QueueRead, RecvPing, RecvEnd, SendPong, WriterRecv,
         WriteMsg, NewWorkConn, GetController, RegisterWorker, Accept, CheckWorkers, SendReq,
         TakeWorker, GiveUp, SayStart, PipeEnds, ClientFails, CloseCalled, Close, Break, CloseCtl
  <1>3. wpc' = wpc \/ wpc # "done"
    BY DEF Next, ReaderStep, HandlerStep, WriterStep, RegStep, UserStep,
         vars, ReadMsg, ReadFails, RLock, QueueRead, RecvPing, RecvEnd, SendPong, WriterRecv,
         WriteMsg, NewWorkConn, GetController, RegisterWorker, Accept, CheckWorkers, SendReq,
         TakeWorker, GiveUp, SayStart, PipeEnds, ClientFails, CloseCalled, Close, Break, Messages
  <1>4. closer' = closer \/ closer # "done"
    BY DEF Next, ReaderStep, HandlerStep, WriterStep, RegStep, UserStep,
         vars, ReadMsg, ReadFails, RLock, QueueRead, RecvPing, RecvEnd, SendPong, WriterRecv,
         WriteMsg, NewWorkConn, GetController, RegisterWorker, Accept, CheckWorkers, SendReq,
         TakeWorker, GiveUp, SayStart, PipeEnds, ClientFails, CloseCalled, Close, Break
  <1> QED
    BY <1>1, <1>2, <1>3, <1>4

LEMMA DemandStep == TypeOK /\ TypeOK' /\ DemandInv /\ [Next]_vars => DemandInv'
  <1> SUFFICES ASSUME TypeOK, TypeOK', DemandInv, [Next]_vars,
                      Cardinality(Users) <= LowWater, ClientDelivers'
               PROVE  Covered'
    BY DEF DemandInv, LowWater
  <1>d. ~missed' /\ conn' = "up" /\ wpc' # "done" /\ closer' # "done"
    BY DEF ClientDelivers, closed
  <1>c. ClientDelivers
    BY <1>d, ClientStaysBad DEF ClientDelivers, closed, TypeOK
  <1>v. Covered
    BY <1>c DEF DemandInv
  <1>p. /\ Reader \in Procs \ (Users \cup Registrars)
        /\ Handler \in Procs \ (Users \cup Registrars)
        /\ Users \subseteq Procs \ Registrars
        /\ Registrars \subseteq Procs \ Users
    BY FrpsAssumption DEF Procs
  <1>l. PCs = {"idle", "get", "check", "lock", "send", "wait", "start", "pipe", "read", "recv", "done"}
    BY DEF PCs
  <1>1. ASSUME NEW p \in Procs, RLock(p) PROVE Covered'
    <2>1. ~closed
      BY <1>c DEF ClientDelivers
    <2> QED
      BY <1>1, <1>v, <1>l, <2>1, QuietMove DEF RLock
  <1>2. CASE ReadMsg \/ ReadFails \/ RecvPing \/ RecvEnd \/ QueueRead
    BY <1>2, <1>v, <1>p, <1>l, QuietMove DEF ReadMsg, ReadFails, RecvPing, RecvEnd, QueueRead, RUnlock
  <1>3. CASE SendPong
    <2>1. ReqsIn(sendCh') = ReqsIn(sendCh)
      BY <1>3, ReqsAppend DEF SendPong, TypeOK
    <2> QED
      BY <1>3, <1>v, <1>p, <1>l, <2>1, QuietMove DEF SendPong, RUnlock
  <1>4. CASE WriterRecv
    BY <1>4, <1>v, <1>d, WriterRecvCovers
  <1>5. CASE WriteMsg
    BY <1>5, <1>v, <1>c, WriteMsgCovers DEF ClientDelivers
  <1>6. ASSUME NEW r \in Registrars, NewWorkConn(r) PROVE Covered'
    BY <1>6, <1>v, NewWorkConnCovers
  <1>7. ASSUME NEW p \in Procs, GetController(p) PROVE Covered'
    <2>1. (IF p \in Users THEN "check" ELSE "lock") \in PCs
      BY <1>l
    <2> QED
      BY <1>7, <1>v, <1>p, <2>1, QuietMove DEF GetController
  <1>8. ASSUME NEW r \in Registrars, RegisterWorker(r) PROVE Covered'
    BY <1>8, <1>v, RegisterWorkerCovers
  <1>9. ASSUME NEW u \in Users, Accept(u) \/ GiveUp(u) \/ SayStart(u) \/ PipeEnds(u)
        PROVE  Covered'
    BY <1>9, <1>v, <1>p, <1>l, QuietMove DEF Accept, GiveUp, SayStart, PipeEnds
  <1>10. ASSUME NEW u \in Users, CheckWorkers(u) PROVE Covered'
    BY <1>10, <1>v, CheckWorkersCovers
  <1>11. ASSUME NEW u \in Users, SendReq(u) PROVE Covered'
    BY <1>11, <1>v, SendReqCovers
  <1>12. ASSUME NEW u \in Users, TakeWorker(u) PROVE Covered'
    BY <1>12, <1>v, TakeWorkerCovers
  <1>13. CASE ClientFails \/ Close \/ Break
    BY <1>13, <1>d DEF ClientFails, Close, Break
  <1>14. CASE CloseCalled \/ UNCHANGED vars
    <2>1. UNCHANGED <<pc, workers, asked, sendCh, wpc>>
      BY <1>14 DEF CloseCalled, vars
    <2>2. Waiting' = Waiting /\ Arriving' = Arriving /\ ReqsOnTheWay' = ReqsOnTheWay
      BY <2>1 DEF Waiting, Arriving, ReqsOnTheWay, ReqsIn
    <2> QED
      BY <1>v, <2>1, <2>2, QuietStep
  <1> QED
    BY <1>p, <1>1, <1>2, <1>3, <1>4, <1>5, <1>6, <1>7, <1>8, <1>9, <1>10, <1>11, <1>12, <1>13, <1>14
    DEF Next, ReaderStep, HandlerStep, WriterStep, RegStep, UserStep

(* For any number of users up to half of FrpWorkerCount: a user connection   *)
(* that waits in GetWorkConn has a worker in the channel or on its way, as   *)
(* long as the client brings the workers that it is asked for.               *)
THEOREM FrpsDemandCovered == Spec => []DemandCovered
  <1>1. Init => DemandInv
    <2> SUFFICES ASSUME Init PROVE Covered
      BY DEF DemandInv
    <2>1. Waiting = {}
      BY FrpsAssumption DEF Init, Waiting, Procs
    <2>2. CountsOK
      BY InitType, Counts
    <2>3. Cardinality(Waiting) = 0
      BY <2>1, FS_EmptySet
    <2> QED
      BY <2>2, <2>3 DEF Covered, CountsOK
  <1>2. DemandInv => DemandCovered
    BY DEF DemandInv, DemandCovered, Covered
  <1> QED
    BY <1>1, <1>2, FrpsTypeCorrect, DemandStep, PTL DEF Spec
=============================================================================
