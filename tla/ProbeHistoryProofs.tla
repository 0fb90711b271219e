------------------------- MODULE ProbeHistoryProofs -------------------------
(* What holds of the store of probe results for any number of callers and  *)
(* any capacity of its queue and its batch: it loses nothing, Flush and    *)
(* Close tell the truth about what is on disk, and its pages are complete. *)
EXTENDS ProbeHistory, SequenceTheorems, FiniteSetTheorems, NaturalsInduction, TLAPS

(* Requests are results or flush requests, never both.                     *)
Shape == \A i \in DOMAIN queue : queue[i].flush # None => queue[i].record = 0

OrderInv == NothingLost /\ Taken <= accepted /\ Shape

(* A flush request stands behind every result accepted before the call,    *)
(* and once the loop has taken it those results are in the batch or on     *)
(* disk; its number is not touched while the call is under way.            *)
Sent(f) == fpc[f] \in {"wait", "ok", "err"}
FlushPlaced ==
  \A i \in DOMAIN queue : queue[i].flush # None =>
    /\ Sent(queue[i].flush)
    /\ \A j \in DOMAIN queue :
         j > i /\ queue[j].record # 0 => queue[j].record > before[queue[i].flush]
BeforeAccepted == \A f \in Flushers : before[f] <= accepted
Served(f) == Sent(f) /\ before[f] <= Taken
WaiterServed == waiter # None => Served(waiter)
WaitersServed == \A f \in waiters : Served(f)
FlushInv ==
  BeforeAccepted /\ FlushPlaced /\ WaiterServed /\ WaitersServed /\ FlushedStored

(* Nobody is about to send once the store is closed, and the loop ends     *)
(* with an empty queue.                                                    *)
CloseInv ==
  /\ lpc \in {"drain", "done"} => closed
  /\ closed => \A f \in Flushers : fpc[f] # "send"
  /\ lpc = "done" => queue = <<>>
  /\ closeErr # "" => lpc = "done"
  /\ closeErr = "ok" => batch = <<>>

IInv == TypeOK /\ OrderInv /\ FlushInv /\ CloseInv
-----------------------------------------------------------------------------
LEMMA TypeFacts ==
  ASSUME TypeOK
  PROVE  /\ queue \in Seq(Request) /\ batch \in Seq(Nat) /\ log \in Seq(Nat)
         /\ accepted \in Nat
  BY Zenon DEF TypeOK

FlushPC == {"idle", "lock", "send", "wait", "ok", "err"}
LEMMA FlushTypes ==
  ASSUME TypeOK
  PROVE  fpc \in [Flushers -> FlushPC] /\ before \in [Flushers -> Nat]
  BY Zenon DEF TypeOK, FlushPC

LEMMA TakenNat ==
  ASSUME TypeOK
  PROVE  /\ Len(batch) \in Nat /\ Len(log) \in Nat /\ Len(queue) \in Nat
         /\ Taken \in Nat
  BY TypeFacts DEF Taken

(* The queue when a request is appended and when the first is taken.       *)
LEMMA ResultType ==
  ASSUME NEW k \in Nat
  PROVE  Result(k) \in Request /\ Result(k).record = k /\ Result(k).flush = None
  BY DEF Result, Request

LEMMA WaitType ==
  ASSUME NEW f \in Flushers
  PROVE  Wait(f) \in Request /\ Wait(f).record = 0 /\ Wait(f).flush = f
  BY DEF Wait, Request

LEMMA QueueAppend ==
  ASSUME TypeOK, NEW r \in Request, queue' = Append(queue, r)
  PROVE  /\ queue' \in Seq(Request)
         /\ Len(queue) \in Nat
         /\ Len(queue') = Len(queue) + 1
         /\ DOMAIN queue = 1 .. Len(queue)
         /\ DOMAIN queue' = 1 .. Len(queue) + 1
         /\ \A i \in 1 .. Len(queue) : queue'[i] = queue[i]
         /\ queue'[Len(queue) + 1] = r
  <1>1. queue \in Seq(Request)
    BY DEF TypeOK
  <1> QED
    BY <1>1, AppendProperties

LEMMA QueueTail ==
  ASSUME TypeOK, queue # <<>>, queue' = Tail(queue)
  PROVE  /\ queue' \in Seq(Request)
         /\ Len(queue) \in Nat \ {0}
         /\ Len(queue') = Len(queue) - 1
         /\ DOMAIN queue = 1 .. Len(queue)
         /\ DOMAIN queue' = 1 .. Len(queue) - 1
         /\ \A i \in 1 .. Len(queue) - 1 : queue'[i] = queue[i + 1]
         /\ Head(queue) = queue[1]
         /\ Head(queue) \in Request
  <1>1. queue \in Seq(Request)
    BY DEF TypeOK
  <1>2. Len(queue) \in Nat \ {0} /\ Head(queue) = queue[1]
    BY <1>1
  <1> QED
    BY <1>1, <1>2, HeadTailProperties

(* The batch when the loop takes a request.                                *)
LEMMA TakeBatch ==
  ASSUME TypeOK, NEW r \in Request, Take(r)
  PROVE  /\ batch' \in Seq(Nat)
         /\ r.record = 0 => batch' = batch
         /\ r.record # 0 => /\ batch' # <<>>
                            /\ Len(batch') = Len(batch) + 1
                            /\ \A i \in 1 .. Len(batch) : batch'[i] = batch[i]
                            /\ batch'[Len(batch) + 1] = r.record
  <1>1. batch \in Seq(Nat) /\ r.record \in Nat
    BY DEF TypeOK, Request
  <1> QED
    BY <1>1, AppendProperties DEF Take

(* A result that is accepted goes to the end of the order.                 *)
LEMMA EnqueueResult ==
  ASSUME TypeOK, OrderInv, queue' = Append(queue, Result(accepted + 1)),
         accepted' = accepted + 1, batch' = batch, log' = log
  PROVE  OrderInv'
  <1>1. accepted \in Nat /\ accepted + 1 \in Nat
    BY TypeFacts
  <1> DEFINE r == Result(accepted + 1)
  <1>2. r \in Request /\ r.record = accepted + 1 /\ r.flush = None
    BY <1>1, ResultType
  <1>3. /\ Len(queue) \in Nat
        /\ DOMAIN queue = 1 .. Len(queue)
        /\ DOMAIN queue' = 1 .. Len(queue) + 1
        /\ \A i \in 1 .. Len(queue) : queue'[i] = queue[i]
        /\ queue'[Len(queue) + 1] = r
    BY <1>2, QueueAppend
  <1>4. Taken \in Nat /\ Taken' = Taken /\ Taken <= accepted
    BY TakenNat DEF Taken, OrderInv
  <1> HIDE DEF r
  <1>5. Shape'
    BY <1>2, <1>3 DEF Shape, OrderInv
  <1>6. QueueInOrder'
    BY SMTT(30), <1>1, <1>2, <1>3, <1>4 DEF QueueInOrder, NothingLost, OrderInv
  <1>7. LogInOrder' /\ BatchInOrder'
    BY DEF LogInOrder, BatchInOrder, NothingLost, OrderInv
  <1> QED
    BY <1>1, <1>4, <1>5, <1>6, <1>7 DEF OrderInv, NothingLost

(* A flush request does not change the order of the results.               *)
LEMMA EnqueueWait ==
  ASSUME TypeOK, OrderInv, NEW f \in Flushers, queue' = Append(queue, Wait(f)),
         accepted' = accepted, batch' = batch, log' = log
  PROVE  OrderInv'
  <1> DEFINE r == Wait(f)
  <1>2. r \in Request /\ r.record = 0
    BY WaitType
  <1>3. /\ Len(queue) \in Nat
        /\ DOMAIN queue = 1 .. Len(queue)
        /\ DOMAIN queue' = 1 .. Len(queue) + 1
        /\ \A i \in 1 .. Len(queue) : queue'[i] = queue[i]
        /\ queue'[Len(queue) + 1] = r
    BY <1>2, QueueAppend
  <1>4. Taken \in Nat /\ Taken' = Taken /\ Taken <= accepted
    BY TakenNat DEF Taken, OrderInv
  <1> HIDE DEF r
  <1>5. Shape'
    BY <1>2, <1>3 DEF Shape, OrderInv
  <1>6. QueueInOrder'
    BY <1>2, <1>3, <1>4 DEF QueueInOrder, NothingLost, OrderInv
  <1>7. LogInOrder' /\ BatchInOrder'
    BY DEF LogInOrder, BatchInOrder, NothingLost, OrderInv
  <1> QED
    BY <1>4, <1>5, <1>6, <1>7 DEF OrderInv, NothingLost

(* The first request of the queue moves to the end of the batch.           *)
LEMMA Dequeue ==
  ASSUME TypeOK, OrderInv, queue # <<>>, queue' = Tail(queue), Take(Head(queue)),
         accepted' = accepted, log' = log
  PROVE  OrderInv' /\ Taken <= Taken'
  <1> DEFINE r == Head(queue)
  <1>1. /\ Len(queue) \in Nat \ {0}
        /\ DOMAIN queue = 1 .. Len(queue)
        /\ DOMAIN queue' = 1 .. Len(queue) - 1
        /\ \A i \in 1 .. Len(queue) - 1 : queue'[i] = queue[i + 1]
        /\ r = queue[1] /\ r \in Request
    BY QueueTail
  <1>2. /\ batch' \in Seq(Nat)
        /\ r.record = 0 => batch' = batch
        /\ r.record # 0 => /\ Len(batch') = Len(batch) + 1
                           /\ \A i \in 1 .. Len(batch) : batch'[i] = batch[i]
                           /\ batch'[Len(batch) + 1] = r.record
    BY <1>1, TakeBatch
  <1>3. r.record \in Nat /\ accepted \in Nat
    BY <1>1, TypeFacts DEF Request
  <1>4. Taken \in Nat /\ Len(batch) \in Nat /\ Len(log) \in Nat /\ Taken <= accepted
        /\ Taken = Len(log) + Len(batch)
    BY TakenNat DEF OrderInv, Taken
  <1> HIDE DEF r
  <1>5. Shape'
    BY <1>1 DEF Shape, OrderInv
  <1>6. LogInOrder'
    BY DEF LogInOrder, NothingLost, OrderInv
  <1>7. CASE r.record = 0
    <2>1. batch' = batch /\ Taken' = Taken
      BY <1>2, <1>7 DEF Taken
    <2>2. QueueInOrder'
      <3>1. \A i \in DOMAIN queue' : i + 1 \in DOMAIN queue /\ queue'[i] = queue[i + 1]
        BY <1>1
      <3>2. \A i \in DOMAIN queue' :
              queue'[i].record # 0 => queue'[i].record \in Taken' + 1 .. accepted
        BY <2>1, <3>1 DEF QueueInOrder, NothingLost, OrderInv
      <3>3. \A i, j \in DOMAIN queue' :
              i < j /\ queue'[i].record # 0 /\ queue'[j].record # 0
                => queue'[i].record < queue'[j].record
        BY <1>1 DEF QueueInOrder, NothingLost, OrderInv
      <3>4. ASSUME NEW k \in Taken + 1 .. accepted
            PROVE  \E i \in DOMAIN queue' : queue'[i].record = k
        <4>1. PICK i \in DOMAIN queue : queue[i].record = k
          BY DEF QueueInOrder, NothingLost, OrderInv
        <4>2. i # 1
          BY <4>1, <1>1, <1>4, <1>7
        <4>3. i - 1 \in DOMAIN queue' /\ queue'[i - 1] = queue[i]
          BY <4>2, <1>1
        <4> QED
          BY <4>1, <4>3
      <3> QED
        BY <2>1, <3>2, <3>3, <3>4 DEF QueueInOrder
    <2> QED
      BY <1>4, <1>5, <1>6, <2>1, <2>2 DEF BatchInOrder, NothingLost, OrderInv
  <1>8. CASE r.record # 0
    <2>1. Taken' = Taken + 1
      <3>1. Len(batch') = Len(batch) + 1 /\ Taken' = Len(log) + Len(batch')
        BY <1>2, <1>8 DEF Taken
      <3> QED
        BY <3>1, <1>4
    <2>2. r.record \in Taken + 1 .. accepted
      BY <1>1, <1>8 DEF QueueInOrder, NothingLost, OrderInv
    <2>3. \A i \in 2 .. Len(queue) : queue[i].record # 0 => queue[i].record > r.record
      <3> SUFFICES ASSUME NEW i \in 2 .. Len(queue), queue[i].record # 0
                   PROVE  r.record < queue[i].record
        BY <1>1, TypeFacts DEF Request
      <3>1. 1 \in DOMAIN queue /\ i \in DOMAIN queue /\ 1 < i
        BY <1>1
      <3> QED
        BY <3>1, <1>1, <1>8 DEF QueueInOrder, NothingLost, OrderInv
    <2>4. r.record = Taken + 1
      <3>1. PICK i \in DOMAIN queue : queue[i].record = Taken + 1
        BY <2>2, <1>3, <1>4 DEF QueueInOrder, NothingLost, OrderInv
      <3>2. CASE i = 1
        BY <3>1, <3>2, <1>1
      <3>3. CASE i # 1
        <4>1. i \in 2 .. Len(queue)
          BY <3>3, <1>1
        <4> QED
          BY <4>1, <3>1, <2>2, <2>3, <1>3, <1>4
      <3> QED
        BY <3>2, <3>3
    <2>5. BatchInOrder'
      <3>1. \A i \in 1 .. Len(batch) : batch[i] = Len(log) + i
        BY TypeFacts DEF BatchInOrder, NothingLost, OrderInv
      <3>2. DOMAIN batch' = 1 .. Len(batch) + 1
        BY <1>2, <1>8
      <3> SUFFICES ASSUME NEW i \in 1 .. Len(batch) + 1 PROVE batch'[i] = Len(log) + i
        BY <3>2 DEF BatchInOrder
      <3>3. CASE i = Len(batch) + 1
        <4>1. batch'[i] = Taken + 1
          BY <3>3, <2>4, <1>2, <1>8
        <4> QED
          BY <4>1, <3>3, <1>4
      <3>4. CASE i # Len(batch) + 1
        <4>1. i \in 1 .. Len(batch)
          BY <3>4, <1>4
        <4> QED
          BY <4>1, <3>1, <1>2, <1>8
      <3> QED
        BY <3>3, <3>4
    <2>6. \A k \in Taken' + 1 .. accepted : \E i \in DOMAIN queue' : queue'[i].record = k
      <3> SUFFICES ASSUME NEW k \in Taken + 2 .. accepted
                   PROVE  \E i \in DOMAIN queue' : queue'[i].record = k
        BY <2>1, <1>4, <1>3
      <3>1. PICK i \in DOMAIN queue : queue[i].record = k
        BY <1>3, <1>4 DEF QueueInOrder, NothingLost, OrderInv
      <3>2. i # 1
        BY <3>1, <2>4, <1>1, <1>4
      <3>3. i - 1 \in DOMAIN queue' /\ queue'[i - 1] = queue[i]
        BY <3>2, <1>1
      <3> QED
        BY <3>1, <3>3
    <2>7. \A i \in DOMAIN queue' :
            queue'[i].record # 0 => queue'[i].record \in Taken' + 1 .. accepted
      <3> SUFFICES ASSUME NEW i \in DOMAIN queue', queue'[i].record # 0
                   PROVE  queue'[i].record \in Taken + 2 .. accepted
        BY <2>1, <1>4
      <3>1. i + 1 \in 2 .. Len(queue) /\ queue'[i] = queue[i + 1]
        BY <1>1
      <3>2. queue[i + 1].record \in Taken + 1 .. accepted
        BY <3>1, <1>1 DEF QueueInOrder, NothingLost, OrderInv
      <3> QED
        BY <3>1, <3>2, <2>3, <2>4, <1>3, <1>4
    <2>8. \A i, j \in DOMAIN queue' :
            i < j /\ queue'[i].record # 0 /\ queue'[j].record # 0
              => queue'[i].record < queue'[j].record
      BY <1>1 DEF QueueInOrder, NothingLost, OrderInv
    <2>9. QueueInOrder'
      BY <2>6, <2>7, <2>8 DEF QueueInOrder
    <2> QED
      BY <1>3, <1>4, <1>5, <1>6, <2>1, <2>2, <2>5, <2>9 DEF NothingLost, OrderInv
  <1> QED
    BY <1>7, <1>8

(* A transaction appends the batch to the rows.                            *)
LEMMA Commit ==
  ASSUME TypeOK, OrderInv, log' = log \o batch, batch' = <<>>,
         queue' = queue, accepted' = accepted
  PROVE  OrderInv' /\ Taken' = Taken /\ Len(log') = Taken /\ log' \in Seq(Nat)
  <1>1. /\ log' \in Seq(Nat) /\ Len(log') = Len(log) + Len(batch)
        /\ \A i \in 1 .. Len(log) + Len(batch) :
             log'[i] = IF i <= Len(log) THEN log[i] ELSE batch[i - Len(log)]
    BY TypeFacts, ConcatProperties
  <1>2. Len(log') = Taken /\ Taken' = Taken /\ Len(batch') = 0
    BY <1>1, TakenNat DEF Taken
  <1>3. LogInOrder'
    <2> SUFFICES ASSUME NEW i \in 1 .. Len(log) + Len(batch) PROVE log'[i] = i
      BY <1>1 DEF LogInOrder
    <2>1. CASE i <= Len(log)
      <3>1. i \in DOMAIN log
        BY <2>1, TypeFacts, TakenNat
      <3> QED
        BY <1>1, <2>1, <3>1 DEF LogInOrder, NothingLost, OrderInv
    <2>2. CASE ~(i <= Len(log))
      <3>1. i - Len(log) \in DOMAIN batch
        BY <2>2, TypeFacts, TakenNat
      <3>2. batch[i - Len(log)] = Len(log) + (i - Len(log))
        BY <3>1 DEF BatchInOrder, NothingLost, OrderInv
      <3> QED
        BY <1>1, <2>2, <3>2, TakenNat
    <2> QED
      BY <2>1, <2>2
  <1>4. BatchInOrder'
    BY DEF BatchInOrder
  <1>5. QueueInOrder' /\ Shape'
    BY <1>2 DEF QueueInOrder, Shape, NothingLost, OrderInv
  <1> QED
    BY <1>1, <1>2, <1>3, <1>4, <1>5 DEF NothingLost, OrderInv

LEMMA OrderUnchanged ==
  ASSUME OrderInv, UNCHANGED <<queue, batch, log, accepted>>
  PROVE  OrderInv' /\ Taken' = Taken
  BY DEF OrderInv, NothingLost, LogInOrder, BatchInOrder, QueueInOrder, Taken, Shape
-----------------------------------------------------------------------------
(* Type correctness.                                                       *)
LEMMA InitType == Init => TypeOK
  <1> SUFFICES ASSUME Init PROVE TypeOK
    OBVIOUS
  <1>1. QueueCap \in Nat
    BY ConstantsOK
  <1>2. queue = <<>> /\ batch = <<>> /\ log = <<>> /\ accepted = 0 /\ called = 0
    BY Zenon DEF Init
  <1>3. queue \in Seq(Request) /\ Len(queue) <= QueueCap
        /\ batch \in Seq(Nat) /\ log \in Seq(Nat) /\ accepted \in Nat /\ called \in Nat
    BY <1>1, <1>2
  <1> QED
    BY <1>3 DEF Init, TypeOK

LEMMA AnswerType ==
  ASSUME TypeOK, NEW fs, NEW res \in {"ok", "err"}, Answer(fs, res)
  PROVE  fpc' \in [Flushers -> {"idle", "lock", "send", "wait", "ok", "err"}]
  BY DEF TypeOK, Answer

LEMMA NextType == TypeOK /\ [Next]_vars => TypeOK'
  <1> SUFFICES ASSUME TypeOK, [Next]_vars PROVE TypeOK'
    OBVIOUS
  <1> USE DEF loopVars, storeVars, callerVars, flushVars, closeVars
  <1>1. ASSUME NEW p \in Recorders, RecordCall(p) PROVE TypeOK'
    <2>1. called \in Nat
      BY Zenon DEF TypeOK
    <2>2. called' \in Nat
      BY <1>1, <2>1 DEF RecordCall
    <2> QED
      BY <1>1, <2>2 DEF RecordCall, TypeOK
  <1>2. ASSUME NEW p \in Recorders, RecordSend(p) PROVE TypeOK'
    <2>1. CASE queue' = queue /\ accepted' = accepted
      BY <1>2, <2>1 DEF RecordSend, TypeOK
    <2>2. CASE /\ HasRoom
               /\ queue' = Append(queue, Result(accepted + 1))
               /\ accepted' = accepted + 1
      <3>1. accepted' \in Nat
        BY <2>2, TypeFacts
      <3>2. Result(accepted + 1) \in Request
        BY <3>1, <2>2, ResultType
      <3>3. queue' \in Seq(Request) /\ Len(queue') = Len(queue) + 1
        BY <2>2, <3>2, QueueAppend
      <3>4. Len(queue') <= QueueCap
        BY <2>2, <3>3, TakenNat, ConstantsOK DEF HasRoom
      <3> QED
        BY <1>2, <3>1, <3>3, <3>4 DEF RecordSend, TypeOK
    <2> QED
      BY <1>2, <2>1, <2>2 DEF RecordSend
  <1>3. ASSUME NEW f \in Flushers, FlushCall(f) PROVE TypeOK'
    BY <1>3 DEF FlushCall, TypeOK
  <1>4. ASSUME NEW f \in Flushers, FlushLock(f) PROVE TypeOK'
    BY <1>4 DEF FlushLock, TypeOK
  <1>5. ASSUME NEW f \in Flushers, FlushSend(f) PROVE TypeOK'
    <2>1. queue' \in Seq(Request) /\ Len(queue') = Len(queue) + 1
      BY <1>5, WaitType, QueueAppend DEF FlushSend
    <2>2. Len(queue') <= QueueCap
      BY <1>5, <2>1, TakenNat, ConstantsOK DEF FlushSend, HasRoom
    <2> QED
      BY <1>5, <2>1, <2>2 DEF FlushSend, TypeOK
  <1>6. ASSUME NEW f \in Flushers, FlushGiveUp(f) PROVE TypeOK'
    BY <1>6 DEF FlushGiveUp, TypeOK
  <1>7. ASSUME NEW k \in Closers, CloseCall(k) \/ CloseStore(k) \/ CloseReturn(k) PROVE TypeOK'
    BY <1>7 DEF CloseCall, CloseStore, CloseReturn, TypeOK
  <1>8. ASSUME queue # <<>>, queue' = Tail(queue), Take(Head(queue))
        PROVE  /\ queue' \in Seq(Request) /\ Len(queue') <= QueueCap
               /\ batch' \in Seq(Nat) /\ Head(queue).flush \in Flushers \cup {None}
    <2>1. /\ queue' \in Seq(Request) /\ Len(queue') = Len(queue) - 1
          /\ Head(queue) \in Request
      BY <1>8, QueueTail
    <2>2. Len(queue) <= QueueCap /\ QueueCap \in Nat
      BY ConstantsOK DEF TypeOK
    <2>3. batch' \in Seq(Nat)
      BY <1>8, <2>1, TakeBatch
    <2> QED
      BY <2>1, <2>2, <2>3, TakenNat DEF Request
  <1>9. CASE LoopReceive
    <2>1. fpc' \in [Flushers -> {"idle", "lock", "send", "wait", "ok", "err"}]
      <3>1. CASE fpc' = fpc
        BY <3>1 DEF TypeOK
      <3>2. CASE Answer({Head(queue).flush}, "ok")
        BY <3>2, AnswerType
      <3> QED
        BY <1>9, <3>1, <3>2 DEF LoopReceive
    <2>2. waiter' \in Flushers \cup {None} /\ lpc' \in {"select", "insert"}
      BY <1>8, <1>9 DEF LoopReceive, TypeOK
    <2> QED
      BY <1>8, <1>9, <2>1, <2>2 DEF LoopReceive, TypeOK
  <1>10. CASE LoopTick
    BY <1>10 DEF LoopTick, TypeOK
  <1>11. CASE InsertOK
    <2>1. log' \in Seq(Nat) /\ batch' \in Seq(Nat)
      BY <1>11, TypeFacts, ConcatProperties DEF InsertOK
    <2>2. fpc' \in [Flushers -> {"idle", "lock", "send", "wait", "ok", "err"}]
      BY <1>11, AnswerType DEF InsertOK
    <2> QED
      BY <1>11, <2>1, <2>2 DEF InsertOK, TypeOK
  <1>12. CASE InsertFail
    <2>2. fpc' \in [Flushers -> {"idle", "lock", "send", "wait", "ok", "err"}]
      BY <1>12, AnswerType DEF InsertFail
    <2> QED
      BY <1>12, <2>2 DEF InsertFail, TypeOK
  <1>13. CASE LoopCleanup \/ PruneFail \/ LoopStop
    BY <1>13 DEF LoopCleanup, PruneFail, LoopStop, TypeOK
  <1>14. CASE PruneBatch
    BY <1>14 DEF PruneBatch, TypeOK
  <1>15. CASE Drain
    <2>1. waiters' \in SUBSET Flushers
      BY <1>8, <1>15 DEF Drain, TypeOK
    <2> QED
      BY <1>8, <1>15, <2>1 DEF Drain, TypeOK
  <1>16. CASE Finish
    <2>a. log \o batch \in Seq(Nat) /\ <<>> \in Seq(Nat)
      BY TypeFacts, ConcatProperties
    <2>1. log' \in Seq(Nat) /\ batch' \in Seq(Nat)
      BY <1>16, <2>a, TypeFacts DEF Finish
    <2>2. closeErr' \in {"ok", "err"}
      BY <1>16 DEF Finish
    <2>3. fpc' \in [Flushers -> {"idle", "lock", "send", "wait", "ok", "err"}]
      BY <1>16, <2>2, AnswerType DEF Finish
    <2> QED
      BY <1>16, <2>1, <2>2, <2>3 DEF Finish, TypeOK
  <1>17. CASE ReadPage
    BY <1>17 DEF ReadPage, TypeOK
  <1>18. ASSUME NEW i \in Rows, Age(i) PROVE TypeOK'
    <2>1. i \in Nat
      BY TypeFacts DEF Rows
    <2> QED
      BY <1>18, <2>1 DEF Age, TypeOK
  <1>19. CASE UNCHANGED vars
    BY <1>19 DEF vars, TypeOK
  <1> QED
    BY <1>1, <1>2, <1>3, <1>4, <1>5, <1>6, <1>7, <1>9, <1>10, <1>11, <1>12, <1>13, <1>14,
       <1>15, <1>16, <1>17, <1>18, <1>19 DEF Next, Insert, Prune, LoopEnd
-----------------------------------------------------------------------------
(* The other parts of the invariant.                                       *)
LEMMA BeforeNat ==
  ASSUME TypeOK, NEW f \in Flushers
  PROVE  before[f] \in Nat /\ fpc[f] \in {"idle", "lock", "send", "wait", "ok", "err"}
  BY DEF TypeOK

LEMMA QueuedFlusher ==
  ASSUME TypeOK, NEW i \in DOMAIN queue
  PROVE  queue[i].flush \in Flushers \cup {None} /\ queue[i].record \in Nat
  <1>1. queue[i] \in Request
    BY TypeFacts
  <1> QED
    BY <1>1 DEF Request

(* The request at the head of the queue has everything before it taken.    *)
LEMMA HeadServed ==
  ASSUME TypeOK, OrderInv, FlushInv, queue # <<>>, Head(queue).flush # None
  PROVE  Head(queue).flush \in Flushers /\ Served(Head(queue).flush)
  <1>1. 1 \in DOMAIN queue /\ Head(queue) = queue[1]
    BY TypeFacts
  <1> DEFINE f == Head(queue).flush
  <1>2. f \in Flushers /\ Sent(f) /\ queue[1].record = 0
    BY <1>1, QueuedFlusher DEF FlushInv, FlushPlaced, OrderInv, Shape
  <1>3. before[f] \in Nat /\ Taken \in Nat /\ accepted \in Nat /\ before[f] <= accepted
    BY <1>2, BeforeNat, TakenNat, TypeFacts DEF FlushInv, BeforeAccepted
  <1>4. ASSUME ~(before[f] <= Taken) PROVE FALSE
    <2>1. before[f] \in Taken + 1 .. accepted
      BY <1>3, <1>4
    <2>2. PICK j \in DOMAIN queue : queue[j].record = before[f]
      BY <2>1 DEF OrderInv, NothingLost, QueueInOrder
    <2>3. j # 1 /\ queue[j].record # 0
      BY <2>1, <2>2, <1>2, <1>3
    <2>4. j > 1
      BY <2>3, TypeFacts
    <2>5. queue[j].record > before[f]
      BY <1>1, <2>3, <2>4 DEF FlushInv, FlushPlaced
    <2> QED
      BY <2>2, <2>5, <1>3
  <1> QED
    BY <1>2, <1>4 DEF Served

(* What stays true of flush requests when the queue loses its head.        *)
LEMMA PlacedTail ==
  ASSUME TypeOK, FlushPlaced, queue # <<>>, queue' = Tail(queue), before' = before,
         \A f \in Flushers : Sent(f) => fpc'[f] \in {"wait", "ok", "err"}
  PROVE  FlushPlaced'
  <1>1. /\ DOMAIN queue = 1 .. Len(queue)
        /\ DOMAIN queue' = 1 .. Len(queue) - 1
        /\ \A i \in 1 .. Len(queue) - 1 : queue'[i] = queue[i + 1]
        /\ Len(queue) \in Nat
    BY QueueTail
  <1> SUFFICES ASSUME NEW i \in DOMAIN queue', queue'[i].flush # None
               PROVE  /\ fpc'[queue'[i].flush] \in {"wait", "ok", "err"}
                      /\ \A j \in DOMAIN queue' : j > i /\ queue'[j].record # 0
                            => queue'[j].record > before[queue'[i].flush]
    BY DEF FlushPlaced, Sent
  <1>2. i + 1 \in DOMAIN queue /\ queue'[i] = queue[i + 1] /\ i \in Nat
    BY <1>1
  <1>3. Sent(queue[i + 1].flush) /\ queue[i + 1].flush \in Flushers
    BY <1>2, QueuedFlusher DEF FlushPlaced
  <1>4. \A j \in DOMAIN queue' : j > i /\ queue'[j].record # 0
          => queue'[j].record > before[queue'[i].flush]
    <2> SUFFICES ASSUME NEW j \in DOMAIN queue', j > i, queue'[j].record # 0
                 PROVE  queue'[j].record > before[queue'[i].flush]
      OBVIOUS
    <2>1. j + 1 \in DOMAIN queue /\ queue'[j] = queue[j + 1] /\ j + 1 > i + 1
      BY <1>1, <1>2
    <2> QED
      BY <1>2, <2>1 DEF FlushPlaced
  <1> QED
    BY <1>2, <1>3, <1>4

(* What stays true of flush requests when one request is appended.         *)
LEMMA PlacedAppend ==
  ASSUME TypeOK, FlushPlaced, BeforeAccepted, NEW r \in Request, queue' = Append(queue, r),
         before' = before,
         r.record # 0 => r.record = accepted + 1,
         \A f \in Flushers : Sent(f) => fpc'[f] \in {"wait", "ok", "err"},
         r.flush # None => fpc'[r.flush] \in {"wait", "ok", "err"}
  PROVE  FlushPlaced'
  <1>1. /\ Len(queue) \in Nat
        /\ DOMAIN queue = 1 .. Len(queue)
        /\ DOMAIN queue' = 1 .. Len(queue) + 1
        /\ \A i \in 1 .. Len(queue) : queue'[i] = queue[i]
        /\ queue'[Len(queue) + 1] = r
    BY QueueAppend
  <1> SUFFICES ASSUME NEW i \in DOMAIN queue', queue'[i].flush # None
               PROVE  /\ fpc'[queue'[i].flush] \in {"wait", "ok", "err"}
                      /\ \A j \in DOMAIN queue' : j > i /\ queue'[j].record # 0
                            => queue'[j].record > before[queue'[i].flush]
    BY DEF FlushPlaced, Sent
  <1>2. CASE i = Len(queue) + 1
    BY <1>1, <1>2
  <1>3. CASE i # Len(queue) + 1
    <2>1. i \in DOMAIN queue /\ queue'[i] = queue[i]
      BY <1>1, <1>3
    <2>2. Sent(queue[i].flush) /\ queue[i].flush \in Flushers
      BY <2>1, QueuedFlusher DEF FlushPlaced
    <2>3. before[queue[i].flush] \in Nat /\ before[queue[i].flush] <= accepted /\ accepted \in Nat
      BY <2>2, BeforeNat, TypeFacts DEF BeforeAccepted
    <2>4. ASSUME NEW j \in DOMAIN queue', j > i, queue'[j].record # 0
          PROVE  queue'[j].record > before[queue'[i].flush]
      <3>1. CASE j = Len(queue) + 1
        <4>1. queue'[j].record = accepted + 1
          BY <1>1, <2>4, <3>1
        <4> QED
          BY <4>1, <2>1, <2>3
      <3>2. CASE j # Len(queue) + 1
        <4>1. j \in DOMAIN queue /\ queue'[j] = queue[j]
          BY <1>1, <3>2
        <4> QED
          BY <4>1, <2>1, <2>4 DEF FlushPlaced
      <3> QED
        BY <3>1, <3>2
    <2> QED
      BY <2>1, <2>2, <2>4
  <1> QED
    BY <1>2, <1>3

LEMMA AnswerSent ==
  ASSUME TypeOK, NEW fs, NEW res \in {"ok", "err"}, Answer(fs, res), NEW f \in Flushers
  PROVE  /\ Sent(f) => fpc'[f] \in {"wait", "ok", "err"}
         /\ fpc'[f] = "ok" => fpc[f] = "ok" \/ (f \in fs /\ res = "ok")
         /\ fpc'[f] = "send" => fpc[f] = "send"
  BY DEF Answer, Sent

(* Requests that have been served stay so while rows and batch only grow.  *)
LEMMA ServedKept ==
  ASSUME TypeOK, WaitersServed, WaiterServed, TypeOK',
         before' = before, Taken <= Taken', Taken' \in Nat,
         \A f \in Flushers : Sent(f) => fpc'[f] \in {"wait", "ok", "err"}
  PROVE  /\ waiters' = waiters => WaitersServed'
         /\ waiter' \in {None, waiter} => WaiterServed'
  <1>1. ASSUME NEW f \in Flushers, Served(f)
        PROVE  fpc'[f] \in {"wait", "ok", "err"} /\ before'[f] <= Taken'
    BY <1>1, BeforeNat, TakenNat DEF Served
  <1>2. waiters \subseteq Flushers /\ (waiter # None => waiter \in Flushers)
    BY DEF TypeOK
  <1>3. ASSUME waiters' = waiters PROVE WaitersServed'
    BY <1>1, <1>2, <1>3 DEF WaitersServed, Served, Sent
  <1>4. ASSUME waiter' \in {None, waiter} PROVE WaiterServed'
    BY <1>1, <1>2, <1>4 DEF WaiterServed, Served, Sent
  <1> QED
    BY <1>3, <1>4

(* Steps that leave queue, rows and batch alone, and by which no Flush     *)
(* returns nil.                                                            *)
LEMMA FlushKept ==
  ASSUME TypeOK, TypeOK', FlushInv, UNCHANGED <<queue, batch, log, accepted, before, waiters>>,
         waiter' \in {None, waiter},
         \A f \in Flushers : Sent(f) => fpc'[f] \in {"wait", "ok", "err"},
         \A f \in Flushers : fpc'[f] = "ok" => fpc[f] = "ok"
  PROVE  FlushInv'
  <1>1. Taken' = Taken /\ Taken \in Nat /\ Taken' \in Nat /\ Taken <= Taken'
    BY TakenNat DEF Taken
  <1>2. WaitersServed' /\ WaiterServed'
    BY <1>1, ServedKept DEF FlushInv
  <1>3. FlushPlaced'
    <2> SUFFICES ASSUME NEW i \in DOMAIN queue, queue[i].flush # None
                 PROVE  fpc'[queue[i].flush] \in {"wait", "ok", "err"}
      BY DEF FlushInv, FlushPlaced, Sent
    <2>1. queue[i].flush \in Flushers /\ Sent(queue[i].flush)
      BY QueuedFlusher DEF FlushInv, FlushPlaced
    <2> QED
      BY <2>1
  <1>4. BeforeAccepted' /\ FlushedStored'
    BY DEF FlushInv, BeforeAccepted, FlushedStored
  <1> QED
    BY <1>2, <1>3, <1>4 DEF FlushInv
-----------------------------------------------------------------------------
LEMMA OrderStep == IInv /\ [Next]_vars => OrderInv'
  <1> SUFFICES ASSUME TypeOK, OrderInv, [Next]_vars PROVE OrderInv'
    BY DEF IInv
  <1> USE DEF loopVars, storeVars, callerVars, flushVars, closeVars
  <1>1. ASSUME UNCHANGED <<queue, batch, log, accepted>> PROVE OrderInv'
    BY <1>1, OrderUnchanged
  <1>2. ASSUME NEW p \in Recorders, RecordCall(p) \/ RecordSend(p) PROVE OrderInv'
    BY <1>1, <1>2, EnqueueResult DEF RecordCall, RecordSend
  <1>3. ASSUME NEW f \in Flushers,
               FlushCall(f) \/ FlushLock(f) \/ FlushSend(f) \/ FlushGiveUp(f)
        PROVE  OrderInv'
    BY <1>1, <1>3, EnqueueWait DEF FlushCall, FlushLock, FlushSend, FlushGiveUp
  <1>4. ASSUME NEW k \in Closers, CloseCall(k) \/ CloseStore(k) \/ CloseReturn(k)
        PROVE  OrderInv'
    BY <1>1, <1>4 DEF CloseCall, CloseStore, CloseReturn
  <1>5. CASE LoopReceive \/ Drain
    BY <1>5, Dequeue DEF LoopReceive, Drain
  <1>6. CASE InsertOK
    BY <1>6, Commit DEF InsertOK
  <1>7. CASE Finish
    BY <1>1, <1>7, Commit DEF Finish
  <1>8. CASE LoopTick \/ LoopCleanup \/ LoopStop \/ InsertFail \/ Prune \/ ReadPage
    BY <1>1, <1>8 DEF LoopTick, LoopCleanup, LoopStop, InsertFail, Prune, PruneBatch,
                      PruneFail, ReadPage
  <1>9. ASSUME NEW i \in Rows, Age(i) PROVE OrderInv'
    BY <1>1, <1>9 DEF Age
  <1>10. CASE UNCHANGED vars
    BY <1>1, <1>10 DEF vars
  <1> QED
    BY <1>2, <1>3, <1>4, <1>5, <1>6, <1>7, <1>8, <1>9, <1>10 DEF Next, Insert, LoopEnd

LEMMA FlushStep == IInv /\ [Next]_vars => FlushInv'
  <1> SUFFICES ASSUME TypeOK, OrderInv, FlushInv, [Next]_vars, TypeOK' PROVE FlushInv'
    BY NextType DEF IInv
  <1> USE DEF loopVars, storeVars, callerVars, flushVars, closeVars
  <1>t. Taken \in Nat /\ Taken' \in Nat /\ Len(log) \in Nat /\ Len(log') \in Nat
        /\ accepted \in Nat
    <2>1. log' \in Seq(Nat) /\ batch' \in Seq(Nat)
      BY Zenon DEF TypeOK
    <2>2. Len(log') \in Nat /\ Len(batch') \in Nat
      BY <2>1
    <2>3. Taken' \in Nat
      BY <2>2 DEF Taken
    <2> QED
      BY <2>2, <2>3, TakenNat, TypeFacts
  <1>s. fpc' = fpc => /\ \A f \in Flushers : Sent(f) => fpc'[f] \in {"wait", "ok", "err"}
                      /\ \A f \in Flushers : fpc'[f] = "ok" => fpc[f] = "ok"
    BY DEF Sent
  <1>1. ASSUME UNCHANGED <<queue, batch, log, accepted, before, waiters, fpc>>,
               waiter' \in {None, waiter}
        PROVE  FlushInv'
    BY <1>1, <1>s, FlushKept
  <1>2. ASSUME NEW p \in Recorders, RecordSend(p) PROVE FlushInv'
    <2>1. CASE queue' = queue /\ accepted' = accepted
      BY <1>1, <1>2, <2>1 DEF RecordSend
    <2>2. CASE queue' = Append(queue, Result(accepted + 1)) /\ accepted' = accepted + 1
      <3>1. /\ Result(accepted + 1) \in Request
            /\ Result(accepted + 1).record = accepted + 1
            /\ Result(accepted + 1).flush = None
        BY <1>t, ResultType
      <3>2. FlushPlaced'
        BY <1>2, <1>s, <2>2, <3>1, PlacedAppend DEF RecordSend, FlushInv
      <3>3. WaiterServed' /\ WaitersServed' /\ FlushedStored'
        BY <1>2 DEF RecordSend, FlushInv, WaiterServed, WaitersServed, Served, Sent, Taken,
                    FlushedStored
      <3>4. BeforeAccepted'
        BY <1>2, <1>t, <2>2, BeforeNat DEF RecordSend, FlushInv, BeforeAccepted
      <3> QED
        BY <3>2, <3>3, <3>4 DEF FlushInv
    <2> QED
      BY <1>2, <2>1, <2>2 DEF RecordSend
  <1>3. ASSUME NEW f \in Flushers, FlushCall(f) PROVE FlushInv'
    <2>1. ~Sent(f) /\ fpc'[f] = "lock" /\ before'[f] = accepted
          /\ \A g \in Flushers : g # f => fpc'[g] = fpc[g] /\ before'[g] = before[g]
      <3>1. fpc \in [Flushers -> FlushPC] /\ before \in [Flushers -> Nat]
        BY FlushTypes
      <3> QED
        BY <1>3, <3>1 DEF FlushCall, Sent
    <2>2. UNCHANGED <<queue, batch, log, accepted, waiter, waiters>> /\ Taken' = Taken
      BY <1>3 DEF FlushCall, Taken
    <2>3. BeforeAccepted'
      BY <2>1, <2>2, <1>t DEF FlushInv, BeforeAccepted
    <2>4. FlushedStored'
      BY <2>1, <2>2 DEF FlushInv, FlushedStored
    <2>5. FlushPlaced'
      <3> SUFFICES ASSUME NEW i \in DOMAIN queue, queue[i].flush # None
                   PROVE  /\ fpc'[queue[i].flush] = fpc[queue[i].flush]
                          /\ before'[queue[i].flush] = before[queue[i].flush]
        BY <2>2 DEF FlushInv, FlushPlaced, Sent
      <3>1. Sent(queue[i].flush) /\ queue[i].flush \in Flushers
        BY QueuedFlusher DEF FlushInv, FlushPlaced
      <3> QED
        BY <2>1, <3>1
    <2>6. WaiterServed' /\ WaitersServed'
      <3>1. waiters \subseteq Flushers /\ (waiter # None => waiter \in Flushers)
        BY DEF TypeOK
      <3> QED
        BY <2>1, <2>2, <3>1 DEF FlushInv, WaiterServed, WaitersServed, Served, Sent
    <2> QED
      BY <2>3, <2>4, <2>5, <2>6 DEF FlushInv
  <1>4. ASSUME NEW f \in Flushers, FlushLock(f) \/ FlushGiveUp(f) PROVE FlushInv'
    <2>1. /\ \A g \in Flushers : Sent(g) => fpc'[g] \in {"wait", "ok", "err"}
          /\ \A g \in Flushers : fpc'[g] = "ok" => fpc[g] = "ok"
      <3>1. fpc \in [Flushers -> FlushPC]
        BY FlushTypes
      <3> QED
        BY <1>4, <3>1 DEF FlushLock, FlushGiveUp, Sent
    <2> QED
      BY <1>4, <2>1, FlushKept DEF FlushLock, FlushGiveUp
  <1>5. ASSUME NEW f \in Flushers, FlushSend(f) PROVE FlushInv'
    <2>1. /\ fpc'[f] = "wait"
          /\ \A g \in Flushers : Sent(g) => fpc'[g] \in {"wait", "ok", "err"}
          /\ \A g \in Flushers : fpc'[g] = "ok" => fpc[g] = "ok"
      BY <1>5 DEF FlushSend, Sent, TypeOK
    <2>2. Wait(f) \in Request /\ Wait(f).record = 0 /\ Wait(f).flush = f
      BY WaitType
    <2>3. FlushPlaced'
      BY <1>5, <2>1, <2>2, PlacedAppend DEF FlushSend, FlushInv
    <2>4. UNCHANGED <<batch, log, accepted, waiter, waiters, before>> /\ Taken' = Taken
      BY <1>5 DEF FlushSend, Taken
    <2>5. WaiterServed' /\ WaitersServed'
      BY <2>1, <2>4, <1>t, ServedKept DEF FlushInv
    <2>6. BeforeAccepted' /\ FlushedStored'
      BY <2>1, <2>4 DEF FlushInv, BeforeAccepted, FlushedStored
    <2> QED
      BY <2>3, <2>5, <2>6 DEF FlushInv
  <1>6. ASSUME queue # <<>>, queue' = Tail(queue), Take(Head(queue)),
               UNCHANGED <<accepted, log, before>>,
               \A g \in Flushers : Sent(g) => fpc'[g] \in {"wait", "ok", "err"}
        PROVE  /\ BeforeAccepted' /\ FlushPlaced'
               /\ Taken <= Taken'
               /\ Head(queue).flush # None =>
                    /\ fpc'[Head(queue).flush] \in {"wait", "ok", "err"}
                    /\ before'[Head(queue).flush] <= Taken'
               /\ waiters' = waiters => WaitersServed'
               /\ waiter' \in {None, waiter} => WaiterServed'
    <2>1. Taken <= Taken'
      BY <1>6, Dequeue
    <2>2. FlushPlaced'
      BY <1>6, PlacedTail DEF FlushInv
    <2>3. BeforeAccepted'
      BY <1>6 DEF FlushInv, BeforeAccepted
    <2>4. ASSUME Head(queue).flush # None
          PROVE  /\ fpc'[Head(queue).flush] \in {"wait", "ok", "err"}
                 /\ before'[Head(queue).flush] <= Taken'
      <3>1. Head(queue).flush \in Flushers /\ Served(Head(queue).flush)
        BY <1>6, <2>4, HeadServed
      <3> QED
        BY <1>6, <3>1, <2>1, <1>t, BeforeNat DEF Served
    <2>5. /\ waiters' = waiters => WaitersServed'
          /\ waiter' \in {None, waiter} => WaiterServed'
      BY <1>6, <2>1, <1>t, ServedKept DEF FlushInv
    <2> QED
      BY <2>1, <2>2, <2>3, <2>4, <2>5
  <1>7. CASE LoopReceive
    <2> DEFINE f == Head(queue).flush
    <2>1. \A g \in Flushers : Sent(g) => fpc'[g] \in {"wait", "ok", "err"}
      BY <1>7, <1>s, AnswerSent DEF LoopReceive
    <2>2. /\ queue # <<>> /\ queue' = Tail(queue) /\ Take(Head(queue))
          /\ UNCHANGED <<accepted, log, before, waiters>>
      BY <1>7 DEF LoopReceive
    <2>3. /\ BeforeAccepted' /\ FlushPlaced' /\ WaitersServed'
          /\ f # None => fpc'[f] \in {"wait", "ok", "err"} /\ before'[f] <= Taken'
          /\ waiter' \in {None, waiter} => WaiterServed'
      BY <1>6, <2>1, <2>2
    <2>4. WaiterServed'
      <3>1. CASE waiter' = f
        BY <2>3, <3>1 DEF WaiterServed, Served, Sent
      <3>2. CASE waiter' = waiter
        BY <2>3, <3>2
      <3> QED
        BY <1>7, <3>1, <3>2 DEF LoopReceive
    <2>5. FlushedStored'
      <3>1. CASE fpc' = fpc
        BY <2>2, <3>1 DEF FlushInv, FlushedStored
      <3>2. CASE Answer({f}, "ok") /\ ~(MustWrite(Head(queue)) /\ batch' # <<>>)
        <4> SUFFICES ASSUME NEW g \in Flushers, fpc'[g] = "ok" PROVE before'[g] <= Len(log')
          BY DEF FlushedStored
        <4>1. CASE fpc[g] = "ok"
          BY <2>2, <4>1 DEF FlushInv, FlushedStored
        <4>2. CASE g = f
          <5>1. f # None
            BY <4>2, ConstantsOK
          <5>2. batch' = <<>>
            BY <3>2, <5>1 DEF MustWrite
          <5>3. Len(batch') = 0 /\ Taken' = Len(log')
            BY <5>2, <1>t DEF Taken
          <5> QED
            BY <5>1, <5>3, <2>3, <4>2
        <4> QED
          BY <3>2, <4>1, <4>2, AnswerSent
      <3> QED
        BY <1>7, <3>1, <3>2 DEF LoopReceive
    <2> QED
      BY <2>3, <2>4, <2>5 DEF FlushInv
  <1>8. CASE Drain
    <2> DEFINE f == Head(queue).flush
    <2>2. /\ queue # <<>> /\ queue' = Tail(queue) /\ Take(Head(queue))
          /\ UNCHANGED <<accepted, log, before, fpc, waiter>>
          /\ waiters' = (waiters \cup {f}) \ {None}
      BY <1>8 DEF Drain
    <2>3. /\ BeforeAccepted' /\ FlushPlaced' /\ WaiterServed'
          /\ f # None => fpc'[f] \in {"wait", "ok", "err"} /\ before'[f] <= Taken'
          /\ Taken <= Taken'
      BY <1>6, <2>2, <1>s
    <2>4. WaitersServed'
      <3> SUFFICES ASSUME NEW g \in waiters', g # f
                   PROVE  fpc'[g] \in {"wait", "ok", "err"} /\ before'[g] <= Taken'
        BY <2>2, <2>3 DEF WaitersServed, Served, Sent
      <3>1. g \in waiters /\ g \in Flushers
        BY <2>2 DEF TypeOK
      <3>2. Served(g) /\ before[g] \in Nat
        BY <3>1, BeforeNat DEF FlushInv, WaitersServed
      <3> QED
        BY <3>2, <2>2, <2>3, <1>t DEF Served, Sent
    <2>5. FlushedStored'
      BY <2>2 DEF FlushInv, FlushedStored
    <2> QED
      BY <2>3, <2>4, <2>5 DEF FlushInv
  <1>9. ASSUME log' = log \o batch, batch' = <<>>, UNCHANGED <<queue, accepted, before, waiters>>,
               waiter' \in {None, waiter},
               NEW fs, NEW res \in {"ok", "err"}, Answer(fs, res),
               \A g \in Flushers : g \in fs => before[g] <= Taken
        PROVE  FlushInv'
    <2>1. Taken' = Taken /\ Len(log') = Taken /\ Len(log) <= Len(log')
      BY <1>9, <1>t, Commit, TakenNat DEF Taken
    <2>2. \A g \in Flushers :
            /\ Sent(g) => fpc'[g] \in {"wait", "ok", "err"}
            /\ fpc'[g] = "ok" => fpc[g] = "ok" \/ g \in fs
      BY <1>9, AnswerSent
    <2>3. FlushedStored'
      <3> SUFFICES ASSUME NEW g \in Flushers, fpc'[g] = "ok" PROVE before[g] <= Len(log')
        BY <1>9 DEF FlushedStored
      <3>1. CASE fpc[g] = "ok"
        BY <3>1, <2>1, <1>t, BeforeNat DEF FlushInv, FlushedStored
      <3>2. CASE g \in fs
        BY <3>2, <1>9, <2>1
      <3> QED
        BY <2>2, <3>1, <3>2
    <2>4. WaiterServed' /\ WaitersServed'
      BY <1>9, <2>1, <2>2, <1>t, ServedKept DEF FlushInv
    <2>5. FlushPlaced'
      <3> SUFFICES ASSUME NEW i \in DOMAIN queue, queue[i].flush # None
                   PROVE  fpc'[queue[i].flush] \in {"wait", "ok", "err"}
        BY <1>9 DEF FlushInv, FlushPlaced, Sent
      <3>1. queue[i].flush \in Flushers /\ Sent(queue[i].flush)
        BY QueuedFlusher DEF FlushInv, FlushPlaced
      <3> QED
        BY <2>2, <3>1
    <2>6. BeforeAccepted'
      BY <1>9 DEF FlushInv, BeforeAccepted
    <2> QED
      BY <2>3, <2>4, <2>5, <2>6 DEF FlushInv
  <1>10. CASE InsertOK
    <2>1. \A g \in Flushers : g \in {waiter} => before[g] <= Taken
      BY ConstantsOK DEF FlushInv, WaiterServed, Served
    <2> QED
      BY <1>10, <1>9, <2>1 DEF InsertOK
  <1>11. CASE InsertFail
    <2>1. \A g \in Flushers : /\ Sent(g) => fpc'[g] \in {"wait", "ok", "err"}
                              /\ fpc'[g] = "ok" => fpc[g] = "ok"
      BY <1>11, AnswerSent DEF InsertFail
    <2> QED
      BY <1>11, <2>1, FlushKept DEF InsertFail
  <1>12. CASE Finish
    <2>1. \A g \in Flushers : g \in waiters => before[g] <= Taken
      BY DEF FlushInv, WaitersServed, Served
    <2>2. CASE log' = log \o batch /\ batch' = <<>> /\ closeErr' \in {"ok", "err"}
      BY <1>12, <1>9, <2>1, <2>2 DEF Finish
    <2>3. CASE closeErr' = "err" /\ UNCHANGED <<log, batch>>
      <3>1. \A g \in Flushers : /\ Sent(g) => fpc'[g] \in {"wait", "ok", "err"}
                                /\ fpc'[g] = "ok" => fpc[g] = "ok"
        BY <1>12, <2>3, AnswerSent DEF Finish
      <3> QED
        BY <1>12, <2>3, <3>1, FlushKept DEF Finish
    <2> QED
      BY <1>12, <2>2, <2>3 DEF Finish
  <1>13. CASE LoopTick \/ LoopCleanup \/ LoopStop \/ Prune \/ ReadPage
    BY <1>1, <1>13 DEF LoopTick, LoopCleanup, LoopStop, Prune, PruneBatch, PruneFail, ReadPage
  <1>14. ASSUME NEW i \in Rows, Age(i) PROVE FlushInv'
    BY <1>1, <1>14 DEF Age
  <1>15. ASSUME NEW k \in Closers, CloseCall(k) \/ CloseStore(k) \/ CloseReturn(k)
         PROVE  FlushInv'
    BY <1>1, <1>15 DEF CloseCall, CloseStore, CloseReturn
  <1>16. ASSUME NEW p \in Recorders, RecordCall(p) PROVE FlushInv'
    BY <1>1, <1>16 DEF RecordCall
  <1>17. CASE UNCHANGED vars
    BY <1>1, <1>17 DEF vars
  <1> QED
    BY <1>2, <1>3, <1>4, <1>5, <1>7, <1>8, <1>10, <1>11, <1>12, <1>13, <1>14, <1>15, <1>16,
       <1>17 DEF Next, Insert, LoopEnd

LEMMA CloseInvStep == IInv /\ [Next]_vars => CloseInv'
  <1> SUFFICES ASSUME TypeOK, CloseInv, [Next]_vars PROVE CloseInv'
    BY DEF IInv
  <1> USE DEF loopVars, storeVars, callerVars, flushVars, closeVars
  <1>s. fpc' = fpc => \A f \in Flushers : fpc'[f] = "send" => fpc[f] = "send"
    OBVIOUS
  <1>1. ASSUME UNCHANGED <<queue, batch, closed, lpc, closeErr>>,
               \A f \in Flushers : fpc'[f] = "send" => fpc[f] = "send"
        PROVE  CloseInv'
    BY <1>1 DEF CloseInv
  <1>a. ASSUME closed' = closed, closeErr' = closeErr, lpc # "done", lpc' # "done",
               lpc' = "drain" => closed,
               \A f \in Flushers : fpc'[f] = "send" => fpc[f] = "send"
        PROVE  CloseInv'
    BY <1>a DEF CloseInv
  <1>2. ASSUME NEW p \in Recorders, RecordCall(p) \/ RecordSend(p) PROVE CloseInv'
    <2>1. CASE queue' = queue
      BY <1>1, <1>2, <1>s, <2>1 DEF RecordCall, RecordSend
    <2>2. CASE RecordSend(p) /\ ~closed
      <3>1. lpc # "done" /\ lpc # "drain"
        BY <2>2 DEF CloseInv
      <3> QED
        BY <1>a, <1>s, <2>2, <3>1 DEF RecordSend
    <2> QED
      BY <1>2, <2>1, <2>2 DEF RecordCall, RecordSend
  <1>3. ASSUME NEW f \in Flushers, FlushCall(f) \/ FlushGiveUp(f) PROVE CloseInv'
    <2>1. \A g \in Flushers : fpc'[g] = "send" => fpc[g] = "send"
      BY <1>3 DEF FlushCall, FlushGiveUp, TypeOK
    <2> QED
      BY <1>1, <1>3, <2>1 DEF FlushCall, FlushGiveUp
  <1>4. ASSUME NEW f \in Flushers, FlushLock(f) PROVE CloseInv'
    BY <1>4 DEF FlushLock, CloseInv, TypeOK
  <1>5. ASSUME NEW f \in Flushers, FlushSend(f) PROVE CloseInv'
    BY <1>5 DEF FlushSend, CloseInv, TypeOK
  <1>6. ASSUME NEW k \in Closers, CloseCall(k) \/ CloseReturn(k) PROVE CloseInv'
    BY <1>1, <1>6, <1>s DEF CloseCall, CloseReturn
  <1>7. ASSUME NEW k \in Closers, CloseStore(k) PROVE CloseInv'
    BY <1>7 DEF CloseStore, CanLock, ReadLocked, CloseInv
  <1>8. CASE LoopReceive \/ InsertOK \/ InsertFail
    <2>1. \A g \in Flushers : fpc'[g] = "send" => fpc[g] = "send"
      BY <1>8, <1>s, AnswerSent DEF LoopReceive, InsertOK, InsertFail
    <2>2. /\ lpc # "done" /\ lpc' # "done" /\ lpc' # "drain"
          /\ UNCHANGED <<closed, closeErr>>
      BY <1>8 DEF LoopReceive, InsertOK, InsertFail
    <2> QED
      BY <1>a, <2>1, <2>2
  <1>9. CASE LoopTick \/ LoopCleanup \/ LoopStop \/ Prune \/ Drain
    <2>1. lpc # "done" /\ lpc' # "done" /\ UNCHANGED <<closed, closeErr, fpc>>
      BY <1>9 DEF LoopTick, LoopCleanup, LoopStop, Prune, PruneBatch, PruneFail, Drain
    <2>2. lpc' = "drain" => closed
      BY <1>9 DEF LoopTick, LoopCleanup, LoopStop, Prune, PruneBatch, PruneFail, Drain, CloseInv
    <2> QED
      BY <1>a, <1>s, <2>1, <2>2
  <1>10. CASE Finish
    <2>1. closeErr' \in {"ok", "err"}
      BY <1>10 DEF Finish
    <2>2. \A g \in Flushers : fpc'[g] = "send" => fpc[g] = "send"
      BY <1>10, <2>1, AnswerSent DEF Finish
    <2>3. closed /\ closed' = closed /\ queue' = <<>> /\ lpc' = "done"
      BY <1>10 DEF Finish, CloseInv
    <2>4. closeErr' = "ok" => batch' = <<>>
      BY <1>10 DEF Finish
    <2> QED
      BY <2>2, <2>3, <2>4 DEF CloseInv
  <1>11. CASE ReadPage
    BY <1>1, <1>11, <1>s DEF ReadPage
  <1>12. ASSUME NEW i \in Rows, Age(i) PROVE CloseInv'
    BY <1>1, <1>12, <1>s DEF Age
  <1>13. CASE UNCHANGED vars
    BY <1>1, <1>13, <1>s DEF vars
  <1> QED
    BY <1>2, <1>3, <1>4, <1>5, <1>6, <1>7, <1>8, <1>9, <1>10, <1>11, <1>12, <1>13
    DEF Next, Insert, LoopEnd

LEMMA InitIInv == Init => IInv
  <1> SUFFICES ASSUME Init PROVE IInv
    OBVIOUS
  <1>1. TypeOK
    BY InitType
  <1>2. queue = <<>> /\ batch = <<>> /\ log = <<>> /\ accepted = 0
    BY Zenon DEF Init
  <1>3. DOMAIN queue = {} /\ DOMAIN batch = {} /\ DOMAIN log = {} /\ Taken = 0
    BY <1>2 DEF Taken
  <1>4. OrderInv
    BY <1>2, <1>3 DEF OrderInv, NothingLost, LogInOrder, BatchInOrder, QueueInOrder, Shape
  <1>5. FlushInv
    <2>1. \A f \in Flushers : before[f] = 0 /\ fpc[f] = "idle"
      BY DEF Init
    <2>2. waiter = None /\ waiters = {}
      BY DEF Init
    <2> QED
      BY <1>2, <1>3, <2>1, <2>2 DEF FlushInv, BeforeAccepted, FlushPlaced, WaiterServed,
                                    WaitersServed, FlushedStored
  <1>6. CloseInv
    BY DEF Init, CloseInv
  <1> QED
    BY <1>1, <1>4, <1>5, <1>6 DEF IInv

LEMMA Inductive == Spec => []IInv
  <1>1. Init => IInv
    BY InitIInv
  <1>2. IInv /\ [Next]_vars => IInv'
    BY NextType, OrderStep, FlushStep, CloseInvStep DEF IInv
  <1> QED
    BY <1>1, <1>2, PTL DEF Spec
-----------------------------------------------------------------------------
(* The state keeps its types, and the queue its capacity: Record and Flush *)
(* look at the room there is and send in one step with respect to others.  *)
THEOREM HistoryTypeCorrect == Spec => []TypeOK
  <1>1. IInv => TypeOK
    BY DEF IInv
  <1> QED
    BY <1>1, Inductive, PTL

(* The rows, the batch and the queue hold the accepted results, each once  *)
(* and in order, for all capacities and whatever transactions fail.        *)
THEOREM HistoryNothingLost == Spec => []NothingLost
  <1>1. IInv => NothingLost
    BY DEF IInv, OrderInv
  <1> QED
    BY <1>1, Inductive, PTL

(* A Flush that returns nil has everything before it on disk.              *)
THEOREM HistoryFlushedStored == Spec => []FlushedStored
  <1>1. IInv => FlushedStored
    BY DEF IInv, FlushInv
  <1> QED
    BY <1>1, Inductive, PTL

(* A Close that returns nil has everything accepted on disk.               *)
THEOREM HistoryCloseReportsLoss == Spec => []CloseReportsLoss
  <1>1. ASSUME IInv PROVE CloseReportsLoss
    <2> SUFFICES ASSUME closeErr = "ok" PROVE Len(log) = accepted
      BY DEF CloseReportsLoss
    <2>1. queue = <<>> /\ batch = <<>>
      BY <1>1 DEF IInv, CloseInv
    <2>2. Taken = Len(log) /\ Taken \in Nat /\ accepted \in Nat /\ DOMAIN queue = {}
      BY <1>1, <2>1, TakenNat, TypeFacts DEF Taken, IInv
    <2>3. Taken <= accepted /\ \A k \in Taken + 1 .. accepted : \E i \in DOMAIN queue : queue[i].record = k
      BY <1>1 DEF IInv, OrderInv, NothingLost, QueueInOrder
    <2> QED
      BY <2>2, <2>3
  <1> QED
    BY <1>1, Inductive, PTL
-----------------------------------------------------------------------------
(* Pages.  Newer ids than i:                                               *)
Above(ids, i) == {j \in ids : j > i}

(* Sets of numbers have a least member, bounded ones a greatest one.       *)
LEMMA MinExists ==
  ASSUME NEW T, T \subseteq Nat, T # {}
  PROVE  \E x \in T : \A y \in T : x <= y
  <1>1. PICK x \in T : \A y \in T : ~ (<<y, x>> \in OpToRel(<, Nat))
    BY NatLessThanWellFounded, WFMin
  <1>2. \A y \in T : ~(y < x)
    BY <1>1 DEF OpToRel
  <1> QED
    BY <1>2

LEMMA MaxExists ==
  ASSUME NEW N \in Nat, NEW T, T \subseteq 1 .. N, T # {}
  PROVE  \E x \in T : \A y \in T : y <= x
  <1> DEFINE R == {N - t : t \in T}
  <1>1. R \subseteq Nat
    <2>1. \A t \in T : t \in Int /\ 0 <= t /\ t <= N
      OBVIOUS
    <2> QED
      BY <2>1
  <1>2. R # {}
    OBVIOUS
  <1>3. PICK r \in R : \A y \in R : r <= y
    BY <1>1, <1>2, MinExists
  <1>4. PICK x \in T : r = N - x
    OBVIOUS
  <1>5. \A y \in T : N - x <= N - y
    BY <1>3, <1>4
  <1> QED
    BY <1>5

(* Sets of row ids.                                                        *)
LEMMA IdsNat ==
  ASSUME NEW L \in Nat, NEW ids \in SUBSET (1 .. L)
  PROVE  ids \subseteq Nat /\ \A i \in ids : i \in Nat /\ 1 <= i /\ i <= L
  <1>1. ASSUME NEW i \in ids PROVE i \in Nat /\ 1 <= i /\ i <= L
    <2>1. i \in 1 .. L
      BY Zenon
    <2> QED
      BY <2>1
  <1> QED
    BY <1>1

(* The rank of an id: how many are newer.  Ranks are different.            *)
LEMMA AboveSmaller ==
  ASSUME NEW L \in Nat, NEW ids \in SUBSET (1 .. L)
  PROVE  /\ IsFiniteSet(ids) /\ Cardinality(ids) \in Nat
         /\ \A i \in ids : /\ Cardinality(Above(ids, i)) \in Nat
                           /\ Cardinality(Above(ids, i)) < Cardinality(ids)
         /\ \A i, k \in ids : i < k => Cardinality(Above(ids, k)) < Cardinality(Above(ids, i))
  <1>1. IsFiniteSet(ids) /\ ids \subseteq Nat
    <2>1. IsFiniteSet(1 .. L)
      BY FS_Interval
    <2> QED
      BY <2>1, FS_Subset, IdsNat
  <1>2. ASSUME NEW S \in SUBSET ids
        PROVE  IsFiniteSet(S) /\ Cardinality(S) \in Nat
    BY <1>1, FS_Subset, FS_CardinalityType
  <1>3. ASSUME NEW S \in SUBSET ids, NEW T \in SUBSET S, NEW x \in S, x \notin T
        PROVE  Cardinality(T) < Cardinality(S)
    <2>1. Cardinality(T) <= Cardinality(S) /\ (Cardinality(S) = Cardinality(T) => S = T)
      BY <1>2, <1>3, FS_Subset
    <2> QED
      BY <2>1, <1>2, <1>3
  <1>4. ASSUME NEW i \in ids
        PROVE  /\ Cardinality(Above(ids, i)) \in Nat
               /\ Cardinality(Above(ids, i)) < Cardinality(ids)
    <2>1. Above(ids, i) \in SUBSET ids /\ i \notin Above(ids, i)
      BY DEF Above
    <2> QED
      BY <2>1, <1>2, <1>3
  <1>5. ASSUME NEW i \in ids, NEW k \in ids, i < k
        PROVE  Cardinality(Above(ids, k)) < Cardinality(Above(ids, i))
    <2>1. /\ Above(ids, i) \in SUBSET ids /\ k \in Above(ids, i) /\ k \notin Above(ids, k)
          /\ Above(ids, k) \in SUBSET Above(ids, i)
      <3>1. \A j \in ids : j > k => j > i
        BY <1>5, IdsNat
      <3>2. k > i /\ ~(k > k)
        BY <1>5, IdsNat
      <3> QED
        BY <3>1, <3>2 DEF Above
    <2> QED
      BY <2>1, <1>3
  <1> QED
    BY <1>1, <1>2, <1>4, <1>5

(* Descending lists each member of a finite set of row ids once.           *)
LEMMA DescendingLists ==
  ASSUME NEW L \in Nat, NEW ids \in SUBSET (1 .. L)
  PROVE  /\ Descending(ids) \in Seq(Nat)
         /\ \A a \in DOMAIN Descending(ids) : Descending(ids)[a] \in ids
         /\ \A i \in ids : \E a \in DOMAIN Descending(ids) : Descending(ids)[a] = i
         /\ \A a, b \in DOMAIN Descending(ids) :
              a # b => Descending(ids)[a] # Descending(ids)[b]
  <1> DEFINE n == Cardinality(ids)
             r == [i \in ids |-> Cardinality(Above(ids, i))]
             D == Descending(ids)
  <1>1. /\ IsFiniteSet(ids) /\ n \in Nat
        /\ \A i \in ids : r[i] \in Nat /\ r[i] < n
        /\ \A i, k \in ids : i < k => r[k] < r[i]
    BY AboveSmaller
  <1>2. \A i, k \in ids : i # k => r[i] # r[k]
    <2> SUFFICES ASSUME NEW i \in ids, NEW k \in ids, i # k PROVE r[i] # r[k]
      OBVIOUS
    <2>1. i < k \/ k < i
      OBVIOUS
    <2> QED
      BY <2>1, <1>1
  <1> HIDE DEF r, n
  <1>3. r \in [ids -> 0 .. n - 1]
    <2>1. \A i \in ids : r[i] \in 0 .. n - 1
      BY <1>1
    <2>2. r = [i \in ids |-> r[i]]
      BY DEF r
    <2> QED
      BY <2>1, <2>2
  <1>4. r \in Injection(ids, 0 .. n - 1)
    BY <1>2, <1>3 DEF Injection, IsInjective
  <1>5. IsFiniteSet(0 .. n - 1) /\ Cardinality(0 .. n - 1) = n
    BY <1>1, FS_Interval
  <1>6. r \in Surjection(ids, 0 .. n - 1)
    BY <1>4, <1>5, FS_Injection DEF n
  <1>7. \A k \in 1 .. n : \E i \in ids : r[i] = k - 1
    <2>1. \A k \in 1 .. n : k - 1 \in 0 .. n - 1
      BY <1>1
    <2> QED
      BY <2>1, <1>6 DEF Surjection
  <1>8. DOMAIN D = 1 .. n /\ \A k \in 1 .. n : D[k] \in ids /\ r[D[k]] = k - 1
    <2>1. D = [k \in 1 .. n |-> CHOOSE i \in ids : Cardinality(Above(ids, i)) = k - 1]
      BY Zenon DEF Descending, n, Above
    <2>2. \A i \in ids : r[i] = Cardinality(Above(ids, i))
      BY DEF r
    <2> HIDE DEF D
    <2>3. DOMAIN D = 1 .. n
      BY <2>1
    <2>4. ASSUME NEW k \in 1 .. n PROVE D[k] \in ids /\ r[D[k]] = k - 1
      <3>1. D[k] = CHOOSE i \in ids : Cardinality(Above(ids, i)) = k - 1
        BY <2>1
      <3>2. \E i \in ids : Cardinality(Above(ids, i)) = k - 1
        BY <1>7, <2>2
      <3> QED
        BY <3>1, <3>2, <2>2
    <2> QED
      BY <2>3, <2>4
  <1>9. D \in Seq(Nat)
    <2>1. D = [k \in 1 .. n |-> CHOOSE i \in ids : Cardinality(Above(ids, i)) = k - 1]
      BY Zenon DEF Descending, n, Above
    <2> HIDE DEF D
    <2>2. D = [k \in 1 .. n |-> D[k]]
      BY <2>1
    <2>3. \A k \in 1 .. n : D[k] \in Nat
      BY <1>8, IdsNat
    <2> QED
      BY <2>2, <2>3, <1>1
  <1> HIDE DEF D
  <1>10. ASSUME NEW i \in ids PROVE \E a \in DOMAIN D : D[a] = i
    <2>1. r[i] + 1 \in 1 .. n
      BY <1>1
    <2>2. D[r[i] + 1] \in ids /\ r[D[r[i] + 1]] = r[i]
      BY <2>1, <1>8, <1>1
    <2> QED
      BY <2>1, <2>2, <1>2, <1>8
  <1>11. \A a, b \in DOMAIN D : a # b => D[a] # D[b]
    BY <1>8
  <1>12. \A a \in DOMAIN D : D[a] \in ids
    BY <1>8
  <1> QED
    BY <1>9, <1>10, <1>11, <1>12 DEF D

(* A page and its cursor: the page holds the ids from the cursor on, and   *)
(* all of them when there is no cursor.                                    *)
LEMMA PageAndCursor ==
  ASSUME NEW L \in Nat, NEW ids \in SUBSET (1 .. L)
  PROVE  /\ NextBefore(ids) \in Nat
         /\ \A i \in Newest(ids, PageLimit) : i >= NextBefore(ids)
         /\ \A i \in ids : i >= NextBefore(ids) => i \in Newest(ids, PageLimit)
         /\ NextBefore(ids) # 0 => NextBefore(ids) \in ids
  <1> DEFINE N == Newest(ids, PageLimit)
  <1>1. /\ IsFiniteSet(ids) /\ Cardinality(ids) \in Nat
        /\ \A i \in ids : /\ Cardinality(Above(ids, i)) \in Nat
                          /\ Cardinality(Above(ids, i)) < Cardinality(ids)
        /\ \A i, k \in ids : i < k => Cardinality(Above(ids, k)) < Cardinality(Above(ids, i))
    BY AboveSmaller
  <1>2. N = {i \in ids : Cardinality(Above(ids, i)) < PageLimit}
    BY DEF Newest, Above
  <1>3. PageLimit \in Nat \ {0}
    BY ConstantsOK
  <1> HIDE DEF N
  <1>4. CASE Cardinality(ids) > PageLimit
    <2>1. ids # {}
      BY <1>4, <1>3, FS_EmptySet
    <2>2. PICK m \in ids : \A j \in ids : j <= m
      BY <2>1, MaxExists
    <2>3. m \in N
      <3>0. \A j \in ids : ~(j > m)
        BY <2>2, IdsNat
      <3>1. Above(ids, m) = {}
        BY <3>0 DEF Above
      <3> QED
        BY <3>1, <1>2, <1>3, FS_EmptySet
    <2>4. N \subseteq Nat
      BY <1>2, IdsNat
    <2>6. \E x \in N : \A y \in N : x <= y
      BY <2>3, <2>4, MinExists
    <2>7. NextBefore(ids) = Min(N)
      BY <1>4 DEF NextBefore, N
    <2>8. Min(N) \in N /\ \A y \in N : Min(N) <= y
      BY <2>6 DEF Min
    <2> DEFINE c == Min(N)
    <2> HIDE DEF c
    <2>9. c \in N /\ NextBefore(ids) = c /\ c \in ids /\ c \in Nat /\ \A y \in N : c <= y
      BY <2>7, <2>8, <2>4, <1>2 DEF c
    <2>10. ASSUME NEW i \in ids, i >= c PROVE i \in N
      <3>1. CASE i = c
        BY <3>1, <2>9
      <3>2. CASE c < i
        BY <3>2, <2>9, <1>1, <1>2, <1>3
      <3> QED
        BY <2>10, <2>9, <3>1, <3>2
    <2> QED
      BY <2>4, <2>9, <2>10 DEF N
  <1>5. CASE ~(Cardinality(ids) > PageLimit)
    <2>1. NextBefore(ids) = 0
      BY <1>5 DEF NextBefore
    <2>2. N = ids
      <3>1. \A i \in ids : Cardinality(Above(ids, i)) < PageLimit
        BY <1>1, <1>3, <1>5
      <3> QED
        BY <3>1, <1>2
    <2>3. \A i \in ids : i >= 0
      BY IdsNat
    <2>4. \A i \in N : i >= NextBefore(ids)
      BY <2>1, <2>2, <2>3
    <2> QED
      BY <2>1, <2>2, <2>4 DEF N
  <1> QED
    BY <1>4, <1>5

(* What has been deleted or is to be deleted is past retention, and what a *)
(* client is to see is in the table, unless it is deleted.                 *)
PruneInv == pruned \subseteq aged /\ doomed \subseteq aged
DueInv   == \A i \in reader.due : i \in Rows /\ log[i] \in Wanted

(* Between two pages the client has seen the rows from its cursor on, and  *)
(* none before it.                                                         *)
Shown(i) == \E a \in DOMAIN reader.seen : reader.seen[a] = i
CursorInv ==
  /\ reader.pc = "idle" => reader.seen = <<>> /\ reader.next = 0
  /\ reader.pc = "paging" =>
       /\ reader.next # 0
       /\ \A a \in DOMAIN reader.seen : reader.seen[a] >= reader.next
       /\ \A i \in reader.due \ aged : i >= reader.next => Shown(i)

ReaderType ==
  reader \in [pc   : {"idle", "paging", "done", "failed"},
              next : Nat,
              seen : Seq(Nat),
              due  : SUBSET Nat]

ReaderInv == ReaderType /\ PruneInv /\ DueInv /\ CursorInv /\ PagesComplete

(* The rows a query can return.                                            *)
LEMMA MatchingIds ==
  ASSUME TypeOK, NEW from \in Nat
  PROVE  /\ Len(log) \in Nat /\ Rows = 1 .. Len(log)
         /\ Matching(from) \in SUBSET (1 .. Len(log))
         /\ \A i : i \in Matching(from) <=> /\ i \in Rows /\ i \notin pruned /\ i \notin aged
                                            /\ log[i] \in Wanted /\ (from # 0 => i < from)
  <1>1. Len(log) \in Nat /\ Rows = 1 .. Len(log)
    BY TypeFacts DEF Rows
  <1> QED
    BY <1>1 DEF Matching

(* What a page adds to what the client has seen.                           *)
LEMMA SeenGrows ==
  ASSUME NEW s \in Seq(Nat), NEW t \in Seq(Nat)
  PROVE  /\ s \o t \in Seq(Nat)
         /\ \A a \in DOMAIN (s \o t) :
              \/ a \in DOMAIN s /\ (s \o t)[a] = s[a]
              \/ /\ a > Len(s) /\ a - Len(s) \in DOMAIN t
                 /\ (s \o t)[a] = t[a - Len(s)]
         /\ \A a \in DOMAIN s : a \in DOMAIN (s \o t) /\ (s \o t)[a] = s[a]
         /\ \A b \in DOMAIN t : Len(s) + b \in DOMAIN (s \o t) /\ (s \o t)[Len(s) + b] = t[b]
  <1>1. /\ s \o t \in Seq(Nat) /\ Len(s \o t) = Len(s) + Len(t)
        /\ \A i \in 1 .. Len(s) + Len(t) :
             (s \o t)[i] = IF i <= Len(s) THEN s[i] ELSE t[i - Len(s)]
    BY ConcatProperties
  <1>2. /\ Len(s) \in Nat /\ Len(t) \in Nat
        /\ DOMAIN s = 1 .. Len(s) /\ DOMAIN t = 1 .. Len(t)
        /\ DOMAIN (s \o t) = 1 .. Len(s) + Len(t)
    BY <1>1
  <1> DEFINE u == s \o t
  <1> HIDE DEF u
  <1>3. \A a \in DOMAIN u :
          \/ a \in DOMAIN s /\ u[a] = s[a]
          \/ a > Len(s) /\ a - Len(s) \in DOMAIN t /\ u[a] = t[a - Len(s)]
    BY <1>1, <1>2 DEF u
  <1>4. \A a \in DOMAIN s : a \in DOMAIN u /\ u[a] = s[a]
    BY <1>1, <1>2 DEF u
  <1>5. ASSUME NEW b \in DOMAIN t PROVE Len(s) + b \in DOMAIN u /\ u[Len(s) + b] = t[b]
    <2>1. /\ Len(s) + b \in 1 .. Len(s) + Len(t) /\ ~(Len(s) + b <= Len(s))
          /\ (Len(s) + b) - Len(s) = b
      BY <1>2
    <2> QED
      BY <2>1, <1>1, <1>2 DEF u
  <1> QED
    BY <1>1, <1>3, <1>4, <1>5 DEF u

(* One page.                                                               *)
LEMMA PageStep ==
  ASSUME TypeOK, ReaderInv, ReadPage
  PROVE  ReaderInv'
  <1> USE DEF loopVars, storeVars
  <1>1. UNCHANGED <<log, aged, pruned, doomed>>
    BY DEF ReadPage
  <1>2. /\ reader.pc \in {"idle", "paging"}
        /\ reader.next \in Nat /\ reader.seen \in Seq(Nat) /\ reader.due \in SUBSET Nat
    <2>1. reader.pc \in {"idle", "paging"}
      BY Zenon DEF ReadPage
    <2>2. ReaderType
      BY Zenon DEF ReaderInv
    <2> QED
      BY <2>1, <2>2 DEF ReaderType
  <1>3. PruneInv'
    BY <1>1 DEF ReaderInv, PruneInv
  <1>4. CASE reader' = [reader EXCEPT !.pc = "failed"]
    <2>1. /\ reader'.pc = "failed" /\ reader'.next = reader.next
          /\ reader'.seen = reader.seen /\ reader'.due = reader.due
          /\ ReaderType'
      BY <1>4 DEF ReaderType, ReaderInv
    <2>2. DueInv'
      BY <2>1, <1>1 DEF ReaderInv, DueInv, Rows
    <2>3. CursorInv' /\ PagesComplete'
      BY <2>1, <1>1 DEF ReaderInv, CursorInv, PagesComplete
    <2> QED
      BY <2>1, <2>2, <2>3, <1>3 DEF ReaderInv
  <1>5. CASE ~(reader' = [reader EXCEPT !.pc = "failed"])
    <2> DEFINE ids == Matching(reader.next)
               nxt == NextBefore(ids)
               N   == Newest(ids, PageLimit)
               t   == Descending(N)
               s   == reader.seen
               u   == s \o t
               due == IF reader.pc = "idle" THEN ids ELSE reader.due
    <2>1. reader' = [pc |-> IF nxt = 0 THEN "done" ELSE "paging",
                     next |-> nxt, seen |-> u, due |-> due]
      BY <1>5 DEF ReadPage
    <2>2. /\ Len(log) \in Nat /\ Rows = 1 .. Len(log) /\ ids \in SUBSET (1 .. Len(log))
          /\ \A i : i \in ids <=> /\ i \in Rows /\ i \notin pruned /\ i \notin aged
                                  /\ log[i] \in Wanted /\ (reader.next # 0 => i < reader.next)
      BY <1>2, MatchingIds
    <2>3. /\ nxt \in Nat
          /\ \A i \in N : i >= nxt
          /\ \A i \in ids : i >= nxt => i \in N
          /\ nxt # 0 => nxt \in ids
      BY <2>2, PageAndCursor
    <2>4. N \in SUBSET (1 .. Len(log)) /\ \A i \in N : i \in ids
      BY <2>2 DEF Newest
    <2>5. /\ t \in Seq(Nat)
          /\ \A a \in DOMAIN t : t[a] \in N
          /\ \A i \in N : \E a \in DOMAIN t : t[a] = i
          /\ \A a, b \in DOMAIN t : a # b => t[a] # t[b]
      BY <2>2, <2>4, DescendingLists
    <2>6. s \in Seq(Nat) /\ Len(s) \in Nat
      BY <1>2
    <2> HIDE DEF ids, nxt, N, t
    <2>7. /\ u \in Seq(Nat)
          /\ \A a \in DOMAIN u :
               \/ a \in DOMAIN s /\ u[a] = s[a]
               \/ a > Len(s) /\ a - Len(s) \in DOMAIN t /\ u[a] = t[a - Len(s)]
          /\ \A a \in DOMAIN s : a \in DOMAIN u /\ u[a] = s[a]
          /\ \A b \in DOMAIN t : Len(s) + b \in DOMAIN u /\ u[Len(s) + b] = t[b]
      BY <2>5, <2>6, SeenGrows
    <2> HIDE DEF u
    <2>8. ids \subseteq Nat /\ due \subseteq Nat
      BY <1>2, <2>2, IdsNat
    <2>9. due \in SUBSET Nat
      BY <2>8
    <2> HIDE DEF due
    <2>10. /\ reader'.pc = (IF nxt = 0 THEN "done" ELSE "paging") /\ reader'.next = nxt
           /\ reader'.seen = u /\ reader'.due = due
      BY <2>1
    <2>11. ReaderType'
      BY <2>1, <2>3, <2>7, <2>9 DEF ReaderType
    <2>12. DueInv'
      <3>1. \A i \in due : i \in Rows /\ log[i] \in Wanted
        BY <2>2 DEF due, ReaderInv, DueInv
      <3> QED
        BY <3>1, <2>10, <1>1 DEF DueInv, Rows
    \* What was seen before is not on the page.
    <2>13. \A a \in DOMAIN s : s[a] \in Nat
      BY <2>6
    <2>14. ASSUME NEW a \in DOMAIN s
           PROVE  reader.pc = "paging" /\ reader.next # 0 /\ s[a] >= reader.next
      <3>1. reader.pc # "idle"
        BY DEF ReaderInv, CursorInv
      <3> QED
        BY <3>1, <1>2 DEF ReaderInv, CursorInv
    <2>15. ASSUME NEW a \in DOMAIN s, NEW i \in N PROVE s[a] > i
      <3>1. i \in ids /\ i \in Nat
        BY <2>4, <2>8
      <3>2. i < reader.next
        BY <3>1, <2>2, <2>14
      <3> QED
        BY <3>1, <3>2, <2>13, <2>14, <1>2
    <2>16. \A a, b \in DOMAIN u : a # b => u[a] # u[b]
      <3> SUFFICES ASSUME NEW a \in DOMAIN u, NEW b \in DOMAIN u, a # b PROVE u[a] # u[b]
        OBVIOUS
      <3>0. a \in Nat /\ b \in Nat
        BY <2>7
      <3>1. CASE a \in DOMAIN s /\ u[a] = s[a] /\ b \in DOMAIN s /\ u[b] = s[b]
        BY <3>1 DEF ReaderInv, PagesComplete
      <3>2. CASE /\ a \in DOMAIN s /\ u[a] = s[a]
                 /\ b - Len(s) \in DOMAIN t /\ u[b] = t[b - Len(s)]
        <4>1. u[b] \in N /\ u[b] \in Nat
          BY <3>2, <2>5, <2>4, <2>8
        <4>2. u[a] > u[b] /\ u[a] \in Nat
          BY <3>2, <4>1, <2>13, <2>15
        <4> QED
          BY <4>1, <4>2
      <3>3. CASE /\ b \in DOMAIN s /\ u[b] = s[b]
                 /\ a - Len(s) \in DOMAIN t /\ u[a] = t[a - Len(s)]
        <4>1. u[a] \in N /\ u[a] \in Nat
          BY <3>3, <2>5, <2>4, <2>8
        <4>2. u[b] > u[a] /\ u[b] \in Nat
          BY <3>3, <4>1, <2>13, <2>15
        <4> QED
          BY <4>1, <4>2
      <3>4. CASE /\ a - Len(s) \in DOMAIN t /\ u[a] = t[a - Len(s)]
                 /\ b - Len(s) \in DOMAIN t /\ u[b] = t[b - Len(s)]
        <4>1. a - Len(s) # b - Len(s)
          BY <3>0, <2>6
        <4> QED
          BY <3>4, <4>1, <2>5
      <3> QED
        BY <2>7, <3>1, <3>2, <3>3, <3>4
    \* Every row that is due is on a page up to the new cursor.
    <2>17. ASSUME NEW i \in due \ aged, i >= nxt PROVE \E a \in DOMAIN u : u[a] = i
      <3>1. CASE i \in ids
        <4>1. PICK b \in DOMAIN t : t[b] = i
          BY <3>1, <2>3, <2>5, <2>17
        <4> QED
          BY <4>1, <2>7
      <3>2. CASE i \notin ids
        <4>1. reader.pc = "paging" /\ i \in reader.due
          BY <3>2, <1>2 DEF due
        <4>2. i \in Rows /\ log[i] \in Wanted /\ i \notin aged /\ i \notin pruned
          BY <4>1 DEF ReaderInv, DueInv, PruneInv
        <4>3. reader.next # 0 /\ ~(i < reader.next)
          BY <4>2, <3>2, <2>2
        <4>4. i >= reader.next
          BY <4>1, <4>3, <1>2
        <4>5. PICK a \in DOMAIN s : s[a] = i
          BY <4>1, <4>4 DEF ReaderInv, CursorInv, Shown
        <4> QED
          BY <4>5, <2>7
      <3> QED
        BY <3>1, <3>2
    <2>18. CursorInv'
      <3>1. nxt # 0 => \A a \in DOMAIN u : u[a] >= nxt
        <4> SUFFICES ASSUME nxt # 0, NEW a \in DOMAIN u PROVE u[a] >= nxt
          OBVIOUS
        <4>0. nxt \in ids /\ nxt \in N
          BY <2>3, <2>8
        <4>1. CASE a \in DOMAIN s /\ u[a] = s[a]
          BY <4>0, <4>1, <2>15, <2>13, <2>3
        <4>2. CASE a - Len(s) \in DOMAIN t /\ u[a] = t[a - Len(s)]
          BY <4>2, <2>5, <2>3
        <4> QED
          BY <4>1, <4>2, <2>7
      <3>2. reader'.pc # "idle" /\ (reader'.pc = "paging" => nxt # 0)
        BY <2>10
      <3>3. \A i \in reader'.due \ aged' : i >= reader'.next => Shown(i)'
        BY <2>10, <2>17, <1>1 DEF Shown
      <3> QED
        BY <3>1, <3>2, <3>3, <2>10 DEF CursorInv
    <2>19. PagesComplete'
      <3>1. ASSUME reader'.pc = "done", NEW i \in reader'.due \ aged'
            PROVE  \E a \in DOMAIN reader'.seen : reader'.seen[a] = i
        <4>1. nxt = 0 /\ i \in due \ aged
          BY <3>1, <2>10, <1>1
        <4>2. i >= nxt
          BY <4>1, <2>9
        <4> QED
          BY <4>1, <4>2, <2>10, <2>17
      <3> QED
        BY <3>1, <2>10, <2>16 DEF PagesComplete
    <2> QED
      BY <2>11, <2>12, <2>18, <2>19, <1>3 DEF ReaderInv
  <1> QED
    BY <1>4, <1>5

(* Committed rows stay what they are, and rows get past retention only.    *)
LEMMA ReaderKept ==
  ASSUME ReaderInv, reader' = reader, PruneInv', aged \subseteq aged',
         \A i \in Rows : i \in Rows' /\ log'[i] = log[i]
  PROVE  ReaderInv'
  <1>1. ReaderType' /\ DueInv'
    BY DEF ReaderInv, ReaderType, DueInv
  <1>2. CursorInv' /\ PagesComplete'
    BY DEF ReaderInv, CursorInv, PagesComplete, Shown
  <1> QED
    BY <1>1, <1>2 DEF ReaderInv

LEMMA ReaderStep == TypeOK /\ ReaderInv /\ [Next]_vars => ReaderInv'
  <1> SUFFICES ASSUME TypeOK, ReaderInv, [Next]_vars PROVE ReaderInv'
    OBVIOUS
  <1> USE DEF loopVars, storeVars, callerVars, flushVars, closeVars
  <1>0. pruned \subseteq aged /\ doomed \subseteq aged
    BY DEF ReaderInv, PruneInv
  <1>1. ASSUME UNCHANGED <<log, pruned, aged, doomed, reader>> PROVE ReaderInv'
    BY <1>0, <1>1, ReaderKept DEF PruneInv, Rows
  <1>2. ASSUME NEW p \in Recorders, RecordCall(p) \/ RecordSend(p) PROVE ReaderInv'
    BY <1>1, <1>2 DEF RecordCall, RecordSend
  <1>3. ASSUME NEW f \in Flushers, FlushCall(f) \/ FlushLock(f) \/ FlushSend(f) \/ FlushGiveUp(f)
        PROVE  ReaderInv'
    BY <1>1, <1>3 DEF FlushCall, FlushLock, FlushSend, FlushGiveUp
  <1>4. ASSUME NEW k \in Closers, CloseCall(k) \/ CloseStore(k) \/ CloseReturn(k)
        PROVE  ReaderInv'
    BY <1>1, <1>4 DEF CloseCall, CloseStore, CloseReturn
  <1>5. CASE LoopReceive \/ LoopTick \/ LoopStop \/ InsertFail \/ PruneFail \/ Drain
    BY <1>1, <1>5 DEF LoopReceive, LoopTick, LoopStop, InsertFail, PruneFail, Drain
  <1>6. CASE LoopCleanup
    <2>1. UNCHANGED <<log, pruned, aged, reader>> /\ doomed' \subseteq aged
      BY <1>6 DEF LoopCleanup
    <2> QED
      BY <2>1, <1>0, ReaderKept DEF PruneInv, Rows
  <1>7. CASE PruneBatch
    <2>1. UNCHANGED <<log, aged, reader>> /\ doomed' \subseteq aged /\ pruned' \subseteq aged
      BY <1>7, <1>0 DEF PruneBatch
    <2> QED
      BY <2>1, ReaderKept DEF PruneInv, Rows
  <1>8. ASSUME log' = log \o batch, UNCHANGED <<pruned, aged, doomed, reader>> PROVE ReaderInv'
    <2>1. \A i \in DOMAIN log : i \in DOMAIN log' /\ log'[i] = log[i]
      BY <1>8, TypeFacts, SeenGrows
    <2> QED
      BY <2>1, <1>0, <1>8, ReaderKept DEF PruneInv, Rows
  <1>9. CASE InsertOK
    BY <1>8, <1>9 DEF InsertOK
  <1>10. CASE Finish
    BY <1>1, <1>8, <1>10 DEF Finish
  <1>11. CASE ReadPage
    BY <1>11, PageStep
  <1>12. ASSUME NEW i \in Rows, Age(i) PROVE ReaderInv'
    <2>1. UNCHANGED <<log, pruned, doomed, reader>> /\ aged \subseteq aged'
      BY <1>12 DEF Age
    <2> QED
      BY <2>1, <1>0, ReaderKept DEF PruneInv, Rows
  <1>13. CASE UNCHANGED vars
    BY <1>1, <1>13 DEF vars
  <1> QED
    BY <1>2, <1>3, <1>4, <1>5, <1>6, <1>7, <1>9, <1>10, <1>11, <1>12, <1>13
    DEF Next, Insert, Prune, LoopEnd

LEMMA InitReader == Init => ReaderInv
  <1> SUFFICES ASSUME Init PROVE ReaderInv
    OBVIOUS
  <1>1. /\ reader = [pc |-> "idle", next |-> 0, seen |-> <<>>, due |-> {}]
        /\ pruned = {} /\ doomed = {}
    BY DEF Init, ReaderInit
  <1>2. /\ reader.pc = "idle" /\ reader.next = 0 /\ reader.seen = <<>> /\ reader.due = {}
        /\ DOMAIN reader.seen = {}
    BY <1>1
  <1>3. ReaderType
    BY <1>1 DEF ReaderType
  <1>4. PruneInv /\ DueInv /\ CursorInv /\ PagesComplete
    BY <1>1, <1>2 DEF PruneInv, DueInv, CursorInv, PagesComplete
  <1> QED
    BY <1>3, <1>4 DEF ReaderInv

(* A client that follows the cursor sees no row twice, and at the end has  *)
(* seen every row that matched when it began and is within retention still.*)
THEOREM HistoryPagesComplete == Spec => []PagesComplete
  <1>1. Init => TypeOK /\ ReaderInv
    BY InitType, InitReader
  <1>2. TypeOK /\ ReaderInv /\ [Next]_vars => (TypeOK /\ ReaderInv)'
    BY NextType, ReaderStep
  <1>3. TypeOK /\ ReaderInv => PagesComplete
    BY DEF ReaderInv
  <1> QED
    BY <1>1, <1>2, <1>3, PTL DEF Spec
=============================================================================
