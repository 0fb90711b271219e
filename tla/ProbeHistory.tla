---------------------------- MODULE ProbeHistory ----------------------------
(***************************************************************************)
(* The store of probe results, pkg/probehistory/store.go.                  *)
(*                                                                         *)
(* Probers call Record, which queues the result without waiting for the    *)
(* disk; one goroutine (run) collects batches and inserts each in one      *)
(* transaction.  Flush queues a request behind the results queued before   *)
(* it and waits for its answer.  Close stops the loop, which drains the    *)
(* queue and writes what is left.  Readers page through the rows while     *)
(* all this goes on, and the hourly clean-up deletes rows past retention.  *)
(*                                                                         *)
(* A result is known by its number in the order in which Record accepted   *)
(* results, so that what "before" and "in order" mean is visible in the    *)
(* state: accepted is the number of the last one.  A row's id is its       *)
(* position in log, the rows ever committed (AUTOINCREMENT never gives an  *)
(* id twice); aged are the rows past retention, pruned the deleted ones.   *)
(***************************************************************************)
EXTENDS Integers, Sequences, FiniteSetsExt

CONSTANTS
  Recorders,    \* goroutines that call Record
  Flushers,     \* goroutines that call Flush
  Closers,      \* goroutines that call Close
  None,         \* no flush request
  QueueCap,     \* capacity of the queue (4096)
  BatchFlush,   \* batch length at which the loop writes (256)
  BatchMax,     \* batch length at which the loop stops reading (4096)
  PruneMax,     \* rows deleted by one statement (5000)
  PageLimit,    \* rows of a page (50)
  Wanted,       \* numbers of the results that the reader's filter matches
  MaxCalls,     \* how many Record calls are made (bounds the model)
  MaxAged       \* how many rows get past retention (bounds the model)

ASSUME ConstantsOK ==
  /\ None \notin Flushers
  /\ {QueueCap, BatchFlush, BatchMax, PruneMax, PageLimit} \subseteq Nat \ {0}
  /\ BatchFlush <= BatchMax
  /\ Wanted \subseteq Nat
  /\ {MaxCalls, MaxAged} \subseteq Nat

VARIABLES
  queue,      \* the channel of write requests
  batch,      \* the loop's slice of results not written yet
  log,        \* the results ever committed, by row id
  pruned,     \* ids of deleted rows
  aged,       \* ids of rows that are past retention
  accepted,   \* number of results Record has accepted
  called,     \* number of Record calls
  rpc,        \* Recorders: idle, or waiting for the read lock
  fpc,        \* Flushers: where Flush is, and what it returned
  before,     \* accepted when the Flush call was made
  kpc,        \* Closers: where Close is
  closed,     \* Store.closed
  lpc,        \* where run is
  waiter,     \* the flush request the loop is serving
  waiters,    \* flush requests drained by finish
  doomed,     \* rows the running clean-up is to delete
  closeErr,   \* Store.closeErr: "" until finish has set it
  reader      \* a client that pages through the history

loopVars   == <<lpc, waiter, waiters, closeErr>>
storeVars  == <<log, pruned, aged, doomed>>
callerVars == <<rpc, called, accepted>>
flushVars  == <<fpc, before>>
closeVars  == <<kpc, closed>>
vars == <<queue, batch, storeVars, callerVars, flushVars, closeVars, loopVars, reader>>

\* writeRequest: a result (its number) or, with record 0, a flush request.
Request  == [record : Nat, flush : Flushers \cup {None}]
Result(k) == [record |-> k, flush |-> None]
Wait(f)   == [record |-> 0, flush |-> f]

Rows == DOMAIN log
ReaderInit == [pc |-> "idle", next |-> 0, seen |-> <<>>, due |-> {}]

Init ==
  /\ queue = <<>> /\ batch = <<>> /\ log = <<>>
  /\ pruned = {} /\ aged = {} /\ doomed = {}
  /\ accepted = 0 /\ called = 0
  /\ rpc = [p \in Recorders |-> "idle"]
  /\ fpc = [f \in Flushers |-> "idle"]
  /\ before = [f \in Flushers |-> 0]
  /\ kpc = [k \in Closers |-> "idle"]
  /\ closed = FALSE
  /\ lpc = "select" /\ waiter = None /\ waiters = {} /\ closeErr = ""
  /\ reader = ReaderInit
-----------------------------------------------------------------------------
(* Store.mu.  Flush keeps its read lock while it waits for room in the     *)
(* queue; a Close that waits for the write lock keeps new readers out.     *)
ReadLocked == \E f \in Flushers : fpc[f] = "send"
CloseWaits == \E k \in Closers : kpc[k] = "lock"
CanRLock   == ~CloseWaits
CanLock    == ~ReadLocked
HasRoom    == Len(queue) < QueueCap
-----------------------------------------------------------------------------
(* Record.  With the read lock it looks at closed and sends if there is    *)
(* room, without waiting; a result that the checks on top refuse never     *)
(* gets here.                                                              *)
RecordCall(p) ==
  /\ rpc[p] = "idle"
  /\ called < MaxCalls
  /\ called' = called + 1
  /\ rpc' = [rpc EXCEPT ![p] = "lock"]
  /\ UNCHANGED <<queue, batch, storeVars, accepted, flushVars, closeVars, loopVars, reader>>

RecordSend(p) ==
  /\ rpc[p] = "lock"
  /\ CanRLock
  /\ rpc' = [rpc EXCEPT ![p] = "idle"]
  /\ \/ /\ closed \/ ~HasRoom
        /\ UNCHANGED <<queue, accepted>>
     \/ /\ ~closed /\ HasRoom
        /\ queue' = Append(queue, Result(accepted + 1))
        /\ accepted' = accepted + 1
  /\ UNCHANGED <<batch, storeVars, called, flushVars, closeVars, loopVars, reader>>
-----------------------------------------------------------------------------
(* Flush: the read lock, the request (or the end of the context), and the  *)
(* answer (or the end of the context).                                     *)
FlushCall(f) ==
  /\ fpc[f] = "idle"
  /\ fpc' = [fpc EXCEPT ![f] = "lock"]
  /\ before' = [before EXCEPT ![f] = accepted]
  /\ UNCHANGED <<queue, batch, storeVars, callerVars, closeVars, loopVars, reader>>

FlushLock(f) ==
  /\ fpc[f] = "lock"
  /\ CanRLock
  /\ fpc' = [fpc EXCEPT ![f] = IF closed THEN "err" ELSE "send"]
  /\ UNCHANGED <<queue, batch, storeVars, callerVars, before, closeVars, loopVars, reader>>

FlushSend(f) ==
  /\ fpc[f] = "send"
  /\ HasRoom
  /\ queue' = Append(queue, Wait(f))
  /\ fpc' = [fpc EXCEPT ![f] = "wait"]
  /\ UNCHANGED <<batch, storeVars, callerVars, before, closeVars, loopVars, reader>>

FlushGiveUp(f) ==
  /\ fpc[f] \in {"send", "wait"}
  /\ fpc' = [fpc EXCEPT ![f] = "err"]
  /\ UNCHANGED <<queue, batch, storeVars, callerVars, before, closeVars, loopVars, reader>>
-----------------------------------------------------------------------------
(* Close: the write lock, under which it closes the channels, and the wait *)
(* for the loop's end.                                                     *)
CloseCall(k) ==
  /\ kpc[k] = "idle"
  /\ kpc' = [kpc EXCEPT ![k] = "lock"]
  /\ UNCHANGED <<queue, batch, storeVars, callerVars, flushVars, closed, loopVars, reader>>

CloseStore(k) ==
  /\ kpc[k] = "lock"
  /\ CanLock
  /\ closed' = TRUE
  /\ kpc' = [kpc EXCEPT ![k] = "wait"]
  /\ UNCHANGED <<queue, batch, storeVars, callerVars, flushVars, loopVars, reader>>

CloseReturn(k) ==
  /\ kpc[k] = "wait"
  /\ lpc = "done"
  /\ kpc' = [kpc EXCEPT ![k] = "returned"]
  /\ UNCHANGED <<queue, batch, storeVars, callerVars, flushVars, closed, loopVars, reader>>
-----------------------------------------------------------------------------
(* The loop.  Each turn of run's select takes one of the cases that are    *)
(* ready.  A flush writes nothing when the batch is empty; otherwise it is *)
(* a transaction that takes time and that may fail.                        *)
Take(req) ==
  batch' = IF req.record # 0 THEN Append(batch, req.record) ELSE batch

Answer(fs, res) ==
  fpc' = [f \in Flushers |-> IF f \in fs /\ fpc[f] = "wait" THEN res ELSE fpc[f]]

\* Faulty variant: the batch as it was before the request is looked at.
MustWriteLate(req) == req.flush = None /\ Len(batch) >= BatchFlush
MustWrite(req) == req.flush # None \/ Len(batch') >= BatchFlush

LoopReceive ==
  /\ lpc = "select"
  /\ Len(batch) < BatchMax
  /\ queue # <<>>
  /\ queue' = Tail(queue)
  /\ Take(Head(queue))
  /\ \/ /\ MustWrite(Head(queue)) /\ batch' # <<>>
        /\ lpc' = "insert" /\ waiter' = Head(queue).flush
        /\ UNCHANGED fpc
     \/ /\ ~(MustWrite(Head(queue)) /\ batch' # <<>>)
        /\ Answer({Head(queue).flush}, "ok")
        /\ UNCHANGED <<lpc, waiter>>
  /\ UNCHANGED <<storeVars, callerVars, before, closeVars, waiters, closeErr, reader>>

LoopTickNever == FALSE                  \* faulty variant: failed batches wait
LoopTick ==
  /\ lpc = "select"
  /\ batch # <<>>
  /\ lpc' = "insert" /\ waiter' = None
  /\ UNCHANGED <<queue, batch, storeVars, callerVars, flushVars, closeVars, waiters, closeErr, reader>>

InsertOK ==
  /\ lpc = "insert"
  /\ log' = log \o batch
  /\ batch' = <<>>
  /\ Answer({waiter}, "ok")
  /\ lpc' = "select" /\ waiter' = None
  /\ UNCHANGED <<queue, pruned, aged, doomed, callerVars, before, closeVars, waiters, closeErr, reader>>

\* Faulty variant: the batch is dropped when the transaction fails.
InsertFailForget ==
  /\ lpc = "insert"
  /\ batch' = <<>>
  /\ Answer({waiter}, "err")
  /\ lpc' = "select" /\ waiter' = None
  /\ UNCHANGED <<queue, storeVars, callerVars, before, closeVars, waiters, closeErr, reader>>

InsertFail ==
  /\ lpc = "insert"
  /\ Answer({waiter}, "err")
  /\ lpc' = "select" /\ waiter' = None
  /\ UNCHANGED <<queue, batch, storeVars, callerVars, before, closeVars, waiters, closeErr, reader>>
-----------------------------------------------------------------------------
(* The clean-up: one statement deletes up to PruneMax of the rows that had *)
(* aged when it began, until one deletes fewer or fails.                   *)
LoopCleanup ==
  /\ lpc = "select"
  /\ doomed' = aged \ pruned
  /\ doomed' # {}
  /\ lpc' = "prune"
  /\ UNCHANGED <<queue, batch, log, pruned, aged, callerVars, flushVars, closeVars, waiter, waiters, closeErr, reader>>

PruneBatch ==
  /\ lpc = "prune"
  /\ \E ids \in SUBSET doomed :
       /\ Cardinality(ids) = Min({Cardinality(doomed), PruneMax})
       /\ pruned' = pruned \cup ids
       /\ doomed' = doomed \ ids
       /\ lpc' = IF Cardinality(ids) < PruneMax THEN "select" ELSE "prune"
  /\ UNCHANGED <<queue, batch, log, aged, callerVars, flushVars, closeVars, waiter, waiters, closeErr, reader>>

PruneFail ==
  /\ lpc = "prune"
  /\ lpc' = "select"
  /\ UNCHANGED <<queue, batch, storeVars, callerVars, flushVars, closeVars, waiter, waiters, closeErr, reader>>
-----------------------------------------------------------------------------
(* finish, when stopping is closed: drain the closed queue, write what is  *)
(* left, close the database and answer the flush requests.                 *)
\* Faulty variant: the loop stops only when its batch is written.
LoopStopWritten ==
  /\ lpc = "select"
  /\ closed /\ batch = <<>>
  /\ lpc' = "drain"
  /\ UNCHANGED <<queue, batch, storeVars, callerVars, flushVars, closeVars, waiter, waiters, closeErr, reader>>

LoopStop ==
  /\ lpc = "select"
  /\ closed
  /\ lpc' = "drain"
  /\ UNCHANGED <<queue, batch, storeVars, callerVars, flushVars, closeVars, waiter, waiters, closeErr, reader>>

Drain ==
  /\ lpc = "drain"
  /\ queue # <<>>
  /\ queue' = Tail(queue)
  /\ Take(Head(queue))
  /\ waiters' = (waiters \cup {Head(queue).flush}) \ {None}
  /\ UNCHANGED <<storeVars, callerVars, flushVars, closeVars, lpc, waiter, closeErr, reader>>

\* Faulty variant: finish does not write what it has drained.
FinishDropsBatch ==
  /\ lpc = "drain"
  /\ queue = <<>>
  /\ closeErr' = "ok"
  /\ Answer(waiters, closeErr')
  /\ lpc' = "done"
  /\ UNCHANGED <<queue, batch, storeVars, callerVars, before, closeVars, waiter, waiters, reader>>

(* A failed last transaction loses the batch; so may the close of the      *)
(* database fail after a successful one.                                   *)
Finish ==
  /\ lpc = "drain"
  /\ queue = <<>>
  /\ \/ /\ log' = log \o batch /\ batch' = <<>>
        /\ closeErr' \in {"ok", "err"}
     \/ /\ batch # <<>>
        /\ closeErr' = "err"
        /\ UNCHANGED <<log, batch>>
  /\ Answer(waiters, closeErr')
  /\ lpc' = "done"
  /\ UNCHANGED <<queue, pruned, aged, doomed, callerVars, before, closeVars, waiter, waiters, reader>>
-----------------------------------------------------------------------------
\* Faulty variant: pages are counted off by offset instead of by id.
MatchingOffset(from) ==
  LET all == {i \in Rows \ (pruned \cup aged) : log[i] \in Wanted}
  IN {i \in all : Cardinality({j \in all : j > i}) >= Len(reader.seen)}

(* Query: the matching rows within retention, newest first, from the       *)
(* cursor on; one row more than the page tells whether there is another.   *)
Matching(from) ==
  {i \in Rows \ (pruned \cup aged) : log[i] \in Wanted /\ (from # 0 => i < from)}

Newest(ids, n) == {i \in ids : Cardinality({j \in ids : j > i}) < n}

NextBefore(ids) ==
  IF Cardinality(ids) > PageLimit THEN Min(Newest(ids, PageLimit)) ELSE 0

Descending(ids) ==
  [k \in 1 .. Cardinality(ids) |->
     CHOOSE i \in ids : Cardinality({j \in ids : j > i}) = k - 1]

(* A client asks for the first page and then for one page after the other  *)
(* as long as there is a cursor; a closed database answers with an error.  *)
ReadPage ==
  /\ reader.pc \in {"idle", "paging"}
  /\ \/ /\ lpc = "done"
        /\ reader' = [reader EXCEPT !.pc = "failed"]
     \/ /\ lpc # "done"
        /\ LET ids  == Matching(reader.next)
               next == NextBefore(ids)
           IN reader' = [pc   |-> IF next = 0 THEN "done" ELSE "paging",
                         next |-> next,
                         seen |-> reader.seen \o Descending(Newest(ids, PageLimit)),
                         due  |-> IF reader.pc = "idle" THEN ids ELSE reader.due]
  /\ UNCHANGED <<queue, batch, storeVars, callerVars, flushVars, closeVars, loopVars>>

(* Time passes: a row is past retention.                                   *)
Age(i) ==
  /\ i \in Rows \ aged
  /\ Cardinality(aged) < MaxAged
  /\ aged' = aged \cup {i}
  /\ UNCHANGED <<queue, batch, log, pruned, doomed, callerVars, flushVars, closeVars, loopVars, reader>>
-----------------------------------------------------------------------------
Insert   == InsertOK \/ InsertFail
Prune    == PruneBatch \/ PruneFail
LoopEnd  == Drain \/ Finish

Next ==
  \/ \E p \in Recorders : RecordCall(p) \/ RecordSend(p)
  \/ \E f \in Flushers : FlushCall(f) \/ FlushLock(f) \/ FlushSend(f) \/ FlushGiveUp(f)
  \/ \E k \in Closers : CloseCall(k) \/ CloseStore(k) \/ CloseReturn(k)
  \/ LoopReceive \/ LoopTick \/ LoopCleanup \/ LoopStop
  \/ Insert \/ Prune \/ LoopEnd
  \/ ReadPage
  \/ \E i \in Rows : Age(i)

Spec == Init /\ [][Next]_vars

(***************************************************************************)
(* Fairness.  Callers that can go on do, transactions and clean-ups end    *)
(* one way or the other.  select chooses at random among the cases that    *)
(* are ready, so that a case that is ready again and again is taken:       *)
(* strong fairness for each of the loop's cases but the hourly clean-up.   *)
(* Nobody has to call anything, and a context need not end.                *)
(***************************************************************************)
Fairness ==
  /\ \A p \in Recorders : WF_vars(RecordSend(p))
  /\ \A f \in Flushers : WF_vars(FlushLock(f)) /\ SF_vars(FlushSend(f))
  /\ \A k \in Closers : WF_vars(CloseStore(k)) /\ WF_vars(CloseReturn(k))
  /\ SF_vars(LoopReceive) /\ SF_vars(LoopTick) /\ SF_vars(LoopStop)
  /\ WF_vars(Insert) /\ WF_vars(Prune) /\ WF_vars(LoopEnd)

(* A disk that is written to again and again takes a batch in the end.     *)
DiskRecovers == SF_vars(InsertOK)

(* Every Flush has a context with a deadline.                              *)
ContextsEnd == \A f \in Flushers : WF_vars(FlushGiveUp(f))

FairSpec == Spec /\ Fairness
-----------------------------------------------------------------------------
(* The type invariant: channels and pages keep to their limits.            *)
TypeOK ==
  /\ queue \in Seq(Request) /\ Len(queue) <= QueueCap
  /\ batch \in Seq(Nat) /\ log \in Seq(Nat)
  /\ pruned \in SUBSET Nat /\ aged \in SUBSET Nat /\ doomed \in SUBSET Nat
  /\ accepted \in Nat /\ called \in Nat
  /\ rpc \in [Recorders -> {"idle", "lock"}]
  /\ fpc \in [Flushers -> {"idle", "lock", "send", "wait", "ok", "err"}]
  /\ before \in [Flushers -> Nat]
  /\ kpc \in [Closers -> {"idle", "lock", "wait", "returned"}]
  /\ closed \in BOOLEAN
  /\ lpc \in {"select", "insert", "prune", "drain", "done"}
  /\ waiter \in Flushers \cup {None} /\ waiters \in SUBSET Flushers
  /\ closeErr \in {"", "ok", "err"}

(* No accepted result is lost, stored twice or overtaken: the rows, the    *)
(* batch and the queue hold the accepted results, each once and in the     *)
(* order of acceptance, whatever fails (a batch is kept when its           *)
(* transaction fails), and row ids follow that order.                      *)
LogInOrder   == \A i \in DOMAIN log : log[i] = i
BatchInOrder == \A i \in DOMAIN batch : batch[i] = Len(log) + i
Taken        == Len(log) + Len(batch)
QueueInOrder ==
  /\ \A i \in DOMAIN queue : queue[i].record # 0 => queue[i].record \in Taken + 1 .. accepted
  /\ \A i, j \in DOMAIN queue :
       i < j /\ queue[i].record # 0 /\ queue[j].record # 0 => queue[i].record < queue[j].record
  /\ \A k \in Taken + 1 .. accepted : \E i \in DOMAIN queue : queue[i].record = k
NothingLost == LogInOrder /\ BatchInOrder /\ QueueInOrder

(* "Flush waits until the results queued before it are on disk": when it   *)
(* returns nil, every result accepted before the call has been committed,  *)
(* although other results, a failing disk or Close came in between.        *)
FlushedStored == \A f \in Flushers : fpc[f] = "ok" => before[f] <= Len(log)

(* A Close that reports no error has lost nothing.                         *)
CloseReportsLoss == closeErr = "ok" => Len(log) = accepted

(* "Pages neither repeat nor skip results while writing goes on": a client *)
(* that has followed the cursor to its end has seen no row twice, and has  *)
(* seen every row that matched when it began and is still within retention.*)
PagesComplete ==
  /\ \A a, b \in DOMAIN reader.seen : a # b => reader.seen[a] # reader.seen[b]
  /\ reader.pc = "done" =>
       reader.due \ aged \subseteq {reader.seen[a] : a \in DOMAIN reader.seen}

(* Nobody waits for ever.  A Flush that waits for room in the queue holds  *)
(* the read lock, Close waits for it, and Record, which must not wait for  *)
(* the disk, waits behind Close: they all go on when the disk takes a      *)
(* batch in the end, or when the contexts of Flush end although the disk   *)
(* never works again.  (Again and again each of them is not in a call, or  *)
(* has returned from it: every call comes to an end.)                      *)
CallersReturn ==
  DiskRecovers \/ ContextsEnd =>
    /\ \A p \in Recorders : []<>(rpc[p] = "idle")
    /\ \A f \in Flushers : []<>(fpc[f] \in {"idle", "ok", "err"})
    /\ \A k \in Closers : []<>(kpc[k] \in {"idle", "returned"})

(* An accepted result reaches the disk once the disk works again, or Close *)
(* reports that it did not.                                                *)
EventuallyStored ==
  DiskRecovers => \A n \in 1 .. MaxCalls : []<>(accepted >= n => Len(log) >= n \/ closeErr = "err")
=============================================================================
