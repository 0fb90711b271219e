--------------------------- MODULE FrpsController ---------------------------
(***************************************************************************)
(* The server side of a reverse tunnel: one session of tun/frps.go with    *)
(* its controller, tun/frps_controller.go.                                 *)
(*                                                                         *)
(* The controller reads pings from the control connection, answers them,   *)
(* asks the client for worker streams and keeps those it gets in a bounded *)
(* channel, from which the handlers of user connections take them.  Four   *)
(* kinds of goroutines send to its three channels; a read-write lock keeps *)
(* them away from channels that Close has closed.                          *)
(***************************************************************************)
EXTENDS Integers, Sequences, FiniteSets

CONSTANTS
  Users,        \* goroutines in handleInputStream
  Registrars,   \* goroutines in handleWorkerStream that got a NewWorkConn
  Reader,       \* doReadLoop
  Handler,      \* handleReadMsg
  WorkerCount,  \* FrpWorkerCount (10)
  WorkerCap, SendCap, ReadCap,  \* capacities of the channels (100 each)
  MaxCalls      \* how many user connections come (bounds the model)

Procs == Users \cup Registrars \cup {Reader, Handler}

ASSUME FrpsAssumption ==
  /\ IsFiniteSet(Users) /\ IsFiniteSet(Registrars)
  /\ Reader # Handler
  /\ {Reader, Handler} \cap (Users \cup Registrars) = {}
  /\ Users \cap Registrars = {}
  /\ {WorkerCount, WorkerCap, SendCap, ReadCap, MaxCalls} \subseteq Nat \ {0}
  /\ WorkerCount \div 2 <= WorkerCap

VARIABLES
  pc,       \* control state of every goroutine but the two below
  readers,  \* holders of the read lock of mu
  closer,   \* Frps.Close: "no", "waiting" for the write lock, or "done"
  conn,     \* the control connection: "up", or "down" at either end
  readCh,   \* number of pings in readCh
  sendCh,   \* sendCh
  workers,  \* number of streams in workers
  wpc,      \* doWriteLoop: "recv", "done", or the message being written
  asked,    \* streams the client was asked for and has not brought yet
  missed,   \* history: has the client failed to bring one?
  calls     \* user connections so far

vars == <<pc, readers, closer, conn, readCh, sendCh, workers, wpc, asked, missed, calls>>

Messages == {"req", "pong"}
PCs == {"idle", "get", "check", "lock", "send", "wait", "start", "pipe", "read", "recv", "done"}

closed == closer = "done"

Init ==
  /\ pc = [p \in Procs |-> IF p = Reader THEN "read" ELSE IF p = Handler THEN "recv" ELSE "idle"]
  /\ readers = {}
  /\ closer = "no"
  /\ conn = "up"
  /\ readCh = 0
  /\ sendCh = << >>
  /\ workers = 0
  /\ wpc = "recv"
  /\ asked = 0
  /\ missed = FALSE
  /\ calls = 0

Goto(p, l) == pc' = [pc EXCEPT ![p] = l]
-----------------------------------------------------------------------------
(* The lock.                                                               *)

(* RLock and the look at closed that follows it.  A waiting writer keeps   *)
(* new readers out.  When the controller is closed the reader's loop ends, *)
(* with its deferred close of the connection, the other callers return.    *)
AfterRefusal(p) == IF p = Reader THEN "done" ELSE IF p = Handler THEN "recv" ELSE "idle"

RLock(p) ==
  /\ pc[p] = "lock"
  /\ closer # "waiting"
  /\ \/ /\ closed
        /\ Goto(p, AfterRefusal(p))
        /\ conn' = IF p = Reader THEN "down" ELSE conn
        /\ UNCHANGED readers
     \/ /\ ~closed
        /\ Goto(p, "send")
        /\ readers' = readers \cup {p}
        /\ UNCHANGED conn
  /\ UNCHANGED <<closer, readCh, sendCh, workers, wpc, asked, missed, calls>>

(* The send is over: RUnlock.                                              *)
RUnlock(p, next) == /\ Goto(p, next)
                    /\ readers' = readers \ {p}
-----------------------------------------------------------------------------
(* doReadLoop: every message of a client is a ping.                        *)
ReadMsg ==
  /\ pc[Reader] = "read"
  /\ conn = "up"
  /\ Goto(Reader, "lock")
  /\ UNCHANGED <<readers, closer, conn, readCh, sendCh, workers, wpc, asked, missed, calls>>

ReadFails ==
  /\ pc[Reader] = "read"
  /\ conn = "down"
  /\ Goto(Reader, "done")
  /\ UNCHANGED <<readers, closer, conn, readCh, sendCh, workers, wpc, asked, missed, calls>>

(* Faulty variant of QueueRead: the lock is kept.                          *)
QueueReadKeepsLock ==
  /\ pc[Reader] = "send"
  /\ readCh < ReadCap
  /\ readCh' = readCh + 1
  /\ Goto(Reader, "read")
  /\ UNCHANGED <<readers, closer, conn, sendCh, workers, wpc, asked, missed, calls>>

(* The send to readCh blocks, with the read lock held, while it is full.   *)
QueueRead ==
  /\ pc[Reader] = "send"
  /\ readCh < ReadCap
  /\ readCh' = readCh + 1
  /\ RUnlock(Reader, "read")
  /\ UNCHANGED <<closer, conn, sendCh, workers, wpc, asked, missed, calls>>

(* handleReadMsg; a closed channel is drained before it reports its end.   *)
RecvPing ==
  /\ pc[Handler] = "recv"
  /\ readCh > 0
  /\ readCh' = readCh - 1
  /\ Goto(Handler, "lock")
  /\ UNCHANGED <<readers, closer, conn, sendCh, workers, wpc, asked, missed, calls>>

RecvEnd ==
  /\ pc[Handler] = "recv"
  /\ readCh = 0
  /\ closed
  /\ Goto(Handler, "done")
  /\ UNCHANGED <<readers, closer, conn, readCh, sendCh, workers, wpc, asked, missed, calls>>

(* Write's select: the message is queued if there is room.                 *)
HasRoom == Len(sendCh) < SendCap

SendPong ==
  /\ pc[Handler] = "send"
  /\ sendCh' = IF HasRoom THEN Append(sendCh, "pong") ELSE sendCh
  /\ RUnlock(Handler, "recv")
  /\ UNCHANGED <<closer, conn, readCh, workers, wpc, asked, missed, calls>>
-----------------------------------------------------------------------------
(* doWriteLoop.                                                            *)
WriterRecv ==
  /\ wpc = "recv"
  /\ \/ /\ sendCh # << >>
        /\ wpc' = Head(sendCh)
        /\ sendCh' = Tail(sendCh)
     \/ /\ sendCh = << >>
        /\ closed
        /\ wpc' = "done"
        /\ UNCHANGED sendCh
  /\ UNCHANGED <<pc, readers, closer, conn, readCh, workers, asked, missed, calls>>

(* On a connection that is down the message is lost, or WriteMsg fails and *)
(* the loop ends.                                                          *)
WriteMsg ==
  /\ wpc \in Messages
  /\ \/ /\ conn = "up"
        /\ wpc' = "recv"
        /\ asked' = IF wpc = "req" THEN asked + WorkerCount ELSE asked
     \/ /\ conn = "down"
        /\ wpc' \in {"recv", "done"}
        /\ UNCHANGED asked
  /\ UNCHANGED <<pc, readers, closer, conn, readCh, sendCh, workers, missed, calls>>
-----------------------------------------------------------------------------
(* A worker stream arrives: handleWorkerStream looks the controller up     *)
(* under the mutex of frpsControllerManager, which Close holds, and        *)
(* registers the stream.                                                   *)
NewWorkConn(r) ==
  /\ pc[r] = "idle"
  /\ asked > 0
  /\ asked' = asked - 1
  /\ Goto(r, "get")
  /\ UNCHANGED <<readers, closer, conn, readCh, sendCh, workers, wpc, missed, calls>>

(* The client (startWorker) cannot open one of the streams it was asked    *)
(* for, and gives up on the rest of the request.                           *)
ClientFails ==
  /\ asked > 0
  /\ \E n \in 1 .. asked : n <= WorkerCount /\ asked' = asked - n
  /\ missed' = TRUE
  /\ UNCHANGED <<pc, readers, closer, conn, readCh, sendCh, workers, wpc, calls>>

GetController(p) ==
  /\ pc[p] = "get"
  /\ closer # "waiting"
  /\ Goto(p, IF p \in Users THEN "check" ELSE "lock")
  /\ UNCHANGED <<readers, closer, conn, readCh, sendCh, workers, wpc, asked, missed, calls>>

(* RegisterWorker: a stream that does not fit is forgotten.                *)
RegisterWorker(r) ==
  /\ pc[r] = "send"
  /\ workers' = IF workers < WorkerCap THEN workers + 1 ELSE workers
  /\ RUnlock(r, "idle")
  /\ UNCHANGED <<closer, conn, readCh, sendCh, wpc, asked, missed, calls>>
-----------------------------------------------------------------------------
(* A user connection: handleInputStream and GetWorkConn.                   *)
Accept(u) ==
  /\ pc[u] = "idle"
  /\ calls < MaxCalls
  /\ calls' = calls + 1
  /\ Goto(u, "get")
  /\ UNCHANGED <<readers, closer, conn, readCh, sendCh, workers, wpc, asked, missed>>

LowWater == WorkerCount \div 2
FewWorkersLate == workers < LowWater - 1  \* faulty variant: off by one
FewWorkers == workers < LowWater

(* The length of the channel is looked at without the lock.                *)
CheckWorkers(u) ==
  /\ pc[u] = "check"
  /\ Goto(u, IF FewWorkers THEN "lock" ELSE "wait")
  /\ UNCHANGED <<readers, closer, conn, readCh, sendCh, workers, wpc, asked, missed, calls>>

SendReq(u) ==
  /\ pc[u] = "send"
  /\ \/ /\ HasRoom
        /\ sendCh' = Append(sendCh, "req")
        /\ RUnlock(u, "wait")
     \/ /\ ~HasRoom
        /\ UNCHANGED sendCh
        /\ RUnlock(u, "idle")
  /\ UNCHANGED <<closer, conn, readCh, workers, wpc, asked, missed, calls>>

TakeWorker(u) ==
  /\ pc[u] = "wait"
  /\ workers > 0
  /\ workers' = workers - 1
  /\ Goto(u, "start")
  /\ UNCHANGED <<readers, closer, conn, readCh, sendCh, wpc, asked, missed, calls>>

(* Faulty variant of GiveUp: no time limit.                                *)
GiveUpClosedOnly(u) ==
  /\ pc[u] = "wait"
  /\ closed /\ workers = 0
  /\ Goto(u, "idle")
  /\ UNCHANGED <<readers, closer, conn, readCh, sendCh, workers, wpc, asked, missed, calls>>

(* The channel is closed and empty, or five seconds have passed.           *)
GiveUp(u) ==
  /\ pc[u] = "wait"
  /\ Goto(u, "idle")
  /\ UNCHANGED <<readers, closer, conn, readCh, sendCh, workers, wpc, asked, missed, calls>>

(* sayStart may find the worker stream broken; otherwise the streams are   *)
(* piped until one of them ends.                                           *)
SayStart(u) ==
  /\ pc[u] = "start"
  /\ Goto(u, "pipe") \/ Goto(u, "idle")
  /\ UNCHANGED <<readers, closer, conn, readCh, sendCh, workers, wpc, asked, missed, calls>>

PipeEnds(u) ==
  /\ pc[u] = "pipe"
  /\ Goto(u, "idle")
  /\ UNCHANGED <<readers, closer, conn, readCh, sendCh, workers, wpc, asked, missed, calls>>
-----------------------------------------------------------------------------
(* Frps.Close: the manager's mutex, then the controller's write lock.      *)
CloseCalled ==
  /\ closer = "no"
  /\ closer' = "waiting"
  /\ UNCHANGED <<pc, readers, conn, readCh, sendCh, workers, wpc, asked, missed, calls>>

CanLockAlways == TRUE                 \* faulty variant: senders are not waited for
CanLock == readers = {}

CloseCtlForgotten == conn             \* faulty variant: the connection stays open
CloseCtl == "down"

Close ==
  /\ closer = "waiting"
  /\ CanLock
  /\ closer' = "done"
  /\ conn' = CloseCtl
  /\ UNCHANGED <<pc, readers, readCh, sendCh, workers, wpc, asked, missed, calls>>

(* The connection breaks, or the client closes it.                         *)
Break ==
  /\ conn = "up"
  /\ conn' = "down"
  /\ UNCHANGED <<pc, readers, closer, readCh, sendCh, workers, wpc, asked, missed, calls>>
-----------------------------------------------------------------------------
ReaderStep  == ReadFails \/ RLock(Reader) \/ QueueRead
HandlerStep == RecvPing \/ RecvEnd \/ RLock(Handler) \/ SendPong
WriterStep  == WriterRecv \/ WriteMsg
RegStep(r)  == GetController(r) \/ RLock(r) \/ RegisterWorker(r)
UserStep(u) == GetController(u) \/ CheckWorkers(u) \/ RLock(u) \/ SendReq(u)
                 \/ TakeWorker(u) \/ GiveUp(u) \/ SayStart(u)

Next == \/ ReadMsg
        \/ ReaderStep
        \/ HandlerStep
        \/ WriterStep
        \/ \E r \in Registrars : NewWorkConn(r) \/ RegStep(r)
        \/ \E u \in Users : Accept(u) \/ UserStep(u) \/ PipeEnds(u)
        \/ ClientFails
        \/ CloseCalled
        \/ Close
        \/ Break

Spec == Init /\ [][Next]_vars

(* Goroutines that can run are scheduled, writes return, and the clock     *)
(* advances.  Nothing is assumed of the client, the users and the network. *)
Fairness ==
  /\ WF_vars(ReaderStep) /\ WF_vars(HandlerStep) /\ WF_vars(WriterStep) /\ WF_vars(Close)
  /\ \A r \in Registrars : WF_vars(RegStep(r))
  /\ \A u \in Users : WF_vars(UserStep(u))

FairSpec == Spec /\ Fairness
-----------------------------------------------------------------------------
(* The type invariant of the controller's state.                           *)
TypeOK ==
  /\ pc \in [Procs -> PCs]
  /\ readers \subseteq Procs
  /\ closer \in {"no", "waiting", "done"}
  /\ conn \in {"up", "down"}
  /\ readCh \in 0 .. ReadCap
  /\ sendCh \in Seq(Messages) /\ Len(sendCh) <= SendCap
  /\ workers \in 0 .. WorkerCap
  /\ wpc \in Messages \cup {"recv", "done"}
  /\ asked \in Nat
  /\ missed \in BOOLEAN
  /\ calls \in 0 .. MaxCalls

(* Nobody is about to send to a channel that Close has closed, which would *)
(* panic: the lock that doReadLoop, Write and RegisterWorker hold between  *)
(* their look at closed and their send is what the comment on mu says.     *)
NoSendOnClosed == closed => \A p \in Procs : pc[p] # "send"

(* Every user connection that waits has a worker coming: while no more     *)
(* users than half of FrpWorkerCount come at a time, and the client brings *)
(* the workers it is asked for, those who have found enough workers and    *)
(* not asked for more are not left without one by those who take workers   *)
(* between the look at the channel's length and the receive.               *)
Waiting == {u \in Users : pc[u] = "wait"}
Arriving == {r \in Registrars : pc[r] \in {"get", "lock", "send"}}
ReqsIn(s) == {k \in DOMAIN s : s[k] = "req"}
ReqsOnTheWay == Cardinality(ReqsIn(sendCh)) + (IF wpc = "req" THEN 1 ELSE 0)
Supply == workers + asked + Cardinality(Arriving) + WorkerCount * ReqsOnTheWay
ClientDelivers == ~missed /\ conn = "up" /\ wpc # "done" /\ ~closed
DemandCovered ==
  Cardinality(Users) <= LowWater /\ ClientDelivers => Cardinality(Waiting) <= Supply

(* The only way in which everybody waits for everybody: doReadLoop holds   *)
(* the read lock and waits for room in readCh, Close waits for doReadLoop, *)
(* and handleReadMsg, who would make room, waits behind Close.             *)
Stuck ==
  /\ closer = "waiting"
  /\ pc[Reader] = "send" /\ readCh = ReadCap
  /\ pc[Handler] = "lock"

(* Close returns, unless it meets a full readCh in this way.  (Again and   *)
(* again nobody waits in Close: each call of it comes to an end.)          *)
CloseReturns == []<>(closer # "waiting" \/ Stuck)

(* Every user connection gets a worker or is refused, whatever the client  *)
(* does and whenever the tunnel is closed, with the same exception.        *)
UserReturns == \A u \in Users : []<>(pc[u] \in {"idle", "pipe"} \/ Stuck)

(* Close ends the three loops of the controller.                           *)
LoopsEnd == []<>(closed => pc[Reader] = "done" /\ pc[Handler] = "done" /\ wpc = "done")
=============================================================================
