------------------------------ MODULE UDPRelay ------------------------------
(***************************************************************************)
(* The UDP input (input_udp.go, input_udp_worker.go), the handler that a   *)
(* tunnel runs for each of its workers (server.go) and the pipe between    *)
(* the worker and the stream of the output (core/pipe.go).                 *)
(*                                                                         *)
(* One goroutine, serve, reads the socket for every client.  It makes a    *)
(* worker for an address that has none and puts the datagram into the      *)
(* worker's queue, where it waits while the queue is full.  Workers are    *)
(* numbered as they are made.  Datagrams all look the same: a queue is     *)
(* its length.  Time is left out: a timer may fire when what it waits for  *)
(* has not happened.                                                       *)
(***************************************************************************)
EXTENDS Integers

CONSTANTS
  Addrs,        \* the clients' addresses
  QueueCap,     \* capacity of bReaders (100 in the code)
  MaxWorkers    \* how many workers are made (bounds the model)

ASSUME RelayAssumption == Addrs # {} /\ QueueCap \in Nat \ {0} /\ MaxWorkers \in Nat

VARIABLES
  framed,      \* the input's streams begin with a handshake
  handler,     \* inputBase.newStream is set
  relayer,     \* the socket: "open" or "closed"
  spc,         \* serve: "read", "insert" or "ended"
  target,      \* the worker that serve inserts into
  registered,  \* WorkerMap: Addrs -> worker (0: none)
  made,        \* how many workers have been made
  addr,        \* Workers -> the address of the worker
  hpc,         \* Workers -> where its handler is
  queue,       \* Workers -> length of bReaders
  deadline,    \* Workers -> readDeadline has been set to now
  up,          \* Workers -> the direction from the client to the output
  down,        \* Workers -> the direction from the output to the client
  peer,        \* Workers -> the output's stream: "open", "stalled", "broken"
  cut          \* Workers -> its read deadline has been set to now

inputVars == <<framed, handler, relayer>>
serveVars == <<spc, target, made, addr>>
pipeVars  == <<deadline, up, down, cut>>
vars == <<inputVars, serveVars, registered, hpc, queue, pipeVars, peer>>

Workers == 1 .. MaxWorkers

Init ==
  /\ framed \in BOOLEAN /\ handler \in BOOLEAN /\ relayer = "open"
  /\ spc = "read" /\ target = 0 /\ made = 0
  /\ registered = [a \in Addrs |-> 0]
  /\ addr \in [Workers -> {CHOOSE a \in Addrs : TRUE}]
  /\ hpc = [w \in Workers |-> "none"]
  /\ queue = [w \in Workers |-> 0]
  /\ deadline = [w \in Workers |-> FALSE]
  /\ up = [w \in Workers |-> "off"] /\ down = [w \in Workers |-> "off"]
  /\ peer = [w \in Workers |-> "open"]
  /\ cut = [w \in Workers |-> FALSE]
-----------------------------------------------------------------------------
(* serve.  LoadOrStore finds the worker of the address or registers a new  *)
(* one; insert is a step of its own, since the worker may be closed in     *)
(* between.  A temporary error of the socket is retried and leaves no      *)
(* trace.                                                                  *)
Receive(a) ==
  /\ spc = "read" /\ relayer = "open"
  /\ spc' = "insert"
  /\ \/ /\ registered[a] # 0
        /\ target' = registered[a]
        /\ UNCHANGED <<registered, made, addr, hpc>>
     \/ /\ registered[a] = 0
        /\ made < MaxWorkers
        /\ made' = made + 1
        /\ target' = made + 1
        /\ registered' = [registered EXCEPT ![a] = made + 1]
        /\ addr' = [addr EXCEPT ![made + 1] = a]
        /\ hpc' = [hpc EXCEPT ![made + 1] = "new"]
  /\ UNCHANGED <<inputVars, queue, pipeVars, peer>>

HasRoom(w) == queue[w] < QueueCap

Insert ==
  /\ spc = "insert"
  /\ HasRoom(target)
  /\ queue' = [queue EXCEPT ![target] = @ + 1]
  /\ spc' = "read"
  /\ UNCHANGED <<inputVars, target, made, addr, registered, hpc, pipeVars, peer>>

ServeEnds ==
  /\ spc = "read" /\ relayer = "closed"
  /\ spc' = "ended"
  /\ UNCHANGED <<inputVars, target, made, addr, registered, hpc, queue, pipeVars, peer>>

(* Close of the input closes the socket, and none of the workers.          *)
InputClose ==
  /\ relayer = "open"
  /\ relayer' = "closed"
  /\ UNCHANGED <<framed, handler, serveVars, registered, hpc, queue, pipeVars, peer>>

(* A frps tunnel runs its input before it sets the handler.                *)
SetOnNewStream ==
  /\ ~handler
  /\ handler' = TRUE
  /\ UNCHANGED <<framed, relayer, serveVars, registered, hpc, queue, pipeVars, peer>>
-----------------------------------------------------------------------------
(* The handler of a worker.                                                *)
Goto(w, pc) == hpc' = [hpc EXCEPT ![w] = pc]

(* OnNewStream drops a stream that comes before the handler is set.        *)
OnNewStream(w) ==
  /\ hpc[w] = "new"
  /\ Goto(w, IF ~handler THEN "dropped" ELSE IF framed THEN "handshake" ELSE "open")
  /\ UNCHANGED <<inputVars, serveVars, registered, queue, pipeVars, peer>>

Take(w) == queue[w] > 0 /\ queue' = [queue EXCEPT ![w] = @ - 1]

(* readStreamHandshake: the first six bytes say what the stream is for, or *)
(* are no handshake; a datagram shorter than that leaves it waiting.       *)
Handshake(w) ==
  /\ hpc[w] = "handshake"
  /\ Take(w)
  /\ \E pc \in {"handshake", "open", "control", "close"} : Goto(w, pc)
  /\ UNCHANGED <<inputVars, serveVars, registered, pipeVars, peer>>

(* ServeControlLoop and ServeBandwidthLoop: they read and answer, and end  *)
(* with a message they do not expect.                                      *)
Control(w) ==
  /\ hpc[w] = "control"
  /\ Take(w)
  /\ Goto(w, "control") \/ Goto(w, "close")
  /\ UNCHANGED <<inputVars, serveVars, registered, pipeVars, peer>>

(* Read gives up when nothing has come for the timeout of the input.       *)
HandlerTimeout(w) ==
  /\ hpc[w] \in {"handshake", "control"}
  /\ queue[w] = 0
  /\ Goto(w, "close")
  /\ UNCHANGED <<inputVars, serveVars, registered, queue, pipeVars, peer>>

(* GetStream and WrapDst; then the pipe, its two directions and monitor.   *)
OpenStream(w) ==
  /\ hpc[w] = "open"
  /\ \/ /\ Goto(w, "close")
        /\ UNCHANGED <<up, down>>
     \/ /\ Goto(w, "pipe")
        /\ up' = [up EXCEPT ![w] = "read"]
        /\ down' = [down EXCEPT ![w] = "read"]
  /\ UNCHANGED <<inputVars, serveVars, registered, queue, deadline, cut, peer>>

(* Pipe has the results of both directions.  The output's stream is closed *)
(* and nothing of the pipe is looked at again: its state is cleared.       *)
PipeReturns(w) ==
  /\ hpc[w] = "pipe" /\ up[w] = "ended" /\ down[w] = "ended"
  /\ Goto(w, "close")
  /\ up' = [up EXCEPT ![w] = "off"] /\ down' = [down EXCEPT ![w] = "off"]
  /\ deadline' = [deadline EXCEPT ![w] = FALSE] /\ cut' = [cut EXCEPT ![w] = FALSE]
  /\ peer' = [peer EXCEPT ![w] = "open"]
  /\ UNCHANGED <<inputVars, serveVars, registered, queue>>

\* Faulty variant of CloseSrc: the worker is closed once more later on.
CloseSrcTwice(w) ==
  /\ hpc[w] \in {"close", "done"}
  /\ Goto(w, "done")
  /\ registered' = [registered EXCEPT ![addr[w]] = 0]
  /\ UNCHANGED <<inputVars, serveVars, queue, pipeVars, peer>>

(* Close of the worker.  Del removes whatever worker its address has.      *)
CloseSrc(w) ==
  /\ hpc[w] = "close"
  /\ Goto(w, "done")
  /\ registered' = [registered EXCEPT ![addr[w]] = 0]
  /\ UNCHANGED <<inputVars, serveVars, queue, pipeVars, peer>>
-----------------------------------------------------------------------------
(* core.Pipe: the direction from the client.  The worker's Read looks at   *)
(* the deadline when it begins and not while it waits.                     *)
UpEnds(w) ==
  /\ up' = [up EXCEPT ![w] = "ended"]
  /\ cut' = [cut EXCEPT ![w] = TRUE]

UpRead(w) ==
  /\ up[w] = "read"
  /\ Take(w)
  /\ up' = [up EXCEPT ![w] = "write"]
  /\ UNCHANGED <<inputVars, serveVars, registered, hpc, deadline, down, cut, peer>>

\* Faulty variant of UpTimeout: Read waits without a timer.
UpTimeoutNever(w) == FALSE /\ UNCHANGED vars

UpTimeout(w) ==
  /\ up[w] = "read"
  /\ queue[w] = 0
  /\ UpEnds(w)
  /\ UNCHANGED <<inputVars, serveVars, registered, hpc, queue, deadline, down, peer>>

(* A Write to a peer that does not read waits for ever.  After it, the     *)
(* next Read begins.                                                       *)
UpWrite(w) ==
  /\ up[w] = "write"
  /\ \/ /\ peer[w] = "open" /\ ~deadline[w]
        /\ up' = [up EXCEPT ![w] = "read"]
        /\ UNCHANGED cut
     \/ (peer[w] = "broken" \/ (peer[w] = "open" /\ deadline[w])) /\ UpEnds(w)
  /\ UNCHANGED <<inputVars, serveVars, registered, hpc, queue, deadline, down, peer>>

(* The direction from the output.  Data that is relayed to the client      *)
(* leaves no trace; the direction ends when the stream does, when a read   *)
(* deadline ends a Read that waits, or when the socket is closed.          *)
DownEnds(w) ==
  /\ down' = [down EXCEPT ![w] = "ended"]
  /\ deadline' = [deadline EXCEPT ![w] = TRUE]

\* Faulty variant of DownReadFails: only the end of the stream ends it.
DownReadFailsBroken(w) ==
  /\ down[w] = "read"
  /\ peer[w] = "broken"
  /\ DownEnds(w)
  /\ UNCHANGED <<inputVars, serveVars, registered, hpc, queue, up, cut, peer>>

DownReadFails(w) ==
  /\ down[w] = "read"
  /\ peer[w] = "broken" \/ cut[w]
  /\ DownEnds(w)
  /\ UNCHANGED <<inputVars, serveVars, registered, hpc, queue, up, cut, peer>>

DownWriteFails(w) ==
  /\ down[w] = "read"
  /\ peer[w] # "broken" /\ ~cut[w]
  /\ relayer = "closed"
  /\ DownEnds(w)
  /\ UNCHANGED <<inputVars, serveVars, registered, hpc, queue, up, cut, peer>>

(* The monitor: nothing has been read in either direction for the pipe's   *)
(* timeout, so both read deadlines are set, once.  It is stopped when the   *)
(* direction from the client has ended.                                    *)
Monitor(w) ==
  /\ up[w] \notin {"off", "ended"} /\ ~cut[w]
  /\ queue[w] = 0 \/ up[w] = "write"
  /\ deadline' = [deadline EXCEPT ![w] = TRUE]
  /\ cut' = [cut EXCEPT ![w] = TRUE]
  /\ UNCHANGED <<inputVars, serveVars, registered, hpc, queue, up, down, peer>>

(* The other end of the output's stream stops to read, goes on or is gone. *)
PeerChanges(w) ==
  /\ hpc[w] = "pipe"
  /\ peer[w] # "broken"
  /\ \E s \in {"open", "stalled", "broken"} \ {peer[w]} : peer' = [peer EXCEPT ![w] = s]
  /\ UNCHANGED <<inputVars, serveVars, registered, hpc, queue, pipeVars>>
-----------------------------------------------------------------------------
HandlerStep(w) ==
  \/ OnNewStream(w) \/ Handshake(w) \/ Control(w) \/ HandlerTimeout(w)
  \/ OpenStream(w) \/ PipeReturns(w) \/ CloseSrc(w)
UpStep(w)   == UpRead(w) \/ UpTimeout(w) \/ UpWrite(w)
ServeStep   == Insert \/ ServeEnds

Next ==
  \/ \E a \in Addrs : Receive(a)
  \/ ServeStep \/ InputClose \/ SetOnNewStream
  \/ \E w \in Workers :
       HandlerStep(w) \/ UpStep(w) \/ DownReadFails(w) \/ DownWriteFails(w) \/ Monitor(w) \/ PeerChanges(w)

Spec == Init /\ [][Next]_vars

(***************************************************************************)
(* Fairness.  Goroutines that can go on do, and timers fire.  Nothing      *)
(* makes a client send, the output's peer read, or somebody close the      *)
(* input.  The monitor need not fire: data may come all the time.          *)
(***************************************************************************)
Fairness ==
  /\ WF_vars(ServeStep)
  /\ \A w \in Workers : WF_vars(HandlerStep(w)) /\ WF_vars(UpStep(w)) /\ WF_vars(DownReadFails(w))

FairSpec == Spec /\ Fairness
-----------------------------------------------------------------------------
(* The type invariant.                                                     *)
TypeOK ==
  /\ framed \in BOOLEAN /\ handler \in BOOLEAN /\ relayer \in {"open", "closed"}
  /\ spc \in {"read", "insert", "ended"}
  /\ {target, made} \subseteq 0 .. MaxWorkers
  /\ registered \in [Addrs -> 0 .. made]
  /\ addr \in [Workers -> Addrs]
  /\ hpc \in [Workers -> {"none", "new", "dropped", "handshake", "control", "open",
                          "pipe", "close", "done"}]
  /\ queue \in [Workers -> 0 .. QueueCap]
  /\ up \in [Workers -> {"off", "read", "write", "ended"}]
  /\ down \in [Workers -> {"off", "read", "ended"}]
  /\ peer \in [Workers -> {"open", "stalled", "broken"}]
  /\ {deadline, cut} \subseteq [Workers -> BOOLEAN]

(* The map of the workers and the handlers agree: a worker is registered   *)
(* for its address exactly while its handler is at work (or was never      *)
(* started), although Del removes whatever worker the address has.  So a   *)
(* client has one stream at a time, and a client whose stream has ended    *)
(* gets another one.                                                       *)
RegisteredWhileHandled ==
  \A w \in 1 .. made : hpc[w] # "done" <=> registered[addr[w]] = w

(* What can stop the one reader of the socket: a worker whose stream came  *)
(* before the handler was set, one whose handler has ended with a full     *)
(* queue, and one that cannot write to the output's peer.                  *)
Unread(w)   == hpc[w] \in {"dropped", "done"}
Stalled(w)  == up[w] = "write" /\ peer[w] = "stalled"

(* serve comes back to the socket, except for one of those three.          *)
ServeGoesOn == []<>(spc # "insert" \/ Unread(target) \/ Stalled(target))

(* A client that has sent nothing for the timeout loses its worker and its *)
(* stream, though the output sends all the time; so does one with a pipe   *)
(* of which one direction has ended.  Only a Write that waits for a peer   *)
(* that does not read holds the stream open: Pipe sets read deadlines.     *)
Ending(w) == hpc[w] = "pipe" /\ (up[w] = "ended" \/ down[w] = "ended")
Silent(w) == hpc[w] = "pipe" /\ queue[w] = 0
StreamsEnd ==
  \A w \in Workers :
    /\ Ending(w) ~> (hpc[w] = "done" \/ Stalled(w))
    /\ Silent(w) ~> (hpc[w] = "done" \/ Stalled(w) \/ queue[w] > 0)
=============================================================================
