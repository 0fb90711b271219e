--------------------------- MODULE UDPRelayProofs ---------------------------
(***************************************************************************)
(* Proofs about UDPRelay, for any set of clients, any capacity of the      *)
(* queues and any number of workers.                                       *)
(*                                                                         *)
(* RegisteredWhileHandled is not inductive by itself: an action of a       *)
(* worker that was never made could spoil it.  Unmade says that those do   *)
(* not act.                                                                *)
(***************************************************************************)
EXTENDS UDPRelay, TLAPS

(* A worker that has not been made has no handler.                         *)
Unmade == \A w \in Workers : w > made => hpc[w] = "none"

RelayInv == TypeOK /\ RegisteredWhileHandled /\ Unmade

(* The steps that leave the registration of the workers as it is: the pipe *)
(* and the queue.                                                          *)
Registration == <<registered, made, addr, hpc>>

(* TypeOK spelled out for one variable at a time.                          *)
LEMMA Members ==
  ASSUME TypeOK, NEW w \in Workers
  PROVE  /\ made \in Nat /\ made <= MaxWorkers /\ MaxWorkers \in Nat
         /\ addr[w] \in Addrs
         /\ registered[addr[w]] \in 0 .. made
         /\ queue[w] \in Nat /\ queue[w] <= QueueCap
         /\ w \in Nat /\ w # 0
  BY RelayAssumption DEF TypeOK, Workers

LEMMA InitInv == Init => RelayInv
<1> SUFFICES ASSUME Init PROVE RelayInv
  OBVIOUS
<1> PICK a0 \in Addrs : a0 = CHOOSE a \in Addrs : TRUE
  BY RelayAssumption
<1>1. addr \in [Workers -> Addrs]
  BY DEF Init
<1>2. TypeOK
  BY <1>1, RelayAssumption DEF Init, TypeOK, Workers
<1>3. RegisteredWhileHandled
  BY DEF Init, RegisteredWhileHandled
<1>4. Unmade
  BY DEF Init, Unmade
<1> QED
  BY <1>2, <1>3, <1>4 DEF RelayInv
-----------------------------------------------------------------------------
(* Type correctness of each action.                                        *)
LEMMA ReceiveType ==
  ASSUME TypeOK, NEW a \in Addrs, Receive(a) PROVE TypeOK'
<1> USE RelayAssumption
<1>1. CASE registered[a] # 0
  <2>1. registered[a] \in 0 .. made /\ made \in 0 .. MaxWorkers
    BY DEF TypeOK
  <2>2. target' \in 0 .. MaxWorkers
    BY <1>1, <2>1 DEF Receive
  <2> QED
    BY <1>1, <2>2 DEF Receive, TypeOK, inputVars, pipeVars
<1>2. CASE registered[a] = 0
  <2>1. made \in Nat /\ made + 1 \in 0 .. MaxWorkers /\ made + 1 \in Workers
    BY <1>2 DEF Receive, TypeOK, Workers
  <2>2. target' = made + 1 /\ made' = made + 1
    BY <1>2 DEF Receive
  <2>3. registered' \in [Addrs -> 0 .. made']
    <3>1. registered \in [Addrs -> 0 .. made + 1]
      BY <2>1 DEF TypeOK
    <3> QED
      BY <1>2, <2>1, <2>2, <3>1 DEF Receive
  <2>4. addr' \in [Workers -> Addrs]
    BY <1>2, <2>1 DEF Receive, TypeOK
  <2>5. hpc' \in [Workers -> {"none", "new", "dropped", "handshake", "control", "open",
                              "pipe", "close", "done"}]
    BY <1>2, <2>1 DEF Receive, TypeOK
  <2> QED
    BY <2>1, <2>2, <2>3, <2>4, <2>5 DEF Receive, TypeOK, inputVars, pipeVars
<1> QED
  BY <1>1, <1>2

LEMMA ServeType ==
  ASSUME TypeOK, Insert \/ ServeEnds \/ InputClose \/ SetOnNewStream PROVE TypeOK'
<1> USE RelayAssumption
<1>1. CASE Insert
  <2>1. queue' \in [Workers -> 0 .. QueueCap]
    <3>1. queue \in [Workers -> 0 .. QueueCap] /\ queue' = [queue EXCEPT ![target] = @ + 1]
      BY <1>1 DEF Insert, TypeOK
    <3>2. CASE target \in Workers
      <4>1. queue[target] + 1 \in 0 .. QueueCap
        BY <1>1, <3>1, <3>2 DEF Insert, HasRoom
      <4> QED
        BY <3>1, <4>1
    <3>3. CASE target \notin Workers
      BY <3>1, <3>3
    <3> QED
      BY <3>2, <3>3
  <2>2. deadline' = deadline /\ cut' = cut /\ up' = up /\ down' = down
    BY <1>1 DEF Insert, pipeVars
  <2> QED
    BY <1>1, <2>1, <2>2 DEF Insert, TypeOK, inputVars
<1>2. CASE ServeEnds
  BY <1>2 DEF ServeEnds, TypeOK, inputVars, pipeVars
<1>3. CASE InputClose
  BY <1>3 DEF InputClose, TypeOK, serveVars, pipeVars
<1>4. CASE SetOnNewStream
  BY <1>4 DEF SetOnNewStream, TypeOK, serveVars, pipeVars
<1> QED
  BY <1>1, <1>2, <1>3, <1>4

LEMMA HandlerType ==
  ASSUME TypeOK, NEW w \in Workers, HandlerStep(w) PROVE TypeOK'
<1> USE RelayAssumption DEF TypeOK, Goto, inputVars, serveVars, pipeVars
<1>1. CASE OnNewStream(w)
  BY <1>1 DEF OnNewStream
<1>2. CASE Handshake(w)
  BY <1>2 DEF Handshake, Take
<1>3. CASE Control(w)
  BY <1>3 DEF Control, Take
<1>4. CASE HandlerTimeout(w)
  BY <1>4 DEF HandlerTimeout
<1>5. CASE OpenStream(w)
  BY <1>5 DEF OpenStream
<1>6. CASE PipeReturns(w)
  BY <1>6 DEF PipeReturns
<1>7. CASE CloseSrc(w)
  BY <1>7 DEF CloseSrc
<1> QED
  BY <1>1, <1>2, <1>3, <1>4, <1>5, <1>6, <1>7 DEF HandlerStep

LEMMA PipeType ==
  ASSUME TypeOK, NEW w \in Workers,
         UpStep(w) \/ DownReadFails(w) \/ DownWriteFails(w) \/ Monitor(w) \/ PeerChanges(w)
  PROVE  TypeOK'
<1> USE RelayAssumption DEF TypeOK, UpEnds, DownEnds, inputVars, serveVars, pipeVars
<1>1. CASE UpRead(w)
  <2>1. queue' \in [Workers -> 0 .. QueueCap]
    BY <1>1 DEF UpRead, Take
  <2>2. up' \in [Workers -> {"off", "read", "write", "ended"}]
    BY <1>1 DEF UpRead
  <2> QED
    BY <1>1, <2>1, <2>2 DEF UpRead
<1>2. CASE UpTimeout(w)
  BY <1>2 DEF UpTimeout
<1>3. CASE UpWrite(w)
  <2>1. up' \in [Workers -> {"off", "read", "write", "ended"}]
    BY <1>3 DEF UpWrite
  <2>2. cut' \in [Workers -> BOOLEAN]
    BY <1>3 DEF UpWrite
  <2> QED
    BY <1>3, <2>1, <2>2 DEF UpWrite
<1>4. CASE DownReadFails(w)
  BY <1>4 DEF DownReadFails
<1>5. CASE DownWriteFails(w)
  BY <1>5 DEF DownWriteFails
<1>6. CASE Monitor(w)
  BY <1>6 DEF Monitor
<1>7. CASE PeerChanges(w)
  BY <1>7 DEF PeerChanges
<1> QED
  BY <1>1, <1>2, <1>3, <1>4, <1>5, <1>6, <1>7 DEF UpStep
-----------------------------------------------------------------------------
(* The registration.  A step that leaves it alone keeps the invariant.     *)
LEMMA SameRegistration ==
  ASSUME RelayInv, UNCHANGED Registration PROVE RegisteredWhileHandled' /\ Unmade'
  BY DEF RelayInv, Registration, RegisteredWhileHandled, Unmade

(* A handler that goes on and is not done yet.                             *)
LEMMA HandlerGoesOn ==
  ASSUME RelayInv, NEW w \in Workers, hpc[w] \notin {"none", "done"}, NEW pc,
         pc # "done", hpc' = [hpc EXCEPT ![w] = pc], UNCHANGED <<registered, made, addr>>
  PROVE  RegisteredWhileHandled' /\ Unmade'
<1>1. hpc \in [Workers -> {"none", "new", "dropped", "handshake", "control", "open",
                           "pipe", "close", "done"}]
  BY DEF RelayInv, TypeOK
<1>2. made \in Nat /\ w \in Nat /\ 1 .. made \subseteq Workers
  BY Members, RelayAssumption DEF RelayInv, Workers
<1>3. \A v \in Workers : v # w => hpc'[v] = hpc[v]
  BY <1>1
<1>4. hpc'[w] = pc
  BY <1>1
<1>5. w <= made
  BY <1>2 DEF RelayInv, Unmade, Workers
<1>6. RegisteredWhileHandled'
  BY <1>2, <1>3, <1>4 DEF RelayInv, RegisteredWhileHandled
<1>7. Unmade'
  BY <1>2, <1>3, <1>5 DEF RelayInv, Unmade, Workers
<1> QED
  BY <1>6, <1>7

(* Receive registers a new worker where the address has none.              *)
LEMMA ReceiveRegisters ==
  ASSUME RelayInv, NEW a \in Addrs, Receive(a) PROVE RegisteredWhileHandled' /\ Unmade'
<1>1. CASE registered[a] # 0
  BY <1>1, SameRegistration DEF Receive, Registration
<1>2. CASE registered[a] = 0
  <2> DEFINE n == made + 1
  <2>1. made \in Nat /\ n \in Workers /\ 1 .. made \subseteq Workers /\ MaxWorkers \in Nat
    BY <1>2, RelayAssumption DEF Receive, RelayInv, TypeOK, Workers
  <2>2. /\ made' = n
        /\ registered' = [registered EXCEPT ![a] = n]
        /\ addr' = [addr EXCEPT ![n] = a]
        /\ hpc' = [hpc EXCEPT ![n] = "new"]
    BY <1>2 DEF Receive
  <2>3. addr'[n] = a /\ registered'[a] = n /\ hpc'[n] = "new"
    BY <2>1, <2>2 DEF RelayInv, TypeOK
  <2>4. ASSUME NEW w \in 1 .. made
        PROVE  hpc'[w] # "done" <=> registered'[addr'[w]] = w
    <3>1. w \in Workers /\ w # n /\ w # 0
      BY <2>1
    <3>2. hpc'[w] = hpc[w] /\ addr'[w] = addr[w] /\ addr[w] \in Addrs
      BY <2>1, <2>2, <3>1 DEF RelayInv, TypeOK
    <3>3. hpc[w] # "done" <=> registered[addr[w]] = w
      BY DEF RelayInv, RegisteredWhileHandled
    <3>4. CASE addr[w] = a
      BY <1>2, <2>3, <3>1, <3>2, <3>3, <3>4
    <3>5. CASE addr[w] # a
      <4>1. registered'[addr[w]] = registered[addr[w]]
        BY <2>2, <3>2, <3>5 DEF RelayInv, TypeOK
      <4> QED
        BY <3>2, <3>3, <4>1
    <3> QED
      BY <3>4, <3>5
  <2>5. RegisteredWhileHandled'
    <3>1. SUFFICES ASSUME NEW w \in 1 .. n
                   PROVE  hpc'[w] # "done" <=> registered'[addr'[w]] = w
      BY <2>2 DEF RegisteredWhileHandled
    <3>2. w \in 1 .. made \/ w = n
      BY <2>1
    <3> QED
      BY <2>3, <2>4, <3>2
  <2>6. Unmade'
    <3>1. SUFFICES ASSUME NEW w \in Workers, w > n PROVE hpc'[w] = "none"
      BY <2>2 DEF Unmade
    <3>2. w > made /\ w # n
      BY <2>1, <3>1 DEF Workers
    <3> QED
      BY <2>1, <2>2, <3>2 DEF RelayInv, TypeOK, Unmade
  <2> QED
    BY <2>5, <2>6
<1> QED
  BY <1>1, <1>2

(* Close removes the worker of its address, which is the one that closes.  *)
LEMMA CloseUnregisters ==
  ASSUME RelayInv, NEW w \in Workers, CloseSrc(w) PROVE RegisteredWhileHandled' /\ Unmade'
<1>1. /\ hpc[w] = "close"
      /\ hpc' = [hpc EXCEPT ![w] = "done"]
      /\ registered' = [registered EXCEPT ![addr[w]] = 0]
      /\ made' = made /\ addr' = addr
  BY DEF CloseSrc, Goto, serveVars
<1>2. made \in Nat /\ w \in Nat /\ w # 0 /\ 1 .. made \subseteq Workers /\ addr[w] \in Addrs
  BY Members, RelayAssumption DEF RelayInv, Workers
<1>3. w \in 1 .. made
  BY <1>1, <1>2 DEF RelayInv, Unmade, Workers
<1>4. registered[addr[w]] = w
  BY <1>1, <1>3 DEF RelayInv, RegisteredWhileHandled
<1>5. hpc'[w] = "done" /\ registered'[addr[w]] = 0
  BY <1>1, <1>2 DEF RelayInv, TypeOK
<1>6. ASSUME NEW v \in 1 .. made, v # w
      PROVE  hpc'[v] # "done" <=> registered'[addr[v]] = v
  <2>1. v \in Workers /\ v # 0 /\ addr[v] \in Addrs
    BY <1>2 DEF RelayInv, TypeOK
  <2>2. hpc'[v] = hpc[v]
    BY <1>1, <1>6, <2>1 DEF RelayInv, TypeOK
  <2>3. hpc[v] # "done" <=> registered[addr[v]] = v
    BY DEF RelayInv, RegisteredWhileHandled
  <2>4. CASE addr[v] = addr[w]
    BY <1>4, <1>5, <1>6, <2>1, <2>2, <2>3, <2>4
  <2>5. CASE addr[v] # addr[w]
    <3>1. registered'[addr[v]] = registered[addr[v]]
      BY <1>1, <2>1, <2>5 DEF RelayInv, TypeOK
    <3> QED
      BY <2>2, <2>3, <3>1
  <2> QED
    BY <2>4, <2>5
<1>7. RegisteredWhileHandled'
  BY <1>1, <1>2, <1>3, <1>5, <1>6 DEF RegisteredWhileHandled
<1>8. Unmade'
  BY <1>1, <1>2, <1>3 DEF RelayInv, TypeOK, Unmade, Workers
<1> QED
  BY <1>7, <1>8

LEMMA HandlerRegisters ==
  ASSUME RelayInv, NEW w \in Workers, HandlerStep(w) PROVE RegisteredWhileHandled' /\ Unmade'
<1> USE DEF Goto, serveVars
<1>1. CASE OnNewStream(w)
  BY <1>1, HandlerGoesOn DEF OnNewStream
<1>2. CASE Handshake(w)
  BY <1>2, HandlerGoesOn DEF Handshake
<1>3. CASE Control(w)
  BY <1>3, HandlerGoesOn DEF Control
<1>4. CASE HandlerTimeout(w)
  BY <1>4, HandlerGoesOn DEF HandlerTimeout
<1>5. CASE OpenStream(w)
  BY <1>5, HandlerGoesOn DEF OpenStream
<1>6. CASE PipeReturns(w)
  BY <1>6, HandlerGoesOn DEF PipeReturns
<1>7. CASE CloseSrc(w)
  BY <1>7, CloseUnregisters
<1> QED
  BY <1>1, <1>2, <1>3, <1>4, <1>5, <1>6, <1>7 DEF HandlerStep
-----------------------------------------------------------------------------
LEMMA NextInv == RelayInv /\ [Next]_vars => RelayInv'
<1> SUFFICES ASSUME RelayInv, [Next]_vars PROVE RelayInv'
  OBVIOUS
<1>1. TypeOK
  BY DEF RelayInv
<1>2. ASSUME NEW a \in Addrs, Receive(a) PROVE RelayInv'
  BY <1>1, <1>2, ReceiveType, ReceiveRegisters DEF RelayInv
<1>3. CASE Insert \/ ServeEnds \/ InputClose \/ SetOnNewStream
  <2>1. UNCHANGED Registration
    BY <1>3 DEF Insert, ServeEnds, InputClose, SetOnNewStream, Registration, serveVars
  <2> QED
    BY <1>1, <1>3, <2>1, ServeType, SameRegistration DEF RelayInv
<1>4. ASSUME NEW w \in Workers, HandlerStep(w) PROVE RelayInv'
  BY <1>1, <1>4, HandlerType, HandlerRegisters DEF RelayInv
<1>5. ASSUME NEW w \in Workers,
             UpStep(w) \/ DownReadFails(w) \/ DownWriteFails(w) \/ Monitor(w) \/ PeerChanges(w)
      PROVE  RelayInv'
  <2>1. UNCHANGED Registration
    BY <1>5 DEF UpStep, UpRead, UpTimeout, UpWrite, DownReadFails, DownWriteFails, Monitor,
                PeerChanges, Registration, serveVars
  <2> QED
    BY <1>1, <1>5, <2>1, PipeType, SameRegistration DEF RelayInv
<1>6. CASE UNCHANGED vars
  <2>1. UNCHANGED Registration
    BY <1>6 DEF vars, serveVars, Registration
  <2>2. TypeOK'
    BY <1>1, <1>6 DEF TypeOK, vars, inputVars, serveVars, pipeVars
  <2> QED
    BY <2>1, <2>2, SameRegistration DEF RelayInv
<1> QED
  BY <1>2, <1>3, <1>4, <1>5, <1>6 DEF Next, ServeStep

(* The inductive invariant holds in every behaviour.                       *)
THEOREM RelayInvariant == Spec => []RelayInv
  BY InitInv, NextInv, PTL DEF Spec

(* The UDP input keeps its types; in particular a queue never exceeds the  *)
(* capacity of bReaders, and the map names only workers that were made.    *)
THEOREM RelayTypeCorrect == Spec => []TypeOK
<1>1. RelayInv => TypeOK
  BY DEF RelayInv
<1> QED
  BY <1>1, RelayInvariant, PTL

(* Whatever the order in which clients send, streams end and workers are   *)
(* closed, a worker is in WorkerMap exactly while its handler is at work,  *)
(* although Del removes whatever worker the address has.                   *)
THEOREM RelayRegisteredWhileHandled == Spec => []RegisteredWhileHandled
<1>1. RelayInv => RegisteredWhileHandled
  BY DEF RelayInv
<1> QED
  BY <1>1, RelayInvariant, PTL
=============================================================================
