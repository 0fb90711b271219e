----------------------------- MODULE OutputPool -----------------------------
(***************************************************************************)
(* The output side of a tunnel in stream (multiplexed) mode: the pool of   *)
(* stream makers of tun/output.go and the container of one pool slot in    *)
(* tun/output_stream_maker_container.go.                                   *)
(*                                                                         *)
(* Output.Run dials one maker (a multiplexed connection) per slot and then *)
(* publishes the pool.  Each getStream call walks the pool from a shared   *)
(* round-robin counter; a slot without a usable maker gets a goroutine     *)
(* that dials until it succeeds or the output is closed, and the caller    *)
(* falls back to polling the pool for one second.  A failed OpenStream     *)
(* empties the caller's slot.  Close runs concurrently with all of it.     *)
(***************************************************************************)
EXTENDS Integers, FiniteSets, FiniteSetsExt

CONSTANTS
  PoolNum,     \* Output.poolNum, the number of slots (extend.MuxConn)
  HalfRange,   \* poolIdx ranges over -HalfRange .. HalfRange - 1; 2^31 in the code
  Conns,       \* identities of the connections the peer accepts
  NoConn,      \* the nil maker
  Callers,     \* goroutines that call getStream
  Business,    \* the callers of GetStream; the others ask for probe streams
  Testers,     \* the callers from BandwidthTest, in an HTTP handler
  Creators,    \* goroutines TryStartCreate may start (bounds the model)
  Runner,      \* the goroutine that executes Output.Run
  AutoExpire,  \* extend.AutoExpire > 0
  MaxCalls     \* getStream calls of each caller (bounds the model)

ASSUME PoolAssumption ==
  /\ PoolNum \in Nat \ {0}
  /\ HalfRange \in Nat \ {0}
  /\ NoConn \notin Conns
  /\ Business \subseteq Callers
  /\ Testers \subseteq Callers \ Business
  /\ Runner \notin Creators
  /\ AutoExpire \in BOOLEAN
  /\ MaxCalls \in [Callers -> Nat]

ASSUME FiniteAssumption == IsFiniteSet(Business)

VARIABLES
  conn,      \* conn[m]: is the connection behind maker m open at this end?
  (* The streamMakerContainers, by slot.                                   *)
  maker, creating, shut, expired,
  ready,     \* Output.makerPools has been assigned by Run
  (* The goroutines that dial: control state, slot and the maker in hand.  *)
  gpc, gslot, ghand,
  poolIdx,   \* Output.poolIdx
  (* The getStream calls: control state, loop variable, slot index, maker, *)
  (* has the wait timed out, and how many calls there have been.           *)
  pc, iter, idx, got, late, calls,
  (* Output.Close: control state (p.close > 0 unless "no") and loop index. *)
  closePC, closeAt,
  (* The quality tracker's openSuccessTotal, openFailureTotal and          *)
  (* activeStreams.                                                        *)
  success, failure, active

slotVars  == <<maker, creating, shut, expired>>
gorVars   == <<gpc, gslot, ghand>>
callVars  == <<pc, iter, idx, got, late, calls>>
closeVars == <<closePC, closeAt>>
quality   == <<success, failure, active>>
vars == <<conn, slotVars, ready, gorVars, poolIdx, callVars, closeVars, quality>>

-----------------------------------------------------------------------------
Slots == 0 .. PoolNum - 1
Gors  == Creators \cup {Runner}
Maker == Conns \cup {NoConn}

(* poolIdx is an atomic.Int32: Add wraps around.                           *)
Int32 == -HalfRange .. HalfRange - 1
Wrap(n) == IF n = HalfRange THEN -HalfRange ELSE n

(* Go's % truncates: the remainder has the sign of the dividend.           *)
GoRem(a, b) == IF a >= 0 THEN a % b ELSE -((-a) % b)

GorPC  == {"idle", "start", "dial", "check", "set", "exit"}
CallPC == {"idle", "load", "add", "get", "create", "wait", "scan", "open",
           "invalidate", "stream", "panic"}
ClosePC == {"no", "begun", "slots", "done"}

closed == closePC # "no"

(* The process is gone once a handler goroutine panics.                    *)
Panicked == \E c \in Callers : pc[c] = "panic"

(* Connections nobody refers to any more: a dial may reuse their names,    *)
(* and which of them it takes makes no difference.                         *)
FreeConns ==
  {m \in Conns : /\ ~conn[m]
                 /\ \A k \in Slots : maker[k] # m
                 /\ \A g \in Gors : ghand[g] # m
                 /\ \A c \in Callers : got[c] # m}
FreshConn == CHOOSE m \in FreeConns : TRUE
-----------------------------------------------------------------------------
(* The container operations.                                               *)

CloseConnForgotten(m) == conn         \* faulty variant: the old maker stays open
CloseConn(m) == IF m = NoConn THEN conn ELSE [conn EXCEPT ![m] = FALSE]

(* GetMaker: there is a maker, it is not closed and it has not expired.    *)
GetMakerOK(k) == /\ maker[k] # NoConn
                 /\ conn[maker[k]]
                 /\ ~expired[k]

(* SetMaker: closes the maker it replaces; SetMaker(nil) also clears the   *)
(* flag that keeps two creations of the slot apart.                        *)
SetMaker(k, m) ==
  /\ conn'     = CloseConn(maker[k])
  /\ maker'    = [maker EXCEPT ![k] = m]
  /\ expired'  = [expired EXCEPT ![k] = FALSE]
  /\ creating' = IF m = NoConn THEN [creating EXCEPT ![k] = FALSE] ELSE creating
  /\ UNCHANGED shut

(* Container Close: refuses new creations and closes the maker.            *)
ContainerClose(k) ==
  /\ shut'  = [shut EXCEPT ![k] = TRUE]
  /\ conn'  = CloseConn(maker[k])
  /\ maker' = [maker EXCEPT ![k] = NoConn]
  /\ UNCHANGED <<creating, expired>>
-----------------------------------------------------------------------------
Init ==
  /\ conn     = [m \in Conns |-> FALSE]
  /\ maker    = [k \in Slots |-> NoConn]
  /\ creating = [k \in Slots |-> FALSE]
  /\ shut     = [k \in Slots |-> FALSE]
  /\ expired  = [k \in Slots |-> FALSE]
  /\ ready    = FALSE
  /\ gpc      = [g \in Gors |-> IF g = Runner THEN "dial" ELSE "idle"]
  /\ gslot    = [g \in Gors |-> 0]
  /\ ghand    = [g \in Gors |-> NoConn]
  /\ poolIdx  = 0
  /\ pc       = [c \in Callers |-> "idle"]
  /\ iter     = [c \in Callers |-> 0]
  /\ idx      = [c \in Callers |-> 0]
  /\ got      = [c \in Callers |-> NoConn]
  /\ late     = [c \in Callers |-> FALSE]
  /\ calls    = [c \in Callers |-> 0]
  /\ closePC  = "no"
  /\ closeAt  = 0
  /\ success  = 0
  /\ failure  = 0
  /\ active   = 0
-----------------------------------------------------------------------------
(* Dialling goroutines: waitCreateStreamMaker, run by Output.Run and by    *)
(* the goroutines of TryStartCreate.                                       *)
GGoto(g, p) == gpc' = [gpc EXCEPT ![g] = p]

(* TryStartCreate's goroutine looks at closed once, before it dials.       *)
CreatorStart(g) ==
  /\ gpc[g] = "start"
  /\ GGoto(g, IF shut[gslot[g]] THEN "exit" ELSE "dial")
  /\ UNCHANGED <<conn, slotVars, ready, gslot, ghand, poolIdx, callVars, closeVars, quality>>

(* makeStreamMaker succeeds; Output.close is not looked at on this path.   *)
DialOK(g) ==
  /\ gpc[g] = "dial"
  /\ FreeConns # {}
  /\ GGoto(g, "set")
  /\ conn' = [conn EXCEPT ![FreshConn] = TRUE]
  /\ ghand' = [ghand EXCEPT ![g] = FreshConn]
  /\ UNCHANGED <<slotVars, ready, gslot, poolIdx, callVars, closeVars, quality>>

DialFail(g) ==
  /\ gpc[g] = "dial"
  /\ GGoto(g, "check")
  /\ UNCHANGED <<conn, slotVars, ready, gslot, ghand, poolIdx, callVars, closeVars, quality>>

(* Faulty variant of RetryCheck: redials for ever.                         *)
RetryCheckAlways(g) ==
  /\ gpc[g] = "check"
  /\ GGoto(g, "dial")
  /\ UNCHANGED <<conn, slotVars, ready, gslot, ghand, poolIdx, callVars, closeVars, quality>>

(* Only a failed dial looks at Output.close: give up, or sleep and retry.  *)
RetryCheck(g) ==
  /\ gpc[g] = "check"
  /\ GGoto(g, IF closed THEN "set" ELSE "dial")
  /\ UNCHANGED <<conn, slotVars, ready, gslot, ghand, poolIdx, callVars, closeVars, quality>>

(* Faulty variant of CreatorSet: drops the new maker.                      *)
CreatorSetDropped(g) ==
  /\ g # Runner
  /\ gpc[g] = "set"
  /\ GGoto(g, "exit")
  /\ ghand' = [ghand EXCEPT ![g] = NoConn]
  /\ UNCHANGED <<conn, slotVars, ready, gslot, poolIdx, callVars, closeVars, quality>>

(* A creator hands its result, nil included, to the slot's container.      *)
CreatorSet(g) ==
  /\ g # Runner
  /\ gpc[g] = "set"
  /\ SetMaker(gslot[g], ghand[g])
  /\ GGoto(g, "exit")
  /\ ghand' = [ghand EXCEPT ![g] = NoConn]
  /\ UNCHANGED <<ready, gslot, poolIdx, callVars, closeVars, quality>>

(* Faulty variant of CreatorExit: the flag is not cleared.                 *)
CreatorExitSticky(g) ==
  /\ gpc[g] = "exit"
  /\ GGoto(g, "idle")
  /\ gslot' = [gslot EXCEPT ![g] = 0]
  /\ UNCHANGED <<conn, slotVars, ready, ghand, poolIdx, callVars, closeVars, quality>>

(* The deferred store of 0 to creating.                                    *)
CreatorExit(g) ==
  /\ gpc[g] = "exit"
  /\ creating' = [creating EXCEPT ![gslot[g]] = FALSE]
  /\ GGoto(g, "idle")
  /\ gslot' = [gslot EXCEPT ![g] = 0]
  /\ UNCHANGED <<conn, maker, shut, expired, ready, ghand, poolIdx, callVars, closeVars, quality>>

(* Output.Run fills the slots in order and then publishes the pool.        *)
RunSet ==
  /\ gpc[Runner] = "set"
  /\ SetMaker(gslot[Runner], ghand[Runner])
  /\ ghand' = [ghand EXCEPT ![Runner] = NoConn]
  /\ \/ /\ gslot[Runner] = PoolNum - 1
        /\ GGoto(Runner, "idle")
        /\ ready' = TRUE
        /\ UNCHANGED gslot
     \/ /\ gslot[Runner] # PoolNum - 1
        /\ GGoto(Runner, "dial")
        /\ gslot' = [gslot EXCEPT ![Runner] = @ + 1]
        /\ UNCHANGED ready
  /\ UNCHANGED <<poolIdx, callVars, closeVars, quality>>
-----------------------------------------------------------------------------
(* getStream.                                                              *)
Goto(c, p) == pc' = [pc EXCEPT ![c] = p]

(* The input side and the prober run only after Output.Run has returned;   *)
(* a bandwidth test may come while it still dials.                         *)
Call(c) ==
  /\ ready \/ c \in Testers
  /\ pc[c] = "idle"
  /\ calls[c] < MaxCalls[c]
  /\ calls' = [calls EXCEPT ![c] = @ + 1]
  /\ Goto(c, "load")
  /\ UNCHANGED <<conn, slotVars, ready, gorVars, poolIdx, iter, idx, got, late, closeVars, quality>>

(* getStreamMaker reads the counter and increments it in two operations.   *)
LoadIdx(c) ==
  /\ pc[c] = "load"
  /\ idx' = [idx EXCEPT ![c] = GoRem(poolIdx, PoolNum)]
  /\ Goto(c, "add")
  /\ UNCHANGED <<conn, slotVars, ready, gorVars, poolIdx, iter, got, late, calls, closeVars, quality>>

AddIdx(c) ==
  /\ pc[c] = "add"
  /\ poolIdx' = Wrap(poolIdx + 1)
  /\ Goto(c, "get")
  /\ UNCHANGED <<conn, slotVars, ready, gorVars, iter, idx, got, late, calls, closeVars, quality>>

(* makerPools[idx].GetMaker(); indexing panics when idx is no slot, and    *)
(* while makerPools is still nil.                                          *)
IdxPanics(c) == ~ready \/ idx[c] \notin Slots

GetMaker(c) ==
  /\ pc[c] = "get"
  /\ \/ /\ IdxPanics(c)
        /\ c \notin Testers
        /\ Goto(c, "panic")
        /\ UNCHANGED got
     \/ /\ ~IdxPanics(c)
        /\ GetMakerOK(idx[c])
        /\ Goto(c, "open")
        /\ got' = [got EXCEPT ![c] = maker[idx[c]]]
     \/ /\ ~IdxPanics(c)
        /\ ~GetMakerOK(idx[c])
        /\ Goto(c, "create")
        /\ UNCHANGED got
  /\ UNCHANGED <<conn, slotVars, ready, gorVars, poolIdx, iter, idx, late, calls, closeVars, quality>>

(* A new goroutine: any that does not run.                                 *)
IdleCreators == {g \in Creators : gpc[g] = "idle"}
NewCreator == CHOOSE g \in IdleCreators : TRUE

(* TryStartCreate: compare-and-swap of creating, then a goroutine.  The    *)
(* loop goes on to the next slot, or to the wait.                          *)
StartCreator(k) ==
  /\ IdleCreators # {}
  /\ creating' = [creating EXCEPT ![k] = TRUE]
  /\ GGoto(NewCreator, "start")
  /\ gslot' = [gslot EXCEPT ![NewCreator] = k]

TryStartCreate(c) ==
  /\ pc[c] = "create"
  /\ \/ /\ shut[idx[c]] \/ creating[idx[c]]
        /\ UNCHANGED <<creating, gpc, gslot>>
     \/ /\ ~shut[idx[c]]
        /\ ~creating[idx[c]]
        /\ StartCreator(idx[c])
  /\ \/ /\ iter[c] = PoolNum - 1
        /\ Goto(c, "wait")
        /\ UNCHANGED iter
     \/ /\ iter[c] # PoolNum - 1
        /\ Goto(c, "load")
        /\ iter' = [iter EXCEPT ![c] = @ + 1]
  /\ UNCHANGED <<conn, maker, shut, expired, ready, ghand, poolIdx, idx, got, late, calls,
                 closeVars, quality>>

(* The second of waitStreamMakerCreated elapses.                           *)
Timer(c) ==
  /\ pc[c] \in {"wait", "scan"}
  /\ ~late[c]
  /\ late' = [late EXCEPT ![c] = TRUE]
  /\ UNCHANGED <<conn, slotVars, ready, gorVars, poolIdx, pc, iter, idx, got, calls, closeVars, quality>>

(* What getStream reports to the quality tracker, for business calls only. *)
One(c) == IF c \in Business THEN 1 ELSE 0
RecordFailure(c) == /\ failure' = failure + One(c)
                    /\ UNCHANGED <<success, active>>
RecordOpen(c)    == /\ success' = success + One(c)
                    /\ active' = active + One(c)
                    /\ UNCHANGED failure
RecordClose(c)   == /\ active' = active - One(c)
                    /\ UNCHANGED <<success, failure>>

Return(c) ==
  /\ Goto(c, "idle")
  /\ iter' = [iter EXCEPT ![c] = 0]
  /\ idx'  = [idx EXCEPT ![c] = 0]
  /\ got'  = [got EXCEPT ![c] = NoConn]
  /\ late' = [late EXCEPT ![c] = FALSE]
  /\ UNCHANGED calls

(* net/http recovers from the panic of a handler; the test has failed.     *)
TestPanics(c) ==
  /\ pc[c] = "get"
  /\ IdxPanics(c)
  /\ c \in Testers
  /\ Return(c)
  /\ UNCHANGED <<conn, slotVars, ready, gorVars, poolIdx, closeVars, quality>>

(* Faulty variant of WaitGiveUp: the wait has no timeout.                  *)
WaitGiveUpClosedOnly(c) ==
  /\ pc[c] = "wait"
  /\ closed
  /\ RecordFailure(c)
  /\ Return(c)
  /\ UNCHANGED <<conn, slotVars, ready, gorVars, poolIdx, closeVars>>

(* The top of the polling loop: timeout, then closed, then another scan.   *)
WaitGiveUp(c) ==
  /\ pc[c] = "wait"
  /\ late[c] \/ closed
  /\ RecordFailure(c)
  /\ Return(c)
  /\ UNCHANGED <<conn, slotVars, ready, gorVars, poolIdx, closeVars>>

WaitRescan(c) ==
  /\ pc[c] = "wait"
  /\ ~late[c]
  /\ ~closed
  /\ idx' = [idx EXCEPT ![c] = 0]
  /\ Goto(c, "scan")
  /\ UNCHANGED <<conn, slotVars, ready, gorVars, poolIdx, iter, got, late, calls, closeVars, quality>>

WaitScan(c) ==
  /\ pc[c] = "scan"
  /\ \/ /\ GetMakerOK(idx[c])
        /\ got' = [got EXCEPT ![c] = maker[idx[c]]]
        /\ Goto(c, "open")
        /\ UNCHANGED idx
     \/ /\ ~GetMakerOK(idx[c])
        /\ idx[c] # PoolNum - 1
        /\ idx' = [idx EXCEPT ![c] = @ + 1]
        /\ UNCHANGED <<pc, got>>
     \/ /\ ~GetMakerOK(idx[c])
        /\ idx[c] = PoolNum - 1
        /\ Goto(c, "wait")
        /\ UNCHANGED <<idx, got>>
  /\ UNCHANGED <<conn, slotVars, ready, gorVars, poolIdx, iter, late, calls, closeVars, quality>>

OpenStreamOK(c) ==
  /\ pc[c] = "open"
  /\ conn[got[c]]
  /\ Goto(c, "stream")
  /\ got' = [got EXCEPT ![c] = NoConn]
  /\ RecordOpen(c)
  /\ UNCHANGED <<conn, slotVars, ready, gorVars, poolIdx, iter, idx, late, calls, closeVars>>

(* A closed connection always fails, an open one may.                      *)
OpenStreamFail(c) ==
  /\ pc[c] = "open"
  /\ Goto(c, "invalidate")
  /\ got' = [got EXCEPT ![c] = NoConn]
  /\ UNCHANGED <<conn, slotVars, ready, gorVars, poolIdx, iter, idx, late, calls, closeVars, quality>>

(* Faulty variant of InvalidateMaker: the failure is not recorded.         *)
InvalidateMakerSilent(c) ==
  /\ pc[c] = "invalidate"
  /\ SetMaker(idx[c], NoConn)
  /\ Return(c)
  /\ UNCHANGED <<ready, gorVars, poolIdx, closeVars, quality>>

(* invalidateMaker empties the slot, whatever maker it holds by now.       *)
InvalidateMaker(c) ==
  /\ pc[c] = "invalidate"
  /\ SetMaker(idx[c], NoConn)
  /\ RecordFailure(c)
  /\ Return(c)
  /\ UNCHANGED <<ready, gorVars, poolIdx, closeVars>>

(* qualityStream.Close, by the handler that got the stream.                *)
StreamClose(c) ==
  /\ pc[c] = "stream"
  /\ RecordClose(c)
  /\ Return(c)
  /\ UNCHANGED <<conn, slotVars, ready, gorVars, poolIdx, closeVars>>
-----------------------------------------------------------------------------
(* Output.Close: set the flag, then close the containers published so far. *)
CloseBegin ==
  /\ closePC = "no"
  /\ closePC' = "begun"
  /\ UNCHANGED <<conn, slotVars, ready, gorVars, poolIdx, callVars, closeAt, quality>>

CloseRange ==
  /\ closePC = "begun"
  /\ closePC' = IF ready THEN "slots" ELSE "done"
  /\ UNCHANGED <<conn, slotVars, ready, gorVars, poolIdx, callVars, closeAt, quality>>

CloseSlot ==
  /\ closePC = "slots"
  /\ ContainerClose(closeAt)
  /\ \/ /\ closeAt = PoolNum - 1
        /\ closePC' = "done"
        /\ UNCHANGED closeAt
     \/ /\ closeAt # PoolNum - 1
        /\ closeAt' = closeAt + 1
        /\ UNCHANGED closePC
  /\ UNCHANGED <<ready, gorVars, poolIdx, callVars, quality>>
-----------------------------------------------------------------------------
(* The environment: a connection breaks, a maker outlives autoExpire.      *)
Break(m) ==
  /\ conn[m]
  /\ conn' = [conn EXCEPT ![m] = FALSE]
  /\ UNCHANGED <<slotVars, ready, gorVars, poolIdx, callVars, closeVars, quality>>

Expire(k) ==
  /\ AutoExpire
  /\ maker[k] # NoConn
  /\ ~expired[k]
  /\ expired' = [expired EXCEPT ![k] = TRUE]
  /\ UNCHANGED <<conn, maker, creating, shut, ready, gorVars, poolIdx, callVars, closeVars, quality>>
-----------------------------------------------------------------------------
GorStep(g) == \/ CreatorStart(g)
              \/ DialOK(g)
              \/ DialFail(g)
              \/ RetryCheck(g)
              \/ CreatorSet(g)
              \/ CreatorExit(g)

CallStep(c) == \/ LoadIdx(c)
               \/ AddIdx(c)
               \/ GetMaker(c)
               \/ TestPanics(c)
               \/ TryStartCreate(c)
               \/ WaitGiveUp(c)
               \/ WaitRescan(c)
               \/ WaitScan(c)
               \/ OpenStreamOK(c)
               \/ OpenStreamFail(c)
               \/ InvalidateMaker(c)

CloseStep == CloseRange \/ CloseSlot

Step == \/ \E g \in Gors : GorStep(g)
        \/ RunSet
        \/ \E c \in Callers : Call(c)
        \/ \E c \in Callers : CallStep(c)
        \/ \E c \in Callers : Timer(c)
        \/ \E c \in Callers : StreamClose(c)
        \/ CloseBegin
        \/ CloseStep
        \/ \E m \in Conns : Break(m)
        \/ \E k \in Slots : Expire(k)

Next == ~Panicked /\ Step

Spec == Init /\ [][Next]_vars

(***************************************************************************)
(* Fairness.  Every goroutine that can run is eventually scheduled, a dial *)
(* returns one way or the other and the clock advances.  No fairness on    *)
(* Call, CloseBegin, StreamClose, Break and Expire: they are up to the     *)
(* users and the network.                                                  *)
(***************************************************************************)
Fairness ==
  /\ \A g \in Gors : WF_vars(~Panicked /\ (GorStep(g) \/ (g = Runner /\ RunSet)))
  /\ \A c \in Callers : WF_vars(~Panicked /\ CallStep(c))
  /\ \A c \in Callers : WF_vars(~Panicked /\ Timer(c))
  /\ WF_vars(~Panicked /\ CloseStep)

(* A peer that is dialled again and again accepts in the end.              *)
PeerReachable == \A g \in Creators : SF_vars(~Panicked /\ DialOK(g))

FairSpec == Spec /\ Fairness
-----------------------------------------------------------------------------
(* The type invariant of the pool's state.                                 *)
TypeOK ==
  /\ conn \in [Conns -> BOOLEAN]
  /\ maker \in [Slots -> Maker]
  /\ creating \in [Slots -> BOOLEAN]
  /\ shut \in [Slots -> BOOLEAN]
  /\ expired \in [Slots -> BOOLEAN]
  /\ ready \in BOOLEAN
  /\ gpc \in [Gors -> GorPC]
  /\ gslot \in [Gors -> Slots]
  /\ ghand \in [Gors -> Maker]
  /\ poolIdx \in Int32
  /\ pc \in [Callers -> CallPC]
  /\ iter \in [Callers -> Slots]
  /\ idx \in [Callers -> Int]
  /\ got \in [Callers -> Maker]
  /\ late \in [Callers -> BOOLEAN]
  /\ calls \in [Callers -> Nat]
  /\ closePC \in ClosePC
  /\ closeAt \in Slots
  /\ success \in Int /\ failure \in Int /\ active \in Int

(* A caller that goes on to use its slot index has checked it.             *)
IdxOK == \A c \in Callers :
  pc[c] \in {"create", "scan", "open", "invalidate"} => idx[c] \in Slots

(* No connection is lost or shared: an open connection is held by exactly  *)
(* one slot, or by exactly one goroutine that is about to hand it to its   *)
(* slot.  SetMaker relies on it when it closes the maker it replaces: two  *)
(* creators of one slot, an invalidation in between and a concurrent Close *)
(* must neither leave a connection open that nobody will ever close nor    *)
(* let one of them close what another one uses.  (That two slots do not    *)
(* close each other's connection, SlotsApart, is for pools of several      *)
(* slots, which the theorem PoolHoldsConnsOnce covers.)                    *)
OpenConnsHeld ==
  \A m \in Conns : conn[m] => \/ \E k \in Slots : maker[k] = m
                              \/ \E g \in Gors : ghand[g] = m
SlotsApart ==
  \A j, k \in Slots : maker[j] # NoConn /\ maker[j] = maker[k] => j = k
HandsApart ==
  \A g, h \in Gors : ghand[g] # NoConn /\ ghand[g] = ghand[h] => g = h
HandsNotInSlots ==
  \A g \in Gors, k \in Slots : ghand[g] # NoConn => ghand[g] # maker[k]
ConnHeldOnce == OpenConnsHeld /\ SlotsApart /\ HandsApart /\ HandsNotInSlots

(* The flag that blocks further creations of a slot is never left behind:  *)
(* while creating is set some creator goroutine still works for the slot,  *)
(* so that TryStartCreate cannot refuse the slot for ever.                 *)
CreatingHasCreator ==
  \A k \in Slots : creating[k] =>
    \E g \in Creators : gslot[g] = k /\ gpc[g] # "idle"

(* The quality tracker's totals: every business call that has returned is  *)
(* counted once, as a success or as a failure, on each of the four ways    *)
(* out of getStream, and activeStreams is the number of streams in use.    *)
InFlight(c) == pc[c] \notin {"idle", "stream"}
Total(f, S) == MapThenSumSet(LAMBDA c : f[c], S)
QualityBooks ==
  /\ success + failure = Total(calls, Business)
                           - Cardinality({c \in Business : InFlight(c)})
  /\ active = Cardinality({c \in Business : pc[c] = "stream"})

(* Every getStream call returns: the polling loop ends by a maker, by the  *)
(* one-second timeout or by Close, even when no dial ever succeeds.  (Again*)
(* and again the caller is not in a call: InFlight(c) ~> ~InFlight(c).)    *)
CallReturns == \A c \in Callers : []<>(~InFlight(c) \/ Panicked)

(* Close ends the redial loops: a dialling goroutine of a closed output    *)
(* stops again and again, even when the peer never answers.                *)
CloseStopsDialling ==
  \A g \in Gors : []<>(~closed \/ gpc[g] = "idle" \/ Panicked)

(* A slot for which a creator works gets another maker than the dead,      *)
(* expired or missing one it has, unless the output is closed, if the peer *)
(* accepts a persistent dialler: a creator stops working for a slot only   *)
(* as the slot's maker changes, and again and again it has stopped.        *)
Creating(g) == gpc[g] \in {"start", "dial", "check", "set"}
StopsWhenRefilled(g) ==
  Creating(g) /\ ~Creating(g)' => maker'[gslot[g]] # maker[gslot[g]] \/ closed
SlotRefilled ==
  /\ [][\A g \in Creators : StopsWhenRefilled(g)]_vars
  /\ PeerReachable => \A g \in Creators : []<>(~Creating(g) \/ closed \/ Panicked)
-----------------------------------------------------------------------------
(* Claims of the code's comments that the code does not keep.              *)

(* output.go:272-273 says concurrent callers never start a second creation *)
(* goroutine for a slot.                                                   *)
SingleCreator ==
  \A g, h \in Creators : Creating(g) /\ Creating(h) /\ gslot[g] = gslot[h] => g = h
=============================================================================
