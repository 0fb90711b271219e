-------------------------- MODULE OutputPoolProofs --------------------------
(***************************************************************************)
(* Proofs about OutputPool, for every pool size, every number of callers,  *)
(* creator goroutines and connections, and every width of the counter.     *)
(***************************************************************************)
EXTENDS OutputPool, FiniteSetTheorems, NaturalsInduction, TLAPS

(* A hand-over in progress is the only time a goroutine holds a maker.     *)
HandOver == \A g \in Gors : ghand[g] # NoConn => gpc[g] = "set"

(* The inductive invariant.                                                *)
TypeInv == TypeOK /\ IdxOK
HoldInv == HandOver /\ ConnHeldOnce

-----------------------------------------------------------------------------
(* GoRem is integer valued, whatever the sign of the counter.              *)
LEMMA GoRemInt == ASSUME NEW a \in Int, NEW b \in Nat \ {0}
                  PROVE  GoRem(a, b) \in Int
  BY DEF GoRem

(* A constant function has the type of its value.                          *)
LEMMA ConstantFunction == ASSUME NEW S, NEW T, NEW v \in T
                          PROVE  [s \in S |-> v] \in [S -> T]
  OBVIOUS

(* A slot that is not the last one has a successor.                        *)
LEMMA NextSlot == ASSUME NEW n \in Slots, n # PoolNum - 1
                  PROVE  n + 1 \in Slots
  BY PoolAssumption DEF Slots

(* SetMaker and ContainerClose keep the types of the containers.           *)
SlotTypeOK == /\ conn \in [Conns -> BOOLEAN]
              /\ maker \in [Slots -> Maker]
              /\ creating \in [Slots -> BOOLEAN]
              /\ shut \in [Slots -> BOOLEAN]
              /\ expired \in [Slots -> BOOLEAN]

LEMMA SetMakerType ==
  ASSUME SlotTypeOK, NEW k \in Slots, NEW m \in Maker, SetMaker(k, m)
  PROVE  SlotTypeOK'
  BY DEF SetMaker, CloseConn, SlotTypeOK

LEMMA ContainerCloseType ==
  ASSUME SlotTypeOK, NEW k \in Slots, ContainerClose(k)
  PROVE  SlotTypeOK'
  BY DEF ContainerClose, CloseConn, SlotTypeOK, Maker

(* The names chosen for a new connection and for a new goroutine are free. *)
LEMMA FreshConnFree == FreeConns # {} => FreshConn \in FreeConns
  BY DEF FreshConn

LEMMA NewCreatorIdle == IdleCreators # {} => NewCreator \in Creators /\ gpc[NewCreator] = "idle"
  <1>1. IdleCreators # {} => NewCreator \in IdleCreators
    BY DEF NewCreator
  <1> QED
    BY <1>1 DEF IdleCreators

(* The initial state satisfies the type invariant.                         *)
LEMMA InitType == Init => TypeInv
  <1> SUFFICES ASSUME Init PROVE TypeInv
    OBVIOUS
  <1> USE PoolAssumption DEF Init
  <1>1. 0 \in Slots /\ 0 \in Int32 /\ NoConn \in Maker
    BY DEF Slots, Int32, Maker
  <1>2. gpc \in [Gors -> GorPC] /\ pc \in [Callers -> CallPC] /\ closePC \in ClosePC
    BY DEF GorPC, CallPC, ClosePC
  <1>3. idx \in [Callers -> Int] /\ calls \in [Callers -> Nat]
    OBVIOUS
  <1>4. /\ maker \in [Slots -> Maker] /\ ghand \in [Gors -> Maker]
        /\ got \in [Callers -> Maker] /\ gslot \in [Gors -> Slots]
        /\ iter \in [Callers -> Slots]
    BY <1>1, ConstantFunction
  <1>5. /\ conn \in [Conns -> BOOLEAN] /\ creating \in [Slots -> BOOLEAN]
        /\ shut \in [Slots -> BOOLEAN] /\ expired \in [Slots -> BOOLEAN]
        /\ late \in [Callers -> BOOLEAN] /\ ready \in BOOLEAN
    OBVIOUS
  <1>6. poolIdx \in Int32 /\ closeAt \in Slots
    BY <1>1
  <1>7. success \in Int /\ failure \in Int /\ active \in Int
    OBVIOUS
  <1>8. IdxOK
    BY DEF IdxOK
  <1> HIDE DEF Init
  <1> QED
    BY <1>2, <1>3, <1>4, <1>5, <1>6, <1>7, <1>8 DEF TypeInv, TypeOK

(* Every step of the pool keeps the type invariant.                        *)
LEMMA StepType == TypeInv /\ [Next]_vars => TypeInv'
  <1> SUFFICES ASSUME TypeInv, [Next]_vars PROVE TypeInv'
    OBVIOUS
  <1> USE PoolAssumption DEF TypeInv, TypeOK, IdxOK
  <1>a. 0 \in Slots /\ NoConn \in Maker /\ Creators \subseteq Gors /\ Runner \in Gors
    BY DEF Slots, Maker, Gors
  <1>b. SlotTypeOK
    BY DEF SlotTypeOK
  <1>c. Slots \subseteq Int
    BY DEF Slots
  <1>1. ASSUME NEW g \in Gors, CreatorStart(g) PROVE TypeInv'
    BY <1>1, <1>a, <1>c DEF CreatorStart, slotVars, callVars, closeVars, quality, GGoto, GorPC
  <1>2. ASSUME NEW g \in Gors, DialOK(g) PROVE TypeInv'
    <2>1. PICK m \in Conns : conn' = [conn EXCEPT ![m] = TRUE] /\ ghand' = [ghand EXCEPT ![g] = m]
      BY <1>2, FreshConnFree DEF DialOK, FreeConns
    <2> QED
      BY <1>2, <2>1, <1>a, <1>c DEF DialOK, slotVars, callVars, closeVars, quality, GGoto, GorPC, Maker
  <1>3. ASSUME NEW g \in Gors, DialFail(g) PROVE TypeInv'
    BY <1>3, <1>a, <1>c DEF DialFail, slotVars, callVars, closeVars, quality, GGoto, GorPC
  <1>4. ASSUME NEW g \in Gors, RetryCheck(g) PROVE TypeInv'
    BY <1>4, <1>a, <1>c DEF RetryCheck, slotVars, callVars, closeVars, quality, GGoto, GorPC
  <1>5. ASSUME NEW g \in Gors, CreatorSet(g) PROVE TypeInv'
    <2>1. gslot[g] \in Slots /\ ghand[g] \in Maker
      BY <1>5, <1>a DEF CreatorSet
    <2>2. SlotTypeOK'
      BY <1>5, <1>a, <1>b, <2>1, SetMakerType DEF CreatorSet
    <2> QED
      BY <1>5, <1>a, <1>c, <2>1, <2>2 DEF SlotTypeOK, CreatorSet, callVars, closeVars, quality, GGoto, GorPC
  <1>6. ASSUME NEW g \in Gors, CreatorExit(g) PROVE TypeInv'
    BY <1>6, <1>a, <1>c DEF CreatorExit, callVars, closeVars, quality, GGoto, GorPC
  <1>7. CASE RunSet
    <2>1. gslot[Runner] \in Slots /\ ghand[Runner] \in Maker
      BY <1>7, <1>a DEF RunSet
    <2>2. SlotTypeOK'
      BY <1>7, <1>a, <1>b, <2>1, SetMakerType DEF RunSet
    <2> QED
      <3>1. gslot' \in [Gors -> Slots]
        <4>1. gslot[Runner] # PoolNum - 1 => gslot[Runner] + 1 \in Slots
          BY <2>1, NextSlot
        <4>2. CASE UNCHANGED gslot
          BY <4>2
        <4>3. ASSUME gslot[Runner] # PoolNum - 1, gslot' = [gslot EXCEPT ![Runner] = @ + 1]
              PROVE  gslot' \in [Gors -> Slots]
          BY <4>1, <4>3, <1>a
        <4> QED
          BY <1>7, <4>2, <4>3 DEF RunSet
      <3> QED
        BY <1>7, <1>a, <2>2, <3>1
        DEF SlotTypeOK, RunSet, callVars, closeVars, quality, GGoto, GorPC
  <1>8. ASSUME NEW c \in Callers, Call(c) PROVE TypeInv'
    BY <1>8, <1>a, <1>c DEF Call, slotVars, gorVars, closeVars, quality, Goto, CallPC
  <1>9. ASSUME NEW c \in Callers, LoadIdx(c) PROVE TypeInv'
    <2>1. GoRem(poolIdx, PoolNum) \in Int
      BY GoRemInt DEF Int32
    <2> QED
      BY <1>9, <2>1 DEF LoadIdx, slotVars, gorVars, closeVars, quality, Goto, CallPC
  <1>10. ASSUME NEW c \in Callers, AddIdx(c) PROVE TypeInv'
    <2>1. poolIdx' \in Int32
      BY <1>10 DEF AddIdx, Wrap, Int32
    <2> QED
      BY <1>10, <2>1 DEF AddIdx, slotVars, gorVars, closeVars, quality, Goto, CallPC
  <1>11. ASSUME NEW c \in Callers, GetMaker(c) PROVE TypeInv'
    BY <1>11, <1>a, <1>c DEF GetMaker, IdxPanics, slotVars, gorVars, closeVars, quality, Goto, CallPC
  <1>12. ASSUME NEW c \in Callers, TryStartCreate(c) PROVE TypeInv'
    <2>1. idx[c] \in Slots
      BY <1>12 DEF TryStartCreate
    <2>2. iter[c] # PoolNum - 1 => iter[c] + 1 \in Slots
      BY DEF Slots
    <2>3. /\ creating' \in [Slots -> BOOLEAN]
          /\ gpc' \in [Gors -> GorPC]
          /\ gslot' \in [Gors -> Slots]
      <3>1. CASE UNCHANGED <<creating, gpc, gslot>>
        BY <3>1
      <3>2. CASE StartCreator(idx[c])
        <4>1. PICK g \in Creators : /\ gpc' = [gpc EXCEPT ![g] = "start"]
                                    /\ gslot' = [gslot EXCEPT ![g] = idx[c]]
          BY <3>2, NewCreatorIdle DEF StartCreator, GGoto
        <4>2. creating' = [creating EXCEPT ![idx[c]] = TRUE]
          BY <3>2 DEF StartCreator
        <4> QED
          BY <4>1, <4>2, <1>a, <2>1 DEF GorPC
      <3> QED
        BY <1>12, <3>1, <3>2 DEF TryStartCreate
    <2>4. /\ pc' \in [Callers -> CallPC]
          /\ iter' \in [Callers -> Slots]
          /\ IdxOK'
      <3>1. CASE iter[c] = PoolNum - 1
        BY <1>12, <3>1 DEF TryStartCreate, Goto, CallPC
      <3>2. ASSUME iter[c] # PoolNum - 1, NEW n \in Slots, n = iter[c] + 1
            PROVE  pc' \in [Callers -> CallPC] /\ iter' \in [Callers -> Slots] /\ IdxOK'
        <4>1. iter' = [iter EXCEPT ![c] = n] /\ pc' = [pc EXCEPT ![c] = "load"]
          BY <1>12, <3>2 DEF TryStartCreate, Goto
        <4> QED
          BY <1>12, <4>1 DEF TryStartCreate, CallPC
      <3> QED
        BY <2>2, <3>1, <3>2
    <2> QED
      BY <1>12, <2>3, <2>4 DEF TryStartCreate, closeVars, quality
  <1>13. ASSUME NEW c \in Callers, Timer(c) PROVE TypeInv'
    BY <1>13, <1>a, <1>c DEF Timer, slotVars, gorVars, closeVars, quality
  <1>14. ASSUME NEW c \in Callers, WaitGiveUp(c) PROVE TypeInv'
    BY <1>14, <1>a, <1>c
      DEF WaitGiveUp, slotVars, gorVars, closeVars, quality, RecordFailure, One, Return, Goto, CallPC
  <1>15. ASSUME NEW c \in Callers, WaitRescan(c) PROVE TypeInv'
    BY <1>15, <1>a, <1>c DEF WaitRescan, slotVars, gorVars, closeVars, quality, Goto, CallPC
  <1>16. ASSUME NEW c \in Callers, WaitScan(c) PROVE TypeInv'
    <2>1. idx[c] \in Slots
      BY <1>16 DEF WaitScan
    <2>2. idx[c] # PoolNum - 1 => idx[c] + 1 \in Slots
      BY <2>1 DEF Slots
    <2> QED
      BY <1>16, <1>c, <2>1, <2>2
      DEF WaitScan, slotVars, gorVars, closeVars, quality, Goto, CallPC
  <1>17. ASSUME NEW c \in Callers, OpenStreamOK(c) PROVE TypeInv'
    BY <1>17, <1>a, <1>c DEF OpenStreamOK, slotVars, gorVars, closeVars, RecordOpen, One, Goto, CallPC
  <1>18. ASSUME NEW c \in Callers, OpenStreamFail(c) PROVE TypeInv'
    BY <1>18, <1>a, <1>c DEF OpenStreamFail, slotVars, gorVars, closeVars, quality, Goto, CallPC
  <1>19. ASSUME NEW c \in Callers, InvalidateMaker(c) PROVE TypeInv'
    <2>1. idx[c] \in Slots
      BY <1>19, <1>a DEF InvalidateMaker
    <2>2. SlotTypeOK'
      BY <1>19, <1>a, <1>b, <2>1, SetMakerType DEF InvalidateMaker
    <2> QED
      BY <1>19, <1>a, <1>c, <2>1, <2>2
      DEF SlotTypeOK, InvalidateMaker, gorVars, closeVars, RecordFailure, One, Return, Goto, CallPC
  <1>20. ASSUME NEW c \in Callers, StreamClose(c) PROVE TypeInv'
    BY <1>20, <1>a, <1>c DEF StreamClose, slotVars, gorVars, closeVars, RecordClose, One, Return, Goto, CallPC
  <1>21. CASE CloseBegin
    BY <1>21, <1>a, <1>c DEF CloseBegin, slotVars, gorVars, callVars, quality, ClosePC
  <1>22. CASE CloseRange
    BY <1>22, <1>a, <1>c DEF CloseRange, slotVars, gorVars, callVars, quality, ClosePC
  <1>23. CASE CloseSlot
    <2>1. closeAt \in Slots
      BY <1>23, <1>a DEF CloseSlot
    <2>2. SlotTypeOK'
      BY <1>23, <1>a, <1>b, <2>1, ContainerCloseType DEF CloseSlot
    <2> QED
      BY <1>23, <1>a, <1>c, <2>1, <2>2 DEF SlotTypeOK, CloseSlot, gorVars, callVars, quality, ClosePC, Slots
  <1>24. ASSUME NEW m \in Conns, Break(m) PROVE TypeInv'
    BY <1>24, <1>a, <1>c DEF Break, slotVars, gorVars, callVars, closeVars, quality
  <1>25. ASSUME NEW k \in Slots, Expire(k) PROVE TypeInv'
    BY <1>25, <1>a, <1>c DEF Expire, gorVars, callVars, closeVars, quality
  <1>26. ASSUME NEW c \in Callers, TestPanics(c) PROVE TypeInv'
    BY <1>26, <1>a, <1>c DEF TestPanics, slotVars, gorVars, closeVars, quality, Return, Goto, CallPC
  <1>27. CASE UNCHANGED vars
    BY <1>27 DEF vars, slotVars, gorVars, callVars, closeVars, quality
  <1> QED
    BY <1>1, <1>2, <1>3, <1>4, <1>5, <1>6, <1>7, <1>8, <1>9, <1>10, <1>11, <1>12, <1>13,
       <1>14, <1>15, <1>16, <1>17, <1>18, <1>19, <1>20, <1>21, <1>22, <1>23, <1>24, <1>25, <1>26, <1>27
    DEF Next, Step, GorStep, CallStep, CloseStep

(* Type correctness, and every index a caller uses after the bounds check  *)
(* is one of the pool's slots.                                             *)
LEMMA AlwaysTypeInv == Spec => []TypeInv
  BY InitType, StepType, PTL DEF Spec

THEOREM PoolTypeCorrect == Spec => []TypeOK
  <1>1. TypeInv => TypeOK
    BY DEF TypeInv
  <1> QED
    BY <1>1, AlwaysTypeInv, PTL
-----------------------------------------------------------------------------
(* Where the connections are.  Emptying a slot closes the connection it    *)
(* held, which nobody else holds.                                          *)
LEMMA EmptySlotHolds ==
  ASSUME TypeOK, HoldInv, NEW k \in Slots,
         conn' = CloseConn(maker[k]),
         maker' = [maker EXCEPT ![k] = NoConn],
         UNCHANGED <<gpc, ghand>>
  PROVE  HoldInv'
  <1> USE DEF TypeOK, HoldInv, HandOver, ConnHeldOnce
  <1>1. OpenConnsHeld'
    BY DEF OpenConnsHeld, CloseConn, Maker
  <1>2. SlotsApart' /\ HandsApart' /\ HandsNotInSlots'
    BY DEF SlotsApart, HandsApart, HandsNotInSlots
  <1> QED
    BY <1>1, <1>2

(* A goroutine that hands its maker to a slot gives up its own hold.       *)
LEMMA HandOverHolds ==
  ASSUME TypeOK, HoldInv, NEW k \in Slots, NEW g \in Gors,
         conn' = CloseConn(maker[k]),
         maker' = [maker EXCEPT ![k] = ghand[g]],
         ghand' = [ghand EXCEPT ![g] = NoConn],
         \A h \in Gors \ {g} : gpc'[h] = gpc[h]
  PROVE  HoldInv'
  <1> USE DEF TypeOK, HoldInv, ConnHeldOnce
  <1>1. OpenConnsHeld'
    BY DEF OpenConnsHeld, HandsNotInSlots, CloseConn, Maker
  <1>2. SlotsApart'
    BY DEF SlotsApart, HandsNotInSlots
  <1>3. HandsApart' /\ HandsNotInSlots'
    BY DEF HandsApart, HandsNotInSlots
  <1>4. HandOver'
    BY DEF HandOver
  <1> QED
    BY <1>1, <1>2, <1>3, <1>4

(* Steps that leave the connections where they are.                        *)
LEMMA HeldUnchanged ==
  ASSUME HoldInv, UNCHANGED <<conn, maker, ghand>>, HandOver'
  PROVE  HoldInv'
  BY DEF HoldInv, ConnHeldOnce, OpenConnsHeld, SlotsApart, HandsApart, HandsNotInSlots

LEMMA InitHolds == Init => HoldInv
  BY PoolAssumption
  DEF Init, HoldInv, HandOver, ConnHeldOnce, OpenConnsHeld, SlotsApart, HandsApart,
      HandsNotInSlots

LEMMA StepHolds == TypeInv /\ HoldInv /\ [Next]_vars => HoldInv'
  <1> SUFFICES ASSUME TypeOK, IdxOK, HoldInv, [Next]_vars PROVE HoldInv'
    BY DEF TypeInv
  <1>a. HandOver
    BY DEF HoldInv
  <1>b. gpc \in [Gors -> GorPC] /\ ghand \in [Gors -> Maker] /\ gslot \in [Gors -> Slots]
    BY DEF TypeOK
  <1>c. Runner \in Gors /\ Creators \subseteq Gors
    BY DEF Gors
  <1>1. ASSUME NEW g \in Gors, CreatorStart(g) \/ DialFail(g) \/ RetryCheck(g) \/ CreatorExit(g)
        PROVE  HoldInv'
    <2>1. HandOver'
      BY <1>1, <1>a, <1>b DEF CreatorStart, DialFail, RetryCheck, CreatorExit, GGoto, HandOver
    <2>2. UNCHANGED <<conn, maker, ghand>>
      BY <1>1 DEF CreatorStart, DialFail, RetryCheck, CreatorExit, slotVars
    <2> QED
      BY <2>1, <2>2, HeldUnchanged
  <1>2. ASSUME NEW g \in Gors, DialOK(g) PROVE HoldInv'
    <2>1. PICK m \in FreeConns : conn' = [conn EXCEPT ![m] = TRUE]
                                /\ ghand' = [ghand EXCEPT ![g] = m]
      BY <1>2, FreshConnFree DEF DialOK
    <2>2. gpc[g] = "dial" /\ gpc' = [gpc EXCEPT ![g] = "set"] /\ UNCHANGED maker
      BY <1>2 DEF DialOK, GGoto, slotVars
    <2>3. ghand[g] = NoConn
      BY <2>2, <1>a DEF HandOver
    <2>4. m \in Conns /\ ~conn[m] /\ (\A k \in Slots : maker[k] # m)
          /\ (\A h \in Gors : ghand[h] # m)
      BY <2>1 DEF FreeConns
    <2>5. OpenConnsHeld'
      BY <2>1, <2>2, <2>3, <2>4, PoolAssumption DEF HoldInv, ConnHeldOnce, OpenConnsHeld, TypeOK
    <2>6. SlotsApart' /\ HandsApart' /\ HandsNotInSlots'
      BY <2>1, <2>2, <2>4, <1>b
      DEF HoldInv, ConnHeldOnce, SlotsApart, HandsApart, HandsNotInSlots
    <2>7. HandOver'
      BY <2>1, <2>2, <1>a, <1>b DEF HandOver
    <2> QED
      BY <2>5, <2>6, <2>7 DEF HoldInv, ConnHeldOnce
  <1>3. ASSUME NEW g \in Gors, CreatorSet(g) PROVE HoldInv'
    <2>1. gpc' = [gpc EXCEPT ![g] = "exit"] /\ ghand' = [ghand EXCEPT ![g] = NoConn]
      BY <1>3 DEF CreatorSet, GGoto
    <2>2. gslot[g] \in Slots /\ SetMaker(gslot[g], ghand[g])
      BY <1>3, <1>b DEF CreatorSet
    <2> QED
      BY <2>1, <2>2, <1>b, HandOverHolds DEF SetMaker
  <1>4. CASE RunSet
    <2>1. /\ ghand' = [ghand EXCEPT ![Runner] = NoConn]
          /\ \E p \in GorPC : gpc' = [gpc EXCEPT ![Runner] = p]
      BY <1>4 DEF RunSet, GGoto, GorPC
    <2>2. gslot[Runner] \in Slots /\ SetMaker(gslot[Runner], ghand[Runner])
      BY <1>4, <1>b, <1>c DEF RunSet
    <2> QED
      BY <2>1, <2>2, <1>b, <1>c, HandOverHolds DEF SetMaker
  <1>5. ASSUME NEW c \in Callers, InvalidateMaker(c) PROVE HoldInv'
    <2>1. idx[c] \in Slots /\ SetMaker(idx[c], NoConn) /\ UNCHANGED <<gpc, ghand>>
      BY <1>5 DEF InvalidateMaker, IdxOK, gorVars
    <2> QED
      BY <2>1, EmptySlotHolds DEF SetMaker
  <1>6. CASE CloseSlot
    <2>1. closeAt \in Slots /\ ContainerClose(closeAt) /\ UNCHANGED <<gpc, ghand>>
      BY <1>6 DEF CloseSlot, TypeOK, gorVars
    <2> QED
      BY <2>1, EmptySlotHolds DEF ContainerClose
  <1>7. ASSUME NEW m \in Conns, Break(m) PROVE HoldInv'
    BY <1>7 DEF Break, slotVars, gorVars, TypeOK, HoldInv, HandOver, ConnHeldOnce,
                OpenConnsHeld, SlotsApart, HandsApart, HandsNotInSlots
  <1>8. ASSUME NEW c \in Callers, TryStartCreate(c) PROVE HoldInv'
    <2>1. UNCHANGED <<conn, maker, ghand>>
      BY <1>8 DEF TryStartCreate
    <2>2. HandOver'
      BY <1>8, <1>a, <1>b, <1>c, <2>1, NewCreatorIdle DEF TryStartCreate, StartCreator, GGoto, HandOver
    <2> QED
      BY <2>1, <2>2, HeldUnchanged
  <1>9. CASE UNCHANGED <<conn, maker, ghand, gpc>>
    BY <1>9, <1>a, HeldUnchanged DEF HandOver
  <1>10. ASSUME NEW c \in Callers,
                \/ Call(c) \/ LoadIdx(c) \/ AddIdx(c) \/ GetMaker(c) \/ Timer(c)
                \/ WaitGiveUp(c) \/ WaitRescan(c) \/ WaitScan(c) \/ OpenStreamOK(c)
                \/ OpenStreamFail(c) \/ StreamClose(c) \/ TestPanics(c)
         PROVE  UNCHANGED <<conn, maker, ghand, gpc>>
    BY <1>10 DEF Call, LoadIdx, AddIdx, GetMaker, Timer, WaitGiveUp, WaitRescan, WaitScan,
                 OpenStreamOK, OpenStreamFail, StreamClose, TestPanics, slotVars, gorVars
  <1>11. ASSUME NEW k \in Slots, CloseBegin \/ CloseRange \/ Expire(k)
         PROVE  UNCHANGED <<conn, maker, ghand, gpc>>
    BY <1>11 DEF CloseBegin, CloseRange, Expire, slotVars, gorVars
  <1>12. CASE UNCHANGED vars
    BY <1>12, <1>9 DEF vars, slotVars, gorVars
  <1>13. \E k \in Slots : TRUE
    BY PoolAssumption DEF Slots
  <1> QED
    BY <1>1, <1>2, <1>3, <1>4, <1>5, <1>6, <1>7, <1>8, <1>9, <1>10, <1>11, <1>12, <1>13
    DEF Next, Step, GorStep, CallStep, CloseStep

(* No connection is lost or shared, however many callers, creators and     *)
(* slots there are: ConnHeldOnce is inductive together with the fact that  *)
(* only a goroutine about to call SetMaker holds a maker.                  *)
THEOREM PoolHoldsConnsOnce == Spec => []ConnHeldOnce
  <1>1. Spec => []HoldInv
    BY AlwaysTypeInv, InitHolds, StepHolds, PTL DEF Spec
  <1>2. HoldInv => ConnHeldOnce
    BY DEF HoldInv
  <1> QED
    BY <1>1, <1>2, PTL
-----------------------------------------------------------------------------
(* The creating flag of a slot and the goroutine that works for it.        *)

(* Steps that touch neither the flags, unless to clear one, nor a          *)
(* goroutine's slot, and make no creator idle.                             *)
LEMMA CreatorsKept ==
  ASSUME TypeOK, CreatingHasCreator,
         \A k \in Slots : creating'[k] => creating[k],
         \A g \in Creators : gslot'[g] = gslot[g] /\ (gpc[g] # "idle" => gpc'[g] # "idle")
  PROVE  CreatingHasCreator'
  BY DEF CreatingHasCreator

LEMMA StepCreating == TypeInv /\ CreatingHasCreator /\ [Next]_vars => CreatingHasCreator'
  <1> SUFFICES ASSUME TypeOK, IdxOK, CreatingHasCreator, [Next]_vars
               PROVE  CreatingHasCreator'
    BY DEF TypeInv
  <1>a. /\ gpc \in [Gors -> GorPC] /\ gslot \in [Gors -> Slots]
        /\ creating \in [Slots -> BOOLEAN]
    BY DEF TypeOK
  <1>b. Creators \subseteq Gors /\ Runner \in Gors /\ Runner \notin Creators
    BY PoolAssumption DEF Gors
  <1>1. ASSUME NEW g \in Gors, CreatorStart(g) \/ DialOK(g) \/ DialFail(g) \/ RetryCheck(g)
        PROVE  CreatingHasCreator'
    <2>1. UNCHANGED <<creating, gslot>>
      BY <1>1 DEF CreatorStart, DialOK, DialFail, RetryCheck, slotVars
    <2>2. \E p \in GorPC \ {"idle"} : gpc' = [gpc EXCEPT ![g] = p]
      BY <1>1 DEF CreatorStart, DialOK, DialFail, RetryCheck, GGoto, GorPC
    <2> QED
      BY <2>1, <2>2, <1>a, <1>b, CreatorsKept
  <1>2. ASSUME NEW g \in Gors, CreatorSet(g) PROVE CreatingHasCreator'
    <2>1. gpc' = [gpc EXCEPT ![g] = "exit"] /\ UNCHANGED gslot
      BY <1>2 DEF CreatorSet, GGoto
    <2>2. \A k \in Slots : creating'[k] => creating[k]
      BY <1>2, <1>a DEF CreatorSet, SetMaker
    <2> QED
      BY <2>1, <2>2, <1>a, <1>b, CreatorsKept
  <1>3. ASSUME NEW g \in Gors, CreatorExit(g) PROVE CreatingHasCreator'
    <2>1. /\ creating' = [creating EXCEPT ![gslot[g]] = FALSE]
          /\ gpc' = [gpc EXCEPT ![g] = "idle"]
          /\ gslot' = [gslot EXCEPT ![g] = 0]
      BY <1>3 DEF CreatorExit, GGoto
    <2>2. ASSUME NEW k \in Slots, creating'[k]
          PROVE  \E h \in Creators : gslot'[h] = k /\ gpc'[h] # "idle"
      <3>1. k # gslot[g] /\ creating[k]
        BY <2>1, <2>2, <1>a
      <3>2. PICK h \in Creators : gslot[h] = k /\ gpc[h] # "idle"
        BY <3>1 DEF CreatingHasCreator
      <3> QED
        BY <3>1, <3>2, <2>1, <1>a, <1>b
    <2> QED
      BY <2>2 DEF CreatingHasCreator
  <1>4. CASE RunSet
    <2>1. \A k \in Slots : creating'[k] => creating[k]
      BY <1>4, <1>a DEF RunSet, SetMaker
    <2>2. \A h \in Creators : gslot'[h] = gslot[h] /\ gpc'[h] = gpc[h]
      BY <1>4, <1>a, <1>b DEF RunSet, GGoto
    <2> QED
      BY <2>1, <2>2, CreatorsKept
  <1>5. ASSUME NEW c \in Callers, InvalidateMaker(c) PROVE CreatingHasCreator'
    <2>1. \A k \in Slots : creating'[k] => creating[k]
      BY <1>5, <1>a DEF InvalidateMaker, SetMaker
    <2>2. UNCHANGED <<gslot, gpc>>
      BY <1>5 DEF InvalidateMaker, gorVars
    <2> QED
      BY <2>1, <2>2, CreatorsKept
  <1>6. ASSUME NEW c \in Callers, TryStartCreate(c) PROVE CreatingHasCreator'
    <2>1. CASE UNCHANGED <<creating, gpc, gslot>>
      BY <2>1, CreatorsKept
    <2>2. CASE StartCreator(idx[c])
      <3>1. PICK g \in Creators : /\ gpc[g] = "idle"
                                  /\ gpc' = [gpc EXCEPT ![g] = "start"]
                                  /\ gslot' = [gslot EXCEPT ![g] = idx[c]]
        BY <2>2, NewCreatorIdle DEF StartCreator, GGoto
      <3>2. creating' = [creating EXCEPT ![idx[c]] = TRUE]
        BY <2>2 DEF StartCreator
      <3>3. ASSUME NEW k \in Slots, creating'[k]
            PROVE  \E h \in Creators : gslot'[h] = k /\ gpc'[h] # "idle"
        <4>1. CASE k = idx[c]
          BY <4>1, <3>1, <1>a, <1>b
        <4>2. CASE k # idx[c]
          <5>1. creating[k]
            BY <4>2, <3>2, <3>3, <1>a
          <5>2. PICK h \in Creators : gslot[h] = k /\ gpc[h] # "idle"
            BY <5>1 DEF CreatingHasCreator
          <5> QED
            BY <5>2, <3>1, <1>a, <1>b
        <4> QED
          BY <4>1, <4>2
      <3> QED
        BY <3>3 DEF CreatingHasCreator
    <2> QED
      BY <1>6, <2>1, <2>2 DEF TryStartCreate
  <1>7. CASE UNCHANGED <<creating, gpc, gslot>>
    BY <1>7, CreatorsKept
  <1>8. ASSUME NEW c \in Callers,
               \/ Call(c) \/ LoadIdx(c) \/ AddIdx(c) \/ GetMaker(c) \/ Timer(c)
               \/ WaitGiveUp(c) \/ WaitRescan(c) \/ WaitScan(c) \/ OpenStreamOK(c)
               \/ OpenStreamFail(c) \/ StreamClose(c) \/ TestPanics(c)
        PROVE  UNCHANGED <<creating, gpc, gslot>>
    BY <1>8 DEF Call, LoadIdx, AddIdx, GetMaker, Timer, WaitGiveUp, WaitRescan, WaitScan,
                OpenStreamOK, OpenStreamFail, StreamClose, TestPanics, slotVars, gorVars
  <1>9. CASE CloseBegin \/ CloseRange \/ CloseSlot
    BY <1>9, <1>7 DEF CloseBegin, CloseRange, CloseSlot, ContainerClose, slotVars, gorVars
  <1>10. ASSUME NEW k \in Slots, Expire(k) PROVE UNCHANGED <<creating, gpc, gslot>>
    BY <1>10 DEF Expire, gorVars
  <1>11. ASSUME NEW m \in Conns, Break(m) PROVE UNCHANGED <<creating, gpc, gslot>>
    BY <1>11 DEF Break, slotVars, gorVars
  <1>12. CASE UNCHANGED vars
    BY <1>12, <1>7 DEF vars, slotVars, gorVars
  <1> QED
    BY <1>1, <1>2, <1>3, <1>4, <1>5, <1>6, <1>7, <1>8, <1>9, <1>10, <1>11, <1>12
    DEF Next, Step, GorStep, CallStep, CloseStep

(* The flag that makes TryStartCreate refuse a slot is set only while a    *)
(* goroutine works for that slot, in spite of SetMaker(nil) clearing it    *)
(* under a creator's feet and of two creators sharing a slot.              *)
THEOREM PoolCreatingHasCreator == Spec => []CreatingHasCreator
  <1>1. Init => CreatingHasCreator
    BY DEF Init, CreatingHasCreator
  <1> QED
    BY <1>1, AlwaysTypeInv, StepCreating, PTL DEF Spec
-----------------------------------------------------------------------------
(* A goroutine without a maker to hand over, and a slot that refuses new   *)
(* creations, are there only after Close has begun.                        *)
NilAfterClose ==
  /\ \A g \in Gors : gpc[g] = "set" /\ ghand[g] = NoConn => closed
  /\ \A k \in Slots : shut[k] => closed

LEMMA InitNil == Init => NilAfterClose
  BY PoolAssumption DEF Init, NilAfterClose, closed, Gors

LEMMA StepNil == TypeInv /\ NilAfterClose /\ [Next]_vars => NilAfterClose'
  <1> SUFFICES ASSUME TypeOK, NilAfterClose, [Next]_vars PROVE NilAfterClose'
    BY DEF TypeInv
  <1>a. /\ gpc \in [Gors -> GorPC] /\ ghand \in [Gors -> Maker] /\ shut \in [Slots -> BOOLEAN]
        /\ closeAt \in Slots /\ Creators \subseteq Gors /\ Runner \in Gors
    BY DEF TypeOK, Gors
  <1>k. closed => closed'
    BY DEF closed, Next, Step, GorStep, CallStep, CloseStep, CreatorStart, DialOK, DialFail,
           RetryCheck, CreatorSet, CreatorExit, RunSet, Call, LoadIdx, AddIdx, GetMaker,
           TestPanics, TryStartCreate, Timer, WaitGiveUp, WaitRescan, WaitScan, OpenStreamOK,
           OpenStreamFail, InvalidateMaker, StreamClose, CloseBegin, CloseRange, CloseSlot,
           Break, Expire, vars, closeVars
  \* What a step leaves alone: it brings no goroutine to "set" without a maker and shuts no slot.
  <1>1. ASSUME \A g \in Gors : gpc'[g] = "set" /\ ghand'[g] = NoConn
                                 => (gpc[g] = "set" /\ ghand[g] = NoConn) \/ closed,
               \A k \in Slots : shut'[k] => shut[k] \/ closed
        PROVE  NilAfterClose'
    BY <1>1, <1>k DEF NilAfterClose
  <1>2. ASSUME NEW g \in Gors, DialOK(g) PROVE NilAfterClose'
    <2>1. ghand' = [ghand EXCEPT ![g] = FreshConn] /\ FreshConn # NoConn
      BY <1>2, FreshConnFree, PoolAssumption DEF DialOK, FreeConns
    <2> QED
      BY <1>1, <1>2, <2>1, <1>a DEF DialOK, GGoto, slotVars
  <1>3. ASSUME NEW g \in Gors,
               CreatorStart(g) \/ DialFail(g) \/ RetryCheck(g) \/ CreatorSet(g) \/ CreatorExit(g)
        PROVE  NilAfterClose'
    BY <1>1, <1>3, <1>a
    DEF CreatorStart, DialFail, RetryCheck, CreatorSet, SetMaker, CreatorExit, GGoto, slotVars
  <1>4. CASE RunSet
    BY <1>1, <1>4, <1>a DEF RunSet, SetMaker, GGoto
  <1>5. ASSUME NEW c \in Callers, TryStartCreate(c) PROVE NilAfterClose'
    <2>1. \A g \in Gors : gpc'[g] = "set" => gpc[g] = "set"
      BY <1>5, <1>a, NewCreatorIdle DEF TryStartCreate, StartCreator, GGoto
    <2> QED
      BY <1>1, <1>5, <2>1 DEF TryStartCreate
  <1>6. ASSUME NEW c \in Callers,
               \/ Call(c) \/ LoadIdx(c) \/ AddIdx(c) \/ GetMaker(c) \/ Timer(c)
               \/ WaitGiveUp(c) \/ WaitRescan(c) \/ WaitScan(c) \/ OpenStreamOK(c)
               \/ OpenStreamFail(c) \/ InvalidateMaker(c) \/ StreamClose(c) \/ TestPanics(c)
        PROVE  UNCHANGED <<gpc, ghand, shut>>
    BY <1>6 DEF Call, LoadIdx, AddIdx, GetMaker, Timer, WaitGiveUp, WaitRescan, WaitScan,
                OpenStreamOK, OpenStreamFail, InvalidateMaker, SetMaker, StreamClose, TestPanics,
                slotVars, gorVars
  <1>7. CASE CloseBegin \/ CloseRange
    BY <1>1, <1>7 DEF CloseBegin, CloseRange, slotVars, gorVars
  <1>8. CASE CloseSlot
    <2>1. closed
      BY <1>8 DEF CloseSlot, closed
    <2> QED
      BY <1>1, <2>1
  <1>9. ASSUME NEW k \in Slots, Expire(k) PROVE UNCHANGED <<gpc, ghand, shut>>
    BY <1>9 DEF Expire, gorVars
  <1>10. ASSUME NEW m \in Conns, Break(m) PROVE UNCHANGED <<gpc, ghand, shut>>
    BY <1>10 DEF Break, slotVars, gorVars
  <1>11. CASE UNCHANGED vars
    BY <1>1, <1>11 DEF vars, slotVars, gorVars
  <1>12. CASE UNCHANGED <<gpc, ghand, shut>>
    BY <1>1, <1>12
  <1> QED
    BY <1>2, <1>3, <1>4, <1>5, <1>6, <1>7, <1>8, <1>9, <1>10, <1>11, <1>12
    DEF Next, Step, GorStep, CallStep, CloseStep

(* A creator stops working for a slot only as the slot's maker changes, or *)
(* after Close has begun: it never ends with the dead maker still in the   *)
(* slot, although invalidations, other creators and broken connections     *)
(* come between its dial and its SetMaker.                                 *)
THEOREM PoolStopsWhenRefilled == Spec => [][\A g \in Creators : StopsWhenRefilled(g)]_vars
  <1>1. TypeInv /\ HoldInv /\ NilAfterClose /\ [Next]_vars
          => [\A g \in Creators : StopsWhenRefilled(g)]_vars
    <2> SUFFICES ASSUME TypeOK, HoldInv, NilAfterClose, Next, NEW g \in Creators,
                        Creating(g), ~Creating(g)', ~closed
                 PROVE  maker'[gslot[g]] # maker[gslot[g]]
      BY DEF TypeInv, StopsWhenRefilled
    <2>a. /\ gpc \in [Gors -> GorPC] /\ gslot \in [Gors -> Slots] /\ ghand \in [Gors -> Maker]
          /\ maker \in [Slots -> Maker] /\ shut \in [Slots -> BOOLEAN]
          /\ g \in Gors /\ Runner \in Gors /\ Runner \notin Creators
      BY PoolAssumption DEF TypeOK, Gors
    <2>1. gpc[g] \in {"start", "dial", "check", "set"} /\ gpc'[g] \notin {"start", "dial", "check", "set"}
      BY DEF Creating
    <2>2. ASSUME NEW h \in Gors, GorStep(h) PROVE h = g
      BY <2>1, <2>2, <2>a
      DEF GorStep, CreatorStart, DialOK, DialFail, RetryCheck, CreatorSet, CreatorExit, GGoto
    <2>3. CASE CreatorSet(g)
      <3>1. ghand[g] # NoConn /\ gslot[g] \in Slots
        BY <2>3, <2>a DEF CreatorSet, NilAfterClose
      <3>2. ghand[g] # maker[gslot[g]]
        BY <3>1, <2>a DEF HoldInv, ConnHeldOnce, HandsNotInSlots
      <3> QED
        BY <2>3, <3>1, <3>2, <2>a DEF CreatorSet, SetMaker
    <2>4. ASSUME GorStep(g), ~CreatorSet(g) PROVE FALSE
      <3>1. ~shut[gslot[g]]
        BY <2>a DEF NilAfterClose
      <3> QED
        BY <2>1, <2>4, <3>1, <2>a
        DEF GorStep, CreatorStart, DialOK, DialFail, RetryCheck, CreatorExit, GGoto
    <2>5. ~RunSet
      BY <2>1, <2>a DEF RunSet, GGoto
    <2>6. ASSUME NEW c \in Callers, TryStartCreate(c) PROVE FALSE
      BY <2>1, <2>6, <2>a, NewCreatorIdle DEF TryStartCreate, StartCreator, GGoto
    <2>7. gpc' # gpc
      BY <2>1
    <2>8. ASSUME NEW c \in Callers, CallStep(c) \/ Call(c) \/ Timer(c) \/ StreamClose(c),
                 ~TryStartCreate(c)
          PROVE  UNCHANGED gpc
      BY <2>8 DEF CallStep, Call, LoadIdx, AddIdx, GetMaker, Timer, WaitGiveUp, WaitRescan,
                  WaitScan, OpenStreamOK, OpenStreamFail, InvalidateMaker, StreamClose,
                  TestPanics, gorVars
    <2>9. CASE CloseBegin \/ CloseStep
      BY <2>7, <2>9 DEF CloseBegin, CloseStep, CloseRange, CloseSlot, gorVars
    <2>10. ASSUME NEW m \in Conns, Break(m) PROVE UNCHANGED gpc
      BY <2>10 DEF Break, gorVars
    <2>11. ASSUME NEW k \in Slots, Expire(k) PROVE UNCHANGED gpc
      BY <2>11 DEF Expire, gorVars
    <2> QED
      BY <2>2, <2>3, <2>4, <2>5, <2>6, <2>7, <2>8, <2>9, <2>10, <2>11 DEF Next, Step
  <1>2. Spec => []HoldInv
    BY AlwaysTypeInv, InitHolds, StepHolds, PTL DEF Spec
  <1>3. Spec => []NilAfterClose
    BY AlwaysTypeInv, InitNil, StepNil, PTL DEF Spec
  <1> QED
    BY <1>1, <1>2, <1>3, AlwaysTypeInv, PTL DEF Spec
-----------------------------------------------------------------------------
(***************************************************************************)
(* The books of the quality tracker.  Their total is a fold over the       *)
(* callers, which the provers know as the solution of a recursive          *)
(* equation; induction over subsets is stated with a set in place of a     *)
(* predicate and rests on the well-foundedness of the natural numbers.     *)
(***************************************************************************)
Pick(s) == CHOOSE x \in s : TRUE
SumOf(g, f, s) == IF s = {} THEN 0 ELSE f[Pick(s)] + g[s \ {Pick(s)}]
Sums(f, B) == CHOOSE g : g = [s \in SUBSET B |-> SumOf(g, f, s)]

(* What the fold over the callers is for the provers.                      *)
LEMMA TotalIsSum ==
  ASSUME NEW f, NEW B
  PROVE  Total(f, B) = Sums(f, B)[B]
  BY DEF Total, MapThenSumSet, MapThenFoldSet, Sums, SumOf, Pick

(* A set of numbers has a least member.                                    *)
LEMMA MinExists ==
  ASSUME NEW T, T \subseteq Nat, T # {}
  PROVE  \E x \in T : \A y \in T : x <= y
  <1>1. PICK x \in T : \A y \in T : ~ (<<y, x>> \in OpToRel(<, Nat))
    BY NatLessThanWellFounded, WFMin
  <1>2. \A y \in T : ~(y < x)
    BY <1>1 DEF OpToRel
  <1> QED
    BY <1>2

(* A subset of a finite set without its picked element is smaller by one.  *)
LEMMA PickSmaller ==
  ASSUME NEW B, IsFiniteSet(B), NEW s \in SUBSET B
  PROVE  /\ Cardinality(s) \in Nat
         /\ Cardinality(s) = 0 <=> s = {}
         /\ s # {} => /\ Pick(s) \in s /\ Pick(s) \in B
                      /\ s \ {Pick(s)} \in SUBSET B
                      /\ Cardinality(s \ {Pick(s)}) = Cardinality(s) - 1
  <1>1. IsFiniteSet(s)
    BY FS_Subset
  <1>2. s # {} => Pick(s) \in s
    BY DEF Pick
  <1> QED
    BY <1>1, <1>2, FS_CardinalityType, FS_EmptySet, FS_RemoveElement

(* What holds of the empty set, and of a set when it holds of the set      *)
(* without its picked element, holds of all subsets of a finite set.       *)
LEMMA PickInduction ==
  ASSUME NEW B, IsFiniteSet(B), NEW Good, {} \in Good,
         \A s \in SUBSET B : s # {} /\ s \ {Pick(s)} \in Good => s \in Good
  PROVE  \A s \in SUBSET B : s \in Good
  <1> DEFINE Bad == {s \in SUBSET B : s \notin Good}
             T == {Cardinality(s) : s \in Bad}
  <1> SUFFICES ASSUME Bad # {} PROVE FALSE
    OBVIOUS
  <1>1. T \subseteq Nat /\ T # {}
    <2>1. \A s \in Bad : Cardinality(s) \in Nat
      BY PickSmaller
    <2> QED
      BY <2>1
  <1>2. PICK n \in T : \A m \in T : n <= m
    BY <1>1, MinExists
  <1>3. PICK s \in Bad : Cardinality(s) = n
    BY <1>2
  <1>4. s \in SUBSET B /\ s \notin Good /\ s # {}
    BY <1>3
  <1>5. s \ {Pick(s)} \in Bad
    BY <1>4, PickSmaller
  <1>6. Cardinality(s \ {Pick(s)}) \in T
    BY <1>5
  <1>7. Cardinality(s \ {Pick(s)}) = n - 1 /\ n \in Nat
    BY <1>3, <1>4, PickSmaller
  <1> QED
    BY <1>2, <1>6, <1>7

(* The recursive definition has a solution: the least number for which     *)
(* there is none for the sets of that size has a predecessor that has one. *)
LEMMA SumsExist ==
  ASSUME NEW B, IsFiniteSet(B), NEW f, \A x \in B : f[x] \in Int
  PROVE  \E g : g = [s \in SUBSET B |-> SumOf(g, f, s)]
  <1> DEFINE Small(n) == {s \in SUBSET B : Cardinality(s) <= n}
             Bad == {n \in Nat : ~ \E g \in [SUBSET B -> Int] :
                                     \A s \in Small(n) : g[s] = SumOf(g, f, s)}
  <1>1. Cardinality(B) \in Nat
    BY FS_CardinalityType
  <1>2. ASSUME Bad # {} PROVE FALSE
    <2>0. Bad \subseteq Nat
      OBVIOUS
    <2>1. PICK n \in Bad : \A m \in Bad : n <= m
      BY <1>2, <2>0, MinExists
    <2>2. n # 0
      <3> SUFFICES ASSUME n = 0 PROVE FALSE
        OBVIOUS
      <3> DEFINE g == [s \in SUBSET B |-> 0]
      <3>1. g \in [SUBSET B -> Int]
        OBVIOUS
      <3>2. ASSUME NEW s \in Small(0) PROVE g[s] = SumOf(g, f, s)
        <4>0. s \in SUBSET B /\ Cardinality(s) <= 0
          OBVIOUS
        <4>1. s = {}
          <5>1. Cardinality(s) \in Nat /\ (Cardinality(s) = 0 <=> s = {})
            BY <4>0, PickSmaller
          <5> QED
            BY <4>0, <5>1
        <4>2. g[{}] = 0
          <5>1. {} \in SUBSET B
            OBVIOUS
          <5> QED
            BY <5>1
        <4>3. SumOf(g, f, {}) = 0
          <5> HIDE DEF g
          <5> QED
            BY DEF SumOf
        <4> QED
          BY <4>1, <4>2, <4>3
      <3> QED
        BY <2>1, <3>1, <3>2
    <2>3. n \in Nat /\ n - 1 \in Nat /\ n - 1 \notin Bad
      <3> HIDE DEF Bad
      <3> QED
        BY <2>0, <2>1, <2>2
    <2>4. PICK g \in [SUBSET B -> Int] : \A s \in Small(n - 1) : g[s] = SumOf(g, f, s)
      BY <2>3
    <2> DEFINE h == [s \in SUBSET B |-> IF Cardinality(s) = n THEN SumOf(g, f, s) ELSE g[s]]
    <2>5. h \in [SUBSET B -> Int]
      <3>1. ASSUME NEW s \in SUBSET B PROVE SumOf(g, f, s) \in Int
        <4>1. CASE s = {}
          BY <4>1 DEF SumOf
        <4>2. CASE s # {}
          <5>1. f[Pick(s)] \in Int /\ g[s \ {Pick(s)}] \in Int
            BY <4>2, PickSmaller
          <5> QED
            BY <4>2, <5>1 DEF SumOf
        <4> QED
          BY <4>1, <4>2
      <3> QED
        BY <3>1
    <2>6. ASSUME NEW s \in Small(n) PROVE h[s] = SumOf(h, f, s)
      <3>1. s \in SUBSET B /\ Cardinality(s) \in Nat /\ Cardinality(s) <= n
        BY PickSmaller
      <3>2. h[s] = SumOf(g, f, s)
        <4>1. CASE Cardinality(s) = n
          BY <4>1, <3>1
        <4>2. CASE Cardinality(s) # n
          <5>1. s \in Small(n - 1)
            BY <4>2, <3>1, <2>3
          <5> QED
            BY <4>2, <3>1, <5>1, <2>4
        <4> QED
          BY <4>1, <4>2
      <3>3. CASE s = {}
        BY <3>2, <3>3 DEF SumOf
      <3>4. CASE s # {}
        <4>1. s \ {Pick(s)} \in SUBSET B /\ Cardinality(s \ {Pick(s)}) # n
          BY <3>1, <3>4, <2>3, PickSmaller
        <4>2. h[s \ {Pick(s)}] = g[s \ {Pick(s)}]
          BY <4>1
        <4> HIDE DEF h
        <4> QED
          BY <3>2, <3>4, <4>2 DEF SumOf
      <3> QED
        BY <3>3, <3>4
    <2> HIDE DEF h
    <2> QED
      BY <2>1, <2>5, <2>6
  <1>3. PICK g \in [SUBSET B -> Int] : \A s \in Small(Cardinality(B)) : g[s] = SumOf(g, f, s)
    BY <1>1, <1>2
  <1>4. \A s \in SUBSET B : s \in Small(Cardinality(B))
    BY FS_Subset
  <1>5. g = [s \in SUBSET B |-> SumOf(g, f, s)]
    BY <1>3, <1>4
  <1> QED
    BY <1>5

(* So the sum of a set is that of the rest and its picked element.         *)
LEMMA SumsEqual ==
  ASSUME NEW B, IsFiniteSet(B), NEW f, \A x \in B : f[x] \in Int,
         NEW s \in SUBSET B
  PROVE  Sums(f, B)[s] = SumOf(Sums(f, B), f, s)
  <1> DEFINE g == Sums(f, B)
  <1>1. g = [t \in SUBSET B |-> SumOf(g, f, t)]
    BY SumsExist DEF Sums
  <1> HIDE DEF g
  <1>2. g[s] = SumOf(g, f, s)
    BY <1>1
  <1> QED
    BY <1>2 DEF g

LEMMA SumsInt ==
  ASSUME NEW B, IsFiniteSet(B), NEW f, \A x \in B : f[x] \in Int
  PROVE  \A s \in SUBSET B : Sums(f, B)[s] \in Int
  <1> DEFINE g == Sums(f, B)
             Good == {s \in SUBSET B : g[s] \in Int}
  <1>1. \A s \in SUBSET B : g[s] = SumOf(g, f, s)
    BY SumsEqual
  <1> HIDE DEF g
  <1>2. {} \in Good
    <2>1. SumOf(g, f, {}) = 0 /\ {} \in SUBSET B
      BY DEF SumOf
    <2> QED
      BY <1>1, <2>1
  <1>3. ASSUME NEW s \in SUBSET B, s # {}, s \ {Pick(s)} \in Good PROVE s \in Good
    <2>1. g[s] = f[Pick(s)] + g[s \ {Pick(s)}] /\ Pick(s) \in B
      BY <1>1, <1>3, PickSmaller DEF SumOf
    <2> QED
      BY <2>1, <1>3
  <1>4. \A s \in SUBSET B : s \in Good
    <2> HIDE DEF Good
    <2> QED
      BY <1>2, <1>3, PickInduction
  <1> QED
    BY <1>4 DEF g

(* The total of a function that is zero, and what one change does to it.   *)
LEMMA TotalZero ==
  ASSUME NEW B, IsFiniteSet(B), NEW f, \A x \in B : f[x] = 0
  PROVE  Total(f, B) = 0
  <1> DEFINE g == Sums(f, B)
             Good == {s \in SUBSET B : g[s] = 0}
  <1>1. \A s \in SUBSET B : g[s] = SumOf(g, f, s)
    BY SumsEqual
  <1> HIDE DEF g
  <1>2. {} \in Good
    <2>1. SumOf(g, f, {}) = 0 /\ {} \in SUBSET B
      BY DEF SumOf
    <2> QED
      BY <1>1, <2>1
  <1>3. ASSUME NEW s \in SUBSET B, s # {}, s \ {Pick(s)} \in Good PROVE s \in Good
    <2>1. g[s] = f[Pick(s)] + g[s \ {Pick(s)}] /\ Pick(s) \in B
      BY <1>1, <1>3, PickSmaller DEF SumOf
    <2> QED
      BY <2>1, <1>3
  <1>4. \A s \in SUBSET B : s \in Good
    <2> HIDE DEF Good
    <2> QED
      BY <1>2, <1>3, PickInduction
  <1>5. g[B] = 0
    BY <1>4
  <1> QED
    BY <1>5, TotalIsSum DEF g

LEMMA TotalChange ==
  ASSUME NEW B, IsFiniteSet(B), NEW f, NEW h, NEW c, NEW d \in Int,
         \A x \in B : f[x] \in Int /\ h[x] = (IF x = c THEN f[x] + d ELSE f[x])
  PROVE  /\ Total(f, B) \in Int
         /\ Total(h, B) = (IF c \in B THEN Total(f, B) + d ELSE Total(f, B))
  <1> DEFINE F == Sums(f, B)
             H == Sums(h, B)
             Good == {s \in SUBSET B : H[s] = IF c \in s THEN F[s] + d ELSE F[s]}
  <1>1. \A x \in B : f[x] \in Int /\ h[x] \in Int
    OBVIOUS
  <1>2. \A s \in SUBSET B : F[s] = SumOf(F, f, s) /\ H[s] = SumOf(H, h, s) /\ F[s] \in Int
    BY <1>1, SumsEqual, SumsInt
  <1>0. Total(f, B) = F[B] /\ Total(h, B) = H[B]
    BY TotalIsSum
  <1> HIDE DEF F, H
  <1>3. {} \in Good
    BY <1>2 DEF SumOf
  <1>4. ASSUME NEW s \in SUBSET B, s # {}, s \ {Pick(s)} \in Good PROVE s \in Good
    <2> DEFINE x == Pick(s)
               r == s \ {x}
    <2>1. x \in s /\ x \in B /\ r \in SUBSET B
      BY <1>4, PickSmaller
    <2>2. F[s] = f[x] + F[r] /\ H[s] = h[x] + H[r] /\ F[r] \in Int /\ F[s] \in Int
      BY <1>2, <1>4, <2>1 DEF SumOf
    <2>3. H[r] = IF c \in r THEN F[r] + d ELSE F[r]
      BY <1>4
    <2>4. c \in s <=> (c \in r \/ c = x)
      BY <2>1
    <2>5. c \in r => c # x
      OBVIOUS
    <2>6. f[x] \in Int /\ h[x] = (IF x = c THEN f[x] + d ELSE f[x])
      BY <2>1
    <2> HIDE DEF x, r
    <2>7. H[s] = IF c \in s THEN F[s] + d ELSE F[s]
      BY <2>2, <2>3, <2>4, <2>5, <2>6
    <2> QED
      BY <2>7
  <1>5. \A s \in SUBSET B : s \in Good
    <2> HIDE DEF Good
    <2> QED
      BY <1>3, <1>4, PickInduction
  <1>6. B \in Good /\ F[B] \in Int
    BY <1>2, <1>5
  <1> QED
    BY <1>0, <1>6

(* How a set of business callers changes when one caller moves.            *)
LEMMA CountIn ==
  ASSUME NEW S \in SUBSET Business, NEW T \in SUBSET Business, NEW c,
         \A b \in Business : b # c => (b \in S <=> b \in T)
  PROVE  /\ Cardinality(S) \in Nat /\ Cardinality(T) \in Nat
         /\ (c \in S <=> c \in T) => Cardinality(T) = Cardinality(S)
         /\ c \notin S /\ c \in T => Cardinality(T) = Cardinality(S) + 1
         /\ c \in S /\ c \notin T => Cardinality(T) = Cardinality(S) - 1
  <1>1. IsFiniteSet(S) /\ IsFiniteSet(T)
    BY FiniteAssumption, FS_Subset
  <1>2. Cardinality(S) \in Nat /\ Cardinality(T) \in Nat
    BY <1>1, FS_CardinalityType
  <1>3. ASSUME c \in S <=> c \in T PROVE Cardinality(T) = Cardinality(S)
    <2>1. S = T
      BY <1>3
    <2> QED
      BY <2>1
  <1>4. ASSUME c \notin S, c \in T PROVE Cardinality(T) = Cardinality(S) + 1
    <2>1. T = S \cup {c}
      BY <1>4
    <2> QED
      BY <2>1, <1>1, <1>4, FS_AddElement
  <1>5. ASSUME c \in S, c \notin T PROVE Cardinality(T) = Cardinality(S) - 1
    <2>1. T = S \ {c}
      BY <1>5
    <2> QED
      BY <2>1, <1>1, <1>5, FS_RemoveElement
  <1> QED
    BY <1>2, <1>3, <1>4, <1>5

(* The business calls under way, and those whose stream is in use.         *)
Flying    == {c \in Business : InFlight(c)}
Streaming == {c \in Business : pc[c] = "stream"}

LEMMA Books ==
  QualityBooks <=> /\ success + failure = Total(calls, Business) - Cardinality(Flying)
                   /\ active = Cardinality(Streaming)
  BY DEF QualityBooks, Flying, Streaming

LEMMA BooksNext ==
  QualityBooks' <=> /\ success' + failure' = Total(calls', Business) - Cardinality(Flying')
                    /\ active' = Cardinality(Streaming')
  BY DEF QualityBooks, Flying, Streaming

(* What caller c contributes to the two counts in control state p.         *)
Flies(c, p)   == IF p \in {"idle", "stream"} THEN 0 ELSE One(c)
Streams(c, p) == IF p = "stream" THEN One(c) ELSE 0

Moved(c, p, q) ==
  /\ Cardinality(Flying) \in Nat /\ Cardinality(Streaming) \in Nat
  /\ Cardinality(Flying') = Cardinality(Flying) + Flies(c, q) - Flies(c, p)
  /\ Cardinality(Streaming') = Cardinality(Streaming) + Streams(c, q) - Streams(c, p)

LEMMA Counts ==
  ASSUME TypeOK, NEW c \in Callers, NEW q, pc' = [pc EXCEPT ![c] = q]
  PROVE  Moved(c, pc[c], q)
  <1>1. /\ pc'[c] = q
        /\ \A b \in Business : b # c => pc'[b] = pc[b]
    BY PoolAssumption DEF TypeOK
  <1>2. /\ Flying \in SUBSET Business /\ Streaming \in SUBSET Business
        /\ Flying' \in SUBSET Business /\ Streaming' \in SUBSET Business
    BY DEF Flying, Streaming
  <1>3. /\ c \in Flying <=> c \in Business /\ pc[c] \notin {"idle", "stream"}
        /\ c \in Flying' <=> c \in Business /\ q \notin {"idle", "stream"}
        /\ c \in Streaming <=> c \in Business /\ pc[c] = "stream"
        /\ c \in Streaming' <=> c \in Business /\ q = "stream"
    BY <1>1 DEF Flying, Streaming, InFlight
  <1>4. \A b \in Business : b # c => (b \in Flying <=> b \in Flying')
    BY <1>1 DEF Flying, InFlight
  <1>5. \A b \in Business : b # c => (b \in Streaming <=> b \in Streaming')
    BY <1>1 DEF Streaming
  <1>6. /\ Cardinality(Flying) \in Nat
        /\ Cardinality(Flying') = Cardinality(Flying) + Flies(c, q) - Flies(c, pc[c])
    <2>1. /\ Cardinality(Flying) \in Nat /\ Cardinality(Flying') \in Nat
          /\ (c \in Flying <=> c \in Flying') => Cardinality(Flying') = Cardinality(Flying)
          /\ c \notin Flying /\ c \in Flying' => Cardinality(Flying') = Cardinality(Flying) + 1
          /\ c \in Flying /\ c \notin Flying' => Cardinality(Flying') = Cardinality(Flying) - 1
      BY <1>2, <1>4, CountIn
    <2> QED
      BY <2>1, <1>3 DEF One, Flies, Streams
  <1>7. /\ Cardinality(Streaming) \in Nat
        /\ Cardinality(Streaming') =
             Cardinality(Streaming) + Streams(c, q) - Streams(c, pc[c])
    <2>1. /\ Cardinality(Streaming) \in Nat /\ Cardinality(Streaming') \in Nat
          /\ (c \in Streaming <=> c \in Streaming') => Cardinality(Streaming') = Cardinality(Streaming)
          /\ c \notin Streaming /\ c \in Streaming' => Cardinality(Streaming') = Cardinality(Streaming) + 1
          /\ c \in Streaming /\ c \notin Streaming' => Cardinality(Streaming') = Cardinality(Streaming) - 1
      BY <1>2, <1>5, CountIn
    <2> QED
      BY <2>1, <1>3 DEF One, Flies, Streams
  <1> QED
    BY <1>6, <1>7 DEF Moved

(* The quality tracker's totals are right at the start and after a step.   *)
LEMMA InitBooks == Init => QualityBooks
  <1> SUFFICES ASSUME Init PROVE QualityBooks
    OBVIOUS
  <1>1. \A c \in Business : calls[c] = 0 /\ pc[c] = "idle"
    BY PoolAssumption DEF Init
  <1>2. Total(calls, Business) = 0
    BY <1>1, FiniteAssumption, TotalZero
  <1>3. Flying = {} /\ Streaming = {}
    BY <1>1 DEF Flying, Streaming, InFlight
  <1>4. success = 0 /\ failure = 0 /\ active = 0
    BY DEF Init
  <1> QED
    BY <1>2, <1>3, <1>4, FS_EmptySet, Books

LEMMA BooksStep == TypeInv /\ QualityBooks /\ [Next]_vars => QualityBooks'
  <1> SUFFICES ASSUME TypeOK, QualityBooks, [Next]_vars PROVE QualityBooks'
    BY DEF TypeInv
  <1> USE DEF slotVars, gorVars, callVars, closeVars, quality
  <1>t. /\ success \in Int /\ failure \in Int /\ active \in Int
        /\ \A b \in Business : calls[b] \in Int
    BY PoolAssumption DEF TypeOK
  <1>n. Total(calls, Business) \in Int
    <2>1. \A b \in Business : calls[b] \in Int /\ calls[b] = (IF b = 0 THEN calls[b] + 0 ELSE calls[b])
      BY <1>t, PoolAssumption DEF TypeOK
    <2> QED
      BY <2>1, FiniteAssumption, TotalChange
  \* A step of no caller, or of a caller that stays in flight or idle.
  <1>1. ASSUME UNCHANGED <<pc, calls, quality>> PROVE QualityBooks'
    BY <1>1 DEF QualityBooks, InFlight
  <1>2. ASSUME NEW c \in Callers, NEW q,
               pc[c] \notin {"idle", "stream"}, q \notin {"idle", "stream"},
               pc' = [pc EXCEPT ![c] = q], UNCHANGED <<calls, quality>>
        PROVE  QualityBooks'
    <2>1. /\ Cardinality(Flying') = Cardinality(Flying)
          /\ Cardinality(Streaming') = Cardinality(Streaming)
      <3>1. /\ Flies(c, pc[c]) = One(c) /\ Flies(c, q) = One(c)
            /\ Streams(c, pc[c]) = 0 /\ Streams(c, q) = 0
            /\ One(c) \in Int
        BY <1>2 DEF Flies, Streams, One
      <3>2. Moved(c, pc[c], q)
        BY <1>2, Counts
      <3> QED
        BY <3>1, <3>2 DEF Moved
    <2> QED
      BY <1>2, <2>1, Books, BooksNext
  <1>3. ASSUME NEW g \in Gors, GorStep(g) PROVE QualityBooks'
    BY <1>1, <1>3
    DEF GorStep, CreatorStart, DialOK, DialFail, RetryCheck, CreatorSet, CreatorExit
  <1>4. CASE RunSet
    BY <1>1, <1>4 DEF RunSet
  <1>5. ASSUME NEW c \in Callers, Call(c) PROVE QualityBooks'
    <2>1. /\ pc[c] = "idle" /\ pc' = [pc EXCEPT ![c] = "load"]
          /\ calls' = [calls EXCEPT ![c] = @ + 1]
          /\ UNCHANGED <<success, failure, active>>
      BY <1>5 DEF Call, Goto
    <2>2. \A b \in Business :
            calls[b] \in Int /\ calls'[b] = (IF b = c THEN calls[b] + 1 ELSE calls[b])
      BY <2>1, <1>t, PoolAssumption DEF TypeOK
    <2>3. Total(calls', Business) =
            (IF c \in Business THEN Total(calls, Business) + 1 ELSE Total(calls, Business))
      <3>1. IsFiniteSet(Business) /\ 1 \in Int
        BY FiniteAssumption
      <3> QED
        BY <2>2, <3>1, TotalChange
    <2>4. /\ Cardinality(Flying) \in Nat
          /\ Cardinality(Flying') = Cardinality(Flying) + One(c)
          /\ Cardinality(Streaming') = Cardinality(Streaming)
      <3>1. /\ Flies(c, pc[c]) = 0 /\ Flies(c, "load") = One(c)
            /\ Streams(c, pc[c]) = 0 /\ Streams(c, "load") = 0
            /\ One(c) \in Int
        BY <2>1 DEF Flies, Streams, One
      <3>2. Moved(c, pc[c], "load")
        BY <2>1, Counts
      <3> QED
        BY <3>1, <3>2 DEF Moved
    <2>5. /\ success' + failure' = Total(calls', Business) - Cardinality(Flying')
          /\ active' = Cardinality(Streaming')
      BY <2>1, <2>3, <2>4, <1>t, <1>n, Books DEF One
    <2> QED
      BY <2>5, BooksNext
  <1>6. ASSUME NEW c \in Callers, LoadIdx(c) PROVE QualityBooks'
    BY <1>2, <1>6 DEF LoadIdx, Goto
  <1>7. ASSUME NEW c \in Callers, AddIdx(c) PROVE QualityBooks'
    BY <1>2, <1>7 DEF AddIdx, Goto
  <1>8. ASSUME NEW c \in Callers, GetMaker(c) PROVE QualityBooks'
    BY <1>2, <1>8 DEF GetMaker, Goto
  <1>9. ASSUME NEW c \in Callers, TryStartCreate(c) PROVE QualityBooks'
    BY <1>2, <1>9 DEF TryStartCreate, Goto
  <1>10. ASSUME NEW c \in Callers, Timer(c) PROVE QualityBooks'
    BY <1>1, <1>10 DEF Timer
  \* A call that fails, on either way out.
  <1>11. ASSUME NEW c \in Callers, WaitGiveUp(c) \/ InvalidateMaker(c) PROVE QualityBooks'
    <2>1. /\ pc[c] \in {"wait", "invalidate"} /\ pc' = [pc EXCEPT ![c] = "idle"]
          /\ failure' = failure + One(c)
          /\ UNCHANGED <<success, active, calls>>
      BY <1>11 DEF WaitGiveUp, InvalidateMaker, Return, RecordFailure, Goto
    <2>2. /\ Cardinality(Flying) \in Nat
          /\ Cardinality(Flying') = Cardinality(Flying) - One(c)
          /\ Cardinality(Streaming') = Cardinality(Streaming)
      <3>1. /\ Flies(c, pc[c]) = One(c) /\ Flies(c, "idle") = 0
            /\ Streams(c, pc[c]) = 0 /\ Streams(c, "idle") = 0
            /\ One(c) \in Int
        BY <2>1 DEF Flies, Streams, One
      <3>2. Moved(c, pc[c], "idle")
        BY <2>1, Counts
      <3> QED
        BY <3>1, <3>2 DEF Moved
    <2>3. One(c) \in Int
      BY DEF One
    <2> QED
      BY <2>1, <2>2, <2>3, <1>t, <1>n, Books, BooksNext
  <1>12. ASSUME NEW c \in Callers, WaitRescan(c) PROVE QualityBooks'
    BY <1>2, <1>12 DEF WaitRescan, Goto
  <1>13. ASSUME NEW c \in Callers, WaitScan(c) PROVE QualityBooks'
    BY <1>1, <1>2, <1>13 DEF WaitScan, Goto
  <1>14. ASSUME NEW c \in Callers, OpenStreamOK(c) PROVE QualityBooks'
    <2>1. /\ pc[c] = "open" /\ pc' = [pc EXCEPT ![c] = "stream"]
          /\ success' = success + One(c) /\ active' = active + One(c)
          /\ UNCHANGED <<failure, calls>>
      BY <1>14 DEF OpenStreamOK, RecordOpen, Goto
    <2>2. /\ Cardinality(Flying) \in Nat /\ Cardinality(Streaming) \in Nat
          /\ Cardinality(Flying') = Cardinality(Flying) - One(c)
          /\ Cardinality(Streaming') = Cardinality(Streaming) + One(c)
      <3>1. /\ Flies(c, pc[c]) = One(c) /\ Flies(c, "stream") = 0
            /\ Streams(c, pc[c]) = 0 /\ Streams(c, "stream") = One(c)
            /\ One(c) \in Int
        BY <2>1 DEF Flies, Streams, One
      <3>2. Moved(c, pc[c], "stream")
        BY <2>1, Counts
      <3> QED
        BY <3>1, <3>2 DEF Moved
    <2>3. One(c) \in Int
      BY DEF One
    <2> QED
      BY <2>1, <2>2, <2>3, <1>t, <1>n, Books, BooksNext
  <1>15. ASSUME NEW c \in Callers, OpenStreamFail(c) PROVE QualityBooks'
    BY <1>2, <1>15 DEF OpenStreamFail, Goto
  <1>16. ASSUME NEW c \in Callers, StreamClose(c) PROVE QualityBooks'
    <2>1. /\ pc[c] = "stream" /\ pc' = [pc EXCEPT ![c] = "idle"]
          /\ active' = active - One(c)
          /\ UNCHANGED <<success, failure, calls>>
      BY <1>16 DEF StreamClose, RecordClose, Return, Goto
    <2>2. /\ Cardinality(Streaming) \in Nat
          /\ Cardinality(Flying') = Cardinality(Flying)
          /\ Cardinality(Streaming') = Cardinality(Streaming) - One(c)
      <3>1. /\ Flies(c, pc[c]) = 0 /\ Flies(c, "idle") = 0
            /\ Streams(c, pc[c]) = One(c) /\ Streams(c, "idle") = 0
            /\ One(c) \in Int
        BY <2>1 DEF Flies, Streams, One
      <3>2. Moved(c, pc[c], "idle")
        BY <2>1, Counts
      <3> QED
        BY <3>1, <3>2 DEF Moved
    <2>3. One(c) \in Int
      BY DEF One
    <2> QED
      BY <2>1, <2>2, <2>3, <1>t, <1>n, Books, BooksNext
  <1>17. CASE CloseBegin \/ CloseStep
    BY <1>1, <1>17 DEF CloseBegin, CloseStep, CloseRange, CloseSlot
  <1>18. ASSUME NEW m \in Conns, Break(m) PROVE QualityBooks'
    BY <1>1, <1>18 DEF Break
  <1>19. ASSUME NEW k \in Slots, Expire(k) PROVE QualityBooks'
    BY <1>1, <1>19 DEF Expire
  <1>20. CASE UNCHANGED vars
    BY <1>1, <1>20 DEF vars
  \* A test whose handler panics was never counted.
  <1>21. ASSUME NEW c \in Callers, TestPanics(c) PROVE QualityBooks'
    <2>1. /\ pc[c] = "get" /\ pc' = [pc EXCEPT ![c] = "idle"]
          /\ UNCHANGED <<success, failure, active, calls>>
      BY <1>21 DEF TestPanics, Return, Goto, quality
    <2>2. c \notin Business
      BY <1>21, PoolAssumption DEF TestPanics
    <2>3. /\ Cardinality(Flying') = Cardinality(Flying)
          /\ Cardinality(Streaming') = Cardinality(Streaming)
      <3>1. /\ Flies(c, pc[c]) = 0 /\ Flies(c, "idle") = 0
            /\ Streams(c, pc[c]) = 0 /\ Streams(c, "idle") = 0
        BY <2>1, <2>2 DEF Flies, Streams, One
      <3>2. Moved(c, pc[c], "idle")
        BY <2>1, Counts
      <3> QED
        BY <3>1, <3>2 DEF Moved
    <2> QED
      BY <2>1, <2>3, Books, BooksNext
  <1> QED
    BY <1>3, <1>4, <1>5, <1>6, <1>7, <1>8, <1>9, <1>10, <1>11, <1>12, <1>13, <1>14, <1>15,
       <1>16, <1>17, <1>18, <1>19, <1>20, <1>21
    DEF Next, Step, CallStep

(* Every business call that has returned is counted once, as a success or  *)
(* as a failure, and activeStreams counts the streams in use, for any      *)
(* number of callers: no way out of getStream forgets the quality tracker. *)
THEOREM PoolQualityBooks == Spec => []QualityBooks
  <1>1. Init => TypeInv /\ QualityBooks
    BY InitType, InitBooks
  <1>2. TypeInv /\ QualityBooks /\ [Next]_vars => (TypeInv /\ QualityBooks)'
    BY StepType, BooksStep
  <1> QED
    BY <1>1, <1>2, PTL DEF Spec
=============================================================================
