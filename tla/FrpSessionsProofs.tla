-------------------------- MODULE FrpSessionsProofs -------------------------
(***************************************************************************)
(* Proofs about FrpSessions, for any number of sessions.                   *)
(*                                                                         *)
(* ServedIsCurrent says that the controller of a session that was dialled  *)
(* while no handler was at work is the current one when its handler is     *)
(* done.  It is not inductive: Alone adds that no handler of an earlier    *)
(* session is at work then, and Undialled that later ones have not begun,  *)
(* so that only the session's own handler can change the current one.      *)
(***************************************************************************)
EXTENDS FrpSessions, TLAPS

(* The session the client deals with exists, and was accepted before it is *)
(* assigned.                                                               *)
AtSession ==
  /\ pc \in {"login", "assign", "serve"} => cur \in Sessions
  /\ pc = "assign" => cur \in served

(* Sessions that have not been dialled have no handler and no history.     *)
Undialled == \A s \in Sessions : s > cur => hpc[s] = "idle" /\ s \notin alone

(* A session dialled alone is alone with its handler, and stays current.   *)
Alone ==
  cur \in alone =>
    /\ \A s \in Sessions : s < cur => ~AtWork(s)
    /\ hpc[cur] = "done" => ctl = cur

SessionsInv == TypeOK /\ AtSession /\ Undialled /\ Alone

LEMMA InitInv == Init => SessionsInv
<1> SUFFICES ASSUME Init PROVE SessionsInv
  OBVIOUS
<1>1. TypeOK
  <2>1. loops \in [Sessions -> SUBSET Loops] /\ beating \in [Sessions -> BOOLEAN]
    BY DEF Init
  <2>2. {cur, ctl, sclosed} \subseteq 0 .. MaxSessions /\ {rw, fclosed} \subseteq served \cup {0}
    BY SessionsAssumption DEF Init
  <2> QED
    BY <2>1, <2>2 DEF Init, TypeOK
<1>2. AtSession
  BY DEF Init, AtSession
<1>3. Undialled /\ Alone
  BY DEF Init, Undialled, Alone
<1> QED
  BY <1>1, <1>2, <1>3 DEF SessionsInv

(* The client's steps that do not begin a session.                         *)
LEMMA ClientStep ==
  ASSUME SessionsInv,
         CheckExit \/ DialFails \/ LoginOK \/ LoginFails \/ Assign \/ ServeEnds \/ Wake
  PROVE  SessionsInv'
<1> USE SessionsAssumption DEF SessionsInv, closeVars, serverVars
<1>1. Undialled' /\ Alone'
  BY DEF CheckExit, DialFails, LoginOK, LoginFails, Assign, ServeEnds, Wake, Undialled, Alone, AtWork
<1>2. TypeOK' /\ AtSession'
  <2> USE DEF TypeOK, AtSession
  <2>1. CASE CheckExit
    BY <2>1 DEF CheckExit
  <2>2. CASE DialFails
    BY <2>2 DEF DialFails
  <2>3. CASE LoginOK
    BY <2>3 DEF LoginOK
  <2>4. CASE LoginFails
    BY <2>4 DEF LoginFails
  <2>5. CASE Assign
    BY <2>5 DEF Assign
  <2>6. CASE ServeEnds
    BY <2>6 DEF ServeEnds, CloseConn
  <2>7. CASE Wake
    BY <2>7 DEF Wake
  <2> QED
    BY <2>1, <2>2, <2>3, <2>4, <2>5, <2>6, <2>7
<1> QED
  BY <1>1, <1>2

(* Dial begins a session: its handler is the only one that may be at work, *)
(* if it counts as alone.                                                  *)
LEMMA DialStep == ASSUME SessionsInv, Dial PROVE SessionsInv'
<1> DEFINE n == cur + 1
<1>1. cur \in Nat /\ n \in Sessions /\ MaxSessions \in Nat
  BY SessionsAssumption DEF SessionsInv, TypeOK, Dial, Sessions
<1>2. /\ cur' = n /\ pc' = "login"
      /\ hpc' = [hpc EXCEPT ![n] = "login"]
      /\ alone' = IF \A s \in Sessions : ~AtWork(s) THEN alone \cup {n} ELSE alone
      /\ ctl' = ctl
  BY DEF Dial
<1>3. hpc'[n] = "login" /\ \A s \in Sessions : s # n => hpc'[s] = hpc[s]
  BY <1>1, <1>2 DEF SessionsInv, TypeOK
<1>4. TypeOK'
  BY <1>1 DEF Dial, SessionsInv, TypeOK, closeVars, Sessions
<1>5. AtSession'
  BY <1>1, <1>2 DEF AtSession, Sessions
<1>6. Undialled'
  <2>1. SUFFICES ASSUME NEW s \in Sessions, s > n PROVE hpc'[s] = "idle" /\ s \notin alone'
    BY <1>2 DEF Undialled
  <2>2. s > cur /\ s # n
    BY <1>1, <2>1 DEF Sessions
  <2> QED
    BY <1>2, <1>3, <2>2 DEF SessionsInv, Undialled
<1>7. Alone'
  <2>1. SUFFICES ASSUME n \in alone', NEW s \in Sessions, s < n PROVE ~AtWork(s)'
    BY <1>2, <1>3 DEF Alone
  <2>2. n \notin alone
    BY <1>1 DEF SessionsInv, Undialled
  <2>3. ~AtWork(s)
    BY <1>2, <2>1, <2>2
  <2>4. s # n
    BY <1>1, <2>1 DEF Sessions
  <2> QED
    BY <1>3, <2>3, <2>4 DEF AtWork
<1> QED
  BY <1>4, <1>5, <1>6, <1>7 DEF SessionsInv

(* The handler of a session.  One of an earlier session does nothing while *)
(* the current session is alone.                                           *)
LEMMA HandlerKeeps ==
  ASSUME SessionsInv, NEW s \in Sessions, Handler(s) PROVE SessionsInv'
<1> USE SessionsAssumption DEF SessionsInv, clientVars, closeVars
<1>1. TypeOK'
  <2> USE DEF TypeOK, Sessions
  <2>1. CASE ReadLogin(s)
    BY <2>1 DEF ReadLogin
  <2>2. CASE WriteLoginResp(s)
    BY <2>2 DEF WriteLoginResp
  <2>3. CASE CtlRun(s)
    BY <2>3 DEF CtlRun
  <2>4. CASE SetCtl(s)
    BY <2>4 DEF SetCtl
  <2> QED
    BY <2>1, <2>2, <2>3, <2>4 DEF Handler
<1>2. AtSession'
  BY DEF Handler, ReadLogin, WriteLoginResp, CtlRun, SetCtl, AtSession
<1>3. AtWork(s)
  BY DEF Handler, ReadLogin, WriteLoginResp, CtlRun, SetCtl, AtWork
<1>4. cur \in 0 .. MaxSessions /\ s \in Nat /\ s <= cur
  BY <1>3 DEF AtWork, Undialled, TypeOK, Sessions
<1>5. /\ cur' = cur /\ alone' = alone
      /\ \E v \in {"answer", "failed", "start", "set", "done"} : hpc' = [hpc EXCEPT ![s] = v]
  BY DEF Handler, ReadLogin, WriteLoginResp, CtlRun, SetCtl
<1>6. \A t \in Sessions : t # s => hpc'[t] = hpc[t]
  BY <1>5 DEF TypeOK
<1>7. Undialled'
  BY <1>4, <1>5, <1>6 DEF Undialled, Sessions
<1>8. Alone'
  <2>1. SUFFICES ASSUME cur \in alone
                 PROVE  /\ \A t \in Sessions : t < cur => ~AtWork(t)'
                        /\ hpc'[cur] = "done" => ctl' = cur
    BY <1>5 DEF Alone
  <2>2. s = cur
    BY <1>3, <1>4, <2>1 DEF Alone
  <2>3. \A t \in Sessions : t < cur => ~AtWork(t)'
    BY <1>4, <1>6, <2>1, <2>2 DEF Alone, AtWork, Sessions
  <2>4. hpc'[cur] = "done" => ctl' = cur
    BY <2>2 DEF Handler, ReadLogin, WriteLoginResp, CtlRun, SetCtl, TypeOK
  <2> QED
    BY <2>3, <2>4
<1> QED
  BY <1>1, <1>2, <1>7, <1>8

(* Loops that end, the two Close calls and the network.                    *)
LEMMA OtherStep ==
  ASSUME SessionsInv,
         \/ FrpcClose \/ SetExit \/ CloseRw \/ FrpsClose \/ CloseCtl
         \/ \E s \in Sessions : CtlEnds(s) \/ WriteFails(s) \/ BeatFails(s) \/ Break(s)
  PROVE  SessionsInv'
<1> USE SessionsAssumption DEF SessionsInv, clientVars, closeVars, serverVars
<1>1. UNCHANGED <<pc, cur, served, alone, hpc, ctl>>
  BY DEF FrpcClose, SetExit, CloseRw, FrpsClose, CloseCtl, CtlEnds, ReadLoopEnds, HandleEnds,
         WriteEnds, WriteFails, LoopEnds, BeatFails, Break
<1>2. AtSession' /\ Undialled' /\ Alone'
  BY <1>1 DEF AtSession, Undialled, Alone, AtWork
<1>3. TypeOK'
  <2> USE DEF TypeOK, Sessions
  <2>1. CASE FrpcClose
    BY <2>1 DEF FrpcClose
  <2>2. CASE SetExit
    BY <2>2 DEF SetExit
  <2>3. CASE CloseRw
    BY <2>3 DEF CloseRw
  <2>4. CASE FrpsClose
    BY <2>4 DEF FrpsClose
  <2>5. CASE CloseCtl
    BY <2>5 DEF CloseCtl
  <2>6. ASSUME NEW s \in Sessions, CtlEnds(s) \/ WriteFails(s) PROVE TypeOK'
    <3>1. PICK l \in Loops : LoopEnds(s, l)
      BY <2>6 DEF CtlEnds, ReadLoopEnds, HandleEnds, WriteEnds, WriteFails, Loops
    <3> QED
      BY <3>1 DEF LoopEnds
  <2>7. ASSUME NEW s \in Sessions, BeatFails(s) PROVE TypeOK'
    BY <2>7 DEF BeatFails
  <2>8. ASSUME NEW s \in Sessions, Break(s) PROVE TypeOK'
    BY <2>8 DEF Break, CloseConn
  <2> QED
    BY <2>1, <2>2, <2>3, <2>4, <2>5, <2>6, <2>7, <2>8
<1> QED
  BY <1>2, <1>3

LEMMA NextInv == SessionsInv /\ [Next]_vars => SessionsInv'
<1> SUFFICES ASSUME SessionsInv, [Next]_vars PROVE SessionsInv'
  OBVIOUS
<1>1. CASE CheckExit \/ DialFails \/ LoginOK \/ LoginFails \/ Assign \/ ServeEnds \/ Wake
  BY <1>1, ClientStep
<1>2. CASE Dial
  BY <1>2, DialStep
<1>3. CASE \E s \in Sessions : Handler(s)
  BY <1>3, HandlerKeeps
<1>4. CASE \/ FrpcClose \/ SetExit \/ CloseRw \/ FrpsClose \/ CloseCtl
           \/ \E s \in Sessions : CtlEnds(s) \/ WriteFails(s) \/ BeatFails(s) \/ Break(s)
  BY <1>4, OtherStep
<1>5. CASE UNCHANGED vars
  BY <1>5 DEF vars, clientVars, closeVars, serverVars, SessionsInv, TypeOK, AtSession,
              Undialled, Alone, AtWork
<1> QED
  BY <1>1, <1>2, <1>3, <1>4, <1>5 DEF Next, CloseStep, SCloseStep

(* The inductive invariant holds in every behaviour.                       *)
THEOREM SessionsInvariant == Spec => []SessionsInv
  BY InitInv, NextInv, PTL DEF Spec

(* The sessions keep their types; in particular frpcController.rw, and so  *)
(* what Close of the client closes, names a session whose login succeeded. *)
THEOREM SessionsTypeCorrect == Spec => []TypeOK
<1>1. SessionsInv => TypeOK
  BY DEF SessionsInv
<1> QED
  BY <1>1, SessionsInvariant, PTL

(* For any number of sessions, breaks and closes, users are sent to the    *)
(* session that the client serves, once its handler is done and if it was  *)
(* dialled while no other handler was at work.                             *)
THEOREM SessionsServedIsCurrent == Spec => []ServedIsCurrent
<1>1. SessionsInv => ServedIsCurrent
  BY DEF SessionsInv, Alone, ServedIsCurrent
<1> QED
  BY <1>1, SessionsInvariant, PTL
=============================================================================
