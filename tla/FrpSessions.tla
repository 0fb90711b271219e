---------------------------- MODULE FrpSessions -----------------------------
(***************************************************************************)
(* The sessions of a reverse tunnel: the client's controller               *)
(* (frpc_controller.go) that logs in again and again, the handlers of the  *)
(* server (frps.go) that answer its logins, and frpsControllerManager,     *)
(* which keeps the controller of the last login that was registered.       *)
(* FrpsController models what goes on inside one of these controllers.     *)
(*                                                                         *)
(* Every connection the client dials is a session; sessions are numbered.  *)
(* A connection is open until somebody closes it or the network breaks it, *)
(* which both ends notice in the end.  Logins, answers and the handlers    *)
(* take any time, so that a login the client has given up after its five   *)
(* seconds may still be answered and registered.                           *)
(***************************************************************************)
EXTENDS Integers

CONSTANTS MaxSessions     \* how many connections are dialled (bounds the model)

ASSUME SessionsAssumption == MaxSessions \in Nat

VARIABLES
  mux,        \* the client's worker output multiplexes its connections
  conn,       \* Sessions -> "none", "open" or "closed"
  pc,         \* where frpcController.run is
  cur,        \* the session it deals with (0: none yet)
  rw,         \* frpcController.rw (0: nil)
  exit,       \* frpcController.exit
  fclose,     \* where Frpc.Close is
  fclosed,    \* the session that Frpc.Close closed
  hpc,        \* Sessions -> where its handleWorkerStream is
  ctl,        \* frpsControllerManager.ctl (0: nil)
  loops,      \* Sessions -> the loops of its controller that run
  beating,    \* Sessions -> its keepHeartbeat runs
  sclose,     \* where Frps.Close is
  sclosed,    \* the session whose controller Frps.Close closed
  served,     \* history: sessions whose login the client accepted
  alone       \* history: sessions dialled while no handler was at work

clientVars == <<pc, cur, rw, exit, beating, served, alone>>
closeVars  == <<fclose, fclosed, sclose, sclosed>>
serverVars == <<hpc, ctl, loops>>
vars == <<mux, conn, clientVars, closeVars, serverVars>>

Sessions == 1 .. MaxSessions

\* doReadLoop, handleReadMsg and doWriteLoop.
Loops == {"read", "handle", "write"}

Init ==
  /\ mux \in BOOLEAN
  /\ conn = [s \in Sessions |-> "none"]
  /\ pc = "loop" /\ cur = 0 /\ rw = 0 /\ exit = FALSE
  /\ fclose = "idle" /\ fclosed = 0
  /\ hpc = [s \in Sessions |-> "idle"]
  /\ ctl = 0
  /\ loops = [s \in Sessions |-> {}]
  /\ beating = [s \in Sessions |-> FALSE]
  /\ sclose = "idle" /\ sclosed = 0
  /\ served = {} /\ alone = {}

CloseConn(s) == conn' = [conn EXCEPT ![s] = "closed"]
AtWork(s)    == hpc[s] \in {"login", "answer", "start", "set"}

(* May the network and the clock still fail session s?  The last session   *)
(* that the bound allows is neither broken nor given up before its answer, *)
(* unless one of the tunnels is closed.                                    *)
MayFail(s) == s < MaxSessions \/ fclose # "idle" \/ sclose # "idle"
-----------------------------------------------------------------------------
(* frpcController.run.                                                     *)
CheckExit ==
  /\ pc = "loop"
  /\ pc' = IF exit THEN "exited" ELSE "dial"
  /\ UNCHANGED <<mux, conn, cur, rw, exit, beating, served, alone, closeVars, serverVars>>

(* The worker output does not look at its own Close: a multiplexed one may *)
(* have a maker that was published late, one without a pool just dials.    *)
CanDial == sclose = "idle"

(* createConn and the Login message: the server's input hands the stream   *)
(* to a handler of its own.                                                *)
Dial ==
  /\ pc = "dial"
  /\ CanDial
  /\ cur < MaxSessions
  /\ cur' = cur + 1
  /\ conn' = [conn EXCEPT ![cur + 1] = "open"]
  /\ hpc' = [hpc EXCEPT ![cur + 1] = "login"]
  /\ pc' = "login"
  /\ alone' = IF \A s \in Sessions : ~AtWork(s) THEN alone \cup {cur + 1} ELSE alone
  /\ UNCHANGED <<mux, rw, exit, beating, served, closeVars, ctl, loops>>

DialFails ==
  /\ pc = "dial"
  /\ pc' = "sleep"
  /\ UNCHANGED <<mux, conn, cur, rw, exit, beating, served, alone, closeVars, serverVars>>

Answered(s) == hpc[s] \in {"start", "set", "done"}

LoginOK ==
  /\ pc = "login"
  /\ Answered(cur)
  /\ conn[cur] = "open"
  /\ served' = served \cup {cur}
  /\ pc' = "assign"
  /\ UNCHANGED <<mux, conn, cur, rw, exit, beating, alone, closeVars, serverVars>>

\* Faulty variant of LoginFails: the loop returns.
LoginFailsExit ==
  /\ pc = "login"
  /\ MayFail(cur)
  /\ pc' = "exited"
  /\ UNCHANGED <<mux, conn, cur, rw, exit, beating, served, alone, closeVars, serverVars>>

(* The deadline of five seconds, or a broken connection.  login does not   *)
(* close the connection it gives up.                                       *)
LoginFails ==
  /\ pc = "login"
  /\ MayFail(cur)
  /\ pc' = "sleep"
  /\ UNCHANGED <<mux, conn, cur, rw, exit, beating, served, alone, closeVars, serverVars>>

Assign ==
  /\ pc = "assign"
  /\ rw' = cur
  /\ beating' = [beating EXCEPT ![cur] = TRUE]
  /\ pc' = "serve"
  /\ UNCHANGED <<mux, conn, cur, exit, served, alone, closeVars, serverVars>>

\* Faulty variant of ServeEnds: the connection is left open.
ServeEndsOpen ==
  /\ pc = "serve"
  /\ MayFail(cur)
  /\ pc' = "sleep"
  /\ UNCHANGED <<mux, conn, cur, rw, exit, beating, served, alone, closeVars, serverVars>>

(* onRead ends with an error: the connection is closed, or a message could *)
(* not be decoded.  It closes the connection.                              *)
ServeEnds ==
  /\ pc = "serve"
  /\ MayFail(cur)
  /\ CloseConn(cur)
  /\ pc' = "sleep"
  /\ UNCHANGED <<mux, cur, rw, exit, beating, served, alone, closeVars, serverVars>>

Wake ==
  /\ pc = "sleep"
  /\ pc' = "loop"
  /\ UNCHANGED <<mux, conn, cur, rw, exit, beating, served, alone, closeVars, serverVars>>

(* keepHeartbeat ends when a Ping cannot be written.                       *)
BeatFails(s) ==
  /\ beating[s]
  /\ conn[s] = "closed"
  /\ beating' = [beating EXCEPT ![s] = FALSE]
  /\ UNCHANGED <<mux, conn, pc, cur, rw, exit, served, alone, closeVars, serverVars>>
-----------------------------------------------------------------------------
(* Frpc.Close: the worker output, whose Close closes the connections it    *)
(* multiplexes, and then the controller: the exit flag and the connection  *)
(* that rw names at that moment.                                           *)
FrpcClose ==
  /\ fclose = "idle"
  /\ fclose' = "flag"
  /\ conn' = [s \in Sessions |-> IF mux /\ conn[s] = "open" THEN "closed" ELSE conn[s]]
  /\ UNCHANGED <<mux, clientVars, fclosed, sclose, sclosed, serverVars>>

SetExit ==
  /\ fclose = "flag"
  /\ exit' = TRUE
  /\ fclose' = "rw"
  /\ UNCHANGED <<mux, conn, pc, cur, rw, beating, served, alone, fclosed, sclose, sclosed, serverVars>>

\* Faulty variant of CloseRw: the connection is not closed.
CloseRwForgotten ==
  /\ fclose = "rw"
  /\ fclose' = "done"
  /\ fclosed' = rw
  /\ UNCHANGED <<mux, conn, clientVars, sclose, sclosed, serverVars>>

CloseRw ==
  /\ fclose = "rw"
  /\ fclose' = "done"
  /\ fclosed' = rw
  /\ conn' = IF rw # 0 THEN [conn EXCEPT ![rw] = "closed"] ELSE conn
  /\ UNCHANGED <<mux, clientVars, sclose, sclosed, serverVars>>
-----------------------------------------------------------------------------
(* handleWorkerStream for a Login: read it, answer, start a controller and *)
(* make it the current one.  Reading and writing fail on a connection that *)
(* is closed; an answer to a connection that breaks may also be lost.      *)
ReadLogin(s) ==
  /\ hpc[s] = "login"
  /\ hpc' = [hpc EXCEPT ![s] = IF conn[s] = "open" THEN "answer" ELSE "failed"]
  /\ UNCHANGED <<mux, conn, clientVars, closeVars, ctl, loops>>

WriteLoginResp(s) ==
  /\ hpc[s] = "answer"
  /\ \/ hpc' = [hpc EXCEPT ![s] = "start"]
     \/ /\ conn[s] = "closed"
        /\ hpc' = [hpc EXCEPT ![s] = "failed"]
  /\ UNCHANGED <<mux, conn, clientVars, closeVars, ctl, loops>>

CtlRun(s) ==
  /\ hpc[s] = "start"
  /\ loops' = [loops EXCEPT ![s] = Loops]
  /\ hpc' = [hpc EXCEPT ![s] = "set"]
  /\ UNCHANGED <<mux, conn, clientVars, closeVars, ctl>>

\* Faulty variant of SetCtl: a controller that is still running is kept.
SetCtlKeep(s) ==
  /\ hpc[s] = "set"
  /\ ctl' = IF ctl # 0 /\ "read" \in loops[ctl] THEN ctl ELSE s
  /\ hpc' = [hpc EXCEPT ![s] = "done"]
  /\ UNCHANGED <<mux, conn, clientVars, closeVars, loops>>

(* Set replaces the current controller and leaves it running.              *)
SetCtl(s) ==
  /\ hpc[s] = "set"
  /\ ctl' = s
  /\ hpc' = [hpc EXCEPT ![s] = "done"]
  /\ UNCHANGED <<mux, conn, clientVars, closeVars, loops>>

LoopEnds(s, l) ==
  /\ loops' = [loops EXCEPT ![s] = @ \ {l}]
  /\ UNCHANGED <<mux, conn, clientVars, closeVars, hpc, ctl>>

(* doReadLoop ends with the connection and closes its end of it.           *)
ReadLoopEnds(s) ==
  /\ "read" \in loops[s]
  /\ conn[s] = "closed"
  /\ LoopEnds(s, "read")

(* handleReadMsg ends only when Close has closed readCh, doWriteLoop when  *)
(* it has closed sendCh, or when a message that somebody sends by way of   *)
(* this controller cannot be written.                                      *)
HandleEnds(s) ==
  /\ "handle" \in loops[s]
  /\ sclosed = s
  /\ LoopEnds(s, "handle")

WriteEnds(s) ==
  /\ "write" \in loops[s]
  /\ sclosed = s
  /\ LoopEnds(s, "write")

WriteFails(s) ==
  /\ "write" \in loops[s]
  /\ conn[s] = "closed"
  /\ sclosed # s
  /\ LoopEnds(s, "write")

(* Frps.Close: the inputs stop accepting, then the current controller is   *)
(* closed.  Connections that were accepted before are left alone.          *)
FrpsClose ==
  /\ sclose = "idle"
  /\ sclose' = "ctl"
  /\ UNCHANGED <<mux, conn, clientVars, fclose, fclosed, sclosed, serverVars>>

CloseCtl ==
  /\ sclose = "ctl"
  /\ sclose' = "done"
  /\ sclosed' = ctl
  /\ conn' = IF ctl # 0 THEN [conn EXCEPT ![ctl] = "closed"] ELSE conn
  /\ UNCHANGED <<mux, clientVars, fclose, fclosed, serverVars>>

(* The network breaks a connection.                                        *)
Break(s) ==
  /\ conn[s] = "open"
  /\ MayFail(s)
  /\ CloseConn(s)
  /\ UNCHANGED <<mux, clientVars, closeVars, serverVars>>
-----------------------------------------------------------------------------
ServeBroken == pc = "serve" /\ conn[cur] = "closed" /\ ServeEnds
RunStep     == CheckExit \/ LoginFails \/ Assign \/ ServeBroken \/ Wake
Handler(s)  == ReadLogin(s) \/ WriteLoginResp(s) \/ CtlRun(s) \/ SetCtl(s)
CloseStep   == SetExit \/ CloseRw
SCloseStep  == CloseCtl
CtlEnds(s)  == ReadLoopEnds(s) \/ HandleEnds(s) \/ WriteEnds(s)

Next ==
  \/ CheckExit \/ Dial \/ DialFails \/ LoginOK \/ LoginFails \/ Assign \/ ServeEnds \/ Wake
  \/ FrpcClose \/ CloseStep
  \/ FrpsClose \/ SCloseStep
  \/ \E s \in Sessions : Handler(s) \/ CtlEnds(s) \/ WriteFails(s) \/ BeatFails(s) \/ Break(s)

Spec == Init /\ [][Next]_vars

(***************************************************************************)
(* Fairness.  The client's loop goes on: its sleeps and its login deadline *)
(* end, createConn returns.  The handlers and loops of the server and both *)
(* Close calls, once begun, go on.  Nothing makes a connection break or a  *)
(* user close a tunnel.                                                    *)
(***************************************************************************)
Fairness ==
  /\ WF_vars(RunStep)
  /\ WF_vars(Dial \/ DialFails)
  /\ WF_vars(CloseStep) /\ WF_vars(SCloseStep)
  /\ \A s \in Sessions : /\ WF_vars(Handler(s))
                         /\ WF_vars(CtlEnds(s))
                         /\ WF_vars(BeatFails(s))

(* The server accepts and answers a persistent client in time.             *)
ServerReachable == SF_vars(Dial) /\ SF_vars(LoginOK)

FairSpec == Spec /\ Fairness
-----------------------------------------------------------------------------
(* The type invariant.  rw, and so the session that Close closed, is one   *)
(* whose login succeeded.                                                  *)
TypeOK ==
  /\ mux \in BOOLEAN
  /\ conn \in [Sessions -> {"none", "open", "closed"}]
  /\ pc \in {"loop", "dial", "login", "assign", "serve", "sleep", "exited"}
  /\ {cur, ctl, sclosed} \subseteq 0 .. MaxSessions
  /\ {rw, fclosed} \subseteq served \cup {0}
  /\ exit \in BOOLEAN
  /\ fclose \in {"idle", "flag", "rw", "done"}
  /\ sclose \in {"idle", "ctl", "done"}
  /\ hpc \in [Sessions -> {"idle", "login", "answer", "start", "set", "done", "failed"}]
  /\ loops \in [Sessions -> SUBSET Loops] /\ beating \in [Sessions -> BOOLEAN]
  /\ served \subseteq Sessions /\ alone \subseteq Sessions

(* Users are sent to the session that the client serves: once its handler  *)
(* is done its controller is the current one, whatever sessions broke or   *)
(* ended before.  The one exception is a login that overlaps with the      *)
(* handler of an earlier one, which the client had given up or lost: Set   *)
(* does not look at the order, and the slower handler wins.                *)
ServedIsCurrent == pc = "serve" /\ hpc[cur] = "done" /\ cur \in alone => ctl = cur

(* What a session runs ends with it.  When the client has left a session   *)
(* it had served, both ends notice: the controller's read loop and the     *)
(* heartbeat end.  All three loops of a controller that Close of the       *)
(* server has closed end, and the client stops serving it.  handleReadMsg  *)
(* and doWriteLoop of a controller that was replaced are not in the claim: *)
(* nobody closes its channels, and they wait for ever.                     *)
Left(s) == s \in served /\ (cur # s \/ pc \notin {"assign", "serve"})
LeftSessionsEnd ==
  \A s \in Sessions :
    /\ []<>(Left(s) => "read" \notin loops[s] /\ ~beating[s])
    /\ []<>(sclosed = s => loops[s] = {} /\ ~beating[s] /\ ~(pc = "serve" /\ cur = s))

(* Close ends the client: its loop exits, unless a login that was under    *)
(* way when Close looked for the connection to close succeeds.  Such a     *)
(* session goes on to be served until its connection breaks.               *)
ClientStops ==
  []<>(fclose = "done" => pc = "exited" \/ (pc = "serve" /\ cur # fclosed))

(* A client that lost its session or never had one is served again if the  *)
(* server is there, unless a tunnel is closed: it is there again and       *)
(* again, whatever logins time out and whatever sessions break in between. *)
ServedAgain ==
  ServerReachable => []<>(pc = "serve" \/ fclose # "idle" \/ sclose # "idle")
=============================================================================
