------------------------------ MODULE AdminMTR ------------------------------
(***************************************************************************)
(* The dialog of the MTR diagnosis on the tunnel page (tunnel/list.html):  *)
(* invokeMTR checks the session, loads the terminal and opens an event     *)
(* stream, each of which takes its time while the user may close the       *)
(* dialog, ask again or leave the page.                                    *)
(*                                                                         *)
(* A stream is the EventSource object of the page.  The API gets its       *)
(* request some time later and sends events until it notices that the      *)
(* connection was closed.                                                  *)
(*                                                                         *)
(* A click on the menu is an attempt; attempts are numbered, and so are    *)
(* the streams they open.                                                  *)
(***************************************************************************)
EXTENDS Integers, FiniteSets

CONSTANTS MaxAttempts     \* how often the user asks for a diagnosis

ASSUME MTRAssumption == MaxAttempts \in Nat \ {0}

VARIABLES
  attempt,   \* Attempts -> "no", "session", "terminal" or "ended"
  stream,    \* Attempts -> its EventSource: "none", "open" (made and not
             \* closed, connected or not) or "closed"
  api,       \* Attempts -> the API's side of it: "none", "open" or "closed"
  source,    \* mtrSource (0: null)
  pending,   \* mtrPendingName is set
  modal,     \* mtrModal: the dialog is shown
  status,    \* mtrStatus
  loader,    \* mtrTerminalLoader: "none", "loading", "loaded" or "failed"
  left,      \* the user has left the page
  unseen,    \* history: streams that were opened with the dialog closed
  overlaps   \* history: attempts that began while another one was under way

mtrVars == <<attempt, stream, api, source, pending, modal, status, loader, left, unseen, overlaps>>

Attempts == 1 .. MaxAttempts
UnderWay(n) == attempt[n] \in {"session", "terminal"}

MTRInit ==
  /\ attempt = [n \in Attempts |-> "no"]
  /\ stream = [n \in Attempts |-> "none"]
  /\ api = [n \in Attempts |-> "none"]
  /\ source = 0 /\ pending = FALSE /\ modal = FALSE /\ status = "idle"
  /\ loader = "none" /\ left = FALSE
  /\ unseen = {} /\ overlaps = {}

(* new EventSource(...) and its close().                                   *)
StreamOpened(n) == [stream EXCEPT ![n] = "open"]
StreamClosed(n) == IF n = 0 THEN stream ELSE [stream EXCEPT ![n] = "closed"]

\* Faulty variant of CloseMTRSource: the closed source is not forgotten.
CloseMTRSourceKept ==
  /\ stream' = StreamClosed(source)
  /\ source' = source
  /\ pending' = FALSE

CloseMTRSource ==
  /\ stream' = StreamClosed(source)
  /\ source' = 0
  /\ pending' = FALSE

(* The menu entry is there while no name is pending.                       *)
InvokeMTR(n) ==
  /\ ~left /\ ~modal /\ ~pending
  /\ attempt[n] = "no" /\ \A m \in 1 .. n - 1 : attempt[m] # "no"
  /\ attempt' = [attempt EXCEPT ![n] = "session"]
  /\ overlaps' = IF \E m \in Attempts : UnderWay(m) THEN overlaps \cup {n} ELSE overlaps
  /\ UNCHANGED <<stream, api, source, pending, modal, status, loader, left, unseen>>

(* ensureSessionAlive: the session is alive, or the attempt ends.          *)
SessionFails(n) ==
  /\ attempt[n] = "session"
  /\ attempt' = [attempt EXCEPT ![n] = "ended"]
  /\ UNCHANGED <<stream, api, source, pending, modal, status, loader, left, unseen, overlaps>>

SessionAlive(n) ==
  /\ attempt[n] = "session"
  /\ attempt' = [attempt EXCEPT ![n] = "terminal"]
  /\ stream' = StreamClosed(source)
  /\ source' = 0
  /\ modal' = TRUE /\ pending' = TRUE /\ status' = "connecting"
  /\ loader' = IF loader = "none" THEN "loading" ELSE loader
  /\ UNCHANGED <<api, left, unseen, overlaps>>

(* The script of the terminal is loaded once; a failure is remembered.     *)
ScriptLoads ==
  /\ loader = "loading"
  /\ loader' \in {"loaded", "failed"}
  /\ UNCHANGED <<attempt, stream, api, source, pending, modal, status, left, unseen, overlaps>>

(* startMTRStream forgets the source that was there.                       *)
TerminalReady(n) ==
  /\ attempt[n] = "terminal"
  /\ loader = "loaded" /\ ~left
  /\ attempt' = [attempt EXCEPT ![n] = "ended"]
  /\ stream' = StreamOpened(n)
  /\ source' = n
  /\ unseen' = IF modal THEN unseen ELSE unseen \cup {n}
  /\ UNCHANGED <<api, pending, modal, status, loader, left, overlaps>>

(* No script, or no element to show the terminal in since the page is gone.*)
TerminalFails(n) ==
  /\ attempt[n] = "terminal"
  /\ loader = "failed" \/ (loader = "loaded" /\ left)
  /\ attempt' = [attempt EXCEPT ![n] = "ended"]
  /\ status' = "error"
  /\ CloseMTRSource
  /\ UNCHANGED <<api, modal, loader, left, unseen, overlaps>>
-----------------------------------------------------------------------------
(* The API gets the request of a stream, which may have been closed again, *)
(* and begins to send events; later it notices that the page has closed    *)
(* the connection (streamClosed of the browser test).                      *)
StreamServed(n) ==
  /\ stream[n] # "none" /\ api[n] = "none"
  /\ api' = [api EXCEPT ![n] = "open"]
  /\ UNCHANGED <<attempt, stream, source, pending, modal, status, loader, left, unseen, overlaps>>

StreamEnds(n) ==
  /\ stream[n] = "closed" /\ api[n] = "open"
  /\ api' = [api EXCEPT ![n] = "closed"]
  /\ UNCHANGED <<attempt, stream, source, pending, modal, status, loader, left, unseen, overlaps>>

(* Events of a stream.  Their handlers close the current source, which     *)
(* need not be the stream they come from.                                  *)
StartEvent(n) ==
  /\ stream[n] = "open" /\ api[n] = "open"
  /\ status' = "running"
  /\ UNCHANGED <<attempt, stream, api, source, pending, modal, loader, left, unseen, overlaps>>

LastEvent(n) ==
  /\ stream[n] = "open" /\ api[n] = "open"
  /\ status' \in {"done", "error", "timeout"}
  /\ CloseMTRSource
  /\ UNCHANGED <<attempt, api, modal, loader, left, unseen, overlaps>>

(* The connection breaks.  The browser connects again unless the handler   *)
(* has closed the source.                                                  *)
Disconnected(n) ==
  /\ stream[n] = "open"
  /\ status \notin {"done", "error", "timeout", "stopped"}
  /\ status' = "error"
  /\ CloseMTRSource
  /\ UNCHANGED <<attempt, api, modal, loader, left, unseen, overlaps>>

(* invokeStopMTR.                                                          *)
StopMTR ==
  /\ ~left /\ modal /\ source # 0
  /\ status' = "stopped"
  /\ CloseMTRSource
  /\ UNCHANGED <<attempt, api, modal, loader, left, unseen, overlaps>>

\* Faulty variant of CloseMTR: the stream goes on when its dialog is closed.
CloseMTRKeeps ==
  /\ ~left /\ modal
  /\ modal' = FALSE
  /\ UNCHANGED <<attempt, stream, api, source, pending, status, loader, left, unseen, overlaps>>

(* handleMTRModalVisibleChange stops a diagnosis that has a stream; one    *)
(* that is not that far goes on.                                           *)
CloseMTR ==
  /\ ~left /\ modal
  /\ modal' = FALSE
  /\ \/ /\ source # 0
        /\ status' = "stopped"
        /\ CloseMTRSource
     \/ source = 0 /\ UNCHANGED <<stream, source, pending, status>>
  /\ UNCHANGED <<attempt, api, loader, left, unseen, overlaps>>

(* beforeRouteLeave and beforeDestroy.                                     *)
LeaveMTR ==
  /\ ~left
  /\ left' = TRUE
  /\ CloseMTRSource
  /\ UNCHANGED <<attempt, api, modal, status, loader, unseen, overlaps>>

MTRNext ==
  \/ \E n \in Attempts :
       \/ InvokeMTR(n) \/ SessionFails(n) \/ SessionAlive(n) \/ TerminalReady(n)
       \/ TerminalFails(n) \/ StreamServed(n) \/ StreamEnds(n)
       \/ StartEvent(n) \/ LastEvent(n) \/ Disconnected(n)
  \/ ScriptLoads \/ StopMTR \/ CloseMTR \/ LeaveMTR
-----------------------------------------------------------------------------
(* The types; mtrSource is null or a stream that is open, and the API has  *)
(* only streams that the page has made.                                    *)
MTRTypeOK ==
  /\ attempt \in [Attempts -> {"no", "session", "terminal", "ended"}]
  /\ stream \in [Attempts -> {"none", "open", "closed"}]
  /\ api \in [Attempts -> {"none", "open", "closed"}]
  /\ source # 0 => stream[source] = "open"
  /\ \A n \in Attempts : stream[n] = "none" => api[n] = "none"
  /\ {pending, modal, left} \subseteq BOOLEAN
  /\ status \in {"idle", "connecting", "running", "done", "error", "timeout", "stopped"}
  /\ loader \in {"none", "loading", "loaded", "failed"}

(* Closing the dialog or leaving the page closes the stream, unless it was *)
(* opened after the dialog had been closed: that one goes on unseen until  *)
(* it ends or the page is left.  A stream outlives the page, or is lost to *)
(* the page, only if attempts overlapped, which takes a second click       *)
(* before the session is checked.                                          *)
MTRReleased ==
  \A n \in Attempts :
    stream[n] = "open" /\ overlaps = {} =>
      /\ ~left
      /\ n = source
      /\ modal \/ n \in unseen
=============================================================================
