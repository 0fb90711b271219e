--------------------------- MODULE TunnelManager ----------------------------
(***************************************************************************)
(* The tunnel manager of tun/manager.go, the configuration files of        *)
(* tun/config.go and the start and stop of the tunnel servers in           *)
(* tun/server.go.                                                          *)
(*                                                                         *)
(* Administrators (HTTP handlers) add, replace, enable, disable and remove *)
(* tunnels concurrently.  An operation runs under Manager.lock in several  *)
(* steps that may fail: it starts a server, waits at most two seconds for  *)
(* it, saves the configuration by renaming files, and updates the map, or  *)
(* rolls back.  A server whose output is multiplexed goes on starting in   *)
(* the background after the wait.  The process may crash at any point; on  *)
(* start it loads the saved configurations.                                *)
(***************************************************************************)
EXTENDS TunnelConfig, Naturals, FiniteSets

CONSTANTS
  Admins,    \* goroutines that serve the admin API
  Loader,    \* the main goroutine, in Manager.Run
  Insts,     \* identities of service instances (bounds the model)
  Outsider,  \* another process that may occupy a port
  Squatting, \* may it?
  Faults,    \* can file operations fail?
  Hanging,   \* can the Close of a server wait for ever?
  Crashes    \* can the process crash?

ASSUME ManagerAssumption ==
  /\ Loader \notin Admins
  /\ Null \notin Insts \cup Admins \cup {Loader, Outsider}
  /\ Outsider \notin Insts
  /\ {Squatting, Faults, Hanging, Crashes} \subseteq BOOLEAN

VARIABLES
  services,  \* Manager.services: the instance registered under a name, or Null
  icfg, st,  \* the instances: configuration and state of Server.Run/Close
  listener,  \* who listens on a port
  file,      \* the .tun file of a name, or Null
  stranded,  \* names whose file is gone and was left behind as a backup in .staging
  lock,      \* holder of Manager.lock, or Null
  phase,     \* "boot" while Manager.Run loads, "up", or "down" after it failed
  todo,      \* names whose files Manager.Run has yet to load
  (* The operations: control state, request, outcome, new instance, name   *)
  (* of the tunnel being replaced, and content of the backup file.         *)
  pc, req, res, hand, oldName, bak

instVars == <<icfg, st, listener>>
opVars   == <<pc, req, res, hand, oldName, bak>>
vars     == <<services, instVars, file, stranded, lock, phase, todo, opVars>>

Ops == Admins \cup {Loader}

(* A server blocks in Output.Run ("output"), binds its port and runs, or   *)
(* fails.  Close does not interrupt Run: a server closed before it has     *)
(* bound its port goes on to do so ("lateOutput", "lateBind", "late").     *)
InstStates == {"off", "output", "bind", "running", "failed", "stopped",
               "lateOutput", "lateBind", "late"}
OpPC == {"idle", "unlink", "lock", "wait", "save", "rename", "rollback",
         "hung"}

InMap(i) == \E n \in Names : services[n] = i
InHand(i) == \E a \in Ops : hand[a] = i
Unused == {i \in Insts : st[i] = "stopped" /\ ~InMap(i) /\ ~InHand(i)}
Fresh == CHOOSE i \in Unused : TRUE
CfgAt(n) == icfg[services[n]]
-----------------------------------------------------------------------------
(* Service.Run and Service.Close.                                          *)

(* Run starts: a disabledService does nothing, an output that is not       *)
(* multiplexed does not block.                                             *)
StartState(c) == IF c.disabled THEN "off" ELSE IF c.mux THEN "output" ELSE "bind"

(* Close: input.Close finds no listener before the port is bound.          *)
CloseState(i) == CASE st[i] \in {"output", "lateOutput"} -> "lateOutput"
                   [] st[i] \in {"bind", "lateBind"}     -> "lateBind"
                   [] st[i] = "late"                     -> "late"
                   [] OTHER                              -> "stopped"

UnlistenNever(i) == listener             \* faulty variant: the port stays bound
Unlisten(i) == [p \in Ports |-> IF listener[p] = i /\ st[i] = "running" THEN Null ELSE listener[p]]

(* The configuration of an instance nobody needs any more is forgotten.    *)
KeptCfg(i) == IF CloseState(i) = "stopped" THEN Null ELSE icfg[i]

Start(i, c) == /\ icfg' = [icfg EXCEPT ![i] = c]
               /\ st' = [st EXCEPT ![i] = StartState(c)]
               /\ UNCHANGED listener

(* The running side of Server.Run: the output is ready, bind the port.     *)
OutputReady(i) ==
  /\ st[i] \in {"output", "lateOutput"}
  /\ st' = [st EXCEPT ![i] = IF @ = "output" THEN "bind" ELSE "lateBind"]
  /\ UNCHANGED <<services, icfg, listener, file, stranded, lock, phase, todo, opVars>>

InputRun(i) ==
  /\ st[i] \in {"bind", "lateBind"}
  /\ \/ /\ listener[icfg[i].port] = Null
        /\ listener' = [listener EXCEPT ![icfg[i].port] = i]
        /\ st' = [st EXCEPT ![i] = IF @ = "bind" THEN "running" ELSE "late"]
        /\ UNCHANGED icfg
     \/ /\ listener[icfg[i].port] # Null
        /\ st' = [st EXCEPT ![i] = IF @ = "bind" THEN "failed" ELSE "stopped"]
        /\ icfg' = IF st[i] = "lateBind" /\ ~InMap(i) /\ ~InHand(i)
                     THEN [icfg EXCEPT ![i] = Null] ELSE icfg
        /\ UNCHANGED listener
  /\ UNCHANGED <<services, file, stranded, lock, phase, todo, opVars>>
-----------------------------------------------------------------------------
Init ==
  /\ services = [n \in Names |-> Null]
  /\ icfg     = [i \in Insts |-> Null]
  /\ st       = [i \in Insts |-> "stopped"]
  /\ listener = [p \in Ports |-> Null]
  /\ file     = [n \in Names |-> Null]
  /\ stranded = {}
  /\ lock     = Null
  /\ phase    = "up"
  /\ todo     = {}
  /\ pc       = [a \in Ops |-> "idle"]
  /\ req      = [a \in Ops |-> Null]
  /\ res      = [a \in Ops |-> "none"]
  /\ hand     = [a \in Ops |-> Null]
  /\ oldName  = [a \in Ops |-> Null]
  /\ bak      = [a \in Ops |-> Null]
-----------------------------------------------------------------------------
Goto(a, p) == pc' = [pc EXCEPT ![a] = p]

(* The operation returns and releases the lock.                            *)
Return(a, r) ==
  /\ Goto(a, "idle")
  /\ req'     = [req EXCEPT ![a] = Null]
  /\ res'     = [res EXCEPT ![a] = r]
  /\ hand'    = [hand EXCEPT ![a] = Null]
  /\ oldName' = [oldName EXCEPT ![a] = Null]
  /\ bak'     = [bak EXCEPT ![a] = Null]
  /\ lock'    = Null

(* The operation keeps the lock and goes on with instance i.               *)
Proceed(a, p, i) ==
  /\ Goto(a, p)
  /\ hand' = [hand EXCEPT ![a] = i]
  /\ lock' = a
  /\ UNCHANGED <<req, res>>

(* The bound on instances: two of them for every operation under way.      *)
EnoughInsts ==
  Cardinality(Unused) >= 2 * Cardinality({a \in Admins : pc[a] # "idle"}) + 2

(* A request arrives.  RemoveService deletes the file before it locks.     *)
Request(a, r) ==
  /\ phase = "up"
  /\ EnoughInsts
  /\ pc[a] = "idle"
  /\ Goto(a, IF r.op = "remove" THEN "unlink" ELSE "lock")
  /\ req' = [req EXCEPT ![a] = r]
  /\ res' = [res EXCEPT ![a] = "none"]
  /\ UNCHANGED <<services, instVars, file, stranded, lock, phase, todo, hand, oldName, bak>>

Locking(a, op) == /\ pc[a] = "lock"
                  /\ req[a].op = op
                  /\ lock = Null

(* Early returns of the operations; building the server from a malformed   *)
(* configuration fails as well, unless the tunnel is disabled.             *)
Reject(a) == /\ Return(a, "err")
             /\ UNCHANGED <<services, instVars, file, stranded, phase, todo>>

AddService(a) ==
  LET c == req[a].cfg IN
  /\ Locking(a, "add")
  /\ \/ /\ services[c.name] # Null \/ ~c.disabled
        /\ Reject(a)
     \/ /\ services[c.name] = Null
        /\ Unused # {}
        /\ Start(Fresh, c)
        /\ Proceed(a, "wait", Fresh)
        /\ UNCHANGED <<services, file, stranded, phase, todo, oldName, bak>>

(* The second half of ReplaceServiceByUUID and of SetServiceDisabled: stop *)
(* the tunnel registered as n and start its successor.                     *)
Succeed(a, n, c) ==
  /\ Unused # {}
  /\ icfg' = [icfg EXCEPT ![Fresh] = c]
  /\ st' = [st EXCEPT ![services[n]] = CloseState(services[n]), ![Fresh] = StartState(c)]
  /\ listener' = Unlisten(services[n])
  /\ oldName' = [oldName EXCEPT ![a] = n]
  /\ Proceed(a, "wait", Fresh)
  /\ UNCHANGED <<services, file, stranded, phase, todo, bak>>

(* ReplaceServiceByUUID takes some entry with the UUID.                    *)
ReplaceService(a) ==
  LET c == req[a].cfg
      Found == {n \in Names : services[n] # Null /\ CfgAt(n).uuid = c.uuid} IN
  /\ Locking(a, "replace")
  /\ \/ /\ Found = {}
        /\ Reject(a)
     \/ \E n \in Found :
          \/ /\ (c.name # n /\ services[c.name] # Null) \/ ~c.disabled
             /\ Reject(a)
          \/ /\ c.name = n \/ services[c.name] = Null
             /\ Succeed(a, n, c)

SetServiceDisabled(a) ==
  LET n == req[a].name
      d == req[a].disabled IN
  /\ Locking(a, "toggle")
  /\ \/ /\ services[n] = Null
        /\ Reject(a)
     \/ /\ services[n] # Null
        /\ CfgAt(n).disabled = d
        /\ Return(a, "ok")
        /\ UNCHANGED <<services, instVars, file, stranded, phase, todo>>
     \/ /\ services[n] # Null
        /\ CfgAt(n).disabled # d
        /\ \/ ~d /\ Reject(a)
           \/ Succeed(a, n, WithDisabled(CfgAt(n), d))

(* RemoveService: delete the file, then lock, close and forget the tunnel. *)
UnlinkFile(a) ==
  LET n == req[a].name IN
  /\ pc[a] = "unlink"
  /\ \/ /\ file' = [file EXCEPT ![n] = Null]
        /\ Goto(a, "lock")
        /\ UNCHANGED <<lock, req, res, hand, oldName, bak>>
     \/ /\ Faults
        /\ file[n] # Null
        /\ Goto(a, "idle")
        /\ req' = [req EXCEPT ![a] = Null]
        /\ res' = [res EXCEPT ![a] = "err"]
        /\ UNCHANGED <<file, lock, hand, oldName, bak>>
  /\ UNCHANGED <<services, instVars, stranded, phase, todo>>

RemoveService(a) ==
  LET n == req[a].name
      i == services[n] IN
  /\ Locking(a, "remove")
  /\ \/ /\ i = Null
        /\ UNCHANGED <<services, instVars>>
     \/ /\ i # Null
        /\ services' = [services EXCEPT ![n] = Null]
        /\ icfg' = [icfg EXCEPT ![i] = KeptCfg(i)]
        /\ st' = [st EXCEPT ![i] = CloseState(i)]
        /\ listener' = Unlisten(i)
  /\ Return(a, "ok")
  /\ UNCHANGED <<file, stranded, phase, todo>>
-----------------------------------------------------------------------------
(* runPreparedService: the first of Run's result and two seconds.  Run     *)
(* only takes that long while it blocks in Output.Run.                     *)
Started(a) == st[hand[a]] \in {"off", "running"}
BlockedPeerNever(a) == FALSE             \* faulty variant: no timeout
BlockedPeer(a) == st[hand[a]] = "output"

(* AddService and Manager.Run.                                             *)
WaitOK(a) ==
  /\ pc[a] = "wait"
  /\ Started(a) \/ BlockedPeer(a)
  /\ \/ /\ a # Loader
        /\ Goto(a, "save")
        /\ UNCHANGED <<services, lock, todo, req, res, hand, oldName, bak>>
     \/ /\ a = Loader
        /\ services' = [services EXCEPT ![icfg[hand[a]].name] = hand[a]]
        /\ todo' = todo \ {icfg[hand[a]].name}
        /\ Return(a, "none")
  /\ UNCHANGED <<instVars, file, stranded, phase>>

(* An added tunnel that does not start is dropped.                         *)
AddFailed(a) ==
  /\ a # Loader
  /\ pc[a] = "wait"
  /\ oldName[a] = Null
  /\ st[hand[a]] = "failed"
  /\ st' = [st EXCEPT ![hand[a]] = "stopped"]
  /\ icfg' = [icfg EXCEPT ![hand[a]] = Null]
  /\ Return(a, "err")
  /\ UNCHANGED <<services, listener, file, stranded, phase, todo>>

(* rollbackReplaceLocked: start the old configuration again.  The new      *)
(* instance, closed or failed, is left behind.                             *)
Rollback(a) ==
  LET h == hand[a] IN
  /\ Unused # {}
  /\ icfg' = [icfg EXCEPT ![h] = KeptCfg(h), ![Fresh] = CfgAt(oldName[a])]
  /\ st' = [st EXCEPT ![h] = CloseState(h), ![Fresh] = StartState(CfgAt(oldName[a]))]
  /\ listener' = Unlisten(h)
  /\ Goto(a, "rollback")
  /\ hand' = [hand EXCEPT ![a] = Fresh]
  /\ bak' = [bak EXCEPT ![a] = Null]
  /\ UNCHANGED <<services, lock, phase, todo, req, res, oldName>>

ReplaceFailed(a) ==
  /\ pc[a] = "wait"
  /\ oldName[a] # Null
  /\ st[hand[a]] = "failed"
  /\ Rollback(a)
  /\ UNCHANGED <<file, stranded>>

(* createServiceFile and the map update; a failure closes the new tunnel.  *)
CreateFile(a) ==
  LET h == hand[a]
      n == icfg[h].name IN
  /\ pc[a] = "save"
  /\ oldName[a] = Null
  /\ \/ /\ file[n] = Null
        /\ file' = [file EXCEPT ![n] = icfg[h]]
        /\ stranded' = stranded \ {n}
        /\ services' = [services EXCEPT ![n] = h]
        /\ Return(a, "ok")
        /\ UNCHANGED instVars
     \/ /\ Faults \/ file[n] # Null
        /\ icfg' = [icfg EXCEPT ![h] = KeptCfg(h)]
        /\ st' = [st EXCEPT ![h] = CloseState(h)]
        /\ listener' = Unlisten(h)
        /\ Return(a, "err")
        /\ UNCHANGED <<services, file, stranded>>
  /\ UNCHANGED <<phase, todo>>

(* replaceServiceFile, first half: the old file becomes the backup.        *)
BackupFile(a) ==
  /\ pc[a] = "save"
  /\ oldName[a] # Null
  /\ \/ /\ bak' = [bak EXCEPT ![a] = file[oldName[a]]]
        /\ file' = [file EXCEPT ![oldName[a]] = Null]
        /\ Goto(a, "rename")
        /\ UNCHANGED <<services, instVars, stranded, lock, phase, todo, req, res, hand, oldName>>
     \/ /\ Faults
        /\ Rollback(a)
        /\ UNCHANGED <<file, stranded>>

(* Faulty variant of NewName: the file of a renamed tunnel keeps the old   *)
(* name.                                                                   *)
NewNameOld(a) == IF oldName[a] = Null THEN icfg[hand[a]].name ELSE oldName[a]
(* Second half: the new file gets its name, and the map is updated.        *)
NewName(a) == icfg[hand[a]].name

(* Or the backup gets its name back; that this may fail too is ignored.    *)
Restore(a) ==
  \/ /\ bak[a] = Null
     /\ UNCHANGED <<file, stranded>>
  \/ /\ bak[a] # Null
     /\ file' = [file EXCEPT ![oldName[a]] = bak[a]]
     /\ UNCHANGED stranded
  \/ /\ bak[a] # Null
     /\ stranded' = stranded \cup {oldName[a]}
     /\ UNCHANGED file

RenameFile(a) ==
  LET h == hand[a]
      o == services[oldName[a]] IN
  /\ pc[a] = "rename"
  /\ \/ /\ file' = [file EXCEPT ![NewName(a)] = icfg[h]]
        /\ stranded' = stranded \ {NewName(a)}
        /\ services' = [services EXCEPT ![oldName[a]] = Null, ![icfg[h].name] = h]
        /\ icfg' = [icfg EXCEPT ![o] = KeptCfg(o)]
        /\ Return(a, "ok")
        /\ UNCHANGED <<st, listener, phase, todo>>
     \/ /\ Faults
        /\ Restore(a)
        /\ Rollback(a)

(* The end of rollbackReplaceLocked.                                       *)
RollbackDoneForget(a) ==                 \* faulty variant: the entry is dropped
  LET o == services[oldName[a]] IN
  /\ pc[a] = "rollback"
  /\ Started(a) \/ BlockedPeer(a)
  /\ services' = [services EXCEPT ![oldName[a]] = Null]
  /\ icfg' = [icfg EXCEPT ![o] = KeptCfg(o)]
  /\ Return(a, "err")
  /\ UNCHANGED <<st, listener, file, stranded, phase, todo>>

RollbackDone(a) ==
  LET o == services[oldName[a]] IN
  /\ pc[a] = "rollback"
  /\ Started(a) \/ BlockedPeer(a)
  /\ services' = [services EXCEPT ![oldName[a]] = hand[a]]
  /\ icfg' = [icfg EXCEPT ![o] = KeptCfg(o)]
  /\ Return(a, "err")
  /\ UNCHANGED <<st, listener, file, stranded, phase, todo>>

RollbackFailed(a) ==
  LET o == services[oldName[a]] IN
  /\ pc[a] = "rollback"
  /\ st[hand[a]] = "failed"
  /\ services' = [services EXCEPT ![oldName[a]] = Null]
  /\ icfg' = [icfg EXCEPT ![o] = KeptCfg(o), ![hand[a]] = Null]
  /\ st' = [st EXCEPT ![hand[a]] = "stopped"]
  /\ Return(a, "lost")
  /\ UNCHANGED <<listener, file, stranded, phase, todo>>
-----------------------------------------------------------------------------
(* Close of a reverse tunnel (Frps) releases its ports and may then wait   *)
(* for ever for its controller (Stuck in FrpsController), with             *)
(* Manager.lock held.                                                      *)
Hang(a) ==
  /\ Goto(a, "hung")
  /\ hand'    = [hand EXCEPT ![a] = Null]
  /\ oldName' = [oldName EXCEPT ![a] = Null]
  /\ bak'     = [bak EXCEPT ![a] = Null]
  /\ lock'    = a
  /\ UNCHANGED <<req, res>>

(* The entry that an operation which has got the lock closes first.        *)
Closes(a, n) ==
  LET r == req[a] IN
  /\ services[n] # Null
  /\ \/ r.op = "replace" /\ CfgAt(n).uuid = r.cfg.uuid
                         /\ (r.cfg.name = n \/ services[r.cfg.name] = Null)
     \/ r.op = "toggle" /\ r.name = n /\ CfgAt(n).disabled # r.disabled
     \/ r.op = "remove" /\ r.name = n

CloseOldHangs(a) ==
  /\ Hanging
  /\ pc[a] = "lock"
  /\ lock = Null
  /\ \E n \in Names :
       /\ Closes(a, n)
       /\ st[services[n]] = "running"
       /\ st' = [st EXCEPT ![services[n]] = "stopped"]
       /\ listener' = Unlisten(services[n])
  /\ Hang(a)
  /\ UNCHANGED <<services, icfg, file, stranded, phase, todo>>

(* The server that was started is closed when its file cannot be saved.    *)
SaveFails(a) ==
  \/ /\ pc[a] = "save"
     /\ Faults \/ (oldName[a] = Null /\ file[NewName(a)] # Null)
     /\ UNCHANGED <<file, stranded>>
  \/ /\ pc[a] = "rename"
     /\ Faults
     /\ Restore(a)

CloseNewHangs(a) ==
  /\ Hanging
  /\ SaveFails(a)
  /\ st[hand[a]] = "running"
  /\ icfg' = [icfg EXCEPT ![hand[a]] = Null]
  /\ st' = [st EXCEPT ![hand[a]] = "stopped"]
  /\ listener' = Unlisten(hand[a])
  /\ Hang(a)
  /\ UNCHANGED <<services, phase, todo>>
-----------------------------------------------------------------------------
(* The process dies and is started again: only the files remain.           *)
Reset(p) ==
  /\ services' = [n \in Names |-> Null]
  /\ icfg'     = [i \in Insts |-> Null]
  /\ st'       = [i \in Insts |-> "stopped"]
  /\ listener' = [q \in Ports |-> IF listener[q] = Outsider THEN Outsider ELSE Null]
  /\ lock'     = Null
  /\ phase'    = p
  /\ pc'       = [a \in Ops |-> "idle"]
  /\ req'      = [a \in Ops |-> Null]
  /\ res'      = [a \in Ops |-> "none"]
  /\ hand'     = [a \in Ops |-> Null]
  /\ oldName'  = [a \in Ops |-> Null]
  /\ bak'      = [a \in Ops |-> Null]

SavedAny == Names                        \* faulty variant: every name is loaded
Saved == {n \in Names : file[n] # Null}

Crash == /\ Crashes
         /\ phase # "boot"
         /\ todo' = Saved
         /\ Reset("boot")
         /\ UNCHANGED <<file, stranded>>

(* Manager.Run: AddService(cfg, false) for every file, in some order.      *)
LoadFile ==
  /\ phase = "boot"
  /\ pc[Loader] = "idle"
  /\ Unused # {}
  /\ \E n \in todo : Start(Fresh, file[n])
  /\ Proceed(Loader, "wait", Fresh)
  /\ UNCHANGED <<services, file, stranded, phase, todo, oldName, bak>>

(* One tunnel that does not start makes Manager.Run, and the program, end. *)
LoadFailed ==
  /\ phase = "boot"
  /\ pc[Loader] = "wait"
  /\ st[hand[Loader]] = "failed"
  /\ todo' = {}
  /\ Reset("down")
  /\ UNCHANGED <<file, stranded>>

LoadDone ==
  /\ phase = "boot"
  /\ pc[Loader] = "idle"
  /\ todo = {}
  /\ phase' = "up"
  /\ UNCHANGED <<services, instVars, file, stranded, lock, todo, opVars>>

(* Another process takes a port, or leaves it.                             *)
Squat(p) ==
  /\ Squatting
  /\ \/ listener[p] = Null /\ listener' = [listener EXCEPT ![p] = Outsider]
     \/ listener[p] = Outsider /\ listener' = [listener EXCEPT ![p] = Null]
  /\ UNCHANGED <<services, icfg, st, file, stranded, lock, phase, todo, opVars>>
-----------------------------------------------------------------------------
OpStep(a) == \/ AddService(a)
             \/ ReplaceService(a)
             \/ SetServiceDisabled(a)
             \/ UnlinkFile(a)
             \/ RemoveService(a)
             \/ WaitOK(a)
             \/ AddFailed(a)
             \/ ReplaceFailed(a)
             \/ CreateFile(a)
             \/ BackupFile(a)
             \/ RenameFile(a)
             \/ RollbackDone(a)
             \/ RollbackFailed(a)
             \/ CloseOldHangs(a)
             \/ CloseNewHangs(a)

Load == LoadFile \/ LoadFailed \/ LoadDone

Next == \/ \E a \in Admins, r \in Requests : Request(a, r)
        \/ \E a \in Ops : OpStep(a)
        \/ \E i \in Insts : OutputReady(i)
        \/ \E i \in Insts : InputRun(i)
        \/ Crash
        \/ Load
        \/ \E p \in Ports : Squat(p)

Spec == Init /\ [][Next]_vars

(* Goroutines are scheduled, file operations, net.Listen and every Close   *)
(* but the hanging one return, and the two seconds pass.  sync.RWMutex     *)
(* does not starve a waiting writer.  Nothing is assumed of the peers:     *)
(* OutputReady may never happen.                                           *)
LockStep(a) == \/ AddService(a)
               \/ ReplaceService(a)
               \/ SetServiceDisabled(a)
               \/ RemoveService(a)
               \/ CloseOldHangs(a)

Fairness == /\ \A a \in Ops : WF_vars(OpStep(a))
            /\ \A a \in Admins : SF_vars(LockStep(a))
            /\ \A i \in Insts : WF_vars(InputRun(i))
            /\ WF_vars(Load)

FairSpec == Spec /\ Fairness
-----------------------------------------------------------------------------
(* The type invariant of the manager's state.                              *)
TypeOK ==
  /\ services \in [Names -> Insts \cup {Null}]
  /\ icfg \in [Insts -> Configs \cup {Null}]
  /\ st \in [Insts -> InstStates]
  /\ listener \in [Ports -> Insts \cup {Null, Outsider}]
  /\ file \in [Names -> Configs \cup {Null}]
  /\ stranded \subseteq {n \in Names : file[n] = Null}
  /\ lock \in Ops \cup {Null}
  /\ phase \in {"boot", "up", "down"}
  /\ todo \subseteq {n \in Names : file[n] # Null}
  /\ pc \in [Ops -> OpPC]
  /\ req \in [Ops -> Requests \cup {Null}]
  /\ res \in [Ops -> {"none", "ok", "err", "lost"}]
  /\ hand \in [Ops -> Insts \cup {Null}]
  /\ oldName \in [Ops -> Names \cup {Null}]
  /\ bak \in [Ops -> Configs \cup {Null}]

(* Every request is atomic: the map of tunnels behaves like a registry in  *)
(* which a request takes effect once, as a whole, between call and return, *)
(* although an operation stops the old tunnel first, may fail at any later *)
(* step and then starts the old tunnel again.  A failed request leaves the *)
(* registry as it was unless it reports that the rollback failed.          *)
View == [n \in Names |-> IF services[n] = Null THEN Null ELSE CfgAt(n)]
Registry == INSTANCE ServiceRegistry
              WITH reg <- View,
                   req <- [a \in Admins |-> req[a]],
                   res <- [a \in Admins |-> res[a]]
AtomicRequests == Registry!RSpec

(* What a crash may cost: every request is atomic, and the registry        *)
(* survives a crash but for the tunnels that a request under way was about *)
(* to change or remove, and those whose backup a refused change could not  *)
(* put back; with one administrator a removed tunnel never comes back.     *)
(* While Manager.Run loads, and after it has failed, the registry is what  *)
(* the files hold.                                                         *)
Entries  == IF phase = "up" THEN View ELSE file
Leftover == [n \in Names |-> IF phase = "up" /\ services[n] = Null THEN file[n] ELSE Null]
Durable == INSTANCE DurableRegistry
             WITH reg  <- Entries,
                  left <- Leftover,
                  unsaved <- stranded,
                  req  <- [a \in Admins |-> req[a]],
                  res  <- [a \in Admins |-> res[a]]
DurableRequests == Durable!DSpec

(* Ports are not leaked: a listening server is a registered tunnel, or the *)
(* one the holder of the lock has just started, or was closed before it    *)
(* had bound its port.                                                     *)
ListenersAccounted ==
  \A p \in Ports : listener[p] \in Insts =>
    \/ st[listener[p]] = "late"
    \/ st[listener[p]] = "running" /\ (InMap(listener[p]) \/ InHand(listener[p]))

(* The files agree with the map: every registered tunnel has its           *)
(* configuration on disk, so that a crash loses nothing, except between    *)
(* the two renames of its own replacement, once a removal has deleted the  *)
(* file and waits for the lock or for Close, and from the failure of the   *)
(* rename that brings the backup back, which replaceServiceFile ignores,   *)
(* until the tunnel is saved again.                                        *)
SavedUnlessBusy ==
  \A n \in Names : services[n] # Null =>
    \/ file[n] = CfgAt(n)
    \/ n \in stranded
    \/ \E a \in Admins :
         \/ pc[a] = "rename" /\ oldName[a] = n
         \/ pc[a] \in {"lock", "hung"} /\ req[a].op = "remove" /\ req[a].name = n

(* Every admin request returns, even when the peer of a multiplexed output *)
(* never answers and other administrators compete for the lock; the one    *)
(* exception is a Close that hangs, which stops the whole administration.  *)
HungClose == \E a \in Admins : pc[a] = "hung"
RequestReturns == \A a \in Admins : pc[a] # "idle" ~> pc[a] = "idle" \/ HungClose

(* Start-up ends: Manager.Run loads every file or gives up.                *)
BootEnds == phase = "boot" ~> phase # "boot"
-----------------------------------------------------------------------------
(* Claims of the documentation that the code does not keep.                *)

(* "disabled: neither listens nor forwards": no server of a disabled       *)
(* tunnel holds a port while no operation is under way.                    *)
DisabledDoesNotListen ==
  \A n \in Names : services[n] # Null /\ CfgAt(n).disabled /\ lock = Null =>
    \A p \in Ports : listener[p] \in Insts => icfg[listener[p]].name # n
=============================================================================
