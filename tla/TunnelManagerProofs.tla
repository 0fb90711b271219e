------------------------ MODULE TunnelManagerProofs -------------------------
(***************************************************************************)
(* What holds of the tunnel manager for any number of administrators,      *)
(* names, ports and instances, with a second process that occupies ports,  *)
(* failing file operations, crashes and restarts.                          *)
(***************************************************************************)
EXTENDS TunnelManager, TLAPS

USE ManagerAssumption, ConfigAssumption, NullAssumption
-----------------------------------------------------------------------------
(* The inductive invariant, in parts.                                      *)

Busy   == {"wait", "save", "rename", "rollback"}
Begun  == {"off", "output", "bind", "running", "failed"}
Closed == {"stopped", "lateOutput", "lateBind", "late"}

(* Manager.lock is held by the operation that is past its first step.      *)
LockInv == \A a \in Ops : lock = a <=> pc[a] \in Busy \cup {"hung"}

(* The holder of the lock, and nobody else, has an instance in its hand:   *)
(* one that was started, is not closed and is not in the map yet.          *)
HandInv ==
  \A a \in Ops :
    /\ pc[a] \notin Busy => hand[a] = Null /\ oldName[a] = Null /\ bak[a] = Null
    /\ pc[a] \in Busy => /\ hand[a] # Null
                         /\ ~InMap(hand[a])
                         /\ icfg[hand[a]] # Null
                         /\ st[hand[a]] \in Begun

(* An instance is registered under the name in its own configuration, and  *)
(* hence under one name only.                                              *)
MapInv == \A n \in Names : services[n] # Null =>
            icfg[services[n]] # Null /\ icfg[services[n]].name = n

(* An instance that was started and not closed is registered or in hand.   *)
InstInv == \A i \in Insts : /\ st[i] # "stopped" => icfg[i] # Null
                            /\ st[i] \in Begun => InMap(i) \/ InHand(i)

PortInv == \A p \in Ports : listener[p] \in Insts =>
             st[listener[p]] \in {"running", "late"}

(* The tunnel being replaced is closed, and still in the map.              *)
OldInv == \A a \in Ops : oldName[a] # Null =>
            /\ services[oldName[a]] # Null
            /\ st[services[oldName[a]]] \in Closed

(* Control states of the administrators and of Manager.Run.                *)
PcInv ==
  /\ \A a \in Admins : /\ pc[a] = "idle" <=> req[a] = Null
                       /\ pc[a] = "unlink" => req[a].op = "remove"
                       /\ pc[a] \in {"rename", "rollback"} => oldName[a] # Null
                       /\ phase # "up" => pc[a] = "idle"
  /\ pc[Loader] \in {"idle", "wait"}
  /\ req[Loader] = Null
  /\ oldName[Loader] = Null

(* Manager.Run starts each saved tunnel once, from its file.               *)
BootInv ==
  /\ phase # "boot" => todo = {} /\ pc[Loader] = "idle"
  /\ \A n \in todo : services[n] = Null
  /\ pc[Loader] = "wait" => /\ icfg[hand[Loader]].name \in todo
                            /\ file[icfg[hand[Loader]].name] = icfg[hand[Loader]]

(* Files and backups are named after the configuration they hold, and      *)
(* while there is a backup there is no file.                               *)
FileInv == /\ \A n \in Names : file[n] # Null => file[n].name = n
           /\ \A a \in Ops : bak[a] # Null => /\ bak[a].name = oldName[a]
                                              /\ file[oldName[a]] = Null
                                              /\ oldName[a] \notin stranded

(* What the holder of the lock does is what its request asked for, and the *)
(* conditions it checked under the lock still hold.                        *)
ReqInv ==
  \A a \in Admins : pc[a] \in Busy =>
    /\ oldName[a] = Null => /\ req[a].op = "add"
                            /\ icfg[hand[a]] = req[a].cfg
                            /\ services[req[a].cfg.name] = Null
    /\ oldName[a] # Null =>
         /\ \/ /\ req[a].op = "replace"
               /\ CfgAt(oldName[a]).uuid = req[a].cfg.uuid
               /\ req[a].cfg.name = oldName[a] \/ services[req[a].cfg.name] = Null
            \/ /\ req[a].op = "toggle"
               /\ oldName[a] = req[a].name
         /\ icfg[hand[a]] = IF pc[a] = "rollback" THEN CfgAt(oldName[a])
                            ELSE IF req[a].op = "replace" THEN req[a].cfg
                            ELSE WithDisabled(CfgAt(oldName[a]), req[a].disabled)

IInv == /\ TypeOK
        /\ LockInv
        /\ HandInv
        /\ MapInv
        /\ InstInv
        /\ PortInv
        /\ OldInv
        /\ PcInv
        /\ BootInv
        /\ FileInv
        /\ ReqInv
-----------------------------------------------------------------------------
(* The fields of configurations and requests.                              *)
LEMMA ConfigFields ==
  ASSUME NEW c \in Configs
  PROVE  /\ c # Null
         /\ c.name \in Names
         /\ c.port \in Ports
         /\ c.uuid \in UUIDs
  BY DEF Configs

LEMMA RequestFields ==
  ASSUME NEW r \in Requests
  PROVE  /\ r # Null
         /\ r.op \in {"add", "replace", "toggle", "remove"}
         /\ r.op \in {"add", "replace"} => r.cfg \in Configs
         /\ r.op \in {"toggle", "remove"} => r.name \in Names
         /\ r.op = "toggle" => r.disabled \in BOOLEAN
  BY DEF Requests, AddRequests, ReplaceRequests, ToggleRequests, RemoveRequests

LEMMA WithDisabledFields ==
  ASSUME NEW c \in Configs, NEW d \in BOOLEAN
  PROVE  /\ WithDisabled(c, d) \in Configs
         /\ WithDisabled(c, d).name = c.name
         /\ WithDisabled(c, d).uuid = c.uuid
  BY DEF Configs, WithDisabled

(* The states an instance is started in and left in by Close.              *)
LEMMA FreshUnused ==
  ASSUME Unused # {}
  PROVE  /\ Fresh \in Insts
         /\ st[Fresh] = "stopped"
         /\ ~InMap(Fresh)
         /\ ~InHand(Fresh)
  <1>1. Fresh \in Unused
    BY DEF Fresh
  <1> QED
    BY <1>1 DEF Unused

LEMMA StateSets ==
  /\ InstStates = Begun \cup Closed
  /\ Begun \cap Closed = {}
  BY DEF InstStates, Begun, Closed

LEMMA CloseStates ==
  ASSUME TypeOK, NEW i \in Insts
  PROVE  /\ CloseState(i) \in Closed
         /\ CloseState(i) = "stopped" => st[i] \notin {"output", "bind", "lateOutput", "lateBind", "late"}
         /\ st[i] \in Closed => CloseState(i) = st[i]
         /\ KeptCfg(i) \in {icfg[i], Null}
         /\ CloseState(i) # "stopped" => KeptCfg(i) = icfg[i]
         /\ CloseState(i) = "stopped" => KeptCfg(i) = Null
  BY DEF CloseState, KeptCfg, Closed, TypeOK, InstStates

LEMMA StartStates ==
  ASSUME NEW c \in Configs
  PROVE  StartState(c) \in Begun /\ StartState(c) # "running" /\ StartState(c) # "stopped"
  BY DEF StartState, Begun
-----------------------------------------------------------------------------
(* Return ends the only operation that can hold the lock.                  *)
LEMMA ReturnFrees ==
  ASSUME IInv, NEW a \in Ops, pc[a] \in Busy \/ lock = Null,
         NEW r \in {"none", "ok", "err", "lost"}, Return(a, r)
  PROVE  /\ LockInv' /\ HandInv' /\ OldInv' /\ ReqInv'
         /\ \A i \in Insts : ~InHand(i)'
         /\ \A b \in Ops : bak'[b] = Null
         /\ UNCHANGED phase => PcInv'
         /\ pc'[Loader] = "idle"
         /\ lock' \in Ops \cup {Null}
         /\ pc' \in [Ops -> OpPC]
         /\ req' \in [Ops -> Requests \cup {Null}]
         /\ res' \in [Ops -> {"none", "ok", "err", "lost"}]
         /\ hand' \in [Ops -> Insts \cup {Null}]
         /\ oldName' \in [Ops -> Names \cup {Null}]
         /\ bak' \in [Ops -> Configs \cup {Null}]
  <1>1. /\ pc' = [pc EXCEPT ![a] = "idle"]
        /\ req' = [req EXCEPT ![a] = Null]
        /\ hand' = [hand EXCEPT ![a] = Null]
        /\ oldName' = [oldName EXCEPT ![a] = Null]
        /\ bak' = [bak EXCEPT ![a] = Null]
        /\ res' = [res EXCEPT ![a] = r]
        /\ lock' = Null
    BY DEF Return, Goto
  <1>2. \A b \in Ops : /\ pc'[b] \notin Busy \cup {"hung"}
                       /\ hand'[b] = Null /\ oldName'[b] = Null /\ bak'[b] = Null
    BY <1>1 DEF IInv, TypeOK, LockInv, HandInv, Busy, Ops
  <1>3. LockInv' /\ HandInv' /\ OldInv' /\ ReqInv'
    BY <1>1, <1>2 DEF LockInv, HandInv, OldInv, ReqInv, Ops
  <1>4. \A i \in Insts : ~InHand(i)'
    BY <1>2 DEF InHand
  <1>5. UNCHANGED phase => PcInv'
    BY <1>1, <1>2 DEF IInv, TypeOK, PcInv, Busy, Ops
  <1>6. pc'[Loader] = "idle"
    BY <1>1, <1>2 DEF IInv, TypeOK, PcInv, Busy, Ops
  <1> QED
    BY <1>1, <1>2, <1>3, <1>4, <1>5, <1>6 DEF IInv, TypeOK, OpPC

(* The early returns: Reject, and the request that changes nothing.        *)
LEMMA EarlyReturnStep ==
  ASSUME IInv, NEW a \in Ops, pc[a] = "lock", lock = Null,
         NEW r \in {"ok", "err"}, Return(a, r),
         UNCHANGED <<services, instVars, file, stranded, phase, todo>>
  PROVE  IInv'
  <1>1. \A i \in Insts : ~InHand(i)
    BY DEF IInv, LockInv, HandInv, InHand, Ops
  <1>2. TypeOK' /\ FileInv' /\ BootInv'
    BY ReturnFrees DEF IInv, TypeOK, FileInv, BootInv, instVars
  <1>3. MapInv' /\ InstInv' /\ PortInv'
    BY <1>1 DEF IInv, MapInv, InstInv, PortInv, instVars, InMap
  <1> QED
    BY <1>2, <1>3, ReturnFrees DEF IInv

LEMMA SucceedStep ==
  ASSUME IInv, NEW a \in Ops, pc[a] = "lock", lock = Null,
         NEW n \in Names, services[n] # Null,
         NEW c \in Configs, Succeed(a, n, c),
         \/ /\ req[a].op = "replace"
            /\ c = req[a].cfg
            /\ CfgAt(n).uuid = c.uuid
            /\ c.name = n \/ services[c.name] = Null
         \/ /\ req[a].op = "toggle"
            /\ n = req[a].name
            /\ c = WithDisabled(CfgAt(n), req[a].disabled)
  PROVE  IInv'
  <1> DEFINE o == services[n]
             f == Fresh
  <1>1. /\ o \in Insts /\ f \in Insts /\ o # f
        /\ st[f] = "stopped" /\ ~InMap(f) /\ ~InHand(f)
        /\ a \in Admins
    BY FreshUnused DEF Succeed, IInv, TypeOK, InMap, PcInv, Ops
  <1>2. /\ icfg' = [icfg EXCEPT ![f] = c]
        /\ st'[f] = StartState(c)
        /\ st'[o] = CloseState(o)
        /\ \A i \in Insts \ {f, o} : st'[i] = st[i]
        /\ StartState(c) \in Begun \ {"running"}
        /\ CloseState(o) \in Closed
        /\ c # Null
        /\ DOMAIN st' = Insts
    BY <1>1, StartStates, CloseStates, ConfigFields DEF Succeed, IInv, TypeOK
  <1>3. /\ hand' = [hand EXCEPT ![a] = f]
        /\ oldName' = [oldName EXCEPT ![a] = n]
        /\ pc' = [pc EXCEPT ![a] = "wait"]
        /\ lock' = a
        /\ UNCHANGED <<services, file, stranded, phase, todo, bak, req, res>>
        /\ listener' = Unlisten(o)
    BY DEF Succeed, Proceed, Goto
  <1>4. \A b \in Ops : /\ hand[b] = Null /\ oldName[b] = Null /\ bak[b] = Null
                       /\ pc[b] \notin Busy \cup {"hung"}
    BY DEF IInv, LockInv, HandInv, Ops
  <1> HIDE DEF f
  <1>5. TypeOK'
    <2>1. st' \in [Insts -> InstStates]
      BY <1>1, <1>2, StateSets DEF Succeed, IInv, TypeOK
    <2>2. listener' \in [Ports -> Insts \cup {Null, Outsider}]
      BY <1>3 DEF Unlisten, IInv, TypeOK
    <2> QED
      BY <1>1, <1>2, <1>3, <2>1, <2>2 DEF IInv, TypeOK, OpPC
  <1>6. LockInv' /\ FileInv'
    BY <1>3, <1>4 DEF IInv, TypeOK, LockInv, FileInv, Busy
  <1>7. \A m \in Names : services[m] # Null => icfg'[services[m]] = icfg[services[m]]
    BY <1>1, <1>2 DEF IInv, TypeOK, InMap
  <1>8. MapInv'
    BY <1>3, <1>7 DEF IInv, MapInv
  <1>9. HandInv'
    BY <1>1, <1>2, <1>3, <1>4 DEF IInv, TypeOK, HandInv, Busy, InMap
  <1>10. InstInv'
    <2>1. \A i \in Insts : InMap(i)' <=> InMap(i)
      BY <1>3 DEF InMap
    <2>2. \A i \in Insts : /\ InHand(i) => FALSE
                           /\ InHand(i)' <=> i = f
      BY <1>1, <1>3, <1>4 DEF InHand, IInv, TypeOK
    <2>3. icfg[o] # Null
      BY DEF IInv, MapInv
    <2> QED
      BY <1>1, <1>2, <2>1, <2>2, <2>3 DEF IInv, InstInv, InMap, TypeOK, Begun, Closed
  <1>11. PortInv'
    <2>1. st[o] = "late" => CloseState(o) = "late"
      BY DEF CloseState
    <2> QED
      BY <1>1, <1>2, <1>3, <2>1 DEF IInv, TypeOK, PortInv, Unlisten
  <1>12. OldInv'
    BY <1>1, <1>2, <1>3, <1>4 DEF IInv, TypeOK, OldInv
  <1>13. PcInv' /\ BootInv'
    BY <1>1, <1>3 DEF IInv, TypeOK, PcInv, BootInv, Ops
  <1>14. ReqInv'
    BY <1>1, <1>2, <1>3, <1>4, <1>7 DEF IInv, TypeOK, ReqInv, CfgAt, Busy, Ops
  <1> QED
    BY <1>5, <1>6, <1>8, <1>9, <1>10, <1>11, <1>12, <1>13, <1>14 DEF IInv

(* What replaceServiceFile leaves on disk when it fails.                   *)
LEMMA RestoreStep ==
  ASSUME IInv, NEW a \in Ops, oldName[a] \in Names, \A b \in Ops : bak'[b] = Null,
         Restore(a) \/ UNCHANGED <<file, stranded>>
  PROVE  /\ FileInv' /\ file' \in [Names -> Configs \cup {Null}]
         /\ stranded' \subseteq {m \in Names : file'[m] = Null}
         /\ \A m \in Names : file[m] # Null => file'[m] # Null
  <1>1. CASE bak[a] # Null /\ file' = [file EXCEPT ![oldName[a]] = bak[a]] /\ UNCHANGED stranded
    BY <1>1 DEF IInv, TypeOK, FileInv
  <1>2. CASE bak[a] # Null /\ stranded' = stranded \cup {oldName[a]} /\ UNCHANGED file
    BY <1>2 DEF IInv, TypeOK, FileInv
  <1>3. CASE UNCHANGED <<file, stranded>>
    BY <1>3 DEF IInv, TypeOK, FileInv
  <1> QED
    BY <1>1, <1>2, <1>3 DEF Restore

LEMMA RollbackStep ==
  ASSUME IInv, NEW a \in Ops, pc[a] \in {"wait", "save", "rename"}, oldName[a] # Null,
         Rollback(a), Restore(a) \/ UNCHANGED <<file, stranded>>
  PROVE  IInv'
  <1> DEFINE h == hand[a]
             n == oldName[a]
             f == Fresh
             c == CfgAt(n)
  <1>1. /\ h \in Insts /\ f \in Insts /\ h # f
        /\ st[f] = "stopped" /\ ~InMap(f) /\ ~InMap(h)
        /\ a \in Admins /\ pc[a] \in Busy
        /\ n \in Names /\ services[n] \in Insts
        /\ c \in Configs /\ c.name = n
    BY FreshUnused DEF Rollback, IInv, TypeOK, HandInv, OldInv, MapInv, PcInv, InHand, CfgAt, Busy, Ops
  <1>2. /\ icfg'[f] = c
        /\ icfg'[h] = KeptCfg(h)
        /\ \A i \in Insts \ {f, h} : icfg'[i] = icfg[i]
        /\ icfg' = [icfg EXCEPT ![h] = KeptCfg(h), ![f] = c]
        /\ st'[f] = StartState(c)
        /\ st'[h] = CloseState(h)
        /\ \A i \in Insts \ {f, h} : st'[i] = st[i]
        /\ st' = [st EXCEPT ![h] = CloseState(h), ![f] = StartState(c)]
    BY <1>1 DEF Rollback, IInv, TypeOK
  <1>3. /\ StartState(c) \in Begun \ {"running"}
        /\ CloseState(h) \in Closed
        /\ KeptCfg(h) \in {icfg[h], Null}
        /\ CloseState(h) # "stopped" => KeptCfg(h) = icfg[h]
        /\ c # Null
    BY <1>1, StartStates, CloseStates, ConfigFields DEF IInv
  <1>4. /\ hand' = [hand EXCEPT ![a] = f]
        /\ pc' = [pc EXCEPT ![a] = "rollback"]
        /\ bak' = [bak EXCEPT ![a] = Null]
        /\ listener' = Unlisten(h)
        /\ UNCHANGED <<services, lock, phase, todo, req, res, oldName>>
    BY DEF Rollback, Goto
  <1>5. \A b \in Ops \ {a} : /\ hand[b] = Null /\ oldName[b] = Null /\ bak[b] = Null
                             /\ pc[b] \notin Busy
    BY <1>1 DEF IInv, LockInv, HandInv
  <1>6. \A m \in Names : services[m] # Null => icfg'[services[m]] = icfg[services[m]]
    BY <1>1, <1>2 DEF IInv, TypeOK, InMap
  <1> HIDE DEF f, c, h
  <1>7. /\ FileInv' /\ file' \in [Names -> Configs \cup {Null}]
        /\ stranded' \subseteq {m \in Names : file'[m] = Null}
        /\ \A m \in Names : file[m] # Null => file'[m] # Null
    <2>1. \A b \in Ops : bak'[b] = Null
      BY <1>4, <1>5 DEF IInv, TypeOK
    <2> QED
      BY <1>1, <2>1, RestoreStep
  <1>8. TypeOK'
    <2>1. st' \in [Insts -> InstStates] /\ icfg' \in [Insts -> Configs \cup {Null}]
      BY <1>1, <1>2, <1>3, StateSets DEF IInv, TypeOK
    <2>2. listener' \in [Ports -> Insts \cup {Null, Outsider}]
      BY <1>4 DEF Unlisten, IInv, TypeOK
    <2> QED
      BY <1>1, <1>4, <1>7, <2>1, <2>2 DEF IInv, TypeOK, OpPC
  <1>9. LockInv' /\ MapInv'
    BY <1>1, <1>4, <1>6 DEF IInv, TypeOK, LockInv, MapInv, Busy
  <1>10. HandInv'
    BY <1>1, <1>2, <1>3, <1>4, <1>5 DEF IInv, TypeOK, HandInv, Busy, InMap
  <1>11. InstInv'
    <2>1. \A i \in Insts : InMap(i)' <=> InMap(i)
      BY <1>4 DEF InMap
    <2>2. \A i \in Insts : /\ InHand(i) => i = h
                           /\ InHand(i)' <=> i = f
      BY <1>1, <1>4, <1>5 DEF InHand, IInv, TypeOK, h
    <2>3. icfg[h] # Null
      BY <1>1 DEF IInv, HandInv, h
    <2> QED
      BY <1>1, <1>2, <1>3, <2>1, <2>2, <2>3 DEF IInv, InstInv, TypeOK, Begun, Closed
  <1>12. PortInv'
    <2>1. st[h] = "late" => CloseState(h) = "late"
      BY DEF CloseState
    <2> QED
      BY <1>1, <1>2, <1>3, <1>4, <2>1 DEF IInv, TypeOK, PortInv, Unlisten
  <1>13. OldInv'
    BY <1>1, <1>2, <1>4, <1>5 DEF IInv, TypeOK, OldInv, InMap
  <1>14. PcInv' /\ BootInv'
    BY <1>1, <1>4 DEF IInv, TypeOK, PcInv, BootInv, Ops
  <1>15. ReqInv'
    <2>1. icfg'[hand'[a]] = icfg[services[n]] /\ icfg'[services'[n]] = icfg[services[n]]
      BY <1>1, <1>2, <1>4, <1>6 DEF IInv, TypeOK, c, CfgAt
    <2> QED
      BY <1>1, <1>4, <1>5, <2>1 DEF IInv, TypeOK, ReqInv, CfgAt, Busy, Ops
  <1> QED
    BY <1>7, <1>8, <1>9, <1>10, <1>11, <1>12, <1>13, <1>14, <1>15 DEF IInv

LEMMA BackupFileStep ==
  ASSUME IInv, NEW a \in Ops, BackupFile(a)
  PROVE  IInv'
  <1>1. CASE Rollback(a) /\ UNCHANGED <<file, stranded>>
    BY <1>1, RollbackStep DEF BackupFile
  <1>2. CASE /\ bak' = [bak EXCEPT ![a] = file[oldName[a]]]
             /\ file' = [file EXCEPT ![oldName[a]] = Null]
             /\ Goto(a, "rename")
             /\ UNCHANGED <<services, instVars, stranded, lock, phase, todo, req, res, hand, oldName>>
    <2>1. /\ a \in Admins /\ oldName[a] \in Names /\ pc[a] = "save" /\ oldName[a] # Null
          /\ todo = {}
      BY DEF BackupFile, IInv, TypeOK, PcInv, BootInv, Ops
    <2>2. TypeOK' /\ FileInv'
      BY <1>2, <2>1 DEF Goto, instVars, IInv, TypeOK, FileInv, OpPC
    <2>3. MapInv' /\ InstInv' /\ PortInv' /\ OldInv'
      BY <1>2 DEF instVars, IInv, MapInv, InstInv, PortInv, OldInv, InMap, InHand
    <2>4. LockInv' /\ HandInv' /\ ReqInv'
      BY <1>2, <2>1 DEF Goto, instVars, IInv, TypeOK, LockInv, HandInv, ReqInv, InMap, CfgAt, Busy, Ops
    <2>5. PcInv' /\ BootInv'
      BY <1>2, <2>1 DEF Goto, instVars, IInv, TypeOK, PcInv, BootInv, Ops
    <2> QED
      BY <2>2, <2>3, <2>4, <2>5 DEF IInv
  <1> QED
    BY <1>1, <1>2 DEF BackupFile

LEMMA RenameFileStep ==
  ASSUME IInv, NEW a \in Ops, RenameFile(a)
  PROVE  IInv'
  <1> DEFINE h == hand[a]
             o == services[oldName[a]]
             n == icfg[h].name
  <1>1. /\ a \in Admins /\ pc[a] = "rename" /\ oldName[a] \in Names
        /\ h \in Insts /\ o \in Insts /\ h # o /\ ~InMap(h)
        /\ n \in Names /\ icfg[h] \in Configs
        /\ n = oldName[a] \/ services[n] = Null
        /\ st[o] \in Closed /\ oldName[a] # Null
    <2>1. /\ a \in Admins /\ pc[a] = "rename" /\ oldName[a] \in Names
          /\ h \in Insts /\ o \in Insts /\ h # o /\ ~InMap(h)
          /\ icfg[h] \in Configs /\ icfg[o] \in Configs /\ icfg[o].name = oldName[a]
          /\ st[o] \in Closed /\ oldName[a] # Null /\ req[a] \in Requests
      BY DEF RenameFile, IInv, TypeOK, HandInv, OldInv, MapInv, PcInv, InMap, Busy, Ops
    <2>2. icfg[h].name = oldName[a] \/ services[icfg[h].name] = Null
      <3>1. CASE req[a].op = "replace"
        BY <2>1, <3>1 DEF IInv, ReqInv, Busy
      <3>2. CASE req[a].op # "replace"
        <4>1. req[a].op = "toggle" /\ icfg[h] = WithDisabled(icfg[o], req[a].disabled)
          BY <2>1, <3>2 DEF IInv, ReqInv, Busy, CfgAt
        <4>2. req[a].disabled \in BOOLEAN
          BY <2>1, <4>1, RequestFields
        <4>3. WithDisabled(icfg[o], req[a].disabled).name = icfg[o].name
          BY <2>1, <4>2, WithDisabledFields
        <4> QED
          BY <2>1, <4>1, <4>3
      <3> QED
        BY <3>1, <3>2
    <2> QED
      BY <2>1, <2>2, ConfigFields
  <1>2. CASE Rollback(a) /\ Restore(a)
    BY <1>1, <1>2, RollbackStep
  <1>3. CASE /\ file' = [file EXCEPT ![n] = icfg[h]]
             /\ stranded' = stranded \ {n}
             /\ services' = [services EXCEPT ![oldName[a]] = Null, ![n] = h]
             /\ icfg' = [icfg EXCEPT ![o] = KeptCfg(o)]
             /\ Return(a, "ok")
             /\ UNCHANGED <<st, listener, phase, todo>>
    <2>1. /\ KeptCfg(o) \in {icfg[o], Null}
          /\ st[o] # "stopped" => KeptCfg(o) = icfg[o]
          /\ icfg[h] # Null /\ icfg[o] # Null
      BY <1>1, CloseStates, ConfigFields DEF IInv, OldInv, MapInv
    <2>2. /\ services'[n] = h
          /\ \A m \in Names \ {n} : services'[m] # Null => services'[m] = services[m] /\ services[m] # o
          /\ \A m \in Names \ {n} : m # oldName[a] => services'[m] = services[m]
          /\ services' \in [Names -> Insts \cup {Null}]
      <3>1. \A m \in Names : services[m] = o => m = oldName[a]
        BY <1>1 DEF IInv, MapInv
      <3> QED
        BY <1>1, <1>3, <3>1 DEF IInv, TypeOK
    <2>3. /\ LockInv' /\ HandInv' /\ OldInv' /\ ReqInv' /\ PcInv'
          /\ pc'[Loader] = "idle"
          /\ \A b \in Ops : bak'[b] = Null
      BY <1>1, <1>3, ReturnFrees DEF Busy
    <2>4. TypeOK'
      BY <1>1, <1>3, <2>1, <2>2, ReturnFrees DEF IInv, TypeOK, Busy
    <2>5. MapInv'
      BY <1>1, <1>3, <2>1, <2>2 DEF IInv, TypeOK, MapInv
    <2>6. InstInv'
      <3>1. \A i \in Insts : InMap(i) /\ i # o => InMap(i)'
        BY <1>1, <2>2 DEF InMap
      <3>2. \A i \in Insts : i = h => InMap(i)'
        BY <1>1, <2>2 DEF InMap
      <3>3. \A i \in Insts : InHand(i) => i = h
        BY <1>1 DEF InHand, IInv, LockInv, HandInv, Busy
      <3> QED
        BY <1>1, <1>3, <2>1, <3>1, <3>2, <3>3 DEF IInv, TypeOK, InstInv, Begun, Closed
    <2>7. PortInv' /\ FileInv'
      BY <1>1, <1>3, <2>3 DEF IInv, TypeOK, PortInv, FileInv
    <2>8. BootInv'
      BY <1>1, <1>3, <2>3 DEF IInv, PcInv, BootInv, Busy, Ops
    <2> QED
      BY <2>3, <2>4, <2>5, <2>6, <2>7, <2>8 DEF IInv
  <1> QED
    BY <1>2, <1>3 DEF RenameFile, NewName

LEMMA InitInv == Init => IInv
  <1> SUFFICES ASSUME Init PROVE IInv
    OBVIOUS
  <1>1. TypeOK
    BY DEF Init, TypeOK, InstStates, OpPC
  <1>2. LockInv /\ HandInv /\ OldInv /\ PcInv /\ BootInv /\ FileInv /\ ReqInv
    BY DEF Init, LockInv, HandInv, OldInv, PcInv, BootInv, FileInv, ReqInv, Busy, Ops
  <1>3. MapInv /\ InstInv /\ PortInv
    BY DEF Init, MapInv, InstInv, PortInv, Begun
  <1> QED
    BY <1>1, <1>2, <1>3 DEF IInv

(* Reset leaves an idle, empty manager.                                    *)
LEMMA ResetStep ==
  ASSUME IInv, NEW p \in {"boot", "down"}, Reset(p), UNCHANGED <<file, stranded>>,
         todo' \subseteq {n \in Names : file[n] # Null},
         p # "boot" => todo' = {}
  PROVE  IInv'
  <1>1. TypeOK'
    BY DEF IInv, TypeOK, Reset, InstStates, OpPC
  <1>2. LockInv' /\ HandInv' /\ OldInv' /\ PcInv' /\ ReqInv'
    BY DEF Reset, LockInv, HandInv, OldInv, PcInv, ReqInv, Busy, Ops
  <1>3. MapInv' /\ InstInv' /\ PortInv' /\ BootInv' /\ FileInv'
    BY DEF IInv, TypeOK, Reset, MapInv, InstInv, PortInv, BootInv, FileInv, Begun, Ops
  <1> QED
    BY <1>1, <1>2, <1>3 DEF IInv

LEMMA RequestStep ==
  ASSUME IInv, NEW a \in Admins, NEW r \in Requests, Request(a, r)
  PROVE  IInv'
  <1>1. r # Null
    BY RequestFields
  <1>2. TypeOK'
    BY DEF Request, Goto, instVars, IInv, TypeOK, OpPC, Ops
  <1>3. LockInv' /\ HandInv' /\ PcInv' /\ ReqInv'
    BY <1>1 DEF Request, Goto, instVars, IInv, TypeOK, LockInv, HandInv, PcInv, ReqInv, InMap, CfgAt, Busy, Ops
  <1>4. MapInv' /\ InstInv' /\ PortInv' /\ OldInv' /\ FileInv'
    BY DEF Request, instVars, IInv, MapInv, InstInv, PortInv, OldInv, FileInv, InMap, InHand
  <1>5. BootInv'
    BY DEF Request, Goto, instVars, IInv, TypeOK, BootInv, Ops
  <1> QED
    BY <1>2, <1>3, <1>4, <1>5 DEF IInv

LEMMA UnlinkFileStep ==
  ASSUME IInv, NEW a \in Ops, UnlinkFile(a)
  PROVE  IInv'
  <1>1. /\ a \in Admins /\ pc[a] = "unlink" /\ req[a].name \in Names /\ req[a].op = "remove"
        /\ phase = "up" /\ todo = {}
    BY RequestFields DEF UnlinkFile, IInv, TypeOK, PcInv, BootInv, Ops
  <1>2. TypeOK' /\ FileInv'
    <2>1. /\ file' = [file EXCEPT ![req[a].name] = Null] \/ UNCHANGED file
          /\ UNCHANGED <<bak, oldName, stranded>>
      BY DEF UnlinkFile
    <2>2. FileInv'
      <3>1. \A n \in Names : file'[n] \in {file[n], Null}
        BY <1>1, <2>1 DEF IInv, TypeOK
      <3>2. \A b \in Ops : bak[b] # Null => oldName[b] \in Names
        BY ConfigFields DEF IInv, TypeOK, FileInv
      <3> QED
        BY <2>1, <3>1, <3>2 DEF IInv, FileInv
    <2>3. /\ file' \in [Names -> Configs \cup {Null}]
          /\ stranded' \subseteq {n \in Names : file'[n] = Null}
      BY <1>1, <2>1 DEF UnlinkFile, IInv, TypeOK
    <2> QED
      BY <1>1, <2>2, <2>3 DEF UnlinkFile, Goto, instVars, IInv, TypeOK, OpPC
  <1>3. LockInv' /\ HandInv' /\ ReqInv'
    BY <1>1 DEF UnlinkFile, Goto, instVars, IInv, TypeOK, LockInv, HandInv, ReqInv, InMap, CfgAt, Busy, Ops
  <1>4. MapInv' /\ InstInv' /\ PortInv' /\ OldInv'
    BY DEF UnlinkFile, instVars, IInv, MapInv, InstInv, PortInv, OldInv, InMap, InHand
  <1>5. PcInv' /\ BootInv'
    BY <1>1 DEF UnlinkFile, Goto, instVars, IInv, TypeOK, PcInv, BootInv, Ops
  <1> QED
    BY <1>2, <1>3, <1>4, <1>5 DEF IInv

LEMMA AddServiceStep ==
  ASSUME IInv, NEW a \in Ops, AddService(a)
  PROVE  IInv'
  <1> DEFINE c == req[a].cfg
             f == Fresh
  <1>1. CASE Reject(a)
    BY <1>1, EarlyReturnStep DEF AddService, Locking, Reject
  <1>2. CASE /\ services[c.name] = Null
             /\ Unused # {}
             /\ Start(f, c)
             /\ Proceed(a, "wait", f)
             /\ UNCHANGED <<services, file, stranded, phase, todo, oldName, bak>>
    <2>1. a \in Admins /\ c \in Configs /\ c # Null
      BY RequestFields, ConfigFields DEF AddService, Locking, IInv, TypeOK, PcInv, Ops
    <2>2. /\ f \in Insts /\ st[f] = "stopped" /\ ~InMap(f)
          /\ StartState(c) \in Begun \ {"running"}
      BY <1>2, <2>1, FreshUnused, StartStates
    <2>3. \A b \in Ops : /\ hand[b] = Null /\ oldName[b] = Null /\ bak[b] = Null
                         /\ pc[b] \notin Busy \cup {"hung"}
      BY DEF AddService, Locking, IInv, LockInv, HandInv, Ops
    <2> HIDE DEF f
    <2>4. TypeOK'
      BY <1>2, <2>1, <2>2, StateSets DEF Start, Proceed, Goto, IInv, TypeOK, OpPC
    <2>5. LockInv' /\ HandInv' /\ OldInv' /\ FileInv'
      BY <1>2, <2>1, <2>2, <2>3 DEF Start, Proceed, Goto, IInv, TypeOK, LockInv, HandInv, OldInv, FileInv, InMap, Busy
    <2>6. MapInv' /\ PortInv'
      BY <1>2, <2>2 DEF Start, IInv, TypeOK, MapInv, PortInv, InMap
    <2>7. InstInv'
      <3>1. \A i \in Insts : (InMap(i)' <=> InMap(i)) /\ ~InHand(i) /\ (InHand(i)' <=> i = f)
        BY <1>2, <2>2, <2>3 DEF Proceed, IInv, TypeOK, InMap, InHand
      <3> QED
        BY <1>2, <2>1, <2>2, <3>1 DEF Start, IInv, TypeOK, InstInv
    <2>8. PcInv' /\ BootInv'
      BY <1>2, <2>1 DEF AddService, Locking, Proceed, Goto, IInv, TypeOK, PcInv, BootInv, Ops
    <2>9. ReqInv'
      BY <1>2, <2>1, <2>2, <2>3 DEF AddService, Locking, Start, Proceed, Goto, IInv, TypeOK, ReqInv, Busy, Ops
    <2> QED
      BY <2>4, <2>5, <2>6, <2>7, <2>8, <2>9 DEF IInv
  <1> QED
    BY <1>1, <1>2 DEF AddService

LEMMA ReplaceServiceStep ==
  ASSUME IInv, NEW a \in Ops, ReplaceService(a)
  PROVE  IInv'
  <1> DEFINE c == req[a].cfg
  <1>1. pc[a] = "lock" /\ lock = Null /\ req[a].op = "replace"
    BY DEF ReplaceService, Locking
  <1>2. c \in Configs
    BY <1>1, RequestFields DEF IInv, TypeOK, PcInv, Ops
  <1>3. CASE Reject(a)
    BY <1>1, <1>3, EarlyReturnStep DEF Reject
  <1>4. ASSUME NEW n \in Names, services[n] # Null, CfgAt(n).uuid = c.uuid,
               c.name = n \/ services[c.name] = Null, Succeed(a, n, c)
        PROVE  IInv'
    BY <1>1, <1>2, <1>4, SucceedStep
  <1> QED
    BY <1>3, <1>4 DEF ReplaceService

LEMMA SetServiceDisabledStep ==
  ASSUME IInv, NEW a \in Ops, SetServiceDisabled(a)
  PROVE  IInv'
  <1> DEFINE n == req[a].name
             d == req[a].disabled
  <1>1. /\ pc[a] = "lock" /\ lock = Null /\ req[a].op = "toggle" /\ a \in Admins
        /\ n \in Names /\ d \in BOOLEAN
    BY RequestFields DEF SetServiceDisabled, Locking, IInv, TypeOK, PcInv, Ops
  <1>2. CASE Reject(a)
    BY <1>1, <1>2, EarlyReturnStep DEF Reject
  <1>3. CASE Return(a, "ok") /\ UNCHANGED <<services, instVars, file, stranded, phase, todo>>
    BY <1>1, <1>3, EarlyReturnStep
  <1>4. CASE services[n] # Null /\ Succeed(a, n, WithDisabled(CfgAt(n), d))
    <2>1. CfgAt(n) \in Configs
      BY <1>1, <1>4 DEF IInv, TypeOK, MapInv, CfgAt
    <2>2. WithDisabled(CfgAt(n), d) \in Configs
      BY <1>1, <2>1, WithDisabledFields
    <2> QED
      BY <1>1, <1>4, <2>2, SucceedStep
  <1> QED
    BY <1>2, <1>3, <1>4 DEF SetServiceDisabled

LEMMA RemoveServiceStep ==
  ASSUME IInv, NEW a \in Ops, RemoveService(a)
  PROVE  IInv'
  <1> DEFINE n == req[a].name
             i == services[n]
  <1>1. /\ pc[a] = "lock" /\ lock = Null /\ Return(a, "ok")
        /\ a \in Admins /\ n \in Names /\ todo = {}
        /\ UNCHANGED <<file, stranded, phase, todo>>
    BY RequestFields DEF RemoveService, Locking, IInv, TypeOK, PcInv, BootInv, Ops
  <1>2. CASE UNCHANGED <<services, instVars>>
    BY <1>1, <1>2, EarlyReturnStep
  <1>3. CASE /\ i # Null
             /\ services' = [services EXCEPT ![n] = Null]
             /\ icfg' = [icfg EXCEPT ![i] = KeptCfg(i)]
             /\ st' = [st EXCEPT ![i] = CloseState(i)]
             /\ listener' = Unlisten(i)
    <2>1. /\ i \in Insts
          /\ CloseState(i) \in Closed
          /\ KeptCfg(i) \in {icfg[i], Null}
          /\ CloseState(i) # "stopped" => KeptCfg(i) = icfg[i]
          /\ st[i] = "late" => CloseState(i) = "late"
          /\ icfg[i] # Null
      BY <1>1, <1>3, CloseStates DEF IInv, TypeOK, MapInv, Closed
    <2>2. \A m \in Names : m # n => services[m] # i
      BY <1>1, <1>3 DEF IInv, MapInv
    <2>3. TypeOK'
      <3>1. st' \in [Insts -> InstStates] /\ icfg' \in [Insts -> Configs \cup {Null}]
        BY <1>3, <2>1, StateSets DEF IInv, TypeOK
      <3>2. listener' \in [Ports -> Insts \cup {Null, Outsider}]
        BY <1>3 DEF Unlisten, IInv, TypeOK
      <3> QED
        BY <1>1, <1>3, <3>1, <3>2, ReturnFrees DEF IInv, TypeOK
    <2>4. MapInv'
      BY <1>1, <1>3, <2>1, <2>2 DEF IInv, TypeOK, MapInv
    <2>5. InstInv'
      <3>1. \A j \in Insts : InMap(j) /\ j # i => InMap(j)'
        BY <1>1, <1>3 DEF IInv, TypeOK, InMap
      <3>2. \A j \in Insts : ~InHand(j)
        BY <1>1 DEF IInv, LockInv, HandInv, InHand, Ops
      <3> QED
        BY <1>3, <2>1, <3>1, <3>2 DEF IInv, TypeOK, InstInv, Begun, Closed
    <2>6. PortInv'
      BY <1>3, <2>1 DEF IInv, TypeOK, PortInv, Unlisten
    <2>7. BootInv' /\ FileInv'
      BY <1>1, ReturnFrees DEF IInv, BootInv, FileInv
    <2> QED
      BY <1>1, <2>3, <2>4, <2>5, <2>6, <2>7, ReturnFrees DEF IInv
  <1> QED
    BY <1>2, <1>3 DEF RemoveService

LEMMA WaitOKStep ==
  ASSUME IInv, NEW a \in Ops, WaitOK(a)
  PROVE  IInv'
  <1>1. pc[a] = "wait" /\ UNCHANGED <<instVars, file, stranded, phase>>
    BY DEF WaitOK
  <1>2. CASE /\ a # Loader
             /\ Goto(a, "save")
             /\ UNCHANGED <<services, lock, todo, req, res, hand, oldName, bak>>
    <2>1. TypeOK'
      BY <1>1, <1>2 DEF Goto, instVars, IInv, TypeOK, OpPC
    <2>2. LockInv' /\ HandInv' /\ OldInv' /\ ReqInv'
      BY <1>1, <1>2 DEF Goto, instVars, IInv, TypeOK, LockInv, HandInv, OldInv, ReqInv, InMap, CfgAt, Busy, Ops
    <2>3. MapInv' /\ InstInv' /\ PortInv' /\ FileInv'
      BY <1>1, <1>2 DEF instVars, IInv, MapInv, InstInv, PortInv, FileInv, InMap, InHand
    <2>4. PcInv' /\ BootInv'
      BY <1>1, <1>2 DEF Goto, instVars, IInv, TypeOK, PcInv, BootInv, Ops
    <2> QED
      BY <2>1, <2>2, <2>3, <2>4 DEF IInv
  <1>3. CASE /\ a = Loader
             /\ services' = [services EXCEPT ![icfg[hand[a]].name] = hand[a]]
             /\ todo' = todo \ {icfg[hand[a]].name}
             /\ Return(a, "none")
    <2> DEFINE h == hand[a]
               n == icfg[h].name
    <2>1. /\ h \in Insts /\ ~InMap(h)
          /\ n \in Names /\ icfg[h] # Null
          /\ n \in todo /\ services[n] = Null
          /\ pc[a] \in Busy
      BY <1>1, <1>3, ConfigFields DEF IInv, TypeOK, HandInv, BootInv, Busy
    <2>2. TypeOK'
      BY <1>1, <1>3, <2>1, ReturnFrees DEF instVars, IInv, TypeOK
    <2>3. MapInv' /\ PortInv' /\ FileInv'
      BY <1>1, <1>3, <2>1, ReturnFrees DEF instVars, IInv, TypeOK, MapInv, PortInv, FileInv
    <2>4. InstInv'
      <3>1. \A i \in Insts : InMap(i) => InMap(i)'
        BY <1>3, <2>1 DEF IInv, TypeOK, InMap
      <3>2. \A i \in Insts : i = h => InMap(i)'
        BY <1>3, <2>1 DEF IInv, TypeOK, InMap
      <3>3. \A i \in Insts : InHand(i) => i = h
        BY <2>1 DEF IInv, LockInv, HandInv, InHand
      <3> QED
        BY <1>1, <3>1, <3>2, <3>3 DEF instVars, IInv, InstInv
    <2>5. BootInv'
      BY <1>1, <1>3, <2>1, ReturnFrees DEF IInv, TypeOK, BootInv
    <2> QED
      BY <1>1, <1>3, <2>1, <2>2, <2>3, <2>4, <2>5, ReturnFrees DEF IInv
  <1> QED
    BY <1>2, <1>3 DEF WaitOK

(* An operation that ends without success: the instance in its hand is     *)
(* closed or dropped, and the map keeps its entries.                       *)
LEMMA DropStep ==
  ASSUME IInv, NEW a \in Admins, pc[a] \in Busy, Return(a, "err"),
         NEW s \in Closed, NEW k \in {icfg[hand[a]], Null},
         s # "stopped" => k = icfg[hand[a]],
         st' = [st EXCEPT ![hand[a]] = s],
         icfg' = [icfg EXCEPT ![hand[a]] = k],
         listener' = Unlisten(hand[a]),
         UNCHANGED <<services, file, stranded, phase, todo>>
  PROVE  IInv'
  <1> DEFINE h == hand[a]
  <1>1. h \in Insts /\ ~InMap(h) /\ st[h] \in Begun /\ a \in Ops /\ icfg[h] # Null
    BY DEF IInv, TypeOK, HandInv, Ops
  <1>2. TypeOK'
    <2>1. st' \in [Insts -> InstStates] /\ icfg' \in [Insts -> Configs \cup {Null}]
      BY <1>1, StateSets DEF IInv, TypeOK
    <2>2. listener' \in [Ports -> Insts \cup {Null, Outsider}]
      BY DEF Unlisten, IInv, TypeOK
    <2> QED
      BY <1>1, <2>1, <2>2, ReturnFrees DEF IInv, TypeOK
  <1>3. MapInv' /\ FileInv'
    BY <1>1, ReturnFrees DEF IInv, TypeOK, MapInv, FileInv, InMap
  <1>4. InstInv'
    <2>1. \A i \in Insts : InMap(i)' <=> InMap(i)
      BY DEF InMap
    <2>2. \A i \in Insts : InHand(i) => i = h
      BY <1>1 DEF IInv, LockInv, HandInv, InHand
    <2> QED
      BY <1>1, <2>1, <2>2 DEF IInv, TypeOK, InstInv, Begun, Closed
  <1>5. PortInv'
    BY <1>1 DEF IInv, TypeOK, PortInv, Unlisten, Begun
  <1>6. BootInv'
    BY <1>1, ReturnFrees DEF IInv, BootInv
  <1> QED
    BY <1>1, <1>2, <1>3, <1>4, <1>5, <1>6, ReturnFrees DEF IInv

LEMMA AddFailedStep ==
  ASSUME IInv, NEW a \in Ops, AddFailed(a)
  PROVE  IInv'
  <1>1. listener' = Unlisten(hand[a])
    BY DEF AddFailed, Unlisten, IInv, TypeOK
  <1> QED
    BY <1>1, DropStep DEF AddFailed, Busy, Closed, Ops

LEMMA CreateFileStep ==
  ASSUME IInv, NEW a \in Ops, CreateFile(a)
  PROVE  IInv'
  <1> DEFINE h == hand[a]
             n == icfg[h].name
  <1>1. /\ a \in Admins /\ pc[a] \in Busy /\ phase = "up" /\ todo = {}
        /\ h \in Insts /\ ~InMap(h) /\ st[h] \in Begun
        /\ icfg[h] \in Configs /\ icfg[h] # Null /\ n \in Names
        /\ services[n] = Null
        /\ UNCHANGED <<phase, todo>>
    BY ConfigFields DEF CreateFile, IInv, TypeOK, HandInv, PcInv, BootInv, ReqInv, Busy, Ops
  <1>2. CASE /\ file' = [file EXCEPT ![n] = icfg[h]]
             /\ stranded' = stranded \ {n}
             /\ services' = [services EXCEPT ![n] = h]
             /\ Return(a, "ok")
             /\ UNCHANGED instVars
    <2>1. TypeOK'
      BY <1>1, <1>2, ReturnFrees DEF instVars, IInv, TypeOK
    <2>2. MapInv' /\ PortInv' /\ FileInv'
      BY <1>1, <1>2, ReturnFrees DEF instVars, IInv, TypeOK, MapInv, PortInv, FileInv
    <2>3. InstInv'
      <3>1. \A i \in Insts : InMap(i) => InMap(i)'
        BY <1>1, <1>2 DEF IInv, TypeOK, InMap
      <3>2. \A i \in Insts : i = h => InMap(i)'
        BY <1>1, <1>2 DEF IInv, TypeOK, InMap
      <3>3. \A i \in Insts : InHand(i) => i = h
        BY <1>1 DEF IInv, LockInv, HandInv, InHand
      <3> QED
        BY <1>2, <3>1, <3>2, <3>3 DEF instVars, IInv, InstInv
    <2>4. BootInv'
      BY <1>1, <1>2, ReturnFrees DEF IInv, BootInv
    <2> QED
      BY <1>1, <1>2, <2>1, <2>2, <2>3, <2>4, ReturnFrees DEF IInv
  <1>3. CASE /\ icfg' = [icfg EXCEPT ![h] = KeptCfg(h)]
             /\ st' = [st EXCEPT ![h] = CloseState(h)]
             /\ listener' = Unlisten(h)
             /\ Return(a, "err")
             /\ UNCHANGED <<services, file, stranded>>
    BY <1>1, <1>3, DropStep, CloseStates DEF IInv
  <1> QED
    BY <1>2, <1>3 DEF CreateFile

(* The end of a rollback: the entry of the old tunnel gets the instance in *)
(* hand, or is dropped with it.                                            *)
LEMMA RollbackDoneStep ==
  ASSUME IInv, NEW a \in Ops, RollbackDone(a)
  PROVE  IInv'
  <1> DEFINE h == hand[a]
             n == oldName[a]
             o == services[n]
  <1>1. /\ a \in Admins /\ pc[a] \in Busy /\ todo = {}
        /\ h \in Insts /\ ~InMap(h) /\ st[h] \in Begun
        /\ n \in Names /\ o \in Insts /\ o # h /\ st[o] \in Closed
        /\ icfg[h] # Null /\ icfg[h].name = n /\ icfg[o] # Null
        /\ \A m \in Names : services[m] = o => m = n
    BY DEF RollbackDone, IInv, TypeOK, HandInv, MapInv, OldInv, PcInv, BootInv, ReqInv, InMap, CfgAt, Busy, Ops
  <1>2. /\ services' = [services EXCEPT ![n] = h]
        /\ icfg' = [icfg EXCEPT ![o] = KeptCfg(o)]
        /\ Return(a, "err")
        /\ UNCHANGED <<st, listener, file, stranded, phase, todo>>
    BY DEF RollbackDone
  <1>3. /\ KeptCfg(o) \in {icfg[o], Null}
        /\ st[o] # "stopped" => KeptCfg(o) = icfg[o]
    BY <1>1, CloseStates DEF IInv
  <1>4. TypeOK'
    BY <1>1, <1>2, <1>3, ReturnFrees DEF IInv, TypeOK
  <1>5. MapInv' /\ PortInv' /\ FileInv'
    BY <1>1, <1>2, ReturnFrees DEF IInv, TypeOK, MapInv, PortInv, FileInv
  <1>6. InstInv'
    <2>1. \A i \in Insts : InMap(i) /\ i # o => InMap(i)'
      BY <1>1, <1>2 DEF IInv, TypeOK, InMap
    <2>2. \A i \in Insts : i = h => InMap(i)'
      BY <1>1, <1>2 DEF IInv, TypeOK, InMap
    <2>3. \A i \in Insts : InHand(i) => i = h
      BY <1>1 DEF IInv, LockInv, HandInv, InHand
    <2> QED
      BY <1>1, <1>2, <1>3, <2>1, <2>2, <2>3 DEF IInv, TypeOK, InstInv, Begun, Closed
  <1>7. BootInv'
    BY <1>1, <1>2, ReturnFrees DEF IInv, BootInv
  <1> QED
    BY <1>1, <1>2, <1>4, <1>5, <1>6, <1>7, ReturnFrees DEF IInv

LEMMA RollbackFailedStep ==
  ASSUME IInv, NEW a \in Ops, RollbackFailed(a)
  PROVE  IInv'
  <1> DEFINE h == hand[a]
             n == oldName[a]
             o == services[n]
  <1>1. /\ a \in Admins /\ pc[a] \in Busy /\ todo = {}
        /\ h \in Insts /\ ~InMap(h) /\ st[h] = "failed"
        /\ n \in Names /\ o \in Insts /\ o # h /\ st[o] \in Closed /\ icfg[o] # Null
        /\ \A m \in Names : services[m] = o => m = n
    BY DEF RollbackFailed, IInv, TypeOK, HandInv, MapInv, OldInv, PcInv, BootInv, InMap, Busy, Ops
  <1>2. /\ services' = [services EXCEPT ![n] = Null]
        /\ icfg' = [icfg EXCEPT ![o] = KeptCfg(o), ![h] = Null]
        /\ st' = [st EXCEPT ![h] = "stopped"]
        /\ Return(a, "lost")
        /\ UNCHANGED <<listener, file, stranded, phase, todo>>
    BY DEF RollbackFailed
  <1>3. /\ KeptCfg(o) \in {icfg[o], Null}
        /\ st[o] # "stopped" => KeptCfg(o) = icfg[o]
    BY <1>1, CloseStates DEF IInv
  <1>4. TypeOK'
    BY <1>1, <1>2, <1>3, ReturnFrees DEF IInv, TypeOK, InstStates
  <1>5. MapInv' /\ PortInv' /\ FileInv'
    BY <1>1, <1>2, ReturnFrees DEF IInv, TypeOK, MapInv, PortInv, FileInv, InMap
  <1>6. InstInv'
    <2>1. \A i \in Insts : InMap(i) /\ i # o => InMap(i)'
      BY <1>1, <1>2 DEF IInv, TypeOK, InMap
    <2>2. \A i \in Insts : InHand(i) => i = h
      BY <1>1 DEF IInv, LockInv, HandInv, InHand
    <2> QED
      BY <1>1, <1>2, <1>3, <2>1, <2>2 DEF IInv, TypeOK, InstInv, Begun, Closed
  <1>7. BootInv'
    BY <1>1, <1>2, ReturnFrees DEF IInv, TypeOK, BootInv
  <1> QED
    BY <1>1, <1>2, <1>4, <1>5, <1>6, <1>7, ReturnFrees DEF IInv

(* The servers that start in the background.                               *)
(* An operation that hangs in Close keeps the lock and has nothing left.   *)
LEMMA HangFrees ==
  ASSUME IInv, NEW a \in Ops, Hang(a), UNCHANGED phase,
         pc[a] \in Busy \ {"wait"} \/ (pc[a] = "lock" /\ lock = Null)
  PROVE  /\ LockInv' /\ HandInv' /\ OldInv' /\ ReqInv' /\ PcInv'
         /\ a \in Admins
         /\ \A i \in Insts : ~InHand(i)'
         /\ \A b \in Ops : bak'[b] = Null
         /\ pc'[Loader] = pc[Loader] /\ hand'[Loader] = hand[Loader]
         /\ lock' \in Ops \cup {Null}
         /\ pc' \in [Ops -> OpPC]
         /\ req' \in [Ops -> Requests \cup {Null}]
         /\ res' \in [Ops -> {"none", "ok", "err", "lost"}]
         /\ hand' \in [Ops -> Insts \cup {Null}]
         /\ oldName' \in [Ops -> Names \cup {Null}]
         /\ bak' \in [Ops -> Configs \cup {Null}]
  <1>1. /\ pc' = [pc EXCEPT ![a] = "hung"]
        /\ hand' = [hand EXCEPT ![a] = Null]
        /\ oldName' = [oldName EXCEPT ![a] = Null]
        /\ bak' = [bak EXCEPT ![a] = Null]
        /\ lock' = a
        /\ UNCHANGED <<req, res>>
    BY DEF Hang, Goto
  <1>2. a \in Admins /\ a # Loader
    BY DEF IInv, PcInv, Busy, Ops
  <1>3. \A b \in Ops : /\ pc'[b] \notin Busy
                       /\ pc'[b] = "hung" <=> b = a
                       /\ hand'[b] = Null /\ oldName'[b] = Null /\ bak'[b] = Null
    BY <1>1 DEF IInv, TypeOK, LockInv, HandInv, Busy, Ops
  <1>4. LockInv' /\ HandInv' /\ OldInv' /\ ReqInv'
    BY <1>1, <1>2, <1>3 DEF LockInv, HandInv, OldInv, ReqInv, Ops
  <1>5. \A i \in Insts : ~InHand(i)'
    BY <1>3 DEF InHand
  <1>6. PcInv'
    BY <1>1, <1>2, <1>3 DEF IInv, TypeOK, PcInv, Busy, Ops
  <1>7. pc'[Loader] = pc[Loader] /\ hand'[Loader] = hand[Loader]
    BY <1>1, <1>2 DEF IInv, TypeOK, Ops
  <1> QED
    BY <1>1, <1>2, <1>3, <1>4, <1>5, <1>6, <1>7 DEF IInv, TypeOK, OpPC

LEMMA CloseOldHangsStep ==
  ASSUME IInv, NEW a \in Ops, CloseOldHangs(a)
  PROVE  IInv'
  <1>1. PICK n \in Names : /\ services[n] # Null
                           /\ st[services[n]] = "running"
                           /\ st' = [st EXCEPT ![services[n]] = "stopped"]
                           /\ listener' = Unlisten(services[n])
    BY DEF CloseOldHangs, Closes
  <1> DEFINE o == services[n]
  <1>2. /\ o \in Insts /\ InMap(o)
        /\ pc[a] = "lock" /\ lock = Null /\ Hang(a)
        /\ UNCHANGED <<services, icfg, file, stranded, phase, todo>>
    BY <1>1 DEF CloseOldHangs, IInv, TypeOK, InMap
  <1>3. TypeOK' /\ FileInv'
    <2>1. st' \in [Insts -> InstStates] /\ listener' \in [Ports -> Insts \cup {Null, Outsider}]
      BY <1>1, <1>2 DEF IInv, TypeOK, Unlisten, InstStates
    <2> QED
      BY <1>2, <2>1, HangFrees DEF IInv, TypeOK, FileInv
  <1>4. MapInv' /\ BootInv'
    BY <1>2, HangFrees DEF IInv, MapInv, BootInv
  <1>5. \A i \in Insts : ~InHand(i)
    BY <1>2 DEF IInv, LockInv, HandInv, InHand, Ops
  <1>6. InstInv'
    BY <1>1, <1>2, <1>5 DEF IInv, TypeOK, InstInv, InMap, Begun
  <1>7. PortInv'
    BY <1>1, <1>2 DEF IInv, TypeOK, PortInv, Unlisten
  <1> QED
    BY <1>2, <1>3, <1>4, <1>6, <1>7, HangFrees DEF IInv

LEMMA CloseNewHangsStep ==
  ASSUME IInv, NEW a \in Ops, CloseNewHangs(a)
  PROVE  IInv'
  <1> DEFINE h == hand[a]
  <1>1. /\ pc[a] \in Busy \ {"wait"} /\ Hang(a)
        /\ st[h] = "running"
        /\ icfg' = [icfg EXCEPT ![h] = Null]
        /\ st' = [st EXCEPT ![h] = "stopped"]
        /\ listener' = Unlisten(h)
        /\ UNCHANGED <<services, phase, todo>>
    BY DEF CloseNewHangs, SaveFails, Busy
  <1>2. h \in Insts /\ ~InMap(h) /\ a \in Admins
    BY <1>1 DEF IInv, TypeOK, HandInv, PcInv, Busy, Ops
  <1>3. /\ FileInv' /\ file' \in [Names -> Configs \cup {Null}]
        /\ stranded' \subseteq {m \in Names : file'[m] = Null}
        /\ \A m \in Names : file[m] # Null => file'[m] # Null
    <2>1. \A b \in Ops : bak'[b] = Null
      BY <1>1, HangFrees
    <2>2. CASE pc[a] = "rename" /\ Restore(a)
      <3>1. oldName[a] \in Names
        BY <1>2, <2>2 DEF IInv, TypeOK, PcInv, Ops
      <3> QED
        BY <2>1, <2>2, <3>1, RestoreStep
    <2>3. CASE UNCHANGED <<file, stranded>>
      BY <2>1, <2>3 DEF IInv, TypeOK, FileInv
    <2> QED
      BY <2>2, <2>3 DEF CloseNewHangs, SaveFails
  <1>4. TypeOK'
    <2>1. st' \in [Insts -> InstStates] /\ listener' \in [Ports -> Insts \cup {Null, Outsider}]
      BY <1>1, <1>2 DEF IInv, TypeOK, Unlisten, InstStates
    <2>2. icfg' \in [Insts -> Configs \cup {Null}]
      BY <1>1, <1>2 DEF IInv, TypeOK
    <2>3. todo' \subseteq {n \in Names : file'[n] # Null}
      BY <1>1, <1>3 DEF IInv, TypeOK
    <2> QED
      BY <1>1, <1>3, <2>1, <2>2, <2>3, HangFrees DEF IInv, TypeOK
  <1>5. MapInv'
    BY <1>1, <1>2 DEF IInv, TypeOK, MapInv, InMap
  <1>6. BootInv'
    <2>1. phase = "up" /\ pc[Loader] = "idle" /\ todo = {}
      BY <1>1, <1>2 DEF IInv, PcInv, BootInv, Busy
    <2> QED
      BY <1>1, <2>1, HangFrees DEF IInv, BootInv
  <1>7. \A i \in Insts : InHand(i) => i = h
    BY <1>1, <1>2 DEF IInv, LockInv, HandInv, InHand, Ops
  <1>8. InstInv'
    BY <1>1, <1>2, <1>7 DEF IInv, TypeOK, InstInv, InMap, Begun
  <1>9. PortInv'
    BY <1>1, <1>2 DEF IInv, TypeOK, PortInv, Unlisten
  <1> QED
    BY <1>1, <1>3, <1>4, <1>5, <1>6, <1>8, <1>9, HangFrees DEF IInv

LEMMA OutputReadyStep ==
  ASSUME IInv, NEW i \in Insts, OutputReady(i)
  PROVE  IInv'
  <1>1. /\ st[i] \in {"output", "lateOutput"}
        /\ st' = [st EXCEPT ![i] = IF @ = "output" THEN "bind" ELSE "lateBind"]
        /\ UNCHANGED <<services, icfg, listener, file, stranded, lock, phase, todo, opVars>>
    BY DEF OutputReady
  <1>2. TypeOK' /\ InstInv' /\ PortInv'
    BY <1>1 DEF opVars, IInv, TypeOK, InstInv, PortInv, InMap, InHand, InstStates, Begun
  <1>3. HandInv' /\ OldInv'
    BY <1>1 DEF opVars, IInv, TypeOK, HandInv, OldInv, InMap, Begun, Closed
  <1>4. LockInv' /\ MapInv' /\ PcInv' /\ BootInv' /\ FileInv' /\ ReqInv'
    BY <1>1 DEF opVars, IInv, LockInv, MapInv, PcInv, BootInv, FileInv, ReqInv, CfgAt
  <1> QED
    BY <1>2, <1>3, <1>4 DEF IInv

LEMMA InputRunStep ==
  ASSUME IInv, NEW i \in Insts, InputRun(i)
  PROVE  IInv'
  <1>1. /\ st[i] \in {"bind", "lateBind"}
        /\ st' \in [Insts -> InstStates]
        /\ \A j \in Insts \ {i} : st'[j] = st[j] /\ icfg'[j] = icfg[j]
        /\ st'[i] \in IF st[i] = "bind" THEN {"running", "failed"} ELSE {"late", "stopped"}
        /\ icfg'[i] \in {icfg[i], Null}
        /\ icfg'[i] # icfg[i] => st'[i] = "stopped" /\ ~InMap(i) /\ ~InHand(i)
        /\ icfg' \in [Insts -> Configs \cup {Null}]
        /\ UNCHANGED <<services, file, stranded, lock, phase, todo, opVars>>
    BY DEF InputRun, IInv, TypeOK, InstStates
  <1>2. \/ listener' = listener
        \/ /\ listener' = [listener EXCEPT ![icfg[i].port] = i]
           /\ st'[i] \in {"running", "late"}
    BY DEF InputRun, IInv, TypeOK
  <1>3. TypeOK' /\ PortInv'
    BY <1>1, <1>2 DEF opVars, IInv, TypeOK, PortInv
  <1>4. InstInv'
    BY <1>1 DEF opVars, IInv, InstInv, InMap, InHand, Begun
  <1>5. \A j \in Insts : InMap(j) \/ InHand(j) => icfg'[j] = icfg[j]
    BY <1>1
  <1>6. HandInv' /\ OldInv' /\ MapInv'
    <2>1. \A b \in Ops : hand[b] # Null => hand[b] \in Insts /\ InHand(hand[b])
      BY DEF IInv, TypeOK, InHand
    <2>2. \A m \in Names : services[m] # Null => services[m] \in Insts /\ InMap(services[m])
      BY DEF IInv, TypeOK, InMap
    <2>3. HandInv'
      BY <1>1, <1>5, <2>1 DEF opVars, IInv, TypeOK, HandInv, InMap, Begun
    <2>4. OldInv'
      BY <1>1, <2>2 DEF opVars, IInv, TypeOK, OldInv, Closed
    <2>5. MapInv'
      BY <1>1, <1>5, <2>2 DEF IInv, MapInv
    <2> QED
      BY <2>3, <2>4, <2>5
  <1>7. LockInv' /\ PcInv' /\ FileInv'
    BY <1>1 DEF opVars, IInv, LockInv, PcInv, FileInv
  <1>8. \A b \in Ops : pc[b] \in Busy => icfg'[hand[b]] = icfg[hand[b]]
    BY <1>5 DEF IInv, TypeOK, HandInv, InHand
  <1>9. \A b \in Ops : oldName[b] # Null => icfg'[services[oldName[b]]] = icfg[services[oldName[b]]]
    BY <1>5 DEF IInv, TypeOK, OldInv, InMap
  <1>10. BootInv' /\ ReqInv'
    BY <1>1, <1>8, <1>9 DEF opVars, IInv, BootInv, ReqInv, CfgAt, Busy, Ops
  <1> QED
    BY <1>3, <1>4, <1>6, <1>7, <1>10 DEF IInv

(* Start-up and the other process.                                         *)
LEMMA LoadFileStep ==
  ASSUME IInv, LoadFile
  PROVE  IInv'
  <1> DEFINE f == Fresh
  <1>1. PICK n \in todo : Start(f, file[n])
    BY DEF LoadFile
  <1>2. /\ Loader \in Ops /\ phase = "boot" /\ pc[Loader] = "idle"
        /\ n \in Names /\ file[n] \in Configs /\ file[n] # Null /\ file[n].name = n
        /\ Proceed(Loader, "wait", f)
        /\ UNCHANGED <<services, file, stranded, phase, todo, oldName, bak>>
    BY DEF LoadFile, IInv, TypeOK, FileInv, Ops
  <1>3. /\ f \in Insts /\ st[f] = "stopped" /\ ~InMap(f)
        /\ StartState(file[n]) \in Begun \ {"running"}
    BY <1>2, FreshUnused, StartStates DEF LoadFile
  <1>4. /\ \A b \in Ops : /\ hand[b] = Null /\ oldName[b] = Null /\ bak[b] = Null
                          /\ pc[b] = "idle"
    BY <1>2 DEF IInv, PcInv, HandInv, Busy, Ops
  <1> HIDE DEF f
  <1>5. TypeOK'
    BY <1>1, <1>2, <1>3, StateSets DEF Start, Proceed, Goto, IInv, TypeOK, OpPC
  <1>6. LockInv' /\ HandInv' /\ OldInv' /\ FileInv'
    BY <1>1, <1>2, <1>3, <1>4 DEF Start, Proceed, Goto, IInv, TypeOK, LockInv, HandInv, OldInv, FileInv, InMap, Busy
  <1>7. MapInv' /\ PortInv'
    BY <1>1, <1>2, <1>3 DEF Start, IInv, TypeOK, MapInv, PortInv, InMap
  <1>8. InstInv'
    <2>1. \A i \in Insts : (InMap(i)' <=> InMap(i)) /\ ~InHand(i) /\ (InHand(i)' <=> i = f)
      BY <1>2, <1>3, <1>4 DEF Proceed, IInv, TypeOK, InMap, InHand
    <2> QED
      BY <1>1, <1>2, <1>3, <2>1 DEF Start, IInv, TypeOK, InstInv
  <1>9. PcInv' /\ BootInv' /\ ReqInv'
    BY <1>1, <1>2, <1>3, <1>4 DEF Start, Proceed, Goto, IInv, TypeOK, PcInv, BootInv, ReqInv, Busy, Ops
  <1> QED
    BY <1>5, <1>6, <1>7, <1>8, <1>9 DEF IInv

LEMMA LoadDoneStep ==
  ASSUME IInv, LoadDone
  PROVE  IInv'
  <1>1. TypeOK' /\ PcInv' /\ BootInv'
    BY DEF LoadDone, instVars, opVars, IInv, TypeOK, PcInv, BootInv
  <1>2. LockInv' /\ HandInv' /\ MapInv' /\ InstInv' /\ PortInv' /\ OldInv' /\ FileInv' /\ ReqInv'
    BY DEF LoadDone, instVars, opVars, IInv, LockInv, HandInv, MapInv, InstInv, PortInv, OldInv, FileInv,
           ReqInv, InMap, InHand, CfgAt
  <1> QED
    BY <1>1, <1>2 DEF IInv

LEMMA SquatStep ==
  ASSUME IInv, NEW p \in Ports, Squat(p)
  PROVE  IInv'
  <1>1. TypeOK' /\ PortInv'
    BY DEF Squat, opVars, IInv, TypeOK, PortInv
  <1>2. LockInv' /\ HandInv' /\ MapInv' /\ InstInv' /\ OldInv'
    BY DEF Squat, opVars, IInv, LockInv, HandInv, MapInv, InstInv, OldInv, InMap, InHand
  <1>3. PcInv' /\ BootInv' /\ FileInv' /\ ReqInv'
    BY DEF Squat, opVars, IInv, PcInv, BootInv, FileInv, ReqInv, CfgAt
  <1> QED
    BY <1>1, <1>2, <1>3 DEF IInv

LEMMA NextInv == IInv /\ [Next]_vars => IInv'
  <1> SUFFICES ASSUME IInv, [Next]_vars PROVE IInv'
    OBVIOUS
  <1>1. ASSUME NEW a \in Admins, NEW r \in Requests, Request(a, r) PROVE IInv'
    BY <1>1, RequestStep
  <1>2. ASSUME NEW a \in Ops, OpStep(a) PROVE IInv'
    <2>1. CASE AddService(a) \/ ReplaceService(a) \/ SetServiceDisabled(a)
      BY <2>1, AddServiceStep, ReplaceServiceStep, SetServiceDisabledStep
    <2>2. CASE UnlinkFile(a) \/ RemoveService(a)
      BY <2>2, UnlinkFileStep, RemoveServiceStep
    <2>3. CASE WaitOK(a) \/ AddFailed(a)
      BY <2>3, WaitOKStep, AddFailedStep
    <2>4. CASE ReplaceFailed(a)
      BY <2>4, RollbackStep DEF ReplaceFailed
    <2>5. CASE CreateFile(a) \/ BackupFile(a) \/ RenameFile(a)
      BY <2>5, CreateFileStep, BackupFileStep, RenameFileStep
    <2>6. CASE RollbackDone(a) \/ RollbackFailed(a)
      BY <2>6, RollbackDoneStep, RollbackFailedStep
    <2>7. CASE CloseOldHangs(a) \/ CloseNewHangs(a)
      BY <2>7, CloseOldHangsStep, CloseNewHangsStep
    <2> QED
      BY <1>2, <2>1, <2>2, <2>3, <2>4, <2>5, <2>6, <2>7 DEF OpStep
  <1>3. ASSUME NEW i \in Insts, OutputReady(i) \/ InputRun(i) PROVE IInv'
    BY <1>3, OutputReadyStep, InputRunStep
  <1>4. CASE Crash
    BY <1>4, ResetStep DEF Crash, Saved
  <1>5. CASE Load
    <2>1. CASE LoadFailed
      BY <2>1, ResetStep DEF LoadFailed
    <2> QED
      BY <1>5, <2>1, LoadFileStep, LoadDoneStep DEF Load
  <1>6. ASSUME NEW p \in Ports, Squat(p) PROVE IInv'
    BY <1>6, SquatStep
  <1>7. CASE UNCHANGED vars
    <2>1. TypeOK' /\ LockInv' /\ HandInv' /\ MapInv' /\ InstInv' /\ PortInv'
      BY <1>7 DEF vars, instVars, opVars, IInv, TypeOK, LockInv, HandInv, MapInv, InstInv, PortInv, InMap, InHand
    <2>2. OldInv' /\ PcInv' /\ BootInv' /\ FileInv' /\ ReqInv'
      BY <1>7 DEF vars, instVars, opVars, IInv, OldInv, PcInv, BootInv, FileInv, ReqInv, CfgAt
    <2> QED
      BY <2>1, <2>2 DEF IInv
  <1> QED
    BY <1>1, <1>2, <1>3, <1>4, <1>5, <1>6, <1>7 DEF Next

LEMMA InvHolds == Spec => []IInv
  BY InitInv, NextInv, PTL DEF Spec

(* The manager's variables keep their types, through crashes and restarts. *)
THEOREM ManagerTypeCorrect == Spec => []TypeOK
  <1>1. IInv => TypeOK
    BY DEF IInv
  <1> QED
    BY <1>1, InvHolds, PTL

(* No port is leaked: whoever listens is registered, in the hands of the   *)
(* operation that started it, or was closed before it had bound its port.  *)
THEOREM ManagerListenersAccounted == Spec => []ListenersAccounted
  <1>1. IInv => ListenersAccounted
    BY DEF IInv, PortInv, InstInv, ListenersAccounted, Begun
  <1> QED
    BY <1>1, InvHolds, PTL
-----------------------------------------------------------------------------
(* A removal that has deleted the file of n and waits for the lock or in   *)
(* Close, or a backup of n that could not be put back; and a replacement   *)
(* of n between its two renames.                                           *)
Removing(n) == \E a \in Admins :
                 pc[a] \in {"lock", "hung"} /\ req[a].op = "remove" /\ req[a].name = n
Excused(n)  == Removing(n) \/ n \in stranded
Moving(n)   == \E a \in Admins : pc[a] = "rename" /\ oldName[a] = n

(* The backup made by replaceServiceFile is the configuration of the       *)
(* tunnel that is being replaced, unless the file was missing already or a *)
(* removal took it first: it does so without the lock, and then waits for  *)
(* it, so that it is still waiting when the replacement ends.              *)
BakInv == \A a \in Admins : pc[a] = "rename" =>
            bak[a] = CfgAt(oldName[a]) \/ Excused(oldName[a])

(* A file or backup is the one of the registered tunnel, or it is missing; *)
(* between the two renames it is missing.                                  *)
FitInv ==
  /\ \A n \in Names : services[n] # Null => file[n] \in {CfgAt(n), Null}
  /\ \A a \in Admins : pc[a] = "rename" => /\ bak[a] \in {CfgAt(oldName[a]), Null}
                                           /\ file[oldName[a]] = Null

(* The file a removal has deleted stays deleted, if nobody else is there.  *)
ErasedInv == \A a \in Admins :
               Admins = {a} /\ pc[a] \in {"lock", "hung"} /\ req[a].op = "remove" => file[req[a].name] = Null

(* Manager.Run registers what the files hold.                              *)
LoadedInv == phase = "boot" => \A n \in Names : n \in todo \/ View[n] = file[n]

DiskInv == SavedUnlessBusy /\ BakInv /\ FitInv /\ ErasedInv /\ LoadedInv

SavedInv == IInv /\ DiskInv

LEMMA SavedCases ==
  ASSUME SavedUnlessBusy, NEW n \in Names, services[n] # Null
  PROVE  file[n] = icfg[services[n]] \/ Moving(n) \/ Excused(n)
  BY DEF SavedUnlessBusy, Moving, Excused, Removing, CfgAt

(* A step of the operation a, which is not a removal that waits, leaves    *)
(* the removals of the others where they are.                              *)
LEMMA ExcusedKept ==
  ASSUME NEW a, ~(pc[a] \in {"lock", "hung"} /\ req[a].op = "remove"), NEW n,
         n \in stranded => n \in stranded',
         \A b \in Admins \ {a} : pc'[b] = pc[b] /\ req'[b] = req[b],
         Excused(n)
  PROVE  Excused(n)'
  BY DEF Excused, Removing

(* A step that touches neither files, entries nor administrators.          *)
LEMMA SavedQuiet ==
  ASSUME SavedInv, UNCHANGED <<services, file, stranded>>,
         \A a \in Admins : /\ pc'[a] = pc[a] /\ req'[a] = req[a]
                           /\ oldName'[a] = oldName[a] /\ bak'[a] = bak[a],
         \A n \in Names : services[n] # Null => icfg'[services[n]] = icfg[services[n]],
         phase' = "boot" => UNCHANGED <<phase, todo>>
  PROVE  DiskInv'
  <1>1. \A n : (Excused(n) => Excused(n)') /\ (Moving(n) => Moving(n)')
    BY DEF Excused, Removing, Moving
  <1>2. SavedUnlessBusy'
    <2> SUFFICES ASSUME NEW n \in Names, services'[n] # Null
                 PROVE  file'[n] = icfg'[services'[n]] \/ Moving(n)' \/ Excused(n)'
      BY DEF SavedUnlessBusy, Moving, Excused, Removing, CfgAt
    <2>1. file[n] = icfg[services[n]] \/ Moving(n) \/ Excused(n)
      BY SavedCases DEF SavedInv, DiskInv
    <2> QED
      BY <1>1, <2>1
  <1>3. BakInv'
    <2> SUFFICES ASSUME NEW b \in Admins, pc[b] = "rename"
                 PROVE  bak[b] = icfg'[services[oldName[b]]] \/ Excused(oldName[b])'
      BY DEF BakInv, CfgAt
    <2>1. oldName[b] \in Names /\ services[oldName[b]] # Null
      BY DEF SavedInv, IInv, TypeOK, PcInv, OldInv, Ops
    <2>2. bak[b] = icfg[services[oldName[b]]] \/ Excused(oldName[b])
      BY DEF SavedInv, DiskInv, BakInv, CfgAt
    <2> QED
      BY <1>1, <2>1, <2>2
  <1>4. FitInv'
    BY DEF SavedInv, DiskInv, FitInv, CfgAt, IInv, TypeOK, PcInv, OldInv, Ops
  <1>5. ErasedInv' /\ LoadedInv'
    BY DEF SavedInv, DiskInv, ErasedInv, LoadedInv, View, CfgAt
  <1> QED
    BY <1>2, <1>3, <1>4, <1>5 DEF DiskInv

(* Requests, and operations that only start or drop an instance.           *)
LEMMA SavedStart ==
  ASSUME SavedInv, NEW a \in Ops,
         \/ AddService(a) \/ ReplaceService(a) \/ SetServiceDisabled(a)
         \/ AddFailed(a)
         \/ WaitOK(a) /\ a # Loader
         \/ \E r \in Requests : a \in Admins /\ Request(a, r)
  PROVE  DiskInv'
  <1>1. /\ UNCHANGED <<services, file, stranded>>
        /\ pc[a] \notin {"rename", "rollback", "unlink", "hung"}
        /\ pc[a] = "lock" => req[a].op # "remove"
        /\ pc' = [pc EXCEPT ![a] = pc'[a]] /\ pc'[a] # "rename"
    BY SMTT(40) DEF AddService, ReplaceService, SetServiceDisabled, WaitOK, AddFailed, Request, Locking,
           Reject, Return, Proceed, Succeed, Goto, SavedInv, IInv, TypeOK, Ops
  <1>2. \A b \in Admins \ {a} : /\ pc'[b] = pc[b] /\ req'[b] = req[b]
                                /\ oldName'[b] = oldName[b] /\ bak'[b] = bak[b]
    BY SMTT(40) DEF AddService, ReplaceService, SetServiceDisabled, WaitOK, AddFailed, Request, Locking,
           Reject, Return, Proceed, Succeed, Goto, SavedInv, IInv, TypeOK, Ops
  <1>3. \A n \in Names : services[n] # Null => icfg'[services[n]] = icfg[services[n]]
    BY FreshUnused DEF AddService, ReplaceService, SetServiceDisabled, WaitOK, AddFailed, Request, Reject,
           Start, Succeed, instVars, SavedInv, IInv, TypeOK, HandInv, Busy, InMap
  <1>4. ASSUME NEW n PROVE Excused(n) => Excused(n)'
    BY <1>1, <1>2, ExcusedKept
  <1>5. \A n : Moving(n) => Moving(n)'
    BY <1>1, <1>2 DEF Moving
  <1>6. SavedUnlessBusy'
    <2> SUFFICES ASSUME NEW n \in Names, services'[n] # Null
                 PROVE  file'[n] = icfg'[services'[n]] \/ Moving(n)' \/ Excused(n)'
      BY DEF SavedUnlessBusy, Moving, Excused, Removing, CfgAt
    <2>1. file[n] = icfg[services[n]] \/ Moving(n) \/ Excused(n)
      BY <1>1, SavedCases DEF SavedInv, DiskInv
    <2> QED
      BY <1>1, <1>3, <1>4, <1>5, <2>1
  <1>7. BakInv'
    <2> SUFFICES ASSUME NEW b \in Admins, pc'[b] = "rename", NEW m, m = oldName'[b]
                 PROVE  bak'[b] = icfg'[services'[m]] \/ Excused(m)'
      BY DEF BakInv, CfgAt, Excused, Removing
    <2>1. b # a /\ pc[b] = "rename" /\ oldName'[b] = oldName[b] /\ bak'[b] = bak[b]
      BY <1>1, <1>2
    <2>2. oldName[b] \in Names /\ services[oldName[b]] # Null
      BY <2>1 DEF SavedInv, IInv, TypeOK, PcInv, OldInv, Ops
    <2>3. bak[b] = icfg[services[oldName[b]]] \/ Excused(oldName[b])
      BY <2>1 DEF SavedInv, DiskInv, BakInv, CfgAt
    <2> QED
      BY <1>1, <1>3, <1>4, <2>1, <2>2, <2>3
  <1>8. /\ a \in Admins
        /\ phase' = "up"
        /\ ~(pc'[a] \in {"lock", "hung"} /\ req'[a].op = "remove")
    BY SMTT(40) DEF AddService, ReplaceService, SetServiceDisabled, WaitOK, AddFailed, Request, Locking,
           Reject, Return, Proceed, Succeed, Goto, SavedInv, IInv, TypeOK, PcInv, Ops
  <1>9. FitInv'
    <2>1. \A n \in Names : services'[n] # Null => file'[n] \in {icfg'[services'[n]], Null}
      BY <1>1, <1>3 DEF SavedInv, DiskInv, FitInv, CfgAt
    <2>2. ASSUME NEW b \in Admins, pc'[b] = "rename"
          PROVE  bak'[b] \in {icfg'[services'[oldName'[b]]], Null} /\ file'[oldName'[b]] = Null
      <3>1. b # a /\ pc[b] = "rename" /\ oldName'[b] = oldName[b] /\ bak'[b] = bak[b]
        BY <1>1, <1>2, <2>2
      <3>2. oldName[b] \in Names /\ services[oldName[b]] # Null
        BY <3>1 DEF SavedInv, IInv, TypeOK, PcInv, OldInv, Ops
      <3> QED
        BY <1>1, <1>3, <3>1, <3>2 DEF SavedInv, DiskInv, FitInv, CfgAt
    <2> QED
      BY <2>1, <2>2 DEF FitInv, CfgAt
  <1>10. ErasedInv' /\ LoadedInv'
    BY <1>8 DEF ErasedInv, LoadedInv
  <1> QED
    BY <1>6, <1>7, <1>9, <1>10 DEF DiskInv

(* RemoveService: the file goes first, then the entry.                     *)
LEMMA SavedRemove ==
  ASSUME SavedInv, NEW a \in Ops, UnlinkFile(a) \/ RemoveService(a)
  PROVE  DiskInv'
  <1> DEFINE n == req[a].name
  <1>1. a \in Admins /\ req[a].op = "remove" /\ n \in Names /\ pc[a] \in {"unlink", "lock"}
    BY RequestFields DEF UnlinkFile, RemoveService, Locking, SavedInv, IInv, TypeOK, PcInv, Ops
  <1>2. /\ UNCHANGED <<services, icfg>> \/ RemoveService(a)
        /\ \A b \in Admins \ {a} : /\ pc'[b] = pc[b] /\ req'[b] = req[b]
                                   /\ oldName'[b] = oldName[b] /\ bak'[b] = bak[b]
        /\ pc'[a] \notin {"rename", "hung"}
        /\ UNCHANGED stranded
    BY DEF UnlinkFile, RemoveService, Return, Goto, instVars, SavedInv, IInv, TypeOK, Ops
  <1>3. \A m : Moving(m) => Moving(m)'
    BY <1>1, <1>2 DEF Moving
  <1>4. LoadedInv'
    BY <1>1 DEF UnlinkFile, RemoveService, SavedInv, IInv, PcInv, LoadedInv
  <1>5. CASE UnlinkFile(a)
    <2>1. \A m : Excused(m) => Excused(m)'
      BY <1>2, <1>5, ExcusedKept DEF UnlinkFile
    <2>2. /\ UNCHANGED <<services, icfg>>
          /\ \/ UNCHANGED file
             \/ file' = [file EXCEPT ![n] = Null] /\ \A m : m = n => Excused(m)'
      BY <1>1, <1>5 DEF UnlinkFile, Goto, instVars, Excused, Removing, SavedInv, IInv, TypeOK, Ops
    <2>3. SavedUnlessBusy'
      <3> SUFFICES ASSUME NEW m \in Names, services'[m] # Null
                   PROVE  file'[m] = icfg'[services'[m]] \/ Moving(m)' \/ Excused(m)'
        BY DEF SavedUnlessBusy, Moving, Excused, Removing, CfgAt
      <3>1. CASE Excused(m)'
        BY <3>1
      <3>2. CASE file'[m] = file[m]
        <4>1. file[m] = icfg[services[m]] \/ Moving(m) \/ Excused(m)
          BY <2>2, SavedCases DEF SavedInv, DiskInv
        <4> QED
          BY <1>3, <2>1, <2>2, <3>2, <4>1
      <3> QED
        BY <2>2, <3>1, <3>2 DEF SavedInv, IInv, TypeOK
    <2>4. BakInv'
      <3> SUFFICES ASSUME NEW b \in Admins, pc'[b] = "rename", NEW m, m = oldName'[b]
                   PROVE  bak'[b] = icfg'[services'[m]] \/ Excused(m)'
        BY DEF BakInv, CfgAt, Excused, Removing
      <3>1. pc[b] = "rename" /\ oldName'[b] = oldName[b] /\ bak'[b] = bak[b]
        BY <1>2
      <3>2. bak[b] = icfg[services[oldName[b]]] \/ Excused(oldName[b])
        BY <3>1 DEF SavedInv, DiskInv, BakInv, CfgAt
      <3> QED
        BY <2>1, <2>2, <3>1, <3>2
    <2>5. FitInv'
      <3>1. \A m \in Names : file'[m] \in {file[m], Null}
        BY <2>2 DEF SavedInv, IInv, TypeOK
      <3>2. \A b \in Admins : pc'[b] = "rename" =>
              /\ pc[b] = "rename" /\ oldName'[b] = oldName[b] /\ bak'[b] = bak[b]
              /\ oldName[b] \in Names
        BY <1>2 DEF SavedInv, IInv, TypeOK, PcInv, Ops
      <3> QED
        BY <2>2, <3>1, <3>2 DEF SavedInv, DiskInv, FitInv, CfgAt
    <2>6. ErasedInv'
      <3>1. pc'[a] = "lock" => req'[a].name = n /\ file'[n] = Null
        BY <1>1, <1>5 DEF UnlinkFile, Goto, SavedInv, IInv, TypeOK, Ops
      <3> QED
        BY <1>1, <1>2, <3>1 DEF ErasedInv
    <2> QED
      BY <1>4, <2>3, <2>4, <2>5, <2>6 DEF DiskInv
  <1>6. CASE RemoveService(a)
    <2>1. /\ \A m \in Names : services'[m] # Null => m # n /\ services'[m] = services[m]
          /\ UNCHANGED file
          /\ lock = Null
      BY <1>1, <1>6 DEF RemoveService, Locking, Return, Goto, SavedInv, IInv, TypeOK
    <2>2. \A m \in Names : services'[m] # Null => icfg'[services[m]] = icfg[services[m]]
      BY <1>1, <1>6, <2>1 DEF RemoveService, instVars, SavedInv, IInv, TypeOK, MapInv
    <2>3. \A m : m # n /\ Excused(m) => Excused(m)'
      BY <1>2 DEF Excused, Removing
    <2>4. SavedUnlessBusy'
      <3> SUFFICES ASSUME NEW m \in Names, services'[m] # Null
                   PROVE  file'[m] = icfg'[services'[m]] \/ Moving(m)' \/ Excused(m)'
        BY DEF SavedUnlessBusy, Moving, Excused, Removing, CfgAt
      <3> QED
        BY <1>3, <2>1, <2>2, <2>3, SavedCases DEF SavedInv, DiskInv
    <2>5. \A b \in Admins : pc'[b] # "rename"
      BY <1>2, <2>1 DEF SavedInv, IInv, LockInv, Busy, Ops
    <2>6. FitInv'
      BY <2>1, <2>2, <2>5 DEF SavedInv, DiskInv, FitInv, CfgAt
    <2>7. ErasedInv'
      <3>1. pc'[a] = "idle"
        BY <1>1, <1>6 DEF RemoveService, Return, Goto, SavedInv, IInv, TypeOK, Ops
      <3> QED
        BY <1>1, <3>1 DEF ErasedInv
    <2> QED
      BY <1>4, <2>4, <2>5, <2>6, <2>7 DEF DiskInv, BakInv
  <1> QED
    BY <1>5, <1>6

(* The files of an added tunnel, and of one that Manager.Run has loaded.   *)
LEMMA SavedCreate ==
  ASSUME SavedInv, NEW a \in Ops, CreateFile(a) \/ (WaitOK(a) /\ a = Loader)
  PROVE  DiskInv'
  <1> DEFINE h == hand[a]
             n == icfg[h].name
  <1>1. h \in Insts /\ ~InMap(h) /\ n \in Names /\ pc[a] \in {"save", "wait"}
    BY ConfigFields DEF CreateFile, WaitOK, SavedInv, IInv, TypeOK, HandInv, Busy
  <1>2. \A b \in Admins : pc[b] # "rename"
    BY <1>1 DEF SavedInv, IInv, LockInv, Busy, Ops
  <1>3. /\ \A b \in Admins \ {a} : pc'[b] = pc[b] /\ req'[b] = req[b]
        /\ pc'[a] # "rename"
    BY DEF CreateFile, WaitOK, Return, Goto, SavedInv, IInv, TypeOK, Ops
  <1>4. ASSUME NEW m, m # n \/ UNCHANGED stranded PROVE Excused(m) => Excused(m)'
    <2>1. m \in stranded => m \in stranded'
      BY <1>4 DEF CreateFile, WaitOK
    <2> QED
      BY <1>1, <1>3, <2>1, ExcusedKept
  <1>5. \A m \in Names : services[m] # Null => icfg'[services[m]] = icfg[services[m]]
    BY <1>1 DEF CreateFile, WaitOK, instVars, SavedInv, IInv, TypeOK, InMap
  <1>6. \A m \in Names : services'[m] # Null =>
          \/ m = n /\ services'[m] = h /\ icfg'[h] = icfg[h] /\ file'[m] = icfg[h]
          \/ /\ services'[m] = services[m] /\ file'[m] = file[m]
             /\ m # n \/ UNCHANGED stranded
    BY <1>1 DEF CreateFile, WaitOK, instVars, SavedInv, IInv, TypeOK, BootInv
  <1>7. SavedUnlessBusy'
    <2> SUFFICES ASSUME NEW m \in Names, services'[m] # Null
                 PROVE  file'[m] = icfg'[services'[m]] \/ Moving(m)' \/ Excused(m)'
      BY DEF SavedUnlessBusy, Moving, Excused, Removing, CfgAt
    <2>1. ~Moving(m)
      BY <1>2 DEF Moving
    <2> QED
      BY <1>4, <1>5, <1>6, <2>1, SavedCases DEF SavedInv, DiskInv
  <1>8. BakInv'
    BY <1>2, <1>3 DEF BakInv
  <1>9. FitInv'
    <2>1. \A b \in Admins : pc'[b] # "rename"
      BY <1>2, <1>3
    <2>2. \A m \in Names : services'[m] # Null => file'[m] \in {icfg'[services'[m]], Null}
      BY <1>5, <1>6 DEF SavedInv, DiskInv, FitInv, CfgAt
    <2> QED
      BY <2>1, <2>2 DEF FitInv, CfgAt
  <1>10. ErasedInv' /\ LoadedInv'
    <2>1. CASE a # Loader
      <3>1. a \in Admins /\ pc'[a] = "idle" /\ phase' = "up"
        BY <1>1, <2>1 DEF CreateFile, Return, Goto, SavedInv, IInv, TypeOK, PcInv, Ops
      <3> QED
        BY <3>1 DEF ErasedInv, LoadedInv
    <2>2. CASE a = Loader
      <3>1. \A b \in Admins : pc[b] = "idle" /\ pc'[b] = "idle"
        BY <1>1, <1>3, <2>2 DEF SavedInv, IInv, PcInv, BootInv
      <3>2. /\ WaitOK(a) /\ UNCHANGED <<file, stranded, icfg>>
            /\ services' = [services EXCEPT ![n] = h]
            /\ todo' = todo \ {n}
            /\ file[n] = icfg[h] /\ phase' = phase
        BY <1>1, <2>2 DEF CreateFile, WaitOK, instVars, SavedInv, IInv, TypeOK, PcInv, BootInv
      <3>3. ASSUME phase = "boot", NEW m \in Names
            PROVE  m \in todo' \/ View'[m] = file'[m]
        <4>1. CASE m = n
          BY <1>1, <3>2, <4>1 DEF View, CfgAt, SavedInv, IInv, TypeOK
        <4>2. CASE m # n
          <5>1. services'[m] = services[m] /\ (m \in todo => m \in todo')
            BY <1>1, <3>2, <4>2 DEF SavedInv, IInv, TypeOK
          <5> QED
            BY <3>2, <3>3, <5>1 DEF View, CfgAt, SavedInv, DiskInv, LoadedInv
        <4> QED
          BY <4>1, <4>2
      <3> QED
        BY <3>1, <3>2, <3>3 DEF ErasedInv, LoadedInv
    <2> QED
      BY <2>1, <2>2
  <1> QED
    BY <1>7, <1>8, <1>9, <1>10 DEF DiskInv

(* A save that fails leaves every file as it was, but for the backup that  *)
(* cannot be put back.                                                     *)
LEMMA FilesAfterFailure ==
  ASSUME SavedInv, NEW a \in Admins, pc[a] \in {"wait", "save", "rename", "rollback"},
         IF pc[a] = "rename" THEN Restore(a) ELSE UNCHANGED <<file, stranded>>
  PROVE  /\ \A m \in Names : services[m] # Null =>
              /\ file'[m] = icfg[services[m]] \/ Removing(m) \/ m \in stranded'
              /\ file'[m] \in {icfg[services[m]], Null}
         /\ stranded \subseteq stranded'
  <1>1. \A b \in Admins \ {a} : pc[b] # "rename"
    BY DEF SavedInv, IInv, LockInv, Busy, Ops
  <1>2. \A m \in Names : services[m] # Null =>
          /\ \/ file[m] = icfg[services[m]] \/ (pc[a] = "rename" /\ m = oldName[a])
             \/ Removing(m) \/ m \in stranded
          /\ file[m] \in {icfg[services[m]], Null}
    BY <1>1, SavedCases DEF SavedInv, DiskInv, FitInv, CfgAt, Moving, Excused
  <1>3. CASE pc[a] # "rename"
    BY <1>2, <1>3
  <1>4. CASE pc[a] = "rename"
    <2> DEFINE n == oldName[a]
    <2>1. /\ n \in Names
          /\ bak[a] \in {icfg[services[n]], Null} /\ file[n] = Null
          /\ bak[a] = icfg[services[n]] \/ Removing(n) \/ n \in stranded
      BY <1>4 DEF SavedInv, DiskInv, FitInv, BakInv, Excused, CfgAt, IInv, TypeOK, PcInv, Ops
    <2>2. CASE bak[a] # Null /\ file' = [file EXCEPT ![n] = bak[a]] /\ UNCHANGED stranded
      <3>1. file'[n] = bak[a] /\ \A m \in Names \ {n} : file'[m] = file[m]
        BY <2>1, <2>2 DEF SavedInv, IInv, TypeOK
      <3> QED
        BY <1>2, <2>1, <2>2, <3>1
    <2>3. CASE bak[a] # Null /\ stranded' = stranded \cup {n} /\ UNCHANGED file
      BY <1>2, <2>3
    <2>4. CASE bak[a] = Null /\ UNCHANGED <<file, stranded>>
      <3>1. services[n] # Null => icfg[services[n]] # Null
        BY <2>1 DEF SavedInv, IInv, MapInv
      <3> QED
        BY <1>2, <2>1, <2>4, <3>1
    <2> QED
      BY <1>4, <2>2, <2>3, <2>4 DEF Restore
  <1> QED
    BY <1>3, <1>4

(* The replacement of a tunnel: between the two renames its file is only   *)
(* the backup, and every way out restores agreement.                       *)
LEMMA SavedReplace ==
  ASSUME SavedInv, NEW a \in Ops,
         \/ ReplaceFailed(a) \/ BackupFile(a) \/ RenameFile(a)
         \/ RollbackDone(a) \/ RollbackFailed(a)
  PROVE  DiskInv'
  <1> DEFINE h == hand[a]
             n == oldName[a]
             o == services[n]
  <1>1. /\ a \in Admins /\ pc[a] \in {"wait", "save", "rename", "rollback"}
        /\ n \in Names /\ n # Null
    BY DEF ReplaceFailed, BackupFile, RenameFile, RollbackDone, RollbackFailed, SavedInv, IInv, TypeOK, PcInv, Ops
  <1>2. /\ h \in Insts /\ ~InMap(h) /\ o \in Insts /\ o # h
        /\ icfg[h] \in Configs /\ icfg[h].name \in Names
        /\ icfg[o] \in Configs /\ icfg[o] # Null
    BY <1>1, ConfigFields DEF SavedInv, IInv, TypeOK, HandInv, OldInv, MapInv, Busy, InMap
  <1>3. /\ \A b \in Admins \ {a} : /\ pc[b] \notin Busy /\ pc[b] # "rename"
                                   /\ pc'[b] = pc[b] /\ req'[b] = req[b]
    BY <1>1 DEF ReplaceFailed, BackupFile, RenameFile, RollbackDone, RollbackFailed, Rollback, Return, Goto,
           SavedInv, IInv, TypeOK, LockInv, Busy, Ops
  <1>4. ASSUME NEW m, m \in stranded => m \in stranded' PROVE Excused(m) => Excused(m)'
    BY <1>1, <1>3, <1>4, ExcusedKept
  <1>5. \A m \in Names : services[m] # Null =>
          file[m] = icfg[services[m]] \/ (m = n /\ pc[a] = "rename") \/ Excused(m)
    <2> SUFFICES ASSUME NEW m \in Names, services[m] # Null, Moving(m)
                 PROVE  m = oldName[a] /\ pc[a] = "rename"
      BY SavedCases DEF SavedInv, DiskInv
    <2> QED
      BY <1>3 DEF Moving
  <1>6. pc[a] = "rename" => bak[a] = icfg[o] \/ Excused(n)
    BY <1>1 DEF SavedInv, DiskInv, BakInv, CfgAt
  <1>7. \A m \in Names : services[m] = o => m = n
    BY <1>1, <1>2 DEF SavedInv, IInv, MapInv
  <1>8. ErasedInv' /\ LoadedInv'
    <2>1. pc'[a] \notin {"lock", "hung"} /\ phase' = "up"
      BY <1>1, SMTT(30) DEF ReplaceFailed, BackupFile, RenameFile, RollbackDone, RollbackFailed, Rollback, Return,
             Goto, SavedInv, IInv, TypeOK, PcInv, Ops
    <2> QED
      BY <1>1, <2>1 DEF ErasedInv, LoadedInv
  <1>9. /\ \A m \in Names : services[m] # Null => file[m] \in {icfg[services[m]], Null}
        /\ pc[a] = "rename" => bak[a] \in {icfg[o], Null} /\ file[n] = Null
    BY <1>1 DEF SavedInv, DiskInv, FitInv, CfgAt
  <1>10. ASSUME pc'[a] # "rename",
                \A m \in Names : services'[m] # Null =>
                 /\ file'[m] = icfg'[services'[m]] \/ Excused(m)'
                 /\ file'[m] \in {icfg'[services'[m]], Null}
        PROVE  DiskInv'
    <2>1. SavedUnlessBusy'
      <3> SUFFICES ASSUME NEW m \in Names, services'[m] # Null
                   PROVE  file'[m] = icfg'[services'[m]] \/ Moving(m)' \/ Excused(m)'
        BY DEF SavedUnlessBusy, Moving, Excused, Removing, CfgAt
      <3> QED
        BY <1>10
    <2>2. BakInv' /\ FitInv'
      BY <1>3, <1>10 DEF BakInv, FitInv, CfgAt
    <2> QED
      BY <1>8, <2>1, <2>2 DEF DiskInv
  <1>11. CASE /\ Rollback(a)
              /\ IF pc[a] = "rename" THEN Restore(a) ELSE UNCHANGED <<file, stranded>>
    <2>1. \A m \in Names : services[m] # Null => icfg'[services[m]] = icfg[services[m]]
      BY <1>2, <1>11, FreshUnused DEF Rollback, SavedInv, IInv, TypeOK, InMap
    <2>2. /\ \A m \in Names : services[m] # Null =>
               /\ file'[m] = icfg[services[m]] \/ Removing(m) \/ m \in stranded'
               /\ file'[m] \in {icfg[services[m]], Null}
          /\ stranded \subseteq stranded'
      BY <1>1, <1>11, FilesAfterFailure
    <2>3. \A m : Removing(m) \/ m \in stranded' => Excused(m)'
      <3> SUFFICES ASSUME NEW m, Removing(m) PROVE Removing(m)'
        BY DEF Excused
      <3> QED
        BY <1>1, <1>3 DEF Removing
    <2>4. UNCHANGED services /\ pc'[a] = "rollback"
      BY <1>1, <1>11 DEF Rollback, Goto, SavedInv, IInv, TypeOK, Ops
    <2> QED
      BY <1>10, <2>1, <2>2, <2>3, <2>4
  <1>12. CASE BackupFile(a) /\ Goto(a, "rename")
    <2>1. /\ bak' = [bak EXCEPT ![a] = file[n]]
          /\ file' = [file EXCEPT ![n] = Null]
          /\ pc' = [pc EXCEPT ![a] = "rename"]
          /\ UNCHANGED <<services, icfg, oldName, stranded>>
          /\ pc[a] = "save"
      BY <1>1, <1>12 DEF BackupFile, Rollback, Goto, instVars, SavedInv, IInv, TypeOK
    <2>2. Moving(n)'
      BY <1>1, <2>1 DEF Moving, SavedInv, IInv, TypeOK
    <2>3. SavedUnlessBusy'
      <3> SUFFICES ASSUME NEW m \in Names, services'[m] # Null
                   PROVE  file'[m] = icfg'[services'[m]] \/ Moving(m)' \/ Excused(m)'
        BY DEF SavedUnlessBusy, Moving, Excused, Removing, CfgAt
      <3>1. m # n => file'[m] = file[m]
        BY <1>1, <2>1 DEF SavedInv, IInv, TypeOK
      <3> QED
        BY <1>4, <1>5, <2>1, <2>2, <3>1
    <2>4. BakInv'
      <3>1. bak'[a] = file[n] /\ oldName'[a] = n
        BY <1>1, <2>1 DEF SavedInv, IInv, TypeOK
      <3>2. file[n] = icfg[o] \/ Excused(n)
        BY <1>1, <1>2, <1>5, <2>1
      <3> QED
        BY <1>3, <1>4, <2>1, <3>1, <3>2 DEF BakInv, CfgAt
    <2>5. FitInv'
      <3>1. /\ bak'[a] = file[n] /\ oldName'[a] = n /\ file'[n] = Null
            /\ \A m \in Names \ {n} : file'[m] = file[m]
        BY <1>1, <2>1 DEF SavedInv, IInv, TypeOK
      <3> QED
        BY <1>1, <1>2, <1>3, <1>9, <2>1, <3>1 DEF FitInv, CfgAt
    <2> QED
      BY <1>8, <2>3, <2>4, <2>5 DEF DiskInv
  <1>13. CASE RenameFile(a) /\ Return(a, "ok")
    <2>1. /\ pc[a] = "rename"
          /\ file' = [file EXCEPT ![icfg[h].name] = icfg[h]]
          /\ stranded' = stranded \ {icfg[h].name}
          /\ services' = [services EXCEPT ![n] = Null, ![icfg[h].name] = h]
          /\ icfg' = [icfg EXCEPT ![o] = KeptCfg(o)]
          /\ pc' = [pc EXCEPT ![a] = "idle"]
      BY <1>1, <1>13 DEF RenameFile, NewName, Rollback, Return, Goto, SavedInv, IInv, TypeOK
    <2>2. \A m \in Names : services'[m] # Null =>
            \/ m = icfg[h].name /\ services'[m] = h
            \/ m # icfg[h].name /\ m # n /\ services'[m] = services[m]
      BY <1>1, <1>2, <2>1 DEF SavedInv, IInv, TypeOK
    <2>3. \A m \in Names : services'[m] # Null =>
            /\ file'[m] = icfg'[services'[m]] \/ Excused(m)'
            /\ file'[m] \in {icfg'[services'[m]], Null}
      <3> SUFFICES ASSUME NEW m \in Names, services'[m] # Null
                   PROVE  /\ file'[m] = icfg'[services'[m]] \/ Excused(m)'
                          /\ file'[m] \in {icfg'[services'[m]], Null}
        OBVIOUS
      <3>1. CASE m = icfg[h].name /\ services'[m] = h
        BY <1>2, <2>1, <3>1 DEF SavedInv, IInv, TypeOK
      <3>2. CASE m # icfg[h].name /\ m # n /\ services'[m] = services[m]
        <4>1. file'[m] = file[m] /\ icfg'[services[m]] = icfg[services[m]]
          BY <1>1, <1>2, <1>7, <2>1, <3>2 DEF SavedInv, IInv, TypeOK
        <4> QED
          BY <1>4, <1>5, <1>9, <2>1, <3>2, <4>1
      <3> QED
        BY <2>2, <3>1, <3>2
    <2>4. pc'[a] # "rename"
      BY <1>1, <2>1 DEF SavedInv, IInv, TypeOK, Ops
    <2> QED
      BY <1>10, <2>3, <2>4
  <1>14. CASE RollbackDone(a) \/ RollbackFailed(a)
    <2>1. /\ pc[a] = "rollback" /\ icfg[h] = icfg[o]
          /\ pc' = [pc EXCEPT ![a] = "idle"]
          /\ UNCHANGED <<file, stranded>>
      BY <1>1, <1>14 DEF RollbackDone, RollbackFailed, Return, Goto, SavedInv, IInv, ReqInv, CfgAt, Busy
    <2>2. \A m \in Names : services'[m] # Null =>
            \/ m = n /\ services'[m] = h /\ icfg'[h] = icfg[o]
            \/ m # n /\ services'[m] = services[m] /\ icfg'[services[m]] = icfg[services[m]]
      BY <1>1, <1>2, <1>7, <1>14, <2>1 DEF RollbackDone, RollbackFailed, SavedInv, IInv, TypeOK, InMap
    <2>3. \A m \in Names : services'[m] # Null =>
            /\ file'[m] = icfg'[services'[m]] \/ Excused(m)'
            /\ file'[m] \in {icfg'[services'[m]], Null}
      BY <1>1, <1>2, <1>4, <1>5, <1>9, <2>1, <2>2
    <2>4. pc'[a] # "rename"
      BY <1>1, <2>1 DEF SavedInv, IInv, TypeOK, Ops
    <2> QED
      BY <1>10, <2>3, <2>4
  <1> QED
    BY <1>11, <1>12, <1>13, <1>14 DEF ReplaceFailed, BackupFile, RenameFile

(* A Close that hangs.                                                     *)
LEMMA SavedHang ==
  ASSUME SavedInv, NEW a \in Ops, CloseOldHangs(a) \/ CloseNewHangs(a)
  PROVE  DiskInv'
  <1>1. /\ pc[a] \in Busy \ {"wait"} \/ (pc[a] = "lock" /\ lock = Null)
        /\ Hang(a) /\ UNCHANGED <<services, phase>>
    BY DEF CloseOldHangs, CloseNewHangs, SaveFails, Busy
  <1>2. /\ a \in Admins
        /\ pc' = [pc EXCEPT ![a] = "hung"] /\ UNCHANGED req
        /\ phase' = "up"
        /\ \A b \in Admins : pc'[b] # "rename"
    BY <1>1, HangFrees, SMT DEF SavedInv, IInv, TypeOK, LockInv, PcInv, Hang, Goto, Busy, Ops
  <1>3. \A m \in Names : services[m] # Null => icfg'[services[m]] = icfg[services[m]]
    BY <1>1 DEF CloseOldHangs, CloseNewHangs, SavedInv, IInv, TypeOK, HandInv, Busy, InMap
  <1>4. ASSUME NEW m, Removing(m) PROVE Removing(m)'
    <2>1. PICK b \in Admins : pc[b] \in {"lock", "hung"} /\ req[b].op = "remove" /\ req[b].name = m
      BY <1>4 DEF Removing
    <2>2. pc'[b] \in {"lock", "hung"}
      BY <1>2, <2>1 DEF SavedInv, IInv, TypeOK, Ops
    <2> QED
      BY <1>2, <2>1, <2>2 DEF Removing
  <1>5. \A m \in Names : services[m] # Null =>
          /\ file'[m] = icfg[services[m]] \/ Excused(m)'
          /\ file'[m] \in {icfg[services[m]], Null}
    <2>1. CASE CloseOldHangs(a)
      <3>1. UNCHANGED <<file, stranded>> /\ \A m : ~Moving(m)
        BY <2>1 DEF CloseOldHangs, Moving, SavedInv, IInv, LockInv, Busy, Ops
      <3> QED
        BY <1>4, <3>1, SavedCases DEF Excused, SavedInv, DiskInv, FitInv, CfgAt
    <2>2. CASE CloseNewHangs(a)
      <3>1. /\ pc[a] \in {"save", "rename"}
            /\ IF pc[a] = "rename" THEN Restore(a) ELSE UNCHANGED <<file, stranded>>
        BY <2>2 DEF CloseNewHangs, SaveFails
      <3> QED
        BY <1>2, <1>4, <3>1, FilesAfterFailure DEF Excused
    <2> QED
      BY <2>1, <2>2
  <1>6. SavedUnlessBusy'
    <2> SUFFICES ASSUME NEW m \in Names, services'[m] # Null
                 PROVE  file'[m] = icfg'[services'[m]] \/ Moving(m)' \/ Excused(m)'
      BY DEF SavedUnlessBusy, Moving, Excused, Removing, CfgAt
    <2> QED
      BY <1>1, <1>3, <1>5
  <1>7. BakInv' /\ FitInv'
    BY <1>1, <1>2, <1>3, <1>5 DEF BakInv, FitInv, CfgAt
  <1>8. ErasedInv'
    <2>1. CASE pc[a] = "lock"
      <3>1. UNCHANGED file
        BY <2>1 DEF CloseOldHangs, CloseNewHangs, SaveFails
      <3> QED
        BY <1>2, <2>1, <3>1 DEF SavedInv, DiskInv, ErasedInv
    <2>2. CASE pc[a] # "lock"
      BY <1>1, <1>2, <2>2 DEF SavedInv, IInv, ReqInv, ErasedInv
    <2> QED
      BY <2>1, <2>2
  <1>9. LoadedInv'
    BY <1>2 DEF LoadedInv
  <1> QED
    BY <1>6, <1>7, <1>8, <1>9 DEF DiskInv


LEMMA SavedNext == SavedInv /\ [Next]_vars => DiskInv'
  <1> SUFFICES ASSUME SavedInv, [Next]_vars PROVE DiskInv'
    OBVIOUS
  <1>1. ASSUME NEW a \in Admins, NEW r \in Requests, Request(a, r) PROVE DiskInv'
    BY <1>1, SavedStart DEF Ops
  <1>2. ASSUME NEW a \in Ops, OpStep(a) PROVE DiskInv'
    <2>1. CASE AddService(a) \/ ReplaceService(a) \/ SetServiceDisabled(a) \/ AddFailed(a)
      BY <2>1, SavedStart
    <2>2. CASE UnlinkFile(a) \/ RemoveService(a)
      BY <2>2, SavedRemove
    <2>3. CASE WaitOK(a)
      BY <2>3, SavedStart, SavedCreate
    <2>4. CASE CreateFile(a)
      BY <2>4, SavedCreate
    <2>5. CASE ReplaceFailed(a) \/ BackupFile(a) \/ RenameFile(a) \/ RollbackDone(a) \/ RollbackFailed(a)
      BY <2>5, SavedReplace
    <2>6. CASE CloseOldHangs(a) \/ CloseNewHangs(a)
      BY <2>6, SavedHang
    <2> QED
      BY <1>2, <2>1, <2>2, <2>3, <2>4, <2>5, <2>6 DEF OpStep
  <1>3. ASSUME NEW i \in Insts, OutputReady(i) \/ InputRun(i) PROVE DiskInv'
    <2>1. \A n \in Names : services[n] # Null => icfg'[services[n]] = icfg[services[n]]
      BY <1>3 DEF OutputReady, InputRun, SavedInv, IInv, TypeOK, InMap
    <2> QED
      BY <1>3, <2>1, SavedQuiet DEF OutputReady, InputRun, opVars
  <1>4. CASE Crash \/ LoadFailed
    BY <1>4 DEF Crash, LoadFailed, Reset, Saved, DiskInv, SavedUnlessBusy, BakInv, FitInv, ErasedInv, LoadedInv,
           View, Ops, SavedInv, IInv, TypeOK
  <1>5. CASE LoadFile
    <2>1. \A n \in Names : services[n] # Null => icfg'[services[n]] = icfg[services[n]]
      BY <1>5, FreshUnused DEF LoadFile, Start, SavedInv, IInv, TypeOK, InMap
    <2>2. \A a \in Admins : pc'[a] = pc[a]
      BY <1>5 DEF LoadFile, Proceed, Goto, SavedInv, IInv, TypeOK, Ops
    <2> QED
      BY <1>5, <2>1, <2>2, SavedQuiet DEF LoadFile, Proceed
  <1>6. CASE LoadDone \/ UNCHANGED vars
    BY <1>6, SavedQuiet DEF LoadDone, vars, instVars, opVars
  <1>7. ASSUME NEW p \in Ports, Squat(p) PROVE DiskInv'
    BY <1>7, SavedQuiet DEF Squat, opVars
  <1> QED
    BY <1>1, <1>2, <1>3, <1>4, <1>5, <1>6, <1>7 DEF Next, Load

LEMMA SavedHolds == Spec => []SavedInv
  <1>1. Init => SavedInv
    BY InitInv DEF Init, SavedInv, DiskInv, SavedUnlessBusy, BakInv, FitInv, ErasedInv, LoadedInv, Ops
  <1>2. SavedInv /\ [Next]_vars => SavedInv'
    BY NextInv, SavedNext DEF SavedInv
  <1> QED
    BY <1>1, <1>2, PTL DEF Spec

(* With any number of administrators a crash loses no registered tunnel,   *)
(* except during the replacement or the removal of that tunnel, and after  *)
(* a replacement that failed and could not put the backup back.            *)
THEOREM ManagerSavedUnlessBusy == Spec => []SavedUnlessBusy
  <1>1. SavedInv => SavedUnlessBusy
    BY DEF SavedInv, DiskInv
  <1> QED
    BY <1>1, SavedHolds, PTL
-----------------------------------------------------------------------------
(* The manager implements the registry.  A request takes effect when the   *)
(* map is updated; all the steps before that leave the registry alone.     *)
asked    == [a \in Admins |-> req[a]]
answered == [a \in Admins |-> res[a]]
seen     == <<Entries, Leftover, stranded, asked, answered>>

LEMMA RegistryDefs ==
  /\ Registry!Requests = Requests
  /\ \A c, d : Registry!WithDisabled(c, d) = WithDisabled(c, d)
  BY DEF Registry!Requests, Registry!AddRequests, Registry!ReplaceRequests, Registry!ToggleRequests,
         Registry!RemoveRequests, Registry!Configs, Registry!WithDisabled,
         Requests, AddRequests, ReplaceRequests, ToggleRequests, RemoveRequests, Configs, WithDisabled

LEMMA DurableDefs ==
  /\ Durable!Requests = Requests
  /\ \A c, d : Durable!WithDisabled(c, d) = WithDisabled(c, d)
  BY DEF Durable!Requests, Durable!AddRequests, Durable!ReplaceRequests, Durable!ToggleRequests,
         Durable!RemoveRequests, Durable!Configs, Durable!WithDisabled,
         Requests, AddRequests, ReplaceRequests, ToggleRequests, RemoveRequests, Configs, WithDisabled

(* What the registry holds under a name, before and after a step.          *)
LEMMA ViewEntries ==
  /\ View \in [Names -> {View[n] : n \in Names}]
  /\ \A n \in Names : /\ View[n] = IF services[n] = Null THEN Null ELSE icfg[services[n]]
                      /\ View'[n] = IF services'[n] = Null THEN Null ELSE icfg'[services'[n]]
  /\ DOMAIN View = Names /\ DOMAIN View' = Names
  BY DEF View, CfgAt

LEMMA ViewKept ==
  ASSUME UNCHANGED services,
         \A n \in Names : services[n] # Null => icfg'[services[n]] = icfg[services[n]]
  PROVE  View' = View
  BY DEF View, CfgAt

(* What is left on disk of the names that are not registered.              *)
LEMMA LeftEntries ==
  ASSUME phase = "up", phase' = "up"
  PROVE  /\ Entries = View /\ Entries' = View'
         /\ Leftover = [n \in Names |-> IF services[n] = Null THEN file[n] ELSE Null]
         /\ Leftover' = [n \in Names |-> IF services'[n] = Null THEN file'[n] ELSE Null]
         /\ \A n \in Names : /\ Leftover[n] = IF services[n] = Null THEN file[n] ELSE Null
                             /\ Leftover'[n] = IF services'[n] = Null THEN file'[n] ELSE Null
  BY DEF Entries, Leftover

LEMMA LeftKept ==
  ASSUME phase = "up", phase' = "up",
         \A n \in Names : /\ services'[n] = Null <=> services[n] = Null
                          /\ services[n] = Null => file'[n] = file[n]
  PROVE  Leftover' = Leftover
  BY LeftEntries

LEMMA ReturnAnswers ==
  ASSUME IInv, NEW a \in Admins, NEW r, Return(a, r)
  PROVE  Durable!Answer(a, r)
  BY DEF Return, IInv, TypeOK, Durable!Answer, Ops

LEMMA ReturnRefuses ==
  ASSUME IInv, NEW a \in Admins, Return(a, "err"), pc[a] # "idle",
         phase = "up", phase' = "up", View' = View, Leftover' = Leftover, UNCHANGED stranded
  PROVE  Durable!Serve(a)
  <1>1. Durable!Refuse(a)
    BY ReturnAnswers, LeftEntries DEF IInv, PcInv, Durable!Refuse
  <1> QED
    BY <1>1 DEF Durable!Serve

(* The registry's step for each kind of request.                           *)
LEMMA ReturnApplies ==
  ASSUME IInv, NEW a \in Admins, Return(a, "ok"), pc[a] # "idle", phase = "up", phase' = "up",
         NEW r, r = req[a],
         \/ /\ r.op = "add"
            /\ View[r.cfg.name] = Null
            /\ View' = [View EXCEPT ![r.cfg.name] = r.cfg]
            /\ Leftover[r.cfg.name] = Null /\ Leftover' = Leftover
            /\ stranded' = stranded \ {r.cfg.name}
         \/ /\ r.op = "replace"
            /\ \E n \in Names : /\ View[n] # Null /\ View[n].uuid = r.cfg.uuid
                                /\ r.cfg.name = n \/ View[r.cfg.name] = Null
                                /\ View' = [[View EXCEPT ![n] = Null] EXCEPT ![r.cfg.name] = r.cfg]
            /\ Leftover' = [Leftover EXCEPT ![r.cfg.name] = Null]
            /\ stranded' = stranded \ {r.cfg.name}
         \/ /\ r.op = "toggle"
            /\ \E n \in Names : /\ View[n] # Null /\ n = r.name
                                /\ View' = [View EXCEPT ![n] = WithDisabled(View[n], r.disabled)]
            /\ Leftover' = Leftover
            /\ stranded' = stranded \ {r.name} \/ (UNCHANGED stranded /\ View' = View)
         \/ /\ r.op = "remove"
            /\ UNCHANGED stranded
            /\ View' = [View EXCEPT ![r.name] = Null]
            /\ \/ Leftover' = [Leftover EXCEPT ![r.name] = Null]
               \/ /\ Admins # {a}
                  /\ Leftover' = [Leftover EXCEPT ![r.name] = Durable!OnDisk(r.name)]
  PROVE  Durable!Serve(a)
  <1>1. asked[a] = r /\ r # Null /\ Durable!Answer(a, "ok")
    BY ReturnAnswers DEF asked, IInv, PcInv
  <1>2. Entries = View /\ Entries' = View'
    BY LeftEntries
  <1>3. Durable!Added(r) \/ Durable!Replaced(r) \/ Durable!Toggled(r) \/ Durable!Removed(r)
    BY <1>2, DurableDefs DEF Durable!Added, Durable!Replaced, Durable!Toggled, Durable!Removed, Durable!Targets
  <1>4. Durable!Apply(a)
    BY <1>1, <1>3 DEF Durable!Apply, asked
  <1>5. Durable!ApplySaved(a)
    BY <1>1, <1>2, <1>4 DEF Durable!ApplySaved, asked
  <1> QED
    BY <1>5 DEF Durable!Serve

LEMMA LockedRefines ==
  ASSUME IInv, NEW a \in Admins, AddService(a) \/ ReplaceService(a) \/ SetServiceDisabled(a),
         phase = "up", phase' = "up"
  PROVE  Durable!Serve(a) \/ UNCHANGED seen
  <1>1. pc[a] = "lock"
    BY DEF AddService, ReplaceService, SetServiceDisabled, Locking
  <1>2. CASE Reject(a)
    <2>1. View' = View /\ Leftover' = Leftover
      BY <1>2, ViewKept, LeftKept DEF Reject, instVars
    <2> QED
      BY <1>1, <1>2, <2>1, ReturnRefuses DEF Reject
  <1>3. CASE /\ SetServiceDisabled(a)
             /\ services[req[a].name] # Null
             /\ CfgAt(req[a].name).disabled = req[a].disabled
             /\ Return(a, "ok")
             /\ UNCHANGED <<services, instVars, file, stranded, phase, todo>>
    <2> DEFINE n == req[a].name
    <2>1. n \in Names /\ req[a].op = "toggle" /\ req[a].disabled \in BOOLEAN
      BY <1>1, <1>3, RequestFields DEF SetServiceDisabled, Locking, IInv, TypeOK, PcInv, Ops
    <2>2. View' = View /\ View[n] = CfgAt(n) /\ Leftover' = Leftover
      BY <1>3, <2>1, ViewKept, LeftKept DEF instVars, View
    <2>3. CfgAt(n) \in Configs /\ CfgAt(n) # Null
      BY <1>3, <2>1 DEF IInv, TypeOK, MapInv, CfgAt
    <2>4. WithDisabled(CfgAt(n), req[a].disabled) = CfgAt(n)
      BY <1>3, <2>3 DEF WithDisabled, Configs
    <2>5. View' = [View EXCEPT ![n] = WithDisabled(View[n], req[a].disabled)]
      BY <2>1, <2>2, <2>4, ViewEntries
    <2> QED
      BY <1>1, <1>3, <2>1, <2>2, <2>3, <2>5, ReturnApplies
  <1>4. CASE /\ UNCHANGED <<services, file, stranded, req, res>>
             /\ Unused # {}
             /\ \E c : icfg' = [icfg EXCEPT ![Fresh] = c]
    <2>1. View' = View /\ Leftover' = Leftover
      BY <1>4, FreshUnused, ViewKept, LeftKept DEF IInv, TypeOK, InMap
    <2> QED
      BY <1>4, <2>1, LeftEntries DEF asked, answered, seen
  <1> QED
    BY <1>2, <1>3, <1>4 DEF AddService, ReplaceService, SetServiceDisabled, Succeed, Start, Proceed

LEMMA RemoveRefines ==
  ASSUME SavedInv, NEW a \in Admins, UnlinkFile(a) \/ RemoveService(a), phase = "up", phase' = "up"
  PROVE  Durable!Serve(a) \/ UNCHANGED seen
  <1> DEFINE n == req[a].name
  <1>1. pc[a] # "idle" /\ req[a].op = "remove" /\ n \in Names /\ req[a] # Null
    BY RequestFields DEF UnlinkFile, RemoveService, Locking, SavedInv, IInv, TypeOK, PcInv, Ops
  <1>2. CASE UnlinkFile(a) /\ UNCHANGED file /\ req' = [req EXCEPT ![a] = Null] /\ res' = [res EXCEPT ![a] = "err"]
    <2>1. View' = View /\ Leftover' = Leftover
      BY <1>2, ViewKept, LeftKept DEF UnlinkFile, instVars
    <2>2. Durable!Refuse(a)
      BY <1>1, <1>2, <2>1, LeftEntries DEF SavedInv, IInv, TypeOK, Ops, Durable!Refuse, Durable!Answer
    <2> QED
      BY <1>2, <2>1, <2>2 DEF Durable!Serve, UnlinkFile
  <1>3. CASE UnlinkFile(a) /\ file' = [file EXCEPT ![n] = Null] /\ UNCHANGED <<req, res>>
    <2>1. View' = View /\ asked' = asked /\ answered' = answered
      BY <1>3, ViewKept DEF UnlinkFile, instVars, asked, answered
    <2>2. CASE services[n] # Null
      <3>1. Leftover' = Leftover
        BY <1>1, <1>3, <2>2, LeftKept DEF UnlinkFile, SavedInv, IInv, TypeOK
      <3> QED
        BY <1>3, <2>1, <3>1, LeftEntries DEF UnlinkFile, seen
    <2>3. CASE services[n] = Null
      <3>1. Leftover' = [Leftover EXCEPT ![n] = Null]
        <4>1. services' = services /\ \A m \in Names : file'[m] = IF m = n THEN Null ELSE file[m]
          BY <1>1, <1>3 DEF UnlinkFile, SavedInv, IInv, TypeOK
        <4> QED
          BY <1>1, <2>3, <4>1, LeftEntries
      <3>2. asked[a] = req[a] /\ Entries[n] = Null /\ Entries' = Entries
        BY <1>1, <2>1, <2>3, LeftEntries, ViewEntries DEF asked
      <3>3. Durable!Erase(a)
        BY <1>1, <1>3, <2>1, <3>1, <3>2 DEF UnlinkFile, Durable!Erase, asked, answered
      <3> QED
        BY <3>3 DEF Durable!Serve
    <2> QED
      BY <2>2, <2>3
  <1>4. CASE RemoveService(a)
    <2>1. \A m \in Names : m # n => services'[m] = services[m]
      BY <1>1, <1>4 DEF RemoveService, SavedInv, IInv, TypeOK
    <2>2. services'[n] = Null /\ UNCHANGED file
      BY <1>1, <1>4 DEF RemoveService, SavedInv, IInv, TypeOK
    <2>3. \A m \in Names : m # n /\ services[m] # Null => icfg'[services[m]] = icfg[services[m]]
      BY <1>1, <1>4 DEF RemoveService, instVars, SavedInv, IInv, TypeOK, MapInv
    <2>4. View' = [View EXCEPT ![n] = Null]
      BY <1>1, <2>1, <2>2, <2>3 DEF View, CfgAt
    <2>5. Leftover' = [Leftover EXCEPT ![n] = file[n]]
      BY <1>1, <2>1, <2>2, LeftEntries
    <2>6. \/ file[n] = Null
          \/ Admins # {a} /\ file[n] = Durable!OnDisk(n)
      <3>1. Admins = {a} => file[n] = Null
        BY <1>1, <1>4 DEF RemoveService, Locking, SavedInv, DiskInv, ErasedInv
      <3>2. CASE services[n] = Null
        BY <1>1, <3>1, <3>2, LeftEntries, ViewEntries DEF Durable!OnDisk, SavedInv, IInv, TypeOK
      <3>3. CASE services[n] # Null
        <4>1. View[n] = icfg[services[n]] /\ View[n] # Null
          BY <1>1, <3>3, ViewEntries DEF SavedInv, IInv, MapInv
        <4> QED
          BY <1>1, <3>1, <3>3, <4>1, LeftEntries DEF Durable!OnDisk, SavedInv, DiskInv, FitInv, CfgAt, IInv, TypeOK
      <3> QED
        BY <3>2, <3>3
    <2> QED
      BY <1>1, <1>4, <2>4, <2>5, <2>6, ReturnApplies DEF RemoveService, SavedInv
  <1> QED
    BY <1>2, <1>3, <1>4 DEF UnlinkFile

(* An operation that drops the instance in its hand is refused.            *)
LEMMA AddRefines ==
  ASSUME IInv, NEW a \in Admins, WaitOK(a) \/ AddFailed(a) \/ CreateFile(a), phase = "up", phase' = "up"
  PROVE  Durable!Serve(a) \/ UNCHANGED seen
  <1> DEFINE h == hand[a]
             n == icfg[h].name
  <1>1. pc[a] \in {"wait", "save"} /\ a # Loader /\ h \in Insts /\ ~InMap(h)
    BY DEF WaitOK, AddFailed, CreateFile, IInv, TypeOK, HandInv, Busy, Ops
  <1>2. CASE WaitOK(a)
    <2>1. View' = View /\ Leftover' = Leftover
      BY <1>1, <1>2, ViewKept, LeftKept DEF WaitOK, instVars
    <2> QED
      BY <1>1, <1>2, <2>1, LeftEntries DEF WaitOK, asked, answered, seen
  <1>3. CASE UNCHANGED <<services, file, stranded>> /\ Return(a, "err") /\ (AddFailed(a) \/ CreateFile(a))
    <2>1. \E k : icfg' = [icfg EXCEPT ![h] = k]
      BY <1>3 DEF AddFailed, CreateFile, instVars, Return, IInv, TypeOK, Ops
    <2>2. View' = View /\ Leftover' = Leftover
      BY <1>1, <1>3, <2>1, ViewKept, LeftKept DEF IInv, TypeOK, InMap
    <2> QED
      BY <1>1, <1>3, <2>2, ReturnRefuses
  <1>4. CASE /\ CreateFile(a)
             /\ services' = [services EXCEPT ![n] = h]
             /\ file[n] = Null
             /\ file' = [file EXCEPT ![n] = icfg[h]]
             /\ stranded' = stranded \ {n}
             /\ Return(a, "ok")
             /\ UNCHANGED instVars
    <2>1. /\ req[a].op = "add" /\ icfg[h] = req[a].cfg
          /\ icfg[h] \in Configs /\ n \in Names /\ services[n] = Null
      BY <1>1, <1>4, ConfigFields DEF CreateFile, IInv, TypeOK, HandInv, ReqInv, Busy, Ops
    <2>2. View[n] = Null /\ View' = [View EXCEPT ![n] = req[a].cfg]
      BY <1>1, <1>4, <2>1 DEF View, CfgAt, instVars, IInv, TypeOK
    <2>3. Leftover[n] = Null /\ Leftover' = Leftover
      BY <1>1, <1>4, <2>1, LeftEntries DEF IInv, TypeOK
    <2> QED
      BY <1>1, <1>4, <2>1, <2>2, <2>3, ReturnApplies
  <1> QED
    BY <1>2, <1>3, <1>4 DEF AddFailed, CreateFile

(* A backup that cannot be put back is the registry's Misplace.            *)
LEMMA RestoreRefines ==
  ASSUME IInv, NEW a \in Admins, pc[a] \in Busy, phase = "up", phase' = "up",
         Restore(a) \/ UNCHANGED <<file, stranded>>,
         UNCHANGED <<services, req, res>>, View' = View,
         Restore(a) => oldName[a] # Null
  PROVE  Durable!Serve(a) \/ UNCHANGED seen
  <1> DEFINE n == oldName[a]
             r == req[a]
  <1>1. CASE UNCHANGED <<file, stranded>>
    <2>1. Leftover' = Leftover
      BY <1>1, LeftKept
    <2> QED
      BY <1>1, <2>1, LeftEntries DEF asked, answered, seen
  <1>2. CASE Restore(a) /\ ~UNCHANGED <<file, stranded>>
    <2>1. n \in Names /\ services[n] # Null /\ icfg[services[n]] # Null
      BY <1>2 DEF IInv, TypeOK, OldInv, MapInv, Ops
    <2>2. Leftover' = Leftover
      BY <1>2, <2>1, LeftKept DEF Restore, IInv, TypeOK
    <2>3. CASE UNCHANGED stranded
      BY <2>2, <2>3, LeftEntries DEF asked, answered, seen
    <2>4. CASE stranded' = stranded \cup {n}
      <3>1. /\ r # Null
            /\ \/ r.op = "replace" /\ icfg[services[n]].uuid = r.cfg.uuid
               \/ r.op = "toggle" /\ n = r.name
        BY <2>1 DEF IInv, PcInv, ReqInv, CfgAt, Busy
      <3>2. n \in Durable!Targets(r)
        BY <2>1, <3>1, LeftEntries, ViewEntries DEF Durable!Targets
      <3>3. Durable!Misplace(a)
        BY <2>2, <2>4, <3>1, <3>2, LeftEntries DEF Durable!Misplace
      <3> QED
        BY <3>3 DEF Durable!Serve
    <2> QED
      BY <1>2, <2>3, <2>4 DEF Restore
  <1> QED
    BY <1>1, <1>2

LEMMA ReplaceRefines ==
  ASSUME SavedInv, NEW a \in Admins, phase = "up", phase' = "up",
         ReplaceFailed(a) \/ BackupFile(a) \/ RenameFile(a) \/ RollbackDone(a) \/ RollbackFailed(a)
  PROVE  Durable!Serve(a) \/ UNCHANGED seen
  <1> DEFINE h == hand[a]
             n == oldName[a]
             o == services[n]
             r == req[a]
  <1>0. IInv
    BY DEF SavedInv
  <1>1. /\ pc[a] \in Busy /\ pc[a] # "idle" /\ n \in Names /\ n # Null
        /\ h \in Insts /\ ~InMap(h) /\ o \in Insts /\ o # h
        /\ icfg[h] \in Configs /\ icfg[o] \in Configs /\ icfg[o] # Null /\ icfg[o].name = n
        /\ r \in Requests
    BY <1>0 DEF ReplaceFailed, BackupFile, RenameFile, RollbackDone, RollbackFailed, IInv, TypeOK, HandInv, OldInv,
           MapInv, PcInv, InMap, Busy, Ops
  <1>2. /\ \/ /\ r.op = "replace" /\ icfg[o].uuid = r.cfg.uuid
              /\ r.cfg.name = n \/ services[r.cfg.name] = Null
           \/ r.op = "toggle" /\ n = r.name
        /\ icfg[h] = IF pc[a] = "rollback" THEN icfg[o]
                     ELSE IF r.op = "replace" THEN r.cfg ELSE WithDisabled(icfg[o], r.disabled)
    BY <1>0, <1>1 DEF IInv, ReqInv, CfgAt
  <1>3. View[n] = icfg[o]
    BY <1>1 DEF View, CfgAt
  <1>4. \A m \in Names : services[m] = o => m = n
    BY <1>0, <1>1 DEF IInv, MapInv
  <1>5. CASE Rollback(a) /\ (Restore(a) \/ UNCHANGED <<file, stranded>>)
    <2>1. View' = View
      BY <1>0, <1>1, <1>5, FreshUnused, ViewKept DEF Rollback, IInv, TypeOK, InMap
    <2> QED
      BY <1>0, <1>1, <1>5, <2>1, RestoreRefines DEF Rollback
  <1>6. CASE UNCHANGED <<services, instVars, stranded, req, res>> /\ file' = [file EXCEPT ![n] = Null]
    <2>1. View' = View
      BY <1>6, ViewKept DEF instVars
    <2>2. Leftover' = Leftover
      BY <1>0, <1>1, <1>6, LeftKept DEF IInv, TypeOK
    <2> QED
      BY <1>6, <2>1, <2>2, LeftEntries DEF asked, answered, seen
  <1>7. CASE RenameFile(a) /\ Return(a, "ok") /\ UNCHANGED st
    <2> DEFINE m == icfg[h].name
    <2>1. /\ services' = [services EXCEPT ![n] = Null, ![m] = h]
          /\ icfg' = [icfg EXCEPT ![o] = KeptCfg(o)]
          /\ file' = [file EXCEPT ![m] = icfg[h]]
          /\ stranded' = stranded \ {m}
          /\ pc[a] = "rename" /\ m \in Names
      BY <1>0, <1>1, <1>7, ConfigFields DEF RenameFile, NewName, Rollback, Return, Goto, IInv, TypeOK, Ops
    <2>2. \A k \in Names : services'[k] = IF k = m THEN h ELSE IF k = n THEN Null ELSE services[k]
      BY <1>0, <1>1, <2>1 DEF IInv, TypeOK
    <2>3. View' = [[View EXCEPT ![n] = Null] EXCEPT ![m] = icfg[h]]
      <3>1. /\ icfg'[h] = icfg[h]
            /\ \A k \in Names : k # n /\ services[k] # Null => icfg'[services[k]] = icfg[services[k]]
        BY <1>0, <1>1, <1>4, <2>1 DEF IInv, TypeOK
      <3>2. \A k \in Names : View'[k] = IF k = m THEN icfg[h] ELSE IF k = n THEN Null ELSE View[k]
        BY <1>0, <1>1, <2>2, <3>1, ViewEntries
      <3> QED
        BY <1>0, <1>1, <2>1, <3>2, ZenonT(60) DEF View
    <2>4. Leftover' = [Leftover EXCEPT ![m] = Null]
      <3>1. file[n] = Null
        BY <2>1 DEF SavedInv, DiskInv, FitInv
      <3>2. \A k \in Names : k # m => file'[k] = file[k]
        BY <1>0, <2>1 DEF IInv, TypeOK
      <3>3. \A k \in Names : Leftover'[k] = IF k = m THEN Null ELSE Leftover[k]
        BY <1>1, <2>2, <3>1, <3>2, LeftEntries
      <3> QED
        BY <2>1, <3>3, LeftEntries
    <2>5. CASE r.op = "replace"
      <3>1. icfg[h] = r.cfg
        BY <1>2, <2>1, <2>5
      <3>2. r.cfg.name = n \/ View[r.cfg.name] = Null
        BY <1>2, <2>1, <2>5, <3>1, ViewEntries
      <3>3. \E k \in Names : /\ View[k] # Null /\ View[k].uuid = r.cfg.uuid
                             /\ r.cfg.name = k \/ View[r.cfg.name] = Null
                             /\ View' = [[View EXCEPT ![k] = Null] EXCEPT ![r.cfg.name] = r.cfg]
        BY <1>1, <1>2, <1>3, <2>3, <2>5, <3>1, <3>2
      <3>4. Leftover' = [Leftover EXCEPT ![r.cfg.name] = Null] /\ stranded' = stranded \ {r.cfg.name}
        BY <2>1, <2>4, <3>1
      <3> QED
        BY <1>0, <1>1, <1>7, <2>5, <3>3, <3>4, ReturnApplies
    <2>6. CASE r.op # "replace"
      <3>1. r.op = "toggle" /\ n = r.name /\ icfg[h] = WithDisabled(icfg[o], r.disabled) /\ r.disabled \in BOOLEAN
        BY <1>1, <1>2, <2>1, <2>6, RequestFields
      <3>2. m = n
        <4>1. WithDisabled(icfg[o], r.disabled).name = icfg[o].name
          BY <1>1, <3>1, WithDisabledFields
        <4> QED
          BY <1>1, <3>1, <4>1
      <3>3. View' = [View EXCEPT ![n] = WithDisabled(View[n], r.disabled)]
        BY <1>1, <1>3, <2>3, <3>1, <3>2 DEF View
      <3>4. Leftover' = Leftover /\ stranded' = stranded \ {r.name}
        BY <1>1, <2>1, <2>4, <3>1, <3>2, LeftEntries
      <3> QED
        BY <1>0, <1>1, <1>3, <1>7, <3>1, <3>3, <3>4, ReturnApplies
    <2> QED
      BY <2>5, <2>6
  <1>8. CASE RollbackDone(a)
    <2>1. pc[a] = "rollback" /\ icfg[h] = icfg[o]
      BY <1>2, <1>8 DEF RollbackDone
    <2>2. View' = View
      BY <1>0, <1>1, <1>4, <1>8, <2>1 DEF RollbackDone, View, CfgAt, IInv, TypeOK
    <2>3. Leftover' = Leftover
      BY <1>0, <1>1, <1>8, LeftKept DEF RollbackDone, IInv, TypeOK
    <2> QED
      BY <1>0, <1>1, <1>8, <2>2, <2>3, ReturnRefuses DEF RollbackDone
  <1>9. CASE RollbackFailed(a)
    <2>1. \A k \in Names : services'[k] = IF k = n THEN Null ELSE services[k]
      BY <1>0, <1>1, <1>9 DEF RollbackFailed, IInv, TypeOK
    <2>2. View' = [View EXCEPT ![n] = Null]
      <3>1. \A k \in Names : k # n /\ services[k] # Null => icfg'[services[k]] = icfg[services[k]]
        BY <1>0, <1>1, <1>4, <1>9 DEF RollbackFailed, IInv, TypeOK, InMap
      <3>2. \A k \in Names : View'[k] = IF k = n THEN Null ELSE View[k]
        BY <1>1, <2>1, <3>1, ViewEntries
      <3> QED
        BY <1>1, <3>2 DEF View
    <2>3. Leftover' = [Leftover EXCEPT ![n] = file[n]] /\ Leftover[n] = Null
      BY <1>1, <1>9, <2>1, LeftEntries DEF RollbackFailed
    <2>4. file[n] = Durable!OnDisk(n) \/ (file[n] = Null /\ Durable!BeingRemoved(n))
      <3>1. file[n] \in {icfg[o], Null}
        BY <1>1 DEF SavedInv, DiskInv, FitInv, CfgAt
      <3>2. ~Moving(n)
        <4>1. \A b \in Admins : pc[b] # "rename"
          BY <1>0, <1>1, <1>9 DEF RollbackFailed, IInv, LockInv, Busy, Ops
        <4> QED
          BY <4>1 DEF Moving
      <3>3. file[n] = icfg[o] \/ Excused(n)
        BY <1>1, <3>2, SavedCases DEF SavedInv, DiskInv
      <3>4. Removing(n) => Durable!BeingRemoved(n)
        BY <1>0 DEF Removing, Durable!BeingRemoved, IInv, PcInv
      <3>5. Entries[n] = icfg[o]
        BY <1>3, LeftEntries
      <3> QED
        BY <1>0, <1>1, <3>1, <3>3, <3>4, <3>5 DEF Excused, Durable!OnDisk, IInv, TypeOK
    <2>5. \/ Leftover' = [Leftover EXCEPT ![n] = Durable!OnDisk(n)]
          \/ Durable!BeingRemoved(n) /\ Leftover' = Leftover
      BY <1>1, <2>3, <2>4, LeftEntries
    <2>6. Durable!Answer(a, "lost") /\ asked[a] = r /\ r # Null
      BY <1>0, <1>1, <1>9, ReturnAnswers, RequestFields DEF RollbackFailed, asked
    <2>7. n \in Durable!Targets(r)
      BY <1>1, <1>2, <1>3, LeftEntries DEF Durable!Targets
    <2>8. Durable!LoseSaved(a)
      BY <1>9, <2>2, <2>5, <2>6, <2>7, LeftEntries DEF RollbackFailed, Durable!LoseSaved, asked
    <2> QED
      BY <2>8 DEF Durable!Serve
  <1> QED
    BY <1>5, <1>6, <1>7, <1>8, <1>9 DEF ReplaceFailed, BackupFile, RenameFile

(* An operation that hangs in Close has changed no entry.                  *)
LEMMA HangRefines ==
  ASSUME IInv, NEW a \in Admins, phase = "up", phase' = "up", CloseOldHangs(a) \/ CloseNewHangs(a)
  PROVE  Durable!Serve(a) \/ UNCHANGED seen
  <1>1. CASE CloseOldHangs(a)
    <2>1. View' = View /\ Leftover' = Leftover
      BY <1>1, ViewKept, LeftKept DEF CloseOldHangs
    <2> QED
      BY <1>1, <2>1, LeftEntries DEF CloseOldHangs, Hang, asked, answered, seen
  <1>2. CASE CloseNewHangs(a)
    <2>1. pc[a] \in Busy
      BY <1>2 DEF CloseNewHangs, SaveFails, Busy
    <2>2. hand[a] \in Insts /\ ~InMap(hand[a])
      BY <2>1 DEF IInv, TypeOK, HandInv, Ops
    <2>3. View' = View
      BY <1>2, <2>2, ViewKept DEF CloseNewHangs, IInv, TypeOK, InMap
    <2>4. pc[a] # "rename" => UNCHANGED <<file, stranded>>
      BY <1>2 DEF CloseNewHangs, SaveFails
    <2>5. pc[a] = "rename" => Restore(a) /\ oldName[a] # Null
      BY <1>2 DEF CloseNewHangs, SaveFails, IInv, PcInv
    <2>6. UNCHANGED <<services, req, res>>
      BY <1>2 DEF CloseNewHangs, Hang
    <2>7. CASE pc[a] = "rename"
      BY <2>1, <2>3, <2>5, <2>6, <2>7, RestoreRefines
    <2>8. CASE pc[a] # "rename"
      <3>1. Leftover' = Leftover
        BY <2>4, <2>6, <2>8, LeftKept
      <3> QED
        BY <2>3, <2>4, <2>6, <2>8, <3>1, LeftEntries DEF asked, answered, seen
    <2> QED
      BY <2>7, <2>8
  <1> QED
    BY <1>1, <1>2

(* While the process is up every step is one of the registry's, or none.   *)
LEMMA UpRefines ==
  ASSUME SavedInv, phase = "up", phase' = "up", [Next]_vars
  PROVE  (\E a \in Admins : Durable!Serve(a)) \/ UNCHANGED seen
  <1>0. IInv
    BY DEF SavedInv
  <1>1. ASSUME NEW a \in Admins, NEW r \in Requests, Request(a, r)
        PROVE  Durable!Serve(a)
    <2>1. View' = View /\ Leftover' = Leftover
      BY <1>1, ViewKept, LeftKept DEF Request, instVars
    <2>2. Durable!Ask(a, r)
      BY <1>0, <1>1, <2>1, LeftEntries DEF Request, IInv, TypeOK, PcInv, Ops, Durable!Ask
    <2> QED
      BY <1>1, <2>1, <2>2, DurableDefs DEF Request, Durable!Serve
  <1>2. ASSUME NEW a \in Ops, OpStep(a)
        PROVE  (\E b \in Admins : Durable!Serve(b)) \/ UNCHANGED seen
    <2>1. a \in Admins
      <3>1. pc[Loader] = "idle"
        BY <1>0 DEF IInv, BootInv
      <3> QED
        BY <1>2, <3>1 DEF OpStep, AddService, ReplaceService, SetServiceDisabled, UnlinkFile, RemoveService, WaitOK,
             AddFailed, ReplaceFailed, CreateFile, BackupFile, RenameFile, RollbackDone, RollbackFailed, Locking,
             CloseOldHangs, CloseNewHangs, SaveFails, Ops
    <2>2. CASE AddService(a) \/ ReplaceService(a) \/ SetServiceDisabled(a)
      BY <1>0, <2>1, <2>2, LockedRefines
    <2>3. CASE UnlinkFile(a) \/ RemoveService(a)
      BY <2>1, <2>3, RemoveRefines
    <2>4. CASE WaitOK(a) \/ AddFailed(a) \/ CreateFile(a)
      BY <1>0, <2>1, <2>4, AddRefines
    <2>5. CASE ReplaceFailed(a) \/ BackupFile(a) \/ RenameFile(a) \/ RollbackDone(a) \/ RollbackFailed(a)
      BY <2>1, <2>5, ReplaceRefines
    <2>6. CASE CloseOldHangs(a) \/ CloseNewHangs(a)
      BY <1>0, <2>1, <2>6, HangRefines
    <2> QED
      BY <1>2, <2>2, <2>3, <2>4, <2>5, <2>6 DEF OpStep
  <1>3. ASSUME NEW i \in Insts, OutputReady(i) \/ InputRun(i)
        PROVE  UNCHANGED seen
    <2>1. View' = View /\ Leftover' = Leftover
      BY <1>0, <1>3, ViewKept, LeftKept DEF OutputReady, InputRun, IInv, TypeOK, InMap
    <2> QED
      BY <1>3, <2>1, LeftEntries DEF OutputReady, InputRun, opVars, asked, answered, seen
  <1>4. ASSUME (\E p \in Ports : Squat(p)) \/ UNCHANGED vars
        PROVE  UNCHANGED seen
    <2>1. View' = View /\ Leftover' = Leftover
      BY <1>4, ViewKept, LeftKept DEF Squat, vars, instVars
    <2> QED
      BY <1>4, <2>1, LeftEntries DEF Squat, vars, opVars, asked, answered, seen
  <1>5. ~Crash /\ ~Load
    BY DEF Crash, Reset, Load, LoadFile, LoadFailed, LoadDone
  <1> QED
    BY <1>1, <1>2, <1>3, <1>4, <1>5 DEF Next

LEMMA StaysUp ==
  ASSUME phase = "up", ~Crash, [Next]_vars
  PROVE  phase' = "up"
  <1>1. ~Load
    BY DEF Load, LoadFile, LoadFailed, LoadDone
  <1> QED
    BY <1>1, ZenonT(60) DEF Next, OpStep, Request, AddService, ReplaceService,
         SetServiceDisabled, UnlinkFile, RemoveService, WaitOK, AddFailed, ReplaceFailed,
         CreateFile, BackupFile, RenameFile, RollbackDone, RollbackFailed, CloseOldHangs, CloseNewHangs,
         Reject, Succeed, Rollback, OutputReady, InputRun, Squat, vars

(* While Manager.Run loads, and after it has failed, nothing is left on    *)
(* disk that is not an entry.                                              *)
LEMMA DownEntries ==
  /\ phase # "up" => Entries = file /\ Leftover = [n \in Names |-> Null]
  /\ phase' # "up" => Entries' = file' /\ Leftover' = [n \in Names |-> Null]
  BY DEF Entries, Leftover

(* A crash, and a start that fails: the files are what remains.            *)
LEMMA RestartRefines ==
  ASSUME SavedInv, Crash \/ LoadFailed
  PROVE  Durable!Restart
  <1> DEFINE missing == {n \in Names : phase = "up" /\ services[n] # Null /\ file[n] = Null} \ stranded
  <1>1. phase' # "up" /\ UNCHANGED <<file, stranded>>
    BY DEF Crash, LoadFailed, Reset
  <1>2. asked' = [a \in Admins |-> Null] /\ answered' = [a \in Admins |-> "none"]
    BY DEF Crash, LoadFailed, Reset, asked, answered, Ops
  <1>3. Entries' = file /\ Leftover' = Durable!NoneLeft
    BY <1>1, DownEntries DEF Durable!NoneLeft
  <1>4. ASSUME NEW n \in missing
        PROVE  Durable!BeingRemoved(n) \/ Durable!BeingChanged(n)
    <2>1. /\ n \in Names /\ services[n] # Null /\ file[n] = Null /\ phase = "up" /\ n \notin stranded
          /\ icfg[services[n]] # Null
      BY <1>4 DEF SavedInv, IInv, MapInv
    <2>2. CASE Removing(n)
      BY <2>2 DEF Removing, Durable!BeingRemoved, SavedInv, IInv, PcInv
    <2>3. CASE Moving(n)
      <3>1. PICK a \in Admins : pc[a] = "rename" /\ oldName[a] = n
        BY <2>3 DEF Moving
      <3>2. /\ req[a] # Null
            /\ \/ req[a].op = "replace" /\ icfg[services[n]].uuid = req[a].cfg.uuid
               \/ req[a].op = "toggle" /\ n = req[a].name
        BY <2>1, <3>1 DEF SavedInv, IInv, PcInv, ReqInv, CfgAt, Busy
      <3>3. Entries[n] = icfg[services[n]]
        BY <2>1, ViewEntries DEF Entries
      <3>4. n \in Durable!Targets(req[a])
        BY <2>1, <3>2, <3>3 DEF Durable!Targets
      <3> QED
        BY <3>2, <3>4 DEF Durable!BeingChanged
    <2> QED
      BY <2>1, <2>2, <2>3, SavedCases DEF SavedInv, DiskInv, Excused
  <1>5. ASSUME NEW n \in Names
        PROVE  file[n] = IF n \in missing THEN Null ELSE Durable!OnDisk(n)
    <2>1. CASE phase # "up"
      BY <2>1, DownEntries DEF Durable!OnDisk, SavedInv, IInv, TypeOK
    <2>2. CASE phase = "up" /\ services[n] = Null
      <3>1. Entries[n] = Null /\ Leftover[n] = file[n]
        BY <2>2, ViewEntries DEF Entries, Leftover
      <3> QED
        BY <2>2, <3>1 DEF Durable!OnDisk, SavedInv, IInv, TypeOK
    <2>3. CASE phase = "up" /\ services[n] # Null
      <3>1. Entries[n] = icfg[services[n]] /\ icfg[services[n]] # Null
        BY <2>3, ViewEntries DEF Entries, SavedInv, IInv, MapInv
      <3>2. file[n] \in {icfg[services[n]], Null}
        BY <2>3 DEF SavedInv, DiskInv, FitInv, CfgAt
      <3> QED
        BY <2>3, <3>1, <3>2 DEF Durable!OnDisk, SavedInv, IInv, TypeOK
    <2> QED
      BY <2>1, <2>2, <2>3
  <1> HIDE DEF missing
  <1>6. missing \in SUBSET {n \in Names : Durable!BeingRemoved(n) \/ Durable!BeingChanged(n)}
    BY <1>4 DEF missing
  <1>7. file = [n \in Names |-> IF n \in missing THEN Null ELSE Durable!OnDisk(n)]
    BY <1>5 DEF SavedInv, IInv, TypeOK
  <1> QED
    BY <1>1, <1>2, <1>3, <1>6, <1>7 DEF Durable!Restart, asked, answered

(* Steps of Manager.Run, and of servers and other processes meanwhile.     *)
LEMMA LoadRefines ==
  ASSUME SavedInv, phase # "up", [Next]_vars, ~Crash, ~LoadFailed
  PROVE  UNCHANGED seen
  <1>0. IInv
    BY DEF SavedInv
  <1>1. \A a \in Admins : pc[a] = "idle"
    BY <1>0 DEF IInv, PcInv
  <1>2. CASE LoadDone
    <2>1. /\ phase = "boot" /\ phase' = "up" /\ todo = {}
          /\ UNCHANGED <<services, icfg, file, stranded, req, res>>
      BY <1>2 DEF LoadDone, instVars, opVars
    <2>2. \A n \in Names : View[n] = file[n]
      BY <2>1 DEF SavedInv, DiskInv, LoadedInv
    <2>3. View = file /\ View' = View
      BY <1>0, <2>1, <2>2, ViewKept DEF View, IInv, TypeOK
    <2>4. \A n \in Names : services[n] = Null => file[n] = Null
      BY <2>2, ViewEntries
    <2>5. Leftover' = [n \in Names |-> Null]
      BY <2>1, <2>4 DEF Leftover
    <2> QED
      BY <2>1, <2>3, <2>5, DownEntries DEF Entries, asked, answered, seen
  <1>3. CASE ~LoadDone
    <2>1. /\ UNCHANGED <<file, stranded, phase>>
          /\ \A a \in Admins : req'[a] = req[a] /\ res'[a] = res[a]
      <3>1. CASE \E a \in Admins, r \in Requests : Request(a, r)
        BY <3>1 DEF Request
      <3>2. ASSUME NEW a \in Ops, OpStep(a)
            PROVE  /\ UNCHANGED <<file, stranded, phase>>
                   /\ \A b \in Admins : req'[b] = req[b] /\ res'[b] = res[b]
        <4>1. a = Loader /\ WaitOK(a)
          BY <1>0, <1>1, <3>2 DEF OpStep, AddService, ReplaceService, SetServiceDisabled, UnlinkFile, RemoveService,
               AddFailed, ReplaceFailed, CreateFile, BackupFile, RenameFile, RollbackDone, RollbackFailed, WaitOK,
               Locking, CloseOldHangs, CloseNewHangs, SaveFails, IInv, PcInv, Ops
        <4> QED
          BY <1>0, <4>1 DEF WaitOK, Return, IInv, TypeOK, Ops
      <3>3. CASE LoadFile
        BY <3>3 DEF LoadFile, Proceed
      <3>4. CASE (\E i \in Insts : OutputReady(i) \/ InputRun(i)) \/ (\E p \in Ports : Squat(p)) \/ UNCHANGED vars
        BY <3>4 DEF OutputReady, InputRun, Squat, vars, opVars
      <3> QED
        BY <1>3, <3>1, <3>2, <3>3, <3>4 DEF Next, Load
    <2> QED
      BY <2>1, DownEntries DEF asked, answered, seen
  <1> QED
    BY <1>2, <1>3

LEMMA DurableNext ==
  ASSUME SavedInv, [Next]_vars
  PROVE  [Durable!DNext]_<<Entries, Leftover, stranded, asked, answered>>
  <1>1. CASE Crash \/ LoadFailed
    BY <1>1, RestartRefines DEF Durable!DNext
  <1>2. CASE ~Crash /\ ~LoadFailed /\ phase # "up"
    BY <1>2, LoadRefines DEF seen
  <1>3. CASE ~Crash /\ phase = "up"
    <2>1. phase' = "up"
      BY <1>3, StaysUp
    <2> QED
      BY <1>3, <2>1, UpRefines DEF Durable!DNext, seen
  <1> QED
    BY <1>1, <1>2, <1>3

(* The registry survives crashes, with any number of administrators, and   *)
(* servers, file operations and whole starts that fail, also the one that  *)
(* brings a backup back: a restart loses at most the tunnels that a        *)
(* request under way changes or removes and those whose backup could not   *)
(* be put back, and a tunnel removed by the only administrator does not    *)
(* come back.                                                              *)
THEOREM ManagerDurable == Spec => DurableRequests
  <1>1. Init => Durable!DInit
    BY DEF Init, Durable!DInit, Durable!RInit, Durable!NoneLeft, Entries, Leftover, View, Ops
  <1>2. SavedInv /\ [Next]_vars =>
          [Durable!DNext]_<<Entries, Leftover, stranded, [a \in Admins |-> req[a]], [a \in Admins |-> res[a]]>>
    BY DurableNext DEF asked, answered
  <1> QED
    BY <1>1, <1>2, SavedHolds, PTL DEF Spec, DurableRequests, Durable!DSpec

(* Between crashes the registry's guarantees are those without them.       *)
LEMMA NextRefines ==
  ASSUME SavedInv, phase = "up", phase' = "up", [Next]_vars
  PROVE  [Registry!RNext]_<<View, asked, answered>>
  <1>1. Entries = View /\ Entries' = View'
    BY LeftEntries
  <1>2. CASE UNCHANGED seen
    BY <1>1, <1>2 DEF seen
  <1>3. ASSUME NEW a \in Admins, Durable!Serve(a)
        PROVE  [Registry!RNext]_<<View, asked, answered>>
    <2>1. ASSUME NEW r \in Durable!Requests, Durable!Ask(a, r) PROVE Registry!Ask(a, r) /\ r \in Registry!Requests
      BY <1>1, <2>1, RegistryDefs, DurableDefs DEF Durable!Ask, Registry!Ask
    <2>2. CASE Durable!ApplySaved(a)
      <3>1. Registry!Answer(a, "ok") /\ asked[a] # Null
        BY <2>2 DEF Durable!ApplySaved, Durable!Apply, Durable!Answer, Registry!Answer, asked
      <3>2. \/ Registry!Added(asked[a]) \/ Registry!Replaced(asked[a])
            \/ Registry!Toggled(asked[a]) \/ Registry!Removed(asked[a])
        BY <1>1, <2>2, RegistryDefs, DurableDefs
           DEF Durable!ApplySaved, Durable!Apply, Durable!Added, Durable!Replaced, Durable!Toggled, Durable!Removed,
               Durable!Targets, Registry!Added, Registry!Replaced, Registry!Toggled, Registry!Removed,
               Registry!Targets, asked
      <3>3. Registry!Apply(a)
        BY <3>1, <3>2 DEF Registry!Apply, asked
      <3> QED
        BY <3>3 DEF Registry!RNext
    <2>3. CASE Durable!Refuse(a)
      <3>1. Registry!Refuse(a)
        BY <1>1, <2>3 DEF Durable!Refuse, Durable!Answer, Registry!Refuse, Registry!Answer
      <3> QED
        BY <3>1 DEF Registry!RNext
    <2>4. CASE Durable!LoseSaved(a)
      <3>1. Registry!Lose(a)
        BY <1>1, <2>4 DEF Durable!LoseSaved, Durable!Targets, Durable!Answer, Registry!Lose, Registry!Targets,
             Registry!Answer
      <3> QED
        BY <3>1 DEF Registry!RNext
    <2>5. CASE Durable!Erase(a) \/ Durable!Misplace(a)
      BY <1>1, <2>5 DEF Durable!Erase, Durable!Misplace, asked, answered
    <2> QED
      BY <1>3, <2>1, <2>2, <2>3, <2>4, <2>5 DEF Durable!Serve, Registry!RNext
  <1> QED
    BY <1>2, <1>3, UpRefines

(* While the process is up, every step of the manager is a step of the     *)
(* registry or leaves it alone: also between crashes, and after a restart. *)
UpStepsAtomic ==
  (phase = "up" /\ phase' = "up") => [Registry!RNext]_<<View, asked, answered>>

(* Every request is atomic in each of the runs of a process that crashes   *)
(* and is started again.                                                   *)
THEOREM ManagerAtomicWhileUp == Spec => [][UpStepsAtomic]_vars
  <1>1. SavedInv /\ [Next]_vars => UpStepsAtomic
    BY NextRefines DEF UpStepsAtomic
  <1> QED
    BY <1>1, SavedHolds, PTL DEF Spec

(* Without crashes the whole specification implements the registry: every  *)
(* request is atomic, with any number of administrators, and servers and   *)
(* file operations that fail at any step.                                  *)
THEOREM ManagerAtomic ==
  ASSUME ~Crashes
  PROVE  Spec => AtomicRequests
  <1>1. Init => Registry!RInit /\ phase = "up"
    BY DEF Init, Registry!RInit, View, Ops
  <1>2. SavedInv /\ phase = "up" /\ [Next]_vars =>
          /\ [Registry!RNext]_<<View, [a \in Admins |-> req[a]], [a \in Admins |-> res[a]]>>
          /\ (phase = "up")'
    <2>1. ~Crash
      BY DEF Crash
    <2> QED
      BY <2>1, NextRefines, StaysUp DEF asked, answered
  <1> QED
    BY <1>1, <1>2, SavedHolds, PTL DEF Spec, AtomicRequests, Registry!RSpec
=============================================================================
