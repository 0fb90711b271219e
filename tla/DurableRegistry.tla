-------------------------- MODULE DurableRegistry ---------------------------
(***************************************************************************)
(* What is left of the promises of ServiceRegistry when the process        *)
(* crashes and is started again.  A restart forgets the requests under way *)
(* and keeps every entry, except for those a request under way was about   *)
(* to change or remove, which it may lose, and those that a failed change  *)
(* has left without a file, which it does lose.  It also brings back what  *)
(* was left on disk by a tunnel whose rollback failed, and by a removal    *)
(* that raced another request.                                             *)
(***************************************************************************)
EXTENDS ServiceRegistry

VARIABLES
  left,    \* the configuration on disk of each unregistered name, or Null
  unsaved  \* names whose file a change has misplaced

NoneLeft == [n \in Names |-> Null]
DInit == RInit /\ left = NoneLeft /\ unsaved = {}

OnDisk(n) == IF n \in unsaved THEN Null ELSE IF reg[n] = Null THEN left[n] ELSE reg[n]

BeingRemoved(n) == \E a \in Admins : /\ req[a] # Null
                                     /\ req[a].op = "remove"
                                     /\ req[a].name = n

BeingChanged(n) == \E a \in Admins : req[a] # Null /\ n \in Targets(req[a])

(* A tunnel is not added over what another one left, and a replacement     *)
(* overwrites it.  A removal erases it, but not for certain if there are   *)
(* other administrators: one may have saved the tunnel meanwhile.          *)
ApplySaved(a) ==
  /\ Apply(a)
  /\ \/ /\ req[a].op = "add"
        /\ left[req[a].cfg.name] = Null
        /\ unsaved' = unsaved \ {req[a].cfg.name}
        /\ UNCHANGED left
     \/ /\ req[a].op = "replace"
        /\ left' = [left EXCEPT ![req[a].cfg.name] = Null]
        /\ unsaved' = unsaved \ {req[a].cfg.name}
     \/ /\ req[a].op = "toggle"
        /\ unsaved' = unsaved \ {req[a].name} \/ UNCHANGED <<reg, unsaved>>
        /\ UNCHANGED left
     \/ /\ req[a].op = "remove"
        /\ UNCHANGED unsaved
        /\ \/ left' = [left EXCEPT ![req[a].name] = Null]
           \/ /\ Admins # {a}
              /\ left' = [left EXCEPT ![req[a].name] = OnDisk(req[a].name)]

(* A lost tunnel stays on disk, unless it is being removed as well.        *)
LoseSaved(a) ==
  /\ req[a] # Null
  /\ \E n \in Targets(req[a]) :
       /\ reg' = [reg EXCEPT ![n] = Null]
       /\ \/ left' = [left EXCEPT ![n] = OnDisk(n)]
          \/ BeingRemoved(n) /\ UNCHANGED left
  /\ Answer(a, "lost")
  /\ UNCHANGED unsaved

(* A change that is going to be refused misplaces the file of its target.  *)
Misplace(a) ==
  /\ req[a] # Null
  /\ \E n \in Targets(req[a]) : unsaved' = unsaved \cup {n}
  /\ UNCHANGED <<reg, left, req, res>>

(* A removal erases what is left of an unregistered tunnel.                *)
Erase(a) ==
  /\ req[a] # Null
  /\ req[a].op = "remove"
  /\ reg[req[a].name] = Null
  /\ left' = [left EXCEPT ![req[a].name] = Null]
  /\ UNCHANGED <<reg, unsaved, req, res>>

Restart ==
  /\ \E lost \in SUBSET {n \in Names : BeingRemoved(n) \/ BeingChanged(n)} :
       reg' = [n \in Names |-> IF n \in lost THEN Null ELSE OnDisk(n)]
  /\ left' = NoneLeft
  /\ UNCHANGED unsaved
  /\ req' = [a \in Admins |-> Null]
  /\ res' = [a \in Admins |-> "none"]

Serve(a) == \/ \E r \in Requests : Ask(a, r) /\ UNCHANGED <<left, unsaved>>
            \/ ApplySaved(a)
            \/ Refuse(a) /\ UNCHANGED <<left, unsaved>>
            \/ LoseSaved(a)
            \/ Misplace(a)
            \/ Erase(a)

DNext == (\E a \in Admins : Serve(a)) \/ Restart

DSpec == DInit /\ [][DNext]_<<reg, left, unsaved, req, res>>
=============================================================================
