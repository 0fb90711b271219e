-------------------------- MODULE ServiceRegistry ---------------------------
(***************************************************************************)
(* What the tunnel manager promises its administrators: a registry of      *)
(* configurations, by name, in which every request takes effect at one     *)
(* instant between its call and its return, or not at all.                 *)
(***************************************************************************)
EXTENDS TunnelConfig

CONSTANT Admins

VARIABLES
  reg,   \* the configuration registered under each name, or Null
  req,   \* the request each administrator waits for, or Null
  res    \* the outcome of each administrator's last request

Results == {"none", "ok", "err", "lost"}

RInit == /\ reg = [n \in Names |-> Null]
         /\ req = [a \in Admins |-> Null]
         /\ res = [a \in Admins |-> "none"]

Ask(a, r) == /\ req[a] = Null
             /\ req' = [req EXCEPT ![a] = r]
             /\ res' = [res EXCEPT ![a] = "none"]
             /\ UNCHANGED reg

Answer(a, v) == /\ req' = [req EXCEPT ![a] = Null]
                /\ res' = [res EXCEPT ![a] = v]

(* The entries a request to change an existing tunnel may mean.            *)
Targets(r) == {n \in Names : /\ reg[n] # Null
                             /\ \/ r.op = "replace" /\ reg[n].uuid = r.cfg.uuid
                                \/ r.op = "toggle" /\ n = r.name}

Added(r) == /\ r.op = "add"
            /\ reg[r.cfg.name] = Null
            /\ reg' = [reg EXCEPT ![r.cfg.name] = r.cfg]

Replaced(r) == /\ r.op = "replace"
               /\ \E n \in Targets(r) :
                    /\ r.cfg.name = n \/ reg[r.cfg.name] = Null
                    /\ reg' = [[reg EXCEPT ![n] = Null] EXCEPT ![r.cfg.name] = r.cfg]

Toggled(r) == /\ r.op = "toggle"
              /\ \E n \in Targets(r) :
                   reg' = [reg EXCEPT ![n] = WithDisabled(reg[n], r.disabled)]

Removed(r) == /\ r.op = "remove"
              /\ reg' = [reg EXCEPT ![r.name] = Null]

Apply(a) == /\ req[a] # Null
            /\ Added(req[a]) \/ Replaced(req[a]) \/ Toggled(req[a]) \/ Removed(req[a])
            /\ Answer(a, "ok")

Refuse(a) == /\ req[a] # Null
             /\ Answer(a, "err")
             /\ UNCHANGED reg

(* "rollback failed": the old tunnel could not be brought back.            *)
Lose(a) == /\ req[a] # Null
           /\ \E n \in Targets(req[a]) : reg' = [reg EXCEPT ![n] = Null]
           /\ Answer(a, "lost")

RNext == \E a \in Admins : \/ \E r \in Requests : Ask(a, r)
                           \/ Apply(a)
                           \/ Refuse(a)
                           \/ Lose(a)

RSpec == RInit /\ [][RNext]_<<reg, req, res>>
=============================================================================
