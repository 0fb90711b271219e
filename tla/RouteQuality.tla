---------------------------- MODULE RouteQuality ----------------------------
(***************************************************************************)
(* The shared prober of a smart route, tun/route_quality.go, and its use   *)
(* by the route's selector, tun/route_selector.go.                         *)
(*                                                                         *)
(* A route has members (tunnels) in order of priority.  Rounds probe every *)
(* member over its complete path; when all answers are in, the round is    *)
(* committed under the manager's read lock: it checks the members one by   *)
(* one, updates windows and counters, and may change the current member.   *)
(* Connection handlers ask for the preferred member concurrently, with a   *)
(* list of running members they have read one by one.  Meanwhile members   *)
(* are edited, disabled, removed and started by administrators, each time  *)
(* as a new service instance.                                              *)
(***************************************************************************)
EXTENDS Integers, Sequences, FiniteSets

CONSTANTS
  N,            \* number of members; member 1 has the highest priority
  Window,       \* routeQualityWindow (20)
  FailLimit,    \* consecutive failures that allow a failover (3)
  NormalLimit,  \* consecutive normal results of a reliable standby (2)
  Margin,       \* how many fewer bad samples allow a quality switch (3)
  Cooldown,     \* the 60 seconds, in ticks
  Policies,     \* subset of {"priority", "quality"}
  MaxRebuilds   \* how often members are rebuilt (bounds the model)

ASSUME RouteAssumption ==
  /\ N \in Nat \ {0}
  /\ {Window, FailLimit, NormalLimit, Margin} \subseteq Nat \ {0}
  /\ {Cooldown, MaxRebuilds} \subseteq Nat
  /\ Policies \subseteq {"priority", "quality"}

Members == 1 .. N
None == 0      \* the empty name

(* Service instances are numbered in the order they are built.             *)
NoService == 0
Insts == 1 .. MaxRebuilds + 1

(* A probe's result; a failed download may still find the path connected.  *)
Results == {"normal", "slow", "failedConnected", "failed"}
Failed(r) == r \in {"failedConnected", "failed"}

VARIABLES
  policy,
  (* Manager: the instance registered for a member, whether it is running, *)
  (* and how many instances have been built.                               *)
  svc, running, rebuilds,
  (* routeMemberQualityState, by member: service, window (TRUE is bad),    *)
  (* ConsecutiveFailures and ConsecutiveNormal, counted up to their limit, *)
  (* the last result (Status and Connectivity) and, as history, the        *)
  (* instances whose results went into all this.                           *)
  owner, window, fails, normals, last, origin,
  current,   \* routeQualityMonitor.current
  since,     \* ticks since lastSwitch, counted up to Cooldown
  (* The round: next member to look up, the instances found, and, while it *)
  (* is committed, next member to check and those found running.           *)
  askAt, asked, checkAt, avail,
  (* A handler in routeSelector.candidates: next member to look up, and    *)
  (* the running ones it has seen.                                         *)
  selAt, seen,
  cancelled  \* the route has been closed

stateVars == <<owner, window, fails, normals, last, origin>>
roundVars == <<askAt, asked, checkAt, avail>>
selVars   == <<selAt, seen>>
vars == <<policy, svc, running, rebuilds, stateVars, current, since, roundVars, selVars, cancelled>>

Evaluating == "evaluating"   \* Status of a fresh state

Init ==
  /\ policy \in Policies
  /\ svc       = [m \in Members |-> 1]
  /\ running   = [m \in Members |-> TRUE]
  /\ rebuilds  = 0
  /\ owner     = [m \in Members |-> NoService]
  /\ window    = [m \in Members |-> << >>]
  /\ fails     = [m \in Members |-> 0]
  /\ normals   = [m \in Members |-> 0]
  /\ last      = [m \in Members |-> Evaluating]
  /\ origin    = [m \in Members |-> {}]
  /\ current   = None
  /\ since     = Cooldown
  /\ askAt     = 1
  /\ asked     = [m \in Members |-> NoService]
  /\ checkAt   = 1
  /\ avail     = {}
  /\ selAt     = 1
  /\ seen      = {}
  /\ cancelled = FALSE
-----------------------------------------------------------------------------
(* The members' services, changed under the manager's write lock, which    *)
(* excludes a round that is being committed.                               *)
Committing == checkAt > 1

(* The tunnel is added, edited, enabled or disabled: a new instance, which *)
(* is not running yet.  A disabledService is one that never starts.        *)
Rebuild(m) ==
  /\ ~Committing
  /\ rebuilds < MaxRebuilds
  /\ rebuilds' = rebuilds + 1
  /\ svc' = [svc EXCEPT ![m] = rebuilds + 2]
  /\ running' = [running EXCEPT ![m] = FALSE]
  /\ UNCHANGED <<policy, stateVars, current, since, roundVars, selVars, cancelled>>

Remove(m) ==
  /\ ~Committing
  /\ svc[m] # NoService
  /\ UNCHANGED rebuilds
  /\ svc' = [svc EXCEPT ![m] = NoService]
  /\ running' = [running EXCEPT ![m] = FALSE]
  /\ UNCHANGED <<policy, stateVars, current, since, roundVars, selVars, cancelled>>

(* Server.Run has ended, perhaps after runPreparedService stopped waiting. *)
Started(m) ==
  /\ svc[m] # NoService
  /\ ~running[m]
  /\ running' = [running EXCEPT ![m] = TRUE]
  /\ UNCHANGED <<policy, svc, rebuilds, stateVars, current, since, roundVars, selVars, cancelled>>

Available == {m \in Members : running[m]}   \* memberRunning
-----------------------------------------------------------------------------
(* Choosing a member.                                                      *)
SmallestIn(S) == CHOOSE m \in S : \A k \in S : m <= k

(* chooseLocked: nothing happens when the member stays the same.           *)
Choose(m) == /\ current' = m
             /\ since' = IF m = current THEN since ELSE 0

(* ensureCurrentLocked: keep the current member while it is available,     *)
(* otherwise take the first reliable (priority policy) or the first one.   *)
Reliable(S, nrm) == {m \in S : nrm[m] = NormalLimit}
EnsureCurrent(available, nrm) ==
  IF current \in available THEN current
  ELSE IF available = {} THEN None
  ELSE IF policy = "priority" /\ Reliable(available, nrm) # {}
         THEN SmallestIn(Reliable(available, nrm))
  ELSE SmallestIn(available)

(* applyPriorityLocked and applyQualityLocked begin with the failover.     *)
FailoverNever(cur, available, fl, nrm) == {} \* faulty variant: no failover
Failover(cur, available, fl, nrm) ==
  IF fl[cur] = FailLimit THEN Reliable(available, nrm) \ {cur} ELSE {}

CooledDownAlways(elapsed) == TRUE            \* faulty variant: no cooldown
CooledDown(elapsed) == elapsed = Cooldown

ApplyPriority(cur, elapsed, available, fl, nrm) ==
  LET Higher == {m \in Reliable(available, nrm) : m < cur} IN
  IF Failover(cur, available, fl, nrm) # {} THEN SmallestIn(Failover(cur, available, fl, nrm))
  ELSE IF CooledDown(elapsed) /\ Higher # {} THEN SmallestIn(Higher)
  ELSE cur

Bad(w) == Cardinality({k \in DOMAIN w : w[k]})

(* Members whose windows may be compared.                                  *)
ComparableFailing(available, win, fl) ==     \* faulty variant: failing ones too
  {m \in available : Len(win[m]) = Window}
Comparable(available, win, fl) ==
  {m \in available : Len(win[m]) = Window /\ fl[m] = 0}

(* The best full window, at least Margin better than the current one.      *)
ApplyQuality(cur, elapsed, available, win, fl, nrm) ==
  LET Full == Comparable(available, win, fl)
      Best == {m \in Full : \A k \in Full : Bad(win[m]) <= Bad(win[k])}
      Better == {m \in Best : Bad(win[cur]) - Bad(win[m]) >= Margin} IN
  IF Failover(cur, available, fl, nrm) # {} THEN SmallestIn(Failover(cur, available, fl, nrm))
  ELSE IF Len(win[cur]) = Window /\ CooledDown(elapsed) /\ Better # {}
         THEN SmallestIn(Better)
  ELSE cur
-----------------------------------------------------------------------------
(* A round.                                                                *)

(* The round looks up the next member and starts its probe.                *)
Ask ==
  /\ askAt \in Members
  /\ askAt = 1 => ~cancelled
  /\ askAt' = askAt + 1
  /\ asked' = [asked EXCEPT ![askAt] = svc[askAt]]
  /\ UNCHANGED <<policy, svc, running, rebuilds, stateVars, current, since, checkAt, avail,
                 selVars, cancelled>>

Asked == askAt = N + 1
EndRound == /\ askAt' = 1
            /\ asked' = [m \in Members |-> NoService]
            /\ checkAt' = 1
            /\ avail' = {}

(* The route is closed while the answers are collected, or before the      *)
(* round is applied.                                                       *)
QuitRound ==
  /\ Asked
  /\ checkAt \in {1, N + 1}
  /\ cancelled
  /\ EndRound
  /\ UNCHANGED <<policy, svc, running, rebuilds, stateVars, current, since, selVars, cancelled>>

(* The answers are in; the members are checked in order.  The round is     *)
(* dropped at the first one rebuilt since it was asked, and a record that  *)
(* belongs to another instance is replaced by an empty one.                *)
StaleNever(m) == FALSE                       \* faulty variant: answers are not checked
Stale(m) == asked[m] # svc[m]

DropRound ==
  /\ Asked
  /\ checkAt \in Members
  /\ Stale(checkAt)
  /\ EndRound
  /\ UNCHANGED <<policy, svc, running, rebuilds, stateVars, current, since, selVars, cancelled>>

RenewState(m) ==
  \/ /\ owner[m] = svc[m]
     /\ UNCHANGED stateVars
  \/ /\ owner[m] # svc[m]
     /\ owner'   = [owner EXCEPT ![m] = svc[m]]
     /\ window'  = [window EXCEPT ![m] = << >>]
     /\ fails'   = [fails EXCEPT ![m] = 0]
     /\ normals' = [normals EXCEPT ![m] = 0]
     /\ last'    = [last EXCEPT ![m] = Evaluating]
     /\ origin'  = [origin EXCEPT ![m] = {}]

CheckMember ==
  /\ Asked
  /\ checkAt \in Members
  /\ ~Stale(checkAt)
  /\ RenewState(checkAt)
  /\ checkAt' = checkAt + 1
  /\ avail' = IF running[checkAt] THEN avail \cup {checkAt} ELSE avail
  /\ UNCHANGED <<policy, svc, running, rebuilds, current, since, askAt, asked, selVars, cancelled>>

(* What the probes may have answered when the last answer has come in.     *)
(* Only an instance that was running is probed, and one that is still      *)
(* registered and does not run has not run before.                         *)
Answers == {r \in [Members -> Results] : \A m \in Members : ~running[m] => r[m] = "failed"}

AllFailed(r) == /\ Cardinality(avail) > 1
                /\ \A m \in avail : Failed(r[m])

UpTo(limit, k) == IF k > limit THEN limit ELSE k
Slide(w, bad) == IF Len(w) = Window THEN Append(Tail(w), bad) ELSE Append(w, bad)

Fails1(r) == [m \in Members |->
                IF Failed(r[m]) /\ ~(AllFailed(r) /\ r[m] = "failedConnected")
                  THEN UpTo(FailLimit, fails[m] + 1) ELSE 0]
Normals1(r) == [m \in Members |->
                  IF r[m] = "normal" THEN UpTo(NormalLimit, normals[m] + 1) ELSE 0]
Window1(r) == [m \in Members |->
                 IF AllFailed(r) THEN window[m] ELSE Slide(window[m], r[m] # "normal")]

Decision(r) ==
  LET cur == EnsureCurrent(avail, Normals1(r))
      elapsed == IF cur = current THEN since ELSE 0 IN
  IF cur = None \/ AllFailed(r) THEN cur
  ELSE IF policy = "priority"
    THEN ApplyPriority(cur, elapsed, avail, Fails1(r), Normals1(r))
    ELSE ApplyQuality(cur, elapsed, avail, Window1(r), Fails1(r), Normals1(r))

(* applyRound, with all answers of the round.                              *)
ApplyRound(r) ==
  /\ checkAt = N + 1
  /\ ~cancelled
  /\ UNCHANGED owner
  /\ window' = Window1(r)
  /\ fails' = Fails1(r)
  /\ normals' = Normals1(r)
  /\ last' = r
  /\ origin' = [m \in Members |-> origin[m] \cup {asked[m]}]
  /\ Choose(Decision(r))
  /\ EndRound
  /\ UNCHANGED <<policy, svc, running, rebuilds, selVars, cancelled>>
-----------------------------------------------------------------------------
(* routeSelector.candidates, by a connection handler.                      *)
LookUp ==
  /\ selAt \in Members
  /\ selAt' = selAt + 1
  /\ seen' = IF selAt \in Available THEN seen \cup {selAt} ELSE seen
  /\ UNCHANGED <<policy, svc, running, rebuilds, stateVars, current, since, roundVars, cancelled>>

Preferred ==
  /\ selAt = N + 1
  /\ Choose(EnsureCurrent(seen, normals))
  /\ selAt' = 1
  /\ seen' = {}
  /\ UNCHANGED <<policy, svc, running, rebuilds, stateVars, roundVars, cancelled>>

(* The clock, and routeService.Close.                                      *)
Tick ==
  /\ since < Cooldown
  /\ since' = since + 1
  /\ UNCHANGED <<policy, svc, running, rebuilds, stateVars, current, roundVars, selVars, cancelled>>

Cancel ==
  /\ ~cancelled
  /\ cancelled' = TRUE
  /\ UNCHANGED <<policy, svc, running, rebuilds, stateVars, current, since, roundVars, selVars>>
-----------------------------------------------------------------------------
Env == \E m \in Members : Rebuild(m) \/ Remove(m) \/ Started(m)
Round == QuitRound \/ DropRound \/ CheckMember \/ \E r \in Answers : ApplyRound(r)
Select == LookUp \/ Preferred

Next == \/ Env
        \/ Ask
        \/ Round
        \/ Select
        \/ Tick
        \/ Cancel

Spec == Init /\ [][Next]_vars

(* Probes have a time limit, so that rounds go on for ever, and the clock  *)
(* advances.  Nothing is assumed of members, handlers and administrators.  *)
Fairness == /\ WF_vars(Ask)
            /\ WF_vars(Round)
            /\ WF_vars(Tick)

FairSpec == Spec /\ Fairness
-----------------------------------------------------------------------------
(* The type invariant of the prober's state.                               *)
TypeOK ==
  /\ policy \in Policies
  /\ svc \in [Members -> Insts \cup {NoService}]
  /\ running \in [Members -> BOOLEAN]
  /\ rebuilds \in 0 .. MaxRebuilds
  /\ owner \in [Members -> Insts \cup {NoService}]
  /\ window \in [Members -> Seq(BOOLEAN)] /\ \A m \in Members : Len(window[m]) <= Window
  /\ fails \in [Members -> 0 .. FailLimit]
  /\ normals \in [Members -> 0 .. NormalLimit]
  /\ last \in [Members -> Results \cup {Evaluating}]
  /\ origin \in [Members -> SUBSET (Insts \cup {NoService})]
  /\ current \in Members \cup {None}
  /\ since \in 0 .. Cooldown
  /\ asked \in [Members -> Insts \cup {NoService}]
  /\ askAt \in 1 .. N + 1
  /\ checkAt \in 1 .. N + 1
  /\ avail \subseteq Members
  /\ selAt \in 1 .. N + 1
  /\ seen \subseteq Members
  /\ cancelled \in BOOLEAN

(* A member's window and counters hold results of one service instance     *)
(* only, the one they are labelled with: an answer of an instance that was *)
(* replaced while it was probed is never committed, and an instance never  *)
(* inherits the record of its predecessor.                                 *)
SamplesOfOneInstance == \A m \in Members : origin[m] \subseteq {owner[m]}

(* What the step that changes the current member knew to be running.       *)
Known == IF selAt = N + 1 /\ selAt' = 1 THEN seen ELSE avail

(* No flapping: while the current member is running, it is replaced before *)
(* the cooldown has passed only for failing repeatedly, and by a member    *)
(* with a run of normal results.  Handlers that ask concurrently never     *)
(* cause such a switch.                                                    *)
NoFlapping ==
  [][current' # current /\ current \in Known /\ since < Cooldown
       => fails'[current] = FailLimit /\ normals'[current'] = NormalLimit]_vars

(* A running current member is never given up for one that is not running  *)
(* or that has failed its last probe ("no switch to an unknown path").     *)
SwitchToWorking ==
  [][current' # current /\ current \in Known
       => /\ current' \in Available
          /\ fails'[current'] = 0
          /\ ~Failed(last'[current'])]_vars

(* Convergence: once the members and the results of their probes settle,   *)
(* the route settles on a running member; if there is one with normal      *)
(* results it is not a failing one, under the priority policy no normal    *)
(* member has a higher priority, and under the quality policy it is a      *)
(* normal one, however the handlers' calls interleave with the rounds.     *)
Settled(h) ==
  /\ <>[][UNCHANGED <<svc, running, cancelled>>]_vars
  /\ <>[](last = h)

GoodChoice(h) ==
  LET Normal == {m \in Available : h[m] = "normal"} IN
  /\ current \in Available \/ Available = {}
  /\ Normal # {} => /\ ~Failed(h[current])
                    /\ policy = "priority" => \A m \in Normal : current <= m
                    /\ policy = "quality" => current \in Normal

Converges ==
  \A h \in [Members -> Results] : Settled(h) => <>[](cancelled \/ GoodChoice(h))
=============================================================================
