------------------------- MODULE RouteQualityProofs -------------------------
(***************************************************************************)
(* Proofs about RouteQuality, for every number of members, every window,   *)
(* threshold and cooldown, and any number of rebuilt services.             *)
(***************************************************************************)
EXTENDS RouteQuality, WellFoundedInduction, TLAPS

(* A set of members that is not empty has a smallest one.                  *)
LEMMA SmallestInSet ==
  ASSUME NEW S \in SUBSET Members, S # {}
  PROVE  SmallestIn(S) \in S
  <1>1. S \subseteq Nat
    BY RouteAssumption DEF Members
  <1>2. \E m \in S : \A k \in S : ~(<<k, m>> \in OpToRel(<, Nat))
    BY <1>1, NatLessThanWellFounded, WFMin
  <1>3. PICK m \in S : \A k \in S : ~(<<k, m>> \in OpToRel(<, Nat))
    BY <1>2
  <1>4. \A k \in S : m <= k
    <2>1. \A i, j \in Nat : i < j => <<i, j>> \in OpToRel(<, Nat)
      BY DEF OpToRel
    <2>2. \A k \in S : ~(k < m)
      BY <1>1, <1>3, <2>1
    <2> QED
      BY <1>1, <2>2
  <1> QED
    BY <1>4 DEF SmallestIn

(* A failover leaves a member with FailLimit failures for a running one    *)
(* with NormalLimit normal results.                                        *)
LEMMA FailoverTarget ==
  ASSUME NEW S \in SUBSET Members, NEW cur, NEW fl, NEW nrm, Failover(cur, S, fl, nrm) # {}
  PROVE  LET m == SmallestIn(Failover(cur, S, fl, nrm)) IN
         m \in S /\ fl[cur] = FailLimit /\ nrm[m] = NormalLimit
  <1>1. Failover(cur, S, fl, nrm) \in SUBSET Members
    BY DEF Failover, Reliable
  <1>2. SmallestIn(Failover(cur, S, fl, nrm)) \in Failover(cur, S, fl, nrm)
    BY <1>1, SmallestInSet
  <1> QED
    BY <1>2 DEF Failover, Reliable

(* applyPriorityLocked keeps the current member, fails over, or returns to *)
(* a reliable member after the cooldown.                                   *)
LEMMA PriorityTarget ==
  ASSUME NEW S \in SUBSET Members, NEW cur, NEW elapsed, NEW fl, NEW nrm,
         NEW m, m = ApplyPriority(cur, elapsed, S, fl, nrm), m # cur
  PROVE  /\ m \in S
         /\ nrm[m] = NormalLimit
         /\ fl[cur] = FailLimit \/ CooledDown(elapsed)
  <1> DEFINE Higher == {k \in Reliable(S, nrm) : k < cur}
  <1>1. CASE Failover(cur, S, fl, nrm) # {}
    BY <1>1, FailoverTarget DEF ApplyPriority
  <1>2. CASE Failover(cur, S, fl, nrm) = {}
    <2>1. CooledDown(elapsed) /\ Higher # {} /\ m = SmallestIn(Higher)
      BY <1>2 DEF ApplyPriority
    <2>2. Higher \in SUBSET Members
      BY DEF Reliable
    <2>3. m \in Higher
      BY <2>1, <2>2, SmallestInSet
    <2> QED
      BY <2>1, <2>3 DEF Reliable
  <1> QED
    BY <1>1, <1>2

(* applyQualityLocked keeps the current member, fails over, or changes to  *)
(* a member that did not fail last time after the cooldown.                *)
LEMMA QualityTarget ==
  ASSUME NEW S \in SUBSET Members, NEW cur, NEW elapsed, NEW win, NEW fl, NEW nrm,
         NEW m, m = ApplyQuality(cur, elapsed, S, win, fl, nrm), m # cur
  PROVE  /\ m \in S
         /\ \/ nrm[m] = NormalLimit /\ fl[cur] = FailLimit
            \/ fl[m] = 0 /\ CooledDown(elapsed)
  <1> DEFINE Full == Comparable(S, win, fl)
             Best == {k \in Full : \A j \in Full : Bad(win[k]) <= Bad(win[j])}
             Better == {k \in Best : Bad(win[cur]) - Bad(win[k]) >= Margin}
  <1>1. CASE Failover(cur, S, fl, nrm) # {}
    BY <1>1, FailoverTarget DEF ApplyQuality
  <1>2. CASE Failover(cur, S, fl, nrm) = {}
    <2>1. CooledDown(elapsed) /\ Better # {} /\ m = SmallestIn(Better)
      BY <1>2 DEF ApplyQuality
    <2>2. Full \in SUBSET Members
      BY DEF Comparable
    <2>3. Better \in SUBSET Members
      BY <2>2
    <2>4. m \in Better
      BY <2>1, <2>3, SmallestInSet
    <2>5. m \in Full
      BY <2>4
    <2> QED
      BY <2>1, <2>5 DEF Comparable
  <1> QED
    BY <1>1, <1>2

-----------------------------------------------------------------------------
(* What a round that replaces a running member knows of the new one: it is *)
(* running, did not fail, and either the cooldown had passed or the old    *)
(* member had failed FailLimit times and the new one was reliable.         *)
LEMMA RoundSwitch ==
  ASSUME fails \in [Members -> Nat], avail \subseteq Members,
         NEW r \in Answers, current \in avail, Decision(r) # current
  PROVE  /\ Decision(r) \in avail
         /\ Fails1(r)[Decision(r)] = 0
         /\ ~Failed(r[Decision(r)])
         /\ \/ CooledDown(since)
            \/ Fails1(r)[current] = FailLimit /\ Normals1(r)[Decision(r)] = NormalLimit
  <1> DEFINE d == Decision(r)
  <1>1. EnsureCurrent(avail, Normals1(r)) = current
    BY DEF EnsureCurrent
  <1>2. ~AllFailed(r)
    BY <1>1 DEF Decision
  <1>3. \/ d = ApplyPriority(current, since, avail, Fails1(r), Normals1(r))
        \/ d = ApplyQuality(current, since, avail, Window1(r), Fails1(r), Normals1(r))
    BY <1>1, <1>2 DEF Decision
  <1>4. /\ d \in avail
        /\ Normals1(r)[d] = NormalLimit \/ Fails1(r)[d] = 0
        /\ \/ CooledDown(since)
           \/ Fails1(r)[current] = FailLimit /\ Normals1(r)[d] = NormalLimit
    BY <1>3, PriorityTarget, QualityTarget
  <1>5. d \in Members
    BY <1>4
  <1>6. ~Failed(r[d])
    <2>1. CASE Normals1(r)[d] = NormalLimit
      BY <2>1, <1>5, RouteAssumption DEF Normals1, Failed
    <2>2. CASE Fails1(r)[d] = 0 /\ Failed(r[d])
      <3>1. UpTo(FailLimit, fails[d] + 1) = 0
        BY <2>2, <1>2, <1>5 DEF Fails1
      <3>2. fails[d] \in Nat
        BY <1>5
      <3> QED
        BY <3>1, <3>2, RouteAssumption DEF UpTo
    <2> QED
      BY <1>4, <2>1, <2>2
  <1>7. Fails1(r)[d] = 0
    BY <1>5, <1>6 DEF Fails1
  <1> QED
    BY <1>4, <1>6, <1>7
-----------------------------------------------------------------------------
(* Applying a round keeps the members' records within the window and the   *)
(* limits.                                                                 *)
LEMMA RenewType ==
  ASSUME TypeOK, NEW m \in Members, RenewState(m)
  PROVE  /\ owner' \in [Members -> Insts \cup {NoService}]
         /\ window' \in [Members -> Seq(BOOLEAN)]
         /\ \A k \in Members : Len(window'[k]) <= Window
         /\ fails' \in [Members -> 0 .. FailLimit]
         /\ normals' \in [Members -> 0 .. NormalLimit]
         /\ last' \in [Members -> Results \cup {Evaluating}]
         /\ origin' \in [Members -> SUBSET (Insts \cup {NoService})]
  <1>1. CASE UNCHANGED stateVars
    BY <1>1 DEF TypeOK, stateVars
  <1>2. CASE ~UNCHANGED stateVars
    <2>1. owner' \in [Members -> Insts \cup {NoService}]
      BY <1>2 DEF TypeOK, RenewState
    <2>2. 0 \in 0 .. FailLimit /\ 0 \in 0 .. NormalLimit
      BY RouteAssumption
    <2>3. fails' \in [Members -> 0 .. FailLimit] /\ normals' \in [Members -> 0 .. NormalLimit]
      <3>1. fails' = [fails EXCEPT ![m] = 0] /\ normals' = [normals EXCEPT ![m] = 0]
        BY <1>2 DEF RenewState
      <3>2. fails' \in [Members -> 0 .. FailLimit]
        BY <2>2, <3>1 DEF TypeOK
      <3>3. normals' \in [Members -> 0 .. NormalLimit]
        BY <2>2, <3>1 DEF TypeOK
      <3> QED
        BY <3>2, <3>3
    <2>4. last' \in [Members -> Results \cup {Evaluating}]
      BY <1>2 DEF TypeOK, RenewState
    <2>5. origin' \in [Members -> SUBSET (Insts \cup {NoService})]
      BY <1>2 DEF TypeOK, RenewState
    <2>6. << >> \in Seq(BOOLEAN) /\ Len(<< >>) = 0 /\ 0 <= Window
      BY RouteAssumption
    <2>7. window' \in [Members -> Seq(BOOLEAN)]
      <3>1. window' = [window EXCEPT ![m] = << >>]
        BY <1>2 DEF RenewState
      <3>2. window \in [Members -> Seq(BOOLEAN)]
        BY DEF TypeOK
      <3> QED
        BY <2>6, <3>1, <3>2
    <2>8. \A k \in Members : window'[k] = window[k] \/ window'[k] = << >>
      BY <1>2 DEF TypeOK, RenewState
    <2>9. \A k \in Members : Len(window'[k]) <= Window
      BY <2>6, <2>8 DEF TypeOK
    <2> QED
      BY <2>1, <2>3, <2>4, <2>5, <2>7, <2>9
  <1> QED
    BY <1>1, <1>2

LEMMA SlideType ==
  ASSUME NEW w \in Seq(BOOLEAN), Len(w) <= Window, NEW b \in BOOLEAN
  PROVE  Slide(w, b) \in Seq(BOOLEAN) /\ Len(Slide(w, b)) <= Window
  <1>1. CASE Len(w) = Window
    <2>1. w # << >> /\ Window \in Nat \ {0}
      BY <1>1, RouteAssumption
    <2>2. Tail(w) \in Seq(BOOLEAN) /\ Len(Tail(w)) = Window - 1
      BY <1>1, <2>1
    <2>3. /\ Append(Tail(w), b) \in Seq(BOOLEAN)
          /\ Len(Append(Tail(w), b)) = Window
      BY <2>1, <2>2
    <2> QED
      BY <1>1, <2>1, <2>3 DEF Slide
  <1>2. CASE Len(w) # Window
    <2>1. Len(w) \in Nat /\ Window \in Nat
      BY RouteAssumption
    <2>2. Append(w, b) \in Seq(BOOLEAN) /\ Len(Append(w, b)) = Len(w) + 1
      OBVIOUS
    <2>3. Len(w) + 1 <= Window
      BY <1>2, <2>1
    <2>4. Slide(w, b) = Append(w, b)
      BY <1>2 DEF Slide
    <2> QED
      BY <2>2, <2>3, <2>4
  <1> QED
    BY <1>1, <1>2

LEMMA CountedType ==
  ASSUME TypeOK, NEW r
  PROVE  /\ Fails1(r) \in [Members -> 0 .. FailLimit]
         /\ Normals1(r) \in [Members -> 0 .. NormalLimit]
         /\ Window1(r) \in [Members -> Seq(BOOLEAN)]
         /\ \A m \in Members : Len(Window1(r)[m]) <= Window
  <1>1. \A limit \in Nat, k \in Nat : UpTo(limit, k) \in 0 .. limit
    BY DEF UpTo
  <1>2. Fails1(r) \in [Members -> 0 .. FailLimit]
    <2>1. FailLimit \in Nat /\ 0 \in 0 .. FailLimit
      BY RouteAssumption
    <2>2. \A m \in Members : fails[m] + 1 \in Nat
      BY <2>1 DEF TypeOK
    <2>3. \A m \in Members : UpTo(FailLimit, fails[m] + 1) \in 0 .. FailLimit
      BY <1>1, <2>1, <2>2
    <2> QED
      BY <2>1, <2>3 DEF Fails1
  <1>3. Normals1(r) \in [Members -> 0 .. NormalLimit]
    <2>1. NormalLimit \in Nat /\ 0 \in 0 .. NormalLimit
      BY RouteAssumption
    <2>2. \A m \in Members : normals[m] + 1 \in Nat
      BY <2>1 DEF TypeOK
    <2>3. \A m \in Members : UpTo(NormalLimit, normals[m] + 1) \in 0 .. NormalLimit
      BY <1>1, <2>1, <2>2
    <2> QED
      BY <2>1, <2>3 DEF Normals1
  <1>4. ASSUME NEW m \in Members
        PROVE  Window1(r)[m] \in Seq(BOOLEAN) /\ Len(Window1(r)[m]) <= Window
    <2>1. window[m] \in Seq(BOOLEAN) /\ Len(window[m]) <= Window
      BY DEF TypeOK
    <2>2. (r[m] # "normal") \in BOOLEAN
      OBVIOUS
    <2>3. /\ Slide(window[m], r[m] # "normal") \in Seq(BOOLEAN)
          /\ Len(Slide(window[m], r[m] # "normal")) <= Window
      BY <2>1, <2>2, SlideType
    <2> QED
      BY <2>1, <2>3 DEF Window1
  <1>5. Window1(r) \in [Members -> Seq(BOOLEAN)]
    BY <1>4 DEF Window1
  <1> QED
    BY <1>2, <1>3, <1>4, <1>5

(* The selected member is one of the route's, or none.                     *)
LEMMA EnsureType ==
  ASSUME TypeOK, NEW S \in SUBSET Members, NEW nrm
  PROVE  EnsureCurrent(S, nrm) \in Members \cup {None}
  <1>1. Reliable(S, nrm) \in SUBSET Members
    BY DEF Reliable
  <1>2. Reliable(S, nrm) # {} => SmallestIn(Reliable(S, nrm)) \in Members
    BY <1>1, SmallestInSet
  <1>3. S # {} => SmallestIn(S) \in Members
    BY SmallestInSet
  <1> QED
    BY <1>2, <1>3 DEF EnsureCurrent, TypeOK

LEMMA DecisionType ==
  ASSUME TypeOK, NEW r
  PROVE  Decision(r) \in Members \cup {None}
  <1> DEFINE cur == EnsureCurrent(avail, Normals1(r))
             elapsed == IF cur = current THEN since ELSE 0
  <1>1. avail \in SUBSET Members
    BY DEF TypeOK
  <1>2. cur \in Members \cup {None}
    BY <1>1, EnsureType
  <1>3. \/ Decision(r) = cur
        \/ Decision(r) = ApplyPriority(cur, elapsed, avail, Fails1(r), Normals1(r))
        \/ Decision(r) = ApplyQuality(cur, elapsed, avail, Window1(r), Fails1(r), Normals1(r))
    BY DEF Decision
  <1>4. Decision(r) = cur \/ Decision(r) \in avail
    BY <1>1, <1>3, PriorityTarget, QualityTarget
  <1> QED
    BY <1>1, <1>2, <1>4

(* The type invariant is inductive.                                        *)
LEMMA InitType == Init => TypeOK
  <1> SUFFICES ASSUME Init PROVE TypeOK
    OBVIOUS
  <1> USE RouteAssumption DEF Init
  <1>1. /\ svc \in [Members -> Insts \cup {NoService}] /\ owner \in [Members -> Insts \cup {NoService}]
        /\ asked \in [Members -> Insts \cup {NoService}] /\ rebuilds \in 0 .. MaxRebuilds
    BY DEF Insts
  <1>2. running \in [Members -> BOOLEAN]
    OBVIOUS
  <1>3. /\ fails \in [Members -> 0 .. FailLimit] /\ normals \in [Members -> 0 .. NormalLimit]
        /\ since \in 0 .. Cooldown /\ askAt \in 1 .. N + 1 /\ checkAt \in 1 .. N + 1 /\ selAt \in 1 .. N + 1
    OBVIOUS
  <1>4. window \in [Members -> Seq(BOOLEAN)] /\ \A m \in Members : Len(window[m]) <= Window
    OBVIOUS
  <1>5. /\ last \in [Members -> Results \cup {Evaluating}]
        /\ origin \in [Members -> SUBSET (Insts \cup {NoService})]
        /\ current \in Members \cup {None} /\ seen \subseteq Members /\ avail \subseteq Members
        /\ policy \in Policies /\ cancelled \in BOOLEAN
    OBVIOUS
  <1> QED
    BY <1>1, <1>2, <1>3, <1>4, <1>5 DEF TypeOK

LEMMA NextType == TypeOK /\ [Next]_vars => TypeOK'
  <1> SUFFICES ASSUME TypeOK, [Next]_vars PROVE TypeOK'
    OBVIOUS
  <1> USE RouteAssumption DEF TypeOK, stateVars, roundVars, selVars
  <1>1. ASSUME NEW m \in Members, Rebuild(m) PROVE TypeOK'
    <2>1. rebuilds + 1 \in 0 .. MaxRebuilds /\ rebuilds + 2 \in Insts
      BY SMTT(30), <1>1 DEF Rebuild, Insts
    <2> QED
      BY <1>1, <2>1 DEF Rebuild
  <1>2. ASSUME NEW m \in Members, Remove(m) PROVE TypeOK'
    BY <1>2 DEF Remove
  <1>3. ASSUME NEW m \in Members, Started(m) PROVE TypeOK'
    BY <1>3 DEF Started
  <1>4. CASE Ask
    <2>1. askAt + 1 \in 1 .. N + 1 /\ svc[askAt] \in Insts \cup {NoService}
      BY <1>4 DEF Ask, Members
    <2> QED
      BY <1>4, <2>1 DEF Ask
  <1>5. EndRound => /\ askAt' \in 1 .. N + 1 /\ checkAt' \in 1 .. N + 1
                    /\ asked' \in [Members -> Insts \cup {NoService}]
                    /\ avail' \subseteq Members
    BY DEF EndRound
  <1>6. CASE QuitRound \/ DropRound
    BY <1>5, <1>6 DEF QuitRound, DropRound
  <1>6a. CASE CheckMember
    <2>1. checkAt + 1 \in 1 .. N + 1 /\ checkAt \in Members
      BY <1>6a DEF CheckMember, Members
    <2>2. avail' \subseteq Members
      BY <1>6a, <2>1 DEF CheckMember
    <2>3. /\ owner' \in [Members -> Insts \cup {NoService}]
          /\ window' \in [Members -> Seq(BOOLEAN)]
          /\ \A m \in Members : Len(window'[m]) <= Window
          /\ fails' \in [Members -> 0 .. FailLimit]
          /\ normals' \in [Members -> 0 .. NormalLimit]
          /\ last' \in [Members -> Results \cup {Evaluating}]
          /\ origin' \in [Members -> SUBSET (Insts \cup {NoService})]
      BY <1>6a, <2>1, RenewType DEF CheckMember
    <2> QED
      BY <1>6a, <2>1, <2>2, <2>3 DEF CheckMember
  <1>7. \A c \in Members \cup {None} : Choose(c) => /\ current' \in Members \cup {None}
                                                  /\ since' \in 0 .. Cooldown
    BY DEF Choose
  <1>8. ASSUME NEW r \in Answers, ApplyRound(r) PROVE TypeOK'
    <2>1. r \in [Members -> Results]
      BY DEF Answers
    <2>2. [m \in Members |-> origin[m] \cup {asked[m]}]
            \in [Members -> SUBSET (Insts \cup {NoService})]
      OBVIOUS
    <2>3. current' \in Members \cup {None} /\ since' \in 0 .. Cooldown
      BY <1>7, <1>8, DecisionType DEF ApplyRound
    <2>4. /\ fails' \in [Members -> 0 .. FailLimit]
          /\ normals' \in [Members -> 0 .. NormalLimit]
          /\ window' \in [Members -> Seq(BOOLEAN)]
          /\ \A m \in Members : Len(window'[m]) <= Window
      BY <1>8, CountedType DEF ApplyRound
    <2> QED
      BY <1>5, <1>8, <2>1, <2>2, <2>3, <2>4 DEF ApplyRound
  <1>9. CASE LookUp
    <2>1. selAt + 1 \in 1 .. N + 1
      BY <1>9 DEF LookUp, Members
    <2>2. seen' \subseteq Members
      BY <1>9 DEF LookUp
    <2> QED
      BY <1>9, <2>1, <2>2 DEF LookUp
  <1>10. CASE Preferred
    <2>1. current' \in Members \cup {None} /\ since' \in 0 .. Cooldown
      BY <1>7, <1>10, EnsureType DEF Preferred
    <2> QED
      BY SMTT(30), <1>10, <2>1 DEF Preferred
  <1>11. CASE Tick
    BY <1>11 DEF Tick
  <1>12. CASE Cancel
    BY <1>12 DEF Cancel
  <1>13. CASE UNCHANGED vars
    BY <1>13 DEF vars
  <1> QED
    BY <1>1, <1>2, <1>3, <1>4, <1>6, <1>6a, <1>8, <1>9, <1>10, <1>11, <1>12, <1>13
    DEF Next, Env, Round, Select

(* The prober's state keeps its type: windows never grow beyond Window     *)
(* samples, and the selected member is always one of the route's or none.  *)
THEOREM RouteTypeCorrect == Spec => []TypeOK
  BY InitType, NextType, PTL DEF Spec
-----------------------------------------------------------------------------
(* While a round is committed, the records of the members checked so far   *)
(* belong to the instances that were asked, and the members found running  *)
(* still run: the read lock keeps administrators out.                      *)
CommitInv ==
  /\ checkAt > 1 => Asked
  /\ \A m \in Members : m < checkAt => owner[m] = asked[m]
  /\ \A m \in avail : m < checkAt /\ m \in Available

LEMMA CommitStep ==
  ASSUME TypeOK, CommitInv, [Next]_vars
  PROVE  CommitInv'
  <1> USE RouteAssumption DEF TypeOK, CommitInv, Members, Available
  <1>1. ASSUME NEW m \in Members, Rebuild(m) \/ Remove(m) PROVE CommitInv'
    <2>1. checkAt = 1 /\ avail = {}
      BY SMTT(30), <1>1 DEF Rebuild, Remove, Committing
    <2>2. checkAt' = 1 /\ avail' = {}
      BY <1>1, <2>1 DEF Rebuild, Remove, roundVars
    <2> QED
      BY <2>2
  <1>2. ASSUME NEW m \in Members, Started(m) PROVE CommitInv'
    BY <1>2 DEF Started, stateVars, roundVars, Asked
  <1>3. CASE Ask
    <2>1. checkAt = 1 /\ avail = {}
      BY SMTT(30), <1>3 DEF Ask, Asked
    <2>2. checkAt' = 1 /\ avail' = {}
      BY <1>3, <2>1 DEF Ask
    <2> QED
      BY <2>2
  <1>4. EndRound /\ UNCHANGED running => CommitInv'
    BY DEF EndRound
  <1>5. CASE CheckMember
    <2>1. owner'[checkAt] = asked[checkAt]
      BY <1>5 DEF CheckMember, Stale, RenewState, stateVars
    <2>2. \A m \in Members : m # checkAt => owner'[m] = owner[m]
      BY <1>5 DEF CheckMember, RenewState, stateVars
    <2>3. asked' = asked /\ running' = running /\ checkAt' = checkAt + 1
      BY <1>5 DEF CheckMember
    <2>4. \A m \in Members : m < checkAt' => owner'[m] = asked'[m]
      <3> SUFFICES ASSUME NEW m \in Members, m < checkAt + 1 PROVE owner'[m] = asked[m]
        BY <2>3
      <3>1. m = checkAt \/ m < checkAt
        OBVIOUS
      <3>2. m < checkAt => owner[m] = asked[m] /\ m # checkAt
        OBVIOUS
      <3> QED
        BY <2>1, <2>2, <3>1, <3>2
    <2>5. \A m \in avail' : m < checkAt' /\ m \in Available'
      BY SMTT(30), <1>5, <2>3 DEF CheckMember
    <2>6. Asked'
      BY <1>5 DEF CheckMember, Asked
    <2> QED
      BY <2>4, <2>5, <2>6
  <1>6. CASE UNCHANGED <<running, owner, askAt, asked, checkAt, avail>>
    BY <1>6 DEF Asked
  <1> QED
    BY <1>1, <1>2, <1>3, <1>4, <1>5, <1>6
    DEF Next, Env, Round, Select, QuitRound, DropRound, ApplyRound, LookUp, Preferred,
        Tick, Cancel, vars, stateVars, roundVars

LEMMA CommitInvariant == Spec => []CommitInv
  <1>1. Init => CommitInv
    BY RouteAssumption DEF Init, CommitInv, Members
  <1> QED
    BY <1>1, CommitStep, RouteTypeCorrect, PTL DEF Spec

(* A record never mixes instances, whatever is rebuilt while probes run:   *)
(* round() compares the instances before it commits.                       *)
LEMMA SamplesStep ==
  ASSUME TypeOK, CommitInv, SamplesOfOneInstance, [Next]_vars
  PROVE  SamplesOfOneInstance'
  <1>1. CASE CheckMember
    BY <1>1 DEF CheckMember, RenewState, SamplesOfOneInstance, TypeOK, stateVars
  <1>2. ASSUME NEW r \in Answers, ApplyRound(r) PROVE SamplesOfOneInstance'
    <2>1. \A m \in Members : m < checkAt
      BY <1>2, RouteAssumption DEF ApplyRound, Members
    <2>2. \A m \in Members : owner[m] = asked[m]
      BY <2>1 DEF CommitInv
    <2> QED
      BY <1>2, <2>2 DEF ApplyRound, SamplesOfOneInstance
  <1>3. CASE UNCHANGED <<owner, origin>>
    BY <1>3 DEF SamplesOfOneInstance
  <1> QED
    BY <1>1, <1>2, <1>3
    DEF Next, Env, Round, Select, Rebuild, Remove, Started, Ask, QuitRound, DropRound,
        LookUp, Preferred, Tick, Cancel, vars, stateVars

(* Windows and counters are never mixed over service instances.            *)
THEOREM RouteSamplesOfOneInstance == Spec => []SamplesOfOneInstance
  <1>1. Init => SamplesOfOneInstance
    BY DEF Init, SamplesOfOneInstance
  <1> QED
    BY <1>1, SamplesStep, RouteTypeCorrect, CommitInvariant, PTL DEF Spec

(* The only steps that change the current member: a round, and a handler   *)
(* that did not see it running.                                            *)
LEMMA SwitchStep ==
  ASSUME TypeOK, [Next]_vars, current' # current, current \in Known
  PROVE  \E r \in Answers : /\ ApplyRound(r)
                            /\ current \in avail
                            /\ current' = Decision(r)
  <1>1. ~Preferred
    <2>1. SUFFICES ASSUME Preferred PROVE FALSE
      OBVIOUS
    <2>2. Known = seen
      BY <2>1 DEF Preferred, Known
    <2> QED
      BY <2>1, <2>2 DEF Preferred, Choose, EnsureCurrent
  <1>2. PICK r \in Answers : ApplyRound(r)
    BY <1>1 DEF Next, Env, Round, Select, Rebuild, Remove, Started, Ask, LookUp,
                QuitRound, DropRound, CheckMember, Tick, Cancel, vars
  <1>3. selAt' = selAt /\ current' = Decision(r)
    BY <1>2 DEF ApplyRound, selVars, Choose
  <1>4. Known = avail
    BY <1>3, RouteAssumption DEF Known
  <1> QED
    BY <1>2, <1>3, <1>4

(* What NoFlapping and SwitchToWorking say of one step.                    *)
LEMMA SwitchFacts ==
  ASSUME TypeOK, CommitInv, [Next]_vars, current' # current, current \in Known
  PROVE  /\ current' \in Available
         /\ fails'[current'] = 0
         /\ ~Failed(last'[current'])
         /\ since < Cooldown => /\ fails'[current] = FailLimit
                               /\ normals'[current'] = NormalLimit
  <1>1. PICK r \in Answers : ApplyRound(r) /\ current \in avail /\ current' = Decision(r)
    BY SwitchStep
  <1>2. fails \in [Members -> Nat] /\ avail \subseteq Members
    BY RouteAssumption DEF TypeOK
  <1>3. fails' = Fails1(r) /\ normals' = Normals1(r) /\ last' = r
    BY <1>1 DEF ApplyRound
  <1>4. since < Cooldown => ~CooledDown(since)
    BY RouteAssumption DEF CooledDown, TypeOK
  <1> QED
    BY <1>1, <1>2, <1>3, <1>4, RoundSwitch DEF CommitInv

(* The current member, seen running, loses its place within the cooldown   *)
(* only for FailLimit failures in a row, to a member with NormalLimit      *)
(* normal results in a row.                                                *)
THEOREM RouteNoFlapping == Spec => NoFlapping
  <1>1. TypeOK /\ CommitInv /\ [Next]_vars =>
          [current' # current /\ current \in Known /\ since < Cooldown
             => fails'[current] = FailLimit /\ normals'[current'] = NormalLimit]_vars
    BY SwitchFacts
  <1> QED
    BY <1>1, RouteTypeCorrect, CommitInvariant, PTL DEF Spec, NoFlapping

(* A member seen running is only given up for a running member that did    *)
(* not fail its last probe.                                                *)
THEOREM RouteSwitchToWorking == Spec => SwitchToWorking
  <1>1. TypeOK /\ CommitInv /\ [Next]_vars =>
          [current' # current /\ current \in Known
             => /\ current' \in Available
                /\ fails'[current'] = 0
                /\ ~Failed(last'[current'])]_vars
    BY SwitchFacts
  <1> QED
    BY <1>1, RouteTypeCorrect, CommitInvariant, PTL DEF Spec, SwitchToWorking
=============================================================================
