---------------------- MODULE DeploymentPromise_proofs ----------------------
(***************************************************************************)
(* The queue keeps the promise of DeploymentPromise: every step of         *)
(* DeploymentQueue is one of its steps or changes nothing that a user      *)
(* sees.  What an admission decided under its locks must still be true     *)
(* when it commits, and a regular deployment must never leave the build    *)
(* slot that it was counted for.                                           *)
(***************************************************************************)
EXTENDS DeploymentAdmission_proofs

\* What an open admission replaces is active, of its own target, and only waits
\* when the new deployment starts at once.
OpenReplaces ==
  \A d \in InFlight : \A x \in replaces[d] :
    /\ status[x] \in Active
    /\ Target(req[x]) = Target(req[d])
    /\ pc[d] = "starting" => status[x] = "queued"

\* No two open admissions share a lock.
LocksDisjoint ==
  \A d, e \in InFlight :
    d # e => /\ req[d].app # req[e].app
             /\ LockedServers(req[d]) \cap LockedServers(req[e]) = {}

\* A regular occupant builds where it was placed, so that selectBuildServer keeps
\* its slot.
KeepsBuilder ==
  \A d \in Deployments :
    Occupies(d) /\ Regular(d) =>
      \/ buildServer[d] \in Candidates(req[d])
      \/ Candidates(req[d]) = {} /\ buildServer[d] = NoServer

\* A regular deployment whose admission decided to start it may still start.
KeptStart ==
  \A d \in InFlight :
    pc[d] = "starting" /\ Regular(d) =>
      /\ \A e \in WithStatus("in_progress") : Target(req[e]) # Target(req[d])
      /\ \A s \in Servers :
           SlotOf(d) = s => Cardinality(RegularBuilds(s)) < ConcurrentBuilds[s]

SlotInv == OpenReplaces /\ LocksDisjoint /\ KeepsBuilder /\ KeptStart /\ SlotsWithinLimit

-----------------------------------------------------------------------------
(* The model's operators.                                                  *)

\* A deployment placed on b takes a slot of a server that its admission locks.
SlotAt(r, b) == IF b = NoServer THEN r.server ELSE b

\* next_queuable finds a place only for an idle target and on a server with a free
\* slot, its own without build servers and one of them otherwise.
LEMMA PlacementIsFree ==
  ASSUME NEW r \in Requests, NEW b \in Placements(r)
  PROVE  /\ ~TargetBusy(r)
         /\ HasFreeSlot(SlotAt(r, b))
         /\ SlotAt(r, b) \in LockedServers(r) /\ SlotAt(r, b) \in Servers
         /\ b \in Candidates(r) \/ (Candidates(r) = {} /\ b = NoServer)
<1>1. ~TargetBusy(r)
  BY PlacementsType
<1>2. CASE Candidates(r) = {}
  <2>1. b = NoServer /\ HasFreeSlot(r.server)
    BY <1>1, <1>2 DEF Placements
  <2> QED BY <1>1, <1>2, <2>1, RequestFields DEF SlotAt, LockedServers
<1>3. CASE Candidates(r) # {}
  <2> DEFINE Free == {s \in Candidates(r) : HasFreeSlot(s)}
  <2>1. b \in LeastBusy(Free)
    BY <1>1, <1>3 DEF Placements
  <2>2. LeastBusy(Free) \subseteq Free
    BY LeastBusySubset
  <2>3. b \in Candidates(r) /\ HasFreeSlot(b)
    BY <2>1, <2>2
  <2>4. b \in Servers /\ b # NoServer
    BY <2>3, CandidatesType, ServerAssumption
  <2> QED BY <1>1, <2>3, <2>4 DEF SlotAt, LockedServers
<1> QED BY <1>2, <1>3

\* A free slot of all builds is a free slot of the regular ones.
LEMMA FreeForRegular ==
  ASSUME NEW s \in Servers, HasFreeSlot(s)
  PROVE  Cardinality(RegularBuilds(s)) < ConcurrentBuilds[s]
<1> DEFINE All == {d \in WithStatus("in_progress") : SlotOf(d) = s}
<1>1. RegularBuilds(s) \subseteq All /\ All \in SUBSET Deployments
  BY DEF RegularBuilds, WithStatus
<1>2. /\ Cardinality(RegularBuilds(s)) \in Nat /\ Cardinality(All) \in Nat
      /\ Cardinality(RegularBuilds(s)) <= Cardinality(All)
  BY <1>1, QueueSize
<1>3. Cardinality(All) < ConcurrentBuilds[s] /\ ConcurrentBuilds[s] \in Nat
  BY ServerAssumption DEF HasFreeSlot, ActiveBuilds
<1> HIDE DEF All
<1> QED BY <1>2, <1>3

\* Fewer builds need no more slots.
LEMMA FewerBuilds ==
  ASSUME NEW S, NEW W \in SUBSET Deployments, S \subseteq W,
         NEW k \in Nat
  PROVE  /\ Cardinality(W) < k => Cardinality(S) < k
         /\ Cardinality(W) <= k => Cardinality(S) <= k
BY QueueSize

\* The slot of an occupant that keeps its builder is on a server its request locks.
LEMMA SlotIsLocked ==
  ASSUME TypeOK, KeepsBuilder, NEW d \in Deployments, Occupies(d), Regular(d)
  PROVE  SlotOf(d) \in LockedServers(req[d]) /\ SlotOf(d) \in Servers
<1>1. req[d] \in Requests /\ req[d].server \in Servers
  BY RequestFields DEF TypeOK
<1>2. Candidates(req[d]) \subseteq Servers
  BY <1>1, CandidatesType
<1>3. \/ buildServer[d] \in Candidates(req[d])
      \/ buildServer[d] = NoServer
  BY DEF KeepsBuilder
<1> QED BY <1>1, <1>2, <1>3, ServerAssumption DEF SlotOf, LockedServers

\* The admission starts a deployment that respects the limits only in a place that
\* next_queuable found, and any deployment only when it replaces no running one.
LEMMA DecisionIsFree ==
  ASSUME NEW r \in Requests, NEW dec \in Decisions(r), dec.start
  PROVE  /\ \A x \in Superseded(r) : status[x] # "in_progress"
         /\ ~r.nqa => dec.builder \in Placements(r)
<1>1. \A x \in Superseded(r) : status[x] # "in_progress"
  <2> SUFFICES ASSUME \E x \in Superseded(r) : status[x] = "in_progress" PROVE FALSE
    OBVIOUS
  <2>1. dec = NoStart
    BY DEF Decisions
  <2> QED BY <2>1 DEF NoStart
<1>2. ASSUME ~r.nqa PROVE dec.builder \in Placements(r)
  <2>1. CASE Placements(r) = {}
    <3>1. dec = NoStart
      BY <1>1, <1>2, <2>1 DEF Decisions
    <3> QED BY <3>1 DEF NoStart
  <2>2. CASE Placements(r) # {}
    <3>1. PICK b \in Placements(r) : dec = StartOn(b)
      BY <1>1, <1>2, <2>2 DEF Decisions
    <3> QED BY <3>1 DEF StartOn
  <2> QED BY <2>1, <2>2
<1> QED BY <1>1, <1>2

\* One more build fits where a slot was free.
LEMMA OneMoreBuild ==
  ASSUME NEW S, NEW W \in SUBSET Deployments, NEW x \in Deployments,
         S \subseteq W \cup {x}, NEW k \in Nat, Cardinality(W) < k
  PROVE  Cardinality(S) <= k
<1>1. IsFiniteSet(W) /\ Cardinality(W) \in Nat
  BY QueueSize
<1>2. Cardinality(W \cup {x}) \in Nat /\ Cardinality(W \cup {x}) <= Cardinality(W) + 1
  <2>1. CASE x \in W
    <3>1. W \cup {x} = W
      BY <2>1
    <3> QED BY <1>1, <3>1
  <2>2. CASE x \notin W
    <3>1. Cardinality(W \cup {x}) = Cardinality(W) + 1
      BY <1>1, <2>2, FS_AddElement
    <3> QED BY <1>1, <3>1
  <2> QED BY <2>1, <2>2
<1>3. Cardinality(S) \in Nat /\ Cardinality(S) <= Cardinality(W \cup {x})
  BY QueueSize
<1> QED BY <1>1, <1>2, <1>3

-----------------------------------------------------------------------------
(* The invariant of the slots.                                             *)

\* No admission is open and nothing runs at the start.
LEMMA InitSlot == Init => SlotInv
<1> SUFFICES ASSUME Init PROVE SlotInv
  OBVIOUS
<1>1. OpenReplaces /\ LocksDisjoint /\ KeepsBuilder /\ KeptStart
  BY DEF Init, OpenReplaces, LocksDisjoint, KeepsBuilder, KeptStart, InFlight,
         WithStatus, Occupies
<1>2. SlotsWithinLimit
  <2>1. ASSUME NEW s \in Servers
        PROVE  Cardinality(RegularBuilds(s)) <= ConcurrentBuilds[s]
    <3>1. RegularBuilds(s) = {}
      BY DEF Init, RegularBuilds, WithStatus
    <3>2. Cardinality(RegularBuilds(s)) = 0 /\ ConcurrentBuilds[s] \in Nat
      BY <3>1, FS_EmptySet, ServerAssumption
    <3> QED BY <3>2
  <2> QED BY <2>1 DEF SlotsWithinLimit
<1> QED BY <1>1, <1>2 DEF SlotInv

\* The admission decides under its locks.
LEMMA AdmitBeginSlot ==
  ASSUME IndInv, SlotInv, TypeOK', NEW d \in Deployments, NEW r \in Requests,
         AdmitBegin(d, r)
  PROVE  SlotInv'
<1> USE DEF IndInv, SlotInv
<1>1. /\ status[d] = "absent"
      /\ status' = [status EXCEPT ![d] = "uncommitted"]
      /\ req' = [req EXCEPT ![d] = r]
      /\ replaces' = [replaces EXCEPT ![d] = Superseded(r)]
      /\ forced' = forced /\ LocksFree(r)
  BY DEF AdmitBegin
<1>2. PICK dec \in Decisions(r) :
        /\ pc' = [pc EXCEPT ![d] = IF dec.start THEN "starting" ELSE "none"]
        /\ buildServer' = [buildServer EXCEPT ![d] = dec.builder]
  BY DEF AdmitBegin
<1>3. /\ dec.start \in BOOLEAN
      /\ dec.start => \A x \in Superseded(r) : status[x] # "in_progress"
      /\ dec.start /\ ~r.nqa => dec.builder \in Placements(r)
  BY DecisionType, DecisionIsFree
<1>4. /\ status'[d] = "uncommitted" /\ req'[d] = r /\ buildServer'[d] = dec.builder
      /\ pc'[d] = "starting" <=> dec.start
      /\ replaces'[d] = Superseded(r)
      /\ Regular(d)' => ~r.nqa
  BY <1>1, <1>2, <1>3 DEF TypeOK, Regular
<1>5. ASSUME NEW e \in Deployments, e # d
      PROVE  /\ status'[e] = status[e] /\ req'[e] = req[e] /\ pc'[e] = pc[e]
             /\ buildServer'[e] = buildServer[e] /\ replaces'[e] = replaces[e]
             /\ Regular(e)' <=> Regular(e)
  BY <1>1, <1>2, <1>5 DEF TypeOK, Regular
<1>6. \A e \in InFlight' : e \in Deployments /\ (e # d => e \in InFlight)
  BY <1>5 DEF InFlight, WithStatus
<1>7. \A s : RegularBuilds(s)' = RegularBuilds(s)
  BY <1>1, <1>4, <1>5 DEF RegularBuilds, WithStatus, SlotOf
<1>8. WithStatus("in_progress")' = WithStatus("in_progress") /\ d \notin WithStatus("in_progress")
  BY <1>1, <1>4, <1>5 DEF WithStatus
<1>9. OpenReplaces'
  <2>1. ASSUME NEW x \in Superseded(r)
        PROVE  /\ x \in Deployments /\ status[x] \in Active /\ Target(req[x]) = Target(r)
               /\ dec.start => status[x] = "queued"
    BY <1>3 DEF Superseded, MayReplace, Active
  <2>2. ASSUME NEW e \in InFlight, e # d, NEW x \in replaces[e]
        PROVE  x \in Deployments /\ x # d
    BY <1>1, <2>2 DEF OpenReplaces, Active, InFlight, WithStatus, TypeOK
  <2>3. ASSUME NEW e \in InFlight', NEW x \in replaces'[e]
        PROVE  /\ status'[x] \in Active
               /\ Target(req'[x]) = Target(req'[e])
               /\ pc'[e] = "starting" => status'[x] = "queued"
    <3>1. CASE e = d
      <4>1. x \in Superseded(r) /\ x # d
        BY <1>1, <1>4, <2>1, <2>3, <3>1 DEF Active
      <4> QED BY <1>4, <1>5, <2>1, <3>1, <4>1
    <3>2. CASE e # d
      <4>1. e \in InFlight /\ x \in replaces[e] /\ x \in Deployments /\ x # d
        BY <1>5, <1>6, <2>2, <2>3, <3>2
      <4> QED BY <1>5, <1>6, <3>2, <4>1 DEF OpenReplaces
    <3> QED BY <3>1, <3>2
  <2> QED BY <2>3 DEF OpenReplaces
<1>10. LocksDisjoint'
  <2>1. ASSUME NEW e \in InFlight
        PROVE  req[e].app # r.app /\ LockedServers(req[e]) \cap LockedServers(r) = {}
    BY <1>1 DEF LocksFree
  <2>2. ASSUME NEW e \in InFlight', NEW f \in InFlight', e # f
        PROVE  /\ req'[e].app # req'[f].app
               /\ LockedServers(req'[e]) \cap LockedServers(req'[f]) = {}
    <3>1. CASE e # d /\ f # d
      BY <1>5, <1>6, <2>2, <3>1 DEF LocksDisjoint
    <3>2. CASE e = d
      <4>1. f \in InFlight /\ req'[f] = req[f] /\ req'[e] = r
        BY <1>4, <1>5, <1>6, <2>2, <3>2
      <4>2. LockedServers(req[f]) \cap LockedServers(r) = {} /\ req[f].app # r.app
        BY <2>1, <4>1
      <4> QED BY <4>1, <4>2
    <3>3. CASE f = d
      <4>1. e \in InFlight /\ req'[e] = req[e] /\ req'[f] = r
        BY <1>4, <1>5, <1>6, <2>2, <3>3
      <4> QED BY <2>1, <4>1
    <3> QED BY <3>1, <3>2, <3>3
  <2>3. \A q : LockedServers(q)' = LockedServers(q)
    BY DEF LockedServers, Candidates
  <2> QED BY <2>2, <2>3 DEF LocksDisjoint
<1>11. KeepsBuilder'
  <2>1. ASSUME NEW e \in Deployments, Occupies(e)', Regular(e)'
        PROVE  \/ buildServer'[e] \in Candidates(req'[e])
               \/ Candidates(req'[e]) = {} /\ buildServer'[e] = NoServer
    <3>1. CASE e = d
      <4>1. dec.builder \in Placements(r)
        BY <1>3, <1>4, <2>1, <3>1 DEF Occupies
      <4> QED BY <1>4, <3>1, <4>1, PlacementIsFree
    <3>2. CASE e # d
      BY <1>5, <2>1, <3>2 DEF KeepsBuilder, Occupies
    <3> QED BY <3>1, <3>2
  <2> QED BY <2>1 DEF KeepsBuilder, Candidates
<1>12. KeptStart'
  <2>1. ASSUME NEW e \in InFlight', pc'[e] = "starting", Regular(e)'
        PROVE  /\ \A f \in WithStatus("in_progress") : Target(req'[f]) # Target(req'[e])
               /\ \A s \in Servers :
                    SlotOf(e)' = s => Cardinality(RegularBuilds(s)) < ConcurrentBuilds[s]
    <3>1. CASE e = d
      <4>1. dec.builder \in Placements(r)
        BY <1>3, <1>4, <2>1, <3>1
      <4>2. SlotOf(e)' = SlotAt(r, dec.builder)
        BY <1>4, <3>1 DEF SlotOf, SlotAt
      <4>3. ~TargetBusy(r) /\ HasFreeSlot(SlotAt(r, dec.builder))
        BY <4>1, PlacementIsFree
      <4>4. \A f \in WithStatus("in_progress") : req'[f] = req[f] /\ Target(req[f]) # Target(r)
        BY <1>5, <1>8, <4>3 DEF TargetBusy, WithStatus
      <4> QED BY <1>4, <3>1, <4>2, <4>3, <4>4, FreeForRegular
    <3>2. CASE e # d
      <4>1. e \in InFlight /\ pc[e] = "starting" /\ Regular(e) /\ req'[e] = req[e]
        BY <1>5, <1>6, <2>1, <3>2
      <4>2. SlotOf(e)' = SlotOf(e)
        BY <1>5, <1>6, <2>1, <3>2 DEF SlotOf
      <4>3. \A f \in WithStatus("in_progress") : req'[f] = req[f]
        BY <1>5, <1>8 DEF WithStatus
      <4> QED BY <4>1, <4>2, <4>3 DEF KeptStart
    <3> QED BY <3>1, <3>2
  <2> QED BY <1>7, <1>8, <2>1 DEF KeptStart
<1>13. SlotsWithinLimit'
  BY <1>7 DEF SlotsWithinLimit
<1> QED BY <1>9, <1>10, <1>11, <1>12, <1>13

\* The commit uses the place that was kept for it and takes nobody else's: no other
\* open admission shares its target or a server with it.
LEMMA AdmitCommitSlot ==
  ASSUME IndInv, SlotInv, NEW d \in Deployments, AdmitCommit(d)
  PROVE  SlotInv'
<1> USE DEF IndInv, SlotInv
<1>1. /\ status[d] = "uncommitted"
      /\ status' = [x \in Deployments |->
             IF x = d THEN IF pc[d] = "starting" THEN "in_progress" ELSE "queued"
             ELSE IF x \in replaces[d] THEN "cancelled" ELSE status[x]]
      /\ UNCHANGED <<req, buildServer, replaces, forced, pc>>
  BY DEF AdmitCommit, histVars
<1>2. d \in InFlight /\ d \notin WithStatus("in_progress")
  BY <1>1 DEF InFlight, WithStatus
<1>3. \A x \in replaces[d] :
        x \in Deployments /\ status[x] \in Active /\ Target(req[x]) = Target(req[d])
  BY <1>2 DEF OpenReplaces, TypeOK
<1>4. /\ InFlight' \subseteq InFlight \ {d}
      /\ WithStatus("in_progress")' \subseteq
           WithStatus("in_progress") \cup (IF pc[d] = "starting" THEN {d} ELSE {})
  BY <1>1 DEF InFlight, WithStatus
<1>5. \A e \in Deployments :
        /\ Regular(e)' <=> Regular(e)
        /\ SlotOf(e)' = SlotOf(e)
        /\ Occupies(e)' => Occupies(e)
  BY <1>1, <1>2 DEF Regular, SlotOf, Occupies, TypeOK
<1>6. \A e \in InFlight' : req[e].app # req[d].app
                          /\ LockedServers(req[e]) \cap LockedServers(req[d]) = {}
  BY <1>2, <1>4 DEF LocksDisjoint
<1>7. OpenReplaces'
  <2>1. ASSUME NEW e \in InFlight', NEW x \in replaces[e]
        PROVE  status'[x] = status[x]
    <3>1. /\ e \in InFlight /\ x \in Deployments /\ status[x] \in Active
          /\ Target(req[x]) = Target(req[e])
      BY <1>4 DEF OpenReplaces, InFlight, WithStatus, TypeOK
    <3>2. x # d
      BY <1>1, <3>1 DEF Active
    <3>3. x \notin replaces[d]
      BY <1>3, <1>6, <3>1, SameTargetSameApp
    <3> QED BY <1>1, <3>1, <3>2, <3>3
  <2> QED BY <1>1, <1>4, <2>1 DEF OpenReplaces
<1>8. LocksDisjoint'
  BY <1>1, <1>4 DEF LocksDisjoint, LockedServers, Candidates
<1>9. KeepsBuilder'
  BY <1>1, <1>5 DEF KeepsBuilder, Candidates
<1>10. ASSUME NEW s \in Servers
       PROVE  /\ RegularBuilds(s)' \subseteq RegularBuilds(s) \cup {d}
              /\ (pc[d] # "starting" \/ ~Regular(d) \/ SlotOf(d) # s)
                   => RegularBuilds(s)' \subseteq RegularBuilds(s)
              /\ RegularBuilds(s) \in SUBSET Deployments
              /\ ConcurrentBuilds[s] \in Nat
  BY <1>4, <1>5, ServerAssumption DEF RegularBuilds, WithStatus
<1>11. pc[d] = "starting" /\ Regular(d) =>
         /\ SlotOf(d) \in LockedServers(req[d])
         /\ \A s \in Servers :
              SlotOf(d) = s => Cardinality(RegularBuilds(s)) < ConcurrentBuilds[s]
  BY <1>1, <1>2, SlotIsLocked DEF KeptStart, Occupies
<1>12. KeptStart'
  <2>1. ASSUME NEW e \in InFlight', pc[e] = "starting", Regular(e)
        PROVE  /\ \A f \in WithStatus("in_progress")' : Target(req[f]) # Target(req[e])
               /\ \A s \in Servers :
                    SlotOf(e) = s => Cardinality(RegularBuilds(s)') < ConcurrentBuilds[s]
    <3>1. e \in InFlight /\ e \in Deployments /\ status[e] = "uncommitted"
      BY <1>4 DEF InFlight, WithStatus
    <3>2. SlotOf(e) \in LockedServers(req[e])
      BY <2>1, <3>1, SlotIsLocked DEF Occupies
    <3>3. \A f \in WithStatus("in_progress")' : Target(req[f]) # Target(req[e])
      <4>1. Target(req[d]) # Target(req[e])
        BY <1>6, SameTargetSameApp
      <4> QED BY <1>4, <2>1, <3>1, <4>1 DEF KeptStart
    <3>4. ASSUME NEW s \in Servers, SlotOf(e) = s
          PROVE  Cardinality(RegularBuilds(s)') < ConcurrentBuilds[s]
      <4>1. RegularBuilds(s)' \subseteq RegularBuilds(s)
        BY <1>6, <1>10, <1>11, <3>2, <3>4
      <4>2. Cardinality(RegularBuilds(s)) < ConcurrentBuilds[s]
        BY <2>1, <3>1, <3>4 DEF KeptStart
      <4> QED BY <1>10, <4>1, <4>2, FewerBuilds
    <3> QED BY <3>3, <3>4
  <2>2. \A e \in InFlight' : e \in Deployments
    BY DEF InFlight, WithStatus
  <2> QED BY <1>1, <1>5, <2>1, <2>2 DEF KeptStart
<1>13. SlotsWithinLimit'
  <2>1. ASSUME NEW s \in Servers
        PROVE  Cardinality(RegularBuilds(s)') <= ConcurrentBuilds[s]
    <3>1. CASE pc[d] = "starting" /\ Regular(d) /\ SlotOf(d) = s
      BY <1>10, <1>11, <3>1, OneMoreBuild
    <3>2. CASE pc[d] # "starting" \/ ~Regular(d) \/ SlotOf(d) # s
      BY <1>10, <3>2, FewerBuilds DEF SlotsWithinLimit
    <3> QED BY <3>1, <3>2
  <2> QED BY <2>1 DEF SlotsWithinLimit
<1> QED BY <1>7, <1>8, <1>9, <1>12, <1>13

\* A queued row that starts has no open admission beside it that could lose its place.
LEMMA StartRowSlot ==
  ASSUME IndInv, SlotInv, NEW x \in Deployments, NEW b, NEW force \in BOOLEAN,
         status[x] = "queued", StartRow(x, b, force), RowsFree(req[x]), Writable(x),
         force \/ (b \in Placements(req[x]) /\ LocksFree(req[x])),
         req' = req, replaces' = replaces
  PROVE  SlotInv'
<1> USE DEF IndInv, SlotInv
<1>1. /\ status' = [status EXCEPT ![x] = "in_progress"]
      /\ buildServer' = [buildServer EXCEPT ![x] = b]
      /\ forced' = [forced EXCEPT ![x] = force]
      /\ pc' = [pc EXCEPT ![x] = "starting"]
  BY DEF StartRow
<1>2. req[x] \in Requests
  BY DEF TypeOK
<1>3. ~force => /\ ~TargetBusy(req[x])
                /\ HasFreeSlot(SlotAt(req[x], b))
                /\ SlotAt(req[x], b) \in LockedServers(req[x])
                /\ SlotAt(req[x], b) \in Servers
                /\ b \in Candidates(req[x]) \/ (Candidates(req[x]) = {} /\ b = NoServer)
  BY <1>2, PlacementIsFree
<1>4. /\ InFlight' = InFlight
      /\ WithStatus("in_progress")' = WithStatus("in_progress") \cup {x}
      /\ x \notin InFlight
  BY <1>1 DEF InFlight, WithStatus, TypeOK
<1>5. \A e \in InFlight :
        /\ e \in Deployments /\ req[e].app # req[x].app
        /\ ~force => LockedServers(req[e]) \cap LockedServers(req[x]) = {}
  BY DEF RowsFree, LocksFree, InFlight, WithStatus
<1>6. ASSUME NEW e \in Deployments, e # x
      PROVE  /\ Regular(e)' <=> Regular(e)
             /\ SlotOf(e)' = SlotOf(e)
             /\ Occupies(e)' <=> Occupies(e)
             /\ buildServer'[e] = buildServer[e] /\ pc'[e] = pc[e]
             /\ status'[e] = status[e]
  BY <1>1, <1>6 DEF Regular, SlotOf, Occupies, TypeOK
<1>7. /\ Regular(x)' => ~force
      /\ SlotOf(x)' = SlotAt(req[x], b)
      /\ buildServer'[x] = b
  BY <1>1 DEF Regular, SlotOf, SlotAt, TypeOK
<1>8. OpenReplaces'
  <2>1. ASSUME NEW e \in InFlight, NEW y \in replaces[e]
        PROVE  y \in Deployments /\ y # x
    BY DEF Writable, InFlight, WithStatus, TypeOK
  <2> QED BY <1>4, <1>5, <1>6, <2>1 DEF OpenReplaces
<1>9. LocksDisjoint'
  BY <1>4 DEF LocksDisjoint, LockedServers, Candidates
<1>10. KeepsBuilder'
  BY <1>3, <1>6, <1>7 DEF KeepsBuilder, Candidates
<1>11. ASSUME NEW s \in Servers
       PROVE  /\ RegularBuilds(s)' \subseteq RegularBuilds(s) \cup {x}
              /\ force \/ SlotAt(req[x], b) # s
                   => RegularBuilds(s)' \subseteq RegularBuilds(s)
              /\ RegularBuilds(s) \in SUBSET Deployments
              /\ ConcurrentBuilds[s] \in Nat
  BY <1>4, <1>6, <1>7, ServerAssumption DEF RegularBuilds, WithStatus
<1>12. KeptStart'
  <2>1. ASSUME NEW e \in InFlight, pc[e] = "starting", Regular(e)
        PROVE  /\ \A f \in WithStatus("in_progress")' : Target(req[f]) # Target(req[e])
               /\ \A s \in Servers :
                    SlotOf(e) = s => Cardinality(RegularBuilds(s)') < ConcurrentBuilds[s]
    <3>1. SlotOf(e) \in LockedServers(req[e])
      BY <1>5, <2>1, SlotIsLocked DEF Occupies, InFlight, WithStatus
    <3>2. \A f \in WithStatus("in_progress")' : Target(req[f]) # Target(req[e])
      <4>1. Target(req[x]) # Target(req[e])
        BY <1>5, SameTargetSameApp
      <4> QED BY <1>4, <2>1, <4>1 DEF KeptStart
    <3>3. ASSUME NEW s \in Servers, SlotOf(e) = s
          PROVE  Cardinality(RegularBuilds(s)') < ConcurrentBuilds[s]
      <4>1. RegularBuilds(s)' \subseteq RegularBuilds(s)
        BY <1>3, <1>5, <1>11, <3>1, <3>3
      <4>2. Cardinality(RegularBuilds(s)) < ConcurrentBuilds[s]
        BY <2>1, <3>3 DEF KeptStart
      <4> QED BY <1>11, <4>1, <4>2, FewerBuilds
    <3> QED BY <3>2, <3>3
  <2>2. ASSUME NEW e \in InFlight', pc'[e] = "starting", Regular(e)'
        PROVE  /\ \A f \in WithStatus("in_progress")' : Target(req'[f]) # Target(req'[e])
               /\ \A s \in Servers :
                    SlotOf(e)' = s => Cardinality(RegularBuilds(s)') < ConcurrentBuilds[s]
    <3>1. e \in InFlight
      BY <1>4, <2>2
    <3>2. pc[e] = "starting" /\ Regular(e) /\ SlotOf(e)' = SlotOf(e)
      <4>1. e \in Deployments /\ e # x
        BY <1>4, <1>5, <3>1
      <4> QED BY <1>6, <2>2, <4>1
    <3> QED BY <2>1, <3>1, <3>2
  <2> QED BY <2>2 DEF KeptStart
<1>13. SlotsWithinLimit'
  <2>1. ASSUME NEW s \in Servers
        PROVE  Cardinality(RegularBuilds(s)') <= ConcurrentBuilds[s]
    <3>1. CASE ~force /\ SlotAt(req[x], b) = s
      <4>1. Cardinality(RegularBuilds(s)) < ConcurrentBuilds[s]
        BY <1>3, <3>1, FreeForRegular
      <4> QED BY <1>11, <4>1, OneMoreBuild
    <3>2. CASE force \/ SlotAt(req[x], b) # s
      BY <1>11, <3>2, FewerBuilds DEF SlotsWithinLimit
    <3> QED BY <3>1, <3>2
  <2> QED BY <2>1 DEF SlotsWithinLimit
<1> QED BY <1>8, <1>9, <1>10, <1>12, <1>13

\* What every other step does to the rows: it ends some that no open admission has
\* locked, and moves no regular build to another server.
SlotsGoOn ==
  /\ UNCHANGED <<req, replaces, forced>>
  /\ \A x \in Deployments :
       /\ \/ status'[x] = status[x]
          \/ /\ status[x] \in Active \cup Terminal /\ status'[x] \in Terminal
             /\ Writable(x)
       /\ pc'[x] = "starting" => pc[x] = "starting"
       /\ Occupies(x) /\ Regular(x) => buildServer'[x] = buildServer[x]

\* A step that starts no deployment, opens no admission and moves no regular one
\* keeps the slots (SlotsGoOn).
LEMMA SlotsGoOnSlot ==
  ASSUME TypeOK, SlotInv, SlotsGoOn
  PROVE  SlotInv'
<1> USE DEF SlotInv
<1>1. req' = req /\ replaces' = replaces /\ forced' = forced
  BY DEF SlotsGoOn
<1>2. ASSUME NEW x \in Deployments
      PROVE  /\ status'[x] = "uncommitted" <=> status[x] = "uncommitted"
             /\ status'[x] = "in_progress" => status[x] = "in_progress"
             /\ pc'[x] = "starting" => pc[x] = "starting"
             /\ Occupies(x)' => Occupies(x)
             /\ Regular(x)' <=> Regular(x)
             /\ Occupies(x) /\ Regular(x) => /\ buildServer'[x] = buildServer[x]
                                            /\ SlotOf(x)' = SlotOf(x)
  BY <1>1 DEF SlotsGoOn, Active, Terminal, Occupies, Regular, SlotOf
<1>3. InFlight' = InFlight /\ WithStatus("in_progress")' \subseteq WithStatus("in_progress")
  BY <1>2 DEF InFlight, WithStatus
<1>4. OpenReplaces'
  <2>1. ASSUME NEW e \in InFlight, NEW x \in replaces[e]
        PROVE  status'[x] = status[x] /\ e \in Deployments
    <3>1. x \in Deployments /\ e \in Deployments
      BY DEF InFlight, WithStatus, TypeOK
    <3>2. ~Writable(x)
      BY DEF Writable
    <3> QED BY <3>1, <3>2 DEF SlotsGoOn
  <2> QED BY <1>1, <1>2, <1>3, <2>1 DEF OpenReplaces
<1>5. LocksDisjoint'
  BY <1>1, <1>3 DEF LocksDisjoint, LockedServers, Candidates
<1>6. KeepsBuilder'
  BY <1>1, <1>2 DEF KeepsBuilder, Candidates
<1>7. ASSUME NEW s \in Servers
      PROVE  /\ RegularBuilds(s)' \subseteq RegularBuilds(s)
             /\ RegularBuilds(s) \in SUBSET Deployments
             /\ ConcurrentBuilds[s] \in Nat
  <2>1. ASSUME NEW x \in RegularBuilds(s)'
        PROVE  x \in RegularBuilds(s)
    <3>1. x \in Deployments /\ status'[x] = "in_progress" /\ SlotOf(x)' = s /\ Regular(x)'
      BY <2>1 DEF RegularBuilds, WithStatus
    <3>2. status[x] = "in_progress" /\ Regular(x) /\ Occupies(x)
      BY <1>2, <3>1 DEF Occupies
    <3> QED BY <1>2, <3>1, <3>2 DEF RegularBuilds, WithStatus
  <2>2. RegularBuilds(s) \in SUBSET Deployments
    BY DEF RegularBuilds, WithStatus
  <2> QED BY <2>1, <2>2, ServerAssumption
<1>8. KeptStart'
  <2>1. ASSUME NEW e \in InFlight', pc'[e] = "starting", Regular(e)'
        PROVE  /\ \A f \in WithStatus("in_progress")' : Target(req'[f]) # Target(req'[e])
               /\ \A s \in Servers :
                    SlotOf(e)' = s => Cardinality(RegularBuilds(s)') < ConcurrentBuilds[s]
    <3>1. e \in InFlight /\ e \in Deployments /\ status[e] = "uncommitted"
      BY <1>3, <2>1 DEF InFlight, WithStatus
    <3>2. pc[e] = "starting" /\ Regular(e) /\ Occupies(e) /\ SlotOf(e)' = SlotOf(e)
      BY <1>2, <2>1, <3>1 DEF Occupies
    <3>3. \A f \in WithStatus("in_progress")' : Target(req'[f]) # Target(req'[e])
      BY <1>1, <1>3, <3>1, <3>2 DEF KeptStart
    <3>4. ASSUME NEW s \in Servers, SlotOf(e) = s
          PROVE  Cardinality(RegularBuilds(s)') < ConcurrentBuilds[s]
      <4>1. Cardinality(RegularBuilds(s)) < ConcurrentBuilds[s]
        BY <3>1, <3>2, <3>4 DEF KeptStart
      <4> QED BY <1>7, <4>1, FewerBuilds
    <3> QED BY <3>2, <3>3, <3>4
  <2> QED BY <2>1 DEF KeptStart
<1>9. SlotsWithinLimit'
  <2>1. ASSUME NEW s \in Servers
        PROVE  Cardinality(RegularBuilds(s)') <= ConcurrentBuilds[s]
    BY <1>7, FewerBuilds DEF SlotsWithinLimit
  <2> QED BY <2>1 DEF SlotsWithinLimit
<1> QED BY <1>4, <1>5, <1>6, <1>8, <1>9

\* selectBuildServer keeps the server of a regular deployment.
LEMMA BuilderStays ==
  ASSUME KeepsBuilder, NEW d \in Deployments, Occupies(d), Regular(d)
  PROVE  BuilderChoices(d) = {buildServer[d]}
BY DEF KeepsBuilder, BuilderChoices

\* Every step except those of the admission and the starts of queued rows.
LEMMA OtherStepsSlots ==
  ASSUME IndInv, SlotInv, NEW d \in Deployments,
         JobStep(d) \/ ApiCancel(d) \/ UiCancel(d) \/ RunCleanup(d) \/ CancelAdvance(d)
  PROVE  SlotsGoOn
<1> USE DEF IndInv
<1>1. CASE ApiCancel(d) \/ UiCancel(d)
  <2>1. /\ status' = [status EXCEPT ![d] = "cancelled"] /\ pc' = pc
        /\ UNCHANGED <<req, buildServer, replaces, forced>>
        /\ status[d] \in Active \cup Terminal /\ Writable(d)
    BY <1>1 DEF ApiCancel, UiCancel, CancelRow, histVars
  <2> QED BY <2>1 DEF TypeOK, SlotsGoOn, Terminal
<1>2. CASE RunCleanup(d) \/ CancelAdvance(d)
  BY <1>2 DEF RunCleanup, CancelAdvance, SlotsGoOn, rowVars, histVars
<1>3. CASE DispatchFails(d)
  <2>1. /\ \E to \in {"advancing", "done"} : pc' = [pc EXCEPT ![d] = to]
        /\ \/ status' = [status EXCEPT ![d] = "failed"] /\ status[d] = "in_progress"
           \/ status' = status
        /\ UNCHANGED <<req, buildServer, replaces, forced>> /\ Writable(d)
    BY <1>3 DEF DispatchFails, histVars
  <2> QED BY <2>1 DEF TypeOK, SlotsGoOn, Active, Terminal
<1>4. CASE JobClaim(d)
  <2>1. /\ pc[d] = "waiting" /\ pc' = [pc EXCEPT ![d] = "selecting"]
        /\ status[d] # "cancelled"
        /\ status' = [status EXCEPT ![d] = "in_progress"]
        /\ UNCHANGED <<req, buildServer, replaces, forced>>
    BY <1>4 DEF JobClaim, GoTo, histVars
  <2>2. status[d] = "in_progress"
    BY <2>1 DEF TypeOK, JobRow, Statuses, Active, Terminal
  <2> QED BY <2>1, <2>2 DEF TypeOK, SlotsGoOn
<1>5. CASE JobWrite(d)
  <2>1. /\ \E to \in {"finished", "failed"} : status' = [status EXCEPT ![d] = to]
        /\ pc[d] \in {"writeFinished", "writeFailed"}
        /\ pc' = [pc EXCEPT ![d] = "advancing"]
        /\ UNCHANGED <<req, buildServer, replaces, forced>> /\ Writable(d)
    BY <1>5 DEF JobWrite, GoTo, histVars
  <2>2. status[d] \in Active \cup Terminal
    BY <2>1 DEF TypeOK, JobRow, Statuses
  <2> QED BY <2>1, <2>2 DEF TypeOK, SlotsGoOn, Terminal
<1>6. CASE JobSelectBuildServer(d)
  <2>1. /\ pc' = [pc EXCEPT ![d] = IF status[d] = "cancelled" THEN "failing" ELSE "building"]
        /\ \E b \in BuilderChoices(d) : buildServer' = [buildServer EXCEPT ![d] = b]
        /\ UNCHANGED <<status, req, replaces, forced>>
    BY <1>6 DEF JobSelectBuildServer, GoTo, histVars
  <2>2. Occupies(d) /\ Regular(d) => buildServer' = buildServer
    BY <2>1, BuilderStays DEF SlotInv, TypeOK
  <2> QED BY <2>1, <2>2 DEF TypeOK, SlotsGoOn
<1>7. CASE \/ Dispatch(d) \/ JobCancelledBeforeStart(d) \/ JobRejected(d)
           \/ JobStartDeploy(d) \/ JobGate(d)
           \/ JobCommandDone(d) \/ JobLastCommand(d) \/ JobFails(d)
           \/ JobCheckTerminal(d) \/ JobAdvance(d)
  <2>1. /\ \E to \in JobStates \ {"starting"} : pc' = [pc EXCEPT ![d] = to]
        /\ UNCHANGED <<status, req, buildServer, replaces, forced>>
    BY <1>7 DEF Dispatch, JobCancelledBeforeStart, JobRejected,
         JobStartDeploy, JobGate, JobCommandDone, JobLastCommand, JobFails,
         JobCheckTerminal, JobAdvance, GoTo, JobStates, rowVars, histVars
  <2> QED BY <2>1 DEF TypeOK, SlotsGoOn
<1> QED BY <1>1, <1>2, <1>3, <1>4, <1>5, <1>6, <1>7 DEF JobStep

\* Every operation keeps the slots that the admissions and the passes decided on.
LEMMA NextSlot == IndInv /\ SlotInv /\ [Next]_vars => SlotInv'
<1> SUFFICES ASSUME IndInv, SlotInv, [Next]_vars PROVE SlotInv'
  OBVIOUS
<1>1. TypeOK' /\ TypeOK
  BY NextType DEF IndInv
<1>2. ASSUME NEW d \in Deployments, NEW r \in Requests, AdmitBegin(d, r) PROVE SlotInv'
  BY <1>1, <1>2, AdmitBeginSlot
<1>3. ASSUME NEW d \in Deployments, AdmitCommit(d) PROVE SlotInv'
  BY <1>3, AdmitCommitSlot
<1>4. ASSUME NEW d \in Deployments, ForceStart(d) PROVE SlotInv'
  <2>1. /\ status[d] = "queued" /\ StartRow(d, buildServer[d], TRUE)
        /\ RowsFree(req[d]) /\ Writable(d) /\ req' = req /\ replaces' = replaces
    BY <1>4 DEF ForceStart, StillQueued
  <2> QED BY <2>1, StartRowSlot
<1>5. ASSUME NEW d \in Deployments, NEW p \in Passes, PassStep(d, p) PROVE SlotInv'
  <2>1. PICK x \in todo[d][p] :
          /\ RowsFree(req[x]) /\ Writable(x)
          /\ StillQueued(x) /\ ~TargetBusy(req[x]) => LocksFree(req[x])
          /\ IF StillQueued(x) /\ Placements(req[x]) # {}
             THEN \E b \in Placements(req[x]) : StartRow(x, b, FALSE)
             ELSE UNCHANGED <<status, buildServer, forced, pc>>
          /\ req' = req /\ replaces' = replaces
    BY <1>5 DEF PassStep
  <2>2. x \in Deployments
    BY <1>1, <1>5 DEF TypeOK
  <2>3. CASE UNCHANGED <<status, buildServer, forced, pc>>
    <3>1. SlotsGoOn
      BY <2>1, <2>3 DEF SlotsGoOn
    <3> QED BY <1>1, <3>1, SlotsGoOnSlot
  <2>4. ASSUME NEW b \in Placements(req[x]), StartRow(x, b, FALSE), StillQueued(x)
        PROVE  SlotInv'
    <3>1. LocksFree(req[x])
      BY <2>1, <2>4 DEF Placements
    <3> QED BY <2>1, <2>2, <2>4, <3>1, StartRowSlot DEF StillQueued
  <2> QED BY <2>1, <2>3, <2>4
<1>6. ASSUME NEW d \in Deployments,
             JobStep(d) \/ ApiCancel(d) \/ UiCancel(d) \/ RunCleanup(d) \/ CancelAdvance(d)
      PROVE  SlotInv'
  BY <1>1, <1>6, OtherStepsSlots, SlotsGoOnSlot
<1>7. CASE UNCHANGED vars
  <2>1. SlotsGoOn
    BY <1>7 DEF SlotsGoOn, vars, rowVars, histVars, procVars
  <2> QED BY <1>1, <2>1, SlotsGoOnSlot
<1> QED BY <1>2, <1>3, <1>4, <1>5, <1>6, <1>7 DEF Next

\* Open admissions keep their decision and regular deployments their builder, in
\* every interleaving of queue_application_deployment, passes, jobs and cancels.
THEOREM SlotInvariance == Spec => []SlotInv
<1>1. Init => SlotInv
  BY InitSlot
<1>2. IndInv /\ SlotInv /\ [Next]_vars => SlotInv'
  BY NextSlot
<1> QED BY <1>1, <1>2, Invariance, PTL DEF Spec

\* The regular deployments in progress on a server never exceed concurrent_builds:
\* next_queuable counts before the row is in progress, but under the server's lock.
THEOREM SlotsWithinLimitHolds == Spec => []SlotsWithinLimit
<1>1. SlotInv => SlotsWithinLimit
  BY DEF SlotInv
<1> QED BY <1>1, SlotInvariance, PTL

-----------------------------------------------------------------------------
(* The refinement.  View is what a user sees of the rows.                  *)

View == [d \in Deployments |-> DeploymentOf(d)]

\* The instance counts with the same cardinality.
LEMMA PromiseCardinality == \A S : Promise!Cardinality(S) = Cardinality(S)
  BY DEF Promise!Cardinality, Cardinality

\* The record of a row, by its status.
LEMMA ViewNow ==
  ASSUME NEW d \in Deployments
  PROVE  /\ status[d] \in {"absent", "uncommitted"} => DeploymentOf(d) = NewDeployment
         /\ status[d] = "queued" => DeploymentOf(d) = Promise!Waiting(Target(req[d]))
         /\ status[d] = "in_progress" =>
              DeploymentOf(d) = Promise!Running(Target(req[d]), SlotOf(d), ~Regular(d))
         /\ status[d] \in Terminal => DeploymentOf(d) = Promise!Ended(Target(req[d]))
<1>1. /\ StageOf("queued") = "waiting" /\ StageOf("in_progress") = "running"
      /\ \A st \in Terminal : StageOf(st) = "ended"
  BY DEF StageOf, Terminal
<1>2. CASE status[d] \in {"absent", "uncommitted"}
  BY <1>2 DEF DeploymentOf, Terminal
<1>3. CASE status[d] = "queued"
  BY <1>1, <1>3 DEF DeploymentOf, Slot, Terminal, Promise!Waiting
<1>4. CASE status[d] = "in_progress"
  BY <1>1, <1>4 DEF DeploymentOf, Slot, Terminal, Promise!Running
<1>5. CASE status[d] \in Terminal
  <2>1. StageOf(status[d]) = "ended"
    BY <1>1, <1>5
  <2> QED BY <1>5, <2>1 DEF DeploymentOf, Slot, Terminal, Promise!Ended
<1> QED BY <1>2, <1>3, <1>4, <1>5

\* The same in the next state.
LEMMA ViewNext ==
  ASSUME NEW d \in Deployments
  PROVE  /\ status'[d] \in {"absent", "uncommitted"} => DeploymentOf(d)' = NewDeployment
         /\ status'[d] = "queued" => DeploymentOf(d)' = Promise!Waiting(Target(req'[d]))
         /\ status'[d] = "in_progress" =>
              DeploymentOf(d)' = Promise!Running(Target(req'[d]), SlotOf(d)', ~Regular(d)')
         /\ status'[d] \in Terminal => DeploymentOf(d)' = Promise!Ended(Target(req'[d]))
<1>1. /\ StageOf("queued") = "waiting" /\ StageOf("in_progress") = "running"
      /\ \A st \in Terminal : StageOf(st) = "ended"
  BY DEF StageOf, Terminal
<1>2. CASE status'[d] \in {"absent", "uncommitted"}
  BY <1>2 DEF DeploymentOf, Terminal
<1>3. CASE status'[d] = "queued"
  BY <1>1, <1>3 DEF DeploymentOf, Slot, Terminal, Promise!Waiting
<1>4. CASE status'[d] = "in_progress"
  BY <1>1, <1>4 DEF DeploymentOf, Slot, Terminal, Promise!Running
<1>5. CASE status'[d] \in Terminal
  <2>1. StageOf(status'[d]) = "ended"
    BY <1>1, <1>5
  <2> QED BY <1>5, <2>1 DEF DeploymentOf, Slot, Terminal, Promise!Ended
<1> QED BY <1>2, <1>3, <1>4, <1>5

\* The stages of the promise are the statuses that the queries select.
LEMMA ViewStages ==
  ASSUME TypeOK
  PROVE  /\ Promise!In("waiting") = WithStatus("queued")
         /\ Promise!In("running") = WithStatus("in_progress")
         /\ \A s : Promise!Builds(s) = Cardinality(RegularBuilds(s))
<1>1. ASSUME NEW d \in Deployments
      PROVE  /\ DeploymentOf(d).stage = "waiting" <=> status[d] = "queued"
             /\ DeploymentOf(d).stage = "running" <=> status[d] = "in_progress"
             /\ status[d] = "in_progress" =>
                  /\ DeploymentOf(d).slot = SlotOf(d)
                  /\ ~DeploymentOf(d).exempt <=> Regular(d)
  <2>1. status[d] \in Statuses
    BY DEF TypeOK
  <2>2. CASE status[d] = "in_progress"
    <3>1. DeploymentOf(d) = Promise!Running(Target(req[d]), SlotOf(d), ~Regular(d))
      BY <2>2, ViewNow
    <3>2. /\ DeploymentOf(d).stage = "running" /\ DeploymentOf(d).slot = SlotOf(d)
          /\ DeploymentOf(d).exempt = ~Regular(d)
      BY <3>1 DEF Promise!Running
    <3> QED BY <2>2, <3>2
  <2>3. CASE status[d] = "queued"
    <3>1. DeploymentOf(d) = Promise!Waiting(Target(req[d]))
      BY <2>3, ViewNow
    <3>2. DeploymentOf(d).stage = "waiting"
      BY <3>1 DEF Promise!Waiting
    <3> QED BY <2>3, <3>2
  <2>4. CASE status[d] \in {"absent", "uncommitted"}
    <3>1. DeploymentOf(d).stage = "new"
      BY <2>4, ViewNow DEF NewDeployment
    <3> QED BY <2>4, <3>1
  <2>5. CASE status[d] \in Terminal
    <3>1. DeploymentOf(d) = Promise!Ended(Target(req[d]))
      BY <2>5, ViewNow
    <3>2. DeploymentOf(d).stage = "ended"
      BY <3>1 DEF Promise!Ended
    <3> QED BY <2>5, <3>2 DEF Terminal
  <2> QED BY <2>1, <2>2, <2>3, <2>4, <2>5 DEF Statuses, Active
<1>2. /\ Promise!In("waiting") = WithStatus("queued")
      /\ Promise!In("running") = WithStatus("in_progress")
  BY <1>1 DEF Promise!In, WithStatus
<1>3. ASSUME NEW s
      PROVE  Promise!Builds(s) = Cardinality(RegularBuilds(s))
  <2>1. {d \in Promise!In("running") : View[d].slot = s /\ ~View[d].exempt}
          = RegularBuilds(s)
    BY <1>1, <1>2 DEF View, RegularBuilds, WithStatus
  <2> QED BY <2>1, PromiseCardinality DEF Promise!Builds, View
<1> QED BY <1>2, <1>3

\* What an admission or a pass checks before a start is what the promise asks.
LEMMA ViewMayRun ==
  ASSUME TypeOK, NEW t, NEW s \in Servers, NEW x \in BOOLEAN,
         \/ x
         \/ /\ \A d \in WithStatus("in_progress") : Target(req[d]) # t
            /\ Cardinality(RegularBuilds(s)) < ConcurrentBuilds[s]
  PROVE  Promise!MayRun(t, s, x)
<1>1. ASSUME NEW d \in WithStatus("in_progress")
      PROVE  DeploymentOf(d).target = Target(req[d]) /\ d \in Deployments
  <2>1. d \in Deployments /\ status[d] = "in_progress"
    BY DEF WithStatus
  <2>2. DeploymentOf(d) = Promise!Running(Target(req[d]), SlotOf(d), ~Regular(d))
    BY <2>1, ViewNow
  <2> QED BY <2>1, <2>2 DEF Promise!Running
<1> QED BY <1>1, ViewStages DEF Promise!MayRun

\* A row whose columns stay shows the user the same deployment.
LEMMA SameRow ==
  ASSUME NEW d \in Deployments, status'[d] = status[d], req'[d] = req[d],
         status[d] = "in_progress" =>
           buildServer'[d] = buildServer[d] /\ forced'[d] = forced[d]
  PROVE  DeploymentOf(d)' = DeploymentOf(d)
<1>1. CASE status[d] = "in_progress"
  BY <1>1 DEF DeploymentOf, Slot, SlotOf, Regular
<1>2. CASE status[d] # "in_progress"
  BY <1>2 DEF DeploymentOf, Slot
<1> QED BY <1>1, <1>2

\* A step of the code that the user does not see.
LEMMA Unseen ==
  ASSUME UNCHANGED <<status, req, buildServer, forced>>
  PROVE  View' = View
<1>1. \A d \in Deployments : DeploymentOf(d)' = DeploymentOf(d)
  BY SameRow
<1> QED BY <1>1 DEF View

\* A row in progress has a slot of a server.
LEMMA SlotType ==
  ASSUME TypeOK, NEW d \in Deployments
  PROVE  SlotOf(d) \in Servers /\ Regular(d) \in BOOLEAN /\ Target(req[d]) \in Apps \X PullRequests
<1>1. req[d] \in Requests /\ buildServer[d] \in Servers \cup {NoServer} /\ forced[d] \in BOOLEAN
  BY DEF TypeOK
<1> QED BY <1>1, RequestFields, ServerAssumption DEF SlotOf, Regular, Target

\* A cancel and the writes of the job end one deployment, or change a row that had
\* ended from one terminal status to another.
LEMMA RowEndsView ==
  ASSUME TypeOK, NEW d \in Deployments, NEW to \in Terminal,
         status[d] \in Active \cup Terminal,
         status' = [status EXCEPT ![d] = to],
         UNCHANGED <<req, buildServer, forced>>
  PROVE  [Promise!Next]_View
<1>1. req' = req /\ buildServer' = buildServer /\ forced' = forced
  OBVIOUS
<1>2. \A e \in Deployments : e # d => DeploymentOf(e)' = DeploymentOf(e)
  BY <1>1, SameRow DEF TypeOK
<1>3. status'[d] = to
  BY DEF TypeOK
<1>4. DeploymentOf(d)' = Promise!Ended(Target(req[d]))
  BY <1>1, <1>3, ViewNext
<1>5. CASE status[d] \in Terminal
  <2>1. DeploymentOf(d)' = DeploymentOf(d)
    BY <1>4, <1>5, ViewNow
  <2> QED BY <1>2, <2>1 DEF View
<1>6. CASE status[d] \in Active
  <2>1. /\ DeploymentOf(d).stage \in {"waiting", "running"}
        /\ DeploymentOf(d).target = Target(req[d])
    <3>1. CASE status[d] = "queued"
      BY <3>1, ViewNow DEF Promise!Waiting
    <3>2. CASE status[d] = "in_progress"
      BY <3>2, ViewNow DEF Promise!Running
    <3> QED BY <1>6, <3>1, <3>2 DEF Active
  <2>2. View' = [View EXCEPT ![d] = Promise!Ended(@.target)]
    BY <1>2, <1>4, <2>1 DEF View
  <2>3. Promise!End(d)
    BY <2>1, <2>2 DEF Promise!End, View
  <2> QED BY <2>3 DEF Promise!Next
<1> QED BY <1>5, <1>6

\* A queued row starts in the place that was found for it, or is exempt.
LEMMA StartRowView ==
  ASSUME TypeOK, NEW x \in Deployments, NEW b \in Servers \cup {NoServer},
         NEW force \in BOOLEAN, status[x] = "queued", StartRow(x, b, force),
         force \/ b \in Placements(req[x]), req' = req
  PROVE  Promise!Next
<1>1. /\ status' = [status EXCEPT ![x] = "in_progress"]
      /\ buildServer' = [buildServer EXCEPT ![x] = b]
      /\ forced' = [forced EXCEPT ![x] = force]
  BY DEF StartRow
<1>2. \A e \in Deployments : e # x => DeploymentOf(e)' = DeploymentOf(e)
  BY <1>1, SameRow DEF TypeOK
<1>3. /\ status'[x] = "in_progress"
      /\ SlotOf(x)' = SlotAt(req[x], b)
      /\ Regular(x)' => ~force
      /\ Regular(x)' \in BOOLEAN
  BY <1>1 DEF TypeOK, SlotOf, SlotAt, Regular
<1>4. req[x] \in Requests
  BY DEF TypeOK
<1>5. SlotAt(req[x], b) \in Servers
  BY <1>4, RequestFields DEF SlotAt
<1>6. DeploymentOf(x)' = Promise!Running(Target(req[x]), SlotAt(req[x], b), ~Regular(x)')
  BY <1>3, ViewNext
<1>7. DeploymentOf(x).stage = "waiting" /\ DeploymentOf(x).target = Target(req[x])
  BY ViewNow DEF Promise!Waiting
<1>8. Promise!MayRun(Target(req[x]), SlotAt(req[x], b), ~Regular(x)')
  <2>1. CASE ~Regular(x)'
    BY <1>5, <2>1, ViewMayRun
  <2>2. CASE Regular(x)'
    <3>1. ~TargetBusy(req[x]) /\ HasFreeSlot(SlotAt(req[x], b))
      BY <1>3, <1>4, <2>2, PlacementIsFree
    <3>2. /\ \A d \in WithStatus("in_progress") : Target(req[d]) # Target(req[x])
          /\ Cardinality(RegularBuilds(SlotAt(req[x], b))) < ConcurrentBuilds[SlotAt(req[x], b)]
      BY <1>5, <3>1, FreeForRegular DEF TargetBusy
    <3> QED BY <1>5, <3>2, ViewMayRun
  <2> QED BY <2>1, <2>2
<1>9. View' = [View EXCEPT ![x] = Promise!Running(@.target, SlotAt(req[x], b), ~Regular(x)')]
  BY <1>2, <1>6, <1>7 DEF View
<1>10. Promise!Start(x)
  <2>1. View[x].stage = "waiting" /\ View[x].target = Target(req[x])
    BY <1>7 DEF View
  <2>2. (~Regular(x)') \in BOOLEAN
    OBVIOUS
  <2> QED BY <1>5, <1>8, <1>9, <2>1, <2>2 DEF Promise!Start, View
<1> QED BY <1>10 DEF Promise!Next

\* selectBuildServer moves only an exempt deployment.
LEMMA SelectView ==
  ASSUME TypeOK, KeepsBuilder, NEW d \in Deployments, JobSelectBuildServer(d)
  PROVE  [Promise!Next]_View
<1>1. PICK b \in BuilderChoices(d) : buildServer' = [buildServer EXCEPT ![d] = b]
  BY DEF JobSelectBuildServer
<1>2. status' = status /\ req' = req /\ forced' = forced
  BY DEF JobSelectBuildServer, histVars
<1>3. \A e \in Deployments : e # d => DeploymentOf(e)' = DeploymentOf(e)
  BY <1>1, <1>2, SameRow DEF TypeOK
<1>4. CASE status[d] # "in_progress"
  <2>1. DeploymentOf(d)' = DeploymentOf(d)
    BY <1>2, <1>4, SameRow
  <2> QED BY <1>3, <2>1 DEF View
<1>5. CASE status[d] = "in_progress" /\ Regular(d)
  <2>1. b = buildServer[d]
    BY <1>5, BuilderStays DEF Occupies
  <2>2. buildServer' = buildServer
    BY <1>1, <2>1 DEF TypeOK
  <2> QED BY <1>2, <2>2, Unseen
<1>6. CASE status[d] = "in_progress" /\ ~Regular(d)
  <2>1. b \in Servers \cup {NoServer} /\ req[d] \in Requests
    BY BuilderChoicesType DEF TypeOK
  <2>2. SlotOf(d)' = SlotAt(req[d], b)
    BY <1>1, <1>2 DEF TypeOK, SlotOf, SlotAt
  <2>3. SlotAt(req[d], b) \in Servers
    BY <2>1, RequestFields DEF SlotAt
  <2>4. ~Regular(d)'
    BY <1>2, <1>6 DEF Regular
  <2>5. DeploymentOf(d) = Promise!Running(Target(req[d]), SlotOf(d), TRUE)
    BY <1>6, ViewNow
  <2>6. DeploymentOf(d)' = Promise!Running(Target(req[d]), SlotAt(req[d], b), TRUE)
    BY <1>2, <1>6, <2>2, <2>4, ViewNext
  <2>7. View[d].stage = "running" /\ View[d].exempt = TRUE /\ View[d].target = Target(req[d])
    BY <2>5 DEF View, Promise!Running
  <2>8. View' = [View EXCEPT ![d] = Promise!Running(@.target, SlotAt(req[d], b), TRUE)]
    BY <1>3, <2>6, <2>7 DEF View
  <2>9. Promise!Relocate(d)
    BY <2>3, <2>7, <2>8 DEF Promise!Relocate, View
  <2> QED BY <2>9 DEF Promise!Next
<1> QED BY <1>4, <1>5, <1>6

\* An admission that has not committed is invisible.
LEMMA AdmitBeginView ==
  ASSUME TypeOK, NEW d \in Deployments, NEW r \in Requests, AdmitBegin(d, r)
  PROVE  View' = View
<1>1. /\ status[d] = "absent"
      /\ status' = [status EXCEPT ![d] = "uncommitted"]
      /\ req' = [req EXCEPT ![d] = r]
      /\ \E b : buildServer' = [buildServer EXCEPT ![d] = b]
      /\ forced' = forced
  BY DEF AdmitBegin
<1>2. \A e \in Deployments : e # d => DeploymentOf(e)' = DeploymentOf(e)
  BY <1>1, SameRow DEF TypeOK
<1>3. DeploymentOf(d) = NewDeployment /\ DeploymentOf(d)' = NewDeployment
  BY <1>1, ViewNow, ViewNext DEF TypeOK
<1> QED BY <1>2, <1>3 DEF View

\* The commit of an admission submits the deployment; the place that the admission
\* chose is still free.
LEMMA AdmitCommitView ==
  ASSUME IndInv, SlotInv, NEW d \in Deployments, AdmitCommit(d)
  PROVE  Promise!Next
<1> DEFINE t == Target(req[d])
<1> USE DEF IndInv, SlotInv
<1>1. /\ status[d] = "uncommitted"
      /\ status' = [x \in Deployments |->
             IF x = d THEN IF pc[d] = "starting" THEN "in_progress" ELSE "queued"
             ELSE IF x \in replaces[d] THEN "cancelled" ELSE status[x]]
      /\ req' = req /\ buildServer' = buildServer /\ forced' = forced
  BY DEF AdmitCommit, histVars
<1>2. d \in InFlight
  BY <1>1 DEF InFlight, WithStatus
<1>3. ASSUME NEW x \in replaces[d]
      PROVE  /\ x \in Deployments /\ status[x] \in Active /\ Target(req[x]) = t
             /\ x # d
             /\ pc[d] = "starting" => status[x] = "queued"
  BY <1>1, <1>2 DEF OpenReplaces, TypeOK, Active
<1>4. DeploymentOf(d) = NewDeployment
  BY <1>1, ViewNow
<1>5. ASSUME NEW x \in Deployments, x \notin replaces[d], x # d
      PROVE  DeploymentOf(x)' = DeploymentOf(x)
  BY <1>1, <1>5, SameRow
<1>6. ASSUME NEW x \in replaces[d]
      PROVE  /\ DeploymentOf(x)' = Promise!Ended(DeploymentOf(x).target)
             /\ DeploymentOf(x).target = t
             /\ x \in Promise!In("waiting") \cup Promise!In("running")
             /\ pc[d] = "starting" => x \in Promise!In("waiting")
  <2>1. DeploymentOf(x).target = t
    <3>1. CASE status[x] = "queued"
      BY <1>3, <3>1, ViewNow DEF Promise!Waiting
    <3>2. CASE status[x] = "in_progress"
      BY <1>3, <3>2, ViewNow DEF Promise!Running
    <3> QED BY <1>3, <3>1, <3>2 DEF Active
  <2>2. status'[x] = "cancelled"
    BY <1>1, <1>3
  <2>3. DeploymentOf(x)' = Promise!Ended(t)
    BY <1>1, <1>3, <2>2, ViewNext DEF Terminal
  <2>4. /\ x \in WithStatus("queued") \cup WithStatus("in_progress")
        /\ pc[d] = "starting" => x \in WithStatus("queued")
    BY <1>3 DEF WithStatus, Active
  <2> QED BY <2>1, <2>3, <2>4, ViewStages
<1>7. ASSUME NEW new, DeploymentOf(d)' = new
      PROVE  Promise!Place(d, new, replaces[d])
  BY <1>3, <1>5, <1>6, <1>7 DEF Promise!Place
<1>8. t \in Apps \X PullRequests
  BY SlotType
<1>9. CASE pc[d] = "starting"
  <2> DEFINE S == SlotOf(d)
             X == ~Regular(d)
  <2>1. S \in Servers /\ X \in BOOLEAN
    BY SlotType
  <2>2. DeploymentOf(d)' = Promise!Running(t, S, X)
    <3>1. status'[d] = "in_progress" /\ SlotOf(d)' = S /\ (Regular(d)' <=> Regular(d))
      BY <1>1, <1>9 DEF SlotOf, Regular
    <3> QED BY <1>1, <3>1, ViewNext
  <2>3. Promise!MayRun(t, S, X)
    <3>1. Regular(d) =>
            /\ \A e \in WithStatus("in_progress") : Target(req[e]) # t
            /\ Cardinality(RegularBuilds(S)) < ConcurrentBuilds[S]
      BY <1>2, <1>9, <2>1 DEF KeptStart
    <3> QED BY <2>1, <3>1, ViewMayRun
  <2>4. replaces[d] \in SUBSET {e \in Promise!In("waiting") : View[e].target = t}
    BY <1>3, <1>6, <1>9 DEF View
  <2>5. Promise!Place(d, Promise!Running(t, S, X), replaces[d])
    BY <1>7, <2>2
  <2> HIDE DEF t, S, X
  <2>6. Promise!Submit(d)
    BY <1>4, <1>8, <2>1, <2>3, <2>4, <2>5 DEF Promise!Submit, View
  <2> QED BY <2>6 DEF Promise!Next
<1>10. CASE pc[d] # "starting"
  <2>1. DeploymentOf(d)' = Promise!Waiting(t)
    BY <1>1, <1>10, ViewNext
  <2>2. replaces[d] \in SUBSET {e \in Promise!In("waiting") \cup Promise!In("running") :
                               View[e].target = t}
    BY <1>3, <1>6 DEF View
  <2>3. Promise!Place(d, Promise!Waiting(t), replaces[d])
    BY <1>7, <2>1
  <2> HIDE DEF t
  <2>4. Promise!Submit(d)
    BY <1>4, <1>8, <2>2, <2>3 DEF Promise!Submit, View
  <2> QED BY <2>4 DEF Promise!Next
<1> QED BY <1>9, <1>10

\* Every other step of a job or of a cancel ends one deployment, moves an exempt one,
\* or is not seen.
LEMMA OtherStepsView ==
  ASSUME IndInv, SlotInv, NEW d \in Deployments,
         JobStep(d) \/ ApiCancel(d) \/ UiCancel(d) \/ RunCleanup(d) \/ CancelAdvance(d)
  PROVE  [Promise!Next]_View
<1> USE DEF IndInv
<1>1. CASE ApiCancel(d) \/ UiCancel(d)
  <2>1. /\ status' = [status EXCEPT ![d] = "cancelled"]
        /\ UNCHANGED <<req, buildServer, forced>>
        /\ status[d] \in Active \cup Terminal
    BY <1>1 DEF ApiCancel, UiCancel, CancelRow, histVars
  <2> QED BY <2>1, RowEndsView DEF Terminal
<1>2. CASE JobWrite(d)
  <2>1. /\ \E to \in {"finished", "failed"} : status' = [status EXCEPT ![d] = to]
        /\ pc[d] \in {"writeFinished", "writeFailed"}
        /\ UNCHANGED <<req, buildServer, forced>>
    BY <1>2 DEF JobWrite, GoTo, histVars
  <2>2. status[d] \in Active \cup Terminal
    BY <2>1 DEF TypeOK, JobRow, Statuses
  <2> QED BY <2>1, <2>2, RowEndsView DEF Terminal
<1>3. CASE DispatchFails(d) /\ status[d] = "in_progress"
  <2>1. /\ status' = [status EXCEPT ![d] = "failed"]
        /\ UNCHANGED <<req, buildServer, forced>>
    BY <1>3 DEF DispatchFails, histVars
  <2> QED BY <1>3, <2>1, RowEndsView DEF Active, Terminal
<1>4. CASE DispatchFails(d) /\ status[d] # "in_progress"
  BY <1>4, Unseen DEF DispatchFails, histVars
<1>5. CASE JobClaim(d)
  <2>1. /\ pc[d] = "waiting" /\ status[d] # "cancelled"
        /\ status' = [status EXCEPT ![d] = "in_progress"]
        /\ UNCHANGED <<req, buildServer, forced>>
    BY <1>5 DEF JobClaim, GoTo, histVars
  <2>2. status[d] = "in_progress"
    BY <2>1 DEF TypeOK, JobRow, Statuses, Active, Terminal
  <2>3. status' = status
    BY <2>1, <2>2 DEF TypeOK
  <2> QED BY <2>1, <2>3, Unseen
<1>6. CASE JobSelectBuildServer(d)
  BY <1>6, SelectView DEF SlotInv
<1>7. CASE \/ Dispatch(d) \/ JobCancelledBeforeStart(d) \/ JobRejected(d)
           \/ JobStartDeploy(d) \/ JobGate(d)
           \/ JobCommandDone(d) \/ JobLastCommand(d) \/ JobFails(d)
           \/ JobCheckTerminal(d) \/ JobAdvance(d) \/ RunCleanup(d) \/ CancelAdvance(d)
  <2>1. UNCHANGED <<status, req, buildServer, forced>>
    BY <1>7 DEF Dispatch, JobCancelledBeforeStart, JobRejected,
         JobStartDeploy, JobGate, JobCommandDone, JobLastCommand, JobFails,
         JobCheckTerminal, JobAdvance, RunCleanup, CancelAdvance, rowVars, histVars
  <2> QED BY <2>1, Unseen
<1> QED BY <1>1, <1>2, <1>3, <1>4, <1>5, <1>6, <1>7 DEF JobStep

\* Every step of the queue is a step of the promise or unseen.
LEMMA NextView == IndInv /\ SlotInv /\ [Next]_vars => [Promise!Next]_View
<1> SUFFICES ASSUME IndInv, SlotInv, [Next]_vars PROVE [Promise!Next]_View
  OBVIOUS
<1>1. TypeOK
  BY DEF IndInv
<1>2. ASSUME NEW d \in Deployments, NEW r \in Requests, AdmitBegin(d, r)
      PROVE  [Promise!Next]_View
  BY <1>1, <1>2, AdmitBeginView
<1>3. ASSUME NEW d \in Deployments, AdmitCommit(d) PROVE [Promise!Next]_View
  BY <1>3, AdmitCommitView
<1>4. ASSUME NEW d \in Deployments, ForceStart(d) PROVE [Promise!Next]_View
  <2>1. /\ status[d] = "queued" /\ StartRow(d, buildServer[d], TRUE) /\ req' = req
        /\ buildServer[d] \in Servers \cup {NoServer}
    BY <1>1, <1>4 DEF ForceStart, StillQueued, TypeOK
  <2> QED BY <1>1, <2>1, StartRowView
<1>5. ASSUME NEW d \in Deployments, NEW p \in Passes, PassStep(d, p)
      PROVE  [Promise!Next]_View
  <2>1. PICK x \in todo[d][p] :
          /\ IF StillQueued(x) /\ Placements(req[x]) # {}
             THEN \E b \in Placements(req[x]) : StartRow(x, b, FALSE)
             ELSE UNCHANGED <<status, buildServer, forced, pc>>
          /\ req' = req
    BY <1>5 DEF PassStep
  <2>2. x \in Deployments /\ req[x] \in Requests
    BY <1>1, <1>5 DEF TypeOK
  <2>3. CASE UNCHANGED <<status, buildServer, forced, pc>>
    BY <2>1, <2>3, Unseen
  <2>4. ASSUME NEW b \in Placements(req[x]), StartRow(x, b, FALSE), StillQueued(x)
        PROVE  [Promise!Next]_View
    <3>1. b \in Servers \cup {NoServer}
      BY <2>2, PlacementsType
    <3> QED BY <1>1, <2>1, <2>2, <2>4, <3>1, StartRowView DEF StillQueued
  <2> QED BY <2>1, <2>3, <2>4
<1>6. CASE UNCHANGED vars
  BY <1>6, Unseen DEF vars, rowVars, histVars
<1> QED BY <1>2, <1>3, <1>4, <1>5, <1>6, OtherStepsView DEF Next

\* The queue implements the promise to its users: a deployment waits, runs and ends
\* once; it starts within the limits unless it is exempt; it replaces only active
\* deployments of its target; and only an exempt one changes its build slot.
THEOREM ImplementsPromiseHolds == Spec => ImplementsPromise
<1>1. Init => Promise!Init
  <2> SUFFICES ASSUME Init PROVE Promise!Init
    OBVIOUS
  <2>1. \A d \in Deployments : DeploymentOf(d) = NewDeployment
    BY ViewNow DEF Init
  <2> QED BY <2>1 DEF Promise!Init
<1>2. IndInv /\ SlotInv /\ [Next]_vars => [Promise!Next]_View
  BY NextView
<1> QED BY <1>1, <1>2, Invariance, SlotInvariance, PTL
        DEF Spec, ImplementsPromise, Promise!Spec, View
=============================================================================
