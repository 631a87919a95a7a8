----------------------- MODULE DeploymentQueue_proofs -----------------------
(***************************************************************************)
(* Theorems about DeploymentQueue, for every number of deployments, every  *)
(* set of applications, servers and requests and every setting.            *)
(***************************************************************************)
EXTENDS DeploymentQueue, TLAPS

\* What a call of queue_application_deployment passes.
LEMMA RequestFields ==
  ASSUME NEW r \in Requests
  PROVE  /\ r.app \in Apps /\ r.pr \in PullRequests /\ r.server \in Servers
         /\ r.nqa \in BOOLEAN
  BY RequestAssumption DEF RequestType

\* Build servers are servers.
LEMMA CandidatesType ==
  ASSUME NEW r \in Requests
  PROVE  Candidates(r) \subseteq Servers
  BY RequestFields, ApplicationAssumption DEF Candidates

\* least_busy_build_server picks one of the servers it is given.
LEMMA LeastBusySubset == \A S : LeastBusy(S) \subseteq S
  BY DEF LeastBusy

\* next_queuable stores a server or leaves build_server_id empty, and it finds a
\* place only for an idle target.
LEMMA PlacementsType ==
  ASSUME NEW r \in Requests
  PROVE  /\ Placements(r) \subseteq Servers \cup {NoServer}
         /\ Placements(r) # {} => ~TargetBusy(r)
  BY CandidatesType, LeastBusySubset DEF Placements

\* The admission starts only deployments that skip the checks or have an idle target.
LEMMA DecisionType ==
  ASSUME NEW r \in Requests, NEW dec \in Decisions(r)
  PROVE  /\ dec.start \in BOOLEAN
         /\ dec.builder \in Servers \cup {NoServer}
         /\ dec.start => r.nqa \/ ~TargetBusy(r)
<1>1. CASE \E x \in Superseded(r) : status[x] = "in_progress"
  <2>1. dec = NoStart
    BY <1>1 DEF Decisions
  <2> QED BY <2>1 DEF NoStart
<1>2. CASE ~(\E x \in Superseded(r) : status[x] = "in_progress") /\ r.nqa
  <2>1. dec = StartOn(NoServer)
    BY <1>2 DEF Decisions
  <2> QED BY <1>2, <2>1 DEF StartOn
<1>3. CASE /\ ~(\E x \in Superseded(r) : status[x] = "in_progress") /\ ~r.nqa
           /\ Placements(r) = {}
  <2>1. dec = NoStart
    BY <1>3 DEF Decisions
  <2> QED BY <2>1 DEF NoStart
<1>4. CASE /\ ~(\E x \in Superseded(r) : status[x] = "in_progress") /\ ~r.nqa
           /\ Placements(r) # {}
  <2>1. PICK b \in Placements(r) : dec = StartOn(b)
    BY <1>4 DEF Decisions
  <2>2. dec.start = TRUE /\ dec.builder = b
    BY <2>1 DEF StartOn
  <2> QED BY <1>4, <2>2, PlacementsType
<1> QED BY <1>1, <1>2, <1>3, <1>4

\* selectBuildServer stores a server or keeps what the row has.
LEMMA BuilderChoicesType ==
  ASSUME TypeOK, NEW d \in Deployments
  PROVE  BuilderChoices(d) \subseteq Servers \cup {NoServer}
<1> DEFINE C == Candidates(req[d])
           Free == {s \in C : HasFreeSlot(s)}
<1>1. C \subseteq Servers /\ buildServer[d] \in Servers \cup {NoServer}
  BY CandidatesType DEF TypeOK
<1>2. LeastBusy(Free) \subseteq Servers /\ LeastBusy(C) \subseteq Servers
  <2>1. LeastBusy(Free) \subseteq Free /\ LeastBusy(C) \subseteq C
    BY LeastBusySubset
  <2>2. Free \subseteq C
    OBVIOUS
  <2> QED BY <1>1, <2>1, <2>2
<1>3. CASE C = {} \/ buildServer[d] \in C
  BY <1>1, <1>3 DEF BuilderChoices
<1>4. CASE C # {} /\ buildServer[d] \notin C
  <2>1. BuilderChoices(d) = IF Free # {} THEN LeastBusy(Free) ELSE LeastBusy(C)
    BY <1>4 DEF BuilderChoices
  <2> HIDE DEF C, Free
  <2> QED BY <1>2, <2>1
<1> QED BY <1>3, <1>4

-----------------------------------------------------------------------------
(* Type correctness.                                                       *)

\* An empty queue has the declared types.
LEMMA InitType == Init => TypeOK
<1> SUFFICES ASSUME Init PROVE TypeOK
  OBVIOUS
<1>1. (CHOOSE r \in Requests : TRUE) \in Requests
  BY RequestAssumption
<1> QED BY <1>1, BoundAssumption DEF Init, TypeOK, Statuses, JobStates, Passes

\* Every operation stores values of the declared types.
LEMMA NextType == TypeOK /\ [Next]_vars => TypeOK'
<1> SUFFICES ASSUME TypeOK, [Next]_vars PROVE TypeOK'
  OBVIOUS
<1> USE DEF TypeOK, Statuses, Active, Terminal, JobStates
<1>1. ASSUME NEW d \in Deployments, NEW r \in Requests, AdmitBegin(d, r)
      PROVE  TypeOK'
  <2>1. PICK dec \in Decisions(r) :
          /\ pc' = [pc EXCEPT ![d] = IF dec.start THEN "starting" ELSE "none"]
          /\ buildServer' = [buildServer EXCEPT ![d] = dec.builder]
    BY <1>1 DEF AdmitBegin
  <2>2. dec.builder \in Servers \cup {NoServer}
    BY DecisionType
  <2>3. Superseded(r) \subseteq Deployments
    BY DEF Superseded
  <2> QED BY <1>1, <2>1, <2>2, <2>3 DEF AdmitBegin
<1>2. ASSUME NEW d \in Deployments, AdmitCommit(d) PROVE TypeOK'
  BY <1>2 DEF AdmitCommit, histVars
<1>3. ASSUME NEW d \in Deployments, ForceStart(d) PROVE TypeOK'
  BY <1>3 DEF ForceStart, StartRow
<1>4. ASSUME NEW d \in Deployments, Dispatch(d) PROVE TypeOK'
  BY <1>4 DEF Dispatch, rowVars, histVars
<1>5. ASSUME NEW d \in Deployments, DispatchFails(d) PROVE TypeOK'
  BY <1>5 DEF DispatchFails, histVars
<1>6. ASSUME NEW d \in Deployments,
             \/ JobCancelledBeforeStart(d) \/ JobRejected(d) \/ JobGate(d)
             \/ JobCommandDone(d) \/ JobLastCommand(d) \/ JobFails(d)
             \/ JobCheckTerminal(d)
      PROVE  TypeOK'
  <2>1. /\ UNCHANGED <<rowVars, histVars, cancelPc, todo, cancels>>
        /\ \E to \in JobStates : pc' = [pc EXCEPT ![d] = to]
    BY <1>6 DEF JobCancelledBeforeStart, JobRejected, JobGate, JobCommandDone,
         JobLastCommand, JobFails, JobCheckTerminal, GoTo
  <2> QED BY <2>1 DEF rowVars, histVars
<1>7. ASSUME NEW d \in Deployments, JobClaim(d) PROVE TypeOK'
  BY <1>7 DEF JobClaim, GoTo, histVars
<1>8. ASSUME NEW d \in Deployments, JobSelectBuildServer(d) PROVE TypeOK'
  <2>1. PICK b \in BuilderChoices(d) : buildServer' = [buildServer EXCEPT ![d] = b]
    BY <1>8 DEF JobSelectBuildServer
  <2>2. b \in Servers \cup {NoServer}
    BY BuilderChoicesType
  <2> QED BY <1>8, <2>1, <2>2 DEF JobSelectBuildServer, GoTo, histVars
<1>9. ASSUME NEW d \in Deployments, JobStartDeploy(d) PROVE TypeOK'
  BY <1>9 DEF JobStartDeploy, GoTo, histVars
<1>10. ASSUME NEW d \in Deployments, JobWrite(d) PROVE TypeOK'
  <2>1. PICK to \in {"finished", "failed"} :
          /\ status' = [status EXCEPT ![d] = to]
          /\ pc' = [pc EXCEPT ![d] = "advancing"]
    BY <1>10 DEF JobWrite, GoTo
  <2> QED BY <1>10, <2>1 DEF JobWrite, histVars
<1>11. ASSUME NEW d \in Deployments, NEW p \in Passes, Snapshot(d, p)
       PROVE  /\ todo' \in [Deployments -> [Passes -> SUBSET Deployments]]
              /\ overlooked' \in [Deployments -> SUBSET Oversights]
  <2> DEFINE found == {x \in WithStatus("queued") :
                req[x].server \in PassServers(req[d].app, req[d].server)}
  <2>1. found \in SUBSET Deployments
    BY DEF WithStatus
  <2>2. todo' = [todo EXCEPT ![d][p] = found]
    BY <1>11 DEF Snapshot
  <2>3. overlooked' = [x \in Deployments |-> overlooked[x] \cup Missed(d, x)]
    BY <1>11 DEF Snapshot
  <2>4. \A x \in Deployments : Missed(d, x) \subseteq Oversights
    BY DEF Missed
  <2> HIDE DEF found
  <2>5. overlooked' \in [Deployments -> SUBSET Oversights]
    BY <2>3, <2>4
  <2> QED BY <2>1, <2>2, <2>5
<1>12. ASSUME NEW d \in Deployments, JobAdvance(d) PROVE TypeOK'
  <2>1. Snapshot(d, "job") /\ "job" \in Passes
    BY <1>12 DEF JobAdvance, Passes
  <2> QED BY <1>11, <1>12, <2>1 DEF JobAdvance, GoTo, rowVars
<1>13. ASSUME NEW d \in Deployments, ApiCancel(d) \/ UiCancel(d) PROVE TypeOK'
  <2>1. CancelRow(d)
    BY <1>13 DEF ApiCancel, UiCancel
  <2>2. cancels' \in 0..MaxCancels
    BY <2>1, BoundAssumption DEF CancelRow
  <2> QED BY <2>1, <2>2 DEF CancelRow, histVars
<1>14. ASSUME NEW d \in Deployments, RunCleanup(d) PROVE TypeOK'
  BY <1>14 DEF RunCleanup, rowVars, histVars
<1>15. ASSUME NEW d \in Deployments, CancelAdvance(d) PROVE TypeOK'
  <2>1. Snapshot(d, "cancel") /\ "cancel" \in Passes
    BY <1>15 DEF CancelAdvance, Passes
  <2> QED BY <1>11, <1>15, <2>1 DEF CancelAdvance, rowVars
<1>16. ASSUME NEW d \in Deployments, NEW p \in Passes, PassStep(d, p) PROVE TypeOK'
  <2>1. PICK x \in todo[d][p] :
          /\ todo' = [todo EXCEPT ![d][p] = @ \ {x}]
          /\ IF StillQueued(x) /\ Placements(req[x]) # {}
             THEN \E b \in Placements(req[x]) : StartRow(x, b, FALSE)
             ELSE UNCHANGED <<status, buildServer, forced, pc>>
          /\ UNCHANGED <<req, deployStarted, replaces, overlooked, cancelPc, cancels>>
    BY <1>16 DEF PassStep
  <2>2. x \in Deployments /\ Placements(req[x]) \subseteq Servers \cup {NoServer}
    BY PlacementsType
  <2>3. todo' \in [Deployments -> [Passes -> SUBSET Deployments]]
    BY <2>1
  <2>4. /\ status' \in [Deployments -> Statuses]
        /\ buildServer' \in [Deployments -> Servers \cup {NoServer}]
        /\ forced' \in [Deployments -> BOOLEAN]
        /\ pc' \in [Deployments -> JobStates]
    <3>1. CASE UNCHANGED <<status, buildServer, forced, pc>>
      BY <3>1
    <3>2. ASSUME NEW b \in Placements(req[x]), StartRow(x, b, FALSE)
          PROVE  /\ status' \in [Deployments -> Statuses]
                 /\ buildServer' \in [Deployments -> Servers \cup {NoServer}]
                 /\ forced' \in [Deployments -> BOOLEAN]
                 /\ pc' \in [Deployments -> JobStates]
      BY <2>2, <3>2 DEF StartRow
    <3> QED BY <2>1, <3>1, <3>2
  <2> QED BY <2>1, <2>3, <2>4
<1>17. CASE UNCHANGED vars
  BY <1>17 DEF vars, rowVars, histVars, procVars
<1> QED
  BY <1>1, <1>2, <1>3, <1>4, <1>5, <1>6, <1>7, <1>8, <1>9, <1>10, <1>12,
     <1>13, <1>14, <1>15, <1>16, <1>17 DEF Next, JobStep

\* Type correctness of the queue, for every value of the constants.
THEOREM TypeCorrect == Spec => []TypeOK
<1>1. Init => TypeOK
  BY InitType
<1>2. TypeOK /\ [Next]_vars => TypeOK'
  BY NextType
<1> QED BY <1>1, <1>2, PTL DEF Spec

-----------------------------------------------------------------------------
(* The inductive invariant.                                                *)

\* A row and its job agree: a row that waits has no job, a row in progress has a
\* job that will still end it, and the job of an ended row only finishes up.
JobRow ==
  \A d \in Deployments :
    /\ status[d] \in {"absent", "queued"} => pc[d] = "none"
    /\ status[d] = "uncommitted" => pc[d] \in {"none", "starting"}
    /\ status[d] = "in_progress" =>
         pc[d] \in (Executing \ {"advancing"}) \cup {"starting", "waiting"}
    /\ status[d] \in {"finished", "failed"} => pc[d] \in {"advancing", "done"}

\* A job that changes containers has stored deploy_started_at before.
DeployMarked ==
  \A d \in Deployments :
    /\ pc[d] \in {"changing", "completing", "writeFinished"} => deployStarted[d]
    /\ pc[d] = "gate" => deployStarted[d] \/ status[d] = "cancelled"

\* What an admission supersedes is active until the admission commits, and ended
\* afterwards; it has never started to deploy.
SupersededRows ==
  \A d \in Deployments : \A x \in replaces[d] :
    /\ ~deployStarted[x]
    /\ status[x] \in Active \cup Terminal
    /\ status[d] # "uncommitted" => status[x] \in Terminal

\* A row that is in progress or will be when its admission commits.
Occupies(d) ==
  status[d] = "in_progress" \/ (status[d] = "uncommitted" /\ pc[d] = "starting")

\* One regular occupant per target, and one open admission per application.
OneOccupant ==
  /\ \A d, e \in Deployments :
       d # e /\ Occupies(d) /\ Occupies(e) /\ Regular(d) /\ Regular(e)
         => Target(req[d]) # Target(req[e])
  /\ \A d, e \in InFlight : d # e => req[d].app # req[e].app

IndInv == TypeOK /\ JobRow /\ DeployMarked /\ SupersededRows /\ OneOccupant

\* The inductive invariant holds in the empty queue.
LEMMA InitInd == Init => IndInv
<1> SUFFICES ASSUME Init PROVE IndInv
  OBVIOUS
<1>1. TypeOK
  BY InitType
<1>2. JobRow /\ DeployMarked /\ SupersededRows /\ OneOccupant
  BY DEF Init, JobRow, DeployMarked, SupersededRows, OneOccupant, Occupies,
         InFlight, WithStatus
<1> QED BY <1>1, <1>2 DEF IndInv

\* Deployments of one target belong to one application, whose row the admission locks.
LEMMA SameTargetSameApp ==
  ASSUME NEW r, NEW q, Target(r) = Target(q)
  PROVE  r.app = q.app
  BY DEF Target

\* The admission that decides: its row is the only new occupant, of a target that
\* is idle or for a deployment that skips the limits.
LEMMA AdmitBeginInd ==
  ASSUME IndInv, TypeOK', NEW d \in Deployments, NEW r \in Requests, AdmitBegin(d, r)
  PROVE  IndInv'
<1> USE DEF IndInv
<1>1. PICK dec \in Decisions(r) :
        pc' = [pc EXCEPT ![d] = IF dec.start THEN "starting" ELSE "none"]
  BY DEF AdmitBegin
<1>2. /\ status[d] = "absent"
      /\ status' = [status EXCEPT ![d] = "uncommitted"]
      /\ req' = [req EXCEPT ![d] = r]
      /\ replaces' = [replaces EXCEPT ![d] = Superseded(r)]
      /\ UNCHANGED <<deployStarted, forced>>
      /\ LocksFree(r)
  BY DEF AdmitBegin
<1>3. dec.start \in BOOLEAN /\ (dec.start => r.nqa \/ ~TargetBusy(r))
  BY DecisionType
<1>4. JobRow'
  BY <1>1, <1>2, <1>3 DEF TypeOK, JobRow, Executing, JobStates
<1>5. DeployMarked'
  BY <1>1, <1>2, <1>3 DEF TypeOK, DeployMarked
<1>6. SupersededRows'
  <2>1. ASSUME NEW x \in Superseded(r)
        PROVE  x \in Deployments /\ ~deployStarted[x] /\ status[x] \in Active
    BY DEF Superseded, Active
  <2> QED BY <1>2, <2>1 DEF TypeOK, SupersededRows, Active, Terminal
<1>7. OneOccupant'
  <2>1. \A e \in InFlight : req[e].app # r.app
    BY <1>2 DEF LocksFree
  <2>2. ASSUME NEW e \in Deployments, e # d, Occupies(e), dec.start, ~r.nqa
        PROVE  Target(req[e]) # Target(r)
    <3>1. CASE status[e] = "in_progress"
      BY <1>3, <2>2, <3>1 DEF TargetBusy, WithStatus
    <3>2. CASE status[e] = "uncommitted"
      BY <2>1, <3>2, SameTargetSameApp DEF InFlight, WithStatus
    <3> QED BY <2>2, <3>1, <3>2 DEF Occupies
  <2>3. \A e \in Deployments : e # d =>
          (Occupies(e)' <=> Occupies(e)) /\ (Regular(e)' <=> Regular(e)) /\ req'[e] = req[e]
    BY <1>1, <1>2 DEF TypeOK, Occupies, Regular
  <2>4. /\ req'[d] = r
        /\ Regular(d)' => ~r.nqa
        /\ Occupies(d)' => dec.start
    BY <1>1, <1>2, <1>3 DEF TypeOK, Occupies, Regular
  <2>5. \A e \in Deployments : (e \in InFlight)' <=> (e = d \/ e \in InFlight)
    BY <1>2 DEF TypeOK, InFlight, WithStatus
  <2>6. ASSUME NEW e \in Deployments, NEW f \in Deployments, e # f,
               Occupies(e)', Occupies(f)', Regular(e)', Regular(f)'
        PROVE  Target(req'[e]) # Target(req'[f])
    BY <2>2, <2>3, <2>4, <2>6 DEF OneOccupant
  <2>7. ASSUME NEW e \in InFlight', NEW f \in InFlight', e # f
        PROVE  req'[e].app # req'[f].app
    BY <2>1, <2>3, <2>4, <2>5, <2>7 DEF OneOccupant, InFlight, WithStatus
  <2> QED BY <2>6, <2>7 DEF OneOccupant
<1> QED BY <1>4, <1>5, <1>6, <1>7

\* The commit turns the open row into an occupant it already was, or into a queued
\* row, and ends what it supersedes.
LEMMA AdmitCommitInd ==
  ASSUME IndInv, TypeOK', NEW d \in Deployments, AdmitCommit(d)
  PROVE  IndInv'
<1> USE DEF IndInv
<1>1. /\ status[d] = "uncommitted"
      /\ status' = [x \in Deployments |->
             IF x = d THEN IF pc[d] = "starting" THEN "in_progress" ELSE "queued"
             ELSE IF x \in replaces[d] THEN "cancelled" ELSE status[x]]
      /\ UNCHANGED <<req, deployStarted, replaces, forced, pc>>
  BY DEF AdmitCommit, histVars
<1>2. JobRow'
  BY <1>1 DEF TypeOK, JobRow, Executing, JobStates
<1>3. DeployMarked'
  BY <1>1 DEF TypeOK, DeployMarked, JobRow
<1>4. SupersededRows'
  BY <1>1 DEF TypeOK, SupersededRows, Active, Terminal
<1>5. OneOccupant'
  <2>1. \A e \in Deployments : (Occupies(e)' => Occupies(e)) /\ (Regular(e)' <=> Regular(e))
    BY <1>1 DEF TypeOK, Occupies, Regular
  <2>2. InFlight' \subseteq InFlight
    BY <1>1 DEF TypeOK, InFlight, WithStatus
  <2> QED BY <1>1, <2>1, <2>2 DEF OneOccupant
<1> QED BY <1>2, <1>3, <1>4, <1>5

\* Steps that leave the rows and their jobs alone.
LEMMA QuietInd ==
  ASSUME IndInv, TypeOK', UNCHANGED <<status, req, deployStarted, replaces, forced, pc>>
  PROVE  IndInv'
BY DEF IndInv, JobRow, DeployMarked, SupersededRows, OneOccupant, Occupies,
       Regular, InFlight, WithStatus

\* A job that moves on without writing its row: it exists, it does not move to its
\* end while the row is in progress, and it changes containers only when marked.
LEMMA JobMovesInd ==
  ASSUME IndInv, TypeOK', NEW d \in Deployments,
         NEW to \in JobStates \ {"none", "starting"},
         pc' = [pc EXCEPT ![d] = to],
         UNCHANGED <<status, req, deployStarted, replaces, forced>>,
         status[d] \in {"in_progress"} \cup Terminal,
         status[d] = "in_progress" => to \notin {"advancing", "done"},
         status[d] \in {"finished", "failed"} => to \in {"advancing", "done"},
         to \in {"changing", "completing", "writeFinished"} => deployStarted[d],
         to = "gate" => deployStarted[d] \/ status[d] = "cancelled"
  PROVE  IndInv'
<1> USE DEF IndInv
<1>1. JobRow'
  BY DEF TypeOK, JobRow, Executing, JobStates, Terminal
<1>2. DeployMarked'
  BY DEF TypeOK, DeployMarked
<1>3. SupersededRows'
  BY DEF SupersededRows
<1>4. OneOccupant'
  <2>1. \A e \in Deployments : (Occupies(e)' <=> Occupies(e)) /\ (Regular(e)' <=> Regular(e))
    BY DEF TypeOK, Occupies, Regular, Terminal
  <2>2. InFlight' = InFlight
    BY DEF InFlight, WithStatus
  <2> QED BY <2>1, <2>2 DEF OneOccupant
<1> QED BY <1>1, <1>2, <1>3, <1>4

\* A committed row that no open admission cancels stores a terminal status; its
\* job stays where it is or goes to its queue pass.
LEMMA RowEndsInd ==
  ASSUME IndInv, TypeOK', NEW d \in Deployments, NEW st \in Terminal,
         status' = [status EXCEPT ![d] = st],
         \/ pc' = pc /\ st = "cancelled"
         \/ pc' = [pc EXCEPT ![d] = "advancing"],
         UNCHANGED <<req, deployStarted, replaces, forced>>,
         status[d] \in Active \cup Terminal, Writable(d)
  PROVE  IndInv'
<1> USE DEF IndInv
<1>1. JobRow'
  BY DEF TypeOK, JobRow, Executing, JobStates, Terminal
<1>2. DeployMarked'
  BY DEF TypeOK, DeployMarked
<1>3. SupersededRows'
  BY DEF TypeOK, SupersededRows, Active, Terminal
<1>4. OneOccupant'
  <2>1. \A e \in Deployments : (Occupies(e)' => Occupies(e)) /\ (Regular(e)' <=> Regular(e))
    BY DEF TypeOK, Occupies, Regular, Active, Terminal
  <2>2. InFlight' \subseteq InFlight
    BY DEF TypeOK, InFlight, WithStatus, Terminal
  <2> QED BY <2>1, <2>2 DEF OneOccupant
<1> QED BY <1>1, <1>2, <1>3, <1>4

\* A queued row that starts is forced or has an idle target and no open admission
\* of its application.
LEMMA StartRowInd ==
  ASSUME IndInv, TypeOK', NEW x \in Deployments, NEW b, NEW force \in BOOLEAN,
         status[x] = "queued", StartRow(x, b, force), RowsFree(req[x]), Writable(x),
         force \/ ~TargetBusy(req[x]),
         UNCHANGED <<req, deployStarted, replaces>>
  PROVE  IndInv'
<1> USE DEF IndInv
<1>1. /\ status' = [status EXCEPT ![x] = "in_progress"]
      /\ forced' = [forced EXCEPT ![x] = force]
      /\ pc' = [pc EXCEPT ![x] = "starting"]
  BY DEF StartRow
<1>2. JobRow'
  BY <1>1 DEF TypeOK, JobRow, Executing, JobStates
<1>3. DeployMarked'
  BY <1>1 DEF TypeOK, DeployMarked
<1>4. SupersededRows'
  BY <1>1 DEF TypeOK, SupersededRows, Active, Terminal, Writable, InFlight, WithStatus
<1>5. OneOccupant'
  <2>1. \A e \in InFlight : req[e].app # req[x].app
    BY DEF RowsFree
  <2>2. ASSUME NEW e \in Deployments, e # x, Occupies(e), ~force
        PROVE  Target(req[e]) # Target(req[x])
    <3>1. CASE status[e] = "in_progress"
      BY <2>2, <3>1 DEF TargetBusy, WithStatus
    <3>2. CASE status[e] = "uncommitted"
      BY <2>1, <3>2, SameTargetSameApp DEF InFlight, WithStatus
    <3> QED BY <2>2, <3>1, <3>2 DEF Occupies
  <2>3. \A e \in Deployments : e # x =>
          (Occupies(e)' <=> Occupies(e)) /\ (Regular(e)' <=> Regular(e))
    BY <1>1 DEF TypeOK, Occupies, Regular
  <2>4. Regular(x)' => ~force
    BY <1>1 DEF TypeOK, Regular
  <2>5. InFlight' \subseteq InFlight
    BY <1>1 DEF TypeOK, InFlight, WithStatus
  <2> QED BY <2>2, <2>3, <2>4, <2>5 DEF OneOccupant
<1> QED BY <1>2, <1>3, <1>4, <1>5

\* A pass starts the row it tries only if it is still queued and has a place.
LEMMA PassStepInd ==
  ASSUME IndInv, TypeOK', NEW d \in Deployments, NEW p \in Passes, PassStep(d, p)
  PROVE  IndInv'
<1>1. PICK x \in todo[d][p] :
        /\ RowsFree(req[x]) /\ Writable(x)
        /\ IF StillQueued(x) /\ Placements(req[x]) # {}
           THEN \E b \in Placements(req[x]) : StartRow(x, b, FALSE)
           ELSE UNCHANGED <<status, buildServer, forced, pc>>
        /\ UNCHANGED <<req, deployStarted, replaces>>
  BY DEF PassStep
<1>2. x \in Deployments /\ req[x] \in Requests
  BY DEF IndInv, TypeOK
<1>3. CASE StillQueued(x) /\ Placements(req[x]) # {}
  <2>1. PICK b \in Placements(req[x]) : StartRow(x, b, FALSE)
    BY <1>1, <1>3
  <2>2. ~TargetBusy(req[x])
    BY <1>2, <1>3, PlacementsType
  <2> QED BY <1>1, <1>2, <1>3, <2>1, <2>2, StartRowInd DEF StillQueued
<1>4. CASE ~(StillQueued(x) /\ Placements(req[x]) # {})
  <2>1. UNCHANGED <<status, req, deployStarted, replaces, forced, pc>>
    BY <1>1, <1>4
  <2> QED BY <2>1, QuietInd
<1> QED BY <1>3, <1>4

\* Every step of a job that does not write its row.
LEMMA JobMoveStepsInd ==
  ASSUME IndInv, TypeOK', NEW d \in Deployments,
         \/ Dispatch(d) \/ JobCancelledBeforeStart(d) \/ JobRejected(d)
         \/ JobGate(d) \/ JobCommandDone(d) \/ JobLastCommand(d) \/ JobFails(d)
         \/ JobCheckTerminal(d) \/ JobSelectBuildServer(d) \/ JobAdvance(d)
  PROVE  IndInv'
<1>1. UNCHANGED <<status, req, deployStarted, replaces, forced>>
  BY DEF Dispatch, JobCancelledBeforeStart, JobRejected, JobGate, JobCommandDone,
         JobLastCommand, JobFails, JobCheckTerminal, JobSelectBuildServer, JobAdvance,
         rowVars, histVars
<1>2. status[d] \in Statuses
  BY DEF IndInv, TypeOK
<1>3. pc[d] \notin {"none", "starting"} => status[d] \in {"in_progress"} \cup Terminal
  BY <1>2 DEF IndInv, JobRow, Statuses, Active, Terminal
<1>4. PICK to \in JobStates \ {"none", "starting"} :
        /\ pc' = [pc EXCEPT ![d] = to]
        /\ status[d] \in {"in_progress"} \cup Terminal
        /\ status[d] = "in_progress" => to \notin {"advancing", "done"}
        /\ status[d] \in {"finished", "failed"} => to \in {"advancing", "done"}
        /\ to \in {"changing", "completing", "writeFinished"} => deployStarted[d]
        /\ to = "gate" => deployStarted[d] \/ status[d] = "cancelled"
  <2> USE DEF IndInv, JobRow, DeployMarked, Executing, JobStates, Terminal, GoTo
  <2>1. CASE Dispatch(d)
    <3>1. status[d] \in {"in_progress", "cancelled"}
      BY <1>2, <2>1 DEF Dispatch, Statuses, Active
    <3> QED BY <2>1, <3>1 DEF Dispatch
  <2>2. CASE JobCancelledBeforeStart(d)
    BY <2>2 DEF JobCancelledBeforeStart
  <2>3. CASE JobRejected(d)
    <3>1. status[d] = "in_progress" /\ pc' = [pc EXCEPT ![d] = "failing"]
      BY <1>3, <2>3 DEF JobRejected
    <3> WITNESS "failing" \in JobStates \ {"none", "starting"}
    <3> QED BY <3>1
  <2>4. CASE JobGate(d)
    BY <1>3, <2>4 DEF JobGate
  <2>5. CASE JobCommandDone(d)
    BY <1>3, <2>5 DEF JobCommandDone
  <2>6. CASE JobLastCommand(d)
    BY <1>3, <2>6 DEF JobLastCommand
  <2>7. CASE JobFails(d)
    BY <1>3, <2>7, ZenonT(40) DEF JobFails
  <2>8. CASE JobCheckTerminal(d)
    BY <1>3, <2>8 DEF JobCheckTerminal
  <2>9. CASE JobSelectBuildServer(d)
    <3>1. status[d] \in {"in_progress", "cancelled"}
      BY <1>3, <2>9 DEF JobSelectBuildServer
    <3>2. \/ status[d] = "cancelled" /\ pc' = [pc EXCEPT ![d] = "failing"]
          \/ status[d] = "in_progress" /\ pc' = [pc EXCEPT ![d] = "building"]
      BY <2>9, <3>1 DEF JobSelectBuildServer
    <3> QED BY <3>2
  <2>10. CASE JobAdvance(d)
    <3>1. status[d] \in Terminal /\ pc' = [pc EXCEPT ![d] = "done"]
      BY <1>3, <2>10 DEF JobAdvance
    <3> WITNESS "done" \in JobStates \ {"none", "starting"}
    <3> QED BY <3>1
  <2> QED BY <2>1, <2>2, <2>3, <2>4, <2>5, <2>6, <2>7, <2>8, <2>9, <2>10
<1> QED BY <1>1, <1>4, JobMovesInd

\* The claim of handle(): a waiting job whose row is not cancelled finds it in
\* progress, so its update changes nothing.
LEMMA JobClaimInd ==
  ASSUME IndInv, TypeOK', NEW d \in Deployments, JobClaim(d)
  PROVE  IndInv'
<1>1. /\ pc[d] = "waiting" /\ pc' = [pc EXCEPT ![d] = "selecting"]
      /\ status[d] # "cancelled"
      /\ status' = [status EXCEPT ![d] = "in_progress"]
      /\ UNCHANGED <<req, deployStarted, replaces, forced>>
  BY DEF JobClaim, GoTo, histVars
<1>2. status[d] = "in_progress"
  BY <1>1 DEF IndInv, TypeOK, JobRow, Statuses, Active, Terminal
<1>3. status' = status
  BY <1>1, <1>2 DEF IndInv, TypeOK
<1> QED BY <1>1, <1>2, <1>3, JobMovesInd DEF JobStates

\* startDeployPhase: a row that an open admission supersedes is locked, and one
\* that was superseded is no longer in progress.
LEMMA JobStartDeployInd ==
  ASSUME IndInv, TypeOK', NEW d \in Deployments, JobStartDeploy(d)
  PROVE  IndInv'
<1> USE DEF IndInv
<1>1. /\ pc[d] = "building" /\ pc' = [pc EXCEPT ![d] = "gate"]
      /\ deployStarted' = [deployStarted EXCEPT ![d] = @ \/ status[d] = "in_progress"]
      /\ UNCHANGED <<status, req, replaces, forced>>
      /\ Writable(d)
  BY DEF JobStartDeploy, GoTo, histVars
<1>2. status[d] \in {"in_progress", "cancelled"}
  BY <1>1 DEF TypeOK, JobRow, Statuses, Active, Terminal
<1>3. JobRow'
  BY <1>1, <1>2 DEF TypeOK, JobRow, Executing, JobStates
<1>4. DeployMarked'
  BY <1>1, <1>2 DEF TypeOK, DeployMarked
<1>5. SupersededRows'
  <2>1. \A e \in Deployments : d \in replaces[e] => status[d] = "cancelled"
    BY <1>1, <1>2 DEF SupersededRows, Writable, InFlight, WithStatus, Terminal
  <2> QED BY <1>1, <2>1 DEF TypeOK, SupersededRows
<1>6. OneOccupant'
  <2>1. \A e \in Deployments : (Occupies(e)' <=> Occupies(e)) /\ (Regular(e)' <=> Regular(e))
    BY <1>1, <1>2 DEF TypeOK, Occupies, Regular
  <2>2. InFlight' = InFlight
    BY <1>1 DEF InFlight, WithStatus
  <2> QED BY <1>1, <2>1, <2>2 DEF OneOccupant
<1> QED BY <1>3, <1>4, <1>5, <1>6

\* The writes that end a row: the job's own, a failed dispatch and a cancel.
LEMMA EndingStepsInd ==
  ASSUME IndInv, TypeOK', NEW d \in Deployments,
         JobWrite(d) \/ DispatchFails(d) \/ ApiCancel(d) \/ UiCancel(d)
  PROVE  IndInv'
<1>1. status[d] \in Statuses
  BY DEF IndInv, TypeOK
<1>2. CASE JobWrite(d)
  <2>1. PICK st \in {"finished", "failed"} : status' = [status EXCEPT ![d] = st]
    BY <1>2 DEF JobWrite
  <2>2. /\ pc[d] \in {"writeFinished", "writeFailed"}
        /\ pc' = [pc EXCEPT ![d] = "advancing"]
        /\ UNCHANGED <<req, deployStarted, replaces, forced>> /\ Writable(d)
    BY <1>2 DEF JobWrite, GoTo, histVars
  <2>3. status[d] \in Active \cup Terminal
    BY <1>1, <2>2 DEF IndInv, JobRow, Statuses
  <2> QED BY <2>1, <2>2, <2>3, RowEndsInd DEF Terminal
<1>3. CASE DispatchFails(d) /\ status[d] = "in_progress"
  <2>1. /\ status' = [status EXCEPT ![d] = "failed"]
        /\ pc' = [pc EXCEPT ![d] = "advancing"]
        /\ UNCHANGED <<req, deployStarted, replaces, forced>> /\ Writable(d)
    BY <1>3 DEF DispatchFails, histVars
  <2> QED BY <1>3, <2>1, RowEndsInd DEF Active, Terminal
<1>4. CASE DispatchFails(d) /\ status[d] # "in_progress"
  <2>1. /\ pc[d] = "starting" /\ status[d] # "uncommitted"
        /\ pc' = [pc EXCEPT ![d] = "done"]
        /\ UNCHANGED <<status, req, deployStarted, replaces, forced>>
    BY <1>4 DEF DispatchFails, histVars
  <2>2. status[d] = "cancelled"
    BY <1>1, <1>4, <2>1 DEF IndInv, JobRow, Statuses, Active, Terminal
  <2> QED BY <2>1, <2>2, JobMovesInd DEF JobStates, Terminal
<1>5. CASE ApiCancel(d) \/ UiCancel(d)
  <2>1. /\ status' = [status EXCEPT ![d] = "cancelled"] /\ pc' = pc
        /\ UNCHANGED <<req, deployStarted, replaces, forced>> /\ Writable(d)
        /\ status[d] \in Active \cup Terminal
    BY <1>5 DEF ApiCancel, UiCancel, CancelRow, histVars
  <2> QED BY <2>1, RowEndsInd DEF Terminal
<1> QED BY <1>2, <1>3, <1>4, <1>5

\* The user's force start checks only that the row is still queued.
LEMMA ForceStartInd ==
  ASSUME IndInv, TypeOK', NEW d \in Deployments, ForceStart(d)
  PROVE  IndInv'
BY StartRowInd DEF ForceStart, StillQueued

\* Every operation of the queue preserves the invariant.
LEMMA NextInd == IndInv /\ [Next]_vars => IndInv'
<1> SUFFICES ASSUME IndInv, [Next]_vars PROVE IndInv'
  OBVIOUS
<1>1. TypeOK'
  BY NextType DEF IndInv
<1>2. ASSUME NEW d \in Deployments, RunCleanup(d) \/ CancelAdvance(d) PROVE IndInv'
  BY <1>1, <1>2, QuietInd DEF RunCleanup, CancelAdvance, rowVars, histVars
<1>3. CASE UNCHANGED vars
  BY <1>1, <1>3, QuietInd DEF vars, rowVars, histVars, procVars
<1> QED
  BY <1>1, <1>2, <1>3, AdmitBeginInd, AdmitCommitInd, ForceStartInd, PassStepInd,
     JobMoveStepsInd, JobClaimInd, JobStartDeployInd, EndingStepsInd
  DEF Next, JobStep

\* The inductive invariant holds in every state of the queue.
THEOREM Invariance == Spec => []IndInv
<1> QED BY InitInd, NextInd, PTL DEF Spec

\* The per-application limit of start_queued_deployment and of the admission: two
\* deployments of one application and pull request that respect the limits are
\* never in progress together.
THEOREM OneRegularPerTargetHolds == Spec => []OneRegularPerTarget
<1>1. IndInv => OneRegularPerTarget
  BY DEF IndInv, OneOccupant, Occupies, OneRegularPerTarget, WithStatus
<1> QED BY <1>1, Invariance, PTL

\* A row in progress always has a job that will end it: no operation leaves a row
\* that holds a build slot without one.
THEOREM NoLeakedSlotHolds == Spec => []NoLeakedSlot
<1>1. IndInv => NoLeakedSlot
  BY DEF IndInv, JobRow, NoLeakedSlot, WithStatus
<1> QED BY <1>1, Invariance, PTL

\* The update of startDeployPhase and the one of cancel_superseded_deployments
\* exclude each other: a superseded deployment never changes containers.
THEOREM SupersededNeverDeploysHolds == Spec => []SupersededNeverDeploys
<1>1. IndInv => SupersededNeverDeploys
  BY DEF IndInv, TypeOK, SupersededRows, DeployMarked, SupersededNeverDeploys
<1> QED BY <1>1, Invariance, PTL

\* Two deployments of one target change its containers together only when one was
\* forced, skipped the checks or was cancelled while its last command ran.
THEOREM ExclusiveChangeHolds == Spec => []ExclusiveChange
<1>1. ASSUME IndInv, NEW d \in Deployments, pc[d] = "changing"
      PROVE  status[d] \in {"in_progress", "cancelled"}
  BY <1>1 DEF IndInv, TypeOK, JobRow, Statuses, Active, Terminal
<1>2. IndInv => ExclusiveChange
  BY <1>1 DEF IndInv, OneOccupant, Occupies, ExclusiveChange
<1> QED BY <1>2, Invariance, PTL

\* The job of a deployment is started at most once, whichever of the admission,
\* the passes and the force starts get to it.
THEOREM StartedOnceHolds == Spec => StartedOnce
<1>1. IndInv /\ [Next]_vars =>
        [\A d \in Deployments :
           pc[d] # "starting" /\ pc'[d] = "starting" => pc[d] = "none"]_vars
  <2> SUFFICES ASSUME IndInv, Next, NEW e \in Deployments,
                      pc[e] # "starting", pc'[e] = "starting"
               PROVE  pc[e] = "none"
    OBVIOUS
  <2> USE DEF IndInv, TypeOK, JobRow, JobStates
  <2>1. PICK d \in Deployments :
          \/ \E r \in Requests : AdmitBegin(d, r)
          \/ AdmitCommit(d) \/ ForceStart(d) \/ JobStep(d)
          \/ ApiCancel(d) \/ UiCancel(d) \/ RunCleanup(d) \/ CancelAdvance(d)
          \/ \E p \in Passes : PassStep(d, p)
    BY DEF Next
  <2>2. CASE \E r \in Requests : AdmitBegin(d, r)
    BY <2>2 DEF AdmitBegin
  <2>3. CASE ForceStart(d)
    BY <2>3 DEF ForceStart, StartRow, StillQueued
  <2>4. CASE JobStep(d)
    <3>1. \E to \in JobStates \ {"starting"} : pc' = [pc EXCEPT ![d] = to]
      BY <2>4 DEF JobStep, Dispatch, DispatchFails, JobCancelledBeforeStart,
           JobRejected, JobClaim, JobSelectBuildServer, JobStartDeploy, JobGate,
           JobCommandDone, JobLastCommand, JobFails, JobCheckTerminal, JobWrite,
           JobAdvance, GoTo
    <3> QED BY <3>1
  <2>5. CASE AdmitCommit(d) \/ ApiCancel(d) \/ UiCancel(d) \/ RunCleanup(d)
             \/ CancelAdvance(d)
    BY <2>5 DEF AdmitCommit, ApiCancel, UiCancel, CancelRow, RunCleanup, CancelAdvance
  <2>6. CASE \E p \in Passes : PassStep(d, p)
    <3>1. PICK p \in Passes : PassStep(d, p)
      BY <2>6
    <3>2. PICK x \in todo[d][p] :
            IF StillQueued(x) /\ Placements(req[x]) # {}
            THEN \E b \in Placements(req[x]) : StartRow(x, b, FALSE)
            ELSE UNCHANGED <<status, buildServer, forced, pc>>
      BY <3>1 DEF PassStep
    <3>3. x \in Deployments
      OBVIOUS
    <3> QED BY <3>2, <3>3 DEF StartRow, StillQueued
  <2> QED BY <2>1, <2>2, <2>3, <2>4, <2>5, <2>6
<1> QED BY <1>1, Invariance, PTL DEF Spec, StartedOnce
=============================================================================
