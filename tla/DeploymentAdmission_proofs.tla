--------------------- MODULE DeploymentAdmission_proofs ---------------------
(***************************************************************************)
(* Theorems about what queue_application_deployment checks before it adds  *)
(* a row: the limit of the server's queue and the commits that are already *)
(* deployed.  Both are reads that the commit may find outdated; the locks  *)
(* of the admission are why they are not.                                  *)
(***************************************************************************)
EXTENDS DeploymentQueue_proofs, FiniteSetTheorems

\* The rows that are active or will be when their admission commits.
Live == Active \cup {"uncommitted"}

\* The requests that may repeat an active deployment.
MayRepeat(r) == r.force \/ r.kind = "rollback" \/ r.nqa

WaitingAt(s) == {d \in WithStatus("queued") : req[d].server = s}

\* Ids are given in order.
RowsInOrder ==
  \A d, e \in Deployments : d < e /\ status[d] = "absent" => status[e] = "absent"

\* The duplicate check, for open admissions too.
LiveDuplicates ==
  \A d, e \in Deployments :
    /\ d < e /\ status[d] \in Live /\ status[e] \in Live
    /\ Target(req[d]) = Target(req[e]) /\ req[d].commit = req[e].commit
    => MayRepeat(req[e])

\* An open admission is the only one of its server, and while it decided to wait
\* the queue of that server keeps a place for it.
OpenAdmissions ==
  /\ \A d, e \in InFlight : d # e => req[d].server # req[e].server
  /\ \A d \in InFlight, s \in Servers :
       pc[d] = "none" /\ req[d].server = s => Cardinality(WaitingAt(s)) < QueueLimit[s]

AdmInv == RowsInOrder /\ LiveDuplicates /\ OpenAdmissions /\ QueueWithinLimit

\* A queue is finite and shrinks with its rows.
LEMMA QueueSize ==
  ASSUME NEW S, NEW W \in SUBSET Deployments, S \subseteq W
  PROVE  /\ IsFiniteSet(W)
         /\ Cardinality(S) \in Nat /\ Cardinality(W) \in Nat
         /\ Cardinality(S) <= Cardinality(W)
<1>1. IsFiniteSet(Deployments)
  BY BoundAssumption, FS_Interval DEF Deployments
<1>2. IsFiniteSet(W)
  BY <1>1, FS_Subset
<1> QED BY <1>2, FS_Subset, FS_CardinalityType

LEMMA InitAdm == Init => AdmInv
<1> SUFFICES ASSUME Init PROVE AdmInv
  OBVIOUS
<1>1. RowsInOrder /\ LiveDuplicates /\ OpenAdmissions
  BY DEF Init, RowsInOrder, LiveDuplicates, Live, Active, OpenAdmissions, InFlight,
         WithStatus
<1>2. ASSUME NEW s \in Servers
      PROVE  Cardinality({d \in WithStatus("queued") : req[d].server = s}) <= QueueLimit[s]
  <2>1. {d \in WithStatus("queued") : req[d].server = s} = {}
    BY DEF Init, WithStatus
  <2>2. QueueLimit[s] \in Nat
    BY ServerAssumption
  <2> QED BY <2>1, <2>2, FS_EmptySet
<1> QED BY <1>1, <1>2 DEF AdmInv, QueueWithinLimit

\* The admission checks the queue and the duplicates; whatever could change the
\* answer before its commit needs one of its locks.
LEMMA AdmitBeginAdm ==
  ASSUME TypeOK, JobRow, AdmInv, TypeOK',
         NEW d \in Deployments, NEW r \in Requests, AdmitBegin(d, r)
  PROVE  AdmInv'
<1> USE DEF AdmInv
<1>1. /\ status[d] = "absent"
      /\ \A e \in Deployments : e < d => status[e] # "absent"
      /\ status' = [status EXCEPT ![d] = "uncommitted"]
      /\ req' = [req EXCEPT ![d] = r]
      /\ LocksFree(r) /\ ~QueueFull(r)
      /\ AlreadyQueued(r) => MayRepeat(r)
      /\ \A e \in Deployments : e # d => pc'[e] = pc[e]
  BY DEF AdmitBegin, MayRepeat, TypeOK
<1>2. RowsInOrder'
  BY <1>1 DEF RowsInOrder, TypeOK, Deployments
<1>3. LiveDuplicates'
  <2> SUFFICES ASSUME NEW e \in Deployments, NEW f \in Deployments, e < f,
                      status'[e] \in Live, status'[f] \in Live,
                      Target(req'[e]) = Target(req'[f]), req'[e].commit = req'[f].commit
               PROVE  MayRepeat(req'[f])
    BY DEF LiveDuplicates
  <2>1. CASE f = d
    <3>1. status'[e] = status[e] /\ req'[e] = req[e] /\ req'[f] = r
      BY <1>1, <2>1 DEF TypeOK, Deployments
    <3>2. status[e] # "uncommitted"
      BY <1>1, <3>1, SameTargetSameApp DEF LocksFree, InFlight, WithStatus
    <3> QED BY <1>1, <3>1, <3>2 DEF AlreadyQueued, Live
  <2>2. CASE e = d
    <3>1. status[f] = "absent" /\ status'[f] = status[f]
      BY <1>1, <2>2 DEF RowsInOrder, TypeOK, Deployments
    <3> QED BY <3>1 DEF Live, Active
  <2>3. CASE e # d /\ f # d
    BY <1>1, <2>3 DEF LiveDuplicates, TypeOK
  <2> QED BY <2>1, <2>2, <2>3
<1>4. \A s \in Servers : WaitingAt(s)' = WaitingAt(s)
  BY <1>1 DEF WaitingAt, WithStatus, TypeOK
<1>5. OpenAdmissions'
  <2>1. \A e \in Deployments : (e \in InFlight)' <=> (e = d \/ e \in InFlight)
    BY <1>1 DEF TypeOK, InFlight, WithStatus
  <2>2. \A e \in InFlight : req[e].server # r.server
    BY <1>1 DEF LocksFree, LockedServers
  <2>3. Cardinality(WaitingAt(r.server)) < QueueLimit[r.server]
    <3>1. Cardinality(WaitingAt(r.server)) \in Nat
      BY QueueSize DEF WaitingAt, WithStatus
    <3> QED BY <1>1, <3>1, RequestFields, ServerAssumption DEF QueueFull, WaitingAt
  <2>4. req'[d] = r /\ \A e \in Deployments : e # d => req'[e] = req[e]
    BY <1>1 DEF TypeOK
  <2>5. ASSUME NEW e \in InFlight', NEW f \in InFlight', e # f
        PROVE  req'[e].server # req'[f].server
    BY <2>1, <2>2, <2>4, <2>5 DEF OpenAdmissions, InFlight, WithStatus
  <2>6. ASSUME NEW e \in InFlight', NEW s \in Servers, pc'[e] = "none", req'[e].server = s
        PROVE  Cardinality(WaitingAt(s)') < QueueLimit[s]
    <3>1. e \in Deployments /\ WaitingAt(s)' = WaitingAt(s)
      BY <1>4, <2>6 DEF InFlight, WithStatus
    <3>2. CASE e = d
      BY <2>3, <2>4, <2>6, <3>1, <3>2
    <3>3. CASE e # d
      BY <1>1, <2>1, <2>4, <2>6, <3>1, <3>3 DEF OpenAdmissions
    <3> QED BY <3>2, <3>3
  <2> QED BY <2>5, <2>6 DEF OpenAdmissions
<1>6. QueueWithinLimit'
  BY <1>4 DEF QueueWithinLimit, WaitingAt
<1> QED BY <1>2, <1>3, <1>5, <1>6

\* The commit adds at most its own row to the queue of its own server, where a place
\* was kept for it.
LEMMA AdmitCommitAdm ==
  ASSUME TypeOK, JobRow, AdmInv, TypeOK', SupersededRows,
         NEW d \in Deployments, AdmitCommit(d)
  PROVE  AdmInv'
<1> USE DEF AdmInv
<1>1. /\ status[d] = "uncommitted"
      /\ status' = [x \in Deployments |->
             IF x = d THEN IF pc[d] = "starting" THEN "in_progress" ELSE "queued"
             ELSE IF x \in replaces[d] THEN "cancelled" ELSE status[x]]
      /\ req' = req /\ pc' = pc
  BY DEF AdmitCommit
<1>2. \A x \in replaces[d] : x \in Deployments /\ status[x] \in Active \cup Terminal
  BY DEF SupersededRows, TypeOK
<1>3. ASSUME NEW x \in Deployments
      PROVE  /\ status'[x] = "absent" <=> status[x] = "absent"
             /\ status'[x] \in Live => status[x] \in Live
             /\ status'[x] = "uncommitted" => status[x] = "uncommitted" /\ x # d
             /\ status'[x] = "queued" => status[x] = "queued" \/ (x = d /\ pc[d] # "starting")
  BY <1>1, <1>2 DEF Live, Active, Terminal
<1>4. RowsInOrder' /\ LiveDuplicates'
  BY <1>1, <1>3 DEF RowsInOrder, LiveDuplicates
<1>5. ASSUME NEW s \in Servers, s # req[d].server \/ pc[d] = "starting"
      PROVE  /\ Cardinality(WaitingAt(s)') \in Nat /\ Cardinality(WaitingAt(s)) \in Nat
             /\ Cardinality(WaitingAt(s)') <= Cardinality(WaitingAt(s))
  <2>1. WaitingAt(s)' \subseteq WaitingAt(s)
    BY <1>1, <1>3, <1>5 DEF WaitingAt, WithStatus
  <2> QED BY <2>1, QueueSize DEF WaitingAt, WithStatus
<1>6. ASSUME NEW s \in Servers, s = req[d].server, pc[d] # "starting"
      PROVE  Cardinality(WaitingAt(s)') <= QueueLimit[s]
  <2> DEFINE W == WaitingAt(s)
  <2>1. d \in InFlight /\ pc[d] = "none"
    BY <1>1, <1>6 DEF JobRow, InFlight, WithStatus
  <2>2. Cardinality(W) < QueueLimit[s]
    BY <1>6, <2>1 DEF OpenAdmissions
  <2>3. W' \subseteq W \cup {d}
    BY <1>1, <1>3 DEF WaitingAt, WithStatus
  <2>4. IsFiniteSet(W) /\ Cardinality(W) \in Nat
    BY QueueSize DEF WaitingAt, WithStatus
  <2>5. d \notin W
    BY <1>1 DEF WaitingAt, WithStatus
  <2>6. Cardinality(W \cup {d}) = Cardinality(W) + 1
    BY <2>4, <2>5, FS_AddElement
  <2>7. Cardinality(W') \in Nat /\ Cardinality(W') <= Cardinality(W \cup {d})
    BY <2>3, QueueSize DEF WaitingAt, WithStatus
  <2>8. QueueLimit[s] \in Nat
    BY ServerAssumption
  <2> QED BY <2>2, <2>4, <2>6, <2>7, <2>8
<1>7. QueueWithinLimit'
  <2> SUFFICES ASSUME NEW s \in Servers
               PROVE  Cardinality(WaitingAt(s)') <= QueueLimit[s]
    BY DEF QueueWithinLimit, WaitingAt
  <2>1. CASE s = req[d].server /\ pc[d] # "starting"
    BY <1>1, <1>6, <2>1
  <2>2. CASE s # req[d].server \/ pc[d] = "starting"
    <3>1. Cardinality(WaitingAt(s)) <= QueueLimit[s] /\ QueueLimit[s] \in Nat
      BY ServerAssumption DEF QueueWithinLimit, WaitingAt
    <3> QED BY <1>5, <2>2, <3>1
  <2> QED BY <2>1, <2>2
<1>8. OpenAdmissions'
  <2>1. ASSUME NEW e \in InFlight'
        PROVE  e \in InFlight /\ e # d
    BY <1>3 DEF InFlight, WithStatus
  <2>2. ASSUME NEW e \in InFlight', NEW s \in Servers, pc'[e] = "none", req[e].server = s
        PROVE  Cardinality(WaitingAt(s)') < QueueLimit[s]
    <3>1. d \in InFlight
      BY <1>1 DEF InFlight, WithStatus
    <3>2. s # req[d].server
      BY <2>1, <2>2, <3>1 DEF OpenAdmissions
    <3>3. Cardinality(WaitingAt(s)) < QueueLimit[s]
      BY <1>1, <2>1, <2>2 DEF OpenAdmissions
    <3>4. QueueLimit[s] \in Nat
      BY ServerAssumption
    <3> QED BY <1>5, <2>1, <3>2, <3>3, <3>4
  <2> QED BY <1>1, <2>1, <2>2 DEF OpenAdmissions
<1> QED BY <1>4, <1>7, <1>8

\* What every other step does to the rows: none becomes active or queued again, and
\* an open admission is not touched.
RowsGoOn ==
  /\ req' = req
  /\ \A x \in Deployments :
       /\ status'[x] = "absent" <=> status[x] = "absent"
       /\ status'[x] \in Live => status[x] \in Live
       /\ status'[x] = "queued" => status[x] = "queued"
       /\ status'[x] = "uncommitted" => status[x] = "uncommitted"
       /\ pc'[x] = "none" => pc[x] = "none"

\* Such a step keeps what the admissions established.
LEMMA RowsGoOnAdm ==
  ASSUME TypeOK, AdmInv, RowsGoOn
  PROVE  AdmInv'
<1> USE DEF AdmInv, RowsGoOn
<1>1. RowsInOrder' /\ LiveDuplicates'
  BY DEF RowsInOrder, LiveDuplicates
<1>2. ASSUME NEW s \in Servers
      PROVE  /\ Cardinality(WaitingAt(s)') \in Nat /\ Cardinality(WaitingAt(s)) \in Nat
             /\ Cardinality(WaitingAt(s)') <= Cardinality(WaitingAt(s))
  <2>1. WaitingAt(s)' \subseteq WaitingAt(s)
    BY DEF WaitingAt, WithStatus
  <2> QED BY <2>1, QueueSize DEF WaitingAt, WithStatus
<1>3. QueueWithinLimit'
  <2> SUFFICES ASSUME NEW s \in Servers
               PROVE  Cardinality(WaitingAt(s)') <= QueueLimit[s]
    BY DEF QueueWithinLimit, WaitingAt
  <2>1. Cardinality(WaitingAt(s)) <= QueueLimit[s] /\ QueueLimit[s] \in Nat
    BY ServerAssumption DEF QueueWithinLimit, WaitingAt
  <2> QED BY <1>2, <2>1
<1>4. OpenAdmissions'
  <2>1. ASSUME NEW e \in InFlight'
        PROVE  e \in InFlight /\ (pc'[e] = "none" => pc[e] = "none")
    BY DEF InFlight, WithStatus
  <2>2. ASSUME NEW e \in InFlight', NEW s \in Servers, pc'[e] = "none", req[e].server = s
        PROVE  Cardinality(WaitingAt(s)') < QueueLimit[s]
    <3>1. Cardinality(WaitingAt(s)) < QueueLimit[s] /\ QueueLimit[s] \in Nat
      BY <2>1, <2>2, ServerAssumption DEF OpenAdmissions
    <3> QED BY <1>2, <3>1
  <2> QED BY <2>1, <2>2 DEF OpenAdmissions
<1> QED BY <1>1, <1>3, <1>4

\* The start of a queued row, by a pass or by force.
LEMMA StartRowGoesOn ==
  ASSUME IndInv, NEW x \in Deployments, NEW b, NEW force, status[x] = "queued",
         StartRow(x, b, force), req' = req
  PROVE  RowsGoOn
  BY DEF IndInv, TypeOK, StartRow, RowsGoOn, Live, Active

\* Every step except those of the admission.
LEMMA OtherStepsGoOn ==
  ASSUME IndInv, NEW d \in Deployments,
         \/ ForceStart(d) \/ JobStep(d) \/ ApiCancel(d) \/ UiCancel(d)
         \/ RunCleanup(d) \/ CancelAdvance(d) \/ \E p \in Passes : PassStep(d, p)
  PROVE  RowsGoOn
<1>1. CASE ForceStart(d)
  BY <1>1, StartRowGoesOn DEF ForceStart, StillQueued
<1>2. CASE \E p \in Passes : PassStep(d, p)
  <2>0. PICK p \in Passes : PassStep(d, p)
    BY <1>2
  <2>1. PICK x \in todo[d][p] :
          /\ IF StillQueued(x) /\ Placements(req[x]) # {}
             THEN \E b \in Placements(req[x]) : StartRow(x, b, FALSE)
             ELSE UNCHANGED <<status, buildServer, forced, pc>>
          /\ req' = req
    BY <2>0 DEF PassStep
  <2>2. x \in Deployments
    BY DEF IndInv, TypeOK
  <2>3. CASE UNCHANGED <<status, pc>>
    BY <2>1, <2>3 DEF RowsGoOn
  <2> QED BY <2>1, <2>2, <2>3, StartRowGoesOn DEF StillQueued
<1>3. CASE ApiCancel(d) \/ UiCancel(d)
  <2>1. /\ status' = [status EXCEPT ![d] = "cancelled"] /\ pc' = pc /\ req' = req
        /\ status[d] \in Active \cup Terminal
    BY <1>3 DEF ApiCancel, UiCancel, CancelRow
  <2> QED BY <2>1 DEF IndInv, TypeOK, RowsGoOn, Live, Active, Terminal
<1>4. CASE RunCleanup(d) \/ CancelAdvance(d)
  BY <1>4 DEF RunCleanup, CancelAdvance, RowsGoOn, rowVars, histVars
<1>5. CASE DispatchFails(d)
  <2>1. /\ \E to \in {"advancing", "done"} : pc' = [pc EXCEPT ![d] = to]
        /\ \/ status' = [status EXCEPT ![d] = "failed"] /\ status[d] = "in_progress"
           \/ status' = status
        /\ req' = req
    BY <1>5 DEF DispatchFails
  <2> QED BY <2>1 DEF IndInv, TypeOK, RowsGoOn, Live, Active
<1>6. CASE JobClaim(d)
  <2>1. /\ pc[d] = "waiting" /\ pc' = [pc EXCEPT ![d] = "selecting"]
        /\ status[d] # "cancelled"
        /\ status' = [status EXCEPT ![d] = "in_progress"] /\ req' = req
    BY <1>6 DEF JobClaim, GoTo
  <2>2. status[d] = "in_progress"
    BY <2>1 DEF IndInv, TypeOK, JobRow, Statuses, Active, Terminal
  <2> QED BY <2>1, <2>2 DEF IndInv, TypeOK, RowsGoOn
<1>7. CASE JobWrite(d)
  <2>1. /\ \E to \in {"finished", "failed"} : status' = [status EXCEPT ![d] = to]
        /\ pc[d] \in {"writeFinished", "writeFailed"}
        /\ pc' = [pc EXCEPT ![d] = "advancing"] /\ req' = req
    BY <1>7 DEF JobWrite, GoTo
  <2>2. status[d] \in Statuses \ {"absent", "uncommitted", "queued"}
    BY <2>1 DEF IndInv, TypeOK, JobRow
  <2> QED BY <2>1, <2>2 DEF IndInv, TypeOK, RowsGoOn, Live, Active
<1>8. CASE \/ Dispatch(d) \/ JobCancelledBeforeStart(d) \/ JobRejected(d)
           \/ JobSelectBuildServer(d) \/ JobStartDeploy(d) \/ JobGate(d)
           \/ JobCommandDone(d) \/ JobLastCommand(d) \/ JobFails(d)
           \/ JobCheckTerminal(d) \/ JobAdvance(d)
  <2>1. /\ \E to \in JobStates \ {"none"} : pc' = [pc EXCEPT ![d] = to]
        /\ status' = status /\ req' = req
    BY <1>8 DEF Dispatch, JobCancelledBeforeStart, JobRejected, JobSelectBuildServer,
         JobStartDeploy, JobGate, JobCommandDone, JobLastCommand, JobFails,
         JobCheckTerminal, JobAdvance, GoTo, JobStates, rowVars
  <2> QED BY <2>1 DEF IndInv, TypeOK, RowsGoOn
<1> QED BY <1>1, <1>2, <1>3, <1>4, <1>5, <1>6, <1>7, <1>8 DEF JobStep

\* Every operation preserves what the admissions established.
LEMMA NextAdm == IndInv /\ AdmInv /\ [Next]_vars => AdmInv'
<1> SUFFICES ASSUME IndInv, AdmInv, [Next]_vars PROVE AdmInv'
  OBVIOUS
<1>1. TypeOK' /\ TypeOK /\ JobRow /\ SupersededRows
  BY NextType DEF IndInv
<1>2. ASSUME NEW d \in Deployments, NEW r \in Requests, AdmitBegin(d, r) PROVE AdmInv'
  BY <1>1, <1>2, AdmitBeginAdm
<1>3. ASSUME NEW d \in Deployments, AdmitCommit(d) PROVE AdmInv'
  BY <1>1, <1>3, AdmitCommitAdm
<1>4. ASSUME NEW d \in Deployments,
             \/ ForceStart(d) \/ JobStep(d) \/ ApiCancel(d) \/ UiCancel(d)
             \/ RunCleanup(d) \/ CancelAdvance(d) \/ \E p \in Passes : PassStep(d, p)
      PROVE  AdmInv'
  BY <1>1, <1>4, OtherStepsGoOn, RowsGoOnAdm
<1>5. CASE UNCHANGED vars
  <2>1. RowsGoOn
    BY <1>5 DEF RowsGoOn, vars, rowVars, procVars
  <2> QED BY <1>1, <2>1, RowsGoOnAdm
<1> QED BY <1>2, <1>3, <1>4, <1>5 DEF Next

-----------------------------------------------------------------------------
\* The queue of a server never exceeds deployment_queue_limit, although the admission
\* counts the rows before it adds its own (queue_application_deployment).
THEOREM QueueWithinLimitHolds == Spec => []QueueWithinLimit
<1>1. Init => AdmInv
  BY InitAdm
<1>2. IndInv /\ IndInv' /\ AdmInv /\ [Next]_vars => AdmInv'
  BY NextAdm
<1>3. AdmInv => QueueWithinLimit
  BY DEF AdmInv
<1> QED BY <1>1, <1>2, <1>3, Invariance, PTL DEF Spec

\* Two active deployments of one commit for one target mean that the newer request
\* asked for it, whatever happens between the check and the commit.
THEOREM DuplicateOnlyOnRequestHolds == Spec => []DuplicateOnlyOnRequest
<1>1. Init => AdmInv
  BY InitAdm
<1>2. IndInv /\ IndInv' /\ AdmInv /\ [Next]_vars => AdmInv'
  BY NextAdm
<1>3. AdmInv => DuplicateOnlyOnRequest
  BY DEF AdmInv, LiveDuplicates, DuplicateOnlyOnRequest, Live, MayRepeat
<1> QED BY <1>1, <1>2, <1>3, Invariance, PTL DEF Spec
=============================================================================
