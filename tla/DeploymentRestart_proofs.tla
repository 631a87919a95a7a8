----------------------- MODULE DeploymentRestart_proofs -----------------------
(***************************************************************************)
(* Theorems about the deployment queue when processes die: what the rows   *)
(* and jobs are after any number of crashes, and which ended deployments   *)
(* can run again.                                                          *)
(***************************************************************************)
EXTENDS DeploymentRestart, DeploymentQueue_proofs

LEMMA InitRestartType == RestartInit => RestartTypeOK
  BY InitType, CrashAssumption DEF RestartInit, RestartTypeOK

LEMMA CrashType == ASSUME crashes \in 0..MaxCrashes, Crash PROVE crashes' \in 0..MaxCrashes
  BY CrashAssumption DEF Crash

LEMMA NextRestartType == RestartTypeOK /\ [RestartNext]_allVars => RestartTypeOK'
<1> SUFFICES ASSUME RestartTypeOK, [RestartNext]_allVars PROVE RestartTypeOK'
  OBVIOUS
<1> USE DEF RestartTypeOK
<1>1. CASE Next /\ UNCHANGED crashVars
  BY <1>1, NextType DEF crashVars
<1>2. CASE UNCHANGED allVars
  BY <1>2, NextType DEF allVars, crashVars
<1>3. ASSUME NEW d \in Deployments, StarterDies(d) PROVE RestartTypeOK'
  <2>1. TypeOK'
    BY <1>3 DEF StarterDies, TypeOK, JobStates, rowVars, histVars
  <2> QED BY <1>3, <2>1, CrashType DEF StarterDies
<1>4. ASSUME NEW d \in Deployments, WorkerDies(d) PROVE RestartTypeOK'
  <2>1. todo' \in [Deployments -> [Passes -> SUBSET Deployments]]
    BY <1>4 DEF WorkerDies, TypeOK, Passes
  <2>2. TypeOK'
    BY <1>4, <2>1 DEF WorkerDies, TypeOK, JobStates, rowVars, histVars
  <2> QED BY <1>4, <2>2, CrashType DEF WorkerDies
<1>5. ASSUME NEW d \in Deployments, Redeliver(d) PROVE RestartTypeOK'
  <2>1. TypeOK'
    BY <1>5 DEF Redeliver, TypeOK, JobStates, rowVars, histVars
  <2> QED BY <1>5, <2>1 DEF Redeliver
<1>6. CASE Restart
  <2>1. status' \in [Deployments -> Statuses]
    BY <1>6 DEF Restart, TypeOK, Statuses, Terminal
  <2>2. /\ buildServer' \in [Deployments -> Servers \cup {NoServer}]
        /\ replaces' \in [Deployments -> SUBSET Deployments]
        /\ overlooked' \in [Deployments -> SUBSET Oversights]
    BY <1>6 DEF Restart, TypeOK
  <2>3. pc' \in [Deployments -> JobStates]
    BY <1>6 DEF Restart, TypeOK, JobStates
  <2>4. /\ cancelPc' \in [Deployments -> {"idle", "jobQueued", "cleanup", "advancing"}]
        /\ todo' \in [Deployments -> [Passes -> SUBSET Deployments]]
    BY <1>6 DEF Restart, TypeOK
  <2>5. TypeOK'
    BY <1>6, <2>1, <2>2, <2>3, <2>4 DEF Restart, TypeOK
  <2>6. reserved' \subseteq Deployments /\ lost' = lost /\ Crash
    BY <1>6 DEF Restart
  <2> QED BY <2>5, <2>6, CrashType
<1> QED BY <1>1, <1>2, <1>3, <1>4, <1>5, <1>6 DEF RestartNext

\* Every variable keeps its type when requests, workers and Coolify itself die.
THEOREM RestartTypeCorrect == RestartSpec => []RestartTypeOK
<1>1. RestartInit => RestartTypeOK
  BY InitRestartType
<1>2. RestartTypeOK /\ [RestartNext]_allVars => RestartTypeOK'
  BY NextRestartType
<1> QED BY <1>1, <1>2, PTL DEF RestartSpec

-----------------------------------------------------------------------------
(* Ended deployments that run again.                                       *)

\* The job of a deployment that finished or failed is never dispatched again, and
\* waits in Redis only when a restart has failed the row meanwhile.
EndedJobs ==
  \A d \in Deployments :
    status[d] \in {"finished", "failed"} =>
      /\ pc[d] # "starting"
      /\ pc[d] = "waiting" => status[d] = "failed" /\ crashes > 0

\* What a step of the queue itself does to an ended row: it starts again only when
\* its job is claimed.
EndedRowsStay ==
  \A d \in Deployments :
    /\ status[d] \in Terminal /\ status'[d] = "in_progress"
         => pc[d] = "waiting" /\ status[d] # "cancelled"
    /\ status'[d] \in {"finished", "failed"} /\ pc'[d] \in {"starting", "waiting"}
         => status[d] = status'[d] /\ pc[d] \in {"starting", "waiting"}
            /\ (pc'[d] = "starting" => pc[d] = "starting")

LEMMA StartRowEnded ==
  ASSUME TypeOK, NEW x \in Deployments, NEW b, NEW force, status[x] = "queued",
         StartRow(x, b, force)
  PROVE  EndedRowsStay
  BY DEF TypeOK, StartRow, EndedRowsStay, Terminal

LEMMA NextEnded == TypeOK /\ [Next]_vars => EndedRowsStay
<1> SUFFICES ASSUME TypeOK, [Next]_vars PROVE EndedRowsStay
  OBVIOUS
<1>1. ASSUME NEW d \in Deployments, NEW r \in Requests, AdmitBegin(d, r) PROVE EndedRowsStay
  BY <1>1 DEF AdmitBegin, TypeOK, EndedRowsStay, Terminal
<1>2. ASSUME NEW d \in Deployments, AdmitCommit(d) PROVE EndedRowsStay
  BY <1>2 DEF AdmitCommit, TypeOK, EndedRowsStay, Terminal
<1>3. ASSUME NEW d \in Deployments, ForceStart(d) PROVE EndedRowsStay
  BY <1>3, StartRowEnded DEF ForceStart, StillQueued
<1>4. ASSUME NEW d \in Deployments, NEW p \in Passes, PassStep(d, p) PROVE EndedRowsStay
  <2>1. PICK x \in todo[d][p] :
          IF StillQueued(x) /\ Placements(req[x]) # {}
          THEN \E b \in Placements(req[x]) : StartRow(x, b, FALSE)
          ELSE UNCHANGED <<status, buildServer, forced, pc>>
    BY <1>4 DEF PassStep
  <2>2. x \in Deployments
    BY DEF TypeOK
  <2>3. CASE UNCHANGED <<status, pc>>
    BY <2>3 DEF EndedRowsStay, Terminal
  <2> QED BY <2>1, <2>2, <2>3, StartRowEnded DEF StillQueued
<1>5. ASSUME NEW d \in Deployments, ApiCancel(d) \/ UiCancel(d) PROVE EndedRowsStay
  <2>1. status' = [status EXCEPT ![d] = "cancelled"] /\ pc' = pc
    BY <1>5 DEF ApiCancel, UiCancel, CancelRow
  <2> QED BY <2>1 DEF TypeOK, EndedRowsStay, Terminal
<1>6. ASSUME NEW d \in Deployments, DispatchFails(d) PROVE EndedRowsStay
  BY <1>6 DEF DispatchFails, TypeOK, EndedRowsStay, Terminal
<1>7. ASSUME NEW d \in Deployments, JobClaim(d) PROVE EndedRowsStay
  BY <1>7 DEF JobClaim, GoTo, TypeOK, EndedRowsStay, Terminal
<1>8. ASSUME NEW d \in Deployments, JobWrite(d) PROVE EndedRowsStay
  BY <1>8 DEF JobWrite, GoTo, TypeOK, EndedRowsStay, Terminal
<1>9. ASSUME NEW d \in Deployments, Dispatch(d) PROVE EndedRowsStay
  BY <1>9 DEF Dispatch, GoTo, TypeOK, EndedRowsStay, Terminal, rowVars
<1>10. ASSUME NEW d \in Deployments,
              \/ JobCancelledBeforeStart(d) \/ JobRejected(d)
              \/ JobSelectBuildServer(d) \/ JobStartDeploy(d) \/ JobGate(d)
              \/ JobCommandDone(d) \/ JobLastCommand(d) \/ JobFails(d)
              \/ JobCheckTerminal(d) \/ JobAdvance(d)
       PROVE  EndedRowsStay
  <2>1. /\ \E to \in JobStates \ {"starting", "waiting"} : pc' = [pc EXCEPT ![d] = to]
        /\ status' = status
    BY <1>10 DEF JobCancelledBeforeStart, JobRejected, JobSelectBuildServer,
         JobStartDeploy, JobGate, JobCommandDone, JobLastCommand, JobFails,
         JobCheckTerminal, JobAdvance, GoTo, JobStates, rowVars
  <2> QED BY <2>1 DEF TypeOK, EndedRowsStay, Terminal
<1>11. ASSUME NEW d \in Deployments, RunCleanup(d) \/ CancelAdvance(d) PROVE EndedRowsStay
  BY <1>11 DEF RunCleanup, CancelAdvance, EndedRowsStay, Terminal, rowVars, histVars
<1>12. CASE UNCHANGED vars
  BY <1>12 DEF vars, rowVars, procVars, EndedRowsStay, Terminal
<1> QED BY <1>1, <1>2, <1>3, <1>4, <1>5, <1>6, <1>7, <1>8, <1>9, <1>10, <1>11, <1>12
        DEF Next, JobStep

LEMMA NextEndedJobs ==
  RestartTypeOK /\ EndedJobs /\ [RestartNext]_allVars => EndedJobs'
<1> SUFFICES ASSUME RestartTypeOK, EndedJobs, [RestartNext]_allVars PROVE EndedJobs'
  OBVIOUS
<1> USE DEF RestartTypeOK
<1>1. CASE [Next]_vars /\ UNCHANGED crashVars
  <2>1. EndedRowsStay /\ crashes' = crashes
    BY <1>1, NextEnded DEF crashVars
  <2> QED BY <2>1 DEF EndedJobs, EndedRowsStay
<1>2. ASSUME NEW d \in Deployments, StarterDies(d) \/ WorkerDies(d) \/ Redeliver(d)
      PROVE  EndedJobs'
  <2>1. /\ status' = status
        /\ \E to \in {"done", "failing"} : pc' = [pc EXCEPT ![d] = to]
        /\ crashes' >= crashes /\ crashes \in Nat /\ crashes' \in Nat
    BY <1>2, CrashAssumption DEF StarterDies, WorkerDies, Redeliver, Crash, rowVars
  <2> QED BY <2>1 DEF TypeOK, EndedJobs
<1>3. CASE Restart
  <2>1. crashes' > 0
    BY <1>3, CrashAssumption DEF Restart, Crash
  <2>2. ASSUME NEW d \in Deployments, status'[d] \in {"finished", "failed"},
               pc'[d] \in {"starting", "waiting"}
        PROVE  pc'[d] = "waiting" /\ status'[d] = "failed"
    BY <1>3, <2>2 DEF Restart, EndedJobs, TypeOK, Active, InFlight, WithStatus
  <2> QED BY <2>1, <2>2 DEF EndedJobs
<1> QED BY <1>1, <1>2, <1>3 DEF RestartNext, allVars

\* app:init fails every row in progress while the jobs of some still wait in Redis.
\* Only those deployments run again after they ended: none that finished, and none
\* that a user or a newer deployment cancelled.
THEOREM RevivedOnlyFromQueueHolds == RestartSpec => RevivedOnlyFromQueue
<1>1. RestartInit => RestartTypeOK /\ EndedJobs
  BY InitRestartType DEF RestartInit, Init, EndedJobs
<1>2. RestartTypeOK /\ EndedJobs /\ [RestartNext]_allVars => (RestartTypeOK /\ EndedJobs)'
  BY NextRestartType, NextEndedJobs
<1>3. RestartTypeOK /\ EndedJobs /\ [RestartNext]_allVars =>
        [\A d \in Deployments :
           status[d] \in Terminal /\ status'[d] = "in_progress"
             => status[d] = "failed" /\ pc[d] = "waiting" /\ crashes > 0]_allVars
  <2> SUFFICES ASSUME RestartTypeOK, EndedJobs, RestartNext, NEW d \in Deployments,
                      status[d] \in Terminal, status'[d] = "in_progress"
               PROVE  status[d] = "failed" /\ pc[d] = "waiting" /\ crashes > 0
    OBVIOUS
  <2>1. CASE Next
    <3>1. pc[d] = "waiting" /\ status[d] # "cancelled"
      BY <2>1, NextEnded DEF EndedRowsStay, RestartTypeOK
    <3> QED BY <3>1 DEF EndedJobs, Terminal
  <2>2. CASE \E e \in Deployments : StarterDies(e) \/ WorkerDies(e) \/ Redeliver(e)
    <3>1. status' = status
      BY <2>2 DEF StarterDies, WorkerDies, Redeliver, rowVars
    <3> QED BY <3>1 DEF Terminal
  <2>3. CASE Restart
    <3>1. status'[d] = IF status[d] = "uncommitted" THEN "absent"
                       ELSE IF status[d] \in Active THEN "failed" ELSE status[d]
      BY <2>3 DEF Restart
    <3> QED BY <3>1 DEF Terminal, Active
  <2> QED BY <2>1, <2>2, <2>3 DEF RestartNext
<1> QED BY <1>1, <1>2, <1>3, PTL DEF RestartSpec, RevivedOnlyFromQueue

-----------------------------------------------------------------------------
(* Superseded deployments when processes die.                              *)

\* A row that waits has no job, a job between its claim and its last command has a
\* row in progress or cancelled, and only a row that ran has a queue pass of a job.
\* NoLeakedSlot and JobRow of DeploymentQueue_proofs do not survive a crash.
JobsAfterCrash ==
  \A d \in Deployments :
    /\ status[d] \in {"absent", "queued"} => pc[d] = "none"
    /\ status[d] = "uncommitted" => pc[d] \in {"none", "starting"}
    /\ pc[d] \in {"selecting", "building", "gate", "changing"}
         => status[d] \in {"in_progress", "cancelled"}
    /\ todo[d]["job"] # {} => status[d] \in {"in_progress"} \cup Terminal

\* Where the job of an ended deployment can be when it will not be claimed again.
EndingStates == {"failing", "writeFailed", "advancing", "done"}

\* A superseded row stays cancelled, or its own job, already past the terminal
\* check or delivered again, has stored the end and will not be claimed.
SupersededEnds ==
  \A d \in Deployments : \A x \in replaces[d] :
    /\ ~deployStarted[x]
    /\ status[x] \in Active \cup Terminal
    /\ status[d] # "uncommitted" =>
         \/ status[x] = "cancelled"
         \/ status[x] \in Terminal /\ pc[x] \in EndingStates

CrashInv == TypeOK /\ JobsAfterCrash /\ DeployMarked /\ SupersededEnds

LEMMA InitCrash == RestartInit => CrashInv
<1> SUFFICES ASSUME RestartInit PROVE CrashInv
  OBVIOUS
<1>1. TypeOK
  BY InitType DEF RestartInit
<1> QED BY <1>1 DEF RestartInit, Init, CrashInv, JobsAfterCrash, DeployMarked,
        SupersededEnds, Passes

\* A step that only takes rows off a queue pass, or changes other variables.
LEMMA QuietCrash ==
  ASSUME CrashInv, TypeOK', UNCHANGED <<status, deployStarted, replaces, pc>>,
         \A e \in Deployments : todo'[e]["job"] # {} => todo[e]["job"] # {}
  PROVE  CrashInv'
BY DEF CrashInv, JobsAfterCrash, DeployMarked, SupersededEnds

\* The job of d moves; the row does not change.
LEMMA JobMovesCrash ==
  ASSUME CrashInv, TypeOK', NEW d \in Deployments, NEW to \in JobStates,
         pc' = [pc EXCEPT ![d] = to],
         UNCHANGED <<status, deployStarted, replaces>>,
         \A e \in Deployments : todo'[e]["job"] # {} => todo[e]["job"] # {} \/ e = d,
         status[d] \in {"in_progress"} \cup Terminal,
         to \in {"selecting", "building", "gate", "changing"}
           => status[d] \in {"in_progress", "cancelled"},
         to \in {"changing", "completing", "writeFinished"} => deployStarted[d],
         to = "gate" => deployStarted[d] \/ status[d] = "cancelled",
         status[d] \in {"finished", "failed"} /\ pc[d] \in EndingStates
           => to \in EndingStates
  PROVE  CrashInv'
<1> USE DEF CrashInv
<1>1. JobsAfterCrash'
  BY DEF TypeOK, JobsAfterCrash, Terminal
<1>2. DeployMarked'
  BY DEF TypeOK, DeployMarked
<1>3. SupersededEnds'
  BY DEF TypeOK, SupersededEnds, Active, Terminal
<1> QED BY <1>1, <1>2, <1>3

\* A committed row that no open admission cancels stores a terminal status.
LEMMA RowEndsCrash ==
  ASSUME CrashInv, TypeOK', NEW d \in Deployments, NEW st \in Terminal,
         status' = [status EXCEPT ![d] = st],
         \/ pc' = pc /\ st = "cancelled"
         \/ pc' = [pc EXCEPT ![d] = "advancing"],
         UNCHANGED <<deployStarted, replaces, todo>>,
         status[d] \in Active \cup Terminal, Writable(d)
  PROVE  CrashInv'
<1> USE DEF CrashInv
<1>1. JobsAfterCrash'
  BY DEF TypeOK, JobsAfterCrash, Terminal
<1>2. DeployMarked'
  BY DEF TypeOK, DeployMarked
<1>3. SupersededEnds'
  BY DEF TypeOK, SupersededEnds, Active, Terminal, EndingStates
<1> QED BY <1>1, <1>2, <1>3

\* A queued row that no open admission cancels starts.
LEMMA StartRowCrash ==
  ASSUME CrashInv, TypeOK', NEW x \in Deployments, NEW b, NEW force,
         status[x] = "queued", StartRow(x, b, force), Writable(x),
         UNCHANGED <<deployStarted, replaces>>,
         \A e \in Deployments : todo'[e]["job"] # {} => todo[e]["job"] # {}
  PROVE  CrashInv'
<1> USE DEF CrashInv
<1>1. /\ status' = [status EXCEPT ![x] = "in_progress"]
      /\ pc' = [pc EXCEPT ![x] = "starting"]
  BY DEF StartRow
<1>2. JobsAfterCrash'
  BY <1>1 DEF TypeOK, JobsAfterCrash, Terminal
<1>3. DeployMarked'
  BY <1>1 DEF TypeOK, DeployMarked
<1>4. SupersededEnds'
  <2>1. \A e \in Deployments : x \notin replaces[e]
    BY DEF SupersededEnds, Writable, InFlight, WithStatus, Terminal
  <2> QED BY <1>1, <2>1 DEF TypeOK, SupersededEnds
<1> QED BY <1>2, <1>3, <1>4

\* The admission locks and supersedes rows that have not started to deploy.
LEMMA AdmitBeginCrash ==
  ASSUME CrashInv, TypeOK', NEW d \in Deployments, NEW r \in Requests, AdmitBegin(d, r)
  PROVE  CrashInv'
<1> USE DEF CrashInv
<1>1. PICK to \in {"none", "starting"} : pc' = [pc EXCEPT ![d] = to]
  BY DEF AdmitBegin
<1>2. /\ status[d] = "absent" /\ status' = [status EXCEPT ![d] = "uncommitted"]
      /\ replaces' = [replaces EXCEPT ![d] = Superseded(r)]
      /\ UNCHANGED <<deployStarted, todo>>
  BY DEF AdmitBegin
<1>3. JobsAfterCrash'
  BY <1>1, <1>2 DEF TypeOK, JobsAfterCrash, Terminal
<1>4. DeployMarked'
  BY <1>1, <1>2 DEF TypeOK, DeployMarked
<1>5. SupersededEnds'
  <2>1. \A x \in Superseded(r) :
          x \in Deployments /\ ~deployStarted[x] /\ status[x] \in Active /\ x # d
    BY <1>2 DEF Superseded, Active
  <2>2. \A e \in Deployments : d \notin replaces[e]
    BY <1>2 DEF SupersededEnds, Active, Terminal
  <2> QED BY <1>1, <1>2, <2>1, <2>2 DEF TypeOK, SupersededEnds
<1> QED BY <1>3, <1>4, <1>5

\* The commit publishes the cancels of the superseded rows.
LEMMA AdmitCommitCrash ==
  ASSUME CrashInv, TypeOK', NEW d \in Deployments, AdmitCommit(d)
  PROVE  CrashInv'
<1> USE DEF CrashInv
<1>1. /\ status[d] = "uncommitted" /\ pc[d] \in {"none", "starting"}
      /\ status' = [x \in Deployments |->
           IF x = d THEN IF pc[d] = "starting" THEN "in_progress" ELSE "queued"
           ELSE IF x \in replaces[d] THEN "cancelled" ELSE status[x]]
      /\ UNCHANGED <<deployStarted, replaces, pc, todo>>
  BY DEF AdmitCommit, histVars, JobsAfterCrash
<1>2. \A e \in Deployments : d \notin replaces[e]
  BY <1>1 DEF SupersededEnds, Active, Terminal
<1>3. JobsAfterCrash'
  BY <1>1 DEF TypeOK, JobsAfterCrash, Terminal
<1>4. DeployMarked'
  BY <1>1 DEF TypeOK, DeployMarked
<1>5. SupersededEnds'
  BY <1>1, <1>2 DEF TypeOK, SupersededEnds, Active, Terminal
<1> QED BY <1>3, <1>4, <1>5

\* A pass starts the row it tries only if it is still queued.
LEMMA PassStepCrash ==
  ASSUME CrashInv, TypeOK', NEW d \in Deployments, NEW p \in Passes, PassStep(d, p)
  PROVE  CrashInv'
<1>1. PICK x \in todo[d][p] :
        /\ Writable(x)
        /\ todo' = [todo EXCEPT ![d][p] = @ \ {x}]
        /\ IF StillQueued(x) /\ Placements(req[x]) # {}
           THEN \E b \in Placements(req[x]) : StartRow(x, b, FALSE)
           ELSE UNCHANGED <<status, buildServer, forced, pc>>
        /\ UNCHANGED <<deployStarted, replaces>>
  BY DEF PassStep
<1>2. x \in Deployments
  BY DEF CrashInv, TypeOK
<1>3. \A e \in Deployments : todo'[e]["job"] # {} => todo[e]["job"] # {}
  BY <1>1 DEF CrashInv, TypeOK, Passes
<1>4. CASE StillQueued(x) /\ Placements(req[x]) # {}
  BY <1>1, <1>2, <1>3, <1>4, StartRowCrash DEF StillQueued
<1>5. CASE ~(StillQueued(x) /\ Placements(req[x]) # {})
  BY <1>1, <1>3, <1>5, QuietCrash
<1> QED BY <1>4, <1>5

\* Every step of a job that does not write its row.
LEMMA JobStepsCrash ==
  ASSUME CrashInv, TypeOK', NEW d \in Deployments,
         \/ Dispatch(d) \/ JobCancelledBeforeStart(d) \/ JobRejected(d)
         \/ JobGate(d) \/ JobCommandDone(d) \/ JobLastCommand(d) \/ JobFails(d)
         \/ JobCheckTerminal(d) \/ JobSelectBuildServer(d) \/ JobAdvance(d)
  PROVE  CrashInv'
<1>1. UNCHANGED <<status, deployStarted, replaces>>
  BY DEF Dispatch, JobCancelledBeforeStart, JobRejected, JobGate, JobCommandDone,
         JobLastCommand, JobFails, JobCheckTerminal, JobSelectBuildServer, JobAdvance,
         rowVars, histVars
<1>2. \A e \in Deployments : todo'[e]["job"] # {} => todo[e]["job"] # {} \/ e = d
  BY DEF CrashInv, TypeOK, Dispatch, JobCancelledBeforeStart, JobRejected, JobGate,
         JobCommandDone, JobLastCommand, JobFails, JobCheckTerminal,
         JobSelectBuildServer, JobAdvance, Snapshot
<1>3. status[d] \in Statuses
  BY DEF CrashInv, TypeOK
<1>4. pc[d] # "none" /\ status[d] # "uncommitted" => status[d] \in {"in_progress"} \cup Terminal
  BY <1>3 DEF CrashInv, JobsAfterCrash, Statuses, Active
<1>5. pc[d] \notin {"none", "starting"} => status[d] \in {"in_progress"} \cup Terminal
  BY <1>4 DEF CrashInv, JobsAfterCrash
<1>6. PICK to \in JobStates :
        /\ pc' = [pc EXCEPT ![d] = to]
        /\ status[d] \in {"in_progress"} \cup Terminal
        /\ to \in {"selecting", "building", "gate", "changing"}
             => status[d] \in {"in_progress", "cancelled"}
        /\ to \in {"changing", "completing", "writeFinished"} => deployStarted[d]
        /\ to = "gate" => deployStarted[d] \/ status[d] = "cancelled"
        /\ status[d] \in {"finished", "failed"} /\ pc[d] \in EndingStates
             => to \in EndingStates
  <2> USE DEF CrashInv, JobsAfterCrash, DeployMarked, JobStates, EndingStates, GoTo
  <2>1. CASE Dispatch(d)
    BY <1>4, <2>1 DEF Dispatch
  <2>2. CASE JobCancelledBeforeStart(d)
    BY <1>5, <2>2 DEF JobCancelledBeforeStart
  <2>3. CASE JobRejected(d)
    BY <1>5, <2>3 DEF JobRejected
  <2>4. CASE JobGate(d)
    BY <1>5, <2>4 DEF JobGate
  <2>5. CASE JobCommandDone(d)
    BY <1>5, <2>5 DEF JobCommandDone
  <2>6. CASE JobLastCommand(d)
    BY <1>5, <2>6 DEF JobLastCommand
  <2>7. CASE JobFails(d)
    <3>1. pc' = [pc EXCEPT ![d] = "failing"] /\ status[d] \in {"in_progress"} \cup Terminal
      BY <1>5, <2>7 DEF JobFails
    <3> QED BY <3>1
  <2>8. CASE JobCheckTerminal(d)
    BY <1>5, <2>8 DEF JobCheckTerminal, Terminal
  <2>9. CASE JobSelectBuildServer(d)
    <3>1. status[d] \in {"in_progress", "cancelled"}
      BY <2>9 DEF JobSelectBuildServer
    <3>2. \/ status[d] = "cancelled" /\ pc' = [pc EXCEPT ![d] = "failing"]
          \/ status[d] = "in_progress" /\ pc' = [pc EXCEPT ![d] = "building"]
      BY <2>9, <3>1 DEF JobSelectBuildServer
    <3> QED BY <1>5, <2>9, <3>2 DEF JobSelectBuildServer, Terminal
  <2>10. CASE JobAdvance(d)
    BY <1>5, <2>10 DEF JobAdvance
  <2> QED BY <2>1, <2>2, <2>3, <2>4, <2>5, <2>6, <2>7, <2>8, <2>9, <2>10
<1> QED BY <1>1, <1>2, <1>6, JobMovesCrash

\* The claim of handle().  After a restart it revives a failed row, but never one
\* that was superseded: that row is cancelled or its job is past the claim.
LEMMA JobClaimCrash ==
  ASSUME CrashInv, TypeOK', NEW d \in Deployments, JobClaim(d)
  PROVE  CrashInv'
<1> USE DEF CrashInv
<1>1. /\ pc[d] = "waiting" /\ pc' = [pc EXCEPT ![d] = "selecting"]
      /\ status[d] # "cancelled" /\ Writable(d)
      /\ status' = [status EXCEPT ![d] = "in_progress"]
      /\ UNCHANGED <<deployStarted, replaces, todo>>
  BY DEF JobClaim, GoTo, histVars
<1>2. \A e \in Deployments : d \notin replaces[e]
  BY <1>1 DEF SupersededEnds, Writable, InFlight, WithStatus, EndingStates
<1>3. JobsAfterCrash'
  BY <1>1 DEF TypeOK, JobsAfterCrash
<1>4. DeployMarked'
  BY <1>1 DEF TypeOK, DeployMarked
<1>5. status[d] # "uncommitted"
  BY <1>1 DEF JobsAfterCrash
<1>6. SupersededEnds'
  BY <1>1, <1>2, <1>5 DEF TypeOK, SupersededEnds
<1> QED BY <1>3, <1>4, <1>6

\* startDeployPhase: a row that an open admission supersedes is locked, and one
\* that was superseded is no longer in progress.
LEMMA JobStartDeployCrash ==
  ASSUME CrashInv, TypeOK', NEW d \in Deployments, JobStartDeploy(d)
  PROVE  CrashInv'
<1> USE DEF CrashInv
<1>1. /\ pc[d] = "building" /\ pc' = [pc EXCEPT ![d] = "gate"]
      /\ deployStarted' = [deployStarted EXCEPT ![d] = @ \/ status[d] = "in_progress"]
      /\ UNCHANGED <<status, replaces, todo>>
      /\ Writable(d)
  BY DEF JobStartDeploy, GoTo, histVars
<1>2. status[d] \in {"in_progress", "cancelled"}
  BY <1>1 DEF JobsAfterCrash
<1>3. JobsAfterCrash'
  BY <1>1, <1>2 DEF TypeOK, JobsAfterCrash
<1>4. DeployMarked'
  BY <1>1, <1>2 DEF TypeOK, DeployMarked
<1>5. SupersededEnds'
  <2>1. \A e \in Deployments : d \in replaces[e] => status[d] = "cancelled"
    BY <1>1, <1>2 DEF SupersededEnds, Writable, InFlight, WithStatus, EndingStates
  <2> QED BY <1>1, <2>1 DEF TypeOK, SupersededEnds, EndingStates
<1> QED BY <1>3, <1>4, <1>5

\* The writes that end a row: the job's own, a failed dispatch and a cancel.
LEMMA EndingStepsCrash ==
  ASSUME CrashInv, TypeOK', NEW d \in Deployments,
         JobWrite(d) \/ DispatchFails(d) \/ ApiCancel(d) \/ UiCancel(d)
  PROVE  CrashInv'
<1>1. status[d] \in Statuses
  BY DEF CrashInv, TypeOK
<1>2. CASE JobWrite(d)
  <2>1. PICK st \in {"finished", "failed"} : status' = [status EXCEPT ![d] = st]
    BY <1>2 DEF JobWrite
  <2>2. /\ pc[d] \in {"writeFinished", "writeFailed"}
        /\ pc' = [pc EXCEPT ![d] = "advancing"]
        /\ UNCHANGED <<deployStarted, replaces, todo>> /\ Writable(d)
    BY <1>2 DEF JobWrite, GoTo, histVars
  <2>3. status[d] \in Active \cup Terminal
    BY <1>1, <2>2 DEF CrashInv, JobsAfterCrash, Statuses
  <2> QED BY <2>1, <2>2, <2>3, RowEndsCrash DEF Terminal
<1>3. CASE DispatchFails(d) /\ status[d] = "in_progress"
  <2>1. /\ status' = [status EXCEPT ![d] = "failed"]
        /\ pc' = [pc EXCEPT ![d] = "advancing"]
        /\ UNCHANGED <<deployStarted, replaces, todo>> /\ Writable(d)
    BY <1>3 DEF DispatchFails, histVars
  <2> QED BY <1>3, <2>1, RowEndsCrash DEF Active, Terminal
<1>4. CASE DispatchFails(d) /\ status[d] # "in_progress"
  <2>1. /\ pc[d] = "starting" /\ status[d] # "uncommitted"
        /\ pc' = [pc EXCEPT ![d] = "done"]
        /\ UNCHANGED <<status, deployStarted, replaces, todo>>
    BY <1>4 DEF DispatchFails, histVars
  <2>2. status[d] \in Terminal
    BY <1>1, <1>4, <2>1 DEF CrashInv, JobsAfterCrash, Statuses, Active
  <2> QED BY <2>1, <2>2, JobMovesCrash DEF JobStates, EndingStates
<1>5. CASE ApiCancel(d) \/ UiCancel(d)
  <2>1. /\ status' = [status EXCEPT ![d] = "cancelled"] /\ pc' = pc
        /\ UNCHANGED <<deployStarted, replaces, todo>> /\ Writable(d)
        /\ status[d] \in Active \cup Terminal
    BY <1>5 DEF ApiCancel, UiCancel, CancelRow, histVars
  <2> QED BY <2>1, RowEndsCrash DEF Terminal
<1> QED BY <1>2, <1>3, <1>4, <1>5

\* The operations of the queue preserve the invariant.
LEMMA QueueCrash == CrashInv /\ [Next]_vars => CrashInv'
<1> SUFFICES ASSUME CrashInv, [Next]_vars PROVE CrashInv'
  OBVIOUS
<1>1. TypeOK'
  BY NextType DEF CrashInv
<1>2. ASSUME NEW d \in Deployments, ForceStart(d) PROVE CrashInv'
  BY <1>1, <1>2, StartRowCrash DEF ForceStart, StillQueued
<1>3. ASSUME NEW d \in Deployments, RunCleanup(d) \/ CancelAdvance(d) PROVE CrashInv'
  <2>1. UNCHANGED <<status, deployStarted, replaces, pc>>
    BY <1>3 DEF RunCleanup, CancelAdvance, rowVars, histVars
  <2>2. todo' = todo \/ \E found : todo' = [todo EXCEPT ![d]["cancel"] = found]
    BY <1>3 DEF RunCleanup, CancelAdvance, Snapshot
  <2>3. todo \in [Deployments -> [Passes -> SUBSET Deployments]]
    BY DEF CrashInv, TypeOK
  <2>4. \A e \in Deployments : todo'[e]["job"] # {} => todo[e]["job"] # {}
    BY <2>2, <2>3 DEF Passes
  <2> QED BY <1>1, <2>1, <2>4, QuietCrash
<1>4. CASE UNCHANGED vars
  BY <1>1, <1>4, QuietCrash DEF vars, rowVars, histVars, procVars
<1>5. ASSUME NEW d \in Deployments, JobStep(d) PROVE CrashInv'
  BY <1>1, <1>5, JobStepsCrash, JobClaimCrash, JobStartDeployCrash, EndingStepsCrash
  DEF JobStep
<1>6. ASSUME NEW d \in Deployments, ApiCancel(d) \/ UiCancel(d) PROVE CrashInv'
  BY <1>1, <1>6, EndingStepsCrash
<1> QED
  BY <1>1, <1>2, <1>3, <1>4, <1>5, <1>6, AdmitBeginCrash, AdmitCommitCrash,
     PassStepCrash DEF Next

\* A restart rolls the open admissions back: what they superseded stays as it was,
\* and what a committed one superseded has ended already.
LEMMA RestartCrash ==
  ASSUME CrashInv, TypeOK', Restart
  PROVE  CrashInv'
<1> USE DEF CrashInv
<1>1. \A d \in Deployments :
        /\ status'[d] = IF status[d] = "uncommitted" THEN "absent"
                        ELSE IF status[d] \in Active THEN "failed" ELSE status[d]
        /\ replaces'[d] = IF d \in InFlight THEN {} ELSE replaces[d]
        /\ todo'[d]["job"] = {}
  BY DEF Restart, Passes
<1>2. \A d \in Deployments :
        pc'[d] = IF d \in InFlight THEN "none"
                 ELSE IF pc[d] \in {"none", "waiting"} THEN pc[d] ELSE "done"
  BY DEF Restart
<1>3. deployStarted' = deployStarted
  BY DEF Restart
<1>4. JobsAfterCrash'
  BY <1>1, <1>2 DEF TypeOK, JobsAfterCrash, InFlight, WithStatus, Active
<1>5. DeployMarked'
  BY <1>2 DEF DeployMarked
<1>6. SupersededEnds'
  <2> SUFFICES ASSUME NEW d \in Deployments, NEW x \in replaces'[d]
               PROVE  /\ ~deployStarted[x]
                      /\ \/ status'[x] = "cancelled"
                         \/ status'[x] \in Terminal /\ pc'[x] \in EndingStates
    BY <1>3 DEF SupersededEnds, Terminal
  <2>1. /\ x \in replaces[d] /\ status[d] # "uncommitted" /\ x \in Deployments
    BY <1>1 DEF TypeOK, InFlight, WithStatus
  <2>2. /\ ~deployStarted[x]
        /\ \/ status[x] = "cancelled"
           \/ status[x] \in Terminal /\ pc[x] \in EndingStates
    BY <2>1 DEF SupersededEnds
  <2>3. status'[x] = status[x] /\ x \notin InFlight
    BY <1>1, <2>1, <2>2 DEF Terminal, Active, InFlight, WithStatus
  <2> QED BY <1>2, <2>1, <2>2, <2>3 DEF EndingStates
<1> QED BY <1>4, <1>5, <1>6

LEMMA NextCrash ==
  RestartTypeOK /\ CrashInv /\ [RestartNext]_allVars => CrashInv'
<1> SUFFICES ASSUME RestartTypeOK, CrashInv, [RestartNext]_allVars PROVE CrashInv'
  OBVIOUS
<1>1. TypeOK'
  BY NextRestartType DEF RestartTypeOK
<1>2. CASE [Next]_vars
  BY <1>2, QueueCrash
<1>3. ASSUME NEW d \in Deployments, StarterDies(d) \/ WorkerDies(d) \/ Redeliver(d)
      PROVE  CrashInv'
  <2>1. PICK to \in {"done", "failing"} : pc' = [pc EXCEPT ![d] = to]
    BY <1>3 DEF StarterDies, WorkerDies, Redeliver
  <2>2. UNCHANGED <<status, deployStarted, replaces>>
    BY <1>3 DEF StarterDies, WorkerDies, Redeliver, rowVars, histVars
  <2>3. \A e \in Deployments : todo'[e]["job"] # {} => todo[e]["job"] # {}
    <3>1. todo' = todo \/ todo' = [todo EXCEPT ![d]["job"] = {}]
      BY <1>3 DEF StarterDies, WorkerDies, Redeliver
    <3>2. ASSUME todo' = [todo EXCEPT ![d]["job"] = {}], NEW e \in Deployments
          PROVE  todo'[e]["job"] \subseteq todo[e]["job"]
      <4>1. todo \in [Deployments -> [Passes -> SUBSET Deployments]] /\ "job" \in Passes
        BY DEF CrashInv, TypeOK, Passes
      <4>2. CASE e = d
        <5>1. todo'[d] = [todo[d] EXCEPT !["job"] = {}] /\ DOMAIN todo[d] = Passes
          BY <3>2, <4>1
        <5> QED BY <4>1, <4>2, <5>1
      <4> QED BY <3>2, <4>1, <4>2
    <3> QED BY <3>1, <3>2
  <2>4. status[d] \in {"in_progress"} \cup Terminal
    <3>1. \/ pc[d] \notin {"none", "starting"}
          \/ pc[d] = "starting" /\ status[d] # "uncommitted"
          \/ todo[d]["job"] # {}
      BY <1>3 DEF StarterDies, WorkerDies, Redeliver, Executing
    <3> QED BY <3>1 DEF CrashInv, TypeOK, JobsAfterCrash, Statuses, Active
  <2> QED BY <1>1, <2>1, <2>2, <2>3, <2>4, JobMovesCrash DEF JobStates, EndingStates
<1>4. CASE Restart
  BY <1>1, <1>4, RestartCrash
<1> QED BY <1>2, <1>3, <1>4 DEF RestartNext, allVars

\* A deployment that a newer one superseded never changes containers, even when
\* workers die, their jobs are delivered again and a restart fails every row.
THEOREM SupersededNeverDeploysAfterCrash == RestartSpec => []SupersededNeverDeploys
<1>1. RestartInit => RestartTypeOK /\ CrashInv
  BY InitRestartType, InitCrash
<1>2. RestartTypeOK /\ CrashInv /\ [RestartNext]_allVars => (RestartTypeOK /\ CrashInv)'
  BY NextRestartType, NextCrash
<1>3. CrashInv => SupersededNeverDeploys
  BY DEF CrashInv, TypeOK, DeployMarked, SupersededEnds, SupersededNeverDeploys
<1> QED BY <1>1, <1>2, <1>3, PTL DEF RestartSpec
=============================================================================
