-------------------------- MODULE DeploymentRestart --------------------------
(***************************************************************************)
(* The deployment queue when processes die: a request or worker between    *)
(* the commit that starts a deployment and the dispatch of its job, a      *)
(* Horizon worker in the middle of a deployment, and a restart of the      *)
(* whole Coolify container, which runs the command app:init.  Redis is a   *)
(* container of its own and keeps the jobs.                                *)
(***************************************************************************)
EXTENDS DeploymentQueue

CONSTANT MaxCrashes   \* process deaths and restarts (bound)
ASSUME CrashAssumption == MaxCrashes \in Nat

VARIABLES
  reserved,   \* deployments whose job a dead worker has reserved in Redis
  lost,       \* history: started, but the starter died before the dispatch
  crashes     \* process deaths and restarts so far

crashVars == <<reserved, lost, crashes>>
allVars == <<vars, crashVars>>

RestartTypeOK ==
  /\ TypeOK
  /\ reserved \subseteq Deployments
  /\ lost \subseteq Deployments
  /\ crashes \in 0..MaxCrashes

RestartInit == Init /\ reserved = {} /\ lost = {} /\ crashes = 0

Crash == crashes < MaxCrashes /\ crashes' = crashes + 1

\* The process that started d dies before ApplicationDeploymentJob::dispatch.
StarterDies(d) ==
  /\ Crash
  /\ pc[d] = "starting" /\ status[d] # "uncommitted"
  /\ pc' = [pc EXCEPT ![d] = "done"]
  /\ lost' = lost \cup {d}
  /\ UNCHANGED <<rowVars, histVars, cancelPc, todo, cancels, reserved>>

\* A worker dies with its job reserved.  Its queue pass dies with it.
WorkerDies(d) ==
  /\ Crash
  /\ pc[d] \in Executing \/ todo[d]["job"] # {}
  /\ pc' = [pc EXCEPT ![d] = "done"]
  /\ todo' = [todo EXCEPT ![d]["job"] = {}]
  /\ reserved' = reserved \cup {d}
  /\ UNCHANGED <<rowVars, histVars, cancelPc, cancels, lost>>

\* After retry_after Redis delivers the reserved job again.  It has used its only
\* attempt, so Laravel calls failed() without handle().
Redeliver_drops(d) ==
  /\ d \in reserved
  /\ pc[d] = "done"
  /\ reserved' = reserved \ {d}
  /\ UNCHANGED <<vars, lost, crashes>>
Redeliver(d) ==
  /\ d \in reserved
  /\ pc[d] = "done"
  /\ pc' = [pc EXCEPT ![d] = "failing"]
  /\ reserved' = reserved \ {d}
  /\ UNCHANGED <<rowVars, histVars, cancelPc, todo, cancels, lost, crashes>>

\* A restart of Coolify.  Open transactions roll back, every process stops, and
\* app:init fails the rows that are queued or in progress before workers start.
\* Jobs that wait in Redis stay there.
Restart ==
  /\ Crash
  /\ status' = [d \in Deployments |->
                  IF status[d] = "uncommitted" THEN "absent"
                  ELSE IF status[d] \in Active THEN "failed" ELSE status[d]]
  /\ buildServer' = [d \in Deployments |->
                       IF d \in InFlight THEN NoServer ELSE buildServer[d]]
  /\ replaces' = [d \in Deployments |-> IF d \in InFlight THEN {} ELSE replaces[d]]
  /\ overlooked' = [d \in Deployments |->
                     IF d \in InFlight THEN {} ELSE overlooked[d]]
  /\ pc' = [d \in Deployments |->
              CASE d \in InFlight -> "none"
                [] d \notin InFlight /\ pc[d] \in {"none", "waiting"} -> pc[d]
                [] OTHER -> "done"]
  /\ reserved' = reserved \cup {d \in Deployments : pc[d] \in Executing}
  /\ cancelPc' = [d \in Deployments |->
                    IF cancelPc[d] = "jobQueued" THEN "jobQueued" ELSE "idle"]
  /\ todo' = [d \in Deployments |-> [p \in Passes |-> {}]]
  /\ UNCHANGED <<req, deployStarted, forced, cancels, lost>>

RestartNext ==
  \/ Next /\ UNCHANGED crashVars
  \/ \E d \in Deployments : StarterDies(d) \/ WorkerDies(d) \/ Redeliver(d)
  \/ Restart

RestartSpec == RestartInit /\ [][RestartNext]_allVars

\* As Fairness of DeploymentQueue, and Redis redelivers reserved jobs.
RestartFairness ==
  \A d \in Deployments :
    /\ WF_allVars(AdmitCommit(d) /\ UNCHANGED crashVars)
    /\ WF_allVars(JobStep(d) /\ UNCHANGED crashVars)
    /\ SF_allVars(JobLastCommand(d) /\ UNCHANGED crashVars)
    /\ WF_allVars(Redeliver(d))

FairRestartSpec == RestartSpec /\ RestartFairness

-----------------------------------------------------------------------------
\* A deployment in progress ends even when its worker dies: the redelivered job
\* fails it.  Only a start whose process died before the dispatch is stuck, until
\* the next restart.
EndsUnlessNeverDispatched ==
  \A d \in Deployments :
    status[d] = "in_progress" ~> (status[d] \in Terminal \/ d \in lost)

\* A deployment that ended runs again only when its job was waiting in Redis
\* during a restart, and never one that a user or a newer deployment cancelled.
RevivedOnlyFromQueue ==
  [][\A d \in Deployments :
       status[d] \in Terminal /\ status'[d] = "in_progress"
         => status[d] = "failed" /\ pc[d] = "waiting" /\ crashes > 0]_allVars
=============================================================================
