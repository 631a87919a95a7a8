--------------------------- MODULE DeploymentQueue ---------------------------
(***************************************************************************)
(* The application deployment queue of Coolify: the rows of the table      *)
(* application_deployment_queues, the functions of                         *)
(* bootstrap/helpers/applications.php that admit, supersede, start and     *)
(* advance them, the job ApplicationDeploymentJob that runs one of them,   *)
(* and the requests that cancel them.                                      *)
(*                                                                         *)
(* One action is one database transaction or one conditional UPDATE of the *)
(* code.  The admission transaction has two: what it reads and decides,    *)
(* and its commit, because PostgreSQL runs it at READ COMMITTED and the    *)
(* workers that end deployments do not take its locks.                     *)
(***************************************************************************)
EXTENDS Naturals, FiniteSets

CONSTANTS
  MaxDeployments,    \* rows that are ever created (bound)
  MaxCancels,        \* cancel requests of users (bound)
  MaxForced,         \* deployments that users force start (bound)
  Apps, PullRequests, Servers, Commits,
  NoServer,          \* build_server_id IS NULL
  Requests,          \* the calls of queue_application_deployment
  Primary,           \* the server of an application's own destination
  BuildServers,      \* Application::buildServerCandidates
  ConcurrentBuilds,  \* server setting concurrent_builds
  QueueLimit,        \* server setting deployment_queue_limit
  AutoCancel         \* what an application's settings let a webhook cancel

Deployments == 1..MaxDeployments
Modes == {"none", "queued", "building"}

RequestType ==
  [app : Apps, pr : PullRequests, server : Servers, commit : Commits,
   source : {"manual", "webhook", "api"},
   kind : {"deploy", "restart", "rollback"},
   force : BOOLEAN, nqa : BOOLEAN, cancel : Modes]

ASSUME BoundAssumption == {MaxDeployments, MaxCancels, MaxForced} \subseteq Nat
ASSUME RequestAssumption == Requests \subseteq RequestType /\ Requests # {}
ASSUME ServerAssumption ==
  /\ IsFiniteSet(Servers)
  /\ NoServer \notin Servers
  /\ ConcurrentBuilds \in [Servers -> Nat]
  /\ QueueLimit \in [Servers -> Nat]
ASSUME ApplicationAssumption ==
  /\ Primary \in [Apps -> Servers]
  /\ AutoCancel \in [Apps -> Modes]
  /\ BuildServers \in [Apps -> [Servers -> SUBSET Servers]]
  /\ \A a \in Apps, s \in Servers : s \notin BuildServers[a][s]

VARIABLES
  status,         \* column status, or the row's visibility
  req,            \* the columns that the admission stores once
  buildServer,    \* column build_server_id
  deployStarted,  \* column deploy_started_at IS NOT NULL
  replaces,       \* rows that the admission of this row superseded
  forced,         \* history: started by force_start_deployment
  overlooked,     \* history: why queue passes did not look at the row
  pc,             \* where the ApplicationDeploymentJob of the row is
  cancelPc,       \* where the process that cleans up after a cancel is
  todo,           \* queued rows that a running queue pass still has to try
  cancels         \* cancel requests so far

rowVars  == <<status, req, buildServer, deployStarted>>
histVars == <<replaces, forced, overlooked>>
procVars == <<pc, cancelPc, todo>>
vars     == <<rowVars, histVars, procVars, cancels>>

Active   == {"queued", "in_progress"}
Terminal == {"finished", "failed", "cancelled"}
Statuses == {"absent", "uncommitted"} \cup Active \cup Terminal

JobStates ==
  {"none",           \* the row has no job
   "starting",       \* in_progress stored, job not dispatched yet
   "waiting",        \* the job waits in Redis
   "selecting", "building", "gate", "changing", "completing",
   "writeFinished", "failing", "writeFailed", "advancing", "done"}

\* States in which a worker executes the job.
Executing == JobStates \ {"none", "starting", "waiting", "done"}

Passes == {"job", "cancel"}

\* What a queue pass can miss: a row whose admission is still open when it takes its
\* snapshot, and a row on another server that waits for the build slot it gives back.
Oversights == {"open", "builder"}

TypeOK ==
  /\ status \in [Deployments -> Statuses]
  /\ req \in [Deployments -> Requests]
  /\ buildServer \in [Deployments -> Servers \cup {NoServer}]
  /\ deployStarted \in [Deployments -> BOOLEAN]
  /\ replaces \in [Deployments -> SUBSET Deployments]
  /\ forced \in [Deployments -> BOOLEAN]
  /\ overlooked \in [Deployments -> SUBSET Oversights]
  /\ pc \in [Deployments -> JobStates]
  /\ cancelPc \in [Deployments -> {"idle", "jobQueued", "cleanup", "advancing"}]
  /\ todo \in [Deployments -> [Passes -> SUBSET Deployments]]
  /\ cancels \in 0..MaxCancels

Init ==
  /\ status = [d \in Deployments |-> "absent"]
  /\ req = [d \in Deployments |-> CHOOSE r \in Requests : TRUE]
  /\ buildServer = [d \in Deployments |-> NoServer]
  /\ deployStarted = [d \in Deployments |-> FALSE]
  /\ replaces = [d \in Deployments |-> {}]
  /\ forced = [d \in Deployments |-> FALSE]
  /\ overlooked = [d \in Deployments |-> {}]
  /\ pc = [d \in Deployments |-> "none"]
  /\ cancelPc = [d \in Deployments |-> "idle"]
  /\ todo = [d \in Deployments |-> [p \in Passes |-> {}]]
  /\ cancels = 0

-----------------------------------------------------------------------------
(* Queries.  A row that is not committed is invisible to all of them.      *)

WithStatus(st) == {d \in Deployments : status[d] = st}
InFlight == WithStatus("uncommitted")
Target(r) == <<r.app, r.pr>>
Candidates(r) == BuildServers[r.app][r.server]

\* The application has a running deployment with the same pull request.
TargetBusy(r) ==
  \E d \in WithStatus("in_progress") : Target(req[d]) = Target(r)

\* The server whose build slot a running deployment holds.
SlotOf(d) == IF buildServer[d] = NoServer THEN req[d].server ELSE buildServer[d]

ActiveBuilds(s) ==
  Cardinality({d \in WithStatus("in_progress") : SlotOf(d) = s})

HasFreeSlot(s) == ActiveBuilds(s) < ConcurrentBuilds[s]

\* The servers of S with the fewest running builds; the code shuffles equals.
LeastBusy(S) == {s \in S : \A t \in S : ActiveBuilds(s) <= ActiveBuilds(t)}

\* next_queuable: the values build_server_id may get, none when it returns false.
Placements(r) ==
  IF TargetBusy(r) THEN {}
  ELSE IF Candidates(r) = {}
       THEN IF HasFreeSlot(r.server) THEN {NoServer} ELSE {}
       ELSE LeastBusy({s \in Candidates(r) : HasFreeSlot(s)})

-----------------------------------------------------------------------------
(* Row locks.  An open admission holds its application row, its server row *)
(* and, when it may build elsewhere, the rows of the build servers; it     *)
(* also holds the deployment rows that it has cancelled.                   *)

LockedServers_own(r) == {r.server}
LockedServers(r) == {r.server} \cup Candidates(r)
LocksFree_none(r) == TRUE
LocksFree(r) ==
  \A d \in InFlight : /\ req[d].app # r.app
                      /\ LockedServers(req[d]) \cap LockedServers(r) = {}

\* The locks of start_queued_deployment itself: next_queuable takes those of the
\* build servers only once it has found no running deployment of the target.
RowsFree(r) ==
  \A d \in InFlight : req[d].app # r.app /\ r.server \notin LockedServers(req[d])
Writable(x) == \A d \in InFlight : x \notin replaces[d]

-----------------------------------------------------------------------------
(* queue_application_deployment.                                           *)

\* The part of an API caller or of the settings in cancel_superseded_deployments.
CancelMode(r) ==
  IF r.kind # "deploy" THEN "none"
  ELSE CASE r.source = "webhook" -> AutoCancel[r.app]
         [] r.source = "api"     -> r.cancel
         [] r.source = "manual"  -> "none"

\* A webhook replaces webhook deployments, an API call also API deployments.
MayReplace(r, old) ==
  /\ Target(old) = Target(r)
  /\ old.server = r.server
  /\ old.kind = "deploy"
  /\ \/ old.source = "webhook"
     \/ r.source = "api" /\ old.source = "api"

Superseded(r) ==
  {x \in Deployments :
     /\ MayReplace(r, req[x])
     /\ ~deployStarted[x]
     /\ \/ CancelMode(r) \in {"queued", "building"} /\ status[x] = "queued"
        \/ CancelMode(r) = "building" /\ status[x] = "in_progress"}

QueueFull_offByOne(r) ==
  Cardinality({d \in WithStatus("queued") : req[d].server = r.server})
    > QueueLimit[r.server]
QueueFull(r) ==
  Cardinality({d \in WithStatus("queued") : req[d].server = r.server})
    >= QueueLimit[r.server]

AlreadyQueued_notRunning(r) ==
  \E d \in WithStatus("queued") : /\ Target(req[d]) = Target(r)
                                  /\ req[d].commit = r.commit
AlreadyQueued(r) ==
  \E d \in Deployments : /\ status[d] \in Active
                         /\ Target(req[d]) = Target(r)
                         /\ req[d].commit = r.commit

\* What the admission decides: start now on one of these build servers, or wait.
NoStart == [start |-> FALSE, builder |-> NoServer]
StartOn(b) == [start |-> TRUE, builder |-> b]
Decisions(r) ==
  IF \E x \in Superseded(r) : status[x] = "in_progress" THEN {NoStart}
  ELSE IF r.nqa THEN {StartOn(NoServer)}
  ELSE IF Placements(r) = {} THEN {NoStart}
  ELSE {StartOn(b) : b \in Placements(r)}

\* The admission reads, cancels what it supersedes and decides, under its locks.
AdmitBegin(d, r) ==
  /\ status[d] = "absent"
  /\ \A e \in Deployments : e < d => status[e] # "absent"
  /\ LocksFree(r)
  /\ \A x \in Superseded(r) : Writable(x)
  /\ ~QueueFull(r)
  /\ AlreadyQueued(r) => r.force \/ r.kind = "rollback" \/ r.nqa
  /\ \E dec \in Decisions(r) :
       /\ pc' = [pc EXCEPT ![d] = IF dec.start THEN "starting" ELSE "none"]
       /\ buildServer' = [buildServer EXCEPT ![d] = dec.builder]
  /\ status' = [status EXCEPT ![d] = "uncommitted"]
  /\ req' = [req EXCEPT ![d] = r]
  /\ replaces' = [replaces EXCEPT ![d] = Superseded(r)]
  /\ UNCHANGED <<deployStarted, forced, overlooked, cancelPc, todo, cancels>>

\* The commit publishes the new row and its cancels.  A superseded build gets a
\* CancelSupersededDeploymentJob.
AdmitCommit(d) ==
  /\ status[d] = "uncommitted"
  /\ status' = [x \in Deployments |->
                  IF x = d THEN IF pc[d] = "starting" THEN "in_progress" ELSE "queued"
                  ELSE IF x \in replaces[d] THEN "cancelled" ELSE status[x]]
  /\ cancelPc' = [x \in Deployments |->
                    IF x \in replaces[d] /\ status[x] = "in_progress"
                    THEN "jobQueued" ELSE cancelPc[x]]
  /\ UNCHANGED <<req, buildServer, deployStarted, histVars, pc, todo, cancels>>

\* ApplicationDeploymentJob::dispatch, after the commit of whoever started the row.
Dispatch(d) ==
  /\ pc[d] = "starting" /\ status[d] # "uncommitted"
  /\ pc' = [pc EXCEPT ![d] = "waiting"]
  /\ UNCHANGED <<rowVars, histVars, cancelPc, todo, cancels>>

\* fail_undispatchable_deployment.  A row that is not in progress is left alone.
DispatchFails_leavesRow(d) ==
  /\ pc[d] = "starting" /\ status[d] # "uncommitted"
  /\ pc' = [pc EXCEPT ![d] = "advancing"]
  /\ UNCHANGED <<rowVars, histVars, cancelPc, todo, cancels>>
DispatchFails(d) ==
  /\ pc[d] = "starting" /\ status[d] # "uncommitted"
  /\ Writable(d)
  /\ IF status[d] = "in_progress"
     THEN /\ status' = [status EXCEPT ![d] = "failed"]
          /\ pc' = [pc EXCEPT ![d] = "advancing"]
     ELSE /\ pc' = [pc EXCEPT ![d] = "done"]
          /\ UNCHANGED status
  /\ UNCHANGED <<req, buildServer, deployStarted, histVars, cancelPc, todo, cancels>>

-----------------------------------------------------------------------------
(* Starting queued rows.                                                   *)

\* start_queued_deployment locks the row and reads its status again.
StillQueued_trustsSnapshot(d) == TRUE
StillQueued(d) == status[d] = "queued"

\* start_queued_deployment, once its transaction has found the row startable.
StartRow(d, b, force) ==
  /\ status' = [status EXCEPT ![d] = "in_progress"]
  /\ buildServer' = [buildServer EXCEPT ![d] = b]
  /\ forced' = [forced EXCEPT ![d] = force]
  /\ pc' = [pc EXCEPT ![d] = "starting"]

\* force_start_deployment: no per-application and no per-server limit.
ForceStart(d) ==
  /\ StillQueued(d)
  /\ Cardinality({x \in Deployments : forced[x]}) < MaxForced
  /\ RowsFree(req[d]) /\ Writable(d)
  /\ StartRow(d, buildServer[d], TRUE)
  /\ UNCHANGED <<req, deployStarted, replaces, overlooked, cancelPc, todo, cancels>>

\* The servers whose queues start_next_queued_deployments looks at.
PassServers_noBuildServers(a, s) ==
  {Primary[a], s}
    \cup {req[x].server : x \in {y \in WithStatus("queued") : req[y].app = a}}
PassServers(a, s) ==
  {Primary[a], s}
    \cup {req[x].server : x \in {y \in WithStatus("queued") : req[y].app = a}}
    \cup (IF BuildServers[a][Primary[a]] # {} THEN Servers ELSE {})

\* The servers whose build slots a queued deployment can take.
UsableSlots(r) == IF Candidates(r) = {} THEN {r.server} ELSE Candidates(r)

\* Why the pass of d does not look at row x.  An admission that has decided to wait is
\* not in the snapshot before its commit.  Without build servers for the primary
\* server of its own application, the pass leaves the team's other servers out.
Missed(d, x) ==
  {o \in Oversights :
     \/ o = "open" /\ status[x] = "uncommitted" /\ pc[x] # "starting"
     \/ /\ o = "builder" /\ status[x] = "queued"
        /\ BuildServers[req[d].app][Primary[req[d].app]] = {}
        /\ req[x].server \notin PassServers(req[d].app, req[d].server)
        /\ {req[d].server, SlotOf(d)} \cap UsableSlots(req[x]) # {}}

\* queue_next_deployment(application of d, server of d): the snapshot of the queue.
Snapshot(d, p) ==
  /\ todo' = [todo EXCEPT ![d][p] =
       {x \in WithStatus("queued") :
          req[x].server \in PassServers(req[d].app, req[d].server)}]
  /\ overlooked' = [x \in Deployments |-> overlooked[x] \cup Missed(d, x)]

\* A pass tries its next row, oldest first, in a transaction of its own.  A row
\* that is no longer queued or cannot run now is passed over.
PassStep(d, p) ==
  \E x \in todo[d][p] :
    /\ \A y \in todo[d][p] : x <= y
    /\ RowsFree(req[x]) /\ Writable(x)
    /\ StillQueued(x) /\ ~TargetBusy(req[x]) => LocksFree(req[x])
    /\ todo' = [todo EXCEPT ![d][p] = @ \ {x}]
    /\ IF StillQueued(x) /\ Placements(req[x]) # {}
       THEN \E b \in Placements(req[x]) : StartRow(x, b, FALSE)
       ELSE UNCHANGED <<status, buildServer, forced, pc>>
    /\ UNCHANGED <<req, deployStarted, replaces, overlooked, cancelPc, cancels>>

-----------------------------------------------------------------------------
(* ApplicationDeploymentJob.                                               *)

GoTo(d, from, to) == pc[d] = from /\ pc' = [pc EXCEPT ![d] = to]

\* handle() of a deployment cancelled before its job ran: return, no queue pass.
JobCancelledBeforeStart(d) ==
  /\ status[d] = "cancelled"
  /\ GoTo(d, "waiting", "done")
  /\ UNCHANGED <<rowVars, histVars, cancelPc, todo, cancels>>

\* handle(): a validation before the status update throws.
JobRejected(d) ==
  /\ status[d] # "cancelled"
  /\ GoTo(d, "waiting", "failing")
  /\ UNCHANGED <<rowVars, histVars, cancelPc, todo, cancels>>

\* handle(): the conditional update, every status except cancelled.
JobClaim_revives(d) ==
  /\ Writable(d)
  /\ GoTo(d, "waiting", "selecting")
  /\ status' = [status EXCEPT ![d] = "in_progress"]
  /\ UNCHANGED <<req, buildServer, deployStarted, histVars, cancelPc, todo, cancels>>
JobClaim_badStatus(d) ==
  /\ status[d] # "cancelled"
  /\ Writable(d)
  /\ GoTo(d, "waiting", "selecting")
  /\ status' = [status EXCEPT ![d] = "running"]
  /\ UNCHANGED <<req, buildServer, deployStarted, histVars, cancelPc, todo, cancels>>

JobClaim(d) ==
  /\ status[d] # "cancelled"
  /\ Writable(d)
  /\ GoTo(d, "waiting", "selecting")
  /\ status' = [status EXCEPT ![d] = "in_progress"]
  /\ UNCHANGED <<req, buildServer, deployStarted, histVars, cancelPc, todo, cancels>>

\* selectBuildServer: the reserved server, else the least busy one with a free
\* slot, else the least busy one.  It takes no lock.  The first check for a cancel
\* follows, before the helper container is created.
BuilderChoices(d) ==
  LET C == Candidates(req[d])
      Free == {s \in C : HasFreeSlot(s)}
  IN CASE C = {}               -> {buildServer[d]}
       [] buildServer[d] \in C -> {buildServer[d]}
       [] C # {} /\ buildServer[d] \notin C /\ Free # {} -> LeastBusy(Free)
       [] C # {} /\ buildServer[d] \notin C /\ Free = {} -> LeastBusy(C)

JobSelectBuildServer(d) ==
  /\ Writable(d)
  /\ GoTo(d, "selecting", IF status[d] = "cancelled" THEN "failing" ELSE "building")
  /\ \E b \in BuilderChoices(d) : buildServer' = [buildServer EXCEPT ![d] = b]
  /\ UNCHANGED <<status, req, deployStarted, histVars, cancelPc, todo, cancels>>

\* startDeployPhase: the conditional update; "gate" is the cancellation check
\* after it and before each later command.
JobStartDeploy(d) ==
  /\ Writable(d)
  /\ GoTo(d, "building", "gate")
  /\ deployStarted' =
       [deployStarted EXCEPT ![d] = @ \/ status[d] = "in_progress"]
  /\ UNCHANGED <<status, req, buildServer, histVars, cancelPc, todo, cancels>>

\* checkForCancellation
JobGate_unchecked(d) ==
  /\ GoTo(d, "gate", "changing")
  /\ UNCHANGED <<rowVars, histVars, cancelPc, todo, cancels>>
JobGate(d) ==
  /\ GoTo(d, "gate", IF status[d] = "cancelled" THEN "failing" ELSE "changing")
  /\ UNCHANGED <<rowVars, histVars, cancelPc, todo, cancels>>

\* A command that changes containers returns, another one follows.
JobCommandDone(d) ==
  /\ GoTo(d, "changing", "gate")
  /\ UNCHANGED <<rowVars, histVars, cancelPc, todo, cancels>>

\* The last one returns: completeDeployment.
JobLastCommand(d) ==
  /\ GoTo(d, "changing", "completing")
  /\ UNCHANGED <<rowVars, histVars, cancelPc, todo, cancels>>

\* An exception in handle(), a timeout, or a command that finds the row cancelled.
JobFails(d) ==
  /\ \E s \in {"selecting", "building", "gate", "changing"} : GoTo(d, s, "failing")
  /\ UNCHANGED <<rowVars, histVars, cancelPc, todo, cancels>>

\* transitionToStatus, first half: isInTerminalState reads the row.  A cancelled
\* row throws; thrown by completeDeployment it leads to failed().
JobCheckTerminal(d) ==
  /\ \/ /\ status[d] \notin Terminal
        /\ \/ GoTo(d, "completing", "writeFinished")
           \/ GoTo(d, "failing", "writeFailed")
     \/ /\ status[d] = "cancelled"
        /\ GoTo(d, "completing", "failing") \/ GoTo(d, "failing", "done")
     \/ /\ status[d] \in {"finished", "failed"}
        /\ \E s \in {"completing", "failing"} : GoTo(d, s, "done")
  /\ UNCHANGED <<rowVars, histVars, cancelPc, todo, cancels>>

\* transitionToStatus, second half: updateDeploymentStatus is an unconditional
\* UPDATE, whatever happened to the row since the check.
JobWrite(d) ==
  /\ Writable(d)
  /\ \/ /\ GoTo(d, "writeFinished", "advancing")
        /\ status' = [status EXCEPT ![d] = "finished"]
     \/ /\ GoTo(d, "writeFailed", "advancing")
        /\ status' = [status EXCEPT ![d] = "failed"]
  /\ UNCHANGED <<req, buildServer, deployStarted, histVars, cancelPc, todo, cancels>>

\* transitionToStatus and fail_undispatchable_deployment end with a queue pass.
JobAdvance(d) ==
  /\ GoTo(d, "advancing", "done")
  /\ Snapshot(d, "job")
  /\ UNCHANGED <<rowVars, replaces, forced, cancelPc, cancels>>

-----------------------------------------------------------------------------
(* Cancelling.  One cancel of a deployment is in flight at a time (bound).  *)

CancelRow(d) ==
  /\ cancels < MaxCancels /\ cancels' = cancels + 1
  /\ cancelPc[d] = "idle" /\ todo[d]["cancel"] = {}
  /\ Writable(d)
  /\ status' = [status EXCEPT ![d] = "cancelled"]
  /\ cancelPc' = [cancelPc EXCEPT ![d] = "cleanup"]
  /\ UNCHANGED <<req, buildServer, deployStarted, histVars, pc, todo>>

\* The API and the MCP tool: a conditional update of active rows.
ApiCancel(d) == status[d] \in Active /\ CancelRow(d)

\* The UI button: an unconditional update of the row, whatever its status is.
UiCancel(d) == status[d] \in Active \cup Terminal /\ CancelRow(d)

\* CleanupCancelledDeployment, in the request or in CancelSupersededDeploymentJob;
\* its errors are logged.  Also a CancelSupersededDeploymentJob that could not be
\* dispatched.
RunCleanup(d) ==
  /\ cancelPc[d] \in {"jobQueued", "cleanup"}
  /\ cancelPc' = [cancelPc EXCEPT ![d] = "advancing"]
  /\ UNCHANGED <<rowVars, histVars, pc, todo, cancels>>

\* next_after_cancel, and the finally block of CancelSupersededDeploymentJob.
CancelAdvance(d) ==
  /\ cancelPc[d] = "advancing"
  /\ cancelPc' = [cancelPc EXCEPT ![d] = "idle"]
  /\ Snapshot(d, "cancel")
  /\ UNCHANGED <<rowVars, replaces, forced, pc, cancels>>

-----------------------------------------------------------------------------
JobStep(d) ==
  \/ Dispatch(d) \/ DispatchFails(d)
  \/ JobCancelledBeforeStart(d) \/ JobRejected(d) \/ JobClaim(d)
  \/ JobSelectBuildServer(d) \/ JobStartDeploy(d)
  \/ JobGate(d) \/ JobCommandDone(d) \/ JobLastCommand(d) \/ JobFails(d)
  \/ JobCheckTerminal(d) \/ JobWrite(d) \/ JobAdvance(d)

Next ==
  \E d \in Deployments :
    \/ \E r \in Requests : AdmitBegin(d, r)
    \/ AdmitCommit(d)
    \/ ForceStart(d)
    \/ JobStep(d)
    \/ ApiCancel(d) \/ UiCancel(d)
    \/ RunCleanup(d) \/ CancelAdvance(d)
    \/ \E p \in Passes : PassStep(d, p)

Spec == Init /\ [][Next]_vars

\* Open transactions commit, workers and requests keep running, Horizon delivers
\* waiting jobs, and a deployment has finitely many commands.  Nobody has to
\* submit, force or cancel anything.
Fairness ==
  \A d \in Deployments :
    /\ WF_vars(AdmitCommit(d))
    /\ WF_vars(JobStep(d)) /\ SF_vars(JobLastCommand(d))
    /\ WF_vars(RunCleanup(d)) /\ WF_vars(CancelAdvance(d))
    /\ \A p \in Passes : WF_vars(PassStep(d, p))

FairSpec == Spec /\ Fairness

-----------------------------------------------------------------------------
(* What the queue must guarantee.                                          *)

\* A deployment that was not forced and did not skip the queue checks.
Regular(d) == ~forced[d] /\ ~req[d].nqa

\* The per-application limit of start_queued_deployment: of the deployments
\* that respect the limits, one per application and pull request is in progress.
OneRegularPerTarget ==
  \A d, e \in WithStatus("in_progress") :
    d # e /\ Regular(d) /\ Regular(e) => Target(req[d]) # Target(req[e])

\* Deployments that respect the limits take no more build slots of a server than its
\* concurrent_builds, although next_queuable counts before the row is in progress.
RegularBuilds(s) ==
  {d \in WithStatus("in_progress") : SlotOf(d) = s /\ Regular(d)}

SlotsWithinLimit ==
  \A s \in Servers : Cardinality(RegularBuilds(s)) <= ConcurrentBuilds[s]

\* A row in progress always has a job that will still end it, so its build slot
\* and its application are released without a restart of Coolify.
NoLeakedSlot ==
  \A d \in WithStatus("in_progress") :
    pc[d] \in (Executing \ {"advancing"}) \cup {"starting", "waiting"}

\* startDeployPhase and the supersede update exclude each other: the job of a
\* superseded deployment never changes containers.
SupersededNeverDeploys ==
  \A d \in Deployments : \A x \in replaces[d] :
    /\ ~deployStarted[x]
    /\ pc[x] \notin {"changing", "completing", "writeFinished"}

\* Two deployments of one application change its containers at the same time
\* only if one was forced or cancelled: cancelling starts the next deployment
\* while the last command of the cancelled one may still run.
ExclusiveChange ==
  \A d, e \in Deployments :
    /\ d # e /\ pc[d] = "changing" /\ pc[e] = "changing"
    /\ Regular(d) /\ Regular(e)
    /\ Target(req[d]) = Target(req[e])
    => status[d] = "cancelled" \/ status[e] = "cancelled"

\* The same commit is active twice only if the newer request asked for it.
DuplicateOnlyOnRequest ==
  \A d, e \in Deployments :
    /\ d < e /\ status[d] \in Active /\ status[e] \in Active
    /\ Target(req[d]) = Target(req[e]) /\ req[d].commit = req[e].commit
    => req[e].force \/ req[e].kind = "rollback" \/ req[e].nqa

\* A server never has more queued deployments than deployment_queue_limit.
QueueWithinLimit ==
  \A s \in Servers :
    Cardinality({d \in WithStatus("queued") : req[d].server = s}) <= QueueLimit[s]

\* Passes, force starts and the admission together start the job of a
\* deployment at most once.
StartedOnce ==
  [][\A d \in Deployments :
       pc[d] # "starting" /\ pc'[d] = "starting" => pc[d] = "none"]_vars

\* A deployment in progress ends, whatever fails or is cancelled.
EveryRunEnds ==
  \A d \in Deployments : status[d] = "in_progress" ~> status[d] \in Terminal

\* queue_next_deployment: "Start the queued deployments that can run now", so a
\* queued deployment is not forgotten.
QueuedIsServed == \A d \in Deployments : status[d] = "queued" ~> status[d] # "queued"

\* A queued deployment is forgotten only if a queue pass did not look at it for one of
\* two reasons: its admission was still open, or the pass gave back a build slot that
\* it could take on another server (start_next_queued_deployments).
OnlyOverlookedWaits ==
  \A d \in Deployments :
    status[d] = "queued" ~> status[d] # "queued" \/ overlooked[d] # {}

\* Every deployment state of the code and the promise it keeps.
Slot(d) == IF status[d] = "in_progress" THEN SlotOf(d) ELSE NoServer
StageOf(st) ==
  CASE st \in {"absent", "uncommitted"} -> "new"
    [] st = "queued"                    -> "waiting"
    [] st = "in_progress"               -> "running"
    [] st \in Terminal                  -> "ended"

NewDeployment == [stage |-> "new", target |-> <<>>, slot |-> NoServer, exempt |-> FALSE]
DeploymentOf(d) ==
  IF status[d] \in {"absent", "uncommitted"} THEN NewDeployment
  ELSE [stage  |-> StageOf(status[d]),
        target |-> Target(req[d]),
        slot   |-> Slot(d),
        exempt |-> status[d] = "in_progress" /\ ~Regular(d)]

Promise == INSTANCE DeploymentPromise
  WITH Targets <- Apps \X PullRequests, NoSlot <- NoServer,
       Limit <- ConcurrentBuilds, New <- NewDeployment,
       deployment <- [d \in Deployments |-> DeploymentOf(d)]

\* The queue implements the promise: deployments wait, run and end once, and
\* start only within the limits unless they are exempt.
ImplementsPromise == Promise!Spec
=============================================================================
