-------------------------- MODULE ScheduledDelivery --------------------------
(***************************************************************************)
(* Delivery of the occurrences of one cron schedule:                       *)
(* ScheduledJobManager records a due occurrence as a row and publishes a   *)
(* queued job for it; a worker takes the overlap lock of the schedule,     *)
(* claims the row and runs the body; the next managers recover what was    *)
(* lost in between.  Occurrences are numbered in the order they are due.   *)
(*                                                                         *)
(* Two managers may be at work: the lock of a manager expires after 90     *)
(* seconds and its queries are not in one transaction.  The queue may lose *)
(* a job, dispatch() may throw, and processes may be killed.               *)
(***************************************************************************)
EXTENDS Integers, FiniteSets

CONSTANTS
  N,          \* bound: occurrences of the schedule
  Slots,      \* bound: queued jobs of one occurrence at a time
  Managers,   \* concurrent runs of ScheduledJobManager
  JobType,    \* job_type of the schedule
  Twins,      \* occurrences with the local time of the one before (end of DST)
  FaultKinds, \* what may go wrong in this instance
  MaxFaults   \* bound: kills, manager crashes and deletions

JobTypes == {"scheduled-task", "docker-cleanup", "database-backup", "volume-backup"}

ASSUME DeliveryAssumption ==
  /\ N \in Nat \ {0} /\ Slots \in Nat \ {0} /\ MaxFaults \in Nat
  /\ JobType \in JobTypes
  /\ Twins \subseteq 2..N
  /\ FaultKinds \subseteq {"lose", "kill", "crash", "delete"}

Occ == 1..N
Jobs == Occ \X (1..Slots)
NoJob == <<0, 0>>

RunsLate == JobType \in {"database-backup", "volume-backup"}
\* Attempts of a job: a task is handed to handle() again and fails there,
\* the other types are failed before their middleware runs.
RedeliveredToHandle == JobType = "scheduled-task"

Open == {"pending", "enqueued"}
RowStatus == Open \union {"none", "claimed", "failed", "skipped", "gone"}
JobState == {"none", "queued", "locked", "refused", "running", "completed",
             "failing", "dead"}
Phases == {"idle", "recover", "publish", "due"}
Steps == {"next", "move", "report", "dispatch", "mark"}

VARIABLES
  due,       \* the latest due occurrence
  last,      \* scheduled_job_states.last_scheduled_for
  status,    \* status of the row of an occurrence; "gone": deleted
  token,     \* claim_token: the slot of the job that claimed, 0 for null
  age,       \* of the row: "new", "stale" (60 minutes), "tooOld" (24 hours)
  enqStale,  \* rows whose enqueued_at is older than 60 minutes
  oldClaim,  \* rows claimed longer ago than the worker timeout and margin
  job,       \* the queued jobs and what their workers do
  lock,      \* the job that holds the overlap lock of the schedule
  mgr,       \* the managers
  resource,  \* FALSE once the scheduled resource is deleted
  faults,
  ran,       \* history: how often the body of an occurrence was started
  reports    \* history: how often an occurrence was reported as missed

rows == <<status, token, age, enqStale, oldClaim>>
history == <<ran, reports>>
vars == <<due, last, status, token, age, enqStale, oldClaim, job,
          lock, mgr, resource, faults, ran, reports>>

Idle == [phase |-> "idle", step |-> "next", exec |-> 0, todo |-> {}, cur |-> 0,
         late |-> FALSE]

TypeOK ==
  /\ due \in 0..N /\ last \in 0..N
  /\ status \in [Occ -> RowStatus]
  /\ token \in [Occ -> 0..Slots]
  /\ age \in [Occ -> {"new", "stale", "tooOld"}]
  /\ enqStale \subseteq Occ /\ oldClaim \subseteq Occ
  /\ job \in [Jobs -> JobState]
  /\ lock \in Jobs \union {NoJob}
  /\ mgr \in [Managers -> [phase : Phases, step : Steps, exec : 0..N,
                           todo : SUBSET Occ, cur : 0..N, late : BOOLEAN]]
  /\ \A m \in Managers : mgr[m].step # "next" => mgr[m].cur \in Occ
  /\ resource \in BOOLEAN
  /\ faults \in 0..MaxFaults
  /\ ran \in [Occ -> Nat] /\ reports \in [Occ -> Nat]

Init ==
  /\ due = 0 /\ last = 0
  /\ status = [o \in Occ |-> "none"]
  /\ token = [o \in Occ |-> 0]
  /\ age = [o \in Occ |-> "new"]
  /\ enqStale = {} /\ oldClaim = {}
  /\ job = [j \in Jobs |-> "none"]
  /\ lock = NoJob
  /\ mgr = [m \in Managers |-> Idle]
  /\ resource = TRUE
  /\ faults = 0
  /\ ran = [o \in Occ |-> 0] /\ reports = [o \in Occ |-> 0]

-----------------------------------------------------------------------------
\* The clock

TickDue ==
  /\ due < N
  /\ due' = due + 1
  /\ UNCHANGED <<last, rows, job, lock, mgr, resource, faults, history>>

RowAges(o) ==
  /\ status[o] \in Open /\ age[o] # "tooOld"
  /\ age' = [age EXCEPT ![o] = IF age[o] = "new" THEN "stale" ELSE "tooOld"]
  /\ UNCHANGED <<due, last, status, token, enqStale, oldClaim, job, lock, mgr,
                 resource, faults, history>>

EnqueuedAges(o) ==
  /\ status[o] = "enqueued" /\ age[o] # "new"
  /\ enqStale' = enqStale \union {o}
  /\ UNCHANGED <<due, last, status, token, age, oldClaim, job, lock, mgr,
                 resource, faults, history>>

Alive(j) == job[j] \in {"locked", "refused", "running", "completed", "failing"}

\* Horizon kills a job at the worker timeout.
ClaimAges(o) ==
  /\ status[o] = "claimed" /\ ~Alive(<<o, token[o]>>)
  /\ oldClaim' = oldClaim \union {o}
  /\ UNCHANGED <<due, last, status, token, age, enqStale, job, lock, mgr,
                 resource, faults, history>>

\* Mutant: expireAfter() is shorter than the timeout of the job.
LockExpires_early ==
  /\ lock # NoJob
  /\ lock' = NoJob
  /\ UNCHANGED <<due, last, rows, job, mgr, resource, faults, history>>

\* The lock outlives the timeout of the job.
LockExpires ==
  /\ lock # NoJob /\ ~Alive(lock)
  /\ lock' = NoJob
  /\ UNCHANGED <<due, last, rows, job, mgr, resource, faults, history>>

-----------------------------------------------------------------------------
\* ScheduledJobManager

Set(m, fields) == mgr' = [mgr EXCEPT ![m] = fields]
NextRow(m) == [mgr[m] EXCEPT !.step = "next", !.cur = 0, !.late = FALSE]

\* handle(): the execution time is frozen; the latest occurrence is processed
\* if it is due for less than CATCH_UP_WINDOW_MINUTES.  recoverStaleEnqueued()
\* loads its rows.
Begin(m) ==
  /\ mgr[m].phase = "idle"
  /\ \E exec \in {0, due} :
       Set(m, [Idle EXCEPT !.phase = "recover", !.exec = exec,
                           !.todo = {o \in enqStale : status[o] = "enqueued"}])
  /\ UNCHANGED <<due, last, rows, job, lock, resource, faults, history>>

\* Mutant: the occurrence itself counts as a newer one.
NewerExists_orSame(o) ==
  last >= o \/ \E p \in Occ : p > o /\ status[p] \notin {"none", "gone"}

NewerExists(o) ==
  last > o \/ \E p \in Occ : p > o /\ status[p] \notin {"none", "gone"}

\* recoverUnstartedOccurrence() reads what it decides from.
Decision(m, o) ==
  [mgr[m] EXCEPT !.step = "move", !.cur = o, !.todo = @ \ {o},
                 !.late = RunsLate /\ ~NewerExists(o) /\ age[o] # "tooOld"]

\* The rows are processed in the order of their ids.
FirstRow(m) == {o \in mgr[m].todo : \A p \in mgr[m].todo : o <= p}

RecoverNext(m) ==
  /\ mgr[m].phase = "recover" /\ mgr[m].step = "next"
  /\ \E o \in FirstRow(m) : Set(m, Decision(m, o))
  /\ UNCHANGED <<due, last, rows, job, lock, resource, faults, history>>

\* Mutant: claims that a killed worker left are not looked for.
FailInterruptedClaims_never(m) ==
  /\ mgr[m].phase = "recover" /\ mgr[m].step = "next" /\ mgr[m].todo = {}
  /\ Set(m, [mgr[m] EXCEPT !.phase = "publish",
                           !.todo = {o \in Occ : status[o] = "pending"}])
  /\ UNCHANGED <<due, last, rows, job, lock, resource, faults, history>>

\* failInterruptedClaims(), then publishPending() loads.
FailInterruptedClaims(m) ==
  /\ mgr[m].phase = "recover" /\ mgr[m].step = "next" /\ mgr[m].todo = {}
  /\ status' = [o \in Occ |->
       IF o \in oldClaim /\ status[o] = "claimed" THEN "failed" ELSE status[o]]
  /\ Set(m, [mgr[m] EXCEPT !.phase = "publish",
                           !.todo = {o \in Occ : status[o] = "pending"}])
  /\ UNCHANGED <<due, last, token, age, enqStale, oldClaim, job, lock,
                 resource, faults, history>>

\* A row that stays pending for 60 minutes is recovered, another published.
PublishNext(m) ==
  /\ mgr[m].phase = "publish" /\ mgr[m].step = "next"
  /\ \E o \in FirstRow(m) :
       Set(m, IF age[o] # "new"
              THEN Decision(m, o)
              ELSE [mgr[m] EXCEPT !.step = "dispatch", !.cur = o, !.todo = @ \ {o}])
  /\ UNCHANGED <<due, last, rows, job, lock, resource, faults, history>>

\* Mutant: the update has no condition on the loaded status.
StillStale_unchecked(m, o) == TRUE

\* The row is still as it was loaded: "Only one scheduler node can move it".
StillStale(m, o) ==
  IF mgr[m].phase = "recover" THEN status[o] = "enqueued" /\ o \in enqStale
                              ELSE status[o] = "pending"

MoveStep(m, o) ==
  IF StillStale(m, o)
  THEN /\ status' = [status EXCEPT ![o] = IF mgr[m].late THEN "pending" ELSE "failed"]
       /\ Set(m, [mgr[m] EXCEPT !.step = IF mgr[m].late THEN "dispatch" ELSE "report"])
  ELSE UNCHANGED status /\ Set(m, NextRow(m))

MoveUnstarted(m) ==
  /\ mgr[m].step = "move"
  /\ MoveStep(m, mgr[m].cur)
  /\ UNCHANGED <<due, last, token, age, enqStale, oldClaim, job, lock,
                 resource, faults, history>>

\* The failed execution and the notification of the team.
ReportMissed(m) ==
  /\ mgr[m].step = "report"
  /\ reports' = IF resource THEN [reports EXCEPT ![mgr[m].cur] = @ + 1] ELSE reports
  /\ Set(m, NextRow(m))
  /\ UNCHANGED <<due, last, rows, job, lock, resource, faults, ran>>

\* Mutant: the loop goes on without leaving publish().
AfterPublish_keepsStep(m) ==
  IF mgr[m].phase = "due" THEN Idle ELSE [mgr[m] EXCEPT !.cur = 0]

AfterPublish(m) == IF mgr[m].phase = "due" THEN Idle ELSE NextRow(m)

\* The slot stands for the uuid of a job; the uuid of the claim stays taken.
FreeSlots(o) == {k \in 1..Slots : k # token[o] /\ job[<<o, k>>] = "none"}

\* publish(): the job that is built from the loaded row enters the queue.
Publish(m) ==
  /\ mgr[m].step = "dispatch" /\ resource
  /\ \E k \in FreeSlots(mgr[m].cur) :
       /\ \A l \in FreeSlots(mgr[m].cur) : k <= l
       /\ job' = [job EXCEPT ![<<mgr[m].cur, k>>] = "queued"]
  /\ Set(m, [mgr[m] EXCEPT !.step = "mark"])
  /\ UNCHANGED <<due, last, rows, lock, resource, faults, history>>

\* publish() finds no resource and skips the row whatever its status is.
PublishWithoutResource(m) ==
  /\ mgr[m].step = "dispatch" /\ ~resource
  /\ status' = IF status[mgr[m].cur] = "gone" THEN status
               ELSE [status EXCEPT ![mgr[m].cur] = "skipped"]
  /\ Set(m, AfterPublish(m))
  /\ UNCHANGED <<due, last, token, age, enqStale, oldClaim, job, lock,
                 resource, faults, history>>

DispatchThrows(m) ==
  /\ "lose" \in FaultKinds
  /\ mgr[m].step = "dispatch" /\ resource
  /\ Set(m, AfterPublish(m))
  /\ UNCHANGED <<due, last, rows, job, lock, resource, faults, history>>

\* Mutant: the row is marked enqueued whatever happened since it was loaded.
MarkRow_unchecked(o) ==
  status' = [status EXCEPT ![o] = "enqueued"] /\ enqStale' = enqStale \ {o}

MarkRow(o) ==
  IF status[o] = "pending"
  THEN status' = [status EXCEPT ![o] = "enqueued"] /\ enqStale' = enqStale \ {o}
  ELSE UNCHANGED <<status, enqStale>>

MarkEnqueued(m) ==
  /\ mgr[m].step = "mark"
  /\ MarkRow(mgr[m].cur)
  /\ Set(m, AfterPublish(m))
  /\ UNCHANGED <<due, last, token, age, oldClaim, job, lock, resource, faults,
                 history>>

\* Mutants: the recorded occurrence is due again; DST is not considered.
IsDuplicateOccurrence_newerOnly(o) == last > o
IsDuplicateOccurrence_noTwin(o) == last >= o
IsDuplicateOccurrence(o) == last >= o \/ (o \in Twins /\ last = o - 1)

\* The schedules that are due come after the recovery.
ProcessesDue(m) ==
  mgr[m].phase = "publish" /\ mgr[m].step = "next" /\ mgr[m].todo = {}

IsDueNow(m) ==
  resource /\ mgr[m].exec # 0 /\ ~IsDuplicateOccurrence(mgr[m].exec)

\* recordAndPublish(): the state row is locked until the row is created.
Record(m) ==
  /\ ProcessesDue(m) /\ IsDueNow(m)
  /\ last' = mgr[m].exec
  /\ status' = [status EXCEPT ![mgr[m].exec] = "pending"]
  /\ Set(m, [mgr[m] EXCEPT !.phase = "due", !.step = "dispatch", !.cur = mgr[m].exec])
  /\ UNCHANGED <<due, token, age, enqStale, oldClaim, job, lock, resource,
                 faults, history>>

\* recordSkipped(): the server or the resource cannot run it now.
RecordSkipped(m) ==
  /\ ProcessesDue(m) /\ IsDueNow(m)
  /\ last' = mgr[m].exec
  /\ Set(m, Idle)
  /\ UNCHANGED <<due, rows, job, lock, resource, faults, history>>

NothingDue(m) ==
  /\ ProcessesDue(m) /\ ~IsDueNow(m)
  /\ Set(m, Idle)
  /\ UNCHANGED <<due, last, rows, job, lock, resource, faults, history>>

ManagerStep(m) ==
  \/ Begin(m) \/ RecoverNext(m) \/ FailInterruptedClaims(m) \/ PublishNext(m)
  \/ MoveUnstarted(m) \/ ReportMissed(m) \/ Publish(m)
  \/ PublishWithoutResource(m) \/ MarkEnqueued(m) \/ Record(m)
  \/ NothingDue(m)

-----------------------------------------------------------------------------
\* The workers of the queued jobs

Become(j, state) == job' = [job EXCEPT ![j] = state]
Released(j) == IF lock = j THEN NoJob ELSE lock
TokenOf(j) == token[j[1]] = j[2]

\* Mutant: failed() does not compare the token.
FailRow_anyToken(j) ==
  status' = IF resource /\ status[j[1]] # "gone"
            THEN [status EXCEPT ![j[1]] = "failed"] ELSE status

\* fail(): the row of the token, whatever its status is.  failed() is not
\* reached when the model of the job is deleted.
FailRow(j) ==
  status' = IF resource /\ TokenOf(j) /\ status[j[1]] # "gone"
            THEN [status EXCEPT ![j[1]] = "failed"] ELSE status

\* WithoutOverlapping gets the lock; handle() follows.
TakeLock(j) ==
  /\ job[j] = "queued" /\ resource /\ lock = NoJob
  /\ lock' = j /\ Become(j, "locked")
  /\ UNCHANGED <<due, last, rows, mgr, resource, faults, history>>

FindLockHeld(j) ==
  /\ job[j] = "queued" /\ resource /\ lock # NoJob
  /\ Become(j, "refused")
  /\ UNCHANGED <<due, last, rows, lock, mgr, resource, faults, history>>

\* A job whose model is deleted cannot be unserialized.
ModelMissing(j) ==
  /\ job[j] = "queued" /\ ~resource
  /\ Become(j, "none")
  /\ UNCHANGED <<due, last, rows, lock, mgr, resource, faults, history>>

\* skip() of a job that found the lock held.
SkipOccurrence(j) ==
  /\ job[j] = "refused"
  /\ status' = IF status[j[1]] \in Open THEN [status EXCEPT ![j[1]] = "skipped"]
                                        ELSE status
  /\ Become(j, "none")
  /\ UNCHANGED <<due, last, token, age, enqStale, oldClaim, lock, mgr,
                 resource, faults, history>>

\* Mutant: only completed and skipped occurrences cannot be claimed.
Claimable_failed(j) == status[j[1]] \notin {"gone", "skipped"}

Claimable(j) ==
  status[j[1]] \in Open \/ (status[j[1]] = "claimed" /\ TokenOf(j))

ClaimOccurrence(j) ==
  /\ job[j] = "locked" /\ Claimable(j)
  /\ status' = [status EXCEPT ![j[1]] = "claimed"]
  /\ token' = [token EXCEPT ![j[1]] = j[2]]
  /\ ran' = [ran EXCEPT ![j[1]] = @ + 1]
  /\ Become(j, "running")
  /\ UNCHANGED <<due, last, age, enqStale, oldClaim, lock, mgr, resource,
                 faults, reports>>

ClaimRejected(j) ==
  /\ job[j] = "locked" /\ ~Claimable(j)
  /\ lock' = Released(j) /\ Become(j, "none")
  /\ UNCHANGED <<due, last, rows, mgr, resource, faults, history>>

\* complete() deletes the row of the token, whatever its status is.
Complete(j) ==
  /\ job[j] = "running"
  /\ status' = IF TokenOf(j) THEN [status EXCEPT ![j[1]] = "gone"] ELSE status
  /\ Become(j, "completed")
  /\ UNCHANGED <<due, last, token, age, enqStale, oldClaim, lock, mgr,
                 resource, faults, history>>

ReleaseLock(j) ==
  /\ job[j] = "completed"
  /\ lock' = Released(j) /\ Become(j, "none")
  /\ UNCHANGED <<due, last, rows, mgr, resource, faults, history>>

\* The middleware releases the lock before the worker calls failed().
BodyThrows(j) ==
  /\ job[j] \in {"running", "completed"}
  /\ lock' = Released(j) /\ Become(j, "failing")
  /\ UNCHANGED <<due, last, rows, mgr, resource, faults, history>>

Failed(j) ==
  /\ job[j] = "failing"
  /\ FailRow(j) /\ Become(j, "none")
  /\ UNCHANGED <<due, last, token, age, enqStale, oldClaim, lock, mgr,
                 resource, faults, history>>

\* Redis hands the job of a killed worker out again after retry_after.
Redeliver(j) ==
  /\ job[j] = "dead"
  /\ IF RedeliveredToHandle /\ resource /\ lock # NoJob
     THEN Become(j, "refused") /\ UNCHANGED status
     ELSE Become(j, "none") /\ FailRow(j)
  /\ UNCHANGED <<due, last, token, age, enqStale, oldClaim, lock, mgr,
                 resource, faults, history>>

WorkerStep(j) ==
  \/ TakeLock(j) \/ FindLockHeld(j) \/ ModelMissing(j) \/ SkipOccurrence(j)
  \/ ClaimOccurrence(j) \/ ClaimRejected(j) \/ Complete(j) \/ ReleaseLock(j)
  \/ Failed(j) \/ Redeliver(j)

-----------------------------------------------------------------------------
\* Faults and housekeeping

Fault(kind) == kind \in FaultKinds /\ faults < MaxFaults /\ faults' = faults + 1

QueueLoses(j) ==
  /\ "lose" \in FaultKinds
  /\ job[j] = "queued"
  /\ Become(j, "none")
  /\ UNCHANGED <<due, last, rows, lock, mgr, resource, faults, history>>

WorkerKilled(j) ==
  /\ Fault("kill") /\ Alive(j)
  /\ Become(j, "dead")
  /\ UNCHANGED <<due, last, rows, lock, mgr, resource, history>>

ManagerKilled(m) ==
  /\ Fault("crash") /\ mgr[m].phase # "idle"
  /\ Set(m, Idle)
  /\ UNCHANGED <<due, last, rows, job, lock, resource, history>>

DeleteResource ==
  /\ Fault("delete") /\ resource
  /\ resource' = FALSE
  /\ UNCHANGED <<due, last, rows, job, lock, mgr, history>>

\* No process has held the row for days.
Abandoned(o) ==
  /\ \A k \in 1..Slots : job[<<o, k>>] = "none"
  /\ \A m \in Managers : mgr[m].cur # o /\ o \notin mgr[m].todo

\* Claims are failed after two days, closed rows deleted after 30.
DeleteOldOccurrences ==
  /\ \E old \in SUBSET {o \in Occ : Abandoned(o)} :
       /\ \E o \in old : status[o] \in {"claimed", "failed", "skipped"}
       /\ status' = [o \in Occ |->
            IF o \notin old THEN status[o]
            ELSE IF status[o] \in {"failed", "skipped"} THEN "gone"
            ELSE IF status[o] = "claimed" THEN "failed"
            ELSE status[o]]
  /\ UNCHANGED <<due, last, token, age, enqStale, oldClaim, job, lock, mgr,
                 resource, faults, history>>

Next ==
  \/ TickDue \/ LockExpires
  \/ DeleteResource \/ DeleteOldOccurrences
  \/ \E o \in Occ : RowAges(o) \/ EnqueuedAges(o) \/ ClaimAges(o)
  \/ \E m \in Managers : ManagerStep(m) \/ RecordSkipped(m) \/ DispatchThrows(m)
                           \/ ManagerKilled(m)
  \/ \E j \in Jobs : WorkerStep(j) \/ BodyThrows(j) \/ QueueLoses(j)
                       \/ WorkerKilled(j)

Spec == Init /\ [][Next]_vars

\* The scheduler starts a manager every minute, the workers drain the queue,
\* time passes and locks expire; nothing forces an occurrence to become due.
Fairness ==
  /\ WF_vars(LockExpires)
  /\ \A o \in Occ : WF_vars(RowAges(o)) /\ WF_vars(EnqueuedAges(o))
                      /\ WF_vars(ClaimAges(o))
  /\ \A m \in Managers : WF_vars(ManagerStep(m))
  /\ \A j \in Jobs : WF_vars(WorkerStep(j))

FairSpec == Spec /\ Fairness

-----------------------------------------------------------------------------
\* Properties

\* Neither duplicate jobs, late publications nor redelivery start the body of
\* an occurrence twice: claim() lets one job through.
BodyRunsAtMostOnce == \A o \in Occ : ran[o] <= 1

\* An occurrence that was reported to the team as missed does not run, even
\* when its late job starts afterwards, and is reported once even by managers
\* that recover it at the same time: reportMissedOccurrence().
MissedNeverRuns == \A o \in Occ : reports[o] > 0 => ran[o] = 0
MissedReportedOnce == \A o \in Occ : reports[o] <= 1

\* Without a killed manager or a deleted resource, every occurrence that
\* failed without a run is reported, or a manager is about to do so:
\* recoverUnstartedOccurrence().
MissedIsReported ==
  \A o \in Occ : status[o] = "failed" /\ ran[o] = 0 =>
    reports[o] > 0 \/ \E m \in Managers : mgr[m].step = "report" /\ mgr[m].cur = o

\* The bodies of two occurrences of one schedule do not run at once, also
\* after jobs were refused, rejected or killed: withoutOverlapping().
OneRunAtATime ==
  \A i, j \in Jobs : job[i] = "running" /\ job[j] = "running" => i = j

\* A local time that occurs twice when daylight saving time ends runs once:
\* isDuplicateOccurrence().
TwinRunsOnce == \A o \in Twins : ran[o] = 0 \/ ran[o - 1] = 0

Closed == {"failed", "skipped", "gone"}

\* A closed occurrence never opens again, neither by a publisher that loaded it
\* before nor by a manager that finds it due when its row is deleted.
ClosedForever ==
  [][\A o \in Occ : status[o] \in Closed => status'[o] \in Closed]_vars

\* A backup is given up without a run only when a newer occurrence was recorded
\* or it is older than 24 hours: recoverUnstartedOccurrence().
BackupGivenUpWithReason ==
  [][\A o \in Occ : RunsLate /\ status[o] \in Open /\ status'[o] = "failed" =>
       last > o \/ age[o] = "tooOld"]_vars

\* What is seen of the delivery from outside.
StageOf(o) ==
  IF status[o] = "none" THEN "none"
  ELSE IF status[o] \in Open THEN "open"
  ELSE IF status[o] = "claimed" THEN "claimed" ELSE "closed"
Stages == [o \in Occ |-> StageOf(o)]
Busy == {o \in Occ : \E k \in 1..Slots : job[<<o, k>>] = "running"}

Promise == INSTANCE DeliveryPromise WITH
  Occurrences <- Occ, latest <- last, stage <- Stages, runs <- ran, busy <- Busy

\* The rows, claims and locks of managers and workers that know nothing of each
\* other give the delivery that DeliveryPromise states: handle(), claim(),
\* publish(), skip() and failed() interleaved.
ImplementsDeliveryPromise == Promise!Spec

\* Every recorded occurrence is closed in the end: run, skipped or failed.
EveryOccurrenceCloses ==
  \A o \in Occ : status[o] \in Open \union {"claimed"} ~> status[o] \in Closed
=============================================================================
