----------------------- MODULE ScheduledDelivery_proofs -----------------------
(***************************************************************************)
(* Theorems about ScheduledDelivery, for every number of occurrences, jobs *)
(* and managers, every type of job and every combination of faults.        *)
(***************************************************************************)
EXTENDS ScheduledDelivery, TLAPS

MgrType == [phase : Phases, step : Steps, exec : 0..N, todo : SUBSET Occ,
            cur : 0..N, late : BOOLEAN]

-----------------------------------------------------------------------------
(* Type correctness.                                                       *)

\* A job is an occurrence and a slot.
LEMMA JobParts ==
  ASSUME NEW j \in Jobs
  PROVE  j[1] \in Occ /\ j[2] \in 1..Slots /\ j = <<j[1], j[2]>>
  BY DEF Jobs

\* At the start nothing is recorded and every manager is idle.
LEMMA InitType == Init => TypeOK
  BY DeliveryAssumption DEF Init, TypeOK, Idle, Phases, Steps, Occ, RowStatus,
     Open, JobState

\* A manager is replaced by one whose fields have the declared types.
LEMMA SetType ==
  ASSUME TypeOK, NEW m \in Managers, NEW f \in MgrType, Set(m, f),
         f.step # "next" => f.cur \in Occ
  PROVE  /\ mgr' \in [Managers -> MgrType]
         /\ \A n \in Managers : mgr'[n].step # "next" => mgr'[n].cur \in Occ
<1>1. /\ mgr \in [Managers -> MgrType]
      /\ \A n \in Managers : mgr[n].step # "next" => mgr[n].cur \in Occ
  BY DEF TypeOK, MgrType
<1>2. mgr' = [mgr EXCEPT ![m] = f]
  BY DEF Set
<1> QED BY <1>1, <1>2

\* The records that the manager actions store have the declared types.
LEMMA MgrRecords ==
  ASSUME TypeOK, NEW m \in Managers
  PROVE  /\ mgr[m] \in MgrType
         /\ Idle \in MgrType /\ Idle.step = "next" /\ Idle.cur = 0
         /\ Idle.todo = {}
         /\ NextRow(m) \in MgrType /\ NextRow(m).step = "next"
         /\ NextRow(m).todo = mgr[m].todo
         /\ AfterPublish(m) \in MgrType /\ AfterPublish(m).step = "next"
         /\ AfterPublish(m).todo \subseteq mgr[m].todo
         /\ \A o \in FirstRow(m) :
              /\ o \in Occ /\ o \in mgr[m].todo
              /\ Decision(m, o) \in MgrType
              /\ Decision(m, o).step = "move" /\ Decision(m, o).cur = o
              /\ Decision(m, o).todo \subseteq mgr[m].todo
<1>1. mgr[m] \in MgrType
  BY DEF TypeOK, MgrType
<1>2. /\ Idle \in MgrType /\ Idle.step = "next" /\ Idle.cur = 0
      /\ Idle.todo = {}
  BY DeliveryAssumption DEF Idle, MgrType, Phases, Steps
<1>3. /\ NextRow(m) \in MgrType /\ NextRow(m).step = "next"
      /\ NextRow(m).todo = mgr[m].todo
  <2>1. NextRow(m) = [mgr[m] EXCEPT !.step = "next", !.cur = 0, !.late = FALSE]
    BY DEF NextRow
  <2>2. 0 \in 0..N /\ "next" \in Steps
    BY DeliveryAssumption DEF Steps
  <2> QED BY <1>1, <2>1, <2>2 DEF MgrType
<1>4. /\ AfterPublish(m) \in MgrType /\ AfterPublish(m).step = "next"
      /\ AfterPublish(m).todo \subseteq mgr[m].todo
  BY <1>2, <1>3 DEF AfterPublish
<1>5. ASSUME NEW o \in FirstRow(m)
      PROVE  /\ o \in Occ /\ o \in mgr[m].todo
             /\ Decision(m, o) \in MgrType
             /\ Decision(m, o).step = "move" /\ Decision(m, o).cur = o
             /\ Decision(m, o).todo \subseteq mgr[m].todo
  <2>1. o \in Occ /\ o \in mgr[m].todo /\ o \in 0..N
    BY <1>1 DEF FirstRow, MgrType, Occ
  <2> DEFINE late == RunsLate /\ ~NewerExists(o) /\ age[o] # "tooOld"
  <2>2. late \in BOOLEAN
    BY DEF NewerExists, RunsLate
  <2>3. Decision(m, o) = [mgr[m] EXCEPT !.step = "move", !.cur = o,
                                        !.todo = @ \ {o}, !.late = late]
    BY DEF Decision
  <2> HIDE DEF late
  <2>4. "move" \in Steps /\ mgr[m].todo \ {o} \in SUBSET Occ
    BY <1>1 DEF Steps, MgrType
  <2> QED BY <1>1, <2>1, <2>2, <2>3, <2>4, ZenonT(40) DEF MgrType
<1> QED BY <1>1, <1>2, <1>3, <1>4, <1>5

\* TypeOK without the managers.
RowTypeOK ==
  /\ due \in 0..N /\ last \in 0..N
  /\ status \in [Occ -> RowStatus]
  /\ token \in [Occ -> 0..Slots]
  /\ age \in [Occ -> {"new", "stale", "tooOld"}]
  /\ enqStale \subseteq Occ /\ oldClaim \subseteq Occ
  /\ job \in [Jobs -> JobState]
  /\ lock \in Jobs \union {NoJob}
  /\ resource \in BOOLEAN
  /\ faults \in 0..MaxFaults
  /\ ran \in [Occ -> Nat] /\ reports \in [Occ -> Nat]

MgrTypeOK ==
  /\ mgr \in [Managers -> MgrType]
  /\ \A n \in Managers : mgr[n].step # "next" => mgr[n].cur \in Occ

\* The types of the rows and of the managers are proved apart.
LEMMA TypeSplit == TypeOK <=> RowTypeOK /\ MgrTypeOK
  BY DEF TypeOK, RowTypeOK, MgrTypeOK, MgrType

\* What a step of a manager does to its record and to the rows.
LEMMA ManagerType ==
  ASSUME TypeOK, NEW m \in Managers,
         \/ ManagerStep(m) \/ RecordSkipped(m) \/ DispatchThrows(m)
         \/ ManagerKilled(m)
  PROVE  TypeOK'
<1> USE DEF RowTypeOK, RowStatus, Open
<1>0. RowTypeOK /\ MgrTypeOK /\ mgr[m] \in MgrType
  BY TypeSplit, MgrRecords
<1>a. ASSUME NEW f \in MgrType, Set(m, f), f.step # "next" => f.cur \in Occ
      PROVE  MgrTypeOK'
  BY <1>a, SetType DEF MgrTypeOK
<1>b. mgr[m].step # "next" => mgr[m].cur \in Occ
  BY <1>0 DEF MgrTypeOK
<1>c. ASSUME Set(m, Idle) \/ Set(m, NextRow(m)) \/ Set(m, AfterPublish(m))
      PROVE  MgrTypeOK'
  BY <1>a, <1>c, MgrRecords
<1>1. ASSUME Begin(m) PROVE RowTypeOK' /\ MgrTypeOK'
  <2>1. PICK exec \in {0, due} :
          Set(m, [Idle EXCEPT !.phase = "recover", !.exec = exec,
                              !.todo = {o \in enqStale : status[o] = "enqueued"}])
    BY <1>1 DEF Begin
  <2> DEFINE found == {o \in enqStale : status[o] = "enqueued"}
             f == [Idle EXCEPT !.phase = "recover", !.exec = exec, !.todo = found]
  <2>2. found \in SUBSET Occ /\ exec \in 0..N /\ "recover" \in Phases
    BY <1>0, DeliveryAssumption DEF Phases
  <2> HIDE DEF found
  <2>3. f \in MgrType /\ f.step = "next"
    BY <2>2, MgrRecords DEF MgrType
  <2>4. Set(m, f)
    BY <2>1 DEF found
  <2>5. MgrTypeOK'
    BY <1>a, <2>3, <2>4
  <2> QED BY <1>0, <1>1, <2>5 DEF Begin, rows, history
<1>2. ASSUME RecoverNext(m) PROVE RowTypeOK' /\ MgrTypeOK'
  <2>1. PICK o \in FirstRow(m) : Set(m, Decision(m, o))
    BY <1>2 DEF RecoverNext
  <2>2. MgrTypeOK'
    BY <1>a, <2>1, MgrRecords
  <2> QED BY <1>0, <1>2, <2>2 DEF RecoverNext, rows, history
<1>3. ASSUME FailInterruptedClaims(m) PROVE RowTypeOK' /\ MgrTypeOK'
  <2> DEFINE found == {o \in Occ : status[o] = "pending"}
             f == [mgr[m] EXCEPT !.phase = "publish", !.todo = found]
  <2>1. Set(m, f)
    BY <1>3 DEF FailInterruptedClaims
  <2>2. found \in SUBSET Occ /\ "publish" \in Phases /\ mgr[m].step = "next"
    BY <1>3 DEF Phases, FailInterruptedClaims
  <2> HIDE DEF found
  <2>3. f \in MgrType /\ f.step = "next"
    BY <1>0, <2>2 DEF MgrType
  <2>4. MgrTypeOK'
    BY <1>a, <2>1, <2>3
  <2> QED BY <1>0, <1>3, <2>4 DEF FailInterruptedClaims, history
<1>4. ASSUME PublishNext(m) PROVE RowTypeOK' /\ MgrTypeOK'
  <2>1. PICK o \in FirstRow(m) :
          Set(m, IF age[o] # "new" THEN Decision(m, o)
                 ELSE [mgr[m] EXCEPT !.step = "dispatch", !.cur = o, !.todo = @ \ {o}])
    BY <1>4 DEF PublishNext
  <2> DEFINE f == [mgr[m] EXCEPT !.step = "dispatch", !.cur = o, !.todo = @ \ {o}]
  <2>2. /\ o \in Occ /\ o \in 0..N /\ "dispatch" \in Steps
        /\ mgr[m].todo \ {o} \in SUBSET Occ
    BY <1>0, MgrRecords, DeliveryAssumption, SMTT(30) DEF MgrType, Steps, Occ
  <2>3. f \in MgrType /\ f.cur = o
    BY <1>0, <2>2 DEF MgrType
  <2>4. MgrTypeOK'
    BY <1>a, <2>1, <2>2, <2>3, MgrRecords
  <2> QED BY <1>0, <1>4, <2>4 DEF PublishNext, rows, history
<1>5. ASSUME MoveUnstarted(m) PROVE RowTypeOK' /\ MgrTypeOK'
  <2>1. mgr[m].cur \in Occ
    BY <1>5, <1>b DEF MoveUnstarted
  <2> DEFINE f == [mgr[m] EXCEPT !.step = IF mgr[m].late THEN "dispatch" ELSE "report"]
  <2>2. f \in MgrType /\ f.cur = mgr[m].cur
    BY <1>0 DEF MgrType, Steps
  <2>3. Set(m, f) \/ Set(m, NextRow(m))
    BY <1>5 DEF MoveUnstarted, MoveStep
  <2>4. MgrTypeOK'
    BY <1>a, <1>c, <2>1, <2>2, <2>3
  <2>5. status' \in [Occ -> RowStatus]
    BY <1>0, <1>5, <2>1 DEF MoveUnstarted, MoveStep
  <2> QED BY <1>0, <1>5, <2>4, <2>5 DEF MoveUnstarted, history
<1>6. ASSUME ReportMissed(m) PROVE RowTypeOK' /\ MgrTypeOK'
  <2>1. mgr[m].cur \in Occ
    BY <1>6, <1>b DEF ReportMissed
  <2>2. reports' \in [Occ -> Nat]
    BY <1>0, <1>6, <2>1 DEF ReportMissed
  <2>3. MgrTypeOK'
    BY <1>6, <1>c DEF ReportMissed
  <2> QED BY <1>0, <1>6, <2>2, <2>3 DEF ReportMissed, rows
<1>7. ASSUME Publish(m) PROVE RowTypeOK' /\ MgrTypeOK'
  <2>1. mgr[m].cur \in Occ
    BY <1>7, <1>b DEF Publish
  <2> DEFINE f == [mgr[m] EXCEPT !.step = "mark"]
  <2>2. f \in MgrType /\ f.cur = mgr[m].cur
    BY <1>0 DEF MgrType, Steps
  <2>3. MgrTypeOK'
    BY <1>7, <1>a, <2>1, <2>2 DEF Publish
  <2>4. PICK k \in 1..Slots : job' = [job EXCEPT ![<<mgr[m].cur, k>>] = "queued"]
    BY <1>7 DEF Publish, FreeSlots
  <2>5. job' \in [Jobs -> JobState]
    BY <1>0, <2>4 DEF JobState
  <2> QED BY <1>0, <1>7, <2>3, <2>5 DEF Publish, rows, history
<1>8. ASSUME PublishWithoutResource(m) PROVE RowTypeOK' /\ MgrTypeOK'
  BY <1>0, <1>8, <1>c DEF PublishWithoutResource, history
<1>9. ASSUME MarkEnqueued(m) PROVE RowTypeOK' /\ MgrTypeOK'
  BY <1>0, <1>9, <1>b, <1>c DEF MarkEnqueued, MarkRow, history
<1>10. ASSUME Record(m) PROVE RowTypeOK' /\ MgrTypeOK'
  <2>1. mgr[m].exec \in Occ /\ mgr[m].exec \in 0..N
    BY <1>0, <1>10, DeliveryAssumption DEF Record, IsDueNow, MgrType, Occ
  <2> DEFINE f == [mgr[m] EXCEPT !.phase = "due", !.step = "dispatch",
                                 !.cur = mgr[m].exec]
  <2>2. f \in MgrType /\ f.cur = mgr[m].exec
    BY <1>0, <2>1 DEF MgrType, Steps, Phases
  <2>3. MgrTypeOK'
    BY <1>10, <1>a, <2>1, <2>2 DEF Record
  <2> QED BY <1>0, <1>10, <2>1, <2>3 DEF Record, history
<1>11. ASSUME RecordSkipped(m) PROVE RowTypeOK' /\ MgrTypeOK'
  <2>1. mgr[m].exec \in 0..N
    BY <1>0 DEF MgrType
  <2> QED BY <1>0, <1>11, <1>c, <2>1 DEF RecordSkipped, rows, history
<1>12. ASSUME NothingDue(m) PROVE RowTypeOK' /\ MgrTypeOK'
  BY <1>0, <1>12, <1>c DEF NothingDue, rows, history
<1>13. ASSUME DispatchThrows(m) PROVE RowTypeOK' /\ MgrTypeOK'
  BY <1>0, <1>13, <1>c DEF DispatchThrows, rows, history
<1>14. ASSUME ManagerKilled(m) PROVE RowTypeOK' /\ MgrTypeOK'
  BY <1>0, <1>14, <1>c, DeliveryAssumption DEF ManagerKilled, Fault, rows, history
<1>15. RowTypeOK' /\ MgrTypeOK'
  BY <1>1, <1>2, <1>3, <1>4, <1>5, <1>6, <1>7, <1>8, <1>9, <1>10, <1>11, <1>12,
     <1>13, <1>14 DEF ManagerStep
<1> QED BY <1>15 DEF TypeOK, RowTypeOK, MgrTypeOK, MgrType

\* A step of a job or its worker stores values of the declared types.
LEMMA JobStepType ==
  ASSUME TypeOK, NEW j \in Jobs,
         WorkerStep(j) \/ BodyThrows(j) \/ QueueLoses(j) \/ WorkerKilled(j)
  PROVE  TypeOK'
<1> USE DEF RowTypeOK, RowStatus, Open, JobState, Become, history
<1>0. RowTypeOK /\ j[1] \in Occ /\ j[2] \in 0..Slots
  BY TypeSplit, JobParts
<1>a. UNCHANGED mgr
  BY DEF WorkerStep, TakeLock, FindLockHeld, ModelMissing, SkipOccurrence,
     ClaimOccurrence, ClaimRejected, Complete, ReleaseLock, Failed, Redeliver,
     BodyThrows, QueueLoses, WorkerKilled
<1>b. Released(j) \in Jobs \union {NoJob}
  BY <1>0 DEF Released
<1>1. ASSUME TakeLock(j) PROVE RowTypeOK'
  BY <1>0, <1>1 DEF TakeLock, rows
<1>2. ASSUME FindLockHeld(j) \/ ModelMissing(j) \/ QueueLoses(j) PROVE RowTypeOK'
  BY <1>0, <1>2 DEF FindLockHeld, ModelMissing, QueueLoses, rows
<1>3. ASSUME SkipOccurrence(j) PROVE RowTypeOK'
  BY <1>0, <1>3 DEF SkipOccurrence
<1>4. ASSUME ClaimOccurrence(j) PROVE RowTypeOK'
  BY <1>0, <1>4 DEF ClaimOccurrence
<1>5. ASSUME ClaimRejected(j) \/ ReleaseLock(j) \/ BodyThrows(j) PROVE RowTypeOK'
  BY <1>0, <1>b, <1>5 DEF ClaimRejected, ReleaseLock, BodyThrows, rows
<1>6. ASSUME Complete(j) PROVE RowTypeOK'
  BY <1>0, <1>6 DEF Complete
<1>7. ASSUME Failed(j) \/ Redeliver(j) PROVE RowTypeOK'
  BY <1>0, <1>7 DEF Failed, Redeliver, FailRow
<1>8. ASSUME WorkerKilled(j) PROVE RowTypeOK'
  BY <1>0, <1>8, DeliveryAssumption DEF WorkerKilled, Fault, rows
<1>9. RowTypeOK'
  BY <1>1, <1>2, <1>3, <1>4, <1>5, <1>6, <1>7, <1>8 DEF WorkerStep
<1> QED BY <1>a, <1>9 DEF TypeOK, RowTypeOK

\* So does a step of the clock, a deletion and the housekeeping.
LEMMA ClockType ==
  ASSUME TypeOK,
         \/ TickDue \/ LockExpires \/ DeleteResource \/ DeleteOldOccurrences
         \/ \E o \in Occ : RowAges(o) \/ EnqueuedAges(o) \/ ClaimAges(o)
  PROVE  TypeOK'
<1> USE DEF RowTypeOK, RowStatus, Open, history
<1>0. RowTypeOK
  BY TypeSplit
<1>a. UNCHANGED mgr
  BY DEF TickDue, LockExpires, DeleteResource, DeleteOldOccurrences, RowAges,
     EnqueuedAges, ClaimAges
<1>1. ASSUME TickDue PROVE RowTypeOK'
  BY <1>0, <1>1, DeliveryAssumption DEF TickDue, rows
<1>2. ASSUME LockExpires PROVE RowTypeOK'
  BY <1>0, <1>2 DEF LockExpires, rows
<1>3. ASSUME DeleteResource PROVE RowTypeOK'
  <2>1. resource' = FALSE
    BY <1>3 DEF DeleteResource
  <2>2. resource' \in BOOLEAN
    BY <2>1
  <2>3. faults' \in 0..MaxFaults
    BY <1>0, <1>3, DeliveryAssumption DEF DeleteResource, Fault
  <2> QED BY <1>0, <1>3, <2>2, <2>3 DEF DeleteResource, rows
<1>4. ASSUME DeleteOldOccurrences PROVE RowTypeOK'
  <2>1. PICK old \in SUBSET {o \in Occ : Abandoned(o)} :
          status' = [o \in Occ |->
            IF o \notin old THEN status[o]
            ELSE IF status[o] \in {"failed", "skipped"} THEN "gone"
            ELSE IF status[o] = "claimed" THEN "failed"
            ELSE status[o]]
    BY <1>4 DEF DeleteOldOccurrences
  <2>2. status' \in [Occ -> RowStatus]
    BY <1>0, <2>1
  <2> QED BY <1>0, <1>4, <2>2 DEF DeleteOldOccurrences
<1>5. ASSUME NEW o \in Occ, RowAges(o) \/ EnqueuedAges(o) \/ ClaimAges(o)
      PROVE  RowTypeOK'
  BY <1>0, <1>5 DEF RowAges, EnqueuedAges, ClaimAges
<1>6. RowTypeOK'
  BY <1>1, <1>2, <1>3, <1>4, <1>5
<1> QED BY <1>a, <1>6 DEF TypeOK, RowTypeOK

\* Every step stores values of the declared types.
LEMMA NextType == TypeOK /\ [Next]_vars => TypeOK'
<1> SUFFICES ASSUME TypeOK, [Next]_vars PROVE TypeOK'
  OBVIOUS
<1>1. CASE UNCHANGED vars
  BY <1>1 DEF vars, TypeOK
<1> QED BY <1>1, ManagerType, JobStepType, ClockType DEF Next

\* The rows, the jobs and the managers have the declared types, for every
\* value of the constants.
THEOREM TypeCorrect == Spec => []TypeOK
<1>1. Init => TypeOK
  BY InitType
<1>2. TypeOK /\ [Next]_vars => TypeOK'
  BY NextType
<1> QED BY <1>1, <1>2, PTL DEF Spec

-----------------------------------------------------------------------------
(* The inductive invariant.                                                *)

\* A row exists only for a recorded occurrence, and so do the rows and the
\* tokens that the managers and the jobs hold.
RecordedInv ==
  /\ \A o \in Occ : status[o] # "none" => o <= last
  /\ \A o \in Occ : token[o] # 0 => status[o] # "none"
  /\ \A m \in Managers :
       /\ mgr[m].step # "next" => mgr[m].cur <= last /\ status[mgr[m].cur] # "none"
       /\ \A o \in mgr[m].todo : status[o] # "none"

\* An occurrence that can still be claimed was neither run nor reported.
UnstartedInv ==
  \A o \in Occ : status[o] \in Open \union {"none"} => ran[o] = 0 /\ reports[o] = 0

\* A job that has not claimed does not hold the token.
TokenInv == \A j \in Jobs : job[j] \in {"queued", "locked"} => ~TokenOf(j)

\* The occurrence that a manager is about to report is closed, was neither run
\* nor reported, and no other manager is about to report it.
Reports(m, o) == mgr[m].step = "report" /\ mgr[m].cur = o
ReporterInv ==
  /\ \A m \in Managers, o \in Occ :
       Reports(m, o) => status[o] \in Closed /\ ran[o] = 0 /\ reports[o] = 0
  /\ \A m, n \in Managers, o \in Occ : Reports(m, o) /\ Reports(n, o) => m = n

IndInv ==
  /\ TypeOK /\ RecordedInv /\ UnstartedInv /\ TokenInv /\ ReporterInv
  /\ BodyRunsAtMostOnce /\ MissedNeverRuns /\ MissedReportedOnce

\* Nothing is recorded at the start.
LEMMA InitInv == Init => IndInv
<1> SUFFICES ASSUME Init PROVE IndInv
  OBVIOUS
<1>1. TypeOK
  BY InitType
<1>2. \A m \in Managers : mgr[m].step = "next" /\ mgr[m].todo = {}
  BY DEF Init, Idle
<1>3. RecordedInv /\ UnstartedInv
  BY <1>1, <1>2 DEF Init, RecordedInv, UnstartedInv, Open, TypeOK
<1>4. TokenInv /\ ReporterInv
  BY <1>1, <1>2 DEF Init, TokenInv, ReporterInv, Reports, TypeOK
<1>5. BodyRunsAtMostOnce /\ MissedNeverRuns /\ MissedReportedOnce
  BY DEF Init, BodyRunsAtMostOnce, MissedNeverRuns, MissedReportedOnce
<1> QED BY <1>1, <1>3, <1>4, <1>5 DEF IndInv

\* The parts of the invariant that speak of one occurrence.
RowInv(o) ==
  /\ status[o] # "none" => o <= last
  /\ token[o] # 0 => status[o] # "none"
  /\ status[o] \in Open \union {"none"} => ran[o] = 0 /\ reports[o] = 0
  /\ ran[o] <= 1 /\ reports[o] <= 1
  /\ reports[o] > 0 => ran[o] = 0

\* The parts that speak of a manager.
MgrInv ==
  /\ \A m \in Managers :
       /\ mgr[m].step # "next" => mgr[m].cur <= last /\ status[mgr[m].cur] # "none"
       /\ \A o \in mgr[m].todo : status[o] # "none"
  /\ ReporterInv

\* A step that leaves the managers alone, creates no row, opens none and
\* changes no report and no run of a closed one keeps what they rely on.
LEMMA ManagersUndisturbed ==
  ASSUME IndInv, TypeOK', UNCHANGED mgr, UNCHANGED reports, last' = last,
         \A o \in Occ : status[o] # "none" => status'[o] # "none",
         \A o \in Occ : status[o] \in Closed =>
           status'[o] \in Closed /\ ran'[o] = ran[o]
  PROVE  MgrInv'
<1>1. ReporterInv'
  BY DEF IndInv, ReporterInv, Reports
<1>2. ASSUME NEW m \in Managers, mgr[m].step # "next"
      PROVE  mgr[m].cur <= last /\ status'[mgr[m].cur] # "none"
  BY <1>2 DEF IndInv, RecordedInv, TypeOK
<1>3. ASSUME NEW m \in Managers, NEW o \in mgr[m].todo
      PROVE  status'[o] # "none"
  BY <1>3 DEF IndInv, RecordedInv, TypeOK
<1> QED BY <1>1, <1>2, <1>3 DEF MgrInv

\* The parts together are the invariant.
LEMMA Compose ==
  ASSUME TypeOK', \A o \in Occ : RowInv(o)', MgrInv', TokenInv'
  PROVE  IndInv'
  BY DEF IndInv, RowInv, MgrInv, RecordedInv, UnstartedInv, BodyRunsAtMostOnce,
     MissedNeverRuns, MissedReportedOnce

\* And the invariant gives the parts.
LEMMA Decompose == IndInv => (\A o \in Occ : RowInv(o)) /\ MgrInv
  BY DEF IndInv, RowInv, MgrInv, RecordedInv, UnstartedInv, BodyRunsAtMostOnce,
     MissedNeverRuns, MissedReportedOnce

\* The clock, deletions and the housekeeping keep the invariant.
LEMMA ClockInv ==
  ASSUME IndInv, TypeOK',
         \/ TickDue \/ LockExpires \/ DeleteResource \/ DeleteOldOccurrences
         \/ \E o \in Occ : RowAges(o) \/ EnqueuedAges(o) \/ ClaimAges(o)
  PROVE  IndInv'
<1>1. /\ UNCHANGED <<mgr, reports, ran, last, token, job>>
      /\ \A o \in Occ : \/ status'[o] = status[o]
                        \/ status[o] \in Closed \union {"claimed"} /\ status'[o] \in Closed
  <2>1. CASE DeleteOldOccurrences
    BY <2>1 DEF DeleteOldOccurrences, Closed, history
  <2>2. CASE TickDue \/ LockExpires \/ DeleteResource
             \/ \E o \in Occ : RowAges(o) \/ EnqueuedAges(o) \/ ClaimAges(o)
    BY <2>2 DEF TickDue, LockExpires, DeleteResource, RowAges, EnqueuedAges,
       ClaimAges, rows, history
  <2> QED BY <2>1, <2>2
<1>2. MgrInv'
  BY <1>1, ManagersUndisturbed DEF Closed
<1>3. \A o \in Occ : RowInv(o)'
  BY <1>1, Decompose DEF RowInv, Closed, Open
<1>4. TokenInv'
  BY <1>1 DEF IndInv, TokenInv, TokenOf
<1> QED BY <1>2, <1>3, <1>4, Compose

\* A step of a job or its worker keeps the invariant.
LEMMA JobInv ==
  ASSUME IndInv, TypeOK', NEW j \in Jobs,
         WorkerStep(j) \/ BodyThrows(j) \/ QueueLoses(j) \/ WorkerKilled(j)
  PROVE  IndInv'
<1>0. /\ j[1] \in Occ /\ j[2] \in 1..Slots
      /\ \A i \in Jobs : i[1] = j[1] /\ i[2] = j[2] => i = j
  BY JobParts
<1>t. TypeOK /\ TokenInv
  BY DEF IndInv
<1>1. CASE ClaimOccurrence(j)
  <2>1. /\ job[j] = "locked" /\ status[j[1]] \in Open
        /\ status' = [status EXCEPT ![j[1]] = "claimed"]
        /\ token' = [token EXCEPT ![j[1]] = j[2]]
        /\ ran' = [ran EXCEPT ![j[1]] = @ + 1]
        /\ job' = [job EXCEPT ![j] = "running"]
        /\ UNCHANGED <<last, mgr, reports>>
    BY <1>1, <1>t DEF ClaimOccurrence, Claimable, TokenInv, Become
  <2>2. \A o \in Occ : RowInv(o)'
    BY <1>0, <1>t, <2>1, Decompose DEF RowInv, TypeOK, Open
  <2>3. MgrInv'
    BY <1>0, <1>t, <2>1, ManagersUndisturbed DEF TypeOK, Open, Closed
  <2>4. TokenInv'
    <3> SUFFICES ASSUME NEW i \in Jobs, job'[i] \in {"queued", "locked"}
                 PROVE  token'[i[1]] # i[2]
      BY DEF TokenInv, TokenOf
    <3>1. i # j /\ job[i] \in {"queued", "locked"} /\ i[1] \in Occ
      BY <1>t, <2>1, JobParts DEF TypeOK
    <3>2. token[i[1]] # i[2]
      BY <1>t, <3>1 DEF TokenInv, TokenOf
    <3> QED BY <1>0, <1>t, <2>1, <3>1, <3>2 DEF TypeOK
  <2> QED BY <2>2, <2>3, <2>4, Compose
<1>2. CASE ~ClaimOccurrence(j)
  <2>1. UNCHANGED <<mgr, reports, ran, last, token>>
    BY <1>2 DEF WorkerStep, TakeLock, FindLockHeld, ModelMissing, SkipOccurrence,
       ClaimRejected, Complete, ReleaseLock, Failed, Redeliver, BodyThrows,
       QueueLoses, WorkerKilled, rows, history
  <2>2. TokenOf(j) => status[j[1]] # "none"
    BY <1>0, <1>t DEF TokenOf, IndInv, RecordedInv, TypeOK
  <2>3. \A o \in Occ : \/ status'[o] = status[o]
                       \/ status[o] # "none" /\ status'[o] \in Closed
    <3>1. CASE SkipOccurrence(j)
      BY <1>0, <1>t, <3>1 DEF SkipOccurrence, Open, Closed, TypeOK
    <3>2. CASE Complete(j)
      BY <1>0, <1>t, <2>2, <3>2 DEF Complete, Closed, TypeOK
    <3>3. CASE Failed(j) \/ Redeliver(j)
      BY <1>0, <1>t, <2>2, <3>3 DEF Failed, Redeliver, FailRow, Closed, TypeOK
    <3>4. CASE UNCHANGED status
      BY <3>4
    <3> QED BY <1>2, <3>1, <3>2, <3>3, <3>4 DEF WorkerStep, TakeLock,
            FindLockHeld, ModelMissing, ClaimRejected, ReleaseLock, BodyThrows,
            QueueLoses, WorkerKilled, rows
  <2>4. \E state \in JobState : /\ job' = [job EXCEPT ![j] = state]
                                /\ state = "locked" => job[j] = "queued"
                                /\ state # "queued"
    BY <1>2 DEF WorkerStep, TakeLock, FindLockHeld, ModelMissing, SkipOccurrence,
       ClaimRejected, Complete, ReleaseLock, Failed, Redeliver, BodyThrows,
       QueueLoses, WorkerKilled, Become, JobState
  <2>5. \A o \in Occ : RowInv(o)'
    BY <2>1, <2>3, Decompose DEF RowInv, Closed, Open
  <2>6. MgrInv'
    BY <2>1, <2>3, ManagersUndisturbed DEF Closed
  <2>7. TokenInv'
    <3> SUFFICES ASSUME NEW i \in Jobs, job'[i] \in {"queued", "locked"}
                 PROVE  token[i[1]] # i[2]
      BY <2>1 DEF TokenInv, TokenOf
    <3>1. PICK state \in JobState : /\ job' = [job EXCEPT ![j] = state]
                                    /\ state = "locked" => job[j] = "queued"
                                    /\ state # "queued"
      BY <2>4
    <3>2. job'[j] = state /\ (i # j => job'[i] = job[i])
      BY <1>t, <3>1 DEF TypeOK
    <3>3. job[i] \in {"queued", "locked"}
      BY <3>1, <3>2
    <3> QED BY <1>t, <3>3 DEF TokenInv, TokenOf
  <2> QED BY <2>5, <2>6, <2>7, Compose
<1> QED BY <1>1, <1>2

\* A manager is replaced by a record that has no report to make and whose row
\* and rows to do were recorded.
LEMMA OtherManagers ==
  ASSUME IndInv, TypeOK', NEW m \in Managers, NEW f, Set(m, f),
         f.step # "next" => f.cur <= last' /\ status'[f.cur] # "none",
         \A o \in f.todo : status'[o] # "none",
         f.step # "report",
         UNCHANGED ran, last <= last',
         \A o \in Occ : status[o] # "none" => status'[o] # "none",
         \A o \in Occ : status[o] \in Closed => status'[o] \in Closed,
         \A o \in Occ : reports'[o] = reports[o]
           \/ (mgr[m].step = "report" /\ mgr[m].cur = o)
  PROVE  MgrInv'
<1>t. TypeOK /\ RecordedInv /\ ReporterInv
  BY DEF IndInv
<1>1. /\ mgr'[m] = f
      /\ \A n \in Managers : n # m => mgr'[n] = mgr[n]
  BY <1>t DEF Set, TypeOK
<1>2. last \in Nat /\ last' \in Nat
  BY <1>t, DeliveryAssumption DEF TypeOK
<1>3. ASSUME NEW n \in Managers
      PROVE  /\ mgr'[n].step # "next" =>
                  mgr'[n].cur <= last' /\ status'[mgr'[n].cur] # "none"
             /\ \A o \in mgr'[n].todo : status'[o] # "none"
  <2>1. CASE n = m
    BY <1>1, <2>1
  <2>2. CASE n # m
    <3>1. mgr[n].step # "next" => mgr[n].cur \in Occ /\ mgr[n].cur \in Nat
      BY <1>t DEF TypeOK, Occ
    <3>2. mgr[n].todo \subseteq Occ
      BY <1>t DEF TypeOK
    <3> QED BY <1>t, <1>1, <1>2, <2>2, <3>1, <3>2 DEF RecordedInv
  <2> QED BY <2>1, <2>2
<1>4. ASSUME NEW n \in Managers, NEW o \in Occ, Reports(n, o)'
      PROVE  Reports(n, o) /\ n # m
  BY <1>1, <1>4 DEF Reports
<1>5. ReporterInv'
  <2>1. ASSUME NEW n \in Managers, NEW o \in Occ, Reports(n, o)'
        PROVE  status'[o] \in Closed /\ ran'[o] = 0 /\ reports'[o] = 0
    <3>1. Reports(n, o) /\ n # m
      BY <1>4, <2>1
    <3>2. status[o] \in Closed /\ ran[o] = 0 /\ reports[o] = 0 /\ ~Reports(m, o)
      BY <1>t, <3>1 DEF ReporterInv
    <3> QED BY <3>2 DEF Reports
  <2>2. ASSUME NEW n \in Managers, NEW p \in Managers, NEW o \in Occ,
               Reports(n, o)', Reports(p, o)'
        PROVE  n = p
    BY <1>4, <1>t, <2>2 DEF ReporterInv
  <2> QED BY <2>1, <2>2 DEF ReporterInv
<1> QED BY <1>3, <1>5 DEF MgrInv

\* MgrInv, with the parts of the records that it is about.
LEMMA ManagerFacts ==
  ASSUME IndInv, NEW m \in Managers
  PROVE  /\ mgr[m] \in MgrType
         /\ mgr[m].step # "next" =>
              mgr[m].cur \in Occ /\ mgr[m].cur <= last /\ status[mgr[m].cur] # "none"
         /\ \A o \in mgr[m].todo : o \in Occ /\ o <= last /\ status[o] # "none"
<1>1. TypeOK /\ RecordedInv
  BY DEF IndInv
<1>2. mgr[m] \in MgrType
  BY <1>1 DEF TypeOK, MgrType
<1> QED BY <1>1, <1>2 DEF TypeOK, RecordedInv, MgrType

\* A step of a manager keeps the invariant.
LEMMA ManagerInv ==
  ASSUME IndInv, TypeOK', NEW m \in Managers,
         \/ ManagerStep(m) \/ RecordSkipped(m) \/ DispatchThrows(m)
         \/ ManagerKilled(m)
  PROVE  IndInv'
<1>0. /\ mgr[m] \in MgrType
      /\ mgr[m].step # "next" =>
           mgr[m].cur \in Occ /\ mgr[m].cur <= last /\ status[mgr[m].cur] # "none"
      /\ \A o \in mgr[m].todo : o \in Occ /\ o <= last /\ status[o] # "none"
  BY ManagerFacts
<1>t. TypeOK /\ last \in Nat
  BY DeliveryAssumption DEF IndInv, TypeOK
<1>d. \A o \in Occ : RowInv(o)
  BY Decompose
<1>r. /\ Idle.step = "next" /\ Idle.todo = {}
      /\ NextRow(m).step = "next" /\ NextRow(m).todo = mgr[m].todo
      /\ AfterPublish(m).step = "next" /\ AfterPublish(m).todo \subseteq mgr[m].todo
  BY <1>t, MgrRecords
\* A step that leaves the rows and the jobs as they are.
<1>s. ASSUME NEW f, Set(m, f), UNCHANGED <<last, rows, job, history>>,
             f.step # "report",
             f.step # "next" => f.cur <= last /\ status[f.cur] # "none",
             \A o \in f.todo : status[o] # "none"
      PROVE  IndInv'
  <2>1. MgrInv'
    BY <1>s, <1>t, OtherManagers DEF rows, history
  <2>2. \A o \in Occ : RowInv(o)'
    BY <1>s, <1>d DEF RowInv, rows, history
  <2>3. TokenInv'
    BY <1>s DEF IndInv, TokenInv, TokenOf, rows
  <2> QED BY <2>1, <2>2, <2>3, Compose
\* A step that closes, enqueues or keeps rows that are not "none".
<1>u. ASSUME NEW f, Set(m, f), UNCHANGED <<last, token, job, history>>,
             f.step = "next" \/ (f.step # "report" /\ f.cur = mgr[m].cur
                                   /\ mgr[m].step # "next"),
             \A o \in f.todo : o \in Occ /\ status[o] # "none",
             \A o \in Occ : \/ status'[o] = status[o]
                            \/ status[o] # "none" /\ status'[o] \in Closed
                            \/ status[o] \in Open /\ status'[o] \in Open
      PROVE  IndInv'
  <2>1. \A o \in Occ : /\ status[o] # "none" => status'[o] # "none"
                       /\ status[o] \in Closed => status'[o] \in Closed
    BY <1>u DEF Closed, Open
  <2>2. f.step # "next" => f.cur <= last /\ status'[f.cur] # "none"
    BY <1>0, <1>u, <2>1
  <2>3. \A o \in f.todo : status'[o] # "none"
    BY <1>u, <2>1
  <2>4. MgrInv'
    BY <1>u, <1>t, <2>1, <2>2, <2>3, OtherManagers DEF history
  <2>5. \A o \in Occ : RowInv(o)'
    BY <1>u, <1>d DEF RowInv, Closed, Open, history
  <2>6. TokenInv'
    BY <1>u DEF IndInv, TokenInv, TokenOf
  <2> QED BY <2>4, <2>5, <2>6, Compose
<1>1. CASE Begin(m)
  <2>1. PICK exec \in {0, due} :
          Set(m, [Idle EXCEPT !.phase = "recover", !.exec = exec,
                              !.todo = {o \in enqStale : status[o] = "enqueued"}])
    BY <1>1 DEF Begin
  <2> DEFINE f == [Idle EXCEPT !.phase = "recover", !.exec = exec,
                               !.todo = {o \in enqStale : status[o] = "enqueued"}]
  <2>2. f.step = "next" /\ f.todo = {o \in enqStale : status[o] = "enqueued"}
    BY DEF Idle
  <2>3. Set(m, f)
    BY <2>1
  <2> HIDE DEF f
  <2> QED BY <1>1, <1>s, <2>2, <2>3 DEF Begin
<1>2. CASE RecoverNext(m)
  <2>1. PICK o \in FirstRow(m) : Set(m, Decision(m, o))
    BY <1>2 DEF RecoverNext
  <2>2. /\ o \in mgr[m].todo /\ Decision(m, o).step = "move"
        /\ Decision(m, o).cur = o /\ Decision(m, o).todo \subseteq mgr[m].todo
    BY <1>t, MgrRecords
  <2> QED BY <1>0, <1>2, <1>s, <2>1, <2>2 DEF RecoverNext
<1>3. CASE FailInterruptedClaims(m)
  <2> DEFINE f == [mgr[m] EXCEPT !.phase = "publish",
                                 !.todo = {o \in Occ : status[o] = "pending"}]
  <2>1. Set(m, f)
    BY <1>3 DEF FailInterruptedClaims
  <2>2. f.step = "next" /\ f.todo = {o \in Occ : status[o] = "pending"}
    BY <1>0, <1>3 DEF FailInterruptedClaims, MgrType
  <2>3. \A o \in Occ : \/ status'[o] = status[o]
                       \/ status[o] # "none" /\ status'[o] \in Closed
    BY <1>3 DEF FailInterruptedClaims, Closed
  <2>4. \A o \in f.todo : o \in Occ /\ status[o] # "none"
    BY <2>2
  <2>5. UNCHANGED <<last, token, job, history>>
    BY <1>3 DEF FailInterruptedClaims
  <2> HIDE DEF f
  <2> QED BY <1>u, <2>1, <2>2, <2>3, <2>4, <2>5
<1>4. CASE PublishNext(m)
  <2>1. PICK o \in FirstRow(m) :
          Set(m, IF age[o] # "new" THEN Decision(m, o)
                 ELSE [mgr[m] EXCEPT !.step = "dispatch", !.cur = o, !.todo = @ \ {o}])
    BY <1>4 DEF PublishNext
  <2>2. /\ o \in mgr[m].todo /\ Decision(m, o).step = "move"
        /\ Decision(m, o).cur = o /\ Decision(m, o).todo \subseteq mgr[m].todo
    BY <1>t, MgrRecords
  <2> DEFINE f == [mgr[m] EXCEPT !.step = "dispatch", !.cur = o, !.todo = @ \ {o}]
  <2>3. f.step = "dispatch" /\ f.cur = o /\ f.todo \subseteq mgr[m].todo
    BY <1>0 DEF MgrType
  <2>4. Set(m, Decision(m, o)) \/ Set(m, f)
    BY <2>1
  <2> HIDE DEF f
  <2> QED BY <1>0, <1>4, <1>s, <2>2, <2>3, <2>4 DEF PublishNext
<1>5. CASE MoveUnstarted(m)
  <2>0. mgr[m].step = "move"
    BY <1>5 DEF MoveUnstarted
  <2> DEFINE o == mgr[m].cur
             f == [mgr[m] EXCEPT !.step = IF mgr[m].late THEN "dispatch" ELSE "report"]
  <2>1. f.cur = o /\ f.todo = mgr[m].todo
        /\ f.step = IF mgr[m].late THEN "dispatch" ELSE "report"
    BY <1>0 DEF MgrType
  <2>2. CASE ~StillStale(m, o)
    <3>1. Set(m, NextRow(m)) /\ UNCHANGED <<last, rows, job, history>>
      BY <1>5, <2>2 DEF MoveUnstarted, MoveStep, rows
    <3> QED BY <1>0, <1>r, <1>s, <3>1
  <2>3. CASE StillStale(m, o) /\ mgr[m].late
    <3>1. /\ Set(m, f) /\ UNCHANGED <<last, token, job, history>>
          /\ status' = [status EXCEPT ![o] = "pending"]
      BY <1>5, <2>3 DEF MoveUnstarted, MoveStep
    <3>2. status[o] \in Open
      BY <2>3 DEF StillStale, Open
    <3>3. \A p \in Occ : status'[p] = status[p] \/ (status[p] \in Open /\ status'[p] \in Open)
      BY <1>t, <3>1, <3>2 DEF Open, TypeOK
    <3>4. f.step = "dispatch" /\ f.cur = mgr[m].cur /\ mgr[m].step # "next"
      BY <2>0, <2>1, <2>3
    <3>5. \A p \in f.todo : p \in Occ /\ status[p] # "none"
      BY <1>0, <2>1
    <3> HIDE DEF f
    <3> QED BY <1>u, <3>1, <3>3, <3>4, <3>5
  <2>4. CASE StillStale(m, o) /\ ~mgr[m].late
    <3>1. /\ Set(m, f) /\ UNCHANGED <<last, token, job, history>>
          /\ status' = [status EXCEPT ![o] = "failed"]
      BY <1>5, <2>4 DEF MoveUnstarted, MoveStep
    <3>2. status[o] \in Open /\ o \in Occ /\ o <= last
      BY <1>0, <2>0, <2>4 DEF StillStale, Open
    <3>3. \A p \in Occ : RowInv(p)'
      BY <1>d, <1>t, <3>1, <3>2 DEF RowInv, Open, TypeOK, history
    <3>4. TokenInv'
      BY <3>1 DEF IndInv, TokenInv, TokenOf
    <3>5. /\ mgr'[m] = f
          /\ \A n \in Managers : n # m => mgr'[n] = mgr[n]
      BY <1>t, <3>1 DEF Set, TypeOK
    <3>6. \A n \in Managers : n # m => ~Reports(n, o)
      BY <3>2 DEF IndInv, ReporterInv, Open, Closed
    <3>7. ran[o] = 0 /\ reports[o] = 0
      BY <1>d, <3>2 DEF RowInv
    <3>8. \A p \in Occ : status[p] # "none" => status'[p] # "none"
      BY <1>t, <3>1 DEF TypeOK
    <3> HIDE DEF f
    <3>9. ASSUME NEW n \in Managers
          PROVE  /\ mgr'[n].step # "next" =>
                      mgr'[n].cur <= last' /\ status'[mgr'[n].cur] # "none"
                 /\ \A p \in mgr'[n].todo : status'[p] # "none"
      <4>1. /\ mgr'[n].todo = mgr[n].todo /\ mgr'[n].cur = mgr[n].cur
            /\ mgr'[n].step # "next" => mgr[n].step # "next"
        BY <2>0, <2>1, <3>5
      <4>2. /\ mgr[n].step # "next" =>
                 mgr[n].cur \in Occ /\ mgr[n].cur <= last /\ status[mgr[n].cur] # "none"
            /\ \A p \in mgr[n].todo : p \in Occ /\ status[p] # "none"
        BY ManagerFacts
      <4> QED BY <3>1, <3>8, <4>1, <4>2
    <3>10. ReporterInv'
      <4>1. \A p \in Occ : Reports(m, p)' => p = o
        BY <2>1, <3>5 DEF Reports
      <4>2. \A n \in Managers, p \in Occ :
              n # m => (Reports(n, p)' <=> Reports(n, p))
        BY <3>5 DEF Reports
      <4>3. \A n \in Managers, p \in Occ : n # m /\ Reports(n, p) =>
              p # o /\ status[p] \in Closed /\ ran[p] = 0 /\ reports[p] = 0
        BY <3>6 DEF IndInv, ReporterInv
      <4>4. \A p \in Occ : p # o => status'[p] = status[p]
        BY <1>t, <3>1 DEF TypeOK
      <4>5. status'[o] \in Closed
        BY <1>t, <3>1, <3>2 DEF TypeOK, Closed
      <4>6. \A n, q \in Managers, p \in Occ : Reports(n, p) /\ Reports(q, p) => n = q
        BY DEF IndInv, ReporterInv
      <4>7. \A n \in Managers, p \in Occ : Reports(n, p)' =>
              status'[p] \in Closed /\ ran'[p] = 0 /\ reports'[p] = 0
        BY <3>1, <3>7, <4>1, <4>2, <4>3, <4>4, <4>5 DEF history
      <4>8. \A n, q \in Managers, p \in Occ : Reports(n, p)' /\ Reports(q, p)' => n = q
        BY <4>1, <4>2, <4>3, <4>6
      <4> QED BY <4>7, <4>8 DEF ReporterInv
    <3> QED BY <3>3, <3>4, <3>9, <3>10, Compose DEF MgrInv
  <2> QED BY <2>2, <2>3, <2>4
<1>6. CASE ReportMissed(m)
  <2> DEFINE o == mgr[m].cur
  <2>1. /\ mgr[m].step = "report" /\ Set(m, NextRow(m)) /\ o \in Occ
        /\ UNCHANGED <<last, rows, job, ran>>
        /\ reports' = reports \/ reports' = [reports EXCEPT ![o] = @ + 1]
    BY <1>0, <1>6 DEF ReportMissed
  <2>2. status[o] \in Closed /\ ran[o] = 0 /\ reports[o] = 0
    BY <2>1 DEF IndInv, ReporterInv, Reports
  <2>3. \A p \in Occ : p # o => reports'[p] = reports[p]
    BY <1>t, <2>1 DEF TypeOK
  <2>4. reports'[o] \in {0, 1}
    BY <1>t, <2>1, <2>2 DEF TypeOK
  <2>5. MgrInv'
    BY <1>0, <1>r, <1>t, <2>1, <2>3, OtherManagers DEF rows
  <2>6. \A p \in Occ : RowInv(p)'
    BY <1>d, <2>1, <2>2, <2>3, <2>4 DEF RowInv, rows, Closed, Open
  <2>7. TokenInv'
    BY <2>1 DEF IndInv, TokenInv, TokenOf, rows
  <2> QED BY <2>5, <2>6, <2>7, Compose
<1>7. CASE Publish(m)
  <2> DEFINE f == [mgr[m] EXCEPT !.step = "mark"]
  <2>1. f.cur = mgr[m].cur /\ f.todo = mgr[m].todo /\ f.step = "mark"
    BY <1>0 DEF MgrType
  <2>2. /\ Set(m, f) /\ mgr[m].step = "dispatch"
        /\ UNCHANGED <<last, rows, history>>
    BY <1>7 DEF Publish
  <2> HIDE DEF f
  <2>3. MgrInv'
    BY <1>0, <1>t, <2>1, <2>2, OtherManagers DEF rows, history
  <2>4. \A o \in Occ : RowInv(o)'
    BY <1>d, <2>2 DEF RowInv, rows, history
  <2>5. PICK k \in 1..Slots :
          k # token[mgr[m].cur] /\ job' = [job EXCEPT ![<<mgr[m].cur, k>>] = "queued"]
    BY <1>7 DEF Publish, FreeSlots
  <2>6. TokenInv'
    <3> SUFFICES ASSUME NEW i \in Jobs, job'[i] \in {"queued", "locked"}
                 PROVE  token[i[1]] # i[2]
      BY <2>2 DEF TokenInv, TokenOf, rows
    <3>1. CASE i = <<mgr[m].cur, k>>
      BY <2>5, <3>1
    <3>2. CASE i # <<mgr[m].cur, k>>
      <4>1. job'[i] = job[i]
        BY <1>t, <2>5, <3>2 DEF TypeOK
      <4> QED BY <4>1 DEF IndInv, TokenInv, TokenOf
    <3> QED BY <3>1, <3>2
  <2> QED BY <2>3, <2>4, <2>6, Compose
<1>8. CASE PublishWithoutResource(m)
  <2>1. /\ Set(m, AfterPublish(m)) /\ mgr[m].cur \in Occ
        /\ status[mgr[m].cur] # "none"
        /\ UNCHANGED <<last, token, job, history>>
        /\ status' = status \/ status' = [status EXCEPT ![mgr[m].cur] = "skipped"]
    BY <1>0, <1>8 DEF PublishWithoutResource
  <2>2. \A o \in Occ : \/ status'[o] = status[o]
                       \/ status[o] # "none" /\ status'[o] \in Closed
    BY <1>t, <2>1 DEF TypeOK, Closed
  <2>3. \A o \in AfterPublish(m).todo : o \in Occ /\ status[o] # "none"
    BY <1>0, <1>r
  <2> QED BY <1>r, <1>u, <2>1, <2>2, <2>3
<1>9. CASE MarkEnqueued(m)
  <2>1. /\ Set(m, AfterPublish(m)) /\ mgr[m].cur \in Occ
        /\ UNCHANGED <<last, token, job, history>>
        /\ \/ status' = status
           \/ /\ status[mgr[m].cur] = "pending"
              /\ status' = [status EXCEPT ![mgr[m].cur] = "enqueued"]
    BY <1>0, <1>9 DEF MarkEnqueued, MarkRow
  <2>2. \A o \in Occ : status'[o] = status[o] \/ (status[o] \in Open /\ status'[o] \in Open)
    BY <1>t, <2>1 DEF TypeOK, Open
  <2>3. \A o \in AfterPublish(m).todo : o \in Occ /\ status[o] # "none"
    BY <1>0, <1>r
  <2> QED BY <1>r, <1>u, <2>1, <2>2, <2>3
<1>10. CASE Record(m)
  <2> DEFINE o == mgr[m].exec
             f == [mgr[m] EXCEPT !.phase = "due", !.step = "dispatch", !.cur = o]
  <2>1. o \in Occ /\ o \in Nat /\ last < o
    BY <1>0, <1>t, <1>10, DeliveryAssumption
       DEF Record, IsDueNow, IsDuplicateOccurrence, MgrType, Occ
  <2>2. f.cur = o /\ f.step = "dispatch" /\ f.todo = mgr[m].todo
    BY <1>0 DEF MgrType
  <2>3. /\ Set(m, f) /\ last' = o /\ status' = [status EXCEPT ![o] = "pending"]
        /\ UNCHANGED <<token, job, history>>
    BY <1>10 DEF Record
  <2>4. status[o] = "none" /\ token[o] = 0 /\ ran[o] = 0 /\ reports[o] = 0
    BY <1>d, <1>t, <2>1 DEF RowInv
  <2> HIDE DEF f
  <2>5. /\ status'[o] = "pending"
        /\ \A p \in Occ : p # o => status'[p] = status[p]
    BY <1>t, <2>1, <2>3 DEF TypeOK
  <2>6. MgrInv'
    <3>1. f.cur <= last' /\ status'[f.cur] # "none"
      BY <2>1, <2>2, <2>3, <2>5
    <3>2. \A p \in f.todo : status'[p] # "none"
      BY <1>0, <2>2, <2>4, <2>5
    <3>3. \A p \in Occ : /\ status[p] # "none" => status'[p] # "none"
                         /\ status[p] \in Closed => status'[p] \in Closed
      BY <2>4, <2>5 DEF Closed
    <3>4. last <= last'
      BY <1>t, <2>1, <2>3
    <3> QED BY <2>2, <2>3, <3>1, <3>2, <3>3, <3>4, OtherManagers DEF history
  <2>7. \A p \in Occ : RowInv(p)'
    <3> SUFFICES ASSUME NEW p \in Occ PROVE RowInv(p)'
      OBVIOUS
    <3>1. p \in Nat
      BY DEF Occ
    <3> QED BY <1>d, <1>t, <2>1, <2>3, <2>4, <2>5, <3>1 DEF RowInv, Open, history
  <2>8. TokenInv'
    BY <2>3 DEF IndInv, TokenInv, TokenOf
  <2> QED BY <2>6, <2>7, <2>8, Compose
<1>11. CASE RecordSkipped(m)
  <2>1. /\ Set(m, Idle) /\ last' = mgr[m].exec /\ last < last' /\ last' \in Nat
        /\ UNCHANGED <<rows, job, history>>
    BY <1>0, <1>t, <1>11, DeliveryAssumption
       DEF RecordSkipped, IsDueNow, IsDuplicateOccurrence, MgrType
  <2>2. MgrInv'
    BY <1>r, <1>t, <2>1, OtherManagers DEF rows, history
  <2>3. \A p \in Occ : RowInv(p)'
    <3> SUFFICES ASSUME NEW p \in Occ PROVE RowInv(p)'
      OBVIOUS
    <3>1. p \in Nat
      BY DEF Occ
    <3> QED BY <1>d, <1>t, <2>1, <3>1 DEF RowInv, rows, history
  <2>4. TokenInv'
    BY <2>1 DEF IndInv, TokenInv, TokenOf, rows
  <2> QED BY <2>2, <2>3, <2>4, Compose
<1>12. CASE NothingDue(m)
  BY <1>12, <1>r, <1>s DEF NothingDue
<1>13. CASE DispatchThrows(m)
  BY <1>0, <1>13, <1>r, <1>s DEF DispatchThrows
<1>14. CASE ManagerKilled(m)
  BY <1>14, <1>r, <1>s DEF ManagerKilled
<1> QED BY <1>1, <1>2, <1>3, <1>4, <1>5, <1>6, <1>7, <1>8, <1>9, <1>10, <1>11,
         <1>12, <1>13, <1>14 DEF ManagerStep

\* Every step keeps the invariant.
LEMMA NextInv == IndInv /\ [Next]_vars => IndInv'
<1> SUFFICES ASSUME IndInv, [Next]_vars PROVE IndInv'
  OBVIOUS
<1>1. TypeOK'
  BY NextType DEF IndInv
<1>2. CASE UNCHANGED vars
  <2>1. UNCHANGED <<last, status, token, job, mgr, ran, reports>>
    BY <1>2 DEF vars
  <2>2. MgrInv'
    BY <1>1, <2>1, ManagersUndisturbed
  <2>3. \A o \in Occ : RowInv(o)'
    BY <2>1, Decompose DEF RowInv
  <2>4. TokenInv'
    BY <2>1 DEF IndInv, TokenInv, TokenOf
  <2> QED BY <1>1, <2>2, <2>3, <2>4, Compose
<1> QED BY <1>1, <1>2, ClockInv, JobInv, ManagerInv DEF Next

\* A row agrees with the last recorded occurrence, an unclaimed one was neither
\* run nor reported, an unclaimed job does not hold the token, and one manager
\* reports a closed one.
THEOREM Invariance == Spec => []IndInv
<1>1. Init => IndInv
  BY InitInv
<1>2. IndInv /\ [Next]_vars => IndInv'
  BY NextInv
<1> QED BY <1>1, <1>2, PTL DEF Spec

\* The body of an occurrence starts at most once.
THEOREM BodyRunsAtMostOnceHolds == Spec => []BodyRunsAtMostOnce
<1>1. IndInv => BodyRunsAtMostOnce
  BY DEF IndInv
<1> QED BY <1>1, Invariance, PTL

\* An occurrence reported as missed does not run afterwards.
THEOREM MissedNeverRunsHolds == Spec => []MissedNeverRuns
<1>1. IndInv => MissedNeverRuns
  BY DEF IndInv
<1> QED BY <1>1, Invariance, PTL

\* An occurrence is reported as missed at most once.
THEOREM MissedReportedOnceHolds == Spec => []MissedReportedOnce
<1>1. IndInv => MissedReportedOnce
  BY DEF IndInv
<1> QED BY <1>1, Invariance, PTL

-----------------------------------------------------------------------------
(* Closed occurrences stay closed.                                         *)

StayClosed == \A o \in Occ : status[o] \in Closed => status'[o] \in Closed

\* A job writes a status only to claim an open occurrence or to close one.
LEMMA JobStayClosed ==
  ASSUME IndInv, NEW j \in Jobs,
         WorkerStep(j) \/ BodyThrows(j) \/ QueueLoses(j) \/ WorkerKilled(j)
  PROVE  StayClosed
<1>t. TypeOK /\ TokenInv
  BY DEF IndInv
<1>1. CASE ClaimOccurrence(j)
  <2>1. status[j[1]] \in Open /\ status' = [status EXCEPT ![j[1]] = "claimed"]
    BY <1>1, <1>t DEF ClaimOccurrence, Claimable, TokenInv
  <2> QED BY <1>t, <2>1 DEF StayClosed, Open, Closed, TypeOK
<1>2. CASE SkipOccurrence(j)
  BY <1>t, <1>2 DEF SkipOccurrence, StayClosed, Closed, TypeOK
<1>3. CASE Complete(j)
  BY <1>t, <1>3 DEF Complete, StayClosed, Closed, TypeOK
<1>4. CASE Failed(j) \/ Redeliver(j)
  BY <1>t, <1>4 DEF Failed, Redeliver, FailRow, StayClosed, Closed, TypeOK
<1>5. CASE UNCHANGED status
  BY <1>5 DEF StayClosed
<1> QED BY <1>1, <1>2, <1>3, <1>4, <1>5 DEF WorkerStep, TakeLock, FindLockHeld,
        ModelMissing, ClaimRejected, ReleaseLock, BodyThrows, QueueLoses,
        WorkerKilled, rows

\* A manager opens only a row that does not exist, and moves only an open one.
LEMMA ManagerStayClosed ==
  ASSUME IndInv, NEW m \in Managers,
         \/ ManagerStep(m) \/ RecordSkipped(m) \/ DispatchThrows(m)
         \/ ManagerKilled(m)
  PROVE  StayClosed
<1>t. TypeOK
  BY DEF IndInv
<1>1. CASE Record(m)
  <2>1. mgr[m].exec \in Occ /\ ~(mgr[m].exec <= last)
    BY <1>t, <1>1, DeliveryAssumption
       DEF Record, IsDueNow, IsDuplicateOccurrence, Occ, TypeOK
  <2>2. status[mgr[m].exec] = "none"
    BY <2>1 DEF IndInv, RecordedInv
  <2> QED BY <1>t, <1>1, <2>1, <2>2 DEF Record, StayClosed, Closed, TypeOK
<1>2. CASE MoveUnstarted(m)
  <2>1. UNCHANGED status \/ (StillStale(m, mgr[m].cur) /\
          \E to \in {"pending", "failed"} : status' = [status EXCEPT ![mgr[m].cur] = to])
    BY <1>2 DEF MoveUnstarted, MoveStep
  <2>2. StillStale(m, mgr[m].cur) => status[mgr[m].cur] \in Open
    BY DEF StillStale, Open
  <2> QED BY <1>t, <2>1, <2>2 DEF StayClosed, Open, Closed, TypeOK
<1>3. CASE PublishWithoutResource(m)
  BY <1>t, <1>3 DEF PublishWithoutResource, StayClosed, Closed, TypeOK
<1>4. CASE MarkEnqueued(m)
  BY <1>t, <1>4 DEF MarkEnqueued, MarkRow, StayClosed, Closed, TypeOK
<1>5. CASE FailInterruptedClaims(m)
  BY <1>5 DEF FailInterruptedClaims, StayClosed, Closed
<1>6. CASE UNCHANGED status
  BY <1>6 DEF StayClosed
<1> QED BY <1>1, <1>2, <1>3, <1>4, <1>5, <1>6 DEF ManagerStep, Begin, RecoverNext,
        PublishNext, ReportMissed, Publish, RecordSkipped, NothingDue,
        DispatchThrows, ManagerKilled, rows

\* A closed occurrence never opens again.
THEOREM ClosedForeverHolds == Spec => ClosedForever
<1>1. IndInv /\ [Next]_vars => StayClosed
  <2> SUFFICES ASSUME IndInv, [Next]_vars PROVE StayClosed
    OBVIOUS
  <2>1. CASE DeleteOldOccurrences
    BY <2>1 DEF DeleteOldOccurrences, StayClosed, Closed
  <2>2. CASE \/ TickDue \/ LockExpires \/ DeleteResource \/ UNCHANGED vars
             \/ \E o \in Occ : RowAges(o) \/ EnqueuedAges(o) \/ ClaimAges(o)
    BY <2>2 DEF TickDue, LockExpires, DeleteResource, RowAges, EnqueuedAges,
       ClaimAges, vars, rows, StayClosed
  <2> QED BY <2>1, <2>2, JobStayClosed, ManagerStayClosed DEF Next
<1>2. IndInv /\ [Next]_vars =>
        [\A o \in Occ : status[o] \in Closed => status'[o] \in Closed]_vars
  BY <1>1 DEF StayClosed
<1> QED BY <1>2, Invariance, PTL DEF Spec, ClosedForever

-----------------------------------------------------------------------------
(* The overlap lock.                                                       *)

\* A job that was let through by the middleware holds the lock until its body
\* ended: the lock expires only without a live worker.
LockInv == \A j \in Jobs : job[j] \in {"locked", "running", "completed"} => lock = j

\* Every step keeps the lock with the job that was let through.
LEMMA NextLock == TypeOK /\ LockInv /\ [Next]_vars => LockInv'
<1> SUFFICES ASSUME TypeOK, LockInv, [Next]_vars,
                    NEW i \in Jobs, job'[i] \in {"locked", "running", "completed"}
             PROVE  lock' = i
  BY DEF LockInv
<1>t. job \in [Jobs -> JobState]
  BY DEF TypeOK
<1>n. NoJob \notin Jobs
  BY DEF NoJob, Jobs, Occ
<1>1. ASSUME NEW j \in Jobs, TakeLock(j) PROVE lock' = i
  BY <1>t, <1>n, <1>1 DEF TakeLock, Become, LockInv
<1>2. ASSUME NEW j \in Jobs, ClaimOccurrence(j) \/ Complete(j) PROVE lock' = i
  <2>1. /\ job[j] \in {"locked", "running"} /\ lock' = lock
        /\ \E state \in JobState : job' = [job EXCEPT ![j] = state]
    BY <1>2 DEF ClaimOccurrence, Complete, Become, JobState
  <2>2. i = j \/ job'[i] = job[i]
    BY <1>t, <2>1
  <2> QED BY <2>1, <2>2 DEF LockInv
<1>3. ASSUME NEW j \in Jobs,
             ClaimRejected(j) \/ ReleaseLock(j) \/ BodyThrows(j)
      PROVE  lock' = i
  <2>1. /\ job[j] \in {"locked", "running", "completed"} /\ lock' = Released(j)
        /\ \E state \in {"none", "failing"} : job' = [job EXCEPT ![j] = state]
    BY <1>3 DEF ClaimRejected, ReleaseLock, BodyThrows, Become
  <2>2. i # j /\ job'[i] = job[i]
    BY <1>t, <2>1
  <2> QED BY <2>1, <2>2 DEF LockInv
<1>4. ASSUME NEW j \in Jobs,
             \/ FindLockHeld(j) \/ ModelMissing(j) \/ SkipOccurrence(j)
             \/ Failed(j) \/ Redeliver(j) \/ QueueLoses(j) \/ WorkerKilled(j)
      PROVE  lock' = i
  <2>1. /\ lock' = lock
        /\ \E state \in {"none", "refused", "dead"} : job' = [job EXCEPT ![j] = state]
    BY <1>4 DEF FindLockHeld, ModelMissing, SkipOccurrence, Failed, Redeliver,
       QueueLoses, WorkerKilled, Become
  <2>2. job'[i] = job[i]
    BY <1>t, <2>1
  <2> QED BY <2>1, <2>2 DEF LockInv
<1>5. CASE LockExpires
  <2>1. job' = job /\ ~Alive(lock)
    BY <1>5 DEF LockExpires
  <2>2. lock = i
    BY <2>1 DEF LockInv
  <2> QED BY <2>1, <2>2 DEF Alive
<1>6. ASSUME NEW m \in Managers, Publish(m) PROVE lock' = i
  <2>1. /\ lock' = lock
        /\ \E k \in 1..Slots : job' = [job EXCEPT ![<<mgr[m].cur, k>>] = "queued"]
    BY <1>6 DEF Publish, FreeSlots
  <2>2. job'[i] = job[i]
    BY <1>t, <2>1
  <2> QED BY <2>1, <2>2 DEF LockInv
<1>7. CASE UNCHANGED <<job, lock>>
  BY <1>7 DEF LockInv
<1>8. ASSUME NEW m \in Managers,
             \/ ManagerStep(m) \/ RecordSkipped(m) \/ DispatchThrows(m)
             \/ ManagerKilled(m)
      PROVE  lock' = i
  BY <1>6, <1>7, <1>8 DEF ManagerStep, Begin, RecoverNext, FailInterruptedClaims,
     PublishNext, MoveUnstarted, ReportMissed, PublishWithoutResource,
     MarkEnqueued, Record, NothingDue, RecordSkipped, DispatchThrows, ManagerKilled
<1>9. ASSUME NEW j \in Jobs,
             WorkerStep(j) \/ BodyThrows(j) \/ QueueLoses(j) \/ WorkerKilled(j)
      PROVE  lock' = i
  BY <1>1, <1>2, <1>3, <1>4, <1>9 DEF WorkerStep
<1>10. CASE \/ TickDue \/ DeleteResource \/ DeleteOldOccurrences \/ UNCHANGED vars
            \/ \E o \in Occ : RowAges(o) \/ EnqueuedAges(o) \/ ClaimAges(o)
  BY <1>7, <1>10 DEF TickDue, DeleteResource, DeleteOldOccurrences, RowAges,
     EnqueuedAges, ClaimAges, vars
<1> QED BY <1>5, <1>8, <1>9, <1>10 DEF Next

\* The bodies of two occurrences of a schedule do not run at the same time.
THEOREM OneRunAtATimeHolds == Spec => []OneRunAtATime
<1>1. Init => LockInv
  BY DEF Init, LockInv
<1>2. TypeOK /\ LockInv /\ [Next]_vars => LockInv'
  BY NextLock
<1>3. LockInv => OneRunAtATime
  BY DEF LockInv, OneRunAtATime
<1> QED BY <1>1, <1>2, <1>3, TypeCorrect, PTL DEF Spec

-----------------------------------------------------------------------------
(* Local times that occur twice.                                           *)

\* Only recordAndPublish() creates a row.
RowsStayAbsent == \A o \in Occ : status[o] = "none" => status'[o] = "none"

\* Every other step of a manager, a job or the clean-up writes rows that exist.
LEMMA OnlyRecordCreates ==
  ASSUME IndInv, [Next]_vars, \A m \in Managers : ~Record(m)
  PROVE  RowsStayAbsent
<1>t. TypeOK /\ TokenInv /\ \A o \in Occ : token[o] # 0 => status[o] # "none"
  BY DEF IndInv, RecordedInv
<1>1. ASSUME NEW m \in Managers, mgr[m].step # "next"
      PROVE  mgr[m].cur \in Occ => status[mgr[m].cur] # "none"
  BY <1>1 DEF IndInv, RecordedInv
<1>2. ASSUME NEW j \in Jobs, WorkerStep(j) PROVE RowsStayAbsent
  <2>0. j[1] \in Occ /\ j[2] \in 1..Slots
    BY JobParts
  <2>1. CASE ClaimOccurrence(j)
    <3>1. status[j[1]] # "none" /\ status' = [status EXCEPT ![j[1]] = "claimed"]
      BY <2>1 DEF ClaimOccurrence, Claimable, Open
    <3> QED BY <1>t, <2>0, <3>1 DEF RowsStayAbsent, TypeOK
  <2>2. CASE SkipOccurrence(j)
    BY <1>t, <2>0, <2>2 DEF SkipOccurrence, RowsStayAbsent, TypeOK, Open
  <2>3. CASE Complete(j) \/ Failed(j) \/ Redeliver(j)
    <3>1. TokenOf(j) => status[j[1]] # "none"
      BY <1>t, <2>0 DEF TokenOf
    <3>2. UNCHANGED status \/ (TokenOf(j) /\
            \E to \in {"gone", "failed"} : status' = [status EXCEPT ![j[1]] = to])
      BY <2>3 DEF Complete, Failed, Redeliver, FailRow
    <3> QED BY <1>t, <2>0, <3>1, <3>2 DEF RowsStayAbsent, TypeOK
  <2>4. CASE UNCHANGED status
    BY <2>4 DEF RowsStayAbsent
  <2> QED BY <1>2, <2>1, <2>2, <2>3, <2>4 DEF WorkerStep, TakeLock, FindLockHeld,
          ModelMissing, ClaimRejected, ReleaseLock, rows
<1>3. ASSUME NEW m \in Managers, ManagerStep(m) PROVE RowsStayAbsent
  <2>1. CASE MoveUnstarted(m) \/ PublishWithoutResource(m) \/ MarkEnqueued(m)
    <3>1. /\ mgr[m].step # "next"
          /\ UNCHANGED status \/ \E to : status' = [status EXCEPT ![mgr[m].cur] = to]
      BY <2>1 DEF MoveUnstarted, MoveStep, PublishWithoutResource, MarkEnqueued, MarkRow
    <3> QED BY <1>t, <1>1, <3>1 DEF RowsStayAbsent, TypeOK
  <2>2. CASE FailInterruptedClaims(m)
    BY <2>2 DEF FailInterruptedClaims, RowsStayAbsent
  <2>3. CASE UNCHANGED status
    BY <2>3 DEF RowsStayAbsent
  <2> QED BY <1>3, <2>1, <2>2, <2>3 DEF ManagerStep, Begin, RecoverNext, PublishNext,
          ReportMissed, Publish, NothingDue, rows
<1>4. CASE DeleteOldOccurrences
  BY <1>4 DEF DeleteOldOccurrences, RowsStayAbsent
<1>5. CASE UNCHANGED status
  BY <1>5 DEF RowsStayAbsent
<1> QED BY <1>2, <1>3, <1>4, <1>5 DEF Next, TickDue, LockExpires, DeleteResource,
        RowAges, EnqueuedAges, ClaimAges, RecordSkipped, DispatchThrows, ManagerKilled,
        BodyThrows, QueueLoses, WorkerKilled, rows, vars

\* One of the two occurrences of a repeated local time was never recorded.
TwinInv == \A o \in Twins : status[o] = "none" \/ status[o - 1] = "none"

\* A repeated local time is recorded once: isDuplicateOccurrence().
LEMMA NextTwin == IndInv /\ TwinInv /\ [Next]_vars => TwinInv'
<1> SUFFICES ASSUME IndInv, TwinInv, [Next]_vars PROVE TwinInv'
  OBVIOUS
<1>1. \A o \in Twins : o \in Occ /\ o - 1 \in Occ /\ o \in Nat
  BY DeliveryAssumption DEF Occ
<1>2. CASE \A m \in Managers : ~Record(m)
  BY <1>1, <1>2, OnlyRecordCreates DEF RowsStayAbsent, TwinInv
<1>3. ASSUME NEW m \in Managers, Record(m) PROVE TwinInv'
  <2> DEFINE new == mgr[m].exec
  <2>1. /\ status' = [status EXCEPT ![new] = "pending"]
        /\ ~(last >= new) /\ (new \in Twins => last # new - 1)
    BY <1>3 DEF Record, IsDueNow, IsDuplicateOccurrence
  <2>2. new \in Nat /\ last \in Nat /\ status \in [Occ -> RowStatus]
    BY DeliveryAssumption DEF IndInv, TypeOK
  <2>3. \A o \in Occ : o > last => status[o] = "none"
    BY <2>2 DEF IndInv, RecordedInv, Occ
  <2> HIDE DEF new
  <2>4. ASSUME NEW o \in Twins, o = new PROVE status'[o - 1] = "none"
    BY <1>1, <2>1, <2>2, <2>3, <2>4
  <2>5. ASSUME NEW o \in Twins, o - 1 = new PROVE status'[o] = "none"
    BY <1>1, <2>1, <2>2, <2>3, <2>5
  <2>6. ASSUME NEW o \in Twins, o # new, o - 1 # new
        PROVE  status'[o] = status[o] /\ status'[o - 1] = status[o - 1]
    BY <1>1, <2>1, <2>2, <2>6
  <2> QED BY <2>4, <2>5, <2>6 DEF TwinInv
<1> QED BY <1>2, <1>3

\* An hour that the clock repeats does not run its schedules twice.
THEOREM TwinRunsOnceHolds == Spec => []TwinRunsOnce
<1>1. Init => TwinInv
  BY DeliveryAssumption DEF Init, TwinInv, Occ
<1>2. IndInv /\ TwinInv /\ [Next]_vars => TwinInv'
  BY NextTwin
<1>3. IndInv /\ TwinInv => TwinRunsOnce
  BY DeliveryAssumption DEF IndInv, UnstartedInv, TwinInv, TwinRunsOnce, Occ
<1> QED BY <1>1, <1>2, <1>3, Invariance, PTL DEF Spec

-----------------------------------------------------------------------------
(* Occurrences that are given up are reported.                             *)

\* The resource exists, what was claimed was run, and what failed without a run was
\* reported or is about to be.
ReportedInv ==
  /\ resource
  /\ \A m \in Managers : mgr[m].phase = "idle" => mgr[m].step = "next"
  /\ \A o \in Occ : status[o] = "claimed" \/ token[o] # 0 => ran[o] > 0
  /\ MissedIsReported

\* A step that fails no unclaimed row and takes nothing from a manager that reports.
ReportKept ==
  /\ resource' = resource
  /\ \A m \in Managers : mgr'[m].phase = "idle" => mgr'[m].step = "next"
  /\ \A o \in Occ :
       /\ ran'[o] >= ran[o] /\ reports'[o] >= reports[o]
       /\ status'[o] = "claimed" \/ token'[o] # 0
            => status[o] = "claimed" \/ token[o] # 0 \/ ran'[o] > 0
       /\ status'[o] = "failed"
            => status[o] \in {"failed", "claimed"} \/ token[o] # 0
               \/ \E m \in Managers : Reports(m, o)'
       /\ \A m \in Managers : Reports(m, o) => Reports(m, o)' \/ reports'[o] > 0

\* Such a step keeps the reports complete.
LEMMA KeptReported ==
  ASSUME TypeOK, TypeOK', ReportedInv, ReportKept
  PROVE  ReportedInv'
<1>1. \A o \in Occ : {ran[o], ran'[o], reports[o], reports'[o]} \subseteq Nat
  BY DEF TypeOK
<1> QED BY <1>1 DEF ReportedInv, ReportKept, MissedIsReported, Reports

\* What a manager does to the records of the managers: its own is idle only when it has
\* nothing left to do.
Advances(m) ==
  /\ \A n \in Managers : n # m => mgr'[n] = mgr[n]
  /\ mgr'[m].phase = "idle" => mgr'[m].step = "next"

\* A step of a manager is such a step.
LEMMA ManagerAdvances ==
  ASSUME TypeOK, NEW m \in Managers, mgr[m].phase = "idle" => mgr[m].step = "next",
         ManagerStep(m) \/ RecordSkipped(m) \/ DispatchThrows(m)
  PROVE  Advances(m)
<1>1. /\ mgr \in [Managers -> MgrType] /\ mgr[m] \in MgrType
      /\ Idle.step = "next" /\ NextRow(m).step = "next" /\ AfterPublish(m).step = "next"
  BY MgrRecords DEF TypeOK, MgrType
<1>2. CASE \/ MarkEnqueued(m) \/ RecordSkipped(m) \/ NothingDue(m) \/ DispatchThrows(m)
           \/ ReportMissed(m) \/ PublishWithoutResource(m)
  <2>1. \E f \in {Idle, NextRow(m), AfterPublish(m)} : mgr' = [mgr EXCEPT ![m] = f]
    BY <1>2 DEF MarkEnqueued, RecordSkipped, NothingDue, DispatchThrows, ReportMissed,
       PublishWithoutResource, Set
  <2> QED BY <1>1, <2>1 DEF Advances
<1>3. CASE Begin(m)
  <2>1. PICK exec \in {0, due} :
          mgr' = [mgr EXCEPT ![m] = [Idle EXCEPT !.phase = "recover", !.exec = exec,
                    !.todo = {o \in enqStale : status[o] = "enqueued"}]]
    BY <1>3 DEF Begin, Set
  <2> QED BY <1>1, <2>1 DEF Advances, Idle
<1>4. CASE FailInterruptedClaims(m) \/ Record(m)
  <2>1. \/ mgr' = [mgr EXCEPT ![m] = [mgr[m] EXCEPT !.phase = "publish",
                     !.todo = {o \in Occ : status[o] = "pending"}]]
        \/ mgr' = [mgr EXCEPT ![m] = [mgr[m] EXCEPT !.phase = "due", !.step = "dispatch",
                     !.cur = mgr[m].exec]]
    BY <1>4 DEF FailInterruptedClaims, Record, Set
  <2> QED BY <1>1, <2>1, ZenonT(40) DEF Advances, MgrType
<1>5. CASE \/ RecoverNext(m) \/ PublishNext(m) \/ Publish(m) \/ MoveUnstarted(m)
  <2>1. mgr[m].phase # "idle"
    BY <1>5 DEF RecoverNext, PublishNext, Publish, MoveUnstarted
  <2>2. \A o \in FirstRow(m) : Decision(m, o).phase = mgr[m].phase
    BY <1>1 DEF Decision, MgrType
  <2>3. \/ \E o \in FirstRow(m) : mgr' = [mgr EXCEPT ![m] = Decision(m, o)]
        \/ mgr' = [mgr EXCEPT ![m] = NextRow(m)]
        \/ \E o \in Occ, step \in {"mark", "dispatch", "report"}, todo \in SUBSET Occ :
             mgr' = [mgr EXCEPT ![m] = [mgr[m] EXCEPT !.step = step]]
             \/ mgr' = [mgr EXCEPT ![m] = [mgr[m] EXCEPT !.step = step, !.cur = o,
                                                         !.todo = todo]]
    <3>1. CASE RecoverNext(m)
      BY <3>1 DEF RecoverNext, Set
    <3>2. CASE PublishNext(m)
      <4>1. PICK o \in FirstRow(m) :
              mgr' = [mgr EXCEPT ![m] =
                        IF age[o] # "new" THEN Decision(m, o)
                        ELSE [mgr[m] EXCEPT !.step = "dispatch", !.cur = o,
                                            !.todo = @ \ {o}]]
        BY <3>2 DEF PublishNext, Set
      <4>2. o \in Occ /\ mgr[m].todo \ {o} \in SUBSET Occ
        BY <1>1 DEF FirstRow, MgrType
      <4> QED BY <4>1, <4>2
    <3>3. CASE Publish(m) \/ MoveUnstarted(m)
      <4>1. mgr[m].cur \in Occ /\ {} \in SUBSET Occ
        BY <3>3 DEF Publish, MoveUnstarted, TypeOK
      <4> QED BY <3>3, <4>1 DEF Publish, MoveUnstarted, MoveStep, Set
    <3> QED BY <1>5, <3>1, <3>2, <3>3
  <2> QED BY <1>1, <2>1, <2>2, <2>3, ZenonT(40) DEF Advances, MgrType
<1> QED BY <1>2, <1>3, <1>4, <1>5 DEF ManagerStep

\* Every step keeps the reports complete.
LEMMA NextReported ==
  ASSUME "crash" \notin FaultKinds, "delete" \notin FaultKinds,
         IndInv, TypeOK', ReportedInv, [Next]_vars
  PROVE  ReportedInv'
<1>t. /\ TypeOK /\ resource
      /\ \A m \in Managers : mgr[m].phase = "idle" => mgr[m].step = "next"
      /\ \A o \in Occ : ran[o] \in Nat /\ reports[o] \in Nat
  BY DEF IndInv, TypeOK, ReportedInv
<1>1. ASSUME NEW j \in Jobs,
             WorkerStep(j) \/ BodyThrows(j) \/ QueueLoses(j) \/ WorkerKilled(j)
      PROVE  ReportKept
  <2>0. j[1] \in Occ /\ j[2] \in 1..Slots
    BY JobParts
  <2>1. CASE ClaimOccurrence(j)
    BY <1>t, <2>0, <2>1 DEF ClaimOccurrence, ReportKept, Reports, TypeOK
  <2>2. CASE SkipOccurrence(j) \/ Complete(j)
    <3>1. /\ UNCHANGED <<token, ran, reports, resource, mgr>>
          /\ UNCHANGED status
             \/ \E to \in {"skipped", "gone"} : status' = [status EXCEPT ![j[1]] = to]
      BY <2>2 DEF SkipOccurrence, Complete, history
    <3> QED BY <1>t, <2>0, <3>1 DEF ReportKept, Reports, TypeOK
  <2>3. CASE Failed(j) \/ Redeliver(j)
    <3>1. /\ UNCHANGED <<token, ran, reports, resource, mgr>>
          /\ \/ UNCHANGED status
             \/ TokenOf(j) /\ status' = [status EXCEPT ![j[1]] = "failed"]
      BY <2>3 DEF Failed, Redeliver, FailRow, history
    <3>2. TokenOf(j) => token[j[1]] # 0
      BY <2>0, DeliveryAssumption DEF TokenOf
    <3> QED BY <1>t, <2>0, <3>1, <3>2 DEF ReportKept, Reports, TypeOK
  <2>4. CASE UNCHANGED <<status, token, ran, reports, resource, mgr>>
    BY <1>t, <2>4 DEF ReportKept, Reports
  <2> QED BY <1>1, <2>1, <2>2, <2>3, <2>4 DEF WorkerStep, TakeLock, FindLockHeld,
          ModelMissing, ClaimRejected, ReleaseLock, BodyThrows, QueueLoses,
          WorkerKilled, rows, history
<1>2. ASSUME NEW m \in Managers, ManagerStep(m) \/ RecordSkipped(m) \/ DispatchThrows(m)
      PROVE  ReportKept
  <2>0. /\ \A n \in Managers : mgr'[n].phase = "idle" => mgr'[n].step = "next"
        /\ \A n \in Managers, o \in Occ : n # m => (Reports(n, o)' <=> Reports(n, o))
    BY <1>t, <1>2, ManagerAdvances DEF Advances, Reports
  <2>1. CASE MoveUnstarted(m)
    <3>1. /\ UNCHANGED <<token, ran, reports, resource>>
          /\ mgr[m].step = "move"
      BY <2>1 DEF MoveUnstarted, history
    <3>2. \/ status' = [status EXCEPT ![mgr[m].cur] = "failed"]
             /\ mgr' = [mgr EXCEPT ![m] = [mgr[m] EXCEPT !.step = "report"]]
          \/ status' = [status EXCEPT ![mgr[m].cur] = "pending"]
          \/ UNCHANGED status
      BY <2>1 DEF MoveUnstarted, MoveStep, Set
    <3>3. mgr \in [Managers -> MgrType] /\ mgr[m] \in MgrType
      BY <1>t DEF TypeOK, MgrType
    <3>4. \A o \in Occ : status'[o] = "failed" => status[o] = "failed" \/ Reports(m, o)'
      BY <1>t, <3>2, <3>3 DEF Reports, MgrType, TypeOK
    <3>5. \A o \in Occ : status'[o] = "claimed" => status[o] = "claimed"
      BY <1>t, <3>2 DEF TypeOK
    <3> QED BY <1>t, <2>0, <3>1, <3>4, <3>5 DEF ReportKept, Reports
  <2>2. CASE ReportMissed(m)
    <3>1. /\ mgr[m].step = "report" /\ mgr[m].cur \in Occ
          /\ reports' = [reports EXCEPT ![mgr[m].cur] = @ + 1]
          /\ UNCHANGED <<status, token, ran, resource>>
      BY <1>t, <2>2 DEF ReportMissed, rows, TypeOK
    <3>2. reports' \in [Occ -> Nat] /\ \A o \in Occ : reports'[o] >= reports[o]
      BY <1>t, <3>1 DEF TypeOK
    <3>3. \A o \in Occ : Reports(m, o) => reports'[o] > 0
      BY <1>t, <3>1 DEF Reports, TypeOK
    <3> QED BY <1>t, <2>0, <3>1, <3>2, <3>3 DEF ReportKept
  <2>3. CASE FailInterruptedClaims(m) \/ MarkEnqueued(m) \/ Record(m)
    <3>1. /\ UNCHANGED <<token, ran, reports, resource>>
          /\ mgr[m].step # "report"
      BY <2>3 DEF FailInterruptedClaims, MarkEnqueued, Record, ProcessesDue, history
    <3>2. \A o \in Occ : /\ status'[o] = "failed" => status[o] \in {"failed", "claimed"}
                         /\ status'[o] = "claimed" => status[o] = "claimed"
      BY <1>t, <2>3 DEF FailInterruptedClaims, MarkEnqueued, MarkRow, Record, TypeOK
    <3> QED BY <1>t, <2>0, <3>1, <3>2 DEF ReportKept, Reports
  <2>4. CASE \/ Begin(m) \/ RecoverNext(m) \/ PublishNext(m) \/ Publish(m)
             \/ NothingDue(m) \/ RecordSkipped(m) \/ DispatchThrows(m)
    <3>1. /\ UNCHANGED <<status, token, ran, reports, resource>>
          /\ mgr[m].step # "report"
      BY <1>t, <2>4 DEF Begin, RecoverNext, PublishNext, Publish, NothingDue,
         RecordSkipped, DispatchThrows, ProcessesDue, rows, history
    <3> QED BY <1>t, <2>0, <3>1 DEF ReportKept, Reports
  <2> QED BY <1>t, <1>2, <2>1, <2>2, <2>3, <2>4
          DEF ManagerStep, PublishWithoutResource
<1>3. ASSUME DeleteOldOccurrences PROVE ReportKept
  <2>1. /\ UNCHANGED <<token, ran, reports, resource, mgr>>
        /\ \A o \in Occ : /\ status'[o] = "failed" => status[o] \in {"failed", "claimed"}
                          /\ status'[o] = "claimed" => status[o] = "claimed"
    BY <1>3 DEF DeleteOldOccurrences, history
  <2> QED BY <1>t, <2>1 DEF ReportKept, Reports
<1>4. ASSUME \/ TickDue \/ LockExpires \/ UNCHANGED vars
             \/ \E o \in Occ : RowAges(o) \/ EnqueuedAges(o) \/ ClaimAges(o)
      PROVE  ReportKept
  <2>1. UNCHANGED <<status, token, ran, reports, resource, mgr>>
    BY <1>4 DEF TickDue, LockExpires, RowAges, EnqueuedAges, ClaimAges, rows, history, vars
  <2> QED BY <1>t, <2>1 DEF ReportKept, Reports
<1> QED BY <1>t, <1>1, <1>2, <1>3, <1>4, KeptReported
        DEF Next, ManagerKilled, DeleteResource, Fault

\* Unless a manager dies between giving an occurrence up and telling the team, or the
\* resource is deleted, no occurrence fails silently.
THEOREM MissedIsReportedHolds ==
  ASSUME "crash" \notin FaultKinds, "delete" \notin FaultKinds
  PROVE  Spec => []MissedIsReported
<1>1. Init => ReportedInv
  BY DEF Init, ReportedInv, MissedIsReported, Idle
<1>2. IndInv /\ IndInv' /\ ReportedInv /\ [Next]_vars => ReportedInv'
  BY NextReported DEF IndInv
<1>3. ReportedInv => MissedIsReported
  BY DEF ReportedInv
<1> QED BY <1>1, <1>2, <1>3, Invariance, PTL DEF Spec

-----------------------------------------------------------------------------
(* Backups are given up for a reason.                                      *)

\* A newer occurrence was recorded, or the row is older than 24 hours.
HasReason(o) == last > o \/ age[o] = "tooOld"

\* A manager that gives a backup up still has a reason when it moves the row, and a
\* token was stored by a claim.
ReasonInv ==
  /\ \A m \in Managers :
       RunsLate /\ mgr[m].step = "move" /\ ~mgr[m].late => HasReason(mgr[m].cur)
  /\ \A o \in Occ : token[o] # 0 => ran[o] > 0

\* A step that loads no row.
ReasonKept ==
  /\ \A o \in Occ : HasReason(o) => HasReason(o)'
  /\ \A m \in Managers : mgr'[m].step = "move" => mgr'[m] = mgr[m]
  /\ \A o \in Occ : token'[o] # 0 => (token[o] # 0 /\ ran'[o] = ran[o]) \/ ran'[o] > 0

\* Such a step keeps the reasons.
LEMMA KeptReason ==
  ASSUME TypeOK, ReasonInv, ReasonKept
  PROVE  ReasonInv'
<1>1. \A m \in Managers : mgr[m].step = "move" => mgr[m].cur \in Occ
  BY DEF TypeOK
<1>2. ASSUME NEW m \in Managers, RunsLate, mgr'[m].step = "move", ~mgr'[m].late
      PROVE  last' > mgr'[m].cur \/ age'[mgr'[m].cur] = "tooOld"
  <2>1. mgr'[m] = mgr[m]
    BY <1>2 DEF ReasonKept
  <2>2. mgr[m].cur \in Occ /\ HasReason(mgr[m].cur)
    BY <1>1, <1>2, <2>1 DEF ReasonInv
  <2>3. \A o \in Occ : HasReason(o) => last' > o \/ age'[o] = "tooOld"
    BY DEF ReasonKept, HasReason
  <2> QED BY <2>1, <2>2, <2>3 DEF HasReason
<1>3. \A o \in Occ : token'[o] # 0 => ran'[o] > 0
  BY DEF ReasonInv, ReasonKept
<1> QED BY <1>2, <1>3 DEF ReasonInv, HasReason, RunsLate

\* What recoverUnstartedOccurrence() finds newer was recorded after o.
LEMMA NewerIsRecorded ==
  ASSUME IndInv, NEW o \in Occ, NewerExists(o)
  PROVE  last > o
<1>1. last \in Nat /\ \A p \in Occ : p \in Nat /\ (status[p] # "none" => p <= last)
  BY DeliveryAssumption DEF IndInv, TypeOK, RecordedInv, Occ
<1> QED BY <1>1 DEF NewerExists

\* The manager that loads a row reads a reason before it gives the row up.
LEMMA DecisionReason ==
  ASSUME IndInv, ReasonInv, NEW m \in Managers, NEW o \in FirstRow(m),
         Set(m, Decision(m, o)), UNCHANGED <<last, age, token, ran>>
  PROVE  ReasonInv'
<1>1. /\ mgr \in [Managers -> MgrType] /\ mgr[m] \in MgrType /\ o \in Occ
  BY MgrRecords DEF IndInv, TypeOK, MgrType
<1>2. /\ Decision(m, o).cur = o
      /\ Decision(m, o).late = (RunsLate /\ ~NewerExists(o) /\ age[o] # "tooOld")
  BY <1>1 DEF Decision, MgrType
<1>3. mgr'[m] = Decision(m, o) /\ \A n \in Managers : n # m => mgr'[n] = mgr[n]
  BY <1>1 DEF Set
<1>4. RunsLate /\ ~Decision(m, o).late => HasReason(o)
  BY <1>1, <1>2, NewerIsRecorded DEF HasReason
<1>5. ASSUME NEW n \in Managers, RunsLate, mgr'[n].step = "move", ~mgr'[n].late
      PROVE  last > mgr'[n].cur \/ age[mgr'[n].cur] = "tooOld"
  BY <1>2, <1>3, <1>4, <1>5 DEF ReasonInv, HasReason
<1>6. last' = last /\ age' = age /\ token' = token /\ ran' = ran
  OBVIOUS
<1> QED BY <1>5, <1>6 DEF ReasonInv, HasReason, RunsLate

\* recoverUnstartedOccurrence() is entered for row o.
LoadsRow(m, o) == Set(m, Decision(m, o)) /\ UNCHANGED <<last, age, token, ran>>

\* A step of a manager that loads no row for recovery.
LEMMA ManagerReasonKept ==
  ASSUME IndInv, NEW m \in Managers,
         ManagerStep(m) \/ RecordSkipped(m) \/ DispatchThrows(m) \/ ManagerKilled(m),
         \A o \in FirstRow(m) : ~LoadsRow(m, o)
  PROVE  ReasonKept
<1>t. /\ TypeOK /\ mgr \in [Managers -> MgrType] /\ mgr[m] \in MgrType
      /\ last \in Nat
  BY DeliveryAssumption DEF IndInv, TypeOK, MgrType
<1>o. Occ \subseteq Nat
  BY DEF Occ
<1>r. Idle.step = "next" /\ NextRow(m).step = "next" /\ AfterPublish(m).step = "next"
  BY <1>t, MgrRecords
<1>1. /\ age' = age /\ token' = token /\ ran' = ran
      /\ last' \in Nat /\ last <= last'
  <2>1. CASE Record(m) \/ RecordSkipped(m)
    <3>1. /\ last' = mgr[m].exec /\ ~(last >= mgr[m].exec)
          /\ UNCHANGED <<age, token, ran>>
      BY <2>1 DEF Record, RecordSkipped, IsDueNow, IsDuplicateOccurrence, rows, history
    <3>2. mgr[m].exec \in Nat
      BY <1>t, DeliveryAssumption DEF MgrType
    <3> QED BY <1>t, <3>1, <3>2
  <2>2. CASE UNCHANGED <<last, age, token, ran>>
    BY <1>t, <2>2
  <2> QED BY <2>1, <2>2 DEF ManagerStep, Begin, RecoverNext, FailInterruptedClaims,
          PublishNext, MoveUnstarted, ReportMissed, Publish, PublishWithoutResource,
          MarkEnqueued, NothingDue, DispatchThrows, ManagerKilled, rows, history
<1>2. \A o \in Occ : HasReason(o) => HasReason(o)'
  BY <1>t, <1>o, <1>1 DEF HasReason
<1>3. mgr'[m].step # "move" /\ \A n \in Managers : n # m => mgr'[n] = mgr[n]
  <2>1. CASE \/ ReportMissed(m) \/ PublishWithoutResource(m) \/ MarkEnqueued(m)
             \/ RecordSkipped(m) \/ NothingDue(m) \/ DispatchThrows(m) \/ ManagerKilled(m)
    <3>1. Set(m, Idle) \/ Set(m, NextRow(m)) \/ Set(m, AfterPublish(m))
      BY <2>1 DEF ReportMissed, PublishWithoutResource, MarkEnqueued, RecordSkipped,
         NothingDue, DispatchThrows, ManagerKilled
    <3> QED BY <1>t, <1>r, <3>1 DEF Set
  <2>2. CASE Begin(m)
    <3>1. PICK exec \in {0, due} :
            Set(m, [Idle EXCEPT !.phase = "recover", !.exec = exec,
                      !.todo = {o \in enqStale : status[o] = "enqueued"}])
      BY <2>2 DEF Begin
    <3>2. [Idle EXCEPT !.phase = "recover", !.exec = exec,
             !.todo = {o \in enqStale : status[o] = "enqueued"}].step = "next"
      BY DEF Idle
    <3> QED BY <1>t, <3>1, <3>2 DEF Set
  <2>3. CASE FailInterruptedClaims(m) \/ Record(m)
    <3>1. \/ /\ mgr[m].step = "next"
             /\ Set(m, [mgr[m] EXCEPT !.phase = "publish",
                          !.todo = {o \in Occ : status[o] = "pending"}])
          \/ Set(m, [mgr[m] EXCEPT !.phase = "due", !.step = "dispatch",
                          !.cur = mgr[m].exec])
      BY <2>3 DEF FailInterruptedClaims, Record
    <3>2. CASE /\ mgr[m].step = "next"
               /\ Set(m, [mgr[m] EXCEPT !.phase = "publish",
                            !.todo = {o \in Occ : status[o] = "pending"}])
      <4> DEFINE New == [mgr[m] EXCEPT !.phase = "publish",
                            !.todo = {o \in Occ : status[o] = "pending"}]
      <4>1. New.step = "next"
        BY <1>t, <3>2 DEF MgrType
      <4>2. mgr' = [mgr EXCEPT ![m] = New]
        BY <3>2 DEF Set
      <4> HIDE DEF New
      <4> QED BY <1>t, <4>1, <4>2
    <3>3. CASE Set(m, [mgr[m] EXCEPT !.phase = "due", !.step = "dispatch",
                         !.cur = mgr[m].exec])
      <4> DEFINE New == [mgr[m] EXCEPT !.phase = "due", !.step = "dispatch",
                         !.cur = mgr[m].exec]
      <4>1. New.step = "dispatch"
        BY <1>t DEF MgrType
      <4>2. mgr' = [mgr EXCEPT ![m] = New]
        BY <3>3 DEF Set
      <4> HIDE DEF New
      <4> QED BY <1>t, <4>1, <4>2
    <3> QED BY <3>1, <3>2, <3>3
  <2>4. CASE MoveUnstarted(m) \/ Publish(m)
    <3>1. \/ Set(m, NextRow(m))
          \/ \E step \in {"dispatch", "report", "mark"} :
               Set(m, [mgr[m] EXCEPT !.step = step])
      BY <2>4 DEF MoveUnstarted, MoveStep, Publish
    <3> QED BY <1>t, <1>r, <3>1 DEF Set, MgrType
  <2>5. CASE PublishNext(m) \/ RecoverNext(m)
    <3>1. UNCHANGED <<last, age, token, ran>>
      BY <2>5 DEF PublishNext, RecoverNext, rows, history
    <3>2. PICK o \in FirstRow(m) :
            \/ Set(m, Decision(m, o))
            \/ Set(m, [mgr[m] EXCEPT !.step = "dispatch", !.cur = o, !.todo = @ \ {o}])
      BY <2>5 DEF PublishNext, RecoverNext
    <3>3. Set(m, [mgr[m] EXCEPT !.step = "dispatch", !.cur = o, !.todo = @ \ {o}])
      BY <3>1, <3>2 DEF LoadsRow
    <3> QED BY <1>t, <3>3 DEF Set, MgrType
  <2> QED BY <2>1, <2>2, <2>3, <2>4, <2>5 DEF ManagerStep
<1>4. \A n \in Managers : mgr'[n].step = "move" => mgr'[n] = mgr[n]
  BY <1>t, <1>3
<1> QED BY <1>1, <1>2, <1>4 DEF ReasonKept

\* Every step keeps the reasons.
LEMMA NextReason == IndInv /\ ReasonInv /\ [Next]_vars => ReasonInv'
<1> SUFFICES ASSUME IndInv, ReasonInv, [Next]_vars PROVE ReasonInv'
  OBVIOUS
<1>t. /\ TypeOK /\ last \in Nat /\ ran \in [Occ -> Nat]
  BY DeliveryAssumption DEF IndInv, TypeOK
<1>1. ASSUME NEW m \in Managers,
             ManagerStep(m) \/ RecordSkipped(m) \/ DispatchThrows(m) \/ ManagerKilled(m)
      PROVE  ReasonInv'
  <2>1. ASSUME NEW o \in FirstRow(m), LoadsRow(m, o) PROVE ReasonInv'
    BY <2>1, DecisionReason DEF LoadsRow
  <2>2. CASE \A o \in FirstRow(m) : ~LoadsRow(m, o)
    BY <1>t, <1>1, <2>2, ManagerReasonKept, KeptReason
  <2> QED BY <2>1, <2>2
<1>2. ASSUME NEW j \in Jobs, ClaimOccurrence(j) PROVE ReasonKept
  <2>1. /\ j[1] \in Occ /\ ran' = [ran EXCEPT ![j[1]] = @ + 1]
        /\ token' = [token EXCEPT ![j[1]] = j[2]]
        /\ UNCHANGED <<last, age, mgr>>
    BY <1>2, JobParts DEF ClaimOccurrence
  <2>2. \A o \in Occ : token'[o] # 0 => (token[o] # 0 /\ ran'[o] = ran[o]) \/ ran'[o] > 0
    BY <1>t, <2>1 DEF TypeOK
  <2> QED BY <2>1, <2>2 DEF ReasonKept, HasReason
<1>3. ASSUME NEW o \in Occ, RowAges(o) PROVE ReasonKept
  <2>1. /\ age[o] # "tooOld" /\ \E a : age' = [age EXCEPT ![o] = a]
        /\ UNCHANGED <<last, token, ran, mgr>>
    BY <1>3 DEF RowAges, history
  <2>2. \A p \in Occ : age[p] = "tooOld" => age'[p] = "tooOld"
    BY <1>t, <2>1 DEF TypeOK
  <2> QED BY <2>1, <2>2 DEF ReasonKept, HasReason
<1>4. CASE UNCHANGED <<last, age, token, ran, mgr>>
  <2>1. ReasonKept
    BY <1>4 DEF ReasonKept, HasReason
  <2> QED BY <1>t, <2>1, KeptReason
<1>5. ASSUME \/ TickDue \/ LockExpires \/ DeleteResource \/ DeleteOldOccurrences
             \/ \E o \in Occ : EnqueuedAges(o) \/ ClaimAges(o)
             \/ \E j \in Jobs :
                  /\ WorkerStep(j) \/ BodyThrows(j) \/ QueueLoses(j) \/ WorkerKilled(j)
                  /\ ~ClaimOccurrence(j)
             \/ UNCHANGED vars
      PROVE  UNCHANGED <<last, age, token, ran, mgr>>
  BY <1>5 DEF TickDue, LockExpires, DeleteResource, DeleteOldOccurrences, EnqueuedAges,
     ClaimAges, WorkerStep, TakeLock, FindLockHeld, ModelMissing, SkipOccurrence,
     ClaimRejected, Complete, ReleaseLock, Failed, Redeliver, BodyThrows, QueueLoses,
     WorkerKilled, rows, history, vars
<1> QED BY <1>t, <1>1, <1>2, <1>3, <1>4, <1>5, KeptReason DEF Next

\* An unclaimed occurrence is failed by nothing but recoverUnstartedOccurrence().
LEMMA OnlyRecoveryFails ==
  ASSUME IndInv, ReasonInv, [Next]_vars, NEW o \in Occ, RunsLate,
         status[o] \in Open, status'[o] = "failed"
  PROVE  HasReason(o)
<1>t. /\ TypeOK /\ ran[o] = 0 /\ status[o] # "failed" /\ status[o] # "claimed"
  BY DEF IndInv, TypeOK, UnstartedInv, Open
<1>1. token[o] = 0
  BY <1>t DEF ReasonInv
<1>2. ASSUME NEW m \in Managers, MoveUnstarted(m) PROVE HasReason(o)
  <2>1. mgr[m].step = "move" /\ mgr[m].cur = o /\ ~mgr[m].late
    BY <1>t, <1>2 DEF MoveUnstarted, MoveStep, TypeOK
  <2> QED BY <2>1 DEF ReasonInv
<1>3. ASSUME NEW j \in Jobs, Failed(j) \/ Redeliver(j) PROVE FALSE
  <2>1. UNCHANGED status \/ (TokenOf(j) /\ status' = [status EXCEPT ![j[1]] = "failed"])
    BY <1>3 DEF Failed, Redeliver, FailRow
  <2>2. j[2] # 0
    BY JobParts, DeliveryAssumption
  <2> QED BY <1>t, <1>1, <2>1, <2>2 DEF TokenOf, TypeOK
<1>4. ASSUME NEW j \in Jobs, WorkerStep(j), ~Failed(j), ~Redeliver(j) PROVE FALSE
  <2>1. UNCHANGED status \/ \E to \in {"skipped", "claimed", "gone"} :
                             status' = [status EXCEPT ![j[1]] = to]
    BY <1>4 DEF WorkerStep, TakeLock, FindLockHeld, ModelMissing, SkipOccurrence,
       ClaimOccurrence, ClaimRejected, Complete, ReleaseLock, rows
  <2> QED BY <1>t, <2>1 DEF TypeOK
<1>5. ASSUME NEW m \in Managers, ManagerStep(m), ~MoveUnstarted(m) PROVE FALSE
  <2>1. CASE FailInterruptedClaims(m)
    BY <1>t, <2>1 DEF FailInterruptedClaims, TypeOK
  <2>2. CASE UNCHANGED status \/ \E p : \E to \in {"skipped", "enqueued", "pending"} :
                             status' = [status EXCEPT ![p] = to]
    BY <1>t, <2>2 DEF TypeOK
  <2> QED BY <1>5, <2>1, <2>2 DEF ManagerStep, Begin, RecoverNext, PublishNext,
          ReportMissed, Publish, PublishWithoutResource, MarkEnqueued, MarkRow, Record,
          NothingDue, rows
<1>6. CASE DeleteOldOccurrences
  BY <1>t, <1>6 DEF DeleteOldOccurrences
<1>7. CASE UNCHANGED status
  BY <1>t, <1>7
<1> QED BY <1>2, <1>3, <1>4, <1>5, <1>6, <1>7 DEF Next, TickDue, LockExpires,
        DeleteResource, RowAges, EnqueuedAges, ClaimAges, RecordSkipped, DispatchThrows,
        ManagerKilled, BodyThrows, QueueLoses, WorkerKilled, rows, vars

\* A backup is given up without a run only when a newer occurrence was recorded or
\* it is older than 24 hours, although recoverUnstartedOccurrence() reads both before
\* its conditional update and other managers work in between.
THEOREM BackupGivenUpWithReasonHolds == Spec => BackupGivenUpWithReason
<1>1. Init => ReasonInv
  BY DEF Init, ReasonInv, Idle
<1>2. IndInv /\ ReasonInv /\ [Next]_vars => ReasonInv'
  BY NextReason
<1>3. IndInv /\ ReasonInv /\ [Next]_vars =>
        [\A o \in Occ : RunsLate /\ status[o] \in Open /\ status'[o] = "failed" =>
           last > o \/ age[o] = "tooOld"]_vars
  BY OnlyRecoveryFails DEF HasReason
<1> QED BY <1>1, <1>2, <1>3, Invariance, PTL DEF Spec, BackupGivenUpWithReason

-----------------------------------------------------------------------------
(* The promise to the users of a schedule.                                 *)

View == <<last, Stages, ran, reports, Busy>>

\* What the views are in the next state.
LEMMA StagesNext == Stages' = [o \in Occ |-> StageOf(o)']
  BY DEF Stages

\* A step that shows nothing of a schedule.
LEMMA UnseenStep ==
  ASSUME UNCHANGED <<last, status, ran, reports>>, Busy' = Busy
  PROVE  [Promise!Next]_View
<1>1. Stages' = Stages
  BY DEF Stages, StageOf
<1> QED BY <1>1 DEF View

\* A job that neither starts nor runs a body leaves the busy occurrences alone.
LEMMA BusyKept ==
  ASSUME TypeOK, NEW i \in Jobs, NEW state, job' = [job EXCEPT ![i] = state],
         job[i] # "running", state # "running"
  PROVE  Busy' = Busy
<1>1. \A j \in Jobs : job'[j] = "running" <=> job[j] = "running"
  BY DEF TypeOK
<1>2. \A o \in Occ, k \in 1..Slots : <<o, k>> \in Jobs
  BY DEF Jobs
<1> QED BY <1>1, <1>2 DEF Busy

\* The overlap lock lets one body of the schedule run at a time.
LEMMA BusyAlone ==
  ASSUME LockInv, NEW i \in Jobs
  PROVE  /\ job[i] = "running" => Busy = {i[1]}
         /\ job[i] = "locked" => Busy = {}
<1>1. \A o \in Occ, k \in 1..Slots : <<o, k>> \in Jobs
  BY DEF Jobs
<1>2. CASE job[i] \in {"locked", "running"}
  <2>1. lock = i
    BY <1>2 DEF LockInv
  <2>2. ASSUME NEW o \in Occ, NEW k \in 1..Slots, job[<<o, k>>] = "running"
        PROVE  <<o, k>> = i
    BY <1>1, <2>1, <2>2 DEF LockInv
  <2>3. i[1] \in Occ /\ i[2] \in 1..Slots /\ i = <<i[1], i[2]>>
    BY JobParts
  <2>4. job[i] = "locked" => Busy = {}
    BY <2>2 DEF Busy
  <2>5. job[i] = "running" => Busy = {i[1]}
    <3>1. ASSUME job[i] = "running" PROVE i[1] \in Busy
      BY <2>3, <3>1 DEF Busy
    <3>2. ASSUME NEW o \in Busy PROVE o = i[1]
      <4>1. PICK k \in 1..Slots : job[<<o, k>>] = "running"
        BY DEF Busy
      <4>2. <<o, k>> = i
        BY <2>2, <4>1 DEF Busy
      <4> QED BY <4>2
    <3> QED BY <3>1, <3>2
  <2> QED BY <2>4, <2>5
<1> QED BY <1>2

\* The body that ends was the only one.
LEMMA BusyEnds ==
  ASSUME TypeOK, LockInv, NEW i \in Jobs, NEW state, job[i] = "running",
         job' = [job EXCEPT ![i] = state], state # "running"
  PROVE  Busy = {i[1]} /\ Busy' = {}
<1>1. lock = i
  BY DEF LockInv
<1>2. \A j \in Jobs : job'[j] # "running"
  BY <1>1 DEF LockInv, TypeOK
<1>3. \A o \in Occ, k \in 1..Slots : <<o, k>> \in Jobs
  BY DEF Jobs
<1>4. Busy' = {}
  BY <1>2, <1>3 DEF Busy
<1> QED BY <1>4, BusyAlone

\* The body that starts is the only one.
LEMMA BusyStarts ==
  ASSUME TypeOK, LockInv, NEW i \in Jobs, job[i] = "locked",
         job' = [job EXCEPT ![i] = "running"]
  PROVE  Busy = {} /\ Busy' = {i[1]}
<1>1. lock = i
  BY DEF LockInv
<1>2. \A j \in Jobs : job'[j] = "running" <=> j = i
  BY <1>1 DEF LockInv, TypeOK
<1>3. \A o \in Occ, k \in 1..Slots : <<o, k>> \in Jobs
  BY DEF Jobs
<1>4. i[1] \in Occ /\ i[2] \in 1..Slots /\ i = <<i[1], i[2]>>
  BY JobParts
<1>5. ASSUME NEW o \in Occ, NEW k \in 1..Slots
      PROVE  job'[<<o, k>>] = "running" <=> o = i[1] /\ k = i[2]
  BY <1>2, <1>3, <1>4
<1>6. Busy' = {i[1]}
  BY <1>4, <1>5 DEF Busy
<1> QED BY <1>6, BusyAlone

\* Whatever is written to a row that is not opened or claimed closes it.
RowsClose ==
  \A o \in Occ :
    \/ StageOf(o)' = StageOf(o)
    \/ StageOf(o) \in {"open", "claimed"} /\ StageOf(o)' = "closed"

\* Closing rows is a step of the promise.
LEMMA RowsCloseView ==
  ASSUME RowsClose, UNCHANGED <<last, ran, reports>>, Busy' = Busy
  PROVE  [Promise!Next]_View
<1> DEFINE S == {o \in Occ : StageOf(o) \in {"open", "claimed"} /\ StageOf(o)' = "closed"}
<1>1. S \in SUBSET {o \in Occ : Stages[o] \in {"open", "claimed"}}
  BY DEF Stages
<1>2. \A o \in Occ : StageOf(o)' = IF o \in S THEN "closed" ELSE Stages[o]
  BY DEF RowsClose, Stages
<1> HIDE DEF S
<1>3. Stages' = [o \in Occ |-> IF o \in S THEN "closed" ELSE Stages[o]]
  BY <1>2, StagesNext
<1>4. Promise!CloseAll(S)
  BY <1>3 DEF Promise!CloseAll
<1>5. Promise!Close
  BY <1>1, <1>4 DEF Promise!Close
<1> QED BY <1>5 DEF Promise!Next

\* One row is written.
LEMMA StageWritten ==
  ASSUME TypeOK, NEW o \in Occ, NEW to \in RowStatus, NEW stage,
         status' = [status EXCEPT ![o] = to], StageOf(o)' = stage
  PROVE  Stages' = [Stages EXCEPT ![o] = stage]
<1>1. \A p \in Occ : p # o => StageOf(p)' = StageOf(p)
  BY DEF StageOf, TypeOK
<1> QED BY <1>1, StagesNext DEF Stages

\* An occurrence that is due is newer than the recorded one and has no row.
LEMMA DueIsNext ==
  ASSUME IndInv, NEW m \in Managers, IsDueNow(m)
  PROVE  /\ mgr[m].exec \in Occ /\ status[mgr[m].exec] = "none"
         /\ Promise!IsNext(mgr[m].exec)
<1>1. TypeOK
  BY DEF IndInv
<1>2. /\ mgr[m].exec # 0 /\ ~(last >= mgr[m].exec)
      /\ ~(mgr[m].exec \in Twins /\ last = mgr[m].exec - 1)
  BY DEF IsDueNow, IsDuplicateOccurrence
<1>3. mgr[m].exec \in 0..N /\ last \in 0..N
  BY <1>1 DEF TypeOK
<1>4. mgr[m].exec \in Occ /\ mgr[m].exec > last
  BY <1>2, <1>3, DeliveryAssumption DEF Occ
<1>5. status[mgr[m].exec] = "none"
  BY <1>2, <1>4 DEF IndInv, RecordedInv
<1> QED BY <1>2, <1>4, <1>5 DEF Promise!IsNext

\* A due occurrence is opened, or passed over when its server cannot run it.
LEMMA RecordView ==
  ASSUME IndInv, NEW m \in Managers, Record(m) \/ RecordSkipped(m)
  PROVE  [Promise!Next]_View
<1>1. PICK o \in Occ : o = mgr[m].exec /\ status[o] = "none" /\ Promise!IsNext(o)
  BY DueIsNext DEF Record, RecordSkipped
<1>2. last' = o /\ UNCHANGED <<job, ran, reports>>
  BY <1>1 DEF Record, RecordSkipped, history
<1>3. Busy' = Busy
  BY <1>2 DEF Busy
<1>4. CASE Record(m)
  <2>1. status' = [status EXCEPT ![o] = "pending"]
    BY <1>1, <1>4 DEF Record
  <2>2. TypeOK
    BY DEF IndInv
  <2>3. StageOf(o)' = "open"
    BY <1>1, <2>1, <2>2 DEF StageOf, Open, TypeOK
  <2>4. "pending" \in RowStatus
    BY DEF RowStatus, Open
  <2>5. Stages' = [Stages EXCEPT ![o] = "open"]
    BY <1>1, <2>1, <2>2, <2>3, <2>4, StageWritten
  <2>6. Stages[o] = "none"
    BY <1>1 DEF Stages, StageOf
  <2>7. Promise!Open(o)
    BY <1>1, <1>2, <1>3, <2>5, <2>6 DEF Promise!Open
  <2> QED BY <1>1, <2>7 DEF Promise!Next
<1>5. CASE RecordSkipped(m)
  <2>1. Stages' = Stages
    BY <1>5 DEF RecordSkipped, rows, Stages, StageOf
  <2>2. Promise!PassOver(o)
    BY <1>1, <1>2, <1>3, <2>1 DEF Promise!PassOver
  <2> QED BY <1>1, <2>2 DEF Promise!Next
<1> QED BY <1>4, <1>5

\* A missed occurrence is reported: it is closed, never ran and was not reported.
LEMMA ReportView ==
  ASSUME IndInv, NEW m \in Managers, ReportMissed(m)
  PROVE  [Promise!Next]_View
<1> DEFINE o == mgr[m].cur
<1>t. TypeOK
  BY DEF IndInv
<1>1. /\ o \in Occ /\ status[o] \in Closed /\ ran[o] = 0 /\ reports[o] = 0
  BY <1>t DEF IndInv, ReporterInv, Reports, ReportMissed, TypeOK
<1>2. UNCHANGED <<last, status, job, ran>>
  BY DEF ReportMissed, rows
<1>3. Busy' = Busy /\ Stages' = Stages
  BY <1>2 DEF Busy, Stages, StageOf
<1>4. reports' = reports \/ reports' = [reports EXCEPT ![o] = @ + 1]
  BY DEF ReportMissed
<1> HIDE DEF o
<1>5. CASE reports' = reports
  BY <1>2, <1>3, <1>5, UnseenStep
<1>6. CASE reports' = [reports EXCEPT ![o] = @ + 1]
  <2>1. reports' = [reports EXCEPT ![o] = 1]
    BY <1>1, <1>6
  <2>2. Stages[o] = "closed"
    BY <1>1 DEF Stages, StageOf, Closed, Open
  <2>3. Promise!Report(o)
    BY <1>1, <1>2, <1>3, <2>1, <2>2 DEF Promise!Report
  <2> QED BY <1>1, <2>3 DEF Promise!Next
<1> QED BY <1>4, <1>5, <1>6

\* claim() starts the body of an open occurrence, and only when no other runs.
LEMMA ClaimView ==
  ASSUME IndInv, LockInv, NEW j \in Jobs, ClaimOccurrence(j)
  PROVE  [Promise!Next]_View
<1> DEFINE o == j[1]
<1>t. TypeOK /\ o \in Occ
  BY JobParts DEF IndInv
<1>1. status[o] \in Open /\ ran[o] = 0
  BY <1>t DEF IndInv, ClaimOccurrence, Claimable, TokenInv, UnstartedInv
<1>2. /\ status' = [status EXCEPT ![o] = "claimed"]
      /\ ran' = [ran EXCEPT ![o] = @ + 1]
      /\ job[j] = "locked" /\ job' = [job EXCEPT ![j] = "running"]
      /\ UNCHANGED <<last, reports>>
  BY DEF ClaimOccurrence, Become
<1> HIDE DEF o
<1>3. Busy = {} /\ Busy' = {o}
  BY <1>t, <1>2, BusyStarts DEF o
<1>4. ran' = [ran EXCEPT ![o] = 1]
  BY <1>t, <1>1, <1>2
<1>5. StageOf(o)' = "claimed" /\ "claimed" \in RowStatus
  BY <1>t, <1>2 DEF StageOf, Open, RowStatus, TypeOK
<1>6. Stages' = [Stages EXCEPT ![o] = "claimed"]
  BY <1>t, <1>2, <1>5, StageWritten
<1>7. Stages[o] = "open"
  BY <1>t, <1>1 DEF Stages, StageOf, Open
<1>8. Promise!Start(o)
  BY <1>2, <1>3, <1>4, <1>6, <1>7 DEF Promise!Start
<1> QED BY <1>t, <1>8 DEF Promise!Next

\* A body ends: it completes, throws, or its worker is killed.
LEMMA StopView ==
  ASSUME IndInv, LockInv, NEW j \in Jobs, job[j] = "running",
         Complete(j) \/ BodyThrows(j) \/ WorkerKilled(j)
  PROVE  [Promise!Next]_View
<1>t. TypeOK /\ j[1] \in Occ
  BY JobParts DEF IndInv
<1>1. /\ \/ UNCHANGED status
         \/ status' = [status EXCEPT ![j[1]] = "gone"]
      /\ UNCHANGED <<last, ran, reports>>
  BY DEF Complete, BodyThrows, WorkerKilled, rows, history
<1>2. \E state \in {"completed", "failing", "dead"} : job' = [job EXCEPT ![j] = state]
  BY DEF Complete, BodyThrows, WorkerKilled, Become
<1>3. Busy = {j[1]} /\ Busy' = {}
  BY <1>t, <1>2, BusyEnds
<1>4. \E S \in {{}, Busy} : Promise!CloseAll(S)
  <2>1. CASE UNCHANGED status
    <3>1. Stages' = [o \in Occ |-> IF o \in {} THEN "closed" ELSE Stages[o]]
      BY <2>1 DEF Stages, StageOf
    <3> QED BY <3>1 DEF Promise!CloseAll
  <2>2. CASE status' = [status EXCEPT ![j[1]] = "gone"]
    <3>1. \A o \in Occ : StageOf(o)' = IF o \in Busy THEN "closed" ELSE Stages[o]
      BY <1>t, <1>3, <2>2 DEF Stages, StageOf, Open, TypeOK
    <3>2. Stages' = [o \in Occ |-> IF o \in Busy THEN "closed" ELSE Stages[o]]
      BY <3>1, StagesNext
    <3> QED BY <3>2 DEF Promise!CloseAll
  <2> QED BY <1>1, <2>1, <2>2
<1>5. Promise!Stop
  BY <1>1, <1>3, <1>4 DEF Promise!Stop
<1> QED BY <1>5 DEF Promise!Next

\* A row that exists is closed, or stays open.
LEMMA WrittenCloses ==
  ASSUME TypeOK, NEW o \in Occ, NEW to, status' = [status EXCEPT ![o] = to],
         status[o] # "none", to \in Closed \/ (to \in Open /\ status[o] \in Open)
  PROVE  RowsClose
<1>1. \A p \in Occ : p # o => StageOf(p)' = StageOf(p)
  BY DEF StageOf, TypeOK
<1>2. status'[o] = to
  BY DEF TypeOK
<1>3. status[o] \in {"pending", "enqueued", "claimed", "failed", "skipped", "gone"}
  BY DEF TypeOK, RowStatus, Open
<1>4. \/ StageOf(o)' = StageOf(o)
      \/ StageOf(o) \in {"open", "claimed"} /\ StageOf(o)' = "closed"
  BY <1>2, <1>3 DEF StageOf, Closed, Open
<1> QED BY <1>1, <1>4 DEF RowsClose

\* A step that leaves the status alone closes nothing.
LEMMA UnwrittenCloses == UNCHANGED status => RowsClose
  BY DEF RowsClose, StageOf

\* A job that does not claim closes the row of its token, or an open one.
LEMMA JobView ==
  ASSUME IndInv, LockInv, NEW j \in Jobs,
         WorkerStep(j) \/ BodyThrows(j) \/ QueueLoses(j) \/ WorkerKilled(j)
  PROVE  [Promise!Next]_View
<1>t. TypeOK /\ j[1] \in Occ /\ j[2] \in 1..Slots
  BY JobParts DEF IndInv
<1>1. CASE ClaimOccurrence(j)
  BY <1>1, ClaimView
<1>2. CASE job[j] = "running" /\ ~ClaimOccurrence(j)
  <2>1. Complete(j) \/ BodyThrows(j) \/ WorkerKilled(j)
    BY <1>2 DEF WorkerStep, TakeLock, FindLockHeld, ModelMissing, SkipOccurrence,
       ClaimRejected, ReleaseLock, Failed, Redeliver, QueueLoses
  <2> QED BY <1>2, <2>1, StopView
<1>3. CASE job[j] # "running" /\ ~ClaimOccurrence(j)
  <2>1. /\ UNCHANGED <<last, ran, reports>>
        /\ \E state \in JobState \ {"running"} : job' = [job EXCEPT ![j] = state]
    BY <1>3 DEF WorkerStep, TakeLock, FindLockHeld, ModelMissing, SkipOccurrence,
       ClaimRejected, Complete, ReleaseLock, Failed, Redeliver, BodyThrows,
       QueueLoses, WorkerKilled, Become, JobState, history
  <2>2. Busy' = Busy
    BY <1>t, <1>3, <2>1, BusyKept
  <2>3. \/ UNCHANGED status
        \/ /\ TokenOf(j) \/ status[j[1]] \in Open
           /\ \E to \in {"skipped", "failed"} : status' = [status EXCEPT ![j[1]] = to]
    BY <1>3 DEF WorkerStep, TakeLock, FindLockHeld, ModelMissing, SkipOccurrence,
       ClaimRejected, Complete, ReleaseLock, Failed, FailRow, Redeliver, BodyThrows,
       QueueLoses, WorkerKilled, rows
  <2>4. TokenOf(j) \/ status[j[1]] \in Open => status[j[1]] # "none"
    BY <1>t DEF IndInv, RecordedInv, TokenOf, Open
  <2>5. RowsClose
    <3>1. CASE UNCHANGED status
      BY <3>1, UnwrittenCloses
    <3>2. ASSUME NEW to \in {"skipped", "failed"}, status' = [status EXCEPT ![j[1]] = to],
                 status[j[1]] # "none"
          PROVE  RowsClose
      <4>1. to \in Closed
        BY DEF Closed
      <4> QED BY <1>t, <3>2, <4>1, WrittenCloses
    <3> QED BY <2>3, <2>4, <3>1, <3>2
  <2> QED BY <2>1, <2>2, <2>5, RowsCloseView
<1> QED BY <1>1, <1>2, <1>3

\* A manager records, reports, or moves and closes rows that exist.
LEMMA ManagerView ==
  ASSUME IndInv, NEW m \in Managers,
         \/ ManagerStep(m) \/ RecordSkipped(m) \/ DispatchThrows(m)
         \/ ManagerKilled(m)
  PROVE  [Promise!Next]_View
<1>t. TypeOK
  BY DEF IndInv
<1>1. CASE Record(m) \/ RecordSkipped(m)
  BY <1>1, RecordView
<1>2. CASE ReportMissed(m)
  BY <1>2, ReportView
<1>3. CASE Publish(m)
  <2>1. /\ UNCHANGED <<last, status, ran, reports>> /\ mgr[m].cur \in Occ
        /\ \E k \in 1..Slots : /\ job[<<mgr[m].cur, k>>] = "none"
                               /\ job' = [job EXCEPT ![<<mgr[m].cur, k>>] = "queued"]
    BY <1>t, <1>3 DEF Publish, FreeSlots, rows, history, TypeOK
  <2>2. PICK i \in Jobs : job[i] = "none" /\ job' = [job EXCEPT ![i] = "queued"]
    BY <2>1 DEF Jobs
  <2>3. Busy' = Busy
    BY <1>t, <2>2, BusyKept
  <2> QED BY <2>1, <2>3, UnseenStep
<1>4. CASE MoveUnstarted(m) \/ PublishWithoutResource(m) \/ MarkEnqueued(m)
  <2>1. PICK o \in Occ : o = mgr[m].cur /\ status[o] # "none"
    BY <1>t, <1>4, ManagerFacts DEF MoveUnstarted, PublishWithoutResource, MarkEnqueued
  <2>2. UNCHANGED <<last, job, ran, reports>>
    BY <1>4 DEF MoveUnstarted, PublishWithoutResource, MarkEnqueued, history
  <2>3. \/ UNCHANGED status
        \/ \E to \in {"pending", "enqueued", "failed", "skipped"} :
             /\ status' = [status EXCEPT ![o] = to]
             /\ to \in Closed \/ (to \in Open /\ status[o] \in Open)
    BY <1>4, <2>1 DEF MoveUnstarted, MoveStep, StillStale, PublishWithoutResource,
       MarkEnqueued, MarkRow, Open, Closed
  <2>4. RowsClose
    BY <1>t, <2>1, <2>3, WrittenCloses, UnwrittenCloses
  <2>5. Busy' = Busy
    BY <2>2 DEF Busy
  <2> QED BY <2>2, <2>4, <2>5, RowsCloseView
<1>5. CASE FailInterruptedClaims(m)
  <2>1. UNCHANGED <<last, job, ran, reports>>
    BY <1>5 DEF FailInterruptedClaims, history
  <2>2. RowsClose
    BY <1>5 DEF FailInterruptedClaims, RowsClose, StageOf, Open
  <2>3. Busy' = Busy
    BY <2>1 DEF Busy
  <2> QED BY <2>1, <2>2, <2>3, RowsCloseView
<1>6. CASE UNCHANGED <<last, status, job, ran, reports>>
  <2>1. Busy' = Busy
    BY <1>6 DEF Busy
  <2> QED BY <1>6, <2>1, UnseenStep
<1> QED BY <1>1, <1>2, <1>3, <1>4, <1>5, <1>6 DEF ManagerStep, Begin, RecoverNext,
        PublishNext, NothingDue, DispatchThrows, ManagerKilled, rows, history

\* Every step of the delivery is a step of the promise or unseen.
LEMMA NextView == IndInv /\ LockInv /\ [Next]_vars => [Promise!Next]_View
<1> SUFFICES ASSUME IndInv, LockInv, [Next]_vars PROVE [Promise!Next]_View
  OBVIOUS
<1>1. CASE DeleteOldOccurrences
  <2>1. UNCHANGED <<last, job, ran, reports>>
    BY <1>1 DEF DeleteOldOccurrences, history
  <2>2. RowsClose
    BY <1>1 DEF DeleteOldOccurrences, RowsClose, StageOf, Open
  <2>3. Busy' = Busy
    BY <2>1 DEF Busy
  <2> QED BY <2>1, <2>2, <2>3, RowsCloseView
<1>2. CASE \/ TickDue \/ LockExpires \/ DeleteResource \/ UNCHANGED vars
           \/ \E o \in Occ : RowAges(o) \/ EnqueuedAges(o) \/ ClaimAges(o)
  <2>1. UNCHANGED <<last, status, job, ran, reports>>
    BY <1>2 DEF TickDue, LockExpires, DeleteResource, RowAges, EnqueuedAges, ClaimAges,
       rows, history, vars
  <2>2. Busy' = Busy
    BY <2>1 DEF Busy
  <2> QED BY <2>1, <2>2, UnseenStep
<1> QED BY <1>1, <1>2, JobView, ManagerView DEF Next

\* The managers and workers of a schedule implement the promise to its users: each
\* occurrence is taken up in order and closed for good, its body is started once and
\* alone, and only what never ran is reported as missed, once.
THEOREM ImplementsDeliveryPromiseHolds == Spec => ImplementsDeliveryPromise
<1>1. Init => Promise!Init
  <2> SUFFICES ASSUME Init PROVE Promise!Init
    OBVIOUS
  <2>1. Stages = [o \in Occ |-> "none"]
    BY DEF Init, Stages, StageOf
  <2>2. \A o \in Occ, k \in 1..Slots : <<o, k>> \in Jobs
    BY DEF Jobs
  <2>3. Busy = {}
    BY <2>2 DEF Init, Busy
  <2> QED BY <2>1, <2>3 DEF Init, Promise!Init
<1>2. Init => LockInv
  BY DEF Init, LockInv
<1>3. TypeOK /\ LockInv /\ [Next]_vars => LockInv'
  BY NextLock
<1>4. IndInv /\ LockInv /\ [Next]_vars => [Promise!Next]_View
  BY NextView
<1> QED BY <1>1, <1>2, <1>3, <1>4, Invariance, TypeCorrect, PTL
        DEF Spec, ImplementsDeliveryPromise, Promise!Spec, Promise!promises, View
=============================================================================
