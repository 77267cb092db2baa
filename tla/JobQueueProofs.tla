--------------------------- MODULE JobQueueProofs ---------------------------
(***************************************************************************)
(* Theorems about JobQueue for every set of jobs and workers, every retry    *)
(* budget and every lease bound.                                             *)
(***************************************************************************)
EXTENDS JobQueue, TLAPS

Tables(js, ls) == js \in [Jobs -> JobRow] /\ ls \in [Jobs -> LeaseRow]
ScanRows == [Jobs -> ScanRow]

\* Every statement on a job row leaves a job row.
LEMMA JobRowTypes ==
    ASSUME NEW job \in JobRow
    PROVE  /\ MarkLeased(job) \in JobRow /\ MarkRunning(job) \in JobRow
           /\ \A o \in Outcomes : MarkSucceeded(job, o) \in JobRow
           /\ \A b \in BOOLEAN : MarkFailure(job, b) \in JobRow
           /\ MarkBlocked(job) \in JobRow /\ MarkCancelled(job) \in JobRow
           /\ MarkInvalidated(job) \in JobRow /\ MarkSalvaged(job) \in JobRow
           /\ PromoteQueuedToReady(job) \in JobRow
           /\ MarkReadyFromBlocked(job) \in JobRow
           /\ PromoteRetryWaitToReady(job) \in JobRow
<1>1. \A o \in Outcomes : MarkSucceeded(job, o) \in JobRow
  BY DEF JobRow, MarkSucceeded, Statuses, Outcomes
<1>2. \A b \in BOOLEAN : MarkFailure(job, b) \in JobRow
  <2> SUFFICES ASSUME NEW b \in BOOLEAN PROVE MarkFailure(job, b) \in JobRow
    OBVIOUS
  <2>1. job.attempt + 1 \in Nat
    BY DEF JobRow
  <2>2. FailureStatus(job.attempt + 1, b) \in Statuses
    BY <2>1, MaxAttemptsAssumption DEF FailureStatus, Statuses
  <2>3. (FailureStatus(job.attempt + 1, b) = "RETRY_WAIT") \in BOOLEAN
    OBVIOUS
  <2> QED BY <2>1, <2>2, <2>3 DEF MarkFailure, JobRow
<1>3. /\ MarkLeased(job) \in JobRow /\ MarkRunning(job) \in JobRow
      /\ MarkBlocked(job) \in JobRow /\ MarkCancelled(job) \in JobRow
  BY DEF JobRow, MarkLeased, MarkRunning, MarkBlocked, MarkCancelled, Statuses
<1>4. /\ MarkInvalidated(job) \in JobRow /\ MarkSalvaged(job) \in JobRow
      /\ PromoteQueuedToReady(job) \in JobRow
      /\ MarkReadyFromBlocked(job) \in JobRow
      /\ PromoteRetryWaitToReady(job) \in JobRow
  BY DEF JobRow, MarkInvalidated, MarkSalvaged, PromoteQueuedToReady,
         MarkReadyFromBlocked, PromoteRetryWaitToReady, Statuses, Outcomes
<1> QED BY <1>1, <1>2, <1>3, <1>4

\* Every statement on a lease row leaves a lease row.
LEMMA LeaseRowTypes ==
    /\ NoLease \in LeaseRow
    /\ \A l \in LeaseRow : ReleaseLease(l) \in LeaseRow
    /\ \A n \in Nat : NewLease(n) \in LeaseRow
BY DEF LeaseRow, NoLease, ReleaseLease, NewLease

\* The SELECT of recover_expired_leases and the writes that follow it.
LEMMA RecoverTypes ==
    ASSUME NEW js, NEW ls, NEW rs \in ScanRows, Tables(js, ls)
    PROVE  /\ NothingFound \in ScanRows
           /\ ExpiredRows(js, ls) \in ScanRows
           /\ Tables(RecoverJobs(js, rs), RecoverLeases(ls, rs))
<1>1. NothingFound \in ScanRows
  BY DEF NothingFound, ScanRows, NoRow, ScanRow, Statuses
<1>2. ExpiredRows(js, ls) \in ScanRows
  BY DEF ExpiredRows, ScanRows, NoRow, ScanRow, Statuses, Tables, JobRow, LeaseRow,
         ActiveLease
<1>3. ASSUME NEW j \in Jobs
      PROVE  /\ RecoverJob(js[j], rs[j]) \in JobRow
             /\ RecoverLease(ls[j], rs[j]) \in LeaseRow
  <2>1. js[j] \in JobRow /\ ls[j] \in LeaseRow /\ rs[j] \in ScanRow
    BY DEF Tables, ScanRows
  <2>2. RecoverLease(ls[j], rs[j]) \in LeaseRow
    BY <2>1 DEF RecoverLease, ReleaseLease, LeaseRow
  <2>3. RecoveredAttempt(rs[j]) \in Nat /\ RecoveredStatus(rs[j]) \in Statuses
    BY <2>1, MaxAttemptsAssumption
       DEF RecoveredAttempt, RecoveredStatus, ScanRow, Statuses
  <2>4. RecoverJob(js[j], rs[j]) \in JobRow
    BY <2>1, <2>3 DEF RecoverJob, JobRow
  <2> QED BY <2>2, <2>4
<1> QED BY <1>1, <1>2, <1>3 DEF Tables, RecoverJobs, RecoverLeases
-----------------------------------------------------------------------------
(* Type correctness. *)

DbType == Tables(jobs, leases) /\ granted \in [Jobs -> Nat]
LocalType ==
    /\ pc \in [Procs -> PCs]
    /\ rows \in [Procs -> ScanRows]
    /\ task \in [Workers -> Jobs \cup {NoJob}]
    /\ held \in [Workers -> Nat]
    /\ inflight \subseteq Workers
    /\ listed \subseteq Jobs
EnvType ==
    /\ paused \in BOOLEAN /\ identityOk \in BOOLEAN
    /\ command \in [kind: Kinds, job: Jobs \cup {NoJob}, targets: SUBSET Jobs, attempt: Nat]

\* The parts of TypeOK an action disturbs separately.
LEMMA TypeParts == TypeOK <=> DbType /\ LocalType /\ EnvType
BY DEF TypeOK, DbType, LocalType, EnvType, Tables, ScanRows

\* Workers, dispatcher and recovery pass are processes.
LEMMA ProcsHaveMembers ==
    Workers \subseteq Procs /\ Dispatcher \in Procs /\ Recovery \in Procs
BY DEF Procs

\* The SELECT of recover_expired_leases leaves the local state well typed.
LEMMA ScanType ==
    ASSUME LocalType, Tables(jobs, leases), NEW p \in Procs,
           NEW from, NEW found \in PCs, NEW nothing \in PCs,
           Scan(p, from, found, nothing)
    PROVE  pc' \in [Procs -> PCs] /\ rows' \in [Procs -> ScanRows]
<1>1. ExpiredRows(jobs, leases) \in ScanRows
  BY RecoverTypes DEF LocalType
<1> QED BY <1>1 DEF Scan, LocalType

\* So does a worker that returns or dies.
LEMMA WorkerEndsType ==
    ASSUME LocalType, NEW w \in Workers, WorkerEnds(w), UNCHANGED listed
    PROVE  LocalType'
<1>1. NothingFound \in ScanRows
  BY DEF NothingFound, ScanRows, NoRow, ScanRow, Statuses
<1> QED BY <1>1, ProcsHaveMembers DEF WorkerEnds, LocalType, PCs

\* So does the transaction of run_once's phase 1, on any well typed tables.
LEMMA Phase1Type ==
    ASSUME LocalType, DbType, NEW w \in Workers, NEW j \in Jobs, NEW js, NEW ls,
           Tables(js, ls), Phase1(w, j, js, ls), UNCHANGED listed
    PROVE  LocalType' /\ DbType'
<1>1. CASE LeaseConflict(w, j, js, ls)
  BY <1>1, WorkerEndsType DEF LeaseConflict, DbType
<1>2. CASE StartBlocked(w, j, js, ls)
  <2>1. LocalType'
    BY <1>2, WorkerEndsType DEF StartBlocked
  <2>2. MarkFailure(MarkLeased(js[j]), TRUE) \in JobRow
    BY JobRowTypes DEF Tables
  <2>3. granted[j] + 1 \in Nat
    BY DEF DbType
  <2>4. ReleaseLease(NewLease(granted[j] + 1)) \in LeaseRow
    BY <2>3, LeaseRowTypes
  <2> QED BY <1>2, <2>1, <2>2, <2>3, <2>4 DEF StartBlocked, DbType, Tables
<1>3. CASE StartRunning(w, j, js, ls)
  <2>1. MarkRunning(MarkLeased(js[j])) \in JobRow
    BY JobRowTypes DEF Tables
  <2>2. granted[j] + 1 \in Nat
    BY DEF DbType
  <2>3. NewLease(granted[j] + 1) \in LeaseRow
    BY <2>2, LeaseRowTypes
  <2>4. DbType'
    BY <1>3, <2>1, <2>2, <2>3 DEF StartRunning, DbType, Tables
  <2>5. NothingFound \in ScanRows
    BY DEF NothingFound, ScanRows, NoRow, ScanRow, Statuses
  <2>6. LocalType'
    BY <1>3, <2>2, <2>5, ProcsHaveMembers DEF StartRunning, LocalType, PCs
  <2> QED BY <2>4, <2>6
<1> QED BY <1>1, <1>2, <1>3 DEF Phase1

\* A worker past its selection knows its job, and so does an open command.
TaskKnown ==
    \A w \in Workers : pc[w] \in {"lease", "leasing", "executing"} => task[w] \in Jobs
CommandKnown == command.kind # "none" => command.job \in Jobs
TypeInv == DbType /\ LocalType /\ EnvType /\ TaskKnown /\ CommandKnown

\* Phase 1 leaves every worker past its selection with a job.
LEMMA Phase1Task ==
    ASSUME LocalType, TaskKnown, NEW w \in Workers, NEW j \in Jobs, NEW js, NEW ls,
           Phase1(w, j, js, ls)
    PROVE  TaskKnown'
BY ProcsHaveMembers
   DEF Phase1, LeaseConflict, StartBlocked, StartRunning, WorkerEnds, TaskKnown, LocalType

\* The tables a process recovers from its own scan are well typed.
LEMMA RecoveredTypes ==
    ASSUME DbType, LocalType, NEW p \in Procs
    PROVE  Tables(RecoveredJobs(p), RecoveredLeases(p))
BY RecoverTypes DEF DbType, LocalType, RecoveredJobs, RecoveredLeases

\* Every step of a worker keeps the type invariant.
LEMMA WorkerTypeStep ==
    ASSUME TypeInv, NEW w \in Workers, StartWorker(w) \/ WorkerStep(w) \/ WorkerCrash(w)
    PROVE  TypeInv'
<1> USE ProcsHaveMembers
<1>0. DbType /\ LocalType /\ EnvType /\ TaskKnown /\ CommandKnown /\ w \in Procs
  BY DEF TypeInv
<1>1. CASE StartWorker(w)
  BY <1>0, <1>1 DEF StartWorker, TypeInv, DbType, LocalType, EnvType, TaskKnown, CommandKnown,
                    db, env, PCs
<1>2. CASE WorkerScan(w)
  <2>1. pc' \in [Procs -> PCs] /\ rows' \in [Procs -> ScanRows]
    BY <1>0, <1>2, ScanType DEF WorkerScan, PCs, DbType
  <2>2. TaskKnown'
    BY <1>0, <1>2 DEF WorkerScan, Scan, TaskKnown, LocalType
  <2> QED BY <1>0, <1>2, <2>1, <2>2
      DEF WorkerScan, TypeInv, DbType, LocalType, EnvType, CommandKnown, db, env
<1>3. CASE WorkerSelect(w)
  <2>1. CASE Choice(w, jobs) = {} /\ WorkerEnds(w)
    <3>1. LocalType'
      BY <1>0, <1>3, <2>1, WorkerEndsType DEF WorkerSelect
    <3>2. TaskKnown'
      BY <1>0, <2>1 DEF WorkerEnds, TaskKnown, LocalType
    <3> QED BY <1>0, <1>3, <3>1, <3>2
        DEF WorkerSelect, TypeInv, DbType, EnvType, CommandKnown, db, env
  <2>2. ASSUME NEW j \in Choice(w, jobs),
               task' = [task EXCEPT ![w] = j],
               pc' = [pc EXCEPT ![w] = "lease"],
               UNCHANGED <<rows, held, inflight>>
        PROVE  TypeInv'
    <3>1. j \in Jobs \cup {NoJob}
      BY <1>0, <2>2 DEF Choice, EligibleReady, LocalType
    <3>2. j # NoJob
      BY <2>2, ProcsAssumption DEF Choice, EligibleReady
    <3>3. LocalType' /\ TaskKnown'
      BY <1>0, <1>3, <2>2, <3>1, <3>2 DEF WorkerSelect, LocalType, TaskKnown, PCs
    <3> QED BY <1>0, <1>3, <3>3
        DEF WorkerSelect, TypeInv, DbType, EnvType, CommandKnown, db, env
  <2> QED BY <1>3, <2>1, <2>2 DEF WorkerSelect
<1>4. CASE WorkerLeaseScan(w)
  <2>1. pc' \in [Procs -> PCs] /\ rows' \in [Procs -> ScanRows]
    BY <1>0, <1>4, ScanType DEF WorkerLeaseScan, PCs, DbType
  <2>2. TaskKnown'
    BY <1>0, <1>4 DEF WorkerLeaseScan, Scan, TaskKnown, LocalType
  <2> QED BY <1>0, <1>4, <2>1, <2>2
      DEF WorkerLeaseScan, TypeInv, DbType, LocalType, EnvType, CommandKnown, db, env
<1>5. CASE WorkerLease(w)
  <2>1. task[w] \in Jobs
    BY <1>0, <1>5 DEF WorkerLease, TaskKnown
  <2>2. Tables(RecoveredJobs(w), RecoveredLeases(w))
    BY <1>0, RecoveredTypes
  <2>3. LocalType' /\ DbType'
    BY <1>0, <1>5, <2>1, <2>2, Phase1Type DEF WorkerLease
  <2>4. TaskKnown'
    BY <1>0, <1>5, <2>1, Phase1Task DEF WorkerLease
  <2> QED BY <1>0, <1>5, <2>3, <2>4 DEF WorkerLease, TypeInv, EnvType, CommandKnown, env
<1>6. CASE WorkerRecover(w)
  <2> DEFINE js == RecoveredJobs(w)
             ls == RecoveredLeases(w)
             again == ExpiredRows(js, ls)
  <2>1. Tables(js, ls)
    BY <1>0, RecoveredTypes
  <2>2. CASE Choice(w, js) = {} /\ jobs' = js /\ leases' = ls /\ WorkerEnds(w)
                /\ UNCHANGED granted
    <3>1. LocalType'
      BY <1>0, <1>6, <2>2, WorkerEndsType DEF WorkerRecover
    <3>2. TaskKnown'
      BY <1>0, <2>2 DEF WorkerEnds, TaskKnown, LocalType
    <3> QED BY <1>0, <1>6, <2>1, <2>2, <3>1, <3>2
        DEF WorkerRecover, TypeInv, DbType, EnvType, CommandKnown, env
  <2>3. ASSUME NEW j \in Choice(w, js),
               Phase1(w, j, RecoverJobs(js, again), RecoverLeases(ls, again))
        PROVE  TypeInv'
    <3>1. j \in Jobs
      BY <1>0, <2>3 DEF Choice, EligibleReady, LocalType
    <3>2. Tables(RecoverJobs(js, again), RecoverLeases(ls, again))
      <4>1. again \in ScanRows
        BY <1>0, <2>1, RecoverTypes DEF LocalType
      <4> QED BY <2>1, <4>1, RecoverTypes
    <3>3. LocalType' /\ DbType'
      BY <1>0, <1>6, <2>3, <3>1, <3>2, Phase1Type DEF WorkerRecover
    <3>4. TaskKnown'
      BY <1>0, <2>3, <3>1, Phase1Task
    <3> QED BY <1>0, <1>6, <3>3, <3>4 DEF WorkerRecover, TypeInv, EnvType, CommandKnown, env
  <2> QED BY <1>6, <2>2, <2>3 DEF WorkerRecover
<1>7. ASSUME NEW row \in JobRow, Finish(w, row) PROVE TypeInv'
  <2>1. LocalType'
    BY <1>0, <1>7, WorkerEndsType DEF Finish
  <2>2. TaskKnown'
    BY <1>0, <1>7 DEF Finish, WorkerEnds, TaskKnown, LocalType
  <2>3. task[w] \in Jobs
    BY <1>0, <1>7 DEF Finish, TaskKnown
  <2>4. ReleaseLease(leases[task[w]]) \in LeaseRow
    BY <1>0, <2>3, LeaseRowTypes DEF DbType, Tables
  <2>5. DbType'
    BY <1>0, <1>7, <2>3, <2>4 DEF Finish, DbType, Tables
  <2> QED BY <1>0, <1>7, <2>1, <2>2, <2>5 DEF Finish, TypeInv, EnvType, CommandKnown, env
<1>8. CASE WorkerSucceeds(w)
  <2>1. jobs[task[w]] \in JobRow
    BY <1>0, <1>8 DEF WorkerSucceeds, Finish, TaskKnown, DbType, Tables
  <2>2. \A o \in {"none", "NO_CHANGE"} : MarkSucceeded(jobs[task[w]], o) \in JobRow
    BY <2>1, JobRowTypes DEF Outcomes
  <2> QED BY <1>7, <1>8, <2>2 DEF WorkerSucceeds
<1>9. CASE WorkerFails(w) \/ WorkerRefuses(w)
  <2>1. jobs[task[w]] \in JobRow
    BY <1>0, <1>9 DEF WorkerFails, WorkerRefuses, Finish, TaskKnown, DbType, Tables
  <2>2. \A b \in BOOLEAN : MarkFailure(jobs[task[w]], b) \in JobRow
    BY <2>1, JobRowTypes
  <2> QED BY <1>7, <1>9, <2>2 DEF WorkerFails, WorkerRefuses
<1>10. CASE WorkerCrash(w)
  <2>1. LocalType'
    BY <1>0, <1>10, WorkerEndsType DEF WorkerCrash
  <2>2. TaskKnown'
    BY <1>0, <1>10 DEF WorkerCrash, WorkerEnds, TaskKnown, LocalType
  <2> QED BY <1>0, <1>10, <2>1, <2>2
      DEF WorkerCrash, TypeInv, DbType, EnvType, CommandKnown, db, env
<1> QED BY <1>1, <1>2, <1>3, <1>4, <1>5, <1>6, <1>8, <1>9, <1>10 DEF WorkerStep

\* Blocking, releasing, promoting and cancelling sets of rows is well typed.
LEMMA SetWritesTypes ==
    ASSUME NEW js, NEW ls, NEW S, Tables(js, ls)
    PROVE  /\ BlockAll(js, S) \in [Jobs -> JobRow]
           /\ PromoteAll(js, S) \in [Jobs -> JobRow]
           /\ CancelAll(js, S) \in [Jobs -> JobRow]
           /\ ReleaseAll(ls, S) \in [Jobs -> LeaseRow]
BY JobRowTypes, LeaseRowTypes DEF Tables, BlockAll, PromoteAll, CancelAll, ReleaseAll

\* Every step of the dispatcher keeps the type invariant.
LEMMA DispatchTypeStep ==
    ASSUME TypeInv, DispatchStep \/ DropFutures
    PROVE  TypeInv'
<1> USE ProcsHaveMembers
<1>0. DbType /\ LocalType /\ EnvType /\ TaskKnown /\ CommandKnown
  BY DEF TypeInv
<1>1. CASE DispatchScan
  <2>1. pc' \in [Procs -> PCs] /\ rows' \in [Procs -> ScanRows]
    BY <1>0, <1>1, ScanType DEF DispatchScan, PCs, DbType
  <2>2. TaskKnown'
    BY <1>0, <1>1, ProcsAssumption DEF DispatchScan, Scan, TaskKnown, LocalType
  <2> QED BY <1>0, <1>1, <2>1, <2>2
      DEF DispatchScan, TypeInv, DbType, LocalType, EnvType, CommandKnown, db, env
<1>2. CASE DispatchSubmit
  <2>1. DbType'
    BY <1>0, <1>2, RecoveredTypes DEF DispatchSubmit, DbType
  <2>2. NothingFound \in ScanRows
    BY DEF NothingFound, ScanRows, NoRow, ScanRow, Statuses
  <2>3. LocalType' /\ TaskKnown'
    <3>1. CASE /\ pc' = [pc EXCEPT ![Dispatcher] = "idle"]
               /\ UNCHANGED <<task, inflight>>
      BY <1>0, <1>2, <2>2, <3>1, ProcsAssumption DEF DispatchSubmit, LocalType, TaskKnown, PCs
    <3>2. ASSUME NEW j \in Jobs, NEW w \in Workers,
                 pc' = [pc EXCEPT ![Dispatcher] = "idle", ![w] = "begin"],
                 task' = [task EXCEPT ![w] = j],
                 inflight' = inflight \cup {w}
          PROVE  LocalType' /\ TaskKnown'
      BY <1>0, <1>2, <2>2, <3>2, ProcsAssumption DEF DispatchSubmit, LocalType, TaskKnown, PCs
    <3> QED BY <1>2, <3>1, <3>2 DEF DispatchSubmit, EligibleReady, IdleWorkers
  <2> QED BY <1>0, <1>2, <2>1, <2>3
      DEF DispatchSubmit, TypeInv, EnvType, CommandKnown, env
<1>3. CASE DropFutures
  BY <1>0, <1>3 DEF DropFutures, TypeInv, DbType, LocalType, EnvType, TaskKnown, CommandKnown,
                    db, env
<1> QED BY <1>1, <1>2, <1>3 DEF DispatchStep

\* Every step of the recovery pass keeps the type invariant.
LEMMA RecoveryTypeStep ==
    ASSUME TypeInv, RecoveryStep
    PROVE  TypeInv'
<1> USE ProcsHaveMembers
<1>0. DbType /\ LocalType /\ EnvType /\ TaskKnown /\ CommandKnown
  BY DEF TypeInv
<1>1. CASE RecoveryScan
  <2>1. pc' \in [Procs -> PCs] /\ rows' \in [Procs -> ScanRows]
    BY <1>0, <1>1, ScanType DEF RecoveryScan, PCs, DbType
  <2>2. TaskKnown'
    BY <1>0, <1>1, ProcsAssumption DEF RecoveryScan, Scan, TaskKnown, LocalType
  <2> QED BY <1>0, <1>1, <2>1, <2>2
      DEF RecoveryScan, TypeInv, DbType, LocalType, EnvType, CommandKnown, db, env
<1>2. CASE RecoveryPass
  <2>1. Tables(RecoveredJobs(Recovery), RecoveredLeases(Recovery))
    BY <1>0, RecoveredTypes
  <2>2. DbType'
    BY <1>0, <1>2, <2>1, SetWritesTypes DEF RecoveryPass, DbType, Tables
  <2>3. NothingFound \in ScanRows
    BY DEF NothingFound, ScanRows, NoRow, ScanRow, Statuses
  <2>4. LocalType' /\ TaskKnown'
    BY <1>0, <1>2, <2>3, ProcsAssumption DEF RecoveryPass, LocalType, TaskKnown, PCs
  <2> QED BY <1>0, <1>2, <2>2, <2>4 DEF RecoveryPass, TypeInv, EnvType, CommandKnown, env
<1>3. CASE RecoveryList
  <2>1. Listing(jobs) \subseteq Jobs
    BY DEF Listing
  <2>2. LocalType' /\ TaskKnown'
    BY <1>0, <1>3, <2>1, ProcsAssumption DEF RecoveryList, LocalType, TaskKnown, PCs
  <2> QED BY <1>0, <1>3, <2>2
      DEF RecoveryList, TypeInv, DbType, EnvType, CommandKnown, db, env
<1>4. CASE RecoveryBlock \/ RecoveryPromote
  <2>1. RecoveryEnds
    BY <1>4 DEF RecoveryBlock, RecoveryPromote
  <2>2. LocalType' /\ TaskKnown'
    BY <1>0, <2>1, ProcsAssumption DEF RecoveryEnds, LocalType, TaskKnown, PCs
  <2>3. Tables(jobs', leases')
    <3>1. /\ BlockAll(jobs, listed) \in [Jobs -> JobRow]
          /\ PromoteAll(jobs, listed) \in [Jobs -> JobRow]
          /\ ReleaseAll(leases, listed) \in [Jobs -> LeaseRow]
      BY <1>0, SetWritesTypes DEF DbType
    <3> QED BY <1>0, <1>4, <3>1 DEF RecoveryBlock, RecoveryPromote, DbType, Tables
  <2> QED BY <1>0, <2>1, <2>2, <2>3
      DEF RecoveryEnds, TypeInv, DbType, EnvType, CommandKnown, env
<1> QED BY <1>1, <1>2, <1>3, <1>4 DEF RecoveryStep

\* Commands and the passing of time keep the type invariant.
LEMMA CommandTypeStep ==
    ASSUME TypeInv, CommandStep \/ TimeStep
    PROVE  TypeInv'
<1>0. DbType /\ LocalType /\ EnvType /\ TaskKnown /\ CommandKnown
  BY DEF TypeInv
<1>1. ASSUME NEW kind \in Kinds, NEW j \in Jobs, NEW S \in SUBSET Jobs, Ask(kind, j, S)
      PROVE  TypeInv'
  <2>1. jobs[j].attempt \in Nat
    BY <1>0 DEF DbType, Tables, JobRow
  <2> QED BY <1>0, <1>1, <2>1 DEF Ask, TypeInv, DbType, LocalType, EnvType, TaskKnown,
                                  CommandKnown, db, env, local
<1>2. ASSUME NEW js, NEW ls, Tables(js, ls), Answer(js, ls) PROVE TypeInv'
  BY <1>0, <1>2 DEF Answer, TypeInv, DbType, LocalType, EnvType, TaskKnown, CommandKnown,
                    env, local, NoCommand, Kinds
<1>3. ASSUME NEW j \in Jobs,
             CancelAsk(j) \/ InvalidateAsk(j) \/ ReclaimAsk(j) \/ SalvageAsk(j)
      PROVE  TypeInv'
  <2>1. {k \in AssuranceOf[j] : jobs[k].status \notin TerminalStatuses} \in SUBSET Jobs
    BY SettingsAssumption
  <2> QED BY <1>1, <1>3, <2>1 DEF CancelAsk, InvalidateAsk, ReclaimAsk, SalvageAsk, Kinds
<1>4. CASE CancelApply
  BY <1>0, <1>2, <1>4, SetWritesTypes DEF CancelApply, DbType, Tables
<1>5. CASE InvalidateApply
  <2> DEFINE js == CancelAll(jobs, command.targets)
  <2>1. command.job \in Jobs
    BY <1>0, <1>5 DEF InvalidateApply, CommandKnown
  <2>2. js \in [Jobs -> JobRow] /\ ReleaseAll(leases, command.targets) \in [Jobs -> LeaseRow]
    BY <1>0, SetWritesTypes DEF DbType
  <2>3. MarkInvalidated(js[command.job]) \in JobRow
    BY <2>1, <2>2, JobRowTypes
  <2>4. [js EXCEPT ![command.job] = MarkInvalidated(js[command.job])] \in [Jobs -> JobRow]
    BY <2>2, <2>3
  <2> QED BY <1>2, <1>5, <2>2, <2>4 DEF InvalidateApply, Tables
<1>6. ASSUME NEW promote \in BOOLEAN, ReclaimApply(promote) PROVE TypeInv'
  <2> DEFINE j == command.job
             expired == [leases EXCEPT ![j].expired = @ \/ ActiveLease(leases[j])]
             hit == ExpiredRows(jobs, expired)
             recovered == RecoverJobs(jobs, hit)
             js == IF hit[j].hit THEN recovered
                   ELSE [recovered EXCEPT ![j] = MarkFailure(recovered[j], FALSE)]
             ls == IF hit[j].hit THEN RecoverLeases(expired, hit)
                   ELSE [RecoverLeases(expired, hit) EXCEPT ![j] = ReleaseLease(expired[j])]
  <2>1. j \in Jobs
    BY <1>0, <1>6 DEF ReclaimApply, CommandKnown
  <2>2. expired \in [Jobs -> LeaseRow]
    BY <1>0, <2>1 DEF DbType, Tables, LeaseRow, ActiveLease
  <2>3. Tables(jobs, expired) /\ hit \in ScanRows
    <3>1. Tables(jobs, expired)
      BY <1>0, <2>2 DEF DbType, Tables
    <3> QED BY <3>1, RecoverTypes, <1>0 DEF LocalType, ExpiredRows, ScanRows, NoRow, ScanRow,
                Statuses, Tables, JobRow, LeaseRow, ActiveLease
  <2>4. Tables(recovered, RecoverLeases(expired, hit))
    BY <2>3, RecoverTypes
  <2>5. MarkFailure(recovered[j], FALSE) \in JobRow /\ ReleaseLease(expired[j]) \in LeaseRow
    BY <2>1, <2>2, <2>4, JobRowTypes, LeaseRowTypes DEF Tables
  <2>6. Tables(js, ls)
    BY <2>4, <2>5 DEF Tables
  <2>7. PromoteRetryWaitToReady(js[j]) \in JobRow
    BY <2>1, <2>6, JobRowTypes DEF Tables
  <2>8. Tables([js EXCEPT ![j] = PromoteRetryWaitToReady(js[j])], ls)
    BY <2>6, <2>7 DEF Tables
  <2>9. Tables(jobs, leases)
    BY <1>0 DEF DbType
  <2>10. \/ Answer(js, ls) \/ Answer(jobs, leases)
         \/ Answer([js EXCEPT ![j] = PromoteRetryWaitToReady(js[j])], ls)
    BY <1>6 DEF ReclaimApply
  <2> HIDE DEF js, ls
  <2> QED BY <1>2, <2>6, <2>8, <2>9, <2>10
<1>7. ASSUME NEW j \in Jobs, Revalidate(j) \/ PromoteQueued(j) PROVE TypeInv'
  <2>1. DbType'
    BY <1>0, <1>7, JobRowTypes DEF Revalidate, PromoteQueued, DbType, Tables
  <2> QED BY <1>0, <1>7, <2>1 DEF Revalidate, PromoteQueued, TypeInv, LocalType, EnvType,
             TaskKnown, CommandKnown, env, local
<1>8. CASE SetPaused \/ IdentityChanges
  BY <1>0, <1>8 DEF SetPaused, IdentityChanges, TypeInv, DbType, LocalType, EnvType,
                    TaskKnown, CommandKnown, db, local
<1>9. ASSUME NEW j \in Jobs, LeaseExpires(j) \/ BackoffElapses(j) PROVE TypeInv'
  <2>1. DbType'
    BY <1>0, <1>9 DEF LeaseExpires, BackoffElapses, DbType, Tables, LeaseRow, JobRow
  <2> QED BY <1>0, <1>9, <2>1 DEF LeaseExpires, BackoffElapses, TypeInv, LocalType, EnvType,
             TaskKnown, CommandKnown, env, local
<1>10. CASE SalvageApply
  <2>1. command.job \in Jobs
    BY <1>0, <1>10 DEF SalvageApply, CommandKnown
  <2>2. MarkSalvaged(jobs[command.job]) \in JobRow
    BY <1>0, <2>1, JobRowTypes DEF DbType, Tables
  <2>3. Tables([jobs EXCEPT ![command.job] = MarkSalvaged(jobs[command.job])], leases)
    BY <1>0, <2>2 DEF DbType, Tables
  <2>4. Tables(jobs, leases)
    BY <1>0 DEF DbType
  <2> QED BY <1>2, <1>10, <2>3, <2>4 DEF SalvageApply
<1> QED BY <1>3, <1>4, <1>5, <1>6, <1>7, <1>8, <1>9, <1>10 DEF CommandStep, TimeStep

\* The type invariant and what it rests on hold initially and at every step.
THEOREM TypeInvariant == Spec => []TypeInv
<1>1. Init => TypeInv
  <2> SUFFICES ASSUME Init PROVE TypeInv
    OBVIOUS
  <2>1. CreateJob("READY") \in JobRow /\ CreateJob("QUEUED") \in JobRow
    BY DEF CreateJob, JobRow, Statuses, Outcomes
  <2>2. NothingFound \in ScanRows
    BY DEF NothingFound, ScanRows, NoRow, ScanRow, Statuses
  <2>3. DbType
    BY <2>1, LeaseRowTypes DEF Init, DbType, Tables
  <2>4. LocalType /\ TaskKnown
    BY <2>2, ProcsHaveMembers DEF Init, LocalType, TaskKnown, PCs
  <2>5. EnvType /\ CommandKnown
    BY DEF Init, EnvType, CommandKnown, NoCommand, Kinds
  <2> QED BY <2>3, <2>4, <2>5 DEF TypeInv
<1>2. TypeInv /\ [Next]_vars => TypeInv'
  <2> SUFFICES ASSUME TypeInv, [Next]_vars PROVE TypeInv'
    OBVIOUS
  <2>1. CASE UNCHANGED vars
    BY <2>1 DEF vars, db, env, local, TypeInv, DbType, Tables, LocalType, EnvType, TaskKnown,
               CommandKnown
  <2> QED BY <2>1, WorkerTypeStep, DispatchTypeStep, RecoveryTypeStep, CommandTypeStep DEF Next
<1> QED BY <1>1, <1>2, PTL DEF Spec

\* Type correctness of the job table, the lease table and every process.
THEOREM TypeCorrect == Spec => []TypeOK
<1>1. TypeInv => TypeOK
  BY TypeParts DEF TypeInv
<1> QED BY <1>1, TypeInvariant, PTL
-----------------------------------------------------------------------------
(* Every LEASED or RUNNING job can be recovered. *)

AllLeased(js, ls) ==
    \A j \in Jobs : js[j].status \in ActiveStatuses => ActiveLease(ls[j])

\* The writes of recover_expired_leases, stale or not, never leave a RUNNING
\* job without a lease: every job they take the lease of gets a new status.
LEMMA RecoverKeepsLeased ==
    ASSUME NEW js, NEW ls, NEW rs \in ScanRows, Tables(js, ls), AllLeased(js, ls)
    PROVE  AllLeased(RecoverJobs(js, rs), RecoverLeases(ls, rs))
<1> SUFFICES ASSUME NEW j \in Jobs, RecoverJob(js[j], rs[j]).status \in ActiveStatuses
             PROVE  ActiveLease(RecoverLease(ls[j], rs[j]))
  BY DEF AllLeased, RecoverJobs, RecoverLeases
<1>1. js[j] \in JobRow /\ rs[j] \in ScanRow
  BY DEF Tables, ScanRows
<1>2. ~rs[j].hit
  <2> SUFFICES ASSUME rs[j].hit PROVE FALSE
    OBVIOUS
  <2>1. RecoverJob(js[j], rs[j]).status = RecoveredStatus(rs[j])
    BY <1>1 DEF RecoverJob, JobRow
  <2>2. RecoveredStatus(rs[j]) \in {"READY", "FAILED", "RETRY_WAIT"}
    BY <1>1, MaxAttemptsAssumption DEF RecoveredStatus, ScanRow
  <2> QED BY <2>1, <2>2 DEF ActiveStatuses
<1> QED BY <1>2 DEF RecoverJob, RecoverLease, AllLeased

\* Status writes that take a job out of LEASED and RUNNING.
LEMMA InactiveWrites ==
    ASSUME NEW job \in JobRow
    PROVE  /\ \A o \in Outcomes : MarkSucceeded(job, o).status = "SUCCEEDED"
           /\ \A b \in BOOLEAN : MarkFailure(job, b).status \in {"BLOCKED", "FAILED", "RETRY_WAIT"}
           /\ MarkBlocked(job).status = "BLOCKED" /\ MarkCancelled(job).status = "CANCELLED"
           /\ MarkInvalidated(job).status = job.status
           /\ MarkSalvaged(job).status = "SUCCEEDED"
           /\ PromoteRetryWaitToReady(job).status = "READY"
           /\ PromoteQueuedToReady(job).status = "READY"
           /\ MarkReadyFromBlocked(job).status = "READY"
<1>1. \A b \in BOOLEAN : MarkFailure(job, b).status \in {"BLOCKED", "FAILED", "RETRY_WAIT"}
  <2> SUFFICES ASSUME NEW b \in BOOLEAN
               PROVE  MarkFailure(job, b).status \in {"BLOCKED", "FAILED", "RETRY_WAIT"}
    OBVIOUS
  <2>1. MarkFailure(job, b).status = FailureStatus(job.attempt + 1, b)
    BY DEF MarkFailure, JobRow
  <2>2. FailureStatus(job.attempt + 1, b) \in {"BLOCKED", "FAILED", "RETRY_WAIT"}
    BY MaxAttemptsAssumption DEF FailureStatus, JobRow
  <2> QED BY <2>1, <2>2
<1> QED BY <1>1 DEF MarkSucceeded, MarkBlocked, MarkCancelled, MarkInvalidated, MarkSalvaged,
           PromoteRetryWaitToReady, PromoteQueuedToReady, MarkReadyFromBlocked, JobRow

\* Blocking and cancelling together with the release, and promoting, keep it.
LEMMA SetWritesLeased ==
    ASSUME NEW js, NEW ls, NEW S, Tables(js, ls), AllLeased(js, ls)
    PROVE  /\ AllLeased(BlockAll(js, S), ReleaseAll(ls, S))
           /\ AllLeased(CancelAll(js, S), ReleaseAll(ls, S))
           /\ AllLeased(PromoteAll(js, S), ls)
BY InactiveWrites DEF AllLeased, BlockAll, CancelAll, PromoteAll, ReleaseAll, Tables,
                      ActiveStatuses

\* Phase 1 sets RUNNING and inserts the lease in the same transaction.
LEMMA Phase1Leased ==
    ASSUME DbType, NEW w \in Workers, NEW j \in Jobs, NEW js, NEW ls, Tables(js, ls),
           AllLeased(js, ls), Phase1(w, j, js, ls)
    PROVE  AllLeased(jobs', leases')
<1>1. CASE LeaseConflict(w, j, js, ls)
  BY <1>1 DEF LeaseConflict
<1>2. CASE StartBlocked(w, j, js, ls)
  <2>1. MarkLeased(js[j]) \in JobRow
    BY JobRowTypes DEF Tables
  <2>2. MarkFailure(MarkLeased(js[j]), TRUE).status \notin ActiveStatuses
    BY <2>1, InactiveWrites DEF ActiveStatuses
  <2> QED BY <1>2, <2>2 DEF StartBlocked, AllLeased, Tables
<1>3. CASE StartRunning(w, j, js, ls)
  BY <1>3 DEF StartRunning, AllLeased, Tables, NewLease, ActiveLease
<1> QED BY <1>1, <1>2, <1>3 DEF Phase1

\* A LEASED or RUNNING job always has an unreleased lease row, so that expiry
\* makes it visible to recover_expired_leases: crashes, stale recovery writes
\* and late workers included.
THEOREM ActiveJobsRecoverable == Spec => []ActiveJobHasLease
<1>1. Init => ActiveJobHasLease
  BY DEF Init, ActiveJobHasLease, CreateJob, ActiveStatuses
<1>2. TypeInv /\ ActiveJobHasLease /\ [Next]_vars => ActiveJobHasLease'
  <2> SUFFICES ASSUME TypeInv, ActiveJobHasLease, [Next]_vars PROVE AllLeased(jobs', leases')
    BY DEF ActiveJobHasLease, AllLeased
  <2> USE ProcsHaveMembers
  <2>1. AllLeased(jobs, leases)
    BY DEF ActiveJobHasLease, AllLeased
  <2>2. DbType /\ LocalType /\ Tables(jobs, leases) /\ TaskKnown /\ CommandKnown
    BY DEF TypeInv, DbType
  <2>3. \A p \in Procs : /\ Tables(RecoveredJobs(p), RecoveredLeases(p))
                         /\ AllLeased(RecoveredJobs(p), RecoveredLeases(p))
    BY <2>1, <2>2, RecoveredTypes, RecoverKeepsLeased
       DEF RecoveredJobs, RecoveredLeases, LocalType
  <2>4. CASE UNCHANGED <<jobs, leases>>
    BY <2>1, <2>4
  <2>5. ASSUME NEW w \in Workers, WorkerLease(w) PROVE AllLeased(jobs', leases')
    BY <2>2, <2>3, <2>5, Phase1Leased DEF WorkerLease, TaskKnown
  <2>6. ASSUME NEW w \in Workers, WorkerRecover(w) PROVE AllLeased(jobs', leases')
    <3> DEFINE js == RecoveredJobs(w)
               ls == RecoveredLeases(w)
               again == ExpiredRows(js, ls)
    <3>1. Tables(js, ls) /\ AllLeased(js, ls)
      BY <2>3
    <3>2. again \in ScanRows
      BY <2>2, <3>1, RecoverTypes DEF LocalType
    <3>3. /\ Tables(RecoverJobs(js, again), RecoverLeases(ls, again))
          /\ AllLeased(RecoverJobs(js, again), RecoverLeases(ls, again))
      BY <3>1, <3>2, RecoverTypes, RecoverKeepsLeased
    <3>4. Choice(w, js) \subseteq Jobs \cup {NoJob} /\ NoJob \notin Choice(w, js)
      BY <2>2, ProcsAssumption DEF Choice, EligibleReady, LocalType
    <3>5. ASSUME NEW j \in Choice(w, js),
                 Phase1(w, j, RecoverJobs(js, again), RecoverLeases(ls, again))
          PROVE  AllLeased(jobs', leases')
      BY <2>2, <3>3, <3>4, <3>5, Phase1Leased
    <3> QED BY <2>6, <3>1, <3>5 DEF WorkerRecover
  <2>7. ASSUME NEW w \in Workers, NEW row, row.status \notin ActiveStatuses, Finish(w, row)
        PROVE  AllLeased(jobs', leases')
    BY <2>1, <2>2, <2>7 DEF Finish, AllLeased, Tables
  <2>8. ASSUME NEW w \in Workers, WorkerSucceeds(w) \/ WorkerFails(w) \/ WorkerRefuses(w)
        PROVE  AllLeased(jobs', leases')
    <3>1. jobs[task[w]] \in JobRow
      BY <2>2, <2>8 DEF WorkerSucceeds, WorkerFails, WorkerRefuses, Finish, TaskKnown, Tables
    <3>2. \A o \in {"none", "NO_CHANGE"} :
             MarkSucceeded(jobs[task[w]], o).status \notin ActiveStatuses
      BY <3>1, InactiveWrites DEF Outcomes, ActiveStatuses
    <3>3. \A b \in BOOLEAN : MarkFailure(jobs[task[w]], b).status \notin ActiveStatuses
      BY <3>1, InactiveWrites DEF ActiveStatuses
    <3> QED BY <2>7, <2>8, <3>2, <3>3 DEF WorkerSucceeds, WorkerFails, WorkerRefuses
  <2>9. CASE DispatchSubmit
    BY <2>3, <2>9 DEF DispatchSubmit
  <2>10. CASE RecoveryPass
    BY <2>3, <2>10, SetWritesLeased DEF RecoveryPass
  <2>11. CASE RecoveryBlock
    BY <2>1, <2>2, <2>11, SetWritesLeased DEF RecoveryBlock
  <2>12. CASE RecoveryPromote
    BY <2>1, <2>2, <2>12, SetWritesLeased DEF RecoveryPromote
  <2>13. CASE CancelApply
    BY <2>1, <2>2, <2>13, SetWritesLeased DEF CancelApply, Answer
  <2>14. CASE InvalidateApply
    <3> DEFINE js == CancelAll(jobs, command.targets)
    <3>1. AllLeased(js, ReleaseAll(leases, command.targets)) /\ js \in [Jobs -> JobRow]
      BY <2>1, <2>2, SetWritesLeased, SetWritesTypes
    <3>2. command.job \in Jobs
      BY <2>2, <2>14 DEF InvalidateApply, CommandKnown
    <3>3. MarkInvalidated(js[command.job]).status = js[command.job].status
      BY <3>1, <3>2, InactiveWrites
    <3> HIDE DEF js
    <3>4. AllLeased([js EXCEPT ![command.job] = MarkInvalidated(js[command.job])],
                    ReleaseAll(leases, command.targets))
      BY <3>1, <3>2, <3>3 DEF AllLeased
    <3> QED BY <2>14, <3>4 DEF InvalidateApply, Answer, js
  <2>15. ASSUME NEW promote \in BOOLEAN, ReclaimApply(promote) PROVE AllLeased(jobs', leases')
    <3> DEFINE j == command.job
               expired == [leases EXCEPT ![j].expired = @ \/ ActiveLease(leases[j])]
               hit == ExpiredRows(jobs, expired)
               recovered == RecoverJobs(jobs, hit)
               released == RecoverLeases(expired, hit)
               js == IF hit[j].hit THEN recovered
                     ELSE [recovered EXCEPT ![j] = MarkFailure(recovered[j], FALSE)]
               ls == IF hit[j].hit THEN released
                     ELSE [released EXCEPT ![j] = ReleaseLease(expired[j])]
    <3>1. j \in Jobs
      BY <2>2, <2>15 DEF ReclaimApply, CommandKnown
    <3>2. Tables(jobs, expired)
      BY <2>2, <3>1 DEF Tables, LeaseRow, ActiveLease
    <3>3. AllLeased(jobs, expired)
      BY <2>1, <2>2, <3>1 DEF AllLeased, Tables, LeaseRow, ActiveLease
    <3>4. hit \in ScanRows
      BY <2>2, <3>2, RecoverTypes DEF LocalType
    <3>5. Tables(recovered, released) /\ AllLeased(recovered, released)
      BY <3>2, <3>3, <3>4, RecoverTypes, RecoverKeepsLeased
    <3>6. MarkFailure(recovered[j], FALSE).status \notin ActiveStatuses
      <4>1. recovered[j] \in JobRow
        BY <3>1, <3>5 DEF Tables
      <4> HIDE DEF recovered
      <4>2. MarkFailure(recovered[j], FALSE).status \in {"BLOCKED", "FAILED", "RETRY_WAIT"}
        BY <4>1, InactiveWrites
      <4> QED BY <4>2 DEF ActiveStatuses
    <3>7. MarkFailure(recovered[j], FALSE) \in JobRow
      BY <3>1, <3>5, JobRowTypes DEF Tables
    <3>8. AllLeased(js, ls) /\ js \in [Jobs -> JobRow]
      <4> HIDE DEF recovered, released, hit, expired
      <4> QED BY <3>1, <3>5, <3>6, <3>7 DEF AllLeased, Tables
    <3>9. PromoteRetryWaitToReady(js[j]).status \notin ActiveStatuses
      BY <3>1, <3>8, InactiveWrites DEF ActiveStatuses
    <3>10. \/ Answer(js, ls) \/ Answer(jobs, leases)
           \/ Answer([js EXCEPT ![j] = PromoteRetryWaitToReady(js[j])], ls)
      BY <2>15 DEF ReclaimApply
    <3> HIDE DEF js, ls
    <3>11. AllLeased([js EXCEPT ![j] = PromoteRetryWaitToReady(js[j])], ls)
      BY <3>1, <3>8, <3>9 DEF AllLeased
    <3> QED BY <2>1, <3>8, <3>10, <3>11 DEF Answer
  <2>16. ASSUME NEW j \in Jobs, Revalidate(j) \/ PromoteQueued(j) PROVE AllLeased(jobs', leases')
    <3>1. /\ MarkReadyFromBlocked(jobs[j]).status \notin ActiveStatuses
          /\ PromoteQueuedToReady(jobs[j]).status \notin ActiveStatuses
      BY <2>2, InactiveWrites DEF Tables, ActiveStatuses
    <3> QED BY <2>1, <2>2, <2>16, <3>1 DEF Revalidate, PromoteQueued, AllLeased, Tables
  <2>17. ASSUME NEW j \in Jobs, LeaseExpires(j) \/ BackoffElapses(j)
         PROVE  AllLeased(jobs', leases')
    BY <2>1, <2>2, <2>17
       DEF LeaseExpires, BackoffElapses, AllLeased, Tables, JobRow, LeaseRow, ActiveLease
  <2>18. ASSUME NEW w \in Workers,
                \/ StartWorker(w) \/ WorkerScan(w) \/ WorkerSelect(w) \/ WorkerLeaseScan(w)
                \/ WorkerCrash(w)
         PROVE  UNCHANGED <<jobs, leases>>
    BY <2>18 DEF StartWorker, WorkerScan, WorkerSelect, WorkerLeaseScan, WorkerCrash, db
  <2>19. ASSUME \/ SetPaused \/ IdentityChanges \/ UNCHANGED vars
                \/ DispatchScan \/ DropFutures \/ RecoveryScan \/ RecoveryList
                \/ \E j \in Jobs : \/ CancelAsk(j) \/ InvalidateAsk(j)
                                   \/ ReclaimAsk(j) \/ SalvageAsk(j)
         PROVE  UNCHANGED <<jobs, leases>>
    BY <2>19 DEF SetPaused, IdentityChanges, CancelAsk, InvalidateAsk, ReclaimAsk, SalvageAsk,
                 Ask, vars, db,
                 DispatchScan, DropFutures, RecoveryScan, RecoveryList
  <2>20. CASE SalvageApply
    <3>1. command.job \in Jobs
      BY <2>2, <2>20 DEF SalvageApply, CommandKnown
    <3>2. MarkSalvaged(jobs[command.job]).status \notin ActiveStatuses
      BY <2>2, <3>1, InactiveWrites DEF Tables, ActiveStatuses
    <3> QED BY <2>1, <2>2, <2>20, <3>1, <3>2 DEF SalvageApply, Answer, AllLeased, Tables
  <2> QED BY <2>4, <2>5, <2>6, <2>8, <2>9, <2>10, <2>11, <2>12, <2>13, <2>14, <2>15, <2>16,
             <2>17, <2>18, <2>19, <2>20
          DEF Next, WorkerStep, DispatchStep, RecoveryStep, CommandStep, TimeStep
<1> QED BY <1>1, <1>2, TypeInvariant, PTL DEF Spec
-----------------------------------------------------------------------------
(* Worktrees and outcomes. *)

\* What a statement may do with a job row, but for the start of an execution: it
\* makes no job LEASED or RUNNING, and replaces a disqualifying outcome by
\* another one or, salvaging, by SALVAGED.
RowMoves(old, new) ==
    /\ new.status \in ActiveStatuses => old.status \in ActiveStatuses
    /\ old.outcome \in Disqualifying => new.outcome \in Disqualifying \cup {"SALVAGED"}

Moves(js, ks) == \A j \in Jobs : RowMoves(js[j], ks[j])

\* The start of an execution, on the table js that the transaction read.
Starts(js, j) ==
    /\ j \in Jobs /\ ~WorktreeHeld(js, j)
    /\ jobs' = [js EXCEPT ![j] = MarkRunning(MarkLeased(js[j]))]

\* Statements of one transaction add up.
LEMMA MovesChain ==
    /\ \A js : Moves(js, js)
    /\ \A js, ks, ls : Moves(js, ks) /\ Moves(ks, ls)
           /\ (\A j \in Jobs : js[j].outcome \in Disqualifying =>
                  ks[j].outcome \in Disqualifying)
           => Moves(js, ls)
BY DEF Moves, RowMoves

\* What the statements of store.py do, but for the two that start an execution.
\* Only the salvage replaces a disqualifying outcome by another kind.
LEMMA RowMovesTypes ==
    ASSUME NEW job \in JobRow
    PROVE  /\ \A o \in {"none", "NO_CHANGE"} : RowMoves(job, MarkSucceeded(job, o))
           /\ \A b \in BOOLEAN : RowMoves(job, MarkFailure(job, b))
           /\ RowMoves(job, MarkBlocked(job)) /\ RowMoves(job, MarkCancelled(job))
           /\ RowMoves(job, MarkInvalidated(job)) /\ RowMoves(job, MarkSalvaged(job))
           /\ RowMoves(job, PromoteQueuedToReady(job))
           /\ RowMoves(job, MarkReadyFromBlocked(job))
           /\ RowMoves(job, PromoteRetryWaitToReady(job))
           /\ \A b \in BOOLEAN : MarkFailure(job, b).outcome = job.outcome
           /\ MarkBlocked(job).outcome = job.outcome
           /\ MarkCancelled(job).outcome = job.outcome
           /\ PromoteRetryWaitToReady(job).outcome = job.outcome
<1>1. \A b \in BOOLEAN : MarkFailure(job, b).outcome = job.outcome
  BY DEF MarkFailure, JobRow
<1>2. \A b \in BOOLEAN : RowMoves(job, MarkFailure(job, b))
  BY <1>1, InactiveWrites DEF RowMoves, ActiveStatuses
<1>3. \A o \in {"none", "NO_CHANGE"} : RowMoves(job, MarkSucceeded(job, o))
  BY DEF RowMoves, MarkSucceeded, JobRow, ActiveStatuses, Disqualifying
<1>4. /\ MarkBlocked(job).outcome = job.outcome
      /\ MarkCancelled(job).outcome = job.outcome
      /\ PromoteRetryWaitToReady(job).outcome = job.outcome
      /\ PromoteQueuedToReady(job).outcome = job.outcome
      /\ MarkReadyFromBlocked(job).outcome = job.outcome
      /\ MarkInvalidated(job).outcome = "INVALIDATED"
      /\ MarkSalvaged(job).outcome = "SALVAGED"
  BY DEF MarkBlocked, MarkCancelled, PromoteRetryWaitToReady, PromoteQueuedToReady,
         MarkReadyFromBlocked, MarkInvalidated, MarkSalvaged, JobRow
<1>5. /\ RowMoves(job, MarkBlocked(job)) /\ RowMoves(job, MarkCancelled(job))
      /\ RowMoves(job, MarkInvalidated(job)) /\ RowMoves(job, MarkSalvaged(job))
      /\ RowMoves(job, PromoteQueuedToReady(job))
      /\ RowMoves(job, MarkReadyFromBlocked(job))
      /\ RowMoves(job, PromoteRetryWaitToReady(job))
  BY <1>4, InactiveWrites DEF RowMoves, ActiveStatuses, Disqualifying
<1> QED BY <1>1, <1>2, <1>3, <1>4, <1>5

SameOutcomes(js, ks) == \A j \in Jobs : ks[j].outcome = js[j].outcome

\* The writes of recover_expired_leases, stale or not.
LEMMA RecoverMoves ==
    ASSUME NEW js, NEW rs \in ScanRows, js \in [Jobs -> JobRow]
    PROVE  Moves(js, RecoverJobs(js, rs)) /\ SameOutcomes(js, RecoverJobs(js, rs))
<1> SUFFICES ASSUME NEW j \in Jobs
             PROVE  /\ RowMoves(js[j], RecoverJob(js[j], rs[j]))
                    /\ RecoverJob(js[j], rs[j]).outcome = js[j].outcome
  BY DEF Moves, SameOutcomes, RecoverJobs
<1>1. js[j] \in JobRow /\ rs[j] \in ScanRow
  BY DEF ScanRows
<1>2. CASE ~rs[j].hit
  BY <1>2 DEF RecoverJob, RowMoves
<1>3. CASE rs[j].hit
  <2>1. /\ RecoverJob(js[j], rs[j]).status = RecoveredStatus(rs[j])
        /\ RecoverJob(js[j], rs[j]).outcome = js[j].outcome
    BY <1>1, <1>3 DEF RecoverJob, JobRow
  <2>2. RecoveredStatus(rs[j]) \in {"READY", "FAILED", "RETRY_WAIT"}
    BY <1>1, MaxAttemptsAssumption DEF RecoveredStatus, ScanRow
  <2> QED BY <2>1, <2>2 DEF RowMoves, ActiveStatuses
<1> QED BY <1>2, <1>3

\* Blocking, cancelling and promoting sets of rows.
LEMMA SetWritesMove ==
    ASSUME NEW js, NEW S, js \in [Jobs -> JobRow]
    PROVE  /\ Moves(js, BlockAll(js, S)) /\ Moves(js, CancelAll(js, S))
           /\ Moves(js, PromoteAll(js, S)) /\ SameOutcomes(js, CancelAll(js, S))
BY RowMovesTypes
   DEF Moves, RowMoves, SameOutcomes, BlockAll, CancelAll, PromoteAll

\* A single statement on one row.
LEMMA OneRowMoves ==
    ASSUME NEW js, js \in [Jobs -> JobRow], NEW j \in Jobs, NEW row, RowMoves(js[j], row)
    PROVE  Moves(js, [js EXCEPT ![j] = row])
BY DEF Moves, RowMoves

\* Phase 1 moves rows, or starts one execution on rows it moved.
LEMMA Phase1Moves ==
    ASSUME NEW w \in Workers, NEW j \in Jobs, NEW js, NEW ls, Tables(js, ls),
           Moves(jobs, js), SameOutcomes(jobs, js), Phase1(w, j, js, ls)
    PROVE  Moves(jobs, jobs') \/ Starts(js, j)
<1>1. CASE LeaseConflict(w, j, js, ls)
  BY <1>1 DEF LeaseConflict
<1>2. CASE StartBlocked(w, j, js, ls)
  <2>1. js[j] \in JobRow /\ MarkLeased(js[j]) \in JobRow
    BY JobRowTypes DEF Tables
  <2>2. MarkLeased(js[j]).outcome = js[j].outcome
    BY <2>1 DEF MarkLeased, JobRow
  <2> DEFINE row == MarkFailure(MarkLeased(js[j]), TRUE)
  <2>3. row.outcome = js[j].outcome /\ row.status \notin ActiveStatuses
    BY <2>1, <2>2, RowMovesTypes, InactiveWrites DEF ActiveStatuses
  <2>4. jobs' = [js EXCEPT ![j] = row]
    BY <1>2 DEF StartBlocked
  <2> HIDE DEF row
  <2>5. RowMoves(js[j], row)
    BY <2>3 DEF RowMoves
  <2>6. Moves(js, jobs')
    BY <2>4, <2>5, OneRowMoves DEF Tables
  <2> QED BY <2>6, MovesChain DEF SameOutcomes
<1>3. CASE StartRunning(w, j, js, ls)
  BY <1>3 DEF StartRunning, Starts
<1> QED BY <1>1, <1>2, <1>3 DEF Phase1

\* Every step moves rows, or starts one execution on rows it moved.
LEMMA StepMoves ==
    ASSUME TypeInv, [Next]_vars
    PROVE  \/ Moves(jobs, jobs')
           \/ \E js : /\ js \in [Jobs -> JobRow] /\ Moves(jobs, js) /\ SameOutcomes(jobs, js)
                      /\ \E j \in Jobs : Starts(js, j)
<1> DEFINE Goal == \/ Moves(jobs, jobs')
                   \/ \E js : /\ js \in [Jobs -> JobRow] /\ Moves(jobs, js)
                              /\ SameOutcomes(jobs, js) /\ \E j \in Jobs : Starts(js, j)
<1> USE ProcsHaveMembers
<1>0. /\ DbType /\ LocalType /\ Tables(jobs, leases) /\ TaskKnown /\ CommandKnown
      /\ jobs \in [Jobs -> JobRow] /\ \A j \in Jobs : jobs[j] \in JobRow
  BY DEF TypeInv, DbType, Tables
<1>1. \A p \in Procs : /\ Tables(RecoveredJobs(p), RecoveredLeases(p))
                       /\ RecoveredJobs(p) \in [Jobs -> JobRow]
                       /\ Moves(jobs, RecoveredJobs(p))
                       /\ SameOutcomes(jobs, RecoveredJobs(p))
  BY <1>0, RecoveredTypes, RecoverMoves DEF RecoveredJobs, LocalType, Tables
<1>2. CASE jobs' = jobs
  BY <1>2, MovesChain
<1>3. ASSUME NEW w \in Workers, WorkerLease(w) PROVE Goal
  <2>1. task[w] \in Jobs /\ Phase1(w, task[w], RecoveredJobs(w), RecoveredLeases(w))
    BY <1>0, <1>3 DEF WorkerLease, TaskKnown
  <2>2. Moves(jobs, jobs') \/ Starts(RecoveredJobs(w), task[w])
    BY <1>1, <2>1, Phase1Moves
  <2> QED BY <1>1, <2>1, <2>2
<1>4. ASSUME NEW w \in Workers, WorkerRecover(w) PROVE Goal
  <2> DEFINE js == RecoveredJobs(w)
             ls == RecoveredLeases(w)
             again == ExpiredRows(js, ls)
             ks == RecoverJobs(js, again)
             ms == RecoverLeases(ls, again)
  <2>1. again \in ScanRows /\ Tables(ks, ms)
    <3>1. again \in ScanRows
      BY <1>0, <1>1, RecoverTypes DEF LocalType
    <3> QED BY <1>1, <3>1, RecoverTypes
  <2>2. Moves(js, ks) /\ SameOutcomes(js, ks)
    BY <1>1, <2>1, RecoverMoves
  <2>3. CASE jobs' = js
    BY <1>1, <2>3
  <2>4. ASSUME NEW j \in Choice(w, js), Phase1(w, j, ks, ms) PROVE Goal
    <3>1. j \in Jobs
      BY <1>0, <2>4, ProcsAssumption DEF Choice, EligibleReady, LocalType
    <3> HIDE DEF js, ls, again, ks, ms
    <3>2. Moves(jobs, js) /\ SameOutcomes(jobs, js)
      BY <1>1 DEF js
    <3>3. Moves(jobs, ks) /\ SameOutcomes(jobs, ks)
      BY <2>2, <3>2, MovesChain DEF SameOutcomes
    <3>4. Moves(jobs, jobs') \/ Starts(ks, j)
      BY <2>1, <2>4, <3>1, <3>3, Phase1Moves
    <3> QED BY <2>1, <3>1, <3>3, <3>4 DEF Tables
  <2> QED BY <1>4, <2>3, <2>4 DEF WorkerRecover
<1>5. ASSUME NEW w \in Workers, WorkerSucceeds(w) \/ WorkerFails(w) \/ WorkerRefuses(w)
      PROVE  Goal
  <2>1. task[w] \in Jobs
    BY <1>0, <1>5 DEF WorkerSucceeds, WorkerFails, WorkerRefuses, Finish, TaskKnown
  <2>2. PICK row : RowMoves(jobs[task[w]], row) /\ jobs' = [jobs EXCEPT ![task[w]] = row]
    BY <1>0, <1>5, <2>1, RowMovesTypes DEF WorkerSucceeds, WorkerFails, WorkerRefuses, Finish
  <2> QED BY <1>0, <2>1, <2>2, OneRowMoves
<1>6. CASE DispatchSubmit
  BY <1>1, <1>6 DEF DispatchSubmit
<1>7. CASE RecoveryPass
  <2> DEFINE js == RecoveredJobs(Recovery)
  <2>1. jobs' = PromoteAll(js, Listing(js)) \/ jobs' = BlockAll(js, Listing(js))
    BY <1>7 DEF RecoveryPass
  <2>2. Moves(js, jobs')
    BY <1>1, <2>1, SetWritesMove
  <2>3. Moves(jobs, js) /\ SameOutcomes(jobs, js)
    BY <1>1
  <2> HIDE DEF js
  <2> QED BY <2>2, <2>3, MovesChain DEF SameOutcomes
<1>8. CASE RecoveryBlock \/ RecoveryPromote
  BY <1>0, <1>8, SetWritesMove, MovesChain DEF RecoveryBlock, RecoveryPromote
<1>9. CASE CancelApply
  BY <1>0, <1>9, SetWritesMove DEF CancelApply, Answer
<1>10. CASE InvalidateApply
  <2> DEFINE js == CancelAll(jobs, command.targets)
             row == MarkInvalidated(js[command.job])
  <2>1. /\ js \in [Jobs -> JobRow] /\ Moves(jobs, js) /\ SameOutcomes(jobs, js)
        /\ command.job \in Jobs
    BY <1>0, <1>10, SetWritesTypes, SetWritesMove DEF InvalidateApply, CommandKnown
  <2>2. jobs' = [js EXCEPT ![command.job] = row]
    BY <1>10 DEF InvalidateApply, Answer
  <2> HIDE DEF js
  <2>3. RowMoves(js[command.job], row)
    BY <2>1, RowMovesTypes
  <2>4. Moves(js, jobs')
    <3> HIDE DEF row
    <3> QED BY <2>1, <2>2, <2>3, OneRowMoves
  <2> QED BY <2>1, <2>4, MovesChain DEF SameOutcomes
<1>11. ASSUME NEW promote \in BOOLEAN, ReclaimApply(promote) PROVE Goal
  <2> DEFINE j == command.job
             expired == [leases EXCEPT ![j].expired = @ \/ ActiveLease(leases[j])]
             hit == ExpiredRows(jobs, expired)
             recovered == RecoverJobs(jobs, hit)
             js == IF hit[j].hit THEN recovered
                   ELSE [recovered EXCEPT ![j] = MarkFailure(recovered[j], FALSE)]
  <2>1. j \in Jobs
    BY <1>0, <1>11 DEF ReclaimApply, CommandKnown
  <2>2. Tables(jobs, expired)
    BY <1>0, <2>1 DEF Tables, LeaseRow, ActiveLease
  <2>3. hit \in ScanRows
    BY <1>0, <2>2, RecoverTypes DEF LocalType
  <2>4. /\ recovered \in [Jobs -> JobRow]
        /\ Moves(jobs, recovered) /\ SameOutcomes(jobs, recovered)
    BY <1>0, <2>2, <2>3, RecoverTypes, RecoverMoves DEF Tables
  <2>5. \/ jobs' = js \/ jobs' = jobs
        \/ jobs' = [js EXCEPT ![j] = PromoteRetryWaitToReady(js[j])]
    BY <1>11 DEF ReclaimApply, Answer
  <2> HIDE DEF recovered, hit, expired
  <2>6. recovered[j] \in JobRow
    BY <2>1, <2>4
  <2>7. /\ RowMoves(recovered[j], MarkFailure(recovered[j], FALSE))
        /\ MarkFailure(recovered[j], FALSE).outcome = recovered[j].outcome
        /\ MarkFailure(recovered[j], FALSE) \in JobRow
    BY <2>6, RowMovesTypes, JobRowTypes
  <2>8. js \in [Jobs -> JobRow] /\ Moves(recovered, js) /\ SameOutcomes(recovered, js)
    <3>1. CASE hit[j].hit
      BY <2>4, <3>1, MovesChain DEF SameOutcomes
    <3>2. CASE ~hit[j].hit
      <4> DEFINE row == MarkFailure(recovered[j], FALSE)
      <4>1. js = [recovered EXCEPT ![j] = row]
        BY <3>2
      <4> HIDE DEF row, js
      <4>2. js \in [Jobs -> JobRow] /\ SameOutcomes(recovered, js)
        BY <2>1, <2>4, <2>7, <4>1 DEF SameOutcomes, row
      <4>3. Moves(recovered, js)
        BY <2>1, <2>4, <2>7, <4>1, OneRowMoves DEF row
      <4> QED BY <4>2, <4>3
    <3> QED BY <3>1, <3>2
  <2> HIDE DEF js
  <2>9. Moves(jobs, js) /\ SameOutcomes(jobs, js)
    BY <2>4, <2>8, MovesChain DEF SameOutcomes
  <2>10. Moves(js, [js EXCEPT ![j] = PromoteRetryWaitToReady(js[j])])
    BY <2>1, <2>8, RowMovesTypes, OneRowMoves
  <2>11. Moves(jobs, [js EXCEPT ![j] = PromoteRetryWaitToReady(js[j])])
    BY <2>9, <2>10, MovesChain DEF SameOutcomes
  <2> QED BY <1>2, <2>5, <2>9, <2>11
<1>12. CASE SalvageApply
  <2>1. command.job \in Jobs
    BY <1>0, <1>12 DEF SalvageApply, CommandKnown
  <2>2. RowMoves(jobs[command.job], MarkSalvaged(jobs[command.job]))
    BY <1>0, <2>1, RowMovesTypes
  <2>3. Moves(jobs, [jobs EXCEPT ![command.job] = MarkSalvaged(jobs[command.job])])
    BY <1>0, <2>1, <2>2, OneRowMoves DEF Tables
  <2> QED BY <1>2, <1>12, <2>3 DEF SalvageApply, Answer
<1>13. ASSUME NEW j \in Jobs, Revalidate(j) \/ PromoteQueued(j) PROVE Goal
  <2>1. PICK row : RowMoves(jobs[j], row) /\ jobs' = [jobs EXCEPT ![j] = row]
    BY <1>0, <1>13, RowMovesTypes DEF Revalidate, PromoteQueued
  <2> QED BY <1>0, <2>1, OneRowMoves
<1>14. ASSUME NEW j \in Jobs, LeaseExpires(j) \/ BackoffElapses(j) PROVE Goal
  BY <1>0, <1>14 DEF LeaseExpires, BackoffElapses, Moves, RowMoves, JobRow
<1>15. ASSUME NEW w \in Workers,
              \/ StartWorker(w) \/ WorkerScan(w) \/ WorkerSelect(w) \/ WorkerLeaseScan(w)
              \/ WorkerCrash(w)
       PROVE  jobs' = jobs
  BY <1>15 DEF StartWorker, WorkerScan, WorkerSelect, WorkerLeaseScan, WorkerCrash, db
<1>16. ASSUME \/ SetPaused \/ IdentityChanges \/ UNCHANGED vars
              \/ DispatchScan \/ DropFutures \/ RecoveryScan \/ RecoveryList
              \/ \E j \in Jobs : \/ CancelAsk(j) \/ InvalidateAsk(j)
                                 \/ ReclaimAsk(j) \/ SalvageAsk(j)
       PROVE  jobs' = jobs
  BY <1>16 DEF SetPaused, IdentityChanges, CancelAsk, InvalidateAsk, ReclaimAsk, SalvageAsk,
               Ask, vars, db, DispatchScan, DropFutures, RecoveryScan, RecoveryList
<1> HIDE DEF Goal
<1>17. CASE jobs' = jobs
  BY <1>2, <1>17 DEF Goal
<1>18. Goal
  BY <1>3, <1>4, <1>5, <1>6, <1>7, <1>8, <1>9, <1>10, <1>11, <1>12, <1>13, <1>14, <1>15,
     <1>16, <1>17
     DEF Next, WorkerStep, DispatchStep, RecoveryStep, CommandStep, TimeStep, Goal
<1> QED BY <1>18 DEF Goal

\* find_active_worktree_holder is asked in the transaction that starts the
\* execution, and nothing else makes a job LEASED or RUNNING: two jobs of one
\* worktree never are at once, whatever recovery, operators and late workers do.
THEOREM WorktreesAreExclusive == Spec => []WorktreeExclusive
<1>1. Init => WorktreeExclusive
  BY DEF Init, WorktreeExclusive, CreateJob, ActiveStatuses
<1>2. TypeInv /\ WorktreeExclusive /\ [Next]_vars => WorktreeExclusive'
  <2> SUFFICES ASSUME TypeInv, WorktreeExclusive, [Next]_vars,
                      NEW j \in Jobs, NEW k \in Jobs \ {j},
                      Worktree[j] = Worktree[k], Worktree[j] # NoWorktree,
                      jobs'[j].status \in ActiveStatuses, jobs'[k].status \in ActiveStatuses
               PROVE  FALSE
    BY DEF WorktreeExclusive
  <2>1. CASE Moves(jobs, jobs')
    BY <2>1 DEF Moves, RowMoves, WorktreeExclusive
  <2>2. ASSUME NEW js, js \in [Jobs -> JobRow], Moves(jobs, js), NEW i \in Jobs, Starts(js, i)
        PROVE  FALSE
    <3>1. \A l \in Jobs \ {i} : jobs'[l] = js[l]
      BY <2>2 DEF Starts
    <3>2. CASE i # j /\ i # k
      BY <2>2, <3>1, <3>2 DEF Moves, RowMoves, WorktreeExclusive
    <3>3. CASE i = j
      BY <2>2, <3>1, <3>3 DEF Starts, WorktreeHeld
    <3>4. CASE i = k
      BY <2>2, <3>1, <3>4 DEF Starts, WorktreeHeld
    <3> QED BY <3>2, <3>3, <3>4
  <2> QED BY <2>1, <2>2, StepMoves
<1> QED BY <1>1, <1>2, TypeInvariant, PTL DEF Spec

\* The COALESCE of mark_succeeded, at every step: a delivery declared NO_CHANGE
\* or INVALIDATED satisfies no dependency afterwards, unless it is salvaged.
THEOREM OutcomesStick == Spec => OutcomeSticks
<1> DEFINE Sticks == \A j \in Jobs : jobs[j].outcome \in Disqualifying
                         => \/ ~JobSatisfiesDependency(jobs'[j])
                            \/ jobs'[j].outcome = "SALVAGED"
<1>1. ASSUME TypeInv, [Next]_vars PROVE Sticks
  <2> SUFFICES ASSUME NEW j \in Jobs, jobs[j].outcome \in Disqualifying
               PROVE  jobs'[j].outcome \in Disqualifying \cup {"SALVAGED"}
    BY DEF JobSatisfiesDependency
  <2>1. CASE Moves(jobs, jobs')
    BY <2>1 DEF Moves, RowMoves
  <2>2. ASSUME NEW js, js \in [Jobs -> JobRow], SameOutcomes(jobs, js),
               NEW i \in Jobs, Starts(js, i)
        PROVE  jobs'[j].outcome = jobs[j].outcome
    <3>1. MarkRunning(MarkLeased(js[i])).outcome = js[i].outcome
      BY <2>2 DEF MarkRunning, MarkLeased, JobRow
    <3>2. jobs'[j].outcome = js[j].outcome
      BY <2>2, <3>1 DEF Starts
    <3> QED BY <2>2, <3>2 DEF SameOutcomes
  <2> QED BY <1>1, <2>1, <2>2, StepMoves
<1>2. TypeInv /\ [Next]_vars => [Sticks]_vars
  BY <1>1
<1> QED BY <1>2, TypeInvariant, PTL DEF Spec, OutcomeSticks
=============================================================================
