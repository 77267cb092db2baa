-------------------------- MODULE JobQueueOwnership --------------------------
(***************************************************************************)
(* With safe settings (leases longer than any run, no command that takes a   *)
(* running job away) a job is never executed by two workers at once, a       *)
(* worker that finishes still owns the lease, and every attempt was paid for *)
(* by a lease, although the writes of recover_expired_leases may be stale.   *)
(***************************************************************************)
EXTENDS JobQueueProofs

\* Nobody outside the workers takes leases away.
Quiet ==
    identityOk /\ command.kind \in {"none", "salvage"} /\ pc[Recovery] # "blocking"

IdsBounded(ls) == \A j \in Jobs : ls[j].id <= granted[j]

\* An attempt is charged only when a lease ends.
Paid(js, ls) ==
    \A j \in Jobs : /\ js[j].attempt <= ls[j].id
                    /\ ActiveLease(ls[j]) => js[j].attempt < ls[j].id

\* What a scan remembers was true of a lease at least as old as the present one.
RowsPaid(rs, ls) ==
    \A j \in Jobs : rs[j].hit => /\ rs[j].attempt < rs[j].lease
                                 /\ rs[j].lease <= ls[j].id

\* An executing worker holds the unreleased, unexpired lease of its job ...
Owners(ls) ==
    \A w \in Workers : pc[w] = "executing" =>
        /\ ActiveLease(ls[task[w]]) /\ ~ls[task[w]].expired
        /\ ls[task[w]].id = held[w]

\* ... that no scan, however stale, remembers as expired.
RowsSpare(rs) ==
    \A w \in Workers : pc[w] = "executing" /\ rs[task[w]].hit => rs[task[w]].lease # held[w]

OwnershipInv ==
    /\ Quiet /\ IdsBounded(leases) /\ Paid(jobs, leases) /\ Owners(leases)
    /\ \A p \in Procs : RowsPaid(rows[p], leases) /\ RowsSpare(rows[p])
    /\ OneExecutor
-----------------------------------------------------------------------------
SameIds(ls, ms) == \A j \in Jobs : ms[j].id = ls[j].id

\* Recovery writes, stale or not, charge no attempt that was not paid for and
\* take no lease from an executing worker.
LEMMA RecoverSafe ==
    ASSUME LocalType, TaskKnown, NEW js, NEW ls, NEW rs \in ScanRows, Tables(js, ls),
           Paid(js, ls), RowsPaid(rs, ls), Owners(ls), RowsSpare(rs)
    PROVE  /\ Paid(RecoverJobs(js, rs), RecoverLeases(ls, rs))
           /\ Owners(RecoverLeases(ls, rs))
           /\ SameIds(ls, RecoverLeases(ls, rs))
<1>1. ASSUME NEW j \in Jobs
      PROVE  /\ RecoverLease(ls[j], rs[j]).id = ls[j].id
             /\ RecoverLease(ls[j], rs[j]).expired = ls[j].expired
             /\ ActiveLease(RecoverLease(ls[j], rs[j]))
                    <=> ActiveLease(ls[j]) /\ ~(rs[j].hit /\ ls[j].id = rs[j].lease)
  BY DEF RecoverLease, ReleaseLease, ActiveLease, Tables, LeaseRow
<1>2. SameIds(ls, RecoverLeases(ls, rs))
  BY <1>1 DEF SameIds, RecoverLeases
<1>3. Owners(RecoverLeases(ls, rs))
  BY <1>1 DEF Owners, RowsSpare, RecoverLeases, TaskKnown
<1>4. ASSUME NEW j \in Jobs
      PROVE  /\ RecoverJob(js[j], rs[j]).attempt <= ls[j].id
             /\ ActiveLease(RecoverLease(ls[j], rs[j]))
                    => RecoverJob(js[j], rs[j]).attempt < ls[j].id
  <2>1. js[j] \in JobRow /\ ls[j] \in LeaseRow /\ rs[j] \in ScanRow
    BY DEF Tables, ScanRows
  <2>2. CASE ~rs[j].hit
    BY <1>1, <2>1, <2>2 DEF RecoverJob, Paid
  <2>3. CASE rs[j].hit
    <3>1. RecoverJob(js[j], rs[j]).attempt = RecoveredAttempt(rs[j])
      BY <2>1, <2>3 DEF RecoverJob, JobRow
    <3>2. RecoveredAttempt(rs[j]) <= rs[j].lease
      BY <2>1, <2>3 DEF RecoveredAttempt, RowsPaid, ScanRow
    <3> QED BY <1>1, <2>1, <2>3, <3>1, <3>2
        DEF RowsPaid, RecoveredAttempt, ScanRow, LeaseRow
  <2> QED BY <2>2, <2>3
<1>5. Paid(RecoverJobs(js, rs), RecoverLeases(ls, rs))
  BY <1>1, <1>4 DEF Paid, RecoverJobs, RecoverLeases
<1> QED BY <1>2, <1>3, <1>5

\* A fresh scan finds only leases no executing worker holds.
LEMMA ScanSafe ==
    ASSUME LocalType, TaskKnown, NEW js, NEW ls, Tables(js, ls), Paid(js, ls), Owners(ls)
    PROVE  RowsPaid(ExpiredRows(js, ls), ls) /\ RowsSpare(ExpiredRows(js, ls))
<1>1. RowsPaid(ExpiredRows(js, ls), ls)
  BY DEF RowsPaid, ExpiredRows, Paid, NoRow, Tables, LeaseRow, JobRow
<1>2. RowsSpare(ExpiredRows(js, ls))
  BY DEF RowsSpare, ExpiredRows, Owners, NoRow, TaskKnown
<1> QED BY <1>1, <1>2

\* A worker that ends leaves the other owners and every scan as they were.
LEMMA EndsSafe ==
    ASSUME TypeInv, OwnershipInv, NEW w \in Workers, NEW js, NEW ls, Tables(js, ls),
           WorkerEnds(w), jobs' = js, leases' = ls, UNCHANGED <<granted, identityOk, command>>,
           Paid(js, ls),
           \A v \in Workers \ {w} : pc[v] = "executing" =>
                /\ ActiveLease(ls[task[v]]) /\ ~ls[task[v]].expired /\ ls[task[v]].id = held[v],
           SameIds(leases, ls)
    PROVE  OwnershipInv'
<1> USE ProcsHaveMembers
<1>0. DbType /\ LocalType /\ TaskKnown
  BY DEF TypeInv
<1>1. \A v \in Workers : pc'[v] = "executing" =>
          v # w /\ pc[v] = "executing" /\ task'[v] = task[v] /\ held'[v] = held[v]
  BY <1>0 DEF WorkerEnds, LocalType
<1>2. Quiet'
  BY <1>0, ProcsAssumption DEF OwnershipInv, Quiet, WorkerEnds, LocalType
<1>3. IdsBounded(leases)' /\ Paid(jobs, leases)'
  BY DEF OwnershipInv, IdsBounded, SameIds, Paid
<1>4. Owners(leases)'
  BY <1>1 DEF Owners
<1>5. ASSUME NEW p \in Procs PROVE RowsPaid(rows[p], leases)' /\ RowsSpare(rows[p])'
  <2>1. CASE p = w
    BY <1>0, <1>1, <2>1 DEF WorkerEnds, LocalType, RowsPaid, RowsSpare, NothingFound, NoRow,
                             TaskKnown
  <2>2. CASE p # w
    <3>1. rows'[p] = rows[p]
      BY <1>0, <2>2 DEF WorkerEnds, LocalType
    <3> QED BY <1>1, <3>1 DEF OwnershipInv, RowsPaid, RowsSpare, SameIds
  <2> QED BY <2>1, <2>2
<1>6. OneExecutor'
  BY <1>1 DEF OwnershipInv, OneExecutor, Executing
<1> QED BY <1>2, <1>3, <1>4, <1>5, <1>6 DEF OwnershipInv

\* Phase 1 grants a lease only on a job nobody executes, with a new id.
LEMMA Phase1Safe ==
    ASSUME TypeInv, OwnershipInv, NEW w \in Workers, pc[w] # "executing", NEW j \in Jobs,
           NEW js, NEW ls, Tables(js, ls), Paid(js, ls), Owners(ls), SameIds(leases, ls),
           Phase1(w, j, js, ls), UNCHANGED <<identityOk, command>>
    PROVE  OwnershipInv'
<1> USE ProcsHaveMembers
<1>0. DbType /\ LocalType /\ TaskKnown
  BY DEF TypeInv
<1>1. CASE LeaseConflict(w, j, js, ls)
  BY <1>1, EndsSafe DEF LeaseConflict, Owners
<1> DEFINE id == granted[j] + 1
<1>2. /\ id \in Nat
      /\ \A k \in Jobs : granted[k] \in Nat /\ ls[k].id \in Nat /\ leases[k].id \in Nat
      /\ \A k \in Jobs : ls[k].id <= granted[k] /\ js[k].attempt \in Nat
  BY <1>0 DEF DbType, Tables, LeaseRow, JobRow, OwnershipInv, IdsBounded, SameIds
<1>3. CanLease(j, js, ls) => \A v \in Workers : pc[v] = "executing" => task[v] # j
  BY DEF CanLease, Owners
<1>4. \A p \in Procs : rows[p] \in ScanRows
  BY <1>0 DEF LocalType
<1>5. CASE StartBlocked(w, j, js, ls)
  <2>1. \A v \in Workers : pc[v] = "executing" => task[v] # j
    BY <1>3, <1>5 DEF StartBlocked
  <2>2. /\ leases'[j].id = id /\ ~ActiveLease(leases'[j])
        /\ \A k \in Jobs \ {j} : leases'[k] = ls[k] /\ jobs'[k] = js[k] /\ granted'[k] = granted[k]
        /\ granted'[j] = id
    BY <1>0, <1>5 DEF StartBlocked, NewLease, ReleaseLease, ActiveLease, Tables, DbType
  <2>3. jobs'[j].attempt = js[j].attempt + 1
    <3>1. js[j] \in JobRow
      BY DEF Tables
    <3> QED BY <1>5, <3>1 DEF StartBlocked, MarkFailure, MarkLeased, JobRow, Tables
  <2>4. \A v \in Workers : pc'[v] = "executing" =>
            pc[v] = "executing" /\ v # w /\ task'[v] = task[v] /\ held'[v] = held[v]
    BY <1>0, <1>5 DEF StartBlocked, WorkerEnds, LocalType
  <2>5. Quiet'
    BY <1>0, <1>5, ProcsAssumption DEF StartBlocked, OwnershipInv, Quiet, WorkerEnds, LocalType
  <2>6. IdsBounded(leases)' /\ Paid(jobs, leases)'
    BY <1>2, <2>2, <2>3 DEF IdsBounded, Paid
  <2>7. Owners(leases)'
    BY <1>0, <2>1, <2>2, <2>4 DEF Owners, TaskKnown
  <2>8. ASSUME NEW p \in Procs PROVE RowsPaid(rows[p], leases)' /\ RowsSpare(rows[p])'
    <3>1. rows'[p] = rows[p] \/ rows'[p] = NothingFound
      BY <1>0, <1>5 DEF StartBlocked, WorkerEnds, LocalType
    <3>2. CASE rows'[p] = NothingFound
      BY <1>0, <2>4, <3>2 DEF RowsPaid, RowsSpare, NothingFound, NoRow, TaskKnown
    <3>3. CASE rows'[p] = rows[p]
      <4>1. RowsPaid(rows[p], leases) /\ RowsSpare(rows[p])
        BY DEF OwnershipInv
      <4>2. \A k \in Jobs : rows[p][k].lease \in Nat /\ rows[p][k].attempt \in Nat
        BY <1>4 DEF ScanRows, ScanRow
      <4>3. \A k \in Jobs : leases[k].id <= leases'[k].id
        BY <1>2, <2>2 DEF SameIds
      <4>4. \A k \in Jobs : leases'[k].id \in Nat
        BY <1>2, <2>2
      <4> QED BY <1>2, <2>4, <3>3, <4>1, <4>2, <4>3, <4>4 DEF RowsPaid, RowsSpare
    <3> QED BY <3>1, <3>2, <3>3
  <2>9. OneExecutor'
    BY <2>4 DEF OwnershipInv, OneExecutor, Executing
  <2> QED BY <2>5, <2>6, <2>7, <2>8, <2>9 DEF OwnershipInv
<1>6. CASE StartRunning(w, j, js, ls)
  <2>1. \A v \in Workers : pc[v] = "executing" => task[v] # j
    BY <1>3, <1>6 DEF StartRunning
  <2>2. /\ leases'[j].id = id /\ ActiveLease(leases'[j]) /\ ~leases'[j].expired
        /\ \A k \in Jobs \ {j} : leases'[k] = ls[k] /\ jobs'[k] = js[k] /\ granted'[k] = granted[k]
        /\ granted'[j] = id
    BY <1>0, <1>6 DEF StartRunning, NewLease, ActiveLease, Tables, DbType
  <2>3. jobs'[j].attempt = js[j].attempt
    <3>1. js[j] \in JobRow
      BY DEF Tables
    <3> QED BY <1>6, <3>1 DEF StartRunning, MarkRunning, MarkLeased, JobRow, Tables
  <2>4. \A v \in Workers : pc'[v] = "executing" =>
            \/ v = w /\ task'[v] = j /\ held'[v] = id
            \/ v # w /\ pc[v] = "executing" /\ task'[v] = task[v] /\ held'[v] = held[v]
    BY <1>0, <1>6 DEF StartRunning, LocalType
  <2>5. Quiet'
    BY <1>0, <1>6, ProcsAssumption DEF StartRunning, OwnershipInv, Quiet, LocalType
  <2>6. IdsBounded(leases)' /\ Paid(jobs, leases)'
    BY <1>2, <2>2, <2>3 DEF IdsBounded, Paid
  <2>7. Owners(leases)'
    BY <1>0, <2>1, <2>2, <2>4 DEF Owners, TaskKnown
  <2>8. ASSUME NEW p \in Procs PROVE RowsPaid(rows[p], leases)' /\ RowsSpare(rows[p])'
    <3>1. rows'[p] = rows[p] \/ rows'[p] = NothingFound
      BY <1>0, <1>6 DEF StartRunning, LocalType
    <3>2. CASE rows'[p] = NothingFound
      BY <1>0, <2>4, <3>2 DEF RowsPaid, RowsSpare, NothingFound, NoRow, TaskKnown
    <3>3. CASE rows'[p] = rows[p]
      <4>1. RowsPaid(rows[p], leases) /\ RowsSpare(rows[p])
        BY DEF OwnershipInv
      <4>2. \A k \in Jobs : rows[p][k].lease \in Nat /\ rows[p][k].attempt \in Nat
        BY <1>4 DEF ScanRows, ScanRow
      <4>3. \A k \in Jobs : leases[k].id <= leases'[k].id
        BY <1>2, <2>2 DEF SameIds
      <4>4. \A k \in Jobs : leases'[k].id \in Nat
        BY <1>2, <2>2
      <4>5. RowsPaid(rows[p], leases)'
        BY <1>2, <3>3, <4>1, <4>2, <4>3, <4>4 DEF RowsPaid
      <4>6. rows[p][j].hit => rows[p][j].lease # id
        BY <1>2, <4>1, <4>2 DEF RowsPaid, SameIds
      <4>7. RowsSpare(rows[p])'
        BY <2>4, <3>3, <4>1, <4>6 DEF RowsSpare
      <4> QED BY <4>5, <4>7
    <3> QED BY <3>1, <3>2, <3>3
  <2>9. OneExecutor'
    BY <2>1, <2>4 DEF OwnershipInv, OneExecutor, Executing
  <2> QED BY <2>5, <2>6, <2>7, <2>8, <2>9 DEF OwnershipInv
<1> QED BY <1>1, <1>5, <1>6 DEF Phase1

\* The scan of any process keeps the invariant.
LEMMA ScanStepSafe ==
    ASSUME TypeInv, OwnershipInv, NEW p \in Procs, NEW from, NEW found, NEW nothing,
           found # "executing", nothing # "executing", found # "blocking", nothing # "blocking",
           from # "executing",
           Scan(p, from, found, nothing),
           UNCHANGED <<jobs, leases, granted, identityOk, command, task, held>>
    PROVE  OwnershipInv'
<1> USE ProcsHaveMembers
<1>0. DbType /\ LocalType /\ TaskKnown /\ Tables(jobs, leases)
  BY DEF TypeInv, DbType
<1>1. \A v \in Procs : pc'[v] = "executing" <=> pc[v] = "executing"
  BY <1>0 DEF Scan, LocalType
<1>2. RowsPaid(ExpiredRows(jobs, leases), leases) /\ RowsSpare(ExpiredRows(jobs, leases))
  BY <1>0, ScanSafe DEF OwnershipInv
<1>3. \A q \in Procs : rows'[q] = rows[q] \/ rows'[q] = ExpiredRows(jobs, leases)
  BY <1>0 DEF Scan, LocalType
<1>4. \A q \in Procs : RowsPaid(rows[q], leases)' /\ RowsSpare(rows[q])'
  BY <1>1, <1>2, <1>3 DEF OwnershipInv, RowsPaid, RowsSpare
<1>5. Quiet'
  BY <1>0 DEF OwnershipInv, Quiet, Scan, LocalType
<1>6. IdsBounded(leases)' /\ Paid(jobs, leases)' /\ Owners(leases)' /\ OneExecutor'
  BY <1>1 DEF OwnershipInv, IdsBounded, Paid, Owners, OneExecutor, Executing
<1> QED BY <1>4, <1>5, <1>6 DEF OwnershipInv

\* A step that starts no execution, scans nothing and keeps what the invariant
\* says of the tables keeps the invariant.
LEMMA TableStepSafe ==
    ASSUME TypeInv, OwnershipInv, Quiet',
           Paid(jobs, leases)', Owners(leases'), SameIds(leases, leases'),
           \A v \in Workers : pc'[v] = "executing" =>
               pc[v] = "executing" /\ task'[v] = task[v] /\ held'[v] = held[v],
           \A p \in Procs : rows'[p] = rows[p] \/ rows'[p] = NothingFound,
           UNCHANGED granted
    PROVE  OwnershipInv'
<1>0. TaskKnown
  BY DEF TypeInv
<1>1. IdsBounded(leases)' /\ Owners(leases)' /\ OneExecutor'
  BY DEF OwnershipInv, IdsBounded, SameIds, Owners, OneExecutor, Executing
<1>2. ASSUME NEW p \in Procs PROVE RowsPaid(rows[p], leases)' /\ RowsSpare(rows[p])'
  <2>1. CASE rows'[p] = NothingFound
    BY <1>0, <2>1 DEF RowsPaid, RowsSpare, NothingFound, NoRow, TaskKnown
  <2>2. CASE rows'[p] = rows[p]
    BY <2>2 DEF OwnershipInv, RowsPaid, RowsSpare, SameIds
  <2> QED BY <2>1, <2>2
<1> QED BY <1>1, <1>2 DEF OwnershipInv

\* Every step of a worker keeps the invariant.
LEMMA WorkerSafeStep ==
    ASSUME TypeInv, OwnershipInv, NEW w \in Workers,
           StartWorker(w) \/ WorkerStep(w) \/ WorkerCrash(w)
    PROVE  OwnershipInv'
<1> USE ProcsHaveMembers
<1>0. DbType /\ LocalType /\ TaskKnown /\ Tables(jobs, leases)
  BY DEF TypeInv, DbType
<1>a. Quiet /\ IdsBounded(leases) /\ Paid(jobs, leases) /\ Owners(leases) /\ SameIds(leases, leases)
  BY DEF OwnershipInv, SameIds
<1>b. /\ Tables(RecoveredJobs(w), RecoveredLeases(w))
      /\ Paid(RecoveredJobs(w), RecoveredLeases(w))
      /\ Owners(RecoveredLeases(w)) /\ SameIds(leases, RecoveredLeases(w))
  BY <1>0, <1>a, RecoverSafe, RecoveredTypes
     DEF OwnershipInv, RecoveredJobs, RecoveredLeases, LocalType
<1>1. CASE StartWorker(w)
  <2>1. Quiet'
    BY <1>0, <1>1, <1>a, ProcsAssumption DEF StartWorker, Quiet, LocalType, env
  <2>2. \A v \in Workers : pc'[v] = "executing" => pc[v] = "executing"
    BY <1>0, <1>1 DEF StartWorker, LocalType
  <2> QED BY <1>1, <1>a, <2>1, <2>2, TableStepSafe DEF StartWorker, db, Paid, Owners, SameIds
<1>2. CASE WorkerScan(w)
  BY <1>2, ScanStepSafe DEF WorkerScan, db, env
<1>3. CASE WorkerSelect(w)
  <2>1. CASE WorkerEnds(w)
    BY <1>0, <1>3, <1>a, <2>1, EndsSafe DEF WorkerSelect, db, env, Owners
  <2>2. CASE pc' = [pc EXCEPT ![w] = "lease"] /\ UNCHANGED <<rows, held>>
             /\ \E j \in Choice(w, jobs) : task' = [task EXCEPT ![w] = j]
    <3>1. Quiet'
      BY <1>0, <1>3, <1>a, <2>2, ProcsAssumption DEF WorkerSelect, Quiet, LocalType, env
    <3>2. \A v \in Workers : pc'[v] = "executing" =>
              pc[v] = "executing" /\ task'[v] = task[v] /\ held'[v] = held[v]
      BY <1>0, <1>3, <2>2 DEF WorkerSelect, LocalType
    <3> QED BY <1>3, <1>a, <2>2, <3>1, <3>2, TableStepSafe
        DEF WorkerSelect, db, Paid, Owners, SameIds
  <2> QED BY <1>3, <2>1, <2>2 DEF WorkerSelect
<1>4. CASE WorkerLeaseScan(w)
  BY <1>4, ScanStepSafe DEF WorkerLeaseScan, db, env
<1>5. CASE WorkerLease(w)
  BY <1>0, <1>5, <1>b, Phase1Safe DEF WorkerLease, TaskKnown, env
<1>6. CASE WorkerRecover(w)
  <2> DEFINE js == RecoveredJobs(w)
             ls == RecoveredLeases(w)
             again == ExpiredRows(js, ls)
  <2>1. CASE jobs' = js /\ leases' = ls /\ WorkerEnds(w) /\ UNCHANGED granted
    BY <1>6, <1>b, <2>1, EndsSafe DEF WorkerRecover, env, Owners
  <2>2. ASSUME NEW j \in Choice(w, js),
               Phase1(w, j, RecoverJobs(js, again), RecoverLeases(ls, again))
        PROVE  OwnershipInv'
    <3>1. j \in Jobs
      BY <1>0, <2>2 DEF Choice, EligibleReady, LocalType
    <3>2. again \in ScanRows
      BY <1>0, <1>b, RecoverTypes DEF LocalType
    <3>3. RowsPaid(again, ls) /\ RowsSpare(again)
      BY <1>0, <1>b, ScanSafe
    <3>4. /\ Tables(RecoverJobs(js, again), RecoverLeases(ls, again))
          /\ Paid(RecoverJobs(js, again), RecoverLeases(ls, again))
          /\ Owners(RecoverLeases(ls, again)) /\ SameIds(ls, RecoverLeases(ls, again))
      BY <1>0, <1>b, <3>2, <3>3, RecoverSafe, RecoverTypes
    <3>5. SameIds(leases, RecoverLeases(ls, again))
      BY <1>b, <3>4 DEF SameIds
    <3>6. pc[w] # "executing" /\ UNCHANGED <<identityOk, command>>
      BY <1>6 DEF WorkerRecover, env
    <3> HIDE DEF again, js, ls
    <3> QED BY <2>2, <3>1, <3>4, <3>5, <3>6, Phase1Safe
  <2> QED BY <1>6, <2>1, <2>2 DEF WorkerRecover
<1>7. ASSUME NEW row, Finish(w, row), row \in JobRow, row.attempt <= jobs[task[w]].attempt + 1
      PROVE  OwnershipInv'
  <2> DEFINE js == [jobs EXCEPT ![task[w]] = row]
             ls == [leases EXCEPT ![task[w]] = ReleaseLease(leases[task[w]])]
  <2>1. task[w] \in Jobs
    BY <1>0, <1>7 DEF Finish, TaskKnown
  <2>2. ReleaseLease(leases[task[w]]) \in LeaseRow
    BY <1>0, <2>1, LeaseRowTypes DEF Tables
  <2>3. Tables(js, ls)
    BY <1>0, <1>7, <2>1, <2>2 DEF Tables
  <2>4. /\ SameIds(leases, ls) /\ ~ActiveLease(ls[task[w]])
        /\ \A k \in Jobs \ {task[w]} : ls[k] = leases[k] /\ js[k] = jobs[k]
    BY <1>0, <2>1 DEF SameIds, ReleaseLease, ActiveLease, Tables, LeaseRow
  <2>5. row.attempt <= leases[task[w]].id
    <3>1. jobs[task[w]].attempt < leases[task[w]].id
      BY <1>7, <1>a, <2>1 DEF Finish, Owners, Paid
    <3> QED BY <1>0, <1>7, <2>1, <3>1 DEF Tables, JobRow, LeaseRow
  <2>6. Paid(js, ls)
    BY <1>0, <1>a, <2>1, <2>4, <2>5 DEF Paid, SameIds, Tables
  <2>7. \A v \in Workers \ {w} : pc[v] = "executing" => task[v] # task[w]
    BY <1>7, <2>1 DEF OwnershipInv, OneExecutor, Executing, Finish
  <2>8. \A v \in Workers \ {w} : pc[v] = "executing" =>
           /\ ActiveLease(ls[task[v]]) /\ ~ls[task[v]].expired /\ ls[task[v]].id = held[v]
    BY <1>0, <1>a, <2>4, <2>7 DEF Owners, TaskKnown
  <2>9. WorkerEnds(w) /\ jobs' = js /\ leases' = ls /\ UNCHANGED <<granted, identityOk, command>>
    BY <1>7 DEF Finish, env
  <2> HIDE DEF js, ls
  <2> QED BY <2>3, <2>4, <2>6, <2>8, <2>9, EndsSafe
<1>8. CASE WorkerSucceeds(w) \/ WorkerFails(w) \/ WorkerRefuses(w)
  <2>1. jobs[task[w]] \in JobRow
    BY <1>0, <1>8 DEF WorkerSucceeds, WorkerFails, WorkerRefuses, Finish, TaskKnown, Tables
  <2>2. \A o \in {"none", "NO_CHANGE"} :
           /\ MarkSucceeded(jobs[task[w]], o) \in JobRow
           /\ MarkSucceeded(jobs[task[w]], o).attempt <= jobs[task[w]].attempt + 1
    <3>1. \A o \in {"none", "NO_CHANGE"} :
             MarkSucceeded(jobs[task[w]], o).attempt = jobs[task[w]].attempt
      BY <2>1 DEF MarkSucceeded, JobRow
    <3> QED BY <2>1, <3>1, JobRowTypes DEF Outcomes, JobRow
  <2>3. \A b \in BOOLEAN :
           /\ MarkFailure(jobs[task[w]], b) \in JobRow
           /\ MarkFailure(jobs[task[w]], b).attempt <= jobs[task[w]].attempt + 1
    <3>1. \A b \in BOOLEAN : MarkFailure(jobs[task[w]], b).attempt = jobs[task[w]].attempt + 1
      BY <2>1 DEF MarkFailure, JobRow
    <3> QED BY <2>1, <3>1, JobRowTypes DEF JobRow
  <2> QED BY <1>7, <1>8, <2>2, <2>3 DEF WorkerSucceeds, WorkerFails, WorkerRefuses
<1>9. CASE WorkerCrash(w)
  BY <1>0, <1>9, <1>a, EndsSafe DEF WorkerCrash, db, env, Owners
<1> QED BY <1>1, <1>2, <1>3, <1>4, <1>5, <1>6, <1>8, <1>9 DEF WorkerStep

\* Promotion charges nothing.
LEMMA PromotePaid ==
    ASSUME NEW js, NEW ls, NEW S, Tables(js, ls), Paid(js, ls)
    PROVE  Paid(PromoteAll(js, S), ls)
<1>1. \A j \in Jobs : PromoteAll(js, S)[j].attempt = js[j].attempt
  BY DEF PromoteAll, PromoteRetryWaitToReady, Tables, JobRow
<1> QED BY <1>1 DEF Paid

\* The dispatcher's recovery writes keep the invariant.
LEMMA DispatchSafeStep ==
    ASSUME TypeInv, OwnershipInv, DispatchStep \/ DropFutures
    PROVE  OwnershipInv'
<1> USE ProcsHaveMembers
<1>0. DbType /\ LocalType /\ TaskKnown /\ Tables(jobs, leases)
  BY DEF TypeInv, DbType
<1>a. Quiet /\ Paid(jobs, leases) /\ Owners(leases) /\ SameIds(leases, leases)
  BY DEF OwnershipInv, SameIds
<1>1. CASE DispatchScan
  BY <1>1, ScanStepSafe DEF DispatchScan, db, env
<1>2. CASE DispatchSubmit
  <2>1. /\ Paid(RecoveredJobs(Dispatcher), RecoveredLeases(Dispatcher))
        /\ Owners(RecoveredLeases(Dispatcher)) /\ SameIds(leases, RecoveredLeases(Dispatcher))
    BY <1>0, <1>a, RecoverSafe DEF OwnershipInv, RecoveredJobs, RecoveredLeases, LocalType
  <2>2. /\ jobs' = RecoveredJobs(Dispatcher) /\ leases' = RecoveredLeases(Dispatcher)
        /\ rows' = [rows EXCEPT ![Dispatcher] = NothingFound]
        /\ UNCHANGED <<granted, identityOk, command, held>>
    BY <1>2 DEF DispatchSubmit, env
  <2>3. \A p \in Procs : rows'[p] = rows[p] \/ rows'[p] = NothingFound
    BY <1>0, <2>2 DEF LocalType
  <2>4. /\ pc'[Recovery] = pc[Recovery]
        /\ \A v \in Workers : pc'[v] = "executing" =>
               pc[v] = "executing" /\ task'[v] = task[v]
    BY <1>0, <1>2, ProcsAssumption DEF DispatchSubmit, LocalType, IdleWorkers
  <2>5. Quiet'
    BY <1>a, <2>2, <2>4 DEF Quiet
  <2>6. Paid(jobs, leases)' /\ Owners(leases') /\ SameIds(leases, leases')
    BY <2>1, <2>2
  <2> QED BY <2>2, <2>3, <2>4, <2>5, <2>6, TableStepSafe
<1>3. CASE DropFutures
  <2>1. Quiet'
    BY <1>3, <1>a DEF DropFutures, Quiet, env
  <2> QED BY <1>3, <1>a, <2>1, TableStepSafe DEF DropFutures, db, Paid, Owners, SameIds
<1> QED BY <1>1, <1>2, <1>3 DEF DispatchStep

\* So do those of the recovery pass, which blocks nothing while the identity
\* holds.
LEMMA RecoverySafeStep ==
    ASSUME TypeInv, OwnershipInv, RecoveryStep
    PROVE  OwnershipInv'
<1> USE ProcsHaveMembers
<1>0. DbType /\ LocalType /\ TaskKnown /\ Tables(jobs, leases)
  BY DEF TypeInv, DbType
<1>a. Quiet /\ Paid(jobs, leases) /\ Owners(leases) /\ SameIds(leases, leases)
  BY DEF OwnershipInv, SameIds
<1>1. CASE RecoveryScan
  BY <1>1, ScanStepSafe DEF RecoveryScan, db, env
<1>2. CASE RecoveryPass
  <2> DEFINE js == RecoveredJobs(Recovery)
             ls == RecoveredLeases(Recovery)
  <2>1. Tables(js, ls) /\ Paid(js, ls) /\ Owners(ls) /\ SameIds(leases, ls)
    BY <1>0, <1>a, RecoverSafe, RecoveredTypes
       DEF OwnershipInv, RecoveredJobs, RecoveredLeases, LocalType
  <2>2. /\ jobs' = PromoteAll(js, Listing(js)) /\ leases' = ls
        /\ rows' = [rows EXCEPT ![Recovery] = NothingFound]
        /\ pc' = [pc EXCEPT ![Recovery] = "idle"]
        /\ UNCHANGED <<granted, identityOk, command, task, held>>
    BY <1>2, <1>a DEF RecoveryPass, Quiet, env
  <2> HIDE DEF js, ls
  <2>3. Paid(jobs, leases)' /\ Owners(leases') /\ SameIds(leases, leases')
    BY <2>1, <2>2, PromotePaid
  <2>4. \A p \in Procs : rows'[p] = rows[p] \/ rows'[p] = NothingFound
    BY <1>0, <2>2 DEF LocalType
  <2>5. Quiet' /\ \A v \in Workers : pc'[v] = "executing" => pc[v] = "executing"
    BY <1>0, <1>a, <2>2, ProcsAssumption DEF Quiet, LocalType
  <2> QED BY <2>2, <2>3, <2>4, <2>5, TableStepSafe
<1>3. CASE RecoveryList
  <2>1. Quiet' /\ \A v \in Workers : pc'[v] = "executing" => pc[v] = "executing"
    BY <1>0, <1>3, <1>a, ProcsAssumption DEF RecoveryList, Quiet, LocalType, env
  <2> QED BY <1>3, <1>a, <2>1, TableStepSafe DEF RecoveryList, db, Paid, Owners, SameIds
<1>4. CASE RecoveryBlock
  BY <1>4, <1>a DEF RecoveryBlock, Quiet
<1>5. CASE RecoveryPromote
  <2>1. /\ jobs' = PromoteAll(jobs, listed) \/ jobs' = jobs
        /\ leases' = leases
        /\ pc' = [pc EXCEPT ![Recovery] = "idle"]
        /\ UNCHANGED <<granted, identityOk, command, rows, task, held>>
    BY <1>5 DEF RecoveryPromote, RecoveryEnds, env
  <2>2. Paid(jobs, leases)' /\ Owners(leases') /\ SameIds(leases, leases')
    BY <1>0, <1>a, <2>1, PromotePaid
  <2>3. Quiet' /\ \A v \in Workers : pc'[v] = "executing" => pc[v] = "executing"
    BY <1>0, <1>a, <2>1, ProcsAssumption DEF Quiet, LocalType
  <2> QED BY <2>1, <2>2, <2>3, TableStepSafe
<1> QED BY <1>1, <1>2, <1>3, <1>4, <1>5 DEF RecoveryStep

\* Safe settings leave the operator no command that reaches a lease, and time
\* expires only leases nobody executes under.
LEMMA OutsideSafeStep ==
    ASSUME TypeInv, OwnershipInv, SafeSettings, CommandStep \/ TimeStep
    PROVE  OwnershipInv'
<1>0. DbType /\ LocalType /\ TaskKnown /\ Tables(jobs, leases)
  BY DEF TypeInv, DbType
<1>a. Quiet /\ Paid(jobs, leases) /\ Owners(leases) /\ SameIds(leases, leases)
  BY DEF OwnershipInv, SameIds
<1>b. ASSUME UNCHANGED <<granted, env, local, command, leases>>,
             \A k \in Jobs : jobs'[k].attempt = jobs[k].attempt
      PROVE  OwnershipInv'
  <2>1. Quiet'
    BY <1>a, <1>b DEF Quiet, env, local
  <2> QED BY <1>a, <1>b, <2>1, TableStepSafe DEF local, Paid, Owners, SameIds
<1>c. ASSUME UNCHANGED <<granted, identityOk, local, leases>>,
             command'.kind \in {"none", "salvage"},
             \A k \in Jobs : jobs'[k].attempt = jobs[k].attempt
      PROVE  OwnershipInv'
  <2>1. Quiet'
    BY <1>a, <1>c DEF Quiet, local
  <2> QED BY <1>a, <1>c, <2>1, TableStepSafe DEF local, Paid, Owners, SameIds
<1>7. ASSUME NEW j \in Jobs, SalvageAsk(j) PROVE OwnershipInv'
  BY <1>7, <1>c DEF SalvageAsk, Ask, db, env
<1>8. CASE SalvageApply
  <2>1. \A k \in Jobs : jobs'[k].attempt = jobs[k].attempt
    BY <1>0, <1>8 DEF SalvageApply, Answer, MarkSalvaged, Tables, JobRow
  <2> QED BY <1>8, <1>c, <2>1 DEF SalvageApply, Answer, NoCommand, env
<1>1. ASSUME NEW j \in Jobs, CancelAsk(j) \/ InvalidateAsk(j) \/ ReclaimAsk(j) PROVE FALSE
  BY <1>1 DEF CancelAsk, InvalidateAsk, ReclaimAsk, Ask, SafeSettings
<1>2. ASSUME CancelApply \/ InvalidateApply \/ \E b \in BOOLEAN : ReclaimApply(b) PROVE FALSE
  BY <1>2, <1>a DEF CancelApply, InvalidateApply, ReclaimApply, Quiet
<1>3. ASSUME NEW j \in Jobs, Revalidate(j) \/ PromoteQueued(j) \/ BackoffElapses(j)
      PROVE  OwnershipInv'
  <2>1. \A k \in Jobs : jobs'[k].attempt = jobs[k].attempt
    BY <1>0, <1>3 DEF Revalidate, PromoteQueued, BackoffElapses, MarkReadyFromBlocked,
                      PromoteQueuedToReady, Tables, JobRow
  <2>2. UNCHANGED <<granted, env, local, command, leases>>
    BY <1>3 DEF Revalidate, PromoteQueued, BackoffElapses
  <2> QED BY <1>b, <2>1, <2>2
<1>4. CASE SetPaused
  <2>1. Quiet'
    BY <1>4, <1>a DEF SetPaused, Quiet, local
  <2> QED BY <1>4, <1>a, <2>1, TableStepSafe DEF SetPaused, db, local, Paid, Owners, SameIds
<1>5. CASE IdentityChanges
  BY <1>5 DEF IdentityChanges, SafeSettings
<1>6. ASSUME NEW j \in Jobs, LeaseExpires(j) PROVE OwnershipInv'
  <2>1. /\ UNCHANGED <<jobs, granted, env, local, command>>
        /\ leases' = [leases EXCEPT ![j].expired = TRUE]
        /\ \A w \in Workers : Executing(w, j) => held[w] # leases[j].id
    BY <1>6 DEF LeaseExpires, SafeSettings
  <2>2. /\ leases'[j].id = leases[j].id /\ leases'[j].released = leases[j].released
        /\ \A k \in Jobs \ {j} : leases'[k] = leases[k]
    BY <1>0, <2>1 DEF Tables, LeaseRow
  <2>3. SameIds(leases, leases') /\ Paid(jobs, leases)'
    BY <1>a, <2>1, <2>2 DEF SameIds, Paid, ActiveLease
  <2>4. \A w \in Workers : pc[w] = "executing" => task[w] \in Jobs \ {j}
    BY <1>0, <1>a, <2>1 DEF TaskKnown, Executing, Owners
  <2>5. Owners(leases')
    BY <1>a, <2>2, <2>4 DEF Owners
  <2>6. Quiet'
    BY <1>a, <2>1 DEF Quiet, env, local
  <2> QED BY <2>1, <2>3, <2>5, <2>6, TableStepSafe DEF local
<1> QED BY <1>1, <1>2, <1>3, <1>4, <1>5, <1>6, <1>7, <1>8 DEF CommandStep, TimeStep

\* With safe settings the ownership invariant holds in every reachable state,
\* whatever the number of workers, jobs, crashes and stale recovery writes.
THEOREM Ownership == Spec => [](SafeSettings => OwnershipInv)
<1>1. Init => OwnershipInv
  <2> SUFFICES ASSUME Init PROVE OwnershipInv
    OBVIOUS
  <2> USE ProcsHaveMembers
  <2>1. Quiet
    BY DEF Init, Quiet, NoCommand
  <2>2. IdsBounded(leases) /\ Paid(jobs, leases)
    BY DEF Init, IdsBounded, Paid, NoLease, ActiveLease, CreateJob
  <2>3. Owners(leases) /\ OneExecutor
    BY DEF Init, Owners, OneExecutor, Executing
  <2>4. \A p \in Procs : RowsPaid(rows[p], leases) /\ RowsSpare(rows[p])
    BY DEF Init, RowsPaid, RowsSpare, NothingFound, NoRow
  <2> QED BY <2>1, <2>2, <2>3, <2>4 DEF OwnershipInv
<1>2. TypeInv /\ (SafeSettings => OwnershipInv) /\ [Next]_vars
          => (SafeSettings => OwnershipInv)'
  <2> SUFFICES ASSUME TypeInv, OwnershipInv, SafeSettings, [Next]_vars
               PROVE  OwnershipInv'
    BY DEF SafeSettings
  <2>1. CASE UNCHANGED vars
    BY <2>1 DEF vars, db, env, local, OwnershipInv, Quiet, IdsBounded, Paid, Owners,
                RowsPaid, RowsSpare, OneExecutor, Executing
  <2> QED BY <2>1, WorkerSafeStep, DispatchSafeStep, RecoverySafeStep, OutsideSafeStep DEF Next
<1>3. Init => (SafeSettings => OwnershipInv)
  BY <1>1
<1> QED BY <1>2, <1>3, TypeInvariant, PTL DEF Spec

\* With safe settings no job is executed by two workers at once.
THEOREM OneExecutorHolds == Spec => []SafeOneExecutor
<1>1. (SafeSettings => OwnershipInv) => SafeOneExecutor
  BY DEF SafeOneExecutor, OwnershipInv
<1> QED BY <1>1, Ownership, PTL

\* With safe settings an executing worker holds its job's lease, so what phase
\* 3 releases is its own lease and never another worker's.
THEOREM ExecutorOwnsLease == Spec => []ExecutorHoldsLease
<1>1. (SafeSettings => OwnershipInv) => ExecutorHoldsLease
  BY DEF ExecutorHoldsLease, OwnershipInv, Owners, Executing
<1> QED BY <1>1, Ownership, PTL

\* With safe settings a run is charged once: by its worker or by recovery.
THEOREM AttemptsArePaid == Spec => []AttemptsPaidFor
<1>1. TypeInv /\ (SafeSettings => OwnershipInv) => AttemptsPaidFor
  <2> SUFFICES ASSUME TypeInv, OwnershipInv, NEW j \in Jobs
               PROVE  jobs[j].attempt <= granted[j]
    BY DEF AttemptsPaidFor
  <2>1. jobs[j] \in JobRow /\ leases[j] \in LeaseRow /\ granted[j] \in Nat
    BY DEF TypeInv, DbType, Tables
  <2>2. jobs[j].attempt \in Nat /\ leases[j].id \in Nat
    BY <2>1 DEF JobRow, LeaseRow
  <2>3. jobs[j].attempt <= leases[j].id /\ leases[j].id <= granted[j]
    BY DEF OwnershipInv, Paid, IdsBounded
  <2> QED BY <2>1, <2>2, <2>3
<1> QED BY <1>1, TypeInvariant, Ownership, PTL
=============================================================================
