---------------------------- MODULE ControlPlane ----------------------------
(***************************************************************************)
(* The processes around one project that nobody serialises: the daemon and    *)
(* its lock file (daemon.py, operator.py), scheduled windows (schedule.py),   *)
(* the iteration conductor and the planner (iteration.py, plan.py), and the    *)
(* HTTP requests that dispatch, recover and decide (services/control.py,       *)
(* decisions.py).  Any of them may run beside any other; a process is a slot   *)
(* that is used again, as process ids are.                                    *)
(*                                                                           *)
(* One action is one transaction or one operation on the lock file.  SQLite    *)
(* opens a transaction with its first write: what a handler reads before that  *)
(* is a step of its own.  What the daemon, the dispatcher and a recovery pass  *)
(* do to jobs, events and messages is the subject of JobQueue, EventOutbox     *)
(* and SponsorIntake.                                                          *)
(***************************************************************************)
EXTENDS Integers, FiniteSets

CONSTANTS
    Procs,         \* process slots, by process id
    StartBound,    \* processes started
    FaultBound,    \* crashes, failing passes of the daemon, locks grown old
    Windows        \* an open file cannot be removed, as on Windows

ASSUME ControlAssumption ==
    Procs \subseteq Nat \ {0} /\ StartBound \in Nat /\ FaultBound \in Nat /\ Windows \in BOOLEAN

NoPid == 0           \* no process, or one that is long dead
NoFile == -1
Api == {"request", "approve", "reject", "plan"}
Kinds == Api \cup {"daemon", "stop", "evaluate", "iteration", "dry"}

\* What is looked up in one step and acted on in a later one: an idempotency
\* key, an open decision, an assignment that is not active, a window that has
\* not been triggered.
Resources == {"key", "decision", "plan", "window"}

\* CHECKPOINTS of iteration.py
Stages == 1..8
Health == 2
Planning == 3
Quality == 5
Readiness == 7

VARIABLES
    kind, at, stage, saw,    \* process -> what it is, where it is, what it read
    file, open,              \* the lock file: its content, and who has it open
    status,                  \* the row of daemon_state
    lock,                    \* the row of api_operation_locks
    record,                  \* the key's row of api_idempotency_keys exists
    verdict,                 \* governance_decisions.status
    iteration,               \* status of the iteration, checkpoints, and the
                             \* ones written for a stage that was not passed
    writer,                  \* who holds SQLite's write lock in evaluate_due
    acts,                    \* resource -> times it was acted on, to 2; for the
                             \* plan, the active assignments of one item
    overlap,                 \* what processes have overlapped on
    starts, faults

procs == <<kind, at, stage, saw>>
daemon == <<file, open, status>>
api == <<lock, record, verdict>>
vars == <<procs, daemon, api, iteration, writer, acts, overlap, starts, faults>>

DaemonAt == {"inspect", "unlink", "create", "write", "announce", "loop", "evaluate", "beat",
             "finally", "close", "remove"}
RequestAt == {"lookup", "readLock", "takeLock", "run", "failed", "release", "remember"}
Places == {"none", "kill", "clean", "note", "read", "decide", "begin", "stage", "check",
           "commit", "planned"} \cup DaemonAt \cup RequestAt

TypeOK ==
    /\ kind \in [Procs -> Kinds \cup {"none"}] /\ at \in [Procs -> Places]
    /\ stage \in [Procs -> 0..9] /\ saw \in [Procs -> SUBSET Stages]
    /\ file \in Procs \cup {NoPid, NoFile} /\ open \in Procs \cup {NoPid}
    /\ status \in [value : {"stopped", "running", "error"}, pid : Procs \cup {NoPid}]
    /\ lock \in [owner : Procs \cup {NoPid}, old : BOOLEAN]
    /\ record \in BOOLEAN /\ verdict \in {"OPEN", "APPROVED", "REJECTED"}
    /\ iteration \in [value : {"PLANNED", "RUNNING", "BLOCKED", "FAILED", "READY",
                               "QUALITY_HOLD", "RELEASE_READY"},
                      marks : SUBSET Stages, holes : SUBSET Stages]
    /\ writer \in Procs \cup {NoPid}
    /\ acts \in [Resources -> 0..2]
    /\ overlap \subseteq Resources \cup {"lock", "iteration"}
    /\ starts \in 0..StartBound /\ faults \in 0..FaultBound

\* A daemon may have died on this machine before.
Init ==
    /\ kind = [p \in Procs |-> "none"] /\ at = [p \in Procs |-> "none"]
    /\ stage = [p \in Procs |-> 0] /\ saw = [p \in Procs |-> {}]
    /\ file \in {NoFile, NoPid} /\ open = NoPid
    /\ status = [value |-> "stopped", pid |-> NoPid]
    /\ lock = [owner |-> NoPid, old |-> FALSE]
    /\ record = FALSE /\ verdict = "OPEN"
    /\ iteration = [value |-> "PLANNED", marks |-> {}, holes |-> {}]
    /\ writer = NoPid
    /\ acts = [r \in Resources |-> 0] /\ overlap = {}
    /\ starts = 0 /\ faults = 0

Alive(p) == p \in Procs /\ kind[p] # "none"

Goto(p, place) ==
    /\ at' = [at EXCEPT ![p] = place]
    /\ UNCHANGED <<kind, stage, saw>>

\* the processes end
End(ps) ==
    /\ kind' = [p \in Procs |-> IF p \in ps THEN "none" ELSE kind[p]]
    /\ at' = [p \in Procs |-> IF p \in ps THEN "none" ELSE at[p]]
    /\ stage' = [p \in Procs |-> IF p \in ps THEN 0 ELSE stage[p]]
    /\ saw' = [p \in Procs |-> IF p \in ps THEN {} ELSE saw[p]]

First(k) == CASE k = "daemon" -> "inspect"
              [] k = "stop" -> "kill"
              [] k = "evaluate" -> "evaluate"
              [] k = "request" -> "lookup"
              [] k = "plan" -> "check"
              [] k \in {"approve", "reject"} -> "read"
              [] OTHER -> "begin"

Start(p, k) ==
    /\ kind[p] = "none" /\ starts < StartBound
    /\ kind' = [kind EXCEPT ![p] = k] /\ at' = [at EXCEPT ![p] = First(k)]
    /\ starts' = starts + 1
    /\ UNCHANGED <<stage, saw, daemon, api, iteration, writer, acts, overlap, faults>>

\* Where a process has checked a resource and is going to act on it.
Committed(r) ==
    {p \in Procs : at[p] \in CASE r = "key" -> RequestAt \ {"lookup"}
                               [] r = "decision" -> {"decide"}
                               [] r = "plan" -> {"commit"}
                               [] r = "window" -> {}}

\* A process passes its check of a resource.
Checked(r) == overlap' = IF Committed(r) = {} THEN overlap ELSE overlap \cup {r}

Acted(r) == acts' = [acts EXCEPT ![r] = IF @ = 2 THEN 2 ELSE @ + 1]
-----------------------------------------------------------------------------
(* The daemon's lock file: DaemonLock. *)

\* The lock file is looked at: absent, of a live process, or stale.
Inspect(p) ==
    /\ at[p] = "inspect"
    /\ IF Alive(file) THEN End({p})
       ELSE Goto(p, IF file = NoFile THEN "create" ELSE "unlink")
    /\ UNCHANGED <<daemon, api, iteration, writer, acts, overlap, starts, faults>>

\* Path.unlink; an error is ignored
Removed == IF Windows /\ open # NoPid THEN file ELSE NoFile
Unlink(p) ==
    /\ at[p] = "unlink"
    /\ file' = Removed
    /\ open' = IF file' = NoFile THEN NoPid ELSE open
    /\ Goto(p, "create")
    /\ UNCHANGED <<status, api, iteration, writer, acts, overlap, starts, faults>>

\* Mutant of Create: without O_EXCL.
CreateShared(p) ==
    /\ at[p] = "create"
    /\ file' = NoPid /\ open' = p /\ Goto(p, "write")
    /\ UNCHANGED <<status, api, iteration, writer, acts, overlap, starts, faults>>

\* os.open with O_CREAT | O_EXCL
Create(p) ==
    /\ at[p] = "create"
    /\ IF file = NoFile THEN file' = NoPid /\ open' = p /\ Goto(p, "write")
       ELSE End({p}) /\ UNCHANGED <<file, open>>
    /\ UNCHANGED <<status, api, iteration, writer, acts, overlap, starts, faults>>

\* the process id is written, if the path still leads to this file
WritePid(p) ==
    /\ at[p] = "write"
    /\ file' = IF open = p THEN p ELSE file
    /\ Goto(p, "announce")
    /\ UNCHANGED <<open, status, api, iteration, writer, acts, overlap, starts, faults>>

\* _persist_daemon
Announce(p) ==
    /\ at[p] = "announce"
    /\ status' = [value |-> "running", pid |-> p]
    /\ Goto(p, "loop")
    /\ UNCHANGED <<file, open, api, iteration, writer, acts, overlap, starts, faults>>

\* run_daemon: one more pass, or the end
Loop(p) ==
    /\ at[p] = "loop"
    /\ \E next \in {"evaluate", "finally"} : Goto(p, next)
    /\ UNCHANGED <<daemon, api, iteration, writer, acts, overlap, starts, faults>>

\* Mutant of Beat: only the time of the heartbeat is written.
BeatTimeOnly(p) ==
    /\ at[p] = "beat"
    /\ Goto(p, "loop")
    /\ UNCHANGED <<daemon, api, iteration, writer, acts, overlap, starts, faults>>

\* the heartbeat at the end of a pass
Beat(p) ==
    /\ at[p] = "beat"
    /\ status' = [value |-> "running", pid |-> p]
    /\ Goto(p, "loop")
    /\ UNCHANGED <<file, open, api, iteration, writer, acts, overlap, starts, faults>>

\* A pass fails; some errors end the daemon, others only are noted.
PassFails(p) ==
    /\ at[p] = "beat" /\ faults < FaultBound
    /\ faults' = faults + 1
    /\ \/ status' = [status EXCEPT !.value = "running"] /\ Goto(p, "loop")
       \/ status' = [status EXCEPT !.value = "error"] /\ Goto(p, "loop")
       \/ status' = [status EXCEPT !.value = "error"] /\ Goto(p, "finally")
    /\ UNCHANGED <<file, open, api, iteration, writer, acts, overlap, starts>>

Finally(p) ==
    /\ at[p] = "finally"
    /\ status' = [value |-> "stopped", pid |-> NoPid]
    /\ Goto(p, "close")
    /\ UNCHANGED <<file, open, api, iteration, writer, acts, overlap, starts, faults>>

\* DaemonLock.release closes the file ...
Close(p) ==
    /\ at[p] = "close"
    /\ open' = IF open = p THEN NoPid ELSE open
    /\ Goto(p, "remove")
    /\ UNCHANGED <<file, status, api, iteration, writer, acts, overlap, starts, faults>>

\* ... and removes whatever is there
Remove(p) ==
    /\ at[p] = "remove"
    /\ file' = Removed
    /\ open' = IF file' = NoFile THEN NoPid ELSE open
    /\ End({p})
    /\ UNCHANGED <<status, api, iteration, writer, acts, overlap, starts, faults>>

\* stop_daemon and stop_component: the processes that the daemon's row and the
\* lock file name are killed, whatever they are now
Kill(p) ==
    LET victims == {status.pid, file} \cap Procs IN
    /\ at[p] = "kill"
    /\ IF p \in victims THEN End(victims)
       ELSE /\ kind' = [q \in Procs |-> IF q \in victims THEN "none" ELSE kind[q]]
            /\ at' = [q \in Procs |-> IF q \in victims THEN "none"
                                      ELSE IF q = p THEN "clean" ELSE at[q]]
            /\ stage' = [q \in Procs |-> IF q \in victims THEN 0 ELSE stage[q]]
            /\ saw' = [q \in Procs |-> IF q \in victims THEN {} ELSE saw[q]]
    /\ open' = IF open \in victims THEN NoPid ELSE open
    /\ writer' = IF writer \in victims THEN NoPid ELSE writer
    /\ overlap' = IF \E q \in victims : at[q] \in {"release", "remember"}
                  THEN overlap \cup {"key"} ELSE overlap
    /\ UNCHANGED <<file, status, api, iteration, acts, starts, faults>>

Clean(p) ==
    /\ at[p] = "clean"
    /\ file' = Removed
    /\ open' = IF file' = NoFile THEN NoPid ELSE open
    /\ Goto(p, "note")
    /\ UNCHANGED <<status, api, iteration, writer, acts, overlap, starts, faults>>

Note(p) ==
    /\ at[p] = "note"
    /\ status' = [value |-> "stopped", pid |-> NoPid]
    /\ End({p})
    /\ UNCHANGED <<file, open, api, iteration, writer, acts, overlap, starts, faults>>
-----------------------------------------------------------------------------
(* Windows of a schedule: evaluate_due, by the daemon or on the command line. *)

\* scheduler_state is written first, which takes SQLite's write lock
Evaluate(p) ==
    /\ at[p] = "evaluate" /\ writer = NoPid
    /\ writer' = p
    /\ UNCHANGED <<procs, daemon, api, iteration, acts, overlap, starts, faults>>

\* the window is triggered, or was already, or is not due; commit
Trigger(p) ==
    /\ at[p] = "evaluate" /\ writer = p
    /\ writer' = NoPid
    /\ \/ acts["window"] = 0 /\ Acted("window")
       \/ UNCHANGED acts
    /\ IF kind[p] = "daemon" THEN Goto(p, "beat") ELSE End({p})
    /\ UNCHANGED <<daemon, api, iteration, overlap, starts, faults>>
-----------------------------------------------------------------------------
(* Control requests: ControlService, under one idempotency key. *)

\* replay_or_begin
Lookup(p) ==
    /\ at[p] = "lookup"
    /\ IF record THEN End({p}) /\ UNCHANGED overlap
       ELSE Goto(p, "readLock") /\ Checked("key")
    /\ UNCHANGED <<daemon, api, iteration, writer, acts, starts, faults>>

\* acquire_operation_lock reads the row: a fresh one is a conflict ...
ReadLock(p) ==
    /\ at[p] = "readLock"
    /\ IF lock.owner # NoPid /\ ~lock.old THEN End({p})
       ELSE /\ at' = [at EXCEPT ![p] = "takeLock"]
            /\ saw' = [saw EXCEPT ![p] = IF lock.old THEN {1} ELSE {}]
            /\ UNCHANGED <<kind, stage>>
    /\ UNCHANGED <<daemon, api, iteration, writer, acts, overlap, starts, faults>>

\* Mutant of Takeable: a row that has appeared since is replaced.
TakeableAlways(p) == TRUE

\* ... the primary key is one if a row has appeared since ...
Takeable(p) == lock.owner = NoPid \/ saw[p] # {}

\* ... and an old one is deleted, whatever row is there now, and replaced
TakeLock(p) ==
    /\ at[p] = "takeLock"
    /\ IF Takeable(p)
       THEN /\ lock' = [owner |-> p, old |-> FALSE]
            /\ overlap' = overlap \cup
                   (IF saw[p] # {} /\ Alive(lock.owner) THEN {"lock"} ELSE {})
            /\ at' = [at EXCEPT ![p] = "run"] /\ saw' = [saw EXCEPT ![p] = {}]
            /\ UNCHANGED <<kind, stage>>
       ELSE End({p}) /\ UNCHANGED <<lock, overlap>>
    /\ UNCHANGED <<daemon, record, verdict, iteration, writer, acts, starts, faults>>

\* dispatch_run_once, dispatch_run_until_idle or recovery_execute is done
Run(p) ==
    /\ at[p] = "run"
    /\ \/ Acted("key") /\ Goto(p, "release")
       \/ UNCHANGED acts /\ Goto(p, "failed")
    /\ UNCHANGED <<daemon, api, iteration, writer, overlap, starts, faults>>

\* release_operation_lock, by the name of the lock
ReleaseLock(p) ==
    /\ at[p] \in {"release", "failed"}
    /\ lock' = [owner |-> NoPid, old |-> FALSE]
    /\ IF at[p] = "release" THEN Goto(p, "remember") ELSE End({p})
    /\ UNCHANGED <<daemon, record, verdict, iteration, writer, acts, overlap, starts, faults>>

\* Mutant of Remember: the answer is not kept.
RememberNothing(p) ==
    /\ at[p] = "remember"
    /\ End({p})
    /\ UNCHANGED <<daemon, api, iteration, writer, acts, overlap, starts, faults>>

\* remember; a second row is refused
Remember(p) ==
    /\ at[p] = "remember"
    /\ record' = TRUE
    /\ End({p})
    /\ UNCHANGED <<daemon, lock, verdict, iteration, writer, acts, overlap, starts, faults>>

\* two hours go by while somebody has the lock
GrowOld ==
    /\ lock.owner # NoPid /\ ~lock.old /\ faults < FaultBound
    /\ lock' = [lock EXCEPT !.old = TRUE]
    /\ faults' = faults + 1
    /\ UNCHANGED <<procs, daemon, record, verdict, iteration, writer, acts, overlap, starts>>
-----------------------------------------------------------------------------
(* Decisions: approve_decision, reject_decision. *)

ReadDecision(p) ==
    /\ at[p] = "read"
    /\ IF verdict = "OPEN" THEN Goto(p, "decide") /\ Checked("decision")
       ELSE End({p}) /\ UNCHANGED overlap
    /\ UNCHANGED <<daemon, api, iteration, writer, acts, starts, faults>>

\* update_governance_decision: by the id of the decision alone
Decide(p, v) ==
    /\ verdict' = v
    /\ Acted("decision")
    /\ End({p})
    /\ UNCHANGED <<daemon, lock, record, iteration, writer, overlap, starts, faults>>

\* approve_decision executes the action in the same transaction.
Approve(p) == at[p] = "decide" /\ kind[p] = "approve" /\ Decide(p, "APPROVED")

\* reject_decision
Reject(p) == at[p] = "decide" /\ kind[p] = "reject" /\ Decide(p, "REJECTED")

\* _apply_approved_action refuses: the job has ended
ApplyFails(p) ==
    /\ at[p] = "decide" /\ kind[p] = "approve"
    /\ End({p})
    /\ UNCHANGED <<daemon, api, iteration, writer, acts, overlap, starts, faults>>
-----------------------------------------------------------------------------
(* Planning and the iteration conductor: run_plan, run_iteration. *)

Marked(s) == [iteration EXCEPT !.marks = @ \cup {s}]
Hole(s, v) == [value |-> v, marks |-> iteration.marks \cup {s}, holes |-> iteration.holes \cup {s}]
AfterStage(p, s) == CHOOSE t \in (s + 1)..9 :
    t \notin saw[p] /\ \A u \in (s + 1)..(t - 1) : u \in saw[p]

\* the conductor goes on with the first stage that had no checkpoint
Advance(p, s) ==
    /\ stage' = [stage EXCEPT ![p] = AfterStage(p, s)]
    /\ at' = [at EXCEPT ![p] = "stage"]
    /\ UNCHANGED <<kind, saw>>

\* _ensure_iteration_run, _done_checkpoints
Begin(p) ==
    LET first == CHOOSE t \in 1..9 : /\ t \notin iteration.marks
                                     /\ \A u \in 1..(t - 1) : u \in iteration.marks
    IN
    /\ at[p] = "begin"
    /\ saw' = [saw EXCEPT ![p] = iteration.marks]
    /\ stage' = [stage EXCEPT ![p] = first]
    /\ at' = [at EXCEPT ![p] = "stage"]
    /\ iteration' = [iteration EXCEPT !.value = "RUNNING"]
    /\ overlap' = IF iteration.holes # {} \/ \E q \in Procs : stage[q] # 0
                  THEN overlap \cup {"iteration"} ELSE overlap
    /\ UNCHANGED <<kind, daemon, api, writer, acts, starts, faults>>

\* run_doctor: the severities of its findings, and whether they block
DoctorReports == SUBSET {"warn", "fail"}
Blocking(report) == "fail" \in report

\* The second stage asks the doctor; the checkpoint is written in any case.
HealthStage(p) ==
    /\ at[p] = "stage" /\ stage[p] = Health
    /\ \E report \in DoctorReports :
          IF Blocking(report) THEN iteration' = Hole(Health, "BLOCKED") /\ End({p})
          ELSE iteration' = Marked(Health) /\ Advance(p, Health)
    /\ UNCHANGED <<daemon, api, writer, acts, overlap, starts, faults>>

\* a stage is passed; pending assurance holds the iteration, but not the run
StageDone(p) ==
    LET s == stage[p] IN
    /\ at[p] = "stage" /\ s \in Stages \ {Health, Planning}
    /\ kind[p] = "dry" => s < Planning
    /\ \/ s # Readiness /\ iteration' = Marked(s)
       \/ s = Quality /\ iteration' = [Marked(s) EXCEPT !.value = "QUALITY_HOLD"]
       \/ s = Readiness /\ iteration' = [Marked(s) EXCEPT !.value = "RELEASE_READY"]
    /\ Advance(p, s)
    /\ UNCHANGED <<daemon, api, writer, acts, overlap, starts, faults>>

\* Mutant of StageFails: the run goes on.
StageFailsOn(p) ==
    /\ at[p] = "stage" /\ stage[p] = Quality /\ kind[p] # "dry"
    /\ iteration' = Hole(Quality, "QUALITY_HOLD")
    /\ Advance(p, Quality)
    /\ UNCHANGED <<daemon, api, writer, acts, overlap, starts, faults>>

\* evidence has failed: the checkpoint is written too
StageFails(p) ==
    /\ at[p] = "stage" /\ stage[p] = Quality /\ kind[p] # "dry"
    /\ iteration' = Hole(Quality, "QUALITY_HOLD")
    /\ End({p})
    /\ UNCHANGED <<daemon, api, writer, acts, overlap, starts, faults>>

\* a dry run plans nothing, but writes the checkpoint of planning ...
DryPlan(p) ==
    /\ at[p] = "stage" /\ kind[p] = "dry" /\ stage[p] = Planning
    /\ iteration' = Hole(Planning, iteration.value)
    /\ Advance(p, Planning)
    /\ UNCHANGED <<daemon, api, writer, acts, overlap, starts, faults>>

\* ... and ends
DryRun(p) ==
    /\ at[p] = "stage" /\ kind[p] = "dry" /\ stage[p] > Planning
    /\ iteration' = [iteration EXCEPT !.value = "READY"]
    /\ End({p})
    /\ UNCHANGED <<daemon, api, writer, acts, overlap, starts, faults>>

PlanFor(p) == \/ at[p] = "check"
              \/ at[p] = "stage" /\ kind[p] = "iteration" /\ stage[p] = Planning

\* The agent plans, work items are created, the document is validated: no item
\* may have an active assignment already.
CheckPlan(p) ==
    /\ PlanFor(p) /\ acts["plan"] = 0
    /\ Checked("plan")
    /\ Goto(p, "commit")
    /\ UNCHANGED <<daemon, api, iteration, writer, acts, starts, faults>>

\* the plan is rejected, or there is none; the checkpoint is written too
PlanFails(p) ==
    /\ PlanFor(p)
    /\ iteration' = IF kind[p] = "iteration" THEN Hole(Planning, "FAILED") ELSE iteration
    /\ End({p})
    /\ UNCHANGED <<daemon, api, writer, acts, overlap, starts, faults>>

\* the jobs and their dependencies are inserted, in one transaction ...
CommitPlan(p) ==
    /\ at[p] = "commit"
    /\ Acted("plan")
    /\ IF kind[p] = "iteration" THEN Goto(p, "planned") ELSE End({p})
    /\ UNCHANGED <<daemon, api, iteration, writer, overlap, starts, faults>>

\* ... that an exception undoes (a job of that id exists)
InsertFails(p) ==
    /\ at[p] = "commit"
    /\ End({p})
    /\ UNCHANGED <<daemon, api, iteration, writer, acts, overlap, starts, faults>>

\* the conductor writes the checkpoint in a transaction of its own
PlanMarked(p) ==
    /\ at[p] = "planned"
    /\ iteration' = Marked(Planning)
    /\ Advance(p, Planning)
    /\ UNCHANGED <<daemon, api, writer, acts, overlap, starts, faults>>

\* find_active_assignment: a job that has ended, or is blocked, is no active
\* assignment, and the item may be planned again.  It is enough that jobs end
\* while a planner is about to ask, as nobody else looks.
AssignmentEnds(p) ==
    /\ PlanFor(p) /\ acts["plan"] > 0
    /\ acts' = [acts EXCEPT !["plan"] = @ - 1]
    /\ UNCHANGED <<procs, daemon, api, iteration, writer, overlap, starts, faults>>

IterationEnds(p) ==
    /\ at[p] = "stage" /\ kind[p] = "iteration" /\ stage[p] = 9
    /\ End({p})
    /\ UNCHANGED <<daemon, api, iteration, writer, acts, overlap, starts, faults>>
-----------------------------------------------------------------------------
\* A process dies, and the requests of an API server with it: the lock file is
\* closed, an open transaction is rolled back.
Crash(p) ==
    LET dead == IF kind[p] \in Api THEN {q \in Procs : kind[q] \in Api} ELSE {p} IN
    /\ kind[p] # "none" /\ faults < FaultBound
    /\ faults' = faults + 1
    /\ open' = IF open \in dead THEN NoPid ELSE open
    /\ writer' = IF writer \in dead THEN NoPid ELSE writer
    /\ overlap' = IF \E q \in dead : at[q] \in {"release", "remember"}
                  THEN overlap \cup {"key"} ELSE overlap
    /\ End(dead)
    /\ UNCHANGED <<file, status, api, iteration, acts, starts>>

DaemonStep(p) ==
    \/ Inspect(p) \/ Unlink(p) \/ Create(p) \/ WritePid(p) \/ Announce(p) \/ Loop(p)
    \/ Beat(p) \/ Finally(p) \/ Close(p) \/ Remove(p)

Step(p) ==
    \/ DaemonStep(p) \/ Kill(p) \/ Clean(p) \/ Note(p)
    \/ Evaluate(p) \/ Trigger(p)
    \/ Lookup(p) \/ ReadLock(p) \/ TakeLock(p) \/ Run(p) \/ ReleaseLock(p) \/ Remember(p)
    \/ ReadDecision(p) \/ Approve(p) \/ Reject(p) \/ ApplyFails(p)
    \/ Begin(p) \/ HealthStage(p) \/ StageDone(p) \/ StageFails(p) \/ DryPlan(p) \/ DryRun(p)
    \/ CheckPlan(p) \/ PlanFails(p) \/ CommitPlan(p) \/ InsertFails(p) \/ PlanMarked(p)
    \/ IterationEnds(p)

Next ==
    \/ \E p \in Procs : \/ Step(p) \/ PassFails(p) \/ AssignmentEnds(p) \/ Crash(p)
                        \/ \E k \in Kinds : Start(p, k)
    \/ GrowOld

Spec == Init /\ [][Next]_vars

\* A daemon that runs goes on, and so does whoever holds the write lock.
FairSpec == Spec /\ \A p \in Procs : WF_vars(DaemonStep(p) \/ Evaluate(p) \/ Trigger(p))
-----------------------------------------------------------------------------
(* Properties. *)

Serving == {p \in Procs : kind[p] = "daemon" /\
    at[p] \in {"write", "announce", "loop", "evaluate", "beat", "finally", "close"}}

\* Where an open file cannot be removed there is never a second daemon, however
\* starts, stops and crashes interleave around a stale lock file.
SingleDaemon == Windows => Cardinality(Serving) <= 1

\* Two control operations of the project run at once only if a lock was taken
\* from an owner that was still at it: it had grown old, or was new when an
\* older one was replaced.
OperationsExclude == Cardinality({p \in Procs : at[p] = "run"}) > 1 => "lock" \in overlap

\* A key is executed once, a decision is made once, an item has one active
\* assignment, unless two processes were between looking it up and acting on it
\* (or the server died before the answer was kept); a window is triggered once
\* in any case.
OnceUnlessOverlapping ==
    /\ \A r \in Resources : acts[r] > 1 => r \in overlap
    /\ acts["window"] <= 1

\* An iteration gets to RELEASE_READY past a stage that failed, or that was
\* planned dry, only when the conductor was started again on it, which skips
\* the stage, or twice at once.
ReadyWasPassed ==
    iteration.value = "RELEASE_READY" /\ iteration.holes # {} => "iteration" \in overlap

\* What daemon_state says of a daemon that goes on running comes right in the
\* end, whatever a racing stop or an older daemon wrote there.
StatusCatchesUp ==
    \A p \in Procs : at[p] = "loop" ~>
        (status = [value |-> "running", pid |-> p] \/ at[p] \in {"finally", "none"})
=============================================================================
