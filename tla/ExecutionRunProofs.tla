-------------------------- MODULE ExecutionRunProofs --------------------------
(***************************************************************************)
(* The safety properties of execution runs for any number of handlers, runs,  *)
(* jobs, messages and findings and any limits of the remediation policy; and  *)
(* the refinement of RunContract for one handler at a time.                   *)
(***************************************************************************)
EXTENDS ExecutionRun, FiniteSetTheorems, TLAPS

\* A handler that is at work has a run; the run of the thread exists.
ProcInv ==
    /\ \A h \in Handlers :
          /\ pc[h] # "idle" => mine[h] \in Runs /\ status[mine[h]] # "absent"
          /\ pc[h] = "tag" => made[h] \in Jobs
          /\ writer = h => pc[h] = "loop"
    /\ threadRun # NoRun => status[threadRun] # "absent"
    /\ proposal => threadRun # NoRun

\* Rows that are not used are empty, and an intake's job carries no work.
JobInv ==
    /\ \A j \in Jobs :
          /\ job[j].status = "absent" => job[j].run = NoRun /\ work[j] = "none"
          /\ job[j].name = "INTAKE" => work[j] = "none"
    /\ \A h \in Handlers : made[h] \in Jobs =>
          job[made[h]].status # "absent" /\ job[made[h]].name = "INTAKE"

\* What a handler has counted exists.
SeenInv ==
    \A h \in Handlers, r \in Runs :
        pc[h] \in {"qa", "loop"} /\ mine[h] = r => seen[h] <= CycleCount(r)

\* Nothing is announced of a run that does not exist.
RunInv == \A r \in Runs : status[r] = "absent" => closing[r] = {}

\* Only one handler at a time
OneHandler == \A g, h \in Handlers : g = h

\* With one handler a run is announced when it ends, and a handler works on a
\* run that has not ended.
EndInv ==
    /\ \A r \in Runs : closing[r] # {} <=> status[r] \in Terminal
    /\ \A h \in Handlers : pc[h] # "idle" => status[mine[h]] \notin Terminal
-----------------------------------------------------------------------------
(* Types, in three parts. *)

JobType == [status : JobStatuses, name : JobNames, run : Runs \cup {NoRun}]

RunTypes ==
    /\ status \in [Runs -> RunStatuses] /\ kind \in [Runs -> {"RELEASE", "WORK"}]
    /\ closing \in [Runs -> SUBSET Terminal] /\ threadRun \in Runs \cup {NoRun}
    /\ proposal \in BOOLEAN /\ started \in [Runs -> [Findings -> Nat]]
    /\ delivered \in SUBSET Runs /\ listed \in SUBSET Runs /\ messages \in 0..MessageBound

JobTypes ==
    /\ job \in [Jobs -> JobType] /\ work \in [Jobs -> {"none", "ASSIGNED", "FAILED"}]
    /\ cycle \in [Jobs -> 0..MaxCycles] /\ next \in [Jobs -> SUBSET ActionTypes]

ProcTypes ==
    /\ pc \in [Handlers -> Places] /\ mine \in [Handlers -> Runs \cup {NoRun}]
    /\ seen \in [Handlers -> Nat] /\ found \in [Handlers -> SUBSET Findings]
    /\ made \in [Handlers -> Jobs \cup {NoJobYet}] /\ writer \in Handlers \cup {NoOne}

\* The type invariant by parts.
LEMMA TypeParts ==
    /\ TypeOK <=> RunTypes /\ JobTypes /\ ProcTypes
    /\ TypeOK' <=> RunTypes' /\ JobTypes' /\ ProcTypes'
BY DEF TypeOK, RunTypes, JobTypes, ProcTypes, JobType

\* Runs and jobs are numbered from one, so that 0 is neither.
LEMMA Numbers == NoRun \notin Runs /\ NoJobYet \notin Jobs
BY RunAssumption DEF NoRun, Runs, NoJobYet, Jobs

\* close_execution_run closes a run that nothing was announced of, or does nothing.
Closes(r, s) ==
    /\ status' \in [Runs -> RunStatuses] /\ closing' \in [Runs -> SUBSET Terminal]
    /\ \A q \in Runs : q # r => status'[q] = status[q] /\ closing'[q] = closing[q]
    /\ \/ closing[r] # {} /\ status'[r] = status[r] /\ closing'[r] = closing[r]
       \/ closing[r] = {} /\ status'[r] = s /\ closing'[r] = {s}

\* close_execution_run, in the form of Closes.
LEMMA Closing ==
    ASSUME RunTypes, NEW r \in Runs, NEW s \in Terminal, Close(r, s)
    PROVE  Closes(r, s)
<1>1. s \in RunStatuses /\ {s} \in SUBSET Terminal
  BY DEF RunStatuses
<1>2. CASE closing[r] # {}
  BY <1>2 DEF Close, Closes, RunTypes
<1>3. CASE closing[r] = {}
  BY <1>1, <1>3 DEF Close, Closes, RunTypes
<1> QED BY <1>2, <1>3

\* Every step keeps the types of the runs.
LEMMA RunTypeStep ==
    ASSUME RunTypes, ProcTypes, ProcInv, Next
    PROVE  RunTypes'
<1>a. \A h \in Handlers : pc[h] # "idle" => mine[h] \in Runs
  BY DEF ProcInv
<1>b. \A h \in Handlers : writer = h => pc[h] = "loop"
  BY DEF ProcInv
<1>c. proposal => threadRun \in Runs
  BY DEF ProcInv, RunTypes
<1>d. \A n \in 0..MessageBound : n < MessageBound => n + 1 \in 0..MessageBound
  BY RunAssumption
<1>e. {"PLANNING", "RUNNING", "WAITING_FOR_SPONSOR"} \cup Terminal \subseteq RunStatuses
  BY DEF RunStatuses
<1>1. ASSUME NEW h \in Handlers,
             \/ Submit(h) \/ Plan(h) \/ QaGate(h)
             \/ AssertNextAction(h) \/ Prepare(h) \/ Package(h)
             \/ PackageFailed(h) \/ PublishFailed(h) \/ Raise(h)
             \/ CloseRead(h) \/ Die(h)
      PROVE  RunTypes'
  BY <1>1, <1>a, <1>b, <1>c, <1>d, <1>e
      DEF Submit, runs, Plan, QaGate, AssertNextAction, Prepare, Package, PackageFailed,
          PublishFailed, Raise, CloseRead, Die, RunTypes, Terminal
<1>2. ASSUME
             \/ (\E j \in Jobs : StartJob(j)) \/ (\E j \in Jobs : Requeue(j))
                    \/ (\E j \in Jobs : ReadinessRetry(j))
             \/ (\E j \in Jobs, s \in {"SUCCEEDED", "BLOCKED", "RETRY_WAIT"} : EndJob(j, s))
      PROVE  RunTypes'
  BY <1>2, <1>a, <1>b, <1>c, <1>d, <1>e
      DEF StartJob, runs, Requeue, ReadinessRetry, EndJob, RunTypes, Terminal
<1>3. ASSUME NEW h \in Handlers, NEW r \in Runs, AcceptRelease(h, r) PROVE RunTypes'
  BY <1>3, <1>a, <1>b, <1>c, <1>d, <1>e
      DEF AcceptRelease, Message, NewRun, CreateHandoff, Go, At, RunTypes, Terminal
<1>4. ASSUME NEW h \in Handlers, NEW r \in Runs, AcceptAuthorizedWork(h, r) PROVE RunTypes'
  BY <1>4, <1>a, <1>b, <1>c, <1>d, <1>e
      DEF AcceptAuthorizedWork, Message, NewRun, CreateHandoff, Go, At, RunTypes, Terminal
<1>5. ASSUME NEW h \in Handlers, NEW r \in Runs, AcceptWork(h, r) PROVE RunTypes'
  BY <1>5, <1>a, <1>b, <1>c, <1>d, <1>e
      DEF AcceptWork, Message, NewRun, CreateHandoff, Go, At, RunTypes, Terminal
<1>6. ASSUME NEW h \in Handlers, NEW k \in Requests, Directive(h, k) PROVE RunTypes'
  BY <1>6, <1>a, <1>b, <1>c, <1>d, <1>e
      DEF Directive, Message, Go, At, ActiveRun, RunTypes, Terminal
<1>7. ASSUME NEW h \in Handlers, ApproveProposal(h) PROVE RunTypes'
  <2>1. threadRun \in Runs /\ "COMPLETED" \in Terminal
    BY <1>7, <1>a, <1>b, <1>c DEF ApproveProposal, At, Terminal
  <2>2. (status' = status /\ closing' = closing) \/ Closes(threadRun, "COMPLETED")
    BY <1>7, <2>1, Closing DEF ApproveProposal
  <2>3. status' \in [Runs -> RunStatuses] /\ closing' \in [Runs -> SUBSET Terminal]
    BY <2>2 DEF Closes, RunTypes
  <2> QED BY <1>7, <2>1, <2>3, <1>d DEF ApproveProposal, RunTypes
<1>8. ASSUME NEW h \in Handlers, SubmitRefused(h) PROVE RunTypes'
  BY <1>8, <1>a, <1>b, <1>c, <1>d, <1>e
      DEF SubmitRefused, Pause, Recovery, Leave, Go, At, RunTypes, Terminal
<1>9. ASSUME NEW h \in Handlers, PlanAsks(h) PROVE RunTypes'
  BY <1>9, <1>a, <1>b, <1>c, <1>d, <1>e
      DEF PlanAsks, Pause, Leave, Go, At, RunTypes, Terminal
<1>10. ASSUME NEW h \in Handlers, Tag(h) PROVE RunTypes'
  BY <1>10, <1>a, <1>b, <1>c, <1>d, <1>e DEF Tag, Leave, Go, At, RunTypes, Terminal
<1>11. ASSUME NEW h \in Handlers, Preview(h) PROVE RunTypes'
  BY <1>11, <1>a, <1>b, <1>c, <1>d, <1>e
      DEF Preview, Pause, Leave, Go, At, RunTypes, Terminal
<1>12. ASSUME NEW h \in Handlers, QaExhausted(h) PROVE RunTypes'
  <2>1. mine[h] \in Runs /\ "ESCALATED" \in Terminal
    BY <1>12, <1>a, <1>b, <1>c DEF QaExhausted, At, Terminal
  <2>2. (status' = status /\ closing' = closing) \/ Closes(mine[h], "ESCALATED")
    BY <1>12, <2>1, Closing DEF QaExhausted
  <2>3. status' \in [Runs -> RunStatuses] /\ closing' \in [Runs -> SUBSET Terminal]
    BY <2>2 DEF Closes, RunTypes
  <2> QED BY <1>12, <2>1, <2>3, <1>d DEF QaExhausted, RunTypes, Untouched
<1>13. ASSUME NEW h \in Handlers, RemediationCycle(h) PROVE RunTypes'
  BY <1>13, <1>a, <1>b, <1>c, <1>d, <1>e DEF RemediationCycle, RunTypes, Terminal
<1>14. ASSUME NEW h \in Handlers, Escalate(h) PROVE RunTypes'
  <2>1. mine[h] \in Runs /\ "ESCALATED" \in Terminal
    BY <1>14, <1>a, <1>b, <1>c DEF Escalate, At, Terminal
  <2>2. (status' = status /\ closing' = closing) \/ Closes(mine[h], "ESCALATED")
    BY <1>14, <2>1, Closing DEF Escalate
  <2>3. status' \in [Runs -> RunStatuses] /\ closing' \in [Runs -> SUBSET Terminal]
    BY <2>2 DEF Closes, RunTypes
  <2> QED BY <1>14, <2>1, <2>3, <1>d DEF Escalate, RunTypes, Untouched
<1>15. ASSUME NEW h \in Handlers, PreparationBlocked(h) PROVE RunTypes'
  BY <1>15, <1>a, <1>b, <1>c, <1>d, <1>e
      DEF PreparationBlocked, ContractGap, PreparationFailed, Pause, Untouched, Leave, Go, At,
          RunTypes, Terminal
<1>16. ASSUME NEW h \in Handlers, CapabilityGap(h) PROVE RunTypes'
  BY <1>16, <1>a, <1>b, <1>c, <1>d, <1>e
      DEF CapabilityGap, Pause, Untouched, Leave, Go, At, RunTypes, Terminal
<1>17. ASSUME NEW h \in Handlers, Publish(h) PROVE RunTypes'
  <2>1. mine[h] \in Runs /\ "COMPLETED" \in Terminal
    BY <1>17, <1>a, <1>b, <1>c DEF Publish, At, Terminal
  <2>2. (status' = status /\ closing' = closing) \/ Closes(mine[h], "COMPLETED")
    BY <1>17, <2>1, Closing DEF Publish, CloseAfterEvent
  <2>3. status' \in [Runs -> RunStatuses] /\ closing' \in [Runs -> SUBSET Terminal]
    BY <2>2 DEF Closes, RunTypes
  <2> QED BY <1>17, <2>1, <2>3, <1>d DEF Publish, RunTypes, Untouched
<1>18. ASSUME NEW h \in Handlers, CloseWrite(h) PROVE RunTypes'
  BY <1>18, <1>a, <1>b, <1>c, <1>d, <1>e
      DEF CloseWrite, Untouched, Leave, Go, At, RunTypes, Terminal
<1>19. ASSUME RecoverList PROVE RunTypes'
  BY <1>19, <1>a, <1>b, <1>c, <1>d, <1>e DEF RecoverList, runs, procs, RunTypes, Terminal
<1>20. ASSUME NEW r \in Runs, Recover(r) PROVE RunTypes'
  BY <1>20, <1>a, <1>b, <1>c, <1>d, <1>e DEF Recover, runs, procs, RunTypes, Terminal
<1> QED BY <1>1, <1>2, <1>3, <1>4, <1>5, <1>6, <1>7, <1>8, <1>9, <1>10, <1>11, <1>12, <1>13,
    <1>14, <1>15, <1>16, <1>17, <1>18, <1>19, <1>20
    DEF Next, Accept, AcceptHandoff, Work, Orchestrate, Daemon
-----------------------------------------------------------------------------
(* Jobs. *)

\* A job in use keeps its name, its cycle and its run, unless the intake that
\* has made it gives it one; its work may fail.  A row comes into use once.
JobChange ==
    \A i \in Jobs :
        \/ job'[i] = job[i] /\ work'[i] = work[i] /\ cycle'[i] = cycle[i]
        \/ /\ job[i].status # "absent" /\ job'[i].status # "absent"
           /\ job'[i].name = job[i].name /\ cycle'[i] = cycle[i]
           /\ job'[i].run = job[i].run \/ job[i].name = "INTAKE"
           /\ work'[i] = work[i] \/ (work[i] # "none" /\ work'[i] # "none")
        \/ /\ job[i].status = "absent" /\ job'[i].status # "absent"
           /\ job'[i].name = "INTAKE" => work'[i] = work[i]

\* create_job uses a free row and leaves the others alone.
LEMMA Adding ==
    ASSUME JobTypes, NEW j \in Jobs, NEW r \in Runs \cup {NoRun}, NEW n \in JobNames,
           NEW s \in {"READY", "RETRY_WAIT"}, NEW actions \in SUBSET ActionTypes,
               AddJob(j, r, n, s, actions)
    PROVE  /\ job' \in [Jobs -> JobType] /\ next' \in [Jobs -> SUBSET ActionTypes]
           /\ job[j].status = "absent" /\ job'[j].status = s /\ job'[j].name = n
                  /\ job'[j].run = r
           /\ \A i \in Jobs : i # j => job'[i] = job[i]
<1> DEFINE new == [status |-> s, name |-> n, run |-> r]
<1>1. new \in JobType /\ new.status = s /\ new.name = n /\ new.run = r
  BY DEF JobType, JobStatuses
<1>2. job' = [job EXCEPT ![j] = new] /\ next' = [next EXCEPT ![j] = actions]
          /\ job[j].status = "absent"
  BY DEF AddJob, Free
<1> HIDE DEF new
<1> QED BY <1>1, <1>2 DEF JobTypes

\* A remediation job and its work are added.
LEMMA AddingWork ==
    ASSUME JobTypes, NEW j \in Jobs, NEW r \in Runs \cup {NoRun}, NEW c \in 0..MaxCycles,
           NEW w \in {"ASSIGNED", "FAILED"}, NEW actions \in SUBSET ActionTypes,
               AddWork(j, r, c, w, actions)
    PROVE  /\ JobTypes' /\ JobChange
           /\ job'[j].status = "READY" /\ job'[j].run = r
<1>1. AddJob(j, r, "REMEDIATION", "READY", actions)
  BY DEF AddWork
<1>2. /\ job' \in [Jobs -> JobType] /\ next' \in [Jobs -> SUBSET ActionTypes]
      /\ job[j].status = "absent" /\ job'[j].status = "READY"
      /\ job'[j].name = "REMEDIATION" /\ job'[j].run = r
      /\ \A i \in Jobs : i # j => job'[i] = job[i]
  BY <1>1, Adding DEF JobNames
<1>3. /\ work' \in [Jobs -> {"none", "ASSIGNED", "FAILED"}] /\ cycle' \in [Jobs -> 0..MaxCycles]
      /\ \A i \in Jobs : i # j => work'[i] = work[i] /\ cycle'[i] = cycle[i]
  BY DEF AddWork, JobTypes
<1>4. JobTypes'
  BY <1>2, <1>3 DEF JobTypes
<1>5. JobChange
  BY <1>2, <1>3 DEF JobChange
<1> QED BY <1>2, <1>4, <1>5

\* A job without work is added.
LEMMA AddingJob ==
    ASSUME JobTypes, NEW j \in Jobs, NEW r \in Runs \cup {NoRun}, NEW n \in JobNames,
           NEW s \in {"READY", "RETRY_WAIT"}, NEW actions \in SUBSET ActionTypes,
           AddJob(j, r, n, s, actions), UNCHANGED <<work, cycle>>
    PROVE  JobTypes' /\ JobChange /\ job'[j].status = s /\ job'[j].run = r
<1>1. /\ job' \in [Jobs -> JobType] /\ next' \in [Jobs -> SUBSET ActionTypes]
      /\ job[j].status = "absent" /\ job'[j].status = s /\ job'[j].name = n /\ job'[j].run = r
      /\ \A i \in Jobs : i # j => job'[i] = job[i]
  BY Adding
<1>2. JobTypes'
  BY <1>1 DEF JobTypes
<1>3. JobChange
  BY <1>1 DEF JobChange
<1> QED BY <1>1, <1>2, <1>3

\* A job's new status leaves the rest of it, and the other jobs, alone.
LEMMA Setting ==
    ASSUME JobTypes, NEW j \in Jobs, NEW s \in JobStatuses \ {"absent"}, job[j].status # "absent",
           SetJob(j, s), UNCHANGED <<work, cycle>>
    PROVE  job' \in [Jobs -> JobType] /\ JobChange
<1> DEFINE new == [job[j] EXCEPT !.status = s]
<1>1. new \in JobType /\ new.status = s /\ new.name = job[j].name /\ new.run = job[j].run
  BY DEF JobTypes, JobType
<1>2. job' = [job EXCEPT ![j] = new]
  BY DEF SetJob, JobTypes
<1> HIDE DEF new
<1>3. job' \in [Jobs -> JobType] /\ job'[j] = new /\ \A i \in Jobs : i # j => job'[i] = job[i]
  BY <1>1, <1>2 DEF JobTypes
<1>4. s # "absent"
  OBVIOUS
<1> QED BY <1>1, <1>3, <1>4 DEF JobChange

\* Reconciling leaves next actions of known types.
LEMMA ReconciledType ==
    ASSUME JobTypes, NEW r, NEW ended PROVE Reconciled(r, ended) \in [Jobs -> SUBSET ActionTypes]
<1>1. "EXECUTABLE_JOB" \in ActionTypes /\ \A j \in Jobs : next[j] \in SUBSET ActionTypes
  BY DEF ActionTypes, JobTypes
<1>2. \A j \in Jobs : next[j] \cup {"EXECUTABLE_JOB"} \in SUBSET ActionTypes
          /\ {} \in SUBSET ActionTypes
  BY <1>1
<1> QED BY <1>1, <1>2 DEF Reconciled

\* Every step keeps the types of the jobs, and changes them as JobChange says.
LEMMA JobStep ==
    ASSUME RunTypes, JobTypes, ProcTypes, ProcInv, JobInv, Next
    PROVE  JobTypes' /\ JobChange
<1>a. \A h \in Handlers : mine[h] \in Runs \cup {NoRun}
  BY DEF ProcTypes
<1>b. /\ {"EXECUTABLE_JOB"} \in SUBSET ActionTypes /\ {"SPONSOR_WAIT"} \in SUBSET ActionTypes
      /\ {"REMEDIATION_WORK"} \in SUBSET ActionTypes /\ {"SCHEDULED_RETRY"} \in SUBSET ActionTypes
      /\ {"ACTIVE_ASSESSMENT"} \in SUBSET ActionTypes /\ {"PM_QUEUE"} \in SUBSET ActionTypes
      /\ {} \in SUBSET ActionTypes
  BY DEF ActionTypes
<1>c. {"INTAKE", "WORK_EXEC_SCHEDULE", "SPONSOR_DECISION", "PUBLICATION_RETRY",
          "READINESS_RETRY", "ASSURANCE"} \subseteq JobNames
  BY DEF JobNames
<1>d. 0 \in 0..MaxCycles /\ 1 \in 0..MaxCycles /\ MaxCycles \in Nat
  BY RunAssumption
<1>e. ASSUME UNCHANGED jobs PROVE JobTypes' /\ JobChange
  BY <1>e DEF jobs, JobTypes, JobChange
<1>1. ASSUME NEW h \in Handlers,
             \/ (\E r \in Runs : AcceptRelease(h, r))
                    \/ (\E r \in Runs : AcceptAuthorizedWork(h, r))
                           \/ (\E r \in Runs : AcceptWork(h, r))
             \/ ApproveProposal(h) \/ PlanAsks(h) \/ Preview(h)
             \/ Plan(h) \/ QaExhausted(h) \/ Escalate(h)
             \/ AssertNextAction(h) \/ Prepare(h) \/ Package(h)
             \/ CapabilityGap(h) \/ Publish(h) \/ Raise(h)
             \/ CloseRead(h) \/ CloseWrite(h) \/ Die(h)
      PROVE  JobTypes' /\ JobChange
  BY <1>1, <1>e
      DEF NewRun, AcceptRelease, AcceptAuthorizedWork, AcceptWork, ApproveProposal, PlanAsks,
          Preview, Plan, QaExhausted, Escalate, AssertNextAction, Prepare, Package,
          CapabilityGap, Publish, Raise, CloseRead, CloseWrite, Die
<1>2. ASSUME
             RecoverList
      PROVE  JobTypes' /\ JobChange
  BY <1>2, <1>e DEF RecoverList
<1>3. ASSUME NEW h \in Handlers, NEW k \in Requests, Directive(h, k) PROVE JobTypes' /\ JobChange
  <2>1. threadRun \in Runs \cup {NoRun}
    BY DEF RunTypes
  <2>2. UNCHANGED jobs \/ \E j \in Jobs : AddWork(j, threadRun, 0, "FAILED", {})
    BY <1>3 DEF Directive, WorkResult
  <2> QED BY <1>b, <1>d, <1>e, <2>1, <2>2, AddingWork
<1>4. ASSUME NEW h \in Handlers, SubmitRefused(h) PROVE JobTypes' /\ JobChange
  <2>1. \/ UNCHANGED jobs
        \/ \E j \in Jobs :
               /\ AddJob(j, mine[h], "WORK_EXEC_SCHEDULE", "READY", {"EXECUTABLE_JOB"})
                           /\ UNCHANGED <<work, cycle>>
    BY <1>4 DEF SubmitRefused, Recovery
  <2> QED BY <1>a, <1>b, <1>c, <1>e, <2>1, AddingJob
<1>5. ASSUME NEW h \in Handlers, Submit(h) PROVE JobTypes' /\ JobChange
  <2>1. \E j \in Jobs : AddJob(j, NoRun, "INTAKE", "READY", {}) /\ UNCHANGED <<work, cycle>>
    BY <1>5 DEF Submit
  <2> QED BY <1>b, <1>c, <2>1, AddingJob
<1>6. ASSUME NEW h \in Handlers, Tag(h) PROVE JobTypes' /\ JobChange
  <2> DEFINE i == made[h]
  <2> DEFINE new == [job[i] EXCEPT !.run = mine[h]]
  <2>1. i \in Jobs /\ pc[h] = "tag" /\ mine[h] \in Runs
    BY <1>6 DEF Tag, At, ProcInv
  <2>2. job[i].status # "absent" /\ job[i].name = "INTAKE"
    BY <2>1 DEF JobInv
  <2>3. new \in JobType /\ new.status = job[i].status /\ new.name = "INTAKE"
    BY <2>1, <2>2 DEF JobType, JobTypes
  <2>4. [job EXCEPT ![i].run = mine[h]] = [job EXCEPT ![i] = new]
    BY <2>1 DEF JobTypes
  <2>5. UNCHANGED <<work, cycle>>
    BY <1>6 DEF Tag
  <2>6. CASE job' = [job EXCEPT ![i] = new]
                 /\ next' = [next EXCEPT ![i] = @ \cup {"EXECUTABLE_JOB"}]
    <3> HIDE DEF new, i
    <3>1. job' \in [Jobs -> JobType] /\ job'[i] = new /\ \A k \in Jobs : k # i => job'[k] = job[k]
      BY <2>1, <2>3, <2>6 DEF JobTypes
    <3>2. next' \in [Jobs -> SUBSET ActionTypes]
      BY <1>b, <2>1, <2>6 DEF JobTypes
    <3>3. JobTypes'
      BY <2>5, <3>1, <3>2 DEF JobTypes
    <3>4. JobChange
      BY <2>2, <2>3, <2>5, <3>1 DEF JobChange
    <3> QED BY <3>3, <3>4
  <2>7. ASSUME NEW j \in Jobs, Free(j),
               job' = [[job EXCEPT ![i] = new] EXCEPT
                          ![j] = [status |-> "READY", name |-> "WORK_EXEC_SCHEDULE",
                              run |-> mine[h]]],
               next' = [next EXCEPT ![j] = {"EXECUTABLE_JOB"}]
        PROVE  JobTypes' /\ JobChange
    <3> DEFINE other == [status |-> "READY", name |-> "WORK_EXEC_SCHEDULE", run |-> mine[h]]
    <3>1. other \in JobType /\ other.status = "READY" /\ other.name = "WORK_EXEC_SCHEDULE"
      BY <1>c, <2>1 DEF JobType, JobStatuses
    <3>2. job[j].status = "absent"
      BY <2>7 DEF Free
    <3>3. job' = [[job EXCEPT ![i] = new] EXCEPT ![j] = other]
      BY <2>7
    <3> HIDE DEF new, i, other
    <3>4. /\ job' \in [Jobs -> JobType] /\ job'[j] = other /\ j # i
          /\ job'[i] = new /\ \A k \in Jobs : k # i /\ k # j => job'[k] = job[k]
      BY <2>1, <2>2, <2>3, <3>1, <3>2, <3>3 DEF JobTypes
    <3>5. next' \in [Jobs -> SUBSET ActionTypes]
      BY <1>b, <2>7 DEF JobTypes
    <3>6. JobTypes'
      BY <2>5, <3>4, <3>5 DEF JobTypes
    <3>7. JobChange
      BY <2>2, <2>3, <2>5, <3>1, <3>2, <3>4 DEF JobChange
    <3> QED BY <3>6, <3>7
  <2>8. \/ job' = [job EXCEPT ![i].run = mine[h]]
               /\ next' = [next EXCEPT ![i] = @ \cup {"EXECUTABLE_JOB"}]
        \/ \E j \in Jobs :
             /\ Free(j)
             /\ job' = [[job EXCEPT ![i].run = mine[h]] EXCEPT
                           ![j] = [status |-> "READY", name |-> "WORK_EXEC_SCHEDULE",
                               run |-> mine[h]]]
             /\ next' = [next EXCEPT ![j] = {"EXECUTABLE_JOB"}]
    BY <1>6 DEF Tag
  <2> HIDE DEF new, i
  <2> QED BY <2>4, <2>6, <2>7, <2>8
<1>7. ASSUME NEW h \in Handlers, QaGate(h) PROVE JobTypes' /\ JobChange
  <2>1. \/ UNCHANGED jobs
        \/ \E j \in Jobs : /\ AddJob(j, mine[h], "ASSURANCE", "READY", {"ACTIVE_ASSESSMENT"})
                           /\ UNCHANGED <<work, cycle>>
    BY <1>7 DEF QaGate, RetryAssurance
  <2> QED BY <1>a, <1>b, <1>c, <1>e, <2>1, AddingJob
<1>8. ASSUME NEW h \in Handlers, RemediationCycle(h) PROVE JobTypes' /\ JobChange
  <2>1. seen[h] \in Nat /\ ~(seen[h] >= MaxCycles)
    BY <1>8 DEF RemediationCycle, LimitReached, ProcTypes
  <2>2. seen[h] + 1 \in 0..MaxCycles
    BY <1>d, <2>1
  <2>3. \E j \in Jobs : AddWork(j, mine[h], seen[h] + 1, "FAILED", {})
    BY <1>8 DEF RemediationCycle, WorkResult
  <2> QED BY <1>a, <1>b, <2>2, <2>3, AddingWork
<1>9. ASSUME NEW h \in Handlers, PreparationBlocked(h) PROVE JobTypes' /\ JobChange
  <2>1. \/ \E j \in Jobs : AddWork(j, mine[h], 1, "ASSIGNED", {"REMEDIATION_WORK"})
        \/ \E j \in Jobs : /\ AddJob(j, mine[h], "SPONSOR_DECISION", "READY", {"SPONSOR_WAIT"})
                           /\ UNCHANGED <<work, cycle>>
    BY <1>9 DEF PreparationBlocked, ContractGap, PreparationFailed
  <2> QED BY <1>a, <1>b, <1>c, <1>d, <2>1, AddingWork, AddingJob
<1>10. ASSUME NEW h \in Handlers, PackageFailed(h) PROVE JobTypes' /\ JobChange
  <2>1. \E j \in Jobs : AddWork(j, mine[h], 1, "ASSIGNED", {"REMEDIATION_WORK"})
    BY <1>10 DEF PackageFailed
  <2> QED BY <1>a, <1>b, <1>d, <2>1, AddingWork
<1>11. ASSUME NEW h \in Handlers, PublishFailed(h) PROVE JobTypes' /\ JobChange
  <2>1. \E j \in Jobs :
            /\ AddJob(j, mine[h], "PUBLICATION_RETRY", "RETRY_WAIT", {"SCHEDULED_RETRY"})
                        /\ UNCHANGED <<work, cycle>>
    BY <1>11 DEF PublishFailed
  <2> QED BY <1>a, <1>b, <1>c, <2>1, AddingJob
<1>12. ASSUME NEW j \in Jobs, StartJob(j) PROVE JobTypes' /\ JobChange
  <2>1. job[j].status # "absent" /\ SetJob(j, "RUNNING")
            /\ "RUNNING" \in JobStatuses \ {"absent"} /\ UNCHANGED <<work, cycle>>
    BY <1>12 DEF StartJob, JobStatuses
  <2>2. next' \in [Jobs -> SUBSET ActionTypes]
    BY <1>12, ReconciledType DEF StartJob, JobTypes
  <2>3. job' \in [Jobs -> JobType] /\ JobChange
    BY <2>1, Setting
  <2> QED BY <2>1, <2>2, <2>3 DEF JobTypes
<1>13. ASSUME NEW j \in Jobs, Requeue(j) PROVE JobTypes' /\ JobChange
  <2>1. job[j].status # "absent" /\ SetJob(j, "READY") /\ "READY" \in JobStatuses \ {"absent"}
            /\ UNCHANGED <<work, cycle>>
    BY <1>13 DEF Requeue, JobStatuses
  <2>2. next' \in [Jobs -> SUBSET ActionTypes]
    BY <1>13, ReconciledType DEF Requeue, JobTypes
  <2>3. job' \in [Jobs -> JobType] /\ JobChange
    BY <2>1, Setting
  <2> QED BY <2>1, <2>2, <2>3 DEF JobTypes
<1>14. ASSUME NEW j \in Jobs, ReadinessRetry(j) PROVE JobTypes' /\ JobChange
  <2>1. PICK k \in Jobs :
           /\ Free(k)
           /\ job' = [job EXCEPT ![j].status = "READY",
                                 ![k] = [status |-> "READY", name |-> "READINESS_RETRY",
                                     run |-> job[j].run]]
           /\ next' = [Reconciled(job[j].run, {j}) EXCEPT ![k] = {"PM_QUEUE"}]
    BY <1>14 DEF ReadinessRetry
  <2> DEFINE new == [job[j] EXCEPT !.status = "READY"]
  <2> DEFINE other == [status |-> "READY", name |-> "READINESS_RETRY", run |-> job[j].run]
  <2>2. job[j].status = "RUNNING" /\ UNCHANGED <<work, cycle>>
    BY <1>14 DEF ReadinessRetry
  <2>3. job[k].status = "absent"
    BY <2>1 DEF Free
  <2>4. new \in JobType /\ new.status = "READY" /\ new.name = job[j].name /\ new.run = job[j].run
    BY DEF JobType, JobTypes, JobStatuses
  <2>5. other \in JobType /\ other.status = "READY" /\ other.name = "READINESS_RETRY"
    BY <1>c DEF JobType, JobTypes, JobStatuses
  <2>6. job' = [[job EXCEPT ![j] = new] EXCEPT ![k] = other]
    BY <2>1, <2>2, <2>3 DEF JobTypes
  <2> HIDE DEF new, other
  <2>7. /\ job' \in [Jobs -> JobType] /\ job'[k] = other /\ j # k
        /\ job'[j] = new /\ \A i \in Jobs : i # j /\ i # k => job'[i] = job[i]
    BY <2>2, <2>3, <2>4, <2>5, <2>6 DEF JobTypes
  <2>8. next' \in [Jobs -> SUBSET ActionTypes]
    <3>1. Reconciled(job[j].run, {j}) \in [Jobs -> SUBSET ActionTypes]
      BY ReconciledType
    <3> QED BY <1>b, <2>1, <3>1
  <2>9. JobTypes'
    BY <2>2, <2>7, <2>8 DEF JobTypes
  <2>10. JobChange
    BY <2>2, <2>3, <2>4, <2>5, <2>7 DEF JobChange
  <2> QED BY <2>9, <2>10
<1>15. ASSUME NEW j \in Jobs, NEW s \in {"SUCCEEDED", "BLOCKED", "RETRY_WAIT"}, EndJob(j, s)
       PROVE JobTypes' /\ JobChange
  <2>1. job[j].status # "absent" /\ SetJob(j, s) /\ s \in JobStatuses \ {"absent"}
            /\ UNCHANGED <<work, cycle>>
    BY <1>15 DEF EndJob, JobStatuses
  <2>2. next' \in [Jobs -> SUBSET ActionTypes]
    BY <1>15, ReconciledType DEF EndJob, JobTypes
  <2>3. job' \in [Jobs -> JobType] /\ JobChange
    BY <2>1, Setting
  <2> QED BY <2>1, <2>2, <2>3 DEF JobTypes
<1>16. ASSUME NEW r \in Runs, Recover(r) PROVE JobTypes' /\ JobChange
  <2>1. next' \in [Jobs -> SUBSET ActionTypes]
    BY <1>16, ReconciledType DEF Recover
  <2>2. /\ work' \in [Jobs -> {"none", "ASSIGNED", "FAILED"}] /\ UNCHANGED <<job, cycle>>
        /\ \A j \in Jobs : work'[j] = work[j] \/ (work[j] = "ASSIGNED" /\ work'[j] = "FAILED")
    BY <1>16 DEF Recover, WorkResult, Resumed, Outstanding, JobTypes
  <2>3. \A j \in Jobs : job[j].status = "absent" => work[j] = "none"
    BY DEF JobInv
  <2>4. JobTypes'
    BY <2>1, <2>2 DEF JobTypes
  <2>5. JobChange
    BY <2>2, <2>3 DEF JobChange
  <2> QED BY <2>4, <2>5
<1> QED BY <1>1, <1>2, <1>3, <1>4, <1>5, <1>6, <1>7, <1>8, <1>9, <1>10, <1>11, <1>12, <1>13,
    <1>14, <1>15, <1>16
    DEF Next, Accept, AcceptHandoff, Work, Orchestrate, Daemon
-----------------------------------------------------------------------------
(* The count of remediation cycles. *)

Cycles(r) == {cycle[j] : j \in {i \in JobsOf(r, JobStatuses) : work[i] # "none"}}

\* A set of cycle numbers is finite.
LEMMA FiniteCycles == ASSUME NEW S \in SUBSET (0..MaxCycles)
    PROVE IsFiniteSet(S) /\ Cardinality(S) \in Nat
<1>1. IsFiniteSet(0..MaxCycles)
  BY RunAssumption, FS_Interval
<1>2. IsFiniteSet(S)
  BY <1>1, FS_Subset
<1> QED BY <1>2, FS_CardinalityType

\* CycleCount counts the cycle numbers of a run, before and after a step.
LEMMA CycleSets ==
    ASSUME JobTypes, JobTypes', NEW r
    PROVE  /\ Cycles(r) \in SUBSET (0..MaxCycles) /\ CycleCount(r) = Cardinality(Cycles(r))
           /\ CycleCount(r) \in Nat
           /\ Cycles(r)' \in SUBSET (0..MaxCycles) /\ CycleCount(r)' = Cardinality(Cycles(r)')
           /\ CycleCount(r)' \in Nat
<1>1. Cycles(r) \in SUBSET (0..MaxCycles) /\ CycleCount(r) = Cardinality(Cycles(r))
  BY DEF Cycles, CycleCount, JobTypes, JobsOf
<1>2. Cycles(r)' \in SUBSET (0..MaxCycles) /\ CycleCount(r)' = Cardinality(Cycles(r)')
  BY DEF Cycles, CycleCount, JobTypes, JobsOf
<1> QED BY <1>1, <1>2, FiniteCycles

\* Cycles are never forgotten: the row of a remediation stays with its run.
LEMMA CyclesGrow ==
    ASSUME JobTypes, JobTypes', JobInv, JobChange, NEW r
    PROVE  CycleCount(r) <= CycleCount(r)'
<1>1. Cycles(r) \subseteq Cycles(r)'
  <2> SUFFICES ASSUME NEW j \in Jobs, job[j].run = r, work[j] # "none"
               PROVE  /\ job'[j].run = r /\ job'[j].status \in JobStatuses /\ work'[j] # "none"
                      /\ cycle'[j] = cycle[j]
    BY DEF Cycles, JobsOf
  <2>1. job[j].status # "absent" /\ job[j].name # "INTAKE"
    BY DEF JobInv
  <2>2. job'[j].status \in JobStatuses
    BY DEF JobTypes, JobType
  <2> QED BY <2>1, <2>2 DEF JobChange
<1>2. IsFiniteSet(Cycles(r)')
  BY CycleSets, FiniteCycles
<1>3. Cardinality(Cycles(r)) <= Cardinality(Cycles(r)')
  BY <1>1, <1>2, FS_Subset
<1> QED BY <1>3, CycleSets
-----------------------------------------------------------------------------
(* Handlers. *)

\* Every step keeps the types of the handlers.
LEMMA ProcTypeStep ==
    ASSUME RunTypes, JobTypes, JobTypes', ProcTypes, Next
    PROVE  ProcTypes'
<1>a. /\ pc \in [Handlers -> Places] /\ mine \in [Handlers -> Runs \cup {NoRun}]
      /\ seen \in [Handlers -> Nat] /\ found \in [Handlers -> SUBSET Findings]
      /\ made \in [Handlers -> Jobs \cup {NoJobYet}] /\ writer \in Handlers \cup {NoOne}
      /\ threadRun \in Runs \cup {NoRun}
  BY DEF ProcTypes, RunTypes
<1>b. \A r : CycleCount(r) \in Nat /\ CycleCount(r)' \in Nat
  BY CycleSets
<1>1. ASSUME NEW h \in Handlers,
             ApproveProposal(h)
      PROVE  ProcTypes'
  BY <1>1, <1>a, <1>a DEF ApproveProposal, procs, ProcTypes, Places
<1>2. ASSUME
             \/ (\E j \in Jobs : StartJob(j)) \/ (\E j \in Jobs : Requeue(j))
                    \/ (\E j \in Jobs : ReadinessRetry(j))
             \/ (\E j \in Jobs, s \in {"SUCCEEDED", "BLOCKED", "RETRY_WAIT"} : EndJob(j, s))
                    \/ RecoverList \/ (\E r \in Runs : Recover(r))
      PROVE  ProcTypes'
  BY <1>2, <1>a, <1>a
      DEF StartJob, procs, Requeue, ReadinessRetry, EndJob, RecoverList, Recover, ProcTypes,
          Places
<1>3. ASSUME NEW h \in Handlers, NEW r \in Runs, AcceptRelease(h, r) PROVE ProcTypes'
  BY <1>3, <1>a DEF AcceptRelease, Message, NewRun, Go, At, ProcTypes, Places
<1>4. ASSUME NEW h \in Handlers, NEW r \in Runs, AcceptAuthorizedWork(h, r) PROVE ProcTypes'
  BY <1>4, <1>a DEF AcceptAuthorizedWork, Message, NewRun, Go, At, ProcTypes, Places
<1>5. ASSUME NEW h \in Handlers, NEW r \in Runs, AcceptWork(h, r) PROVE ProcTypes'
  BY <1>5, <1>a DEF AcceptWork, Message, NewRun, Go, At, ProcTypes, Places
<1>6. ASSUME NEW h \in Handlers, NEW k \in Requests, Directive(h, k) PROVE ProcTypes'
  BY <1>6, <1>a DEF Directive, Message, Go, At, ProcTypes, Places
<1>7. ASSUME NEW h \in Handlers, SubmitRefused(h) PROVE ProcTypes'
  BY <1>7, <1>a DEF SubmitRefused, Leave, Go, At, ProcTypes, Places
<1>8. ASSUME NEW h \in Handlers, Submit(h) PROVE ProcTypes'
  BY <1>8, <1>a DEF Submit, Go, At, ProcTypes, Places
<1>9. ASSUME NEW h \in Handlers, PlanAsks(h) PROVE ProcTypes'
  BY <1>9, <1>a DEF PlanAsks, Leave, Go, At, ProcTypes, Places
<1>10. ASSUME NEW h \in Handlers, Tag(h) PROVE ProcTypes'
  BY <1>10, <1>a DEF Tag, Leave, Go, At, ProcTypes, Places
<1>11. ASSUME NEW h \in Handlers, Preview(h) PROVE ProcTypes'
  BY <1>11, <1>a DEF Preview, Leave, Go, At, ProcTypes, Places
<1>12. ASSUME NEW h \in Handlers, Plan(h) PROVE ProcTypes'
  BY <1>12, <1>b, <1>a DEF Plan, Go, At, ProcTypes, Places
<1>13. ASSUME NEW h \in Handlers, QaGate(h) PROVE ProcTypes'
  BY <1>13, <1>a
      DEF QaGate, RetryAssurance, Go, At, GatePassed, FindingSets, ProcTypes, Places
<1>14. ASSUME NEW h \in Handlers, QaExhausted(h) PROVE ProcTypes'
  BY <1>14, <1>a DEF QaExhausted, Go, At, Stay, ProcTypes, Places
<1>15. ASSUME NEW h \in Handlers, RemediationCycle(h) PROVE ProcTypes'
  BY <1>15, <1>b, <1>a DEF RemediationCycle, ProcTypes, Places
<1>16. ASSUME NEW h \in Handlers, Escalate(h) PROVE ProcTypes'
  BY <1>16, <1>a DEF Escalate, Go, ProcTypes, Places
<1>17. ASSUME NEW h \in Handlers, AssertNextAction(h) PROVE ProcTypes'
  BY <1>17, <1>a DEF AssertNextAction, Leave, Go, At, ProcTypes, Places
<1>18. ASSUME NEW h \in Handlers, Prepare(h) PROVE ProcTypes'
  BY <1>18, <1>a DEF Prepare, Move, Go, Stay, At, ProcTypes, Places
<1>19. ASSUME NEW h \in Handlers, PreparationBlocked(h) PROVE ProcTypes'
  BY <1>19, <1>a DEF PreparationBlocked, Leave, Go, At, ProcTypes, Places
<1>20. ASSUME NEW h \in Handlers, Package(h) PROVE ProcTypes'
  BY <1>20, <1>a DEF Package, Move, Go, Stay, At, ProcTypes, Places
<1>21. ASSUME NEW h \in Handlers, CapabilityGap(h) PROVE ProcTypes'
  BY <1>21, <1>a DEF CapabilityGap, Leave, Go, At, ProcTypes, Places
<1>22. ASSUME NEW h \in Handlers, PackageFailed(h) PROVE ProcTypes'
  BY <1>22, <1>a DEF PackageFailed, Leave, Go, At, ProcTypes, Places
<1>23. ASSUME NEW h \in Handlers, Publish(h) PROVE ProcTypes'
  BY <1>23, <1>a DEF Publish, Leave, Go, At, ProcTypes, Places
<1>24. ASSUME NEW h \in Handlers, PublishFailed(h) PROVE ProcTypes'
  BY <1>24, <1>a DEF PublishFailed, Leave, Go, At, ProcTypes, Places
<1>25. ASSUME NEW h \in Handlers, Raise(h) PROVE ProcTypes'
  BY <1>25, <1>a DEF Raise, Move, Go, Stay, ProcTypes, Places
<1>26. ASSUME NEW h \in Handlers, CloseRead(h) PROVE ProcTypes'
  BY <1>26, <1>a DEF CloseRead, Move, Go, Stay, At, ProcTypes, Places
<1>27. ASSUME NEW h \in Handlers, CloseWrite(h) PROVE ProcTypes'
  BY <1>27, <1>a DEF CloseWrite, Leave, Go, At, ProcTypes, Places
<1>28. ASSUME NEW h \in Handlers, Die(h) PROVE ProcTypes'
  BY <1>28, <1>a DEF Die, Leave, Go, At, ProcTypes, Places
<1> QED BY <1>1, <1>2, <1>3, <1>4, <1>5, <1>6, <1>7, <1>8, <1>9, <1>10, <1>11, <1>12, <1>13,
    <1>14, <1>15, <1>16, <1>17, <1>18, <1>19, <1>20, <1>21, <1>22, <1>23, <1>24, <1>25, <1>26,
    <1>27, <1>28
    DEF Next, Accept, AcceptHandoff, Work, Orchestrate, Daemon

\* A run is created once and keeps its kind; nothing closes a run before that.
RunChange ==
    \A q \in Runs :
        /\ status[q] # "absent" => status'[q] # "absent" /\ kind'[q] = kind[q]
        /\ status[q] = "absent" => closing'[q] = closing[q]

\* Every step changes the runs as RunChange says.
LEMMA RunStep ==
    ASSUME RunTypes, ProcTypes, ProcInv, Next
    PROVE  RunChange
<1>a. \A h \in Handlers : pc[h] # "idle" => mine[h] \in Runs /\ status[mine[h]] # "absent"
  BY DEF ProcInv
<1>b. \A h \in Handlers : writer = h => pc[h] = "loop"
  BY DEF ProcInv
<1>c. proposal => threadRun \in Runs /\ status[threadRun] # "absent"
  BY DEF ProcInv, RunTypes
<1>e. status \in [Runs -> RunStatuses] /\ kind \in [Runs -> {"RELEASE", "WORK"}]
          /\ closing \in [Runs -> SUBSET Terminal]
  BY DEF RunTypes
<1>1. ASSUME NEW h \in Handlers,
             \/ Submit(h) \/ Plan(h) \/ QaGate(h)
             \/ AssertNextAction(h) \/ Prepare(h) \/ Package(h)
             \/ PackageFailed(h) \/ PublishFailed(h) \/ Raise(h)
             \/ CloseRead(h) \/ Die(h)
      PROVE  RunChange
  BY <1>1, <1>a, <1>b, <1>c, <1>e
      DEF Submit, runs, Plan, QaGate, AssertNextAction, Prepare, Package, PackageFailed,
          PublishFailed, Raise, CloseRead, Die, RunChange
<1>2. ASSUME
             \/ (\E j \in Jobs : StartJob(j)) \/ (\E j \in Jobs : Requeue(j))
                    \/ (\E j \in Jobs : ReadinessRetry(j))
             \/ (\E j \in Jobs, s \in {"SUCCEEDED", "BLOCKED", "RETRY_WAIT"} : EndJob(j, s))
                    \/ RecoverList \/ (\E r \in Runs : Recover(r))
      PROVE  RunChange
  BY <1>2, <1>a, <1>b, <1>c, <1>e
      DEF StartJob, runs, Requeue, ReadinessRetry, EndJob, RecoverList, Recover, RunChange
<1>3. ASSUME NEW h \in Handlers, NEW r \in Runs, AcceptRelease(h, r) PROVE RunChange
  BY <1>3, <1>a, <1>b, <1>c, <1>e
      DEF AcceptRelease, Message, NewRun, CreateHandoff, Go, At, RunChange
<1>4. ASSUME NEW h \in Handlers, NEW r \in Runs, AcceptAuthorizedWork(h, r) PROVE RunChange
  BY <1>4, <1>a, <1>b, <1>c, <1>e
      DEF AcceptAuthorizedWork, Message, NewRun, CreateHandoff, Go, At, RunChange
<1>5. ASSUME NEW h \in Handlers, NEW r \in Runs, AcceptWork(h, r) PROVE RunChange
  BY <1>5, <1>a, <1>b, <1>c, <1>e
      DEF AcceptWork, Message, NewRun, CreateHandoff, Go, At, RunChange
<1>6. ASSUME NEW h \in Handlers, NEW k \in Requests, Directive(h, k) PROVE RunChange
  BY <1>6, <1>a, <1>b, <1>c, <1>e DEF Directive, Message, Go, At, ActiveRun, RunChange
<1>7. ASSUME NEW h \in Handlers, ApproveProposal(h) PROVE RunChange
  <2>1. threadRun \in Runs /\ "COMPLETED" \in Terminal /\ status[threadRun] # "absent"
    BY <1>7, <1>a, <1>b, <1>c DEF ApproveProposal, At, Terminal
  <2>2. (status' = status /\ closing' = closing) \/ Closes(threadRun, "COMPLETED")
    BY <1>7, <2>1, Closing DEF ApproveProposal
  <2>3. kind' = kind
    BY <1>7 DEF ApproveProposal
  <2> QED BY <2>1, <2>2, <2>3 DEF Closes, RunChange
<1>8. ASSUME NEW h \in Handlers, SubmitRefused(h) PROVE RunChange
  BY <1>8, <1>a, <1>b, <1>c, <1>e
      DEF SubmitRefused, Pause, Recovery, Leave, Go, At, RunChange
<1>9. ASSUME NEW h \in Handlers, PlanAsks(h) PROVE RunChange
  BY <1>9, <1>a, <1>b, <1>c, <1>e DEF PlanAsks, Pause, Leave, Go, At, RunChange
<1>10. ASSUME NEW h \in Handlers, Tag(h) PROVE RunChange
  BY <1>10, <1>a, <1>b, <1>c, <1>e DEF Tag, Leave, Go, At, RunChange
<1>11. ASSUME NEW h \in Handlers, Preview(h) PROVE RunChange
  BY <1>11, <1>a, <1>b, <1>c, <1>e DEF Preview, Pause, Leave, Go, At, RunChange
<1>12. ASSUME NEW h \in Handlers, QaExhausted(h) PROVE RunChange
  <2>1. mine[h] \in Runs /\ "ESCALATED" \in Terminal /\ status[mine[h]] # "absent"
    BY <1>12, <1>a, <1>b, <1>c DEF QaExhausted, At, Terminal
  <2>2. (status' = status /\ closing' = closing) \/ Closes(mine[h], "ESCALATED")
    BY <1>12, <2>1, Closing DEF QaExhausted
  <2>3. kind' = kind
    BY <1>12 DEF QaExhausted, Untouched
  <2> QED BY <2>1, <2>2, <2>3 DEF Closes, RunChange
<1>13. ASSUME NEW h \in Handlers, RemediationCycle(h) PROVE RunChange
  BY <1>13, <1>a, <1>b, <1>c, <1>e DEF RemediationCycle, RunChange
<1>14. ASSUME NEW h \in Handlers, Escalate(h) PROVE RunChange
  <2>1. mine[h] \in Runs /\ "ESCALATED" \in Terminal /\ status[mine[h]] # "absent"
    BY <1>14, <1>a, <1>b, <1>c DEF Escalate, At, Terminal
  <2>2. (status' = status /\ closing' = closing) \/ Closes(mine[h], "ESCALATED")
    BY <1>14, <2>1, Closing DEF Escalate
  <2>3. kind' = kind
    BY <1>14 DEF Escalate, Untouched
  <2> QED BY <2>1, <2>2, <2>3 DEF Closes, RunChange
<1>15. ASSUME NEW h \in Handlers, PreparationBlocked(h) PROVE RunChange
  BY <1>15, <1>a, <1>b, <1>c, <1>e
      DEF PreparationBlocked, ContractGap, PreparationFailed, Pause, Untouched, Leave, Go, At,
          RunChange
<1>16. ASSUME NEW h \in Handlers, CapabilityGap(h) PROVE RunChange
  BY <1>16, <1>a, <1>b, <1>c, <1>e
      DEF CapabilityGap, Pause, Untouched, Leave, Go, At, RunChange
<1>17. ASSUME NEW h \in Handlers, Publish(h) PROVE RunChange
  <2>1. mine[h] \in Runs /\ "COMPLETED" \in Terminal /\ status[mine[h]] # "absent"
    BY <1>17, <1>a, <1>b, <1>c DEF Publish, At, Terminal
  <2>2. (status' = status /\ closing' = closing) \/ Closes(mine[h], "COMPLETED")
    BY <1>17, <2>1, Closing DEF Publish, CloseAfterEvent
  <2>3. kind' = kind
    BY <1>17 DEF Publish, Untouched
  <2> QED BY <2>1, <2>2, <2>3 DEF Closes, RunChange
<1>18. ASSUME NEW h \in Handlers, CloseWrite(h) PROVE RunChange
  BY <1>18, <1>a, <1>b, <1>c, <1>e DEF CloseWrite, Untouched, Leave, Go, At, RunChange
<1> QED BY <1>1, <1>2, <1>3, <1>4, <1>5, <1>6, <1>7, <1>8, <1>9, <1>10, <1>11, <1>12, <1>13,
    <1>14, <1>15, <1>16, <1>17, <1>18
    DEF Next, Accept, AcceptHandoff, Work, Orchestrate, Daemon

\* The part of ProcInv about handlers.
ProcPart ==
    \A h \in Handlers :
        /\ pc[h] # "idle" => mine[h] \in Runs /\ status[mine[h]] # "absent"
        /\ pc[h] = "tag" => made[h] \in Jobs
        /\ writer = h => pc[h] = "loop"

\* Every step keeps what ProcInv says of handlers.
LEMMA ProcPartStep ==
    ASSUME RunTypes, ProcTypes, ProcInv, Next
    PROVE  ProcPart'
<1>a. /\ pc \in [Handlers -> Places] /\ mine \in [Handlers -> Runs \cup {NoRun}]
      /\ made \in [Handlers -> Jobs \cup {NoJobYet}] /\ writer \in Handlers \cup {NoOne}
      /\ status \in [Runs -> RunStatuses] /\ threadRun \in Runs \cup {NoRun}
  BY DEF ProcTypes, RunTypes
<1>b. NoOne \notin Handlers /\ NoRun \notin Runs /\ NoJobYet \notin Jobs
  BY HandlersAssumption, Numbers
<1>c. \A q \in Runs : status[q] # "absent" => status'[q] # "absent"
  BY RunStep DEF RunChange
<1>d. ProcPart
  BY DEF ProcPart, ProcInv
<1>1. ASSUME NEW h \in Handlers,
             ApproveProposal(h)
      PROVE  ProcPart'
  BY <1>1, <1>a, <1>c, <1>d, <1>a, <1>b, <1>c, <1>d DEF ApproveProposal, procs, ProcPart
<1>2. ASSUME
             \/ (\E j \in Jobs : StartJob(j)) \/ (\E j \in Jobs : Requeue(j))
                    \/ (\E j \in Jobs : ReadinessRetry(j))
             \/ (\E j \in Jobs, s \in {"SUCCEEDED", "BLOCKED", "RETRY_WAIT"} : EndJob(j, s))
                    \/ RecoverList \/ (\E r \in Runs : Recover(r))
      PROVE  ProcPart'
  BY <1>2, <1>a, <1>c, <1>d, <1>a, <1>b, <1>c, <1>d
      DEF StartJob, procs, Requeue, ReadinessRetry, EndJob, RecoverList, Recover, ProcPart
<1>3. ASSUME NEW h \in Handlers, NEW r \in Runs, AcceptRelease(h, r) PROVE ProcPart'
  BY <1>3, <1>a, <1>b, <1>c, <1>d DEF AcceptRelease, Message, NewRun, Go, At, ProcPart
<1>4. ASSUME NEW h \in Handlers, NEW r \in Runs, AcceptAuthorizedWork(h, r) PROVE ProcPart'
  BY <1>4, <1>a, <1>b, <1>c, <1>d DEF AcceptAuthorizedWork, Message, NewRun, Go, At, ProcPart
<1>5. ASSUME NEW h \in Handlers, NEW r \in Runs, AcceptWork(h, r) PROVE ProcPart'
  BY <1>5, <1>a, <1>b, <1>c, <1>d DEF AcceptWork, Message, NewRun, Go, At, ProcPart
<1>6. ASSUME NEW h \in Handlers, NEW k \in Requests, Directive(h, k) PROVE ProcPart'
  BY <1>6, <1>a, <1>b, <1>c, <1>d
      DEF Directive, Message, Go, At, ActiveRun, ProcInv, ProcPart
<1>7. ASSUME NEW h \in Handlers, SubmitRefused(h) PROVE ProcPart'
  BY <1>7, <1>a, <1>b, <1>c, <1>d DEF SubmitRefused, Leave, Go, At, ProcPart
<1>8. ASSUME NEW h \in Handlers, Submit(h) PROVE ProcPart'
  BY <1>8, <1>a, <1>b, <1>c, <1>d DEF Submit, Go, At, ProcPart
<1>9. ASSUME NEW h \in Handlers, PlanAsks(h) PROVE ProcPart'
  BY <1>9, <1>a, <1>b, <1>c, <1>d DEF PlanAsks, Leave, Go, At, ProcPart
<1>10. ASSUME NEW h \in Handlers, Tag(h) PROVE ProcPart'
  BY <1>10, <1>a, <1>b, <1>c, <1>d DEF Tag, Leave, Go, At, ProcPart
<1>11. ASSUME NEW h \in Handlers, Preview(h) PROVE ProcPart'
  BY <1>11, <1>a, <1>b, <1>c, <1>d DEF Preview, Leave, Go, At, ProcPart
<1>12. ASSUME NEW h \in Handlers, Plan(h) PROVE ProcPart'
  BY <1>12, <1>a, <1>b, <1>c, <1>d DEF Plan, Go, At, ProcPart
<1>13. ASSUME NEW h \in Handlers, QaGate(h) PROVE ProcPart'
  BY <1>13, <1>a, <1>b, <1>c, <1>d
      DEF QaGate, RetryAssurance, Go, At, GatePassed, FindingSets, ProcPart
<1>14. ASSUME NEW h \in Handlers, QaExhausted(h) PROVE ProcPart'
  BY <1>14, <1>a, <1>b, <1>c, <1>d DEF QaExhausted, Go, At, Stay, ProcPart
<1>15. ASSUME NEW h \in Handlers, RemediationCycle(h) PROVE ProcPart'
  BY <1>15, <1>a, <1>b, <1>c, <1>d DEF RemediationCycle, ProcPart
<1>16. ASSUME NEW h \in Handlers, Escalate(h) PROVE ProcPart'
  BY <1>16, <1>a, <1>b, <1>c, <1>d DEF Escalate, Go, ProcPart
<1>17. ASSUME NEW h \in Handlers, AssertNextAction(h) PROVE ProcPart'
  BY <1>17, <1>a, <1>b, <1>c, <1>d DEF AssertNextAction, Leave, Go, At, ProcPart
<1>18. ASSUME NEW h \in Handlers, Prepare(h) PROVE ProcPart'
  BY <1>18, <1>a, <1>b, <1>c, <1>d DEF Prepare, Move, Go, Stay, At, ProcPart
<1>19. ASSUME NEW h \in Handlers, PreparationBlocked(h) PROVE ProcPart'
  BY <1>19, <1>a, <1>b, <1>c, <1>d DEF PreparationBlocked, Leave, Go, At, ProcPart
<1>20. ASSUME NEW h \in Handlers, Package(h) PROVE ProcPart'
  BY <1>20, <1>a, <1>b, <1>c, <1>d DEF Package, Move, Go, Stay, At, ProcPart
<1>21. ASSUME NEW h \in Handlers, CapabilityGap(h) PROVE ProcPart'
  BY <1>21, <1>a, <1>b, <1>c, <1>d DEF CapabilityGap, Leave, Go, At, ProcPart
<1>22. ASSUME NEW h \in Handlers, PackageFailed(h) PROVE ProcPart'
  BY <1>22, <1>a, <1>b, <1>c, <1>d DEF PackageFailed, Leave, Go, At, ProcPart
<1>23. ASSUME NEW h \in Handlers, Publish(h) PROVE ProcPart'
  BY <1>23, <1>a, <1>b, <1>c, <1>d DEF Publish, Leave, Go, At, ProcPart
<1>24. ASSUME NEW h \in Handlers, PublishFailed(h) PROVE ProcPart'
  BY <1>24, <1>a, <1>b, <1>c, <1>d DEF PublishFailed, Leave, Go, At, ProcPart
<1>25. ASSUME NEW h \in Handlers, Raise(h) PROVE ProcPart'
  BY <1>25, <1>a, <1>b, <1>c, <1>d DEF Raise, Move, Go, Stay, ProcPart
<1>26. ASSUME NEW h \in Handlers, CloseRead(h) PROVE ProcPart'
  BY <1>26, <1>a, <1>b, <1>c, <1>d DEF CloseRead, Move, Go, Stay, At, ProcPart
<1>27. ASSUME NEW h \in Handlers, CloseWrite(h) PROVE ProcPart'
  BY <1>27, <1>a, <1>b, <1>c, <1>d DEF CloseWrite, Leave, Go, At, ProcPart
<1>28. ASSUME NEW h \in Handlers, Die(h) PROVE ProcPart'
  BY <1>28, <1>a, <1>b, <1>c, <1>d DEF Die, Leave, Go, At, ProcPart
<1> QED BY <1>1, <1>2, <1>3, <1>4, <1>5, <1>6, <1>7, <1>8, <1>9, <1>10, <1>11, <1>12, <1>13,
    <1>14, <1>15, <1>16, <1>17, <1>18, <1>19, <1>20, <1>21, <1>22, <1>23, <1>24, <1>25, <1>26,
    <1>27, <1>28
    DEF Next, Accept, AcceptHandoff, Work, Orchestrate, Daemon

\* The part of ProcInv about the thread.
ThreadPart ==
    /\ threadRun # NoRun => threadRun \in Runs /\ status[threadRun] # "absent"
    /\ proposal => threadRun # NoRun

\* Every step keeps what ProcInv says of the thread.
LEMMA ThreadPartStep ==
    ASSUME RunTypes, ProcTypes, ProcInv, Next
    PROVE  ThreadPart'
<1>a. threadRun \in Runs \cup {NoRun} /\ status \in [Runs -> RunStatuses] /\ NoRun \notin Runs
  BY Numbers DEF RunTypes
<1>c. \A q \in Runs : status[q] # "absent" => status'[q] # "absent"
  BY RunStep DEF RunChange
<1>d. ThreadPart
  BY <1>a DEF ThreadPart, ProcInv
<1>e. ASSUME UNCHANGED <<threadRun, proposal>> PROVE ThreadPart'
  BY <1>c, <1>d, <1>e DEF ThreadPart
<1>1. ASSUME NEW h \in Handlers,
             \/ (\E k \in Requests : Directive(h, k)) \/ SubmitRefused(h) \/ Submit(h)
             \/ PlanAsks(h) \/ Tag(h) \/ Preview(h)
             \/ Plan(h) \/ QaGate(h) \/ QaExhausted(h)
             \/ RemediationCycle(h) \/ Escalate(h) \/ AssertNextAction(h)
             \/ Prepare(h) \/ PreparationBlocked(h) \/ Package(h)
             \/ CapabilityGap(h) \/ PackageFailed(h) \/ Publish(h)
             \/ PublishFailed(h) \/ Raise(h) \/ CloseRead(h)
             \/ CloseWrite(h) \/ Die(h)
      PROVE  ThreadPart'
  BY <1>1, <1>e
      DEF Directive, SubmitRefused, Submit, runs, PlanAsks, Tag, Preview, Plan, QaGate,
          QaExhausted, Untouched, RemediationCycle, Escalate, AssertNextAction, Prepare,
          PreparationBlocked, Package, CapabilityGap, PackageFailed, Publish, PublishFailed,
          Raise, CloseRead, CloseWrite, Die
<1>2. ASSUME
             \/ (\E j \in Jobs : StartJob(j)) \/ (\E j \in Jobs : Requeue(j))
                    \/ (\E j \in Jobs : ReadinessRetry(j))
             \/ (\E j \in Jobs, s \in {"SUCCEEDED", "BLOCKED", "RETRY_WAIT"} : EndJob(j, s))
                    \/ RecoverList \/ (\E r \in Runs : Recover(r))
      PROVE  ThreadPart'
  BY <1>2, <1>e DEF StartJob, runs, Requeue, ReadinessRetry, EndJob, RecoverList, Recover
<1>3. ASSUME NEW h \in Handlers, NEW r \in Runs, AcceptRelease(h, r) PROVE ThreadPart'
  BY <1>3, <1>a, <1>c, <1>d DEF AcceptRelease, NewRun, Message, CreateHandoff, ThreadPart
<1>4. ASSUME NEW h \in Handlers, NEW r \in Runs, AcceptAuthorizedWork(h, r) PROVE ThreadPart'
  BY <1>4, <1>a, <1>c, <1>d
      DEF AcceptAuthorizedWork, NewRun, Message, CreateHandoff, ThreadPart
<1>5. ASSUME NEW h \in Handlers, NEW r \in Runs, AcceptWork(h, r) PROVE ThreadPart'
  BY <1>5, <1>a, <1>c, <1>d DEF AcceptWork, NewRun, Message, CreateHandoff, ThreadPart
<1>6. ASSUME NEW h \in Handlers, ApproveProposal(h) PROVE ThreadPart'
  BY <1>6, <1>a, <1>c, <1>d DEF ApproveProposal, ThreadPart
<1> QED BY <1>1, <1>2, <1>3, <1>4, <1>5, <1>6
    DEF Next, Accept, AcceptHandoff, Work, Orchestrate, Daemon

\* Every step keeps ProcInv.
LEMMA ProcStep ==
    ASSUME RunTypes, ProcTypes, ProcInv, Next
    PROVE  ProcInv'
<1>1. ProcPart' /\ ThreadPart'
  BY ProcPartStep, ThreadPartStep
<1> QED BY <1>1 DEF ProcPart, ThreadPart, ProcInv

\* Every step keeps RunInvInv.
LEMMA RunInvStep ==
    ASSUME RunTypes, ProcTypes, ProcInv, RunInv, Next
    PROVE  RunInv'
<1>1. RunChange
  BY RunStep
<1> QED BY <1>1 DEF RunChange, RunInv

\* The job a handler remembers stays the job its intake has made.
LEMMA MadeStep ==
    ASSUME RunTypes, JobTypes, ProcTypes, ProcInv, JobInv, Next
    PROVE  \A g \in Handlers : made'[g] \in Jobs =>
              job'[made'[g]].status # "absent" /\ job'[made'[g]].name = "INTAKE"
<1>a. /\ made \in [Handlers -> Jobs \cup {NoJobYet}] /\ NoJobYet \notin Jobs
             /\ pc \in [Handlers -> Places]
  BY Numbers DEF ProcTypes
<1>b. \A i \in Jobs : job[i].status # "absent" => job'[i].status # "absent"
          /\ job'[i].name = job[i].name
  BY JobStep DEF JobChange
<1>c. \A h \in Handlers : made[h] \in Jobs => job[made[h]].status # "absent"
          /\ job[made[h]].name = "INTAKE"
  BY DEF JobInv
<1>1. ASSUME NEW h \in Handlers,
             \/ (\E r \in Runs : AcceptRelease(h, r))
                    \/ (\E r \in Runs : AcceptAuthorizedWork(h, r))
                           \/ (\E r \in Runs : AcceptWork(h, r))
             \/ (\E k \in Requests : Directive(h, k)) \/ ApproveProposal(h) \/ SubmitRefused(h)
             \/ PlanAsks(h) \/ Tag(h) \/ Preview(h)
             \/ Plan(h) \/ QaGate(h) \/ QaExhausted(h)
             \/ RemediationCycle(h) \/ Escalate(h) \/ AssertNextAction(h)
             \/ Prepare(h) \/ PreparationBlocked(h) \/ Package(h)
             \/ CapabilityGap(h) \/ PackageFailed(h) \/ Publish(h)
             \/ PublishFailed(h) \/ Raise(h) \/ CloseRead(h)
             \/ CloseWrite(h) \/ Die(h)
      PROVE  \A g \in Handlers : made'[g] \in Jobs =>
              job'[made'[g]].status # "absent" /\ job'[made'[g]].name = "INTAKE"
  BY <1>1, <1>a, <1>b, <1>c
      DEF AcceptRelease, Message, NewRun, AcceptAuthorizedWork, AcceptWork, Directive,
          ApproveProposal, procs, SubmitRefused, Leave, PlanAsks, Tag, Preview, Plan, QaGate,
          QaExhausted, Stay, RemediationCycle, Escalate, AssertNextAction, Prepare, Move,
          PreparationBlocked, Package, CapabilityGap, PackageFailed, Publish, PublishFailed,
          Raise, CloseRead, CloseWrite, Die
<1>2. ASSUME
             \/ (\E j \in Jobs : StartJob(j)) \/ (\E j \in Jobs : Requeue(j))
                    \/ (\E j \in Jobs : ReadinessRetry(j))
             \/ (\E j \in Jobs, s \in {"SUCCEEDED", "BLOCKED", "RETRY_WAIT"} : EndJob(j, s))
                    \/ RecoverList \/ (\E r \in Runs : Recover(r))
      PROVE  \A g \in Handlers : made'[g] \in Jobs =>
              job'[made'[g]].status # "absent" /\ job'[made'[g]].name = "INTAKE"
  BY <1>2, <1>a, <1>b, <1>c
      DEF StartJob, procs, Requeue, ReadinessRetry, EndJob, RecoverList, Recover
<1>3. ASSUME NEW h \in Handlers, Submit(h) PROVE \A g \in Handlers : made'[g] \in Jobs =>
              job'[made'[g]].status # "absent" /\ job'[made'[g]].name = "INTAKE"
  <2>1. PICK j \in Jobs : AddJob(j, NoRun, "INTAKE", "READY", {})
                 /\ made' = [made EXCEPT ![h] = j]
    BY <1>3 DEF Submit
  <2>2. job'[j].status = "READY" /\ job'[j].name = "INTAKE"
    BY <2>1, Adding DEF JobNames
  <2> QED BY <1>a, <1>b, <1>c, <2>1, <2>2
<1> QED BY <1>1, <1>2, <1>3 DEF Next, Accept, AcceptHandoff, Work, Orchestrate, Daemon

\* Every step keeps JobInv.
LEMMA JobInvStep ==
    ASSUME RunTypes, JobTypes, ProcTypes, ProcInv, JobInv, Next
    PROVE  JobInv'
<1>1. JobChange
  BY JobStep
<1>2. \A j \in Jobs :
          /\ job'[j].status = "absent" => job'[j].run = NoRun /\ work'[j] = "none"
          /\ job'[j].name = "INTAKE" => work'[j] = "none"
  BY <1>1 DEF JobChange, JobInv
<1> QED BY <1>2, MadeStep DEF JobInv

\* Every step keeps SeenInv.
LEMMA SeenStep ==
    ASSUME RunTypes, JobTypes, ProcTypes, ProcInv, JobInv, SeenInv, Next
    PROVE  SeenInv'
<1>0. JobTypes' /\ JobChange
  BY JobStep
<1>a. /\ pc \in [Handlers -> Places] /\ seen \in [Handlers -> Nat]
             /\ mine \in [Handlers -> Runs \cup {NoRun}]
  BY DEF ProcTypes
<1>b. ASSUME NEW r \in Runs
      PROVE CycleCount(r) \in Nat /\ CycleCount(r)' \in Nat /\ CycleCount(r) <= CycleCount(r)'
  BY <1>0, CycleSets, CyclesGrow
<1> DEFINE Count(r) == CycleCount(r)
<1> DEFINE Later(r) == CycleCount(r)'
<1>c. \A g \in Handlers, r \in Runs : pc[g] \in {"qa", "loop"} /\ mine[g] = r
          => seen[g] <= Count(r)
  BY DEF SeenInv
<1>d. \A r \in Runs : Count(r) \in Nat /\ Later(r) \in Nat /\ Count(r) <= Later(r)
  BY <1>b
<1>e. ASSUME NEW h \in Handlers, Plan(h) PROVE seen' = [seen EXCEPT ![h] = Count(mine[h])]
  BY <1>e DEF Plan
<1>f. ASSUME NEW h \in Handlers, RemediationCycle(h)
      PROVE  seen' = [seen EXCEPT ![h] = Later(mine[h])] /\ mine' = mine /\ pc' = pc
  BY <1>f DEF RemediationCycle, CycleCount, JobsOf
<1> DEFINE goal == \A g \in Handlers, r \in Runs :
                      pc'[g] \in {"qa", "loop"} /\ mine'[g] = r => seen'[g] <= Later(r)
<1> HIDE DEF Count, Later
<1>g. ASSUME UNCHANGED <<pc, mine, seen>> PROVE goal
  BY <1>a, <1>c, <1>d, <1>g
<1>1. ASSUME NEW h \in Handlers,
             ApproveProposal(h)
      PROVE  goal
  BY <1>1, <1>g DEF ApproveProposal, procs
<1>2. ASSUME
             \/ (\E j \in Jobs : StartJob(j)) \/ (\E j \in Jobs : Requeue(j))
                    \/ (\E j \in Jobs : ReadinessRetry(j))
             \/ (\E j \in Jobs, s \in {"SUCCEEDED", "BLOCKED", "RETRY_WAIT"} : EndJob(j, s))
                    \/ RecoverList \/ (\E r \in Runs : Recover(r))
      PROVE  goal
  BY <1>2, <1>g
      DEF StartJob, procs, Requeue, ReadinessRetry, EndJob, RecoverList, Recover
<1>3. ASSUME NEW h \in Handlers, NEW r \in Runs, AcceptRelease(h, r) PROVE goal
  BY <1>3, <1>a, <1>c, <1>d DEF AcceptRelease, Message, NewRun, Go, At
<1>4. ASSUME NEW h \in Handlers, NEW r \in Runs, AcceptAuthorizedWork(h, r) PROVE goal
  BY <1>4, <1>a, <1>c, <1>d DEF AcceptAuthorizedWork, Message, NewRun, Go, At
<1>5. ASSUME NEW h \in Handlers, NEW r \in Runs, AcceptWork(h, r) PROVE goal
  BY <1>5, <1>a, <1>c, <1>d DEF AcceptWork, Message, NewRun, Go, At
<1>6. ASSUME NEW h \in Handlers, NEW k \in Requests, Directive(h, k) PROVE goal
  BY <1>6, <1>a, <1>c, <1>d DEF Directive, Message, Go, At
<1>7. ASSUME NEW h \in Handlers, SubmitRefused(h) PROVE goal
  BY <1>7, <1>a, <1>c, <1>d DEF SubmitRefused, Leave, Go, At
<1>8. ASSUME NEW h \in Handlers, Submit(h) PROVE goal
  BY <1>8, <1>a, <1>c, <1>d DEF Submit, Go, At
<1>9. ASSUME NEW h \in Handlers, PlanAsks(h) PROVE goal
  BY <1>9, <1>a, <1>c, <1>d DEF PlanAsks, Leave, Go, At
<1>10. ASSUME NEW h \in Handlers, Tag(h) PROVE goal
  BY <1>10, <1>a, <1>c, <1>d DEF Tag, Leave, Go, At
<1>11. ASSUME NEW h \in Handlers, Preview(h) PROVE goal
  BY <1>11, <1>a, <1>c, <1>d DEF Preview, Leave, Go, At
<1>12. ASSUME NEW h \in Handlers, Plan(h) PROVE goal
  <2>1. mine' = mine /\ pc' = [pc EXCEPT ![h] = "qa"]
            /\ seen' = [seen EXCEPT ![h] = Count(mine[h])]
    BY <1>12, <1>e DEF Plan, Go
  <2> QED BY <1>a, <1>c, <1>d, <2>1
<1>13. ASSUME NEW h \in Handlers, QaGate(h) PROVE goal
  BY <1>13, <1>a, <1>c, <1>d DEF QaGate, RetryAssurance, Go, At
<1>14. ASSUME NEW h \in Handlers, QaExhausted(h) PROVE goal
  BY <1>14, <1>a, <1>c, <1>d DEF QaExhausted, Go, At, Stay
<1>15. ASSUME NEW h \in Handlers, RemediationCycle(h) PROVE goal
  BY <1>15, <1>f, <1>a, <1>c, <1>d DEF goal
<1>16. ASSUME NEW h \in Handlers, Escalate(h) PROVE goal
  BY <1>16, <1>a, <1>c, <1>d DEF Escalate, Go
<1>17. ASSUME NEW h \in Handlers, AssertNextAction(h) PROVE goal
  BY <1>17, <1>a, <1>c, <1>d DEF AssertNextAction, Leave, Go, At
<1>18. ASSUME NEW h \in Handlers, Prepare(h) PROVE goal
  BY <1>18, <1>a, <1>c, <1>d DEF Prepare, Move, Go, Stay, At
<1>19. ASSUME NEW h \in Handlers, PreparationBlocked(h) PROVE goal
  BY <1>19, <1>a, <1>c, <1>d DEF PreparationBlocked, Leave, Go, At
<1>20. ASSUME NEW h \in Handlers, Package(h) PROVE goal
  BY <1>20, <1>a, <1>c, <1>d DEF Package, Move, Go, Stay, At
<1>21. ASSUME NEW h \in Handlers, CapabilityGap(h) PROVE goal
  BY <1>21, <1>a, <1>c, <1>d DEF CapabilityGap, Leave, Go, At
<1>22. ASSUME NEW h \in Handlers, PackageFailed(h) PROVE goal
  BY <1>22, <1>a, <1>c, <1>d DEF PackageFailed, Leave, Go, At
<1>23. ASSUME NEW h \in Handlers, Publish(h) PROVE goal
  BY <1>23, <1>a, <1>c, <1>d DEF Publish, Leave, Go, At
<1>24. ASSUME NEW h \in Handlers, PublishFailed(h) PROVE goal
  BY <1>24, <1>a, <1>c, <1>d DEF PublishFailed, Leave, Go, At
<1>25. ASSUME NEW h \in Handlers, Raise(h) PROVE goal
  BY <1>25, <1>a, <1>c, <1>d DEF Raise, Move, Go, Stay
<1>26. ASSUME NEW h \in Handlers, CloseRead(h) PROVE goal
  BY <1>26, <1>a, <1>c, <1>d DEF CloseRead, Move, Go, Stay, At
<1>27. ASSUME NEW h \in Handlers, CloseWrite(h) PROVE goal
  BY <1>27, <1>a, <1>c, <1>d DEF CloseWrite, Leave, Go, At
<1>28. ASSUME NEW h \in Handlers, Die(h) PROVE goal
  BY <1>28, <1>a, <1>c, <1>d DEF Die, Leave, Go, At
<1>29. goal
  <2> HIDE DEF goal
  <2> QED BY <1>1, <1>2, <1>3, <1>4, <1>5, <1>6, <1>7, <1>8, <1>9, <1>10, <1>11, <1>12, <1>13,
      <1>14, <1>15, <1>16, <1>17, <1>18, <1>19, <1>20, <1>21, <1>22, <1>23, <1>24, <1>25, <1>26,
      <1>27, <1>28
    DEF Next, Accept, AcceptHandoff, Work, Orchestrate, Daemon
<1> QED BY <1>29 DEF SeenInv, Later
-----------------------------------------------------------------------------
(* The properties. *)

\* Only a publication that met the outcome, or work, completes a run.
LEMMA CompletedStep ==
    ASSUME RunTypes, ProcTypes, ProcInv, RunInv, CompletedIsDelivered, Next
    PROVE  CompletedIsDelivered'
<1>a. \A h \in Handlers : (pc[h] # "idle" \/ writer = h) => mine[h] \in Runs
  BY DEF ProcInv
<1>b. proposal => threadRun \in Runs
  BY DEF ProcInv, RunTypes
<1>e. kind \in [Runs -> {"RELEASE", "WORK"}] /\ closing \in [Runs -> SUBSET Terminal]
  BY DEF RunTypes
<1>f. ASSUME UNCHANGED <<kind, closing, delivered>> PROVE CompletedIsDelivered'
  BY <1>f DEF CompletedIsDelivered
<1>1. ASSUME NEW h \in Handlers,
             \/ (\E k \in Requests : Directive(h, k)) \/ SubmitRefused(h) \/ Submit(h)
             \/ PlanAsks(h) \/ Tag(h) \/ Preview(h)
             \/ Plan(h) \/ QaGate(h) \/ RemediationCycle(h)
             \/ AssertNextAction(h) \/ Prepare(h) \/ PreparationBlocked(h)
             \/ Package(h) \/ CapabilityGap(h) \/ PackageFailed(h)
             \/ PublishFailed(h) \/ Raise(h) \/ CloseRead(h)
             \/ Die(h)
      PROVE  CompletedIsDelivered'
  BY <1>1, <1>f
      DEF Directive, Message, SubmitRefused, Submit, runs, PlanAsks, Tag, Preview, Plan, QaGate,
          RemediationCycle, AssertNextAction, Prepare, PreparationBlocked, Untouched, Package,
          CapabilityGap, PackageFailed, PublishFailed, Raise, CloseRead, Die
<1>2. ASSUME
             \/ (\E j \in Jobs : StartJob(j)) \/ (\E j \in Jobs : Requeue(j))
                    \/ (\E j \in Jobs : ReadinessRetry(j))
             \/ (\E j \in Jobs, s \in {"SUCCEEDED", "BLOCKED", "RETRY_WAIT"} : EndJob(j, s))
                    \/ RecoverList \/ (\E r \in Runs : Recover(r))
      PROVE  CompletedIsDelivered'
  BY <1>2, <1>f DEF StartJob, runs, Requeue, ReadinessRetry, EndJob, RecoverList, Recover
<1>3. ASSUME NEW h \in Handlers, NEW r \in Runs, AcceptRelease(h, r) PROVE CompletedIsDelivered'
  <2>1. /\ kind' = [kind EXCEPT ![r] = "RELEASE"] /\ closing[r] = {}
        /\ UNCHANGED <<closing, delivered>>
    BY <1>3 DEF AcceptRelease, NewRun, Message, RunInv
  <2> QED BY <1>e, <2>1 DEF CompletedIsDelivered
<1>4. ASSUME NEW h \in Handlers, NEW r \in Runs, AcceptAuthorizedWork(h, r)
      PROVE CompletedIsDelivered'
  <2>1. /\ kind' = [kind EXCEPT ![r] = "WORK"] /\ closing[r] = {}
        /\ UNCHANGED <<closing, delivered>>
    BY <1>4 DEF AcceptAuthorizedWork, NewRun, Message, RunInv
  <2> QED BY <1>e, <2>1 DEF CompletedIsDelivered
<1>5. ASSUME NEW h \in Handlers, NEW r \in Runs, AcceptWork(h, r) PROVE CompletedIsDelivered'
  <2>1. /\ kind' = [kind EXCEPT ![r] = "WORK"] /\ closing[r] = {}
        /\ UNCHANGED <<closing, delivered>>
    BY <1>5 DEF AcceptWork, NewRun, Message, RunInv
  <2> QED BY <1>e, <2>1 DEF CompletedIsDelivered
<1>6. ASSUME NEW h \in Handlers, ApproveProposal(h) PROVE CompletedIsDelivered'
  <2>1. threadRun \in Runs /\ "COMPLETED" \in Terminal /\ kind[threadRun] = "WORK"
    BY <1>6, <1>b DEF ApproveProposal, Completes, Terminal
  <2>2. Closes(threadRun, "COMPLETED")
    BY <1>6, <2>1, Closing DEF ApproveProposal
  <2>3. UNCHANGED <<kind, delivered>>
    BY <1>6 DEF ApproveProposal
  <2> QED BY <1>e, <2>1, <2>2, <2>3 DEF Closes, CompletedIsDelivered
<1>7. ASSUME NEW h \in Handlers, QaExhausted(h) PROVE CompletedIsDelivered'
  <2>1. mine[h] \in Runs /\ "ESCALATED" \in Terminal
    BY <1>7, <1>a DEF QaExhausted, At, Terminal
  <2>2. closing' = closing \/ Closes(mine[h], "ESCALATED")
    BY <1>7, <2>1, Closing DEF QaExhausted
  <2>3. UNCHANGED <<kind, delivered>>
    BY <1>7 DEF QaExhausted, Untouched
  <2> QED BY <1>e, <2>1, <2>2, <2>3 DEF Closes, CompletedIsDelivered
<1>8. ASSUME NEW h \in Handlers, Escalate(h) PROVE CompletedIsDelivered'
  <2>1. mine[h] \in Runs /\ "ESCALATED" \in Terminal
    BY <1>8, <1>a DEF Escalate, At, Terminal
  <2>2. closing' = closing \/ Closes(mine[h], "ESCALATED")
    BY <1>8, <2>1, Closing DEF Escalate
  <2>3. UNCHANGED <<kind, delivered>>
    BY <1>8 DEF Escalate, Untouched
  <2> QED BY <1>e, <2>1, <2>2, <2>3 DEF Closes, CompletedIsDelivered
<1>9. ASSUME NEW h \in Handlers, Publish(h) PROVE CompletedIsDelivered'
  <2>1. PICK wanted \in SUBSET Wishes, evidence \in SUBSET (Baseline \cup Wishes) :
           /\ delivered' = IF wanted \cup Baseline \subseteq evidence
                           THEN delivered \cup {mine[h]} ELSE delivered
           /\ CloseAfterEvent(mine[h], wanted, evidence)
    BY <1>9 DEF Publish
  <2>2. mine[h] \in Runs /\ "COMPLETED" \in Terminal /\ kind' = kind
    BY <1>9, <1>a DEF Publish, At, Terminal, Untouched
  <2>3. CASE closing' = closing
    BY <2>1, <2>2, <2>3 DEF CompletedIsDelivered
  <2>4. CASE closing' # closing
    <3>1. Satisfied(kind[mine[h]], wanted, evidence) /\ Closes(mine[h], "COMPLETED")
      BY <2>1, <2>2, <2>4, Closing DEF CloseAfterEvent
    <3>2. kind[mine[h]] = "RELEASE" => wanted \cup Baseline \subseteq evidence
      BY <3>1 DEF Satisfied, MissingOutputs, EffectiveRequirements
    <3>3. kind[mine[h]] = "RELEASE" => mine[h] \in delivered'
      BY <2>1, <3>2
    <3>4. delivered \subseteq delivered'
      BY <2>1
    <3> QED BY <1>e, <2>2, <3>1, <3>3, <3>4 DEF Closes, CompletedIsDelivered
  <2> QED BY <2>3, <2>4
<1>10. ASSUME NEW h \in Handlers, CloseWrite(h) PROVE CompletedIsDelivered'
  <2>1. mine[h] \in Runs /\ UNCHANGED <<kind, delivered>>
        /\ closing' = [closing EXCEPT ![mine[h]] = @ \cup {"BLOCKED"}]
    BY <1>10, <1>a DEF CloseWrite, At, Untouched
  <2>2. \A r \in Runs : "COMPLETED" \in closing'[r] => "COMPLETED" \in closing[r]
    BY <1>e, <2>1
  <2> QED BY <2>1, <2>2 DEF CompletedIsDelivered
<1> QED BY <1>1, <1>2, <1>3, <1>4, <1>5, <1>6, <1>7, <1>8, <1>9, <1>10
    DEF Next, Accept, AcceptHandoff, Work, Orchestrate, Daemon

\* The count of a finding grows, to the limit at most.
StartedChange ==
    \A r \in Runs, f \in Findings :
        /\ started'[r][f] \in Nat /\ started[r][f] <= started'[r][f]
        /\ started'[r][f] <= MaxRecurrence

\* Every step counts findings up to the limit.
LEMMA StartedStep ==
    ASSUME RunTypes, ProcTypes, ProcInv, RecurrenceBounded, Next
    PROVE  StartedChange
<1>a. started \in [Runs -> [Findings -> Nat]] /\ MaxRecurrence \in Nat
  BY RunAssumption DEF RunTypes
<1>b. \A h \in Handlers : writer = h => mine[h] \in Runs
  BY DEF ProcInv
<1>c. ASSUME started' = started PROVE StartedChange
  BY <1>a, <1>c DEF StartedChange, RecurrenceBounded
<1>1. ASSUME NEW h \in Handlers,
             \/ (\E r \in Runs : AcceptRelease(h, r))
                    \/ (\E r \in Runs : AcceptAuthorizedWork(h, r))
                           \/ (\E r \in Runs : AcceptWork(h, r))
             \/ (\E k \in Requests : Directive(h, k)) \/ ApproveProposal(h) \/ SubmitRefused(h)
             \/ Submit(h) \/ PlanAsks(h) \/ Tag(h)
             \/ Preview(h) \/ Plan(h) \/ QaGate(h)
             \/ QaExhausted(h) \/ Escalate(h) \/ AssertNextAction(h)
             \/ Prepare(h) \/ PreparationBlocked(h) \/ Package(h)
             \/ CapabilityGap(h) \/ PackageFailed(h) \/ Publish(h)
             \/ PublishFailed(h) \/ Raise(h) \/ CloseRead(h)
             \/ CloseWrite(h) \/ Die(h)
      PROVE  StartedChange
  BY <1>1, <1>c
      DEF AcceptRelease, Message, NewRun, AcceptAuthorizedWork, AcceptWork, Directive,
          ApproveProposal, SubmitRefused, Submit, runs, PlanAsks, Tag, Preview, Plan, QaGate,
          QaExhausted, Escalate, AssertNextAction, Prepare, PreparationBlocked, Package,
          CapabilityGap, PackageFailed, Publish, PublishFailed, Raise, CloseRead, CloseWrite,
          Die
<1>2. ASSUME
             \/ (\E j \in Jobs : StartJob(j)) \/ (\E j \in Jobs : Requeue(j))
                    \/ (\E j \in Jobs : ReadinessRetry(j))
             \/ (\E j \in Jobs, s \in {"SUCCEEDED", "BLOCKED", "RETRY_WAIT"} : EndJob(j, s))
                    \/ RecoverList \/ (\E r \in Runs : Recover(r))
      PROVE  StartedChange
  BY <1>2, <1>c DEF StartJob, runs, Requeue, ReadinessRetry, EndJob, RecoverList, Recover
<1>3. ASSUME NEW h \in Handlers, RemediationCycle(h) PROVE StartedChange
  <2>1. mine[h] \in Runs
    BY <1>3, <1>b DEF RemediationCycle
  <2>2. \A f \in found[h] : ~(started[mine[h]][f] >= MaxRecurrence)
    BY <1>3 DEF RemediationCycle, LimitReached, Recurs
  <2>3. started' = [started EXCEPT ![mine[h]] =
            [f \in Findings |-> IF f \in found[h] THEN started[mine[h]][f] + 1
                                 ELSE started[mine[h]][f]]]
    BY <1>3, <1>a, <2>1 DEF RemediationCycle
  <2>4. \A r \in Runs, f \in Findings :
            IF r = mine[h] /\ f \in found[h] THEN started'[r][f] = started[r][f] + 1
            ELSE started'[r][f] = started[r][f]
    BY <1>a, <2>1, <2>3
  <2>5. \A r \in Runs, f \in Findings : started[r][f] \in Nat /\ started[r][f] <= MaxRecurrence
    BY <1>a DEF RecurrenceBounded
  <2> QED BY <1>a, <2>1, <2>2, <2>4, <2>5 DEF StartedChange
<1> QED BY <1>1, <1>2, <1>3 DEF Next, Accept, AcceptHandoff, Work, Orchestrate, Daemon

\* A run is escalated by a handler that has used up its cycles or met the limit.
Escalates ==
    \A r \in Runs : "ESCALATED" \in closing'[r] =>
        \/ "ESCALATED" \in closing[r]
        \/ \E h \in Handlers : mine[h] = r /\ pc[h] \in {"qa", "loop"}
               /\ (seen[h] >= MaxCycles \/ LimitReached(h))

\* Every step escalates as Escalates says.
LEMMA EscalatesStep ==
    ASSUME RunTypes, ProcTypes, ProcInv, Next
    PROVE  Escalates
<1>a. \A h \in Handlers : (pc[h] # "idle" \/ writer = h) => mine[h] \in Runs
  BY DEF ProcInv
<1>b. proposal => threadRun \in Runs
  BY DEF ProcInv, RunTypes
<1>e. closing \in [Runs -> SUBSET Terminal]
  BY DEF RunTypes
<1>f. ASSUME UNCHANGED closing PROVE Escalates
  BY <1>f DEF Escalates
<1>1. ASSUME NEW h \in Handlers,
             \/ (\E r \in Runs : AcceptRelease(h, r))
                    \/ (\E r \in Runs : AcceptAuthorizedWork(h, r))
                           \/ (\E r \in Runs : AcceptWork(h, r))
             \/ (\E k \in Requests : Directive(h, k)) \/ SubmitRefused(h) \/ Submit(h)
             \/ PlanAsks(h) \/ Tag(h) \/ Preview(h)
             \/ Plan(h) \/ QaGate(h) \/ RemediationCycle(h)
             \/ AssertNextAction(h) \/ Prepare(h) \/ PreparationBlocked(h)
             \/ Package(h) \/ CapabilityGap(h) \/ PackageFailed(h)
             \/ PublishFailed(h) \/ Raise(h) \/ CloseRead(h)
             \/ Die(h)
      PROVE  Escalates
  BY <1>1, <1>f
      DEF AcceptRelease, Message, NewRun, AcceptAuthorizedWork, AcceptWork, Directive,
          SubmitRefused, Submit, runs, PlanAsks, Tag, Preview, Plan, QaGate, RemediationCycle,
          AssertNextAction, Prepare, PreparationBlocked, Package, CapabilityGap, PackageFailed,
          PublishFailed, Raise, CloseRead, Die
<1>2. ASSUME
             \/ (\E j \in Jobs : StartJob(j)) \/ (\E j \in Jobs : Requeue(j))
                    \/ (\E j \in Jobs : ReadinessRetry(j))
             \/ (\E j \in Jobs, s \in {"SUCCEEDED", "BLOCKED", "RETRY_WAIT"} : EndJob(j, s))
                    \/ RecoverList \/ (\E r \in Runs : Recover(r))
      PROVE  Escalates
  BY <1>2, <1>f DEF StartJob, runs, Requeue, ReadinessRetry, EndJob, RecoverList, Recover
<1>3. ASSUME NEW h \in Handlers, ApproveProposal(h) PROVE Escalates
  <2>1. threadRun \in Runs /\ "COMPLETED" \in Terminal
    BY <1>3, <1>a, <1>b DEF ApproveProposal, At, Terminal
  <2>2. closing' = closing \/ Closes(threadRun, "COMPLETED")
    BY <1>3, <2>1, Closing DEF ApproveProposal
  <2> QED BY <1>e, <2>1, <2>2 DEF Closes, Escalates
<1>4. ASSUME NEW h \in Handlers, QaExhausted(h) PROVE Escalates
  <2>1. /\ mine[h] \in Runs /\ "ESCALATED" \in Terminal /\ pc[h] = "qa"
        /\ seen[h] >= MaxCycles \/ LimitReached(h)
    BY <1>4, <1>a DEF QaExhausted, At, Terminal, ProcInv
  <2>2. closing' = closing \/ Closes(mine[h], "ESCALATED")
    BY <1>4, <2>1, Closing DEF QaExhausted
  <2> QED BY <1>e, <2>1, <2>2 DEF Closes, Escalates
<1>5. ASSUME NEW h \in Handlers, Escalate(h) PROVE Escalates
  <2>1. /\ mine[h] \in Runs /\ "ESCALATED" \in Terminal /\ pc[h] = "loop"
        /\ seen[h] >= MaxCycles \/ LimitReached(h)
    BY <1>5, <1>a DEF Escalate, At, Terminal, ProcInv
  <2>2. closing' = closing \/ Closes(mine[h], "ESCALATED")
    BY <1>5, <2>1, Closing DEF Escalate
  <2> QED BY <1>e, <2>1, <2>2 DEF Closes, Escalates
<1>6. ASSUME NEW h \in Handlers, Publish(h) PROVE Escalates
  <2>1. mine[h] \in Runs /\ "COMPLETED" \in Terminal
    BY <1>6, <1>a, <1>b DEF Publish, At, Terminal
  <2>2. closing' = closing \/ Closes(mine[h], "COMPLETED")
    BY <1>6, <2>1, Closing DEF Publish, CloseAfterEvent
  <2> QED BY <1>e, <2>1, <2>2 DEF Closes, Escalates
<1>7. ASSUME NEW h \in Handlers, CloseWrite(h) PROVE Escalates
  <2>1. mine[h] \in Runs /\ closing' = [closing EXCEPT ![mine[h]] = @ \cup {"BLOCKED"}]
    BY <1>7, <1>a DEF CloseWrite, At
  <2> QED BY <1>e, <2>1 DEF Escalates
<1> QED BY <1>1, <1>2, <1>3, <1>4, <1>5, <1>6, <1>7
    DEF Next, Accept, AcceptHandoff, Work, Orchestrate, Daemon

\* What earned an escalation is not lost.
LEMMA EscalationStep ==
    ASSUME RunTypes, JobTypes, ProcTypes, ProcInv, JobInv, SeenInv, RecurrenceBounded,
               EscalationIsEarned, Next
    PROVE  EscalationIsEarned'
<1>1. Escalates /\ StartedChange /\ JobTypes' /\ JobChange
  BY EscalatesStep, StartedStep, JobStep
<1>2. MaxCycles \in Nat /\ MaxRecurrence \in Nat
  BY RunAssumption
<1> SUFFICES ASSUME NEW r \in Runs, "ESCALATED" \in closing'[r]
             PROVE  (\E f \in Findings : started'[r][f] >= MaxRecurrence)
                        \/ CycleCount(r)' >= MaxCycles
  BY DEF EscalationIsEarned
<1>3. CycleCount(r) \in Nat /\ CycleCount(r)' \in Nat /\ CycleCount(r) <= CycleCount(r)'
  BY <1>1, CycleSets, CyclesGrow
<1>4. ASSUME CycleCount(r) >= MaxCycles PROVE CycleCount(r)' >= MaxCycles
  BY <1>2, <1>3, <1>4
<1>5. ASSUME NEW f \in Findings, started[r][f] >= MaxRecurrence
      PROVE started'[r][f] >= MaxRecurrence
  <2>1. started[r][f] \in Nat /\ started'[r][f] \in Nat /\ started[r][f] <= started'[r][f]
    BY <1>1 DEF StartedChange, RunTypes
  <2> QED BY <1>2, <1>5, <2>1
<1>6. CASE "ESCALATED" \in closing[r]
  BY <1>4, <1>5, <1>6 DEF EscalationIsEarned
<1>7. ASSUME NEW h \in Handlers, mine[h] = r, pc[h] \in {"qa", "loop"}, seen[h] >= MaxCycles
             \/ LimitReached(h)
      PROVE  (\E f \in Findings : started[r][f] >= MaxRecurrence) \/ CycleCount(r) >= MaxCycles
  <2>1. seen[h] <= CycleCount(r) /\ seen[h] \in Nat /\ found[h] \subseteq Findings
    BY <1>7 DEF SeenInv, ProcTypes
  <2>2. CASE seen[h] >= MaxCycles
    BY <1>2, <1>3, <2>1, <2>2
  <2>3. CASE Recurs(h)
    BY <1>7, <2>1, <2>3 DEF Recurs
  <2> QED BY <1>7, <2>2, <2>3 DEF LimitReached
<1> QED BY <1>1, <1>4, <1>5, <1>6, <1>7 DEF Escalates
-----------------------------------------------------------------------------
(* The inductive invariant and the properties that follow from it. *)

IInv ==
    /\ TypeOK /\ ProcInv /\ JobInv /\ SeenInv /\ RunInv
    /\ CompletedIsDelivered /\ RecurrenceBounded /\ EscalationIsEarned

\* The invariant holds at first.
LEMMA InitIInv == Init => IInv
<1> SUFFICES ASSUME Init PROVE IInv
  OBVIOUS
<1>1. /\ NoRun \notin Runs /\ NoJobYet \notin Jobs /\ NoOne \notin Handlers
      /\ MessageBound \in Nat /\ MaxCycles \in Nat /\ MaxRecurrence \in Nat
  BY Numbers, RunAssumption, HandlersAssumption
<1>2. RunTypes
  <2>1. /\ status \in [Runs -> RunStatuses] /\ kind \in [Runs -> {"RELEASE", "WORK"}]
        /\ closing \in [Runs -> SUBSET Terminal] /\ threadRun \in Runs \cup {NoRun}
        /\ delivered \in SUBSET Runs /\ listed \in SUBSET Runs /\ messages \in 0..MessageBound
    BY <1>1 DEF Init, RunStatuses
  <2>2. started \in [Runs -> [Findings -> Nat]]
    BY DEF Init
  <2>3. proposal \in BOOLEAN
    BY DEF Init
  <2> QED BY <2>1, <2>2, <2>3 DEF RunTypes
<1>3. NoJob \in JobType /\ NoJob.status = "absent" /\ NoJob.run = NoRun /\ NoJob.name = "none"
  BY DEF NoJob, JobType, JobStatuses, JobNames
<1>4. JobTypes /\ \A j \in Jobs : job[j] = NoJob /\ work[j] = "none"
  <2> HIDE DEF NoJob, JobType
  <2> QED BY <1>1, <1>3 DEF Init, JobTypes
<1>5. ProcTypes
  BY <1>1 DEF Init, ProcTypes, Places
<1>6. TypeOK
  BY <1>2, <1>4, <1>5, TypeParts
<1>7. ProcInv
  BY <1>1 DEF Init, ProcInv
<1>8. JobInv
  <2>1. \A h \in Handlers : made[h] \notin Jobs
    BY <1>1 DEF Init
  <2> QED BY <1>3, <1>4, <2>1 DEF JobInv
<1>9. SeenInv /\ RunInv
  BY DEF Init, SeenInv, RunInv
<1>10. CompletedIsDelivered /\ RecurrenceBounded /\ EscalationIsEarned
  BY <1>1 DEF Init, CompletedIsDelivered, RecurrenceBounded, EscalationIsEarned
<1> QED BY <1>6, <1>7, <1>8, <1>9, <1>10 DEF IInv

\* Every step keeps the invariant.
LEMMA StepIInv == IInv /\ [Next]_vars => IInv'
<1> SUFFICES ASSUME IInv, [Next]_vars PROVE IInv'
  OBVIOUS
<1>1. /\ RunTypes /\ JobTypes /\ ProcTypes /\ ProcInv /\ JobInv /\ SeenInv /\ RunInv
      /\ CompletedIsDelivered /\ RecurrenceBounded /\ EscalationIsEarned
  BY TypeParts DEF IInv
<1>2. CASE Next
  <2>1. RunTypes' /\ JobTypes'
    BY <1>1, <1>2, RunTypeStep, JobStep
  <2>2. ProcTypes'
    BY <1>1, <1>2, <2>1, ProcTypeStep
  <2>3. TypeOK'
    BY <2>1, <2>2, TypeParts
  <2>4. ProcInv' /\ JobInv' /\ SeenInv' /\ RunInv'
    BY <1>1, <1>2, ProcStep, JobInvStep, SeenStep, RunInvStep
  <2>5. CompletedIsDelivered' /\ EscalationIsEarned'
    BY <1>1, <1>2, CompletedStep, EscalationStep
  <2>6. RecurrenceBounded'
    BY <1>1, <1>2, StartedStep DEF StartedChange, RecurrenceBounded
  <2> QED BY <2>3, <2>4, <2>5, <2>6 DEF IInv
<1>3. CASE UNCHANGED vars
  <2>1. UNCHANGED <<status, kind, closing, threadRun, proposal, started, delivered, job, work,
            cycle,
                    next, pc, mine, seen, found, made, writer, listed, messages>>
    BY <1>3 DEF vars, runs, jobs, procs
  <2>2. TypeOK'
    BY <2>1 DEF IInv, TypeOK
  <2>3. ProcInv' /\ JobInv' /\ RunInv'
    BY <1>1, <2>1 DEF ProcInv, JobInv, RunInv
  <2>4. \A r : CycleCount(r)' = CycleCount(r)
    BY <2>1 DEF CycleCount, JobsOf
  <2>5. SeenInv'
    BY <1>1, <2>1, <2>4 DEF SeenInv
  <2>6. CompletedIsDelivered' /\ RecurrenceBounded' /\ EscalationIsEarned'
    BY <1>1, <2>1, <2>4 DEF CompletedIsDelivered, RecurrenceBounded, EscalationIsEarned
  <2> QED BY <2>2, <2>3, <2>5, <2>6 DEF IInv
<1> QED BY <1>2, <1>3

\* The inductive invariant: types, handlers, jobs and counts of the runs with the
\* three safety properties, for any number of handlers.
THEOREM RunInvariant == Spec => []IInv
<1>1. Init => IInv
  BY InitIInv
<1>2. IInv /\ [Next]_vars => IInv'
  BY StepIInv
<1> QED BY <1>1, <1>2, PTL DEF Spec

\* Every variable keeps its type, whatever order handlers, daemon and recovery
\* take their steps in.
THEOREM RunTypesHold == Spec => []TypeOK
<1>1. IInv => TypeOK
  BY DEF IInv
<1> QED BY <1>1, RunInvariant, PTL

\* A release run announced as completed was published with everything the
\* sponsor asked for, with any number of handlers and messages in the thread.
THEOREM RunsCompleteDelivered == Spec => []CompletedIsDelivered
<1>1. IInv => CompletedIsDelivered
  BY DEF IInv
<1> QED BY <1>1, RunInvariant, PTL

\* No run is escalated before the remediation policy's limit is reached,
\* whatever its two limits are and however stale the count is that a handler
\* read before its transaction.
THEOREM EscalationsAreEarned == Spec => []EscalationIsEarned
<1>1. IInv => EscalationIsEarned
  BY DEF IInv
<1> QED BY <1>1, RunInvariant, PTL

\* No finding goes to remediation more often than the policy allows.
THEOREM RecurrenceIsBounded == Spec => []RecurrenceBounded
<1>1. IInv => RecurrenceBounded
  BY DEF IInv
<1> QED BY <1>1, RunInvariant, PTL
-----------------------------------------------------------------------------
(* What a failed preparation, packaging or publication leaves behind. *)

\* A handler that gives up a step of a release leaves the run waiting for the
\* sponsor, or with a job that is executable.
LEMMA FailureStep ==
    ASSUME IInv, NEW h \in Handlers, PreparationBlocked(h) \/ PackageFailed(h) \/ PublishFailed(h)
    PROVE  ~Inert(mine[h])'
<1>1. /\ JobTypes /\ mine[h] \in Runs /\ mine' = mine /\ status \in [Runs -> RunStatuses]
      /\ "REMEDIATION" \in JobNames /\ "PUBLICATION_RETRY" \in JobNames
      /\ {"REMEDIATION_WORK"} \in SUBSET ActionTypes /\ {"SCHEDULED_RETRY"} \in SUBSET ActionTypes
  BY DEF IInv, TypeOK, JobTypes, JobType, ProcInv, PreparationBlocked, PackageFailed,
      PublishFailed, At, Leave,
         JobNames, ActionTypes
<1>2. \/ Pause(mine[h])
      \/ \E j \in Jobs : AddWork(j, mine[h], 1, "ASSIGNED", {"REMEDIATION_WORK"})
      \/ \E j \in Jobs :
             AddJob(j, mine[h], "PUBLICATION_RETRY", "RETRY_WAIT", {"SCHEDULED_RETRY"})
  BY DEF PreparationBlocked, PackageFailed, PublishFailed, ContractGap, PreparationFailed
<1>3. \/ status'[mine[h]] = "WAITING_FOR_SPONSOR"
      \/ \E j \in Jobs : job'[j].run = mine[h] /\ job'[j].status \in ExecutableJob
  <2>1. CASE Pause(mine[h])
    BY <1>1, <2>1 DEF Pause
  <2>2. ASSUME NEW j \in Jobs, AddWork(j, mine[h], 1, "ASSIGNED", {"REMEDIATION_WORK"})
        PROVE  job'[j].run = mine[h] /\ job'[j].status \in ExecutableJob
    BY <1>1, <2>2, Adding DEF AddWork, ExecutableJob
  <2>3. ASSUME NEW j \in Jobs,
               AddJob(j, mine[h], "PUBLICATION_RETRY", "RETRY_WAIT", {"SCHEDULED_RETRY"})
        PROVE  job'[j].run = mine[h] /\ job'[j].status \in ExecutableJob
    BY <1>1, <2>3, Adding DEF ExecutableJob
  <2> QED BY <1>2, <2>1, <2>2, <2>3
<1> QED BY <1>1, <1>3 DEF Inert, Durable, JobsOf

\* A failure of the release's last three steps never leaves the run open with
\* nothing that would go on with it.
THEOREM FailuresLeaveNextAction == Spec => FailureLeavesNextAction
<1>1. IInv => [\A h \in Handlers : (PreparationBlocked(h) \/ PackageFailed(h) \/ PublishFailed(h))
                  => ~Inert(mine[h])']_vars
  BY FailureStep
<1> QED BY <1>1, RunInvariant, PTL DEF FailureLeavesNextAction
-----------------------------------------------------------------------------
(* One handler at a time: the contract of a run. *)

\* What a step does to the runs: nothing, or it moves a run that has not ended,
\* or it ends one that nothing was announced of.
Moves(r, s) ==
    /\ status[r] \notin Terminal /\ s \in {"PLANNING", "RUNNING", "WAITING_FOR_SPONSOR"}
    /\ status' = [status EXCEPT ![r] = s] /\ closing' = closing

Ends(r, s) ==
    /\ status[r] \notin Terminal \cup {"absent"} /\ closing[r] = {}
    /\ status' = [status EXCEPT ![r] = s] /\ closing' = [closing EXCEPT ![r] = {s}]

RunMove ==
    \/ UNCHANGED <<status, closing>>
    \/ \E r \in Runs, s \in {"PLANNING", "RUNNING", "WAITING_FOR_SPONSOR"} : Moves(r, s)
    \/ \E r \in Runs, s \in Terminal : Ends(r, s)

\* Every step moves or ends at most one run, and none that has ended.
LEMMA MoveStep ==
    ASSUME RunTypes, ProcTypes, ProcInv, EndInv, Next
    PROVE  RunMove
<1>a. \A h \in Handlers : (pc[h] # "idle" \/ writer = h) =>
          mine[h] \in Runs /\ status[mine[h]] \notin Terminal \cup {"absent"}
              /\ closing[mine[h]] = {}
  BY DEF ProcInv, EndInv
<1>b. proposal => threadRun \in Runs /\ status[threadRun] # "absent"
  BY DEF ProcInv, RunTypes
<1>e. /\ status \in [Runs -> RunStatuses] /\ closing \in [Runs -> SUBSET Terminal]
      /\ "PLANNING" \notin Terminal /\ "RUNNING" \notin Terminal
             /\ "WAITING_FOR_SPONSOR" \notin Terminal
      /\ "absent" \notin Terminal
      /\ "COMPLETED" \in Terminal /\ "ESCALATED" \in Terminal /\ "BLOCKED" \in Terminal
  BY DEF RunTypes, Terminal
<1>f. ASSUME UNCHANGED <<status, closing>> PROVE RunMove
  BY <1>f DEF RunMove
<1>g. ASSUME NEW r \in Runs, NEW s \in {"PLANNING", "RUNNING", "WAITING_FOR_SPONSOR"},
             status[r] \notin Terminal, status' = [status EXCEPT ![r] = s], closing' = closing
      PROVE  RunMove
  BY <1>g DEF RunMove, Moves
<1>i. ASSUME NEW r \in Runs, NEW s \in Terminal, status[r] # "absent", Close(r, s) PROVE RunMove
  <2>1. CASE closing[r] # {}
    BY <1>i, <2>1, <1>f DEF Close
  <2>2. CASE closing[r] = {}
    BY <1>i, <2>2 DEF Close, EndInv, RunMove, Ends
  <2> QED BY <2>1, <2>2
<1>1. ASSUME NEW h \in Handlers,
             \/ Submit(h) \/ Plan(h) \/ QaGate(h)
             \/ RemediationCycle(h) \/ AssertNextAction(h) \/ Prepare(h)
             \/ Package(h) \/ PackageFailed(h) \/ PublishFailed(h)
             \/ Raise(h) \/ CloseRead(h) \/ Die(h)
      PROVE  RunMove
  BY <1>1, <1>f
      DEF Submit, runs, Plan, QaGate, RemediationCycle, AssertNextAction, Prepare, Package,
          PackageFailed, PublishFailed, Raise, CloseRead, Die
<1>2. ASSUME
             \/ (\E j \in Jobs : StartJob(j)) \/ (\E j \in Jobs : Requeue(j))
                    \/ (\E j \in Jobs : ReadinessRetry(j))
             \/ (\E j \in Jobs, s \in {"SUCCEEDED", "BLOCKED", "RETRY_WAIT"} : EndJob(j, s))
                    \/ RecoverList \/ (\E r \in Runs : Recover(r))
      PROVE  RunMove
  BY <1>2, <1>f DEF StartJob, runs, Requeue, ReadinessRetry, EndJob, RecoverList, Recover
<1>3. ASSUME NEW h \in Handlers, NEW r \in Runs, AcceptRelease(h, r) PROVE RunMove
  <2>1. /\ status[r] \notin Terminal /\ closing' = closing
        /\ status' = [status EXCEPT ![r] = "PLANNING"]
    BY <1>3, <1>e DEF AcceptRelease, NewRun, Message
  <2> QED BY <2>1, <1>g
<1>4. ASSUME NEW h \in Handlers, NEW r \in Runs, AcceptAuthorizedWork(h, r) PROVE RunMove
  <2>1. /\ status[r] \notin Terminal /\ closing' = closing
        /\ status' = [status EXCEPT ![r] = "PLANNING"]
    BY <1>4, <1>e DEF AcceptAuthorizedWork, NewRun, Message
  <2> QED BY <2>1, <1>g
<1>5. ASSUME NEW h \in Handlers, NEW r \in Runs, AcceptWork(h, r) PROVE RunMove
  <2>1. /\ status[r] \notin Terminal /\ closing' = closing
        /\ status' = [status EXCEPT ![r] = "WAITING_FOR_SPONSOR"]
    BY <1>5, <1>e DEF AcceptWork, NewRun, Message
  <2> QED BY <2>1, <1>g
<1>6. ASSUME NEW h \in Handlers, NEW k \in Requests, Directive(h, k) PROVE RunMove
  <2>1. /\ threadRun \in Runs /\ status[threadRun] \notin Terminal /\ closing' = closing
        /\ status' = [status EXCEPT ![threadRun] =
                          IF @ = "WAITING_FOR_SPONSOR" THEN "RUNNING" ELSE @]
    BY <1>6 DEF Directive, Message, ActiveRun, RunTypes
  <2>2. CASE status[threadRun] = "WAITING_FOR_SPONSOR"
    BY <1>e, <1>g, <2>1, <2>2
  <2>3. CASE status[threadRun] # "WAITING_FOR_SPONSOR"
    BY <1>e, <1>f, <2>1, <2>3
  <2> QED BY <2>2, <2>3
<1>7. ASSUME NEW h \in Handlers, ApproveProposal(h) PROVE RunMove
  <2>1. threadRun \in Runs /\ status[threadRun] # "absent"
    BY <1>7, <1>a, <1>b DEF ApproveProposal, At
  <2>2. UNCHANGED <<status, closing>> \/ Close(threadRun, "COMPLETED")
    BY <1>7 DEF ApproveProposal
  <2> QED BY <2>1, <2>2, <1>e, <1>f, <1>i
<1>8. ASSUME NEW h \in Handlers, SubmitRefused(h) PROVE RunMove
  <2>1. mine[h] \in Runs /\ status[mine[h]] \notin Terminal /\ closing' = closing
    BY <1>8, <1>a DEF SubmitRefused, At
  <2>2. \/ status' = [status EXCEPT ![mine[h]] = "WAITING_FOR_SPONSOR"]
        \/ status' = [status EXCEPT ![mine[h]] = "RUNNING"]
    BY <1>8 DEF SubmitRefused, Pause, Recovery
  <2> QED BY <2>1, <2>2, <1>g
<1>9. ASSUME NEW h \in Handlers, PlanAsks(h) PROVE RunMove
  <2>1. /\ mine[h] \in Runs /\ status[mine[h]] \notin Terminal /\ closing' = closing
        /\ status' = [status EXCEPT ![mine[h]] = "WAITING_FOR_SPONSOR"]
    BY <1>9, <1>a DEF PlanAsks, At, Pause
  <2> QED BY <2>1, <1>g
<1>10. ASSUME NEW h \in Handlers, Tag(h) PROVE RunMove
  <2>1. /\ mine[h] \in Runs /\ status[mine[h]] \notin Terminal /\ closing' = closing
        /\ status' = [status EXCEPT ![mine[h]] = "RUNNING"]
    BY <1>10, <1>a DEF Tag, At
  <2> QED BY <2>1, <1>g
<1>11. ASSUME NEW h \in Handlers, Preview(h) PROVE RunMove
  <2>1. /\ mine[h] \in Runs /\ status[mine[h]] \notin Terminal /\ closing' = closing
        /\ status' = [status EXCEPT ![mine[h]] = "WAITING_FOR_SPONSOR"]
    BY <1>11, <1>a DEF Preview, At, Pause
  <2> QED BY <2>1, <1>g
<1>12. ASSUME NEW h \in Handlers, QaExhausted(h) PROVE RunMove
  <2>1. mine[h] \in Runs /\ status[mine[h]] # "absent"
    BY <1>12, <1>a, <1>b DEF QaExhausted, At
  <2>2. UNCHANGED <<status, closing>> \/ Close(mine[h], "ESCALATED")
    BY <1>12 DEF QaExhausted
  <2> QED BY <2>1, <2>2, <1>e, <1>f, <1>i
<1>13. ASSUME NEW h \in Handlers, Escalate(h) PROVE RunMove
  <2>1. mine[h] \in Runs /\ status[mine[h]] # "absent"
    BY <1>13, <1>a, <1>b DEF Escalate, At
  <2>2. UNCHANGED <<status, closing>> \/ Close(mine[h], "ESCALATED")
    BY <1>13 DEF Escalate
  <2> QED BY <2>1, <2>2, <1>e, <1>f, <1>i
<1>14. ASSUME NEW h \in Handlers, PreparationBlocked(h) PROVE RunMove
  <2>1. mine[h] \in Runs /\ status[mine[h]] \notin Terminal /\ closing' = closing
    BY <1>14, <1>a DEF PreparationBlocked, At
  <2>2. \/ status' = [status EXCEPT ![mine[h]] = "WAITING_FOR_SPONSOR"]
        \/ status' = status
    BY <1>14 DEF PreparationBlocked, ContractGap, PreparationFailed, Pause
  <2> QED BY <2>1, <2>2, <1>f, <1>g
<1>15. ASSUME NEW h \in Handlers, CapabilityGap(h) PROVE RunMove
  <2>1. /\ mine[h] \in Runs /\ status[mine[h]] \notin Terminal /\ closing' = closing
        /\ status' = [status EXCEPT ![mine[h]] = "WAITING_FOR_SPONSOR"]
    BY <1>15, <1>a DEF CapabilityGap, At, Pause
  <2> QED BY <2>1, <1>g
<1>16. ASSUME NEW h \in Handlers, Publish(h) PROVE RunMove
  <2>1. mine[h] \in Runs /\ status[mine[h]] # "absent"
    BY <1>16, <1>a, <1>b DEF Publish, At
  <2>2. UNCHANGED <<status, closing>> \/ Close(mine[h], "COMPLETED")
    BY <1>16 DEF Publish, CloseAfterEvent
  <2> QED BY <2>1, <2>2, <1>e, <1>f, <1>i
<1>17. ASSUME NEW h \in Handlers, CloseWrite(h) PROVE RunMove
  <2>1. mine[h] \in Runs /\ status[mine[h]] \notin Terminal \cup {"absent"}
            /\ closing[mine[h]] = {}
    BY <1>17, <1>a DEF CloseWrite, At
  <2>2. /\ status' = [status EXCEPT ![mine[h]] = "BLOCKED"]
        /\ closing' = [closing EXCEPT ![mine[h]] = {"BLOCKED"}]
    BY <1>17, <2>1 DEF CloseWrite
  <2>3. Ends(mine[h], "BLOCKED")
    BY <2>1, <2>2 DEF Ends
  <2> QED BY <1>e, <2>1, <2>3 DEF RunMove
<1> QED BY <1>1, <1>2, <1>3, <1>4, <1>5, <1>6, <1>7, <1>8, <1>9, <1>10, <1>11, <1>12, <1>13,
    <1>14, <1>15, <1>16, <1>17
    DEF Next, Accept, AcceptHandoff, Work, Orchestrate, Daemon

\* The part of EndInv about handlers.
AtWork == \A h \in Handlers : pc[h] # "idle" => status[mine[h]] \notin Terminal

\* The one handler does not go on with a run that has ended.
LEMMA AtWorkStep ==
    ASSUME OneHandler, RunTypes, ProcTypes, ProcInv, EndInv, Next
    PROVE  AtWork'
<1>a. /\ pc \in [Handlers -> Places] /\ mine \in [Handlers -> Runs \cup {NoRun}]
      /\ writer \in Handlers \cup {NoOne} /\ NoOne \notin Handlers
  BY HandlersAssumption DEF ProcTypes
<1>b. \A g \in Handlers : g \in Handlers => mine[g] \in Runs \/ pc[g] = "idle"
  BY DEF ProcInv
<1>c. \A g, h \in Handlers : g = h
  BY DEF OneHandler
<1>d. \A h \in Handlers : pc[h] # "idle" => status[mine[h]] \notin Terminal
  BY DEF EndInv
<1>e. /\ status \in [Runs -> RunStatuses]
      /\ "PLANNING" \notin Terminal /\ "RUNNING" \notin Terminal
             /\ "WAITING_FOR_SPONSOR" \notin Terminal
  BY DEF RunTypes, Terminal
<1>f. ASSUME NEW h \in Handlers, pc'[h] = "idle" PROVE AtWork'
  BY <1>c, <1>f DEF AtWork
<1>g. ASSUME NEW h \in Handlers, pc[h] # "idle", mine' = mine, status' = status PROVE AtWork'
  BY <1>c, <1>d, <1>g DEF AtWork
<1>i. ASSUME UNCHANGED <<status, pc, mine>> PROVE AtWork'
  BY <1>d, <1>i DEF AtWork
<1>1. ASSUME
             \/ (\E j \in Jobs : StartJob(j)) \/ (\E j \in Jobs : Requeue(j))
                    \/ (\E j \in Jobs : ReadinessRetry(j))
             \/ (\E j \in Jobs, s \in {"SUCCEEDED", "BLOCKED", "RETRY_WAIT"} : EndJob(j, s))
                    \/ RecoverList \/ (\E r \in Runs : Recover(r))
      PROVE  AtWork'
  BY <1>1, <1>i
      DEF StartJob, runs, procs, Requeue, ReadinessRetry, EndJob, RecoverList, Recover
<1>2. ASSUME NEW h \in Handlers, NEW r \in Runs, AcceptRelease(h, r) PROVE AtWork'
  <2>1. /\ mine'[h] = r /\ status'[r] = "PLANNING"
    BY <1>2, <1>a, <1>e DEF AcceptRelease, NewRun, Message
  <2> QED BY <2>1, <1>c, <1>e DEF AtWork
<1>3. ASSUME NEW h \in Handlers, NEW r \in Runs, AcceptAuthorizedWork(h, r) PROVE AtWork'
  <2>1. /\ mine'[h] = r /\ status'[r] = "PLANNING"
    BY <1>3, <1>a, <1>e DEF AcceptAuthorizedWork, NewRun, Message
  <2> QED BY <2>1, <1>c, <1>e DEF AtWork
<1>4. ASSUME NEW h \in Handlers, NEW r \in Runs, AcceptWork(h, r) PROVE AtWork'
  <2>1. /\ mine'[h] = r /\ status'[r] = "WAITING_FOR_SPONSOR"
    BY <1>4, <1>a, <1>e DEF AcceptWork, NewRun, Message
  <2> QED BY <2>1, <1>c, <1>e DEF AtWork
<1>5. ASSUME NEW h \in Handlers, NEW k \in Requests, Directive(h, k) PROVE AtWork'
  <2>1. /\ threadRun \in Runs /\ status[threadRun] \notin Terminal /\ mine'[h] = threadRun
        /\ status' = [status EXCEPT ![threadRun] =
                          IF @ = "WAITING_FOR_SPONSOR" THEN "RUNNING" ELSE @]
    BY <1>5, <1>a DEF Directive, ActiveRun, RunTypes
  <2>2. status'[threadRun] \notin Terminal
    BY <1>e, <2>1
  <2> QED BY <2>1, <2>2, <1>c DEF AtWork
<1>6. ASSUME NEW h \in Handlers, ApproveProposal(h) PROVE AtWork'
  <2>1. pc'[h] = "idle"
    BY <1>6 DEF ApproveProposal, At, procs
  <2> QED BY <2>1, <1>f
<1>7. ASSUME NEW h \in Handlers, SubmitRefused(h) PROVE AtWork'
  <2>1. pc'[h] = "idle"
    BY <1>7, <1>a DEF SubmitRefused, Leave, Go
  <2> QED BY <2>1, <1>f
<1>8. ASSUME NEW h \in Handlers, Submit(h) PROVE AtWork'
  <2>1. pc[h] # "idle" /\ mine' = mine /\ status' = status
    BY <1>8 DEF Submit, Go, At, runs
  <2> QED BY <2>1, <1>g
<1>9. ASSUME NEW h \in Handlers, PlanAsks(h) PROVE AtWork'
  <2>1. pc'[h] = "idle"
    BY <1>9, <1>a DEF PlanAsks, Leave, Go
  <2> QED BY <2>1, <1>f
<1>10. ASSUME NEW h \in Handlers, Tag(h) PROVE AtWork'
  <2>1. pc'[h] = "idle"
    BY <1>10, <1>a DEF Tag, Leave, Go
  <2> QED BY <2>1, <1>f
<1>11. ASSUME NEW h \in Handlers, Preview(h) PROVE AtWork'
  <2>1. pc'[h] = "idle"
    BY <1>11, <1>a DEF Preview, Leave, Go
  <2> QED BY <2>1, <1>f
<1>12. ASSUME NEW h \in Handlers, Plan(h) PROVE AtWork'
  <2>1. pc[h] # "idle" /\ mine' = mine /\ status' = status
    BY <1>12 DEF Plan, Go, At, runs
  <2> QED BY <2>1, <1>g
<1>13. ASSUME NEW h \in Handlers, QaGate(h) PROVE AtWork'
  <2>1. pc[h] # "idle" /\ mine' = mine /\ status' = status
    BY <1>13 DEF QaGate, Go, At, runs
  <2> QED BY <2>1, <1>g
<1>14. ASSUME NEW h \in Handlers, QaExhausted(h) PROVE AtWork'
  <2>1. CASE status' = status
    BY <1>14, <1>g, <2>1 DEF QaExhausted, At, Stay
  <2>2. CASE Go(h, "idle")
    BY <1>14, <1>a, <1>f, <2>2 DEF Go
  <2> QED BY <1>14, <2>1, <2>2 DEF QaExhausted
<1>15. ASSUME NEW h \in Handlers, RemediationCycle(h) PROVE AtWork'
  BY <1>15, <1>i DEF RemediationCycle
<1>16. ASSUME NEW h \in Handlers, Escalate(h) PROVE AtWork'
  <2>1. pc'[h] = "idle"
    BY <1>16, <1>a DEF Escalate, Go
  <2> QED BY <2>1, <1>f
<1>17. ASSUME NEW h \in Handlers, AssertNextAction(h) PROVE AtWork'
  <2>1. pc'[h] = "idle"
    BY <1>17, <1>a DEF AssertNextAction, Leave, Go
  <2> QED BY <2>1, <1>f
<1>18. ASSUME NEW h \in Handlers, Prepare(h) PROVE AtWork'
  <2>1. pc[h] # "idle" /\ mine' = mine /\ status' = status
    BY <1>18 DEF Prepare, Move, Go, Stay, At, runs
  <2> QED BY <2>1, <1>g
<1>19. ASSUME NEW h \in Handlers, PreparationBlocked(h) PROVE AtWork'
  <2>1. pc'[h] = "idle"
    BY <1>19, <1>a DEF PreparationBlocked, Leave, Go
  <2> QED BY <2>1, <1>f
<1>20. ASSUME NEW h \in Handlers, Package(h) PROVE AtWork'
  <2>1. pc[h] # "idle" /\ mine' = mine /\ status' = status
    BY <1>20 DEF Package, Move, Go, Stay, At, runs
  <2> QED BY <2>1, <1>g
<1>21. ASSUME NEW h \in Handlers, CapabilityGap(h) PROVE AtWork'
  <2>1. pc'[h] = "idle"
    BY <1>21, <1>a DEF CapabilityGap, Leave, Go
  <2> QED BY <2>1, <1>f
<1>22. ASSUME NEW h \in Handlers, PackageFailed(h) PROVE AtWork'
  <2>1. pc'[h] = "idle"
    BY <1>22, <1>a DEF PackageFailed, Leave, Go
  <2> QED BY <2>1, <1>f
<1>23. ASSUME NEW h \in Handlers, Publish(h) PROVE AtWork'
  <2>1. pc'[h] = "idle"
    BY <1>23, <1>a DEF Publish, Leave, Go
  <2> QED BY <2>1, <1>f
<1>24. ASSUME NEW h \in Handlers, PublishFailed(h) PROVE AtWork'
  <2>1. pc'[h] = "idle"
    BY <1>24, <1>a DEF PublishFailed, Leave, Go
  <2> QED BY <2>1, <1>f
<1>25. ASSUME NEW h \in Handlers, Raise(h) PROVE AtWork'
  <2>1. pc[h] # "idle" /\ mine' = mine /\ status' = status
    BY <1>25 DEF Raise, Move, Go, Stay, runs
  <2> QED BY <2>1, <1>g
<1>26. ASSUME NEW h \in Handlers, CloseRead(h) PROVE AtWork'
  <2>1. pc[h] # "idle" /\ mine' = mine /\ status' = status
    BY <1>26 DEF CloseRead, Move, Go, Stay, At, runs
  <2> QED BY <2>1, <1>g
<1>27. ASSUME NEW h \in Handlers, CloseWrite(h) PROVE AtWork'
  <2>1. pc'[h] = "idle"
    BY <1>27, <1>a DEF CloseWrite, Leave, Go
  <2> QED BY <2>1, <1>f
<1>28. ASSUME NEW h \in Handlers, Die(h) PROVE AtWork'
  <2>1. pc'[h] = "idle"
    BY <1>28, <1>a DEF Die, Leave, Go
  <2> QED BY <2>1, <1>f
<1> QED BY <1>1, <1>2, <1>3, <1>4, <1>5, <1>6, <1>7, <1>8, <1>9, <1>10, <1>11, <1>12, <1>13,
    <1>14, <1>15, <1>16, <1>17, <1>18, <1>19, <1>20, <1>21, <1>22, <1>23, <1>24, <1>25, <1>26,
    <1>27, <1>28
    DEF Next, Accept, AcceptHandoff, Work, Orchestrate, Daemon

\* With one handler every step keeps EndInv.
LEMMA EndStep ==
    ASSUME OneHandler, IInv, EndInv, [Next]_vars
    PROVE  EndInv' /\ RunMove
<1>1. RunTypes /\ ProcTypes /\ ProcInv
  BY TypeParts DEF IInv
<1>2. RunMove /\ AtWork'
  <2>1. CASE Next
    BY <1>1, <2>1, MoveStep, AtWorkStep
  <2>2. CASE UNCHANGED vars
    BY <2>2 DEF vars, runs, procs, RunMove, AtWork, EndInv
  <2> QED BY <2>1, <2>2
<1>3. \A r \in Runs : closing'[r] # {} <=> status'[r] \in Terminal
  <2>1. status \in [Runs -> RunStatuses] /\ closing \in [Runs -> SUBSET Terminal]
    BY <1>1 DEF RunTypes
  <2>2. \A r \in Runs : closing[r] # {} <=> status[r] \in Terminal
    BY DEF EndInv
  <2>3. CASE UNCHANGED <<status, closing>>
    BY <2>2, <2>3
  <2>4. ASSUME NEW r \in Runs, NEW s \in {"PLANNING", "RUNNING", "WAITING_FOR_SPONSOR"},
               Moves(r, s)
        PROVE  \A q \in Runs : closing'[q] # {} <=> status'[q] \in Terminal
    <3>1. s \notin Terminal
      BY DEF Terminal
    <3> QED BY <2>1, <2>2, <2>4, <3>1 DEF Moves
  <2>5. ASSUME NEW r \in Runs, NEW s \in Terminal, Ends(r, s)
        PROVE  \A q \in Runs : closing'[q] # {} <=> status'[q] \in Terminal
    BY <2>1, <2>2, <2>5 DEF Ends
  <2> QED BY <1>2, <2>3, <2>4, <2>5 DEF RunMove
<1> QED BY <1>2, <1>3 DEF EndInv, AtWork

\* The first state of the runs is the first state of the contract.
LEMMA ContractInit == Init => Contract!Init /\ EndInv
<1> SUFFICES ASSUME Init PROVE Contract!Init /\ EndInv
  OBVIOUS
<1>1. Contracted = [r \in Runs |-> "absent"]
  BY DEF Init, Contracted
<1>2. EndInv
  BY DEF Init, EndInv, Terminal
<1> QED BY <1>1, <1>2 DEF Init, Contract!Init

\* Moving or ending one run is a step of the contract or none.
LEMMA ContractStep ==
    ASSUME IInv, RunMove
    PROVE  [Contract!Next]_Contract!vars
<1>1. status \in [Runs -> RunStatuses] /\ closing \in [Runs -> SUBSET Terminal]
  BY DEF IInv, TypeOK
<1>2. \A r \in Runs : /\ status[r] = "absent" => Contracted[r] = "absent"
                      /\ status[r] \notin Terminal \cup {"absent"}
                             => Contracted[r] \in {"open", "asking"}
  BY <1>1 DEF Contracted, RunStatuses, Terminal
<1>3. ASSUME NEW r \in Runs, NEW s, status' = [status EXCEPT ![r] = s], NEW o,
             s \in {"PLANNING", "RUNNING"} => o = "open", s = "WAITING_FOR_SPONSOR"
                 => o = "asking",
             s \in Terminal => o = s, s \in RunStatuses \ {"absent"}
      PROVE  Contracted' = [Contracted EXCEPT ![r] = o]
  BY <1>1, <1>3 DEF Contracted, RunStatuses, Terminal
<1>4. CASE UNCHANGED <<status, closing>>
  BY <1>4 DEF Contract!vars, Contracted
<1>5. ASSUME NEW r \in Runs, NEW s \in {"PLANNING", "RUNNING", "WAITING_FOR_SPONSOR"}, Moves(r, s)
      PROVE  Contract!Next
  <2> DEFINE o == IF s = "WAITING_FOR_SPONSOR" THEN "asking" ELSE "open"
  <2>1. /\ s \in RunStatuses \ {"absent"} /\ s \notin Terminal
        /\ s \in {"PLANNING", "RUNNING"} => o = "open"
        /\ s = "WAITING_FOR_SPONSOR" => o = "asking"
        /\ o \in {"open", "asking"}
    BY DEF RunStatuses, Terminal
  <2> HIDE DEF o
  <2>2. Contracted' = [Contracted EXCEPT ![r] = o] /\ closing' = closing
    BY <1>3, <1>5, <2>1 DEF Moves
  <2>3. Contracted[r] \in {"absent", "open", "asking"}
    BY <1>2, <1>5 DEF Moves
  <2>4. CASE Contracted[r] = "absent"
    BY <2>1, <2>2, <2>4 DEF Contract!Next, Contract!Open
  <2>5. CASE Contracted[r] # "absent"
    BY <2>1, <2>2, <2>3, <2>5 DEF Contract!Next, Contract!Ask, Contract!GoOn, Contract!Active
  <2> QED BY <2>4, <2>5
<1>6. ASSUME NEW r \in Runs, NEW s \in Terminal, Ends(r, s)
      PROVE  Contract!Next
  <2>1. s \in RunStatuses \ {"absent"} /\ s \notin {"PLANNING", "RUNNING", "WAITING_FOR_SPONSOR"}
    BY DEF RunStatuses, Terminal
  <2>2. Contracted' = [Contracted EXCEPT ![r] = s]
    BY <1>3, <1>6, <2>1 DEF Ends
  <2>3. Contracted[r] \in {"open", "asking"} /\ closing[r] = {}
            /\ closing' = [closing EXCEPT ![r] = {s}]
    BY <1>2, <1>6 DEF Ends
  <2> QED BY <2>2, <2>3 DEF Contract!Next, Contract!Close, Contract!Active
<1> QED BY <1>4, <1>5, <1>6 DEF RunMove

\* With one handler at a time - messages of the thread that do not overlap -
\* runs implement RunContract: a run is opened once, closed once with one
\* announcement, and neither daemon, recovery, directives nor a late failure
\* moves it afterwards.
THEOREM RunsKeepContract == ASSUME OneHandler PROVE Spec => KeepsContract
<1>1. Init => Contract!Init /\ EndInv
  BY ContractInit
<1>2. IInv /\ EndInv /\ [Next]_vars => EndInv' /\ RunMove
  BY EndStep
<1>3. IInv /\ RunMove => [Contract!Next]_Contract!vars
  BY ContractStep
<1> QED BY <1>1, <1>2, <1>3, RunInvariant, PTL DEF Spec, KeepsContract, Contract!Spec
=============================================================================
