----------------------------- MODULE ReleaseGate -----------------------------
(***************************************************************************)
(* From a delivery to the release gate (qa_handoff.py, qa_gate.py,           *)
(* qa_manager.py, qa_inconclusive.py, release_provenance.py,                 *)
(* release_readiness.py and the third phase of worker.py).                   *)
(*                                                                           *)
(* One story of an iteration: its DELIVERY job and the rework that an        *)
(* operator may order, the assurance jobs of each with their qa_evidence,    *)
(* the INTEGRATION job that depends on the delivery and the RELEASE job that *)
(* depends on the integration.  A row stands for an assurance job together   *)
(* with its qa_evidence row: both are made in one transaction.               *)
(*                                                                           *)
(* How jobs are leased is JobQueue's matter.  What it leaves open is kept:   *)
(* a job may be recovered while its worker still executes it, so that it is  *)
(* executed again and both executions commit; "execs" counts those in        *)
(* flight.  INTEGRATION and RELEASE are executed by one worker at a time.    *)
(* RETRY_WAIT is part of READY here.                                         *)
(***************************************************************************)
EXTENDS Integers, Sequences, FiniteSets

CONSTANTS
    Roles,             \* REQUIRED_ASSURANCE
    Candidates,        \* the commits that executions of DELIVERY leave
    NoCandidate,       \* none, or the base that the worktree started from
    RowBound,          \* bound on the rows
    ReworkCandidates,  \* those of the rework; without any it is never ordered
    RerunBound         \* bound on the jobs given to another execution

ASSUME GateAssumption ==
    /\ NoCandidate \notin Candidates
    /\ IsFiniteSet(Roles) /\ "QA_MANAGER" \notin Roles
    /\ ReworkCandidates \subseteq Candidates
    /\ RowBound \in Nat /\ RerunBound \in Nat

VARIABLES
    delivery,      \* the DELIVERY jobs
    rows,          \* assurance jobs with their qa_evidence, in order of their ids
    integration,   \* the INTEGRATION job
    release,       \* the RELEASE job, the newest of its successors
    prepared,      \* candidates that prepare_release accepted
    reruns         \* how often a job was given to another execution

vars == <<delivery, rows, integration, release, prepared, reruns>>

Deliveries == {"first", "rework"}
Manager == "QA_MANAGER"
Results == {"pending", "pass", "fail", "inconclusive", "stale_rejected"}
TerminalResults == Results \ {"pending"}
Statuses == {"ABSENT", "QUEUED", "READY", "RUNNING", "SUCCEEDED", "FAILED",
             "BLOCKED", "CANCELLED"}
Outcomes == {"none", "NO_CHANGE", "INVALIDATED"}
Candidate == Candidates \cup {NoCandidate}

\* prior is the row whose retry this one is, 0 for none.
Row == [delivery : Deliveries, role : Roles \cup {Manager}, cand : Candidates,
        prior : 0..RowBound, status : Statuses, execs : Nat, result : Results]

\* merged tells what the integrated commit holds: the candidate of the
\* integration's predecessor when the integration was started; record is the
\* commit of the release record that projectctl keeps.
TypeOK ==
    /\ delivery \in [Deliveries -> [status : Statuses, outcome : Outcomes,
                                     cand : Candidate, execs : Nat]]
    /\ rows \in Seq(Row) /\ Len(rows) <= RowBound
    /\ integration \in [status : Statuses, needs : Deliveries, merged : Candidate]
    /\ release \in [status : Statuses, bound : Candidate,
                    gate : {"none", "approved", "rejected"}, record : Candidate]
    /\ prepared \subseteq Candidates
    /\ reruns \in 0..RerunBound

Job(status) == [status |-> status, outcome |-> "none", cand |-> NoCandidate, execs |-> 0]

\* run_plan creates RELEASE as QUEUED and everything else as READY.
Init ==
    /\ delivery = [d \in Deliveries |-> Job(IF d = "first" THEN "READY" ELSE "ABSENT")]
    /\ rows = <<>>
    /\ integration = [status |-> "READY", needs |-> "first", merged |-> NoCandidate]
    /\ release = [status |-> "QUEUED", bound |-> NoCandidate, gate |-> "none",
                   record |-> NoCandidate]
    /\ prepared = {}
    /\ reruns = 0
-----------------------------------------------------------------------------
(* What the gates read. *)

\* job_satisfies_dependency
Satisfies(job) == job.status = "SUCCEEDED" /\ job.outcome = "none"

RowsOf(d, c, roles) ==
    {i \in DOMAIN rows : rows[i].delivery = d /\ rows[i].cand = c /\ rows[i].role \in roles}

\* The result that is left for a role in a dict filled row by row: the last.
LastResult(d, c, role) ==
    LET mine == RowsOf(d, c, {role}) IN
    IF mine = {} THEN "pending"
    ELSE rows[CHOOSE i \in mine : \A k \in mine : k <= i].result

\* The job <delivery>__QA_MANAGER; a retry of it has another name.
ManagerSucceeded(d) ==
    \E i \in DOMAIN rows : /\ rows[i].delivery = d /\ rows[i].role = Manager
                           /\ rows[i].prior = 0 /\ rows[i].status = "SUCCEEDED"

\* Mutant of DeliveryQaPassed: the manager's success is enough.
DeliveryQaManaged(d) == delivery[d].cand # NoCandidate /\ ManagerSucceeded(d)

DeliveryQaPassed(d) ==
    /\ delivery[d].cand # NoCandidate
    /\ \A role \in Roles : LastResult(d, delivery[d].cand, role) = "pass"
    /\ ManagerSucceeded(d)

IntegrationQaGatesSatisfied ==
    Satisfies(delivery[integration.needs]) /\ DeliveryQaPassed(integration.needs)

ReleasePrerequisitesMet == integration.status = "SUCCEEDED" /\ IntegrationQaGatesSatisfied

\* collect_qa_gate_facts over the rows of one candidate.
Gate(c) ==
    LET results == {rows[i].result : i \in {k \in DOMAIN rows : rows[k].cand = c}} IN
    CASE results \cap {"fail", "stale_rejected"} # {} -> "FAILED"
      [] "inconclusive" \in results -> "INCONCLUSIVE"
      [] results = {"pass"} -> "PASSED"
      [] OTHER -> "PENDING"

\* The aggregate of the assessors' rows, never of the manager's own.
AggregateGateResult(d, c) ==
    LET results == {rows[i].result : i \in RowsOf(d, c, Roles)} IN
    CASE results \cap {"fail", "stale_rejected"} # {} -> "fail"
      [] "inconclusive" \in results -> "inconclusive"
      [] results = {"pass"} -> "pass"
      [] OTHER -> "pending"
-----------------------------------------------------------------------------
(* The worker: start, death, failure and recovery of an execution. *)

Started(job) == [job EXCEPT !.status = "RUNNING", !.execs = @ + 1]
Ended(job, status) == [job EXCEPT !.status = status, !.execs = @ - 1]
\* The transaction is rolled back, or the worker dies before it.
Lost(job) == [job EXCEPT !.execs = @ - 1]

StartDelivery(d) ==
    /\ delivery[d].status = "READY"
    /\ delivery' = [delivery EXCEPT ![d] = Started(@)]
    /\ UNCHANGED <<rows, integration, release, prepared, reruns>>

DeliveryFails(d) ==
    /\ delivery[d].execs > 0
    /\ \/ delivery' = [delivery EXCEPT ![d] = Lost(@)]
       \/ \E s \in {"FAILED", "BLOCKED"} : delivery' = [delivery EXCEPT ![d] = Ended(@, s)]
    /\ UNCHANGED <<rows, integration, release, prepared, reruns>>

RetryDelivery(d) ==
    /\ delivery[d].execs > 0 /\ reruns < RerunBound
    /\ delivery' = [delivery EXCEPT ![d] = Ended(@, "READY")]
    /\ reruns' = reruns + 1
    /\ UNCHANGED <<rows, integration, release, prepared>>

RecoverDelivery(d) ==
    /\ delivery[d].status = "RUNNING" /\ reruns < RerunBound
    /\ delivery' = [delivery EXCEPT ![d].status = "READY"]
    /\ reruns' = reruns + 1
    /\ UNCHANGED <<rows, integration, release, prepared>>

\* The edges of orchestration_job_dependencies: an assessor needs its delivery,
\* the manager the assessors made with it, a retry only the row it repeats.
DependenciesSatisfied(i) ==
    LET row == rows[i] IN
    CASE row.prior # 0 -> rows[row.prior].status = "SUCCEEDED"
      [] row.prior = 0 /\ row.role = Manager ->
            \A k \in RowsOf(row.delivery, row.cand, Roles) :
                rows[k].prior = 0 => rows[k].status = "SUCCEEDED"
      [] OTHER -> Satisfies(delivery[row.delivery])

StartRow(i) ==
    /\ rows[i].status = "READY" /\ DependenciesSatisfied(i)
    /\ rows' = [rows EXCEPT ![i] = Started(@)]
    /\ UNCHANGED <<delivery, integration, release, prepared, reruns>>

RowFails(i) ==
    /\ rows[i].execs > 0
    /\ \/ rows' = [rows EXCEPT ![i] = Lost(@)]
       \/ rows' = [rows EXCEPT ![i] = Ended(@, "FAILED")]
    /\ UNCHANGED <<delivery, integration, release, prepared, reruns>>

RetryRow(i) ==
    /\ rows[i].execs > 0 /\ reruns < RerunBound
    /\ rows' = [rows EXCEPT ![i] = Ended(@, "READY")]
    /\ reruns' = reruns + 1
    /\ UNCHANGED <<delivery, integration, release, prepared>>

RecoverRow(i) ==
    /\ rows[i].status = "RUNNING" /\ reruns < RerunBound
    /\ rows' = [rows EXCEPT ![i].status = "READY"]
    /\ reruns' = reruns + 1
    /\ UNCHANGED <<delivery, integration, release, prepared>>
-----------------------------------------------------------------------------
(* A delivery succeeds. *)

\* Mutant of NewRow: the candidate is read from the job before its success.
NewRowOfJob(d, role, c, prior) ==
    [delivery |-> d, role |-> role, cand |-> delivery[d].cand, prior |-> prior,
     status |-> "READY", execs |-> 0, result |-> "pending"]

NewRow(d, role, c, prior) ==
    [delivery |-> d, role |-> role, cand |-> c, prior |-> prior, status |-> "READY",
     execs |-> 0, result |-> "pending"]

\* create_assurance_jobs_for_delivery: the assessors, then the manager.
Handoff(d, c, order) ==
    [k \in 1..Cardinality(Roles) |-> NewRow(d, order[k], c, 0)]
        \o <<NewRow(d, Manager, c, 0)>>

\* Mutant of HandoffDue: every success is handed off.
HandoffAlways(d) == TRUE

\* maybe_handoff_after_delivery: only a delivery without evidence.
HandoffDue(d) == \A i \in DOMAIN rows : rows[i].delivery # d

\* The order in which REQUIRED_ASSURANCE lists its roles does not matter.
RoleOrder == CHOOSE order \in [1..Cardinality(Roles) -> Roles] :
                \A role \in Roles : \E k \in DOMAIN order : order[k] = role

\* Commits of different jobs differ, those of one job may not.
CandidatesOf(d) ==
    IF d = "rework" THEN ReworkCandidates ELSE Candidates \ ReworkCandidates

DeliverySucceeds(d, c) ==
    LET job == [Ended(delivery[d], "SUCCEEDED") EXCEPT !.cand = c]
        due == Satisfies(job) /\ HandoffDue(d)
    IN
    /\ delivery[d].execs > 0 /\ c \in CandidatesOf(d)
    /\ due => Len(rows) + Cardinality(Roles) < RowBound
    /\ delivery' = [delivery EXCEPT ![d] = job]
    /\ rows' = IF due THEN rows \o Handoff(d, c, RoleOrder) ELSE rows
    /\ UNCHANGED <<integration, release, prepared, reruns>>

\* The candidate is the base and the output says OUTCOME: NO_CHANGE: no handoff.
DeliveryUnchanged(d) ==
    /\ delivery[d].execs > 0
    /\ delivery' = [delivery EXCEPT ![d] = [Ended(@, "SUCCEEDED") EXCEPT
                                               !.outcome = "NO_CHANGE",
                                               !.cand = NoCandidate]]
    /\ UNCHANGED <<rows, integration, release, prepared, reruns>>
-----------------------------------------------------------------------------
(* Assurance. *)

\* Mutant of Recordable: the last verdict counts.
RecordableAlways(row, result) == TRUE

\* update_qa_evidence_result: a terminal result is immutable.
Recordable(row, result) == row.result = "pending" \/ row.result = result

\* promote_eligible_release_jobs binds and promotes a QUEUED release.
Promoted(rel, met, sha) ==
    IF rel.status = "QUEUED" /\ met
    THEN [rel EXCEPT !.status = "READY", !.bound = sha] ELSE rel

\* _reject_stale_assurance_evidence, and the delivery's outcome: what was
\* assessed is no longer what the delivery stands for.
Stale(row) ==
    delivery[row.delivery].outcome # "none" \/ delivery[row.delivery].cand # row.cand

\* record_assurance_verdict
Judge(i, result) ==
    LET row == rows[i]
        judged == [Ended(row, "SUCCEEDED") EXCEPT !.result = result]
    IN
    /\ row.role \in Roles /\ row.execs > 0
    /\ rows' = [rows EXCEPT ![i] =
                  IF Stale(row) THEN Ended(row, "BLOCKED")
                  ELSE IF Recordable(row, result) THEN judged ELSE Lost(row)]
    /\ UNCHANGED <<delivery, integration, prepared, reruns>>
    /\ release' = IF ~Stale(row) /\ Recordable(row, result)
                  THEN Promoted(release, ReleasePrerequisitesMet', integration.merged)
                  ELSE release

\* What an assessor may print: a block that validate_assurance_result accepts
\* for this job, role and candidate, with its verdict, or anything else.
Outputs == {"PASS", "FAIL", "INCONCLUSIVE", "invalid"}

\* verdict_to_evidence_result
EvidenceResult(verdict) ==
    CASE verdict = "PASS" -> "pass" [] verdict = "FAIL" -> "fail" [] OTHER -> "inconclusive"

\* record_invalid_assurance_result: never a pass
JudgeInvalid(i) == Judge(i, "inconclusive")

\* process_assurance_worker_success
JudgeOutput(i, output) ==
    IF output = "invalid" THEN JudgeInvalid(i) ELSE Judge(i, EvidenceResult(output))

\* execute_qa_manager_aggregation.  The release is not looked at here.
Aggregate(i) ==
    LET row == rows[i]
        result == AggregateGateResult(row.delivery, row.cand)
    IN
    /\ row.role = Manager /\ row.execs > 0
    /\ rows' = [rows EXCEPT ![i] =
                  IF Recordable(row, result)
                  THEN [Ended(row, "SUCCEEDED") EXCEPT !.result = result] ELSE Lost(row)]
    /\ UNCHANGED <<delivery, integration, release, prepared, reruns>>

\* run_qa_with_remediation on the run's candidate, with an inconclusive gate: a
\* retry for every inconclusive row there is, those retried before included.
RetryInconclusive(c) ==
    LET open == {i \in DOMAIN rows : rows[i].cand = c /\ rows[i].result = "inconclusive"}
        n == Cardinality(open)
    IN
    /\ Gate(c) = "INCONCLUSIVE"
    /\ Len(rows) + n <= RowBound
    /\ \E again \in [1..n -> open] :
          /\ \A k, l \in 1..n : k < l => again[k] < again[l]
          /\ rows' = rows \o [k \in 1..n |->
                NewRow(rows[again[k]].delivery, rows[again[k]].role, c, again[k])]
    /\ UNCHANGED <<delivery, integration, release, prepared, reruns>>

\* Mutant of GatePassed: a row that is pending does not stop the gate.
GateNotFailed(c) == Gate(c) \in {"PASSED", "PENDING"}

\* require_qa_gate_passed
GatePassed(c) == Gate(c) = "PASSED"

\* prepare_release, of the PM's release workflow or of another caller.
PrepareRelease(c) ==
    /\ GatePassed(c)
    /\ prepared' = prepared \cup {c}
    /\ UNCHANGED <<delivery, rows, integration, release, reruns>>
-----------------------------------------------------------------------------
(* Integration, rework and release. *)

StartIntegration ==
    LET d == integration.needs IN
    /\ integration.status = "READY" /\ Satisfies(delivery[d])
    /\ integration' = [integration EXCEPT !.status = "RUNNING",
                                          !.merged = delivery[d].cand]
    /\ UNCHANGED <<delivery, rows, release, prepared, reruns>>

IntegrationFails ==
    /\ integration.status = "RUNNING"
    /\ \E s \in {"READY", "FAILED"} : integration' = [integration EXCEPT !.status = s]
    /\ UNCHANGED <<delivery, rows, release, prepared, reruns>>

\* bind_dependent_release_jobs
IntegrationSucceeds ==
    LET bound == IF release.status \in {"READY", "QUEUED"}
                 THEN [release EXCEPT !.bound = integration.merged] ELSE release
    IN
    /\ integration.status = "RUNNING"
    /\ integration' = [integration EXCEPT !.status = "SUCCEEDED"]
    /\ release' = Promoted(bound, IntegrationQaGatesSatisfied, integration.merged)
    /\ UNCHANGED <<delivery, rows, prepared, reruns>>

\* rewire_integration_dependencies
Rewired == [integration EXCEPT !.needs = "rework"]

\* invalidate_delivery_candidate and rewire_integration_dependencies, whatever
\* the delivery and the integration are doing; when the rework exists already,
\* the delivery is only invalidated again.
OrderRework ==
    LET new == delivery["rework"].status = "ABSENT"
        hit(row) == row.delivery = "first"
        cancelled(row) ==
            IF row.status \in {"SUCCEEDED", "FAILED", "BLOCKED"} THEN row
            ELSE [row EXCEPT !.status = "CANCELLED"]
        rejected(row) ==
            IF row.result = "pending" THEN [row EXCEPT !.result = "stale_rejected"] ELSE row
    IN
    /\ ReworkCandidates # {}
    /\ delivery' = [delivery EXCEPT !["first"].outcome = "INVALIDATED",
                                    !["rework"].status = IF new THEN "READY" ELSE @]
    /\ rows' = [i \in DOMAIN rows |->
                  IF new /\ hit(rows[i]) THEN rejected(cancelled(rows[i])) ELSE rows[i]]
    /\ integration' = Rewired
    /\ UNCHANGED <<release, prepared, reruns>>

\* bind_release_provenance refuses, or binds the integrated candidate.
StartRelease ==
    /\ release.status = "READY" /\ integration.status = "SUCCEEDED"
    /\ release' = IF ReleasePrerequisitesMet
                  THEN [release EXCEPT !.status = "RUNNING", !.gate = "none",
                                       !.bound = integration.merged]
                  ELSE [release EXCEPT !.status = "BLOCKED"]
    /\ UNCHANGED <<delivery, rows, integration, prepared, reruns>>

\* _find_story_delivery: the newest valid delivery of the story.
StoryDelivery ==
    {d \in Deliveries : /\ Satisfies(delivery[d]) /\ delivery[d].cand # NoCandidate
                        /\ d = "first" => ~Satisfies(delivery["rework"])}

\* assemble_qa_package has no reason against the release.
QaPackageComplete ==
    /\ \E d \in StoryDelivery : DeliveryQaPassed(d)
    /\ integration.status = "SUCCEEDED" /\ integration.merged = release.bound

\* _ensure_rel002: the record of projectctl gets the first commit that is
\* evaluated without a reason against it, and keeps it.
ReleaseRecord ==
    IF QaPackageComplete /\ release.record = NoCandidate THEN release.bound ELSE release.record

\* evaluate_release_job; git and projectctl may give reasons of their own, also
\* before the record is written.
EvaluateRelease(approved) ==
    /\ release.status = "RUNNING" /\ release.gate = "none"
    /\ approved => QaPackageComplete /\ ReleaseRecord = release.bound
    /\ \E record \in IF approved THEN {ReleaseRecord} ELSE {ReleaseRecord, release.record} :
          release' = [release EXCEPT !.gate = IF approved THEN "approved" ELSE "rejected",
                                     !.record = record]
    /\ UNCHANGED <<delivery, rows, integration, prepared, reruns>>

ReleaseSucceeds ==
    /\ release.status = "RUNNING" /\ release.gate = "approved"
    /\ release' = [release EXCEPT !.status = "SUCCEEDED"]
    /\ UNCHANGED <<delivery, rows, integration, prepared, reruns>>

\* A rejected release, or one with a dirty or foreign workspace, is BLOCKED; in
\* an active run the handling of a rejection raises, the job stays RUNNING and is
\* recovered, as after the worker's death; a failed execution is retried or FAILED.
ReleaseFails ==
    /\ release.status = "RUNNING"
    /\ \E s \in {"BLOCKED", "FAILED", "READY"} :
          release' = [release EXCEPT !.status = s, !.gate = "none"]
    /\ UNCHANGED <<delivery, rows, integration, prepared, reruns>>

\* _resolve_integration: the gates of the integration are passed
Reconcilable == ReleasePrerequisitesMet /\ integration.merged # NoCandidate

\* _bind_successor: QUEUED, bound and promoted in the transaction that makes it
Successor == [release EXCEPT !.status = "READY", !.bound = integration.merged, !.gate = "none"]

\* reconcile_stale_release: a release that failed, or that is bound to another
\* commit than the integrated one, is superseded by a new job.  (The code names
\* the one project, iteration and commit it is meant for; here any will do.)
ReconcileRelease ==
    /\ release.status # "RUNNING"
    /\ Reconcilable
    /\ \/ release.status \in {"FAILED", "BLOCKED"}
       \/ release.bound \notin {NoCandidate, integration.merged}
    /\ release' = Successor
    /\ UNCHANGED <<delivery, rows, integration, prepared, reruns>>
-----------------------------------------------------------------------------
DeliveryStep(d) ==
    \/ StartDelivery(d) \/ DeliveryFails(d) \/ RetryDelivery(d) \/ RecoverDelivery(d)
    \/ \E c \in Candidates : DeliverySucceeds(d, c)
    \/ DeliveryUnchanged(d)
RowStep(i) ==
    \/ StartRow(i) \/ RowFails(i) \/ RetryRow(i) \/ RecoverRow(i)
    \/ \E output \in Outputs : JudgeOutput(i, output)
    \/ Aggregate(i)
IntegrationStep == StartIntegration \/ IntegrationFails \/ IntegrationSucceeds
ReleaseStep ==
    \/ StartRelease \/ \E approved \in BOOLEAN : EvaluateRelease(approved)
    \/ ReleaseSucceeds \/ ReleaseFails \/ ReconcileRelease

Next ==
    \/ \E d \in Deliveries : DeliveryStep(d)
    \/ \E i \in DOMAIN rows : RowStep(i)
    \/ IntegrationStep \/ ReleaseStep
    \/ \E c \in Candidates : RetryInconclusive(c) \/ PrepareRelease(c)
    \/ OrderRework

Spec == Init /\ [][Next]_vars
-----------------------------------------------------------------------------
(* Properties. *)

\* Assessments are append-only: no step changes a terminal result, not even the
\* verdict of a second execution of the same assurance job.
EvidenceImmutable ==
    [][\A i \in DOMAIN rows :
          rows[i].result \in TerminalResults => rows'[i].result = rows[i].result]_vars

PassedBy(c, role) ==
    \E i \in DOMAIN rows : rows[i].cand = c /\ rows[i].role = role /\ rows[i].result = "pass"
FailedBy(c, role) ==
    \E i \in DOMAIN rows : rows[i].cand = c /\ rows[i].role = role /\ rows[i].result = "fail"

\* A candidate whose release was prepared has passed with every assessor and
\* with the manager, and failed with none, then and ever after.
PreparedIsAssured ==
    \A c \in prepared : \A role \in Roles \cup {Manager} :
        PassedBy(c, role) /\ ~FailedBy(c, role)

\* A release that succeeded with a commit that was handed to assurance, for the
\* delivery its integration stands for, holds a commit that every assessor
\* passed, however often jobs were executed.  (The gate looks at the candidate
\* the delivery has then.  A rework ordered after the integration, and a late
\* execution of the delivery, change it and leave the integrated commit as it
\* is: that one may never have been handed to anybody.)
ReleasedIsAssured ==
    /\ release.status = "SUCCEEDED"
    /\ \E i \in DOMAIN rows : /\ rows[i].delivery = integration.needs
                              /\ rows[i].cand = release.bound
    => \A role \in Roles : PassedBy(release.bound, role)

\* The delivery a release speaks for is handed to assurance once: no role has
\* two first assessments of one delivery.
OneHandoff ==
    \A i, k \in DOMAIN rows :
        /\ rows[i].delivery = rows[k].delivery /\ rows[i].role = rows[k].role
        /\ rows[i].prior = 0 /\ rows[k].prior = 0
        => i = k
=============================================================================
