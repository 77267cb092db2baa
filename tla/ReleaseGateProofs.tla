-------------------------- MODULE ReleaseGateProofs --------------------------
(***************************************************************************)
(* Theorems about ReleaseGate for every set of roles and candidates and      *)
(* every bound.                                                              *)
(*                                                                           *)
(* A step treats the rows in one of two ways, and everything below follows   *)
(* from them: it keeps every row but for its status, its executions and a    *)
(* result that was pending (Kept), or it appends rows (HandedOff, Retried).  *)
(***************************************************************************)
EXTENDS ReleaseGate, FiniteSetTheorems, SequenceTheorems, WellFoundedInduction,
        TLAPS

\* What a step may do with a row that exists.
SameRow(old, new) ==
    /\ new.delivery = old.delivery /\ new.role = old.role /\ new.cand = old.cand
    /\ new.prior = old.prior
    /\ old.result # "pending" => new.result = old.result

Kept ==
    /\ rows' \in Seq(Row) /\ Len(rows') = Len(rows)
    /\ \A i \in 1..Len(rows) : SameRow(rows[i], rows'[i])

\* A delivery without rows gets one for every assessor and one for the manager.
HandedOff ==
    \E d \in Deliveries, c \in Candidates, new \in Seq(Row) :
        /\ rows' = rows \o new /\ Len(rows) + Len(new) <= RowBound
        /\ HandoffDue(d) /\ c \in CandidatesOf(d)
        /\ \A k \in 1..Len(new) : new[k].delivery = d /\ new[k].cand = c
        /\ \A role \in Roles \cup {Manager} : \E k \in 1..Len(new) : new[k].role = role
        /\ \A k, l \in 1..Len(new) : new[k].role = new[l].role => k = l

\* The inconclusive rows of a candidate get one more each.
Retried ==
    \E c \in Candidates, new \in Seq(Row) :
        /\ rows' = rows \o new /\ Len(rows) + Len(new) <= RowBound
        /\ Gate(c) = "INCONCLUSIVE"
        /\ \A k \in 1..Len(new) : \E i \in 1..Len(rows) :
              /\ rows[i].cand = c /\ new[k].cand = c
              /\ new[k].delivery = rows[i].delivery /\ new[k].prior # 0

RowsType == rows \in Seq(Row) /\ Len(rows) <= RowBound
JobType == [status : Statuses, outcome : Outcomes, cand : Candidate, execs : Nat]
RestType ==
    /\ delivery \in [Deliveries -> JobType]
    /\ integration \in [status : Statuses, needs : Deliveries, merged : Candidate]
    /\ release \in [status : Statuses, bound : Candidate,
                    gate : {"none", "approved", "rejected"}, record : Candidate]
    /\ prepared \subseteq Candidates
    /\ reruns \in 0..RerunBound

\* The type invariant, in the part of the rows and the rest.
LEMMA TypeParts == TypeOK <=> RowsType /\ RestType
BY DEF TypeOK, RowsType, RestType, JobType
-----------------------------------------------------------------------------
(* The two ways. *)

\* A statement on a single row.
LEMMA OneRow ==
    ASSUME RowsType, NEW i \in DOMAIN rows, NEW new \in Row,
           rows' = [rows EXCEPT ![i] = new], SameRow(rows[i], new)
    PROVE  Kept
<1>1. i \in 1..Len(rows) /\ rows \in Seq(Row)
  BY LenProperties DEF RowsType
<1>2. /\ rows' \in Seq(Row) /\ Len(rows') = Len(rows)
      /\ \A j \in 1..Len(rows) : rows'[j] = IF j = i THEN new ELSE rows[j]
  BY <1>1, ExceptSeq
<1> QED BY <1>1, <1>2 DEF Kept, SameRow

\* A step that leaves qa_evidence alone.
LEMMA NoRow ==
    ASSUME RowsType, rows' = rows
    PROVE  Kept
BY DEF RowsType, Kept, SameRow

\* The statements on a row leave a row.
LEMMA RowTypes ==
    ASSUME NEW row \in Row
    PROVE  /\ Started(row) \in Row /\ SameRow(row, Started(row))
           /\ row.execs > 0 =>
                /\ Lost(row) \in Row /\ SameRow(row, Lost(row))
                /\ \A s \in Statuses : Ended(row, s) \in Row /\ SameRow(row, Ended(row, s))
                /\ \A r \in Results : Recordable(row, r) =>
                      LET new == [Ended(row, "SUCCEEDED") EXCEPT !.result = r] IN
                      new \in Row /\ SameRow(row, new)
<1>0. /\ row.execs + 1 \in Nat
      /\ row.execs > 0 => row.execs - 1 \in Nat
      /\ "RUNNING" \in Statuses /\ "SUCCEEDED" \in Statuses
  BY DEF Row, Statuses
<1>1. Started(row) \in Row /\ SameRow(row, Started(row))
  BY <1>0 DEF Started, Row, SameRow
<1>2. row.execs > 0 => Lost(row) \in Row /\ SameRow(row, Lost(row))
  BY <1>0 DEF Lost, Row, SameRow
<1>3. row.execs > 0 =>
         \A s \in Statuses : Ended(row, s) \in Row /\ SameRow(row, Ended(row, s))
  BY <1>0 DEF Ended, Row, SameRow
<1>4. row.execs > 0 =>
         \A r \in Results : Recordable(row, r) =>
            LET new == [Ended(row, "SUCCEEDED") EXCEPT !.result = r] IN
            new \in Row /\ SameRow(row, new)
  BY <1>0 DEF Ended, Row, SameRow, Recordable
<1> QED BY <1>1, <1>2, <1>3, <1>4

\* The statements on a delivery leave a delivery.
LEMMA JobTypes ==
    ASSUME NEW job \in JobType
    PROVE  /\ Started(job) \in JobType
           /\ job.execs > 0 => /\ Lost(job) \in JobType
                               /\ \A s \in Statuses : Ended(job, s) \in JobType
<1>1. /\ job.execs + 1 \in Nat
      /\ job.execs > 0 => job.execs - 1 \in Nat
      /\ "RUNNING" \in Statuses
  BY DEF JobType, Statuses
<1>2. Started(job) \in JobType
  BY <1>1 DEF Started, JobType
<1>3. job.execs > 0 => Lost(job) \in JobType
  BY <1>1 DEF Lost, JobType
<1>4. job.execs > 0 => \A s \in Statuses : Ended(job, s) \in JobType
  BY <1>1 DEF Ended, JobType
<1> QED BY <1>2, <1>3, <1>4

\* _aggregate_gate_result returns one of the results.
LEMMA AggregateType ==
    ASSUME NEW d, NEW c
    PROVE  AggregateGateResult(d, c) \in Results
BY DEF AggregateGateResult, Results

\* A step of an assurance job keeps the rows.
LEMMA RowStepKeeps ==
    ASSUME RowsType, NEW i \in DOMAIN rows, RowStep(i)
    PROVE  Kept
<1>1. rows[i] \in Row
  BY LenProperties DEF RowsType
<1>2. CASE StartRow(i)
  BY <1>1, <1>2, RowTypes, OneRow DEF StartRow
<1>3. CASE RowFails(i)
  <2>1. "FAILED" \in Statuses
    BY DEF Statuses
  <2> QED BY <1>1, <1>3, <2>1, RowTypes, OneRow DEF RowFails
<1>4. CASE RetryRow(i)
  <2>1. "READY" \in Statuses
    BY DEF Statuses
  <2> QED BY <1>1, <1>4, <2>1, RowTypes, OneRow DEF RetryRow
<1>5. CASE RecoverRow(i)
  <2> DEFINE new == [rows[i] EXCEPT !.status = "READY"]
  <2>1. new \in Row /\ SameRow(rows[i], new)
    BY <1>1 DEF Row, SameRow, Statuses
  <2>2. rows' = [rows EXCEPT ![i] = new]
    BY <1>5 DEF RecoverRow
  <2> QED BY <2>1, <2>2, OneRow
<1>6. ASSUME NEW output \in Outputs, JudgeOutput(i, output)
      PROVE  Kept
  <2> DEFINE result == IF output = "invalid" THEN "inconclusive" ELSE EvidenceResult(output)
  <2>1. result \in Results /\ "BLOCKED" \in Statuses
    BY DEF Results, Statuses, EvidenceResult
  <2>0. Judge(i, result)
    BY <1>6 DEF JudgeOutput, JudgeInvalid
  <2> HIDE DEF result
  <2>2. PICK new \in Row : rows' = [rows EXCEPT ![i] = new] /\ SameRow(rows[i], new)
    BY <1>1, <2>0, <2>1, RowTypes DEF Judge
  <2> QED BY <2>2, OneRow
<1>7. CASE Aggregate(i)
  <2>1. AggregateGateResult(rows[i].delivery, rows[i].cand) \in Results
    BY AggregateType
  <2>2. PICK new \in Row : rows' = [rows EXCEPT ![i] = new] /\ SameRow(rows[i], new)
    BY <1>1, <1>7, <2>1, RowTypes DEF Aggregate
  <2> QED BY <2>2, OneRow
<1> QED BY <1>2, <1>3, <1>4, <1>5, <1>6, <1>7 DEF RowStep

\* The rework cancels and rejects rows, and none of their verdicts.
LEMMA ReworkKeeps ==
    ASSUME RowsType, OrderRework
    PROVE  Kept
<1>1. rows \in Seq(Row) /\ DOMAIN rows = 1..Len(rows) /\ Len(rows) \in Nat
  BY LenProperties DEF RowsType
<1>2. \A i \in 1..Len(rows) : rows[i] \in Row
  BY <1>1, ElementOfSeq
<1>3. ASSUME NEW i \in 1..Len(rows)
      PROVE  rows'[i] \in Row /\ SameRow(rows[i], rows'[i])
  <2> DEFINE Cancelled(row) ==
                 IF row.status \in {"SUCCEEDED", "FAILED", "BLOCKED"} THEN row
                 ELSE [row EXCEPT !.status = "CANCELLED"]
             Rejected(row) ==
                 IF row.result = "pending" THEN [row EXCEPT !.result = "stale_rejected"]
                 ELSE row
  <2>1. ASSUME NEW row \in Row
        PROVE  Cancelled(row) \in Row /\ SameRow(row, Cancelled(row))
    BY DEF Row, SameRow, Statuses
  <2>2. ASSUME NEW row \in Row
        PROVE  Rejected(row) \in Row /\ SameRow(row, Rejected(row))
    BY DEF Row, SameRow, Results
  <2>3. rows'[i] = rows[i] \/ rows'[i] = Rejected(Cancelled(rows[i]))
    BY <1>1 DEF OrderRework
  <2>4. SameRow(rows[i], Rejected(Cancelled(rows[i]))) /\ Rejected(Cancelled(rows[i])) \in Row
    <3> HIDE DEF Cancelled, Rejected
    <3>1. Cancelled(rows[i]) \in Row /\ SameRow(rows[i], Cancelled(rows[i]))
      BY <1>2, <2>1
    <3>2. /\ Rejected(Cancelled(rows[i])) \in Row
          /\ SameRow(Cancelled(rows[i]), Rejected(Cancelled(rows[i])))
      BY <3>1, <2>2
    <3> QED BY <3>1, <3>2 DEF SameRow
  <2>5. SameRow(rows[i], rows[i])
    BY DEF SameRow
  <2> QED BY <1>2, <2>3, <2>4, <2>5
<1>4. rows' = [i \in 1..Len(rows) |-> rows'[i]]
  BY <1>1 DEF OrderRework
<1>5. rows' \in Seq(Row) /\ Len(rows') = Len(rows)
  BY <1>1, <1>3, <1>4
<1> QED BY <1>3, <1>5 DEF Kept

\* The order of the roles is a sequence of them that leaves none out and repeats
\* none.
LEMMA RoleOrderLists ==
    /\ Cardinality(Roles) \in Nat
    /\ RoleOrder \in [1..Cardinality(Roles) -> Roles]
    /\ \A role \in Roles : \E k \in 1..Cardinality(Roles) : RoleOrder[k] = role
    /\ \A k, l \in 1..Cardinality(Roles) : RoleOrder[k] = RoleOrder[l] => k = l
<1>1. Cardinality(Roles) \in Nat /\ ExistsBijection(1..Cardinality(Roles), Roles)
  BY FS_CardinalityType, GateAssumption
<1>2. \E order \in [1..Cardinality(Roles) -> Roles] :
          \A role \in Roles : \E k \in DOMAIN order : order[k] = role
  BY <1>1 DEF ExistsBijection, Bijection, Injection, Surjection
<1>3. /\ RoleOrder \in [1..Cardinality(Roles) -> Roles]
      /\ \A role \in Roles : \E k \in 1..Cardinality(Roles) : RoleOrder[k] = role
  BY <1>2 DEF RoleOrder
<1>4. RoleOrder \in Surjection(1..Cardinality(Roles), Roles)
  BY <1>3 DEF Surjection
<1>5. IsFiniteSet(1..Cardinality(Roles)) /\ Cardinality(1..Cardinality(Roles)) = Cardinality(Roles)
  BY <1>1, FS_Interval
<1>6. RoleOrder \in Injection(1..Cardinality(Roles), Roles)
  BY <1>4, <1>5, FS_SurjSameCardinalityImpliesInj
<1>7. \A k, l \in 1..Cardinality(Roles) : RoleOrder[k] = RoleOrder[l] => k = l
  BY <1>6 DEF Injection, IsInjective
<1> QED BY <1>1, <1>3, <1>7

\* What create_assurance_jobs_for_delivery makes.
LEMMA HandoffRows ==
    ASSUME NEW d \in Deliveries, NEW c \in Candidates
    PROVE  LET new == Handoff(d, c, RoleOrder) IN
           /\ new \in Seq(Row) /\ Len(new) = Cardinality(Roles) + 1
           /\ \A k \in 1..Len(new) : new[k].delivery = d /\ new[k].cand = c
           /\ \A role \in Roles \cup {Manager} : \E k \in 1..Len(new) : new[k].role = role
           /\ \A k, l \in 1..Len(new) : new[k].role = new[l].role => k = l
<1> DEFINE n == Cardinality(Roles)
           first == [k \in 1..n |-> NewRow(d, RoleOrder[k], c, 0)]
           last == <<NewRow(d, Manager, c, 0)>>
           new == first \o last
<1>1. ASSUME NEW role \in Roles \cup {Manager}
      PROVE  /\ NewRow(d, role, c, 0) \in Row
             /\ NewRow(d, role, c, 0).delivery = d /\ NewRow(d, role, c, 0).cand = c
             /\ NewRow(d, role, c, 0).role = role
  BY GateAssumption DEF NewRow, Row, Statuses, Results
<1>2. n \in Nat /\ \A k \in 1..n : RoleOrder[k] \in Roles
  BY RoleOrderLists
<1>3. first \in Seq(Row) /\ Len(first) = n
  BY <1>1, <1>2
<1>4. last \in Seq(Row) /\ Len(last) = 1 /\ last[1] = NewRow(d, Manager, c, 0)
  BY <1>1
<1> HIDE DEF last
<1>5. /\ new \in Seq(Row) /\ Len(new) = n + 1
      /\ \A k \in 1..n : new[k] = NewRow(d, RoleOrder[k], c, 0)
      /\ new[n + 1] = NewRow(d, Manager, c, 0)
  <2>1. /\ new \in Seq(Row) /\ Len(new) = n + 1
        /\ \A k \in 1..n + 1 : new[k] = IF k <= n THEN first[k] ELSE last[k - n]
    <3> HIDE DEF first, n
    <3>1. /\ first \o last \in Seq(Row) /\ Len(first \o last) = Len(first) + Len(last)
          /\ \A k \in 1..Len(first) + Len(last) : (first \o last)[k] =
                IF k <= Len(first) THEN first[k] ELSE last[k - Len(first)]
      BY <1>3, <1>4, ConcatProperties
    <3> QED BY <1>3, <1>4, <3>1
  <2> QED BY <1>2, <1>4, <2>1
<1> HIDE DEF n, new
<1>6. \A k \in 1..n + 1 : new[k].delivery = d /\ new[k].cand = c
  BY <1>1, <1>2, <1>5
<1>7. \A role \in Roles \cup {Manager} : \E k \in 1..n + 1 : new[k].role = role
  <2>1. ASSUME NEW role \in Roles PROVE \E k \in 1..n + 1 : new[k].role = role
    <3>1. PICK k \in 1..n : RoleOrder[k] = role
      BY RoleOrderLists DEF n
    <3> QED BY <3>1, <1>1, <1>2, <1>5
  <2>2. \E k \in 1..n + 1 : new[k].role = Manager
    BY <1>1, <1>2, <1>5
  <2> QED BY <2>1, <2>2
<1>8. ASSUME NEW k \in 1..n + 1, NEW l \in 1..n + 1, new[k].role = new[l].role
      PROVE  k = l
  <2>1. new[n + 1].role = Manager /\ Manager \notin Roles
    BY <1>1, <1>5, GateAssumption DEF Manager
  <2>2. \A j \in 1..n : new[j].role = RoleOrder[j] /\ RoleOrder[j] \in Roles
    BY <1>1, <1>2, <1>5
  <2>3. \A i, j \in 1..n : RoleOrder[i] = RoleOrder[j] => i = j
    BY RoleOrderLists DEF n
  <2>4. (k \in 1..n \/ k = n + 1) /\ (l \in 1..n \/ l = n + 1)
    BY <1>2
  <2> QED BY <1>8, <2>1, <2>2, <2>3, <2>4
<1>9. new = Handoff(d, c, RoleOrder)
  BY DEF new, first, last, n, Handoff
<1> QED BY <1>5, <1>6, <1>7, <1>8, <1>9 DEF n

\* A delivery's success hands it off or leaves the rows alone.
LEMMA SuccessKeepsOrHandsOff ==
    ASSUME RowsType, NEW d \in Deliveries, NEW c \in Candidates, DeliverySucceeds(d, c)
    PROVE  Kept \/ HandedOff
<1> DEFINE new == Handoff(d, c, RoleOrder)
<1>1. CASE rows' = rows
  BY <1>1, NoRow
<1>2. CASE rows' # rows
  <2>1. /\ rows' = rows \o new /\ HandoffDue(d) /\ c \in CandidatesOf(d)
        /\ Len(rows) + Cardinality(Roles) < RowBound
    BY <1>2 DEF DeliverySucceeds
  <2>2. /\ new \in Seq(Row) /\ Len(new) = Cardinality(Roles) + 1
        /\ \A k \in 1..Len(new) : new[k].delivery = d /\ new[k].cand = c
        /\ \A role \in Roles \cup {Manager} : \E k \in 1..Len(new) : new[k].role = role
        /\ \A k, l \in 1..Len(new) : new[k].role = new[l].role => k = l
    BY HandoffRows
  <2>3. Len(rows) + Len(new) <= RowBound
    BY <2>1, <2>2, RoleOrderLists, GateAssumption, LenProperties DEF RowsType
  <2> HIDE DEF new
  <2> QED BY <2>1, <2>2, <2>3 DEF HandedOff
<1> QED BY <1>1, <1>2

\* What schedule_assurance_retry_for_inconclusive appends.
LEMMA RetryRetries ==
    ASSUME RowsType, NEW c \in Candidates, RetryInconclusive(c)
    PROVE  Retried
<1> DEFINE open == {i \in DOMAIN rows : rows[i].cand = c /\ rows[i].result = "inconclusive"}
           n == Cardinality(open)
<1>1. rows \in Seq(Row) /\ DOMAIN rows = 1..Len(rows) /\ Len(rows) \in Nat
  BY LenProperties DEF RowsType
<1>2. n \in Nat
  <2>1. IsFiniteSet(1..Len(rows))
    BY <1>1, FS_Interval
  <2>2. IsFiniteSet(open)
    BY <1>1, <2>1, FS_Subset
  <2> QED BY <2>2, FS_CardinalityType
<1>3. PICK again \in [1..n -> open] :
          rows' = rows \o [k \in 1..n |->
             NewRow(rows[again[k]].delivery, rows[again[k]].role, c, again[k])]
  BY DEF RetryInconclusive
<1>4. Gate(c) = "INCONCLUSIVE" /\ Len(rows) + n <= RowBound
  BY DEF RetryInconclusive
<1> DEFINE new == [k \in 1..n |->
             NewRow(rows[again[k]].delivery, rows[again[k]].role, c, again[k])]
<1> HIDE DEF n
<1>5. ASSUME NEW k \in 1..n
      PROVE  /\ again[k] \in 1..Len(rows) /\ again[k] \in 0..RowBound /\ again[k] # 0
             /\ rows[again[k]] \in Row /\ rows[again[k]].cand = c
  <2>1. again[k] \in open
    OBVIOUS
  <2>2. again[k] \in 1..Len(rows) /\ rows[again[k]].cand = c
    BY <1>1, <2>1
  <2>3. rows[again[k]] \in Row
    BY <1>1, <2>2, ElementOfSeq
  <2>4. again[k] \in 0..RowBound /\ again[k] # 0
    BY <1>1, <2>2, GateAssumption DEF RowsType
  <2> QED BY <2>2, <2>3, <2>4
<1>6. ASSUME NEW k \in 1..n
      PROVE  /\ new[k] \in Row /\ new[k].cand = c /\ new[k].prior # 0
             /\ new[k].delivery = rows[again[k]].delivery
  BY <1>5 DEF NewRow, Row, Statuses, Results
<1>7. new \in Seq(Row) /\ Len(new) = n
  BY <1>2, <1>6
<1> HIDE DEF new
<1>8. \A k \in 1..Len(new) : \E i \in 1..Len(rows) :
         /\ rows[i].cand = c /\ new[k].cand = c
         /\ new[k].delivery = rows[i].delivery /\ new[k].prior # 0
  BY <1>5, <1>6, <1>7
<1>9. rows' = rows \o new
  BY <1>3 DEF new
<1> QED BY <1>4, <1>7, <1>8, <1>9 DEF Retried

\* Every step treats the rows in one of the two ways, and only prepare_release
\* accepts a candidate.
LEMMA StepShape ==
    ASSUME RowsType, [Next]_vars
    PROVE  /\ Kept \/ HandedOff \/ Retried
           /\ \/ prepared' = prepared
              \/ rows' = rows /\ \E c \in Candidates :
                    GatePassed(c) /\ prepared' = prepared \cup {c}
<1> DEFINE Accepts == \/ prepared' = prepared
                      \/ rows' = rows /\ \E c \in Candidates :
                            GatePassed(c) /\ prepared' = prepared \cup {c}
           Shape == (Kept \/ HandedOff \/ Retried) /\ Accepts
<1> SUFFICES Shape
  OBVIOUS
<1>1. ASSUME NEW d \in Deliveries, DeliveryStep(d) PROVE Shape
  <2>1. CASE \E c \in Candidates : DeliverySucceeds(d, c)
    BY <2>1, SuccessKeepsOrHandsOff DEF DeliverySucceeds
  <2>2. CASE StartDelivery(d) \/ DeliveryFails(d) \/ RetryDelivery(d)
                \/ RecoverDelivery(d) \/ DeliveryUnchanged(d)
    BY <2>2, NoRow DEF StartDelivery, DeliveryFails, RetryDelivery, RecoverDelivery,
                       DeliveryUnchanged
  <2> QED BY <1>1, <2>1, <2>2 DEF DeliveryStep
<1>2. ASSUME NEW i \in DOMAIN rows, RowStep(i) PROVE Shape
  <2>1. Kept
    BY <1>2, RowStepKeeps
  <2>2. prepared' = prepared
    BY <1>2 DEF RowStep, StartRow, RowFails, RetryRow, RecoverRow, JudgeOutput, JudgeInvalid,
                Judge, Aggregate
  <2> QED BY <2>1, <2>2
<1>3. CASE IntegrationStep
  BY <1>3, NoRow DEF IntegrationStep, StartIntegration, IntegrationFails,
                     IntegrationSucceeds
<1>4. CASE ReleaseStep
  BY <1>4, NoRow DEF ReleaseStep, StartRelease, EvaluateRelease, ReleaseSucceeds,
                     ReleaseFails, ReconcileRelease
<1>5. ASSUME NEW c \in Candidates, RetryInconclusive(c) PROVE Shape
  <2>1. Retried
    BY <1>5, RetryRetries
  <2>2. prepared' = prepared
    BY <1>5 DEF RetryInconclusive
  <2> QED BY <2>1, <2>2
<1>6. ASSUME NEW c \in Candidates, PrepareRelease(c) PROVE Shape
  BY <1>6, NoRow DEF PrepareRelease
<1>7. CASE OrderRework
  <2>1. Kept
    BY <1>7, ReworkKeeps
  <2>2. prepared' = prepared
    BY <1>7 DEF OrderRework
  <2> QED BY <2>1, <2>2
<1>8. CASE UNCHANGED vars
  BY <1>8, NoRow DEF vars
<1> HIDE DEF Shape
<1> QED BY <1>1, <1>2, <1>3, <1>4, <1>5, <1>6, <1>7, <1>8 DEF Next
-----------------------------------------------------------------------------
(* Type correctness. *)

\* Steps keep the type of the rows,
LEMMA RowsTypeKept ==
    ASSUME RowsType, [Next]_vars
    PROVE  RowsType'
<1>1. CASE Kept
  BY <1>1 DEF Kept, RowsType
<1>2. CASE HandedOff \/ Retried
  <2>1. PICK new \in Seq(Row) : rows' = rows \o new /\ Len(rows) + Len(new) <= RowBound
    BY <1>2 DEF HandedOff, Retried
  <2>2. rows' \in Seq(Row) /\ Len(rows') = Len(rows) + Len(new)
    BY <2>1, ConcatProperties DEF RowsType
  <2> QED BY <2>1, <2>2 DEF RowsType
<1> QED BY <1>1, <1>2, StepShape

ReleaseType == [status : Statuses, bound : Candidate,
                gate : {"none", "approved", "rejected"}, record : Candidate]

\* promote_eligible_release_jobs leaves a release.
LEMMA PromotedType ==
    ASSUME NEW rel \in ReleaseType, NEW met, NEW sha \in Candidate
    PROVE  Promoted(rel, met, sha) \in ReleaseType
BY DEF Promoted, ReleaseType, Statuses

\* and the type of everything else.
LEMMA RestTypeKept ==
    ASSUME RowsType, RestType, [Next]_vars
    PROVE  RestType'
<1> USE DEF RestType
<1>0. \A s \in {"READY", "RUNNING", "SUCCEEDED", "FAILED", "BLOCKED"} : s \in Statuses
  BY DEF Statuses
<1>1. ASSUME NEW d \in Deliveries, DeliveryStep(d) PROVE RestType'
  <2>1. delivery[d] \in JobType
    OBVIOUS
  <2>2. CASE StartDelivery(d)
    BY <2>1, <2>2, JobTypes DEF StartDelivery
  <2>3. CASE DeliveryFails(d)
    BY <1>0, <2>1, <2>3, JobTypes DEF DeliveryFails
  <2>4. CASE RetryDelivery(d)
    BY <1>0, <2>1, <2>4, JobTypes, GateAssumption DEF RetryDelivery
  <2>5. CASE RecoverDelivery(d)
    <3>1. [delivery[d] EXCEPT !.status = "READY"] \in JobType
      BY <1>0, <2>1 DEF JobType
    <3> QED BY <2>5, <3>1, GateAssumption DEF RecoverDelivery
  <2>6. ASSUME NEW c \in Candidates, DeliverySucceeds(d, c) PROVE RestType'
    <3>1. Ended(delivery[d], "SUCCEEDED") \in JobType
      BY <1>0, <2>1, <2>6, JobTypes DEF DeliverySucceeds
    <3>2. [Ended(delivery[d], "SUCCEEDED") EXCEPT !.cand = c] \in JobType
      BY <3>1 DEF JobType, Candidate
    <3> QED BY <2>6, <3>2 DEF DeliverySucceeds
  <2>7. CASE DeliveryUnchanged(d)
    <3>1. Ended(delivery[d], "SUCCEEDED") \in JobType
      BY <1>0, <2>1, <2>7, JobTypes DEF DeliveryUnchanged
    <3>2. [Ended(delivery[d], "SUCCEEDED") EXCEPT !.outcome = "NO_CHANGE",
                                                  !.cand = NoCandidate] \in JobType
      BY <3>1 DEF JobType, Candidate, Outcomes
    <3> QED BY <2>7, <3>2 DEF DeliveryUnchanged
  <2> QED BY <1>1, <2>2, <2>3, <2>4, <2>5, <2>6, <2>7 DEF DeliveryStep
<1>2. ASSUME NEW i \in DOMAIN rows, RowStep(i) PROVE RestType'
  <2>1. CASE StartRow(i) \/ RowFails(i) \/ Aggregate(i)
    BY <2>1 DEF StartRow, RowFails, Aggregate
  <2>2. CASE RetryRow(i) \/ RecoverRow(i)
    BY <2>2, GateAssumption DEF RetryRow, RecoverRow
  <2>3. ASSUME NEW result, Judge(i, result) PROVE RestType'
    <3>1. \A met : Promoted(release, met, integration.merged) \in ReleaseType
      BY PromotedType DEF ReleaseType
    <3>2. release' \in ReleaseType
      BY <2>3, <3>1 DEF Judge, ReleaseType
    <3> QED BY <2>3, <3>2 DEF Judge, ReleaseType
  <2> QED BY <1>2, <2>1, <2>2, <2>3 DEF RowStep, JudgeOutput, JudgeInvalid
<1>3. CASE IntegrationStep
  <2>1. CASE StartIntegration
    BY <1>0, <2>1 DEF StartIntegration, JobType
  <2>2. CASE IntegrationFails
    BY <1>0, <2>2 DEF IntegrationFails
  <2>3. CASE IntegrationSucceeds
    <3>1. [release EXCEPT !.bound = integration.merged] \in ReleaseType
      BY DEF ReleaseType
    <3>2. release' \in ReleaseType
      BY <2>3, <3>1, PromotedType DEF IntegrationSucceeds, ReleaseType
    <3> QED BY <1>0, <2>3, <3>2 DEF IntegrationSucceeds, ReleaseType
  <2> QED BY <1>3, <2>1, <2>2, <2>3 DEF IntegrationStep
<1>4. CASE ReleaseStep
  <2>1. CASE StartRelease
    <3>1. [release EXCEPT !.status = "RUNNING", !.gate = "none",
                          !.bound = integration.merged] \in ReleaseType
      BY <1>0 DEF ReleaseType
    <3>2. [release EXCEPT !.status = "BLOCKED"] \in ReleaseType
      BY <1>0 DEF ReleaseType
    <3>3. release' \in ReleaseType
      BY <2>1, <3>1, <3>2 DEF StartRelease
    <3> QED BY <2>1, <3>3 DEF StartRelease, ReleaseType
  <2>2. ASSUME NEW approved \in BOOLEAN, EvaluateRelease(approved) PROVE RestType'
    <3>1. ReleaseRecord \in Candidate /\ release.record \in Candidate
      BY DEF ReleaseRecord
    <3>2. PICK record \in Candidate :
              release' = [release EXCEPT !.gate = IF approved THEN "approved" ELSE "rejected",
                                         !.record = record]
      BY <2>2, <3>1 DEF EvaluateRelease
    <3>3. release' \in ReleaseType
      BY <3>2 DEF ReleaseType
    <3> QED BY <2>2, <3>3 DEF EvaluateRelease, ReleaseType
  <2>3. CASE ReleaseSucceeds
    BY <1>0, <2>3 DEF ReleaseSucceeds
  <2>4. CASE ReleaseFails
    <3>1. PICK s \in {"BLOCKED", "FAILED", "READY"} :
              release' = [release EXCEPT !.status = s, !.gate = "none"]
      BY <2>4 DEF ReleaseFails
    <3>2. release' \in ReleaseType
      BY <1>0, <3>1 DEF ReleaseType
    <3> QED BY <2>4, <3>2 DEF ReleaseFails, ReleaseType
  <2>5. CASE ReconcileRelease
    <3>1. Successor \in ReleaseType
      BY <1>0 DEF Successor, ReleaseType
    <3> QED BY <2>5, <3>1 DEF ReconcileRelease, ReleaseType
  <2> QED BY <1>4, <2>1, <2>2, <2>3, <2>4, <2>5 DEF ReleaseStep
<1>5. ASSUME NEW c \in Candidates, RetryInconclusive(c) \/ PrepareRelease(c) PROVE RestType'
  BY <1>5 DEF RetryInconclusive, PrepareRelease
<1>6. CASE OrderRework
  <2>1. [delivery["first"] EXCEPT !.outcome = "INVALIDATED"] \in JobType
    BY DEF JobType, Outcomes, Deliveries
  <2>2. \A s \in Statuses : [delivery["rework"] EXCEPT !.status = s] \in JobType
    BY DEF JobType, Deliveries
  <2>3. delivery["rework"].status \in Statuses
    BY DEF JobType, Deliveries
  <2>4. delivery' \in [Deliveries -> JobType]
    BY <1>0, <1>6, <2>1, <2>2, <2>3 DEF OrderRework, Deliveries
  <2> QED BY <1>6, <2>4 DEF OrderRework, Rewired, Deliveries
<1>7. CASE UNCHANGED vars
  BY <1>7 DEF vars
<1> QED BY <1>1, <1>2, <1>3, <1>4, <1>5, <1>6, <1>7 DEF Next

\* The state that run_plan leaves is well typed.
LEMMA InitType == Init => TypeOK
BY GateAssumption DEF Init, TypeOK, Job, Deliveries, Statuses, Outcomes, Candidate

\* Every reachable state is well typed: no execution is counted twice, and every
\* assurance row is of a real candidate.
THEOREM TypeCorrect == Spec => []TypeOK
<1>1. Init => TypeOK
  BY InitType
<1>2. TypeOK /\ [Next]_vars => TypeOK'
  BY RowsTypeKept, RestTypeKept, TypeParts DEF TypeOK, RowsType, RestType, JobType
<1> QED BY <1>1, <1>2, PTL DEF Spec
-----------------------------------------------------------------------------
(* The evidence. *)

\* What update_qa_evidence_result guards and OrderRework respects: a result that
\* is not pending stays, whatever is executed twice, retried or cancelled.
THEOREM EvidenceStays == Spec => EvidenceImmutable
<1> DEFINE Stays == \A i \in DOMAIN rows :
               rows[i].result \in TerminalResults => rows'[i].result = rows[i].result
<1>1. ASSUME TypeOK, [Next]_vars PROVE Stays
  <2>1. RowsType /\ rows \in Seq(Row) /\ DOMAIN rows = 1..Len(rows) /\ Len(rows) \in Nat
    BY <1>1, LenProperties DEF TypeOK, RowsType
  <2>2. CASE Kept
    BY <2>1, <2>2 DEF Kept, SameRow, TerminalResults, Results
  <2>3. CASE HandedOff \/ Retried
    <3>1. PICK new \in Seq(Row) : rows' = rows \o new
      BY <2>3 DEF HandedOff, Retried
    <3>2. \A i \in 1..Len(rows) : rows'[i] = rows[i]
      BY <2>1, <3>1, ConcatProperties, LenProperties
    <3> QED BY <2>1, <3>2
  <2> QED BY <1>1, <2>1, <2>2, <2>3, StepShape
<1>2. TypeOK /\ [Next]_vars => [Stays]_vars
  BY <1>1
<1> QED BY <1>2, TypeCorrect, PTL DEF Spec, EvidenceImmutable
-----------------------------------------------------------------------------
(* What prepare_release accepted. *)

\* Rows are of candidates of their delivery.
Owned == \A i \in DOMAIN rows : rows[i].cand \in CandidatesOf(rows[i].delivery)

\* A candidate that has a row has one of every role.
Complete ==
    \A i \in DOMAIN rows : \A role \in Roles \cup {Manager} :
        \E k \in DOMAIN rows : rows[k].cand = rows[i].cand /\ rows[k].role = role

\* All the rows of an accepted candidate have passed, and there are some.
AcceptedPassed ==
    \A c \in prepared :
        /\ \E i \in DOMAIN rows : rows[i].cand = c
        /\ \A i \in DOMAIN rows : rows[i].cand = c => rows[i].result = "pass"

AssuranceInv == TypeOK /\ Owned /\ Complete /\ AcceptedPassed

\* require_qa_gate_passed accepts a candidate with rows, all of them passed.
LEMMA GatePassedMeans ==
    ASSUME NEW c, GatePassed(c)
    PROVE  /\ \E i \in DOMAIN rows : rows[i].cand = c
           /\ \A i \in DOMAIN rows : rows[i].cand = c => rows[i].result = "pass"
<1> DEFINE results == {rows[i].result : i \in {k \in DOMAIN rows : rows[k].cand = c}}
<1>1. results = {"pass"}
  BY DEF GatePassed, Gate
<1> QED BY <1>1

\* collect_qa_gate_facts is INCONCLUSIVE because of an inconclusive row.
LEMMA GateInconclusiveMeans ==
    ASSUME NEW c, Gate(c) = "INCONCLUSIVE"
    PROVE  \E i \in DOMAIN rows : rows[i].cand = c /\ rows[i].result = "inconclusive"
<1> DEFINE results == {rows[i].result : i \in {k \in DOMAIN rows : rows[k].cand = c}}
<1>1. "inconclusive" \in results
  BY DEF Gate
<1> QED BY <1>1

\* A commit tells the delivery it is of.
LEMMA CandidatesApart ==
    ASSUME NEW d \in Deliveries, NEW e \in Deliveries,
           NEW c, c \in CandidatesOf(d), c \in CandidatesOf(e)
    PROVE  d = e
BY DEF Deliveries, CandidatesOf

\* Kept changes neither candidates nor roles nor passed results.
LEMMA AssuranceKept ==
    ASSUME AssuranceInv, Kept, prepared' = prepared
    PROVE  Owned' /\ Complete' /\ AcceptedPassed'
<1>1. DOMAIN rows = 1..Len(rows) /\ DOMAIN rows' = DOMAIN rows
  BY LenProperties DEF AssuranceInv, TypeOK, Kept
<1>2. \A i \in DOMAIN rows : SameRow(rows[i], rows'[i])
  BY <1>1 DEF Kept
<1>3. Owned'
  BY <1>1, <1>2 DEF AssuranceInv, Owned, SameRow, CandidatesOf
<1>4. Complete'
  BY <1>1, <1>2 DEF AssuranceInv, Complete, SameRow
<1>5. AcceptedPassed'
  BY <1>1, <1>2 DEF AssuranceInv, AcceptedPassed, SameRow
<1> QED BY <1>3, <1>4, <1>5

\* Rows are appended for a delivery without rows, or for a candidate that has an
\* inconclusive one: in neither case for a candidate that was accepted.
LEMMA AssuranceAppended ==
    ASSUME AssuranceInv, HandedOff \/ Retried, prepared' = prepared
    PROVE  Owned' /\ Complete' /\ AcceptedPassed'
<1>1. PICK c \in Candidates, new \in Seq(Row) :
        /\ rows' = rows \o new
        /\ \A k \in 1..Len(new) : new[k].cand = c /\ c \in CandidatesOf(new[k].delivery)
        /\ \A k \in 1..Len(new), role \in Roles \cup {Manager} :
              \/ \E i \in 1..Len(rows) : rows[i].cand = c /\ rows[i].role = role
              \/ \E l \in 1..Len(new) : new[l].role = role
        /\ c \notin prepared
  <2>0. rows \in Seq(Row) /\ DOMAIN rows = 1..Len(rows)
    BY LenProperties DEF AssuranceInv, TypeOK
  <2>1. CASE HandedOff
    <3>1. PICK d \in Deliveries, c \in Candidates, new \in Seq(Row) :
        /\ rows' = rows \o new /\ HandoffDue(d) /\ c \in CandidatesOf(d)
        /\ \A k \in 1..Len(new) : new[k].delivery = d /\ new[k].cand = c
        /\ \A role \in Roles \cup {Manager} : \E k \in 1..Len(new) : new[k].role = role
      BY <2>1 DEF HandedOff
    <3>2. c \notin prepared
      <4> SUFFICES ASSUME c \in prepared PROVE FALSE
        OBVIOUS
      <4>1. PICK i \in DOMAIN rows : rows[i].cand = c
        BY DEF AssuranceInv, AcceptedPassed
      <4>2. rows[i].delivery \in Deliveries
        <5>1. rows[i] \in Row
          BY <2>0, <4>1, ElementOfSeq
        <5> QED BY <5>1 DEF Row
      <4>3. rows[i].delivery = d
        BY <3>1, <4>1, <4>2, CandidatesApart DEF AssuranceInv, Owned
      <4> QED BY <3>1, <4>3 DEF HandoffDue
    <3> QED BY <3>1, <3>2
  <2>2. CASE Retried
    <3>1. PICK c \in Candidates, new \in Seq(Row) :
        /\ rows' = rows \o new /\ Gate(c) = "INCONCLUSIVE"
        /\ \A k \in 1..Len(new) : \E i \in 1..Len(rows) :
              /\ rows[i].cand = c /\ new[k].cand = c
              /\ new[k].delivery = rows[i].delivery
      BY <2>2 DEF Retried
    <3>2. c \notin prepared
      BY <3>1, GateInconclusiveMeans DEF AssuranceInv, AcceptedPassed
    <3>3. \A k \in 1..Len(new) : new[k].cand = c /\ c \in CandidatesOf(new[k].delivery)
      BY <2>0, <3>1 DEF AssuranceInv, Owned
    <3>4. ASSUME NEW k \in 1..Len(new), NEW role \in Roles \cup {Manager}
          PROVE  \E i \in 1..Len(rows) : rows[i].cand = c /\ rows[i].role = role
      <4>1. PICK i \in 1..Len(rows) : rows[i].cand = c
        BY <3>1
      <4>2. PICK l \in 1..Len(rows) : rows[l].cand = rows[i].cand /\ rows[l].role = role
        BY <2>0 DEF AssuranceInv, Complete
      <4> QED BY <4>1, <4>2
    <3> QED BY <3>1, <3>2, <3>3, <3>4
  <2> QED BY <2>1, <2>2
<1> DEFINE m == Len(rows)
           n == Len(new)
<1>2. m \in Nat /\ n \in Nat /\ DOMAIN rows = 1..m /\ rows \in Seq(Row)
  BY LenProperties DEF AssuranceInv, TypeOK
<1>3. /\ DOMAIN rows' = 1..m + n
      /\ \A i \in 1..m : rows'[i] = rows[i]
      /\ \A k \in 1..n : rows'[m + k] = new[k]
  <2>1. /\ rows' \in Seq(Row) /\ Len(rows') = m + n
        /\ \A i \in 1..m + n : rows'[i] = IF i <= m THEN rows[i] ELSE new[i - m]
    BY <1>1, <1>2, ConcatProperties
  <2>2. DOMAIN rows' = 1..m + n
    BY <2>1, LenProperties
  <2> HIDE DEF m, n
  <2>3. \A i \in 1..m : rows'[i] = rows[i]
    BY <1>2, <2>1
  <2>4. ASSUME NEW k \in 1..n PROVE rows'[m + k] = new[k]
    <3>1. m + k \in 1..m + n /\ ~(m + k <= m) /\ (m + k) - m = k
      BY <1>2
    <3> QED BY <2>1, <3>1
  <2> QED BY <2>2, <2>3, <2>4
<1> HIDE DEF m, n
<1>4. ASSUME NEW j \in DOMAIN rows'
      PROVE  \/ j \in DOMAIN rows /\ rows'[j] = rows[j]
             \/ \E k \in 1..n : j = m + k /\ rows'[j] = new[k]
  <2>1. CASE j \in 1..m
    BY <2>1, <1>2, <1>3
  <2>2. CASE j \notin 1..m
    <3>1. j - m \in 1..n /\ j = m + (j - m)
      BY <1>2, <1>3, <2>2
    <3> QED BY <3>1, <1>3
  <2> QED BY <2>1, <2>2
<1>5. \A i \in DOMAIN rows : i \in DOMAIN rows' /\ rows'[i] = rows[i]
  BY <1>2, <1>3
<1>6. \A k \in 1..n : m + k \in DOMAIN rows' /\ rows'[m + k] = new[k]
  BY <1>2, <1>3
<1>7. Owned'
  BY <1>1, <1>4 DEF AssuranceInv, Owned, CandidatesOf, n
<1>8. Complete'
  <2> SUFFICES ASSUME NEW j \in DOMAIN rows', NEW role \in Roles \cup {Manager}
               PROVE  \E l \in DOMAIN rows' :
                         rows'[l].cand = rows'[j].cand /\ rows'[l].role = role
    BY DEF Complete
  <2>1. CASE j \in DOMAIN rows /\ rows'[j] = rows[j]
    BY <2>1, <1>5 DEF AssuranceInv, Complete
  <2>2. ASSUME NEW k \in 1..n, rows'[j] = new[k]
        PROVE  \E l \in DOMAIN rows' :
                  rows'[l].cand = rows'[j].cand /\ rows'[l].role = role
    <3>1. CASE \E i \in 1..m : rows[i].cand = c /\ rows[i].role = role
      BY <1>1, <1>2, <1>5, <2>2, <3>1 DEF n
    <3>2. CASE \E l \in 1..n : new[l].role = role
      <4>1. PICK l \in 1..n : new[l].role = role
        BY <3>2
      <4>2. m + l \in DOMAIN rows' /\ rows'[m + l] = new[l]
        BY <1>6
      <4>3. new[l].cand = c /\ rows'[j].cand = c
        BY <1>1, <2>2 DEF n
      <4> QED BY <4>1, <4>2, <4>3
    <3> QED BY <1>1, <2>2, <3>1, <3>2 DEF m, n
  <2> QED BY <1>4, <2>1, <2>2
<1>9. AcceptedPassed'
  <2> SUFFICES ASSUME NEW p \in prepared
               PROVE  /\ \E i \in DOMAIN rows' : rows'[i].cand = p
                      /\ \A i \in DOMAIN rows' : rows'[i].cand = p => rows'[i].result = "pass"
    BY DEF AcceptedPassed
  <2>1. /\ \E i \in DOMAIN rows : rows[i].cand = p
        /\ \A i \in DOMAIN rows : rows[i].cand = p => rows[i].result = "pass"
    BY DEF AssuranceInv, AcceptedPassed
  <2>2. \E i \in DOMAIN rows' : rows'[i].cand = p
    BY <1>5, <2>1
  <2>3. ASSUME NEW i \in DOMAIN rows', rows'[i].cand = p PROVE rows'[i].result = "pass"
    <3>1. \A k \in 1..n : new[k].cand # p
      BY <1>1 DEF n
    <3>2. i \in DOMAIN rows /\ rows'[i] = rows[i]
      BY <1>4, <2>3, <3>1
    <3> QED BY <2>1, <2>3, <3>2
  <2> QED BY <2>2, <2>3
<1> QED BY <1>7, <1>8, <1>9

\* Every step keeps what the acceptance of a candidate rests on.
LEMMA AssuranceStep ==
    ASSUME AssuranceInv, [Next]_vars
    PROVE  AssuranceInv'
<1>1. RowsType /\ RestType
  BY TypeParts DEF AssuranceInv
<1>2. TypeOK'
  BY <1>1, RowsTypeKept, RestTypeKept DEF TypeOK, RowsType, RestType, JobType
<1>3. CASE prepared' = prepared
  <2>1. CASE Kept
    BY <1>2, <1>3, <2>1, AssuranceKept DEF AssuranceInv
  <2>2. CASE HandedOff \/ Retried
    BY <1>2, <1>3, <2>2, AssuranceAppended DEF AssuranceInv
  <2> QED BY <1>1, <2>1, <2>2, StepShape
<1>4. CASE rows' = rows /\ \E c \in Candidates :
              GatePassed(c) /\ prepared' = prepared \cup {c}
  <2>1. Owned' /\ Complete'
    BY <1>4 DEF AssuranceInv, Owned, Complete, CandidatesOf
  <2>2. AcceptedPassed'
    BY <1>4, GatePassedMeans DEF AssuranceInv, AcceptedPassed
  <2> QED BY <1>2, <2>1, <2>2 DEF AssuranceInv
<1> QED BY <1>1, <1>3, <1>4, StepShape

\* What the acceptance of a candidate rests on holds throughout.
LEMMA AssuranceInvariant == Spec => []AssuranceInv
<1>1. Init => AssuranceInv
  <2>1. Init => TypeOK
    BY InitType
  <2>2. Init => Owned /\ Complete /\ AcceptedPassed
    BY DEF Init, Owned, Complete, AcceptedPassed
  <2> QED BY <2>1, <2>2 DEF AssuranceInv
<1>2. AssuranceInv /\ [Next]_vars => AssuranceInv'
  BY AssuranceStep
<1> QED BY <1>1, <1>2, PTL DEF Spec

\* A candidate that prepare_release accepted has passed with every assessor and
\* with the manager and failed with none, then and ever after.
THEOREM PreparedStaysAssured == Spec => []PreparedIsAssured
<1>1. AssuranceInv => PreparedIsAssured
  BY DEF AssuranceInv, Complete, AcceptedPassed, PreparedIsAssured, PassedBy, FailedBy
<1> QED BY <1>1, AssuranceInvariant, PTL
-----------------------------------------------------------------------------
(* What is handed off and what is released. *)

\* The rows of a delivery are of one candidate.
OneCandidate ==
    \A i, k \in DOMAIN rows :
        rows[i].delivery = rows[k].delivery => rows[i].cand = rows[k].cand

\* The rework exists when it was ordered, and the delivery it replaces satisfies
\* no dependency from then on.  Until then only commits of the first delivery
\* are integrated and bound.
Replaced ==
    /\ delivery["first"].cand \notin ReworkCandidates
    /\ integration.needs = "first" =>
          /\ delivery["rework"].status = "ABSENT" /\ delivery["rework"].execs = 0
          /\ integration.merged \notin ReworkCandidates
          /\ release.bound \notin ReworkCandidates
    /\ integration.needs = "rework" => delivery["first"].outcome # "none"

HasRow(d) == \E i \in DOMAIN rows : rows[i].delivery = d
Handed(d, c) == \E i \in DOMAIN rows : rows[i].delivery = d /\ rows[i].cand = c

\* What the approval of a release leaves behind: the delivery has its rows, so
\* that it gets no others, and those of the bound commit have passed.
Cleared ==
    /\ release.status = "SUCCEEDED" => release.gate = "approved"
    /\ /\ release.status \in {"RUNNING", "SUCCEEDED"} /\ release.gate = "approved"
       /\ release.bound \in CandidatesOf(integration.needs)
       => /\ HasRow(integration.needs)
          /\ Handed(integration.needs, release.bound) =>
                \A role \in Roles : PassedBy(release.bound, role)

\* What ReleasedIsAssured and OneHandoff need to be inductive.
ReleaseInv ==
    TypeOK /\ OneCandidate /\ OneHandoff /\ Replaced /\ Cleared

\* Where the rows come from that a step leaves.
LEMMA RowsFrom ==
    ASSUME RowsType, [Next]_vars, NEW j \in DOMAIN rows'
    PROVE  \/ j \in DOMAIN rows /\ SameRow(rows[j], rows'[j])
           \/ /\ j \notin DOMAIN rows
              /\ \/ HandedOff /\ HandoffDue(rows'[j].delivery)
                 \/ /\ rows'[j].prior # 0
                    /\ Handed(rows'[j].delivery, rows'[j].cand)
<1> DEFINE Goal == \/ j \in DOMAIN rows /\ SameRow(rows[j], rows'[j])
                   \/ /\ j \notin DOMAIN rows
                      /\ \/ HandedOff /\ HandoffDue(rows'[j].delivery)
                         \/ /\ rows'[j].prior # 0
                            /\ Handed(rows'[j].delivery, rows'[j].cand)
<1>1. rows \in Seq(Row) /\ DOMAIN rows = 1..Len(rows) /\ Len(rows) \in Nat
  BY LenProperties DEF RowsType
<1>2. CASE Kept
  <2>1. DOMAIN rows' = 1..Len(rows)
    BY <1>2, LenProperties DEF Kept
  <2> QED BY <1>1, <1>2, <2>1 DEF Kept
<1>3. ASSUME NEW new \in Seq(Row), rows' = rows \o new,
             \A k \in 1..Len(new) :
                \/ HandedOff /\ HandoffDue(new[k].delivery)
                \/ new[k].prior # 0 /\ Handed(new[k].delivery, new[k].cand)
      PROVE  Goal
  <2>1. Len(new) \in Nat
    BY LenProperties
  <2>2. /\ rows' \in Seq(Row) /\ Len(rows') = Len(rows) + Len(new)
        /\ \A k \in 1..Len(rows) + Len(new) :
              rows'[k] = IF k <= Len(rows) THEN rows[k] ELSE new[k - Len(rows)]
    BY <1>1, <1>3, ConcatProperties
  <2>3. j \in 1..Len(rows) + Len(new)
    BY <2>2, LenProperties
  <2>4. CASE j \in 1..Len(rows)
    <3>1. rows'[j] = rows[j]
      BY <1>1, <2>1, <2>2, <2>3, <2>4
    <3> QED BY <1>1, <2>4, <3>1 DEF SameRow
  <2>5. CASE j \notin 1..Len(rows)
    <3>1. j - Len(rows) \in 1..Len(new) /\ ~(j <= Len(rows))
      BY <1>1, <2>1, <2>3, <2>5
    <3>2. rows'[j] = new[j - Len(rows)]
      BY <2>2, <2>3, <3>1
    <3> QED BY <1>1, <1>3, <2>5, <3>1, <3>2
  <2> QED BY <2>4, <2>5
<1>4. CASE HandedOff
  <2>1. PICK d \in Deliveries, new \in Seq(Row) :
           /\ rows' = rows \o new /\ HandoffDue(d)
           /\ \A k \in 1..Len(new) : new[k].delivery = d
    BY <1>4 DEF HandedOff
  <2> QED BY <1>3, <1>4, <2>1
<1>5. CASE Retried
  <2>1. PICK c \in Candidates, new \in Seq(Row) :
           /\ rows' = rows \o new
           /\ \A k \in 1..Len(new) : \E i \in 1..Len(rows) :
                 /\ rows[i].cand = c /\ new[k].cand = c
                 /\ new[k].delivery = rows[i].delivery /\ new[k].prior # 0
    BY <1>5 DEF Retried
  <2>2. \A k \in 1..Len(new) : new[k].prior # 0 /\ Handed(new[k].delivery, new[k].cand)
    BY <1>1, <2>1 DEF Handed
  <2> QED BY <1>3, <2>1, <2>2
<1> QED BY <1>2, <1>4, <1>5, StepShape

\* A row stays, and a verdict stays with it.
LEMMA RowsStay ==
    ASSUME RowsType, [Next]_vars, NEW i \in DOMAIN rows
    PROVE  i \in DOMAIN rows' /\ SameRow(rows[i], rows'[i])
<1>1. rows \in Seq(Row) /\ DOMAIN rows = 1..Len(rows) /\ Len(rows) \in Nat
  BY LenProperties DEF RowsType
<1>2. CASE Kept
  <2>1. DOMAIN rows' = 1..Len(rows)
    BY <1>2, LenProperties DEF Kept
  <2> QED BY <1>1, <1>2, <2>1 DEF Kept
<1>3. CASE HandedOff \/ Retried
  <2>1. PICK new \in Seq(Row) : rows' = rows \o new
    BY <1>3 DEF HandedOff, Retried
  <2>2. Len(new) \in Nat
    BY LenProperties
  <2>3. DOMAIN rows' = 1..Len(rows) + Len(new) /\ rows'[i] = rows[i]
    BY <1>1, <2>1, ConcatProperties, LenProperties
  <2> QED BY <1>1, <2>2, <2>3 DEF SameRow
<1> QED BY <1>2, <1>3, StepShape

\* The rows of one handoff are of one delivery and one candidate, and no two of
\* them of one role.
LEMMA HandoffApart ==
    ASSUME RowsType, HandedOff, NEW j \in DOMAIN rows', NEW k \in DOMAIN rows',
           j \notin DOMAIN rows, k \notin DOMAIN rows
    PROVE  /\ rows'[j].cand = rows'[k].cand
           /\ rows'[j].role = rows'[k].role => j = k
<1>1. rows \in Seq(Row) /\ DOMAIN rows = 1..Len(rows) /\ Len(rows) \in Nat
  BY LenProperties DEF RowsType
<1>2. PICK c \in Candidates, new \in Seq(Row) :
         /\ rows' = rows \o new
         /\ \A l \in 1..Len(new) : new[l].cand = c
         /\ \A l, m \in 1..Len(new) : new[l].role = new[m].role => l = m
  BY DEF HandedOff
<1>3. Len(new) \in Nat
  BY LenProperties
<1>4. /\ rows' \in Seq(Row) /\ Len(rows') = Len(rows) + Len(new)
      /\ \A l \in 1..Len(rows) + Len(new) :
            rows'[l] = IF l <= Len(rows) THEN rows[l] ELSE new[l - Len(rows)]
  BY <1>1, <1>2, ConcatProperties
<1>5. ASSUME NEW l \in DOMAIN rows', l \notin DOMAIN rows
      PROVE  l - Len(rows) \in 1..Len(new) /\ rows'[l] = new[l - Len(rows)] /\ l \in Int
  <2>1. l \in 1..Len(rows) + Len(new)
    BY <1>4, LenProperties
  <2>2. l - Len(rows) \in 1..Len(new) /\ ~(l <= Len(rows))
    BY <1>1, <1>3, <1>5, <2>1
  <2> QED BY <1>4, <2>1, <2>2
<1>6. rows'[j].cand = c /\ rows'[k].cand = c
  BY <1>2, <1>5
<1>7. rows'[j].role = rows'[k].role => j - Len(rows) = k - Len(rows)
  BY <1>2, <1>5
<1>8. j \in Int /\ k \in Int
  BY <1>5
<1> QED BY <1>1, <1>6, <1>7, <1>8

\* The two facts about two rows: those that stay are as they were, one that is
\* handed off meets no row of its delivery but those handed off with it, and a
\* retry is of the candidate of the row it repeats and no first assessment.
LEMMA PairsStep ==
    ASSUME TypeOK, OneCandidate, OneHandoff, [Next]_vars
    PROVE  OneCandidate' /\ OneHandoff'
<1>0. RowsType
  BY TypeParts
<1> SUFFICES ASSUME NEW j \in DOMAIN rows', NEW k \in DOMAIN rows',
                    rows'[j].delivery = rows'[k].delivery
             PROVE  /\ rows'[j].cand = rows'[k].cand
                    /\ rows'[j].role = rows'[k].role /\ rows'[j].prior = 0
                          /\ rows'[k].prior = 0 => j = k
  BY DEF OneCandidate, OneHandoff
<1> DEFINE Old(i) == i \in DOMAIN rows /\ SameRow(rows[i], rows'[i])
           Fresh(i) == i \notin DOMAIN rows /\ HandedOff /\ HandoffDue(rows'[i].delivery)
           Again(i) == /\ i \notin DOMAIN rows /\ rows'[i].prior # 0
                       /\ Handed(rows'[i].delivery, rows'[i].cand)
<1>1. /\ Old(j) \/ Fresh(j) \/ Again(j)
      /\ Old(k) \/ Fresh(k) \/ Again(k)
  BY <1>0, RowsFrom
<1>2. CASE Old(j) /\ Old(k)
  BY <1>2 DEF SameRow, OneCandidate, OneHandoff
<1>3. CASE Fresh(j) /\ Fresh(k)
  BY <1>0, <1>3, HandoffApart
<1>4. ASSUME NEW i \in DOMAIN rows', NEW l \in DOMAIN rows', Fresh(i),
             Old(l) \/ Again(l), rows'[i].delivery = rows'[l].delivery
      PROVE  FALSE
  BY <1>4 DEF SameRow, HandoffDue, Handed
<1>5. ASSUME NEW i \in DOMAIN rows', NEW l \in DOMAIN rows', Again(i),
             Old(l) \/ Again(l), rows'[i].delivery = rows'[l].delivery
      PROVE  rows'[i].cand = rows'[l].cand /\ rows'[i].prior # 0
  <2>1. PICK m \in DOMAIN rows :
            rows[m].delivery = rows'[i].delivery /\ rows[m].cand = rows'[i].cand
    BY <1>5 DEF Handed
  <2>2. \E n \in DOMAIN rows : rows[n].delivery = rows'[l].delivery /\ rows[n].cand = rows'[l].cand
    BY <1>5 DEF Handed, SameRow
  <2> QED BY <1>5, <2>1, <2>2 DEF OneCandidate
<1> HIDE DEF Old, Fresh, Again
<1> QED BY <1>1, <1>2, <1>3, <1>4, <1>5

\* What is known of rows outlasts every step, and a delivery that has rows gets
\* none of another candidate.
LEMMA RowsKnown ==
    ASSUME RowsType, [Next]_vars, NEW d, NEW c
    PROVE  /\ HasRow(d) => HasRow(d)'
           /\ HasRow(d) /\ Handed(d, c)' => Handed(d, c)
           /\ \A role \in Roles : PassedBy(c, role) => PassedBy(c, role)'
<1>1. HasRow(d) => HasRow(d)'
  BY RowsStay DEF HasRow, SameRow
<1>2. ASSUME HasRow(d), NEW j \in DOMAIN rows', rows'[j].delivery = d, rows'[j].cand = c
      PROVE  Handed(d, c)
  <2>1. ~HandoffDue(d)
    BY <1>2 DEF HasRow, HandoffDue
  <2>2. (j \in DOMAIN rows /\ SameRow(rows[j], rows'[j])) \/ Handed(d, c)
    BY <1>2, <2>1, RowsFrom
  <2> QED BY <1>2, <2>2 DEF Handed, SameRow
<1>3. HasRow(d) /\ Handed(d, c)' => Handed(d, c)
  BY <1>2 DEF Handed
<1>4. ASSUME NEW role \in Roles, PassedBy(c, role) PROVE PassedBy(c, role)'
  BY <1>4, RowsStay DEF PassedBy, SameRow
<1> QED BY <1>1, <1>3, <1>4

\* The rework is only there once the integration waits for it.
LEMMA ReplacedStep ==
    ASSUME TypeOK, Replaced, [Next]_vars
    PROVE  Replaced'
<1>0. RestType /\ RowsType
  BY TypeParts
<1>t. /\ delivery["first"] \in JobType /\ delivery["rework"] \in JobType
      /\ DOMAIN delivery = {"first", "rework"} /\ NoCandidate \notin ReworkCandidates
      /\ integration \in [status : Statuses, needs : Deliveries, merged : Candidate]
      /\ release \in ReleaseType
  BY <1>0, GateAssumption DEF RestType, Deliveries, ReleaseType
<1>b. ASSUME UNCHANGED <<delivery, integration>>,
             release'.bound \in {release.bound, integration.merged}
      PROVE  Replaced'
  BY <1>b DEF Replaced
<1>1. ASSUME NEW d \in Deliveries, DeliveryStep(d) PROVE Replaced'
  <2>1. UNCHANGED <<integration, release>>
    BY <1>1 DEF DeliveryStep, StartDelivery, DeliveryFails, RetryDelivery, RecoverDelivery,
                DeliverySucceeds, DeliveryUnchanged
  <2>2. ASSUME NEW job, delivery' = [delivery EXCEPT ![d] = job],
               d = "first" => /\ job.cand \notin ReworkCandidates
                              /\ delivery[d].outcome # "none" => job.outcome # "none",
               d = "rework" => ~(delivery[d].status = "ABSENT" /\ delivery[d].execs = 0)
        PROVE  Replaced'
    <3>1. d = "first" \/ d = "rework"
      BY DEF Deliveries
    <3>2. CASE d = "first"
      <4>1. delivery'["first"] = job /\ delivery'["rework"] = delivery["rework"]
        BY <1>t, <2>2, <3>2
      <4> QED BY <2>1, <2>2, <3>2, <4>1 DEF Replaced
    <3>3. CASE d = "rework"
      <4>1. delivery'["first"] = delivery["first"] /\ integration.needs # "first"
        BY <1>t, <2>2, <3>3 DEF Replaced
      <4> QED BY <2>1, <4>1 DEF Replaced
    <3> QED BY <3>1, <3>2, <3>3
  <2>3. delivery[d] \in JobType /\ (d = "first" => delivery[d].cand \notin ReworkCandidates)
    BY <1>t DEF Deliveries, Replaced
  <2>4. CASE StartDelivery(d)
    <3>1. delivery[d].status # "ABSENT" /\ delivery' = [delivery EXCEPT ![d] = Started(delivery[d])]
      BY <2>4 DEF StartDelivery
    <3>2. Started(delivery[d]).cand = delivery[d].cand
          /\ Started(delivery[d]).outcome = delivery[d].outcome
      BY <2>3 DEF Started, JobType
    <3> QED BY <2>2, <2>3, <3>1, <3>2
  <2>5. ASSUME NEW s PROVE /\ Ended(delivery[d], s).cand = delivery[d].cand
                           /\ Ended(delivery[d], s).outcome = delivery[d].outcome
                           /\ Lost(delivery[d]).cand = delivery[d].cand
                           /\ Lost(delivery[d]).outcome = delivery[d].outcome
    BY <2>3 DEF Ended, Lost, JobType
  <2>6. CASE DeliveryFails(d)
    <3>1. delivery[d].execs # 0
      BY <2>3, <2>6 DEF DeliveryFails, JobType
    <3>2. \/ delivery' = [delivery EXCEPT ![d] = Lost(delivery[d])]
          \/ \E s : delivery' = [delivery EXCEPT ![d] = Ended(delivery[d], s)]
      BY <2>6 DEF DeliveryFails
    <3> QED BY <2>2, <2>3, <2>5, <3>1, <3>2
  <2>7. CASE RetryDelivery(d)
    <3>1. delivery[d].execs # 0 /\ delivery' = [delivery EXCEPT ![d] = Ended(delivery[d], "READY")]
      BY <2>3, <2>7 DEF RetryDelivery, JobType
    <3> QED BY <2>2, <2>3, <2>5, <3>1
  <2>8. CASE RecoverDelivery(d)
    <3> DEFINE job == [delivery[d] EXCEPT !.status = "READY"]
    <3>1. delivery[d].status # "ABSENT" /\ delivery' = [delivery EXCEPT ![d] = job]
      BY <2>8 DEF RecoverDelivery
    <3>2. job.cand = delivery[d].cand /\ job.outcome = delivery[d].outcome
      BY <2>3 DEF JobType
    <3> HIDE DEF job
    <3> QED BY <2>2, <2>3, <3>1, <3>2
  <2>9. ASSUME NEW c \in Candidates, DeliverySucceeds(d, c) PROVE Replaced'
    <3> DEFINE job == [Ended(delivery[d], "SUCCEEDED") EXCEPT !.cand = c]
    <3>1. delivery[d].execs # 0 /\ c \in CandidatesOf(d) /\ delivery' = [delivery EXCEPT ![d] = job]
      BY <2>3, <2>9 DEF DeliverySucceeds, JobType
    <3>2. job.cand = c /\ job.outcome = delivery[d].outcome
      BY <2>3 DEF Ended, JobType
    <3>3. d = "first" => c \notin ReworkCandidates
      BY <3>1 DEF CandidatesOf
    <3> HIDE DEF job
    <3> QED BY <2>2, <3>1, <3>2, <3>3
  <2>10. CASE DeliveryUnchanged(d)
    <3> DEFINE job == [Ended(delivery[d], "SUCCEEDED") EXCEPT !.outcome = "NO_CHANGE",
                                                              !.cand = NoCandidate]
    <3>1. delivery[d].execs # 0 /\ delivery' = [delivery EXCEPT ![d] = job]
      BY <2>3, <2>10 DEF DeliveryUnchanged, JobType
    <3>2. job.cand = NoCandidate /\ job.outcome = "NO_CHANGE"
      BY <2>3 DEF Ended, JobType
    <3> HIDE DEF job
    <3> QED BY <1>t, <2>2, <3>1, <3>2
  <2> QED BY <1>1, <2>4, <2>6, <2>7, <2>8, <2>9, <2>10 DEF DeliveryStep
<1>2. ASSUME NEW i \in DOMAIN rows, RowStep(i) PROVE Replaced'
  <2>1. CASE StartRow(i) \/ RowFails(i) \/ RetryRow(i) \/ RecoverRow(i) \/ Aggregate(i)
    BY <1>b, <2>1 DEF StartRow, RowFails, RetryRow, RecoverRow, Aggregate
  <2>2. ASSUME NEW result, Judge(i, result) PROVE Replaced'
    <3>1. release'.bound \in {release.bound, integration.merged}
      BY <1>t, <2>2 DEF Judge, Promoted, ReleaseType
    <3> QED BY <1>b, <2>2, <3>1 DEF Judge
  <2> QED BY <1>2, <2>1, <2>2 DEF RowStep, JudgeOutput, JudgeInvalid
<1>3. CASE IntegrationStep
  <2>1. CASE StartIntegration
    BY <1>t, <2>1 DEF StartIntegration, Replaced
  <2>2. CASE IntegrationFails
    BY <1>t, <2>2 DEF IntegrationFails, Replaced
  <2>3. CASE IntegrationSucceeds
    <3>1. release'.bound \in {release.bound, integration.merged}
      BY <1>t, <2>3 DEF IntegrationSucceeds, Promoted, ReleaseType
    <3>2. /\ integration'.needs = integration.needs /\ integration'.merged = integration.merged
          /\ delivery' = delivery
      BY <1>t, <2>3 DEF IntegrationSucceeds
    <3> QED BY <3>1, <3>2 DEF Replaced
  <2> QED BY <1>3, <2>1, <2>2, <2>3 DEF IntegrationStep
<1>4. CASE ReleaseStep
  <2>1. release'.bound \in {release.bound, integration.merged}
    <3>1. CASE StartRelease
      BY <1>t, <3>1 DEF StartRelease, ReleaseType
    <3>2. CASE \E approved \in BOOLEAN : EvaluateRelease(approved)
      BY <1>t, <3>2 DEF EvaluateRelease, ReleaseType
    <3>3. CASE ReleaseSucceeds \/ ReleaseFails \/ ReconcileRelease
      BY <1>t, <3>3 DEF ReleaseSucceeds, ReleaseFails, ReconcileRelease, Successor, ReleaseType
    <3> QED BY <1>4, <3>1, <3>2, <3>3 DEF ReleaseStep
  <2>2. UNCHANGED <<delivery, integration>>
    BY <1>4 DEF ReleaseStep, StartRelease, EvaluateRelease, ReleaseSucceeds, ReleaseFails,
                ReconcileRelease
  <2> QED BY <1>b, <2>1, <2>2
<1>5. ASSUME NEW c \in Candidates, RetryInconclusive(c) \/ PrepareRelease(c) PROVE Replaced'
  BY <1>b, <1>5 DEF RetryInconclusive, PrepareRelease
<1>6. CASE OrderRework
  <2>1. delivery'["first"] = [delivery["first"] EXCEPT !.outcome = "INVALIDATED"]
    BY <1>t, <1>6 DEF OrderRework
  <2>2. delivery'["first"].outcome # "none" /\ delivery'["first"].cand = delivery["first"].cand
    BY <1>t, <2>1 DEF JobType
  <2>3. integration'.needs = "rework"
    BY <1>t, <1>6 DEF OrderRework, Rewired
  <2> QED BY <2>2, <2>3 DEF Replaced
<1>7. CASE UNCHANGED vars
  BY <1>b, <1>7 DEF vars
<1> QED BY <1>1, <1>2, <1>3, <1>4, <1>5, <1>6, <1>7 DEF Next

\* A set of row numbers has a last one.
LEMMA LastOf ==
    ASSUME NEW n \in Nat, NEW T, T \subseteq 1..n, T # {}
    PROVE  \E i \in T : \A k \in T : k <= i
<1> DEFINE Left == {n - i : i \in T}
<1>1. Left \subseteq Nat /\ Left # {}
  <2>1. \A i \in T : n - i \in Nat
    OBVIOUS
  <2>2. PICK i : i \in T
    OBVIOUS
  <2>3. n - i \in Left
    BY <2>2
  <2> QED BY <2>1, <2>3
<1> DEFINE Less == OpToRel(<, Nat)
<1>2. IsWellFoundedOn(Less, Nat)
  BY NatLessThanWellFounded
<1>3. PICK x \in Left : \A y \in Left : ~ (<<y, x>> \in Less)
  <2> HIDE DEF Left, Less
  <2> QED BY <1>1, <1>2, WFMin
<1>4. \A y \in Left : ~(y < x)
  BY <1>1, <1>3 DEF OpToRel
<1>5. PICK i \in T : x = n - i
  OBVIOUS
<1>6. ASSUME NEW k \in T PROVE k <= i
  BY <1>4, <1>5
<1> QED BY <1>6

\* The evidence that the gates read for a role is a row of the delivery's candidate.
LEMMA LastResultPassed ==
    ASSUME RowsType, NEW d, NEW c, NEW role, LastResult(d, c, role) = "pass"
    PROVE  \E i \in DOMAIN rows : /\ rows[i].delivery = d /\ rows[i].cand = c
                                  /\ rows[i].role = role /\ rows[i].result = "pass"
<1> DEFINE mine == RowsOf(d, c, {role})
           last == CHOOSE i \in mine : \A k \in mine : k <= i
<1>1. rows \in Seq(Row) /\ DOMAIN rows = 1..Len(rows) /\ Len(rows) \in Nat
  BY LenProperties DEF RowsType
<1>2. mine # {} /\ rows[last].result = "pass"
  BY DEF LastResult
<1>3. mine \subseteq 1..Len(rows)
  BY <1>1 DEF RowsOf
<1>4. \E i \in mine : \A k \in mine : k <= i
  <2> HIDE DEF mine
  <2> QED BY <1>1, <1>2, <1>3, LastOf
<1>5. last \in mine
  <2> HIDE DEF mine
  <2> QED BY <1>4
<1> HIDE DEF last
<1> QED BY <1>2, <1>5 DEF RowsOf

\* An approval is of the delivery that the integration waits for.  All rows of
\* that delivery are of one candidate, the one whose evidence was read; so when
\* the bound commit has a row there, it is that candidate.
LEMMA ApprovalClears ==
    ASSUME TypeOK, OneCandidate, Replaced, QaPackageComplete
    PROVE  /\ HasRow(integration.needs)
           /\ Handed(integration.needs, release.bound) =>
                 \A role \in Roles : PassedBy(release.bound, role)
<1>0. RestType /\ RowsType
  BY TypeParts
<1>1. PICK d \in StoryDelivery : DeliveryQaPassed(d)
  BY DEF QaPackageComplete
<1>2. integration.needs \in {"first", "rework"} /\ d \in {"first", "rework"}
  BY <1>0 DEF RestType, Deliveries, StoryDelivery
<1>3. d = integration.needs
  <2>1. d = "first" => integration.needs # "rework"
    BY <1>1 DEF Replaced, StoryDelivery, Satisfies
  <2>2. d = "rework" => integration.needs # "first"
    BY <1>1 DEF Replaced, StoryDelivery, Satisfies
  <2> QED BY <1>2, <2>1, <2>2
<1>4. HasRow(d)
  BY <1>1 DEF DeliveryQaPassed, ManagerSucceeded, HasRow
<1>5. ASSUME Handed(d, release.bound), NEW role \in Roles
      PROVE  PassedBy(release.bound, role)
  <2>1. LastResult(d, delivery[d].cand, role) = "pass"
    BY <1>1 DEF DeliveryQaPassed
  <2>2. PICK i \in DOMAIN rows : /\ rows[i].delivery = d /\ rows[i].cand = delivery[d].cand
                                 /\ rows[i].role = role /\ rows[i].result = "pass"
    BY <1>0, <2>1, LastResultPassed
  <2>3. rows[i].cand = release.bound
    BY <1>5, <2>2 DEF Handed, OneCandidate
  <2> QED BY <2>2, <2>3 DEF PassedBy
<1> QED BY <1>3, <1>4, <1>5

\* What an approval leaves behind outlasts the steps that keep the release, and
\* the rework: that gets commits of its own.
LEMMA ClearedStep ==
    ASSUME TypeOK, OneCandidate, Replaced, Cleared, [Next]_vars
    PROVE  Cleared'
<1>0. RestType /\ RowsType
  BY TypeParts
<1>t. /\ integration \in [status : Statuses, needs : Deliveries, merged : Candidate]
      /\ release \in ReleaseType
  BY <1>0 DEF RestType, ReleaseType
<1>k. ASSUME integration'.needs = integration.needs,
             release'.bound = release.bound, release'.gate = release.gate,
             \/ release'.status = release.status
             \/ release.status = "RUNNING" /\ release.gate = "approved"
      PROVE  Cleared'
  <2> DEFINE n == integration.needs
             b == release.bound
  <2>1. release'.status = "SUCCEEDED" => release'.gate = "approved"
    BY <1>k DEF Cleared
  <2>2. ASSUME release'.status \in {"RUNNING", "SUCCEEDED"}, release'.gate = "approved",
               b \in CandidatesOf(n)
        PROVE  HasRow(n)' /\ (Handed(n, b)' => \A role \in Roles : PassedBy(b, role)')
    <3>1. HasRow(n) /\ (Handed(n, b) => \A role \in Roles : PassedBy(b, role))
      BY <1>k, <2>2 DEF Cleared
    <3>2. PICK m, x : m = n /\ x = b
      OBVIOUS
    <3>3. /\ HasRow(m) => \E i \in DOMAIN rows' : rows'[i].delivery = m
          /\ HasRow(m) /\ (\E i \in DOMAIN rows' : rows'[i].delivery = m /\ rows'[i].cand = x)
                => Handed(m, x)
          /\ \A role \in Roles : PassedBy(x, role) =>
                \E i \in DOMAIN rows' : /\ rows'[i].cand = x /\ rows'[i].role = role
                                        /\ rows'[i].result = "pass"
      BY <1>0, RowsKnown DEF HasRow, Handed, PassedBy
    <3>4. n' = n /\ b' = b
      BY <1>k
    <3> QED BY <3>1, <3>2, <3>3, <3>4 DEF HasRow, Handed, PassedBy
  <2> QED BY <1>k, <2>1, <2>2 DEF Cleared, CandidatesOf, HasRow, Handed, PassedBy
<1>r. ASSUME release'.status # "SUCCEEDED",
             release'.status # "RUNNING" \/ release'.gate # "approved"
      PROVE  Cleared'
  BY <1>r DEF Cleared
<1>1. ASSUME NEW d \in Deliveries, DeliveryStep(d) PROVE Cleared'
  BY <1>1, <1>k DEF DeliveryStep, StartDelivery, DeliveryFails, RetryDelivery,
                    RecoverDelivery, DeliverySucceeds, DeliveryUnchanged
<1>p. ASSUME NEW rel \in ReleaseType, NEW met, NEW sha, rel # Promoted(rel, met, sha)
      PROVE  Promoted(rel, met, sha).status = "READY"
  BY <1>p DEF Promoted, ReleaseType
<1>2. ASSUME NEW i \in DOMAIN rows, RowStep(i) PROVE Cleared'
  <2>1. CASE StartRow(i) \/ RowFails(i) \/ RetryRow(i) \/ RecoverRow(i) \/ Aggregate(i)
    BY <1>k, <2>1 DEF StartRow, RowFails, RetryRow, RecoverRow, Aggregate
  <2>2. ASSUME NEW result, Judge(i, result) PROVE Cleared'
    <3>1. integration' = integration /\ (release' = release \/ release'.status = "READY")
      BY <1>p, <1>t, <2>2 DEF Judge
    <3> QED BY <1>k, <1>r, <3>1
  <2> QED BY <1>2, <2>1, <2>2 DEF RowStep, JudgeOutput, JudgeInvalid
<1>3. CASE IntegrationStep
  <2>1. CASE StartIntegration \/ IntegrationFails
    BY <1>k, <1>t, <2>1 DEF StartIntegration, IntegrationFails
  <2>2. CASE IntegrationSucceeds
    <3>1. integration'.needs = integration.needs
      BY <1>t, <2>2 DEF IntegrationSucceeds
    <3>2. CASE release.status \in {"READY", "QUEUED"}
      <4> DEFINE bound == [release EXCEPT !.bound = integration.merged]
      <4>1. bound \in ReleaseType /\ bound.status \in {"READY", "QUEUED"}
        BY <1>t, <3>2 DEF ReleaseType
      <4>2. release' = Promoted(bound, IntegrationQaGatesSatisfied, integration.merged)
        BY <2>2, <3>2 DEF IntegrationSucceeds
      <4>3. release'.status \in {"READY", "QUEUED"}
        <5> HIDE DEF bound
        <5> QED BY <4>1, <4>2, <1>p
      <4> QED BY <1>r, <4>3
    <3>3. CASE release.status \notin {"READY", "QUEUED"}
      <4>1. release' = release
        BY <2>2, <3>3 DEF IntegrationSucceeds, Promoted
      <4> QED BY <1>k, <3>1, <4>1
    <3> QED BY <3>2, <3>3
  <2> QED BY <1>3, <2>1, <2>2 DEF IntegrationStep
<1>4. CASE ReleaseStep
  <2>0. integration' = integration /\ rows' = rows
    BY <1>4 DEF ReleaseStep, StartRelease, EvaluateRelease, ReleaseSucceeds, ReleaseFails,
                ReconcileRelease
  <2>1. CASE StartRelease \/ ReleaseFails \/ ReconcileRelease
    BY <1>r, <1>t, <2>1 DEF StartRelease, ReleaseFails, ReconcileRelease, Successor,
                            ReleaseType
  <2>2. CASE ReleaseSucceeds
    <3>1. /\ release'.bound = release.bound /\ release'.gate = release.gate
          /\ release.status = "RUNNING" /\ release.gate = "approved"
      BY <1>t, <2>2 DEF ReleaseSucceeds, ReleaseType
    <3> QED BY <1>k, <2>0, <3>1
  <2>3. CASE EvaluateRelease(FALSE)
    <3>1. release'.status = "RUNNING" /\ release'.gate = "rejected"
      BY <1>t, <2>3 DEF EvaluateRelease, ReleaseType
    <3> QED BY <1>r, <3>1
  <2>4. CASE EvaluateRelease(TRUE)
    <3>1. /\ release'.status = "RUNNING" /\ release'.bound = release.bound
          /\ QaPackageComplete
      BY <1>t, <2>4 DEF EvaluateRelease, ReleaseType
    <3>2. /\ HasRow(integration.needs)
          /\ Handed(integration.needs, release.bound) =>
                \A role \in Roles : PassedBy(release.bound, role)
      BY <3>1, ApprovalClears
    <3>3. release'.gate = "approved"
      BY <1>t, <2>4 DEF EvaluateRelease, ReleaseType
    <3> QED BY <2>0, <3>1, <3>2, <3>3 DEF Cleared, HasRow, Handed, PassedBy
  <2> QED BY <1>4, <2>1, <2>2, <2>3, <2>4 DEF ReleaseStep
<1>5. ASSUME NEW c \in Candidates, RetryInconclusive(c) \/ PrepareRelease(c) PROVE Cleared'
  BY <1>5, <1>k DEF RetryInconclusive, PrepareRelease
<1>6. CASE OrderRework
  <2>1. integration'.needs = "rework" /\ release' = release
    BY <1>t, <1>6 DEF OrderRework, Rewired
  <2>2. CASE integration.needs = "rework"
    BY <1>k, <2>1, <2>2
  <2>3. CASE integration.needs = "first"
    <3>1. release'.bound \notin CandidatesOf("rework")
      BY <2>1, <2>3 DEF Replaced, CandidatesOf
    <3> QED BY <2>1, <3>1 DEF Cleared, CandidatesOf
  <2> QED BY <1>t, <2>2, <2>3 DEF Deliveries
<1>7. CASE UNCHANGED vars
  BY <1>k, <1>7 DEF vars
<1> QED BY <1>1, <1>2, <1>3, <1>4, <1>5, <1>6, <1>7 DEF Next

\* Init and every step, for the invariant as a whole.
LEMMA ReleaseInvariant == Spec => []ReleaseInv
<1>1. Init => ReleaseInv
  <2>1. Init => TypeOK
    BY InitType
  <2>2. Init => OneCandidate /\ OneHandoff
    BY DEF Init, OneCandidate, OneHandoff
  <2>3. Init => Replaced
    BY GateAssumption DEF Init, Replaced, Job, Deliveries
  <2>4. Init => Cleared
    BY DEF Init, Cleared
  <2> QED BY <2>1, <2>2, <2>3, <2>4 DEF ReleaseInv
<1>2. ReleaseInv /\ [Next]_vars => ReleaseInv'
  <2> SUFFICES ASSUME ReleaseInv, [Next]_vars PROVE ReleaseInv'
    OBVIOUS
  <2>1. TypeOK'
    <3>1. RowsType /\ RestType
      BY TypeParts DEF ReleaseInv
    <3> QED BY <3>1, RowsTypeKept, RestTypeKept
            DEF TypeOK, RowsType, RestType, JobType
  <2>2. OneCandidate' /\ OneHandoff'
    BY PairsStep DEF ReleaseInv
  <2>3. Replaced' /\ Cleared'
    BY ReplacedStep, ClearedStep DEF ReleaseInv
  <2> QED BY <2>1, <2>2, <2>3 DEF ReleaseInv
<1> QED BY <1>1, <1>2, PTL DEF Spec

\* create_assurance_jobs_for_delivery runs once for a delivery, however often it
\* is executed and whatever is retried: no role has two first assessments of it.
THEOREM HandedOffOnce == Spec => []OneHandoff
<1>1. ReleaseInv => OneHandoff
  BY DEF ReleaseInv
<1> QED BY <1>1, ReleaseInvariant, PTL

\* A release that succeeded with a commit that was handed to assurance, for the
\* delivery its integration stands for, holds one that every assessor passed.
THEOREM ReleasesAreAssured == Spec => []ReleasedIsAssured
<1>1. ASSUME ReleaseInv, AssuranceInv PROVE ReleasedIsAssured
  <2> SUFFICES ASSUME release.status = "SUCCEEDED",
                      NEW i \in DOMAIN rows, rows[i].delivery = integration.needs,
                      rows[i].cand = release.bound
               PROVE  \A role \in Roles : PassedBy(release.bound, role)
    BY DEF ReleasedIsAssured
  <2>1. release.bound \in CandidatesOf(integration.needs)
    BY <1>1 DEF AssuranceInv, Owned
  <2>2. Handed(integration.needs, release.bound)
    BY DEF Handed
  <2> QED BY <1>1, <2>1, <2>2 DEF ReleaseInv, Cleared
<1>2. ReleaseInv /\ AssuranceInv => ReleasedIsAssured
  BY <1>1
<1> QED BY <1>2, ReleaseInvariant, AssuranceInvariant, PTL
=============================================================================
