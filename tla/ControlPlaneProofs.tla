------------------------- MODULE ControlPlaneProofs -------------------------
(***************************************************************************)
(* The safety properties of the processes around a project, for any set of    *)
(* process ids and any number of starts and faults.                           *)
(***************************************************************************)
EXTENDS ControlPlane, FiniteSetTheorems, WellFoundedInduction, TLAPS

\* A slot without a process is empty, and a process is where its kind takes it.
SlotInv ==
    \A p \in Procs :
        /\ kind[p] = "none" => at[p] = "none" /\ stage[p] = 0
        /\ at[p] = "check" => kind[p] = "plan"
        /\ at[p] \in {"begin", "stage"} => kind[p] \in {"iteration", "dry"}
        /\ at[p] = "stage" => stage[p] # 0
        /\ at[p] = "commit" => kind[p] \in {"iteration", "plan"}
        /\ at[p] = "commit" /\ kind[p] = "iteration" => stage[p] # 0
        /\ at[p] = "planned" => kind[p] = "iteration" /\ stage[p] # 0

\* Whoever serves has the lock file open, and an open file is there.
FileInv ==
    Windows => /\ \A p \in Serving : open = p
               /\ open # NoPid => file # NoFile

\* The operation lock names the process that runs under it.
LockInv ==
    "lock" \notin overlap =>
        \A p \in Procs : at[p] \in {"run", "release", "failed"} => lock.owner = p

\* The key is looked up, executed and remembered by one process at a time.
KeyInv ==
    "key" \notin overlap =>
        /\ \A p, q \in Committed("key") : p = q
        /\ record => Committed("key") = {}
        /\ \A p \in Procs : at[p] \in {"readLock", "takeLock", "run", "failed"} => acts["key"] = 0
        /\ acts["key"] > 0 /\ ~record => \E p \in Procs : at[p] \in {"release", "remember"}
        /\ acts["key"] <= 1

\* An open decision has not been acted on, and one process is about to.
DecisionInv ==
    /\ acts["decision"] = 0 <=> verdict = "OPEN"
    /\ "decision" \notin overlap =>
        /\ \A p, q \in Committed("decision") : p = q
        /\ Committed("decision") # {} => verdict = "OPEN"
        /\ acts["decision"] <= 1

\* A plan that is about to be committed is the first one.
PlanInv ==
    "plan" \notin overlap =>
        /\ \A p, q \in Committed("plan") : p = q
        /\ Committed("plan") # {} => acts["plan"] = 0
        /\ acts["plan"] <= 1

\* A window is triggered by one transaction that finds it untriggered.
WindowInv == acts["window"] <= 1

\* One conductor at a time; once a stage was marked without being passed, none
\* but a dry run about to end; and no dry run of an iteration that is ready.
IterationInv ==
    "iteration" \notin overlap =>
        /\ \A p, q \in Procs : stage[p] # 0 /\ stage[q] # 0 => p = q
        /\ \A p \in Procs : stage[p] # 0 /\ kind[p] = "dry" => iteration.value # "RELEASE_READY"
        /\ iteration.holes # {} =>
              /\ iteration.value # "RELEASE_READY"
              /\ \A p \in Procs : stage[p] # 0 => kind[p] = "dry" /\ stage[p] > Planning
-----------------------------------------------------------------------------
\* A set without two different elements has one at most.
LEMMA AtMostOne ==
    ASSUME NEW S, \A x, y \in S : x = y
    PROVE  Cardinality(S) \in Nat /\ Cardinality(S) <= 1
<1>1. CASE S = {}
  BY <1>1, FS_EmptySet
<1>2. ASSUME NEW x \in S PROVE S = {x}
  BY <1>2
<1>3. ASSUME NEW x \in S PROVE Cardinality(S) = 1
  BY <1>2, <1>3, FS_Singleton
<1> QED BY <1>1, <1>3

\* The first stage after s that is not in S.
LEMMA FirstAfter ==
    ASSUME NEW S \in SUBSET Stages, NEW s \in 0..8
    PROVE  \E t \in (s + 1)..9 : t \notin S /\ \A u \in (s + 1)..(t - 1) : u \in S
<1> DEFINE T == {t \in (s + 1)..9 : t \notin S}
<1>1. 9 \in T /\ T \subseteq Nat
  BY DEF Stages
<1>2. PICK t \in T : \A u \in T : ~(<<u, t>> \in OpToRel(<, Nat))
  BY <1>1, WFMin, NatLessThanWellFounded
<1>3. \A u \in T : ~(u < t)
  BY <1>1, <1>2 DEF OpToRel
<1>4. \A u \in (s + 1)..(t - 1) : u \in S
  BY <1>3
<1> QED BY <1>2, <1>4

\* Where a conductor goes on.
LEMMA AfterStageType ==
    ASSUME TypeOK, NEW p \in Procs, NEW s \in 0..8
    PROVE  AfterStage(p, s) \in (s + 1)..9
<1>1. saw[p] \in SUBSET Stages
  BY DEF TypeOK
<1>2. \E t \in (s + 1)..9 : t \notin saw[p] /\ \A u \in (s + 1)..(t - 1) : u \in saw[p]
  BY <1>1, FirstAfter
<1> QED BY <1>2 DEF AfterStage

\* The first stage without a checkpoint is a stage.
LEMMA FirstStageType ==
    ASSUME TypeOK
    PROVE  (CHOOSE t \in 1..9 : t \notin iteration.marks /\ \A u \in 1..(t - 1) :
               u \in iteration.marks) \in 1..9
<1>1. iteration.marks \in SUBSET Stages
  BY DEF TypeOK
<1>2. \E t \in (0 + 1)..9 : t \notin iteration.marks /\ \A u \in (0 + 1)..(t - 1) :
          u \in iteration.marks
  BY <1>1, FirstAfter
<1>3. \E t \in 1..9 : t \notin iteration.marks /\ \A u \in 1..(t - 1) : u \in iteration.marks
  BY <1>2
<1> QED BY <1>3

\* The type invariant in its parts.
ProcType ==
    /\ kind \in [Procs -> Kinds \cup {"none"}] /\ at \in [Procs -> Places]
    /\ stage \in [Procs -> 0..9] /\ saw \in [Procs -> SUBSET Stages]
LockType == lock \in [owner : Procs \cup {NoPid}, old : BOOLEAN]
IterationType ==
    iteration \in [value : {"PLANNED", "RUNNING", "BLOCKED", "FAILED", "READY",
                            "QUALITY_HOLD", "RELEASE_READY"},
                   marks : SUBSET Stages, holes : SUBSET Stages]
RestType ==
    /\ file \in Procs \cup {NoPid, NoFile} /\ open \in Procs \cup {NoPid}
    /\ status \in [value : {"stopped", "running", "error"}, pid : Procs \cup {NoPid}]
    /\ record \in BOOLEAN /\ verdict \in {"OPEN", "APPROVED", "REJECTED"}
    /\ writer \in Procs \cup {NoPid}
    /\ acts \in [Resources -> 0..2]
    /\ overlap \subseteq Resources \cup {"lock", "iteration"}
    /\ starts \in 0..StartBound /\ faults \in 0..FaultBound

\* The type invariant by parts.
LEMMA TypeParts ==
    /\ TypeOK <=> ProcType /\ LockType /\ IterationType /\ RestType
    /\ TypeOK' <=> ProcType' /\ LockType' /\ IterationType' /\ RestType'
BY DEF TypeOK, ProcType, LockType, IterationType, RestType

\* What an action writes to the lock file has the type of a lock.
LEMMA LockTypes ==
    ASSUME LockType
    PROVE  /\ [lock EXCEPT !.old = TRUE] \in [owner : Procs \cup {NoPid}, old : BOOLEAN]
           /\ \A p \in Procs \cup {NoPid} :
                  [owner |-> p, old |-> FALSE] \in [owner : Procs \cup {NoPid}, old : BOOLEAN]
BY DEF LockType

\* A stage that is marked leaves the iteration of its type.
LEMMA IterationTypes ==
    ASSUME IterationType, NEW s \in Stages,
           NEW v \in {"PLANNED", "RUNNING", "BLOCKED", "FAILED", "READY", "QUALITY_HOLD",
               "RELEASE_READY"},
           iteration' = Marked(s) \/ iteration' = [Marked(s) EXCEPT !.value = v]
    PROVE  IterationType'
<1>1. iteration.marks \cup {s} \in SUBSET Stages
  BY DEF IterationType
<1>2. Marked(s) \in [value :
          {"PLANNED", "RUNNING", "BLOCKED", "FAILED", "READY", "QUALITY_HOLD", "RELEASE_READY"},
                     marks : SUBSET Stages, holes : SUBSET Stages]
  BY <1>1 DEF IterationType, Marked
<1>3. [Marked(s) EXCEPT !.value = v] \in [value :
          {"PLANNED", "RUNNING", "BLOCKED", "FAILED", "READY", "QUALITY_HOLD", "RELEASE_READY"},
                     marks : SUBSET Stages, holes : SUBSET Stages]
  BY <1>2
<1> QED BY <1>2, <1>3 DEF IterationType

\* Every step keeps the types.
LEMMA TypeStep ==
    ASSUME TypeOK, Next
    PROVE  TypeOK'
<1> USE DEF Goto, End, procs, daemon, api
<1>0. /\ faults < FaultBound => faults + 1 \in 0..FaultBound
      /\ starts < StartBound => starts + 1 \in 0..StartBound
      /\ \A p \in Procs, s \in Stages : AfterStage(p, s) \in 0..9
      /\ ProcType /\ LockType /\ IterationType /\ RestType
  BY AfterStageType, TypeParts, ControlAssumption DEF TypeOK, Stages
<1> USE <1>0 DEF Places, DaemonAt, RequestAt, Resources
<1> SUFFICES ProcType' /\ LockType' /\ IterationType' /\ RestType'
  BY TypeParts
<1>1. ASSUME NEW p \in Procs, NEW k \in Kinds, Start(p, k)
      PROVE  ProcType' /\ LockType' /\ IterationType' /\ RestType'
  BY <1>1 DEF Start, First, Kinds, Api, ProcType, LockType, IterationType, RestType
<1>2. CASE GrowOld
  <2>1. ProcType'
    BY <1>2 DEF GrowOld, ProcType, Stages
  <2>2. LockType'
    BY <1>2, LockTypes DEF GrowOld, LockType
  <2>3. IterationType'
    BY <1>2 DEF GrowOld, IterationType, Stages
  <2>4. RestType'
    BY <1>2 DEF GrowOld, RestType
  <2> QED BY <2>1, <2>2, <2>3, <2>4
<1>3. ASSUME NEW p \in Procs, Inspect(p)
      PROVE ProcType' /\ LockType' /\ IterationType' /\ RestType'
  BY <1>3 DEF Inspect, ProcType, LockType, IterationType, RestType
<1>4. ASSUME NEW p \in Procs, Unlink(p)
      PROVE ProcType' /\ LockType' /\ IterationType' /\ RestType'
  BY <1>4 DEF Unlink, Removed, ProcType, LockType, IterationType, RestType
<1>5. ASSUME NEW p \in Procs, Create(p)
      PROVE ProcType' /\ LockType' /\ IterationType' /\ RestType'
  BY <1>5 DEF Create, ProcType, LockType, IterationType, RestType
<1>6. ASSUME NEW p \in Procs, WritePid(p)
      PROVE ProcType' /\ LockType' /\ IterationType' /\ RestType'
  BY <1>6 DEF WritePid, ProcType, LockType, IterationType, RestType
<1>7. ASSUME NEW p \in Procs, Announce(p)
      PROVE ProcType' /\ LockType' /\ IterationType' /\ RestType'
  BY <1>7 DEF Announce, ProcType, LockType, IterationType, RestType
<1>8. ASSUME NEW p \in Procs, Loop(p) PROVE ProcType' /\ LockType' /\ IterationType' /\ RestType'
  BY <1>8 DEF Loop, ProcType, LockType, IterationType, RestType
<1>9. ASSUME NEW p \in Procs, Beat(p) PROVE ProcType' /\ LockType' /\ IterationType' /\ RestType'
  BY <1>9 DEF Beat, ProcType, LockType, IterationType, RestType
<1>10. ASSUME NEW p \in Procs, PassFails(p)
       PROVE ProcType' /\ LockType' /\ IterationType' /\ RestType'
  BY <1>10 DEF PassFails, ProcType, LockType, IterationType, RestType
<1>11. ASSUME NEW p \in Procs, Finally(p)
       PROVE ProcType' /\ LockType' /\ IterationType' /\ RestType'
  BY <1>11 DEF Finally, ProcType, LockType, IterationType, RestType
<1>12. ASSUME NEW p \in Procs, Close(p)
       PROVE ProcType' /\ LockType' /\ IterationType' /\ RestType'
  BY <1>12 DEF Close, ProcType, LockType, IterationType, RestType
<1>13. ASSUME NEW p \in Procs, Remove(p)
       PROVE ProcType' /\ LockType' /\ IterationType' /\ RestType'
  BY <1>13 DEF Remove, Removed, ProcType, LockType, IterationType, RestType
<1>14. ASSUME NEW p \in Procs, Kill(p) PROVE ProcType' /\ LockType' /\ IterationType' /\ RestType'
  BY <1>14 DEF Kill, ProcType, LockType, IterationType, RestType
<1>15. ASSUME NEW p \in Procs, Clean(p)
       PROVE ProcType' /\ LockType' /\ IterationType' /\ RestType'
  BY <1>15 DEF Clean, Removed, ProcType, LockType, IterationType, RestType
<1>16. ASSUME NEW p \in Procs, Note(p) PROVE ProcType' /\ LockType' /\ IterationType' /\ RestType'
  BY <1>16 DEF Note, ProcType, LockType, IterationType, RestType
<1>17. ASSUME NEW p \in Procs, Evaluate(p)
       PROVE ProcType' /\ LockType' /\ IterationType' /\ RestType'
  BY <1>17 DEF Evaluate, ProcType, LockType, IterationType, RestType
<1>18. ASSUME NEW p \in Procs, Trigger(p)
       PROVE ProcType' /\ LockType' /\ IterationType' /\ RestType'
  BY <1>18 DEF Trigger, Acted, ProcType, LockType, IterationType, RestType
<1>19. ASSUME NEW p \in Procs, Lookup(p)
       PROVE ProcType' /\ LockType' /\ IterationType' /\ RestType'
  <2>1. ProcType'
    BY <1>19 DEF Lookup, Checked, ProcType, Stages
  <2>2. LockType'
    BY <1>19 DEF Lookup, Checked, LockType
  <2>3. IterationType'
    BY <1>19 DEF Lookup, Checked, IterationType, Stages
  <2>4. RestType'
    BY <1>19 DEF Lookup, Checked, RestType
  <2> QED BY <2>1, <2>2, <2>3, <2>4
<1>20. ASSUME NEW p \in Procs, ReadLock(p)
       PROVE ProcType' /\ LockType' /\ IterationType' /\ RestType'
  <2>1. ProcType'
    BY <1>20 DEF ReadLock, ProcType, Stages
  <2>2. LockType'
    BY <1>20 DEF ReadLock, LockType
  <2>3. IterationType'
    BY <1>20 DEF ReadLock, IterationType, Stages
  <2>4. RestType'
    BY <1>20 DEF ReadLock, RestType
  <2> QED BY <2>1, <2>2, <2>3, <2>4
<1>21. ASSUME NEW p \in Procs, TakeLock(p)
       PROVE ProcType' /\ LockType' /\ IterationType' /\ RestType'
  <2>1. ProcType'
    BY <1>21 DEF TakeLock, Takeable, Alive, ProcType, Stages
  <2>2. LockType'
    BY <1>21, LockTypes DEF TakeLock, Takeable, Alive, LockType
  <2>3. IterationType'
    BY <1>21 DEF TakeLock, Takeable, Alive, IterationType, Stages
  <2>4. RestType'
    BY <1>21 DEF TakeLock, Takeable, Alive, RestType
  <2> QED BY <2>1, <2>2, <2>3, <2>4
<1>22. ASSUME NEW p \in Procs, Run(p) PROVE ProcType' /\ LockType' /\ IterationType' /\ RestType'
  BY <1>22 DEF Run, Acted, ProcType, LockType, IterationType, RestType
<1>23. ASSUME NEW p \in Procs, ReleaseLock(p)
       PROVE ProcType' /\ LockType' /\ IterationType' /\ RestType'
  BY <1>23 DEF ReleaseLock, ProcType, LockType, IterationType, RestType
<1>24. ASSUME NEW p \in Procs, Remember(p)
       PROVE ProcType' /\ LockType' /\ IterationType' /\ RestType'
  BY <1>24 DEF Remember, ProcType, LockType, IterationType, RestType
<1>25. ASSUME NEW p \in Procs, ReadDecision(p)
       PROVE ProcType' /\ LockType' /\ IterationType' /\ RestType'
  <2>1. ProcType'
    BY <1>25 DEF ReadDecision, Checked, ProcType, Stages
  <2>2. LockType'
    BY <1>25 DEF ReadDecision, Checked, LockType
  <2>3. IterationType'
    BY <1>25 DEF ReadDecision, Checked, IterationType, Stages
  <2>4. RestType'
    BY <1>25 DEF ReadDecision, Checked, RestType
  <2> QED BY <2>1, <2>2, <2>3, <2>4
<1>26. ASSUME NEW p \in Procs, Approve(p)
       PROVE ProcType' /\ LockType' /\ IterationType' /\ RestType'
  BY <1>26 DEF Approve, Decide, Acted, ProcType, LockType, IterationType, RestType
<1>27. ASSUME NEW p \in Procs, Reject(p)
       PROVE ProcType' /\ LockType' /\ IterationType' /\ RestType'
  BY <1>27 DEF Reject, Decide, Acted, ProcType, LockType, IterationType, RestType
<1>28. ASSUME NEW p \in Procs, ApplyFails(p)
       PROVE ProcType' /\ LockType' /\ IterationType' /\ RestType'
  BY <1>28 DEF ApplyFails, ProcType, LockType, IterationType, RestType
<1>29. ASSUME NEW p \in Procs, Begin(p)
       PROVE ProcType' /\ LockType' /\ IterationType' /\ RestType'
  <2>1. ProcType'
    <3> DEFINE first == CHOOSE t \in 1..9 : t \notin iteration.marks /\ \A u \in 1..(t - 1) :
                   u \in iteration.marks
    <3>1. first \in 0..9
      BY FirstStageType
    <3>2. /\ stage' = [stage EXCEPT ![p] = first] /\ saw' = [saw EXCEPT ![p] = iteration.marks]
          /\ at' = [at EXCEPT ![p] = "stage"] /\ kind' = kind
      BY <1>29 DEF Begin
    <3> HIDE DEF first
    <3> QED BY <3>1, <3>2 DEF ProcType, IterationType
  <2>2. LockType'
    BY <1>29 DEF Begin, LockType
  <2>3. IterationType'
    BY <1>29 DEF Begin, IterationType, Stages
  <2>4. RestType'
    BY <1>29 DEF Begin, RestType
  <2> QED BY <2>1, <2>2, <2>3, <2>4
<1>30. ASSUME NEW p \in Procs, HealthStage(p)
       PROVE ProcType' /\ LockType' /\ IterationType' /\ RestType'
  <2>1. ProcType'
    BY <1>30 DEF HealthStage, Marked, Hole, Advance, Health, ProcType, Stages
  <2>2. LockType'
    BY <1>30 DEF HealthStage, Marked, Hole, Advance, Health, LockType
  <2>3. IterationType'
    BY <1>30 DEF HealthStage, Marked, Hole, Advance, Health, IterationType, Stages
  <2>4. RestType'
    BY <1>30 DEF HealthStage, Marked, Hole, Advance, Health, RestType
  <2> QED BY <2>1, <2>2, <2>3, <2>4
<1>31. ASSUME NEW p \in Procs, StageDone(p)
       PROVE ProcType' /\ LockType' /\ IterationType' /\ RestType'
  <2>1. ProcType'
    BY <1>31 DEF StageDone, Marked, Advance, Stages, Health, Planning, Quality, Readiness,
        ProcType, Stages
  <2>2. LockType'
    BY <1>31 DEF StageDone, Marked, Advance, Stages, Health, Planning, Quality, Readiness,
        LockType
  <2>3. IterationType'
    BY <1>31, IterationTypes DEF StageDone
  <2>4. RestType'
    BY <1>31 DEF StageDone, Marked, Advance, Stages, Health, Planning, Quality, Readiness,
        RestType
  <2> QED BY <2>1, <2>2, <2>3, <2>4
<1>32. ASSUME NEW p \in Procs, StageFails(p)
       PROVE ProcType' /\ LockType' /\ IterationType' /\ RestType'
  <2>1. ProcType'
    BY <1>32 DEF StageFails, Hole, Quality, ProcType, Stages
  <2>2. LockType'
    BY <1>32 DEF StageFails, Hole, Quality, LockType
  <2>3. IterationType'
    BY <1>32 DEF StageFails, Hole, Quality, IterationType, Stages
  <2>4. RestType'
    BY <1>32 DEF StageFails, Hole, Quality, RestType
  <2> QED BY <2>1, <2>2, <2>3, <2>4
<1>40. ASSUME NEW p \in Procs, DryPlan(p)
       PROVE ProcType' /\ LockType' /\ IterationType' /\ RestType'
  <2>1. ProcType'
    BY <1>40 DEF DryPlan, Advance, Planning, ProcType, Stages
  <2>2. LockType'
    BY <1>40 DEF DryPlan, Advance, LockType
  <2>3. IterationType'
    BY <1>40 DEF DryPlan, Hole, Planning, IterationType, Stages
  <2>4. RestType'
    BY <1>40 DEF DryPlan, Advance, RestType
  <2> QED BY <2>1, <2>2, <2>3, <2>4
<1>41. ASSUME NEW p \in Procs, PlanMarked(p)
       PROVE ProcType' /\ LockType' /\ IterationType' /\ RestType'
  <2>1. ProcType'
    BY <1>41 DEF PlanMarked, Advance, Planning, ProcType, Stages
  <2>2. LockType'
    BY <1>41 DEF PlanMarked, Advance, LockType
  <2>3. IterationType'
    BY <1>41 DEF PlanMarked, Marked, Planning, IterationType, Stages
  <2>4. RestType'
    BY <1>41 DEF PlanMarked, Advance, RestType
  <2> QED BY <2>1, <2>2, <2>3, <2>4
<1>42. ASSUME NEW p \in Procs, AssignmentEnds(p)
       PROVE ProcType' /\ LockType' /\ IterationType' /\ RestType'
  BY <1>42 DEF AssignmentEnds, ProcType, LockType, IterationType, RestType, Resources
<1>33. ASSUME NEW p \in Procs, DryRun(p)
       PROVE ProcType' /\ LockType' /\ IterationType' /\ RestType'
  <2>1. ProcType'
    BY <1>33 DEF DryRun, ProcType, Stages
  <2>2. LockType'
    BY <1>33 DEF DryRun, LockType
  <2>3. IterationType'
    BY <1>33 DEF DryRun, IterationType, Stages
  <2>4. RestType'
    BY <1>33 DEF DryRun, RestType
  <2> QED BY <2>1, <2>2, <2>3, <2>4
<1>34. ASSUME NEW p \in Procs, IterationEnds(p)
       PROVE ProcType' /\ LockType' /\ IterationType' /\ RestType'
  BY <1>34 DEF IterationEnds, ProcType, LockType, IterationType, RestType
<1>35. ASSUME NEW p \in Procs, CheckPlan(p)
       PROVE ProcType' /\ LockType' /\ IterationType' /\ RestType'
  BY <1>35 DEF CheckPlan, PlanFor, Planning, Checked, ProcType, LockType, IterationType, RestType
<1>36. ASSUME NEW p \in Procs, PlanFails(p)
       PROVE ProcType' /\ LockType' /\ IterationType' /\ RestType'
  <2>1. ProcType'
    BY <1>36 DEF PlanFails, PlanFor, Hole, Planning, ProcType, Stages
  <2>2. LockType'
    BY <1>36 DEF PlanFails, PlanFor, Hole, Planning, LockType
  <2>3. IterationType'
    BY <1>36 DEF PlanFails, PlanFor, Hole, Planning, IterationType, Stages
  <2>4. RestType'
    BY <1>36 DEF PlanFails, PlanFor, Hole, Planning, RestType
  <2> QED BY <2>1, <2>2, <2>3, <2>4
<1>37. ASSUME NEW p \in Procs, CommitPlan(p)
       PROVE ProcType' /\ LockType' /\ IterationType' /\ RestType'
  <2>1. ProcType'
    BY <1>37 DEF CommitPlan, Acted, ProcType, Stages
  <2>2. LockType'
    BY <1>37 DEF CommitPlan, Acted, LockType
  <2>3. IterationType'
    BY <1>37 DEF CommitPlan, Acted, IterationType, Stages
  <2>4. RestType'
    BY <1>37 DEF CommitPlan, Acted, RestType
  <2> QED BY <2>1, <2>2, <2>3, <2>4
<1>38. ASSUME NEW p \in Procs, InsertFails(p)
       PROVE ProcType' /\ LockType' /\ IterationType' /\ RestType'
  BY <1>38 DEF InsertFails, ProcType, LockType, IterationType, RestType
<1>39. ASSUME NEW p \in Procs, Crash(p)
       PROVE ProcType' /\ LockType' /\ IterationType' /\ RestType'
  BY <1>39 DEF Crash, ProcType, LockType, IterationType, RestType
<1> QED BY <1>1, <1>2, <1>3, <1>4, <1>5, <1>6, <1>7, <1>8, <1>9, <1>10, <1>11, <1>12, <1>13,
    <1>14, <1>15, <1>16, <1>17, <1>18, <1>19, <1>20, <1>21, <1>22, <1>23, <1>24, <1>25, <1>26,
    <1>27, <1>28, <1>29, <1>30, <1>31, <1>32, <1>33, <1>34, <1>35, <1>36, <1>37, <1>38, <1>39,
    <1>40, <1>41, <1>42
    DEF Next, Step, DaemonStep

\* Every step keeps SlotInv.
LEMMA SlotStep ==
    ASSUME TypeOK, SlotInv, Next
    PROVE  SlotInv'
<1> USE DEF Goto, End, procs, daemon, api, SlotInv, Stages, Planning
<1>0. /\ kind \in [Procs -> Kinds \cup {"none"}] /\ at \in [Procs -> Places]
             /\ stage \in [Procs -> 0..9]
      /\ \A p \in Procs, s \in Stages : AfterStage(p, s) \in 0..9 /\ AfterStage(p, s) # 0
      /\ Procs \subseteq Nat \ {0}
  BY AfterStageType, ControlAssumption DEF TypeOK, Stages
<1> USE <1>0
<1>1. ASSUME NEW p \in Procs, NEW k \in Kinds, Start(p, k) PROVE SlotInv'
  BY <1>1 DEF Start, First, Kinds, Api
<1>2. CASE GrowOld
  BY <1>2 DEF GrowOld
<1>3. ASSUME NEW p \in Procs, Unlink(p) \/ Create(p) \/ WritePid(p) \/ Announce(p) \/ Loop(p)
             \/ Beat(p) \/ PassFails(p) \/ Finally(p) \/ Close(p) \/ Remove(p) \/ Inspect(p)
      PROVE SlotInv'
  BY <1>3 DEF Unlink, Removed, Create, WritePid, Announce, Loop, Beat, PassFails, Finally, Close,
      Remove, Inspect
<1>4. ASSUME NEW p \in Procs, Clean(p) \/ Note(p) \/ Evaluate(p) \/ Trigger(p)
      PROVE SlotInv'
  BY <1>4 DEF Clean, Removed, Note, Evaluate, Trigger, Acted
<1>5. ASSUME NEW p \in Procs, Lookup(p) \/ ReadLock(p) \/ TakeLock(p) \/ Run(p) \/ ReleaseLock(p)
             \/ Remember(p)
      PROVE SlotInv'
  BY <1>5 DEF Lookup, Checked, ReadLock, TakeLock, Takeable, Alive, Run, Acted, ReleaseLock,
      Remember
<1>6. ASSUME NEW p \in Procs, ReadDecision(p) \/ Approve(p) \/ Reject(p) \/ ApplyFails(p)
      PROVE SlotInv'
  BY <1>6 DEF ReadDecision, Checked, Approve, Decide, Acted, Reject, ApplyFails
<1>7. ASSUME NEW p \in Procs, StageFails(p) \/ DryRun(p) \/ IterationEnds(p) \/ PlanFails(p)
             \/ InsertFails(p)
      PROVE SlotInv'
  BY <1>7 DEF StageFails, Hole, Quality, DryRun, Planning, IterationEnds, PlanFails, PlanFor,
      InsertFails
<1>8. ASSUME NEW p \in Procs, Kill(p) PROVE SlotInv'
  BY <1>8 DEF Kill
<1>9. ASSUME NEW p \in Procs, Begin(p) PROVE SlotInv'
  <2> DEFINE first == CHOOSE t \in 1..9 : t \notin iteration.marks /\ \A u \in 1..(t - 1) :
                 u \in iteration.marks
  <2>1. first \in 1..9
    BY FirstStageType
  <2>2. /\ stage' = [stage EXCEPT ![p] = first] /\ at' = [at EXCEPT ![p] = "stage"]
               /\ kind' = kind
        /\ at[p] = "begin"
    BY <1>9 DEF Begin
  <2> HIDE DEF first
  <2> QED BY <2>1, <2>2
<1>10. ASSUME NEW p \in Procs, HealthStage(p) PROVE SlotInv'
  BY <1>10 DEF HealthStage, Marked, Hole, Advance, Health
<1>11. ASSUME NEW p \in Procs, StageDone(p) PROVE SlotInv'
  BY <1>11 DEF StageDone, Marked, Advance, Stages, Health, Planning, Quality, Readiness
<1>12. ASSUME NEW p \in Procs, CheckPlan(p) PROVE SlotInv'
  BY <1>12 DEF CheckPlan, PlanFor, Planning, Checked
<1>13. ASSUME NEW p \in Procs, CommitPlan(p) \/ AssignmentEnds(p) PROVE SlotInv'
  BY <1>13 DEF CommitPlan, Acted, AssignmentEnds
<1>15. ASSUME NEW p \in Procs, DryPlan(p) \/ PlanMarked(p) PROVE SlotInv'
  BY <1>15 DEF DryPlan, PlanMarked, Advance
<1>14. ASSUME NEW p \in Procs, Crash(p) PROVE SlotInv'
  BY <1>14 DEF Crash
<1> QED BY <1>1, <1>2, <1>3, <1>4, <1>5, <1>6, <1>7, <1>8, <1>9, <1>10, <1>11, <1>12, <1>13, <1>14,
    <1>15
    DEF Next, Step, DaemonStep

\* Every step keeps FileInv.
LEMMA FileStep ==
    ASSUME TypeOK, SlotInv, FileInv, Next
    PROVE  FileInv'
<1> USE DEF Goto, End, procs, daemon, api, FileInv, Serving, SlotInv
<1>0. /\ kind \in [Procs -> Kinds \cup {"none"}] /\ at \in [Procs -> Places]
      /\ Procs \subseteq Nat \ {0}
  BY ControlAssumption DEF TypeOK
<1>a. /\ file \in Procs \cup {NoPid, NoFile} /\ open \in Procs \cup {NoPid}
      /\ NoPid \notin Procs /\ NoFile \notin Procs /\ NoPid # NoFile
  BY ControlAssumption DEF TypeOK, NoPid, NoFile
<1> USE <1>0, <1>a
<1>1. ASSUME NEW p \in Procs, NEW k \in Kinds, Start(p, k) PROVE FileInv'
  BY <1>1 DEF Start, First, Kinds, Api
<1>2. CASE GrowOld
  BY <1>2 DEF GrowOld
<1>3. ASSUME NEW p \in Procs, Lookup(p) \/ ReadLock(p) \/ TakeLock(p) \/ Run(p) \/ ReleaseLock(p)
             \/ Remember(p)
      PROVE FileInv'
  BY <1>3 DEF Lookup, ReadLock, TakeLock, Run, ReleaseLock, Remember
<1>4. ASSUME NEW p \in Procs, ReadDecision(p) \/ Approve(p) \/ Reject(p) \/ ApplyFails(p)
      PROVE FileInv'
  BY <1>4 DEF ReadDecision, Approve, Decide, Reject, ApplyFails
<1>5. ASSUME NEW p \in Procs, HealthStage(p) \/ StageDone(p) \/ StageFails(p) \/ DryRun(p)
             \/ IterationEnds(p) \/ CheckPlan(p) \/ PlanFails(p) \/ CommitPlan(p)
                    \/ InsertFails(p) \/ Begin(p) \/ DryPlan(p) \/ PlanMarked(p)
                    \/ AssignmentEnds(p)
      PROVE FileInv'
  BY <1>5 DEF HealthStage, Advance, StageDone, StageFails, DryRun, IterationEnds, CheckPlan,
      PlanFor, PlanFails, CommitPlan, InsertFails, Begin, DryPlan,
      PlanMarked, AssignmentEnds
<1>6. ASSUME NEW p \in Procs, Inspect(p) PROVE FileInv'
  BY <1>6 DEF Inspect
<1>7. ASSUME NEW p \in Procs, Unlink(p) PROVE FileInv'
  BY <1>7 DEF Unlink, Removed
<1>8. ASSUME NEW p \in Procs, Create(p) PROVE FileInv'
  BY <1>8 DEF Create
<1>9. ASSUME NEW p \in Procs, WritePid(p) PROVE FileInv'
  BY <1>9 DEF WritePid
<1>10. ASSUME NEW p \in Procs, Announce(p) PROVE FileInv'
  BY <1>10 DEF Announce
<1>11. ASSUME NEW p \in Procs, Loop(p) PROVE FileInv'
  BY <1>11 DEF Loop
<1>12. ASSUME NEW p \in Procs, Beat(p) PROVE FileInv'
  BY <1>12 DEF Beat
<1>13. ASSUME NEW p \in Procs, PassFails(p) PROVE FileInv'
  BY <1>13 DEF PassFails
<1>14. ASSUME NEW p \in Procs, Finally(p) PROVE FileInv'
  BY <1>14 DEF Finally
<1>15. ASSUME NEW p \in Procs, Close(p) PROVE FileInv'
  BY <1>15 DEF Close
<1>16. ASSUME NEW p \in Procs, Remove(p) PROVE FileInv'
  BY <1>16 DEF Remove, Removed
<1>17. ASSUME NEW p \in Procs, Kill(p) PROVE FileInv'
  BY <1>17 DEF Kill
<1>18. ASSUME NEW p \in Procs, Clean(p) PROVE FileInv'
  BY <1>18 DEF Clean, Removed
<1>19. ASSUME NEW p \in Procs, Note(p) PROVE FileInv'
  BY <1>19 DEF Note
<1>20. ASSUME NEW p \in Procs, Evaluate(p) PROVE FileInv'
  BY <1>20 DEF Evaluate
<1>21. ASSUME NEW p \in Procs, Trigger(p) PROVE FileInv'
  BY <1>21 DEF Trigger
<1>22. ASSUME NEW p \in Procs, Crash(p) PROVE FileInv'
  BY <1>22 DEF Crash
<1> QED BY <1>1, <1>2, <1>3, <1>4, <1>5, <1>6, <1>7, <1>8, <1>9, <1>10, <1>11, <1>12, <1>13,
    <1>14, <1>15, <1>16, <1>17, <1>18, <1>19, <1>20, <1>21, <1>22
    DEF Next, Step, DaemonStep

\* Every step keeps LockInv.
LEMMA LockStep ==
    ASSUME TypeOK, SlotInv, LockInv, Next
    PROVE  LockInv'
<1> USE DEF Goto, End, procs, daemon, api, LockInv, SlotInv
<1>0. /\ kind \in [Procs -> Kinds \cup {"none"}] /\ at \in [Procs -> Places]
      /\ Procs \subseteq Nat \ {0}
  BY ControlAssumption DEF TypeOK
<1>a. /\ file \in Procs \cup {NoPid, NoFile} /\ open \in Procs \cup {NoPid}
      /\ NoPid \notin Procs /\ NoFile \notin Procs /\ NoPid # NoFile
  BY ControlAssumption DEF TypeOK, NoPid, NoFile
<1> USE <1>0, <1>a
<1>1. ASSUME NEW p \in Procs, NEW k \in Kinds, Start(p, k) PROVE LockInv'
  BY <1>1 DEF Start, First, Kinds, Api
<1>2. CASE GrowOld
  BY <1>2 DEF GrowOld
<1>3. ASSUME NEW p \in Procs, Unlink(p) \/ Create(p) \/ WritePid(p) \/ Announce(p) \/ Loop(p)
             \/ Beat(p) \/ PassFails(p) \/ Finally(p) \/ Close(p) \/ Remove(p) \/ Inspect(p)
      PROVE LockInv'
  BY <1>3 DEF Unlink, Create, WritePid, Announce, Loop, Beat, PassFails, Finally, Close, Remove,
      Inspect
<1>4. ASSUME NEW p \in Procs, Clean(p) \/ Note(p) \/ Evaluate(p) \/ Trigger(p)
      PROVE LockInv'
  BY <1>4 DEF Clean, Note, Evaluate, Trigger
<1>5. ASSUME NEW p \in Procs, ReadDecision(p) \/ Approve(p) \/ Reject(p) \/ ApplyFails(p)
      PROVE LockInv'
  BY <1>5 DEF ReadDecision, Checked, Approve, Decide, Reject, ApplyFails
<1>6. ASSUME NEW p \in Procs, HealthStage(p) \/ StageDone(p) \/ StageFails(p) \/ DryRun(p)
             \/ IterationEnds(p) \/ CheckPlan(p) \/ PlanFails(p) \/ CommitPlan(p)
                    \/ InsertFails(p) \/ Begin(p) \/ DryPlan(p) \/ PlanMarked(p)
                    \/ AssignmentEnds(p)
      PROVE LockInv'
  BY <1>6 DEF HealthStage, Advance, StageDone, StageFails, DryRun, IterationEnds, CheckPlan,
      PlanFor, Checked, PlanFails, CommitPlan, InsertFails, Begin, DryPlan,
      PlanMarked, AssignmentEnds
<1>7. ASSUME NEW p \in Procs, Kill(p) PROVE LockInv'
  BY <1>7 DEF Kill
<1>8. ASSUME NEW p \in Procs, Lookup(p) PROVE LockInv'
  BY <1>8 DEF Lookup, Checked
<1>9. ASSUME NEW p \in Procs, ReadLock(p) PROVE LockInv'
  BY <1>9 DEF ReadLock
<1>10. ASSUME NEW p \in Procs, TakeLock(p) PROVE LockInv'
  BY <1>10 DEF TakeLock, Takeable, Alive
<1>11. ASSUME NEW p \in Procs, Run(p) PROVE LockInv'
  BY <1>11 DEF Run
<1>12. ASSUME NEW p \in Procs, ReleaseLock(p) PROVE LockInv'
  BY <1>12 DEF ReleaseLock
<1>13. ASSUME NEW p \in Procs, Remember(p) PROVE LockInv'
  BY <1>13 DEF Remember
<1>14. ASSUME NEW p \in Procs, Crash(p) PROVE LockInv'
  BY <1>14 DEF Crash
<1> QED BY <1>1, <1>2, <1>3, <1>4, <1>5, <1>6, <1>7, <1>8, <1>9, <1>10, <1>11, <1>12, <1>13, <1>14
    DEF Next, Step, DaemonStep

\* Who is committed to what.
LEMMA CommittedAt ==
    /\ Committed("key") = {p \in Procs : at[p] \in RequestAt \ {"lookup"}}
    /\ Committed("key")' = {p \in Procs : at'[p] \in RequestAt \ {"lookup"}}
    /\ Committed("decision") = {p \in Procs : at[p] = "decide"}
    /\ Committed("decision")' = {p \in Procs : at'[p] = "decide"}
    /\ Committed("plan") = {p \in Procs : at[p] = "commit"}
    /\ Committed("plan")' = {p \in Procs : at'[p] = "commit"}
BY DEF Committed

\* Every step keeps KeyInv.
LEMMA KeyStep ==
    ASSUME TypeOK, SlotInv, KeyInv, Next
    PROVE  KeyInv'
<1> USE DEF Goto, End, procs, daemon, api, RequestAt, SlotInv, KeyInv
<1>0. /\ kind \in [Procs -> Kinds \cup {"none"}] /\ at \in [Procs -> Places]
      /\ acts \in [Resources -> 0..2] /\ {"key", "decision", "plan", "window"} = Resources
  BY DEF TypeOK, Resources
<1> USE <1>0, CommittedAt
<1>1. ASSUME NEW p \in Procs, NEW k \in Kinds, Start(p, k) PROVE KeyInv'
  BY <1>1 DEF Start, First, Kinds, Api
<1>2. CASE GrowOld
  BY <1>2 DEF GrowOld
<1>3. ASSUME NEW p \in Procs, Unlink(p) \/ Create(p) \/ WritePid(p) \/ Announce(p) \/ Loop(p)
             \/ Beat(p) \/ PassFails(p) \/ Finally(p) \/ Close(p) \/ Remove(p) \/ Inspect(p)
      PROVE KeyInv'
  BY <1>3 DEF Unlink, Create, WritePid, Announce, Loop, Beat, PassFails, Finally, Close, Remove,
      Inspect
<1>4. ASSUME NEW p \in Procs, Clean(p) \/ Note(p) \/ Evaluate(p) \/ Trigger(p)
      PROVE KeyInv'
  BY <1>4 DEF Clean, Note, Evaluate, Trigger, Acted
<1>5. ASSUME NEW p \in Procs, ReadDecision(p) \/ Approve(p) \/ Reject(p) \/ ApplyFails(p)
      PROVE KeyInv'
  BY <1>5 DEF ReadDecision, Checked, Approve, Decide, Acted, Reject, ApplyFails
<1>6. ASSUME NEW p \in Procs, HealthStage(p) \/ StageDone(p) \/ StageFails(p) \/ DryRun(p)
             \/ IterationEnds(p) \/ CheckPlan(p) \/ PlanFails(p) \/ CommitPlan(p)
                    \/ InsertFails(p) \/ Begin(p) \/ DryPlan(p) \/ PlanMarked(p)
                    \/ AssignmentEnds(p)
      PROVE KeyInv'
  BY <1>6 DEF HealthStage, Advance, StageDone, StageFails, DryRun, IterationEnds, CheckPlan,
      PlanFor, Checked, PlanFails, CommitPlan, Acted, InsertFails, Begin, DryPlan,
      PlanMarked, AssignmentEnds
<1>7. ASSUME NEW p \in Procs, Kill(p) PROVE KeyInv'
  BY <1>7 DEF Kill
<1>8. ASSUME NEW p \in Procs, Lookup(p) PROVE KeyInv'
  BY <1>8 DEF Lookup, Checked
<1>9. ASSUME NEW p \in Procs, ReadLock(p) PROVE KeyInv'
  BY <1>9 DEF ReadLock
<1>10. ASSUME NEW p \in Procs, TakeLock(p) PROVE KeyInv'
  BY <1>10 DEF TakeLock
<1>11. ASSUME NEW p \in Procs, Run(p) PROVE KeyInv'
  BY <1>11 DEF Run, Acted
<1>12. ASSUME NEW p \in Procs, ReleaseLock(p) PROVE KeyInv'
  BY <1>12 DEF ReleaseLock
<1>13. ASSUME NEW p \in Procs, Remember(p) PROVE KeyInv'
  BY <1>13 DEF Remember
<1>14. ASSUME NEW p \in Procs, Crash(p) PROVE KeyInv'
  BY <1>14 DEF Crash
<1> QED BY <1>1, <1>2, <1>3, <1>4, <1>5, <1>6, <1>7, <1>8, <1>9, <1>10, <1>11, <1>12, <1>13, <1>14
    DEF Next, Step, DaemonStep

\* Every step keeps DecisionInv.
LEMMA DecisionStep ==
    ASSUME TypeOK, DecisionInv, Next
    PROVE  DecisionInv'
<1> USE DEF Goto, End, procs, daemon, api, DecisionInv
<1>0. /\ kind \in [Procs -> Kinds \cup {"none"}] /\ at \in [Procs -> Places]
      /\ acts \in [Resources -> 0..2] /\ {"key", "decision", "plan", "window"} = Resources
  BY DEF TypeOK, Resources
<1> USE <1>0, CommittedAt
<1>1. ASSUME NEW p \in Procs, NEW k \in Kinds, Start(p, k) PROVE DecisionInv'
  BY <1>1 DEF Start, First, Kinds, Api
<1>2. CASE GrowOld
  BY <1>2 DEF GrowOld
<1>3. ASSUME NEW p \in Procs, Unlink(p) \/ Create(p) \/ WritePid(p) \/ Announce(p) \/ Loop(p)
             \/ Beat(p) \/ PassFails(p) \/ Finally(p) \/ Close(p) \/ Remove(p) \/ Inspect(p)
      PROVE DecisionInv'
  BY <1>3 DEF Unlink, Create, WritePid, Announce, Loop, Beat, PassFails, Finally, Close, Remove,
      Inspect
<1>4. ASSUME NEW p \in Procs, Clean(p) \/ Note(p) \/ Evaluate(p) \/ Trigger(p)
      PROVE DecisionInv'
  BY <1>4 DEF Clean, Note, Evaluate, Trigger, Acted
<1>5. ASSUME NEW p \in Procs, Lookup(p) \/ ReadLock(p) \/ TakeLock(p) \/ Run(p) \/ ReleaseLock(p)
             \/ Remember(p)
      PROVE DecisionInv'
  BY <1>5 DEF Lookup, Checked, ReadLock, TakeLock, Run, Acted, ReleaseLock, Remember
<1>6. ASSUME NEW p \in Procs, HealthStage(p) \/ StageDone(p) \/ StageFails(p) \/ DryRun(p)
             \/ IterationEnds(p) \/ CheckPlan(p) \/ PlanFails(p) \/ CommitPlan(p)
                    \/ InsertFails(p) \/ Begin(p) \/ DryPlan(p) \/ PlanMarked(p)
                    \/ AssignmentEnds(p)
      PROVE DecisionInv'
  BY <1>6 DEF HealthStage, Advance, StageDone, StageFails, DryRun, IterationEnds, CheckPlan,
      PlanFor, Checked, PlanFails, CommitPlan, Acted, InsertFails, Begin, DryPlan,
      PlanMarked, AssignmentEnds
<1>7. ASSUME NEW p \in Procs, Kill(p) PROVE DecisionInv'
  BY <1>7 DEF Kill
<1>8. ASSUME NEW p \in Procs, ReadDecision(p) PROVE DecisionInv'
  BY <1>8 DEF ReadDecision, Checked
<1>9. ASSUME NEW p \in Procs, Approve(p) PROVE DecisionInv'
  <2>1. /\ verdict' = "APPROVED" /\ at[p] = "decide" /\ overlap' = overlap
        /\ acts'["decision"] = IF acts["decision"] = 2 THEN 2 ELSE acts["decision"] + 1
        /\ at' = [q \in Procs |-> IF q \in {p} THEN "none" ELSE at[q]]
    BY <1>9 DEF Approve, Decide, Acted
  <2> QED BY <2>1
<1>10. ASSUME NEW p \in Procs, Reject(p) PROVE DecisionInv'
  <2>1. /\ verdict' = "REJECTED" /\ at[p] = "decide" /\ overlap' = overlap
        /\ acts'["decision"] = IF acts["decision"] = 2 THEN 2 ELSE acts["decision"] + 1
        /\ at' = [q \in Procs |-> IF q \in {p} THEN "none" ELSE at[q]]
    BY <1>10 DEF Reject, Decide, Acted
  <2> QED BY <2>1
<1>11. ASSUME NEW p \in Procs, ApplyFails(p) PROVE DecisionInv'
  BY <1>11 DEF ApplyFails
<1>12. ASSUME NEW p \in Procs, Crash(p) PROVE DecisionInv'
  BY <1>12 DEF Crash
<1> QED BY <1>1, <1>2, <1>3, <1>4, <1>5, <1>6, <1>7, <1>8, <1>9, <1>10, <1>11, <1>12
    DEF Next, Step, DaemonStep

\* Every step keeps PlanInv.
LEMMA PlanStep ==
    ASSUME TypeOK, PlanInv, Next
    PROVE  PlanInv'
<1> USE DEF Goto, End, procs, daemon, api, PlanInv
<1>0. /\ kind \in [Procs -> Kinds \cup {"none"}] /\ at \in [Procs -> Places]
      /\ acts \in [Resources -> 0..2] /\ {"key", "decision", "plan", "window"} = Resources
  BY DEF TypeOK, Resources
<1> USE <1>0, CommittedAt
<1>1. ASSUME NEW p \in Procs, NEW k \in Kinds, Start(p, k) PROVE PlanInv'
  BY <1>1 DEF Start, First, Kinds, Api
<1>2. CASE GrowOld
  BY <1>2 DEF GrowOld
<1>3. ASSUME NEW p \in Procs, Unlink(p) \/ Create(p) \/ WritePid(p) \/ Announce(p) \/ Loop(p)
             \/ Beat(p) \/ PassFails(p) \/ Finally(p) \/ Close(p) \/ Remove(p) \/ Inspect(p)
      PROVE PlanInv'
  BY <1>3 DEF Unlink, Create, WritePid, Announce, Loop, Beat, PassFails, Finally, Close, Remove,
      Inspect
<1>4. ASSUME NEW p \in Procs, Clean(p) \/ Note(p) \/ Evaluate(p) \/ Trigger(p)
      PROVE PlanInv'
  BY <1>4 DEF Clean, Note, Evaluate, Trigger, Acted
<1>5. ASSUME NEW p \in Procs, Lookup(p) \/ ReadLock(p) \/ TakeLock(p) \/ Run(p) \/ ReleaseLock(p)
             \/ Remember(p)
      PROVE PlanInv'
  BY <1>5 DEF Lookup, Checked, ReadLock, TakeLock, Run, Acted, ReleaseLock, Remember
<1>6. ASSUME NEW p \in Procs, ReadDecision(p) \/ Approve(p) \/ Reject(p) \/ ApplyFails(p)
      PROVE PlanInv'
  BY <1>6 DEF ReadDecision, Checked, Approve, Decide, Acted, Reject, ApplyFails
<1>7. ASSUME NEW p \in Procs, HealthStage(p) \/ StageDone(p) \/ StageFails(p) \/ DryRun(p)
             \/ IterationEnds(p) \/ Begin(p) \/ DryPlan(p) \/ PlanMarked(p)
      PROVE PlanInv'
  BY <1>7 DEF HealthStage, Advance, StageDone, StageFails, DryRun, IterationEnds, Begin, DryPlan,
      PlanMarked
<1>8. ASSUME NEW p \in Procs, Kill(p) PROVE PlanInv'
  BY <1>8 DEF Kill
<1>9. ASSUME NEW p \in Procs, CheckPlan(p) PROVE PlanInv'
  BY <1>9 DEF CheckPlan, PlanFor, Checked
<1>10. ASSUME NEW p \in Procs, PlanFails(p) PROVE PlanInv'
  BY <1>10 DEF PlanFails, PlanFor
<1>11. ASSUME NEW p \in Procs, CommitPlan(p) PROVE PlanInv'
  BY <1>11 DEF CommitPlan, Acted
<1>12. ASSUME NEW p \in Procs, InsertFails(p) PROVE PlanInv'
  BY <1>12 DEF InsertFails
<1>13. ASSUME NEW p \in Procs, Crash(p) PROVE PlanInv'
  BY <1>13 DEF Crash
<1>14. ASSUME NEW p \in Procs, AssignmentEnds(p) PROVE PlanInv'
  BY <1>14 DEF AssignmentEnds
<1> QED BY <1>1, <1>2, <1>3, <1>4, <1>5, <1>6, <1>7, <1>8, <1>9, <1>10, <1>11, <1>12, <1>13, <1>14
    DEF Next, Step, DaemonStep

\* Every step keeps IterationInv.
LEMMA IterationStep ==
    ASSUME TypeOK, SlotInv, IterationInv, Next
    PROVE  IterationInv'
<1> USE DEF Goto, End, procs, daemon, api, IterationInv, SlotInv, Stages, Planning
<1>0. /\ kind \in [Procs -> Kinds \cup {"none"}] /\ at \in [Procs -> Places]
             /\ stage \in [Procs -> 0..9]
      /\ \A p \in Procs, s \in Stages : AfterStage(p, s) \in 0..9 /\ AfterStage(p, s) # 0
      /\ Procs \subseteq Nat \ {0}
  BY AfterStageType, ControlAssumption DEF TypeOK, Stages
<1>a. /\ iteration.marks \subseteq Stages /\ iteration.holes \subseteq Stages
      /\ \A s, v : /\ Hole(s, v).value = v /\ Hole(s, v).holes # {}
                   /\ Marked(s).value = iteration.value /\ Marked(s).holes = iteration.holes
                   /\ [Marked(s) EXCEPT !.value = v].value = v
                   /\ [Marked(s) EXCEPT !.value = v].holes = iteration.holes
                   /\ [iteration EXCEPT !.value = v].value = v
                   /\ [iteration EXCEPT !.value = v].holes = iteration.holes
  BY DEF TypeOK, Hole, Marked
<1> USE <1>0, <1>a
<1>1. ASSUME NEW p \in Procs, NEW k \in Kinds, Start(p, k) PROVE IterationInv'
  BY <1>1 DEF Start, First, Kinds, Api
<1>2. CASE GrowOld
  BY <1>2 DEF GrowOld
<1>3. ASSUME NEW p \in Procs, Unlink(p) \/ Create(p) \/ WritePid(p) \/ Announce(p) \/ Loop(p)
             \/ Beat(p) \/ PassFails(p) \/ Finally(p) \/ Close(p) \/ Remove(p) \/ Inspect(p)
      PROVE IterationInv'
  BY <1>3 DEF Unlink, Create, WritePid, Announce, Loop, Beat, PassFails, Finally, Close, Remove,
      Inspect
<1>4. ASSUME NEW p \in Procs, Clean(p) \/ Note(p) \/ Evaluate(p) \/ Trigger(p)
      PROVE IterationInv'
  BY <1>4 DEF Clean, Note, Evaluate, Trigger
<1>5. ASSUME NEW p \in Procs, Lookup(p) \/ ReadLock(p) \/ TakeLock(p) \/ Run(p) \/ ReleaseLock(p)
             \/ Remember(p)
      PROVE IterationInv'
  BY <1>5 DEF Lookup, Checked, ReadLock, TakeLock, Run, ReleaseLock, Remember
<1>6. ASSUME NEW p \in Procs, ReadDecision(p) \/ Approve(p) \/ Reject(p) \/ ApplyFails(p)
      PROVE IterationInv'
  BY <1>6 DEF ReadDecision, Checked, Approve, Decide, Reject, ApplyFails
<1>7. ASSUME NEW p \in Procs, CheckPlan(p) \/ InsertFails(p) \/ IterationEnds(p)
             \/ CommitPlan(p) \/ AssignmentEnds(p)
      PROVE IterationInv'
  BY <1>7 DEF CheckPlan, PlanFor, Checked, InsertFails, IterationEnds, CommitPlan, AssignmentEnds
<1>8. ASSUME NEW p \in Procs, Kill(p) PROVE IterationInv'
  BY <1>8 DEF Kill
<1>9. ASSUME NEW p \in Procs, Begin(p) PROVE IterationInv'
  <2> DEFINE first == CHOOSE t \in 1..9 : t \notin iteration.marks /\ \A u \in 1..(t - 1) :
                 u \in iteration.marks
  <2>1. /\ stage' = [stage EXCEPT ![p] = first]
               /\ iteration' = [iteration EXCEPT !.value = "RUNNING"]
        /\ overlap' = IF iteration.holes # {} \/ \E q \in Procs : stage[q] # 0
                      THEN overlap \cup {"iteration"} ELSE overlap
    BY <1>9 DEF Begin
  <2> HIDE DEF first
  <2> QED BY <2>1
<1>10. ASSUME NEW p \in Procs, HealthStage(p) PROVE IterationInv'
  BY <1>10 DEF HealthStage, Advance, Health
<1>11. ASSUME NEW p \in Procs, StageDone(p) PROVE IterationInv'
  <2>1. at[p] = "stage" /\ stage[p] \in Stages /\ Advance(p, stage[p]) /\ overlap' = overlap
    BY <1>11 DEF StageDone
  <2>2. PICK s : \/ iteration' = Marked(s)
                 \/ iteration' = [Marked(s) EXCEPT !.value = "QUALITY_HOLD"]
                 \/ iteration' = [Marked(s) EXCEPT !.value = "RELEASE_READY"]
    BY <1>11, Zenon DEF StageDone
  <2>3. iteration'.holes = iteration.holes
    <3>1. CASE iteration' = Marked(s)
      BY <3>1
    <3>2. ASSUME NEW v, iteration' = [Marked(s) EXCEPT !.value = v]
          PROVE iteration'.holes = iteration.holes
      BY <3>2 DEF Marked, TypeOK
    <3> QED BY <2>2, <3>1, <3>2
  <2>4. kind[p] = "dry" => stage[p] < 3 /\ iteration'.value = iteration.value
    BY <1>11 DEF StageDone, Quality, Readiness
  <2>5. kind' = kind /\ stage' = [stage EXCEPT ![p] = AfterStage(p, stage[p])]
    BY <2>1 DEF Advance
  <2>6. "iteration" \notin overlap => iteration.holes = {}
    BY <2>1, <2>4
  <2> QED BY <2>1, <2>3, <2>4, <2>5, <2>6
<1>12. ASSUME NEW p \in Procs, StageFails(p) PROVE IterationInv'
  BY <1>12 DEF StageFails
<1>13. ASSUME NEW p \in Procs, DryRun(p) PROVE IterationInv'
  BY <1>13 DEF DryRun
<1>14. ASSUME NEW p \in Procs, PlanFails(p) PROVE IterationInv'
  BY <1>14 DEF PlanFails, PlanFor
<1>15. ASSUME NEW p \in Procs, PlanMarked(p) PROVE IterationInv'
  BY <1>15 DEF PlanMarked, Advance
<1>17. ASSUME NEW p \in Procs, DryPlan(p) PROVE IterationInv'
  <2>1. /\ at[p] = "stage" /\ kind[p] = "dry" /\ stage[p] = 3 /\ overlap' = overlap
        /\ kind' = kind /\ stage' = [stage EXCEPT ![p] = AfterStage(p, 3)]
        /\ iteration' = Hole(3, iteration.value)
    BY <1>17 DEF DryPlan, Advance
  <2>2. AfterStage(p, 3) \in 4..9
    BY AfterStageType
  <2>3. iteration'.value = iteration.value
    BY <2>1
  <2> QED BY <2>1, <2>2, <2>3
<1>16. ASSUME NEW p \in Procs, Crash(p) PROVE IterationInv'
  BY <1>16 DEF Crash
<1> QED BY <1>1, <1>2, <1>3, <1>4, <1>5, <1>6, <1>7, <1>8, <1>9, <1>10, <1>11, <1>12, <1>13,
    <1>14, <1>15, <1>16, <1>17
    DEF Next, Step, DaemonStep

\* Every step keeps WindowInv.
LEMMA WindowStep ==
    ASSUME TypeOK, WindowInv, Next
    PROVE  WindowInv'
<1> USE DEF Goto, End, procs, daemon, api, WindowInv
<1>0. /\ kind \in [Procs -> Kinds \cup {"none"}] /\ at \in [Procs -> Places]
      /\ acts \in [Resources -> 0..2] /\ {"key", "decision", "plan", "window"} = Resources
  BY DEF TypeOK, Resources
<1> USE <1>0
<1>1. ASSUME NEW p \in Procs, NEW k \in Kinds, Start(p, k) PROVE WindowInv'
  BY <1>1 DEF Start, First, Kinds, Api
<1>2. CASE GrowOld
  BY <1>2 DEF GrowOld
<1>3. ASSUME NEW p \in Procs, Unlink(p) \/ Create(p) \/ WritePid(p) \/ Announce(p) \/ Loop(p)
             \/ Beat(p) \/ PassFails(p) \/ Finally(p) \/ Close(p) \/ Remove(p) \/ Inspect(p)
      PROVE WindowInv'
  BY <1>3 DEF Unlink, Create, WritePid, Announce, Loop, Beat, PassFails, Finally, Close, Remove,
      Inspect
<1>4. ASSUME NEW p \in Procs, Clean(p) \/ Note(p) \/ Evaluate(p) \/ Kill(p) \/ Crash(p)
      PROVE WindowInv'
  BY <1>4 DEF Clean, Note, Evaluate, Kill, Crash
<1>5. ASSUME NEW p \in Procs, Lookup(p) \/ ReadLock(p) \/ TakeLock(p) \/ Run(p) \/ ReleaseLock(p)
             \/ Remember(p)
      PROVE WindowInv'
  BY <1>5 DEF Lookup, ReadLock, TakeLock, Run, Acted, ReleaseLock, Remember
<1>6. ASSUME NEW p \in Procs, ReadDecision(p) \/ Approve(p) \/ Reject(p) \/ ApplyFails(p)
      PROVE WindowInv'
  BY <1>6 DEF ReadDecision, Approve, Decide, Acted, Reject, ApplyFails
<1>7. ASSUME NEW p \in Procs, HealthStage(p) \/ StageDone(p) \/ StageFails(p) \/ DryRun(p)
             \/ IterationEnds(p) \/ CheckPlan(p) \/ PlanFails(p) \/ CommitPlan(p)
                    \/ InsertFails(p) \/ Begin(p) \/ DryPlan(p) \/ PlanMarked(p)
                    \/ AssignmentEnds(p)
      PROVE WindowInv'
  BY <1>7 DEF HealthStage, StageDone, StageFails, DryRun, IterationEnds, CheckPlan, PlanFails,
      CommitPlan, Acted, InsertFails, Begin, DryPlan,
      PlanMarked, AssignmentEnds
<1>8. ASSUME NEW p \in Procs, Trigger(p) PROVE WindowInv'
  BY <1>8 DEF Trigger, Acted
<1> QED BY <1>1, <1>2, <1>3, <1>4, <1>5, <1>6, <1>7, <1>8
    DEF Next, Step, DaemonStep
-----------------------------------------------------------------------------
IInv == /\ TypeOK /\ SlotInv /\ FileInv /\ LockInv /\ KeyInv /\ DecisionInv /\ PlanInv
        /\ WindowInv /\ IterationInv

\* The invariant holds at first.
LEMMA InitIInv ==
    ASSUME Init
    PROVE  IInv
<1>1. ProcType /\ LockType /\ IterationType /\ RestType
  <2>1. ProcType
    BY DEF Init, ProcType, Places
  <2>2. LockType
    BY DEF Init, LockType
  <2>3. IterationType
    BY DEF Init, IterationType
  <2>4. RestType
    <3>1. record \in BOOLEAN
      BY DEF Init
    <3>2. acts \in [Resources -> 0..2] /\ overlap \subseteq Resources \cup {"lock", "iteration"}
          /\ starts \in 0..StartBound /\ faults \in 0..FaultBound
      BY ControlAssumption DEF Init
    <3>3. status \in [value : {"stopped", "running", "error"}, pid : Procs \cup {NoPid}]
      BY DEF Init
    <3> QED BY <3>1, <3>2, <3>3 DEF Init, RestType
  <2> QED BY <2>1, <2>2, <2>3, <2>4
<1>2. TypeOK
  BY <1>1, TypeParts
<1>3. SlotInv /\ FileInv /\ LockInv
  BY DEF Init, SlotInv, FileInv, LockInv, Serving
<1>4. KeyInv /\ DecisionInv /\ PlanInv /\ WindowInv
  BY CommittedAt DEF Init, KeyInv, DecisionInv, PlanInv, WindowInv, RequestAt, Resources
<1>5. IterationInv
  BY DEF Init, IterationInv
<1> QED BY <1>2, <1>3, <1>4, <1>5 DEF IInv

\* Every step keeps the invariant.
LEMMA StepIInv ==
    ASSUME IInv, [Next]_vars
    PROVE  IInv'
<1>1. CASE Next
  BY <1>1, TypeStep, SlotStep, FileStep, LockStep, KeyStep, DecisionStep, PlanStep, WindowStep,
     IterationStep DEF IInv
<1>2. CASE UNCHANGED vars
  <2> USE <1>2 DEF vars, procs, daemon, api
  <2>1. TypeOK'
    BY DEF IInv, TypeOK
  <2>2. SlotInv' /\ FileInv' /\ LockInv'
    BY DEF IInv, SlotInv, FileInv, LockInv, Serving
  <2>3. KeyInv' /\ DecisionInv' /\ PlanInv' /\ WindowInv'
    BY DEF IInv, KeyInv, DecisionInv, PlanInv, WindowInv, Committed
  <2>4. IterationInv'
    BY DEF IInv, IterationInv
  <2> QED BY <2>1, <2>2, <2>3, <2>4 DEF IInv
<1> QED BY <1>1, <1>2

\* The inductive invariant of the control plane.
THEOREM ControlInvariant == Spec => []IInv
BY InitIInv, StepIInv, PTL DEF Spec

\* Every variable of the control plane keeps its type.
THEOREM ControlTypes == Spec => []TypeOK
<1>1. IInv => TypeOK
  BY DEF IInv
<1> QED BY <1>1, ControlInvariant, PTL

\* Where an open file cannot be removed, two daemons never serve at once, for
\* any number of starts, stops and crashes around the lock file.
THEOREM OneDaemon == Spec => []SingleDaemon
<1>1. IInv => SingleDaemon
  <2> SUFFICES ASSUME IInv, Windows PROVE Cardinality(Serving) <= 1
    BY DEF SingleDaemon
  <2>1. \A p, q \in Serving : p = q
    BY DEF IInv, FileInv
  <2> QED BY <2>1, AtMostOne
<1> QED BY <1>1, ControlInvariant, PTL

\* Two control operations run at once only when a lock was taken from an owner
\* that was alive.
THEOREM OperationsAreExclusive == Spec => []OperationsExclude
<1>1. IInv => OperationsExclude
  <2> SUFFICES ASSUME IInv, "lock" \notin overlap
               PROVE  ~(Cardinality({p \in Procs : at[p] = "run"}) > 1)
    BY DEF OperationsExclude
  <2> DEFINE running == {p \in Procs : at[p] = "run"}
  <2>1. \A p, q \in running : p = q
    BY DEF IInv, LockInv
  <2>2. Cardinality(running) <= 1 /\ Cardinality(running) \in Nat
    BY <2>1, AtMostOne
  <2> QED BY <2>2
<1> QED BY <1>1, ControlInvariant, PTL

\* A key, a decision and an item are acted on once unless two processes
\* overlapped on them, and a window once in any case.
THEOREM OnceWithoutOverlap == Spec => []OnceUnlessOverlapping
<1>1. IInv => OnceUnlessOverlapping
  <2> SUFFICES ASSUME IInv PROVE OnceUnlessOverlapping
    OBVIOUS
  <2>1. acts \in [Resources -> 0..2]
    BY DEF IInv, TypeOK
  <2>2. "key" \notin overlap => acts["key"] <= 1
    BY DEF IInv, KeyInv
  <2>3. "decision" \notin overlap => acts["decision"] <= 1
    BY DEF IInv, DecisionInv
  <2>4. "plan" \notin overlap => acts["plan"] <= 1
    BY DEF IInv, PlanInv
  <2>5. acts["window"] <= 1
    BY DEF IInv, WindowInv
  <2> QED BY <2>1, <2>2, <2>3, <2>4, <2>5 DEF OnceUnlessOverlapping, Resources
<1> QED BY <1>1, ControlInvariant, PTL

\* RELEASE_READY is reached past a stage that was not passed only by starting
\* the conductor again, or twice at once.
THEOREM ReadyOnlyPassed == Spec => []ReadyWasPassed
<1>1. IInv => ReadyWasPassed
  BY DEF IInv, IterationInv, ReadyWasPassed
<1> QED BY <1>1, ControlInvariant, PTL
=============================================================================
