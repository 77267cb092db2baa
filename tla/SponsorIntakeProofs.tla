------------------------- MODULE SponsorIntakeProofs -------------------------
(***************************************************************************)
(* The safety properties of the sponsor's intake for any number of messages,  *)
(* envelopes, faults, ids and registrations by the operator.                  *)
(***************************************************************************)
EXTENDS SponsorIntake, FiniteSetTheorems, TLAPS

Resting == {"idle", "next"}
Creating == {"bootstrap", "load", "persist"}
BeforeEffect == {"route", "release", "chat", "request", "lookup"} \cup Creating
Handling ==
    BeforeEffect \cup {"working", "preview", "readback", "handoff", "record", "reply", "show"}
ByKey == {"keys", "route", "release", "chat", "working", "preview"}
ForProject == Creating \cup {"lookup", "readback", "handoff", "record"}

\* The daemon has an item in hand exactly while it executes one, and everything
\* of its batch is claimed.
BatchInv ==
    /\ cur = NoEnvelope <=> pc \in Resting
    /\ pc = "idle" => batch = {}
    /\ cur \notin batch
    /\ \A e \in batch : row[e] = "claimed"
    /\ pc \notin Resting => row[cur] = "claimed"

\* Slash commands have one envelope and skip the dedup keys, only envelopes that
\* nobody answers have theirs released, and only project requests create.
KindInv ==
    /\ pc \in ByKey => kind[M] \notin Slash
    /\ pc = "release" => Overheard(cur)
    /\ pc \in ForProject => kind[M] \in {"project", "slashProject"}
    /\ \A m \in Messages : kind[m] \in Slash /\ <<m, 2>> \in Envelopes => row[<<m, 2>>] = "absent"

\* An id whose registration returned stays reserved and keeps its repository,
\* and the one in hand is reserved for nobody else.
CreationInv ==
    /\ \A i \in Ids : uses[i] <= 1
    /\ \A i \in Ids : uses[i] = 1 => i \in reserved /\ i \in repos
    /\ pc \in Creating \cup {"readback"} => myId \in reserved /\ uses[myId] = 0
    /\ pc \in {"load", "persist", "readback"} => myId \in repos
    /\ pc \in ForProject \ {"lookup"} => myId \in Ids

\* The keys of a message are claimed before its effect, and stay claimed.
EffectInv ==
    /\ \A m \in Messages : kind[m] \notin Slash => effects[m] <= 1
           /\ (effects[m] > 0 => m \in keys)
    /\ pc \in BeforeEffect /\ kind[M] \notin Slash => M \in keys /\ effects[M] = 0

\* A slash command has had its effect once, or once more for each fault.
SlashInv ==
    \A m \in Messages : kind[m] \in Slash =>
        /\ effects[m] <= faults + 1
        /\ row[<<m, 1>>] # "succeeded" /\ (pc \in Resting \cup BeforeEffect \/ M # m)
               => effects[m] <= faults

\* Messages that were begun, are in nobody's hand and have no answer.
Swallowed ==
    {m \in Messages : /\ kind[m] \notin Slash \cup {"other"}
                      /\ answers[m] = 0 /\ m \in keys
                      /\ pc \in Handling => M # m}

\* What is worked off was answered or was swallowed before.
AnswerInv ==
    /\ pc = "mark" /\ kind[M] = "slash" => answers[M] > 0
    /\ \A m \in Messages : kind[m] = "slash" /\ row[<<m, 1>>] = "succeeded" => answers[m] > 0
    /\ \A m \in Messages : record[m] # NoId => answers[m] > 0
    /\ pc \in Handling \cup {"mark"} /\ kind[M] \notin Slash /\ ~Overheard(cur) => M \in keys
    /\ pc \in {"route", "release"} =>
          \A e \in Envelopes : e[1] = M /\ row[e] = "succeeded" => Overheard(e)
    /\ \A e \in Envelopes : row[e] = "succeeded" /\ kind[e[1]] \notin Slash /\ ~Overheard(e)
                                => e[1] \in keys

SwallowedInv == Cardinality(Swallowed) <= faults

\* Proposals that were executed unseen, or could be.
Unseen == blind \cup {m \in {proposal.maker} :
                        proposal.preview = "saved" /\ m \notin shown /\ pc # "show"}

UnseenInv == Cardinality(Unseen) <= faults
-----------------------------------------------------------------------------
\* An envelope is a message and the number of its copy.
LEMMA EnvelopesArePairs ==
    /\ \A e \in Envelopes : e[1] \in Messages /\ e # NoEnvelope /\ e[2] \in {1, 2}
           /\ e = <<e[1], e[2]>>
    /\ \A m \in Messages : <<m, 1>> \in Envelopes
BY IntakeAssumption DEF Envelopes, Messages, NoEnvelope

\* Adding one keeps a counter a counter.
LEMMA Bumped ==
    ASSUME NEW S, NEW f \in [S -> Nat], NEW x \in S
    PROVE  [f EXCEPT ![x] = @ + 1] \in [S -> Nat]
OBVIOUS

ProposalType == [status : {"none", "pending", "expired", "completed", "failed"},
                 project : Projects, maker : 0..MessageBound, preview : {"none", "saved"}]

\* Every step keeps the types.
LEMMA TypeStep ==
    ASSUME TypeOK, BatchInv, CreationInv, Next
    PROVE  TypeOK'
<1> USE EnvelopesArePairs, IntakeAssumption
        DEF Unmoved, Undecided, Go, slack, chat, creation, daemon, operator
<1>0. pc \notin Resting => M \in Messages
  BY DEF TypeOK, BatchInv, M
<1>a. pc \in ForProject \ {"lookup"} => myId \in Ids
  BY DEF CreationInv
<1>b. pc \notin Resting => cur \in Envelopes
  BY DEF TypeOK, BatchInv
<1>c. /\ faults < FaultBound => faults + 1 \in 0..FaultBound
      /\ registrations < OperatorBound => registrations + 1 \in 0..OperatorBound
      /\ OperatorIds \subseteq Ids /\ Messages \subseteq Nat
  <2>1. faults \in 0..FaultBound /\ registrations \in 0..OperatorBound
    BY DEF TypeOK
  <2> QED BY <2>1 DEF Ids, Messages
<1>d. proposal \in ProposalType /\ proposal.maker \in 0..MessageBound
  BY DEF TypeOK, ProposalType
<1>e. pc \notin Resting => M \in 0..MessageBound
  BY <1>0 DEF Messages
<1> USE <1>0, <1>a, <1>b, <1>c DEF TypeOK, Resting, ForProject, Creating, Places, CreationKeys,
        Owners
<1>1. ASSUME NEW e \in Envelopes, Receive(e) PROVE TypeOK'
  BY <1>1 DEF Receive, Enqueued
<1>2. ASSUME NEW e \in Envelopes, Lapse(e) PROVE TypeOK'
  BY <1>2 DEF Lapse
<1>3. ASSUME NEW e \in Envelopes, Pick(e) PROVE TypeOK'
  BY <1>3 DEF Pick
<1>4. ASSUME NEW i \in Ids, Allocate(i) PROVE TypeOK'
  BY <1>4 DEF Allocate, KeyOf, Known
<1>5. ASSUME NEW i \in OperatorIds, OperatorLoad(i) PROVE TypeOK'
  BY <1>5 DEF OperatorLoad, Owners
<1>6. CASE ClaimBatch
  BY <1>6 DEF ClaimBatch, Requeued
<1>7. CASE EndBatch
  BY <1>7 DEF EndBatch, Empty
<1>8. CASE ClaimKeys
  BY <1>8 DEF ClaimKeys
<1>9. CASE Route
  BY <1>9 DEF Route
<1>10. CASE Release
  BY <1>10 DEF Release
<1>11. CASE Reply
  BY <1>11, <1>d, Bumped DEF Reply
<1>12. CASE Mark
  BY <1>12 DEF Mark, Empty
<1>13. CASE ChatAnswer
  BY <1>13 DEF ChatAnswer, Turn, InsertMessage, PutThread, Resolvable, Projects
<1>14. CASE ChatUnresolved
  BY <1>14 DEF ChatUnresolved, InsertMessage
<1>15. CASE ChatError
  BY <1>15 DEF ChatError
<1>16. CASE ChatHandoff
  BY <1>16, Bumped DEF ChatHandoff, Turn, InsertMessage, PutThread, Resolvable, Projects
<1>17. CASE ChatDone
  BY <1>17 DEF ChatDone
<1>18. CASE ChatPropose
  BY <1>18, <1>e, Bumped DEF ChatPropose, Turn, InsertMessage, PutThread, Resolvable, Projects, Proposed
<1>19. CASE ChatPreview \/ PreviewFails \/ PreviewLost
  BY <1>19 DEF ChatPreview, PreviewFails, PreviewLost
<1>20. CASE ChatApprove
  BY <1>20, <1>d, Bumped DEF ChatApprove, Turn, InsertMessage, PutThread, Resolvable, Projects,
      Approvable
<1>21. CASE Command
  BY <1>21 DEF Command, Commands
<1>22. CASE SubmitItem
  BY <1>22, Bumped DEF SubmitItem, Commands
<1>23. CASE RequestProject
  BY <1>23 DEF RequestProject
<1>24. CASE Replayed
  BY <1>24 DEF Replayed, KeyOf
<1>25. CASE Bootstrap
  BY <1>25 DEF Bootstrap
<1>26. CASE BootstrapFails
  BY <1>26 DEF BootstrapFails, Withdraw
<1>27. CASE CreationFails
  BY <1>27 DEF CreationFails, Withdraw
<1>28. CASE RegisterLoad
  BY <1>28 DEF RegisterLoad
<1>29. CASE RegisterPersist
  BY <1>29, Bumped DEF RegisterPersist
<1>37. CASE RegisterReadBack
  BY <1>37, Bumped DEF RegisterReadBack
<1>30. CASE HandoffFails
  BY <1>30 DEF HandoffFails
<1>31. CASE HandoffAccepted
  BY <1>31 DEF HandoffAccepted
<1>32. CASE RecordCreation
  BY <1>32, Bumped DEF RecordCreation, KeyOf
<1>33. CASE Raise
  BY <1>33 DEF Raise, Empty, KeysAfterRaise
<1>34. CASE Crash
  BY <1>34 DEF Crash, Empty
<1>35. CASE Expire
  BY <1>35 DEF Expire
<1>36. CASE OperatorPersist
  BY <1>36 DEF OperatorPersist, Empty
<1> QED BY <1>1, <1>2, <1>3, <1>4, <1>5, <1>6, <1>7, <1>8, <1>9, <1>10, <1>11, <1>12, <1>13,
    <1>14, <1>15, <1>16, <1>17, <1>18, <1>19, <1>20, <1>21, <1>22, <1>23, <1>24, <1>25, <1>26,
    <1>27, <1>28, <1>29, <1>30, <1>31, <1>32, <1>33, <1>34, <1>35, <1>36, <1>37
    DEF Next, Socket, Daemon, Chat, Request, Create

\* The actions within one item.
Working == ClaimKeys \/ Route \/ Release \/ Reply \/ Chat \/ Request \/ Create \/ Expire

\* A step of the handling of a message starts and ends inside it, and
\* leaves the batch and the message alone.
LEMMA WorkingMoves ==
    ASSUME Working
    PROVE  /\ pc \notin Resting /\ pc' \notin Resting
           /\ UNCHANGED <<batch, cur, row, kind, faults, operator>>
<1> USE DEF Unmoved, Undecided, Go, slack, chat, creation, daemon, operator, Resting
<1>1. ASSUME NEW i \in Ids, Allocate(i)
      PROVE pc = "lookup" /\ pc' = "bootstrap"
                /\ UNCHANGED <<batch, cur, row, kind, faults, operator>>
  BY <1>1 DEF Allocate
<1>2. CASE ClaimKeys \/ Route \/ Release \/ Reply \/ Expire
  BY <1>2 DEF ClaimKeys, Route, Release, Reply, Expire
<1>3. CASE Chat
  BY <1>3 DEF Chat, ChatAnswer, ChatUnresolved, ChatError, ChatHandoff, ChatDone, ChatPropose,
      ChatPreview, PreviewFails, ChatApprove
<1>4. CASE Request
  BY <1>4 DEF Request, RequestProject, Command, SubmitItem
<1>5. CASE Create
  BY <1>1, <1>5 DEF Create, Replayed, Bootstrap, BootstrapFails, CreationFails, Withdraw,
      RegisterLoad, RegisterPersist, RegisterReadBack, HandoffFails, HandoffAccepted, RecordCreation
<1> QED BY <1>2, <1>3, <1>4, <1>5 DEF Working

\* Every step keeps BatchInv.
LEMMA BatchStep ==
    ASSUME TypeOK, BatchInv, Next
    PROVE  BatchInv'
<1> USE EnvelopesArePairs DEF Go, slack, chat, creation, daemon, operator, BatchInv, Resting
<1>0. /\ row \in [Envelopes -> {"absent", "pending", "claimed", "lapsed", "succeeded"}]
      /\ batch \subseteq Envelopes /\ cur \in Envelopes \cup {NoEnvelope}
  BY DEF TypeOK
<1> USE <1>0
<1>1. ASSUME NEW e \in Envelopes, Receive(e) PROVE BatchInv'
  BY <1>1 DEF Receive, Enqueued
<1>2. ASSUME NEW e \in Envelopes, Lapse(e) PROVE BatchInv'
  BY <1>2 DEF Lapse
<1>3. ASSUME NEW e \in Envelopes, Pick(e) PROVE BatchInv'
  BY <1>3 DEF Pick
<1>4. ASSUME NEW i \in OperatorIds, OperatorLoad(i) PROVE BatchInv'
  BY <1>4 DEF OperatorLoad
<1>5. CASE ClaimBatch
  BY <1>5 DEF ClaimBatch, Requeued
<1>6. CASE EndBatch
  BY <1>6 DEF EndBatch
<1>7. CASE Mark
  BY <1>7 DEF Mark
<1>8. CASE Working
  BY <1>8, WorkingMoves
<1>9. CASE Raise
  BY <1>9 DEF Raise
<1>10. CASE Crash
  BY <1>10 DEF Crash
<1>11. CASE OperatorPersist
  BY <1>11 DEF OperatorPersist
<1>12. CASE PreviewLost
  BY <1>12 DEF PreviewLost
<1> QED BY <1>1, <1>2, <1>3, <1>4, <1>5, <1>6, <1>7, <1>8, <1>9, <1>10, <1>11, <1>12
    DEF Next, Socket, Daemon, Working

\* Every step keeps KindInv.
LEMMA KindStep ==
    ASSUME TypeOK, BatchInv, KindInv, Next
    PROVE  KindInv'
<1> USE EnvelopesArePairs DEF Go, Unmoved, Undecided, slack, chat, creation, daemon, operator,
        KindInv, BatchInv, Resting, Slash, Overheard, M
<1>0. /\ row \in [Envelopes -> {"absent", "pending", "claimed", "lapsed", "succeeded"}]
      /\ batch \subseteq Envelopes /\ cur \in Envelopes \cup {NoEnvelope}
      /\ kind \in [Messages -> Kinds]
  BY IntakeAssumption DEF TypeOK, Messages
<1> USE <1>0 DEF ByKey, ForProject, Creating
<1>1. ASSUME NEW e \in Envelopes, Receive(e) PROVE KindInv'
  BY <1>1 DEF Receive, Enqueued
<1>2. ASSUME NEW e \in Envelopes, Lapse(e) PROVE KindInv'
  BY <1>2 DEF Lapse
<1>3. ASSUME NEW e \in Envelopes, Pick(e) PROVE KindInv'
  BY <1>3 DEF Pick
<1>4. ASSUME NEW i \in OperatorIds, OperatorLoad(i) PROVE KindInv'
  BY <1>4 DEF OperatorLoad
<1>5. CASE ClaimBatch
  BY <1>5 DEF ClaimBatch, Requeued
<1>6. CASE EndBatch
  BY <1>6 DEF EndBatch
<1>7. CASE Mark
  BY <1>7 DEF Mark
<1>8. CASE Working
  <2>0. UNCHANGED <<cur, row, kind>>
    BY <1>8, WorkingMoves
  <2>1. CASE ClaimKeys
    BY <2>0, <2>1 DEF ClaimKeys
  <2>2. CASE Route
    BY <2>0, <2>2 DEF Route, Kinds
  <2>3. CASE Release \/ Reply \/ Expire
    BY <2>0, <2>3 DEF Release, Reply, Expire
  <2>4. CASE Chat
    BY <2>0, <2>4 DEF Chat, ChatAnswer, ChatUnresolved, ChatError, ChatHandoff, ChatDone,
        ChatPropose, ChatPreview, PreviewFails, ChatApprove
  <2>5. CASE Request
    BY <2>0, <2>5 DEF Request, RequestProject, Command, SubmitItem
  <2>6. CASE Create
    BY <2>0, <2>6 DEF Create, Replayed, Allocate, Bootstrap, BootstrapFails, CreationFails,
        Withdraw, RegisterLoad, RegisterPersist, RegisterReadBack, HandoffFails, HandoffAccepted, RecordCreation
  <2> QED BY <1>8, <2>1, <2>2, <2>3, <2>4, <2>5, <2>6 DEF Working
<1>9. CASE Raise
  BY <1>9 DEF Raise
<1>10. CASE Crash
  BY <1>10 DEF Crash
<1>11. CASE OperatorPersist
  BY <1>11 DEF OperatorPersist
<1>12. CASE PreviewLost
  BY <1>12 DEF PreviewLost
<1> QED BY <1>1, <1>2, <1>3, <1>4, <1>5, <1>6, <1>7, <1>8, <1>9, <1>10, <1>11, <1>12
    DEF Next, Socket, Daemon, Working

\* Creation: the steps that touch reservations, repositories or the registry.
LEMMA CreationStep ==
    ASSUME TypeOK, BatchInv, CreationInv, Next
    PROVE  CreationInv'
<1> USE DEF Go, Unmoved, Undecided, slack, chat, creation, daemon, operator, ForProject,
        Creating, CreationInv
<1>0. /\ uses \in [Ids -> Nat] /\ registry \in [Ids -> Owners] /\ snapshot \in [Ids -> Owners]
      /\ opSnapshot \in [Ids -> Owners] /\ myId \in Ids \cup {NoId} /\ opId \in Ids \cup {NoId}
      /\ Ids \subseteq Nat /\ NoId \notin Ids /\ reserved \subseteq Ids
  BY IntakeAssumption DEF TypeOK, Ids, NoId
<1> USE <1>0
<1>1. ASSUME NEW e \in Envelopes, Receive(e) \/ Lapse(e) \/ Pick(e) PROVE CreationInv'
  BY <1>1 DEF Receive, Lapse, Pick
<1>2. CASE ClaimBatch \/ ClaimKeys \/ Route \/ Release \/ Reply \/ Expire \/ PreviewLost
  BY <1>2 DEF ClaimBatch, ClaimKeys, Route, Release, Reply, Expire, PreviewLost
<1>3. CASE EndBatch \/ Mark \/ Raise \/ Crash
  BY <1>3 DEF EndBatch, Mark, Raise, Crash, Empty
<1>4. CASE Chat
  BY <1>4 DEF Chat, ChatAnswer, ChatUnresolved, ChatError, ChatHandoff, ChatDone, ChatPropose,
      ChatPreview, PreviewFails, ChatApprove
<1>5. CASE Request
  BY <1>5 DEF Request, RequestProject, Command, SubmitItem
<1>6. CASE Replayed \/ HandoffFails \/ HandoffAccepted \/ RecordCreation
  BY <1>6 DEF Replayed, HandoffFails, HandoffAccepted, RecordCreation
<1>7. ASSUME NEW i \in Ids, Allocate(i) PROVE CreationInv'
  BY <1>7 DEF Allocate, Known
<1>8. CASE Bootstrap
  BY <1>8 DEF Bootstrap
<1>9. CASE BootstrapFails \/ CreationFails
  BY <1>9 DEF BootstrapFails, CreationFails, Withdraw
<1>10. CASE RegisterLoad
  BY <1>10 DEF RegisterLoad
<1>11. CASE RegisterPersist \/ RegisterReadBack
  BY <1>11 DEF RegisterPersist, RegisterReadBack
<1>12. ASSUME NEW i \in OperatorIds, OperatorLoad(i) PROVE CreationInv'
  BY <1>12 DEF OperatorLoad
<1>13. CASE OperatorPersist
  BY <1>13 DEF OperatorPersist, Empty
<1> QED BY <1>1, <1>2, <1>3, <1>4, <1>5, <1>6, <1>7, <1>8, <1>9, <1>10, <1>11, <1>12, <1>13
    DEF Next, Socket, Daemon, Create

\* Every step keeps EffectInv.
LEMMA EffectStep ==
    ASSUME TypeOK, BatchInv, KindInv, EffectInv, Next
    PROVE  EffectInv'
<1> USE EnvelopesArePairs DEF Go, Unmoved, Undecided, slack, chat, creation, daemon, operator, M,
        Slash, Resting, BatchInv, KindInv, EffectInv, BeforeEffect, Creating, ByKey, ForProject
<1>0. /\ row \in [Envelopes -> {"absent", "pending", "claimed", "lapsed", "succeeded"}]
      /\ batch \subseteq Envelopes /\ cur \in Envelopes \cup {NoEnvelope}
      /\ kind \in [Messages -> Kinds] /\ effects \in [Messages -> Nat]
             /\ answers \in [Messages -> Nat]
      /\ faults \in Nat /\ Messages \subseteq Nat
  BY IntakeAssumption DEF TypeOK, Messages
<1>a. pc \notin Resting => cur \in Envelopes /\ M \in Messages
  BY <1>0 DEF BatchInv, M
<1> USE <1>0, <1>a
<1>1. ASSUME NEW e \in Envelopes, Receive(e) PROVE EffectInv'
  BY <1>1 DEF Receive, Enqueued
<1>2. ASSUME NEW e \in Envelopes, Lapse(e) PROVE EffectInv'
  BY <1>2 DEF Lapse
<1>3. ASSUME NEW e \in Envelopes, Pick(e) PROVE EffectInv'
  BY <1>3 DEF Pick
<1>4. ASSUME NEW i \in OperatorIds, OperatorLoad(i) PROVE EffectInv'
  BY <1>4 DEF OperatorLoad
<1>5. CASE ClaimBatch
  BY <1>5 DEF ClaimBatch, Requeued
<1>6. CASE EndBatch
  BY <1>6 DEF EndBatch
<1>7. CASE Mark
  BY <1>7 DEF Mark
<1>8. CASE Working
  <2>0. UNCHANGED <<cur, row, kind, faults>> /\ pc \notin Resting
    BY <1>8, WorkingMoves
  <2>1. CASE ClaimKeys
    BY <2>0, <2>1 DEF ClaimKeys
  <2>2. CASE Route
    BY <2>0, <2>2 DEF Route
  <2>3. CASE Release
    BY <2>0, <2>3 DEF Release
  <2>4. CASE Reply
    BY <2>0, <2>4 DEF Reply
  <2>5. CASE Expire
    BY <2>0, <2>5 DEF Expire
  <2>6. CASE ChatAnswer \/ ChatUnresolved \/ ChatError \/ ChatDone \/ ChatPreview \/ PreviewFails
    BY <2>0, <2>6 DEF ChatAnswer, ChatUnresolved, ChatError, ChatDone, ChatPreview, PreviewFails,
        Turn, InsertMessage
  <2>7. CASE ChatHandoff \/ ChatPropose \/ ChatApprove
    BY <2>0, <2>7 DEF ChatHandoff, ChatPropose, ChatApprove
  <2>8. CASE RequestProject \/ Command
    BY <2>0, <2>8 DEF RequestProject, Command
  <2>9. CASE SubmitItem
    BY <2>0, <2>9 DEF SubmitItem, Commands
  <2>10. CASE Replayed
    BY <2>0, <2>10 DEF Replayed, KeyOf
  <2>11. CASE \E i \in Ids : Allocate(i)
    BY <2>0, <2>11 DEF Allocate
  <2>12. CASE Bootstrap \/ RegisterLoad
    BY <2>0, <2>12 DEF Bootstrap, RegisterLoad
  <2>13. CASE BootstrapFails \/ CreationFails
    BY <2>0, <2>13 DEF BootstrapFails, CreationFails, Withdraw
  <2>14. CASE RegisterPersist \/ RegisterReadBack
    BY <2>0, <2>14 DEF RegisterPersist, RegisterReadBack
  <2>15. CASE HandoffFails \/ HandoffAccepted
    BY <2>0, <2>15 DEF HandoffFails, HandoffAccepted
  <2>16. CASE RecordCreation
    BY <2>0, <2>16 DEF RecordCreation, KeyOf
  <2> QED BY <1>8, <2>1, <2>2, <2>3, <2>4, <2>5, <2>6, <2>7, <2>8, <2>9, <2>10, <2>11, <2>12,
      <2>13, <2>14, <2>15, <2>16
      DEF Working, Chat, Request, Create
<1>9. CASE Raise
  BY <1>9 DEF Raise, KeysAfterRaise
<1>10. CASE Crash
  BY <1>10 DEF Crash
<1>11. CASE OperatorPersist
  BY <1>11 DEF OperatorPersist
<1>12. CASE PreviewLost
  BY <1>12 DEF PreviewLost
<1> QED BY <1>1, <1>2, <1>3, <1>4, <1>5, <1>6, <1>7, <1>8, <1>9, <1>10, <1>11, <1>12
    DEF Next, Socket, Daemon, Working

\* Every step keeps SlashInv.
LEMMA SlashStep ==
    ASSUME TypeOK, BatchInv, KindInv, SlashInv, Next
    PROVE  SlashInv'
<1> USE EnvelopesArePairs DEF Go, Unmoved, Undecided, slack, chat, creation, daemon, operator, M,
        Slash, Resting, BatchInv, KindInv, SlashInv, BeforeEffect, Creating, ByKey, ForProject
<1>0. /\ row \in [Envelopes -> {"absent", "pending", "claimed", "lapsed", "succeeded"}]
      /\ batch \subseteq Envelopes /\ cur \in Envelopes \cup {NoEnvelope}
      /\ kind \in [Messages -> Kinds] /\ effects \in [Messages -> Nat]
             /\ answers \in [Messages -> Nat]
      /\ faults \in Nat /\ Messages \subseteq Nat
  BY IntakeAssumption DEF TypeOK, Messages
<1>a. pc \notin Resting => cur \in Envelopes /\ M \in Messages
  BY <1>0 DEF BatchInv, M
<1> USE <1>0, <1>a
<1>1. ASSUME NEW e \in Envelopes, Receive(e) PROVE SlashInv'
  BY <1>1 DEF Receive, Enqueued
<1>2. ASSUME NEW e \in Envelopes, Lapse(e) PROVE SlashInv'
  BY <1>2 DEF Lapse
<1>3. ASSUME NEW e \in Envelopes, Pick(e) PROVE SlashInv'
  BY <1>3 DEF Pick
<1>4. ASSUME NEW i \in OperatorIds, OperatorLoad(i) PROVE SlashInv'
  BY <1>4 DEF OperatorLoad
<1>5. CASE ClaimBatch
  BY <1>5 DEF ClaimBatch, Requeued
<1>6. CASE EndBatch
  BY <1>6 DEF EndBatch
<1>7. CASE Mark
  BY <1>7 DEF Mark
<1>8. CASE Working
  <2>0. UNCHANGED <<cur, row, kind, faults>> /\ pc \notin Resting
    BY <1>8, WorkingMoves
  <2>1. CASE ClaimKeys
    BY <2>0, <2>1 DEF ClaimKeys
  <2>2. CASE Route
    BY <2>0, <2>2 DEF Route
  <2>3. CASE Release
    BY <2>0, <2>3 DEF Release
  <2>4. CASE Reply
    BY <2>0, <2>4 DEF Reply
  <2>5. CASE Expire
    BY <2>0, <2>5 DEF Expire
  <2>6. CASE ChatAnswer \/ ChatUnresolved \/ ChatError \/ ChatDone \/ ChatPreview \/ PreviewFails
    BY <2>0, <2>6 DEF ChatAnswer, ChatUnresolved, ChatError, ChatDone, ChatPreview, PreviewFails,
        Turn, InsertMessage
  <2>7. CASE ChatHandoff \/ ChatPropose \/ ChatApprove
    BY <2>0, <2>7 DEF ChatHandoff, ChatPropose, ChatApprove
  <2>8. CASE RequestProject \/ Command
    BY <2>0, <2>8 DEF RequestProject, Command
  <2>9. CASE SubmitItem
    BY <2>0, <2>9 DEF SubmitItem, Commands
  <2>10. CASE Replayed
    BY <2>0, <2>10 DEF Replayed, KeyOf
  <2>11. CASE \E i \in Ids : Allocate(i)
    BY <2>0, <2>11 DEF Allocate
  <2>12. CASE Bootstrap \/ RegisterLoad
    BY <2>0, <2>12 DEF Bootstrap, RegisterLoad
  <2>13. CASE BootstrapFails \/ CreationFails
    BY <2>0, <2>13 DEF BootstrapFails, CreationFails, Withdraw
  <2>14. CASE RegisterPersist \/ RegisterReadBack
    BY <2>0, <2>14 DEF RegisterPersist, RegisterReadBack
  <2>15. CASE HandoffFails \/ HandoffAccepted
    BY <2>0, <2>15 DEF HandoffFails, HandoffAccepted
  <2>16. CASE RecordCreation
    BY <2>0, <2>16 DEF RecordCreation, KeyOf
  <2> QED BY <1>8, <2>1, <2>2, <2>3, <2>4, <2>5, <2>6, <2>7, <2>8, <2>9, <2>10, <2>11, <2>12,
      <2>13, <2>14, <2>15, <2>16
      DEF Working, Chat, Request, Create
<1>9. CASE Raise
  BY <1>9 DEF Raise, KeysAfterRaise
<1>10. CASE Crash
  BY <1>10 DEF Crash
<1>11. CASE OperatorPersist
  BY <1>11 DEF OperatorPersist
<1>12. CASE PreviewLost
  BY <1>12 DEF PreviewLost
<1> QED BY <1>1, <1>2, <1>3, <1>4, <1>5, <1>6, <1>7, <1>8, <1>9, <1>10, <1>11, <1>12
    DEF Next, Socket, Daemon, Working

\* Every step keeps AnswerInv.
LEMMA AnswerStep ==
    ASSUME TypeOK, BatchInv, KindInv, AnswerInv, Next
    PROVE  AnswerInv'
<1> USE EnvelopesArePairs DEF Go, Unmoved, Undecided, slack, chat, creation, daemon, operator, M,
        Slash, Resting, BatchInv, KindInv, AnswerInv, BeforeEffect, Creating, ByKey, ForProject,
        Handling, Overheard
<1>0. /\ row \in [Envelopes -> {"absent", "pending", "claimed", "lapsed", "succeeded"}]
      /\ batch \subseteq Envelopes /\ cur \in Envelopes \cup {NoEnvelope}
      /\ kind \in [Messages -> Kinds] /\ effects \in [Messages -> Nat]
             /\ answers \in [Messages -> Nat]
      /\ faults \in Nat /\ Messages \subseteq Nat
  BY IntakeAssumption DEF TypeOK, Messages
<1>a. pc \notin Resting => cur \in Envelopes /\ M \in Messages
  BY <1>0 DEF BatchInv, M
<1> USE <1>0, <1>a
<1>1. ASSUME NEW e \in Envelopes, Receive(e) PROVE AnswerInv'
  BY <1>1 DEF Receive, Enqueued
<1>2. ASSUME NEW e \in Envelopes, Lapse(e) PROVE AnswerInv'
  BY <1>2 DEF Lapse
<1>3. ASSUME NEW e \in Envelopes, Pick(e) PROVE AnswerInv'
  BY <1>3 DEF Pick
<1>4. ASSUME NEW i \in OperatorIds, OperatorLoad(i) PROVE AnswerInv'
  BY <1>4 DEF OperatorLoad
<1>5. CASE ClaimBatch
  BY <1>5 DEF ClaimBatch, Requeued
<1>6. CASE EndBatch
  BY <1>6 DEF EndBatch
<1>7. CASE Mark
  BY <1>7 DEF Mark
<1>8. CASE Working
  <2>0. UNCHANGED <<cur, row, kind, faults>> /\ pc \notin Resting
    BY <1>8, WorkingMoves
  <2>1. CASE ClaimKeys
    BY <2>0, <2>1 DEF ClaimKeys
  <2>2. CASE Route
    BY <2>0, <2>2 DEF Route
  <2>3. CASE Release
    BY <2>0, <2>3 DEF Release
  <2>4. CASE Reply
    BY <2>0, <2>4 DEF Reply
  <2>5. CASE Expire
    BY <2>0, <2>5 DEF Expire
  <2>6. CASE ChatAnswer \/ ChatUnresolved \/ ChatError \/ ChatDone \/ ChatPreview \/ PreviewFails
    BY <2>0, <2>6 DEF ChatAnswer, ChatUnresolved, ChatError, ChatDone, ChatPreview, PreviewFails,
        Turn, InsertMessage
  <2>7. CASE ChatHandoff \/ ChatPropose \/ ChatApprove
    BY <2>0, <2>7 DEF ChatHandoff, ChatPropose, ChatApprove
  <2>8. CASE RequestProject \/ Command
    BY <2>0, <2>8 DEF RequestProject, Command
  <2>9. CASE SubmitItem
    BY <2>0, <2>9 DEF SubmitItem, Commands
  <2>10. CASE Replayed
    BY <2>0, <2>10 DEF Replayed, KeyOf
  <2>11. CASE \E i \in Ids : Allocate(i)
    BY <2>0, <2>11 DEF Allocate
  <2>12. CASE Bootstrap \/ RegisterLoad
    BY <2>0, <2>12 DEF Bootstrap, RegisterLoad
  <2>13. CASE BootstrapFails \/ CreationFails
    BY <2>0, <2>13 DEF BootstrapFails, CreationFails, Withdraw
  <2>14. CASE RegisterPersist \/ RegisterReadBack
    BY <2>0, <2>14 DEF RegisterPersist, RegisterReadBack
  <2>15. CASE HandoffFails \/ HandoffAccepted
    BY <2>0, <2>15 DEF HandoffFails, HandoffAccepted
  <2>16. CASE RecordCreation
    <3>1. record \in [CreationKeys -> Ids \cup {NoId}] /\ Messages \subseteq CreationKeys
          /\ ChannelKey \in CreationKeys /\ ChannelKey \notin Messages
      BY IntakeAssumption DEF TypeOK, CreationKeys, ChannelKey, Messages
    <3>2. answers' = [answers EXCEPT ![M] = @ + 1] /\ record' = [record EXCEPT ![KeyOf(M)] = myId]
          /\ pc' = "mark" /\ keys' = keys /\ pc = "record"
      BY <2>16 DEF RecordCreation
    <3>3. answers'[M] > 0 /\ \A m \in Messages : answers'[m] >= answers[m]
      BY <2>0, <3>2
    <3>4. ASSUME NEW m \in Messages, record'[m] # NoId PROVE answers'[m] > 0
      BY <2>0, <3>1, <3>2, <3>3, <3>4 DEF KeyOf
    <3> QED BY <2>0, <3>2, <3>3, <3>4
  <2> QED BY <1>8, <2>1, <2>2, <2>3, <2>4, <2>5, <2>6, <2>7, <2>8, <2>9, <2>10, <2>11, <2>12,
      <2>13, <2>14, <2>15, <2>16
      DEF Working, Chat, Request, Create
<1>9. CASE Raise
  BY <1>9 DEF Raise, KeysAfterRaise
<1>10. CASE Crash
  BY <1>10 DEF Crash
<1>11. CASE OperatorPersist
  BY <1>11 DEF OperatorPersist
<1>12. CASE PreviewLost
  BY <1>12 DEF PreviewLost
<1> QED BY <1>1, <1>2, <1>3, <1>4, <1>5, <1>6, <1>7, <1>8, <1>9, <1>10, <1>11, <1>12
    DEF Next, Socket, Daemon, Working

\* The unanswered messages are finitely many; one more message adds one at most.
LEMMA SwallowedFinite ==
    /\ IsFiniteSet(Swallowed) /\ Cardinality(Swallowed) \in Nat
    /\ IsFiniteSet(Swallowed)' /\ Cardinality(Swallowed)' \in Nat
    /\ Swallowed' \subseteq Swallowed => Cardinality(Swallowed)' <= Cardinality(Swallowed)
    /\ Swallowed' \subseteq Swallowed \cup {M}
           => Cardinality(Swallowed)' <= Cardinality(Swallowed) + 1
<1>1. IsFiniteSet(Messages)
  BY IntakeAssumption, FS_Interval DEF Messages
<1>2. Swallowed \subseteq Messages /\ Swallowed' \subseteq Messages
  BY DEF Swallowed
<1>3. IsFiniteSet(Swallowed) /\ IsFiniteSet(Swallowed') /\ Cardinality(Swallowed) \in Nat
          /\ Cardinality(Swallowed') \in Nat
  BY <1>1, <1>2, FS_Subset, FS_CardinalityType
<1>4. /\ IsFiniteSet(Swallowed \cup {M}) /\ Cardinality(Swallowed \cup {M}) \in Nat
      /\ Cardinality(Swallowed \cup {M}) <= Cardinality(Swallowed) + 1
  <2>1. IsFiniteSet(Swallowed \cup {M})
    BY <1>3, FS_AddElement
  <2>2. Cardinality(Swallowed \cup {M}) =
            IF M \in Swallowed THEN Cardinality(Swallowed) ELSE Cardinality(Swallowed) + 1
    BY <1>3, FS_AddElement
  <2> QED BY <1>3, <2>1, <2>2
<1>5. Swallowed' \subseteq Swallowed => Cardinality(Swallowed') <= Cardinality(Swallowed)
  BY <1>3, FS_Subset
<1>6. Swallowed' \subseteq Swallowed \cup {M}
          => Cardinality(Swallowed') <= Cardinality(Swallowed \cup {M})
  BY <1>3, <1>4, FS_Subset
<1>7. Swallowed' \subseteq Swallowed \cup {M}
          => Cardinality(Swallowed') <= Cardinality(Swallowed) + 1
  BY <1>3, <1>4, <1>6
<1> QED BY <1>3, <1>5, <1>7

\* Every step keeps SwallowedInv.
LEMMA SwallowedStep ==
    ASSUME TypeOK, BatchInv, KindInv, AnswerInv, SwallowedInv, Next
    PROVE  SwallowedInv'
<1> USE EnvelopesArePairs DEF Go, Unmoved, Undecided, slack, chat, creation, daemon, operator, M,
        Slash, Resting, Handling, BeforeEffect, Creating
<1>0. /\ row \in [Envelopes -> {"absent", "pending", "claimed", "lapsed", "succeeded"}]
      /\ batch \subseteq Envelopes /\ cur \in Envelopes \cup {NoEnvelope}
      /\ kind \in [Messages -> Kinds] /\ answers \in [Messages -> Nat]
      /\ faults \in Nat /\ Messages \subseteq Nat
  BY IntakeAssumption DEF TypeOK, Messages
<1>a. pc \notin Resting => cur \in Envelopes /\ M \in Messages
  BY <1>0 DEF BatchInv, M
<1> USE <1>0, <1>a
<1>1. ASSUME Swallowed' \subseteq Swallowed, faults' = faults PROVE SwallowedInv'
  BY <1>1, SwallowedFinite DEF SwallowedInv
<1>2. ASSUME Swallowed' \subseteq Swallowed \cup {M}, faults' = faults + 1 PROVE SwallowedInv'
  BY <1>2, SwallowedFinite DEF SwallowedInv
<1>3. ASSUME NEW e \in Envelopes, Receive(e) \/ Lapse(e) \/ Pick(e) PROVE SwallowedInv'
  BY <1>1, <1>3 DEF Receive, Lapse, Pick, Swallowed
<1>4. ASSUME NEW i \in OperatorIds, OperatorLoad(i) PROVE SwallowedInv'
  BY <1>1, <1>4 DEF OperatorLoad, Swallowed
<1>5. CASE ClaimBatch \/ EndBatch \/ Mark \/ OperatorPersist
  BY <1>1, <1>5 DEF ClaimBatch, EndBatch, Mark, OperatorPersist, Swallowed
<1>6. CASE Raise \/ Crash \/ PreviewLost
  BY <1>2, <1>6 DEF Raise, Crash, PreviewLost, KeysAfterRaise, Swallowed
<1>7. CASE Working
  <2>0. UNCHANGED <<cur, row, kind, faults>> /\ pc \notin Resting
    BY <1>7, WorkingMoves
  <2> SUFFICES Swallowed' \subseteq Swallowed
    BY <2>0, <1>1
  <2>1. CASE ClaimKeys \/ Route
    BY <2>0, <2>1 DEF ClaimKeys, Route, Swallowed
  <2>2. CASE Release
    BY <2>0, <2>2 DEF Release, Swallowed
  <2>3. CASE Reply \/ RecordCreation
    BY <2>0, <2>3 DEF Reply, RecordCreation, Swallowed
  <2>4. CASE Replayed
    BY <2>0, <2>4 DEF Replayed, KeyOf, Swallowed, AnswerInv
  <2>5. CASE Chat \/ Expire
    BY <2>0, <2>5 DEF Chat, Expire, ChatAnswer, ChatUnresolved, ChatError, ChatHandoff, ChatDone,
        ChatPropose, ChatPreview, PreviewFails, ChatApprove, Swallowed
  <2>6. CASE Request
    BY <2>0, <2>6 DEF Request, RequestProject, Command, SubmitItem, Swallowed
  <2>7. CASE Create /\ ~Replayed /\ ~RecordCreation
    BY <2>0, <2>7 DEF Create, Allocate, Bootstrap, BootstrapFails, CreationFails, Withdraw,
        RegisterLoad, RegisterPersist, RegisterReadBack, HandoffFails, HandoffAccepted, Swallowed
  <2> QED BY <1>7, <2>1, <2>2, <2>3, <2>4, <2>5, <2>6, <2>7 DEF Working
<1> QED BY <1>3, <1>4, <1>5, <1>6, <1>7 DEF Next, Socket, Daemon, Working

\* The proposals are finitely many; one more adds one at most.
LEMMA UnseenFinite ==
    ASSUME TypeOK, TypeOK'
    PROVE  /\ IsFiniteSet(Unseen) /\ Cardinality(Unseen) \in Nat
           /\ Cardinality(Unseen)' \in Nat
           /\ Unseen' \subseteq Unseen => Cardinality(Unseen)' <= Cardinality(Unseen)
           /\ Unseen' \subseteq Unseen \cup {proposal.maker}
                  => Cardinality(Unseen)' <= Cardinality(Unseen) + 1
<1>1. IsFiniteSet(0..MessageBound)
  BY IntakeAssumption, FS_Interval
<1>2. Unseen \subseteq 0..MessageBound /\ Unseen' \subseteq 0..MessageBound
  BY DEF Unseen, TypeOK
<1>3. IsFiniteSet(Unseen) /\ IsFiniteSet(Unseen') /\ Cardinality(Unseen) \in Nat
          /\ Cardinality(Unseen') \in Nat
  BY <1>1, <1>2, FS_Subset, FS_CardinalityType
<1> DEFINE More == Unseen \cup {proposal.maker}
<1>4. /\ IsFiniteSet(More) /\ Cardinality(More) \in Nat
      /\ Cardinality(More) <= Cardinality(Unseen) + 1
  <2>1. /\ IsFiniteSet(More)
        /\ Cardinality(More) =
               IF proposal.maker \in Unseen THEN Cardinality(Unseen) ELSE Cardinality(Unseen) + 1
    BY <1>3, FS_AddElement
  <2> QED BY <1>3, <2>1
<1>5. Unseen' \subseteq Unseen => Cardinality(Unseen') <= Cardinality(Unseen)
  BY <1>3, FS_Subset
<1>6. Unseen' \subseteq More => Cardinality(Unseen') <= Cardinality(More)
  BY <1>3, <1>4, FS_Subset
<1>7. Unseen' \subseteq More => Cardinality(Unseen') <= Cardinality(Unseen) + 1
  BY <1>3, <1>4, <1>6
<1> QED BY <1>3, <1>5, <1>7

\* Every step keeps UnseenInv: the preview is saved together with the reply that
\* shows it, and only a fault separates the two.
LEMMA UnseenStep ==
    ASSUME TypeOK, TypeOK', UnseenInv, Next
    PROVE  UnseenInv'
<1> USE DEF Go, Unmoved, Undecided, slack, chat, creation, daemon, operator
<1>0. faults \in Nat /\ proposal \in ProposalType
  BY IntakeAssumption DEF TypeOK, ProposalType
<1>1. ASSUME Unseen' \subseteq Unseen, faults' = faults PROVE UnseenInv'
  BY <1>0, <1>1, UnseenFinite DEF UnseenInv
<1>2. ASSUME Unseen' \subseteq Unseen \cup {proposal.maker}, faults' = faults + 1 PROVE UnseenInv'
  BY <1>0, <1>2, UnseenFinite DEF UnseenInv
<1>3. ASSUME NEW e \in Envelopes, Receive(e) \/ Lapse(e) \/ Pick(e) PROVE UnseenInv'
  BY <1>1, <1>3 DEF Receive, Lapse, Pick, Unseen
<1>4. ASSUME NEW i \in OperatorIds, OperatorLoad(i) PROVE UnseenInv'
  BY <1>1, <1>4 DEF OperatorLoad, Unseen
<1>5. CASE ClaimBatch \/ EndBatch \/ Mark \/ OperatorPersist
  BY <1>1, <1>5 DEF ClaimBatch, EndBatch, Mark, OperatorPersist, Unseen
<1>6. CASE Raise \/ Crash
  BY <1>2, <1>6 DEF Raise, Crash, Unseen
<1>7. CASE PreviewLost
  <2>1. /\ proposal'.maker = proposal.maker /\ faults' = faults + 1
        /\ UNCHANGED <<shown, blind>>
    BY <1>0, <1>7 DEF PreviewLost, ProposalType
  <2> QED BY <1>2, <2>1 DEF Unseen
<1>8. CASE Reply
  <2>1. UNCHANGED <<proposal, blind, faults>> /\ pc' = "mark"
    BY <1>8 DEF Reply
  <2>2. shown \subseteq shown' /\ (pc = "show" => proposal.maker \in shown')
    BY <1>8 DEF Reply
  <2> QED BY <1>1, <2>1, <2>2 DEF Unseen
<1>9. CASE ClaimKeys \/ Route \/ Release
  BY <1>1, <1>9 DEF ClaimKeys, Route, Release, Unseen
<1>10. CASE ChatAnswer \/ ChatUnresolved \/ ChatError \/ ChatHandoff \/ ChatDone \/ PreviewFails
  BY <1>1, <1>10 DEF ChatAnswer, ChatUnresolved, ChatError, ChatHandoff, ChatDone, PreviewFails,
      Unseen
<1>11. CASE ChatPreview
  <2>1. UNCHANGED <<blind, faults>> /\ pc' = "show"
    BY <1>11 DEF ChatPreview
  <2> QED BY <1>1, <2>1 DEF Unseen
<1>12. CASE ChatPropose
  <2>1. /\ UNCHANGED <<shown, blind, faults>> /\ pc = "chat"
        /\ proposal' = proposal \/ proposal'.preview = "none"
    BY <1>12 DEF ChatPropose, Proposed
  <2> QED BY <1>1, <2>1 DEF Unseen
<1>13. CASE ChatApprove
  <2>1. /\ proposal.preview = "saved" /\ pc = "chat" /\ UNCHANGED <<shown, faults>>
        /\ blind' = blind \cup ({proposal.maker} \ shown)
    BY <1>13 DEF ChatApprove, Approvable
  <2>2. proposal'.maker = proposal.maker
    BY <1>0, <1>13 DEF ChatApprove, ProposalType
  <2> QED BY <1>1, <2>1, <2>2 DEF Unseen
<1>14. CASE Expire
  <2>1. proposal'.maker = proposal.maker /\ proposal'.preview = proposal.preview
    BY <1>0, <1>14 DEF Expire, ProposalType
  <2> QED BY <1>1, <1>14, <2>1 DEF Expire, Unseen
<1>15. CASE Request
  BY <1>1, <1>15 DEF Request, RequestProject, Command, SubmitItem, Unseen
<1>16. CASE Create
  <2>1. UNCHANGED <<proposal, shown, blind, faults>> /\ pc # "show"
    BY <1>16 DEF Create, Replayed, Allocate, Bootstrap, BootstrapFails, CreationFails,
        RegisterLoad, RegisterPersist, RegisterReadBack, HandoffFails, HandoffAccepted,
        RecordCreation
  <2> QED BY <1>1, <2>1 DEF Unseen
<1> QED BY <1>3, <1>4, <1>5, <1>6, <1>7, <1>8, <1>9, <1>10, <1>11, <1>12, <1>13, <1>14, <1>15,
    <1>16 DEF Next, Socket, Daemon, Chat
-----------------------------------------------------------------------------
IInv == /\ TypeOK /\ BatchInv /\ KindInv /\ CreationInv /\ EffectInv /\ SlashInv
        /\ AnswerInv /\ SwallowedInv /\ UnseenInv

\* The invariant holds at first.
LEMMA InitIInv ==
    ASSUME Init
    PROVE  IInv
<1>1. TypeOK
  BY IntakeAssumption, EnvelopesArePairs
  DEF Init, TypeOK, Empty, NoProposal, Projects, Owners, Places, Ids, CreationKeys, NoId
<1>2. /\ kind \in [Messages -> Kinds] /\ IsFiniteSet({}) /\ Cardinality({}) = 0
  BY IntakeAssumption, FS_EmptySet DEF Init, Messages
<1>3. BatchInv /\ KindInv
  BY EnvelopesArePairs DEF Init, BatchInv, KindInv, Resting, ByKey, ForProject, Creating
<1>4. CreationInv
  BY IntakeAssumption DEF Init, CreationInv, Empty, Ids, ForProject, Creating
<1>5. EffectInv /\ SlashInv
  BY EnvelopesArePairs DEF Init, EffectInv, SlashInv, BeforeEffect, Creating
<1>6. AnswerInv
  BY EnvelopesArePairs DEF Init, AnswerInv, Handling, BeforeEffect, Creating, CreationKeys
<1>7. Swallowed = {} /\ Unseen = {} /\ faults = 0
  BY DEF Init, Swallowed, Unseen, NoProposal
<1> QED BY <1>1, <1>2, <1>3, <1>4, <1>5, <1>6, <1>7 DEF IInv, SwallowedInv, UnseenInv

\* A stuttering step keeps the invariant.
LEMMA StutterIInv ==
    ASSUME IInv, UNCHANGED vars
    PROVE  IInv'
<1> USE DEF vars, slack, chat, creation, daemon, operator
<1>1. TypeOK'
  BY DEF IInv, TypeOK
<1>2. BatchInv' /\ KindInv' /\ EffectInv' /\ SlashInv'
  BY DEF IInv, BatchInv, KindInv, EffectInv, SlashInv, Overheard, M
<1>3. CreationInv' /\ AnswerInv'
  BY DEF IInv, CreationInv, AnswerInv, Overheard, M
<1>4. Swallowed' = Swallowed /\ Unseen' = Unseen
  BY DEF Swallowed, Unseen, M
<1> QED BY <1>1, <1>2, <1>3, <1>4 DEF IInv, SwallowedInv, UnseenInv

\* Every step keeps the invariant.
LEMMA StepIInv ==
    ASSUME IInv, [Next]_vars
    PROVE  IInv'
<1>1. CASE Next
  BY <1>1, TypeStep, BatchStep, KindStep, CreationStep, EffectStep, SlashStep, AnswerStep,
     SwallowedStep, UnseenStep DEF IInv
<1> QED BY <1>1, StutterIInv

\* The inductive invariant of the intake.
THEOREM IntakeInvariant == Spec => []IInv
BY InitIInv, StepIInv, PTL DEF Spec

\* Every variable of the intake keeps its type.
THEOREM IntakeTypes == Spec => []TypeOK
<1>1. IInv => TypeOK
  BY DEF IInv
<1> QED BY <1>1, IntakeInvariant, PTL

\* However many envelopes a message comes in and whatever fails, it leads to at
\* most one handoff, item, proposal, approval or project; a slash command to
\* one more for each crash or exception.
THEOREM EffectsArePaidFor == Spec => []EffectsPaidFor
<1>1. IInv => EffectsPaidFor
  <2> SUFFICES ASSUME IInv, NEW m \in Messages
               PROVE  effects[m] <= 1 + (IF kind[m] \in Slash THEN faults ELSE 0)
    BY DEF EffectsPaidFor
  <2>1. effects[m] \in Nat /\ faults \in Nat
    BY IntakeAssumption DEF IInv, TypeOK
  <2>2. kind[m] \notin Slash => effects[m] <= 1
    BY DEF IInv, EffectInv
  <2>3. kind[m] \in Slash => effects[m] <= faults + 1
    BY DEF IInv, SlashInv
  <2> QED BY <2>1, <2>2, <2>3
<1> QED BY <1>1, IntakeInvariant, PTL

\* At most one message is swallowed without an answer for each crash or escaped
\* exception.
THEOREM SilenceIsPaidFor == Spec => []SilenceIsPaid
<1>1. IInv => SilenceIsPaid
  <2> SUFFICES ASSUME IInv PROVE SilenceIsPaid
    OBVIOUS
  <2>1. Unanswered \subseteq Swallowed
    <3> SUFFICES ASSUME NEW m \in Unanswered PROVE m \in Swallowed
      OBVIOUS
    <3>2. PICK e \in Envelopes : e[1] = m /\ ~Overheard(e) /\ row[e] = "succeeded"
      BY DEF Unanswered
    <3>1. m \in Messages /\ answers[m] = 0 /\ kind[m] \notin {"other", "slashProject"}
      BY <3>2 DEF Unanswered, Overheard
    <3>3. e = <<m, 1>> \/ e = <<m, 2>>
      BY <3>2, EnvelopesArePairs
    <3>4. kind[m] # "slash"
      BY <3>1, <3>2, <3>3 DEF IInv, AnswerInv, KindInv, Slash
    <3>5. m \in keys
      BY <3>1, <3>2, <3>4 DEF IInv, AnswerInv, Slash
    <3>6. pc \in Handling => M # m
      <4> SUFFICES ASSUME pc \in Handling, cur[1] = m PROVE FALSE
        BY DEF M
      <4>1. cur \in Envelopes /\ row[cur] = "claimed"
        BY DEF IInv, TypeOK, BatchInv, Handling, BeforeEffect, Creating, Resting
      <4> QED BY <4>1 DEF Unanswered
    <3> QED BY <3>1, <3>4, <3>5, <3>6 DEF Swallowed, Slash
  <2>2. IsFiniteSet(Swallowed) /\ Cardinality(Swallowed) \in Nat
    BY SwallowedFinite
  <2>3. Cardinality(Unanswered) \in Nat /\ Cardinality(Unanswered) <= Cardinality(Swallowed)
    BY <2>1, <2>2, FS_Subset, FS_CardinalityType
  <2>4. faults \in Nat
    BY IntakeAssumption DEF IInv, TypeOK
  <2> QED BY <2>2, <2>3, <2>4 DEF IInv, SwallowedInv, SilenceIsPaid
<1> QED BY <1>1, IntakeInvariant, PTL

\* The daemon never registers two projects under one id, whatever the operator
\* registers meanwhile.
THEOREM IdsAreUsedOnce == Spec => []IdsUsedOnce
<1>1. IInv => IdsUsedOnce
  BY DEF IInv, CreationInv, IdsUsedOnce
<1> QED BY <1>1, IntakeInvariant, PTL

\* A project whose registration returned keeps its repository and its id: the
\* clean-up of a failed creation removes what was reserved for that one alone.
THEOREM CreatedKeepsItsRepo == Spec => []CreatedKeepsRepo
<1>1. IInv => CreatedKeepsRepo
  BY DEF IInv, TypeOK, CreationInv, CreatedKeepsRepo
<1> QED BY <1>1, IntakeInvariant, PTL

\* No more proposals are executed without having been in an answer than there
\* were faults between saving a preview and answering with it.
THEOREM ExecutedWasShownFirst == Spec => []ExecutedWasShown
<1>1. IInv => ExecutedWasShown
  <2> SUFFICES ASSUME IInv PROVE ExecutedWasShown
    OBVIOUS
  <2>0. IsFiniteSet(0..MessageBound)
    BY IntakeAssumption, FS_Interval
  <2>1. Unseen \subseteq 0..MessageBound
    BY DEF IInv, TypeOK, Unseen
  <2>2. IsFiniteSet(Unseen) /\ Cardinality(Unseen) \in Nat
    BY <2>0, <2>1, FS_Subset, FS_CardinalityType
  <2>3. blind \subseteq Unseen
    BY DEF Unseen
  <2>4. Cardinality(blind) \in Nat /\ Cardinality(blind) <= Cardinality(Unseen)
    BY <2>2, <2>3, FS_Subset, FS_CardinalityType
  <2>5. faults \in Nat
    BY IntakeAssumption DEF IInv, TypeOK
  <2> QED BY <2>2, <2>4, <2>5 DEF IInv, UnseenInv, ExecutedWasShown
<1> QED BY <1>1, IntakeInvariant, PTL
=============================================================================
