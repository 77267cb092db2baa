\* Reworks, reruns and retried verdicts around one assessor and the manager.
SPECIFICATION Spec
CONSTANTS
    a1 = a1
    a2 = a2
    s1 = s1
    s2 = s2
    s3 = s3
    NoCandidate = NoCandidate
    Roles = {a1}
    Candidates = {s1, s2, s3}
    ReworkCandidates = {s3}
    RowBound = 4
    RerunBound = 1
SYMMETRY GateSymmetry
INVARIANTS
    TypeOK
    PreparedIsAssured
    ReleasedIsAssured
    OneHandoff
PROPERTIES
    EvidenceImmutable
CHECK_DEADLOCK FALSE
