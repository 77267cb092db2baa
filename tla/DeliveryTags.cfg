SPECIFICATION Spec
CONSTANTS
    c1 = c1
    c2 = c2
    r1 = r1
    r2 = r2
    s1 = s1
    s2 = s2
    s3 = s3
    v1 = v1
    v2 = v2
    NoRecord = NoRecord
    NoSha = NoSha
    Nobody = Nobody
    Callers = {c1, c2}
    Releases = {r1, r2}
    Versions = {v1, v2}
    Shas = {s1, s2, s3}
    Approved = {s1, s2}
    Contracts <- SomeContracts
    BuildBound = 2
SYMMETRY CallerSymmetry
INVARIANTS
    PublishedIsComplete
    OneReleasePerTag
    AssetsOfOneBuild
    TagAtCandidate
    GatesStayPassed
