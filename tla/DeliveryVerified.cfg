SPECIFICATION Spec
CONSTANTS
    c1 = c1
    c2 = c2
    r1 = r1
    r2 = r2
    s1 = s1
    s2 = s2
    s3 = s3
    v1 = v1
    v2 = v2
    NoRecord = NoRecord
    NoSha = NoSha
    Nobody = Nobody
    Callers = {c1}
    Releases = {r1}
    Versions = {v1}
    Shas = {s1}
    Approved = {s1}
    Contracts <- PlainContract
    BuildBound = 2
INVARIANTS
    PublishedWasVerified
