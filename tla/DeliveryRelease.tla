--------------------------- MODULE DeliveryRelease ---------------------------
(***************************************************************************)
(* The delivery pipeline of one project (delivery/service.py): prepare,      *)
(* package, verify and publish a release, called by the PM agent, the CLI    *)
(* and the HTTP API at the same time.                                        *)
(*                                                                           *)
(* A caller's SQLite writes take effect at its commit, and connection() rolls *)
(* them back when an exception leaves it: the "failed" statuses that the      *)
(* except branches write before they re-raise are never seen by anybody.     *)
(* What a caller does outside the database (files of the build directory,    *)
(* the GitHub release) stays.  The write lock is taken by the first write;   *)
(* with an active run that is the emission of the opening event, without one *)
(* nothing is emitted and it comes much later.                               *)
(*                                                                           *)
(* A file's content is the number of the build that wrote it: which build it *)
(* is of, not that it is whole, since without a run a file can be read while  *)
(* it is being written.  No two builds write the same bytes: installer_format *)
(* is "zip", and an archive of a fresh checkout and an SBOM hold time stamps. *)
(* python_desktop, the one adapter that packages, always writes an SBOM and  *)
(* never signs.                                                              *)
(***************************************************************************)
EXTENDS Integers, FiniteSets

CONSTANTS
    Callers,
    Releases,            \* release_human_ids
    Versions,            \* versions, and so GitHub tags
    Shas,                \* commits
    Approved,            \* commits whose QA gate is PASSED
    Contracts,           \* what delivery.json may say
    BuildBound           \* bound on the builds

CONSTANTS NoRecord, NoSha, Nobody

ASSUME DeliveryAssumption ==
    /\ Contracts \subseteq [github : BOOLEAN,    \* github_release_enabled
                             sbom : BOOLEAN,      \* sbom_policy = "required"
                             signing : BOOLEAN,   \* code_signing_policy =
                                                  \* "required_for_production"
                             announce : BOOLEAN]  \* slack_release_announcement_enabled
    /\ Approved \subseteq Shas /\ NoSha \notin Shas /\ Nobody \notin Callers
    /\ BuildBound \in Nat

VARIABLES
    contract,    \* the project's delivery.json, which stays as it is
    runActive,   \* whether the project has an active run to report events to
    record,      \* delivery_releases and delivery_gate_status: release -> row
    rows,        \* delivery_artifacts: release -> checksums of its packages
    disk,        \* out directory: release -> file -> build, 0 when missing
    github,      \* version -> GitHub release of its tag
    lock,        \* who holds SQLite's write lock
    op,          \* caller -> the operation it is in: step, release, the files it
                 \* has in hand (to write, checked or read) and the ones it is
                 \* done with (written, read, uploaded)
    builds,      \* builds so far
    source,      \* build -> commit of the checkout it was made from
    verified     \* release -> package that its last verification checked

settings == <<contract, runActive>>
vars == <<settings, record, rows, disk, github, lock, op, builds, source, verified>>

ReleaseGates == {"QA_GATE", "SOURCE_GATE", "BUILD_GATE", "PACKAGE_GATE",
                 "CHECKSUM_GATE", "SBOM_GATE", "SIGNATURE_GATE",
                 "PUBLICATION_GATE", "DELIVERY_GATE"}
\* VERIFY_GATE has a row of its own but is not among RELEASE_GATES.
Gates == ReleaseGates \cup {"VERIFY_GATE"}
GateStatuses == {"pending", "passed", "failed", "skipped", "not_required"}

Row == [sha : Shas, version : Versions, gates : [Gates -> GateStatuses],
        lifecycle : {"qa_passed", "verified", "local_complete", "released"},
        publication : {"pending", "local_complete", "published"},
        announced : BOOLEAN]

ASSUME RecordAssumption == NoRecord \notin Row

\* The files that have rows: an SBOM that is not required is not looked at.
Assets == {"package"} \cup (IF contract.sbom THEN {"sbom"} ELSE {})
Content == 0..BuildBound
Files == [Assets -> Content]
NoFiles == [a \in Assets |-> 0]
NoRelease == [commit |-> NoSha, assets |-> NoFiles]

Steps == {"idle", "building", "writing", "packed", "checked", "asked", "gated",
          "uploading", "announcing"}

NoOp == [step |-> "idle", release |-> NoRecord, files |-> NoFiles, done |-> {}]

TypeOK ==
    /\ contract \in Contracts /\ runActive \in BOOLEAN
    /\ record \in [Releases -> Row \cup {NoRecord}]
    /\ rows \in [Releases -> SUBSET Content]
    /\ disk \in [Releases -> Files]
    /\ github \in [Versions -> [commit : Shas \cup {NoSha}, assets : Files]]
    /\ lock \in Callers \cup {Nobody}
    /\ op \in [Callers -> [step : Steps, release : Releases \cup {NoRecord},
                            files : Files, done : SUBSET Assets]]
    /\ builds \in Content
    /\ source \in [1..BuildBound -> Shas \cup {NoSha}]
    /\ verified \in [Releases -> Content]

\* load_delivery_contract: a contract that is missing or malformed ends every
\* operation before it begins.
LoadContract == contract \in Contracts

Init ==
    /\ LoadContract /\ runActive \in BOOLEAN
    /\ record = [r \in Releases |-> NoRecord]
    /\ rows = [r \in Releases |-> {}]
    /\ disk = [r \in Releases |-> NoFiles]
    /\ github = [v \in Versions |-> NoRelease]
    /\ lock = Nobody
    /\ op = [c \in Callers |-> NoOp]
    /\ builds = 0
    /\ source = [b \in 1..BuildBound |-> NoSha]
    /\ verified = [r \in Releases |-> 0]
-----------------------------------------------------------------------------
Free(c) == lock \in {Nobody, c}
\* Mutant of EmitOpening: the opening event is left for the commit.
EmitLater(c) == UNCHANGED lock

\* emit_package_started, emit_publication_started: the opening event is a write
\* when there is a run to report to.
EmitOpening(c) ==
    IF runActive THEN Free(c) /\ lock' = c ELSE UNCHANGED lock

Idle(c) == op[c].step = "idle"
At(c, step) == op[c].step = step
Begins(c, step, r, files) ==
    op' = [op EXCEPT ![c] = [step |-> step, release |-> r, files |-> files, done |-> {}]]
Ends(c) ==
    /\ op' = [op EXCEPT ![c] = NoOp]
    /\ lock' = IF lock = c THEN Nobody ELSE lock

InitialGates ==
    [g \in Gates |->
        CASE g \in {"QA_GATE", "SOURCE_GATE"} -> "passed"
          [] g = "SIGNATURE_GATE" /\ ~contract.signing -> "not_required"
          [] g = "SBOM_GATE" /\ ~contract.sbom -> "not_required"
          [] g = "PUBLICATION_GATE" /\ ~contract.github -> "skipped"
          [] OTHER -> "pending"]

\* prepare_release: an existing record is returned, or refused when it is for
\* another candidate or version; UNIQUE decides a race of two inserts.
Prepare(c, r, s, v) ==
    /\ Idle(c) /\ lock = Nobody
    /\ record[r] = NoRecord /\ s \in Approved
    /\ record' = [record EXCEPT ![r] =
                    [sha |-> s, version |-> v, gates |-> InitialGates,
                     lifecycle |-> "qa_passed", publication |-> "pending",
                     announced |-> FALSE]]
    /\ UNCHANGED <<rows, disk, github, lock, op, builds, source, verified>>
-----------------------------------------------------------------------------
\* package_release opens and empties the out directory.  A reader that finds
\* only some files gone fails on a missing one, as on an empty directory.
PackageStart(c, r) ==
    /\ Idle(c) /\ record[r] # NoRecord
    /\ EmitOpening(c)
    /\ disk' = [disk EXCEPT ![r] = NoFiles]
    /\ Begins(c, "building", r, NoFiles)
    /\ UNCHANGED <<record, rows, github, builds, source, verified>>

\* candidate_workspace: a detached checkout whose HEAD is the candidate
CandidateWorkspace(r) == record[r].sha

\* adapter.build succeeded and BUILD_GATE is written, which takes the lock.
PackageBuild(c) ==
    /\ At(c, "building") /\ Free(c) /\ builds < BuildBound
    /\ lock' = c
    /\ builds' = builds + 1
    /\ source' = [source EXCEPT ![builds + 1] = CandidateWorkspace(op[c].release)]
    /\ op' = [op EXCEPT ![c].step = "writing", ![c].files = [a \in Assets |-> builds + 1]]
    /\ UNCHANGED <<record, rows, disk, github, verified>>

\* The package before the SBOM, whatever the caller is doing with them.
NextFile(c, a) ==
    /\ a \notin op[c].done
    /\ a = "sbom" => "package" \in op[c].done

\* adapter.package writes the archive, then the SBOM.  Without a run another
\* packager may empty the directory, and a publisher may read, in between.
PackageWrite(c, a) ==
    /\ At(c, "writing") /\ NextFile(c, a)
    /\ disk' = [disk EXCEPT ![op[c].release][a] = op[c].files[a]]
    /\ op' = [op EXCEPT ![c].done = @ \cup {a}]
    /\ UNCHANGED <<record, rows, github, lock, builds, source, verified>>

\* adapter.verify finds the package as it was written, or the operation fails.
PackageVerify(c) ==
    /\ At(c, "writing") /\ op[c].done = Assets
    /\ disk[op[c].release]["package"] = op[c].files["package"]
    /\ op' = [op EXCEPT ![c].step = "packed"]
    /\ UNCHANGED <<record, rows, disk, github, lock, builds, source, verified>>

\* The gates after packaging.  A package that must be signed is not, and an
\* SBOM that is gone again is passed over.
PackagedGates(r, gates) ==
    [g \in Gates |->
        CASE g \in {"BUILD_GATE", "PACKAGE_GATE", "CHECKSUM_GATE"} -> "passed"
          [] g = "SBOM_GATE" /\ ~contract.sbom -> "not_required"
          [] g = "SBOM_GATE" /\ contract.sbom /\ disk[r]["sbom"] # 0 -> "passed"
          [] g = "SIGNATURE_GATE" -> IF contract.signing THEN "pending" ELSE "passed"
          [] OTHER -> gates[g]]

\* insert_delivery_artifact: rows of artifacts are added, never replaced.
InsertArtifacts(r, b) == rows' = [rows EXCEPT ![r] = @ \cup {b}]

\* The gates, the rows and the closing event are one transaction.
PackageCommit(c) ==
    LET r == op[c].release IN
    /\ At(c, "packed")
    /\ InsertArtifacts(r, op[c].files["package"])
    /\ record' = [record EXCEPT ![r].gates = PackagedGates(r, @)]
    /\ Ends(c)
    /\ UNCHANGED <<disk, github, builds, source, verified>>
-----------------------------------------------------------------------------
\* verify_release compares every recorded checksum with the package on disk;
\* an SBOM is not a distributable.
VerifyRead(c, r) ==
    /\ Idle(c) /\ record[r] # NoRecord
    /\ rows[r] = {disk[r]["package"]} /\ disk[r]["package"] # 0
    /\ Begins(c, "checked", r, disk[r])
    /\ UNCHANGED <<record, rows, disk, github, lock, builds, source, verified>>

VerifyCommit(c) ==
    LET r == op[c].release IN
    /\ At(c, "checked") /\ lock = Nobody
    /\ record' = [record EXCEPT ![r].gates["VERIFY_GATE"] = "passed",
                                ![r].lifecycle = "verified"]
    /\ verified' = [verified EXCEPT ![r] = op[c].files["package"]]
    /\ Ends(c)
    /\ UNCHANGED <<rows, disk, github, builds, source>>
-----------------------------------------------------------------------------
\* publish_release reads the record and returns if it is published.
PublishRead(c, r) ==
    /\ Idle(c) /\ record[r] # NoRecord
    /\ record[r].publication # "published"
    /\ Begins(c, "asked", r, NoFiles)
    /\ UNCHANGED <<record, rows, disk, github, lock, builds, source, verified>>

BlockingGates(gates) == {g \in ReleaseGates : gates[g] \in {"failed", "pending"}}

\* Mutant of Publishable: only VERIFY_GATE is looked at.
PublishableVerified(gates) == gates["VERIFY_GATE"] = "passed"

Publishable(gates) ==
    /\ gates["VERIFY_GATE"] = "passed"
    /\ gates["SIGNATURE_GATE"] # "failed"
    /\ ~(gates["SIGNATURE_GATE"] = "pending" /\ contract.signing)
    /\ BlockingGates(gates) \subseteq {"PUBLICATION_GATE", "DELIVERY_GATE"}

\* The opening event, then the gates as they are now.
PublishCheck(c) ==
    /\ At(c, "asked")
    /\ EmitOpening(c)
    /\ Publishable(record[op[c].release].gates)
    /\ op' = [op EXCEPT ![c].step = "gated"]
    /\ UNCHANGED <<record, rows, disk, github, builds, source, verified>>

\* The files of all rows are read one after the other, whatever they hold by
\* now.  SBOM_GATE has passed, so that a required SBOM has a row.
PublishFiles(c, a) ==
    LET r == op[c].release IN
    /\ At(c, "gated") /\ contract.github /\ NextFile(c, a)
    /\ disk[r][a] # 0
    /\ op' = [op EXCEPT ![c].files[a] = disk[r][a], ![c].done = @ \cup {a}]
    /\ UNCHANGED <<record, rows, disk, github, lock, builds, source, verified>>

\* The commit of the first transaction.
AfterPublication(c) ==
    IF contract.announce THEN op' = [op EXCEPT ![c].step = "announcing"] /\ lock' = Nobody
    ELSE Ends(c)

PublishLocal(c) ==
    LET r == op[c].release IN
    /\ At(c, "gated") /\ ~contract.github /\ Free(c)
    /\ record' = [record EXCEPT ![r].gates["PUBLICATION_GATE"] = "not_required",
                                ![r].publication = "local_complete",
                                ![r].lifecycle = "local_complete"]
    /\ AfterPublication(c)
    /\ UNCHANGED <<rows, disk, github, builds, source, verified>>

Version(c) == record[op[c].release].version

\* Mutant of CreateRelease: the tag is put on the head of the default branch.
CreateAtHead(c) ==
    /\ At(c, "gated") /\ op[c].done = Assets /\ Free(c)
    /\ lock' = c
    /\ \E head \in Shas :
          github' = IF github[Version(c)].commit # NoSha THEN github
                    ELSE [github EXCEPT ![Version(c)].commit = head]
    /\ op' = [op EXCEPT ![c].step = "uploading", ![c].done = {}]
    /\ UNCHANGED <<record, rows, disk, builds, source, verified>>

\* "in_progress" is written, then create_release: whatever release has the tag
\* is used, or one is made for the candidate.
CreateRelease(c) ==
    /\ At(c, "gated") /\ op[c].done = Assets /\ Free(c)
    /\ lock' = c
    /\ github' = IF github[Version(c)].commit # NoSha THEN github
                 ELSE [github EXCEPT ![Version(c)].commit = record[op[c].release].sha]
    /\ op' = [op EXCEPT ![c].step = "uploading", ![c].done = {}]
    /\ UNCHANGED <<record, rows, disk, builds, source, verified>>

\* Mutant of UploadAsset: GitHub replaces an asset of the same name.
UploadOver(c, a) ==
    /\ At(c, "uploading") /\ NextFile(c, a)
    /\ github' = [github EXCEPT ![Version(c)].assets[a] = op[c].files[a]]
    /\ op' = [op EXCEPT ![c].done = @ \cup {a}]
    /\ UNCHANGED <<record, rows, disk, lock, builds, source, verified>>

\* upload_release_asset; GitHub refuses a name the release has already.
UploadAsset(c, a) ==
    /\ At(c, "uploading") /\ NextFile(c, a)
    /\ github[Version(c)].assets[a] = 0
    /\ github' = [github EXCEPT ![Version(c)].assets[a] = op[c].files[a]]
    /\ op' = [op EXCEPT ![c].done = @ \cup {a}]
    /\ UNCHANGED <<record, rows, disk, lock, builds, source, verified>>

\* Mutant of AllSent: the first asset will do.
FirstSent(c) == "package" \in op[c].done

AllSent(c) == op[c].done = Assets

PublishCommit(c) ==
    LET r == op[c].release IN
    /\ At(c, "uploading") /\ AllSent(c)
    /\ record' = [record EXCEPT ![r].gates["PUBLICATION_GATE"] = "passed",
                                ![r].publication = "published",
                                ![r].lifecycle = "released"]
    /\ AfterPublication(c)
    /\ UNCHANGED <<rows, disk, github, builds, source, verified>>

\* The second transaction of publish_release.  No caller passes a slack_poster,
\* so that no card is posted and DELIVERY_GATE is pending.
MarkAnnounced(c) ==
    LET r == op[c].release IN
    /\ At(c, "announcing") /\ lock = Nobody
    /\ record' = [record EXCEPT ![r].announced = TRUE,
                                ![r].gates["DELIVERY_GATE"] = "pending"]
    /\ Ends(c)
    /\ UNCHANGED <<rows, disk, github, builds, source, verified>>

\* An exception or the death of the caller: what it wrote is rolled back.
Abort(c) ==
    /\ ~Idle(c)
    /\ Ends(c)
    /\ UNCHANGED <<record, rows, disk, github, builds, source, verified>>
-----------------------------------------------------------------------------
Package(c) ==
    \/ \E r \in Releases : PackageStart(c, r)
    \/ PackageBuild(c)
    \/ \E a \in Assets : PackageWrite(c, a)
    \/ PackageVerify(c) \/ PackageCommit(c)
Verify(c) == (\E r \in Releases : VerifyRead(c, r)) \/ VerifyCommit(c)
Publish(c) ==
    \/ \E r \in Releases : PublishRead(c, r)
    \/ PublishCheck(c) \/ PublishLocal(c) \/ CreateRelease(c)
    \/ \E a \in Assets : PublishFiles(c, a)
    \/ \E a \in Assets : UploadAsset(c, a)
    \/ PublishCommit(c) \/ MarkAnnounced(c)

Next ==
    /\ UNCHANGED settings
    /\ \E c \in Callers :
        \/ \E r \in Releases, s \in Shas, v \in Versions : Prepare(c, r, s, v)
        \/ Package(c) \/ Verify(c) \/ Publish(c) \/ Abort(c)

Spec == Init /\ [][Next]_vars
-----------------------------------------------------------------------------
(* Properties. *)

Published(r) == record[r] # NoRecord /\ record[r].publication = "published"

\* What is recorded as published is on GitHub in full, whatever failed or died
\* before and whoever else published under the same tag.
PublishedIsComplete ==
    \A r \in Releases : Published(r) =>
        \A a \in Assets : github[record[r].version].assets[a] # 0

\* Two releases are never both published under one tag, although nothing in
\* the database keeps their versions apart.
OneReleasePerTag ==
    \A q, r \in Releases :
        Published(q) /\ Published(r) /\ record[q].version = record[r].version => q = r

\* Every asset on GitHub is of a build of the release's candidate and, when a
\* run is active, all are of one build, although files are written, read and
\* uploaded one by one, a repeated publication meets the assets of a partial one
\* and others package in between.  Without a run packaging and publishing do
\* not exclude each other, and the files may be of several builds.
AssetsOfOneBuild ==
    \A r \in Releases : Published(r) =>
        \A a, b \in Assets :
            /\ source[github[record[r].version].assets[a]] = record[r].sha
            /\ runActive => github[record[r].version].assets[a]
                             = github[record[r].version].assets[b]

\* The tag of a published release is at its candidate, unless another record
\* has the same version (create_release takes any release with the tag).
TagAtCandidate ==
    \A r \in Releases :
        /\ Published(r)
        /\ \A q \in Releases \ {r} :
              record[q] # NoRecord => record[q].version # record[r].version
        => github[record[r].version].commit = record[r].sha

\* A published release has passed every gate but the announcement, and goes on
\* doing so: packaging it again or verifying it again opens none of them.
GatesStayPassed ==
    \A r \in Releases : Published(r) =>
        /\ record[r].gates["VERIFY_GATE"] = "passed"
        /\ BlockingGates(record[r].gates) \subseteq {"DELIVERY_GATE"}

\* What is published has been verified.
PublishedWasVerified ==
    \A r \in Releases : Published(r) =>
        github[record[r].version].assets["package"] = verified[r]
=============================================================================
