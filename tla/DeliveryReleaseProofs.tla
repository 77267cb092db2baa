------------------------ MODULE DeliveryReleaseProofs ------------------------
(***************************************************************************)
(* The safety properties of the delivery pipeline for any sets of callers,    *)
(* releases, versions and commits, any contracts and any number of builds.    *)
(***************************************************************************)
EXTENDS DeliveryRelease, TLAPS

\* Who is in an operation works on a release that has a record.
OpInv == \A c \in Callers : op[c].step # "idle" =>
            op[c].release \in Releases /\ record[op[c].release] # NoRecord

\* Whoever writes a build or talks to GitHub holds the write lock and, with a
\* run, whoever has emptied the directory or reads from it does too.
LockInv ==
    \A c \in Callers :
        /\ op[c].step \in {"writing", "packed", "uploading"} => lock = c
        /\ runActive /\ op[c].step \in {"building", "gated"} => lock = c

\* A build of the release's candidate.
OfCandidate(r, b) == b <= builds /\ record[r] # NoRecord /\ source[b] = record[r].sha

\* What is in an out directory, or was read from it to be published, was built
\* from the candidate of that release.
BuildInv ==
    /\ \A r \in Releases : \A a \in Assets : disk[r][a] # 0 => OfCandidate(r, disk[r][a])
    /\ \A c \in Callers : op[c].step \in {"writing", "gated", "uploading"} =>
          \A a \in Assets : op[c].files[a] # 0 => OfCandidate(op[c].release, op[c].files[a])
    /\ \A c \in Callers :
          /\ op[c].step = "asked" => op[c].done = {} /\ \A a \in Assets : op[c].files[a] = 0
          /\ op[c].step \in {"writing", "uploading"} => \A a \in Assets : op[c].files[a] # 0
          /\ op[c].step = "gated" => \A a \in op[c].done : op[c].files[a] # 0

\* With a run, the files of a directory are of one build, and a caller writes
\* or reads them without anybody in between.
OneBuild(files) == \A a, b \in Assets : files[a] # 0 /\ files[b] # 0 => files[a] = files[b]
RunInv ==
    runActive =>
        /\ \A r \in Releases : OneBuild(disk[r])
        /\ \A c \in Callers :
              /\ op[c].step = "building" => \A a \in Assets : disk[op[c].release][a] = 0
              /\ op[c].step = "writing" =>
                    /\ \A a \in Assets : disk[op[c].release][a] \in {0, op[c].files[a]}
                    /\ \A a, b \in Assets : op[c].files[a] = op[c].files[b]
              /\ op[c].step = "gated" =>
                    \A a \in op[c].done : op[c].files[a] = disk[op[c].release][a]
              /\ op[c].step = "uploading" =>
                    \A a, b \in Assets : op[c].files[a] = op[c].files[b]

\* Gates that were passed when a publication began stay passed.
GateInv ==
    /\ \A r \in Releases : record[r] # NoRecord /\ contract.signing =>
          record[r].gates["SIGNATURE_GATE"] = "pending"
    /\ \A c \in Callers : op[c].step \in {"gated", "uploading"} =>
          Publishable(record[op[c].release].gates)
    /\ \A r \in Releases : Published(r) =>
          Publishable(record[r].gates) /\ record[r].gates["PUBLICATION_GATE"] = "passed"

\* What a caller has uploaded so far are the files it read, under a tag that
\* nobody has published.
UploadInv ==
    \A c \in Callers :
        op[c].step = "uploading" =>
              /\ github[Version(c)].commit # NoSha
              /\ \A a \in op[c].done : github[Version(c)].assets[a] = op[c].files[a]
              /\ "package" \in op[c].done =>
                    \A r \in Releases : Published(r) => record[r].version # Version(c)

\* What is published is built from the candidate and, with a run, one build,
\* under a tag of its own.
PublishedInv ==
    /\ \A r \in Releases : Published(r) =>
          /\ github[record[r].version].commit # NoSha
          /\ \A a \in Assets : /\ github[record[r].version].assets[a] # 0
                               /\ OfCandidate(r, github[record[r].version].assets[a])
          /\ runActive => \A a, b \in Assets : github[record[r].version].assets[a]
                                                = github[record[r].version].assets[b]
    /\ OneReleasePerTag

\* A tag is at the candidate of some release of that version.
TagInv ==
    \A v \in Versions : github[v].commit # NoSha =>
        \E r \in Releases : /\ record[r] # NoRecord /\ record[r].version = v
                            /\ record[r].sha = github[v].commit
-----------------------------------------------------------------------------
(* Steps on a record. *)

\* The record of r gets these gates and this publication status, and keeps its
\* candidate and version.
Becomes(r, gates, publication) ==
    /\ r \in Releases /\ record[r] \in Row /\ record[r] # NoRecord
    /\ record' \in [Releases -> Row \cup {NoRecord}] /\ record'[r] \in Row
           /\ record'[r] # NoRecord
    /\ \A q \in Releases : q # r => record'[q] = record[q]
    /\ record'[r].sha = record[r].sha /\ record'[r].version = record[r].version
    /\ record'[r].gates = gates /\ record'[r].publication = publication

\* Writing a row of the same release and commit changes its gates and publication only.
LEMMA Written ==
    ASSUME TypeOK, NEW r \in Releases, record[r] # NoRecord, NEW row \in Row,
           row.sha = record[r].sha, row.version = record[r].version,
           record' = [record EXCEPT ![r] = row]
    PROVE  Becomes(r, row.gates, row.publication)
BY RecordAssumption DEF TypeOK, Becomes

\* Gates, new or as packaging leaves them, are gates.
LEMMA GateTypes ==
    /\ InitialGates \in [Gates -> GateStatuses]
    /\ \A r \in Releases, gates \in [Gates -> GateStatuses] : PackagedGates(r, gates) \in [Gates -> GateStatuses]
BY DEF InitialGates, PackagedGates, GateStatuses

\* What the end of packaging writes to the release record.
LEMMA PackageCommitRecord ==
    ASSUME TypeOK, OpInv, NEW c \in Callers, PackageCommit(c)
    PROVE  Becomes(op[c].release, PackagedGates(op[c].release, record[op[c].release].gates),
               record[op[c].release].publication)
<1> DEFINE r == op[c].release
<1> DEFINE row == [record[r] EXCEPT !.gates = PackagedGates(r, @)]
<1>1. r \in Releases /\ record[r] # NoRecord /\ record[r] \in Row
  BY DEF TypeOK, OpInv, PackageCommit, At
<1>2. PackagedGates(r, record[r].gates) \in [Gates -> GateStatuses]
  BY <1>1, GateTypes DEF Row
<1>3. /\ row \in Row /\ row.sha = record[r].sha /\ row.version = record[r].version
      /\ row.gates = PackagedGates(r, record[r].gates) /\ row.publication = record[r].publication
  BY <1>1, <1>2 DEF Row
<1>4. record' = [record EXCEPT ![r] = row]
  BY DEF PackageCommit
<1> HIDE DEF r, row
<1>5. Becomes(r, row.gates, row.publication)
  BY <1>1, <1>3, <1>4, Written
<1> QED BY <1>3, <1>5 DEF r

\* What the end of verification writes.
LEMMA VerifyCommitRecord ==
    ASSUME TypeOK, OpInv, NEW c \in Callers, VerifyCommit(c)
    PROVE  Becomes(op[c].release,
               [record[op[c].release].gates EXCEPT !["VERIFY_GATE"] = "passed"],
                   record[op[c].release].publication)
<1> DEFINE r == op[c].release
<1> DEFINE row == [record[r] EXCEPT !.gates["VERIFY_GATE"] = "passed", !.lifecycle = "verified"]
<1>1. r \in Releases /\ record[r] # NoRecord /\ record[r] \in Row
  BY DEF TypeOK, OpInv, VerifyCommit, At
<1>2. [record[r].gates EXCEPT !["VERIFY_GATE"] = "passed"] \in [Gates -> GateStatuses]
  BY <1>1 DEF Row, Gates, GateStatuses
<1>3. /\ row \in Row /\ row.sha = record[r].sha /\ row.version = record[r].version
      /\ row.gates = [record[r].gates EXCEPT !["VERIFY_GATE"] = "passed"]
      /\ row.publication = record[r].publication
  BY <1>1, <1>2 DEF Row
<1>4. record' = [record EXCEPT ![r] = row]
  BY <1>1 DEF VerifyCommit, TypeOK
<1> HIDE DEF r, row
<1>5. Becomes(r, row.gates, row.publication)
  BY <1>1, <1>3, <1>4, Written
<1> QED BY <1>3, <1>5 DEF r

\* What a publication without GitHub writes.
LEMMA PublishLocalRecord ==
    ASSUME TypeOK, OpInv, NEW c \in Callers, PublishLocal(c)
    PROVE  Becomes(op[c].release,
               [record[op[c].release].gates EXCEPT !["PUBLICATION_GATE"] = "not_required"],
                   "local_complete")
<1> DEFINE r == op[c].release
<1> DEFINE row == [record[r] EXCEPT !.gates["PUBLICATION_GATE"] = "not_required",
               !.publication = "local_complete",
                                   !.lifecycle = "local_complete"]
<1>1. r \in Releases /\ record[r] # NoRecord /\ record[r] \in Row
  BY DEF TypeOK, OpInv, PublishLocal, At
<1>2. [record[r].gates EXCEPT !["PUBLICATION_GATE"] = "not_required"] \in [Gates -> GateStatuses]
  BY <1>1 DEF Row, Gates, ReleaseGates, GateStatuses
<1>3. /\ row \in Row /\ row.sha = record[r].sha /\ row.version = record[r].version
      /\ row.gates = [record[r].gates EXCEPT !["PUBLICATION_GATE"] = "not_required"]
      /\ row.publication = "local_complete"
  BY <1>1, <1>2 DEF Row
<1>4. record' = [record EXCEPT ![r] = row]
  BY <1>1 DEF PublishLocal, TypeOK
<1> HIDE DEF r, row
<1>5. Becomes(r, row.gates, row.publication)
  BY <1>1, <1>3, <1>4, Written
<1> QED BY <1>3, <1>5 DEF r

\* What the end of a publication writes.
LEMMA PublishCommitRecord ==
    ASSUME TypeOK, OpInv, NEW c \in Callers, PublishCommit(c)
    PROVE  Becomes(op[c].release,
               [record[op[c].release].gates EXCEPT !["PUBLICATION_GATE"] = "passed"],
                   "published")
<1> DEFINE r == op[c].release
<1> DEFINE row == [record[r] EXCEPT !.gates["PUBLICATION_GATE"] = "passed",
               !.publication = "published",
                                   !.lifecycle = "released"]
<1>1. r \in Releases /\ record[r] # NoRecord /\ record[r] \in Row
  BY DEF TypeOK, OpInv, PublishCommit, At
<1>2. [record[r].gates EXCEPT !["PUBLICATION_GATE"] = "passed"] \in [Gates -> GateStatuses]
  BY <1>1 DEF Row, Gates, ReleaseGates, GateStatuses
<1>3. /\ row \in Row /\ row.sha = record[r].sha /\ row.version = record[r].version
      /\ row.gates = [record[r].gates EXCEPT !["PUBLICATION_GATE"] = "passed"]
      /\ row.publication = "published"
  BY <1>1, <1>2 DEF Row
<1>4. record' = [record EXCEPT ![r] = row]
  BY <1>1 DEF PublishCommit, TypeOK
<1> HIDE DEF r, row
<1>5. Becomes(r, row.gates, row.publication)
  BY <1>1, <1>3, <1>4, Written
<1> QED BY <1>3, <1>5 DEF r

\* What the announcement writes.
LEMMA MarkAnnouncedRecord ==
    ASSUME TypeOK, OpInv, NEW c \in Callers, MarkAnnounced(c)
    PROVE  Becomes(op[c].release,
               [record[op[c].release].gates EXCEPT !["DELIVERY_GATE"] = "pending"],
                   record[op[c].release].publication)
<1> DEFINE r == op[c].release
<1> DEFINE row == [record[r] EXCEPT !.announced = TRUE, !.gates["DELIVERY_GATE"] = "pending"]
<1>1. r \in Releases /\ record[r] # NoRecord /\ record[r] \in Row
  BY DEF TypeOK, OpInv, MarkAnnounced, At
<1>2. [record[r].gates EXCEPT !["DELIVERY_GATE"] = "pending"] \in [Gates -> GateStatuses]
  BY <1>1 DEF Row, Gates, ReleaseGates, GateStatuses
<1>3. /\ row \in Row /\ row.sha = record[r].sha /\ row.version = record[r].version
      /\ row.gates = [record[r].gates EXCEPT !["DELIVERY_GATE"] = "pending"]
      /\ row.publication = record[r].publication
  BY <1>1, <1>2 DEF Row
<1>4. record' = [record EXCEPT ![r] = row]
  BY <1>1 DEF MarkAnnounced, TypeOK
<1> HIDE DEF r, row
<1>5. Becomes(r, row.gates, row.publication)
  BY <1>1, <1>3, <1>4, Written
<1> QED BY <1>3, <1>5 DEF r

\* What preparation inserts.
LEMMA PrepareRecord ==
    ASSUME TypeOK, NEW c \in Callers, NEW r \in Releases, NEW sha \in Shas, NEW v \in Versions,
           Prepare(c, r, sha, v)
    PROVE  /\ record[r] = NoRecord /\ record'[r] \in Row /\ record'[r] # NoRecord
           /\ record' \in [Releases -> Row \cup {NoRecord}]
           /\ \A q \in Releases : q # r => record'[q] = record[q]
           /\ record'[r].version = v /\ record'[r].sha = sha /\ record'[r].publication = "pending"
           /\ record'[r].gates = InitialGates
<1> DEFINE row == [sha |-> sha, version |-> v, gates |-> InitialGates, lifecycle |-> "qa_passed",
                   publication |-> "pending", announced |-> FALSE]
<1>1. row \in Row
  BY GateTypes DEF Row
<1>2. record[r] = NoRecord /\ record' = [record EXCEPT ![r] = row]
  BY DEF Prepare
<1> QED BY <1>1, <1>2, RecordAssumption DEF TypeOK

\* A record keeps its candidate and its version.
SameRelease ==
    \A q \in Releases : record[q] # NoRecord =>
        record'[q] # NoRecord /\ record'[q].sha = record[q].sha
            /\ record'[q].version = record[q].version

\* How the row of a release changes in a step.
Evolves(q) ==
    LET gates == record[q].gates IN
    \/ record'[q] = record[q]
    \/ /\ record'[q].publication = record[q].publication
       /\ record'[q].gates \in {[gates EXCEPT !["VERIFY_GATE"] = "passed"],
                                [gates EXCEPT !["DELIVERY_GATE"] = "pending"],
                                PackagedGates(q, gates)}
    \/ /\ record'[q].publication = "local_complete"
       /\ record'[q].gates = [gates EXCEPT !["PUBLICATION_GATE"] = "not_required"]
    \/ /\ record'[q].publication = "published"
       /\ record'[q].gates = [gates EXCEPT !["PUBLICATION_GATE"] = "passed"]
       /\ \E c \in Callers : PublishCommit(c) /\ op[c].release = q

\* A step keeps the releases of the records, changes their gates and publication
\* only forward, and inserts no row but that of prepare_release.
RecordsMove ==
    /\ record' \in [Releases -> Row \cup {NoRecord}]
    /\ SameRelease
    /\ \A q \in Releases : record[q] # NoRecord => Evolves(q)
    /\ \A q \in Releases : record[q] = NoRecord /\ record'[q] # NoRecord =>
          record'[q].gates = InitialGates /\ record'[q].publication = "pending"

\* The actions that write no record.
LeavesRecords(c) ==
    \/ \E r \in Releases : PackageStart(c, r) \/ VerifyRead(c, r) \/ PublishRead(c, r)
    \/ \E a \in Assets : PackageWrite(c, a) \/ PublishFiles(c, a) \/ UploadAsset(c, a)
    \/ PackageBuild(c) \/ PackageVerify(c) \/ PublishCheck(c) \/ CreateRelease(c) \/ Abort(c)

\* What any step does to the release records.
LEMMA RecordStep ==
    ASSUME TypeOK, OpInv, Next
    PROVE  RecordsMove
<1>0. record \in [Releases -> Row \cup {NoRecord}]
  BY DEF TypeOK
<1>1. ASSUME NEW c \in Callers, LeavesRecords(c) PROVE RecordsMove
  <2>1. record' = record
    BY <1>1 DEF LeavesRecords, PackageStart, VerifyRead, PublishRead, PackageWrite, PublishFiles,
        UploadAsset, PackageBuild, PackageVerify, PublishCheck, CreateRelease, Abort
  <2> QED BY <1>0, <2>1 DEF RecordsMove, SameRelease, Evolves
<1>2. ASSUME NEW c \in Callers, NEW r \in Releases, NEW s \in Shas, NEW v \in Versions,
             Prepare(c, r, s, v) PROVE RecordsMove
  <2>1. /\ record[r] = NoRecord /\ record' \in [Releases -> Row \cup {NoRecord}]
        /\ \A q \in Releases : q # r => record'[q] = record[q]
        /\ record'[r].gates = InitialGates /\ record'[r].publication = "pending"
    BY <1>2, PrepareRecord
  <2> QED BY <2>1 DEF RecordsMove, SameRelease, Evolves
<1>3. ASSUME NEW c \in Callers, PackageCommit(c) PROVE RecordsMove
  BY <1>3, PackageCommitRecord DEF Becomes, RecordsMove, SameRelease, Evolves
<1>4. ASSUME NEW c \in Callers, VerifyCommit(c) PROVE RecordsMove
  BY <1>4, VerifyCommitRecord DEF Becomes, RecordsMove, SameRelease, Evolves
<1>5. ASSUME NEW c \in Callers, PublishLocal(c) PROVE RecordsMove
  BY <1>5, PublishLocalRecord DEF Becomes, RecordsMove, SameRelease, Evolves
<1>6. ASSUME NEW c \in Callers, PublishCommit(c) PROVE RecordsMove
  BY <1>6, PublishCommitRecord DEF Becomes, RecordsMove, SameRelease, Evolves
<1>7. ASSUME NEW c \in Callers, MarkAnnounced(c) PROVE RecordsMove
  BY <1>7, MarkAnnouncedRecord DEF Becomes, RecordsMove, SameRelease, Evolves
<1> QED BY <1>1, <1>2, <1>3, <1>4, <1>5, <1>6, <1>7
    DEF Next, Package, Verify, Publish, LeavesRecords
-----------------------------------------------------------------------------
(* Steps of a caller, on the disk and on GitHub. *)

OpType == [step : Steps, release : Releases \cup {NoRecord}, files : Files,
           done : SUBSET Assets]
GithubType == [commit : Shas \cup {NoSha}, assets : Files]

\* The type invariant in terms of these.
LEMMA Types ==
    TypeOK <=>
        /\ contract \in Contracts /\ runActive \in BOOLEAN
        /\ record \in [Releases -> Row \cup {NoRecord}]
        /\ rows \in [Releases -> SUBSET Content] /\ disk \in [Releases -> Files]
        /\ github \in [Versions -> GithubType] /\ lock \in Callers \cup {Nobody}
        /\ op \in [Callers -> OpType] /\ builds \in Content
        /\ source \in [1..BuildBound -> Shas \cup {NoSha}] /\ verified \in [Releases -> Content]
BY DEF TypeOK, OpType, GithubType

\* No files are files, and so are those of one build.
LEMMA FileTypes ==
    /\ NoFiles \in Files /\ \A a \in Assets : NoFiles[a] = 0
    /\ \A b \in Content : [a \in Assets |-> b] \in Files
    /\ "package" \in Assets /\ Assets \subseteq {"package", "sbom"}
BY DeliveryAssumption DEF NoFiles, Files, Content, Assets

\* The caller is at this step of its operation; nobody else moves.
Moves(c, step, release, files, done) ==
    /\ op' \in [Callers -> OpType]
    /\ op'[c].step = step /\ op'[c].release = release
    /\ op'[c].files = files /\ op'[c].done = done
    /\ \A d \in Callers : d # c => op'[d] = op[d]

\* Writing the whole operation of a caller.
LEMMA OpWritten ==
    ASSUME TypeOK, NEW c \in Callers, NEW new \in OpType, op' = [op EXCEPT ![c] = new]
    PROVE  Moves(c, new.step, new.release, new.files, new.done)
BY DEF TypeOK, OpType, Moves

\* Writing the step of an operation.
LEMMA StepWritten ==
    ASSUME TypeOK, NEW c \in Callers, NEW step \in Steps, op' = [op EXCEPT ![c].step = step]
    PROVE  Moves(c, step, op[c].release, op[c].files, op[c].done)
<1> DEFINE new == [op[c] EXCEPT !.step = step]
<1>0. op \in [Callers -> OpType]
  BY DEF TypeOK, OpType
<1>1. /\ new \in OpType /\ new.step = step /\ new.release = op[c].release
      /\ new.files = op[c].files /\ new.done = op[c].done
  BY <1>0 DEF OpType
<1>2. op' = [op EXCEPT ![c] = new]
  BY <1>0
<1> HIDE DEF new
<1> QED BY <1>1, <1>2, OpWritten

\* Writing its step and its files.
LEMMA FilesWritten ==
    ASSUME TypeOK, NEW c \in Callers, NEW step \in Steps, NEW files \in Files,
           op' = [op EXCEPT ![c].step = step, ![c].files = files]
    PROVE  Moves(c, step, op[c].release, files, op[c].done)
<1> DEFINE new == [op[c] EXCEPT !.step = step, !.files = files]
<1>0. op \in [Callers -> OpType]
  BY DEF TypeOK, OpType
<1>1. /\ new \in OpType /\ new.step = step /\ new.release = op[c].release
      /\ new.files = files /\ new.done = op[c].done
  BY <1>0 DEF OpType
<1>2. op' = [op EXCEPT ![c] = new]
  BY <1>0
<1> HIDE DEF new
<1> QED BY <1>1, <1>2, OpWritten

\* Writing its step and starting anew with its files.
LEMMA Restarted ==
    ASSUME TypeOK, NEW c \in Callers, NEW step \in Steps,
           op' = [op EXCEPT ![c].step = step, ![c].done = {}]
    PROVE  Moves(c, step, op[c].release, op[c].files, {})
<1> DEFINE new == [op[c] EXCEPT !.step = step, !.done = {}]
<1>0. op \in [Callers -> OpType]
  BY DEF TypeOK, OpType
<1>1. /\ new \in OpType /\ new.step = step /\ new.release = op[c].release
      /\ new.files = op[c].files /\ new.done = {}
  BY <1>0 DEF OpType
<1>2. op' = [op EXCEPT ![c] = new]
  BY <1>0
<1> HIDE DEF new
<1> QED BY <1>1, <1>2, OpWritten

\* Being done with one more file.
LEMMA DoneWritten ==
    ASSUME TypeOK, NEW c \in Callers, NEW a \in Assets, op' = [op EXCEPT ![c].done = @ \cup {a}]
    PROVE  Moves(c, op[c].step, op[c].release, op[c].files, op[c].done \cup {a})
<1> DEFINE new == [op[c] EXCEPT !.done = @ \cup {a}]
<1>0. op \in [Callers -> OpType]
  BY DEF TypeOK, OpType
<1>1. /\ new \in OpType /\ new.step = op[c].step /\ new.release = op[c].release
      /\ new.files = op[c].files /\ new.done = op[c].done \cup {a}
  BY <1>0 DEF OpType
<1>2. op' = [op EXCEPT ![c] = new]
  BY <1>0
<1> HIDE DEF new
<1> QED BY <1>1, <1>2, OpWritten

\* Reading one more file.
LEMMA ReadWritten ==
    ASSUME TypeOK, NEW c \in Callers, NEW a \in Assets, NEW b \in Content,
           op' = [op EXCEPT ![c].files[a] = b, ![c].done = @ \cup {a}]
    PROVE  /\ [op[c].files EXCEPT ![a] = b] \in Files
           /\ Moves(c, op[c].step, op[c].release, [op[c].files EXCEPT ![a] = b],
                    op[c].done \cup {a})
<1> DEFINE files == [op[c].files EXCEPT ![a] = b]
<1> DEFINE new == [op[c] EXCEPT !.files = files, !.done = @ \cup {a}]
<1>0. op \in [Callers -> OpType]
  BY DEF TypeOK, OpType
<1>1. files \in Files
  BY <1>0 DEF OpType, Files
<1>2. op' = [op EXCEPT ![c] = new]
  BY <1>0
<1> HIDE DEF files
<1>3. /\ new \in OpType /\ new.step = op[c].step /\ new.release = op[c].release
      /\ new.files = files /\ new.done = op[c].done \cup {a}
  BY <1>0, <1>1 DEF OpType
<1> HIDE DEF new
<1>4. Moves(c, new.step, new.release, new.files, new.done)
  BY <1>2, <1>3, OpWritten
<1> QED BY <1>1, <1>3, <1>4 DEF files

\* The first and the last step of an operation.
LEMMA BeginsAndEnds ==
    ASSUME TypeOK, NEW c \in Callers
    PROVE  /\ \A step \in Steps, r \in Releases, files \in Files : Begins(c, step, r, files)
                  => Moves(c, step, r, files, {})
           /\ Ends(c) => Moves(c, "idle", NoRecord, NoFiles, {})
<1>1. ASSUME NEW step \in Steps, NEW r \in Releases, NEW files \in Files, Begins(c, step, r, files)
      PROVE  Moves(c, step, r, files, {})
  <2> DEFINE new == [step |-> step, release |-> r, files |-> files, done |-> {}]
  <2>1. /\ new \in OpType /\ new.step = step /\ new.release = r
        /\ new.files = files /\ new.done = {}
    BY DEF OpType
  <2>2. op' = [op EXCEPT ![c] = new]
    BY <1>1 DEF Begins
  <2> HIDE DEF new
  <2>3. Moves(c, new.step, new.release, new.files, new.done)
    BY <2>1, <2>2, OpWritten
  <2> QED BY <2>1, <2>3
<1>2. ASSUME Ends(c) PROVE Moves(c, "idle", NoRecord, NoFiles, {})
  <2>1. /\ NoOp \in OpType /\ NoOp.step = "idle" /\ NoOp.release = NoRecord
        /\ NoOp.files = NoFiles /\ NoOp.done = {}
    BY FileTypes DEF OpType, NoOp, Steps
  <2>2. op' = [op EXCEPT ![c] = NoOp]
    BY <1>2 DEF Ends
  <2>3. Moves(c, NoOp.step, NoOp.release, NoOp.files, NoOp.done)
    BY <2>1, <2>2, OpWritten
  <2> QED BY <2>1, <2>3
<1> QED BY <1>1, <1>2

\* One file of a release is written.
OnDisk(r, a, b) ==
    /\ disk' \in [Releases -> Files] /\ disk'[r][a] = b
    /\ \A z \in Assets : z # a => disk'[r][z] = disk[r][z]
    /\ \A q \in Releases : q # r => disk'[q] = disk[q]

\* Writing one file changes nothing else on the disk.
LEMMA DiskWritten ==
    ASSUME TypeOK, NEW r \in Releases, NEW a \in Assets, NEW b \in Content,
           disk' = [disk EXCEPT ![r][a] = b]
    PROVE  OnDisk(r, a, b)
<1> DEFINE new == [disk[r] EXCEPT ![a] = b]
<1>1. /\ new \in Files /\ new[a] = b /\ \A z \in Assets : z # a => new[z] = disk[r][z]
  BY DEF TypeOK, Files
<1>2. disk' = [disk EXCEPT ![r] = new]
  BY DEF TypeOK
<1> HIDE DEF new
<1> QED BY <1>1, <1>2 DEF TypeOK, OnDisk

\* Moving a tag changes the commit of one version.
LEMMA CommitWritten ==
    ASSUME TypeOK, NEW v \in Versions, NEW sha \in Shas,
               github' = [github EXCEPT ![v].commit = sha]
    PROVE  /\ github' \in [Versions -> GithubType]
           /\ github'[v].commit = sha /\ github'[v].assets = github[v].assets
           /\ \A w \in Versions : w # v => github'[w] = github[w]
<1>0. github \in [Versions -> GithubType]
  BY DEF TypeOK, GithubType
<1> DEFINE new == [github[v] EXCEPT !.commit = sha]
<1>1. new \in GithubType /\ new.commit = sha /\ new.assets = github[v].assets
  BY <1>0 DEF GithubType
<1>2. github' = [github EXCEPT ![v] = new]
  BY <1>0
<1> HIDE DEF new
<1> QED BY <1>0, <1>1, <1>2

\* An upload changes one asset of one version.
LEMMA AssetWritten ==
    ASSUME TypeOK, NEW v \in Versions, NEW a \in Assets, NEW b \in Content,
           github' = [github EXCEPT ![v].assets[a] = b]
    PROVE  /\ github' \in [Versions -> GithubType]
           /\ github'[v].commit = github[v].commit /\ github'[v].assets[a] = b
           /\ \A z \in Assets : z # a => github'[v].assets[z] = github[v].assets[z]
           /\ \A w \in Versions : w # v => github'[w] = github[w]
<1>0. github \in [Versions -> GithubType]
  BY DEF TypeOK, GithubType
<1> DEFINE newAssets == [github[v].assets EXCEPT ![a] = b]
<1>1. /\ newAssets \in Files /\ newAssets[a] = b
      /\ \A z \in Assets : z # a => newAssets[z] = github[v].assets[z]
  BY <1>0 DEF GithubType, Files
<1> DEFINE new == [github[v] EXCEPT !.assets = newAssets]
<1>2. github' = [github EXCEPT ![v] = new]
  BY <1>0
<1> HIDE DEF newAssets
<1>3. new \in GithubType /\ new.commit = github[v].commit /\ new.assets = newAssets
  BY <1>0, <1>1 DEF GithubType
<1> HIDE DEF new
<1> QED BY <1>0, <1>1, <1>2, <1>3

\* Who is in an operation knows its record.
LEMMA Working ==
    ASSUME TypeOK, OpInv, NEW c \in Callers, op[c].step # "idle"
    PROVE  /\ op[c].release \in Releases /\ record[op[c].release] # NoRecord
           /\ record[op[c].release] \in Row /\ record[op[c].release].sha \in Shas
           /\ Version(c) \in Versions /\ record[op[c].release].gates \in [Gates -> GateStatuses]
BY DEF TypeOK, OpInv, Row, Version

\* What an action does to GitHub.
GithubMoves(c) ==
    /\ CreateRelease(c) =>
          /\ github' \in [Versions -> GithubType]
          /\ \/ github' = github /\ github[Version(c)].commit # NoSha
             \/ /\ github[Version(c)].commit = NoSha
                /\ github'[Version(c)].commit = record[op[c].release].sha
                /\ github'[Version(c)].assets = github[Version(c)].assets
                /\ \A w \in Versions : w # Version(c) => github'[w] = github[w]
    /\ \A a \in Assets : UploadAsset(c, a) =>
          /\ github' \in [Versions -> GithubType]
          /\ github[Version(c)].assets[a] = 0
          /\ github'[Version(c)].commit = github[Version(c)].commit
          /\ github'[Version(c)].assets[a] = op[c].files[a]
          /\ \A z \in Assets : z # a
                 => github'[Version(c)].assets[z] = github[Version(c)].assets[z]
          /\ \A w \in Versions : w # Version(c) => github'[w] = github[w]

\* What each action does to the releases on GitHub.
LEMMA OnGithub == ASSUME TypeOK, OpInv, NEW c \in Callers PROVE GithubMoves(c)
<1>0. github \in [Versions -> GithubType] /\ \A a \in Assets : op[c].files[a] \in Content
  BY DEF TypeOK, GithubType, Files
<1>1. ASSUME CreateRelease(c)
      PROVE  /\ github' \in [Versions -> GithubType]
             /\ \/ github' = github /\ github[Version(c)].commit # NoSha
                \/ /\ github[Version(c)].commit = NoSha
                   /\ github'[Version(c)].commit = record[op[c].release].sha
                   /\ github'[Version(c)].assets = github[Version(c)].assets
                   /\ \A w \in Versions : w # Version(c) => github'[w] = github[w]
  <2>1. op[c].step # "idle"
    BY <1>1 DEF CreateRelease, At
  <2>2. Version(c) \in Versions /\ record[op[c].release].sha \in Shas
    BY <2>1, Working
  <2>3. CASE github[Version(c)].commit # NoSha
    BY <1>0, <1>1, <2>3 DEF CreateRelease
  <2>4. CASE github[Version(c)].commit = NoSha
    <3>1. github' = [github EXCEPT ![Version(c)].commit = record[op[c].release].sha]
      BY <1>1, <2>4 DEF CreateRelease
    <3> QED BY <2>2, <2>4, <3>1, CommitWritten
  <2> QED BY <2>3, <2>4
<1>2. ASSUME NEW a \in Assets, UploadAsset(c, a)
      PROVE  /\ github' \in [Versions -> GithubType]
             /\ github[Version(c)].assets[a] = 0
             /\ github'[Version(c)].commit = github[Version(c)].commit
             /\ github'[Version(c)].assets[a] = op[c].files[a]
             /\ \A z \in Assets : z # a
                    => github'[Version(c)].assets[z] = github[Version(c)].assets[z]
             /\ \A w \in Versions : w # Version(c) => github'[w] = github[w]
  <2> DEFINE v == Version(c)
  <2> DEFINE b == op[c].files[a]
  <2>1. /\ op[c].step # "idle" /\ github[v].assets[a] = 0
        /\ github' = [github EXCEPT ![v].assets[a] = b]
    BY <1>2 DEF UploadAsset, At
  <2>2. v \in Versions /\ b \in Content
    BY <1>0, <2>1, Working
  <2> HIDE DEF v, b
  <2>3. /\ github' \in [Versions -> GithubType]
        /\ github'[v].commit = github[v].commit /\ github'[v].assets[a] = b
        /\ \A z \in Assets : z # a => github'[v].assets[z] = github[v].assets[z]
        /\ \A w \in Versions : w # v => github'[w] = github[w]
    BY <2>1, <2>2, AssetWritten
  <2> QED BY <2>1, <2>3 DEF v, b
<1> QED BY <1>1, <1>2 DEF GithubMoves
-----------------------------------------------------------------------------
(* What a step does to the callers, the lock, the files and the builds.  The  *)
(* invariants are proved from these descriptions.                              *)

Kept == UNCHANGED <<contract, runActive>>

Prepares(c) == lock = Nobody /\ UNCHANGED <<op, lock, disk, builds, source, github>>

Enters(c) ==
    \E r \in Releases, step \in {"checked", "asked"}, files \in Files :
        /\ op[c].step = "idle" /\ record[r] # NoRecord /\ Moves(c, step, r, files, {})
        /\ step = "asked" => files = NoFiles
        /\ UNCHANGED <<record, lock, disk, builds, source, github>>

Empties(c) ==
    \E r \in Releases :
        /\ op[c].step = "idle" /\ record[r] # NoRecord
        /\ Moves(c, "building", r, NoFiles, {}) /\ EmitOpening(c)
        /\ disk' = [disk EXCEPT ![r] = NoFiles]
        /\ UNCHANGED <<record, builds, source, github>>

Builds(c) ==
    /\ op[c].step = "building" /\ builds < BuildBound
    /\ Moves(c, "writing", op[c].release, [a \in Assets |-> builds + 1], op[c].done)
    /\ lock \in {Nobody, c} /\ lock' = c
    /\ builds' = builds + 1
    /\ source' = [source EXCEPT ![builds + 1] = record[op[c].release].sha]
    /\ UNCHANGED <<record, disk, github>>

Writes(c) ==
    \E a \in Assets :
        /\ op[c].step = "writing"
        /\ Moves(c, "writing", op[c].release, op[c].files, op[c].done \cup {a})
        /\ OnDisk(op[c].release, a, op[c].files[a])
        /\ UNCHANGED <<record, lock, builds, source, github>>

Packs(c) ==
    /\ op[c].step = "writing"
    /\ Moves(c, "packed", op[c].release, op[c].files, op[c].done)
    /\ UNCHANGED <<record, lock, disk, builds, source, github>>

Passes(c) ==
    /\ op[c].step = "asked" /\ EmitOpening(c)
    /\ Moves(c, "gated", op[c].release, op[c].files, op[c].done)
    /\ Publishable(record[op[c].release].gates)
    /\ UNCHANGED <<record, disk, builds, source, github>>

Reads(c) ==
    \E a \in Assets, files \in Files :
        /\ op[c].step = "gated" /\ disk[op[c].release][a] # 0
        /\ files[a] = disk[op[c].release][a]
        /\ \A z \in Assets : z # a => files[z] = op[c].files[z]
        /\ Moves(c, "gated", op[c].release, files, op[c].done \cup {a})
        /\ UNCHANGED <<record, lock, disk, builds, source, github>>

Creates(c) ==
    /\ op[c].step = "gated" /\ op[c].done = Assets /\ CreateRelease(c)
    /\ Moves(c, "uploading", op[c].release, op[c].files, {})
    /\ lock \in {Nobody, c} /\ lock' = c
    /\ UNCHANGED <<record, disk, builds, source>>

Uploads(c) ==
    \E a \in Assets :
        /\ op[c].step = "uploading" /\ UploadAsset(c, a)
        /\ Moves(c, "uploading", op[c].release, op[c].files, op[c].done \cup {a})
        /\ UNCHANGED <<record, lock, disk, builds, source>>

Retires(c) ==
    /\ op[c].step # "idle"
    /\ \/ Moves(c, "idle", NoRecord, NoFiles, {})
       \/ Moves(c, "announcing", op[c].release, op[c].files, op[c].done)
    /\ lock' = lock \/ (lock = c /\ lock' = Nobody)
    /\ record' = record \/ (lock \in {Nobody, c} /\ (op[c].step = "uploading" => PublishCommit(c)))
    /\ UNCHANGED <<disk, builds, source, github>>

Footprint(c) ==
    \/ Prepares(c) \/ Enters(c) \/ Empties(c) \/ Builds(c) \/ Writes(c) \/ Packs(c)
    \/ Passes(c) \/ Reads(c) \/ Creates(c) \/ Uploads(c) \/ Retires(c)

\* Every step is described by one of these.
LEMMA FootprintOf ==
    ASSUME TypeOK, OpInv, LockInv, NEW c \in Callers,
           \/ \E r \in Releases, s \in Shas, v \in Versions : Prepare(c, r, s, v)
           \/ Package(c) \/ Verify(c) \/ Publish(c) \/ Abort(c)
    PROVE  Footprint(c)
<1>0. {"building", "writing", "packed", "checked", "asked", "gated", "uploading", "announcing"}
          \subseteq Steps
  BY DEF Steps
<1>1. ASSUME NEW r \in Releases, NEW s \in Shas, NEW v \in Versions, Prepare(c, r, s, v)
      PROVE  Prepares(c)
  BY <1>1 DEF Prepare, Prepares
<1>2. ASSUME NEW r \in Releases, PackageStart(c, r) PROVE Empties(c)
  <2>1. Moves(c, "building", r, NoFiles, {})
    BY <1>0, <1>2, BeginsAndEnds, FileTypes DEF PackageStart
  <2> QED BY <1>2, <2>1 DEF PackageStart, Idle, Empties
<1>3. ASSUME PackageBuild(c) PROVE Builds(c)
  <2>1. builds + 1 \in Content
    BY <1>3, DeliveryAssumption DEF PackageBuild, TypeOK, Content
  <2>2. Moves(c, "writing", op[c].release, [a \in Assets |-> builds + 1], op[c].done)
    BY <1>0, <1>3, <2>1, FileTypes, FilesWritten DEF PackageBuild
  <2> QED BY <1>3, <2>2 DEF PackageBuild, At, Free, CandidateWorkspace, Builds
<1>4. ASSUME NEW a \in Assets, PackageWrite(c, a) PROVE Writes(c)
  <2>1. op[c].step = "writing"
    BY <1>4 DEF PackageWrite, At
  <2>2. op[c].release \in Releases /\ op[c].files[a] \in Content
    BY <2>1, Working DEF TypeOK, Files
  <2>3. OnDisk(op[c].release, a, op[c].files[a])
    BY <1>4, <2>2, DiskWritten DEF PackageWrite
  <2>4. Moves(c, "writing", op[c].release, op[c].files, op[c].done \cup {a})
    BY <1>4, <2>1, DoneWritten DEF PackageWrite
  <2> QED BY <1>4, <2>1, <2>3, <2>4 DEF PackageWrite, Writes
<1>5. ASSUME PackageVerify(c) PROVE Packs(c)
  BY <1>0, <1>5, StepWritten DEF PackageVerify, At, Packs
<1>6. ASSUME PackageCommit(c) PROVE Retires(c)
  BY <1>6, BeginsAndEnds DEF PackageCommit, At, Ends, LockInv, Retires
<1>7. ASSUME NEW r \in Releases, VerifyRead(c, r) PROVE Enters(c)
  <2>1. disk[r] \in Files
    BY DEF TypeOK
  <2>2. Moves(c, "checked", r, disk[r], {})
    BY <1>0, <1>7, <2>1, BeginsAndEnds DEF VerifyRead
  <2> QED BY <1>7, <2>1, <2>2 DEF VerifyRead, Idle, Enters
<1>8. ASSUME VerifyCommit(c) PROVE Retires(c)
  BY <1>8, BeginsAndEnds DEF VerifyCommit, At, Ends, Retires
<1>9. ASSUME NEW r \in Releases, PublishRead(c, r) PROVE Enters(c)
  <2>1. Moves(c, "asked", r, NoFiles, {})
    BY <1>0, <1>9, FileTypes, BeginsAndEnds DEF PublishRead
  <2> QED BY <1>9, <2>1, FileTypes DEF PublishRead, Idle, Enters
<1>10. ASSUME PublishCheck(c) PROVE Passes(c)
  <2>1. Moves(c, "gated", op[c].release, op[c].files, op[c].done)
    BY <1>0, <1>10, StepWritten DEF PublishCheck
  <2> QED BY <1>10, <2>1 DEF PublishCheck, At, Passes
<1>11. ASSUME NEW a \in Assets, PublishFiles(c, a) PROVE Reads(c)
  <2> DEFINE b == disk[op[c].release][a]
  <2> DEFINE files == [op[c].files EXCEPT ![a] = b]
  <2>1. op[c].step = "gated" /\ b # 0
    BY <1>11 DEF PublishFiles, At
  <2>2. b \in Content /\ op[c].files \in Files
    BY <2>1, Working DEF TypeOK, Files
  <2>3. op' = [op EXCEPT ![c].files[a] = b, ![c].done = @ \cup {a}]
    BY <1>11 DEF PublishFiles
  <2>4. UNCHANGED <<record, lock, disk, builds, source, github>>
    BY <1>11 DEF PublishFiles
  <2>5. files[a] = b /\ \A z \in Assets : z # a => files[z] = op[c].files[z]
    BY <2>2 DEF Files
  <2>6. files \in Files /\ Moves(c, "gated", op[c].release, files, op[c].done \cup {a})
    <3> HIDE DEF b
    <3> QED BY <2>1, <2>2, <2>3, ReadWritten
  <2> HIDE DEF files
  <2> QED BY <2>1, <2>4, <2>5, <2>6 DEF Reads
<1>12. ASSUME PublishLocal(c) PROVE Retires(c)
  <2>1. op[c].step = "gated" /\ lock \in {Nobody, c} /\ UNCHANGED <<disk, builds, source, github>>
    BY <1>12 DEF PublishLocal, At, Free
  <2>2. \/ op' = [op EXCEPT ![c].step = "announcing"] /\ lock' = Nobody
        \/ Ends(c)
    BY <1>12 DEF PublishLocal, AfterPublication
  <2> QED BY <1>0, <2>1, <2>2, StepWritten, BeginsAndEnds DEF Ends, Retires
<1>13. ASSUME CreateRelease(c) PROVE Creates(c)
  <2>1. Moves(c, "uploading", op[c].release, op[c].files, {})
    BY <1>0, <1>13, Restarted DEF CreateRelease
  <2> QED BY <1>13, <2>1 DEF CreateRelease, At, Free, Creates
<1>14. ASSUME NEW a \in Assets, UploadAsset(c, a) PROVE Uploads(c)
  <2>1. op[c].step = "uploading" /\ UNCHANGED <<record, lock, disk, builds, source>>
    BY <1>14 DEF UploadAsset, At
  <2>2. Moves(c, "uploading", op[c].release, op[c].files, op[c].done \cup {a})
    BY <1>14, <2>1, DoneWritten DEF UploadAsset
  <2> QED BY <1>14, <2>1, <2>2 DEF Uploads
<1>15. ASSUME PublishCommit(c) PROVE Retires(c)
  <2>1. op[c].step = "uploading" /\ lock = c /\ UNCHANGED <<disk, builds, source, github>>
    BY <1>15 DEF PublishCommit, At, LockInv
  <2>2. \/ op' = [op EXCEPT ![c].step = "announcing"] /\ lock' = Nobody
        \/ Ends(c)
    BY <1>15 DEF PublishCommit, AfterPublication
  <2> QED BY <1>0, <1>15, <2>1, <2>2, StepWritten, BeginsAndEnds DEF Ends, Retires
<1>16. ASSUME MarkAnnounced(c) PROVE Retires(c)
  BY <1>16, BeginsAndEnds DEF MarkAnnounced, At, Ends, Retires
<1>17. ASSUME Abort(c) PROVE Retires(c)
  BY <1>17, BeginsAndEnds DEF Abort, Idle, Ends, Retires
<1> QED BY <1>1, <1>2, <1>3, <1>4, <1>5, <1>6, <1>7, <1>8, <1>9, <1>10, <1>11, <1>12, <1>13,
    <1>14, <1>15, <1>16, <1>17 DEF Package, Verify, Publish, Footprint

\* The same of a step of the system, which leaves contract and run alone.
LEMMA Footprints ==
    ASSUME TypeOK, OpInv, LockInv, Next
    PROVE  Kept /\ Assets' = Assets /\ \E c \in Callers : Footprint(c)
<1>1. Kept
  BY DEF Next, settings, Kept
<1>2. Assets' = Assets
  BY <1>1 DEF Kept, Assets
<1> QED BY <1>1, <1>2, FootprintOf DEF Next
\* Once a release is publishable, every other step leaves it so: packaging
\* again, unless a signature is required, and what the steps write to single gates.
LEMMA GatesKeep ==
    ASSUME NEW gates \in [Gates -> GateStatuses], Publishable(gates)
    PROVE  /\ ~contract.signing => \A r \in Releases : Publishable(PackagedGates(r, gates))
           /\ Publishable([gates EXCEPT !["VERIFY_GATE"] = "passed"])
           /\ Publishable([gates EXCEPT !["PUBLICATION_GATE"] = "not_required"])
           /\ Publishable([gates EXCEPT !["PUBLICATION_GATE"] = "passed"])
           /\ Publishable([gates EXCEPT !["DELIVERY_GATE"] = "pending"])
<1>1. \A new \in [Gates -> GateStatuses] :
          /\ new["VERIFY_GATE"] = "passed"
          /\ new["SIGNATURE_GATE"] = gates["SIGNATURE_GATE"]
          /\ \A g \in ReleaseGates \ {"PUBLICATION_GATE", "DELIVERY_GATE"} :
                new[g] \in {"pending", "failed"} => gates[g] \in {"pending", "failed"}
          => Publishable(new)
  BY DEF Publishable, BlockingGates
<1>2. ASSUME ~contract.signing, NEW r \in Releases PROVE Publishable(PackagedGates(r, gates))
  <2>1. /\ PackagedGates(r, gates)["VERIFY_GATE"] = gates["VERIFY_GATE"]
        /\ PackagedGates(r, gates)["SIGNATURE_GATE"] = "passed"
        /\ \A g \in ReleaseGates :
               PackagedGates(r, gates)[g] \in {"passed", "not_required", gates[g]}
    BY <1>2 DEF PackagedGates, Gates, ReleaseGates
  <2> QED BY <2>1 DEF Publishable, BlockingGates
<1>3. gates["VERIFY_GATE"] = "passed"
  BY DEF Publishable
<1>4. ASSUME NEW g \in {"VERIFY_GATE", "PUBLICATION_GATE", "DELIVERY_GATE"},
             NEW status \in {"passed", "not_required", "pending"}, g = "VERIFY_GATE"
                 => status = "passed"
      PROVE  Publishable([gates EXCEPT ![g] = status])
  <2>1. g \in Gates /\ status \in GateStatuses /\ "VERIFY_GATE" \in Gates
            /\ "SIGNATURE_GATE" \in Gates
        /\ ReleaseGates \subseteq Gates
               /\ g \notin ReleaseGates \ {"PUBLICATION_GATE", "DELIVERY_GATE"}
    BY DEF Gates, ReleaseGates, GateStatuses
  <2> DEFINE new == [gates EXCEPT ![g] = status]
  <2>2. new \in [Gates -> GateStatuses] /\ new["VERIFY_GATE"] = "passed"
        /\ new["SIGNATURE_GATE"] = gates["SIGNATURE_GATE"]
        /\ \A k \in Gates : k # g => new[k] = gates[k]
    BY <1>3, <1>4, <2>1
  <2> HIDE DEF new
  <2>3. Publishable(new)
    BY <1>1, <2>1, <2>2
  <2> QED BY <2>3 DEF new
<1> QED BY <1>2, <1>4

\* What preparation and packaging leave in the gates that publishing looks at.
LEMMA SignatureGate ==
    /\ contract.signing => InitialGates["SIGNATURE_GATE"] = "pending"
    /\ \A r \in Releases, gates \in [Gates -> GateStatuses] :
          /\ contract.signing => PackagedGates(r, gates)["SIGNATURE_GATE"] = "pending"
          /\ PackagedGates(r, gates)["PUBLICATION_GATE"] = gates["PUBLICATION_GATE"]
          /\ Publishable(gates) /\ contract.signing => gates["SIGNATURE_GATE"] # "pending"
<1>1. {"SIGNATURE_GATE", "PUBLICATION_GATE"} \subseteq Gates
  BY DEF Gates, ReleaseGates
<1>2. /\ contract.signing => InitialGates["SIGNATURE_GATE"] = "pending"
    BY <1>1 DEF InitialGates
<1>3. ASSUME NEW r \in Releases, NEW gates \in [Gates -> GateStatuses]
      PROVE  /\ contract.signing => PackagedGates(r, gates)["SIGNATURE_GATE"] = "pending"
             /\ PackagedGates(r, gates)["PUBLICATION_GATE"] = gates["PUBLICATION_GATE"]
  BY <1>1 DEF PackagedGates
<1>4. ASSUME NEW gates \in [Gates -> GateStatuses], Publishable(gates)
      PROVE  contract.signing => gates["SIGNATURE_GATE"] # "pending"
  BY <1>4 DEF Publishable, BlockingGates, ReleaseGates
<1> QED BY <1>2, <1>3, <1>4


\* Every step keeps the types.
LEMMA TypeStep ==
    ASSUME TypeOK, OpInv, LockInv, Next
    PROVE  TypeOK'
<1>0. /\ contract \in Contracts /\ runActive \in BOOLEAN
      /\ rows \in [Releases -> SUBSET Content] /\ disk \in [Releases -> Files]
      /\ github \in [Versions -> GithubType] /\ lock \in Callers \cup {Nobody}
      /\ op \in [Callers -> OpType] /\ builds \in Content /\ BuildBound \in Nat
      /\ source \in [1..BuildBound -> Shas \cup {NoSha}] /\ verified \in [Releases -> Content]
  BY Types, DeliveryAssumption
<1>1. Kept /\ Assets' = Assets /\ \E c \in Callers : Footprint(c)
  BY Footprints
<1>2. rows' \in [Releases -> SUBSET Content] /\ verified' \in [Releases -> Content]
  <2>1. ASSUME NEW c \in Callers, PackageCommit(c) \/ VerifyCommit(c)
        PROVE  rows' \in [Releases -> SUBSET Content] /\ verified' \in [Releases -> Content]
    <3>1. op[c].step # "idle"
      BY <2>1 DEF PackageCommit, VerifyCommit, At
    <3>2. op[c].files["package"] \in Content /\ op[c].release \in Releases
      BY <1>0, <3>1, FileTypes, Working DEF OpType, Files
    <3>3. CASE PackageCommit(c)
      <4>1. /\ rows' = [rows EXCEPT ![op[c].release] = @ \cup {op[c].files["package"]}]
            /\ verified' = verified
        BY <3>3 DEF PackageCommit, InsertArtifacts
      <4> QED BY <1>0, <3>2, <4>1
    <3>4. CASE VerifyCommit(c)
      <4>1. /\ verified' = [verified EXCEPT ![op[c].release] = op[c].files["package"]]
            /\ rows' = rows
        BY <3>4 DEF VerifyCommit
      <4> QED BY <1>0, <3>2, <4>1
    <3> QED BY <2>1, <3>3, <3>4
  <2>2. ASSUME NEW c \in Callers,
               \/ \E r \in Releases, s \in Shas, v \in Versions : Prepare(c, r, s, v)
               \/ LeavesRecords(c) \/ PublishLocal(c) \/ PublishCommit(c) \/ MarkAnnounced(c)
        PROVE  rows' = rows /\ verified' = verified
    BY <2>2 DEF LeavesRecords, Prepare, PackageStart, VerifyRead, PublishRead, PackageWrite,
        PublishFiles, UploadAsset, PackageBuild, PackageVerify, PublishCheck, CreateRelease, Abort,
        PublishLocal, PublishCommit, MarkAnnounced
  <2> QED BY <1>0, <2>1, <2>2 DEF Next, Package, Verify, Publish, LeavesRecords
<1>3. ASSUME NEW c \in Callers, Footprint(c)
      PROVE  /\ disk' \in [Releases -> Files] /\ github' \in [Versions -> GithubType]
             /\ lock' \in Callers \cup {Nobody} /\ op' \in [Callers -> OpType]
             /\ builds' \in Content /\ source' \in [1..BuildBound -> Shas \cup {NoSha}]
  <2>1. CASE Prepares(c)
    BY <1>0, <2>1 DEF Prepares
  <2>2. CASE Enters(c)
    BY <1>0, <2>2 DEF Enters, Moves
  <2>3. CASE Empties(c)
    BY <1>0, <2>3, FileTypes DEF Empties, Moves, EmitOpening
  <2>4. CASE Builds(c)
    <3>1. record[op[c].release].sha \in Shas
      BY <2>4, Working DEF Builds
    <3>2. builds + 1 \in Content /\ builds + 1 \in 1..BuildBound
      BY <1>0, <2>4 DEF Builds, Content
    <3> QED BY <1>0, <2>4, <3>1, <3>2 DEF Builds, Moves
  <2>5. CASE Writes(c)
    BY <1>0, <2>5 DEF Writes, OnDisk, Moves
  <2>6. CASE Packs(c)
    BY <1>0, <2>6 DEF Packs, Moves
  <2>7. CASE Passes(c)
    BY <1>0, <2>7 DEF Passes, EmitOpening, Moves
  <2>8. CASE Reads(c)
    BY <1>0, <2>8 DEF Reads, Moves
  <2>9. CASE Creates(c)
    <3>1. github' \in [Versions -> GithubType]
      BY <2>9, OnGithub DEF Creates, GithubMoves
    <3> QED BY <1>0, <2>9, <3>1 DEF Creates, Moves
  <2>10. CASE Uploads(c)
    <3>1. github' \in [Versions -> GithubType]
      BY <2>10, OnGithub DEF Uploads, GithubMoves
    <3> QED BY <1>0, <2>10, <3>1 DEF Uploads, Moves
  <2>11. CASE Retires(c)
    BY <1>0, <2>11 DEF Retires, Moves
  <2> QED BY <1>3, <2>1, <2>2, <2>3, <2>4, <2>5, <2>6, <2>7, <2>8, <2>9, <2>10, <2>11
      DEF Footprint
<1>4. record' \in [Releases -> Row \cup {NoRecord}]
  BY RecordStep DEF RecordsMove
<1>5. Files' = Files
  BY <1>1 DEF Files
<1> QED BY <1>0, <1>1, <1>2, <1>3, <1>4, <1>5 DEF Kept, TypeOK, OpType, GithubType

\* Every step keeps OpInv.
LEMMA OpStep ==
    ASSUME TypeOK, OpInv, LockInv, Next
    PROVE  OpInv'
<1>0. SameRelease
  BY RecordStep DEF RecordsMove
<1>1. ASSUME NEW c \in Callers, Footprint(c) PROVE OpInv'
  <2>1. CASE Prepares(c) \/ Enters(c) \/ Empties(c)
    BY <1>0, <2>1 DEF Prepares, Enters, Empties, Moves, SameRelease, OpInv
  <2>2. CASE Builds(c) \/ Writes(c) \/ Packs(c)
    BY <1>0, <2>2 DEF Builds, Writes, Packs, Moves, SameRelease, OpInv
  <2>3. CASE Passes(c) \/ Reads(c) \/ Creates(c) \/ Uploads(c)
    BY <1>0, <2>3 DEF Passes, Reads, Creates, Uploads, Moves, SameRelease, OpInv
  <2>4. CASE Retires(c)
    BY <1>0, <2>4 DEF Retires, Moves, SameRelease, OpInv
  <2> QED BY <1>1, <2>1, <2>2, <2>3, <2>4 DEF Footprint
<1> QED BY <1>1, Footprints

\* Every step keeps LockInv.
LEMMA LockStep ==
    ASSUME TypeOK, OpInv, LockInv, Next
    PROVE  LockInv'
<1>0. Kept /\ Nobody \notin Callers
  BY Footprints, DeliveryAssumption
<1>1. ASSUME NEW c \in Callers, Footprint(c) PROVE LockInv'
  <2>1. CASE Prepares(c) \/ Enters(c)
    BY <1>0, <2>1 DEF Kept, Prepares, Enters, Moves, LockInv
  <2>2. CASE Empties(c)
    BY <1>0, <2>2 DEF Kept, Empties, EmitOpening, Free, Moves, LockInv
  <2>3. CASE Builds(c)
    BY <1>0, <2>3 DEF Kept, Builds, Moves, LockInv
  <2>4. CASE Writes(c) \/ Packs(c)
    BY <1>0, <2>4 DEF Kept, Writes, Packs, Moves, LockInv
  <2>5. CASE Passes(c)
    BY <1>0, <2>5 DEF Kept, Passes, EmitOpening, Free, Moves, LockInv
  <2>6. CASE Reads(c) \/ Uploads(c)
    BY <1>0, <2>6 DEF Kept, Reads, Uploads, Moves, LockInv
  <2>7. CASE Creates(c)
    BY <1>0, <2>7 DEF Kept, Creates, Moves, LockInv
  <2>8. CASE Retires(c)
    BY <1>0, <2>8 DEF Kept, Retires, Moves, LockInv
  <2> QED BY <1>1, <2>1, <2>2, <2>3, <2>4, <2>5, <2>6, <2>7, <2>8 DEF Footprint
<1> QED BY <1>1, Footprints

\* Who is beyond the gates has been at the same release, and it was publishable.
LEMMA BeyondGates ==
    ASSUME TypeOK, OpInv, LockInv, GateInv, Next
    PROVE  \A d \in Callers : op'[d].step \in {"gated", "uploading"} =>
              /\ op'[d].release = op[d].release /\ op[d].release \in Releases
              /\ record[op[d].release] # NoRecord /\ Publishable(record[op[d].release].gates)
<1>0. \A d \in Callers : op[d].step \in {"gated", "uploading"} =>
          Publishable(record[op[d].release].gates)
  BY DEF GateInv
<1>1. ASSUME NEW c \in Callers, Footprint(c), NEW d \in Callers,
             op'[d].step \in {"gated", "uploading"}
      PROVE  /\ op[d].step # "idle" /\ op'[d].release = op[d].release
             /\ Publishable(record[op[d].release].gates)
  <2>1. CASE Prepares(c) \/ Enters(c) \/ Empties(c)
    BY <1>0, <1>1, <2>1 DEF Prepares, Enters, Empties, Moves
  <2>2. CASE Builds(c) \/ Writes(c) \/ Packs(c)
    BY <1>0, <1>1, <2>2 DEF Builds, Writes, Packs, Moves
  <2>3. CASE Passes(c) \/ Reads(c) \/ Creates(c) \/ Uploads(c)
    BY <1>0, <1>1, <2>3 DEF Passes, Reads, Creates, Uploads, Moves
  <2>4. CASE Retires(c)
    BY <1>0, <1>1, <2>4 DEF Retires, Moves
  <2> QED BY <1>1, <2>1, <2>2, <2>3, <2>4 DEF Footprint
<1> QED BY <1>1, Footprints, Working

\* Every step keeps GateInv.
LEMMA GateStep ==
    ASSUME TypeOK, OpInv, LockInv, GateInv, Next
    PROVE  GateInv'
<1>0. contract' = contract
  BY DEF Next, settings
<1>1. \A q \in Releases : record[q] # NoRecord => Evolves(q)
          /\ record[q].gates \in [Gates -> GateStatuses]
  BY RecordStep DEF RecordsMove, TypeOK, Row
<1>2. "SIGNATURE_GATE" \in Gates /\ "PUBLICATION_GATE" \in Gates
  BY DEF Gates, ReleaseGates
<1>a. \A q \in Releases : record[q] = NoRecord /\ record'[q] # NoRecord =>
          record'[q].gates = InitialGates /\ record'[q].publication = "pending"
  BY RecordStep DEF RecordsMove
<1>3. ASSUME NEW r \in Releases, record'[r] # NoRecord, contract.signing
      PROVE  record'[r].gates["SIGNATURE_GATE"] = "pending"
  <2>1. CASE record[r] = NoRecord
    BY <1>3, <1>a, <2>1, SignatureGate
  <2>2. CASE record[r] # NoRecord
    <3>1. /\ record[r].gates["SIGNATURE_GATE"] = "pending"
          /\ record[r].gates \in [Gates -> GateStatuses] /\ Evolves(r)
      BY <1>1, <1>3, <2>2 DEF GateInv
    <3>2. PackagedGates(r, record[r].gates)["SIGNATURE_GATE"] = "pending"
      BY <1>3, <3>1, SignatureGate
    <3>3. /\ [record[r].gates EXCEPT !["VERIFY_GATE"] = "passed"]["SIGNATURE_GATE"] = "pending"
          /\ [record[r].gates EXCEPT !["DELIVERY_GATE"] = "pending"]["SIGNATURE_GATE"] = "pending"
          /\ [record[r].gates EXCEPT !["PUBLICATION_GATE"] = "not_required"]["SIGNATURE_GATE"]
                 = "pending"
          /\ [record[r].gates EXCEPT !["PUBLICATION_GATE"] = "passed"]["SIGNATURE_GATE"]
                 = "pending"
      BY <1>2, <3>1
    <3> QED BY <3>1, <3>2, <3>3 DEF Evolves
  <2> QED BY <2>1, <2>2
<1>4. ASSUME NEW r \in Releases, record[r] # NoRecord, Publishable(record[r].gates)
      PROVE  Publishable(record'[r].gates)
  <2>1. record[r].gates \in [Gates -> GateStatuses] /\ Evolves(r)
    BY <1>1, <1>4
  <2>2. ~contract.signing
    BY <1>4, <2>1, SignatureGate DEF GateInv
  <2>3. /\ Publishable(PackagedGates(r, record[r].gates))
        /\ Publishable([record[r].gates EXCEPT !["VERIFY_GATE"] = "passed"])
        /\ Publishable([record[r].gates EXCEPT !["PUBLICATION_GATE"] = "not_required"])
        /\ Publishable([record[r].gates EXCEPT !["PUBLICATION_GATE"] = "passed"])
        /\ Publishable([record[r].gates EXCEPT !["DELIVERY_GATE"] = "pending"])
    BY <1>4, <2>1, <2>2, GatesKeep
  <2> QED BY <1>4, <2>1, <2>3 DEF Evolves
<1>5. ASSUME NEW c \in Callers, op'[c].step \in {"gated", "uploading"}
      PROVE  Publishable(record'[op'[c].release].gates)
  BY <1>4, <1>5, BeyondGates
<1>6. ASSUME NEW r \in Releases, record'[r] # NoRecord, record'[r].publication = "published"
      PROVE  Publishable(record'[r].gates) /\ record'[r].gates["PUBLICATION_GATE"] = "passed"
  <2>1. record[r] # NoRecord
    BY <1>6, <1>a
  <2>2. record[r].gates \in [Gates -> GateStatuses] /\ Evolves(r)
    BY <1>1, <2>1
  <2>3. CASE record[r].publication = "published"
    <3>1. Publishable(record[r].gates) /\ record[r].gates["PUBLICATION_GATE"] = "passed"
      BY <2>1, <2>3 DEF GateInv, Published
    <3>2. PackagedGates(r, record[r].gates)["PUBLICATION_GATE"] = "passed"
      BY <2>2, <3>1, SignatureGate
    <3>3. record'[r].gates["PUBLICATION_GATE"] = "passed"
      BY <1>2, <1>6, <2>2, <3>1, <3>2 DEF Evolves
    <3> QED BY <1>4, <2>1, <3>1, <3>3
  <2>4. CASE record[r].publication # "published"
    <3>1. /\ record'[r].gates = [record[r].gates EXCEPT !["PUBLICATION_GATE"] = "passed"]
          /\ \E c \in Callers : PublishCommit(c) /\ op[c].release = r
      BY <1>6, <2>2, <2>4 DEF Evolves
    <3>2. Publishable(record[r].gates)
      BY <3>1 DEF GateInv, PublishCommit, At
    <3> QED BY <1>2, <1>4, <2>1, <2>2, <3>1, <3>2
  <2> QED BY <2>3, <2>4
<1> QED BY <1>0, <1>3, <1>5, <1>6 DEF GateInv, Published, Publishable
-----------------------------------------------------------------------------
(* Files and builds. *)

\* A build of the candidate that the record has after the step.
StillOf(r, b) == b <= builds' /\ record'[r] # NoRecord /\ source'[b] = record'[r].sha

\* A build of a candidate stays one.
LEMMA CandidatesStay ==
    ASSUME TypeOK, OpInv, LockInv, Next, NEW r \in Releases, NEW b \in Content, b # 0,
           OfCandidate(r, b)
    PROVE  StillOf(r, b)
<1>0. /\ SameRelease /\ source \in [1..BuildBound -> Shas \cup {NoSha}] /\ builds \in Content
      /\ BuildBound \in Nat
  BY RecordStep, DeliveryAssumption DEF RecordsMove, TypeOK
<1>1. ASSUME NEW c \in Callers, Footprint(c) PROVE b <= builds' /\ source'[b] = source[b]
  <2>1. CASE Builds(c)
    BY <1>0, <2>1 DEF Builds, OfCandidate, Content
  <2>2. CASE ~Builds(c)
    <3>1. builds' = builds /\ source' = source
      BY <1>1, <2>2 DEF Footprint, Prepares, Enters, Empties, Writes, Packs, Passes, Reads,
          Creates, Uploads, Retires
    <3> QED BY <3>1 DEF OfCandidate
  <2> QED BY <2>1, <2>2
<1>2. b <= builds' /\ source'[b] = source[b]
  BY <1>1, Footprints
<1> QED BY <1>0, <1>2 DEF OfCandidate, StillOf, SameRelease

\* The build that a packager starts is of the candidate.
LEMMA NewBuild ==
    ASSUME TypeOK, OpInv, LockInv, NEW c \in Callers, Builds(c)
    PROVE  StillOf(op[c].release, builds + 1) /\ builds + 1 # 0 /\ builds + 1 \in Content
<1>1. op[c].release \in Releases /\ record[op[c].release] # NoRecord
  BY Working DEF Builds
<1>2. /\ source \in [1..BuildBound -> Shas \cup {NoSha}] /\ builds \in 0..BuildBound
      /\ BuildBound \in Nat
  BY DeliveryAssumption DEF TypeOK, Content
<1>3. builds + 1 \in 1..BuildBound /\ builds + 1 # 0 /\ builds + 1 \in 0..BuildBound
  BY <1>2 DEF Builds
<1>4. source'[builds + 1] = record[op[c].release].sha /\ builds' = builds + 1 /\ record' = record
  BY <1>2, <1>3 DEF Builds
<1>5. op'[c].release = op[c].release /\ builds + 1 <= builds'
  BY <1>2, <1>4 DEF Builds, Moves
<1> QED BY <1>1, <1>3, <1>4, <1>5 DEF StillOf, Content

\* Every step keeps BuildInv.
LEMMA BuildStep ==
    ASSUME TypeOK, OpInv, LockInv, BuildInv, Next
    PROVE  BuildInv'
<1>0. /\ Assets' = Assets /\ \E c \in Callers : Footprint(c)
      /\ \A r \in Releases : \A a \in Assets : disk[r][a] \in Content
      /\ \A c \in Callers : \A a \in Assets : op[c].files[a] \in Content
      /\ \A c \in Callers : op[c].done \subseteq Assets
  BY Footprints DEF TypeOK, Files
<1>1. \A r \in Releases, b \in Content : b # 0 /\ OfCandidate(r, b) => StillOf(r, b)
  BY CandidatesStay
<1>2. ASSUME NEW c \in Callers, Footprint(c), NEW r \in Releases, NEW a \in Assets,
             disk'[r][a] # 0
      PROVE  disk'[r][a] \in Content /\ StillOf(r, disk'[r][a])
  <2>0. disk[r][a] # 0 => OfCandidate(r, disk[r][a])
    BY DEF BuildInv
  <2>1. CASE disk'[r][a] = disk[r][a]
    BY <1>0, <1>1, <1>2, <2>0, <2>1
  <2>2. CASE Empties(c)
    <3>1. disk'[r] = disk[r] \/ disk'[r] = NoFiles
      BY <2>2 DEF Empties, TypeOK
    <3> QED BY <1>2, <2>1, <3>1, FileTypes
  <2>3. CASE Writes(c)
    <3>1. /\ op[c].step = "writing" /\ op[c].release \in Releases
          /\ disk'[r][a] = disk[r][a] \/ (r = op[c].release /\ disk'[r][a] = op[c].files[a])
      BY <2>3, Working DEF Writes, OnDisk
    <3>2. op[c].files[a] # 0 /\ OfCandidate(op[c].release, op[c].files[a])
      BY <3>1 DEF BuildInv
    <3> QED BY <1>0, <1>1, <2>1, <3>1, <3>2
  <2>4. CASE disk' = disk
    BY <2>1, <2>4
  <2> QED BY <1>2, <2>2, <2>3, <2>4 DEF Footprint, Prepares, Enters, Builds, Packs, Passes, Reads,
      Creates, Uploads, Retires
<1>3. ASSUME NEW c \in Callers, Footprint(c), NEW d \in Callers
      PROVE  /\ op'[d].step \in {"writing", "gated", "uploading"} =>
                  \A a \in Assets : op'[d].files[a] # 0 =>
                      StillOf(op[d].release, op'[d].files[a])
             /\ op'[d].step = "asked" =>
                  op'[d].done = {} /\ \A a \in Assets : op'[d].files[a] = 0
             /\ op'[d].step \in {"writing", "uploading"} => \A a \in Assets : op'[d].files[a] # 0
             /\ op'[d].step = "gated" => \A a \in op'[d].done : op'[d].files[a] # 0
             /\ op'[d].step \in {"writing", "gated", "uploading"} =>
                  op'[d].release = op[d].release /\ op[d].release \in Releases
  <2> DEFINE Goal == /\ op'[d].step \in {"writing", "gated", "uploading"} =>
                          \A a \in Assets : op'[d].files[a] # 0 =>
                              StillOf(op[d].release, op'[d].files[a])
                     /\ op'[d].step = "asked" =>
                          op'[d].done = {} /\ \A a \in Assets : op'[d].files[a] = 0
                     /\ op'[d].step \in {"writing", "uploading"} =>
                          \A a \in Assets : op'[d].files[a] # 0
                     /\ op'[d].step = "gated" => \A a \in op'[d].done : op'[d].files[a] # 0
                     /\ op'[d].step \in {"writing", "gated", "uploading"} =>
                          op'[d].release = op[d].release /\ op[d].release \in Releases
  <2>0. /\ op[d].step \in {"writing", "gated", "uploading"} =>
             \A a \in Assets : op[d].files[a] # 0 => OfCandidate(op[d].release, op[d].files[a])
        /\ op[d].step = "asked" => op[d].done = {} /\ \A a \in Assets : op[d].files[a] = 0
        /\ op[d].step \in {"writing", "uploading"} => \A a \in Assets : op[d].files[a] # 0
        /\ op[d].step = "gated" => \A a \in op[d].done : op[d].files[a] # 0
        /\ op[d].step # "idle" => op[d].release \in Releases
    BY Working DEF BuildInv
  <2> SUFFICES Goal
    OBVIOUS
  <2>1. CASE op'[d] = op[d]
    BY <1>0, <1>1, <2>0, <2>1
  <2>2. CASE d = c /\ (Enters(c) \/ Empties(c) \/ Packs(c) \/ Retires(c))
    BY <2>2, FileTypes DEF Enters, Empties, Packs, Retires, Moves
  <2>3. CASE d = c /\ Builds(c)
    <3>1. /\ op[c].step = "building" /\ op'[c].step = "writing"
          /\ op'[c].release = op[c].release
          /\ \A a \in Assets : op'[c].files[a] = builds + 1
      BY <2>3 DEF Builds, Moves
    <3>2. StillOf(op[c].release, builds + 1) /\ builds + 1 # 0
      BY <2>3, NewBuild
    <3> QED BY <2>0, <2>3, <3>1, <3>2
  <2>4. CASE d = c /\ (Writes(c) \/ Uploads(c))
    <3>1. /\ op[c].step \in {"writing", "uploading"} /\ op'[c].step = op[c].step
          /\ op'[c].release = op[c].release /\ op'[c].files = op[c].files
      BY <2>4 DEF Writes, Uploads, Moves
    <3> QED BY <1>0, <1>1, <2>0, <2>4, <3>1
  <2>5. CASE d = c /\ Passes(c)
    <3>1. /\ op[c].step = "asked" /\ op'[c].step = "gated" /\ op'[c].done = op[c].done
          /\ op'[c].release = op[c].release /\ op'[c].files = op[c].files
      BY <2>5 DEF Passes, Moves
    <3> QED BY <1>0, <2>0, <2>5, <3>1
  <2>6. CASE d = c /\ Reads(c)
    <3>1. PICK a \in Assets, files \in Files :
            /\ op[c].step = "gated" /\ disk[op[c].release][a] # 0
            /\ files[a] = disk[op[c].release][a]
            /\ \A z \in Assets : z # a => files[z] = op[c].files[z]
            /\ op'[c].step = "gated" /\ op'[c].release = op[c].release
            /\ op'[c].files = files /\ op'[c].done = op[c].done \cup {a}
      BY <2>6 DEF Reads, Moves
    <3>2. OfCandidate(op[c].release, disk[op[c].release][a]) /\ op[c].release \in Releases
      BY <2>0, <2>6, <3>1 DEF BuildInv
    <3>3. \A z \in Assets : files[z] # 0 => StillOf(op[c].release, files[z])
      BY <1>0, <1>1, <2>0, <2>6, <3>1, <3>2
    <3>4. \A z \in op[c].done \cup {a} : files[z] # 0
      BY <1>0, <2>0, <2>6, <3>1
    <3> QED BY <2>0, <2>6, <3>1, <3>3, <3>4
  <2>7. CASE d = c /\ Creates(c)
    <3>1. /\ op[c].step = "gated" /\ op'[c].step = "uploading" /\ op[c].done = Assets
          /\ op'[c].release = op[c].release /\ op'[c].files = op[c].files
      BY <2>7 DEF Creates, Moves
    <3> QED BY <1>0, <1>1, <2>0, <2>7, <3>1
  <2>8. op'[d] = op[d] \/ d = c
    BY <1>3 DEF Footprint, Prepares, Enters, Empties, Builds, Writes, Packs, Passes, Reads,
        Creates, Uploads, Retires, Moves
  <2>9. Prepares(c) => op' = op
    BY DEF Prepares
  <2> HIDE DEF Goal
  <2> QED BY <1>3, <2>1, <2>2, <2>3, <2>4, <2>5, <2>6, <2>7, <2>8, <2>9 DEF Footprint
<1> QED BY <1>0, <1>2, <1>3 DEF BuildInv, OfCandidate, StillOf

\* Every step keeps RunInv: with a run, whoever writes or reads a directory
\* holds the lock, and nobody else can start.
LEMMA RunStep ==
    ASSUME TypeOK, OpInv, LockInv, BuildInv, RunInv, Next
    PROVE  RunInv'
<1> SUFFICES ASSUME runActive PROVE RunInv'
  BY Footprints DEF Kept, RunInv
<1>0. Assets' = Assets /\ \E c \in Callers : Footprint(c)
  BY Footprints
<1>a. /\ \A r \in Releases : OneBuild(disk[r])
      /\ \A d \in Callers :
            /\ op[d].step = "building" => \A a \in Assets : disk[op[d].release][a] = 0
            /\ op[d].step = "writing" =>
                  /\ \A a \in Assets : disk[op[d].release][a] \in {0, op[d].files[a]}
                  /\ \A a, b \in Assets : op[d].files[a] = op[d].files[b]
            /\ op[d].step = "gated" => \A a \in op[d].done : op[d].files[a] = disk[op[d].release][a]
            /\ op[d].step = "uploading" => \A a, b \in Assets : op[d].files[a] = op[d].files[b]
  BY DEF RunInv
<1>b. /\ \A d \in Callers : op[d].step \in {"building", "writing", "gated", "uploading"} => lock = d
      /\ \A d \in Callers : op[d].step # "idle" => op[d].release \in Releases
      /\ \A d \in Callers : op[d].done \subseteq Assets
      /\ Nobody \notin Callers
  BY Working, DeliveryAssumption DEF LockInv, TypeOK
<1>c. ASSUME NEW c \in Callers, Empties(c) \/ Builds(c) \/ Writes(c), NEW d \in Callers, d # c
      PROVE  op'[d] = op[d] /\ op[d].step \notin {"building", "writing", "gated", "uploading"}
  <2>1. lock \in {Nobody, c}
    BY <1>b, <1>c DEF Empties, EmitOpening, Free, Builds, Writes
  <2> QED BY <1>b, <1>c, <2>1 DEF Empties, Builds, Writes, Moves
<1> DEFINE Right(d) ==
      /\ op'[d].step = "building" => \A a \in Assets : disk'[op'[d].release][a] = 0
      /\ op'[d].step = "writing" =>
            /\ \A a \in Assets : disk'[op'[d].release][a] \in {0, op'[d].files[a]}
            /\ \A a, b \in Assets : op'[d].files[a] = op'[d].files[b]
      /\ op'[d].step = "gated" => \A a \in op'[d].done : op'[d].files[a] = disk'[op'[d].release][a]
      /\ op'[d].step = "uploading" => \A a, b \in Assets : op'[d].files[a] = op'[d].files[b]
<1> DEFINE Goal == (\A r \in Releases : OneBuild(disk'[r])) /\ \A d \in Callers : Right(d)
<1>1. ASSUME NEW c \in Callers, Empties(c) PROVE Goal
  <2>1. PICK r \in Releases : /\ op'[c].step = "building" /\ op'[c].release = r
                              /\ disk' = [disk EXCEPT ![r] = NoFiles]
    BY <1>1 DEF Empties, Moves
  <2>2. disk'[r] = NoFiles /\ \A q \in Releases : q # r => disk'[q] = disk[q]
    BY <2>1 DEF TypeOK
  <2>3. \A q \in Releases : OneBuild(disk'[q])
    BY <1>a, <2>2, FileTypes DEF OneBuild
  <2>4. \A d \in Callers : Right(d)
    BY <1>1, <1>c, <2>1, <2>2, FileTypes
  <2> QED BY <2>3, <2>4
<1>2. ASSUME NEW c \in Callers, Builds(c) PROVE Goal
  <2>1. /\ op[c].step = "building" /\ op'[c].step = "writing" /\ op'[c].release = op[c].release
        /\ disk' = disk /\ \A a \in Assets : op'[c].files[a] = builds + 1
    BY <1>2 DEF Builds, Moves
  <2>2. \A d \in Callers : Right(d)
    BY <1>2, <1>a, <1>c, <2>1
  <2> QED BY <1>a, <2>1, <2>2
<1>3. ASSUME NEW c \in Callers, Writes(c) PROVE Goal
  <2>1. PICK a \in Assets :
          /\ op[c].step = "writing" /\ op'[c].step = "writing"
          /\ op'[c].release = op[c].release /\ op'[c].files = op[c].files
          /\ disk'[op[c].release][a] = op[c].files[a]
          /\ \A z \in Assets : z # a => disk'[op[c].release][z] = disk[op[c].release][z]
          /\ \A q \in Releases : q # op[c].release => disk'[q] = disk[q]
    BY <1>3 DEF Writes, Moves, OnDisk
  <2>2. \A z \in Assets : disk'[op[c].release][z] \in {0, op[c].files[z]}
    BY <1>a, <2>1
  <2>3. OneBuild(disk'[op[c].release])
    BY <1>a, <2>1, <2>2 DEF OneBuild
  <2>4. \A q \in Releases : OneBuild(disk'[q])
    BY <1>a, <2>1, <2>3
  <2>5. \A d \in Callers : Right(d)
    BY <1>3, <1>a, <1>c, <2>1, <2>2
  <2> QED BY <2>4, <2>5
<1>4. ASSUME NEW c \in Callers, Enters(c) \/ Packs(c) \/ Retires(c) \/ Prepares(c) PROVE Goal
  <2>1. /\ disk' = disk
        /\ \A d \in Callers : op'[d] = op[d]
              \/ op'[d].step \notin {"building", "writing", "gated", "uploading"}
    BY <1>4 DEF Enters, Packs, Retires, Prepares, Moves
  <2>2. \A d \in Callers : Right(d)
    BY <1>a, <2>1
  <2> QED BY <1>a, <2>1, <2>2
<1>5. ASSUME NEW c \in Callers, Passes(c) PROVE Goal
  <2>1. /\ disk' = disk /\ op[c].step = "asked" /\ op'[c].step = "gated"
        /\ op'[c].done = op[c].done
        /\ \A d \in Callers : d # c => op'[d] = op[d]
    BY <1>5 DEF Passes, Moves
  <2>2. op'[c].done = {}
    BY <2>1 DEF BuildInv
  <2>3. \A d \in Callers : Right(d)
    BY <1>a, <2>1, <2>2
  <2> QED BY <1>a, <2>1, <2>3
<1>6. ASSUME NEW c \in Callers, Reads(c) PROVE Goal
  <2>1. PICK a \in Assets, files \in Files :
          /\ op[c].step = "gated" /\ files[a] = disk[op[c].release][a] /\ disk' = disk
          /\ \A z \in Assets : z # a => files[z] = op[c].files[z]
          /\ op'[c].step = "gated" /\ op'[c].release = op[c].release
          /\ op'[c].files = files /\ op'[c].done = op[c].done \cup {a}
          /\ \A d \in Callers : d # c => op'[d] = op[d]
    BY <1>6 DEF Reads, Moves
  <2>2. \A z \in op'[c].done : files[z] = disk[op[c].release][z]
    BY <1>a, <1>b, <2>1
  <2>3. \A d \in Callers : Right(d)
    BY <1>a, <2>1, <2>2
  <2> QED BY <1>a, <2>1, <2>3
<1>7. ASSUME NEW c \in Callers, Creates(c) PROVE Goal
  <2>1. /\ op[c].step = "gated" /\ op[c].done = Assets /\ disk' = disk
        /\ op'[c].step = "uploading" /\ op'[c].files = op[c].files
        /\ \A d \in Callers : d # c => op'[d] = op[d]
    BY <1>7 DEF Creates, Moves
  <2>2. \A a \in Assets : op[c].files[a] = disk[op[c].release][a] /\ op[c].files[a] # 0
    BY <1>a, <2>1 DEF BuildInv
  <2>3. \A a, b \in Assets : op[c].files[a] = op[c].files[b]
    BY <1>a, <1>b, <2>1, <2>2 DEF OneBuild
  <2>4. \A d \in Callers : Right(d)
    BY <1>a, <2>1, <2>3
  <2> QED BY <1>a, <2>1, <2>4
<1>8. ASSUME NEW c \in Callers, Uploads(c) PROVE Goal
  <2>1. /\ op[c].step = "uploading" /\ disk' = disk
        /\ op'[c].step = "uploading" /\ op'[c].files = op[c].files
        /\ \A d \in Callers : d # c => op'[d] = op[d]
    BY <1>8 DEF Uploads, Moves
  <2>2. \A d \in Callers : Right(d)
    BY <1>a, <2>1
  <2> QED BY <1>a, <2>1, <2>2
<1>9. Goal
  <2> HIDE DEF Goal
  <2> QED BY <1>0, <1>1, <1>2, <1>3, <1>4, <1>5, <1>6, <1>7, <1>8 DEF Footprint
<1> QED BY <1>0, <1>9 DEF RunInv, OneBuild
-----------------------------------------------------------------------------
(* Publications. *)

\* Two actions reach GitHub.
LEMMA GithubSteps ==
    ASSUME TypeOK, OpInv, LockInv, Next
    PROVE  \/ github' = github
           \/ \E d \in Callers : CreateRelease(d)
           \/ \E d \in Callers, z \in Assets : UploadAsset(d, z)
<1>1. \E c \in Callers : Footprint(c)
  BY Footprints
<1> QED BY <1>1 DEF Footprint, Prepares, Enters, Empties, Builds, Writes, Packs, Passes, Reads,
    Creates, Uploads, Retires

\* An upload begins with the release on GitHub, and while it lasts nobody else
\* writes a record or reaches GitHub.
LEMMA UploaderAlone ==
    ASSUME TypeOK, OpInv, LockInv, Next, NEW d \in Callers
    PROVE  /\ op'[d].step = "uploading" => op[d].step = "uploading" \/ Creates(d)
           /\ op[d].step = "uploading" =>
                \/ /\ record' = record /\ github' = github
                   /\ op'[d] = op[d] \/ op'[d].step # "uploading"
                \/ Uploads(d)
                \/ PublishCommit(d)
<1>0. Nobody \notin Callers /\ (op[d].step = "uploading" => lock = d)
  BY DeliveryAssumption DEF LockInv
<1> DEFINE Goal == /\ op'[d].step = "uploading" => op[d].step = "uploading" \/ Creates(d)
                   /\ op[d].step = "uploading" =>
                        \/ /\ record' = record /\ github' = github
                           /\ op'[d] = op[d] \/ op'[d].step # "uploading"
                        \/ Uploads(d)
                        \/ PublishCommit(d)
<1>1. ASSUME NEW c \in Callers, Prepares(c) \/ Enters(c) \/ Empties(c) PROVE Goal
  BY <1>0, <1>1 DEF Prepares, Enters, Empties, Moves
<1>2. ASSUME NEW c \in Callers, Builds(c) \/ Writes(c) \/ Packs(c) PROVE Goal
  BY <1>0, <1>2 DEF Builds, Writes, Packs, Moves
<1>3. ASSUME NEW c \in Callers, Passes(c) \/ Reads(c) PROVE Goal
  BY <1>0, <1>3 DEF Passes, Reads, Moves
<1>4. ASSUME NEW c \in Callers, Creates(c) PROVE Goal
  <2>1. op[c].step = "gated" /\ lock \in {Nobody, c}
    BY <1>4 DEF Creates
  <2>2. c # d => op'[d] = op[d]
    BY <1>4 DEF Creates, Moves
  <2> QED BY <1>0, <1>4, <2>1, <2>2
<1>5. ASSUME NEW c \in Callers, Uploads(c) PROVE Goal
  <2>1. op[c].step = "uploading" /\ lock = c
    BY <1>5 DEF Uploads, LockInv
  <2>2. c # d => op'[d] = op[d]
    BY <1>5 DEF Uploads, Moves
  <2> QED BY <1>0, <1>5, <2>1, <2>2
<1>6. ASSUME NEW c \in Callers, Retires(c) PROVE Goal
  <2>1. /\ github' = github /\ op'[c].step # "uploading"
        /\ c # d => op'[d] = op[d]
        /\ record' = record \/ lock \in {Nobody, c}
        /\ c = d /\ op[d].step = "uploading" => record' = record \/ PublishCommit(d)
    BY <1>6 DEF Retires, Moves
  <2> QED BY <1>0, <2>1
<1>7. Goal
  <2> HIDE DEF Goal
  <2> QED BY <1>1, <1>2, <1>3, <1>4, <1>5, <1>6, Footprints DEF Footprint
<1> QED BY <1>7

\* Every step keeps UploadInv.
LEMMA UploadStep ==
    ASSUME TypeOK, OpInv, LockInv, UploadInv, PublishedInv, Next
    PROVE  UploadInv'
<1>1. ASSUME NEW d \in Callers, op'[d].step = "uploading"
      PROVE  /\ github'[Version(d)'].commit # NoSha
             /\ \A a \in op'[d].done : github'[Version(d)'].assets[a] = op'[d].files[a]
             /\ "package" \in op'[d].done =>
                   \A r \in Releases : Published(r)' => record'[r].version # Version(d)'
  <2>1. CASE Creates(d)
    <3>1. /\ Moves(d, "uploading", op[d].release, op[d].files, {}) /\ record' = record
          /\ CreateRelease(d) /\ op[d].step = "gated"
      BY <2>1 DEF Creates
    <3>2. Version(d)' = Version(d)
      BY <3>1 DEF Version, Moves
    <3>3. github'[Version(d)].commit # NoSha
      BY <3>1, OnGithub, Working, DeliveryAssumption DEF GithubMoves
    <3> QED BY <3>1, <3>2, <3>3 DEF Moves
  <2>2. CASE op[d].step = "uploading"
    <3>0. /\ github[Version(d)].commit # NoSha
          /\ \A a \in op[d].done : github[Version(d)].assets[a] = op[d].files[a]
          /\ "package" \in op[d].done =>
                \A r \in Releases : Published(r) => record[r].version # Version(d)
      BY <2>2 DEF UploadInv
    <3>1. CASE record' = record /\ github' = github /\ op'[d] = op[d]
      BY <3>0, <3>1 DEF Version, Published
    <3>2. CASE Uploads(d)
      <4>1. PICK a \in Assets :
              /\ UploadAsset(d, a) /\ record' = record
              /\ Moves(d, "uploading", op[d].release, op[d].files, op[d].done \cup {a})
        BY <3>2 DEF Uploads
      <4>2. /\ op[d].done \subseteq Assets /\ a \notin op[d].done
                   /\ (a = "sbom" => "package" \in op[d].done)
        BY <4>1 DEF UploadAsset, NextFile, TypeOK
      <4>3. /\ github[Version(d)].assets[a] = 0
            /\ github'[Version(d)].commit = github[Version(d)].commit
            /\ github'[Version(d)].assets[a] = op[d].files[a]
            /\ \A z \in Assets : z # a
                   => github'[Version(d)].assets[z] = github[Version(d)].assets[z]
        BY <4>1, OnGithub DEF GithubMoves
      <4>4. Version(d)' = Version(d)
        BY <4>1 DEF Version, Moves
      <4>5. a = "package" \/ a = "sbom"
        BY DEF Assets
      <4>6. ASSUME NEW r \in Releases, Published(r), record[r].version = Version(d),
                   a = "package" PROVE FALSE
        BY <4>3, <4>6 DEF PublishedInv
      <4>7. op'[d].done = op[d].done \cup {a} /\ op'[d].files = op[d].files
        BY <4>1 DEF Moves
      <4>8. \A z \in op'[d].done : github'[Version(d)].assets[z] = op[d].files[z]
        BY <3>0, <4>2, <4>3, <4>7
      <4>9. \A r \in Releases : Published(r)' <=> Published(r)
        BY <4>1 DEF Published
      <4> QED BY <3>0, <4>1, <4>2, <4>3, <4>4, <4>5, <4>6, <4>7, <4>8, <4>9
    <3>3. CASE PublishCommit(d)
      <4>1. op'[d].step # "uploading"
        BY <3>3, FootprintOf, UploaderAlone, StepWritten, BeginsAndEnds
            DEF PublishCommit, AfterPublication, Steps, Moves
      <4> QED BY <1>1, <4>1
    <3> QED BY <1>1, <2>2, <3>1, <3>2, <3>3, UploaderAlone
  <2> QED BY <1>1, <2>1, <2>2, UploaderAlone
<1> QED BY <1>1 DEF UploadInv

\* What a published tag holds stays there, whoever works on GitHub.
LEMMA PublishedTagStays ==
    ASSUME TypeOK, OpInv, LockInv, PublishedInv, Next, NEW r \in Releases, Published(r)
    PROVE  /\ github'[record[r].version].commit # NoSha
           /\ \A a \in Assets :
                  github'[record[r].version].assets[a] = github[record[r].version].assets[a]
<1>1. /\ github[record[r].version].commit # NoSha /\ record[r].version \in Versions
      /\ \A a \in Assets : github[record[r].version].assets[a] # 0
  BY RecordAssumption DEF PublishedInv, Published, TypeOK, Row
<1>2. ASSUME NEW c \in Callers, CreateRelease(c)
      PROVE  github'[record[r].version] = github[record[r].version]
  <2>1. op[c].step # "idle"
    BY <1>2 DEF CreateRelease, At
  <2>2. \/ github' = github /\ github[Version(c)].commit # NoSha
        \/ /\ github[Version(c)].commit = NoSha
           /\ \A w \in Versions : w # Version(c) => github'[w] = github[w]
    BY <1>2, OnGithub DEF GithubMoves
  <2> QED BY <1>1, <2>2
<1>3. ASSUME NEW c \in Callers, NEW a \in Assets, UploadAsset(c, a)
      PROVE  github'[record[r].version] = github[record[r].version]
  <2>1. /\ github[Version(c)].assets[a] = 0
        /\ \A w \in Versions : w # Version(c) => github'[w] = github[w]
    BY <1>3, OnGithub DEF GithubMoves
  <2> QED BY <1>1, <2>1
<1> QED BY <1>1, <1>2, <1>3, GithubSteps

\* Every step keeps PublishedInv.
LEMMA PublishedStep ==
    ASSUME TypeOK, OpInv, LockInv, BuildInv, RunInv, UploadInv, PublishedInv, Next
    PROVE  PublishedInv'
<1>0. /\ Assets' = Assets /\ SameRelease /\ runActive' = runActive
      /\ \A v \in Versions : \A a \in Assets : github[v].assets[a] \in Content
      /\ \A c \in Callers : \A a \in Assets : op[c].files[a] \in Content
  BY Footprints, RecordStep DEF Kept, RecordsMove, TypeOK, Files
<1>1. ASSUME NEW r \in Releases, Published(r)'
      PROVE  Published(r) \/ \E c \in Callers : PublishCommit(c) /\ op[c].release = r
  <2>1. record[r] # NoRecord
    BY <1>1, RecordStep DEF RecordsMove, Published
  <2>2. Evolves(r) /\ record'[r].publication = "published"
    BY <1>1, <2>1, RecordStep DEF RecordsMove, Published
  <2> QED BY <2>1, <2>2 DEF Evolves, Published
<1>2. ASSUME NEW c \in Callers, PublishCommit(c)
      PROVE  /\ op[c].release \in Releases /\ record[op[c].release] # NoRecord /\ github' = github
             /\ github[Version(c)].commit # NoSha
             /\ \A a \in Assets : /\ github[Version(c)].assets[a] = op[c].files[a]
                                  /\ op[c].files[a] # 0
                                  /\ OfCandidate(op[c].release, op[c].files[a])
             /\ runActive => \A a, b \in Assets : op[c].files[a] = op[c].files[b]
             /\ \A r \in Releases : Published(r) => record[r].version # Version(c)
  <2>1. op[c].step = "uploading" /\ op[c].done = Assets /\ github' = github
    BY <1>2 DEF PublishCommit, At, AllSent
  <2>2. "package" \in Assets
    BY DEF Assets
  <2>3. \A a \in Assets : op[c].files[a] # 0 /\ OfCandidate(op[c].release, op[c].files[a])
    BY <2>1 DEF BuildInv
  <2>4. runActive => \A a, b \in Assets : op[c].files[a] = op[c].files[b]
    BY <2>1 DEF RunInv
  <2>5. op[c].release \in Releases /\ record[op[c].release] # NoRecord
    BY <2>1 DEF OpInv
  <2> QED BY <2>1, <2>2, <2>3, <2>4, <2>5 DEF UploadInv
<1>3. ASSUME NEW r \in Releases, Published(r)'
      PROVE  /\ github'[record'[r].version].commit # NoSha
             /\ \A a \in Assets : /\ github'[record'[r].version].assets[a] # 0
                                  /\ StillOf(r, github'[record'[r].version].assets[a])
             /\ runActive => \A a, b \in Assets : github'[record'[r].version].assets[a]
                                                   = github'[record'[r].version].assets[b]
  <2>1. CASE Published(r)
    <3>1. record'[r].version = record[r].version /\ record[r].version \in Versions
      BY <1>0, <2>1, RecordAssumption DEF SameRelease, Published, TypeOK, Row
    <3>2. /\ \A a \in Assets : /\ github[record[r].version].assets[a] # 0
                               /\ OfCandidate(r, github[record[r].version].assets[a])
          /\ runActive => \A a, b \in Assets : github[record[r].version].assets[a]
                                                = github[record[r].version].assets[b]
      BY <2>1 DEF PublishedInv
    <3>3. \A a \in Assets : StillOf(r, github'[record'[r].version].assets[a])
      <4> TAKE a \in Assets
      <4>1. PICK b \in Content : b = github[record[r].version].assets[a]
        BY <1>0, <3>1
      <4>2. StillOf(r, b)
        BY <3>2, <4>1, CandidatesStay
      <4>3. github'[record'[r].version].assets[a] = b
        BY <2>1, <3>1, <4>1, PublishedTagStays
      <4> QED BY <4>2, <4>3
    <3>4. /\ github'[record[r].version].commit # NoSha
          /\ \A a \in Assets :
                 github'[record[r].version].assets[a] = github[record[r].version].assets[a]
      BY <2>1, PublishedTagStays
    <3> QED BY <3>1, <3>2, <3>3, <3>4
  <2>2. ASSUME NEW c \in Callers, PublishCommit(c), op[c].release = r
        PROVE  /\ github'[record'[r].version].commit # NoSha
               /\ \A a \in Assets : /\ github'[record'[r].version].assets[a] # 0
                                    /\ StillOf(r, github'[record'[r].version].assets[a])
               /\ runActive => \A a, b \in Assets : github'[record'[r].version].assets[a]
                                                     = github'[record'[r].version].assets[b]
    <3>1. record'[r].version = record[r].version /\ Version(c) = record[r].version
      BY <1>0, <1>2, <2>2 DEF SameRelease, Version
    <3>2. \A a \in Assets : github'[record'[r].version].assets[a] = op[c].files[a]
      BY <1>2, <2>2, <3>1
    <3>3. ASSUME NEW a \in Assets PROVE StillOf(r, github'[record'[r].version].assets[a])
      <4>1. PICK b \in Content : b = op[c].files[a]
        BY <1>0
      <4>2. StillOf(r, b)
        BY <1>2, <2>2, <4>1, CandidatesStay
      <4>3. github'[record'[r].version].assets[a] = b
        BY <3>2, <4>1
      <4> QED BY <4>2, <4>3
    <3> QED BY <1>2, <2>2, <3>1, <3>2, <3>3
  <2> QED BY <1>1, <1>3, <2>1, <2>2
<1>4. ASSUME NEW q \in Releases, NEW r \in Releases, Published(q)', Published(r)',
             record'[q].version = record'[r].version
      PROVE  q = r
  <2>1. CASE Published(q) /\ Published(r)
    BY <1>0, <1>4, <2>1 DEF PublishedInv, OneReleasePerTag, SameRelease, Published
  <2>2. \A c \in Callers : PublishCommit(c) =>
            \A p \in Releases : Published(p)
                => record'[p].version # record'[op[c].release].version
    BY <1>0, <1>2 DEF SameRelease, Published, Version
  <2>3. \A c, d \in Callers : PublishCommit(c) /\ PublishCommit(d) => c = d
    BY DEF PublishCommit, At, LockInv
  <2> QED BY <1>1, <1>4, <2>1, <2>2, <2>3
<1> QED BY <1>0, <1>3, <1>4 DEF PublishedInv, OfCandidate, StillOf, OneReleasePerTag, Published

\* Every step keeps TagInv.
LEMMA TagStep ==
    ASSUME TypeOK, OpInv, LockInv, TagInv, Next
    PROVE  TagInv'
<1>0. SameRelease
  BY RecordStep DEF RecordsMove
<1>1. ASSUME NEW v \in Versions, github'[v].commit # NoSha
      PROVE  \E r \in Releases : record[r] # NoRecord /\ record[r].version = v
                 /\ record[r].sha = github'[v].commit
  <2>1. CASE github' = github
    BY <1>1, <2>1 DEF TagInv
  <2>2. ASSUME NEW c \in Callers, CreateRelease(c)
        PROVE  \E r \in Releases : record[r] # NoRecord /\ record[r].version = v
                   /\ record[r].sha = github'[v].commit
    <3>1. op[c].step # "idle"
      BY <2>2 DEF CreateRelease, At
    <3>2. /\ op[c].release \in Releases /\ record[op[c].release] # NoRecord
          /\ Version(c) = record[op[c].release].version
      BY <3>1, Working DEF Version
    <3>3. \/ github' = github
          \/ /\ github'[Version(c)].commit = record[op[c].release].sha
             /\ \A w \in Versions : w # Version(c) => github'[w] = github[w]
      BY <2>2, OnGithub DEF GithubMoves
    <3> QED BY <1>1, <2>1, <3>2, <3>3 DEF TagInv
  <2>3. ASSUME NEW c \in Callers, NEW a \in Assets, UploadAsset(c, a)
        PROVE  \E r \in Releases : record[r] # NoRecord /\ record[r].version = v
                   /\ record[r].sha = github'[v].commit
    <3>1. /\ github'[Version(c)].commit = github[Version(c)].commit
          /\ \A w \in Versions : w # Version(c) => github'[w] = github[w]
      BY <2>3, OnGithub DEF GithubMoves
    <3> QED BY <1>1, <3>1 DEF TagInv
  <2> QED BY <2>1, <2>2, <2>3, GithubSteps
<1> QED BY <1>0, <1>1 DEF TagInv, SameRelease
-----------------------------------------------------------------------------
\* The inductive invariant.
IInv == /\ TypeOK /\ OpInv /\ LockInv /\ BuildInv /\ RunInv
        /\ GateInv /\ UploadInv /\ PublishedInv /\ TagInv

\* The invariant holds at first.
LEMMA InitInv == Init => IInv
<1> SUFFICES ASSUME Init PROVE IInv
  OBVIOUS
<1> USE DEF Init
<1>1. /\ \A c \in Callers : op[c] = NoOp
      /\ \A r \in Releases : record[r] = NoRecord /\ disk[r] = NoFiles
      /\ \A v \in Versions : github[v].commit = NoSha
  BY DEF NoRelease
<1>2. NoOp.step = "idle" /\ NoOp \in OpType
  BY FileTypes DEF NoOp, OpType, Steps
<1>3. NoRelease \in GithubType
  BY FileTypes DEF NoRelease, GithubType
<1>4. TypeOK
  BY <1>2, <1>3, FileTypes, Types, DeliveryAssumption DEF LoadContract, Content
<1>5. OpInv /\ LockInv /\ GateInv /\ UploadInv /\ TagInv
  BY <1>1, <1>2 DEF OpInv, LockInv, GateInv, UploadInv, TagInv, Published
<1>6. BuildInv /\ RunInv
  BY <1>1, <1>2, FileTypes DEF BuildInv, RunInv, OneBuild
<1>7. PublishedInv
  BY <1>1 DEF PublishedInv, OneReleasePerTag, Published
<1> QED BY <1>4, <1>5, <1>6, <1>7 DEF IInv

\* A stuttering step keeps the invariant.
LEMMA Stutter == IInv /\ UNCHANGED vars => IInv'
<1> SUFFICES ASSUME IInv, UNCHANGED vars PROVE IInv'
  OBVIOUS
<1> USE DEF vars, settings
<1>1. TypeOK'
  BY DEF IInv, TypeOK, Assets, Files
<1>2. OpInv' /\ LockInv' /\ TagInv'
  BY DEF IInv, OpInv, LockInv, TagInv
<1>3. BuildInv' /\ RunInv'
  BY DEF IInv, BuildInv, RunInv, OneBuild, OfCandidate, Assets
<1>4. GateInv'
  BY DEF IInv, GateInv, Published, Publishable
<1>5. UploadInv' /\ PublishedInv'
  BY DEF IInv, UploadInv, PublishedInv, OneReleasePerTag, OfCandidate, Published, Version, Assets
<1> QED BY <1>1, <1>2, <1>3, <1>4, <1>5 DEF IInv

\* The delivery pipeline's inductive invariant holds in every state.
THEOREM DeliveryInvariant == Spec => []IInv
<1>1. ASSUME IInv, Next PROVE IInv'
  <2>1. TypeOK' /\ OpInv' /\ LockInv'
    BY <1>1, TypeStep, OpStep, LockStep DEF IInv
  <2>2. BuildInv' /\ RunInv' /\ GateInv'
    BY <1>1, BuildStep, RunStep, GateStep DEF IInv
  <2>3. UploadInv' /\ PublishedInv' /\ TagInv'
    BY <1>1, UploadStep, PublishedStep, TagStep DEF IInv
  <2> QED BY <2>1, <2>2, <2>3 DEF IInv
<1>2. IInv /\ [Next]_vars => IInv'
  BY <1>1, Stutter
<1> QED BY <1>2, InitInv, PTL DEF Spec

\* The variables keep their types.
THEOREM DeliveryTypes == Spec => []TypeOK
<1>1. IInv => TypeOK
  BY DEF IInv
<1> QED BY <1>1, DeliveryInvariant, PTL

\* What publish_release records as published is on GitHub in full.
THEOREM PublishedInFull == Spec => []PublishedIsComplete
<1>1. IInv => PublishedIsComplete
  BY DEF IInv, PublishedInv, PublishedIsComplete
<1> QED BY <1>1, DeliveryInvariant, PTL

\* Two releases are never both published under one tag.
THEOREM TagsAreNotShared == Spec => []OneReleasePerTag
<1>1. IInv => OneReleasePerTag
  BY DEF IInv, PublishedInv
<1> QED BY <1>1, DeliveryInvariant, PTL

\* The assets of a published release are of its candidate and, with an active
\* run, of one build: the write lock that the opening event takes keeps
\* packaging and publishing apart while files are written and read one by one.
THEOREM AssetsFromOneBuild == Spec => []AssetsOfOneBuild
<1>1. IInv => AssetsOfOneBuild
  BY DEF IInv, PublishedInv, AssetsOfOneBuild, OfCandidate
<1> QED BY <1>1, DeliveryInvariant, PTL

\* A published tag that one record names is at the candidate of that record.
THEOREM TagIsAtCandidate == Spec => []TagAtCandidate
<1>1. ASSUME IInv PROVE TagAtCandidate
  <2>1. \A r \in Releases : Published(r) =>
            github[record[r].version].commit # NoSha /\ record[r].version \in Versions
    BY <1>1, RecordAssumption DEF IInv, PublishedInv, Published, TypeOK, Row
  <2> QED BY <1>1, <2>1 DEF IInv, TagInv, TagAtCandidate
<1> QED BY <1>1, DeliveryInvariant, PTL

\* A published release has passed every gate but the announcement, and packaging
\* or verifying it again opens none of them.
THEOREM GatesStay == Spec => []GatesStayPassed
<1>1. ASSUME IInv PROVE GatesStayPassed
  <2>1. ASSUME NEW r \in Releases, Published(r)
        PROVE  /\ record[r].gates["VERIFY_GATE"] = "passed"
               /\ BlockingGates(record[r].gates) \subseteq {"DELIVERY_GATE"}
    BY <1>1, <2>1 DEF IInv, GateInv, Publishable, BlockingGates
  <2> QED BY <2>1 DEF GatesStayPassed
<1> QED BY <1>1, DeliveryInvariant, PTL
=============================================================================
