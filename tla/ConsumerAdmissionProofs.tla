------------------------ MODULE ConsumerAdmissionProofs -------------------------
(* What an admission promises, for any set of archives and any number of       *)
(* builds, uploads, attempts, seconds and changes on GitHub's side.            *)
EXTENDS ConsumerAdmission, TLAPS

\* The script has passed the checks before the place it is in.
PastRun      == Places \ {"release", "tag", "run", "refused", "failed"}
PastJobs     == PastRun \ {"jobs"}
PastListing  == PastJobs \ {"artifacts"}
PastEvidence == PastListing \ {"evidence"}
PastTable    == PastEvidence \ {"table"}
PastArchives == PastTable \ {"archives"}
PastProof    == PastArchives \ {"proof"}

\* A later attempt has done nothing, and a waiting job has not reported; a job
\* that runs, and one that reported, ran in the attempt that lists it; a
\* successful attempt had a successful job.
AttemptsAreOrderly ==
    \A a \in Attempts :
        /\ a > attempt => conclusion[a] = "none" /\ artifact[a].state = "none"
        /\ job[a].state = "waiting" => artifact[a].state = "none"
        /\ job[a].state = "running" \/ artifact[a].state # "none" => job[a].ranIn = a
        /\ conclusion[a] = "success" => job[a].state = "success"

\* What was read of an attempt that had succeeded is still so, and the report
\* that was admitted is that attempt's own.
EvidenceStands ==
    /\ pc \in PastRun =>
           /\ run.attempt \in Attempts
           /\ run.conclusion = "success" => conclusion[run.attempt] = "success"
    /\ pc \in PastJobs => run.conclusion = "success"
    /\ pc \in PastListing => evidence \in Attempts /\ artifact[evidence].state # "none"
    /\ pc \in PastEvidence =>
           /\ evidence = run.attempt
           /\ artifact[evidence].complete /\ digests = job[evidence].booted

\* An archive of the release as it was read is the booted one, is in the table
\* that was read, and is signed and attested.
ArchiveStands(n) == ArchiveMatches(n) /\ verify_signed(n)

DownloadsStand ==
    /\ pc \in PastTable => \A n \in Archives :
           (pc = "archives" /\ n \in left) \/ ArchiveStands(n)
    /\ pc \in PastProof =>
           verify_blob(Proof) /\ release.asset[Proof]["file"] = digests[Runtime]
    /\ pc = "admitted" => SameAsVerified

AdmissionInv == TypeOK /\ AttemptsAreOrderly /\ EvidenceStands /\ DownloadsStand

-----------------------------------------------------------------------------
\* Every event on GitHub's side keeps the types of what GitHub has.
LEMMA GithubTypes ==
    ASSUME TypeOK, Github, UNCHANGED <<pc, readVars, left, installed>>
    PROVE  TypeOK'
<1> USE AdmissionAssumption
    DEF TypeOK, Clock, Counts, readVars, Times, Attempts
<1>1. CASE Publishes
  BY <1>1 DEF Publishes
<1>2. CASE Withdraws \/ MovesTag
  <2>1. CASE Withdraws
    BY <2>1 DEF Withdraws
  <2>2. CASE MovesTag
    <3>1. tagged' \in BOOLEAN
      BY <2>2, Zenon DEF MovesTag
    <3>2. changes' \in 0..MaxChanges
      BY <2>2 DEF MovesTag
    <3>3. QED
      BY <2>2, <3>1, <3>2 DEF MovesTag
  <2>3. QED
    BY <1>2, <2>1, <2>2
<1>3. ASSUME NEW u \in Uploads, NEW b \in Builds, UploadsAssets(u, b) PROVE TypeOK'
  BY <1>3 DEF UploadsAssets, Assets, Builds
<1>4. CASE JobStarts
  <2>1. [n \in Archives |-> asset[n]["file"]] \in Digests
    BY DEF Assets, Digests, Files, Parts
  <2>2. now' \in Times /\ 0 \in Times /\ attempt \in 0..MaxAttempt
    BY <1>4 DEF JobStarts
  <2>3. QED
    BY <1>4, <2>1, <2>2 DEF JobStarts, Jobs
<1>5. ASSUME NEW complete \in BOOLEAN, JobReports(complete) PROVE TypeOK'
  BY <1>5 DEF JobReports, Artifacts
<1>6. ASSUME NEW result \in {"success", "failure"}, JobEnds(result) PROVE TypeOK'
  BY <1>6 DEF JobEnds, Jobs
<1>7. ASSUME NEW result \in {"success", "failure"}, RunEnds(result) PROVE TypeOK'
  BY <1>7 DEF RunEnds
<1>8. ASSUME NEW all \in BOOLEAN, Reruns(all) PROVE TypeOK'
  <2>1. WaitingJob \in Jobs
    BY DEF WaitingJob, Jobs, NoDigests, Digests
  <2>2. QED
    BY <1>8, <2>1 DEF Reruns
<1>9. ASSUME NEW a \in Attempts, Expires(a) PROVE TypeOK'
  <2>1. [artifact[a] EXCEPT !.state = "expired"] \in Artifacts
    BY DEF Artifacts
  <2>2. artifact' = [artifact EXCEPT ![a] = [artifact[a] EXCEPT !.state = "expired"]]
    BY <1>9 DEF Expires
  <2>3. QED
    BY <1>9, <2>1, <2>2 DEF Expires
<1>10. QED
  BY <1>1, <1>2, <1>3, <1>4, <1>5, <1>6, <1>7, <1>8, <1>9 DEF Github

\* Every request keeps the types of what the script holds.
LEMMA VerifierTypes ==
    ASSUME TypeOK, EvidenceStands, Verifier \/ Fails
    PROVE  TypeOK'
<1> USE AdmissionAssumption DEF TypeOK, githubVars, readVars, Places, Step
<1>1. CASE ReadsRelease \/ ResolvesTag
  BY <1>1 DEF ReadsRelease, ResolvesTag
<1>2. CASE ReadsRun
  BY <1>2 DEF ReadsRun, Attempts
<1>3. CASE ReadsJobs
  <2>1. run.attempt \in Attempts
    BY <1>3 DEF ReadsJobs, EvidenceStands, PastRun
  <2>2. QED
    BY <1>3, <2>1 DEF ReadsJobs
<1>4. CASE ListsArtifacts
  BY <1>4 DEF ListsArtifacts, Attempts
<1>5. CASE FetchesEvidence
  <2>1. evidence \in Attempts
    BY <1>5 DEF FetchesEvidence, EvidenceStands, PastRun, PastJobs, PastListing
  <2>2. job[evidence].booted \in Digests
    BY <2>1 DEF Jobs
  <2>3. QED
    BY <1>5, <2>2 DEF FetchesEvidence
<1>6. CASE FetchesTable \/ FetchesProof \/ fetch_installer \/ install
  BY <1>6 DEF FetchesTable, FetchesProof, fetch_installer, install, Installed, Files
<1>7. ASSUME NEW n \in Archives, FetchesArchive(n) PROVE TypeOK'
  BY <1>7 DEF FetchesArchive
<1>8. ASSUME NEW f \in Installed, Installs(f) PROVE TypeOK'
  BY <1>8 DEF Installs, Assets, Installed, Files
<1>9. CASE Fails
  BY <1>9 DEF Fails
<1>10. QED
  BY <1>1, <1>2, <1>3, <1>4, <1>5, <1>6, <1>7, <1>8, <1>9 DEF Verifier

-----------------------------------------------------------------------------
\* Attempts begin, report, end and follow each other in order.
LEMMA AttemptsStep ==
    ASSUME TypeOK, AttemptsAreOrderly, Github
    PROVE  AttemptsAreOrderly'
<1> USE AdmissionAssumption DEF TypeOK, AttemptsAreOrderly, Attempts
<1>1. CASE \/ Publishes \/ Withdraws \/ MovesTag
          \/ \E u \in Uploads, b \in Builds : UploadsAssets(u, b)
  BY <1>1 DEF Publishes, Withdraws, MovesTag, UploadsAssets
<1>2. CASE JobStarts
  BY <1>2 DEF JobStarts
<1>3. ASSUME NEW complete \in BOOLEAN, JobReports(complete) PROVE AttemptsAreOrderly'
  BY <1>3 DEF JobReports
<1>4. ASSUME NEW result \in {"success", "failure"}, JobEnds(result) PROVE AttemptsAreOrderly'
  BY <1>4 DEF JobEnds, Jobs
<1>5. ASSUME NEW result \in {"success", "failure"}, RunEnds(result) PROVE AttemptsAreOrderly'
  BY <1>5 DEF RunEnds
<1>6. ASSUME NEW all \in BOOLEAN, Reruns(all) PROVE AttemptsAreOrderly'
  BY <1>6 DEF Reruns, WaitingJob
<1>7. ASSUME NEW a \in Attempts, Expires(a) PROVE AttemptsAreOrderly'
  BY <1>7 DEF Expires, Artifacts
<1>8. QED
  BY <1>1, <1>2, <1>3, <1>4, <1>5, <1>6, <1>7 DEF Github

\* Nothing that happens on GitHub's side undoes what was read of an attempt
\* that had ended, or what it reported.
LEMMA EvidenceSurvives ==
    ASSUME TypeOK, AttemptsAreOrderly, EvidenceStands, Github,
           UNCHANGED <<pc, readVars, left, installed>>
    PROVE  EvidenceStands'
<1> DEFINE Concluded(a) == conclusion[a] = "success" => conclusion'[a] = "success"
           Reported(a) == artifact[a].state # "none" =>
               /\ artifact'[a].state # "none" /\ artifact'[a].complete = artifact[a].complete
               /\ job'[a].booted = job[a].booted
<1> USE AdmissionAssumption DEF TypeOK, AttemptsAreOrderly, Attempts
<1>1. \A a \in Attempts : Concluded(a) /\ Reported(a)
  <2>1. CASE \/ Publishes \/ Withdraws \/ MovesTag
            \/ \E u \in Uploads, b \in Builds : UploadsAssets(u, b)
    BY <2>1 DEF Publishes, Withdraws, MovesTag, UploadsAssets
  <2>2. CASE JobStarts
    BY <2>2 DEF JobStarts, Jobs
  <2>3. ASSUME NEW complete \in BOOLEAN, JobReports(complete)
        PROVE  \A a \in Attempts : Concluded(a) /\ Reported(a)
    BY <2>3 DEF JobReports
  <2>4. ASSUME NEW result \in {"success", "failure"}, JobEnds(result)
        PROVE  \A a \in Attempts : Concluded(a) /\ Reported(a)
    BY <2>4 DEF JobEnds, Jobs
  <2>5. ASSUME NEW result \in {"success", "failure"}, RunEnds(result)
        PROVE  \A a \in Attempts : Concluded(a) /\ Reported(a)
    BY <2>5 DEF RunEnds
  <2>6. ASSUME NEW all \in BOOLEAN, Reruns(all)
        PROVE  \A a \in Attempts : Concluded(a) /\ Reported(a)
    BY <2>6 DEF Reruns
  <2>7. ASSUME NEW e \in Attempts, Expires(e)
        PROVE  \A a \in Attempts : Concluded(a) /\ Reported(a)
    BY <2>7 DEF Expires, Artifacts
  <2>8. QED
    BY <2>1, <2>2, <2>3, <2>4, <2>5, <2>6, <2>7 DEF Github
<1>2. UNCHANGED <<pc, run, digests, evidence>>
  BY DEF readVars
<1>3. QED
  BY <1>1, <1>2 DEF EvidenceStands, PastRun, PastJobs, PastListing, PastEvidence

\* The evidence of an admission is of one attempt that succeeded, whichever
\* attempts came before and after it.
LEMMA EvidenceStep ==
    ASSUME TypeOK, AttemptsAreOrderly, EvidenceStands, Verifier \/ Fails
    PROVE  AttemptsAreOrderly' /\ EvidenceStands'
<1>1. AttemptsAreOrderly'
  <2>1. UNCHANGED githubVars
    BY DEF Verifier, Fails, ReadsRelease, ResolvesTag, ReadsRun, ReadsJobs, ListsArtifacts,
           FetchesEvidence, FetchesTable, FetchesArchive, FetchesProof, fetch_installer,
           Installs, install
  <2>2. QED
    BY <2>1 DEF AttemptsAreOrderly, githubVars
<1>2. EvidenceStands'
  <2> USE AdmissionAssumption
      DEF EvidenceStands, Step, Places, PastRun, PastJobs, PastListing, PastEvidence,
          githubVars, readVars
  <2>1. CASE ReadsRelease \/ ResolvesTag
    BY <2>1 DEF ReadsRelease, ResolvesTag
  <2>2. CASE ReadsRun
    BY <2>2 DEF ReadsRun, TypeOK
  <2>3. CASE ReadsJobs
    BY <2>3 DEF ReadsJobs, validate_run
  <2>4. CASE ListsArtifacts
    BY <2>4 DEF ListsArtifacts, AdmittedArtifact
  <2>5. CASE FetchesEvidence
    BY <2>5 DEF FetchesEvidence, validate_report, AttemptsAreOrderly
  <2>6. CASE FetchesTable \/ FetchesProof \/ fetch_installer \/ install \/ Fails
    BY <2>6 DEF FetchesTable, FetchesProof, fetch_installer, install, Fails
  <2>7. ASSUME NEW n \in Archives, FetchesArchive(n) PROVE EvidenceStands'
    BY <2>7 DEF FetchesArchive
  <2>8. ASSUME NEW f \in Installed, Installs(f) PROVE EvidenceStands'
    BY <2>8 DEF Installs
  <2>9. QED
    BY <2>1, <2>2, <2>3, <2>4, <2>5, <2>6, <2>7, <2>8 DEF Verifier
<1>3. QED
  BY <1>1, <1>2

\* What was downloaded and checked is what the release said when it was read,
\* which no later step reads anew.
LEMMA DownloadsStep ==
    ASSUME TypeOK, DownloadsStand, Verifier \/ Fails
    PROVE  DownloadsStand'
<1> USE AdmissionAssumption
    DEF DownloadsStand, Step, Places, PastRun, PastJobs, PastListing, PastEvidence, PastTable,
        PastArchives, PastProof, githubVars, readVars
<1>1. CASE ReadsRelease \/ ResolvesTag \/ ReadsRun \/ ReadsJobs
  BY <1>1 DEF ReadsRelease, ResolvesTag, ReadsRun, ReadsJobs
<1>2. CASE ListsArtifacts \/ FetchesEvidence \/ Fails
  BY <1>2 DEF ListsArtifacts, FetchesEvidence, Fails, Ended
<1>3. CASE FetchesTable
  BY <1>3 DEF FetchesTable
<1>4. ASSUME NEW n \in Archives, FetchesArchive(n) PROVE DownloadsStand'
  <2>1. UNCHANGED <<release, digests, installed>>
    BY <1>4 DEF FetchesArchive
  <2>2. \A a \in Archives : ArchiveStands(a)' <=> ArchiveStands(a)
    BY <2>1 DEF ArchiveStands, ArchiveMatches, verify_signed, verify_blob, verify_attestation
  <2>3. pc' # "refused" => ArchiveStands(n)
    BY <1>4 DEF FetchesArchive, ArchiveStands
  <2>4. QED
    BY <1>4, <2>1, <2>2, <2>3 DEF FetchesArchive
<1>5. CASE FetchesProof
  BY <1>5 DEF FetchesProof, ArchiveStands, ArchiveMatches, verify_signed, verify_blob,
              verify_attestation
<1>6. CASE fetch_installer \/ install
  BY <1>6 DEF fetch_installer, install, ArchiveStands, ArchiveMatches, verify_signed,
              verify_blob, verify_attestation, SameAsVerified
<1>7. ASSUME NEW f \in Installed, Installs(f) PROVE DownloadsStand'
  BY <1>7 DEF Installs, ArchiveStands, ArchiveMatches, verify_signed, verify_blob,
              verify_attestation
<1>8. QED
  BY <1>1, <1>2, <1>3, <1>4, <1>5, <1>6, <1>7 DEF Verifier

-----------------------------------------------------------------------------
\* The invariant that carries the theorems below.
THEOREM AdmissionInvariant == Spec => []AdmissionInv
<1>1. Init => AdmissionInv
  <2> SUFFICES ASSUME Init PROVE AdmissionInv
    OBVIOUS
  <2>1. WaitingJob \in Jobs /\ NoArtifact \in Artifacts /\ NoAsset \in Assets /\ asset \in Assets
    BY AdmissionAssumption
    DEF Init, WaitingJob, NoArtifact, NoAsset, NoDigests, Jobs, Artifacts, Assets, Digests, Times
  <2>2. TypeOK
    BY <2>1, AdmissionAssumption
    DEF Init, TypeOK, Times, Attempts, Places, Digests, NoDigests
  <2>3. AttemptsAreOrderly
    BY DEF Init, AttemptsAreOrderly, WaitingJob, NoArtifact
  <2>4. EvidenceStands /\ DownloadsStand
    BY DEF Init, EvidenceStands, DownloadsStand, Places, PastRun, PastJobs, PastListing,
           PastEvidence, PastTable, PastArchives, PastProof
  <2>5. QED
    BY <2>2, <2>3, <2>4 DEF AdmissionInv
<1>2. AdmissionInv /\ [Next]_vars => AdmissionInv'
  <2> SUFFICES ASSUME AdmissionInv, [Next]_vars PROVE AdmissionInv'
    OBVIOUS
  <2>1. CASE Github /\ UNCHANGED <<pc, readVars, left, installed>>
    <3>1. DownloadsStand'
      BY <2>1 DEF AdmissionInv, DownloadsStand, readVars, ArchiveStands, ArchiveMatches,
                  verify_signed, verify_blob, verify_attestation, SameAsVerified
    <3>2. QED
      BY <2>1, <3>1, GithubTypes, AttemptsStep, EvidenceSurvives DEF AdmissionInv
  <2>2. CASE Verifier \/ Fails
    BY <2>2, VerifierTypes, EvidenceStep, DownloadsStep DEF AdmissionInv
  <2>3. CASE UNCHANGED vars
    BY <2>3
    DEF vars, githubVars, readVars, AdmissionInv, TypeOK, AttemptsAreOrderly, EvidenceStands,
        DownloadsStand, ArchiveStands, ArchiveMatches, verify_signed, verify_blob,
        verify_attestation, SameAsVerified
  <2>4. QED
    BY <2>1, <2>2, <2>3 DEF Next
<1>3. QED
  BY <1>1, <1>2, PTL DEF Spec

\* The variables of GitHub and of the script keep their types, for any number
\* of builds, attempts, seconds and changes.
THEOREM TypeCorrect == Spec => []TypeOK
<1>1. AdmissionInv => TypeOK
  BY DEF AdmissionInv
<1>2. QED
  BY <1>1, AdmissionInvariant, PTL

\* verify-released-consumer.py installs only the bytes that the installed-boot
\* job booted in one successful attempt, however often the run is run again and
\* the assets are replaced between its requests.
THEOREM AdmittedWasBooted == Spec => []InstalledWasBooted
<1>1. AdmissionInv => InstalledWasBooted
  <2> SUFFICES ASSUME AdmissionInv, pc = "admitted" PROVE InstalledWasBooted
    BY DEF InstalledWasBooted
  <2> USE AdmissionAssumption
      DEF Places, PastRun, PastJobs, PastListing, PastEvidence, PastTable, PastArchives, PastProof
  <2>1. \A n \in {Cli, Runtime} : installed[n]["file"] = digests[n]
    BY DEF AdmissionInv, DownloadsStand, ArchiveStands, ArchiveMatches, SameAsVerified
  <2>2. QED
    BY <2>1 DEF AdmissionInv, EvidenceStands, AttemptsAreOrderly, InstalledWasBooted
<1>2. QED
  BY <1>1, AdmissionInvariant, PTL

\* CLI, runtime, proof and their signatures are of one build of the pinned
\* commit, although each is downloaded, and later installed, by itself.
THEOREM AdmittedIsOneBuild == Spec => []InstalledIsOneBuild
<1>1. AdmissionInv => InstalledIsOneBuild
  <2> SUFFICES ASSUME AdmissionInv, pc = "admitted" PROVE InstalledIsOneBuild
    BY DEF InstalledIsOneBuild
  <2> DEFINE b == release.asset[Table]["file"]
  <2>1. \A n \in Archives : ArchiveStands(n)
    BY DEF AdmissionInv, DownloadsStand, Places, PastRun, PastJobs, PastListing, PastEvidence,
           PastTable
  <2>2. \A n \in Archives : release.asset[n]["file"] = b /\ release.asset[n]["bundle"] = b
    BY <2>1 DEF ArchiveStands, ArchiveMatches, verify_signed, verify_blob
  <2>3. release.asset[Proof]["file"] = b /\ release.asset[Proof]["bundle"] = b
    BY <2>1, AdmissionAssumption
    DEF AdmissionInv, DownloadsStand, Places, PastRun, PastJobs, PastListing, PastEvidence,
        PastTable, PastArchives, PastProof, ArchiveStands, ArchiveMatches, verify_blob
  <2>4. b \in OfPinned
    BY <2>1, <2>2, AdmissionAssumption DEF ArchiveStands, verify_signed, verify_attestation
  <2>5. SameAsVerified
    BY DEF AdmissionInv, DownloadsStand
  <2>6. QED
    BY <2>2, <2>3, <2>4, <2>5, AdmissionAssumption DEF SameAsVerified, InstalledIsOneBuild, Parts
<1>2. QED
  BY <1>1, AdmissionInvariant, PTL
=============================================================================
