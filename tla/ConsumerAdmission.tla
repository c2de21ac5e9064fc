-------------------------- MODULE ConsumerAdmission --------------------------
(* scripts/verify-released-consumer.py: before an image set is published, a   *)
(* released CLI is admitted as its verifier. The script reads the release,    *)
(* its tag, the pinned workflow run, the jobs of its attempt and the report   *)
(* that one of them uploaded, downloads the assets and installs them, in      *)
(* separate requests to GitHub, where each of these may change in between.    *)
(*                                                                            *)
(* Assets are told apart by the build that made them, numbered in the order   *)
(* they are uploaded: a number is both the id of an asset, since a replaced   *)
(* one gets a new id, and its bytes. A bundle signs the file of its own       *)
(* build; the checksum table of a build has the digests of that build.        *)
EXTENDS Integers, FiniteSets

CONSTANTS
    Archives,     \* assets_for(tag)
    Cli, Runtime, \* the two of them that are installed
    Table, Proof, \* the checksum table, and the runtime's own .sha256
    MaxBuild,     \* bound: builds that upload assets
    OfPinned,     \* the builds made from the pinned commit
    Uploads,      \* what one upload may replace: sets of <<asset, part>>
    MaxAttempt,   \* bound: attempts of the pinned run
    MaxTime,      \* bound: seconds that are told apart
    MaxChanges    \* bound: what others do to release, tag, run and artifacts

Files    == Archives \cup {Table, Proof}
Parts    == {"file", "bundle"}
Builds   == 1..MaxBuild
Attempts == 1..MaxAttempt
Times    == 0..MaxTime

ASSUME AdmissionAssumption ==
    /\ Cli \in Archives /\ Runtime \in Archives
    /\ Table \notin Archives /\ Proof \notin Archives /\ Table # Proof
    /\ MaxBuild \in Nat \ {0} /\ MaxAttempt \in Nat \ {0}
    /\ MaxTime \in Nat /\ MaxChanges \in Nat
    /\ OfPinned \subseteq Builds
    /\ Uploads \subseteq SUBSET (Files \X Parts)

VARIABLES
    asset,       \* the release: what each asset and its bundle are
    publishedAt, \* when it was published; -1 while it is a draft
    tagged,      \* the tag names the pinned commit
    attempt,     \* the latest attempt of the pinned run
    conclusion,  \* of each attempt
    job,         \* the installed-boot job that each attempt lists
    artifact,    \* what the job of each attempt uploaded
    now, changes,
    pc, release, run, jobRead, digests, evidence, left,  \* of verify()
    installed    \* what the installer put under out/installed

githubVars == <<asset, publishedAt, tagged, attempt, conclusion, job, artifact,
                now, changes>>
readVars   == <<release, run, jobRead, digests, evidence>>
vars       == <<githubVars, pc, readVars, left, installed>>

Assets    == [Files -> [Parts -> 0..MaxBuild]]
Digests   == [Archives -> 0..MaxBuild]
Jobs      == [state : {"waiting", "running", "success", "failure"},
              ranIn : 0..MaxAttempt, started : Times, completed : Times,
              booted : Digests]
Artifacts == [state : {"none", "there", "expired"}, created : Times, complete : BOOLEAN]
Places    == {"release", "tag", "run", "jobs", "artifacts", "evidence", "table",
              "archives", "proof", "installer", "install", "compare",
              "admitted", "refused", "failed"}

NoAsset    == [f \in Files |-> [p \in Parts |-> 0]]
NoDigests  == [n \in Archives |-> 0]
WaitingJob == [state |-> "waiting", ranIn |-> 0, started |-> 0, completed |-> 0,
               booted |-> NoDigests]
NoArtifact == [state |-> "none", created |-> 0, complete |-> FALSE]

TypeOK ==
    /\ asset \in Assets /\ publishedAt \in Times \cup {-1} /\ tagged \in BOOLEAN
    /\ attempt \in Attempts
    /\ conclusion \in [Attempts -> {"none", "success", "failure"}]
    /\ job \in [Attempts -> Jobs]
    /\ artifact \in [Attempts -> Artifacts]
    /\ now \in Times /\ changes \in 0..MaxChanges
    /\ pc \in Places
    /\ release \in [asset : Assets, publishedAt : Times \cup {-1}]
    /\ run \in [attempt : 0..MaxAttempt, conclusion : {"none", "success", "failure"}]
    /\ jobRead \in Jobs
    /\ digests \in Digests /\ evidence \in 0..MaxAttempt
    /\ left \subseteq Files
    /\ installed \in Assets

Init ==
    /\ asset = [f \in Files |-> [p \in Parts |-> 1]]
    /\ publishedAt = -1 /\ tagged = TRUE
    /\ attempt = 1
    /\ conclusion = [a \in Attempts |-> "none"]
    /\ job = [a \in Attempts |-> WaitingJob]
    /\ artifact = [a \in Attempts |-> NoArtifact]
    /\ now = 0 /\ changes = 0
    /\ pc = "release"
    /\ release = [asset |-> NoAsset, publishedAt |-> -1]
    /\ run = [attempt |-> 0, conclusion |-> "none"]
    /\ jobRead = WaitingJob /\ digests = NoDigests /\ evidence = 0
    /\ left = {} /\ installed = NoAsset

-----------------------------------------------------------------------------
(* GitHub, and those who may change what it says (external). An event happens *)
(* in the second of the one before it or in a later one.                      *)

Clock == now' \in now..(now + 1) \cap Times

Counts == changes < MaxChanges /\ changes' = changes + 1

Publishes ==
    /\ publishedAt = -1 /\ Clock /\ publishedAt' = now'
    /\ UNCHANGED <<asset, tagged, attempt, conclusion, job, artifact, changes>>

Withdraws ==
    /\ publishedAt # -1 /\ Counts /\ publishedAt' = -1
    /\ UNCHANGED <<asset, tagged, attempt, conclusion, job, artifact, now>>

MovesTag ==
    /\ Counts /\ tagged' = ~tagged
    /\ UNCHANGED <<asset, publishedAt, attempt, conclusion, job, artifact, now>>

\* A later build replaces some assets, as a rerun of the workflow or a run for
\* a moved tag does.
UploadsAssets(u, b) ==
    /\ Counts
    /\ \A x \in u : asset[x[1]][x[2]] < b
    /\ asset' = [f \in Files |-> [p \in Parts |-> IF <<f, p>> \in u THEN b ELSE asset[f][p]]]
    /\ UNCHANGED <<publishedAt, tagged, attempt, conclusion, job, artifact, now>>

\* The job installs and boots what the release has.
JobStarts ==
    /\ conclusion[attempt] = "none" /\ job[attempt].state = "waiting" /\ Clock
    /\ job' = [job EXCEPT ![attempt] =
                  [state |-> "running", ranIn |-> attempt, started |-> now', completed |-> 0,
                   booted |-> [n \in Archives |-> asset[n]["file"]]]]
    /\ UNCHANGED <<asset, publishedAt, tagged, attempt, conclusion, artifact, changes>>

\* It uploads its report, in which some boot may be missing or have failed.
JobReports(complete) ==
    /\ job[attempt].state = "running" /\ artifact[attempt].state = "none" /\ Clock
    /\ artifact' = [artifact EXCEPT ![attempt] =
                       [state |-> "there", created |-> now', complete |-> complete]]
    /\ UNCHANGED <<asset, publishedAt, tagged, attempt, conclusion, job, changes>>

JobEnds(result) ==
    /\ job[attempt].state = "running" /\ Clock
    /\ job' = [job EXCEPT ![attempt].state = result, ![attempt].completed = now']
    /\ UNCHANGED <<asset, publishedAt, tagged, attempt, conclusion, artifact, changes>>

\* A run succeeds when this job and all the others have.
RunEnds(result) ==
    /\ conclusion[attempt] = "none" /\ job[attempt].state # "running"
    /\ result = "success" => job[attempt].state = "success"
    /\ conclusion' = [conclusion EXCEPT ![attempt] = result]
    /\ UNCHANGED <<asset, publishedAt, tagged, attempt, job, artifact, now, changes>>

\* A new attempt, of all jobs or of those that failed; the others are listed in
\* it as they were.
Reruns(all) ==
    /\ attempt < MaxAttempt /\ conclusion[attempt] # "none" /\ Counts
    /\ attempt' = attempt + 1
    /\ job' = [job EXCEPT ![attempt + 1] =
                  IF all \/ job[attempt].state # "success" THEN WaitingJob ELSE job[attempt]]
    /\ UNCHANGED <<asset, publishedAt, tagged, conclusion, artifact, now>>

Expires(a) ==
    /\ artifact[a].state = "there" /\ Counts
    /\ artifact' = [artifact EXCEPT ![a].state = "expired"]
    /\ UNCHANGED <<asset, publishedAt, tagged, attempt, conclusion, job, now>>

-----------------------------------------------------------------------------
(* verify(), one action per request.                                          *)

\* A step of verify(): what it checks holds, or it refuses.
Step(from, ok, to) == pc = from /\ pc' = IF ok THEN to ELSE "refused"

ReadsRelease ==
    /\ Step("release", publishedAt # -1, "tag")
    /\ release' = [asset |-> asset, publishedAt |-> publishedAt]
    /\ UNCHANGED <<githubVars, run, jobRead, digests, evidence, left, installed>>

ResolvesTag ==
    /\ Step("tag", tagged, "run")
    /\ UNCHANGED <<githubVars, readVars, left, installed>>

\* Counts attempts from zero (a mutant of ReadsRun).
CountsAttemptsFromZero ==
    /\ Step("run", TRUE, "jobs")
    /\ run' = [attempt |-> attempt + 1, conclusion |-> conclusion[attempt]]
    /\ UNCHANGED <<githubVars, release, jobRead, digests, evidence, left, installed>>

ReadsRun ==
    /\ Step("run", TRUE, "jobs")
    /\ run' = [attempt |-> attempt, conclusion |-> conclusion[attempt]]
    /\ UNCHANGED <<githubVars, release, jobRead, digests, evidence, left, installed>>

\* Wants a boot in a later second than the publication (a mutant of validate_run).
BootedInALaterSecond(j) ==
    /\ run.conclusion = "success"
    /\ j.state = "success" /\ j.started > release.publishedAt

validate_run(j) ==
    /\ run.conclusion = "success"
    /\ j.state = "success" /\ j.started >= release.publishedAt

ReadsJobs ==
    /\ Step("jobs", validate_run(job[run.attempt]), "artifacts")
    /\ jobRead' = job[run.attempt]
    /\ UNCHANGED <<githubVars, release, run, digests, evidence, left, installed>>

\* The artifacts of the run, of whichever attempt: the one that is there must
\* have been made while the admitted job ran.
Listed == {a \in Attempts : artifact[a].state # "none"}

AdmittedArtifact(a) ==
    /\ Listed = {a} /\ artifact[a].state = "there"
    /\ artifact[a].created \in jobRead.started..jobRead.completed

ListsArtifacts ==
    /\ \/ \E a \in Attempts :
              AdmittedArtifact(a) /\ Step("artifacts", TRUE, "evidence") /\ evidence' = a
       \/ /\ \A a \in Attempts : ~AdmittedArtifact(a)
          /\ Step("artifacts", FALSE, "evidence") /\ UNCHANGED evidence
    /\ UNCHANGED <<githubVars, release, run, jobRead, digests, left, installed>>

\* Takes the report of any attempt (a mutant of validate_report).
ReportOfAnyAttempt(a) == artifact[a].complete

\* The report says in which attempt it was made and what was booted.
validate_report(a) == job[a].ranIn = run.attempt /\ artifact[a].complete

FetchesEvidence ==
    /\ Step("evidence",
            artifact[evidence].state = "there" /\ validate_report(evidence), "table")
    /\ digests' = job[evidence].booted
    /\ UNCHANGED <<githubVars, release, run, jobRead, evidence, left, installed>>

-----------------------------------------------------------------------------
(* Downloads: by the ids of the release as it was read first.                 *)

release_download(f) == asset[f] = release.asset[f]

verify_blob(f) == release.asset[f]["bundle"] = release.asset[f]["file"]

verify_attestation(f) == release.asset[f]["file"] \in OfPinned

\* Trusts a signature that names the tag only (a mutant of verify_signed).
SignedForTheTag(f) == verify_blob(f)

verify_signed(f) == verify_blob(f) /\ verify_attestation(f)

FetchesTable ==
    /\ Step("table", release_download(Table) /\ verify_signed(Table), "archives")
    /\ left' = Archives
    /\ UNCHANGED <<githubVars, readVars, installed>>

ArchiveMatches(n) ==
    /\ release.asset[Table]["file"] = digests[n]
    /\ release.asset[n]["file"] = digests[n]

FetchesArchive(n) ==
    /\ n \in left /\ left' = left \ {n}
    /\ Step("archives",
            ArchiveMatches(n) /\ release_download(n) /\ verify_signed(n),
            IF left = {n} THEN "proof" ELSE "archives")
    /\ UNCHANGED <<githubVars, readVars, installed>>

FetchesProof ==
    /\ Step("proof",
            /\ release_download(Proof) /\ verify_blob(Proof)
            /\ release.asset[Proof]["file"] = digests[Runtime],
            "installer")
    /\ UNCHANGED <<githubVars, readVars, left, installed>>

\* The installer is read at the pinned commit, where it cannot change.
Installed == {Cli, Runtime, Proof}

fetch_installer ==
    /\ Step("installer", TRUE, "install")
    /\ left' = Installed
    /\ UNCHANGED <<githubVars, readVars, installed>>

\* What the installer does is not this repository's (external): it asks for the
\* assets of the version by name.
Installs(f) ==
    /\ pc = "install" /\ f \in left /\ left' = left \ {f}
    /\ installed' = [installed EXCEPT ![f] = asset[f]]
    /\ pc' = IF left = {f} THEN "compare" ELSE "install"
    /\ UNCHANGED <<githubVars, readVars>>

SameAsVerified ==
    /\ installed[Cli]["file"] = release.asset[Cli]["file"]
    /\ \A f \in {Runtime, Proof} : installed[f] = release.asset[f]

\* out/mvmctl is linked last: the job that publishes runs nothing else.
install ==
    /\ Step("compare", SameAsVerified, "admitted")
    /\ UNCHANGED <<githubVars, readVars, left, installed>>

Ended == pc \in {"admitted", "refused", "failed"}

\* A request is not answered, a command fails, or something is refused that
\* none of the above tells apart.
Fails ==
    /\ ~Ended /\ pc' = "failed"
    /\ UNCHANGED <<githubVars, readVars, left, installed>>

-----------------------------------------------------------------------------
Github ==
    \/ Publishes \/ Withdraws \/ MovesTag \/ JobStarts
    \/ \E u \in Uploads, b \in Builds : UploadsAssets(u, b)
    \/ \E complete \in BOOLEAN : JobReports(complete)
    \/ \E result \in {"success", "failure"} : JobEnds(result) \/ RunEnds(result)
    \/ \E all \in BOOLEAN : Reruns(all)
    \/ \E a \in Attempts : Expires(a)

Verifier ==
    \/ ReadsRelease \/ ResolvesTag \/ ReadsRun \/ ReadsJobs \/ ListsArtifacts
    \/ FetchesEvidence \/ FetchesTable \/ FetchesProof \/ fetch_installer \/ install
    \/ \E n \in Archives : FetchesArchive(n)
    \/ \E f \in Installed : Installs(f)

\* What becomes of the release afterwards is not looked at.
Next ==
    \/ ~Ended /\ Github /\ UNCHANGED <<pc, readVars, left, installed>>
    \/ Verifier \/ Fails

Spec == Init /\ [][Next]_vars

\* The script is one process, and each of its requests is answered or fails.
FairSpec == Spec /\ WF_vars(Verifier)

-----------------------------------------------------------------------------
(* Properties.                                                                *)

\* The CLI and the runtime that an admission installs are the very bytes that
\* the installed-boot job booted, in one attempt of the pinned run that
\* succeeded as a whole, with every required boot in its report; whatever was
\* replaced, rerun or carried over between the requests.
InstalledWasBooted ==
    pc = "admitted" => \E a \in Attempts :
        /\ conclusion[a] = "success"
        /\ job[a].state = "success" /\ job[a].ranIn = a /\ artifact[a].complete
        /\ \A n \in {Cli, Runtime} : installed[n]["file"] = job[a].booted[n]

\* An admission never rests on a release that was caught while its assets were
\* being replaced: CLI, runtime and the runtime's proof, and what signs them, are
\* of one build, and that build was made from the pinned commit, though the
\* proof has a signature and no attestation that would name the commit.
InstalledIsOneBuild ==
    pc = "admitted" => \E b \in OfPinned :
        /\ installed[Cli]["file"] = b
        /\ \A f \in {Runtime, Proof}, p \in Parts : installed[f][p] = b

\* What a release that is in order looks like: one published build, made from
\* the pinned commit, which the latest attempt booted after the publication.
InOrder ==
    /\ publishedAt # -1 /\ tagged /\ conclusion[attempt] = "success"
    /\ \E b \in OfPinned :
           /\ \A f \in Files, p \in Parts : asset[f][p] = b
           /\ \A n \in Archives : job[attempt].booted[n] = b
    /\ job[attempt].ranIn = attempt /\ job[attempt].started >= publishedAt
    /\ artifact[attempt].state = "there" /\ artifact[attempt].complete
    /\ \A a \in Attempts \ {attempt} : artifact[a].state = "none"

\* None of these checks refuses a release that is and stays in order: the script
\* ends in an admission, unless a request fails.
InOrderIsAdmitted ==
    [](pc # "release" => InOrder) => <>(pc \in {"admitted", "failed"})
=============================================================================
