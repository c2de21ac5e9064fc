----------------------------- MODULE PublishJob -----------------------------
(* The publish job of .github/workflows/release.yml from assembly on: the set *)
(* is assembled, its roots are booted, the manifests are signed, a released   *)
(* mvmctl verifies the set, the provenance subjects are checked against the   *)
(* files, attested, and the files they name are uploaded and published. A     *)
(* step that fails ends the job. All of it works on one directory, whose      *)
(* files may be changed by others all along.                                  *)
EXTENDS AssembleRelease

\* What the boots need to know of the members; the whole set is listed.
CONSTANTS RoleOf, KeyOf, Direct, FileOf, ProbeOf, Suits

ASSUME NothingComesBack == NoReversal

\* member_specs: the roots that are booted are those that were inspected.
ASSUME JobAssumption ==
    /\ FileOf \in [Members -> Artifacts] /\ \A m \in Members : FileOf[m] \in Of[m]
    /\ DOMAIN RoleOf = Members /\ DOMAIN KeyOf = Members /\ Direct \subseteq Members
    /\ ProbeOf \in [{KeyOf[m] : m \in Members} -> Files] /\ Suits \subseteq Bytes
    /\ \E m \in Members : RoleOf[m] = "workload_rootfs"
    /\ \A m \in Members : RoleOf[m] = "workload_rootfs" => FileOf[m] \in Roots

VARIABLES
    step,       \* the step the job is in
    unchecked,  \* files the current step has still to handle
    bootPc, bound, bootLeft, probe, booted, witness,  \* boot-base-contract.py
    attested,   \* digests of the attested subjects
    uploaded,   \* assets of the release being created
    late        \* observer: files changed after their subject was checked

bootVars == <<bootPc, bound, bootLeft, probe, booted, witness>>
stepVars == <<step, unchecked, attested, uploaded, late>>
jobVars  == <<vars, bootVars, stepVars>>

Booting == INSTANCE BaseContractWitness WITH
    args <- [manifest |-> TRUE, witness |-> TRUE, plan |-> FALSE],
    listed <- Members, Lists <- {Members}, Canonical <- Members,
    manifest <- rendered, pc <- bootPc, left <- bootLeft,
    Bootable <- {b \in Bytes : MarkerOf[b] = Contract}

\* What write_provenance_subjects lists; the SBOMs and pack manifests, which
\* nobody changes here, are left out.
Subjects == Artifacts \cup {ImageSet}

SubjectDigest == [s \in Subjects |-> IF s = ImageSet THEN lock ELSE rendered[s]]

JobTypeOK ==
    /\ TypeOK /\ Booting!TypeOK
    /\ step \in {"assemble", "boot", "sign", "verify", "check", "attest", "upload",
                 "publish", "published", "failed"}
    /\ unchecked \subseteq Subjects /\ late \subseteq Subjects
    /\ attested \in Digests(Subjects) /\ uploaded \in Digests(Subjects)
    /\ step = "published" => uploaded \in [Subjects -> Bytes]

JobInit ==
    /\ Init /\ Booting!Start /\ witness = "absent"
    /\ step = "assemble" /\ unchecked = {} /\ late = {}
    /\ attested = [s \in Subjects |-> None] /\ uploaded = attested

-----------------------------------------------------------------------------
\* A file is beyond the subject check when that check has passed it.
Checked(f) ==
    /\ step \in {"check", "attest", "upload"} /\ f \in Subjects
    /\ step = "check" => f \notin unchecked
    /\ step = "upload" => f \in unchecked

ChangeAsset(f, b) ==
    /\ Change(f, b)
    /\ late' = IF Checked(f) THEN late \cup {f} ELSE late
    /\ UNCHANGED <<assembleVars, bootVars, step, unchecked, attested, uploaded>>

Goes(from, to) ==
    /\ step = from /\ step' = to
    /\ UNCHANGED <<vars, bootVars, late>>

Assembles ==
    /\ step = "assemble" /\ Assemble
    /\ step' = CASE pc' = "assembled" -> "boot" [] pc' = "refused" -> "failed" [] OTHER -> step
    /\ UNCHANGED <<bootVars, unchecked, attested, uploaded, late>>

BootsRoots ==
    /\ step = "boot" /\ Booting!Witness
    /\ step' = CASE bootPc' = "done" -> "sign" [] bootPc' = "refused" -> "failed" [] OTHER -> step
    /\ UNCHANGED <<assembleVars, unchecked, attested, uploaded, late>>

\* cosign makes a bundle beside every pack manifest and image-set.json.
Sign == Goes("sign", "verify") /\ UNCHANGED <<unchecked, attested, uploaded>>

\* mvmctl image boot verify checks manifest, lock and artifact digests.
Verify ==
    /\ \A s \in Subjects : assets[s] = SubjectDigest[s]
    /\ Goes("verify", "check")
    /\ unchecked' = Subjects
    /\ UNCHANGED <<attested, uploaded>>

\* The list is there, nothing is compared with it (a mutant of Matches).
ListIsThere(s) == subjects

Matches(s) == subjects /\ assets[s] = SubjectDigest[s]

CheckSubject(s) ==
    /\ step = "check" /\ s \in unchecked /\ Matches(s)
    /\ IF unchecked = {s} THEN Goes("check", "attest") /\ unchecked' = Subjects
                          ELSE Goes("check", "check") /\ unchecked' = unchecked \ {s}
    /\ UNCHANGED <<attested, uploaded>>

Attest ==
    /\ Goes("attest", "upload")
    /\ attested' = SubjectDigest
    /\ UNCHANGED <<unchecked, uploaded>>

\* Takes the files of the members only (a mutant of Uploads).
MembersOnly(s) == uploaded' = [uploaded EXCEPT ![s] = IF s \in Artifacts THEN assets[s] ELSE @]

Uploads(s) == uploaded' = [uploaded EXCEPT ![s] = assets[s]]

\* gh release create uploads to a draft, and publishes it when that succeeded.
Upload(s) ==
    /\ step = "upload" /\ s \in unchecked /\ assets[s] # None
    /\ unchecked' = unchecked \ {s}
    /\ Goes("upload", IF unchecked = {s} THEN "publish" ELSE "upload")
    /\ Uploads(s)
    /\ UNCHANGED attested

Publish == Goes("publish", "published") /\ UNCHANGED <<unchecked, attested, uploaded>>

\* A check that does not hold, or any command that fails, fails the job.
StepFails ==
    /\ step \in {"sign", "verify", "check", "attest", "upload", "publish"}
    /\ Goes(step, "failed")
    /\ UNCHANGED <<unchecked, attested, uploaded>>

-----------------------------------------------------------------------------
Steps ==
    \/ Assembles \/ BootsRoots \/ Sign \/ Verify \/ Attest \/ Publish \/ StepFails
    \/ \E s \in Subjects : CheckSubject(s) \/ Upload(s)

JobNext == Steps \/ \E f \in Files, b \in Bytes : ChangeAsset(f, b)

JobSpec == JobInit /\ [][JobNext]_jobVars

-----------------------------------------------------------------------------
(* Properties.                                                                *)

\* An asset of a published release is what was attested, and an attested
\* subject is what image-set.json (for itself, images.lock) records, unless the
\* file was changed between its check and its upload.
PublishedIsAttested ==
    step = "published" => \A s \in Subjects \ late :
        uploaded[s] = attested[s] /\ attested[s] = SubjectDigest[s]

\* Along the whole chain a workload root is one sequence of bytes: inspected
\* and found to have the contract, described by the SBOM and the pack manifest,
\* booted with the recorded kernel, attested, and uploaded.
PublishedRootsAreWitnessed ==
    step = "published" => \A m \in Booting!Pairs :
        LET r == FileOf[m] IN
        /\ witness = "ready" /\ booted[m].root = inspected[r]
        /\ booted[m].kernel = attested[FileOf[Booting!KernelOf(m)]]
        /\ sbom[r] = inspected[r] /\ pack[r] = inspected[r] /\ attested[r] = inspected[r]
        /\ MarkerOf[inspected[r]] = Contract
        /\ r \notin late => uploaded[r] = inspected[r]
=============================================================================
