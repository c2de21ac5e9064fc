------------------------ MODULE BaseContractWitness -------------------------
(* execute of scripts/boot-base-contract.py: every workload root of a         *)
(* candidate set (--manifest), or of the build of one architecture, is booted *)
(* with the kernel of its profile and mode and with a probe, and a witness    *)
(* file says so, of the bytes that image-set.json names or that were there    *)
(* first. The files may change at any time; a boot uses them as they are at   *)
(* one instant.                                                               *)
EXTENDS Drift

CONSTANTS
    Files,      \* files that the boots depend on
    ImageSet,   \* --manifest
    Members,    \* members that a manifest may list
    Of,         \* artifacts of each, sidecars included
    RoleOf,     \* "workload_rootfs", "workload_kernel", or "other" (as those of
                \* an architecture that is not asked for)
    KeyOf,      \* architecture, profile and build mode of a workload member
    Direct,     \* the kernels that boot linux_direct
    FileOf,     \* only_artifact: its ext4, or its kernel
    ProbeOf,    \* the --probe for each key
    Lists,      \* what a manifest lists: sets of members
    Canonical,  \* member_specs
    Bytes,      \* contents of a file
    Mutable,    \* files that others do change
    Mutations,  \* <<b, c>>: a file may change from b to c
    Bootable,   \* contents of a root in which the probe accepts the marker
    Suits,      \* contents of a probe with a BusyBox of the architecture
    None

Artifacts == UNION {Of[m] : m \in Members}

Keys == {KeyOf[m] : m \in {c \in Canonical : RoleOf[c] = "workload_rootfs"}}

ASSUME WitnessAssumption ==
    /\ Of \in [Members -> SUBSET Artifacts] /\ FileOf \in [Members -> Artifacts]
    /\ \A m \in Members : FileOf[m] \in Of[m]
    /\ Artifacts \cup {ImageSet} \subseteq Files /\ Mutable \subseteq Files
    /\ ImageSet \notin Artifacts
    /\ DOMAIN RoleOf = Members /\ DOMAIN KeyOf = Members /\ Direct \subseteq Members
    /\ Lists \subseteq SUBSET Members /\ Canonical \subseteq Members /\ Keys # {}
    /\ ProbeOf \in [{KeyOf[m] : m \in Members} -> Files]
    /\ Bootable \subseteq Bytes /\ Suits \subseteq Bytes /\ None \notin Bytes

\* See Drift: a change and its reversal between two hashings leave no trace.
NoReversal == Acyclic(Mutations, Bytes)

VARIABLES
    args,      \* which of --manifest, --witness and --plan are given
    assets,    \* content of each file, None when missing or empty
    listed,    \* the members of the manifest, or of the build
    manifest,  \* the digests in them
    pc,
    bound,     \* binding["manifest_sha256"]
    left,      \* what the current loop has still to do
    probe,     \* digest of the probe of each root, taken for the plan
    booted,    \* observer: what the boot of each root used, if one was attempted
    witness    \* "absent", "stale" (an earlier invocation's) or "ready"

inputVars   == <<args, listed>>
planVars    == <<bound, probe, booted>>
witnessVars == <<inputVars, manifest, pc, bound, left, probe, booted, witness>>
vars        == <<assets, witnessVars>>

Digests(S) == [S -> Bytes \cup {None}]
Boots      == [root : Bytes \cup {None}, kernel : Bytes \cup {None}, probe : Bytes \cup {None}]
Places     == {"read", "unlink", "select", "plan", "boot", "recheck", "reprobe", "rebind",
               "write", "done", "refused"}
Arguments  == [manifest : BOOLEAN, witness : BOOLEAN, plan : BOOLEAN]

Listed(role) == {m \in listed : RoleOf[m] = role}

TypeOK ==
    /\ args \in Arguments /\ listed \in Lists \cup {Canonical}
    /\ assets \in Digests(Files) /\ manifest \in Digests(Artifacts)
    /\ pc \in Places
    /\ bound \in Bytes \cup {None}
    /\ left \subseteq (Members \X Artifacts) \cup {<<x>> : x \in Members \cup Artifacts}
    /\ probe \in Digests(Members)
    /\ booted \in [Members -> Boots \cup {None}]
    /\ witness \in {"absent", "stale", "ready"}
    /\ pc \in {"boot", "recheck", "reprobe", "rebind", "write", "done"} =>
           \A r \in Listed("workload_rootfs") : probe[r] \in Bytes

\* Without a manifest the members are those of the inventory, and their digests
\* are taken from the files.
Start ==
    /\ pc = "read" /\ bound = None
    /\ left = IF args.manifest THEN {} ELSE {<<a>> : a \in UNION {Of[m] : m \in listed}}
    /\ probe = [m \in Members |-> None] /\ booted = probe

Init ==
    /\ args \in Arguments
    /\ listed \in IF args.manifest THEN Lists ELSE {Canonical}
    /\ manifest \in IF args.manifest THEN [Artifacts -> Bytes] ELSE [Artifacts -> {None}]
    /\ assets \in Digests(Files)
    /\ witness \in {"absent", "stale"} /\ Start

-----------------------------------------------------------------------------
Change(f, b) ==
    /\ f \in Mutable /\ <<assets[f], b>> \in Mutations
    /\ assets' = [assets EXCEPT ![f] = b]

\* An E2EError or any other exception.
Refuse ==
    /\ pc' = "refused"
    /\ UNCHANGED <<inputVars, assets, manifest, planVars, left, witness>>

Ended == pc \in {"refused", "done"}

Fail == ~Ended /\ Refuse

\* Leaves the loop after its first element (a mutant of Handles).
StopsEarly(x, next, rest) == x \in left /\ pc' = next /\ left' = rest

\* Handles x of the current loop; the last one leads on to `next` over `rest`.
Handles(x, next, rest) ==
    /\ x \in left
    /\ IF left = {x} THEN pc' = next /\ left' = rest
                     ELSE left' = left \ {x} /\ UNCHANGED pc

\* The manifest is parsed from the bytes that are hashed.
ReadManifest ==
    /\ pc = "read" /\ args.manifest /\ assets[ImageSet] # None
    /\ pc' = "unlink" /\ bound' = assets[ImageSet]
    /\ UNCHANGED <<inputVars, assets, manifest, left, probe, booted, witness>>

\* describe, for one artifact of build_members.
DescribeBuild(a) ==
    /\ pc = "read" /\ ~args.manifest /\ assets[a] # None
    /\ manifest' = [manifest EXCEPT ![a] = assets[a]]
    /\ Handles(<<a>>, "unlink", {})
    /\ UNCHANGED <<inputVars, assets, planVars, witness>>

\* Keeps the file until there is a new one (a mutant of Discard).
KeepOld == UNCHANGED witness

Discard == witness' = IF args.witness /\ ~args.plan THEN "absent" ELSE witness

\* A failed boot must not leave evidence from an earlier invocation.
UnlinkWitness ==
    /\ pc = "unlink" /\ pc' = "select"
    /\ Discard
    /\ UNCHANGED <<inputVars, assets, manifest, left, planVars>>

OnePerKey(S) == \A m, n \in S : KeyOf[m] = KeyOf[n] => m = n

KeysOf(S) == {KeyOf[m] : m \in S}

\* The roots are those of the inventory, each once and with one direct kernel.
select_pairs ==
    /\ OnePerKey(Listed("workload_kernel")) /\ Listed("workload_kernel") \subseteq Direct
    /\ OnePerKey(Listed("workload_rootfs")) /\ KeysOf(Listed("workload_rootfs")) = Keys
    /\ Keys \subseteq KeysOf(Listed("workload_kernel"))

\* Once they are selected, a pair is named by its root.
Pairs == Listed("workload_rootfs")

KernelOf(r) == CHOOSE k \in Listed("workload_kernel") : KeyOf[k] = KeyOf[r]

RecordsOf(r) == Of[r] \cup Of[KernelOf(r)]

Records == UNION {{r} \X RecordsOf(r) : r \in Pairs}

EachRoot == {<<r>> : r \in Pairs}

Selects ==
    /\ pc = "select" /\ select_pairs
    /\ pc' = "plan" /\ left' = Records \cup EachRoot
    /\ UNCHANGED <<inputVars, assets, manifest, planVars, witness>>

\* The file is there, whatever is in it (a mutant of AsRecorded).
IsThere(a) == assets[a] # None

\* artifact_path: the file has the recorded digest and size.
AsRecorded(a) == assets[a] = manifest[a]

\* The roots are planned one after another.
OthersWait(r) ==
    \A q \in Pairs \ {r} : <<q>> \in left => \A a \in RecordsOf(q) : <<q, a>> \in left

CheckRecord(r, a) ==
    /\ pc = "plan" /\ <<r, a>> \in left /\ OthersWait(r) /\ AsRecorded(a)
    /\ left' = left \ {<<r, a>>}
    /\ UNCHANGED <<inputVars, assets, manifest, pc, planVars, witness>>

ProbeFile(r) == ProbeOf[KeyOf[r]]

\* Once its members are checked, the probe of a root is hashed.
HashProbe(r) ==
    /\ pc = "plan" /\ <<r>> \in left /\ \A a \in RecordsOf(r) : <<r, a>> \notin left
    /\ probe[r] = None /\ assets[ProbeFile(r)] # None
    /\ probe' = [probe EXCEPT ![r] = assets[ProbeFile(r)]]
    /\ UNCHANGED <<inputVars, assets, manifest, pc, left, bound, booted, witness>>

\* The probe is read again for its architecture, and kernel and root are checked
\* again for the command line. A plan alone ends here.
PlanBoot(r) ==
    /\ pc = "plan" /\ probe[r] # None
    /\ assets[ProbeFile(r)] \in Suits
    /\ AsRecorded(FileOf[KernelOf(r)]) /\ AsRecorded(FileOf[r])
    /\ Handles(<<r>>, IF args.plan THEN "done" ELSE IF args.witness THEN "boot" ELSE "refused",
               IF args.plan \/ ~args.witness THEN {} ELSE EachRoot)
    /\ UNCHANGED <<inputVars, assets, manifest, planVars, witness>>

\* run_until_ready, whatever comes of it, with the files as they are.
Attempt(r) ==
    /\ pc = "boot" /\ <<r>> \in left
    /\ booted' = [booted EXCEPT ![r] = [root   |-> assets[FileOf[r]],
                                        kernel |-> assets[FileOf[KernelOf(r)]],
                                        probe  |-> assets[ProbeFile(r)]]]
    /\ UNCHANGED <<inputVars, assets, manifest, bound, probe, witness>>

\* The guest's probe reads the marker in the booted root.
Boot(r) ==
    /\ Attempt(r) /\ assets[FileOf[r]] \in Bootable
    /\ Handles(<<r>>, "recheck", Records)

\* A refusal, an exit or a timeout, which a root with the marker may meet too.
BootFails(r) == Attempt(r) /\ pc' = "refused" /\ UNCHANGED left

Recheck(r, a) ==
    /\ pc = "recheck" /\ AsRecorded(a)
    /\ Handles(<<r, a>>, "reprobe", EachRoot)
    /\ UNCHANGED <<inputVars, assets, manifest, planVars, witness>>

RecheckProbe(r) ==
    /\ pc = "reprobe" /\ assets[ProbeFile(r)] = probe[r]
    /\ Handles(<<r>>, IF args.manifest THEN "rebind" ELSE "write", {})
    /\ UNCHANGED <<inputVars, assets, manifest, planVars, witness>>

RecheckManifest ==
    /\ pc = "rebind" /\ assets[ImageSet] = bound
    /\ pc' = "write"
    /\ UNCHANGED <<inputVars, assets, manifest, left, planVars, witness>>

\* Each check above that does not hold refuses.
Mismatch ==
    \/ pc = "read" /\ args.manifest /\ assets[ImageSet] = None
    \/ \E a \in Artifacts : pc = "read" /\ <<a>> \in left /\ assets[a] = None
    \/ pc = "select" /\ ~select_pairs
    \/ \E r \in Pairs : pc = "plan" /\ <<r>> \in left /\ assets[ProbeFile(r)] \notin Suits
    \/ \E r \in Members, a \in Artifacts :
           pc \in {"plan", "recheck"} /\ <<r, a>> \in left /\ ~AsRecorded(a)
    \/ \E r \in Pairs : pc = "reprobe" /\ <<r>> \in left /\ assets[ProbeFile(r)] # probe[r]
    \/ pc = "rebind" /\ assets[ImageSet] # bound

RefuseMismatch == Mismatch /\ Refuse

WriteWitness ==
    /\ pc = "write" /\ pc' = "done"
    /\ witness' = "ready"
    /\ UNCHANGED <<inputVars, assets, manifest, left, planVars>>

-----------------------------------------------------------------------------
Witness ==
    \/ ReadManifest \/ UnlinkWitness \/ Selects \/ RecheckManifest \/ WriteWitness
    \/ \E a \in Artifacts : DescribeBuild(a)
    \/ \E r \in Pairs : HashProbe(r) \/ PlanBoot(r) \/ Boot(r) \/ BootFails(r) \/ RecheckProbe(r)
    \/ \E r \in Pairs, a \in Artifacts : CheckRecord(r, a) \/ Recheck(r, a)
    \/ RefuseMismatch \/ Fail

Others == \E f \in Files, b \in Bytes : Change(f, b)

\* What becomes of the files afterwards is not looked at.
Next == Witness \/ (~Ended /\ Others /\ UNCHANGED witnessVars)

Spec == Init /\ [][Next]_vars

-----------------------------------------------------------------------------
(* Properties.                                                                *)

\* A witness of success leaves nothing out and is about the bytes it names:
\* every workload root of the inventory was booted, from the one member that
\* has its profile and mode, with the kernel of the same, as the manifest (or
\* the build) has them, and with the very probe whose BusyBox was looked at;
\* and the marker in that root was accepted.
WitnessIsOfTheCandidate ==
    witness = "ready" => \A key \in Keys : \E r, k \in listed :
        /\ {m \in listed : KeyOf[m] = key /\ RoleOf[m] = "workload_rootfs"} = {r}
        /\ {m \in listed : KeyOf[m] = key /\ RoleOf[m] = "workload_kernel"} = {k}
        /\ booted[r] = [root |-> manifest[FileOf[r]], kernel |-> manifest[FileOf[k]],
                        probe |-> probe[r]]
        /\ k \in Direct /\ booted[r].root \in Bootable /\ booted[r].probe \in Suits

\* After a boot was so much as attempted, also when the first one failed, a
\* witness that is there was written by this invocation once everything had been
\* booted and rechecked: a failed boot leaves no evidence of an earlier one.
NoStaleEvidence ==
    (\E m \in Members : booted[m] # None) =>
        witness = IF pc = "done" THEN "ready" ELSE "absent"
=============================================================================
