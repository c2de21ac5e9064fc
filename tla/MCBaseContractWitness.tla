----------------------- MODULE MCBaseContractWitness ------------------------
(* Values for BaseContractWitness: the sealed root of one profile with its    *)
(* sidecar, and the unsealed one, each with a kernel of its own; a second     *)
(* kernel that does not boot directly; and one probe for both.                *)
EXTENDS BaseContractWitness, FiniteSets

CONSTANTS root, verity, dev_root, kernel, dev_kernel, other_kernel, probe_cpio,
          image_set, b1, b2, b3

AllMembers == {"root", "dev_root", "kernel", "dev_kernel", "other_kernel", "builder"}

ArtifactsOf ==
    [m \in AllMembers |-> CASE m = "root" -> {root, verity} [] m = "dev_root" -> {dev_root}
                             [] m = "kernel" -> {kernel} [] m = "dev_kernel" -> {dev_kernel}
                             [] m \in {"other_kernel", "builder"} -> {other_kernel}]

MainFile == [m \in AllMembers |-> IF m = "root" THEN root ELSE CHOOSE f \in ArtifactsOf[m] : TRUE]

Role == [m \in AllMembers |-> CASE m \in {"root", "dev_root"} -> "workload_rootfs"
                                 [] m = "builder" -> "other"
                                 [] OTHER -> "workload_kernel"]

Key == [m \in AllMembers |-> IF m \in {"dev_root", "dev_kernel"} THEN "dev" ELSE "sealed"]

Probe == [k \in {"dev", "sealed"} |-> probe_cpio]

Whole == {"root", "dev_root", "kernel", "dev_kernel", "builder"}

\* build_members leaves out what is no workload member.
Build == Whole \ {"builder"}

\* The whole set; one with two kernels of a kind; one whose only sealed kernel
\* is not direct; and sets that lack one member.
SomeLists ==
    {Whole, AllMembers, (Whole \ {"kernel"}) \cup {"other_kernel"}}
        \cup {Whole \ {m} : m \in Whole}

Once == {<<b1, b2>>}

ASSUME NothingComesBack == NoReversal

\* At the start one file at most is not b1, or one digest in the manifest is not,
\* or one member too many or too few is listed.
MCInit ==
    /\ args \in Arguments
    /\ listed \in IF args.manifest THEN Lists ELSE {Canonical}
    /\ \E a \in Artifacts, b \in IF args.manifest THEN {b1, b2} ELSE {None} :
           manifest = [x \in Artifacts |-> IF x = a \/ ~args.manifest THEN b ELSE b1]
    /\ \E f \in Files, b \in Bytes \cup {None} :
           assets = [x \in Files |-> IF x = f THEN b ELSE b1]
    /\ args.manifest =>
           \/ listed = Whole /\ \A f \in Files : assets[f] = b1
           \/ listed = Whole /\ \A a \in Artifacts : manifest[a] = b1
           \/ \A f \in Files, a \in Artifacts : assets[f] = b1 /\ manifest[a] = b1
    /\ witness \in {"absent", "stale"} /\ Start

MCSpec == MCInit /\ [][Next]_vars
=============================================================================
