-------------------------- MODULE AssembleRelease ---------------------------
(* assemble of scripts/assemble-release.py: a directory of built artifacts is *)
(* turned into a release. Workload roots are inspected for their base-image   *)
(* contract; then every member gets an SBOM, a pack manifest and an entry in  *)
(* image-set.json, each of which hashes the files again, while somebody else  *)
(* may be changing them.                                                      *)
(*                                                                            *)
(* A digest stands for the bytes it was computed from, and a hashing reads    *)
(* its file at one instant. The members are taken in any order.               *)
EXTENDS Drift

CONSTANTS
    Files,      \* files of the job that others may change
    Members,    \* member_specs
    Of,         \* artifacts of each member
    Roots,      \* the ext4 roots of the workload_rootfs members
    Aliases,    \* stage0-vmlinux-*
    SourceOf,   \* the vmlinux-*-builder each of them is a copy of
    ImageSet,   \* image-set.json
    Bytes,      \* contents of a file
    Fresh,      \* the content of an image-set.json just written
    Mutable,    \* files that others do change
    Mutations,  \* <<b, c>>: a file may change from b to c
    MarkerOf,   \* the contract that the marker in a root declares, or None
    Contract,   \* images/base-image-contract.nix
    None

Artifacts == UNION {Of[m] : m \in Members}

ASSUME AssembleAssumption ==
    /\ Of \in [Members -> SUBSET Artifacts] /\ \A m \in Members : Of[m] # {}
    /\ \A m, n \in Members : m # n => Of[m] \cap Of[n] = {}
    /\ Members # {} /\ Roots # {} /\ Roots \subseteq Artifacts
    /\ Artifacts \cup Aliases \cup {ImageSet} \subseteq Files
    /\ ImageSet \notin Artifacts \cup Aliases /\ Mutable \subseteq Files
    /\ SourceOf \in [Aliases -> Files \ {ImageSet}]
    /\ Fresh \in Bytes /\ None \notin Bytes
    /\ DOMAIN MarkerOf = Bytes /\ Contract # None

\* See Drift: a change and its reversal between two hashings leave no trace.
NoReversal == Acyclic(Mutations, Bytes)

VARIABLES
    assets,     \* content of each file, None when missing or empty
    pc,
    left,       \* files the current loop has still to handle
    root,       \* workload root under inspection
    inspected,  \* digests of the roots taken before inspection
    contracts,  \* contracts the inspected markers declare
    todo,       \* members not yet rendered
    member,     \* member being rendered
    sbom,       \* digests in the SBOMs
    pack,       \* digests in the pack manifests
    rendered,   \* digests in the members of image-set.json
    lock,       \* digest of image-set.json pinned by images.lock
    subjects    \* the provenance subjects are written

loopVars   == <<left, root, todo, member>>
tableVars  == <<inspected, contracts, sbom, pack, rendered>>
outputVars == <<lock, subjects>>
assembleVars == <<pc, loopVars, tableVars, outputVars>>
vars       == <<assets, pc, left, root, inspected, contracts, todo, member, sbom,
                pack, rendered, lock, subjects>>

Digests(S) == [S -> Bytes \cup {None}]

Written == {"lock", "subjects", "assembled"}
Places  == {"aliases", "require", "roots", "inspect", "rehash", "contracts",
            "members", "sbom", "pack", "render", "final", "manifest", "refused"}
           \cup Written

TypeOK ==
    /\ assets \in Digests(Files)
    /\ pc \in Places
    /\ left \subseteq Files
    /\ root \in Roots \cup {None} /\ member \in Members \cup {None}
    /\ todo \subseteq Members
    /\ inspected \in Digests(Roots)
    /\ contracts \subseteq {MarkerOf[b] : b \in Bytes} \ {None}
    /\ sbom \in Digests(Artifacts) /\ pack \in Digests(Artifacts)
    /\ rendered \in Digests(Artifacts)
    /\ lock \in Bytes \cup {None} /\ subjects \in BOOLEAN
    /\ pc \in {"inspect", "rehash"} => root \in Roots
    /\ pc \in {"sbom", "pack", "render"} => member \in todo /\ left \subseteq Of[member]
    /\ pc \in Written => rendered \in [Artifacts -> Bytes]

Init ==
    /\ assets \in {f \in Digests(Files) : f[ImageSet] = None}
    /\ pc = IF Aliases = {} THEN "require" ELSE "aliases"
    /\ left = IF Aliases = {} THEN Artifacts ELSE Aliases
    /\ root = None /\ member = None /\ todo = Members
    /\ inspected = [r \in Roots |-> None] /\ contracts = {}
    /\ sbom = [a \in Artifacts |-> None] /\ pack = sbom /\ rendered = sbom
    /\ lock = None /\ subjects = FALSE

-----------------------------------------------------------------------------
\* Somebody else changes a file.
Change(f, b) ==
    /\ f \in Mutable /\ <<assets[f], b>> \in Mutations
    /\ assets' = [assets EXCEPT ![f] = b]

\* Every Refusal, and every exception the tools or the file system raise; what
\* was already written to the directory stays there.
Refuse ==
    /\ pc' = "refused"
    /\ UNCHANGED <<assets, loopVars, tableVars, outputVars>>

Fail == pc \notin {"refused", "assembled"} /\ Refuse

\* Handles x of the current loop; the last one leads on to `next` over `rest`.
Handles(x, next, rest) ==
    /\ x \in left
    /\ IF left = {x} THEN pc' = next /\ left' = rest
                     ELSE left' = left \ {x} /\ UNCHANGED pc

(* ensure_stage0_aliases and require_file.                                    *)

Mismatched(d) == assets[d] \notin {None, assets[SourceOf[d]]}

EnsureAlias(d) ==
    /\ pc = "aliases" /\ assets[SourceOf[d]] # None /\ ~Mismatched(d)
    /\ assets' = [assets EXCEPT ![d] = assets[SourceOf[d]]]
    /\ Handles(d, "require", Artifacts)
    /\ UNCHANGED <<root, todo, member, tableVars, outputVars>>

RefuseAlias(d) ==
    /\ pc = "aliases" /\ d \in left /\ (assets[SourceOf[d]] = None \/ Mismatched(d))
    /\ Refuse

RequireFile(a) ==
    /\ pc = "require" /\ assets[a] # None
    /\ Handles(a, "roots", Roots)
    /\ UNCHANGED <<assets, root, todo, member, tableVars, outputVars>>

RefuseMissing(a) == pc = "require" /\ a \in left /\ assets[a] = None /\ Refuse

(* Every workload root: hash, read its marker, hash again.                    *)

HashRoot(r) ==
    /\ pc = "roots" /\ r \in left
    /\ inspected' = [inspected EXCEPT ![r] = assets[r]]
    /\ root' = r /\ pc' = "inspect"
    /\ UNCHANGED <<assets, left, todo, member, contracts, sbom, pack, rendered, outputVars>>

Inspect ==
    /\ pc = "inspect" /\ MarkerOf[assets[root]] # None
    /\ contracts' = contracts \cup {MarkerOf[assets[root]]}
    /\ pc' = "rehash"
    /\ UNCHANGED <<assets, loopVars, inspected, sbom, pack, rendered, outputVars>>

RefuseRoot == pc = "inspect" /\ MarkerOf[assets[root]] = None /\ Refuse

SameAsHashed(r) == assets[r] = inspected[r]

Rehash ==
    /\ pc = "rehash" /\ SameAsHashed(root) /\ root \in left
    /\ left' = left \ {root}
    /\ pc' = IF left = {root} THEN "contracts" ELSE "roots"
    /\ UNCHANGED <<assets, root, todo, member, tableVars, outputVars>>

RefuseRehash == pc = "rehash" /\ ~SameAsHashed(root) /\ Refuse

\* Markers that differ, and a base-image-contract.nix that is not 1, refuse;
\* while the only marker that reads as anything is 1, that is a case of Fail.
AgreeOnContract ==
    /\ pc = "contracts" /\ contracts = {Contract}
    /\ pc' = "members"
    /\ UNCHANGED <<assets, loopVars, tableVars, outputVars>>

(* Every member: its SBOM, its pack manifest, its entry in image-set.json.    *)

StartMember(m) ==
    /\ pc = "members" /\ m \in todo
    /\ member' = m /\ left' = Of[m] /\ pc' = "sbom"
    /\ UNCHANGED <<assets, root, todo, tableVars, outputVars>>

HashForSbom(a) ==
    /\ pc = "sbom" /\ Handles(a, "pack", Of[member])
    /\ sbom' = [sbom EXCEPT ![a] = assets[a]]
    /\ UNCHANGED <<assets, root, todo, member, inspected, contracts, pack, rendered, outputVars>>

HashForPack(a) ==
    /\ pc = "pack" /\ Handles(a, "render", Of[member])
    /\ pack' = [pack EXCEPT ![a] = assets[a]]
    /\ UNCHANGED <<assets, root, todo, member, inspected, contracts, sbom, rendered, outputVars>>

Render(a) ==
    /\ pc = "render"
    /\ rendered' = [rendered EXCEPT ![a] = assets[a]]
    /\ IF left = {a} /\ todo = {member} THEN Handles(a, "final", Roots)
                                        ELSE Handles(a, "members", {})
    /\ todo' = IF left = {a} THEN todo \ {member} ELSE todo
    /\ UNCHANGED <<assets, root, member, inspected, contracts, sbom, pack, outputVars>>

(* The roots once more, then image-set.json, images.lock and the subjects.    *)

\* Trusts the inspection to have been the last word (a mutant of Unchanged).
TrustsInspection(r) == inspected[r] # None

Unchanged(r) == rendered[r] = inspected[r] /\ assets[r] = inspected[r]

Recheck(r) ==
    /\ pc = "final" /\ Unchanged(r)
    /\ Handles(r, "manifest", {})
    /\ UNCHANGED <<assets, root, todo, member, tableVars, outputVars>>

RefuseRecheck(r) == pc = "final" /\ r \in left /\ ~Unchanged(r) /\ Refuse

WriteManifest ==
    /\ pc = "manifest" /\ pc' = "lock"
    /\ assets' = [assets EXCEPT ![ImageSet] = Fresh]
    /\ UNCHANGED <<loopVars, tableVars, outputVars>>

WriteLock ==
    /\ pc = "lock" /\ pc' = "subjects"
    /\ lock' = assets[ImageSet]
    /\ UNCHANGED <<assets, loopVars, tableVars, subjects>>

WriteSubjects ==
    /\ pc = "subjects" /\ pc' = "assembled"
    /\ subjects' = TRUE
    /\ UNCHANGED <<assets, loopVars, tableVars, lock>>

-----------------------------------------------------------------------------
Assemble ==
    \/ \E d \in Aliases : EnsureAlias(d) \/ RefuseAlias(d)
    \/ \E a \in Artifacts : RequireFile(a) \/ RefuseMissing(a)
    \/ \E r \in Roots : HashRoot(r) \/ Recheck(r) \/ RefuseRecheck(r)
    \/ Inspect \/ RefuseRoot \/ Rehash \/ RefuseRehash
    \/ AgreeOnContract
    \/ \E m \in Members : StartMember(m)
    \/ \E a \in Artifacts : HashForSbom(a) \/ HashForPack(a) \/ Render(a)
    \/ WriteManifest \/ WriteLock \/ WriteSubjects \/ Fail

Others == \E f \in Files, b \in Bytes : Change(f, b)

Next == Assemble \/ (Others /\ UNCHANGED assembleVars)

Spec == Init /\ [][Next]_vars

-----------------------------------------------------------------------------
(* Properties.                                                                *)

\* The digest that image-set.json gives of a workload root is that of the very
\* bytes in which the one supported contract was read, although the marker was
\* read between two hashings and the entry was made from a later one.
RecordedRootsAreInspected ==
    pc \in Written => \A r \in Roots :
        /\ rendered[r] = inspected[r]
        /\ rendered[r] \in Bytes /\ MarkerOf[rendered[r]] = Contract

\* SBOM, pack manifest and image-set.json of a written set agree with what was
\* inspected on every workload root, although each of them hashed it for itself:
\* "Hash before inspection and compare every later use and the final staged bytes".
EveryUseAgrees ==
    pc \in Written => \A r \in Roots :
        sbom[r] = inspected[r] /\ pack[r] = inspected[r]
=============================================================================
