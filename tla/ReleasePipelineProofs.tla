------------------------ MODULE ReleasePipelineProofs ------------------------
(* What a publication rests on, for any number of members, files, merged      *)
(* commits and attempts, and for others who change the files of the job as    *)
(* long as no content that was replaced comes back.                           *)
EXTENDS ReleasePipeline, TLAPS

\* Only the publish job publishes, and it begins behind the gate, with the
\* commit that the gate found in main: the tag does not move, main only grows.
GateIsPassed ==
    /\ phase = "gate" => passed = Gates
    /\ phase = "publish" => passed = Gates /\ IsAncestor(tag)
    /\ step = "published" => phase = "publish"

LEMMA NextKeepsGateIsPassed ==
    ASSUME GateIsPassed, [PipelineNext]_pipelineVars
    PROVE  GateIsPassed'
<1> USE DEF GateIsPassed, IsAncestor
<1>1. ASSUME NEW c \in Commits, HeadMoves(c) PROVE GateIsPassed'
  BY <1>1 DEF HeadMoves, jobVars, stepVars
<1>2. CASE Merges
  BY <1>2 DEF Merges, jobVars, stepVars
<1>3. CASE Compares \/ Tags
  BY <1>3 DEF Compares, Tags, Advances, jobVars, stepVars
<1>4. ASSUME NEW j \in Gates, Passes(j) PROVE GateIsPassed'
  BY <1>4 DEF Passes, jobVars, stepVars, releaseVars
<1>5. CASE JobFails \/ StartsPublishing
  BY <1>5 DEF JobFails, StartsPublishing, Advances, jobVars, stepVars
<1>6. CASE PassesGate \/ RefusesCommit
  BY <1>6 DEF PassesGate, RefusesCommit, Advances, jobVars, stepVars
<1>7. CASE Publishing
  BY <1>7 DEF Publishing, releaseVars
<1>8. ASSUME NEW all \in BOOLEAN, Reruns(all) PROVE GateIsPassed'
  BY <1>8 DEF Reruns
<1>9. CASE UNCHANGED pipelineVars
  BY <1>9 DEF pipelineVars, jobVars, stepVars, releaseVars
<1>10. QED
  BY <1>1, <1>2, <1>3, <1>4, <1>5, <1>6, <1>7, <1>8, <1>9 DEF PipelineNext

\* What is published passed both jobs and is of main, although HEAD was
\* compared with main long before it was tagged, and whichever attempt it is.
THEOREM PublicationIsOfMain == PipelineSpec => []PublishedIsOfMain
<1>1. PipelineInit => GateIsPassed
  BY DEF PipelineInit, JobInit, GateIsPassed
<1>2. GateIsPassed => PublishedIsOfMain
  BY DEF GateIsPassed, IsAncestor, PublishedIsOfMain
<1>3. QED
  BY <1>1, <1>2, NextKeepsGateIsPassed, PTL DEF PipelineSpec

-----------------------------------------------------------------------------
(* The assembly. A digest that was taken is the content of its file at some   *)
(* instant since the inspection; the recheck at the end leaves no room in     *)
(* between.                                                                   *)

Older(b, c) == b = c \/ <<b, c>> \in Mutations

LEMMA OlderIsAnOrder ==
    /\ \A b, c, d : Older(b, c) /\ Older(c, d) => Older(b, d)
    /\ \A b, c : Older(b, c) /\ Older(c, b) => b = c
BY NothingComesBack DEF NoReversal, Acyclic, Older

Later    == {"members", "sbom", "pack", "render", "final", "manifest"} \cup Written
Finished == {"manifest"} \cup Written

\* The marker of the recorded content of a root was read.
Inspected(r) ==
    /\ inspected[r] \in Bytes /\ MarkerOf[inspected[r]] \in contracts
    /\ Older(inspected[r], assets[r])

\* A use took its digest since the inspection.
Since(v, r) == Older(inspected[r], v) /\ Older(v, assets[r])

Agreed(r) == sbom[r] = inspected[r] /\ pack[r] = inspected[r] /\ rendered[r] = inspected[r]

AreThere ==
    /\ pc = "require" => \A a \in Artifacts \ left : assets[a] \in Bytes
    /\ pc \in {"roots", "inspect", "rehash", "contracts"} \cup Later =>
           \A a \in Artifacts : assets[a] \in Bytes

Inspection ==
    /\ pc \in {"roots", "inspect", "rehash"} => \A r \in Roots \ left : Inspected(r)
    /\ pc = "inspect" => inspected[root] \in Bytes /\ Older(inspected[root], assets[root])
    /\ pc = "rehash" =>
           /\ inspected[root] \in Bytes
           /\ \E b \in Bytes : Since(b, root) /\ MarkerOf[b] \in contracts
    /\ pc \in {"contracts"} \cup Later => \A r \in Roots : Inspected(r)
    /\ pc \in Later => contracts = {Contract}

Uses ==
    /\ pc \notin Later \cup {"refused"} => todo = Members
    /\ pc \in Later => \A m \in Members \ todo : \A r \in Of[m] \cap Roots :
           Since(sbom[r], r) /\ Since(pack[r], r)
    /\ pc = "sbom" => \A r \in (Of[member] \cap Roots) \ left : Since(sbom[r], r)
    /\ pc \in {"pack", "render"} => \A r \in Of[member] \cap Roots : Since(sbom[r], r)
    /\ pc = "pack" => \A r \in (Of[member] \cap Roots) \ left : Since(pack[r], r)
    /\ pc = "render" => \A r \in Of[member] \cap Roots : Since(pack[r], r)
    /\ pc = "final" => \A r \in Roots \ left : Agreed(r)
    /\ pc \in Finished => \A r \in Roots : Agreed(r)

Entries ==
    /\ pc \in Later => \A m \in Members \ todo : \A a \in Of[m] : rendered[a] \in Bytes
    /\ pc = "render" => \A a \in Of[member] \ left : rendered[a] \in Bytes
    /\ pc \in {"final"} \cup Finished => todo = {}

AssembleInv == TypeOK /\ AreThere /\ Inspection /\ Uses /\ Entries

\* A file is changed to something fresher, or a file that is no artifact is.
Forward ==
    /\ assets' \in Digests(Files)
    /\ \A a \in Artifacts : assets[a] \in Bytes => assets'[a] \in Bytes
    /\ \A a \in Artifacts : \A v : Older(v, assets[a]) => Older(v, assets'[a])

LEMMA RootsAreFiles ==
    /\ Roots \subseteq Artifacts /\ Artifacts \subseteq Files
    /\ \A m \in Members : Of[m] \subseteq Artifacts
    /\ \A a \in Artifacts : \E m \in Members : a \in Of[m]
BY AssembleAssumption DEF Artifacts

LEMMA ForwardKeepsAssembleInv ==
    ASSUME AssembleInv, Forward, UNCHANGED assembleVars
    PROVE  AssembleInv'
<1> USE DEF assembleVars, loopVars, tableVars, outputVars
<1>1. TypeOK'
  BY DEF AssembleInv, TypeOK, Forward
<1>2. AreThere'
  BY DEF AssembleInv, AreThere, Forward
<1>3. \A r \in Roots : (Inspected(r) => Inspected(r)') /\ Agreed(r)' = Agreed(r)
                       /\ \A v : Since(v, r) => Older(inspected[r], v) /\ Older(v, assets'[r])
  BY RootsAreFiles DEF Inspected, Agreed, Since, Forward
<1>4. Inspection'
  <2>1. pc = "inspect" => Older(inspected[root], assets'[root])
    BY RootsAreFiles DEF AssembleInv, Inspection, TypeOK, Forward
  <2>2. pc = "rehash" =>
            \E b \in Bytes : Older(inspected[root], b) /\ Older(b, assets'[root]) /\ MarkerOf[b] \in contracts
    BY <1>3 DEF AssembleInv, Inspection, TypeOK
  <2>3. QED
    BY <1>3, <2>1, <2>2 DEF AssembleInv, Inspection, Since
<1>5. Uses'
  BY <1>3 DEF AssembleInv, Uses, Since
<1>6. Entries'
  BY DEF AssembleInv, Entries
<1>7. QED
  BY <1>1, <1>2, <1>4, <1>5, <1>6 DEF AssembleInv

\* The steps before the members are taken.
LEMMA PreparingKeepsAssembleInv ==
    ASSUME AssembleInv,
           \/ \E d \in Aliases : EnsureAlias(d)
           \/ \E a \in Artifacts : RequireFile(a)
    PROVE  AssembleInv'
<1> USE DEF tableVars, outputVars, Later, Finished, Written
<1>1. ASSUME NEW d \in Aliases, EnsureAlias(d) PROVE AssembleInv'
  <2>1. d \in Files /\ SourceOf[d] \in Files
    BY AssembleAssumption
  <2>2. assets' \in Digests(Files)
    BY <1>1, <2>1 DEF EnsureAlias, AssembleInv, TypeOK, Digests
  <2>3. pc = "aliases" /\ ((pc' = "require" /\ left' = Artifacts) \/ (pc' = pc /\ left' = left \ {d}))
    BY <1>1 DEF EnsureAlias, Handles
  <2>4. QED
    BY <1>1, <2>2, <2>3, RootsAreFiles
       DEF EnsureAlias, AssembleInv, TypeOK, AreThere, Inspection, Uses, Entries, Places
<1>2. ASSUME NEW a \in Artifacts, RequireFile(a) PROVE AssembleInv'
  <2>1. pc = "require" /\ ((left = {a} /\ pc' = "roots" /\ left' = Roots) \/ (pc' = pc /\ left' = left \ {a}))
    BY <1>2 DEF RequireFile, Handles
  <2>2. assets[a] \in Bytes
    BY <1>2, RootsAreFiles DEF RequireFile, AssembleInv, TypeOK, Digests
  <2>3. TypeOK'
    BY <1>2, <2>1, RootsAreFiles DEF RequireFile, AssembleInv, TypeOK, Places
  <2>4. AreThere'
    BY <1>2, <2>1, <2>2 DEF RequireFile, AssembleInv, AreThere
  <2>5. QED
    BY <1>2, <2>1, <2>3, <2>4 DEF RequireFile, AssembleInv, Inspection, Uses, Entries
<1>3. QED
  BY <1>1, <1>2

\* The inspection: equal before and after, so equal while the marker was read.
LEMMA InspectingKeepsAssembleInv ==
    ASSUME AssembleInv, (\E r \in Roots : HashRoot(r)) \/ Inspect \/ Rehash \/ AgreeOnContract
    PROVE  AssembleInv'
<1> USE DEF outputVars, loopVars, tableVars, Later, Finished, Written
<1>1. ASSUME NEW r \in Roots, HashRoot(r) PROVE AssembleInv'
  <2>1. assets[r] \in Bytes /\ r \in Files
    BY <1>1, RootsAreFiles DEF HashRoot, AssembleInv, AreThere
  <2>2. /\ inspected' \in Digests(Roots) /\ inspected'[r] = assets[r]
        /\ \A q \in Roots \ {r} : inspected'[q] = inspected[q]
    BY <1>1, <2>1 DEF HashRoot, AssembleInv, TypeOK, Digests
  <2>3. TypeOK' /\ AreThere'
    BY <1>1, <2>2 DEF HashRoot, AssembleInv, TypeOK, AreThere, Places
  <2>4. Inspection'
    BY <1>1, <2>1, <2>2 DEF HashRoot, AssembleInv, Inspection, Inspected, Older
  <2>5. QED
    BY <1>1, <2>3, <2>4 DEF HashRoot, AssembleInv, Uses, Entries
<1>2. CASE Inspect
  <2>1. root \in Roots /\ assets[root] \in Bytes
    BY <1>2, RootsAreFiles DEF Inspect, AssembleInv, TypeOK, AreThere
  <2>2. TypeOK' /\ AreThere'
    BY <1>2, <2>1 DEF Inspect, AssembleInv, TypeOK, AreThere, Places
  <2>3. \A r \in Roots : Inspected(r) => Inspected(r)'
    BY <1>2 DEF Inspect, Inspected
  <2>4. Since(assets[root], root)' /\ MarkerOf[assets[root]] \in contracts'
    BY <1>2 DEF Inspect, AssembleInv, Inspection, Since, Older
  <2>5. Inspection'
    BY <1>2, <2>1, <2>3, <2>4 DEF Inspect, AssembleInv, Inspection, Since
  <2>6. QED
    BY <1>2, <2>2, <2>5 DEF Inspect, AssembleInv, Uses, Entries
<1>3. CASE Rehash
  <2>1. root \in Roots /\ Inspected(root)
    <3>1. PICK b \in Bytes : Since(b, root) /\ MarkerOf[b] \in contracts
      BY <1>3 DEF Rehash, AssembleInv, Inspection
    <3>2. assets[root] = inspected[root]
      BY <1>3 DEF Rehash, SameAsHashed
    <3>3. b = inspected[root]
      BY <3>1, <3>2, OlderIsAnOrder DEF Since
    <3>4. QED
      BY <1>3, <3>1, <3>2, <3>3 DEF Rehash, AssembleInv, Inspection, Inspected, Older, TypeOK
  <2>2. TypeOK' /\ AreThere'
    BY <1>3 DEF Rehash, AssembleInv, TypeOK, AreThere, Places
  <2>3. \A r \in Roots : Inspected(r)' = Inspected(r)
    BY <1>3 DEF Rehash, Inspected
  <2>4. Inspection'
    BY <1>3, <2>1, <2>3 DEF Rehash, AssembleInv, Inspection
  <2>5. QED
    BY <1>3, <2>2, <2>4 DEF Rehash, AssembleInv, Uses, Entries
<1>4. CASE AgreeOnContract
  <2>1. \A r \in Roots : Inspected(r)' = Inspected(r)
    BY <1>4 DEF AgreeOnContract, Inspected
  <2>2. TypeOK' /\ AreThere' /\ Inspection'
    BY <1>4, <2>1 DEF AgreeOnContract, AssembleInv, TypeOK, AreThere, Inspection, Places
  <2>3. QED
    BY <1>4, <2>2 DEF AgreeOnContract, AssembleInv, Uses, Entries
<1>5. QED
  BY <1>1, <1>2, <1>3, <1>4

\* The members: each use takes a digest of its own, since the inspection.
LEMMA UsingKeepsAssembleInv ==
    ASSUME AssembleInv,
           \/ \E m \in Members : StartMember(m)
           \/ \E a \in Artifacts : HashForSbom(a) \/ HashForPack(a) \/ Render(a)
    PROVE  AssembleInv'
<1> USE DEF outputVars, Later, Finished, Written
<1>1. ASSUME UNCHANGED <<assets, inspected, contracts>>, pc \in Later, pc' \in Later
      PROVE  AreThere' /\ Inspection'
  <2>1. \A r \in Roots : Inspected(r)' = Inspected(r)
    BY <1>1 DEF Inspected
  <2>2. QED
    BY <1>1, <2>1 DEF AssembleInv, AreThere, Inspection
<1>2. ASSUME UNCHANGED <<assets, inspected>>
      PROVE  \A v, r : Since(v, r) => Older(inspected'[r], v) /\ Older(v, assets'[r])
  BY <1>2 DEF Since
<1>3. \A r \in Roots : pc \in Later => Since(assets[r], r)
  BY DEF AssembleInv, Inspection, Inspected, Since, Older
<1>4. ASSUME NEW m \in Members, StartMember(m) PROVE AssembleInv'
  <2>1. TypeOK'
    BY <1>4, RootsAreFiles DEF StartMember, AssembleInv, TypeOK, tableVars, Places
  <2>2. AreThere' /\ Inspection'
    BY <1>1, <1>4 DEF StartMember, tableVars
  <2>3. Uses'
    BY <1>2, <1>4 DEF StartMember, AssembleInv, Uses, tableVars, Since
  <2>4. Entries'
    BY <1>4 DEF StartMember, AssembleInv, Entries, tableVars
  <2>5. QED
    BY <2>1, <2>2, <2>3, <2>4 DEF AssembleInv
<1>5. ASSUME NEW a \in Artifacts, HashForSbom(a) PROVE AssembleInv'
  <2>1. /\ pc = "sbom" /\ member \in todo /\ assets[a] \in Bytes
        /\ \/ left = {a} /\ pc' = "pack" /\ left' = Of[member]
           \/ pc' = "sbom" /\ left' = left \ {a}
    BY <1>5 DEF HashForSbom, Handles, AssembleInv, TypeOK, AreThere
  <2>2. /\ sbom' \in Digests(Artifacts) /\ sbom'[a] = assets[a]
        /\ \A r \in Artifacts \ {a} : sbom'[r] = sbom[r]
    BY <1>5, <2>1 DEF HashForSbom, AssembleInv, TypeOK, Digests
  <2>3. TypeOK'
    BY <1>5, <2>1, <2>2, RootsAreFiles DEF HashForSbom, AssembleInv, TypeOK, Places
  <2>4. AreThere' /\ Inspection'
    BY <1>1, <1>5, <2>1 DEF HashForSbom
  <2>5. \A r \in Roots : /\ Since(pack[r], r) => Since(pack[r], r)'
                         /\ Since(sbom[r], r) \/ r = a => Since(sbom[r], r)'
    BY <1>3, <1>5, <2>1, <2>2, RootsAreFiles DEF HashForSbom, Since
  <2>6. Uses'
    BY <1>5, <2>1, <2>5 DEF HashForSbom, AssembleInv, Uses
  <2>7. Entries'
    BY <1>5, <2>1 DEF HashForSbom, AssembleInv, Entries
  <2>8. QED
    BY <2>3, <2>4, <2>6, <2>7 DEF AssembleInv
<1>6. ASSUME NEW a \in Artifacts, HashForPack(a) PROVE AssembleInv'
  <2>1. /\ pc = "pack" /\ member \in todo /\ assets[a] \in Bytes
        /\ \/ left = {a} /\ pc' = "render" /\ left' = Of[member]
           \/ pc' = "pack" /\ left' = left \ {a}
    BY <1>6 DEF HashForPack, Handles, AssembleInv, TypeOK, AreThere
  <2>2. /\ pack' \in Digests(Artifacts) /\ pack'[a] = assets[a]
        /\ \A r \in Artifacts \ {a} : pack'[r] = pack[r]
    BY <1>6, <2>1 DEF HashForPack, AssembleInv, TypeOK, Digests
  <2>3. TypeOK'
    BY <1>6, <2>1, <2>2, RootsAreFiles DEF HashForPack, AssembleInv, TypeOK, Places
  <2>4. AreThere' /\ Inspection'
    BY <1>1, <1>6, <2>1 DEF HashForPack
  <2>5. \A r \in Roots : /\ Since(sbom[r], r) => Since(sbom[r], r)'
                         /\ Since(pack[r], r) \/ r = a => Since(pack[r], r)'
    BY <1>3, <1>6, <2>1, <2>2, RootsAreFiles DEF HashForPack, Since
  <2>6. Uses'
    BY <1>6, <2>1, <2>5 DEF HashForPack, AssembleInv, Uses
  <2>7. Entries'
    BY <1>6, <2>1 DEF HashForPack, AssembleInv, Entries
  <2>8. QED
    BY <2>3, <2>4, <2>6, <2>7 DEF AssembleInv
<1>7. ASSUME NEW a \in Artifacts, Render(a) PROVE AssembleInv'
  <2>1. /\ pc = "render" /\ member \in todo /\ assets[a] \in Bytes /\ a \in left
        /\ \/ /\ left = {a} /\ todo = {member} /\ pc' = "final" /\ left' = Roots
              /\ todo' = todo \ {member}
           \/ left = {a} /\ pc' = "members" /\ left' = {} /\ todo' = todo \ {member}
           \/ pc' = "render" /\ left' = left \ {a} /\ todo' = todo
    BY <1>7 DEF Render, Handles, AssembleInv, TypeOK, AreThere
  <2>2. /\ rendered' \in Digests(Artifacts) /\ rendered'[a] \in Bytes
        /\ \A b \in Artifacts \ {a} : rendered'[b] = rendered[b]
    BY <1>7, <2>1 DEF Render, AssembleInv, TypeOK, Digests
  <2>3. TypeOK'
    BY <1>7, <2>1, <2>2, RootsAreFiles DEF Render, AssembleInv, TypeOK, Places
  <2>4. AreThere' /\ Inspection'
    BY <1>1, <1>7, <2>1 DEF Render
  <2>5. \A r \in Roots : /\ Since(sbom[r], r) => Since(sbom[r], r)'
                         /\ Since(pack[r], r) => Since(pack[r], r)'
    BY <1>7 DEF Render, Since
  <2>6. Uses'
    BY <1>7, <2>1, <2>5 DEF Render, AssembleInv, Uses
  <2>7. \A b \in Artifacts : rendered[b] \in Bytes \/ b = a => rendered'[b] \in Bytes
    BY <2>2
  <2>8. Entries'
    BY <1>7, <2>1, <2>7, RootsAreFiles DEF Render, AssembleInv, Entries
  <2>9. QED
    BY <2>3, <2>4, <2>6, <2>8 DEF AssembleInv
<1>8. QED
  BY <1>4, <1>5, <1>6, <1>7

\* The recheck, and what is written after it.
LEMMA WritingKeepsAssembleInv ==
    ASSUME AssembleInv,
           (\E r \in Roots : Recheck(r)) \/ WriteManifest \/ WriteLock \/ WriteSubjects
    PROVE  AssembleInv'
<1> USE DEF outputVars, Later, Finished, Written
<1>1. pc \in {"final"} \cup Finished /\ todo = {} /\ todo' = todo
  BY DEF Recheck, WriteManifest, WriteLock, WriteSubjects, AssembleInv, Entries, loopVars
<1>2. \A a \in Artifacts : rendered[a] \in Bytes
  BY <1>1, RootsAreFiles DEF AssembleInv, Entries
<1>3. \A r \in Roots : Since(sbom[r], r) /\ Since(pack[r], r)
  BY <1>1, RootsAreFiles DEF AssembleInv, Uses
<1>4. UNCHANGED tableVars /\ \A a \in Artifacts : assets'[a] = assets[a]
  BY AssembleAssumption, RootsAreFiles
     DEF Recheck, WriteManifest, WriteLock, WriteSubjects, AssembleInv, TypeOK, Digests
<1>5. \A r \in Roots : /\ Inspected(r)' = Inspected(r) /\ Agreed(r)' = Agreed(r)
                       /\ Since(sbom[r], r)' = Since(sbom[r], r)
                       /\ Since(pack[r], r)' = Since(pack[r], r)
  BY <1>4, RootsAreFiles DEF Inspected, Agreed, Since, tableVars
<1>6. pc' \in {"final"} \cup Finished
  BY DEF Recheck, WriteManifest, WriteLock, WriteSubjects, Handles
<1>7. AreThere' /\ Inspection' /\ Entries'
  BY <1>1, <1>2, <1>4, <1>5, <1>6 DEF AssembleInv, AreThere, Inspection, Entries, tableVars
<1>8. ASSUME NEW r \in Roots, Recheck(r) PROVE AssembleInv'
  <2>1. /\ pc = "final" /\ rendered[r] = inspected[r] /\ assets[r] = inspected[r]
        /\ UNCHANGED <<assets, root, member, lock, subjects>>
        /\ \/ left = {r} /\ pc' = "manifest" /\ left' = {}
           \/ pc' = "final" /\ left' = left \ {r}
    BY <1>8 DEF Recheck, Unchanged, Handles
  <2>2. Agreed(r)
    BY <1>3, <2>1, OlderIsAnOrder DEF Since, Agreed
  <2>3. Uses'
    BY <1>1, <1>5, <1>3, <2>1, <2>2 DEF AssembleInv, Uses
  <2>4. TypeOK'
    BY <1>1, <1>4, <2>1 DEF AssembleInv, TypeOK, Places, tableVars
  <2>5. QED
    BY <1>7, <2>3, <2>4 DEF AssembleInv
<1>9. CASE WriteManifest \/ WriteLock \/ WriteSubjects
  <2>1. pc \in Finished /\ pc' \in Written /\ UNCHANGED loopVars
    BY <1>9 DEF WriteManifest, WriteLock, WriteSubjects
  <2>2. Uses'
    BY <1>1, <1>5, <2>1 DEF AssembleInv, Uses
  <2>3. assets' \in Digests(Files) /\ lock' \in Bytes \cup {None} /\ subjects' \in BOOLEAN
    <3>1. CASE WriteManifest
      BY <3>1, AssembleAssumption DEF WriteManifest, AssembleInv, TypeOK, Digests
    <3>2. CASE WriteLock
      BY <3>2, AssembleAssumption DEF WriteLock, AssembleInv, TypeOK, Digests
    <3>3. CASE WriteSubjects
      BY <3>3 DEF WriteSubjects, AssembleInv, TypeOK
    <3>4. QED
      BY <1>9, <3>1, <3>2, <3>3
  <2>4. rendered' \in [Artifacts -> Bytes]
    BY <1>2, <1>4 DEF AssembleInv, TypeOK, Digests, tableVars
  <2>5. TypeOK'
    BY <1>4, <2>1, <2>3, <2>4 DEF AssembleInv, TypeOK, Places, tableVars, loopVars
  <2>6. QED
    BY <1>7, <2>2, <2>5 DEF AssembleInv
<1>10. QED
  BY <1>8, <1>9

LEMMA AssembleKeepsInv ==
    ASSUME AssembleInv, Assemble
    PROVE  AssembleInv'
<1>1. CASE Refuse
  BY <1>1 DEF Refuse, loopVars, tableVars, outputVars, AssembleInv, TypeOK, AreThere, Inspection,
     Uses, Entries, Later, Finished, Written, Places
<1>2. QED
  BY <1>1, PreparingKeepsAssembleInv, InspectingKeepsAssembleInv, UsingKeepsAssembleInv,
     WritingKeepsAssembleInv
     DEF Assemble, RefuseAlias, RefuseMissing, RefuseRoot, RefuseRehash, RefuseRecheck, Fail

LEMMA ChangesAreForward ==
    ASSUME AssembleInv, NEW f \in Files, NEW b \in Bytes, Change(f, b)
    PROVE  Forward
<1>1. /\ assets' \in Digests(Files) /\ assets'[f] = b /\ Older(assets[f], b)
      /\ \A a \in Files \ {f} : assets'[a] = assets[a]
  BY DEF AssembleInv, TypeOK, Digests, Change, Older
<1>2. QED
  BY <1>1, OlderIsAnOrder, RootsAreFiles DEF Forward

\* An assembly begins with nothing inspected and nothing recorded.
LEMMA InitIsAssembleInv ==
    ASSUME Init
    PROVE  AssembleInv
<1>1. /\ pc \in {"aliases", "require"} /\ todo = Members
      /\ pc = "require" => left = Artifacts
  BY DEF Init
<1>2. TypeOK
  BY RootsAreFiles, AssembleAssumption DEF Init, TypeOK, Digests, Places, Written
<1>3. QED
  BY <1>1, <1>2 DEF AssembleInv, AreThere, Inspection, Uses, Entries, Later, Finished, Written

-----------------------------------------------------------------------------
(* The boots of the job are an invocation of boot-base-contract.py over the   *)
(* members as image-set.json has them, so what BaseContractWitnessProofs      *)
(* shows holds of them.                                                       *)

Witnessing == INSTANCE BaseContractWitnessProofs WITH
    args <- [manifest |-> TRUE, witness |-> TRUE, plan |-> FALSE],
    listed <- Members, Lists <- {Members}, Canonical <- Members,
    manifest <- rendered, pc <- bootPc, left <- bootLeft,
    Bootable <- {b \in Bytes : MarkerOf[b] = Contract}

\* What that module assumes of its constants.
LEMMA BootsAreAsAssumed ==
    /\ Of \in [Members -> SUBSET Witnessing!Artifacts] /\ FileOf \in [Members -> Witnessing!Artifacts]
    /\ \A m \in Members : FileOf[m] \in Of[m]
    /\ Witnessing!Artifacts \cup {ImageSet} \subseteq Files /\ Mutable \subseteq Files
    /\ ImageSet \notin Witnessing!Artifacts
    /\ DOMAIN RoleOf = Members /\ DOMAIN KeyOf = Members /\ Direct \subseteq Members
    /\ {Members} \subseteq SUBSET Members /\ Members \subseteq Members /\ Witnessing!Keys # {}
    /\ ProbeOf \in [{KeyOf[m] : m \in Members} -> Files]
    /\ {b \in Bytes : MarkerOf[b] = Contract} \subseteq Bytes /\ Suits \subseteq Bytes
    /\ None \notin Bytes
<1>1. Witnessing!Artifacts = Artifacts
  BY DEF Witnessing!Artifacts, Artifacts
<1>2. Witnessing!Keys # {}
  BY JobAssumption DEF Witnessing!Keys
<1>3. QED
  BY <1>1, <1>2, JobAssumption, AssembleAssumption

LEMMA NoBootReversal == Witnessing!NoReversal
BY NothingComesBack DEF Witnessing!NoReversal, Witnessing!Acyclic, NoReversal, Acyclic

\* Both instances name the same steps.
LEMMA BootsAreSteps ==
    ASSUME Booting!Witness
    PROVE  Witnessing!Witness
BY DEF Booting!Witness, Booting!ReadManifest, Booting!UnlinkWitness, Booting!Selects,
   Booting!RecheckManifest, Booting!WriteWitness, Booting!DescribeBuild, Booting!HashProbe,
   Booting!PlanBoot, Booting!Boot, Booting!BootFails, Booting!Attempt, Booting!RecheckProbe,
   Booting!CheckRecord, Booting!Recheck,
   Booting!RefuseMismatch, Booting!Fail, Booting!Refuse, Booting!Mismatch, Booting!Ended,
   Booting!Handles, Booting!Discard, Booting!OnePerKey, Booting!KeysOf, Booting!select_pairs,
   Booting!Pairs, Booting!KernelOf, Booting!RecordsOf, Booting!Records, Booting!EachRoot,
   Booting!AsRecorded, Booting!OthersWait, Booting!ProbeFile, Booting!Listed, Booting!Keys,
   Booting!Artifacts, Booting!inputVars, Booting!planVars,
   Witnessing!Witness, Witnessing!ReadManifest, Witnessing!UnlinkWitness, Witnessing!Selects,
   Witnessing!RecheckManifest, Witnessing!WriteWitness, Witnessing!DescribeBuild,
   Witnessing!HashProbe, Witnessing!PlanBoot, Witnessing!Boot, Witnessing!BootFails, Witnessing!Attempt,
   Witnessing!RecheckProbe,
   Witnessing!CheckRecord, Witnessing!Recheck, Witnessing!RefuseMismatch, Witnessing!Fail,
   Witnessing!Refuse, Witnessing!Mismatch, Witnessing!Ended, Witnessing!Handles,
   Witnessing!Discard, Witnessing!OnePerKey, Witnessing!KeysOf, Witnessing!select_pairs,
   Witnessing!Pairs, Witnessing!KernelOf, Witnessing!RecordsOf, Witnessing!Records,
   Witnessing!EachRoot, Witnessing!AsRecorded, Witnessing!OthersWait, Witnessing!ProbeFile,
   Witnessing!Listed, Witnessing!Keys, Witnessing!Artifacts, Witnessing!inputVars,
   Witnessing!planVars

\* An invocation begins with its invariant.
LEMMA BootsBegin == Witnessing!Init => Witnessing!WitnessInv
BY BootsAreAsAssumed, Witnessing!InitIsWitnessInv

LEMMA BootsBeginNext == Witnessing!Init' => Witnessing!WitnessInv'
BY BootsBegin, PTL

-----------------------------------------------------------------------------
(* The job.                                                                   *)

\* The boots have not begun, or they are an invocation, which has succeeded when
\* the job is past them.
BootsAreWitnessed ==
    /\ step = "assemble" => Booting!Start /\ witness = "absent"
    /\ step \notin {"assemble", "failed"} => Witnessing!WitnessInv /\ pc = "assembled"
    /\ step = "boot" => bootPc \notin {"done", "refused"}
    /\ step \notin {"assemble", "boot", "failed"} => bootPc = "done" /\ witness = "ready"

Sealed(s) == assets[s] = SubjectDigest[s]

\* Files are as recorded from their check on, and assets as the files were.
SubjectsAreSealed ==
    /\ step = "check" => \A s \in (Subjects \ unchecked) \ late : Sealed(s)
    /\ step = "attest" => unchecked = Subjects /\ \A s \in Subjects \ late : Sealed(s)
    /\ step \in {"upload", "publish", "published"} => attested = SubjectDigest
    /\ step = "upload" =>
           /\ \A s \in unchecked \ late : Sealed(s)
           /\ \A s \in (Subjects \ unchecked) \ late : uploaded[s] = SubjectDigest[s]
           /\ \A s \in Subjects \ unchecked : uploaded[s] \in Bytes
    /\ step \in {"publish", "published"} =>
           /\ \A s \in Subjects \ late : uploaded[s] = SubjectDigest[s]
           /\ \A s \in Subjects : uploaded[s] \in Bytes

StepTypes ==
    /\ step \in {"assemble", "boot", "sign", "verify", "check", "attest", "upload",
                 "publish", "published", "failed"}
    /\ unchecked \subseteq Subjects /\ late \subseteq Subjects
    /\ attested \in Digests(Subjects) /\ uploaded \in Digests(Subjects)

JobInv ==
    /\ AssembleInv /\ Witnessing!TypeOK
    /\ BootsAreWitnessed /\ SubjectsAreSealed /\ StepTypes

LEMMA SubjectsAreFiles ==
    /\ Subjects \subseteq Files /\ Artifacts \subseteq Subjects /\ ImageSet \in Subjects
    /\ ImageSet \notin Artifacts
BY AssembleAssumption, RootsAreFiles DEF Subjects

\* Booting and Witnessing have the same types.
LEMMA BootTypes == Witnessing!TypeOK <=> Booting!TypeOK
BY DEF Witnessing!TypeOK, Booting!TypeOK, Witnessing!Arguments, Booting!Arguments,
   Witnessing!Digests, Booting!Digests, Witnessing!Places, Booting!Places,
   Witnessing!Artifacts, Booting!Artifacts, Witnessing!Boots, Booting!Boots,
   Witnessing!Listed, Booting!Listed

LEMMA StartTypes ==
    ASSUME Booting!Start, witness = "absent", TypeOK
    PROVE  Witnessing!TypeOK
<1>1. rendered \in Digests(Artifacts) /\ assets \in Digests(Files)
  BY DEF TypeOK
<1>2. bootPc = "read" /\ bound = None /\ bootLeft = {}
      /\ probe = [m \in Members |-> None] /\ booted = [m \in Members |-> None]
  BY DEF Booting!Start
<1>3. QED
  BY <1>1, <1>2
     DEF Witnessing!TypeOK, Witnessing!Arguments, Witnessing!Digests, Witnessing!Places,
         Witnessing!Artifacts, Artifacts, Digests

\* The first boot finds what assembly left.
LEMMA AssembledBeginsBoots ==
    ASSUME AssembleInv', pc' = "assembled", Booting!Start, witness = "absent",
           UNCHANGED bootVars
    PROVE  Witnessing!WitnessInv'
<1>1. rendered' \in [Artifacts -> Bytes] /\ assets' \in Digests(Files)
  BY DEF AssembleInv, TypeOK, Written
<1>2. bootPc' = "read" /\ bound' = None /\ bootLeft' = {} /\ witness' = "absent"
      /\ probe' = [m \in Members |-> None] /\ booted' = [m \in Members |-> None]
  BY DEF Booting!Start, bootVars
<1>3. Witnessing!Init'
  BY <1>1, <1>2
     DEF Witnessing!Init, Witnessing!Start, Witnessing!Arguments, Witnessing!Digests, Digests,
         Witnessing!Artifacts, Artifacts
<1>4. QED
  BY <1>3, BootsBeginNext

\* Files that change do so while the boots go on, or when they are over.
LEMMA ChangeKeepsWitnessed ==
    ASSUME Witnessing!WitnessInv, NEW f \in Files, NEW b \in Bytes, Change(f, b), Forward,
           UNCHANGED <<assembleVars, bootVars>>
    PROVE  Witnessing!WitnessInv'
<1>1. UNCHANGED Witnessing!witnessVars
  BY DEF Witnessing!witnessVars, Witnessing!inputVars, assembleVars, tableVars, bootVars
<1>2. CASE Witnessing!Ended
  <2>1. assets' \in Witnessing!Digests(Files)
    BY DEF Forward, Digests, Witnessing!Digests
  <2>2. QED
    BY <1>1, <1>2, <2>1, BootsAreAsAssumed, Witnessing!EndedKeepsWitnessInv
<1>3. CASE ~Witnessing!Ended
  <2>1. Witnessing!Change(f, b)
    BY DEF Change, Witnessing!Change
  <2>2. [Witnessing!Next]_(Witnessing!vars)
    BY <1>1, <1>3, <2>1 DEF Witnessing!Next, Witnessing!Others
  <2>3. QED
    BY <2>2, BootsAreAsAssumed, NoBootReversal, Witnessing!NextKeepsWitnessInv
<1>4. QED
  BY <1>2, <1>3

LEMMA StutterKeepsWitnessed ==
    ASSUME Witnessing!WitnessInv, UNCHANGED <<vars, bootVars>>
    PROVE  Witnessing!WitnessInv'
<1>1. UNCHANGED Witnessing!vars
  BY DEF Witnessing!vars, Witnessing!witnessVars, Witnessing!inputVars, vars, bootVars
<1>2. QED
  BY <1>1, BootsAreAsAssumed, NoBootReversal, Witnessing!NextKeepsWitnessInv

\* A step of the job that leaves files, assembly and boots alone keeps what is
\* known of them.
LEMMA QuietKeepsSetAndBoots ==
    ASSUME JobInv, UNCHANGED <<vars, bootVars>>,
           step' \in {step, "failed"} \/ {step, step'} \cap {"assemble", "boot", "failed"} = {}
    PROVE  AssembleInv' /\ Witnessing!TypeOK' /\ BootsAreWitnessed'
<1>1. Forward /\ UNCHANGED assembleVars
  BY DEF JobInv, AssembleInv, TypeOK, Forward, vars, assembleVars, loopVars, tableVars, outputVars
<1>2. AssembleInv'
  BY <1>1, ForwardKeepsAssembleInv DEF JobInv
<1>3. Witnessing!TypeOK' = Witnessing!TypeOK
  BY DEF vars, bootVars, Witnessing!TypeOK, Witnessing!Listed
<1>4. Witnessing!WitnessInv => Witnessing!WitnessInv'
  BY StutterKeepsWitnessed
<1>5. Booting!Start => Booting!Start'
  BY DEF Booting!Start, bootVars
<1>6. BootsAreWitnessed'
  BY <1>4, <1>5 DEF JobInv, BootsAreWitnessed, vars, bootVars
<1>7. QED
  BY <1>2, <1>3, <1>6 DEF JobInv

LEMMA AssemblesKeepsJobInv ==
    ASSUME JobInv, Assembles
    PROVE  JobInv'
<1>1. AssembleInv'
  BY AssembleKeepsInv DEF JobInv, Assembles
<1>2. /\ step = "assemble" /\ step' \in {"assemble", "boot", "failed"}
      /\ step' = "boot" => pc' = "assembled"
      /\ UNCHANGED <<bootVars, unchecked, attested, uploaded, late>>
  BY DEF Assembles
<1>3. Booting!Start /\ witness = "absent"
  BY <1>2 DEF JobInv, BootsAreWitnessed
<1>4. Booting!Start' /\ witness' = "absent" /\ bootPc' = "read"
  BY <1>2, <1>3 DEF Booting!Start, bootVars
<1>5. step' = "boot" => Witnessing!WitnessInv'
  BY <1>1, <1>2, <1>3, AssembledBeginsBoots
<1>6. Witnessing!TypeOK'
  <2>1. TypeOK'
    BY <1>1 DEF AssembleInv
  <2>2. rendered' \in Digests(Artifacts) /\ assets' \in Digests(Files)
    BY <2>1 DEF TypeOK
  <2>3. bootPc' = "read" /\ bound' = None /\ bootLeft' = {}
        /\ probe' = [m \in Members |-> None] /\ booted' = [m \in Members |-> None]
    BY <1>4 DEF Booting!Start
  <2>4. QED
    BY <1>4, <2>2, <2>3
       DEF Witnessing!TypeOK, Witnessing!Arguments, Witnessing!Digests, Witnessing!Places,
           Witnessing!Artifacts, Artifacts, Digests
<1>7. BootsAreWitnessed' /\ SubjectsAreSealed' /\ StepTypes'
  BY <1>2, <1>4, <1>5 DEF BootsAreWitnessed, SubjectsAreSealed, StepTypes, JobInv
<1>8. QED
  BY <1>1, <1>6, <1>7 DEF JobInv

LEMMA BootsKeepJobInv ==
    ASSUME JobInv, BootsRoots
    PROVE  JobInv'
<1>1. Witnessing!Witness /\ step = "boot" /\ Witnessing!WitnessInv /\ pc = "assembled"
      /\ bootPc \notin {"done", "refused"}
  BY BootsAreSteps DEF BootsRoots, JobInv, BootsAreWitnessed
<1>2. assets' = assets
  BY <1>1, BootsAreAsAssumed, Witnessing!WitnessLeavesFiles
<1>3. [Witnessing!Next]_(Witnessing!vars)
  BY <1>1 DEF Witnessing!Next
<1>4. Witnessing!WitnessInv'
  BY <1>1, <1>3, BootsAreAsAssumed, NoBootReversal, Witnessing!NextKeepsWitnessInv
<1>5. Witnessing!TypeOK'
  BY <1>4 DEF Witnessing!WitnessInv
<1>6. bootPc' = "done" => witness' = "ready"
  BY <1>1, <1>3, BootsAreAsAssumed, Witnessing!NextPlace DEF Witnessing!Ended
<1>7. /\ step' \in {"boot", "sign", "failed"} /\ (step' = "boot" => bootPc' \notin {"done", "refused"})
      /\ step' = "sign" => bootPc' = "done"
      /\ UNCHANGED <<assembleVars, unchecked, attested, uploaded, late>>
  BY DEF BootsRoots
<1>8. pc' = pc
  BY <1>7 DEF assembleVars
<1>9. AssembleInv'
  <2>1. Forward
    BY <1>2 DEF JobInv, AssembleInv, TypeOK, Forward
  <2>2. QED
    BY <1>7, <2>1, ForwardKeepsAssembleInv DEF JobInv
<1>10. BootsAreWitnessed' /\ SubjectsAreSealed' /\ StepTypes'
  BY <1>1, <1>4, <1>6, <1>7, <1>8 DEF BootsAreWitnessed, SubjectsAreSealed, StepTypes, JobInv
<1>11. QED
  BY <1>5, <1>9, <1>10 DEF JobInv

\* Signing, verifying, checking, attesting, uploading and publishing.
LEMMA ReleasingKeepsJobInv ==
    ASSUME JobInv,
           \/ Sign \/ Verify \/ Attest \/ Publish \/ StepFails
           \/ \E s \in Subjects : CheckSubject(s) \/ Upload(s)
    PROVE  JobInv'
<1> USE DEF Goes
<1>1. UNCHANGED <<vars, bootVars, late>>
  BY DEF Sign, Verify, Attest, Publish, StepFails, CheckSubject, Upload
<1>2. step' \in {step, "failed"} \/ {step, step'} \cap {"assemble", "boot", "failed"} = {}
  BY DEF Sign, Verify, Attest, Publish, StepFails, CheckSubject, Upload
<1>3. AssembleInv' /\ Witnessing!TypeOK' /\ BootsAreWitnessed'
  BY <1>1, <1>2, QuietKeepsSetAndBoots
<1>4. SubjectDigest \in Digests(Subjects) /\ SubjectDigest' = SubjectDigest
  BY <1>1, SubjectsAreFiles DEF JobInv, AssembleInv, TypeOK, SubjectDigest, Digests, Subjects, vars
<1>5. \A s : Sealed(s)' = Sealed(s)
  BY <1>1, <1>4 DEF Sealed, vars
<1>6. CASE Sign \/ Verify \/ Publish \/ StepFails
  <2>1. UNCHANGED <<attested, uploaded, late>>
    BY <1>1, <1>6 DEF Sign, Verify, Publish, StepFails
  <2>2. StepTypes'
    BY <1>6, <2>1 DEF Sign, Verify, Publish, StepFails, JobInv, StepTypes
  <2>3. \/ step' \in {"verify", "failed"}
        \/ step' = "check" /\ unchecked' = Subjects
        \/ step = "publish" /\ step' = "published"
    BY <1>6 DEF Sign, Verify, Publish, StepFails
  <2>4. SubjectsAreSealed'
    BY <1>4, <2>1, <2>3 DEF JobInv, SubjectsAreSealed
  <2>5. QED
    BY <1>3, <2>2, <2>4 DEF JobInv
<1>7. ASSUME NEW s \in Subjects, CheckSubject(s) PROVE JobInv'
  <2>1. /\ step = "check" /\ UNCHANGED <<attested, uploaded, late>> /\ Sealed(s)
        /\ \/ unchecked = {s} /\ step' = "attest" /\ unchecked' = Subjects
           \/ step' = "check" /\ unchecked' = unchecked \ {s}
    BY <1>1, <1>7 DEF CheckSubject, Matches, Sealed
  <2>2. SubjectsAreSealed'
    BY <1>5, <2>1 DEF JobInv, SubjectsAreSealed
  <2>3. StepTypes'
    BY <2>1 DEF JobInv, StepTypes
  <2>4. QED
    BY <1>3, <2>2, <2>3 DEF JobInv
<1>8. CASE Attest
  <2>1. step = "attest" /\ step' = "upload" /\ attested' = SubjectDigest
        /\ UNCHANGED <<uploaded, late, unchecked>>
    BY <1>1, <1>8 DEF Attest
  <2>2. StepTypes'
    BY <1>4, <2>1 DEF JobInv, StepTypes
  <2>3. unchecked = Subjects
    BY <2>1 DEF JobInv, SubjectsAreSealed
  <2>4. SubjectsAreSealed'
    BY <1>4, <1>5, <2>1, <2>3 DEF JobInv, SubjectsAreSealed
  <2>5. QED
    BY <1>3, <2>2, <2>4 DEF JobInv
<1>9. ASSUME NEW s \in Subjects, Upload(s) PROVE JobInv'
  <2>1. /\ step = "upload" /\ s \in unchecked /\ UNCHANGED <<attested, late>>
        /\ unchecked' = unchecked \ {s} /\ uploaded' = [uploaded EXCEPT ![s] = assets[s]]
        /\ step' = "upload" \/ (step' = "publish" /\ unchecked' = {})
    BY <1>1, <1>9 DEF Upload, Uploads
  <2>2. assets[s] \in Bytes
    BY <1>9, SubjectsAreFiles DEF Upload, JobInv, AssembleInv, TypeOK, Digests
  <2>3. /\ uploaded' \in Digests(Subjects) /\ uploaded'[s] = assets[s]
        /\ \A q \in Subjects \ {s} : uploaded'[q] = uploaded[q]
    BY <2>1, <2>2 DEF JobInv, StepTypes, Digests
  <2>4. StepTypes'
    BY <2>1, <2>3 DEF JobInv, StepTypes
  <2>5. SubjectsAreSealed'
    BY <1>4, <1>5, <2>1, <2>2, <2>3 DEF JobInv, SubjectsAreSealed, Sealed
  <2>6. QED
    BY <1>3, <2>4, <2>5 DEF JobInv
<1>10. QED
  BY <1>6, <1>7, <1>8, <1>9

LEMMA ChangesKeepJobInv ==
    ASSUME JobInv, NEW f \in Files, NEW b \in Bytes, ChangeAsset(f, b)
    PROVE  JobInv'
<1>1. /\ Change(f, b) /\ UNCHANGED <<assembleVars, bootVars, step, unchecked, attested, uploaded>>
      /\ late' = IF Checked(f) THEN late \cup {f} ELSE late
  BY DEF ChangeAsset
<1>2. Forward
  BY <1>1, ChangesAreForward DEF JobInv
<1>3. AssembleInv'
  BY <1>1, <1>2, ForwardKeepsAssembleInv DEF JobInv
<1>4. Witnessing!WitnessInv => Witnessing!WitnessInv'
  BY <1>1, <1>2, ChangeKeepsWitnessed
<1>5. Booting!Start => Booting!Start'
  BY <1>1 DEF Booting!Start, bootVars
<1>6. Witnessing!TypeOK'
  BY <1>1, <1>2 DEF JobInv, Forward, Digests, Witnessing!Digests, Witnessing!TypeOK,
     Witnessing!Listed, assembleVars, tableVars, bootVars
<1>7. BootsAreWitnessed'
  BY <1>1, <1>4, <1>5 DEF JobInv, BootsAreWitnessed, assembleVars, bootVars
<1>8. \A s \in Files \ {f} : assets'[s] = assets[s]
  BY <1>1 DEF Change, JobInv, AssembleInv, TypeOK, Digests
<1>9. SubjectDigest' = SubjectDigest
  BY <1>1 DEF SubjectDigest, assembleVars, tableVars, outputVars
<1>10. \A s \in Subjects \ {f} : Sealed(s)' = Sealed(s)
  BY <1>8, <1>9, SubjectsAreFiles DEF Sealed
<1>11. SubjectsAreSealed' /\ StepTypes'
  BY <1>1, <1>9, <1>10 DEF JobInv, SubjectsAreSealed, StepTypes, Checked
<1>12. QED
  BY <1>3, <1>6, <1>7, <1>11 DEF JobInv

LEMMA JobKeepsInv ==
    ASSUME JobInv, [JobNext]_jobVars
    PROVE  JobInv'
<1>1. CASE UNCHANGED jobVars
  <2>1. AssembleInv' /\ Witnessing!TypeOK' /\ BootsAreWitnessed'
    BY <1>1, QuietKeepsSetAndBoots DEF jobVars, stepVars
  <2>2. SubjectsAreSealed' /\ StepTypes'
    BY <1>1 DEF JobInv, SubjectsAreSealed, StepTypes, Sealed, SubjectDigest, jobVars, stepVars, vars
  <2>3. QED
    BY <2>1, <2>2 DEF JobInv
<1>2. QED
  BY <1>1, AssemblesKeepsJobInv, BootsKeepJobInv, ReleasingKeepsJobInv, ChangesKeepJobInv
     DEF JobNext, Steps

LEMMA JobBegins == JobInit => JobInv
<1> SUFFICES ASSUME JobInit PROVE JobInv
  OBVIOUS
<1>1. AssembleInv
  BY InitIsAssembleInv DEF JobInit
<1>2. Witnessing!TypeOK
  BY <1>1, StartTypes DEF JobInit, AssembleInv
<1>3. BootsAreWitnessed /\ SubjectsAreSealed /\ StepTypes
  BY DEF JobInit, BootsAreWitnessed, SubjectsAreSealed, StepTypes, Digests
<1>4. QED
  BY <1>1, <1>2, <1>3 DEF JobInv

LEMMA JobBeginsAgain == JobInit' => JobInv'
BY JobBegins, PTL

\* The runner of an attempt begins with what the build job uploaded.
BuiltIsKept == built \in Digests(Files) /\ built[ImageSet] = None

LEMMA PipelineKeepsJobInv ==
    ASSUME JobInv, BuiltIsKept, [PipelineNext]_pipelineVars
    PROVE  JobInv' /\ BuiltIsKept'
<1>1. ASSUME UNCHANGED jobVars PROVE JobInv'
  BY <1>1, JobKeepsInv
<1>2. ASSUME NEW all \in BOOLEAN, Reruns(all) PROVE JobInv'
  <2>1. JobInit'
    BY <1>2 DEF Reruns, JobInit, Init, Booting!Start, BuiltIsKept, Digests
  <2>2. QED
    BY <2>1, JobBeginsAgain
<1>3. ASSUME Publishing PROVE JobInv'
  BY <1>3, JobKeepsInv DEF Publishing
<1>4. JobInv'
  BY <1>1, <1>2, <1>3
     DEF PipelineNext, HeadMoves, Merges, Compares, Tags, Passes, JobFails, StartsPublishing,
         PassesGate, RefusesCommit, Advances, pipelineVars
<1>5. built' = built
  BY DEF PipelineNext, HeadMoves, Merges, Compares, Tags, Passes, JobFails, StartsPublishing,
     PassesGate, RefusesCommit, Advances, Publishing, Reruns, releaseVars, pipelineVars
<1>6. QED
  BY <1>4, <1>5 DEF BuiltIsKept

LEMMA JobInvIsInvariant == PipelineSpec => []JobInv
<1>1. PipelineInit => JobInv /\ BuiltIsKept
  BY JobBegins DEF PipelineInit, JobInit, Init, BuiltIsKept
<1>2. QED
  BY <1>1, PipelineKeepsJobInv, PTL DEF PipelineSpec

-----------------------------------------------------------------------------
\* The variables of the job keep their types through all attempts.
THEOREM JobTypeCorrect == PipelineSpec => []JobTypeOK
<1>1. JobInv => JobTypeOK
  <2> SUFFICES ASSUME JobInv PROVE JobTypeOK
    OBVIOUS
  <2>1. TypeOK /\ Booting!TypeOK
    BY BootTypes DEF JobInv, AssembleInv
  <2>2. step = "published" => uploaded \in [Subjects -> Bytes]
    BY DEF JobInv, SubjectsAreSealed, StepTypes, Digests
  <2>3. QED
    BY <2>1, <2>2 DEF JobTypeOK, JobInv, StepTypes
<1>2. QED
  BY <1>1, JobInvIsInvariant, PTL

\* The recorded digest of a root is of bytes in which the contract was read.
THEOREM RecordedRootsHaveTheContract == PipelineSpec => []RecordedRootsAreInspected
<1>1. JobInv => RecordedRootsAreInspected
  BY DEF JobInv, AssembleInv, Inspection, Uses, Inspected, Agreed, Later, Finished,
     RecordedRootsAreInspected
<1>2. QED
  BY <1>1, JobInvIsInvariant, PTL

\* SBOM and pack manifest of a root are of the same bytes, although each took
\* its own digest between the inspection and the recheck.
THEOREM UsesAgree == PipelineSpec => []EveryUseAgrees
<1>1. JobInv => EveryUseAgrees
  BY DEF JobInv, AssembleInv, Uses, Agreed, Finished, EveryUseAgrees
<1>2. QED
  BY <1>1, JobInvIsInvariant, PTL

\* A published asset is the attested subject.
THEOREM PublicationIsAttested == PipelineSpec => []PublishedIsAttested
<1>1. JobInv => PublishedIsAttested
  BY DEF JobInv, SubjectsAreSealed, PublishedIsAttested
<1>2. QED
  BY <1>1, JobInvIsInvariant, PTL

\* A published root is one sequence of bytes along the whole chain: assembly,
\* boot, attestation and upload each read the file for themselves.
THEOREM PublishedRootsWereBooted == PipelineSpec => []PublishedRootsAreWitnessed
<1>1. JobInv => PublishedRootsAreWitnessed
  <2> SUFFICES ASSUME JobInv, step = "published", NEW m \in Booting!Pairs
               PROVE  /\ witness = "ready" /\ booted[m].root = inspected[FileOf[m]]
                      /\ booted[m].kernel = attested[FileOf[Booting!KernelOf(m)]]
                      /\ sbom[FileOf[m]] = inspected[FileOf[m]]
                      /\ pack[FileOf[m]] = inspected[FileOf[m]]
                      /\ attested[FileOf[m]] = inspected[FileOf[m]]
                      /\ MarkerOf[inspected[FileOf[m]]] = Contract
                      /\ FileOf[m] \notin late => uploaded[FileOf[m]] = inspected[FileOf[m]]
    BY DEF PublishedRootsAreWitnessed
  <2>1. Witnessing!WitnessInv /\ pc = "assembled" /\ witness = "ready"
    BY DEF JobInv, BootsAreWitnessed
  <2>2. Witnessing!select_pairs /\ Witnessing!Complete
    BY <2>1 DEF Witnessing!WitnessInv, Witnessing!EvidenceIsFresh
  <2>3. m \in Witnessing!Pairs /\ Booting!KernelOf(m) = Witnessing!KernelOf(m)
    BY DEF Booting!Pairs, Witnessing!Pairs, Booting!Listed, Witnessing!Listed,
       Booting!KernelOf, Witnessing!KernelOf
  <2>4. Witnessing!Agrees(m)
    BY <2>2, <2>3 DEF Witnessing!Complete
  <2>5. booted[m].root = rendered[FileOf[m]]
        /\ booted[m].kernel = rendered[FileOf[Witnessing!KernelOf(m)]]
    BY <2>4 DEF Witnessing!Agrees, Witnessing!RootAgrees, Witnessing!KernelAgrees,
       Witnessing!RootFile, Witnessing!KernelFile
  <2>6. Witnessing!KernelOf(m) \in Members
    <3>1. Witnessing!KernelOf(m) \in Witnessing!Listed("workload_kernel")
      BY <2>2, <2>3, BootsAreAsAssumed, Witnessing!SelectionIsExact
    <3>2. QED
      BY <3>1 DEF Witnessing!Listed
  <2>7. m \in Members /\ FileOf[m] \in Roots
    BY <2>3, JobAssumption DEF Witnessing!Pairs, Witnessing!Listed
  <2>8. FileOf[m] \in Artifacts /\ FileOf[Witnessing!KernelOf(m)] \in Artifacts
    BY <2>6, <2>7, JobAssumption
  <2>9. \A a \in Artifacts : attested[a] = rendered[a] /\ (a \notin late => uploaded[a] = rendered[a])
    BY SubjectsAreFiles DEF JobInv, SubjectsAreSealed, SubjectDigest
  <2>10. Agreed(FileOf[m]) /\ Inspected(FileOf[m]) /\ contracts = {Contract}
    BY <2>1, <2>7 DEF JobInv, AssembleInv, Uses, Inspection, Later, Finished, Written
  <2>11. QED
    BY <2>1, <2>3, <2>5, <2>8, <2>9, <2>10 DEF Agreed, Inspected
<1>2. QED
  BY <1>1, JobInvIsInvariant, PTL
=============================================================================
