---------------------- MODULE BaseContractWitnessProofs ----------------------
(* What a witness of boot-base-contract.py says, for any inventory, manifest  *)
(* and members, and for others who change any files, as long as no content    *)
(* that was replaced comes back.                                              *)
EXTENDS BaseContractWitness, TLAPS

Older(b, c) == b = c \/ <<b, c>> \in Mutations

LEMMA OlderIsAnOrder ==
    ASSUME NoReversal
    PROVE  /\ \A b, c, d : Older(b, c) /\ Older(c, d) => Older(b, d)
           /\ \A b, c : Older(b, c) /\ Older(c, b) => b = c
BY DEF NoReversal, Acyclic, Older

\* A loop over pairs of a root and an artifact does not mistake one of them for
\* a root alone.
LEMMA PairsAreNoRoots == \A r, q, a : <<r>> # <<q, a>>
OBVIOUS

\* What select_pairs admitted names one kernel for every root.
LEMMA SelectionIsExact ==
    ASSUME select_pairs, NEW r \in Pairs
    PROVE  /\ KernelOf(r) \in Listed("workload_kernel")
           /\ KeyOf[KernelOf(r)] = KeyOf[r] /\ KernelOf(r) \in Direct
<1>1. KeyOf[r] \in KeysOf(Listed("workload_kernel"))
  BY DEF select_pairs, Pairs, KeysOf
<1>2. \E k \in Listed("workload_kernel") : KeyOf[k] = KeyOf[r]
  BY <1>1 DEF KeysOf
<1>3. QED
  BY <1>2 DEF KernelOf, select_pairs

-----------------------------------------------------------------------------
\* A file that was as recorded has the recorded content or a later one.
Drifted(a) == Older(manifest[a], assets[a])

RootFile(r)   == FileOf[r]
KernelFile(r) == FileOf[KernelOf(r)]

\* The BusyBox of a root's probe was looked at after the probe was hashed.
ProbeDrifted(r, b) == \E s \in Suits : Older(probe[r], s) /\ Older(s, b)

PlanStands(r) ==
    /\ Drifted(RootFile(r)) /\ Drifted(KernelFile(r))
    /\ ProbeDrifted(r, assets[ProbeFile(r)])

\* A boot used its files between their planning and now.
BootStands(r) ==
    /\ booted[r] \in Boots /\ booted[r].root \in Bootable
    /\ Older(manifest[RootFile(r)], booted[r].root)
    /\ Older(booted[r].root, assets[RootFile(r)])
    /\ Older(manifest[KernelFile(r)], booted[r].kernel)
    /\ Older(booted[r].kernel, assets[KernelFile(r)])
    /\ ProbeDrifted(r, booted[r].probe)
    /\ Older(booted[r].probe, assets[ProbeFile(r)])

RootAgrees(r)   == booted[r].root = manifest[RootFile(r)]
KernelAgrees(r) == booted[r].kernel = manifest[KernelFile(r)]
ProbeAgrees(r)  == booted[r].probe = probe[r] /\ probe[r] \in Suits

Agrees(r) ==
    /\ booted[r] \in Boots /\ booted[r].root \in Bootable
    /\ RootAgrees(r) /\ KernelAgrees(r) /\ ProbeAgrees(r)

\* What each loop has done for a root; in the end the files themselves do not
\* matter any more.
PlanProgress(r) ==
    pc = "plan" =>
        /\ probe[r] # None => Older(probe[r], assets[ProbeFile(r)])
        /\ <<r>> \in left \/ (probe[r] # None /\ PlanStands(r))

BootProgress(r) == pc = "boot" => PlanStands(r) /\ (<<r>> \in left \/ BootStands(r))

RecheckProgress(r) ==
    pc = "recheck" =>
        /\ BootStands(r)
        /\ <<r, RootFile(r)>> \in left \/ RootAgrees(r)
        /\ <<r, KernelFile(r)>> \in left \/ KernelAgrees(r)

ReprobeProgress(r) ==
    pc = "reprobe" =>
        BootStands(r) /\ RootAgrees(r) /\ KernelAgrees(r) /\ (<<r>> \in left \/ ProbeAgrees(r))

LastProgress(r) == pc \in {"rebind", "write"} => Agrees(r)

Progress(r) ==
    PlanProgress(r) /\ BootProgress(r) /\ RecheckProgress(r) /\ ReprobeProgress(r) /\ LastProgress(r)

Complete == \A r \in Pairs : Agrees(r)

AfterSelection == {"plan", "boot", "recheck", "reprobe", "rebind", "write"}
Booting        == {"boot", "recheck", "reprobe", "rebind", "write"}

\* Evidence is discarded before anything is booted, and written last.
EvidenceIsFresh ==
    /\ args \in Arguments
    /\ pc \in {"read", "unlink", "select", "plan"} => \A m \in Members : booted[m] = None
    /\ pc \in {"select", "plan"} /\ args.witness /\ ~args.plan => witness = "absent"
    /\ pc \in Booting => witness = "absent" /\ args.witness /\ ~args.plan
    /\ NoStaleEvidence
    /\ witness = "ready" => pc = "done" /\ select_pairs /\ Complete

\* Probes are hashed for the plan, and all of them are before a boot.
ProbesAreHashed ==
    /\ pc \in {"read", "unlink", "select"} => \A m \in Members : probe[m] = None
    /\ pc \in Booting \cup {"done"} => \A r \in Pairs : probe[r] # None

WitnessInv ==
    /\ TypeOK
    /\ ProbesAreHashed
    /\ pc \in AfterSelection => select_pairs /\ \A r \in Pairs : Progress(r)
    /\ EvidenceIsFresh

-----------------------------------------------------------------------------
\* The arguments and the listed members stay, and so does what they select.
LEMMA SelectionStays ==
    ASSUME [Next]_vars
    PROVE  /\ args' = args /\ listed' = listed
           /\ Pairs' = Pairs /\ select_pairs' = select_pairs
           /\ \A r : KernelOf(r)' = KernelOf(r) /\ KernelFile(r)' = KernelFile(r)
           /\ Records' = Records /\ EachRoot' = EachRoot
<1>1. args' = args /\ listed' = listed
  <2>1. CASE Witness
    BY <2>1 DEF Witness, ReadManifest, UnlinkWitness, Selects, RecheckManifest, WriteWitness,
       DescribeBuild, HashProbe, PlanBoot, Boot, BootFails, Attempt, RecheckProbe, CheckRecord, Recheck,
       RefuseMismatch, Fail, Refuse, inputVars
  <2>2. CASE UNCHANGED witnessVars
    BY <2>2 DEF witnessVars, inputVars
  <2>3. QED
    BY <2>1, <2>2 DEF Next, vars
<1>2. \A role : Listed(role)' = Listed(role)
  BY <1>1 DEF Listed
<1>3. Pairs' = Pairs
  BY <1>2, Zenon DEF Pairs
<1>4. select_pairs' = select_pairs
  BY <1>2, Zenon DEF select_pairs
<1>5. \A r : KernelOf(r)' = KernelOf(r)
  BY <1>2, Zenon DEF KernelOf
<1>6. \A r : KernelFile(r)' = KernelFile(r) /\ RecordsOf(r)' = RecordsOf(r)
  BY <1>5, Zenon DEF KernelFile, RecordsOf
<1>7. Records' = Records
  BY <1>3, <1>6, Zenon DEF Records
<1>8. EachRoot' = EachRoot
  BY <1>3, Zenon DEF EachRoot
<1>9. QED
  BY <1>1, <1>3, <1>4, <1>5, <1>6, <1>7, <1>8

\* What the records of a selected pair are.
LEMMA RecordsAreOfMembers ==
    ASSUME TypeOK, select_pairs
    PROVE  /\ Records \subseteq Members \X Artifacts
           /\ EachRoot \subseteq {<<x>> : x \in Members}
           /\ \A r \in Pairs :
                  /\ r \in Members /\ KernelOf(r) \in Members
                  /\ <<r, RootFile(r)>> \in Records /\ <<r, KernelFile(r)>> \in Records
                  /\ RootFile(r) \in Files /\ KernelFile(r) \in Files /\ ProbeFile(r) \in Files
                  /\ RootFile(r) \in Artifacts /\ KernelFile(r) \in Artifacts
<1>1. listed \subseteq Members
  BY WitnessAssumption DEF TypeOK
<1>2. ASSUME NEW r \in Pairs
      PROVE  /\ r \in Members /\ KernelOf(r) \in Members
             /\ Of[r] \subseteq Artifacts /\ Of[KernelOf(r)] \subseteq Artifacts
             /\ RootFile(r) \in Of[r] /\ KernelFile(r) \in Of[KernelOf(r)]
  <2>1. r \in Members /\ KernelOf(r) \in Members
    BY <1>1, SelectionIsExact DEF Pairs, Listed
  <2>2. QED
    BY <2>1, WitnessAssumption DEF RootFile, KernelFile
<1>3. Records \subseteq Members \X Artifacts
  BY <1>2 DEF Records, RecordsOf
<1>4. EachRoot \subseteq {<<x>> : x \in Members}
  BY <1>2 DEF EachRoot
<1>5. ASSUME NEW r \in Pairs
      PROVE  <<r, RootFile(r)>> \in Records /\ <<r, KernelFile(r)>> \in Records
  BY <1>2 DEF Records, RecordsOf
<1>6. ASSUME NEW r \in Pairs
      PROVE  /\ RootFile(r) \in Artifacts /\ KernelFile(r) \in Artifacts
             /\ RootFile(r) \in Files /\ KernelFile(r) \in Files /\ ProbeFile(r) \in Files
  BY <1>2, WitnessAssumption DEF ProbeFile
<1>7. QED
  BY <1>2, <1>3, <1>4, <1>5, <1>6

-----------------------------------------------------------------------------
\* Handles(x, next, rest) leads on, or leaves the rest of the loop.
LEMMA HandlesALoop ==
    ASSUME NEW x, NEW next, NEW rest, Handles(x, next, rest)
    PROVE  \/ left = {x} /\ pc' = next /\ left' = rest
           \/ x \in left /\ left' = left \ {x} /\ pc' = pc
BY DEF Handles

\* Every step keeps the types.
LEMMA NextKeepsTypes ==
    ASSUME TypeOK, ProbesAreHashed', pc \in AfterSelection => select_pairs, [Next]_vars
    PROVE  TypeOK'
<1> DEFINE Work == (Members \X Artifacts) \cup {<<x>> : x \in Members \cup Artifacts}
<1>1. args' \in Arguments /\ listed' \in Lists \cup {Canonical}
  BY SelectionStays DEF TypeOK
<1>2. pc' \in {"boot", "recheck", "reprobe", "rebind", "write", "done"}
      /\ probe' \in Digests(Members) =>
          \A r \in Listed("workload_rootfs")' : probe'[r] \in Bytes
  <2>1. Pairs' \subseteq Members
    BY SelectionStays, WitnessAssumption DEF Pairs, Listed, TypeOK
  <2>2. QED
    BY <2>1 DEF ProbesAreHashed, Booting, Digests, Pairs
<1>3. CASE Witness
  <2>1. CASE ReadManifest \/ UnlinkWitness \/ RecheckManifest \/ WriteWitness
    BY <1>1, <1>2, <2>1, WitnessAssumption
       DEF ReadManifest, UnlinkWitness, Discard, RecheckManifest, WriteWitness, TypeOK, Places,
           Digests, inputVars, planVars
  <2>2. CASE Selects
    <3>1. left' \subseteq Work
      BY <2>2, RecordsAreOfMembers DEF Selects
    <3>2. QED
      BY <1>1, <1>2, <2>2, <3>1 DEF Selects, TypeOK, Places, planVars
  <2>3. ASSUME NEW a \in Artifacts, DescribeBuild(a) PROVE TypeOK'
    <3>1. left' \subseteq Work /\ pc' \in Places
      BY <2>3, HandlesALoop DEF DescribeBuild, TypeOK, Places
    <3>2. assets[a] \in Bytes
      BY <2>3, WitnessAssumption DEF DescribeBuild, TypeOK, Digests
    <3>3. manifest' \in Digests(Artifacts)
      BY <2>3, <3>2 DEF DescribeBuild, TypeOK, Digests
    <3>4. QED
      BY <1>1, <1>2, <2>3, <3>1, <3>3 DEF DescribeBuild, TypeOK, planVars
  <2>4. ASSUME NEW r \in Pairs, HashProbe(r) PROVE TypeOK'
    <3>1. r \in Members /\ ProbeFile(r) \in Files
      BY <2>4, RecordsAreOfMembers DEF HashProbe, AfterSelection
    <3>2. probe' \in Digests(Members)
      BY <2>4, <3>1 DEF HashProbe, TypeOK, Digests
    <3>3. QED
      BY <1>1, <1>2, <2>4, <3>2 DEF HashProbe, TypeOK
  <2>5. ASSUME NEW r \in Pairs, PlanBoot(r) PROVE TypeOK'
    <3>1. left' \subseteq Work /\ pc' \in Places
      BY <2>5, HandlesALoop, RecordsAreOfMembers DEF PlanBoot, TypeOK, Places, AfterSelection
    <3>2. QED
      BY <1>1, <1>2, <2>5, <3>1 DEF PlanBoot, TypeOK, planVars
  <2>6. ASSUME NEW r \in Pairs, Boot(r) \/ BootFails(r) PROVE TypeOK'
    <3>1. Attempt(r) /\ pc = "boot"
      BY <2>6 DEF Boot, BootFails, Attempt
    <3>2. left' \subseteq Work /\ pc' \in Places
      BY <2>6, <3>1, HandlesALoop, RecordsAreOfMembers
         DEF Boot, BootFails, TypeOK, Places, AfterSelection
    <3>3. r \in Members /\ {RootFile(r), KernelFile(r), ProbeFile(r)} \subseteq Files
      BY <3>1, RecordsAreOfMembers DEF AfterSelection
    <3>4. booted' \in [Members -> Boots \cup {None}]
      BY <3>1, <3>3 DEF Attempt, TypeOK, Boots, Digests, RootFile, KernelFile
    <3>5. QED
      BY <1>1, <1>2, <3>1, <3>2, <3>4 DEF Attempt, TypeOK
  <2>7. ASSUME NEW r \in Pairs, RecheckProbe(r) PROVE TypeOK'
    <3>1. left' \subseteq Work /\ pc' \in Places
      BY <2>7, HandlesALoop DEF RecheckProbe, TypeOK, Places
    <3>2. QED
      BY <1>1, <1>2, <2>7, <3>1 DEF RecheckProbe, TypeOK, planVars
  <2>8. ASSUME NEW r \in Pairs, NEW a \in Artifacts, CheckRecord(r, a) \/ Recheck(r, a)
        PROVE  TypeOK'
    <3>1. left' \subseteq Work /\ pc' \in Places
      BY <2>8, HandlesALoop, RecordsAreOfMembers
         DEF CheckRecord, Recheck, TypeOK, Places, AfterSelection
    <3>2. QED
      BY <1>1, <1>2, <2>8, <3>1 DEF CheckRecord, Recheck, TypeOK, planVars
  <2>9. CASE RefuseMismatch \/ Fail
    BY <1>1, <1>2, <2>9 DEF RefuseMismatch, Fail, Refuse, TypeOK, Places, planVars
  <2>10. QED
    BY <1>3, <2>1, <2>2, <2>3, <2>4, <2>5, <2>6, <2>7, <2>8, <2>9 DEF Witness
<1>4. ASSUME NEW f \in Files, NEW b \in Bytes, Change(f, b), UNCHANGED witnessVars PROVE TypeOK'
  <2>1. assets' \in Digests(Files)
    BY <1>4 DEF Change, TypeOK, Digests
  <2>2. QED
    BY <1>1, <1>2, <1>4, <2>1 DEF witnessVars, inputVars, TypeOK
<1>5. CASE UNCHANGED vars
  BY <1>1, <1>2, <1>5 DEF vars, witnessVars, inputVars, TypeOK
<1>6. QED
  BY <1>3, <1>4, <1>5 DEF Next, Others

-----------------------------------------------------------------------------
\* No step takes a file back to what it was.
Forward == \A a \in Files : \A v : Older(v, assets[a]) => Older(v, assets'[a])

LEMMA WitnessLeavesFiles ==
    ASSUME Witness
    PROVE  UNCHANGED assets
BY DEF Witness, ReadManifest, UnlinkWitness, Selects, RecheckManifest, WriteWitness,
   DescribeBuild, HashProbe, PlanBoot, Boot, BootFails, Attempt, RecheckProbe, CheckRecord, Recheck,
   RefuseMismatch, Fail, Refuse

LEMMA NextIsForward ==
    ASSUME NoReversal, TypeOK, [Next]_vars
    PROVE  Forward
<1>1. CASE UNCHANGED assets
  BY <1>1 DEF Forward
<1>2. ASSUME NEW f \in Files, NEW b \in Bytes, Change(f, b) PROVE Forward
  <2>1. \A a \in Files : Older(assets[a], assets'[a])
    BY <1>2 DEF Change, TypeOK, Digests, Older
  <2>2. QED
    BY <2>1, OlderIsAnOrder DEF Forward
<1>3. QED
  BY <1>1, <1>2, WitnessLeavesFiles DEF Next, Others, vars

\* What was planned and booted is so after a step that records nothing new.
LEMMA WhatStands ==
    ASSUME TypeOK, select_pairs, [Next]_vars, Forward, NEW r \in Pairs, manifest' = manifest,
           probe'[r] = probe[r], booted'[r] = booted[r]
    PROVE  /\ (PlanStands(r) => PlanStands(r)')
           /\ (BootStands(r) => BootStands(r)')
           /\ (RootAgrees(r) => RootAgrees(r)')
           /\ (KernelAgrees(r) => KernelAgrees(r)')
           /\ (ProbeAgrees(r) => ProbeAgrees(r)')
<1>1. KernelFile(r)' = KernelFile(r)
  BY SelectionStays
<1>2. RootFile(r) \in Files /\ KernelFile(r) \in Files /\ ProbeFile(r) \in Files
  BY RecordsAreOfMembers
<1>3. \A a \in Files : \A v : Older(v, assets[a]) => Older(v, assets'[a])
  BY DEF Forward
<1>4. ASSUME PlanStands(r) PROVE PlanStands(r)'
  BY <1>1, <1>2, <1>3, <1>4 DEF PlanStands, Drifted, ProbeDrifted
<1>5. ASSUME BootStands(r) PROVE BootStands(r)'
  BY <1>1, <1>2, <1>3, <1>5 DEF BootStands, ProbeDrifted
<1>6. QED
  BY <1>1, <1>4, <1>5 DEF RootAgrees, KernelAgrees, ProbeAgrees

\* So a step that ends no loop and takes nothing out of one keeps the progress.
LEMMA QuietStepKeepsProgress ==
    ASSUME TypeOK, select_pairs, [Next]_vars, Forward, NEW r \in Pairs, Progress(r),
           UNCHANGED <<manifest, pc, left, probe, booted>>
    PROVE  Progress(r)'
<1>1. ProbeFile(r) \in Files
  BY RecordsAreOfMembers
<1>2. KernelFile(r)' = KernelFile(r)
  BY SelectionStays
<1>3. /\ (PlanStands(r) => PlanStands(r)')
      /\ (BootStands(r) => BootStands(r)')
      /\ (RootAgrees(r) => RootAgrees(r)')
      /\ (KernelAgrees(r) => KernelAgrees(r)')
      /\ (ProbeAgrees(r) => ProbeAgrees(r)')
  BY WhatStands
<1>4. Older(probe[r], assets[ProbeFile(r)]) => Older(probe[r], assets'[ProbeFile(r)])
  BY <1>1 DEF Forward
<1>5. PlanProgress(r)' /\ BootProgress(r)'
  BY <1>3, <1>4 DEF Progress, PlanProgress, BootProgress
<1>6. RecheckProgress(r)' /\ ReprobeProgress(r)'
  BY <1>2, <1>3 DEF Progress, RecheckProgress, ReprobeProgress
<1>7. LastProgress(r)'
  BY <1>3 DEF Progress, LastProgress, Agrees
<1>8. QED
  BY <1>5, <1>6, <1>7 DEF Progress

\* A loop begins with all that it has to do.
LEMMA SelectsStartsProgress ==
    ASSUME TypeOK, Selects, [Next]_vars, NEW r \in Pairs,
           ProbesAreHashed
    PROVE  Progress(r)'
<1>1. r \in Members /\ <<r>> \in left'
  BY RecordsAreOfMembers DEF Selects, EachRoot
<1>2. QED
  BY <1>1 DEF Selects, planVars, ProbesAreHashed, Progress, PlanProgress, BootProgress,
     RecheckProgress, ReprobeProgress, LastProgress

\* The plan: a probe is hashed and looked at, kernel and root are as recorded.
LEMMA PlanStepsKeepProgress ==
    ASSUME TypeOK, select_pairs, [Next]_vars, Forward, \A r \in Pairs : Progress(r),
           NEW q \in Pairs,
           (\E a \in Artifacts : CheckRecord(q, a)) \/ HashProbe(q) \/ PlanBoot(q),
           NEW r \in Pairs
    PROVE  Progress(r)'
<1> USE DEF Progress, PlanProgress, BootProgress, RecheckProgress, ReprobeProgress, LastProgress
<1>1. pc = "plan" /\ UNCHANGED <<assets, manifest, booted>>
  BY DEF CheckRecord, HashProbe, PlanBoot, planVars
<1>2. r \in Members /\ q \in Members
  BY RecordsAreOfMembers
<1>3. ASSUME NEW a \in Artifacts, CheckRecord(q, a) PROVE Progress(r)'
  <2>1. UNCHANGED <<pc, probe>> /\ (<<r>> \in left => <<r>> \in left')
    BY <1>3, PairsAreNoRoots DEF CheckRecord, planVars
  <2>2. PlanStands(r) => PlanStands(r)'
    BY <1>1, <2>1, WhatStands
  <2>3. QED
    BY <1>1, <2>1, <2>2
<1>4. CASE HashProbe(q)
  <2>1. UNCHANGED <<pc, left>> /\ probe' = [probe EXCEPT ![q] = assets[ProbeFile(q)]]
    BY <1>4 DEF HashProbe
  <2>2. CASE r = q
    <3>1. <<r>> \in left' /\ probe'[r] = assets[ProbeFile(r)]
      BY <1>2, <1>4, <2>1, <2>2 DEF HashProbe, TypeOK, Digests
    <3>2. QED
      BY <1>1, <2>1, <3>1 DEF Older
  <2>3. CASE r # q
    <3>1. probe'[r] = probe[r]
      BY <1>2, <2>1, <2>3 DEF TypeOK, Digests
    <3>2. PlanStands(r) => PlanStands(r)'
      BY <1>1, <3>1, WhatStands
    <3>3. QED
      BY <1>1, <2>1, <3>1, <3>2
  <2>4. QED
    BY <2>2, <2>3
<1>5. CASE PlanBoot(q)
  <2>1. probe' = probe /\ <<q>> \in left
    BY <1>5, HandlesALoop DEF PlanBoot, planVars
  <2>2. PlanStands(q) /\ probe[q] # None
    <3>1. Drifted(RootFile(q)) /\ Drifted(KernelFile(q))
      BY <1>5 DEF PlanBoot, AsRecorded, Drifted, Older, RootFile, KernelFile
    <3>2. ProbeDrifted(q, assets[ProbeFile(q)])
      BY <1>1, <1>5 DEF PlanBoot, ProbeDrifted, Older
    <3>3. QED
      BY <1>5, <3>1, <3>2 DEF PlanStands, PlanBoot
  <2>3. PlanStands(r) => PlanStands(r)'
    BY <1>1, <2>1, WhatStands
  <2>4. CASE left' = left \ {<<q>>} /\ pc' = pc
    <3>1. <<r>> \in left /\ r # q => <<r>> \in left'
      BY <2>4
    <3>2. QED
      BY <1>1, <2>1, <2>2, <2>3, <2>4, <3>1
  <2>5. CASE left = {<<q>>} /\ pc' \in {"done", "refused"}
    BY <2>5
  <2>6. CASE left = {<<q>>} /\ pc' = "boot" /\ left' = EachRoot
    <3>1. <<r>> \in left' /\ (<<r>> \in left => r = q)
      BY <2>6 DEF EachRoot
    <3>2. QED
      BY <1>1, <2>2, <2>3, <2>6, <3>1
  <2>7. QED
    BY <1>5, <2>4, <2>5, <2>6, HandlesALoop DEF PlanBoot
<1>6. QED
  BY <1>3, <1>4, <1>5

\* A boot takes the files as they are.
LEMMA BootKeepsProgress ==
    ASSUME TypeOK, select_pairs, [Next]_vars, Forward, \A r \in Pairs : Progress(r),
           NEW q \in Pairs, Boot(q), NEW r \in Pairs
    PROVE  Progress(r)'
<1> USE DEF Progress, PlanProgress, BootProgress, RecheckProgress, ReprobeProgress, LastProgress
<1>1. pc = "boot" /\ UNCHANGED <<assets, manifest, probe>> /\ <<q>> \in left
  BY HandlesALoop DEF Boot, Attempt
<1>2. /\ r \in Members /\ q \in Members
      /\ <<r, RootFile(r)>> \in Records /\ <<r, KernelFile(r)>> \in Records
      /\ RootFile(q) \in Files /\ KernelFile(q) \in Files /\ ProbeFile(q) \in Files
  BY RecordsAreOfMembers
<1>3. booted[q]' = [root |-> assets[RootFile(q)], kernel |-> assets[KernelFile(q)],
                    probe |-> assets[ProbeFile(q)]]
  BY <1>2 DEF Boot, Attempt, TypeOK, RootFile, KernelFile
<1>4. r # q => booted'[r] = booted[r]
  BY <1>2 DEF Boot, Attempt, TypeOK
<1>5. KernelFile(q)' = KernelFile(q) /\ KernelFile(r)' = KernelFile(r)
  BY SelectionStays
<1>6. BootStands(q)'
  <2>1. PlanStands(q)
    BY <1>1
  <2>2. booted'[q] \in Boots
    BY <1>2, <1>3 DEF Boots, TypeOK, Digests
  <2>3. booted'[q].root \in Bootable
    BY <1>3 DEF Boot, Attempt, RootFile
  <2>4. /\ booted'[q].root = assets[RootFile(q)] /\ booted'[q].kernel = assets[KernelFile(q)]
        /\ booted'[q].probe = assets[ProbeFile(q)]
    BY <1>3
  <2>5. /\ Older(manifest[RootFile(q)], booted'[q].root)
        /\ Older(manifest[KernelFile(q)], booted'[q].kernel)
        /\ ProbeDrifted(q, booted'[q].probe)
    BY <2>1, <2>4 DEF PlanStands, Drifted
  <2>6. Older(booted'[q].root, assets[RootFile(q)]) /\ Older(booted'[q].kernel, assets[KernelFile(q)])
        /\ Older(booted'[q].probe, assets[ProbeFile(q)])
    BY <2>4 DEF Older
  <2>7. \E s \in Suits : Older(probe'[q], s) /\ Older(s, booted'[q].probe)
    BY <1>1, <2>5 DEF ProbeDrifted
  <2>8. QED
    BY <1>1, <1>5, <2>2, <2>3, <2>5, <2>6, <2>7 DEF BootStands, ProbeDrifted, RootFile, ProbeFile
<1>7. BootStands(r) => BootStands(r)'
  BY <1>1, <1>4, <1>6, WhatStands
<1>8. PlanStands(r)'
  BY <1>1, <1>5 DEF PlanStands, Drifted, ProbeDrifted
<1>9. CASE left' = left \ {<<q>>} /\ pc' = pc
  BY <1>1, <1>6, <1>7, <1>8, <1>9
<1>10. CASE left = {<<q>>} /\ pc' = "recheck" /\ left' = Records
  <2>1. BootStands(r)'
    BY <1>1, <1>6, <1>7, <1>10
  <2>2. QED
    BY <1>2, <1>5, <1>10, <2>1
<1>11. QED
  BY <1>9, <1>10, HandlesALoop DEF Boot, Attempt

\* The digests afterwards: between two of one content there was no other.
LEMMA RecheckKeepsProgress ==
    ASSUME NoReversal, TypeOK, select_pairs, [Next]_vars, Forward,
           \A r \in Pairs : Progress(r),
           NEW q \in Pairs, NEW a \in Artifacts, Recheck(q, a), NEW r \in Pairs
    PROVE  Progress(r)'
<1> USE DEF Progress, PlanProgress, BootProgress, RecheckProgress, ReprobeProgress, LastProgress
<1>1. pc = "recheck" /\ UNCHANGED <<assets, manifest, probe, booted>> /\ <<q, a>> \in left
  BY HandlesALoop DEF Recheck, planVars
<1>2. KernelFile(r)' = KernelFile(r)
  BY SelectionStays
<1>3. BootStands(r) /\ BootStands(r)'
  BY <1>1, WhatStands
<1>4. r = q /\ a = RootFile(r) => RootAgrees(r)
  BY <1>3, OlderIsAnOrder DEF Recheck, AsRecorded, BootStands, RootAgrees
<1>5. r = q /\ a = KernelFile(r) => KernelAgrees(r)
  BY <1>3, OlderIsAnOrder DEF Recheck, AsRecorded, BootStands, KernelAgrees
<1>6. /\ (RootAgrees(r) => RootAgrees(r)')
      /\ (KernelAgrees(r) => KernelAgrees(r)')
  BY <1>1, WhatStands
<1>7. CASE left' = left \ {<<q, a>>} /\ pc' = pc
  <2>1. <<r, RootFile(r)>> \in left' \/ RootAgrees(r)'
    BY <1>1, <1>4, <1>6, <1>7
  <2>2. <<r, KernelFile(r)>> \in left' \/ KernelAgrees(r)'
    BY <1>1, <1>5, <1>6, <1>7
  <2>3. QED
    BY <1>1, <1>2, <1>3, <1>7, <2>1, <2>2
<1>8. CASE left = {<<q, a>>} /\ pc' = "reprobe" /\ left' = EachRoot
  <2>1. RootAgrees(r)'
    BY <1>1, <1>4, <1>6, <1>8
  <2>2. KernelAgrees(r)'
    BY <1>1, <1>5, <1>6, <1>8
  <2>3. <<r>> \in left'
    BY <1>8 DEF EachRoot
  <2>4. QED
    BY <1>3, <1>8, <2>1, <2>2, <2>3
<1>9. QED
  BY <1>7, <1>8, HandlesALoop DEF Recheck

LEMMA ReprobeKeepsProgress ==
    ASSUME NoReversal, TypeOK, select_pairs, [Next]_vars, Forward,
           \A r \in Pairs : Progress(r),
           NEW q \in Pairs, RecheckProbe(q), NEW r \in Pairs
    PROVE  Progress(r)'
<1> USE DEF Progress, PlanProgress, BootProgress, RecheckProgress, ReprobeProgress, LastProgress
<1>1. pc = "reprobe" /\ UNCHANGED <<assets, manifest, probe, booted>> /\ <<q>> \in left
  BY HandlesALoop DEF RecheckProbe, planVars
<1>2. /\ BootStands(r) /\ BootStands(r)' /\ RootAgrees(r) /\ RootAgrees(r)'
      /\ KernelAgrees(r) /\ KernelAgrees(r)'
  BY <1>1, WhatStands
<1>3. r = q => ProbeAgrees(r)
  BY <1>2, OlderIsAnOrder DEF RecheckProbe, BootStands, ProbeDrifted, ProbeAgrees
<1>4. ProbeAgrees(r) => ProbeAgrees(r)'
  BY <1>1, WhatStands
<1>5. CASE left' = left \ {<<q>>} /\ pc' = pc
  <2>1. <<r>> \in left' \/ ProbeAgrees(r)'
    BY <1>1, <1>3, <1>4, <1>5
  <2>2. QED
    BY <1>1, <1>2, <1>5, <2>1
<1>6. CASE left = {<<q>>} /\ pc' \in {"rebind", "write"}
  <2>1. ProbeAgrees(r)'
    BY <1>1, <1>3, <1>4, <1>6
  <2>2. Agrees(r)'
    BY <1>2, <2>1 DEF Agrees, BootStands
  <2>3. QED
    BY <1>6, <2>2
<1>7. QED
  BY <1>5, <1>6, HandlesALoop DEF RecheckProbe

LEMMA RebindKeepsProgress ==
    ASSUME TypeOK, select_pairs, [Next]_vars, Forward, RecheckManifest, NEW r \in Pairs, Progress(r)
    PROVE  Progress(r)'
<1> USE DEF Progress, PlanProgress, BootProgress, RecheckProgress, ReprobeProgress, LastProgress
<1>1. pc = "rebind" /\ pc' = "write" /\ UNCHANGED <<manifest, probe, booted>>
  BY DEF RecheckManifest, planVars
<1>2. Agrees(r)'
  BY <1>1, WhatStands DEF Agrees
<1>3. QED
  BY <1>1, <1>2

-----------------------------------------------------------------------------
\* What is planned, booted and rechecked, through every step.
LEMMA NextKeepsProgress ==
    ASSUME NoReversal, WitnessInv, [Next]_vars
    PROVE  (pc \in AfterSelection => select_pairs /\ \A r \in Pairs : Progress(r))'
<1> SUFFICES ASSUME pc' \in AfterSelection
             PROVE  select_pairs' /\ \A r \in Pairs : Progress(r)'
  BY SelectionStays
<1>1. TypeOK /\ ProbesAreHashed /\ Forward /\ select_pairs' = select_pairs
  BY NextIsForward, SelectionStays DEF WitnessInv
<1>2. CASE Selects
  BY <1>1, <1>2, SelectsStartsProgress DEF Selects
<1>3. CASE pc \notin AfterSelection /\ ~Selects
  <2>1. UNCHANGED pc \/ pc' \in {"unlink", "select", "refused"}
    BY <1>3 DEF Next, Witness, ReadManifest, UnlinkWitness, RecheckManifest, WriteWitness,
       DescribeBuild, HashProbe, PlanBoot, Boot, BootFails, Attempt, RecheckProbe, CheckRecord, Recheck,
       RefuseMismatch, Fail, Refuse, AfterSelection, Handles, vars, witnessVars
  <2>2. QED
    BY <1>3, <2>1 DEF AfterSelection
<1>4. CASE pc \in AfterSelection
  <2>1. select_pairs /\ select_pairs' /\ \A r \in Pairs : Progress(r)
    BY <1>1, <1>4 DEF WitnessInv
  <2>2. ASSUME NEW r \in Pairs, UNCHANGED witnessVars PROVE Progress(r)'
    BY <1>1, <2>1, <2>2, QuietStepKeepsProgress DEF witnessVars, planVars
  <2>3. ASSUME NEW q \in Pairs, HashProbe(q) \/ PlanBoot(q), NEW r \in Pairs PROVE Progress(r)'
    BY <1>1, <2>1, <2>3, PlanStepsKeepProgress
  <2>4. ASSUME NEW q \in Pairs, Boot(q), NEW r \in Pairs PROVE Progress(r)'
    BY <1>1, <2>1, <2>4, BootKeepsProgress
  <2>5. ASSUME NEW q \in Pairs, RecheckProbe(q), NEW r \in Pairs PROVE Progress(r)'
    BY <1>1, <2>1, <2>5, ReprobeKeepsProgress
  <2>6. ASSUME NEW q \in Pairs, NEW a \in Artifacts, CheckRecord(q, a), NEW r \in Pairs
        PROVE  Progress(r)'
    BY <1>1, <2>1, <2>6, PlanStepsKeepProgress
  <2>7. ASSUME NEW q \in Pairs, NEW a \in Artifacts, Recheck(q, a), NEW r \in Pairs
        PROVE  Progress(r)'
    BY <1>1, <2>1, <2>7, RecheckKeepsProgress
  <2>8. ASSUME RecheckManifest, NEW r \in Pairs PROVE Progress(r)'
    BY <1>1, <2>1, <2>8, RebindKeepsProgress
  <2>9. ~(ReadManifest \/ UnlinkWitness \/ WriteWitness \/ Refuse)
        /\ (\A a \in Artifacts : ~DescribeBuild(a)) /\ (Selects => pc = "select")
    BY <1>4 DEF ReadManifest, UnlinkWitness, WriteWitness, Refuse, DescribeBuild, AfterSelection, Selects
  <2>10. UNCHANGED witnessVars \/ Witness
    BY DEF Next, vars
  <2>11. Pairs' = Pairs
    BY SelectionStays
  <2>12. ~Selects
    BY <1>4, <2>9 DEF AfterSelection
  <2>13. \A q \in Pairs : ~BootFails(q)
    BY DEF BootFails, AfterSelection
  <2>14. QED
    BY <2>1, <2>2, <2>3, <2>4, <2>5, <2>6, <2>7, <2>8, <2>9, <2>10, <2>11, <2>12, <2>13
       DEF Witness, RefuseMismatch, Fail
<1>5. QED
  BY <1>2, <1>3, <1>4

-----------------------------------------------------------------------------
\* Once it has ended, nothing of the run is looked at any more.
LEMMA EndedIsTheEnd ==
    ASSUME [Next]_vars, Ended
    PROVE  UNCHANGED vars
BY DEF Next, Witness, ReadManifest, UnlinkWitness, Selects, RecheckManifest, WriteWitness,
   DescribeBuild, HashProbe, PlanBoot, Boot, BootFails, Attempt, RecheckProbe, CheckRecord, Recheck,
   RefuseMismatch, Mismatch, Fail, Ended

\* How the run goes on, without what it is about.
LEMMA NextPlace ==
    ASSUME [Next]_vars, ~Ended
    PROVE  \/ UNCHANGED <<pc, probe, booted, witness>>
           \/ /\ UNCHANGED <<probe, booted, witness>>
              /\ \/ pc' = "refused"
                 \/ pc = "read" /\ pc' = "unlink"
                 \/ pc = "select" /\ pc' = "plan"
                 \/ pc = "plan" /\ pc' = "done" /\ args.plan
                 \/ pc = "plan" /\ pc' = "boot" /\ args.witness /\ ~args.plan
                 \/ pc = "recheck" /\ pc' = "reprobe"
                 \/ pc = "reprobe" /\ pc' \in {"rebind", "write"}
                 \/ pc = "rebind" /\ pc' = "write"
           \/ pc = "unlink" /\ pc' = "select" /\ Discard /\ UNCHANGED <<probe, booted>>
           \/ pc = "plan" /\ UNCHANGED <<pc, booted, witness>>
           \/ pc = "boot" /\ pc' \in {"boot", "recheck", "refused"} /\ UNCHANGED <<probe, witness>>
           \/ pc = "write" /\ pc' = "done" /\ witness' = "ready" /\ UNCHANGED <<probe, booted>>
<1>1. CASE ReadManifest \/ UnlinkWitness \/ Selects \/ RecheckManifest \/ WriteWitness
           \/ RefuseMismatch \/ Fail
  BY <1>1 DEF ReadManifest, UnlinkWitness, Selects, RecheckManifest, WriteWitness,
     RefuseMismatch, Fail, Refuse, planVars
<1>2. ASSUME NEW a \in Artifacts, DescribeBuild(a)
      PROVE  UNCHANGED <<probe, booted, witness>> /\ (UNCHANGED pc \/ (pc = "read" /\ pc' = "unlink"))
  BY <1>2, HandlesALoop DEF DescribeBuild, planVars
<1>3. ASSUME NEW q \in Pairs, NEW a \in Artifacts, CheckRecord(q, a) \/ Recheck(q, a)
      PROVE  /\ UNCHANGED <<probe, booted, witness>>
             /\ UNCHANGED pc \/ (pc = "recheck" /\ pc' = "reprobe")
  BY <1>3, HandlesALoop DEF CheckRecord, Recheck, planVars
<1>4. ASSUME NEW q \in Pairs, HashProbe(q) PROVE pc = "plan" /\ UNCHANGED <<pc, booted, witness>>
  BY <1>4 DEF HashProbe
<1>5. ASSUME NEW q \in Pairs, PlanBoot(q)
      PROVE  /\ UNCHANGED <<probe, booted, witness>>
             /\ \/ UNCHANGED pc
                \/ pc = "plan" /\ pc' = "done" /\ args.plan
                \/ pc' = "refused"
                \/ pc = "plan" /\ pc' = "boot" /\ args.witness /\ ~args.plan
  BY <1>5, HandlesALoop DEF PlanBoot, planVars
<1>6. ASSUME NEW q \in Pairs, Boot(q) \/ BootFails(q)
      PROVE  pc = "boot" /\ pc' \in {"boot", "recheck", "refused"} /\ UNCHANGED <<probe, witness>>
  BY <1>6, HandlesALoop DEF Boot, BootFails, Attempt
<1>7. ASSUME NEW q \in Pairs, RecheckProbe(q)
      PROVE  /\ UNCHANGED <<probe, booted, witness>>
             /\ UNCHANGED pc \/ (pc = "reprobe" /\ pc' \in {"rebind", "write"})
  BY <1>7, HandlesALoop DEF RecheckProbe, planVars
<1>8. CASE UNCHANGED witnessVars
  BY <1>8 DEF witnessVars
<1>9. Witness \/ UNCHANGED witnessVars
  BY DEF Next, vars
<1>10. QED
  BY <1>1, <1>2, <1>3, <1>4, <1>5, <1>6, <1>7, <1>8, <1>9 DEF Witness

\* A boot is planned only with a probe that was hashed.
LEMMA NextKeepsProbesHashed ==
    ASSUME WitnessInv, [Next]_vars
    PROVE  ProbesAreHashed'
<1>1. CASE Ended
  BY <1>1, EndedIsTheEnd, SelectionStays DEF WitnessInv, ProbesAreHashed, vars, witnessVars
<1>2. CASE ~Ended
  <2>1. Pairs' = Pairs
    BY SelectionStays
  <2>2. pc' \in {"read", "unlink", "select"} => pc \in {"read", "unlink", "select"} /\ probe' = probe
    BY <1>2, NextPlace
  <2>3. CASE pc = "plan"
    <3>1. ASSUME NEW q \in Pairs, PlanBoot(q), pc' # "plan"
          PROVE  probe' = probe /\ \A r \in Pairs : probe[r] # None
      <4>1. left = {<<q>>} /\ probe' = probe /\ probe[q] # None
        BY <2>3, <3>1, HandlesALoop DEF PlanBoot, planVars
      <4>2. \A r \in Pairs : <<r>> \in left \/ probe[r] # None
        BY <2>3 DEF WitnessInv, AfterSelection, Progress, PlanProgress
      <4>3. QED
        BY <4>1, <4>2
    <3>2. pc' \in Booting \cup {"done"} => \E q \in Pairs : PlanBoot(q)
      BY <2>3 DEF Next, Witness, ReadManifest, UnlinkWitness, Selects, RecheckManifest,
         WriteWitness, DescribeBuild, HashProbe, Boot, BootFails, Attempt, RecheckProbe, CheckRecord, Recheck,
         RefuseMismatch, Fail, Refuse, Booting, vars, witnessVars
    <3>3. QED
      BY <2>1, <2>2, <2>3, <3>1, <3>2 DEF ProbesAreHashed, Booting
  <2>4. CASE pc # "plan"
    <3>1. pc' \in Booting \cup {"done"} => pc \in Booting /\ probe' = probe
      BY <1>2, <2>4, NextPlace DEF Booting, Ended
    <3>2. QED
      BY <2>1, <2>2, <3>1 DEF WitnessInv, ProbesAreHashed
  <2>5. QED
    BY <2>3, <2>4
<1>3. QED
  BY <1>1, <1>2

\* Old evidence goes before the first boot, new evidence comes after the last
\* check.
LEMMA NextKeepsEvidenceFresh ==
    ASSUME WitnessInv, [Next]_vars
    PROVE  EvidenceIsFresh'
<1>1. /\ Pairs' = Pairs /\ select_pairs' = select_pairs /\ args' = args
      /\ \A r : KernelFile(r)' = KernelFile(r)
  BY SelectionStays
<1>2. CASE UNCHANGED vars
  <2>1. Complete => Complete'
    BY <1>1, <1>2 DEF vars, witnessVars, Complete, Agrees, RootAgrees, KernelAgrees, ProbeAgrees
  <2>2. QED
    BY <1>1, <1>2, <2>1 DEF vars, witnessVars, WitnessInv, EvidenceIsFresh, NoStaleEvidence
<1>3. CASE ~Ended
  <2>1. witness # "ready"
    BY <1>3 DEF WitnessInv, EvidenceIsFresh, Ended
  <2>2. CASE pc = "write" /\ pc' = "done"
    <3>1. WriteWitness
      BY <2>2 DEF Next, Witness, ReadManifest, UnlinkWitness, Selects, RecheckManifest,
         DescribeBuild, HashProbe, PlanBoot, Boot, BootFails, Attempt, RecheckProbe, CheckRecord, Recheck,
         RefuseMismatch, Fail, Refuse, vars, witnessVars
    <3>2. select_pairs /\ Complete
      BY <2>2 DEF WitnessInv, AfterSelection, Progress, LastProgress, Complete
    <3>3. Complete'
      BY <1>1, <3>1, <3>2
         DEF WriteWitness, planVars, Complete, Agrees, RootAgrees, KernelAgrees, ProbeAgrees
    <3>4. QED
      BY <1>1, <2>2, <3>1, <3>2, <3>3
         DEF WriteWitness, WitnessInv, EvidenceIsFresh, NoStaleEvidence, Booting
  <2>3. CASE ~(pc = "write" /\ pc' = "done")
    <3>1. witness' # "ready"
      BY <1>3, <2>1, <2>3, NextPlace DEF Discard
    <3>2. pc' \in {"read", "unlink", "select", "plan"} => \A m \in Members : booted'[m] = None
      BY <1>3, NextPlace DEF WitnessInv, EvidenceIsFresh
    <3>3. pc' \in {"select", "plan"} /\ args.witness /\ ~args.plan => witness' = "absent"
      BY <1>3, NextPlace DEF WitnessInv, EvidenceIsFresh, Discard
    <3>4. pc' \in Booting => witness' = "absent" /\ args.witness /\ ~args.plan
      BY <1>3, NextPlace DEF WitnessInv, EvidenceIsFresh, Booting
    <3>5. pc' = "done" => \A m \in Members : booted'[m] = None
      BY <1>3, <2>3, NextPlace DEF WitnessInv, EvidenceIsFresh, Ended
    <3>6. pc' = "refused" /\ (\E m \in Members : booted'[m] # None) => witness' = "absent"
      <4>1. CASE pc = "boot"
        BY <1>3, <4>1, NextPlace DEF WitnessInv, EvidenceIsFresh, Booting
      <4>2. CASE pc # "boot"
        BY <1>3, <4>2, NextPlace DEF WitnessInv, EvidenceIsFresh, NoStaleEvidence, Ended
      <4>3. QED
        BY <4>1, <4>2
    <3>7. pc' \in Places
      BY <1>3, NextPlace DEF WitnessInv, TypeOK, Places
    <3>8. NoStaleEvidence'
      BY <3>2, <3>4, <3>5, <3>6, <3>7 DEF NoStaleEvidence, Places, Booting
    <3>9. QED
      BY <1>1, <3>1, <3>2, <3>3, <3>4, <3>8 DEF WitnessInv, EvidenceIsFresh
  <2>4. QED
    BY <2>2, <2>3
<1>4. QED
  BY <1>2, <1>3, EndedIsTheEnd

LEMMA InitIsWitnessInv ==
    ASSUME Init
    PROVE  WitnessInv
<1>1. /\ pc = "read" /\ bound = None /\ args \in Arguments /\ witness \in {"absent", "stale"}
      /\ probe = [m \in Members |-> None] /\ booted = [m \in Members |-> None]
      /\ assets \in Digests(Files) /\ manifest \in Digests(Artifacts)
  BY DEF Init, Start, Digests
<1>2. listed \in Lists \cup {Canonical}
  BY DEF Init
<1>3. left \subseteq {<<x>> : x \in Members \cup Artifacts}
  <2>1. UNION {Of[m] : m \in listed} \subseteq Artifacts
    BY <1>2, WitnessAssumption DEF Artifacts
  <2>2. QED
    BY <2>1 DEF Init, Start
<1>4. TypeOK
  BY <1>1, <1>2, <1>3 DEF TypeOK, Places, Digests
<1>5. QED
  BY <1>1, <1>4 DEF WitnessInv, ProbesAreHashed, AfterSelection, EvidenceIsFresh, Booting,
     NoStaleEvidence

\* Every step keeps the invariant, and so do those who change files afterwards.
LEMMA NextKeepsWitnessInv ==
    ASSUME NoReversal, WitnessInv, [Next]_vars
    PROVE  WitnessInv'
<1>1. ProbesAreHashed' /\ EvidenceIsFresh'
  BY NextKeepsProbesHashed, NextKeepsEvidenceFresh
<1>2. TypeOK'
  BY <1>1, NextKeepsTypes DEF WitnessInv
<1>3. QED
  BY <1>1, <1>2, NextKeepsProgress DEF WitnessInv

LEMMA EndedKeepsWitnessInv ==
    ASSUME WitnessInv, Ended, assets' \in Digests(Files), UNCHANGED witnessVars
    PROVE  WitnessInv'
<1> USE DEF witnessVars, inputVars
<1>1. UNCHANGED <<args, listed, manifest, pc, bound, left, probe, booted, witness>>
  OBVIOUS
<1>2. TypeOK'
  BY <1>1 DEF WitnessInv, TypeOK, Listed
<1>3. Pairs' = Pairs /\ select_pairs' = select_pairs /\ \A r : KernelFile(r)' = KernelFile(r)
  <2>1. \A role : Listed(role)' = Listed(role)
    BY <1>1 DEF Listed
  <2>2. \A r : KernelOf(r)' = KernelOf(r)
    BY <2>1, Zenon DEF KernelOf
  <2>3. QED
    BY <2>1, <2>2, Zenon DEF Pairs, select_pairs, KernelFile
<1>4. Complete => Complete'
  BY <1>1, <1>3 DEF Complete, Agrees, RootAgrees, KernelAgrees, ProbeAgrees
<1>5. QED
  BY <1>1, <1>2, <1>3, <1>4
     DEF WitnessInv, Ended, AfterSelection, ProbesAreHashed, Booting, EvidenceIsFresh, NoStaleEvidence

\* The inductive invariant.
LEMMA WitnessInvIsInvariant ==
    ASSUME NoReversal
    PROVE  Spec => []WitnessInv
<1>1. Init => WitnessInv
  BY InitIsWitnessInv
<1>2. WitnessInv /\ [Next]_vars => WitnessInv'
  BY NextKeepsWitnessInv
<1>3. QED
  BY <1>1, <1>2, PTL DEF Spec

-----------------------------------------------------------------------------
\* execute() keeps the types of its state.
THEOREM TypeCorrect == ASSUME NoReversal PROVE Spec => []TypeOK
<1>1. WitnessInv => TypeOK
  BY DEF WitnessInv
<1>2. QED
  BY <1>1, WitnessInvIsInvariant, PTL

\* After a boot was attempted, also when the first one failed, a witness that is
\* there is this invocation's, and was written after everything that it tells of.
THEOREM EvidenceIsNeverStale == ASSUME NoReversal PROVE Spec => []NoStaleEvidence
<1>1. WitnessInv => NoStaleEvidence
  BY DEF WitnessInv, EvidenceIsFresh
<1>2. QED
  BY <1>1, WitnessInvIsInvariant, PTL

\* A witness is of the bytes of the candidate, one boot for each of its roots.
THEOREM WitnessDescribesTheCandidate ==
    ASSUME NoReversal
    PROVE  Spec => []WitnessIsOfTheCandidate
<1>1. WitnessInv => WitnessIsOfTheCandidate
  <2> SUFFICES ASSUME WitnessInv, witness = "ready", NEW key \in Keys
               PROVE  \E r, k \in listed :
                   /\ {m \in listed : KeyOf[m] = key /\ RoleOf[m] = "workload_rootfs"} = {r}
                   /\ {m \in listed : KeyOf[m] = key /\ RoleOf[m] = "workload_kernel"} = {k}
                   /\ booted[r] = [root |-> manifest[FileOf[r]], kernel |-> manifest[FileOf[k]],
                                   probe |-> probe[r]]
                   /\ k \in Direct /\ booted[r].root \in Bootable /\ booted[r].probe \in Suits
    BY Zenon DEF WitnessIsOfTheCandidate
  <2>1. select_pairs /\ Complete
    BY DEF WitnessInv, EvidenceIsFresh
  <2>2. PICK r \in Pairs : KeyOf[r] = key
    BY <2>1 DEF select_pairs, Pairs, KeysOf
  <2>3. PICK k \in Listed("workload_kernel") : k = KernelOf(r) /\ KeyOf[k] = key /\ k \in Direct
    BY <2>1, <2>2, SelectionIsExact
  <2>4. {m \in listed : KeyOf[m] = key /\ RoleOf[m] = "workload_rootfs"} = {r}
    BY <2>1, <2>2 DEF select_pairs, OnePerKey, Listed, Pairs
  <2>5. {m \in listed : KeyOf[m] = key /\ RoleOf[m] = "workload_kernel"} = {k}
    BY <2>1, <2>3 DEF select_pairs, OnePerKey, Listed
  <2>6. Agrees(r)
    BY <2>1, <2>2 DEF Complete
  <2>7. booted[r] = [root |-> manifest[FileOf[r]], kernel |-> manifest[FileOf[k]],
                     probe |-> probe[r]]
    BY <2>3, <2>6 DEF Agrees, RootAgrees, KernelAgrees, ProbeAgrees, RootFile, KernelFile, Boots
  <2>8. booted[r].root \in Bootable /\ booted[r].probe \in Suits
    BY <2>6 DEF Agrees, ProbeAgrees
  <2>9. r \in listed /\ k \in listed
    BY <2>2, <2>3 DEF Pairs, Listed
  <2>10. QED
    BY <2>3, <2>4, <2>5, <2>7, <2>8, <2>9
<1>2. QED
  BY <1>1, WitnessInvIsInvariant, PTL
=============================================================================
