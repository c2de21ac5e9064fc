-------------------------- MODULE ReleasePipeline ---------------------------
(* A release from `just release` to the publication: the recipe compares the  *)
(* checkout with origin/main, runs release-check, tags and pushes; the tag    *)
(* starts .github/workflows/release.yml, whose jobs build and reproduce must  *)
(* pass before the publish job (PublishJob) begins on a runner of its own. A  *)
(* run that failed can be run again, as a whole or from what failed.          *)
EXTENDS PublishJob, Naturals

CONSTANTS
    MaxMain,     \* bound: commits merged to main meanwhile
    MaxAttempts  \* bound: attempts of the workflow run

ASSUME PipelineAssumption == MaxMain \in Nat /\ MaxAttempts \in Nat \ {0}

VARIABLES
    phase,    \* of the recipe, then of the workflow run
    main,     \* newest commit of main; its commits are 0..main
    head,     \* commit of the checkout that `just release` runs in
    tag,      \* commit that the pushed tag names, if there is one
    passed,   \* jobs of this attempt that have succeeded
    attempt,
    built     \* the artifacts of the build job

releaseVars  == <<main, head, tag, attempt, built>>
pipelineVars == <<jobVars, phase, releaseVars, passed>>

\* A commit of a maintainer that is not on main.
Local   == MaxMain + 1
Commits == 0..Local
Gates   == {"build", "reproduce"}

PipelineInit ==
    /\ JobInit
    /\ phase = "compare" /\ main = 0 /\ head \in Commits /\ tag = None
    /\ passed = {} /\ attempt = 1 /\ built = assets

-----------------------------------------------------------------------------
(* just release, while main and the checkout go on.                           *)

\* The maintainer commits, pulls or resets until the tag is made.
HeadMoves(c) ==
    /\ phase \in {"compare", "check"} /\ c \in 0..main \cup {Local} /\ head' = c
    /\ UNCHANGED <<jobVars, phase, main, tag, passed, attempt, built>>

\* Only what the gate of the publish job may see matters.
Merges ==
    /\ phase \in {"compare", "check", "jobs", "gate"} /\ main < MaxMain
    /\ main' = main + 1
    /\ UNCHANGED <<jobVars, phase, head, tag, passed, attempt, built>>

Advances(from, to) == phase = from /\ phase' = to /\ UNCHANGED <<jobVars, main, head, built>>

Compares ==
    /\ Advances("compare", IF head = main THEN "check" ELSE "refused")
    /\ UNCHANGED <<tag, passed, attempt>>

\* release-check passed; the tag is made of HEAD as it is by now.
Tags ==
    /\ Advances("check", "jobs") /\ tag' = head
    /\ UNCHANGED <<passed, attempt>>

-----------------------------------------------------------------------------
(* The workflow run.                                                          *)

Passes(j) ==
    /\ phase = "jobs" /\ j \in Gates \ passed /\ passed' = passed \cup {j}
    /\ UNCHANGED <<jobVars, phase, releaseVars>>

JobFails == Advances("jobs", "failed") /\ passed # Gates /\ UNCHANGED <<tag, passed, attempt>>

\* needs: [build, reproduce], and the protected environment.
StartsPublishing == Advances("jobs", "gate") /\ passed = Gates /\ UNCHANGED <<tag, passed, attempt>>

\* Looks whether the fetched main is on main, whatever was checked out (a
\* mutant of IsAncestor).
MainIsOnMain(c) == main \in 0..main

IsAncestor(c) == c \in 0..main

\* Checks out the tag and refuses a commit outside main.
PassesGate == Advances("gate", "publish") /\ IsAncestor(tag) /\ UNCHANGED <<tag, passed, attempt>>

RefusesCommit == Advances("gate", "failed") /\ ~IsAncestor(tag) /\ UNCHANGED <<tag, passed, attempt>>

Publishing == phase = "publish" /\ JobNext /\ UNCHANGED <<phase, releaseVars, passed>>

\* The next attempt begins on a fresh runner with the artifacts of the build.
\* Jobs that succeeded are not run again unless all are.
Reruns(all) ==
    /\ attempt < MaxAttempts /\ attempt' = attempt + 1
    /\ phase = "failed" \/ (phase = "publish" /\ step = "failed")
    /\ phase' = "jobs" /\ passed' = IF all THEN {} ELSE passed
    /\ assets' = built
    /\ pc' = IF Aliases = {} THEN "require" ELSE "aliases"
    /\ left' = IF Aliases = {} THEN Artifacts ELSE Aliases
    /\ root' = None /\ member' = None /\ todo' = Members
    /\ inspected' = [r \in Roots |-> None] /\ contracts' = {}
    /\ sbom' = [a \in Artifacts |-> None] /\ pack' = sbom' /\ rendered' = sbom'
    /\ lock' = None /\ subjects' = FALSE
    /\ bootPc' = "read" /\ bound' = None /\ bootLeft' = {} /\ witness' = "absent"
    /\ probe' = [m \in Members |-> None] /\ booted' = probe'
    /\ step' = "assemble" /\ unchecked' = {} /\ late' = {}
    /\ attested' = [s \in Subjects |-> None] /\ uploaded' = attested'
    /\ UNCHANGED <<main, head, tag, built>>

-----------------------------------------------------------------------------
PipelineNext ==
    \/ \E c \in Commits : HeadMoves(c)
    \/ Merges \/ Compares \/ Tags
    \/ \E j \in Gates : Passes(j)
    \/ JobFails \/ StartsPublishing \/ PassesGate \/ RefusesCommit \/ Publishing
    \/ \E all \in BOOLEAN : Reruns(all)

PipelineSpec == PipelineInit /\ [][PipelineNext]_pipelineVars

-----------------------------------------------------------------------------
(* Properties, with those of PublishJob and AssembleRelease.                  *)

\* What is published was built and reproduced, in this attempt or an earlier
\* one, and is of a commit of main; although the recipe compares HEAD with main
\* long before it makes the tag of HEAD, and main and HEAD move in between.
PublishedIsOfMain ==
    step = "published" => tag \in 0..main /\ passed = Gates
=============================================================================
