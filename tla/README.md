# A formal model of mvm-images

TLA+ specifications of the programs of this repository that decide, record and
publish something about image sets, the TLC runs that check them, and the
properties of them that TLAPS proves. Paths are relative to the repository;
line numbers are those of the commit the `map` in `PROJECT.json` refers to.

The repository builds kernels, root file systems and a browser pack with Nix,
and ships them as a signed *image set*. What can go wrong in it is seldom in a
single function: a file is hashed, looked at, hashed again, described three
times, booted, attested and uploaded, by different processes, while nothing but
those hashes says that it was one and the same file all along. Most of the
specifications below are about that.

## 1. The system: an inventory

| Component | Source | State it keeps | Operations | Modelled |
|---|---|---|---|---|
| Boot supervisor | `scripts/e2e_boot.py` | one VMM child, its console pipe, a pending partial line, a deadline; the devices of plan and command, a copy of the root, a witness | start, read, judge lines, reap; plan, copy, command, witness | all |
| Local set emitter | `scripts/emit-local-manifest.py` | the checkout it observes, a staging directory, `--out` | observe, copy and hash, inspect, compare, rename into place | `emit` completely; the observation as a collecting of parts |
| Checkout observation | `scripts/emit-local-manifest.py` 122-943 | the configuration and the rule files it has read | configuration stack, HEAD, index and split index, gitlinks, attributes, normalisation, walk, identity hash | all on a POSIX host, but for parsing |
| Release assembly | `scripts/assemble-release.py` | the artifact directory | aliases, inspect roots, SBOM, pack manifest, image-set.json, lock, subjects | all |
| Boot witness | `scripts/boot-base-contract.py` | the candidate set, the witness file | select, plan, boot, recheck, write | all |
| Release publish job | `.github/workflows/release.yml` | the artifact directory, an attestation, a GitHub release | assemble, boot, sign, verify, check, attest, upload, publish | from the gate on |
| Revocation channel | `.github/workflows/revocations.yml` | two release assets, a concurrency group, `main` | validate, sign, replace | all, and the consumer of `REVOCATIONS.md` |
| Consumer admission | `scripts/verify-released-consumer.py` | what GitHub says of a release, its run and artifacts | read, compare, download, verify, install | all |
| Browser smoke runner | `scripts/run-qemu-wasm-smoke-chromium.py` | two children and their pipes | start, wait, classify, kill | all |
| Release and build pipeline | `justfile`, `build.yml`, `release.yml` | `main`, tags, runs and attempts | compare, tag, gate, rerun | the recipe and the jobs as wholes |
| Root readers | `scripts/ext4_contract.py`, `local_ext4_contract.py` | none | read one marker | as a constant |
| Static checks | `scripts/check_*.py`, `run-bdd.py` | none | predicates over one checkout | no |
| Kernel configuration | `kernel/*.nix` | none | merge fragments, assert on the result | no |
| Image composition | `images/`, `flake.nix` | none | Nix derivations | no |
| Browser pack | `qemu-wasm/` | none | Nix derivations | no |

How they interact:

- `release.yml` runs `assemble-release.py`, then `boot-base-contract.py`, then
  signing, verification and upload **on one directory**. There is no lock; what
  keeps the steps consistent is that each records digests and a later one
  compares some of them.
- `boot-base-contract.py` calls `run_until_ready` of `e2e_boot.py` once per
  workload root, with an exact marker and a refusal marker.
- `just release` compares the checkout with `origin/main`, checks it at length and
  tags it; the tag starts `release.yml`, whose publish job waits for two others and
  may be run again.
- `verify-released-consumer.py` runs in the publish job, after signing: the CLI it installs
  is what verifies the set. It knows the release of that CLI only by what GitHub answers to
  a dozen and more requests.
- `emit-local-manifest.py` reads a checkout that an editor may be changing and
  publishes under a name that another emission may be using.
- `revocations.yml` is started by tags but publishes `main`; its runs share a
  concurrency group, and the consumer, in another repository, downloads two
  assets with two requests.

What is hard to test: the order of a child's output, its exit and the
supervisor's system calls; an edit between two of the many readings of one
file; a second emission between a check and a rename; a job approved late or
rerun after half an upload; an asset replaced between two requests; a setting that
two files and an include give three values. `PROJECT.json` lists these as hazards, each at its
line, with the property that covers it.

What makes each component correct:

- *Boot supervisor*: a verdict is earned by what the child wrote and is the one
  the first deciding line gives, however reads cut the text; the child is always
  reaped; the call always returns.
- *Emitter*: what the identity in a manifest names was in the checkout at one instant; the
  manifest describes the bytes beside it; `--out` never shows part of a set.
- *Assembly, witness, publish job*: a workload root is one sequence of bytes
  from the inspection of its marker to the asset that is downloaded.
- *Release pipeline*: what is published was built and reproduced, and is of `main`.
- *Consumer admission*: what is installed is what one attempt booted, and is one
  build; a release in order is admitted.
- *Checkout observation*: undisturbed, it says *clean* exactly when `git status` has nothing to
  say and no mark (assume-unchanged, skip-worktree) hides an edit from Git; the two places where
  the code says less or more are named in section 5. Disturbed, an undisturbed second look tells
  whether the first identity was of a checkout that existed.
- *Revocation channel*: neither the channel nor its consumer goes back.
- *Browser smoke runner*: a result is that of the first line that has one, it is
  noticed, and nothing is left running.

## 2. Modules

| Module | What it is | Code |
|---|---|---|
| `BootSupervisor` | a child, a pipe, the loop and the `finally` block | `e2e_boot.py` 236-335 |
| `E2EBoot` | `main()` around that call, and the call as another program makes it: `EXTENDS BootSupervisor` | `e2e_boot.py` 92-231, 319-433 |
| `BootSupervisorProofs` | its invariant and theorems; that `main()` makes one such call, and the invariant of its witness | |
| `Drift` | "contents that were replaced do not come back" | |
| `AtomicPublish` | abstract: how `--out` may change | |
| `LocalManifest` | emissions, editors of the checkout, users of `--out` | `emit-local-manifest.py` 1145-1215 |
| `LocalManifestProofs` | its invariants, and that it implements `AtomicPublish` | |
| `AssembleRelease` | one assembly, others changing files | `assemble-release.py` |
| `BaseContractWitness` | one invocation: selection, plan, boots, rechecks | `boot-base-contract.py` |
| `BaseContractWitnessProofs` | its invariant and theorems | |
| `PublishJob` | the whole publish job: `EXTENDS AssembleRelease`, `INSTANCE BaseContractWitness` over the same files | `release.yml` |
| `ReleasePipeline` | recipe, gates, attempts: `EXTENDS PublishJob` | `justfile`, `release.yml` |
| `ReleasePipelineProofs` | the invariants of assembly, job and attempts, over an instance of `BaseContractWitnessProofs`, and their theorems | |
| `ConsumerAdmission` | the admission, and a GitHub that changes | `verify-released-consumer.py` |
| `ConsumerAdmissionProofs` | its invariant and theorems | |
| `GitConfig` | values, includes, scopes and the system file, as operators; what Git makes of the same files | `emit-local-manifest.py` 147-427 |
| `SplitIndex` | the EWAH bitmaps and the merge of a split index, as operators; what both mean | `emit-local-manifest.py` 429-545 |
| `CheckoutObservation` | two observations of an edited checkout: `EXTENDS SplitIndex, GitConfig` | `emit-local-manifest.py` 474-939 |
| `CheckoutObservationProofs` | what bitmaps, merges, settings and conversions come to for any input, its two invariants, and their theorems | |
| `BrowserSmoke` | a server, a browser and its log, the select loop, the `finally` block | `run-qemu-wasm-smoke-chromium.py` |
| `BrowserSmokeProofs` | its invariant and theorems | |
| `RevocationChannel` | tags, runs, the group, two assets, one consumer | `revocations.yml` |
| `RevocationChannelProofs` | its invariants and theorems | |
| `MC*` | the values of the constants that a `.cfg` cannot write | |

How state corresponds to code:

- **BootSupervisor.** The console is a sequence `out` of fragments that matter
  as a whole (a ready marker, a refusal, other text, a newline). `read` and
  `start` are positions in it, so the Python variable `pending` is the text
  between them and no string is built. A turn of the loop is three actions,
  because the child may act between them: `Waits`/`TimesOut` (deadline and
  `select`), `Reads` (`os.read`), `Polls` (`poll()` and the judging of lines).
  `Terminates`, `WaitTerm...`, `WaitKill`, `Closes` are the `finally` block.
  The child writes, closes its console, exits, and may leave a descendant that
  holds the pipe.
  The variable `call` holds the two options of a call. `E2EBoot` adds `step`, the place in
  `main()`, and the devices of the first plan (`planned`) and of the command that is
  run (`launched`): both ask the host for vhost-vsock, and `HostChanges` is in between.
- **LocalManifest.** `pc[e]` is the place of emission `e` in `emit`. A
  checkout is a function from its parts to contents; `before` and `after` are
  filled part by part, `ObserveBefore` and `ObserveAfter`, because the code
  reads HEAD, the index and each file in turn. `todo` is what the loop in
  progress has still to handle. `EditCheckout`, `ChangeStaged`, `UseOut` (make, fill, empty
  and remove `--out`) and `Crash` are what others do between any two steps.
  `Identity` is what line 1184 compares: the commit, and unless the observation is one of
  `CleanStates` the fingerprint of the parts in `Named`. `Canon` says which contents are one to
  Git (line ends, `$Id$`, a mode that is not compared). `IdentityAssumption` is what *clean* means:
  two clean observations of one commit agree, up to `Canon`, on the parts in `Covered`, which are
  HEAD, the index and the tracked files that were compared. Of other names (untracked, ignored) and of the
  rules and settings a clean identity says nothing. `instant` is an observer, the checkout
  when `before` was complete; `remover`, another, is who removed `--out` last.
- **SplitIndex.** A word of a bitmap is a number, taken apart with division and
  remainder as the code does with shifts; its width `WordBits` and the number `Runs` of
  lengths that a run may have are constants (64 and 2^32; in the run 3 and 2, so
  that a word is one bit of run, one of its length and one of literals). `Turns` is the
  cursor's way through the words. `Said` is the reference: it takes one word after the
  other and keeps how many literals are still to come, with no cursor to jump over them.
  The merge pairs replaced entries with records by `Pairing`; `MeantEntries` is its
  reference, from the k-th replaced entry to the k-th record.
- **CheckoutObservation.** `pc` is the place in `_observe`. Reading a file
  (`ReadFile`, `Take`) and judging it (`Judge`, `Visit`) are separate actions, since
  the rule file that decides is read in between, and only the first time:
  `attrBody`, `ignoreBody` are `RepositoryRules.cache`. A body is a record of what
  normalisation can tell apart (text, line ends, binary look, `$Id$`), so that
  two bodies are equal if and only if Git stores the same blob for them. `Conversion` and
  `Stores` are the reference, written after Git's own three steps (attribute,
  then `eol`, then `core.autocrlf`), not after `_normalize`.
  There are two references for the verdict. `GitSilent` is what `git status` says: entries
  that are marked are not looked at, a gitlink's directory that is missing is a deletion, a
  `.gitignore` left out of a sparse checkout is taken from the index. `Clean` (with `Unmodified`) is what
  this project has decided on: a mark hides no edit (`test_local_mvm.py:440`), and a gitlink's
  directory need not be there. `Hides` and `LeftOut` name the differences.
  The configuration is read first (`ResolveContext`, `ReadConfig`), while `Settle`
  changes files of it, and `settings` is what the observation goes by from then on; each of the
  two has `RepositoryRules` of its own (`Forgets`). `IsCheckout` says what a checkout is: an
  index has one entry of a name in a stage, unless it is one that is refused. Two variables
  are observers: `still`, that nobody has edited since the observation began, and `instant`, the
  identity of the checkout when the first one was made.
- **GitConfig.** A file is a sequence of assignments and includes, a value a word or a
  number with a unit. `Stack` and `Get` search the narrowest scope first, as the code does;
  `GitValue` is the reference and goes from the widest to the narrowest, each scope overriding
  what was said before, as Git does, and `GitAccepts` bounds a number before its unit
  is applied. `GitExtends` asks the local file itself for the worktree extension, and not what that includes.
- **ConsumerAdmission.** The release is `asset`, a number of a build per file and per
  signature; `job` and `artifact` are by attempt, since a rerun of failed jobs lists a
  successful one again. `Step` is a request with its `require`: the check holds, or the
  script refuses. What was read is in `release`, `run`, `jobRead`, `digests`; GitHub's own
  state goes on changing beside it. Each action of `Github` may fall between any two requests.
- **ReleasePipeline.** `phase` is the place of the recipe and then of the run, `main` and
  `head` are commits, of which one (`Local`) is not on main. `Reruns` starts the publish job
  over on a fresh runner, with the artifacts of the build.
- **BrowserSmoke.** The log is a sequence of fragments, as in `BootSupervisor`; it is
  read through a text stream, so `fetched` (what was taken out of the pipe) may be ahead
  of `taken` (what `readline` has returned), and `select` sees the pipe only.
- **AssembleRelease, BaseContractWitness.** `assets` is the directory. A digest
  stands for the bytes it was computed from, and hashing reads a file at one
  instant. Each loop of the code is an action per element with `left` for the
  rest, because files change between its iterations. `Fail` is every exception
  and refusal that has no condition of its own here. Of a witness, `args` are the three
  options; without `--manifest` the members are those of the inventory, and their digests
  are taken from the files (`DescribeBuild`). A probe is hashed, read again for its
  architecture and opened by the VMM: three readings, three actions.
- **PublishJob.** Each step of the job is one action, except assembly and boots,
  which keep their own steps; the loops over the subjects are taken one subject at
  a time. The boot reads the digests in the manifest just assembled
  (`manifest <- rendered`).
- **RevocationChannel.** The lists that `main` has held are numbered. `todo` are
  the four commands of `gh release upload --clobber`; GitHub deletes an asset
  before it uploads its successor. A second run that enters the group replaces the
  pending one, which is cancelled.

## 3. Runs

TLC finishes each with two workers in at most two and a half minutes. Passing runs:

| Run | Bounds | Shows |
|---|---|---|
| `boot_supervisor` | both callers; 4 fragments, 3 per read, a pipe of 4 | `WitnessTellsTheBoot`, `ReadyIsEarned`, `RefusalIsEarned`, `ExitVerdictIsDrained`, `NoOrphan`; under fairness `EventuallyReturns`, `MarkerIsNoticed` |
| `local_manifest` | 1 emission, 3 parts and 2 files with 3 contents each; and 3 that race with others who use `--out` | `ManifestDescribesOneCheckout`, `InputsAreOfThatCheckout`, `RecordedBytesArePublished`, `PublishesAtomically` (refinement of `AtomicPublish`), `LostOnlyToATaker` |
| `release_pipeline` | one root, its kernel, one stage-0 alias; root and kernel change; 2 attempts, one commit merged | `PublishedIsOfMain`, `RecordedRootsAreInspected`, `EveryUseAgrees`, `PublishedIsAttested`, `PublishedRootsAreWitnessed` |
| `boot_witness` | every choice of options; 2 roots, one with a sidecar, their kernels, one probe; 8 lists of members; root, kernel, probe and manifest change once | `WitnessIsOfTheCandidate`, `NoStaleEvidence` |
| `checkout_observation` | 8 configuration files, numbers from -9 to 9 with 4 units around a limit of 7; 6 names, up to 4 tracked; words of 3 bits, up to 3 in a bitmap; one file, both rule files, the index, HEAD, an untracked file, and two settings edited | `SplitIsMeant`, `RefusesOnlyDamaged`, `UndisturbedIdentity`, `SecondLookTells` |
| `browser_smoke` | 4 fragments, 3 per chunk | `StatusIsEarned`; under fairness `FrontIsNoticed`, `ReturnsInTime` |
| `consumer_admission` | 2 archives, table and proof; 3 builds, one of another commit; 2 attempts, 2 seconds, 2 changes by others | `InstalledWasBooted`, `InstalledIsOneBuild`; under fairness `InOrderIsAdmitted` |
| `revocation_channel` | 2 tags, 3 lists, 1 consumer | `ChannelNeverGoesBack`, `SuccessLeavesAPair`, `ConsumerNeverGoesBack` |

Why the bounds are enough to be interesting:

- Four fragments hold a refusal, a newline, a marker and a newline, the shortest
  console with two deciding lines; three per read and a pipe of four cut it
  everywhere, and a read may return less than is in the pipe.
- The three parts of `local_manifest` (300 000 states) are HEAD, a file that the manifest's inputs
  are read from, and a name that no commit has; each is edited on its own, so that an observation
  can mix instants. Two of the three contents differ in line ends only, so a clean identity may
  be of either; the name may be missing, untracked, or there and ignored, so an observation may
  be clean, dirty by a file, or dirty by a name; the third content names no contract that is
  supported. The run has two kinds of starts (`MCInit`). In one
  a single emission runs from its beginning. In the other three have each prepared a set and
  are about to look at `--out`: one may remove the empty directory, another publish, and a third lose.
  What an emission does before that is seen by no other one, but for what it finds at
  `--out`, which others may put there in the first kind, too. Three bounds (`Bounded`): emissions begin
  alone or race; staged files change only while nobody edits the checkout, since no step compares one
  with the other; and nobody acts any more when no emission is left.
- A file may have three contents, and changes along a chain, so a change can be
  missed by one comparison and by the next. One of them is no bootable root, so the
  refusals fire.
- Two pairs share a probe, as the sealed and the unsealed root of an architecture
  do; one pair would make every per-pair loop a single step. The lists are the whole set, one
  with two kernels of a kind, one whose only sealed kernel does not boot directly, and each
  that lacks one member. At the start one file or one digest at most is not as it should be
  (`MCInit`): two such flaws are refused at the first.
- Of the configurations, every scope says yes, no or nothing about one setting that decides
  whether the checkout is clean, with each choice of worktree extension, of `$HOME`,
  `$XDG_CONFIG_HOME`, `GIT_CONFIG_GLOBAL` and of the controls of the system file; three
  files include each other, which with a limit of two nested includes reaches the limit and
  the cycle. A limit of 7 with units of 2 has numbers on both sides with every unit.
- Two attempts are one that succeeded and one that carries its job over. Two seconds tell
  before from after; events may share a second. With two changes a release is
  caught between the parts of one upload, or withdrawn and replaced.
- One commit merged while the recipe runs makes the tag older than `main`; a second attempt
  is the first that finds something left of another. At the start of `release_pipeline` one
  file at most is missing or not good.
- `checkout_observation` (1.4 million states) starts from some 10 000 checkouts of fifteen
  kinds: every bitmap of up to three words over four entries, and damaged ones; every choice of
  deleted and replaced entries among three, with every number of records; every combination of
  attributes, `autocrlf`, line ends and binary look of file and blob; every way an entry and
  what is at its path differ, under each flag and `filemode` and `symlinks`; a `.gitattributes`
  that is there, untracked and ignored; unmerged, sparse and unsafe entries, with every flag;
  rule files in each state, marked and left out; the configurations above, and files that are
  included and speak of the worktree extension. The last four kinds are edited while they are
  observed, one of them so that two observations may agree on what was not there. Three bits are
  enough for a word because each of its fields can be zero and not zero, and a position can be
  in the first word, in the next, and past the end.
- Four fragments of a browser's log are two lines, or one and a half; the chunk
  is shorter, so the stream cuts lines.
- Three lists let a run check out an old list, a second one go past it, and the
  consumer hold a third.

Runs that refute what a text says of the code (each is a finding in
`PROJECT.json`, with the quotation):

| Run | Refuted | Behaviour |
|---|---|---|
| `boot_lost_marker` | "Drain queued bytes even after exit" | The read finds nothing, the child prints its marker and exits, the poll sees the exit: the boot is reported as having exited before its marker. |
| `boot_unterminated` | an unterminated line counts "never while the child is alive" | The VMM writes the marker without a newline, closes its console and runs on: the read finds the end, and the boot is ready by that line while the child lives. |
| `smoke_ready` | "reports the time to the marker" | Two lines arrive at once; `readline` returns the first, and `select` does not see the second, which is the READY line, until there is more output or the time is over. |
| `revocation_tag` | "the tag must name a commit on `main`" | The ancestry test is of the checked-out `main`, not of the tag. |

Deadlock is checked only where the system cannot stop: the other configurations
say `CHECK_DEADLOCK FALSE` because an emission, an assembly or a job ends.

### What is assumed of others: no reversal

Two equal digests say that the bytes were equal at two instants, not in between. An edit and its
reversal between two readings leave no trace, and no program that compares digests could see it.
`Drift!Acyclic` states the assumption under which the comparisons do mean something: the
relation "content v may become w" is a strict partial order. `ComesToAnEnd` says the same of
contents up to what Git compares: a content does not come back in another form either (with
other line ends, say), once something else was there in between. They are an `ASSUME` of
`LocalManifest`; the first is one of `PublishJob`, and of the MC module of
`BaseContractWitness`; the edits of `checkout_observation` are of that kind, too (a file goes
from CRLF to LF to another text, a rule file and HEAD change once).

For the observation of a checkout this is not enough. A *clean* identity has no fingerprint,
so two observations may agree on it while the checkout between them was dirty, although no
content ever came back:

1. the first observation lists the names of the working tree, and then an untracked file appears;
   its identity is clean;
2. the second one compares `.gitignore` with the commit, and then `.gitignore` is edited, and ignores
   the file; the walk passes it over, and the identity is clean again.

Each edit was made where that observation no longer looked (lines 885 and 904 come before 686),
and the two identities agree on a checkout that existed only before both edits. The settings do
the same: a system file that said no, says yes and then is gone, which means no. The run has
both (`Raced`, `MCSettles`), and TLC shows that *two observations that agree are real* is false
of them. What holds for every edit is `SecondLookTells`: a second observation *that nobody
disturbs* agrees with the first one if and only if the first was real. `LocalManifest`, whose
two observations may both be disturbed, claims of a clean identity only the parts in `Covered`.
No text of the repository promises more; `emit` says only that a difference is a change (line
1186).

### Fairness

- `WF_vars(Supervisor)`: the supervisor is one thread, and the operating system
  schedules it; each of its steps is bounded (select has a timeout, reads do
  not block).
- `WF_vars(killed /\ ChildExits)`: a process that was sent SIGKILL dies. Nothing
  else is assumed of the child: it may hang, ignore SIGTERM or write forever.
- `WF_vars(Runner)` and `WF_vars(c \in killed /\ Exits(c))` in `BrowserSmoke`: the
  same two assumptions, for two children. `FrontIsNoticed` needs no more.
  `ReturnsInTime` has two premises, the clock and that Chromium
  completes the lines it begins: `readline` blocks on half a line, whatever the
  timeout says.
- The deadline is **not** fair in the specification. `EventuallyReturns` has it
  as its own premise, because a clock does advance; `MarkerIsNoticed` does not, so it
  shows that a marker needs no deadline to be seen.

- `MainFairness` is the same for `E2EBoot`, and adds that `main()` goes on once the call
  has returned: it is the same thread.
- `WF_vars(Verifier)` in `ConsumerAdmission`: a request is answered or fails. Nothing is
  assumed of GitHub's other users; `InOrderIsAdmitted` has as its premise that the release is and
  stays in order.

No liveness is claimed of jobs and emissions: they wait for reviewers, for
GitHub, and may be cancelled.

## 4. Proofs

All proofs hold for every value of the constants that satisfies the named
assumptions; nothing is admitted.

**BootSupervisor** (any length of console, read size and pipe, every kind of call; from
`BootAssumption`). `ReadyIsEarned` is not inductive: to know that no earlier line decided, one
must know what was already thrown away. `BootInv` adds `StartsALine` (pending text starts at the
start of a line), `TakenUndecided` (no line that was consumed decided), `ChunkMeaning` (what the
last read said of the pipe), `LoopHasNoVerdict` and `Collected`. Two lemmas carry it:
`EarlierLinesStand` (writing does not change earlier lines) and `LinesStartAnywhere` (a line
means the same from its own start or that of the console). Theorems: `BootInvariant`,
`TypeCorrect`, `ReadyTellsTheConsole`, `RefusalTellsTheConsole`, `ExitTellsTheConsole`,
`ChildIsReaped`.

**LocalManifest** (any number of emissions, parts, contents and files; from
`LocalAssumption`, `IdentityAssumption` and `NoReversal`). `Collects(e)` orders every reading: what
`before` holds is older than or equal to what the contract, the lock and `after`
hold, and those than the checkout now. The code compares identities, so what is equal at the two ends depends
on the verdict. Two equal *dirty* identities have one fingerprint: for each part in it the order is
squeezed to one content, which is therefore what the checkout held at the instant
`before` was complete. Two equal *clean* identities have one commit: `IdentityAssumption` makes
the two readings of a covered part equal up to `Canon`, and `ComesToAnEnd` makes
whatever lay between them so, too. Hence `PublishedCheckoutIsReal`, and
`PublishedInputsAreItsOwn` for the contract and the lock hash, which a clean identity fixes up
to line ends and `$Id$` and no further. The same squeeze holds a root's inspected content between
its copy and its recheck (`FilesAreFollowed`): `PublishedBytesAreRecorded`. `RaceIsFair` keeps that
`--out`, when it is absent for an emission that is about to remove it, was removed by others or by
an emission that has the rename before it, was refused for another reason or died; such a remover can
lose only to somebody who put something there: `OutIsLostToATaker`.
`Prepared(e)` says that what the loops have done is in the staging directory;
with it, `StepIsAbstract` maps every step to a step of `AtomicPublish` or to a stutter:
`PublicationIsAtomic`.

**RevocationChannel** (any set of tags, any number of lists; from
`ChannelAssumption`). `ChannelNeverGoesBack` is not inductive: what an upload puts
there was read from `main` many steps before. `ChannelInv` orders the numbers that
matter, `accepted <= fetched <= newest <= list[t] <= main`, for a consumer between
its two requests and for a run `t` with a checkout (`ConsumerIsBehind`,
`HolderIsNewest`, `NewestIsOfMain`); it holds because of the concurrency group
(`OneAtWork`): with two runs at work the channel could move past the checkout of
the other. `UploadedIsThere` says that what a run no longer has to upload is in the
channel, so that a run with nothing left leaves its pair. Theorems: `TypeCorrect`,
`ChannelIsMonotone`, `ConsumerIsMonotone`, `SuccessIsWhole`.

**BrowserSmoke** (a log and a chunk of any length; from `SmokeAssumption`).
`StatusIsEarned` speaks of the greatest newline before a line, and that there is one
takes an induction. `SmokeInv` therefore carries the start of the deciding line as a
witness (`ResultHasALine`, with `EarnedFrom(m, e)`): when a line is judged, `taken` is
its start (`StartsALine`) and nothing before it had a result (`TakenUndecided`); later
output moves neither (`EarlierLinesStand`). `LineStarts` turns the witness into the
greatest newline. Theorems: `TypeCorrect`, `StatusIsThatOfTheFirst`.

**ConsumerAdmission** (any archives, builds, uploads, attempts, seconds and changes; from
`AdmissionAssumption`). At the end nothing is read again but the installed files, so the
invariant must say that what was read stays true while GitHub goes on. `AttemptsAreOrderly` is
about GitHub alone: a later attempt has done nothing yet, and a job that runs or has
reported ran in the attempt that lists it, so that a job that was carried over brings no artifact
with it. `EvidenceStands` follows the run, the job and the report: an attempt that had
succeeded is not changed by a rerun, and the admitted artifact is that attempt's own, because
the report names the attempt it was made in. `DownloadsStand` collects, archive
by archive, that the release as it was read is what the report has; with the comparison after
the installer that makes the two theorems. The order of the downloads, and what is replaced
between them, does not matter for it: all of them are by ids of the first listing. Theorems:
`AdmissionInvariant`, `TypeCorrect`, `AdmittedWasBooted`, `AdmittedIsOneBuild`.

**BaseContractWitness** (any inventory, manifests, members, artifacts and contents;
from `WitnessAssumption`, with `NoReversal` as a hypothesis of each theorem). The witness is
written when no file is looked at any more, so `WitnessInv` follows what
each loop has done for each root (`Progress`): a boot used contents that are as old
as the recorded ones or later, and not later than what is there now (`PlanStands`, `BootStands`,
in the order `Older`); a recheck that finds the recorded digest squeezes the two together
(`RootAgrees`, `KernelAgrees`), and the second reading of the probe does so with the
reading of its BusyBox (`ProbeAgrees`). A step that changes a file only moves
forward (`NextIsForward`, `WhatStands`). `SelectionIsExact` says that a root that was
selected has its one kernel, and `EvidenceIsFresh` that a witness of an earlier invocation is gone
before the first boot is attempted, successful or not. Theorems: `TypeCorrect`, `EvidenceIsNeverStale`,
`WitnessDescribesTheCandidate`.

**E2EBoot** (from `BootAssumption`). `MainMakesACall` shows `MainSpec => Spec`: every step
of `main()` is a step of `run_until_ready` or leaves its variables alone, so the
theorems of `BootSupervisorProofs` are about `main()` too. `WitnessIsLast` is the invariant under
`WitnessIsOfTheBoot`.

**ReleasePipeline, PublishJob, AssembleRelease** (any members, files, contents, commits and
attempts; from `AssembleAssumption`, `JobAssumption`, `PipelineAssumption` and
`NothingComesBack`). `GateIsPassed` keeps, over attempts, that the publish job only runs after
both gating jobs have passed for the tag and the gate has found the tag's commit in `main`,
which only grows: `PublicationIsOfMain`. `AssembleInv` follows the digests of a root: the
inspected content is squeezed between the hashings before and after it (`Inspection`), each use
took its digest since then (`Since`, `Uses`), and the recheck at the end finds the first digest
again, so all of them are one (`Agreed`): `RecordedRootsHaveTheContract`, `UsesAgree`.
`SubjectsAreSealed` says of each step from the subject check on which files are still as
recorded, with `late` for those changed after: `PublicationIsAttested`. `BootsAreWitnessed`
instantiates `BaseContractWitnessProofs` over the job's own files, once `BootsAreAsAssumed` has
shown what that module assumes: while the roots are booted `WitnessInv` is kept by the boots
(`BootsAreSteps`), by those who change files (`ChangeKeepsWitnessed`, also when the boots are
over) and by a new attempt, which begins again (`JobBeginsAgain`). With both,
`PublishedRootsWereBooted` is the whole chain from the marker to the upload. `JobTypeCorrect`
are the types.

**CheckoutObservation, SplitIndex, GitConfig** (any paths, rules, edits and checkouts, any width of
words, bitmaps of any length, any number of entries, files of configuration and includes; from
`WordAssumption`, `ConfigAssumption` and `ObservationAssumption`). The proofs have two layers.

*Operators.* The prover has no induction over data, so the loops are recursive functions, and what
they compute is shown by induction over a *set* of numbers: `SetInduction` says
that a set that holds 0, and n + 1 with n, holds `Nat`, and `Recursion` that the
values a recursive definition asks for exist. With these,

- `TurnsOf` and `SaidIs` unfold the loop of `_bitmap` and its reference; `EveryWordIsCovered` and
  `CoversOnce` say that each word is a marker or a literal of exactly one marker,
  `SaidAtWord` that both have told the same bits after each word. The code clips a run to
  the size of the bitmap and refuses a literal bit beyond it: `PositionsAreMeant` shows that what
  is not refused has the positions that are meant, and `UnmergeableIsDamaged` that what is
  refused is damaged.
- `Ranking` ranks a finite set by a strict total order. From it come `InOrderIs` (an index in order
  is a sequence of all its entries), `KthIsPaired` (the k-th replaced entry has the k-th record)
  and `MergedIsMeant`. `OneOrder` shows that two indexes with the same contents
  are the same sequence, which is how the code compares them with the commit.
- `AcceptedIsUnderstood`: when every contributing file was read and every value is a boolean,
  Git understands them too, and each setting has the value that it has for Git. It needs that
  the narrowest scope that says something is the one that overrides last (`FilesAgree`,
  `GetIsGitValue`), that the local file with all it includes says of the worktree extension what
  it says itself when no file it includes says anything (`OwnIsSaid`, by `FlattenSteps` along
  the file, and `LatestOfFlat`; the premise is `OwnExtension`), and that a number within the
  limit after its unit was applied is within the divided limit before (`ValuesAgree`).
- `ConversionAgrees`: for every combination of attributes, setting, line ends and look, what
  `_normalize` compares is what Git would store.

*Steps.* `Whole` says, whatever others do, that the lists are those of the index that was read:
`entries` in order, `todo` a rest of the distinct ones, `listing` and `untracked` of other
names. It is kept by every step and carries `TypeCorrect`, `SplitIndexIsMeant` and
`OnlyDamagedIsRefused`. `UndisturbedIdentity` speaks only of the end, when nothing is read any
more; its invariant `Undisturbed` says of each place in the observation what has been found so
far: the settings are those of the checkout (`Configured`), cached rule files those that are
there (`Cached`), `dirty` is true if and only if the index differs from the commit or one of the
files compared so far is modified in the project's sense (`Compared`), and of the names the walk
has left, those that were taken are those that no rule file ignores (`Walked`). Each step of the
observation has a lemma; an edit ends the premise. `VerdictIsRight` puts them together at the
end, and `SilenceIs` compares the two references: where nothing is `LeftOut`, `Clean` is
`GitSilent` without anything that `Hides`: `WhatIsThereIsObserved`. With what the second
observation leaves of the first (`Remembered`), `SecondLookIsTelling` follows.

Two definitions were wrong before they could be proved about: the arms of two `CASE`
expressions overlapped (`Conversion`, and `Judge` of `BrowserSmoke`). TLC takes the first
arm that holds, as was meant; by the semantics of TLA+ any of them may be meant. They are disjoint now.

**Only model-checked**: liveness (`EventuallyReturns`, `MarkerIsNoticed`, `FrontIsNoticed`, `ReturnsInTime`,
`InOrderIsAdmitted`), which the proof system cannot do. Every safety property of a passing run is a theorem.

## 5. What is not modelled, and what the models leave out

- Nix: derivations, kernel configuration and image composition are evaluated by
  Nix and have no control flow of this repository's at run time.
- The inside of `build.yml` and `reproduce.yml`, `check-reproducible.sh` and
  `build-kernel-artifacts.sh`: calls of Nix, and comparisons of what they return.
- Static checks and the two marker readers are pure predicates. What other modules
  need of the readers is which contents have an accepted marker, a constant.
- `run_until_ready`: `ReadyIsEarned` allows an unterminated line when the console has ended,
  whether the VMM lives or not, as the code does; that the comment says otherwise is the
  finding of `boot_unterminated`.
- `emit` reads the boot ABI (line 1167) before its first observation (1172) and never
  again: an edit of `boot-abi.nix` in between is recorded beside the identity of the
  edited checkout. `LocalManifest` has both steps, and no property says otherwise.
- `LocalManifest`: a clean identity speaks of the parts in `Covered`. Files that are left out as sparse,
  names that are untracked or ignored, rules and settings are not among them: two clean
  observations may disagree on those, and did in section 3 ("no reversal"). A lock
  file is hashed as it is, while it is compared with the commit after
  normalisation, so the lock hash of a clean checkout may be that of its CRLF variant;
  `InputsAreOfThatCheckout` says "up to `Canon`" there. Others who use `--out` leave a published set alone.
- `GitConfig`: a POSIX host, where the code does not know where Git is installed; what
  it finds out about Git for Windows (210-253, 303-311) is not modelled. The conditions of
  includes are three kinds. `extensions.worktreeConfig` set by a file that the local one includes counts
  for the code (line 400 reads with includes) and not for Git. `GitExtends` is Git's reading, so the two
  may differ; `UndisturbedIdentity` and `SecondLookTells` have `OwnExtension` as a premise, that no
  file which the local one includes speaks of the extension. The run has such files (`Extended`), for
  the other properties. A configuration is read in one instant.
- Where the code deviates from `git status`, on purpose or not: an entry that is marked
  assume-unchanged, or marked skip-worktree and there, is compared (`test_local_mvm.py:440` wants it);
  a gitlink whose directory is missing is clean (859-872), for Git it is deleted; a `.gitignore` that
  is left out of a sparse checkout is read by Git from the index, and by the code not at
  all (670). `UndisturbedIdentity` names the first (`Hides`) as part of the verdict and excludes the
  other two (`LeftOut`) from the comparison with Git, not from the identity.
- A system file that is named and exists when it is looked up (289), and is gone when it
  is opened (421-425), is left out of the configuration silently; a
  `GIT_CONFIG_GLOBAL` that is gone is refused. `CheckoutObservation` has both steps and the
  file that goes away (`Settle`); no property holds the omission against the code.
- The shared index of a split one is part of the checkout's link in the model: Git may expire it
  (`ExpireShared`), which is refused, but another one under its name is damage, which is refused too.
- `CheckoutObservation`: rule files are parsed by a library, so a text stands for what it
  assigns (`Rules`, `Ignores`); global and system rules are represented by `.git/info`'s;
  directories by the files in them; case folding is not modelled. A gitlink's repository is
  identified in one instant, and the depth and cycle limits of that recursion are left out.
  `crlf=auto`, which Git treats as `text=auto` and the code as no attribute, is not among the
  inputs, nor in `Attributed`, to which the theorems are confined; the code then calls dirty
  what Git calls clean. A shared index that is itself split is not modelled (Git writes none).
- `BrowserSmoke`: when Chromium cannot be started the server keeps running (the `try` begins
  after both starts); a server that says nothing is waited for without end, whatever the ten
  seconds of `start_server` say. Both are in the model, as `StartFails` and as the lack of a
  step. Lines that Chromium has written and nobody has read when its exit is seen (180) are not
  looked at; `StatusIsEarned` speaks of the lines that were read. The patterns a console line is
  searched for are not.
- `E2EBoot`: of the command lines, devices and drive are kept. `assert_no_network_devices`
  looks for forbidden names in the whole plan as text, with the paths in it, of which one ends
  in eight random characters: a plan without any network device may be refused. The model has it
  as a refusal without a condition (`Aborts`).
- `ConsumerAdmission`: what never changes (pins, names, the report's schema) is checked
  once and for all or not, which is `Fails`. The installer of the CLI belongs to another
  repository; what it may do is ask for each asset once. GitHub is not looked at after
  the script has ended: a release that is withdrawn then stays admitted.
- A release whose run was rerun "from failed jobs" after its boot job had succeeded is refused
  for ever, since the report names the first attempt (`validate_report`); so is one that has
  the reports of two attempts, as ambiguous. Both are refusals of a release that may be
  fine; nothing in the repository promises otherwise, and `InOrder` excludes them.
- `ReleasePipeline`: `build.yml` and `reproduce.yml` are one step each, and a rebuild is taken
  to give the same artifacts (that is what `reproduce` is for). The tag cannot be moved,
  and GitHub refuses a second release for it. The recipe may tag another commit than
  the one it compared; the gate only finds one outside `main`, so a commit of main that
  `release-check` did not see can be released. `PublishedIsOfMain` claims no more than that.
- Assembly compares digests of workload roots only. The digests in SBOM and pack manifest are
  compared with nothing, although a comment says "compare every later use": a root that is
  swapped while the SBOM is written and put back is not noticed (`NoReversal` excludes it). For
  kernels and other artifacts SBOM, pack manifest and image-set.json may disagree;
  `EveryUseAgrees` says nothing of them.
- A hashing or a boot is one instant; a file changed halfway through a
  reading has a content that is neither of the two.
- `PublishJob`: SBOMs, pack manifests, image-set.json and signatures are not
  changed by others. Loops take their elements in any order, which includes the
  code's. Refusals that depend on nothing modelled are part of `Fail`.

## 6. Plan

Done, in this order: `BootSupervisor` and its proofs; `LocalManifest`,
`AtomicPublish` and their proofs; `AssembleRelease`, `BaseContractWitness`,
`PublishJob`; `RevocationChannel` and its proofs; `BrowserSmoke` and its proofs;
`SplitIndex` and `CheckoutObservation`; `ConsumerAdmission` and its proofs;
`E2EBoot`; the other modes of `BaseContractWitness`; `ReleasePipeline`; `GitConfig`; the proofs
of `E2EBoot`, `BaseContractWitness`, `AssembleRelease`, `PublishJob`, `ReleasePipeline` and
`CheckoutObservation`.

Next:

1. The kernel configuration (fragments, overrides and the assertions on the
   result), if a bounded model says more than Nix's own evaluation.
2. The observation of `core.worktree` and of rule files outside the checkout.
