--------------------------- MODULE LocalManifest ----------------------------
(* emit of scripts/emit-local-manifest.py: emissions that record the identity *)
(* of a checkout before and after copying the artifacts of a set, and publish *)
(* the set under --out by a rename, while others edit the checkout, change    *)
(* staged files, use --out, and kill emissions.                               *)
(*                                                                            *)
(* A checkout is its parts: HEAD, the index, each tracked or untracked file,  *)
(* the rules that say what is ignored. An observation reads them one at a     *)
(* time, so it may mix several instants; the identity made of it names the    *)
(* commit alone when nothing it saw was dirty or untracked.                   *)
(* A digest stands for the bytes it was computed from.                        *)
EXTENDS Drift

CONSTANTS
    Emitters,      \* processes running emit with the same --out
    Parts,         \* what an observation of a checkout reads
    Head,          \* HEAD
    Covered,       \* HEAD, the index entries, the tracked files not left out as sparse
    AbiFile,       \* images/builder-vm/boot-abi.nix
    ContractFile,  \* images/base-image-contract.nix
    LockFile,      \* the flake.lock files whose hashes are recorded
    Values,        \* contents of a part
    Canon,         \* what line end and $Id$ conversion and ignored modes leave of each
    CleanStates,   \* observations with nothing dirty or untracked
    Named,         \* the parts a dirty observation is fingerprinted from
    Edits,         \* <<v, w>>: an editor may replace content v by w
    Supported,     \* contract file contents that read as the contract 1
    Roles,         \* the artifacts of the set
    Roots,         \* those of them that are workload roots
    Bytes,         \* contents of an artifact
    Mutations,     \* <<b, c>>: a staged file may change from b to c
    Compatible,    \* root contents whose marker declares contract 1
    None           \* not read, not recorded or not there

ASSUME LocalAssumption ==
    /\ {Head, AbiFile, ContractFile, LockFile} \subseteq Parts
    /\ Supported \subseteq Values /\ Compatible \subseteq Bytes
    /\ Roles # {} /\ Roots \subseteq Roles
    /\ None \notin Values /\ None \notin Bytes
    /\ Emitters \cap {"absent", "empty", "foreign", "free", "torn", "nobody", "others"} = {}

\* A clean observation saw the files of its commit, as far as Git compares them.
ASSUME IdentityAssumption ==
    /\ {Head, ContractFile, LockFile} \subseteq Covered /\ Covered \subseteq Parts
    /\ Canon \in [Values -> Values] /\ Named \in [[Parts -> Values] -> SUBSET Parts]
    /\ \A seen \in [Parts -> Values] : Covered \subseteq Named[seen]
    /\ CleanStates \subseteq [Parts -> Values]
    /\ \A s, t \in CleanStates : s[Head] = t[Head] =>
           \A p \in Covered : Canon[s[p]] = Canon[t[p]]

\* No content that was replaced comes back, not in another form either: an edit
\* and its reversal between two observations cannot be told from no edit.
ASSUME NoReversal ==
    /\ Acyclic(Edits, Values) /\ ComesToAnEnd(Canon, Edits, Values)
    /\ Acyclic(Mutations, Bytes)

VARIABLES
    checkout,  \* content of every part
    out,       \* "absent", "empty", "foreign" (a file or a full directory of
               \* somebody else's), or the emitter whose set is there
    pc,        \* where each emission is
    abi,       \* builder_boot_abi
    before, after,  \* the two repository identities, read part by part
    contract,  \* the contract file as base_image_contract read it
    lock,      \* recorded lock hash
    staging,   \* the private staging directory exists
    staged,    \* files in it
    digest,    \* recorded digests
    todo,      \* artifacts the current loop has still to handle
    written,   \* the manifest is in the staging directory
    instant,   \* observer: the checkout when `before` was complete
    late,      \* observer: staged files changed after their recheck
    remover,   \* observer: who was the last to remove what was at --out
    lost       \* observer: emissions refused because --out was not theirs to take

fileVars == <<checkout, out>>
readVars == <<abi, before, after, contract, lock, instant>>
setVars  == <<staging, staged, digest, todo, written, late>>
raceVars == <<remover, lost>>
vars     == <<checkout, out, pc, abi, before, after, contract, lock, staging,
              staged, digest, todo, written, instant, late, remover, lost>>

Running == {"abi", "outdir", "before", "contract", "locks", "mkdtemp", "copy",
            "inspect", "after", "compare", "verify", "write", "probe", "rmdir",
            "rename"}
Ended   == {"done", "refused", "crashed"}

\* Past the first observation, with a complete identity in hand.
HasIdentity == {"contract", "locks", "mkdtemp", "copy", "inspect", "after", "compare",
                "verify", "write", "probe", "rmdir", "rename", "done"}

Free == {"absent", "empty"}

TypeOK ==
    /\ checkout \in [Parts -> Values]
    /\ out \in Free \cup {"foreign"} \cup Emitters
    /\ pc \in [Emitters -> Running \cup Ended]
    /\ abi \in [Emitters -> Values \cup {None}]
    /\ before \in [Emitters -> [Parts -> Values \cup {None}]]
    /\ after \in [Emitters -> [Parts -> Values \cup {None}]]
    /\ contract \in [Emitters -> Values \cup {None}]
    /\ lock \in [Emitters -> Values \cup {None}]
    /\ staging \in [Emitters -> BOOLEAN]
    /\ staged \in [Emitters -> [Roles -> Bytes \cup {None}]]
    /\ digest \in [Emitters -> [Roles -> Bytes \cup {None}]]
    /\ todo \in [Emitters -> SUBSET Roles]
    /\ written \in [Emitters -> BOOLEAN]
    /\ instant \in [Emitters -> [Parts -> Values \cup {None}]]
    /\ late \in [Emitters -> SUBSET Roles]
    /\ remover \in Emitters \cup {"nobody", "others"} /\ lost \subseteq Emitters
    /\ \A e \in Emitters : pc[e] \in HasIdentity => before[e] \in [Parts -> Values]

Init ==
    /\ checkout \in [Parts -> Values]
    /\ out \in Free \cup {"foreign"}
    /\ pc = [e \in Emitters |-> "abi"]
    /\ abi = [e \in Emitters |-> None] /\ contract = abi /\ lock = abi
    /\ before = [e \in Emitters |-> [p \in Parts |-> None]]
    /\ after = before /\ instant = before
    /\ staging = [e \in Emitters |-> FALSE] /\ written = staging
    /\ staged = [e \in Emitters |-> [r \in Roles |-> None]] /\ digest = staged
    /\ todo = [e \in Emitters |-> {}] /\ late = todo
    /\ remover = "nobody" /\ lost = {}

-----------------------------------------------------------------------------
(* The others.                                                                *)

EditCheckout(p, v) ==
    /\ <<checkout[p], v>> \in Edits
    /\ checkout' = [checkout EXCEPT ![p] = v]
    /\ UNCHANGED <<out, pc, readVars, setVars, raceVars>>

ChangeStaged(e, r, b) ==
    /\ staging[e] /\ <<staged[e][r], b>> \in Mutations
    /\ staged' = [staged EXCEPT ![e][r] = b]
    /\ late' = IF pc[e] \in {"write", "probe", "rmdir", "rename"}
                  \/ (pc[e] = "verify" /\ r \notin todo[e])
               THEN [late EXCEPT ![e] = @ \cup {r}] ELSE late
    /\ UNCHANGED <<fileVars, pc, readVars, staging, digest, todo, written, raceVars>>

\* Others make, fill, empty and remove --out; a published set they leave alone.
UseOut ==
    /\ out \notin Emitters /\ out' \in (Free \cup {"foreign"}) \ {out}
    /\ remover' = IF out' = "absent" THEN "others" ELSE remover
    /\ UNCHANGED <<checkout, pc, readVars, setVars, lost>>

Crash(e) ==
    /\ pc[e] \in Running
    /\ pc' = [pc EXCEPT ![e] = "crashed"]
    /\ UNCHANGED <<fileVars, readVars, setVars, raceVars>>

-----------------------------------------------------------------------------
(* One emission.                                                              *)

Goes(e, from, to) == pc[e] = from /\ pc' = [pc EXCEPT ![e] = to]

\* The staging directory is removed and the exception goes on; what an
\* exception before mkdtemp does is the same, there is nothing to remove.
Abandon(e) ==
    /\ pc' = [pc EXCEPT ![e] = "refused"]
    /\ staging' = [staging EXCEPT ![e] = FALSE]
    /\ UNCHANGED <<fileVars, readVars, staged, digest, todo, written, late, remover>>

Refuse(e) == Abandon(e) /\ UNCHANGED lost

LosesOut(e) == Abandon(e) /\ lost' = lost \cup {e}

\* Bad arguments, unreadable or malformed files, any other exception.
Fail(e) == pc[e] \in Running /\ Refuse(e)

ReadAbi(e) ==
    /\ Goes(e, "abi", "outdir")
    /\ abi' = [abi EXCEPT ![e] = checkout[AbiFile]]
    /\ UNCHANGED <<fileVars, before, after, contract, lock, instant, setVars, raceVars>>

AcceptOut(e) ==
    /\ out \in Free /\ Goes(e, "outdir", "before")
    /\ UNCHANGED <<fileVars, readVars, setVars, raceVars>>

RefuseOut(e) == pc[e] = "outdir" /\ out \notin Free /\ Refuse(e)

\* Stops at the first part it could read (a mutant of Complete).
Started(seen) == \E p \in Parts : seen[p] # None

Complete(seen) == \A p \in Parts : seen[p] # None

ObserveBefore(e, p) ==
    /\ pc[e] = "before" /\ before[e][p] = None
    /\ before' = [before EXCEPT ![e][p] = checkout[p]]
    /\ IF Complete(before'[e])
       THEN /\ pc' = [pc EXCEPT ![e] = "contract"]
            /\ instant' = [instant EXCEPT ![e] = checkout]
       ELSE UNCHANGED <<pc, instant>>
    /\ UNCHANGED <<fileVars, abi, after, contract, lock, setVars, raceVars>>

ReadContract(e) ==
    /\ checkout[ContractFile] \in Supported /\ Goes(e, "contract", "locks")
    /\ contract' = [contract EXCEPT ![e] = checkout[ContractFile]]
    /\ UNCHANGED <<fileVars, abi, before, after, lock, instant, setVars, raceVars>>

RefuseContract(e) ==
    pc[e] = "contract" /\ checkout[ContractFile] \notin Supported /\ Refuse(e)

HashLocks(e) ==
    /\ Goes(e, "locks", "mkdtemp")
    /\ lock' = [lock EXCEPT ![e] = checkout[LockFile]]
    /\ UNCHANGED <<fileVars, abi, before, after, contract, instant, setVars, raceVars>>

MakeStaging(e) ==
    /\ Goes(e, "mkdtemp", "copy")
    /\ staging' = [staging EXCEPT ![e] = TRUE]
    /\ todo' = [todo EXCEPT ![e] = Roles]
    /\ UNCHANGED <<fileVars, readVars, staged, digest, written, late, raceVars>>

\* copy_and_hash hashes the bytes it writes, whatever the source held.
CopyAndHash(e, r, b) ==
    /\ pc[e] = "copy" /\ r \in todo[e]
    /\ staged' = [staged EXCEPT ![e][r] = b]
    /\ digest' = [digest EXCEPT ![e][r] = b]
    /\ IF todo[e] = {r}
       THEN /\ pc' = [pc EXCEPT ![e] = "inspect"]
            /\ todo' = [todo EXCEPT ![e] = Roots]
       ELSE /\ todo' = [todo EXCEPT ![e] = @ \ {r}] /\ UNCHANGED pc
    /\ UNCHANGED <<fileVars, readVars, staging, written, late, raceVars>>

Inspect(e, r) ==
    /\ pc[e] = "inspect" /\ r \in todo[e] /\ staged[e][r] \in Compatible
    /\ todo' = [todo EXCEPT ![e] = @ \ {r}]
    /\ UNCHANGED <<fileVars, pc, readVars, staging, staged, digest, written, late, raceVars>>

RefuseRoot(e, r) ==
    pc[e] = "inspect" /\ r \in todo[e] /\ staged[e][r] \notin Compatible /\ Refuse(e)

Inspected(e) ==
    /\ todo[e] = {} /\ Goes(e, "inspect", "after")
    /\ UNCHANGED <<fileVars, readVars, setVars, raceVars>>

ObserveAfter(e, p) ==
    /\ pc[e] = "after" /\ after[e][p] = None
    /\ after' = [after EXCEPT ![e][p] = checkout[p]]
    /\ pc' = IF Complete(after'[e]) THEN [pc EXCEPT ![e] = "compare"] ELSE pc
    /\ UNCHANGED <<fileVars, abi, before, contract, lock, instant, setVars, raceVars>>

\* The commit, and the fingerprint of what was seen unless that is clean.
Identity(seen) ==
    [commit |-> seen[Head],
     fingerprint |-> [p \in IF seen \in CleanStates THEN {} ELSE Named[seen] |-> seen[p]]]

\* Compares the commits alone (a mutant of SameIdentity).
SameCommit(e) == after[e][Head] = before[e][Head]

SameIdentity(e) == Identity(after[e]) = Identity(before[e])

Agree(e) ==
    /\ Goes(e, "compare", "verify") /\ SameIdentity(e)
    /\ todo' = [todo EXCEPT ![e] = Roles]
    /\ UNCHANGED <<fileVars, readVars, staging, staged, digest, written, late, raceVars>>

RefuseChanged(e) == pc[e] = "compare" /\ ~SameIdentity(e) /\ Refuse(e)

\* Checks that the file is there, not what is in it (a mutant of Unchanged).
StillThere(e, r) == staged[e][r] # None

Unchanged(e, r) == staged[e][r] = digest[e][r]

Recheck(e, r) ==
    /\ pc[e] = "verify" /\ r \in todo[e] /\ Unchanged(e, r)
    /\ todo' = [todo EXCEPT ![e] = @ \ {r}]
    /\ pc' = IF todo[e] = {r} THEN [pc EXCEPT ![e] = "write"] ELSE pc
    /\ UNCHANGED <<fileVars, readVars, staging, staged, digest, written, late, raceVars>>

RefuseStaged(e, r) ==
    pc[e] = "verify" /\ r \in todo[e] /\ ~Unchanged(e, r) /\ Refuse(e)

WriteManifest(e) ==
    /\ Goes(e, "write", "probe")
    /\ written' = [written EXCEPT ![e] = TRUE]
    /\ UNCHANGED <<fileVars, readVars, staging, staged, digest, todo, late, raceVars>>

\* `if out.is_dir()`: a set somebody else published is a directory too, and
\* what is foreign may be one or not.
ProbeOut(e) ==
    /\ \/ out \in {"absent", "foreign"} /\ Goes(e, "probe", "rename")
       \/ out # "absent" /\ Goes(e, "probe", "rmdir")
    /\ UNCHANGED <<fileVars, readVars, setVars, raceVars>>

RemoveEmpty(e) ==
    /\ out = "empty" /\ Goes(e, "rmdir", "rename")
    /\ out' = "absent" /\ remover' = e
    /\ UNCHANGED <<checkout, readVars, setVars, lost>>

LoseRmdir(e) == pc[e] = "rmdir" /\ out # "empty" /\ LosesOut(e)

\* Moves the set over whatever is there (mutants of Renamable).
Overwrites == TRUE
OntoNothingOnly == out = "absent"

\* rename of a directory replaces an empty directory and nothing else.
Renamable == out \in Free

Rename(e) ==
    /\ Renamable /\ Goes(e, "rename", "done")
    /\ out' = e
    /\ staging' = [staging EXCEPT ![e] = FALSE]
    /\ UNCHANGED <<checkout, readVars, staged, digest, todo, written, late, raceVars>>

LoseRename(e) == pc[e] = "rename" /\ ~Renamable /\ LosesOut(e)
-----------------------------------------------------------------------------
Others ==
    \/ \E p \in Parts, v \in Values : EditCheckout(p, v)
    \/ \E e \in Emitters, r \in Roles, b \in Bytes : ChangeStaged(e, r, b)
    \/ UseOut
    \/ \E e \in Emitters : Crash(e)

Emit(e) ==
    \/ ReadAbi(e) \/ AcceptOut(e) \/ RefuseOut(e)
    \/ \E p \in Parts : ObserveBefore(e, p) \/ ObserveAfter(e, p)
    \/ ReadContract(e) \/ RefuseContract(e) \/ HashLocks(e) \/ MakeStaging(e)
    \/ \E r \in Roles, b \in Bytes : CopyAndHash(e, r, b)
    \/ \E r \in Roles : Inspect(e, r) \/ RefuseRoot(e, r) \/ Recheck(e, r) \/ RefuseStaged(e, r)
    \/ Inspected(e) \/ Agree(e) \/ RefuseChanged(e)
    \/ WriteManifest(e) \/ ProbeOut(e) \/ RemoveEmpty(e) \/ LoseRmdir(e)
    \/ Rename(e) \/ LoseRename(e) \/ Fail(e)

Next == Others \/ \E e \in Emitters : Emit(e)

Spec == Init /\ [][Next]_vars

-----------------------------------------------------------------------------
(* Properties.                                                                *)

\* v is the content that the identity recorded by e stands for at part p: the very
\* content seen when it was dirty, up to conversions when it names a commit.
StandsFor(e, p, v) ==
    IF before[e] \in CleanStates THEN Canon[v] = Canon[before[e][p]] ELSE v = before[e][p]

\* There was an instant of the recording at which HEAD was the recorded commit
\* and every part that the recorded identity speaks of (index and tracked files
\* for a clean one, what was fingerprinted for a dirty one) was as it says,
\* although both observations read the checkout piece by piece while it was being
\* edited and only their identities are compared.
ManifestDescribesOneCheckout ==
    \A e \in Emitters : pc[e] = "done" =>
        /\ instant[e][Head] = before[e][Head]
        /\ \A p \in IF before[e] \in CleanStates THEN Covered ELSE Named[before[e]] :
               StandsFor(e, p, instant[e][p])

\* The lock hash and the base-image contract in a published manifest are those
\* of the checkout it names, though they are read between the two observations:
\* exactly for a dirty identity, up to line ends and $Id$ for a clean one.
InputsAreOfThatCheckout ==
    \A e \in Emitters : pc[e] = "done" =>
        /\ StandsFor(e, LockFile, lock[e])
        /\ StandsFor(e, ContractFile, contract[e]) /\ contract[e] \in Supported

\* A published file has the bytes whose digest the manifest records, and a
\* published root declares the manifest's contract in those very bytes, unless
\* the file was changed after its recheck.
RecordedBytesArePublished ==
    \A e \in Emitters : pc[e] = "done" =>
        \A r \in Roles \ late[e] :
            /\ staged[e][r] = digest[e][r] /\ digest[e][r] # None
            /\ r \in Roots => digest[e][r] \in Compatible

\* Emissions that race for one --out do not destroy each other's chance: who
\* loses it finds something there or, when --out has been removed since it was
\* probed, lost it to somebody else or to an emission that still has the rename
\* before it or failed for a reason of its own.
LostOnlyToATaker ==
    [][\A e \in lost' \ lost :
          \/ out \notin Free
          \/ remover = "others"
          \/ /\ remover \in Emitters \ lost'
             /\ pc[remover] \in {"rename", "refused", "crashed"}]_vars

\* What a reader of --out sees is an AtomicPublish.
Whole(e) == written[e] /\ \A r \in Roles : staged[e][r] # None

Outcome(p) ==
    IF p \in Running THEN "running" ELSE IF p = "done" THEN "published" ELSE "failed"

Slot == IF out \in Free THEN "free"
        ELSE IF out \in Emitters THEN (IF Whole(out) THEN out ELSE "torn")
        ELSE "foreign"

Publishing == INSTANCE AtomicPublish WITH
    slot <- Slot, outcome <- [e \in Emitters |-> Outcome(pc[e])]

PublishesAtomically == Publishing!ASpec
=============================================================================
