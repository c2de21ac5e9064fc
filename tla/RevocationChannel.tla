------------------------- MODULE RevocationChannel --------------------------
(* .github/workflows/revocations.yml: pushing a revocation-list/* tag runs a  *)
(* job that signs main's revocations.json and replaces the two assets of the  *)
(* release that is the channel. Runs of different tags share one concurrency  *)
(* group; a consumer downloads the two assets one after the other.            *)
(*                                                                            *)
(* The lists that main had so far are 1..main; list n is replaced by n + 1.   *)
EXTENDS Naturals

CONSTANTS
    Tags,      \* revocation-list/v*
    MaxLists,  \* bound: lists ever merged to main
    None

ASSUME ChannelAssumption == MaxLists \in Nat \ {0} /\ None \notin Nat

VARIABLES
    main,      \* number of lists merged so far; the last one is main's
    stale,     \* lists whose not_after has passed
    named,     \* what each tag names: nothing yet, a commit on main or another
    run,       \* where the run of each tag is
    list,      \* the list in its checkout
    todo,      \* assets it has still to delete and to upload
    json,      \* asset revocations.json: the list it holds
    bundle,    \* asset revocations.json.bundle: list and tag of the signature
    uploader,  \* observer: the tag whose run changed the assets last
    newest,    \* observer: the newest list that was ever in the channel
    fetched,   \* the list a consumer has downloaded and not yet verified
    accepted   \* the list it verified last

workVars    == <<named, run, list, todo>>
channelVars == <<json, bundle, uploader, newest>>
clientVars  == <<fetched, accepted>>
vars        == <<main, stale, named, run, list, todo, json, bundle, uploader,
                 newest, fetched, accepted>>

Lists  == 1..MaxLists
Assets == {"json", "bundle"}
Steps  == {"approval", "checkout", "ancestry", "validate", "sign", "view", "create", "upload"}

TypeOK ==
    /\ main \in Lists /\ stale \subseteq Lists
    /\ named \in [Tags -> {"nothing", "main", "elsewhere"}]
    /\ run \in [Tags -> {"none", "pending", "cancelled", "failed", "done"} \cup Steps]
    /\ list \in [Tags -> Lists \cup {None}]
    /\ todo \in [Tags -> SUBSET ({"delete", "upload"} \X Assets)]
    /\ json \in Lists \cup {None}
    /\ bundle \in [list : Lists, tag : Tags] \cup {None}
    /\ uploader \in Tags \cup {None} /\ newest \in 0..MaxLists
    /\ fetched \in Lists \cup {None} /\ accepted \in 0..MaxLists
    /\ \A t \in Tags : run[t] \in {"ancestry", "validate", "sign", "view", "create", "upload", "done"}
           => list[t] \in 1..main

Init ==
    /\ main = 1 /\ stale = {}
    /\ named = [t \in Tags |-> "nothing"] /\ run = [t \in Tags |-> "none"]
    /\ list = [t \in Tags |-> None] /\ todo = [t \in Tags |-> {}]
    /\ json = None /\ bundle = None /\ uploader = None /\ newest = 0
    /\ fetched = None /\ accepted = 0

-----------------------------------------------------------------------------
(* Maintainers, the clock, and GitHub's queue.                                *)

Merge ==
    /\ main < MaxLists /\ main' = main + 1
    /\ UNCHANGED <<stale, workVars, channelVars, clientVars>>

Expires(n) ==
    /\ n \in 1..main \ stale /\ stale' = stale \cup {n}
    /\ UNCHANGED <<main, workVars, channelVars, clientVars>>

\* A run that joins the group takes the place of the one that was pending.
Queue(t) ==
    /\ run' = [u \in Tags |-> IF u = t THEN "pending"
                              ELSE IF run[u] = "pending" THEN "cancelled" ELSE run[u]]
    /\ UNCHANGED <<main, stale, list, todo, channelVars, clientVars>>

PushTag(t, where) ==
    /\ named[t] = "nothing" /\ where \in {"main", "elsewhere"}
    /\ named' = [named EXCEPT ![t] = where]
    /\ Queue(t)

Rerun(t) == run[t] \in {"failed", "cancelled"} /\ Queue(t) /\ UNCHANGED named

\* No concurrency group (a mutant of Free).
NoGroup == TRUE

\* The group is taken from the start of a run to its end.
Free == \A u \in Tags : run[u] \notin Steps

Goes(t, from, to) ==
    /\ run[t] = from /\ run' = [run EXCEPT ![t] = to]
    /\ UNCHANGED <<main, stale, named, clientVars>>

Start(t) == Free /\ Goes(t, "pending", "approval") /\ UNCHANGED <<list, todo, channelVars>>

-----------------------------------------------------------------------------
(* The job.                                                                   *)

\* environment: image-release. A reviewer lets the job begin.
Approve(t) == Goes(t, "approval", "checkout") /\ UNCHANGED <<list, todo, channelVars>>

\* A rejection, a cancellation, a timeout or a command that fails.
Fail(t) ==
    /\ run[t] \in Steps /\ Goes(t, run[t], "failed")
    /\ UNCHANGED <<list, todo, channelVars>>

\* Works on what an earlier attempt checked out (a mutant of Checkout).
KeepsCheckout(t) ==
    Goes(t, "checkout", "ancestry") /\ UNCHANGED <<list, todo, channelVars>>

\* actions/checkout with `ref: main`.
Checkout(t) ==
    /\ Goes(t, "checkout", "ancestry")
    /\ list' = [list EXCEPT ![t] = main]
    /\ UNCHANGED <<todo, channelVars>>

\* HEAD is an ancestor of origin/main.
CheckAncestry(t) ==
    /\ list[t] \in 1..main /\ Goes(t, "ancestry", "validate")
    /\ UNCHANGED <<list, todo, channelVars>>

Validate(t) ==
    /\ list[t] \notin stale /\ Goes(t, "validate", "sign")
    /\ UNCHANGED <<list, todo, channelVars>>

Sign(t) == Goes(t, "sign", "view") /\ UNCHANGED <<list, todo, channelVars>>

\* gh release view: the release is there once it has been created.
View(t) ==
    /\ Goes(t, "view", IF uploader = None THEN "create" ELSE "upload")
    /\ todo' = [todo EXCEPT ![t] = {"delete", "upload"} \X Assets]
    /\ UNCHANGED <<list, channelVars>>

\* The list in the checkout and its signature under the identity of the tag.
SignedBy(t) == [list |-> list[t], tag |-> t]

Newer(n) == newest' = IF n > newest THEN n ELSE newest

Create(t) ==
    /\ uploader = None /\ Goes(t, "create", "done")
    /\ json' = list[t] /\ bundle' = SignedBy(t)
    /\ uploader' = t /\ Newer(list[t])
    /\ UNCHANGED <<list, todo>>

\* --clobber: an asset is deleted before its successor is uploaded; nothing
\* orders the two assets.
Delete(t, a) ==
    /\ run[t] = "upload" /\ <<"delete", a>> \in todo[t]
    /\ todo' = [todo EXCEPT ![t] = @ \ {<<"delete", a>>}]
    /\ IF a = "json" THEN json' = None /\ UNCHANGED bundle ELSE bundle' = None /\ UNCHANGED json
    /\ uploader' = t
    /\ UNCHANGED <<main, stale, named, run, list, newest, clientVars>>

\* Only the list itself is replaced (a mutant of Remaining).
ListAlone(t) == todo[t] \ {<<"upload", "bundle">>}

\* What is left of an upload before its current command.
Remaining(t) == todo[t]

Upload(t, a) ==
    /\ <<"upload", a>> \in Remaining(t) /\ <<"delete", a>> \notin todo[t]
    /\ todo' = [todo EXCEPT ![t] = Remaining(t) \ {<<"upload", a>>}]
    /\ Goes(t, "upload", IF todo'[t] = {} THEN "done" ELSE "upload")
    /\ IF a = "json" THEN json' = list[t] /\ UNCHANGED bundle
                     ELSE bundle' = SignedBy(t) /\ UNCHANGED json
    /\ uploader' = t
    /\ IF a = "json" THEN Newer(list[t]) ELSE UNCHANGED newest
    /\ UNCHANGED list

-----------------------------------------------------------------------------
(* A consumer, in the mvm repository.                                         *)

Fetch ==
    /\ fetched = None /\ json # None /\ fetched' = json
    /\ UNCHANGED <<main, stale, workVars, channelVars, accepted>>

Verifies == bundle # None /\ bundle.list = fetched

\* The bundle is downloaded and checked, and the list must not be stale; a
\* consumer that refuses what it has fetched may try again.
Accept ==
    /\ fetched # None /\ fetched' = None
    /\ accepted' = IF Verifies /\ fetched \notin stale THEN fetched ELSE accepted
    /\ UNCHANGED <<main, stale, workVars, channelVars>>

-----------------------------------------------------------------------------
Job(t) ==
    \/ Start(t) \/ Approve(t) \/ Checkout(t) \/ CheckAncestry(t) \/ Validate(t)
    \/ Sign(t) \/ View(t) \/ Create(t) \/ Fail(t)
    \/ \E a \in Assets : Delete(t, a) \/ Upload(t, a)

Next ==
    \/ Merge \/ Fetch \/ Accept
    \/ \E n \in Lists : Expires(n)
    \/ \E t \in Tags : Rerun(t) \/ Job(t) \/ \E where \in {"main", "elsewhere"} : PushTag(t, where)

Spec == Init /\ [][Next]_vars

-----------------------------------------------------------------------------
(* Properties.                                                                *)

\* The channel never goes back to a list older than one it has held, whatever
\* tags are pushed, approved late, fail half-way and are run again: the list
\* is read from main by the run that holds the group.
ChannelNeverGoesBack == json \in {None, newest}

\* When the run that changed the channel last has succeeded, the channel is a
\* list of main and its signature under that run's tag, whatever earlier runs
\* left behind.
SuccessLeavesAPair ==
    uploader # None /\ run[uploader] = "done" =>
        json = list[uploader] /\ bundle = SignedBy(uploader)

\* A consumer never goes back from a list to an older one, although it
\* downloads the pair in two requests while it is being replaced.
ConsumerNeverGoesBack == [][accepted' >= accepted]_accepted

(* What REVOCATIONS.md and the comment of the workflow say of a publication.  *)

\* "the tag must name a commit on `main`": no list is signed for another tag.
SignedTagIsOnMain ==
    \A t \in Tags : run[t] \in {"view", "create", "upload", "done"} => named[t] = "main"
=============================================================================
