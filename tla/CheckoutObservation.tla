------------------------ MODULE CheckoutObservation -------------------------
(* repo_identity of scripts/emit-local-manifest.py, twice, as emit calls it:  *)
(* the configuration, HEAD, the index and its shared index, each tracked      *)
(* file, the rules that apply to it and each untracked file are read one      *)
(* after the other, while others edit the checkout and the configuration.     *)
(*                                                                            *)
(* A body of a file is a record of what the comparison with Git's objects can *)
(* tell apart: its text, its line ends, whether it looks binary, whether its  *)
(* $Id$ is expanded. An object id stands for the object, a commit for its id  *)
(* and sorted tree, a sparse directory for its entries. Directories of the    *)
(* working tree are seen as the files in them; a gitlink's is a value, its    *)
(* own identity. The identity hash is injective.                              *)
EXTENDS SplitIndex, GitConfig

CONSTANTS
    Paths,       \* names that occur
    AttrPath,    \* .gitattributes
    IgnorePath,  \* .gitignore
    Rules,       \* attributes that a .gitattributes body of that text assigns
    Ignores,     \* [yes, no]: paths that a .gitignore body of that text decides on
    Kinds,       \* sets of checkouts to be observed
    Edits,       \* <<p, f, g>>: a user may replace file f at path p by g
    Settles,     \* <<f, v, w>>: a user may replace configuration file f, v, by w
    Moves,       \* <<c, d>>: a user may move HEAD from commit c to d
    Stagings,    \* <<i, j>>: a user may replace the index i by j
    NotRead, NoBody

Regular == {"644", "755"}

(* What a checkout is made of.                                                *)

Blobs == [text : DOMAIN Rules, eol : {"none", "lf", "crlf", "mixed"}, bin : BOOLEAN,
          ident : {"none", "bare", "filled"}]

Attributed == [text : {"unset", "yes", "no", "auto", "input"}, crlf : {"unset", "yes", "no", "input"},
               eol : {"unset", "set"}, ident : {"unset", "yes"}, filter : {"unset", "set"}]

IsFile(f) ==
    /\ f.mode \in Regular \cup {"link", "dir", "absent"} /\ (f.mode = "absent" <=> f.body = NoBody)
    /\ f.mode \in Regular \cup {"link"} => f.body \in Blobs

IsRecord(e, modes) ==
    e \in [name : Paths \cup {0}, mode : modes, stage : 0..3,
           flags : SUBSET {"skip", "valid", "add"}, oid : {e.oid}]

\* Everything but a sparse directory.
IsLeaf(e) == IsRecord(e, Regular \cup {"link", "sub"}) /\ (e.mode # "sub" => e.oid \in Blobs)

IsOrdered(es) == \A i, j \in DOMAIN es : i < j => Precedes(es[i], es[j])

IsTree(es) ==
    /\ es \in Seq(ToSet(es)) /\ IsOrdered(es)
    /\ \A e \in ToSet(es) : IsLeaf(e) /\ e.name # 0 /\ e.stage = 0

IsEntry(e) == IsLeaf(e) \/ (IsRecord(e, {"tree"}) /\ IsTree(e.oid.tree))

AreRecords(es) == es \in Seq(ToSet(es)) /\ \A e \in ToSet(es) : IsEntry(e)

\* A sparse directory stands for its leaves, which have its stage and flags and
\* need not be in the tree.
Leaves(e) ==
    IF e.mode # "tree" THEN {e}
    ELSE {[leaf EXCEPT !.stage = e.stage, !.flags = e.flags \cup {"skip"}] :
             leaf \in ToSet(e.oid.tree)}

AllLeaves(f) == UNION {Leaves(e) : e \in Entries(f)}

\* 0 is also any name that _safe_path refuses.
Unsafe(f) == \E e \in Entries(f) : e.name = 0

\* An index has one entry of a name in a stage, and .gitattributes is a file.
IsIndex(f) ==
    /\ AreRecords(f.records) /\ AreRecords(f.link.base)
    /\ \A map \in {f.link.deleted, f.link.replaced} :
           map.size \in Nat /\ map.words \in Seq(Nat)
    /\ (f.split /\ ~f.link.bare /\ Unmergeable(f)) \/ Unsafe(f) \/
           \A e, g \in AllLeaves(f) :
               /\ e.name = g.name /\ e.stage = g.stage => e = g
               /\ e.name = AttrPath => e.mode # "sub"

IsCheckout(c) ==
    /\ DOMAIN c = {"head", "index", "shared", "work", "info", "exclude", "env", "conf"}
    /\ IsTree(c.head.tree) /\ IsIndex(c.index)
    /\ DOMAIN c.work = Paths /\ \A p \in Paths : IsFile(c.work[p])
    /\ c.info \in Attributed /\ IsEnvironment(c.env)
    /\ DOMAIN c.conf = ConfigFiles /\ \A f \in ConfigFiles : IsConfigFile(c.conf[f])

ASSUME ObservationAssumption ==
    /\ Paths \subseteq Nat \ {0} /\ {AttrPath, IgnorePath} \subseteq Paths /\ AttrPath # IgnorePath
    /\ "none" \in DOMAIN Rules /\ \A t \in DOMAIN Rules : Rules[t] \in Attributed
    /\ NotRead \notin Blobs \cup {NoBody} /\ NoBody \notin Blobs
    /\ \A kind \in Kinds : \A c \in kind : IsCheckout(c)
    /\ \A e \in Edits : e[1] \in Paths /\ IsFile(e[3])
    /\ \A s \in Settles : s[1] \in ConfigFiles /\ IsConfigFile(s[3])
    /\ \A m \in Moves : IsTree(m[2].tree)
    /\ \A s \in Stagings : IsIndex(s[2])

VARIABLES
    checkout,  \* [head, index, shared, work, info, exclude, env, conf]
    pc,        \* where the observation is
    head,      \* HEAD, as read
    idx,       \* the index file, as read
    entries,   \* `indexed`
    todo,      \* `distinct` entries still to compare
    file,      \* what _file has returned of the first of them
    settings,  \* autocrlf, filemode and symlinks of RepositoryRules
    attrBody, ignoreBody,  \* its cache
    dirty,
    working,
    listing,   \* names the walk has still to visit
    untracked,
    first, second,  \* the two identities
    still,     \* observer: nobody has edited since this observation began
    instant    \* observer: the identity of the checkout when `first` was made

cacheVars == <<settings, attrBody, ignoreBody>>
indexVars == <<head, idx, entries>>
fileVars  == <<todo, file, dirty, working>>
walkVars  == <<listing, untracked>>
idVars    == <<first, second, instant>>
vars == <<checkout, pc, head, idx, entries, todo, file, settings, attrBody, ignoreBody, dirty,
          working, listing, untracked, first, second, still, instant>>

\* The directory of a gitlink: the identity of the repository in it.
Nested(c, s) == [commit |-> c, state |-> s]
Empty        == Nested(NoBody, "empty")

Running == {"context", "config", "head", "index", "shared", "files", "judge", "walk", "take"}

Init ==
    /\ \E kind \in Kinds : checkout \in kind
    /\ pc = "context" /\ settings = NotRead /\ head = NotRead /\ idx = NotRead
    /\ entries = <<>> /\ todo = <<>> /\ file = NotRead
    /\ attrBody = NotRead /\ ignoreBody = NotRead
    /\ dirty = FALSE /\ working = <<>> /\ listing = {} /\ untracked = {}
    /\ first = NotRead /\ second = NotRead /\ instant = NotRead /\ still = TRUE

-----------------------------------------------------------------------------
(* What is computed from what was read.                                       *)

Indexed(f) == InOrder(AllLeaves(f))

\* Of an unmerged path, our side if there is one, else the last.
Chosen(es, e) ==
    \A f \in ToSet(es) : f.name = e.name => f = e \/ (f.stage # 2 /\ (e.stage = 2 \/ f.stage < e.stage))

Distinct(es) == InOrder({e \in ToSet(es) : Chosen(es, e)})

Names(es) == {e.name : e \in ToSet(es)}

Content(e) == <<e.name, e.mode, e.stage, e.oid>>

IndexDiffers(es, c) ==
    \/ \E e \in ToSet(es) : e.stage # 0 \/ "add" \in e.flags
    \/ [k \in DOMAIN es |-> Content(es[k])] # [k \in DOMAIN c.tree |-> Content(c.tree[k])]

\* .git/info/attributes has the last word.
Attributes(body) ==
    LET tree == IF body = NoBody THEN Rules["none"] ELSE Rules[body.text] IN
    [a \in DOMAIN tree |-> IF checkout.info[a] = "unset" THEN tree[a] ELSE checkout.info[a]]

\* Converts whatever autocrlf says of it (a mutant of Converts).
ConvertsAll(attrs, body, blob) == attrs.text = "yes" \/ settings.autocrlf

HasCrlf(body) == body.eol \in {"crlf", "mixed"}

Text(attrs) ==
    CASE attrs.text = "input" -> "yes"
      [] attrs.text = "unset" /\ attrs.crlf \in {"yes", "no"} -> attrs.crlf
      [] attrs.text = "unset" /\ attrs.crlf = "input" -> "yes"
      [] OTHER -> attrs.text

Converts(attrs, body, blob) ==
    LET text == Text(attrs) IN
    \/ text = "yes"
    \/ text = "unset" /\ attrs.eol # "unset"
    \/ /\ text = "auto" \/ (text = "unset" /\ settings.autocrlf)
       /\ ~body.bin /\ (blob.bin \/ ~HasCrlf(blob))

Normalized(attrs, f, blob) ==
    IF f.mode \notin Regular THEN f.body
    ELSE [f.body EXCEPT
            !.eol   = IF Converts(attrs, f.body, blob) /\ HasCrlf(f.body) THEN "lf" ELSE @,
            !.ident = IF attrs.ident = "yes" /\ @ = "filled" THEN "bare" ELSE @]

ActualMode(e, f) ==
    IF e.mode = "link" /\ f.mode \in Regular /\ ~settings.symlinks THEN e.mode
    ELSE IF {e.mode, f.mode} \subseteq Regular /\ ~settings.filemode THEN e.mode
    ELSE f.mode

\* A path left out of a sparse checkout need not be there.
Forgiven(e, f) == f.mode = "absent" /\ "skip" \in e.flags

-----------------------------------------------------------------------------
(* The users.                                                                 *)

Edited == still' = FALSE /\ UNCHANGED <<pc, indexVars, fileVars, cacheVars, walkVars, idVars>>

EditFile(p, f, g) ==
    /\ checkout.work[p] = f
    /\ checkout' = [checkout EXCEPT !.work[p] = g] /\ Edited

Settle(f, v, w) ==
    checkout.conf[f] = v /\ checkout' = [checkout EXCEPT !.conf[f] = w] /\ Edited

MoveHead(c, d) ==
    checkout.head = c /\ checkout' = [checkout EXCEPT !.head = d] /\ Edited

Stage(i, j) ==
    checkout.index = i /\ checkout' = [checkout EXCEPT !.index = j] /\ Edited

\* Git expires shared indexes.
ExpireShared ==
    /\ checkout.index.split /\ checkout.shared # "missing"
    /\ checkout' = [checkout EXCEPT !.shared = "missing"] /\ Edited

-----------------------------------------------------------------------------
(* The observation.                                                           *)

Refuse ==
    /\ pc' = "refused"
    /\ UNCHANGED <<checkout, indexVars, fileVars, cacheVars, walkVars, idVars, still>>

\* Input that cannot be read, decoded or parsed.
Fail == pc \in Running /\ Refuse

Contributing == system_context(checkout.env)

\* The controls of the environment, and that the file they name is there.
ResolveContext ==
    /\ pc = "context" /\ SystemIsResolved(checkout.env, checkout.conf) /\ pc' = "config"
    /\ UNCHANGED <<checkout, indexVars, fileVars, cacheVars, walkVars, idVars, still>>

ConfigReads ==
    /\ StackIsRead(checkout.env, Contributing, checkout.conf)
    /\ AreValid(Settings(checkout.env, Contributing, checkout.conf))

ReadConfig ==
    /\ pc = "config" /\ ConfigReads /\ pc' = "head"
    /\ LET s == Settings(checkout.env, Contributing, checkout.conf) IN
       settings' = [autocrlf |-> autocrlf(s.autocrlf), filemode |-> git_boolean(s.filemode),
                    symlinks |-> git_boolean(s.symlinks)]
    /\ UNCHANGED <<checkout, indexVars, fileVars, attrBody, ignoreBody, walkVars, idVars, still>>

RefuseConfig ==
    /\ \/ pc = "context" /\ ~SystemIsResolved(checkout.env, checkout.conf)
       \/ pc = "config" /\ ~ConfigReads
    /\ Refuse

ReadHead ==
    /\ pc = "head" /\ pc' = "index" /\ head' = checkout.head
    /\ UNCHANGED <<checkout, idx, entries, fileVars, cacheVars, walkVars, idVars, still>>

\* The comparison with the commit's tree reads objects, which do not change.
Indexes(f) ==
    /\ pc' = "files" /\ idx' = f /\ entries' = Indexed(f)
    /\ todo' = Distinct(entries') /\ dirty' = IndexDiffers(entries', head)
    /\ UNCHANGED <<checkout, head, file, working, cacheVars, walkVars, idVars, still>>

ReadIndex ==
    /\ pc = "index"
    /\ IF checkout.index.split
       THEN /\ pc' = "shared" /\ idx' = checkout.index
            /\ UNCHANGED <<checkout, head, entries, fileVars, cacheVars, walkVars, idVars, still>>
       ELSE ~Unsafe(checkout.index) /\ Indexes(checkout.index)

SharedReads == checkout.shared = "right" /\ (idx.link.bare \/ ~Unmergeable(idx))

ReadShared == pc = "shared" /\ SharedReads /\ ~Unsafe(idx) /\ Indexes(idx)

RefuseIndex ==
    /\ \/ pc = "index" /\ ~checkout.index.split /\ Unsafe(checkout.index)
       \/ pc = "shared" /\ (SharedReads => Unsafe(idx))
    /\ Refuse

Judged(record, isDirty) ==
    /\ pc' = "files" /\ todo' = Tail(todo) /\ file' = NotRead
    /\ working' = Append(working, record) /\ dirty' = (dirty \/ isDirty)
    /\ UNCHANGED <<checkout, indexVars, walkVars, idVars, still>>

\* _file: a directory has no body.
FileAt(p) ==
    IF checkout.work[p].mode \in {"absent", "dir"}
    THEN [mode |-> checkout.work[p].mode, body |-> NoBody] ELSE checkout.work[p]

ReadFile ==
    /\ pc = "files" /\ todo # <<>> /\ Head(todo).mode # "sub"
    /\ pc' = "judge" /\ file' = FileAt(Head(todo).name)
    /\ UNCHANGED <<checkout, indexVars, todo, dirty, working, cacheVars, walkVars, idVars, still>>

\* A gitlink: the identity of the repository there, if there is one; a
\* directory that is missing or empty was not initialized. Files without
\* metadata are refused.
ObserveGitlink ==
    /\ pc = "files" /\ todo # <<>> /\ Head(todo).mode = "sub"
    /\ LET e == Head(todo)  f == checkout.work[e.name] IN
       IF f.mode \in Regular \cup {"link"}
       THEN Judged(<<e.name, f.mode, f.body>>, TRUE) /\ UNCHANGED cacheVars
       ELSE IF f.mode = "dir" /\ f.body.state = "files" THEN Refuse
       ELSE LET body == IF f.body \in {NoBody, Empty} THEN Nested(e.oid, "clean") ELSE f.body IN
            Judged(<<e.name, "sub", body>>, body # Nested(e.oid, "clean")) /\ UNCHANGED cacheVars

\* RepositoryRules.body: the file, or what the index has of it.
Resource(p, cached, es) ==
    LET f == checkout.work[p] IN
    IF cached # NotRead THEN cached
    ELSE IF f.mode # "absent" THEN f.body
    ELSE IF p = AttrPath /\ p \in Names(es)
         THEN (CHOOSE e \in ToSet(Distinct(es)) : e.name = p).oid ELSE NoBody

Readable(p, cached) == cached # NotRead \/ checkout.work[p].mode \in Regular \cup {"absent"}

Judge ==
    /\ pc = "judge"
    /\ LET e == Head(todo)  body == Resource(AttrPath, attrBody, entries)  attrs == Attributes(body)
           same(seen) == ActualMode(e, file) = e.mode /\ seen = e.oid
           record == <<e.name, file.mode, file.body>>
       IN  IF e.mode = "link"
           THEN /\ Judged(record, ~Forgiven(e, file) /\ ~same(file.body)) /\ UNCHANGED cacheVars
           ELSE IF Readable(AttrPath, attrBody) /\ attrs.filter = "unset"
           THEN /\ Judged(record, ~Forgiven(e, file) /\ ~same(Normalized(attrs, file, e.oid)))
                /\ attrBody' = body /\ UNCHANGED <<settings, ignoreBody>>
           ELSE Refuse

\* Walks over tracked files too (a mutant of Unlisted).
All == Paths

Unlisted == Paths \ Names(entries)

ListFiles ==
    /\ pc = "files" /\ todo = <<>> /\ pc' = "walk"
    /\ listing' = {p \in Unlisted : checkout.work[p].mode # "absent"}
    /\ UNCHANGED <<checkout, indexVars, fileVars, cacheVars, untracked, idVars, still>>

\* .gitignore has the last word.
IsIgnored(p, body) ==
    IF body = NoBody THEN p \in checkout.exclude
    ELSE p \in Ignores[body.text].yes \/ (p \in checkout.exclude /\ p \notin Ignores[body.text].no)

Least(S) == CHOOSE p \in S : \A q \in S : p <= q

\* A name that has gone since it was listed makes lstat fail.
Visit ==
    /\ pc = "walk" /\ listing # {}
    /\ LET p == Least(listing)  body == Resource(IgnorePath, ignoreBody, entries)
       IN  IF checkout.work[p].mode = "absent" \/ ~Readable(IgnorePath, ignoreBody) THEN Refuse
           ELSE /\ ignoreBody' = body
                /\ IF IsIgnored(p, body) \/ checkout.work[p].mode = "dir"
                   THEN listing' = listing \ {p} /\ UNCHANGED pc
                   ELSE pc' = "take" /\ UNCHANGED listing
                /\ UNCHANGED <<checkout, indexVars, fileVars, settings, attrBody, untracked, idVars, still>>

Take ==
    /\ pc = "take" /\ pc' = "walk" /\ listing' = listing \ {Least(listing)}
    /\ untracked' = untracked \cup {<<Least(listing), FileAt(Least(listing))>>}
    /\ UNCHANGED <<checkout, indexVars, fileVars, cacheVars, idVars, still>>

\* The fingerprint of a dirty checkout covers all that was read.
Identity(c, isDirty, es, files, others) ==
    IF isDirty \/ others # {} THEN <<c, "dirty", es, files, others>> ELSE <<c, "clean">>

-----------------------------------------------------------------------------
(* The checkout as it is at one instant: what it is for this project, what    *)
(* git status would say of it, from Git's own steps of conversion, and where  *)
(* the two differ.                                                            *)

Read(e) ==
    IF e.mode = "sub" /\ checkout.work[e.name].mode \in {"absent", "dir"}
    THEN <<e.name, "sub", IF checkout.work[e.name].body \in {NoBody, Empty}
                          THEN Nested(e.oid, "clean") ELSE checkout.work[e.name].body>>
    ELSE <<e.name, FileAt(e.name).mode, FileAt(e.name).body>>

GitSays(key) == GitTrue(GitValue(checkout.env, checkout.conf, key))

\* Attribute text, or crlf where there is none; else eol; else the setting.
Conversion(attrs) ==
    LET said == IF attrs.text # "unset" THEN attrs.text ELSE attrs.crlf IN
    CASE said \in {"yes", "input"} -> "text"
      [] said = "no"   -> "binary"
      [] said = "auto" -> "auto"
      [] said = "unset" /\ attrs.eol # "unset" -> "text"
      [] OTHER ->
         IF GitSays("autocrlf") \/ GitValue(checkout.env, checkout.conf, "autocrlf").word = "input"
         THEN "auto" ELSE "binary"

Stores(attrs, body, blob) ==
    LET keep == \/ Conversion(attrs) = "binary"
                \/ Conversion(attrs) = "auto" /\ (body.bin \/ (HasCrlf(blob) /\ ~blob.bin))
    IN  [body EXCEPT !.eol = IF keep \/ @ = "none" THEN @ ELSE "lf",
                     !.ident = IF attrs.ident = "yes" /\ @ # "none" THEN "bare" ELSE @]

\* What is there is what is committed, as Git compares it. The directory of a
\* gitlink may be empty; one that is not there is deleted.
Matches(es, e) ==
    LET f == checkout.work[e.name]
        attrs == Attributes(Resource(AttrPath, NotRead, es))
    IN  \/ e.mode = "sub" /\ f.mode = "dir" /\ f.body \in {Empty, Nested(e.oid, "clean")}
        \/ e.mode = "link" /\ f.mode \in (IF GitSays("symlinks") THEN {} ELSE Regular) \cup {"link"}
               /\ f.body = e.oid
        \/ {e.mode, f.mode} \subseteq Regular /\ (GitSays("filemode") => f.mode = e.mode)
               /\ Stores(attrs, f.body, e.oid) = e.oid

\* The project compares marked entries too: assume-unchanged and skip-worktree
\* do not hide an edit (test_local_mvm.py:440), and only a path left out of a
\* sparse checkout need not be there. A gitlink's directory need not, either.
Unmodified(es, e) ==
    \/ Matches(es, e)
    \/ checkout.work[e.name].mode = "absent" /\ ("skip" \in e.flags \/ e.mode = "sub")

Others(es) ==
    {<<p, FileAt(p)>> : p \in {q \in Paths \ Names(es) :
        /\ checkout.work[q].mode \notin {"absent", "dir"}
        /\ ~IsIgnored(q, Resource(IgnorePath, NotRead, es))}}

Clean(es) ==
    /\ GitUnderstands(checkout.env, checkout.conf)
    /\ {Content(e) : e \in ToSet(es)} = {Content(e) : e \in ToSet(checkout.head.tree)}
    /\ \A e \in ToSet(es) : "add" \notin e.flags /\ Unmodified(es, e)
    /\ Others(es) = {}

\* Git does not look at what is at the path of an entry that is marked.
GitLooksAt(e) == e.flags \cap {"skip", "valid"} = {}

\* From the index Git takes a .gitignore that is left out of a sparse checkout.
GitIgnores(es) ==
    LET f == checkout.work[IgnorePath]
        left == {e \in ToSet(es) : e.name = IgnorePath /\ "skip" \in e.flags}
    IN  IF f.mode = "absent" /\ left # {} THEN (CHOOSE e \in left : TRUE).oid ELSE f.body

\* git status has nothing to say.
GitSilent(es) ==
    /\ GitUnderstands(checkout.env, checkout.conf)
    /\ {Content(e) : e \in ToSet(es)} = {Content(e) : e \in ToSet(checkout.head.tree)}
    /\ \A e \in ToSet(es) : "add" \notin e.flags /\ (GitLooksAt(e) => Matches(es, e))
    /\ \A q \in Paths \ Names(es) :
          checkout.work[q].mode \in {"absent", "dir"} \/ IsIgnored(q, GitIgnores(es))

\* A mark hides an edit from Git.
Hides(es) == \E e \in ToSet(es) : ~GitLooksAt(e) /\ ~Unmodified(es, e)

\* Something that Git misses, or takes from the index, and the code does not.
LeftOut(es) ==
    \E e \in ToSet(es) :
        /\ checkout.work[e.name].mode = "absent"
        /\ (e.mode = "sub" /\ GitLooksAt(e)) \/ (e.name = IgnorePath /\ "skip" \in e.flags)

\* The identity of the checkout as it is, were it read in one instant.
IdentityNow ==
    LET f == checkout.index  es == Indexed(f)  distinct == Distinct(es) IN
    IF f.split /\ (checkout.shared # "right" \/ (~f.link.bare /\ Unmergeable(f))) THEN "none"
    ELSE Identity(checkout.head, ~Clean(es), es,
                  [k \in DOMAIN distinct |-> Read(distinct[k])], Others(es))

-----------------------------------------------------------------------------
Result == Identity(head, dirty, entries, working, untracked)

\* Keeps the rules that were read (a mutant of Forgets).
KeepsRules == settings' = NotRead /\ UNCHANGED <<attrBody, ignoreBody>>

\* Each observation has RepositoryRules of its own.
Forgets == settings' = NotRead /\ attrBody' = NotRead /\ ignoreBody' = NotRead

Restarts ==
    /\ pc' = "context" /\ working' = <<>> /\ untracked' = {} /\ dirty' = FALSE /\ Forgets
    /\ head' = NotRead /\ idx' = NotRead /\ entries' = <<>> /\ still' = TRUE
    /\ UNCHANGED <<checkout, todo, file, listing>>

\* emit observes once more before it publishes.
Finish ==
    /\ pc = "walk" /\ listing = {} /\ first = NotRead
    /\ first' = Result /\ instant' = IdentityNow /\ UNCHANGED second /\ Restarts

FinishAgain ==
    /\ pc = "walk" /\ listing = {} /\ first # NotRead
    /\ second' = Result /\ pc' = "done"
    /\ UNCHANGED <<checkout, indexVars, fileVars, cacheVars, walkVars, first, instant, still>>

Users ==
    /\ pc \in Running
    /\ \/ \E e \in Edits : EditFile(e[1], e[2], e[3])
       \/ \E s \in Settles : Settle(s[1], s[2], s[3])
       \/ \E m \in Moves : MoveHead(m[1], m[2])
       \/ \E s \in Stagings : Stage(s[1], s[2])
       \/ ExpireShared

Next ==
    \/ Users \/ Fail
    \/ ResolveContext \/ ReadConfig \/ RefuseConfig
    \/ ReadHead \/ ReadIndex \/ ReadShared \/ RefuseIndex
    \/ ReadFile \/ ObserveGitlink \/ Judge
    \/ ListFiles \/ Visit \/ Take \/ Finish \/ FinishAgain

Spec == Init /\ [][Next]_vars

-----------------------------------------------------------------------------
(* Properties.                                                                *)

TypeOK ==
    /\ pc \in Running \cup {"refused", "done"}
    /\ Names(entries) \subseteq Paths /\ listing \subseteq Paths \ Names(entries)
    /\ \E k \in 0..Len(Distinct(entries)) :
          todo = SubSeq(Distinct(entries), k + 1, Len(Distinct(entries)))
    /\ {u[1] : u \in untracked} \subseteq Paths \ Names(entries)
    /\ dirty \in BOOLEAN /\ still \in BOOLEAN

\* A split index that is not refused has bitmaps that name no position that the
\* shared index has not; none was passed over. It is read as the entries it
\* stands for: those of the shared index that neither bitmap names, a record for
\* each replaced one in order, and the records after those, in the order of an
\* index.
SplitIsMeant ==
    (idx # NotRead /\ idx.split /\ ~idx.link.bare /\ pc \notin {"index", "shared", "refused"}) =>
        /\ Meant(idx.link.deleted) \cup Meant(idx.link.replaced)
              \subseteq 0..(Len(idx.link.base) - 1)
        /\ ToSet(entries) = UNION {Leaves(e) : e \in MeantEntries(idx)}
        /\ IsOrdered(entries)

\* What is refused is damaged: a bitmap that is cut, that counts more literals
\* than it has, names a bit that it says it has not, or has more bits than the
\* shared index has entries; bitmaps that overlap, or records that do not fit
\* the entries they replace.
RefusesOnlyDamaged ==
    (pc = "shared" /\ Unmergeable(idx)) =>
        LET link == idx.link  n == Len(link.base)  new == Meant(link.replaced) IN
        \/ Damaged(link.deleted, n) \/ Damaged(link.replaced, n) \/ ~link.whole
        \/ Meant(link.deleted) \cap new # {} \/ Cardinality(new) > Len(idx.records)
        \/ \E k \in DOMAIN idx.records : (idx.records[k].name = 0) # (k <= Cardinality(new))
        \/ \E i \in new : link.base[i + 1].name = 0

\* An observation that nobody disturbs, though it reads one thing after the
\* other, has the identity of the checkout as it is: all that it records is
\* there, and each entry is compared as Git would, marked or not, under the
\* settings that count among all that the scopes of Git's configuration say.
\* It says clean when, and only when, git status would have nothing to say and
\* no mark hides an edit from Git; except where the directory of a gitlink is
\* missing, or a .gitignore is left out of a sparse checkout. Files that are
\* included do not speak of the worktree extension.
UndisturbedIdentity ==
    (still /\ pc = "walk" /\ listing = {} /\ OwnExtension(checkout.conf)) =>
        /\ Result = IdentityNow
        /\ LeftOut(entries) \/
              (Result = <<head, "clean">> <=> GitSilent(entries) /\ ~Hides(entries))

\* Of a second observation that nobody disturbs: it agrees with the first when,
\* and only when, that was of the checkout as it was between them. A first one
\* that was gathered piece by piece while the checkout was edited, and is of
\* none that existed, is refused.
SecondLookTells ==
    (still /\ pc = "done" /\ OwnExtension(checkout.conf)) => (second = first <=> first = instant)
=============================================================================
