----------------------- MODULE MCCheckoutObservation ------------------------
EXTENDS CheckoutObservation

MCPaths == 1..6
File    == 3
Other   == 4

Body(text) == [text |-> text, eol |-> "lf", bin |-> FALSE, ident |-> "none"]
Reg(body)  == [mode |-> "644", body |-> body]
Absent     == [mode |-> "absent", body |-> NoBody]

Entry(name, mode, oid) ==
    [name |-> name, mode |-> mode, stage |-> 0, flags |-> {}, oid |-> oid]

NoAttrs == [text |-> "unset", crlf |-> "unset", eol |-> "unset", ident |-> "unset", filter |-> "unset"]

Texts == {"none", "crlf", "filtered", "ignoring", "a", "b", "e1", "e2"}

MCRules == [t \in Texts |-> CASE t = "crlf" -> [NoAttrs EXCEPT !.text = "yes"]
                              [] t = "filtered" -> [NoAttrs EXCEPT !.filter = "set"]
                              [] OTHER -> NoAttrs]

MCIgnores == [t \in Texts |-> [yes |-> IF t = "ignoring" THEN {Other} ELSE {},
                               no  |-> IF t = "none" THEN {5} ELSE {}]]

NoMap  == [size |-> 0, words |-> <<>>, rlw |-> 0, cut |-> FALSE]
NoLink == [base |-> <<>>, deleted |-> NoMap, replaced |-> NoMap, whole |-> TRUE, bare |-> FALSE]

Plain(records) == [records |-> records, split |-> FALSE, link |-> NoLink]

\* The environment as it mostly is, and a repository that configures nothing.
Env == [command |-> FALSE, nosystem |-> Unset, attr_nosystem |-> Unset, system |-> Unset,
        global |-> Unset, home |-> TRUE, xdg |-> FALSE]

Sets(key, v)    == [key |-> key, value |-> v, file |-> Unset, cond |-> Unset]
Includes(f, c)  == [key |-> "include", value |-> Unset, file |-> f, cond |-> c]
Chooses(key, b) == <<Sets(key, Word(IF b THEN "yes" ELSE "no"))>>

MCConfigFiles == {"worktree", "local", "gitconfig", "dotconfig", "xdg", "system", "other", "more"}
NoConfig    == [f \in MCConfigFiles |-> IF f = "local" THEN <<>> ELSE Unset]

\* A checkout in which all is as committed.
Committed(tree) ==
    [head |-> [id |-> 1, tree |-> tree], index |-> Plain(tree), shared |-> "right",
     work |-> [p \in MCPaths |->
                 IF \E k \in DOMAIN tree : tree[k].name = p
                 THEN LET e == tree[CHOOSE k \in DOMAIN tree : tree[k].name = p] IN
                      IF e.mode = "sub" THEN [mode |-> "dir", body |-> Nested(e.oid, "clean")]
                      ELSE [mode |-> e.mode, body |-> e.oid]
                 ELSE Absent],
     info |-> NoAttrs, exclude |-> {}, env |-> Env, conf |-> NoConfig]

-----------------------------------------------------------------------------
\* Bitmaps of every form over a shared index of four entries.
Base == [k \in 1..4 |-> Entry(2 + k, "644", Body("a"))]

WordSeqs == UNION {[1..n -> 0..7] : n \in 0..3}

Bitmaps ==
    {[size |-> n, words |-> w, rlw |-> 0, cut |-> FALSE] : n \in {2, 4, 6}, w \in WordSeqs}
    \cup {[size |-> 4, words |-> w, rlw |-> r, cut |-> c] :
             r \in 0..2, c \in BOOLEAN, w \in {<<>>, <<4, 1>>}}

SplitOver(base, records, deleted, replaced, whole) ==
    [records |-> records, split |-> TRUE,
     link |-> [base |-> base, deleted |-> deleted, replaced |-> replaced,
               whole |-> whole, bare |-> FALSE]]

Decoded ==
    {[Committed(Base) EXCEPT !.index = SplitOver(Base, <<>>, map, NoMap, TRUE)] : map \in Bitmaps}

\* Every choice of deleted and replaced entries among three.
Small == SubSeq(Base, 1, 3)

BitmapOf(S) ==
    [size |-> 3, rlw |-> 0, cut |-> FALSE,
     words |-> <<4, (IF 0 \in S THEN 1 ELSE 0) + (IF 1 \in S THEN 2 ELSE 0) + (IF 2 \in S THEN 4 ELSE 0)>>]

Replacement(t) == Entry(0, "644", Body(t))

Records ==
    {SubSeq(<<Replacement("a"), Replacement("b"), Replacement("e1")>>, 1, k) \o added :
        k \in 0..3, added \in {<<>>, <<Entry(2, "644", Body("none"))>>, <<Entry(6, "644", Body("b"))>>}}

Hydrated ==
    {[Committed(Small) EXCEPT !.index = SplitOver(Small, r, BitmapOf(d), BitmapOf(s), w)] :
        r \in Records, d \in SUBSET (0..2), s \in SUBSET (0..2), w \in BOOLEAN}
    \cup {[Committed(Small) EXCEPT !.index.split = TRUE, !.index.link.bare = TRUE, !.shared = x] :
             x \in {"right", "wrong", "missing"}}

-----------------------------------------------------------------------------
\* Every combination of attributes, autocrlf, line ends and binary look.
Bodies == {[text |-> "a", eol |-> e, bin |-> b, ident |-> "none"] :
              e \in {"lf", "crlf"}, b \in BOOLEAN}

Attrs == [text : {"unset", "yes", "no", "auto", "input"}, crlf : {"unset", "yes", "no", "input"},
          eol : {"unset", "set"}, ident : {"unset"}, filter : {"unset"}]

Converted ==
    {[Committed(<<Entry(File, "644", blob)>>) EXCEPT
        !.work[File] = Reg([blob EXCEPT !.eol = e, !.bin = b]), !.info = a, !.conf["local"] = Chooses("autocrlf", c)] :
     blob \in Bodies, e \in {"lf", "mixed", "crlf"}, b \in BOOLEAN, a \in Attrs, c \in BOOLEAN}
    \cup
    {[Committed(<<Entry(File, "644", [Body("a") EXCEPT !.ident = i])>>) EXCEPT
        !.work[File].body.ident = j, !.info.ident = k, !.info.filter = f] :
     i \in {"bare", "filled"}, j \in {"bare", "filled"}, k \in {"unset", "yes"}, f \in {"unset", "set"}}

\* Every way an entry and what is at its path can differ.
Things == {Absent, Reg(Body("a")), Reg(Body("b")), [Reg(Body("a")) EXCEPT !.mode = "755"],
           [mode |-> "link", body |-> Body("a")], [mode |-> "dir", body |-> Empty]}

GitThings == {Absent, Reg(Body("a")), [mode |-> "link", body |-> Body("a")]}
             \cup {[mode |-> "dir", body |-> b] :
                      b \in {Empty, Nested(NoBody, "files"), Nested([id |-> 1], "clean"), Nested([id |-> 2], "clean"), Nested([id |-> 1], "dirty")}}

Flags == {{}, {"skip"}, {"valid"}, {"add"}, {"skip", "valid"}}

Differing ==
    {[Committed(<<Entry(File, m, Body("a"))>>) EXCEPT
        !.index.records[1].flags = f, !.work[File] = t,
        !.conf["local"] = Chooses("filemode", x) \o Chooses("symlinks", l)] :
     m \in {"644", "link"}, f \in Flags, t \in Things, x \in BOOLEAN, l \in BOOLEAN}
    \cup
    {[Committed(<<Entry(File, "sub", [id |-> 1])>>) EXCEPT !.work[File] = t, !.index.records[1].flags = f] :
     t \in GitThings, f \in Flags}

\* Unmerged, added, removed and sparse entries; unsafe names; rules that are
\* not files; untracked and ignored files.
Leaf      == Entry(Other, "644", Body("b"))
Sides     == {[Entry(File, "644", Body(t)) EXCEPT !.stage = k] : k \in 1..3, t \in {"a"}}
Staged(r) == [Committed(<<Entry(File, "644", Body("a")), Leaf>>) EXCEPT !.index.records = r]

Structured ==
    {Staged(InOrder(S)) :
        S \in SUBSET (Sides \cup {Entry(File, "644", Body("a")), Leaf, Entry(0, "644", Body("a"))})}
    \cup {[Staged(<<Entry(File, "644", Body("a")), [Entry(Other, "tree", [tree |-> <<Leaf>>]) EXCEPT !.flags = {"skip"}]>>)
              EXCEPT !.work[Other] = t, !.index.records[2].flags = f, !.index.records[2].stage = k] :
              t \in {Absent, Reg(Body("b")), Reg(Body("a"))}, f \in Flags, k \in {0, 2}}

Ruled ==
    {[Committed(<<Entry(AttrPath, "644", Body(t)), Entry(File, "644", Body("a"))>>) EXCEPT
        !.index.records[1].flags = f, !.work[AttrPath] = a, !.work[File].body.eol = e] :
     t \in {"none", "crlf", "filtered"}, f \in {{}, {"skip"}}, e \in {"lf", "crlf"},
     a \in {Absent, Reg(Body("none")), Reg(Body("crlf")), [mode |-> "link", body |-> Body("none")]}}
    \cup
    {[Committed(<<Entry(IgnorePath, "644", Body(t))>>) EXCEPT
        !.work[Other] = x, !.work[5] = y, !.exclude = z, !.work[IgnorePath] = i,
        !.index.records[1].flags = m] :
     t \in {"none", "ignoring"}, m \in {{}, {"skip"}}, x \in {Absent, Reg(Body("a"))}, y \in {Absent, Reg(Body("a"))},
     z \in {{}, {5}, {2, 5}},
     i \in {Absent, Reg(Body("none")), Reg(Body("ignoring")), [mode |-> "link", body |-> Body("none")]}}

-----------------------------------------------------------------------------
\* Configurations of a checkout that is clean only under core.autocrlf.
OnlyIfCrlf == [Committed(<<Entry(File, "644", Body("a"))>>) EXCEPT !.work[File].body.eol = "crlf"]

\* Every scope says yes, no, something else or nothing, or has no file.
Scopes == {<<>>, Chooses("autocrlf", TRUE), Chooses("autocrlf", FALSE)}

Extension == {<<>>, Chooses("worktreeconfig", TRUE), Chooses("worktreeconfig", FALSE)}

Scoped ==
    {[OnlyIfCrlf EXCEPT !.conf["worktree"] = w, !.conf["local"] = x \o l, !.conf["gitconfig"] = g,
                        !.conf["dotconfig"] = d, !.conf["system"] = s, !.env.system = n] :
        w \in Scopes, x \in Extension, l \in Scopes, g \in Scopes, d \in Scopes, s \in Scopes,
        n \in {Unset, "system"}}
    \cup
    {[OnlyIfCrlf EXCEPT !.conf["gitconfig"] = g, !.conf["dotconfig"] = d, !.conf["xdg"] = x,
                        !.env.home = h, !.env.xdg = e, !.env.global = o] :
        g \in Scopes, d \in Scopes, x \in Scopes \cup {Unset}, h \in BOOLEAN, e \in BOOLEAN,
        o \in {Unset, "xdg"}}

\* Every value, of a setting that matters and of one that does not.
Values ==
    {Word(w) : w \in {"yes", "bare", "no", "input", "bad"}}
    \cup {[word |-> "number", n |-> n, unit |-> u] : n \in -9..9, u \in 0..3}

Valued == {[OnlyIfCrlf EXCEPT !.conf["local"] = Chooses("autocrlf", TRUE) \o <<Sets(k, v)>>] :
              k \in DOMAIN Defaults, v \in Values}

Controls == {Unset, Word("yes"), Word("no"), Word("bad"), [word |-> "number", n |-> 4, unit |-> 1]}

Controlled ==
    {[OnlyIfCrlf EXCEPT !.env = [Env EXCEPT !.command = c, !.nosystem = n, !.attr_nosystem = a, !.system = f],
                        !.conf["system"] = s, !.conf["local"] = l] :
        c \in BOOLEAN, n \in Controls, a \in Controls, f \in {Unset, "system"},
        s \in {Unset, Chooses("autocrlf", TRUE)}, l \in {<<>>, Chooses("autocrlf", TRUE)}}

\* A file that includes a file that includes a file.
Conditions == {"holds", "fails", "unsupported"}

Including ==
    {[OnlyIfCrlf EXCEPT !.conf["local"] = a \o <<Includes("other", c)>> \o b,
                        !.conf["other"] = x \o <<Includes(f, d)>>, !.conf["more"] = y] :
        a \in Scopes, b \in Scopes, c \in Conditions, x \in Scopes, d \in Conditions,
        f \in {"more", "local"}, y \in Scopes \cup {Unset}}

\* An included file speaks of the extension, before or after the local one does.
Extended ==
    {[OnlyIfCrlf EXCEPT !.conf["local"] = a \o <<Includes("other", "holds")>> \o b,
                        !.conf["other"] = x, !.conf["worktree"] = w] :
        a \in Extension, b \in Extension, x \in Extension, w \in Scopes}

-----------------------------------------------------------------------------
\* Checkouts that are edited while they are observed: rules, a file that its
\* owner converts, changes and commits, and an untracked file.
Crlf(body) == [body EXCEPT !.eol = "crlf"]

EditedTree == <<Entry(AttrPath, "644", Body("e1")), Entry(IgnorePath, "644", Body("e1")),
                Entry(File, "644", Body("e2"))>>
NextTree   == [EditedTree EXCEPT ![3].oid = Body("b")]

Disturbed ==
    {[Committed(EditedTree) EXCEPT !.work[AttrPath] = a, !.work[File] = f,
                                   !.work[IgnorePath] = i, !.work[Other] = u] :
     a \in {Reg(Body("e1")), Reg(Body("crlf"))}, i \in {Reg(Body("e1")), Reg(Body("ignoring"))},
     f \in {Reg(Body("e2")), Reg(Crlf(Body("e2")))}, u \in {Absent, Reg(Body("e1"))}}

\* Rules that no identity covers: their file is untracked and ignored.
Unrecorded == {[OnlyIfCrlf EXCEPT !.work[AttrPath] = Reg(Body("crlf")), !.exclude = {AttrPath}]}

\* A file appears where a directory was and nobody looks any more, and is ignored
\* by a .gitignore that was compared already.
Directory == [mode |-> "dir", body |-> Empty]
Raced     == {[Committed(<<Entry(IgnorePath, "644", Body("a"))>>) EXCEPT !.work[Other] = Directory]}

\* Settings that are changed meanwhile, and a system file that goes away.
Reconfigured ==
    {[OnlyIfCrlf EXCEPT !.work[File].body.eol = e, !.conf["system"] = s, !.env.system = "system",
                        !.conf["local"] = Chooses("filemode", TRUE)] :
        e \in {"lf", "crlf"}, s \in {Chooses("autocrlf", TRUE), Chooses("autocrlf", FALSE)}}

MCSettles ==
    {<<"local", Chooses("filemode", TRUE), Chooses("filemode", FALSE)>>,
     <<"system", Chooses("autocrlf", FALSE), Chooses("autocrlf", TRUE)>>,
     <<"system", Chooses("autocrlf", TRUE), Unset>>}

MCEdits ==
    {<<AttrPath, Reg(Body("crlf")), Reg(Body("e1"))>>,
     <<IgnorePath, Reg(Body("ignoring")), Reg(Body("e1"))>>, <<IgnorePath, Reg(Body("a")), Reg(Body("ignoring"))>>,
     <<File, Reg(Crlf(Body("e2"))), Reg(Body("e2"))>>, <<File, Reg(Crlf(Body("a"))), Reg(Body("e1"))>>,
     <<File, Reg(Body("e2")), Reg(Body("b"))>>,
     <<Other, Reg(Body("e1")), Absent>>, <<Other, Directory, Reg(Body("a"))>>}

MCMoves    == {<<[id |-> 1, tree |-> EditedTree], [id |-> 2, tree |-> NextTree]>>}
MCStagings == {<<Plain(EditedTree), Plain(NextTree)>>}

MCKinds == {Decoded, Hydrated, Converted, Differing, Structured, Ruled, Scoped, Valued, Controlled,
            Including, Extended, Disturbed, Raced, Unrecorded,
            Reconfigured}
=============================================================================
