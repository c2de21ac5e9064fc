----------------------------- MODULE GitConfig ------------------------------
(* What scripts/emit-local-manifest.py makes of Git's configuration: which    *)
(* files contribute, what they include, which of their settings counts, and   *)
(* which values are booleans. On a POSIX host: where Git is installed cannot  *)
(* be established, so what depends on it is refused.                          *)
(*                                                                            *)
(* A value is [word, n, unit]: word is "yes" (true, yes, on), "bare" (no      *)
(* value), "no" (false, no, off, empty), "input", "bad" or "number"; a number *)
(* is n with 0 to 3 for no unit, k, m or g. A file is a sequence of items     *)
(* [key, value, file, cond]; the key "include" names a file, under a          *)
(* condition that "holds", "fails" or is "unsupported".                       *)
EXTENDS Integers, SequencesExt

CONSTANTS
    MaxInteger,   \* 2^31 - 1
    Kilo,         \* 1024
    MaxIncludes,  \* nested includes, 10
    ConfigFiles,  \* the names of the files there may be
    Unset         \* a variable that is not set, a file that is not there

ASSUME ConfigAssumption ==
    /\ MaxInteger \in Nat /\ Kilo \in Nat \ {0} /\ MaxIncludes \in Nat
    /\ {"worktree", "local", "gitconfig", "dotconfig", "xdg"} \subseteq ConfigFiles \ {Unset}

(* What values, files and the environment are.                                *)

IsValue(v) == v.n \in Int /\ v.word \in {"yes", "bare", "no", "input", "bad", "number"}

IsItem(i) ==
    IF i.key = "include" THEN i.file \in ConfigFiles
    ELSE IsValue(i.value) /\ i.cond # "unsupported" /\ i.key # "refused"

IsConfigFile(items) ==
    items = Unset \/ (items \in Seq(ToSet(items)) /\ \A i \in ToSet(items) : IsItem(i))

IsEnvironment(env) ==
    /\ env.command \in BOOLEAN /\ env.home \in BOOLEAN /\ env.xdg \in BOOLEAN
    /\ \A v \in {env.nosystem, env.attr_nosystem} : v # Unset => IsValue(v)
    /\ {env.system, env.global} \subseteq ConfigFiles \cup {Unset}

Unit(u) == CASE u = 0 -> 1 [] u = 1 -> Kilo [] u = 2 -> Kilo * Kilo [] OTHER -> Kilo * Kilo * Kilo

Number(v) == v.n * Unit(v.unit)

IsBoolean(v) ==
    v.word \in {"yes", "bare", "no"} \/ (v.word = "number" /\ Number(v) \in -MaxInteger..MaxInteger)

git_boolean(v) == v.word \in {"yes", "bare"} \/ (v.word = "number" /\ Number(v) # 0)

IsAutocrlf(v) == v.word = "input" \/ IsBoolean(v)

autocrlf(v) == v.word = "input" \/ git_boolean(v)

-----------------------------------------------------------------------------
(* _system_context: the file of the system, Unset for none.                   *)

Explicitly(v, default) == IF v = Unset THEN default ELSE git_boolean(v)

ConfigDisabled(env) == Explicitly(env.nosystem, env.system = Unset)

SystemIsResolved(env, conf) ==
    /\ \A v \in {env.nosystem, env.attr_nosystem} : v # Unset => IsBoolean(v)
    /\ Explicitly(env.attr_nosystem, TRUE)
    /\ ConfigDisabled(env) \/ (env.system # Unset /\ conf[env.system] # Unset)

system_context(env) == IF ConfigDisabled(env) THEN Unset ELSE env.system

-----------------------------------------------------------------------------
(* _strict_config: the items of a file and of what it includes, in order.     *)

Refused == [key |-> "refused"]

\* Of files within n more includes, those in active being read already.
strict_config(conf) ==
    LET read[n \in 0..MaxIncludes] ==
          [f \in ConfigFiles |-> [active \in SUBSET ConfigFiles |->
              IF conf[f] = Unset THEN <<>> ELSE
              FlattenSeq([k \in DOMAIN conf[f] |->
                  LET item == conf[f][k] IN
                  IF item.key # "include" THEN <<item>>
                  ELSE IF item.cond = "unsupported" THEN <<Refused>>
                  ELSE IF item.cond = "fails" THEN <<>>
                  ELSE IF item.file \in active \/ n = 0 THEN <<Refused>>
                  ELSE read[n - 1][item.file][active \cup {item.file}]])]]
    IN  read[MaxIncludes]

Items(conf, f) == strict_config(conf)[f][{f}]

Setting(items, key) == {k \in DOMAIN items : items[k].key = key}

\* Default is what counts where no file says anything.
Latest(items, key, default) ==
    IF Setting(items, key) = {} THEN default ELSE items[Max(Setting(items, key))].value

-----------------------------------------------------------------------------
(* _config_stack: the files, those that count first.                          *)

Word(w) == [word |-> w, n |-> 0, unit |-> 0]

WorktreeConfig(conf) == Latest(Items(conf, "local"), "worktreeconfig", Word("no"))

\* The five places of the stack; one that has no file is Unset.
Stack(env, system, conf) ==
    <<IF git_boolean(WorktreeConfig(conf)) THEN "worktree" ELSE Unset,
      "local",
      IF env.global # Unset THEN env.global ELSE IF env.home THEN "gitconfig" ELSE Unset,
      IF env.global # Unset THEN Unset
      ELSE IF env.xdg THEN "xdg" ELSE IF env.home THEN "dotconfig" ELSE Unset,
      system>>

\* No command-scope configuration, GIT_CONFIG_GLOBAL is there, and every file
\* that contributes could be read with its includes.
StackIsRead(env, system, conf) ==
    /\ ~env.command
    /\ env.global # Unset => conf[env.global] # Unset
    /\ IsBoolean(WorktreeConfig(conf))
    /\ \A k \in 1..5 : LET f == Stack(env, system, conf)[k] IN
                        f # Unset => ~Contains(Items(conf, f), Refused)

Says(conf, f, key) == f # Unset /\ Setting(Items(conf, f), key) # {}

Get(env, system, conf, key, default) ==
    LET stack  == Stack(env, system, conf)
        saying == {k \in 1..5 : Says(conf, stack[k], key)}
    IN  IF saying = {} THEN default ELSE Latest(Items(conf, stack[Min(saying)]), key, default)

Defaults == [bare |-> Word("no"), ignorecase |-> Word("no"), filemode |-> Word("yes"),
             symlinks |-> Word("yes"), autocrlf |-> Word("no")]

Settings(env, system, conf) == [k \in DOMAIN Defaults |-> Get(env, system, conf, k, Defaults[k])]

\* _worktree_root refuses a bare repository; RepositoryRules validates the rest.
AreValid(s) ==
    /\ \A k \in DOMAIN s \ {"autocrlf"} : IsBoolean(s[k])
    /\ IsAutocrlf(s.autocrlf) /\ ~git_boolean(s.bare)

-----------------------------------------------------------------------------
(* What Git makes of the same files: each scope has its say after the wider   *)
(* ones and overrides them; a number is compared with the limit divided by    *)
(* its unit. Which file is the system's is said by                            *)
(* scripts/checkout-identity-v2.md.                                           *)

GitAccepts(v) ==
    v.word = "number" => LET limit == MaxInteger \div Unit(v.unit) IN -limit <= v.n /\ v.n <= limit

GitTrue(v) == v.word \in {"yes", "bare"} \/ (v.word = "number" /\ v.n # 0)

GitSystem(env) == IF env.nosystem # Unset /\ GitTrue(env.nosystem) THEN Unset ELSE env.system

GitWide(env) ==
    IF env.global # Unset THEN env.global
    ELSE IF env.xdg THEN "xdg" ELSE IF env.home THEN "dotconfig" ELSE Unset

GitUser(env) == IF env.global = Unset /\ env.home THEN "gitconfig" ELSE Unset

\* What a file makes of the value that the wider scopes have given.
Overrides(conf, f, key, wider) == IF f = Unset THEN wider ELSE Latest(Items(conf, f), key, wider)

\* The file of the worktree counts under an extension of the repository, which
\* Git itself looks for in that file alone, and not in what it includes. The
\* code looks in both (WorktreeConfig).
Own(conf) == IF conf["local"] = Unset THEN <<>> ELSE conf["local"]

GitExtends(conf) == GitTrue(Latest(Own(conf), "worktreeconfig", Word("no")))

\* No other file says anything of the extension, so that the two agree.
OwnExtension(conf) ==
    \A f \in ConfigFiles \ {"local"} :
        conf[f] # Unset => Setting(conf[f], "worktreeconfig") = {}

GitValue(env, conf, key) ==
    LET system == Overrides(conf, GitSystem(env), key, Defaults[key])
        user   == Overrides(conf, GitUser(env), key, Overrides(conf, GitWide(env), key, system))
        local  == Overrides(conf, "local", key, user)
    IN  IF GitExtends(conf) THEN Overrides(conf, "worktree", key, local) ELSE local

\* Data that contributes and is unknown, malformed or unsupported makes nothing
\* clean; nor does a source of the system that is asked for and not known.
GitUnderstands(env, conf) ==
    /\ ~env.command
    /\ \A v \in {env.nosystem, env.attr_nosystem} : v # Unset => v.word # "bad" /\ GitAccepts(v)
    /\ env.attr_nosystem # Unset => GitTrue(env.attr_nosystem)
    /\ IF GitSystem(env) # Unset THEN conf[GitSystem(env)] # Unset
       ELSE env.nosystem # Unset => GitTrue(env.nosystem)
    /\ \A f \in {GitSystem(env), GitWide(env), GitUser(env), "local"} \ {Unset} :
           conf[f] # Unset => \A k \in DOMAIN conf[f] : conf[f][k].cond # "unsupported"
    /\ \A key \in DOMAIN Defaults :
           LET v == GitValue(env, conf, key) IN
           v.word \notin (IF key = "autocrlf" THEN {"bad"} ELSE {"bad", "input"}) /\ GitAccepts(v)
=============================================================================
