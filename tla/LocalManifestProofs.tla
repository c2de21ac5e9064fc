------------------------ MODULE LocalManifestProofs -------------------------
(* What a published local image set says of the checkout and of its files,    *)
(* and that it appears atomically, for any number of emissions, parts of the  *)
(* checkout and artifacts, and any interleaving with whoever edits them.      *)
EXTENDS LocalManifest, TLAPS

\* v is the content w or one that w may have replaced.
Older(v, w)   == v = w \/ <<v, w>> \in Edits
Fresher(b, c) == b = c \/ <<b, c>> \in Mutations

LEMMA OlderIsAnOrder ==
    /\ \A u, v, w : Older(u, v) /\ Older(v, w) => Older(u, w)
    /\ \A v, w : Older(v, w) /\ Older(w, v) => v = w
BY NoReversal DEF Acyclic, Older

\* What lies between two contents that are the same, or the same up to
\* conversions, is the same too.
LEMMA BetweenIsTheSame ==
    \A u, v, w : Older(u, v) /\ Older(v, w) =>
        /\ u = w => v = u
        /\ Canon[u] = Canon[w] => Canon[v] = Canon[u]
BY NoReversal DEF Acyclic, ComesToAnEnd, Older

LEMMA FresherIsAnOrder ==
    /\ \A u, v, w : Fresher(u, v) /\ Fresher(v, w) => Fresher(u, w)
    /\ \A v, w : Fresher(v, w) /\ Fresher(w, v) => v = w
BY NoReversal DEF Acyclic, Fresher

-----------------------------------------------------------------------------
(* Types.                                                                     *)

LEMMA InitTypeOK == Init => TypeOK
BY LocalAssumption DEF Init, TypeOK, Running, Free, HasIdentity

LEMMA OthersTypeOK == TypeOK /\ Others => TypeOK'
<1> SUFFICES ASSUME TypeOK, Others PROVE TypeOK'
  OBVIOUS
<1>1. ASSUME NEW p \in Parts, NEW v \in Values, EditCheckout(p, v) PROVE TypeOK'
  BY <1>1 DEF EditCheckout, TypeOK, readVars, setVars, raceVars
<1>2. ASSUME NEW e \in Emitters, NEW r \in Roles, NEW b \in Bytes, ChangeStaged(e, r, b)
      PROVE TypeOK'
  BY <1>2 DEF ChangeStaged, TypeOK, fileVars, readVars, raceVars
<1>3. CASE UseOut
  BY <1>3 DEF UseOut, TypeOK, Free, readVars, setVars, raceVars
<1>4. ASSUME NEW e \in Emitters, Crash(e) PROVE TypeOK'
  BY <1>4 DEF Crash, TypeOK, HasIdentity, Ended, fileVars, readVars, setVars, raceVars
<1>5. QED
  BY <1>1, <1>2, <1>3, <1>4 DEF Others

LEMMA AbandonTypeOK ==
    ASSUME TypeOK, NEW e \in Emitters, Abandon(e), lost' \in {lost, lost \cup {e}}
    PROVE  TypeOK'
BY DEF Abandon, TypeOK, HasIdentity, Ended, fileVars, readVars

LEMMA EmitTypeOK == ASSUME TypeOK, NEW e \in Emitters, Emit(e) PROVE TypeOK'
<1>1. CASE ReadAbi(e)
  BY <1>1, LocalAssumption DEF ReadAbi, Goes, TypeOK, HasIdentity, Running, fileVars, setVars, raceVars
<1>2. CASE AcceptOut(e) \/ Inspected(e) \/ ProbeOut(e)
  BY <1>2 DEF AcceptOut, Inspected, ProbeOut, Goes, TypeOK, HasIdentity, Running,
              fileVars, readVars, setVars, raceVars
<1>3. ASSUME NEW p \in Parts, ObserveBefore(e, p) PROVE TypeOK'
  <2>1. /\ before' \in [Emitters -> [Parts -> Values \cup {None}]]
        /\ \A f \in Emitters \ {e} : before'[f] = before[f]
    BY <1>3 DEF ObserveBefore, TypeOK
  <2>2. /\ pc' \in [Emitters -> Running \cup Ended]
        /\ \A f \in Emitters \ {e} : pc'[f] = pc[f]
        /\ pc'[e] = "before" \/ (pc'[e] = "contract" /\ Complete(before'[e]))
    BY <1>3 DEF ObserveBefore, TypeOK, Running
  <2>3. instant' \in [Emitters -> [Parts -> Values \cup {None}]]
    <3>1. checkout \in [Parts -> Values \cup {None}]
      BY DEF TypeOK
    <3>2. QED
      BY <1>3, <3>1 DEF ObserveBefore, TypeOK
  <2>4. ASSUME NEW f \in Emitters, pc'[f] \in HasIdentity
        PROVE  before'[f] \in [Parts -> Values]
    <3>1. CASE f = e
      <4>1. Complete(before'[e]) /\ before'[e] \in [Parts -> Values \cup {None}]
        BY <2>1, <2>2, <2>4, <3>1 DEF HasIdentity
      <4>2. QED
        BY <3>1, <4>1 DEF Complete
    <3>2. CASE f # e
      BY <2>1, <2>2, <2>4, <3>2 DEF TypeOK
    <3>3. QED
      BY <3>1, <3>2
  <2>5. QED
    BY <1>3, <2>1, <2>2, <2>3, <2>4
       DEF ObserveBefore, TypeOK, fileVars, setVars, raceVars
<1>4. ASSUME NEW p \in Parts, ObserveAfter(e, p) PROVE TypeOK'
  BY <1>4 DEF ObserveAfter, TypeOK, HasIdentity, Running, fileVars, setVars, raceVars
<1>5. CASE ReadContract(e) \/ HashLocks(e)
  BY <1>5, LocalAssumption DEF ReadContract, HashLocks, Goes, TypeOK, HasIdentity, Running,
              fileVars, setVars, raceVars
<1>6. CASE MakeStaging(e) \/ Agree(e)
  <2>1. todo' \in [Emitters -> SUBSET Roles]
    BY <1>6 DEF MakeStaging, Agree, TypeOK
  <2>2. QED
    BY <1>6, <2>1 DEF MakeStaging, Agree, Goes, TypeOK, HasIdentity, Running,
                      fileVars, readVars, raceVars
<1>12. CASE WriteManifest(e)
  BY <1>12 DEF WriteManifest, Goes, TypeOK, HasIdentity, Running, fileVars, readVars, raceVars
<1>7. ASSUME NEW r \in Roles, NEW b \in Bytes, CopyAndHash(e, r, b) PROVE TypeOK'
  <2>1. todo' \in [Emitters -> SUBSET Roles]
    <3>1. todo[e] \ {r} \in SUBSET Roles /\ Roots \in SUBSET Roles
      BY LocalAssumption DEF TypeOK
    <3>2. \E T \in SUBSET Roles : todo' = [todo EXCEPT ![e] = T]
      BY <1>7, <3>1 DEF CopyAndHash
    <3>3. QED
      BY <3>2 DEF TypeOK
  <2>2. /\ staged' \in [Emitters -> [Roles -> Bytes \cup {None}]]
        /\ digest' \in [Emitters -> [Roles -> Bytes \cup {None}]]
    BY <1>7 DEF CopyAndHash, TypeOK
  <2>3. /\ pc' \in [Emitters -> Running \cup Ended]
        /\ \A f \in Emitters : pc'[f] \in HasIdentity => pc[f] \in HasIdentity
    BY <1>7 DEF CopyAndHash, TypeOK, Running, HasIdentity
  <2>4. QED
    BY <1>7, <2>1, <2>2, <2>3 DEF CopyAndHash, TypeOK, fileVars, readVars, raceVars
<1>8. ASSUME NEW r \in Roles, Inspect(e, r) \/ Recheck(e, r) PROVE TypeOK'
  <2>1. todo' \in [Emitters -> SUBSET Roles]
    <3>1. todo[e] \ {r} \in SUBSET Roles
      BY DEF TypeOK
    <3>2. \E T \in SUBSET Roles : todo' = [todo EXCEPT ![e] = T]
      BY <1>8, <3>1 DEF Inspect, Recheck
    <3>3. QED
      BY <3>2 DEF TypeOK
  <2>2. /\ pc' \in [Emitters -> Running \cup Ended]
        /\ \A f \in Emitters : pc'[f] \in HasIdentity => pc[f] \in HasIdentity
    BY <1>8 DEF Inspect, Recheck, TypeOK, Running, HasIdentity
  <2>3. QED
    BY <1>8, <2>1, <2>2 DEF Inspect, Recheck, TypeOK, fileVars, readVars, raceVars
<1>9. CASE RemoveEmpty(e) \/ Rename(e)
  BY <1>9 DEF RemoveEmpty, Rename, Goes, TypeOK, HasIdentity, Running, Ended, Free, fileVars,
              readVars, setVars, raceVars
<1>10. CASE Refuse(e) \/ LosesOut(e)
  BY <1>10, AbandonTypeOK DEF Refuse, LosesOut
<1>11. QED
  BY <1>1, <1>2, <1>3, <1>4, <1>5, <1>6, <1>7, <1>8, <1>9, <1>10,
   <1>12 DEF Emit, RefuseOut, RefuseContract, RefuseRoot, RefuseChanged, RefuseStaged,
         LoseRmdir, LoseRename, Fail

\* Every variable of an emission keeps its type, and an emission that is past
\* the first observation holds a complete identity.
THEOREM TypeCorrect == Spec => []TypeOK
<1>1. TypeOK /\ UNCHANGED vars => TypeOK'
  BY DEF TypeOK, vars
<1>2. TypeOK /\ [Next]_vars => TypeOK'
  BY <1>1, OthersTypeOK, EmitTypeOK DEF Next
<1>3. QED
  BY <1>2, InitTypeOK, PTL DEF Spec

-----------------------------------------------------------------------------
(* The double collect. Everything an emission reads is ordered by age: what   *)
(* the first observation saw, the checkout when that observation was          *)
(* complete, the inputs read next, what the second observation saw, and the   *)
(* checkout now. When the two observations agree, all of them are the same.   *)

HasContract == HasIdentity \ {"contract"}
HasLock     == HasContract \ {"locks"}
HasAfter    == {"compare", "verify", "write", "probe", "rmdir", "rename", "done"}
Agreed      == HasAfter \ {"compare"}
First       == Running \ (HasAfter \cup {"after"})

\* What has been recorded at e, each reading older than the next.
FirstCollect(e) ==
    /\ \A p \in Parts : before[e][p] # None => Older(before[e][p], checkout[p])
    /\ pc[e] \in HasIdentity =>
         \A p \in Parts : /\ Older(before[e][p], instant[e][p])
                          /\ Older(instant[e][p], checkout[p])
    /\ pc[e] \in HasContract =>
         /\ contract[e] \in Supported
         /\ Older(instant[e][ContractFile], contract[e])
         /\ Older(contract[e], checkout[ContractFile])
    /\ pc[e] \in HasLock =>
         /\ Older(instant[e][LockFile], lock[e])
         /\ Older(lock[e], checkout[LockFile])

\* A part the second observation has read.
ReadAgain(e, p) ==
    /\ Older(instant[e][p], after[e][p]) /\ Older(after[e][p], checkout[p])
    /\ p = ContractFile => Older(contract[e], after[e][p])
    /\ p = LockFile => Older(lock[e], after[e][p])

SecondCollect(e) ==
    /\ pc[e] \in First => \A p \in Parts : after[e][p] = None
    /\ pc[e] \in HasAfter \cup {"after"} =>
         \A p \in Parts : after[e][p] # None => ReadAgain(e, p)
    /\ pc[e] \in HasAfter => Complete(after[e])
    /\ pc[e] \in Agreed => SameIdentity(e)

Collects(e) == FirstCollect(e) /\ SecondCollect(e)

\* A step of the emission, or of somebody else, that reads no part of the checkout.
LEMMA NoReadingKeepsCollects ==
    ASSUME NEW e \in Emitters, TypeOK, Collects(e),
           checkout' = checkout, before'[e] = before[e], after'[e] = after[e],
           contract'[e] = contract[e], lock'[e] = lock[e], instant'[e] = instant[e],
           pc'[e] \in HasIdentity => pc[e] \in HasIdentity,
           pc'[e] \in HasContract => pc[e] \in HasContract,
           pc'[e] \in HasLock => pc[e] \in HasLock,
           pc'[e] \in HasAfter => pc[e] \in HasAfter,
           pc'[e] \in Agreed => pc[e] \in Agreed \/ SameIdentity(e),
           pc'[e] \in First => pc[e] \in First,
           pc'[e] = "after" => pc[e] \in First \cup {"after"}
    PROVE  Collects(e)'
<1>1. FirstCollect(e)'
  BY DEF Collects, FirstCollect, Older
<1>2. \A p \in Parts : ReadAgain(e, p)' = ReadAgain(e, p)
  BY DEF ReadAgain, Older
<1>3. SameIdentity(e)' = SameIdentity(e)
  BY DEF SameIdentity
<1>4. SecondCollect(e)'
  BY <1>2, <1>3 DEF Collects, SecondCollect, Complete
<1>5. QED
  BY <1>1, <1>4 DEF Collects

\* An edit makes the checkout fresher and nothing that was read older.
LEMMA EditKeepsCollects ==
    ASSUME NEW e \in Emitters, TypeOK, Collects(e),
           NEW p \in Parts, NEW v \in Values, EditCheckout(p, v)
    PROVE  Collects(e)'
<1>1. /\ before' = before /\ after' = after /\ contract' = contract /\ lock' = lock
      /\ instant' = instant /\ pc' = pc
  BY DEF EditCheckout, readVars
<1>2. \A q \in Parts : Older(checkout[q], checkout'[q])
  BY DEF EditCheckout, TypeOK, Older
<1>3. \A q \in Parts : \A u : Older(u, checkout[q]) => Older(u, checkout'[q])
  BY <1>2, OlderIsAnOrder
<1>4. \A u, w : Older(u, w)' = Older(u, w)
  BY DEF Older
<1>5. FirstCollect(e)'
  BY <1>1, <1>3, <1>4, LocalAssumption DEF Collects, FirstCollect
<1>6. \A q \in Parts : ReadAgain(e, q) => ReadAgain(e, q)'
  BY <1>1, <1>3, <1>4 DEF ReadAgain
<1>7. SameIdentity(e)' = SameIdentity(e)
  BY <1>1 DEF SameIdentity
<1>8. SecondCollect(e)'
  BY <1>1, <1>6, <1>7 DEF Collects, SecondCollect, Complete
<1>9. QED
  BY <1>5, <1>8 DEF Collects

LEMMA ObserveBeforeKeepsCollects ==
    ASSUME NEW e \in Emitters, TypeOK, Collects(e), NEW p \in Parts, ObserveBefore(e, p)
    PROVE  Collects(e)'
<1>1. /\ checkout' = checkout /\ after' = after /\ pc[e] = "before"
      /\ pc'[e] \in {"before", "contract"}
      /\ pc'[e] = "contract" => instant'[e] = checkout /\ Complete(before'[e])
      /\ \A q \in Parts : before'[e][q] = IF q = p THEN checkout[p] ELSE before[e][q]
  BY DEF ObserveBefore, fileVars, TypeOK
<1>2. \A q \in Parts : before'[e][q] # None => Older(before'[e][q], checkout[q])
  BY <1>1 DEF Collects, FirstCollect, Older
<1>3. FirstCollect(e)'
  BY <1>1, <1>2 DEF FirstCollect, Older, HasIdentity, HasContract, HasLock, Complete
<1>4. SecondCollect(e)'
  BY <1>1 DEF Collects, SecondCollect, First, HasAfter, Agreed, Running
<1>5. QED
  BY <1>3, <1>4 DEF Collects

LEMMA ObserveAfterKeepsCollects ==
    ASSUME NEW e \in Emitters, TypeOK, Collects(e), NEW p \in Parts, ObserveAfter(e, p)
    PROVE  Collects(e)'
<1>1. /\ checkout' = checkout /\ before' = before /\ contract' = contract /\ lock' = lock
      /\ instant' = instant /\ pc[e] = "after" /\ pc'[e] \in {"after", "compare"}
      /\ pc'[e] = "compare" => Complete(after'[e])
      /\ \A q \in Parts : after'[e][q] = IF q = p THEN checkout[p] ELSE after[e][q]
  BY DEF ObserveAfter, fileVars, TypeOK
<1>2. "after" \in HasIdentity /\ "after" \in HasContract /\ "after" \in HasLock
  BY DEF HasIdentity, HasContract, HasLock
<1>3. FirstCollect(e)'
  BY <1>1, <1>2 DEF Collects, FirstCollect, Older
<1>4. \A q \in Parts : after'[e][q] # None => ReadAgain(e, q)'
  BY <1>1, <1>2 DEF Collects, FirstCollect, SecondCollect, ReadAgain, Older
<1>5. SecondCollect(e)'
  BY <1>1, <1>4 DEF SecondCollect, First, HasAfter, Agreed, Complete
<1>6. QED
  BY <1>3, <1>5 DEF Collects

LEMMA ReadInputKeepsCollects ==
    ASSUME NEW e \in Emitters, TypeOK, Collects(e), ReadContract(e) \/ HashLocks(e)
    PROVE  Collects(e)'
<1>1. /\ checkout' = checkout /\ before' = before /\ after' = after /\ instant' = instant
      /\ pc[e] \in {"contract", "locks"} /\ pc'[e] \in {"locks", "mkdtemp"}
  BY DEF ReadContract, HashLocks, Goes, fileVars, TypeOK
<1>2. pc[e] \in HasIdentity /\ pc'[e] \in First
  BY <1>1 DEF HasIdentity, First, Running, HasAfter
<1>3. CASE ReadContract(e)
  <2>1. /\ pc[e] = "contract" /\ pc'[e] = "locks" /\ lock' = lock
        /\ contract'[e] = checkout[ContractFile] /\ checkout[ContractFile] \in Supported
    BY <1>3 DEF ReadContract, Goes, TypeOK
  <2>2. FirstCollect(e)'
    BY <1>1, <1>2, <2>1, LocalAssumption
       DEF Collects, FirstCollect, Older, HasLock, HasContract
  <2>3. QED
    BY <1>1, <1>2, <2>1, <2>2
       DEF Collects, SecondCollect, First, HasAfter, Agreed, Running
<1>4. CASE HashLocks(e)
  <2>1. /\ pc[e] = "locks" /\ pc'[e] = "mkdtemp" /\ contract' = contract
        /\ lock'[e] = checkout[LockFile]
    BY <1>4 DEF HashLocks, Goes, TypeOK
  <2>2. pc[e] \in HasContract
    BY <2>1 DEF HasContract, HasIdentity
  <2>3. FirstCollect(e)'
    BY <1>1, <1>2, <2>1, <2>2, LocalAssumption DEF Collects, FirstCollect, Older
  <2>4. QED
    BY <1>1, <1>2, <2>1, <2>3
       DEF Collects, SecondCollect, First, HasAfter, Agreed, Running
<1>5. QED
  BY <1>3, <1>4

\* What a step of one emission leaves alone of another.
LEMMA EmitLeavesOthers ==
    ASSUME TypeOK, NEW e \in Emitters, NEW f \in Emitters, f # e, Emit(e)
    PROVE  /\ checkout' = checkout /\ pc'[f] = pc[f]
           /\ before'[f] = before[f] /\ after'[f] = after[f] /\ contract'[f] = contract[f]
           /\ lock'[f] = lock[f] /\ instant'[f] = instant[f]
BY DEF Emit, ReadAbi, AcceptOut, RefuseOut, ObserveBefore, ObserveAfter, ReadContract,
       RefuseContract, HashLocks, MakeStaging, CopyAndHash, Inspect, RefuseRoot, Recheck,
       RefuseStaged, Inspected, Agree, RefuseChanged, WriteManifest, ProbeOut, RemoveEmpty,
       LoseRmdir, Rename, LoseRename, Fail, Refuse, LosesOut, Abandon, Goes,
       fileVars, readVars, TypeOK

\* The steps of an emission that read nothing of the checkout.
LEMMA LocalStepKeepsCollects ==
    ASSUME NEW e \in Emitters, TypeOK, Collects(e), Emit(e),
           ~ReadContract(e), ~HashLocks(e),
           \A p \in Parts : ~ObserveBefore(e, p) /\ ~ObserveAfter(e, p)
    PROVE  Collects(e)'
<1> USE DEF HasIdentity, HasContract, HasLock, HasAfter, Agreed, First, Running
<1>1. CASE \/ ReadAbi(e) \/ AcceptOut(e) \/ MakeStaging(e) \/ Inspected(e)
           \/ WriteManifest(e) \/ ProbeOut(e) \/ RemoveEmpty(e) \/ Rename(e)
  <2>1. /\ checkout' = checkout /\ before' = before /\ after' = after
        /\ contract' = contract /\ lock' = lock /\ instant' = instant
    BY <1>1 DEF ReadAbi, AcceptOut, MakeStaging, Inspected, WriteManifest, ProbeOut,
                RemoveEmpty, Rename, fileVars, readVars
  <2>2. <<pc[e], pc'[e]>> \in
           {<<"abi", "outdir">>, <<"outdir", "before">>, <<"mkdtemp", "copy">>,
            <<"inspect", "after">>, <<"write", "probe">>, <<"probe", "rename">>,
            <<"probe", "rmdir">>, <<"rmdir", "rename">>, <<"rename", "done">>}
    BY <1>1 DEF ReadAbi, AcceptOut, MakeStaging, Inspected, WriteManifest, ProbeOut,
                RemoveEmpty, Rename, Goes, TypeOK
  <2>3. QED
    BY <2>1, <2>2, NoReadingKeepsCollects
<1>2. CASE Agree(e)
  <2>1. /\ checkout' = checkout /\ before' = before /\ after' = after
        /\ contract' = contract /\ lock' = lock /\ instant' = instant
        /\ pc[e] = "compare" /\ pc'[e] = "verify" /\ SameIdentity(e)
    BY <1>2 DEF Agree, Goes, fileVars, readVars, TypeOK
  <2>2. QED
    BY <2>1, NoReadingKeepsCollects
<1>3. ASSUME NEW r \in Roles, NEW b \in Bytes, CopyAndHash(e, r, b) PROVE Collects(e)'
  <2>1. /\ checkout' = checkout /\ before' = before /\ after' = after
        /\ contract' = contract /\ lock' = lock /\ instant' = instant
        /\ pc[e] = "copy" /\ pc'[e] \in {"copy", "inspect"}
    BY <1>3 DEF CopyAndHash, fileVars, readVars, TypeOK
  <2>2. QED
    BY <2>1, NoReadingKeepsCollects
<1>4. ASSUME NEW r \in Roles, Inspect(e, r) \/ Recheck(e, r) PROVE Collects(e)'
  <2>1. /\ checkout' = checkout /\ before' = before /\ after' = after
        /\ contract' = contract /\ lock' = lock /\ instant' = instant
        /\ <<pc[e], pc'[e]>> \in {<<"inspect", "inspect">>, <<"verify", "verify">>,
                                  <<"verify", "write">>}
    BY <1>4 DEF Inspect, Recheck, fileVars, readVars, TypeOK
  <2>2. QED
    BY <2>1, NoReadingKeepsCollects
<1>5. CASE Abandon(e)
  <2>1. /\ checkout' = checkout /\ before' = before /\ after' = after
        /\ contract' = contract /\ lock' = lock /\ instant' = instant
        /\ pc'[e] = "refused"
    BY <1>5 DEF Abandon, fileVars, readVars, TypeOK
  <2>2. QED
    BY <2>1, NoReadingKeepsCollects
<1>6. QED
  BY <1>1, <1>2, <1>3, <1>4, <1>5
     DEF Emit, RefuseOut, RefuseContract, RefuseRoot, RefuseChanged, RefuseStaged,
         LoseRmdir, LoseRename, Fail, Refuse, LosesOut

LEMMA NextKeepsCollects ==
    ASSUME NEW e \in Emitters, TypeOK, Collects(e), [Next]_vars
    PROVE  Collects(e)'
<1>1. ASSUME NEW p \in Parts, NEW v \in Values, EditCheckout(p, v) PROVE Collects(e)'
  BY <1>1, EditKeepsCollects
<1>2. CASE \/ \E f \in Emitters, r \in Roles, b \in Bytes : ChangeStaged(f, r, b)
           \/ UseOut \/ UNCHANGED vars
  <2>1. /\ checkout' = checkout /\ before' = before /\ after' = after
        /\ contract' = contract /\ lock' = lock /\ instant' = instant /\ pc' = pc
    BY <1>2 DEF ChangeStaged, UseOut, fileVars, readVars, vars
  <2>2. QED
    BY <2>1, NoReadingKeepsCollects
<1>3. ASSUME NEW f \in Emitters, Crash(f) PROVE Collects(e)'
  <2>1. /\ checkout' = checkout /\ before' = before /\ after' = after
        /\ contract' = contract /\ lock' = lock /\ instant' = instant
        /\ pc'[e] \in {pc[e], "crashed"}
    BY <1>3 DEF Crash, fileVars, readVars, TypeOK
  <2>2. QED
    BY <2>1, NoReadingKeepsCollects
       DEF HasIdentity, HasContract, HasLock, HasAfter, Agreed, First, Running
<1>4. ASSUME NEW f \in Emitters, Emit(f) PROVE Collects(e)'
  <2>1. CASE f # e
    BY <1>4, <2>1, EmitLeavesOthers, NoReadingKeepsCollects
  <2>2. CASE f = e
    <3>1. ASSUME NEW p \in Parts, ObserveBefore(e, p) PROVE Collects(e)'
      BY <3>1, ObserveBeforeKeepsCollects
    <3>2. ASSUME NEW p \in Parts, ObserveAfter(e, p) PROVE Collects(e)'
      BY <3>2, ObserveAfterKeepsCollects
    <3>3. CASE ReadContract(e) \/ HashLocks(e)
      BY <3>3, ReadInputKeepsCollects
    <3>4. QED
      BY <1>4, <2>2, <3>1, <3>2, <3>3, LocalStepKeepsCollects
  <2>3. QED
    BY <2>1, <2>2
<1>5. QED
  BY <1>1, <1>2, <1>3, <1>4 DEF Next, Others

\* At every instant the readings of every emission are ordered by age.
THEOREM ReadingsAreOrdered == Spec => [](\A e \in Emitters : Collects(e))
<1>1. Init => \A e \in Emitters : Collects(e)
  <2> SUFFICES ASSUME Init, NEW e \in Emitters PROVE Collects(e)
    OBVIOUS
  <2>1. /\ pc[e] = "abi"
        /\ \A p \in Parts : before[e][p] = None /\ after[e][p] = None
    BY DEF Init
  <2>2. QED
    BY <2>1 DEF Collects, FirstCollect, SecondCollect, HasIdentity, HasContract, HasLock,
                HasAfter, Agreed
<1>2. /\ TypeOK /\ (\A e \in Emitters : Collects(e)) /\ [Next]_vars
      => (\A e \in Emitters : Collects(e))'
  BY NextKeepsCollects
<1>3. QED
  BY <1>1, <1>2, TypeCorrect, PTL DEF Spec

\* What two observations with the same identity have in common.
LEMMA SameIdentityMeans ==
    ASSUME NEW e \in Emitters, before[e] \in [Parts -> Values],
           after[e] \in [Parts -> Values], SameIdentity(e)
    PROVE  /\ after[e][Head] = before[e][Head]
           /\ before[e] \in CleanStates =>
                 \A p \in Covered : Canon[after[e][p]] = Canon[before[e][p]]
           /\ before[e] \notin CleanStates =>
                 \A p \in Named[before[e]] : after[e][p] = before[e][p]
<1> DEFINE Of(seen) == IF seen \in CleanStates THEN {} ELSE Named[seen]
           Fingerprint(seen) == [p \in Of(seen) |-> seen[p]]
<1>1. Identity(after[e]) = Identity(before[e])
  BY DEF SameIdentity
<1>2. /\ after[e][Head] = before[e][Head]
      /\ Fingerprint(after[e]) = Fingerprint(before[e])
  BY <1>1 DEF Identity
<1>3. Of(after[e]) = Of(before[e])
  <2>1. DOMAIN Fingerprint(after[e]) = DOMAIN Fingerprint(before[e])
    BY <1>2
  <2>2. QED
    BY <2>1
<1>4. \A p \in Of(before[e]) : after[e][p] = before[e][p]
  <2>1. ASSUME NEW p \in Of(before[e]) PROVE after[e][p] = before[e][p]
    <3>1. Fingerprint(after[e])[p] = Fingerprint(before[e])[p]
      BY <1>2
    <3>2. QED
      BY <1>3, <2>1, <3>1
  <2>2. QED
    BY <2>1
<1>5. after[e] \notin CleanStates => Head \in Of(after[e])
  BY IdentityAssumption
<1>6. CASE before[e] \in CleanStates
  <2>1. after[e] \in CleanStates
    BY <1>3, <1>5, <1>6
  <2>2. QED
    BY <1>2, <1>6, <2>1, IdentityAssumption
<1>7. CASE before[e] \notin CleanStates
  BY <1>2, <1>4, <1>7
<1>8. QED
  BY <1>6, <1>7

\* Two observations with one identity enclose an instant at which the checkout
\* was what the identity says, and contract and lock were read of it.
LEMMA AgreementEnclosesAnInstant ==
    TypeOK /\ (\A e \in Emitters : Collects(e))
        => ManifestDescribesOneCheckout /\ InputsAreOfThatCheckout
<1>1. ASSUME TypeOK, NEW e \in Emitters, Collects(e), pc[e] = "done"
      PROVE  /\ instant[e][Head] = before[e][Head]
             /\ \A p \in IF before[e] \in CleanStates THEN Covered ELSE Named[before[e]] :
                    StandsFor(e, p, instant[e][p])
             /\ StandsFor(e, LockFile, lock[e]) /\ StandsFor(e, ContractFile, contract[e])
             /\ contract[e] \in Supported
  <2> DEFINE S == IF before[e] \in CleanStates THEN Covered ELSE Named[before[e]]
  <2>1. pc[e] \in HasIdentity /\ pc[e] \in HasContract /\ pc[e] \in HasLock
    BY <1>1 DEF HasIdentity, HasContract, HasLock
  <2>2. pc[e] \in HasAfter /\ pc[e] \in Agreed
    BY <1>1 DEF HasAfter, Agreed
  <2>3. /\ SameIdentity(e) /\ \A p \in Parts : after[e][p] # None /\ ReadAgain(e, p)
    BY <1>1, <2>2 DEF Collects, SecondCollect, Complete
  <2>4. before[e] \in [Parts -> Values] /\ after[e] \in [Parts -> Values]
    BY <1>1, <2>1, <2>3 DEF TypeOK
  <2>5. S \subseteq Parts /\ {Head, LockFile, ContractFile} \subseteq S
    BY <2>4, IdentityAssumption
  <2>6. \A p \in Parts : Older(before[e][p], instant[e][p]) /\ Older(instant[e][p], after[e][p])
    BY <1>1, <2>1, <2>3 DEF Collects, FirstCollect, ReadAgain
  <2>7. ASSUME NEW p \in S, NEW v, Older(before[e][p], v), Older(v, after[e][p])
        PROVE  StandsFor(e, p, v)
    <3>1. CASE before[e] \in CleanStates
      <4>1. Canon[after[e][p]] = Canon[before[e][p]]
        BY <2>3, <2>4, <2>7, <3>1, SameIdentityMeans
      <4>2. QED
        BY <2>7, <3>1, <4>1, BetweenIsTheSame DEF StandsFor
    <3>2. CASE before[e] \notin CleanStates
      <4>1. after[e][p] = before[e][p]
        BY <2>3, <2>4, <2>7, <3>2, SameIdentityMeans
      <4>2. QED
        BY <2>7, <3>2, <4>1, BetweenIsTheSame DEF StandsFor
    <3>3. QED
      BY <3>1, <3>2
  <2>8. instant[e][Head] = before[e][Head]
    <3>1. after[e][Head] = before[e][Head]
      BY <2>3, <2>4, SameIdentityMeans
    <3>2. QED
      BY <2>5, <2>6, <3>1, BetweenIsTheSame
  <2>9. /\ Older(before[e][LockFile], lock[e]) /\ Older(lock[e], after[e][LockFile])
        /\ Older(before[e][ContractFile], contract[e])
        /\ Older(contract[e], after[e][ContractFile])
        /\ contract[e] \in Supported
    BY <1>1, <2>1, <2>3, <2>5, <2>6, OlderIsAnOrder DEF Collects, FirstCollect, ReadAgain
  <2> HIDE DEF S
  <2>10. \A p \in S : StandsFor(e, p, instant[e][p])
    BY <2>5, <2>6, <2>7
  <2>11. StandsFor(e, LockFile, lock[e]) /\ StandsFor(e, ContractFile, contract[e])
    BY <2>5, <2>7, <2>9
  <2>12. QED
    BY <2>8, <2>9, <2>10, <2>11 DEF S
<1>2. QED
  BY <1>1 DEF ManifestDescribesOneCheckout, InputsAreOfThatCheckout

\* A published manifest names a commit and contents that the checkout had, all of
\* them, at one instant of the recording.
THEOREM PublishedCheckoutIsReal == Spec => []ManifestDescribesOneCheckout
BY AgreementEnclosesAnInstant, TypeCorrect, ReadingsAreOrdered, PTL

\* Its lock hash and its contract are those of that checkout, up to conversions.
THEOREM PublishedInputsAreItsOwn == Spec => []InputsAreOfThatCheckout
BY AgreementEnclosesAnInstant, TypeCorrect, ReadingsAreOrdered, PTL

-----------------------------------------------------------------------------
(* Publication. --out holds the set of an emission only once that emission is *)
(* done, and by then its files and its manifest are all in place.             *)

AfterCopy  == {"inspect", "after", "compare", "verify", "write", "probe", "rmdir",
               "rename", "done"}
AfterWrite == {"probe", "rmdir", "rename", "done"}

Prepared(e) ==
    /\ out = e => pc[e] = "done"
    /\ pc[e] = "done" => ~staging[e]
    /\ pc[e] \in AfterWrite => written[e]
    /\ pc[e] \in AfterCopy => \A r \in Roles : staged[e][r] # None
    /\ pc[e] = "copy" => \A r \in Roles \ todo[e] : staged[e][r] # None

\* Nobody but the emission itself changes these, except that staged files change.
LEMMA PreparedIfUntouched ==
    ASSUME NEW e \in Emitters, Prepared(e), out' # e \/ out' = out,
           pc'[e] \in {pc[e], "refused", "crashed"}, out = e => pc'[e] = pc[e],
           staging'[e] = staging[e] \/ ~staging'[e], written'[e] = written[e],
           todo'[e] = todo[e], \A r \in Roles : staged[e][r] # None => staged'[e][r] # None
    PROVE  Prepared(e)'
BY DEF Prepared, AfterCopy, AfterWrite

LEMMA EmitKeepsPrepared ==
    ASSUME TypeOK, NEW e \in Emitters, Prepared(e), Emit(e) PROVE Prepared(e)'
<1> USE LocalAssumption DEF Prepared, AfterCopy, AfterWrite, Free, Goes
<1>1. CASE \/ ReadAbi(e) \/ AcceptOut(e) \/ ReadContract(e) \/ HashLocks(e)
           \/ Agree(e) \/ Inspected(e) \/ ProbeOut(e)
  BY <1>1 DEF ReadAbi, AcceptOut, ReadContract, HashLocks, Agree, Inspected, ProbeOut, TypeOK,
              fileVars, readVars, setVars
<1>2. CASE MakeStaging(e)
  BY <1>2 DEF MakeStaging, TypeOK, fileVars, readVars
<1>3. ASSUME NEW p \in Parts, ObserveBefore(e, p) \/ ObserveAfter(e, p) PROVE Prepared(e)'
  BY <1>3 DEF ObserveBefore, ObserveAfter, TypeOK, fileVars, setVars
<1>4. ASSUME NEW r \in Roles, NEW b \in Bytes, CopyAndHash(e, r, b) PROVE Prepared(e)'
  <2>1. /\ out' = out /\ pc[e] = "copy" /\ staged'[e][r] = b /\ b # None
        /\ \A q \in Roles \ {r} : staged'[e][q] = staged[e][q]
        /\ staging' = staging /\ written' = written
        /\ \/ todo[e] = {r} /\ pc'[e] = "inspect"
           \/ todo'[e] = todo[e] \ {r} /\ pc'[e] = "copy"
    BY <1>4 DEF CopyAndHash, TypeOK, fileVars
  <2>2. QED
    BY <2>1
<1>5. ASSUME NEW r \in Roles, Inspect(e, r) \/ Recheck(e, r) PROVE Prepared(e)'
  BY <1>5 DEF Inspect, Recheck, TypeOK, fileVars, readVars
<1>6. CASE WriteManifest(e) \/ RemoveEmpty(e) \/ Rename(e)
  BY <1>6 DEF WriteManifest, RemoveEmpty, Rename, Renamable, TypeOK, fileVars, readVars, setVars
<1>7. CASE Abandon(e) /\ pc[e] # "done"
  BY <1>7 DEF Abandon, TypeOK, fileVars, readVars
<1>8. QED
  BY <1>1, <1>2, <1>3, <1>4, <1>5, <1>6, <1>7
     DEF Emit, RefuseOut, RefuseContract, RefuseRoot, RefuseChanged, RefuseStaged,
         LoseRmdir, LoseRename, Fail, Refuse, LosesOut, Running

\* What a step of one emission does to the files of another, and to --out.
LEMMA EmitLeavesOtherSets ==
    ASSUME TypeOK, NEW e \in Emitters, NEW f \in Emitters, f # e, Emit(e)
    PROVE  /\ pc'[f] = pc[f] /\ staging'[f] = staging[f] /\ written'[f] = written[f]
           /\ todo'[f] = todo[f] /\ staged'[f] = staged[f]
           /\ out' \in {out, "absent", e} /\ (out \notin Free => out' = out)
BY DEF Emit, ReadAbi, AcceptOut, RefuseOut, ObserveBefore, ObserveAfter, ReadContract,
       RefuseContract, HashLocks, MakeStaging, CopyAndHash, Inspect, RefuseRoot, Recheck,
       RefuseStaged, Inspected, Agree, RefuseChanged, WriteManifest, ProbeOut, RemoveEmpty,
       LoseRmdir, Rename, Renamable, LoseRename, Fail, Refuse, LosesOut, Abandon, Goes, Free,
       fileVars, setVars, TypeOK

LEMMA NextKeepsPrepared ==
    ASSUME TypeOK, NEW e \in Emitters, Prepared(e), [Next]_vars PROVE Prepared(e)'
<1>1. CASE (\E p \in Parts, v \in Values : EditCheckout(p, v)) \/ UseOut \/ UNCHANGED vars
  BY <1>1, PreparedIfUntouched, LocalAssumption
     DEF EditCheckout, UseOut, Free, setVars, vars
<1>2. ASSUME NEW f \in Emitters, NEW r \in Roles, NEW b \in Bytes, ChangeStaged(f, r, b)
      PROVE  Prepared(e)'
  <2>1. /\ out' = out /\ pc' = pc /\ staging' = staging /\ written' = written /\ todo' = todo
        /\ b # None /\ \A q \in Roles : staged'[e][q] \in {staged[e][q], b}
    BY <1>2, LocalAssumption DEF ChangeStaged, TypeOK, fileVars
  <2>2. QED
    BY <2>1, PreparedIfUntouched
<1>3. ASSUME NEW f \in Emitters, Crash(f) PROVE Prepared(e)'
  <2>1. /\ out' = out /\ pc'[e] \in {pc[e], "crashed"} /\ staging' = staging
        /\ written' = written /\ todo' = todo /\ staged' = staged
        /\ pc[e] = "done" => pc'[e] = "done"
    BY <1>3 DEF Crash, TypeOK, Running, fileVars, setVars
  <2>2. QED
    BY <2>1, PreparedIfUntouched DEF Prepared
<1>4. ASSUME NEW f \in Emitters, Emit(f) PROVE Prepared(e)'
  <2>1. CASE f # e
    <3>1. out' # e \/ out' = out
      BY <1>4, <2>1, EmitLeavesOtherSets, LocalAssumption
    <3>2. QED
      BY <1>4, <2>1, <3>1, EmitLeavesOtherSets, PreparedIfUntouched
  <2>2. CASE f = e
    BY <1>4, <2>2, EmitKeepsPrepared
  <2>3. QED
    BY <2>1, <2>2
<1>5. QED
  BY <1>1, <1>2, <1>3, <1>4 DEF Next, Others

THEOREM SetsArePrepared == Spec => [](\A e \in Emitters : Prepared(e))
<1>1. Init => \A e \in Emitters : Prepared(e)
  <2> SUFFICES ASSUME Init, NEW e \in Emitters PROVE Prepared(e)
    OBVIOUS
  <2>1. pc[e] = "abi" /\ out # e
    BY LocalAssumption DEF Init, Free
  <2>2. QED
    BY <2>1 DEF Prepared, AfterCopy, AfterWrite
<1>2. /\ TypeOK /\ (\A e \in Emitters : Prepared(e)) /\ [Next]_vars
      => (\A e \in Emitters : Prepared(e))'
  BY NextKeepsPrepared
<1>3. QED
  BY <1>1, <1>2, TypeCorrect, PTL DEF Spec

-----------------------------------------------------------------------------
(* The refinement.                                                            *)

AllPrepared == \A e \in Emitters : Prepared(e)

\* The abstract slot without the case that Prepared rules out.
LEMMA SlotIsOut ==
    ASSUME TypeOK, AllPrepared
    PROVE  Slot = IF out \in Free THEN "free" ELSE out
<1>1. out \in Emitters => Whole(out)
  BY DEF AllPrepared, Prepared, Whole, AfterCopy, AfterWrite
<1>2. QED
  BY <1>1 DEF Slot, TypeOK

\* A step of an emission goes on, gives up, or publishes.
LEMMA EmitOutcomes ==
    ASSUME TypeOK, NEW e \in Emitters, Emit(e)
    PROVE  /\ pc[e] \in Running /\ \A f \in Emitters \ {e} : pc'[f] = pc[f]
           /\ \/ pc'[e] \in Running /\ (out' = out \/ (out \in Free /\ out' \in Free))
              \/ pc'[e] = "refused" /\ out' = out
              \/ pc'[e] = "done" /\ out \in Free /\ out' = e
<1> USE DEF Running, Free, Goes
<1>1. CASE \/ ReadAbi(e) \/ AcceptOut(e) \/ ReadContract(e) \/ HashLocks(e)
           \/ Agree(e) \/ Inspected(e) \/ ProbeOut(e) \/ MakeStaging(e)
           \/ WriteManifest(e) \/ RemoveEmpty(e)
  BY <1>1 DEF ReadAbi, AcceptOut, ReadContract, HashLocks, Agree, Inspected, ProbeOut,
              MakeStaging, WriteManifest, RemoveEmpty, TypeOK, fileVars
<1>2. ASSUME NEW p \in Parts, ObserveBefore(e, p) \/ ObserveAfter(e, p)
      PROVE  /\ pc[e] \in Running /\ pc'[e] \in Running /\ out' = out
             /\ \A f \in Emitters \ {e} : pc'[f] = pc[f]
  BY <1>2 DEF ObserveBefore, ObserveAfter, TypeOK, fileVars
<1>3. ASSUME NEW r \in Roles, Inspect(e, r) \/ Recheck(e, r) \/ \E b \in Bytes : CopyAndHash(e, r, b)
      PROVE  /\ pc[e] \in Running /\ pc'[e] \in Running /\ out' = out
             /\ \A f \in Emitters \ {e} : pc'[f] = pc[f]
  BY <1>3 DEF Inspect, Recheck, CopyAndHash, TypeOK, fileVars
<1>4. CASE Rename(e)
  BY <1>4 DEF Rename, Renamable, TypeOK
<1>5. CASE Abandon(e) /\ pc[e] \in Running
  BY <1>5 DEF Abandon, TypeOK, fileVars
<1>6. QED
  BY <1>1, <1>2, <1>3, <1>4, <1>5
     DEF Emit, RefuseOut, RefuseContract, RefuseRoot, RefuseChanged, RefuseStaged,
         LoseRmdir, LoseRename, Fail, Refuse, LosesOut

LEMMA StepIsAbstract ==
    ASSUME TypeOK, TypeOK', AllPrepared, AllPrepared', [Next]_vars
    PROVE  \/ Publishing!ANext
           \/ UNCHANGED <<Slot, [e \in Emitters |-> Outcome(pc[e])]>>
<1> DEFINE outcome == [e \in Emitters |-> Outcome(pc[e])]
<1>1. Slot = IF out \in Free THEN "free" ELSE out
  BY SlotIsOut
<1>2. Slot' = IF out' \in Free THEN "free" ELSE out'
  <2>1. out' \in Emitters => Whole(out)'
    BY DEF AllPrepared, Prepared, Whole, AfterCopy, AfterWrite
  <2>2. QED
    BY <2>1 DEF Slot, TypeOK, Free
<1>3. ASSUME out' = out \/ (out \in Free /\ out' \in Free), pc' = pc
      PROVE  UNCHANGED <<Slot, outcome>>
  BY <1>1, <1>2, <1>3
<1>4. CASE UseOut
  <2>1. pc' = pc /\ outcome' = outcome
    BY <1>4 DEF UseOut
  <2>2. CASE out \in Free /\ out' \in Free
    BY <1>3, <1>4, <2>1, <2>2 DEF UseOut
  <2>3. CASE out = "foreign" \/ out' = "foreign"
    <3>1. \/ out = "foreign" /\ out' \in Free
          \/ out \in Free /\ out' = "foreign"
      BY <1>4, <2>3 DEF UseOut, TypeOK
    <3>2. "foreign" \notin Free
      BY DEF Free
    <3>3. {Slot, Slot'} = {"free", "foreign"}
      BY <1>1, <1>2, <3>1, <3>2
    <3>4. QED
      BY <2>1, <3>3 DEF Publishing!ANext, Publishing!Used
  <2>4. QED
    BY <1>4, <2>2, <2>3 DEF UseOut, TypeOK
<1>5. ASSUME NEW e \in Emitters, pc[e] \in Running, pc'[e] \in {"refused", "crashed"},
             out' = out, \A f \in Emitters \ {e} : pc'[f] = pc[f]
      PROVE  Publishing!ANext
  <2>1. outcome[e] = "running" /\ outcome' = [outcome EXCEPT ![e] = "failed"]
    BY <1>5 DEF Outcome, Running
  <2>2. Slot' = Slot
    BY <1>1, <1>2, <1>5
  <2>3. QED
    BY <2>1, <2>2 DEF Publishing!ANext, Publishing!Ended
<1>6. ASSUME NEW e \in Emitters, Crash(e) PROVE Publishing!ANext
  BY <1>5, <1>6 DEF Crash, TypeOK, fileVars
<1>7. ASSUME NEW e \in Emitters, Emit(e)
      PROVE  Publishing!ANext \/ UNCHANGED <<Slot, outcome>>
  <2>1. /\ pc[e] \in Running /\ \A f \in Emitters \ {e} : pc'[f] = pc[f]
        /\ \/ pc'[e] \in Running /\ (out' = out \/ (out \in Free /\ out' \in Free))
           \/ pc'[e] = "refused" /\ out' = out
           \/ pc'[e] = "done" /\ out \in Free /\ out' = e
    BY <1>7, EmitOutcomes
  <2>2. CASE pc'[e] \in Running /\ (out' = out \/ (out \in Free /\ out' \in Free))
    <3>1. \A f \in Emitters : Outcome(pc[f])' = Outcome(pc[f])
      BY <2>1, <2>2 DEF Outcome
    <3>2. QED
      BY <1>1, <1>2, <2>2, <3>1
  <2>3. CASE pc'[e] = "refused" /\ out' = out
    BY <1>5, <2>1, <2>3
  <2>4. CASE pc'[e] = "done" /\ out \in Free /\ out' = e
    <3>1. outcome[e] = "running" /\ outcome' = [outcome EXCEPT ![e] = "published"]
      BY <2>1, <2>4 DEF Outcome, Running
    <3>2. Slot = "free" /\ Slot' = e
      BY <1>1, <1>2, <2>4, LocalAssumption DEF Free
    <3>3. QED
      BY <3>1, <3>2 DEF Publishing!ANext, Publishing!Published
  <2>5. QED
    BY <2>1, <2>2, <2>3, <2>4
<1>8. CASE \/ \E p \in Parts, v \in Values : EditCheckout(p, v)
           \/ \E e \in Emitters, r \in Roles, b \in Bytes : ChangeStaged(e, r, b)
           \/ UNCHANGED vars
  BY <1>3, <1>8 DEF EditCheckout, ChangeStaged, fileVars, vars
<1>9. QED
  BY <1>4, <1>6, <1>7, <1>8 DEF Next, Others

\* Whatever the emissions, the editors and the users of --out do, a reader of
\* --out sees an AtomicPublish: nothing, or one complete set that is there to
\* stay, written by exactly one emission.
THEOREM PublicationIsAtomic == Spec => PublishesAtomically
<1>1. Init => Publishing!AInit
  <2> SUFFICES ASSUME Init PROVE Publishing!AInit
    OBVIOUS
  <2>1. Slot \in {"free", "foreign"}
    BY LocalAssumption DEF Init, Slot, Free
  <2>2. [e \in Emitters |-> Outcome(pc[e])] = [e \in Emitters |-> "running"]
    BY DEF Init, Outcome, Running
  <2>3. QED
    BY <2>1, <2>2 DEF Publishing!AInit
<1>2. TypeOK /\ TypeOK' /\ AllPrepared /\ AllPrepared' /\ [Next]_vars
      => [Publishing!ANext]_<<Slot, [e \in Emitters |-> Outcome(pc[e])]>>
  BY StepIsAbstract
<1>3. Spec => []AllPrepared
  BY SetsArePrepared DEF AllPrepared
<1>4. QED
  BY <1>1, <1>2, <1>3, TypeCorrect, PTL DEF Spec, PublishesAtomically, Publishing!ASpec

-----------------------------------------------------------------------------
(* The files. Between the digest of a copy and its recheck lies the inspected *)
(* content; when the two agree it is the same.                                *)

AfterVerify == {"write", "probe", "rmdir", "rename", "done"}

Copied(e, r) == digest[e][r] # None /\ Fresher(digest[e][r], staged[e][r])

SeenCompatible(e, r) ==
    \E b \in Compatible : Fresher(digest[e][r], b) /\ Fresher(b, staged[e][r])

AsDigested(e, r) ==
    /\ staged[e][r] = digest[e][r] /\ digest[e][r] # None
    /\ r \in Roots => digest[e][r] \in Compatible

FilesAreFollowed(e) ==
    /\ pc[e] = "copy" => \A r \in Roles \ todo[e] : Copied(e, r)
    /\ pc[e] \in {"inspect", "after", "compare", "verify"} => \A r \in Roles : Copied(e, r)
    /\ pc[e] = "inspect" => \A r \in Roots \ todo[e] : SeenCompatible(e, r)
    /\ pc[e] \in {"after", "compare", "verify"} => \A r \in Roots : SeenCompatible(e, r)
    /\ pc[e] = "verify" => \A r \in (Roles \ todo[e]) \ late[e] : AsDigested(e, r)
    /\ pc[e] \in AfterVerify => \A r \in Roles \ late[e] : AsDigested(e, r)

\* A step that leaves files, digests and loop of an emission alone.
LEMMA FilesFollowedIfUntouched ==
    ASSUME NEW e \in Emitters, FilesAreFollowed(e), staged'[e] = staged[e],
           digest'[e] = digest[e], todo'[e] = todo[e], late'[e] = late[e],
           pc'[e] \in {pc[e], "refused", "crashed"}
    PROVE  FilesAreFollowed(e)'
BY DEF FilesAreFollowed, Copied, SeenCompatible, AsDigested, AfterVerify

\* A staged file that others change only gets fresher, and late after its recheck.
LEMMA ChangeKeepsFilesFollowed ==
    ASSUME TypeOK, NEW e \in Emitters, FilesAreFollowed(e), Prepared(e),
           NEW f \in Emitters, NEW q \in Roles, NEW b \in Bytes, ChangeStaged(f, q, b)
    PROVE  FilesAreFollowed(e)'
<1>1. pc' = pc /\ digest' = digest /\ todo' = todo
  BY DEF ChangeStaged
<1>2. CASE f # e
  <2>1. staged'[e] = staged[e] /\ late'[e] = late[e]
    BY <1>2 DEF ChangeStaged, TypeOK
  <2>2. QED
    BY <1>1, <2>1, FilesFollowedIfUntouched
<1>3. CASE f = e
  <2>1. /\ Fresher(staged[e][q], staged'[e][q])
        /\ \A r \in Roles \ {q} : staged'[e][r] = staged[e][r]
    BY <1>3 DEF ChangeStaged, TypeOK, Fresher
  <2>2. /\ late[e] \subseteq late'[e] /\ pc[e] # "done"
        /\ pc[e] \in AfterVerify \/ (pc[e] = "verify" /\ q \notin todo[e]) => q \in late'[e]
    BY <1>3 DEF ChangeStaged, TypeOK, AfterVerify, Prepared
  <2>3. ASSUME NEW r \in Roles PROVE Copied(e, r) => Copied(e, r)'
    BY <1>1, <2>1, FresherIsAnOrder DEF Copied
  <2>4. ASSUME NEW r \in Roles PROVE SeenCompatible(e, r) => SeenCompatible(e, r)'
    BY <1>1, <2>1, FresherIsAnOrder DEF SeenCompatible
  <2>5. ASSUME NEW r \in Roles \ {q} PROVE AsDigested(e, r) => AsDigested(e, r)'
    BY <1>1, <2>1 DEF AsDigested
  <2>6. QED
    BY <1>1, <2>2, <2>3, <2>4, <2>5, LocalAssumption DEF FilesAreFollowed
<1>4. QED
  BY <1>2, <1>3

LEMMA EmitKeepsFilesFollowed ==
    ASSUME TypeOK, NEW e \in Emitters, FilesAreFollowed(e), Emit(e)
    PROVE  FilesAreFollowed(e)'
<1> USE DEF FilesAreFollowed, AfterVerify, Goes
<1>1. CASE \/ ReadAbi(e) \/ AcceptOut(e) \/ ReadContract(e) \/ HashLocks(e) \/ Inspected(e)
           \/ ProbeOut(e) \/ WriteManifest(e) \/ RemoveEmpty(e) \/ Rename(e)
           \/ \E p \in Parts : ObserveBefore(e, p) \/ ObserveAfter(e, p)
  <2>1. UNCHANGED <<staged, digest, todo, late>>
    BY <1>1 DEF ReadAbi, AcceptOut, ReadContract, HashLocks, Inspected, ProbeOut, WriteManifest,
       RemoveEmpty, Rename, ObserveBefore, ObserveAfter, setVars
  <2>2. /\ pc'[e] = "copy" => pc[e] = "copy"
        /\ pc'[e] \in {"inspect", "verify"} => pc'[e] = pc[e]
        /\ pc'[e] \in {"after", "compare"} =>
               pc[e] \in {"after", "compare"} \/ (pc[e] = "inspect" /\ todo[e] = {})
        /\ pc'[e] \in AfterVerify => pc[e] \in AfterVerify
    BY <1>1 DEF ReadAbi, AcceptOut, ReadContract, HashLocks, Inspected, ProbeOut, WriteManifest,
       RemoveEmpty, Rename, ObserveBefore, ObserveAfter, TypeOK
  <2>3. \A r \in Roles : /\ Copied(e, r)' = Copied(e, r)
                         /\ SeenCompatible(e, r)' = SeenCompatible(e, r)
                         /\ AsDigested(e, r)' = AsDigested(e, r)
    BY <2>1 DEF Copied, SeenCompatible, AsDigested
  <2>4. QED
    BY <2>1, <2>2, <2>3, LocalAssumption
<1>2. CASE MakeStaging(e)
  BY <1>2 DEF MakeStaging, TypeOK
<1>3. ASSUME NEW q \in Roles, NEW b \in Bytes, CopyAndHash(e, q, b) PROVE FilesAreFollowed(e)'
  <2>1. /\ pc[e] = "copy" /\ staged'[e][q] = b /\ digest'[e][q] = b /\ b # None
        /\ \A r \in Roles \ {q} : staged'[e][r] = staged[e][r] /\ digest'[e][r] = digest[e][r]
        /\ \/ todo[e] = {q} /\ pc'[e] = "inspect" /\ todo'[e] = Roots
           \/ todo'[e] = todo[e] \ {q} /\ pc'[e] = "copy"
    BY <1>3, LocalAssumption DEF CopyAndHash, TypeOK
  <2>2. Copied(e, q)' /\ \A r \in Roles \ {q} : Copied(e, r) => Copied(e, r)'
    BY <2>1 DEF Copied, Fresher
  <2>3. \A r \in Roles \ todo[e] : Copied(e, r)
    BY <2>1
  <2>4. QED
    BY <2>1, <2>2, <2>3
<1>4. ASSUME NEW q \in Roles, Inspect(e, q) PROVE FilesAreFollowed(e)'
  <2>1. /\ pc[e] = "inspect" /\ pc'[e] = "inspect" /\ todo'[e] = todo[e] \ {q}
        /\ staged' = staged /\ digest' = digest /\ staged[e][q] \in Compatible
    BY <1>4 DEF Inspect, TypeOK
  <2>2. \A r \in Roles : Copied(e, r)' = Copied(e, r)
                         /\ SeenCompatible(e, r)' = SeenCompatible(e, r)
    BY <2>1 DEF Copied, SeenCompatible
  <2>3. SeenCompatible(e, q)
    BY <2>1 DEF SeenCompatible, Copied, Fresher
  <2>4. QED
    BY <2>1, <2>2, <2>3, LocalAssumption
<1>5. CASE Agree(e)
  <2>1. /\ pc[e] = "compare" /\ pc'[e] = "verify" /\ todo'[e] = Roles
        /\ staged' = staged /\ digest' = digest
    BY <1>5 DEF Agree, TypeOK
  <2>2. \A r \in Roles : Copied(e, r)' = Copied(e, r)
                         /\ SeenCompatible(e, r)' = SeenCompatible(e, r)
    BY <2>1 DEF Copied, SeenCompatible
  <2>3. QED
    BY <2>1, <2>2, LocalAssumption
<1>6. ASSUME NEW q \in Roles, Recheck(e, q) PROVE FilesAreFollowed(e)'
  <2>1. /\ pc[e] = "verify" /\ staged' = staged /\ digest' = digest /\ late' = late
        /\ todo'[e] = todo[e] \ {q} /\ staged[e][q] = digest[e][q]
        /\ pc'[e] = "verify" \/ (pc'[e] = "write" /\ todo[e] = {q})
    BY <1>6 DEF Recheck, Unchanged, TypeOK
  <2>2. \A r \in Roles : /\ Copied(e, r)' = Copied(e, r)
                         /\ SeenCompatible(e, r)' = SeenCompatible(e, r)
                         /\ AsDigested(e, r)' = AsDigested(e, r)
    BY <2>1 DEF Copied, SeenCompatible, AsDigested
  <2>3. AsDigested(e, q)
    <3>1. digest[e][q] # None
      BY <2>1 DEF Copied
    <3>2. q \in Roots => SeenCompatible(e, q)
      BY <2>1
    <3>3. q \in Roots => digest[e][q] \in Compatible
      BY <2>1, <3>2, FresherIsAnOrder DEF SeenCompatible
    <3>4. QED
      BY <2>1, <3>1, <3>3 DEF AsDigested
  <2>4. QED
    BY <2>1, <2>2, <2>3, LocalAssumption
<1>7. CASE Abandon(e)
  BY <1>7 DEF Abandon, TypeOK
<1>8. QED
  BY <1>1, <1>2, <1>3, <1>4, <1>5, <1>6, <1>7
     DEF Emit, RefuseOut, RefuseContract, RefuseRoot, RefuseChanged, RefuseStaged,
         LoseRmdir, LoseRename, Fail, Refuse, LosesOut

\* An emission does not touch the digests of another, nor what others saw late.
LEMMA EmitLeavesOtherDigests ==
    ASSUME TypeOK, NEW e \in Emitters, NEW f \in Emitters, f # e, Emit(e)
    PROVE  digest'[f] = digest[f] /\ late'[f] = late[f]
BY DEF Emit, ReadAbi, AcceptOut, RefuseOut, ObserveBefore, ObserveAfter, ReadContract,
       RefuseContract, HashLocks, MakeStaging, CopyAndHash, Inspect, RefuseRoot, Recheck,
       RefuseStaged, Inspected, Agree, RefuseChanged, WriteManifest, ProbeOut, RemoveEmpty,
       LoseRmdir, Rename, LoseRename, Fail, Refuse, LosesOut, Abandon, setVars, TypeOK

LEMMA NextKeepsFilesFollowed ==
    ASSUME TypeOK, NEW e \in Emitters, FilesAreFollowed(e), Prepared(e), [Next]_vars
    PROVE  FilesAreFollowed(e)'
<1>1. CASE (\E p \in Parts, v \in Values : EditCheckout(p, v)) \/ UseOut \/ UNCHANGED vars
  BY <1>1, FilesFollowedIfUntouched DEF EditCheckout, UseOut, setVars, vars
<1>2. ASSUME NEW f \in Emitters, NEW r \in Roles, NEW b \in Bytes, ChangeStaged(f, r, b)
      PROVE  FilesAreFollowed(e)'
  BY <1>2, ChangeKeepsFilesFollowed
<1>3. ASSUME NEW f \in Emitters, Crash(f) PROVE FilesAreFollowed(e)'
  BY <1>3, FilesFollowedIfUntouched DEF Crash, setVars, TypeOK
<1>4. ASSUME NEW f \in Emitters, Emit(f) PROVE FilesAreFollowed(e)'
  <2>1. CASE f # e
    BY <1>4, <2>1, EmitLeavesOtherSets, EmitLeavesOtherDigests, FilesFollowedIfUntouched
  <2>2. CASE f = e
    BY <1>4, <2>2, EmitKeepsFilesFollowed
  <2>3. QED
    BY <2>1, <2>2
<1>5. QED
  BY <1>1, <1>2, <1>3, <1>4 DEF Next, Others

\* A published file has the bytes whose digest is recorded and, as a root, a
\* compatible marker in those bytes, although the inspection and the digest are
\* of different readings and others may write in between.
THEOREM PublishedBytesAreRecorded == Spec => []RecordedBytesArePublished
<1> DEFINE Followed == \A e \in Emitters : FilesAreFollowed(e)
<1>1. Init => Followed
  BY DEF Init, FilesAreFollowed, AfterVerify
<1>2. TypeOK /\ AllPrepared /\ Followed /\ [Next]_vars => Followed'
  BY NextKeepsFilesFollowed DEF AllPrepared
<1>3. Followed => RecordedBytesArePublished
  BY DEF FilesAreFollowed, RecordedBytesArePublished, AsDigested, AfterVerify
<1>4. Spec => []AllPrepared
  BY SetsArePrepared DEF AllPrepared
<1> HIDE DEF Followed
<1>5. QED
  BY <1>1, <1>2, <1>3, <1>4, TypeCorrect, PTL DEF Spec

-----------------------------------------------------------------------------
(* The race for --out.                                                        *)

\* The last to remove --out is somebody else, or an emission that did not lose it.
RemoverStands ==
    \/ remover = "others"
    \/ remover \in Emitters \ lost /\ pc[remover] \in {"rename", "refused", "crashed"}

\* --out is absent for who found it there only because another removed it.
RaceIsFair ==
    /\ out = "absent" /\ (\E e \in Emitters : pc[e] = "rmdir") => RemoverStands
    /\ \A e \in lost : pc[e] = "refused"
    /\ remover \in Emitters => pc[remover] \in {"rename", "refused", "crashed", "done"}
    /\ out = "absent" /\ remover \in Emitters => pc[remover] # "done" /\ remover \notin lost

LEMMA NextKeepsRaceFair ==
    ASSUME TypeOK, RaceIsFair, [Next]_vars
    PROVE  RaceIsFair'
<1> USE LocalAssumption DEF RaceIsFair, RemoverStands, Free, Goes
<1>1. CASE (\E p \in Parts, v \in Values : EditCheckout(p, v)) \/ UNCHANGED vars
           \/ (\E f \in Emitters, r \in Roles, b \in Bytes : ChangeStaged(f, r, b))
  BY <1>1 DEF EditCheckout, ChangeStaged, fileVars, raceVars, vars
<1>2. CASE UseOut
  <2>1. pc' = pc /\ lost' = lost
    BY <1>2 DEF UseOut
  <2>2. CASE out' = "absent"
    BY <1>2, <2>1, <2>2 DEF UseOut
  <2>3. CASE out' # "absent"
    BY <1>2, <2>1, <2>3 DEF UseOut
  <2>4. QED
    BY <2>2, <2>3
<1>3. ASSUME NEW e \in Emitters, Crash(e) PROVE RaceIsFair'
  BY <1>3 DEF Crash, Running, fileVars, raceVars, TypeOK
<1>4. ASSUME NEW e \in Emitters,
             pc' = pc \/ \E to \in Running \ {"rename", "rmdir"} : pc' = [pc EXCEPT ![e] = to],
             pc[e] \in Running \ {"rename"}, UNCHANGED <<out, remover, lost>>
      PROVE  RaceIsFair'
  <2>1. e \notin lost /\ e # remover
    BY <1>4 DEF Running
  <2>2. CASE pc' = pc
    BY <1>4, <2>2
  <2>3. ASSUME NEW to \in Running \ {"rename", "rmdir"}, pc' = [pc EXCEPT ![e] = to]
        PROVE  RaceIsFair'
    <3>1. /\ pc'[e] \notin {"rmdir", "done"}
          /\ \A f \in Emitters \ {e} : pc'[f] = pc[f]
      BY <2>3 DEF TypeOK, Running
    <3>2. QED
      BY <1>4, <2>1, <3>1 DEF TypeOK
  <2>4. QED
    BY <1>4, <2>2, <2>3
<1>5. ASSUME NEW e \in Emitters,
             \/ ReadAbi(e) \/ AcceptOut(e) \/ ReadContract(e) \/ HashLocks(e) \/ MakeStaging(e)
             \/ Inspected(e) \/ Agree(e) \/ WriteManifest(e)
             \/ \E p \in Parts : ObserveBefore(e, p) \/ ObserveAfter(e, p)
             \/ \E r \in Roles : Inspect(e, r) \/ Recheck(e, r)
             \/ \E r \in Roles, b \in Bytes : CopyAndHash(e, r, b)
      PROVE  RaceIsFair'
  <2>1. /\ pc' = pc \/ \E to \in Running \ {"rename", "rmdir"} : pc' = [pc EXCEPT ![e] = to]
        /\ pc[e] \in Running \ {"rename"} /\ UNCHANGED <<out, remover, lost>>
    BY <1>5 DEF ReadAbi, AcceptOut, ReadContract, HashLocks, MakeStaging, Inspected, Agree,
       WriteManifest, ObserveBefore, ObserveAfter, Inspect, Recheck, CopyAndHash, Running,
       fileVars, raceVars
  <2>2. QED
    BY <1>4, <2>1
<1>6. ASSUME NEW e \in Emitters, ProbeOut(e) PROVE RaceIsFair'
  <2>1. /\ pc[e] = "probe" /\ UNCHANGED <<out, remover, lost>>
        /\ pc'[e] \in {"rename", "rmdir"} /\ (out = "absent" => pc'[e] = "rename")
        /\ \A f \in Emitters \ {e} : pc'[f] = pc[f]
    BY <1>6 DEF ProbeOut, fileVars, raceVars, TypeOK
  <2>2. e \notin lost /\ e # remover
    BY <2>1
  <2>3. QED
    BY <2>1, <2>2 DEF TypeOK
<1>7. ASSUME NEW e \in Emitters, RemoveEmpty(e) PROVE RaceIsFair'
  <2>1. /\ pc[e] = "rmdir" /\ pc'[e] = "rename" /\ remover' = e
        /\ lost' = lost /\ out = "empty" /\ out' = "absent" /\ e \notin lost
        /\ \A f \in Emitters \ {e} : pc'[f] = pc[f]
    BY <1>7 DEF RemoveEmpty, TypeOK
  <2>2. QED
    BY <2>1 DEF TypeOK
<1>8. ASSUME NEW e \in Emitters, Rename(e) PROVE RaceIsFair'
  <2>1. out' = e /\ e # "absent" /\ pc'[e] = "done" /\ remover' = remover /\ lost' = lost
        /\ pc[e] = "rename" /\ \A f \in Emitters \ {e} : pc'[f] = pc[f]
    BY <1>8 DEF Rename, raceVars, TypeOK
  <2>2. QED
    BY <2>1 DEF TypeOK
<1>9. ASSUME NEW e \in Emitters, pc[e] \in Running, Refuse(e) PROVE RaceIsFair'
  <2>1. /\ pc'[e] = "refused" /\ UNCHANGED <<out, remover, lost>>
        /\ \A f \in Emitters \ {e} : pc'[f] = pc[f]
    BY <1>9 DEF Refuse, Abandon, fileVars, TypeOK
  <2>2. QED
    BY <1>9, <2>1 DEF TypeOK, Running
<1>10. ASSUME NEW e \in Emitters, LoseRmdir(e) \/ LoseRename(e) PROVE RaceIsFair'
  <2>1. /\ pc'[e] = "refused" /\ UNCHANGED <<out, remover>> /\ lost' = lost \cup {e}
        /\ \A f \in Emitters \ {e} : pc'[f] = pc[f]
        /\ \/ pc[e] = "rmdir" /\ out # "empty"
           \/ pc[e] = "rename" /\ out \notin Free
    BY <1>10 DEF LoseRmdir, LoseRename, LosesOut, Abandon, Renamable, fileVars, TypeOK
  <2>2. out = "absent" => e # remover
    BY <2>1
  <2>3. QED
    BY <2>1, <2>2 DEF TypeOK
<1>11. QED
  BY <1>1, <1>2, <1>3, <1>5, <1>6, <1>7, <1>8, <1>9, <1>10
     DEF Next, Others, Emit, RefuseOut, RefuseContract, RefuseRoot, RefuseChanged, RefuseStaged,
         Fail, Running

\* A step after which an emission is refused for --out.
LEMMA LossIsFair ==
    ASSUME TypeOK, RaceIsFair, [Next]_vars, NEW e \in lost' \ lost
    PROVE  \/ out \notin Free
           \/ remover = "others"
           \/ /\ remover \in Emitters \ lost'
              /\ pc[remover] \in {"rename", "refused", "crashed"}
<1>1. PICK f \in Emitters : LoseRmdir(f) \/ LoseRename(f)
  BY DEF Next, Others, Emit, vars, raceVars, EditCheckout, ChangeStaged, UseOut, Crash,
         ReadAbi, AcceptOut, RefuseOut, ObserveBefore, ObserveAfter, ReadContract,
         RefuseContract, HashLocks, MakeStaging, CopyAndHash, Inspect, RefuseRoot, Recheck,
         RefuseStaged, Inspected, Agree, RefuseChanged, WriteManifest, ProbeOut, RemoveEmpty,
         Rename, Fail, Refuse
<1>2. /\ lost' = lost \cup {f}
      /\ \/ pc[f] = "rmdir" /\ out # "empty"
         \/ pc[f] = "rename" /\ out \notin Free
  BY <1>1 DEF LoseRmdir, LoseRename, LosesOut, Renamable
<1>3. CASE out \in Free
  <2>1. pc[f] = "rmdir" /\ out = "absent"
    BY <1>2, <1>3 DEF Free
  <2>2. RemoverStands
    BY <2>1 DEF RaceIsFair
  <2>3. QED
    BY <1>2, <2>1, <2>2 DEF RemoverStands
<1>4. QED
  BY <1>3

\* Of emissions that race for --out, one that loses it lost it to what is there,
\* to somebody else who removed it, or to an emission that removed the empty
\* directory and has not lost it since.
THEOREM OutIsLostToATaker == Spec => LostOnlyToATaker
<1>1. Init => RaceIsFair
  BY LocalAssumption DEF Init, RaceIsFair, RemoverStands
<1>2. TypeOK /\ RaceIsFair /\ [Next]_vars => RaceIsFair'
  BY NextKeepsRaceFair
<1> DEFINE Fairly ==
        \A e \in lost' \ lost :
            \/ out \notin Free
            \/ remover = "others"
            \/ /\ remover \in Emitters \ lost'
               /\ pc[remover] \in {"rename", "refused", "crashed"}
<1>3. TypeOK /\ RaceIsFair /\ [Next]_vars => [Fairly]_vars
  BY LossIsFair
<1> HIDE DEF Fairly
<1>4. Spec => [][Fairly]_vars
  BY <1>1, <1>2, <1>3, TypeCorrect, PTL DEF Spec
<1>5. QED
  BY <1>4 DEF Fairly, LostOnlyToATaker
=============================================================================
