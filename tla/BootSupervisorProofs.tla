------------------------ MODULE BootSupervisorProofs ------------------------
(* What run_until_ready promises about its verdict and its child, for every   *)
(* bound on the console, every read size and every combination of options;    *)
(* and that main() of e2e_boot.py makes one call of it, so that all of this   *)
(* holds of that call, and writes a witness that tells of it.                 *)
EXTENDS E2EBoot, TLAPS

\* The line that ends at e decides nothing.
Undecided(e) == ~Refuses(0, e) /\ ~Readies(0, e)

\* The supervisor is still in its loop exactly while there is no verdict.
LoopHasNoVerdict == pc \in {"check", "read", "poll"} <=> verdict = "none"

\* The pending text starts at the start of a line, or the console has ended.
StartsALine ==
    verdict = "none" =>
        start = 0 \/ out[start] = "nl" \/ (~writable /\ start = Len(out))

\* No line that was taken out of the pending text decided anything.
TakenUndecided ==
    verdict = "none" =>
        \A i \in 1..start : out[i] = "nl" \/ i = start => Undecided(i)

\* What the last read said about the pipe.
ChunkMeaning ==
    /\ chunk # "data" => read = sawLen
    /\ chunk = "eof" => ~writable /\ read = Len(out)

\* Past the wait the child has been collected.
Collected == pc \in {"close", "done"} => child = "exited" /\ reaped

BootInv ==
    /\ TypeOK /\ LoopHasNoVerdict /\ StartsALine /\ TakenUndecided
    /\ ChunkMeaning /\ Collected
    /\ ReadyIsEarned /\ RefusalIsEarned /\ ExitVerdictIsDrained

-----------------------------------------------------------------------------
\* Writing more does not change what an earlier line says.
LEMMA EarlierLinesStand ==
    ASSUME TypeOK, NEW lo \in Nat, NEW e \in 0..Len(out), call' = call,
           \A k \in 1..Len(out) : out'[k] = out[k]
    PROVE  /\ Refuses(lo, e)' = Refuses(lo, e)
           /\ Readies(lo, e)' = Readies(lo, e)
<1>1. \A k \in (lo + 1)..e : k \in 1..Len(out) /\ out'[k] = out[k]
  BY DEF TypeOK
<1>2. \A k \in (lo + 1)..e : InLine(lo, k, e)' = InLine(lo, k, e)
  BY <1>1 DEF InLine, TypeOK
<1>3. QED
  BY <1>1, <1>2 DEF Refuses, Readies

\* A line means the same read from its own start or from the start of the console.
LEMMA LinesStartAnywhere ==
    ASSUME TypeOK, NEW lo \in 0..Len(out), lo = 0 \/ out[lo] = "nl",
           NEW e \in (lo + 1)..Len(out)
    PROVE  /\ Refuses(lo, e) = Refuses(0, e)
           /\ Readies(lo, e) = Readies(0, e)
<1>1. ASSUME NEW k \in 1..e, InLine(0, k, e) PROVE k \in (lo + 1)..e
  BY <1>1 DEF InLine, TypeOK
<1>2. \A k \in (lo + 1)..e : k \in 1..e /\ InLine(lo, k, e) = InLine(0, k, e)
  BY DEF InLine, TypeOK
<1>3. Refuses(lo, e) = Refuses(0, e)
  BY <1>1, <1>2 DEF Refuses
<1>4. Readies(lo, e) = Readies(0, e)
  BY <1>1, <1>2 DEF Readies
<1>5. QED
  BY <1>3, <1>4

-----------------------------------------------------------------------------
LEMMA InitEstablishesBootInv == Init => BootInv
<1> SUFFICES ASSUME Init PROVE BootInv
  OBVIOUS
<1>1. TypeOK
  <2>1. out \in Seq(Fragments) /\ Len(out) = 0
    BY DEF Init
  <2>2. read \in 0..Len(out) /\ start \in 0..read /\ sawLen \in 0..Len(out)
    BY <2>1 DEF Init
  <2>3. QED
    BY <2>1, <2>2 DEF Init, TypeOK, Calls, Places, Verdicts
<1>2. LoopHasNoVerdict /\ StartsALine /\ TakenUndecided /\ ChunkMeaning /\ Collected
  BY DEF Init, LoopHasNoVerdict, StartsALine, TakenUndecided, ChunkMeaning, Collected
<1>3. ReadyIsEarned /\ RefusalIsEarned /\ ExitVerdictIsDrained
  BY DEF Init, ReadyIsEarned, RefusalIsEarned, ExitVerdictIsDrained
<1>4. QED
  BY <1>1, <1>2, <1>3 DEF BootInv

-----------------------------------------------------------------------------
\* A step that leaves what the supervisor has read and decided alone, and at
\* most adds to the console, closes it or ends the child.
QuietStep ==
    /\ out' \in Seq(Fragments) /\ Len(out) <= Len(out')
    /\ \A k \in 1..Len(out) : out'[k] = out[k]
    /\ ~writable => out' = out /\ writable' = FALSE
    /\ writable' \in BOOLEAN
    /\ child' \in {"running", "exited"} /\ (child = "exited" => child' = "exited")
    /\ UNCHANGED <<call, killed, reaped, pc, read, start, chunk, closed, verdict, sawLen>>
    /\ expired' \in BOOLEAN

LEMMA QuietStepKeepsBootInv == BootInv /\ QuietStep => BootInv'
<1> SUFFICES ASSUME BootInv, QuietStep PROVE BootInv'
  OBVIOUS
<1>1. TypeOK'
  BY DEF BootInv, QuietStep, TypeOK
<1>2. \A e \in 1..Len(out) :
         /\ out'[e] = out[e]
         /\ Refuses(0, e)' = Refuses(0, e) /\ Readies(0, e)' = Readies(0, e)
  BY EarlierLinesStand DEF BootInv, QuietStep, TypeOK
<1>3. \A e \in 1..(read + 1) : UndecidedBefore(e)' = UndecidedBefore(e)
  <2> TAKE e \in 1..(read + 1)
  <2>1. \A i \in 1..(e - 1) : i \in 1..Len(out)
    BY DEF BootInv, TypeOK
  <2>2. QED
    BY <1>2, <2>1 DEF UndecidedBefore
<1>4. LoopHasNoVerdict' /\ StartsALine' /\ ChunkMeaning' /\ Collected'
  BY DEF BootInv, QuietStep, TypeOK, LoopHasNoVerdict, StartsALine, ChunkMeaning, Collected
<1>5. TakenUndecided'
  BY <1>2 DEF TakenUndecided, Undecided, BootInv, QuietStep, TypeOK
<1>6. ReadyIsEarned'
  <2>1. CASE verdict = "ready"
    <3>1. PICK e \in 1..read : /\ Readies(0, e) /\ ~Refuses(0, e) /\ UndecidedBefore(e)
                               /\ out[e] # "nl" => e = read /\ (~writable \/ child = "exited")
      BY <2>1 DEF BootInv, ReadyIsEarned
    <3>2. e \in 1..Len(out) /\ e \in 1..(read + 1)
      BY DEF BootInv, TypeOK
    <3>3. Readies(0, e)' /\ ~Refuses(0, e)' /\ UndecidedBefore(e)'
      BY <3>1, <3>2, <1>2, <1>3
    <3>4. out'[e] # "nl" => e = read' /\ (~writable' \/ child' = "exited")
      BY <3>1, <3>2 DEF QuietStep
    <3>5. QED
      BY <3>3, <3>4 DEF ReadyIsEarned, QuietStep
  <2>2. CASE verdict # "ready"
    BY <2>2 DEF ReadyIsEarned, QuietStep
  <2>3. QED
    BY <2>1, <2>2
<1>7. RefusalIsEarned'
  <2>1. CASE verdict = "refused"
    <3>1. PICK e \in 1..read : Refuses(0, e) /\ UndecidedBefore(e)
      BY <2>1 DEF BootInv, RefusalIsEarned
    <3>2. e \in 1..Len(out) /\ e \in 1..(read + 1)
      BY DEF BootInv, TypeOK
    <3>3. Refuses(0, e)' /\ UndecidedBefore(e)'
      BY <3>1, <3>2, <1>2, <1>3
    <3>4. QED
      BY <3>3 DEF RefusalIsEarned, QuietStep
  <2>2. CASE verdict # "refused"
    BY <2>2 DEF RefusalIsEarned, QuietStep
  <2>3. QED
    BY <2>1, <2>2
<1>8. ExitVerdictIsDrained'
  <2>1. read > 0 => read \in 1..Len(out)
    BY DEF BootInv, TypeOK
  <2>2. read + 1 \in 1..(read + 1)
    BY DEF BootInv, TypeOK
  <2>3. QED
    BY <1>2, <1>3, <2>1, <2>2 DEF ExitVerdictIsDrained, BootInv, QuietStep
<1>9. QED
  BY <1>1, <1>4, <1>5, <1>6, <1>7, <1>8 DEF BootInv

-----------------------------------------------------------------------------
(* What a poll finds in the lines it takes out of the pending text.           *)

LEMMA PendingLinesAreLines ==
    ASSUME BootInv, pc = "poll", NEW final \in BOOLEAN, NEW e \in LineEnds(final)
    PROVE  /\ e \in 1..Len(out)
           /\ Refuses(start, e) = Refuses(0, e) /\ Readies(start, e) = Readies(0, e)
<1>1. start \in 0..Len(out) /\ e \in (start + 1)..Len(out)
  BY DEF LineEnds, BootInv, TypeOK
<1>2. start = 0 \/ out[start] = "nl"
  BY <1>1 DEF BootInv, LoopHasNoVerdict, StartsALine, TypeOK
<1>3. QED
  BY <1>1, <1>2, LinesStartAnywhere DEF BootInv

\* No line up to e decided before it, if none of this turn's lines did.
LEMMA NothingDecidedEarlier ==
    ASSUME BootInv, pc = "poll", NEW final \in BOOLEAN, NEW e \in 1..(read + 1),
           \A i \in Decisive(final) : e <= i
    PROVE  UndecidedBefore(e)
<1> SUFFICES ASSUME NEW i \in 1..(e - 1), out[i] = "nl" PROVE Undecided(i)
  BY DEF UndecidedBefore, Undecided
<1>1. CASE i <= start
  BY <1>1 DEF BootInv, TypeOK, LoopHasNoVerdict, TakenUndecided
<1>2. CASE i > start
  <2>1. i \in LineEnds(final)
    BY <1>2 DEF LineEnds, BootInv, TypeOK
  <2>2. i \notin Decisive(final)
    BY DEF BootInv, TypeOK
  <2>3. QED
    BY <2>1, <2>2, PendingLinesAreLines DEF Decisive, Undecided
<1>3. QED
  BY <1>1, <1>2 DEF BootInv, TypeOK

LEMMA PollsKeepsBootInv == BootInv /\ Polls => BootInv'
<1> SUFFICES ASSUME BootInv, Polls PROVE BootInv'
  OBVIOUS
<1> DEFINE F == Finished
<1>1. /\ call' = call /\ out' = out /\ writable' = writable /\ child' = child /\ read' = read
      /\ chunk' = chunk /\ sawLen' = sawLen /\ killed' = killed /\ expired' = expired
      /\ pc = "poll" /\ verdict = "none" /\ F \in BOOLEAN
  BY DEF Polls, childVars, BootInv, LoopHasNoVerdict, Finished
<1>2. PICK p \in start..read : PendingFrom(F, p) /\ start' = p
  BY DEF Polls
<1>3. \A lo, e : Refuses(lo, e)' = Refuses(lo, e) /\ Readies(lo, e)' = Readies(lo, e)
  BY <1>1 DEF Refuses, Readies, InLine
<1>4. \A e : UndecidedBefore(e)' = UndecidedBefore(e) /\ Undecided(e)' = Undecided(e)
  BY <1>1, <1>3 DEF UndecidedBefore, Undecided
<1>5. ChunkMeaning' /\ start' \in 0..read' /\ reaped' \in BOOLEAN
  BY <1>1, <1>2 DEF BootInv, TypeOK, ChunkMeaning, Polls
<1>6. F => chunk # "data"
  BY DEF Finished
<1>7. CASE \E e \in Decisive(F) : FirstDecisive(F, e) /\ Decides(e)
  <2>1. PICK e \in Decisive(F) : FirstDecisive(F, e) /\ Decides(e)
    BY <1>7
  <2>2. e \in LineEnds(F) /\ e \in 1..read /\ e \in 1..(read + 1)
    BY <2>1 DEF Decisive, LineEnds, BootInv, TypeOK
  <2>3. UndecidedBefore(e)
    BY <1>1, <2>1, <2>2, NothingDecidedEarlier DEF FirstDecisive
  <2>4. Refuses(start, e) = Refuses(0, e) /\ Readies(start, e) = Readies(0, e)
    BY <1>1, <2>2, PendingLinesAreLines
  <2>5. Refuses(0, e) \/ Readies(0, e)
    BY <2>1, <2>4 DEF Decisive
  <2>6. out[e] # "nl" => e = read /\ (~writable \/ child = "exited")
    BY <2>2 DEF LineEnds, Finished, BootInv, ChunkMeaning
  <2>7. pc' = "terminate" /\ closed' = closed /\ verdict' \in {"ready", "refused"}
    BY <2>1 DEF Decides
  <2>8. ReadyIsEarned'
    BY <1>1, <1>3, <1>4, <2>1, <2>2, <2>3, <2>4, <2>5, <2>6 DEF ReadyIsEarned, Decides
  <2>9. RefusalIsEarned'
    BY <1>1, <1>3, <1>4, <2>1, <2>2, <2>3, <2>4 DEF RefusalIsEarned, Decides
  <2>10. TypeOK'
    BY <1>1, <1>5, <2>7 DEF TypeOK, BootInv, Places, Verdicts
  <2>11. LoopHasNoVerdict' /\ StartsALine' /\ TakenUndecided' /\ Collected' /\ ExitVerdictIsDrained'
    BY <2>7 DEF LoopHasNoVerdict, StartsALine, TakenUndecided, Collected, ExitVerdictIsDrained
  <2>12. QED
    BY <1>5, <2>8, <2>9, <2>10, <2>11 DEF BootInv
<1>8. CASE /\ Decisive(F) = {} /\ F /\ child = "exited"
           /\ verdict' = "exited" /\ pc' = "terminate" /\ UNCHANGED closed
  <2>1. read = sawLen
    BY <1>6, <1>8 DEF BootInv, ChunkMeaning
  <2>2. UndecidedBefore(read + 1)
    <3>1. read + 1 \in 1..(read + 1)
      BY DEF BootInv, TypeOK
    <3>2. QED
      BY <1>1, <1>8, <3>1, NothingDecidedEarlier
  <2>3. ASSUME read > 0 PROVE Undecided(read)
    <3>1. CASE read = start
      BY <1>1, <2>3, <3>1 DEF BootInv, TypeOK, TakenUndecided
    <3>2. CASE read > start
      <4>1. read \in LineEnds(F)
        BY <1>8, <3>2 DEF LineEnds, BootInv, TypeOK
      <4>2. QED
        BY <1>1, <1>8, <4>1, PendingLinesAreLines DEF Decisive, Undecided
    <3>3. QED
      BY <3>1, <3>2 DEF BootInv, TypeOK
  <2>4. ExitVerdictIsDrained'
    BY <1>1, <1>4, <1>8, <2>1, <2>2, <2>3 DEF ExitVerdictIsDrained, Undecided
  <2>5. TypeOK'
    BY <1>1, <1>5, <1>8 DEF TypeOK, BootInv, Places, Verdicts
  <2>6. /\ LoopHasNoVerdict' /\ StartsALine' /\ TakenUndecided' /\ Collected'
        /\ ReadyIsEarned' /\ RefusalIsEarned'
    BY <1>8 DEF LoopHasNoVerdict, StartsALine, TakenUndecided, Collected,
                ReadyIsEarned, RefusalIsEarned
  <2>7. QED
    BY <1>5, <2>4, <2>5, <2>6 DEF BootInv
<1>9. CASE /\ Decisive(F) = {} /\ ~(F /\ child = "exited")
           /\ closed' = (closed \/ F) /\ pc' = "check" /\ UNCHANGED verdict
  <2>1. StartsALine'
    <3>1. CASE p = start
      BY <1>1, <1>2, <1>9, <3>1 DEF StartsALine, BootInv
    <3>2. CASE p \in LineEnds(F)
      BY <1>1, <1>2, <1>9, <3>2 DEF StartsALine, LineEnds, Finished, BootInv, ChunkMeaning
    <3>3. QED
      BY <1>2, <3>1, <3>2 DEF PendingFrom
  <2>2. TakenUndecided'
    <3>1. SUFFICES ASSUME NEW i \in 1..p, out[i] = "nl" \/ i = p PROVE Undecided(i)
      BY <1>1, <1>2, <1>4 DEF TakenUndecided
    <3>2. CASE i <= start
      BY <1>1, <1>2, <3>1, <3>2 DEF BootInv, TypeOK, TakenUndecided
    <3>3. CASE i > start
      <4>1. i \in LineEnds(F)
        BY <1>2, <3>1, <3>3 DEF PendingFrom, LineEnds, BootInv, TypeOK
      <4>2. QED
        BY <1>1, <1>9, <4>1, PendingLinesAreLines DEF Decisive, Undecided
    <3>4. QED
      BY <1>2, <3>2, <3>3 DEF BootInv, TypeOK
  <2>3. TypeOK'
    BY <1>1, <1>5, <1>9 DEF TypeOK, BootInv, Places
  <2>4. /\ LoopHasNoVerdict' /\ Collected' /\ ExitVerdictIsDrained'
        /\ ReadyIsEarned' /\ RefusalIsEarned'
    BY <1>1, <1>9 DEF LoopHasNoVerdict, Collected, ExitVerdictIsDrained, ReadyIsEarned,
                      RefusalIsEarned
  <2>5. QED
    BY <1>5, <2>1, <2>2, <2>3, <2>4 DEF BootInv
<1>10. QED
  BY <1>7, <1>8, <1>9 DEF Polls

-----------------------------------------------------------------------------
(* The other steps of the supervisor.                                         *)

\* A step that moves pc inside the finally block, or into it on a timeout.
LeavingStep ==
    /\ UNCHANGED <<call, out, writable, child, read, start, chunk, closed, expired, sawLen>>
    /\ killed' \in BOOLEAN /\ reaped' \in BOOLEAN
    /\ pc' \in {"terminate", "waitTerm", "waitKill", "close", "done"}
    /\ \/ verdict' = verdict /\ verdict # "none"
       \/ verdict' = "timeout"
    /\ pc' \in {"close", "done"} => child' = "exited" /\ reaped'

LEMMA LeavingStepKeepsBootInv == BootInv /\ LeavingStep => BootInv'
<1> SUFFICES ASSUME BootInv, LeavingStep PROVE BootInv'
  OBVIOUS
<1>1. \A lo, e : Refuses(lo, e)' = Refuses(lo, e) /\ Readies(lo, e)' = Readies(lo, e)
  BY DEF Refuses, Readies, InLine, LeavingStep
<1>2. \A e : UndecidedBefore(e)' = UndecidedBefore(e)
  BY <1>1 DEF UndecidedBefore, LeavingStep
<1>3. TypeOK'
  BY DEF BootInv, LeavingStep, TypeOK, Places, Verdicts
<1>4. LoopHasNoVerdict' /\ StartsALine' /\ TakenUndecided' /\ ChunkMeaning' /\ Collected'
  BY DEF BootInv, LeavingStep, LoopHasNoVerdict, StartsALine, TakenUndecided,
         ChunkMeaning, Collected
<1>5. ReadyIsEarned' /\ RefusalIsEarned' /\ ExitVerdictIsDrained'
  BY <1>1, <1>2 DEF BootInv, LeavingStep, ReadyIsEarned, RefusalIsEarned,
                    ExitVerdictIsDrained
<1>6. QED
  BY <1>3, <1>4, <1>5 DEF BootInv

LEMMA ReadsKeepsBootInv == BootInv /\ Reads => BootInv'
<1> SUFFICES ASSUME BootInv, Reads PROVE BootInv'
  OBVIOUS
<1>1. pc = "read" /\ verdict = "none" /\ verdict' = "none" /\ pc' = "poll"
  BY DEF Reads, BootInv, LoopHasNoVerdict
<1>2. read' \in 0..Len(out) /\ read <= read'
  BY BootAssumption DEF Reads, Smaller, BootInv, TypeOK
<1>3. \A lo, e : Refuses(lo, e)' = Refuses(lo, e) /\ Readies(lo, e)' = Readies(lo, e)
  BY DEF Refuses, Readies, InLine, Reads, childVars
<1>4. TypeOK'
  BY <1>1, <1>2 DEF BootInv, Reads, TypeOK, childVars, Places
<1>5. ChunkMeaning'
  BY <1>2, BootAssumption DEF ChunkMeaning, Reads, childVars, BootInv, TypeOK, Smaller
<1>6. LoopHasNoVerdict' /\ StartsALine' /\ TakenUndecided' /\ Collected'
  BY <1>1, <1>3 DEF BootInv, Reads, childVars, LoopHasNoVerdict, StartsALine,
                    TakenUndecided, Undecided, Collected
<1>7. ReadyIsEarned' /\ RefusalIsEarned' /\ ExitVerdictIsDrained'
  BY <1>1 DEF ReadyIsEarned, RefusalIsEarned, ExitVerdictIsDrained
<1>8. QED
  BY <1>4, <1>5, <1>6, <1>7 DEF BootInv

LEMMA WaitsKeepsBootInv == BootInv /\ Waits => BootInv'
<1> SUFFICES ASSUME BootInv, Waits PROVE BootInv'
  OBVIOUS
<1>1. verdict = "none" /\ verdict' = "none" /\ pc' = "read"
  BY DEF Waits, BootInv, LoopHasNoVerdict
<1>2. \A lo, e : Refuses(lo, e)' = Refuses(lo, e) /\ Readies(lo, e)' = Readies(lo, e)
  BY DEF Refuses, Readies, InLine, Waits, childVars
<1>3. TypeOK'
  BY <1>1 DEF BootInv, Waits, TypeOK, childVars, loopVars, Places
<1>4. LoopHasNoVerdict' /\ StartsALine' /\ TakenUndecided' /\ ChunkMeaning' /\ Collected'
  BY <1>1, <1>2 DEF BootInv, Waits, childVars, loopVars, LoopHasNoVerdict, StartsALine,
                    TakenUndecided, Undecided, ChunkMeaning, Collected
<1>5. ReadyIsEarned' /\ RefusalIsEarned' /\ ExitVerdictIsDrained'
  BY <1>1 DEF ReadyIsEarned, RefusalIsEarned, ExitVerdictIsDrained
<1>6. QED
  BY <1>3, <1>4, <1>5 DEF BootInv

LEMMA NextKeepsBootInv == BootInv /\ [Next]_vars => BootInv'
<1> SUFFICES ASSUME BootInv, [Next]_vars PROVE BootInv'
  OBVIOUS
<1>1. ASSUME NEW f \in Fragments, ChildWrites(f) PROVE BootInv'
  <2>1. out \in Seq(Fragments) /\ out' = Append(out, f)
    BY <1>1 DEF ChildWrites, BootInv, TypeOK
  <2>2. /\ out' \in Seq(Fragments) /\ Len(out) <= Len(out')
        /\ \A k \in 1..Len(out) : out'[k] = out[k]
    BY <2>1
  <2>3. QuietStep
    BY <1>1, <2>2 DEF ChildWrites, QuietStep, BootInv, TypeOK, loopVars
  <2>4. QED
    BY <2>3, QuietStepKeepsBootInv
<1>2. CASE ClosesOutput
  <2>1. writable' \in BOOLEAN /\ (~writable => writable' = FALSE)
    BY <1>2, Zenon DEF ClosesOutput
  <2>2. out' = out /\ out \in Seq(Fragments)
    BY <1>2 DEF ClosesOutput, BootInv, TypeOK
  <2>3. QuietStep
    BY <1>2, <2>1, <2>2 DEF ClosesOutput, QuietStep, BootInv, TypeOK, loopVars
  <2>4. QED
    BY <2>3, QuietStepKeepsBootInv
<1>3. CASE ChildExits
  <2>1. writable' \in BOOLEAN /\ (~writable => writable' = FALSE)
    BY <1>3, BootAssumption, Zenon DEF ChildExits, BootInv, TypeOK, BootAssumption
  <2>2. out' = out /\ out \in Seq(Fragments)
    BY <1>3 DEF ChildExits, BootInv, TypeOK
  <2>3. QuietStep
    BY <1>3, <2>1, <2>2 DEF ChildExits, QuietStep, BootInv, TypeOK, loopVars
  <2>4. QED
    BY <2>3, QuietStepKeepsBootInv
<1>4. CASE DeadlinePasses
  BY <1>4, QuietStepKeepsBootInv
     DEF DeadlinePasses, QuietStep, BootInv, TypeOK, childVars, loopVars
<1>5. CASE TimesOut
  BY <1>5, LeavingStepKeepsBootInv
     DEF TimesOut, LeavingStep, BootInv, TypeOK, childVars, loopVars
<1>6. CASE Waits
  BY <1>6, WaitsKeepsBootInv
<1>7. CASE Reads
  BY <1>7, ReadsKeepsBootInv
<1>8. CASE Polls
  BY <1>8, PollsKeepsBootInv
<1>9. CASE Terminates
  BY <1>9, LeavingStepKeepsBootInv
     DEF Terminates, LeavingStep, BootInv, TypeOK, LoopHasNoVerdict, childVars, loopVars
<1>10. CASE WaitSucceeds
  BY <1>10, LeavingStepKeepsBootInv
     DEF WaitSucceeds, LeavingStep, BootInv, TypeOK, LoopHasNoVerdict, childVars, loopVars
<1>11. CASE Kills
  BY <1>11, LeavingStepKeepsBootInv
     DEF Kills, LeavingStep, BootInv, TypeOK, LoopHasNoVerdict, childVars, loopVars
<1>12. CASE Closes
  BY <1>12, LeavingStepKeepsBootInv
     DEF Closes, LeavingStep, BootInv, TypeOK, LoopHasNoVerdict, Collected, childVars,
         loopVars
<1>13. CASE UNCHANGED vars
  BY <1>13, QuietStepKeepsBootInv DEF QuietStep, BootInv, TypeOK, vars
<1>14. QED
  BY <1>1, <1>2, <1>3, <1>4, <1>5, <1>6, <1>7, <1>8, <1>9, <1>10, <1>11, <1>12, <1>13
     DEF Next, Child, Supervisor, Returned

-----------------------------------------------------------------------------
\* BootInv holds in every state of run_until_ready.
THEOREM BootInvariant == Spec => []BootInv
BY InitEstablishesBootInv, NextKeepsBootInv, PTL DEF Spec

\* The console and the positions the supervisor keeps in it stay in range.
THEOREM TypeCorrect == Spec => []TypeOK
BY BootInvariant, PTL DEF BootInv

\* Success was earned by a marker line that no refusal precedes, however reads
\* cut the console into chunks.
THEOREM ReadyTellsTheConsole == Spec => []ReadyIsEarned
BY BootInvariant, PTL DEF BootInv

\* A refusal was earned by a refusal line that no marker precedes.
THEOREM RefusalTellsTheConsole == Spec => []RefusalIsEarned
BY BootInvariant, PTL DEF BootInv

\* An early exit is reported of a console that was drained without either.
THEOREM ExitTellsTheConsole == Spec => []ExitVerdictIsDrained
BY BootInvariant, PTL DEF BootInv

\* run_until_ready returns or raises only after the VMM was collected.
THEOREM ChildIsReaped == Spec => []NoOrphan
<1>1. BootInv => NoOrphan
  BY DEF BootInv, Collected, NoOrphan
<1>2. QED
  BY <1>1, BootInvariant, PTL
-----------------------------------------------------------------------------

\* Nothing that main() does around the call is a step of the call.
LEMMA MainStepsAreCalls ==
    ASSUME [MainNext]_bootVars
    PROVE  [Next]_vars
<1>1. CASE Calling
  BY <1>1 DEF Calling, Next, Child
<1>2. CASE Main
  BY <1>2 DEF Main, Plans, _require_file, Copies, Commands, Leaves, write_witness,
              Aborts, Goes
<1>3. CASE HostChanges \/ Ended \/ UNCHANGED bootVars
  BY <1>3 DEF HostChanges, Ended, bootVars
<1>4. QED
  BY <1>1, <1>2, <1>3 DEF MainNext

\* The call that main(), or another program, makes is one of run_until_ready.
THEOREM MainMakesACall == MainSpec => Spec
<1>1. MainInit => Init
  BY DEF MainInit
<1>2. QED
  BY <1>1, MainStepsAreCalls, PTL DEF MainSpec, Spec

-----------------------------------------------------------------------------
\* This invocation's witness appears last, after a boot that was successful.
Successful == verdict = "ready" /\ reaped /\ drive = "copy" /\ ~temp

WitnessIsLast ==
    /\ step = "boot" => drive = "copy"
    /\ step = "witness" => Successful
    /\ witness.from = "this boot" => step = "ok" /\ Successful /\ witness.devices = launched

LEMMA NextKeepsWitnessIsLast ==
    ASSUME WitnessIsLast, NoOrphan, [MainNext]_bootVars
    PROVE  WitnessIsLast'
<1> USE DEF WitnessIsLast, Successful
<1>1. CASE Calling
  BY <1>1 DEF Calling, mainVars
<1>2. CASE Plans \/ _require_file \/ Copies \/ Commands
  BY <1>2 DEF Plans, _require_file, Copies, Commands, Goes, vars
<1>3. CASE Leaves
  BY <1>3 DEF Leaves, Goes, vars, NoOrphan
<1>4. CASE write_witness
  <2>1. step = "witness" /\ step' = "ok" /\ UNCHANGED <<verdict, reaped, drive, temp, launched>>
    BY <1>4 DEF write_witness, Goes, vars
  <2>2. Successful'
    BY <2>1, Zenon
  <2>3. witness' = witness \/ witness' = [from |-> "this boot", devices |-> launched]
    BY <1>4 DEF write_witness, executed_plan
  <2>4. witness'.from = "this boot" => witness'.devices = launched'
    <3>1. witness.from # "this boot"
      BY <2>1
    <3>2. CASE witness' = witness
      BY <3>1, <3>2
    <3>3. CASE witness' = [from |-> "this boot", devices |-> launched]
      BY <2>1, <3>3
    <3>4. QED
      BY <2>3, <3>2, <3>3
  <2>5. QED
    BY <2>1, <2>2, <2>4 DEF Successful
<1>5. CASE Aborts
  BY <1>5 DEF Aborts, Goes, Steps, vars
<1>6. CASE HostChanges \/ Ended \/ UNCHANGED bootVars
  <2>1. UNCHANGED <<step, verdict, reaped, drive, temp, witness, launched>>
    BY <1>6 DEF HostChanges, Ended, bootVars, mainVars, vars
  <2>2. Successful' = Successful
    BY <2>1, Zenon
  <2>3. QED
    BY <2>1, <2>2
<1>7. QED
  BY <1>1, <1>2, <1>3, <1>4, <1>5, <1>6 DEF MainNext, Main

\* A witness that this invocation wrote tells of its own boot: the marker was
\* seen, the VMM was collected, and the devices are those of the command that
\* was run, whatever the host offered when the plan was made.
THEOREM WitnessIsOfTheBoot == MainSpec => []WitnessTellsTheBoot
<1>1. MainInit => WitnessIsLast
  <2>1. MainInit => step = "plan" \/ step = "elsewhere"
    BY Zenon DEF MainInit
  <2>2. MainInit => witness = [from |-> "an earlier boot", devices |-> {}]
    BY Zenon DEF MainInit
  <2>3. ASSUME witness = [from |-> "an earlier boot", devices |-> {}]
        PROVE  witness.from # "this boot"
    BY <2>3
  <2>4. QED
    BY <2>1, <2>2, <2>3 DEF WitnessIsLast
<1>2. WitnessIsLast /\ NoOrphan /\ [MainNext]_bootVars => WitnessIsLast'
  BY NextKeepsWitnessIsLast
<1>3. WitnessIsLast => WitnessTellsTheBoot
  BY DEF WitnessIsLast, Successful, WitnessTellsTheBoot
<1>4. QED
  BY <1>1, <1>2, <1>3, MainMakesACall, ChildIsReaped, PTL DEF MainSpec
=============================================================================
