------------------------ MODULE BrowserSmokeProofs --------------------------
(* What the status of run_test says of the browser's log, for a log and a     *)
(* chunk of any length.                                                       *)
EXTENDS BrowserSmoke, TLAPS

\* The loop runs only while there is no status.
LoopHasNoStatus == pc \in Looping \cup {"server", "chrome"} => status = "none"

\* Nobody holds the pipe before Chromium is started.
NoLogBeforeStart == pc \in {"server", "chrome"} => ~writable

\* What was not taken starts at the start of a line, or is nothing for ever.
StartsALine ==
    pc \in Looping => \/ taken = 0 \/ out[taken] = "nl"
                      \/ ~writable /\ taken = Len(out)

\* No line that was taken had a result.
TakenUndecided == status = "none" => Says(0, taken) = {}

\* The status is that of a line whose start m is known, and nothing before m
\* had a result.
EarnedFrom(m, e) ==
    /\ m = 0 \/ out[m] = "nl"
    /\ \A i \in (m + 1)..(e - 1) : out[i] # "nl"
    /\ status = Judge(m, e) /\ Says(0, m) = {}
    /\ out[e] # "nl" => ~writable /\ e = Len(out)

ResultHasALine ==
    /\ status \in Results => \E m \in Nat : \E e \in (m + 1)..taken : EarnedFrom(m, e)
    /\ status \in {"TIMEOUT", "CHROME_EXITED"} => Says(0, taken) = {}

SmokeInv ==
    /\ TypeOK /\ LoopHasNoStatus /\ NoLogBeforeStart
    /\ StartsALine /\ TakenUndecided /\ ResultHasALine

-----------------------------------------------------------------------------
\* A line begins after the newline, or the beginning, before which no other is.
LEMMA LineStarts ==
    ASSUME NEW m \in Nat, NEW e \in Nat, m < e, m = 0 \/ out[m] = "nl",
           \A i \in (m + 1)..(e - 1) : out[i] # "nl"
    PROVE  StartOf(e) = m
<1>1. CASE m = 0
  <2>1. LineBefore(e) = {}
    BY <1>1 DEF LineBefore
  <2>2. QED
    BY <1>1, <2>1 DEF StartOf
<1>2. CASE m # 0
  <2>1. m \in LineBefore(e)
    BY <1>2 DEF LineBefore
  <2>2. \A j \in LineBefore(e) : j \in Nat /\ j <= m
    BY DEF LineBefore
  <2>3. \A i \in LineBefore(e) : (\A j \in LineBefore(e) : j <= i) => i = m
    BY <2>1, <2>2
  <2>4. QED
    BY <2>1, <2>2, <2>3 DEF StartOf
<1>3. QED
  BY <1>1, <1>2

\* A line and what was before it are together what was said so far.
LEMMA SaysTogether ==
    ASSUME NEW m \in Nat, NEW e \in Nat, m <= e
    PROVE  Says(0, e) = Says(0, m) \cup Says(m, e)
<1>1. 1..e = 1..m \cup ((m + 1)..e)
  OBVIOUS
<1>2. QED
  BY <1>1 DEF Says

\* A status that is not "none" comes from a line with a result, and conversely.
LEMMA JudgeMeans ==
    ASSUME NEW lo \in Nat, NEW e \in Nat
    PROVE  /\ Judge(lo, e) \in Results \cup {"none"}
           /\ Judge(lo, e) = "none" <=> Says(lo, e) = {}
BY DEF Judge, Says, Results

\* More output changes nothing of what earlier lines say.
LEMMA EarlierLinesStand ==
    ASSUME TypeOK, NEW lo \in Nat, NEW e \in 0..Len(out),
           \A k \in 1..Len(out) : out'[k] = out[k]
    PROVE  /\ Says(lo, e)' = Says(lo, e)
           /\ Judge(lo, e)' = Judge(lo, e)
<1>1. \A k \in (lo + 1)..e : k \in 1..Len(out)
  BY DEF TypeOK
<1>2. Says(lo, e)' = Says(lo, e)
  BY <1>1 DEF Says
<1>3. QED
  BY <1>2 DEF Judge

\* A step that takes nothing and sets no status keeps what is known of both.
LEMMA QuietStep ==
    ASSUME SmokeInv, taken' = taken, status' = status,
           \A k \in 1..Len(out) : out'[k] = out[k],
           ~writable => out' = out /\ ~writable'
    PROVE  TakenUndecided' /\ ResultHasALine'
<1> USE DEF SmokeInv
<1>1. taken \in 0..Len(out) /\ taken \in Nat /\ Len(out) \in Nat
  BY DEF TypeOK
<1>2. Says(0, taken)' = Says(0, taken)
  <2>1. Says(0, taken)' = {out'[k] : k \in 1..taken} \cap Results
    BY <1>1 DEF Says
  <2>2. Says(0, taken) = {out[k] : k \in 1..taken} \cap Results
    BY DEF Says
  <2>3. \A k \in 1..taken : out'[k] = out[k]
    BY <1>1
  <2>4. QED
    BY <2>1, <2>2, <2>3
<1>3. TakenUndecided'
  BY <1>2 DEF TakenUndecided
<1>4. ASSUME NEW m \in Nat, NEW e \in (m + 1)..taken, EarnedFrom(m, e)
      PROVE  EarnedFrom(m, e)'
  <2>1. m \in 0..Len(out) /\ e \in 1..Len(out)
    BY <1>1
  <2>2. Judge(m, e)' = Judge(m, e) /\ Says(0, m)' = Says(0, m)
    BY <2>1, EarlierLinesStand
  <2>3. \A i \in (m + 1)..e : out'[i] = out[i]
    BY <2>1
  <2>4. m = 0 \/ out'[m] = out[m]
    BY <2>1
  <2>5. QED
    BY <1>4, <2>1, <2>2, <2>3, <2>4 DEF EarnedFrom
<1>5. QED
  BY <1>2, <1>3, <1>4 DEF ResultHasALine

\* Every step keeps the types.
LEMMA TypeStep ==
    ASSUME TypeOK, NoLogBeforeStart, [Next]_vars
    PROVE  TypeOK'
<1> USE SmokeAssumption DEF TypeOK, Results, Looping, Children, logVars, streamVars, childVars
<1>1. ASSUME NEW f \in Results \cup {"text", "nl"}, Logs(f) PROVE TypeOK'
  <2>1. out' \in Seq(Results \cup {"text", "nl"}) /\ Len(out') = Len(out) + 1
    BY <1>1 DEF Logs
  <2>2. pc \notin {"server", "chrome"}
    BY <1>1 DEF Logs, NoLogBeforeStart
  <2>3. QED
    BY <1>1, <2>1, <2>2 DEF Logs
<1>2. ASSUME NEW c \in Children, Exits(c) PROVE TypeOK'
  BY <1>2 DEF Exits
<1>3. CASE ServerListens \/ ClosesLog \/ TimePasses
  BY <1>3 DEF ServerListens, ClosesLog, TimePasses
<1>4. CASE StartServer \/ StartFails \/ StartChrome
  BY <1>4 DEF StartServer, StartFails, StartChrome, Goes
<1>5. CASE TimesOut \/ Selects \/ Polls \/ Raises
  BY <1>5 DEF TimesOut, Selects, Polls, Raises, Goes
<1>6. CASE Fetches
  BY <1>6 DEF Fetches, Smaller
<1>7. ASSUME NEW e \in taken..fetched, Judged(e) PROVE TypeOK'
  <2>1. e \in Nat /\ taken \in Nat
    OBVIOUS
  <2>2. Judge(taken, e) \in Results \cup {"none"}
    BY <2>1, JudgeMeans
  <2>3. QED
    BY <1>7, <2>2 DEF Judged, Goes
<1>8. CASE Terminates \/ Sleeps \/ Kills
  BY <1>8 DEF Terminates, Sleeps, Kills, Survivors, Goes
<1>9. CASE UNCHANGED vars
  BY <1>9 DEF vars
<1>10. QED
  BY <1>1, <1>2, <1>3, <1>4, <1>5, <1>6, <1>7, <1>8, <1>9
  DEF Next, Runner, Others, TakesLine, FirstLine, TakesRest

\* A line that is judged: what was taken before it decided nothing, so that its
\* own result, if it has one, is the first.
LEMMA JudgedStep ==
    ASSUME SmokeInv, NEW e \in taken..Len(out), Judged(e),
           \A i \in (taken + 1)..(e - 1) : out[i] # "nl",
           out[e] = "nl" \/ (~writable /\ e = Len(out))
    PROVE  StartsALine' /\ TakenUndecided' /\ ResultHasALine'
<1> USE DEF SmokeInv
<1>1. /\ pc = "readline" /\ status = "none" /\ taken \in Nat /\ e \in Nat /\ taken <= e
      /\ taken' = e /\ status' = Judge(taken, e) /\ out' = out /\ writable' = writable
  BY DEF Judged, Goes, TypeOK, LoopHasNoStatus, Looping, logVars
<1>2. Says(0, taken) = {}
  BY <1>1 DEF TakenUndecided
<1>3. /\ Judge(taken, e) \in Results \cup {"none"}
      /\ Judge(taken, e) = "none" <=> Says(taken, e) = {}
  BY <1>1, JudgeMeans
<1>4. \A lo \in Nat : Says(lo, e)' = Says(lo, e) /\ Judge(lo, e)' = Judge(lo, e)
                     /\ Says(0, lo)' = Says(0, lo)
  BY <1>1 DEF Says, Judge
<1>5. StartsALine'
  BY <1>1 DEF StartsALine
<1>6. TakenUndecided'
  <2>1. Says(0, e) = Says(0, taken) \cup Says(taken, e)
    BY <1>1, SaysTogether
  <2>2. Says(taken, e) = {} => Says(0, e) = {}
    BY <1>2, <2>1
  <2>3. Says(0, taken)' = Says(0, e)
    BY <1>1 DEF Says
  <2>4. QED
    BY <1>1, <1>3, <2>2, <2>3 DEF TakenUndecided
<1>7. ASSUME NEW m \in Nat, m = taken, status' \in Results
      PROVE  EarnedFrom(m, e)' /\ e \in (m + 1)..e
  <2>1. m # e
    BY <1>1, <1>3, <1>7 DEF Says, Results
  <2>2. m = 0 \/ out[m] = "nl"
    BY <1>1, <1>7, <2>1 DEF StartsALine, Looping, TypeOK
  <2>3. status' = Judge(m, e)' /\ Says(0, m)' = {}
    BY <1>1, <1>2, <1>4, <1>7
  <2>4. QED
    BY <1>1, <1>7, <2>1, <2>2, <2>3 DEF EarnedFrom
<1>8. ResultHasALine'
  <2>1. status' \in Results => \E m \in Nat : \E d \in (m + 1)..e : EarnedFrom(m, d)'
    BY <1>1, <1>7
  <2>2. QED
    BY <1>1, <1>3, <2>1 DEF ResultHasALine, Results
<1>9. QED
  BY <1>5, <1>6, <1>8

\* The invariant holds at first and after every step.
LEMMA SmokeInductive ==
    /\ Init => SmokeInv
    /\ SmokeInv /\ [Next]_vars => SmokeInv'
<1>1. Init => SmokeInv
  <2>1. Init => Says(0, taken) = {}
    BY DEF Init, Says
  <2>2. Init => TypeOK
    <3> SUFFICES ASSUME Init PROVE TypeOK
      OBVIOUS
    <3>1. out \in Seq(Results \cup {"text", "nl"}) /\ Len(out) = 0
      BY DEF Init
    <3>2. /\ fetched \in 0..Len(out) /\ taken \in 0..fetched
          /\ alive \subseteq Children /\ killed \subseteq Children
      BY <3>1 DEF Init, Children
    <3>3. /\ writable \in BOOLEAN /\ serving \in BOOLEAN /\ expired \in BOOLEAN
          /\ pc = "server" /\ status = "none" /\ out = <<>>
      BY DEF Init
    <3>4. QED
      BY <3>1, <3>2, <3>3 DEF TypeOK
  <2>3. QED
    BY <2>1, <2>2 DEF Init, SmokeInv, LoopHasNoStatus, NoLogBeforeStart, StartsALine,
                      TakenUndecided, ResultHasALine, Results, Looping
<1>2. ASSUME SmokeInv, [Next]_vars PROVE SmokeInv'
  <2> DEFINE Rest == LoopHasNoStatus /\ NoLogBeforeStart /\ StartsALine
                     /\ TakenUndecided /\ ResultHasALine
  <2> USE <1>2 DEF SmokeInv
  <2> USE DEF LoopHasNoStatus, NoLogBeforeStart, StartsALine, Looping, logVars, streamVars, childVars
  <2>1. SUFFICES Rest'
    BY TypeStep
  <2>2. ASSUME NEW f \in Results \cup {"text", "nl"}, Logs(f) PROVE Rest'
    <3>1. \A k \in 1..Len(out) : out'[k] = out[k]
      BY <2>2 DEF Logs, TypeOK
    <3>2. /\ UNCHANGED <<writable, pc, taken, status>> /\ writable
          /\ taken \in 0..Len(out) /\ Len(out) \in Nat
      BY <2>2 DEF Logs, TypeOK
    <3>3. QED
      BY <3>1, <3>2, QuietStep
  <2>3. CASE ServerListens \/ ClosesLog \/ TimePasses \/ UNCHANGED vars
    BY <2>3, QuietStep DEF ServerListens, ClosesLog, TimePasses, vars
  <2>4. ASSUME NEW c \in Children, Exits(c) PROVE Rest'
    BY <2>4, QuietStep DEF Exits
  <2>5. CASE StartServer \/ StartFails
    BY <2>5, QuietStep DEF StartServer, StartFails, Goes
  <2>6. CASE StartChrome
    <3>1. status = "none" /\ taken = 0 /\ UNCHANGED <<out, taken, status>>
      BY <2>6 DEF StartChrome, TypeOK
    <3>2. TakenUndecided' /\ ResultHasALine'
      BY <3>1 DEF TakenUndecided, ResultHasALine, Says, Results
    <3>3. QED
      BY <2>6, <3>1, <3>2 DEF StartChrome
  <2>7. CASE Selects \/ Fetches \/ Terminates \/ Sleeps \/ Kills
    BY <2>7, QuietStep DEF Selects, Fetches, Terminates, Sleeps, Kills, Goes
  <2>8. CASE TimesOut \/ Polls \/ Raises
    <3>1. /\ UNCHANGED <<out, writable, taken>>
          /\ status' = status \/ (status' \in {"TIMEOUT", "CHROME_EXITED", "raised"} /\ pc' = "stop")
          /\ status = "none" /\ pc \in Looping /\ pc' \in {"check", "stop"}
      BY <2>8 DEF TimesOut, Polls, Raises, Goes
    <3>2. Says(0, taken) = {} /\ Says(0, taken)' = Says(0, taken)
      BY <3>1 DEF TakenUndecided, Says
    <3>3. TakenUndecided' /\ ResultHasALine'
      BY <3>1, <3>2 DEF TakenUndecided, ResultHasALine, Results
    <3>4. LoopHasNoStatus'
      BY <2>8 DEF TimesOut, Polls, Raises, Goes
    <3>5. QED
      BY <3>1, <3>3, <3>4
  <2>9. ASSUME NEW e \in taken..Len(out), Judged(e),
               \A i \in (taken + 1)..(e - 1) : out[i] # "nl",
               out[e] = "nl" \/ (~writable /\ e = Len(out))
        PROVE  Rest'
    <3>1. StartsALine' /\ TakenUndecided' /\ ResultHasALine'
      BY <2>9, JudgedStep
    <3>2. taken \in Nat /\ e \in Nat
      BY DEF TypeOK
    <3>3. pc = "readline" /\ status' = Judge(taken, e)
          /\ pc' = IF Says(taken, e) = {} THEN "poll" ELSE "stop"
      BY <2>9 DEF Judged, Goes
    <3>4. LoopHasNoStatus' /\ NoLogBeforeStart'
      BY <3>2, <3>3, JudgeMeans
    <3>5. QED
      BY <3>1, <3>4
  <2>10. ASSUME NEW e \in 1..Len(out), TakesLine(e) PROVE Rest'
    BY <2>9, <2>10 DEF TakesLine, FirstLine, TypeOK
  <2>11. CASE TakesRest
    <3>1. fetched \in taken..Len(out) /\ \A i \in (taken + 1)..(fetched - 1) : out[i] # "nl"
      BY <2>11 DEF TakesRest, Buffered, TypeOK
    <3>2. QED
      BY <2>9, <2>11, <3>1 DEF TakesRest
  <2>12. QED
    BY <2>2, <2>3, <2>4, <2>5, <2>6, <2>7, <2>8, <2>10, <2>11 DEF Next, Runner, Others
<1>3. QED
  BY <1>1, <1>2

-----------------------------------------------------------------------------
\* The variables of the runner keep their types for a log of any length.
THEOREM TypeCorrect == Spec => []TypeOK
<1>1. SmokeInv => TypeOK
  BY DEF SmokeInv
<1>2. QED
  BY SmokeInductive, <1>1, PTL DEF Spec

\* The status is that of the first line of the log that has a result, and a
\* timeout or an exit means that no line read had one, however the stream of
\* run_test cuts the log.
THEOREM StatusIsThatOfTheFirst == Spec => []StatusIsEarned
<1>1. SmokeInv => StatusIsEarned
  <2> SUFFICES ASSUME SmokeInv PROVE StatusIsEarned
    OBVIOUS
  <2>1. ASSUME NEW m \in Nat, NEW e \in (m + 1)..taken, EarnedFrom(m, e)
        PROVE  StartOf(e) = m
    BY <2>1, LineStarts DEF EarnedFrom, SmokeInv, TypeOK
  <2>2. ASSUME status \in Results
        PROVE  \E e \in 1..taken :
                   /\ status = Judge(StartOf(e), e) /\ Says(0, StartOf(e)) = {}
                   /\ out[e] # "nl" => ~writable /\ e = Len(out)
    <3>1. PICK m \in Nat : \E e \in (m + 1)..taken : EarnedFrom(m, e)
      BY <2>2 DEF SmokeInv, ResultHasALine
    <3>2. PICK e \in (m + 1)..taken : EarnedFrom(m, e)
      BY <3>1
    <3>3. e \in 1..taken /\ StartOf(e) = m
      BY <2>1, <3>2 DEF SmokeInv, TypeOK
    <3>4. QED
      BY <3>2, <3>3 DEF EarnedFrom
  <2>3. QED
    BY <2>2 DEF StatusIsEarned, SmokeInv, ResultHasALine
<1>2. QED
  BY SmokeInductive, <1>1, PTL DEF Spec
=============================================================================
