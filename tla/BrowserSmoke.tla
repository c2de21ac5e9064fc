---------------------------- MODULE BrowserSmoke ----------------------------
(* run_test of scripts/run-qemu-wasm-smoke-chromium.py: a pack server and a   *)
(* headless Chromium are started, Chromium's log is read line by line until a *)
(* line decides the test, Chromium exits or the time is over, and then both   *)
(* are told to stop.                                                          *)
(*                                                                            *)
(* The log is a sequence of fragments: a result of the page, other text, a    *)
(* newline. It is waited for with select on the descriptor and read through a *)
(* text stream, which takes more out of the pipe than the line it returns:    *)
(* fragments taken+1..fetched are in the buffer of the stream.                *)
EXTENDS Naturals, Sequences

CONSTANTS
    MaxOut,   \* bound: fragments that are ever logged
    ChunkCap  \* fragments the stream takes out of the pipe at once

ASSUME SmokeAssumption == MaxOut \in Nat /\ ChunkCap \in Nat \ {0}

VARIABLES
    out,       \* every fragment logged so far
    writable,  \* some process of Chromium's still holds the pipe
    alive,     \* children that run
    killed,    \* children that were sent SIGKILL
    serving,   \* the server has said "Serving"
    pc,        \* where run_test is
    fetched,   \* fragments taken out of the pipe
    taken,     \* fragments returned by readline
    expired,   \* elapsed > timeout
    status     \* result_status

logVars    == <<out, writable>>
streamVars == <<fetched, taken>>
childVars  == <<alive, killed, serving>>
vars       == <<out, writable, alive, killed, serving, pc, fetched, taken,
                expired, status>>

Children == {"server", "chrome"}
Results  == {"READY", "GUEST_TIMEOUT", "FAIL"}
Looping  == {"check", "readline", "poll"}

TypeOK ==
    /\ out \in Seq(Results \cup {"text", "nl"}) /\ writable \in BOOLEAN
    /\ alive \subseteq Children /\ killed \subseteq Children /\ serving \in BOOLEAN
    /\ pc \in Looping \cup {"server", "chrome", "stop", "sleep", "kill", "done", "failed"}
    /\ fetched \in 0..Len(out) /\ taken \in 0..fetched
    /\ expired \in BOOLEAN
    /\ status \in Results \cup {"none", "TIMEOUT", "CHROME_EXITED", "raised"}
    /\ pc \in {"server", "chrome"} => out = <<>>

Init ==
    /\ out = <<>> /\ writable = FALSE /\ alive = {"server"} /\ killed = {}
    /\ serving = FALSE /\ pc = "server" /\ fetched = 0 /\ taken = 0
    /\ expired = FALSE /\ status = "none"

-----------------------------------------------------------------------------
(* The children, and the passing of time.                                     *)

ServerListens ==
    /\ "server" \in alive /\ ~serving /\ serving' = TRUE
    /\ UNCHANGED <<logVars, alive, killed, pc, streamVars, expired, status>>

\* The other processes of Chromium may log on after the first has exited.
Exits(c) ==
    /\ c \in alive /\ alive' = alive \ {c}
    /\ UNCHANGED <<logVars, killed, serving, pc, streamVars, expired, status>>

Logs(f) ==
    /\ writable /\ Len(out) < MaxOut /\ out' = Append(out, f)
    /\ UNCHANGED <<writable, childVars, pc, streamVars, expired, status>>

ClosesLog ==
    /\ writable /\ writable' = FALSE
    /\ UNCHANGED <<out, childVars, pc, streamVars, expired, status>>

TimePasses ==
    /\ pc \in Looping /\ ~expired /\ expired' = TRUE
    /\ UNCHANGED <<logVars, childVars, pc, streamVars, status>>

-----------------------------------------------------------------------------
(* start_server and start_chrome.                                             *)

Goes(from, to) == pc = from /\ pc' = to /\ UNCHANGED <<logVars, expired>>

StartServer ==
    /\ serving /\ Goes("server", "chrome")
    /\ UNCHANGED <<childVars, streamVars, status>>

\* RuntimeError, or Popen finds no Chromium: nothing stops a server that runs.
StartFails ==
    /\ (pc = "server" /\ "server" \notin alive) \/ pc = "chrome"
    /\ Goes(pc, "failed")
    /\ UNCHANGED <<childVars, streamVars, status>>

StartChrome ==
    /\ pc = "chrome" /\ pc' = "check"
    /\ alive' = alive \cup {"chrome"} /\ writable' = TRUE
    /\ UNCHANGED <<out, killed, serving, streamVars, expired, status>>

-----------------------------------------------------------------------------
(* The loop.                                                                  *)

TimesOut ==
    /\ expired /\ Goes("check", "stop") /\ status' = "TIMEOUT"
    /\ UNCHANGED <<childVars, streamVars>>

\* Waits for the end of the log only (a mutant of Readable).
AtEnd == ~writable

\* What select sees: the pipe and its end, not the buffer of the stream.
Readable == fetched < Len(out) \/ ~writable

Selects ==
    /\ ~expired /\ Goes("check", IF Readable THEN "readline" ELSE "poll")
    /\ UNCHANGED <<childVars, streamVars, status>>

\* Looks at the newest line only (a mutant of FirstLine).
NewestLine(e) ==
    e \in (taken + 1)..fetched /\ out[e] = "nl" /\ \A i \in (e + 1)..fetched : out[i] # "nl"

\* The first line in the buffer ends at e.
FirstLine(e) ==
    e \in (taken + 1)..fetched /\ out[e] = "nl" /\ \A i \in (taken + 1)..(e - 1) : out[i] # "nl"

Buffered == \E e \in (taken + 1)..fetched : out[e] = "nl"

Says(lo, e) == {out[k] : k \in (lo + 1)..e} \cap Results

\* One line is tested for READY, then for TIMEOUT, then for ABORT and ERROR.
Judge(lo, e) ==
    IF "READY" \in Says(lo, e) THEN "READY"
    ELSE IF "GUEST_TIMEOUT" \in Says(lo, e) THEN "GUEST_TIMEOUT"
    ELSE IF "FAIL" \in Says(lo, e) THEN "FAIL" ELSE "none"

Judged(e) ==
    /\ taken' = e /\ status' = Judge(taken, e)
    /\ Goes("readline", IF Says(taken, e) = {} THEN "poll" ELSE "stop")
    /\ UNCHANGED <<childVars, fetched>>

TakesLine(e) == FirstLine(e) /\ Judged(e)

\* Counts a full chunk for a short one (a mutant of Smaller).
FullChunk(a, b) == a

Smaller(a, b) == IF a < b THEN a ELSE b

\* Without a line in the buffer, readline reads on, and blocks while the pipe
\* is empty and held by somebody.
Fetches ==
    /\ pc = "readline" /\ ~Buffered /\ fetched < Len(out)
    /\ fetched' = Smaller(fetched + ChunkCap, Len(out))
    /\ UNCHANGED <<logVars, childVars, pc, taken, expired, status>>

TakesRest == ~Buffered /\ fetched = Len(out) /\ ~writable /\ Judged(fetched)

\* The memory samples taken before the poll change nothing.
Polls ==
    /\ IF "chrome" \in alive THEN Goes("poll", "check") /\ UNCHANGED status
                             ELSE Goes("poll", "stop") /\ status' = "CHROME_EXITED"
    /\ UNCHANGED <<childVars, streamVars>>

\* An interrupt, text that cannot be decoded, or any other exception.
Raises ==
    /\ pc \in Looping /\ Goes(pc, "stop") /\ status' = "raised"
    /\ UNCHANGED <<childVars, streamVars>>

(* The finally block. SIGTERM promises nothing.                               *)

Terminates == Goes("stop", "sleep") /\ UNCHANGED <<childVars, streamVars, status>>

Sleeps == Goes("sleep", "kill") /\ UNCHANGED <<childVars, streamVars, status>>

\* Kills Chromium alone (a mutant of Survivors).
ChromeAlone == alive \cap {"chrome"}

Survivors == alive

Kills ==
    /\ Goes("kill", "done") /\ killed' = Survivors
    /\ UNCHANGED <<alive, serving, streamVars, status>>

-----------------------------------------------------------------------------
Runner ==
    \/ StartServer \/ StartFails \/ StartChrome
    \/ TimesOut \/ Selects \/ Fetches \/ TakesRest \/ Polls
    \/ \E e \in 1..Len(out) : TakesLine(e)
    \/ Terminates \/ Sleeps \/ Kills

Others ==
    \/ ServerListens \/ ClosesLog \/ TimePasses
    \/ \E c \in Children : Exits(c)
    \/ \E f \in Results \cup {"text", "nl"} : Logs(f)

Next == Runner \/ Raises \/ Others

Spec == Init /\ [][Next]_vars

\* The runner is scheduled, select and sleep end, and SIGKILL kills. Nothing is
\* promised of what the children do or log, nor of the clock.
Scheduling ==
    /\ WF_vars(Runner)
    /\ \A c \in Children : WF_vars(c \in killed /\ Exits(c))

FairSpec == Spec /\ Scheduling

-----------------------------------------------------------------------------
(* Properties.                                                                *)

\* The lines before the one that ends at e, the unterminated last one included.
LineBefore(e) == {i \in 1..(e - 1) : out[i] = "nl"}

StartOf(e) == IF LineBefore(e) = {} THEN 0
              ELSE CHOOSE i \in LineBefore(e) : \A j \in LineBefore(e) : j <= i

\* The result is that of the first line of the log that has one, however the
\* log was cut into chunks, and half a line decides only when nothing follows;
\* a timeout or an exit is reported only when no line read so far had a result.
StatusIsEarned ==
    /\ status \in Results =>
           \E e \in 1..taken :
               /\ status = Judge(StartOf(e), e) /\ Says(0, StartOf(e)) = {}
               /\ out[e] # "nl" => ~writable /\ e = Len(out)
    /\ status \in {"TIMEOUT", "CHROME_EXITED"} => Says(0, taken) = {}

\* When a result has arrived while the buffer is empty, as the first line of the
\* pipe, a status follows, its own unless the exit or the clock came first, and
\* it needs neither the clock nor further output.
ResultAtTheFront ==
    fetched = taken /\ \E e \in (taken + 1)..Len(out) :
        out[e] = "nl" /\ Says(taken, e) # {} /\ \A i \in (taken + 1)..(e - 1) : out[i] # "nl"

FrontIsNoticed == (pc \in Looping /\ ResultAtTheFront) ~> status # "none"

\* When the time passes, and Chromium completes the lines it begins, the runner
\* comes to its end and both children go, whatever they do about SIGTERM.
WholeLines == out = <<>> \/ ~writable \/ out[Len(out)] = "nl"

ReturnsInTime ==
    WF_vars(TimePasses) /\ []<>WholeLines => (pc = "check" ~> pc = "done" /\ alive = {})

(* What the file's docstring says and the code does not do.                   *)

\* "Captures Chromium's console log from stderr and reports the time to the
\* marker": a READY line that was logged is noticed.
ReadyIsNoticed ==
    (pc \in Looping /\ \E e \in 1..Len(out) :
        out[e] = "nl" /\ Judge(StartOf(e), e) = "READY") ~> status # "none"
=============================================================================
