--------------------------- MODULE BootSupervisor ---------------------------
(* run_until_ready of scripts/e2e_boot.py: one supervisor reads the serial    *)
(* console of one VMM child through a pipe until a line decides the boot, the *)
(* child exits or a deadline passes, and then always reaps the child.         *)
(*                                                                            *)
(* The console is a sequence of fragments, each a piece of text that matters  *)
(* as a whole: the ready marker, the refusal marker, other text, a newline.   *)
(* The bytes the supervisor holds are two positions in that sequence: it has  *)
(* read fragments 1..read and `pending` is the part start+1..read of them.    *)
EXTENDS Naturals, Sequences

CONSTANTS
    MaxOut,        \* bound: fragments the child may ever write
    ReadCap,       \* fragments one os.read may return
    PipeCap,       \* fragments the pipe holds before a writer blocks
    HeldOpen       \* a descendant of the VMM may hold the pipe past its exit

ASSUME BootAssumption ==
    /\ MaxOut \in Nat
    /\ ReadCap \in Nat \ {0}
    /\ PipeCap \in Nat \ {0}
    /\ HeldOpen \in BOOLEAN

VARIABLES
    call,      \* the arguments that matter: exact_marker (the marker must be
               \* the whole line), and whether there is a refusal_marker
    out,       \* every fragment written to the console so far
    writable,  \* the write end of the pipe is still open somewhere
    child,     \* "running" or "exited"
    killed,    \* SIGKILL was sent
    reaped,    \* poll() or wait() has collected the exit status
    pc,        \* where the supervisor is
    read,      \* fragments taken out of the pipe
    start,     \* where the pending partial line starts
    chunk,     \* what the last os.read returned
    closed,    \* output_closed
    expired,   \* time.monotonic() >= deadline
    verdict,   \* how the call ends
    sawLen     \* observer: Len(out) at the last os.read

childVars == <<call, out, writable, child>>
loopVars  == <<read, start, chunk, closed, sawLen>>
vars      == <<call, out, writable, child, killed, reaped, pc, read, start, chunk,
               closed, expired, verdict, sawLen>>

Fragments == {"ready", "refusal", "noise", "nl"}
Calls     == [exact : BOOLEAN, refusal : BOOLEAN]
Verdicts  == {"none", "ready", "refused", "exited", "timeout"}
Places    == {"check", "read", "poll", "terminate", "waitTerm", "waitKill",
              "close", "done"}

TypeOK ==
    /\ call \in Calls
    /\ out \in Seq(Fragments)
    /\ writable \in BOOLEAN /\ killed \in BOOLEAN /\ reaped \in BOOLEAN
    /\ closed \in BOOLEAN /\ expired \in BOOLEAN
    /\ child \in {"running", "exited"}
    /\ pc \in Places
    /\ read \in 0..Len(out) /\ start \in 0..read /\ sawLen \in 0..Len(out)
    /\ chunk \in {"none", "data", "eof"}
    /\ verdict \in Verdicts

-----------------------------------------------------------------------------
(* Lines. A line that ends at position e, of the text that starts after       *)
(* position lo, is the run of fragments up to e with no newline before e.     *)

InLine(lo, k, e) == k \in (lo + 1)..e /\ \A j \in k..(e - 1) : out[j] # "nl"

Refuses(lo, e) ==
    call.refusal /\ \E k \in (lo + 1)..e : InLine(lo, k, e) /\ out[k] = "refusal"

Readies(lo, e) ==
    \E k \in (lo + 1)..e :
        /\ InLine(lo, k, e) /\ out[k] = "ready"
        /\ call.exact => \A j \in (lo + 1)..e :
                        InLine(lo, j, e) /\ out[j] # "nl" => j = k

\* Only the newest line of a turn is looked at (a mutant of LineEnds).
NewestLineEnd(final) ==
    {e \in (start + 1)..read :
        out[e] = "nl" /\ \A i \in (e + 1)..read : out[i] # "nl"}

\* Where the lines of start+1..read end; the unterminated rest is one of them
\* when nothing more can be read.
LineEnds(final) ==
    {e \in (start + 1)..read : out[e] = "nl" \/ (final /\ e = read)}

Decisive(final) ==
    {e \in LineEnds(final) : Refuses(start, e) \/ Readies(start, e)}

\* The newest deciding line wins (a mutant of FirstDecisive).
LastDecisive(final, e) ==
    e \in Decisive(final) /\ \A i \in Decisive(final) : i <= e

FirstDecisive(final, e) ==
    e \in Decisive(final) /\ \A i \in Decisive(final) : e <= i

-----------------------------------------------------------------------------
(* The child, and the passing of time.                                        *)

Init ==
    /\ call \in Calls
    /\ out = <<>> /\ writable = TRUE /\ child = "running"
    /\ killed = FALSE /\ reaped = FALSE
    /\ pc = "check" /\ read = 0 /\ start = 0 /\ chunk = "none"
    /\ closed = FALSE /\ expired = FALSE /\ verdict = "none" /\ sawLen = 0

ChildWrites(f) ==
    /\ writable /\ Len(out) < MaxOut /\ Len(out) - read < PipeCap
    /\ out' = Append(out, f)
    /\ UNCHANGED <<call, writable, child, killed, reaped, pc, loopVars, expired, verdict>>

ClosesOutput ==
    /\ writable /\ (child = "running" \/ HeldOpen)
    /\ writable' = FALSE
    /\ UNCHANGED <<call, out, child, killed, reaped, pc, loopVars, expired, verdict>>

ChildExits ==
    /\ child = "running"
    /\ child' = "exited"
    /\ writable' \in {FALSE, writable /\ HeldOpen}
    /\ UNCHANGED <<call, out, killed, reaped, pc, loopVars, expired, verdict>>

DeadlinePasses ==
    /\ ~expired /\ expired' = TRUE
    /\ UNCHANGED <<childVars, killed, reaped, pc, loopVars, verdict>>

-----------------------------------------------------------------------------
(* One turn of the loop: test the deadline and wait in select (or sleep, once *)
(* the output is closed), read once without blocking, then poll and judge.    *)

TimesOut ==
    /\ pc = "check" /\ expired
    /\ verdict' = "timeout" /\ pc' = "terminate"
    /\ UNCHANGED <<childVars, killed, reaped, loopVars, expired>>

Waits ==
    /\ pc = "check" /\ ~expired
    /\ pc' = "read"
    /\ UNCHANGED <<childVars, killed, reaped, loopVars, expired, verdict>>

\* Counts a full buffer for a short read (a mutant of Smaller).
FullBuffer(a, b) == a

Smaller(a, b) == IF a < b THEN a ELSE b

Reads ==
    /\ pc = "read"
    /\ chunk' = IF read < Len(out) THEN "data" ELSE IF writable THEN "none" ELSE "eof"
    /\ read' = Smaller(read + ReadCap, Len(out))
    /\ sawLen' = Len(out)
    /\ pc' = "poll"
    /\ UNCHANGED <<childVars, killed, reaped, start, closed, expired, verdict>>

\* An exit status alone ends the reading, whatever is still in the pipe (a mutant
\* of Finished).
FinishedOnStatus == chunk = "eof" \/ child = "exited"

Finished == chunk = "eof" \/ (chunk = "none" /\ child = "exited")

\* Forgets the partial line at the end of every turn (a mutant of PendingFrom).
DropsPartial(final, p) == p = read

\* pending starts again after the last line that was taken out of it.
PendingFrom(final, p) ==
    /\ p \in LineEnds(final) \cup {start}
    /\ \A e \in LineEnds(final) : e <= p

Decides(e) ==
    /\ verdict' = IF Refuses(start, e) THEN "refused" ELSE "ready"
    /\ pc' = "terminate" /\ UNCHANGED closed

Polls ==
    /\ pc = "poll"
    /\ reaped' = (reaped \/ child = "exited")
    /\ \E p \in start..read : PendingFrom(Finished, p) /\ start' = p
    /\ \/ \E e \in Decisive(Finished) : FirstDecisive(Finished, e) /\ Decides(e)
       \/ /\ Decisive(Finished) = {} /\ Finished /\ child = "exited"
          /\ verdict' = "exited" /\ pc' = "terminate" /\ UNCHANGED closed
       \/ /\ Decisive(Finished) = {} /\ ~(Finished /\ child = "exited")
          /\ closed' = (closed \/ Finished)
          /\ pc' = "check" /\ UNCHANGED verdict
    /\ UNCHANGED <<childVars, killed, read, chunk, expired, sawLen>>

-----------------------------------------------------------------------------
(* The finally block: nothing leaves the function before the child is reaped. *)

\* Leaves a child that is still running to itself (a mutant of Terminates).
JustCloses ==
    /\ pc = "terminate" /\ pc' = "close" /\ reaped' = (reaped \/ child = "exited")
    /\ UNCHANGED <<childVars, killed, loopVars, expired, verdict>>

Terminates ==
    /\ pc = "terminate"
    /\ pc' = IF child = "exited" THEN "close" ELSE "waitTerm"
    /\ reaped' = (reaped \/ child = "exited")
    /\ UNCHANGED <<childVars, killed, loopVars, expired, verdict>>

WaitSucceeds ==
    /\ pc \in {"waitTerm", "waitKill"} /\ child = "exited"
    /\ reaped' = TRUE /\ pc' = "close"
    /\ UNCHANGED <<childVars, killed, loopVars, expired, verdict>>

\* Waits for SIGTERM to work for as long as it takes (a mutant of Kills).
NeverKills == FALSE /\ UNCHANGED vars

Kills ==
    /\ pc = "waitTerm" /\ child = "running"
    /\ killed' = TRUE /\ pc' = "waitKill"
    /\ UNCHANGED <<childVars, reaped, loopVars, expired, verdict>>

Closes ==
    /\ pc = "close" /\ pc' = "done"
    /\ UNCHANGED <<childVars, killed, reaped, loopVars, expired, verdict>>

-----------------------------------------------------------------------------
Child == (\E f \in Fragments : ChildWrites(f)) \/ ClosesOutput \/ ChildExits

Supervisor ==
    TimesOut \/ Waits \/ Reads \/ Polls \/ Terminates \/ WaitSucceeds \/ Kills \/ Closes

Returned == pc = "done" /\ UNCHANGED vars

Next == Child \/ DeadlinePasses \/ Supervisor \/ Returned

Spec == Init /\ [][Next]_vars

\* The supervisor is one thread that is eventually scheduled, and
\* a process that was sent SIGKILL dies. A child promises nothing else, and
\* the deadline is claimed to pass only where a property says so.
Scheduling == WF_vars(Supervisor) /\ WF_vars(killed /\ ChildExits)

FairSpec == Spec /\ Scheduling

-----------------------------------------------------------------------------
(* Properties.                                                                *)

\* The lines of the whole console before the one that ends at e decide nothing.
UndecidedBefore(e) ==
    \A i \in 1..(e - 1) : out[i] = "nl" => ~Refuses(0, i) /\ ~Readies(0, i)

\* A successful return was earned: some line of what the child really wrote is
\* the marker, no earlier line refused (so a refusal is never overtaken by a
\* later READY), and a line without its newline counts only once the output
\* ended or the child is gone, however the reads cut the text up. That is what
\* l.275 and l.283 do; the comment at l.281-282 asks for more, namely that the
\* child be gone, and UnterminatedOnlyAfterExit below states that.
ReadyIsEarned ==
    verdict = "ready" =>
        \E e \in 1..read :
            /\ Readies(0, e) /\ ~Refuses(0, e) /\ UndecidedBefore(e)
            /\ out[e] # "nl" => e = read /\ (~writable \/ child = "exited")

\* A refusal is reported only for a refusal line the child wrote, and never
\* for one that comes after the line that made the boot ready.
RefusalIsEarned ==
    verdict = "refused" =>
        \E e \in 1..read : Refuses(0, e) /\ UndecidedBefore(e)

\* "VMM exited before the marker" is said only of a child that is gone, after
\* everything that was in the pipe at the last read was read and held no
\* deciding line, the unterminated last one included.
ExitVerdictIsDrained ==
    verdict = "exited" =>
        /\ child = "exited" /\ read = sawLen
        /\ UndecidedBefore(read + 1)
        /\ read > 0 => ~Refuses(0, read) /\ ~Readies(0, read)

\* The function never returns or raises while the VMM is alive or unreaped.
NoOrphan == pc = "done" => child = "exited" /\ reaped

\* A child that never speaks, never stops speaking, ignores SIGTERM, or closes
\* its console still lets the call return: the deadline and SIGKILL see to it.
EventuallyReturns == WF_vars(DeadlinePasses) => <>(pc = "done")

\* When a deciding line was written whole a verdict follows, its own or that of
\* something that came first, and needs neither the deadline nor the exit of the
\* child, also when several lines arrive in one chunk and silence follows.
MarkerIsNoticed ==
    (\E e \in 1..Len(out) : out[e] = "nl" /\ (Refuses(0, e) \/ Readies(0, e)))
        ~> verdict # "none"

(* What a comment and a test of run_until_ready say and the code does not do. *)

\* "Drain queued bytes even after exit": a child that printed its marker before
\* it exited is never reported as having exited before the marker.
ExitMeansNoMarker ==
    verdict = "exited" =>
        \A e \in 1..Len(out) : out[e] = "nl" => ~Readies(0, e)

\* "A final unterminated line counts at EOF, but never while the child is
\* alive": a marker that decides before the child was seen to be gone stands in
\* a line with its newline. (`reaped`: the poll of that turn had a status.)
UnterminatedOnlyAfterExit ==
    pc = "terminate" /\ verdict \in {"ready", "refused"} /\ ~reaped =>
        \E e \in 1..read : out[e] = "nl" /\ (Readies(0, e) \/ Refuses(0, e))
=============================================================================
