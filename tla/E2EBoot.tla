------------------------------- MODULE E2EBoot -------------------------------
(* scripts/e2e_boot.py as a whole: main() plans the devices of the VMM, copies *)
(* the root file system, builds the command, boots it with run_until_ready     *)
(* (module BootSupervisor) and writes a witness; and the same run_until_ready  *)
(* as boot-base-contract.py calls it, whose own steps are in                   *)
(* BaseContractWitness. The variables of BootSupervisor are those of the call  *)
(* that main() is about to make.                                               *)
EXTENDS BootSupervisor

VARIABLES
    step,      \* where main() is; "elsewhere" when another program makes the call
    backend,   \* of the command line
    vhost,     \* the host has a /dev/vhost-vsock that can be opened
    planned,   \* the devices of the plan that _plan made first
    launched,  \* the devices, and
    drive,     \* the root file system, of the command that is run
    temp,      \* the temporary directory exists
    witness    \* whose it is, and the devices it records

mainVars == <<step, backend, vhost, planned, launched, drive, temp, witness>>
bootVars == <<vars, mainVars>>

Steps == {"plan", "files", "copy", "command", "boot", "witness", "ok", "error"}

\* main() looks for the marker anywhere in a line and knows no refusal; the
\* other caller wants the whole line and has a refusal marker.
FromMain  == [exact |-> FALSE, refusal |-> FALSE]
Elsewhere == [exact |-> TRUE, refusal |-> TRUE]

MainInit ==
    /\ Init
    /\ \/ call = FromMain /\ step = "plan" /\ backend \in {"qemu", "firecracker"}
       \/ call = Elsewhere /\ step = "elsewhere" /\ backend = "qemu"
    /\ vhost \in IF step = "plan" THEN BOOLEAN ELSE {TRUE}
    /\ planned = {} /\ launched = {} /\ drive = "none" /\ temp = FALSE
    /\ witness = [from |-> "an earlier boot", devices |-> {}]

\* What the host offers may change while main() prepares the boot.
HostChanges ==
    /\ step \in {"plan", "files", "copy", "command"} /\ vhost' = ~vhost
    /\ UNCHANGED <<vars, step, backend, planned, launched, drive, temp, witness>>

-----------------------------------------------------------------------------
(* The devices of a VMM. Each command is built anew, and with it the host is   *)
(* asked anew whether vhost-vsock can be used.                                 *)

qemu_command == {"block", "serial"} \cup IF vhost THEN {"vsock"} ELSE {}

firecracker_config == {"block", "serial", "vsock"}

Devices == IF backend = "qemu" THEN qemu_command ELSE firecracker_config

Goes(from, to) == step = from /\ step' = to /\ UNCHANGED <<vars, backend, vhost>>

\* With --plan the plan is printed, and that is all.
Plans ==
    /\ \E to \in {"files", "ok"} : Goes("plan", to)
    /\ planned' = Devices
    /\ UNCHANGED <<launched, drive, temp, witness>>

_require_file ==
    /\ Goes("files", "copy")
    /\ UNCHANGED <<planned, launched, drive, temp, witness>>

\* The guest writes to its root, so it gets a copy.
Copies ==
    /\ Goes("copy", "command") /\ temp' = TRUE
    /\ UNCHANGED <<planned, launched, drive, witness>>

Commands ==
    /\ Goes("command", "boot")
    /\ launched' = Devices /\ drive' = "copy"
    /\ UNCHANGED <<planned, temp, witness>>

\* run_until_ready is over, and so is the temporary directory.
Leaves ==
    /\ pc = "done" /\ Goes("boot", IF verdict = "ready" THEN "witness" ELSE "error")
    /\ temp' = FALSE
    /\ UNCHANGED <<planned, launched, drive, witness>>

\* Takes the plan for what was run (a mutant of executed_plan).
FirstPlan == planned

executed_plan == launched

\* Without --witness there is nothing to write.
write_witness ==
    /\ Goes("witness", "ok")
    /\ witness' \in {witness, [from |-> "this boot", devices |-> executed_plan]}
    /\ UNCHANGED <<planned, launched, drive, temp>>

\* A file or the VMM is missing, an argument is refused, a plan has the name of
\* a network device somewhere in it (a path may have it, too), or the operating
\* system refuses something.
Aborts ==
    /\ step \in Steps \ {"boot", "ok", "error"} /\ Goes(step, "error")
    /\ temp' = FALSE
    /\ UNCHANGED <<planned, launched, drive, witness>>

Main ==
    \/ Plans \/ _require_file \/ Copies \/ Commands \/ Leaves \/ write_witness \/ Aborts

-----------------------------------------------------------------------------
\* While the call is made. A refusal is one only for a caller that looks for it.
Calling ==
    /\ step \in {"boot", "elsewhere"}
    /\ \/ \E f \in Fragments :
              ChildWrites(f) /\ (f = "refusal" => call.refusal)
       \/ ClosesOutput \/ ChildExits \/ DeadlinePasses \/ Supervisor
    /\ UNCHANGED mainVars

Ended ==
    /\ step \in {"ok", "error"} \/ (step = "elsewhere" /\ pc = "done")
    /\ UNCHANGED bootVars

MainNext == Calling \/ Main \/ HostChanges \/ Ended

\* One thread runs main() and, in it, run_until_ready.
MainFairness ==
    /\ WF_bootVars(Main)
    /\ WF_bootVars(step \in {"boot", "elsewhere"} /\ Supervisor /\ UNCHANGED mainVars)
    /\ WF_bootVars(step \in {"boot", "elsewhere"} /\ killed /\ ChildExits /\ UNCHANGED mainVars)

MainSpec == MainInit /\ [][MainNext]_bootVars /\ MainFairness

-----------------------------------------------------------------------------
(* Properties, with those of BootSupervisor.                                  *)

\* A witness that this invocation wrote tells of the boot there was: its guest
\* printed the marker, was collected and ran on the copy of the root, which is
\* gone by now; and the devices are those the guest had, even when the host
\* changed after the first plan was made.
WitnessTellsTheBoot ==
    witness.from = "this boot" =>
        /\ verdict = "ready" /\ reaped /\ drive = "copy" /\ ~temp
        /\ witness.devices = launched
=============================================================================
