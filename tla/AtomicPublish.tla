--------------------------- MODULE AtomicPublish ----------------------------
(* What writing a local image set promises to whoever looks at --out: it goes *)
(* from having nothing in it to holding one complete set in a single step, at *)
(* most one emission gets to do that, and no emission replaces what it finds. *)
CONSTANT Emitters

VARIABLES
    slot,     \* what --out holds: "free", "foreign", "torn" or an emitter's set
    outcome   \* how each emission ended

AInit ==
    /\ slot \in {"free", "foreign"}
    /\ outcome = [e \in Emitters |-> "running"]

\* Somebody else puts something under the name, or takes away what he put there.
Used == {slot, slot'} = {"free", "foreign"} /\ UNCHANGED outcome

Published(e) ==
    /\ outcome[e] = "running" /\ slot = "free"
    /\ slot' = e
    /\ outcome' = [outcome EXCEPT ![e] = "published"]

\* A refusal or a crash changes nothing a reader of --out can see.
Ended(e) ==
    /\ outcome[e] = "running"
    /\ outcome' = [outcome EXCEPT ![e] = "failed"]
    /\ UNCHANGED slot

ANext == Used \/ \E e \in Emitters : Published(e) \/ Ended(e)

ASpec == AInit /\ [][ANext]_<<slot, outcome>>
=============================================================================
