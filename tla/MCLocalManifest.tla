-------------------------- MODULE MCLocalManifest ---------------------------
(* Values for LocalManifest. v3 is v1 with other line ends: as a commit, one  *)
(* with the files of v1; as a name outside the index, v1 is one that is not   *)
(* there, v3 an ignored file and v2 a file that is untracked. As the file of  *)
(* inputs, v2 names no contract that is supported.                            *)
EXTENDS LocalManifest

CONSTANTS v1, v2, v3, b1, b2, b3, e1

LineEnds == [v \in Values |-> IF v = v3 THEN v1 ELSE v]

Silent(seen) == \A p \in Parts \ Covered : LineEnds[seen[p]] = v1

Committed ==
    {seen \in [Parts -> Values] :
        Silent(seen) /\ \A p \in Covered : LineEnds[seen[p]] = LineEnds[seen[Head]]}

Fingerprinted ==
    [seen \in [Parts -> Values] |-> IF Silent(seen) THEN Covered ELSE Parts]

Onward    == {<<v1, v3>>, <<v3, v2>>, <<v1, v2>>}
Degrading == {<<b1, b2>>, <<b2, b3>>, <<b1, b3>>}

Racers == Emitters \ {e1}

Settled(v) == [e \in Emitters |-> v]

\* Emissions that have each prepared a set, and are about to look at --out.
Prepared ==
    LET rest == [p \in Parts |-> v3]  files == [r \in Roles |-> b3] IN
    /\ checkout = rest /\ out \in Free \cup {"foreign"}
    /\ pc = Settled("probe")
    /\ abi = Settled(v3) /\ contract = abi /\ lock = abi
    /\ before = Settled(rest) /\ after = before /\ instant = before
    /\ staging = Settled(TRUE) /\ written = staging
    /\ staged = Settled(files) /\ digest = staged
    /\ todo = Settled({}) /\ late = todo
    /\ remover = "nobody" /\ lost = {}

\* Either one emission from its beginning, or all of them from there.
MCInit == Init \/ Prepared

MCSpec == MCInit /\ [][Next]_vars

\* The bounds: those that race have either not begun or are where they race;
\* files change, or are no roots, only while the checkout is as it was first; and
\* nothing more is looked at when nobody is left.
Alone == \A e \in Racers : pc[e] = "abi"

Unedited == \A p \in Parts : {abi[e1], before[e1][p], checkout[p]} \subseteq {None, v3}

Bounded ==
    /\ Alone \/ \A e \in Racers : pc[e] \in {"probe", "rmdir", "rename"} \cup Ended
    /\ Unedited \/ \A r \in Roles : staged[e1][r] \in {b3, None}
    /\ \E e \in IF Alone THEN {e1} ELSE Emitters : pc[e] \in Running
=============================================================================
