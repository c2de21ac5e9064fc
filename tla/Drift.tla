------------------------------- MODULE Drift --------------------------------
(* Contents that others may change while a program reads them one by one.     *)

\* No content that was replaced ever comes back: R, "v may become w", is a
\* strict partial order on the contents S.
Acyclic(R, S) ==
    /\ R \subseteq S \X S
    /\ \A v \in S : <<v, v>> \notin R
    /\ \A u, v, w \in S : <<u, v>> \in R /\ <<v, w>> \in R => <<u, w>> \in R

\* Nor does what f leaves of a content: when it has changed it stays changed.
ComesToAnEnd(f, R, S) ==
    \A u, v, w \in S : <<u, v>> \in R /\ <<v, w>> \in R /\ f[u] = f[w] => f[v] = f[u]
=============================================================================
