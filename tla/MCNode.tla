------------------------------ MODULE MCNode ------------------------------
(***************************************************************************)
(* Three blocks; filters for one or two items are sent, those for three    *)
(* are too large.  The filter of a alone seems to contain b, and so does   *)
(* that of a and c.                                                        *)
(***************************************************************************)
EXTENDS Node

CONSTANTS a, b, c, p, q, i1, i2

HashesBySize ==
    << (a :> {1, 2}) @@ (b :> {2})    @@ (c :> {3}),
       (a :> {3, 4}) @@ (b :> {4, 5}) @@ (c :> {5, 6}),
       (a :> {1})    @@ (b :> {2})    @@ (c :> {3}) >>

\* The peers that were ever told something, or may be.
Told == connected \cup todo \cup {m.to : m \in streams}
            \cup {r \in Peers : \E k \in IDs : filters[r][k] # NoFilter}

\* The blocks are cached in the order a, c, b and evicted in the reverse one;
\* as long as there is a second peer, a is the only one.
FewContents ==
    /\ cached \in {{}, {a}, {a, c}, CIDs}
    /\ q \in Told =>
           /\ cached \subseteq {a}
           /\ \A m \in streams : m.data = Bytes(Summary({a}))
           /\ \A k \in IDs : filters[p][k] \in {NoFilter, Summary({a})}

\* Lives of the node in which its key is replaced and lives in which it sends
\* summaries are looked at separately, and so are pushes that hang.  Keys are
\* interchangeable.
Separately ==
    /\ FewContents'
    /\ generated' # {i2}
    /\ streams' # {} \/ (\E k \in IDs, r \in Peers : filters'[r][k] # NoFilter) =>
           Cardinality(generated') = 1 /\ pusher' # "push"
=============================================================================
