---------------------------- MODULE FileService ----------------------------
(***************************************************************************)
(* What GET /api/fetch promises, without batches, goroutines, caches or    *)
(* providers: a file is sent in order and only after all of it was         *)
(* obtained; once a part was found to be unobtainable, nothing is sent;    *)
(* and a request that got as far as its chunks is refused for no other     *)
(* reason.  FileFetch implements it.                                       *)
(***************************************************************************)
EXTENDS Integers, Sequences

CONSTANT NumChunks

VARIABLES
    have,      \* the chunks obtained
    lost,      \* whether some chunk could not be obtained
    answer,    \* the status of the response
    sent       \* the numbers of the chunks sent

serviceVars == <<have, lost, answer, sent>>

Init == have = {} /\ lost = FALSE /\ answer = "none" /\ sent = << >>

Obtain(i) ==
    /\ answer = "none"
    /\ have' = have \cup {i}
    /\ UNCHANGED <<lost, answer, sent>>

Lose ==
    /\ answer = "none"
    /\ lost' = TRUE
    /\ UNCHANGED <<have, answer, sent>>

\* There is no manifest, or its signature is wrong; or a chunk was lost.
Refuse ==
    /\ answer = "none"
    /\ \/ have = {} /\ ~lost /\ answer' \in {"403", "404"}
       \/ lost /\ answer' = "404"
    /\ UNCHANGED <<have, lost, sent>>

Accept ==
    /\ answer = "none" /\ have = 1 .. NumChunks /\ ~lost
    /\ answer' = "200"
    /\ UNCHANGED <<have, lost, sent>>

Send ==
    /\ answer = "200" /\ Len(sent) < NumChunks
    /\ sent' = Append(sent, Len(sent) + 1)
    /\ UNCHANGED <<have, lost, answer>>

Next == (\E i \in 1 .. NumChunks : Obtain(i)) \/ Lose \/ Refuse \/ Accept \/ Send

Spec == Init /\ [][Next]_serviceVars
=============================================================================
