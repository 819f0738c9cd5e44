----------------------------- MODULE MCPublish -----------------------------
(***************************************************************************)
(* Two requests for two files: an empty one, and xxx, which is cut in xx   *)
(* and x, or by the adaptive size in three blocks that are all the same.   *)
(***************************************************************************)
EXTENDS Publish

CONSTANTS x

TwoFiles == {<<x, x, x>>, << >>}
PathRTTs == {<<60, 3>>}
Cuts == {Chunk(f, k) : f \in TwoFiles, k \in {1, 2}}
AllBlocks == UNION {ToSet(c) : c \in Cuts}
AllManifests == {ManifestOf(c) : c \in Cuts}
NoFragments == {}

\* The pins have no file in common with the publications, and no variable but
\* the lock and the process: histories of both are looked at separately.
\* The benchmark that deletes blocks does so after it has published.
Separately ==
    /\ (\E r \in Requests : request'[r].pc # "new") =>
           disk'[PinFile] = "absent" /\ pins' = {} /\ acked' = {}
    /\ deleted' \subseteq deleted \/ \E r \in Requests : request[r].pc = "ok"
=============================================================================
