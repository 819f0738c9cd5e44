---------------------------- MODULE MCFileFetch ----------------------------
(* A file of five chunks in batches of two: the second batch fetches the   *)
(* same block twice at once, the last one repeats the first chunk.         *)
EXTENDS FileFetch

CONSTANTS a, b

AB == {a, b}
ABBBA == <<a, b, b, b, a>>
Undamaged == {"absent", "whole"}
AllManifests == {"missing", "unsigned", "signed", "forged"}
=============================================================================
