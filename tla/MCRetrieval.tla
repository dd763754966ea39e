----------------------------- MODULE MCRetrieval -----------------------------
(* Four chunks, of which a search sees three: the fusion has one to cut off, *)
(* and Wide = K + 1, where a chunk at the last rank of both searches still    *)
(* has to beat one at the first rank of one.                                 *)
EXTENDS Retrieval

Levels == 0..2
=============================================================================
