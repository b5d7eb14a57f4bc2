--------------------------- MODULE MCFileTransfer ---------------------------
(* A file of more than one chunk, a manifest, a path that is not allowed.  *)
(* Sizes: nothing, a part of a chunk, chunk and a part, and more than the  *)
(* message can announce.                                                   *)
EXTENDS FileTransfer

MCSize0 == [n \in Name |-> CASE n = "pak" -> 3 [] n = "mfs" -> 1 [] OTHER -> 0]
=============================================================================
