--------------------------- MODULE MCSpiffsStore ---------------------------
(* SpiffsStore for TLC: the ids a lookup entry may hold, and bounds. *)
EXTENDS SpiffsStore, TLC

MCLuIds == ObjIds \X {"data", "index"}
Symmetry == Permutations(ObjIds) \cup Permutations(Bytes)
=============================================================================
