--------------------------- MODULE MCSpiffsPages ---------------------------
(* SpiffsPages for TLC: model values for the markers and the ids. *)
EXTENDS SpiffsPages, TLC

Symmetry == Permutations(LuIds)
=============================================================================
