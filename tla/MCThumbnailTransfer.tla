------------------------ MODULE MCThumbnailTransfer ------------------------
(***************************************************************************)
(* Instances of the thumbnail transfer for TLC: a file with a small and a  *)
(* large thumbnail, and another file.                                      *)
(***************************************************************************)
EXTENDS ThumbnailTransfer

CONSTANTS small, large, other

FileOf == [t \in {small, large, other} |-> IF t = other THEN "cube" ELSE "benchy"]

(* Values of Worlds.  Rough: everything happens, at every point.  Orderly: *)
(* answers are decoded undisturbed, and the send and the decoder work.     *)
Rough == [interrupts |-> TRUE, faults |-> Faults, calls |-> 2]
Orderly == [interrupts |-> FALSE, faults |-> {"lost", "refused", "disk"}, calls |-> 3]

RoughAndOrderly == {Rough, Orderly}
=============================================================================
