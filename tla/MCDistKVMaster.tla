--------------------------- MODULE MCDistKVMaster ---------------------------
(* Small instances of the Master for TLC.                                  *)
EXTENDS DistKVMaster, TLC

Symm == Permutations(Workers) \cup Permutations(Keys)
=============================================================================
