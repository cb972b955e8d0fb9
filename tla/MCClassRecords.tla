----------------------------- MODULE MCClassRecords -----------------------------
(* ClassRecords for TLC: one class, two people of whom one is a guest, two   *)
(* callers; the configuration gives the values.                            *)
EXTENDS ClassRecords, TLC

Symmetry == Permutations(Callers)
=============================================================================
