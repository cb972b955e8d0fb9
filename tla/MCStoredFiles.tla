----------------------------- MODULE MCStoredFiles -----------------------------
(* StoredFiles for TLC: a user's photo and a resource of his, two slots that *)
(* can name each other's files; the configuration gives the other values.   *)
EXTENDS StoredFiles, TLC

CONSTANTS u1, r1

MCUploader == r1 :> u1

Symmetry == Permutations(Clients)
=============================================================================
