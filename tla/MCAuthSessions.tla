--------------------------- MODULE MCAuthSessions ---------------------------
(* AuthSessions for TLC: one user, two clients; the configuration gives     *)
(* the values.  A second user would share no row with the first.           *)
EXTENDS AuthSessions, TLC

Symmetry == Permutations(Clients)
=============================================================================
