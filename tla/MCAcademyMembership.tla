------------------------- MODULE MCAcademyMembership -------------------------
(* AcademyMembership for TLC: one member, two academies (joining one and   *)
(* the limit of another), two clients; the configuration gives the values. *)
EXTENDS AcademyMembership, TLC

Symmetry == Permutations(Academies) \cup Permutations(Clients)
              \cup Permutations(CreditLimits)
=============================================================================
