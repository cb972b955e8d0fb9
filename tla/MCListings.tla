------------------------------ MODULE MCListings ------------------------------
(* Listings for TLC: every listing, walked a row at a time.                 *)
EXTENDS Listings

MCKinds == AllKinds
=============================================================================
