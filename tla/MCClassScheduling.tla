-------------------------- MODULE MCClassScheduling --------------------------
(* ClassScheduling for TLC.  The configuration gives every constant its     *)
(* value: two classes, of which one may be recreated from the other, and    *)
(* two clients whose requests meet on one of them.                         *)
EXTENDS ClassScheduling
=============================================================================
