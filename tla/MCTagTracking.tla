---------------------------- MODULE MCTagTracking ----------------------------
(* An instance of TagTracking. *)
EXTENDS TagTracking

CONSTANTS here, later, zero, one   \* places and values

MCLoc == {here, later}
MCDeferredLoc == {later}
MCValue == {zero, one}
MCSymmetry == Permutations(MCValue)
=============================================================================
