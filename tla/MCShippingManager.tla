-------------------------- MODULE MCShippingManager --------------------------
(***************************************************************************)
(* Observations are alike, and so are SendCallbacks: safety runs use their *)
(* symmetry.                                                               *)
(***************************************************************************)
EXTENDS ShippingManager, TLC

Symmetry == Permutations(Obs) \cup Permutations(Callbacks)
=============================================================================
