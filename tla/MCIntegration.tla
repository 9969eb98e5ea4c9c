---------------------------- MODULE MCIntegration ----------------------------
(***************************************************************************)
(* Integration on small sets.  Nothing tells two UIDs, two VPNs or two     *)
(* platforms apart, so the safety runs use their symmetry; the CHOOSE of   *)
(* the model picks among at most one value.                                *)
(***************************************************************************)
EXTENDS Integration, TLC

Symmetry == Permutations(Uid) \union Permutations(Name) \union Permutations(Platform)
=============================================================================
