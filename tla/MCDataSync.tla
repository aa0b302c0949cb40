------------------------------- MODULE MCDataSync -------------------------------
(***************************************************************************)
(* DataSync for one symbol of a market that opens on three days.           *)
(***************************************************************************)
EXTENDS DataSync, TLC

Symmetry == Permutations(Syncers)
=============================================================================
