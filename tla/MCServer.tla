------------------------------ MODULE MCServer ------------------------------
(* Small instances of Server for TLC.                                       *)
EXTENDS Server, TLC

\* Endpoints and devices are only compared for equality.
Symmetry == Permutations(Endpoints) \union Permutations(Devices)
=============================================================================
