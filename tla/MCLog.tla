-------------------------------- MODULE MCLog --------------------------------
(* Small instances of Log for TLC. *)
EXTENDS Log, TLC

\* Blocks and what they hold are only compared.
BlockSymmetry == Permutations(Blocks)
=============================================================================
