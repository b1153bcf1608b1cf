------------------------------ MODULE MCTiers ------------------------------
(* A small instance of Tiers for TLC. *)
EXTENDS Tiers, TLC

CONSTANTS a, b, f

Interchangeable == Permutations(Names)
=============================================================================
