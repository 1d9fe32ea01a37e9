---------------------------- MODULE MCStringLists ----------------------------
(***************************************************************************)
(* Instances of StringLists.                                               *)
(***************************************************************************)
EXTENDS StringLists, TLC

Interchangeable == Permutations(Handles) \cup Permutations(Strings)
                   \cup Permutations(Holders) \cup Permutations(Lists)
=============================================================================
