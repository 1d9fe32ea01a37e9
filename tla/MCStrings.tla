------------------------------ MODULE MCStrings ------------------------------
(***************************************************************************)
(* Instances of Strings.  Sizes are scaled down, so that few characters    *)
(* are enough to fill a buffer, to grow it and to cut off a line.          *)
(***************************************************************************)
EXTENDS Strings, TLC

OneOrTwo == {<<"a">>, <<"b", "a">>}
Interchangeable == Permutations(Handles) \cup Permutations(Buffers)
=============================================================================
