---------------------------- MODULE MCController ----------------------------
(***************************************************************************)
(* Instances of Controller for TLC.                                         *)
(***************************************************************************)
EXTENDS Controller, TLC

(* Two bankgroups of one bank, two banks of one group. *)
GroupBanks == {[bg |-> 0, bank |-> 0], [bg |-> 1, bank |-> 0]}
SameGroupBanks == {[bg |-> 0, bank |-> 0], [bg |-> 0, bank |-> 1]}
OneBank == {[bg |-> 0, bank |-> 0]}

(* Indices and slices are interchangeable. *)
Symmetry == Permutations(CamIndex) \union Permutations(Bsc)
=============================================================================
