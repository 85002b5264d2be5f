---------------------------- MODULE MCPartialImage ----------------------------
(* Values for model checking PartialImage.                                 *)
EXTENDS PartialImage, TLC

(* The sources differ in nothing but their name.                           *)
SourceSymmetry == Permutations(Sources)

SomeBad == {1, 3}
OneBad == {1}
=============================================================================
