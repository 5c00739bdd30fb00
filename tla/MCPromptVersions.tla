-------------------------- MODULE MCPromptVersions --------------------------
(***************************************************************************)
(* Small instances of PromptVersions for TLC.                              *)
(***************************************************************************)
EXTENDS PromptVersions, TLC

\* Operators are interchangeable.
MCSymmetry == Permutations(Operators)
=============================================================================
