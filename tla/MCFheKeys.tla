------------------------------ MODULE MCFheKeys -------------------------------
(***************************************************************************)
(* Instances of FheKeys for TLC.                                           *)
(***************************************************************************)
EXTENDS FheKeys, TLC

\* Tasks, pages and devices are interchangeable.
Symmetry == Permutations(Tasks) \cup Permutations(Pages) \cup Permutations(Devices)
===============================================================================
