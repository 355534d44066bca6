---------------------------- MODULE MCStrategyNotes ----------------------------
(***************************************************************************)
(* Instances of StrategyNotes for TLC.                                     *)
(***************************************************************************)
EXTENDS StrategyNotes, TLC

\* Deposits, calls, devices and passes are interchangeable.
Symmetry == Permutations(Deposits) \cup Permutations(Calls) \cup Permutations(Devices)
              \cup Permutations(Ticks)
===============================================================================
