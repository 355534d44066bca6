----------------------------- MODULE MCSparePool -----------------------------
(***************************************************************************)
(* Instances of SparePool for TLC.                                         *)
(***************************************************************************)
EXTENDS SparePool, Sequences, TLC

LOCAL INSTANCE SequencesExt

\* Calls and rows of one kind are interchangeable.
Symmetry == Permutations(Calls) \cup Permutations(PoolRows) \cup Permutations(OutputRows)

\* A liveness run may not use symmetry sets: it takes the calls, and the rows of the
\* pool, in one order instead.
CallSeq == SetToSeq(Calls)
RowSeq == SetToSeq(PoolRows)

InOrder ==
  /\ \A i \in 2..Len(CallSeq) : ~ At(CallSeq[i], "idle") => ~ At(CallSeq[i - 1], "idle")
  /\ \A i \in 2..Len(RowSeq) : status[RowSeq[i]] # "none" => status[RowSeq[i - 1]] # "none"
===============================================================================
