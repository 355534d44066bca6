----------------------------- MODULE MCVaultNotes -----------------------------
(***************************************************************************)
(* Instances of VaultNotes for TLC.                                        *)
(***************************************************************************)
EXTENDS VaultNotes, TLC
LOCAL INSTANCE SequencesExt
LOCAL INSTANCE Sequences

\* Calls, pool rows and devices are interchangeable.
Symmetry == Permutations(Ops) \cup Permutations(PoolIds) \cup Permutations(Devices)

\* The same for a liveness property, where a symmetry set is not sound: calls are
\* named in the order in which they begin.
OpSeq == SetToSeq(Ops)
CallsBeginInOrder ==
  \A i \in 2 .. Len(OpSeq) : op[OpSeq[i]].pc # "idle" => op[OpSeq[i - 1]].pc # "idle"

\* There is more to withdraw than one note of the smallest amount: withdrawals begin when
\* a note of another amount, or a second note, is being deposited.
EnoughToWithdraw ==
  (\E o \in Ops : op[o].kind = "withdraw")
    => LET D == {o \in Ops : op[o].kind = "deposit"}
       IN  Cardinality(D) > 1 \/ \E o \in D, a \in Amounts : op[o].out.amount > a

\* Deposits are of the largest amount and withdrawals of the smallest: a withdrawal
\* leaves change, and one that spends the change leaves none.
LargeInSmallOut ==
  \A o \in Ops, a \in Amounts :
    /\ op[o].kind = "deposit" => op[o].out.amount >= a
    /\ op[o].kind = "withdraw" => op[o].amount <= a
===============================================================================
