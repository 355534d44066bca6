----------------------------- MODULE PoolContract -----------------------------
(***************************************************************************)
(* What the pool of spare precommitments promises the calls that draw on   *)
(* it, with no requests in it: the secret of a row is lent to one call at  *)
(* a time, and once a note of the vault carries it, to nobody else again.  *)
(* SparePool implements this with its requests, and VaultNotes, which      *)
(* takes a claim to be one step, relies on no more.                        *)
(***************************************************************************)
CONSTANTS
  Users,   \* the calls that draw on the pool
  Rows     \* the spare rows the table may come to hold

VARIABLE lent   \* lent[r]: is row r on offer, who has it, does a note carry it?

\* A row nobody has, on offer or not; a row call c has; a row about which nothing is
\* promised any more.
Free(offered) == [offered |-> offered, by |-> {}, carried |-> FALSE]
Held(c, carried) == [offered |-> FALSE, by |-> {c}, carried |-> carried]
Void == [offered |-> FALSE, by |-> {}, carried |-> TRUE]

Init == lent = [r \in Rows |-> Free(FALSE)]

\* The row is put on offer or taken off it.
Offer(old, new) == {old, new} \subseteq {Free(TRUE), Free(FALSE)}

\* A row nobody has is lent to a call.
Lend(old, new) == old \in {Free(TRUE), Free(FALSE)} /\ \E c \in Users : new = Held(c, FALSE)

\* A note of the vault comes to carry its secret.
Carry(old, new) == \E c \in Users : old = Held(c, FALSE) /\ new = Held(c, TRUE)

\* The call comes to nothing and the row is given back, or is left behind.
Return(old, new) ==
  (\E c \in Users : old = Held(c, FALSE)) /\ new \in {Free(TRUE), Free(FALSE)}

RowStep(old, new) ==
  \/ new \in {old, Void}
  \/ Offer(old, new) \/ Lend(old, new) \/ Carry(old, new) \/ Return(old, new)

\* Rows have nothing to do with each other: one request may lose several.
Next == lent' = [r \in Rows |-> lent'[r]] /\ \A r \in Rows : RowStep(lent[r], lent'[r])

Spec == Init /\ [][Next]_lent
===============================================================================
