------------------------------ MODULE SplitOrder ------------------------------
(***************************************************************************)
(* A multi-leg order (TWAP or grid), in the browser: the arming fee        *)
(* deposited for the protocol, the split of one note of the wallet into    *)
(* slices, their rows, and the proofs of the legs (multiLegBuilder.ts,     *)
(* generateSplitProof of zkHandler.ts).                                    *)
(*                                                                         *)
(* An order is one call of buildLegsFromSplit; the orders of several tabs  *)
(* share localStorage, the wallet and the vault of one asset.  The wallet  *)
(* may be connected again at any time, which re-hydrates the server's      *)
(* notes.  What the executor does with the legs is not part of it, nor is  *)
(* the arming or the end of the strategies that hold notes.                *)
(***************************************************************************)
EXTENDS LocalNotes, Naturals, Sequences, FiniteSetsExt

CONSTANTS
  Orders,        \* the orders; also names their slices
  Deposits,      \* notes that are leaves of the vault from the start
  Values,        \* amounts a deposit may have
  Counts,        \* slice counts that may be asked for
  SplitN,        \* SPLIT_N, the outputs of the split circuit
  MaxAttempts,   \* retries of the fee deposit at the wallet's in-flight limit
  Interrupted    \* may a tab be closed, a wait for a transaction or a write fail?

ASSUME NamesAssumption == Orders \cap Deposits = {}
ASSUME BoundsAssumption == SplitN \in Nat \ {0} /\ MaxAttempts \in Nat
ASSUME SetsAssumption == Values \subseteq Nat /\ Counts \subseteq Nat /\ Interrupted \in BOOLEAN
ASSUME FiniteAssumption == IsFiniteSet(Deposits)

VARIABLES
  order,      \* order[o]: the locals of order o
  split,      \* split[o]: its split transaction
  value,      \* value[d]: the amount of deposit d
  server,     \* server[d]: the flag of the server's commitments row of deposit d
  rows,       \* the note rows in localStorage
  nullified   \* notes the vault knows as spent

chain == <<split, nullified>>
given == <<value, server>>
vars == <<order, chain, given, rows>>

-------------------------------------------------------------------------------
\* A note is a deposit or an output of the split of an order.
None == "none"
Deposit(d) == <<d, 0>>
Output(o, i) == <<o, i>>
DepositNotes == {Deposit(d) : d \in Deposits}
OutputNotes == Orders \X (1 .. SplitN)
Notes == DepositNotes \cup OutputNotes

Final == {"done", "failed", "lost", "closed"}
PCs == {"idle", "sendingFee", "backingOff", "awaitingFee", "proving", "fetching", "hydrating",
        "sending", "awaiting", "storing", "legs"} \cup Final
TxStates == {None, "sent", "mined", "reverted"}

\* n: the slices asked for; tries: retries of the fee deposit; seen: the leaves read;
\* todo: server rows still to write; input: the note chosen; out: the amounts of the
\* outputs; stored, legs: how many there are.  An order that gave up between its split and
\* the last of its rows is "lost".
Locals(n, pc) ==
  [n |-> n, pc |-> pc, tries |-> 0, seen |-> {}, todo |-> {},
   input |-> None, out |-> <<>>, stored |-> 0, legs |-> 0]

At(o, pc) == order[o].pc = pc
Goto(o, pc) == order' = [order EXCEPT ![o].pc = pc]
\* Goto, and the locals of the part that is over are dropped.
Leave(o, pc) == order' = [order EXCEPT ![o].pc = pc, ![o].tries = 0, ![o].seen = {}]
Running(o) == order[o].pc \notin Final \cup {"idle"}

Amount(note) == IF note \in DepositNotes THEN value[note[1]] ELSE order[note[1]].out[note[2]]

\* The leaves that are notes of the wallet: the fee's note is the protocol's.
Leaves == DepositNotes \cup {m \in OutputNotes : split[m[1]] = "mined"}

\* A deposit has its row, the server's, or both.  One that an armed strategy holds is
\* marked in both.
Init ==
  /\ order = [o \in Orders |-> Locals(0, "idle")]
  /\ split = [o \in Orders |-> None]
  /\ nullified = {}
  /\ value \in [Deposits -> Values]
  /\ server \in [Deposits -> {"absent", "false", "pending"}]
  /\ \E here \in SUBSET Deposits :
       /\ \A d \in Deposits \ here : server[d] = "false"
       /\ rows = [m \in {Deposit(d) : d \in here} |->
                    IF server[m[1]] = "pending" THEN "true" ELSE "false"]

-------------------------------------------------------------------------------
(***************************************************************************)
(* collectArmingFee                                                        *)
(***************************************************************************)

\* A fee is due if a price is known and the executor's pool has a precommitment.
Begin(o, n) ==
  /\ At(o, "idle")
  /\ \E pc \in {"sendingFee", "proving"} : order' = [order EXCEPT ![o] = Locals(n, pc)]
  /\ UNCHANGED <<chain, given, rows>>

\* Mutants: the retry does not count; one retry more.
SameAttempt(k) == k
MayRetryOnce(k) == k <= MaxAttempts

NextAttempt(k) == k + 1
MayRetry(k) == k < MaxAttempts

\* The wallet sends the deposit, or says that too many transactions are in flight, in
\* which case it is asked again later, or the fee is given up.
SendFee(o) ==
  /\ At(o, "sendingFee")
  /\ \/ Leave(o, "awaitingFee")
     \/ MayRetry(order[o].tries) /\ Goto(o, "backingOff")
     \/ Leave(o, "proving")
  /\ UNCHANGED <<chain, given, rows>>

Retry(o) ==
  /\ At(o, "backingOff")
  /\ order' = [order EXCEPT ![o].pc = "sendingFee", ![o].tries = NextAttempt(@)]
  /\ UNCHANGED <<chain, given, rows>>

\* tx.wait returns or throws: the order goes on whatever became of the fee, whose note is
\* the protocol's.
FeeReturns(o) ==
  /\ At(o, "awaitingFee") /\ Goto(o, "proving")
  /\ UNCHANGED <<chain, given, rows>>

-------------------------------------------------------------------------------
(***************************************************************************)
(* generateSplitProof                                                      *)
(***************************************************************************)

\* A count the circuit does not have ends the order, after the fee.
ReadLeaves(o) ==
  /\ At(o, "proving")
  /\ IF order[o].n \in 1 .. SplitN
     THEN order' = [order EXCEPT ![o].pc = "fetching", ![o].seen = Leaves]
     ELSE Goto(o, "failed")
  /\ UNCHANGED <<chain, given, rows>>

\* The server's rows that are not spent or reserved.
Fetched == {Deposit(d) : d \in {e \in Deposits : server[e] = "false"}}

\* A fetch that fails is only logged.
Fetch(o) ==
  /\ At(o, "fetching")
  /\ \E N \in {Fetched, {}} :
       order' = [order EXCEPT ![o].pc = "hydrating", ![o].todo = N]
  /\ UNCHANGED <<chain, given, rows>>

\* Each is written as spendable.  The row that may be there is looked for under the key
\* of older builds, and not found.
Rewrite(o, m) ==
  /\ At(o, "hydrating") /\ m \in order[o].todo
  /\ order' = [order EXCEPT ![o].todo = @ \ {m}]
  /\ rows' = Put(rows, m, "false")
  /\ UNCHANGED <<chain, given>>

\* Rows of leaves that were read, not marked and not empty; not those of spent notes.
Listed(o) ==
  {m \in DOMAIN rows \cap order[o].seen : rows[m] # "true" /\ Amount(m) > 0}
Candidates(o) == Listed(o) \ nullified
Largest(N) == {m \in N : \A k \in N : Amount(k) <= Amount(m)}

\* Mutant of Share: the remainder is left out.
EvenShare(v, n, i) == IF i <= n THEN v \div n ELSE 0

\* What output i of a split of v into n slices has: the last slice takes the remainder
\* and the outputs behind it nothing.
Share(v, n, i) ==
  CASE i < n -> v \div n
    [] i = n -> v - (v \div n) * (n - 1)
    [] i > n -> 0

\* The largest note is chosen; spent ones that were looked at are marked.
Choose(o) ==
  /\ At(o, "hydrating") /\ order[o].todo = {}
  /\ rows' = MarkAll(rows, Listed(o) \cap nullified, "true")
  /\ IF Candidates(o) = {} THEN Leave(o, "failed")
     ELSE \E m \in Largest(Candidates(o)) :
            order' = [order EXCEPT ![o].pc = "sending", ![o].seen = {}, ![o].input = m,
                        ![o].out = [i \in 1 .. SplitN |-> Share(Amount(m), order[o].n, i)]]
  /\ UNCHANGED <<chain, given>>

-------------------------------------------------------------------------------
(***************************************************************************)
(* submitSplitOnChain                                                      *)
(***************************************************************************)

SendSplit(o) ==
  /\ At(o, "sending")
  /\ Goto(o, "awaiting") /\ split' = [split EXCEPT ![o] = "sent"]
  /\ UNCHANGED <<nullified, given, rows>>

\* A read of the chain or the proof fails, or the user does not sign.
GiveUp(o) ==
  /\ order[o].pc \in {"proving", "hydrating", "sending"} /\ order[o].todo = {}
  /\ Leave(o, "failed")
  /\ UNCHANGED <<chain, given, rows>>

\* Mutant of Confirmed: the status of the receipt is not looked at.
Included(o) == split[o] \in {"mined", "reverted"}

\* The receipt is there and its status is 1.
Confirmed(o) == split[o] = "mined"

SplitReturns(o) ==
  /\ At(o, "awaiting")
  /\ \/ Confirmed(o) /\ Goto(o, "storing")
     \/ split[o] = "reverted" /\ Goto(o, "failed")
  /\ UNCHANGED <<chain, given, rows>>

\* The wait fails, or localStorage takes no more.
LoseSlices(o) ==
  /\ Interrupted /\ order[o].pc \in {"awaiting", "storing"} /\ order[o].stored < order[o].n
  /\ Goto(o, "lost")
  /\ UNCHANGED <<chain, given, rows>>

\* Mutant of ToStore: one slice too few.
AllButLast(o) == order[o].n - 1

\* How many outputs get a row: the slices, not the padding.
ToStore(o) == order[o].n

StoreSlice(o) ==
  /\ At(o, "storing") /\ order[o].stored < ToStore(o)
  /\ order' = [order EXCEPT ![o].stored = @ + 1]
  /\ rows' = Put(rows, Output(o, order[o].stored + 1), "false")
  /\ UNCHANGED <<chain, given>>

MarkInput(o) ==
  /\ At(o, "storing") /\ order[o].stored = ToStore(o)
  /\ Goto(o, "legs")
  /\ rows' = Mark(rows, order[o].input, "true")
  /\ UNCHANGED <<chain, given>>

-------------------------------------------------------------------------------
(***************************************************************************)
(* The legs of buildLegsFromSplit                                          *)
(***************************************************************************)

\* A key of localStorage: the form it is written in, and the note it names.  writeNote
\* takes either form and writes the new one.
RowKeys == {<<"siphon-note", m>> : m \in DOMAIN rows}
LegKey(o) == <<"plain", Output(o, order[o].legs + 1)>>

\* generateZKData takes, of the rows it scans, the one with the key it was given.
LegRows(o) == {k \in RowKeys : k = LegKey(o)}

Leg(o) ==
  /\ At(o, "legs")
  /\ order' = CASE LegRows(o) = {} -> [order EXCEPT ![o].pc = "failed"]
                [] order[o].legs + 1 = order[o].n -> [order EXCEPT ![o].pc = "done"]
                [] OTHER -> [order EXCEPT ![o].legs = @ + 1]
  /\ UNCHANGED <<chain, given, rows>>

-------------------------------------------------------------------------------
(***************************************************************************)
(* The vault, and what else the user does                                  *)
(***************************************************************************)

\* Entrypoint.split takes a root that was ever the tree's and a nullifier that is new;
\* it may run out of gas, or not exist in an older deployment.
MineSplit(o) ==
  /\ split[o] = "sent"
  /\ \/ /\ order[o].input \notin nullified
        /\ split' = [split EXCEPT ![o] = "mined"]
        /\ nullified' = nullified \cup {order[o].input}
     \/ split' = [split EXCEPT ![o] = "reverted"] /\ UNCHANGED nullified
  /\ UNCHANGED <<order, given, rows>>

\* A withdrawal spends a note; see VaultNotes.
Withdraw(m) ==
  /\ m \in (DOMAIN rows \cap Leaves) \ nullified /\ rows[m] # "true" /\ Amount(m) > 0
  /\ nullified' = nullified \cup {m}
  /\ rows' = Mark(rows, m, "true")
  /\ UNCHANGED <<order, split, given>>

\* initializeWithProvider fetches the server's rows that are not spent, the reserved ones
\* too, and writes one after the other those that are leaves as spendable: the row that may
\* be there is looked for under the key of older builds, and not found.  The server's rows
\* do not change here, so when they were fetched does not matter.
Rehydrate(d) ==
  /\ server[d] # "absent"
  /\ rows' = Put(rows, Deposit(d), "false")
  /\ UNCHANGED <<order, chain, given>>

CloseTab(o) ==
  /\ Interrupted /\ Running(o)
  /\ order' = [order EXCEPT ![o].pc = "closed", ![o].tries = 0, ![o].seen = {}, ![o].todo = {}]
  /\ UNCHANGED <<chain, given, rows>>

Work(o) ==
  \/ SendFee(o) \/ Retry(o) \/ FeeReturns(o) \/ ReadLeaves(o) \/ Fetch(o)
  \/ \E m \in order[o].todo : Rewrite(o, m)
  \/ Choose(o) \/ SendSplit(o) \/ GiveUp(o) \/ SplitReturns(o)
  \/ LoseSlices(o) \/ StoreSlice(o) \/ MarkInput(o) \/ Leg(o)

Next ==
  \/ \E o \in Orders : (\E n \in Counts : Begin(o, n)) \/ Work(o) \/ MineSplit(o) \/ CloseTab(o)
  \/ \E m \in Notes : Withdraw(m)
  \/ \E d \in Deposits : Rehydrate(d)

Spec == Init /\ [][Next]_vars

\* The page runs on, the user answers the wallet, and a transaction sent is included.
FairSpec == Spec /\ \A o \in Orders : WF_vars(Work(o)) /\ WF_vars(MineSplit(o))
-------------------------------------------------------------------------------
(***************************************************************************)
(* Properties                                                              *)
(***************************************************************************)
OrderType ==
  [n : Counts \cup {0}, pc : PCs, tries : 0 .. MaxAttempts,
   seen : SUBSET Notes, todo : SUBSET DepositNotes, input : Notes \cup {None},
   out : {<<>>} \cup [1 .. SplitN -> Nat], stored : 0 .. SplitN, legs : 0 .. SplitN]

\* Types of the orders, their transactions, the rows and the vault.
TypeOK ==
  /\ DOMAIN order = Orders
  /\ \A o \in Orders : order[o] \in OrderType
  /\ split \in [Orders -> TxStates]
  /\ value \in [Deposits -> Values]
  /\ server \in [Deposits -> {"absent", "false", "pending"}]
  /\ IsStore(rows) /\ DOMAIN rows \subseteq Notes
  /\ nullified \subseteq Notes

\* Splitting loses and makes no value: the leaves that were not split are worth, spent
\* or not, what was deposited ("remainder folded into the last real slice
\* (conservation)", zkHandler.ts:1012; the vault takes each input once).
SplitInputs == {order[o].input : o \in {e \in Orders : split[e] = "mined"}}
Worth(N) == SumFunction([m \in N |-> Amount(m)])
ValueConserved == Worth(Leaves \ SplitInputs) = Worth(DepositNotes)

\* Every unspent leaf of the wallet can be spent from its row or the server's, but for
\* the slices whose order is about to store them or was interrupted before: whatever
\* other orders, withdrawals and failed legs do.
NothingStranded ==
  \A m \in Leaves \ nullified :
    \/ Amount(m) = 0 \/ m \in DOMAIN rows \/ m[1] \in Deposits
    \/ /\ m[2] > order[m[1]].stored
       /\ order[m[1]].pc \in {"awaiting", "storing", "lost", "closed"}

Reserved(m) == m[1] \in Deposits /\ server[m[1]] = "pending"

\* A row marked as spent never hides an unspent note: its nullifier is used or an armed
\* strategy holds it, although orders of several tabs and a wallet that connects again
\* rewrite and mark the same rows.
HiddenIsSpent == \A m \in DOMAIN rows : rows[m] = "true" => m \in nullified \/ Reserved(m)

\* Each leg finds the row of its slice ("keyed ... so generateZKData can spend them by
\* note key", multiLegBuilder.ts:281).
LegsFindTheirSlice == \A o \in Orders : At(o, "legs") => LegRows(o) # {}

\* Every order comes to an end, also when the wallet's in-flight limit persists.
OrderEnds == \A o \in Orders : Running(o) ~> ~ Running(o)
===============================================================================
