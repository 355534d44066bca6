------------------------------ MODULE VaultNotes ------------------------------
(***************************************************************************)
(* Life of a shielded note in the browser: deposit() and withdraw() of     *)
(* src/src/lib/handler.ts, with the part of generateZKData                 *)
(* (src/src/lib/zkHandler.ts) that chooses the notes to spend, the note    *)
(* rows in localStorage, the commitments and precommitments tables on the  *)
(* server, and the vault contract.                                         *)
(*                                                                         *)
(* A process is one call of deposit() or withdraw().  Calls that run at    *)
(* the same time are calls of different tabs, which share the localStorage *)
(* of their device, or of different devices, which share only the server   *)
(* and the chain.  Every await of a handler is a step boundary.            *)
(***************************************************************************)
EXTENDS LocalNotes, Naturals, FiniteSets, FiniteSetsExt

CONSTANTS
  Ops,              \* the calls of deposit() and withdraw()
  Devices,          \* localStorage origins
  PoolIds,          \* rows the precommitments table may come to hold
  Amounts,          \* amounts a user deposits or withdraws
  MaxNotes,         \* MAX_NOTES, the most inputs of one proof
  RpcMayFail,       \* may a read of the chain, or a wait for a receipt, fail?
                    \* (the wait also throws when the user speeds the transaction up)
  ExecutorMayFail,  \* may a request to the server fail?
  ClaimMayFail,     \* may the claim of a pool row made on the spot be refused?
  StorageMayFail    \* may the row of a change note fail to be written?

None == "none"

ASSUME AmountsAssumption == Amounts \subseteq Nat \ {0}
ASSUME MaxNotesAssumption == MaxNotes \in Nat \ {0}
ASSUME PoolIdsAssumption == None \notin PoolIds
ASSUME FaultsAssumption ==
  {RpcMayFail, ExecutorMayFail, ClaimMayFail, StorageMayFail} \subseteq BOOLEAN

VARIABLES
  op,      \* op[o]: the locals of call o
  tx,      \* tx[o]: the transaction call o sends
  local,   \* local[d]: the note rows in the localStorage of device d
  row,     \* row[o]: the spent flag of the commitments row call o posts
  pool     \* pool[k]: the status of precommitments row k

vars == <<op, tx, local, row, pool>>

-------------------------------------------------------------------------------
(***************************************************************************)
(* Secrets are random field elements, so a secret is named by where it     *)
(* comes from: drawn by a deposit, held by a pool row, or derived from the *)
(* nullifiers of the notes being spent (the fallback of generateZKData).   *)
(***************************************************************************)
FreshSecret(o) == <<"fresh", o>>
PoolSecret(k) == <<"pool", k>>
DerivedSecret(S) == <<"derived", S>>

NewNote(s, a) == [secret |-> s, amount |-> a]

NoNote == NewNote(<<None>>, 0)

Secrets(N) == {n.secret : n \in N}
Value(N) == SumFunction([n \in N |-> n.amount])

\* The locals of a call when it starts.
NewCall(kind, pc, d, amount, snap, out) ==
  [kind |-> kind, pc |-> pc, dev |-> d, amount |-> amount, snap |-> snap, ids |-> {},
   ins |-> {}, out |-> out, pool |-> None, marks |-> {}]

IdleOp == NewCall(None, "idle", None, 0, {}, NoNote)

\* Where a call can be.  The last three are final.
Final == {"done", "failed", "crashed"}
PCs == {"idle", "scanned", "hydrated", "selected", "claimed", "prewritten",
        "sent", "confirmed", "posted"} \cup Final

TxStatus == {"unsent", "pending", "mined", "reverted"}
RowStatus == Status \cup {"absent"}
PoolStatus == {"none", "pending", "in_use", "resolved"}

-------------------------------------------------------------------------------
(***************************************************************************)
(* The vault contract: a leaf for each mined transaction, a nullifier for  *)
(* each note a mined withdrawal spends.                                    *)
(***************************************************************************)
Mined == {o \in Ops : tx[o] = "mined"}
Leaves == {op[o].out : o \in Mined}
Nullified == UNION {Secrets(op[o].ins) : o \in Mined}

\* The leaves the scan of call o returned.
Snapshot(o) == {op[p].out : p \in op[o].snap}

-------------------------------------------------------------------------------
Init ==
  /\ op = [o \in Ops |-> IdleOp]
  /\ tx = [o \in Ops |-> "unsent"]
  /\ local = [d \in Devices |-> EmptyStore]
  /\ row = [o \in Ops |-> "absent"]
  /\ pool = [k \in PoolIds |-> "none"]

Goto(o, from, to) == op[o].pc = from /\ op' = [op EXCEPT ![o].pc = to]

Store(o) == local[op[o].dev]
SetStore(o, store) == local' = [local EXCEPT ![op[o].dev] = store]

-------------------------------------------------------------------------------
(***************************************************************************)
(* deposit()                                                               *)
(***************************************************************************)

\* Draws the secrets and writes the row as 'pending', before any transaction.
BeginDeposit(o, d, a) ==
  LET note == NewNote(FreshSecret(o), a) IN
  /\ op[o].pc = "idle"
  /\ op' = [op EXCEPT ![o] = NewCall("deposit", "prewritten", d, 0, {}, note)]
  /\ local' = [local EXCEPT ![d] = Put(@, note, "pending")]
  /\ UNCHANGED <<tx, row, pool>>

\* Both handlers: the wallet signs and broadcasts the transaction.
SendTx(o) ==
  /\ Goto(o, "prewritten", "sent")
  /\ tx' = [tx EXCEPT ![o] = "pending"]
  /\ UNCHANGED <<local, row, pool>>

\* The receipt is in, the contract addresses were read and the LeafInserted log
\* was found: finalDepositId is set and the row becomes spendable.
ConfirmDeposit(o) ==
  /\ op[o].kind = "deposit" /\ tx[o] = "mined"
  /\ Goto(o, "sent", "confirmed")
  /\ SetStore(o, Mark(Store(o), op[o].out, "false"))
  /\ UNCHANGED <<tx, row, pool>>

\* postCommitment, best effort: the call succeeds whether or not the row is made.
PostDeposit(o) ==
  /\ op[o].kind = "deposit"
  /\ Goto(o, "confirmed", "done")
  /\ \/ row' = [row EXCEPT ![o] = "false"]
     \/ ExecutorMayFail /\ UNCHANGED row
  /\ UNCHANGED <<tx, local, pool>>

\* Mutant of Throws: a wait that gives up counts as a transaction that failed.
ThrowsOnTimeout(o) ==
  \/ op[o].pc = "prewritten"
  \/ op[o].pc = "sent" /\ tx[o] # "mined"

\* What ends up in a handler's catch block: the user or the node refuses the
\* transaction; it reverts; or, if reads may fail, the wait for the receipt (or,
\* for a deposit, a read that follows it) throws whatever the transaction did.
Throws(o) ==
  \/ op[o].pc = "prewritten"
  \/ op[o].pc = "sent" /\ (tx[o] = "reverted" \/ RpcMayFail)

\* The catch block of deposit(): finalDepositId is not set, so the row is hidden.
FailDeposit(o) ==
  /\ op[o].kind = "deposit"
  /\ Throws(o)
  /\ op' = [op EXCEPT ![o].pc = "failed"]
  /\ SetStore(o, Mark(Store(o), op[o].out, "true"))
  /\ UNCHANGED <<tx, row, pool>>

-------------------------------------------------------------------------------
(***************************************************************************)
(* withdraw()                                                              *)
(***************************************************************************)

\* generateZKData scans the leaves of the vault, bypassing the leaf cache.
BeginWithdraw(o, d, a) ==
  /\ op[o].pc = "idle"
  /\ op' = [op EXCEPT ![o] = NewCall("withdraw", "scanned", d, a, Mined, NoNote)]
  /\ UNCHANGED <<tx, local, row, pool>>

\* generateZKData copies the server's unspent rows into localStorage where the
\* device has no readable row, and keeps one row id per commitment for later.
Hydrate(o) ==
  LET unspent == {p \in Ops : row[p] = "false"}
      notes == {op[p].out : p \in unspent}
  IN
  /\ op[o].pc = "scanned"
  /\ \E ids \in SUBSET unspent :
       /\ {op[p].out : p \in ids} = notes
       /\ \A p, q \in ids : op[p].out = op[q].out => p = q
       /\ op' = [op EXCEPT ![o].pc = "hydrated", ![o].ids = ids]
  /\ SetStore(o, PutAll(Store(o), notes \ DOMAIN Store(o), "false"))
  /\ UNCHANGED <<tx, row, pool>>

\* The fetch fails: "Server commitment fetch failed, using localStorage only".
HydrateFails(o) ==
  /\ ExecutorMayFail
  /\ Goto(o, "scanned", "hydrated")
  /\ UNCHANGED <<tx, local, row, pool>>

\* Mutant of Listed: a row whose confirmation never ran is passed over.
ListedSettled(o) == {n \in DOMAIN Store(o) : Store(o)[n] = "false" /\ n.amount > 0}

\* The notes the triage loop looks at: not marked spent, not empty.
Listed(o) == {n \in DOMAIN Store(o) : Store(o)[n] # "true" /\ n.amount > 0}

\* Of those, the ones whose nullifier reads as spent.  A read that fails counts
\* as unspent: an error never hides funds.
SpentReads(o) ==
  LET spent == {n \in Listed(o) : n.secret \in Nullified}
  IN  IF RpcMayFail THEN SUBSET spent ELSE {spent}

\* The greedy fill: largest first until the amount is reached or the proof is
\* full.  Which of two equal notes comes first is not specified.
IsGreedy(N, C, a) ==
  /\ N \subseteq C
  /\ \A n \in N, m \in C \ N : n.amount >= m.amount
  /\ \A n \in N : (\A m \in N : n.amount <= m.amount) => Value(N \ {n}) < a
  /\ Cardinality(N) <= MaxNotes
  /\ Value(N) >= a \/ Cardinality(N) = MaxNotes \/ N = C

\* Triage and selection.  Rows whose nullifier is spent are marked on the way;
\* candidates must be in the leaf snapshot.  Too little value is an error, and
\* the call ends there;
\* the one retry of withdraw (handler.ts:371) is a call of its own.
Select(o) ==
  /\ op[o].pc = "hydrated"
  /\ \E spent \in SpentReads(o) :
       LET cands == (Listed(o) \ spent) \cap Snapshot(o) IN
       /\ SetStore(o, MarkAll(Store(o), spent, "true"))
       /\ \E N \in SUBSET cands :
            /\ IsGreedy(N, cands, op[o].amount)
            /\ IF Value(N) >= op[o].amount
               THEN op' = [op EXCEPT ![o].pc = "selected", ![o].ins = N]
               ELSE op' = [op EXCEPT ![o].pc = "failed"]
  /\ UNCHANGED <<tx, row, pool>>

\* Mutant of ChangeNote: the greedy fill is taken to be exact.
NoChangeNote(o, s) == NewNote(s, 0)

\* The change note of call o for a secret: what is left over, even if nothing is.
ChangeNote(o, s) == NewNote(s, Value(op[o].ins) - op[o].amount)

Claimed(o, s, k) ==
  op' = [op EXCEPT ![o].pc = "claimed", ![o].out = ChangeNote(o, s), ![o].pool = k]

\* Mutant of ClaimFromPool: the row is read and used, but not taken.
UseWithoutClaim(o, k) ==
  /\ op[o].pc = "selected"
  /\ pool[k] \in {"pending", "none"}
  /\ Claimed(o, PoolSecret(k), k)
  /\ UNCHANGED <<tx, local, row, pool>>

\* The rows that claims without an answer may take while the pool is searched.
LostRows == IF ExecutorMayFail THEN SUBSET {k \in PoolIds : pool[k] = "pending"} ELSE {{}}
Take(K) == pool' = [k \in PoolIds |-> IF k \in K THEN "in_use" ELSE pool[k]]

\* claimFromPool takes a pending row or, when it gets none, makes one and takes it.
\* If even that claim is refused it makes another row and uses that one, claimed or
\* not.  A row whose secret is that of an input is not used, and stays taken.
ClaimFromPool(o, k) ==
  /\ op[o].pc = "selected"
  /\ \/ /\ \/ pool[k] = "pending"
           \/ pool[k] = "none" /\ (ExecutorMayFail \/ \A j \in PoolIds : pool[j] # "pending")
        /\ \E lost \in LostRows : Take(lost \cup {k})
     \/ /\ ClaimMayFail /\ pool[k] = "none"
        /\ pool' = [pool EXCEPT ![k] = "pending"]
  /\ IF PoolSecret(k) \in Secrets(op[o].ins)
     THEN Claimed(o, DerivedSecret(Secrets(op[o].ins)), None)
     ELSE Claimed(o, PoolSecret(k), k)
  /\ UNCHANGED <<tx, local, row>>

\* claimFromPool throws: the change secrets are derived from the inputs.
ClaimFails(o) ==
  /\ ExecutorMayFail
  /\ op[o].pc = "selected"
  /\ Claimed(o, DerivedSecret(Secrets(op[o].ins)), None)
  /\ \E lost \in LostRows : Take(lost)
  /\ UNCHANGED <<tx, local, row>>

\* Would the vault take the transaction of call o now: is every input's nullifier
\* new, and none given twice?
Accepts(o) ==
  /\ Secrets(op[o].ins) \cap Nullified = {}
  /\ \A m, n \in op[o].ins : m.secret = n.secret => m = n

\* Is there a change note worth a row?
HasChange(o) == op[o].out.amount > 0

\* Mutants of PreTxStatus: spendable at once; the word of the pool's vocabulary.
SpendableAtOnce == "false"
PoolWord == "in_use"

\* The status the row of a change note gets before the transaction is sent.
PreTxStatus == "pending"

\* Mutant of PreWriteChange: the row is left to the confirmation to write.
NoPreWrite(o) ==
  /\ Accepts(o)
  /\ Goto(o, "claimed", "prewritten")
  /\ UNCHANGED <<tx, local, row, pool>>

\* The dry run passes, and the row of the change note is written before the
\* transaction.  A failure to write it is only logged.
PreWriteChange(o) ==
  /\ Accepts(o)
  /\ Goto(o, "claimed", "prewritten")
  /\ \/ IF HasChange(o)
        THEN SetStore(o, Put(Store(o), op[o].out, PreTxStatus))
        ELSE UNCHANGED local
     \/ StorageMayFail /\ UNCHANGED local
  /\ UNCHANGED <<tx, row, pool>>

\* The proof or the dry run fails: an early return, before the catch block that
\* gives the pool row back.
AbandonWithdraw(o) ==
  /\ RpcMayFail \/ ~ Accepts(o)
  /\ Goto(o, "claimed", "failed")
  /\ UNCHANGED <<tx, local, row, pool>>

\* The receipt is in: the inputs are marked spent, requests to mark their server
\* rows are fired and not awaited, and the change note becomes spendable.
ConfirmWithdraw(o) ==
  /\ op[o].kind = "withdraw" /\ op[o].pc = "sent" /\ tx[o] = "mined"
  /\ op' = [op EXCEPT ![o].pc = "confirmed", ![o].marks = op[o].ins]
  /\ LET spent == MarkAll(Store(o), op[o].ins, "true") IN
     SetStore(o, IF HasChange(o) THEN Mark(spent, op[o].out, "false") ELSE spent)
  /\ UNCHANGED <<tx, row, pool>>

\* The server rows a mark request for note n touches: the one whose id hydration
\* remembered, or else every row of that commitment.
MarkedRows(o, n) ==
  LET known == {p \in op[o].ids : op[p].out = n}
  IN  IF known # {} THEN known
      ELSE {p \in Ops : op[p].out = n /\ row[p] # "absent"}

\* A mark request arrives.  One that never does is lost.
DeliverMark(o, n) ==
  /\ n \in op[o].marks
  /\ op' = [op EXCEPT ![o].marks = @ \ {n}]
  /\ row' = [p \in Ops |-> IF p \in MarkedRows(o, n) THEN "true" ELSE row[p]]
  /\ UNCHANGED <<tx, local, pool>>

\* postCommitment of the change note, best effort.
PostChange(o) ==
  /\ op[o].kind = "withdraw"
  /\ Goto(o, "confirmed", "posted")
  /\ \/ IF HasChange(o) THEN row' = [row EXCEPT ![o] = "false"] ELSE UNCHANGED row
     \/ ExecutorMayFail /\ UNCHANGED row
  /\ UNCHANGED <<tx, local, pool>>

\* A PATCH of the pool row of call o.  Its answer is not looked at.
PatchPool(o, status) ==
  \/ pool' = [k \in PoolIds |-> IF k = op[o].pool THEN status ELSE pool[k]]
  \/ ExecutorMayFail /\ UNCHANGED pool

\* Mutant of ResolvePool: the pool row is never resolved.
DoneUnresolved(o) ==
  /\ Goto(o, "posted", "done")
  /\ UNCHANGED <<tx, local, row, pool>>

\* The pool row has served: resolvePrecommitment.
ResolvePool(o) ==
  /\ Goto(o, "posted", "done")
  /\ PatchPool(o, "resolved")
  /\ UNCHANGED <<tx, local, row>>

\* The catch block of withdraw(): the change note is hidden and the pool row is
\* given back.
FailWithdraw(o) ==
  /\ op[o].kind = "withdraw"
  /\ Throws(o)
  /\ op' = [op EXCEPT ![o].pc = "failed"]
  /\ SetStore(o, IF HasChange(o) THEN Mark(Store(o), op[o].out, "true") ELSE Store(o))
  /\ PatchPool(o, "pending")
  /\ UNCHANGED <<tx, row>>

\* ensurePool, run in the background by withdraw() and claimFromPool.
RefillPool(k) ==
  /\ \E o \in Ops : op[o].kind = "withdraw"
  /\ pool[k] = "none"
  /\ pool' = [pool EXCEPT ![k] = "pending"]
  /\ UNCHANGED <<op, tx, local, row>>

-------------------------------------------------------------------------------
(***************************************************************************)
(* The chain and the tab.                                                  *)
(***************************************************************************)

\* The vault accepts a transaction none of whose inputs is nullified: it inserts
\* the output as a leaf and records the nullifiers.
MineTx(o) ==
  /\ tx[o] = "pending"
  /\ Accepts(o)
  /\ tx' = [tx EXCEPT ![o] = "mined"]
  /\ UNCHANGED <<op, local, row, pool>>

\* The vault refuses it, or it is cancelled before it is mined.
RevertTx(o) ==
  /\ tx[o] = "pending"
  /\ tx' = [tx EXCEPT ![o] = "reverted"]
  /\ UNCHANGED <<op, local, row, pool>>

\* The tab is closed.  What it sent stays sent; a mark request may still arrive.
CloseTab(o) ==
  /\ op[o].pc \notin Final \cup {"idle"}
  /\ op' = [op EXCEPT ![o].pc = "crashed"]
  /\ UNCHANGED <<tx, local, row, pool>>

Begin(o) ==
  \E d \in Devices, a \in Amounts : BeginDeposit(o, d, a) \/ BeginWithdraw(o, d, a)

Deposit(o) == ConfirmDeposit(o) \/ PostDeposit(o) \/ FailDeposit(o)

Withdraw(o) ==
  \/ Hydrate(o) \/ HydrateFails(o) \/ Select(o)
  \/ \E k \in PoolIds : ClaimFromPool(o, k)
  \/ ClaimFails(o) \/ PreWriteChange(o) \/ AbandonWithdraw(o)
  \/ ConfirmWithdraw(o) \/ PostChange(o) \/ ResolvePool(o) \/ FailWithdraw(o)
  \/ \E n \in op[o].marks : DeliverMark(o, n)

Next ==
  \/ \E o \in Ops : Begin(o) \/ Deposit(o) \/ Withdraw(o)
                    \/ SendTx(o) \/ MineTx(o) \/ RevertTx(o) \/ CloseTab(o)
  \/ \E k \in PoolIds : RefillPool(k)

Spec == Init /\ [][Next]_vars
-------------------------------------------------------------------------------
(***************************************************************************)
(* Properties                                                              *)
(***************************************************************************)

IsNote(n) == n = [secret |-> n.secret, amount |-> n.amount]

IsCall(c) ==
  /\ c = [kind |-> c.kind, pc |-> c.pc, dev |-> c.dev, amount |-> c.amount,
           snap |-> c.snap, ids |-> c.ids, ins |-> c.ins, out |-> c.out,
           pool |-> c.pool, marks |-> c.marks]
  /\ c.kind \in {None, "deposit", "withdraw"} /\ c.pc \in PCs
  /\ c.pc # "idle" => c.dev \in Devices
  /\ c.amount \in Nat
  /\ c.snap \subseteq Ops /\ c.ids \subseteq Ops
  /\ \A n \in c.ins \cup c.marks \cup {c.out} : IsNote(n)
  /\ c.pool \in PoolIds \cup {None}

CallsOK == op = [o \in Ops |-> op[o]] /\ \A o \in Ops : IsCall(op[o])

IsNoteStore(store) == IsStore(store) /\ \A n \in DOMAIN store : IsNote(n)
StoresOK ==
  local = [d \in Devices |-> local[d]] /\ \A d \in Devices : IsNoteStore(local[d])

\* Types of the calls, the transactions, the rows and the stores.
TypeOK ==
  /\ CallsOK
  /\ StoresOK
  /\ tx \in [Ops -> TxStatus]
  /\ row \in [Ops -> RowStatus]
  /\ pool \in [PoolIds -> PoolStatus]

\* The notes whose value can still be withdrawn.
Unspent == {n \in Leaves : n.amount > 0 /\ n.secret \notin Nullified}

\* A row that shows a note as spendable is the row of a leaf of the vault: the
\* wallet never shows money that is not there, whichever step fails.
SpendableIsOnChain ==
  \A d \in Devices : \A n \in DOMAIN local[d] :
    local[d][n] = "false" => n \in Leaves

\* Another call makes the same note: both derived its secret from the same inputs.
MadeTwice(o) == \E p \in Ops \ {o} : op[p].out = op[o].out

\* A leaf that can be withdrawn is not hidden on the device that made it, unless
\* another call made the same note and hid it when its own transaction failed.
UnspentNotHidden ==
  \A o \in Mined : op[o].out \in Unspent =>
    ~ HasStatus(local[op[o].dev], op[o].out, "true") \/ MadeTwice(o)

\* A tab closed at any point loses no note: the secrets of a leaf that can be
\* withdrawn are in the localStorage of the device that made it.
UnspentIsStored ==
  \A o \in Mined : op[o].out \in Unspent => op[o].out \in DOMAIN local[op[o].dev]

\* No two leaves share a nullifier: spending one would burn the other.
LeafSecretsDiffer ==
  \A o, p \in Mined : op[o].out.secret = op[p].out.secret => o = p

\* What was deposited and not paid out is what the unspent leaves are worth.
Deposited(O) == SumFunction([o \in O |-> op[o].out.amount])
Paid(O) == SumFunction([o \in O |-> op[o].amount])
NoValueBurned ==
  LET deposits == {o \in Mined : op[o].kind = "deposit"}
  IN  Deposited(deposits) = Value(Unspent) + Paid(Mined \ deposits)

\* No "false 'Insufficient balance'" (zkHandler.ts:1263): a withdrawal is refused only if
\* no choice of notes that fits its proof, of those this device made, the scan saw and
\* nobody spent, covers the amount.  No tab that was closed, failed or raced it hides a
\* note from it, and the greedy fill misses no choice that would do.
OwnUnspent(o) ==
  LET own == {p \in op[o].snap : op[p].dev = op[o].dev /\ ~ MadeTwice(p)}
  IN  {op[p].out : p \in own} \cap Unspent
RefusedOnlyIfShort ==
  [][\A o \in Ops : op[o].pc = "hydrated" /\ op'[o].pc = "failed" =>
       \A N \in SUBSET OwnUnspent(o) :
         Cardinality(N) <= MaxNotes => Value(N) < op[o].amount]_vars

\* The wallet implements the ledger: whatever tabs, devices and failures do, the vault
\* only ever sees deposits of fresh notes and whole, covered, single spends.
Payments == {<<op[o].out.secret, op[o].amount>> : o \in {p \in Mined : op[p].kind = "withdraw"}}
Ledger == INSTANCE ShieldedLedger WITH leaves <- Leaves, spent <- Nullified, paid <- Payments
ImplementsLedger == Ledger!Spec

\* A pool row goes back to the pool only if its secret is not on chain and never
\* will be by a transaction already sent: the next claim gets an unused nullifier.
UsedSecrets == Secrets({op[o].out : o \in {p \in Ops : tx[p] \in {"pending", "mined"}}})
ReleasedIsUnused ==
  [][\A k \in PoolIds : pool[k] # "pending" /\ pool'[k] = "pending"
                            => PoolSecret(k) \notin UsedSecrets]_vars

\* A call has the row of its claim until its catch block gives it back.
Holds(o) == op[o].pool # None /\ op[o].pc # "failed"

\* The pool as its users see it, for what withdrawals do to it.
View(k) ==
  [offered |-> pool[k] = "pending", by |-> {o \in Ops : Holds(o) /\ op[o].pool = k},
   carried |-> \E o \in Mined : op[o].pool = k]
Contract == INSTANCE PoolContract WITH Users <- Ops, Rows <- PoolIds,
                                       lent <- [k \in PoolIds |-> View(k)]

\* The pool this module claims from in one step is the one SparePool implements request
\* by request: withdrawals that race for a row, lose it, give it back or leave it behind
\* never have one together, nor again after a note of the vault carries its secret.
KeepsContract == Contract!Spec

-------------------------------------------------------------------------------
(***************************************************************************)
(* Fairness: a tab that stays open runs its continuations, a request that  *)
(* was sent arrives, and the chain decides every transaction.  The user    *)
(* owes nothing, so SendTx and the Begin steps are not fair.               *)
(***************************************************************************)
Continue(o) == Deposit(o) \/ Withdraw(o)
Decide(o) == MineTx(o) \/ RevertTx(o)
FairSpec == Spec /\ \A o \in Ops : WF_vars(Continue(o) /\ op[o].pc # "prewritten")
                                     /\ WF_vars(Decide(o))

\* A withdrawal that was sent settles, unless its tab is closed: mined, its inputs
\* are spent, its change note is out of flight and backed up and its pool row is
\* resolved; reverted, its change note is out of flight and its pool row is free.
Settled(o) ==
  \/ op[o].pc = "crashed"
  \/ /\ op[o].pc = "done"
     /\ Secrets(op[o].ins) \subseteq Nullified
     /\ HasChange(o) => ~ HasStatus(Store(o), op[o].out, "pending") /\ row[o] # "absent"
     /\ op[o].pool \in PoolIds => pool[op[o].pool] = "resolved"
  \/ /\ op[o].pc = "failed"
     /\ ~ HasStatus(Store(o), op[o].out, "pending")
     /\ op[o].pool \in PoolIds => pool[op[o].pool] # "in_use"
WithdrawSettles ==
  \A o \in Ops : (op[o].kind = "withdraw" /\ op[o].pc = "sent") ~> Settled(o)
===============================================================================
