# Siphon wallet: a verification development in TLA+

Siphon is a Next.js front end for a shielded vault. A user deposits an asset and
gets a *note*: an amount and two secrets whose hash is a leaf of the vault's Merkle
tree. A withdrawal or a strategy spends notes by revealing their nullifiers and inserts
a *change note* for what is left. Secrets live in the browser's localStorage, backed up
in encrypted rows on a server. Nothing else knows them: a note whose row is lost, hidden
or given a nullifier that is already used is money lost. The modules here are about
that: what the handlers, the background jobs and the server rows do to notes when calls
of several tabs and devices interleave, requests fail and tabs close.

Paths below are relative to the repository (`lib/` is `src/lib/` in it).

## 1. Inventory

| Part | State it keeps | Operations | Hard part | Correct when |
|---|---|---|---|---|
| Deposit and withdrawal (`lib/handler.ts`, the selection in `lib/zkHandler.ts`) | the locals of a call, the note rows it writes | `deposit`, `withdraw`, `generateZKData` | awaits between reading rows, proving, sending and confirming; other tabs and devices; a wait that throws | no value lost, no note hidden, no two leaves share a nullifier |
| Note rows (`lib/localNoteStore.ts`) | `spent` of each row, in two key formats | write, mark, scan, migrate, purge, sync | overwrites; a sync that runs beside a handler | a row never shows money that is not there, never forgets a secret |
| Commitment rows (`lib/commitmentStore.ts`) | `spent` of each server row | post, fetch, mark, prune | un-awaited and lost requests | rows agree with the chain in the end |
| Spare precommitments (`lib/sparePool.ts`, `lib/precommitmentStore.ts`) | status of each row | `claimFromPool`, `ensurePool`, resolve, release | races for a row, lost answers | a row serves one change note |
| Strategy outputs (`lib/outputNoteResolver.ts`, `lib/syncWalletNotes.ts`) | the pending record, a row in the precommitments table, the note row and server rows made from them | create, resolve, recover, sync | they look like pool rows; overlapping passes, failed posts, purges, cleared storage | the secret is never lost and each output becomes spendable |
| Strategy reservation (`lib/strategyNoteReservation.ts`, `StrategyNoteReconciler`, `StrategyAutoExecutor`, `RunsPanel`) | the RESERVED and cleanup records, both `spent` flags | reserve, reconcile, clean up | four actors, un-awaited requests, events of two meanings | a reserved note is not spent elsewhere and comes back if the strategy does not run |
| Wallet session (`lib/nexus.ts`) | provider, signer | connect, re-hydrate, recover | runs beside every other call | re-hydration undoes no mark |
| Leaf scan and its caches (`lib/zkHandler.ts`) | the cached list and set of leaves, the request in flight for each | chunked scan, join, expire, invalidate, path | single flight against invalidation; a `finally` that deletes a newer request | what a withdrawal proves from lacks no leaf unless a node did; a leaf comes to be shown |
| Consolidator (`lib/noteConsolidator.ts`) | a plaintext hint | merge; nothing calls it | - | - |
| Multi-leg builder (`lib/multiLegBuilder.ts`, `generateSplitProof`) | the order's fee, its split, the rows of its slices | collect the fee, split, store, prove the legs | two transactions and many rows, each of which may fail; other tabs choose the same note | value is conserved, no slice is stranded, no row hides an unspent note |
| FHE keys (`lib/fhe.ts`, `lib/fheKeyWarmup.ts`, `lib/decryptorClient.ts`, `TeeClientKeySync`) | client key, server key in two caches, the fingerprint uploaded, the keys at the executor and the VM | generate, derive, upload, sync, encrypt, authorize | races for a key, lost answers, servers that forget | the key on file is the one a strategy is encrypted under; what is decrypted is what was evaluated |
| Note keys (`lib/noteAuth.ts`) | cached signature | derive, sign headers | expiry | opaque here |
| Strategy compilation and simulation (`lib/strategySpec.ts`, `lib/graphRunPlan.ts`, `lib/strategySimulation.ts`) | none | transformations of the drawn graph | defaults and parsing | not modelled |

How they interact. A call of `generateZKData` reads the server's commitment rows into
localStorage, picks notes, takes a precommitment for its change note and returns; its
caller (`withdraw`, a strategy form) then talks to the vault or to the Trade Executor and
rewrites rows on both sides. Calls of several tabs share the localStorage of their device;
calls of several devices share only the server and the chain. Background jobs (the
reconciler, the output resolver, `ensurePool`, the re-hydration at connect) touch the same
rows at any time. There is no lock between any of them: each is a sequence of awaits over
shared rows, which is what the modules interleave. The repository has no test suite.

## 2. Plan

The order of work was: what moves money first, then what the money's secrets pass through,
then what an order is made of.

1. `LocalNotes`, `VaultNotes`, refining `ShieldedLedger`: money is neither lost nor burned
   by `deposit` and `withdraw`.
2. `SparePool`: `VaultNotes` treats the claim of a precommitment as one step; here the
   requests of `claimFromPool` and `ensurePool` interleave.
3. `StrategyNotes`: the marks of a strategy's inputs on both sides, from submission to the
   end, and the wallet that connects meanwhile.
4. `OutputNotes`: create, deposit, resolve and recovery of strategy outputs, with every
   other writer of note rows beside them.
5. `LeafCache`: the two caches of leaves, their requests in flight and their invalidation.
6. `FheKeys`: the keys a strategy is encrypted, evaluated and decided under.
7. `SplitOrder`: fee, split, slices and legs of a multi-leg order.

All seven are written, checked and proved about. They share what they have in common:
`LocalNotes` is the row store of `VaultNotes`, `StrategyNotes` and `SplitOrder`. Where one
module has a step of another (a claim in `VaultNotes`, a withdrawal in `StrategyNotes`,
`OutputNotes` and `SplitOrder`), that step is what the other module does in detail. For the
claim this is checked and proved: `VaultNotes` and `SparePool` both implement
`PoolContract`.

What would come next: the keys of rows across the migration of `localNoteStore.ts`, and a
price ladder's legs after their proofs. Both need a model of what the executor does with
an order, which is not in this repository.

## 3. Modules

**`LocalNotes`** holds the note rows of one device as a function from notes to their
`spent` flag (`"false"`, `"pending"`, `"true"`), with the writes of `localNoteStore.ts`: a
whole-row write, and a mark that does nothing when there is no row. The key of a row is
the note's commitment, taken to be injective.

**`VaultNotes`** is `deposit` and `withdraw`. One process is one call, in some tab of some
device. Every await is a step boundary.

| Variable | In the code |
|---|---|
| `op[o]` | the local variables of call `o`: kind, place, device, amount, leaf snapshot, server ids, inputs, change note, pool row, mark requests under way |
| `tx[o]` | the one transaction the call sends |
| `local[d]` | note rows in the localStorage of device `d` |
| `row[o]` | the commitments row call `o` posts |
| `pool[k]` | precommitments row `k` |

| Action | Code |
|---|---|
| `BeginDeposit`, `SendTx`, `ConfirmDeposit`, `PostDeposit`, `FailDeposit` | `handler.ts` `deposit`: the row is written as pending, the transaction is sent, the receipt makes the row spendable, the server row is posted; the catch block hides the row |
| `BeginWithdraw`, `Hydrate`, `HydrateFails`, `Select` | `zkHandler.ts` `generateZKData`: leaf scan, server rows, triage, greedy fill |
| `ClaimFromPool`, `ClaimFails` | the change secrets, from the pool or derived from the inputs |
| `PreWriteChange`, `AbandonWithdraw`, `ConfirmWithdraw`, `PostChange`, `ResolvePool`, `FailWithdraw` | `handler.ts` `withdraw`: dry run and row of the change note, early returns, receipt, server rows, catch block |
| `DeliverMark` | the un-awaited requests that mark the inputs on the server |
| `RefillPool`, `MineTx`, `RevertTx`, `CloseTab` | `ensurePool`, the vault contract, the user |

Secrets are named by where they come from, so two calls that derive their change secret
from the same inputs get the same one, as in the code. Amounts are small naturals with
their real arithmetic.

**`ShieldedLedger`** is what the above promises: deposits of fresh notes, and spends that
are whole, covered, single, and whose change has an unused secret. `VaultNotes` maps
`leaves`, `spent` and `paid` to its mined transactions and implements it.

**`SparePool`** is the precommitments table with one action per request: the fetch of the
pending rows, each claim with its answer (granted, refused, or lost before or after the row
changed), the fresh rows, `ensurePool` with its stale count, the three ends a row can have
(resolve, release, left behind), and the strategy outputs that live in the same table.
A call here is a call of `generateZKData` by a withdrawal or by a strategy form.

**`PoolContract`** is what the two modules have to agree on, with no requests in it: who a row
is lent to, whether it is on offer and whether a note carries its secret. A row is lent to one
call at a time, given back only while no change note carries its secret, and lent to nobody
after that. `SparePool` implements it request by request, `VaultNotes` with its claim of one
step. It is about the spare rows (asset `POOL`) only: `claimFromPool` takes the rows of strategy
outputs as well, whose secret a landed output carries already, and for those nothing like it
holds (`MCSparePool_output_taken`).
Nothing is promised of a void row, which is one that a call took although its claim was
refused (`sparePool.ts:116`). Each module maps the contract's `lent` by its `View`.

**`StrategyNotes`** is what a strategy does to its inputs: `Hydrate`, `Select`, `Submit`,
`Persist` and `Reserve` (`Build.tsx` `onExecuteStrategy`, `strategyNoteReservation.ts`) or
`EndSwap` (`quickSwapRun.ts`); the executor's verdict; the reconciler, pass by pass and
request by request, with passes that overlap (`StartPass`, `PatchOne`, `EndPass`); the
clean-up by the `siphon:strategyExecuted` event (`CleanUp`); and the two re-hydrations of a
wallet connect (`nexus.ts` and `syncFromServer`). `withdraw` takes part in two steps; all of
it is in `VaultNotes`. Amounts are left out: any set of candidates may be selected, which
covers what every amount would choose.

**`OutputNotes`** is what becomes of the secret of a strategy's output. A task is an
asynchronous call of some tab; its job is a pass of `resolvePendingOutputNotes`, the sync of
old notes, the two re-hydrations of a connect, or a withdrawal. Besides, any withdrawal or
strategy form of any device may claim the pending precommitments row of an output for its
change note and give it back or not; the change note it makes that way is left out here, being
what `MCSparePool_output_taken` shows.

| Variable | In the code |
|---|---|
| `record[n]` | the pending record in localStorage, with or without the encrypted secret |
| `precom[n]`, `server[n]` | the row of the precommitments table, the unspent rows of the commitments table |
| `local[n]`, `stub` | the note row (flag, has it a hash, has it a precommitment), rows of metadata only |
| `held` | outputs whose precommitments row a call took for its change note and still has |
| `landed`, `nullified` | the vault |
| `armed`, `exposed` | outputs whose precommitment the executor has; history: notes that nothing kept any more when the wallet refused to sign, site data was cleared or a claim took their row |

| Action | Code |
|---|---|
| `Create`, `Land` | `createVaultOutputNote`, the executor's deposit |
| `StartResolve`, `SeeLanded`, `WriteNote`, `WriteStub`, `Post`, `ResolveFetched`, `DropRecord`, `EndRecords` | the loop over pending records, statement by statement |
| `FindMissing`, `RewriteNote`, `Post`, `ResolveMissing`, `EndLoop` | the loop over the fetched precommitment rows |
| `StartOldSync`, `SyncOne` | `syncWalletNotesFromServer` |
| `Connect`, `Fetch`, `Hydrate` | `purgePlaintextHints` and `syncFromServer`, `initializeWithProvider`, the hydration of `generateZKData` |
| `Select`, `PassOver`, `GiveUp`, `Decide`, `Confirm` | a withdrawal of one note |
| `Reconcile` | `getSpendableVaultBalance`: a row whose nullifier is found used is marked |
| `Claim`, `EndClaim` | `claimFromPool` takes an output's row; the call that has it ends, with the row resolved or pending again |
| `SpendElsewhere`, `CloseTab`, `ClearSiteData` | another device, the user |

`WriteStub` stands for the branch without a secret at `outputNoteResolver.ts:211`, which
writes metadata under the key of older builds; nothing but the purge of a connect reads it.

**`LeafCache`** is `getOnChainLeaves`, `getLeafSet` and `invalidateLeafCache` of one asset,
with `getLogsChunked` window by window. The maps of the code, which have one entry for the
asset, are sets with one element at most: `ordered` and `leafSet` the cached results,
`flying` and `setTask` the requests in flight. A call is a caller of the balance, of a split
or of a withdrawal; a scan is one run of the inner function, which outlives its entry in the
map. Each request is answered by some node: `ReadHeight` with the height of one that may be
behind, `ReadChunk` with any part of the window, since another node, or one that has not
indexed the block yet, may give it. So a list may be short or have gaps, and the guard of
`generateZKData` against unknown roots is an action (`Check`). A leaf is its index, and a block
holds one, so that heights and indices are the same; a list is a set of indices, because
the code sorts by index, and its root is known if it is `1..n`. `late`, `whole` and
`began` are history: did a node that answered lack anything, and what was there at the begin.

**`FheKeys`** has a task per call of the warm-up, of `submitEncryptedStrategy` or of the key
sync of `TeeClientKeySync`, in some page of some device. A key is named by the task that
made it. `Begin`, `Generate` (`fhe.ts`), `Derive`, `CheckFlag`, `AskExecutor`, `Upload`,
`RecordUpload` (`fheKeyWarmup.ts`), `AskVm`, `SendKey` (`decryptorClient.ts`) and `Submit`
are the awaits of one call; `Evaluate`, `Poll`, `Watch`, `Authorize`, `EndPoll` and
`ExecuteInTee` are the way of an armed strategy. What a decryption gives is garbage, that is
any Boolean, unless bounds, evaluation and decryption are under one key.

**`SplitOrder`** has one process per call of `buildLegsFromSplit`: the fee deposit with its
retries at the wallet's in-flight limit, the hydration and choice of `generateSplitProof`,
the split with real arithmetic on small amounts, the rows of the slices, and the legs up to
the lookup of their slice. Withdrawals of the same notes run beside the orders, and the
wallet may connect again at any time (`Rehydrate`, `nexus.ts:103-133`), which writes reserved
rows back as spendable. Deposits may be reserved by a strategy that was armed before; strategies
are not armed and do not end here, so the flags of the server's rows stay. What becomes of the
fee transaction is left open: `tx.wait` returns or throws, and the order goes on.

**`MCVaultNotes`, `MCSparePool`, `MCStrategyNotes`, `MCOutputNotes`, `MCLeafCache`,
`MCFheKeys`, `MCSplitOrder`** add symmetry sets, or for liveness the constraints that take
their place. The modules named `...Proofs` hold the theorems; **`Sums`** holds what they
need of finite sums (section 5).

## 4. Runs

Most runs say `CHECK_DEADLOCK FALSE`: the calls of an instance may all have ended and
nothing has to happen then. Failures are switched by constants, so that each property is
checked under all the failures it survives.

| Run | Instance | Shows |
|---|---|---|
| `MCVaultNotes_executor` | 3 calls, 2 devices, 2 pool rows, requests to the server fail | types; no note without a row, none hidden, no shared nullifier, no value burned, no used row given back, no withdrawal refused without need; the ledger and the contract of the pool are implemented |
| `MCVaultNotes_live` | 3 calls, 1 device, 1 pool row, waits, claims and writes fail | a spendable row is always the row of a leaf; a sent withdrawal settles |
| `MCSparePool_claims` | 2 calls, 2 + 1 rows, requests fail | types; a row serves one call; the contract of the pool is implemented; claims end |
| `MCStrategyNotes_armed` | 2 devices, 2 calls, 2 overlapping passes, requests fail, no TEE mode | types; inputs of an armed strategy stay marked |
| `MCStrategyNotes_back` | 2 notes, 1 call, requests fail, the wallet connects at any time, no TEE mode | notes of a strategy that did not run come back |
| `MCFheKeys_device` | 2 tasks, 2 pages of one device, both modes, requests fail, keys are lost everywhere | types; an ensured key is on file; what is decrypted is what the condition was |
| `MCLeafCache_tab` | 2 balances and 1 withdrawal or split, 2 scans, 2 leaves, windows of 2, requests fail, nodes are behind and answer in part | types; a withdrawal misses nothing its nodes had; only a gap makes the guard refuse; every leaf comes to be shown |
| `MCOutputNotes_device` | 1 output, 1 old note, 2 tasks, 1 row per note, requests fail, signatures are refused, rows are claimed, tabs close, site data is cleared | types; no secret is lost; outputs become spendable |
| `MCSplitOrder_tabs` | 2 orders, 2 deposits, amounts 1 and 5, counts 2 and 4, tabs close, waits fail, the wallet connects at any time | types; value is conserved, nothing stranded or hidden; orders end |

The other three runs end in a counterexample; see section 7.

Why the bounds are enough to be interesting. Three calls of `VaultNotes` are a deposit and
two withdrawals that race for its note, or two deposits merged by one withdrawal; two devices
separate the rows that are shared from those that are not; with two pool rows one can be
given back and be claimed again while the other is in use. Two amounts give exact spends and
spends with change. In `SparePool` two calls and two rows give a lost race and a fresh row.
In `StrategyNotes` two calls are a strategy and a rival of any kind on the same or the other
device. In `FheKeys` two tasks are two strategies, or a strategy and a warm-up or a sync,
which may make a key each. In `LeafCache` two scans are the one that was busted and its
successor; a window of two blocks shrinks to one, and with two leaves there is a scan of one
window, of two, and one that goes on after it shrank. In `OutputNotes` two tasks are two
passes, or a pass and any other writer; steps never relate two notes, so that `OneKind`
takes outputs and old notes one kind at a time. In `SplitOrder` the amounts 1 and 5 by 2 have
a remainder, and a share of nothing; 4 slices are more than `SplitN` = 3 has, which stands for
8 as `MaxAttempts` = 1 stands for 4. Every bound is a constant of its module. The constraints
`CallsBeginInOrder` and `InOrder` only name interchangeable calls, rows or orders in
the order in which they are first used, as a symmetry set would; liveness runs may not use one.
In `SplitOrder`, `InOrder` also fixes `server[d2]`: the server has an unreserved row of the
second deposit, while the first one's is free, reserved or missing. Instances in which neither
deposit is free at the server are left to the theorems. In the
liveness run of `VaultNotes`, `LargeInSmallOut` fixes the amounts: two is deposited and one
withdrawn, so that a first withdrawal leaves change and one that spends the change leaves none.

Fairness. A tab that stays open runs its continuations and a request that is sent settles
(`WF` of the handler's steps, of a claim or a task under way, of a pass of the reconciler,
which ticks every 20 s); the chain decides every transaction it has (`WF` of `Decide`, of
`MineSplit`). In `OutputNotes` the user comes back to connect again and again, which runs a
signed pass (`SF`: a pass may start whenever a task is free, and tasks are not always free);
in `LeafCache` the balance is polled every minute (`WalletPanel.tsx:61`) and entries expire.
Failures may not last for ever where something has to happen in the end: `RpcRecovers` and
`Calm` say that from some time on requests are answered, in `LeafCache` by nodes that are in
step, and the second that tabs stay open and site data is kept. Nothing else is assumed of the
user: signing in `VaultNotes`, starting a call and closing a tab are not fair. In `SplitOrder`
the order's steps include the wallet's prompts, because `OrderEnds` is about an order whose
user answers, one way or the other.

Conditions of the properties. With a constant set otherwise the property fails, and TLC shows
how:

- `UnspentNotHidden`, `RefusedOnlyIfShort`, `ReleasedIsUnused` and `KeepsContract` need
  `RpcMayFail` (`WaitMayFail` in `SparePool`) to be FALSE: a wait that throws sends a handler
  to its catch block although the transaction is mined, so the row of a leaf is hidden, a
  withdrawal that needs it is refused, and a used pool row is given back. In `VaultNotes`
  `KeepsContract` needs `ClaimMayFail` to be FALSE too, which is the refused claim of a fresh
  row, void in `SparePool`.
- `MarkedWhileArmed` needs `WalletMayReconnect` to be FALSE: a connect looks rows up under the
  old key and writes reserved notes back as spendable (`nexus.ts:117`).
- `SecretKept` excepts the secrets that were in one place only when that was taken: the wallet
  had refused to sign, so the record has no secret and the row may not be posted, yet the
  output is armed (`outputNoteResolver.ts:54`); site data was cleared before the backup; or
  `claimFromPool` took the pending row that alone kept it (`sparePool.ts:92`).
- `EnsuredKeyIsFiled` and `ResultsDecide` need one device: with `Devices` = {d1, d2}, three
  tasks and no failure at all, the second device replaces the key on file, and the first goes
  by its own recorded fingerprint (`fheKeyWarmup.ts:200`). They except a device two of whose
  tasks ran under different keys (`crossed`, `fhe.ts:81`). Neither says that the condition
  still holds when the trade is authorized, nor that one tab only authorizes it: the client
  has nothing that would.
- `WithdrawSeesAll` is about withdrawals whose own scan was answered by nodes in step, and
  `RefusedForGaps` says that the guard refuses over gaps and lagging checks only. With a node
  that lags a withdrawal may miss the last leaves, as the code expects
  (`zkHandler.ts:365-368`).
- `RowsServeOneCall` excepts rows used after a refused claim (`sparePool.ts:116` ignores the
  answer), `NothingStranded` the slices of an order that was interrupted between its split and
  their rows (`multiLegBuilder.ts:121`).
- `NotesComeBack` is checked outside TEE mode, which is the default and covers the other: only
  `CleanUp` looks at the mode, and in TEE mode it does not run; the rows it deletes are
  excepted. The strategy must be filed under the wallet's own address, as the passes list no
  others (`Recipients`; section 7), and have a reserved record: inputs whose server row had no
  id are not in the record, and with none at all there is no record, so the reconciler never
  takes their local marks back (`strategyNoteReservation.ts:25`). A note shared with another
  call is excepted too: nothing prevents two strategies from being armed with the same note.
- `ClaimEnds` allows for `RowsExhausted`, the bound on the table, where the code would go on
  posting.

So these hazards are in a model, yet outside the run of the property they would break: a failing
write of a change note and a wait that throws (`MCVaultNotes_executor`), a refused claim of a
fresh row in `VaultNotes`, a wallet that connects in `MCStrategyNotes_armed`, and a second device
in `MCFheKeys_device`.

Each property has a mutant of the code in `PROJECT.json` that breaks it.

## 5. Proofs

All theorems hold for any calls, devices, rows, notes and amounts, under the assumptions
that the constants are of their kinds (the named `ASSUME`s). The conditions on failures are
hypotheses of the theorems.

`VaultNotesProofs`
- `TypeCorrect`: `TypeOK`.
- `SpendableOnChain`, for every combination of failures. Invariant `ChainInv`: a call that
  saw its receipt has a mined transaction (`TxFollowsCall`) and a server row that says
  unspent belongs to a mined one (`RowsOnChain`), so neither confirmation nor hydration can
  make a row spendable before its leaf exists.
- `UnspentStored`, if local writes succeed. Invariant `StoredInv`: from the pre-write on,
  an output worth a row has one (`OutputStored`), and no handler removes rows.
- `UnspentShown`, if no wait fails. Invariant `HiddenInv`: a marked row is of a note that was
  spent, or that a call made which came to nothing (`HiddenIsGone`), and both stay true.
- `LeavesDiffer` and `ReleasedUnused`, if neither waits nor the claim of a fresh row fail.
  Invariant `SecretInv`: the secret of an output is the one its call drew, holds a pool row
  for, or derived from its inputs (`CallShape`); a held row is out of the pool and held once
  (`PoolExclusive`); mined withdrawals have disjoint inputs (`InputsDisjoint`). The last is
  what makes derived secrets differ: two mined calls with the same derived secret would have
  the same inputs.
- `ValueAddsUp`, same condition: `NoValueBurned`. Invariant `BookInv`: the leaves are finitely
  many notes of natural amounts and the books balance. A step that mines a transaction takes
  the inputs of its call from the unspent notes and adds its output, and both are sums over
  sets that `SecretInv` and `AllCovered` show to be what they should be: inputs that are
  unspent leaves and cover the amount, an output that is no leaf yet.
- `RefusalsAreDue`, if waits, claims of fresh rows and local writes succeed: a withdrawal is
  refused only if no notes of its device that fit a proof would have covered it. The notes it
  may spend have rows (`UnspentStored`) that no mark hides (`UnspentShown`), so all are
  candidates; and a greedy fill is worth as much as any choice of as many candidates
  (`LargestWorthMost`, `GreedyFillsBest`), for any amounts and any `MaxNotes`. The run has
  fewer notes than would make the fill choose among many; the theorem covers that.
- `WalletImplementsLedger`, same condition: every step of the wallet is a step of
  `ShieldedLedger` or a stutter. On top of the above it needs `AllCovered`: inputs are
  leaves and cover the amount.
- `WalletKeepsContract`, same condition: `SecretInv` gives for each row that it has one holder
  at most, which alone may have a note that carries it, and that it is off offer then
  (`RowSound`). A step makes a call a holder only by a claim of a row nobody held, and a mined
  note keeps carrying its row, so each change of a row is one the contract has. With
  `PoolKeepsContract` this is why the claim may be one step.

`SparePoolProofs`
- `TypeCorrect`, which includes that `ensurePool` never posts more than `POOL_MIN` at once.
- `RowsServed`, if no wait throws early. Invariant `RowInv`: a row in use is not on offer,
  so the next granted claim is of another row.
- `PoolKeepsContract`, same condition: every step of the requests is, row by row, a step of
  `PoolContract` or a stutter. A step keeps the row a call has, or is part of that call's
  claim or end; whoever comes to have a row found it on offer, so nobody had it and, by
  `RowInv`, no note carries it.

`StrategyNotesProofs`
- `TypeCorrect`, with reconnections.
- `MarkedWhileArmedAlways`, if the wallet does not connect again. Invariant `MarkInv`: a
  proof is handed in by a submitted call (`ProofFollowsCall`), after which its inputs are
  fixed; the records and requests of a call are about its inputs (`RecordsOfCalls`,
  `PatchesOfCalls`); a change note has no row and is no input before its call writes it
  (`ChangeIsWritten`); a call that has yet to mark its inputs has their rows
  (`InputsStored`). Most steps only add rows or marks (`GrowsStep`). The others take rows or
  marks only from inputs of a call that handed in a proof, so that whoever loses one shares
  it (`OwnRowsKeep`).

`OutputNotesProofs`
- `TypeCorrect` and `SecretStays`, with all failures. The invariant follows the secret hand
  over hand: a note is `Listed` when the server has it or nobody needs it any more, and `Safe`
  when it is listed or its row has a mark that no purge takes away; a pass that is about to
  resolve a precommitment row or to drop a record has made the note safe before (`TaskInv`),
  and a row that a purge would take is listed (`NoteInv`).

`LeafCacheProofs`, for any number of callers, scans and leaves
- `TypeCorrect`, `RefusalsAreGaps`, `WithdrawHasAll`. A scan lacks a leaf of the windows before
  its next one only if an answer did (`ScanInv`); a withdrawal waits for a scan that read a
  height no lower than the one it began at, unless the node was behind, and has a list
  that is some past state of the vault unless an answer was partial (`CallInv`).

`FheKeysProofs`
- `TypeCorrect`.
- `KeyOnFile`, for a wallet with one device. Invariant `Filed`: as long as no two keys
  crossed, the key on file is the key of every task that counts on it, or none.
- `GarbageNeverDecides`, for a wallet with one device: `ResultsDecide`. Invariant `Decided`: a
  task that is placing an order finds its own key on file or none, and an order armed with the
  key the device has was evaluated under that key or not at all.

`SplitOrderProofs`
- `TypeCorrect`, `LeavesReachable`, `MarkedIsSpent`, whenever the wallet connects. Invariant: how
  far an order is says what it has (`Progress`: outputs once chosen, a mined split once it
  stores, as many rows as it counted), and what a mined split has done stays (`Facts`).
- `SplitsConserveValue`: `ValueConserved`, for any amounts, slice counts, orders and
  withdrawals. Invariant `BookInv`. A split that is mined replaces what its order holds
  locked by its slices, and `Divided` says that the slices an order computed are worth what
  it chose: `SharesAddUp` is the arithmetic of the remainder, which the last slice takes while
  the outputs behind it get nothing. `Divided` holds from the moment of the choice, before
  anything is mined, which is why it is an invariant of its own. The deposits are finitely
  many (`FiniteAssumption`), as sums are of finite sets.

`Sums`
- The laws the two books need of `SumFunctionOnSet`, which the community modules define by a
  fold: the empty sum, taking an element out or putting one in (`SumTake`, `SumAdd`), sums of
  disjoint sets (`SumUnion`, `SumPart`), equal and renamed terms (`SumSame`, `SumRenamed`),
  bounds (`SumBounds`). The library's induction on finite sets takes an operator as a
  parameter, which the provers cannot instantiate; here each law is proved from a smallest
  counterexample instead: a set of least cardinality among the subsets of a given finite set
  that break it (`SmallestSubset`).

## 6. Only model-checked

Liveness (`WithdrawSettles`, `ClaimEnds`, `NotesComeBack`,
`OutputsBecomeSpendable`, `LeavesShow`, `OrderEnds`): the provers have no `ENABLED`. Every
other property of a passing run is the statement of a theorem of section 5.

## 7. Findings

Three places where the code does something other than its comments say, each with a run
whose counterexample shows it.

- `MCSparePool_output_taken`: `claimFromPool` takes any pending row, the backup row of a
  strategy output too, whose secret is already promised to the executor.
- `MCStrategyNotes_failed_loses`: outside TEE mode the event that deletes the input rows is
  also sent for strategies that failed.
- `MCSplitOrder_leg_lost`: the legs of an order look for their slices under the key the
  slices were written with, but the rows are stored, and scanned, under another form of it:
  the order fails at its first leg, after its fee and its split were mined.

Further divergences are the conditions listed in section 4. Others without a run: an early
return of `withdraw` leaves its pool row taken; two devices that repeat a withdrawal may make
the same change note, which the first keeps marked spent (`UnspentNotHidden` excepts a note
made twice); the request that reserves a row may arrive after the one that releases it and
leaves the server row pending (`NotesComeBack` shows that the note still comes back on its
device); an order with a slice count the circuit does not have pays its fee before it fails. And:

- A refresh does not always stick. `UserDash.tsx:232` busts the caches "so a just-landed
  deposit is picked up immediately", but a scan that began before the refresh still ends, and
  fills both caches with its older list until they expire (`LeavesShow`).
- A split proves from the cached list, which may have gaps, without the guard a withdrawal has;
  `zkHandler.ts:1036-1040` says its root "always passes the on-chain check" and 365-368 that a
  stale list "only ever MISSES a brand-new leaf".
- `StrategyNoteReconciler.tsx:23-27` lists the strategies of the wallet's address, while
  `Build.tsx:967` files them under the recipient. With another recipient no pass gives the
  notes of a strategy back, nor does an event of the runs panel clean them up.
- After a connect, the rows a strategy reserves are spendable on the device that armed it
  (`nexus.ts:117`), for a split too, which looks at the row's flag only (`zkHandler.ts:997`).
- A withdrawal may claim the pending row of a strategy output, also before the output lands; if
  nothing else kept the secret, resolving or losing the row loses it (`SecretKept` excepts it).
- The quick swap connects the wallet only if it is not connected (`quickSwapRun.ts:58-60`;
  `nexus.ts:59` returns at once when it is), so it does not re-hydrate in the midst of a session.

## 8. Not modelled

- Cryptography: Poseidon, the circuits, FHE, encryption of rows. A proof is accepted iff its
  nullifiers are new and its root was the vault's, which the contracts decide. The Merkle
  path is a fold over the list of leaves; `LeafCache` has the list, as the indices it has
  leaves of. Two leaves of one value, and reorganisations of the chain, are not in it.
- The wallet software, the Trade Executor, the database and the contracts, except for what
  the client sees of them.
- The repair of rows whose secrets do not match their leaf (`outputNoteResolver.ts`), and the
  one-time migration of old keys (`localNoteStore.ts`), which runs before any caller.
- Quotas and private modes of localStorage, except a failing write of a change note or of a
  slice.
- `noteConsolidator.ts`, `generateSwapProof` and the writing half of `noteStore.ts`: nothing
  calls them.
- `noteAuth.ts`: keys and signatures are opaque; a refused signature is a failing request.
- Strategy compilation (`strategySpec.ts`, `graphRunPlan.ts`, `repeatGraph.ts`,
  `limitOrderTree.ts`, `graphLinks.ts`, `runModeValues.ts`) turns the drawn graph into a
  record of parameters by parsing and defaulting text: a model would repeat it field by field.
  Simulation shows hypothetical fills in floating point.
- Presentation, which is most of the repository's lines: pages, widgets, the canvas, themes,
  the chat; live data, the builder agent, HTTP proxies, bot protection. They keep no state a
  note depends on. Archived and generated code (bindings, contract interfaces, circuits).

Known weaknesses of the code that no property speaks about: an invalidation without a chain
id uses the selected chain (`zkHandler.ts:513`), which delays what `LeavesShow` promises until
the old list expires; a hydrated row without a nullifier hash is counted in the balance without
a lookup (`zkHandler.ts:646`); the slice count of an order is checked after its arming fee was
paid (`zkHandler.ts:930`); an input without a server id is in no reservation record
(`strategyNoteReservation.ts:25`), so its local mark is not taken back by the reconciler; the
time stamp of a signed header is older than the signature its lifetime is counted from
(`noteAuth.ts:188`).
