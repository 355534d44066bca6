------------------------------ MODULE SparePool ------------------------------
(***************************************************************************)
(* The precommitments table and its two users.  claimFromPool and          *)
(* ensurePool (src/src/lib/sparePool.ts) keep spare secrets in it and take *)
(* one for the change note of a proof; createVaultOutputNote and           *)
(* resolvePendingOutputNotes (src/src/lib/outputNoteResolver.ts) back up   *)
(* in it the secret of the note a strategy will pay out.  VaultNotes takes *)
(* a claim to be one step; here every request is a step of its own.        *)
(*                                                                         *)
(* A process is one call of generateZKData, by withdraw() or by a strategy *)
(* form, in any tab or device of the wallet.                               *)
(***************************************************************************)
EXTENDS Naturals, FiniteSets

CONSTANTS
  Calls,          \* the calls of generateZKData
  PoolRows,       \* rows with asset 'POOL' the table may come to hold
  OutputRows,     \* rows of strategy outputs it may come to hold
  PoolMin,        \* POOL_MIN
  ServerMayFail,  \* may a request fail, or its answer be lost?
  WaitMayFail     \* may the wait for a receipt throw while the transaction lives?

None == "none"
Rows == PoolRows \cup OutputRows

ASSUME RowsAssumption ==
  PoolRows \cap OutputRows = {} /\ None \notin Rows /\ IsFiniteSet(Rows)
ASSUME PoolMinAssumption == PoolMin \in Nat
ASSUME FaultsAssumption == {ServerMayFail, WaitMayFail} \subseteq BOOLEAN

VARIABLES
  status,   \* status[r]: the status of row r, or "none" if there is no such row
  call,     \* call[c]: where call c is, and the row it has
  tx,       \* tx[c]: the transaction that carries the change note of call c
  need,     \* need[c]: rows the ensurePool of call c still has to post
  landed,   \* output rows whose note the executor has deposited
  listed,   \* output rows in the pending list the resolver fetched last
  stored    \* output rows whose note is spendable in localStorage

vars == <<status, call, tx, need, landed, listed, stored>>
table == <<landed, listed, stored>>

Statuses == {"none", "pending", "in_use", "resolved"}
TxStatuses == {"unsent", "pending", "mined", "reverted"}

\* Where a call can be.  "held": it has its change secrets.  The last are final.
Final == {"done", "failed", "left", "derived", "closed"}
PCs == {"idle", "trying", "posted", "refused", "reposted", "held", "sent", "armed",
        "confirmed", "reverted"} \cup Final

At(c, pc) == call[c].pc = pc
Goto(c, pc) == call' = [call EXCEPT ![c].pc = pc]

\* Every pending row, whatever its asset: the status query cannot see inside the
\* encrypted payload.
Pending == {r \in Rows : status[r] = "pending"}

\* The locals of a call: where it is, the rows of the list it has yet to try, the row
\* it has, and whether it took that row against a refusal.
Locals(pc, todo, row, bold) == [pc |-> pc, todo |-> todo, row |-> row, bold |-> bold]

Init ==
  /\ status = [r \in Rows |-> "none"]
  /\ call = [c \in Calls |-> Locals("idle", {}, None, FALSE)]
  /\ tx = [c \in Calls |-> "unsent"]
  /\ need = [c \in Calls |-> 0]
  /\ landed = {} /\ listed = {} /\ stored = {}

-------------------------------------------------------------------------------
(***************************************************************************)
(* The server                                                              *)
(***************************************************************************)
Set(r, s) == status' = [status EXCEPT ![r] = s]

\* PATCH claim: pending to in_use, atomically, or 409.  A failure may come before
\* or after the row was changed, as a bad answer or as no answer.
ServeClaim(r, answer) ==
  \/ answer = "granted" /\ status[r] = "pending" /\ Set(r, "in_use")
  \/ answer = "refused" /\ status[r] # "pending" /\ UNCHANGED status
  \/ /\ ServerMayFail /\ answer \in {"refused", "lost"}
     /\ UNCHANGED status \/ (status[r] = "pending" /\ Set(r, "in_use"))

\* POST of a new row.
ServePost(r, answer) ==
  /\ status[r] = "none"
  /\ \/ answer = "granted" /\ Set(r, "pending")
     \/ ServerMayFail /\ answer = "lost" /\ (UNCHANGED status \/ Set(r, "pending"))

\* PATCH resolve or release: the answer is not looked at.
ServePatch(r, s) == Set(r, s) \/ (ServerMayFail /\ UNCHANGED status)

-------------------------------------------------------------------------------
(***************************************************************************)
(* claimFromPool                                                           *)
(***************************************************************************)
\* An exception: generateZKData derives the change secrets from its inputs.
Derive(c) == call' = [call EXCEPT ![c] = Locals("derived", {}, None, FALSE)]

\* The rows whose secret a note of the vault carries.
Mined == {c \in Calls : tx[c] = "mined"}
InTree == landed \cup {call[c].row : c \in Mined}

\* The secrets of row r are used, unless one of them is the nullifier of an input:
\* then they are derived, and the row stays taken.
Hold(c, r, bold) ==
  \/ call' = [call EXCEPT ![c] = Locals("held", {}, r, bold)]
  \/ r \in InTree /\ Derive(c)

\* The list of the pending rows arrives, or fails to.
FetchPending(c) ==
  /\ At(c, "idle")
  /\ \/ call' = [call EXCEPT ![c] = Locals("trying", Pending, None, FALSE)]
     \/ ServerMayFail /\ Derive(c)
  /\ UNCHANGED <<status, tx, need, table>>

\* Mutant of TryClaim: a refused row is tried again.
TryForever(c, r) ==
  /\ At(c, "trying") /\ r \in call[c].todo
  /\ \E answer \in {"granted", "refused"} :
       /\ ServeClaim(r, answer)
       /\ IF answer = "granted" THEN Hold(c, r, FALSE) ELSE UNCHANGED call
  /\ UNCHANGED <<tx, need, table>>

\* Mutant of TryClaim: a refused row is used.
TryAndTrust(c, r) ==
  /\ At(c, "trying") /\ r \in call[c].todo
  /\ \E answer \in {"granted", "refused"} : ServeClaim(r, answer)
  /\ Hold(c, r, FALSE)
  /\ UNCHANGED <<tx, need, table>>

\* One round of the loop over the list: the row is claimed, or skipped on a refusal.
TryClaim(c, r) ==
  /\ At(c, "trying") /\ r \in call[c].todo
  /\ \E answer \in {"granted", "refused", "lost"} :
       /\ ServeClaim(r, answer)
       /\ CASE answer = "granted" -> Hold(c, r, FALSE)
            [] answer = "refused" -> call' = [call EXCEPT ![c].todo = @ \ {r}]
            [] answer = "lost" -> Derive(c)
  /\ UNCHANGED <<tx, need, table>>

\* The list is exhausted, or the claim of the fresh row was refused: a row is made.
PostFresh(c, r, from, to) ==
  /\ At(c, from) /\ call[c].todo = {} /\ r \in PoolRows
  /\ \E answer \in {"granted", "lost"} :
       /\ ServePost(r, answer)
       /\ IF answer = "granted"
          THEN call' = [call EXCEPT ![c] = Locals(to, {}, r, FALSE)]
          ELSE Derive(c)
  /\ UNCHANGED <<tx, need, table>>

\* The first fresh row is claimed; a refusal is checked for.
ClaimFresh(c) ==
  /\ At(c, "posted")
  /\ \E answer \in {"granted", "refused", "lost"} :
       /\ ServeClaim(call[c].row, answer)
       /\ CASE answer = "granted" -> Hold(c, call[c].row, FALSE)
            [] answer = "refused" -> Goto(c, "refused")
            [] answer = "lost" -> Derive(c)
  /\ UNCHANGED <<tx, need, table>>

\* The second fresh row is claimed; the answer is ignored, and the row is used.
ClaimAgain(c) ==
  /\ At(c, "reposted")
  /\ \E answer \in {"granted", "refused", "lost"} :
       /\ ServeClaim(call[c].row, answer)
       /\ IF answer = "lost" THEN Derive(c)
          ELSE Hold(c, call[c].row, answer = "refused")
  /\ UNCHANGED <<tx, need, table>>

\* Mutant of CountPool: a pool above the minimum is not told apart.
CountUnchecked(c) ==
  /\ ~ At(c, "idle") /\ ~ At(c, "closed") /\ need[c] = 0
  /\ need' = [need EXCEPT ![c] = PoolMin + 1 - Cardinality(Pending)]
  /\ UNCHANGED <<status, call, tx, table>>

\* ensurePool counts the pending rows (an error counts as none) ...
CountPool(c) ==
  /\ ~ At(c, "idle") /\ ~ At(c, "closed") /\ need[c] = 0
  /\ \E count \in {Cardinality(Pending)} \cup (IF ServerMayFail THEN {0} ELSE {}) :
       /\ count < PoolMin
       /\ need' = [need EXCEPT ![c] = PoolMin - count]
  /\ UNCHANGED <<status, call, tx, table>>

\* ... and posts the shortfall, all at once.
PostSpare(c, r) ==
  /\ ~ At(c, "closed") /\ need[c] > 0 /\ r \in PoolRows
  /\ \E answer \in {"granted", "lost"} : ServePost(r, answer)
  /\ need' = [need EXCEPT ![c] = @ - 1]
  /\ UNCHANGED <<call, tx, table>>

-------------------------------------------------------------------------------
(***************************************************************************)
(* What becomes of the row: withdraw() (handler.ts) and the strategy forms *)
(* (Build.tsx, quickSwapRun.ts)                                            *)
(***************************************************************************)

\* The proof or the dry run fails, or the strategy is refused: the row is left in_use.
Abandon(c) ==
  /\ At(c, "held")
  /\ Goto(c, "left")
  /\ UNCHANGED <<status, tx, need, table>>

\* withdraw() sends its transaction; a strategy gives the proof to the executor,
\* who sends it later, if at all.
Send(c, pc) ==
  /\ At(c, "held")
  /\ Goto(c, pc)
  /\ tx' = [tx EXCEPT ![c] = "pending"]
  /\ UNCHANGED <<status, need, table>>

\* The receipt is in.
Confirm(c) ==
  /\ At(c, "sent") /\ tx[c] = "mined"
  /\ Goto(c, "confirmed")
  /\ UNCHANGED <<status, tx, need, table>>

\* Mutant of TxFails: a wait that gives up counts as a transaction that failed.
TxGivenUp(c) ==
  /\ At(c, "held") \/ (At(c, "sent") /\ tx[c] # "mined")
  /\ Goto(c, "reverted")
  /\ UNCHANGED <<status, tx, need, table>>

\* The user or the node refuses the transaction, it reverts, or the wait throws.
TxFails(c) ==
  /\ At(c, "held") \/ (At(c, "sent") /\ (tx[c] = "reverted" \/ WaitMayFail))
  /\ Goto(c, "reverted")
  /\ UNCHANGED <<status, tx, need, table>>

\* The row is resolved: after the receipt by withdraw(), before the execution by a
\* strategy, which does so only if there is change.
Resolve(c) ==
  /\ At(c, "confirmed") \/ At(c, "armed")
  /\ Goto(c, "done")
  /\ ServePatch(call[c].row, "resolved") \/ (At(c, "armed") /\ UNCHANGED status)
  /\ UNCHANGED <<tx, need, table>>

\* The catch block of withdraw() gives the row back.
Release(c) ==
  /\ At(c, "reverted")
  /\ Goto(c, "failed")
  /\ ServePatch(call[c].row, "pending")
  /\ UNCHANGED <<tx, need, table>>

Decide(c) ==
  /\ tx[c] = "pending"
  /\ \E outcome \in {"mined", "reverted"} : tx' = [tx EXCEPT ![c] = outcome]
  /\ UNCHANGED <<status, call, need, table>>

CloseTab(c) ==
  /\ call[c].pc \notin Final \cup {"idle"}
  /\ Goto(c, "closed")
  /\ UNCHANGED <<status, tx, need, table>>

-------------------------------------------------------------------------------
(***************************************************************************)
(* Strategy outputs                                                        *)
(***************************************************************************)

\* createVaultOutputNote backs up the secret in a pending row.
CreateOutput(r) ==
  /\ r \in OutputRows
  /\ ServePost(r, "granted")
  /\ UNCHANGED <<call, tx, need, table>>

\* The executor runs the strategy and deposits its output with the precommitment.
Land(r) ==
  /\ r \in OutputRows \ landed /\ status[r] # "none"
  /\ landed' = landed \cup {r}
  /\ UNCHANGED <<status, call, tx, need, listed, stored>>

\* resolvePendingOutputNotes fetches the pending rows and skips those of the pool.
FetchOutputs ==
  /\ listed' = Pending \cap OutputRows
  /\ UNCHANGED <<status, call, tx, need, landed, stored>>

\* A listed output that has landed is written to localStorage, and its row is
\* resolved.  One that is already stored is passed over.
ResolveOutput(r) ==
  /\ r \in (listed \cap landed) \ stored
  /\ stored' = stored \cup {r}
  /\ ServePatch(r, "resolved")
  /\ UNCHANGED <<call, tx, need, landed, listed>>

-------------------------------------------------------------------------------
Claim(c) ==
  \/ FetchPending(c)
  \/ \E r \in Rows : TryClaim(c, r) \/ PostFresh(c, r, "trying", "posted")
                       \/ PostFresh(c, r, "refused", "reposted")
  \/ ClaimFresh(c) \/ ClaimAgain(c)

Use(c) ==
  \/ Abandon(c) \/ Send(c, "sent") \/ Send(c, "armed")
  \/ Confirm(c) \/ TxFails(c) \/ Resolve(c) \/ Release(c)

EnsurePool(c) == CountPool(c) \/ \E r \in PoolRows : PostSpare(c, r)

Output(r) == CreateOutput(r) \/ Land(r) \/ ResolveOutput(r)

Next ==
  \/ \E c \in Calls : Claim(c) \/ Use(c) \/ EnsurePool(c) \/ Decide(c) \/ CloseTab(c)
  \/ \E r \in OutputRows : Output(r)
  \/ FetchOutputs

Spec == Init /\ [][Next]_vars

-------------------------------------------------------------------------------
(***************************************************************************)
(* Properties                                                              *)
(***************************************************************************)

IsCall(c) ==
  /\ c = Locals(c.pc, c.todo, c.row, c.bold)
  /\ c.pc \in PCs /\ c.todo \subseteq Rows /\ c.row \in Rows \cup {None}
  /\ c.bold \in BOOLEAN

\* Types of the rows, the calls and the transactions.
TypeOK ==
  /\ status \in [Rows -> Statuses]
  /\ call = [c \in Calls |-> call[c]] /\ \A c \in Calls : IsCall(call[c])
  /\ tx \in [Calls -> TxStatuses]
  /\ need \in [Calls -> 0 .. PoolMin]
  /\ UNION {landed, listed, stored} \subseteq OutputRows

\* Call c has row r and has not given it back: the change note it makes with it may
\* be, or come to be, in the vault.
Uses(c, r) ==
  /\ call[c].row = r
  /\ \/ call[c].pc \in {"held", "sent", "armed", "confirmed", "reverted"}
     \/ tx[c] \in {"pending", "mined"}

\* A call went on with row r after the claim of it was refused.
TakenBoldly(r) == \E c \in Calls : call[c].row = r /\ call[c].bold

\* A row serves one change note: no two calls use it, whatever requests are lost or
\* tabs closed, unless one of them went on after its claim was refused.
RowsServeOneCall ==
  \A c, d \in Calls : \A r \in Rows :
    Uses(c, r) /\ Uses(d, r) /\ c # d => TakenBoldly(r)

\* A spare row as its users see it: one that a call took against a refusal is void, and
\* of the others the table and the calls say who has them and what became of them.
View(r) ==
  IF TakenBoldly(r) THEN [offered |-> FALSE, by |-> {}, carried |-> TRUE]
  ELSE [offered |-> status[r] = "pending", by |-> {c \in Calls : Uses(c, r)},
        carried |-> \E c \in Mined : call[c].row = r]
Contract == INSTANCE PoolContract WITH
              Users <- Calls, Rows <- PoolRows, lent <- [r \in PoolRows |-> View(r)]

\* The requests of claimFromPool, ensurePool and the handlers, with all the failures of
\* the server and all tabs that close, keep the terms VaultNotes relies on for the spare
\* precommitments: a row with asset 'POOL' is on offer only while nobody has it, is lent
\* to one call at a time, is given back only if its transaction came to nothing, and is
\* never lent again once a note carries it.  Rows of strategy outputs are outside the
\* contract: claimFromPool takes them too, and a landed output carries their secret
\* already (OutputSecretsApart fails).
KeepsContract == Contract!Spec

\* The secret of a strategy output is not used for a change note ("Claim one
\* precommitment from the pool", sparePool.ts:78; "Pool entries use asset='POOL' /
\* chainId=0 as a sentinel", sparePool.ts:12).
OutputSecretsApart == \A c \in Calls : \A r \in OutputRows : ~ Uses(c, r)

-------------------------------------------------------------------------------
(***************************************************************************)
(* Fairness: a tab that stays open runs its continuations.                 *)
(***************************************************************************)
FairSpec == Spec /\ \A c \in Calls : WF_vars(Claim(c) /\ ~ At(c, "idle"))

\* The bound on posted rows is reached.
RowsExhausted == \A r \in PoolRows : status[r] # "none"

\* The loop over the list ends however others race for its rows: a claim comes to
\* have a row, or derived secrets.
Claiming(c) == call[c].pc \in {"trying", "posted", "refused", "reposted"}
ClaimEnds == \A c \in Calls : Claiming(c) ~> ~ Claiming(c) \/ RowsExhausted
===============================================================================
