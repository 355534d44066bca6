----------------------------- MODULE StrategyNotes -----------------------------
(***************************************************************************)
(* The notes a strategy spends, from its submission to its end: the local  *)
(* marks and the reservation made at submit (Build.tsx,                    *)
(* strategyNoteReservation.ts), the reconciler that releases them, the     *)
(* clean-up run by the events of RunsPanel and StrategyAutoExecutor, and   *)
(* the re-hydration that every wallet connect runs beside them (nexus.ts). *)
(*                                                                         *)
(* A process is one call of generateZKData, by a strategy form, by the     *)
(* quick swap form or by withdraw().  Amounts are left out: what a call    *)
(* asks for may select any of its candidates.  Pool rows and the change    *)
(* notes of withdrawals are the business of SparePool and VaultNotes.      *)
(***************************************************************************)
EXTENDS LocalNotes, Naturals, FiniteSets

CONSTANTS
  Deposits,            \* notes that are leaves of the vault from the start
  Calls,               \* calls of generateZKData; also names their change notes
  Devices,             \* localStorage origins
  Ticks,               \* passes of the reconciler that may run at the same time
  MaxNotes,            \* MAX_NOTES
  TeeMode,             \* isTeeAutonomousMode()
  ServerMayFail,       \* may a request to the server fail, or its answer be lost?
  WalletMayReconnect   \* may a wallet connect during the life of a strategy?

None == "none"
Notes == Deposits \cup Calls

ASSUME NamesAssumption == Deposits \cap Calls = {} /\ None \notin Calls
ASSUME MaxNotesAssumption == MaxNotes \in Nat \ {0}
ASSUME ModesAssumption == {TeeMode, ServerMayFail, WalletMayReconnect} \subseteq BOOLEAN

VARIABLES
  call,      \* call[c]: the locals of call c
  status,    \* status[c]: what the executor, or the vault, made of its proof
  local,     \* local[d]: the note rows in the localStorage of device d
  row,       \* row[n]: the spent flag of the server's commitments row of note n
  reserved,  \* reserved[c]: the notes of its siphon-reserved record, {} if none
  cleanup,   \* cleanup[c]: the notes of its siphon-pending-cleanup record
  patches,   \* requests sent and not awaited: <<sender, note, flag>>
  tick,      \* tick[t]: what pass t of the reconciler is at
  rewrite,   \* rewrite[d]: rows the re-hydration of device d has still to write
  sync       \* sync[d]: rows syncFromServer has still to look at, with their flag

wallet == <<rewrite, sync>>
records == <<reserved, cleanup>>
vars == <<call, status, local, row, records, patches, tick, wallet>>

-------------------------------------------------------------------------------
Kinds == {None, "strategy", "swap", "withdraw"}
Final == {"done", "failed", "closed"}
PCs == {"idle", "hydrated", "selected", "submitted", "persisted", "mined"} \cup Final

\* The executor's statuses; EXPIRED stands for CANCELLED too.  A withdrawal goes to
\* EXECUTED when it is mined.
Statuses == {None, "ARMED", "EXECUTED", "FAILED", "EXPIRED"}
RowStatus == Status \cup {"absent"}

\* own: is the strategy filed under the address of the wallet, which is asked for its
\* strategies, or under another recipient's?
Locals(kind, pc, d, ids, ins, change) ==
  [kind |-> kind, pc |-> pc, dev |-> d, ids |-> ids, ins |-> ins, change |-> change,
   own |-> TRUE]

At(c, kind, pc) == call[c].kind = kind /\ call[c].pc = pc
Goto(c, pc) == call' = [call EXCEPT ![c].pc = pc]

\* A call that ends: its map of ids goes with it, and its inputs unless it used them.
Finish(c, pc) == call' = [call EXCEPT ![c].pc = pc, ![c].ids = {}]
GiveUp(c) == call' = [call EXCEPT ![c].pc = "failed", ![c].ids = {}, ![c].ins = {}]

Store(c) == local[call[c].dev]
SetStore(c, store) == local' = [local EXCEPT ![call[c].dev] = store]

\* The chain: what the proofs that were executed spent and made.
Executed == {c \in Calls : status[c] = "EXECUTED"}
Nullified == UNION {call[c].ins : c \in Executed}
Leaves == Deposits \cup {c \in Executed : call[c].change}

NoPass == [of |-> None, left |-> {}]

\* Each deposit was made on some device, and others may have its row; the server has
\* it too, unless its post failed.
Init ==
  /\ call = [c \in Calls |-> Locals(None, "idle", None, {}, {}, FALSE)]
  /\ status = [c \in Calls |-> None]
  /\ \E has \in [Devices -> SUBSET Deposits] :
       /\ Deposits \subseteq UNION {has[d] : d \in Devices}
       /\ local = [d \in Devices |-> PutAll(EmptyStore, has[d], "false")]
  /\ row \in [Notes -> {"absent", "false"}]
  /\ \A n \in Notes : row[n] = "absent" => n \in Calls \/ ServerMayFail
  /\ \A c \in Calls : row[c] = "absent"
  /\ reserved = [c \in Calls |-> {}] /\ cleanup = [c \in Calls |-> {}]
  /\ patches = {}
  /\ tick = [t \in Ticks |-> NoPass]
  /\ rewrite = [d \in Devices |-> {}] /\ sync = [d \in Devices |-> {}]

-------------------------------------------------------------------------------
(***************************************************************************)
(* generateZKData                                                          *)
(***************************************************************************)

\* The server's unspent rows are copied to localStorage where there is none, and
\* their ids are kept.  A fetch that fails is only logged.
Hydrate(c, kind, d) ==
  /\ call[c].pc = "idle"
  /\ \E ids \in {{n \in Notes : row[n] = "false"}} \cup (IF ServerMayFail THEN {{}} ELSE {}) :
       /\ call' = [call EXCEPT ![c] = Locals(kind, "hydrated", d, ids, {}, FALSE)]
       /\ local' = [local EXCEPT ![d] = PutAll(@, ids \ DOMAIN @, "false")]
  /\ UNCHANGED <<status, row, records, patches, tick, wallet>>

\* Notes with a row not marked spent; those the chain knows as spent are marked, those
\* that are no leaves are left out, and the amount asked for selects among the rest.
Select(c) ==
  LET listed == {n \in DOMAIN Store(c) : Store(c)[n] # "true"} IN
  /\ call[c].pc = "hydrated"
  /\ SetStore(c, MarkAll(Store(c), listed \cap Nullified, "true"))
  /\ \/ \E N \in SUBSET ((listed \cap Leaves) \ Nullified) :
          /\ Cardinality(N) \in 1 .. MaxNotes
          /\ call' = [call EXCEPT ![c].pc = "selected", ![c].ids = @ \cap N, ![c].ins = N]
     \/ GiveUp(c)
  /\ UNCHANGED <<status, row, records, patches, tick, wallet>>

\* The proof fails, the user does not sign, or the executor or the vault refuses.
Refused(c) ==
  /\ call[c].pc = "selected"
  /\ GiveUp(c)
  /\ UNCHANGED <<status, local, row, records, patches, tick, wallet>>

-------------------------------------------------------------------------------
(***************************************************************************)
(* onExecuteStrategy and executeQuickSwapPayAndRun                         *)
(***************************************************************************)

\* Is it the wallet's own address?  For a swap it does not matter: it leaves no record.
Recipients(kind) == IF kind = "strategy" THEN BOOLEAN ELSE {TRUE}

\* submitEncryptedStrategy hands the proof to the executor, who arms the strategy and
\* files it under the recipient the user gave.  If the answer is lost the form takes it
\* for an error.
Submit(c) ==
  /\ call[c].pc = "selected" /\ call[c].kind # "withdraw"
  /\ status' = [status EXCEPT ![c] = "ARMED"]
  /\ \E change \in BOOLEAN, own \in Recipients(call[c].kind),
        pc \in {"submitted"} \cup (IF ServerMayFail THEN {"failed"} ELSE {}) :
       call' = [call EXCEPT ![c].pc = pc, ![c].change = change, ![c].own = own]
  /\ UNCHANGED <<local, row, records, patches, tick, wallet>>

\* The change note is written as spendable and posted, before it is a leaf.
Persist(c) ==
  /\ call[c].pc = "submitted"
  /\ Goto(c, "persisted")
  /\ IF call[c].change
     THEN /\ SetStore(c, Put(Store(c), c, "false"))
          /\ row' = [row EXCEPT ![c] = "false"] \/ (ServerMayFail /\ UNCHANGED row)
     ELSE UNCHANGED <<local, row>>
  /\ UNCHANGED <<status, records, patches, tick, wallet>>

\* Mutant of ReservedFlag: the word of the pool's table.
PoolWord == "in_use"

\* The flag of the server row of a reserved note.
ReservedFlag == "pending"

\* A strategy's inputs are reserved: those with a server id in the reserved record and
\* by requests that are not awaited, all of them in the clean-up record and by local
\* marks.  Without an id there is no reserved record.  (The import in between is of a
\* module loaded since the wallet connected.)
Reserve(c) ==
  LET known == call[c].ins \cap call[c].ids IN
  /\ At(c, "strategy", "persisted")
  /\ Finish(c, "done")
  /\ reserved' = [reserved EXCEPT ![c] = known]
  /\ patches' = patches \cup {<<c, n, ReservedFlag>> : n \in known}
  /\ cleanup' = [cleanup EXCEPT ![c] = call[c].ins]
  /\ SetStore(c, MarkAll(Store(c), call[c].ins, "true"))
  /\ UNCHANGED <<status, row, tick, wallet>>

Remove(store, N) == [n \in DOMAIN store \ N |-> store[n]]

\* A quick swap reserves nothing, and removes the row of the first of its inputs.
EndSwap(c) ==
  /\ At(c, "swap", "persisted")
  /\ Finish(c, "done")
  /\ \E n \in call[c].ins : SetStore(c, Remove(Store(c), {n}))
  /\ UNCHANGED <<status, row, records, patches, tick, wallet>>

-------------------------------------------------------------------------------
(***************************************************************************)
(* withdraw(), as far as it takes part: VaultNotes has all of it.          *)
(***************************************************************************)
Withdraw(c) ==
  /\ At(c, "withdraw", "selected")
  /\ call[c].ins \cap Nullified = {}
  /\ status' = [status EXCEPT ![c] = "EXECUTED"]
  /\ Goto(c, "mined")
  /\ UNCHANGED <<local, row, records, patches, tick, wallet>>

ConfirmWithdraw(c) ==
  /\ call[c].pc = "mined"
  /\ Finish(c, "done")
  /\ SetStore(c, MarkAll(Store(c), call[c].ins, "true"))
  /\ patches' = patches \cup {<<c, n, "true">> : n \in {m \in call[c].ins : row[m] # "absent"}}
  /\ UNCHANGED <<status, row, records, tick, wallet>>

-------------------------------------------------------------------------------
(***************************************************************************)
(* The executor and the server                                             *)
(***************************************************************************)
Execute(c) ==
  /\ status[c] = "ARMED" /\ call[c].ins \cap Nullified = {}
  /\ status' = [status EXCEPT ![c] = "EXECUTED"]
  /\ UNCHANGED <<call, local, row, records, patches, tick, wallet>>

DoNotExecute(c) ==
  /\ status[c] = "ARMED"
  /\ \E s \in {"FAILED", "EXPIRED"} : status' = [status EXCEPT ![c] = s]
  /\ UNCHANGED <<call, local, row, records, patches, tick, wallet>>

\* A request that was not awaited arrives, or is lost.
Deliver(p) ==
  /\ p \in patches
  /\ patches' = patches \ {p}
  /\ row' = [row EXCEPT ![p[2]] = p[3]] \/ (ServerMayFail /\ UNCHANGED row)
  /\ UNCHANGED <<call, status, local, records, tick, wallet>>

-------------------------------------------------------------------------------
(***************************************************************************)
(* StrategyNoteReconciler and reconcileReservedNotes, on the device that   *)
(* has the record.  A pass is one round of the loop over the strategies.   *)
(***************************************************************************)

\* Mutants of Terminal: EXPIRED is not known; every status but EXECUTED is a failure.
TerminalWithoutExpiry == {"EXECUTED", "FAILED"}
TerminalWithArmed == Statuses \ {None}

Terminal == {"EXECUTED", "FAILED", "EXPIRED"}
Flag(c) == IF status[c] = "EXECUTED" THEN "true" ELSE "false"

\* A pass sees the strategies of the wallet's own address.
StartPass(t, c) ==
  /\ tick[t] = NoPass
  /\ call[c].own /\ reserved[c] # {} /\ status[c] \in Terminal
  /\ tick' = [tick EXCEPT ![t] = [of |-> c, left |-> reserved[c]]]
  /\ UNCHANGED <<call, status, local, row, records, patches, wallet>>

\* One of the requests, which are sent together and settle before the pass goes on.
\* A failure is not looked at.
PatchOne(t, n) ==
  /\ n \in tick[t].left
  /\ tick' = [tick EXCEPT ![t].left = @ \ {n}]
  /\ row' = [row EXCEPT ![n] = Flag(tick[t].of)] \/ (ServerMayFail /\ UNCHANGED row)
  /\ UNCHANGED <<call, status, local, records, patches, wallet>>

\* The reserved record is removed; if the strategy did not run, the local marks are
\* taken back for the notes of the clean-up record, if it is still there.
EndPass(t) ==
  LET c == tick[t].of IN
  /\ c # None /\ tick[t].left = {}
  /\ tick' = [tick EXCEPT ![t] = NoPass]
  /\ reserved' = [reserved EXCEPT ![c] = {}]
  /\ IF Flag(c) = "false"
     THEN /\ SetStore(c, MarkAll(Store(c), cleanup[c], "false"))
          /\ cleanup' = [cleanup EXCEPT ![c] = {}]
     ELSE UNCHANGED <<local, cleanup>>
  /\ UNCHANGED <<call, status, row, patches, wallet>>

\* siphon:strategyExecuted, which RunsPanel sends when a strategy of the wallet's own
\* address comes to be EXECUTED or FAILED: StrategyAutoExecutor deletes the rows of the
\* clean-up record.
CleanUp(c) ==
  /\ ~ TeeMode /\ call[c].own
  /\ status[c] \in {"EXECUTED", "FAILED"} /\ cleanup[c] # {}
  /\ SetStore(c, Remove(Store(c), cleanup[c]))
  /\ cleanup' = [cleanup EXCEPT ![c] = {}]
  /\ UNCHANGED <<call, status, row, reserved, patches, tick, wallet>>

-------------------------------------------------------------------------------
(***************************************************************************)
(* A wallet connects: initializeWithProvider starts two re-hydrations.     *)
(***************************************************************************)

\* The first fetches the rows not spent of notes that are leaves ...
FetchForRewrite(d) ==
  /\ WalletMayReconnect /\ rewrite[d] = {}
  /\ rewrite' = [rewrite EXCEPT ![d] = {n \in Leaves : row[n] \in {"false", "pending"}}]
  /\ UNCHANGED <<call, status, local, row, records, patches, tick, sync>>

\* ... and writes each as spendable.  It looks for the local row under the old key,
\* where there is none.
Rewrite(d, n) ==
  /\ n \in rewrite[d]
  /\ rewrite' = [rewrite EXCEPT ![d] = @ \ {n}]
  /\ local' = [local EXCEPT ![d] = Put(@, n, "false")]
  /\ UNCHANGED <<call, status, row, records, patches, tick, sync>>

\* syncFromServer fetches the rows not spent ...
FetchForSync(d) ==
  /\ WalletMayReconnect /\ sync[d] = {}
  /\ sync' = [sync EXCEPT ![d] =
       {<<n, row[n]>> : n \in {m \in Notes : row[m] \in {"false", "pending"}}}]
  /\ UNCHANGED <<call, status, local, row, records, patches, tick, rewrite>>

\* ... writes those without a local row, and reports the ones marked locally as spent.
SyncOne(d, e) ==
  /\ e \in sync[d]
  /\ sync' = [sync EXCEPT ![d] = @ \ {e}]
  /\ IF e[1] \notin DOMAIN local[d]
     THEN local' = [local EXCEPT ![d] = Put(@, e[1], e[2])] /\ UNCHANGED patches
     ELSE /\ UNCHANGED local
          /\ patches' = IF local[d][e[1]] = "true" THEN patches \cup {<<d, e[1], "true">>}
                        ELSE patches
  /\ UNCHANGED <<call, status, row, records, tick, rewrite>>

-------------------------------------------------------------------------------
CloseTab(c) ==
  /\ call[c].pc \notin Final \cup {"idle"}
  /\ Finish(c, "closed")
  /\ UNCHANGED <<status, local, row, records, patches, tick, wallet>>

Form(c) == Submit(c) \/ Persist(c) \/ Reserve(c) \/ EndSwap(c)
Pass(t) ==
  \/ \E c \in Calls : StartPass(t, c)
  \/ \E n \in tick[t].left : PatchOne(t, n)
  \/ EndPass(t)
Connect(d) ==
  \/ FetchForRewrite(d) \/ \E n \in rewrite[d] : Rewrite(d, n)
  \/ FetchForSync(d) \/ \E e \in sync[d] : SyncOne(d, e)

Next ==
  \/ \E c \in Calls :
       \/ \E kind \in Kinds \ {None}, d \in Devices : Hydrate(c, kind, d)
       \/ Select(c) \/ Refused(c) \/ Form(c) \/ Withdraw(c) \/ ConfirmWithdraw(c)
       \/ Execute(c) \/ DoNotExecute(c) \/ CleanUp(c) \/ CloseTab(c)
  \/ \E p \in patches : Deliver(p)
  \/ \E t \in Ticks : Pass(t)
  \/ \E d \in Devices : Connect(d)

Spec == Init /\ [][Next]_vars

-------------------------------------------------------------------------------
(***************************************************************************)
(* Properties                                                              *)
(***************************************************************************)
CallType ==
  [kind : Kinds, pc : PCs, dev : Devices \cup {None}, ids : SUBSET Notes,
   ins : SUBSET Notes, change : BOOLEAN, own : BOOLEAN]

CallsOK ==
  /\ call \in [Calls -> CallType]
  /\ \A c \in Calls : call[c].pc # "idle" => call[c].dev \in Devices

StoresOK ==
  /\ local = [d \in Devices |-> local[d]]
  /\ \A d \in Devices : IsStore(local[d]) /\ DOMAIN local[d] \subseteq Notes

PassesOK ==
  /\ tick \in [Ticks -> [of : Calls \cup {None}, left : SUBSET Notes]]
  /\ \A t \in Ticks : tick[t].of = None => tick[t].left = {}

\* Types of the calls, the rows, the records and the requests.
TypeOK ==
  /\ CallsOK
  /\ status \in [Calls -> Statuses]
  /\ StoresOK
  /\ row \in [Notes -> RowStatus]
  /\ reserved \in [Calls -> SUBSET Notes] /\ cleanup \in [Calls -> SUBSET Notes]
  /\ patches \subseteq (Calls \cup Devices) \X Notes \X Status
  /\ PassesOK
  /\ rewrite \in [Devices -> SUBSET Notes]
  /\ sync \in [Devices -> SUBSET (Notes \X Status)]

\* Another call of the device handed in a proof that spends note n.
Shared(c, n) ==
  \E e \in Calls \ {c} :
    n \in call[e].ins /\ call[e].dev = call[c].dev /\ status[e] # None

\* A reserved note is not offered: while a strategy is armed its inputs stay marked as
\* spent on its device, unless another call of the device handed in a proof with them.
MarkedWhileArmed ==
  \A c \in Calls : At(c, "strategy", "done") /\ status[c] = "ARMED" =>
    \A n \in call[c].ins : HasStatus(Store(c), n, "true") \/ Shared(c, n)

\* No strategy that failed takes the secret of an unspent note with it ("If we delete
\* now and the executor fails, the user loses note secrets permanently", Build.tsx:1058).
FailedKeepsSecrets ==
  \A c \in Calls : At(c, "strategy", "done") /\ status[c] \in {"FAILED", "EXPIRED"} =>
    \A n \in call[c].ins :
      n \in Nullified \/ n \in DOMAIN Store(c) \/ row[n] # "absent"

-------------------------------------------------------------------------------
(***************************************************************************)
(* Fairness: the reconciler ticks every 20 s while the dapp is open and a  *)
(* request that was sent settles.                                          *)
(***************************************************************************)
FairSpec == Spec /\ \A t \in Ticks : WF_vars(Pass(t))

\* A strategy that ends without running gives its notes back, if it has a reserved
\* record and was filed under the wallet's own address: all come to be offered on its
\* device, however requests are lost, but for those that were spent, that another call
\* of the device had too, or whose row the clean-up event deleted first (which is how
\* FailedKeepsSecrets fails).
Offered(c, n) == n \in DOMAIN Store(c) /\ Store(c)[n] # "true"
Deleted(c, n) == ~ TeeMode /\ n \notin DOMAIN Store(c)
Owed(c) ==
  /\ At(c, "strategy", "done") /\ status[c] \in {"FAILED", "EXPIRED"}
  /\ call[c].own /\ reserved[c] # {}
NotesComeBack ==
  \A c \in Calls :
    Owed(c) ~> /\ call[c].dev \in Devices
               /\ \A n \in call[c].ins :
                    Offered(c, n) \/ Deleted(c, n) \/ n \in Nullified \/ Shared(c, n)
===============================================================================
