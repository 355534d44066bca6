-------------------------- MODULE StrategyNotesProofs --------------------------
(***************************************************************************)
(* Proofs about StrategyNotes.                                             *)
(***************************************************************************)
EXTENDS StrategyNotes, TLAPS

-------------------------------------------------------------------------------
(***************************************************************************)
(* Types.                                                                  *)
(***************************************************************************)

\* The operations on a store give stores.
LEMMA StoreOps ==
  ASSUME NEW store, IsStore(store), NEW N, NEW s \in Status, NEW n
  PROVE  /\ IsStore(Put(store, n, s)) /\ DOMAIN Put(store, n, s) = DOMAIN store \cup {n}
         /\ IsStore(PutAll(store, N, s)) /\ DOMAIN PutAll(store, N, s) = DOMAIN store \cup N
         /\ IsStore(MarkAll(store, N, s)) /\ DOMAIN MarkAll(store, N, s) = DOMAIN store
         /\ IsStore(Remove(store, N)) /\ DOMAIN Remove(store, N) = DOMAIN store \ N
BY DEF IsStore, Put, PutAll, MarkAll, Remove

\* A step that replaces the store of one device.
LEMMA SetLocal ==
  ASSUME StoresOK, NEW d \in Devices, NEW store, IsStore(store), DOMAIN store \subseteq Notes,
         local' = [local EXCEPT ![d] = store]
  PROVE  StoresOK'
BY DEF StoresOK

\* The calls' locals after each kind of step.
LEMMA GotoType ==
  ASSUME CallsOK, NEW c \in Calls, NEW pc \in PCs, call[c].pc # "idle",
         Goto(c, pc) \/ Finish(c, pc) \/ GiveUp(c)
  PROVE  CallsOK'
BY DEF CallsOK, CallType, Goto, Finish, GiveUp, PCs, Final

LEMMA HydrateType ==
  ASSUME TypeOK, NEW c \in Calls, NEW kind \in Kinds, NEW d \in Devices, Hydrate(c, kind, d)
  PROVE  TypeOK'
<1>1. PICK ids \in SUBSET Notes :
        /\ call' = [call EXCEPT ![c] = Locals(kind, "hydrated", d, ids, {}, FALSE)]
        /\ local' = [local EXCEPT ![d] = PutAll(local[d], ids \ DOMAIN local[d], "false")]
  BY DEF Hydrate, TypeOK
<1>2. CallsOK' BY <1>1 DEF TypeOK, CallsOK, CallType, Locals, PCs
<1>3. StoresOK'
  <2>1. IsStore(local[d]) /\ DOMAIN local[d] \subseteq Notes BY DEF TypeOK, StoresOK
  <2> DEFINE N == ids \ DOMAIN local[d]
             store == PutAll(local[d], N, "false")
  <2>2. IsStore(store) /\ DOMAIN store = DOMAIN local[d] \cup N
    BY <2>1 DEF IsStore, PutAll, Status
  <2>3. DOMAIN store \subseteq Notes BY <1>1, <2>1, <2>2
  <2>4. local' = [local EXCEPT ![d] = store] BY <1>1
  <2> HIDE DEF store
  <2> QED BY <2>2, <2>3, <2>4, SetLocal DEF TypeOK
<1> QED BY <1>2, <1>3 DEF TypeOK, Hydrate, records, wallet, PassesOK

\* A step that marks, writes or removes rows of the store of a call keeps the stores.
LEMMA OwnStore ==
  ASSUME TypeOK, NEW c \in Calls, NEW N, NEW s \in Status, NEW n \in Notes,
         \/ SetStore(c, MarkAll(Store(c), N, s))
         \/ SetStore(c, Put(Store(c), n, s))
         \/ SetStore(c, Remove(Store(c), N))
  PROVE  StoresOK'
<1> DEFINE d == call[c].dev
           A == MarkAll(local[d], N, s)
           B == Put(local[d], n, s)
           C == Remove(local[d], N)
<1>1. \/ local' = [local EXCEPT ![d] = A]
      \/ local' = [local EXCEPT ![d] = B]
      \/ local' = [local EXCEPT ![d] = C]
  BY DEF SetStore, Store
<1>2. StoresOK BY DEF TypeOK
<1>3. CASE d \in Devices
  <2>1. IsStore(local[d]) /\ DOMAIN local[d] \subseteq Notes BY <1>2, <1>3 DEF StoresOK
  <2>2. IsStore(A) /\ DOMAIN A \subseteq Notes BY <2>1 DEF IsStore, MarkAll
  <2>3. IsStore(B) /\ DOMAIN B \subseteq Notes BY <2>1 DEF IsStore, Put
  <2>4. IsStore(C) /\ DOMAIN C \subseteq Notes BY <2>1 DEF IsStore, Remove
  <2> HIDE DEF A, B, C
  <2> QED BY <1>1, <1>2, <1>3, <2>2, <2>3, <2>4, SetLocal
<1>4. CASE d \notin Devices
  <2>1. DOMAIN local = Devices /\ local = [e \in Devices |-> local[e]] BY <1>2 DEF StoresOK
  <2> HIDE DEF A, B, C, d
  <2>2. local' = local BY <1>1, <1>4, <2>1
  <2> QED BY <1>2, <2>2 DEF StoresOK
<1> QED BY <1>3, <1>4

LEMMA FormType ==
  ASSUME TypeOK, NEW c \in Calls,
         Select(c) \/ Refused(c) \/ Form(c) \/ Withdraw(c) \/ ConfirmWithdraw(c) \/ CloseTab(c)
  PROVE  TypeOK'
<1> USE DEF records, wallet, PassesOK
<1>0. CallsOK /\ call[c] \in CallType /\ call[c].ins \subseteq Notes /\ c \in Notes
  BY DEF TypeOK, CallsOK, CallType, Notes
<1>1. CASE Select(c)
  <2>0. call[c].pc = "hydrated" BY <1>1 DEF Select
  <2>1. StoresOK' BY <1>0, <1>1, <2>0, OwnStore DEF Select, Status
  <2>2. CASE GiveUp(c)
    <3>1. CallsOK' BY <1>0, <2>0, <2>2, GotoType DEF PCs, Final
    <3> QED BY <1>1, <2>1, <3>1 DEF TypeOK, Select
  <2>3. CASE ~ GiveUp(c)
    <3>1. PICK N \in SUBSET Notes :
            call' = [call EXCEPT ![c].pc = "selected", ![c].ids = call[c].ids \cap N, ![c].ins = N]
      <4>1. DOMAIN Store(c) \subseteq Notes
        BY <1>0, <2>0 DEF TypeOK, StoresOK, CallsOK, Store
      <4> QED BY <1>1, <2>3, <4>1 DEF Select
    <3>2. CallsOK' BY <1>0, <2>0, <3>1 DEF CallsOK, CallType, PCs
    <3> QED BY <1>1, <2>1, <3>2 DEF TypeOK, Select
  <2> QED BY <2>2, <2>3
<1>2. CASE Refused(c)
  <2>1. CallsOK' BY <1>0, <1>2, GotoType DEF PCs, Final, Refused
  <2> QED BY <1>2, <2>1 DEF TypeOK, Refused, StoresOK
<1>3. CASE Submit(c)
  <2>1. PICK change \in BOOLEAN, own \in BOOLEAN, pc \in {"submitted", "failed"} :
          call' = [call EXCEPT ![c].pc = pc, ![c].change = change, ![c].own = own]
    BY <1>3 DEF Submit, Recipients
  <2>2. CallsOK' BY <1>0, <1>3, <2>1 DEF CallsOK, CallType, PCs, Final, Submit
  <2>3. status' \in [Calls -> Statuses] BY <1>3 DEF TypeOK, Submit, Statuses
  <2> QED BY <1>3, <2>2, <2>3 DEF TypeOK, Submit, StoresOK
<1>4. CASE Persist(c)
  <2>1. CallsOK' BY <1>0, <1>4, GotoType DEF PCs, Persist
  <2>2. StoresOK'
    <3>1. CASE call[c].change BY <1>0, <1>4, <3>1, OwnStore DEF Persist, Status
    <3>2. CASE ~ call[c].change BY <1>4, <3>2 DEF Persist, TypeOK, StoresOK
    <3> QED BY <3>1, <3>2
  <2>3. row' \in [Notes -> RowStatus]
    BY <1>0, <1>4 DEF Persist, TypeOK, RowStatus, Status
  <2> QED BY <1>4, <2>1, <2>2, <2>3 DEF TypeOK, Persist
<1>5. CASE Reserve(c)
  <2>0. call[c].pc = "persisted" BY <1>5 DEF Reserve, At
  <2>1. CallsOK' BY <1>0, <1>5, <2>0, GotoType DEF PCs, Final, Reserve
  <2>2. StoresOK' BY <1>0, <1>5, <2>0, OwnStore DEF Reserve, Status
  <2>3. reserved' \in [Calls -> SUBSET Notes] /\ cleanup' \in [Calls -> SUBSET Notes]
    BY <1>0, <1>5 DEF Reserve, TypeOK
  <2>4. patches' \subseteq (Calls \cup Devices) \X Notes \X Status
    BY <1>0, <1>5 DEF Reserve, TypeOK, ReservedFlag, Status
  <2> QED BY <1>5, <2>1, <2>2, <2>3, <2>4 DEF TypeOK, Reserve
<1>6. CASE EndSwap(c)
  <2>0. call[c].pc = "persisted" BY <1>6 DEF EndSwap, At
  <2>1. CallsOK' BY <1>0, <1>6, <2>0, GotoType DEF PCs, Final, EndSwap
  <2>2. PICK n \in call[c].ins : SetStore(c, Remove(Store(c), {n})) BY <1>6 DEF EndSwap
  <2>3. StoresOK' BY <1>0, <2>0, <2>2, OwnStore DEF Status
  <2> QED BY <1>6, <2>1, <2>3 DEF TypeOK, EndSwap
<1>7. CASE Withdraw(c)
  <2>1. CallsOK' BY <1>0, <1>7, GotoType DEF PCs, Withdraw, At
  <2>2. status' \in [Calls -> Statuses] BY <1>7 DEF TypeOK, Withdraw, Statuses
  <2> QED BY <1>7, <2>1, <2>2 DEF TypeOK, Withdraw, StoresOK
<1>8. CASE ConfirmWithdraw(c)
  <2>0. call[c].pc = "mined" BY <1>8 DEF ConfirmWithdraw
  <2>1. CallsOK' BY <1>0, <1>8, <2>0, GotoType DEF PCs, Final, ConfirmWithdraw
  <2>2. StoresOK' BY <1>0, <1>8, <2>0, OwnStore DEF ConfirmWithdraw, Status
  <2>3. patches' \subseteq (Calls \cup Devices) \X Notes \X Status
    BY <1>0, <1>8 DEF ConfirmWithdraw, TypeOK, Status
  <2> QED BY <1>8, <2>1, <2>2, <2>3 DEF TypeOK, ConfirmWithdraw
<1>9. CASE CloseTab(c)
  <2>1. CallsOK' BY <1>0, <1>9, GotoType DEF PCs, Final, CloseTab
  <2> QED BY <1>9, <2>1 DEF TypeOK, CloseTab, StoresOK
<1> QED BY <1>1, <1>2, <1>3, <1>4, <1>5, <1>6, <1>7, <1>8, <1>9 DEF Form

LEMMA ServerType ==
  ASSUME TypeOK,
         \/ \E c \in Calls : Execute(c) \/ DoNotExecute(c)
         \/ \E p \in patches : Deliver(p)
         \/ \E t \in Ticks, c \in Calls : StartPass(t, c)
         \/ \E t \in Ticks : \E n \in tick[t].left : PatchOne(t, n)
         \/ \E d \in Devices : FetchForRewrite(d) \/ FetchForSync(d)
  PROVE  TypeOK'
<1> USE DEF records, wallet
<1>1. CASE \E c \in Calls : Execute(c) \/ DoNotExecute(c)
  <2>1. status' \in [Calls -> Statuses]
    BY <1>1 DEF TypeOK, Execute, DoNotExecute, Statuses
  <2> QED BY <1>1, <2>1 DEF TypeOK, Execute, DoNotExecute, CallsOK, StoresOK, PassesOK
<1>2. CASE \E p \in patches : Deliver(p)
  <2>1. PICK p \in patches : Deliver(p) BY <1>2
  <2>2. p[2] \in Notes /\ p[3] \in RowStatus BY DEF TypeOK, RowStatus
  <2>3. row' \in [Notes -> RowStatus] BY <2>1, <2>2 DEF TypeOK, Deliver
  <2> QED BY <2>1, <2>3 DEF TypeOK, Deliver, CallsOK, StoresOK, PassesOK
<1>3. CASE \E t \in Ticks, c \in Calls : StartPass(t, c)
  <2>1. PICK t \in Ticks, c \in Calls : StartPass(t, c) BY <1>3
  <2>2. reserved[c] \subseteq Notes BY DEF TypeOK
  <2>3. c # None BY NamesAssumption
  <2>4. PassesOK' BY <2>1, <2>2, <2>3 DEF TypeOK, StartPass, PassesOK
  <2> QED BY <2>1, <2>4 DEF TypeOK, StartPass, CallsOK, StoresOK
<1>4. CASE \E t \in Ticks : \E n \in tick[t].left : PatchOne(t, n)
  <2>0. PICK t \in Ticks : \E n \in tick[t].left : PatchOne(t, n) BY <1>4
  <2>1. PICK n \in tick[t].left : PatchOne(t, n) BY <2>0
  <2>2. PassesOK' BY <2>1 DEF TypeOK, PatchOne, PassesOK
  <2>3. Flag(tick[t].of) \in RowStatus BY DEF Flag, RowStatus, Status
  <2>4. row' \in [Notes -> RowStatus]
    <3> HIDE DEF Flag, RowStatus
    <3> QED BY <2>1, <2>3 DEF TypeOK, PatchOne
  <2> QED BY <2>1, <2>2, <2>4 DEF TypeOK, PatchOne, CallsOK, StoresOK
<1>5. CASE \E d \in Devices : FetchForRewrite(d) \/ FetchForSync(d)
  <2>1. PICK d \in Devices : FetchForRewrite(d) \/ FetchForSync(d) BY <1>5
  <2>2. CASE FetchForRewrite(d)
    <3>1. Leaves \subseteq Notes BY DEF Leaves, Executed, Notes
    <3>2. rewrite' \in [Devices -> SUBSET Notes]
      BY <2>2, <3>1 DEF TypeOK, FetchForRewrite
    <3> QED BY <2>2, <3>2 DEF TypeOK, FetchForRewrite, CallsOK, StoresOK, PassesOK
  <2>3. CASE FetchForSync(d)
    <3>1. sync' \in [Devices -> SUBSET (Notes \X Status)]
      <4> DEFINE E == {<<n, row[n]>> : n \in {m \in Notes : row[m] \in {"false", "pending"}}}
      <4>1. E \subseteq Notes \X Status BY DEF Status
      <4> HIDE DEF E
      <4>2. sync' = [sync EXCEPT ![d] = E] BY <2>3 DEF FetchForSync, E
      <4> QED BY <4>1, <4>2 DEF TypeOK
    <3> QED BY <2>3, <3>1 DEF TypeOK, FetchForSync, CallsOK, StoresOK, PassesOK
  <2> QED BY <2>1, <2>2, <2>3
<1> QED BY <1>1, <1>2, <1>3, <1>4, <1>5

LEMMA ReleaseType ==
  ASSUME TypeOK, (\E t \in Ticks : EndPass(t)) \/ (\E c \in Calls : CleanUp(c))
  PROVE  TypeOK'
<1> USE DEF records, wallet
<1>1. CASE \E t \in Ticks : EndPass(t)
  <2>1. PICK t \in Ticks : EndPass(t) BY <1>1
  <2> DEFINE c == tick[t].of
  <2>2. c \in Calls BY <2>1 DEF TypeOK, PassesOK, EndPass
  <2>3. PassesOK' BY <2>1 DEF TypeOK, PassesOK, EndPass, NoPass
  <2>4. reserved' \in [Calls -> SUBSET Notes] /\ cleanup' \in [Calls -> SUBSET Notes]
    BY <2>1, <2>2 DEF TypeOK, EndPass
  <2>5. StoresOK'
    <3>1. CASE Flag(c) = "false"
      <4>1. SetStore(c, MarkAll(Store(c), cleanup[c], "false")) BY <2>1, <3>1 DEF EndPass
      <4>2. c \in Notes BY <2>2 DEF Notes
      <4> HIDE DEF c
      <4> QED BY <2>2, <4>1, <4>2, OwnStore DEF Status
    <3>2. CASE Flag(c) # "false" BY <2>1, <3>2 DEF EndPass, TypeOK, StoresOK
    <3> QED BY <3>1, <3>2
  <2> QED BY <2>1, <2>3, <2>4, <2>5 DEF TypeOK, EndPass, CallsOK
<1>2. CASE \E c \in Calls : CleanUp(c)
  <2>1. PICK c \in Calls : CleanUp(c) BY <1>2
  <2>2. c \in Notes BY DEF Notes
  <2>3. StoresOK' BY <2>1, <2>2, OwnStore DEF CleanUp, Status
  <2>4. cleanup' \in [Calls -> SUBSET Notes] BY <2>1 DEF TypeOK, CleanUp
  <2> QED BY <2>1, <2>3, <2>4 DEF TypeOK, CleanUp, CallsOK, PassesOK
<1> QED BY <1>1, <1>2

LEMMA ConnectType ==
  ASSUME TypeOK, NEW d \in Devices,
         \/ \E n \in rewrite[d] : Rewrite(d, n)
         \/ \E e \in sync[d] : SyncOne(d, e)
  PROVE  TypeOK'
<1> USE DEF records
<1>0. StoresOK /\ IsStore(local[d]) /\ DOMAIN local[d] \subseteq Notes
  BY DEF TypeOK, StoresOK
<1>1. CASE \E n \in rewrite[d] : Rewrite(d, n)
  <2>1. PICK n \in rewrite[d] : Rewrite(d, n) BY <1>1
  <2> DEFINE store == Put(local[d], n, "false")
  <2>2. IsStore(store) /\ DOMAIN store \subseteq Notes
    BY <1>0, <2>1 DEF TypeOK, IsStore, Put, Status
  <2>3. local' = [local EXCEPT ![d] = store] BY <2>1 DEF Rewrite
  <2> HIDE DEF store
  <2>4. StoresOK' BY <1>0, <2>2, <2>3, SetLocal
  <2> QED BY <2>1, <2>4 DEF TypeOK, Rewrite, CallsOK, PassesOK
<1>2. CASE \E e \in sync[d] : SyncOne(d, e)
  <2>1. PICK e \in sync[d] : SyncOne(d, e) BY <1>2
  <2>2. e[1] \in Notes /\ e[2] \in Status BY <2>1 DEF TypeOK
  <2>3. StoresOK'
    <3> DEFINE store == Put(local[d], e[1], e[2])
    <3>1. IsStore(store) /\ DOMAIN store \subseteq Notes BY <1>0, <2>2 DEF IsStore, Put
    <3>2. local' = [local EXCEPT ![d] = store] \/ local' = local BY <2>1 DEF SyncOne
    <3> HIDE DEF store
    <3>3. CASE local' = [local EXCEPT ![d] = store] BY <1>0, <3>1, <3>3, SetLocal
    <3>4. CASE local' = local BY <1>0, <3>4 DEF StoresOK
    <3> QED BY <3>2, <3>3, <3>4
  <2>4. patches' \subseteq (Calls \cup Devices) \X Notes \X Status
    BY <2>1, <2>2 DEF SyncOne, TypeOK, Status
  <2>5. sync' \in [Devices -> SUBSET (Notes \X Status)] BY <2>1 DEF SyncOne, TypeOK
  <2> QED BY <2>1, <2>3, <2>4, <2>5 DEF TypeOK, SyncOne, CallsOK, PassesOK
<1> QED BY <1>1, <1>2

\* Each step keeps the types.
LEMMA TypeStep == TypeOK /\ [Next]_vars => TypeOK'
<1> SUFFICES ASSUME TypeOK, [Next]_vars PROVE TypeOK' OBVIOUS
<1>1. CASE UNCHANGED vars
  BY <1>1 DEF vars, records, wallet, TypeOK, CallsOK, StoresOK, PassesOK
<1>2. CASE Next
  BY <1>2, HydrateType, FormType, ServerType, ReleaseType, ConnectType DEF Next, Pass, Connect
<1> QED BY <1>1, <1>2

LEMMA TypeInit == Init => TypeOK
<1> SUFFICES ASSUME Init PROVE TypeOK OBVIOUS
<1>1. CallsOK BY DEF Init, CallsOK, CallType, Locals, Kinds, PCs
<1>2. StoresOK
  BY DEF Init, StoresOK, IsStore, PutAll, EmptyStore, Notes, Status
<1>3. PassesOK BY DEF Init, PassesOK, NoPass
<1> QED BY <1>1, <1>2, <1>3 DEF Init, TypeOK, Statuses, RowStatus, Status

\* TypeOK holds in every state: the rows, records, requests and passes of a strategy
\* are what the code takes them for, whatever the failures and the reconnections.
THEOREM TypeCorrect == Spec => []TypeOK
<1> QED BY TypeInit, TypeStep, PTL DEF Spec

-------------------------------------------------------------------------------
(***************************************************************************)
(* The inductive invariant of MarkedWhileArmed, for a device whose wallet  *)
(* does not connect again.                                                 *)
(***************************************************************************)

\* No re-hydration runs.
NoRewrite == rewrite = [d \in Devices |-> {}] /\ sync = [d \in Devices |-> {}]

\* A proof is handed in by a submitted call, and a call that went on was submitted.
Early == {"idle", "hydrated", "selected"}
ProofFollowsCall ==
  \A c \in Calls :
    /\ call[c].pc \in Early => status[c] = None
    /\ call[c].pc \in {"submitted", "persisted", "mined", "done"} => status[c] # None
    /\ call[c].pc = "mined" => status[c] = "EXECUTED"

\* The records of a call hold notes it spends, and a pass is about a call that is over.
RecordsOfCalls ==
  /\ \A c \in Calls :
       /\ reserved[c] \cup cleanup[c] \subseteq call[c].ins
       /\ reserved[c] \cup cleanup[c] # {} => call[c].pc = "done"
  /\ \A t \in Ticks : tick[t].of # None =>
       /\ status[tick[t].of] \in Terminal /\ call[tick[t].of].pc = "done"
       /\ tick[t].left \subseteq call[tick[t].of].ins

\* A request on its way is about an input of its sender.
PatchesOfCalls ==
  \A p \in patches : p[1] \in Calls /\ p[2] \in call[p[1]].ins /\ call[p[1]].pc \notin Early

\* A change note that has a row, or is spent, was written by its call.
Unwritten == {c \in Calls : call[c].pc \in Early \cup {"submitted"}}
ChangeIsWritten ==
  \A n \in Unwritten :
    /\ row[n] = "absent"
    /\ \A d \in Devices : n \notin DOMAIN local[d]
    /\ \A c \in Calls : n \notin call[c].ins

\* The inputs of a call that has yet to mark them have rows, or are shared.
InputsStored ==
  \A c \in Calls : call[c].pc \in {"selected", "submitted", "persisted"} =>
    \A n \in call[c].ins : n \in DOMAIN Store(c) \/ Shared(c, n)

MarkInv ==
  /\ TypeOK /\ NoRewrite /\ ProofFollowsCall /\ RecordsOfCalls /\ PatchesOfCalls
  /\ ChangeIsWritten /\ InputsStored /\ MarkedWhileArmed

\* The locals after a call went on or ended.
LEMMA GotoEffect ==
  ASSUME CallsOK, NEW c \in Calls, NEW pc, Goto(c, pc) \/ Finish(c, pc), NEW e \in Calls
  PROVE  /\ call'[e].kind = call[e].kind /\ call'[e].dev = call[e].dev
         /\ call'[e].ins = call[e].ins
         /\ call'[e].pc = IF e = c THEN pc ELSE call[e].pc
BY DEF CallsOK, CallType, Goto, Finish

LEMMA GiveUpEffect ==
  ASSUME CallsOK, NEW c \in Calls, GiveUp(c), NEW e \in Calls
  PROVE  /\ call'[e].kind = call[e].kind /\ call'[e].dev = call[e].dev
         /\ call'[e].ins = IF e = c THEN {} ELSE call[e].ins
         /\ call'[e].pc = IF e = c THEN "failed" ELSE call[e].pc
BY DEF CallsOK, CallType, GiveUp

\* What a call asks for is settled once its proof is handed in.
SameNotes(c) == call'[c].ins = call[c].ins /\ call'[c].dev = call[c].dev
HandedInStays == \A e \in Calls : status[e] # None => status'[e] # None /\ SameNotes(e)

LEMMA SharedKept ==
  ASSUME NEW c \in Calls, NEW n, Shared(c, n), HandedInStays, call'[c].dev = call[c].dev
  PROVE  Shared(c, n)'
BY DEF Shared, HandedInStays, SameNotes

\* Steps that leave the rows as they are, or add some, or mark some as spent.
Grows ==
  \A d \in Devices : \A n \in DOMAIN local[d] :
    /\ n \in DOMAIN local'[d]
    /\ local[d][n] = "true" => local'[d][n] = "true"

Marking == {"selected", "submitted", "persisted"}
Armed(c) == At(c, "strategy", "done") /\ status[c] = "ARMED"
StoredCall(c) == \A n \in call[c].ins : n \in DOMAIN Store(c) \/ Shared(c, n)
MarkedCall(c) == \A n \in call[c].ins : HasStatus(Store(c), n, "true") \/ Shared(c, n)

LEMMA GrowsKeeps ==
  ASSUME Grows, HandedInStays, NEW c \in Calls, SameNotes(c), call[c].dev \in Devices
  PROVE  (StoredCall(c) => StoredCall(c)') /\ (MarkedCall(c) => MarkedCall(c)')
<1>1. \A n : Shared(c, n) => Shared(c, n)' BY SharedKept DEF SameNotes
<1>2. \A n \in DOMAIN Store(c) :
        /\ n \in DOMAIN Store(c)'
        /\ HasStatus(Store(c), n, "true") => HasStatus(Store(c), n, "true")'
  BY DEF Grows, Store, HasStatus, SameNotes
<1>3. \A n : HasStatus(Store(c), n, "true") => n \in DOMAIN Store(c) BY DEF HasStatus
<1> QED BY <1>1, <1>2, <1>3 DEF SameNotes, StoredCall, MarkedCall

\* A step that only adds rows and marks keeps InputsStored and MarkedWhileArmed, if it
\* establishes them for a call that comes to be concerned.
LEMMA GrowsStep ==
  ASSUME TypeOK, InputsStored, MarkedWhileArmed, Grows, HandedInStays,
         \A c \in Calls : call'[c].pc \in Marking =>
           (call[c].pc \in Marking /\ SameNotes(c)) \/ StoredCall(c)',
         \A c \in Calls : Armed(c)' => (Armed(c) /\ SameNotes(c)) \/ MarkedCall(c)'
  PROVE  InputsStored' /\ MarkedWhileArmed'
<1>1. \A c \in Calls : call'[c].pc \in Marking => StoredCall(c)'
  <2> SUFFICES ASSUME NEW c \in Calls, call[c].pc \in Marking, SameNotes(c)
               PROVE  StoredCall(c)'
    OBVIOUS
  <2>1. StoredCall(c) BY DEF InputsStored, Marking, StoredCall
  <2>2. call[c].dev \in Devices BY DEF TypeOK, CallsOK, Marking
  <2> QED BY <2>1, <2>2, GrowsKeeps
<1>2. \A c \in Calls : Armed(c)' => MarkedCall(c)'
  <2> SUFFICES ASSUME NEW c \in Calls, Armed(c), SameNotes(c)
               PROVE  MarkedCall(c)'
    OBVIOUS
  <2>1. MarkedCall(c) BY DEF MarkedWhileArmed, Armed, MarkedCall
  <2>2. call[c].dev \in Devices BY DEF TypeOK, CallsOK, Armed, At
  <2> QED BY <2>1, <2>2, GrowsKeeps
<1>3. InputsStored' BY <1>1 DEF InputsStored, StoredCall, Marking
<1>4. MarkedWhileArmed' BY <1>2 DEF MarkedWhileArmed, Armed, MarkedCall
<1> QED BY <1>3, <1>4

\* Marking rows, or writing the row of a note that has none.
LEMMA MarkGrows ==
  ASSUME TypeOK, NEW c \in Calls, call[c].dev \in Devices, NEW N,
         SetStore(c, MarkAll(Store(c), N, "true"))
  PROVE  /\ Grows
         /\ \A d \in Devices : DOMAIN local'[d] = DOMAIN local[d]
         /\ \A n \in N \cap DOMAIN Store(c) : HasStatus(local'[call[c].dev], n, "true")
<1> DEFINE d == call[c].dev
           A == MarkAll(local[d], N, "true")
<1>1. local = [e \in Devices |-> local[e]] /\ d \in Devices BY DEF TypeOK, StoresOK
<1>2. local' = [local EXCEPT ![d] = A] BY DEF SetStore, Store
<1>3. /\ DOMAIN A = DOMAIN local[d]
      /\ \A m \in DOMAIN A : IF m \in N THEN A[m] = "true" ELSE A[m] = local[d][m]
  BY DEF MarkAll
<1>4. Store(c) = local[d] BY DEF Store
<1> HIDE DEF A, d
<1>5. local'[d] = A BY <1>1, <1>2
<1>6. Grows /\ \A e \in Devices : DOMAIN local'[e] = DOMAIN local[e]
  BY <1>1, <1>2, <1>3 DEF Grows
<1>7. \A n \in N \cap DOMAIN Store(c) : HasStatus(local'[d], n, "true")
  BY <1>3, <1>4, <1>5 DEF HasStatus
<1> QED BY <1>6, <1>7 DEF d

LEMMA PutGrows ==
  ASSUME TypeOK, NEW c \in Calls, call[c].dev \in Devices, NEW n, n \notin DOMAIN Store(c),
         SetStore(c, Put(Store(c), n, "false"))
  PROVE  Grows /\ \A d \in Devices : DOMAIN local'[d] \subseteq DOMAIN local[d] \cup {n}
<1> DEFINE d == call[c].dev
           B == Put(local[d], n, "false")
<1>1. local = [e \in Devices |-> local[e]] /\ d \in Devices BY DEF TypeOK, StoresOK
<1>2. local' = [local EXCEPT ![d] = B] /\ n \notin DOMAIN local[d] BY DEF SetStore, Store
<1>3. /\ DOMAIN B = DOMAIN local[d] \cup {n}
      /\ \A m \in DOMAIN local[d] : m # n => B[m] = local[d][m]
  BY DEF Put
<1> HIDE DEF B, d
<1> QED BY <1>1, <1>2, <1>3 DEF Grows

Rest ==
  ProofFollowsCall /\ RecordsOfCalls /\ PatchesOfCalls /\ ChangeIsWritten
  /\ InputsStored /\ MarkedWhileArmed

LEMMA HydrateKeeps ==
  ASSUME MarkInv, NEW c \in Calls, NEW kind \in Kinds, NEW dv \in Devices, Hydrate(c, kind, dv)
  PROVE  Rest'
<1> USE DEF MarkInv
<1>0. CallsOK /\ call[c].pc = "idle" /\ status[c] = None
  BY DEF TypeOK, Hydrate, ProofFollowsCall, Early
<1>1. /\ call'[c].pc = "hydrated" /\ call'[c].ins = {}
      /\ \A e \in Calls \ {c} : call'[e] = call[e]
  BY <1>0 DEF Hydrate, Locals, CallsOK
<1>2. UNCHANGED <<status, row, reserved, cleanup, patches, tick>>
  BY DEF Hydrate, records
<1>3. PICK ids \in SUBSET {n \in Notes : row[n] = "false"} :
        local' = [local EXCEPT ![dv] = PutAll(local[dv], ids \ DOMAIN local[dv], "false")]
  BY DEF Hydrate
<1>4. /\ Grows
      /\ \A d \in Devices : DOMAIN local'[d] \subseteq DOMAIN local[d] \cup ids
  <2> DEFINE store == PutAll(local[dv], ids \ DOMAIN local[dv], "false")
  <2>1. /\ DOMAIN store = DOMAIN local[dv] \cup ids
        /\ \A m \in DOMAIN local[dv] : store[m] = local[dv][m]
    BY DEF PutAll
  <2>2. local' = [local EXCEPT ![dv] = store] BY <1>3
  <2>3. local = [e \in Devices |-> local[e]] BY DEF TypeOK, StoresOK
  <2> HIDE DEF store
  <2> QED BY <2>1, <2>2, <2>3 DEF Grows
<1>5. ProofFollowsCall' BY <1>0, <1>1, <1>2 DEF ProofFollowsCall, Early
<1>6. RecordsOfCalls' BY <1>0, <1>1, <1>2 DEF RecordsOfCalls, TypeOK, PassesOK
<1>7. PatchesOfCalls' BY <1>0, <1>1, <1>2 DEF PatchesOfCalls, Early
<1>8. ChangeIsWritten' BY <1>0, <1>1, <1>2, <1>3, <1>4 DEF ChangeIsWritten, Unwritten, Early
<1>9. InputsStored' /\ MarkedWhileArmed'
  <2>1. HandedInStays BY <1>0, <1>1, <1>2 DEF HandedInStays, SameNotes
  <2>2. \A e \in Calls : call'[e].pc \in Marking =>
          call[e].pc \in Marking /\ SameNotes(e)
    BY <1>1 DEF Marking, SameNotes
  <2>3. \A e \in Calls : Armed(e)' => Armed(e) /\ SameNotes(e)
    BY <1>1, <1>2 DEF Armed, At, SameNotes
  <2> QED BY <1>4, <2>1, <2>2, <2>3, GrowsStep
<1> QED BY <1>5, <1>6, <1>7, <1>8, <1>9 DEF Rest

\* The steps of a call that did not hand in a proof.
LEMMA SelectKeeps ==
  ASSUME MarkInv, NEW c \in Calls, Select(c) \/ Refused(c)
  PROVE  Rest'
<1> USE DEF MarkInv
<1>0. CallsOK /\ call[c].pc \in {"hydrated", "selected"} /\ status[c] = None
      /\ call[c].dev \in Devices
  BY DEF TypeOK, CallsOK, Select, Refused, ProofFollowsCall, Early
<1>1. UNCHANGED <<status, row, reserved, cleanup, patches, tick>>
  BY DEF Select, Refused, records
<1>2. Grows /\ \A d \in Devices : DOMAIN local'[d] = DOMAIN local[d]
  <2>1. CASE Select(c) BY <1>0, <2>1, MarkGrows DEF Select
  <2>2. CASE Refused(c) BY <2>2 DEF Refused, Grows
  <2> QED BY <2>1, <2>2
<1>3. PICK N \in SUBSET DOMAIN Store(c) :
        /\ call'[c].dev = call[c].dev /\ call'[c].ins = N
        /\ call'[c].pc = "selected" \/ (call'[c].pc = "failed" /\ N = {})
        /\ \A e \in Calls \ {c} : call'[e] = call[e]
  <2>1. CASE GiveUp(c)
    <3>1. \A e \in Calls \ {c} : call'[e] = call[e] BY <1>0, <2>1 DEF CallsOK, GiveUp
    <3>2. call'[c].dev = call[c].dev /\ call'[c].ins = {} /\ call'[c].pc = "failed"
      BY <1>0, <2>1, GiveUpEffect
    <3> QED BY <3>1, <3>2
  <2>2. CASE ~ GiveUp(c)
    <3>1. PICK N \in SUBSET DOMAIN Store(c) :
            call' = [call EXCEPT ![c].pc = "selected", ![c].ids = call[c].ids \cap N, ![c].ins = N]
      BY <2>2 DEF Select, Refused
    <3>2. call'[c].dev = call[c].dev /\ call'[c].ins = N /\ call'[c].pc = "selected"
      BY <1>0, <3>1 DEF CallsOK, CallType
    <3>3. \A e \in Calls \ {c} : call'[e] = call[e] BY <1>0, <3>1 DEF CallsOK
    <3> QED BY <3>2, <3>3
  <2> QED BY <2>1, <2>2
<1>4. ProofFollowsCall' BY <1>0, <1>1, <1>3 DEF ProofFollowsCall, Early
<1>5. RecordsOfCalls' BY <1>0, <1>1, <1>3 DEF RecordsOfCalls, TypeOK, PassesOK
<1>6. PatchesOfCalls' BY <1>0, <1>1, <1>3 DEF PatchesOfCalls, Early
<1>7. ChangeIsWritten'
  BY <1>0, <1>1, <1>2, <1>3 DEF ChangeIsWritten, Unwritten, Early, Store
<1>8. HandedInStays BY <1>0, <1>1, <1>3 DEF HandedInStays, SameNotes
<1>9. \A e \in Calls : call'[e].pc \in Marking =>
        (call[e].pc \in Marking /\ SameNotes(e)) \/ StoredCall(e)'
  <2>1. StoredCall(c)' BY <1>0, <1>2, <1>3 DEF StoredCall, Store
  <2> QED BY <1>3, <2>1 DEF SameNotes
<1>10. \A e \in Calls : Armed(e)' => Armed(e) /\ SameNotes(e)
  BY <1>1, <1>3 DEF Armed, At, SameNotes
<1> QED BY <1>2, <1>4, <1>5, <1>6, <1>7, <1>8, <1>9, <1>10, GrowsStep DEF Rest

LEMMA SubmitKeeps ==
  ASSUME MarkInv, NEW c \in Calls, Submit(c) \/ Withdraw(c)
  PROVE  Rest'
<1> USE DEF MarkInv
<1>0. CallsOK /\ call[c].pc = "selected" /\ status[c] = None
  BY DEF TypeOK, Submit, Withdraw, At, ProofFollowsCall, Early
<1>1. UNCHANGED <<local, row, reserved, cleanup, patches, tick>>
  BY DEF Submit, Withdraw, records
<1>2. /\ call'[c].pc \in {"submitted", "mined", "failed"} /\ SameNotes(c)
      /\ call'[c].pc = "mined" => Withdraw(c)
      /\ \A e \in Calls \ {c} : call'[e] = call[e]
  <2>1. CASE Submit(c)
    <3>1. PICK change \in BOOLEAN, own \in BOOLEAN, pc \in {"submitted", "failed"} :
            call' = [call EXCEPT ![c].pc = pc, ![c].change = change, ![c].own = own]
      BY <2>1 DEF Submit, Recipients
    <3>2. call'[c].dev = call[c].dev /\ call'[c].ins = call[c].ins /\ call'[c].pc = pc
      BY <1>0, <3>1 DEF CallsOK, CallType
    <3>3. \A e \in Calls \ {c} : call'[e] = call[e] BY <1>0, <3>1 DEF CallsOK
    <3> QED BY <3>2, <3>3 DEF SameNotes
  <2>2. CASE Withdraw(c)
    <3>1. Goto(c, "mined") BY <2>2 DEF Withdraw
    <3>2. \A e \in Calls \ {c} : call'[e] = call[e] BY <1>0, <3>1 DEF CallsOK, Goto
    <3>3. SameNotes(c) /\ call'[c].pc = "mined" BY <1>0, <3>1, GotoEffect DEF SameNotes
    <3> QED BY <2>2, <3>2, <3>3
  <2> QED BY <2>1, <2>2
<1>3. status'[c] # None /\ \A e \in Calls \ {c} : status'[e] = status[e]
  BY DEF Submit, Withdraw, TypeOK, None
<1>4. ProofFollowsCall'
  <2>1. call'[c].pc = "mined" => status'[c] = "EXECUTED"
    BY <1>2 DEF Withdraw, TypeOK
  <2> QED BY <1>0, <1>2, <1>3, <2>1 DEF ProofFollowsCall, Early
<1>5. RecordsOfCalls' BY <1>0, <1>1, <1>2, <1>3 DEF RecordsOfCalls, TypeOK, PassesOK
<1>6. PatchesOfCalls' BY <1>0, <1>1, <1>2 DEF PatchesOfCalls, Early
<1>7. ChangeIsWritten'
  BY <1>0, <1>1, <1>2 DEF ChangeIsWritten, Unwritten, Early, SameNotes
<1>8. Grows /\ HandedInStays BY <1>0, <1>1, <1>2, <1>3 DEF Grows, HandedInStays, SameNotes
<1>9. \A e \in Calls : call'[e].pc \in Marking => call[e].pc \in Marking /\ SameNotes(e)
  BY <1>0, <1>2 DEF SameNotes, Marking
<1>10. \A e \in Calls : Armed(e)' => Armed(e) /\ SameNotes(e)
  BY <1>2, <1>3 DEF Armed, At, SameNotes
<1> QED BY <1>4, <1>5, <1>6, <1>7, <1>8, <1>9, <1>10, GrowsStep DEF Rest

\* The steps of a call that did, and of a tab that closes.
LEMMA WriteKeeps ==
  ASSUME MarkInv, NEW c \in Calls,
         Persist(c) \/ Reserve(c) \/ ConfirmWithdraw(c) \/ CloseTab(c)
  PROVE  Rest'
<1> USE DEF MarkInv
<1>0. /\ CallsOK /\ call[c].pc \in {"hydrated", "selected", "submitted", "persisted", "mined"}
      /\ call[c].dev \in Devices
  BY DEF TypeOK, CallsOK, CallType, Persist, Reserve, ConfirmWithdraw, CloseTab, At, PCs, Final
<1>1. PICK pc \in {"persisted", "done", "closed"} :
        /\ Goto(c, pc) \/ Finish(c, pc)
        /\ pc = "persisted" <=> Persist(c)
        /\ pc = "done" <=> Reserve(c) \/ ConfirmWithdraw(c)
  <2>1. CASE Persist(c)
    BY <2>1 DEF Persist, Reserve, ConfirmWithdraw, At
  <2>2. CASE Reserve(c) \/ ConfirmWithdraw(c)
    BY <2>2 DEF Persist, Reserve, ConfirmWithdraw, At
  <2>3. CASE CloseTab(c) /\ ~ Persist(c) /\ ~ Reserve(c) /\ ~ ConfirmWithdraw(c)
    BY <2>3 DEF CloseTab
  <2> QED BY <2>1, <2>2, <2>3
<1>2. \A e \in Calls :
        /\ SameNotes(e) /\ call'[e].kind = call[e].kind
        /\ call'[e].pc = IF e = c THEN pc ELSE call[e].pc
  BY <1>0, <1>1, GotoEffect DEF SameNotes
<1>3. UNCHANGED <<status, tick>>
  BY DEF Persist, Reserve, ConfirmWithdraw, CloseTab
<1>4. pc # "closed" => status[c] # None /\ call[c].pc \notin Early
  BY <1>1 DEF Persist, Reserve, ConfirmWithdraw, At, ProofFollowsCall, Early
<1>5. /\ Grows
      /\ \A d \in Devices : DOMAIN local'[d] \subseteq DOMAIN local[d] \cup (IF Persist(c) THEN {c} ELSE {})
  <2>1. CASE Persist(c)
    <3>1. c \notin DOMAIN Store(c)
      BY <1>0, <2>1 DEF ChangeIsWritten, Unwritten, Store, Persist
    <3>2. SetStore(c, Put(Store(c), c, "false")) \/ UNCHANGED local BY <2>1 DEF Persist
    <3>3. UNCHANGED local => Grows /\ \A d \in Devices : DOMAIN local'[d] = DOMAIN local[d]
      BY DEF Grows
    <3> QED BY <1>0, <2>1, <3>1, <3>2, <3>3, PutGrows
  <2>2. CASE Reserve(c) \/ ConfirmWithdraw(c)
    BY <1>0, <2>2, MarkGrows DEF Reserve, ConfirmWithdraw
  <2>3. CASE CloseTab(c) BY <2>3 DEF CloseTab, Grows
  <2> QED BY <2>1, <2>2, <2>3
<1>6. ProofFollowsCall' BY <1>1, <1>2, <1>3, <1>4 DEF ProofFollowsCall, Early
<1>7. /\ \A e \in Calls : reserved'[e] \cup cleanup'[e] \subseteq call[e].ins
      /\ \A e \in Calls : reserved'[e] \cup cleanup'[e] # {} => call'[e].pc = "done"
  <2>1. CASE Reserve(c)
    BY <1>0, <1>1, <1>2, <2>1 DEF Reserve, RecordsOfCalls, TypeOK
  <2>2. CASE ~ Reserve(c)
    <3>1. UNCHANGED <<reserved, cleanup>>
      BY <2>2 DEF Persist, ConfirmWithdraw, CloseTab, records
    <3> QED BY <1>0, <1>2, <3>1 DEF RecordsOfCalls
  <2> QED BY <2>1, <2>2
<1>8. RecordsOfCalls'
  BY <1>0, <1>2, <1>3, <1>7 DEF RecordsOfCalls, SameNotes, TypeOK, PassesOK
<1>9. PatchesOfCalls'
  <2>1. \A p \in patches' : p \in patches \/ (p[1] = c /\ p[2] \in call[c].ins /\ pc = "done")
    <3>1. CASE Reserve(c) BY <1>1, <3>1 DEF Reserve
    <3>2. CASE ConfirmWithdraw(c) BY <1>1, <3>2 DEF ConfirmWithdraw
    <3>3. CASE Persist(c) \/ CloseTab(c) BY <3>3 DEF Persist, CloseTab
    <3> QED BY <3>1, <3>2, <3>3
  <2> QED BY <1>1, <1>2, <2>1 DEF PatchesOfCalls, SameNotes, Early
<1>10. ChangeIsWritten'
  <2>1. \A n \in Unwritten' : n \in Unwritten /\ n \in Calls
    BY <1>0, <1>1, <1>2 DEF Unwritten, Early
  <2>2. Persist(c) => c \notin Unwritten' BY <1>1, <1>2 DEF Unwritten, Early
  <2>3. \A n \in Notes : n # c \/ ~ Persist(c) => row'[n] = row[n]
    BY DEF Persist, Reserve, ConfirmWithdraw, CloseTab, TypeOK
  <2> QED BY <1>2, <1>5, <2>1, <2>2, <2>3 DEF ChangeIsWritten, SameNotes, Notes
<1>11. HandedInStays BY <1>2, <1>3 DEF HandedInStays
<1>12. \A e \in Calls : call'[e].pc \in Marking => call[e].pc \in Marking /\ SameNotes(e)
  <2>1. pc = "persisted" => call[c].pc = "submitted" BY <1>1 DEF Persist
  <2> QED BY <1>1, <1>2, <2>1 DEF Marking
<1>13. \A e \in Calls : Armed(e)' => (Armed(e) /\ SameNotes(e)) \/ MarkedCall(e)'
  <2>1. CASE Reserve(c)
    <3>1. StoredCall(c) BY <2>1 DEF Reserve, At, InputsStored, StoredCall
    <3>2. \A n \in call[c].ins \cap DOMAIN Store(c) : HasStatus(Store(c), n, "true")'
      BY <1>0, <1>2, <2>1, MarkGrows DEF Reserve, Store, SameNotes, HasStatus
    <3>3. \A n : Shared(c, n) => Shared(c, n)' BY <1>2, <1>11, SharedKept DEF SameNotes
    <3>4. MarkedCall(c)' BY <1>2, <3>1, <3>2, <3>3 DEF MarkedCall, StoredCall, SameNotes
    <3> QED BY <1>2, <1>3, <3>4 DEF Armed, At
  <2>2. CASE ~ Reserve(c)
    <3>1. ~ Armed(c)' BY <1>1, <1>2, <1>3, <2>2 DEF Armed, At, ConfirmWithdraw, ProofFollowsCall
    <3> QED BY <1>2, <1>3, <3>1 DEF Armed, At
  <2> QED BY <2>1, <2>2
<1> QED BY <1>5, <1>6, <1>8, <1>9, <1>10, <1>11, <1>12, <1>13, GrowsStep DEF Rest

\* A step of the executor, of the network or of the reconciler up to its last one.
LEMMA ServerKeeps ==
  ASSUME MarkInv, TypeOK',
         \/ \E c \in Calls : Execute(c) \/ DoNotExecute(c)
         \/ \E p \in patches : Deliver(p)
         \/ \E t \in Ticks, c \in Calls : StartPass(t, c)
         \/ \E t \in Ticks : \E n \in tick[t].left : PatchOne(t, n)
  PROVE  Rest'
<1> USE DEF MarkInv
<1>1. UNCHANGED <<call, local, reserved, cleanup>>
  BY DEF Execute, DoNotExecute, Deliver, StartPass, PatchOne, records
<1>2. patches' \subseteq patches
  BY DEF Execute, DoNotExecute, Deliver, StartPass, PatchOne
<1>3. \A e \in Calls :
        /\ status[e] # "ARMED" => status'[e] = status[e]
        /\ status[e] = "ARMED" => status'[e] \in {"ARMED"} \cup Terminal
  <2>1. CASE \E c \in Calls : Execute(c) \/ DoNotExecute(c)
    BY <2>1 DEF Execute, DoNotExecute, TypeOK, Terminal
  <2>2. CASE UNCHANGED status BY <2>2
  <2> QED BY <2>1, <2>2 DEF Deliver, StartPass, PatchOne
<1>4. ProofFollowsCall' BY <1>1, <1>3 DEF ProofFollowsCall, Terminal, None
<1>5. RecordsOfCalls'
  <2>1. \A t \in Ticks : tick'[t].of # None =>
          /\ status[tick'[t].of] \in Terminal /\ call[tick'[t].of].pc = "done"
          /\ tick'[t].left \subseteq call[tick'[t].of].ins
    <3>1. CASE UNCHANGED tick BY <3>1 DEF RecordsOfCalls
    <3>2. CASE \E t \in Ticks, c \in Calls : StartPass(t, c)
      <4>1. PICK t \in Ticks, c \in Calls : StartPass(t, c) BY <3>2
      <4>2. call[c].pc = "done" /\ reserved[c] \subseteq call[c].ins
        BY <4>1 DEF StartPass, RecordsOfCalls
      <4> QED BY <4>1, <4>2 DEF StartPass, RecordsOfCalls, TypeOK, PassesOK
    <3>3. CASE \E t \in Ticks : \E n \in tick[t].left : PatchOne(t, n)
      BY <3>3 DEF PatchOne, RecordsOfCalls, TypeOK, PassesOK
    <3> QED BY <3>1, <3>2, <3>3 DEF Execute, DoNotExecute, Deliver
  <2>2. \A t \in Ticks : tick'[t].of \in Calls \cup {None} BY DEF TypeOK, PassesOK
  <2>3. \A e \in Calls : status[e] \in Terminal => status'[e] = status[e]
    BY <1>3 DEF Terminal
  <2> QED BY <1>1, <2>1, <2>2, <2>3 DEF RecordsOfCalls
<1>6. PatchesOfCalls' BY <1>1, <1>2 DEF PatchesOfCalls
<1>7. ChangeIsWritten'
  <2>0. Unwritten \subseteq Notes /\ row \in [Notes -> RowStatus]
    BY DEF Unwritten, Notes, TypeOK
  <2>1. \A n \in Unwritten : row'[n] = row[n]
    <3>1. CASE \E p \in patches : Deliver(p)
      <4>1. PICK p \in patches : Deliver(p) BY <3>1
      <4>2. p[2] \notin Unwritten BY DEF PatchesOfCalls, ChangeIsWritten
      <4> QED BY <2>0, <4>1, <4>2 DEF Deliver
    <3>2. CASE \E t \in Ticks : \E n \in tick[t].left : PatchOne(t, n)
      <4>1. PICK t \in Ticks : \E n \in tick[t].left : PatchOne(t, n) BY <3>2
      <4>2. PICK n \in tick[t].left : PatchOne(t, n) BY <4>1
      <4>3. tick[t].of \in Calls /\ n \in call[tick[t].of].ins
        BY <4>2 DEF RecordsOfCalls, TypeOK, PassesOK
      <4>4. n \notin Unwritten BY <4>3 DEF ChangeIsWritten
      <4> QED BY <2>0, <4>2, <4>4 DEF PatchOne
    <3>3. CASE UNCHANGED row BY <3>3
    <3> QED BY <3>1, <3>2, <3>3 DEF Execute, DoNotExecute, StartPass
  <2> QED BY <1>1, <2>1 DEF ChangeIsWritten, Unwritten
<1>8. Grows /\ HandedInStays
  BY <1>1, <1>3 DEF Grows, HandedInStays, SameNotes, Terminal, None
<1>9. \A e \in Calls : call'[e].pc \in Marking => call[e].pc \in Marking /\ SameNotes(e)
  BY <1>1 DEF SameNotes
<1>10. \A e \in Calls : Armed(e)' => Armed(e) /\ SameNotes(e)
  BY <1>1, <1>3 DEF Armed, At, SameNotes
<1> QED BY <1>4, <1>5, <1>6, <1>7, <1>8, <1>9, <1>10, GrowsStep DEF Rest

\* A step that changes, on the device of a call that handed in a proof, only the rows
\* of the inputs of that call: the other calls share what they lose.
LEMMA OwnRowsKeep ==
  ASSUME MarkInv, NEW c \in Calls, status[c] # None, call[c].dev \in Devices,
         NEW N \in SUBSET call[c].ins, NEW store,
         \A n \in DOMAIN Store(c) \ N : n \in DOMAIN store /\ store[n] = Store(c)[n],
         SetStore(c, store), HandedInStays,
         \A e \in Calls : SameNotes(e) /\ status'[e] = status[e],
         \A e \in Calls \ {c} : call'[e].pc = call[e].pc /\ call'[e].kind = call[e].kind,
         call'[c].pc \notin Marking /\ ~ Armed(c)'
  PROVE  InputsStored' /\ MarkedWhileArmed'
<1> USE DEF MarkInv
<1>1. local = [d \in Devices |-> local[d]] BY DEF TypeOK, StoresOK
<1>2. \A d \in Devices : \A n \in DOMAIN local[d] :
        \/ n \in DOMAIN local'[d] /\ local'[d][n] = local[d][n]
        \/ d = call[c].dev /\ n \in call[c].ins
  BY <1>1 DEF SetStore, Store
<1>3. ASSUME NEW e \in Calls, e # c, call[e].dev \in Devices
      PROVE  (StoredCall(e) => StoredCall(e)') /\ (MarkedCall(e) => MarkedCall(e)')
  <2>1. \A n : Shared(e, n) => Shared(e, n)' BY SharedKept DEF SameNotes
  <2>2. \A n \in call[e].ins : n \in call[c].ins /\ call[e].dev = call[c].dev => Shared(e, n)'
    BY <1>3 DEF Shared, SameNotes
  <2>3. Store(e)' = local'[call[e].dev] /\ Store(e) = local[call[e].dev]
    BY DEF Store, SameNotes
  <2>4. call'[e].ins = call[e].ins BY DEF SameNotes
  <2> QED BY <1>2, <1>3, <2>1, <2>2, <2>3, <2>4 DEF StoredCall, MarkedCall, HasStatus
<1>4. \A e \in Calls : call'[e].pc \in Marking => StoredCall(e)'
  <2> SUFFICES ASSUME NEW e \in Calls, call'[e].pc \in Marking PROVE StoredCall(e)' OBVIOUS
  <2>1. e # c /\ call[e].pc \in Marking OBVIOUS
  <2>2. StoredCall(e) /\ call[e].dev \in Devices
    BY <2>1 DEF InputsStored, StoredCall, Marking, TypeOK, CallsOK
  <2> QED BY <1>3, <2>1, <2>2
<1>5. \A e \in Calls : Armed(e)' => MarkedCall(e)'
  <2> SUFFICES ASSUME NEW e \in Calls, Armed(e)' PROVE MarkedCall(e)' OBVIOUS
  <2>1. e # c /\ Armed(e) BY DEF Armed, At
  <2>2. MarkedCall(e) /\ call[e].dev \in Devices
    BY <2>1 DEF MarkedWhileArmed, MarkedCall, Armed, At, TypeOK, CallsOK
  <2> QED BY <1>3, <2>1, <2>2
<1>6. InputsStored' BY <1>4 DEF InputsStored, StoredCall, Marking
<1>7. MarkedWhileArmed' BY <1>5 DEF MarkedWhileArmed, Armed, MarkedCall
<1> QED BY <1>6, <1>7

\* The steps that remove the rows of a strategy or take their marks back.
LEMMA SwapKeeps ==
  ASSUME MarkInv, NEW c \in Calls, EndSwap(c)
  PROVE  Rest'
<1> USE DEF MarkInv
<1>0. /\ CallsOK /\ call[c].dev \in Devices /\ status[c] # None
      /\ call[c].pc = "persisted" /\ call[c].kind = "swap"
  BY DEF TypeOK, CallsOK, EndSwap, At, ProofFollowsCall
<1>1. PICK n \in call[c].ins : SetStore(c, Remove(Store(c), {n})) BY DEF EndSwap
<1>2. UNCHANGED <<status, row, reserved, cleanup, patches, tick>> BY DEF EndSwap, records
<1>3. Finish(c, "done") BY DEF EndSwap
<1>4. \A e \in Calls :
        /\ SameNotes(e) /\ call'[e].kind = call[e].kind
        /\ call'[e].pc = IF e = c THEN "done" ELSE call[e].pc
  <2> DEFINE pc == "done"
  <2>1. Finish(c, pc) BY <1>3
  <2> HIDE DEF pc
  <2>2. \A e \in Calls :
          /\ SameNotes(e) /\ call'[e].kind = call[e].kind
          /\ call'[e].pc = IF e = c THEN pc ELSE call[e].pc
    BY <1>0, <2>1, GotoEffect DEF SameNotes
  <2> QED BY <2>2 DEF pc
<1>5. ProofFollowsCall' BY <1>0, <1>2, <1>4 DEF ProofFollowsCall, Early
<1>6. RecordsOfCalls'
  BY <1>0, <1>2, <1>4 DEF RecordsOfCalls, TypeOK, PassesOK, SameNotes
<1>7. PatchesOfCalls' BY <1>2, <1>4 DEF PatchesOfCalls, Early, SameNotes
<1> DEFINE store == Remove(Store(c), {n})
<1>8. /\ DOMAIN store \subseteq DOMAIN Store(c)
      /\ \A m \in DOMAIN Store(c) \ {n} : m \in DOMAIN store /\ store[m] = Store(c)[m]
  BY DEF Remove
<1>9. SetStore(c, store) BY <1>1
<1> HIDE DEF store
<1>10. ChangeIsWritten'
  <2>1. \A d \in Devices : DOMAIN local'[d] \subseteq DOMAIN local[d]
    BY <1>8, <1>9 DEF SetStore, Store, TypeOK, StoresOK
  <2> QED BY <1>0, <1>2, <1>4, <2>1 DEF ChangeIsWritten, Unwritten, Early, SameNotes
<1>11. InputsStored' /\ MarkedWhileArmed'
  <2>1. HandedInStays BY <1>2, <1>4 DEF HandedInStays
  <2>2. {n} \in SUBSET call[c].ins BY <1>1
  <2>3. call'[c].pc \notin Marking /\ ~ Armed(c)'
    BY <1>0, <1>4 DEF Marking, Armed, At
  <2> QED BY <1>0, <1>2, <1>4, <1>8, <1>9, <2>1, <2>2, <2>3, OwnRowsKeep
<1> QED BY <1>5, <1>6, <1>7, <1>10, <1>11 DEF Rest

LEMMA ReleaseKeeps ==
  ASSUME MarkInv, TypeOK', NEW c \in Calls,
         CleanUp(c) \/ (\E t \in Ticks : tick[t].of = c /\ EndPass(t))
  PROVE  Rest'
<1> USE DEF MarkInv
<1>0. call[c].pc = "done" /\ status[c] \in Terminal
  BY DEF CleanUp, EndPass, RecordsOfCalls, Terminal
<1>1. call[c].dev \in Devices BY <1>0 DEF TypeOK, CallsOK
<1>2. UNCHANGED <<call, status, row, patches>> BY DEF CleanUp, EndPass
<1>3. /\ \A e \in Calls : reserved'[e] \subseteq reserved[e] /\ cleanup'[e] \subseteq cleanup[e]
      /\ \A t \in Ticks : tick'[t] = tick[t] \/ tick'[t] = NoPass
  BY DEF CleanUp, EndPass, TypeOK, PassesOK
<1>4. ProofFollowsCall' BY <1>2 DEF ProofFollowsCall
<1>5. RecordsOfCalls' BY <1>2, <1>3 DEF RecordsOfCalls, NoPass
<1>6. PatchesOfCalls' BY <1>2 DEF PatchesOfCalls
<1>7. PICK store :
        /\ DOMAIN store \subseteq DOMAIN Store(c)
        /\ \A n \in DOMAIN Store(c) \ cleanup[c] : n \in DOMAIN store /\ store[n] = Store(c)[n]
        /\ SetStore(c, store)
  <2>1. CASE CleanUp(c) BY <2>1 DEF CleanUp, Remove
  <2>2. CASE ~ CleanUp(c)
    <3>1. \/ SetStore(c, MarkAll(Store(c), cleanup[c], "false"))
          \/ UNCHANGED local
      BY <2>2 DEF EndPass
    <3>2. CASE SetStore(c, MarkAll(Store(c), cleanup[c], "false"))
      BY <3>2 DEF MarkAll
    <3>3. CASE UNCHANGED local
      <4>1. SetStore(c, Store(c)) BY <1>1, <3>3 DEF SetStore, Store, TypeOK, StoresOK
      <4> QED BY <4>1
    <3> QED BY <3>1, <3>2, <3>3
  <2> QED BY <2>1, <2>2
<1>8. ChangeIsWritten'
  <2>1. \A d \in Devices : DOMAIN local'[d] \subseteq DOMAIN local[d]
    BY <1>1, <1>7 DEF SetStore, Store, TypeOK, StoresOK
  <2> QED BY <1>2, <2>1 DEF ChangeIsWritten, Unwritten
<1>9. InputsStored' /\ MarkedWhileArmed'
  <2>1. HandedInStays /\ \A e \in Calls : SameNotes(e) BY <1>2 DEF HandedInStays, SameNotes
  <2>2. cleanup[c] \in SUBSET call[c].ins BY DEF RecordsOfCalls
  <2>3. call'[c].pc \notin Marking /\ ~ Armed(c)'
    BY <1>0, <1>2 DEF Marking, Armed, Terminal
  <2>4. status[c] # None BY <1>0 DEF Terminal, None
  <2> QED BY <1>1, <1>2, <1>7, <2>1, <2>2, <2>3, <2>4, OwnRowsKeep
<1> QED BY <1>4, <1>5, <1>6, <1>8, <1>9 DEF Rest

LEMMA MarkStep == ~ WalletMayReconnect /\ MarkInv /\ [Next]_vars => MarkInv'
<1> SUFFICES ASSUME ~ WalletMayReconnect, MarkInv, [Next]_vars PROVE MarkInv' OBVIOUS
<1>1. TypeOK' BY TypeStep DEF MarkInv
<1>2. NoRewrite'
  <2>1. \A d \in Devices : ~ Connect(d)
    BY DEF MarkInv, NoRewrite, Connect, FetchForRewrite, FetchForSync
  <2> QED BY <2>1 DEF MarkInv, NoRewrite, Next, vars, wallet, Hydrate, Select, Refused, Form,
             Submit, Persist, Reserve, EndSwap, Withdraw, ConfirmWithdraw, Execute,
             DoNotExecute, CleanUp, CloseTab, Deliver, Pass, StartPass, PatchOne, EndPass
<1>3. Rest'
  <2>1. CASE UNCHANGED vars
    BY <2>1 DEF vars, records, wallet, MarkInv, Rest, ProofFollowsCall, RecordsOfCalls,
       PatchesOfCalls, ChangeIsWritten, Unwritten, InputsStored, MarkedWhileArmed, At, Store,
       Shared
  <2>2. ASSUME NEW c \in Calls,
               \/ \E kind \in Kinds \ {None}, d \in Devices : Hydrate(c, kind, d)
               \/ Select(c) \/ Refused(c) \/ Form(c) \/ Withdraw(c) \/ ConfirmWithdraw(c)
               \/ CloseTab(c)
        PROVE  Rest'
    BY <2>2, HydrateKeeps, SelectKeeps, SubmitKeeps, WriteKeeps, SwapKeeps DEF Form
  <2>3. ASSUME NEW c \in Calls, Execute(c) \/ DoNotExecute(c) PROVE Rest'
    BY <1>1, <2>3, ServerKeeps
  <2>4. ASSUME NEW c \in Calls, CleanUp(c) PROVE Rest' BY <1>1, <2>4, ReleaseKeeps
  <2>5. ASSUME NEW p \in patches, Deliver(p) PROVE Rest' BY <1>1, <2>5, ServerKeeps
  <2>6. ASSUME NEW t \in Ticks, Pass(t) PROVE Rest'
    <3>1. CASE EndPass(t)
      <4>1. tick[t].of \in Calls BY <3>1 DEF MarkInv, TypeOK, PassesOK, EndPass
      <4> QED BY <1>1, <3>1, <4>1, ReleaseKeeps
    <3>2. CASE ~ EndPass(t) BY <1>1, <2>6, <3>2, ServerKeeps DEF Pass
    <3> QED BY <3>1, <3>2
  <2>7. \A d \in Devices : ~ Connect(d)
    BY DEF MarkInv, NoRewrite, Connect, FetchForRewrite, FetchForSync
  <2> QED BY <2>1, <2>2, <2>3, <2>4, <2>5, <2>6, <2>7 DEF Next
<1> QED BY <1>1, <1>2, <1>3 DEF MarkInv, Rest

LEMMA MarkInit == Init => MarkInv
<1> SUFFICES ASSUME Init PROVE MarkInv OBVIOUS
<1>1. TypeOK BY TypeInit
<1>2. \A c \in Calls :
        /\ call[c].pc = "idle" /\ call[c].ins = {} /\ status[c] = None
        /\ reserved[c] = {} /\ cleanup[c] = {} /\ row[c] = "absent"
  BY DEF Init, Locals
<1>3. \A d \in Devices : DOMAIN local[d] \cap Calls = {}
  BY NamesAssumption DEF Init, PutAll, EmptyStore
<1>4. NoRewrite BY DEF Init, NoRewrite
<1>5. ProofFollowsCall BY <1>2 DEF ProofFollowsCall, Early
<1>6. RecordsOfCalls BY <1>2 DEF RecordsOfCalls, Init, NoPass
<1>7. PatchesOfCalls BY DEF PatchesOfCalls, Init
<1>8. ChangeIsWritten BY <1>2, <1>3 DEF ChangeIsWritten, Unwritten
<1>9. InputsStored /\ MarkedWhileArmed
  BY <1>2 DEF InputsStored, MarkedWhileArmed, At
<1> QED BY <1>1, <1>4, <1>5, <1>6, <1>7, <1>8, <1>9 DEF MarkInv

\* If the wallet does not connect again, the inputs of an armed strategy stay marked as
\* spent on its device, whatever the other calls, the passes of the reconciler and the
\* clean-up of ended strategies do, unless a proof handed in on the device shares them.
THEOREM MarkedWhileArmedAlways == ~ WalletMayReconnect => (Spec => []MarkedWhileArmed)
<1> SUFFICES ASSUME ~ WalletMayReconnect PROVE Spec => []MarkedWhileArmed OBVIOUS
<1>1. MarkInv /\ [Next]_vars => MarkInv' BY MarkStep
<1>2. MarkInv => MarkedWhileArmed BY DEF MarkInv
<1> QED BY MarkInit, <1>1, <1>2, PTL DEF Spec
===============================================================================
