--------------------------- MODULE VaultNotesProofs ---------------------------
(***************************************************************************)
(* Theorems about VaultNotes for every set of calls, devices and pool rows *)
(***************************************************************************)
EXTENDS VaultNotes, Sums, TLAPS

USE DEF PCs, Final, TxStatus, RowStatus, PoolStatus, Status, None

-------------------------------------------------------------------------------
(* The store operators keep stores stores.                                 *)

LEMMA PutStore ==
  ASSUME NEW s, IsNoteStore(s), NEW n, IsNote(n), NEW v \in Status
  PROVE  IsNoteStore(Put(s, n, v)) /\ DOMAIN Put(s, n, v) = DOMAIN s \cup {n}
BY DEF IsNoteStore, IsStore, Put

LEMMA PutAllStore ==
  ASSUME NEW s, IsNoteStore(s), NEW N, \A n \in N : IsNote(n), NEW v \in Status
  PROVE  IsNoteStore(PutAll(s, N, v)) /\ DOMAIN PutAll(s, N, v) = DOMAIN s \cup N
BY DEF IsNoteStore, IsStore, PutAll

LEMMA MarkAllStore ==
  ASSUME NEW s, IsNoteStore(s), NEW N, NEW v \in Status
  PROVE  IsNoteStore(MarkAll(s, N, v)) /\ DOMAIN MarkAll(s, N, v) = DOMAIN s
BY DEF IsNoteStore, IsStore, MarkAll

LEMMA MarkStore ==
  ASSUME NEW s, IsNoteStore(s), NEW n, NEW v \in Status
  PROVE  IsNoteStore(Mark(s, n, v)) /\ DOMAIN Mark(s, n, v) = DOMAIN s
BY MarkAllStore DEF Mark

-------------------------------------------------------------------------------
(* Replacing one call, or one store, by a well-formed one.                 *)

LEMMA SetCall ==
  ASSUME CallsOK, NEW o \in Ops, NEW c, IsCall(c), op' = [op EXCEPT ![o] = c]
  PROVE  CallsOK' /\ op'[o] = c /\ \A p \in Ops \ {o} : op'[p] = op[p]
BY DEF CallsOK, IsCall, IsNote

LEMMA SetLocal ==
  ASSUME StoresOK, NEW d \in Devices, NEW s, IsNoteStore(s),
         local' = [local EXCEPT ![d] = s]
  PROVE  StoresOK' /\ local'[d] = s /\ \A e \in Devices \ {d} : local'[e] = local[e]
BY DEF StoresOK, IsNoteStore, IsStore, IsNote

LEMMA MoveCall ==
  ASSUME CallsOK, NEW o \in Ops, NEW pc \in PCs, op[o].pc # "idle",
         op' = [op EXCEPT ![o].pc = pc]
  PROVE  /\ CallsOK'
         /\ op'[o] = [op[o] EXCEPT !.pc = pc]
         /\ \A p \in Ops \ {o} : op'[p] = op[p]
<1> DEFINE c == [op[o] EXCEPT !.pc = pc]
<1>1. IsCall(op[o]) BY DEF CallsOK
<1>2. IsCall(c) BY <1>1 DEF IsCall, IsNote
<1>3. op' = [op EXCEPT ![o] = c] BY DEF CallsOK
<1> QED BY <1>2, <1>3, SetCall

-------------------------------------------------------------------------------
(* Type correctness.                                                       *)

LEMMA BeginType ==
  ASSUME TypeOK, NEW o \in Ops, NEW d \in Devices, NEW a \in Amounts,
         BeginDeposit(o, d, a) \/ BeginWithdraw(o, d, a)
  PROVE  TypeOK'
<1>1. CASE BeginDeposit(o, d, a)
  <2> DEFINE note == NewNote(FreshSecret(o), a)
             c == NewCall("deposit", "prewritten", d, 0, {}, note)
  <2>1. IsNote(note) BY DEF IsNote, NewNote
  <2>2. IsCall(c) BY <2>1 DEF IsCall, NewCall
  <2>3. CallsOK' BY <1>1, <2>2, SetCall DEF BeginDeposit, TypeOK
  <2>4. IsNoteStore(Put(local[d], note, "pending"))
    BY <2>1, PutStore DEF TypeOK, StoresOK
  <2>5. local' = [local EXCEPT ![d] = Put(local[d], note, "pending")]
    BY <1>1 DEF BeginDeposit
  <2>6. StoresOK' BY <2>4, <2>5, SetLocal DEF TypeOK
  <2> QED BY <1>1, <2>3, <2>6 DEF BeginDeposit, TypeOK
<1>2. CASE BeginWithdraw(o, d, a)
  <2> DEFINE c == NewCall("withdraw", "scanned", d, a, Mined, NoNote)
  <2>1. a \in Nat BY AmountsAssumption
  <2>2. Mined \subseteq Ops BY DEF Mined
  <2>3. IsNote(NoNote) BY DEF IsNote, NoNote, NewNote
  <2>4. IsCall(c) BY <2>1, <2>2, <2>3 DEF IsCall, NewCall
  <2>5. CallsOK' BY <1>2, <2>4, SetCall DEF BeginWithdraw, TypeOK
  <2> QED BY <1>2, <2>5 DEF BeginWithdraw, TypeOK, StoresOK, IsNoteStore, IsStore, IsNote
<1> QED BY <1>1, <1>2

\* The steps of a call that change nothing of it but its pc, and rewrite one store.
LEMMA DepositType ==
  ASSUME TypeOK, NEW o \in Ops, Deposit(o) \/ SendTx(o) PROVE TypeOK'
<1>1. CASE ConfirmDeposit(o)
  <2>1. op[o].pc # "idle" /\ CallsOK'
    BY <1>1, MoveCall DEF ConfirmDeposit, Goto, TypeOK
  <2>2. op[o].dev \in Devices BY <2>1 DEF TypeOK, CallsOK, IsCall
  <2>3. IsNoteStore(Mark(Store(o), op[o].out, "false"))
    BY <2>2, MarkStore DEF TypeOK, StoresOK, Store
  <2>4. StoresOK' BY <1>1, <2>2, <2>3, SetLocal DEF ConfirmDeposit, SetStore, TypeOK
  <2> QED BY <1>1, <2>1, <2>4 DEF ConfirmDeposit, TypeOK
<1>2. CASE PostDeposit(o)
  <2>1. CallsOK' BY <1>2, MoveCall DEF PostDeposit, Goto, TypeOK
  <2>2. row' \in [Ops -> RowStatus] BY <1>2 DEF PostDeposit, TypeOK
  <2> QED BY <1>2, <2>1, <2>2 DEF PostDeposit, TypeOK, StoresOK, IsNoteStore, IsStore, IsNote
<1>3. CASE FailDeposit(o)
  <2>1. op[o].pc # "idle" BY <1>3 DEF FailDeposit, Throws
  <2>2. CallsOK' BY <1>3, <2>1, MoveCall DEF FailDeposit, TypeOK
  <2>3. op[o].dev \in Devices BY <2>1 DEF TypeOK, CallsOK, IsCall
  <2>4. IsNoteStore(Mark(Store(o), op[o].out, "true"))
    BY <2>3, MarkStore DEF TypeOK, StoresOK, Store
  <2>5. StoresOK' BY <1>3, <2>3, <2>4, SetLocal DEF FailDeposit, SetStore, TypeOK
  <2> QED BY <1>3, <2>2, <2>5 DEF FailDeposit, TypeOK
<1>4. CASE SendTx(o)
  <2>1. CallsOK' BY <1>4, MoveCall DEF SendTx, Goto, TypeOK
  <2> QED BY <1>4, <2>1 DEF SendTx, TypeOK, StoresOK, IsNoteStore, IsStore, IsNote
<1> QED BY <1>1, <1>2, <1>3, <1>4 DEF Deposit

LEMMA CallIds ==
  ASSUME NEW c, IsCall(c), NEW pc \in PCs, c.pc # "idle", NEW ids \in SUBSET Ops
  PROVE  IsCall([c EXCEPT !.pc = pc, !.ids = ids])
<1> DEFINE b == [c EXCEPT !.pc = pc]
<1>1. IsCall(b) BY DEF IsCall
<1> HIDE DEF b
<1>2. IsCall([b EXCEPT !.ids = ids]) BY <1>1 DEF IsCall
<1> QED BY <1>2 DEF b

LEMMA CallIns ==
  ASSUME NEW c, IsCall(c), NEW pc \in PCs, c.pc # "idle", NEW N, \A n \in N : IsNote(n)
  PROVE  IsCall([c EXCEPT !.pc = pc, !.ins = N])
<1> DEFINE b == [c EXCEPT !.pc = pc]
<1>1. IsCall(b) BY DEF IsCall
<1> HIDE DEF b
<1>2. IsCall([b EXCEPT !.ins = N]) BY <1>1 DEF IsCall
<1> QED BY <1>2 DEF b

LEMMA CallMarks ==
  ASSUME NEW c, IsCall(c), NEW N, \A n \in N : IsNote(n)
  PROVE  IsCall([c EXCEPT !.marks = N])
BY DEF IsCall

LEMMA CallOut ==
  ASSUME NEW c, IsCall(c), NEW pc \in PCs, c.pc # "idle",
         NEW n, IsNote(n), NEW k \in PoolIds \cup {None}
  PROVE  IsCall([c EXCEPT !.pc = pc, !.out = n, !.pool = k])
<1> DEFINE b == [c EXCEPT !.pc = pc]
           e == [b EXCEPT !.out = n]
<1>1. IsCall(b) BY DEF IsCall
<1> HIDE DEF b
<1>2. IsCall(e) BY <1>1 DEF IsCall
<1> HIDE DEF e
<1>3. IsCall([e EXCEPT !.pool = k]) BY <1>2 DEF IsCall
<1> QED BY <1>3 DEF e, b

LEMMA HydrateType ==
  ASSUME TypeOK, NEW o \in Ops, Hydrate(o) PROVE TypeOK'
<1>1. PICK ids \in SUBSET {p \in Ops : row[p] = "false"} :
        op' = [op EXCEPT ![o].pc = "hydrated", ![o].ids = ids]
  BY DEF Hydrate
<1> DEFINE c == [op[o] EXCEPT !.pc = "hydrated", !.ids = ids]
           notes == {op[p].out : p \in {p \in Ops : row[p] = "false"}}
<1>2. IsCall(op[o]) /\ op[o].pc # "idle" BY DEF TypeOK, CallsOK, Hydrate
<1>3. IsCall(c) BY <1>1, <1>2, CallIds
<1>4. op' = [op EXCEPT ![o] = c] BY <1>1
<1>5. CallsOK' BY <1>3, <1>4, SetCall DEF TypeOK
<1>6. op[o].dev \in Devices BY <1>2 DEF IsCall
<1>7. \A n \in notes : IsNote(n) BY DEF TypeOK, CallsOK, IsCall
<1>8. IsNoteStore(PutAll(Store(o), notes \ DOMAIN Store(o), "false"))
  BY <1>6, <1>7, PutAllStore DEF TypeOK, StoresOK, Store
<1>9. StoresOK' BY <1>6, <1>8, SetLocal DEF Hydrate, SetStore, TypeOK
<1> QED BY <1>5, <1>9 DEF Hydrate, TypeOK

LEMMA SelectType ==
  ASSUME TypeOK, NEW o \in Ops, Select(o) PROVE TypeOK'
<1>1. PICK spent \in SpentReads(o), N \in SUBSET Listed(o) :
        /\ SetStore(o, MarkAll(Store(o), spent, "true"))
        /\ \/ op' = [op EXCEPT ![o].pc = "selected", ![o].ins = N]
           \/ op' = [op EXCEPT ![o].pc = "failed"]
  BY DEF Select
<1>2. IsCall(op[o]) /\ op[o].pc # "idle" BY DEF TypeOK, CallsOK, Select
<1>3. op[o].dev \in Devices BY <1>2 DEF IsCall
<1>4. IsNoteStore(Store(o)) BY <1>3 DEF TypeOK, StoresOK, Store
<1>5. \A n \in N : IsNote(n) BY <1>4 DEF IsNoteStore, Listed
<1>6. CASE op' = [op EXCEPT ![o].pc = "selected", ![o].ins = N]
  <2> DEFINE c == [op[o] EXCEPT !.pc = "selected", !.ins = N]
  <2>1. IsCall(c) BY <1>2, <1>5, CallIns
  <2>2. op' = [op EXCEPT ![o] = c] BY <1>6
  <2> QED BY <2>1, <2>2, <1>4, <1>1, <1>3, SetCall, MarkAllStore, SetLocal
          DEF TypeOK, SetStore, Select
<1>7. CASE op' = [op EXCEPT ![o].pc = "failed"]
  BY <1>1, <1>2, <1>3, <1>4, <1>7, MoveCall, MarkAllStore, SetLocal
     DEF TypeOK, SetStore, Select
<1> QED BY <1>1, <1>6, <1>7

LEMMA ClaimedType ==
  ASSUME CallsOK, NEW o \in Ops, NEW s, NEW k \in PoolIds \cup {None},
         op[o].pc = "selected", Claimed(o, s, k)
  PROVE  CallsOK'
<1> DEFINE c == [op[o] EXCEPT !.pc = "claimed", !.out = ChangeNote(o, s), !.pool = k]
<1>1. IsCall(op[o]) BY DEF CallsOK
<1>2. IsNote(ChangeNote(o, s)) BY DEF IsNote, ChangeNote, NewNote
<1>3. IsCall(c) BY <1>1, <1>2, CallOut
<1>4. op' = [op EXCEPT ![o] = c] BY DEF Claimed
<1> QED BY <1>3, <1>4, SetCall

LEMMA ClaimType ==
  ASSUME TypeOK, NEW o \in Ops,
         (\E k \in PoolIds : ClaimFromPool(o, k)) \/ ClaimFails(o)
  PROVE  TypeOK'
<1>1. CallsOK' BY ClaimedType DEF TypeOK, ClaimFromPool, ClaimFails
<1>2. pool' \in [PoolIds -> PoolStatus] BY DEF TypeOK, ClaimFromPool, ClaimFails, Take
<1> QED BY <1>1, <1>2
        DEF TypeOK, ClaimFromPool, ClaimFails, StoresOK, IsNoteStore, IsStore, IsNote

\* The steps between the claim and the end of the call.
LEMMA ChangeType ==
  ASSUME TypeOK, NEW o \in Ops,
         PreWriteChange(o) \/ AbandonWithdraw(o) \/ HydrateFails(o)
           \/ PostChange(o) \/ ResolvePool(o) \/ CloseTab(o)
  PROVE  TypeOK'
<1>1. op[o].pc # "idle" /\ CallsOK'
  BY MoveCall DEF PreWriteChange, AbandonWithdraw, HydrateFails, PostChange,
                  ResolvePool, CloseTab, Goto, TypeOK
<1>2. op[o].dev \in Devices /\ IsNote(op[o].out) BY <1>1 DEF TypeOK, CallsOK, IsCall
<1>3. StoresOK'
  <2>1. CASE UNCHANGED local
    BY <2>1 DEF TypeOK, StoresOK, IsNoteStore, IsStore, IsNote
  <2>2. CASE SetStore(o, Put(Store(o), op[o].out, PreTxStatus))
    <3>1. IsNoteStore(Put(Store(o), op[o].out, PreTxStatus))
      BY <1>2, PutStore DEF TypeOK, StoresOK, Store, PreTxStatus
    <3> QED BY <3>1, <2>2, <1>2, SetLocal DEF SetStore, TypeOK
  <2> QED BY <2>1, <2>2 DEF PreWriteChange, AbandonWithdraw, HydrateFails, PostChange,
                            ResolvePool, CloseTab
<1>4. /\ tx' \in [Ops -> TxStatus]
      /\ row' \in [Ops -> RowStatus]
      /\ pool' \in [PoolIds -> PoolStatus]
  BY DEF TypeOK, PreWriteChange, AbandonWithdraw, HydrateFails, PostChange,
         ResolvePool, PatchPool, CloseTab
<1> QED BY <1>1, <1>3, <1>4 DEF TypeOK

LEMMA ConfirmWithdrawType ==
  ASSUME TypeOK, NEW o \in Ops, ConfirmWithdraw(o) PROVE TypeOK'
<1> DEFINE c == [op[o] EXCEPT !.pc = "confirmed"]
           e == [c EXCEPT !.marks = op[o].ins]
           spent == MarkAll(Store(o), op[o].ins, "true")
<1>1. IsCall(op[o]) /\ op[o].pc # "idle" BY DEF TypeOK, CallsOK, ConfirmWithdraw
<1>2. op[o].dev \in Devices BY <1>1 DEF IsCall
<1>3. IsCall(e)
  <2>1. IsCall(c) BY <1>1 DEF IsCall
  <2>2. \A n \in op[o].ins : IsNote(n) BY <1>1 DEF IsCall
  <2> HIDE DEF c
  <2> QED BY <2>1, <2>2, CallMarks
<1>4. op' = [op EXCEPT ![o] = e] BY DEF ConfirmWithdraw
<1>5. CallsOK' BY <1>3, <1>4, SetCall DEF TypeOK
<1>6. IsNoteStore(spent)
  BY <1>2, MarkAllStore DEF TypeOK, StoresOK, Store
<1>7. IsNoteStore(Mark(spent, op[o].out, "false")) BY <1>6, MarkStore
<1>8. StoresOK'
  BY <1>2, <1>6, <1>7, SetLocal DEF ConfirmWithdraw, SetStore, TypeOK
<1> QED BY <1>5, <1>8 DEF ConfirmWithdraw, TypeOK

LEMMA MarkType ==
  ASSUME TypeOK, NEW o \in Ops, NEW n \in op[o].marks, DeliverMark(o, n) PROVE TypeOK'
<1> DEFINE c == [op[o] EXCEPT !.marks = op[o].marks \ {n}]
<1>1. IsCall(op[o]) BY DEF TypeOK, CallsOK
<1>2. \A m \in op[o].marks \ {n} : IsNote(m) BY <1>1 DEF IsCall
<1>3. IsCall(c) BY <1>1, <1>2, CallMarks
<1>4. op' = [op EXCEPT ![o] = c] BY DEF DeliverMark
<1>5. CallsOK' BY <1>3, <1>4, SetCall DEF TypeOK
<1>6. row' \in [Ops -> RowStatus] BY DEF DeliverMark, TypeOK
<1> QED BY <1>5, <1>6 DEF DeliverMark, TypeOK, StoresOK, IsNoteStore, IsStore, IsNote

LEMMA FailWithdrawType ==
  ASSUME TypeOK, NEW o \in Ops, FailWithdraw(o) PROVE TypeOK'
<1>1. op[o].pc # "idle" BY DEF FailWithdraw, Throws
<1>2. op' = [op EXCEPT ![o].pc = "failed"] BY DEF FailWithdraw
<1>3. CallsOK' BY <1>1, <1>2, MoveCall DEF TypeOK
<1>4. op[o].dev \in Devices BY <1>1 DEF TypeOK, CallsOK, IsCall
<1>5. IsNoteStore(Store(o)) /\ IsNoteStore(Mark(Store(o), op[o].out, "true"))
  BY <1>4, MarkStore DEF TypeOK, StoresOK, Store
<1>6. StoresOK' BY <1>4, <1>5, SetLocal DEF FailWithdraw, SetStore, TypeOK
<1>7. pool' \in [PoolIds -> PoolStatus] BY DEF FailWithdraw, PatchPool, TypeOK
<1> QED BY <1>3, <1>6, <1>7 DEF FailWithdraw, TypeOK

LEMMA ChainType ==
  ASSUME TypeOK,
         (\E o \in Ops : MineTx(o) \/ RevertTx(o)) \/ (\E k \in PoolIds : RefillPool(k))
  PROVE  TypeOK'
BY DEF MineTx, RevertTx, RefillPool, TypeOK, CallsOK, IsCall, StoresOK, IsNoteStore,
       IsStore, IsNote

LEMMA TypeStep == TypeOK /\ [Next]_vars => TypeOK'
<1> SUFFICES ASSUME TypeOK, [Next]_vars PROVE TypeOK'
  OBVIOUS
<1>1. CASE UNCHANGED vars
  BY <1>1 DEF vars, TypeOK, CallsOK, IsCall, StoresOK, IsNoteStore, IsStore, IsNote
<1>2. CASE \E k \in PoolIds : RefillPool(k)
  BY <1>2, ChainType
<1>3. ASSUME NEW o \in Ops,
             Begin(o) \/ Deposit(o) \/ Withdraw(o)
               \/ SendTx(o) \/ MineTx(o) \/ RevertTx(o) \/ CloseTab(o)
      PROVE  TypeOK'
  <2>1. CASE Begin(o) BY <2>1, BeginType DEF Begin
  <2>2. CASE Deposit(o) \/ SendTx(o) BY <2>2, DepositType
  <2>3. CASE MineTx(o) \/ RevertTx(o) BY <2>3, ChainType
  <2>4. CASE CloseTab(o) BY <2>4, ChangeType
  <2>5. CASE Withdraw(o)
    BY <2>5, HydrateType, SelectType, ClaimType, ChangeType, ConfirmWithdrawType,
       FailWithdrawType, MarkType DEF Withdraw
  <2> QED BY <1>3, <2>1, <2>2, <2>3, <2>4, <2>5
<1> QED BY <1>1, <1>2, <1>3 DEF Next

LEMMA TypeInit == Init => TypeOK
<1> SUFFICES ASSUME Init PROVE TypeOK
  OBVIOUS
<1>1. IsNote(NoNote) BY DEF IsNote, NoNote, NewNote
<1>2. IsCall(IdleOp) BY <1>1 DEF IsCall, IdleOp, NewCall
<1>3. CallsOK BY <1>2 DEF Init, CallsOK
<1>4. IsNoteStore(EmptyStore) BY DEF IsNoteStore, IsStore, EmptyStore
<1>5. StoresOK BY <1>4 DEF Init, StoresOK
<1> QED BY <1>3, <1>5 DEF Init, TypeOK

\* Whatever fails and in whatever order the calls run, every variable keeps the
\* shape the handlers give it.
THEOREM TypeCorrect == Spec => []TypeOK
BY TypeInit, TypeStep, PTL DEF Spec

-------------------------------------------------------------------------------
(***************************************************************************)
(* What each step makes of the calls.                                      *)
(***************************************************************************)

\* The locals of a call that settle before its transaction is sent.
Same(c, e) ==
  /\ c.kind = e.kind /\ c.dev = e.dev /\ c.amount = e.amount
  /\ c.ins = e.ins /\ c.out = e.out /\ c.pool = e.pool

Others(o) == \A p \in Ops \ {o} : op'[p] = op[p]

\* The steps that move a call on and change nothing else of it.
Moves(o) ==
  \/ Deposit(o) \/ SendTx(o) \/ CloseTab(o)
  \/ Hydrate(o) \/ HydrateFails(o) \/ PreWriteChange(o) \/ AbandonWithdraw(o)
  \/ ConfirmWithdraw(o) \/ PostChange(o) \/ ResolvePool(o) \/ FailWithdraw(o)

LEMMA MoveEffect ==
  ASSUME TypeOK, NEW o \in Ops, Moves(o)
  PROVE  Same(op'[o], op[o]) /\ Others(o)
<1>1. IsCall(op[o]) /\ DOMAIN op = Ops BY DEF TypeOK, CallsOK
<1>2. ASSUME NEW pc, op' = [op EXCEPT ![o].pc = pc]
      PROVE  Same(op'[o], op[o]) /\ Others(o)
  BY <1>1, <1>2 DEF Same, Others, IsCall
<1>3. CASE Hydrate(o)
  BY <1>1, <1>3 DEF Hydrate, Same, Others, IsCall
<1>4. CASE ConfirmWithdraw(o)
  BY <1>1, <1>4 DEF ConfirmWithdraw, Same, Others, IsCall
<1>5. CASE Deposit(o) \/ SendTx(o) \/ CloseTab(o)
  BY <1>2, <1>5 DEF Deposit, ConfirmDeposit, PostDeposit, FailDeposit, SendTx, CloseTab,
                    Goto
<1>6. CASE HydrateFails(o) \/ PreWriteChange(o) \/ AbandonWithdraw(o) \/ PostChange(o)
             \/ ResolvePool(o) \/ FailWithdraw(o)
  BY <1>2, <1>6 DEF HydrateFails, PreWriteChange, AbandonWithdraw, PostChange,
                    ResolvePool, FailWithdraw, Goto
<1> QED BY <1>3, <1>4, <1>5, <1>6 DEF Moves

LEMMA SelectEffect ==
  ASSUME TypeOK, NEW o \in Ops, Select(o)
  PROVE  /\ op[o].pc = "hydrated" /\ op'[o].pc \in {"selected", "failed"}
         /\ op'[o].kind = op[o].kind /\ op'[o].dev = op[o].dev
         /\ op'[o].amount = op[o].amount /\ op'[o].pool = op[o].pool
         /\ op'[o].pc = "selected" => Value(op'[o].ins) >= op[o].amount
         /\ Others(o)
<1>1. IsCall(op[o]) /\ DOMAIN op = Ops BY DEF TypeOK, CallsOK
<1>2. PICK N : IF Value(N) >= op[o].amount
               THEN op' = [op EXCEPT ![o].pc = "selected", ![o].ins = N]
               ELSE op' = [op EXCEPT ![o].pc = "failed"]
  BY DEF Select
<1>3. op[o].pc = "hydrated" BY DEF Select
<1> QED BY <1>1, <1>2, <1>3 DEF Others, IsCall

LEMMA ClaimedEffect ==
  ASSUME TypeOK, NEW o \in Ops, NEW s, NEW k, Claimed(o, s, k)
  PROVE  /\ op'[o].pc = "claimed" /\ op'[o].out.secret = s /\ op'[o].pool = k
         /\ op'[o].kind = op[o].kind /\ op'[o].dev = op[o].dev
         /\ op'[o].amount = op[o].amount /\ op'[o].ins = op[o].ins
         /\ Others(o)
<1>1. IsCall(op[o]) /\ DOMAIN op = Ops BY DEF TypeOK, CallsOK
<1> QED BY <1>1 DEF Claimed, ChangeNote, NewNote, Others, IsCall

LEMMA MarkEffect ==
  ASSUME TypeOK, NEW o \in Ops, NEW n, DeliverMark(o, n)
  PROVE  op'[o].pc = op[o].pc /\ Same(op'[o], op[o]) /\ Others(o)
<1>1. IsCall(op[o]) /\ DOMAIN op = Ops BY DEF TypeOK, CallsOK
<1> QED BY <1>1 DEF DeliverMark, Same, Others, IsCall

LEMMA BeginEffect ==
  ASSUME TypeOK, NEW o \in Ops, Begin(o)
  PROVE  /\ op[o].pc = "idle" /\ Others(o) /\ op'[o].pool = None
         /\ \/ /\ op'[o].kind = "deposit" /\ op'[o].pc = "prewritten"
               /\ op'[o].out.secret = FreshSecret(o)
            \/ /\ op'[o].kind = "withdraw" /\ op'[o].pc = "scanned"
               /\ op'[o].amount \in Amounts
<1>1. DOMAIN op = Ops BY DEF TypeOK, CallsOK
<1> QED BY <1>1 DEF Begin, BeginDeposit, BeginWithdraw, NewCall, NewNote, Others

\* From where to where a step moves a call, and what it asks of its transaction.
LEMMA MovePc ==
  ASSUME TypeOK, NEW o \in Ops, Moves(o)
  PROVE  \/ op[o].pc = "prewritten" /\ op'[o].pc = "sent" /\ tx'[o] = "pending"
         \/ op[o].pc = "sent" /\ op'[o].pc = "confirmed" /\ tx[o] = "mined"
         \/ /\ op[o].pc \in {"confirmed", "posted"}
            /\ op'[o].pc \in {"posted", "done", "crashed"}
         \/ op[o].pc \in {"prewritten", "sent"} /\ op'[o].pc \in {"failed", "crashed"}
         \/ op[o].pc = "scanned" /\ op'[o].pc = "hydrated"
         \/ op[o].pc = "claimed" /\ op'[o].pc \in {"prewritten", "failed"}
         \/ /\ op[o].pc \in {"scanned", "hydrated", "selected", "claimed"}
            /\ op'[o].pc = "crashed"
<1>1. IsCall(op[o]) /\ DOMAIN op = Ops BY DEF TypeOK, CallsOK
<1>2. CASE Deposit(o)
  BY <1>1, <1>2 DEF Deposit, ConfirmDeposit, PostDeposit, FailDeposit, Throws, Goto, IsCall
<1>3. CASE SendTx(o) BY <1>1, <1>3 DEF SendTx, Goto, IsCall, TypeOK
<1>4. CASE CloseTab(o) BY <1>1, <1>4 DEF CloseTab, IsCall
<1>5. CASE Hydrate(o) \/ HydrateFails(o)
  BY <1>1, <1>5 DEF Hydrate, HydrateFails, Goto, IsCall
<1>6. CASE PreWriteChange(o) \/ AbandonWithdraw(o)
  BY <1>1, <1>6 DEF PreWriteChange, AbandonWithdraw, Goto, IsCall
<1>7. CASE ConfirmWithdraw(o) BY <1>1, <1>7 DEF ConfirmWithdraw, IsCall
<1>8. CASE PostChange(o) \/ ResolvePool(o)
  BY <1>1, <1>8 DEF PostChange, ResolvePool, Goto, IsCall
<1>9. CASE FailWithdraw(o) BY <1>1, <1>9 DEF FailWithdraw, Throws, IsCall
<1> QED BY <1>2, <1>3, <1>4, <1>5, <1>6, <1>7, <1>8, <1>9 DEF Moves

\* The steps that touch the transactions.
LEMMA TxEffect ==
  ASSUME TypeOK, NEW o \in Ops
  PROVE  /\ SendTx(o) => tx' = [tx EXCEPT ![o] = "pending"]
         /\ MineTx(o) \/ RevertTx(o) => UNCHANGED op
         /\ Moves(o) /\ ~ SendTx(o) => UNCHANGED tx
         /\ Begin(o) \/ Select(o) \/ ClaimFails(o) => UNCHANGED tx
         /\ \A k \in PoolIds : ClaimFromPool(o, k) \/ RefillPool(k) => UNCHANGED tx
         /\ \A n \in op[o].marks : DeliverMark(o, n) => UNCHANGED tx
BY DEF SendTx, MineTx, RevertTx, Moves, Begin, BeginDeposit, BeginWithdraw, Select,
       ClaimFails, ClaimFromPool, RefillPool, DeliverMark, Deposit, ConfirmDeposit,
       PostDeposit, FailDeposit, CloseTab, Hydrate, HydrateFails, PreWriteChange,
       AbandonWithdraw, ConfirmWithdraw, PostChange, ResolvePool, FailWithdraw

-------------------------------------------------------------------------------
(***************************************************************************)
(* What a transaction that was sent says of its call.                      *)
(***************************************************************************)

\* A sent transaction belongs to a call past its prewrite, and a call that saw its
\* receipt has a mined one.
TxFollowsCall ==
  \A o \in Ops :
    /\ tx[o] # "unsent" => op[o].pc \in {"sent", "confirmed", "posted"} \cup Final
    /\ op[o].pc \in {"confirmed", "posted"} => tx[o] = "mined"

\* The kinds of step, for the proofs that go through them.
StepOf(o) ==
  \/ Begin(o) \/ Moves(o) \/ Select(o)
  \/ \E k \in PoolIds : ClaimFromPool(o, k)
  \/ ClaimFails(o) \/ MineTx(o) \/ RevertTx(o)
  \/ \E n \in op[o].marks : DeliverMark(o, n)

LEMMA NextCases ==
  ASSUME [Next]_vars
  PROVE  \/ UNCHANGED vars
         \/ \E k \in PoolIds : RefillPool(k)
         \/ \E o \in Ops : StepOf(o)
BY DEF Next, StepOf, Moves, Withdraw

LEMMA TxFollowsStep ==
  ASSUME TypeOK, TxFollowsCall, [Next]_vars
  PROVE  /\ TxFollowsCall'
         /\ \A o \in Ops : tx[o] # "unsent" =>
              Same(op'[o], op[o]) /\ tx'[o] # "unsent" /\ (tx[o] = "mined" => tx'[o] = "mined")
<1> DEFINE Kept == \A o \in Ops : tx[o] # "unsent" =>
              Same(op'[o], op[o]) /\ tx'[o] # "unsent" /\ (tx[o] = "mined" => tx'[o] = "mined")
<1>1. CASE UNCHANGED vars BY <1>1 DEF vars, TxFollowsCall, Same
<1>2. CASE \E k \in PoolIds : RefillPool(k)
  BY <1>2 DEF RefillPool, TxFollowsCall, Same
<1>3. ASSUME NEW o \in Ops, StepOf(o) PROVE TxFollowsCall' /\ Kept
  <2>1. CASE Begin(o)
    BY <2>1, BeginEffect, TxEffect DEF TxFollowsCall, Others, Same
  <2>2. CASE Moves(o)
    <3>1. Same(op'[o], op[o]) /\ Others(o) BY <2>2, MoveEffect
    <3>2. \A p \in Ops \ {o} : tx'[p] = tx[p]
      BY <2>2, TxEffect DEF TypeOK
    <3>a. IsCall(op[o]) /\ DOMAIN op = Ops BY DEF TypeOK, CallsOK
    <3>3. \/ op[o].pc = "prewritten" /\ op'[o].pc = "sent"
          \/ tx'[o] = tx[o]
      BY <2>2, <3>a, TxEffect DEF SendTx, Goto, IsCall
    <3>4. TxFollowsCall'
      BY <2>2, <3>1, <3>2, <3>3, MovePc DEF TxFollowsCall, Others
    <3> QED BY <2>2, <3>1, <3>2, <3>3, <3>4, MovePc DEF Others, Same, TxFollowsCall
  <2>3. CASE Select(o)
    BY <2>3, SelectEffect, TxEffect DEF TxFollowsCall, Others, Same
  <2>4. CASE (\E k \in PoolIds : ClaimFromPool(o, k)) \/ ClaimFails(o)
    <3>1. UNCHANGED tx /\ op[o].pc = "selected" BY <2>4 DEF ClaimFromPool, ClaimFails
    <3>2. op'[o].pc = "claimed" /\ Others(o)
      BY <2>4, ClaimedEffect DEF ClaimFromPool, ClaimFails
    <3> QED BY <3>1, <3>2 DEF TxFollowsCall, Others, Same
  <2>5. CASE MineTx(o) \/ RevertTx(o)
    BY <2>5 DEF MineTx, RevertTx, TxFollowsCall, Same, TypeOK
  <2>6. CASE \E n \in op[o].marks : DeliverMark(o, n)
    BY <2>6, MarkEffect, TxEffect DEF TxFollowsCall, Others, Same
  <2> QED BY <1>3, <2>1, <2>2, <2>3, <2>4, <2>5, <2>6 DEF StepOf
<1> QED BY <1>1, <1>2, <1>3, NextCases

-------------------------------------------------------------------------------
(***************************************************************************)
(* A spendable row is the row of a leaf.                                   *)
(***************************************************************************)

\* The server lists no note before it is a leaf.
RowsOnChain == \A o \in Ops : row[o] = "false" => tx[o] = "mined"

ChainInv == TypeOK /\ TxFollowsCall /\ RowsOnChain /\ SpendableIsOnChain

LEMMA LeavesGrow ==
  ASSUME TypeOK, TxFollowsCall, [Next]_vars
  PROVE  Leaves \subseteq Leaves'
BY TxFollowsStep DEF Leaves, Mined, Same

\* Rewriting one store keeps the property if the new store has it.
LEMMA SpendableStore ==
  ASSUME StoresOK, SpendableIsOnChain, Leaves \subseteq Leaves', NEW d \in Devices, NEW s,
         local' = [local EXCEPT ![d] = s],
         \A n \in DOMAIN s : s[n] = "false" => n \in Leaves'
  PROVE  SpendableIsOnChain'
BY DEF SpendableIsOnChain, StoresOK

LEMMA RowsStep ==
  ASSUME TypeOK, TxFollowsCall, RowsOnChain, [Next]_vars
  PROVE  RowsOnChain'
<1>1. \A o \in Ops : tx[o] = "mined" => tx'[o] = "mined" BY TxFollowsStep
<1>2. ASSUME NEW o \in Ops, PostDeposit(o) \/ PostChange(o)
      PROVE  /\ tx[o] = "mined"
             /\ \A p \in Ops \ {o} : row'[p] = row[p]
  BY <1>2 DEF PostDeposit, PostChange, Goto, TxFollowsCall, TypeOK
<1>3. ASSUME NEW o \in Ops, NEW n, DeliverMark(o, n)
      PROVE  \A p \in Ops : row'[p] \in {row[p], "true"}
  BY <1>3 DEF DeliverMark
<1>4. \/ UNCHANGED row
      \/ \E o \in Ops : PostDeposit(o) \/ PostChange(o)
      \/ \E o \in Ops : \E n \in op[o].marks : DeliverMark(o, n)
  BY DEF Next, vars, Begin, BeginDeposit, BeginWithdraw, Deposit, ConfirmDeposit,
         FailDeposit, Withdraw, Hydrate, HydrateFails, Select, ClaimFromPool, ClaimFails,
         PreWriteChange, AbandonWithdraw, ConfirmWithdraw, ResolvePool, FailWithdraw,
         SendTx, MineTx, RevertTx, CloseTab, RefillPool
<1> QED BY <1>1, <1>2, <1>3, <1>4 DEF RowsOnChain

LEMMA SpendableStep ==
  ASSUME ChainInv, [Next]_vars
  PROVE  SpendableIsOnChain'
<1>0. Leaves \subseteq Leaves' /\ StoresOK BY LeavesGrow DEF ChainInv, TypeOK
<1>1. CASE UNCHANGED local BY <1>0, <1>1 DEF ChainInv, SpendableIsOnChain
<1>2. ASSUME NEW o \in Ops, NEW d \in Devices, NEW a, BeginDeposit(o, d, a)
      PROVE  SpendableIsOnChain'
  <2> DEFINE s == Put(local[d], NewNote(FreshSecret(o), a), "pending")
  <2>1. local' = [local EXCEPT ![d] = s] BY <1>2 DEF BeginDeposit
  <2>2. \A n \in DOMAIN s : s[n] = "false" => n \in Leaves'
    BY <1>0 DEF ChainInv, SpendableIsOnChain, Put
  <2> QED BY <2>1, <2>2, <1>0, SpendableStore DEF ChainInv
<1>3. ASSUME NEW o \in Ops, op[o].pc # "idle", NEW s, SetStore(o, s),
             \A n \in DOMAIN s : s[n] = "false" => n \in Leaves \/ HasStatus(Store(o), n, "false")
      PROVE  SpendableIsOnChain'
  <2>1. op[o].dev \in Devices BY <1>3 DEF ChainInv, TypeOK, CallsOK, IsCall
  <2>2. \A n \in DOMAIN s : s[n] = "false" => n \in Leaves'
    BY <1>0, <1>3, <2>1 DEF ChainInv, SpendableIsOnChain, HasStatus, Store
  <2> QED BY <2>1, <2>2, <1>0, <1>3, SpendableStore DEF ChainInv, SetStore
<1>4. ASSUME NEW o \in Ops, ConfirmDeposit(o) \/ ConfirmWithdraw(o)
      PROVE  SpendableIsOnChain'
  <2> DEFINE s == IF op[o].kind = "withdraw"
                  THEN MarkAll(Store(o), op[o].ins, "true") ELSE Store(o)
  <2>1. op[o].pc # "idle" /\ op[o].out \in Leaves
    BY <1>4 DEF ConfirmDeposit, ConfirmWithdraw, Goto, Leaves, Mined
  <2>2. \A n \in DOMAIN s : s[n] = "false" => HasStatus(Store(o), n, "false")
    BY DEF MarkAll, HasStatus
  <2>3. \A n \in DOMAIN Mark(s, op[o].out, "false") :
          Mark(s, op[o].out, "false")[n] = "false"
            => n \in Leaves \/ HasStatus(Store(o), n, "false")
    BY <2>1, <2>2 DEF Mark, MarkAll
  <2>4. SetStore(o, s) \/ SetStore(o, Mark(s, op[o].out, "false"))
    BY <1>4 DEF ConfirmDeposit, ConfirmWithdraw
  <2> HIDE DEF s
  <2> QED BY <2>1, <2>2, <2>3, <2>4, <1>3
<1>5. ASSUME NEW o \in Ops, FailDeposit(o) \/ FailWithdraw(o)
      PROVE  SpendableIsOnChain'
  <2>1. op[o].pc # "idle" BY <1>5 DEF FailDeposit, FailWithdraw, Throws
  <2>2. \A n \in DOMAIN Mark(Store(o), op[o].out, "true") :
          Mark(Store(o), op[o].out, "true")[n] = "false" => HasStatus(Store(o), n, "false")
    BY DEF Mark, MarkAll, HasStatus
  <2>3. SetStore(o, Store(o)) \/ SetStore(o, Mark(Store(o), op[o].out, "true"))
    BY <1>5 DEF FailDeposit, FailWithdraw
  <2> QED BY <2>1, <2>2, <2>3, <1>3 DEF HasStatus
<1>6. ASSUME NEW o \in Ops, Hydrate(o) PROVE SpendableIsOnChain'
  <2> DEFINE notes == {op[p].out : p \in {p \in Ops : row[p] = "false"}}
             s == PutAll(Store(o), notes \ DOMAIN Store(o), "false")
  <2>1. notes \subseteq Leaves BY DEF ChainInv, RowsOnChain, Leaves, Mined
  <2>2. \A n \in DOMAIN s : s[n] = "false" => n \in Leaves \/ HasStatus(Store(o), n, "false")
    BY <2>1 DEF PutAll, HasStatus
  <2> QED BY <1>3, <1>6, <2>2 DEF Hydrate
<1>7. ASSUME NEW o \in Ops, Select(o) PROVE SpendableIsOnChain'
  <2>1. PICK spent : SetStore(o, MarkAll(Store(o), spent, "true")) BY <1>7 DEF Select
  <2>2. \A n \in DOMAIN MarkAll(Store(o), spent, "true") :
          MarkAll(Store(o), spent, "true")[n] = "false" => HasStatus(Store(o), n, "false")
    BY DEF MarkAll, HasStatus
  <2> QED BY <1>3, <1>7, <2>1, <2>2 DEF Select
<1>8. ASSUME NEW o \in Ops, PreWriteChange(o) PROVE SpendableIsOnChain'
  <2> DEFINE s == Put(Store(o), op[o].out, PreTxStatus)
  <2>1. \A n \in DOMAIN s : s[n] = "false" => HasStatus(Store(o), n, "false")
    BY DEF Put, HasStatus, PreTxStatus
  <2>2. op[o].pc # "idle" BY <1>8 DEF PreWriteChange, Goto
  <2> HIDE DEF s
  <2>3. SetStore(o, s) \/ UNCHANGED local BY <1>8 DEF PreWriteChange, s
  <2> QED BY <1>1, <1>3, <2>1, <2>2, <2>3
<1>9. \/ UNCHANGED local
      \/ \E o \in Ops, d \in Devices, a \in Amounts : BeginDeposit(o, d, a)
      \/ \E o \in Ops : \/ ConfirmDeposit(o) \/ ConfirmWithdraw(o)
                       \/ FailDeposit(o) \/ FailWithdraw(o)
                       \/ Hydrate(o) \/ Select(o) \/ PreWriteChange(o)
  BY DEF Next, vars, Begin, BeginWithdraw, Deposit, PostDeposit, Withdraw, HydrateFails,
         ClaimFromPool, ClaimFails, AbandonWithdraw, PostChange, ResolvePool, DeliverMark,
         SendTx, MineTx, RevertTx, CloseTab, RefillPool
<1> QED BY <1>1, <1>2, <1>4, <1>5, <1>6, <1>7, <1>8, <1>9

LEMMA ChainInit == Init => ChainInv
BY TypeInit DEF Init, ChainInv, TxFollowsCall, RowsOnChain, SpendableIsOnChain, IdleOp,
                NewCall, EmptyStore

\* No failure of the chain, the server or the browser makes a device show as
\* spendable a note that is not a leaf of the vault.
THEOREM SpendableOnChain == Spec => []SpendableIsOnChain
<1>1. ChainInv /\ [Next]_vars => ChainInv'
  BY TypeStep, TxFollowsStep, RowsStep, SpendableStep DEF ChainInv
<1>2. ChainInv => SpendableIsOnChain BY DEF ChainInv
<1> QED BY ChainInit, <1>1, <1>2, PTL DEF Spec

-------------------------------------------------------------------------------
(***************************************************************************)
(* The row of an output is written before its transaction is sent.         *)
(***************************************************************************)

\* From the prewrite on, an output worth a row has one on the device of its call.
OutputStored ==
  \A o \in Ops :
    /\ HasChange(o)
    /\ op[o].pc = "prewritten" \/ tx[o] # "unsent"
    => op[o].out \in DOMAIN Store(o)

StoredInv == TypeOK /\ TxFollowsCall /\ OutputStored

\* No step removes a row.
LEMMA StoresGrow ==
  ASSUME TypeOK, [Next]_vars
  PROVE  \A d \in Devices : DOMAIN local[d] \subseteq DOMAIN local'[d]
<1>0. DOMAIN local = Devices BY DEF TypeOK, StoresOK
<1>1. ASSUME NEW o \in Ops, NEW s, SetStore(o, s), DOMAIN Store(o) \subseteq DOMAIN s
      PROVE  \A d \in Devices : DOMAIN local[d] \subseteq DOMAIN local'[d]
  BY <1>0, <1>1 DEF SetStore, Store
<1>2. ASSUME NEW o \in Ops, NEW d \in Devices, NEW a, BeginDeposit(o, d, a)
      PROVE  \A e \in Devices : DOMAIN local[e] \subseteq DOMAIN local'[e]
  BY <1>0, <1>2 DEF BeginDeposit, Put
<1>3. ASSUME NEW o \in Ops, NEW n, NEW v, SetStore(o, Mark(Store(o), n, v))
      PROVE  \A d \in Devices : DOMAIN local[d] \subseteq DOMAIN local'[d]
  <2>1. DOMAIN Mark(Store(o), n, v) = DOMAIN Store(o) BY DEF Mark, MarkAll
  <2> QED BY <1>1, <1>3, <2>1
<1>4. ASSUME NEW o \in Ops, ConfirmWithdraw(o)
      PROVE  \A d \in Devices : DOMAIN local[d] \subseteq DOMAIN local'[d]
  <2> DEFINE s == MarkAll(Store(o), op[o].ins, "true")
  <2>1. DOMAIN s = DOMAIN Store(o) BY DEF MarkAll
  <2>2. DOMAIN Mark(s, op[o].out, "false") = DOMAIN s BY DEF Mark, MarkAll
  <2>3. SetStore(o, s) \/ SetStore(o, Mark(s, op[o].out, "false"))
    BY <1>4 DEF ConfirmWithdraw
  <2> HIDE DEF s
  <2> QED BY <2>1, <2>2, <2>3, <1>1
<1>5. ASSUME NEW o \in Ops, Hydrate(o) \/ Select(o) \/ PreWriteChange(o) \/ FailWithdraw(o)
      PROVE  \A d \in Devices : DOMAIN local[d] \subseteq DOMAIN local'[d]
  <2>1. CASE UNCHANGED local BY <2>1
  <2>2. \/ UNCHANGED local
        \/ \E N : \/ SetStore(o, PutAll(Store(o), N, "false"))
                  \/ SetStore(o, MarkAll(Store(o), N, "true"))
        \/ SetStore(o, Put(Store(o), op[o].out, PreTxStatus))
        \/ SetStore(o, Store(o))
        \/ SetStore(o, Mark(Store(o), op[o].out, "true"))
    BY <1>5 DEF Hydrate, Select, PreWriteChange, FailWithdraw
  <2>3. /\ \A N : /\ DOMAIN Store(o) \subseteq DOMAIN PutAll(Store(o), N, "false")
                  /\ DOMAIN Store(o) \subseteq DOMAIN MarkAll(Store(o), N, "true")
        /\ DOMAIN Store(o) \subseteq DOMAIN Put(Store(o), op[o].out, PreTxStatus)
    BY DEF PutAll, MarkAll, Put
  <2> QED BY <2>1, <2>2, <2>3, <1>1, <1>3
<1>6. \/ UNCHANGED local
      \/ \E o \in Ops, d \in Devices, a \in Amounts : BeginDeposit(o, d, a)
      \/ \E o \in Ops : \/ SetStore(o, Mark(Store(o), op[o].out, "false"))
                       \/ SetStore(o, Mark(Store(o), op[o].out, "true"))
                       \/ ConfirmWithdraw(o)
                       \/ Hydrate(o) \/ Select(o) \/ PreWriteChange(o) \/ FailWithdraw(o)
  BY DEF Next, vars, Begin, BeginWithdraw, Deposit, ConfirmDeposit, PostDeposit,
         FailDeposit, Withdraw, HydrateFails, ClaimFromPool, ClaimFails, AbandonWithdraw,
         PostChange, ResolvePool, DeliverMark, SendTx, MineTx, RevertTx, CloseTab,
         RefillPool
<1> QED BY <1>2, <1>3, <1>4, <1>5, <1>6

LEMMA PreWriteIs ==
  ASSUME TypeOK, NEW o \in Ops, Moves(o), op[o].pc # "prewritten", op'[o].pc = "prewritten"
  PROVE  PreWriteChange(o)
<1>1. IsCall(op[o]) /\ DOMAIN op = Ops BY DEF TypeOK, CallsOK
<1>2. op[o].pc = "claimed" BY MovePc
<1> QED
  BY <1>1, <1>2 DEF Moves, Deposit, ConfirmDeposit, PostDeposit, FailDeposit, Throws, SendTx,
     CloseTab, Hydrate, HydrateFails, AbandonWithdraw, ConfirmWithdraw, PostChange,
     ResolvePool, FailWithdraw, Goto, IsCall

\* A call whose output is settled keeps it, and only Begin and PreWriteChange settle one.
LEMMA SettlesOutput ==
  ASSUME TypeOK, TxFollowsCall, [Next]_vars, NEW o \in Ops,
         op'[o].pc = "prewritten" \/ tx'[o] # "unsent"
  PROVE  \/ (op[o].pc = "prewritten" \/ tx[o] # "unsent") /\ Same(op'[o], op[o])
         \/ \E d \in Devices, a \in Amounts : BeginDeposit(o, d, a)
         \/ PreWriteChange(o) /\ Same(op'[o], op[o])
<1>1. CASE tx[o] # "unsent" BY <1>1, TxFollowsStep
<1>2. CASE tx[o] = "unsent"
  <2>0. IsCall(op[o]) /\ DOMAIN op = Ops BY DEF TypeOK, CallsOK
  <2>1. CASE UNCHANGED vars BY <1>2, <2>1 DEF vars, Same
  <2>2. CASE \E k \in PoolIds : RefillPool(k) BY <1>2, <2>2 DEF RefillPool, Same
  <2>3. ASSUME NEW p \in Ops \ {o}, StepOf(p)
        PROVE  op'[o] = op[o] /\ tx'[o] = "unsent"
    <3>1. Others(p) \/ UNCHANGED op
      BY <2>3, BeginEffect, MoveEffect, SelectEffect, ClaimedEffect, MarkEffect, TxEffect
         DEF StepOf, ClaimFromPool, ClaimFails
    <3>2. tx'[o] = tx[o]
      BY <2>3, TxEffect DEF StepOf, MineTx, RevertTx, SendTx, TypeOK
    <3> QED BY <1>2, <3>1, <3>2 DEF Others
  <2>4. CASE StepOf(o)
    <3>1. CASE Begin(o)
      <4>1. op'[o].pc = "prewritten" BY <1>2, <3>1, TxEffect
      <4> QED BY <3>1, <4>1, <2>0 DEF Begin, BeginWithdraw, NewCall
    <3>2. CASE Moves(o)
      <4>1. Same(op'[o], op[o]) BY <3>2, MoveEffect
      <4>2. CASE op'[o].pc = "prewritten" BY <3>2, <4>1, <4>2, PreWriteIs
      <4>3. CASE tx'[o] # "unsent"
        BY <1>2, <3>2, <4>1, <4>3, TxEffect DEF SendTx, Goto
      <4> QED BY <4>2, <4>3
    <3>3. CASE Select(o) BY <1>2, <3>3, SelectEffect, TxEffect
    <3>4. CASE (\E k \in PoolIds : ClaimFromPool(o, k)) \/ ClaimFails(o)
      BY <1>2, <3>4, ClaimedEffect DEF ClaimFromPool, ClaimFails
    <3>5. CASE MineTx(o) \/ RevertTx(o) BY <1>2, <3>5 DEF MineTx, RevertTx
    <3>6. CASE \E n \in op[o].marks : DeliverMark(o, n)
      BY <1>2, <3>6, MarkEffect, TxEffect
    <3> QED BY <2>4, <3>1, <3>2, <3>3, <3>4, <3>5, <3>6 DEF StepOf
  <2> QED BY <2>1, <2>2, <2>3, <2>4, NextCases, <1>2 DEF Same
<1> QED BY <1>1, <1>2 DEF TypeOK

LEMMA StoredStep ==
  ASSUME StoredInv, ~ StorageMayFail, [Next]_vars
  PROVE  OutputStored'
<1> SUFFICES ASSUME NEW o \in Ops, HasChange(o)',
                    op'[o].pc = "prewritten" \/ tx'[o] # "unsent"
             PROVE  op'[o].out \in DOMAIN local'[op'[o].dev]
  BY DEF OutputStored, Store
<1>0. IsCall(op[o]) /\ DOMAIN op = Ops /\ DOMAIN local = Devices
  BY DEF StoredInv, TypeOK, CallsOK, StoresOK
<1>1. CASE (op[o].pc = "prewritten" \/ tx[o] # "unsent") /\ Same(op'[o], op[o])
  <2>1. op[o].pc # "idle" BY <1>1 DEF StoredInv, TxFollowsCall
  <2>2. op[o].dev \in Devices BY <2>1, <1>0 DEF IsCall
  <2>3. op[o].out \in DOMAIN local[op[o].dev]
    BY <1>1 DEF StoredInv, OutputStored, HasChange, Same, Store
  <2> QED BY <1>1, <2>2, <2>3, StoresGrow DEF StoredInv, Same
<1>2. CASE \E d \in Devices, a \in Amounts : BeginDeposit(o, d, a)
  BY <1>0, <1>2 DEF BeginDeposit, NewCall, Put
<1>3. CASE PreWriteChange(o) /\ Same(op'[o], op[o])
  <2>1. op[o].dev \in Devices BY <1>0, <1>3 DEF PreWriteChange, Goto, IsCall
  <2>2. HasChange(o) BY <1>3 DEF HasChange, Same
  <2>3. local' = [local EXCEPT ![op[o].dev] = Put(Store(o), op[o].out, PreTxStatus)]
    BY <1>3, <2>2 DEF PreWriteChange, SetStore
  <2> QED BY <1>0, <1>3, <2>1, <2>3 DEF Same, Put
<1> QED BY <1>1, <1>2, <1>3, SettlesOutput DEF StoredInv

\* If the browser's writes succeed, closing the tab at any moment, or any failure of
\* the chain or the server, leaves the secrets of every leaf that can be withdrawn
\* in the localStorage of the device that made it.
THEOREM UnspentStored == ~ StorageMayFail => (Spec => []UnspentIsStored)
<1> SUFFICES ASSUME ~ StorageMayFail PROVE Spec => []UnspentIsStored
  OBVIOUS
<1>1. Init => StoredInv
  BY TypeInit DEF Init, StoredInv, TxFollowsCall, OutputStored, IdleOp, NewCall
<1>2. StoredInv /\ [Next]_vars => StoredInv'
  BY TypeStep, TxFollowsStep, StoredStep DEF StoredInv
<1>3. StoredInv => UnspentIsStored
  BY DEF StoredInv, OutputStored, UnspentIsStored, Unspent, Mined, HasChange, Store
<1> QED BY <1>1, <1>2, <1>3, PTL DEF Spec

-------------------------------------------------------------------------------
(***************************************************************************)
(* A hidden row is one of a note that cannot be withdrawn, when no wait    *)
(* for a receipt fails.                                                    *)
(***************************************************************************)

\* Call p failed, and its transaction, if it was sent at all, reverted.
Fell(p) == op[p].pc = "failed" /\ tx[p] \in {"unsent", "reverted"}

\* Note n was spent, or is what a call that came to nothing would have made.
Gone(n) == n.secret \in Nullified \/ \E p \in Ops : Fell(p) /\ op[p].out = n

HiddenIsGone ==
  \A d \in Devices : \A n \in DOMAIN local[d] : local[d][n] = "true" => Gone(n)

HiddenInv == TypeOK /\ TxFollowsCall /\ HiddenIsGone

\* What came to nothing stays so.
LEMMA FellStays ==
  ASSUME TypeOK, TxFollowsCall, [Next]_vars, NEW p \in Ops, Fell(p)
  PROVE  Fell(p)' /\ op'[p].out = op[p].out
<1>0. IsCall(op[p]) /\ DOMAIN op = Ops BY DEF TypeOK, CallsOK
<1>1. CASE UNCHANGED vars BY <1>1 DEF vars, Fell
<1>2. CASE \E k \in PoolIds : RefillPool(k) BY <1>2 DEF RefillPool, Fell
<1>3. ASSUME NEW o \in Ops \ {p}, StepOf(o) PROVE op'[p] = op[p] /\ tx'[p] = tx[p]
  <2>1. Others(o) \/ UNCHANGED op
    BY <1>3, BeginEffect, MoveEffect, SelectEffect, ClaimedEffect, MarkEffect, TxEffect
       DEF StepOf, ClaimFromPool, ClaimFails
  <2>2. tx'[p] = tx[p]
    BY <1>3, TxEffect DEF StepOf, MineTx, RevertTx, SendTx, TypeOK
  <2> QED BY <2>1, <2>2 DEF Others
<1>4. CASE StepOf(p)
  <2>1. ~ Begin(p) /\ ~ Select(p) BY <1>4, BeginEffect, SelectEffect DEF Fell
  <2>2. ~ Moves(p) BY MovePc DEF Fell
  <2>3. ~ ClaimFails(p) /\ \A k \in PoolIds : ~ ClaimFromPool(p, k)
    BY DEF ClaimFails, ClaimFromPool, Fell
  <2>4. ~ MineTx(p) /\ ~ RevertTx(p) BY DEF MineTx, RevertTx, Fell
  <2>5. \E n \in op[p].marks : DeliverMark(p, n) BY <1>4, <2>1, <2>2, <2>3, <2>4 DEF StepOf
  <2> QED BY <2>5, MarkEffect, TxEffect DEF Fell, Same
<1> QED BY <1>1, <1>2, <1>3, <1>4, NextCases DEF Fell

LEMMA GoneStays ==
  ASSUME TypeOK, TxFollowsCall, [Next]_vars, NEW n, Gone(n)
  PROVE  Gone(n)'
<1>1. Nullified \subseteq Nullified' BY TxFollowsStep DEF Nullified, Mined, Same
<1>2. CASE n.secret \in Nullified BY <1>1, <1>2 DEF Gone
<1>3. CASE \E p \in Ops : Fell(p) /\ op[p].out = n
  <2>1. PICK p \in Ops : Fell(p) /\ op[p].out = n BY <1>3
  <2>2. Fell(p)' /\ op'[p].out = n BY <2>1, FellStays
  <2> QED BY <2>2 DEF Gone
<1> QED BY <1>2, <1>3 DEF Gone

LEMMA HiddenStep ==
  ASSUME HiddenInv, ~ RpcMayFail, [Next]_vars
  PROVE  HiddenIsGone'
<1>0. StoresOK /\ \A n : Gone(n) => Gone(n)' BY GoneStays DEF HiddenInv, TypeOK
<1>1. CASE UNCHANGED local BY <1>0, <1>1 DEF HiddenInv, HiddenIsGone
<1>2. ASSUME NEW d \in Devices, NEW s, local' = [local EXCEPT ![d] = s],
             \A n \in DOMAIN s : s[n] = "true" => HasStatus(local[d], n, "true") \/ Gone(n)'
      PROVE  HiddenIsGone'
  BY <1>0, <1>2 DEF HiddenInv, HiddenIsGone, HasStatus, StoresOK
<1>3. ASSUME NEW o \in Ops, op[o].pc # "idle", NEW s, SetStore(o, s),
             \A n \in DOMAIN s : s[n] = "true" => HasStatus(Store(o), n, "true") \/ Gone(n)'
      PROVE  HiddenIsGone'
  <2>1. op[o].dev \in Devices BY <1>3 DEF HiddenInv, TypeOK, CallsOK, IsCall
  <2> QED BY <1>2, <1>3, <2>1 DEF SetStore, Store
\* Rows are marked only of notes that are gone.
<1>4. ASSUME NEW o \in Ops, op[o].pc # "idle", NEW N, \A n \in N : Gone(n)',
             SetStore(o, MarkAll(Store(o), N, "true"))
      PROVE  HiddenIsGone'
  <2>1. \A n \in DOMAIN MarkAll(Store(o), N, "true") :
          MarkAll(Store(o), N, "true")[n] = "true" => HasStatus(Store(o), n, "true") \/ Gone(n)'
    BY <1>4 DEF MarkAll, HasStatus
  <2> QED BY <1>3, <1>4, <2>1
<1>5. ASSUME NEW o \in Ops, NEW d \in Devices, NEW a, BeginDeposit(o, d, a)
      PROVE  HiddenIsGone'
  <2> DEFINE s == Put(local[d], NewNote(FreshSecret(o), a), "pending")
  <2>1. local' = [local EXCEPT ![d] = s] BY <1>5 DEF BeginDeposit
  <2>2. \A n \in DOMAIN s : s[n] = "true" => HasStatus(local[d], n, "true")
    BY DEF Put, HasStatus
  <2> QED BY <2>1, <2>2, <1>2
<1>6. ASSUME NEW o \in Ops, ConfirmDeposit(o) PROVE HiddenIsGone'
  <2> DEFINE s == Mark(Store(o), op[o].out, "false")
  <2>1. op[o].pc # "idle" /\ SetStore(o, s) BY <1>6 DEF ConfirmDeposit, Goto
  <2>2. \A n \in DOMAIN s : s[n] = "true" => HasStatus(Store(o), n, "true")
    BY DEF Mark, MarkAll, HasStatus
  <2> QED BY <2>1, <2>2, <1>3
<1>7. ASSUME NEW o \in Ops, ConfirmWithdraw(o) PROVE HiddenIsGone'
  <2> DEFINE s == MarkAll(Store(o), op[o].ins, "true")
  <2>1. op[o].pc # "idle" /\ o \in Mined BY <1>7 DEF ConfirmWithdraw, Mined
  <2>2. \A n \in op[o].ins : Gone(n) BY <2>1 DEF Gone, Nullified, Secrets
  <2>3. \A n \in DOMAIN s : s[n] = "true" => HasStatus(Store(o), n, "true") \/ Gone(n)'
    BY <2>2, <1>0 DEF MarkAll, HasStatus
  <2>4. \A n \in DOMAIN Mark(s, op[o].out, "false") :
          Mark(s, op[o].out, "false")[n] = "true" => n \in DOMAIN s /\ s[n] = "true"
    BY DEF Mark, MarkAll
  <2>5. SetStore(o, s) \/ SetStore(o, Mark(s, op[o].out, "false"))
    BY <1>7 DEF ConfirmWithdraw
  <2> HIDE DEF s
  <2>6. CASE SetStore(o, s) BY <1>3, <2>1, <2>3, <2>6
  <2>7. CASE SetStore(o, Mark(s, op[o].out, "false")) BY <1>3, <2>1, <2>3, <2>4, <2>7
  <2> QED BY <2>5, <2>6, <2>7
\* Without failing waits the catch blocks are for transactions that never were.
<1>8. ASSUME NEW o \in Ops, FailDeposit(o) \/ FailWithdraw(o) PROVE HiddenIsGone'
  <2>0. IsCall(op[o]) /\ DOMAIN op = Ops BY DEF HiddenInv, TypeOK, CallsOK
  <2>1. op[o].pc # "idle" /\ tx[o] \in {"unsent", "reverted"}
    BY <1>8 DEF FailDeposit, FailWithdraw, Throws, HiddenInv, TypeOK, TxFollowsCall, TxStatus,
                Final
  <2>2. op'[o].pc = "failed" /\ op'[o].out = op[o].out /\ tx' = tx
    BY <1>8, <2>0 DEF FailDeposit, FailWithdraw, IsCall
  <2>3. \A n \in {op[o].out} : Gone(n)' BY <2>1, <2>2 DEF Gone, Fell
  <2>4. \/ SetStore(o, Store(o))
        \/ SetStore(o, MarkAll(Store(o), {op[o].out}, "true"))
    BY <1>8 DEF FailDeposit, FailWithdraw, Mark
  <2> QED BY <2>1, <2>3, <2>4, <1>3, <1>4 DEF HasStatus
<1>9. ASSUME NEW o \in Ops, Hydrate(o) PROVE HiddenIsGone'
  <2>1. PICK N : SetStore(o, PutAll(Store(o), N, "false")) BY <1>9 DEF Hydrate
  <2>2. \A n \in DOMAIN PutAll(Store(o), N, "false") :
          PutAll(Store(o), N, "false")[n] = "true" => HasStatus(Store(o), n, "true")
    BY DEF PutAll, HasStatus
  <2>3. op[o].pc # "idle" BY <1>9 DEF Hydrate
  <2> QED BY <1>3, <2>1, <2>2, <2>3
<1>10. ASSUME NEW o \in Ops, Select(o) PROVE HiddenIsGone'
  <2> DEFINE spent == {n \in Listed(o) : n.secret \in Nullified}
  <2>1. op[o].pc # "idle" /\ SetStore(o, MarkAll(Store(o), spent, "true"))
    BY <1>10 DEF Select, SpentReads
  <2>2. \A n \in spent : Gone(n)' BY <1>0 DEF Gone
  <2> HIDE DEF spent
  <2> QED BY <1>4, <2>1, <2>2
<1>11. ASSUME NEW o \in Ops, PreWriteChange(o) PROVE HiddenIsGone'
  <2> DEFINE s == Put(Store(o), op[o].out, PreTxStatus)
  <2>1. \A n \in DOMAIN s : s[n] = "true" => HasStatus(Store(o), n, "true")
    BY DEF Put, HasStatus, PreTxStatus
  <2>2. op[o].pc # "idle" BY <1>11 DEF PreWriteChange, Goto
  <2> HIDE DEF s
  <2>3. SetStore(o, s) \/ UNCHANGED local BY <1>11 DEF PreWriteChange, s
  <2> QED BY <1>1, <1>3, <2>1, <2>2, <2>3
<1>12. \/ UNCHANGED local
       \/ \E o \in Ops, d \in Devices, a \in Amounts : BeginDeposit(o, d, a)
       \/ \E o \in Ops : \/ ConfirmDeposit(o) \/ ConfirmWithdraw(o)
                        \/ FailDeposit(o) \/ FailWithdraw(o)
                        \/ Hydrate(o) \/ Select(o) \/ PreWriteChange(o)
  BY DEF Next, vars, Begin, BeginWithdraw, Deposit, PostDeposit, Withdraw, HydrateFails,
         ClaimFromPool, ClaimFails, AbandonWithdraw, PostChange, ResolvePool, DeliverMark,
         SendTx, MineTx, RevertTx, CloseTab, RefillPool
<1> QED BY <1>1, <1>5, <1>6, <1>7, <1>8, <1>9, <1>10, <1>11, <1>12

\* If no wait for a receipt fails, then whatever requests to the server or writes fail and
\* tabs close, a leaf that can be withdrawn is not hidden on the device that made it, but
\* by a call that made the same note and came to nothing.
THEOREM UnspentShown == ~ RpcMayFail => (Spec => []UnspentNotHidden)
<1> SUFFICES ASSUME ~ RpcMayFail PROVE Spec => []UnspentNotHidden
  OBVIOUS
<1>1. Init => HiddenInv
  BY TypeInit DEF Init, HiddenInv, TxFollowsCall, HiddenIsGone, IdleOp, NewCall, EmptyStore
<1>2. HiddenInv /\ [Next]_vars => HiddenInv'
  BY TypeStep, TxFollowsStep, HiddenStep DEF HiddenInv
<1>3. ASSUME HiddenInv PROVE UnspentNotHidden
  <2> SUFFICES ASSUME NEW o \in Mined, op[o].out \in Unspent,
                      HasStatus(local[op[o].dev], op[o].out, "true")
               PROVE  MadeTwice(o)
    BY DEF UnspentNotHidden
  <2>1. op[o].dev \in Devices
    BY <1>3 DEF HiddenInv, TypeOK, CallsOK, IsCall, TxFollowsCall, Mined, Final
  <2>2. Gone(op[o].out) BY <1>3, <2>1 DEF HiddenInv, HiddenIsGone, HasStatus
  <2>3. PICK p \in Ops : Fell(p) /\ op[p].out = op[o].out BY <2>2 DEF Gone, Unspent
  <2>4. p # o BY <2>3 DEF Fell, Mined
  <2> QED BY <2>3, <2>4 DEF MadeTwice
<1> QED BY <1>1, <1>2, <1>3, PTL DEF Spec

-------------------------------------------------------------------------------
(***************************************************************************)
(* No secret serves twice, when neither the wait for a receipt nor the     *)
(* claim of a pool row just made fails.                                    *)
(***************************************************************************)

\* Where the secret of the output of a call comes from.
SecretOf(o) ==
  IF op[o].kind = "deposit" THEN FreshSecret(o)
  ELSE IF op[o].pool = None THEN DerivedSecret(Secrets(op[o].ins))
  ELSE PoolSecret(op[o].pool)

HasOutput(o) == op[o].pc \in {"claimed", "prewritten"} \/ tx[o] # "unsent"

\* A call that takes inputs has at least one: the amount is not zero.  A call that
\* ended in its catch block will never be mined.
Shape(o) ==
  /\ op[o].pc # "idle" => op[o].kind \in {"deposit", "withdraw"}
  /\ op[o].pc \in {"scanned", "hydrated", "selected", "claimed"}
       => op[o].kind = "withdraw" /\ op[o].amount \in Amounts
  /\ op[o].kind = "deposit" => op[o].pool = None
  /\ op[o].pc \in {"idle", "scanned", "hydrated", "selected"} => op[o].pool = None
  /\ op[o].pc = "selected" => op[o].ins # {}
  /\ HasOutput(o) => op[o].out.secret = SecretOf(o)
  /\ HasOutput(o) /\ op[o].kind = "withdraw" => op[o].ins # {}
  /\ op[o].pc = "failed" => tx[o] \in {"unsent", "reverted"}

CallShape == \A o \in Ops : Shape(o)

\* A row held is out of the pool, and held by one call.
PoolExclusive ==
  /\ \A o \in Ops : Holds(o) => pool[op[o].pool] \in {"in_use", "resolved"}
  /\ \A o, p \in Ops : Holds(o) /\ Holds(p) /\ op[o].pool = op[p].pool => o = p

\* The vault never takes a nullifier twice.
InputsDisjoint ==
  \A o, p \in Mined : o # p => Secrets(op[o].ins) \cap Secrets(op[p].ins) = {}

SecretInv == TypeOK /\ TxFollowsCall /\ CallShape /\ PoolExclusive /\ InputsDisjoint

\* The value of a set of notes, as a sum over any set of notes it is part of.
LEMMA ValueIsSum ==
  ASSUME NEW L, IsFiniteSet(L), NEW N \in SUBSET L
  PROVE  Value(N) = SumFunctionOnSet([n \in L |-> n.amount], N)
<1>1. IsFiniteSet(N) BY FS_Subset
<1>2. SumFunctionOnSet([n \in N |-> n.amount], N) = SumFunctionOnSet([n \in L |-> n.amount], N)
  BY <1>1, SumSame
<1> QED BY <1>2 DEF Value, SumFunction

LEMMA ValueEmpty == Value({}) = 0
BY SumEmpty DEF Value, SumFunction

LEMMA ShapeStep ==
  ASSUME SecretInv, ~ RpcMayFail, [Next]_vars
  PROVE  CallShape'
<1>0. /\ \A o \in Ops : IsCall(op[o]) /\ Shape(o)
      /\ DOMAIN op = Ops /\ TypeOK /\ TxFollowsCall
  BY DEF SecretInv, TypeOK, CallsOK, CallShape
<1>1. ASSUME NEW o \in Ops, op'[o] = op[o], tx'[o] = tx[o] PROVE Shape(o)'
  BY <1>0, <1>1 DEF Shape, HasOutput, SecretOf
<1>2. CASE UNCHANGED vars BY <1>1, <1>2 DEF vars, CallShape
<1>3. CASE \E k \in PoolIds : RefillPool(k) BY <1>1, <1>3 DEF RefillPool, CallShape
<1>4. ASSUME NEW o \in Ops, StepOf(o) PROVE CallShape'
  <2>1. \A p \in Ops \ {o} : op'[p] = op[p] /\ tx'[p] = tx[p]
    <3>1. Others(o) \/ UNCHANGED op
      BY <1>0, <1>4, BeginEffect, MoveEffect, SelectEffect, ClaimedEffect, MarkEffect, TxEffect
         DEF StepOf, ClaimFromPool, ClaimFails
    <3>2. \A p \in Ops \ {o} : tx'[p] = tx[p]
      BY <1>0, <1>4, TxEffect DEF StepOf, MineTx, RevertTx, SendTx, TypeOK
    <3> QED BY <3>1, <3>2 DEF Others
  <2>2. CASE Begin(o)
    <3>1. tx[o] = "unsent" /\ UNCHANGED tx
      BY <1>0, <2>2, BeginEffect, TxEffect DEF TxFollowsCall, TypeOK
    <3>2. Shape(o)'
      BY <1>0, <2>2, <3>1, BeginEffect DEF Shape, HasOutput, SecretOf
    <3> QED BY <1>1, <2>1, <3>2 DEF CallShape
  <2>3. CASE Moves(o)
    <3>1. Same(op'[o], op[o]) BY <1>0, <2>3, MoveEffect
    <3>2. \/ op[o].pc = "prewritten" /\ op'[o].pc = "sent"
          \/ tx'[o] = tx[o]
      BY <1>0, <2>3, TxEffect DEF SendTx, Goto, IsCall
    <3>3. HasOutput(o)' => HasOutput(o)
      BY <1>0, <2>3, <3>2, MovePc DEF HasOutput
    <3>4. op'[o].pc = "failed" => tx'[o] \in {"unsent", "reverted"}
      <4>1. CASE op'[o].pc = "failed" /\ op[o].pc \in {"prewritten", "claimed"}
        BY <1>0, <3>2, <4>1 DEF TxFollowsCall, TypeOK
      <4>2. CASE op'[o].pc = "failed" /\ op[o].pc = "sent"
        <5>1. FailDeposit(o) \/ FailWithdraw(o)
          BY <1>0, <2>3, <4>2 DEF Moves, Deposit, ConfirmDeposit, PostDeposit, SendTx,
             CloseTab, Hydrate, HydrateFails, PreWriteChange, AbandonWithdraw,
             ConfirmWithdraw, PostChange, ResolvePool, Goto, IsCall
        <5> QED BY <4>2, <5>1 DEF FailDeposit, FailWithdraw, Throws
      <4> QED BY <1>0, <2>3, <4>1, <4>2, MovePc
    <3>5. SecretOf(o)' = SecretOf(o) BY <3>1 DEF SecretOf, Same
    <3>6. Shape(o)'
      BY <1>0, <2>3, <3>1, <3>3, <3>4, <3>5, MovePc DEF Shape, Same
    <3> QED BY <1>1, <2>1, <3>6 DEF CallShape
  <2>4. CASE Select(o)
    <3>1. tx[o] = "unsent" /\ UNCHANGED tx
      BY <1>0, <2>4, SelectEffect, TxEffect DEF TxFollowsCall, TypeOK
    <3>2. op[o].amount \in Nat \ {0}
      BY <1>0, <2>4, SelectEffect, AmountsAssumption DEF Shape
    <3>3. op'[o].pc = "selected" => op'[o].ins # {}
      BY <1>0, <2>4, <3>2, SelectEffect, ValueEmpty
    <3>4. Shape(o)'
      BY <1>0, <2>4, <3>1, <3>3, SelectEffect DEF Shape, HasOutput, SecretOf
    <3> QED BY <1>1, <2>1, <3>4 DEF CallShape
  <2>5. CASE (\E k \in PoolIds : ClaimFromPool(o, k)) \/ ClaimFails(o)
    <3>1. PICK s, k : /\ Claimed(o, s, k)
                      /\ \/ k = None /\ s = DerivedSecret(Secrets(op[o].ins))
                         \/ k \in PoolIds /\ s = PoolSecret(k)
      BY <2>5 DEF ClaimFromPool, ClaimFails
    <3>2. op[o].pc = "selected" /\ UNCHANGED tx BY <2>5 DEF ClaimFromPool, ClaimFails
    <3>3. tx[o] = "unsent" BY <1>0, <3>2 DEF TxFollowsCall, TypeOK
    <3>4. op[o].kind = "withdraw" /\ op[o].amount \in Amounts /\ op[o].ins # {}
      BY <1>0, <3>2 DEF Shape
    <3>5. op'[o].out.secret = SecretOf(o)'
      BY <1>0, <3>1, <3>4, ClaimedEffect, PoolIdsAssumption DEF SecretOf
    <3>6. Shape(o)'
      BY <1>0, <3>1, <3>2, <3>3, <3>4, <3>5, ClaimedEffect DEF Shape
    <3> QED BY <1>1, <2>1, <3>6 DEF CallShape
  <2>6. CASE MineTx(o) \/ RevertTx(o)
    <3>1. UNCHANGED op /\ tx[o] = "pending" BY <2>6 DEF MineTx, RevertTx
    <3>2. Shape(o)' BY <1>0, <3>1 DEF Shape, HasOutput, SecretOf
    <3> QED BY <1>1, <2>1, <3>2 DEF CallShape
  <2>7. CASE \E n \in op[o].marks : DeliverMark(o, n)
    <3>1. op'[o].pc = op[o].pc /\ Same(op'[o], op[o]) /\ UNCHANGED tx
      BY <1>0, <2>7, MarkEffect, TxEffect
    <3>2. SecretOf(o)' = SecretOf(o) BY <3>1 DEF SecretOf, Same
    <3>3. Shape(o)' BY <1>0, <3>1, <3>2 DEF Shape, HasOutput, Same
    <3> QED BY <1>1, <2>1, <3>3 DEF CallShape
  <2> QED BY <1>4, <2>2, <2>3, <2>4, <2>5, <2>6, <2>7 DEF StepOf
<1> QED BY <1>2, <1>3, <1>4, NextCases

\* A call comes to hold a pool row only by claiming it.
LEMMA HoldsShrink ==
  ASSUME SecretInv, [Next]_vars, NEW o \in Ops,
         ~ \E k \in PoolIds : ClaimFromPool(o, k), Holds(o)'
  PROVE  Holds(o) /\ op'[o].pool = op[o].pool
<1>0. TypeOK /\ TxFollowsCall /\ Shape(o) BY DEF SecretInv, CallShape
<1>1. CASE UNCHANGED vars BY <1>1 DEF vars, Holds
<1>2. CASE \E k \in PoolIds : RefillPool(k) BY <1>2 DEF RefillPool, Holds
<1>3. ASSUME NEW p \in Ops \ {o}, StepOf(p)
      PROVE  op'[o] = op[o]
  BY <1>0, <1>3, BeginEffect, MoveEffect, SelectEffect, ClaimedEffect, MarkEffect, TxEffect
     DEF StepOf, ClaimFromPool, ClaimFails, Others
<1>4. CASE StepOf(o)
  <2>1. ~ Begin(o) BY <1>0, BeginEffect DEF Holds
  <2>2. ~ Select(o) BY <1>0, SelectEffect DEF Holds, Shape
  <2>3. ~ ClaimFails(o) BY <1>0, ClaimedEffect DEF ClaimFails, Holds
  <2>4. CASE Moves(o)
    BY <1>0, <2>4, MoveEffect, MovePc DEF Same, Holds
  <2>5. CASE MineTx(o) \/ RevertTx(o) BY <1>0, <2>5, TxEffect DEF Holds
  <2>6. CASE \E n \in op[o].marks : DeliverMark(o, n)
    BY <1>0, <2>6, MarkEffect DEF Same, Holds
  <2> QED BY <1>4, <2>1, <2>2, <2>3, <2>4, <2>5, <2>6 DEF StepOf
<1> QED BY <1>1, <1>2, <1>3, <1>4, NextCases DEF Holds

\* What a step does to the pool.
LEMMA PoolEffect ==
  ASSUME SecretInv, ~ RpcMayFail, ~ ClaimMayFail, [Next]_vars, NEW k \in PoolIds
  PROVE  \/ pool'[k] = pool[k]
         \/ pool[k] \in {"none", "pending"} /\ pool'[k] \in {"pending", "in_use"}
         \/ \E o \in Ops : op[o].pool = k /\ pool'[k] = "resolved"
         \/ \E o \in Ops : /\ op[o].pool = k /\ Holds(o)
                           /\ op'[o].pc = "failed" /\ tx[o] \in {"unsent", "reverted"}
<1>0. /\ TypeOK /\ TxFollowsCall /\ DOMAIN pool = PoolIds /\ DOMAIN op = Ops
      /\ \A o \in Ops : IsCall(op[o])
  BY DEF SecretInv, TypeOK, CallsOK
<1>1. CASE UNCHANGED pool BY <1>1
<1>2. CASE \E j \in PoolIds : RefillPool(j) BY <1>0, <1>2 DEF RefillPool
<1>3. ASSUME NEW o \in Ops, ClaimFails(o) \/ \E j \in PoolIds : ClaimFromPool(o, j)
      PROVE  \/ pool'[k] = pool[k]
             \/ pool[k] \in {"none", "pending"} /\ pool'[k] \in {"pending", "in_use"}
  BY <1>0, <1>3 DEF ClaimFails, ClaimFromPool, LostRows, Take
<1>4. ASSUME NEW o \in Ops, ResolvePool(o), pool'[k] # pool[k]
      PROVE  op[o].pool = k /\ pool'[k] = "resolved"
  BY <1>4 DEF ResolvePool, PatchPool
<1>5. ASSUME NEW o \in Ops, FailWithdraw(o), pool'[k] # pool[k]
      PROVE  /\ op[o].pool = k /\ Holds(o)
             /\ op'[o].pc = "failed" /\ tx[o] \in {"unsent", "reverted"}
  <2>1. op[o].pool = k BY <1>5 DEF FailWithdraw, PatchPool
  <2>2. op[o].pc = "prewritten" \/ (op[o].pc = "sent" /\ tx[o] = "reverted")
    BY <1>5 DEF FailWithdraw, Throws
  <2>3. op'[o].pc = "failed" BY <1>0, <1>5 DEF FailWithdraw, IsCall
  <2> QED BY <1>0, <2>1, <2>2, <2>3, PoolIdsAssumption DEF Holds, TxFollowsCall, TypeOK
<1>6. \/ UNCHANGED pool
      \/ \E j \in PoolIds : RefillPool(j)
      \/ \E o \in Ops : \/ ClaimFails(o) \/ \E j \in PoolIds : ClaimFromPool(o, j)
                       \/ ResolvePool(o) \/ FailWithdraw(o)
  BY DEF Next, vars, Begin, BeginDeposit, BeginWithdraw, Deposit, ConfirmDeposit,
         PostDeposit, FailDeposit, Withdraw, Hydrate, HydrateFails, Select,
         PreWriteChange, AbandonWithdraw, ConfirmWithdraw, PostChange, DeliverMark,
         SendTx, MineTx, RevertTx, CloseTab
<1> QED BY <1>1, <1>2, <1>3, <1>4, <1>5, <1>6

LEMMA ExclusiveStep ==
  ASSUME SecretInv, ~ RpcMayFail, ~ ClaimMayFail, [Next]_vars
  PROVE  PoolExclusive'
<1>0. /\ TypeOK /\ PoolExclusive /\ DOMAIN pool = PoolIds
      /\ \A o \in Ops : op[o].pool \in PoolIds \cup {None}
  BY DEF SecretInv, TypeOK, CallsOK, IsCall
<1>1. CASE \A o \in Ops : ~ \E k \in PoolIds : ClaimFromPool(o, k)
  <2>1. \A o \in Ops : Holds(o)' => Holds(o) /\ op'[o].pool = op[o].pool
    BY <1>1, HoldsShrink
  <2>2. ASSUME NEW o \in Ops, Holds(o)'
        PROVE  pool'[op'[o].pool] \in {"in_use", "resolved"}
    <3> DEFINE k == op[o].pool
    <3>1. Holds(o) /\ op'[o].pool = k /\ k \in PoolIds
      BY <1>0, <2>1, <2>2 DEF Holds
    <3>2. pool[k] \in {"in_use", "resolved"} BY <1>0, <3>1 DEF PoolExclusive
    <3>3. op'[o].pc # "failed" BY <2>2 DEF Holds
    <3>4. \A p \in Ops : Holds(p) /\ op[p].pool = k => p = o
      BY <1>0, <3>1 DEF PoolExclusive
    <3> HIDE DEF k
    <3> QED BY <3>1, <3>2, <3>3, <3>4, PoolEffect
  <2> QED BY <1>0, <2>1, <2>2 DEF PoolExclusive
<1>2. ASSUME NEW o \in Ops, NEW k \in PoolIds, ClaimFromPool(o, k)
      PROVE  PoolExclusive'
  <2>1. /\ pool[k] \in {"none", "pending"} /\ pool'[k] = "in_use"
        /\ \A j \in PoolIds : pool'[j] \in {pool[j], "in_use"}
    BY <1>0, <1>2 DEF ClaimFromPool, LostRows, Take
  <2>2. \A p \in Ops : Holds(p) => op[p].pool # k
    BY <1>0, <2>1 DEF PoolExclusive
  <2>3. Others(o) /\ op'[o].pool \in {k, None}
    BY <1>0, <1>2, ClaimedEffect DEF ClaimFromPool
  <2>4. \A p \in Ops \ {o} : Holds(p)' => Holds(p) /\ op'[p].pool = op[p].pool
    BY <2>3 DEF Others, Holds
  <2> QED BY <1>0, <2>1, <2>2, <2>3, <2>4 DEF PoolExclusive, Holds
<1> QED BY <1>1, <1>2

LEMMA DisjointStep ==
  ASSUME SecretInv, [Next]_vars
  PROVE  InputsDisjoint'
<1>0. TypeOK /\ TxFollowsCall /\ InputsDisjoint BY DEF SecretInv
<1>1. \A o \in Ops : tx[o] = "mined" => op'[o].ins = op[o].ins
  BY <1>0, TxFollowsStep DEF Same
<1>2. CASE Mined' \subseteq Mined
  BY <1>0, <1>1, <1>2 DEF InputsDisjoint, Mined, Secrets
<1>3. ASSUME NEW o \in Ops, MineTx(o) PROVE InputsDisjoint'
  <2>1. Mined' = Mined \cup {o} /\ UNCHANGED op
    BY <1>0, <1>3 DEF MineTx, Mined, TypeOK
  <2>2. \A p \in Mined : Secrets(op[o].ins) \cap Secrets(op[p].ins) = {}
    BY <1>3 DEF MineTx, Accepts, Nullified
  <2> QED BY <1>0, <2>1, <2>2 DEF InputsDisjoint
<1>4. Mined' \subseteq Mined \/ \E o \in Ops : MineTx(o)
  <2>1. CASE UNCHANGED tx BY <2>1 DEF Mined
  <2>2. ASSUME NEW o \in Ops, SendTx(o) \/ RevertTx(o) PROVE Mined' \subseteq Mined
    BY <1>0, <2>2 DEF SendTx, RevertTx, Mined, TypeOK
  <2>3. UNCHANGED tx \/ \E o \in Ops : SendTx(o) \/ RevertTx(o) \/ MineTx(o)
    BY <1>0, NextCases, TxEffect DEF vars, StepOf, RefillPool, ClaimFromPool
  <2> QED BY <2>1, <2>2, <2>3
<1> QED BY <1>2, <1>3, <1>4

LEMMA SecretStep ==
  SecretInv /\ ~ RpcMayFail /\ ~ ClaimMayFail /\ [Next]_vars => SecretInv'
BY TypeStep, TxFollowsStep, ShapeStep, ExclusiveStep, DisjointStep DEF SecretInv

LEMMA SecretInit == Init => SecretInv
<1> SUFFICES ASSUME Init PROVE SecretInv
  OBVIOUS
<1>1. TypeOK BY TypeInit
<1>2. CallShape BY DEF Init, CallShape, Shape, HasOutput, IdleOp, NewCall
<1>3. PoolExclusive BY DEF Init, PoolExclusive, Holds, IdleOp, NewCall
<1> QED BY <1>1, <1>2, <1>3 DEF Init, SecretInv, TxFollowsCall, InputsDisjoint, Mined,
                                IdleOp, NewCall

\* The call whose transaction carries the secret of a pool row holds that row.
LEMMA CarrierHolds ==
  ASSUME SecretInv, NEW o \in Ops, tx[o] \in {"pending", "mined"}, NEW k \in PoolIds,
         op[o].out.secret = PoolSecret(k)
  PROVE  Holds(o) /\ op[o].pool = k
<1>1. Shape(o) /\ HasOutput(o) BY DEF SecretInv, CallShape, HasOutput
<1>2. SecretOf(o) = PoolSecret(k) BY <1>1 DEF Shape
<1>3. op[o].pool = k /\ op[o].pool # None
  BY <1>2, PoolIdsAssumption DEF SecretOf, FreshSecret, DerivedSecret, PoolSecret
<1>4. op[o].pc # "failed" BY <1>1 DEF Shape
<1> QED BY <1>3, <1>4 DEF Holds

LEMMA SecretsDiffer == SecretInv => LeafSecretsDiffer
<1> SUFFICES ASSUME SecretInv, NEW o \in Mined, NEW p \in Mined,
                    op[o].out.secret = op[p].out.secret
             PROVE  o = p
  BY DEF LeafSecretsDiffer
<1>0. o \in Ops /\ p \in Ops /\ tx[o] = "mined" /\ tx[p] = "mined" BY DEF Mined
<1>1. Shape(o) /\ Shape(p) /\ HasOutput(o) /\ HasOutput(p)
  BY <1>0 DEF SecretInv, CallShape, HasOutput
<1>2. SecretOf(o) = SecretOf(p) BY <1>1 DEF Shape
<1>3. op[o].kind \in {"deposit", "withdraw"} /\ op[p].kind \in {"deposit", "withdraw"}
  BY <1>0, <1>1 DEF SecretInv, TxFollowsCall, Shape
<1>4. CASE SecretOf(o) = FreshSecret(o)
  BY <1>2, <1>4 DEF SecretOf, FreshSecret, DerivedSecret, PoolSecret
<1>5. CASE \E k : SecretOf(o) = PoolSecret(k) /\ op[o].pool = k /\ k # None
  <2>1. op[p].pool = op[o].pool
    BY <1>2, <1>5 DEF SecretOf, FreshSecret, DerivedSecret, PoolSecret
  <2>2. Holds(o) /\ Holds(p) BY <1>0, <1>1, <1>5, <2>1 DEF Holds, Shape
  <2> QED BY <1>0, <2>1, <2>2 DEF SecretInv, PoolExclusive
<1>6. CASE SecretOf(o) = DerivedSecret(Secrets(op[o].ins)) /\ op[o].kind = "withdraw"
  <2>1. Secrets(op[p].ins) = Secrets(op[o].ins)
    BY <1>2, <1>6 DEF SecretOf, FreshSecret, DerivedSecret, PoolSecret
  <2>2. Secrets(op[o].ins) # {} BY <1>1, <1>6 DEF Shape, Secrets
  <2> QED BY <2>1, <2>2 DEF SecretInv, InputsDisjoint
<1> QED BY <1>3, <1>4, <1>5, <1>6 DEF SecretOf

\* If neither the wait for a receipt nor the claim of a row just made fails, tabs and
\* devices that claim, use, lose and give back pool rows in any order never put one
\* nullifier in two leaves, however often requests to the server fail.
THEOREM LeavesDiffer ==
  ~ RpcMayFail /\ ~ ClaimMayFail => (Spec => []LeafSecretsDiffer)
<1> SUFFICES ASSUME ~ RpcMayFail, ~ ClaimMayFail PROVE Spec => []LeafSecretsDiffer
  OBVIOUS
<1>1. SecretInv /\ [Next]_vars => SecretInv' BY SecretStep
<1> QED BY SecretInit, <1>1, SecretsDiffer, PTL DEF Spec

\* Under the same condition a pool row goes back to the pool only while no sent
\* transaction carries its secret.
THEOREM ReleasedUnused ==
  ~ RpcMayFail /\ ~ ClaimMayFail => (Spec => ReleasedIsUnused)
<1> SUFFICES ASSUME ~ RpcMayFail, ~ ClaimMayFail PROVE Spec => ReleasedIsUnused
  OBVIOUS
<1> DEFINE Released(k) == pool[k] # "pending" /\ pool'[k] = "pending"
           Step == \A k \in PoolIds : Released(k) => PoolSecret(k) \notin UsedSecrets
<1>1. SecretInv /\ [Next]_vars => SecretInv' BY SecretStep
<1>2. SecretInv /\ [Next]_vars => Step
  <2> SUFFICES ASSUME SecretInv, [Next]_vars, NEW k \in PoolIds, Released(k),
                      NEW p \in Ops, tx[p] \in {"pending", "mined"},
                      op[p].out.secret = PoolSecret(k)
               PROVE  FALSE
    BY DEF UsedSecrets, Secrets
  <2>1. Holds(p) /\ op[p].pool = k BY CarrierHolds
  <2>2. pool[k] \in {"in_use", "resolved"} BY <2>1 DEF SecretInv, PoolExclusive
  <2>3. PICK o \in Ops : op[o].pool = k /\ Holds(o) /\ tx[o] \in {"unsent", "reverted"}
    BY <2>2, PoolEffect
  <2>4. o = p BY <2>1, <2>3 DEF SecretInv, PoolExclusive
  <2> QED BY <2>3, <2>4
<1>3. Spec => [][Step]_vars
  <2> HIDE DEF Step
  <2> QED BY SecretInit, <1>1, <1>2, PTL DEF Spec
<1> QED BY <1>3 DEF ReleasedIsUnused

-------------------------------------------------------------------------------
(***************************************************************************)
(* Calls keep the contract of the pool.                                    *)
(***************************************************************************)
Holders(k) == {o \in Ops : Holds(o) /\ op[o].pool = k}
Carriers(k) == {o \in Mined : op[o].pool = k}

\* A row of the pool: one call has it at most, and then it is not on offer.
RowSound(k) ==
  /\ Carriers(k) \subseteq Holders(k) /\ \A o, p \in Holders(k) : o = p
  /\ Holders(k) # {} => pool[k] # "pending"

LEMMA RowsSound ==
  ASSUME SecretInv, NEW k \in PoolIds
  PROVE  RowSound(k)
<1>1. Carriers(k) \subseteq Holders(k)
  BY PoolIdsAssumption DEF Carriers, Holders, Holds, Mined, SecretInv, CallShape, Shape
<1> QED BY <1>1 DEF RowSound, Holders, SecretInv, PoolExclusive

\* Of two states of a row, with its holders and carriers: what the contract asks.
LEMMA SeenKeepsTerms ==
  ASSUME NEW offered \in BOOLEAN, NEW offered2 \in BOOLEAN,
         NEW U \in SUBSET Ops, NEW U2 \in SUBSET Ops, NEW M, NEW M2,
         M \subseteq U, \A o, p \in U : o = p, U # {} => ~ offered,
         M2 \subseteq U2, \A o, p \in U2 : o = p, U2 # {} => ~ offered2,
         M \subseteq M2, ~ (U2 \subseteq U) => U = {} /\ M2 = {}
  PROVE  Contract!RowStep([offered |-> offered, by |-> U, carried |-> M # {}],
                          [offered |-> offered2, by |-> U2, carried |-> M2 # {}])
<1> DEFINE old == [offered |-> offered, by |-> U, carried |-> M # {}]
           new == [offered |-> offered2, by |-> U2, carried |-> M2 # {}]
<1> USE DEF Contract!RowStep
<1>1. ASSUME U = {}, U2 = {} PROVE Contract!RowStep(old, new)
  <2>1. ~ (M # {}) /\ ~ (M2 # {}) BY <1>1
  <2>2. old = [offered |-> offered, by |-> {}, carried |-> FALSE]
    BY <1>1, <2>1
  <2>3. new = [offered |-> offered2, by |-> {}, carried |-> FALSE]
    BY <1>1, <2>1
  <2> QED BY <2>2, <2>3 DEF Contract!Offer, Contract!Free
<1>2. ASSUME U = {}, NEW o \in U2 PROVE Contract!RowStep(old, new)
  <2>1. ~ (M # {}) /\ ~ (M2 # {}) /\ U2 = {o} /\ ~ offered2 BY <1>2
  <2>2. old = [offered |-> offered, by |-> {}, carried |-> FALSE]
    BY <1>2, <2>1
  <2>3. new = [offered |-> FALSE, by |-> {o}, carried |-> FALSE]
    BY <2>1
  <2> QED BY <2>2, <2>3 DEF Contract!Lend, Contract!Free, Contract!Held
<1>3. ASSUME NEW o \in U, U2 = {} PROVE Contract!RowStep(old, new)
  <2>1. ~ (M # {}) /\ ~ (M2 # {}) /\ U = {o} /\ ~ offered BY <1>3
  <2>2. old = [offered |-> FALSE, by |-> {o}, carried |-> FALSE] BY <2>1
  <2>3. new = [offered |-> offered2, by |-> {}, carried |-> FALSE] BY <1>3, <2>1
  <2> QED BY <2>2, <2>3 DEF Contract!Return, Contract!Free, Contract!Held
<1>4. ASSUME NEW o \in U, U2 # {} PROVE Contract!RowStep(old, new)
  <2>1. U = {o} /\ U2 = {o} /\ ~ offered /\ ~ offered2 BY <1>4
  <2>2. old = [offered |-> FALSE, by |-> {o}, carried |-> M # {}] BY <2>1
  <2>3. new = [offered |-> FALSE, by |-> {o}, carried |-> M2 # {}] BY <2>1
  <2>4. M # {} => M2 # {} OBVIOUS
  <2> QED BY <2>2, <2>3, <2>4 DEF Contract!Carry, Contract!Held
<1> QED BY <1>1, <1>2, <1>3, <1>4

LEMMA RowKeepsTerms ==
  ASSUME SecretInv, [Next]_vars, NEW k \in PoolIds, RowSound(k), RowSound(k)'
  PROVE  Contract!RowStep(View(k), View(k)')
<1>0. TypeOK /\ TxFollowsCall /\ PoolExclusive BY DEF SecretInv
<1>1. Carriers(k) \subseteq Carriers(k)'
  BY <1>0, TxFollowsStep DEF Carriers, Mined, Same
<1>2. ASSUME NEW o \in Holders(k)', o \notin Holders(k)
      PROVE  Holders(k) = {} /\ Carriers(k)' = {}
  <2>1. o \in Ops /\ Holds(o)' /\ op'[o].pool = k /\ ~ (Holds(o) /\ op[o].pool = k)
    BY <1>2 DEF Holders
  <2>2. PICK j \in PoolIds : ClaimFromPool(o, j) BY <2>1, HoldsShrink
  <2>3. j = k
    <3>1. op'[o].pool \in {j, None} BY <1>0, <2>1, <2>2, ClaimedEffect DEF ClaimFromPool
    <3> QED BY <2>1, <3>1, PoolIdsAssumption
  <2>4. pool[k] \in {"none", "pending"} \/ pool[k] = "none"
    BY <2>2, <2>3 DEF ClaimFromPool
  <2>5. Holders(k) = {} BY <1>0, <2>4 DEF PoolExclusive, Holders
  <2>6. \A p \in Carriers(k)' : p = o BY <1>2 DEF RowSound
  <2>7. tx'[o] = tx[o] /\ tx[o] = "unsent"
    BY <1>0, <2>1, <2>2 DEF ClaimFromPool, TxFollowsCall, TypeOK
  <2> QED BY <2>5, <2>6, <2>7 DEF Carriers, Mined
<1> DEFINE offered == pool[k] = "pending"
           U == Holders(k)
           M == Carriers(k)
<1>3. /\ View(k) = [offered |-> offered, by |-> U, carried |-> M # {}]
      /\ View(k)' = [offered |-> offered', by |-> U', carried |-> M' # {}]
  BY DEF View, Holders, Carriers
<1>4. offered \in BOOLEAN /\ offered' \in BOOLEAN /\ U \in SUBSET Ops /\ U' \in SUBSET Ops
  BY DEF Holders
<1>5. /\ M \subseteq U /\ (\A o, p \in U : o = p) /\ (U # {} => ~ offered)
      /\ M' \subseteq U' /\ (\A o, p \in U' : o = p) /\ (U' # {} => ~ offered')
  BY DEF RowSound
<1>6. M \subseteq M' /\ (~ (U' \subseteq U) => U = {} /\ M' = {}) BY <1>1, <1>2
<1> HIDE DEF offered, U, M
<1> QED BY <1>3, <1>4, <1>5, <1>6, SeenKeepsTerms

\* If neither the wait for a receipt nor the claim of a row just made fails, deposits and
\* withdrawals ask no more of the pool than its contract, which SparePool implements, and
\* keep their side of it: they give a row back only if no note carries its secret.
THEOREM WalletKeepsContract ==
  ~ RpcMayFail /\ ~ ClaimMayFail => (Spec => KeepsContract)
<1> SUFFICES ASSUME ~ RpcMayFail, ~ ClaimMayFail PROVE Spec => KeepsContract
  OBVIOUS
<1> DEFINE AllSound == \A k \in PoolIds : RowSound(k)
           Lent == [k \in PoolIds |-> View(k)]
<1>1. SecretInv => AllSound BY RowsSound
<1>2. SecretInv /\ [Next]_vars => SecretInv' BY SecretStep
<1>3. Init => Contract!Init
  <2> SUFFICES ASSUME Init, NEW k \in PoolIds PROVE View(k) = Contract!Free(FALSE)
    BY DEF Contract!Init
  <2>1. pool[k] = "none" /\ Mined = {} /\ \A o \in Ops : ~ Holds(o)
    BY DEF Init, Mined, Holds, IdleOp, NewCall
  <2> QED BY <2>1 DEF View, Contract!Free
<1>4. SecretInv /\ AllSound /\ AllSound' /\ [Next]_vars => [Contract!Next]_Lent
  <2> SUFFICES ASSUME SecretInv, AllSound, AllSound', [Next]_vars PROVE Contract!Next
    OBVIOUS
  <2>1. \A k \in PoolIds : Contract!RowStep(View(k), View(k)') BY RowKeepsTerms
  <2> QED BY <2>1 DEF Contract!Next
<1> HIDE DEF AllSound
<1> QED BY SecretInit, <1>1, <1>2, <1>3, <1>4, PTL DEF Spec, KeepsContract, Contract!Spec

-------------------------------------------------------------------------------
(***************************************************************************)
(* The wallet implements the ledger.                                       *)
(***************************************************************************)

\* A withdrawal spends leaves it saw, worth at least its amount, and its output is
\* the rest; a deposit spends nothing.
Covered(o) ==
  /\ op[o].pc \in {"scanned", "hydrated"} => op[o].snap \subseteq Mined
  /\ op[o].kind = "deposit" => op[o].ins = {} /\ op[o].out.amount \in Amounts
  /\ op[o].kind = "withdraw" /\ (op[o].pc = "selected" \/ HasOutput(o))
       => /\ op[o].ins \subseteq Leaves /\ op[o].amount \in Amounts
          /\ Value(op[o].ins) >= op[o].amount /\ \A n \in op[o].ins : n.amount > 0
  /\ op[o].kind = "withdraw" /\ HasOutput(o)
       => op[o].out.amount = Value(op[o].ins) - op[o].amount

AllCovered == \A o \in Ops : Covered(o)

LEMMA CoveredStep ==
  ASSUME SecretInv, AllCovered, [Next]_vars
  PROVE  AllCovered'
<1>0. /\ \A o \in Ops : IsCall(op[o]) /\ Shape(o) /\ Covered(o)
      /\ DOMAIN op = Ops /\ TypeOK /\ TxFollowsCall
  BY DEF SecretInv, TypeOK, CallsOK, CallShape, AllCovered
<1>a. Leaves \subseteq Leaves' /\ Mined \subseteq Mined'
  BY <1>0, LeavesGrow, TxFollowsStep DEF Mined
<1>1. ASSUME NEW o \in Ops, op'[o].pc = op[o].pc, op'[o].snap = op[o].snap,
             Same(op'[o], op[o]), tx'[o] = tx[o]
      PROVE  Covered(o)'
  BY <1>0, <1>a, <1>1 DEF Covered, HasOutput, Same
<1>2. CASE UNCHANGED vars BY <1>1, <1>2 DEF vars, AllCovered, Same
<1>3. CASE \E k \in PoolIds : RefillPool(k) BY <1>1, <1>3 DEF RefillPool, AllCovered, Same
<1>4. ASSUME NEW o \in Ops, StepOf(o) PROVE AllCovered'
  <2>1. \A p \in Ops \ {o} : op'[p] = op[p] /\ tx'[p] = tx[p]
    <3>1. Others(o) \/ UNCHANGED op
      BY <1>0, <1>4, BeginEffect, MoveEffect, SelectEffect, ClaimedEffect, MarkEffect, TxEffect
         DEF StepOf, ClaimFromPool, ClaimFails
    <3>2. \A p \in Ops \ {o} : tx'[p] = tx[p]
      BY <1>0, <1>4, TxEffect DEF StepOf, MineTx, RevertTx, SendTx, TypeOK
    <3> QED BY <3>1, <3>2 DEF Others
  <2>a. Covered(o)' => AllCovered' BY <1>1, <2>1 DEF AllCovered, Same
  <2>2. CASE Begin(o)
    <3>1. tx[o] = "unsent" /\ UNCHANGED tx
      BY <1>0, <2>2, BeginEffect, TxEffect DEF TxFollowsCall, TypeOK
    <3>2. \/ /\ op'[o].kind = "deposit" /\ op'[o].pc = "prewritten"
             /\ op'[o].ins = {} /\ op'[o].out.amount \in Amounts
          \/ /\ op'[o].kind = "withdraw" /\ op'[o].pc = "scanned"
             /\ op'[o].snap = Mined
      BY <1>0, <2>2 DEF Begin, BeginDeposit, BeginWithdraw, NewCall, NewNote
    <3>3. Covered(o)' BY <1>a, <3>1, <3>2 DEF Covered, HasOutput
    <3> QED BY <2>a, <3>3
  <2>3. CASE Moves(o)
    <3>1. Same(op'[o], op[o]) BY <1>0, <2>3, MoveEffect
    <3>2. \/ op[o].pc = "prewritten" /\ op'[o].pc = "sent"
          \/ tx'[o] = tx[o]
      BY <1>0, <2>3, TxEffect DEF SendTx, Goto, IsCall
    <3>3. HasOutput(o)' => HasOutput(o)
      BY <1>0, <2>3, <3>2, MovePc DEF HasOutput
    <3>4. op'[o].pc \in {"scanned", "hydrated"} =>
            op[o].pc = "scanned" /\ op'[o].snap = op[o].snap
      <4>1. CASE Hydrate(o) \/ HydrateFails(o)
        BY <1>0, <4>1 DEF Hydrate, HydrateFails, Goto, IsCall
      <4>2. CASE ~ Hydrate(o) /\ ~ HydrateFails(o)
        BY <1>0, <2>3, <4>2 DEF Moves, Deposit, ConfirmDeposit, PostDeposit, FailDeposit,
           SendTx, CloseTab, PreWriteChange, AbandonWithdraw, ConfirmWithdraw, PostChange,
           ResolvePool, FailWithdraw, Goto, IsCall
      <4> QED BY <4>1, <4>2
    <3>5. op'[o].pc # "selected" BY <1>0, <2>3, MovePc
    <3>6. Covered(o)' BY <1>0, <1>a, <3>1, <3>3, <3>4, <3>5 DEF Covered, Same
    <3> QED BY <2>a, <3>6
  <2>4. CASE Select(o)
    <3>1. tx[o] = "unsent" /\ UNCHANGED tx
      BY <1>0, <2>4, SelectEffect, TxEffect DEF TxFollowsCall, TypeOK
    <3>2. Snapshot(o) \subseteq Leaves
      BY <1>0, <2>4, SelectEffect DEF Covered, Snapshot, Leaves
    <3>3. PICK N \in SUBSET (Listed(o) \cap Snapshot(o)) :
            IF Value(N) >= op[o].amount
            THEN op' = [op EXCEPT ![o].pc = "selected", ![o].ins = N]
            ELSE op' = [op EXCEPT ![o].pc = "failed"]
      BY <2>4 DEF Select
    <3>4. op'[o].pc = "selected" =>
            op'[o].ins \subseteq Leaves /\ \A n \in op'[o].ins : n.amount > 0
      BY <1>0, <3>2, <3>3 DEF IsCall, Listed
    <3>5. op[o].kind = "withdraw" /\ op[o].amount \in Amounts
      BY <1>0, <2>4, SelectEffect DEF Shape
    <3>6. Covered(o)'
      BY <1>0, <1>a, <2>4, <3>1, <3>4, <3>5, SelectEffect DEF Covered, HasOutput
    <3> QED BY <2>a, <3>6
  <2>5. CASE (\E k \in PoolIds : ClaimFromPool(o, k)) \/ ClaimFails(o)
    <3>1. PICK s, k : Claimed(o, s, k) BY <2>5 DEF ClaimFromPool, ClaimFails
    <3>2. op[o].pc = "selected" /\ op[o].kind = "withdraw"
      BY <1>0, <2>5 DEF ClaimFromPool, ClaimFails, Shape
    <3>3. op'[o].out.amount = Value(op[o].ins) - op[o].amount
      BY <1>0, <3>1 DEF Claimed, ChangeNote, NewNote, IsCall
    <3>4. Covered(o)'
      BY <1>0, <1>a, <3>1, <3>2, <3>3, ClaimedEffect DEF Covered
    <3> QED BY <2>a, <3>4
  <2>6. CASE MineTx(o) \/ RevertTx(o)
    <3>1. UNCHANGED op /\ tx[o] = "pending" BY <2>6 DEF MineTx, RevertTx
    <3>2. Covered(o)' BY <1>0, <1>a, <3>1 DEF Covered, HasOutput
    <3> QED BY <2>a, <3>2
  <2>7. CASE \E n \in op[o].marks : DeliverMark(o, n)
    <3>1. op'[o].pc = op[o].pc /\ Same(op'[o], op[o]) /\ UNCHANGED tx
      BY <1>0, <2>7, MarkEffect, TxEffect
    <3>2. op'[o].snap = op[o].snap BY <1>0, <2>7 DEF DeliverMark, IsCall
    <3> QED BY <1>1, <2>a, <3>1, <3>2
  <2> QED BY <1>4, <2>2, <2>3, <2>4, <2>5, <2>6, <2>7 DEF StepOf
<1> QED BY <1>2, <1>3, <1>4, NextCases

\* A transaction about to be mined carries a secret of its own.
LEMMA NewSecret ==
  ASSUME SecretInv, NEW o \in Ops, MineTx(o), NEW p \in Mined
  PROVE  op[o].out.secret # op[p].out.secret
<1> SUFFICES ASSUME op[o].out.secret = op[p].out.secret PROVE FALSE
  OBVIOUS
<1>0. /\ p \in Ops /\ tx[p] = "mined" /\ tx[o] = "pending" /\ o # p
      /\ Secrets(op[o].ins) \cap Secrets(op[p].ins) = {}
  BY DEF Mined, MineTx, Accepts, Nullified
<1>1. Shape(o) /\ Shape(p) /\ HasOutput(o) /\ HasOutput(p)
  BY <1>0 DEF SecretInv, CallShape, HasOutput
<1>2. SecretOf(o) = SecretOf(p) BY <1>1 DEF Shape
<1>3. op[o].kind \in {"deposit", "withdraw"} /\ op[p].kind \in {"deposit", "withdraw"}
  BY <1>0, <1>1 DEF SecretInv, TxFollowsCall, Shape
<1>4. CASE SecretOf(o) = FreshSecret(o)
  BY <1>0, <1>2, <1>4 DEF SecretOf, FreshSecret, DerivedSecret, PoolSecret
<1>5. CASE \E k : SecretOf(o) = PoolSecret(k) /\ op[o].pool = k /\ k # None
  <2>1. op[p].pool = op[o].pool
    BY <1>2, <1>5 DEF SecretOf, FreshSecret, DerivedSecret, PoolSecret
  <2>2. Holds(o) /\ Holds(p) BY <1>0, <1>1, <1>5, <2>1 DEF Holds, Shape
  <2> QED BY <1>0, <2>1, <2>2 DEF SecretInv, PoolExclusive
<1>6. CASE SecretOf(o) = DerivedSecret(Secrets(op[o].ins)) /\ op[o].kind = "withdraw"
  <2>1. Secrets(op[p].ins) = Secrets(op[o].ins)
    BY <1>2, <1>6 DEF SecretOf, FreshSecret, DerivedSecret, PoolSecret
  <2>2. Secrets(op[o].ins) # {} BY <1>1, <1>6 DEF Shape, Secrets
  <2> QED BY <1>0, <2>1, <2>2
<1> QED BY <1>3, <1>4, <1>5, <1>6 DEF SecretOf

\* Only the vault adds leaves and nullifiers.
LEMMA MinedQuiet ==
  ASSUME TypeOK, TxFollowsCall, [Next]_vars, ~ \E o \in Ops : MineTx(o)
  PROVE  Mined' = Mined
<1>1. Mined \subseteq Mined' BY TxFollowsStep DEF Mined
<1>2. CASE UNCHANGED tx BY <1>2 DEF Mined
<1>3. ASSUME NEW o \in Ops, SendTx(o) \/ RevertTx(o) PROVE Mined' \subseteq Mined
  BY <1>3 DEF SendTx, RevertTx, Mined, TypeOK
<1>4. UNCHANGED tx \/ \E o \in Ops : SendTx(o) \/ RevertTx(o)
  BY NextCases, TxEffect DEF vars, StepOf, RefillPool, ClaimFromPool
<1> QED BY <1>1, <1>2, <1>3, <1>4

LEMMA ChainQuiet ==
  ASSUME TypeOK, TxFollowsCall, [Next]_vars, ~ \E o \in Ops : MineTx(o)
  PROVE  UNCHANGED <<Leaves, Nullified, Payments>>
<1>1. Mined' = Mined BY MinedQuiet
<1>2. \A o \in Mined : Same(op'[o], op[o])
  BY TxFollowsStep DEF Mined
<1>3. UNCHANGED <<Leaves, Nullified>> BY <1>1, <1>2 DEF Leaves, Nullified, Same
<1>4. UNCHANGED Payments
  <2>1. {p \in Mined : op[p].kind = "withdraw"}' = {p \in Mined : op[p].kind = "withdraw"}
    BY <1>1, <1>2 DEF Same
  <2> QED BY <1>2, <2>1 DEF Payments, Same
<1> QED BY <1>3, <1>4

LEMMA MineIsLedgerStep ==
  ASSUME SecretInv, AllCovered, NEW o \in Ops, MineTx(o)
  PROVE  Ledger!Next
<1> DEFINE n == op[o].out
<1>0. /\ TypeOK /\ Shape(o) /\ Covered(o) /\ HasOutput(o) /\ UNCHANGED op
      /\ tx[o] = "pending" /\ tx' = [tx EXCEPT ![o] = "mined"] /\ Accepts(o)
  BY DEF SecretInv, CallShape, AllCovered, HasOutput, MineTx
<1>1. Mined' = Mined \cup {o} BY <1>0 DEF Mined, TypeOK
<1>2. Leaves' = Leaves \cup {n} BY <1>0, <1>1 DEF Leaves
<1>3. Nullified' = Nullified \cup Secrets(op[o].ins)
  BY <1>0, <1>1 DEF Nullified
<1>p. Payments' = IF op[o].kind = "withdraw"
                  THEN Payments \cup {<<n.secret, op[o].amount>>} ELSE Payments
  BY <1>0, <1>1 DEF Payments
<1>4. Ledger!Unused(n.secret) BY NewSecret DEF Ledger!Unused, Leaves
<1>n. n \in Leaves' \ Leaves BY <1>2, <1>4 DEF Ledger!Unused
<1>5. op[o].kind \in {"deposit", "withdraw"}
  BY <1>0 DEF SecretInv, TxFollowsCall, Shape
<1>6. CASE op[o].kind = "deposit"
  <2>1. Secrets(op[o].ins) = {} /\ n.amount \in Amounts
    BY <1>0, <1>6 DEF Covered, Secrets
  <2>2. Ledger!Mint(n) BY <1>2, <1>3, <1>p, <1>4, <1>6, <2>1 DEF Ledger!Mint
  <2> QED BY <1>n, <2>2 DEF Ledger!Next
<1>7. CASE op[o].kind = "withdraw"
  <2> DEFINE N == op[o].ins
             a == op[o].amount
  <2>1. /\ N \in SUBSET Leaves /\ N # {} /\ a \in Amounts
        /\ Value(N) >= a /\ n.amount = Value(N) - a
    BY <1>0, <1>7 DEF Covered, Shape
  <2>2. Value(N) = Ledger!Worth(N) 
    BY DEF Value, SumFunction, SumFunctionOnSet, FoldFunctionOnSet, MapThenFoldSet,
           Ledger!Worth, Ledger!SumFunction, Ledger!SumFunctionOnSet,
           Ledger!FoldFunctionOnSet, Ledger!MapThenFoldSet
  <2>3. /\ \A m \in N : m.secret \notin Nullified
        /\ \A m, l \in N : m.secret = l.secret => m = l
    BY <1>0 DEF Accepts, Secrets
  <2>4. Ledger!Spend(N, a, n)
    BY <1>2, <1>3, <1>p, <1>4, <1>7, <2>1, <2>2, <2>3 DEF Ledger!Spend, Secrets
  <2> QED BY <1>n, <2>1, <2>4 DEF Ledger!Next
<1> QED BY <1>5, <1>6, <1>7

\* If neither the wait for a receipt nor the claim of a row just made fails, the
\* wallet implements the ledger: no interleaving of tabs and devices, no closed tab
\* and no lost request makes the vault take an uncovered, double or burning spend.
THEOREM WalletImplementsLedger ==
  ~ RpcMayFail /\ ~ ClaimMayFail => (Spec => ImplementsLedger)
<1> SUFFICES ASSUME ~ RpcMayFail, ~ ClaimMayFail PROVE Spec => ImplementsLedger
  OBVIOUS
<1> DEFINE Inv == SecretInv /\ AllCovered
<1>1. Init => Inv
  BY SecretInit DEF Init, AllCovered, Covered, HasOutput, IdleOp, NewCall
<1>2. Inv /\ [Next]_vars => Inv' BY SecretStep, CoveredStep
<1>3. Init => Ledger!Init
  BY DEF Init, Ledger!Init, Leaves, Nullified, Payments, Mined
<1>4. Inv /\ [Next]_vars => [Ledger!Next]_<<Leaves, Nullified, Payments>>
  BY ChainQuiet, MineIsLedgerStep DEF SecretInv
<1> QED BY <1>1, <1>2, <1>3, <1>4, PTL DEF Spec, ImplementsLedger, Ledger!Spec

-------------------------------------------------------------------------------
(***************************************************************************)
(* No value is burned.                                                     *)
(***************************************************************************)
Deposits == {o \in Mined : op[o].kind = "deposit"}

\* The books: the leaves are finitely many, worth naturals, and add up.
BookInv == IsFiniteSet(Mined) /\ IsFiniteSet(Leaves) /\ (\A n \in Leaves : n.amount \in Nat)
             /\ NoValueBurned

LEMMA BooksQuiet ==
  ASSUME TypeOK, TxFollowsCall, [Next]_vars, ~ (\E o \in Ops : MineTx(o)), BookInv
  PROVE  BookInv'
<1>1. UNCHANGED <<Leaves, Nullified>> BY ChainQuiet
<1>2. Mined' = Mined BY MinedQuiet
<1>3. \A o \in Mined : Same(op'[o], op[o])
  BY TxFollowsStep DEF Mined
<1>4. Deposits' = Deposits /\ Unspent' = Unspent
  BY <1>1, <1>2, <1>3 DEF Deposits, Same, Unspent
<1>5. Deposited(Deposits)' = Deposited(Deposits)
  BY <1>3, <1>4 DEF Deposited, Deposits, Same
<1>6. Paid(Mined \ Deposits)' = Paid(Mined \ Deposits)
  BY <1>2, <1>3, <1>4 DEF Paid, Same
<1> QED BY <1>1, <1>2, <1>4, <1>5, <1>6 DEF BookInv, NoValueBurned, Deposits

LEMMA BooksMine ==
  ASSUME SecretInv, AllCovered, BookInv, NEW o \in Ops, MineTx(o)
  PROVE  BookInv'
<1> DEFINE n == op[o].out
           I == op[o].ins
<1>0. /\ TypeOK /\ Shape(o) /\ Covered(o) /\ HasOutput(o) /\ UNCHANGED op
      /\ tx[o] = "pending" /\ tx' = [tx EXCEPT ![o] = "mined"] /\ Accepts(o)
      /\ IsCall(op[o]) /\ op[o].amount \in Nat
  BY DEF SecretInv, CallShape, AllCovered, HasOutput, MineTx, TypeOK, CallsOK, IsCall
<1>1. Mined' = Mined \cup {o} /\ o \notin Mined BY <1>0 DEF Mined, TypeOK
<1>2. Leaves' = Leaves \cup {n} BY <1>0, <1>1 DEF Leaves
<1>3. Nullified' = Nullified \cup Secrets(I)
  BY <1>0, <1>1 DEF Nullified
<1>4. \A m \in Leaves : m.secret # n.secret BY NewSecret DEF Leaves
<1>5. \A p \in Mined : op[p].ins \subseteq Leaves
  <2> TAKE p \in Mined
  <2>1. Covered(p) /\ HasOutput(p) /\ op[p].kind \in {"deposit", "withdraw"}
    BY DEF Mined, AllCovered, HasOutput, SecretInv, CallShape, Shape, TxFollowsCall
  <2> QED BY <2>1 DEF Covered
<1>6. n \notin Leaves /\ n.secret \notin Nullified
  BY <1>4, <1>5 DEF Nullified, Secrets
<1>7. \A m, l \in Leaves : m.secret = l.secret => m = l
  BY SecretsDiffer DEF LeafSecretsDiffer, Leaves
<1>8. op[o].kind \in {"deposit", "withdraw"}
  BY <1>0 DEF SecretInv, TxFollowsCall, Shape
<1>9. /\ I \subseteq Leaves /\ IsFiniteSet(I) /\ Value(I) \in Nat /\ n.amount \in Nat
      /\ I \subseteq Unspent
      /\ op[o].kind = "deposit" => I = {} /\ n.amount > 0
      /\ op[o].kind = "withdraw" => Value(I) = n.amount + op[o].amount
  <2>1. I \subseteq Leaves BY <1>0, <1>8 DEF Covered
  <2>2. IsFiniteSet(I) BY <2>1, FS_Subset DEF BookInv
  <2>3. Value(I) \in Nat
    <3>1. SumFunctionOnSet([m \in I |-> m.amount], I) \in Nat
      BY <2>1, <2>2, SumNat DEF BookInv
    <3> QED BY <3>1 DEF Value, SumFunction
  <2>4. op[o].kind = "deposit" => I = {} /\ n.amount \in Nat \ {0}
    BY <1>0, AmountsAssumption DEF Covered
  <2>5. op[o].kind = "withdraw" =>
          /\ Value(I) >= op[o].amount /\ n.amount = Value(I) - op[o].amount
          /\ \A m \in I : m.amount > 0
    BY <1>0 DEF Covered
  <2>6. I \subseteq Unspent
    BY <1>0, <1>8, <2>1, <2>4, <2>5 DEF Accepts, Secrets, Unspent
  <2>7. op[o].kind = "withdraw" => n.amount \in Nat /\ Value(I) = n.amount + op[o].amount
    BY <1>0, <2>3, <2>5
  <2> QED BY <1>8, <2>1, <2>2, <2>3, <2>4, <2>6, <2>7
<1> DEFINE New == IF n.amount > 0 THEN {n} ELSE {}
<1>10. Unspent' = (Unspent \ I) \cup New
  <2>1. \A m \in Leaves : m.secret \in Secrets(I) <=> m \in I
    BY <1>7, <1>9 DEF Secrets
  <2>2. n.secret \notin Secrets(I) BY <1>4, <1>9 DEF Secrets
  <2> QED BY <1>2, <1>3, <1>6, <2>1, <2>2 DEF Unspent
<1> DEFINE A == [m \in Leaves \cup {n} |-> m.amount]
<1>11. /\ IsFiniteSet(Leaves \cup {n}) /\ IsFiniteSet(Mined')
       /\ \A m \in Leaves \cup {n} : A[m] = m.amount /\ A[m] \in Nat
  BY <1>1, <1>9, FS_AddElement DEF BookInv
<1>12. /\ Unspent \subseteq Leaves /\ IsFiniteSet(Unspent)
       /\ Value(Unspent) = SumFunctionOnSet(A, Unspent)
       /\ Value(I) = SumFunctionOnSet(A, I)
       /\ Value(Unspent') = SumFunctionOnSet(A, Unspent')
  <2>1. Unspent \subseteq Leaves /\ Unspent' \subseteq Leaves \cup {n}
    BY <1>2 DEF Unspent
  <2> QED BY <1>9, <1>11, <2>1, ValueIsSum, FS_Subset
<1> HIDE DEF A
<1>13. Value(Unspent') + Value(I) = Value(Unspent) + n.amount
  <2>1. /\ SumFunctionOnSet(A, Unspent \ I) \in Nat
        /\ SumFunctionOnSet(A, Unspent) = SumFunctionOnSet(A, I) + SumFunctionOnSet(A, Unspent \ I)
    BY <1>9, <1>11, <1>12, SumPart
  <2>2. IsFiniteSet(Unspent \ I) /\ n \notin Unspent \ I
    BY <1>6, <1>12, FS_Subset
  <2>3. SumFunctionOnSet(A, Unspent') = SumFunctionOnSet(A, Unspent \ I) + n.amount
    <3>1. CASE n.amount > 0
      <4>1. Unspent' = (Unspent \ I) \cup {n} BY <1>10, <3>1
      <4>2. \A m \in (Unspent \ I) \cup {n} : A[m] \in Nat BY <1>11, <1>12
      <4>3. SumFunctionOnSet(A, (Unspent \ I) \cup {n}) = SumFunctionOnSet(A, Unspent \ I) + A[n]
        <5> HIDE DEF n, I
        <5> QED BY <2>2, <4>2, SumAdd
      <4> QED BY <1>11, <4>1, <4>3
    <3>2. CASE n.amount = 0
      <4>1. Unspent' = Unspent \ I BY <1>10, <3>2
      <4> QED BY <2>1, <3>2, <4>1
    <3> QED BY <1>9, <3>1, <3>2
  <2> QED BY <1>9, <1>12, <2>1, <2>3
<1> DEFINE D == [p \in Mined \cup {o} |-> op[p].out.amount]
           P == [p \in Mined \cup {o} |-> op[p].amount]
<1>14. \A p \in Mined \cup {o} : /\ D[p] = op[p].out.amount /\ D[p] \in Nat
                                 /\ P[p] = op[p].amount /\ P[p] \in Nat
  <2>1. \A p \in Mined : op[p].out \in Leaves BY DEF Leaves
  <2>2. \A p \in Mined : op[p].amount \in Nat BY <1>0 DEF Mined, TypeOK, CallsOK, IsCall
  <2> QED BY <1>0, <1>9, <2>1, <2>2 DEF BookInv
<1> DEFINE W == Mined \ Deposits
<1>15. /\ IsFiniteSet(Deposits) /\ IsFiniteSet(W) /\ Deposits \subseteq Mined /\ W \subseteq Mined
       /\ o \notin Deposits /\ o \notin W
  BY <1>1, FS_Subset DEF Deposits, BookInv
<1>16. Deposited(Deposits) = SumFunctionOnSet(D, Deposits)
  <2>1. SumFunctionOnSet(D, Deposits)
          = SumFunctionOnSet([p \in Deposits |-> op[p].out.amount], Deposits)
    BY <1>15, SumSame
  <2> QED BY <2>1 DEF Deposited, SumFunction
<1>17. Paid(W) = SumFunctionOnSet(P, W)
  <2>1. SumFunctionOnSet(P, W) = SumFunctionOnSet([p \in W |-> op[p].amount], W)
    BY <1>15, SumSame
  <2> QED BY <2>1 DEF Paid, SumFunction
<1>18. SumFunctionOnSet(P, W) \in Nat /\ Value(Unspent) \in Nat /\ Value(Unspent') \in Nat
  <2>1. Unspent' \subseteq Leaves \cup {n} /\ IsFiniteSet(Unspent')
    BY <1>10, <1>11, <1>12, FS_Subset
  <2>2. SumFunctionOnSet(A, Unspent) \in Nat /\ SumFunctionOnSet(A, Unspent') \in Nat
    BY <1>11, <1>12, <2>1, SumNat
  <2>3. SumFunctionOnSet(P, W) \in Nat
    <3> HIDE DEF P, W
    <3> QED BY <1>14, <1>15, SumNat
  <2> QED BY <1>12, <2>2, <2>3
<1>19. SumFunctionOnSet(D, Deposits) = Value(Unspent) + SumFunctionOnSet(P, W)
  BY <1>16, <1>17 DEF BookInv, NoValueBurned, Deposits
<1>20. CASE op[o].kind = "deposit"
  <2>1. Deposits' = Deposits \cup {o} /\ (Mined \ Deposits)' = W
    BY <1>0, <1>1, <1>20 DEF Deposits
  <2>2. Deposited(Deposits)' = SumFunctionOnSet(D, Deposits) + n.amount
    <3>1. Deposited(Deposits)' = SumFunctionOnSet([p \in Deposits \cup {o} |-> op[p].out.amount],
                                                  Deposits \cup {o})
      BY <1>0, <2>1 DEF Deposited, SumFunction
    <3>2. IsFiniteSet(Deposits \cup {o}) BY <1>15, FS_AddElement
    <3>3. SumFunctionOnSet([p \in Deposits \cup {o} |-> op[p].out.amount], Deposits \cup {o})
            = SumFunctionOnSet(D, Deposits \cup {o})
      BY <1>15, <3>2, SumSame
    <3>4. D[o] = n.amount OBVIOUS
    <3>5. \A p \in Deposits \cup {o} : D[p] \in Nat BY <1>14, <1>15
    <3> HIDE DEF D
    <3>6. SumFunctionOnSet(D, Deposits \cup {o}) = SumFunctionOnSet(D, Deposits) + D[o]
      BY <1>15, <3>5, SumAdd
    <3> QED BY <3>1, <3>3, <3>4, <3>6
  <2>3. Paid(Mined \ Deposits)' = SumFunctionOnSet(P, W)
    BY <1>0, <1>17, <2>1 DEF Paid
  <2>4. Value(I) = 0 BY <1>9, <1>20, ValueEmpty
  <2>5. Deposited(Deposits)' = Value(Unspent') + Paid(Mined \ Deposits)'
    BY <1>9, <1>13, <1>18, <1>19, <2>2, <2>3, <2>4
  <2> QED BY <1>2, <1>9, <1>11, <2>5 DEF BookInv, NoValueBurned, Deposits
<1>21. CASE op[o].kind = "withdraw"
  <2>1. Deposits' = Deposits /\ (Mined \ Deposits)' = W \cup {o}
    BY <1>0, <1>1, <1>21 DEF Deposits
  <2>2. Paid(Mined \ Deposits)' = SumFunctionOnSet(P, W) + op[o].amount
    <3>1. Paid(Mined \ Deposits)' = SumFunctionOnSet([p \in W \cup {o} |-> op[p].amount], W \cup {o})
      BY <1>0, <2>1 DEF Paid, SumFunction
    <3>2. IsFiniteSet(W \cup {o}) BY <1>15, FS_AddElement
    <3>3. SumFunctionOnSet([p \in W \cup {o} |-> op[p].amount], W \cup {o})
            = SumFunctionOnSet(P, W \cup {o})
      BY <1>15, <3>2, SumSame
    <3>4. P[o] = op[o].amount OBVIOUS
    <3>5. \A p \in W \cup {o} : P[p] \in Nat BY <1>14, <1>15
    <3> HIDE DEF P, W
    <3>6. SumFunctionOnSet(P, W \cup {o}) = SumFunctionOnSet(P, W) + P[o]
      BY <1>15, <3>5, SumAdd
    <3> QED BY <3>1, <3>3, <3>4, <3>6
  <2>3. Deposited(Deposits)' = SumFunctionOnSet(D, Deposits)
    BY <1>0, <1>16, <2>1 DEF Deposited
  <2>4. Deposited(Deposits)' = Value(Unspent') + Paid(Mined \ Deposits)'
    <3>1. Value(I) = n.amount + op[o].amount BY <1>9, <1>21
    <3> HIDE DEF n, I, D, P, W
    <3> QED BY <1>0, <1>9, <1>13, <1>18, <1>19, <2>2, <2>3, <3>1
  <2> QED BY <1>2, <1>9, <1>11, <2>4 DEF BookInv, NoValueBurned, Deposits
<1> QED BY <1>8, <1>20, <1>21

LEMMA BooksKept ==
  ASSUME ~ RpcMayFail, ~ ClaimMayFail
  PROVE  Spec => [](SecretInv /\ AllCovered /\ BookInv)
<1> DEFINE Inv == SecretInv /\ AllCovered /\ BookInv
<1>1. Init => Inv
  <2> SUFFICES ASSUME Init PROVE Inv OBVIOUS
  <2>1. SecretInv /\ AllCovered
    BY SecretInit DEF Init, AllCovered, Covered, HasOutput, IdleOp, NewCall
  <2>2. Mined = {} /\ Leaves = {} /\ Unspent = {}
    BY DEF Init, Mined, Leaves, Unspent
  <2>3. NoValueBurned
    BY <2>2, SumEmpty DEF NoValueBurned, Deposited, Paid, Value, SumFunction
  <2> QED BY <2>1, <2>2, <2>3, FS_EmptySet DEF BookInv
<1>2. Inv /\ [Next]_vars => Inv'
  BY SecretStep, CoveredStep, BooksQuiet, BooksMine DEF SecretInv
<1> QED BY <1>1, <1>2, PTL DEF Spec

\* If neither the wait for a receipt nor the claim of a row just made fails, what was
\* deposited and not paid out can still be withdrawn, to the last unit: no interleaving
\* of tabs and devices burns a note or pays for one twice.
THEOREM ValueAddsUp ==
  ~ RpcMayFail /\ ~ ClaimMayFail => (Spec => []NoValueBurned)
<1> SUFFICES ASSUME ~ RpcMayFail, ~ ClaimMayFail PROVE Spec => []NoValueBurned
  OBVIOUS
<1>1. BookInv => NoValueBurned BY DEF BookInv
<1> QED BY <1>1, BooksKept, PTL

-------------------------------------------------------------------------------
(***************************************************************************)
(* A withdrawal is refused only if it cannot be made.                      *)
(***************************************************************************)

\* No choice of as many notes is worth more than the largest ones.
LEMMA LargestWorthMost ==
  ASSUME NEW C, IsFiniteSet(C), \A n \in C : n.amount \in Nat,
         NEW N \in SUBSET C, NEW M \in SUBSET C,
         \A n \in N, m \in C \ N : n.amount >= m.amount,
         Cardinality(M) <= Cardinality(N)
  PROVE  Value(M) <= Value(N) /\ Value(M) \in Nat /\ Value(N) \in Nat
<1> DEFINE A == [n \in C |-> n.amount]
           B == M \cap N
           D == M \ N
           E == N \ M
<1>1. \A n \in C : A[n] = n.amount /\ A[n] \in Nat OBVIOUS
<1>2. Value(M) = SumFunctionOnSet(A, M) /\ Value(N) = SumFunctionOnSet(A, N)
  BY ValueIsSum
<1>3. /\ IsFiniteSet(M) /\ IsFiniteSet(N) /\ IsFiniteSet(B) /\ IsFiniteSet(D) /\ IsFiniteSet(E)
  BY FS_Subset
<1>4. /\ Cardinality(M) = Cardinality(B) + Cardinality(D)
      /\ Cardinality(N) = Cardinality(B) + Cardinality(E)
      /\ Cardinality(B) \in Nat /\ Cardinality(D) \in Nat /\ Cardinality(E) \in Nat
  <2>1. M = B \cup D /\ B \cap D = {} /\ N = B \cup E /\ B \cap E = {} OBVIOUS
  <2>2. Cardinality({}) = 0 BY FS_EmptySet
  <2> HIDE DEF B, D, E
  <2>3. /\ Cardinality(B) \in Nat /\ Cardinality(D) \in Nat /\ Cardinality(E) \in Nat
    BY <1>3, FS_CardinalityType
  <2>4. Cardinality(B \cup D) = Cardinality(B) + Cardinality(D) - Cardinality(B \cap D)
    BY <1>3, FS_Union
  <2>5. Cardinality(B \cup E) = Cardinality(B) + Cardinality(E) - Cardinality(B \cap E)
    BY <1>3, FS_Union
  <2>6. /\ Cardinality(M) = Cardinality(B \cup D) /\ Cardinality(B \cap D) = 0
        /\ Cardinality(N) = Cardinality(B \cup E) /\ Cardinality(B \cap E) = 0
    BY <2>1, <2>2, Zenon
  <2> QED BY <2>3, <2>4, <2>5, <2>6
<1>5. Cardinality(D) <= Cardinality(E) BY <1>4
<1>6. ASSUME NEW X \in SUBSET C
      PROVE  /\ SumFunctionOnSet(A, X) \in Nat
             /\ SumFunctionOnSet(A, X) = SumFunctionOnSet(A, X \cap B) + SumFunctionOnSet(A, X \ B)
  <2>1. IsFiniteSet(X) /\ X \cap B \in SUBSET X /\ X \ (X \cap B) = X \ B BY FS_Subset
  <2>2. \A n \in X : A[n] \in Nat BY <1>1
  <2> HIDE DEF A, B
  <2>3. /\ SumFunctionOnSet(A, X \cap B) \in Nat
        /\ SumFunctionOnSet(A, X \ (X \cap B)) \in Nat
        /\ SumFunctionOnSet(A, X)
             = SumFunctionOnSet(A, X \cap B) + SumFunctionOnSet(A, X \ (X \cap B))
    BY <2>1, <2>2, SumPart
  <2> QED BY <2>1, <2>3
<1>7. /\ SumFunctionOnSet(A, M) = SumFunctionOnSet(A, B) + SumFunctionOnSet(A, D)
      /\ SumFunctionOnSet(A, N) = SumFunctionOnSet(A, B) + SumFunctionOnSet(A, E)
  <2>1. M \cap B = B /\ M \ B = D /\ N \cap B = B /\ N \ B = E OBVIOUS
  <2> HIDE DEF A, B, D, E
  <2> QED BY <1>6, <2>1
<1>8. SumFunctionOnSet(A, D) <= SumFunctionOnSet(A, E)
  <2>1. CASE E = {}
    <3>1. D = {} BY <1>3, <1>4, <1>5, <2>1, FS_EmptySet
    <3> QED BY <2>1, <3>1, SumEmpty
  <2>2. CASE E # {}
    <3> DEFINE T == {n.amount : n \in E}
    <3>1. PICK t \in T : \A u \in T : t <= u
      <4>1. T \in SUBSET Nat /\ T # {} BY <2>2
      <4> HIDE DEF T
      <4> QED BY <4>1, LeastNatural
    <3>2. t \in Nat /\ \A n \in E : A[n] >= t BY <1>1, <3>1
    <3>3. PICK e \in E : t = e.amount BY <3>1
    <3>4. \A m \in D : A[m] <= t BY <1>1, <3>2, <3>3
    <3>5. (\A m \in D : A[m] \in Nat) /\ (\A n \in E : A[n] \in Nat) BY <1>1
    <3> HIDE DEF A, D, E, T
    <3>6. SumFunctionOnSet(A, D) <= Cardinality(D) * t BY <1>3, <3>2, <3>4, <3>5, SumBounds
    <3>7. SumFunctionOnSet(A, E) >= Cardinality(E) * t BY <1>3, <3>2, <3>5, SumBounds
    <3>8. Cardinality(D) * t <= Cardinality(E) * t
      <4> DEFINE x == Cardinality(D)
                 y == Cardinality(E)
      <4>1. x \in Nat /\ y \in Nat /\ x <= y BY <1>4, <1>5
      <4> HIDE DEF x, y
      <4>2. y * t = x * t + (y - x) * t BY <3>2, <4>1
      <4>3. x * t \in Nat /\ (y - x) * t \in Nat BY <3>2, <4>1
      <4>4. x * t <= y * t BY <4>2, <4>3
      <4> QED BY <4>4 DEF x, y
    <3>9. SumFunctionOnSet(A, D) \in Nat /\ SumFunctionOnSet(A, E) \in Nat
      BY <1>3, <3>5, SumNat
    <3>10. Cardinality(D) * t \in Nat /\ Cardinality(E) * t \in Nat BY <1>4, <3>2
    <3> QED BY <3>6, <3>7, <3>8, <3>9, <3>10
  <2> QED BY <2>1, <2>2
<1>9. /\ SumFunctionOnSet(A, B) \in Nat /\ SumFunctionOnSet(A, D) \in Nat
      /\ SumFunctionOnSet(A, E) \in Nat
  BY <1>6
<1> HIDE DEF A, B, D, E
<1> QED BY <1>2, <1>7, <1>8, <1>9

\* A greedy fill that stops short of the amount has every candidate, or as many notes
\* as a proof takes: then no choice of notes covers the amount.
LEMMA GreedyFillsBest ==
  ASSUME NEW C, IsFiniteSet(C), \A n \in C : n.amount \in Nat, NEW a \in Nat,
         NEW N \in SUBSET C, IsGreedy(N, C, a), ~ (Value(N) >= a),
         NEW M \in SUBSET C, Cardinality(M) <= MaxNotes
  PROVE  Value(M) < a
<1>1. (\A n \in N, m \in C \ N : n.amount >= m.amount) /\ (Cardinality(N) = MaxNotes \/ N = C)
  BY DEF IsGreedy
<1>2. Cardinality(M) <= Cardinality(N) BY <1>1, FS_Subset
<1>3. Value(M) <= Value(N) /\ Value(M) \in Nat /\ Value(N) \in Nat
  BY <1>1, <1>2, LargestWorthMost
<1> QED BY <1>3

\* Only the selection turns a call down before it has claimed a row.
LEMMA RefusedBySelect ==
  ASSUME TypeOK, [Next]_vars, NEW o \in Ops, op[o].pc = "hydrated", op'[o].pc = "failed"
  PROVE  Select(o)
<1>1. op' # op BY DEF TypeOK
<1>2. PICK p \in Ops : StepOf(p) BY <1>1, NextCases DEF vars, RefillPool
<1>3. ~ MineTx(p) /\ ~ RevertTx(p) BY <1>1, TxEffect
<1>4. p = o
  <2>1. Others(p)
    BY <1>2, <1>3, BeginEffect, MoveEffect, SelectEffect, ClaimedEffect, MarkEffect
       DEF StepOf, ClaimFromPool, ClaimFails
  <2> QED BY <2>1 DEF Others
<1>5. ~ Begin(o) /\ ~ Moves(o) BY BeginEffect, MovePc
<1>6. \A k \in PoolIds : ~ ClaimFromPool(o, k) BY DEF ClaimFromPool
<1>7. ~ ClaimFails(o) BY DEF ClaimFails
<1>8. \A n \in op[o].marks : ~ DeliverMark(o, n) BY MarkEffect
<1> QED BY <1>2, <1>3, <1>4, <1>5, <1>6, <1>7, <1>8 DEF StepOf

LEMMA RefusalIsDue ==
  ASSUME SecretInv, AllCovered, BookInv, UnspentIsStored, UnspentNotHidden, [Next]_vars,
         NEW o \in Ops, op[o].pc = "hydrated", op'[o].pc = "failed",
         NEW M \in SUBSET OwnUnspent(o), Cardinality(M) <= MaxNotes
  PROVE  Value(M) < op[o].amount
<1>0. /\ TypeOK /\ IsCall(op[o]) /\ DOMAIN op = Ops /\ op[o].snap \subseteq Mined
      /\ op[o].amount \in Nat
  BY DEF SecretInv, TypeOK, CallsOK, IsCall, AllCovered, Covered
<1>1. Select(o) BY <1>0, RefusedBySelect
<1>2. PICK spent \in SpentReads(o) :
        \E N \in SUBSET ((Listed(o) \ spent) \cap Snapshot(o)) :
          /\ IsGreedy(N, (Listed(o) \ spent) \cap Snapshot(o), op[o].amount)
          /\ IF Value(N) >= op[o].amount
             THEN op' = [op EXCEPT ![o].pc = "selected", ![o].ins = N]
             ELSE op' = [op EXCEPT ![o].pc = "failed"]
  BY <1>1 DEF Select
<1> DEFINE C == (Listed(o) \ spent) \cap Snapshot(o)
<1>3. PICK N \in SUBSET C :
        /\ IsGreedy(N, C, op[o].amount)
        /\ IF Value(N) >= op[o].amount
           THEN op' = [op EXCEPT ![o].pc = "selected", ![o].ins = N]
           ELSE op' = [op EXCEPT ![o].pc = "failed"]
  BY <1>2
<1>4. ~ (Value(N) >= op[o].amount) BY <1>0, <1>3 DEF IsCall
<1>5. IsFiniteSet(C) /\ \A n \in C : n.amount \in Nat
  <2>1. C \subseteq Leaves BY <1>0 DEF Snapshot, Leaves
  <2> QED BY <2>1, FS_Subset DEF BookInv
<1>6. M \subseteq C
  <2> SUFFICES ASSUME NEW n \in M PROVE n \in C OBVIOUS
  <2>1. PICK p \in op[o].snap : op[p].dev = op[o].dev /\ ~ MadeTwice(p) /\ op[p].out = n
    BY DEF OwnUnspent
  <2>2. n \in Unspent /\ p \in Mined BY <1>0, <2>1 DEF OwnUnspent
  <2>3. n \in DOMAIN Store(o) /\ Store(o)[n] # "true"
    BY <2>1, <2>2 DEF UnspentIsStored, UnspentNotHidden, HasStatus, Store
  <2>4. n \in Listed(o) /\ n \in Snapshot(o)
    BY <2>1, <2>2, <2>3 DEF Listed, Unspent, Snapshot
  <2>5. n \notin spent BY <1>2, <2>2 DEF SpentReads, Unspent
  <2> QED BY <2>4, <2>5
<1> HIDE DEF C
<1> QED BY <1>0, <1>3, <1>4, <1>5, <1>6, GreedyFillsBest

\* If waits, claims of rows just made and the browser's writes succeed, then whatever
\* tabs are closed, race or fail, a withdrawal is refused only if no notes of its device
\* that fit a proof would have covered it.
THEOREM RefusalsAreDue ==
  ~ RpcMayFail /\ ~ ClaimMayFail /\ ~ StorageMayFail => (Spec => RefusedOnlyIfShort)
<1> SUFFICES ASSUME ~ RpcMayFail, ~ ClaimMayFail, ~ StorageMayFail
             PROVE  Spec => RefusedOnlyIfShort
  OBVIOUS
<1> DEFINE Inv == SecretInv /\ AllCovered /\ BookInv
           Due == \A o \in Ops : op[o].pc = "hydrated" /\ op'[o].pc = "failed" =>
                    \A N \in SUBSET OwnUnspent(o) :
                      Cardinality(N) <= MaxNotes => Value(N) < op[o].amount
<1>1. Inv /\ UnspentIsStored /\ UnspentNotHidden /\ [Next]_vars => Due
  BY RefusalIsDue
<1>2. Spec => []Inv BY BooksKept
<1>3. (Spec => []UnspentIsStored) /\ (Spec => []UnspentNotHidden)
  BY UnspentStored, UnspentShown
<1>4. Spec => [][Due]_vars
  <2> HIDE DEF Inv, Due
  <2> QED BY <1>1, <1>2, <1>3, PTL DEF Spec
<1> QED BY <1>4 DEF RefusedOnlyIfShort
===============================================================================
