--------------------------- MODULE SparePoolProofs ---------------------------
(***************************************************************************)
(* Proofs about SparePool: its types, and that a row of the precommitments *)
(* table serves one change note, for any number of calls and rows.         *)
(***************************************************************************)
EXTENDS SparePool, FiniteSetTheorems, TLAPS

-------------------------------------------------------------------------------
(***************************************************************************)
(* The actions, one by one.                                                *)
(***************************************************************************)

LEMMA NextCases ==
  ASSUME Next
  PROVE  \/ \E c \in Calls : FetchPending(c)
         \/ \E c \in Calls, r \in Rows : TryClaim(c, r)
         \/ \E c \in Calls, r \in Rows : PostFresh(c, r, "trying", "posted")
         \/ \E c \in Calls, r \in Rows : PostFresh(c, r, "refused", "reposted")
         \/ \E c \in Calls : ClaimFresh(c)
         \/ \E c \in Calls : ClaimAgain(c)
         \/ \E c \in Calls : CountPool(c)
         \/ \E c \in Calls, r \in PoolRows : PostSpare(c, r)
         \/ \E c \in Calls : Abandon(c)
         \/ \E c \in Calls : Send(c, "sent")
         \/ \E c \in Calls : Send(c, "armed")
         \/ \E c \in Calls : Confirm(c)
         \/ \E c \in Calls : TxFails(c)
         \/ \E c \in Calls : Resolve(c)
         \/ \E c \in Calls : Release(c)
         \/ \E c \in Calls : Decide(c)
         \/ \E c \in Calls : CloseTab(c)
         \/ \E r \in OutputRows : CreateOutput(r)
         \/ \E r \in OutputRows : Land(r)
         \/ \E r \in OutputRows : ResolveOutput(r)
         \/ FetchOutputs
BY Zenon DEF Next, Claim, Use, EnsurePool, Output

-------------------------------------------------------------------------------
(***************************************************************************)
(* Types                                                                   *)
(***************************************************************************)

CallsTyped == call = [c \in Calls |-> call[c]] /\ \A c \in Calls : IsCall(call[c])

LEMMA LocalsTyped ==
  ASSUME NEW pc \in PCs, NEW todo \in SUBSET Rows, NEW row \in Rows \cup {None},
         NEW bold \in BOOLEAN
  PROVE  IsCall(Locals(pc, todo, row, bold))
BY DEF IsCall, Locals

LEMMA SetCall ==
  ASSUME CallsTyped, NEW c \in Calls, NEW x, IsCall(x), call' = [call EXCEPT ![c] = x]
  PROVE  CallsTyped'
<1>1. call' = [d \in Calls |-> IF d = c THEN x ELSE call[d]]
  BY DEF CallsTyped
<1> QED  BY <1>1 DEF CallsTyped

LEMMA SetPc ==
  ASSUME CallsTyped, NEW c \in Calls, NEW pc \in PCs, Goto(c, pc)
  PROVE  CallsTyped'
<1>1. IsCall(call[c])  BY DEF CallsTyped
<1>2. IsCall([call[c] EXCEPT !.pc = pc])
  BY <1>1 DEF IsCall, Locals
<1>3. call' = [call EXCEPT ![c] = [call[c] EXCEPT !.pc = pc]]
  BY DEF Goto
<1> QED  BY <1>2, <1>3, SetCall

LEMMA SkipRow ==
  ASSUME CallsTyped, NEW c \in Calls, NEW r,
         call' = [call EXCEPT ![c].todo = @ \ {r}]
  PROVE  CallsTyped'
<1>1. IsCall(call[c])  BY DEF CallsTyped
<1>2. IsCall([call[c] EXCEPT !.todo = @ \ {r}])
  BY <1>1 DEF IsCall, Locals
<1> QED  BY <1>2, SetCall

LEMMA HoldTyped ==
  ASSUME CallsTyped, NEW c \in Calls, NEW r \in Rows \cup {None}, NEW bold \in BOOLEAN,
         Hold(c, r, bold)
  PROVE  CallsTyped'
<1>1. IsCall(Locals("held", {}, r, bold)) /\ IsCall(Locals("derived", {}, None, FALSE))
  BY LocalsTyped DEF PCs, Final
<1> QED  BY <1>1, SetCall DEF Hold, Derive

LEMMA DeriveTyped ==
  ASSUME CallsTyped, NEW c \in Calls, Derive(c)
  PROVE  CallsTyped'
<1>1. IsCall(Locals("derived", {}, None, FALSE))
  BY LocalsTyped DEF PCs, Final
<1> QED  BY <1>1, SetCall DEF Derive

LEMMA ServedTyped ==
  ASSUME status \in [Rows -> Statuses], NEW r,
         \/ \E answer : ServeClaim(r, answer) \/ ServePost(r, answer)
         \/ ServePatch(r, "pending") \/ ServePatch(r, "resolved")
  PROVE  status' \in [Rows -> Statuses]
BY DEF ServeClaim, ServePost, ServePatch, Set, Statuses

LEMMA PendingFinite == IsFiniteSet(Pending) /\ Cardinality(Pending) \in Nat
<1>1. Pending \subseteq Rows /\ IsFiniteSet(Rows)
  BY RowsAssumption DEF Pending
<1> QED  BY <1>1, FS_Subset, FS_CardinalityType

LEMMA InitTyped == Init => TypeOK
<1> SUFFICES ASSUME Init PROVE TypeOK  OBVIOUS
<1>1. IsCall(Locals("idle", {}, None, FALSE))
  BY LocalsTyped DEF PCs
<1>2. \A c \in Calls : IsCall(call[c])
  BY <1>1 DEF Init
<1>3. need \in [Calls -> 0 .. PoolMin]
  BY PoolMinAssumption DEF Init
<1> QED
  BY <1>2, <1>3 DEF Init, TypeOK, Statuses, TxStatuses

\* Types are kept by every action.
LEMMA NextTyped == TypeOK /\ [Next]_vars => TypeOK'
<1> SUFFICES ASSUME TypeOK, [Next]_vars PROVE TypeOK'  OBVIOUS
<1> DEFINE Other == /\ tx \in [Calls -> TxStatuses] /\ need \in [Calls -> 0 .. PoolMin]
                   /\ UNION {landed, listed, stored} \subseteq OutputRows
<1>1. CallsTyped /\ status \in [Rows -> Statuses] /\ Other
  BY DEF TypeOK, CallsTyped
<1>2. ASSUME CallsTyped', status' \in [Rows -> Statuses], Other' PROVE TypeOK'
  BY <1>2 DEF TypeOK, CallsTyped
<1> HIDE DEF Other
<1>3. ASSUME UNCHANGED <<tx, need, table>> PROVE Other'
  BY <1>1, <1>3 DEF Other, table
<1>4. ASSUME UNCHANGED call PROVE CallsTyped'
  BY <1>1, <1>4 DEF CallsTyped, IsCall
<1>5. \A c \in Calls : call[c].row \in Rows \cup {None}
  BY <1>1 DEF CallsTyped, IsCall
<1>6. CASE UNCHANGED vars
  BY <1>1, <1>2, <1>3, <1>4, <1>6 DEF vars, table
<1>7. ASSUME NEW c \in Calls, FetchPending(c) PROVE TypeOK'
  <2>1. IsCall(Locals("trying", Pending, None, FALSE))
    BY LocalsTyped DEF PCs, Pending
  <2>2. CallsTyped'
    BY <1>1, <1>7, <2>1, SetCall, DeriveTyped DEF FetchPending
  <2> QED  BY <1>1, <1>2, <1>3, <1>7, <2>2 DEF FetchPending
<1>8. ASSUME NEW c \in Calls, NEW r \in Rows, TryClaim(c, r) PROVE TypeOK'
  <2>1. PICK answer \in {"granted", "refused", "lost"} :
          /\ ServeClaim(r, answer)
          /\ CASE answer = "granted" -> Hold(c, r, FALSE)
               [] answer = "refused" -> call' = [call EXCEPT ![c].todo = @ \ {r}]
               [] answer = "lost" -> Derive(c)
    BY <1>8 DEF TryClaim
  <2>2. CallsTyped'
    <3>1. CASE answer = "granted"  BY <1>1, <2>1, <3>1, HoldTyped
    <3>2. CASE answer = "refused"  BY <1>1, <2>1, <3>2, SkipRow
    <3>3. CASE answer = "lost"  BY <1>1, <2>1, <3>3, DeriveTyped
    <3> QED  BY <2>1, <3>1, <3>2, <3>3
  <2> QED  BY <1>1, <1>2, <1>3, <1>8, <2>1, <2>2, ServedTyped DEF TryClaim
<1>9. ASSUME NEW c \in Calls, NEW r \in Rows, NEW from, NEW to \in PCs,
             PostFresh(c, r, from, to)
      PROVE TypeOK'
  <2>1. IsCall(Locals(to, {}, r, FALSE))
    BY LocalsTyped
  <2>2. CallsTyped'
    BY <1>1, <1>9, <2>1, SetCall, DeriveTyped DEF PostFresh
  <2> QED  BY <1>1, <1>2, <1>3, <1>9, <2>2, ServedTyped DEF PostFresh
<1>10. ASSUME NEW c \in Calls, ClaimFresh(c) PROVE TypeOK'
  <2>1. PICK answer \in {"granted", "refused", "lost"} :
          /\ ServeClaim(call[c].row, answer)
          /\ CASE answer = "granted" -> Hold(c, call[c].row, FALSE)
               [] answer = "refused" -> Goto(c, "refused")
               [] answer = "lost" -> Derive(c)
    BY <1>10 DEF ClaimFresh
  <2>2. CallsTyped'
    <3>1. CASE answer = "granted"  BY <1>1, <1>10, <2>1, <3>1, HoldTyped, <1>5
    <3>2. CASE answer = "refused"  BY <1>1, <2>1, <3>2, SetPc DEF PCs
    <3>3. CASE answer = "lost"  BY <1>1, <2>1, <3>3, DeriveTyped
    <3> QED  BY <2>1, <3>1, <3>2, <3>3
  <2> QED  BY <1>1, <1>2, <1>3, <1>10, <2>1, <2>2, ServedTyped DEF ClaimFresh
<1>11. ASSUME NEW c \in Calls, ClaimAgain(c) PROVE TypeOK'
  <2>1. PICK answer \in {"granted", "refused", "lost"} :
          /\ ServeClaim(call[c].row, answer)
          /\ IF answer = "lost" THEN Derive(c)
             ELSE Hold(c, call[c].row, answer = "refused")
    BY <1>11 DEF ClaimAgain
  <2>2. CallsTyped'
    BY <1>1, <1>5, <1>11, <2>1, HoldTyped, DeriveTyped
  <2> QED  BY <1>1, <1>2, <1>3, <1>11, <2>1, <2>2, ServedTyped DEF ClaimAgain
<1>12. ASSUME NEW c \in Calls, CountPool(c) PROVE TypeOK'
  <2>1. PICK count \in {Cardinality(Pending)} \cup (IF ServerMayFail THEN {0} ELSE {}) :
          count < PoolMin /\ need' = [need EXCEPT ![c] = PoolMin - count]
    BY <1>12 DEF CountPool
  <2>2. count \in Nat /\ PoolMin - count \in 0 .. PoolMin
    BY <2>1, PendingFinite, PoolMinAssumption
  <2>3. Other'
    BY <1>1, <1>12, <2>1, <2>2 DEF Other, CountPool, table
  <2> QED  BY <1>1, <1>2, <1>4, <1>12, <2>3 DEF CountPool
<1>13. ASSUME NEW c \in Calls, NEW r \in PoolRows, PostSpare(c, r) PROVE TypeOK'
  <2>1. need[c] \in 0 .. PoolMin /\ need[c] - 1 \in 0 .. PoolMin
    BY <1>1, <1>13, PoolMinAssumption DEF PostSpare, Other
  <2>2. Other'
    BY <1>1, <1>13, <2>1 DEF Other, PostSpare, table
  <2> QED  BY <1>1, <1>2, <1>4, <1>13, <2>2, ServedTyped DEF PostSpare, Rows
<1>14. ASSUME NEW c \in Calls, Abandon(c) \/ Confirm(c) \/ TxFails(c) \/ CloseTab(c)
       PROVE TypeOK'
  <2>1. UNCHANGED <<status, tx, need, table>>
    BY <1>14 DEF Abandon, Confirm, TxFails, CloseTab
  <2>2. PICK pc \in PCs : Goto(c, pc)
    BY <1>14 DEF Abandon, Confirm, TxFails, CloseTab, PCs, Final
  <2> QED  BY <1>1, <1>2, <1>3, <2>1, <2>2, SetPc
<1>15. ASSUME NEW c \in Calls, NEW pc \in PCs, Send(c, pc) PROVE TypeOK'
  <2>1. Other'
    BY <1>1, <1>15 DEF Send, Other, TxStatuses, table
  <2> QED  BY <1>1, <1>2, <1>15, <2>1, SetPc DEF Send
<1>16. ASSUME NEW c \in Calls, Resolve(c) \/ Release(c) PROVE TypeOK'
  <2>1. \E pc \in PCs : Goto(c, pc)
    BY <1>16 DEF Resolve, Release, PCs, Final
  <2>2. \/ UNCHANGED status
        \/ ServePatch(call[c].row, "pending") \/ ServePatch(call[c].row, "resolved")
    BY <1>16 DEF Resolve, Release
  <2>3. status' \in [Rows -> Statuses]
    BY <1>1, <1>16, <2>2, ServedTyped
  <2>4. UNCHANGED <<tx, need, table>>
    BY <1>16 DEF Resolve, Release
  <2> QED  BY <1>1, <1>2, <1>3, <2>1, <2>3, <2>4, SetPc
<1>17. ASSUME NEW c \in Calls, Decide(c) PROVE TypeOK'
  <2>1. Other'
    BY <1>1, <1>17 DEF Decide, Other, TxStatuses, table
  <2> QED  BY <1>1, <1>2, <1>4, <1>17, <2>1 DEF Decide
<1>18. ASSUME NEW r \in OutputRows, CreateOutput(r) PROVE TypeOK'
  BY <1>1, <1>2, <1>3, <1>4, <1>18, ServedTyped DEF CreateOutput, Rows
<1>19. ASSUME NEW r \in OutputRows, Land(r) PROVE TypeOK'
  <2>1. Other'
    BY <1>1, <1>19 DEF Land, Other
  <2> QED  BY <1>1, <1>2, <1>4, <1>19, <2>1 DEF Land
<1>20. ASSUME NEW r \in OutputRows, ResolveOutput(r) PROVE TypeOK'
  <2>1. Other'
    BY <1>1, <1>20 DEF ResolveOutput, Other
  <2> QED  BY <1>1, <1>2, <1>4, <1>20, <2>1, ServedTyped DEF ResolveOutput, Rows
<1>21. CASE FetchOutputs
  <2>1. Other'
    BY <1>1, <1>21 DEF FetchOutputs, Other
  <2> QED  BY <1>1, <1>2, <1>4, <1>21, <2>1 DEF FetchOutputs
<1> QED
  BY <1>6, <1>7, <1>8, <1>9, <1>10, <1>11, <1>12, <1>13, <1>14, <1>15, <1>16, <1>17, <1>18,
     <1>19, <1>20, <1>21, NextCases, Zenon DEF PCs

\* Calls, rows, transactions and the counters of ensurePool keep their types.
THEOREM TypeCorrect == Spec => []TypeOK
BY InitTyped, NextTyped, PTL DEF Spec

-------------------------------------------------------------------------------
(***************************************************************************)
(* A row serves one call.  What a call may have sent follows from where it *)
(* is; only a call that got its row is bold; and a row that is used is not *)
(* on offer, so the next claim that is granted is of another row.          *)
(***************************************************************************)

TxFollowsCall ==
  \A c \in Calls :
    /\ tx[c] # "unsent" => call[c].pc \in {"sent", "armed", "confirmed", "reverted", "done",
                                          "failed", "closed"}
    /\ call[c].pc = "reverted" => tx[c] \in {"unsent", "reverted"}

BoldHasRow ==
  \A c \in Calls : call[c].bold =>
    call[c].pc \notin {"idle", "trying", "posted", "refused", "reposted", "derived"}

UsedIsTaken ==
  \A c \in Calls : \A r \in Rows :
    Uses(c, r) /\ ~ TakenBoldly(r) => status[r] \in {"in_use", "resolved"}

RowInv == TypeOK /\ TxFollowsCall /\ BoldHasRow /\ UsedIsTaken /\ RowsServeOneCall

\* A step by which nobody comes to use a row, and which puts no used row on offer.
LEMMA QuietStep ==
  ASSUME UsedIsTaken, RowsServeOneCall,
         \A c \in Calls, r \in Rows : Uses(c, r)' => Uses(c, r),
         \A r \in Rows : TakenBoldly(r) => TakenBoldly(r)',
         \A r \in Rows : \/ status'[r] = status[r] \/ status'[r] \in {"in_use", "resolved"}
                         \/ TakenBoldly(r)' \/ \A c \in Calls : ~ Uses(c, r)'
  PROVE  UsedIsTaken' /\ RowsServeOneCall'
<1>1. UsedIsTaken'
  BY Zenon DEF UsedIsTaken
<1>2. RowsServeOneCall'
  BY Zenon DEF RowsServeOneCall
<1> QED  BY <1>1, <1>2

\* A step by which call c comes to use row s.
LEMMA GainStep ==
  ASSUME UsedIsTaken, RowsServeOneCall, NEW c \in Calls, NEW s,
         \A d \in Calls, r \in Rows : Uses(d, r)' => Uses(d, r) \/ (d = c /\ r = s),
         \A r \in Rows : TakenBoldly(r) => TakenBoldly(r)',
         TakenBoldly(s)' \/ (s \in Rows => status[s] = "pending" /\ status'[s] = "in_use"),
         \A r \in Rows : r # s => status'[r] = status[r]
  PROVE  UsedIsTaken' /\ RowsServeOneCall'
<1>1. ASSUME status[s] = "pending", NEW d \in Calls, s \in Rows, Uses(d, s)
      PROVE TakenBoldly(s)
  BY <1>1 DEF UsedIsTaken
<1>2. ASSUME NEW d \in Calls, NEW r \in Rows, Uses(d, r)', ~ TakenBoldly(r)'
      PROVE  status'[r] \in {"in_use", "resolved"}
  <2>1. CASE r = s  BY <1>2, <2>1
  <2>2. CASE r # s  BY <1>2, <2>2 DEF UsedIsTaken
  <2> QED  BY <2>1, <2>2
<1>3. ASSUME NEW d \in Calls, NEW e \in Calls, NEW r \in Rows, Uses(d, r)', Uses(e, r)', d # e
      PROVE  TakenBoldly(r)'
  <2>1. CASE r = s  BY <1>1, <1>3, <2>1
  <2>2. CASE r # s  BY <1>3, <2>2 DEF RowsServeOneCall
  <2> QED  BY <2>1, <2>2
<1>4. UsedIsTaken'
  BY <1>2 DEF UsedIsTaken
<1>5. RowsServeOneCall'
  BY <1>3 DEF RowsServeOneCall
<1> QED  BY <1>4, <1>5

LEMMA NewLocals ==
  ASSUME CallsTyped, NEW c \in Calls, NEW pc, NEW todo, NEW row, NEW bold,
         call' = [call EXCEPT ![c] = Locals(pc, todo, row, bold)]
  PROVE  /\ call'[c].pc = pc /\ call'[c].row = row /\ call'[c].bold = bold
         /\ \A d \in Calls : d # c => call'[d] = call[d]
BY DEF CallsTyped, Locals

LEMMA SamePlace ==
  ASSUME CallsTyped, NEW c \in Calls, NEW pc,
         \/ Goto(c, pc)
         \/ pc = call[c].pc /\ \E r : call' = [call EXCEPT ![c].todo = @ \ {r}]
  PROVE  /\ call'[c].pc = pc /\ call'[c].row = call[c].row /\ call'[c].bold = call[c].bold
         /\ \A d \in Calls : d # c => call'[d] = call[d]
<1>1. IsCall(call[c])  BY DEF CallsTyped
<1> QED  BY <1>1 DEF CallsTyped, Goto, IsCall, Locals

\* A step of call c that keeps its row and sends nothing.
LEMMA MoveStep ==
  ASSUME RowInv, TypeOK', NEW c \in Calls, NEW pc, tx' = tx,
         call'[c].pc = pc /\ call'[c].row = call[c].row /\ call'[c].bold = call[c].bold,
         \A d \in Calls : d # c => call'[d] = call[d],
         pc \in {"held", "sent", "armed", "confirmed", "reverted"}
           => call[c].pc \in {"held", "sent", "armed", "confirmed", "reverted"},
         pc \in {"idle", "trying", "posted", "refused", "reposted", "derived"}
           => call[c].pc \in {"idle", "trying", "posted", "refused", "reposted", "derived"},
         tx[c] # "unsent" => pc \in {"sent", "armed", "confirmed", "reverted", "done",
                                    "failed", "closed"},
         pc = "reverted" => tx[c] \in {"unsent", "reverted"},
         \A r \in Rows : \/ status'[r] = status[r] \/ status'[r] \in {"in_use", "resolved"}
                         \/ TakenBoldly(r)' \/ \A d \in Calls : ~ Uses(d, r)'
  PROVE  RowInv'
<1>1. \A d \in Calls, r \in Rows : Uses(d, r)' => Uses(d, r)
  BY DEF Uses
<1>2. \A r \in Rows : TakenBoldly(r) => TakenBoldly(r)'
  BY DEF TakenBoldly
<1>3. UsedIsTaken' /\ RowsServeOneCall'
  BY <1>1, <1>2, QuietStep DEF RowInv
<1>4. TxFollowsCall'
  BY DEF RowInv, TxFollowsCall
<1>5. BoldHasRow'
  BY DEF RowInv, BoldHasRow
<1> QED  BY <1>3, <1>4, <1>5 DEF RowInv

\* A step that changes neither the calls nor the transactions.
LEMMA TableStep ==
  ASSUME RowInv, TypeOK', UNCHANGED <<call, tx>>,
         \A r \in Rows : \/ status'[r] = status[r] \/ status'[r] \in {"in_use", "resolved"}
                         \/ \A d \in Calls : ~ Uses(d, r) \/ TakenBoldly(r)
  PROVE  RowInv'
<1>1. /\ \A d \in Calls, r \in Rows : Uses(d, r)' <=> Uses(d, r)
      /\ \A r \in Rows : TakenBoldly(r)' <=> TakenBoldly(r)
  BY DEF Uses, TakenBoldly
<1>2. UsedIsTaken' /\ RowsServeOneCall'
  <2>1. \A r \in Rows : \/ status'[r] = status[r] \/ status'[r] \in {"in_use", "resolved"}
                         \/ TakenBoldly(r)' \/ \A d \in Calls : ~ Uses(d, r)'
    BY <1>1
  <2> QED  BY <1>1, <2>1, QuietStep DEF RowInv
<1>3. TxFollowsCall' /\ BoldHasRow'
  BY DEF RowInv, TxFollowsCall, BoldHasRow
<1> QED  BY <1>2, <1>3 DEF RowInv

\* A step by which a call without a row gets new locals.
LEMMA ClaimStep ==
  ASSUME RowInv, TypeOK', NEW c \in Calls, NEW pc, NEW todo, NEW r, NEW bold \in BOOLEAN,
         call' = [call EXCEPT ![c] = Locals(pc, todo, r, bold)], tx' = tx,
         call[c].pc \in {"idle", "trying", "posted", "refused", "reposted"},
         \/ pc \in {"trying", "posted", "reposted", "derived"} /\ ~ bold
         \/ pc = "held" /\ (bold \/ (r \in Rows => status[r] = "pending" /\ status'[r] = "in_use")),
         pc # "held" => \A s \in Rows : \/ status'[s] = status[s] \/ status'[s] = "in_use"
                                      \/ status[s] = "none",
         pc = "held" => \A s \in Rows : s # r => status'[s] = status[s]
  PROVE  RowInv'
<1>1. /\ call'[c].pc = pc /\ call'[c].row = r /\ call'[c].bold = bold
      /\ \A d \in Calls : d # c => call'[d] = call[d]
  BY NewLocals DEF RowInv, TypeOK, CallsTyped
<1>2. ~ call[c].bold /\ tx[c] = "unsent"
  BY DEF RowInv, BoldHasRow, TxFollowsCall
<1>3. \A s \in Rows : TakenBoldly(s) => TakenBoldly(s)'
  BY <1>1, <1>2 DEF TakenBoldly
<1>4. UsedIsTaken' /\ RowsServeOneCall'
  <2>1. CASE pc = "held"
    <3>1. \A d \in Calls, s \in Rows : Uses(d, s)' => Uses(d, s) \/ (d = c /\ s = r)
      BY <1>1 DEF Uses
    <3>2. bold => TakenBoldly(r)'
      BY <1>1 DEF TakenBoldly
    <3> QED  BY <1>3, <2>1, <3>1, <3>2, GainStep DEF RowInv
  <2>2. CASE pc # "held"
    <3>1. \A d \in Calls, s \in Rows : Uses(d, s)' => Uses(d, s)
      BY <1>1, <1>2, <2>2 DEF Uses
    <3>2. \A s \in Rows : status[s] = "none" => TakenBoldly(s) \/ \A d \in Calls : ~ Uses(d, s)
      BY DEF RowInv, UsedIsTaken
    <3>3. \A s \in Rows : \/ status'[s] = status[s] \/ status'[s] \in {"in_use", "resolved"}
                          \/ TakenBoldly(s)' \/ \A d \in Calls : ~ Uses(d, s)'
      BY <1>3, <2>2, <3>1, <3>2
    <3> QED  BY <1>3, <3>1, <3>3, QuietStep DEF RowInv
  <2> QED  BY <2>1, <2>2
<1>5. TxFollowsCall'
  BY <1>1, <1>2 DEF RowInv, TxFollowsCall
<1>6. BoldHasRow'
  BY <1>1 DEF RowInv, BoldHasRow
<1> QED  BY <1>4, <1>5, <1>6 DEF RowInv

LEMMA DeriveStep ==
  ASSUME RowInv, TypeOK', NEW c \in Calls, Derive(c), tx' = tx,
         call[c].pc \in {"idle", "trying", "posted", "refused", "reposted"},
         \A s \in Rows : \/ status'[s] = status[s] \/ status'[s] = "in_use"
                         \/ status[s] = "none"
  PROVE  RowInv'
<1>1. call' = [call EXCEPT ![c] = Locals("derived", {}, None, FALSE)]
  BY DEF Derive
<1>2. FALSE \in BOOLEAN /\ "derived" # "held"
  OBVIOUS
<1> QED  BY <1>1, <1>2, ClaimStep

LEMMA HoldStep ==
  ASSUME RowInv, TypeOK', NEW c \in Calls, NEW r, NEW bold \in BOOLEAN, Hold(c, r, bold),
         tx' = tx, call[c].pc \in {"idle", "trying", "posted", "refused", "reposted"},
         bold \/ (r \in Rows => status[r] = "pending" /\ status'[r] = "in_use"),
         \A s \in Rows : status'[s] = status[s] \/ (s = r /\ status'[s] = "in_use")
  PROVE  RowInv'
<1>1. CASE call' = [call EXCEPT ![c] = Locals("held", {}, r, bold)]
  <2>1. \A s \in Rows : s # r => status'[s] = status[s]
    OBVIOUS
  <2> DEFINE held == "held"
  <2>2. held = "held" /\ call' = [call EXCEPT ![c] = Locals(held, {}, r, bold)]
    BY <1>1
  <2> HIDE DEF held
  <2> QED  BY <2>1, <2>2, ClaimStep
<1>2. CASE Derive(c)
  BY <1>2, DeriveStep
<1> QED  BY <1>1, <1>2 DEF Hold

\* What a request for row r does to the table.
LEMMA ClaimServed ==
  ASSUME TypeOK, NEW r, NEW answer, ServeClaim(r, answer)
  PROVE  /\ \A s \in Rows : status'[s] = status[s] \/ (s = r /\ status'[s] = "in_use")
         /\ answer = "granted" /\ r \in Rows => status[r] = "pending" /\ status'[r] = "in_use"
BY DEF TypeOK, ServeClaim, Set

LEMMA PostServed ==
  ASSUME TypeOK, NEW r, NEW answer, ServePost(r, answer)
  PROVE  \A s \in Rows : status'[s] = status[s] \/ status[s] = "none"
BY DEF TypeOK, ServePost, Set

LEMMA PatchServed ==
  ASSUME TypeOK, NEW r, NEW s, ServePatch(r, s)
  PROVE  \A k \in Rows : status'[k] = status[k] \/ (k = r /\ status'[k] = s)
BY DEF TypeOK, ServePatch, Set

LEMMA RowStep ==
  ASSUME ~ WaitMayFail, RowInv, [Next]_vars
  PROVE  RowInv'
<1>1. TypeOK'
  BY NextTyped DEF RowInv
<1>2. TypeOK /\ CallsTyped
  BY DEF RowInv, TypeOK, CallsTyped
<1>3. CASE UNCHANGED vars
  BY <1>1, <1>3, TableStep DEF vars
<1>4. ASSUME NEW c \in Calls, FetchPending(c) PROVE RowInv'
  <2>1. tx' = tx /\ status' = status /\ call[c].pc = "idle"
    BY <1>4 DEF FetchPending, At
  <2>2. CASE call' = [call EXCEPT ![c] = Locals("trying", Pending, None, FALSE)]
    BY <1>1, <2>1, <2>2, ClaimStep
  <2>3. CASE Derive(c)
    BY <1>1, <2>1, <2>3, DeriveStep
  <2> QED  BY <1>4, <2>2, <2>3 DEF FetchPending
<1>5. ASSUME NEW c \in Calls, NEW r \in Rows, TryClaim(c, r) PROVE RowInv'
  <2>1. tx' = tx /\ call[c].pc = "trying"
    BY <1>5 DEF TryClaim, At
  <2>2. PICK answer \in {"granted", "refused", "lost"} :
          /\ ServeClaim(r, answer)
          /\ CASE answer = "granted" -> Hold(c, r, FALSE)
               [] answer = "refused" -> call' = [call EXCEPT ![c].todo = @ \ {r}]
               [] answer = "lost" -> Derive(c)
    BY <1>5 DEF TryClaim
  <2>3. CASE answer = "granted"
    BY <1>1, <1>2, <2>1, <2>2, <2>3, ClaimServed, HoldStep
  <2>4. CASE answer = "refused"
    <3>1. call' = [call EXCEPT ![c].todo = @ \ {r}]
      BY <2>2, <2>4
    <3>2. /\ call'[c].pc = "trying" /\ call'[c].row = call[c].row
          /\ call'[c].bold = call[c].bold /\ \A d \in Calls : d # c => call'[d] = call[d]
      BY <1>2, <2>1, <3>1, SamePlace
    <3>3. \A s \in Rows : status'[s] = status[s] \/ status'[s] = "in_use"
      BY <1>2, <2>2, ClaimServed
    <3> QED  BY <1>1, <2>1, <3>2, <3>3, MoveStep DEF RowInv, TxFollowsCall
  <2>5. CASE answer = "lost"
    BY <1>1, <1>2, <2>1, <2>2, <2>5, ClaimServed, DeriveStep
  <2> QED  BY <2>2, <2>3, <2>4, <2>5
<1>6. ASSUME NEW c \in Calls, NEW r \in Rows, NEW from \in {"trying", "refused"},
             NEW to \in {"posted", "reposted"}, PostFresh(c, r, from, to)
      PROVE RowInv'
  <2>1. tx' = tx /\ call[c].pc = from
    BY <1>6 DEF PostFresh, At
  <2>2. PICK answer \in {"granted", "lost"} :
          /\ ServePost(r, answer)
          /\ call' = [call EXCEPT ![c] = Locals(to, {}, r, FALSE)] \/ Derive(c)
    BY <1>6 DEF PostFresh
  <2>3. CASE call' = [call EXCEPT ![c] = Locals(to, {}, r, FALSE)]
    BY <1>1, <1>2, <2>1, <2>2, <2>3, PostServed, ClaimStep
  <2>4. CASE Derive(c)
    BY <1>1, <1>2, <2>1, <2>2, <2>4, PostServed, DeriveStep
  <2> QED  BY <2>2, <2>3, <2>4
<1>7. ASSUME NEW c \in Calls, ClaimFresh(c) PROVE RowInv'
  <2>1. tx' = tx /\ call[c].pc = "posted"
    BY <1>7 DEF ClaimFresh, At
  <2>2. PICK answer \in {"granted", "refused", "lost"} :
          /\ ServeClaim(call[c].row, answer)
          /\ CASE answer = "granted" -> Hold(c, call[c].row, FALSE)
               [] answer = "refused" -> Goto(c, "refused")
               [] answer = "lost" -> Derive(c)
    BY <1>7 DEF ClaimFresh
  <2>3. CASE answer = "granted"
    BY <1>1, <1>2, <2>1, <2>2, <2>3, ClaimServed, HoldStep
  <2>4. CASE answer = "refused"
    BY <1>1, <1>2, <2>1, <2>2, <2>4, ClaimServed, SamePlace, MoveStep DEF RowInv, TxFollowsCall
  <2>5. CASE answer = "lost"
    BY <1>1, <1>2, <2>1, <2>2, <2>5, ClaimServed, DeriveStep
  <2> QED  BY <2>2, <2>3, <2>4, <2>5
<1>8. ASSUME NEW c \in Calls, ClaimAgain(c) PROVE RowInv'
  <2>1. tx' = tx /\ call[c].pc = "reposted"
    BY <1>8 DEF ClaimAgain, At
  <2>2. PICK answer \in {"granted", "refused", "lost"} :
          /\ ServeClaim(call[c].row, answer)
          /\ IF answer = "lost" THEN Derive(c)
             ELSE Hold(c, call[c].row, answer = "refused")
    BY <1>8 DEF ClaimAgain
  <2>3. CASE answer = "lost"
    BY <1>1, <1>2, <2>1, <2>2, <2>3, ClaimServed, DeriveStep
  <2>4. CASE answer # "lost"
    <3>1. PICK bold \in BOOLEAN : bold = (answer = "refused")
      OBVIOUS
    <3>2. Hold(c, call[c].row, bold)
      BY <2>2, <2>4, <3>1
    <3>3. bold \/ (call[c].row \in Rows
                    => status[call[c].row] = "pending" /\ status'[call[c].row] = "in_use")
      <4>1. CASE answer = "granted"
        BY <1>2, <2>2, <4>1, ClaimServed
      <4>2. CASE answer = "refused"
        BY <3>1, <4>2
      <4> QED  BY <2>2, <2>4, <4>1, <4>2
    <3>4. \A s \in Rows :
            status'[s] = status[s] \/ (s = call[c].row /\ status'[s] = "in_use")
      BY <1>2, <2>2, ClaimServed
    <3> QED  BY <1>1, <2>1, <3>2, <3>3, <3>4, HoldStep
  <2> QED  BY <2>3, <2>4
<1>9. ASSUME NEW c \in Calls, CountPool(c) PROVE RowInv'
  BY <1>1, <1>9, TableStep DEF CountPool
<1>10. ASSUME NEW r \in Rows, NEW answer, ServePost(r, answer), UNCHANGED <<call, tx>>
       PROVE RowInv'
  <2>1. \A s \in Rows : status'[s] = status[s] \/ status[s] = "none"
    BY <1>2, <1>10, PostServed
  <2>2. \A s \in Rows : status[s] = "none" =>
          \A d \in Calls : ~ Uses(d, s) \/ TakenBoldly(s)
    BY DEF RowInv, UsedIsTaken
  <2> QED  BY <1>1, <1>10, <2>1, <2>2, TableStep
<1>11. ASSUME NEW c \in Calls, NEW r \in PoolRows, PostSpare(c, r) PROVE RowInv'
  BY <1>10, <1>11 DEF PostSpare, Rows
<1>12. ASSUME NEW c \in Calls, Abandon(c) PROVE RowInv'
  <2>1. tx' = tx /\ status' = status /\ call[c].pc = "held" /\ Goto(c, "left")
    BY <1>12 DEF Abandon, At
  <2> QED  BY <1>1, <1>2, <2>1, SamePlace, MoveStep DEF RowInv, TxFollowsCall
<1>13. ASSUME NEW c \in Calls, NEW pc \in {"sent", "armed"}, Send(c, pc) PROVE RowInv'
  <2>1. /\ status' = status /\ call[c].pc = "held" /\ Goto(c, pc)
        /\ tx' = [tx EXCEPT ![c] = "pending"]
    BY <1>13 DEF Send, At
  <2>2. /\ call'[c].pc = pc /\ call'[c].row = call[c].row /\ call'[c].bold = call[c].bold
        /\ \A d \in Calls : d # c => call'[d] = call[d]
    BY <1>2, <2>1, SamePlace
  <2>3. \A d \in Calls : tx'[d] = IF d = c THEN "pending" ELSE tx[d]
    BY <1>2, <2>1 DEF TypeOK
  <2>4. /\ \A d \in Calls, r \in Rows : Uses(d, r)' => Uses(d, r)
        /\ \A r \in Rows : TakenBoldly(r) => TakenBoldly(r)'
    BY <2>1, <2>2, <2>3 DEF Uses, TakenBoldly
  <2>5. UsedIsTaken' /\ RowsServeOneCall'
    BY <2>1, <2>4, QuietStep DEF RowInv
  <2>6. TxFollowsCall' /\ BoldHasRow'
    BY <2>1, <2>2, <2>3 DEF RowInv, TxFollowsCall, BoldHasRow
  <2> QED  BY <1>1, <2>5, <2>6 DEF RowInv
<1>14. ASSUME NEW c \in Calls, Confirm(c) PROVE RowInv'
  <2>1. tx' = tx /\ status' = status /\ call[c].pc = "sent" /\ Goto(c, "confirmed")
    BY <1>14 DEF Confirm, At
  <2> QED  BY <1>1, <1>2, <2>1, SamePlace, MoveStep DEF RowInv, TxFollowsCall
<1>15. ASSUME NEW c \in Calls, TxFails(c) PROVE RowInv'
  <2>1. /\ tx' = tx /\ status' = status /\ Goto(c, "reverted")
        /\ call[c].pc \in {"held", "sent"} /\ tx[c] \in {"unsent", "reverted"}
    BY <1>15 DEF TxFails, At, RowInv, TxFollowsCall
  <2> QED  BY <1>1, <1>2, <2>1, SamePlace, MoveStep DEF RowInv, TxFollowsCall
<1>16. ASSUME NEW c \in Calls, Resolve(c) PROVE RowInv'
  <2>1. /\ tx' = tx /\ Goto(c, "done") /\ call[c].pc \in {"confirmed", "armed"}
        /\ ServePatch(call[c].row, "resolved") \/ UNCHANGED status
    BY <1>16 DEF Resolve, At
  <2>2. \A r \in Rows : status'[r] = status[r] \/ status'[r] = "resolved"
    BY <1>2, <2>1, PatchServed
  <2> QED  BY <1>1, <1>2, <2>1, <2>2, SamePlace, MoveStep DEF RowInv, TxFollowsCall
<1>17. ASSUME NEW c \in Calls, Release(c) PROVE RowInv'
  <2>1. /\ tx' = tx /\ Goto(c, "failed") /\ call[c].pc = "reverted"
        /\ ServePatch(call[c].row, "pending")
    BY <1>17 DEF Release, At
  <2>2. /\ call'[c].pc = "failed" /\ call'[c].row = call[c].row /\ call'[c].bold = call[c].bold
        /\ \A d \in Calls : d # c => call'[d] = call[d]
    BY <1>2, <2>1, SamePlace
  <2>3. \A r \in Rows : status'[r] = status[r] \/ r = call[c].row
    BY <1>2, <2>1, PatchServed
  <2>4. ASSUME NEW r \in Rows, r = call[c].row, NEW d \in Calls, Uses(d, r)'
        PROVE TakenBoldly(r)'
    <3>1. d # c
      BY <2>1, <2>2, <2>4 DEF Uses, RowInv, TxFollowsCall
    <3>2. Uses(d, r) /\ Uses(c, r)
      BY <2>1, <2>2, <2>4, <3>1 DEF Uses
    <3>3. TakenBoldly(r)
      BY <2>4, <3>1, <3>2 DEF RowInv, RowsServeOneCall
    <3> QED  BY <2>2, <3>3 DEF TakenBoldly
  <2>5. ASSUME NEW r \in Rows, status'[r] # status[r]
        PROVE  TakenBoldly(r)' \/ \A d \in Calls : ~ Uses(d, r)'
    BY <2>3, <2>4, <2>5
  <2> QED  BY <1>1, <1>2, <2>1, <2>2, <2>5, MoveStep DEF RowInv, TxFollowsCall
<1>18. ASSUME NEW c \in Calls, Decide(c) PROVE RowInv'
  <2>1. call' = call /\ status' = status /\ tx[c] = "pending"
    BY <1>18 DEF Decide
  <2>2. PICK outcome \in {"mined", "reverted"} : tx' = [tx EXCEPT ![c] = outcome]
    BY <1>18 DEF Decide
  <2>3. \A d \in Calls : tx'[d] = IF d = c THEN outcome ELSE tx[d]
    BY <1>2, <2>2 DEF TypeOK
  <2>4. /\ \A d \in Calls, r \in Rows : Uses(d, r)' => Uses(d, r)
        /\ \A r \in Rows : TakenBoldly(r) => TakenBoldly(r)'
    BY <2>1, <2>3 DEF Uses, TakenBoldly
  <2>5. UsedIsTaken' /\ RowsServeOneCall'
    BY <2>1, <2>4, QuietStep DEF RowInv
  <2>6. TxFollowsCall' /\ BoldHasRow'
    BY <2>1, <2>2, <2>3 DEF RowInv, TxFollowsCall, BoldHasRow
  <2> QED  BY <1>1, <2>5, <2>6 DEF RowInv
<1>19. ASSUME NEW c \in Calls, CloseTab(c) PROVE RowInv'
  <2>1. tx' = tx /\ status' = status /\ Goto(c, "closed")
    BY <1>19 DEF CloseTab
  <2> QED  BY <1>1, <1>2, <2>1, SamePlace, MoveStep
<1>20. ASSUME NEW r \in OutputRows, CreateOutput(r) PROVE RowInv'
  BY <1>10, <1>20 DEF CreateOutput, Rows
<1>21. ASSUME NEW r \in OutputRows, Land(r) PROVE RowInv'
  BY <1>1, <1>21, TableStep DEF Land
<1>22. ASSUME NEW r \in OutputRows, ResolveOutput(r) PROVE RowInv'
  <2>1. UNCHANGED <<call, tx>> /\ ServePatch(r, "resolved")
    BY <1>22 DEF ResolveOutput
  <2>2. \A s \in Rows : status'[s] = status[s] \/ status'[s] = "resolved"
    BY <1>2, <2>1, PatchServed
  <2> QED  BY <1>1, <2>1, <2>2, TableStep
<1>23. CASE FetchOutputs
  BY <1>1, <1>23, TableStep DEF FetchOutputs
<1> QED
  BY <1>3, <1>4, <1>5, <1>6, <1>7, <1>8, <1>9, <1>11, <1>12, <1>13, <1>14, <1>15, <1>16, <1>17,
     <1>18, <1>19, <1>20, <1>21, <1>22, <1>23, NextCases, Zenon

LEMMA RowInit == Init => RowInv
<1> SUFFICES ASSUME Init PROVE RowInv  OBVIOUS
<1>1. \A c \in Calls : call[c] = Locals("idle", {}, None, FALSE) /\ tx[c] = "unsent"
  BY DEF Init
<1>2. \A c \in Calls : call[c].pc = "idle" /\ ~ call[c].bold
  BY <1>1 DEF Locals
<1>3. TxFollowsCall /\ BoldHasRow
  BY <1>1, <1>2 DEF TxFollowsCall, BoldHasRow
<1>4. \A c \in Calls, r \in Rows : ~ Uses(c, r)
  BY <1>1, <1>2 DEF Uses
<1> QED  BY <1>3, <1>4, InitTyped DEF RowInv, UsedIsTaken, RowsServeOneCall

\* When a wait for a receipt never throws while its transaction lives, no two calls use
\* one row of the table, unless a call used a row whose claim was refused.
THEOREM RowsServed == ~ WaitMayFail => (Spec => []RowsServeOneCall)
<1>1. SUFFICES ASSUME ~ WaitMayFail PROVE Spec => []RowsServeOneCall
  OBVIOUS
<1>2. Init => RowInv
  BY RowInit
<1>3. RowInv /\ [Next]_vars => RowInv'
  BY <1>1, RowStep
<1>4. RowInv => RowsServeOneCall
  BY DEF RowInv
<1> QED  BY <1>2, <1>3, <1>4, PTL DEF Spec

-------------------------------------------------------------------------------
(***************************************************************************)
(* The requests implement the contract of the pool.  A step leaves the row *)
(* of a call alone, or is part of its claim, in which the call comes to    *)
(* have a row only if it was on offer or the call is bold.                 *)
(***************************************************************************)

Claimants == {"idle", "trying", "posted", "refused", "reposted"}
Having == {"held", "sent", "armed", "confirmed", "reverted"}

KeepsRow(c) ==
  /\ call'[c].row = call[c].row /\ call'[c].bold = call[c].bold
  /\ call'[c].pc \in Having => call[c].pc \in Having
  /\ \/ tx'[c] = tx[c]
     \/ call[c].pc = "held" /\ tx'[c] = "pending"
     \/ tx[c] = "pending" /\ tx'[c] \in {"mined", "reverted"}

Claims(c) ==
  /\ call[c].pc \in Claimants /\ tx'[c] = tx[c]
  /\ call'[c].pc \in Having =>
       call'[c].bold \/ (call'[c].row \in Rows => status[call'[c].row] = "pending")

LEMMA StillKeeps ==
  ASSUME NEW c, call'[c] = call[c], tx'[c] = tx[c]
  PROVE  KeepsRow(c)
BY DEF KeepsRow

\* The only call a step of call c concerns is c.
LEMMA OthersKeep ==
  ASSUME NEW c, \A d \in Calls \ {c} : call'[d] = call[d] /\ tx'[d] = tx[d],
         KeepsRow(c) \/ Claims(c)
  PROVE  \A d \in Calls : KeepsRow(d) \/ Claims(d)
BY StillKeeps

LEMMA NewLocalsClaim ==
  ASSUME CallsTyped, NEW c \in Calls, NEW pc, NEW todo, NEW r, NEW bold, tx' = tx,
         call' = [call EXCEPT ![c] = Locals(pc, todo, r, bold)], call[c].pc \in Claimants,
         pc \in Having => bold \/ (r \in Rows => status[r] = "pending")
  PROVE  \A d \in Calls : KeepsRow(d) \/ Claims(d)
<1>1. /\ call'[c].pc = pc /\ call'[c].row = r /\ call'[c].bold = bold
      /\ \A d \in Calls : d # c => call'[d] = call[d]
  BY NewLocals
<1>2. Claims(c) BY <1>1 DEF Claims
<1> QED BY <1>1, <1>2, OthersKeep

LEMMA DeriveClaims ==
  ASSUME CallsTyped, NEW c \in Calls, Derive(c), tx' = tx, call[c].pc \in Claimants
  PROVE  \A d \in Calls : KeepsRow(d) \/ Claims(d)
<1>1. call' = [call EXCEPT ![c] = Locals("derived", {}, None, FALSE)] BY DEF Derive
<1>2. "derived" \notin Having BY DEF Having
<1> QED BY <1>1, <1>2, NewLocalsClaim

LEMMA HoldClaims ==
  ASSUME CallsTyped, NEW c \in Calls, NEW r, NEW bold, Hold(c, r, bold), tx' = tx,
         call[c].pc \in Claimants, bold \/ (r \in Rows => status[r] = "pending")
  PROVE  \A d \in Calls : KeepsRow(d) \/ Claims(d)
<1>1. CASE call' = [call EXCEPT ![c] = Locals("held", {}, r, bold)]
  BY <1>1, NewLocalsClaim
<1>2. CASE Derive(c) BY <1>2, DeriveClaims
<1> QED BY <1>1, <1>2 DEF Hold

LEMMA MoveKeeps ==
  ASSUME CallsTyped, NEW c \in Calls, NEW pc, tx' = tx,
         \/ Goto(c, pc)
         \/ pc = call[c].pc /\ \E r : call' = [call EXCEPT ![c].todo = @ \ {r}],
         pc \in Having => call[c].pc \in Having
  PROVE  \A d \in Calls : KeepsRow(d) \/ Claims(d)
<1>1. /\ call'[c].pc = pc /\ call'[c].row = call[c].row /\ call'[c].bold = call[c].bold
      /\ \A d \in Calls : d # c => call'[d] = call[d]
  BY SamePlace
<1>2. KeepsRow(c) BY <1>1 DEF KeepsRow
<1> QED BY <1>1, <1>2, OthersKeep

LEMMA KeepsOrClaims ==
  ASSUME TypeOK, [Next]_vars
  PROVE  \A d \in Calls : KeepsRow(d) \/ Claims(d)
<1> DEFINE Goal == \A d \in Calls : KeepsRow(d) \/ Claims(d)
<1>1. CallsTyped /\ tx \in [Calls -> TxStatuses] BY DEF TypeOK, CallsTyped
<1>2. ASSUME UNCHANGED <<call, tx>> PROVE Goal BY <1>2, StillKeeps
<1>3. ASSUME NEW c \in Calls, FetchPending(c) PROVE Goal
  <2>1. tx' = tx /\ call[c].pc \in Claimants BY <1>3 DEF FetchPending, At, Claimants
  <2>2. ASSUME call' = [call EXCEPT ![c] = Locals("trying", Pending, None, FALSE)] PROVE Goal
    <3>1. "trying" \notin Having BY DEF Having
    <3> QED BY <1>1, <2>1, <2>2, <3>1, NewLocalsClaim
  <2>3. ASSUME Derive(c) PROVE Goal BY <1>1, <2>1, <2>3, DeriveClaims
  <2> QED BY <1>3, <2>2, <2>3 DEF FetchPending
<1>4. ASSUME NEW c \in Calls, NEW r \in Rows, TryClaim(c, r) PROVE Goal
  <2>1. tx' = tx /\ call[c].pc = "trying" /\ "trying" \in Claimants
    BY <1>4 DEF TryClaim, At, Claimants
  <2>2. PICK answer \in {"granted", "refused", "lost"} :
          /\ ServeClaim(r, answer)
          /\ CASE answer = "granted" -> Hold(c, r, FALSE)
               [] answer = "refused" -> call' = [call EXCEPT ![c].todo = @ \ {r}]
               [] answer = "lost" -> Derive(c)
    BY <1>4 DEF TryClaim
  <2>3. ASSUME answer = "granted" PROVE Goal
    BY <1>1, <2>1, <2>2, <2>3, ClaimServed, HoldClaims DEF TypeOK
  <2>4. ASSUME answer = "refused" PROVE Goal
    <3>1. call' = [call EXCEPT ![c].todo = @ \ {r}] BY <2>2, <2>4
    <3> QED BY <1>1, <2>1, <3>1, MoveKeeps
  <2>5. ASSUME answer = "lost" PROVE Goal BY <1>1, <2>1, <2>2, <2>5, DeriveClaims
  <2> QED BY <2>2, <2>3, <2>4, <2>5
<1>5. ASSUME NEW c \in Calls, NEW r \in Rows, NEW from \in Claimants,
             NEW to \in {"posted", "reposted"}, PostFresh(c, r, from, to)
      PROVE Goal
  <2>1. tx' = tx /\ call[c].pc = from /\ to \notin Having
    BY <1>5 DEF PostFresh, At, Having
  <2>2. ASSUME call' = [call EXCEPT ![c] = Locals(to, {}, r, FALSE)] PROVE Goal
    BY <1>1, <2>1, <2>2, NewLocalsClaim
  <2>3. ASSUME Derive(c) PROVE Goal BY <1>1, <2>1, <2>3, DeriveClaims
  <2> QED BY <1>5, <2>2, <2>3 DEF PostFresh
<1>6. ASSUME NEW c \in Calls, ClaimFresh(c) PROVE Goal
  <2>1. tx' = tx /\ call[c].pc = "posted" /\ "posted" \in Claimants
    BY <1>6 DEF ClaimFresh, At, Claimants
  <2>2. PICK answer \in {"granted", "refused", "lost"} :
          /\ ServeClaim(call[c].row, answer)
          /\ CASE answer = "granted" -> Hold(c, call[c].row, FALSE)
               [] answer = "refused" -> Goto(c, "refused")
               [] answer = "lost" -> Derive(c)
    BY <1>6 DEF ClaimFresh
  <2>3. ASSUME answer = "granted" PROVE Goal
    BY <1>1, <2>1, <2>2, <2>3, ClaimServed, HoldClaims DEF TypeOK
  <2>4. ASSUME answer = "refused" PROVE Goal
    <3>1. "refused" \notin Having BY DEF Having
    <3> QED BY <1>1, <2>1, <2>2, <2>4, <3>1, MoveKeeps
  <2>5. ASSUME answer = "lost" PROVE Goal BY <1>1, <2>1, <2>2, <2>5, DeriveClaims
  <2> QED BY <2>2, <2>3, <2>4, <2>5
<1>7. ASSUME NEW c \in Calls, ClaimAgain(c) PROVE Goal
  <2>1. tx' = tx /\ call[c].pc \in Claimants BY <1>7 DEF ClaimAgain, At, Claimants
  <2>2. PICK answer \in {"granted", "refused", "lost"} :
          /\ ServeClaim(call[c].row, answer)
          /\ IF answer = "lost" THEN Derive(c)
             ELSE Hold(c, call[c].row, answer = "refused")
    BY <1>7 DEF ClaimAgain
  <2>3. ASSUME answer = "lost" PROVE Goal BY <1>1, <2>1, <2>2, <2>3, DeriveClaims
  <2>4. ASSUME answer # "lost" PROVE Goal
    <3>1. PICK bold \in BOOLEAN : bold = (answer = "refused") OBVIOUS
    <3>2. Hold(c, call[c].row, bold) BY <2>2, <2>4, <3>1
    <3>3. bold \/ (call[c].row \in Rows => status[call[c].row] = "pending")
      BY <2>2, <2>4, <3>1, ClaimServed DEF TypeOK
    <3> QED BY <1>1, <2>1, <3>2, <3>3, HoldClaims
  <2> QED BY <2>3, <2>4
<1>8. ASSUME NEW c \in Calls, Send(c, "sent") \/ Send(c, "armed") PROVE Goal
  <2>1. PICK pc \in {"sent", "armed"} :
          call[c].pc = "held" /\ Goto(c, pc) /\ tx' = [tx EXCEPT ![c] = "pending"]
    BY <1>8 DEF Send, At
  <2>2. /\ call'[c].pc = pc /\ call'[c].row = call[c].row /\ call'[c].bold = call[c].bold
        /\ \A d \in Calls : d # c => call'[d] = call[d]
    BY <1>1, <2>1, SamePlace
  <2>3. tx'[c] = "pending" /\ \A d \in Calls \ {c} : tx'[d] = tx[d] BY <1>1, <2>1
  <2>4. KeepsRow(c) BY <2>1, <2>2, <2>3 DEF KeepsRow, Having
  <2> QED BY <2>2, <2>3, <2>4, OthersKeep
<1>9. ASSUME NEW c \in Calls, Decide(c) PROVE Goal
  <2>1. PICK outcome \in {"mined", "reverted"} :
          call' = call /\ tx[c] = "pending" /\ tx' = [tx EXCEPT ![c] = outcome]
    BY <1>9 DEF Decide
  <2>2. tx'[c] = outcome /\ \A d \in Calls \ {c} : tx'[d] = tx[d] BY <1>1, <2>1
  <2>3. KeepsRow(c) BY <2>1, <2>2 DEF KeepsRow
  <2> QED BY <2>1, <2>2, <2>3, OthersKeep
<1>10. ASSUME NEW c \in Calls,
              Abandon(c) \/ Confirm(c) \/ TxFails(c) \/ Resolve(c) \/ Release(c) \/ CloseTab(c)
       PROVE  Goal
  <2>1. PICK pc : tx' = tx /\ Goto(c, pc) /\ (pc \in Having => call[c].pc \in Having)
    BY <1>10 DEF Abandon, Confirm, TxFails, Resolve, Release, CloseTab, At, Having
  <2> QED BY <1>1, <2>1, MoveKeeps
<1>11. /\ "trying" \in Claimants /\ "posted" \in {"posted", "reposted"}
       /\ "refused" \in Claimants /\ "reposted" \in {"posted", "reposted"}
  BY DEF Claimants
<1>12. ASSUME \/ UNCHANGED vars \/ FetchOutputs
              \/ \E c \in Calls : CountPool(c) \/ \E r \in PoolRows : PostSpare(c, r)
              \/ \E r \in OutputRows : CreateOutput(r) \/ Land(r) \/ ResolveOutput(r)
       PROVE  Goal
  BY <1>2, <1>12 DEF vars, FetchOutputs, CountPool, PostSpare, CreateOutput, Land, ResolveOutput
<1> SUFFICES Goal OBVIOUS
<1> HIDE DEF Goal
<1> QED
  BY <1>3, <1>4, <1>5, <1>6, <1>7, <1>8, <1>9, <1>10, <1>11, <1>12, NextCases, Zenon

-------------------------------------------------------------------------------


\* What is seen of a row that U use, of them M for a note of the vault.
Seen(void, offered, U, M) ==
  IF void THEN [offered |-> FALSE, by |-> {}, carried |-> TRUE]
  ELSE [offered |-> offered, by |-> U, carried |-> M # {}]

\* A row of the table: one call has it at most, and then it is not on offer.
Sound(void, offered, U, M) ==
  /\ {void, offered} \subseteq BOOLEAN /\ M \subseteq U /\ U \subseteq Calls
  /\ ~ void => (\A c, d \in U : c = d) /\ (U # {} => ~ offered)

\* It is seen to keep the terms if void rows and carried secrets stay what they are, and
\* calls come to have only rows that nobody has, and carry no secret at once.
LEMMA SeenKeepsTerms ==
  ASSUME NEW void, NEW offered, NEW U, NEW M, Sound(void, offered, U, M),
         NEW void2, NEW offered2, NEW U2, NEW M2, Sound(void2, offered2, U2, M2),
         void => void2, ~ void2 => M \subseteq M2,
         ~ void2 /\ ~ (U2 \subseteq U) => U = {} /\ M2 = {}
  PROVE  Contract!RowStep(Seen(void, offered, U, M), Seen(void2, offered2, U2, M2))
<1> DEFINE old == Seen(void, offered, U, M)
           new == Seen(void2, offered2, U2, M2)
<1> USE DEF Contract!RowStep
<1>1. CASE void2 BY <1>1 DEF Seen, Contract!Void
<1>2. ASSUME ~ void2, U = {}, U2 = {} PROVE Contract!RowStep(old, new)
  <2>1. old = [offered |-> offered, by |-> {}, carried |-> FALSE]
    BY <1>2 DEF Seen, Sound
  <2>2. new = [offered |-> offered2, by |-> {}, carried |-> FALSE]
    BY <1>2 DEF Seen, Sound
  <2> QED BY <2>1, <2>2 DEF Sound, Contract!Offer, Contract!Free
<1>3. ASSUME ~ void2, U = {}, NEW c \in U2 PROVE Contract!RowStep(old, new)
  <2>1. old = [offered |-> offered, by |-> {}, carried |-> FALSE]
    BY <1>3 DEF Seen, Sound
  <2>2. U2 = {c} /\ M2 = {} /\ ~ offered2 /\ c \in Calls BY <1>3 DEF Sound
  <2>3. new = [offered |-> FALSE, by |-> {c}, carried |-> FALSE]
    BY <1>3, <2>2 DEF Seen, Sound
  <2> QED BY <2>1, <2>2, <2>3 DEF Sound, Contract!Lend, Contract!Free, Contract!Held
<1>4. ASSUME ~ void2, NEW c \in U, U2 = {} PROVE Contract!RowStep(old, new)
  <2>1. U = {c} /\ M = {} /\ M2 = {} /\ ~ offered /\ c \in Calls BY <1>1, <1>4 DEF Sound
  <2>2. old = [offered |-> FALSE, by |-> {c}, carried |-> FALSE]
    BY <1>4, <2>1 DEF Seen, Sound
  <2>3. new = [offered |-> offered2, by |-> {}, carried |-> FALSE]
    BY <1>4, <2>1 DEF Seen, Sound
  <2> QED BY <2>1, <2>2, <2>3 DEF Sound, Contract!Return, Contract!Free, Contract!Held
<1>5. ASSUME ~ void2, NEW c \in U, U2 # {} PROVE Contract!RowStep(old, new)
  <2>1. U = {c} /\ U2 = {c} /\ ~ offered /\ ~ offered2 /\ c \in Calls BY <1>5 DEF Sound
  <2>2. old = [offered |-> FALSE, by |-> {c}, carried |-> M # {}]
    BY <1>5, <2>1 DEF Seen, Sound
  <2>3. new = [offered |-> FALSE, by |-> {c}, carried |-> M2 # {}]
    BY <1>5, <2>1 DEF Seen, Sound
  <2>4. M # {} => M2 # {} BY <1>5
  <2> QED BY <2>1, <2>2, <2>3, <2>4 DEF Contract!Carry, Contract!Held
<1> QED BY <1>1, <1>2, <1>3, <1>4, <1>5

Users(r) == {c \in Calls : Uses(c, r)}
Carriers(r) == {c \in Mined : call[c].row = r}

LEMMA ViewIsSeen ==
  \A r \in Rows : View(r) = Seen(TakenBoldly(r), status[r] = "pending", Users(r), Carriers(r))
BY DEF View, Seen, Users, Carriers

RowSound(r) == Sound(TakenBoldly(r), status[r] = "pending", Users(r), Carriers(r))

LEMMA RowsSound ==
  ASSUME RowInv, NEW r \in Rows
  PROVE  RowSound(r)
<1>1. Carriers(r) \subseteq Users(r) BY DEF Carriers, Users, Uses, Mined
<1>2. ~ TakenBoldly(r) => \A c, d \in Users(r) : c = d
  BY DEF Users, RowInv, RowsServeOneCall
<1>3. ~ TakenBoldly(r) /\ Users(r) # {} => status[r] # "pending"
  BY DEF Users, RowInv, UsedIsTaken
<1>4. TakenBoldly(r) \in BOOLEAN BY DEF TakenBoldly
<1> QED BY <1>1, <1>2, <1>3, <1>4 DEF RowSound, Sound, Users

LEMMA RowKeepsTerms ==
  ASSUME RowInv, [Next]_vars, NEW r \in Rows, RowSound(r), RowSound(r)'
  PROVE  Contract!RowStep(View(r), View(r)')
<1>0. \A c \in Calls : KeepsRow(c) \/ Claims(c) BY KeepsOrClaims DEF RowInv
<1>1. \A c \in Calls : call[c].pc \in Claimants => ~ call[c].bold /\ tx[c] = "unsent"
  BY DEF RowInv, BoldHasRow, TxFollowsCall, Claimants
<1>2. TakenBoldly(r) => TakenBoldly(r)'
  BY <1>0, <1>1 DEF TakenBoldly, KeepsRow, Claims
<1>3. ASSUME NEW c \in Calls, Uses(c, r)', ~ Uses(c, r), ~ TakenBoldly(r)'
      PROVE  status[r] = "pending" /\ tx'[c] # "mined"
  <2>1. ~ KeepsRow(c) BY <1>3 DEF KeepsRow, Uses, Having
  <2>2. Claims(c) BY <1>0, <2>1
  <2>3. tx'[c] = "unsent" BY <1>1, <2>2 DEF Claims
  <2> QED BY <1>3, <2>2, <2>3 DEF Claims, Uses, TakenBoldly, Having
<1>4. ASSUME NEW c \in Calls, call[c].row = r, tx[c] = "mined"
      PROVE  call'[c].row = r /\ tx'[c] = "mined"
  <2>1. KeepsRow(c) BY <1>0, <1>1, <1>4 DEF Claims
  <2> QED BY <1>4, <2>1 DEF KeepsRow, RowInv, TxFollowsCall
<1>5. Carriers(r) \subseteq Carriers(r)' BY <1>4 DEF Carriers, Mined
<1>6. ASSUME ~ TakenBoldly(r)', NEW c \in Users(r)', c \notin Users(r)
      PROVE  Users(r) = {} /\ Carriers(r)' = {}
  <2>1. c \in Calls /\ Uses(c, r)' /\ ~ Uses(c, r) BY <1>6 DEF Users
  <2>2. status[r] = "pending" /\ tx'[c] # "mined" BY <1>3, <1>6, <2>1
  <2>3. Users(r) = {} BY <1>2, <1>6, <2>2 DEF RowSound, Sound
  <2>4. \A d \in Users(r)' : d = c BY <1>6 DEF RowSound, Sound
  <2>5. Carriers(r)' \subseteq Users(r)' BY DEF RowSound, Sound
  <2> QED BY <2>2, <2>3, <2>4, <2>5 DEF Carriers, Mined
<1> DEFINE void == TakenBoldly(r)
           offered == status[r] = "pending"
           U == Users(r)
           M == Carriers(r)
<1>7. View(r) = Seen(void, offered, U, M) /\ View(r)' = Seen(void', offered', U', M')
  BY DEF View, Seen, Users, Carriers
<1>8. Sound(void, offered, U, M) /\ Sound(void', offered', U', M')
  BY DEF RowSound
<1>9. ~ void' /\ ~ (U' \subseteq U) => U = {} /\ M' = {} BY <1>6
<1> HIDE DEF void, offered, U, M
<1> QED BY <1>2, <1>5, <1>7, <1>8, <1>9, SeenKeepsTerms DEF void, M

\* When a wait for a receipt never throws while its transaction lives, the requests of
\* any number of calls, lost, refused and repeated, keep the terms on which VaultNotes
\* claims, uses and gives back spare rows.  It says nothing of the rows of strategy
\* outputs in the same table.
THEOREM PoolKeepsContract == ~ WaitMayFail => (Spec => KeepsContract)
<1> SUFFICES ASSUME ~ WaitMayFail PROVE Spec => KeepsContract
  OBVIOUS
<1> DEFINE AllSound == \A r \in Rows : RowSound(r)
           Inv == RowInv /\ AllSound
           Lent == [r \in PoolRows |-> View(r)]
<1>1. RowInv => AllSound BY RowsSound
<1>2. Init => RowInv BY RowInit
<1>3. RowInv /\ [Next]_vars => RowInv' BY RowStep
<1>4. Init => Contract!Init
  <2> SUFFICES ASSUME Init, NEW r \in PoolRows PROVE View(r) = Contract!Free(FALSE)
    BY DEF Contract!Init
  <2>1. \A c \in Calls : call[c] = Locals("idle", {}, None, FALSE) /\ tx[c] = "unsent"
    BY DEF Init
  <2>2. ~ TakenBoldly(r) /\ Users(r) = {} /\ Carriers(r) = {} /\ status[r] = "none"
    BY <2>1 DEF Rows, Init, Locals, TakenBoldly, Users, Uses, Carriers, Mined
  <2> QED BY <2>2 DEF View, Users, Carriers, Contract!Free, Rows
<1>5. Inv /\ AllSound' /\ [Next]_vars => [Contract!Next]_Lent
  <2> SUFFICES ASSUME Inv, AllSound', [Next]_vars PROVE Contract!Next
    OBVIOUS
  <2>1. \A r \in PoolRows : r \in Rows BY DEF Rows
  <2>2. \A r \in PoolRows : Contract!RowStep(View(r), View(r)') BY <2>1, RowKeepsTerms
  <2> QED BY <2>2 DEF Contract!Next
<1> HIDE DEF AllSound
<1> QED BY <1>1, <1>2, <1>3, <1>4, <1>5, PTL DEF Spec, KeepsContract, Contract!Spec
===============================================================================
