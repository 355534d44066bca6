--------------------------- MODULE SplitOrderProofs ---------------------------
(***************************************************************************)
(* Proofs about SplitOrder.                                                *)
(***************************************************************************)
EXTENDS SplitOrder, Sums, TLAPS

-------------------------------------------------------------------------------
(***************************************************************************)
(* The inductive invariant                                                 *)
(***************************************************************************)
FeePCs == {"idle", "sendingFee", "backingOff", "awaitingFee"}
ProofPCs == {"proving", "fetching", "hydrating", "sending"}
SplitPCs == {"awaiting", "storing", "legs"}

\* A note was chosen and its value is shared among the first n outputs.
Chosen(o) ==
  /\ order[o].n \in 1 .. SplitN /\ order[o].input \in Notes
  /\ order[o].out \in [1 .. SplitN -> Nat]
  /\ \A i \in 1 .. SplitN : i > order[o].n => order[o].out[i] = 0

\* How far an order is, by its pc and its transactions.
Progress(o) ==
  /\ At(o, "backingOff") => order[o].tries < MaxAttempts
  /\ order[o].pc \in FeePCs \cup ProofPCs =>
       split[o] = None /\ order[o].stored = 0 /\ order[o].legs = 0
  /\ order[o].pc \in {"fetching", "hydrating"} => order[o].n \in 1 .. SplitN
  /\ order[o].pc = "sending" \/ split[o] # None => Chosen(o)
  /\ order[o].pc \in SplitPCs => split[o] # None
  /\ order[o].pc = "awaiting" => order[o].stored = 0 /\ order[o].legs = 0
  /\ order[o].pc = "storing" =>
       split[o] = "mined" /\ order[o].stored <= order[o].n /\ order[o].legs = 0
  /\ order[o].pc = "legs" =>
       split[o] = "mined" /\ order[o].stored = order[o].n /\ order[o].legs < order[o].n

\* What a mined split has done and what an order knows of the chain.
Facts(o) ==
  /\ split[o] = "mined" => order[o].input \in nullified
  /\ split[o] \in {"sent", "mined"} =>
       \/ order[o].pc \in {"awaiting", "storing", "lost", "closed"}
       \/ order[o].stored = order[o].n
  /\ \A i \in 1 .. order[o].stored : Output(o, i) \in DOMAIN rows
  /\ \A m \in order[o].seen : m \in DepositNotes \/ split[m[1]] = "mined"

OrderInv(o) == Progress(o) /\ Facts(o)

IInv == TypeOK /\ (\A o \in Orders : OrderInv(o)) /\ HiddenIsSpent

-------------------------------------------------------------------------------
\* The operations on the rows give rows.
LEMMA StoreOps ==
  ASSUME NEW N, NEW s \in Status, NEW n, IsStore(rows)
  PROVE  /\ IsStore(Put(rows, n, s)) /\ DOMAIN Put(rows, n, s) = DOMAIN rows \cup {n}
         /\ IsStore(MarkAll(rows, N, s)) /\ DOMAIN MarkAll(rows, N, s) = DOMAIN rows
         /\ IsStore(Mark(rows, n, s)) /\ DOMAIN Mark(rows, n, s) = DOMAIN rows
BY DEF IsStore, Put, MarkAll, Mark

\* What an order has by its own locals and transactions is not disturbed by others.
LEMMA OthersKeep ==
  ASSUME NEW e \in Orders, OrderInv(e),
         order'[e] = order[e], split'[e] = split[e],
         nullified \subseteq nullified', DOMAIN rows \subseteq DOMAIN rows',
         \A x \in Orders : split[x] = "mined" => split'[x] = "mined",
         order[e].seen \subseteq Notes
  PROVE  OrderInv(e)'
<1>1. Progress(e)' BY DEF OrderInv, Progress, Chosen, At
<1>2. \A m \in order[e].seen : m \in DepositNotes \/ split'[m[1]] = "mined"
  BY DEF OrderInv, Facts, Notes, OutputNotes
<1> QED BY <1>1, <1>2 DEF OrderInv, Facts, Reserved

\* Shares of a natural number are natural numbers.
LEMMA ShareNat ==
  ASSUME NEW v \in Nat, NEW n \in Nat \ {0}, NEW i \in Nat
  PROVE  Share(v, n, i) \in Nat /\ (i > n => Share(v, n, i) = 0)
<1> DEFINE q == v \div n
<1>1. q \in Nat /\ n * q <= v
  <2>1. v = n * (v \div n) + (v % n) /\ v % n \in Nat /\ v \div n \in Int BY SMTT(30)
  <2>2. v \div n >= 0 BY <2>1, SMTT(30)
  <2> QED BY <2>1, <2>2, SMTT(30)
<1> HIDE DEF q
<1>2. q * (n - 1) = n * q - q BY <1>1
<1>3. q * (n - 1) \in Nat BY <1>1
<1>4. v - q * (n - 1) \in Nat BY <1>1, <1>2, <1>3
<1>5. CASE i < n BY <1>1, <1>5 DEF Share, q
<1>6. CASE i = n BY <1>4, <1>6 DEF Share, q
<1>7. CASE i > n BY <1>7 DEF Share
<1> QED BY <1>5, <1>6, <1>7

LEMMA InitInv == Init => IInv
<1> SUFFICES ASSUME Init PROVE IInv OBVIOUS
<1>1. PICK here \in SUBSET Deposits :
        /\ \A d \in Deposits \ here : server[d] = "false"
        /\ rows = [m \in {Deposit(d) : d \in here} |->
                     IF server[m[1]] = "pending" THEN "true" ELSE "false"]
  BY DEF Init
<1>2. \A o \in Orders : order[o] \in OrderType
  BY BoundsAssumption DEF Init, Locals, OrderType, PCs
<1>3. IsStore(rows) /\ DOMAIN rows \subseteq Notes
  BY <1>1 DEF IsStore, Status, Notes, DepositNotes
<1>4. TypeOK BY <1>2, <1>3 DEF Init, TypeOK, TxStates
<1>5. \A o \in Orders : OrderInv(o)
  BY DEF Init, Locals, OrderInv, Progress, Facts, At, FeePCs, ProofPCs, SplitPCs, None
<1>6. HiddenIsSpent BY <1>1 DEF HiddenIsSpent, Reserved, Deposit
<1> QED BY <1>4, <1>5, <1>6 DEF IInv

-------------------------------------------------------------------------------
(***************************************************************************)
(* Steps                                                                   *)
(***************************************************************************)

\* A step of one order: it is enough to look at that order, the types and the marks.
LEMMA OneOrder ==
  ASSUME IInv, TypeOK', HiddenIsSpent', NEW o \in Orders, OrderInv(o)',
         \A e \in Orders \ {o} : order'[e] = order[e] /\ split'[e] = split[e],
         nullified \subseteq nullified', DOMAIN rows \subseteq DOMAIN rows',
         split[o] = "mined" => split'[o] = "mined"
  PROVE  IInv'
<1>1. ASSUME NEW e \in Orders \ {o} PROVE OrderInv(e)'
  <2>1. OrderInv(e) /\ order[e].seen \subseteq Notes BY DEF IInv, TypeOK, OrderType
  <2> QED BY <2>1, OthersKeep
<1> QED BY <1>1 DEF IInv

\* A step that changes the locals of one order only.
LEMMA LocalStep ==
  ASSUME IInv, NEW o \in Orders, NEW r \in OrderType, order' = [order EXCEPT ![o] = r],
         UNCHANGED <<chain, given, rows>>, OrderInv(o)'
  PROVE  IInv'
<1>1. TypeOK' BY DEF IInv, TypeOK, chain, given
<1>2. HiddenIsSpent' BY DEF IInv, HiddenIsSpent, Reserved, chain, given
<1> QED BY <1>1, <1>2, OneOrder DEF chain, given, IInv, TypeOK

\* The invariant of the order that takes the step, at its old state.
LEMMA Own ==
  ASSUME IInv, NEW o \in Orders
  PROVE  /\ order[o] \in OrderType /\ DOMAIN order = Orders /\ o \in DOMAIN order
         /\ Progress(o) /\ Facts(o)
BY DEF IInv, TypeOK, OrderInv

LEMMA BeginInv ==
  ASSUME IInv, NEW o \in Orders, NEW n \in Counts, Begin(o, n)
  PROVE  IInv'
<1>1. PICK pc \in {"sendingFee", "proving"} : order' = [order EXCEPT ![o] = Locals(n, pc)]
  BY DEF Begin
<1>2. Locals(n, pc) \in OrderType BY BoundsAssumption DEF Locals, OrderType, PCs
<1>3. order'[o] = Locals(n, pc) BY <1>1, Own
<1>4. split'[o] = None BY Own DEF Begin, Progress, At, FeePCs, chain
<1>5. OrderInv(o)'
  BY <1>3, <1>4 DEF Locals, OrderInv, Progress, Facts, At, FeePCs, ProofPCs, SplitPCs, None
<1> QED BY <1>1, <1>2, <1>5, LocalStep DEF Begin

LEMMA FeeInv ==
  ASSUME IInv, NEW o \in Orders, Retry(o) \/ FeeReturns(o)
  PROVE  IInv'
<1> USE Own DEF Progress, Facts, At, OrderInv, Chosen, FeePCs, ProofPCs, SplitPCs, chain, given
<1>1. CASE Retry(o)
  <2> DEFINE r == [order[o] EXCEPT !.pc = "sendingFee", !.tries = NextAttempt(order[o].tries)]
  <2>1. order' = [order EXCEPT ![o] = r] BY <1>1 DEF Retry
  <2>2. r \in OrderType BY <1>1, BoundsAssumption DEF Retry, OrderType, PCs, NextAttempt
  <2>3. order'[o] = r BY <2>1
  <2>4. /\ order'[o].pc = "sendingFee" /\ order'[o].seen = order[o].seen
        /\ order'[o].todo = order[o].todo /\ order'[o].input = order[o].input
        /\ order'[o].stored = order[o].stored
        /\ order'[o].legs = order[o].legs
    BY <2>3 DEF OrderType
  <2>5. Progress(o)' BY <1>1, <2>4 DEF Retry, None
  <2>6. Facts(o)' BY <1>1, <2>4 DEF Retry, Reserved, None
  <2> QED BY <1>1, <2>1, <2>2, <2>5, <2>6, LocalStep DEF Retry
<1>2. CASE FeeReturns(o)
  <2> DEFINE g == [order[o] EXCEPT !.pc = "proving"]
  <2>1. g \in OrderType BY DEF OrderType, PCs
  <2>2. order' = [order EXCEPT ![o] = g] BY <1>2 DEF FeeReturns, Goto
  <2>3. order'[o] = g BY <2>2
  <2>4. /\ order'[o].pc = "proving" /\ order'[o].seen = order[o].seen
        /\ order'[o].todo = order[o].todo /\ order'[o].input = order[o].input
        /\ order'[o].stored = order[o].stored /\ order'[o].legs = order[o].legs
    BY <2>3 DEF OrderType
  <2>5. Progress(o)' BY <1>2, <2>4 DEF FeeReturns, None
  <2>6. Facts(o)' BY <1>2, <2>4 DEF FeeReturns, None
  <2> QED BY <1>2, <2>1, <2>2, <2>5, <2>6, LocalStep DEF FeeReturns
<1> QED BY <1>1, <1>2

\* The leaves are deposits and outputs of mined splits.
LEMMA LeavesAreMade ==
  \A m \in Leaves : m \in Notes /\ (m \in DepositNotes \/ split[m[1]] = "mined")
BY DEF Leaves, Notes

\* The locals a step leaves alone.
Same(o) ==
  /\ order'[o].n = order[o].n /\ order'[o].input = order[o].input
  /\ order'[o].out = order[o].out 
SameSlices(o) == order'[o].stored = order[o].stored /\ order'[o].legs = order[o].legs

LEMMA ProofInv ==
  ASSUME IInv, NEW o \in Orders, ReadLeaves(o) \/ Fetch(o) \/ GiveUp(o) \/ CloseTab(o)
  PROVE  IInv'
<1> USE Own DEF Progress, Facts, At, OrderInv, FeePCs, ProofPCs, SplitPCs, chain, given
<1>1. CASE ReadLeaves(o) /\ order[o].n \in 1 .. SplitN
  <2> DEFINE r == [order[o] EXCEPT !.pc = "fetching", !.seen = Leaves]
  <2>1. order' = [order EXCEPT ![o] = r] BY <1>1 DEF ReadLeaves
  <2>0. Leaves \in SUBSET Notes BY LeavesAreMade
  <2>2. r \in OrderType BY <2>0 DEF OrderType, PCs
  <2>3. order'[o] = r BY <2>1
  <2>4. /\ order'[o].pc = "fetching" /\ order'[o].seen = Leaves
        /\ order'[o].todo = order[o].todo /\ Same(o) /\ SameSlices(o)
    BY <2>3 DEF OrderType, Same, SameSlices
  <2>5. Progress(o)' BY <1>1, <2>4 DEF ReadLeaves, Same, SameSlices, None
  <2>6. \A m \in order'[o].seen : m \in DepositNotes \/ split'[m[1]] = "mined"
    BY <1>1, <2>4, LeavesAreMade DEF ReadLeaves
  <2>7. Facts(o)' BY <1>1, <2>4, <2>6 DEF ReadLeaves, Same, SameSlices, Reserved
  <2> QED BY <1>1, <2>1, <2>2, <2>5, <2>7, LocalStep DEF ReadLeaves
<1>2. CASE Fetch(o)
  <2>1. PICK N \in {Fetched, {}} :
          order' = [order EXCEPT ![o].pc = "hydrating", ![o].todo = N]
    BY <1>2 DEF Fetch
  <2>2. N \subseteq DepositNotes BY DEF Fetched, DepositNotes
  <2> DEFINE r == [order[o] EXCEPT !.pc = "hydrating", !.todo = N]
  <2>3. order' = [order EXCEPT ![o] = r] BY <2>1
  <2>4. r \in OrderType BY <2>2 DEF OrderType, PCs
  <2>5. order'[o] = r BY <2>3
  <2>6. /\ order'[o].pc = "hydrating" /\ order'[o].seen = order[o].seen
        /\ order'[o].todo = N /\ Same(o) /\ SameSlices(o)
    BY <2>5 DEF OrderType, Same, SameSlices
  <2>7. Progress(o)' BY <1>2, <2>6 DEF Fetch, Same, SameSlices, None
  <2>8. Facts(o)' BY <1>2, <2>2, <2>6 DEF Fetch, Same, SameSlices, Reserved
  <2> QED BY <1>2, <2>3, <2>4, <2>7, <2>8, LocalStep DEF Fetch
<1>3. CASE (ReadLeaves(o) /\ order[o].n \notin 1 .. SplitN) \/ GiveUp(o) \/ CloseTab(o)
  <2>1. PICK r \in OrderType :
          /\ order' = [order EXCEPT ![o] = r]
          /\ r.seen \subseteq order[o].seen /\ r.todo \subseteq order[o].todo
          /\ r.n = order[o].n /\ r.input = order[o].input /\ r.out = order[o].out
          /\ r.stored = order[o].stored
          /\ r.legs = order[o].legs
          /\ r.pc = "closed" \/ (r.pc = "failed" /\ order[o].pc \in ProofPCs)
    <3> DEFINE f == [order[o] EXCEPT !.pc = "failed"]
               g == [order[o] EXCEPT !.pc = "failed", !.tries = 0, !.seen = {}]
               h == [order[o] EXCEPT !.pc = "closed", !.tries = 0, !.seen = {}, !.todo = {}]
    <3>0. /\ {"failed", "closed"} \subseteq PCs /\ 0 \in 0 .. MaxAttempts
          /\ {} \in SUBSET Notes /\ {} \in SUBSET DepositNotes
      BY BoundsAssumption DEF PCs, Final
    <3>1. f \in OrderType /\ g \in OrderType /\ h \in OrderType BY <3>0 DEF OrderType
    <3>2. \/ order' = [order EXCEPT ![o] = f] /\ order[o].pc \in ProofPCs
          \/ order' = [order EXCEPT ![o] = g] /\ order[o].pc \in ProofPCs
          \/ order' = [order EXCEPT ![o] = h]
      BY <1>3 DEF ReadLeaves, GiveUp, CloseTab, Goto, Leave
    <3>3. \A r \in {f, g, h} :
            /\ r.seen \subseteq order[o].seen /\ r.todo \subseteq order[o].todo
            /\ r.n = order[o].n /\ r.input = order[o].input /\ r.out = order[o].out
            /\ r.stored = order[o].stored
            /\ r.legs = order[o].legs
      BY DEF OrderType
    <3>4. f.pc = "failed" /\ g.pc = "failed" /\ h.pc = "closed" BY DEF OrderType
    <3> HIDE DEF f, g, h
    <3> QED BY <3>1, <3>2, <3>3, <3>4
  <2>2. order'[o] = r BY <2>1
  <2>3. UNCHANGED <<chain, given, rows>> BY <1>3 DEF ReadLeaves, GiveUp, CloseTab
  <2>4. Progress(o)' BY <2>1, <2>2, <2>3 DEF Chosen, None
  <2>5. order[o].pc \in ProofPCs => split[o] # "mined" BY DEF None
  <2>6. Facts(o)' BY <2>1, <2>2, <2>3, <2>5 DEF Reserved
  <2> QED BY <2>1, <2>3, <2>4, <2>6, LocalStep
<1> QED BY <1>1, <1>2, <1>3

\* The locals a step leaves alone once the note is chosen.
Kept(o, r) ==
  /\ r.n = order[o].n /\ r.input = order[o].input /\ r.out = order[o].out
  /\ r.seen = order[o].seen /\ r.todo = order[o].todo
  /\ r.stored = order[o].stored

\* A local step of an order whose split was sent.
LEMMA SentStep ==
  ASSUME IInv, NEW o \in Orders, NEW r \in OrderType, order' = [order EXCEPT ![o] = r],
         Kept(o, r), UNCHANGED <<chain, given, rows>>, split[o] # None,
         r.pc \notin FeePCs \cup ProofPCs \cup {"awaiting"},
         split[o] \in {"sent", "mined"} =>
           r.pc \in {"storing", "lost", "closed"} \/ order[o].stored = order[o].n,
         r.pc = "storing" => split[o] = "mined" /\ order[o].stored <= order[o].n /\ r.legs = 0,
         r.pc = "legs" => split[o] = "mined" /\ order[o].stored = order[o].n /\ r.legs < order[o].n
  PROVE  IInv'
<1>1. order'[o] = r BY Own
<1>2. Chosen(o) BY Own DEF Progress
<1>3. Progress(o)'
  BY <1>1, <1>2 DEF Kept, Progress, Chosen, At, FeePCs, ProofPCs, SplitPCs, chain, given
<1>4. Facts(o)' BY <1>1, Own DEF Facts, Kept, Reserved, chain, given
<1> QED BY <1>3, <1>4, LocalStep DEF OrderInv

LEMMA SlicesInv ==
  ASSUME IInv, NEW o \in Orders, SplitReturns(o) \/ LoseSlices(o) \/ Leg(o)
  PROVE  IInv'
<1>0. order[o] \in OrderType /\ Progress(o) /\ None \notin {"sent", "mined", "reverted"}
  BY Own DEF None
<1>1. CASE SplitReturns(o) \/ LoseSlices(o)
  <2>1. PICK pc \in {"storing", "failed", "lost"} :
          /\ order' = [order EXCEPT ![o].pc = pc]
          /\ pc = "storing" => split[o] = "mined" /\ order[o].pc = "awaiting"
          /\ pc = "failed" => split[o] = "reverted"
    BY <1>1 DEF SplitReturns, LoseSlices, Confirmed, Goto, At
  <2>2. /\ split[o] # None /\ UNCHANGED <<chain, given, rows>>
    BY <1>0, <1>1 DEF SplitReturns, LoseSlices, Progress, SplitPCs, At
  <2> DEFINE r == [order[o] EXCEPT !.pc = pc]
  <2>3. order' = [order EXCEPT ![o] = r] BY <2>1
  <2>4. r \in OrderType /\ Kept(o, r) /\ r.pc = pc /\ r.legs = order[o].legs
    BY <1>0 DEF PCs, Final, OrderType, Kept
  <2>5. pc = "storing" => order[o].stored = 0 /\ order[o].legs = 0 /\ order[o].n \in Nat
    BY <1>0, <2>1, <2>2 DEF Progress, Chosen
  <2>6. pc \notin FeePCs \cup ProofPCs \cup {"awaiting", "legs"} BY DEF FeePCs, ProofPCs
  <2>7. order[o].stored = 0 /\ order[o].n \in Nat => order[o].stored <= order[o].n OBVIOUS
  <2> HIDE DEF r
  <2> QED BY <1>0, <2>1, <2>2, <2>3, <2>4, <2>5, <2>6, <2>7, SentStep
<1>2. CASE Leg(o)
  <2>1. /\ split[o] = "mined" /\ order[o].stored = order[o].n /\ order[o].pc = "legs"
        /\ order[o].legs < order[o].n /\ order[o].n \in 1 .. SplitN /\ order[o].legs \in Nat
        /\ UNCHANGED <<chain, given, rows>>
    BY <1>0, <1>2, BoundsAssumption DEF Leg, Progress, At, Chosen, OrderType
  <2> DEFINE f == [order[o] EXCEPT !.pc = "failed"]
             d == [order[o] EXCEPT !.pc = "done"]
             l == [order[o] EXCEPT !.legs = order[o].legs + 1]
  <2>2. \/ order' = [order EXCEPT ![o] = f] \/ order' = [order EXCEPT ![o] = d]
        \/ order[o].legs + 1 # order[o].n /\ order' = [order EXCEPT ![o] = l]
    BY <1>2 DEF Leg
  <2>3. f \in OrderType /\ Kept(o, f) /\ f.pc = "failed"
    BY <1>0 DEF OrderType, Kept, PCs, Final
  <2>4. d \in OrderType /\ Kept(o, d) /\ d.pc = "done"
    BY <1>0 DEF OrderType, Kept, PCs, Final
  <2>5. order[o].legs + 1 \in 0 .. SplitN BY <2>1, BoundsAssumption
  <2>6. l \in OrderType /\ Kept(o, l) /\ l.pc = "legs" /\ l.legs = order[o].legs + 1
    BY <1>0, <2>1, <2>5 DEF OrderType, Kept
  <2>7. order[o].legs + 1 # order[o].n => order[o].legs + 1 < order[o].n
    BY <2>1, BoundsAssumption
  <2>8. {"failed", "done", "legs"} \cap (FeePCs \cup ProofPCs \cup {"awaiting", "storing"}) = {}
    BY DEF FeePCs, ProofPCs
  <2> HIDE DEF f, d, l
  <2>9. CASE order' = [order EXCEPT ![o] = f] BY <1>0, <2>1, <2>3, <2>8, <2>9, SentStep
  <2>10. CASE order' = [order EXCEPT ![o] = d] BY <1>0, <2>1, <2>4, <2>8, <2>10, SentStep
  <2>11. CASE order[o].legs + 1 # order[o].n /\ order' = [order EXCEPT ![o] = l]
    BY <1>0, <2>1, <2>6, <2>7, <2>8, <2>11, SentStep
  <2> QED BY <2>2, <2>9, <2>10, <2>11
<1> QED BY <1>1, <1>2

-------------------------------------------------------------------------------
(***************************************************************************)
(* Steps that change the transactions                                      *)
(***************************************************************************)

\* The part of OrderType that a change of pc, tries and seen keeps.
LEMMA LeaveType ==
  ASSUME IInv, NEW o \in Orders, NEW pc \in PCs
  PROVE  /\ [order[o] EXCEPT !.pc = pc] \in OrderType
         /\ [order[o] EXCEPT !.pc = pc, !.tries = 0, !.seen = {}] \in OrderType
         /\ [order[o] EXCEPT !.pc = pc].pc = pc
         /\ [order[o] EXCEPT !.pc = pc, !.tries = 0, !.seen = {}].pc = pc
<1>1. 0 \in 0 .. MaxAttempts /\ {} \in SUBSET Notes BY BoundsAssumption
<1>2. order[o] \in OrderType BY Own
<1> QED BY <1>1, <1>2 DEF OrderType

LEMMA SendFeeInv ==
  ASSUME IInv, NEW o \in Orders, SendFee(o)
  PROVE  IInv'
<1>1. PICK r \in OrderType :
        /\ order' = [order EXCEPT ![o] = r]
        /\ r.seen \subseteq order[o].seen /\ r.todo = order[o].todo
        /\ r.n = order[o].n /\ r.input = order[o].input /\ r.out = order[o].out
        /\ r.stored = order[o].stored
        /\ r.legs = order[o].legs
        /\ r.pc \in {"awaitingFee", "backingOff", "proving"}
        /\ r.pc = "backingOff" => r.tries < MaxAttempts
  <2> DEFINE a == [order[o] EXCEPT !.pc = "awaitingFee", !.tries = 0, !.seen = {}]
             b == [order[o] EXCEPT !.pc = "backingOff"]
             p == [order[o] EXCEPT !.pc = "proving", !.tries = 0, !.seen = {}]
  <2>0. {"awaitingFee", "backingOff", "proving"} \subseteq PCs BY DEF PCs
  <2>1. a \in OrderType /\ b \in OrderType /\ p \in OrderType BY <2>0, LeaveType
  <2>2. \/ order' = [order EXCEPT ![o] = a]
        \/ order' = [order EXCEPT ![o] = b] /\ order[o].tries < MaxAttempts
        \/ order' = [order EXCEPT ![o] = p]
    BY DEF SendFee, Leave, Goto, MayRetry
  <2>3. \A r \in {a, b, p} :
          /\ r.seen \subseteq order[o].seen /\ r.todo = order[o].todo
          /\ r.n = order[o].n /\ r.input = order[o].input /\ r.out = order[o].out
          /\ r.stored = order[o].stored
          /\ r.legs = order[o].legs
    BY Own DEF OrderType
  <2>4. a.pc = "awaitingFee" /\ b.pc = "backingOff" /\ p.pc = "proving"
        /\ b.tries = order[o].tries
    BY Own DEF OrderType
  <2> HIDE DEF a, b, p
  <2> QED BY <2>1, <2>2, <2>3, <2>4
<1>2. order'[o] = r BY <1>1, Own
<1>3. UNCHANGED <<split, nullified, given, rows>> /\ At(o, "sendingFee")
  BY DEF SendFee, chain
<1>4. split[o] = None /\ order[o].stored = 0 /\ order[o].legs = 0
  BY <1>3, Own DEF Progress, At, FeePCs
<1>5. Progress(o)'
  BY <1>1, <1>2, <1>3, <1>4 DEF Progress, At, FeePCs, ProofPCs, SplitPCs
<1>6. Facts(o)' BY <1>1, <1>2, <1>3, <1>4, Own DEF Facts, Reserved, given, None
<1>7. TypeOK' BY <1>1, <1>3 DEF IInv, TypeOK, given, TxStates
<1>8. HiddenIsSpent' BY <1>3 DEF IInv, HiddenIsSpent, Reserved, given
<1>9. \A e \in Orders \ {o} :
        order'[e] = order[e] /\ split'[e] = split[e]
  BY <1>1, <1>3 DEF IInv, TypeOK
<1> QED BY <1>3, <1>5, <1>6, <1>7, <1>8, <1>9, OneOrder DEF OrderInv, given

LEMMA SendSplitInv ==
  ASSUME IInv, NEW o \in Orders, SendSplit(o)
  PROVE  IInv'
<1> DEFINE r == [order[o] EXCEPT !.pc = "awaiting"]
<1>1. order' = [order EXCEPT ![o] = r] BY DEF SendSplit, Goto
<1>2. r \in OrderType /\ Kept(o, r) /\ r.pc = "awaiting" /\ r.legs = order[o].legs
  BY Own DEF OrderType, Kept, PCs
<1>3. order'[o] = r BY <1>1, Own
<1> HIDE DEF r
<1>4. /\ UNCHANGED <<nullified, given, rows>> /\ At(o, "sending")
      /\ split' = [split EXCEPT ![o] = "sent"] /\ split'[o] = "sent"
  BY DEF SendSplit, IInv, TypeOK
<1>5. Chosen(o) /\ split[o] = None /\ order[o].stored = 0 /\ order[o].legs = 0
  BY <1>4, Own DEF Progress, At, ProofPCs
<1>6. Progress(o)'
  BY <1>2, <1>3, <1>4, <1>5
  DEF Progress, Chosen, Kept, At, FeePCs, ProofPCs, SplitPCs, None
<1>7. \A m \in order[o].seen : m \in DepositNotes \/ split'[m[1]] = "mined"
  <2>1. \A x \in Orders : split[x] = "mined" => split'[x] = "mined"
    BY <1>4, <1>5 DEF IInv, TypeOK, None
  <2>2. order[o].seen \subseteq Notes BY Own DEF OrderType
  <2> QED BY <2>1, <2>2, Own DEF Facts, Notes, OutputNotes
<1>8. Facts(o)' BY <1>2, <1>3, <1>4, <1>5, <1>7, Own DEF Facts, Kept, Reserved, given
<1>9. TypeOK' BY <1>1, <1>2, <1>4 DEF IInv, TypeOK, given, TxStates
<1>10. HiddenIsSpent' BY <1>4 DEF IInv, HiddenIsSpent, Reserved, given
<1>11. \A e \in Orders \ {o} :
         order'[e] = order[e] /\ split'[e] = split[e]
  BY <1>1, <1>4 DEF IInv, TypeOK
<1>12. split[o] = "mined" => split'[o] = "mined" BY <1>5 DEF None
<1> QED BY <1>4, <1>6, <1>8, <1>9, <1>10, <1>11, <1>12, OneOrder DEF OrderInv, given

LEMMA MineSplitInv ==
  ASSUME IInv, NEW o \in Orders, MineSplit(o)
  PROVE  IInv'
<1>1. /\ UNCHANGED <<order, given, rows>> /\ split[o] = "sent"
      /\ nullified \subseteq nullified'
      /\ \/ split' = [split EXCEPT ![o] = "mined"]
            /\ nullified' = nullified \cup {order[o].input}
         \/ split' = [split EXCEPT ![o] = "reverted"] /\ nullified' = nullified
  BY DEF MineSplit
<1>2. split'[o] \in {"mined", "reverted"} /\ (split'[o] = "mined" => order[o].input \in nullified')
  BY <1>1 DEF IInv, TypeOK
<1>3. Chosen(o) /\ order[o].pc \notin FeePCs \cup ProofPCs \cup {"storing", "legs"}
  BY <1>1, Own DEF Progress, None
<1>4. Progress(o)'
  BY <1>1, <1>2, <1>3, Own DEF Progress, Chosen, At, FeePCs, ProofPCs, SplitPCs, None
<1>5. \A x \in Orders : split[x] = "mined" => split'[x] = "mined"
  BY <1>1 DEF IInv, TypeOK
<1>6. \A m \in order[o].seen : m \in DepositNotes \/ split'[m[1]] = "mined"
  <2>1. order[o].seen \subseteq Notes BY Own DEF OrderType
  <2> QED BY <2>1, <1>5, Own DEF Facts, Notes, OutputNotes
<1>7. Facts(o)' BY <1>1, <1>2, <1>6, Own DEF Facts, Reserved, given
<1>8. TypeOK' BY <1>1, <1>3 DEF IInv, TypeOK, given, TxStates, Chosen
<1>9. HiddenIsSpent' BY <1>1 DEF IInv, HiddenIsSpent, Reserved, given
<1>10. \A e \in Orders \ {o} :
         order'[e] = order[e] /\ split'[e] = split[e]
  BY <1>1 DEF IInv, TypeOK
<1> QED BY <1>1, <1>4, <1>5, <1>7, <1>8, <1>9, <1>10, OneOrder DEF OrderInv, given

LEMMA WithdrawInv ==
  ASSUME IInv, NEW m \in Notes, Withdraw(m)
  PROVE  IInv'
<1>1. /\ UNCHANGED <<order, split, given>> /\ nullified' = nullified \cup {m}
      /\ rows' = Mark(rows, m, "true") /\ IsStore(rows)
  BY DEF Withdraw, IInv, TypeOK
<1>2. IsStore(rows') /\ DOMAIN rows' = DOMAIN rows BY <1>1, StoreOps DEF Status
<1>3. TypeOK' BY <1>1, <1>2 DEF IInv, TypeOK, given
<1>4. \A k \in DOMAIN rows : rows'[k] = rows[k] \/ (k = m /\ rows'[k] = "true")
  BY <1>1 DEF Mark, MarkAll
<1>5. HiddenIsSpent' BY <1>1, <1>2, <1>4 DEF IInv, HiddenIsSpent, Reserved, given
<1>6. ASSUME NEW e \in Orders PROVE OrderInv(e)'
  <2>1. order[e].seen \subseteq Notes /\ OrderInv(e) BY DEF IInv, TypeOK, OrderType
  <2> QED BY <1>1, <1>2, <2>1, OthersKeep DEF given
<1> QED BY <1>3, <1>5, <1>6 DEF IInv

-------------------------------------------------------------------------------
(***************************************************************************)
(* Steps that write rows                                                   *)
(***************************************************************************)
LEMMA RewriteInv ==
  ASSUME IInv, NEW o \in Orders, NEW m \in order[o].todo, Rewrite(o, m)
  PROVE  IInv'
<1> DEFINE r == [order[o] EXCEPT !.todo = order[o].todo \ {m}]
<1>1. order' = [order EXCEPT ![o] = r] BY DEF Rewrite
<1>2. /\ r \in OrderType /\ r.pc = order[o].pc /\ r.tries = order[o].tries
      /\ r.n = order[o].n /\ r.input = order[o].input /\ r.out = order[o].out
      /\ r.seen = order[o].seen
      /\ r.todo \subseteq order[o].todo
      /\ r.stored = order[o].stored /\ r.legs = order[o].legs
  BY Own DEF OrderType
<1>3. order'[o] = r BY <1>1, Own
<1> HIDE DEF r
<1>4. /\ UNCHANGED <<chain, given>> /\ rows' = Put(rows, m, "false") /\ IsStore(rows)
      /\ m \in DepositNotes
  BY Own DEF Rewrite, IInv, TypeOK, Facts, OrderType
<1>5. IsStore(rows') /\ DOMAIN rows' = DOMAIN rows \cup {m} BY <1>4, StoreOps DEF Status
<1>6. Progress(o)' BY <1>2, <1>3, <1>4, Own DEF Progress, Chosen, At, chain
<1>7. Facts(o)' BY <1>2, <1>3, <1>4, <1>5, Own DEF Facts, Reserved, chain, given
<1>8. TypeOK' BY <1>1, <1>2, <1>4, <1>5 DEF IInv, TypeOK, chain, given, Notes
<1>9. \A k \in DOMAIN rows' : IF k = m THEN rows'[k] = "false"
                              ELSE k \in DOMAIN rows /\ rows'[k] = rows[k]
  BY <1>4 DEF Put
<1>10. HiddenIsSpent' BY <1>4, <1>9 DEF IInv, HiddenIsSpent, Reserved, chain, given
<1> QED BY <1>1, <1>4, <1>5, <1>6, <1>7, <1>8, <1>10, OneOrder
        DEF OrderInv, IInv, TypeOK, chain, given

LEMMA StoreSliceInv ==
  ASSUME IInv, NEW o \in Orders, StoreSlice(o)
  PROVE  IInv'
<1> DEFINE k == order[o].stored + 1
           r == [order[o] EXCEPT !.stored = k]
<1>1. order' = [order EXCEPT ![o] = r] BY DEF StoreSlice
<1>2. /\ At(o, "storing") /\ split[o] = "mined" /\ order[o].n \in 1 .. SplitN
      /\ order[o].stored \in Nat /\ order[o].stored < order[o].n /\ order[o].legs = 0
      /\ Chosen(o)
  BY Own DEF StoreSlice, ToStore, Progress, Chosen, At, OrderType, SplitPCs, None
<1>3. k \in 1 .. SplitN /\ k <= order[o].n BY <1>2, BoundsAssumption
<1>4. /\ r \in OrderType /\ r.pc = order[o].pc /\ r.tries = order[o].tries
      /\ r.n = order[o].n /\ r.input = order[o].input /\ r.out = order[o].out
      /\ r.seen = order[o].seen
      /\ r.todo = order[o].todo /\ r.stored = k /\ r.legs = order[o].legs
  BY <1>3, Own, BoundsAssumption DEF OrderType
<1>5. order'[o] = r BY <1>1, Own
<1>6. UNCHANGED <<chain, given>> /\ rows' = Put(rows, Output(o, k), "false") /\ IsStore(rows)
  BY DEF StoreSlice, IInv, TypeOK
<1>7. \A i \in 1 .. k : i = k \/ i \in 1 .. order[o].stored BY <1>2
<1> HIDE DEF k, r
<1>8. IsStore(rows') /\ DOMAIN rows' = DOMAIN rows \cup {Output(o, k)}
  BY <1>6, StoreOps DEF Status
<1>9. Progress(o)'
  BY <1>2, <1>3, <1>4, <1>5, <1>6
  DEF Progress, Chosen, At, FeePCs, ProofPCs, SplitPCs, chain, None
<1>10. Facts(o)'
  BY <1>2, <1>4, <1>5, <1>6, <1>7, <1>8, Own DEF Facts, Reserved, At, chain, given
<1>11. Output(o, k) \in Notes BY <1>3 DEF Output, Notes, OutputNotes
<1>12. TypeOK' BY <1>1, <1>4, <1>6, <1>8, <1>11 DEF IInv, TypeOK, chain, given
<1>14. \A x \in DOMAIN rows' : IF x = Output(o, k) THEN rows'[x] = "false"
                               ELSE x \in DOMAIN rows /\ rows'[x] = rows[x]
  BY <1>6 DEF Put
<1>15. HiddenIsSpent' BY <1>6, <1>14 DEF IInv, HiddenIsSpent, Reserved, chain, given
<1> QED BY <1>1, <1>6, <1>8, <1>9, <1>10, <1>12, <1>15, OneOrder
        DEF OrderInv, IInv, TypeOK, chain, given

LEMMA MarkInputInv ==
  ASSUME IInv, NEW o \in Orders, MarkInput(o)
  PROVE  IInv'
<1> DEFINE r == [order[o] EXCEPT !.pc = "legs"]
<1>1. order' = [order EXCEPT ![o] = r] BY DEF MarkInput, Goto
<1>2. r \in OrderType /\ Kept(o, r) /\ r.pc = "legs" /\ r.legs = order[o].legs
  BY Own DEF OrderType, Kept, PCs
<1>3. order'[o] = r BY <1>1, Own
<1> HIDE DEF r
<1>4. /\ At(o, "storing") /\ order[o].stored = order[o].n /\ split[o] = "mined"
      /\ order[o].legs = 0 /\ order[o].n \in 1 .. SplitN /\ Chosen(o)
      /\ order[o].input \in nullified
  BY Own DEF MarkInput, ToStore, Progress, Facts, Chosen, At, None
<1>5. UNCHANGED <<chain, given>> /\ rows' = Mark(rows, order[o].input, "true") /\ IsStore(rows)
  BY DEF MarkInput, IInv, TypeOK
<1>6. IsStore(rows') /\ DOMAIN rows' = DOMAIN rows BY <1>5, StoreOps DEF Status
<1>7. order[o].legs < order[o].n BY <1>4
<1>8. Progress(o)'
  BY <1>2, <1>3, <1>4, <1>5, <1>7
  DEF Progress, Chosen, Kept, At, FeePCs, ProofPCs, SplitPCs, chain, None
<1>9. Facts(o)' BY <1>2, <1>3, <1>4, <1>5, <1>6, Own DEF Facts, Kept, Reserved, chain, given
<1>10. TypeOK' BY <1>1, <1>2, <1>5, <1>6 DEF IInv, TypeOK, chain, given
<1>11. \A k \in DOMAIN rows :
         rows'[k] = rows[k] \/ (k = order[o].input /\ rows'[k] = "true")
  BY <1>5 DEF Mark, MarkAll
<1>12. HiddenIsSpent' BY <1>4, <1>5, <1>6, <1>11 DEF IInv, HiddenIsSpent, Reserved, chain, given
<1> QED BY <1>1, <1>5, <1>6, <1>8, <1>9, <1>10, <1>12, OneOrder
        DEF OrderInv, IInv, TypeOK, chain, given

\* What a leaf that was read is worth is known.
LEMMA AmountNat ==
  ASSUME IInv, NEW o \in Orders, NEW m \in order[o].seen
  PROVE  Amount(m) \in Nat
<1>1. m \in Notes /\ (m \in DepositNotes \/ split[m[1]] = "mined")
  BY Own DEF Facts, OrderType
<1>2. CASE m \in DepositNotes
  <2>1. PICK d \in Deposits : m = <<d, 0>> BY <1>2 DEF DepositNotes, Deposit
  <2>2. value[d] \in Nat BY SetsAssumption DEF IInv, TypeOK
  <2> QED BY <1>2, <2>1, <2>2 DEF Amount
<1>3. CASE m \notin DepositNotes
  <2>1. m[1] \in Orders /\ m[2] \in 1 .. SplitN /\ split[m[1]] = "mined"
    BY <1>1, <1>3 DEF Notes, OutputNotes
  <2>2. Chosen(m[1]) BY <2>1, Own DEF Progress, None
  <2> QED BY <1>3, <2>1, <2>2 DEF Amount, Chosen
<1> QED BY <1>2, <1>3

LEMMA ChooseInv ==
  ASSUME IInv, NEW o \in Orders, Choose(o)
  PROVE  IInv'
<1>1. /\ At(o, "hydrating") /\ order[o].todo = {} /\ UNCHANGED <<chain, given>>
      /\ rows' = MarkAll(rows, Listed(o) \cap nullified, "true") /\ IsStore(rows)
      /\ order[o].n \in 1 .. SplitN
      /\ split[o] = None /\ order[o].stored = 0 /\ order[o].legs = 0
  BY Own DEF Choose, IInv, TypeOK, Progress, At, ProofPCs
<1>2. IsStore(rows') /\ DOMAIN rows' = DOMAIN rows BY <1>1, StoreOps DEF Status
<1>3. \A k \in DOMAIN rows :
        rows'[k] = rows[k] \/ (k \in nullified /\ rows'[k] = "true")
  BY <1>1 DEF MarkAll
<1>4. HiddenIsSpent' BY <1>1, <1>2, <1>3 DEF IInv, HiddenIsSpent, Reserved, chain, given
<1>5. ASSUME NEW r \in OrderType, order' = [order EXCEPT ![o] = r], OrderInv(o)'
      PROVE  IInv'
  <2>1. TypeOK' BY <1>1, <1>2, <1>5 DEF IInv, TypeOK, chain, given
  <2> QED BY <1>1, <1>2, <1>4, <1>5, <2>1, OneOrder DEF IInv, TypeOK, chain, given
<1>6. CASE Candidates(o) = {}
  <2> DEFINE f == [order[o] EXCEPT !.pc = "failed", !.tries = 0, !.seen = {}]
  <2>1. order' = [order EXCEPT ![o] = f] BY <1>6 DEF Choose, Leave
  <2>2. /\ f \in OrderType /\ f.pc = "failed" /\ f.seen = {} /\ f.todo = order[o].todo
        /\ f.n = order[o].n /\ f.input = order[o].input /\ f.out = order[o].out
        /\ f.stored = order[o].stored /\ f.legs = order[o].legs
    BY LeaveType, Own DEF OrderType, PCs, Final
  <2>3. order'[o] = f BY <2>1, Own
  <2> HIDE DEF f
  <2>4. Progress(o)'
    BY <1>1, <2>2, <2>3 DEF Progress, At, FeePCs, ProofPCs, SplitPCs, chain
  <2>5. Facts(o)' BY <1>1, <2>2, <2>3, Own DEF Facts, Reserved, chain, given, None
  <2> QED BY <1>5, <2>1, <2>2, <2>4, <2>5 DEF OrderInv
<1>7. CASE Candidates(o) # {}
  <2> DEFINE out(m) == [i \in 1 .. SplitN |-> Share(Amount(m), order[o].n, i)]
             s(m) == [order[o] EXCEPT !.pc = "sending", !.seen = {}, !.input = m,
                        !.out = out(m)]
  <2>0. PICK m \in Largest(Candidates(o)) :
          order' = [order EXCEPT ![o].pc = "sending", ![o].seen = {}, ![o].input = m,
                      ![o].out = [i \in 1 .. SplitN |-> Share(Amount(m), order[o].n, i)]]
    BY <1>7 DEF Choose
  <2>1. order' = [order EXCEPT ![o] = s(m)] BY <2>0
  <2>2. m \in DOMAIN rows /\ m \in order[o].seen /\ rows[m] # "true"
    BY DEF Largest, Candidates, Listed
  <2>3. m \in Notes /\ Amount(m) \in Nat
    BY <2>2, Own, AmountNat DEF OrderType
  <2>4. \A i \in 1 .. SplitN :
          /\ Share(Amount(m), order[o].n, i) \in Nat
          /\ i > order[o].n => Share(Amount(m), order[o].n, i) = 0
    <3>1. order[o].n \in Nat \ {0} /\ 1 .. SplitN \subseteq Nat BY <1>1, BoundsAssumption
    <3> QED BY <2>3, <3>1, ShareNat
  <2>5. /\ out(m) \in [1 .. SplitN -> Nat]
        /\ \A i \in 1 .. SplitN : i > order[o].n => out(m)[i] = 0
    BY <2>4
  <2> HIDE DEF out
  <2>6. /\ s(m) \in OrderType /\ s(m).pc = "sending" /\ s(m).seen = {}
        /\ s(m).todo = order[o].todo /\ s(m).n = order[o].n /\ s(m).input = m
        /\ s(m).out = out(m)
        /\ s(m).stored = order[o].stored /\ s(m).legs = order[o].legs
    <3>1. {} \in SUBSET Notes /\ "sending" \in PCs BY DEF PCs
    <3> QED BY <2>3, <2>5, <3>1, Own DEF OrderType
  <2>7. order'[o] = s(m) BY <2>1, Own
  <2> HIDE DEF s
  <2>8. Progress(o)'
    BY <1>1, <2>3, <2>5, <2>6, <2>7
    DEF Progress, Chosen, At, FeePCs, ProofPCs, SplitPCs, chain, None
  <2>9. Facts(o)' BY <1>1, <2>3, <2>6, <2>7, Own DEF Facts, Reserved, chain, given, None
  <2> QED BY <1>5, <2>1, <2>6, <2>8, <2>9 DEF OrderInv
<1> QED BY <1>6, <1>7

\* A wallet that connects writes rows of deposits, as spendable.
LEMMA RehydrateInv ==
  ASSUME IInv, NEW d \in Deposits, Rehydrate(d)
  PROVE  IInv'
<1>1. /\ UNCHANGED <<order, chain, given>> /\ rows' = Put(rows, Deposit(d), "false")
      /\ IsStore(rows)
  BY DEF Rehydrate, IInv, TypeOK
<1>2. IsStore(rows') /\ DOMAIN rows' = DOMAIN rows \cup {Deposit(d)}
  BY <1>1, StoreOps DEF Status
<1>3. TypeOK' BY <1>1, <1>2 DEF IInv, TypeOK, chain, given, Notes, DepositNotes
<1>4. \A k \in DOMAIN rows' : IF k = Deposit(d) THEN rows'[k] = "false"
                              ELSE k \in DOMAIN rows /\ rows'[k] = rows[k]
  BY <1>1 DEF Put
<1>5. HiddenIsSpent' BY <1>1, <1>4 DEF IInv, HiddenIsSpent, Reserved, chain, given
<1>6. ASSUME NEW e \in Orders PROVE OrderInv(e)'
  <2>1. order[e].seen \subseteq Notes /\ OrderInv(e) BY DEF IInv, TypeOK, OrderType
  <2> QED BY <1>1, <1>2, <2>1, OthersKeep DEF chain
<1> QED BY <1>3, <1>5, <1>6 DEF IInv

-------------------------------------------------------------------------------
(***************************************************************************)
(* Theorems                                                                *)
(***************************************************************************)
LEMMA StutterInv == IInv /\ UNCHANGED vars => IInv'
BY DEF IInv, TypeOK, OrderInv, Progress, Facts, Chosen, HiddenIsSpent, At, Reserved, vars, chain, given

LEMMA NextInv == IInv /\ [Next]_vars => IInv'
<1> SUFFICES ASSUME IInv, [Next]_vars PROVE IInv' OBVIOUS
<1>1. ASSUME NEW o \in Orders, NEW n \in Counts, Begin(o, n) PROVE IInv'
  BY <1>1, BeginInv
<1>2. ASSUME NEW o \in Orders, Work(o) PROVE IInv'
  BY <1>2, SendFeeInv, FeeInv, ProofInv, RewriteInv, ChooseInv, SendSplitInv, SlicesInv,
     StoreSliceInv, MarkInputInv
  DEF Work
<1>3. ASSUME NEW o \in Orders, MineSplit(o) PROVE IInv' BY <1>3, MineSplitInv
<1>4. ASSUME NEW o \in Orders, CloseTab(o) PROVE IInv' BY <1>4, ProofInv
<1>5. ASSUME NEW m \in Notes, Withdraw(m) PROVE IInv' BY <1>5, WithdrawInv
<1>6. ASSUME NEW d \in Deposits, Rehydrate(d) PROVE IInv' BY <1>6, RehydrateInv
<1> QED BY <1>1, <1>2, <1>3, <1>4, <1>5, <1>6, StutterInv DEF Next

\* The inductive invariant holds of every execution of the orders and the vault.
THEOREM Invariance == Spec => []IInv
BY InitInv, NextInv, PTL DEF Spec

\* The orders, their transactions, the rows and the nullifiers keep their types.
THEOREM TypeCorrect == Spec => []TypeOK
<1>1. IInv => TypeOK BY DEF IInv
<1> QED BY <1>1, Invariance, PTL

\* However many orders hydrate, mark and split, a row is marked only if its note is spent
\* or reserved by a strategy.
THEOREM MarkedIsSpent == Spec => []HiddenIsSpent
<1>1. IInv => HiddenIsSpent BY DEF IInv
<1> QED BY <1>1, Invariance, PTL

\* An unspent leaf has a row, or the server has it, or its order was interrupted or is
\* not yet done with its rows.
THEOREM LeavesReachable == Spec => []NothingStranded
<1>1. ASSUME IInv PROVE NothingStranded
  <2> SUFFICES ASSUME NEW m \in Leaves \ nullified, Amount(m) # 0, m \notin DOMAIN rows,
                      m[1] \notin Deposits
               PROVE  /\ m[2] > order[m[1]].stored
                      /\ order[m[1]].pc \in {"awaiting", "storing", "lost", "closed"}
    BY DEF NothingStranded
  <2>1. m \notin DepositNotes BY DEF DepositNotes, Deposit
  <2>2. /\ m[1] \in Orders /\ m[2] \in 1 .. SplitN /\ split[m[1]] = "mined"
        /\ m = Output(m[1], m[2])
    BY <2>1 DEF Leaves, OutputNotes, Output
  <2>3. Chosen(m[1]) /\ Facts(m[1]) /\ order[m[1]].stored \in Nat
    BY <2>2, Own, <1>1 DEF Progress, None, OrderType
  <2>4. m[2] > order[m[1]].stored BY <2>2, <2>3, BoundsAssumption DEF Facts
  <2>5. order[m[1]].stored # order[m[1]].n
    BY <2>1, <2>2, <2>3, <2>4 DEF Chosen, Amount
  <2> QED BY <2>2, <2>3, <2>4, <2>5 DEF Facts
<1> QED BY <1>1, Invariance, PTL

-------------------------------------------------------------------------------
(***************************************************************************)
(* Splitting conserves value.                                              *)
(***************************************************************************)

\* The slices have what the note had: the last one takes the remainder of the division.
LEMMA SharesAddUp ==
  ASSUME NEW v \in Nat, NEW k \in Nat \ {0}, NEW n \in 1 .. k,
         NEW f, \A i \in 1 .. k : f[i] = Share(v, n, i)
  PROVE  SumFunctionOnSet(f, 1 .. k) = v
<1> DEFINE q == v \div n
           Upto(j) == IF j < n THEN q * j ELSE v
           Bad == {j \in 0 .. k : SumFunctionOnSet(f, 1 .. j) # Upto(j)}
<1>0. n \in Nat \ {0} /\ n <= k OBVIOUS
<1>1. q \in Nat
  <2>1. v = n * (v \div n) + (v % n) /\ v % n \in Nat /\ v \div n \in Int BY <1>0, SMTT(30)
  <2>2. v \div n >= 0 BY <1>0, <2>1, SMTT(30)
  <2> QED BY <2>1, <2>2
<1>2. \A i \in 1 .. k : /\ f[i] \in Nat
                        /\ i < n => f[i] = q
                        /\ i = n => f[i] = v - q * (n - 1)
                        /\ i > n => f[i] = 0
  <2> TAKE i \in 1 .. k
  <2>1. f[i] = Share(v, n, i) /\ Share(v, n, i) \in Nat BY <1>0, ShareNat
  <2> QED BY <1>0, <2>1 DEF Share
<1> HIDE DEF q, Bad
<1> SUFFICES Bad = {} BY <1>0 DEF Bad
<1> SUFFICES ASSUME Bad # {} PROVE FALSE OBVIOUS
<1>3. PICK j \in Bad : \A i \in Bad : j <= i
  <2>1. Bad \in SUBSET Nat BY DEF Bad
  <2> QED BY <2>1, LeastNatural
<1>4. j \in 0 .. k /\ SumFunctionOnSet(f, 1 .. j) # Upto(j) BY DEF Bad
<1>5. j # 0
  <2>1. 1 .. 0 = {} OBVIOUS
  <2>2. Upto(0) = 0 BY <1>0, <1>1
  <2> QED BY <1>4, <2>1, <2>2, SumEmpty
<1>6. /\ j - 1 \in 0 .. k /\ j \in 1 .. k /\ j - 1 \in Nat
      /\ 1 .. j = (1 .. (j - 1)) \cup {j} /\ j \notin 1 .. (j - 1)
  BY <1>4, <1>5
<1>7. SumFunctionOnSet(f, 1 .. (j - 1)) = Upto(j - 1)
  <2>1. j - 1 \notin Bad BY <1>3, <1>6
  <2> QED BY <1>6, <2>1 DEF Bad
<1>8. SumFunctionOnSet(f, 1 .. j) = Upto(j - 1) + f[j]
  <2> DEFINE T == 1 .. (j - 1)
  <2>1. IsFiniteSet(T) BY <1>6, FS_Interval
  <2>2. (\A i \in T \cup {j} : f[i] \in Nat) /\ j \notin T BY <1>2, <1>6
  <2>3. SumFunctionOnSet(f, T \cup {j}) = SumFunctionOnSet(f, T) + f[j]
    <3> HIDE DEF T
    <3> QED BY <2>1, <2>2, SumAdd
  <2> QED BY <1>6, <1>7, <2>3
<1>9. Upto(j - 1) + f[j] = Upto(j)
  <2>1. CASE j < n
    <3>1. q * j = q * (j - 1) + q BY <1>1, <1>6
    <3> QED BY <1>2, <1>6, <2>1, <3>1
  <2>2. CASE j = n
    <3>1. q * (j - 1) \in Nat BY <1>1, <1>6
    <3> QED BY <1>2, <1>6, <2>2, <3>1
  <2>3. CASE j > n BY <1>0, <1>2, <1>6, <2>3
  <2> QED BY <1>0, <1>6, <2>1, <2>2, <2>3
<1> QED BY <1>4, <1>8, <1>9

\* The outputs of an order that chose its note share that note, which is a leaf.
Divided(o) ==
  order[o].pc = "sending" \/ split[o] # None =>
    /\ order[o].input \in Leaves
    /\ order[o].out = [i \in 1 .. SplitN |-> Share(Amount(order[o].input), order[o].n, i)]

BookInv == IsFiniteSet(Leaves) /\ (\A o \in Orders : Divided(o)) /\ ValueConserved

\* What a step may do to the note an order chose and to its split.
Settles(e) ==
  /\ split[e] = "mined" => split'[e] = "mined"
  /\ split'[e] # split[e] => split[e] # None \/ At(e, "sending")
  /\ split'[e] = "mined" /\ split[e] # "mined" => MineSplit(e)
  /\ split[e] # None \/ At(e, "sending") =>
       /\ order'[e].n = order[e].n /\ order'[e].input = order[e].input
       /\ order'[e].out = order[e].out
  /\ order'[e].pc = "sending" => At(e, "sending") \/ Choose(e)

\* A step of order o that leaves the note it chose, and every split, alone.
LocksNote(o) ==
  /\ given' = given /\ split' = split /\ \A e \in Orders \ {o} : order'[e] = order[e]
  /\ order'[o].n = order[o].n /\ order'[o].input = order[o].input
  /\ order'[o].out = order[o].out
  /\ order'[o].pc = "sending" => order[o].pc = "sending"

LEMMA Settled ==
  ASSUME IInv, [Next]_vars
  PROVE  given' = given /\ \A e \in Orders : Settles(e)
<1> DEFINE Goal == given' = given /\ \A e \in Orders : Settles(e)
<1>0. \A o \in Orders : /\ order[o] \in OrderType /\ o \in DOMAIN order /\ Progress(o)
                        /\ o \in DOMAIN split
                        /\ {"n", "input", "out", "pc"} \subseteq DOMAIN order[o]
  BY Own DEF IInv, TypeOK, OrderType
<1>1. ASSUME NEW o \in Orders, NEW n \in Counts, Begin(o, n) PROVE Goal
  <2>1. PICK pc \in {"sendingFee", "proving"} : order' = [order EXCEPT ![o] = Locals(n, pc)]
    BY <1>1 DEF Begin
  <2>2. split[o] = None /\ order'[o].pc # "sending"
    BY <1>0, <1>1, <2>1 DEF Begin, Progress, At, FeePCs, Locals
  <2> QED BY <1>0, <1>1, <2>1, <2>2 DEF Begin, Settles, At, chain
<1>2. ASSUME NEW o \in Orders, Choose(o) PROVE Goal
  <2>1. /\ split[o] = None /\ ~ At(o, "sending") /\ UNCHANGED <<chain, given>>
        /\ \A e \in Orders \ {o} : order'[e] = order[e]
    BY <1>0, <1>2 DEF Choose, Progress, At, ProofPCs, Leave
  <2> QED BY <1>2, <2>1 DEF Settles, At, chain
<1>3. ASSUME NEW o \in Orders, MineSplit(o) PROVE Goal
  <2>1. /\ UNCHANGED <<order, given>> /\ \A e \in Orders \ {o} : split'[e] = split[e]
        /\ split[o] = "sent"
    BY <1>0, <1>3 DEF MineSplit
  <2> QED BY <1>3, <2>1 DEF Settles, At, None
<1>4. ASSUME NEW m \in Notes, Withdraw(m) PROVE Goal
  BY <1>4 DEF Withdraw, Settles, At
<1>5. ASSUME NEW o \in Orders, SendSplit(o) PROVE Goal
  <2>1. /\ At(o, "sending") /\ split[o] = None /\ given' = given
        /\ split' = [split EXCEPT ![o] = "sent"]
        /\ order' = [order EXCEPT ![o].pc = "awaiting"]
    BY <1>0, <1>5 DEF SendSplit, Goto, Progress, At, ProofPCs
  <2> QED BY <1>0, <2>1 DEF Settles, At, None
<1>6. ASSUME NEW o \in Orders, LocksNote(o) PROVE Goal
  BY <1>6 DEF LocksNote, Settles, At
<1>7. ASSUME NEW o \in Orders, SendFee(o) \/ Retry(o) \/ FeeReturns(o) \/ ReadLeaves(o)
               \/ Fetch(o) \/ GiveUp(o) \/ CloseTab(o)
               \/ \E m \in order[o].todo : Rewrite(o, m)
      PROVE  LocksNote(o)
  <2>1. CASE SendFee(o) BY <1>0, <2>1 DEF LocksNote, SendFee, Goto, Leave, chain
  <2>2. CASE Retry(o) \/ FeeReturns(o) BY <1>0, <2>2 DEF LocksNote, Retry, FeeReturns, Goto, chain
  <2>3. CASE ReadLeaves(o) \/ Fetch(o) BY <1>0, <2>3 DEF LocksNote, ReadLeaves, Fetch, Goto, chain
  <2>4. CASE GiveUp(o) \/ CloseTab(o) BY <1>0, <2>4 DEF LocksNote, GiveUp, CloseTab, Leave, chain
  <2>5. CASE \E m \in order[o].todo : Rewrite(o, m) BY <1>0, <2>5 DEF LocksNote, Rewrite, chain
  <2> QED BY <1>7, <2>1, <2>2, <2>3, <2>4, <2>5
<1>8. ASSUME NEW o \in Orders,
             SplitReturns(o) \/ LoseSlices(o) \/ StoreSlice(o) \/ MarkInput(o) \/ Leg(o)
      PROVE  LocksNote(o)
  <2>1. CASE SplitReturns(o) \/ LoseSlices(o)
    BY <1>0, <2>1 DEF LocksNote, SplitReturns, LoseSlices, Goto, chain
  <2>2. CASE StoreSlice(o) \/ MarkInput(o) BY <1>0, <2>2 DEF LocksNote, StoreSlice, MarkInput, Goto, chain
  <2>3. CASE Leg(o) BY <1>0, <2>3 DEF LocksNote, Leg, chain
  <2> QED BY <1>8, <2>1, <2>2, <2>3
<1>13. ASSUME NEW d \in Deposits, Rehydrate(d) PROVE Goal
  BY <1>13 DEF Rehydrate, Settles, At, chain
<1>9. ASSUME UNCHANGED vars PROVE Goal BY <1>9 DEF vars, chain, given, Settles, At
<1> HIDE DEF Goal
<1>10. ASSUME NEW o \in Orders, Work(o) PROVE Goal
  BY <1>2, <1>5, <1>6, <1>7, <1>8, <1>10 DEF Work
<1>11. ASSUME NEW o \in Orders, CloseTab(o) PROVE Goal BY <1>6, <1>7, <1>11
<1>12. Goal BY <1>1, <1>3, <1>4, <1>9, <1>10, <1>11, <1>13 DEF Next
<1> QED BY <1>12 DEF Goal

\* What a leaf is worth is a number that no step changes.
LEMMA LeafAmounts ==
  ASSUME IInv
  PROVE  \A m \in Leaves : Amount(m) \in Nat
<1> TAKE m \in Leaves
<1>1. CASE m \in DepositNotes
  <2>1. PICK d \in Deposits : m = <<d, 0>> BY <1>1 DEF DepositNotes, Deposit
  <2>2. value[d] \in Nat BY SetsAssumption DEF IInv, TypeOK
  <2> QED BY <1>1, <2>1, <2>2 DEF Amount
<1>2. CASE m \notin DepositNotes
  <2>1. m[1] \in Orders /\ m[2] \in 1 .. SplitN /\ split[m[1]] = "mined"
    BY <1>2 DEF Leaves, OutputNotes
  <2>2. Chosen(m[1]) BY <2>1, Own DEF Progress, None
  <2> QED BY <1>2, <2>1, <2>2 DEF Amount, Chosen
<1> QED BY <1>1, <1>2

LEMMA LeavesKeep ==
  ASSUME IInv, [Next]_vars
  PROVE  \A m \in Leaves : m \in Leaves' /\ Amount(m)' = Amount(m)
<1> TAKE m \in Leaves
<1>1. given' = given /\ \A e \in Orders : Settles(e) BY Settled
<1>2. CASE m \in DepositNotes BY <1>1, <1>2 DEF Leaves, Amount, given
<1>3. CASE m \notin DepositNotes
  <2>1. m[1] \in Orders /\ m \in OutputNotes /\ split[m[1]] = "mined"
    BY <1>3 DEF Leaves, OutputNotes
  <2>2. split'[m[1]] = "mined" /\ order'[m[1]].out = order[m[1]].out
    BY <1>1, <2>1 DEF Settles, None
  <2> QED BY <1>3, <2>1, <2>2 DEF Leaves, Amount
<1> QED BY <1>2, <1>3

LEMMA DividedStep ==
  ASSUME IInv, BookInv, [Next]_vars, NEW e \in Orders
  PROVE  Divided(e)'
<1>0. ASSUME NEW m \in Leaves, order'[e].input = m,
             order'[e].out = [i \in 1 .. SplitN |-> Share(Amount(m), order'[e].n, i)]
      PROVE  Divided(e)'
  <2>1. m \in Leaves' /\ Amount(m)' = Amount(m) BY LeavesKeep
  <2> QED BY <1>0, <2>1 DEF Divided, Amount
<1> SUFFICES ASSUME order'[e].pc = "sending" \/ split'[e] # None PROVE Divided(e)'
  BY DEF Divided
<1>1. Settles(e) BY Settled
<1>2. CASE split[e] # None \/ At(e, "sending")
  <2>1. /\ order'[e].n = order[e].n /\ order'[e].input = order[e].input
        /\ order'[e].out = order[e].out
    BY <1>1, <1>2 DEF Settles
  <2>2. /\ order[e].input \in Leaves
        /\ order[e].out = [i \in 1 .. SplitN |-> Share(Amount(order[e].input), order[e].n, i)]
    BY <1>2 DEF BookInv, Divided, At
  <2> QED BY <1>0, <2>1, <2>2
<1>3. CASE split[e] = None /\ ~ At(e, "sending")
  <2>1. Choose(e) BY <1>1, <1>3 DEF Settles
  <2>2. Candidates(e) # {}
    <3>1. SUFFICES ASSUME Candidates(e) = {} PROVE FALSE OBVIOUS
    <3>2. order'[e].pc = "failed" /\ split'[e] = split[e]
      BY <2>1, <3>1, Own DEF Choose, Leave, chain, OrderType
    <3> QED BY <1>3, <3>2
  <2>3. PICK m \in Largest(Candidates(e)) :
          order' = [order EXCEPT ![e].pc = "sending", ![e].seen = {}, ![e].input = m,
                      ![e].out = [i \in 1 .. SplitN |-> Share(Amount(m), order[e].n, i)]]
    BY <2>1, <2>2 DEF Choose
  <2>4. /\ order'[e].input = m /\ order'[e].n = order[e].n
        /\ order'[e].out = [i \in 1 .. SplitN |-> Share(Amount(m), order[e].n, i)]
    BY <2>3, Own DEF OrderType
  <2>5. m \in Leaves
    <3>1. m \in order[e].seen /\ order[e].seen \subseteq Notes
      BY Own DEF Largest, Candidates, Listed, OrderType
    <3>2. m \in DepositNotes \/ split[m[1]] = "mined" BY <3>1, Own DEF Facts
    <3> QED BY <3>1, <3>2 DEF Leaves, Notes
  <2> QED BY <1>0, <2>4, <2>5
<1> QED BY <1>2, <1>3

\* The books after a step that makes no leaf.
LEMMA BooksQuiet ==
  ASSUME IInv, BookInv, [Next]_vars,
         \A e \in Orders : split'[e] = "mined" => split[e] = "mined"
  PROVE  IsFiniteSet(Leaves') /\ ValueConserved'
<1>1. \A e \in Orders : Settles(e) BY Settled
<1>2. \A e \in Orders : /\ split'[e] = "mined" <=> split[e] = "mined"
                        /\ split[e] = "mined" => order'[e].input = order[e].input
  BY <1>1 DEF Settles, None
<1>3. Leaves' = Leaves BY <1>2 DEF Leaves, OutputNotes
<1>4. SplitInputs' = SplitInputs BY <1>2 DEF SplitInputs
<1>5. \A m \in Leaves : Amount(m)' = Amount(m) BY LeavesKeep
<1>6. DepositNotes \subseteq Leaves BY DEF Leaves
<1>7. ASSUME NEW N \in SUBSET Leaves PROVE Worth(N)' = Worth(N)
  <2>1. [m \in N |-> Amount(m)'] = [m \in N |-> Amount(m)] BY <1>5
  <2> QED BY <2>1 DEF Worth
<1>8. Worth(Leaves \ SplitInputs)' = Worth(Leaves \ SplitInputs)
  BY <1>3, <1>4, <1>7 DEF Worth
<1>9. Worth(DepositNotes)' = Worth(DepositNotes) BY <1>6, <1>7
<1> QED BY <1>3, <1>8, <1>9 DEF BookInv, ValueConserved

\* The books after a split: its outputs take the place of its input.
LEMMA BooksSplit ==
  ASSUME IInv, BookInv, NEW o \in Orders, MineSplit(o), split'[o] = "mined"
  PROVE  IsFiniteSet(Leaves') /\ ValueConserved'
<1> DEFINE in == order[o].input
           out == order[o].out
           Outs == {<<o, i>> : i \in 1 .. SplitN}
           Rem == (Leaves \ SplitInputs) \ {in}
<1>1. /\ UNCHANGED <<order, given>> /\ split[o] = "sent" /\ in \notin nullified
      /\ split' = [split EXCEPT ![o] = "mined"]
  BY DEF MineSplit, IInv, TypeOK
<1>2. /\ in \in Leaves /\ order[o].n \in 1 .. SplitN
      /\ out = [i \in 1 .. SplitN |-> Share(Amount(in), order[o].n, i)]
      /\ out \in [1 .. SplitN -> Nat]
  BY <1>1, Own DEF BookInv, Divided, Progress, Chosen, None
<1>3. Leaves' = Leaves \cup Outs /\ Leaves \cap Outs = {}
  <2>1. \A e \in Orders : split'[e] = "mined" <=> split[e] = "mined" \/ e = o
    BY <1>1 DEF IInv, TypeOK
  <2>2. Outs = {m \in OutputNotes : m[1] = o} BY DEF OutputNotes
  <2>3. DepositNotes \cap Outs = {} BY NamesAssumption DEF DepositNotes, Deposit
  <2> QED BY <1>1, <2>1, <2>2, <2>3 DEF Leaves, OutputNotes
<1>4. /\ SplitInputs' = SplitInputs \cup {in} /\ in \notin SplitInputs
      /\ SplitInputs \subseteq Leaves
  <2>1. \A e \in Orders : split'[e] = "mined" <=> split[e] = "mined" \/ e = o
    BY <1>1 DEF IInv, TypeOK
  <2>2. \A e \in Orders : split[e] = "mined" =>
          order[e].input \in nullified /\ order[e].input \in Leaves
    BY Own DEF Facts, BookInv, Divided, None
  <2> QED BY <1>1, <2>1, <2>2 DEF SplitInputs
<1>5. /\ (Leaves \ SplitInputs)' = Rem \cup Outs /\ Rem \cap Outs = {}
      /\ Leaves \ SplitInputs = Rem \cup {in} /\ in \notin Rem
  BY <1>2, <1>3, <1>4
<1>6. /\ IsFiniteSet(Leaves) /\ IsFiniteSet(Outs) /\ IsFiniteSet(Rem)
      /\ IsFiniteSet(Leaves') /\ IsFiniteSet(1 .. SplitN) /\ IsFiniteSet(Rem \cup Outs)
  <2>1. IsFiniteSet(1 .. SplitN) BY BoundsAssumption, FS_Interval
  <2>2. IsFiniteSet(Outs)
    <3> DEFINE g == [i \in 1 .. SplitN |-> <<o, i>>]
    <3>1. Outs = {g[i] : i \in 1 .. SplitN} OBVIOUS
    <3> HIDE DEF g, Outs
    <3> QED BY <2>1, <3>1, FiniteImage
  <2>3. IsFiniteSet(Leaves) /\ IsFiniteSet(Rem) BY FS_Subset DEF BookInv
  <2> QED BY <1>3, <2>1, <2>2, <2>3, FS_Union
<1> DEFINE A == [m \in Leaves \cup Outs |-> Amount(m)]
<1>7. /\ \A m \in Leaves : A[m] = Amount(m) /\ Amount(m) \in Nat
      /\ \A i \in 1 .. SplitN : A[<<o, i>>] = out[i] /\ out[i] \in Nat
  <2>1. \A m \in Leaves : Amount(m) \in Nat BY LeafAmounts
  <2>2. \A i \in 1 .. SplitN : <<o, i>> \notin DepositNotes
    BY NamesAssumption DEF DepositNotes, Deposit
  <2> QED BY <1>2, <2>1, <2>2 DEF Amount
<1>8. \A m \in Leaves \cup Outs : A[m] = Amount(m) /\ A[m] \in Nat
  BY <1>7
<1>9. SumFunctionOnSet(A, Outs) = Amount(in)
  <2>1. SumFunctionOnSet(out, 1 .. SplitN) = Amount(in)
    <3> DEFINE v == Amount(in)
               n == order[o].n
    <3>1. /\ v \in Nat /\ n \in 1 .. SplitN /\ SplitN \in Nat \ {0}
          /\ \A i \in 1 .. SplitN : out[i] = Share(v, n, i)
      BY <1>2, <1>7, BoundsAssumption
    <3> HIDE DEF v, n, out
    <3>2. SumFunctionOnSet(out, 1 .. SplitN) = v BY <3>1, SharesAddUp
    <3> QED BY <3>2 DEF v
  <2> DEFINE S == 1 .. SplitN
             g == [i \in S |-> <<o, i>>]
  <2>2. \A i \in S : A[g[i]] = out[i] /\ out[i] \in Nat BY <1>7
  <2>3. \A i, j \in S : g[i] = g[j] => i = j OBVIOUS
  <2>4. Outs = {g[i] : i \in S} OBVIOUS
  <2>5. IsFiniteSet(S) BY <1>6
  <2>6. SumFunctionOnSet(A, {g[i] : i \in S}) = SumFunctionOnSet(out, S)
    <3> HIDE DEF A, Outs, out, in, S, g
    <3> QED BY <2>2, <2>3, <2>5, SumRenamed
  <2> HIDE DEF A, Outs, out, in, g
  <2> QED BY <2>1, <2>4, <2>6
<1>10. SumFunctionOnSet(A, Rem \cup {in}) = SumFunctionOnSet(A, Rem) + A[in]
  <2>1. \A m \in Rem \cup {in} : A[m] \in Nat BY <1>2, <1>8
  <2> HIDE DEF A, Rem, Outs, in
  <2> QED BY <1>5, <1>6, <2>1, SumAdd
<1>11. SumFunctionOnSet(A, Rem \cup Outs) = SumFunctionOnSet(A, Rem) + SumFunctionOnSet(A, Outs)
  <2>1. \A m \in Rem \cup Outs : A[m] \in Nat BY <1>8
  <2> HIDE DEF A, Rem, Outs, in
  <2> QED BY <1>5, <1>6, <2>1, SumUnion
<1>12. ASSUME NEW N \in SUBSET (Leaves \cup Outs)
       PROVE  Worth(N) = SumFunctionOnSet(A, N) /\ Worth(N)' = SumFunctionOnSet(A, N)
  <2>1. \A m \in N : Amount(m)' = Amount(m) BY <1>1 DEF Amount, given
  <2>2. [m \in N |-> Amount(m)'] = [m \in N |-> Amount(m)] BY <2>1
  <2>3. IsFiniteSet(N) BY <1>3, <1>6, FS_Subset
  <2>4. SumFunctionOnSet(A, N) = SumFunctionOnSet([m \in N |-> Amount(m)], N)
    BY <1>8, <2>3, SumSame
  <2> QED BY <2>2, <2>4 DEF Worth, SumFunction
<1>13. Worth(Leaves \ SplitInputs)' = SumFunctionOnSet(A, Rem \cup Outs)
  BY <1>5, <1>12 DEF Worth
<1>14. Worth(Leaves \ SplitInputs) = SumFunctionOnSet(A, Rem \cup {in})
  BY <1>2, <1>5, <1>12
<1>15. Worth(DepositNotes)' = Worth(DepositNotes)
  BY <1>12 DEF Leaves
<1>16. A[in] = Amount(in) BY <1>2, <1>7
<1> HIDE DEF A, Rem, Outs, in
<1> QED BY <1>6, <1>9, <1>10, <1>11, <1>13, <1>14, <1>15, <1>16 DEF BookInv, ValueConserved

LEMMA BooksInit == Init => BookInv
<1> SUFFICES ASSUME Init PROVE BookInv OBVIOUS
<1>1. Leaves = DepositNotes /\ SplitInputs = {}
  BY DEF Init, Leaves, SplitInputs, OutputNotes, None
<1>2. IsFiniteSet(DepositNotes)
  <2> DEFINE g == [d \in Deposits |-> Deposit(d)]
  <2>1. DepositNotes = {g[d] : d \in Deposits} BY DEF DepositNotes
  <2> HIDE DEF g
  <2> QED BY <2>1, FiniteAssumption, FiniteImage
<1>3. \A o \in Orders : ~ (order[o].pc = "sending" \/ split[o] # None)
  BY DEF Init, Locals
<1> QED BY <1>1, <1>2, <1>3 DEF BookInv, Divided, ValueConserved

LEMMA BooksStep == IInv /\ BookInv /\ [Next]_vars => BookInv'
<1> SUFFICES ASSUME IInv, BookInv, [Next]_vars PROVE BookInv' OBVIOUS
<1>1. \A o \in Orders : Divided(o)' BY DividedStep
<1>2. IsFiniteSet(Leaves') /\ ValueConserved'
  <2>1. CASE \A e \in Orders : split'[e] = "mined" => split[e] = "mined"
    BY <2>1, BooksQuiet
  <2>2. CASE \E e \in Orders : split'[e] = "mined" /\ split[e] # "mined"
    <3>1. PICK e \in Orders : split'[e] = "mined" /\ MineSplit(e)
      BY <2>2, Settled DEF Settles
    <3> QED BY <3>1, BooksSplit
  <2> QED BY <2>1, <2>2
<1> QED BY <1>1, <1>2 DEF BookInv

\* Whatever orders of whatever tabs split, and whatever fails: the leaves that were not
\* split are worth what was deposited.
THEOREM SplitsConserveValue == Spec => []ValueConserved
<1>1. BookInv => ValueConserved BY DEF BookInv
<1> QED BY <1>1, BooksInit, BooksStep, Invariance, PTL DEF Spec
===============================================================================
