--------------------------- MODULE LeafCacheProofs ----------------------------
(***************************************************************************)
(* Proofs about LeafCache.                                                 *)
(***************************************************************************)
EXTENDS LeafCache, TLAPS

-------------------------------------------------------------------------------
(***************************************************************************)
(* The inductive invariant                                                 *)
(***************************************************************************)

\* A scan has asked for the windows below start, and lacks a leaf of them only if an answer did.
ScanInv(s) ==
  /\ scan[s].latest <= chain /\ scan[s].start <= scan[s].latest + 1
  /\ scan[s].out \subseteq 1..(scan[s].start - 1)
  /\ scan[s].whole => scan[s].out = 1..(scan[s].start - 1)

\* A withdrawal waits for a scan that reads what there was when it began, or a node that was
\* behind gave the height; a list without gaps is the leaves of some time.
CallInv(c) ==
  /\ call[c].began <= chain
  /\ call[c].kind = "withdraw" => call[c].pc \in {"waiting", "got"}
  /\ call[c].kind = "withdraw" /\ call[c].pc = "waiting" =>
       \A s \in Scans : call[c].of = {s} /\ scan[s].pc = "reading" /\ ~ scan[s].late
                          => scan[s].latest >= call[c].began
  /\ call[c].kind = "withdraw" /\ call[c].pc = "got" /\ call[c].whole
       => \E n \in 0..chain : call[c].list = 1..n
  /\ call[c].pc = "refused" => ~ call[c].whole

IInv ==
  /\ TypeOK
  /\ \A s \in Scans : ScanInv(s)
  /\ \A c \in Calls : CallInv(c)

MapsType ==
  /\ ordered \subseteq Lists /\ leafSet \subseteq Lists /\ flying \subseteq Scans /\ setTask \subseteq Calls
  /\ AtMostOne(ordered) /\ AtMostOne(leafSet) /\ AtMostOne(flying) /\ AtMostOne(setTask)

LEMMA NoScanFacts ==
  /\ NoScan \in ScanType /\ NoScan.pc = "idle" /\ NoScan.latest = 0 /\ NoScan.start = 1
  /\ NoScan.out = {} /\ NoScan.whole /\ 1..(NoScan.start - 1) = {}
BY BoundsAssumption DEF NoScan, Scan, ScanType, Lists

LEMMA CallFacts ==
  ASSUME NEW kind \in Kinds, NEW pc \in PCs, NEW of \in SUBSET (Scans \cup Calls),
         NEW list \in Lists, NEW began \in 0..MaxLeaves, NEW whole \in BOOLEAN,
         NEW r, r = Call(kind, pc, of, list, began, whole)
  PROVE  /\ r \in CallType /\ r.kind = kind /\ r.pc = pc /\ r.of = of
         /\ r.list = list /\ r.began = began /\ r.whole = whole
BY DEF Call, CallType

\* What a call has that waits for no one and has no list.
LEMMA Nothing ==
  /\ {} \in Lists /\ 0 \in 0..MaxLeaves /\ "none" \in Kinds /\ {} \in SUBSET (Scans \cup Calls)
  /\ TRUE \in BOOLEAN /\ FALSE \in BOOLEAN
  /\ "idle" \in PCs /\ "got" \in PCs /\ "refused" \in PCs
BY BoundsAssumption DEF Lists, Kinds, PCs

LEMMA NoCallFacts ==
  /\ NoCall \in CallType /\ NoCall.kind = "none" /\ NoCall.pc = "idle" /\ NoCall.began = 0
BY Nothing DEF NoCall, Call, CallType

LEMMA InitInv == Init => IInv
<1> SUFFICES ASSUME Init PROVE IInv OBVIOUS
<1>1. TypeOK
  BY NoScanFacts, NoCallFacts, BoundsAssumption DEF Init, TypeOK, AtMostOne, Lists
<1>2. ASSUME NEW s \in Scans PROVE ScanInv(s)
  <2>1. scan[s] = NoScan /\ chain = 0 BY DEF Init
  <2>2. NoScan.latest <= chain /\ NoScan.start <= NoScan.latest + 1 BY <2>1, NoScanFacts
  <2> QED BY <2>1, <2>2, NoScanFacts DEF ScanInv
<1>3. \A c \in Calls : CallInv(c) BY NoCallFacts DEF Init, CallInv
<1> QED BY <1>1, <1>2, <1>3 DEF IInv

-------------------------------------------------------------------------------
(***************************************************************************)
(* Calls that begin                                                        *)
(***************************************************************************)

\* The types of what a step finds.
LEMMA Types ==
  ASSUME IInv
  PROVE  /\ chain \in Nat /\ chain <= MaxLeaves /\ MaxLeaves \in Nat /\ MapsType
         /\ \A s \in Scans : scan[s] \in ScanType /\ ScanInv(s)
         /\ \A c \in Calls : call[c] \in CallType /\ CallInv(c)
BY BoundsAssumption DEF IInv, TypeOK, MapsType

\* One call changes, and the scans do not.
LEMMA OneCall ==
  ASSUME IInv, NEW c \in Calls, NEW r \in CallType, call' = [call EXCEPT ![c] = r],
         CallInv(c)', MapsType', UNCHANGED <<chain, scan>>
  PROVE  IInv'
<1>1. TypeOK' BY DEF IInv, TypeOK, MapsType
<1>2. \A s \in Scans : ScanInv(s)' BY DEF IInv, ScanInv
<1>3. \A e \in Calls \ {c} : CallInv(e)' BY DEF IInv, TypeOK, CallInv
<1> QED BY <1>1, <1>2, <1>3 DEF IInv

\* A call is over: nothing of it is left.
LEMMA CallOver ==
  ASSUME IInv, NEW c \in Calls, call' = [call EXCEPT ![c] = NoCall], MapsType',
         UNCHANGED <<chain, scan>>
  PROVE  IInv'
<1>1. call'[c] = NoCall /\ chain \in Nat BY DEF IInv, TypeOK
<1>2. CallInv(c)' BY <1>1, NoCallFacts DEF CallInv
<1> QED BY <1>2, NoCallFacts, OneCall

LEMMA NewCallFacts ==
  ASSUME IInv, NEW kind \in {"balance", "split", "withdraw"}, NEW pc \in {"waiting", "joined"},
         NEW of \in SUBSET (Scans \cup Calls)
  PROVE  /\ NewCall(kind, pc, of) \in CallType /\ NewCall(kind, pc, of).kind = kind
         /\ NewCall(kind, pc, of).pc = pc /\ NewCall(kind, pc, of).of = of
         /\ NewCall(kind, pc, of).began \in Nat /\ NewCall(kind, pc, of).began <= chain
<1> DEFINE began == IF kind = "withdraw" THEN chain ELSE 0
<1>1. began \in 0..MaxLeaves /\ began <= chain BY Types
<1>2. kind \in Kinds /\ pc \in PCs BY DEF Kinds, PCs
<1>3. NewCall(kind, pc, of) = Call(kind, pc, of, {}, began, TRUE) BY DEF NewCall
<1> HIDE DEF began
<1>4. /\ NewCall(kind, pc, of) \in CallType /\ NewCall(kind, pc, of).kind = kind
      /\ NewCall(kind, pc, of).pc = pc /\ NewCall(kind, pc, of).of = of
      /\ NewCall(kind, pc, of).began = began
  BY <1>1, <1>2, <1>3, Nothing DEF Call, CallType
<1>5. began \in Nat BY <1>1
<1> QED BY <1>1, <1>4, <1>5

\* What a call of some kind goes on with.
LEMMA HasFacts ==
  ASSUME NEW kind \in Kinds, NEW list \in Lists, NEW whole \in BOOLEAN
  PROVE  /\ Has(kind, list, whole) \in CallType
         /\ Has(kind, list, whole).began = 0 /\ Has(kind, list, whole).pc \in {"idle", "got"}
         /\ kind = "withdraw" => /\ Has(kind, list, whole).list = list
                                 /\ Has(kind, list, whole).whole = whole
                                 /\ Has(kind, list, whole).pc = "got"
         /\ Has(kind, list, whole).kind = "withdraw" => kind = "withdraw" /\ Has(kind, list, whole).pc = "got"
<1>1. CASE kind = "split" BY <1>1, NoCallFacts DEF Has, Done
<1>2. CASE kind # "split"
  <2> DEFINE w == IF kind = "withdraw" THEN whole ELSE TRUE
  <2>1. w \in BOOLEAN /\ (kind = "withdraw" => w = whole)
    <3>1. CASE kind = "withdraw" BY <3>1
    <3>2. CASE kind # "withdraw" BY <3>2
    <3> QED BY <3>1, <3>2
  <2>2. Has(kind, list, whole) = Call(kind, "got", {}, list, 0, w) BY <1>2 DEF Has
  <2> HIDE DEF w
  <2> QED BY <2>1, <2>2, Nothing, CallFacts
<1> QED BY <1>1, <1>2

LEMMA GetInv ==
  ASSUME IInv, NEW c \in Calls, NEW kind \in {"balance", "split", "withdraw"},
         NEW cached \in SUBSET ordered, NEW inflight \in SUBSET flying,
         kind = "withdraw" => cached = {} /\ inflight = {},
         GetOnChainLeaves(c, kind, cached, inflight),
         ordered' \subseteq ordered, setTask' \subseteq Calls, AtMostOne(setTask)',
         UNCHANGED <<chain, leafSet>>
  PROVE  IInv'
<1>1. kind \in Kinds /\ MapsType /\ chain \in Nat BY Types DEF Kinds
<1>2. flying' \subseteq Scans /\ AtMostOne(flying)' => MapsType'
  BY <1>1 DEF MapsType, AtMostOne
<1>3. CASE \E list \in cached :
             call' = [call EXCEPT ![c] = Has(kind, list, TRUE)] /\ flying' = inflight /\ UNCHANGED scan
  <2>1. PICK list \in cached :
          call' = [call EXCEPT ![c] = Has(kind, list, TRUE)] /\ flying' = inflight /\ UNCHANGED scan
    BY <1>3
  <2>2. list \in Lists /\ kind # "withdraw" BY <1>1, <2>1 DEF MapsType
  <2> DEFINE r == Has(kind, list, TRUE)
  <2>3. /\ r \in CallType /\ r.began = 0 /\ r.pc \in {"idle", "got"} /\ r.kind # "withdraw"
        /\ call' = [call EXCEPT ![c] = r]
    BY <1>1, <2>1, <2>2, HasFacts
  <2> HIDE DEF r
  <2>4. call'[c] = r BY <2>3 DEF IInv, TypeOK
  <2>5. CallInv(c)' BY <1>1, <2>3, <2>4 DEF CallInv
  <2>6. MapsType' BY <1>1, <1>2, <2>1 DEF MapsType, AtMostOne
  <2> QED BY <2>1, <2>3, <2>5, <2>6, OneCall
<1>4. CASE \E s \in inflight :
             /\ call' = [call EXCEPT ![c] = NewCall(kind, "waiting", {s})]
             /\ flying' = inflight /\ UNCHANGED scan
  <2>1. PICK s \in inflight :
          /\ call' = [call EXCEPT ![c] = NewCall(kind, "waiting", {s})]
          /\ flying' = inflight /\ UNCHANGED scan
    BY <1>4
  <2> DEFINE r == NewCall(kind, "waiting", {s})
  <2>2. {s} \in SUBSET (Scans \cup Calls) BY <1>1 DEF MapsType
  <2>3. /\ r \in CallType /\ r.began <= chain /\ r.kind = kind
        /\ r.pc = "waiting" /\ call' = [call EXCEPT ![c] = r]
    BY <2>1, <2>2, NewCallFacts
  <2> HIDE DEF r
  <2>4. call'[c] = r /\ kind # "withdraw" BY <2>1, <2>3 DEF IInv, TypeOK
  <2>5. CallInv(c)' BY <2>1, <2>3, <2>4 DEF CallInv
  <2>6. MapsType' BY <1>1, <1>2, <2>1 DEF MapsType, AtMostOne
  <2> QED BY <2>1, <2>3, <2>5, <2>6, OneCall
<1>5. CASE \E s \in Scans :
             /\ scan[s].pc = "idle"
             /\ scan' = [scan EXCEPT ![s].pc = "asked"]
             /\ call' = [call EXCEPT ![c] = NewCall(kind, "waiting", {s})]
             /\ flying' = {s}
  <2>1. PICK s \in Scans :
          /\ scan' = [scan EXCEPT ![s].pc = "asked"]
          /\ call' = [call EXCEPT ![c] = NewCall(kind, "waiting", {s})]
          /\ flying' = {s}
    BY <1>5
  <2> DEFINE r == NewCall(kind, "waiting", {s})
  <2>2. {s} \in SUBSET (Scans \cup Calls) OBVIOUS
  <2>3. /\ r \in CallType /\ r.began <= chain /\ r.pc = "waiting" /\ r.of = {s}
        /\ call' = [call EXCEPT ![c] = r]
    BY <2>1, <2>2, NewCallFacts
  <2> HIDE DEF r
  <2>4. call'[c] = r /\ call' \in [Calls -> CallType] BY <2>3 DEF IInv, TypeOK
  <2>5. /\ scan' \in [Scans -> ScanType]
        /\ \A u \in Scans \ {s} : scan'[u] = scan[u]
        /\ scan'[s].pc = "asked" /\ scan'[s].latest = scan[s].latest
        /\ scan'[s].start = scan[s].start /\ scan'[s].out = scan[s].out
        /\ scan'[s].whole = scan[s].whole
    BY <2>1 DEF IInv, TypeOK, ScanType
  <2>6. \A u \in Scans : ScanInv(u)' BY <2>5 DEF IInv, ScanInv
  <2>7. CallInv(c)'
    <3>1. \A u \in Scans : {s} = {u} => u = s OBVIOUS
    <3>2. \A u \in Scans : call'[c].of = {u} => scan'[u].pc # "reading"
      BY <2>3, <2>4, <2>5, <3>1
    <3> QED BY <2>3, <2>4, <3>2 DEF CallInv
  <2>8. ASSUME NEW e \in Calls \ {c} PROVE CallInv(e)'
    <3>1. call'[e] = call[e] /\ CallInv(e) BY <2>3 DEF IInv, TypeOK
    <3>2. \A u \in Scans : scan'[u].pc = "reading" => scan'[u] = scan[u] BY <2>5
    <3> QED BY <3>1, <3>2 DEF CallInv
  <2>9. MapsType' BY <1>2, <2>1 DEF AtMostOne
  <2>10. TypeOK' BY <2>4, <2>5, <2>9 DEF IInv, TypeOK, MapsType
  <2> QED BY <2>6, <2>7, <2>8, <2>10 DEF IInv
<1> QED BY <1>3, <1>4, <1>5 DEF GetOnChainLeaves

LEMMA BalanceInv == ASSUME IInv, NEW c \in Calls, Balance(c) PROVE IInv'
<1>1. MapsType /\ chain \in Nat /\ UNCHANGED <<chain, ordered, leafSet>> BY Types DEF Balance
<1>2. CASE call' = [call EXCEPT ![c] = Done] /\ UNCHANGED <<scan, flying, setTask>>
  BY <1>1, <1>2, CallOver DEF Done, MapsType, AtMostOne
<1>3. CASE \E e \in setTask :
             /\ call' = [call EXCEPT ![c] = NewCall("balance", "joined", {e})]
             /\ UNCHANGED <<scan, flying, setTask>>
  <2>1. PICK e \in setTask :
          /\ call' = [call EXCEPT ![c] = NewCall("balance", "joined", {e})]
          /\ UNCHANGED <<scan, flying, setTask>>
    BY <1>3
  <2> DEFINE r == NewCall("balance", "joined", {e})
  <2>2. {e} \in SUBSET (Scans \cup Calls) BY <1>1 DEF MapsType
  <2>3. /\ r \in CallType /\ r.began <= chain /\ r.kind = "balance" /\ r.pc = "joined"
        /\ call' = [call EXCEPT ![c] = r]
    BY <2>1, <2>2, NewCallFacts
  <2> HIDE DEF r
  <2>4. call'[c] = r BY <2>3 DEF IInv, TypeOK
  <2>5. CallInv(c)' BY <1>1, <2>3, <2>4 DEF CallInv
  <2>6. MapsType' BY <1>1, <2>1 DEF MapsType, AtMostOne
  <2> QED BY <1>1, <2>1, <2>3, <2>5, <2>6, OneCall
<1>4. CASE setTask' = {c} /\ GetOnChainLeaves(c, "balance", ordered, flying)
  BY <1>1, <1>4, GetInv DEF AtMostOne
<1> QED BY <1>2, <1>3, <1>4 DEF Balance

LEMMA SplitInv == ASSUME IInv, NEW c \in Calls, Split(c) PROVE IInv'
<1>1. MapsType BY Types
<1> QED BY <1>1, GetInv DEF Split, MapsType, AtMostOne

LEMMA WithdrawInv == ASSUME IInv, NEW c \in Calls, Withdraw(c) PROVE IInv'
<1>1. /\ ordered' = {} /\ GetOnChainLeaves(c, "withdraw", {}, {})
      /\ UNCHANGED <<chain, leafSet, setTask>> /\ MapsType
  BY Types DEF Withdraw
<1>2. {} \in SUBSET ordered /\ {} \in SUBSET flying OBVIOUS
<1>3. ordered' \subseteq ordered /\ setTask' \subseteq Calls /\ AtMostOne(setTask)'
  BY <1>1 DEF MapsType, AtMostOne
<1> QED BY <1>1, <1>2, <1>3, GetInv

\* A list without gaps is known to a node that is not behind.
LEMMA WholeIsKnown ==
  ASSUME IInv, NEW c \in Calls, call[c].kind = "withdraw", call[c].pc = "got", call[c].whole
  PROVE  Knows(chain, call[c].list)
BY DEF IInv, CallInv, Knows

LEMMA CheckInv == ASSUME IInv, NEW c \in Calls, Check(c) PROVE IInv'
<1>1. /\ call[c].kind = "withdraw" /\ call[c].pc = "got" /\ UNCHANGED <<chain, scan, maps>>
      /\ MapsType /\ chain \in Nat
  BY Types DEF Check
<1>2. MapsType' BY <1>1 DEF MapsType, AtMostOne, maps
<1>3. CASE call' = [call EXCEPT ![c] = Done] BY <1>1, <1>2, <1>3, CallOver DEF Done
<1>4. CASE \E height \in Heights :
             /\ ~ Knows(height, call[c].list)
             /\ call' = [call EXCEPT ![c] = Refused(call[c].whole /\ height = chain)]
  <2>1. PICK height \in Heights :
             /\ ~ Knows(height, call[c].list)
             /\ call' = [call EXCEPT ![c] = Refused(call[c].whole /\ height = chain)]
    BY <1>4
  <2>2. (call[c].whole /\ height = chain) = FALSE
    BY <1>1, <2>1, WholeIsKnown DEF IInv, TypeOK, CallType
  <2> DEFINE r == Refused(FALSE)
  <2>3. call' = [call EXCEPT ![c] = r] BY <2>1, <2>2
  <2>5. r \in CallType /\ r.kind = "none" /\ r.began = 0 /\ r.pc = "refused" /\ r.whole = FALSE
    BY Nothing DEF Refused, Call, CallType
  <2> HIDE DEF r
  <2>6. call'[c] = r BY <2>3 DEF IInv, TypeOK
  <2>7. CallInv(c)' BY <1>1, <2>5, <2>6 DEF CallInv
  <2> QED BY <1>1, <1>2, <2>3, <2>5, <2>7, OneCall
<1> QED BY <1>3, <1>4 DEF Check

-------------------------------------------------------------------------------
(***************************************************************************)
(* Steps of a scan                                                         *)
(***************************************************************************)

\* One scan changes, and no call does.
LEMMA OneScan ==
  ASSUME IInv, NEW s \in Scans, NEW r \in ScanType, scan' = [scan EXCEPT ![s] = r],
         r.pc = "reading" /\ ~ r.late =>
           \/ r.latest = chain
           \/ scan[s].pc = "reading" /\ r.latest = scan[s].latest /\ r.late = scan[s].late,
         ScanInv(s)', UNCHANGED <<chain, maps, call>>
  PROVE  IInv'
<1>1. TypeOK' BY DEF IInv, TypeOK, AtMostOne, maps
<1>2. scan'[s] = r /\ chain \in Nat BY DEF IInv, TypeOK
<1>3. \A u \in Scans \ {s} : ScanInv(u)' BY DEF IInv, TypeOK, ScanInv
<1>4. ASSUME NEW c \in Calls PROVE CallInv(c)'
  <2>1. call'[c] = call[c] /\ CallInv(c) BY DEF IInv
  <2>2. ASSUME NEW u \in Scans, call[c].kind = "withdraw", call[c].pc = "waiting",
               call[c].of = {u}, scan'[u].pc = "reading", ~ scan'[u].late
        PROVE  scan'[u].latest >= call[c].began
    <3>1. CASE u = s BY <1>2, <2>1, <2>2, <3>1 DEF CallInv
    <3>2. CASE u # s
      <4>1. scan'[u] = scan[u] BY <3>2 DEF IInv, TypeOK
      <4> QED BY <2>1, <2>2, <4>1 DEF CallInv
    <3> QED BY <3>1, <3>2
  <2> QED BY <2>1, <2>2 DEF CallInv
<1> QED BY <1>1, <1>3, <1>4 DEF IInv

LEMMA ReadHeightInv ==
  ASSUME IInv, NEW s \in Scans, NEW height \in 0..chain, ReadHeight(s, height) PROVE IInv'
<1> DEFINE r == Scan("reading", height, height < chain)
<1>1. chain \in Nat /\ chain <= MaxLeaves /\ MaxLeaves \in Nat BY Types
<1>2. /\ r \in ScanType /\ r.pc = "reading" /\ r.latest = height /\ r.start = 1
      /\ r.out = {} /\ r.late = (height < chain) /\ scan' = [scan EXCEPT ![s] = r]
      /\ UNCHANGED <<chain, maps, call>>
  BY <1>1, BoundsAssumption DEF Scan, ScanType, Lists, ReadHeight
<1> HIDE DEF r
<1>3. scan'[s] = r BY <1>2 DEF IInv, TypeOK
<1>4. 1..(r.start - 1) = {} /\ r.latest <= chain' /\ r.start <= r.latest + 1 BY <1>1, <1>2
<1>5. ScanInv(s)' BY <1>2, <1>3, <1>4 DEF ScanInv
<1>6. height < chain \/ height = chain BY <1>1
<1>7. r.pc = "reading" /\ ~ r.late => r.latest = chain BY <1>2, <1>6
<1> QED BY <1>2, <1>5, <1>7, OneScan

\* The windows are adjacent: what is collected lacks no leaf unless an answer does.
LEMMA ReadChunkInv ==
  ASSUME IInv, NEW s \in Scans, NEW seen \in SUBSET Window(s), ReadChunk(s, seen) PROVE IInv'
<1> DEFINE end == ChunkEnd(s)
           r == [scan[s] EXCEPT !.out = scan[s].out \cup seen, !.start = end + 1,
                                !.whole = scan[s].whole /\ seen = Window(s)]
<1>1. /\ scan[s] \in ScanType /\ ScanInv(s) /\ chain \in Nat /\ chain <= MaxLeaves
      /\ scan[s].pc = "reading" /\ scan[s].start <= scan[s].latest /\ MaxLeaves \in Nat
      /\ UNCHANGED <<chain, maps, call>>
  BY Types DEF ReadChunk
<1>2. end \in scan[s].start..scan[s].latest /\ end \in Nat
  BY <1>1, BoundsAssumption DEF ChunkEnd, ScanType
<1>3. scan' = [scan EXCEPT ![s] = r] BY DEF ReadChunk, Collected
<1>4. Window(s) = scan[s].start..end BY DEF Window
<1> HIDE DEF end
<1>5. 1..(scan[s].start - 1) \cup Window(s) = 1..end BY <1>1, <1>2, <1>4 DEF ScanType
<1>6. scan[s].out \cup seen \subseteq 1..end BY <1>1, <1>5 DEF ScanInv
<1>7. scan[s].whole /\ seen = Window(s) => scan[s].out \cup seen = 1..end
  BY <1>1, <1>5 DEF ScanInv
<1>8. end <= MaxLeaves BY <1>1, <1>2 DEF ScanType
<1>9. /\ r \in ScanType /\ r.pc = "reading" /\ r.latest = scan[s].latest /\ r.late = scan[s].late
      /\ r.start = end + 1 /\ r.out = scan[s].out \cup seen
      /\ r.whole = (scan[s].whole /\ seen = Window(s))
  <2>1. scan[s].out \cup seen \in Lists BY <1>1, <1>2, <1>6, <1>8 DEF Lists
  <2>2. end + 1 \in 1..(MaxLeaves + 1) BY <1>1, <1>2, <1>8
  <2>3. (scan[s].whole /\ seen = Window(s)) \in BOOLEAN OBVIOUS
  <2> QED BY <1>1, <2>1, <2>2, <2>3 DEF ScanType
<1> HIDE DEF r
<1>10. scan'[s] = r BY <1>3 DEF IInv, TypeOK
<1>11. r.start - 1 = end BY <1>2, <1>9
<1>12. r.start <= r.latest + 1 BY <1>1, <1>2, <1>9 DEF ScanType
<1>13. ScanInv(s)' BY <1>1, <1>6, <1>7, <1>9, <1>10, <1>11, <1>12 DEF ScanInv
<1> QED BY <1>1, <1>3, <1>9, <1>13, OneScan

LEMMA AnswerInv == ASSUME IInv, NEW s \in Scans, InStep(s) \/ Behind(s) PROVE IInv'
<1>1. chain \in 0..chain /\ Window(s) \in SUBSET Window(s) BY Types
<1> QED BY <1>1, ReadHeightInv, ReadChunkInv DEF InStep, Behind

LEMMA ShrinkChunkInv == ASSUME IInv, NEW s \in Scans, ShrinkChunk(s) PROVE IInv'
<1>1. PICK size \in 1..(scan[s].chunk - 1) : scan' = [scan EXCEPT ![s].chunk = size]
  BY DEF ShrinkChunk
<1>2. /\ scan[s] \in ScanType /\ ScanInv(s) /\ scan[s].pc = "reading"
      /\ UNCHANGED <<chain, maps, call>>
  BY Types DEF ShrinkChunk
<1> DEFINE r == [scan[s] EXCEPT !.chunk = size]
<1>3. size \in 1..Chunk BY <1>1, <1>2, BoundsAssumption DEF ScanType
<1>4. /\ r \in ScanType /\ r.pc = "reading" /\ r.latest = scan[s].latest /\ r.late = scan[s].late
      /\ r.start = scan[s].start /\ r.out = scan[s].out /\ r.whole = scan[s].whole
      /\ scan' = [scan EXCEPT ![s] = r]
  BY <1>1, <1>2, <1>3 DEF ScanType
<1> HIDE DEF r
<1>5. scan'[s] = r BY <1>4 DEF IInv, TypeOK
<1>6. ScanInv(s)' BY <1>2, <1>4, <1>5 DEF ScanInv
<1> QED BY <1>2, <1>4, <1>6, OneScan

\* A scan that ends without gaps has the leaves of the height it read.
LEMMA EndFacts ==
  ASSUME IInv, NEW s \in Scans, EndScan(s)
  PROVE  /\ scan[s].out \in Lists /\ scan[s].latest \in 0..chain /\ scan[s].pc = "reading"
         /\ scan[s].whole \in BOOLEAN
         /\ scan[s].whole => scan[s].out = 1..scan[s].latest
<1>1. /\ scan[s] \in ScanType /\ ScanInv(s) /\ chain \in Nat /\ scan[s].pc = "reading"
      /\ scan[s].start > scan[s].latest
  BY Types DEF EndScan
<1>2. scan[s].start - 1 = scan[s].latest /\ scan[s].latest \in 0..chain
  BY <1>1, BoundsAssumption DEF ScanInv, ScanType
<1> QED BY <1>1, <1>2 DEF ScanInv, ScanType

\* A scan is over: it is idle again, and each call keeps its locals or goes on.
LEMMA ScanOver ==
  ASSUME IInv, NEW s \in Scans, scan' = [scan EXCEPT ![s] = NoScan],
         UNCHANGED chain, MapsType', call' \in [Calls -> CallType],
         \A c \in Calls :
           \/ call'[c] = call[c]
           \/ /\ call'[c].began = 0 /\ call'[c].pc \in {"idle", "got"}
              /\ call'[c].kind = "withdraw" => call'[c].pc = "got"
              /\ call'[c].kind = "withdraw" /\ call'[c].whole
                   => \E n \in 0..chain : call'[c].list = 1..n
  PROVE  IInv'
<1>1. chain \in Nat /\ scan' \in [Scans -> ScanType] /\ scan'[s] = NoScan
  BY NoScanFacts DEF IInv, TypeOK
<1>2. TypeOK' BY <1>1 DEF IInv, TypeOK, MapsType
<1>3. ASSUME NEW u \in Scans PROVE ScanInv(u)'
  <2>1. CASE u # s
    <3>1. scan'[u] = scan[u] /\ chain' = chain /\ ScanInv(u) BY <2>1 DEF IInv, TypeOK
    <3> QED BY <3>1 DEF ScanInv
  <2>2. CASE u = s
    <3>1. NoScan.latest <= chain' /\ NoScan.start <= NoScan.latest + 1 BY <1>1, NoScanFacts
    <3> QED BY <1>1, <2>2, <3>1, NoScanFacts DEF ScanInv
  <2> QED BY <2>1, <2>2
<1>4. ASSUME NEW c \in Calls PROVE CallInv(c)'
  <2>1. CallInv(c) BY DEF IInv
  <2>2. \A u \in Scans : scan'[u].pc = "reading" => scan'[u] = scan[u]
    BY <1>1, NoScanFacts DEF IInv, TypeOK
  <2>3. CASE call'[c] = call[c] BY <2>1, <2>2, <2>3 DEF CallInv
  <2>4. CASE call'[c] # call[c] BY <1>1, <2>4 DEF CallInv
  <2> QED BY <2>3, <2>4
<1> QED BY <1>2, <1>3, <1>4 DEF IInv

LEMMA EndScanInv == ASSUME IInv, NEW s \in Scans, EndScan(s) PROVE IInv'
<1> DEFINE out == scan[s].out
           whole == scan[s].whole
<1>1. /\ out \in Lists /\ whole \in BOOLEAN /\ MapsType
      /\ whole => \E n \in 0..chain : out = 1..n
  BY EndFacts, Types
<1>2. /\ scan' = [scan EXCEPT ![s] = NoScan] /\ ordered' = {out} /\ flying' = {}
      /\ UNCHANGED <<chain, leafSet, setTask>>
  BY DEF EndScan
<1>3. MapsType' BY <1>1, <1>2 DEF MapsType, AtMostOne
<1>4. \A c \in Calls : call'[c] = call[c] \/ call'[c] = Has(call[c].kind, out, whole)
  BY DEF EndScan
<1>5. \A c \in Calls : call[c] \in CallType /\ call[c].kind \in Kinds BY Types DEF CallType
<1>6. call' = [c \in Calls |-> call'[c]] BY DEF EndScan
<1> HIDE DEF out, whole
<1>7. \A c \in Calls :
        /\ Has(call[c].kind, out, whole) \in CallType
        /\ Has(call[c].kind, out, whole).began = 0
        /\ Has(call[c].kind, out, whole).pc \in {"idle", "got"}
        /\ Has(call[c].kind, out, whole).kind = "withdraw" =>
             /\ Has(call[c].kind, out, whole).pc = "got"
             /\ Has(call[c].kind, out, whole).list = out
             /\ Has(call[c].kind, out, whole).whole = whole
  BY <1>1, <1>5, HasFacts
<1>8. call' \in [Calls -> CallType] BY <1>4, <1>5, <1>6, <1>7
<1>9. \A c \in Calls :
        \/ call'[c] = call[c]
        \/ /\ call'[c].began = 0 /\ call'[c].pc \in {"idle", "got"}
           /\ call'[c].kind = "withdraw" => call'[c].pc = "got"
           /\ call'[c].kind = "withdraw" /\ call'[c].whole
                => \E n \in 0..chain : call'[c].list = 1..n
  BY <1>1, <1>4, <1>7
<1> QED BY <1>2, <1>3, <1>8, <1>9, ScanOver

LEMMA FailScanInv == ASSUME IInv, NEW s \in Scans, FailScan(s) PROVE IInv'
<1>1. /\ scan' = [scan EXCEPT ![s] = NoScan] /\ flying' = {} /\ setTask' \in {{}, setTask}
      /\ UNCHANGED <<chain, ordered, leafSet>> /\ MapsType
  BY Types DEF FailScan
<1>2. MapsType' BY <1>1 DEF MapsType, AtMostOne
<1>3. \A c \in Calls : call'[c] = call[c] \/ call'[c] = NoCall BY DEF FailScan, Failed
<1>4. call' \in [Calls -> CallType] BY NoCallFacts DEF FailScan, Failed, IInv, TypeOK
<1>5. \A c \in Calls :
        \/ call'[c] = call[c]
        \/ call'[c].began = 0 /\ call'[c].pc = "idle" /\ call'[c].kind = "none"
  BY <1>3, NoCallFacts
<1> QED BY <1>1, <1>2, <1>4, <1>5, ScanOver

-------------------------------------------------------------------------------
(***************************************************************************)
(* The caches and the chain                                                *)
(***************************************************************************)
LEMMA FillSetInv == ASSUME IInv, NEW c \in Calls, FillSet(c) PROVE IInv'
<1>1. /\ call[c].list \in Lists /\ leafSet' = {call[c].list} /\ setTask' = {}
      /\ UNCHANGED <<chain, scan, ordered, flying>> /\ MapsType /\ chain \in Nat
  BY Types DEF FillSet, CallType
<1>2. MapsType' BY <1>1 DEF MapsType, AtMostOne
<1>3. \A e \in Calls : call'[e] = NoCall \/ call'[e] = call[e] BY DEF FillSet, Done
<1>4. call' \in [Calls -> CallType] BY NoCallFacts DEF FillSet, Done, IInv, TypeOK
<1>5. TypeOK' BY <1>1, <1>2, <1>4 DEF IInv, TypeOK, MapsType
<1>6. \A s \in Scans : ScanInv(s)' BY <1>1 DEF IInv, ScanInv
<1>7. ASSUME NEW e \in Calls PROVE CallInv(e)'
  <2>1. CASE call'[e] = call[e] BY <1>1, <2>1 DEF IInv, CallInv
  <2>2. CASE call'[e] = NoCall BY <1>1, <2>2, NoCallFacts DEF CallInv
  <2> QED BY <1>3, <2>1, <2>2
<1> QED BY <1>5, <1>6, <1>7 DEF IInv

\* Entries only leave the caches.
LEMMA ForgetInv == ASSUME IInv, Invalidate \/ ExpireList \/ ExpireSet PROVE IInv'
BY DEF Invalidate, ExpireList, ExpireSet, IInv, TypeOK, ScanInv, CallInv, AtMostOne

LEMMA InsertInv == ASSUME IInv, Insert PROVE IInv'
<1>1. /\ chain \in Nat /\ chain' = chain + 1 /\ chain' \in 0..MaxLeaves
      /\ UNCHANGED <<scan, maps, call>>
  BY Types DEF Insert
<1>2. TypeOK' BY <1>1 DEF IInv, TypeOK, AtMostOne, maps
<1>3. ASSUME NEW s \in Scans PROVE ScanInv(s)'
  <2>1. ScanInv(s) /\ scan[s] \in ScanType BY Types
  <2>2. scan[s].latest <= chain' BY <1>1, <2>1 DEF ScanInv, ScanType
  <2> QED BY <1>1, <2>1, <2>2 DEF ScanInv
<1>4. ASSUME NEW c \in Calls PROVE CallInv(c)'
  <2>1. CallInv(c) /\ call[c] \in CallType /\ call'[c] = call[c] BY <1>1, Types
  <2>2. call[c].began <= chain' /\ 0..chain \subseteq 0..chain'
    BY <1>1, <2>1, BoundsAssumption DEF CallInv, CallType
  <2> QED BY <1>1, <2>1, <2>2 DEF CallInv
<1> QED BY <1>2, <1>3, <1>4 DEF IInv

-------------------------------------------------------------------------------
(***************************************************************************)
(* The specification                                                       *)
(***************************************************************************)
LEMMA StutterInv == ASSUME IInv, UNCHANGED vars PROVE IInv'
BY DEF vars, maps, IInv, TypeOK, ScanInv, CallInv, AtMostOne

LEMMA NextInv == ASSUME IInv, [Next]_vars PROVE IInv'
<1>1. ASSUME NEW c \in Polls, Poll(c) PROVE IInv'
  BY <1>1, BalanceInv, FillSetInv DEF Poll, Calls
<1>2. ASSUME NEW c \in Spends, Spend(c) PROVE IInv'
  BY <1>2, SplitInv, WithdrawInv, CheckInv DEF Spend, Calls
<1>3. ASSUME NEW s \in Scans, Run(s) PROVE IInv'
  BY <1>3, AnswerInv, ShrinkChunkInv, EndScanInv, FailScanInv DEF Run
<1> QED BY <1>1, <1>2, <1>3, InsertInv, ForgetInv, StutterInv DEF Next

\* Every reachable state satisfies the invariant (getOnChainLeaves and its callers).
THEOREM Invariance == Spec => []IInv
<1>1. IInv /\ [Next]_vars => IInv' BY NextInv
<1> QED BY <1>1, InitInv, PTL DEF Spec

\* Scans, maps and calls keep their types, for any number of callers and scans.
THEOREM TypeCorrect == Spec => []TypeOK
<1>1. IInv => TypeOK BY DEF IInv
<1> QED BY <1>1, Invariance, PTL

\* The guard of generateZKData refuses a withdrawal only if a window of its scan was answered
\* in part or the node that checked the root was behind: a height that lags, windows however
\* small and leaves that came since leave a root the vault knows.
THEOREM RefusalsAreGaps == Spec => []RefusedForGaps
<1>1. IInv => RefusedForGaps BY DEF IInv, CallInv, RefusedForGaps
<1> QED BY <1>1, Invariance, PTL

\* A withdrawal waits, and gets the list of a scan that has read what there was when it began.
LEMMA WithdrawStep ==
  ASSUME IInv, [Next]_vars, NEW c \in Calls, NEW s \in Scans, call[c].kind = "withdraw",
         Waiting(c, s), call'[c].pc = "got", InStepScan(s)
  PROVE  1..call[c].began \subseteq call'[c].list
<1>1. /\ call[c].pc = "waiting" /\ call[c].of = {s} /\ call[c] \in CallType /\ CallInv(c)
      /\ call'[c] # call[c]
  BY Types DEF Waiting
<1>2. \A e \in Calls : (Balance(e) \/ Split(e) \/ Withdraw(e) \/ Check(e)) => call'[c] = call[c]
  <2>1. ASSUME NEW e \in Calls, NEW r, call' = [call EXCEPT ![e] = r],
               MayBegin(e) \/ call[e].pc = "got"
        PROVE  call'[c] = call[c]
    BY <1>1, <2>1 DEF MayBegin, IInv, TypeOK
  <2> QED BY <2>1 DEF Balance, Split, Withdraw, Check, GetOnChainLeaves
<1>3. \A e \in Calls : ~ FillSet(e) \/ call'[c] = call[c]
  BY <1>1 DEF FillSet, Joined
<1>4. PICK u \in Scans : EndScan(u) \/ FailScan(u)
  BY <1>1, <1>2, <1>3 DEF Next, Poll, Spend, Run, Calls, Invalidate, ExpireList, ExpireSet, Insert,
     InStep, Behind, ReadHeight, ReadChunk, ShrinkChunk, vars
<1>5. ~ FailScan(u)
  BY <1>1, NoCallFacts DEF FailScan, Failed
<1>6. EndScan(u) BY <1>4, <1>5
<1>7. u = s /\ call'[c] = Has("withdraw", scan[u].out, scan[u].whole)
  BY <1>1, <1>6 DEF EndScan, Waiting
<1>8. scan[u].out \in Lists /\ scan[u].whole \in BOOLEAN /\ scan[u].pc = "reading"
      /\ scan[u].out = 1..scan[u].latest /\ scan[u].latest \in 0..chain /\ ~ scan[u].late
  BY <1>6, <1>7, EndFacts DEF InStepScan
<1>9. call'[c].list = 1..scan[u].latest BY <1>7, <1>8, HasFacts DEF Kinds
<1>10. scan[u].latest >= call[c].began BY <1>1, <1>7, <1>8 DEF CallInv
<1> QED BY <1>1, <1>8, <1>9, <1>10, BoundsAssumption DEF CallType

\* A withdrawal misses no leaf of before its begin unless a node that answered it was behind:
\* what it asked for cannot be answered by an older cache entry or an older scan
\* (generateZKData busts both).
THEOREM WithdrawHasAll == Spec => WithdrawSeesAll
<1>1. IInv /\ [Next]_vars =>
        [\A c \in Calls, s \in Scans :
           call[c].kind = "withdraw" /\ Waiting(c, s) /\ call'[c].pc = "got" /\ InStepScan(s)
             => 1..call[c].began \subseteq call'[c].list]_vars
  BY WithdrawStep
<1> QED BY <1>1, Invariance, PTL DEF Spec, WithdrawSeesAll
===============================================================================
