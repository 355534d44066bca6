------------------------------- MODULE LeafCache -------------------------------
(***************************************************************************)
(* The leaves of one vault as a tab reads them (zkHandler.ts): the chunked *)
(* scan of LeafInserted events, the list and the set it is cached in, the  *)
(* requests in flight that callers share, and invalidateLeafCache.         *)
(*                                                                         *)
(* Calls are those of the balance poll (getLeafSet), of a split (the       *)
(* cached list) and of a withdrawal (which busts the cached list first).   *)
(* A call that has returned may begin again.  An entry of a Map of the     *)
(* code is a set with one element, or none.                                *)
(*                                                                         *)
(* Requests to the chain are answered by whatever node the provider        *)
(* reaches: it may be behind, and each may be another one.  So a list may  *)
(* lack the last leaves, or leaves in its midst.  A list is the set of the *)
(* indices it has leaves of: they are sorted by it.                        *)
(***************************************************************************)
EXTENDS Naturals, FiniteSets

CONSTANTS
  MaxLeaves,   \* bound: leaves the vault comes to have
  Polls,       \* callers that want the balance
  Spends,      \* callers that spend: splits and withdrawals
  Scans,       \* bound: scans that run at a time
  Chunk,       \* GETLOGS_CHUNK: blocks asked for at once
  RpcMayFail,  \* may a request to the chain fail?
  RpcMayLag    \* may a node be behind the chain?

Calls == Polls \cup Spends

ASSUME BoundsAssumption ==
  MaxLeaves \in Nat /\ Chunk \in Nat \ {0} /\ RpcMayFail \in BOOLEAN /\ RpcMayLag \in BOOLEAN

VARIABLES
  chain,     \* how many leaves the vault has, one in each of its blocks
  scan,      \* scan[s]: a run of getOnChainLeaves
  ordered,   \* orderedLeavesCache
  flying,    \* orderedLeavesInflight
  leafSet,   \* leavesCache; the list stands for the set of its leaves
  setTask,   \* leavesInflight: the call that runs the task
  call       \* call[c]: what call c waits for, or got

maps == <<ordered, flying, leafSet, setTask>>
vars == <<chain, scan, maps, call>>

-------------------------------------------------------------------------------
Kinds == {"none", "balance", "split", "withdraw"}
Lists == SUBSET (1..MaxLeaves)

\* History: late, the height was given by a node behind; whole, no window's answer lacked
\* a leaf of the window.
Scan(pc, latest, late) ==
  [pc |-> pc, latest |-> latest, start |-> 1, chunk |-> Chunk, out |-> {},
   late |-> late, whole |-> TRUE]
NoScan == Scan("idle", 0, FALSE)

\* History of a withdrawal: began, how many leaves there were when it began; whole, no
\* answer lacked a leaf of its window and the node that checked the root was not behind.
Call(kind, pc, of, list, began, whole) ==
  [kind |-> kind, pc |-> pc, of |-> of, list |-> list, began |-> began, whole |-> whole]
NoCall == Call("none", "idle", {}, {}, 0, TRUE)
\* Mutant of Failed: the word of a rejected promise.
Rejected == Call("none", "rejected", {}, {}, 0, TRUE)
\* What a call gave or why it failed is not looked at: the caller may call again.
Done == NoCall
Failed == NoCall
Refused(whole) == Call("none", "refused", {}, {}, 0, whole)
PCs == {"idle", "waiting", "joined", "got", "refused"}

Waiting(c, s) == call[c].pc = "waiting" /\ call[c].of = {s}
Joined(c, e) == call[c].pc = "joined" /\ call[c].of = {e}
MayBegin(c) == call[c].pc \in {"idle", "refused"}

Init ==
  /\ chain = 0
  /\ scan = [s \in Scans |-> NoScan]
  /\ ordered = {} /\ flying = {} /\ leafSet = {} /\ setTask = {}
  /\ call = [c \in Calls |-> NoCall]

-------------------------------------------------------------------------------
(***************************************************************************)
(* The callers                                                             *)
(***************************************************************************)

NewCall(kind, pc, of) ==
  Call(kind, pc, of, {}, IF kind = "withdraw" THEN chain ELSE 0, TRUE)

\* The blocks a node may be at.
Heights == IF RpcMayLag THEN 0..chain ELSE {chain}

\* A call has its list at hand.  The task of getLeafSet has yet to go on, a withdrawal to
\* check the root that the list folds to.
Has(kind, list, whole) ==
  IF kind = "split" THEN Done
  ELSE Call(kind, "got", {}, list, 0, IF kind = "withdraw" THEN whole ELSE TRUE)

\* getOnChainLeaves: the cached list, the scan in flight, or a scan of its own.
GetOnChainLeaves(c, kind, cached, inflight) ==
  \/ \E list \in cached :
       /\ call' = [call EXCEPT ![c] = Has(kind, list, TRUE)]
       /\ flying' = inflight /\ UNCHANGED scan
  \/ \E s \in inflight :
       /\ cached = {}
       /\ call' = [call EXCEPT ![c] = NewCall(kind, "waiting", {s})]
       /\ flying' = inflight /\ UNCHANGED scan
  \/ \E s \in Scans :
       /\ cached = {} /\ inflight = {} /\ scan[s].pc = "idle"
       /\ scan' = [scan EXCEPT ![s].pc = "asked"]
       /\ call' = [call EXCEPT ![c] = NewCall(kind, "waiting", {s})]
       /\ flying' = {s}

\* getLeafSet: the cached set, the task in flight, or a task of its own.
Balance(c) ==
  /\ MayBegin(c)
  /\ \/ /\ leafSet # {}
        /\ call' = [call EXCEPT ![c] = Done]
        /\ UNCHANGED <<scan, flying, setTask>>
     \/ \E e \in setTask :
          /\ leafSet = {}
          /\ call' = [call EXCEPT ![c] = NewCall("balance", "joined", {e})]
          /\ UNCHANGED <<scan, flying, setTask>>
     \/ /\ leafSet = {} /\ setTask = {}
        /\ setTask' = {c}
        /\ GetOnChainLeaves(c, "balance", ordered, flying)
  /\ UNCHANGED <<chain, ordered, leafSet>>

\* generateSplitProof takes the list as it is cached.
Split(c) ==
  /\ MayBegin(c)
  /\ GetOnChainLeaves(c, "split", ordered, flying)
  /\ UNCHANGED <<chain, ordered, leafSet, setTask>>

\* Mutant of Withdraw: only the list is busted, not the scan in flight.
WithdrawJoins(c) ==
  /\ MayBegin(c)
  /\ ordered' = {}
  /\ GetOnChainLeaves(c, "withdraw", {}, flying)
  /\ UNCHANGED <<chain, leafSet, setTask>>

\* generateZKData busts the list and the scan in flight, then asks.
Withdraw(c) ==
  /\ MayBegin(c)
  /\ ordered' = {}
  /\ GetOnChainLeaves(c, "withdraw", {}, {})
  /\ UNCHANGED <<chain, leafSet, setTask>>

\* Mutant of Knows: the live root alone will do.
LiveRoot(height, list) == list = 1..height

\* rootExists: the root of every state the tree was in up to the node's block.
Knows(height, list) == \E n \in 0..height : list = 1..n

\* The guard of generateZKData, against the live root and then rootExists: a root that is
\* not known is refused, one that could not be checked goes on.
Check(c) ==
  /\ call[c].kind = "withdraw" /\ call[c].pc = "got"
  /\ \/ \E height \in Heights :
          call' = [call EXCEPT ![c] = IF Knows(height, call[c].list) THEN Done
                                      ELSE Refused(call[c].whole /\ height = chain)]
     \/ RpcMayFail /\ call' = [call EXCEPT ![c] = Done]
  /\ UNCHANGED <<chain, scan, maps>>

\* The task of getLeafSet goes on: it caches the set, those who joined it return too,
\* and the finally deletes the task in flight, whichever it is.
FillSet(c) ==
  /\ call[c].kind = "balance" /\ call[c].pc = "got"
  /\ leafSet' = {call[c].list}
  /\ setTask' = {}
  /\ call' = [e \in Calls |-> IF e = c \/ Joined(e, c) THEN Done ELSE call[e]]
  /\ UNCHANGED <<chain, scan, ordered, flying>>

-------------------------------------------------------------------------------
(***************************************************************************)
(* A scan                                                                  *)
(***************************************************************************)

\* getBlockNumber: the scan covers the blocks up to this one.
ReadHeight(s, height) ==
  /\ scan[s].pc = "asked"
  /\ scan' = [scan EXCEPT ![s] = Scan("reading", height, height < chain)]
  /\ UNCHANGED <<chain, maps, call>>

ChunkEnd(s) ==
  IF scan[s].start + scan[s].chunk - 1 < scan[s].latest
  THEN scan[s].start + scan[s].chunk - 1 ELSE scan[s].latest
Window(s) == scan[s].start..ChunkEnd(s)

Collected(s, seen) == scan[s].out \cup seen

\* getLogs answers for a window with what its node has seen.
ReadChunk(s, seen) ==
  /\ scan[s].pc = "reading" /\ scan[s].start <= scan[s].latest
  /\ scan' = [scan EXCEPT ![s].out = Collected(s, seen), ![s].start = ChunkEnd(s) + 1,
                          ![s].whole = scan[s].whole /\ seen = Window(s)]
  /\ UNCHANGED <<chain, maps, call>>

\* The answers of a node that is behind, and those of one that is not.
Behind(s) ==
  /\ RpcMayLag
  /\ \/ \E height \in 0..chain : height < chain /\ ReadHeight(s, height)
     \/ \E seen \in SUBSET Window(s) : seen # Window(s) /\ ReadChunk(s, seen)
InStep(s) == ReadHeight(s, chain) \/ ReadChunk(s, Window(s))

\* getLogs rejects the window: it is halved, or shrunk to what the error suggests.
ShrinkChunk(s) ==
  /\ scan[s].pc = "reading" /\ scan[s].start <= scan[s].latest
  /\ \E size \in 1..(scan[s].chunk - 1) : scan' = [scan EXCEPT ![s].chunk = size]
  /\ UNCHANGED <<chain, maps, call>>

\* The list is cached, the callers go on with it, and the finally deletes the scan in
\* flight, whichever it is.
EndScan(s) ==
  /\ scan[s].pc = "reading" /\ scan[s].start > scan[s].latest
  /\ ordered' = {scan[s].out}
  /\ flying' = {}
  /\ call' = [c \in Calls |-> IF Waiting(c, s)
                              THEN Has(call[c].kind, scan[s].out, scan[s].whole) ELSE call[c]]
  /\ scan' = [scan EXCEPT ![s] = NoScan]
  /\ UNCHANGED <<chain, leafSet, setTask>>

\* A request fails for good: windows of one block fail too.  The callers fail, with
\* those who joined them.
Fails(c, s) == \E e \in Calls : Waiting(e, s) /\ (e = c \/ Joined(c, e))
FailScan(s) ==
  /\ RpcMayFail
  /\ \/ scan[s].pc = "asked"
     \/ scan[s].pc = "reading" /\ scan[s].start <= scan[s].latest /\ scan[s].chunk = 1
  /\ flying' = {}
  /\ setTask' = IF \E c \in Calls : Waiting(c, s) /\ call[c].kind = "balance" THEN {} ELSE setTask
  /\ call' = [c \in Calls |-> IF Fails(c, s) THEN Failed ELSE call[c]]
  /\ scan' = [scan EXCEPT ![s] = NoScan]
  /\ UNCHANGED <<chain, ordered, leafSet>>

-------------------------------------------------------------------------------
\* Mutant of ExpireSet: the time to live is not looked at.
NoExpiry == UNCHANGED vars

\* invalidateLeafCache, after a deposit, a split, a resolved output or on refresh.
Invalidate ==
  /\ ordered' = {} /\ flying' = {} /\ leafSet' = {} /\ setTask' = {}
  /\ UNCHANGED <<chain, scan, call>>

\* The time to live of an entry is over.
ExpireList ==
  /\ ordered' = {} /\ ordered # {}
  /\ UNCHANGED <<chain, scan, flying, leafSet, setTask, call>>
ExpireSet ==
  /\ leafSet' = {} /\ leafSet # {}
  /\ UNCHANGED <<chain, scan, ordered, flying, setTask, call>>

\* A deposit or a withdrawal of anyone is mined.
Insert ==
  /\ chain < MaxLeaves
  /\ chain' = chain + 1
  /\ UNCHANGED <<scan, maps, call>>

Poll(c) == Balance(c) \/ FillSet(c)
Spend(c) == Split(c) \/ Withdraw(c) \/ Check(c)
Run(s) == InStep(s) \/ Behind(s) \/ ShrinkChunk(s) \/ EndScan(s) \/ FailScan(s)

Next ==
  \/ \E c \in Polls : Poll(c)
  \/ \E c \in Spends : Spend(c)
  \/ \E s \in Scans : Run(s)
  \/ Invalidate \/ ExpireList \/ ExpireSet \/ Insert

Spec == Init /\ [][Next]_vars

-------------------------------------------------------------------------------
(***************************************************************************)
(* Properties                                                              *)
(***************************************************************************)
ScanType ==
  [pc : {"idle", "asked", "reading"}, latest : 0..MaxLeaves, start : 1..(MaxLeaves + 1),
   chunk : 1..Chunk, out : Lists, late : BOOLEAN, whole : BOOLEAN]
CallType ==
  [kind : Kinds, pc : PCs, of : SUBSET (Scans \cup Calls), list : Lists,
   began : 0..MaxLeaves, whole : BOOLEAN]
AtMostOne(set) == \A x, y \in set : x = y

\* Types of the scans, the maps and the calls.
TypeOK ==
  /\ chain \in 0..MaxLeaves
  /\ scan \in [Scans -> ScanType]
  /\ ordered \subseteq Lists /\ leafSet \subseteq Lists /\ flying \subseteq Scans /\ setTask \subseteq Calls
  /\ AtMostOne(ordered) /\ AtMostOne(leafSet) /\ AtMostOne(flying) /\ AtMostOne(setTask)
  /\ call \in [Calls -> CallType]

\* A withdrawal gets every leaf there was when it began, whoever else reads, joins or
\* fills the caches and whatever lists those have, unless a node that answered its own
\* scan was behind ("Always bust the cache here - a stale/partial set from the balance
\* scan [...] would produce a snapshotRoot the vault doesn't know", zkHandler.ts:1102).
InStepScan(s) == ~ scan[s].late /\ scan[s].whole
WithdrawSeesAll ==
  [][\A c \in Calls, s \in Scans :
       call[c].kind = "withdraw" /\ Waiting(c, s) /\ call'[c].pc = "got" /\ InStepScan(s)
         => 1..call[c].began \subseteq call'[c].list]_vars

\* A withdrawal that is refused had a window answered in part, or its root checked by a
\* node behind: a height that lags, windows of any size and leaves that came since never
\* make the list one the vault does not know ("only a GAPPED/reordered set yields a
\* phantom root", zkHandler.ts:1489-1493).
RefusedForGaps == \A c \in Calls : call[c].pc = "refused" => ~ call[c].whole

-------------------------------------------------------------------------------
(***************************************************************************)
(* Fairness: the balance is polled, entries expire, continuations run, and *)
(* from some time on requests to the chain are answered by nodes in step.  *)
(***************************************************************************)
RpcRecovers == <>[][\A s \in Scans : ~ FailScan(s) /\ ~ Behind(s)]_vars
FairSpec ==
  /\ Spec
  /\ RpcRecovers
  /\ WF_vars(ExpireList) /\ WF_vars(ExpireSet)
  /\ \A c \in Polls : WF_vars(Poll(c))
  /\ \A s \in Scans : WF_vars(Run(s))

\* Every leaf comes to be in the set that balances are counted from, whatever lists with
\* gaps were cached before and however callers share, bust and refill the caches.
LeavesShow == \A n \in 1..MaxLeaves : chain >= n ~> \E set \in leafSet : n \in set
===============================================================================
