------------------------------- MODULE FheKeys --------------------------------
(***************************************************************************)
(* The FHE keys of one wallet: the client key in localStorage (fhe.ts),    *)
(* the server key derived from it, cached and uploaded to the executor     *)
(* (fheKeyWarmup.ts), the client key in the confidential VM                *)
(* (decryptorClient.ts, TeeClientKeySync.tsx), and the strategies that are *)
(* encrypted (strategySubmit.ts), evaluated and authorized under them      *)
(* (strategyApi.ts, StrategyAutoExecutor.tsx).                             *)
(*                                                                         *)
(* A task is one call of warmFheKeys, of submitEncryptedStrategy or of the *)
(* key sync, in some page.  A key is named by the task that generated it;  *)
(* its fingerprint, its server key and what it encrypts go by that name.   *)
(***************************************************************************)
EXTENDS Naturals, FiniteSets

CONSTANTS
  Tasks,          \* the calls; also names their keys and their strategies
  Pages,          \* open tabs: a map of server keys and a watcher each
  Devices,        \* storage origins: localStorage and IndexedDB
  Modes,          \* values isTeeAutonomousMode() may have
  ServerMayFail   \* may a request fail, or its answer be lost?

None == "none"
Keys == Tasks \cup {None}

ASSUME NamesAssumption == None \notin Tasks
ASSUME ModesAssumption == Modes \subseteq BOOLEAN /\ ServerMayFail \in BOOLEAN

VARIABLES
  home,    \* home[p]: the device of page p
  tee,     \* isTeeAutonomousMode(): the VM decrypts, and no browser does
  task,    \* task[t]: the locals of task t
  stored,  \* stored[d]: the client key in localStorage
  flag,    \* flag[d]: the fingerprint recorded as uploaded
  idb,     \* idb[d]: the server key cached in IndexedDB
  mem,     \* mem[p]: the server key cached in the page
  warmed,  \* pages whose warmup has succeeded
  exec,    \* the server key the executor has on file
  vm,      \* the client key the confidential VM has
  order,   \* order[t]: the strategy task t submitted
  watch,   \* watch[p]: the poll of page p: its client key, and the strategy it authorizes
  crossed  \* history: two tasks of a device have run under different keys

caches == <<idb, mem>>
servers == <<exec, vm>>
trade == <<order, watch>>
build == <<home, tee>>
vars == <<build, task, stored, flag, caches, warmed, servers, trade, crossed>>

-------------------------------------------------------------------------------
Kinds == {None, "warmup", "submit", "sync"}
Final == {"done", "failed", "closed"}
PCs == {"idle", "generating", "deriving", "checking", "asking", "rederiving", "uploading",
        "flagging", "askingVm", "sendingKey", "encrypting"} \cup Final

Locals(kind, pc, p, key, server) ==
  [kind |-> kind, pc |-> pc, page |-> p, key |-> key, server |-> server]

At(t, pc) == task[t].pc = pc
Goto(t, pc) == task' = [task EXCEPT ![t].pc = pc]
Running(t) == task[t].pc \notin Final \cup {"idle"}
DeviceOf(t) == home[task[t].page]

\* A strategy: its status, the key its bounds are encrypted under, the server key of
\* the last evaluation, and what the condition was then.
Strategy(status, key) == [status |-> status, key |-> key, under |-> None, met |-> FALSE]
NoStrategy == Strategy(None, None)
NoWatch == [key |-> None, of |-> None]

Init ==
  /\ home \in [Pages -> Devices] /\ tee \in Modes
  /\ task = [t \in Tasks |-> Locals(None, "idle", None, None, None)]
  /\ stored = [d \in Devices |-> None] /\ flag = [d \in Devices |-> None]
  /\ idb = [d \in Devices |-> None] /\ mem = [p \in Pages |-> None]
  /\ warmed = {}
  /\ exec = None /\ vm = None
  /\ order = [t \in Tasks |-> NoStrategy]
  /\ watch = [p \in Pages |-> NoWatch]
  /\ crossed = FALSE

-------------------------------------------------------------------------------
(***************************************************************************)
(* getOrCreateClientKey                                                    *)
(***************************************************************************)

\* A running task of the device works with a key other than key.
Crosses(d, key) == \E u \in Tasks : Running(u) /\ DeviceOf(u) = d /\ task[u].key \notin {key, None}

\* Mutant of AfterKey: a submission leaves the upload of the server key to the warm-up.
LeftToWarmup(kind) ==
  CASE kind = "warmup" -> "deriving" [] kind = "submit" -> "encrypting" [] kind = "sync" -> "askingVm"

\* Where a task goes once it has its client key.
AfterKey(kind) ==
  CASE kind = "warmup" -> "deriving" [] kind = "submit" -> "checking" [] kind = "sync" -> "askingVm"

\* warmFheKeys runs once at a time in a page, and no more once it has succeeded there.
MayWarm(p) ==
  /\ p \notin warmed
  /\ \A u \in Tasks : Running(u) /\ task[u].page = p => task[u].kind # "warmup"

\* A task starts: it reads the stored client key and, if there is none, loads the wasm
\* module to generate one.  The sync of the decryptor has nothing to do without a key.
Begin(t, kind, p) ==
  LET d == home[p]
      key == stored[d]
  IN
  /\ At(t, "idle")
  /\ kind = "warmup" => MayWarm(p)
  /\ kind = "sync" => tee /\ key # None
  /\ task' = [task EXCEPT ![t] =
       Locals(kind, IF key = None THEN "generating" ELSE AfterKey(kind), p, key, None)]
  /\ crossed' = (crossed \/ (key # None /\ Crosses(d, key)))
  /\ UNCHANGED <<build, stored, flag, caches, warmed, servers, trade>>

\* The key is generated and stored, over any that another task stored in the meantime.
Generate(t) ==
  /\ At(t, "generating")
  /\ task' = [task EXCEPT ![t].pc = AfterKey(task[t].kind), ![t].key = t]
  /\ stored' = [stored EXCEPT ![DeviceOf(t)] = t]
  /\ crossed' = (crossed \/ Crosses(DeviceOf(t), t))
  /\ UNCHANGED <<build, flag, caches, warmed, servers, trade>>

\* The wasm module cannot be loaded, or runs out of memory.
GenerateFails(t) ==
  /\ At(t, "generating") \/ At(t, "deriving") \/ At(t, "rederiving")
  /\ Goto(t, "failed")
  /\ UNCHANGED <<build, stored, flag, caches, warmed, servers, trade, crossed>>

-------------------------------------------------------------------------------
(***************************************************************************)
(* getOrCreateServerKey and ensureServerKeyUploaded                        *)
(***************************************************************************)

\* Mutant of CachedServerKey: a cached key is taken whatever it was derived from.
AnyServerKey(t) ==
  IF mem[task[t].page] # None THEN mem[task[t].page]
  ELSE IF idb[DeviceOf(t)] # None THEN idb[DeviceOf(t)] ELSE task[t].key

\* Memory, then IndexedDB, if the fingerprint is that of the task's client key;
\* otherwise the server key is derived from the client key.
CachedServerKey(t) ==
  IF mem[task[t].page] = task[t].key THEN mem[task[t].page]
  ELSE IF idb[DeviceOf(t)] = task[t].key THEN idb[DeviceOf(t)] ELSE task[t].key

\* The task gets its server key, and both caches come to hold it.  The write to
\* IndexedDB is not awaited, and may fail.
Derive(t, from, to) ==
  LET server == CachedServerKey(t) IN
  /\ At(t, from)
  /\ task' = [task EXCEPT ![t].pc = to, ![t].server = server]
  /\ mem' = [mem EXCEPT ![task[t].page] = server]
  /\ idb' = [idb EXCEPT ![DeviceOf(t)] = server] \/ UNCHANGED idb
  /\ UNCHANGED <<build, stored, flag, warmed, servers, trade, crossed>>

\* This very client key's server key was recorded as uploaded.
FlagIsMine(t) == flag[DeviceOf(t)] = task[t].key

\* Is there a recorded upload of this key?  Then the executor is asked.
CheckFlag(t) ==
  /\ At(t, "checking")
  /\ Goto(t, IF FlagIsMine(t) THEN "asking" ELSE "rederiving")
  /\ UNCHANGED <<build, stored, flag, caches, warmed, servers, trade, crossed>>

\* ensureServerKeyUploaded returns: a warmup has succeeded, a submission goes on.
Ensured(t) ==
  IF task[t].kind = "warmup" THEN Goto(t, "done") /\ warmed' = warmed \cup {task[t].page}
  ELSE Goto(t, IF tee THEN "askingVm" ELSE "encrypting") /\ UNCHANGED warmed

\* /hasServerKey says whether some server key is on file: the upload is skipped then.
\* Without an answer the task uploads.
AskExecutor(t) ==
  /\ At(t, "asking")
  /\ \/ exec # None /\ Ensured(t)
     \/ (exec = None \/ ServerMayFail) /\ Goto(t, "rederiving") /\ UNCHANGED warmed
  /\ UNCHANGED <<build, stored, flag, caches, servers, trade, crossed>>

\* /uploadServerKey replaces what is on file.
Upload(t) ==
  /\ At(t, "uploading")
  /\ \/ exec' = task[t].server /\ Goto(t, "flagging")
     \/ ServerMayFail /\ exec' \in {exec, task[t].server} /\ Goto(t, "failed")
  /\ UNCHANGED <<build, stored, flag, caches, warmed, vm, trade, crossed>>

\* The answer is in: the upload is recorded.
RecordUpload(t) ==
  /\ At(t, "flagging")
  /\ flag' = [flag EXCEPT ![DeviceOf(t)] = task[t].key]
  /\ Ensured(t)
  /\ UNCHANGED <<build, stored, caches, servers, trade, crossed>>

-------------------------------------------------------------------------------
(***************************************************************************)
(* ensureClientKeyInDecryptor, and createStrategy                          *)
(***************************************************************************)
\* Mutant of AfterVm: the word of the stages shown to the user.
StageReady(t) == "ready"

\* A sync is over once the VM has a key; a submission goes on.
AfterVm(t) == IF task[t].kind = "sync" THEN "done" ELSE "encrypting"

\* /hasClientKey: any key will do, and no answer counts as no key.
AskVm(t) ==
  /\ At(t, "askingVm")
  /\ \/ Goto(t, IF vm # None THEN AfterVm(t) ELSE "sendingKey")
     \/ ServerMayFail /\ Goto(t, "sendingKey")
  /\ UNCHANGED <<build, stored, flag, caches, warmed, servers, trade, crossed>>

SendKey(t) ==
  /\ At(t, "sendingKey")
  /\ \/ vm' = task[t].key /\ Goto(t, AfterVm(t))
     \/ ServerMayFail /\ vm' \in {vm, task[t].key} /\ Goto(t, "failed")
  /\ UNCHANGED <<build, stored, flag, caches, warmed, exec, trade, crossed>>

\* The bounds are encrypted under the client key and the strategy is created.
Submit(t) ==
  /\ At(t, "encrypting")
  /\ \/ Goto(t, "done") /\ order' = [order EXCEPT ![t] = Strategy("ARMED", task[t].key)]
     \/ /\ ServerMayFail /\ Goto(t, "failed")
        /\ order' \in {order, [order EXCEPT ![t] = Strategy("ARMED", task[t].key)]}
  /\ UNCHANGED <<build, stored, flag, caches, warmed, servers, watch, crossed>>

-------------------------------------------------------------------------------
(***************************************************************************)
(* Evaluation and execution                                                *)
(***************************************************************************)

\* The scheduler evaluates the condition with the server key on file.
Evaluate(t, met) ==
  /\ order[t].status = "ARMED" /\ exec # None
  /\ order' = [order EXCEPT ![t].under = exec, ![t].met = met]
  /\ UNCHANGED <<build, task, stored, flag, caches, warmed, servers, watch, crossed>>

\* What decrypting the result of strategy t with a client key may give: garbage unless
\* the bounds, the evaluation and the decryption are under one key.
Decrypted(t, key) ==
  IF order[t].key = key /\ order[t].under = key THEN {order[t].met} ELSE BOOLEAN

\* May a holder of the client key find that the strategy has triggered?
Triggers(t, key) ==
  /\ order[t].status = "ARMED" /\ order[t].under # None
  /\ key # None /\ TRUE \in Decrypted(t, key)

\* processArmedStrategies, once at a time in a page, reads the client key and works
\* with it to its end ...
Poll(p) ==
  /\ ~ tee /\ watch[p] = NoWatch /\ stored[home[p]] # None
  /\ watch' = [watch EXCEPT ![p].key = stored[home[p]]]
  /\ UNCHANGED <<build, task, stored, flag, caches, warmed, servers, order, crossed>>

EndPoll(p) ==
  /\ watch[p].key # None /\ watch[p].of = None
  /\ watch' = [watch EXCEPT ![p] = NoWatch]
  /\ UNCHANGED <<build, task, stored, flag, caches, warmed, servers, order, crossed>>

\* ... one armed strategy after the other: its result decrypts to "triggered" ...
Watch(p, t) ==
  /\ watch[p].of = None
  /\ Triggers(t, watch[p].key)
  /\ watch' = [watch EXCEPT ![p].of = t]
  /\ UNCHANGED <<build, task, stored, flag, caches, warmed, servers, order, crossed>>

Execute(t) ==
  IF order[t].status = "ARMED"
  THEN order' = [order EXCEPT ![t] = Strategy("EXECUTED", order[t].key)]
  ELSE UNCHANGED order

\* ... and /executeStrategy is called for it.  An error is only logged.
Authorize(p) ==
  /\ watch[p].of # None
  /\ watch' = [watch EXCEPT ![p].of = None]
  /\ Execute(watch[p].of) \/ (ServerMayFail /\ UNCHANGED order)
  /\ UNCHANGED <<build, task, stored, flag, caches, warmed, servers, crossed>>

\* The confidential VM decrypts, and the executor runs the strategy.
ExecuteInTee(t) ==
  /\ tee
  /\ Triggers(t, vm)
  /\ Execute(t)
  /\ UNCHANGED <<build, task, stored, flag, caches, warmed, servers, watch, crossed>>

-------------------------------------------------------------------------------
(***************************************************************************)
(* What may happen around                                                  *)
(***************************************************************************)

\* The user clears the site data, of localStorage at least.
ClearSiteData(d) ==
  /\ stored' = [stored EXCEPT ![d] = None] /\ flag' = [flag EXCEPT ![d] = None]
  /\ idb' = [idb EXCEPT ![d] = None] \/ UNCHANGED idb
  /\ UNCHANGED <<build, task, mem, warmed, servers, trade, crossed>>

ResetExecutor ==
  /\ exec' = None
  /\ UNCHANGED <<build, task, stored, flag, caches, warmed, vm, trade, crossed>>

RestartVm ==
  /\ tee /\ vm' = None
  /\ UNCHANGED <<build, task, stored, flag, caches, warmed, exec, trade, crossed>>

\* A page is closed, or reloaded.
ClosePage(p) ==
  /\ task' = [t \in Tasks |-> IF Running(t) /\ task[t].page = p
                              THEN [task[t] EXCEPT !.pc = "closed"] ELSE task[t]]
  /\ mem' = [mem EXCEPT ![p] = None]
  /\ warmed' = warmed \ {p}
  /\ watch' = [watch EXCEPT ![p] = NoWatch]
  /\ UNCHANGED <<build, stored, flag, idb, servers, order, crossed>>

-------------------------------------------------------------------------------
Key(t) ==
  \/ \E kind \in Kinds \ {None}, p \in Pages : Begin(t, kind, p)
  \/ Generate(t) \/ GenerateFails(t)

Ensure(t) ==
  \/ Derive(t, "deriving", "checking") \/ CheckFlag(t) \/ AskExecutor(t)
  \/ Derive(t, "rederiving", "uploading") \/ Upload(t) \/ RecordUpload(t)

Place(t) == AskVm(t) \/ SendKey(t) \/ Submit(t)

Next ==
  \/ \E t \in Tasks : Key(t) \/ Ensure(t) \/ Place(t) \/ ExecuteInTee(t)
                      \/ \E met \in BOOLEAN : Evaluate(t, met)
  \/ \E p \in Pages : Poll(p) \/ EndPoll(p) \/ Authorize(p) \/ ClosePage(p)
                      \/ \E t \in Tasks : Watch(p, t)
  \/ \E d \in Devices : ClearSiteData(d)
  \/ ResetExecutor \/ RestartVm

Spec == Init /\ [][Next]_vars

-------------------------------------------------------------------------------
(***************************************************************************)
(* Properties                                                              *)
(***************************************************************************)
TaskType == [kind : Kinds, pc : PCs, page : Pages \cup {None}, key : Keys, server : Keys]
StrategyType ==
  [status : {None, "ARMED", "EXECUTED"}, key : Keys, under : Keys, met : BOOLEAN]
WatchType == [key : Keys, of : Keys]

TasksOK ==
  /\ task \in [Tasks -> TaskType]
  /\ \A t \in Tasks : ~ At(t, "idle") => task[t].page \in Pages

\* Types of the tasks, the keys and the strategies.
TypeOK ==
  /\ home \in [Pages -> Devices] /\ tee \in BOOLEAN
  /\ TasksOK
  /\ stored \in [Devices -> Keys] /\ flag \in [Devices -> Keys]
  /\ idb \in [Devices -> Keys] /\ mem \in [Pages -> Keys]
  /\ warmed \subseteq Pages
  /\ {exec, vm} \subseteq Keys
  /\ order \in [Tasks -> StrategyType]
  /\ watch \in [Pages -> WatchType]
  /\ crossed \in BOOLEAN

\* Once ensureServerKeyUploaded returns, the executor has the server key of this very
\* client key on file ("Ensure the trade-executor has the server key matching THIS
\* client key", fheKeyWarmup.ts:182): after cleared storage, a reset executor, lost
\* answers and closed tabs, unless tasks of the device ran under different keys.
EnsuredKeyIsFiled ==
  [][\A t \in Tasks :
        \/ At(t, "asking") /\ task'[t].pc \in {"done", "askingVm", "encrypting"}
        \/ At(t, "uploading") /\ task'[t].pc = "flagging"
        => crossed' \/ exec' = task[t].key]_vars

\* While a device has the client key a strategy was armed with, what its pages decrypt
\* is what the condition was at the last evaluation: the executor never comes to evaluate
\* it under the server key of an earlier or a later key, whose results would decrypt to
\* garbage and trigger it, or keep it from triggering (strategyApi.ts:86-98).  Excepted
\* are devices whose tasks ran under different keys.
ResultsDecide ==
  ~ crossed => \A t \in Tasks :
    LET key == stored[DeviceOf(t)] IN
    order[t].status = "ARMED" /\ order[t].under # None /\ order[t].key = key
      => Decrypted(t, key) = {order[t].met}
===============================================================================
