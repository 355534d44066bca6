---------------------------- MODULE FheKeysProofs -----------------------------
(***************************************************************************)
(* Proofs about FheKeys.                                                   *)
(***************************************************************************)
EXTENDS FheKeys, TLAPS

-------------------------------------------------------------------------------
(***************************************************************************)
(* The inductive invariant                                                 *)
(***************************************************************************)

\* A task has its client key once it is past generating it, and the server key derived
\* from it once it uploads.
TaskInv(t) ==
  /\ task[t].server \in {None, task[t].key}
  /\ ~ At(t, "idle") => task[t].kind # None
  /\ task[t].pc \in {"idle", "generating"} => task[t].key = None
  /\ Running(t) /\ ~ At(t, "generating") => task[t].key # None
  /\ At(t, "uploading") \/ At(t, "flagging") => task[t].server = task[t].key

\* A key is that of the task that generated it: one still to generate its key has made none.
KeyOfMaker(t) == task[t].key # None => task[task[t].key].key = task[t].key

\* A key that some task has.
Made(k) == k = None \/ \E t \in Tasks : task[t].key = k

\* The keys that are kept and used are keys some task has.
KeysMade ==
  /\ \A d \in Devices : Made(stored[d]) /\ Made(flag[d])
  /\ Made(exec) /\ Made(vm)
  /\ \A t \in Tasks : Made(order[t].key) /\ Made(order[t].under)
  /\ \A p \in Pages : Made(watch[p].key)

\* An armed strategy is under a key, and was submitted from some page.
TradeInv ==
  \A t \in Tasks : order[t].status = "ARMED" => order[t].key # None /\ ~ At(t, "idle")

IInv ==
  /\ TypeOK
  /\ \A t \in Tasks : TaskInv(t) /\ KeyOfMaker(t)
  /\ KeysMade
  /\ TradeInv

-------------------------------------------------------------------------------
LEMMA InitInv == Init => IInv
<1> SUFFICES ASSUME Init PROVE IInv OBVIOUS
<1>1. \A t \in Tasks : task[t] = Locals(None, "idle", None, None, None) BY DEF Init
<1>2. TypeOK
  BY <1>1, ModesAssumption
  DEF Init, TypeOK, TasksOK, TaskType, StrategyType, WatchType, Locals, NoStrategy, Strategy, NoWatch,
      Kinds, PCs, Keys, At
<1>3. \A t \in Tasks : TaskInv(t) /\ KeyOfMaker(t)
  BY <1>1 DEF TaskInv, KeyOfMaker, Locals, At, Running
<1>4. KeysMade BY DEF Init, KeysMade, Made, NoStrategy, Strategy, NoWatch
<1>5. TradeInv BY DEF Init, TradeInv, NoStrategy, Strategy, None
<1> QED BY <1>2, <1>3, <1>4, <1>5 DEF IInv

-------------------------------------------------------------------------------
(***************************************************************************)
(* Steps of the tasks                                                      *)
(***************************************************************************)

\* Every task has the key it had, and none is idle again.
KeysKept == \A u \in Tasks : task'[u].key = task[u].key /\ (At(u, "idle")' => At(u, "idle"))

\* What is made stays made if no task's key changes.
LEMMA MadeKept ==
  ASSUME KeysKept
  PROVE  \A k : Made(k) => k = None \/ \E t \in Tasks : task'[t].key = k
BY DEF KeysKept, Made

\* A step that moves one running task on, whatever it does to its server key.
LEMMA Moved ==
  ASSUME IInv, NEW t \in Tasks, NEW r \in TaskType, task' = [task EXCEPT ![t] = r],
         Running(t), ~ At(t, "generating") \/ r.pc \in Final,
         r.key = task[t].key, r.page = task[t].page, r.kind = task[t].kind,
         r.pc \notin {"idle", "generating"},
         r.server \in {None, task[t].key},
         r.pc \in {"uploading", "flagging"} => r.server = task[t].key
  PROVE  /\ TasksOK' /\ KeysKept
         /\ \A u \in Tasks : TaskInv(u)' /\ KeyOfMaker(u)'
<1>1. task \in [Tasks -> TaskType] /\ task'[t] = r BY DEF IInv, TypeOK, TasksOK
<1>2. \A u \in Tasks \ {t} : task'[u] = task[u] BY <1>1
<1>3. task[t].page \in Pages
  BY DEF IInv, TypeOK, TasksOK, Running, At
<1>4. TasksOK' BY <1>1, <1>2, <1>3 DEF IInv, TypeOK, TasksOK, At
<1>5. KeysKept BY <1>1, <1>2 DEF KeysKept, At
<1>6. TaskInv(t)' BY <1>1 DEF IInv, TaskInv, Running, At, Final
<1>7. \A u \in Tasks \ {t} : TaskInv(u)' BY <1>2 DEF IInv, TaskInv, Running, At
<1>8. \A u \in Tasks : task[u].key \in Keys BY <1>1 DEF TaskType
<1>9. \A u \in Tasks : KeyOfMaker(u)' BY <1>5, <1>8 DEF IInv, KeyOfMaker, KeysKept, Keys
<1> QED BY <1>4, <1>5, <1>6, <1>7, <1>9

\* A step that only changes the pc of one task.
LEMMA PcStep ==
  ASSUME IInv, NEW t \in Tasks, NEW pc \in PCs \ {"idle", "generating", "uploading"},
         Goto(t, pc), Running(t), ~ At(t, "generating") \/ pc \in Final,
         pc = "flagging" => At(t, "uploading")
  PROVE  /\ TasksOK' /\ KeysKept
         /\ \A u \in Tasks : TaskInv(u)' /\ KeyOfMaker(u)'
<1> DEFINE r == [task[t] EXCEPT !.pc = pc]
<1>1. task[t] \in TaskType /\ TaskInv(t) BY DEF IInv, TypeOK, TasksOK
<1>2. task' = [task EXCEPT ![t] = r] BY DEF Goto
<1>3. /\ r \in TaskType /\ r.pc = pc /\ r.key = task[t].key /\ r.page = task[t].page
      /\ r.kind = task[t].kind /\ r.server = task[t].server
  BY <1>1 DEF TaskType
<1> HIDE DEF r
<1>4. pc = "flagging" => r.server = task[t].key BY <1>1, <1>3 DEF TaskInv
<1> QED BY <1>1, <1>2, <1>3, <1>4, Moved DEF TaskInv

\* The rest of the invariant, when keys are kept and the trades are left alone.
LEMMA TradeKept ==
  ASSUME IInv, KeysKept, UNCHANGED trade
  PROVE  /\ TradeInv'
         /\ \A t \in Tasks : Made(order[t].key)' /\ Made(order[t].under)'
         /\ \A p \in Pages : Made(watch[p].key)'
BY MadeKept DEF IInv, KeysMade, Made, TradeInv, KeysKept, trade

\* A step of a task that keeps the keys and writes only made keys.
LEMMA TaskStep ==
  ASSUME IInv, KeysKept, TasksOK', \A u \in Tasks : TaskInv(u)' /\ KeyOfMaker(u)',
         UNCHANGED <<build, stored, trade, crossed>>, warmed' \subseteq Pages,
         idb' \in [Devices -> Keys], mem' \in [Pages -> Keys],
         flag' \in [Devices -> Keys], \A d \in Devices : Made(flag'[d]),
         {exec', vm'} \subseteq Keys, Made(exec'), Made(vm')
  PROVE  IInv'
<1>1. TypeOK' BY DEF IInv, TypeOK, build, trade
<1>2. KeysMade'
  <2>1. \A k : Made(k) => k = None \/ \E t \in Tasks : task'[t].key = k BY MadeKept
  <2>2. \A d \in Devices : Made(stored[d]) /\ stored' = stored BY DEF IInv, KeysMade
  <2>3. \A d \in Devices : Made(stored[d])' BY <2>1, <2>2 DEF Made
  <2>4. \A d \in Devices : Made(flag[d])' BY <2>1 DEF Made
  <2>5. Made(exec)' /\ Made(vm)' BY <2>1 DEF Made
  <2> QED BY <2>3, <2>4, <2>5, TradeKept DEF KeysMade, trade
<1> QED BY <1>1, <1>2, TradeKept DEF IInv

\* The stores a task leaves alone keep their types and hold made keys.
LEMMA OldStores ==
  ASSUME IInv
  PROVE  /\ warmed \subseteq Pages /\ idb \in [Devices -> Keys] /\ mem \in [Pages -> Keys]
         /\ flag \in [Devices -> Keys] /\ \A d \in Devices : Made(flag[d])
         /\ {exec, vm} \subseteq Keys /\ Made(exec) /\ Made(vm)
BY DEF IInv, TypeOK, KeysMade

\* A task's own key is made.
LEMMA OwnKey ==
  ASSUME IInv, NEW t \in Tasks
  PROVE  /\ task[t] \in TaskType /\ task[t].key \in Keys /\ Made(task[t].key)
         /\ Made(None) /\ TaskInv(t)
BY DEF IInv, TypeOK, TasksOK, TaskType, Made

LEMMA AsksInv ==
  ASSUME IInv, NEW t \in Tasks,
         GenerateFails(t) \/ CheckFlag(t) \/ AskExecutor(t) \/ AskVm(t)
  PROVE  IInv'
<1>1. /\ UNCHANGED <<build, stored, flag, caches, servers, trade, crossed>>
      /\ warmed' \subseteq Pages
  <2>1. Ensured(t) /\ At(t, "asking") => warmed' \subseteq Pages
    BY DEF Ensured, IInv, TypeOK, TasksOK, At
  <2> QED BY <2>1, OldStores DEF GenerateFails, CheckFlag, AskExecutor, AskVm
<1>2. PICK pc \in PCs \ {"idle", "generating", "uploading", "flagging"} :
        Goto(t, pc) /\ (~ At(t, "generating") \/ pc \in Final)
  BY DEF GenerateFails, CheckFlag, AskExecutor, AskVm, Ensured, AfterVm, PCs, Final, At
<1>3. Running(t)
  BY DEF GenerateFails, CheckFlag, AskExecutor, AskVm, Running, At, Final
<1>4. TasksOK' /\ KeysKept /\ \A u \in Tasks : TaskInv(u)' /\ KeyOfMaker(u)'
  BY <1>2, <1>3, PcStep
<1> QED BY <1>1, <1>4, OldStores, TaskStep DEF caches, servers

LEMMA DeriveInv ==
  ASSUME IInv, NEW t \in Tasks,
         Derive(t, "deriving", "checking") \/ Derive(t, "rederiving", "uploading")
  PROVE  IInv'
<1>1. CachedServerKey(t) = task[t].key BY DEF CachedServerKey
<1>2. PICK to \in {"checking", "uploading"} :
        /\ task' = [task EXCEPT ![t].pc = to, ![t].server = task[t].key]
        /\ mem' = [mem EXCEPT ![task[t].page] = task[t].key]
        /\ idb' = [idb EXCEPT ![DeviceOf(t)] = task[t].key] \/ UNCHANGED idb
  BY <1>1 DEF Derive
<1>3. /\ Running(t) /\ ~ At(t, "generating")
      /\ UNCHANGED <<build, stored, flag, warmed, servers, trade, crossed>>
  BY DEF Derive, Running, At, Final
<1> DEFINE r == [task[t] EXCEPT !.pc = to, !.server = task[t].key]
<1>4. task' = [task EXCEPT ![t] = r] BY <1>2
<1>5. /\ r \in TaskType /\ r.pc = to /\ r.key = task[t].key /\ r.page = task[t].page
      /\ r.kind = task[t].kind /\ r.server = task[t].key
  BY OwnKey DEF TaskType, PCs
<1> HIDE DEF r
<1>6. TasksOK' /\ KeysKept /\ \A u \in Tasks : TaskInv(u)' /\ KeyOfMaker(u)'
  BY <1>3, <1>4, <1>5, Moved
<1>7. mem' \in [Pages -> Keys] /\ idb' \in [Devices -> Keys] BY <1>2, OwnKey, OldStores
<1> QED BY <1>3, <1>6, <1>7, OldStores, TaskStep DEF servers

LEMMA UploadInv ==
  ASSUME IInv, NEW t \in Tasks, Upload(t) \/ SendKey(t)
  PROVE  IInv'
<1>1. PICK pc \in PCs \ {"idle", "generating", "uploading"} :
        Goto(t, pc) /\ (pc = "flagging" => At(t, "uploading"))
  BY DEF Upload, SendKey, AfterVm, PCs, Final
<1>2. /\ Running(t) /\ ~ At(t, "generating")
      /\ UNCHANGED <<build, stored, flag, caches, warmed, trade, crossed>>
  BY DEF Upload, SendKey, Running, At, Final
<1>3. TasksOK' /\ KeysKept /\ \A u \in Tasks : TaskInv(u)' /\ KeyOfMaker(u)'
  BY <1>1, <1>2, PcStep
<1>4. exec' \in {exec, task[t].key} /\ vm' \in {vm, task[t].key}
  BY OwnKey DEF Upload, SendKey, TaskInv
<1> QED BY <1>2, <1>3, <1>4, OwnKey, OldStores, TaskStep DEF caches

LEMMA RecordInv ==
  ASSUME IInv, NEW t \in Tasks, RecordUpload(t)
  PROVE  IInv'
<1>1. PICK pc \in {"done", "askingVm", "encrypting"} : Goto(t, pc)
  BY DEF RecordUpload, Ensured
<1>2. /\ Running(t) /\ ~ At(t, "generating") /\ warmed' \subseteq Pages
      /\ UNCHANGED <<build, stored, caches, servers, trade, crossed>>
      /\ flag' = [flag EXCEPT ![DeviceOf(t)] = task[t].key]
  BY OldStores DEF RecordUpload, Ensured, Running, At, Final, IInv, TypeOK, TasksOK
<1>3. TasksOK' /\ KeysKept /\ \A u \in Tasks : TaskInv(u)' /\ KeyOfMaker(u)'
  BY <1>1, <1>2, PcStep DEF PCs, Final
<1>4. flag' \in [Devices -> Keys] /\ \A d \in Devices : Made(flag'[d])
  BY <1>2, OwnKey, OldStores
<1> QED BY <1>2, <1>3, <1>4, OldStores, TaskStep DEF caches, servers

LEMMA SubmitInv ==
  ASSUME IInv, NEW t \in Tasks, Submit(t)
  PROVE  IInv'
<1> DEFINE new == Strategy("ARMED", task[t].key)
<1>1. PICK pc \in {"done", "failed"} : Goto(t, pc) BY DEF Submit
<1>2. /\ Running(t) /\ At(t, "encrypting")
      /\ UNCHANGED <<build, stored, flag, caches, warmed, servers, watch, crossed>>
      /\ order' = order \/ order' = [order EXCEPT ![t] = new]
  BY DEF Submit, Running, At, Final
<1>3. TasksOK' /\ KeysKept /\ \A u \in Tasks : TaskInv(u)' /\ KeyOfMaker(u)'
  BY <1>1, <1>2, PcStep DEF PCs, Final, At
<1>4. task[t].key # None BY <1>2, OwnKey DEF TaskInv, At
<1>5. /\ new \in StrategyType /\ new.key = task[t].key /\ new.under = None
      /\ new.status = "ARMED"
  BY OwnKey DEF Strategy, StrategyType, Keys
<1> HIDE DEF new
<1>6. /\ order' \in [Tasks -> StrategyType]
      /\ \A u \in Tasks : order'[u] = order[u] \/ (u = t /\ order'[u] = new)
  BY <1>2, <1>5 DEF IInv, TypeOK
<1>7. TypeOK' BY <1>2, <1>3, <1>6 DEF IInv, TypeOK, build, caches, servers
<1>8. KeysMade'
  <2>1. \A k : Made(k) => k = None \/ \E u \in Tasks : task'[u].key = k BY <1>3, MadeKept
  <2>2. \A u \in Tasks : Made(order'[u].key) /\ Made(order'[u].under)
    BY <1>5, <1>6, OwnKey DEF IInv, KeysMade
  <2>3. \A u \in Tasks : Made(order[u].key)' /\ Made(order[u].under)' BY <2>1, <2>2 DEF Made
  <2>4. /\ \A d \in Devices : Made(stored'[d]) /\ Made(flag'[d])
        /\ \A p \in Pages : Made(watch'[p].key)
        /\ Made(exec') /\ Made(vm')
    BY <1>2 DEF IInv, KeysMade, servers
  <2>5. /\ \A d \in Devices : Made(stored[d])' /\ Made(flag[d])'
        /\ \A p \in Pages : Made(watch[p].key)'
        /\ Made(exec)' /\ Made(vm)'
    BY <2>1, <2>4 DEF Made
  <2> QED BY <2>3, <2>5 DEF KeysMade
<1>9. TradeInv' BY <1>2, <1>3, <1>4, <1>5, <1>6 DEF IInv, TradeInv, KeysKept, At
<1> QED BY <1>3, <1>7, <1>8, <1>9 DEF IInv

\* A task that starts or generates its key: keys are added and none is dropped.
LEMMA GrowsMade ==
  ASSUME IInv, NEW t \in Tasks, NEW k \in Keys, Made(k) \/ k = t,
         task[t].key = None, task'[t].key = k,
         \A u \in Tasks \ {t} : task'[u] = task[u]
  PROVE  /\ \A j : Made(j) => j = None \/ \E u \in Tasks : task'[u].key = j
         /\ \A u \in Tasks : KeyOfMaker(u)'
<1>1. \A j : Made(j) => j = None \/ \E u \in Tasks : task'[u].key = j
  BY DEF Made
<1>3. \A u \in Tasks : task[u].key \in Keys /\ KeyOfMaker(u) /\ task[u].key # t
  BY NamesAssumption, OwnKey DEF IInv, KeyOfMaker
<1>4. k = None \/ k = t \/ (k \in Tasks \ {t} /\ task[k].key = k)
  BY <1>3 DEF Made, KeyOfMaker, Keys
<1>5. \A u \in Tasks : KeyOfMaker(u)' BY <1>3, <1>4 DEF KeyOfMaker, Keys
<1> QED BY <1>1, <1>5

LEMMA KeyInv ==
  ASSUME IInv, NEW t \in Tasks,
         (\E kind \in Kinds \ {None}, p \in Pages : Begin(t, kind, p)) \/ Generate(t)
  PROVE  IInv'
<1>1. PICK r \in TaskType :
        /\ task' = [task EXCEPT ![t] = r]
        /\ Made(r.key) \/ r.key = t
        /\ r.server = None /\ r.page \in Pages /\ r.kind # None
        /\ r.pc \notin {"idle", "uploading", "flagging"}
        /\ (r.pc = "generating" <=> r.key = None)
        /\ \/ stored' = stored
           \/ \E d \in Devices : stored' = [stored EXCEPT ![d] = t] /\ r.key = t
  <2>1. ASSUME NEW kind \in Kinds \ {None}, NEW p \in Pages, Begin(t, kind, p)
        PROVE  \E r \in TaskType :
                 /\ task' = [task EXCEPT ![t] = r]
                 /\ Made(r.key) /\ r.server = None /\ r.page \in Pages /\ r.kind # None
                 /\ r.pc \notin {"idle", "uploading", "flagging"}
                 /\ (r.pc = "generating" <=> r.key = None)
                 /\ stored' = stored
    <3>1. home[p] \in Devices /\ stored[home[p]] \in Keys /\ Made(stored[home[p]])
      BY DEF IInv, TypeOK, KeysMade
    <3>2. AfterKey(kind) \in PCs \ {"idle", "generating", "uploading", "flagging"}
      BY DEF Kinds, AfterKey, PCs
    <3> DEFINE key == stored[home[p]]
               r == Locals(kind, IF key = None THEN "generating" ELSE AfterKey(kind), p, key, None)
    <3>3. task' = [task EXCEPT ![t] = r] /\ stored' = stored BY <2>1 DEF Begin
    <3>4. /\ r \in TaskType /\ r.key = key /\ r.server = None /\ r.page = p /\ r.kind = kind
          /\ r.pc \in PCs \ {"idle", "uploading", "flagging"}
          /\ (r.pc = "generating" <=> key = None)
      BY <3>1, <3>2 DEF Locals, TaskType, Keys, PCs
    <3> QED BY <3>1, <3>3, <3>4
  <2>2. ASSUME Generate(t)
        PROVE  \E r \in TaskType :
                 /\ task' = [task EXCEPT ![t] = r]
                 /\ r.key = t /\ r.server = None /\ r.page \in Pages /\ r.kind # None
                 /\ r.pc \notin {"idle", "generating", "uploading", "flagging"}
                 /\ stored' = [stored EXCEPT ![DeviceOf(t)] = t] /\ DeviceOf(t) \in Devices
    <3>1. /\ task[t] \in TaskType /\ task[t].page \in Pages /\ task[t].server = None
          /\ home \in [Pages -> Devices]
      BY <2>2, OwnKey DEF Generate, At, TaskInv, IInv, TypeOK, TasksOK
    <3>2. task[t].kind \in Kinds \ {None}
      BY <2>2, <3>1, OwnKey DEF TaskType, Generate, At, TaskInv
    <3>3. AfterKey(task[t].kind) \in PCs \ {"idle", "generating", "uploading", "flagging"}
      BY <3>2 DEF Kinds, AfterKey, PCs
    <3> DEFINE r == [task[t] EXCEPT !.pc = AfterKey(task[t].kind), !.key = t]
    <3>4. task' = [task EXCEPT ![t] = r] /\ stored' = [stored EXCEPT ![DeviceOf(t)] = t]
      BY <2>2 DEF Generate
    <3>5. /\ r \in TaskType /\ r.key = t /\ r.server = None /\ r.page = task[t].page
          /\ r.kind = task[t].kind /\ r.pc = AfterKey(task[t].kind)
      BY <3>1, <3>3 DEF TaskType, Keys
    <3>6. DeviceOf(t) \in Devices BY <3>1 DEF DeviceOf
    <3> HIDE DEF r
    <3> QED BY <3>1, <3>2, <3>3, <3>4, <3>5, <3>6
  <2> QED BY <2>1, <2>2, NamesAssumption
<1>2. /\ task[t].key = None /\ crossed' \in BOOLEAN
      /\ UNCHANGED <<build, flag, caches, warmed, servers, trade>>
  BY OwnKey DEF Begin, Generate, At, TaskInv, IInv, TypeOK
<1>3. /\ task' \in [Tasks -> TaskType] /\ task'[t] = r
      /\ \A u \in Tasks \ {t} : task'[u] = task[u]
  BY <1>1 DEF IInv, TypeOK, TasksOK
<1>4. TasksOK' BY <1>1, <1>3 DEF IInv, TypeOK, TasksOK, At
<1>5. \A u \in Tasks : TaskInv(u)'
  BY <1>1, <1>3 DEF IInv, TaskInv, Running, At
<1>6. /\ \A j : Made(j) => j = None \/ \E u \in Tasks : task'[u].key = j
      /\ \A u \in Tasks : KeyOfMaker(u)'
  <2>1. r.key \in Keys BY <1>1 DEF TaskType
  <2> QED BY <1>1, <1>2, <1>3, <2>1, GrowsMade
<1>7. stored' \in [Devices -> Keys]
  BY <1>1 DEF IInv, TypeOK, Keys
<1>8. TypeOK' BY <1>2, <1>4, <1>7 DEF IInv, TypeOK, build, caches, servers, trade
<1>9. KeysMade'
  <2>1. \A d \in Devices : stored'[d] = stored[d] \/ (stored'[d] = t /\ task'[t].key = t)
    BY <1>1, <1>3 DEF IInv, TypeOK
  <2>2. \A d \in Devices : Made(stored[d])'
    <3>1. \A d \in Devices : Made(stored[d]) BY DEF IInv, KeysMade
    <3> QED BY <1>6, <2>1, <3>1 DEF Made
  <2>3. /\ \A d \in Devices : Made(flag'[d])
        /\ \A p \in Pages : Made(watch'[p].key)
        /\ \A u \in Tasks : Made(order'[u].key) /\ Made(order'[u].under)
        /\ Made(exec') /\ Made(vm')
    BY <1>2 DEF IInv, KeysMade, servers, trade
  <2>4. /\ \A d \in Devices : Made(flag[d])'
        /\ \A p \in Pages : Made(watch[p].key)'
        /\ \A u \in Tasks : Made(order[u].key)' /\ Made(order[u].under)'
        /\ Made(exec)' /\ Made(vm)'
    BY <1>6, <2>3 DEF Made
  <2> QED BY <2>2, <2>4 DEF KeysMade
<1>10. TradeInv' BY <1>1, <1>2, <1>3 DEF IInv, TradeInv, trade, At
<1> QED BY <1>5, <1>6, <1>8, <1>9, <1>10 DEF IInv

-------------------------------------------------------------------------------
(***************************************************************************)
(* Evaluation, execution, and what may happen around                       *)
(***************************************************************************)

\* A step that changes no task, and trades as TradeInv says.
LEMMA NoTask ==
  ASSUME IInv, UNCHANGED <<task, crossed>>, TypeOK', KeysMade', TradeInv'
  PROVE  IInv'
BY DEF IInv, TaskInv, KeyOfMaker, At, Running

LEMMA ExecuteKeeps ==
  ASSUME IInv, NEW t \in Tasks, Execute(t)
  PROVE  /\ order' \in [Tasks -> StrategyType]
         /\ \A u \in Tasks : /\ order'[u].status = "ARMED" => order'[u] = order[u]
                             /\ Made(order'[u].key) /\ Made(order'[u].under)
<1>0. order \in [Tasks -> StrategyType] BY DEF IInv, TypeOK
<1> DEFINE new == Strategy("EXECUTED", order[t].key)
<1>1. /\ new \in StrategyType /\ new.status = "EXECUTED" /\ new.key = order[t].key
      /\ new.under = None
  BY <1>0 DEF Strategy, StrategyType, Keys
<1>2. order' = order \/ order' = [order EXCEPT ![t] = new] BY DEF Execute
<1> HIDE DEF new
<1>3. Made(None) BY DEF Made
<1>4. \A u \in Tasks : order'[u] = order[u] \/ (u = t /\ order'[u] = new) BY <1>0, <1>2
<1> QED BY <1>0, <1>1, <1>2, <1>3, <1>4 DEF IInv, KeysMade

LEMMA OrderStep ==
  ASSUME IInv, NEW t \in Tasks,
         (\E met \in BOOLEAN : Evaluate(t, met)) \/ ExecuteInTee(t)
  PROVE  IInv'
<1>0. UNCHANGED <<build, task, stored, flag, caches, warmed, servers, watch, crossed>>
  BY DEF Evaluate, ExecuteInTee
<1>1. /\ order' \in [Tasks -> StrategyType]
      /\ \A u \in Tasks : /\ order'[u].status = "ARMED" =>
                                order[u].status = "ARMED" /\ order'[u].key = order[u].key
                          /\ Made(order'[u].key) /\ Made(order'[u].under)
  <2>1. CASE \E met \in BOOLEAN : Evaluate(t, met)
    <3>1. PICK met \in BOOLEAN : Evaluate(t, met) BY <2>1
    <3> DEFINE new == [order[t] EXCEPT !.under = exec, !.met = met]
    <3>2. order' = [order EXCEPT ![t] = new] /\ order[t].status = "ARMED"
      BY <3>1 DEF Evaluate
    <3>3. order \in [Tasks -> StrategyType] /\ exec \in Keys /\ Made(exec)
      BY DEF IInv, TypeOK, KeysMade
    <3>4. /\ new \in StrategyType /\ new.status = order[t].status
          /\ new.key = order[t].key /\ new.under = exec
      BY <3>3 DEF StrategyType
    <3> HIDE DEF new
    <3>5. \A u \in Tasks : order'[u] = order[u] \/ (u = t /\ order'[u] = new)
      BY <3>2, <3>3
    <3> QED BY <3>2, <3>3, <3>4, <3>5 DEF IInv, KeysMade
  <2>2. CASE ExecuteInTee(t) BY <2>2, ExecuteKeeps DEF ExecuteInTee
  <2> QED BY <2>1, <2>2
<1>2. TypeOK' BY <1>0, <1>1 DEF IInv, TypeOK, TasksOK, At, build, caches, servers
<1>3. KeysMade' BY <1>0, <1>1 DEF IInv, KeysMade, Made, servers
<1>4. TradeInv' BY <1>0, <1>1 DEF IInv, TradeInv, At
<1> QED BY <1>0, <1>2, <1>3, <1>4, NoTask

LEMMA WatchStep ==
  ASSUME IInv, NEW p \in Pages,
         Poll(p) \/ EndPoll(p) \/ Authorize(p) \/ \E t \in Tasks : Watch(p, t)
  PROVE  IInv'
<1>0. /\ UNCHANGED <<build, task, stored, flag, caches, warmed, servers, crossed>>
      /\ order \in [Tasks -> StrategyType]
      /\ watch \in [Pages -> WatchType] /\ Made(watch[p].key)
      /\ stored \in [Devices -> Keys] /\ home[p] \in Devices
  BY DEF Poll, EndPoll, Authorize, Watch, IInv, TypeOK, KeysMade
<1>1. PICK w \in WatchType : watch' = [watch EXCEPT ![p] = w] /\ Made(w.key)
  <2>1. CASE Poll(p)
    <3> DEFINE w == [watch[p] EXCEPT !.key = stored[home[p]]]
    <3>1. watch' = [watch EXCEPT ![p] = w] BY <2>1 DEF Poll
    <3>2. w \in WatchType /\ w.key = stored[home[p]] BY <1>0 DEF WatchType
    <3>3. Made(stored[home[p]]) BY <1>0 DEF IInv, KeysMade
    <3> HIDE DEF w
    <3> QED BY <3>1, <3>2, <3>3
  <2>2. CASE EndPoll(p)
    <3>1. watch' = [watch EXCEPT ![p] = NoWatch] BY <2>2 DEF EndPoll
    <3>2. NoWatch \in WatchType /\ NoWatch.key = None BY DEF NoWatch, WatchType, Keys
    <3>3. Made(None) BY DEF Made
    <3> QED BY <3>1, <3>2, <3>3
  <2>3. CASE Authorize(p) \/ \E t \in Tasks : Watch(p, t)
    <3>1. PICK k \in Keys : watch' = [watch EXCEPT ![p].of = k]
      BY <2>3 DEF Authorize, Watch, Keys
    <3> DEFINE w == [watch[p] EXCEPT !.of = k]
    <3>2. watch' = [watch EXCEPT ![p] = w] BY <3>1
    <3>3. w \in WatchType /\ w.key = watch[p].key BY <1>0 DEF WatchType
    <3> HIDE DEF w
    <3> QED BY <1>0, <3>2, <3>3
  <2> QED BY <2>1, <2>2, <2>3
<1>2. /\ order' \in [Tasks -> StrategyType]
      /\ \A u \in Tasks : /\ order'[u].status = "ARMED" => order'[u] = order[u]
                          /\ Made(order'[u].key) /\ Made(order'[u].under)
  <2>1. CASE order' = order BY <1>0, <2>1 DEF IInv, KeysMade
  <2>2. CASE order' # order
    <3>1. watch[p].of \in Tasks /\ Execute(watch[p].of)
      BY <1>0, <2>2 DEF Poll, EndPoll, Authorize, Watch, WatchType, Keys
    <3> QED BY <3>1, ExecuteKeeps
  <2> QED BY <2>1, <2>2
<1>3. \A q \in Pages : watch'[q] = watch[q] \/ (q = p /\ watch'[q] = w)
  BY <1>0, <1>1
<1>4. TypeOK'
  BY <1>0, <1>1, <1>2 DEF IInv, TypeOK, TasksOK, At, build, caches, servers
<1>5. KeysMade'
  <2>1. \A q \in Pages : Made(watch'[q].key) BY <1>1, <1>3 DEF IInv, KeysMade
  <2> QED BY <1>0, <1>2, <2>1 DEF IInv, KeysMade, Made, servers
<1>6. TradeInv' BY <1>0, <1>2 DEF IInv, TradeInv, At
<1> QED BY <1>0, <1>4, <1>5, <1>6, NoTask

LEMMA AroundStep ==
  ASSUME IInv, (\E d \in Devices : ClearSiteData(d)) \/ ResetExecutor \/ RestartVm
  PROVE  IInv'
<1>1. /\ UNCHANGED <<build, task, mem, warmed, trade, crossed>>
      /\ stored' = stored \/ \E d \in Devices : stored' = [stored EXCEPT ![d] = None]
      /\ flag' = flag \/ \E d \in Devices : flag' = [flag EXCEPT ![d] = None]
      /\ idb' = idb \/ \E d \in Devices : idb' = [idb EXCEPT ![d] = None]
      /\ exec' \in {exec, None} /\ vm' \in {vm, None}
  BY DEF ClearSiteData, ResetExecutor, RestartVm, servers, caches
<1>2. TypeOK' BY <1>1 DEF IInv, TypeOK, TasksOK, At, Keys, build, trade
<1>3. KeysMade'
  <2>1. \A d \in Devices : stored'[d] \in {stored[d], None} /\ flag'[d] \in {flag[d], None}
    BY <1>1 DEF IInv, TypeOK
  <2>2. Made(None) BY DEF Made
  <2>3. /\ \A d \in Devices : Made(stored'[d]) /\ Made(flag'[d])
        /\ Made(exec') /\ Made(vm')
    BY <1>1, <2>1, <2>2 DEF IInv, KeysMade
  <2> QED BY <1>1, <2>3 DEF IInv, KeysMade, Made, trade
<1>4. TradeInv' BY <1>1 DEF IInv, TradeInv, At, trade
<1> QED BY <1>1, <1>2, <1>3, <1>4, NoTask

LEMMA CloseInv ==
  ASSUME IInv, NEW p \in Pages, ClosePage(p)
  PROVE  IInv'
<1>1. /\ \A t \in Tasks : \/ task'[t] = task[t]
                          \/ task'[t] = [task[t] EXCEPT !.pc = "closed"] /\ Running(t)
      /\ DOMAIN task' = Tasks /\ task' = [t \in Tasks |-> task'[t]]
      /\ mem' = [mem EXCEPT ![p] = None] /\ warmed' \subseteq warmed
      /\ watch' = [watch EXCEPT ![p] = NoWatch]
      /\ UNCHANGED <<build, stored, flag, idb, servers, order, crossed>>
  BY DEF ClosePage
<1>2. \A t \in Tasks : /\ task'[t] \in TaskType /\ task'[t].key = task[t].key
                       /\ task'[t].page = task[t].page /\ task'[t].kind = task[t].kind
                       /\ task'[t].server = task[t].server
                       /\ task'[t].pc = task[t].pc \/ (task'[t].pc = "closed" /\ Running(t))
  BY <1>1, OwnKey DEF TaskType, PCs, Final
<1>3. KeysKept BY <1>2 DEF KeysKept, At
<1>4. TasksOK' BY <1>1, <1>2 DEF IInv, TypeOK, TasksOK, Running, At
<1>5. \A t \in Tasks : TaskInv(t)'
  BY <1>2 DEF IInv, TaskInv, At, Running, Final
<1>6. \A t \in Tasks : KeyOfMaker(t)'
  BY <1>2, OwnKey DEF IInv, KeyOfMaker, Keys
<1>7. NoWatch \in WatchType /\ NoWatch.key = None
  BY DEF NoWatch, WatchType, Keys
<1>8. watch' \in [Pages -> WatchType]
      /\ \A q \in Pages : watch'[q] = watch[q] \/ watch'[q] = NoWatch
  BY <1>1, <1>7 DEF IInv, TypeOK
<1>9. TypeOK'
  BY <1>1, <1>4, <1>8 DEF IInv, TypeOK, Keys, build, servers
<1>10. KeysMade'
  <2>1. \A k : Made(k) => k = None \/ \E t \in Tasks : task'[t].key = k BY <1>3, MadeKept
  <2>2. Made(None) BY DEF Made
  <2>3. /\ \A d \in Devices : Made(stored'[d]) /\ Made(flag'[d])
        /\ \A q \in Pages : Made(watch'[q].key)
        /\ \A u \in Tasks : Made(order'[u].key) /\ Made(order'[u].under)
        /\ Made(exec') /\ Made(vm')
    BY <1>1, <1>7, <1>8, <2>2 DEF IInv, KeysMade, servers
  <2>4. /\ \A d \in Devices : Made(stored[d])' /\ Made(flag[d])'
        /\ \A q \in Pages : Made(watch[q].key)'
        /\ \A u \in Tasks : Made(order[u].key)' /\ Made(order[u].under)'
        /\ Made(exec)' /\ Made(vm)'
    BY <2>1, <2>3 DEF Made
  <2> QED BY <2>4 DEF KeysMade
<1>11. TradeInv' BY <1>1, <1>3 DEF IInv, TradeInv, KeysKept
<1> QED BY <1>5, <1>6, <1>9, <1>10, <1>11 DEF IInv

-------------------------------------------------------------------------------
(***************************************************************************)
(* Theorems                                                                *)
(***************************************************************************)
LEMMA StutterInv == IInv /\ UNCHANGED vars => IInv'
BY DEF IInv, TypeOK, TasksOK, TaskInv, KeyOfMaker, KeysMade, Made, TradeInv, At,
       Running, vars, build, caches, servers, trade

LEMMA NextInv == IInv /\ [Next]_vars => IInv'
<1> SUFFICES ASSUME IInv, [Next]_vars PROVE IInv' OBVIOUS
<1>1. ASSUME NEW t \in Tasks, Key(t) \/ Ensure(t) \/ Place(t) PROVE IInv'
  BY <1>1, KeyInv, AsksInv, DeriveInv, UploadInv, RecordInv, SubmitInv
  DEF Key, Ensure, Place
<1>2. ASSUME NEW t \in Tasks, ExecuteInTee(t) \/ \E met \in BOOLEAN : Evaluate(t, met)
      PROVE  IInv'
  BY <1>2, OrderStep
<1>3. ASSUME NEW p \in Pages,
             Poll(p) \/ EndPoll(p) \/ Authorize(p) \/ \E t \in Tasks : Watch(p, t)
      PROVE  IInv'
  BY <1>3, WatchStep
<1>4. ASSUME NEW p \in Pages, ClosePage(p) PROVE IInv' BY <1>4, CloseInv
<1>5. ASSUME (\E d \in Devices : ClearSiteData(d)) \/ ResetExecutor \/ RestartVm PROVE IInv'
  BY <1>5, AroundStep
<1> QED BY <1>1, <1>2, <1>3, <1>4, <1>5, StutterInv DEF Next

\* The inductive invariant holds of every execution.
THEOREM Invariance == Spec => []IInv
BY InitInv, NextInv, PTL DEF Spec

\* The tasks, the keys and the strategies keep their types.
THEOREM TypeCorrect == Spec => []TypeOK
<1>1. IInv => TypeOK BY DEF IInv
<1> QED BY <1>1, Invariance, PTL

-------------------------------------------------------------------------------
(***************************************************************************)
(* The key on file                                                         *)
(***************************************************************************)

\* A task is about to go on, or to record its upload.
Sure(t) == At(t, "asking") \/ At(t, "flagging")

\* On one device, until two of its tasks run under different keys: the stored key, the
\* keys of running tasks, and what the executor has once an upload was recorded.
Filed ==
  /\ \A t, u \in Tasks : Running(t) /\ Running(u) /\ None \notin {task[t].key, task[u].key}
                           => task[t].key = task[u].key
  /\ \A d \in Devices :
       /\ \A t \in Tasks : Running(t) /\ None \notin {task[t].key, stored[d]} => task[t].key = stored[d]
       /\ \A t \in Tasks : Running(t) /\ task[t].key # None /\ flag[d] = task[t].key
                             => exec \in {None, task[t].key}
       /\ stored[d] # None /\ flag[d] = stored[d] => exec \in {None, stored[d]}
  /\ \A t \in Tasks : Sure(t) => exec \in {None, task[t].key}

FInv == IInv /\ (crossed \/ Filed)

OneDevice == \A d, e \in Devices : d = e

LEMMA FInit == Init => FInv
BY InitInv DEF Init, FInv, Filed, Locals, Sure, At, Running, Final, None

\* A step after which nobody runs, has a key or is at "flagging" who was not before.
LEMMA FiledKept ==
  ASSUME Filed, \A t \in Tasks : /\ task'[t].key = task[t].key
                                 /\ Running(t)' => Running(t)
                                 /\ Sure(t)' => Sure(t),
         \A d \in Devices : stored'[d] \in {stored[d], None} /\ flag'[d] \in {flag[d], None},
         exec' \in {exec, None}
  PROVE  Filed'
<1>1. \A t, u \in Tasks :
        Running(t)' /\ Running(u)' /\ None \notin {task'[t].key, task'[u].key}
          => task'[t].key = task'[u].key
  BY DEF Filed
<1>2. \A d \in Devices, t \in Tasks :
        Running(t)' /\ None \notin {task'[t].key, stored'[d]} => task'[t].key = stored'[d]
  BY DEF Filed
<1>3. \A d \in Devices, t \in Tasks :
        Running(t)' /\ task'[t].key # None /\ flag'[d] = task'[t].key
          => exec' \in {None, task'[t].key}
  BY DEF Filed
<1>4. \A d \in Devices :
        stored'[d] # None /\ flag'[d] = stored'[d] => exec' \in {None, stored'[d]}
  BY DEF Filed
<1>5. \A t \in Tasks : Sure(t)' => exec' \in {None, task'[t].key}
  BY DEF Filed
<1> QED BY <1>1, <1>2, <1>3, <1>4, <1>5 DEF Filed

\* A task that starts or makes its key crosses those that run under another.
LEMMA FiledKey ==
  ASSUME IInv, Filed, OneDevice, NEW t \in Tasks,
         (\E kind \in Kinds \ {None}, p \in Pages : Begin(t, kind, p)) \/ Generate(t)
  PROVE  crossed' \/ Filed'
<1> SUFFICES ASSUME ~ crossed' PROVE Filed' OBVIOUS
<1>1. \A u \in Tasks : Running(u) => DeviceOf(u) \in Devices
  BY DEF IInv, TypeOK, TasksOK, Running, At, DeviceOf
<1>2. ASSUME NEW d \in Devices, NEW k, ~ Crosses(d, k)
      PROVE  \A u \in Tasks : Running(u) => task[u].key \in {k, None}
  BY <1>1, <1>2 DEF Crosses, OneDevice
<1>3. /\ task[t].key = None /\ ~ Sure(t) /\ UNCHANGED <<flag, servers>>
      /\ \A u \in Tasks \ {t} : task'[u] = task[u]
      /\ task \in [Tasks -> TaskType] /\ stored \in [Devices -> Keys]
  BY DEF Begin, Generate, Sure, At, IInv, TaskInv, TypeOK, TasksOK
<1>4. CASE \E kind \in Kinds \ {None}, p \in Pages : Begin(t, kind, p)
  <2>1. PICK kind \in Kinds \ {None}, p \in Pages : Begin(t, kind, p) BY <1>4
  <2>2. /\ task'[t].key = stored[home[p]] /\ stored' = stored /\ ~ Sure(t)'
        /\ home[p] \in Devices
        /\ stored[home[p]] # None => ~ Crosses(home[p], stored[home[p]])
    BY <1>3, <2>1 DEF Begin, Locals, Sure, At, AfterKey, Kinds, IInv, TypeOK
  <2>3. \A u \in Tasks \ {t} : Running(u)' => Running(u) /\ task'[u].key = task[u].key
    BY <1>3 DEF Running
  <2>4. \A d \in Devices : d = home[p] BY <2>2 DEF OneDevice
  <2>5. stored[home[p]] # None => \A u \in Tasks : Running(u) => task[u].key \in {stored[home[p]], None}
    BY <1>2, <2>2
  <2>6. \A u \in Tasks : Sure(u)' => exec' \in {None, task'[u].key}
    BY <1>3, <2>2 DEF Filed, Sure, At, servers
  <2> QED BY <1>3, <2>2, <2>3, <2>4, <2>5, <2>6 DEF Filed, servers
<1>5. CASE Generate(t)
  <2>1. DeviceOf(t) \in Devices BY <1>1, <1>5 DEF Generate, At, Running, Final
  <2>2. /\ task'[t].key = t /\ stored' = [stored EXCEPT ![DeviceOf(t)] = t]
        /\ ~ Sure(t)' /\ ~ Crosses(DeviceOf(t), t)
    <3>1. /\ task' = [task EXCEPT ![t].pc = AfterKey(task[t].kind), ![t].key = t]
          /\ stored' = [stored EXCEPT ![DeviceOf(t)] = t] /\ ~ Crosses(DeviceOf(t), t)
          /\ At(t, "generating")
      BY <1>5 DEF Generate
    <3>2. task[t].kind \in Kinds \ {None}
      BY <1>3, <3>1, OwnKey DEF TaskType, TaskInv, At
    <3>3. AfterKey(task[t].kind) \notin {"asking", "flagging"} BY <3>2 DEF AfterKey, Kinds
    <3>4. task'[t].key = t /\ task'[t].pc = AfterKey(task[t].kind) BY <1>3, <3>1 DEF TaskType
    <3> QED BY <3>1, <3>3, <3>4 DEF Sure, At
  <2>3. \A u \in Tasks : Running(u) => task[u].key \in {t, None} BY <1>2, <2>1, <2>2
  <2>4. \A u \in Tasks : task[u].key # t
    BY <1>3, NamesAssumption DEF IInv, KeyOfMaker
  <2>5. \A d \in Devices : flag[d] # t
    BY <2>4, NamesAssumption DEF IInv, KeysMade, Made
  <2>6. \A d \in Devices : stored'[d] = t BY <1>3, <2>1, <2>2 DEF OneDevice
  <2>7. \A u \in Tasks \ {t} : Running(u)' => task'[u].key = None
    BY <1>3, <2>3, <2>4 DEF Running
  <2>8. \A u \in Tasks : Sure(u)' => exec' \in {None, task'[u].key}
    BY <1>3, <2>2 DEF Filed, Sure, At, servers
  <2> QED BY <1>3, <2>2, <2>5, <2>6, <2>7, <2>8 DEF Filed, servers
<1> QED BY <1>4, <1>5

\* An upload is of the key of its task, which is that of all that run; then it is recorded.
LEMMA FiledUpload ==
  ASSUME IInv, Filed, NEW t \in Tasks, Upload(t) \/ RecordUpload(t)
  PROVE  Filed'
<1>1. /\ task \in [Tasks -> TaskType] /\ task[t].key # None /\ Running(t)
      /\ stored' = stored /\ stored \in [Devices -> Keys] /\ flag \in [Devices -> Keys]
      /\ DeviceOf(t) \in Devices
  BY DEF Upload, RecordUpload, Running, At, Final, IInv, TaskInv, TypeOK, TasksOK, DeviceOf
<1>2. /\ \A u \in Tasks : task'[u].key = task[u].key
      /\ \A u \in Tasks : Running(u)' => Running(u)
      /\ \A u \in Tasks \ {t} : Sure(u)' => Sure(u)
  BY <1>1 DEF Upload, RecordUpload, Ensured, Goto, TaskType, Running, Sure, At, Final
<1>3. \A u \in Tasks : Running(u) => task[u].key \in {None, task[t].key}
  BY <1>1 DEF Filed
<1>4. \A d \in Devices : stored[d] \in {None, task[t].key} BY <1>1 DEF Filed
<1>5. \A u \in Tasks : Sure(u) => Running(u) /\ task[u].key # None
  BY DEF IInv, TaskInv, Running, Sure, At, Final
<1>6. CASE Upload(t)
  <2>1. exec' \in {exec, task[t].key} /\ flag' = flag
        /\ (Sure(t)' => exec' = task[t].key)
    <3>1. task[t].server = task[t].key BY <1>6 DEF Upload, At, IInv, TaskInv
    <3>2. /\ flag' = flag
          /\ \/ exec' = task[t].key
             \/ exec' \in {exec, task[t].key} /\ task' = [task EXCEPT ![t].pc = "failed"]
      BY <1>6, <3>1 DEF Upload, Goto
    <3>3. task' = [task EXCEPT ![t].pc = "failed"] => task'[t].pc = "failed"
      BY <1>1 DEF TaskType
    <3> QED BY <3>2, <3>3 DEF Sure, At
  <2> QED BY <1>1, <1>2, <1>3, <1>4, <1>5, <2>1 DEF Filed
<1>7. CASE RecordUpload(t)
  <2>1. /\ exec' = exec /\ flag' = [flag EXCEPT ![DeviceOf(t)] = task[t].key]
        /\ ~ Sure(t)' /\ exec \in {None, task[t].key}
    <3>1. PICK pc \in {"done", "askingVm", "encrypting"} : task' = [task EXCEPT ![t].pc = pc]
      BY <1>7 DEF RecordUpload, Ensured, Goto
    <3>2. task'[t].pc = pc BY <1>1, <3>1 DEF TaskType
    <3>3. exec \in {None, task[t].key} BY <1>7 DEF RecordUpload, Filed, Sure
    <3> QED BY <1>7, <3>2, <3>3 DEF RecordUpload, Sure, At, servers
  <2>2. \A d \in Devices : flag'[d] \in {flag[d], task[t].key} BY <1>1, <2>1
  <2> QED BY <1>1, <1>2, <1>3, <1>4, <2>1, <2>2 DEF Filed
<1> QED BY <1>6, <1>7

\* A task whose upload was recorded asks whether the executor has it still.
LEMMA FiledCheck ==
  ASSUME IInv, Filed, NEW t \in Tasks, CheckFlag(t)
  PROVE  Filed'
<1>1. /\ task \in [Tasks -> TaskType] /\ task[t].key # None /\ Running(t)
      /\ UNCHANGED <<stored, flag, exec>> /\ DeviceOf(t) \in Devices
  BY DEF CheckFlag, Running, At, Final, IInv, TaskInv, TypeOK, TasksOK, DeviceOf, servers
<1>2. PICK pc \in {"asking", "rederiving"} :
        /\ task' = [task EXCEPT ![t].pc = pc]
        /\ pc = "asking" => flag[DeviceOf(t)] = task[t].key
  BY DEF CheckFlag, Goto, FlagIsMine
<1>3. /\ \A u \in Tasks : task'[u].key = task[u].key
      /\ \A u \in Tasks \ {t} : task'[u] = task[u]
      /\ task'[t].pc = pc
  BY <1>1, <1>2 DEF TaskType
<1>4. pc = "asking" => exec \in {None, task[t].key} BY <1>1, <1>2 DEF Filed
<1>5. \A u \in Tasks : Running(u)' => Running(u) BY <1>1, <1>3 DEF Running
<1>6. \A u \in Tasks : Sure(u)' => exec' \in {None, task'[u].key}
  BY <1>1, <1>3, <1>4 DEF Sure, At, Filed
<1> QED BY <1>1, <1>3, <1>5, <1>6 DEF Filed

\* Any other step leaves the keys as they are, or drops them.
LEMMA FiledOther ==
  ASSUME IInv, Filed,
         \/ UNCHANGED vars
         \/ \E t \in Tasks : \/ GenerateFails(t) \/ AskExecutor(t) \/ AskVm(t)
                             \/ Derive(t, "deriving", "checking")
                             \/ Derive(t, "rederiving", "uploading")
                             \/ SendKey(t) \/ Submit(t) \/ ExecuteInTee(t)
                             \/ \E met \in BOOLEAN : Evaluate(t, met)
         \/ \E p \in Pages : \/ Poll(p) \/ EndPoll(p) \/ Authorize(p) \/ ClosePage(p)
                             \/ \E t \in Tasks : Watch(p, t)
         \/ \E d \in Devices : ClearSiteData(d)
         \/ ResetExecutor \/ RestartVm
  PROVE  Filed'
<1>0. task \in [Tasks -> TaskType] /\ stored \in [Devices -> Keys] /\ flag \in [Devices -> Keys]
  BY DEF IInv, TypeOK, TasksOK
<1>1. /\ exec' \in {exec, None}
      /\ \A d \in Devices : stored'[d] \in {stored[d], None} /\ flag'[d] \in {flag[d], None}
  BY <1>0 DEF GenerateFails, AskExecutor, AskVm, Derive, SendKey, Submit, ExecuteInTee,
        Evaluate, Poll, EndPoll, Authorize, ClosePage, Watch, ClearSiteData, ResetExecutor,
        RestartVm, vars, servers
<1>2. ASSUME NEW t \in Tasks,
             \/ GenerateFails(t) \/ AskExecutor(t) \/ AskVm(t)
             \/ Derive(t, "deriving", "checking") \/ Derive(t, "rederiving", "uploading")
             \/ SendKey(t) \/ Submit(t)
      PROVE  \A u \in Tasks : /\ task'[u].key = task[u].key
                              /\ Running(u)' => Running(u)
                              /\ Sure(u)' => Sure(u)
  <2>1. PICK pc \in PCs \ {"asking", "flagging"} :
          \/ task' = [task EXCEPT ![t].pc = pc]
          \/ \E server : task' = [task EXCEPT ![t].pc = pc, ![t].server = server]
    BY <1>2 DEF GenerateFails, AskExecutor, AskVm, Derive, SendKey, Submit, Goto,
                Ensured, AfterVm, PCs, Final
  <2>2. Running(t)
    BY <1>2 DEF GenerateFails, AskExecutor, AskVm, Derive, SendKey, Submit, Running,
                At, Final
  <2>3. \A u \in Tasks \ {t} : task'[u] = task[u] BY <1>0, <2>1
  <2>4. task'[t].key = task[t].key /\ task'[t].pc = pc BY <1>0, <2>1 DEF TaskType
  <2> QED BY <2>2, <2>3, <2>4 DEF Running, Sure, At
<1>3. ASSUME NEW p \in Pages, ClosePage(p)
      PROVE  \A u \in Tasks : /\ task'[u].key = task[u].key
                              /\ Running(u)' => Running(u)
                              /\ Sure(u)' => Sure(u)
  <2>1. \A u \in Tasks : \/ task'[u] = task[u]
                         \/ task'[u] = [task[u] EXCEPT !.pc = "closed"]
    BY <1>3 DEF ClosePage
  <2>2. \A u \in Tasks : /\ task'[u].key = task[u].key
                         /\ task'[u].pc \in {task[u].pc, "closed"}
    BY <1>0, <2>1 DEF TaskType
  <2> QED BY <2>2 DEF Running, Sure, At, Final
<1>4. ASSUME UNCHANGED task
      PROVE  \A u \in Tasks : /\ task'[u].key = task[u].key
                              /\ Running(u)' => Running(u)
                              /\ Sure(u)' => Sure(u)
  BY <1>4 DEF Running, Sure, At
<1>5. \A u \in Tasks : /\ task'[u].key = task[u].key
                       /\ Running(u)' => Running(u)
                       /\ Sure(u)' => Sure(u)
  BY <1>2, <1>3, <1>4
  DEF ExecuteInTee, Evaluate, Poll, EndPoll, Authorize, Watch, ClearSiteData, ResetExecutor,
      RestartVm, vars
<1> QED BY <1>1, <1>5, FiledKept

LEMMA FNext == OneDevice /\ FInv /\ [Next]_vars => FInv'
<1> SUFFICES ASSUME OneDevice, FInv, [Next]_vars PROVE FInv' OBVIOUS
<1>1. IInv' BY NextInv DEF FInv
<1>2. crossed => crossed'
  BY DEF Next, Key, Ensure, Place, Begin, Generate, GenerateFails, CheckFlag, AskExecutor, AskVm,
         Derive, Upload, RecordUpload, SendKey, Submit, ExecuteInTee, Evaluate, Poll, EndPoll,
         Authorize, ClosePage, Watch, ClearSiteData, ResetExecutor, RestartVm, vars
<1>3. ASSUME Filed PROVE crossed' \/ Filed'
  BY <1>3, FiledKey, FiledUpload, FiledCheck, FiledOther DEF FInv, Next, Key, Ensure, Place
<1> QED BY <1>1, <1>2, <1>3 DEF FInv

\* On a wallet's only device: once an upload is skipped or answered, the executor has the
\* server key of this client key, unless two of its tasks ran under different keys.
THEOREM KeyOnFile ==
  ASSUME OneDevice
  PROVE  Spec => EnsuredKeyIsFiled
<1> DEFINE Asked(t) == At(t, "asking") /\ task'[t].pc \in {"done", "askingVm", "encrypting"}
           Uploaded(t) == At(t, "uploading") /\ task'[t].pc = "flagging"
<1>1. ASSUME FInv, [Next]_vars, NEW t \in Tasks, Asked(t) \/ Uploaded(t), ~ crossed'
      PROVE  exec' = task[t].key
  <2>1. IInv /\ task \in [Tasks -> TaskType] /\ TaskInv(t)
    BY <1>1 DEF FInv, IInv, TypeOK, TasksOK
  <2>2. task'[t].pc # task[t].pc /\ task[t].pc \in {"asking", "uploading"}
        /\ task'[t].pc \in {"done", "askingVm", "encrypting", "flagging"}
    BY <1>1 DEF At
  <2>3. \A u \in Tasks \ {t} : ~ (Key(u) \/ Ensure(u) \/ Place(u))
    <3>1. ASSUME NEW u \in Tasks \ {t}, Key(u) \/ Ensure(u) \/ Place(u)
          PROVE  task'[t] = task[t]
      BY <2>1, <3>1
      DEF Key, Ensure, Place, Begin, Generate, GenerateFails, CheckFlag, AskExecutor, AskVm, Derive,
          Upload, RecordUpload, SendKey, Submit, Goto, Ensured
    <3> QED BY <2>2, <3>1
  <2>4. Key(t) \/ Ensure(t) \/ Place(t) => AskExecutor(t) \/ Upload(t)
    BY <2>2
    DEF Key, Ensure, Place, Begin, Generate, GenerateFails, CheckFlag, AskVm, Derive, RecordUpload,
        SendKey, Submit, At
  <2>5. ASSUME NEW p \in Pages, ClosePage(p) PROVE FALSE
    <3>1. task'[t] = task[t] \/ task'[t] = [task[t] EXCEPT !.pc = "closed"]
      BY <2>5 DEF ClosePage
    <3>2. task'[t].pc \in {task[t].pc, "closed"} BY <2>1, <3>1 DEF TaskType
    <3> QED BY <2>2, <3>2
  <2>6. AskExecutor(t) \/ Upload(t)
    <3>1. \/ \E u \in Tasks : Key(u) \/ Ensure(u) \/ Place(u)
          \/ \E p \in Pages : ClosePage(p)
          \/ UNCHANGED task
      BY <1>1
      DEF Next, ExecuteInTee, Evaluate, Poll, EndPoll, Authorize, Watch, ClearSiteData,
          ResetExecutor, RestartVm, vars
    <3> QED BY <2>2, <2>3, <2>4, <2>5, <3>1
  <2>7. CASE AskExecutor(t)
    <3>1. At(t, "asking") /\ exec' = exec /\ crossed' = crossed
      BY <2>7 DEF AskExecutor, servers
    <3>2. exec # None
      <4>1. Goto(t, "rederiving") => task'[t].pc = "rederiving" BY <2>1 DEF Goto, TaskType
      <4> QED BY <2>2, <2>7, <4>1 DEF AskExecutor
    <3>3. Filed /\ Running(t) /\ task[t].key # None
      BY <1>1, <2>1, <3>1 DEF FInv, TaskInv, Running, Sure, At, Final
    <3>4. exec \in {None, task[t].key} BY <3>1, <3>3 DEF Filed, Sure
    <3> QED BY <3>1, <3>2, <3>4
  <2>8. CASE Upload(t)
    <3>1. Goto(t, "failed") => task'[t].pc = "failed" BY <2>1 DEF Goto, TaskType
    <3>2. exec' = task[t].server BY <2>2, <2>8, <3>1 DEF Upload
    <3> QED BY <2>1, <2>8, <3>2 DEF Upload, TaskInv
  <2> QED BY <2>6, <2>7, <2>8
<1>2. FInv /\ [Next]_vars =>
        [\A t \in Tasks :
           \/ At(t, "asking") /\ task'[t].pc \in {"done", "askingVm", "encrypting"}
           \/ At(t, "uploading") /\ task'[t].pc = "flagging"
           => crossed' \/ exec' = task[t].key]_vars
  BY <1>1
<1>3. FInv /\ [Next]_vars => FInv' BY FNext
<1> QED BY <1>2, <1>3, FInit, PTL DEF Spec, EnsuredKeyIsFiled

-------------------------------------------------------------------------------
(***************************************************************************)
(* The results                                                             *)
(***************************************************************************)

\* A task has ensured its server key and is yet to place its strategy.
Placing(t) ==
  At(t, "encrypting") \/ (task[t].kind # "sync" /\ task[t].pc \in {"askingVm", "sendingKey"})

\* What the executor has on file is of the key of those that place a strategy, and of the
\* armed strategies whose key a device still has; and so is their last evaluation.
Decided ==
  /\ \A t \in Tasks : Placing(t) => exec \in {None, task[t].key}
  /\ \A d \in Devices, t \in Tasks : order[t].status = "ARMED" /\ order[t].key = stored[d] =>
       exec \in {None, stored[d]} /\ order[t].under \in {None, stored[d]}

GInv == FInv /\ (crossed \/ Decided)

\* What a step may make of an armed strategy.
StillDecided(t) ==
  order'[t].status = "ARMED" =>
    \/ order'[t] = order[t]
    \/ /\ order[t].status = "ARMED"
       /\ order'[t].key = order[t].key /\ order'[t].under = exec
    \/ Placing(t) /\ order'[t].key = task[t].key /\ order'[t].under = None

\* A step that files no key and stores none.
LEMMA DecidedKept ==
  ASSUME IInv', Filed, Decided,
         \A t \in Tasks : Placing(t)' => (Placing(t) \/ Sure(t)) /\ task'[t].key = task[t].key,
         \A t \in Tasks : StillDecided(t),
         \A d \in Devices : stored'[d] \in {stored[d], None},
         exec' \in {exec, None}
  PROVE  Decided'
<1>1. \A t \in Tasks : Placing(t)' => exec' \in {None, task'[t].key}
  BY DEF Decided, Filed
<1>2. ASSUME NEW d \in Devices, NEW t \in Tasks,
             order'[t].status = "ARMED", order'[t].key = stored'[d]
      PROVE  exec' \in {None, stored'[d]} /\ order'[t].under \in {None, stored'[d]}
  <2>1. stored'[d] = stored[d] BY <1>2 DEF IInv, TradeInv
  <2> QED BY <1>2, <2>1 DEF StillDecided, Decided
<1> QED BY <1>1, <1>2 DEF Decided

\* A step of one task that does not touch the strategies.
LEMMA PlaceKept ==
  ASSUME IInv, NEW t \in Tasks, NEW pc, Goto(t, pc),
         pc \in {"askingVm", "sendingKey", "encrypting"} => Placing(t) \/ Sure(t) \/
           (task[t].kind = "sync" /\ pc # "encrypting")
  PROVE  \A u \in Tasks : Placing(u)' => (Placing(u) \/ Sure(u)) /\ task'[u].key = task[u].key
<1>1. /\ \A u \in Tasks \ {t} : task'[u] = task[u]
      /\ task'[t].pc = pc /\ task'[t].key = task[t].key /\ task'[t].kind = task[t].kind
  BY DEF Goto, IInv, TypeOK, TasksOK, TaskType
<1> QED BY <1>1 DEF Placing, Sure, At

LEMMA DecidedTask ==
  ASSUME IInv, IInv', Filed, Decided, NEW t \in Tasks,
         \/ GenerateFails(t) \/ CheckFlag(t) \/ AskExecutor(t) \/ RecordUpload(t)
         \/ AskVm(t) \/ SendKey(t) \/ Submit(t)
  PROVE  Decided'
<1>1. /\ stored' = stored /\ exec' = exec
      /\ order' = order \/ Submit(t)
  BY DEF GenerateFails, CheckFlag, AskExecutor, RecordUpload, AskVm, SendKey, Submit, servers,
         trade
<1>2. PICK pc : /\ Goto(t, pc)
                /\ pc \in {"askingVm", "sendingKey", "encrypting"} => Placing(t) \/ Sure(t) \/
                     (task[t].kind = "sync" /\ pc # "encrypting")
  BY DEF GenerateFails, CheckFlag, AskExecutor, RecordUpload, AskVm, SendKey, Submit,
         Ensured, AfterVm, Placing, Sure, At
<1>3. \A u \in Tasks : Placing(u)' => (Placing(u) \/ Sure(u)) /\ task'[u].key = task[u].key
  BY <1>2, PlaceKept
<1>4. ASSUME Submit(t) PROVE \A u \in Tasks : StillDecided(u)
  <2> DEFINE new == Strategy("ARMED", task[t].key)
  <2>1. order' = order \/ order' = [order EXCEPT ![t] = new] BY <1>4 DEF Submit
  <2>2. new.key = task[t].key /\ new.under = None BY DEF Strategy
  <2>3. Placing(t) BY <1>4 DEF Submit, Placing
  <2>4. order \in [Tasks -> StrategyType] BY DEF IInv, TypeOK
  <2> HIDE DEF new
  <2> QED BY <2>1, <2>2, <2>3, <2>4 DEF StillDecided
<1>5. \A u \in Tasks : StillDecided(u) BY <1>1, <1>4 DEF StillDecided
<1> QED BY <1>1, <1>3, <1>5, DecidedKept

LEMMA DecidedDerive ==
  ASSUME IInv, IInv', Filed, Decided, NEW t \in Tasks,
         \/ Derive(t, "deriving", "checking") \/ Derive(t, "rederiving", "uploading")
         \/ \E kind \in Kinds \ {None}, p \in Pages : Begin(t, kind, p)
  PROVE  Decided'
<1>1. stored' = stored /\ exec' = exec /\ order' = order
  BY DEF Derive, Begin, servers, trade
<1>2. task \in [Tasks -> TaskType] BY DEF IInv, TypeOK, TasksOK
<1>3. (\A u \in Tasks \ {t} : task'[u] = task[u]) /\ ~ Placing(t)'
  <2>1. CASE \E kind \in Kinds \ {None}, p \in Pages : Begin(t, kind, p)
    BY <1>2, <2>1 DEF Begin, Locals, Placing, At, AfterKey, Kinds
  <2>2. CASE Derive(t, "deriving", "checking") \/ Derive(t, "rederiving", "uploading")
    <3>1. PICK pc \in {"checking", "uploading"} :
            \E server : task' = [task EXCEPT ![t].pc = pc, ![t].server = server]
      BY <2>2 DEF Derive
    <3> QED BY <1>2, <3>1 DEF Placing, At, TaskType
  <2> QED BY <2>1, <2>2
<1>4. \A u \in Tasks : Placing(u)' => (Placing(u) \/ Sure(u)) /\ task'[u].key = task[u].key
  BY <1>3 DEF Placing, At
<1> QED BY <1>1, <1>4, DecidedKept DEF StillDecided

\* No strategy is under the key that is generated, nor does the task place one.
LEMMA DecidedGenerate ==
  ASSUME IInv, IInv', Decided, NEW t \in Tasks, Generate(t), OneDevice
  PROVE  Decided'
<1>1. /\ task' = [task EXCEPT ![t].pc = AfterKey(task[t].kind), ![t].key = t]
      /\ stored' = [stored EXCEPT ![DeviceOf(t)] = t]
      /\ exec' = exec /\ order' = order /\ At(t, "generating")
  BY DEF Generate, servers, trade
<1>2. /\ task \in [Tasks -> TaskType] /\ stored \in [Devices -> Keys]
      /\ task[t].key = None /\ DeviceOf(t) \in Devices /\ task[t].kind # None
  BY <1>1 DEF IInv, TypeOK, TasksOK, TaskInv, At, DeviceOf
<1>3. task'[t].pc = AfterKey(task[t].kind) /\ task'[t].kind = task[t].kind
      /\ \A u \in Tasks \ {t} : task'[u] = task[u]
  BY <1>1, <1>2 DEF TaskType
<1>4. ~ Placing(t)'
  <2>1. task[t].kind \in Kinds \ {None} BY <1>2 DEF TaskType
  <2> QED BY <1>3, <2>1 DEF Placing, At, AfterKey, Kinds
<1>5. \A u \in Tasks : Placing(u)' => exec' \in {None, task'[u].key}
  BY <1>1, <1>3, <1>4 DEF Placing, At, Decided
<1>6. \A u \in Tasks : order'[u].key # t
  BY <1>1, <1>2, NamesAssumption DEF IInv, KeysMade, Made, KeyOfMaker
<1>7. \A d \in Devices : stored'[d] = t BY <1>1, <1>2 DEF OneDevice
<1> QED BY <1>5, <1>6, <1>7 DEF Decided

\* The key that is uploaded is that of all that run, and of the device.
LEMMA DecidedUpload ==
  ASSUME IInv, Filed, Decided, NEW t \in Tasks, Upload(t)
  PROVE  Decided'
<1>1. /\ Running(t) /\ task[t].key # None /\ task[t].server = task[t].key
      /\ stored' = stored /\ order' = order /\ exec' \in {exec, task[t].key}
  BY DEF Upload, Running, At, Final, IInv, TaskInv, trade
<1>2. PICK pc \in {"flagging", "failed"} : Goto(t, pc) BY DEF Upload
<1>3. \A u \in Tasks : Placing(u)' => Placing(u) /\ task'[u].key = task[u].key
  <2>1. ~ Placing(t)'
    BY <1>2 DEF Goto, IInv, TypeOK, TasksOK, TaskType, Placing, At
  <2>2. \A u \in Tasks \ {t} : task'[u] = task[u]
    BY <1>2 DEF Goto, IInv, TypeOK, TasksOK
  <2> QED BY <2>1, <2>2 DEF Placing, At
<1>4. ASSUME NEW u \in Tasks, Placing(u)' PROVE exec' \in {None, task'[u].key}
  <2>1. Running(u) /\ task[u].key # None
    BY <1>3, <1>4 DEF Placing, Running, At, Final, IInv, TaskInv
  <2>2. task[u].key = task[t].key BY <1>1, <2>1 DEF Filed
  <2> QED BY <1>1, <1>3, <1>4, <2>2 DEF Decided
<1>5. ASSUME NEW d \in Devices, NEW u \in Tasks, order'[u].status = "ARMED",
             order'[u].key = stored'[d]
      PROVE  exec' \in {None, stored'[d]} /\ order'[u].under \in {None, stored'[d]}
  <2>1. stored[d] # None BY <1>1, <1>5 DEF IInv, TradeInv
  <2>2. task[t].key = stored[d] BY <1>1, <2>1 DEF Filed
  <2> QED BY <1>1, <1>5, <2>2 DEF Decided
<1> QED BY <1>4, <1>5 DEF Decided

\* Evaluation, execution, and what may happen around.
LEMMA DecidedOther ==
  ASSUME IInv, IInv', Filed, Decided,
         \/ UNCHANGED vars
         \/ \E t \in Tasks : ExecuteInTee(t) \/ \E met \in BOOLEAN : Evaluate(t, met)
         \/ \E p \in Pages : \/ Poll(p) \/ EndPoll(p) \/ Authorize(p) \/ ClosePage(p)
                             \/ \E t \in Tasks : Watch(p, t)
         \/ \E d \in Devices : ClearSiteData(d)
         \/ ResetExecutor \/ RestartVm
  PROVE  Decided'
<1>0. /\ stored \in [Devices -> Keys] /\ order \in [Tasks -> StrategyType]
      /\ task \in [Tasks -> TaskType] /\ watch \in [Pages -> WatchType]
  BY DEF IInv, TypeOK, TasksOK
<1>1. exec' \in {exec, None} /\ \A d \in Devices : stored'[d] \in {stored[d], None}
  BY <1>0 DEF ExecuteInTee, Evaluate, Poll, EndPoll, Authorize, ClosePage, Watch, ClearSiteData,
       ResetExecutor, RestartVm, vars, servers
<1>2. \A u \in Tasks : Placing(u)' => (Placing(u) \/ Sure(u)) /\ task'[u].key = task[u].key
  <2>1. CASE task' = task BY <2>1 DEF Placing, At
  <2>2. ASSUME NEW p \in Pages, ClosePage(p)
        PROVE  \A u \in Tasks : Placing(u)' => Placing(u) /\ task'[u].key = task[u].key
    <3>1. \A u \in Tasks : \/ task'[u] = task[u]
                           \/ task'[u] = [task[u] EXCEPT !.pc = "closed"]
      BY <2>2 DEF ClosePage
    <3>2. \A u \in Tasks : task'[u] = task[u] \/ task'[u].pc = "closed"
      BY <1>0, <3>1 DEF TaskType
    <3> QED BY <3>2 DEF Placing, At
  <2> QED BY <2>1, <2>2 DEF ExecuteInTee, Evaluate, Poll, EndPoll, Authorize, Watch,
             ClearSiteData, ResetExecutor, RestartVm, vars
<1>3. \A u \in Tasks : StillDecided(u)
  <2>1. CASE order' = order BY <2>1 DEF StillDecided
  <2>2. ASSUME NEW t \in Tasks, Execute(t) PROVE \A u \in Tasks : StillDecided(u)
    <3>1. \A u \in Tasks : order'[u].status = "ARMED" => order'[u] = order[u]
      BY <2>2, ExecuteKeeps
    <3> QED BY <3>1 DEF StillDecided
  <2>3. ASSUME NEW t \in Tasks, NEW met \in BOOLEAN, Evaluate(t, met)
        PROVE  \A u \in Tasks : StillDecided(u)
    <3>1. order' = [order EXCEPT ![t].under = exec, ![t].met = met] /\ order[t].status = "ARMED"
      BY <2>3 DEF Evaluate
    <3>2. /\ order'[t].key = order[t].key /\ order'[t].under = exec
          /\ \A u \in Tasks \ {t} : order'[u] = order[u]
      BY <1>0, <3>1 DEF StrategyType
    <3> QED BY <3>1, <3>2 DEF StillDecided
  <2>4. ASSUME NEW p \in Pages, Authorize(p), order' # order PROVE \E t \in Tasks : Execute(t)
    BY <1>0, <2>4 DEF Authorize, WatchType, Keys
  <2> QED BY <2>1, <2>2, <2>3, <2>4 DEF ExecuteInTee, Poll, EndPoll, ClosePage, Watch,
             ClearSiteData, ResetExecutor, RestartVm, vars, trade
<1> QED BY <1>1, <1>2, <1>3, DecidedKept

LEMMA GInit == Init => GInv
BY FInit DEF Init, GInv, Decided, Locals, NoStrategy, Strategy, Placing, At, None

LEMMA GNext == OneDevice /\ GInv /\ [Next]_vars => GInv'
<1> SUFFICES ASSUME OneDevice, GInv, [Next]_vars PROVE GInv' OBVIOUS
<1>1. FInv' BY FNext DEF GInv
<1>2. CASE crossed'
  BY <1>1, <1>2 DEF GInv
<1>3. CASE ~ crossed'
  <2>1. ~ crossed
    BY <1>3 DEF Next, Key, Ensure, Place, Begin, Generate, GenerateFails, CheckFlag, AskExecutor,
           AskVm, Derive, Upload, RecordUpload, SendKey, Submit, ExecuteInTee, Evaluate, Poll,
           EndPoll, Authorize, ClosePage, Watch, ClearSiteData, ResetExecutor, RestartVm, vars
  <2>2. IInv /\ IInv' /\ Filed /\ Decided BY <1>1, <2>1 DEF GInv, FInv
  <2>3. Decided'
    BY <2>2, DecidedTask, DecidedDerive, DecidedGenerate, DecidedUpload, DecidedOther
    DEF Next, Key, Ensure, Place
  <2> QED BY <1>1, <2>3 DEF GInv
<1> QED BY <1>2, <1>3

\* On a wallet's only device: as long as it has the key a strategy was armed with, what
\* its pages decrypt is what the condition was, whatever is lost, cleared, reset or
\* closed, unless two of its tasks ran under different keys.
THEOREM GarbageNeverDecides ==
  ASSUME OneDevice
  PROVE  Spec => []ResultsDecide
<1>1. GInv => ResultsDecide
  <2> SUFFICES ASSUME GInv, ~ crossed, NEW t \in Tasks, order[t].status = "ARMED",
                      order[t].under # None, order[t].key = stored[DeviceOf(t)]
               PROVE  Decrypted(t, stored[DeviceOf(t)]) = {order[t].met}
    BY DEF ResultsDecide
  <2>1. DeviceOf(t) \in Devices
    BY DEF GInv, FInv, IInv, TradeInv, TypeOK, TasksOK, DeviceOf
  <2>2. order[t].under = stored[DeviceOf(t)] BY <2>1 DEF GInv, Decided
  <2> QED BY <2>2 DEF Decrypted
<1> QED BY <1>1, GInit, GNext, PTL DEF Spec
=============================================================================
