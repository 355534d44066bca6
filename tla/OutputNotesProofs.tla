-------------------------- MODULE OutputNotesProofs ---------------------------
(***************************************************************************)
(* Proofs about OutputNotes.                                               *)
(***************************************************************************)
EXTENDS OutputNotes, TLAPS

-------------------------------------------------------------------------------
(***************************************************************************)
(* The inductive invariant                                                 *)
(***************************************************************************)
Entries == Notes \cup (Notes \X Rows)
JobType ==
  [job : Jobs, pc : PCs, signed : BOOLEAN, keys : SUBSET Entries, got : SUBSET Entries,
   note : Notes \cup {None}]

NoNotePCs == {"idle", "first", "second", "syncing", "hydrating", "selecting"}
RecordPCs == {"first", "known", "bare", "written", "posted", "backedUp"}
RowPCs == {"second", "found", "rewritten", "reposted"}
SpendPCs == {"hydrating", "selecting", "sent", "mined"}

\* The server has the note, or nobody needs it any more.
Listed(n) == n \in nullified \cup OldNotes \/ server[n] # {}

\* The note does not need its record or its pending row: it is listed, or has a row that no
\* purge takes away.
Safe(n) == Listed(n) \/ n \in exposed \/ local[n].hash \/ local[n].pre

\* What a task knows: what its keys and its note are, by its pc.
TaskInv(t) ==
  /\ task[t].note = None <=> task[t].pc \in NoNotePCs
  /\ task[t].note # None => task[t].note \in armed \cup OldNotes
  /\ At(t, "idle") => task[t].keys = {} /\ task[t].got = {}
  /\ task[t].pc \in RecordPCs \cup RowPCs => task[t].keys \cup task[t].got \subseteq Notes
  /\ At(t, "syncing") => task[t].keys \cup task[t].got \subseteq OldNotes
  /\ task[t].pc \in SpendPCs =>
       /\ task[t].keys \cup task[t].got \subseteq Notes \X Rows
       /\ \A e \in task[t].keys \cup task[t].got : Listed(e[1])
  /\ At(t, "bare") => task[t].note \in Outputs
  /\ task[t].pc \in {"written", "posted", "backedUp", "rewritten", "reposted"} => Safe(task[t].note)
  /\ At(t, "sent") => task[t].note \in landed
  /\ At(t, "mined") => task[t].note \in nullified

\* A row that a purge may take away is listed; a marked note is withdrawn; a row
\* is not both taken and to be taken; the secret is kept.
NoteInv(n) ==
  /\ HasRow(n) => local[n].hash \/ local[n].pre \/ Listed(n)
  /\ local[n].spent = "true" => n \in nullified
  /\ record[n] # None => n \in Outputs
  /\ precom[n] = "pending" => n \in armed
  /\ n \in held => n \in armed /\ precom[n] # "pending"
  /\ n \in armed \ (nullified \cup exposed) => record[n] = "enc" \/ HasRow(n) \/ OnServer(n)

StoresOK ==
  /\ record \in [Notes -> {None, "bare", "enc"}]
  /\ precom \in [Notes -> {None, "pending", "in_use", "resolved"}]
  /\ held \subseteq Outputs
  /\ server \in [Notes -> SUBSET Rows]
  /\ local \in [Notes -> [spent : {None, "false", "true"}, hash : BOOLEAN, pre : BOOLEAN]]
  /\ stub \subseteq Outputs /\ armed \subseteq Outputs /\ exposed \subseteq Outputs
  /\ landed \subseteq armed \cup OldNotes /\ nullified \subseteq landed

IInv ==
  /\ StoresOK
  /\ task \in [Tasks -> JobType]
  /\ \A t \in Tasks : TaskInv(t)
  /\ \A n \in Notes : NoteInv(n)

LEMMA TypesFollow == IInv => TypeOK
<1> SUFFICES ASSUME IInv PROVE TypeOK OBVIOUS
<1>1. landed \subseteq Notes BY DEF IInv, StoresOK, Notes
<1>2. \A t \in Tasks :
        /\ task[t].job \in Jobs /\ task[t].pc \in PCs /\ task[t].signed \in BOOLEAN
        /\ task[t].keys \cup task[t].got \subseteq Notes \cup (Notes \X Rows)
        /\ task[t].note \in Notes \cup {None}
        /\ task[t].note = None <=>
             task[t].pc \in {"idle", "first", "second", "syncing", "hydrating", "selecting"}
  BY DEF IInv, JobType, Entries, TaskInv, NoNotePCs
<1> QED BY <1>1, <1>2 DEF IInv, StoresOK, TypeOK

LEMMA NoRowType ==
  /\ NoRow \in [spent : {None, "false", "true"}, hash : BOOLEAN, pre : BOOLEAN]
  /\ ~ NoRow.hash /\ ~ NoRow.pre /\ NoRow.spent = None
BY DEF NoRow, Row

LEMMA NoJobType ==
  /\ NoJob \in JobType /\ NoJob.pc = "idle" /\ NoJob.keys = {} /\ NoJob.got = {}
  /\ NoJob.note = None
BY DEF NoJob, Job, JobType, Jobs, PCs

LEMMA InitInv == Init => IInv
<1> SUFFICES ASSUME Init PROVE IInv OBVIOUS
<1>1. StoresOK BY NoRowType DEF Init, StoresOK, Notes
<1>2. task \in [Tasks -> JobType] /\ \A t \in Tasks : task[t] = NoJob BY NoJobType DEF Init
<1>3. \A t \in Tasks : TaskInv(t)
  BY <1>2, NoJobType DEF TaskInv, At, NoNotePCs, RecordPCs, RowPCs, SpendPCs
<1>4. \A n \in Notes : NoteInv(n)
  BY NoRowType DEF Init, NoteInv, HasRow, None
<1> QED BY <1>1, <1>2, <1>3, <1>4 DEF IInv

-------------------------------------------------------------------------------
(***************************************************************************)
(* Forms of steps                                                          *)
(***************************************************************************)

\* What tasks know of the notes is not taken back.
Grow ==
  /\ \A n \in Notes : (Listed(n) => Listed(n)') /\ (Safe(n) => Safe(n)')
  /\ landed \subseteq landed' /\ nullified \subseteq nullified' /\ armed \subseteq armed'

\* A step of one task.
LEMMA Assemble ==
  ASSUME IInv, StoresOK', NEW t \in Tasks, task' \in [Tasks -> JobType],
         \A u \in Tasks \ {t} : task'[u] = task[u], TaskInv(t)', Grow,
         \A n \in Notes : NoteInv(n)'
  PROVE  IInv'
<1>1. ASSUME NEW u \in Tasks \ {t} PROVE TaskInv(u)'
  <2>1. /\ task'[u] = task[u] /\ task[u] \in JobType /\ TaskInv(u)
    BY DEF IInv
  <2>2. task[u].pc \in SpendPCs => \A e \in task[u].keys \cup task[u].got : Listed(e[1])'
    BY <2>1 DEF TaskInv, Grow
  <2>3. task[u].note # None => task[u].note \in Notes BY <2>1 DEF JobType
  <2> QED BY <2>1, <2>2, <2>3 DEF TaskInv, Grow, At, NoNotePCs
<1> QED BY <1>1 DEF IInv

\* A step of no task.
LEMMA AssembleNone ==
  ASSUME IInv, StoresOK', task' = task, Grow, \A n \in Notes : NoteInv(n)'
  PROVE  IInv'
<1>1. ASSUME NEW u \in Tasks PROVE TaskInv(u)'
  <2>1. task'[u] = task[u] /\ task[u] \in JobType /\ TaskInv(u) BY DEF IInv
  <2>2. task[u].pc \in SpendPCs => \A e \in task[u].keys \cup task[u].got : Listed(e[1])'
    BY <2>1 DEF TaskInv, Grow
  <2>3. task[u].note # None => task[u].note \in Notes BY <2>1 DEF JobType
  <2> QED BY <2>1, <2>2, <2>3 DEF TaskInv, Grow, At, NoNotePCs
<1> QED BY <1>1 DEF IInv

\* The new locals of a task, for each way to write them.
LEMMA GotoFacts ==
  ASSUME IInv, NEW t \in Tasks, NEW pc \in PCs, Goto(t, pc)
  PROVE  /\ task' \in [Tasks -> JobType] /\ \A u \in Tasks \ {t} : task'[u] = task[u]
         /\ task'[t].pc = pc /\ task'[t].keys = task[t].keys /\ task'[t].got = task[t].got
         /\ task'[t].note = task[t].note
BY DEF Goto, IInv, JobType

LEMMA TakeFacts ==
  ASSUME IInv, NEW t \in Tasks, NEW pc \in PCs, NEW e, NEW n \in Notes \cup {None},
         Take(t, e, pc, n)
  PROVE  /\ task' \in [Tasks -> JobType] /\ \A u \in Tasks \ {t} : task'[u] = task[u]
         /\ task'[t].pc = pc /\ task'[t].keys = task[t].keys \ {e}
         /\ task'[t].got = task[t].got /\ task'[t].note = n
<1> DEFINE r == [task[t] EXCEPT !.keys = task[t].keys \ {e}, !.pc = pc, !.note = n]
<1>1. task' = [task EXCEPT ![t] = r] /\ task \in [Tasks -> JobType] BY DEF Take, IInv
<1>2. task[t].keys \ {e} \in SUBSET Entries BY <1>1 DEF JobType
<1>3. /\ r \in JobType /\ r.pc = pc /\ r.keys = task[t].keys \ {e}
      /\ r.got = task[t].got /\ r.note = n
  BY <1>1, <1>2 DEF JobType
<1> HIDE DEF r
<1> QED BY <1>1, <1>3

LEMMA BackFacts ==
  ASSUME IInv, NEW t \in Tasks, NEW pc \in PCs,
         task' = [task EXCEPT ![t].pc = pc, ![t].note = None]
  PROVE  /\ task' \in [Tasks -> JobType] /\ \A u \in Tasks \ {t} : task'[u] = task[u]
         /\ task'[t].pc = pc /\ task'[t].keys = task[t].keys /\ task'[t].got = task[t].got
         /\ task'[t].note = None
<1> DEFINE r == [task[t] EXCEPT !.pc = pc, !.note = None]
<1>1. task' = [task EXCEPT ![t] = r] /\ task \in [Tasks -> JobType] BY DEF IInv
<1>2. /\ r \in JobType /\ r.pc = pc /\ r.keys = task[t].keys /\ r.got = task[t].got
      /\ r.note = None
  BY <1>1 DEF JobType
<1> HIDE DEF r
<1> QED BY <1>1, <1>2

LEMMA DoneFacts ==
  ASSUME IInv, NEW t \in Tasks, Done(t)
  PROVE  /\ task' \in [Tasks -> JobType] /\ \A u \in Tasks \ {t} : task'[u] = task[u]
         /\ TaskInv(t)'
<1>1. task' = [task EXCEPT ![t] = NoJob] /\ task \in [Tasks -> JobType] BY DEF Done, IInv
<1>2. task'[t] = NoJob BY <1>1
<1>3. TaskInv(t)'
  BY <1>2, NoJobType DEF TaskInv, At, NoNotePCs, RecordPCs, RowPCs, SpendPCs
<1> QED BY <1>1, <1>3, NoJobType

\* A step that changes a task only.
LEMMA OnlyTask ==
  ASSUME IInv, UNCHANGED <<store, backup, vault, armed, exposed>>
  PROVE  StoresOK' /\ Grow /\ \A n \in Notes : NoteInv(n)'
BY DEF IInv, StoresOK, Grow, NoteInv, Listed, Safe, HasRow, OnServer, store, backup, vault

\* A step of one task that writes nothing else: what is left is its TaskInv.
LEMMA TaskStep ==
  ASSUME IInv, UNCHANGED <<store, backup, vault, armed, exposed>>, NEW t \in Tasks,
         task' \in [Tasks -> JobType], \A u \in Tasks \ {t} : task'[u] = task[u], TaskInv(t)'
  PROVE  IInv'
BY OnlyTask, Assemble

LEMMA StutterInv == ASSUME IInv, UNCHANGED vars PROVE IInv'
<1>1. StoresOK' /\ Grow /\ \A n \in Notes : NoteInv(n)' BY OnlyTask DEF vars
<1> QED BY <1>1, AssembleNone DEF vars

-------------------------------------------------------------------------------
(***************************************************************************)
(* Steps of no task                                                        *)
(***************************************************************************)
LEMMA CreateInv ==
  ASSUME IInv, NEW n \in Notes, Create(n)
  PROVE  IInv'
<1>1. PICK enc \in {"enc", "bare"} :
        /\ n \in Outputs \ armed /\ record' = [record EXCEPT ![n] = enc]
        /\ \/ precom' = [precom EXCEPT ![n] = "pending"] /\ exposed' = exposed
           \/ /\ exposed' = IF enc = "bare" THEN exposed \cup {n} ELSE exposed
              /\ precom' = precom
        /\ armed' = armed \cup {n}
        /\ UNCHANGED <<local, stub, held, server, vault, task>>
  BY DEF Create
<1>2. StoresOK' BY <1>1 DEF IInv, StoresOK, vault
<1>3. Grow BY <1>1 DEF Grow, Listed, Safe, vault
<1>4. ASSUME NEW o \in Notes PROVE NoteInv(o)'
  <2>1. NoteInv(o) BY DEF IInv
  <2>2. CASE o = n
    <3>1. n \notin held BY <1>1, <2>1, <2>2 DEF NoteInv
    <3>2. n \in exposed' \/ record'[n] = "enc" \/ precom'[n] = "pending"
      BY <1>1 DEF IInv, StoresOK
    <3> QED
      BY <1>1, <2>1, <2>2, <3>1, <3>2 DEF NoteInv, HasRow, Listed, OnServer, vault, IInv, StoresOK
  <2>3. CASE o # n
    <3>1. record'[o] = record[o] /\ precom'[o] = precom[o]
      BY <1>1, <2>3 DEF IInv, StoresOK
    <3> QED BY <1>1, <2>1, <2>3, <3>1 DEF NoteInv, HasRow, Listed, OnServer, vault
  <2> QED BY <2>2, <2>3
<1> QED BY <1>1, <1>2, <1>3, <1>4, AssembleNone

LEMMA LandInv == ASSUME IInv, NEW n \in Notes, Land(n) PROVE IInv'
<1>1. StoresOK' BY DEF Land, IInv, StoresOK, store, backup
<1>2. Grow BY DEF Land, Grow, Listed, Safe, store, backup
<1>3. \A o \in Notes : NoteInv(o)'
  BY DEF Land, IInv, NoteInv, HasRow, Listed, OnServer, store, backup
<1> QED BY <1>1, <1>2, <1>3, AssembleNone DEF Land

\* Marking the row of a withdrawn note.
LEMMA MarkInv ==
  ASSUME IInv, NEW n \in nullified, HasRow(n),
         local' = [local EXCEPT ![n].spent = "true"],
         UNCHANGED <<record, stub, precom, held, vault, armed, exposed>>,
         server' \in [Notes -> SUBSET Rows], \A o \in Notes \ {n} : server'[o] = server[o]
  PROVE  StoresOK' /\ Grow /\ \A o \in Notes : NoteInv(o)'
<1>1. n \in Notes BY DEF IInv, StoresOK, Notes
<1>2. /\ local' \in [Notes -> [spent : {None, "false", "true"}, hash : BOOLEAN, pre : BOOLEAN]]
      /\ local'[n].hash = local[n].hash /\ local'[n].pre = local[n].pre
      /\ \A o \in Notes \ {n} : local'[o] = local[o]
  BY <1>1 DEF IInv, StoresOK
<1>3. StoresOK' BY <1>2 DEF IInv, StoresOK, vault
<1>4. Grow BY <1>1, <1>2 DEF Grow, Listed, Safe, vault
<1>5. ASSUME NEW o \in Notes PROVE NoteInv(o)'
  <2>1. NoteInv(o) BY DEF IInv
  <2>2. CASE o = n BY <2>1, <2>2, <1>2 DEF NoteInv, HasRow, Listed, vault
  <2>3. CASE o # n
    <3>1. local'[o] = local[o] /\ server'[o] = server[o] BY <1>2, <2>3
    <3> QED BY <2>1, <3>1 DEF NoteInv, HasRow, Listed, OnServer, vault
  <2> QED BY <2>2, <2>3
<1> QED BY <1>3, <1>4, <1>5

LEMMA ReconcileInv == ASSUME IInv, NEW n \in Notes, Reconcile(n) PROVE IInv'
<1>1. HasRow(n) BY NoRowType DEF Reconcile, Counted, HasRow, None
<1>2. /\ n \in nullified /\ local' = [local EXCEPT ![n].spent = "true"] /\ task' = task
      /\ UNCHANGED <<record, stub, precom, held, server, vault, armed, exposed>>
  BY DEF Reconcile, backup
<1>3. server' \in [Notes -> SUBSET Rows] BY <1>2 DEF IInv, StoresOK
<1>4. StoresOK' /\ Grow /\ \A o \in Notes : NoteInv(o)' BY <1>1, <1>2, <1>3, MarkInv
<1> QED BY <1>2, <1>4, AssembleNone

LEMMA SpendElsewhereInv == ASSUME IInv, NEW n \in Notes, SpendElsewhere(n) PROVE IInv'
<1>1. PICK rows \in SUBSET server[n] : server' = [server EXCEPT ![n] = rows]
  BY DEF SpendElsewhere
<1>2. /\ n \in landed /\ nullified' = nullified \cup {n}
      /\ UNCHANGED <<store, precom, held, landed, task, armed, exposed>>
  BY DEF SpendElsewhere
<1>3. \A o \in Notes \ {n} : server'[o] = server[o] BY <1>1 DEF IInv, StoresOK
<1>4. StoresOK' BY <1>1, <1>2 DEF IInv, StoresOK, store
<1>5. Grow BY <1>2, <1>3 DEF Grow, Listed, Safe, store
<1>6. ASSUME NEW o \in Notes PROVE NoteInv(o)'
  BY <1>2, <1>3 DEF IInv, NoteInv, HasRow, Listed, OnServer, store
<1> QED BY <1>2, <1>4, <1>5, <1>6, AssembleNone

\* A note that only its pending row kept is exposed when a withdrawal takes the row.
LEMMA ClaimInv == ASSUME IInv, NEW n \in Notes, Claim(n) PROVE IInv'
<1>1. /\ precom[n] = "pending" /\ precom' = [precom EXCEPT ![n] = "in_use"]
      /\ held' = held \/ held' = held \cup {n}
      /\ exposed' = IF KeptHere(n) \/ server[n] # {} THEN exposed ELSE exposed \cup {n}
      /\ UNCHANGED <<record, local, stub, server, vault, task, armed>>
  BY DEF Claim, store
<1>2. n \in Outputs BY <1>1 DEF IInv, StoresOK, NoteInv, None
<1>3. StoresOK' BY <1>1, <1>2 DEF IInv, StoresOK, vault
<1>4. Grow BY <1>1 DEF Grow, Listed, Safe, vault
<1>5. ASSUME NEW o \in Notes PROVE NoteInv(o)'
  <2>1. NoteInv(o) BY DEF IInv
  <2>2. CASE o = n
    <3>1. precom'[n] = "in_use" BY <1>1 DEF IInv, StoresOK
    <3>2. \/ n \in exposed' \/ record'[n] = "enc" \/ HasRow(n)' \/ OnServer(n)'
      BY <1>1 DEF KeptHere, HasRow, OnServer
    <3> QED BY <1>1, <2>1, <2>2, <3>1, <3>2 DEF NoteInv, HasRow, Listed, vault
  <2>3. CASE o # n
    <3>1. precom'[o] = precom[o] /\ (o \in held' => o \in held)
          /\ (o \in exposed <=> o \in exposed')
      BY <1>1, <2>3 DEF IInv, StoresOK
    <3> QED BY <1>1, <2>1, <3>1 DEF NoteInv, HasRow, Listed, OnServer, vault
  <2> QED BY <2>2, <2>3
<1> QED BY <1>1, <1>3, <1>4, <1>5, AssembleNone

\* What becomes of a row that was taken takes nothing more from its note.
LEMMA EndClaimInv == ASSUME IInv, NEW n \in Notes, EndClaim(n) PROVE IInv'
<1>1. /\ n \in held /\ held' = held \ {n}
      /\ \/ precom' = precom
         \/ \E s \in {"resolved", "pending"} : precom' = [precom EXCEPT ![n] = s]
      /\ UNCHANGED <<record, local, stub, server, vault, task, armed, exposed>>
  BY DEF EndClaim, store
<1>2. precom[n] # "pending" BY <1>1 DEF IInv, NoteInv
<1>3. StoresOK' BY <1>1 DEF IInv, StoresOK, vault
<1>4. Grow BY <1>1 DEF Grow, Listed, Safe, vault
<1>5. ASSUME NEW o \in Notes PROVE NoteInv(o)'
  <2>1. NoteInv(o) BY DEF IInv
  <2>2. precom[o] = "pending" => precom'[o] = "pending"
    BY <1>1, <1>2 DEF IInv, StoresOK
  <2>3. OnServer(o) => OnServer(o)' BY <1>1, <2>2 DEF OnServer
  <2>4. (precom'[o] = "pending" => o \in armed) /\ (o \in held' => precom'[o] # "pending")
    <3>1. CASE o = n BY <1>1, <2>1, <3>1 DEF NoteInv
    <3>2. CASE o # n
      <4>1. precom'[o] = precom[o] BY <1>1, <3>2 DEF IInv, StoresOK
      <4> QED BY <1>1, <2>1, <4>1 DEF NoteInv
    <3> QED BY <3>1, <3>2
  <2> QED BY <1>1, <2>1, <2>3, <2>4 DEF NoteInv, HasRow, Listed, vault
<1> QED BY <1>1, <1>3, <1>4, <1>5, AssembleNone

\* What a task was moving is exposed.
LEMMA ClearSiteDataInv == ASSUME IInv, ClearSiteData PROVE IInv'
<1>1. /\ record' = [n \in Notes |-> None] /\ local' = [n \in Notes |-> NoRow] /\ stub' = {}
      /\ exposed' = exposed \cup
           {n \in armed : ~ OnServer(n) \/ \E t \in Tasks : task[t].note = n}
      /\ UNCHANGED <<precom, held, server, landed, nullified, task, armed>>
  BY DEF ClearSiteData, backup, vault
<1>2. StoresOK' BY <1>1, NoRowType DEF IInv, StoresOK
<1>3. ASSUME NEW n \in Notes PROVE NoteInv(n)'
  BY <1>1, NoRowType DEF IInv, NoteInv, HasRow, OnServer, None
<1>4. ASSUME NEW t \in Tasks PROVE TaskInv(t)'
  <2>1. task'[t] = task[t] /\ TaskInv(t) /\ task[t] \in JobType BY <1>1 DEF IInv
  <2>2. task[t].note # None => Listed(task[t].note)' \/ task[t].note \in exposed'
    BY <1>1, <2>1 DEF TaskInv, Listed
  <2>3. task[t].note # None => Safe(task[t].note)' BY <2>1, <2>2 DEF Safe
  <2>4. task[t].pc \in SpendPCs =>
          \A e \in task[t].keys \cup task[t].got : Listed(e[1])'
    BY <1>1, <2>1 DEF TaskInv, Listed
  <2> QED BY <1>1, <2>1, <2>3, <2>4 DEF TaskInv, At, NoNotePCs
<1>5. task' \in [Tasks -> JobType] BY <1>1 DEF IInv
<1> QED BY <1>2, <1>3, <1>4, <1>5 DEF IInv

-------------------------------------------------------------------------------
(***************************************************************************)
(* Steps of resolvePendingOutputNotes                                      *)
(***************************************************************************)
LEMMA StartResolveInv ==
  ASSUME IInv, NEW t \in Tasks, NEW signed \in BOOLEAN, StartResolve(t, signed)
  PROVE  IInv'
<1>1. PICK got \in SUBSET Notes :
        task' = [task EXCEPT ![t] = Job("resolve", "first", signed, Records, got, None)]
  BY DEF StartResolve, Answers, Pending
<1>2. task \in [Tasks -> JobType] BY DEF IInv
<1> DEFINE r == Job("resolve", "first", signed, Records, got, None)
<1>3. /\ r \in JobType /\ r.pc = "first" /\ r.keys = Records /\ r.got = got /\ r.note = None
      /\ Records \subseteq Notes /\ task' = [task EXCEPT ![t] = r]
  BY <1>1 DEF Job, JobType, Jobs, PCs, Entries, Records
<1> HIDE DEF r
<1>4. task'[t] = r /\ task' \in [Tasks -> JobType] BY <1>1, <1>2, <1>3
<1>5. TaskInv(t)' BY <1>3, <1>4 DEF TaskInv, At, NoNotePCs, RecordPCs, RowPCs, SpendPCs
<1> QED BY <1>1, <1>2, <1>4, <1>5, TaskStep DEF StartResolve

LEMMA SeeLandedInv ==
  ASSUME IInv, NEW t \in Tasks, NEW n \in task[t].keys, SeeLanded(t, n)
  PROVE  IInv'
<1>1. /\ TaskInv(t) /\ At(t, "first") /\ UNCHANGED <<store, backup, vault, armed, exposed>>
      /\ n \in Notes
  BY DEF IInv, SeeLanded, TaskInv, At, RecordPCs
<1>2. CASE record[n] # None /\ n \in landed
  <2>1. PICK pc \in {"known", "bare"} : Take(t, n, pc, n) BY <1>2 DEF SeeLanded
  <2>2. /\ task' \in [Tasks -> JobType] /\ \A u \in Tasks \ {t} : task'[u] = task[u]
        /\ task'[t].pc = pc /\ task'[t].keys = task[t].keys \ {n}
        /\ task'[t].got = task[t].got /\ task'[t].note = n
    BY <1>1, <2>1, TakeFacts DEF PCs
  <2>3. n \in Outputs /\ n \in armed' \cup OldNotes /\ n # None
    BY <1>1, <1>2, NotesAssumption DEF IInv, StoresOK, NoteInv
  <2>4. TaskInv(t)'
    BY <1>1, <2>2, <2>3 DEF TaskInv, At, NoNotePCs, RecordPCs, RowPCs, SpendPCs
  <2> QED BY <1>1, <2>2, <2>4, TaskStep
<1>3. CASE ~ (record[n] # None /\ n \in landed)
  <2>1. Take(t, n, "first", None) BY <1>3 DEF SeeLanded
  <2>2. /\ task' \in [Tasks -> JobType] /\ \A u \in Tasks \ {t} : task'[u] = task[u]
        /\ task'[t].pc = "first" /\ task'[t].keys = task[t].keys \ {n}
        /\ task'[t].got = task[t].got /\ task'[t].note = None
    BY <2>1, TakeFacts DEF PCs
  <2>3. TaskInv(t)'
    BY <1>1, <2>2 DEF TaskInv, At, NoNotePCs, RecordPCs, RowPCs, SpendPCs
  <2> QED BY <1>1, <2>2, <2>3, TaskStep
<1> QED BY <1>2, <1>3

LEMMA FindMissingInv ==
  ASSUME IInv, NEW t \in Tasks, NEW n \in task[t].keys, FindMissing(t, n)
  PROVE  IInv'
<1>1. /\ TaskInv(t) /\ At(t, "second") /\ UNCHANGED <<store, backup, vault, armed, exposed>>
      /\ n \in Notes
  BY DEF IInv, FindMissing, TaskInv, At, RowPCs
<1>2. PICK pc \in {"found", "second"}, o \in {n, None} :
        /\ Take(t, n, pc, o)
        /\ IF pc = "found" THEN o = n /\ n \in landed ELSE o = None
  BY DEF FindMissing
<1>3. /\ task' \in [Tasks -> JobType] /\ \A u \in Tasks \ {t} : task'[u] = task[u]
      /\ task'[t].pc = pc /\ task'[t].keys = task[t].keys \ {n}
      /\ task'[t].got = task[t].got /\ task'[t].note = o
  BY <1>1, <1>2, TakeFacts DEF PCs
<1>4. n \in landed => n \in armed' \cup OldNotes BY <1>1 DEF IInv, StoresOK
<1>5. n # None BY <1>1, NotesAssumption
<1>6. TaskInv(t)'
  BY <1>1, <1>2, <1>3, <1>4, <1>5 DEF TaskInv, At, NoNotePCs, RecordPCs, RowPCs, SpendPCs
<1> QED BY <1>1, <1>3, <1>6, TaskStep

LEMMA EndRecordsInv ==
  ASSUME IInv, NEW t \in Tasks, EndRecords(t)
  PROVE  IInv'
<1>1. /\ TaskInv(t) /\ At(t, "first") /\ UNCHANGED <<store, backup, vault, armed, exposed>>
      /\ task \in [Tasks -> JobType] /\ task[t].keys = {}
  BY DEF IInv, EndRecords
<1>2. CASE Done(t) BY <1>1, <1>2, DoneFacts, TaskStep
<1>3. CASE task' = [task EXCEPT ![t].pc = "second", ![t].keys = AfterRecords(t)]
  <2> DEFINE r == [task[t] EXCEPT !.pc = "second", !.keys = task[t].got]
  <2>1. task' = [task EXCEPT ![t] = r] BY <1>1, <1>3 DEF AfterRecords
  <2>2. /\ r \in JobType /\ r.pc = "second" /\ r.keys = task[t].got /\ r.got = task[t].got
        /\ r.note = task[t].note
    BY <1>1 DEF JobType, PCs
  <2> HIDE DEF r
  <2>3. task'[t] = r /\ task' \in [Tasks -> JobType] BY <1>1, <2>1, <2>2
  <2>4. task[t].note = None /\ task[t].got \subseteq Notes
    BY <1>1 DEF TaskInv, At, NoNotePCs, RecordPCs
  <2>5. TaskInv(t)'
    BY <2>2, <2>3, <2>4 DEF TaskInv, At, NoNotePCs, RecordPCs, RowPCs, SpendPCs
  <2> QED BY <1>1, <2>1, <2>3, <2>5, TaskStep
<1> QED BY <1>2, <1>3 DEF EndRecords

\* A row with a mark is written for the note of the task.
LEMMA WriteInv ==
  ASSUME IInv, NEW t \in Tasks, NEW pc \in {"written", "rewritten"}, NEW hash \in BOOLEAN,
         At(t, IF pc = "written" THEN "known" ELSE "found"),
         local' = [local EXCEPT ![task[t].note] = Row("false", hash, TRUE)], Goto(t, pc),
         UNCHANGED <<record, stub, backup, vault, armed, exposed>>
  PROVE  IInv'
<1> DEFINE n == task[t].note
<1>1. TaskInv(t) /\ n # None /\ n \in Notes
  BY DEF IInv, TaskInv, At, NoNotePCs, JobType
<1>2. /\ task' \in [Tasks -> JobType] /\ \A u \in Tasks \ {t} : task'[u] = task[u]
      /\ task'[t].pc = pc /\ task'[t].keys = task[t].keys /\ task'[t].got = task[t].got
      /\ task'[t].note = n
  BY GotoFacts DEF PCs
<1> HIDE DEF n
<1>3. /\ local' \in [Notes -> [spent : {None, "false", "true"}, hash : BOOLEAN, pre : BOOLEAN]]
      /\ local'[n].spent = "false" /\ local'[n].pre
      /\ \A o \in Notes \ {n} : local'[o] = local[o]
  BY <1>1 DEF IInv, StoresOK, Row, n
<1>4. StoresOK' BY <1>3 DEF IInv, StoresOK, backup, vault
<1>5. Grow BY <1>3 DEF Grow, Listed, Safe, backup, vault
<1>6. ASSUME NEW o \in Notes PROVE NoteInv(o)'
  <2>1. NoteInv(o) BY DEF IInv
  <2>2. CASE o = n
    BY <1>3, <2>1, <2>2, NoRowType DEF NoteInv, HasRow, backup, vault
  <2>3. CASE o # n
    <3>1. local'[o] = local[o] BY <1>3, <2>3
    <3> QED BY <2>1, <3>1 DEF NoteInv, HasRow, Listed, OnServer, backup, vault
  <2> QED BY <2>2, <2>3
<1>7. TaskInv(t)'
  BY <1>1, <1>2, <1>3 DEF TaskInv, At, NoNotePCs, RecordPCs, RowPCs, SpendPCs, Safe, n
<1> QED BY <1>2, <1>4, <1>5, <1>6, <1>7, Assemble

LEMMA WriteStubInv == ASSUME IInv, NEW t \in Tasks, WriteStub(t) PROVE IInv'
<1>1. /\ TaskInv(t) /\ At(t, "bare") /\ stub' = stub \cup {task[t].note}
      /\ UNCHANGED <<record, local, backup, vault, armed, exposed>>
      /\ task' = [task EXCEPT ![t].pc = "first", ![t].note = None]
  BY DEF IInv, WriteStub, Seen
<1>2. /\ task' \in [Tasks -> JobType] /\ \A u \in Tasks \ {t} : task'[u] = task[u]
      /\ task'[t].pc = "first" /\ task'[t].keys = task[t].keys /\ task'[t].got = task[t].got
      /\ task'[t].note = None
  BY <1>1, BackFacts DEF PCs
<1>3. TaskInv(t)'
  BY <1>1, <1>2 DEF TaskInv, At, NoNotePCs, RecordPCs, RowPCs, SpendPCs
<1>4. StoresOK' BY <1>1 DEF IInv, StoresOK, TaskInv, At, backup, vault
<1>5. Grow BY <1>1 DEF Grow, Listed, Safe, backup, vault
<1>6. \A o \in Notes : NoteInv(o)'
  BY <1>1 DEF IInv, NoteInv, HasRow, Listed, OnServer, backup, vault
<1> QED BY <1>2, <1>3, <1>4, <1>5, <1>6, Assemble

LEMMA PostInv ==
  ASSUME IInv, NEW t \in Tasks,
         NEW from \in {"written", "rewritten"}, NEW to \in {"posted", "reposted"},
         Post(t, from, to)
  PROVE  IInv'
<1> DEFINE n == task[t].note
<1>1. TaskInv(t) /\ task[t].pc = from /\ n # None /\ n \in Notes
  BY DEF IInv, TaskInv, At, NoNotePCs, JobType, Post
<1>2. /\ task' \in [Tasks -> JobType] /\ \A u \in Tasks \ {t} : task'[u] = task[u]
      /\ task'[t].pc = to /\ task'[t].keys = task[t].keys /\ task'[t].got = task[t].got
      /\ task'[t].note = n
  BY GotoFacts DEF PCs, Post
<1>3. /\ server' \in [Notes -> SUBSET Rows] /\ \A o \in Notes : server[o] \subseteq server'[o]
      /\ UNCHANGED <<store, precom, held, vault, armed, exposed>>
  <2>1. server' = server \/ \E r \in Rows : server' = [server EXCEPT ![n] = @ \cup {r}]
    BY DEF Post
  <2> HIDE DEF n
  <2> QED BY <1>1, <2>1 DEF IInv, StoresOK, Post
<1> HIDE DEF n
<1>4. StoresOK' BY <1>3 DEF IInv, StoresOK, store, vault
<1>5. Grow
  <2>1. \A o \in Notes : (Listed(o) => Listed(o)') BY <1>3 DEF Listed, vault
  <2>2. \A o \in Notes : (Safe(o) => Safe(o)') BY <1>3, <2>1 DEF Safe, store
  <2> QED BY <1>3, <2>1, <2>2 DEF Grow, vault
<1>6. ASSUME NEW o \in Notes PROVE NoteInv(o)'
  <2>1. NoteInv(o) /\ (Listed(o) => Listed(o)') BY <1>5 DEF IInv, Grow
  <2>2. OnServer(o) => OnServer(o)' BY <1>3 DEF OnServer
  <2> QED BY <1>3, <2>1, <2>2 DEF NoteInv, HasRow, store, vault
<1>7. Safe(n)' BY <1>1, <1>2, <1>5 DEF TaskInv, Grow, Safe, Listed, n
<1>8. TaskInv(t)'
  BY <1>1, <1>2, <1>3, <1>7 DEF TaskInv, At, NoNotePCs, RecordPCs, RowPCs, SpendPCs, n
<1> QED BY <1>2, <1>4, <1>5, <1>6, <1>8, Assemble

\* The pending row or the record of a safe note is not needed.
LEMMA SafeKept ==
  ASSUME IInv, NEW n \in Notes, Safe(n), UNCHANGED <<local, stub, held, server, vault, armed, exposed>>,
         \/ record' = record /\ (precom' = precom \/ precom' = [precom EXCEPT ![n] = "resolved"])
         \/ precom' = precom /\ record' = [record EXCEPT ![n] = None]
  PROVE  StoresOK' /\ Grow /\ \A o \in Notes : NoteInv(o)'
<1>1. StoresOK' BY DEF IInv, StoresOK, vault
<1>2. Grow BY DEF Grow, Listed, Safe, vault
<1>3. ASSUME NEW o \in Notes PROVE NoteInv(o)'
  <2>1. NoteInv(o) BY DEF IInv
  <2>2. CASE o = n
    <3>1. (record'[n] # None => record[n] # None) BY DEF IInv, StoresOK
    <3>2. n \in armed \ (nullified \cup exposed) => HasRow(n) \/ OnServer(n)'
      BY NoRowType DEF Safe, Listed, HasRow, OnServer
    <3>3. precom'[n] = "pending" => precom[n] = "pending" BY DEF IInv, StoresOK
    <3> QED BY <2>1, <2>2, <3>1, <3>2, <3>3 DEF NoteInv, HasRow, Listed, vault
  <2>3. CASE o # n
    <3>1. record'[o] = record[o] /\ precom'[o] = precom[o] BY <2>3 DEF IInv, StoresOK
    <3> QED BY <2>1, <3>1 DEF NoteInv, HasRow, Listed, OnServer, vault
  <2> QED BY <2>2, <2>3
<1> QED BY <1>1, <1>2, <1>3

LEMMA ResolveFetchedInv == ASSUME IInv, NEW t \in Tasks, ResolveFetched(t) PROVE IInv'
<1> DEFINE n == task[t].note
<1>1. TaskInv(t) /\ At(t, "posted") /\ Safe(n) /\ n # None /\ n \in Notes
  BY DEF IInv, TaskInv, At, NoNotePCs, JobType, ResolveFetched
<1>2. /\ task' \in [Tasks -> JobType] /\ \A u \in Tasks \ {t} : task'[u] = task[u]
      /\ task'[t].pc = "backedUp" /\ task'[t].keys = task[t].keys
      /\ task'[t].got = task[t].got /\ task'[t].note = n
  BY GotoFacts DEF PCs, ResolveFetched
<1>3. /\ precom' = precom \/ precom' = [precom EXCEPT ![n] = "resolved"]
      /\ UNCHANGED <<record, local, stub, held, server, vault, armed, exposed>>
  BY DEF ResolveFetched, ResolveRow, store
<1> HIDE DEF n
<1>4. StoresOK' /\ Grow /\ \A o \in Notes : NoteInv(o)' BY <1>1, <1>3, SafeKept
<1>5. Safe(n)' BY <1>1, <1>2, <1>4 DEF Grow, Safe, Listed, n
<1>6. TaskInv(t)'
  BY <1>1, <1>2, <1>3, <1>5 DEF TaskInv, At, NoNotePCs, RecordPCs, RowPCs, SpendPCs, n
<1> QED BY <1>2, <1>4, <1>6, Assemble

LEMMA ResolveMissingInv == ASSUME IInv, NEW t \in Tasks, ResolveMissing(t) PROVE IInv'
<1> DEFINE n == task[t].note
<1>1. TaskInv(t) /\ At(t, "reposted") /\ Safe(n) /\ n # None /\ n \in Notes
  BY DEF IInv, TaskInv, At, NoNotePCs, JobType, ResolveMissing
<1>2. /\ task' \in [Tasks -> JobType] /\ \A u \in Tasks \ {t} : task'[u] = task[u]
      /\ task'[t].pc = "second" /\ task'[t].keys = task[t].keys
      /\ task'[t].got = task[t].got /\ task'[t].note = None
  BY BackFacts DEF PCs, ResolveMissing
<1>3. /\ precom' = precom \/ precom' = [precom EXCEPT ![n] = "resolved"]
      /\ UNCHANGED <<record, local, stub, held, server, vault, armed, exposed>>
  BY DEF ResolveMissing, ResolveRow, store
<1> HIDE DEF n
<1>4. StoresOK' /\ Grow /\ \A o \in Notes : NoteInv(o)' BY <1>1, <1>3, SafeKept
<1>5. TaskInv(t)'
  BY <1>1, <1>2, <1>3 DEF TaskInv, At, NoNotePCs, RecordPCs, RowPCs, SpendPCs
<1> QED BY <1>2, <1>4, <1>5, Assemble

LEMMA DropRecordInv == ASSUME IInv, NEW t \in Tasks, DropRecord(t) PROVE IInv'
<1> DEFINE n == task[t].note
<1>1. TaskInv(t) /\ At(t, "backedUp") /\ Safe(n) /\ n # None /\ n \in Notes
  BY DEF IInv, TaskInv, At, NoNotePCs, JobType, DropRecord
<1>2. /\ task' \in [Tasks -> JobType] /\ \A u \in Tasks \ {t} : task'[u] = task[u]
      /\ task'[t].pc = "first" /\ task'[t].keys = task[t].keys
      /\ task'[t].got = task[t].got /\ task'[t].note = None
  BY BackFacts DEF PCs, DropRecord
<1>3. /\ record' = [record EXCEPT ![n] = None] /\ precom' = precom
      /\ UNCHANGED <<local, stub, held, server, vault, armed, exposed>>
  BY DEF DropRecord, backup
<1> HIDE DEF n
<1>4. StoresOK' /\ Grow /\ \A o \in Notes : NoteInv(o)' BY <1>1, <1>3, SafeKept
<1>5. TaskInv(t)'
  BY <1>1, <1>2, <1>3 DEF TaskInv, At, NoNotePCs, RecordPCs, RowPCs, SpendPCs
<1> QED BY <1>2, <1>4, <1>5, Assemble

-------------------------------------------------------------------------------
(***************************************************************************)
(* Steps of the sync of older notes, of connects and of re-hydrations      *)
(***************************************************************************)
LEMMA StartOldSyncInv == ASSUME IInv, NEW t \in Tasks, StartOldSync(t) PROVE IInv'
<1> DEFINE r == Job("old", "syncing", TRUE, OldNotes, {}, None)
<1>1. /\ r \in JobType /\ r.pc = "syncing" /\ r.keys = OldNotes /\ r.got = {} /\ r.note = None
      /\ task' = [task EXCEPT ![t] = r]
  BY DEF Job, JobType, Jobs, PCs, Entries, Notes, StartOldSync
<1> HIDE DEF r
<1>2. task'[t] = r /\ task' \in [Tasks -> JobType] BY <1>1 DEF IInv
<1>3. TaskInv(t)' BY <1>1, <1>2 DEF TaskInv, At, NoNotePCs, RecordPCs, RowPCs, SpendPCs
<1> QED BY <1>1, <1>2, <1>3, TaskStep DEF StartOldSync

LEMMA SyncOneInv ==
  ASSUME IInv, NEW t \in Tasks, NEW n \in task[t].keys, SyncOne(t, n)
  PROVE  IInv'
<1>1. TaskInv(t) /\ At(t, "syncing") /\ n \in OldNotes /\ n \in Notes
  BY DEF IInv, SyncOne, TaskInv, At, Notes
<1>2. /\ task' \in [Tasks -> JobType] /\ \A u \in Tasks \ {t} : task'[u] = task[u]
      /\ task'[t].pc = "syncing" /\ task'[t].keys = task[t].keys \ {n}
      /\ task'[t].got = task[t].got /\ task'[t].note = None
  BY TakeFacts DEF PCs, SyncOne
<1>3. /\ local' = [local EXCEPT ![n] = Row("false", TRUE, FALSE)]
      /\ UNCHANGED <<record, stub, backup, vault, armed, exposed>>
  BY DEF SyncOne
<1>4. /\ local' \in [Notes -> [spent : {None, "false", "true"}, hash : BOOLEAN, pre : BOOLEAN]]
      /\ local'[n].spent = "false" /\ local'[n].hash
      /\ \A o \in Notes \ {n} : local'[o] = local[o]
  BY <1>1, <1>3 DEF IInv, StoresOK, Row
<1>5. StoresOK' BY <1>3, <1>4 DEF IInv, StoresOK, backup, vault
<1>6. Grow BY <1>3, <1>4 DEF Grow, Listed, Safe, backup, vault
<1>7. ASSUME NEW o \in Notes PROVE NoteInv(o)'
  <2>1. NoteInv(o) BY DEF IInv
  <2>2. CASE o = n BY <1>3, <1>4, <2>1, <2>2, NoRowType DEF NoteInv, HasRow, backup, vault
  <2>3. CASE o # n
    <3>1. local'[o] = local[o] BY <1>4, <2>3
    <3> QED BY <1>3, <2>1, <3>1 DEF NoteInv, HasRow, Listed, OnServer, backup, vault
  <2> QED BY <2>2, <2>3
<1>8. TaskInv(t)'
  BY <1>1, <1>2 DEF TaskInv, At, NoNotePCs, RecordPCs, RowPCs, SpendPCs
<1> QED BY <1>2, <1>5, <1>6, <1>7, <1>8, Assemble

LEMMA UnspentListed ==
  /\ Unspent \subseteq Notes \X Rows \/ ~ StoresOK
  /\ \A e \in Unspent : Listed(e[1])
BY DEF Unspent, Listed, StoresOK

\* A fetch of the rows of the server begins.
LEMMA FetchFacts ==
  ASSUME IInv, NEW t \in Tasks, NEW job \in Jobs, NEW got \in Answers(Unspent),
         task' = [task EXCEPT ![t] = Job(job, "hydrating", TRUE, got, got, None)], Grow
  PROVE  /\ task' \in [Tasks -> JobType] /\ \A u \in Tasks \ {t} : task'[u] = task[u]
         /\ TaskInv(t)'
<1> DEFINE r == Job(job, "hydrating", TRUE, got, got, None)
<1>1. got \subseteq Notes \X Rows /\ \A e \in got : Listed(e[1])
  BY UnspentListed DEF Answers, IInv
<1>2. /\ r \in JobType /\ r.pc = "hydrating" /\ r.keys = got /\ r.got = got /\ r.note = None
      /\ task' = [task EXCEPT ![t] = r]
  BY <1>1 DEF Job, JobType, PCs, Entries
<1> HIDE DEF r
<1>3. task'[t] = r /\ task' \in [Tasks -> JobType] BY <1>2 DEF IInv
<1>4. \A e \in got : Listed(e[1])' BY <1>1 DEF Grow
<1>5. TaskInv(t)'
  BY <1>1, <1>2, <1>3, <1>4 DEF TaskInv, At, NoNotePCs, RecordPCs, RowPCs, SpendPCs
<1> QED BY <1>2, <1>3, <1>5

\* A row the purge takes away is listed.
LEMMA ConnectInv == ASSUME IInv, NEW t \in Tasks, Connect(t) PROVE IInv'
<1>1. /\ stub' = {} /\ local' = [n \in Notes |-> IF Broken(n) THEN NoRow ELSE local[n]]
      /\ UNCHANGED <<record, precom, held, server, landed, nullified, armed, exposed>>
  BY DEF Connect, backup, vault
<1>2. StoresOK' BY <1>1, NoRowType DEF IInv, StoresOK
<1>3. Grow BY <1>1 DEF Grow, Listed, Safe, Broken
<1>4. ASSUME NEW n \in Notes PROVE NoteInv(n)'
  <2>1. NoteInv(n) BY DEF IInv
  <2>2. CASE Broken(n)
    <3>1. local'[n] = NoRow /\ Listed(n) BY <1>1, <2>1, <2>2 DEF NoteInv, Broken
    <3>2. n \in armed \ nullified => OnServer(n)' BY <1>1, <3>1 DEF Listed, OnServer
    <3> QED BY <1>1, <2>1, <3>1, <3>2, NoRowType DEF NoteInv, HasRow, None
  <2>3. CASE ~ Broken(n)
    <3>1. local'[n] = local[n] BY <1>1, <2>3
    <3> QED BY <1>1, <2>1, <3>1 DEF NoteInv, HasRow, Listed, OnServer
  <2> QED BY <2>2, <2>3
<1>5. PICK got \in Answers(Unspent) :
        task' = [task EXCEPT ![t] = Job("connect", "hydrating", TRUE, got, got, None)]
  BY DEF Connect
<1>6. /\ task' \in [Tasks -> JobType] /\ \A u \in Tasks \ {t} : task'[u] = task[u]
      /\ TaskInv(t)'
  BY <1>3, <1>5, FetchFacts DEF Jobs
<1> QED BY <1>2, <1>3, <1>4, <1>6, Assemble

LEMMA FetchInv ==
  ASSUME IInv, NEW t \in Tasks, NEW job \in {"rehydrate", "spend"}, Fetch(t, job)
  PROVE  IInv'
<1>1. StoresOK' /\ Grow /\ \A n \in Notes : NoteInv(n)' BY OnlyTask DEF Fetch
<1>2. PICK got \in Answers(Unspent) :
        task' = [task EXCEPT ![t] = Job(job, "hydrating", TRUE, got, got, None)]
  BY DEF Fetch
<1>3. /\ task' \in [Tasks -> JobType] /\ \A u \in Tasks \ {t} : task'[u] = task[u]
      /\ TaskInv(t)'
  BY <1>1, <1>2, FetchFacts DEF Jobs
<1> QED BY <1>1, <1>3, Assemble

\* A row that is replaced is listed; a row the server drops is of a withdrawn note.
LEMMA HydrateInv ==
  ASSUME IInv, NEW t \in Tasks, NEW e \in task[t].keys, Hydrate(t, e)
  PROVE  IInv'
<1> DEFINE n == e[1]
<1>1. TaskInv(t) /\ At(t, "hydrating") /\ e \in Notes \X Rows /\ n \in Notes /\ Listed(n)
  BY DEF IInv, Hydrate, TaskInv, At, SpendPCs
<1>2. /\ task' \in [Tasks -> JobType] /\ \A u \in Tasks \ {t} : task'[u] = task[u]
      /\ task'[t].pc = "hydrating" /\ task'[t].keys = task[t].keys \ {e}
      /\ task'[t].got = task[t].got /\ task'[t].note = None
  BY TakeFacts DEF PCs, Hydrate
<1>3. /\ local' = local \/ local' = [local EXCEPT ![n] = Row("false", FALSE, FALSE)]
      /\ \/ n \in nullified /\ server' = [server EXCEPT ![n] = server[n] \ {e[2]}]
         \/ server' = server
      /\ UNCHANGED <<record, stub, precom, held, vault, armed, exposed>>
  BY <1>1 DEF Hydrate, IInv, NoteInv
<1> HIDE DEF n
<1>4. /\ local' \in [Notes -> [spent : {None, "false", "true"}, hash : BOOLEAN, pre : BOOLEAN]]
      /\ local'[n] = local[n] \/ local'[n] = Row("false", FALSE, FALSE)
      /\ \A o \in Notes \ {n} : local'[o] = local[o]
  <2>1. Row("false", FALSE, FALSE) \in
          [spent : {None, "false", "true"}, hash : BOOLEAN, pre : BOOLEAN]
    BY DEF Row
  <2>2. local \in [Notes -> [spent : {None, "false", "true"}, hash : BOOLEAN, pre : BOOLEAN]]
    BY DEF IInv, StoresOK
  <2>3. CASE local' = local BY <2>2, <2>3
  <2>4. CASE local' = [local EXCEPT ![n] = Row("false", FALSE, FALSE)]
    BY <1>1, <2>1, <2>2, <2>4
  <2> QED BY <1>3, <2>3, <2>4
<1>5. /\ \/ server' \in [Notes -> SUBSET Rows] /\ n \in nullified
         \/ server' = server
      /\ \A o \in Notes \ {n} : server'[o] = server[o]
  BY <1>1, <1>3 DEF IInv, StoresOK
<1>6. StoresOK' BY <1>3, <1>4, <1>5 DEF IInv, StoresOK, vault
<1>7. Listed(n)' BY <1>1, <1>3, <1>5 DEF Listed, vault
<1>8. Grow
  <2>1. ASSUME NEW o \in Notes PROVE (Listed(o) => Listed(o)') /\ (Safe(o) => Safe(o)')
    <3>1. CASE o = n BY <1>7, <3>1 DEF Safe, Listed
    <3>2. CASE o # n BY <1>3, <1>4, <1>5, <3>2 DEF Safe, Listed, vault
    <3> QED BY <3>1, <3>2
  <2> QED BY <1>3, <2>1 DEF Grow, vault
<1>9. ASSUME NEW o \in Notes PROVE NoteInv(o)'
  <2>1. NoteInv(o) BY DEF IInv
  <2>2. CASE o = n
    <3>1. n \in nullified' \/ OnServer(n)' BY <1>7 DEF Listed, OnServer
    <3>2. (local'[n].spent = "true") => n \in nullified'
      BY <1>3, <1>4, <2>1, <2>2 DEF NoteInv, Row, vault
    <3>3. record'[n] # None => n \in Outputs BY <1>3, <2>1, <2>2 DEF NoteInv
    <3>4. Listed(o)' BY <1>7, <2>2 DEF Listed
    <3>5. /\ precom'[o] = "pending" => o \in armed'
          /\ o \in held' => o \in armed' /\ precom'[o] # "pending"
      BY <1>3, <2>1 DEF NoteInv
    <3> QED BY <2>2, <3>1, <3>2, <3>3, <3>4, <3>5 DEF NoteInv, OnServer
  <2>3. CASE o # n
    <3>1. local'[o] = local[o] /\ server'[o] = server[o] BY <1>4, <1>5, <2>3
    <3> QED BY <1>3, <2>1, <3>1 DEF NoteInv, HasRow, Listed, OnServer, vault
  <2> QED BY <2>2, <2>3
<1>10. TaskInv(t)'
  <2>1. \A f \in task[t].keys \cup task[t].got : f \in Notes \X Rows /\ Listed(f[1])'
    BY <1>1, <1>8 DEF TaskInv, Grow, At, SpendPCs
  <2> QED BY <1>1, <1>2, <2>1 DEF TaskInv, At, NoNotePCs, RecordPCs, RowPCs, SpendPCs
<1> QED BY <1>2, <1>6, <1>8, <1>9, <1>10, Assemble

LEMMA EndLoopInv == ASSUME IInv, NEW t \in Tasks, EndLoop(t) PROVE IInv'
<1>1. TaskInv(t) /\ UNCHANGED <<store, backup, vault, armed, exposed>> BY DEF IInv, EndLoop
<1>2. CASE Done(t) BY <1>1, <1>2, DoneFacts, TaskStep
<1>3. CASE At(t, "hydrating") /\ Goto(t, "selecting")
  <2>1. /\ task' \in [Tasks -> JobType] /\ \A u \in Tasks \ {t} : task'[u] = task[u]
        /\ task'[t].pc = "selecting" /\ task'[t].keys = task[t].keys
        /\ task'[t].got = task[t].got /\ task'[t].note = task[t].note
    BY <1>3, GotoFacts DEF PCs
  <2>2. \A e \in task[t].keys \cup task[t].got : Listed(e[1])'
    BY <1>1, <1>3, OnlyTask DEF TaskInv, At, SpendPCs, Grow, Listed, backup, vault
  <2>3. TaskInv(t)'
    BY <1>1, <1>3, <2>1, <2>2 DEF TaskInv, At, NoNotePCs, RecordPCs, RowPCs, SpendPCs
  <2> QED BY <1>1, <2>1, <2>3, TaskStep
<1> QED BY <1>2, <1>3 DEF EndLoop

-------------------------------------------------------------------------------
(***************************************************************************)
(* Steps of a withdrawal                                                   *)
(***************************************************************************)
LEMMA SelectInv == ASSUME IInv, NEW t \in Tasks, NEW n \in Notes, Select(t, n) PROVE IInv'
<1>1. /\ TaskInv(t) /\ At(t, "selecting") /\ n \in landed /\ n # None
      /\ UNCHANGED <<store, backup, vault, armed, exposed>>
      /\ task' = [task EXCEPT ![t].pc = "sent", ![t].note = n]
      /\ task \in [Tasks -> JobType]
  BY NotesAssumption DEF IInv, Select
<1> DEFINE r == [task[t] EXCEPT !.pc = "sent", !.note = n]
<1>2. /\ r \in JobType /\ r.pc = "sent" /\ r.keys = task[t].keys /\ r.got = task[t].got
      /\ r.note = n /\ task' = [task EXCEPT ![t] = r]
  BY <1>1 DEF JobType, PCs
<1> HIDE DEF r
<1>3. task'[t] = r /\ task' \in [Tasks -> JobType] BY <1>1, <1>2
<1>4. n \in landed' /\ n \in armed' \cup OldNotes BY <1>1 DEF IInv, StoresOK, vault
<1>5. \A e \in task[t].keys \cup task[t].got : e \in Notes \X Rows /\ Listed(e[1])'
  BY <1>1, OnlyTask DEF TaskInv, At, SpendPCs, Grow, Listed, backup, vault
<1>6. TaskInv(t)'
  BY <1>1, <1>2, <1>3, <1>4, <1>5 DEF TaskInv, At, NoNotePCs, RecordPCs, RowPCs, SpendPCs
<1> QED BY <1>1, <1>2, <1>3, <1>6, TaskStep

LEMMA PassOverInv == ASSUME IInv, NEW t \in Tasks, NEW n \in Notes, PassOver(t, n) PROVE IInv'
<1>1. HasRow(n) BY NoRowType DEF PassOver, HasRow, None
<1>2. /\ n \in nullified /\ local' = [local EXCEPT ![n].spent = "true"] /\ task' = task
      /\ UNCHANGED <<record, stub, precom, held, server, vault, armed, exposed>>
  BY DEF PassOver, backup
<1>3. server' \in [Notes -> SUBSET Rows] BY <1>2 DEF IInv, StoresOK
<1>4. StoresOK' /\ Grow /\ \A o \in Notes : NoteInv(o)' BY <1>1, <1>2, <1>3, MarkInv
<1> QED BY <1>2, <1>4, AssembleNone

LEMMA DecideInv == ASSUME IInv, NEW t \in Tasks, Decide(t) PROVE IInv'
<1>1. /\ TaskInv(t) /\ At(t, "sent") /\ task[t].note \in landed
      /\ UNCHANGED <<record, local, stub, precom, held, server, landed, armed, exposed>>
  BY DEF IInv, TaskInv, At, Decide, store, backup
<1>2. CASE Done(t) /\ UNCHANGED nullified
  BY <1>1, <1>2, DoneFacts, TaskStep DEF store, backup, vault
<1>3. CASE Goto(t, "mined") /\ nullified' = nullified \cup {task[t].note}
  <2>1. /\ task' \in [Tasks -> JobType] /\ \A u \in Tasks \ {t} : task'[u] = task[u]
        /\ task'[t].pc = "mined" /\ task'[t].keys = task[t].keys
        /\ task'[t].got = task[t].got /\ task'[t].note = task[t].note
    BY <1>3, GotoFacts DEF PCs
  <2>2. StoresOK' BY <1>1, <1>3 DEF IInv, StoresOK
  <2>3. Grow BY <1>1, <1>3 DEF Grow, Listed, Safe
  <2>4. \A o \in Notes : NoteInv(o)'
    BY <1>1, <1>3 DEF IInv, NoteInv, HasRow, Listed, OnServer
  <2>5. \A e \in task[t].keys \cup task[t].got : e \in Notes \X Rows /\ Listed(e[1])'
    BY <1>1, <2>3 DEF TaskInv, At, SpendPCs, Grow
  <2>6. TaskInv(t)'
    BY <1>1, <1>3, <2>1, <2>5 DEF TaskInv, At, NoNotePCs, RecordPCs, RowPCs, SpendPCs
  <2> QED BY <2>1, <2>2, <2>3, <2>4, <2>6, Assemble
<1> QED BY <1>2, <1>3 DEF Decide

LEMMA ConfirmInv == ASSUME IInv, NEW t \in Tasks, Confirm(t) PROVE IInv'
<1> DEFINE n == task[t].note
<1>1. TaskInv(t) /\ n \in nullified /\ n \in Notes
  BY DEF IInv, StoresOK, TaskInv, At, Confirm, Notes
<1>2. /\ local' = local \/ (HasRow(n) /\ local' = [local EXCEPT ![n].spent = "true"])
      /\ server' = server \/ \E rows : server' = [server EXCEPT ![n] = server[n] \ rows]
      /\ UNCHANGED <<record, stub, precom, held, vault, armed, exposed>>
  BY DEF Confirm
<1>3. /\ task' \in [Tasks -> JobType] /\ \A u \in Tasks \ {t} : task'[u] = task[u]
      /\ TaskInv(t)'
  BY DoneFacts DEF Confirm
<1> HIDE DEF n
<1>4. server' \in [Notes -> SUBSET Rows] /\ \A o \in Notes \ {n} : server'[o] = server[o]
  BY <1>1, <1>2 DEF IInv, StoresOK
<1>5. CASE HasRow(n) /\ local' = [local EXCEPT ![n].spent = "true"]
  BY <1>1, <1>2, <1>3, <1>4, <1>5, MarkInv, Assemble
<1>6. CASE local' = local
  <2>1. StoresOK' BY <1>2, <1>4, <1>6 DEF IInv, StoresOK, vault
  <2>2. Grow BY <1>1, <1>2, <1>4, <1>6 DEF Grow, Listed, Safe, vault
  <2>3. ASSUME NEW o \in Notes PROVE NoteInv(o)'
    BY <1>1, <1>2, <1>4, <1>6 DEF IInv, NoteInv, HasRow, Listed, OnServer, vault
  <2> QED BY <1>3, <2>1, <2>2, <2>3, Assemble
<1> QED BY <1>2, <1>5, <1>6

-------------------------------------------------------------------------------
(***************************************************************************)
(* The specification                                                       *)
(***************************************************************************)
LEMMA DoneInv ==
  ASSUME IInv, NEW t \in Tasks, Done(t), UNCHANGED <<store, backup, vault, armed, exposed>>
  PROVE  IInv'
BY DoneFacts, TaskStep

LEMMA ResolveInv == ASSUME IInv, NEW t \in Tasks, Resolve(t) PROVE IInv'
<1>1. CASE WriteNote(t)
  BY <1>1, WriteInv DEF WriteNote
<1>2. CASE RewriteNote(t)
  BY <1>2, WriteInv DEF RewriteNote
<1>3. CASE Post(t, "written", "posted") \/ Post(t, "rewritten", "reposted")
  BY <1>3, PostInv
<1>4. CASE \E n \in task[t].keys : SeeLanded(t, n) \/ FindMissing(t, n)
  BY <1>4, SeeLandedInv, FindMissingInv
<1> QED
  BY <1>1, <1>2, <1>3, <1>4, WriteStubInv, ResolveFetchedInv, DropRecordInv, EndRecordsInv,
     ResolveMissingInv DEF Resolve

LEMMA SpendInv == ASSUME IInv, NEW t \in Tasks, Spend(t) PROVE IInv'
<1>1. CASE GiveUp(t) BY <1>1, DoneInv DEF GiveUp
<1> QED BY <1>1, DecideInv, ConfirmInv, SelectInv, PassOverInv DEF Spend

LEMMA StartInv == ASSUME IInv, NEW t \in Tasks, Start(t) PROVE IInv'
BY StartResolveInv, StartOldSyncInv, ConnectInv, FetchInv DEF Start

LEMMA NextInv == ASSUME IInv, [Next]_vars PROVE IInv'
<1>1. ASSUME NEW t \in Tasks, Load(t) PROVE IInv'
  BY <1>1, EndLoopInv, SyncOneInv, HydrateInv DEF Load
<1>2. ASSUME NEW t \in Tasks, CloseTab(t) PROVE IInv'
  BY <1>2, DoneInv DEF CloseTab
<1>3. ASSUME NEW t \in Tasks, Start(t) \/ Work(t) \/ CloseTab(t) PROVE IInv'
  BY <1>1, <1>2, <1>3, StartInv, ResolveInv, SpendInv DEF Work
<1>4. ASSUME NEW n \in Notes, Create(n) \/ Land(n) \/ Reconcile(n) \/ SpendElsewhere(n)
                                  \/ Claim(n) \/ EndClaim(n)
      PROVE IInv'
  BY <1>4, CreateInv, LandInv, ReconcileInv, SpendElsewhereInv, ClaimInv, EndClaimInv
<1> QED BY <1>3, <1>4, ClearSiteDataInv, StutterInv DEF Next

\* Every reachable state satisfies the invariant.
THEOREM Invariance == Spec => []IInv
<1>1. IInv /\ [Next]_vars => IInv' BY NextInv
<1> QED BY <1>1, InitInv, PTL DEF Spec

\* Stores and tasks keep their types whatever fails.
THEOREM TypeCorrect == Spec => []TypeOK
BY Invariance, TypesFollow, PTL

\* The secret of an output strategy's note is kept until it is withdrawn: no order of resolves,
\* syncs, connects and withdrawals of any number of tabs, with any requests lost and any tab
\* closed, leaves it nowhere, unless the wallet refused to sign when it was made, site data was
\* cleared before it was backed up, or a withdrawal took the pending row that alone kept it.
THEOREM SecretStays == Spec => []SecretKept
<1>1. IInv => SecretKept BY DEF IInv, StoresOK, NoteInv, SecretKept, KeptHere, Notes
<1> QED BY <1>1, Invariance, PTL
===============================================================================
