------------------------------- MODULE OutputNotes -----------------------------
(***************************************************************************)
(* The notes a strategy's output is deposited under, from the record that  *)
(* keeps their secret to the row that spends them: createVaultOutputNote   *)
(* and resolvePendingOutputNotes (outputNoteResolver.ts), the sync of      *)
(* older server notes (syncWalletNotes.ts), the purge, the sync and the    *)
(* re-hydration of a wallet connect (localNoteStore.ts, nexus.ts), the     *)
(* hydration and selection of a withdrawal and the reconciled balance      *)
(* (zkHandler.ts), as tasks of the tabs of one device.                     *)
(*                                                                         *)
(* A local row is a status and two marks: whether it has a nullifier hash  *)
(* and whether it has a precommitment.  Secrets are those of the note: the *)
(* mismatched ones the repair is for are left out.                         *)
(***************************************************************************)
EXTENDS Naturals, FiniteSets

CONSTANTS
  Outputs,          \* notes made for outputs of strategies
  OldNotes,         \* notes of the older server store, on chain from the start
  Tasks,            \* asynchronous calls under way in the tabs, a job at a time each
  Rows,             \* ids of rows of a note in the commitments table (a bound)
  ServerMayFail,    \* may a request to the server fail?
  DataMayBeCleared  \* may the user clear the site data?

Notes == Outputs \cup OldNotes
None == "none"

ASSUME NotesAssumption == Outputs \cap OldNotes = {} /\ None \notin Notes
ASSUME FaultsAssumption == {ServerMayFail, DataMayBeCleared} \subseteq BOOLEAN

VARIABLES
  record,     \* record[n]: the pending record, with or without the encrypted secret
  precom,     \* precom[n]: the row of the precommitments table
  held,       \* outputs whose row a withdrawal took for its change and still has
  server,     \* server[n]: rows of the note in the commitments table that are unspent
  local,      \* local[n]: the row under the note's key
  stub,       \* notes with a row of metadata only, under the old key
  landed,     \* notes whose deposit is mined
  nullified,  \* notes withdrawn
  task,       \* task[t]: the job of task t and its locals
  armed,      \* outputs whose precommitment went to the executor
  exposed     \* history: notes whose secret nothing kept from the start; or that were not
              \* backed up, or being moved, when site data was cleared; or that only their
              \* pending row kept when a withdrawal took it

store == <<record, local, stub>>
backup == <<precom, held, server>>
vault == <<landed, nullified>>
vars == <<store, backup, vault, task, armed, exposed>>

-------------------------------------------------------------------------------
Row(spent, hash, pre) == [spent |-> spent, hash |-> hash, pre |-> pre]
NoRow == Row(None, FALSE, FALSE)
HasRow(n) == local[n] # NoRow

Jobs == {None, "resolve", "old", "connect", "rehydrate", "spend"}
PCs == {"idle", "first", "known", "bare", "written", "posted", "backedUp", "second", "found",
        "rewritten", "reposted", "syncing", "hydrating", "selecting", "sent", "mined"}

\* keys: what is still to go through; got: what a request returned.
Job(job, pc, signed, keys, got, note) ==
  [job |-> job, pc |-> pc, signed |-> signed, keys |-> keys, got |-> got, note |-> note]
NoJob == Job(None, "idle", FALSE, {}, {}, None)

At(t, pc) == task[t].pc = pc
Goto(t, pc) == task' = [task EXCEPT ![t].pc = pc]

\* Mutant of Done: the locals of the job are left.
Left(t) == Goto(t, "idle")

Done(t) == task' = [task EXCEPT ![t] = NoJob]

\* The loop pc takes up e: at next with note n, or goes on.
Take(t, e, next, n) == task' = [task EXCEPT ![t].keys = @ \ {e}, ![t].pc = next, ![t].note = n]

Init ==
  /\ record = [n \in Notes |-> None]
  /\ precom = [n \in Notes |-> None]
  /\ held = {}
  /\ server = [n \in Notes |-> {}]
  /\ local = [n \in Notes |-> NoRow]
  /\ stub = {} /\ landed = OldNotes /\ nullified = {}
  /\ task = [t \in Tasks |-> NoJob]
  /\ armed = {} /\ exposed = {}

-------------------------------------------------------------------------------
(***************************************************************************)
(* createVaultOutputNote                                                   *)
(***************************************************************************)

\* The record is written, with the encrypted secret if the wallet signs, and the row is
\* posted, three times at most; a wallet that refused is asked again for it.  The caller
\* goes on whatever became of them.
Create(n) ==
  /\ n \in Outputs \ armed
  /\ \E enc \in {"enc", "bare"} :
       /\ record' = [record EXCEPT ![n] = enc]
       /\ \/ precom' = [precom EXCEPT ![n] = "pending"] /\ UNCHANGED exposed
          \/ /\ enc = "bare" \/ ServerMayFail
             /\ exposed' = IF enc = "bare" THEN exposed \cup {n} ELSE exposed
             /\ UNCHANGED precom
  /\ armed' = armed \cup {n}
  /\ UNCHANGED <<local, stub, held, server, vault, task>>

\* The executor swaps and deposits the output.
Land(n) ==
  /\ n \in armed \ landed
  /\ landed' = landed \cup {n}
  /\ UNCHANGED <<store, backup, nullified, task, armed, exposed>>

-------------------------------------------------------------------------------
(***************************************************************************)
(* resolvePendingOutputNotes                                               *)
(***************************************************************************)
Records == {n \in Notes : record[n] # None}
Pending == {n \in Notes : precom[n] = "pending"}

\* What a request for the set all returns.
Answers(all) == IF ServerMayFail THEN {all, {}} ELSE {all}

\* The records are listed; with a signer the pending rows are fetched once.
StartResolve(t, signed) ==
  /\ At(t, "idle") /\ (signed \/ Records # {})
  /\ \E got \in IF signed THEN Answers(Pending) ELSE {{}} :
       task' = [task EXCEPT ![t] = Job("resolve", "first", signed, Records, got, None)]
  /\ UNCHANGED <<store, backup, vault, armed, exposed>>

\* A record is read.  If its deposit has landed, the note's secret is that of the fetched
\* row or of the record, and without a signer it is not known.
SeeLanded(t, n) ==
  LET known == task[t].signed /\ (n \in task[t].got \/ record[n] = "enc") IN
  /\ At(t, "first") /\ n \in task[t].keys
  /\ IF record[n] # None /\ n \in landed
     THEN Take(t, n, IF known THEN "known" ELSE "bare", n)
     ELSE Take(t, n, "first", None)
  /\ UNCHANGED <<store, backup, vault, armed, exposed>>

\* A known secret is written as spendable, whatever the row says now ...
WriteNote(t) ==
  /\ At(t, "known")
  /\ local' = [local EXCEPT ![task[t].note] = Row("false", TRUE, TRUE)]
  /\ Goto(t, "written")
  /\ UNCHANGED <<record, stub, backup, vault, armed, exposed>>

\* Mutant of Seen: a record whose deposit was seen is dropped.
SeenDropped(n) == [record EXCEPT ![n] = None]

\* A record is kept until its note is written.
Seen(n) == record

\* ... without it a row of metadata is written under the old key.
WriteStub(t) ==
  /\ At(t, "bare")
  /\ stub' = stub \cup {task[t].note}
  /\ record' = Seen(task[t].note)
  /\ task' = [task EXCEPT ![t].pc = "first", ![t].note = None]
  /\ UNCHANGED <<local, backup, vault, armed, exposed>>

\* The note is posted under a new id; a failure is only logged.
Post(t, from, to) ==
  LET n == task[t].note IN
  /\ At(t, from)
  /\ \/ \E r \in Rows \ server[n] : server' = [server EXCEPT ![n] = @ \cup {r}]
     \/ (ServerMayFail \/ server[n] = Rows) /\ UNCHANGED server
  /\ Goto(t, to)
  /\ UNCHANGED <<store, precom, held, vault, armed, exposed>>

\* The pending row that was fetched is resolved; a failure is ignored.
ResolveRow(n) ==
  \/ precom' = [precom EXCEPT ![n] = "resolved"]
  \/ ServerMayFail /\ UNCHANGED precom

ResolveFetched(t) ==
  LET n == task[t].note IN
  /\ At(t, "posted")
  /\ IF n \in task[t].got THEN ResolveRow(n) ELSE UNCHANGED precom
  /\ Goto(t, "backedUp")
  /\ UNCHANGED <<store, held, server, vault, armed, exposed>>

\* The record of a note that is fully resolved is dropped.
DropRecord(t) ==
  /\ At(t, "backedUp")
  /\ record' = [record EXCEPT ![task[t].note] = None]
  /\ task' = [task EXCEPT ![t].pc = "first", ![t].note = None]
  /\ UNCHANGED <<local, stub, backup, vault, armed, exposed>>

\* Mutant of AfterRecords: only notes with a record are recovered.
NothingAfter(t) == {}

\* After the records a signed pass goes through the rows it fetched.
AfterRecords(t) == task[t].got

EndRecords(t) ==
  /\ At(t, "first") /\ task[t].keys = {}
  /\ IF AfterRecords(t) = {} THEN Done(t)
     ELSE task' = [task EXCEPT ![t].pc = "second", ![t].keys = AfterRecords(t)]
  /\ UNCHANGED <<store, backup, vault, armed, exposed>>

\* A fetched row: its deposit has landed, and no readable row of the note is there.
FindMissing(t, n) ==
  /\ At(t, "second") /\ n \in task[t].keys
  /\ IF n \in landed /\ ~ HasRow(n) THEN Take(t, n, "found", n) ELSE Take(t, n, "second", None)
  /\ UNCHANGED <<store, backup, vault, armed, exposed>>

\* It is written from the fetched row, without a nullifier hash, and posted.
RewriteNote(t) ==
  /\ At(t, "found")
  /\ local' = [local EXCEPT ![task[t].note] = Row("false", FALSE, TRUE)]
  /\ Goto(t, "rewritten")
  /\ UNCHANGED <<record, stub, backup, vault, armed, exposed>>

ResolveMissing(t) ==
  /\ At(t, "reposted")
  /\ ResolveRow(task[t].note)
  /\ task' = [task EXCEPT ![t].pc = "second", ![t].note = None]
  /\ UNCHANGED <<store, held, server, vault, armed, exposed>>

-------------------------------------------------------------------------------
(***************************************************************************)
(* syncWalletNotesFromServer                                               *)
(***************************************************************************)

\* The notes of the older store are fetched.  Nothing marks them as spent there.
StartOldSync(t) ==
  /\ At(t, "idle") /\ OldNotes # {}
  /\ task' = [task EXCEPT ![t] = Job("old", "syncing", TRUE, OldNotes, {}, None)]
  /\ UNCHANGED <<store, backup, vault, armed, exposed>>

\* Each is written as spendable over any row there is.
SyncOne(t, n) ==
  /\ At(t, "syncing") /\ n \in task[t].keys
  /\ local' = [local EXCEPT ![n] = Row("false", TRUE, FALSE)]
  /\ Take(t, n, "syncing", None)
  /\ UNCHANGED <<record, stub, backup, vault, armed, exposed>>

-------------------------------------------------------------------------------
(***************************************************************************)
(* A wallet connects, or a withdrawal begins                               *)
(***************************************************************************)
Unspent == UNION {{n} \X server[n] : n \in Notes}

\* A row with neither a hash nor a precommitment is taken for one of an older build.
Broken(n) == HasRow(n) /\ ~ local[n].hash /\ ~ local[n].pre

\* recoverPendingHints purges metadata and broken rows, and fetches the server's rows.
Connect(t) ==
  /\ At(t, "idle")
  /\ stub' = {}
  /\ local' = [n \in Notes |-> IF Broken(n) THEN NoRow ELSE local[n]]
  /\ \E got \in Answers(Unspent) :
       task' = [task EXCEPT ![t] = Job("connect", "hydrating", TRUE, got, got, None)]
  /\ UNCHANGED <<record, backup, vault, armed, exposed>>

\* initializeWithProvider fetches them beside it, and generateZKData at a withdrawal.
Fetch(t, job) ==
  /\ At(t, "idle")
  /\ \E got \in Answers(Unspent) :
       task' = [task EXCEPT ![t] = Job(job, "hydrating", TRUE, got, got, None)]
  /\ UNCHANGED <<store, backup, vault, armed, exposed>>

\* A fetched row is written, without hash and precommitment, where the job finds no row
\* of the note: a connect takes metadata for one, the re-hydration looks for it under the
\* old key.
Finds(job, n) ==
  \/ job \in {"connect", "spend"} /\ HasRow(n)
  \/ job = "connect" /\ n \in stub

\* A connect reports a row that is spent here.
Hydrate(t, e) ==
  LET n == e[1] IN
  /\ At(t, "hydrating") /\ e \in task[t].keys
  /\ Take(t, e, "hydrating", None)
  /\ local' = IF Finds(task[t].job, n) THEN local
              ELSE [local EXCEPT ![n] = Row("false", FALSE, FALSE)]
  /\ \/ /\ task[t].job = "connect" /\ local[n].spent = "true"
        /\ server' = [server EXCEPT ![n] = @ \ {e[2]}]
     \/ /\ task[t].job = "connect" /\ local[n].spent = "true" => ServerMayFail
        /\ UNCHANGED server
  /\ UNCHANGED <<record, stub, precom, held, vault, armed, exposed>>

EndLoop(t) ==
  /\ task[t].keys = {}
  /\ \/ At(t, "hydrating") /\ task[t].job = "spend" /\ Goto(t, "selecting")
     \/ At(t, "hydrating") /\ task[t].job # "spend" /\ Done(t)
     \/ (At(t, "second") \/ At(t, "syncing")) /\ Done(t)
  /\ UNCHANGED <<store, backup, vault, armed, exposed>>

-------------------------------------------------------------------------------
(***************************************************************************)
(* claimFromPool, by the generateZKData of any withdrawal or strategy of   *)
(* the wallet, on this device or another.  It takes any pending row for    *)
(* the secrets of its change, also that of an output.                      *)
(***************************************************************************)
KeptHere(n) == record[n] = "enc" \/ HasRow(n)

\* The answer of the request may be lost, and nobody gives the row back.
Claim(n) ==
  /\ precom[n] = "pending"
  /\ precom' = [precom EXCEPT ![n] = "in_use"]
  /\ held' = held \cup {n} \/ (ServerMayFail /\ UNCHANGED held)
  /\ exposed' = IF KeptHere(n) \/ server[n] # {} THEN exposed ELSE exposed \cup {n}
  /\ UNCHANGED <<store, server, vault, task, armed>>

\* The withdrawal is mined and resolves the row, or fails and releases it, whatever its
\* status is by then; the answer is not looked at.  Or the proof fails or the tab closes.
EndClaim(n) ==
  /\ n \in held
  /\ held' = held \ {n}
  /\ \/ \E s \in {"resolved", "pending"} : precom' = [precom EXCEPT ![n] = s]
     \/ UNCHANGED precom
  /\ UNCHANGED <<store, server, vault, task, armed, exposed>>

-------------------------------------------------------------------------------
\* The withdrawal takes a note of the tree that is not marked.  A lookup of its nullifier
\* that fails counts as unspent ...
Select(t, n) ==
  /\ At(t, "selecting") /\ local[n].spent = "false"
  /\ n \in landed /\ (n \in nullified => ServerMayFail)
  /\ task' = [task EXCEPT ![t].pc = "sent", ![t].note = n]
  /\ UNCHANGED <<store, backup, vault, armed, exposed>>

\* ... and marks one that it finds to be withdrawn.
PassOver(t, n) ==
  /\ At(t, "selecting") /\ local[n].spent = "false"
  /\ n \in nullified
  /\ local' = [local EXCEPT ![n].spent = "true"]
  /\ UNCHANGED <<record, stub, backup, vault, task, armed, exposed>>

\* There is nothing to select, or the user refuses.
GiveUp(t) ==
  /\ At(t, "selecting")
  /\ Done(t)
  /\ UNCHANGED <<store, backup, vault, armed, exposed>>

\* The transaction is mined, or reverts because the note was withdrawn by another.
Decide(t) ==
  /\ At(t, "sent")
  /\ IF task[t].note \in nullified
     THEN Done(t) /\ UNCHANGED nullified
     ELSE Goto(t, "mined") /\ nullified' = nullified \cup {task[t].note}
  /\ UNCHANGED <<store, backup, landed, armed, exposed>>

\* The rows a withdrawal of task t reports: the one whose id it fetched, of several the
\* last, or else all of its note.
Reported(t) ==
  LET n == task[t].note
      fetched == {r \in Rows : <<n, r>> \in task[t].got}
  IN IF fetched = {} THEN {server[n]} ELSE {{r} : r \in fetched}

\* The receipt: the row is marked, and the server is told.
Confirm(t) ==
  LET n == task[t].note IN
  /\ At(t, "mined")
  /\ local' = IF HasRow(n) THEN [local EXCEPT ![n].spent = "true"] ELSE local
  /\ \/ \E rows \in Reported(t) : server' = [server EXCEPT ![n] = @ \ rows]
     \/ ServerMayFail /\ UNCHANGED server
  /\ Done(t)
  /\ UNCHANGED <<record, stub, precom, held, vault, armed, exposed>>

-------------------------------------------------------------------------------
\* The balance counts the notes of the tree that have a row not marked ...
Counted(n) == n \in landed /\ local[n].spent = "false"

\* ... and looks up the nullifiers it has a hash for.
Checked(n) == local[n].hash

\* getSpendableVaultBalance marks the notes it finds withdrawn.
Reconcile(n) ==
  /\ Counted(n) /\ Checked(n) /\ n \in nullified
  /\ local' = [local EXCEPT ![n].spent = "true"]
  /\ UNCHANGED <<record, stub, backup, vault, task, armed, exposed>>

\* Another device of the wallet withdraws a note whose secret the server has.
OnServer(n) == server[n] # {} \/ precom[n] = "pending" \/ n \in OldNotes
SpendElsewhere(n) ==
  /\ n \in landed \ nullified /\ OnServer(n)
  /\ nullified' = nullified \cup {n}
  /\ \E rows \in SUBSET server[n] : server' = [server EXCEPT ![n] = rows]
  /\ UNCHANGED <<store, precom, held, landed, task, armed, exposed>>

CloseTab(t) ==
  /\ ~ At(t, "idle")
  /\ Done(t)
  /\ UNCHANGED <<store, backup, vault, armed, exposed>>

ClearSiteData ==
  /\ DataMayBeCleared
  /\ record' = [n \in Notes |-> None] /\ local' = [n \in Notes |-> NoRow] /\ stub' = {}
  /\ exposed' = exposed \cup {n \in armed : ~ OnServer(n) \/ \E t \in Tasks : task[t].note = n}
  /\ UNCHANGED <<backup, vault, task, armed>>

-------------------------------------------------------------------------------
Resolve(t) ==
  \/ \E n \in task[t].keys : SeeLanded(t, n) \/ FindMissing(t, n)
  \/ WriteNote(t) \/ WriteStub(t) \/ Post(t, "written", "posted") \/ ResolveFetched(t)
  \/ DropRecord(t) \/ EndRecords(t)
  \/ RewriteNote(t) \/ Post(t, "rewritten", "reposted") \/ ResolveMissing(t)

Load(t) == EndLoop(t) \/ \E e \in task[t].keys : SyncOne(t, e) \/ Hydrate(t, e)

Spend(t) ==
  \/ GiveUp(t) \/ Decide(t) \/ Confirm(t)
  \/ \E n \in Notes : Select(t, n) \/ PassOver(t, n)

Work(t) == Resolve(t) \/ Load(t) \/ Spend(t)

Start(t) ==
  \/ \E signed \in BOOLEAN : StartResolve(t, signed)
  \/ StartOldSync(t) \/ Connect(t) \/ Fetch(t, "rehydrate") \/ Fetch(t, "spend")

Next ==
  \/ \E t \in Tasks : Start(t) \/ Work(t) \/ CloseTab(t)
  \/ \E n \in Notes : Create(n) \/ Land(n) \/ Reconcile(n) \/ SpendElsewhere(n)
                      \/ Claim(n) \/ EndClaim(n)
  \/ ClearSiteData

Spec == Init /\ [][Next]_vars

\* Calls run on, and the user comes back to connect, which runs a signed pass.
Fairness ==
  /\ \A t \in Tasks : WF_vars(Work(t))
  /\ SF_vars(\E t \in Tasks : StartResolve(t, TRUE))

FairSpec == Spec /\ Fairness

-------------------------------------------------------------------------------
(***************************************************************************)
(* Properties                                                              *)
(***************************************************************************)
TypeOK ==
  /\ record \in [Notes -> {None, "bare", "enc"}]
  /\ precom \in [Notes -> {None, "pending", "in_use", "resolved"}]
  /\ held \subseteq Outputs
  /\ server \in [Notes -> SUBSET Rows]
  /\ local \in [Notes -> [spent : {None, "false", "true"}, hash : BOOLEAN, pre : BOOLEAN]]
  /\ stub \subseteq Outputs /\ armed \subseteq Outputs /\ exposed \subseteq Outputs
  /\ landed \subseteq Notes /\ nullified \subseteq landed
  /\ DOMAIN task = Tasks
  /\ \A t \in Tasks :
       /\ task[t].job \in Jobs /\ task[t].pc \in PCs /\ task[t].signed \in BOOLEAN
       /\ task[t].keys \cup task[t].got \subseteq Notes \cup (Notes \X Rows)
       /\ task[t].note \in Notes \cup {None}
       /\ task[t].note = None <=>
            task[t].pc \in {"idle", "first", "second", "syncing", "hydrating", "selecting"}

\* The secret of an output is never lost ("rec.enc is the only local copy of the secret, and a
\* later signed pass / repair needs it", outputNoteResolver.ts:257): until it is withdrawn it
\* is in the record, in the note's row, or where a signed pass or a connect fetches it, unless
\* the wallet refused to sign when it was made, site data was cleared before it was backed up
\* or while it was being moved, or a withdrawal took the pending row that alone kept it.
SecretKept ==
  \A n \in armed \ (nullified \cup exposed) :
    KeptHere(n) \/ OnServer(n)

\* Requests are answered, tabs stay open and site data is kept, from some time on.  (The
\* last step of a job leaves what a tab closed then would.)
Fails == ClearSiteData \/ \E t \in Tasks :
           \/ CloseTab(t) /\ ~ Work(t)
           \/ At(t, "idle") /\ task'[t].job = "resolve" /\ task'[t].signed /\ task'[t].got # Pending
Calm == <>[][~ Fails]_vars

\* Once calm, an output that landed becomes spendable, also when its record is gone and only
\* the server has its secret (outputNoteResolver.ts:271): it gets a row, here or at the server.
OutputsBecomeSpendable ==
  Calm => \A n \in Outputs :
    (n \in landed /\ (record[n] = "enc" \/ precom[n] = "pending"))
      ~> (HasRow(n) \/ server[n] # {} \/ n \in nullified \cup exposed)
===============================================================================
