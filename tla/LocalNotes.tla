------------------------------ MODULE LocalNotes ------------------------------
(***************************************************************************)
(* The browser's note rows (src/src/lib/localNoteStore.ts), as values: a   *)
(* store is a function from the notes that have a row to the row's spent   *)
(* flag.  A note is the pair of its secret material and its amount; its    *)
(* commitment Poseidon(amount, Poseidon(nullifier, secret)), which names   *)
(* the row in localStorage, is a function of that pair and is taken to be  *)
(* injective, so the note itself is the key.                               *)
(***************************************************************************)

\* The three values of a row's spent flag: spendable, in flight, gone.
Status == {"false", "pending", "true"}

\* A store in which no note has a row.
EmptyStore == [n \in {} |-> "false"]

\* A store maps each of its notes to a status.
IsStore(store) ==
  /\ store = [n \in DOMAIN store |-> store[n]]
  /\ \A n \in DOMAIN store : store[n] \in Status

\* writeNoteTyped: writes the whole row, whatever was there before.
Put(store, n, s) ==
  [m \in DOMAIN store \cup {n} |-> IF m = n THEN s ELSE store[m]]

\* A write of one status for each note of a set.
PutAll(store, N, s) ==
  [m \in DOMAIN store \cup N |-> IF m \in N THEN s ELSE store[m]]

\* markNoteSpentTyped and markNoteSpentByKey: a note without a row is left alone.
MarkAll(store, N, s) ==
  [m \in DOMAIN store |-> IF m \in N THEN s ELSE store[m]]

Mark(store, n, s) == MarkAll(store, {n}, s)

\* A row with a given status exists.
HasStatus(store, n, s) == n \in DOMAIN store /\ store[n] = s
===============================================================================
