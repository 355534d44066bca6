---------------------------- MODULE ShieldedLedger ----------------------------
(***************************************************************************)
(* What the wallet and the vault promise together, with no wallet in it: a *)
(* set of notes, each worth its amount, spent whole and at most once, with *)
(* the rest of a payment coming back as one new note.                      *)
(***************************************************************************)
EXTENDS Naturals, FiniteSetsExt

CONSTANT Amounts

VARIABLES
  leaves,   \* the notes of the vault
  spent,    \* the secrets of the notes that were spent
  paid      \* what each spend paid, with the secret of the note it added

Worth(N) == SumFunction([n \in N |-> n.amount])
Unused(s) == \A n \in leaves : n.secret # s

Init == leaves = {} /\ spent = {} /\ paid = {}

\* A deposit adds a note that no other leaf can burn.
Mint(n) ==
  /\ Unused(n.secret) /\ n.amount \in Amounts
  /\ leaves' = leaves \cup {n}
  /\ UNCHANGED <<spent, paid>>

\* A withdrawal of a spends the notes of N, each once, pays a, and adds what is left.
Spend(N, a, n) ==
  /\ N # {} /\ \A m \in N : m.secret \notin spent
  /\ \A m, l \in N : m.secret = l.secret => m = l
  /\ Unused(n.secret)
  /\ Worth(N) >= a /\ n.amount = Worth(N) - a
  /\ leaves' = leaves \cup {n}
  /\ spent' = spent \cup {m.secret : m \in N}
  /\ paid' = paid \cup {<<n.secret, a>>}

Next ==
  \E n \in leaves' \ leaves :
    Mint(n) \/ \E N \in SUBSET leaves, a \in Amounts : Spend(N, a, n)

Spec == Init /\ [][Next]_<<leaves, spent, paid>>
===============================================================================
