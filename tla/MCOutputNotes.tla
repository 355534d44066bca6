----------------------------- MODULE MCOutputNotes ----------------------------
(***************************************************************************)
(* Instances of OutputNotes for TLC.                                       *)
(***************************************************************************)
EXTENDS OutputNotes

\* No step relates two notes, so the two kinds of notes are explored one at a time.
OneKind ==
  armed # {} =>
    /\ \A n \in OldNotes : ~ HasRow(n) /\ n \notin nullified
    /\ \A t \in Tasks : task[t].job # "old"
===============================================================================
