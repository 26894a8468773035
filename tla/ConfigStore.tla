----------------------------- MODULE ConfigStore -----------------------------
(***************************************************************************)
(* What the raft store promises its readers, and no more: a database that   *)
(* starts empty and changes only by whole log entries.  A batch in which a  *)
(* command is refused changes nothing (command.go, OpBatch).                *)
(***************************************************************************)
CONSTANTS Batches,            \* the log entries
          EmptyDb,            \* what a new store holds
          ApplyBatch(_, _)    \* the outcome of an entry: [ok, db]

VARIABLE db

Init == db = EmptyDb

Entry(batch) == ApplyBatch(db, batch).ok /\ db' = ApplyBatch(db, batch).db

Next == \E batch \in Batches : Entry(batch)

Spec == Init /\ [][Next]_db
=============================================================================
