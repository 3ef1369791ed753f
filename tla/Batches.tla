------------------------------- MODULE Batches -------------------------------
(***************************************************************************)
(* What a fetch returns and what an upsert does with it.  A record is      *)
(* identified by its conflict key; its payload is the number of the        *)
(* revision the feed had published when it was read, and 0 stands for "no  *)
(* such record".  A batch and a table are both functions from the keys to  *)
(* revisions, so that merging one into the other is one expression.        *)
(***************************************************************************)
EXTENDS Integers

CONSTANTS
  Keys,        \* the conflict keys of one dataset's table
  TimeOf,      \* TimeOf[k]: the value of the watermark column of record k
  MaxVersion   \* bound: revisions of one record the feed publishes

ASSUME TimeOfAssumption == TimeOf \in [Keys -> Nat \ {0}]
ASSUME MaxVersionAssumption == MaxVersion \in Nat

Version == 0 .. MaxVersion

\* The records a batch really holds: the `rows` of the code.
Present(batch) == {k \in Keys : batch[k] > 0}

\* INSERT .. ON CONFLICT DO UPDATE: the batch wins wherever it has a record.
Merge(table, batch) ==
  [k \in Keys |-> IF k \in Present(batch) THEN batch[k] ELSE table[k]]

\* k carries max(r[watermark_col] for r in rows).
IsLatest(k, held) == k \in held /\ \A l \in held : TimeOf[l] <= TimeOf[k]
=============================================================================
