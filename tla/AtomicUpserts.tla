----------------------------- MODULE AtomicUpserts -----------------------------
(***************************************************************************)
(* What upsert (db.py) promises to its callers: the rows of a call appear  *)
(* in the table all at once or, if the call raises, not at all; of rows    *)
(* with the same key the last one in the batch is kept; and calls from     *)
(* different connections take effect one after the other.                  *)
(*                                                                         *)
(* The other modules take an upsert to be one such step.                   *)
(***************************************************************************)
EXTENDS Integers, Sequences

CONSTANTS
  Sessions,  \* the connections that write the table
  Keys,      \* the conflict keys of its rows, numbered in the order of the key
  Values     \* what a row may hold beside its key

ASSUME RowsAssumption == Keys \subseteq Nat /\ Values \subseteq Nat \ {0}

Row == [key : Keys, value : Values]

VARIABLES
  table,  \* the table, as committed: a function on the keys; Missing: no row
  batch   \* batch[s]: the rows session s is upserting; <<>> if it is not

atomicVars == <<table, batch>>

Missing == 0

\* i is the last of the rows idx of b that has key k.
IsLastOf(i, b, idx, k) ==
  /\ i \in idx /\ b[i].key = k
  /\ \A j \in idx : b[j].key = k => j <= i

\* The table t with the rows idx of b merged into it, in their order.
Merged(t, b, idx) ==
  [k \in Keys |-> IF \E i \in idx : b[i].key = k
                  THEN b[CHOOSE i \in idx : IsLastOf(i, b, idx, k)].value
                  ELSE t[k]]

AtomicInit ==
  /\ table \in [Keys -> Values \cup {Missing}]
  /\ batch = [s \in Sessions |-> <<>>]

\* upsert(conn, table, rows, conflict_cols) with at least one row.
Call(s, b) ==
  /\ batch[s] = <<>>
  /\ b \in Seq(Row) /\ b # <<>>
  /\ batch' = [batch EXCEPT ![s] = b]
  /\ UNCHANGED table

Apply(s) ==
  /\ batch[s] # <<>>
  /\ table' = Merged(table, batch[s], DOMAIN batch[s])
  /\ batch' = [batch EXCEPT ![s] = <<>>]

Raise(s) ==
  /\ batch[s] # <<>>
  /\ batch' = [batch EXCEPT ![s] = <<>>]
  /\ UNCHANGED table

AtomicNext ==
  \E s \in Sessions : Call(s, batch'[s]) \/ Apply(s) \/ Raise(s)

AtomicSpec == AtomicInit /\ [][AtomicNext]_atomicVars
=============================================================================
