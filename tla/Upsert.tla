-------------------------------- MODULE Upsert --------------------------------
(***************************************************************************)
(* upsert (db.py), row by row.  A batch of fewer than CopyMinRows rows is  *)
(* written by one INSERT after the other, in its own order; a longer one   *)
(* is copied into a staging table of the session and merged by one INSERT  *)
(* .. SELECT DISTINCT ON, which takes the last row of each key in the      *)
(* order of the keys, under conn.transaction().  The connection is in      *)
(* autocommit mode (connect), so that for the INSERTs it is executemany    *)
(* that makes them one transaction: psycopg sends them in one pipeline,    *)
(* and PostgreSQL runs what comes before the pipeline's Sync as one.       *)
(*                                                                         *)
(* A row is written in place, seen by nobody else yet, and stays locked    *)
(* until the transaction ends; a session that finds a row locked waits;    *)
(* and the database ends one of the sessions that wait for each other.     *)
(* What a session has locked are the rows it has done, so that there is no *)
(* state for locks.  The staging table is seen by its session alone, so    *)
(* that filling it is no step.                                             *)
(***************************************************************************)
EXTENDS AtomicUpserts

CONSTANT
  CopyMinRows  \* COPY_MIN_ROWS

ASSUME CopyMinRowsAssumption == CopyMinRows \in Nat

VARIABLES
  done,    \* done[s]: the rows of its batch that session s has written
  pending  \* pending[k]: what row k was last written, by a transaction that has
           \* not ended; Missing if there is none

upsertVars == <<table, batch, done, pending>>

UpsertInit ==
  /\ AtomicInit
  /\ done = [s \in Sessions |-> {}]
  /\ pending = [k \in Keys |-> Missing]

ByCopy(b) == Len(b) >= CopyMinRows

\* Mutant: the staged rows are not collapsed by key.
KeptAll(b) == DOMAIN b

\* Mutant: ORDER BY .. _ord without DESC keeps the first of each key.
KeptFirst(b) ==
  {i \in DOMAIN b : ByCopy(b) => \A j \in DOMAIN b : b[j].key = b[i].key => i <= j}

\* The rows that are written: all, or by COPY the last of each key.
Kept(b) ==
  {i \in DOMAIN b : ByCopy(b) => IsLastOf(i, b, DOMAIN b, b[i].key)}

\* Mutant: the merge takes the staged rows as they came.
BeforeUnsorted(i, j, b) == i < j

\* Row i is written before row j: in the order of the batch, or by COPY in that
\* of ORDER BY (the keys, _ord DESC).
Before(i, j, b) ==
  IF ByCopy(b) THEN b[i].key < b[j].key \/ (b[i].key = b[j].key /\ j < i)
               ELSE i < j

\* Row i is the next one session s has to write.
IsNext(i, s) ==
  LET left == Kept(batch[s]) \ done[s]
  IN i \in left /\ \A j \in left : j = i \/ Before(i, j, batch[s])

Holds(s, k) == \E i \in done[s] : batch[s][i].key = k

\* Session s has to wait until session t has ended.
WaitsFor(s, t) ==
  \E i \in DOMAIN batch[s] : t # s /\ IsNext(i, s) /\ Holds(t, batch[s][i].key)

(* The sessions of C wait for each other in a ring.                        *)
IsCycle(C) ==
  \A s \in C : (\E t \in C : WaitsFor(s, t)) /\ (\E t \in C : WaitsFor(t, s))

-----------------------------------------------------------------------------
UpsertCall(s, b) ==
  /\ Call(s, b)
  /\ UNCHANGED <<done, pending>>

\* Row i of its batch is the next one session s writes, if it need not wait.
MayWrite(s, i) ==
  /\ IsNext(i, s)
  /\ \A t \in Sessions : ~WaitsFor(s, t)
  /\ ByCopy(batch[s]) => ~Holds(s, batch[s][i].key)

\* Mutant: every row is committed by itself.
WriteRowAlone(s) ==
  \E i \in DOMAIN batch[s] :
    /\ MayWrite(s, i)
    /\ done' = [done EXCEPT ![s] = @ \cup {i}]
    /\ pending' = [pending EXCEPT ![batch[s][i].key] = batch[s][i].value]
    /\ table' = [table EXCEPT ![batch[s][i].key] = batch[s][i].value]
    /\ UNCHANGED batch

\* One row: INSERT .. ON CONFLICT DO UPDATE.
WriteRow(s) ==
  \E i \in DOMAIN batch[s] :
    /\ MayWrite(s, i)
    /\ done' = [done EXCEPT ![s] = @ \cup {i}]
    /\ pending' = [pending EXCEPT ![batch[s][i].key] = batch[s][i].value]
    /\ UNCHANGED <<table, batch>>

\* The transaction of session s ends, and with it its locks.
Release(s) ==
  /\ done' = [done EXCEPT ![s] = {}]
  /\ pending' = [k \in Keys |-> IF Holds(s, k) THEN Missing ELSE pending[k]]

\* What was written to the rows it has locked becomes visible.
Commit(s) ==
  /\ batch[s] # <<>>
  /\ done[s] = Kept(batch[s])
  /\ table' = [k \in Keys |-> IF Holds(s, k) THEN pending[k] ELSE table[k]]
  /\ batch' = [batch EXCEPT ![s] = <<>>]
  /\ Release(s)

RollBack(s) ==
  /\ Raise(s)
  /\ Release(s)

\* "ON CONFLICT DO UPDATE command cannot affect row a second time"
SecondTime(s) ==
  /\ ByCopy(batch[s])
  /\ \E i \in DOMAIN batch[s] : IsNext(i, s) /\ Holds(s, batch[s][i].key)
  /\ RollBack(s)

\* "deadlock detected"
Deadlocked(s) ==
  /\ \E C \in SUBSET Sessions : s \in C /\ IsCycle(C)
  /\ RollBack(s)

-----------------------------------------------------------------------------
(* Types: a session has only written rows of its batch that are to be      *)
(* written.                                                                *)
UpsertTypeOK ==
  /\ table \in [Keys -> Values \cup {Missing}]
  /\ batch \in [Sessions -> Seq(Row)]
  /\ done \in [Sessions -> SUBSET Nat]
  /\ pending \in [Keys -> Values \cup {Missing}]
  /\ \A s \in Sessions : done[s] \subseteq Kept(batch[s])

(* Whatever path each call takes, and however their rows interleave, the   *)
(* calls have the effect of atomic ones: the rows become visible together, *)
(* each as the last row of its key in the batch has it, and none as        *)
(* another session wrote it meanwhile (the test "The two paths must be     *)
(* behaviourally interchangeable").                                        *)
ImplementsAtomicUpserts == AtomicSpec

(* Two COPY merges never end each other, as both take their rows in the    *)
(* order of the key: in a deadlock there is a session writing row by row.  *)
CopiesNeverDeadlock ==
  \A C \in SUBSET Sessions :
    C # {} /\ IsCycle(C) => \E s \in C : ~ByCopy(batch[s])

(* The merge of a staged batch never touches a row twice, though a batch   *)
(* may name it twice ("MELS and BOALF both carry revisions that hit this").*)
NeverASecondTime == [][\A s \in Sessions : ~SecondTime(s)]_upsertVars
=============================================================================
