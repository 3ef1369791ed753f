------------------------------ MODULE UpsertProofs ------------------------------
(***************************************************************************)
(* Proofs about one upsert: both paths store the same rows; what a session *)
(* has written is a prefix of what it has to write, and is still there     *)
(* when it commits, because nobody else has those rows locked; and a COPY  *)
(* merge never meets a row of its own again.                               *)
(***************************************************************************)
EXTENDS Upsert, NaturalFacts, TLAPS

(* The newest of the rows of a key in a batch exists.                      *)
LEMMA LastExists ==
  ASSUME NEW b \in Seq(Row), NEW k, NEW i \in DOMAIN b, b[i].key = k
  PROVE  \E j \in DOMAIN b : IsLastOf(j, b, DOMAIN b, k)
<1> DEFINE same == {j \in DOMAIN b : b[j].key = k}
<1>1. Len(b) \in Nat /\ same \in SUBSET (1 .. Len(b)) /\ i \in same
  OBVIOUS
<1>2. PICK j \in same : \A l \in same : l <= j
  <2>1. IsFiniteSet(1 .. Len(b))
    BY <1>1, FS_Interval
  <2>2. IsFiniteSet(same) /\ same \in SUBSET Int /\ same # {}
    BY <1>1, <2>1, FS_Subset
  <2> HIDE DEF same
  <2> QED BY <2>2, LargestExists
<1> QED BY <1>2 DEF IsLastOf

(* A row that has to be written is one of the batch.                       *)
LEMMA KeptInBatch ==
  ASSUME NEW b
  PROVE  Kept(b) \subseteq DOMAIN b
BY DEF Kept

(* By COPY, one row of each key is written.                                *)
LEMMA KeptOnce ==
  ASSUME NEW b \in Seq(Row), ByCopy(b), NEW i \in Kept(b), NEW j \in Kept(b),
         b[i].key = b[j].key
  PROVE  i = j
<1>1. /\ i \in DOMAIN b /\ IsLastOf(i, b, DOMAIN b, b[i].key)
      /\ j \in DOMAIN b /\ IsLastOf(j, b, DOMAIN b, b[j].key)
  BY DEF Kept
<1>2. i <= j /\ j <= i
  BY <1>1 DEF IsLastOf
<1>3. i \in 1 .. Len(b) /\ j \in 1 .. Len(b)
  BY <1>1
<1> QED BY <1>2, <1>3

(* Both paths store the same: to merge the rows that are written is to     *)
(* merge the batch.                                                        *)
LEMMA KeptMerges ==
  ASSUME NEW b \in Seq(Row), NEW t
  PROVE  Merged(t, b, Kept(b)) = Merged(t, b, DOMAIN b)
<1>1. CASE ~ByCopy(b)
  <2>1. Kept(b) = DOMAIN b
    BY <1>1 DEF Kept
  <2> QED BY <2>1
<1>2. CASE ByCopy(b)
  <2> DEFINE Value(idx, k) == IF \E i \in idx : b[i].key = k
                              THEN b[CHOOSE i \in idx : IsLastOf(i, b, idx, k)].value
                              ELSE t[k]
  <2>1. ASSUME NEW k \in Keys
        PROVE  Value(Kept(b), k) = Value(DOMAIN b, k)
    <3>1. CASE \E i \in DOMAIN b : b[i].key = k
      <4>1. PICK j \in DOMAIN b : IsLastOf(j, b, DOMAIN b, k)
        BY <3>1, LastExists
      <4>2. j \in Kept(b) /\ b[j].key = k
        BY <4>1 DEF Kept, IsLastOf
      <4>3. ASSUME NEW i \in Kept(b), b[i].key = k
            PROVE  i = j
        BY <1>2, <4>2, <4>3, KeptOnce
      <4>4. IsLastOf(j, b, Kept(b), k)
        BY <4>1, <4>2, KeptInBatch DEF IsLastOf
      <4>5. (CHOOSE i \in Kept(b) : IsLastOf(i, b, Kept(b), k)) = j
        BY <4>2, <4>3, <4>4 DEF IsLastOf
      <4>6. ASSUME NEW i \in DOMAIN b, IsLastOf(i, b, DOMAIN b, k)
            PROVE  i = j
        BY <1>2, <4>1, <4>2, <4>6, KeptOnce DEF IsLastOf, Kept
      <4>7. (CHOOSE i \in DOMAIN b : IsLastOf(i, b, DOMAIN b, k)) = j
        BY <4>1, <4>6
      <4>8. Value(Kept(b), k) = b[j].value
        BY <4>2, <4>5
      <4>9. Value(DOMAIN b, k) = b[j].value
        BY <3>1, <4>7
      <4> QED BY <4>8, <4>9
    <3>2. CASE ~\E i \in DOMAIN b : b[i].key = k
      BY <3>2, KeptInBatch
    <3> QED BY <3>1, <3>2
  <2>2. /\ Merged(t, b, Kept(b)) = [k \in Keys |-> Value(Kept(b), k)]
        /\ Merged(t, b, DOMAIN b) = [k \in Keys |-> Value(DOMAIN b, k)]
    BY DEF Merged
  <2> HIDE DEF Value
  <2> QED BY <2>1, <2>2
<1> QED BY <1>1, <1>2

(* A table stays a table, and no row leaves it, when a batch is merged.    *)
LEMMA MergedStays ==
  ASSUME NEW t \in [Keys -> Values \cup {Missing}], NEW b \in Seq(Row)
  PROVE  /\ Merged(t, b, DOMAIN b) \in [Keys -> Values \cup {Missing}]
         /\ \A k \in Keys :
              t[k] # Missing \/ (\E i \in DOMAIN b : b[i].key = k)
                => Merged(t, b, DOMAIN b)[k] # Missing
<1> DEFINE m == Merged(t, b, DOMAIN b)
<1>1. ASSUME NEW k \in Keys
      PROVE  /\ m[k] \in Values \cup {Missing}
             /\ t[k] # Missing \/ (\E i \in DOMAIN b : b[i].key = k) => m[k] # Missing
  <2>1. CASE \E i \in DOMAIN b : b[i].key = k
    <3>1. PICK j \in DOMAIN b : IsLastOf(j, b, DOMAIN b, k)
      BY <2>1, LastExists
    <3> DEFINE c == CHOOSE i \in DOMAIN b : IsLastOf(i, b, DOMAIN b, k)
    <3>2. c \in DOMAIN b
      BY <3>1
    <3>3. b[c] \in Row
      <4> HIDE DEF c
      <4> QED BY <3>2
    <3>4. b[c].value \in Values
      BY <3>3 DEF Row
    <3>5. m[k] = b[c].value
      BY <2>1 DEF Merged
    <3>6. m[k] \in Values
      BY <3>4, <3>5
    <3> QED BY <3>6, RowsAssumption DEF Missing
  <2>2. CASE ~\E i \in DOMAIN b : b[i].key = k
    BY <2>2 DEF Merged
  <2> QED BY <2>1, <2>2
<1> QED BY <1>1 DEF Merged

-----------------------------------------------------------------------------
(* What a session has written are the first of the rows it has to write.   *)
Prefix ==
  \A s \in Sessions :
    \A i \in done[s], j \in Kept(batch[s]) \ done[s] : Before(i, j, batch[s])

(* No two sessions have a row locked.                                      *)
Exclusive ==
  \A s, t \in Sessions, k \in Keys : Holds(s, k) /\ Holds(t, k) => s = t

(* A locked row is as the last one written of its key has it.              *)
InPlace ==
  \A s \in Sessions, k \in Keys : \A i \in done[s] :
    IsLastOf(i, batch[s], done[s], k) => pending[k] = batch[s][i].value

Locking == Prefix /\ Exclusive /\ InPlace

UpsertInv == UpsertTypeOK /\ Locking

(* A step of one of the calls, or none.                                    *)
UpsertStep ==
  \/ \E s \in Sessions, b \in Seq(Row) : UpsertCall(s, b)
  \/ \E s \in Sessions : WriteRow(s) \/ Commit(s) \/ RollBack(s)
  \/ UNCHANGED upsertVars

(* A session that is not upserting has no row to write.                    *)
LEMMA NoneKept == Kept(<<>>) = {}
BY KeptInBatch

(* A commit shows the batch merged into the table.                         *)
LEMMA CommitMerges ==
  ASSUME UpsertInv, NEW s \in Sessions, Commit(s)
  PROVE  table' = Merged(table, batch[s], DOMAIN batch[s])
<1> DEFINE b == batch[s]
<1> DEFINE Value(k) == IF \E i \in Kept(b) : b[i].key = k
                       THEN b[CHOOSE i \in Kept(b) : IsLastOf(i, b, Kept(b), k)].value
                       ELSE table[k]
<1>1. b \in Seq(Row) /\ done[s] = Kept(b)
  BY DEF Commit, UpsertInv, UpsertTypeOK
<1>2. ASSUME NEW k \in Keys
      PROVE  (IF Holds(s, k) THEN pending[k] ELSE table[k]) = Value(k)
  <2>1. CASE Holds(s, k)
    <3>1. PICK i \in Kept(b) : b[i].key = k
      BY <1>1, <2>1 DEF Holds
    <3>2. PICK j \in DOMAIN b : IsLastOf(j, b, DOMAIN b, k)
      BY <1>1, <3>1, KeptInBatch, LastExists
    <3>3. IsLastOf(j, b, Kept(b), k)
      BY <3>2, KeptInBatch DEF IsLastOf, Kept
    <3> DEFINE c == CHOOSE l \in Kept(b) : IsLastOf(l, b, Kept(b), k)
    <3>4. c \in Kept(b) /\ IsLastOf(c, b, Kept(b), k)
      <4>1. \E l \in Kept(b) : IsLastOf(l, b, Kept(b), k)
        BY <3>3 DEF IsLastOf
      <4> QED BY <4>1
    <3>5. Value(k) = b[c].value
      BY <3>1
    <3> HIDE DEF c
    <3>6. pending[k] = b[c].value
      BY <1>1, <3>4 DEF UpsertInv, Locking, InPlace
    <3> QED BY <2>1, <3>5, <3>6
  <2>2. CASE ~Holds(s, k)
    BY <1>1, <2>2 DEF Holds
  <2> QED BY <2>1, <2>2
<1>3. table' = [k \in Keys |-> IF Holds(s, k) THEN pending[k] ELSE table[k]]
  BY DEF Commit
<1>4. Merged(table, b, Kept(b)) = [k \in Keys |-> Value(k)]
  BY DEF Merged
<1> HIDE DEF Value
<1>5. table' = Merged(table, b, Kept(b))
  BY <1>2, <1>3, <1>4
<1> QED BY <1>1, <1>5, KeptMerges

(* The invariant is inductive.                                             *)
LEMMA UpsertInvStep ==
  ASSUME UpsertInv, UpsertStep
  PROVE  UpsertInv'
<1> USE DEF UpsertInv, UpsertTypeOK, Locking
<1>0. /\ batch \in [Sessions -> Seq(Row)] /\ done \in [Sessions -> SUBSET Nat]
      /\ pending \in [Keys -> Values \cup {Missing}]
      /\ \A s \in Sessions : done[s] \subseteq Kept(batch[s])
  OBVIOUS
<1>1. ASSUME NEW s \in Sessions, NEW b \in Seq(Row), UpsertCall(s, b)
      PROVE  UpsertInv'
  <2>1. /\ batch[s] = <<>> /\ batch' = [batch EXCEPT ![s] = b]
        /\ table' = table /\ done' = done /\ pending' = pending
    BY <1>1 DEF UpsertCall, Call
  <2>2. done[s] = {}
    BY <2>1, NoneKept
  <2>3. \A t \in Sessions \ {s} : batch'[t] = batch[t]
    BY <2>1
  <2>4. UpsertTypeOK'
    BY <2>1, <2>2
  <2>5. Prefix'
    BY <2>1, <2>2, <2>3 DEF Prefix
  <2>6. Exclusive'
    BY <2>1, <2>2, <2>3 DEF Exclusive, Holds
  <2>7. InPlace'
    BY <2>1, <2>2, <2>3 DEF InPlace
  <2> QED BY <2>4, <2>5, <2>6, <2>7
<1>2. ASSUME NEW s \in Sessions, WriteRow(s)
      PROVE  UpsertInv'
  <2> DEFINE b == batch[s]
  <2>1. PICK i \in DOMAIN b :
          /\ MayWrite(s, i)
          /\ done' = [done EXCEPT ![s] = @ \cup {i}]
          /\ pending' = [pending EXCEPT ![b[i].key] = b[i].value]
          /\ table' = table /\ batch' = batch
    BY <1>2 DEF WriteRow
  <2>2. /\ i \in Kept(b) \ done[s]
        /\ \A j \in Kept(b) \ done[s] : j = i \/ Before(i, j, b)
    BY <2>1 DEF MayWrite, IsNext
  <2>3. i \in Nat /\ b[i].key \in Keys /\ b[i].value \in Values
    <3>1. b[i] \in Row
      BY <1>0
    <3> QED BY <1>0, <3>1 DEF Row
  <2>4. /\ done'[s] = done[s] \cup {i}
        /\ \A t \in Sessions \ {s} : done'[t] = done[t]
        /\ pending'[b[i].key] = b[i].value
        /\ \A k \in Keys \ {b[i].key} : pending'[k] = pending[k]
    BY <1>0, <2>1, <2>3
  <2>5. UpsertTypeOK'
    BY <2>1, <2>2, <2>3
  <2>6. Prefix'
    <3>1. ASSUME NEW t \in Sessions, NEW l \in done'[t],
                 NEW j \in Kept(batch[t]) \ done'[t]
          PROVE  Before(l, j, batch[t])
      <4>1. CASE t # s
        BY <2>4, <3>1, <4>1 DEF Prefix
      <4>2. CASE t = s
        BY <2>2, <2>4, <3>1, <4>2 DEF Prefix
      <4> QED BY <4>1, <4>2
    <3> QED BY <2>1, <3>1 DEF Prefix
  <2>7. \A t \in Sessions \ {s} : ~Holds(t, b[i].key)
    BY <2>1 DEF MayWrite, WaitsFor
  <2>8. \A t \in Sessions, k \in Keys :
          Holds(t, k)' <=> Holds(t, k) \/ (t = s /\ k = b[i].key)
    BY <2>1, <2>4 DEF Holds
  <2>9. Exclusive'
    BY <2>7, <2>8 DEF Exclusive
  <2>10. InPlace'
    <3> SUFFICES ASSUME NEW t \in Sessions, NEW k \in Keys, NEW l \in done'[t],
                        IsLastOf(l, batch[t], done'[t], k)
                 PROVE  pending'[k] = batch[t][l].value
      BY <2>1 DEF InPlace
    <3>1. CASE t # s
      <4>1. done'[t] = done[t] /\ Holds(t, k)
        BY <2>4, <3>1 DEF Holds, IsLastOf
      <4>2. k # b[i].key
        BY <2>7, <3>1, <4>1
      <4> QED BY <2>4, <4>1, <4>2 DEF InPlace
    <3>2. CASE t = s /\ k = b[i].key
      <4>1. i <= l /\ b[l].key = b[i].key
        BY <2>4, <3>2 DEF IsLastOf
      <4>2. l = i
        <5> SUFFICES ASSUME l \in done[s], l # i PROVE FALSE
          BY <2>4, <3>2
        <5>1. Before(l, i, b)
          BY <2>2 DEF Prefix
        <5>2. ~ByCopy(b)
          BY <2>1, <4>1 DEF MayWrite, Holds
        <5>3. l < i /\ l \in Nat
          BY <1>0, <5>1, <5>2 DEF Before
        <5> QED BY <2>3, <4>1, <5>3
      <4> QED BY <2>4, <3>2, <4>2
    <3>3. CASE t = s /\ k # b[i].key
      <4>1. l \in done[s] /\ IsLastOf(l, b, done[s], k)
        BY <2>4, <3>3 DEF IsLastOf
      <4> QED BY <2>4, <3>3, <4>1 DEF InPlace
    <3> QED BY <3>1, <3>2, <3>3
  <2> QED BY <2>5, <2>6, <2>9, <2>10
<1>3. ASSUME NEW s \in Sessions, Commit(s) \/ RollBack(s)
      PROVE  UpsertInv'
  <2>1. /\ batch' = [batch EXCEPT ![s] = <<>>]
        /\ done' = [done EXCEPT ![s] = {}]
        /\ pending' = [k \in Keys |-> IF Holds(s, k) THEN Missing ELSE pending[k]]
    BY <1>3 DEF Commit, RollBack, Raise, Release
  <2>2. table' \in [Keys -> Values \cup {Missing}]
    <3>1. CASE Commit(s)
      BY <1>0, <3>1, CommitMerges, MergedStays
    <3>2. CASE RollBack(s)
      BY <3>2 DEF RollBack, Raise
    <3> QED BY <1>3, <3>1, <3>2
  <2>3. /\ <<>> \in Seq(Row) /\ done'[s] = {} /\ batch'[s] = <<>>
        /\ \A t \in Sessions \ {s} : done'[t] = done[t] /\ batch'[t] = batch[t]
    BY <1>0, <2>1
  <2>4. pending' \in [Keys -> Values \cup {Missing}]
    BY <1>0, <2>1
  <2>5. UpsertTypeOK'
    BY <1>0, <2>1, <2>2, <2>3, <2>4, NoneKept
  <2>6. Prefix'
    BY <2>3, NoneKept DEF Prefix
  <2>7. Exclusive'
    <3>1. \A t \in Sessions, k \in Keys : Holds(t, k)' => Holds(t, k) /\ t # s
      BY <2>3 DEF Holds
    <3> QED BY <3>1 DEF Exclusive
  <2>8. InPlace'
    <3> SUFFICES ASSUME NEW t \in Sessions \ {s}, NEW k \in Keys, NEW l \in done[t],
                        IsLastOf(l, batch[t], done[t], k)
                 PROVE  pending'[k] = batch[t][l].value
      BY <2>3 DEF InPlace
    <3>1. ~Holds(s, k)
      BY DEF Exclusive, Holds, IsLastOf
    <3> QED BY <2>1, <3>1 DEF InPlace
  <2> QED BY <2>5, <2>6, <2>7, <2>8
<1>4. CASE UNCHANGED upsertVars
  BY <1>4 DEF upsertVars, Prefix, Exclusive, InPlace, Holds
<1> QED BY <1>1, <1>2, <1>3, <1>4 DEF UpsertStep

(* Each step of a call is one of an atomic call, or none.                  *)
LEMMA UpsertIsAtomic ==
  ASSUME UpsertInv, UpsertStep
  PROVE  [AtomicNext]_atomicVars
<1> USE DEF UpsertInv, UpsertTypeOK
<1>1. ASSUME NEW s \in Sessions, NEW b \in Seq(Row), UpsertCall(s, b)
      PROVE  Call(s, batch'[s])
  BY <1>1 DEF UpsertCall, Call
<1>2. ASSUME NEW s \in Sessions, WriteRow(s)
      PROVE  UNCHANGED atomicVars
  BY <1>2 DEF WriteRow, atomicVars
<1>3. ASSUME NEW s \in Sessions, Commit(s)
      PROVE  Apply(s)
  BY <1>3, CommitMerges DEF Commit, Apply
<1>4. ASSUME NEW s \in Sessions, RollBack(s)
      PROVE  Raise(s)
  BY <1>4 DEF RollBack
<1>5. CASE UNCHANGED upsertVars
  BY <1>5 DEF upsertVars, atomicVars
<1> QED BY <1>1, <1>2, <1>3, <1>4, <1>5 DEF UpsertStep, AtomicNext

(* The merge of a staged batch never touches a row twice.                  *)
LEMMA NotASecondTime ==
  ASSUME UpsertInv, NEW s \in Sessions
  PROVE  ~SecondTime(s)
<1> SUFFICES ASSUME SecondTime(s) PROVE FALSE
  OBVIOUS
<1>1. PICK i \in DOMAIN batch[s] : IsNext(i, s) /\ Holds(s, batch[s][i].key)
  BY DEF SecondTime
<1>2. PICK j \in done[s] : batch[s][j].key = batch[s][i].key
  BY <1>1 DEF Holds
<1>3. i \in Kept(batch[s]) \ done[s] /\ j \in Kept(batch[s])
  BY <1>1, <1>2 DEF IsNext, UpsertInv, UpsertTypeOK
<1>4. batch[s] \in Seq(Row) /\ ByCopy(batch[s])
  BY DEF SecondTime, UpsertInv, UpsertTypeOK
<1>5. i = j
  BY <1>2, <1>3, <1>4, KeptOnce
<1> QED BY <1>3, <1>5

(* A COPY merge that holds a row has yet to ask for one of a greater key.  *)
LEMMA NextKeyIsGreater ==
  ASSUME UpsertInv, NEW t \in Sessions, ByCopy(batch[t]),
         NEW k, Holds(t, k), NEW j \in DOMAIN batch[t], IsNext(j, t)
  PROVE  k < batch[t][j].key
<1>1. PICK i \in done[t] : batch[t][i].key = k
  BY DEF Holds
<1>2. batch[t] \in Seq(Row) /\ i \in Kept(batch[t]) /\ j \in Kept(batch[t]) \ done[t]
  BY <1>1 DEF UpsertInv, UpsertTypeOK, IsNext
<1>3. Before(i, j, batch[t]) /\ i # j
  BY <1>1, <1>2 DEF UpsertInv, Locking, Prefix
<1>4. batch[t][i].key # batch[t][j].key
  BY <1>2, <1>3, KeptOnce
<1> QED BY <1>1, <1>3, <1>4 DEF Before

(* Of two sessions that wait for each other, one writes row by row.        *)
LEMMA NoTwoCopiesWait ==
  ASSUME UpsertInv, NEW s \in Sessions, NEW t \in Sessions,
         WaitsFor(s, t), WaitsFor(t, s)
  PROVE  ~ByCopy(batch[s]) \/ ~ByCopy(batch[t])
<1> SUFFICES ASSUME ByCopy(batch[s]), ByCopy(batch[t]) PROVE FALSE
  OBVIOUS
<1>1. PICK i \in DOMAIN batch[s] : IsNext(i, s) /\ Holds(t, batch[s][i].key)
  BY DEF WaitsFor
<1>2. PICK j \in DOMAIN batch[t] : IsNext(j, t) /\ Holds(s, batch[t][j].key)
  BY DEF WaitsFor
<1>3. batch[s][i].key < batch[t][j].key /\ batch[t][j].key < batch[s][i].key
  BY <1>1, <1>2, NextKeyIsGreater
<1>4. batch[s][i] \in Row /\ batch[t][j] \in Row
  BY DEF UpsertInv, UpsertTypeOK
<1>5. batch[s][i].key \in Nat /\ batch[t][j].key \in Nat
  BY <1>4, RowsAssumption DEF Row
<1> QED BY <1>3, <1>5
=============================================================================
