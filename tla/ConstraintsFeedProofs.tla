------------------------- MODULE ConstraintsFeedProofs -------------------------
(***************************************************************************)
(* Proofs about the refresh of the bulk file, for every number of          *)
(* processes, periods, groups and failures.                                *)
(***************************************************************************)
EXTENDS ConstraintsFeed, TLAPS

-----------------------------------------------------------------------------
(* Facts about the operators.                                              *)

(* Merging a batch into a table gives a table.                             *)
LEMMA MergeType ==
  ASSUME NEW t \in [Keys -> Version], NEW b \in [Keys -> Version]
  PROVE  Merge(t, b) \in [Keys -> Version]
BY DEF Merge

(* After a merge a record is there if it was in the batch or in the table. *)
LEMMA MergePresent ==
  ASSUME NEW t \in [Keys -> Version], NEW b \in [Keys -> Version], NEW k \in Keys
  PROVE  Merge(t, b)[k] > 0 <=> b[k] > 0 \/ t[k] > 0
BY MaxVersionAssumption DEF Merge, Present, Version

(* The filtered download is a batch.                                       *)
LEMMA NewRowsType ==
  ASSUME NEW t \in Periods
  PROVE  NewRows(t) \in [Keys -> Version]
BY OneVersionAssumption DEF NewRows, Version

-----------------------------------------------------------------------------
(* Type correctness: every variable stays in its range.                    *)
THEOREM TypeTheorem == Spec => []TypeOK
<1>1. Init => TypeOK
  <2> SUFFICES ASSUME Init PROVE TypeOK
    OBVIOUS
  <2>1. Absent \in [Keys -> Version] /\ 0 \in Periods /\ 0 \in 0 .. MaxFailures
    BY LastPeriodAssumption, MaxFailuresAssumption, OneVersionAssumption
    DEF Absent, Version, Periods
  <2>2. rows \in [Processes -> [Keys -> Version]]
    BY <2>1 DEF Init
  <2>3. overlapped \in BOOLEAN /\ interrupted \in BOOLEAN
    BY DEF Init
  <2> QED
    BY <2>1, <2>2, <2>3 DEF Init, TypeOK
<1>2. TypeOK /\ [Next]_vars => TypeOK'
  <2> SUFFICES ASSUME TypeOK, [Next]_vars PROVE TypeOK'
    OBVIOUS
  <2> USE DEF TypeOK
  <2>1. CASE Publish
    BY <2>1, LastPeriodAssumption DEF Publish, runVars, history, Periods
  <2>2. ASSUME NEW p \in Processes, ReadMax(p) PROVE TypeOK'
    BY <2>2 DEF ReadMax, Started
  <2>3. ASSUME NEW p \in Processes, GetValidators(p) PROVE TypeOK'
    BY <2>3 DEF GetValidators, history
  <2>4. ASSUME NEW p \in Processes, NotModified(p) PROVE TypeOK'
    BY <2>4 DEF NotModified, history
  <2>5. ASSUME NEW p \in Processes, Download(p) PROVE TypeOK'
    BY <2>5, NewRowsType DEF Download, history
  <2>6. ASSUME NEW p \in Processes, SaveValidators(p) PROVE TypeOK'
    BY <2>6 DEF SaveValidators
  <2>7. ASSUME NEW p \in Processes, Upsert(p) PROVE TypeOK'
    BY <2>7, MergeType DEF Upsert, history
  <2>8. ASSUME NEW p \in Processes, Fail(p) PROVE TypeOK'
    BY <2>8, MaxFailuresAssumption DEF Fail
  <2>9. CASE UNCHANGED vars
    BY <2>9 DEF vars, runVars, history
  <2> QED
    BY <2>1, <2>2, <2>3, <2>4, <2>5, <2>6, <2>7, <2>8, <2>9 DEF Next, Run
<1> QED
  BY <1>1, <1>2, PTL DEF Spec

-----------------------------------------------------------------------------
(* The high-water mark.                                                    *)

\* What a process has read as MAX(ts) still hides nothing.
MarkInv == \A p \in Processes, l \in Keys : TimeOf[l] <= lastTs[p] => table[l] > 0

\* The rows a process holds reach down to rows that are stored.
RowsInv ==
  \A p \in Processes, k, l \in Keys :
    rows[p][k] > 0 /\ TimeOf[l] <= TimeOf[k] => rows[p][l] > 0 \/ table[l] > 0

FeedInv == MarkInv /\ RowsInv /\ HighWaterMarkIsComplete

(* A stored row stays stored.                                              *)
LEMMA RowsStay ==
  ASSUME TypeOK, [Next]_vars, NEW l \in Keys, table[l] > 0
  PROVE  table'[l] > 0
<1>1. ASSUME NEW p \in Processes, Upsert(p) PROVE table'[l] > 0
  BY <1>1, MergePresent DEF Upsert, TypeOK
<1> QED
  BY <1>1 DEF Next, Run, vars, Publish, ReadMax, GetValidators, NotModified,
              Download, SaveValidators, Fail

(* The mark hides no row: every row at or below a stored one is stored,    *)
(* with any number of refreshes at once and wherever they fail.            *)
THEOREM HighWaterTheorem == Spec => []HighWaterMarkIsComplete
<1>1. Init => FeedInv
  BY TimeOfAssumption DEF Init, FeedInv, MarkInv, RowsInv,
                          HighWaterMarkIsComplete, Absent, Present
<1>2. TypeOK /\ FeedInv /\ [Next]_vars => FeedInv'
  <2> SUFFICES ASSUME TypeOK, FeedInv, [Next]_vars PROVE FeedInv'
    OBVIOUS
  <2>1. MarkInv'
    <3> SUFFICES ASSUME NEW p \in Processes, NEW l \in Keys, TimeOf[l] <= lastTs'[p]
                 PROVE  table'[l] > 0
      BY DEF MarkInv
    <3>1. CASE UNCHANGED lastTs
      BY <3>1, RowsStay DEF FeedInv, MarkInv
    <3>2. ASSUME NEW q \in Processes, ReadMax(q) PROVE table'[l] > 0
      <4>1. PICK t \in Periods : IsHighWater(t, table) /\ lastTs' = [lastTs EXCEPT ![q] = t]
        BY <3>2 DEF ReadMax
      <4>2. CASE p # q
        BY <4>1, <4>2, RowsStay DEF FeedInv, MarkInv, TypeOK
      <4>3. CASE p = q
        <5>1. TimeOf[l] <= t
          BY <4>1, <4>3 DEF TypeOK
        <5>2. t # 0
          BY <5>1, TimeOfAssumption
        <5>3. PICK k \in Present(table) : TimeOf[k] = t
          BY <4>1, <5>2 DEF IsHighWater
        <5>4. table[l] > 0
          BY <5>1, <5>3 DEF FeedInv, HighWaterMarkIsComplete
        <5> QED
          BY <5>4, RowsStay
      <4> QED
        BY <4>2, <4>3
    <3> QED
      BY <3>1, <3>2 DEF Next, Run, vars, runVars, Publish, GetValidators,
                        NotModified, Download, SaveValidators, Upsert, Fail
  <2>2. RowsInv'
    <3> SUFFICES ASSUME NEW p \in Processes, NEW k \in Keys, NEW l \in Keys,
                        rows'[p][k] > 0, TimeOf[l] <= TimeOf[k]
                 PROVE  rows'[p][l] > 0 \/ table'[l] > 0
      BY DEF RowsInv
    <3>1. CASE rows'[p] = rows[p]
      BY <3>1, RowsStay DEF FeedInv, RowsInv
    <3>2. CASE Download(p)
      <4>1. rows'[p] = NewRows(lastTs[p])
        BY <3>2 DEF Download, TypeOK
      <4>2. TimeOf[k] <= file
        BY <3>2, <4>1 DEF NewRows
      <4>3. TimeOf[l] <= file
        BY <4>2, TimeOfAssumption DEF TypeOK, Periods
      <4>4. CASE TimeOf[l] <= lastTs[p]
        BY <4>4, RowsStay DEF FeedInv, MarkInv
      <4>5. CASE ~(TimeOf[l] <= lastTs[p])
        <5>1. TimeOf[l] > lastTs[p]
          BY <4>5, TimeOfAssumption DEF TypeOK, Periods
        <5> QED
          BY <4>1, <4>3, <5>1 DEF NewRows
      <4> QED
        BY <4>4, <4>5
    <3>3. ASSUME NEW q \in Processes, Download(q), q # p PROVE rows'[p] = rows[p]
      BY <3>3 DEF Download, TypeOK
    <3> QED
      BY <3>1, <3>2, <3>3 DEF Next, Run, vars, runVars, Publish, ReadMax,
                    GetValidators, NotModified, SaveValidators, Upsert, Fail
  <2>3. HighWaterMarkIsComplete'
    <3> SUFFICES ASSUME NEW k \in Keys, NEW l \in Keys,
                        table'[k] > 0, TimeOf[l] <= TimeOf[k]
                 PROVE  table'[l] > 0
      BY DEF HighWaterMarkIsComplete, Present
    <3>1. CASE table[k] > 0
      BY <3>1, RowsStay DEF FeedInv, HighWaterMarkIsComplete, Present
    <3>2. ASSUME NEW p \in Processes, Upsert(p), ~(table[k] > 0) PROVE table'[l] > 0
      <4>1. /\ table' = Merge(table, rows[p])
            /\ table \in [Keys -> Version] /\ rows[p] \in [Keys -> Version]
        BY <3>2 DEF Upsert, TypeOK
      <4>2. rows[p][k] > 0
        BY <3>2, <4>1, MergePresent
      <4>3. rows[p][l] > 0 \/ table[l] > 0
        BY <4>2 DEF FeedInv, RowsInv
      <4> QED
        BY <4>1, <4>3, MergePresent
    <3> QED
      BY <3>1, <3>2 DEF Next, Run, vars, Publish, ReadMax, GetValidators,
                        NotModified, Download, SaveValidators, Fail
  <2> QED
    BY <2>1, <2>2, <2>3 DEF FeedInv
<1> QED
  BY <1>1, <1>2, TypeTheorem, PTL DEF Spec, FeedInv

-----------------------------------------------------------------------------
(* Downloads.                                                              *)

\* While refreshes have not overlapped, at most one is running.
AloneInv == \A p, q \in Processes : p # q => pc[p] = "idle" \/ pc[q] = "idle"

\* The cached validator is the newest one saved.
CacheInv == seen \subseteq 0 .. cached

\* A running refresh sends what is cached, and is given nothing older.
ValidatorInv ==
  \A p \in Processes :
    /\ pc[p] = "request" => sent[p] = cached
    /\ pc[p] = "save" => cached <= got[p]

DownloadInv ==
  /\ cached <= file /\ \A p \in Processes : got[p] <= file
  /\ ~overlapped => AloneInv /\ CacheInv /\ ValidatorInv

(* While refreshes do not overlap, nothing is downloaded twice, whatever   *)
(* fails.                                                                  *)
THEOREM DownloadTheorem == Spec => DownloadedOnce
<1>1. Init => DownloadInv
  BY DEF Init, DownloadInv, AloneInv, CacheInv, ValidatorInv
<1>2. TypeOK /\ DownloadInv /\ [Next]_vars => DownloadInv'
  <2> SUFFICES ASSUME TypeOK, DownloadInv, [Next]_vars PROVE DownloadInv'
    OBVIOUS
  <2>1. CASE Publish
    BY <2>1 DEF Publish, runVars, history, DownloadInv, AloneInv, CacheInv,
                ValidatorInv, TypeOK, Periods
  <2>2. ASSUME NEW p \in Processes, ReadMax(p) PROVE DownloadInv'
    BY <2>2 DEF ReadMax, Started, DownloadInv, AloneInv, CacheInv, ValidatorInv,
                TypeOK
  <2>3. ASSUME NEW p \in Processes, GetValidators(p) PROVE DownloadInv'
    BY <2>3 DEF GetValidators, history, DownloadInv, AloneInv, CacheInv,
                ValidatorInv, TypeOK
  <2>4. ASSUME NEW p \in Processes, NotModified(p) PROVE DownloadInv'
    BY <2>4 DEF NotModified, history, DownloadInv, AloneInv, CacheInv,
                ValidatorInv, TypeOK
  <2>5. ASSUME NEW p \in Processes, Download(p) PROVE DownloadInv'
    BY <2>5 DEF Download, history, DownloadInv, AloneInv, CacheInv,
                ValidatorInv, TypeOK, Periods
  <2>6. ASSUME NEW p \in Processes, SaveValidators(p) PROVE DownloadInv'
    <3>1. cached' = got[p] /\ got' = got /\ sent' = sent /\ file' = file
      BY <2>6 DEF SaveValidators
    <3>2. cached' <= file' /\ \A q \in Processes : got'[q] <= file'
      BY <3>1 DEF DownloadInv
    <3> SUFFICES ASSUME ~overlapped PROVE AloneInv' /\ CacheInv' /\ ValidatorInv'
      BY <2>6, <3>2 DEF DownloadInv, SaveValidators
    <3>3. pc[p] = "save" /\ \A q \in Processes \ {p} : pc[q] = "idle"
      BY <2>6 DEF SaveValidators, DownloadInv, AloneInv
    <3>4. \A q \in Processes : pc'[q] \in {"idle", "upsert"}
      BY <2>6, <3>3 DEF SaveValidators, TypeOK
    <3>5. AloneInv'
      BY <2>6, <3>3 DEF SaveValidators, AloneInv, TypeOK
    <3>6. cached <= got[p] /\ seen \subseteq 0 .. cached
      BY <3>3 DEF DownloadInv, ValidatorInv, CacheInv
    <3>7. CacheInv'
      <4>1. cached \in Int /\ got[p] \in Nat
        BY DEF TypeOK, Periods
      <4>2. 0 .. cached \subseteq 0 .. got[p] /\ got[p] \in 0 .. got[p]
        BY <3>6, <4>1
      <4>3. seen' = seen \cup {got[p]}
        BY <2>6 DEF SaveValidators
      <4> QED
        BY <3>1, <3>6, <4>2, <4>3 DEF CacheInv
    <3> QED
      BY <3>4, <3>5, <3>7 DEF ValidatorInv
  <2>7. ASSUME NEW p \in Processes, Upsert(p) PROVE DownloadInv'
    BY <2>7 DEF Upsert, history, DownloadInv, AloneInv, CacheInv, ValidatorInv,
                TypeOK
  <2>8. ASSUME NEW p \in Processes, Fail(p) PROVE DownloadInv'
    BY <2>8 DEF Fail, DownloadInv, AloneInv, CacheInv, ValidatorInv, TypeOK
  <2>9. CASE UNCHANGED vars
    BY <2>9 DEF vars, runVars, history, DownloadInv, AloneInv, CacheInv,
                ValidatorInv
  <2> QED
    BY <2>1, <2>2, <2>3, <2>4, <2>5, <2>6, <2>7, <2>8, <2>9 DEF Next, Run
<1>3. ASSUME TypeOK, DownloadInv, [Next]_vars,
             NEW p \in Processes, pc[p] = "request", pc'[p] = "save", ~overlapped
      PROVE  file \notin seen
  <2>1. Download(p)
    BY <1>3 DEF Next, Run, vars, runVars, Publish, ReadMax, GetValidators,
                NotModified, Download, SaveValidators, Upsert, Fail, TypeOK
  <2>2. sent[p] # file
    BY <2>1 DEF Download, IsUnchanged, TypeOK, Periods
  <2>3. sent[p] = cached /\ cached <= file /\ seen \subseteq 0 .. cached
    BY <1>3 DEF DownloadInv, ValidatorInv, CacheInv
  <2>4. cached \in Int /\ file \in Int
    BY <1>3 DEF TypeOK, Periods
  <2>5. cached < file
    BY <2>2, <2>3, <2>4
  <2>6. file \notin 0 .. cached
    BY <2>4, <2>5
  <2> QED
    BY <2>3, <2>6
<1>4. TypeOK /\ DownloadInv /\ [Next]_vars
      => [\A p \in Processes :
            pc[p] = "request" /\ pc'[p] = "save" /\ ~overlapped => file \notin seen]_vars
  BY <1>3
<1> QED
  BY <1>1, <1>2, <1>4, TypeTheorem, PTL DEF Spec, DownloadedOnce
=============================================================================
