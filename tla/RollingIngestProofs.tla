-------------------------- MODULE RollingIngestProofs --------------------------
(***************************************************************************)
(* Proofs about the rolling datasets: the calls of upsert are atomic,      *)
(* never meet a row twice and deadlock only with a row-wise one among      *)
(* them; and ticks that begin close enough leave no record behind.         *)
(***************************************************************************)
EXTENDS RollingIngest, UpsertProofs, SequenceTheorems

(* Record k had its time to be published before the last tick began.       *)
Due(k) == feed[k] > 0 /\ TimeOf[k] + Lag < began

(* A tick has stored the records that were due before its next window, and *)
(* holds those of the window it is writing.                                *)
Covered ==
  job["tick"].at # "idle" =>
    /\ job["tick"].end = began + Ahead
    /\ \A k \in Keys :
         Due(k) /\ began - Behind <= TimeOf[k] /\ TimeOf[k] < job["tick"].cur
           => table[k] # Missing

InBatch ==
  job["tick"].at = "upsert" =>
    \A k \in Keys :
      Due(k) /\ IsAskedFor("tick", k)
        => \E i \in DOMAIN batch["tick"] : batch["tick"][i].key = k

Clock == began <= now /\ lastOk <= began

(* The inductive invariant.                                                *)
IInv ==
  /\ TypeOK /\ Locking
  /\ Clock /\ Covered /\ InBatch
  /\ NothingLeftBehind

-----------------------------------------------------------------------------
(* What each step does to the upserts.                                     *)
LEMMA StepIsUpsertStep ==
  ASSUME [Next]_vars
  PROVE  UpsertStep
<1> USE DEF UpsertStep
<1>1. CASE UNCHANGED vars
  BY <1>1 DEF vars, upsertVars
<1>2. CASE Advance \/ (\E k \in Keys : Publish(k))
  BY <1>2 DEF Advance, Publish
<1>3. CASE Tick \/ Backfill
  BY <1>3 DEF Tick, Backfill, Begin
<1>4. ASSUME NEW s \in Sessions, Fetch(s)
      PROVE  UpsertStep
  <2>1. PICK b \in Answers(s) : UNCHANGED upsertVars \/ UpsertCall(s, b)
    BY <1>4 DEF Fetch
  <2>2. UpsertCall(s, b) => b \in Seq(Row)
    BY DEF UpsertCall, Call
  <2> QED BY <2>1, <2>2
<1>5. ASSUME NEW s \in Sessions, Retry(s) \/ GiveUp(s) \/ Return(s)
      PROVE  UpsertStep
  BY <1>5 DEF Retry, GiveUp, Return
<1>6. ASSUME NEW s \in Sessions, Write(s) \/ Stored(s) \/ Lose(s)
      PROVE  UpsertStep
  BY <1>6 DEF Write, Stored, Lose
<1>7. ASSUME NEW s \in Sessions, (SecondTime(s) \/ Deadlocked(s)) /\ Raised(s)
      PROVE  UpsertStep
  BY <1>7 DEF SecondTime, Deadlocked
<1> QED BY <1>1, <1>2, <1>3, <1>4, <1>5, <1>6, <1>7 DEF Next, Step

(* An answer has every record that was asked for.                          *)
LEMMA AnswerIsComplete ==
  ASSUME TypeOK, NEW s \in Sessions, NEW b \in Answers(s), NEW k \in Asked(s)
  PROVE  b # <<>> /\ \E i \in DOMAIN b : b[i].key = k
<1>1. PICK older \in OlderRevision(Asked(s)), q \in Orders(Asked(s)) : b = older \o q
  BY DEF Answers
<1>2. Cardinality(Asked(s)) \in Nat
  <2>1. IsFiniteSet(Asked(s))
    BY HoursAssumption, FS_Subset DEF Asked
  <2> QED BY <2>1, FS_CardinalityType
<1>3. /\ q \in [1 .. Cardinality(Asked(s)) -> [key : Asked(s), value : Values]]
      /\ \E i \in DOMAIN q : q[i].key = k
  BY DEF Orders
<1> DEFINE Asks == [key : Asked(s), value : Values]
<1>4. q \in Seq(Asks)
  <2>1. q \in [1 .. Cardinality(Asked(s)) -> Asks]
    BY <1>3
  <2> HIDE DEF Asks
  <2> QED BY <1>2, <2>1, SeqDef
<1>5. older = <<>> \/ \E m : older = <<m>>
  BY DEF OlderRevision
<1>6. PICK i \in DOMAIN q : q[i].key = k
  BY <1>3
<1> HIDE DEF Asks
<1>7. i \in 1 .. Len(q) /\ Len(q) \in Nat
  BY <1>4, <1>6, LenProperties
<1>8. CASE older = <<>>
  <2>1. b = q
    BY <1>1, <1>4, <1>8, ConcatEmptySeq
  <2>2. DOMAIN b # {} /\ DOMAIN <<>> = {}
    BY <1>6, <2>1
  <2> QED BY <1>6, <2>1, <2>2
<1>9. ASSUME NEW m, older = <<m>>
      PROVE  b # <<>> /\ \E j \in DOMAIN b : b[j].key = k
  <2> DEFINE T == {m} \cup Asks
  <2>1. older \in Seq(T) /\ Len(older) = 1
    <3>1. <<m>> \in Seq(T) /\ Len(<<m>>) = 1
      OBVIOUS
    <3> QED BY <1>9, <3>1
  <2>2. q \in Seq(T)
    BY <1>4, SeqMonotonic
  <2> HIDE DEF T
  <2>3. /\ b \in Seq(T) /\ Len(b) = 1 + Len(q)
        /\ \A l \in 1 .. 1 + Len(q) : b[l] = IF l <= 1 THEN older[l] ELSE q[l - 1]
    BY <1>1, <2>1, <2>2, ConcatProperties
  <2>4. i + 1 \in 1 .. 1 + Len(q) /\ ~(i + 1 <= 1) /\ (i + 1) - 1 = i
    BY <1>7
  <2>5. b[i + 1] = q[i] /\ i + 1 \in 1 .. Len(b)
    BY <2>3, <2>4
  <2>6. i + 1 \in DOMAIN b
    BY <2>3, <2>5, LenProperties
  <2>7. b # <<>>
    BY <2>6
  <2> QED BY <1>6, <2>5, <2>6, <2>7
<1> QED BY <1>5, <1>8, <1>9

(* No row ever leaves the table.                                           *)
LEMMA RowsStay ==
  ASSUME UpsertInv, UpsertStep, NEW k \in Keys, table[k] # Missing
  PROVE  table'[k] # Missing
<1>1. ASSUME NEW s \in Sessions, Commit(s)
      PROVE  table'[k] # Missing
  <2>1. batch[s] \in Seq(Row) /\ table \in [Keys -> Values \cup {Missing}]
    BY DEF UpsertInv, UpsertTypeOK
  <2>2. table' = Merged(table, batch[s], DOMAIN batch[s])
    BY <1>1, CommitMerges
  <2> QED BY <2>1, <2>2, MergedStays
<1>2. CASE UNCHANGED table
  BY <1>2
<1> QED BY <1>1, <1>2 DEF UpsertStep, UpsertCall, Call, WriteRow, RollBack, Raise, upsertVars

(* The window that a call is at ends in its range.                         *)
LEMMA WindowInRange ==
  ASSUME TypeOK, NEW s \in Sessions
  PROVE  /\ WindowEnd(s) \in Int /\ WindowEnd(s) <= job[s].end
         /\ job[s].cur \in Int /\ job[s].end \in Int
BY HoursAssumption DEF TypeOK, WindowEnd

Job == [at : {"idle", "fetch", "upsert"}, cur : Int, end : Int,
        attempt : 0 .. MaxAttempts - 1]

ClockTypeOK ==
  /\ now \in 0 .. LastHour
  /\ feed \in [Keys -> Nat] /\ \A k \in Keys : feed[k] \in 0 .. MaxVersion[k]
  /\ began \in 0 .. LastHour
  /\ lastOk \in -1 .. LastHour /\ since \in Int /\ gap \in BOOLEAN

(* A call that is at j has its next window in its range, and has rows to   *)
(* write while it is upserting.                                            *)
IsTyped(j, rows) == j.cur <= j.end /\ (j.at = "upsert" <=> rows # <<>>)

(* The parts of the type invariant.                                        *)
LEMMA TypeParts ==
  TypeOK <=> /\ UpsertTypeOK /\ ClockTypeOK
             /\ job \in [Sessions -> Job]
             /\ \A s \in Sessions : IsTyped(job[s], batch[s])
BY DEF TypeOK, ClockTypeOK, Job, IsTyped

(* The constants are numbers of hours.                                     *)
LEMMA Hours ==
  /\ LastHour \in Nat /\ Behind \in Nat /\ Ahead \in Nat /\ Lag \in Nat
  /\ Chunk \in Nat /\ Chunk > 0 /\ MaxAttempts \in Nat /\ MaxAttempts > 0
  /\ \A k \in Keys : TimeOf[k] \in Nat /\ MaxVersion[k] \in Nat
BY HoursAssumption

(* A call that has ended is well typed.                                    *)
LEMMA IdleTyped == Idle \in Job /\ IsTyped(Idle, <<>>)
BY Hours DEF Idle, Job, IsTyped

(* A step that changes what one call does.                                 *)
LEMMA JobStep ==
  ASSUME TypeOK, UpsertTypeOK', ClockTypeOK', NEW s \in Sessions, NEW j \in Job,
         job' = [job EXCEPT ![s] = j], NEW rows,
         batch' = [batch EXCEPT ![s] = rows], IsTyped(j, rows)
  PROVE  TypeOK'
<1>1. job \in [Sessions -> Job] /\ \A t \in Sessions : IsTyped(job[t], batch[t])
  BY TypeParts
<1>2. batch \in [Sessions -> Seq(Row)]
  BY DEF TypeOK, UpsertTypeOK
<1>3. job' \in [Sessions -> Job]
  BY <1>1
<1>4. ASSUME NEW t \in Sessions
      PROVE  job'[t].cur <= job'[t].end /\ (job'[t].at = "upsert" <=> batch'[t] # <<>>)
  <2>1. CASE t = s
    BY <1>1, <1>2, <2>1 DEF IsTyped
  <2>2. CASE t # s
    BY <1>1, <1>2, <2>2 DEF IsTyped
  <2> QED BY <2>1, <2>2
<1> QED BY <1>3, <1>4 DEF TypeOK, ClockTypeOK, Job

(* The initial states satisfy the invariant.                               *)
LEMMA InitIInv ==
  ASSUME RollingInit
  PROVE  IInv
<1> USE DEF RollingInit, UpsertInit, AtomicInit
<1>1. TypeOK
  <2>1. UpsertTypeOK
    BY NoneKept DEF UpsertTypeOK
  <2>2. job \in [Sessions -> Job] /\ \A s \in Sessions : IsTyped(job[s], batch[s])
    BY IdleTyped
  <2>3. ClockTypeOK
    <3>1. feed = [k \in Keys |-> 0] /\ \A k \in Keys : feed[k] \in 0 .. MaxVersion[k]
      BY Hours
    <3>2. /\ 0 \in 0 .. LastHour /\ -1 \in -1 .. LastHour
          /\ now = 0 /\ began = 0 /\ since = 0 /\ lastOk = -1
      BY Hours
    <3>3. gap \in BOOLEAN
      OBVIOUS
    <3> QED BY <3>1, <3>2, <3>3 DEF ClockTypeOK
  <2> QED BY <2>1, <2>2, <2>3, TypeParts
<1>2. Locking
  BY NoneKept DEF Locking, Prefix, Exclusive, InPlace, Holds
<1>3. Covered /\ InBatch
  BY SessionsAssumption DEF Covered, InBatch, Idle
<1>4. NothingLeftBehind /\ Clock
  BY DEF NothingLeftBehind, Clock
<1> QED BY <1>1, <1>2, <1>3, <1>4 DEF IInv

(* The types are preserved.                                                *)
LEMMA TypeStep ==
  ASSUME TypeOK, UpsertInv, [Next]_vars
  PROVE  TypeOK'
<1> USE DEF upsertVars, clockVars, history
<1>1. UpsertTypeOK'
  BY StepIsUpsertStep, UpsertInvStep DEF UpsertInv
<1>2. /\ ClockTypeOK /\ job \in [Sessions -> Job]
      /\ \A s \in Sessions : IsTyped(job[s], batch[s])
      /\ batch \in [Sessions -> Seq(Row)]
  BY TypeParts DEF UpsertInv, UpsertTypeOK
<1>3. ASSUME UNCHANGED <<clockVars, history>>
      PROVE  ClockTypeOK'
  BY <1>2, <1>3 DEF ClockTypeOK
<1>4. \A s \in Sessions : /\ batch = [batch EXCEPT ![s] = batch[s]]
                          /\ job[s].cur \in Int /\ job[s].end \in Int
                          /\ job[s].attempt \in 0 .. MaxAttempts - 1
  BY <1>2 DEF Job
<1>5. CASE UNCHANGED vars
  BY <1>1, <1>5 DEF vars, TypeOK
<1>6. CASE Advance
  <2>1. now' \in 0 .. LastHour
    BY <1>2, <1>6, Hours DEF Advance, ClockTypeOK
  <2> QED BY <1>1, <1>6, <2>1 DEF Advance, TypeOK
<1>7. ASSUME NEW k \in Keys, Publish(k)
      PROVE  TypeOK'
  <2>1. feed' \in [Keys -> Nat] /\ \A l \in Keys : feed'[l] \in 0 .. MaxVersion[l]
    <3>1. /\ feed' = [feed EXCEPT ![k] = @ + 1] /\ feed[k] < MaxVersion[k]
          /\ feed \in [Keys -> Nat] /\ \A l \in Keys : feed[l] <= MaxVersion[l]
      BY <1>2, <1>7 DEF Publish, ClockTypeOK
    <3>2. \A l \in Keys : feed'[l] \in Nat /\ feed'[l] <= MaxVersion[l]
      BY <3>1, Hours
    <3> QED BY <3>1, <3>2, Hours
  <2> QED BY <1>1, <1>7, <2>1 DEF Publish, TypeOK
<1>8. CASE Tick
  <2> DEFINE j == [at |-> "fetch", cur |-> TickStart, end |-> now + Ahead, attempt |-> 0]
  <2>1. /\ job' = [job EXCEPT !["tick"] = j]
        /\ job["tick"].at = "idle" /\ batch' = batch /\ ClockTypeOK'
    BY <1>2, <1>8 DEF Tick, Begin, ClockTypeOK
  <2>2. j \in Job /\ j.cur <= j.end /\ j.at # "upsert"
    BY <1>2, Hours DEF TickStart, Job, ClockTypeOK
  <2>3. batch["tick"] = <<>> /\ "tick" \in Sessions
    BY <1>2, <2>1, SessionsAssumption DEF IsTyped
  <2> HIDE DEF j
  <2> QED BY <1>1, <1>4, <2>1, <2>2, <2>3, JobStep DEF IsTyped
<1>9. CASE Backfill
  <2>1. PICK from \in 0 .. LastHour, to \in 0 .. LastHour :
          from < to /\ Begin("backfill", from, to)
    BY <1>9 DEF Backfill
  <2> DEFINE j == [at |-> "fetch", cur |-> from, end |-> to, attempt |-> 0]
  <2>2. /\ job' = [job EXCEPT !["backfill"] = j]
        /\ job["backfill"].at = "idle" /\ batch' = batch /\ ClockTypeOK'
    BY <1>3, <1>9, <2>1 DEF Backfill, Begin
  <2>3. j \in Job /\ j.cur <= j.end /\ j.at # "upsert"
    BY <1>2, <2>1, Hours DEF Job, ClockTypeOK
  <2>4. batch["backfill"] = <<>> /\ "backfill" \in Sessions
    BY <1>2, <2>2, SessionsAssumption DEF IsTyped
  <2> HIDE DEF j
  <2> QED BY <1>1, <1>4, <2>2, <2>3, <2>4, JobStep DEF IsTyped
<1>10. ASSUME NEW s \in Sessions, Fetch(s)
       PROVE  TypeOK'
  <2>1. /\ job[s].at = "fetch" /\ batch[s] = <<>> /\ ClockTypeOK'
        /\ UNCHANGED <<clockVars, history>>
    BY <1>2, <1>3, <1>10 DEF Fetch, IsTyped
  <2>2. PICK b \in Answers(s) :
          \/ /\ job' = [job EXCEPT ![s].cur = WindowEnd(s), ![s].attempt = 0]
             /\ UNCHANGED upsertVars
          \/ /\ job' = [job EXCEPT ![s].at = "upsert", ![s].attempt = 0]
             /\ UpsertCall(s, b)
    BY <1>10 DEF Fetch
  <2>3. CASE /\ job' = [job EXCEPT ![s].cur = WindowEnd(s), ![s].attempt = 0]
             /\ UNCHANGED upsertVars
    <3> DEFINE j == [job[s] EXCEPT !.cur = WindowEnd(s), !.attempt = 0]
    <3>1. j \in Job /\ j.cur = WindowEnd(s) /\ j.end = job[s].end /\ j.at = "fetch"
      <4>1. job[s] \in Job /\ 0 \in 0 .. MaxAttempts - 1
        BY <1>2, Hours
      <4> QED BY <2>1, <4>1, WindowInRange DEF Job
    <3>2. job' = [job EXCEPT ![s] = j] /\ batch' = batch
      BY <1>2, <2>3
    <3> HIDE DEF j
    <3>3. IsTyped(j, batch[s])
      BY <2>1, <3>1, WindowInRange DEF IsTyped
    <3> QED BY <1>1, <1>4, <2>1, <3>1, <3>2, <3>3, JobStep
  <2>4. CASE /\ job' = [job EXCEPT ![s].at = "upsert", ![s].attempt = 0]
             /\ UpsertCall(s, b)
    <3> DEFINE j == [job[s] EXCEPT !.at = "upsert", !.attempt = 0]
    <3>1. j \in Job /\ j.cur = job[s].cur /\ j.end = job[s].end /\ j.at = "upsert"
      <4>1. job[s] \in Job /\ 0 \in 0 .. MaxAttempts - 1
        BY <1>2, Hours
      <4> QED BY <4>1 DEF Job
    <3>2. job' = [job EXCEPT ![s] = j] /\ batch' = [batch EXCEPT ![s] = b] /\ b # <<>>
      BY <1>2, <2>4 DEF UpsertCall, Call
    <3> HIDE DEF j
    <3>3. IsTyped(j, b)
      BY <1>2, <3>1, <3>2 DEF IsTyped
    <3> QED BY <1>1, <2>1, <3>1, <3>2, <3>3, JobStep
  <2> QED BY <2>2, <2>3, <2>4
<1>11. ASSUME NEW s \in Sessions, Retry(s)
       PROVE  TypeOK'
  <2> DEFINE j == [job[s] EXCEPT !.attempt = @ + 1]
  <2>1. j \in Job /\ j.cur = job[s].cur /\ j.end = job[s].end /\ j.at = job[s].at
    BY <1>2, <1>11, Hours DEF Job, Retry
  <2>2. job' = [job EXCEPT ![s] = j] /\ batch' = batch /\ ClockTypeOK'
    BY <1>2, <1>3, <1>11 DEF Retry
  <2> HIDE DEF j
  <2>3. IsTyped(j, batch[s])
    BY <1>2, <2>1 DEF IsTyped
  <2> QED BY <1>1, <1>4, <2>1, <2>2, <2>3, JobStep
<1>12. ASSUME NEW s \in Sessions, GiveUp(s) \/ Return(s)
       PROVE  TypeOK'
  <2>1. /\ job' = [job EXCEPT ![s] = Idle] /\ batch' = batch
        /\ job[s].at = "fetch" /\ UNCHANGED <<now, feed, began>>
    BY <1>12 DEF GiveUp, Return
  <2>2. batch[s] = <<>>
    BY <1>2, <2>1 DEF IsTyped
  <2>3. lastOk' \in -1 .. LastHour /\ since' \in Int /\ gap' \in BOOLEAN
    <3>1. CASE UNCHANGED history
      BY <1>2, <3>1 DEF ClockTypeOK
    <3>2. CASE Return("tick")
      <4>1. /\ lastOk' = began /\ since' = (IF lastOk = -1 THEN began - Behind ELSE since)
            /\ gap' = (gap \/ (lastOk # -1 /\ began > lastOk + Behind - Lag))
        BY <3>2 DEF Return
      <4>2. since' \in Int /\ lastOk' \in -1 .. LastHour
        BY <1>2, <4>1, Hours DEF ClockTypeOK
      <4>3. gap' \in BOOLEAN
        BY <1>2, <4>1 DEF ClockTypeOK
      <4> QED BY <4>2, <4>3
    <3> QED BY <1>12, <3>1, <3>2 DEF GiveUp, Return
  <2>4. ClockTypeOK'
    BY <1>2, <2>1, <2>3 DEF ClockTypeOK
  <2> QED BY <1>1, <1>4, <2>1, <2>2, <2>4, IdleTyped, JobStep
<1>13. ASSUME NEW s \in Sessions, Write(s)
       PROVE  TypeOK'
  BY <1>1, <1>13 DEF Write, WriteRow, TypeOK
<1>14. ASSUME NEW s \in Sessions, Stored(s)
       PROVE  TypeOK'
  <2> DEFINE j == [job[s] EXCEPT !.at = "fetch", !.cur = WindowEnd(s)]
  <2>1. j \in Job /\ j.cur = WindowEnd(s) /\ j.end = job[s].end /\ j.at = "fetch"
    BY <1>2, WindowInRange DEF Job
  <2>2. /\ job' = [job EXCEPT ![s] = j] /\ ClockTypeOK'
        /\ batch' = [batch EXCEPT ![s] = <<>>]
    BY <1>2, <1>3, <1>14 DEF Stored, Commit
  <2> HIDE DEF j
  <2>3. IsTyped(j, <<>>)
    BY <2>1, WindowInRange DEF IsTyped
  <2> QED BY <1>1, <2>1, <2>2, <2>3, JobStep
<1>15. ASSUME NEW s \in Sessions, RollBack(s) /\ Raised(s)
       PROVE  TypeOK'
  <2>1. /\ job' = [job EXCEPT ![s] = Idle] /\ ClockTypeOK'
        /\ batch' = [batch EXCEPT ![s] = <<>>]
    BY <1>3, <1>15 DEF RollBack, Raise, Raised
  <2> QED BY <1>1, <2>1, IdleTyped, JobStep
<1> QED BY <1>5, <1>6, <1>7, <1>8, <1>9, <1>10, <1>11, <1>12, <1>13, <1>14, <1>15
        DEF Next, Step, Lose, SecondTime, Deadlocked

-----------------------------------------------------------------------------
TickUnchanged == job'["tick"] = job["tick"] /\ batch'["tick"] = batch["tick"]

(* What is due, or has to be in the table, was so before, unless a tick    *)
(* begins or returns: a record is not published for the first time later.  *)
LEMMA NothingNewIsDue ==
  ASSUME TypeOK, Clock, now' >= now, now' \in Nat, UNCHANGED <<began, lastOk>>,
         feed' = feed \/ \E l \in Keys : Publish(l),
         NEW k \in Keys, feed'[k] > 0,
         TimeOf[k] + Lag < began \/ TimeOf[k] < lastOk - Lag
  PROVE  feed[k] > 0
<1>1. /\ now \in Nat /\ began \in Nat /\ lastOk \in Int
      /\ TimeOf[k] \in Nat /\ Lag \in Nat /\ feed \in [Keys -> Nat]
  BY Hours DEF TypeOK
<1>2. TimeOf[k] + Lag < now
  BY <1>1 DEF Clock
<1>3. ASSUME NEW l \in Keys, Publish(l)
      PROVE  feed[k] > 0
  <2>1. CASE l = k
    BY <1>1, <1>2, <1>3, <2>1 DEF Publish
  <2>2. CASE l # k
    BY <1>1, <1>3, <2>2 DEF Publish
  <2> QED BY <2>1, <2>2
<1> QED BY <1>3

(* A step that is not one of the tick's.                                   *)
LEMMA OthersStep ==
  ASSUME IInv, TypeOK', UpsertStep, TickUnchanged, UNCHANGED history, now' >= now,
         feed' = feed \/ \E l \in Keys : Publish(l)
  PROVE  (Clock /\ Covered /\ InBatch /\ NothingLeftBehind)'
<1> USE DEF IInv, TickUnchanged, history
<1>1. \A k \in Keys : table[k] # Missing => table'[k] # Missing
  BY RowsStay DEF TypeOK, UpsertInv
<1>2. /\ now \in Nat /\ now' \in Nat /\ began \in Nat /\ lastOk \in Int
      /\ feed \in [Keys -> Nat] /\ Lag \in Nat
  BY Hours DEF TypeOK
<1>3. Clock'
  BY <1>2 DEF Clock
<1>4. ASSUME NEW k \in Keys, Due(k)'
      PROVE  Due(k)
  BY <1>2, <1>4, NothingNewIsDue DEF Due
<1>5. Covered'
  BY <1>1, <1>4 DEF Covered
<1>6. \A k \in Keys : IsAskedFor("tick", k)' => IsAskedFor("tick", k)
  BY DEF IsAskedFor, WindowEnd
<1>7. InBatch'
  BY <1>4, <1>6 DEF InBatch
<1>8. NothingLeftBehind'
  <2> SUFFICES ASSUME ~gap, NEW k \in Keys, feed'[k] > 0, since <= TimeOf[k],
                      TimeOf[k] < lastOk - Lag
               PROVE  table'[k] # Missing
    BY DEF NothingLeftBehind
  <2>1. feed[k] > 0
    BY <1>2, NothingNewIsDue
  <2> QED BY <1>1, <2>1 DEF NothingLeftBehind
<1> QED BY <1>3, <1>5, <1>7, <1>8

(* A tick begins.                                                          *)
LEMMA TickStep ==
  ASSUME IInv, Tick
  PROVE  (Clock /\ Covered /\ InBatch /\ NothingLeftBehind)'
<1>1. /\ began' = now /\ UNCHANGED <<table, now, feed, lastOk, since, gap>>
      /\ job' = [job EXCEPT !["tick"] = [at |-> "fetch", cur |-> TickStart,
                                         end |-> now + Ahead, attempt |-> 0]]
  BY DEF Tick, Begin, upsertVars, clockVars
<1>2. now \in Nat /\ began \in Nat /\ lastOk \in Int
  BY Hours DEF IInv, TypeOK
<1>3. Clock'
  BY <1>1, <1>2 DEF IInv, Clock
<1>4. job'["tick"] = [at |-> "fetch", cur |-> now - Behind, end |-> now + Ahead,
                      attempt |-> 0]
  BY <1>1, SessionsAssumption DEF IInv, TypeOK, TickStart
<1>5. Covered'
  BY <1>1, <1>2, <1>4, Hours DEF Covered
<1>6. InBatch'
  BY <1>4 DEF InBatch
<1>7. NothingLeftBehind'
  BY <1>1 DEF IInv, NothingLeftBehind
<1> QED BY <1>3, <1>5, <1>6, <1>7

(* A tick returns: it has covered what was due when it began.              *)
LEMMA ReturnStep ==
  ASSUME IInv, Return("tick")
  PROVE  (Clock /\ Covered /\ InBatch /\ NothingLeftBehind)'
<1>1. /\ job["tick"].at = "fetch" /\ job["tick"].cur >= job["tick"].end
      /\ job' = [job EXCEPT !["tick"] = Idle]
      /\ lastOk' = began /\ UNCHANGED <<table, now, feed, began>>
      /\ since' = IF lastOk = -1 THEN began - Behind ELSE since
      /\ gap' = (gap \/ (lastOk # -1 /\ began > lastOk + Behind - Lag))
  BY DEF Return, upsertVars, clockVars
<1>2. /\ began \in Nat /\ lastOk \in Int /\ since \in Int /\ "tick" \in Sessions
      /\ \A k \in Keys : TimeOf[k] \in Nat
      /\ Ahead \in Nat /\ Behind \in Nat /\ Lag \in Nat
      /\ job["tick"].cur \in Int /\ job["tick"].end \in Int
  BY Hours, SessionsAssumption, WindowInRange DEF IInv, TypeOK
<1>3. job'["tick"].at = "idle"
  BY <1>1, <1>2 DEF IInv, TypeOK, Idle
<1>4. Clock'
  BY <1>1, <1>2 DEF IInv, Clock
<1>5. Covered' /\ InBatch'
  BY <1>3 DEF Covered, InBatch
<1>6. NothingLeftBehind'
  <2> SUFFICES ASSUME ~gap', NEW k \in Keys, feed[k] > 0, since' <= TimeOf[k],
                      TimeOf[k] < began - Lag
               PROVE  table[k] # Missing
    BY <1>1 DEF NothingLeftBehind
  <2>1. CASE began - Behind <= TimeOf[k]
    <3>1. Due(k)
      BY <1>2 DEF Due
    <3>2. job["tick"].end = began + Ahead
      BY <1>1 DEF IInv, Covered
    <3>3. TimeOf[k] < job["tick"].cur
      BY <1>1, <1>2, <3>2
    <3> QED BY <1>1, <2>1, <3>1, <3>3 DEF IInv, Covered
  <2>2. CASE TimeOf[k] < began - Behind
    <3>1. lastOk # -1 /\ since' = since
      BY <1>1, <1>2, <2>2
    <3>2. ~gap /\ began <= lastOk + Behind - Lag
      <4>1. ~gap /\ ~(lastOk # -1 /\ began > lastOk + Behind - Lag)
        BY <1>1, Zenon
      <4>2. ~(began > lastOk + Behind - Lag)
        BY <3>1, <4>1
      <4> QED BY <1>2, <4>1, <4>2
    <3>3. TimeOf[k] < lastOk - Lag
      BY <1>2, <2>2, <3>2
    <3> QED BY <3>1, <3>2, <3>3 DEF IInv, NothingLeftBehind
  <2> QED BY <1>2, <2>1, <2>2
<1> QED BY <1>4, <1>5, <1>6

(* A step of the tick that writes nothing and stays within its window.     *)
LEMMA TickWaits ==
  ASSUME IInv, UNCHANGED <<table, now, feed, history>>,
         job'["tick"].at # "upsert",
         job'["tick"].at # "idle" =>
           /\ job["tick"].at # "idle"
           /\ job'["tick"].cur = job["tick"].cur /\ job'["tick"].end = job["tick"].end
  PROVE  (Clock /\ Covered /\ InBatch /\ NothingLeftBehind)'
<1> USE DEF IInv, history
<1>1. Clock' /\ NothingLeftBehind'
  BY DEF Clock, NothingLeftBehind
<1>2. Covered'
  BY DEF Covered, Due
<1>3. InBatch'
  BY DEF InBatch
<1> QED BY <1>1, <1>2, <1>3

(* A tick fetches a window: the answer has all that is due in it.          *)
LEMMA FetchStep ==
  ASSUME IInv, Fetch("tick")
  PROVE  (Clock /\ Covered /\ InBatch /\ NothingLeftBehind)'
<1> USE DEF history, clockVars, upsertVars
<1>1. /\ UNCHANGED <<now, feed, history>> /\ job["tick"].at = "fetch"
      /\ TypeOK /\ Clock /\ Covered /\ NothingLeftBehind /\ "tick" \in Sessions
      /\ job \in [Sessions -> Job]
  BY SessionsAssumption, TypeParts DEF Fetch, IInv
<1>2. /\ WindowEnd("tick") \in Int /\ job["tick"].cur \in Int
      /\ began \in Nat /\ feed \in [Keys -> Nat]
      /\ \A k \in Keys : TimeOf[k] \in Nat
  BY <1>1, WindowInRange, Hours DEF TypeOK
<1>3. PICK b \in Answers("tick") :
        IF b = <<>>
        THEN /\ job' = [job EXCEPT !["tick"].cur = WindowEnd("tick"), !["tick"].attempt = 0]
             /\ UNCHANGED upsertVars
        ELSE /\ job' = [job EXCEPT !["tick"].at = "upsert", !["tick"].attempt = 0]
             /\ UpsertCall("tick", b)
  BY DEF Fetch
<1>4. UNCHANGED table
  BY <1>3 DEF UpsertCall, Call
<1>5. Clock' /\ NothingLeftBehind'
  BY <1>1, <1>4 DEF Clock, NothingLeftBehind
<1>6. \A k \in Keys : Due(k)' => Due(k)
  BY <1>1 DEF Due
<1>7. CASE b = <<>>
  <2>1. job'["tick"] = [job["tick"] EXCEPT !.cur = WindowEnd("tick"), !.attempt = 0]
    BY <1>1, <1>3, <1>7
  <2>2. /\ job'["tick"].at = "fetch" /\ job'["tick"].end = job["tick"].end
        /\ job'["tick"].cur = WindowEnd("tick")
    BY <1>1, <2>1 DEF Job
  <2>3. ASSUME NEW k \in Keys, Due(k), began - Behind <= TimeOf[k],
               TimeOf[k] < WindowEnd("tick")
        PROVE  table[k] # Missing
    <3>1. CASE TimeOf[k] < job["tick"].cur
      BY <1>1, <2>3, <3>1 DEF Covered
    <3>2. CASE ~(TimeOf[k] < job["tick"].cur)
      <4>1. k \in Asked("tick")
        BY <1>2, <2>3, <3>2 DEF Asked, IsAskedFor, Due
      <4> QED BY <1>1, <1>7, <4>1, AnswerIsComplete
    <3> QED BY <3>1, <3>2
  <2>4. Covered'
    BY <1>1, <1>4, <1>6, <2>2, <2>3 DEF Covered
  <2>5. InBatch'
    BY <2>2 DEF InBatch
  <2> QED BY <1>5, <2>4, <2>5
<1>8. CASE b # <<>>
  <2>1. job'["tick"] = [job["tick"] EXCEPT !.at = "upsert", !.attempt = 0]
    BY <1>1, <1>3, <1>8
  <2>2. /\ job'["tick"].at = "upsert" /\ job'["tick"].end = job["tick"].end
        /\ job'["tick"].cur = job["tick"].cur
    BY <1>1, <2>1 DEF Job
  <2>3. batch'["tick"] = b
    <3>1. batch \in [Sessions -> Seq(Row)]
      BY <1>1 DEF TypeOK, UpsertTypeOK
    <3> QED BY <1>1, <1>3, <1>8, <3>1 DEF UpsertCall, Call
  <2>4. Covered'
    BY <1>1, <1>4, <1>6, <2>2 DEF Covered
  <2>5. ASSUME NEW k \in Keys, Due(k), IsAskedFor("tick", k)'
        PROVE  \E i \in DOMAIN b : b[i].key = k
    <3>1. IsAskedFor("tick", k)
      BY <2>2, <2>5 DEF IsAskedFor, WindowEnd
    <3>2. k \in Asked("tick")
      BY <2>5, <3>1 DEF Asked, Due
    <3> QED BY <1>1, <3>2, AnswerIsComplete
  <2>6. InBatch'
    BY <1>6, <2>3, <2>5 DEF InBatch
  <2> QED BY <1>5, <2>4, <2>6
<1> QED BY <1>7, <1>8

(* A tick commits a window: what was due in it is stored.                  *)
LEMMA StoredStep ==
  ASSUME IInv, Stored("tick")
  PROVE  (Clock /\ Covered /\ InBatch /\ NothingLeftBehind)'
<1> USE DEF history, clockVars
<1>1. /\ UNCHANGED <<now, feed, history>> /\ "tick" \in Sessions
      /\ TypeOK /\ Clock /\ Covered /\ InBatch /\ NothingLeftBehind
      /\ job \in [Sessions -> Job] /\ \A s \in Sessions : IsTyped(job[s], batch[s])
  BY SessionsAssumption, TypeParts DEF Stored, IInv
<1>2. /\ WindowEnd("tick") \in Int /\ job["tick"].cur \in Int
      /\ \A k \in Keys : TimeOf[k] \in Nat
  BY <1>1, WindowInRange, Hours DEF TypeOK
<1>3. job["tick"].at = "upsert"
  BY <1>1 DEF Stored, Commit, IsTyped
<1>4. /\ job'["tick"].at = "fetch" /\ job'["tick"].end = job["tick"].end
      /\ job'["tick"].cur = WindowEnd("tick")
  BY <1>1 DEF Stored, Job
<1>5. table' = Merged(table, batch["tick"], DOMAIN batch["tick"])
      /\ table \in [Keys -> Values \cup {Missing}] /\ batch["tick"] \in Seq(Row)
  <2>1. table \in [Keys -> Values \cup {Missing}] /\ batch["tick"] \in Seq(Row)
    BY <1>1 DEF TypeOK, UpsertTypeOK
  <2>2. UpsertInv
    BY <1>1 DEF IInv, UpsertInv, TypeOK
  <2> QED BY <1>1, <2>1, <2>2, CommitMerges DEF Stored
<1>6. \A k \in Keys :
        table[k] # Missing \/ (\E i \in DOMAIN batch["tick"] : batch["tick"][i].key = k)
          => table'[k] # Missing
  BY <1>5, MergedStays
<1>7. Clock' /\ NothingLeftBehind'
  BY <1>1, <1>6 DEF Clock, NothingLeftBehind
<1>8. ASSUME NEW k \in Keys, Due(k), began - Behind <= TimeOf[k],
             TimeOf[k] < WindowEnd("tick")
      PROVE  table'[k] # Missing
  <2>1. CASE TimeOf[k] < job["tick"].cur
    BY <1>1, <1>3, <1>6, <1>8, <2>1 DEF Covered
  <2>2. CASE ~(TimeOf[k] < job["tick"].cur)
    <3>1. IsAskedFor("tick", k)
      BY <1>2, <1>8, <2>2 DEF IsAskedFor
    <3> QED BY <1>1, <1>3, <1>6, <1>8, <3>1 DEF InBatch
  <2> QED BY <2>1, <2>2
<1>9. Covered'
  BY <1>1, <1>3, <1>4, <1>8 DEF Covered, Due
<1>10. InBatch'
  BY <1>4 DEF InBatch
<1> QED BY <1>7, <1>9, <1>10

(* The invariant is inductive.                                             *)
LEMMA InvStep ==
  ASSUME IInv, [Next]_vars
  PROVE  IInv'
<1> USE DEF upsertVars, clockVars, history
<1>1. UpsertInv /\ TypeOK
  BY DEF IInv, UpsertInv, TypeOK
<1>2. TypeOK' /\ UpsertStep
  BY <1>1, TypeStep, StepIsUpsertStep
<1>3. Locking'
  BY <1>1, <1>2, UpsertInvStep DEF UpsertInv
<1>4. /\ job \in [Sessions -> Job] /\ batch \in [Sessions -> Seq(Row)]
      /\ "tick" \in Sessions /\ now \in Nat
      /\ \A s \in Sessions : IsTyped(job[s], batch[s])
  BY <1>1, TypeParts, SessionsAssumption DEF TypeOK, UpsertTypeOK
<1> DEFINE Rest == Clock /\ Covered /\ InBatch /\ NothingLeftBehind
<1>5. CASE UNCHANGED vars
  <2>1. TickUnchanged /\ UNCHANGED <<history, now, feed>>
    BY <1>5 DEF vars, TickUnchanged
  <2>2. Rest'
    BY <1>2, <1>4, <2>1, OthersStep
  <2> QED BY <1>2, <1>3, <2>2 DEF IInv
<1>6. CASE Advance \/ Backfill \/ \E k \in Keys : Publish(k)
  <2>1. /\ UNCHANGED history /\ now' >= now
        /\ feed' = feed \/ \E l \in Keys : Publish(l)
    BY <1>4, <1>6 DEF Advance, Backfill, Begin, Publish
  <2>2. TickUnchanged
    BY <1>4, <1>6 DEF Advance, Backfill, Begin, Publish, TickUnchanged
  <2>3. Rest'
    BY <1>2, <2>1, <2>2, OthersStep
  <2> QED BY <1>2, <1>3, <2>3 DEF IInv
<1>7. CASE Tick
  BY <1>2, <1>3, <1>7, TickStep DEF IInv
<1>8. ASSUME NEW s \in Sessions, Step(s) \/ Lose(s), s # "tick"
      PROVE  IInv'
  <2>1. /\ UNCHANGED <<history, now, feed>>
    BY <1>8 DEF Step, Lose, Return, GiveUp, Retry, Fetch, Stored, Write, Raised
  <2>2. TickUnchanged
    BY <1>4, <1>8 DEF TickUnchanged, Step, Lose, Return, GiveUp, Retry, Fetch, Stored,
          Write, Raised, RollBack, Raise, Commit, WriteRow, SecondTime, Deadlocked,
          UpsertCall, Call
  <2>3. Rest'
    BY <1>2, <1>4, <2>1, <2>2, OthersStep
  <2> QED BY <1>2, <1>3, <2>3 DEF IInv
<1>9. ASSUME Return("tick") \/ Fetch("tick") \/ Stored("tick")
      PROVE  IInv'
  BY <1>2, <1>3, <1>9, ReturnStep, FetchStep, StoredStep DEF IInv
<1>10. ASSUME GiveUp("tick") \/ (RollBack("tick") /\ Raised("tick"))
       PROVE  IInv'
  <2>1. /\ UNCHANGED <<table, now, feed, history>>
        /\ job' = [job EXCEPT !["tick"] = Idle]
    BY <1>10 DEF GiveUp, RollBack, Raise, Raised
  <2>2. job'["tick"].at = "idle"
    BY <1>4, <2>1 DEF Idle
  <2>3. Rest'
    BY <2>1, <2>2, TickWaits
  <2> QED BY <1>2, <1>3, <2>3 DEF IInv
<1>11. CASE Retry("tick")
  <2>1. /\ UNCHANGED <<table, now, feed, history>> /\ job["tick"].at = "fetch"
        /\ job' = [job EXCEPT !["tick"].attempt = @ + 1]
    BY <1>11 DEF Retry
  <2>2. /\ job'["tick"].at = "fetch" /\ job'["tick"].cur = job["tick"].cur
        /\ job'["tick"].end = job["tick"].end
    BY <1>4, <2>1 DEF Job
  <2>3. Rest'
    BY <2>1, <2>2, TickWaits
  <2> QED BY <1>2, <1>3, <2>3 DEF IInv
<1>12. CASE Write("tick")
  <2>1. TickUnchanged /\ UNCHANGED <<history, now, feed>>
    BY <1>12 DEF Write, WriteRow, TickUnchanged
  <2>2. Rest'
    BY <1>2, <1>4, <2>1, OthersStep
  <2> QED BY <1>2, <1>3, <2>2 DEF IInv
<1>13. ASSUME NEW s \in Sessions, Step(s) \/ Lose(s), s = "tick"
       PROVE  IInv'
  <2>1. SecondTime("tick") \/ Deadlocked("tick") => RollBack("tick")
    BY DEF SecondTime, Deadlocked
  <2>2. Step("tick") \/ Lose("tick")
    BY <1>13
  <2> QED BY <1>9, <1>10, <1>11, <1>12, <2>1, <2>2 DEF Step, Lose
<1> HIDE DEF upsertVars, clockVars, history, Rest
<1> QED BY <1>5, <1>6, <1>7, <1>8, <1>13, Zenon DEF Next

-----------------------------------------------------------------------------
(* The invariant holds in every state.                                     *)
LEMMA Invariant == Spec => []IInv
<1>1. RollingInit => IInv
  BY InitIInv
<1>2. IInv /\ [Next]_vars => IInv'
  BY InvStep
<1> QED BY <1>1, <1>2, PTL DEF Spec

(* The types: the rows of a batch are written one by one within its call,  *)
(* whose next window never passes the end of its range (run_windows).      *)
THEOREM TypeTheorem == Spec => []TypeOK
<1>1. IInv => TypeOK
  BY DEF IInv
<1> QED BY <1>1, Invariant, PTL

(* However many ticks fail, if those that return began close enough then   *)
(* every record published in time is stored (scheduler.py, the ticks of    *)
(* boalf, pn and mels), for every reach, window and lag.                   *)
THEOREM NothingLeftBehindTheorem == Spec => []NothingLeftBehind
<1>1. IInv => NothingLeftBehind
  BY DEF IInv
<1> QED BY <1>1, Invariant, PTL

(* Both paths of upsert (db.py), interleaved row by row with calls from    *)
(* other connections, have the effect of one atomic step each.             *)
THEOREM RefinementTheorem == Spec => ImplementsAtomicUpserts
<1>1. RollingInit => AtomicInit
  BY DEF RollingInit, UpsertInit
<1>2. IInv /\ [Next]_vars => [AtomicNext]_atomicVars
  <2> SUFFICES ASSUME IInv, [Next]_vars
               PROVE  [AtomicNext]_atomicVars
    OBVIOUS
  <2>1. UpsertInv
    BY DEF IInv, TypeOK, UpsertInv
  <2> QED BY <2>1, StepIsUpsertStep, UpsertIsAtomic
<1> QED BY <1>1, <1>2, Invariant, PTL DEF Spec, ImplementsAtomicUpserts, AtomicSpec

(* DISTINCT ON leaves the merge no row to touch a second time (db.py,      *)
(* _upsert_copy), for every batch.                                         *)
THEOREM NeverASecondTimeTheorem == Spec => NeverASecondTime
<1>1. IInv => [\A s \in Sessions : ~SecondTime(s)]_upsertVars
  BY NotASecondTime DEF IInv, TypeOK, UpsertInv
<1> QED BY <1>1, Invariant, PTL DEF NeverASecondTime

(* Sessions that lock each other out are never all merging staged rows.    *)
THEOREM CopiesNeverDeadlockTheorem == Spec => []CopiesNeverDeadlock
<1>1. IInv => CopiesNeverDeadlock
  <2> SUFFICES ASSUME IInv, NEW C \in SUBSET Sessions, C # {}, IsCycle(C)
               PROVE  \E s \in C : ~ByCopy(batch[s])
    BY DEF CopiesNeverDeadlock
  <2>1. PICK s \in C, t \in C : WaitsFor(s, t)
    BY DEF IsCycle
  <2>2. PICK u \in C : WaitsFor(t, u)
    BY DEF IsCycle
  <2>3. u = s
    BY <2>1, <2>2, SessionsAssumption DEF WaitsFor
  <2>4. UpsertInv
    BY DEF IInv, TypeOK, UpsertInv
  <2> QED BY <2>1, <2>2, <2>3, <2>4, NoTwoCopiesWait
<1> QED BY <1>1, Invariant, PTL
=============================================================================
