--------------------------- MODULE B1610CaggsProofs ---------------------------
(***************************************************************************)
(* Proofs about b1610 and its aggregates, for every reach of the policies, *)
(* range of the tick, and number of days, backfills and failures.          *)
(***************************************************************************)
EXTENDS DailyRollup, TLAPS

-----------------------------------------------------------------------------
(* Facts about the operators.                                              *)

(* A refresh copies the rows of its window and touches no other aggregate. *)
LEMMA RefreshedProperties ==
  ASSUME NEW c \in Caggs, NEW window,
         table \in [Days -> Version], cagg \in [Caggs -> [Days -> Version]]
  PROVE  /\ Refreshed(c, window) \in [Caggs -> [Days -> Version]]
         /\ \A d \in window \cap Days : Refreshed(c, window)[c][d] = table[d]
         /\ \A b \in Caggs, d \in Days :
              b # c \/ d \notin window => Refreshed(c, window)[b][d] = cagg[b][d]
<1>1. [d \in Days |-> IF d \in window THEN table[d] ELSE cagg[c][d]] \in [Days -> Version]
  OBVIOUS
<1> QED
  BY <1>1 DEF Refreshed

(* The next aggregate is one of the two.                                   *)
LEMMA NextCaggType == \A j \in Jobs : NextCagg(j) \in Caggs
BY DEF NextCagg, Caggs

-----------------------------------------------------------------------------
(* Types, and where the variables of a job stand to each other: a job that *)
(* writes day cur has stored nothing later, and nothing after its range.   *)

JobType ==
  [at : {"idle", "fetch", "upsert", "mark", "refresh"},
   start : 0 .. LastDay, end : 0 .. LastDay, cur : 0 .. LastDay + 1,
   batch : Version, last : 0 .. LastDay, upTo : 0 .. LastDay,
   left : SUBSET Caggs]

RangeInv ==
  \A j \in Jobs :
    /\ job[j].end <= LastDay
    /\ job[j].at # "idle" => 0 < job[j].start /\ job[j].last <= job[j].end
    /\ job[j].at \in {"fetch", "upsert"} =>
         /\ job[j].start <= job[j].cur
         /\ job[j].last < job[j].cur
         /\ job[j].cur <= job[j].end + 1
    /\ job[j].at = "upsert" => job[j].cur <= job[j].end

(* The specification without its fairness.                                 *)
Safety == Init /\ [][Next]_vars

(* Every variable stays in its range, and no window begins after the end.  *)
LEMMA RangeInvariant == Safety => [](TypeOK /\ RangeInv)
<1>1. Init => TypeOK /\ RangeInv
  <2> SUFFICES ASSUME Init PROVE TypeOK /\ RangeInv
    OBVIOUS
  <2>1. {0, 1} \subseteq Version /\ 0 \in 0 .. LastDay /\ 0 \in 0 .. LastDay + 1
        /\ 0 \in 0 .. MaxBackfills /\ 0 \in 0 .. MaxFailures
        /\ FirstToday \in FirstToday .. LastDay
    BY DaysAssumption DEF Version
  <2>2. Idle \in JobType
    BY <2>1 DEF Idle, JobType
  <2>3. /\ feed \in [Days -> Version]
        /\ cagg \in [Caggs -> [Days -> Version]] /\ exposed \in BOOLEAN
    BY <2>1 DEF Init
  <2>4. TypeOK
    BY <2>1, <2>2, <2>3 DEF Init, TypeOK, JobType
  <2>5. RangeInv
    BY DaysAssumption DEF Init, RangeInv, Idle
  <2> QED
    BY <2>4, <2>5
<1>2. TypeOK /\ RangeInv /\ [Next]_vars => (TypeOK /\ RangeInv)'
  <2> SUFFICES ASSUME TypeOK, RangeInv, [Next]_vars PROVE TypeOK' /\ RangeInv'
    OBVIOUS
  <2>0. /\ today \in Nat /\ LastDay \in Nat /\ Reach \in Nat /\ today <= LastDay
        /\ 0 \in Version
        /\ job \in [Jobs -> JobType]
    BY DaysAssumption DEF TypeOK, JobType, Version
  <2> DEFINE JobStep(j, r) == job' = [job EXCEPT ![j] = r]
  <2> DEFINE InRange(r) ==
        /\ r.end <= LastDay
        /\ r.at # "idle" => 0 < r.start /\ r.last <= r.end
        /\ r.at \in {"fetch", "upsert"} =>
             r.start <= r.cur /\ r.last < r.cur /\ r.cur <= r.end + 1
        /\ r.at = "upsert" => r.cur <= r.end
  <2>1. ASSUME NEW j \in Jobs, NEW r \in JobType, JobStep(j, r), InRange(r),
               today' = today
        PROVE  job' \in [Jobs -> JobType] /\ RangeInv'
    <3>1. job' \in [Jobs -> JobType]
      BY <2>0, <2>1
    <3>2. job'[j] = r /\ \A i \in Jobs \ {j} : job'[i] = job[i]
      BY <2>0, <2>1
    <3> QED
      BY <2>1, <3>1, <3>2 DEF RangeInv
  <2>2. Idle \in JobType /\ InRange(Idle)
    BY <2>0, DaysAssumption DEF Idle, JobType
  <2>3. ASSUME NEW d \in Days, Publish(d) PROVE TypeOK' /\ RangeInv'
    <3>1. feed[d] + 1 \in Version
      BY <2>3, DaysAssumption DEF Publish, Final, TypeOK, Version
    <3>2. feed' \in [Days -> Version]
      BY <2>3, <3>1 DEF Publish, TypeOK
    <3> QED
      BY <2>3, <3>2 DEF Publish, TypeOK, RangeInv
  <2>4. CASE Midnight
    <3>1. today' \in FirstToday .. LastDay
      BY <2>4, DaysAssumption DEF Midnight, TypeOK
    <3>2. RangeInv'
      BY <2>0, <2>4 DEF Midnight, RangeInv, JobType
    <3> QED
      BY <2>4, <3>1, <3>2 DEF Midnight, TypeOK
  <2>5. ASSUME NEW c \in Caggs, Policy(c) PROVE TypeOK' /\ RangeInv'
    <3>1. cagg' \in [Caggs -> [Days -> Version]]
      BY <2>5, RefreshedProperties DEF Policy, TypeOK
    <3> QED
      BY <2>5, <3>1 DEF Policy, TypeOK, RangeInv
  <2>6. ASSUME NEW j \in Jobs, NEW from \in Days, NEW to \in Days,
               from <= to, Begin(j, from, to)
        PROVE  job' \in [Jobs -> JobType] /\ RangeInv'
    <3> DEFINE r == [Idle EXCEPT !.at = "fetch", !.start = from, !.end = to, !.cur = from]
    <3>1. from \in 0 .. LastDay /\ to \in 0 .. LastDay /\ from \in 0 .. LastDay + 1
          /\ 0 < from /\ to <= LastDay /\ from \in Nat
      BY <2>0 DEF Days
    <3>2. r \in JobType
      BY <2>2, <3>1 DEF JobType
    <3>3. InRange(r)
      <4>1. /\ r.at = "fetch" /\ r.start = from /\ r.end = to /\ r.cur = from
            /\ r.last = Idle.last
        BY <2>2 DEF JobType
      <4>2. Idle.last = 0
        BY DEF Idle
      <4> HIDE DEF r
      <4> QED
        BY <2>0, <2>6, <3>1, <4>1, <4>2
    <3>4. JobStep(j, r) /\ today' = today
      BY <2>6 DEF Begin
    <3> HIDE DEF r
    <3> QED
      BY <2>1, <3>2, <3>3, <3>4
  <2>7. CASE Tick
    <3>1. today - TickFrom \in 1 .. today /\ today - TickTo \in 1 .. today
          /\ today - TickFrom <= today - TickTo
          /\ today - TickFrom \in Days /\ today - TickTo \in Days
      BY <2>0, <2>7, DaysAssumption DEF Tick, Days
    <3>2. job' \in [Jobs -> JobType] /\ RangeInv'
      BY <2>6, <2>7, <3>1 DEF Tick, Jobs
    <3> QED
      BY <2>7, <3>2 DEF Tick, Begin, TypeOK, JobType
  <2>8. CASE Backfill
    <3>1. job' \in [Jobs -> JobType] /\ RangeInv'
      BY <2>6, <2>8 DEF Backfill, Jobs
    <3>2. backfills' \in 0 .. MaxBackfills
      BY <2>8, DaysAssumption DEF Backfill, TypeOK
    <3> QED
      BY <2>8, <3>1, <3>2 DEF Backfill, Begin, TypeOK, JobType
  <2>9. ASSUME NEW j \in Jobs, Fetch(j) PROVE TypeOK' /\ RangeInv'
    <3> DEFINE r == [job[j] EXCEPT !.batch = feed[job[j].cur], !.at = "upsert"]
    <3>1. JobStep(j, r)
      BY <2>0, <2>9 DEF Fetch
    <3>2. job[j] \in JobType /\ 0 < job[j].start
          /\ job[j].cur <= job[j].end /\ job[j].start <= job[j].cur
          /\ job[j].end <= LastDay /\ job[j].last < job[j].cur /\ job[j].last <= job[j].end
      BY <2>0, <2>9 DEF Fetch, RangeInv
    <3>3. job[j].cur \in Days
      BY <2>0, <3>2 DEF JobType, Days
    <3>4. feed[job[j].cur] \in Version
      BY <3>3 DEF TypeOK
    <3>5. r \in JobType
      BY <3>2, <3>4 DEF JobType
    <3>6. InRange(r)
      BY <2>0, <3>2 DEF JobType
    <3>7. job' \in [Jobs -> JobType] /\ RangeInv'
      BY <2>1, <2>9, <3>1, <3>5, <3>6 DEF Fetch
    <3> QED
      BY <2>9, <3>7 DEF Fetch, TypeOK, JobType
  <2>10. ASSUME NEW j \in Jobs, Upsert(j) PROVE TypeOK' /\ RangeInv'
    <3> DEFINE d == job[j].cur
               found == job[j].batch > 0
               r == [job[j] EXCEPT !.at = "fetch", !.cur = NextStart(d), !.batch = 0,
                                   !.last = IF found THEN d ELSE @]
    <3>1. JobStep(j, r)
      BY <2>0, <2>10 DEF Upsert
    <3>2. job[j] \in JobType /\ 0 < job[j].start
          /\ d <= job[j].end /\ job[j].start <= d
          /\ job[j].end <= LastDay /\ job[j].last < d /\ job[j].last <= job[j].end
      BY <2>0, <2>10 DEF Upsert, RangeInv
    <3>3. d \in Days
      BY <2>0, <3>2 DEF JobType, Days
    <3>4. r \in JobType
      <4>1. NextStart(d) \in 0 .. LastDay + 1 /\ d \in 0 .. LastDay
        BY <2>0, <3>3 DEF NextStart, Days
      <4>2. (IF found THEN d ELSE job[j].last) \in 0 .. LastDay
        BY <3>2, <4>1 DEF JobType
      <4> QED
        BY <2>0, <3>2, <4>1, <4>2 DEF JobType
    <3>5. InRange(r)
      BY <2>0, <3>2, <3>3 DEF JobType, NextStart, Days
    <3>6. job' \in [Jobs -> JobType] /\ RangeInv'
      BY <2>1, <2>10, <3>1, <3>4, <3>5 DEF Upsert
    <3>7. table' \in [Days -> Version]
      BY <2>10, <3>2 DEF Upsert, TypeOK, JobType
    <3> QED
      BY <2>10, <3>6, <3>7 DEF Upsert, TypeOK, JobType
  <2>11. ASSUME NEW j \in Jobs, Stored(j) PROVE TypeOK' /\ RangeInv'
    <3> DEFINE r == IF job[j].last = 0 THEN Idle ELSE [job[j] EXCEPT !.at = "mark"]
    <3>1. JobStep(j, r)
      BY <2>0, <2>11 DEF Stored
    <3>2. r \in JobType /\ InRange(r)
      BY <2>0, <2>2, <2>11 DEF Stored, RangeInv, JobType
    <3>3. job' \in [Jobs -> JobType] /\ RangeInv'
      BY <2>1, <2>11, <3>1, <3>2 DEF Stored
    <3> QED
      BY <2>11, <3>3 DEF Stored, TypeOK, JobType
  <2>12. ASSUME NEW j \in Jobs, Mark(j) PROVE TypeOK' /\ RangeInv'
    <3> DEFINE r == IF job[j].start < PolicyFloor
                    THEN [job[j] EXCEPT !.at = "refresh", !.left = Caggs,
                            !.upTo = IF job[j].end < PolicyFloor
                                     THEN job[j].end ELSE PolicyFloor]
                    ELSE Idle
    <3>1. JobStep(j, r)
      BY <2>0, <2>12 DEF Mark
    <3>2. job[j] \in JobType /\ job[j].end <= LastDay /\ 0 < job[j].start
          /\ job[j].last <= job[j].end
      BY <2>0, <2>12 DEF Mark, RangeInv
    <3>3. job[j].start < PolicyFloor => PolicyFloor \in 0 .. LastDay
      BY <2>0, <3>2 DEF PolicyFloor, JobType
    <3>4. r \in JobType /\ InRange(r)
      BY <2>2, <3>2, <3>3 DEF JobType
    <3>5. job' \in [Jobs -> JobType] /\ RangeInv'
      BY <2>1, <2>12, <3>1, <3>4 DEF Mark
    <3>6. watermark' \in 0 .. LastDay
      BY <2>12, <3>2 DEF Mark, MarkedDay, JobType
    <3> QED
      BY <2>12, <3>5, <3>6 DEF Mark, TypeOK, JobType
  <2>13. ASSUME NEW j \in Jobs, Refresh(j) PROVE TypeOK' /\ RangeInv'
    <3> DEFINE r == IF job[j].left \ {NextCagg(j)} = {} THEN Idle
                    ELSE [job[j] EXCEPT !.left = job[j].left \ {NextCagg(j)}]
    <3>1. JobStep(j, r)
      BY <2>0, <2>13 DEF Refresh
    <3>2. r \in JobType /\ InRange(r)
      BY <2>0, <2>2, <2>13 DEF Refresh, RangeInv, JobType
    <3>3. job' \in [Jobs -> JobType] /\ RangeInv'
      BY <2>1, <2>13, <3>1, <3>2 DEF Refresh
    <3>4. cagg' \in [Caggs -> [Days -> Version]]
      BY <2>13, NextCaggType, RefreshedProperties DEF Refresh, TypeOK
    <3> QED
      BY <2>13, <3>3, <3>4 DEF Refresh, TypeOK, JobType
  <2>14. ASSUME NEW j \in Jobs, Fail(j) PROVE TypeOK' /\ RangeInv'
    <3>1. job' \in [Jobs -> JobType] /\ RangeInv'
      BY <2>1, <2>2, <2>14 DEF Fail
    <3>2. failures' \in 0 .. MaxFailures /\ exposed' \in BOOLEAN
      BY <2>14, DaysAssumption DEF Fail, TypeOK
    <3> QED
      BY <2>14, <3>1, <3>2 DEF Fail, TypeOK, JobType
  <2>15. CASE UNCHANGED vars
    BY <2>15 DEF vars, TypeOK, RangeInv
  <2> QED
    BY <2>3, <2>4, <2>5, <2>7, <2>8, <2>9, <2>10, <2>11, <2>12, <2>13, <2>14, <2>15
    DEF Next, Work
<1> QED
  BY <1>1, <1>2, PTL DEF Safety


-----------------------------------------------------------------------------
(* Hidden days.                                                            *)

\* Aggregate c does not show day d, and its policy does not reach it.
Hidden(d, c) == d < today - Reach /\ cagg[c][d] # table[d]

(* The inductive form, spelt out: a hidden day has a job that comes.       *)
NoDayGivenUpInv ==
  ~exposed => \A d \in Days, c \in Caggs :
                Hidden(d, c) => \E j \in Jobs : WillRefresh(j, c, d)

(* No day is hidden for good, unless a job failed or the day left the      *)
(* policies' reach just after it was stored: whatever else the tick and a  *)
(* backfill do at the same time, and whenever midnight passes.             *)
LEMMA NoDayGivenUpInvariant == Safety => []NoDayGivenUp
<1>1. Init => NoDayGivenUpInv
  BY DEF Init, NoDayGivenUpInv, Hidden
<1>2. TypeOK /\ RangeInv /\ NoDayGivenUpInv /\ [Next]_vars => NoDayGivenUpInv'
  <2> SUFFICES ASSUME TypeOK, RangeInv, NoDayGivenUpInv, [Next]_vars, ~exposed',
                      NEW d \in Days, NEW c \in Caggs, Hidden(d, c)'
               PROVE  \E j \in Jobs : WillRefresh(j, c, d)'
    BY DEF NoDayGivenUpInv, WillRefresh, Hidden
  <2>0. /\ today \in Int /\ Reach \in Int /\ d \in Int
        /\ job \in [Jobs -> JobType]
        /\ table \in [Days -> Version] /\ cagg \in [Caggs -> [Days -> Version]]
    BY DaysAssumption DEF TypeOK, JobType, Days
  <2>1. ~exposed
    BY Zenon DEF Next, Work, vars, Publish, Midnight, Policy, Tick, Backfill, Begin,
           Fetch, Upsert, Stored, Mark, Refresh, Fail, TypeOK
  <2>2. ASSUME Hidden(d, c) PROVE \E j \in Jobs : WillRefresh(j, c, d)
    BY <2>1, <2>2 DEF NoDayGivenUpInv
  (* Where nobody gives a day up, its job comes after the step too.        *)
  <2>3. ASSUME today' = today /\ table' = table /\ cagg' = cagg,
               \A j \in Jobs : Hidden(d, c) /\ WillRefresh(j, c, d) => WillRefresh(j, c, d)'
        PROVE  \E j \in Jobs : WillRefresh(j, c, d)'
    BY <2>2, <2>3 DEF Hidden
  <2>4. ASSUME NEW e \in Days, Publish(e) PROVE \E j \in Jobs : WillRefresh(j, c, d)'
    BY <2>3, <2>4 DEF Publish, WillRefresh
  <2>5. CASE Midnight
    <3>1. today' = today + 1 /\ UNCHANGED <<table, cagg, job>>
          /\ ~(d = today - Reach /\ Stale(d))
      BY <2>5 DEF Midnight
    <3>2. cagg[c][d] # table[d] /\ d < today + 1 - Reach
      <4>1. cagg'[c][d] # table'[d] /\ d < today' - Reach
        BY DEF Hidden
      <4>2. d < today + 1 - Reach
        BY <2>0, <3>1, <4>1
      <4> QED
        BY <3>1, <4>1, <4>2
    <3>3. d # today - Reach
      BY <3>1, <3>2 DEF Stale
    <3>4. d < today - Reach
      BY <2>0, <3>2, <3>3
    <3> QED
      BY <2>2, <3>1, <3>2, <3>4 DEF Hidden, WillRefresh
  <2>6. ASSUME NEW b \in Caggs, Policy(b) PROVE \E j \in Jobs : WillRefresh(j, c, d)'
    <3>1. cagg' = Refreshed(b, PolicyWindow) /\ UNCHANGED <<today, table, job>>
      BY <2>6 DEF Policy
    <3>2. cagg'[c][d] # table[d]
      BY <3>1 DEF Hidden
    <3>3. cagg'[c][d] = cagg[c][d]
      <4>1. c = b /\ d \in PolicyWindow => cagg'[c][d] = table[d]
        BY <2>0, <3>1, RefreshedProperties
      <4>2. ~(c = b /\ d \in PolicyWindow) => cagg'[c][d] = cagg[c][d]
        BY <2>0, <3>1, RefreshedProperties
      <4> QED
        BY <3>2, <4>1, <4>2
    <3> QED
      BY <2>2, <3>1, <3>2, <3>3 DEF Hidden, WillRefresh
  <2>7. ASSUME NEW j \in Jobs, NEW from, NEW to, Begin(j, from, to)
        PROVE  \E i \in Jobs : WillRefresh(i, c, d)'
    <3>1. /\ job[j].at = "idle" /\ \A i \in Jobs \ {j} : job'[i] = job[i]
          /\ UNCHANGED <<today, table, cagg>>
      BY <2>0, <2>7 DEF Begin
    <3>2. ~WillRefresh(j, c, d)
      BY <3>1 DEF WillRefresh
    <3> QED
      BY <2>3, <3>1, <3>2 DEF WillRefresh
  <2>8. ASSUME NEW j \in Jobs, Fetch(j) PROVE \E i \in Jobs : WillRefresh(i, c, d)'
    <3>1. /\ job[j].at = "fetch"
          /\ job'[j].at = "upsert" /\ job'[j].start = job[j].start
          /\ job'[j].last = job[j].last
          /\ \A i \in Jobs \ {j} : job'[i] = job[i]
          /\ UNCHANGED <<today, table, cagg>>
      BY <2>0, <2>8 DEF Fetch, JobType
    <3> QED
      BY <2>3, <3>1 DEF WillRefresh
  <2>9. ASSUME NEW j \in Jobs, Upsert(j) PROVE \E i \in Jobs : WillRefresh(i, c, d)'
    <3>1. /\ job[j].at = "upsert"
          /\ job'[j].at = "fetch" /\ job'[j].start = job[j].start
          /\ job'[j].last = IF job[j].batch > 0 THEN job[j].cur ELSE job[j].last
          /\ \A i \in Jobs \ {j} : job'[i] = job[i]
          /\ UNCHANGED <<today, cagg>>
          /\ table' = IF job[j].batch > 0
                      THEN [table EXCEPT ![job[j].cur] = job[j].batch] ELSE table
      BY <2>0, <2>9 DEF Upsert, JobType
    <3>2. job[j].start <= job[j].cur /\ job[j].last < job[j].cur
          /\ job[j].last \in Int /\ job[j].cur \in Int
      BY <2>0, <3>1 DEF RangeInv, JobType
    <3>3. CASE job[j].batch > 0 /\ job[j].cur = d
      BY <2>0, <3>1, <3>2, <3>3 DEF WillRefresh
    <3>4. CASE ~(job[j].batch > 0 /\ job[j].cur = d)
      <4>1. table'[d] = table[d]
        BY <2>0, <3>1, <3>4
      <4>2. PICK i \in Jobs : WillRefresh(i, c, d)
        BY <2>2, <3>1, <4>1 DEF Hidden
      <4>3. CASE i = j
        <5>1. job[j].start <= d /\ d <= job[j].last
          BY <3>1, <4>2, <4>3 DEF WillRefresh
        <5>2. d <= job'[j].last
          BY <2>0, <3>1, <3>2, <5>1
        <5> QED
          BY <3>1, <5>1, <5>2 DEF WillRefresh
      <4>4. CASE i # j
        BY <3>1, <4>2, <4>4 DEF WillRefresh
      <4> QED
        BY <4>3, <4>4
    <3> QED
      BY <3>3, <3>4
  <2>10. ASSUME NEW j \in Jobs, Stored(j) PROVE \E i \in Jobs : WillRefresh(i, c, d)'
    <3>1. /\ job[j].at = "fetch"
          /\ UNCHANGED <<today, table, cagg>>
          /\ \A i \in Jobs \ {j} : job'[i] = job[i]
          /\ job[j].last # 0 => /\ job'[j].at = "mark"
                                /\ job'[j].start = job[j].start
                                /\ job'[j].last = job[j].last
      BY <2>0, <2>10 DEF Stored, JobType
    <3>2. WillRefresh(j, c, d) => job[j].last # 0
      BY <3>1 DEF WillRefresh, Days
    <3> QED
      BY <2>3, <3>1, <3>2 DEF WillRefresh
  <2>11. ASSUME NEW j \in Jobs, Mark(j) PROVE \E i \in Jobs : WillRefresh(i, c, d)'
    <3>1. /\ job[j].at = "mark"
          /\ UNCHANGED <<today, table, cagg>>
          /\ \A i \in Jobs \ {j} : job'[i] = job[i]
      BY <2>0, <2>11 DEF Mark
    <3>2. ASSUME job[j].start < PolicyFloor
          PROVE  /\ job'[j].at = "refresh" /\ job'[j].left = Caggs
                 /\ job'[j].start = job[j].start
                 /\ job'[j].upTo = IF job[j].end < PolicyFloor THEN job[j].end
                                   ELSE PolicyFloor
      BY <2>0, <2>11, <3>2 DEF Mark, JobType
    <3>3. ASSUME Hidden(d, c), WillRefresh(j, c, d) PROVE WillRefresh(j, c, d)'
      <4>1. job[j].start <= d /\ d <= job[j].last /\ d < PolicyFloor
        BY <3>1, <3>3 DEF WillRefresh, Hidden, PolicyFloor
      <4>2. /\ job[j].last <= job[j].end
            /\ {job[j].start, job[j].last, job[j].end, PolicyFloor} \subseteq Int
        BY <2>0, <3>1 DEF RangeInv, JobType, PolicyFloor
      <4>3. job[j].start < PolicyFloor /\ d <= job[j].end
        BY <2>0, <4>1, <4>2
      <4>4. d <= job'[j].upTo
        BY <2>0, <3>2, <4>1, <4>2, <4>3
      <4> QED
        BY <3>2, <4>1, <4>3, <4>4 DEF WillRefresh
    <3> QED
      BY <2>3, <3>1, <3>3 DEF WillRefresh
  <2>12. ASSUME NEW j \in Jobs, Refresh(j) PROVE \E i \in Jobs : WillRefresh(i, c, d)'
    <3>1. /\ job[j].at = "refresh" /\ UNCHANGED <<today, table>>
          /\ cagg' = Refreshed(NextCagg(j), RefreshWindow(j))
          /\ \A i \in Jobs \ {j} : job'[i] = job[i]
          /\ job[j].left \ {NextCagg(j)} # {} =>
               /\ job'[j].at = "refresh" /\ job'[j].start = job[j].start
               /\ job'[j].upTo = job[j].upTo
               /\ job'[j].left = job[j].left \ {NextCagg(j)}
      BY <2>0, <2>12 DEF Refresh, JobType
    <3>2. cagg'[c][d] # table[d] /\ d < today - Reach
      BY <3>1 DEF Hidden
    <3>3. cagg'[c][d] = cagg[c][d] /\ ~(c = NextCagg(j) /\ d \in RefreshWindow(j))
      BY <2>0, <3>1, <3>2, NextCaggType, RefreshedProperties
    <3>4. PICK i \in Jobs : WillRefresh(i, c, d)
      BY <2>2, <3>2, <3>3 DEF Hidden
    <3>5. CASE i = j
      <4>1. job[j].start <= d /\ d <= job[j].upTo /\ c \in job[j].left
        BY <3>1, <3>4, <3>5 DEF WillRefresh
      <4>2. d \in RefreshWindow(j)
        BY <2>0, <4>1 DEF RefreshWindow, JobType
      <4>3. c \in job[j].left \ {NextCagg(j)}
        BY <3>3, <4>1, <4>2
      <4> QED
        BY <3>1, <4>1, <4>3 DEF WillRefresh
    <3>6. CASE i # j
      BY <3>1, <3>4, <3>6 DEF WillRefresh
    <3> QED
      BY <3>5, <3>6
  <2>13. ASSUME NEW j \in Jobs, Fail(j) PROVE \E i \in Jobs : WillRefresh(i, c, d)'
    <3>1. UNCHANGED <<today, table, cagg>> /\ ~(d < today - Reach /\ Stale(d))
      BY <2>13 DEF Fail
    <3> QED
      BY <3>1 DEF Stale, Hidden
  <2>14. CASE UNCHANGED vars
    BY <2>3, <2>14 DEF vars, WillRefresh
  <2> QED
    BY <2>4, <2>5, <2>6, <2>7, <2>8, <2>9, <2>10, <2>11, <2>12, <2>13, <2>14
    DEF Next, Work, Tick, Backfill, Jobs
<1>3. NoDayGivenUpInv => NoDayGivenUp
  BY DEF NoDayGivenUpInv, NoDayGivenUp, Hidden
<1> QED
  BY <1>1, <1>2, <1>3, RangeInvariant, PTL DEF Safety

-----------------------------------------------------------------------------
(* The watermark.                                                          *)

\* What a job takes for its last day with rows has rows.
LastInv == \A j \in Jobs : job[j].last > 0 => table[job[j].last] > 0

(* The watermark's day has rows, wherever the range of a tick or a         *)
(* backfill ends and whatever the feed has published of it.                *)
LEMMA WatermarkInvariant == Safety => []WatermarkDayHasRows
<1> DEFINE IInv == LastInv /\ WatermarkDayHasRows
<1>1. Init => IInv
  BY DEF Init, LastInv, WatermarkDayHasRows, Idle
<1>2. TypeOK /\ RangeInv /\ IInv /\ [Next]_vars => IInv'
  <2> SUFFICES ASSUME TypeOK, RangeInv, LastInv, WatermarkDayHasRows, [Next]_vars
               PROVE  LastInv' /\ WatermarkDayHasRows'
    OBVIOUS
  <2>0. /\ job \in [Jobs -> JobType] /\ table \in [Days -> Version]
        /\ watermark \in 0 .. LastDay
    BY DEF TypeOK, JobType
  <2>1. ASSUME table' = table, watermark' = watermark,
               \A j \in Jobs : job'[j].last \in {0, job[j].last}
        PROVE  LastInv' /\ WatermarkDayHasRows'
    BY <2>1 DEF LastInv, WatermarkDayHasRows
  <2>2. ASSUME NEW j \in Jobs, Upsert(j) PROVE LastInv' /\ WatermarkDayHasRows'
    <3>1. /\ watermark' = watermark
          /\ job'[j].last = IF job[j].batch > 0 THEN job[j].cur ELSE job[j].last
          /\ \A i \in Jobs \ {j} : job'[i] = job[i]
          /\ table' = IF job[j].batch > 0
                      THEN [table EXCEPT ![job[j].cur] = job[j].batch] ELSE table
      BY <2>0, <2>2 DEF Upsert, JobType
    <3>2. ASSUME NEW d \in Days, table[d] > 0 PROVE table'[d] > 0
      <4>1. CASE job[j].batch > 0 /\ d = job[j].cur
        BY <2>0, <3>1, <4>1
      <4>2. CASE ~(job[j].batch > 0 /\ d = job[j].cur)
        <5>1. table'[d] = table[d]
          BY <2>0, <3>1, <4>2
        <5> QED
          BY <3>2, <5>1
      <4> QED
        BY <4>1, <4>2
    <3>3. ASSUME NEW i \in Jobs, job[i].last > 0 PROVE job[i].last \in Days
      <4>1. job[i].last \in 0 .. LastDay /\ LastDay \in Nat
        BY <2>0, DaysAssumption DEF JobType
      <4> QED
        BY <3>3, <4>1 DEF Days
    <3>4. ASSUME job[j].batch > 0 PROVE table'[job[j].cur] > 0
      <4>1. job[j].cur \in Days
        <5>1. /\ 0 < job[j].start /\ job[j].start <= job[j].cur
              /\ job[j].cur <= job[j].end
          BY <2>2 DEF Upsert, RangeInv
        <5> QED
          BY <2>0, <5>1, DaysAssumption DEF JobType, Days
      <4> QED
        BY <2>0, <3>1, <3>4, <4>1
    <3>5. LastInv'
      BY <3>1, <3>2, <3>3, <3>4 DEF LastInv
    <3>6. watermark > 0 => watermark \in Days
      BY <2>0, DaysAssumption DEF Days
    <3> QED
      BY <3>1, <3>2, <3>5, <3>6 DEF WatermarkDayHasRows
  <2>3. ASSUME NEW j \in Jobs, Mark(j) PROVE LastInv' /\ WatermarkDayHasRows'
    <3>1. table' = table /\ watermark' = job[j].last
      BY <2>3 DEF Mark, MarkedDay
    <3>2. \A i \in Jobs : job'[i].last \in {0, job[i].last}
      BY <2>0, <2>3 DEF Mark, JobType, Idle
    <3> QED
      BY <3>1, <3>2 DEF LastInv, WatermarkDayHasRows
  <2>4. ASSUME NEW j \in Jobs, Fetch(j) \/ Stored(j) \/ Refresh(j) \/ Fail(j)
        PROVE  LastInv' /\ WatermarkDayHasRows'
    <3>1. table' = table /\ watermark' = watermark
      BY <2>4 DEF Fetch, Stored, Refresh, Fail
    <3>2. \A i \in Jobs : job'[i].last \in {0, job[i].last}
      BY <2>0, <2>4 DEF Fetch, Stored, Refresh, Fail, JobType, Idle
    <3> QED
      BY <2>1, <3>1, <3>2
  <2>5. ASSUME NEW j \in Jobs, NEW from, NEW to, Begin(j, from, to)
        PROVE  LastInv' /\ WatermarkDayHasRows'
    <3>1. table' = table /\ watermark' = watermark
      BY <2>5 DEF Begin
    <3>2. \A i \in Jobs : job'[i].last \in {0, job[i].last}
      BY <2>0, <2>5 DEF Begin, JobType, Idle
    <3> QED
      BY <2>1, <3>1, <3>2
  <2>6. CASE \/ \E d \in Days : Publish(d)
             \/ Midnight
             \/ \E c \in Caggs : Policy(c)
             \/ UNCHANGED vars
    BY <2>1, <2>6 DEF Publish, Midnight, Policy, vars
  <2> QED
    BY <2>2, <2>3, <2>4, <2>5, <2>6 DEF Next, Work, Tick, Backfill, Jobs
<1> QED
  BY <1>1, <1>2, RangeInvariant, PTL DEF Safety

-----------------------------------------------------------------------------
(* A job that is done.                                                     *)

\* A tick does not last until its days leave the policies' reach (16 days).
TickIsPrompt == job["tick"].at # "idle" => today - Reach < job["tick"].start

(* While a backfill refreshes, its days up to upTo are shown by the        *)
(* aggregates that it has refreshed; a later day that has left the         *)
(* policies' reach since is shown, because they ran before midnight.       *)
DoneInv ==
  job["backfill"].at = "refresh" =>
    /\ job["backfill"].upTo <= today - Reach
    /\ \A d \in Days, c \in Caggs :
         /\ job["backfill"].start <= d /\ d <= job["backfill"].end
         /\ \/ d <= job["backfill"].upTo /\ c \notin job["backfill"].left
            \/ d > job["backfill"].upTo /\ d = today - Reach /\ c \in folded
            \/ d > job["backfill"].upTo /\ d < today - Reach
         => cagg[c][d] = table[d]

LEMMA DoneInductive ==
  ASSUME TypeOK, RangeInv, TickIsPrompt, DoneInv, [Next]_vars
  PROVE  DoneInv'
<1> DEFINE b == job["backfill"]
<1>0. /\ today \in Nat /\ Reach \in Nat /\ LastDay \in Nat
      /\ job \in [Jobs -> JobType] /\ b \in JobType /\ "backfill" \in Jobs /\ "tick" \in Jobs
      /\ table \in [Days -> Version] /\ cagg \in [Caggs -> [Days -> Version]]
  BY DaysAssumption DEF TypeOK, JobType, Jobs
<1>1. CASE b'.at # "refresh"
  BY <1>1 DEF DoneInv
<1>2. ASSUME UNCHANGED <<today, table, cagg, folded>>, b' = b
      PROVE  DoneInv'
  BY <1>2 DEF DoneInv
(* What copies rows into an aggregate hides none that it showed.           *)
<1>3. ASSUME NEW a \in Caggs, NEW window, cagg' = Refreshed(a, window), table' = table,
             NEW c \in Caggs, NEW d \in Days, cagg[c][d] = table[d]
      PROVE  cagg'[c][d] = table'[d]
  <2>1. CASE c = a /\ d \in window
    BY <1>0, <1>3, <2>1, RefreshedProperties
  <2>2. CASE ~(c = a /\ d \in window)
    BY <1>0, <1>3, <2>2, RefreshedProperties
  <2> QED
    BY <2>1, <2>2
<1>4. ASSUME NEW d \in Days, Publish(d) PROVE DoneInv'
  BY <1>2, <1>4 DEF Publish
<1>5. CASE Midnight
  <2>1. today' = today + 1 /\ folded = Caggs /\ folded' = {} /\ UNCHANGED <<table, cagg, job>>
    BY <1>5 DEF Midnight
  <2>2. SUFFICES ASSUME b.at = "refresh"
                 PROVE  DoneInv'
    BY <1>1, <2>1
  <2>3. b.upTo \in Nat /\ b.upTo <= today - Reach
    BY <1>0, <2>2 DEF DoneInv, JobType
  <2>4. b.upTo <= today + 1 - Reach
    BY <1>0, <2>3
  <2>5. ASSUME NEW d \in Days, NEW c \in Caggs, b.start <= d, d <= b.end,
               \/ d <= b.upTo /\ c \notin b.left
               \/ d > b.upTo /\ d < today + 1 - Reach
        PROVE  cagg[c][d] = table[d]
    <3>1. d \in Nat
      BY <1>0 DEF Days
    <3>2. d < today + 1 - Reach => d = today - Reach \/ d < today - Reach
      BY <1>0, <3>1
    <3> QED
      BY <2>1, <2>2, <2>5, <3>2 DEF DoneInv
  <2>6. /\ b' = b /\ cagg' = cagg /\ table' = table /\ folded' = {}
        /\ today' - Reach = today + 1 - Reach
    BY <1>0, <2>1
  <2>7. ASSUME NEW d \in Days, NEW c \in Caggs, b'.start <= d, d <= b'.end,
               \/ d <= b'.upTo /\ c \notin b'.left
               \/ d > b'.upTo /\ d = today' - Reach /\ c \in folded'
               \/ d > b'.upTo /\ d < today' - Reach
        PROVE  cagg'[c][d] = table'[d]
    BY <2>5, <2>6, <2>7
  <2>8. b'.upTo <= today' - Reach
    BY <2>4, <2>6
  <2> QED
    BY <2>7, <2>8 DEF DoneInv
<1>6. ASSUME NEW a \in Caggs, Policy(a) PROVE DoneInv'
  <2>1. /\ cagg' = Refreshed(a, PolicyWindow) /\ folded' = folded \cup {a}
        /\ UNCHANGED <<today, table, job>>
    BY <1>6 DEF Policy
  <2>2. SUFFICES ASSUME b.at = "refresh",
                        NEW d \in Days, NEW c \in Caggs, b.start <= d, d <= b.end,
                        \/ d <= b.upTo /\ c \notin b.left
                        \/ d > b.upTo /\ d = today - Reach /\ c \in folded \cup {a}
                        \/ d > b.upTo /\ d < today - Reach
                 PROVE  cagg'[c][d] = table[d]
    BY <1>1, <2>1 DEF DoneInv
  <2>3. CASE d = today - Reach /\ c = a
    <3>1. d \in PolicyWindow
      BY <1>0, <2>3, DaysAssumption DEF PolicyWindow
    <3> QED
      BY <1>0, <2>1, <2>3, <3>1, RefreshedProperties
  <2>4. CASE ~(d = today - Reach /\ c = a)
    <3>1. cagg[c][d] = table[d]
      BY <2>2, <2>4 DEF DoneInv
    <3> QED
      BY <1>3, <2>1, <3>1
  <2> QED
    BY <2>3, <2>4
<1>7. CASE Tick
  <2>1. b' = b /\ UNCHANGED <<today, table, cagg, folded>>
    BY <1>0, <1>7 DEF Tick, Begin
  <2> QED
    BY <1>2, <2>1
<1>8. CASE Backfill
  <2>1. b'.at = "fetch"
    BY <1>0, <1>8 DEF Backfill, Begin, JobType, Idle
  <2> QED
    BY <1>1, <2>1
<1>9. ASSUME NEW j \in Jobs, Fetch(j) \/ Stored(j) \/ Fail(j)
      PROVE  DoneInv'
  <2>1. UNCHANGED <<today, table, cagg, folded>>
    BY <1>9 DEF Fetch, Stored, Fail
  <2>2. CASE j = "tick"
    <3>1. b' = b
      BY <1>0, <1>9, <2>2 DEF Fetch, Stored, Fail
    <3> QED
      BY <1>2, <2>1, <3>1
  <2>3. CASE j = "backfill"
    <3>1. b'.at # "refresh"
      BY <1>0, <1>9, <2>3 DEF Fetch, Stored, Fail, JobType, Idle
    <3> QED
      BY <1>1, <3>1
  <2> QED
    BY <2>2, <2>3 DEF Jobs
<1>10. ASSUME NEW j \in Jobs, Upsert(j) PROVE DoneInv'
  <2>1. CASE j = "backfill"
    <3>1. b'.at # "refresh"
      BY <1>0, <1>10, <2>1 DEF Upsert, JobType
    <3> QED
      BY <1>1, <3>1
  <2>2. CASE j = "tick"
    <3> DEFINE e == job["tick"].cur
    <3>1. /\ b' = b /\ UNCHANGED <<today, cagg, folded>>
          /\ table' = IF job["tick"].batch > 0 THEN [table EXCEPT ![e] = job["tick"].batch] ELSE table
      BY <1>0, <1>10, <2>2 DEF Upsert
    <3>2. job["tick"].at = "upsert" /\ job["tick"].start <= e
          /\ today - Reach < job["tick"].start
          /\ job["tick"].start \in Nat /\ e \in Nat
      BY <1>0, <1>10, <2>2 DEF Upsert, RangeInv, TickIsPrompt, JobType
    <3>3. today - Reach < e
      BY <1>0, <3>2
    <3>4. \A d \in Days : d <= today - Reach => table'[d] = table[d]
      <4>1. ASSUME NEW d \in Days, d <= today - Reach PROVE d # e
        BY <1>0, <3>2, <3>3, <4>1 DEF Days
      <4> QED
        BY <1>0, <3>1, <4>1
    <3>5. SUFFICES ASSUME b.at = "refresh",
                          NEW d \in Days, NEW c \in Caggs, b.start <= d, d <= b.end,
                          \/ d <= b.upTo /\ c \notin b.left
                          \/ d > b.upTo /\ d = today - Reach /\ c \in folded
                          \/ d > b.upTo /\ d < today - Reach
                   PROVE  cagg[c][d] = table'[d]
      BY <3>1 DEF DoneInv
    <3>6. b.upTo <= today - Reach /\ cagg[c][d] = table[d]
      BY <3>5 DEF DoneInv
    <3>7. d <= today - Reach
      <4>1. d \in Nat /\ b.upTo \in Nat
        BY <1>0 DEF Days, JobType
      <4> QED
        BY <1>0, <3>5, <3>6, <4>1
    <3> QED
      BY <3>4, <3>6, <3>7
  <2> QED
    BY <2>1, <2>2 DEF Jobs
<1>11. ASSUME NEW j \in Jobs, Mark(j) PROVE DoneInv'
  <2>1. UNCHANGED <<today, table, cagg, folded>>
    BY <1>11 DEF Mark
  <2>2. CASE j = "tick"
    <3>1. b' = b
      BY <1>0, <1>11, <2>2 DEF Mark
    <3> QED
      BY <1>2, <2>1, <3>1
  <2>3. CASE j = "backfill" /\ ~(b.start < PolicyFloor)
    <3>1. b'.at # "refresh"
      BY <1>0, <1>11, <2>3 DEF Mark, Idle
    <3> QED
      BY <1>1, <3>1
  <2>4. CASE j = "backfill" /\ b.start < PolicyFloor
    <3>1. /\ b'.left = Caggs /\ b'.start = b.start /\ b'.end = b.end
          /\ b'.upTo = IF b.end < PolicyFloor THEN b.end ELSE PolicyFloor
      BY <1>0, <1>11, <2>4 DEF Mark, JobType
    <3>2. b.end \in Nat /\ PolicyFloor = today - Reach
      BY <1>0 DEF JobType, PolicyFloor
    <3>3. b'.upTo <= today - Reach
      BY <1>0, <3>1, <3>2
    <3>4. ASSUME NEW d \in Days, d <= b.end, d > b'.upTo PROVE d > today - Reach
      BY <1>0, <3>1, <3>2, <3>4 DEF Days
    <3>5. \A d \in Days : d > today - Reach => ~(d = today - Reach \/ d < today - Reach)
      BY <1>0 DEF Days
    <3> QED
      BY <2>1, <3>1, <3>3, <3>4, <3>5 DEF DoneInv
  <2> QED
    BY <2>2, <2>3, <2>4 DEF Jobs
<1>12. ASSUME NEW j \in Jobs, Refresh(j) PROVE DoneInv'
  <2>1. /\ cagg' = Refreshed(NextCagg(j), RefreshWindow(j)) /\ NextCagg(j) \in Caggs
        /\ UNCHANGED <<today, table, folded>>
    BY <1>12, NextCaggType DEF Refresh
  <2>2. CASE j = "tick"
    <3>1. b' = b
      BY <1>0, <1>12, <2>2 DEF Refresh
    <3>2. SUFFICES ASSUME b.at = "refresh",
                          NEW d \in Days, NEW c \in Caggs, b.start <= d, d <= b.end,
                          \/ d <= b.upTo /\ c \notin b.left
                          \/ d > b.upTo /\ d = today - Reach /\ c \in folded
                          \/ d > b.upTo /\ d < today - Reach
                   PROVE  cagg'[c][d] = table[d]
      BY <2>1, <3>1 DEF DoneInv
    <3>3. cagg[c][d] = table[d]
      BY <3>2 DEF DoneInv
    <3> QED
      BY <1>3, <2>1, <3>3
  <2>3. CASE j = "backfill"
    <3>1. b.at = "refresh"
      BY <1>12, <2>3 DEF Refresh
    <3>2. b' = Idle \/ b' = [b EXCEPT !.left = b.left \ {NextCagg(j)}]
      BY <1>0, <1>12, <2>3 DEF Refresh
    <3>3. CASE b' = Idle
      BY <1>1, <3>3 DEF Idle
    <3>4. CASE b' = [b EXCEPT !.left = b.left \ {NextCagg(j)}]
      <4>1. /\ b'.left = b.left \ {NextCagg(j)} /\ b'.start = b.start /\ b'.end = b.end
            /\ b'.upTo = b.upTo
        BY <1>0, <3>4 DEF JobType
      <4>2. SUFFICES ASSUME NEW d \in Days, NEW c \in Caggs, b.start <= d, d <= b.end,
                            \/ d <= b.upTo /\ c \notin b.left \ {NextCagg(j)}
                            \/ d > b.upTo /\ d = today - Reach /\ c \in folded
                            \/ d > b.upTo /\ d < today - Reach
                     PROVE  cagg'[c][d] = table[d]
        BY <2>1, <3>1, <4>1 DEF DoneInv
      <4>3. CASE d <= b.upTo /\ c = NextCagg(j)
        <5>1. d \in RefreshWindow(j)
          BY <1>0, <2>3, <4>2, <4>3 DEF RefreshWindow, JobType, Days
        <5> QED
          BY <1>0, <2>1, <4>3, <5>1, RefreshedProperties
      <4>4. CASE ~(d <= b.upTo /\ c = NextCagg(j))
        <5>1. cagg[c][d] = table[d]
          BY <3>1, <4>2, <4>4 DEF DoneInv
        <5> QED
          BY <1>3, <2>1, <5>1
      <4> QED
        BY <4>3, <4>4
    <3> QED
      BY <3>2, <3>3, <3>4
  <2> QED
    BY <2>2, <2>3 DEF Jobs
<1>13. CASE UNCHANGED vars
  BY <1>2, <1>13 DEF vars
<1> QED
  BY <1>4, <1>5, <1>6, <1>7, <1>8, <1>9, <1>10, <1>11, <1>12, <1>13 DEF Next, Work

(* A job that ends without an error leaves no day of its range hidden.     *)
LEMMA DoneStep ==
  ASSUME TypeOK, RangeInv, TickIsPrompt, DoneInv, Next,
         NEW j \in Jobs, job[j].at \in {"mark", "refresh"}, job'[j] = Idle, failures' = failures,
         NEW d \in job[j].start .. job[j].end, NEW c \in Caggs
  PROVE  d >= today - Reach \/ cagg'[c][d] = table[d]
<1>0. /\ today \in Nat /\ Reach \in Nat /\ LastDay \in Nat /\ failures \in Nat
      /\ job \in [Jobs -> JobType] /\ job[j] \in JobType
      /\ table \in [Days -> Version] /\ cagg \in [Caggs -> [Days -> Version]]
  BY DaysAssumption DEF TypeOK, JobType, Jobs
<1>1. d \in Days
  <2>1. /\ job[j].start \in Nat /\ job[j].end \in Nat /\ 0 < job[j].start
        /\ job[j].end <= LastDay
    BY <1>0 DEF RangeInv, JobType
  <2> QED
    BY <1>0, <2>1 DEF Days
<1>2. job[j].at # "idle" /\ job'[j].at = "idle"
  BY DEF Idle
<1>3. Mark(j) \/ Refresh(j)
  <2>1. \A i \in Jobs : ~Fail(i)
    BY <1>0 DEF Fail
  <2>2. ASSUME NEW i \in Jobs, Work(i) PROVE i = j
    BY <1>0, <1>2, <2>2 DEF Work, Fetch, Upsert, Stored, Mark, Refresh
  <2>3. ASSUME NEW i \in Jobs, NEW from, NEW to, Begin(i, from, to) PROVE FALSE
    <3>1. job[i].at = "idle" /\ \A k \in Jobs \ {i} : job'[k] = job[k]
      BY <1>0, <2>3 DEF Begin
    <3> QED
      BY <1>2, <3>1
  <2>4. ~Tick /\ ~Backfill
    BY <2>3 DEF Tick, Backfill, Jobs
  <2>5. \A e \in Days : ~Publish(e)
    BY <1>2 DEF Publish
  <2>6. ~Midnight /\ \A a \in Caggs : ~Policy(a)
    BY <1>2 DEF Midnight, Policy
  <2>7. Work(j)
    BY <2>1, <2>2, <2>4, <2>5, <2>6 DEF Next
  <2> QED
    BY <2>7 DEF Work, Fetch, Upsert, Stored
<1>4. CASE j = "tick"
  <2>1. today - Reach < job[j].start /\ job[j].start \in Nat /\ d \in Nat /\ job[j].start <= d
    BY <1>0, <1>1, <1>2, <1>4 DEF TickIsPrompt, JobType, Days
  <2> QED
    BY <1>0, <2>1
<1>5. CASE j = "backfill" /\ Mark(j)
  <2>1. ~(job[j].start < PolicyFloor)
    <3>1. ASSUME job[j].start < PolicyFloor PROVE job'[j].at = "refresh"
      <4>1. Mark(j)
        BY <1>5
      <4> DEFINE r == [job[j] EXCEPT !.at = "refresh", !.left = Caggs,
                         !.upTo = IF job[j].end < PolicyFloor
                                  THEN job[j].end ELSE PolicyFloor]
      <4>2. job' = [job EXCEPT ![j] = r]
        BY <1>0, <3>1, <4>1 DEF Mark
      <4>3. r.at = "refresh"
        BY <1>0 DEF JobType
      <4> HIDE DEF r
      <4> QED
        BY <1>0, <4>2, <4>3
    <3> QED
      BY <1>2, <3>1
  <2>2. job[j].start \in Nat /\ d \in Nat /\ job[j].start <= d
    BY <1>0, <1>1 DEF JobType, Days
  <2> QED
    BY <1>0, <2>1, <2>2 DEF PolicyFloor
<1>6. CASE j = "backfill" /\ Refresh(j)
  <2>1. /\ job[j].at = "refresh" /\ cagg' = Refreshed(NextCagg(j), RefreshWindow(j))
        /\ NextCagg(j) \in Caggs /\ job[j].left \ {NextCagg(j)} = {}
    BY <1>0, <1>2, <1>6, NextCaggType DEF Refresh, JobType
  <2>2. SUFFICES ASSUME ~(d >= today - Reach)
                 PROVE  cagg'[c][d] = table[d]
    OBVIOUS
  <2>3. /\ d \in Nat /\ job[j].upTo \in Nat /\ d < today - Reach
        /\ job[j].start <= d /\ d <= job[j].end
    BY <1>0, <1>1, <2>2 DEF JobType, Days
  <2>4. CASE d <= job[j].upTo /\ c = NextCagg(j)
    <3>1. d \in RefreshWindow(j)
      BY <1>0, <2>3, <2>4 DEF RefreshWindow, JobType
    <3> QED
      BY <1>0, <1>1, <2>1, <2>4, <3>1, RefreshedProperties
  <2>5. CASE ~(d <= job[j].upTo /\ c = NextCagg(j))
    <3>1. d > job[j].upTo \/ c \notin job[j].left
      BY <2>1, <2>3, <2>5
    <3>2. cagg[c][d] = table[d]
      BY <1>1, <1>6, <2>1, <2>3, <3>1 DEF DoneInv
    <3>3. CASE c = NextCagg(j) /\ d \in RefreshWindow(j)
      BY <1>0, <1>1, <2>1, <3>3, RefreshedProperties
    <3>4. CASE ~(c = NextCagg(j) /\ d \in RefreshWindow(j))
      BY <1>0, <1>1, <2>1, <3>2, <3>4, RefreshedProperties
    <3> QED
      BY <3>3, <3>4
  <2> QED
    BY <2>4, <2>5
<1> QED
  BY <1>3, <1>4, <1>5, <1>6 DEF Jobs

-----------------------------------------------------------------------------
(* The theorems, for the ingest alone and with the roll-up beside it.      *)

(* Every variable stays in its range.                                      *)
THEOREM TypeTheorem == Spec => []TypeOK
BY RangeInvariant, PTL DEF Spec, Safety

(* No day is hidden for good, unless a job failed or the day left the      *)
(* policies' reach just after it was stored (ingest_b1610 and its gate).   *)
THEOREM NoDayGivenUpTheorem == Spec => []NoDayGivenUp
BY NoDayGivenUpInvariant, PTL DEF Spec, Safety

(* The watermark's day has rows, wherever the range of a tick or a         *)
(* backfill ends and whatever the feed has published of it.                *)
THEOREM WatermarkTheorem == Spec => []WatermarkDayHasRows
BY WatermarkInvariant, PTL DEF Spec, Safety

(* While ticks are prompt, an ended job leaves nothing hidden.             *)
LEMMA DoneInvariant == Safety /\ []TickIsPrompt => DoneMeansVisible
<1>1. Init => DoneInv
  BY DEF Init, DoneInv, Idle, Jobs
<1>2. TypeOK /\ RangeInv /\ TickIsPrompt /\ DoneInv /\ [Next]_vars => DoneInv'
  BY DoneInductive
<1>3. TypeOK /\ RangeInv /\ TickIsPrompt /\ DoneInv /\ [Next]_vars
        => [\A j \in Jobs :
              job[j].at \in {"mark", "refresh"} /\ job'[j] = Idle /\ failures' = failures
              => \A d \in job[j].start .. job[j].end, c \in Caggs :
                   \/ d >= today - Reach
                   \/ cagg'[c][d] = table[d]]_vars
  BY DoneStep
<1> QED
  BY <1>1, <1>2, <1>3, RangeInvariant, PTL DEF Safety, DoneMeansVisible

(* A job that ends without an error leaves nothing hidden: each day of its *)
(* range that the policies do not reach any more is shown by both          *)
(* aggregates, however many midnights have passed while a backfill         *)
(* refreshed them - as long as no tick lasts for weeks (refresh_caggs and  *)
(* the gate of ingest_b1610).                                              *)
THEOREM DoneTheorem == Spec /\ []TickIsPrompt => DoneMeansVisible
BY DoneInvariant, PTL DEF Spec, Safety

(* materialize_dispatch_daily reads aggregates and disturbs nothing: with  *)
(* it, the ingest is what it is alone.                                     *)
LEMMA DailyIsIngest == DailySpec => Safety
<1>1. DailyInit => Init
  BY DEF DailyInit
<1>2. [DailyNext]_dailyVars => [Next]_vars
  BY DEF DailyNext, RollUp, RollUpByHand, RolledUp, dailyVars
<1> QED
  BY <1>1, <1>2, PTL DEF DailySpec, Safety

(* So the theorems hold with the daily roll-up running, too.               *)
THEOREM DailyTheorem ==
  DailySpec => /\ [](TypeOK /\ NoDayGivenUp /\ WatermarkDayHasRows)
               /\ []TickIsPrompt => DoneMeansVisible
BY DailyIsIngest, RangeInvariant, NoDayGivenUpInvariant, WatermarkInvariant, DoneInvariant, PTL
=============================================================================
