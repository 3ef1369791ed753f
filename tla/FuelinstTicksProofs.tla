-------------------------- MODULE FuelinstTicksProofs --------------------------
(***************************************************************************)
(* Proofs about the fuelinst watermark, for every size of the windows, lag *)
(* of the feed, and number of backfills and failures.                      *)
(***************************************************************************)
EXTENDS FuelinstTicks, TLAPS

-----------------------------------------------------------------------------
(* Facts about the operators.                                              *)

(* A tick starts at a slot that has come.                                  *)
LEMMA TickStartType ==
  ASSUME clock \in Slots, watermark \in 0 .. LastSlot
  PROVE  TickStart \in Slots
BY SlotAssumption DEF TickStart, Slots, Larger

(* A window ends after it begins, and not after the job's range.           *)
LEMMA WindowEndBounds ==
  ASSUME NEW j \in Jobs, cur[j] \in 0 .. LastSlot, end[j] \in 0 .. LastSlot,
         cur[j] < end[j]
  PROVE  WindowEnd(j) \in 0 .. LastSlot /\ cur[j] < WindowEnd(j) /\ WindowEnd(j) <= end[j]
BY SlotAssumption DEF WindowEnd, Smaller

-----------------------------------------------------------------------------
(* Type correctness: every variable stays in its range.                    *)
THEOREM TypeTheorem == Spec => []TypeOK
<1>1. Init => TypeOK
  <2> SUFFICES ASSUME Init PROVE TypeOK
    OBVIOUS
  <2>1. 0 \in 0 .. LastSlot /\ 1 \in Slots /\ 1 \in 0 .. LastSlot
    BY SlotAssumption DEF Slots
  <2>2. rows \in [Jobs -> SUBSET Slots] /\ stored \subseteq Slots /\ exposed \in BOOLEAN
    BY DEF Init
  <2>3. backfills \in 0 .. MaxBackfills /\ failures \in 0 .. MaxFailures
    BY SlotAssumption DEF Init
  <2> QED
    BY <2>1, <2>2, <2>3 DEF Init, TypeOK
<1>2. TypeOK /\ [Next]_vars => TypeOK'
  <2> SUFFICES ASSUME TypeOK, [Next]_vars PROVE TypeOK'
    OBVIOUS
  <2> USE SlotAssumption DEF TypeOK, jobVars, history
  <2>1. CASE Advance
    <3>1. clock' \in Slots /\ published' \in 0 .. LastSlot
      BY <2>1 DEF Advance, Larger, Slots
    <3> QED
      BY <2>1, <3>1 DEF Advance
  <2>2. CASE Publish
    <3>1. published' \in 0 .. LastSlot
      BY <2>2 DEF Publish, Slots
    <3> QED
      BY <2>2, <3>1 DEF Publish
  <2>3. CASE Tick
    BY <2>3, TickStartType DEF Tick, Begin, Slots, Jobs, Larger
  <2>4. CASE Backfill
    BY <2>4 DEF Backfill, Begin, Slots, Jobs, Larger
  <2>5. ASSUME NEW j \in Jobs, Fetch(j) PROVE TypeOK'
    <3>1. WindowEnd(j) \in 0 .. LastSlot
      BY <2>5, WindowEndBounds DEF Fetch
    <3>2. PICK p \in known[j] .. published :
            /\ rows' = [rows EXCEPT ![j] = {t \in 1 .. p : InWindow(j, t)}]
            /\ exposed' = (exposed \/ (p + 1 < WindowEnd(j) /\ WindowEnd(j) < end[j]))
      BY <2>5 DEF Fetch
    <3>3. {t \in 1 .. p : InWindow(j, t)} \subseteq Slots
      BY DEF Slots
    <3>4. rows' \in [Jobs -> SUBSET Slots] /\ exposed' \in BOOLEAN
      BY <3>2, <3>3
    <3> QED
      BY <2>5, <3>1, <3>4 DEF Fetch
  <2>6. ASSUME NEW j \in Jobs, Finish(j) PROVE TypeOK'
    BY <2>6 DEF Finish
  <2>7. ASSUME NEW j \in Jobs, Upsert(j) PROVE TypeOK'
    BY <2>7 DEF Upsert
  <2>8. ASSUME NEW j \in Jobs, Mark(j) PROVE TypeOK'
    BY <2>8 DEF Mark, Slots
  <2>9. ASSUME NEW j \in Jobs, Fail(j) PROVE TypeOK'
    BY <2>9 DEF Fail
  <2>10. CASE UNCHANGED vars
    BY <2>10 DEF vars
  <2> QED
    BY <2>1, <2>2, <2>3, <2>4, <2>5, <2>6, <2>7, <2>8, <2>9, <2>10
    DEF Next, Work
<1> QED
  BY <1>1, <1>2, PTL DEF Spec

-----------------------------------------------------------------------------
(* The watermark.                                                          *)

\* Every slot since the first job's start that is before t is in `slots`.
HasBefore(slots, t) == \A u \in Slots : origin <= u /\ u < t => u \in slots

\* Where a job stands: before its next window nothing is missing, and what
\* it holds continues what is stored.
PositionInv ==
  \A j \in Jobs :
    /\ pc[j] \in {"fetch", "mark"} /\ cur[j] < end[j] => HasBefore(stored, cur[j])
    /\ pc[j] = "upsert" /\ cur[j] < end[j] => HasBefore(stored \cup rows[j], cur[j])
    /\ pc[j] = "upsert" => \A t \in rows[j] : HasBefore(stored \cup rows[j], t)
    /\ pc[j] = "mark" => \A t \in rows[j] : t \in stored /\ HasBefore(stored, t)

WatermarkInv ==
  ~exposed => PositionInv /\ (watermark > 0 => watermark \in stored
                                              /\ HasBefore(stored, watermark))

(* With more slots stored, none is missing that was not.                   *)
LEMMA HasBeforeGrows ==
  ASSUME NEW S, NEW T, NEW t, S \subseteq T, HasBefore(S, t)
  PROVE  HasBefore(T, t)
BY DEF HasBefore

(* Nothing changes for an earlier slot.                                    *)
LEMMA HasBeforeEarlier ==
  ASSUME NEW S, NEW t \in Int, NEW u \in Int, u <= t, origin \in Int, HasBefore(S, t)
  PROVE  HasBefore(S, u)
BY DEF HasBefore, Slots

(* A resume skips nothing, unless a backfill may begin after the watermark *)
(* or an inner window was fetched before the feed got to its end: whatever *)
(* failed and whoever moved the watermark last, every slot from the first  *)
(* job's start up to it is stored.                                         *)
THEOREM ResumeTheorem ==
  ASSUME GapBackfills = FALSE
  PROVE  Spec => []NothingBelowWatermarkMissing
<1>1. Init => WatermarkInv
  BY DEF Init, WatermarkInv, PositionInv, Jobs
<1>2. TypeOK /\ WatermarkInv /\ [Next]_vars => WatermarkInv'
  <2> SUFFICES ASSUME TypeOK, WatermarkInv, [Next]_vars, ~exposed'
               PROVE  /\ PositionInv'
                      /\ watermark' > 0 => watermark' \in stored'
                                           /\ HasBefore(stored, watermark)'
    BY DEF WatermarkInv
  <2>1. ~exposed
    BY DEF Next, Work, vars, jobVars, history, Advance, Publish, Tick, Backfill,
           Begin, Fetch, Finish, Upsert, Mark, Fail, TypeOK
  <2>2. PositionInv /\ (watermark > 0 => watermark \in stored
                                         /\ HasBefore(stored, watermark))
    BY <2>1 DEF WatermarkInv
  <2> DEFINE Marked == watermark > 0 => watermark \in stored
                                       /\ HasBefore(stored, watermark)
  <2>3. CASE UNCHANGED <<stored, watermark, origin, pc, cur, end, rows>>
    BY <2>2, <2>3 DEF PositionInv, HasBefore
  <2>4. ASSUME NEW j \in Jobs, NEW from \in Slots, NEW to, Begin(j, from, to),
               watermark = 0 \/ from <= watermark
        PROVE  PositionInv' /\ Marked'
    <3>1. /\ pc[j] = "idle" /\ pc' = [pc EXCEPT ![j] = "fetch"]
          /\ cur' = [cur EXCEPT ![j] = from]
          /\ end' = [end EXCEPT ![j] = to]
          /\ UNCHANGED <<stored, watermark, rows>>
      BY <2>4 DEF Begin
    <3>2. /\ pc'[j] = "fetch" /\ cur'[j] = from
          /\ \A i \in Jobs \ {j} : /\ pc'[i] = pc[i] /\ cur'[i] = cur[i]
                                  /\ end'[i] = end[i] /\ rows'[i] = rows[i]
      BY <3>1 DEF TypeOK
    <3>3. watermark \in Nat /\ origin \in Int /\ from \in Int
      BY DEF TypeOK, Slots
    <3>4. CASE watermark > 0
      <4>1. origin' = origin
        BY <2>4, <3>4 DEF Begin
      <4>2. HasBefore(stored, from)
        BY <2>2, <2>4, <3>3, <3>4, HasBeforeEarlier
      <4>3. PositionInv'
        BY <2>2, <3>1, <3>2, <4>1, <4>2 DEF PositionInv, HasBefore
      <4> QED
        BY <2>2, <3>1, <4>1, <4>3 DEF HasBefore
    <3>5. CASE watermark = 0
      <4>1. /\ origin' \in Int /\ from <= origin'
            /\ origin <= origin' \/ \A i \in Jobs : pc[i] = "idle"
        BY <2>4, <3>3, <3>5 DEF Begin, Larger
      <4>2. HasBefore(stored, cur[j])'
        BY <3>1, <3>2, <3>3, <4>1 DEF HasBefore, Slots
      <4>3. ASSUME NEW i \in Jobs
            PROVE  /\ pc'[i] \in {"fetch", "mark"} /\ cur'[i] < end'[i]
                      => HasBefore(stored, cur[i])'
                   /\ pc'[i] = "upsert" /\ cur'[i] < end'[i]
                      => HasBefore(stored \cup rows[i], cur[i])'
                   /\ pc'[i] = "upsert"
                      => \A t \in rows'[i] : HasBefore(stored \cup rows[i], t)'
                   /\ pc'[i] = "mark"
                      => \A t \in rows'[i] : t \in stored' /\ HasBefore(stored, t)'
        <5>1. CASE i = j
          BY <3>2, <4>2, <5>1
        <5>2. CASE i # j /\ \A k \in Jobs : pc[k] = "idle"
          BY <3>2, <5>2
        <5>3. CASE i # j /\ origin <= origin'
          <6>1. ASSUME NEW S, NEW t, HasBefore(S, t)
                PROVE  \A u \in Slots : origin' <= u /\ u < t => u \in S
            BY <3>3, <4>1, <5>3, <6>1 DEF HasBefore, Slots
          <6> QED BY <2>2, <3>1, <3>2, <5>3, <6>1 DEF PositionInv, HasBefore
        <5> QED BY <4>1, <5>1, <5>2, <5>3
      <4>4. PositionInv'
        BY <4>3 DEF PositionInv, HasBefore
      <4> QED BY <3>1, <3>5, <4>4
    <3> QED
      BY <3>3, <3>4, <3>5
  <2>5. CASE Tick \/ Backfill
    <3>1. CASE Tick
      <4>1. TickStart \in Slots /\ (watermark = 0 \/ TickStart <= watermark)
        BY TickStartType DEF TypeOK, TickStart, Slots
      <4> QED BY <2>4, <3>1, <4>1 DEF Tick, Jobs
    <3>2. CASE Backfill
      <4>1. PICK from \in Slots, to \in Slots :
              /\ GapBackfills \/ watermark = 0 \/ from <= watermark
              /\ Begin("backfill", from, to)
        BY <3>2 DEF Backfill
      <4> QED BY <2>4, <4>1 DEF Jobs
    <3> QED BY <2>5, <3>1, <3>2
  <2>6. ASSUME NEW j \in Jobs, Fetch(j) PROVE PositionInv' /\ Marked'
    <3>1. PICK p \in known[j] .. published :
            /\ rows' = [rows EXCEPT ![j] = {t \in 1 .. p : InWindow(j, t)}]
            /\ exposed' = (exposed \/ (p + 1 < WindowEnd(j) /\ WindowEnd(j) < end[j]))
      BY <2>6 DEF Fetch
    <3>2. /\ pc[j] = "fetch" /\ cur[j] < end[j]
          /\ cur' = [cur EXCEPT ![j] = WindowEnd(j)]
          /\ pc' = [pc EXCEPT ![j] = "upsert"]
          /\ UNCHANGED <<stored, watermark, origin, end>>
      BY <2>6 DEF Fetch
    <3>3. HasBefore(stored, cur[j])
      BY <2>2, <3>2 DEF PositionInv
    <3>4. WindowEnd(j) \in Int /\ cur[j] \in Int /\ end[j] \in Int /\ p \in Int
      BY <3>2, WindowEndBounds DEF TypeOK
    <3>5. rows'[j] = {t \in 1 .. p : cur[j] <= t /\ t <= WindowEnd(j)}
      BY <3>1 DEF TypeOK, InWindow
    <3>6. ASSUME WindowEnd(j) < end[j]
          PROVE  HasBefore(stored \cup rows'[j], WindowEnd(j))
      <4>1. ~(p + 1 < WindowEnd(j))
        BY <3>1, <3>6
      <4>2. WindowEnd(j) <= p + 1
        BY <3>4, <4>1
      <4> QED
        BY <3>3, <3>4, <3>5, <4>2 DEF HasBefore, Slots
    <3>7. ASSUME NEW t \in rows'[j] PROVE HasBefore(stored \cup rows'[j], t)
      BY <3>3, <3>4, <3>5 DEF HasBefore, Slots
    <3>8. pc'[j] = "upsert" /\ cur'[j] = WindowEnd(j)
          /\ \A i \in Jobs \ {j} : /\ pc'[i] = pc[i] /\ cur'[i] = cur[i]
                                  /\ rows'[i] = rows[i]
      BY <3>1, <3>2 DEF TypeOK
    <3>9. PositionInv'
      <4> SUFFICES ASSUME NEW i \in Jobs
                   PROVE  /\ pc'[i] \in {"fetch", "mark"} /\ cur'[i] < end'[i]
                             => HasBefore(stored, cur[i])'
                          /\ pc'[i] = "upsert" /\ cur'[i] < end'[i]
                             => HasBefore(stored \cup rows[i], cur[i])'
                          /\ pc'[i] = "upsert"
                             => \A t \in rows'[i] : HasBefore(stored \cup rows[i], t)'
                          /\ pc'[i] = "mark"
                             => \A t \in rows'[i] : t \in stored' /\ HasBefore(stored, t)'
        BY DEF PositionInv, HasBefore
      <4>1. CASE i = j
        BY <3>2, <3>6, <3>7, <3>8, <4>1 DEF HasBefore
      <4>2. CASE i # j
        BY <2>2, <3>2, <3>8, <4>2 DEF PositionInv, HasBefore
      <4> QED
        BY <4>1, <4>2
    <3> QED
      BY <2>2, <3>2, <3>9 DEF HasBefore
  <2>7. ASSUME NEW j \in Jobs, Finish(j) \/ Fail(j) PROVE PositionInv' /\ Marked'
    <3>1. /\ UNCHANGED <<stored, watermark, origin, cur, end, rows>>
          /\ pc' = [pc EXCEPT ![j] = "idle"]
      BY <2>7 DEF Finish, Fail, history
    <3>2. \A i \in Jobs : pc'[i] = pc[i] \/ pc'[i] = "idle"
      BY <3>1 DEF TypeOK
    <3> QED
      BY <2>2, <3>1, <3>2 DEF PositionInv, HasBefore
  <2>8. ASSUME NEW j \in Jobs, Upsert(j) PROVE PositionInv' /\ Marked'
    <3>1. /\ pc[j] = "upsert"
          /\ stored' = stored \cup rows[j]
          /\ pc' = [pc EXCEPT ![j] = IF rows[j] = {} THEN "fetch" ELSE "mark"]
          /\ UNCHANGED <<watermark, origin, cur, end, rows>>
      BY <2>8 DEF Upsert, history
    <3>2. /\ (pc'[j] = "fetch" /\ rows[j] = {}) \/ pc'[j] = "mark"
          /\ \A i \in Jobs \ {j} : pc'[i] = pc[i]
      BY <3>1 DEF TypeOK
    <3>3. PositionInv'
      <4> SUFFICES ASSUME NEW i \in Jobs
                   PROVE  /\ pc'[i] \in {"fetch", "mark"} /\ cur'[i] < end'[i]
                             => HasBefore(stored, cur[i])'
                          /\ pc'[i] = "upsert" /\ cur'[i] < end'[i]
                             => HasBefore(stored \cup rows[i], cur[i])'
                          /\ pc'[i] = "upsert"
                             => \A t \in rows'[i] : HasBefore(stored \cup rows[i], t)'
                          /\ pc'[i] = "mark"
                             => \A t \in rows'[i] : t \in stored' /\ HasBefore(stored, t)'
        BY DEF PositionInv, HasBefore
      <4>1. CASE i = j
        BY <2>2, <3>1, <3>2, <4>1 DEF PositionInv, HasBefore
      <4>2. CASE i # j
        BY <2>2, <3>1, <3>2, <4>2 DEF PositionInv, HasBefore
      <4> QED
        BY <4>1, <4>2
    <3> QED
      BY <2>2, <3>1, <3>3 DEF HasBefore
  <2>9. ASSUME NEW j \in Jobs, Mark(j) PROVE PositionInv' /\ Marked'
    <3>1. PICK t \in Slots : IsLatest(j, t) /\ watermark' = t
      BY <2>9 DEF Mark
    <3>2. /\ pc[j] = "mark" /\ pc' = [pc EXCEPT ![j] = "fetch"]
          /\ UNCHANGED <<stored, origin, cur, end, rows>>
      BY <2>9 DEF Mark, history
    <3>3. t \in stored /\ HasBefore(stored, t)
      BY <2>2, <3>1, <3>2 DEF IsLatest, PositionInv
    <3>4. pc'[j] = "fetch" /\ \A i \in Jobs \ {j} : pc'[i] = pc[i]
      BY <3>2 DEF TypeOK
    <3>5. PositionInv'
      BY <2>2, <3>2, <3>4 DEF PositionInv, HasBefore
    <3> QED
      BY <3>1, <3>2, <3>3, <3>5 DEF HasBefore
  <2>10. Advance \/ Publish \/ UNCHANGED vars
         => UNCHANGED <<stored, watermark, origin, pc, cur, end, rows>>
    BY DEF Advance, Publish, vars, jobVars, history
  <2> QED
    BY <2>3, <2>4, <2>5, <2>6, <2>7, <2>8, <2>9, <2>10 DEF Next, Work
<1>3. TypeOK /\ WatermarkInv => NothingBelowWatermarkMissing
  <2> SUFFICES ASSUME TypeOK, WatermarkInv, ~exposed, NEW t \in Slots,
                      origin <= t, t <= watermark
               PROVE  t \in stored
    BY DEF NothingBelowWatermarkMissing
  <2>1. watermark > 0 /\ (t < watermark \/ t = watermark)
    BY DEF TypeOK, Slots
  <2> QED
    BY <2>1 DEF WatermarkInv, HasBefore
<1> QED
  BY <1>1, <1>2, <1>3, TypeTheorem, PTL DEF Spec
=============================================================================
