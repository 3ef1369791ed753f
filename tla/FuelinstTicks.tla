----------------------------- MODULE FuelinstTicks -----------------------------
(***************************************************************************)
(* Who moves the fuelinst watermark: the scheduler's tick, which resumes   *)
(* from it, and a backfill run by hand, which does not read it but sets it *)
(* (scheduler.py, cli.py, ingest/fuelinst.py).  Both go through            *)
(* run_windows; a call is taken here as what module SerialIngest says it   *)
(* is - batches applied in window order, each followed by the watermark -  *)
(* with the freedom the pool has to fetch a window early.                  *)
(*                                                                         *)
(* Time is counted in publication slots; slot t holds the rows with        *)
(* publish_time t, one per fuel type, which the feed publishes together.   *)
(* A process may fail or be killed at any step; the scheduler runs again.  *)
(***************************************************************************)
EXTENDS Integers

CONSTANTS
  LastSlot,     \* bound: the clock stops here
  Chunk,        \* slots per window (one day)
  Lookback,     \* slots the first tick looks back (two hours)
  MaxLag,       \* slots the feed may be behind the clock
  GapBackfills, \* whether a backfill may start after the watermark
  MaxBackfills, \* bound: backfills run by hand
  MaxFailures   \* bound: jobs that do not get to their end

ASSUME SlotAssumption ==
  /\ LastSlot \in Nat \ {0} /\ Chunk \in Nat \ {0} /\ Lookback \in Nat
  /\ MaxLag \in Nat /\ MaxBackfills \in Nat /\ MaxFailures \in Nat
  /\ GapBackfills \in BOOLEAN

Jobs == {"tick", "backfill"}
Slots == 1 .. LastSlot

VARIABLES
  clock,      \* the current slot
  published,  \* the latest slot the feed has published
  stored,     \* the slots in table fuelinst
  watermark,  \* ingest_watermark.last_ts; 0 if there is no row
  pc,         \* pc[j]: "idle", "fetch", "upsert" or "mark"
  cur,        \* cur[j]: where the next window starts
  end,        \* end[j]: where the last window ends
  known,      \* known[j]: what the feed had published when the job began
  rows,       \* rows[j]: the slots fetched for the window being written
  backfills,  \* how many backfills have begun
  failures,   \* how many jobs have failed
  origin,     \* history: where the first job began that left a watermark; of
              \* several that ran together then, the latest start
  exposed     \* history: a window before a job's last one was fetched while
              \* the feed was more than a slot short of its end

jobVars == <<pc, cur, end, known, rows>>
history == <<origin, exposed>>
vars == <<clock, published, stored, watermark, jobVars, backfills, failures, history>>

Smaller(a, b) == IF a < b THEN a ELSE b
Larger(a, b) == IF a < b THEN b ELSE a

Init ==
  /\ clock = 1
  /\ published = 1
  /\ stored = {}
  /\ watermark = 0
  /\ pc = [j \in Jobs |-> "idle"]
  /\ cur = [j \in Jobs |-> 0]
  /\ end = [j \in Jobs |-> 0]
  /\ known = [j \in Jobs |-> 0]
  /\ rows = [j \in Jobs |-> {}]
  /\ backfills = 0
  /\ failures = 0
  /\ origin = 0
  /\ exposed = FALSE

(* Time passes and the feed publishes, at most MaxLag slots behind.        *)
Advance ==
  /\ clock < LastSlot
  /\ clock' = clock + 1
  /\ published' = Larger(published, clock' - MaxLag)
  /\ UNCHANGED <<stored, watermark, jobVars, backfills, failures, history>>

Publish ==
  /\ \E p \in published + 1 .. clock : published' = p
  /\ UNCHANGED <<clock, stored, watermark, jobVars, backfills, failures, history>>

-----------------------------------------------------------------------------
\* A job over [from, to] begins: ingest_fuelinst -> run_windows.  Where there
\* is no watermark yet, it may be the one that leaves the first.
Begin(j, from, to) ==
  /\ pc[j] = "idle"
  /\ pc' = [pc EXCEPT ![j] = "fetch"]
  /\ cur' = [cur EXCEPT ![j] = from]
  /\ end' = [end EXCEPT ![j] = to]
  /\ known' = [known EXCEPT ![j] = published]
  /\ origin' = IF watermark > 0 THEN origin
               ELSE IF \A i \in Jobs : pc[i] = "idle" THEN from
               ELSE Larger(origin, from)
  /\ UNCHANGED <<clock, published, stored, watermark, rows, failures, exposed>>

\* Mutant: the look-back is taken even when there is a watermark.
TickStartIgnoresWatermark == Larger(clock - Lookback, 1)

\* start = wm or (now - timedelta(hours=2))
TickStart == IF watermark > 0 THEN watermark ELSE Larger(clock - Lookback, 1)

Tick ==
  /\ Begin("tick", TickStart, clock)
  /\ UNCHANGED backfills

(* A backfill of any range, which may end after the clock (--to is a day,  *)
(* taken to its end), before or after there is a watermark.  Without       *)
(* GapBackfills it begins no later than the watermark there is.            *)
Backfill ==
  /\ backfills < MaxBackfills
  /\ backfills' = backfills + 1
  /\ \E from, to \in Slots :
       /\ from <= to
       /\ GapBackfills \/ watermark = 0 \/ from <= watermark
       /\ Begin("backfill", from, to)

\* Mutant: the last window is not cut off at the end of the range.
WindowEndUncut(j) == cur[j] + Chunk

\* nxt = min(cur + step, end)
WindowEnd(j) == Smaller(cur[j] + Chunk, end[j])

\* Both ends of a request are inclusive.
InWindow(j, t) == cur[j] <= t /\ t <= WindowEnd(j)

(* The window's rows, as of any moment since the job began: the pool may   *)
(* have fetched it ahead.                                                  *)
Fetch(j) ==
  /\ pc[j] = "fetch"
  /\ cur[j] < end[j]
  /\ \E p \in known[j] .. published :
       /\ rows' = [rows EXCEPT ![j] = {t \in 1 .. p : InWindow(j, t)}]
       /\ exposed' = (exposed \/ (p + 1 < WindowEnd(j) /\ WindowEnd(j) < end[j]))
  /\ cur' = [cur EXCEPT ![j] = WindowEnd(j)]
  /\ pc' = [pc EXCEPT ![j] = "upsert"]
  /\ UNCHANGED <<clock, published, stored, watermark, end, known, backfills,
                 failures, origin>>

Finish(j) ==
  /\ pc[j] = "fetch"
  /\ cur[j] >= end[j]
  /\ pc' = [pc EXCEPT ![j] = "idle"]
  /\ UNCHANGED <<clock, published, stored, watermark, cur, end, known, rows,
                 backfills, failures, history>>

Upsert(j) ==
  /\ pc[j] = "upsert"
  /\ stored' = stored \cup rows[j]
  /\ pc' = [pc EXCEPT ![j] = IF rows[j] = {} THEN "fetch" ELSE "mark"]
  /\ UNCHANGED <<clock, published, watermark, cur, end, known, rows, backfills,
                 failures, history>>

\* Mutant: the end of the window instead of its latest row.
IsWindowEnd(j, t) == t = cur[j]

\* max(r[watermark_col] for r in rows)
IsLatest(j, t) == t \in rows[j] /\ \A u \in rows[j] : u <= t

(* set_watermark overwrites whatever the row says.                         *)
Mark(j) ==
  /\ pc[j] = "mark"
  /\ \E t \in Slots : IsLatest(j, t) /\ watermark' = t
  /\ pc' = [pc EXCEPT ![j] = "fetch"]
  /\ UNCHANGED <<clock, published, stored, cur, end, known, rows, backfills,
                 failures, history>>

Fail(j) ==
  /\ pc[j] # "idle"
  /\ failures < MaxFailures
  /\ failures' = failures + 1
  /\ pc' = [pc EXCEPT ![j] = "idle"]
  /\ UNCHANGED <<clock, published, stored, watermark, cur, end, known, rows,
                 backfills, history>>

Work(j) == Fetch(j) \/ Finish(j) \/ Upsert(j) \/ Mark(j)

Next ==
  \/ Advance \/ Publish
  \/ Tick \/ Backfill
  \/ \E j \in Jobs : Work(j) \/ Fail(j)

(* The scheduler's loop starts the next tick after every one, whether it   *)
(* failed or not (_loop), and a job that runs goes on.                     *)
Spec ==
  /\ Init /\ [][Next]_vars
  /\ WF_vars(Tick) /\ WF_vars(Work("tick")) /\ WF_vars(Work("backfill"))

-----------------------------------------------------------------------------
(* Types: every variable stays in its range.                               *)
TypeOK ==
  /\ clock \in Slots
  /\ published \in 0 .. LastSlot
  /\ stored \subseteq Slots
  /\ watermark \in 0 .. LastSlot
  /\ pc \in [Jobs -> {"idle", "fetch", "upsert", "mark"}]
  /\ cur \in [Jobs -> 0 .. LastSlot]
  /\ end \in [Jobs -> 0 .. LastSlot]
  /\ known \in [Jobs -> 0 .. LastSlot]
  /\ rows \in [Jobs -> SUBSET Slots]
  /\ backfills \in 0 .. MaxBackfills
  /\ failures \in 0 .. MaxFailures
  /\ origin \in 0 .. LastSlot
  /\ exposed \in BOOLEAN

(* A resume skips nothing: every slot from the first tick's start up to    *)
(* the watermark is stored, whatever failed and whoever moved the          *)
(* watermark last, as long as no backfill begins after the watermark and   *)
(* no window but a job's last one is fetched before the feed gets to its   *)
(* end (the next window's watermark then hides the slots it came too early *)
(* for).                                                                   *)
NothingBelowWatermarkMissing ==
  ~exposed => \A t \in Slots : origin <= t /\ t <= watermark => t \in stored

(* The table keeps up: once there is a watermark, every slot since the     *)
(* first job's start that the feed has published is stored in the end,     *)
(* under the same conditions.                                              *)
EverySlotArrivesUnlessExposed ==
  \A t \in Slots :
    watermark > 0 /\ 0 < origin /\ origin <= t /\ t <= published
      ~> t \in stored \/ exposed

(* The same without the conditions (README.md: "a background ingester that *)
(* keeps the data current").                                               *)
EverySlotArrives ==
  \A t \in Slots :
    watermark > 0 /\ 0 < origin /\ origin <= t /\ t <= published ~> t \in stored
=============================================================================
