------------------------------- MODULE B1610Caggs -------------------------------
(***************************************************************************)
(* b1610 and its two continuous aggregates (ingest/b1610.py, migrations    *)
(* 0009 and 0012).  The aggregates' policies fold in, every 30 minutes,    *)
(* what changed in the last Reach days; ingest_b1610 refreshes what they   *)
(* do not reach, but only after all its windows, and in one statement per  *)
(* aggregate.  The scheduler's tick and a backfill by hand may run at the  *)
(* same time, midnight may pass during either, and each may fail; there is *)
(* one backfill at a time.                                                 *)
(*                                                                         *)
(* Time is counted in days.  The rows of day d are one record, its         *)
(* revision; 0 stands for no rows.  Windows are single days, so they share *)
(* no record, and a window is fetched and stored as if there were no pool. *)
(***************************************************************************)
EXTENDS Integers

CONSTANTS
  FirstToday,    \* the day the program starts on
  LastDay,       \* bound: the clock stops here
  Reach,         \* CAGG_POLICY_REACH, start_offset of both policies: 30 days
  EndOffset,     \* end_offset of both policies: 1 day
  TickFrom,      \* the tick reaches from TickFrom days ago (14) ..
  TickTo,        \* .. to TickTo days ago (3)
  Lag,           \* days until the feed publishes a day's rows (about 5)
  Published,     \* bound: the days that the feed has rows of
  Revised,       \* bound: those of them that it revises ..
  MaxVersion,    \* .. until they have this revision
  MaxBackfills,  \* bound: backfills run by hand
  MaxFailures    \* bound: jobs that do not get to their end

ASSUME DaysAssumption ==
  /\ {FirstToday, LastDay, Reach, EndOffset, TickFrom, TickTo, Lag} \subseteq Nat
  /\ MaxVersion \in Nat \ {0} /\ {MaxBackfills, MaxFailures} \subseteq Nat
  /\ 0 < FirstToday /\ FirstToday <= LastDay
  /\ TickTo <= TickFrom /\ TickFrom < Reach /\ EndOffset < TickTo

Jobs == {"tick", "backfill"}
Caggs == {"b1610_daily_cagg", "b1610_hh_cagg"}
Days == 1 .. LastDay
Version == 0 .. MaxVersion

VARIABLES
  today,      \* the date
  feed,       \* feed[d]: the revision of day d that is published
  table,      \* table[d]: the revision stored in b1610
  cagg,       \* cagg[c][d]: the revision that aggregate c shows
  watermark,  \* the day of b1610's watermark; 0 if there is none
  folded,     \* the aggregates whose policy has run today
  job,        \* job[j]: where job j is, and its variables; see Idle
  backfills,  \* how many backfills have begun
  failures,   \* how many jobs have failed
  exposed     \* history: a day was given up that an aggregate did not show yet

vars == <<today, feed, table, cagg, watermark, folded, job, backfills, failures,
          exposed>>

(* at: "idle", "fetch", "upsert", "mark" or "refresh"; start, end: the     *)
(* range, both ends included; cur: the window it is at; batch: what it has *)
(* fetched for it; last: last_window_with_data, 0 for None; upTo: the last *)
(* day it will refresh; left: the aggregates it has still to refresh.      *)
Idle == [at |-> "idle", start |-> 0, end |-> 0, cur |-> 0, batch |-> 0,
         last |-> 0, upTo |-> 0, left |-> {}]

(* The feed is on time when the program starts; it may be late after that. *)
Init ==
  /\ today = FirstToday
  /\ feed = [d \in Days |->
               IF d \in Published /\ d + Lag <= FirstToday THEN 1 ELSE 0]
  /\ table = [d \in Days |-> 0]
  /\ cagg = [c \in Caggs |-> [d \in Days |-> 0]]
  /\ watermark = 0
  /\ folded = {}
  /\ job = [j \in Jobs |-> Idle]
  /\ backfills = 0
  /\ failures = 0
  /\ exposed = FALSE

\* The last revision of day d.
Final(d) == IF d \in Revised THEN MaxVersion ELSE 1

(* The feed publishes a day's rows, late, and may revise them.             *)
Publish(d) ==
  /\ d \in Published /\ d + Lag <= today
  /\ feed[d] < Final(d)
  /\ feed' = [feed EXCEPT ![d] = @ + 1]
  /\ UNCHANGED <<today, table, cagg, watermark, folded, job, backfills,
                 failures, exposed>>

Stale(d) == \E c \in Caggs : cagg[c][d] # table[d]

(* Midnight.  The policies run every half hour, so each has run today; but *)
(* rows of the last day within their reach may have come since.            *)
Midnight ==
  /\ today < LastDay
  /\ folded = Caggs
  /\ today' = today + 1
  /\ folded' = {}
  /\ exposed' = (exposed \/ \E d \in Days : d = today - Reach /\ Stale(d))
  /\ UNCHANGED <<feed, table, cagg, watermark, job, backfills, failures>>

\* refresh_continuous_aggregate over the days of `window`.
Refreshed(c, window) ==
  [cagg EXCEPT ![c] = [d \in Days |-> IF d \in window THEN table[d] ELSE @[d]]]

\* Whole days in [now - start_offset, now - end_offset).
PolicyWindow == today - Reach .. today - EndOffset - 1

Policy(c) ==
  /\ cagg' = Refreshed(c, PolicyWindow)
  /\ folded' = folded \cup {c}
  /\ UNCHANGED <<today, feed, table, watermark, job, backfills, failures,
                 exposed>>

-----------------------------------------------------------------------------
\* ingest_b1610(start, end) begins.
Begin(j, from, to) ==
  /\ job[j].at = "idle"
  /\ job' = [job EXCEPT ![j] = [Idle EXCEPT !.at = "fetch", !.start = from,
                                            !.end = to, !.cur = from]]
  /\ UNCHANGED <<today, feed, table, cagg, watermark, folded, failures, exposed>>

Tick ==
  /\ TickFrom < today
  /\ Begin("tick", today - TickFrom, today - TickTo)
  /\ UNCHANGED backfills

\* Of any days, some of them perhaps still to come.
Backfill ==
  /\ backfills < MaxBackfills
  /\ backfills' = backfills + 1
  /\ \E from, to \in Days : from <= to /\ Begin("backfill", from, to)

Fetch(j) ==
  /\ job[j].at = "fetch"
  /\ job[j].cur <= job[j].end
  /\ job' = [job EXCEPT ![j].batch = feed[job[j].cur], ![j].at = "upsert"]
  /\ UNCHANGED <<today, feed, table, cagg, watermark, folded, backfills, failures,
                 exposed>>

\* Mutant: a window of one day is followed by the day after next.
NextStartSkips(d) == d + 2

\* daterange: cursor = window_end + 1 day
NextStart(d) == d + 1

Upsert(j) ==
  /\ job[j].at = "upsert"
  /\ LET d == job[j].cur
         found == job[j].batch > 0
     IN /\ table' = IF found THEN [table EXCEPT ![d] = job[j].batch] ELSE table
        /\ job' = [job EXCEPT ![j].at = "fetch", ![j].cur = NextStart(d), ![j].batch = 0,
                              ![j].last = IF found THEN d ELSE @]
  /\ UNCHANGED <<today, feed, cagg, watermark, folded, backfills, failures, exposed>>

(* run_windows returns.                                                    *)
Stored(j) ==
  /\ job[j].at = "fetch"
  /\ job[j].cur > job[j].end
  /\ job' = IF job[j].last = 0 THEN [job EXCEPT ![j] = Idle]
            ELSE [job EXCEPT ![j].at = "mark"]
  /\ UNCHANGED <<today, feed, table, cagg, watermark, folded, backfills, failures,
                 exposed>>

\* Mutant: the reach is taken a day too long.
PolicyFloorEarly == today - Reach - 1

\* policy_floor = datetime.now(UTC).date() - CAGG_POLICY_REACH
PolicyFloor == today - Reach

\* Mutant: the end of the range instead of its last day with rows.
MarkedDayEnd(j) == job[j].end

\* last_day = result.last_window_with_data[1]
MarkedDay(j) == job[j].last

(* The watermark, then the gate: the floor is read here, after the windows.*)
Mark(j) ==
  /\ job[j].at = "mark"
  /\ watermark' = MarkedDay(j)
  /\ job' = IF job[j].start < PolicyFloor
            THEN [job EXCEPT ![j].at = "refresh", ![j].left = Caggs,
                             ![j].upTo = IF job[j].end < PolicyFloor
                                         THEN job[j].end ELSE PolicyFloor]
            ELSE [job EXCEPT ![j] = Idle]
  /\ UNCHANGED <<today, feed, table, cagg, folded, backfills, failures, exposed>>

\* Mutant: the exclusive end of the refresh is the last day itself.
RefreshWindowShort(j) == job[j].start .. job[j].upTo - 1

RefreshWindow(j) == job[j].start .. job[j].upTo

\* B1610_CAGGS in its order.
NextCagg(j) ==
  IF "b1610_daily_cagg" \in job[j].left THEN "b1610_daily_cagg"
  ELSE "b1610_hh_cagg"

Refresh(j) ==
  /\ job[j].at = "refresh"
  /\ cagg' = Refreshed(NextCagg(j), RefreshWindow(j))
  /\ LET remaining == job[j].left \ {NextCagg(j)}
     IN job' = IF remaining = {} THEN [job EXCEPT ![j] = Idle]
               ELSE [job EXCEPT ![j].left = remaining]
  /\ UNCHANGED <<today, feed, table, watermark, folded, backfills, failures, exposed>>

(* A request, a statement or the process fails.  Days the policies do not  *)
(* reach are left as they are.                                             *)
Fail(j) ==
  /\ job[j].at # "idle"
  /\ failures < MaxFailures
  /\ failures' = failures + 1
  /\ job' = [job EXCEPT ![j] = Idle]
  /\ exposed' = (exposed \/ \E d \in Days : d < today - Reach /\ Stale(d))
  /\ UNCHANGED <<today, feed, table, cagg, watermark, folded, backfills>>

Work(j) == Fetch(j) \/ Upsert(j) \/ Stored(j) \/ Mark(j) \/ Refresh(j)

Next ==
  \/ \E d \in Days : Publish(d)
  \/ Midnight
  \/ \E c \in Caggs : Policy(c)
  \/ Tick \/ Backfill
  \/ \E j \in Jobs : Work(j) \/ Fail(j)

(* The policies are jobs of the database; a job that runs goes on.         *)
Spec ==
  /\ Init /\ [][Next]_vars
  /\ \A c \in Caggs : WF_vars(Policy(c))
  /\ \A j \in Jobs : WF_vars(Work(j))

-----------------------------------------------------------------------------
(* Types: every variable stays in its range.                               *)
TypeOK ==
  /\ today \in FirstToday .. LastDay
  /\ feed \in [Days -> Version]
  /\ table \in [Days -> Version]
  /\ cagg \in [Caggs -> [Days -> Version]]
  /\ watermark \in 0 .. LastDay
  /\ folded \subseteq Caggs
  /\ job \in [Jobs ->
       [at : {"idle", "fetch", "upsert", "mark", "refresh"},
        start : 0 .. LastDay, end : 0 .. LastDay, cur : 0 .. LastDay + 1,
        batch : Version, last : 0 .. LastDay, upTo : 0 .. LastDay,
        left : SUBSET Caggs]]
  /\ backfills \in 0 .. MaxBackfills
  /\ failures \in 0 .. MaxFailures
  /\ exposed \in BOOLEAN

(* A job that ends without an error leaves nothing hidden: each day of its *)
(* range that the policies do not reach any more is shown by both          *)
(* aggregates - also if midnight passed while it was refreshing them.      *)
DoneMeansVisible ==
  [][\A j \in Jobs :
       job[j].at \in {"mark", "refresh"} /\ job'[j] = Idle /\ failures' = failures
       => \A d \in job[j].start .. job[j].end, c \in Caggs :
            \/ d >= today - Reach
            \/ cagg'[c][d] = table[d]]_vars

\* Job j has stored day d, or a later one, and will still refresh c there.
WillRefresh(j, c, d) ==
  /\ job[j].start <= d
  /\ \/ job[j].at \in {"fetch", "upsert", "mark"} /\ d <= job[j].last
     \/ job[j].at = "refresh" /\ d <= job[j].upTo /\ c \in job[j].left

(* No day is hidden for good: one that the policies do not reach and that  *)
(* an aggregate does not show is one that a running job will still refresh *)
(* - unless it was given up before: by a job that failed, or at midnight,  *)
(* when it left the policies' reach within half an hour of being stored.   *)
NoDayGivenUp ==
  ~exposed =>
    \A d \in Days, c \in Caggs :
      d < today - Reach /\ cagg[c][d] # table[d] => \E j \in Jobs : WillRefresh(j, c, d)

(* Both aggregates show in the end what is stored (DATA_PIPELINE.md:       *)
(* "backfills still repair history").                                      *)
AggregatesCatchUp ==
  \A d \in Days, c \in Caggs : cagg[c][d] # table[d] ~> cagg[c][d] = table[d]

(* The day of the watermark has rows: it is never moved to an empty day    *)
(* of a range that ends after what the feed has published.                 *)
WatermarkDayHasRows == watermark > 0 => table[watermark] > 0
=============================================================================
