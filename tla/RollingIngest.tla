----------------------------- MODULE RollingIngest -----------------------------
(***************************************************************************)
(* boalf, pn and mels (ingest/*.py, scheduler.py): every tick asks again   *)
(* for a range of hours around the clock, from Behind hours ago to Ahead   *)
(* hours from now, and nothing remembers what the last one got.  A         *)
(* backfill by hand asks for any range, on a connection of its own.  A     *)
(* range is cut into windows (datetime_range), both ends of a window are   *)
(* asked for (endpoints.py), a request that fails in a transient way is    *)
(* repeated (client.py), and the rows of a window are upserted as module   *)
(* Upsert says.                                                            *)
(*                                                                         *)
(* Time is counted in hours.  A record is one conflict key; record k       *)
(* begins (time_from) in hour TimeOf[k] and is first published by Lag      *)
(* hours later.  It holds the number of its revision.  A window is fetched *)
(* when its turn comes: that the pool may do so earlier, and what that     *)
(* does to revisions, is in module WindowPipeline.                         *)
(*                                                                         *)
(* A call also sets the watermark of its dataset after each upsert.  For   *)
(* these datasets only the status command reads it, so it is left out.     *)
(***************************************************************************)
EXTENDS Upsert, FiniteSets

CONSTANTS
  TimeOf,       \* TimeOf[k]: the hour of record k
  MaxVersion,   \* bound: MaxVersion[k] revisions of record k
  LastHour,     \* bound: the clock stops here
  Behind,       \* hours a tick reaches back (4)
  Ahead,        \* hours a tick reaches ahead (0 for boalf, 24 for pn and mels)
  Lag,          \* hours until a record is published
  Chunk,        \* hours per window (6 or 12)
  MaxAttempts   \* how often a request is made (5)

ASSUME HoursAssumption ==
  /\ IsFiniteSet(Keys)
  /\ TimeOf \in [Keys -> Nat] /\ MaxVersion \in [Keys -> Nat]
  /\ {LastHour, Behind, Ahead, Lag} \subseteq Nat
  /\ {Chunk, MaxAttempts} \subseteq Nat \ {0}

ASSUME ValuesAssumption == \A k \in Keys : 1 .. MaxVersion[k] \subseteq Values
ASSUME SessionsAssumption == Sessions = {"tick", "backfill"}

VARIABLES
  now,     \* the hour
  feed,    \* feed[k]: the published revision of record k; 0: none
  job,     \* job[s]: where the call of session s is; see Idle
  began,   \* history: the hour in which the last tick began
  lastOk,  \* history: the same of the last tick that returned; -1: none
  since,   \* history: the hour from which on records are looked after
  gap      \* history: two ticks that returned began too far apart

vars == <<table, batch, done, pending, now, feed, job, began, lastOk, since, gap>>
clockVars == <<now, feed>>
history == <<began, lastOk, since, gap>>

(* at: "idle", "fetch" or "upsert"; cur: the start of the next window;     *)
(* end: the end of the range; attempt: how often its request has failed.   *)
Idle == [at |-> "idle", cur |-> 0, end |-> 0, attempt |-> 0]

RollingInit ==
  /\ UpsertInit
  /\ table = [k \in Keys |-> Missing]
  /\ now = 0
  /\ feed = [k \in Keys |-> 0]
  /\ job = [s \in Sessions |-> Idle]
  /\ began = 0
  /\ lastOk = -1
  /\ since = 0
  /\ gap = FALSE

-----------------------------------------------------------------------------
Advance ==
  /\ now < LastHour
  /\ now' = now + 1
  /\ UNCHANGED <<upsertVars, feed, job, history>>

\* A record is published, or revised; the first time while it is fresh.
Publish(k) ==
  /\ feed[k] < MaxVersion[k]
  /\ feed[k] = 0 => now <= TimeOf[k] + Lag
  /\ feed' = [feed EXCEPT ![k] = @ + 1]
  /\ UNCHANGED <<upsertVars, now, job, history>>

-----------------------------------------------------------------------------
Begin(s, from, to) ==
  /\ job[s].at = "idle"
  /\ job' = [job EXCEPT ![s] = [at |-> "fetch", cur |-> from, end |-> to,
                                attempt |-> 0]]
  /\ UNCHANGED <<upsertVars, clockVars>>

\* Mutant: the reach is an hour short.
TickStartLate == now - Behind + 1

\* start = now - timedelta(hours=4)
TickStart == now - Behind

Tick ==
  /\ Begin("tick", TickStart, now + Ahead)
  /\ began' = now
  /\ UNCHANGED <<lastOk, since, gap>>

\* Its last day may not be over (--to is taken to the end of the day).
Backfill ==
  /\ \E from, to \in 0 .. LastHour : from < to /\ Begin("backfill", from, to)
  /\ UNCHANGED history

\* Mutant: the last window is not cut.
WindowEndUncut(s) == job[s].cur + Chunk

\* nxt = min(cur + step, end)
WindowEnd(s) ==
  IF job[s].cur + Chunk < job[s].end THEN job[s].cur + Chunk ELSE job[s].end

IsAskedFor(s, k) == job[s].cur <= TimeOf[k] /\ TimeOf[k] <= WindowEnd(s)

Asked(s) == {k \in Keys : feed[k] > 0 /\ IsAskedFor(s, k)}

\* The records of K in some order.
Orders(K) ==
  {q \in [1 .. Cardinality(K) -> [key : K, value : Values]] :
     /\ \A i \in DOMAIN q : q[i].value = feed[q[i].key]
     /\ \A k \in K : \E i \in DOMAIN q : q[i].key = k}

\* An older revision of one of them, or nothing.
OlderRevision(K) ==
  {<<>>} \cup {<<[key |-> k, value |-> feed[k] - 1]>> : k \in {r \in K : feed[r] > 1}}

(* The answer: the records in any order, and maybe a revision of one of    *)
(* them that came before.                                                  *)
Answers(s) == {older \o q : older \in OlderRevision(Asked(s)), q \in Orders(Asked(s))}

Fetch(s) ==
  /\ job[s].at = "fetch"
  /\ job[s].cur < job[s].end
  /\ \E b \in Answers(s) :
       IF b = <<>>
       THEN /\ job' = [job EXCEPT ![s].cur = WindowEnd(s), ![s].attempt = 0]
            /\ UNCHANGED upsertVars
       ELSE /\ job' = [job EXCEPT ![s].at = "upsert", ![s].attempt = 0]
            /\ UpsertCall(s, b)
  /\ UNCHANGED <<clockVars, history>>

\* Mutant: the attempts have no end.
RetryForever(s) ==
  /\ job[s].at = "fetch"
  /\ job[s].cur < job[s].end
  /\ job' = [job EXCEPT ![s].attempt = (@ + 1) % MaxAttempts]
  /\ UNCHANGED <<upsertVars, clockVars, history>>

\* _is_retryable: the transport fails, or the status is 429 or 5xx.
Retry(s) ==
  /\ job[s].at = "fetch"
  /\ job[s].cur < job[s].end
  /\ job[s].attempt + 1 < MaxAttempts
  /\ job' = [job EXCEPT ![s].attempt = @ + 1]
  /\ UNCHANGED <<upsertVars, clockVars, history>>

\* The last attempt fails, or any in a way that is not retried.
GiveUp(s) ==
  /\ job[s].at = "fetch"
  /\ job[s].cur < job[s].end
  /\ job' = [job EXCEPT ![s] = Idle]
  /\ UNCHANGED <<upsertVars, clockVars, history>>

\* A statement of the upsert.
Write(s) ==
  /\ WriteRow(s)
  /\ UNCHANGED <<clockVars, job, history>>

Stored(s) ==
  /\ Commit(s)
  /\ job' = [job EXCEPT ![s].at = "fetch", ![s].cur = WindowEnd(s)]
  /\ UNCHANGED <<clockVars, history>>

\* The upsert raises: the call does, and _loop logs it.
Raised(s) ==
  /\ job' = [job EXCEPT ![s] = Idle]
  /\ UNCHANGED <<clockVars, history>>

\* run_windows returns; for a tick, so does the tick.
Return(s) ==
  /\ job[s].at = "fetch"
  /\ job[s].cur >= job[s].end
  /\ job' = [job EXCEPT ![s] = Idle]
  /\ IF s = "tick"
     THEN /\ lastOk' = began
          /\ since' = IF lastOk = -1 THEN began - Behind ELSE since
          /\ gap' = (gap \/ (lastOk # -1 /\ began > lastOk + Behind - Lag))
          /\ UNCHANGED began
     ELSE UNCHANGED history
  /\ UNCHANGED <<upsertVars, clockVars>>

Step(s) ==
  \/ Return(s) \/ GiveUp(s) \/ Retry(s) \/ Fetch(s)
  \/ Stored(s) \/ Write(s)
  \/ (SecondTime(s) \/ Deadlocked(s)) /\ Raised(s)

Lose(s) == RollBack(s) /\ Raised(s)

Next ==
  \/ Advance
  \/ \E k \in Keys : Publish(k)
  \/ Tick \/ Backfill
  \/ \E s \in Sessions : Step(s) \/ Lose(s)

(* A request has a timeout, and a running call goes on.  A session that    *)
(* waits for a row is the next to have it, however often others take it    *)
(* (PostgreSQL queues them), hence the strong fairness.                    *)
Spec ==
  /\ RollingInit /\ [][Next]_vars
  /\ \A s \in Sessions : SF_vars(Step(s))

-----------------------------------------------------------------------------
(* Types: a call is in its range, and has rows to write exactly while it   *)
(* is upserting (run_windows writes on the calling thread).                *)
TypeOK ==
  /\ UpsertTypeOK
  /\ now \in 0 .. LastHour
  /\ feed \in [Keys -> Nat] /\ \A k \in Keys : feed[k] \in 0 .. MaxVersion[k]
  /\ job \in [Sessions -> [at : {"idle", "fetch", "upsert"}, cur : Int, end : Int,
                           attempt : 0 .. MaxAttempts - 1]]
  /\ began \in 0 .. LastHour
  /\ lastOk \in -1 .. LastHour /\ since \in Int /\ gap \in BOOLEAN
  /\ \A s \in Sessions :
       /\ job[s].cur <= job[s].end
       /\ job[s].at = "upsert" <=> batch[s] # <<>>

(* What an outage loses: while every tick that returns began within Behind *)
(* less Lag hours of the one before (however many ticks failed, gave up or *)
(* were lost to a deadlock in between), every record that has had its time *)
(* to be published before the last of them is stored ("Each window is      *)
(* wider than an hourly tick, so the rolling overlap holds").              *)
NothingLeftBehind ==
  ~gap => \A k \in Keys :
            feed[k] > 0 /\ since <= TimeOf[k] /\ TimeOf[k] < lastOk - Lag
              => table[k] # Missing

(* A call ends, by returning or by raising: retries are counted, and two   *)
(* calls that lock each other out are told apart by the database.          *)
CallsEnd ==
  \A s \in Sessions : []<>(job[s].at = "idle")
=============================================================================
