---------------------------- MODULE WindowPipeline ----------------------------
(***************************************************************************)
(* run_windows (ingest/base.py): one call that fetches a list of windows   *)
(* with a pool of threads and writes them, in order, from the calling      *)
(* thread.  The feed is outside the program and may publish a record or    *)
(* revise it at any moment, so two fetches of overlapping windows can see  *)
(* different revisions of one record.                                      *)
(*                                                                         *)
(* Steps: every submit, every end of a fetch, popleft/result/submit, the   *)
(* upsert, the watermark and the bookkeeping are separate, as the pool's   *)
(* threads, the feed and a crash may come between any two of them.         *)
(***************************************************************************)
EXTENDS Batches, Sequences, FiniteSets, SequencesExt

CONSTANTS
  NumWindows,    \* the windows the caller passes are 1 .. NumWindows
  KeysOf,        \* KeysOf[w]: the records whose validity touches window w
  HasWatermark,  \* whether watermark_col is given
  Concurrency    \* the concurrency argument, or FETCH_CONCURRENCY

Windows == 1 .. NumWindows

ASSUME NumWindowsAssumption == NumWindows \in Nat
ASSUME KeysOfAssumption == KeysOf \in [Windows -> SUBSET Keys]
ASSUME HasWatermarkAssumption == HasWatermark \in BOOLEAN
ASSUME ConcurrencyAssumption == Concurrency \in Int
ASSUME KeysAssumption == IsFiniteSet(Keys)

(* Windows follow each other in time.  Neighbours may share the records of *)
(* their common instant (both ends of a request are inclusive), nothing    *)
(* else: fuelinst, whose rows are instants.                                *)
ASSUME WindowsAssumption ==
  \A w \in Windows : \A v \in 1 .. w - 1 :
    \A k \in KeysOf[v], l \in KeysOf[w] :
      TimeOf[k] < TimeOf[l] \/ (TimeOf[k] = TimeOf[l] /\ l \in KeysOf[v])

\* Mutant: a floor of two, so that the serial branch is never taken.
WorkersAtLeastTwo == IF Concurrency < 2 THEN 2 ELSE Concurrency
Workers == IF Concurrency < 1 THEN 1 ELSE Concurrency
Serial == Workers = 1

VARIABLES
  feed,          \* feed[k]: the revision of record k that is published now
  pc,            \* where the calling thread is
  next,          \* first window not yet taken from the iterator `remaining`
  inFlight,      \* the deque in_flight, as window numbers
  status,        \* status[w] of the future of window w
  rows,          \* rows[w]: the result of w's fetch, once it has one
  current,       \* the window popped last, whose rows the caller holds; or 0
  table,         \* the dataset's table in the database
  watermark,     \* the dataset's row of ingest_watermark; 0 if none
  total,         \* the caller's count of rows
  lastWithData,  \* last_with_data; 0 for None
  stored,        \* history: how many windows' batches are in the table
  marked,        \* history: the window that set the watermark last; 0 if none
  atStart        \* history: the feed as it was when the call began

callVars == <<next, inFlight, current, total, lastWithData>>
dbVars == <<table, watermark, stored, marked>>
vars == <<feed, pc, status, rows, callVars, dbVars, atStart>>

Absent == [k \in Keys |-> 0]
Ended == {"returned", "raised", "crashed"}
Running == {w \in Windows : status[w] = "running"}

\* A result set lives from the end of its fetch until `rows` is rebound.
HeldResults == {w \in Windows : status[w] = "done"}

-----------------------------------------------------------------------------
(* The table may hold older revisions of the same records, and the         *)
(* watermark any time, from earlier calls.                                 *)
Init ==
  /\ feed \in [Keys -> Version]
  /\ atStart = feed
  /\ table \in [Keys -> Version]
  /\ \A k \in Keys : table[k] <= feed[k]
  /\ watermark \in {0} \cup {TimeOf[k] : k \in Keys}
  /\ pc = IF Serial THEN "serial" ELSE "fill"
  /\ next = 1
  /\ inFlight = << >>
  /\ status = [w \in Windows |-> "idle"]
  /\ rows = [w \in Windows |-> Absent]
  /\ current = 0
  /\ total = 0
  /\ lastWithData = 0
  /\ stored = 0
  /\ marked = 0

(* The feed publishes record k, or a revision of it.                       *)
Publish(k) ==
  /\ feed[k] < MaxVersion
  /\ pc \notin Ended
  /\ feed' = [feed EXCEPT ![k] = @ + 1]
  /\ UNCHANGED <<pc, status, rows, callVars, dbVars, atStart>>

\* What a fetch of window w answers now: the feed restricted to the window.
Answer(w) == [k \in Keys |-> IF k \in KeysOf[w] THEN feed[k] ELSE 0]

-----------------------------------------------------------------------------
(* The pool.  A fetch ends with the rows the feed had when it answered, or *)
(* fails once the client has used up its attempts.                         *)
FetchDone(w) ==
  /\ status[w] = "running"
  /\ status' = [status EXCEPT ![w] = "done"]
  /\ rows' = [rows EXCEPT ![w] = Answer(w)]
  /\ UNCHANGED <<feed, pc, callVars, dbVars, atStart>>

FetchFails(w) ==
  /\ status[w] = "running"
  /\ status' = [status EXCEPT ![w] = "failed"]
  /\ UNCHANGED <<feed, pc, rows, callVars, dbVars, atStart>>

-----------------------------------------------------------------------------
(* The caller, pooled branch.                                              *)

\* Mutant: the end of the iterator is missed by one.
HasNextOffByOne == next <= NumWindows + 1

\* next(remaining, None) is not None
HasNext == next <= NumWindows

\* Mutant: every window is submitted at once.
FillAll ==
  /\ pc = "fill"
  /\ HasNext
  /\ inFlight' = Append(inFlight, next)
  /\ status' = [status EXCEPT ![next] = "running"]
  /\ next' = next + 1
  /\ UNCHANGED <<feed, pc, rows, current, total, lastWithData, dbVars, atStart>>

\* islice(remaining, workers): one submit of the initial fill.
Fill ==
  /\ pc = "fill"
  /\ HasNext
  /\ Len(inFlight) < Workers
  /\ inFlight' = Append(inFlight, next)
  /\ status' = [status EXCEPT ![next] = "running"]
  /\ next' = next + 1
  /\ UNCHANGED <<feed, pc, rows, current, total, lastWithData, dbVars, atStart>>

Filled ==
  /\ pc = "fill"
  /\ ~HasNext \/ Len(inFlight) = Workers
  /\ pc' = "loop"
  /\ UNCHANGED <<feed, status, rows, callVars, dbVars, atStart>>

\* Mutant: pop instead of popleft.
PopIndexLast(queue) == Len(queue)

\* popleft: the caller consumes the oldest element of the deque.
PopIndex(queue) == 1
Popped(queue) == queue[PopIndex(queue)]
Left(queue) == RemoveAt(queue, PopIndex(queue))

\* The rows of the window popped before are released when `rows` is rebound.
Released(st) ==
  IF current = 0 THEN st ELSE [st EXCEPT ![current] = "dropped"]

(* popleft, result() of a future that has its rows, and the next submit.   *)
Take ==
  /\ pc = "loop"
  /\ inFlight # << >>
  /\ status[Popped(inFlight)] = "done"
  /\ current' = Popped(inFlight)
  /\ pc' = "write"
  /\ IF HasNext
     THEN /\ inFlight' = Append(Left(inFlight), next)
          /\ status' = [Released(status) EXCEPT ![next] = "running"]
          /\ next' = next + 1
     ELSE /\ inFlight' = Left(inFlight)
          /\ status' = Released(status)
          /\ UNCHANGED next
  /\ UNCHANGED <<feed, rows, total, lastWithData, dbVars, atStart>>

\* Mutant: a failed window is skipped.
TakeFailedSkips ==
  /\ pc = "loop"
  /\ inFlight # << >>
  /\ status[Popped(inFlight)] = "failed"
  /\ inFlight' = Left(inFlight)
  /\ UNCHANGED <<feed, pc, status, rows, next, current, total, lastWithData,
                 dbVars, atStart>>

(* result() of a failed future raises: the `with` block starts shutdown.   *)
TakeFailed ==
  /\ pc = "loop"
  /\ inFlight # << >>
  /\ status[Popped(inFlight)] = "failed"
  /\ inFlight' = Left(inFlight)
  /\ pc' = "shutdown"
  /\ UNCHANGED <<feed, status, rows, next, current, total, lastWithData,
                 dbVars, atStart>>

Return ==
  /\ \/ pc = "loop" /\ inFlight = << >>
     \/ pc = "serial" /\ ~HasNext
  /\ pc' = "returned"
  /\ UNCHANGED <<feed, status, rows, callVars, dbVars, atStart>>

\* Mutant: shutdown(wait=False).
ShutdownAtOnce ==
  /\ pc = "shutdown"
  /\ pc' = "raised"
  /\ UNCHANGED <<feed, status, rows, callVars, dbVars, atStart>>

\* Mutant: the exit waits for the deque, which nobody empties any more.
ShutdownDrains ==
  /\ pc = "shutdown"
  /\ inFlight = << >>
  /\ pc' = "raised"
  /\ UNCHANGED <<feed, status, rows, callVars, dbVars, atStart>>

(* ThreadPoolExecutor.__exit__ joins its threads before the error goes on. *)
Shutdown ==
  /\ pc = "shutdown"
  /\ Running = {}
  /\ pc' = "raised"
  /\ UNCHANGED <<feed, status, rows, callVars, dbVars, atStart>>

-----------------------------------------------------------------------------
(* The caller, serial branch: fetch(window) on the calling thread.  With   *)
(* no pool, an error leaves the function at once.                          *)
SerialFetch ==
  /\ pc = "serial"
  /\ HasNext
  /\ current' = next
  /\ next' = next + 1
  /\ status' = [Released(status) EXCEPT ![next] = "done"]
  /\ rows' = [rows EXCEPT ![next] = Answer(next)]
  /\ pc' = "write"
  /\ UNCHANGED <<feed, inFlight, total, lastWithData, dbVars, atStart>>

SerialFetchFails ==
  /\ pc = "serial"
  /\ HasNext
  /\ pc' = "raised"
  /\ UNCHANGED <<feed, status, rows, callVars, dbVars, atStart>>

-----------------------------------------------------------------------------
(* _write: the upsert and the watermark are two transactions; the caller's *)
(* totals follow both.                                                     *)
Upsert ==
  /\ pc = "write"
  /\ table' = Merge(table, rows[current])
  /\ stored' = current
  /\ pc' = IF HasWatermark /\ Present(rows[current]) # {}
           THEN "mark" ELSE "count"
  /\ UNCHANGED <<feed, status, rows, callVars, watermark, marked, atStart>>

SetWatermark ==
  /\ pc = "mark"
  /\ \E k \in Present(rows[current]) :
       IsLatest(k, Present(rows[current])) /\ watermark' = TimeOf[k]
  /\ marked' = current
  /\ pc' = "count"
  /\ UNCHANGED <<feed, status, rows, callVars, table, stored, atStart>>

\* Mutant: a failed write is logged and the loop goes on.
WriteFailsIsLogged ==
  /\ pc \in {"write", "mark"}
  /\ pc' = "count"
  /\ UNCHANGED <<feed, status, rows, callVars, dbVars, atStart>>

WriteFails ==
  /\ pc \in {"write", "mark"}
  /\ pc' = IF Serial THEN "raised" ELSE "shutdown"
  /\ UNCHANGED <<feed, status, rows, callVars, dbVars, atStart>>

\* Mutant: without `if n`.
CountAlways ==
  /\ pc = "count"
  /\ total' = total + Cardinality(Present(rows[current]))
  /\ lastWithData' = current
  /\ pc' = IF Serial THEN "serial" ELSE "loop"
  /\ UNCHANGED <<feed, status, rows, next, inFlight, current, dbVars, atStart>>

Count ==
  /\ pc = "count"
  /\ total' = total + Cardinality(Present(rows[current]))
  /\ lastWithData' = IF Present(rows[current]) # {} THEN current
                     ELSE lastWithData
  /\ pc' = IF Serial THEN "serial" ELSE "loop"
  /\ UNCHANGED <<feed, status, rows, next, inFlight, current, dbVars, atStart>>

(* The process dies, and with it every thread of the pool.                 *)
Crash ==
  /\ pc \notin Ended
  /\ pc' = "crashed"
  /\ status' = [w \in Windows |->
                  IF status[w] = "running" THEN "failed" ELSE status[w]]
  /\ UNCHANGED <<feed, rows, callVars, dbVars, atStart>>

-----------------------------------------------------------------------------
Caller ==
  \/ Fill \/ Filled \/ Take \/ TakeFailed \/ Return \/ Shutdown
  \/ SerialFetch \/ SerialFetchFails
  \/ Upsert \/ SetWatermark \/ WriteFails \/ Count

Fetch(w) == FetchDone(w) \/ FetchFails(w)

Next ==
  \/ \E k \in Keys : Publish(k)
  \/ \E w \in Windows : Fetch(w)
  \/ Caller
  \/ Crash

(* Every request has a timeout and a bounded number of attempts, so a      *)
(* fetch ends; the calling thread keeps running while it can.              *)
Fairness ==
  /\ WF_vars(Caller)
  /\ \A w \in Windows : WF_vars(Fetch(w))

Spec == Init /\ [][Next]_vars /\ Fairness

-----------------------------------------------------------------------------
(* Types: every variable stays in its range.                               *)
TypeOK ==
  /\ feed \in [Keys -> Version]
  /\ atStart \in [Keys -> Version]
  /\ table \in [Keys -> Version]
  /\ rows \in [Windows -> [Keys -> Version]]
  /\ watermark \in {0} \cup {TimeOf[k] : k \in Keys}
  /\ pc \in {"fill", "serial", "loop", "write", "mark", "count", "shutdown"}
            \cup Ended
  /\ next \in 1 .. NumWindows + 1
  /\ inFlight \in Seq(Windows)
  /\ status \in [Windows -> {"idle", "running", "done", "failed", "dropped"}]
  /\ current \in 0 .. NumWindows
  /\ total \in Nat
  /\ lastWithData \in 0 .. NumWindows
  /\ stored \in 0 .. NumWindows
  /\ marked \in 0 .. NumWindows

(* Last write wins, in window order, whatever the order the fetches ended  *)
(* in: each stored record is what the last stored window holding it        *)
(* returned (base.py: "Writes stay on the calling thread, in window        *)
(* order").                                                                *)
LaterWindowWins ==
  \A w \in 1 .. stored, k \in Keys :
    /\ rows[w][k] > 0
    /\ \A v \in w + 1 .. stored : rows[v][k] = 0
    => table[k] = rows[w][k]

(* Resuming from the watermark loses nothing: once this call has moved it, *)
(* every record of the requested range that is not later than the          *)
(* watermark, and that was published when the call began, is in the table  *)
(* at that revision or a newer one - also after an error or a crash.       *)
ResumeIsSafe ==
  marked > 0 =>
    \A k \in UNION {KeysOf[w] : w \in Windows} :
      TimeOf[k] <= watermark => table[k] >= atStart[k]

(* At most `concurrency` fetches run at once, and the results held in      *)
(* memory are at most one more than that: those waiting in the deque and   *)
(* the one being written (base.py: "Only concurrency fetches are ever in   *)
(* flight, which bounds how many fetched result sets are held").           *)
MemoryIsBounded ==
  /\ Cardinality(Running) <= Workers
  /\ Cardinality(HeldResults) <= Workers + 1
  /\ Cardinality(Running \cup HeldResults) <= Workers + 1

(* No fetch outlives the call, however it ends: the client it uses is      *)
(* closed right afterwards.                                                *)
NoOrphanFetch == pc \in Ended => Running = {}

(* A call that returns has stored every window and reports exactly what it *)
(* stored: the number of rows, and the last window that had any (b1610     *)
(* derives its watermark and its refresh from that window).                *)
ResultIsExact ==
  pc = "returned" =>
    LET full == {w \in Windows : Present(rows[w]) # {}}
    IN /\ stored = NumWindows
       /\ total = Cardinality({f \in Windows \X Keys : rows[f[1]][f[2]] > 0})
       /\ lastWithData \in full \cup {0}
       /\ \A w \in full : w <= lastWithData

(* A write never replaces a stored record by an older revision of it.      *)
(* True of the serial branch; base.py says the pooled one leaves "watermark *)
(* and last-write-wins semantics unchanged".                               *)
StoredNeverRegresses == [][\A k \in Keys : table'[k] >= table[k]]_vars

(* Once this call has moved the watermark it only moves it forward.        *)
WatermarkAdvances == [][marked > 0 => watermark' >= watermark]_vars

(* Every call ends, with no window left waiting on the pool.               *)
Terminates == <>(pc \in Ended)

-----------------------------------------------------------------------------
(* The refinement: run_windows, pooled or not, is a serial ingest.         *)
AbstractDue == IF pc = "mark" THEN Present(rows[current]) ELSE {}
AbstractOutcome ==
  IF pc = "returned" THEN "returned"
  ELSE IF pc \in {"shutdown", "raised", "crashed"} THEN "stopped" ELSE "running"

Abstract == INSTANCE SerialIngest WITH
  applied <- stored, due <- AbstractDue, outcome <- AbstractOutcome

(* The database sees the windows one at a time, in order, each followed by *)
(* its watermark, and the call returns only when all of them are stored.   *)
ImplementsSerialIngest == Abstract!Spec
=============================================================================
