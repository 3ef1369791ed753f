---------------------------- MODULE ConstraintsFeed ----------------------------
(***************************************************************************)
(* ingest_constraints (ingest/constraints.py): the NESO bulk file, fetched *)
(* with a conditional GET and filtered by a high-water mark.               *)
(*                                                                         *)
(* The file holds the whole history and is republished with one more       *)
(* period at a time, all constraint groups together; each publication has  *)
(* a new validator (ETag, Last-Modified), here its number.  The refresh is *)
(* a process of its own, started by a timer and by hand, so several may    *)
(* run at once; each may fail or be killed between any two statements,     *)
(* every one of which commits by itself.                                   *)
(***************************************************************************)
EXTENDS Batches

CONSTANTS
  Processes,    \* refreshes that may run at the same time
  LastPeriod,   \* bound: periods the file ever holds
  MaxFailures   \* bound: runs that end before their last statement

ASSUME LastPeriodAssumption == LastPeriod \in Nat
ASSUME MaxFailuresAssumption == MaxFailures \in Nat
ASSUME OneVersionAssumption == MaxVersion = 1

VARIABLES
  file,      \* number of the current publication, which holds periods 1 .. file
  table,     \* the table constraints
  cached,    \* ingest_http_cache: the validator saved last; 0 for none
  pc,        \* pc[p]: the statement process p executes next
  lastTs,    \* lastTs[p]: the MAX(ts) it read; 0 for NULL
  sent,      \* sent[p]: the validator it sends with its request; 0 for none
  got,       \* got[p]: the validator that came with its download
  rows,      \* rows[p]: the rows it kept of the download
  failures,  \* how many runs have failed
  seen,         \* history: the publications whose validator was saved
  overlapped,   \* history: two refreshes have run at the same time
  interrupted   \* history: a refresh has failed just before its upsert

runVars == <<pc, lastTs, sent, got, rows>>
history == <<seen, overlapped, interrupted>>
vars == <<file, table, cached, runVars, failures, history>>

Periods == 0 .. LastPeriod
Absent == [k \in Keys |-> 0]

Init ==
  /\ file = 0
  /\ table = Absent
  /\ cached = 0
  /\ pc = [p \in Processes |-> "idle"]
  /\ lastTs = [p \in Processes |-> 0]
  /\ sent = [p \in Processes |-> 0]
  /\ got = [p \in Processes |-> 0]
  /\ rows = [p \in Processes |-> Absent]
  /\ failures = 0
  /\ seen = {}
  /\ overlapped = FALSE
  /\ interrupted = FALSE

(* NESO publishes the file with the next period in it.                     *)
Publish ==
  /\ file < LastPeriod
  /\ file' = file + 1
  /\ UNCHANGED <<table, cached, runVars, failures, history>>

\* SELECT MAX(ts) FROM constraints
IsHighWater(t, tbl) ==
  /\ \A k \in Present(tbl) : TimeOf[k] <= t
  /\ t = 0 \/ \E k \in Present(tbl) : TimeOf[k] = t

Started(p) ==
  /\ overlapped' = (overlapped \/ \E q \in Processes \ {p} : pc[q] # "idle")
  /\ UNCHANGED <<seen, interrupted>>

\* Mutant: the last stored period is read again, even if there is none.
ReadMaxMinusOne(p) ==
  /\ pc[p] = "idle"
  /\ \E t \in Periods : IsHighWater(t, table) /\ lastTs' = [lastTs EXCEPT ![p] = t - 1]
  /\ pc' = [pc EXCEPT ![p] = "validators"]
  /\ Started(p)
  /\ UNCHANGED <<file, table, cached, sent, got, rows, failures>>

ReadMax(p) ==
  /\ pc[p] = "idle"
  /\ \E t \in Periods : IsHighWater(t, table) /\ lastTs' = [lastTs EXCEPT ![p] = t]
  /\ pc' = [pc EXCEPT ![p] = "validators"]
  /\ Started(p)
  /\ UNCHANGED <<file, table, cached, sent, got, rows, failures>>

\* Mutant: the request carries no validator.
GetNoValidators(p) ==
  /\ pc[p] = "validators"
  /\ sent' = [sent EXCEPT ![p] = 0]
  /\ pc' = [pc EXCEPT ![p] = "request"]
  /\ UNCHANGED <<file, table, cached, lastTs, got, rows, failures, history>>

GetValidators(p) ==
  /\ pc[p] = "validators"
  /\ sent' = [sent EXCEPT ![p] = cached]
  /\ pc' = [pc EXCEPT ![p] = "request"]
  /\ UNCHANGED <<file, table, cached, lastTs, got, rows, failures, history>>

\* Mutant: the validator of the previous publication still matches.
UnchangedLoose(p) == sent[p] > 0 /\ sent[p] >= file - 1

\* The server knows the validator: 304.
IsUnchanged(p) == sent[p] > 0 /\ sent[p] = file

NotModified(p) ==
  /\ pc[p] = "request"
  /\ IsUnchanged(p)
  /\ pc' = [pc EXCEPT ![p] = "idle"]
  /\ UNCHANGED <<file, table, cached, lastTs, sent, got, rows, failures, history>>

\* Mutant: a row is compared with the mark of the wrong end.
NewRowsOffByOne(t) ==
  [k \in Keys |-> IF TimeOf[k] <= file /\ TimeOf[k] > t + 1 THEN 1 ELSE 0]

\* The rows of the file that pass `ts > last_ts`.
NewRows(t) == [k \in Keys |-> IF TimeOf[k] <= file /\ TimeOf[k] > t THEN 1 ELSE 0]

Download(p) ==
  /\ pc[p] = "request"
  /\ file > 0
  /\ ~IsUnchanged(p)
  /\ rows' = [rows EXCEPT ![p] = NewRows(lastTs[p])]
  /\ got' = [got EXCEPT ![p] = file]
  /\ pc' = [pc EXCEPT ![p] = "save"]
  /\ UNCHANGED <<file, table, cached, lastTs, sent, failures, history>>

SaveValidators(p) ==
  /\ pc[p] = "save"
  /\ cached' = got[p]
  /\ seen' = seen \cup {got[p]}
  /\ pc' = [pc EXCEPT ![p] = IF Present(rows[p]) = {} THEN "idle" ELSE "upsert"]
  /\ UNCHANGED <<file, table, lastTs, sent, got, rows, failures, overlapped,
                 interrupted>>

Upsert(p) ==
  /\ pc[p] = "upsert"
  /\ table' = Merge(table, rows[p])
  /\ pc' = [pc EXCEPT ![p] = "idle"]
  /\ UNCHANGED <<file, cached, lastTs, sent, got, rows, failures, history>>

(* An error of the server, the network or the database, or a kill.         *)
Fail(p) ==
  /\ pc[p] # "idle"
  /\ failures < MaxFailures
  /\ failures' = failures + 1
  /\ interrupted' = (interrupted \/ pc[p] = "upsert")
  /\ pc' = [pc EXCEPT ![p] = "idle"]
  /\ UNCHANGED <<file, table, cached, lastTs, sent, got, rows, seen, overlapped>>

Run(p) ==
  \/ ReadMax(p) \/ GetValidators(p) \/ NotModified(p) \/ Download(p)
  \/ SaveValidators(p) \/ Upsert(p)

Next == Publish \/ \E p \in Processes : Run(p) \/ Fail(p)

(* The timer starts a refresh every day, and a refresh runs to its end.    *)
Spec == Init /\ [][Next]_vars /\ \A p \in Processes : WF_vars(Run(p))

-----------------------------------------------------------------------------
(* Types: every variable stays in its range.                               *)
TypeOK ==
  /\ file \in Periods
  /\ table \in [Keys -> Version]
  /\ cached \in Periods
  /\ pc \in [Processes ->
              {"idle", "validators", "request", "save", "upsert"}]
  /\ lastTs \in [Processes -> Periods]
  /\ sent \in [Processes -> Periods]
  /\ got \in [Processes -> Periods]
  /\ rows \in [Processes -> [Keys -> Version]]
  /\ failures \in 0 .. MaxFailures
  /\ seen \subseteq Periods
  /\ {overlapped, interrupted} \subseteq BOOLEAN

(* The high-water mark hides nothing: with a row stored, every earlier row *)
(* is stored too, so rows at or below MAX(ts) may be skipped - with any    *)
(* number of refreshes at once and wherever they fail.                     *)
HighWaterMarkIsComplete ==
  \A k \in Present(table), l \in Keys : TimeOf[l] <= TimeOf[k] => table[l] > 0

(* A publication whose validator was saved is not downloaded again         *)
(* (migration 0014: "skip the transfer and parse entirely when the file    *)
(* hasn't changed"), whatever failed, unless two refreshes ever overlapped *)
(* - the slower one may then save an older validator over a newer.         *)
DownloadedOnce ==
  [][\A p \in Processes :
       pc[p] = "request" /\ pc'[p] = "save" /\ ~overlapped => file \notin seen]_vars

(* Every row of the file reaches the table, with refreshes overlapping and *)
(* failing - except just before an upsert.                                 *)
RowsArriveUnlessInterrupted ==
  \A k \in Keys : TimeOf[k] <= file ~> table[k] > 0 \/ interrupted

(* Every row of the file reaches the table (constraints.py: "subsequent    *)
(* daily refreshes only upsert the new rows").  Not so after a failure     *)
(* just before an upsert.                                                  *)
EveryRowArrives ==
  \A k \in Keys : TimeOf[k] <= file ~> table[k] > 0
=============================================================================
