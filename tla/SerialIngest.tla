----------------------------- MODULE SerialIngest -----------------------------
(***************************************************************************)
(* What run_windows promises its callers, with the fetching left out: the  *)
(* database sees the windows' batches one at a time, in window order, each *)
(* one whole; the watermark moves only to the latest time of the batch     *)
(* just applied, before the next one is; the call returns once every       *)
(* window is applied, and a call that stops early leaves a prefix.         *)
(***************************************************************************)
EXTENDS Batches

CONSTANTS
  NumWindows,    \* windows 1 .. NumWindows, in the order they are given
  KeysOf,        \* KeysOf[w]: the records a fetch of window w may return
  HasWatermark   \* whether the caller passed a watermark_col

VARIABLES
  table,      \* the dataset's table
  watermark,  \* ingest_watermark.last_ts of the dataset; 0 when there is none
  applied,    \* how many windows have been applied
  due,        \* the records of the batch whose watermark is still to be set
  outcome     \* "running", "returned", or "stopped" (raised or crashed)

vars == <<table, watermark, applied, due, outcome>>

BatchesOf(w) == {b \in [Keys -> Version] : Present(b) \subseteq KeysOf[w]}

Init ==
  /\ table \in [Keys -> Version]
  /\ watermark \in {0} \cup {TimeOf[k] : k \in Keys}
  /\ applied = 0
  /\ due = {}
  /\ outcome = "running"

Apply ==
  /\ outcome = "running"
  /\ due = {}
  /\ applied < NumWindows
  /\ \E b \in BatchesOf(applied + 1) :
       /\ table' = Merge(table, b)
       /\ due' = IF HasWatermark THEN Present(b) ELSE {}
  /\ applied' = applied + 1
  /\ UNCHANGED <<watermark, outcome>>

Mark ==
  /\ outcome = "running"
  /\ \E k \in due : IsLatest(k, due) /\ watermark' = TimeOf[k]
  /\ due' = {}
  /\ UNCHANGED <<table, applied, outcome>>

Return ==
  /\ outcome = "running"
  /\ due = {}
  /\ applied = NumWindows
  /\ outcome' = "returned"
  /\ UNCHANGED <<table, watermark, applied, due>>

Stop ==
  /\ outcome = "running"
  /\ outcome' = "stopped"
  /\ due' = {}
  /\ UNCHANGED <<table, watermark, applied>>

Next == Apply \/ Mark \/ Return \/ Stop

Spec == Init /\ [][Next]_vars
=============================================================================
