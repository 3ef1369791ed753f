------------------------- MODULE WindowPipelineProofs -------------------------
(***************************************************************************)
(* Proofs about run_windows, for every number of windows, every pool size, *)
(* every set of records and every distribution of them over the windows.   *)
(***************************************************************************)
EXTENDS WindowPipeline, FiniteSetTheorems, SequenceTheorems, TLAPS

-----------------------------------------------------------------------------
(* Facts about the operators.                                              *)

(* The pool has at least one worker, whatever the caller asks for.         *)
LEMMA WorkersPositive == Workers \in Nat \ {0}
BY ConcurrencyAssumption DEF Workers

(* popleft keeps the rest of the deque in order.                           *)
LEMMA LeftProperties ==
  ASSUME NEW S, NEW q \in Seq(S), q # << >>
  PROVE  /\ Popped(q) \in S
         /\ Popped(q) = q[1]
         /\ Left(q) \in Seq(S)
         /\ Len(Left(q)) = Len(q) - 1
         /\ \A i \in 1 .. Len(q) - 1 : Left(q)[i] = q[i + 1]
<1>1. /\ Tail(q) \in Seq(S)
      /\ Len(Tail(q)) = Len(q) - 1
      /\ \A i \in 1 .. Len(Tail(q)) : Tail(q)[i] = q[i + 1]
      /\ Head(q) \in S
  BY HeadTailProperties
<1>2. SubSeq(q, 1, 0) = << >>
  BY SubSeqEmpty
<1>3. Left(q) = Tail(q)
  BY <1>1, <1>2, TailIsSubSeq, ConcatEmptySeq DEF Left, PopIndex, RemoveAt
<1> QED
  BY <1>1, <1>3 DEF Popped, PopIndex

(* Merging a batch into a table gives a table.                             *)
LEMMA MergeType ==
  ASSUME NEW t \in [Keys -> Version], NEW b \in [Keys -> Version]
  PROVE  Merge(t, b) \in [Keys -> Version]
BY DEF Merge

(* A fetch answers a batch.                                                *)
LEMMA AnswerType ==
  ASSUME NEW w \in Windows, feed \in [Keys -> Version]
  PROVE  Answer(w) \in [Keys -> Version]
BY MaxVersionAssumption DEF Answer, Version

-----------------------------------------------------------------------------
(* The inductive invariant, in parts.                                      *)

(* Who holds what: the caller is past a popped window when it writes it,   *)
(* and the two branches do not mix.                                        *)
CallerInv ==
  /\ pc \in {"write", "mark", "count"} => current \in Windows
  /\ Serial => pc \notin {"fill", "loop", "shutdown"} /\ inFlight = << >>
  /\ pc = "serial" => Serial

(* The deque holds the windows right after the current one, in order, up   *)
(* to the next one to submit; it is full as long as windows remain.        *)
DequeInv ==
  /\ next > current
  /\ pc \notin Ended \cup {"shutdown"} =>
       /\ next = current + Len(inFlight) + 1
       /\ \A i \in 1 .. Len(inFlight) : inFlight[i] = current + i
  /\ pc \in {"loop", "write", "mark", "count"} /\ ~Serial /\ HasNext
       => inFlight # << >>

(* What is stored is a prefix that ends at the current window or just      *)
(* before it.                                                              *)
PrefixInv ==
  /\ stored <= current
  /\ pc \in {"fill", "serial", "loop", "mark", "count"} => stored = current
  /\ pc = "write" => stored = current - 1
  /\ pc = "returned" => stored = NumWindows

(* A fetch runs only for a window that is submitted and not yet popped.    *)
StatusInv ==
  /\ \A w \in Windows : status[w] # "idle" => w < next
  /\ \A w \in Running : w > current
  /\ \A w \in 1 .. current : status[w] \in {"done", "dropped"}

OrderInv == TypeOK /\ CallerInv /\ DequeInv /\ PrefixInv /\ StatusInv

(* A popped window's rows are the ones its fetch returned.                 *)
RowsInv ==
  /\ \A k \in Keys : feed[k] >= atStart[k]
  /\ \A w \in Windows, k \in Keys : k \notin KeysOf[w] => rows[w][k] = 0
  /\ \A w \in Windows : status[w] \in {"done", "dropped"} =>
       \A k \in KeysOf[w] : rows[w][k] >= atStart[k]

(* The stored windows' records are no older than at the start, and the     *)
(* watermark names one of a stored window's.                               *)
TableInv ==
  /\ \A w \in Windows : w <= stored =>
       \A k \in KeysOf[w] : table[k] >= atStart[k]
  /\ marked <= stored
  /\ pc = "mark" => marked < current
  /\ marked > 0 => \E k \in KeysOf[marked] : watermark = TimeOf[k]

IInv == OrderInv /\ RowsInv /\ LaterWindowWins /\ TableInv

-----------------------------------------------------------------------------
(* Types.                                                                  *)

(* The initial states are well typed.                                      *)
LEMMA InitType == Init => TypeOK
BY NumWindowsAssumption, MaxVersionAssumption
DEF Init, TypeOK, Absent, Version, Windows, Ended

(* Every step keeps the variables in their types.                          *)
LEMMA NextType == TypeOK /\ CallerInv /\ [Next]_vars => TypeOK'
<1> SUFFICES ASSUME TypeOK, CallerInv, [Next]_vars PROVE TypeOK'
  OBVIOUS
<1> USE NumWindowsAssumption DEF TypeOK, Ended, dbVars, callVars
<1>1. ASSUME NEW k \in Keys, Publish(k) PROVE TypeOK'
  BY <1>1, MaxVersionAssumption DEF Publish, Version
<1>2. ASSUME NEW w \in Windows, FetchDone(w) PROVE TypeOK'
  BY <1>2, AnswerType DEF FetchDone
<1>3. ASSUME NEW w \in Windows, FetchFails(w) PROVE TypeOK'
  BY <1>3 DEF FetchFails
<1>4. CASE Fill
  <2>1. next \in Windows
    BY <1>4 DEF Fill, HasNext, Windows
  <2> QED
    BY <1>4, <2>1 DEF Fill, Windows
<1>5. CASE Filled
  BY <1>5 DEF Filled
<1>6. CASE Take
  <2>1. Popped(inFlight) \in Windows /\ Left(inFlight) \in Seq(Windows)
    BY <1>6, LeftProperties DEF Take
  <2>2. current' \in 0 .. NumWindows
    BY <1>6, <2>1 DEF Take, Windows
  <2>3. Released(status)
          \in [Windows -> {"idle", "running", "done", "failed", "dropped"}]
    BY DEF Released
  <2>4. CASE HasNext
    <3>1. next \in Windows /\ next + 1 \in 1 .. NumWindows + 1
      BY <2>4 DEF HasNext, Windows
    <3>2. inFlight' = Append(Left(inFlight), next)
      BY <1>6, <2>4 DEF Take
    <3>4. inFlight' \in Seq(Windows)
      BY <2>1, <3>1, <3>2, AppendProperties
    <3>3. status' \in [Windows -> {"idle", "running", "done", "failed", "dropped"}]
      BY <1>6, <2>3, <2>4, <3>1 DEF Take
    <3> QED
      BY <1>6, <2>2, <2>4, <3>1, <3>3, <3>4 DEF Take
  <2>5. CASE ~HasNext
    BY <1>6, <2>1, <2>2, <2>3, <2>5 DEF Take
  <2> QED
    BY <2>4, <2>5
<1>7. CASE TakeFailed
  <2>1. Left(inFlight) \in Seq(Windows)
    BY <1>7, LeftProperties DEF TakeFailed
  <2> QED
    BY <1>7, <2>1 DEF TakeFailed
<1>8. CASE Return
  BY <1>8 DEF Return
<1>9. CASE Shutdown
  BY <1>9 DEF Shutdown
<1>10. CASE SerialFetch
  <2>1. next \in Windows
    BY <1>10 DEF SerialFetch, HasNext, Windows
  <2>2. Released(status)
          \in [Windows -> {"idle", "running", "done", "failed", "dropped"}]
    BY DEF Released
  <2>3. Answer(next) \in [Keys -> Version]
    BY <2>1, AnswerType
  <2> QED
    BY <1>10, <2>1, <2>2, <2>3 DEF SerialFetch, Windows
<1>11. CASE SerialFetchFails
  BY <1>11 DEF SerialFetchFails
<1>12. CASE Upsert
  <2>1. rows[current] \in [Keys -> Version] /\ current \in Windows
    BY <1>12 DEF Upsert, CallerInv
  <2> QED
    BY <1>12, <2>1, MergeType DEF Upsert, Windows
<1>13. CASE SetWatermark
  BY <1>13 DEF SetWatermark, Present, CallerInv, Windows
<1>14. CASE WriteFails
  BY <1>14 DEF WriteFails
<1>15. CASE Count
  <2>1. IsFiniteSet(Present(rows[current]))
    BY KeysAssumption, FS_Subset DEF Present
  <2>2. Cardinality(Present(rows[current])) \in Nat
    BY <2>1, FS_CardinalityType
  <2> QED
    BY <1>15, <2>2 DEF Count
<1>16. CASE Crash
  BY <1>16 DEF Crash
<1>17. CASE UNCHANGED vars
  BY <1>17 DEF vars
<1> QED
  BY <1>1, <1>2, <1>3, <1>4, <1>5, <1>6, <1>7, <1>8, <1>9, <1>10, <1>11, <1>12,
     <1>13, <1>14, <1>15, <1>16, <1>17 DEF Next, Caller, Fetch

-----------------------------------------------------------------------------
(* The order in which windows are fetched, popped and stored.              *)

(* It holds of the initial states.                                         *)
LEMMA InitOrder == Init => OrderInv
<1> SUFFICES ASSUME Init PROVE OrderInv
  OBVIOUS
<1>1. TypeOK
  BY InitType
<1> QED
  BY <1>1 DEF Init, OrderInv, CallerInv, DequeInv, PrefixInv, StatusInv, Ended,
     Running, Serial

(* The environment and the pool leave it alone.                            *)
LEMMA EnvironmentOrder ==
  ASSUME OrderInv, TypeOK',
         \/ \E k \in Keys : Publish(k)
         \/ \E w \in Windows : Fetch(w)
  PROVE  OrderInv'
<1> USE DEF TypeOK, OrderInv, CallerInv, DequeInv, PrefixInv, StatusInv, Running,
        HasNext, dbVars, callVars
<1>1. ASSUME NEW k \in Keys, Publish(k) PROVE OrderInv'
  BY <1>1 DEF Publish
<1>2. ASSUME NEW w \in Windows, FetchDone(w) PROVE OrderInv'
  <2>1. w > current /\ status[w] = "running"
    BY <1>2 DEF FetchDone
  <2>2. StatusInv'
    BY <1>2, <2>1 DEF FetchDone, Windows
  <2> QED
    BY <1>2, <2>2 DEF FetchDone
<1>3. ASSUME NEW w \in Windows, FetchFails(w) PROVE OrderInv'
  <2>1. w > current /\ status[w] = "running"
    BY <1>3 DEF FetchFails
  <2>2. StatusInv'
    BY <1>3, <2>1 DEF FetchFails, Windows
  <2> QED
    BY <1>3, <2>2 DEF FetchFails
<1> QED
  BY <1>1, <1>2, <1>3 DEF Fetch

(* Popping takes the window after the current one, whose rows are there.   *)
LEMMA TakeOrder ==
  ASSUME OrderInv, TypeOK', Take
  PROVE  OrderInv'
<1>1. /\ inFlight \in Seq(Windows) /\ inFlight # << >>
      /\ Len(inFlight) \in Nat \ {0}
      /\ next \in Nat /\ current \in Nat /\ stored \in Nat
      /\ pc = "loop" /\ pc' = "write"
      /\ status \in [Windows -> {"idle", "running", "done", "failed", "dropped"}]
  BY NumWindowsAssumption DEF Take, OrderInv, TypeOK
<1>2. /\ next = current + Len(inFlight) + 1
      /\ \A i \in 1 .. Len(inFlight) : inFlight[i] = current + i
      /\ stored = current
      /\ ~Serial
  BY <1>1 DEF OrderInv, DequeInv, PrefixInv, CallerInv, Ended
<1>3. /\ Popped(inFlight) = inFlight[1]
      /\ Popped(inFlight) \in Windows
      /\ Len(Left(inFlight)) = Len(inFlight) - 1
      /\ Left(inFlight) \in Seq(Windows)
      /\ \A i \in 1 .. Len(inFlight) - 1 : Left(inFlight)[i] = inFlight[i + 1]
  BY <1>1, LeftProperties
<1>4. /\ Popped(inFlight) = current + 1
      /\ \A i \in 1 .. Len(inFlight) - 1 : Left(inFlight)[i] = current + 1 + i
  BY <1>1, <1>2, <1>3
<1>5. current' = current + 1 /\ status[current + 1] = "done" /\ stored' = stored
  BY <1>4 DEF Take, dbVars
<1>6. /\ next \in Nat /\ current \in Nat /\ Len(inFlight) \in Nat \ {0}
       /\ next = current + Len(inFlight) + 1
       /\ current' = current + 1
       /\ Len(Left(inFlight)) = Len(inFlight) - 1
  BY <1>1, <1>2, <1>3, <1>5
<1>7. CallerInv'
  BY <1>1, <1>2, <1>3, <1>4, <1>5 DEF CallerInv, Serial
<1>8. DequeInv'
  <2>1. CASE HasNext
    <3>1. inFlight' = Append(Left(inFlight), next) /\ next' = next + 1
      BY <2>1 DEF Take
    <3>2. next \in Windows
      BY <1>1, <1>2, <2>1 DEF HasNext, Windows
    <3>3. /\ Len(inFlight') = Len(inFlight)
          /\ \A i \in 1 .. Len(inFlight') : inFlight'[i] =
               IF i <= Len(inFlight) - 1 THEN Left(inFlight)[i] ELSE next
      BY <1>1, <1>3, <3>1, <3>2, AppendProperties
    <3>4. ASSUME NEW i \in 1 .. Len(inFlight')
          PROVE  inFlight'[i] = current' + i
      <4>1. i \in Nat /\ i >= 1 /\ i <= Len(inFlight)
        BY <1>1, <3>3
      <4>2. CASE i = Len(inFlight)
        BY <1>1, <1>2, <1>5, <3>3, <4>2
      <4>3. CASE i # Len(inFlight)
        <5>1. i \in 1 .. Len(inFlight) - 1
          BY <1>1, <4>1, <4>3
        <5> QED
          BY <1>1, <1>4, <1>5, <3>3, <5>1
      <4> QED
        BY <4>2, <4>3
    <3>5. inFlight' # << >>
      BY <1>3, <3>1, <3>2, AppendProperties
    <3>6. next' = current' + Len(inFlight') + 1 /\ next' > current'
      <4>1. Len(inFlight') = Len(inFlight)
        BY <3>3
      <4> QED
        BY <1>6, <3>1, <4>1
    <3> QED
      BY <3>4, <3>5, <3>6 DEF DequeInv
  <2>2. CASE ~HasNext
    <3>1. inFlight' = Left(inFlight) /\ next' = next
      BY <2>2 DEF Take
    <3>2. ~HasNext'
      BY <2>2, <3>1 DEF HasNext
    <3>3. next' = current' + Len(inFlight') + 1 /\ next' > current'
      BY <1>6, <3>1
    <3>4. \A i \in 1 .. Len(inFlight') : inFlight'[i] = current' + i
      BY <1>1, <1>3, <1>4, <1>5, <3>1
    <3> QED
      BY <3>2, <3>3, <3>4 DEF DequeInv
  <2> QED
    BY <2>1, <2>2
<1>9. PrefixInv'
  BY <1>1, <1>2, <1>5 DEF PrefixInv
<1>10. StatusInv'
  <2>1. \A w \in Windows : Released(status)[w] =
          IF w = current THEN "dropped" ELSE status[w]
    BY <1>1 DEF Released, Windows
  <2>2. \A w \in Windows : status'[w] =
          IF HasNext /\ w = next THEN "running" ELSE Released(status)[w]
    BY <1>1 DEF Take, Released
  <2>3. next > current + 1 /\ next' >= next /\ (HasNext => next' = next + 1)
    BY <1>1, <1>2 DEF Take
  <2>4. current \in 0 .. NumWindows /\ current + 1 \in Windows
    BY <1>3, <1>4 DEF OrderInv, TypeOK
  <2>5. \A w \in Windows : status'[w] # "idle" => w < next'
    <3> SUFFICES ASSUME NEW w \in Windows, status'[w] # "idle"
                 PROVE  w < next'
      OBVIOUS
    <3>1. CASE HasNext /\ w = next
      BY <1>6, <2>3, <3>1
    <3>2. CASE ~(HasNext /\ w = next) /\ w = current
      <4>1. next' \in Nat
        BY DEF TypeOK
      <4> QED
        BY <1>6, <2>3, <3>2, <4>1
    <3>3. CASE ~(HasNext /\ w = next) /\ w # current
      <4>1. status[w] # "idle"
        BY <2>1, <2>2, <3>3
      <4>2. w < next
        BY <4>1 DEF StatusInv, OrderInv
      <4>3. next' \in Nat
        BY DEF TypeOK
      <4> QED
        BY <1>1, <2>3, <4>2, <4>3 DEF Windows
    <3> QED
      BY <3>1, <3>2, <3>3
  <2>6. \A w \in Windows : status'[w] = "running" => w > current'
    <3> SUFFICES ASSUME NEW w \in Windows, status'[w] = "running"
                 PROVE  w > current'
      OBVIOUS
    <3>1. CASE w = next
      BY <1>1, <1>5, <2>3, <3>1
    <3>2. CASE w # next
      <4>1. status[w] = "running" /\ w # current + 1
        BY <1>5, <2>1, <2>2, <3>2
      <4>2. w > current
        BY <4>1 DEF StatusInv, OrderInv, Running
      <4> QED
        BY <1>1, <1>5, <4>1, <4>2 DEF Windows
    <3> QED
      BY <3>1, <3>2
  <2>7. \A w \in 1 .. current' : status'[w] \in {"done", "dropped"}
    <3> SUFFICES ASSUME NEW w \in 1 .. current'
                 PROVE  status'[w] \in {"done", "dropped"}
      OBVIOUS
    <3>1. w \in Windows /\ w # next /\ (w <= current \/ w = current + 1)
      BY <1>1, <1>5, <2>3, <2>4, NumWindowsAssumption DEF Windows
    <3> QED
      BY <1>5, <2>1, <2>2, <3>1 DEF StatusInv, OrderInv
  <2> QED
    BY <2>5, <2>6, <2>7 DEF StatusInv, Running
<1> QED
  BY <1>7, <1>8, <1>9, <1>10 DEF OrderInv

(* The other steps of the caller, and a crash.                             *)
LEMMA CallerOrder ==
  ASSUME OrderInv, TypeOK',
         \/ Fill \/ Filled \/ TakeFailed \/ Return \/ Shutdown
         \/ SerialFetch \/ SerialFetchFails
         \/ Upsert \/ SetWatermark \/ WriteFails \/ Count \/ Crash
  PROVE  OrderInv'
<1>1. /\ inFlight \in Seq(Windows)
      /\ Len(inFlight) \in Nat /\ next \in Nat /\ current \in Nat /\ stored \in Nat
      /\ next <= NumWindows + 1 /\ current <= NumWindows
      /\ status \in [Windows -> {"idle", "running", "done", "failed", "dropped"}]
      /\ TypeOK
  BY NumWindowsAssumption DEF OrderInv, TypeOK
<1>2. CallerInv /\ DequeInv /\ PrefixInv /\ StatusInv
  BY DEF OrderInv
<1>3. pc \notin Ended \cup {"shutdown"} /\ inFlight = << >> => Running = {}
  BY <1>1, <1>2 DEF DequeInv, StatusInv, Running, Windows
<1> USE DEF dbVars, callVars, Ended
<1>4. CASE Fill
  <2>1. /\ next \in Windows /\ next = current + Len(inFlight) + 1
        /\ pc = "fill" /\ pc' = "fill" /\ ~Serial
        /\ inFlight' = Append(inFlight, next) /\ next' = next + 1
        /\ current' = current /\ stored' = stored
        /\ status' = [status EXCEPT ![next] = "running"]
    BY <1>1, <1>2, <1>4 DEF Fill, HasNext, Windows, DequeInv, CallerInv
  <2>2. /\ Len(inFlight') = Len(inFlight) + 1
        /\ \A i \in 1 .. Len(inFlight) : inFlight'[i] = inFlight[i]
        /\ inFlight'[Len(inFlight) + 1] = next
    BY <1>1, <2>1, AppendProperties
  <2>3. CallerInv'
    BY <1>2, <2>1 DEF CallerInv, Serial
  <2>4. DequeInv'
    <3>1. next' > current' /\ next' = current' + Len(inFlight') + 1
      BY <1>1, <2>1, <2>2
    <3>2. ASSUME NEW i \in 1 .. Len(inFlight')
          PROVE  inFlight'[i] = current' + i
      <4>1. CASE i = Len(inFlight) + 1
        BY <1>1, <2>1, <2>2, <4>1
      <4>2. CASE i # Len(inFlight) + 1
        <5>1. i \in 1 .. Len(inFlight)
          BY <1>1, <2>2, <4>2
        <5> QED
          BY <1>2, <2>1, <2>2, <5>1 DEF DequeInv
      <4> QED
        BY <4>1, <4>2
    <3> QED
      BY <2>1, <3>1, <3>2 DEF DequeInv
  <2>5. PrefixInv'
    BY <1>2, <2>1 DEF PrefixInv
  <2>6. StatusInv'
    <3>1. next > current
      BY <1>1, <2>1
    <3> QED
      BY <1>1, <1>2, <2>1, <3>1 DEF StatusInv, Running, Windows
  <2> QED
    BY <2>3, <2>4, <2>5, <2>6 DEF OrderInv
<1>5. CASE Filled
  <2>1. HasNext => inFlight # << >>
    BY <1>1, <1>5, WorkersPositive DEF Filled
  <2> QED
    BY <1>2, <1>5, <2>1 DEF Filled, OrderInv, CallerInv, DequeInv, PrefixInv,
       StatusInv, Running, HasNext, Serial
<1>6. CASE TakeFailed
  <2>1. pc' = "shutdown" /\ ~Serial
    BY <1>2, <1>6 DEF TakeFailed, CallerInv
  <2> QED
    BY <1>2, <1>6, <2>1 DEF TakeFailed, OrderInv, CallerInv, DequeInv, PrefixInv,
       StatusInv, Running, HasNext, Serial
<1>7. CASE Return
  <2>1. stored = NumWindows
    <3>1. pc \in {"loop", "serial"} /\ inFlight = << >> /\ stored = current
      BY <1>2, <1>7 DEF Return, CallerInv, PrefixInv
    <3>2. ~HasNext
      BY <1>2, <1>7, <3>1 DEF Return, DequeInv, CallerInv
    <3>3. next = current + 1
      BY <1>1, <1>2, <3>1 DEF DequeInv
    <3> QED
      BY <1>1, <3>1, <3>2, <3>3, NumWindowsAssumption DEF HasNext
  <2> QED
    BY <1>2, <1>7, <2>1 DEF Return, OrderInv, CallerInv, DequeInv, PrefixInv,
       StatusInv, Running, HasNext, Serial
<1>8. CASE Shutdown
  BY <1>2, <1>8 DEF Shutdown, OrderInv, CallerInv, DequeInv, PrefixInv, StatusInv,
     Running, HasNext, Serial
<1>9. CASE SerialFetch
  <2>1. /\ inFlight = << >> /\ Serial /\ Running = {} /\ next \in Windows
        /\ inFlight' = inFlight /\ next' = next + 1 /\ current' = next
        /\ pc = "serial" /\ pc' = "write" /\ stored' = stored
        /\ status' = [Released(status) EXCEPT ![next] = "done"]
    <3>1. inFlight = << >> /\ Serial /\ pc = "serial" /\ next <= NumWindows
      BY <1>2, <1>9 DEF SerialFetch, CallerInv, HasNext
    <3>2. Running = {}
      BY <1>3, <3>1
    <3>3. next \in Windows
      BY <1>1, <1>2, <3>1, NumWindowsAssumption DEF DequeInv, Windows
    <3> QED
      BY <1>9, <3>1, <3>2, <3>3 DEF SerialFetch
  <2>2. next = current + 1 /\ stored = current
    BY <1>1, <1>2, <2>1 DEF DequeInv, PrefixInv
  <2>3. \A w \in Windows : status'[w] =
          IF w = next THEN "done"
          ELSE IF w = current THEN "dropped" ELSE status[w]
    BY <1>1, <2>1 DEF Released, Windows
  <2>4. StatusInv'
    <3>1. \A w \in Windows : status'[w] # "idle" => w < next'
      <4> SUFFICES ASSUME NEW w \in Windows, status'[w] # "idle"
                   PROVE  w < next + 1
        BY <2>1
      <4>1. w = next \/ w = current \/ status[w] # "idle"
        BY <2>3
      <4>2. w \in Nat
        BY DEF Windows
      <4> QED
        BY <1>1, <1>2, <2>2, <4>1, <4>2 DEF StatusInv
    <3>2. \A w \in Windows : status'[w] # "running"
      BY <2>1, <2>3 DEF Running
    <3>3. \A w \in 1 .. current' : status'[w] \in {"done", "dropped"}
      <4> SUFFICES ASSUME NEW w \in 1 .. next
                   PROVE  status'[w] \in {"done", "dropped"}
        BY <2>1
      <4>1. w \in Windows /\ (w = next \/ w \in 1 .. current)
        BY <1>1, <2>1, <2>2, NumWindowsAssumption DEF Windows
      <4> QED
        BY <1>2, <2>3, <4>1 DEF StatusInv
    <3> QED
      BY <3>1, <3>2, <3>3 DEF StatusInv, Running
  <2>5. DequeInv'
    BY <1>1, <2>1, <2>2 DEF DequeInv, Serial, Workers
  <2> QED
    BY <1>1, <1>2, <2>1, <2>2, <2>4, <2>5 DEF OrderInv, CallerInv, PrefixInv, Serial
<1>10. CASE SerialFetchFails
  BY <1>2, <1>10 DEF SerialFetchFails, OrderInv, CallerInv, DequeInv, PrefixInv,
     StatusInv, Running, HasNext, Serial
<1>11. CASE Upsert
  <2>1. stored' = current
    BY <1>11 DEF Upsert
  <2> QED
    BY <1>1, <1>2, <1>11, <2>1 DEF Upsert, OrderInv, CallerInv, DequeInv, PrefixInv,
       StatusInv, Running, HasNext, Serial
<1>12. CASE SetWatermark
  BY <1>2, <1>12 DEF SetWatermark, OrderInv, CallerInv, DequeInv, PrefixInv,
     StatusInv, Running, HasNext, Serial
<1>13. CASE WriteFails
  BY <1>2, <1>13 DEF WriteFails, OrderInv, CallerInv, DequeInv, PrefixInv,
     StatusInv, Running, HasNext, Serial
<1>14. CASE Count
  BY <1>2, <1>14 DEF Count, OrderInv, CallerInv, DequeInv, PrefixInv, StatusInv,
     Running, HasNext, Serial
<1>15. CASE Crash
  <2>1. /\ pc' = "crashed" /\ next' = next /\ current' = current
        /\ inFlight' = inFlight /\ stored' = stored
        /\ status' = [w \in Windows |->
                        IF status[w] = "running" THEN "failed" ELSE status[w]]
    BY <1>15 DEF Crash
  <2>2. StatusInv'
    BY <1>1, <1>2, <2>1, NumWindowsAssumption DEF StatusInv, Running, Windows
  <2> QED
    BY <1>2, <2>1, <2>2 DEF OrderInv, CallerInv, DequeInv, PrefixInv, Serial
<1> QED
  BY <1>4, <1>5, <1>6, <1>7, <1>8, <1>9, <1>10, <1>11, <1>12, <1>13, <1>14, <1>15

(* Every step keeps the order.                                             *)
LEMMA NextOrder == OrderInv /\ [Next]_vars => OrderInv'
<1> SUFFICES ASSUME OrderInv, [Next]_vars PROVE OrderInv'
  OBVIOUS
<1>1. TypeOK'
  BY NextType DEF OrderInv
<1>2. CASE UNCHANGED vars
  BY <1>2 DEF vars, callVars, dbVars, OrderInv, TypeOK, CallerInv, DequeInv,
     PrefixInv, StatusInv, Running, HasNext, Serial
<1>3. CASE Next
  BY <1>1, <1>3, EnvironmentOrder, TakeOrder, CallerOrder DEF Next, Caller
<1> QED
  BY <1>2, <1>3

(* Every state of every run is well typed, and its windows are in order.   *)
THEOREM OrderTheorem == Spec => []OrderInv
BY InitOrder, NextOrder, PTL DEF Spec

(* Every state of every run is well typed.                                 *)
THEOREM TypeTheorem == Spec => []TypeOK
<1>1. OrderInv => TypeOK
  BY DEF OrderInv
<1> QED
  BY <1>1, OrderTheorem, PTL

-----------------------------------------------------------------------------
(* What the fetches returned.                                              *)

(* The initial states have no rows yet.                                    *)
LEMMA InitRows == Init => RowsInv
BY MaxVersionAssumption DEF Init, RowsInv, Absent, Version, Windows

(* Releasing the current window's rows does not make rows of others.       *)
LEMMA ReleasedKeeps ==
  ASSUME OrderInv, NEW v \in Windows, Released(status)[v] \in {"done", "dropped"}
  PROVE  status[v] \in {"done", "dropped"}
<1>1. CASE v = current
  <2>1. v \in 1 .. current
    BY <1>1 DEF Windows
  <2> QED
    BY <2>1 DEF OrderInv, StatusInv
<1>2. CASE v # current
  BY <1>2 DEF Released, OrderInv, TypeOK
<1> QED
  BY <1>1, <1>2

(* A fetch answers no older revision than the feed had at the start.       *)
LEMMA NextRows == OrderInv /\ RowsInv /\ [Next]_vars => RowsInv'
<1> SUFFICES ASSUME OrderInv, RowsInv, [Next]_vars PROVE RowsInv'
  OBVIOUS
<1>1. /\ feed \in [Keys -> Version] /\ atStart \in [Keys -> Version]
      /\ rows \in [Windows -> [Keys -> Version]]
      /\ status \in [Windows -> {"idle", "running", "done", "failed", "dropped"}]
      /\ Version \subseteq Nat
      /\ \A w \in Windows : KeysOf[w] \subseteq Keys
  BY MaxVersionAssumption, KeysOfAssumption DEF OrderInv, TypeOK, Version
<1>2. ASSUME NEW w \in Windows, rows' = [rows EXCEPT ![w] = Answer(w)],
             feed' = feed, atStart' = atStart,
             \A v \in Windows : v # w /\ status'[v] \in {"done", "dropped"}
                                => status[v] \in {"done", "dropped"}
      PROVE  RowsInv'
  <2>1. \A k \in Keys : rows'[w][k] = IF k \in KeysOf[w] THEN feed[k] ELSE 0
    BY <1>1, <1>2 DEF Answer
  <2>2. \A v \in Windows : v # w => rows'[v] = rows[v]
    BY <1>1, <1>2
  <2> QED
    BY <1>1, <1>2, <2>1, <2>2 DEF RowsInv
<1>3. ASSUME rows' = rows, feed' = feed, atStart' = atStart,
             \A v \in Windows : status'[v] \in {"done", "dropped"}
                                => status[v] \in {"done", "dropped"}
      PROVE  RowsInv'
  BY <1>3 DEF RowsInv
<1> USE DEF callVars
<1>4. ASSUME NEW k \in Keys, Publish(k) PROVE RowsInv'
  <2>1. rows' = rows /\ status' = status /\ atStart' = atStart
    BY <1>4 DEF Publish
  <2>2. \A l \in Keys : feed'[l] >= atStart[l]
    <3>1. \A l \in Keys : feed'[l] = IF l = k THEN feed[k] + 1 ELSE feed[l]
      BY <1>1, <1>4 DEF Publish
    <3>2. \A l \in Keys : feed[l] \in Nat /\ atStart[l] \in Nat
      BY <1>1
    <3> QED
      BY <3>1, <3>2 DEF RowsInv
  <2> QED
    BY <2>1, <2>2 DEF RowsInv
<1>5. ASSUME NEW w \in Windows, FetchDone(w) PROVE RowsInv'
  BY <1>1, <1>2, <1>5 DEF FetchDone
<1>6. ASSUME NEW w \in Windows, FetchFails(w) PROVE RowsInv'
  BY <1>1, <1>3, <1>6 DEF FetchFails
<1>7. CASE Fill
  BY <1>1, <1>3, <1>7 DEF Fill
<1>8. CASE Take
  <2>1. \A v \in Windows : status'[v] \in {"done", "dropped"}
                           => Released(status)[v] \in {"done", "dropped"}
    BY <1>1, <1>8 DEF Take, Released
  <2> QED
    BY <1>3, <1>8, <2>1, ReleasedKeeps DEF Take
<1>9. CASE SerialFetch
  <2>1. next \in Windows
    BY <1>9 DEF SerialFetch, HasNext, Windows, OrderInv, TypeOK
  <2>2. \A v \in Windows : v # next /\ status'[v] \in {"done", "dropped"}
                           => Released(status)[v] \in {"done", "dropped"}
    BY <1>1, <1>9, <2>1 DEF SerialFetch, Released
  <2> QED
    BY <1>2, <1>9, <2>1, <2>2, ReleasedKeeps DEF SerialFetch
<1>10. CASE Crash
  BY <1>1, <1>3, <1>10 DEF Crash
<1>11. CASE \/ Filled \/ TakeFailed \/ Return \/ Shutdown \/ SerialFetchFails
            \/ Upsert \/ SetWatermark \/ WriteFails \/ Count \/ UNCHANGED vars
  <2>1. rows' = rows /\ feed' = feed /\ atStart' = atStart /\ status' = status
    BY <1>11 DEF Filled, TakeFailed, Return, Shutdown, SerialFetchFails, Upsert,
       SetWatermark, WriteFails, Count, vars
  <2> QED
    BY <1>3, <2>1
<1> QED
  BY <1>4, <1>5, <1>6, <1>7, <1>8, <1>9, <1>10, <1>11 DEF Next, Caller, Fetch

-----------------------------------------------------------------------------
(* What the database holds.                                                *)

(* Nothing is stored at the start.                                         *)
LEMMA InitTable == Init => LaterWindowWins /\ TableInv
BY DEF Init, LaterWindowWins, TableInv, Windows

(* Storing the current window makes it the last one that counts.           *)
LEMMA UpsertTable ==
  ASSUME OrderInv, RowsInv, LaterWindowWins, TableInv, Upsert
  PROVE  LaterWindowWins' /\ TableInv'
<1>1. /\ table \in [Keys -> Version] /\ atStart \in [Keys -> Version]
      /\ rows \in [Windows -> [Keys -> Version]]
      /\ Version \subseteq Nat
      /\ \A w \in Windows : KeysOf[w] \subseteq Keys
      /\ marked \in Nat
  BY MaxVersionAssumption, KeysOfAssumption, NumWindowsAssumption
     DEF OrderInv, TypeOK, Version
<1>2. /\ current \in Windows /\ current \in Nat /\ stored = current - 1
      /\ stored' = current /\ current' = current /\ atStart' = atStart
      /\ rows' = rows /\ marked' = marked /\ watermark' = watermark
      /\ pc' \in {"mark", "count"}
      /\ table' = Merge(table, rows[current])
      /\ status[current] \in {"done", "dropped"}
  BY DEF Upsert, OrderInv, CallerInv, PrefixInv, StatusInv, callVars, Windows
<1>3. \A k \in Keys :
        table'[k] = IF rows[current][k] > 0 THEN rows[current][k] ELSE table[k]
  BY <1>2 DEF Merge, Present
<1>4. LaterWindowWins'
  <2> SUFFICES ASSUME NEW w \in 1 .. current, NEW k \in Keys, rows[w][k] > 0,
                      \A v \in w + 1 .. current : rows[v][k] = 0
               PROVE  table'[k] = rows[w][k]
    BY <1>2 DEF LaterWindowWins
  <2>1. CASE w = current
    BY <1>3, <2>1
  <2>2. CASE w # current
    <3>1. /\ w \in 1 .. stored /\ current \in w + 1 .. current
          /\ \A v \in w + 1 .. stored : v \in w + 1 .. current
      BY <1>2, <2>2
    <3>2. table[k] = rows[w][k] /\ rows[current][k] = 0
      BY <3>1 DEF LaterWindowWins
    <3> QED
      BY <1>3, <3>2
  <2> QED
    BY <2>1, <2>2
<1>5. TableInv'
  <2>1. ASSUME NEW w \in Windows, w <= current, NEW k \in KeysOf[w]
        PROVE  table'[k] >= atStart[k]
    <3>1. k \in Keys /\ atStart[k] \in Nat /\ table[k] \in Nat /\ rows[current][k] \in Nat
      BY <1>1, <1>2, <2>1
    <3>2. rows[current][k] > 0 => rows[current][k] >= atStart[k]
      BY <1>2, <3>1 DEF RowsInv
    <3>3. CASE w = current
      <4>1. rows[current][k] >= atStart[k]
        BY <1>2, <2>1, <3>3 DEF RowsInv
      <4>2. rows[current][k] = 0 => atStart[k] = 0
        BY <3>1, <4>1
      <4> QED
        BY <1>3, <3>1, <4>1, <4>2
    <3>4. CASE w # current
      <4>1. w <= stored
        BY <1>2, <2>1, <3>4 DEF Windows
      <4>2. table[k] >= atStart[k]
        BY <2>1, <4>1 DEF TableInv
      <4> QED
        BY <1>3, <3>1, <3>2, <4>2
    <3> QED
      BY <3>3, <3>4
  <2>2. marked' <= stored' /\ marked' < current'
    BY <1>1, <1>2 DEF TableInv
  <2> QED
    BY <1>2, <2>1, <2>2 DEF TableInv
<1> QED
  BY <1>4, <1>5

(* Every step keeps what the table and the watermark say.                  *)
LEMMA NextTable ==
  OrderInv /\ RowsInv /\ LaterWindowWins /\ TableInv /\ [Next]_vars
    => LaterWindowWins' /\ TableInv'
<1> SUFFICES ASSUME OrderInv, RowsInv, LaterWindowWins, TableInv, [Next]_vars
             PROVE  LaterWindowWins' /\ TableInv'
  OBVIOUS
<1>1. /\ rows \in [Windows -> [Keys -> Version]]
      /\ stored \in Nat /\ current \in Nat /\ next \in Nat /\ stored <= current
      /\ stored <= NumWindows
  BY NumWindowsAssumption DEF OrderInv, TypeOK, PrefixInv
<1>2. ASSUME NEW w \in Windows, w > current, rows' = [rows EXCEPT ![w] = Answer(w)],
             table' = table, stored' = stored
      PROVE  LaterWindowWins'
  <2>1. \A v \in 1 .. stored : rows'[v] = rows[v]
    BY <1>1, <1>2 DEF Windows
  <2>2. \A v \in 1 .. stored : \A u \in v + 1 .. stored : u \in 1 .. stored
    BY <1>1
  <2> QED
    BY <1>2, <2>1, <2>2 DEF LaterWindowWins
<1>3. ASSUME rows' = rows, table' = table, stored' = stored
      PROVE  LaterWindowWins'
  BY <1>3 DEF LaterWindowWins
<1>4. ASSUME table' = table, stored' = stored, atStart' = atStart,
             marked' = marked, watermark' = watermark,
             pc' = "mark" => pc = "mark" /\ current' = current
      PROVE  TableInv'
  BY <1>4 DEF TableInv
<1> USE DEF callVars, dbVars
<1>5. ASSUME NEW k \in Keys, Publish(k) PROVE LaterWindowWins' /\ TableInv'
  BY <1>3, <1>4, <1>5 DEF Publish
<1>6. ASSUME NEW w \in Windows, FetchDone(w) PROVE LaterWindowWins' /\ TableInv'
  <2>1. w > current
    BY <1>6 DEF FetchDone, OrderInv, StatusInv, Running
  <2> QED
    BY <1>2, <1>4, <1>6, <2>1 DEF FetchDone
<1>7. ASSUME NEW w \in Windows, FetchFails(w) PROVE LaterWindowWins' /\ TableInv'
  BY <1>3, <1>4, <1>7 DEF FetchFails
<1>8. CASE SerialFetch
  <2>1. next \in Windows /\ next > current
    BY <1>1, <1>8 DEF SerialFetch, HasNext, Windows, OrderInv, DequeInv
  <2> QED
    BY <1>2, <1>4, <1>8, <2>1 DEF SerialFetch
<1>9. CASE Upsert
  BY <1>9, UpsertTable
<1>10. CASE SetWatermark
  <2>1. PICK k \in Present(rows[current]) : watermark' = TimeOf[k]
    BY <1>10 DEF SetWatermark
  <2>2. current \in Windows /\ stored = current
    BY <1>10 DEF SetWatermark, OrderInv, CallerInv, PrefixInv
  <2>3. k \in KeysOf[current]
    BY <2>1, <2>2 DEF Present, RowsInv
  <2>4. LaterWindowWins'
    BY <1>3, <1>10 DEF SetWatermark
  <2>5. /\ marked' = current /\ stored' = stored /\ table' = table
        /\ atStart' = atStart /\ pc' = "count"
    BY <1>10 DEF SetWatermark
  <2> QED
    BY <1>1, <2>1, <2>2, <2>3, <2>4, <2>5 DEF TableInv
<1>11. CASE \/ Fill \/ Filled \/ Take \/ TakeFailed \/ Return \/ Shutdown
            \/ SerialFetchFails \/ WriteFails \/ Count \/ Crash \/ UNCHANGED vars
  <2>1. /\ rows' = rows /\ table' = table /\ stored' = stored /\ atStart' = atStart
        /\ marked' = marked /\ watermark' = watermark
        /\ pc' = "mark" => pc = "mark" /\ current' = current
    BY <1>11 DEF Fill, Filled, Take, TakeFailed, Return, Shutdown,
       SerialFetchFails, WriteFails, Count, Crash, vars
  <2> QED
    BY <1>3, <1>4, <2>1
<1> QED
  BY <1>5, <1>6, <1>7, <1>8, <1>9, <1>10, <1>11 DEF Next, Caller, Fetch

(* The inductive invariant holds of every run.                             *)
THEOREM InvTheorem == Spec => []IInv
<1>1. Init => IInv
  BY InitOrder, InitRows, InitTable DEF IInv
<1>2. IInv /\ [Next]_vars => IInv'
  BY NextOrder, NextRows, NextTable DEF IInv
<1> QED
  BY <1>1, <1>2, PTL DEF Spec

(* Last write wins in window order, for any number of windows and workers. *)
THEOREM LaterWindowWinsTheorem == Spec => []LaterWindowWins
<1>1. IInv => LaterWindowWins
  BY DEF IInv
<1> QED
  BY <1>1, InvTheorem, PTL

(* A watermark this call has set never hides a record from a resume: the   *)
(* windows follow each other in time, so every record up to it belongs to  *)
(* a stored window, whose batch was fetched after the call began.          *)
THEOREM ResumeTheorem == Spec => []ResumeIsSafe
<1>1. IInv => ResumeIsSafe
  <2> SUFFICES ASSUME IInv, marked > 0, NEW v \in Windows, NEW l \in KeysOf[v],
                      TimeOf[l] <= watermark
               PROVE  table[l] >= atStart[l]
    BY DEF ResumeIsSafe
  <2>1. /\ marked \in Windows /\ stored \in Nat /\ marked <= stored
        /\ KeysOf[v] \subseteq Keys
    BY NumWindowsAssumption, KeysOfAssumption
       DEF IInv, OrderInv, TypeOK, TableInv, Windows
  <2>2. PICK k \in KeysOf[marked] : watermark = TimeOf[k]
    BY DEF IInv, TableInv
  <2>3. CASE v <= stored
    BY <2>3 DEF IInv, TableInv
  <2>4. CASE v > stored
    <3>1. marked \in 1 .. v - 1
      BY <2>1, <2>4 DEF Windows
    <3>2. TimeOf[k] < TimeOf[l] \/ (TimeOf[k] = TimeOf[l] /\ l \in KeysOf[marked])
      BY <2>2, <3>1, WindowsAssumption
    <3>3. TimeOf[k] \in Nat /\ TimeOf[l] \in Nat
      BY <2>1, <2>2, TimeOfAssumption, KeysOfAssumption
    <3>4. l \in KeysOf[marked]
      BY <2>2, <3>2, <3>3
    <3> QED
      BY <2>1, <3>4 DEF IInv, TableInv
  <2> QED
    BY <2>1, <2>3, <2>4 DEF Windows
<1> QED
  BY <1>1, InvTheorem, PTL

(* However a call ends, no fetch is still running.                         *)
THEOREM NoOrphanTheorem == Spec => []NoOrphanFetch
<1>1. Init => NoOrphanFetch
  BY DEF Init, NoOrphanFetch, Ended, Serial
<1>2. OrderInv /\ NoOrphanFetch /\ [Next]_vars => NoOrphanFetch'
  <2> SUFFICES ASSUME OrderInv, NoOrphanFetch, [Next]_vars, pc' \in Ended
               PROVE  Running' = {}
    BY DEF NoOrphanFetch, Ended
  <2> USE DEF callVars, dbVars
  <2>1. pc \notin Ended \cup {"shutdown"} /\ inFlight = << >> => Running = {}
    BY NumWindowsAssumption
       DEF OrderInv, TypeOK, DequeInv, StatusInv, Running, Windows
  <2>2. ASSUME Running = {}, status' = status PROVE Running' = {}
    BY <2>2 DEF Running
  <2>3. CASE Return
    <3>1. inFlight = << >> /\ pc \notin Ended \cup {"shutdown"}
      BY <2>3 DEF Return, OrderInv, CallerInv, Ended
    <3> QED
      BY <2>1, <2>2, <2>3, <3>1 DEF Return
  <2>4. CASE SerialFetchFails \/ WriteFails
    <3>1. inFlight = << >> /\ pc \notin Ended \cup {"shutdown"}
      BY <2>4 DEF SerialFetchFails, WriteFails, OrderInv, CallerInv, Ended
    <3> QED
      BY <2>1, <2>2, <2>4, <3>1 DEF SerialFetchFails, WriteFails
  <2>5. CASE Shutdown
    BY <2>2, <2>5 DEF Shutdown
  <2>6. CASE Crash
    BY <2>6 DEF Crash, Running
  <2>7. CASE UNCHANGED vars
    BY <2>2, <2>7 DEF vars, NoOrphanFetch
  <2>8. ASSUME NEW k \in Keys, Publish(k) PROVE FALSE
    BY <2>8 DEF Publish
  <2>9. ASSUME NEW w \in Windows, Fetch(w) PROVE FALSE
    <3>1. pc \in Ended /\ w \in Running
      BY <2>9 DEF Fetch, FetchDone, FetchFails, Running
    <3> QED
      BY <3>1 DEF NoOrphanFetch
  <2>10. CASE Fill \/ Filled \/ Take \/ TakeFailed \/ SerialFetch \/ Upsert
              \/ SetWatermark \/ Count
    BY <2>10 DEF Fill, Filled, Take, TakeFailed, SerialFetch, Upsert,
       SetWatermark, Count, Ended
  <2> QED
    BY <2>3, <2>4, <2>5, <2>6, <2>7, <2>8, <2>9, <2>10 DEF Next, Caller
<1> QED
  BY <1>1, <1>2, OrderTheorem, PTL DEF Spec

(* The windows that are neither released nor still to be submitted: from   *)
(* the current one on, at most Workers of them after it.                   *)
HeldInv ==
  /\ next - current <= Workers + 1
  /\ \A w \in 1 .. current - 1 : status[w] # "done"

(* Only a submit and a take move the windows that are held.                *)
LEMMA NextHeld == OrderInv /\ HeldInv /\ [Next]_vars => HeldInv'
<1> SUFFICES ASSUME OrderInv, HeldInv, [Next]_vars PROVE HeldInv'
  OBVIOUS
<1> USE DEF callVars, dbVars
<1>1. /\ next \in Nat /\ current \in Nat /\ Workers \in Nat /\ next <= NumWindows + 1
      /\ NumWindows \in Nat /\ Windows = 1 .. NumWindows
      /\ inFlight \in Seq(Windows) /\ Len(inFlight) \in Nat
      /\ status \in [Windows -> {"idle", "running", "done", "failed", "dropped"}]
      /\ next > current
  BY NumWindowsAssumption, WorkersPositive DEF OrderInv, TypeOK, DequeInv, Windows
<1>2. ASSUME UNCHANGED <<next, current>>,
             \A w \in Windows : w < current /\ status[w] # "done" => status'[w] # "done"
      PROVE  HeldInv'
  BY <1>1, <1>2 DEF HeldInv
<1>3. ASSUME NEW w \in Windows, FetchDone(w) \/ FetchFails(w)
      PROVE  HeldInv'
  <2>1. w > current
    BY <1>3 DEF FetchDone, FetchFails, OrderInv, StatusInv, Running
  <2>2. UNCHANGED <<next, current>> /\ \A v \in Windows : v # w => status'[v] = status[v]
    BY <1>1, <1>3 DEF FetchDone, FetchFails
  <2> QED
    BY <1>1, <1>2, <2>1, <2>2
<1>4. CASE Fill
  <2>1. /\ next' = next + 1 /\ current' = current /\ Len(inFlight) < Workers
        /\ next = current + Len(inFlight) + 1
        /\ \A v \in Windows : v # next => status'[v] = status[v]
    BY <1>1, <1>4 DEF Fill, OrderInv, DequeInv, Ended
  <2> QED
    BY <1>1, <2>1 DEF HeldInv
<1>5. CASE Take
  <2>1. /\ inFlight # << >> /\ next = current + Len(inFlight) + 1
        /\ inFlight[1] = current + 1 /\ current' = inFlight[1]
        /\ next' = next \/ next' = next + 1
    <3>1. pc = "loop" /\ inFlight # << >> /\ current' = Popped(inFlight)
          /\ (next' = next \/ next' = next + 1)
      BY <1>5 DEF Take
    <3>2. Len(inFlight) >= 1
      BY <1>1, <3>1
    <3> QED
      BY <1>1, <3>1, <3>2 DEF Popped, PopIndex, OrderInv, DequeInv, Ended
  <2>2. Len(inFlight) >= 1
    BY <1>1, <2>1
  <2>3. ASSUME NEW w \in Windows, w <= current
        PROVE  status'[w] = Released(status)[w]
    <3>1. Released(status) \in [Windows -> {"idle", "running", "done", "failed", "dropped"}]
      BY <1>1 DEF Released
    <3>2. w # next
      BY <1>1, <2>3
    <3> QED
      BY <1>5, <3>1, <3>2 DEF Take
  <2>4. ASSUME NEW w \in 1 .. current
        PROVE  status'[w] # "done"
    <3>1. w \in Windows
      BY <1>1, <2>4 DEF OrderInv, TypeOK
    <3>2. status'[w] = Released(status)[w]
      BY <1>1, <2>3, <2>4, <3>1
    <3>3. CASE w = current
      BY <1>1, <2>4, <3>1, <3>2, <3>3 DEF Released
    <3>4. CASE w # current
      BY <1>1, <2>4, <3>1, <3>2, <3>4 DEF Released, HeldInv
    <3> QED
      BY <3>3, <3>4
  <2> QED
    BY <1>1, <2>1, <2>2, <2>4 DEF HeldInv
<1>6. CASE SerialFetch
  <2>1. next = current + 1 /\ current' = next /\ next' = next + 1
    BY <1>1, <1>6 DEF SerialFetch, OrderInv, CallerInv, DequeInv, Ended
  <2>2. ASSUME NEW w \in 1 .. current
        PROVE  status'[w] # "done"
    <3>1. w \in Windows /\ w # next
      BY <1>1, <2>2
    <3>2. status'[w] = Released(status)[w]
      <4>1. Released(status) \in [Windows -> {"idle", "running", "done", "failed", "dropped"}]
        BY <1>1 DEF Released
      <4> QED
        BY <1>6, <3>1, <4>1 DEF SerialFetch
    <3>3. CASE w = current
      BY <1>1, <2>2, <3>1, <3>2, <3>3 DEF Released
    <3>4. CASE w # current
      BY <1>1, <2>2, <3>1, <3>2, <3>4 DEF Released, HeldInv
    <3> QED
      BY <3>3, <3>4
  <2> QED
    BY <1>1, <2>1, <2>2, WorkersPositive DEF HeldInv
<1>7. CASE Crash
  <2>1. \A w \in Windows : status[w] # "done" => status'[w] # "done"
    BY <1>7 DEF Crash
  <2> QED
    BY <1>2, <1>7, <2>1 DEF Crash
<1>8. CASE Filled \/ TakeFailed \/ Return \/ Shutdown \/ SerialFetchFails \/ Upsert
           \/ SetWatermark \/ WriteFails \/ Count
  BY <1>2, <1>8 DEF Filled, TakeFailed, Return, Shutdown, SerialFetchFails, Upsert,
     SetWatermark, WriteFails, Count
<1>9. ASSUME NEW k \in Keys, Publish(k)
      PROVE  HeldInv'
  BY <1>2, <1>9 DEF Publish
<1>10. CASE UNCHANGED vars
  BY <1>2, <1>10 DEF vars
<1> QED
  BY <1>3, <1>4, <1>5, <1>6, <1>7, <1>8, <1>9, <1>10 DEF Next, Caller, Fetch

(* However fast the fetches are and however slow the writes, no more than  *)
(* Workers fetches run, and no more than one result set beyond that is     *)
(* held (run_windows: "Only concurrency fetches are ever in flight").      *)
THEOREM MemoryTheorem == Spec => []MemoryIsBounded
<1>1. Init => HeldInv
  BY WorkersPositive DEF Init, HeldInv
<1>2. OrderInv /\ HeldInv => MemoryIsBounded
  <2> SUFFICES ASSUME OrderInv, HeldInv PROVE MemoryIsBounded
    OBVIOUS
  <2>1. /\ next \in Nat /\ current \in Nat /\ Workers \in Nat /\ next > current
        /\ Windows \subseteq Nat \ {0}
    BY NumWindowsAssumption, WorkersPositive DEF OrderInv, TypeOK, DequeInv, Windows
  <2>2. Running \subseteq current + 1 .. next - 1
    <3> SUFFICES ASSUME NEW w \in Windows, status[w] = "running"
                 PROVE  w \in current + 1 .. next - 1
      BY DEF Running
    <3>1. w < next /\ w > current /\ w \in Nat
      BY <2>1 DEF OrderInv, StatusInv, Running
    <3> QED
      BY <2>1, <3>1
  <2>3. HeldResults \subseteq current .. next - 1
    <3> SUFFICES ASSUME NEW w \in Windows, status[w] = "done"
                 PROVE  w \in current .. next - 1
      BY DEF HeldResults
    <3>1. w < next
      BY DEF OrderInv, StatusInv
    <3>2. w >= current
      BY <2>1 DEF HeldInv
    <3> QED
      BY <2>1, <3>1, <3>2
  <2>4. /\ IsFiniteSet(current + 1 .. next - 1) /\ IsFiniteSet(current .. next - 1)
        /\ Cardinality(current + 1 .. next - 1) <= Workers
        /\ Cardinality(current .. next - 1) <= Workers + 1
    <3>1. /\ current + 1 \in Int /\ current \in Int /\ next - 1 \in Int
          /\ next - current <= Workers + 1
      BY <2>1 DEF HeldInv
    <3>2. /\ IsFiniteSet(current .. next - 1)
          /\ Cardinality(current .. next - 1) =
               IF current > next - 1 THEN 0 ELSE (next - 1) - current + 1
      BY <3>1, FS_Interval
    <3>3. /\ IsFiniteSet(current + 1 .. next - 1)
          /\ Cardinality(current + 1 .. next - 1) =
               IF current + 1 > next - 1 THEN 0 ELSE (next - 1) - (current + 1) + 1
      BY <3>1, FS_Interval
    <3> QED
      BY <2>1, <3>1, <3>2, <3>3
  <2>5. /\ Cardinality(Running) <= Cardinality(current + 1 .. next - 1)
        /\ Cardinality(HeldResults) <= Cardinality(current .. next - 1)
        /\ Cardinality(Running \cup HeldResults) <= Cardinality(current .. next - 1)
    <3>1. Running \cup HeldResults \subseteq current .. next - 1
      BY <2>1, <2>2, <2>3
    <3> QED
      BY <2>2, <2>3, <2>4, <3>1, FS_Subset, FS_CardinalityType
  <2>6. /\ Cardinality(Running) \in Nat /\ Cardinality(HeldResults) \in Nat
        /\ Cardinality(Running \cup HeldResults) \in Nat
        /\ Cardinality(current + 1 .. next - 1) \in Nat
        /\ Cardinality(current .. next - 1) \in Nat
    <3>1. Running \cup HeldResults \subseteq current .. next - 1
      BY <2>1, <2>2, <2>3
    <3> QED
      BY <2>2, <2>3, <2>4, <3>1, FS_Subset, FS_CardinalityType
  <2> QED
    BY <2>1, <2>4, <2>5, <2>6 DEF MemoryIsBounded
<1> QED
  BY <1>1, <1>2, NextHeld, OrderTheorem, PTL DEF Spec

-----------------------------------------------------------------------------
(* One worker.                                                             *)

(* The feed is never behind the table or a result set; and in the serial   *)
(* branch the rows being written are no older than what they replace: no   *)
(* write comes between a fetch and its own.                                *)
SerialInv ==
  /\ \A k \in Keys : table[k] <= feed[k]
  /\ \A w \in Windows, k \in Keys : rows[w][k] <= feed[k]
  /\ Serial /\ pc = "write" =>
       \A k \in Present(rows[current]) : table[k] <= rows[current][k]

(* Only a fetch, an upsert and the feed itself matter to it.               *)
LEMMA NextSerial == OrderInv /\ SerialInv /\ [Next]_vars => SerialInv'
<1> SUFFICES ASSUME OrderInv, SerialInv, [Next]_vars PROVE SerialInv'
  OBVIOUS
<1> USE DEF callVars, dbVars
<1>1. /\ feed \in [Keys -> Nat] /\ table \in [Keys -> Nat]
      /\ rows \in [Windows -> [Keys -> Nat]]
      /\ next \in Nat \ {0} /\ next <= NumWindows + 1 /\ NumWindows \in Nat
      /\ Windows = 1 .. NumWindows
  BY NumWindowsAssumption, MaxVersionAssumption
     DEF OrderInv, TypeOK, Version, Windows, DequeInv
<1>2. ASSUME UNCHANGED <<feed, table, rows, current>>,
             pc' = "write" /\ Serial => pc = "write"
      PROVE  SerialInv'
  BY <1>2 DEF SerialInv, Present, Serial, Workers
<1>3. ASSUME NEW l \in Keys, Publish(l)
      PROVE  SerialInv'
  <2>1. \A k \in Keys : feed'[k] \in Nat /\ feed[k] <= feed'[k]
    BY <1>1, <1>3 DEF Publish
  <2>2. UNCHANGED <<table, rows, current, pc>>
    BY <1>3 DEF Publish
  <2>3. \A k \in Keys : table'[k] <= feed'[k]
    BY <1>1, <2>1, <2>2 DEF SerialInv
  <2>4. \A w \in Windows, k \in Keys : rows'[w][k] <= feed'[k]
    <3> SUFFICES ASSUME NEW w \in Windows, NEW k \in Keys PROVE rows'[w][k] <= feed'[k]
      OBVIOUS
    <3>1. /\ rows[w][k] \in Nat /\ feed[k] \in Nat /\ feed'[k] \in Nat
          /\ rows[w][k] <= feed[k] /\ feed[k] <= feed'[k] /\ rows' = rows
      BY <1>1, <2>1, <2>2 DEF SerialInv
    <3> QED
      BY <3>1
  <2> QED
    BY <2>2, <2>3, <2>4 DEF SerialInv, Present, Serial, Workers
<1>4. ASSUME NEW w \in Windows, rows' = [rows EXCEPT ![w] = Answer(w)],
             UNCHANGED <<feed, table>>
      PROVE  \A v \in Windows, k \in Keys : rows'[v][k] <= feed'[k]
  BY <1>1, <1>4 DEF SerialInv, Answer
<1>5. ASSUME NEW w \in Windows, FetchDone(w)
      PROVE  SerialInv'
  <2>1. /\ UNCHANGED <<feed, table, current, pc>>
        /\ rows' = [rows EXCEPT ![w] = Answer(w)] /\ w \in Running
    BY <1>5 DEF FetchDone, Running
  <2>2. current \in Windows => rows'[current] = rows[current]
    BY <1>1, <2>1 DEF OrderInv, StatusInv, Running
  <2>3. pc = "write" => current \in Windows
    BY DEF OrderInv, CallerInv
  <2>4. \A v \in Windows, k \in Keys : rows'[v][k] <= feed'[k]
    BY <1>4, <2>1
  <2>5. \A k \in Keys : table'[k] <= feed'[k]
    BY <2>1 DEF SerialInv
  <2>6. ASSUME Serial, pc' = "write"
        PROVE  \A k \in Present(rows'[current']) : table'[k] <= rows'[current'][k]
    <3>1. rows'[current'] = rows[current] /\ table' = table
      BY <2>1, <2>2, <2>3, <2>6
    <3>2. \A k \in Present(rows[current]) : table[k] <= rows[current][k]
      BY <2>1, <2>6 DEF SerialInv
    <3> QED
      BY <3>1, <3>2
  <2> QED
    BY <2>4, <2>5, <2>6 DEF SerialInv, Present
<1>6. CASE SerialFetch
  <2>1. /\ next \in Windows /\ current' = next /\ UNCHANGED <<feed, table>>
        /\ rows' = [rows EXCEPT ![next] = Answer(next)]
    BY <1>1, <1>6 DEF SerialFetch, HasNext
  <2>2. rows'[current'] = Answer(next)
    BY <1>1, <2>1
  <2>3. \A k \in Present(Answer(next)) : Answer(next)[k] = feed[k]
    BY <1>1 DEF Present, Answer
  <2>4. \A k \in Present(rows'[current']) : table'[k] <= rows'[current'][k]
    BY <2>1, <2>2, <2>3 DEF SerialInv, Present
  <2> QED
    BY <1>4, <2>1, <2>4 DEF SerialInv, Present
<1>7. CASE Upsert
  <2>1. /\ current \in Windows /\ table' = Merge(table, rows[current])
        /\ UNCHANGED <<feed, rows, current>> /\ pc' # "write"
    BY <1>7 DEF Upsert, OrderInv, CallerInv
  <2>2. \A k \in Keys : table'[k] <= feed'[k]
    BY <1>1, <2>1 DEF Merge, SerialInv
  <2> QED
    BY <2>1, <2>2 DEF SerialInv
<1>8. CASE Take
  <2>1. ~Serial /\ UNCHANGED <<feed, table, rows>>
    BY <1>8 DEF Take, OrderInv, CallerInv
  <2> QED
    BY <2>1 DEF SerialInv, Serial, Workers
<1>9. ASSUME NEW w \in Windows, FetchFails(w)
      PROVE  SerialInv'
  BY <1>2, <1>9 DEF FetchFails
<1>10. CASE Fill \/ Filled \/ TakeFailed \/ Return \/ Shutdown \/ SerialFetchFails
            \/ SetWatermark \/ WriteFails \/ Count \/ Crash
  BY <1>2, <1>10 DEF Fill, Filled, TakeFailed, Return, Shutdown, SerialFetchFails,
     SetWatermark, WriteFails, Count, Crash
<1>11. CASE UNCHANGED vars
  BY <1>2, <1>11 DEF vars
<1> QED
  BY <1>3, <1>5, <1>6, <1>7, <1>8, <1>9, <1>10, <1>11 DEF Next, Caller, Fetch

(* With one worker no write takes a record back to an older revision: what *)
(* the pooled branch of run_windows cannot promise (run pipeline_regress). *)
THEOREM SerialTheorem ==
  ASSUME Serial
  PROVE  Spec => StoredNeverRegresses
<1>1. Init => SerialInv
  <2> SUFFICES ASSUME Init PROVE SerialInv
    OBVIOUS
  <2>1. feed \in [Keys -> Nat] /\ rows = [w \in Windows |-> Absent] /\ pc # "write"
    BY MaxVersionAssumption DEF Init, Version
  <2> QED
    BY <2>1 DEF Init, SerialInv, Absent
<1>2. OrderInv /\ SerialInv /\ [Next]_vars => [\A k \in Keys : table'[k] >= table[k]]_vars
  <2> SUFFICES ASSUME OrderInv, SerialInv, Next, NEW k \in Keys
               PROVE  table'[k] >= table[k]
    OBVIOUS
  <2>1. /\ table \in [Keys -> Nat] /\ rows \in [Windows -> [Keys -> Nat]]
    BY MaxVersionAssumption DEF OrderInv, TypeOK, Version
  <2>2. CASE Upsert
    <3>1. /\ pc = "write" /\ current \in Windows
          /\ table' = Merge(table, rows[current])
      BY <2>2 DEF Upsert, OrderInv, CallerInv
    <3> QED
      BY <2>1, <3>1, Serial DEF Merge, SerialInv
  <2>3. CASE ~Upsert
    <3>1. UNCHANGED table
      BY <2>3 DEF Next, Caller, Fetch, Publish, FetchDone, FetchFails, Fill, Filled,
         Take, TakeFailed, Return, Shutdown, SerialFetch, SerialFetchFails,
         SetWatermark, WriteFails, Count, Crash, callVars, dbVars
    <3> QED
      BY <2>1, <3>1
  <2> QED
    BY <2>2, <2>3
<1> QED
  BY <1>1, <1>2, NextSerial, OrderTheorem, PTL DEF Spec, StoredNeverRegresses

(* Within a call the watermark never moves back.                           *)
THEOREM WatermarkTheorem == Spec => WatermarkAdvances
<1>1. IInv /\ [Next]_vars => [marked > 0 => watermark' >= watermark]_vars
  <2> SUFFICES ASSUME IInv, Next, marked > 0 PROVE watermark' >= watermark
    OBVIOUS
  <2>1. watermark \in Nat
    BY TimeOfAssumption DEF IInv, OrderInv, TypeOK
  <2>2. CASE SetWatermark
    <3>1. PICK l \in Present(rows[current]) : watermark' = TimeOf[l]
      BY <2>2 DEF SetWatermark
    <3>2. PICK k \in KeysOf[marked] : watermark = TimeOf[k]
      BY DEF IInv, TableInv
    <3>3. /\ current \in Windows /\ marked \in 1 .. current - 1 /\ marked \in Windows
      BY <2>2, NumWindowsAssumption
         DEF SetWatermark, IInv, OrderInv, CallerInv, TableInv, TypeOK, Windows
    <3>4. l \in KeysOf[current]
      BY <3>1, <3>3 DEF Present, IInv, RowsInv
    <3>5. TimeOf[k] < TimeOf[l] \/ TimeOf[k] = TimeOf[l]
      BY <3>3, <3>4, WindowsAssumption
    <3>6. TimeOf[k] \in Nat /\ TimeOf[l] \in Nat
      BY <3>3, <3>4, TimeOfAssumption, KeysOfAssumption
    <3> QED
      BY <3>1, <3>2, <3>5, <3>6
  <2>3. CASE ~SetWatermark
    <3>1. watermark' = watermark
      BY <2>3 DEF Next, Publish, Fetch, FetchDone, FetchFails, Caller, Fill,
         Filled, Take, TakeFailed, Return, Shutdown, SerialFetch,
         SerialFetchFails, Upsert, WriteFails, Count, Crash, dbVars
    <3> QED
      BY <2>1, <3>1
  <2> QED
    BY <2>2, <2>3
<1> QED
  BY <1>1, InvTheorem, PTL DEF Spec, WatermarkAdvances

-----------------------------------------------------------------------------
(* The refinement.                                                         *)

(* The abstract variables start as a serial ingest does.                   *)
LEMMA InitRefines == Init => Abstract!Init
BY DEF Init, Abstract!Init, AbstractDue, AbstractOutcome, Ended, Serial,
   Abstract!Version, Version

(* Every step is a step of the serial ingest or leaves it unchanged.       *)
LEMMA NextRefines == IInv /\ [Next]_vars => [Abstract!Next]_(Abstract!vars)
<1> SUFFICES ASSUME IInv, [Next]_vars PROVE [Abstract!Next]_(Abstract!vars)
  OBVIOUS
<1> USE DEF AbstractDue, AbstractOutcome, Abstract!vars, Ended, callVars, dbVars
<1>1. CASE Upsert
  <2>1. /\ pc = "write" /\ current \in Windows /\ stored = current - 1
        /\ rows[current] \in [Keys -> Version]
        /\ Present(rows[current]) \subseteq KeysOf[current]
    BY <1>1 DEF Upsert, IInv, OrderInv, TypeOK, CallerInv, PrefixInv, RowsInv, Present
  <2>2. stored < NumWindows /\ stored + 1 = current
    BY <2>1, NumWindowsAssumption DEF Windows
  <2>3. rows[current] \in Abstract!BatchesOf(stored + 1)
    BY <2>1, <2>2 DEF Abstract!BatchesOf, Abstract!Present, Present,
       Abstract!Version, Version
  <2>4. /\ table' = Merge(table, rows[current]) /\ stored' = stored + 1
        /\ watermark' = watermark /\ rows' = rows /\ current' = current
        /\ pc' = IF HasWatermark /\ Present(rows[current]) # {}
                 THEN "mark" ELSE "count"
    BY <1>1, <2>2 DEF Upsert
  <2>5. AbstractDue' = IF HasWatermark THEN Present(rows[current]) ELSE {}
    BY <2>4, HasWatermarkAssumption DEF Present
  <2>6. Abstract!Apply
    BY <2>1, <2>2, <2>3, <2>4, <2>5 DEF Abstract!Apply, Abstract!Merge, Merge,
       Abstract!Present, Present
  <2> QED
    BY <2>6 DEF Abstract!Next
<1>2. CASE SetWatermark
  <2>1. Abstract!Mark
    BY <1>2 DEF SetWatermark, Abstract!Mark, Abstract!IsLatest, IsLatest, Present
  <2> QED
    BY <2>1 DEF Abstract!Next
<1>3. CASE Return
  <2>1. pc \in {"loop", "serial"} /\ pc' = "returned" /\ stored' = stored
    BY <1>3 DEF Return
  <2>2. PrefixInv'
    BY NextOrder DEF IInv, OrderInv
  <2>3. stored = NumWindows
    BY <2>1, <2>2 DEF PrefixInv
  <2>4. Abstract!Return
    BY <1>3, <2>1, <2>3 DEF Return, Abstract!Return
  <2> QED
    BY <2>4 DEF Abstract!Next
<1>4. CASE TakeFailed \/ SerialFetchFails \/ WriteFails
  <2>1. Abstract!Stop
    BY <1>4 DEF TakeFailed, SerialFetchFails, WriteFails, Abstract!Stop
  <2> QED
    BY <2>1 DEF Abstract!Next
<1>5. CASE Crash
  <2>1. CASE pc = "shutdown"
    BY <1>5, <2>1 DEF Crash
  <2>2. CASE pc # "shutdown"
    <3>1. Abstract!Stop
      BY <1>5, <2>2 DEF Crash, Abstract!Stop
    <3> QED
      BY <3>1 DEF Abstract!Next
  <2> QED
    BY <2>1, <2>2
<1>6. ASSUME NEW k \in Keys, Publish(k) PROVE UNCHANGED Abstract!vars
  BY <1>6 DEF Publish, Present
<1>7. ASSUME NEW w \in Windows, Fetch(w) PROVE UNCHANGED Abstract!vars
  <2>1. /\ pc' = pc /\ current' = current /\ table' = table /\ stored' = stored
        /\ watermark' = watermark
    BY <1>7 DEF Fetch, FetchDone, FetchFails
  <2>2. pc = "mark" => rows'[current] = rows[current]
    <3> SUFFICES ASSUME pc = "mark" PROVE rows'[current] = rows[current]
      OBVIOUS
    <3>1. current \in Windows /\ w # current
      BY <1>7 DEF IInv, OrderInv, CallerInv, StatusInv, Running, Fetch, FetchDone,
         FetchFails, Windows
    <3> QED
      BY <1>7, <3>1 DEF Fetch, FetchDone, FetchFails, IInv, OrderInv, TypeOK
  <2> QED
    BY <2>1, <2>2 DEF Present
<1>8. CASE \/ Fill \/ Filled \/ Take \/ Shutdown \/ SerialFetch \/ Count
           \/ UNCHANGED vars
  <2>1. UNCHANGED <<table, watermark, stored>>
    BY <1>8 DEF Fill, Filled, Take, Shutdown, SerialFetch, Count, vars
  <2>2. AbstractOutcome' = AbstractOutcome /\ AbstractDue' = AbstractDue
    BY <1>8 DEF Fill, Filled, Take, Shutdown, SerialFetch, Count, vars, Present
  <2> QED
    BY <2>1, <2>2
<1> QED
  BY <1>1, <1>2, <1>3, <1>4, <1>5, <1>6, <1>7, <1>8 DEF Next, Caller

(* run_windows is a serial ingest, with any number of threads fetching.    *)
THEOREM RefinementTheorem == Spec => ImplementsSerialIngest
BY InitRefines, NextRefines, InvTheorem, PTL
   DEF Spec, ImplementsSerialIngest, Abstract!Spec
-----------------------------------------------------------------------------
(* The caller's totals.                                                    *)

\* The windows that are in the totals are 1 .. Counted.
Counted == IF pc \in {"write", "mark", "count"} THEN current - 1 ELSE current

\* The rows of the windows 1 .. n, and the windows of them that have any.
Pairs(r, n) == {f \in (1 .. n) \X Keys : r[f[1]][f[2]] > 0}
Full(r, n) == {w \in 1 .. n : Present(r[w]) # {}}

CountInv ==
  pc \notin {"shutdown", "raised", "crashed"} =>
    /\ total = Cardinality(Pairs(rows, Counted))
    /\ lastWithData \in Full(rows, Counted) \cup {0}
    /\ \A w \in Full(rows, Counted) : w <= lastWithData

(* The next window adds its rows.                                          *)
LEMMA PairsNext ==
  ASSUME NEW r, NEW c \in Nat \ {0}
  PROVE  Cardinality(Pairs(r, c)) = Cardinality(Pairs(r, c - 1)) + Cardinality(Present(r[c]))
<1> DEFINE P == Present(r[c])
           New == {<<c, k>> : k \in P}
           Old == Pairs(r, c - 1)
           g == [k \in P |-> <<c, k>>]
<1>1. IsFiniteSet(P)
  BY KeysAssumption, FS_Subset DEF Present
<1>2. g \in Bijection(P, New)
  BY DEF Bijection, Injection, IsInjective, Surjection
<1>3. IsFiniteSet(New) /\ Cardinality(New) = Cardinality(P)
  <2> HIDE DEF P, New, g
  <2>1. ExistsBijection(P, New)
    BY <1>2 DEF ExistsBijection
  <2> QED
    BY <1>1, <2>1, FS_Bijection
<1>4. IsFiniteSet(Old)
  <2>1. IsFiniteSet(1 .. c - 1)
    BY FS_Interval
  <2>2. IsFiniteSet((1 .. c - 1) \X Keys)
    BY <2>1, KeysAssumption, FS_Product
  <2>3. Old \in SUBSET ((1 .. c - 1) \X Keys)
    BY DEF Pairs
  <2> HIDE DEF Old
  <2> QED
    BY <2>2, <2>3, FS_Subset
<1>5. Pairs(r, c) = Old \cup New
  <2>1. ASSUME NEW f \in Pairs(r, c)
        PROVE  f \in Old \cup New
    <3>1. f \in (1 .. c) \X Keys /\ f = <<f[1], f[2]>> /\ r[f[1]][f[2]] > 0
      BY DEF Pairs
    <3>2. CASE f[1] = c
      <4>1. f[2] \in P
        BY <3>1, <3>2 DEF Present
      <4> QED
        BY <3>1, <3>2, <4>1
    <3>3. CASE f[1] # c
      <4>1. f[1] \in 1 .. c - 1
        BY <3>1, <3>3
      <4> QED
        BY <3>1, <4>1 DEF Pairs
    <3> QED
      BY <3>2, <3>3
  <2>2. ASSUME NEW f \in Old
        PROVE  f \in Pairs(r, c)
    BY DEF Pairs
  <2>3. ASSUME NEW k \in P
        PROVE  <<c, k>> \in Pairs(r, c)
    BY DEF Pairs, Present
  <2> QED
    BY <2>1, <2>2, <2>3
<1>6. Old \cap New = {}
  BY DEF Pairs
<1> HIDE DEF New, Old, P
<1>7. Cardinality(Old \cup New) = Cardinality(Old) + Cardinality(New) - Cardinality(Old \cap New)
  BY <1>3, <1>4, FS_Union
<1>8. Cardinality({}) = 0 /\ Cardinality(Old) \in Nat /\ Cardinality(New) \in Nat
  BY <1>3, <1>4, FS_EmptySet, FS_CardinalityType
<1>9. Cardinality(Old \cup New) = Cardinality(Old) + Cardinality(P)
  <2>1. Cardinality(Old \cap New) = 0
    BY <1>6, <1>8
  <2>2. Cardinality(Old) + Cardinality(New) - 0 = Cardinality(Old) + Cardinality(New)
    BY <1>8
  <2>3. Cardinality(Old \cup New) = Cardinality(Old) + Cardinality(New)
    BY <1>7, <2>1, <2>2
  <2> QED
    BY <1>3, <2>3
<1> QED
  BY <1>5, <1>9 DEF Old, P

LEMMA InitCount == Init => CountInv
<1> SUFFICES ASSUME Init PROVE CountInv
  OBVIOUS
<1>1. Counted = 0 /\ total = 0 /\ lastWithData = 0
  BY DEF Init, Counted
<1>2. Pairs(rows, 0) = {} /\ Full(rows, 0) = {}
  BY DEF Pairs, Full
<1> QED
  BY <1>1, <1>2, FS_EmptySet DEF CountInv

(* A step that neither counts nor ends the call keeps the totals: the rows *)
(* it may change are those of windows that are not counted yet.            *)
LEMMA SameCount ==
  ASSUME CountInv, current \in Nat, current' \in Nat, pc \notin {"shutdown", "raised", "crashed"},
         total' = total, lastWithData' = lastWithData, Counted' = Counted,
         \A w \in 1 .. Counted : rows'[w] = rows[w]
  PROVE  CountInv'
<1>1. Pairs(rows', Counted) = Pairs(rows, Counted)
  BY DEF Pairs
<1>2. Full(rows', Counted) = Full(rows, Counted)
  BY DEF Full
<1> QED
  BY <1>1, <1>2 DEF CountInv

(* Every step keeps the totals right.                                      *)
LEMMA NextCount == OrderInv /\ CountInv /\ [Next]_vars => CountInv'
<1> SUFFICES ASSUME OrderInv, CountInv, [Next]_vars PROVE CountInv'
  OBVIOUS
<1>1. /\ current \in Nat /\ lastWithData \in Nat /\ total \in Nat
      /\ rows \in [Windows -> [Keys -> Version]] /\ NumWindows \in Nat
  BY NumWindowsAssumption DEF OrderInv, TypeOK
<1>2. CASE UNCHANGED vars
  BY <1>2 DEF vars, callVars, CountInv, Counted
<1>3. CASE pc' \in {"shutdown", "raised", "crashed"}
  BY <1>3 DEF CountInv
<1>4. ASSUME NEW k \in Keys, Publish(k) PROVE CountInv'
  BY <1>4 DEF Publish, callVars, CountInv, Counted
<1>5. ASSUME NEW w \in Windows, FetchFails(w) PROVE CountInv'
  BY <1>5 DEF FetchFails, callVars, CountInv, Counted
<1>6. ASSUME NEW w \in Windows, FetchDone(w) PROVE CountInv'
  <2>1. w > current /\ w \in Nat
    BY <1>6 DEF FetchDone, OrderInv, StatusInv, Running, Windows
  <2>2. UNCHANGED <<pc, current, total, lastWithData>> /\ Counted' = Counted
    BY <1>6 DEF FetchDone, callVars, Counted
  <2>3. \A v \in 1 .. Counted : v # w
    BY <1>1, <2>1 DEF Counted
  <2>4. \A v \in 1 .. Counted : rows'[v] = rows[v]
    BY <1>1, <1>6, <2>3 DEF FetchDone
  <2>5. CASE pc \in {"shutdown", "raised", "crashed"}
    BY <2>2, <2>5 DEF CountInv
  <2> QED
    BY <1>1, <2>2, <2>4, <2>5, SameCount
<1>7. CASE Fill \/ Filled \/ Return
  <2>1. /\ UNCHANGED <<rows, current, total, lastWithData>>
        /\ pc \in {"fill", "loop", "serial"} /\ pc' \in {"fill", "loop", "returned"}
    BY <1>7 DEF Fill, Filled, Return, callVars
  <2> QED
    BY <2>1 DEF CountInv, Counted
<1>8. CASE Take
  <2>1. /\ UNCHANGED <<rows, total, lastWithData>>
        /\ pc = "loop" /\ pc' = "write" /\ inFlight # << >> /\ current' = Popped(inFlight)
    BY <1>8 DEF Take
  <2>2. Popped(inFlight) = current + 1
    <3>1. inFlight \in Seq(Windows) /\ Popped(inFlight) = inFlight[1]
      BY <2>1, LeftProperties DEF OrderInv, TypeOK
    <3>2. Len(inFlight) \in Nat \ {0}
      BY <2>1, <3>1
    <3> QED
      BY <2>1, <3>1, <3>2 DEF OrderInv, DequeInv, Ended
  <2>3. Counted' = Counted /\ current' \in Nat
    BY <1>1, <2>1, <2>2 DEF Counted
  <2> QED
    BY <1>1, <2>1, <2>3, SameCount
<1>9. CASE SerialFetch
  <2>1. /\ UNCHANGED <<total, lastWithData>>
        /\ pc = "serial" /\ pc' = "write" /\ current' = next
        /\ rows' = [rows EXCEPT ![next] = Answer(next)]
    BY <1>9 DEF SerialFetch
  <2>2. next = current + 1
    <3>1. inFlight = << >>
      BY <2>1 DEF OrderInv, CallerInv
    <3> QED
      BY <1>1, <2>1, <3>1 DEF OrderInv, DequeInv, Ended
  <2>3. Counted' = Counted /\ Counted = current /\ current' \in Nat
    BY <1>1, <2>1, <2>2 DEF Counted
  <2>4. \A v \in 1 .. Counted : rows'[v] = rows[v]
    BY <1>1, <2>1, <2>2, <2>3
  <2> QED
    BY <1>1, <2>1, <2>3, <2>4, SameCount
<1>10. CASE pc' \notin {"shutdown", "raised", "crashed"} /\ (Upsert \/ SetWatermark)
  <2>1. /\ UNCHANGED <<rows, current, total, lastWithData>>
        /\ pc \in {"write", "mark"} /\ pc' \in {"mark", "count"}
    BY <1>10 DEF Upsert, SetWatermark, callVars
  <2> QED
    BY <2>1 DEF CountInv, Counted
<1>11. CASE Count
  <2>1. /\ UNCHANGED <<rows, current>> /\ pc = "count" /\ pc' \in {"serial", "loop"}
        /\ total' = total + Cardinality(Present(rows[current]))
        /\ lastWithData' = IF Present(rows[current]) # {} THEN current ELSE lastWithData
    BY <1>11 DEF Count
  <2>2. current \in Nat \ {0} /\ Counted = current - 1 /\ Counted' = current
    BY <2>1 DEF OrderInv, CallerInv, Counted, Windows
  <2>3. /\ total = Cardinality(Pairs(rows, current - 1))
        /\ lastWithData \in Full(rows, current - 1) \cup {0}
        /\ \A w \in Full(rows, current - 1) : w <= lastWithData
    BY <2>1, <2>2 DEF CountInv
  <2>4. total' = Cardinality(Pairs(rows, current))
    BY <2>1, <2>2, <2>3, PairsNext
  <2>5. Full(rows, current) = Full(rows, current - 1)
                                \cup IF Present(rows[current]) # {} THEN {current} ELSE {}
    BY <2>2 DEF Full
  <2>6. \A w \in Full(rows, current - 1) : w <= current
    BY <2>2 DEF Full
  <2>7. /\ lastWithData' \in Full(rows, current) \cup {0}
        /\ \A w \in Full(rows, current) : w <= lastWithData'
    BY <1>1, <2>1, <2>2, <2>3, <2>5, <2>6
  <2> QED
    BY <2>1, <2>2, <2>4, <2>7 DEF CountInv
<1>12. CASE TakeFailed \/ Shutdown \/ SerialFetchFails \/ WriteFails \/ Crash
  BY <1>3, <1>12 DEF TakeFailed, Shutdown, SerialFetchFails, WriteFails, Crash
<1> QED
  BY <1>2, <1>3, <1>4, <1>5, <1>6, <1>7, <1>8, <1>9, <1>10, <1>11, <1>12 DEF Next, Caller, Fetch

(* A call that returns has stored every window, and its totals are exactly *)
(* what it stored (rows_written and last_with_data of run_windows).        *)
THEOREM ResultTheorem == Spec => []ResultIsExact
<1>1. OrderInv /\ CountInv => ResultIsExact
  <2> SUFFICES ASSUME OrderInv, CountInv, pc = "returned"
               PROVE  /\ stored = NumWindows
                      /\ total = Cardinality({f \in Windows \X Keys : rows[f[1]][f[2]] > 0})
                      /\ lastWithData \in {w \in Windows : Present(rows[w]) # {}} \cup {0}
                      /\ \A w \in Windows : Present(rows[w]) # {} => w <= lastWithData
    BY DEF ResultIsExact
  <2>1. stored = NumWindows /\ current = NumWindows /\ Counted = NumWindows
    BY NumWindowsAssumption DEF OrderInv, PrefixInv, TypeOK, Counted
  <2> QED
    BY <2>1 DEF CountInv, Pairs, Full, Windows
<1>2. Spec => []CountInv
  BY OrderTheorem, InitCount, NextCount, PTL DEF Spec
<1> QED
  BY <1>1, <1>2, OrderTheorem, PTL
=============================================================================
