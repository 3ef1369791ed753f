------------------------- MODULE DispatchSeriesProofs -------------------------
(***************************************************************************)
(* Proofs about materialize_dispatch, for every step of the grid, window   *)
(* and set of segments: the rows it writes are on the one grid that all    *)
(* calls share, they are what the latest segments define there, and their  *)
(* levels and flows are in range.                                          *)
(***************************************************************************)
EXTENDS DispatchSeries, NaturalFacts, TLAPS

(* A number is its quotient times f and a remainder.                       *)
LEMMA Quotient ==
  ASSUME NEW f \in Nat \ {0}, NEW s \in Nat
  PROVE  /\ s = f * (s \div f) + (s % f)
         /\ s % f \in 0 .. f - 1 /\ s \div f \in Nat
OBVIOUS

(* A multiple of f leaves no remainder.                                    *)
LEMMA Multiple ==
  ASSUME NEW f \in Nat \ {0}, NEW q \in Nat
  PROVE  (f * q) % f = 0
OBVIOUS

(* The floored start is on the grid, and no later than the start.          *)
LEMMA FloorOnGrid ==
  ASSUME NEW start \in Nat
  PROVE  /\ FloorStart(start) = Freq * (start \div Freq)
         /\ FloorStart(start) \in Nat /\ FloorStart(start) <= start
         /\ start \div Freq \in Nat
<1>1. Freq \in Nat \ {0}
  BY GridAssumption
<1>2. /\ start = Freq * (start \div Freq) + (start % Freq)
      /\ start % Freq \in 0 .. Freq - 1 /\ start \div Freq \in Nat
  BY <1>1, Quotient
<1>3. Freq * (start \div Freq) \in Nat
  BY <1>1, <1>2
<1> QED
  BY <1>1, <1>2, <1>3 DEF FloorStart

(* The instants of a call are multiples of the step, whatever its start.   *)
LEMMA GridIsShared ==
  ASSUME NEW w \in Windows, NEW t \in Grid(w)
  PROVE  t \in Nat /\ t % Freq = 0
<1>1. Freq \in Nat \ {0} /\ w.start \in Nat /\ w.end \in Nat
  BY GridAssumption, WindowsAssumption
<1> DEFINE f == FloorStart(w.start)
           q == w.start \div Freq
           n == t - f
<1>2. f = Freq * q /\ f \in Nat /\ q \in Nat
  BY <1>1, FloorOnGrid
<1> HIDE DEF f, q
<1>3. t \in f .. w.end - 1 /\ (t - f) % Freq = 0
  BY DEF Grid, f
<1>4. n \in Nat /\ n % Freq = 0 /\ t = f + n
  BY <1>1, <1>2, <1>3
<1> HIDE DEF n
<1>5. n = Freq * (n \div Freq) + (n % Freq) /\ n \div Freq \in Nat
  BY <1>1, <1>4, Quotient
<1> DEFINE k == n \div Freq
<1>6. k \in Nat /\ Freq * k \in Nat /\ n = Freq * k
  <2>1. Freq * k \in Nat
    BY <1>1, <1>5
  <2> QED
    BY <1>4, <1>5, <2>1
<1> HIDE DEF k
<1>7. t = Freq * (q + k) /\ q + k \in Nat
  BY <1>1, <1>2, <1>4, <1>6
<1>8. (Freq * (q + k)) % Freq = 0
  BY <1>1, <1>7, Multiple
<1>9. t \in Nat
  BY <1>2, <1>4
<1> QED
  BY <1>7, <1>8, <1>9

(* What is written is a part of the grid of the call's window.             *)
LEMMA RowsInGrid ==
  ASSUME NEW data, NEW plans, NEW accs, NEW lims, NEW idx
  PROVE  DOMAIN Kept(Series(data, plans, accs, lims, idx)) \subseteq idx
<1>1. DOMAIN Series(data, plans, accs, lims, idx) = idx
  BY DEF Series
<1>2. \A rows : DOMAIN Kept(rows) \subseteq DOMAIN rows
  BY DEF Kept
<1> QED
  BY <1>1, <1>2

(* All calls write the same instants, wherever their windows begin: the    *)
(* start is floored to the step (bmu_dispatch in analytics.py, without     *)
(* which "each service restart shifts the offset").                        *)
THEOREM RowsOnGridTheorem == Spec => []RowsOnGrid
<1> DEFINE Inv == window \in Windows /\ RowsOnGrid
<1>1. Init => Inv
  BY DEF Init, RowsOnGrid, NoRows
<1>2. Inv /\ [Next]_vars => Inv'
  <2> SUFFICES ASSUME window \in Windows, RowsOnGrid, [Next]_vars
               PROVE  window' \in Windows /\ RowsOnGrid'
    OBVIOUS
  <2> USE DEF tables
  <2>1. CASE Begin
    BY <2>1 DEF Begin, RowsOnGrid, NoRows
  <2>2. CASE Write
    <3>1. DOMAIN written' \subseteq Grid(window) /\ window' = window
      BY <2>2, RowsInGrid DEF Write
    <3> QED
      BY <3>1, GridIsShared DEF RowsOnGrid
  <2>3. CASE StorePlan \/ StoreAcceptance \/ StoreLimit \/ ActiveBmus \/ FetchPn
             \/ FetchBoalf \/ FetchMels \/ UNCHANGED vars
    <3>1. written' = written /\ window' = window
      BY <2>3 DEF StorePlan, StoreAcceptance, StoreLimit, Stored, ActiveBmus, FetchPn,
         FetchBoalf, FetchMels, vars
    <3> QED
      BY <3>1 DEF RowsOnGrid
  <2> QED
    BY <2>1, <2>2, <2>3 DEF Next, Call
<1> QED
  BY <1>1, <1>2, PTL DEF Spec
-----------------------------------------------------------------------------
(* Segments on the grid.                                                   *)

(* The i-th segment of the order is one of df that covers t.               *)
Hits(df, order, t, i) == order[i] \in df /\ Covers(order[i], t)

(* The i-th segment of the order is the last of df that covers t.          *)
LastHit(df, order, t, i) ==
  /\ i \in 1 .. Len(order) /\ Hits(df, order, t, i)
  /\ \A j \in 1 .. Len(order) : i < j => ~Hits(df, order, t, j)

(* The series before and after each segment, computed from out.            *)
Interpolated(df, order, idx, out) ==
  [n \in 0 .. Len(order) |->
     IF n = 0 THEN [t \in idx |-> NaN]
     ELSE IF order[n] \in df THEN Stamp(out[n - 1], order[n])
     ELSE out[n - 1]]

(* The recursion of _interp_segments has a solution.                       *)
LEMMA InterpDefined ==
  ASSUME NEW df, NEW order, Len(order) \in Nat, NEW idx
  PROVE  \E out :
           /\ out = Interpolated(df, order, idx, out)
           /\ InterpSegments(df, order, idx) = out[Len(order)]
<1> DEFINE top == Len(order)
           Values == {NaN} \cup {Level(s, t) : s \in df, t \in idx}
           V == [idx -> Values]
           base == [t \in idx |-> NaN]
           Body(f) == Interpolated(df, order, idx, f)
           step == [i \in 1 .. top |->
                      [f \in V |-> IF order[i] \in df THEN Stamp(f, order[i]) ELSE f]]
<1>1. base \in V
  OBVIOUS
<1>2. ASSUME NEW f \in V, NEW s \in df
      PROVE  Stamp(f, s) \in V
  BY DEF Stamp
<1>0. top \in Nat
  OBVIOUS
<1> HIDE DEF base, V, top
<1>3. step \in [1 .. top -> [V -> V]]
  BY <1>2
<1>4. \A i \in 1 .. top, f \in V :
        step[i][f] = IF order[i] \in df THEN Stamp(f, order[i]) ELSE f
  OBVIOUS
<1> HIDE DEF step
<1>5. PICK g \in [0 .. top -> V] : Follows(g, base, step, top)
  BY <1>0, <1>1, <1>3, RecursionExists
<1>6. g = Body(g)
  <2>1. ASSUME NEW n \in 0 .. top
        PROVE  g[n] = Body(g)[n]
    <3>0. Body(g)[n] = IF n = 0 THEN base
                       ELSE IF order[n] \in df THEN Stamp(g[n - 1], order[n])
                       ELSE g[n - 1]
      BY DEF Interpolated, top, base
    <3>1. CASE n = 0
      BY <1>5, <3>0, <3>1 DEF Follows
    <3>2. CASE n # 0
      <4>0. n \in 1 .. top /\ n - 1 \in 0 .. top
        BY <1>0, <3>2
      <4>1. g[n - 1] \in V
        BY <4>0
      <4>2. g[n] = IF order[n] \in df THEN Stamp(g[n - 1], order[n]) ELSE g[n - 1]
        BY <1>4, <1>5, <4>0, <4>1 DEF Follows
      <4> QED
        BY <3>0, <3>2, <4>2
    <3> QED
      BY <3>1, <3>2
  <2>2. Body(g) = [n \in 0 .. top |-> Body(g)[n]]
    BY DEF Interpolated, top
  <2> HIDE DEF Body
  <2> QED
    BY <2>1, <2>2
<1> DEFINE out == CHOOSE f : f = Body(f)
<1>7. out = Body(out)
  <2> HIDE DEF Body
  <2> QED BY <1>6
<1>8. InterpSegments(df, order, idx) = out[top]
  BY DEF InterpSegments, Interpolated, top
<1> QED
  BY <1>7, <1>8 DEF top

(* At t the series has the level of the last segment of df, in the order,  *)
(* that covers t, and no value if none does (_interp_segments).            *)
LEMMA InterpLastOrNone ==
  ASSUME NEW df, NEW order, Len(order) \in Nat, NEW idx, NEW t \in idx
  PROVE  LET value == InterpSegments(df, order, idx)[t] IN
         /\ (\A i \in 1 .. Len(order) : ~Hits(df, order, t, i)) => value = NaN
         /\ \A i \in 1 .. Len(order) : LastHit(df, order, t, i) => value = Level(order[i], t)
<1> DEFINE top == Len(order)
           H(i) == Hits(df, order, t, i)
<1>1. PICK out :
           /\ out = Interpolated(df, order, idx, out)
           /\ InterpSegments(df, order, idx) = out[top]
  BY InterpDefined
<1>0. /\ out[0] = [u \in idx |-> NaN]
      /\ \A n \in 1 .. top : out[n] = IF order[n] \in df THEN Stamp(out[n - 1], order[n])
                                    ELSE out[n - 1]
  <2>1. \A n \in 0 .. top : out[n] = Interpolated(df, order, idx, out)[n]
    BY <1>1
  <2> QED
    BY <2>1 DEF Interpolated
<1> DEFINE AtLast(n) == /\ DOMAIN out[n] = idx
                        /\ (\A i \in 1 .. n : ~H(i)) => out[n][t] = NaN
                        /\ \A i \in 1 .. n :
                             H(i) /\ (\A j \in 1 .. n : i < j => ~H(j))
                             => out[n][t] = Level(order[i], t)
           S == {n \in 0 .. top : AtLast(n)}
<1>2. 0 \in S
  BY <1>0
<1>3. ASSUME NEW k \in 0 .. top - 1, k \in S
      PROVE  k + 1 \in S
  <2>0. /\ k + 1 \in 1 .. top /\ (k + 1) - 1 = k /\ k + 1 # 0
        /\ 1 .. k + 1 = (1 .. k) \cup {k + 1}
        /\ \A i \in 1 .. k : i < k + 1 /\ ~(k + 1 < i)
        /\ ~(k + 1 < k + 1)
    OBVIOUS
  <2>1. out[k + 1] = IF order[k + 1] \in df THEN Stamp(out[k], order[k + 1]) ELSE out[k]
    BY <1>0, <2>0
  <2>2. AtLast(k)
    BY <1>3
  <2>3. CASE H(k + 1)
    <3>1. DOMAIN out[k + 1] = idx /\ out[k + 1][t] = Level(order[k + 1], t)
      BY <2>1, <2>2, <2>3 DEF Hits, Stamp
    <3> HIDE DEF H
    <3>2. \A i \in 1 .. k + 1 :
           H(i) /\ (\A j \in 1 .. k + 1 : i < j => ~H(j)) => i = k + 1
      BY <2>0, <2>3
    <3>3. AtLast(k + 1)
      BY <2>0, <2>3, <3>1, <3>2
    <3> QED
      BY <2>0, <3>3
  <2>4. CASE ~H(k + 1)
    <3>1. DOMAIN out[k + 1] = idx /\ out[k + 1][t] = out[k][t]
      BY <2>1, <2>2, <2>4 DEF Hits, Stamp
    <3> HIDE DEF H
    <3>2. (\A i \in 1 .. k + 1 : ~H(i)) => (\A i \in 1 .. k : ~H(i))
      BY <2>0
    <3>3. ASSUME NEW i \in 1 .. k + 1, H(i), \A j \in 1 .. k + 1 : i < j => ~H(j)
          PROVE  i \in 1 .. k /\ H(i) /\ (\A j \in 1 .. k : i < j => ~H(j))
      BY <2>0, <2>4, <3>3
    <3>4. AtLast(k + 1)
      BY <2>2, <3>1, <3>2, <3>3
    <3> QED
      BY <2>0, <3>4
  <2> QED
    BY <2>3, <2>4
<1>4. top \in S
  <2>1. top \in Nat
    OBVIOUS
  <2> HIDE DEF S, top
  <2>2. \A k \in 0 .. top - 1 : k \in S => k + 1 \in S
    BY <1>3
  <2>3. 0 .. top \subseteq S
    BY <1>2, <2>1, <2>2, InductionUpTo
  <2> QED
    BY <2>1, <2>3
<1> QED
  BY <1>1, <1>4 DEF LastHit

LEMMA InterpNone ==
  ASSUME NEW df, NEW order, Len(order) \in Nat, NEW idx, NEW t \in idx,
         \A i \in 1 .. Len(order) : ~Hits(df, order, t, i)
  PROVE  InterpSegments(df, order, idx)[t] = NaN
BY InterpLastOrNone

LEMMA InterpLast ==
  ASSUME NEW df, NEW order, Len(order) \in Nat, NEW idx, NEW t \in idx,
         NEW i \in 1 .. Len(order), LastHit(df, order, t, i)
  PROVE  InterpSegments(df, order, idx)[t] = Level(order[i], t)
BY InterpLastOrNone

(* An order of a finite set has all of its members, and no other.          *)
LEMMA OrderHasAll ==
  ASSUME NEW S, IsFiniteSet(S), NEW order \in SetToSeqs(S)
  PROVE  /\ Len(order) \in Nat /\ DOMAIN order = 1 .. Len(order)
         /\ \A i \in 1 .. Len(order) : order[i] \in S
         /\ \A s \in S : \E i \in 1 .. Len(order) : order[i] = s
<1> DEFINE n == Cardinality(S)
<1>1. n \in Nat
  BY FS_CardinalityType
<1>2. order \in [1 .. n -> S] /\ \A i, j \in 1 .. n : i # j => order[i] # order[j]
  BY DEF SetToSeqs
<1>3. order \in Injection(1 .. n, S)
  BY <1>2 DEF Injection, IsInjective
<1>4. IsFiniteSet(1 .. n) /\ Cardinality(1 .. n) = n
  BY <1>1, FS_Interval
<1>5. order \in Surjection(1 .. n, S)
  BY <1>3, <1>4, FS_Injection
<1>6. \A s \in S : \E i \in 1 .. n : order[i] = s
  BY <1>5 DEF Surjection
<1> HIDE DEF n
<1>7. Len(order) = n /\ DOMAIN order = 1 .. n
  BY <1>1, <1>2
<1> QED
  BY <1>1, <1>2, <1>6, <1>7

LEMMA LastHitExists ==
  ASSUME NEW df, NEW order, Len(order) \in Nat, NEW t,
         NEW k \in 1 .. Len(order), Hits(df, order, t, k)
  PROVE  \E i \in 1 .. Len(order) : LastHit(df, order, t, i)
<1> DEFINE hits == {i \in 1 .. Len(order) : Hits(df, order, t, i)}
<1>1. hits \in SUBSET Int /\ hits # {}
  OBVIOUS
<1>2. IsFiniteSet(hits)
  <2>1. IsFiniteSet(1 .. Len(order)) /\ hits \in SUBSET (1 .. Len(order))
    BY FS_Interval
  <2> QED
    BY <2>1, FS_Subset
<1>3. PICK i \in hits : \A l \in hits : l <= i
  <2> HIDE DEF hits
  <2> QED BY <1>1, <1>2, LargestExists
<1>4. \A j \in 1 .. Len(order) : i < j => j \notin hits
  BY <1>3
<1> QED
  BY <1>3, <1>4 DEF LastHit

(* value is the level of a segment of df that covers t and that no other   *)
(* such comes after; or no segment of df covers t.                         *)
IsLastLevel(value, df, t, cols) ==
  LET covering == {s \in df : Covers(s, t)} IN
  \/ value = NaN /\ covering = {}
  \/ \E l \in covering : /\ value = Level(l, t)
                         /\ \A r \in covering : AtMost(r, l, cols)

(* The value at t is that level (_interp_segments after sort_values).      *)
LEMMA InterpValue ==
  ASSUME NEW S, IsFiniteSet(S), NEW df \in SUBSET S, NEW cols,
         NEW order \in Orders(S, cols), NEW idx, NEW t \in idx
  PROVE  IsLastLevel(InterpSegments(df, order, idx)[t], df, t, cols)
<1> USE DEF IsLastLevel
<1> DEFINE value == InterpSegments(df, order, idx)[t]
           covering == {s \in df : Covers(s, t)}
           top == Len(order)
<1>1. order \in SetToSeqs(S) /\ \A i, j \in DOMAIN order : i < j => AtMost(order[i], order[j], cols)
  BY DEF Orders
<1>2. /\ top \in Nat /\ DOMAIN order = 1 .. top
      /\ \A s \in S : \E i \in 1 .. top : order[i] = s
  BY <1>1, OrderHasAll
<1>3. \A s \in covering : \E i \in 1 .. top : order[i] = s /\ Hits(df, order, t, i)
  BY <1>2 DEF Hits
<1>4. CASE covering = {}
  <2>1. \A i \in 1 .. top : ~Hits(df, order, t, i)
    BY <1>4 DEF Hits
  <2> QED
    BY <1>2, <1>4, <2>1, InterpNone
<1>5. CASE covering # {}
  <2>1. PICK m \in 1 .. top : LastHit(df, order, t, m)
    BY <1>2, <1>3, <1>5, LastHitExists
  <2>2. value = Level(order[m], t)
    <3>1. Len(order) \in Nat
      BY <1>2
    <3> QED
      BY <2>1, <3>1, InterpLast
  <2>3. order[m] \in covering
    BY <2>1 DEF LastHit, Hits
  <2>4. ASSUME NEW r \in covering
        PROVE  AtMost(r, order[m], cols)
    <3>1. PICK j \in 1 .. top : order[j] = r /\ Hits(df, order, t, j)
      BY <1>3
    <3>2. ~(m < j)
      BY <2>1, <3>1 DEF LastHit
    <3>3. CASE j = m
      BY <3>1, <3>3 DEF AtMost
    <3>4. CASE j # m
      <4>1. j < m
        BY <1>2, <2>2, <3>2, <3>4
      <4> QED
        BY <1>1, <1>2, <2>2, <3>1, <4>1
    <3> QED
      BY <3>3, <3>4
  <2> QED
    BY <2>2, <2>3, <2>4
<1> QED
  BY <1>4, <1>5

(* The columns order the plans, acceptances and limits as they supersede   *)
(* one another.                                                            *)
LEMMA OrderIsNoLater ==
  ASSUME NEW r, NEW s
  PROVE  /\ r.from \in Int /\ s.from \in Int /\ AtMost(r, s, PlanOrder) => Begun(r, s)
         /\ r.from \in Int /\ s.from \in Int /\ AtMost(r, s, AcceptanceOrder) => Newer(r, s)
         /\ r.from \in Int /\ s.from \in Int /\ AtMost(r, s, LimitOrder) => Revised(r, s)
<1>1. ASSUME r.from \in Int, s.from \in Int, AtMost(r, s, PlanOrder)
      PROVE  Begun(r, s)
  <2>1. DOMAIN PlanOrder = {1} /\ PlanOrder[1] = "from"
    BY DEF PlanOrder
  <2> QED
    BY <1>1, <2>1 DEF AtMost, Begun
<1>2. ASSUME NEW a, NEW cols, cols = <<a, "from">>, AtMost(r, s, cols), r.from \in Int, s.from \in Int
      PROVE  r[a] < s[a] \/ (r[a] = s[a] /\ r.from <= s.from)
  <2>1. DOMAIN cols = {1, 2} /\ cols[1] = a /\ cols[2] = "from"
    BY <1>2
  <2>2. 1 \in 1 .. 2 - 1
    OBVIOUS
  <2> QED
    BY <1>2, <2>1, <2>2 DEF AtMost
<1> QED
  BY <1>1, <1>2 DEF AcceptanceOrder, LimitOrder, Newer, Revised

-----------------------------------------------------------------------------
(* Values.                                                                 *)
Segments == Plans \cup Acceptances \cup Limits

LEMMA SegmentIsInt ==
  ASSUME NEW s \in Segments, NEW t \in Nat
  PROVE  /\ s.from \in Nat /\ s.to \in Nat /\ s.level \in Int /\ s.levelTo \in Int
         /\ s.from < s.to /\ Scale % (s.to - s.from) = 0
         /\ Level(s, t) \in Int /\ Level(s, t) # NaN
<1>1. /\ s.from \in Nat /\ s.to \in Nat /\ s.level \in Int /\ s.levelTo \in Int
      /\ s.from < s.to /\ Scale % (s.to - s.from) = 0
  BY SegmentsAssumption DEF Segments
<1>2. Scale \in Nat
  BY GridAssumption
<1>3. Level(s, t) \in Int
  <2> DEFINE rise == Scale * (s.levelTo - s.level) * (t - s.from)
  <2>1. Scale * s.level \in Int /\ Scale * (s.levelTo - s.level) \in Int
    BY <1>1, <1>2
  <2>2. rise \in Int
    BY <1>1, <2>1
  <2>3. s.to - s.from \in Nat \ {0}
    BY <1>1
  <2> HIDE DEF rise
  <2>4. rise \div (s.to - s.from) \in Int
    BY <2>2, <2>3
  <2> QED
    BY <2>1, <2>4 DEF Level, rise
<1> QED
  BY <1>1, <1>3, NaNAssumption

LEMMA Distribute ==
  ASSUME NEW d \in Nat \ {0}, NEW k \in Int
  PROVE  (d * k) \div d = k
OBVIOUS

(* The image of a finite set is finite.                                    *)
LEMMA FieldFinite ==
  ASSUME NEW S, IsFiniteSet(S), NEW f
  PROVE  IsFiniteSet({s[f] : s \in S})
<1> DEFINE T == {s[f] : s \in S}
           g == [s \in S |-> s[f]]
<1>1. g \in Surjection(S, T)
  BY DEF Surjection
<1> HIDE DEF g, T
<1>2. IsFiniteSet(T)
  BY <1>1, FS_Surjection
<1> QED
  BY <1>2 DEF T

(* Every level lies between the lowest and the highest.                    *)
LEMMA BetweenEnds ==
  ASSUME NEW l \in Segments
  PROVE  /\ Min(Ends) \in Int /\ Max(Ends) \in Int
         /\ Min(Ends) <= l.level /\ l.level <= Max(Ends)
         /\ Min(Ends) <= l.levelTo /\ l.levelTo <= Max(Ends)
<1> DEFINE L == {s.level : s \in Segments}
           M == {s.levelTo : s \in Segments}
<1>1. L \in SUBSET Int /\ M \in SUBSET Int /\ l.level \in L /\ l.levelTo \in M
  BY SegmentIsInt, 0 \in Nat
<1>2. IsFiniteSet(L) /\ IsFiniteSet(M)
  <2>1. IsFiniteSet(Segments)
    BY SegmentsAssumption DEF Segments
  <2> QED
    BY <2>1, FieldFinite
<1>3. Ends = L \cup M
  BY DEF Ends, Segments
<1>4. IsFiniteSet(Ends)
  BY <1>2, <1>3, FS_Union
<1> HIDE DEF L, M
<1>5. Ends \in SUBSET Int /\ l.level \in Ends /\ l.levelTo \in Ends
  BY <1>1, <1>3
<1>6. PICK m \in Ends : \A k \in Ends : k <= m
  BY <1>4, <1>5, LargestExists
<1>7. PICK n \in Ends : \A k \in Ends : n <= k
  BY <1>4, <1>5, SmallestExists
<1>8. \A k \in Ends : m >= k
  BY <1>5, <1>6
<1>9. Max(Ends) \in Ends /\ \A k \in Ends : Max(Ends) >= k
  BY <1>8 DEF Max
<1>10. Min(Ends) \in Ends /\ \A k \in Ends : Min(Ends) <= k
  BY <1>7 DEF Min
<1> QED
  BY <1>5, <1>9, <1>10

LEMMA Times ==
  ASSUME NEW n \in Nat, NEW u \in Int, NEW v \in Int, u <= v
  PROVE  u * n \in Int /\ v * n \in Int /\ u * n <= v * n
<1>1. v - u \in Nat /\ (v - u) * n \in Nat
  OBVIOUS
<1>2. (v - u) * n = v * n - u * n
  OBVIOUS
<1> QED
  BY <1>1, <1>2

LEMMA EndsInOrder ==
  ASSUME Segments # {}
  PROVE  /\ Scale * Min(Ends) \in Int /\ Scale * Max(Ends) \in Int
         /\ Scale * Min(Ends) <= Scale * Max(Ends)
<1>1. PICK l \in Segments : TRUE
  OBVIOUS
<1>2. l.level \in Int
  BY <1>1, SegmentIsInt, 0 \in Nat
<1>3. Min(Ends) \in Int /\ Max(Ends) \in Int /\ Min(Ends) <= Max(Ends)
  BY <1>1, <1>2, BetweenEnds
<1>4. /\ Min(Ends) * Scale \in Int /\ Max(Ends) * Scale \in Int
      /\ Min(Ends) * Scale <= Max(Ends) * Scale
  BY <1>3, GridAssumption, Times
<1>5. Min(Ends) * Scale = Scale * Min(Ends) /\ Max(Ends) * Scale = Scale * Max(Ends)
  BY <1>3, GridAssumption
<1> QED
  BY <1>4, <1>5

(* On a segment the level stays between those of its ends.                 *)
LEMMA LevelInRange ==
  ASSUME NEW s \in Segments, NEW t \in Nat, Covers(s, t)
  PROVE  Level(s, t) \in Levels
<1> DEFINE d == s.to - s.from
           x == t - s.from
           y == s.to - t
           q == Scale \div d
           a == s.level
           b == s.levelTo
           low == Min(Ends)
           top == Max(Ends)
<1>1. /\ d \in Nat \ {0} /\ x \in Nat /\ y \in Nat /\ x + y = d
      /\ a \in Int /\ b \in Int /\ Scale \in Nat /\ Scale % d = 0
  BY SegmentIsInt, GridAssumption DEF Covers
<1>2. low \in Int /\ top \in Int /\ low <= a /\ a <= top /\ low <= b /\ b <= top
  BY BetweenEnds
<1>3. Level(s, t) = Scale * a + (Scale * (b - a) * x) \div d
  BY DEF Level
<1>0. Levels = Scale * low .. Scale * top
  BY DEF Levels
<1> HIDE DEF d, x, y, q, a, b, low, top
<1>4. Scale = d * q /\ q \in Nat
  <2>1. Scale = d * (Scale \div d) + (Scale % d) /\ Scale \div d \in Nat
    BY <1>1, Quotient
  <2>2. d * (Scale \div d) \in Nat
    BY <1>1, <2>1
  <2> QED
    BY <1>1, <2>1, <2>2 DEF q
<1> DEFINE k == q * (b - a) * x
           rise == Scale * (b - a) * x
           c == a * y + b * x
<1>5. k \in Int /\ rise = d * k
  BY <1>1, <1>4
<1>6. rise \div d = k
  <2> HIDE DEF k, rise
  <2> QED
    BY <1>1, <1>5, Distribute
<1>7. Level(s, t) = c * q
  <2>1. Scale * a = q * (a * x + a * y)
    BY <1>1, <1>4
  <2>2. k = q * (b * x - a * x)
    BY <1>1, <1>4
  <2>3. a * x \in Int /\ a * y \in Int /\ b * x \in Int
    BY <1>1
  <2> HIDE DEF k
  <2>4. q * (a * x + a * y) + q * (b * x - a * x) = (a * y + b * x) * q
    BY <1>4, <2>3
  <2> QED
    BY <1>3, <1>6, <2>1, <2>2, <2>4
<1>8. /\ low * y <= a * y /\ a * y <= top * y /\ low * x <= b * x /\ b * x <= top * x
      /\ {low * y, a * y, top * y, low * x, b * x, top * x} \subseteq Int
  BY <1>1, <1>2, Times
<1>9. low * y + low * x = low * d /\ top * y + top * x = top * d
  BY <1>1, <1>2
<1>10. c \in Int /\ low * d <= c /\ c <= top * d /\ low * d \in Int /\ top * d \in Int
  BY <1>8, <1>9
<1> HIDE DEF c
<1>11. /\ (low * d) * q <= c * q /\ c * q <= (top * d) * q
       /\ (low * d) * q \in Int /\ c * q \in Int /\ (top * d) * q \in Int
  BY <1>4, <1>10, Times
<1>12. (low * d) * q = Scale * low /\ (top * d) * q = Scale * top
  BY <1>1, <1>2, <1>4
<1> QED
  BY <1>0, <1>7, <1>11, <1>12

-----------------------------------------------------------------------------
(* What has been read is what the tables hold, at every step of the grid   *)
(* at which nothing has been stored after its table was read.              *)
At(table, t) == {s \in table : Covers(s, t)}

ReadIsTables ==
  \A t \in Grid(window) \ missed :
    /\ at \in {"boalf", "mels", "write"} => At(read.pn, t) = At(pn, t)
    /\ at \in {"mels", "write"} => At(read.boa, t) = At(boalf, t)
    /\ at = "write" => At(read.mel, t) = At(mels, t)

SeriesTypes ==
  /\ pn \subseteq Plans /\ boalf \subseteq Acceptances /\ mels \subseteq Limits
  /\ at \in {"idle", "units", "pn", "boalf", "mels", "write"}
  /\ window \in Windows
  /\ read \in [pn : SUBSET Plans, boa : SUBSET Acceptances, mel : SUBSET Limits]
  /\ stores \in 0 .. MaxStores
  /\ missed \subseteq Steps(Segments)

RowType(row) ==
  /\ {row.pn, row.boa, row.mel} \subseteq Levels \cup {NaN}
  /\ {row.up, row.down} \subseteq Flows \cup {NaN}
  /\ row.soDown \in Flows
  /\ {row.pn, row.boa} # {NaN}

(* The segments that hold at a step of the grid touch the window, so they  *)
(* are read (_fetch_pn, _fetch_boalf and _fetch_mels).                     *)
LEMMA ReadCovers ==
  ASSUME NEW table \in SUBSET Segments, NEW w \in Windows, NEW t \in Grid(w)
  PROVE  At({r \in table : Touches(r, w)}, t) = At(table, t)
<1>1. w.start \in Nat /\ w.end \in Nat /\ FloorStart(w.start) \in Nat
  BY WindowsAssumption, FloorOnGrid
<1>2. t \in Nat /\ FloorStart(w.start) <= t /\ t < w.end
  BY <1>1 DEF Grid
<1>3. ASSUME NEW s \in table, Covers(s, t)
      PROVE  Touches(s, w)
  <2>1. s.from \in Nat /\ s.to \in Nat
    BY <1>2, SegmentIsInt
  <2> QED
    BY <1>1, <1>2, <1>3, <2>1 DEF Covers, Touches
<1> QED
  BY <1>3 DEF At

(* A step of the grid that no changed segment covers is as before.         *)
LEMMA OthersStay ==
  ASSUME NEW before \in SUBSET Segments, NEW after \in SUBSET Segments,
         NEW w \in Windows, NEW t \in Grid(w),
         t \notin Steps((before \ after) \cup (after \ before))
  PROVE  At(before, t) = At(after, t)
<1> DEFINE changed == (before \ after) \cup (after \ before)
<1>1. t \in Nat /\ t % Freq = 0
  BY GridIsShared
<1>2. ASSUME NEW s \in changed
      PROVE  ~Covers(s, t)
  <2>1. s \in Segments
    OBVIOUS
  <2>2. s.from \in Int /\ s.to \in Int
    BY <1>1, <2>1, SegmentIsInt
  <2> HIDE DEF changed
  <2>3. \A r \in changed : t \notin r.from .. r.to - 1
    BY <1>1 DEF Steps, changed
  <2>4. t \notin s.from .. s.to - 1
    BY <1>2, <2>3
  <2> QED
    BY <1>1, <2>2, <2>4 DEF Covers
<1> QED
  BY <1>2 DEF At

LEMMA Finite ==
  ASSUME NEW S \in SUBSET Segments
  PROVE  IsFiniteSet(S)
BY SegmentsAssumption, FS_Subset DEF Segments

(* A series is a level or no value everywhere on the grid.                 *)
LEMMA ValueInLevels ==
  ASSUME NEW S \in SUBSET Segments, NEW df \in SUBSET S, NEW cols,
         NEW order \in Orders(S, cols), NEW idx \in SUBSET Nat, NEW t \in idx
  PROVE  LET value == InterpSegments(df, order, idx)[t] IN
         /\ value # NaN => Segments # {} /\ value \in Levels
         /\ (\E s \in df : Covers(s, t)) => value # NaN
<1> DEFINE value == InterpSegments(df, order, idx)[t]
           covering == {s \in df : Covers(s, t)}
<1>1. \/ value = NaN /\ covering = {}
      \/ \E l \in covering : value = Level(l, t)
  <2>1. IsFiniteSet(S)
    BY Finite
  <2>2. IsLastLevel(value, df, t, cols)
    BY <2>1, InterpValue
  <2> QED
    BY <2>2 DEF IsLastLevel
<1>2. t \in Nat
  OBVIOUS
<1>3. CASE value = NaN /\ covering = {}
  BY <1>3
<1>4. ASSUME NEW l \in covering, value = Level(l, t)
      PROVE  value # NaN /\ Segments # {} /\ value \in Levels
  <2>1. l \in Segments /\ Covers(l, t)
    OBVIOUS
  <2> QED
    BY <1>2, <1>4, <2>1, SegmentIsInt, LevelInRange
<1> QED
  BY <1>1, <1>3, <1>4

(* Of a plan, an acceptance and a limit that are levels or no value comes  *)
(* a row of levels and flows, none of the flows negative.                  *)
LEMMA RowOfLevels ==
  ASSUME NEW low \in Int, NEW top \in Int, low <= top, NEW p, NEW b, NEW bso, NEW m,
         {p, b, bso, m} \subseteq (low .. top) \cup {NaN}
  PROVE  LET row == Row(p, b, bso, m) IN
         /\ {row.pn, row.boa, row.mel} \subseteq (low .. top) \cup {NaN}
         /\ {row.up, row.down} \subseteq (0 .. top - low) \cup {NaN}
         /\ row.soDown \in 0 .. top - low
<1> DEFINE V == (low .. top) \cup {NaN}
           W == (0 .. top - low) \cup {NaN}
<1>0. NaN \notin Int /\ 0 \in 0 .. top - low
  BY NaNAssumption
<1>1. ASSUME NEW v \in V, NEW limit \in V
      PROVE  Cap(v, limit) \in V
  BY <1>0 DEF Cap
<1>2. ASSUME NEW v \in V, NEW u \in V
      PROVE  AtLeastZero(Minus(v, u)) \in W
  <2>1. CASE NaN \in {v, u}
    BY <2>1 DEF Minus, AtLeastZero
  <2>2. CASE NaN \notin {v, u}
    <3>1. v \in low .. top /\ u \in low .. top
      BY <2>2
    <3>2. Minus(v, u) = v - u /\ v - u \in Int
      BY <2>2, <3>1 DEF Minus
    <3>3. AtLeastZero(v - u) = IF v - u < 0 THEN 0 ELSE v - u
      BY <1>0, <3>2 DEF AtLeastZero
    <3> QED
      BY <3>1, <3>2, <3>3
  <2> QED
    BY <2>1, <2>2
<1> DEFINE plan == Cap(p, m)
           boaLevel == IF b # NaN THEN Cap(b, m) ELSE plan
           so == AtLeastZero(Minus(plan, Cap(bso, m)))
           row == Row(p, b, bso, m)
<1>3. plan \in V /\ boaLevel \in V /\ Cap(bso, m) \in V /\ m \in V
  BY <1>1
<1> HIDE DEF plan
<1>4. so \in W
  BY <1>2, <1>3
<1>5. AtLeastZero(Minus(boaLevel, plan)) \in W /\ AtLeastZero(Minus(plan, boaLevel)) \in W
  BY <1>2, <1>3
<1> HIDE DEF boaLevel, so
<1>6. row = [pn |-> plan, boa |-> boaLevel, mel |-> m,
             up |-> AtLeastZero(Minus(boaLevel, plan)),
             down |-> AtLeastZero(Minus(plan, boaLevel)),
             soDown |-> IF so = NaN THEN 0 ELSE so]
  BY DEF Row, plan, boaLevel, so
<1> HIDE DEF row
<1> QED
  BY <1>0, <1>3, <1>4, <1>5, <1>6 DEF row

-----------------------------------------------------------------------------
(* What one call writes.                                                   *)
LEMMA KeptRows ==
  ASSUME NEW rows
  PROVE  /\ \A t \in DOMAIN Kept(rows) :
              /\ t \in DOMAIN rows /\ Kept(rows)[t] = rows[t]
              /\ rows[t].pn # NaN \/ rows[t].boa # NaN
         /\ \A t \in DOMAIN rows :
              rows[t].pn # NaN \/ rows[t].boa # NaN => t \in DOMAIN Kept(rows)
BY DEF Kept

Data == [pn : SUBSET Plans, boa : SUBSET Acceptances, mel : SUBSET Limits]

(* The four series at one instant, and the row made of them.               *)
LEMMA SeriesValues ==
  ASSUME NEW data \in Data, NEW w \in Windows,
         NEW plans \in Orders(data.pn, PlanOrder), NEW accs \in Orders(data.boa, AcceptanceOrder),
         NEW lims \in Orders(data.mel, LimitOrder), NEW t \in Grid(w)
  PROVE  LET p == InterpSegments(data.pn, plans, Grid(w))[t]
             b == InterpSegments(data.boa, accs, Grid(w))[t]
             bso == InterpSegments(SoFlagged(data.boa), accs, Grid(w))[t]
             m == InterpSegments(data.mel, lims, Grid(w))[t]
         IN
         /\ Series(data, plans, accs, lims, Grid(w))[t] = Row(p, b, bso, m)
         /\ IsLastLevel(p, data.pn, t, PlanOrder)
         /\ IsLastLevel(b, data.boa, t, AcceptanceOrder)
         /\ IsLastLevel(bso, SoFlagged(data.boa), t, AcceptanceOrder)
         /\ IsLastLevel(m, data.mel, t, LimitOrder)
         /\ \A v \in {p, b, bso, m} :
              v # NaN => Segments # {} /\ v \in Levels
         /\ (\E s \in data.pn : Covers(s, t)) => p # NaN
         /\ (\E s \in data.boa : Covers(s, t)) => b # NaN
<1>1. /\ data.pn \in SUBSET Segments /\ data.boa \in SUBSET Segments
      /\ data.mel \in SUBSET Segments /\ SoFlagged(data.boa) \in SUBSET data.boa
  BY DEF Data, Segments, SoFlagged
<1>2. IsFiniteSet(data.pn) /\ IsFiniteSet(data.boa) /\ IsFiniteSet(data.mel)
  BY <1>1, Finite
<1>3. Grid(w) \in SUBSET Nat
  BY GridIsShared
<1> DEFINE idx == Grid(w)
           p == InterpSegments(data.pn, plans, idx)[t]
           b == InterpSegments(data.boa, accs, idx)[t]
           bso == InterpSegments(SoFlagged(data.boa), accs, idx)[t]
           m == InterpSegments(data.mel, lims, idx)[t]
<1>4. Series(data, plans, accs, lims, idx)[t] = Row(p, b, bso, m)
  BY DEF Series
<1> HIDE DEF idx
<1>5. t \in idx /\ idx \in SUBSET Nat
  BY <1>3 DEF idx
<1>6. IsLastLevel(p, data.pn, t, PlanOrder)
  BY <1>2, <1>5, InterpValue
<1>7. IsLastLevel(b, data.boa, t, AcceptanceOrder)
  BY <1>2, <1>5, InterpValue
<1>8. IsLastLevel(bso, SoFlagged(data.boa), t, AcceptanceOrder)
  BY <1>1, <1>2, <1>5, InterpValue
<1>9. IsLastLevel(m, data.mel, t, LimitOrder)
  BY <1>2, <1>5, InterpValue
<1>10. /\ p # NaN => Segments # {} /\ p \in Levels
       /\ (\E s \in data.pn : Covers(s, t)) => p # NaN
  BY <1>1, <1>5, ValueInLevels
<1>11. /\ b # NaN => Segments # {} /\ b \in Levels
       /\ (\E s \in data.boa : Covers(s, t)) => b # NaN
  BY <1>1, <1>5, ValueInLevels
<1>12. bso # NaN => Segments # {} /\ bso \in Levels
  BY <1>1, <1>5, ValueInLevels
<1>13. m # NaN => Segments # {} /\ m \in Levels
  BY <1>1, <1>5, ValueInLevels
<1> HIDE DEF p, b, bso, m
<1>14. \A v \in {p, b, bso, m} : v # NaN => Segments # {} /\ v \in Levels
  BY <1>10, <1>11, <1>12, <1>13
<1> QED
  BY <1>4, <1>6, <1>7, <1>8, <1>9, <1>10, <1>11, <1>14 DEF idx, p, b, bso, m

(* Every row that is written is well typed.                                *)
LEMMA RowTyped ==
  ASSUME NEW data \in Data, NEW w \in Windows,
         NEW plans \in Orders(data.pn, PlanOrder), NEW accs \in Orders(data.boa, AcceptanceOrder),
         NEW lims \in Orders(data.mel, LimitOrder),
         NEW t \in DOMAIN Kept(Series(data, plans, accs, lims, Grid(w)))
  PROVE  RowType(Kept(Series(data, plans, accs, lims, Grid(w)))[t])
<1> DEFINE rows == Series(data, plans, accs, lims, Grid(w))
           row == rows[t]
<1>1. t \in DOMAIN rows /\ Kept(rows)[t] = row /\ (row.pn # NaN \/ row.boa # NaN)
  BY KeptRows
<1>2. t \in Grid(w)
  BY <1>1 DEF Series
<1> DEFINE p == InterpSegments(data.pn, plans, Grid(w))[t]
           b == InterpSegments(data.boa, accs, Grid(w))[t]
           bso == InterpSegments(SoFlagged(data.boa), accs, Grid(w))[t]
           m == InterpSegments(data.mel, lims, Grid(w))[t]
<1>3. /\ row = Row(p, b, bso, m)
      /\ \A v \in {p, b, bso, m} : v # NaN => Segments # {} /\ v \in Levels
  BY <1>2, SeriesValues
<1> HIDE DEF row, rows, p, b, bso, m
<1>4. p # NaN \/ b # NaN
  <2>1. SUFFICES ASSUME p = NaN, b = NaN PROVE FALSE
    OBVIOUS
  <2>2. Cap(NaN, m) = NaN
    BY DEF Cap
  <2>3. row.pn = NaN /\ row.boa = NaN
    BY <1>3, <2>1, <2>2 DEF Row
  <2> QED
    BY <1>1, <2>3
<1> DEFINE low == Scale * Min(Ends)
           top == Scale * Max(Ends)
<1>5. low \in Int /\ top \in Int /\ low <= top
  BY <1>3, <1>4, EndsInOrder
<1>6. Levels = low .. top /\ Flows = 0 .. top - low
  BY DEF Levels, Flows
<1>7. {p, b, bso, m} \subseteq (low .. top) \cup {NaN}
  BY <1>3, <1>6
<1> HIDE DEF low, top
<1>8. /\ {row.pn, row.boa, row.mel} \subseteq (low .. top) \cup {NaN}
      /\ {row.up, row.down} \subseteq (0 .. top - low) \cup {NaN}
      /\ row.soDown \in 0 .. top - low
  BY <1>3, <1>5, <1>7, RowOfLevels
<1> QED
  BY <1>1, <1>6, <1>8 DEF RowType, rows

(* By the order of its columns, the last level is the one in force.        *)
LEMMA LastIsInForce ==
  ASSUME NEW df \in SUBSET Segments, NEW t, NEW v
  PROVE  /\ IsLastLevel(v, df, t, PlanOrder) => v \in InForce(df, t, Begun)
         /\ IsLastLevel(v, df, t, AcceptanceOrder) => v \in InForce(df, t, Newer)
         /\ IsLastLevel(v, df, t, LimitOrder) => v \in InForce(df, t, Revised)
<1>1. \A s \in df : s.from \in Int
  BY SegmentIsInt, 0 \in Nat
<1>2. \A r, l \in df : /\ AtMost(r, l, PlanOrder) => Begun(r, l)
                       /\ AtMost(r, l, AcceptanceOrder) => Newer(r, l)
                       /\ AtMost(r, l, LimitOrder) => Revised(r, l)
  BY <1>1, OrderIsNoLater
<1>3. ASSUME IsLastLevel(v, df, t, PlanOrder) PROVE v \in InForce(df, t, Begun)
  BY <1>2, <1>3 DEF IsLastLevel, InForce
<1>4. ASSUME IsLastLevel(v, df, t, AcceptanceOrder) PROVE v \in InForce(df, t, Newer)
  BY <1>2, <1>4 DEF IsLastLevel, InForce
<1>5. ASSUME IsLastLevel(v, df, t, LimitOrder) PROVE v \in InForce(df, t, Revised)
  BY <1>2, <1>5 DEF IsLastLevel, InForce
<1> QED
  BY <1>3, <1>4, <1>5


(* Where an acceptance of the operator's is in force, it is the last of    *)
(* the operator's as well: both series have its level.                     *)
LEMMA SoIsAll ==
  ASSUME NEW S \in SUBSET Segments, NEW accs \in Orders(S, AcceptanceOrder),
         NEW idx \in SUBSET Nat, NEW t \in idx,
         \A s \in S : Covers(s, t) /\ ~s.so =>
           \E r \in S : Covers(r, t) /\ r.so /\ ~Newer(r, s)
  PROVE  InterpSegments(S, accs, idx)[t] = InterpSegments(SoFlagged(S), accs, idx)[t]
<1> DEFINE top == Len(accs)
           So == SoFlagged(S)
<1>0. IsFiniteSet(S)
  BY Finite
<1>1. accs \in SetToSeqs(S) /\ \A i, j \in DOMAIN accs : i < j => AtMost(accs[i], accs[j], AcceptanceOrder)
  BY DEF Orders
<1>2. /\ top \in Nat /\ DOMAIN accs = 1 .. top
      /\ \A i \in 1 .. top : accs[i] \in S
      /\ \A s \in S : \E i \in 1 .. top : accs[i] = s
  BY <1>0, <1>1, OrderHasAll
<1>3. \A i : Hits(So, accs, t, i) <=> Hits(S, accs, t, i) /\ accs[i].so
  BY DEF Hits, SoFlagged
<1>4. CASE \A i \in 1 .. top : ~Hits(S, accs, t, i)
  <2>1. \A i \in 1 .. top : ~Hits(So, accs, t, i)
    BY <1>3, <1>4
  <2>2. InterpSegments(S, accs, idx)[t] = NaN
    BY <1>2, <1>4, InterpNone
  <2>3. InterpSegments(So, accs, idx)[t] = NaN
    BY <1>2, <2>1, InterpNone
  <2> QED
    BY <2>2, <2>3
<1>5. CASE \E i \in 1 .. top : Hits(S, accs, t, i)
  <2>1. PICK m \in 1 .. top : LastHit(S, accs, t, m)
    BY <1>2, <1>5, LastHitExists
  <2>2. m \in 1 .. top /\ accs[m] \in S /\ Covers(accs[m], t)
    BY <2>1 DEF LastHit, Hits
  <2>3. accs[m].so
    <3>1. SUFFICES ASSUME ~accs[m].so PROVE FALSE
      OBVIOUS
    <3>2. PICK r \in S : Covers(r, t) /\ r.so /\ ~Newer(r, accs[m])
      BY <2>2, <3>1
    <3>3. PICK j \in 1 .. top : accs[j] = r
      BY <1>2
    <3>4. ~(m < j)
      BY <2>1, <3>2, <3>3 DEF LastHit, Hits
    <3>5. j # m
      BY <3>1, <3>2, <3>3
    <3>6. j < m
      BY <1>2, <2>2, <3>4, <3>5
    <3>7. AtMost(r, accs[m], AcceptanceOrder)
      BY <1>1, <1>2, <2>2, <3>3, <3>6
    <3>8. r.from \in Int /\ accs[m].from \in Int
      <4>1. r \in Segments /\ accs[m] \in Segments
        BY <2>2
      <4>2. \A s \in Segments : s.from \in Int
        BY SegmentsAssumption DEF Segments
      <4> HIDE DEF Segments
      <4> QED
        BY <4>1, <4>2
    <3> QED
      BY <3>2, <3>7, <3>8, OrderIsNoLater
  <2>4. LastHit(So, accs, t, m)
    BY <1>3, <2>1, <2>3 DEF LastHit
  <2>5. InterpSegments(S, accs, idx)[t] = Level(accs[m], t)
    <3>1. Len(accs) \in Nat
      BY <1>2
    <3> QED
      BY <2>1, <3>1, InterpLast
  <2>6. InterpSegments(So, accs, idx)[t] = Level(accs[m], t)
    <3>1. Len(accs) \in Nat
      BY <1>2
    <3> QED
      BY <2>4, <3>1, InterpLast
  <2> QED
    BY <2>5, <2>6
<1> QED
  BY <1>4, <1>5

(* Of equal series come equal curtailments.                                *)
LEMMA SoOfAll ==
  ASSUME NEW p, NEW b, NEW m, {p, b, m} \subseteq Levels \cup {NaN}, Segments # {}
  PROVE  LET row == Row(p, b, b, m) IN row.down = NaN \/ row.soDown <= row.down
<1> DEFINE plan == Cap(p, m)
           boaLevel == IF b # NaN THEN Cap(b, m) ELSE plan
           so == AtLeastZero(Minus(plan, Cap(b, m)))
           down == AtLeastZero(Minus(plan, boaLevel))
           row == Row(p, b, b, m)
<1>1. row.down = down /\ row.soDown = IF so = NaN THEN 0 ELSE so
  BY DEF Row
<1>2. row.down \in Nat \cup {NaN}
  <2> DEFINE low == Scale * Min(Ends)
             top == Scale * Max(Ends)
  <2>1. low \in Int /\ top \in Int /\ low <= top /\ Levels = low .. top
    BY EndsInOrder DEF Levels
  <2> HIDE DEF low, top, row
  <2>2. {p, b, b, m} \subseteq (low .. top) \cup {NaN}
    BY <2>1
  <2>3. row.down \in (0 .. top - low) \cup {NaN}
    BY <2>1, <2>2, RowOfLevels DEF row
  <2> QED
    BY <2>1, <2>3
<1>3. CASE b # NaN
  <2>1. down = so
    BY <1>3
  <2>2. CASE down = NaN
    BY <1>1, <2>2
  <2>3. CASE down # NaN
    <3>1. row.soDown = row.down /\ row.down \in Nat
      BY <1>1, <1>2, <2>1, <2>3
    <3> QED
      BY <3>1
  <2> QED
    BY <2>2, <2>3
<1>4. CASE b = NaN
  <2>1. so = NaN
    <3>1. Cap(b, m) = NaN
      BY <1>4 DEF Cap
    <3>2. Minus(plan, NaN) = NaN
      BY DEF Minus
    <3> QED
      BY <3>1, <3>2 DEF AtLeastZero
  <2>2. row.soDown = 0
    BY <1>1, <2>1
  <2> QED
    BY <1>2, <2>2
<1> QED
  BY <1>3, <1>4

-----------------------------------------------------------------------------
(* The invariant: types, what has been read, and rows that are well typed. *)
RowsTyped == \A t \in DOMAIN written : RowType(written[t])

SeriesInv == SeriesTypes /\ ReadIsTables /\ RowsTyped

(* An upsert leaves segments that were published.                          *)
LEMMA UpsertedIsSubset ==
  ASSUME NEW S, NEW table \in SUBSET S, NEW s \in S, NEW key
  PROVE  Upserted(table, s, key) \in SUBSET S
BY DEF Upserted

(* A tick's upsert disturbs what a call has read only at the steps it      *)
(* changes (StorePlan, StoreAcceptance and StoreLimit).                    *)
LEMMA StoreInductive ==
  ASSUME SeriesInv, StorePlan \/ StoreAcceptance \/ StoreLimit
  PROVE  SeriesInv'
<1> USE DEF SeriesInv
<1> DEFINE Changed(before, after) == Steps((before \ after) \cup (after \ before))
<1>1. /\ pn' \subseteq Plans /\ boalf' \subseteq Acceptances /\ mels' \subseteq Limits
      /\ stores' \in 0 .. MaxStores
  <2>1. CASE StorePlan
    BY <2>1, UpsertedIsSubset, BoundAssumption DEF StorePlan, Stored, SeriesTypes
  <2>2. CASE StoreAcceptance
    BY <2>2, UpsertedIsSubset, BoundAssumption DEF StoreAcceptance, Stored, SeriesTypes
  <2>3. CASE StoreLimit
    BY <2>3, UpsertedIsSubset, BoundAssumption DEF StoreLimit, Stored, SeriesTypes
  <2> QED
    BY <2>1, <2>2, <2>3
<1>2. UNCHANGED <<at, window, read, written>>
  BY DEF StorePlan, StoreAcceptance, StoreLimit, Stored
<1>3. at \in {"boalf", "mels", "write"} /\ pn' # pn => missed' = missed \cup Changed(pn, pn')
  BY DEF StorePlan, StoreAcceptance, StoreLimit, Stored
<1>4. at \in {"mels", "write"} /\ boalf' # boalf => missed' = missed \cup Changed(boalf, boalf')
  BY DEF StorePlan, StoreAcceptance, StoreLimit, Stored
<1>5. at = "write" /\ mels' # mels => missed' = missed \cup Changed(mels, mels')
  BY DEF StorePlan, StoreAcceptance, StoreLimit, Stored
<1>6. \/ missed' = missed
      \/ missed' = missed \cup Changed(pn, pn')
      \/ missed' = missed \cup Changed(boalf, boalf')
      \/ missed' = missed \cup Changed(mels, mels')
  BY DEF StorePlan, StoreAcceptance, StoreLimit, Stored
<1>7. /\ pn \in SUBSET Segments /\ boalf \in SUBSET Segments /\ mels \in SUBSET Segments
      /\ pn' \in SUBSET Segments /\ boalf' \in SUBSET Segments /\ mels' \in SUBSET Segments
      /\ window \in Windows
  BY <1>1 DEF SeriesTypes, Segments
<1>8. missed \subseteq missed' /\ missed' \subseteq Steps(Segments)
  <2>1. \A before, after \in SUBSET Segments : Changed(before, after) \subseteq Steps(Segments)
    BY DEF Steps
  <2> HIDE DEF Changed
  <2> QED
    BY <1>6, <1>7, <2>1 DEF SeriesTypes
<1>9. \A before, after \in SUBSET Segments : \A t \in Grid(window) :
        t \notin Changed(before, after) => At(before, t) = At(after, t)
  BY <1>7, OthersStay
<1> HIDE DEF Changed
<1>10. ASSUME NEW t \in Grid(window) \ missed'
       PROVE  /\ at \in {"boalf", "mels", "write"} => At(read.pn, t) = At(pn', t)
              /\ at \in {"mels", "write"} => At(read.boa, t) = At(boalf', t)
              /\ at = "write" => At(read.mel, t) = At(mels', t)
  <2>1. t \in Grid(window) \ missed
    BY <1>8
  <2>2. at \in {"boalf", "mels", "write"} => At(read.pn, t) = At(pn', t)
    BY <1>3, <1>7, <1>9, <2>1 DEF ReadIsTables
  <2>3. at \in {"mels", "write"} => At(read.boa, t) = At(boalf', t)
    BY <1>4, <1>7, <1>9, <2>1 DEF ReadIsTables
  <2>4. at = "write" => At(read.mel, t) = At(mels', t)
    BY <1>5, <1>7, <1>9, <2>1 DEF ReadIsTables
  <2> QED
    BY <2>2, <2>3, <2>4
<1>11. ReadIsTables'
  BY <1>2, <1>10 DEF ReadIsTables
<1> QED
  BY <1>1, <1>2, <1>8, <1>11 DEF SeriesTypes, RowsTyped

LEMMA SeriesInductive == ASSUME SeriesInv, [Next]_vars PROVE SeriesInv'
<1> USE DEF SeriesInv
<1>1. CASE UNCHANGED vars
  BY <1>1 DEF vars, tables, SeriesTypes, ReadIsTables, RowsTyped
<1>2. CASE StorePlan \/ StoreAcceptance \/ StoreLimit
  BY <1>2, StoreInductive
<1>3. CASE Begin
  BY <1>3 DEF Begin, tables, NothingRead, NoRows, SeriesTypes, ReadIsTables, RowsTyped
<1>4. CASE ActiveBmus
  BY <1>4 DEF ActiveBmus, tables, SeriesTypes, ReadIsTables, RowsTyped
<1> DEFINE Read(table) == {s \in table : Touches(s, window)}
<1>5. \A t \in Grid(window) :
        At(Read(pn), t) = At(pn, t) /\ At(Read(boalf), t) = At(boalf, t) /\ At(Read(mels), t) = At(mels, t)
  <2>1. /\ window \in Windows
        /\ pn \in SUBSET Segments /\ boalf \in SUBSET Segments /\ mels \in SUBSET Segments
    BY DEF SeriesTypes, Segments
  <2> QED
    BY <2>1, ReadCovers
<1> HIDE DEF Read
<1>6. CASE FetchPn \/ FetchBoalf \/ FetchMels
  <2>1. /\ UNCHANGED <<pn, boalf, mels, window, written, stores, missed>>
        /\ \/ at' = "boalf" /\ read' = [read EXCEPT !.pn = Read(pn)]
           \/ at = "boalf" /\ at' = "mels" /\ read' = [read EXCEPT !.boa = Read(boalf)]
           \/ at = "mels" /\ at' = "write" /\ read' = [read EXCEPT !.mel = Read(mels)]
    BY <1>6 DEF FetchPn, FetchBoalf, FetchMels, tables, Read
  <2>2. Read(pn) \subseteq Plans /\ Read(boalf) \subseteq Acceptances /\ Read(mels) \subseteq Limits
    BY DEF Read, SeriesTypes
  <2>3. SeriesTypes'
    BY <2>1, <2>2 DEF SeriesTypes
  <2>4. RowsTyped'
    BY <2>1 DEF RowsTyped
  <2>5. CASE at' = "boalf" /\ read' = [read EXCEPT !.pn = Read(pn)]
    <3>1. read'.pn = Read(pn)
      BY <2>5 DEF SeriesTypes
    <3>2. ReadIsTables'
      BY <1>5, <2>1, <2>5, <3>1 DEF ReadIsTables
    <3> QED
      BY <2>3, <2>4, <3>2
  <2>6. CASE at = "boalf" /\ at' = "mels" /\ read' = [read EXCEPT !.boa = Read(boalf)]
    <3>1. read'.pn = read.pn /\ read'.boa = Read(boalf)
      BY <2>6 DEF SeriesTypes
    <3>2. ReadIsTables'
      BY <1>5, <2>1, <2>6, <3>1 DEF ReadIsTables
    <3> QED
      BY <2>3, <2>4, <3>2
  <2>7. CASE at = "mels" /\ at' = "write" /\ read' = [read EXCEPT !.mel = Read(mels)]
    <3>1. read'.pn = read.pn /\ read'.boa = read.boa /\ read'.mel = Read(mels)
      BY <2>7 DEF SeriesTypes
    <3>2. ReadIsTables'
      BY <1>5, <2>1, <2>7, <3>1 DEF ReadIsTables
    <3> QED
      BY <2>3, <2>4, <3>2
  <2> QED
    BY <2>1, <2>5, <2>6, <2>7
<1>8. CASE Write
  <2>1. PICK plans \in Orders(read.pn, PlanOrder), accs \in Orders(read.boa, AcceptanceOrder),
             lims \in Orders(read.mel, LimitOrder) :
          written' = Kept(Series(read, plans, accs, lims, Grid(window)))
    BY <1>8 DEF Write
  <2>2. read \in Data /\ window \in Windows
    BY DEF SeriesTypes, Data
  <2>3. \A t \in DOMAIN written' : RowType(written'[t])
    BY <2>1, <2>2, RowTyped
  <2>4. RowsTyped'
    BY <2>3 DEF RowsTyped, RowType, Levels
  <2> QED
    BY <1>8, <2>4 DEF Write, tables, SeriesTypes, ReadIsTables
<1> QED
  BY <1>1, <1>2, <1>3, <1>4, <1>6, <1>8 DEF Next, Call

LEMMA SeriesInvariance == Spec => []SeriesInv
<1>1. Init => SeriesInv
  BY BoundAssumption DEF Init, NothingRead, NoRows, SeriesInv, SeriesTypes, ReadIsTables, RowsTyped
<1>2. SeriesInv /\ [Next]_vars => SeriesInv'
  BY SeriesInductive
<1> QED
  BY <1>1, <1>2, PTL DEF Spec

(* Types: no level or limit that is written is outside the published ones, *)
(* no flow is negative, and a row has a plan or an accepted level          *)
(* (bmu_dispatch, and the dropna of _rows_for_units).                      *)
THEOREM TypeTheorem == Spec => []TypeOK
<1>1. SeriesInv => TypeOK
  BY DEF SeriesInv, SeriesTypes, RowsTyped, RowType, TypeOK, Segments
<1> QED
  BY <1>1, SeriesInvariance, PTL

(* The row of an instant at which the call has missed nothing.             *)
LEMMA SeenRow ==
  ASSUME SeriesInv, at = "write",
         NEW plans \in Orders(read.pn, PlanOrder), NEW accs \in Orders(read.boa, AcceptanceOrder),
         NEW lims \in Orders(read.mel, LimitOrder), NEW t \in Grid(window) \ missed
  PROVE  /\ IsDefined(Series(read, plans, accs, lims, Grid(window))[t], t)
         /\ (\E s \in pn \cup boalf : Covers(s, t)) =>
              t \in DOMAIN Kept(Series(read, plans, accs, lims, Grid(window)))
<1>1. /\ read \in Data /\ window \in Windows
      /\ pn \in SUBSET Segments /\ boalf \in SUBSET Segments /\ mels \in SUBSET Segments
  BY DEF SeriesInv, SeriesTypes, Data, Segments
<1> DEFINE On(table) == {s \in table : Covers(s, t)}
<1>2. On(read.pn) = On(pn) /\ On(read.boa) = On(boalf) /\ On(read.mel) = On(mels)
  BY DEF SeriesInv, ReadIsTables, At
<1>3. On(SoFlagged(read.boa)) = On(SoFlagged(boalf)) /\ SoFlagged(boalf) \in SUBSET Segments
  <2>1. On(SoFlagged(read.boa)) = {s \in On(read.boa) : s.so}
    BY DEF SoFlagged
  <2>2. On(SoFlagged(boalf)) = {s \in On(boalf) : s.so}
    BY DEF SoFlagged
  <2> QED
    BY <1>1, <1>2, <2>1, <2>2 DEF SoFlagged
<1> DEFINE p == InterpSegments(read.pn, plans, Grid(window))[t]
           b == InterpSegments(read.boa, accs, Grid(window))[t]
           bso == InterpSegments(SoFlagged(read.boa), accs, Grid(window))[t]
           m == InterpSegments(read.mel, lims, Grid(window))[t]
           rows == Series(read, plans, accs, lims, Grid(window))
<1>4. /\ rows[t] = Row(p, b, bso, m)
      /\ IsLastLevel(p, read.pn, t, PlanOrder)
      /\ IsLastLevel(b, read.boa, t, AcceptanceOrder)
      /\ IsLastLevel(bso, SoFlagged(read.boa), t, AcceptanceOrder)
      /\ IsLastLevel(m, read.mel, t, LimitOrder)
      /\ (\E s \in read.pn : Covers(s, t)) => p # NaN
      /\ (\E s \in read.boa : Covers(s, t)) => b # NaN
  BY <1>1, SeriesValues
<1>5. t \in DOMAIN rows
  BY DEF Series
<1> HIDE DEF p, b, bso, m, rows
<1>6. /\ IsLastLevel(p, pn, t, PlanOrder)
      /\ IsLastLevel(b, boalf, t, AcceptanceOrder)
      /\ IsLastLevel(bso, SoFlagged(boalf), t, AcceptanceOrder)
      /\ IsLastLevel(m, mels, t, LimitOrder)
  BY <1>2, <1>3, <1>4 DEF IsLastLevel
<1>7. /\ p \in InForce(pn, t, Begun)
      /\ b \in InForce(boalf, t, Newer)
      /\ bso \in InForce(SoFlagged(boalf), t, Newer)
      /\ m \in InForce(mels, t, Revised)
  BY <1>1, <1>3, <1>6, LastIsInForce
<1>8. IsDefined(rows[t], t)
  BY <1>4, <1>7 DEF IsDefined
<1>9. ASSUME NEW s \in pn \cup boalf, Covers(s, t)
       PROVE  t \in DOMAIN Kept(rows)
  <2>1. p # NaN \/ b # NaN
    BY <1>2, <1>4, <1>9
  <2>2. (p # NaN => Cap(p, m) # NaN) /\ (b # NaN => Cap(b, m) # NaN)
    BY DEF Cap
  <2>3. rows[t].pn # NaN \/ rows[t].boa # NaN
    BY <1>4, <2>1, <2>2 DEF Row
  <2> QED
    BY <1>5, <2>3, KeptRows
<1> QED
  BY <1>8, <1>9 DEF rows

(* An instant of the window that is a multiple of the step is on the grid. *)
LEMMA OnGrid ==
  ASSUME NEW w \in Windows, NEW t \in w.start .. w.end - 1, t % Freq = 0
  PROVE  t \in Grid(w)
<1>1. Freq \in Nat \ {0} /\ w.start \in Nat /\ w.end \in Nat /\ t \in Nat /\ w.start <= t
  BY GridAssumption, WindowsAssumption
<1> DEFINE f == FloorStart(w.start)
           q == w.start \div Freq
           k == t \div Freq
<1>2. f = Freq * q /\ f \in Nat /\ q \in Nat /\ f <= w.start
  BY <1>1, FloorOnGrid
<1>3. t = Freq * k + (t % Freq) /\ k \in Nat
  BY <1>1, Quotient
<1> HIDE DEF f, q, k
<1>4. t = Freq * k
  BY <1>1, <1>3
<1>5. f <= t
  BY <1>1, <1>2
<1>6. k - q \in Nat
  <2>1. CASE q <= k
    BY <1>2, <1>3, <2>1
  <2>2. CASE ~(q <= k)
    <3>1. q = k + 1 + (q - k - 1) /\ q - k - 1 \in Nat
      BY <1>2, <1>3, <2>2
    <3>2. Freq * q = Freq * k + Freq + Freq * (q - k - 1) /\ Freq * (q - k - 1) \in Nat
      BY <1>1, <1>2, <1>3, <3>1
    <3> QED
      BY <1>1, <1>2, <1>4, <1>5, <3>2
  <2> QED
    BY <2>1, <2>2
<1>7. t - f = Freq * (k - q)
  BY <1>1, <1>2, <1>3, <1>4
<1>8. (t - f) % Freq = 0
  BY <1>1, <1>6, <1>7, Multiple
<1> QED
  BY <1>1, <1>2, <1>5, <1>8 DEF Grid, f

(* What a call writes is what all stored segments define, in every window: *)
(* the statements of analytics.py read every segment that holds at a step  *)
(* of the grid, and the stamping leaves the one that supersedes the others *)
(* (_interp_segments after sort_values).                                   *)
THEOREM RowsAreDefinedTheorem == Spec => RowsAreDefined
<1> DEFINE Defined == /\ \A t \in DOMAIN written' \ missed : IsDefined(written'[t], t)
                      /\ \A t \in (window.start .. window.end - 1) \ missed :
                           t % Freq = 0 /\ (\E s \in pn \cup boalf : Covers(s, t))
                             => t \in DOMAIN written'
<1>1. SeriesInv /\ [Next]_vars => [at = "write" /\ at' = "idle" => Defined]_vars
  <2> SUFFICES ASSUME SeriesInv, Next, at = "write", at' = "idle"
               PROVE  Defined
    OBVIOUS
  <2>1. Write
    BY DEF Next, Call, StorePlan, StoreAcceptance, StoreLimit, Stored, Begin, ActiveBmus,
       FetchPn, FetchBoalf, FetchMels
  <2>2. PICK plans \in Orders(read.pn, PlanOrder), accs \in Orders(read.boa, AcceptanceOrder),
             lims \in Orders(read.mel, LimitOrder) :
          written' = Kept(Series(read, plans, accs, lims, Grid(window)))
    BY <2>1 DEF Write
  <2> DEFINE rows == Series(read, plans, accs, lims, Grid(window))
  <2>3. DOMAIN rows = Grid(window)
    BY DEF Series
  <2>4. \A t \in DOMAIN Kept(rows) : t \in Grid(window) /\ Kept(rows)[t] = rows[t]
    BY <2>3, KeptRows
  <2>5. \A t \in Grid(window) \ missed :
          /\ IsDefined(rows[t], t)
          /\ (\E s \in pn \cup boalf : Covers(s, t)) => t \in DOMAIN Kept(rows)
    BY SeenRow
  <2>6. window \in Windows
    BY DEF SeriesInv, SeriesTypes
  <2> HIDE DEF rows
  <2>7. written' = Kept(rows)
    BY <2>2 DEF rows
  <2>8. \A t \in DOMAIN written' \ missed : IsDefined(written'[t], t)
    BY <2>4, <2>5, <2>7
  <2>9. \A t \in (window.start .. window.end - 1) \ missed :
          t % Freq = 0 /\ (\E s \in pn \cup boalf : Covers(s, t)) => t \in DOMAIN written'
    BY <2>5, <2>6, <2>7, OnGrid
  <2> QED
    BY <2>8, <2>9
<1> QED
  BY <1>1, SeriesInvariance, PTL DEF Spec, RowsAreDefined

(* Curtailment for the system operator is part of all curtailment where an *)
(* acceptance of the operator's is in force (bmu_dispatch).                *)
THEOREM SoWithinTotalTheorem == Spec => SoWithinTotal
<1> DEFINE OfOperator(t) == \A s \in read.boa : Covers(s, t) /\ ~s.so =>
                              \E r \in read.boa : Covers(r, t) /\ r.so /\ ~Newer(r, s)
           Within(t) == \/ written'[t].down = NaN
                        \/ written'[t].soDown <= written'[t].down
<1>1. SeriesInv /\ [Next]_vars
        => [at = "write" /\ at' = "idle" => \A t \in DOMAIN written' : OfOperator(t) => Within(t)]_vars
  <2> SUFFICES ASSUME SeriesInv, Next, at = "write", at' = "idle",
                      NEW t \in DOMAIN written', OfOperator(t)
               PROVE  Within(t)
    OBVIOUS
  <2>1. Write
    BY DEF Next, Call, StorePlan, StoreAcceptance, StoreLimit, Stored, Begin, ActiveBmus,
       FetchPn, FetchBoalf, FetchMels
  <2>2. PICK plans \in Orders(read.pn, PlanOrder), accs \in Orders(read.boa, AcceptanceOrder),
             lims \in Orders(read.mel, LimitOrder) :
          written' = Kept(Series(read, plans, accs, lims, Grid(window)))
    BY <2>1 DEF Write
  <2>3. read \in Data /\ read.boa \in SUBSET Segments /\ window \in Windows
    BY DEF SeriesInv, SeriesTypes, Data, Segments
  <2> DEFINE idx == Grid(window)
             rows == Series(read, plans, accs, lims, idx)
             p == InterpSegments(read.pn, plans, idx)[t]
             b == InterpSegments(read.boa, accs, idx)[t]
             bso == InterpSegments(SoFlagged(read.boa), accs, idx)[t]
             m == InterpSegments(read.mel, lims, idx)[t]
  <2>4. /\ t \in DOMAIN rows /\ written'[t] = rows[t]
        /\ rows[t].pn # NaN \/ rows[t].boa # NaN
    BY <2>2, KeptRows
  <2>5. t \in idx /\ idx \in SUBSET Nat
    BY <2>3, <2>4, GridIsShared DEF Series
  <2>6. /\ rows[t] = Row(p, b, bso, m)
        /\ \A v \in {p, b, bso, m} : v # NaN => Segments # {} /\ v \in Levels
    BY <2>3, <2>5, SeriesValues
  <2>7. b = bso
    BY <2>3, <2>5, SoIsAll
  <2> HIDE DEF idx, rows, p, b, bso, m
  <2>8. p # NaN \/ b # NaN
    <3>1. Cap(NaN, m) = NaN
      BY DEF Cap
    <3>2. p = NaN /\ b = NaN => rows[t].pn = NaN /\ rows[t].boa = NaN
      BY <2>6, <3>1 DEF Row
    <3> QED
      BY <2>4, <3>2
  <2>9. Segments # {} /\ {p, b, m} \subseteq Levels \cup {NaN}
    BY <2>6, <2>8
  <2> QED
    BY <2>4, <2>6, <2>7, <2>9, SoOfAll
<1> QED
  BY <1>1, SeriesInvariance, PTL DEF Spec, SoWithinTotal
=============================================================================
