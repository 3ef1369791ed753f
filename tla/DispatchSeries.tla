---------------------------- MODULE DispatchSeries ----------------------------
(***************************************************************************)
(* One call of materialize_dispatch for one BMU (materialize.py and        *)
(* analytics.py): PN, BOALF and MELS are read by separate statements while *)
(* their ticks write them, laid on a time grid segment by segment, capped, *)
(* and turned into the rows that are upserted into bmu_dispatch.           *)
(*                                                                         *)
(* Time is counted in ticks of the segments' ends, of which Freq make one  *)
(* step of the grid.  Levels are multiplied by Scale, so that every value  *)
(* on a ramp is a whole number.                                            *)
(***************************************************************************)
EXTENDS Integers, FiniteSets, SequencesExt

CONSTANTS
  Plans,        \* the segments the feeds may publish: PN: [from, to, level, levelTo],
  Acceptances,  \* BOALF: the same and [id, accepted, so]; a missing acceptance_time
                \* is sorted last: an accepted later than any other,
  Limits,       \* MELS: the same and [sequence]
  Windows,      \* the [start, end] a call may be given
  Freq,         \* ticks per step of the grid (5 minutes)
  Scale,        \* a multiple of every segment's length
  NaN,          \* no value
  MaxStores     \* bound: segments stored while the model runs

ASSUME GridAssumption == Freq \in Nat \ {0} /\ Scale \in Nat \ {0}
ASSUME NaNAssumption == NaN \notin Int
ASSUME BoundAssumption == MaxStores \in Nat
ASSUME SegmentsAssumption ==
  /\ IsFiniteSet(Plans \cup Acceptances \cup Limits)
  /\ \A s \in Plans \cup Acceptances \cup Limits :
       /\ {s.from, s.to} \subseteq Nat /\ s.from < s.to
       /\ {s.level, s.levelTo} \subseteq Int   \* export; below 0, import
       /\ Scale % (s.to - s.from) = 0
ASSUME WindowsAssumption ==
  \A w \in Windows : w.start \in Nat /\ w.end \in Nat /\ w.start < w.end

VARIABLES
  pn, boalf, mels,  \* the tables
  at,        \* where the call is: "idle", "units", "pn", "boalf", "mels" or "write"
  window,    \* its start and end
  read,      \* what it has read: [pn, boa, mel]
  written,   \* the rows the last call has upserted: a function on their ts
  stores,    \* how many segments have been stored
  missed     \* history: the steps of the grid at which a segment has been stored
             \* or replaced after the call read its table

tables == <<pn, boalf, mels>>
vars == <<tables, at, window, read, written, stores, missed>>

NothingRead == [pn |-> {}, boa |-> {}, mel |-> {}]
NoRows == [t \in {} |-> NaN]

Init ==
  /\ pn = {} /\ boalf = {} /\ mels = {}
  /\ at = "idle"
  /\ window \in Windows
  /\ read = NothingRead
  /\ written = NoRows
  /\ stores = 0
  /\ missed = {}

-----------------------------------------------------------------------------
(* The ticks: upserts by the conflict key of each table.                   *)
Upserted(table, s, key) == {r \in table : \E col \in key : r[col] # s[col]} \cup {s}

PlanKey == {"from"}
AcceptanceKey == {"id", "from"}
LimitKey == {"from", "sequence"}

Steps(segments) == {t \in UNION {s.from .. s.to - 1 : s \in segments} : t % Freq = 0}

\* The table is `after` instead of `before`; alreadyRead: the call has read it.
Stored(before, after, alreadyRead) ==
  /\ stores < MaxStores
  /\ stores' = stores + 1
  /\ missed' = IF alreadyRead
               THEN missed \cup Steps((before \ after) \cup (after \ before))
               ELSE missed
  /\ UNCHANGED <<at, window, read, written>>

StorePlan ==
  /\ \E s \in Plans \ pn : pn' = Upserted(pn, s, PlanKey)
  /\ Stored(pn, pn', at \in {"boalf", "mels", "write"})
  /\ UNCHANGED <<boalf, mels>>

StoreAcceptance ==
  /\ \E s \in Acceptances \ boalf : boalf' = Upserted(boalf, s, AcceptanceKey)
  /\ Stored(boalf, boalf', at \in {"mels", "write"})
  /\ UNCHANGED <<pn, mels>>

StoreLimit ==
  /\ \E s \in Limits \ mels : mels' = Upserted(mels, s, LimitKey)
  /\ Stored(mels, mels', at = "write")
  /\ UNCHANGED <<pn, boalf>>

-----------------------------------------------------------------------------
(* Laying segments on the grid.                                            *)
Covers(s, t) == s.from <= t /\ t < s.to

\* v_from + (v_to - v_from) * frac
Level(s, t) ==
  Scale * s.level + (Scale * (s.levelTo - s.level) * (t - s.from)) \div (s.to - s.from)

\* Mutant: the start is not floored.
FloorStartNot(start) == start

FloorStart(start) == start - (start % Freq)

\* pd.date_range(start, end, freq, inclusive="left")
Grid(w) == {t \in FloorStart(w.start) .. w.end - 1 : (t - FloorStart(w.start)) % Freq = 0}

\* Mutant: only the segments that begin in the window are read.
TouchesFrom(s, w) == FloorStart(w.start) <= s.from /\ s.from < w.end

\* time_to >= start AND time_from < end, from the floored start
Touches(s, w) == FloorStart(w.start) <= s.to /\ s.from < w.end

PlanOrder == <<"from">>

\* Mutant: order_cols are left at their default.
AcceptanceOrderDefault == <<"from">>

AcceptanceOrder == <<"accepted", "from">>
LimitOrder == <<"sequence", "from">>

\* r does not come after s when sorted by the columns cols.
AtMost(r, s, cols) ==
  \/ \A i \in DOMAIN cols : r[cols[i]] = s[cols[i]]
  \/ \E i \in DOMAIN cols :
       /\ r[cols[i]] < s[cols[i]]
       /\ \A j \in 1 .. i - 1 : r[cols[j]] = s[cols[j]]

\* The orders sort_values may give: equal keys stay as the database had them.
Orders(segments, cols) ==
  {q \in SetToSeqs(segments) : \A i, j \in DOMAIN q : i < j => AtMost(q[i], q[j], cols)}

\* out.iloc[np.where(mask)] = vals
Stamp(out, s) == [t \in DOMAIN out |-> IF Covers(s, t) THEN Level(s, t) ELSE out[t]]

(* _interp_segments: the segments of df are stamped one by one, in the     *)
(* order they have in `order` (the sort is stable).                        *)
InterpSegments(df, order, idx) ==
  LET out[n \in 0 .. Len(order)] ==
        IF n = 0 THEN [t \in idx |-> NaN]
        ELSE IF order[n] \in df THEN Stamp(out[n - 1], order[n])
        ELSE out[n - 1]
  IN out[Len(order)]

(* The series, point by point.                                             *)
Cap(v, limit) == IF NaN \notin {v, limit} /\ limit < v THEN limit ELSE v
Minus(v, u) == IF NaN \in {v, u} THEN NaN ELSE v - u

\* Mutant: clip(lower=0) is left out.
AtLeastZeroNot(v) == v

AtLeastZero(v) == IF v # NaN /\ v < 0 THEN 0 ELSE v

\* The row of one point: p, b, bso and m are the raw series there.
Row(p, b, bso, m) ==
  LET plan == Cap(p, m)
      boaLevel == IF b # NaN THEN Cap(b, m) ELSE plan
      soDown == AtLeastZero(Minus(plan, Cap(bso, m)))
  IN [pn |-> plan, boa |-> boaLevel, mel |-> m,
      up |-> AtLeastZero(Minus(boaLevel, plan)),
      down |-> AtLeastZero(Minus(plan, boaLevel)),
      soDown |-> IF soDown = NaN THEN 0 ELSE soDown]

\* boa_u[boa_u["so_flag"] == True]
SoFlagged(boa) == {s \in boa : s.so}

\* The data frame over idx, for what was read and the orders it came in.
Series(data, plans, accs, lims, idx) ==
  LET pnRaw == InterpSegments(data.pn, plans, idx)
      boaAll == InterpSegments(data.boa, accs, idx)
      boaSo == InterpSegments(SoFlagged(data.boa), accs, idx)
      mel == InterpSegments(data.mel, lims, idx)
  IN [t \in idx |-> Row(pnRaw[t], boaAll[t], boaSo[t], mel[t])]

\* dropna(subset=["pn_mw", "boa_level_mw"], how="all")
Kept(rows) ==
  LET kept == {t \in DOMAIN rows : rows[t].pn # NaN \/ rows[t].boa # NaN}
  IN [t \in kept |-> rows[t]]

-----------------------------------------------------------------------------
(* The call, for the BMUs it is given (--bmu) or for all that are active.  *)
Begin ==
  /\ at = "idle"
  /\ at' \in {"units", "pn"}
  /\ window' \in Windows
  /\ read' = NothingRead
  /\ written' = NoRows
  /\ UNCHANGED <<tables, stores, missed>>

\* _active_bmus: the BMU has a plan in the window, from the start as given.
IsActive(w) == \E s \in pn : w.start <= s.to /\ s.from < w.end

ActiveBmus ==
  /\ at = "units"
  /\ at' = IF IsActive(window) THEN "pn" ELSE "idle"
  /\ UNCHANGED <<tables, window, read, written, stores, missed>>

FetchPn ==
  /\ at = "pn"
  /\ at' = "boalf"
  /\ read' = [read EXCEPT !.pn = {s \in pn : Touches(s, window)}]
  /\ UNCHANGED <<tables, window, written, stores, missed>>

FetchBoalf ==
  /\ at = "boalf"
  /\ at' = "mels"
  /\ read' = [read EXCEPT !.boa = {s \in boalf : Touches(s, window)}]
  /\ UNCHANGED <<tables, window, written, stores, missed>>

FetchMels ==
  /\ at = "mels"
  /\ at' = "write"
  /\ read' = [read EXCEPT !.mel = {s \in mels : Touches(s, window)}]
  /\ UNCHANGED <<tables, window, written, stores, missed>>

Write ==
  /\ at = "write"
  /\ at' = "idle"
  /\ \E plans \in Orders(read.pn, PlanOrder), accs \in Orders(read.boa, AcceptanceOrder),
        lims \in Orders(read.mel, LimitOrder) :
       written' = Kept(Series(read, plans, accs, lims, Grid(window)))
  /\ missed' = {}
  /\ UNCHANGED <<tables, window, read, stores>>

Call == Begin \/ ActiveBmus \/ FetchPn \/ FetchBoalf \/ FetchMels \/ Write

Next == StorePlan \/ StoreAcceptance \/ StoreLimit \/ Call

Spec == Init /\ [][Next]_vars

-----------------------------------------------------------------------------
(* Types: levels stay between the lowest and the highest published one, a  *)
(* flow is not negative and no more than their distance, a row has some    *)
(* level, and what the system operator has curtailed is always a number.   *)
Ends ==
  LET segments == Plans \cup Acceptances \cup Limits
  IN {s.level : s \in segments} \cup {s.levelTo : s \in segments}

Levels == Scale * Min(Ends) .. Scale * Max(Ends)
Flows == 0 .. Scale * Max(Ends) - Scale * Min(Ends)

TypeOK ==
  /\ pn \subseteq Plans /\ boalf \subseteq Acceptances /\ mels \subseteq Limits
  /\ at \in {"idle", "units", "pn", "boalf", "mels", "write"}
  /\ window \in Windows
  /\ read.pn \subseteq Plans /\ read.boa \subseteq Acceptances /\ read.mel \subseteq Limits
  /\ \A t \in DOMAIN written :
       /\ {written[t].pn, written[t].boa, written[t].mel} \subseteq Levels \cup {NaN}
       /\ {written[t].up, written[t].down} \subseteq Flows \cup {NaN}
       /\ written[t].soDown \in Flows
       /\ {written[t].pn, written[t].boa} # {NaN}
  /\ stores \in 0 .. MaxStores
  /\ missed \subseteq Steps(Plans \cup Acceptances \cup Limits)

(* Every call, whatever its start, writes the same instants (analytics.py: *)
(* without the floor "each service restart shifts the offset, causing      *)
(* bmu_dispatch to accumulate duplicate rows").                            *)
RowsOnGrid == \A t \in DOMAIN written : t % Freq = 0

\* What holds at t: of the segments that cover it the latest, if any.
InForce(segments, t, NoLater(_, _)) ==
  LET covering == {s \in segments : Covers(s, t)}
  IN IF covering = {} THEN {NaN}
     ELSE {Level(s, t) : s \in {l \in covering : \A r \in covering : NoLater(r, l)}}

Begun(r, s) == r.from <= s.from
Newer(r, s) == r.accepted < s.accepted \/ (r.accepted = s.accepted /\ r.from <= s.from)
Revised(r, s) == r.sequence < s.sequence \/ (r.sequence = s.sequence /\ r.from <= s.from)

\* Row row of instant t is one the definitions at the top of analytics.py allow.
IsDefined(row, t) ==
  \E p \in InForce(pn, t, Begun), m \in InForce(mels, t, Revised),
     b \in InForce(boalf, t, Newer),
     bso \in InForce(SoFlagged(boalf), t, Newer) :
    row = Row(p, b, bso, m)

(* What a call writes does not depend on its window: the row of an instant *)
(* is what all the segments in the tables define there (some began before  *)
(* the window, end at its edge or are superseded by a newer acceptance),   *)
(* and an instant of the grid with a plan or an acceptance gets a row.     *)
(* The three tables are read by three statements: a call may miss a        *)
(* segment stored after its table was read, but only at the instants which *)
(* that segment covers or used to cover.  Whatever is stored meanwhile, no *)
(* other row mixes what was with what is.                                  *)
RowsAreDefined ==
  [][at = "write" /\ at' = "idle" =>
       /\ \A t \in DOMAIN written' \ missed : IsDefined(written'[t], t)
       /\ \A t \in (window.start .. window.end - 1) \ missed :
            t % Freq = 0 /\ (\E s \in pn \cup boalf : Covers(s, t))
              => t \in DOMAIN written']_vars

(* Curtailment by the system operator is part of all curtailment, as long  *)
(* as the acceptance in force is one of the operator's.  (Where a newer    *)
(* one of another kind has superseded it, it is counted on.)               *)
SoWithinTotal ==
  [][at = "write" /\ at' = "idle" =>
       \A t \in DOMAIN written' :
         (\A s \in read.boa : Covers(s, t) /\ ~s.so =>
            \E r \in read.boa : Covers(r, t) /\ r.so /\ ~Newer(r, s))
         => \/ written'[t].down = NaN
            \/ written'[t].soDown <= written'[t].down]_vars
=============================================================================
