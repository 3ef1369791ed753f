--------------------------- MODULE MCDispatchSeries ---------------------------
(* Four ticks, a grid of two; plans, acceptances and limits of all shapes   *)
(* that matter there: crossing the window's edges, nested, ramps.           *)
EXTENDS DispatchSeries

Segment(from, to, level, levelTo) ==
  [from |-> from, to |-> to, level |-> level, levelTo |-> levelTo]

PlanSet == {Segment(0, 4, 2, 2), Segment(0, 2, 2, 2), Segment(2, 4, -1, 2)}

AcceptanceShapes == {<<0, 4>>, <<1, 3>>, <<2, 4>>}
AcceptanceLevels == << <<1, 3>>, <<0, -1>> >>
AcceptanceSet ==
  {[from |-> i[1], to |-> i[2],
    level |-> AcceptanceLevels[a][1], levelTo |-> AcceptanceLevels[a][2],
    id |-> a, accepted |-> a, so |-> f] :
     i \in AcceptanceShapes, a \in {1, 2}, f \in BOOLEAN}

LimitSet ==
  {[from |-> 0, to |-> 4, level |-> 1, levelTo |-> 1, sequence |-> 2],
   [from |-> 1, to |-> 4, level |-> 2, levelTo |-> 0, sequence |-> 1]}

WindowSet == {[start |-> w[1], end |-> w[2]] : w \in {<<0, 4>>, <<1, 3>>, <<1, 4>>, <<2, 4>>}}
=============================================================================
