------------------------------ MODULE DailyRollup ------------------------------
(***************************************************************************)
(* From b1610 to the annual heatmap: table bmu_dispatch_daily is written   *)
(* by materialize_dispatch_daily (materialize.py), which reads not b1610   *)
(* but its daily aggregate.  The scheduler rolls the last RollReach days   *)
(* up, a command by hand any range.  Both run beside the ingest, the       *)
(* policies and midnight of module B1610Caggs.  A roll-up treats each day  *)
(* by itself, so that one day, whichever, stands for all.                  *)
(*                                                                         *)
(* One statement reads and writes, so that a roll-up is one step.  The     *)
(* columns it takes from bmu_dispatch_daily_cagg in the same statement are *)
(* left out: what a row has of either side is what that aggregate shows.   *)
(***************************************************************************)
EXTENDS B1610Caggs

CONSTANTS
  RollReach,  \* the scheduler rolls up from RollReach days ago (14)
  Day         \* the day whose row is looked at

ASSUME RollUpAssumption == RollReach \in Nat /\ RollReach < Reach /\ Day \in Days

VARIABLE
  daily  \* the revision of b1610_mwh in bmu_dispatch_daily for Day; 0: no row

dailyVars == <<vars, daily>>

DailyInit ==
  /\ Init
  /\ daily = 0

\* Mutant: the scheduler's range does not include its first day.
RollUpWindowOpen == today - RollReach + 1 .. today

\* materialize_dispatch_daily(conn, today - 14 days, today), both ends included.
RollUpWindow == today - RollReach .. today

\* Mutant: ON CONFLICT DO NOTHING keeps the row that a day has.
RolledUpOnce ==
  /\ cagg["b1610_daily_cagg"][Day] > 0
  /\ daily' = IF daily = 0 THEN cagg["b1610_daily_cagg"][Day] ELSE daily
  /\ UNCHANGED vars

(* INSERT .. SELECT: a day that the aggregate has a row for is overwritten. *)
RolledUp ==
  /\ cagg["b1610_daily_cagg"][Day] > 0
  /\ daily' = cagg["b1610_daily_cagg"][Day]
  /\ UNCHANGED vars

RollUp == Day \in RollUpWindow /\ RolledUp

\* By hand, over a range that has the day.
RollUpByHand == RolledUp

DailyNext ==
  \/ Next /\ UNCHANGED daily
  \/ RollUp \/ RollUpByHand

(* The policies are fair as in B1610Caggs; and the loop of the roll-up     *)
(* goes on, whatever happened to its last turn.                            *)
DailySpec ==
  /\ DailyInit /\ [][DailyNext]_dailyVars
  /\ \A c \in Caggs : WF_dailyVars(Policy(c) /\ UNCHANGED daily)
  /\ WF_dailyVars(RollUp)

-----------------------------------------------------------------------------
(* What is stored gets to the heatmap by itself: a day that stays within   *)
(* the reach of both the policy and the scheduler's roll-up is shown as it *)
(* is stored in the end, whatever jobs failed and whoever rolled up what   *)
(* by hand (scheduler.py: "older days keep getting refined as actuals      *)
(* trickle in").                                                           *)
HeatmapCatchesUp ==
  []<>(today - RollReach <= Day /\ Day < today - EndOffset => daily = table[Day])
=============================================================================
