---------------------------- MODULE MCRollingIngest ----------------------------
(* Two records, an hour apart; the first of them is revised.               *)
EXTENDS RollingIngest

RecordHours == [k \in Keys |-> k - 1]
RevisionsOf == [k \in Keys |-> 3 - k]
=============================================================================
