--------------------------- MODULE MCConstraintsFeed ---------------------------
(* Three periods of two constraint groups.                                 *)
EXTENDS ConstraintsFeed

GroupRows == {"a", "b"} \X (1 .. 3)
GroupTimes == [k \in GroupRows |-> k[2]]
=============================================================================
