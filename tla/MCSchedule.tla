----------------------------- MODULE MCSchedule -----------------------------
(* Instances of Schedule for TLC. *)
EXTENDS Schedule, TLC

CONSTANTS p1, p2, p3, p4, a, b

\* A member's presence and a stranger's before the first restart, the member's next
\* presence and a stranger's after it.
Members == p1 :> a @@ p2 :> b @@ p3 :> a @@ p4 :> b
Boots == p1 :> 0 @@ p2 :> 0 @@ p3 :> 1 @@ p4 :> 2
=============================================================================
