-------------------------------- MODULE MCHub --------------------------------
(* Instances of Hub for TLC. *)
EXTENDS Hub, TLC

CONSTANTS p1, p2, p3, a, b, mesh1

\* Two presences of one member and one of another, in one mesh.
OneMesh == [p \in Pres |-> mesh1]
TwoMembers == p1 :> a @@ p2 :> a @@ p3 :> b

\* Each table by itself.
Tables == {[peers |-> {p1, p2}, uses |-> {"watch", "fail"}],
           [peers |-> Pres, uses |-> {"stream", "drop"}],
           [peers |-> Pres, uses |-> {"clock"}],
           [peers |-> Pres, uses |-> {"mcp", "drop", "fail"}]}
=============================================================================
