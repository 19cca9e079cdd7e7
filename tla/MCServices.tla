------------------------------ MODULE MCServices ------------------------------
(* Instances of Services for TLC. *)
EXTENDS Services

N == [mesh |-> "a", name |-> "n"]
O == [mesh |-> "a", name |-> "o"]

\* One service is deployed; a mesh that has the other one as well is full.
Catalog == {N, O}
Deploys(d, events) == [deploys |-> 1..d, to |-> {N}, events |-> events]

\* One deploy and everything that clients do and that stops; one whose broker cannot
\* reach the database or the runner; two with an undeploy or a restart of the runner.
Failing == {"fetch fails", "statement fails"}
AnyEvent == {Deploys(1, Event \ Failing),
             Deploys(1, Failing \cup {"undeploy", "broker stops", "runner stops"}),
             Deploys(2, {"undeploy"}), Deploys(2, {"runner stops"})}
=============================================================================
