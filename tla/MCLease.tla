------------------------------ MODULE MCLease ------------------------------
(* Instances of Lease for TLC. *)
EXTENDS Lease, TLC

CONSTANTS c1, c2, k1, k2, sid1, sid2, m1, m2

Daemon == [role |-> "control-plane", key |-> None, sid |-> sid2, member |-> m1]
Session(k, i) == [role |-> "session", key |-> k, sid |-> i, member |-> m1]

\* One session's reconnect loop.
OneSession == c1 :> Session(k1, sid1)
\* One daemon's member-level reconnect loop.
OneDaemon == c1 :> Daemon

Slots == Permutations(Sock) \cup Permutations(Pres)
=============================================================================
