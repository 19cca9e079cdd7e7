------------------------------ MODULE MCOutbox ------------------------------
(* Instances of Outbox for TLC. *)
EXTENDS Outbox, TLC

Ids == Permutations(Cid) \cup Permutations(FPrint)
=============================================================================
