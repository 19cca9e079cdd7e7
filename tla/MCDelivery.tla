----------------------------- MODULE MCDelivery -----------------------------
(* Instances of Delivery for TLC. *)
EXTENDS Delivery, TLC

CONSTANTS c1, c2, c3, m, s1, s2

Direct1(to) == [kind |-> "direct", pri |-> "now", to |-> to]
Held(to) == [kind |-> "direct", pri |-> "next", to |-> to]
Multicast(to) == [kind |-> "multicast", pri |-> "now", to |-> to]
Topic(to) == [kind |-> "topic", pri |-> "now", to |-> to]

\* One message to the member's key, which any of its connections may drain.
ToMember == c1 :> Direct1(Peer)
\* One message to the mesh.
OneMulticast == c1 :> Multicast(Peer)
\* A message held while the session works, a multicast and a topic post.
Medley == c1 :> Held({s1}) @@ c2 :> Multicast(Peer) @@ c3 :> Topic({s1})

Rows == Permutations(Row)
=============================================================================
