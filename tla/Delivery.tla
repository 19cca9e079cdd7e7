------------------------------ MODULE Delivery ------------------------------
(***************************************************************************)
(* The broker's queue and one recipient daemon, joined by the pushes and   *)
(* acks between them.                                                      *)
(***************************************************************************)
EXTENDS Naturals, FiniteSets

CONSTANTS Row, Cid, Peer, Session, Letter, None, Garbled,
          Repeated, Hooked, Moody, MaxDrains, MaxFlight, Expirable, Restarts, Deletable

ASSUME DeliveryAssumption ==
  /\ Letter \in [Cid -> [kind : {"direct", "multicast", "topic"},
                       pri : {"now", "next"}, to : SUBSET Peer]]
  /\ None \notin Row \cup Cid \cup Peer
  /\ Row \cap Cid = {}
  /\ Session \subseteq Peer /\ Garbled \subseteq Cid
  /\ MaxDrains \in Nat /\ MaxFlight \in Nat
  /\ Restarts \in BOOLEAN

VARIABLES row, drains, conn, status, wire, acks,
          reading, inbox, handled, shown, deleted

vars == <<row, drains, conn, status, wire, acks,
          reading, inbox, handled, shown, deleted>>
daemonSide == <<reading, inbox, handled, shown, deleted>>
brokerSide == <<row, drains, conn, status>>

Q == INSTANCE Queue
D == INSTANCE Inbox

TypeOK == Q!QueueTypeOK /\ D!InboxTypeOK

Init == Q!QueueInit /\ D!InboxInit

\* The daemon's process ends and its connections with it.
DaemonDies ==
  /\ D!Forgets
  /\ conn' = [p \in Peer |-> IF conn[p] = "online" THEN "offline" ELSE conn[p]]
  /\ Q!CutOff(Peer)
  /\ UNCHANGED <<row, drains, status>>

\* Pushes and acks under way at once, MaxFlight at most.
Flight == Cardinality(wire) + Cardinality(reading) + Cardinality(acks)

Next == /\ \/ Q!QueueNext /\ UNCHANGED daemonSide
           \/ D!InboxNext /\ UNCHANGED brokerSide
           \/ DaemonDies
        /\ Flight' <= MaxFlight

Spec == Init /\ [][Next]_vars

OfBroker(A) == A /\ UNCHANGED daemonSide
OfDaemon(A) == A /\ UNCHANGED brokerSide

\* The broker's event loop runs and its database answers every call; claims age.
BrokerFairness ==
  /\ \A r \in Row :
       /\ WF_vars(OfBroker(Q!Enqueued(r))) /\ WF_vars(OfBroker(Q!FansOut(r)))
       /\ WF_vars(OfBroker(Q!MulticastMarked(r))) /\ WF_vars(OfBroker(Q!ClaimExpires(r)))
  /\ \A p \in Peer :
       /\ WF_vars(\E d \in Q!DrainsOf(p) : OfBroker(Q!StatusRead(d)))
       /\ \A st \in Q!Status :
            WF_vars(\E d \in Q!DrainsOf(p) : d.status = st /\ OfBroker(Q!Claims(d)))
       /\ \A r \in Row :
            WF_vars(\E d \in Q!DrainsOf(p) : r \in d.rows /\ OfBroker(Q!Pushes(d)))
  /\ WF_vars(\E a \in acks : OfBroker(Q!AckArrives(a)))

\* The daemon's event loop runs.
DaemonFairness ==
  \A c \in Cid :
    /\ WF_vars(\E u \in wire : u.cid = c /\ OfDaemon(D!Receives(u)))
    /\ WF_vars(\E u \in reading : u.cid = c /\ OfDaemon(D!Handles(u)))

FairSpec == Spec /\ BrokerFairness /\ DaemonFairness

\* Each session's hooks report it idle now and then.
LiveSpec == FairSpec /\ \A p \in Hooked : WF_vars(OfBroker(Q!Hook(p, "idle")))

-----------------------------------------------------------------------------
(* Properties.                                                             *)

Direct(c) == Letter[c].kind = "direct"

\* No session is shown a message twice, through retries by the sender, claims
\* that expire, copies on two connections and restarts of either end; unless its
\* inbox row was removed in between, or it is a multicast, whose copies have several
\* keys.
OncePerSession ==
  \A s \in Session, c \in Cid :
    shown[s][c] <= 1 \/ c \in deleted \/ Letter[c].kind = "multicast"

\* A direct message is marked delivered only if the recipient has handled it.
DeliveredWasHandled ==
  \A r \in Row : row[r].db = "delivered" /\ Direct(row[r].cid) =>
                   row[r].cid \in handled

\* Broker and daemon together are a mailbox for direct messages: owed are those of the
\* rows that wait, lapsed those of the rows the orphan sweep has deleted.
Directs == {c \in Cid : Direct(c)}
Of(db) == {c \in Directs : \E r \in Row : row[r].db = db /\ row[r].cid = c}
ShownDirects == [s \in Session |-> [c \in Directs |-> shown[s][c]]]
Abstract == INSTANCE Mailbox
  WITH Cid <- Directs, owed <- Of("waiting"), lapsed <- Of("deleted"),
       shown <- ShownDirects, handled <- handled \cap Directs, deleted <- deleted \cap Directs
ImplementsMailbox == Abstract!Spec

\* The recipients stay connected and idle from some point on.
Settled == \A p \in Peer : <>[](conn[p] = "online" /\ status[p] = "idle")

\* A direct message that was queued is handled once its recipients have settled,
\* whatever was lost before: under LiveSpec, because hooks drain the queue.
EveryMessageHandled ==
  Settled => \A r \in Row : (row[r].db = "waiting" /\ Direct(row[r].cid))
                               ~> (row[r].cid \in handled \/ row[r].db = "deleted")

\* The same message is never pushed twice, even when fan-out and the drain of a
\* hello race.
NeverTwice ==
  \A u, v \in wire \cup reading : u.row = v.row /\ u.peer = v.peer => u = v
=============================================================================
