-------------------------------- MODULE Queue --------------------------------
(***************************************************************************)
(* The broker's message queue: handleSend, the drains that claim queued    *)
(* rows for a recipient and push them, and the recipients' acks.           *)
(*                                                                         *)
(* handleSend and maybePushQueuedMessages await the database between their *)
(* pieces, so a send is a row's stage and a drain is an element of drains; *)
(* anything may happen in between.  Drains of one recipient at the same    *)
(* piece with the same data are one element.                               *)
(*                                                                         *)
(* A recipient's ack matches rows by id or by client_message_id.  The      *)
(* sender's part is Outbox: an ack may be lost and the send repeated, with *)
(* the same client_message_id and a new row.                               *)
(***************************************************************************)
EXTENDS Naturals, FiniteSets

CONSTANTS
  Row,       \* message_queue rows, one per call of handleSend
  Cid,       \* client_message_ids
  Peer,      \* the recipient's connections: its daemon-WS and its session-WSs
  Letter,    \* what is sent under each client_message_id
  None,
  Repeated,  \* messages whose send may be repeated (bound)
  Hooked,    \* recipients whose hooks fire (bound)
  Moody,     \* recipients whose status may change (bound)
  Expirable, \* rows that may grow older than seven days (bound)
  MaxDrains, \* drains under way at once (bound)
  Restarts   \* may the broker restart (bound)

Status == {"idle", "busy"}  \* busy stands for working and dnd

VARIABLES
  row,    \* the table, and where the handleSend that writes the row is
  drains, \* calls of maybePushQueuedMessages
  conn,   \* connections: no lease, a lease in grace, a lease with an open socket
  status, \* presence.status of each recipient
  wire,   \* pushes on their way to a daemon
  acks    \* client_acks on their way to the broker

queueVars == <<row, drains, conn, status, wire, acks>>

Stage == {"none", "checked", "queued", "fanned", "done"}
Db == {"absent", "waiting", "delivered", "deleted"}
Push == [peer : Peer, row : Row, cid : Cid, keyed : BOOLEAN]
Ack == [peer : Peer, key : Cid \cup Row, row : Row]

QueueTypeOK ==
  /\ row \in [Row -> [stage : Stage, cid : Cid \cup {None}, db : Db, claim : BOOLEAN]]
  /\ drains \subseteq [peer : Peer, stage : {"asked", "read", "claimed"},
                       status : Status, rows : SUBSET Row, leased : BOOLEAN]
  /\ conn \in [Peer -> {"gone", "offline", "online"}]
  /\ status \in [Peer -> Status]
  /\ wire \subseteq Push
  /\ acks \subseteq Ack
  /\ \A r \in Row : /\ row[r].stage \in {"none", "checked"} => row[r].db = "absent"
                    /\ row[r].stage \in {"queued", "fanned"} => row[r].db # "absent"

QueueInit ==
  /\ row = [r \in Row |-> [stage |-> "none", cid |-> None, db |-> "absent",
                           claim |-> FALSE]]
  /\ drains = {}
  /\ conn = [p \in Peer |-> "gone"]
  /\ status = [p \in Peer |-> "idle"]
  /\ wire = {} /\ acks = {}

-----------------------------------------------------------------------------
LetterOf(r) == Letter[row[r].cid]
Online(p) == conn[p] = "online"

\* A call of maybePushQueuedMessages for each of P, before its first await.
Asked(P) == {[peer |-> p, stage |-> "asked", status |-> "idle", rows |-> {},
              leased |-> TRUE] : p \in P}

Room(P) == Cardinality(drains \cup Asked(P)) <= MaxDrains

-----------------------------------------------------------------------------
(* handleSend.                                                             *)

\* The pre-flight checks: a direct message needs a recipient in connections.
SendArrives(r, c) ==
  /\ row[r].stage = "none"
  /\ c \in Repeated \/ \A q \in Row : row[q].cid # c
  /\ Letter[c].kind = "direct" => \E p \in Letter[c].to : conn[p] # "gone"
  /\ row' = [row EXCEPT ![r].stage = "checked", ![r].cid = c]
  /\ UNCHANGED <<drains, conn, status, wire, acks>>

\* queueMessage; the sender is acked.
Enqueued(r) ==
  /\ row[r].stage = "checked"
  /\ row' = [row EXCEPT ![r].stage = "queued", ![r].db = "waiting"]
  /\ UNCHANGED <<drains, conn, status, wire, acks>>

\* The fan-out over connections, after the grants have been read.  For a direct
\* message all of the recipient member's connections are drained, leases in grace
\* included; a multicast is pushed without its client_message_id; a topic message
\* matches nobody.
FansOut(r) ==
  LET leased == {p \in Peer : conn[p] # "gone"}
  IN /\ row[r].stage = "queued"
     /\ \/ /\ LetterOf(r).kind = "direct"
           /\ Room(leased)
           /\ drains' = drains \cup Asked(leased)
           /\ row' = [row EXCEPT ![r].stage = "done"]
           /\ UNCHANGED wire
        \/ /\ LetterOf(r).kind = "multicast"
           /\ wire' = wire \cup {[peer |-> p, row |-> r, cid |-> row[r].cid,
                                  keyed |-> FALSE] : p \in {q \in LetterOf(r).to : Online(q)}}
           /\ row' = [row EXCEPT ![r].stage = "fanned"]
           /\ UNCHANGED drains
        \/ /\ LetterOf(r).kind = "topic"
           /\ row' = [row EXCEPT ![r].stage = "done"]
           /\ UNCHANGED <<wire, drains>>
     /\ UNCHANGED <<conn, status, acks>>

\* A multicast's row is marked delivered, whoever was there.
MulticastMarked(r) ==
  /\ row[r].stage = "fanned"
  /\ row' = [row EXCEPT ![r].stage = "done",
                        ![r].db = IF @ = "deleted" THEN @ ELSE "delivered"]
  /\ UNCHANGED <<drains, conn, status, wire, acks>>

-----------------------------------------------------------------------------
(* maybePushQueuedMessages.                                                *)

\* The status is read ...
StatusRead(d) ==
  /\ d \in drains /\ d.stage = "asked"
  /\ drains' = (drains \ {d}) \cup
       {[d EXCEPT !.stage = "read", !.status = status[d.peer]]}
  /\ UNCHANGED <<row, conn, status, wire, acks>>

Deliverable(r, st) == st = "idle" \/ LetterOf(r).pri = "now"

\* Mutant: a live claim does not keep others off.
EligibleClaimed(r, p, st) ==
  row[r].db = "waiting" /\ p \in LetterOf(r).to /\ Deliverable(r, st)
Eligible(r, p, st) ==
  /\ row[r].db = "waiting" /\ ~row[r].claim
  /\ p \in LetterOf(r).to /\ Deliverable(r, st)

\* Mutant: the old claim, which marked the row delivered.
ClaimDelivers(x) == [x EXCEPT !.db = "delivered"]
Claimed(x) == [x EXCEPT !.claim = TRUE]

\* ... drainForMember claims what is deliverable, in one statement ...
Claims(d) ==
  LET mine == {r \in Row : row[r].db # "absent" /\ Eligible(r, d.peer, d.status)}
  IN /\ d \in drains /\ d.stage = "read"
     /\ row' = [r \in Row |-> IF r \in mine THEN Claimed(row[r]) ELSE row[r]]
     /\ drains' = (drains \ {d}) \cup
          (IF mine = {} THEN {} ELSE {[d EXCEPT !.stage = "claimed", !.rows = mine]})
     /\ UNCHANGED <<conn, status, wire, acks>>

\* ... and the claimed rows are pushed: on the presence's socket of the moment,
\* or nowhere when that is not open or the presence is gone.
Pushes(d) ==
  /\ d \in drains /\ d.stage = "claimed"
  /\ drains' = drains \ {d}
  /\ wire' = IF d.leased /\ Online(d.peer)
             THEN wire \cup {[peer |-> d.peer, row |-> r, cid |-> row[r].cid,
                              keyed |-> TRUE] : r \in d.rows}
             ELSE wire
  /\ UNCHANGED <<row, conn, status, acks>>

-----------------------------------------------------------------------------
(* Acks and the sweepers.                                                  *)

\* Mutant: the ack is kept for rows that are yet to be inserted.
AckedEarly(a, r) == row[r].db # "deleted" /\ row[r].cid = a.key
\* markDelivered: the row by its id or its client_message_id, addressed to the
\* acking recipient or to many.
AckMatches(a, r) ==
  /\ row[r].db = "waiting"
  /\ r = a.row \/ row[r].cid = a.key
  /\ a.peer \in LetterOf(r).to \/ LetterOf(r).kind # "direct"

AckArrives(a) ==
  /\ a \in acks
  /\ acks' = acks \ {a}
  /\ row' = [r \in Row |-> IF AckMatches(a, r) THEN [row[r] EXCEPT !.db = "delivered"]
                           ELSE row[r]]
  /\ UNCHANGED <<drains, conn, status, wire>>

\* Thirty seconds have passed: the row may be claimed again.  (The sweep that
\* clears the claim's columns changes nothing for who may claim it.)
ClaimExpires(r) ==
  /\ row[r].db = "waiting" /\ row[r].claim
  /\ row' = [row EXCEPT ![r].claim = FALSE]
  /\ UNCHANGED <<drains, conn, status, wire, acks>>

\* sweepOrphanMessages.
Orphaned(r) ==
  /\ r \in Expirable /\ row[r].db = "waiting"
  /\ row' = [row EXCEPT ![r].db = "deleted"]
  /\ UNCHANGED <<drains, conn, status, wire, acks>>

-----------------------------------------------------------------------------
(* Recipients.                                                             *)

\* A hello is accepted, with a new presence, which is idle, or with one in grace
\* or restored from before a restart, which has its status: it drains.
Hello(p) ==
  /\ ~Online(p) /\ Room({p})
  /\ conn' = [conn EXCEPT ![p] = "online"]
  /\ \/ UNCHANGED status
     \/ conn[p] = "gone" /\ status' = [status EXCEPT ![p] = "idle"]
  /\ drains' = drains \cup Asked({p})
  /\ UNCHANGED <<row, wire, acks>>

\* What is on its way to or from p is lost with its socket.
CutOff(P) == /\ wire' = {u \in wire : u.peer \notin P}
             /\ acks' = {a \in acks : a.peer \notin P}

Drop(p) ==
  /\ Online(p)
  /\ conn' = [conn EXCEPT ![p] = "offline"]
  /\ CutOff({p})
  /\ UNCHANGED <<row, drains, status>>

\* The grace window ends: the presence id is gone, also for its drains.
Evict(p) ==
  /\ conn[p] = "offline"
  /\ conn' = [conn EXCEPT ![p] = "gone"]
  /\ drains' = {IF d.peer = p THEN [d EXCEPT !.leased = FALSE] ELSE d : d \in drains}
  /\ UNCHANGED <<row, status, wire, acks>>

\* Mutant: a hook updates the status and drains nothing.
HookSilent(p) == {}
HookDrains(p) == Asked({p})

\* POST /hook/set-status: the status may change, and the presence is drained.
Hook(p, st) ==
  /\ p \in Hooked /\ conn[p] # "gone" /\ Room({p})
  /\ st # status[p] => p \in Moody
  /\ status' = [status EXCEPT ![p] = st]
  /\ drains' = drains \cup HookDrains(p)
  /\ UNCHANGED <<row, conn, wire, acks>>

\* set_status, the sweep of stuck statuses and the transcript fallback change
\* the status and drain nothing.
StatusChanges(p) ==
  /\ p \in Moody /\ conn[p] # "gone"
  /\ \E st \in Status \ {status[p]} : status' = [status EXCEPT ![p] = st]
  /\ UNCHANGED <<row, drains, conn, wire, acks>>

\* The broker restarts: the table stays, everything under way is lost.
Restart ==
  /\ Restarts
  /\ row' = [r \in Row |-> IF row[r].stage = "none" THEN row[r]
                           ELSE [row[r] EXCEPT !.stage = "done"]]
  /\ drains' = {} /\ wire' = {} /\ acks' = {}
  /\ conn' = [p \in Peer |-> "gone"]
  /\ UNCHANGED status

-----------------------------------------------------------------------------
Send == \E r \in Row : \/ \E c \in Cid : SendArrives(r, c)
                       \/ Enqueued(r) \/ FansOut(r) \/ MulticastMarked(r)

DrainsOf(p) == {d \in drains : d.peer = p}

Drain == \E d \in drains : StatusRead(d) \/ Claims(d) \/ Pushes(d)

Table == \/ \E a \in acks : AckArrives(a)
         \/ \E r \in Row : ClaimExpires(r) \/ Orphaned(r)

Connections == \E p \in Peer : \/ Hello(p) \/ Drop(p) \/ Evict(p) \/ StatusChanges(p)
                               \/ \E st \in Status : Hook(p, st)

QueueNext == Send \/ Drain \/ Table \/ Connections \/ Restart
=============================================================================
