------------------------------- MODULE Outbox -------------------------------
(***************************************************************************)
(* The CLI daemon's outbox: the SQLite table a send is accepted into, the  *)
(* drain worker that empties it over one WebSocket client per mesh and one *)
(* per session, and the operator's requeue.                                *)
(*                                                                         *)
(* The daemon is one JavaScript event loop.  A handler runs to completion, *)
(* so while the worker runs its loop body between two awaits               *)
(* (phase = "rows") no other handler does; it yields only while it awaits  *)
(* a nonce (phase = "nonce") or the outcome of a send (phase = "sending"). *)
(* Whatever the loop read before such an await is kept in batch and cur.   *)
(***************************************************************************)
EXTENDS Naturals, FiniteSets

CONSTANTS
  Cid,            \* client_message_ids: the table's UNIQUE key names a row
  FPrint,          \* request fingerprints; a fingerprint covers the destination
  Mesh,           \* meshes a daemon-WS (DaemonBrokerClient) exists for
  Session,        \* session pubkeys a session-WS may exist for
  None,
  MaxAttempts,    \* MAX_ATTEMPTS_PER_ROW
  BatchLimit,     \* LIMIT of the drain's SELECT
  SessionGoneTTL, \* SESSION_GONE_TTL_MS, in ticks
  OutboxTTL,      \* OUTBOX_TTL_MS, in ticks
  Usurpable,      \* links the broker may hand to another socket (bound)
  Ephemeral,      \* sessions that may be deregistered (bound)
  MaxCrashes      \* restarts explored (bound)

ASSUME OutboxAssumption ==
  /\ MaxAttempts \in Nat \ {0}
  /\ BatchLimit \in Nat \ {0}
  /\ SessionGoneTTL \in Nat
  /\ OutboxTTL \in Nat
  /\ SessionGoneTTL <= OutboxTTL
  /\ MaxCrashes \in Nat
  /\ IsFiniteSet(Cid)
  /\ Mesh # {} /\ Mesh \cap Session = {}
  /\ None \notin Cid \cup FPrint \cup Mesh \cup Session

VARIABLES
  row,       \* the outbox table, one row per client_message_id
  attached,  \* meshes this run of the daemon holds a broker client for
  phase,     \* where the drain worker's loop is
  batch,     \* SELECTed rows drainOnce has not come to yet, as it read them
  cur,       \* the row whose send is awaited, as drainOnce read it
  slot,      \* what the awaited promise hangs on: "acks", "opens" or "lost"
  link,      \* state of each client's connection
  net,       \* send frames on their way to the broker
  acks,      \* acks on their way back
  got,       \* what the broker has accepted under each id
  promised,  \* <<id, fingerprint>> pairs /v1/send has answered 200 or 202
  crashes

vars == <<row, attached, phase, batch, cur, slot, link, net, acks, got,
          promised, crashes>>
worker == <<phase, batch, cur, slot>>
wire   == <<link, net, acks>>

Link == Mesh \cup Session
Status == {"absent", "pending", "inflight", "done", "dead", "aborted"}
Live == {"pending", "inflight"}
Settled == {"done", "dead", "aborted"}
LinkState == {"absent", "down", "socket", "open", "closing", "replaced"}

Row == [status : Status, fp : FPrint \cup {None}, mesh : Mesh \cup {None},
        session : Session \cup {None}, attempts : Nat, due : BOOLEAN,
        age : 0..(OutboxTTL + 1), pos : Nat, next : Cid \cup {None}]
Snap == [id : Cid, attempts : Nat, age : 0..(OutboxTTL + 1), pos : Nat]
Frame == [id : Cid, fp : FPrint \cup {None}, broadcast : BOOLEAN, via : Link]
Verdict == {"ok", "retry", "permanent"}
Ack == [id : Cid, via : Link, verdict : Verdict]

NoRow == [status |-> "absent", fp |-> None, mesh |-> None, session |-> None,
          attempts |-> 0, due |-> FALSE, age |-> 0, pos |-> 0, next |-> None]

TypeOK ==
  /\ row \in [Cid -> Row]
  /\ attached \in SUBSET Mesh
  /\ phase \in {"asleep", "rows", "nonce", "sending"}
  /\ batch \in SUBSET Snap
  /\ cur \in Snap \cup {None}
  /\ slot \in {"none", "acks", "opens", "lost"}
  /\ link \in [Link -> LinkState]
  /\ net \in SUBSET Frame
  /\ acks \in SUBSET Ack
  /\ got \in [Cid -> SUBSET Frame]
  /\ promised \in SUBSET (Cid \X FPrint)
  /\ crashes \in 0..MaxCrashes

Init ==
  /\ row = [c \in Cid |-> NoRow]
  /\ attached = Mesh
  /\ phase = "asleep" /\ batch = {} /\ cur = None /\ slot = "none"
  /\ link = [l \in Link |-> IF l \in Mesh THEN "down" ELSE "absent"]
  /\ net = {} /\ acks = {}
  /\ got = [c \in Cid |-> {}]
  /\ promised = {}
  /\ crashes = 0

-----------------------------------------------------------------------------
(* The local IPC surface.                                                  *)

EventLoopFree == phase # "rows"

Present(c) == row[c].status # "absent"

\* insertPending: a new row, last in enqueued_at order and due at once.
Fresh(p, m, s) ==
  [status |-> "pending", fp |-> p, mesh |-> m, session |-> s, attempts |-> 0,
   due |-> TRUE, age |-> 0, pos |-> Cardinality({c \in Cid : Present(c)}),
   next |-> None]

\* Mutant: the id alone decides, the fingerprint is not compared.
AnyMatch(c, p) == row[c].status \in {"pending", "inflight", "done"}
\* decideForExistingRow: a known id is answered 200/202 only for the request
\* it was first used for, and never once the row is dead or aborted.
Match(c, p) == row[c].fp = p /\ row[c].status \in {"pending", "inflight", "done"}

\* POST /v1/send, encrypted and routed for the mesh m and, when the caller is a
\* session the registry knew when the request came in, for that session s: the
\* handler awaits the routing in between, and the session may end meanwhile.
AcceptSend(c, p, m, s) ==
  /\ EventLoopFree
  /\ m \in attached
  /\ s # None /\ s \notin Ephemeral => link[s] # "absent"
  /\ \/ /\ ~Present(c)
        /\ row' = [row EXCEPT ![c] = Fresh(p, m, s)]
        /\ promised' = promised \cup {<<c, p>>}
     \/ /\ Present(c)
        /\ Match(c, p)
        /\ promised' = promised \cup {<<c, p>>}
        /\ UNCHANGED row
  /\ UNCHANGED <<attached, worker, wire, got, crashes>>

\* Mutant: the row's status is not looked at before it is retired.
AnyStatusRequeueable(c) == Present(c)
Requeueable(c) == row[c].status \in {"pending", "inflight", "dead"}

\* POST /v1/outbox/requeue: retire c and enqueue its payload under id d.  The
\* new row carries payload and fingerprint only, no routing column.
Requeue(c, d) ==
  /\ EventLoopFree
  /\ Requeueable(c)
  /\ ~Present(d)
  /\ row' = [row EXCEPT ![c].status = "aborted", ![c].next = d,
                        ![d] = Fresh(row[c].fp, None, None)]
  /\ UNCHANGED <<attached, worker, wire, got, promised, crashes>>

\* The same when the second statement does not commit: the requested new id is
\* already in use (UNIQUE fails, 400), or the process dies in between.
RequeueTorn(c) ==
  /\ EventLoopFree
  /\ Requeueable(c)
  /\ row' = [row EXCEPT ![c].status = "aborted"]
  /\ UNCHANGED <<attached, worker, wire, got, promised, crashes>>

-----------------------------------------------------------------------------
(* The drain worker.                                                       *)

Snapshot(c) == [id |-> c, attempts |-> row[c].attempts, age |-> row[c].age,
                pos |-> row[c].pos]

\* Mutant: an expired row gets a status the table's readers do not know.
SweepAsExpired(r) == IF r.status \in Live /\ r.age > OutboxTTL
                     THEN [r EXCEPT !.status = "expired"] ELSE r
\* Mutant: only pending rows expire.
SweepPendingOnly(r) == IF r.status = "pending" /\ r.age > OutboxTTL
                       THEN [r EXCEPT !.status = "dead"] ELSE r
\* The TTL sweep covers pending and inflight rows alike.
Sweep(r) == IF r.status \in Live /\ r.age > OutboxTTL
            THEN [r EXCEPT !.status = "dead"] ELSE r

Ready(c) == row[c].status = "pending" /\ row[c].due /\ row[c].age <= OutboxTTL

\* drainOnce up to its loop: expire rows past the TTL, then read the due rows
\* in enqueued_at order, up to the limit.
DrainTick ==
  /\ phase = "asleep"
  /\ row' = [c \in Cid |-> Sweep(row[c])]
  /\ batch' = {Snapshot(c) : c \in
        {c \in Cid : /\ Ready(c)
                     /\ Cardinality({d \in Cid : /\ Ready(d)
                                                 /\ row[d].pos < row[c].pos})
                          < BatchLimit}}
  /\ phase' = IF batch' = {} THEN "asleep" ELSE "rows"
  /\ UNCHANGED <<attached, cur, slot, wire, got, promised, crashes>>

\* The row the loop comes to next.
Head(b) == b \in batch /\ \A x \in batch : b.pos <= x.pos

\* markInflight: the statement re-checks the status.
MarkInflight(b) ==
  [row[b.id] EXCEPT !.status = "inflight", !.attempts = @ + 1, !.due = FALSE]

DrainEnd ==
  /\ phase = "rows" /\ batch = {}
  /\ phase' = "asleep"
  /\ UNCHANGED <<row, attached, batch, cur, slot, wire, got, promised, crashes>>

DrainSkip(b) ==
  /\ phase = "rows" /\ Head(b)
  /\ row[b.id].status # "pending"
  /\ batch' = batch \ {b}
  /\ UNCHANGED <<row, attached, phase, cur, slot, wire, got, promised, crashes>>

\* The daemon-WS for a row: its mesh's, or the only one there is.
DaemonBroker(c, b) ==
  \/ row[c].mesh = b /\ b \in attached
  \/ row[c].mesh = None /\ attached = {b}

HasBroker(c) == \E b \in Mesh : DaemonBroker(c, b)

DrainNoBroker(b) ==
  /\ phase = "rows" /\ Head(b)
  /\ row[b.id].status = "pending"
  /\ ~HasBroker(b.id)
  /\ row' = [row EXCEPT ![b.id] = [MarkInflight(b) EXCEPT !.status = "dead"]]
  /\ batch' = batch \ {b}
  /\ UNCHANGED <<attached, phase, cur, slot, wire, got, promised, crashes>>

\* Mutant: the attempt cap is off by one.
GiveUpLate(b) == b.attempts >= MaxAttempts
GiveUp(b) == b.attempts + 1 >= MaxAttempts

Dead(r) == [r EXCEPT !.status = "dead"]

\* backoffPending, which names the row by id and not by status.
Backoff(b, r) ==
  [r EXCEPT !.status = "pending", !.attempts = b.attempts + 1, !.due = FALSE]

\* What a transient failure makes of the row r read as b.
Retried(b, r) == IF GiveUp(b) THEN Dead(r) ELSE Backoff(b, r)

IsOpen(l) == link[l] \in {"socket", "open"}

\* Mutant: the not-ready path leaves the row as markInflight wrote it.
NotReadyForgotten(b) == MarkInflight(b)
\* A session row whose WS is not open: dead once the session has been gone for
\* long enough, else retried.
NotReady(b) ==
  IF link[row[b.id].session] = "absent" /\ b.age > SessionGoneTTL
  THEN Dead(MarkInflight(b))
  ELSE Retried(b, MarkInflight(b))

DrainSessionNotReady(b) ==
  /\ phase = "rows" /\ Head(b)
  /\ row[b.id].status = "pending"
  /\ HasBroker(b.id)
  /\ row[b.id].session # None
  /\ ~IsOpen(row[b.id].session)
  /\ row' = [row EXCEPT ![b.id] = NotReady(b)]
  /\ batch' = batch \ {b}
  /\ UNCHANGED <<attached, phase, cur, slot, wire, got, promised, crashes>>

\* Mutant: a session's row may take the daemon-WS when that is open.
AnyCarrier(c, l) ==
  \/ row[c].session = l
  \/ DaemonBroker(c, l)
\* The client a row is sent through: a session's row has no other than its own.
Carrier(c, l) ==
  \/ row[c].session = l /\ l # None
  \/ row[c].session = None /\ DaemonBroker(c, l)

FrameOf(c, l) == [id |-> c, fp |-> row[c].fp, via |-> l,
                  broadcast |-> row[c].mesh = None]

\* send() while the status is open puts the frame on the wire, otherwise the
\* dispatch is deferred until it is.
Submit(b, l) ==
  /\ phase' = "sending" /\ cur' = b
  /\ IF link[l] = "open"
     THEN slot' = "acks" /\ net' = net \cup {FrameOf(b.id, l)}
     ELSE slot' = "opens" /\ UNCHANGED net
  /\ UNCHANGED <<link, acks>>

DrainSend(b, l) ==
  /\ phase = "rows" /\ Head(b)
  /\ row[b.id].status = "pending"
  /\ HasBroker(b.id) /\ row[b.id].mesh # None
  /\ Carrier(b.id, l) /\ link[l] # "closing"
  /\ row[b.id].session # None => IsOpen(l)
  /\ row' = [row EXCEPT ![b.id] = MarkInflight(b)]
  /\ batch' = batch \ {b}
  /\ Submit(b, l)
  /\ UNCHANGED <<attached, got, promised, crashes>>

\* The status is still open but the socket is not: send() fails at once.
DrainSendClosing(b, l) ==
  /\ phase = "rows" /\ Head(b)
  /\ row[b.id].status = "pending"
  /\ HasBroker(b.id) /\ row[b.id].mesh # None
  /\ row[b.id].session = None /\ Carrier(b.id, l) /\ link[l] = "closing"
  /\ row' = [row EXCEPT ![b.id] = Retried(b, MarkInflight(b))]
  /\ batch' = batch \ {b}
  /\ UNCHANGED <<attached, phase, cur, slot, wire, got, promised, crashes>>

\* A row without routing needs a fresh nonce, and the loop yields for it.
DrainNonce(b) ==
  /\ phase = "rows" /\ Head(b)
  /\ row[b.id].status = "pending"
  /\ HasBroker(b.id) /\ row[b.id].mesh = None
  /\ row' = [row EXCEPT ![b.id] = MarkInflight(b)]
  /\ batch' = batch \ {b}
  /\ phase' = "nonce" /\ cur' = b
  /\ UNCHANGED <<attached, slot, wire, got, promised, crashes>>

NonceReady(l) ==
  /\ phase = "nonce"
  /\ Carrier(cur.id, l)
  /\ IF link[l] = "closing"
     THEN /\ row' = [row EXCEPT ![cur.id] = Retried(cur, row[cur.id])]
          /\ phase' = "rows" /\ cur' = None
          /\ UNCHANGED <<slot, wire>>
     ELSE /\ Submit(cur, l)
          /\ UNCHANGED row
  /\ UNCHANGED <<attached, batch, got, promised, crashes>>

\* The rest of the loop body once the awaited promise has settled: markDone,
\* markDead or backoffPending, whatever the row has become in the meantime.
Outcome(v) ==
  CASE v = "ok" -> [row[cur.id] EXCEPT !.status = "done"]
    [] v = "permanent" -> Dead(row[cur.id])
    [] v = "retry" -> Retried(cur, row[cur.id])

Settle(v) ==
  /\ row' = [row EXCEPT ![cur.id] = Outcome(v)]
  /\ phase' = "rows" /\ cur' = None /\ slot' = "none"

\* Mutant: any ack on the link settles the row being sent.
AnyAck(a) == phase = "sending" /\ slot = "acks"
\* pendingAcks is keyed by client_message_id.
Awaited(a) == phase = "sending" /\ slot = "acks" /\ cur.id = a.id

AckArrives(a) ==
  /\ EventLoopFree
  /\ acks' = acks \ {a}
  /\ IF Awaited(a) THEN Settle(a.verdict) ELSE UNCHANGED <<row, phase, cur, slot>>
  /\ UNCHANGED <<attached, batch, link, net, got, promised, crashes>>

AckTimeout ==
  /\ phase = "sending" /\ slot = "acks"
  /\ Settle("retry")
  /\ UNCHANGED <<attached, batch, wire, got, promised, crashes>>

-----------------------------------------------------------------------------
(* The clients' connections (ws-lifecycle, abstracted to what send() sees). *)

SocketOpens(l) ==
  /\ EventLoopFree
  /\ link[l] = "down"
  /\ link' = [link EXCEPT ![l] = "socket"]
  /\ UNCHANGED <<row, attached, worker, net, acks, got, promised, crashes>>

Sending(l) == phase = "sending" /\ Carrier(cur.id, l)

\* hello_ack: the status becomes open and a deferred dispatch is flushed.
HelloAcked(l) ==
  /\ EventLoopFree
  /\ link[l] = "socket"
  /\ link' = [link EXCEPT ![l] = "open"]
  /\ IF Sending(l) /\ slot = "opens"
     THEN slot' = "acks" /\ net' = net \cup {FrameOf(cur.id, l)}
     ELSE UNCHANGED <<slot, net>>
  /\ UNCHANGED <<row, attached, phase, batch, cur, acks, got, promised, crashes>>

SocketCloses(l) ==
  /\ EventLoopFree
  /\ link[l] = "open"
  /\ link' = [link EXCEPT ![l] = "closing"]
  /\ UNCHANGED <<row, attached, worker, net, acks, got, promised, crashes>>

\* The close event fails what hangs in pendingAcks; what hangs in opens stays.
Closed(l, state) ==
  /\ EventLoopFree
  /\ link' = [link EXCEPT ![l] = state]
  /\ net' = {f \in net : f.via # l}
  /\ acks' = {a \in acks : a.via # l}
  /\ IF Sending(l) /\ slot = "acks"
     THEN Settle("retry") ELSE UNCHANGED <<row, phase, cur, slot>>
  /\ UNCHANGED <<attached, batch, got, promised, crashes>>

SocketClosed(l) == link[l] \in {"socket", "open", "closing"} /\ Closed(l, "down")

\* The broker gave the identity to another socket: terminal for this client.
SessionReplaced(l) ==
  /\ l \in Usurpable
  /\ link[l] \in {"socket", "open", "closing"}
  /\ Closed(l, "replaced")

Register(s) ==
  /\ EventLoopFree
  /\ link[s] = "absent"
  /\ link' = [link EXCEPT ![s] = "down"]
  /\ UNCHANGED <<row, attached, worker, net, acks, got, promised, crashes>>

\* The session ends and its client is dropped, deferred dispatches included.
Deregister(s) ==
  /\ EventLoopFree
  /\ s \in Ephemeral /\ link[s] # "absent"
  /\ link' = [link EXCEPT ![s] = "absent"]
  /\ net' = {f \in net : f.via # s}
  /\ acks' = {a \in acks : a.via # s}
  /\ IF Sending(s) /\ slot = "acks" THEN Settle("retry")
     ELSE /\ slot' = IF Sending(s) THEN "lost" ELSE slot
          /\ UNCHANGED <<row, phase, cur>>
  /\ UNCHANGED <<attached, batch, got, promised, crashes>>

-----------------------------------------------------------------------------
(* The environment: the broker, the clock, the process.                    *)

\* The broker's handleSend inserts a row, then acks.
BrokerAccepts(f) ==
  /\ net' = net \ {f}
  /\ got' = [got EXCEPT ![f.id] = @ \cup {f}]
  /\ acks' = acks \cup {[id |-> f.id, via |-> f.via, verdict |-> "ok"]}
  /\ UNCHANGED <<row, attached, worker, link, promised, crashes>>

\* ... or refuses, before it inserts anything.
BrokerRefuses(f, v) ==
  /\ net' = net \ {f}
  /\ acks' = acks \cup {[id |-> f.id, via |-> f.via, verdict |-> v]}
  /\ UNCHANGED <<row, attached, worker, link, got, promised, crashes>>

\* A tick is longer than any backoff.
Tick ==
  /\ row' = [c \in Cid |->
       IF Present(c)
       THEN [row[c] EXCEPT !.due = @ \/ row[c].status = "pending",
               !.age = IF @ > OutboxTTL THEN @ ELSE @ + 1]
       ELSE row[c]]
  /\ UNCHANGED <<attached, worker, wire, got, promised, crashes>>

\* A row's backoff elapses.
Due(c) ==
  /\ row[c].status = "pending" /\ ~row[c].due
  /\ row' = [row EXCEPT ![c].due = TRUE]
  /\ UNCHANGED <<attached, worker, wire, got, promised, crashes>>

\* The process ends and starts again.  A clean shutdown closes the clients
\* first, which is SocketCloses and SocketClosed of each; the table is all that
\* is left, and nothing at startup looks at it.  The meshes may have changed.
Restart(a) ==
  /\ crashes < MaxCrashes
  /\ crashes' = crashes + 1
  /\ attached' = a
  /\ phase' = "asleep" /\ batch' = {} /\ cur' = None /\ slot' = "none"
  /\ link' = [l \in Link |-> IF l \in Mesh THEN "down" ELSE "absent"]
  /\ net' = {} /\ acks' = {}
  /\ UNCHANGED <<row, got, promised>>

-----------------------------------------------------------------------------
DrainRow ==
  \/ DrainEnd
  \/ \E b \in batch :
       \/ DrainSkip(b) \/ DrainNoBroker(b) \/ DrainSessionNotReady(b)
       \/ DrainNonce(b)
       \/ \E l \in Link : DrainSend(b, l) \/ DrainSendClosing(b, l)

Worker == DrainTick \/ DrainRow \/ (\E l \in Link : NonceReady(l)) \/ AckTimeout

Ipc ==
  \/ \E c \in Cid, p \in FPrint, m \in Mesh,
        s \in Session \cup {None} : AcceptSend(c, p, m, s)
  \/ \E c \in Cid : RequeueTorn(c) \/ \E d \in Cid : Requeue(c, d)

Connections ==
  \/ \E l \in Link : \/ SocketOpens(l) \/ HelloAcked(l) \/ SocketCloses(l)
                     \/ SocketClosed(l) \/ SessionReplaced(l)
  \/ \E s \in Session : Register(s) \/ Deregister(s)

Environment ==
  \/ \E f \in net : BrokerAccepts(f) \/ \E v \in {"retry", "permanent"} :
                                          BrokerRefuses(f, v)
  \/ \E a \in acks : AckArrives(a)
  \/ Tick
  \/ \E c \in Cid : Due(c)
  \/ \E a \in SUBSET Mesh \ {{}} : Restart(a)

Next == Worker \/ Ipc \/ Connections \/ Environment

Spec == Init /\ [][Next]_vars

\* What the daemon's own timers and loop guarantee: the worker runs, acks time
\* out, time passes.  Nothing is assumed of the network.
WorkerFairness ==
  /\ WF_vars(Worker)
  /\ WF_vars(Tick)
  /\ \A c \in Cid : WF_vars(Due(c))

\* The reconnect loop never stops, and now and then the broker answers a hello.
NetworkFairness ==
  \A l \in Link : WF_vars(SocketOpens(l)) /\ SF_vars(HelloAcked(l))

LiveSpec == Spec /\ WorkerFairness /\ NetworkFairness

-----------------------------------------------------------------------------
(* Properties.                                                             *)

\* A row is done only if the broker accepted a message under its own id: late,
\* crossed and duplicated acks never complete another row.
DoneWasAccepted == \A c \in Cid : row[c].status = "done" => got[c] # {}

\* Under one id the daemon promises one request, and whatever the broker has
\* accepted under that id is that request, across retries and restarts.
OneRequestPerId ==
  \A x \in promised :
    /\ \A y \in promised : y[1] = x[1] => y = x
    /\ \A f \in got[x[1]] : f.fp = x[2]

\* Until a restart, an inflight row is the one the worker is working on, so no
\* path through the loop leaves a row that nothing will look at again.
InflightIsOwned ==
  crashes = 0 =>
    \A c \in Cid : row[c].status = "inflight" =>
                     phase \in {"nonce", "sending"} /\ cur.id = c

\* No row is tried more than MaxAttempts times, and a pending one has a try left.
AttemptsCapped ==
  \A c \in Cid : /\ row[c].attempts <= MaxAttempts
                 /\ row[c].status = "pending" => row[c].attempts < MaxAttempts

\* What a session wrote reaches the broker on that session's WS or not at all.
SessionKeepsItsLink ==
  \A c \in Cid : \A f \in got[c] \cup {g \in net : g.id = c} :
    row[c].session # None => f.via = row[c].session

\* A row that is done stays done; a dead one changes only by being retired.
SettledStays ==
  [][\A c \in Cid :
       /\ row[c].status = "done" => row'[c].status = "done"
       /\ row[c].status = "dead" => row'[c].status \in {"dead", "aborted"}]_vars

\* Every accepted row is settled in the end, however often sends fail, sessions come
\* and go and the daemon restarts, as long as each connection comes back now and then;
\* unless a deregistered session took the promise the worker waits for with it.
EveryRowSettles ==
  \A c \in Cid :
    row[c].status \in Live ~> row[c].status \in Settled \/ slot = "lost"
=============================================================================
