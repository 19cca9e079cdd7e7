---------------------------- MODULE OutboxProofs ----------------------------
(***************************************************************************)
(* What the outbox guarantees for any number of ids, sessions, meshes and  *)
(* restarts.                                                               *)
(***************************************************************************)
EXTENDS Outbox, FiniteSetTheorems, TLAPS

\* The links of Init and of a restart are typed.
LEMMA LinksAtStart ==
  [l \in Link |-> IF l \in Mesh THEN "down" ELSE "absent"] \in [Link -> LinkState]
BY DEF LinkState

\* The worker's ways to write a row keep it a row and move only its status,
\* attempts and due columns.
LEMMA RowOps ==
  ASSUME NEW r \in Row, NEW b \in Snap
  PROVE  /\ Dead(r) \in Row
         /\ Backoff(b, r) \in Row
         /\ Retried(b, r) \in Row
         /\ Sweep(r) \in Row
<1>1. b.attempts + 1 \in Nat
  BY DEF Snap
<1>2. Dead(r) \in Row /\ Backoff(b, r) \in Row
  BY <1>1 DEF Dead, Backoff, Row, Status
<1>3. QED
  BY <1>2 DEF Retried, Sweep, Dead

LEMMA MarkedRow ==
  ASSUME row \in [Cid -> Row], NEW b \in Snap
  PROVE  MarkInflight(b) \in Row
<1>1. row[b.id] \in Row
  BY DEF Snap
<1>2. row[b.id].attempts + 1 \in Nat
  BY <1>1 DEF Row
<1>3. QED
  BY <1>1, <1>2 DEF MarkInflight, Row, Status

LEMMA FreshRow ==
  ASSUME NEW p \in FPrint \cup {None}, NEW m \in Mesh \cup {None},
         NEW s \in Session \cup {None}
  PROVE  Fresh(p, m, s) \in Row
<1>1. Cardinality({c \in Cid : Present(c)}) \in Nat
  BY OutboxAssumption, FS_Subset, FS_CardinalityType DEF OutboxAssumption
<1>2. QED
  BY <1>1, OutboxAssumption DEF Fresh, Row, Status, OutboxAssumption

\* NotReady and Outcome only choose among those writes.
LEMMA NotReadyRow ==
  ASSUME row \in [Cid -> Row], NEW b \in Snap
  PROVE  NotReady(b) \in Row
BY MarkedRow, RowOps DEF NotReady

LEMMA OutcomeRow ==
  ASSUME row \in [Cid -> Row], cur \in Snap, NEW v \in Verdict
  PROVE  Outcome(v) \in Row
<1>1. row[cur.id] \in Row
  BY DEF Snap
<1>2. [row[cur.id] EXCEPT !.status = "done"] \in Row
  BY <1>1 DEF Row, Status
<1>3. Dead(row[cur.id]) \in Row /\ Retried(cur, row[cur.id]) \in Row
  BY <1>1, RowOps
<1>4. QED
  BY <1>2, <1>3 DEF Outcome, Verdict

\* Settling the awaited row keeps the types of all it changes.
LEMMA SettleTypes ==
  ASSUME TypeOK, cur \in Snap, NEW v \in Verdict, Settle(v)
  PROVE  /\ row' \in [Cid -> Row]
         /\ phase' \in {"asleep", "rows", "nonce", "sending"}
         /\ cur' \in Snap \cup {None}
         /\ slot' \in {"none", "acks", "opens", "lost"}
BY OutcomeRow DEF Settle, TypeOK, Snap

\* A frame names a client that carries the row, and is typed.
LEMMA FrameTyped ==
  ASSUME TypeOK, NEW c \in Cid, NEW l \in Link
  PROVE  FrameOf(c, l) \in Frame
<1>1. row[c] \in Row
  BY DEF TypeOK
<1>2. QED
  BY <1>1 DEF FrameOf, Frame, Row

LEMMA SubmitTypes ==
  ASSUME TypeOK, NEW b \in Snap, NEW l \in Link, Submit(b, l)
  PROVE  /\ phase' \in {"asleep", "rows", "nonce", "sending"}
         /\ cur' \in Snap \cup {None}
         /\ slot' \in {"none", "acks", "opens", "lost"}
         /\ net' \in SUBSET Frame
         /\ link' \in [Link -> LinkState]
         /\ acks' \in SUBSET Ack
<1>1. FrameOf(b.id, l) \in Frame
  BY FrameTyped DEF Snap
<1>2. QED
  BY <1>1 DEF Submit, TypeOK

\* While the loop awaits something, it holds the row it awaits it for.
CurHeld == phase \in {"nonce", "sending"} => cur \in Snap

Typed == TypeOK /\ CurHeld

LEMMA InitTyped == Init => Typed
<1> SUFFICES ASSUME Init PROVE Typed
  OBVIOUS
<1>1. NoRow \in Row
  BY OutboxAssumption DEF NoRow, Row, Status, OutboxAssumption
<1>2. 0 \in 0..MaxCrashes
  BY OutboxAssumption DEF OutboxAssumption
<1>3. QED
  BY <1>1, <1>2, LinksAtStart DEF Init, TypeOK, Typed, CurHeld

LEMMA IpcTyped == Typed /\ Ipc => Typed'
<1> SUFFICES ASSUME Typed, Ipc PROVE Typed'
  OBVIOUS
<1> USE DEF Typed, CurHeld, TypeOK, worker, wire
<1>1. ASSUME NEW c \in Cid, NEW p \in FPrint, NEW m \in Mesh,
             NEW s \in Session \cup {None}, AcceptSend(c, p, m, s)
      PROVE  Typed'
  <2>1. Fresh(p, m, s) \in Row
    BY FreshRow
  <2>2. row' \in [Cid -> Row] /\ promised' \in SUBSET (Cid \X FPrint)
    BY <1>1, <2>1 DEF AcceptSend
  <2>3. QED
    BY <1>1, <2>2 DEF AcceptSend
<1>2. ASSUME NEW c \in Cid, NEW d \in Cid, Requeue(c, d)
      PROVE  Typed'
  <2>1. row[c] \in Row /\ row[c].fp \in FPrint \cup {None}
    BY DEF Row
  <2>2. Fresh(row[c].fp, None, None) \in Row
    BY <2>1, FreshRow
  <2>3. [row[c] EXCEPT !.status = "aborted", !.next = d] \in Row
    BY <2>1 DEF Row, Status
  <2>4. c # d
    BY <1>2 DEF Requeue, Requeueable, Present
  <2>5. row' \in [Cid -> Row]
    BY <1>2, <2>1, <2>2, <2>3, <2>4 DEF Requeue
  <2>6. QED
    BY <1>2, <2>5 DEF Requeue
<1>3. ASSUME NEW c \in Cid, RequeueTorn(c)
      PROVE  Typed'
  <2>1. [row[c] EXCEPT !.status = "aborted"] \in Row
    BY DEF Row, Status
  <2>2. QED
    BY <1>3, <2>1 DEF RequeueTorn
<1>4. QED
  BY <1>1, <1>2, <1>3 DEF Ipc

LEMMA WorkerTyped == Typed /\ Worker => Typed'
<1> SUFFICES ASSUME Typed, Worker PROVE Typed'
  OBVIOUS
<1> USE DEF Typed, CurHeld, TypeOK, wire
<1>1. CASE DrainTick
  <2>1. \A c \in Cid : Sweep(row[c]) \in Row
    BY RowOps DEF Sweep, Row, Status
  <2>2. \A c \in Cid : Snapshot(c) \in Snap
    BY DEF Snapshot, Snap, Row
  <2>3. batch' \in SUBSET Snap
    BY <1>1, <2>2 DEF DrainTick
  <2>4. QED
    BY <1>1, <2>1, <2>3 DEF DrainTick
<1>2. CASE DrainRow
  <2>1. CASE DrainEnd
    BY <2>1 DEF DrainEnd
  <2>2. ASSUME NEW b \in batch, DrainSkip(b) PROVE Typed'
    BY <2>2 DEF DrainSkip
  <2>3. ASSUME NEW b \in batch, DrainNoBroker(b) PROVE Typed'
    <3>1. [MarkInflight(b) EXCEPT !.status = "dead"] \in Row
      BY MarkedRow DEF Row, Status
    <3>2. QED
      BY <2>3, <3>1 DEF DrainNoBroker
  <2>4. ASSUME NEW b \in batch, DrainSessionNotReady(b) PROVE Typed'
    BY <2>4, NotReadyRow DEF DrainSessionNotReady
  <2>5. ASSUME NEW b \in batch, DrainNonce(b) PROVE Typed'
    BY <2>5, MarkedRow DEF DrainNonce
  <2>6. ASSUME NEW b \in batch, NEW l \in Link, DrainSend(b, l) PROVE Typed'
    <3>1. b \in Snap /\ Submit(b, l) /\ MarkInflight(b) \in Row
      BY <2>6, MarkedRow DEF DrainSend
    <3>2. row' \in [Cid -> Row] /\ batch' \in SUBSET Snap
      BY <2>6, <3>1 DEF DrainSend
    <3>3. cur' = b
      BY <3>1 DEF Submit
    <3>4. QED
      BY <2>6, <3>1, <3>2, <3>3, SubmitTypes DEF DrainSend
  <2>7. ASSUME NEW b \in batch, NEW l \in Link, DrainSendClosing(b, l) PROVE Typed'
    BY <2>7, MarkedRow, RowOps DEF DrainSendClosing
  <2>8. QED
    BY <1>2, <2>1, <2>2, <2>3, <2>4, <2>5, <2>6, <2>7 DEF DrainRow
<1>3. ASSUME NEW l \in Link, NonceReady(l) PROVE Typed'
  <2>1. cur \in Snap
    BY <1>3 DEF NonceReady
  <2>2. CASE link[l] = "closing"
    <3>1. Retried(cur, row[cur.id]) \in Row
      BY <2>1, RowOps DEF Snap
    <3>2. QED
      BY <1>3, <2>1, <2>2, <3>1 DEF NonceReady
  <2>3. CASE link[l] # "closing"
    <3>1. Submit(cur, l) /\ UNCHANGED row
      BY <1>3, <2>3 DEF NonceReady
    <3>2. cur' = cur
      BY <3>1 DEF Submit
    <3>3. QED
      BY <1>3, <2>1, <3>1, <3>2, SubmitTypes DEF NonceReady
  <2>4. QED
    BY <2>2, <2>3
<1>4. CASE AckTimeout
  <2>1. cur \in Snap /\ Settle("retry") /\ "retry" \in Verdict
    BY <1>4 DEF AckTimeout, Verdict
  <2>2. phase' = "rows"
    BY <2>1 DEF Settle
  <2>3. QED
    BY <1>4, <2>1, <2>2, SettleTypes DEF AckTimeout
<1>5. QED
  BY <1>1, <1>2, <1>3, <1>4 DEF Worker

LEMMA SendingHeld ==
  ASSUME Typed, NEW l \in Link, Sending(l)
  PROVE  cur \in Snap /\ "retry" \in Verdict
BY DEF Typed, CurHeld, Sending, Verdict

LEMMA SettledTyped ==
  ASSUME TypeOK, cur \in Snap, NEW v \in Verdict, Settle(v)
  PROVE  phase' = "rows" /\ phase' \notin {"nonce", "sending"}
BY DEF Settle

LEMMA ConnectionsTyped == Typed /\ Connections => Typed'
<1> SUFFICES ASSUME Typed, Connections PROVE Typed'
  OBVIOUS
<1> USE DEF Typed, CurHeld, TypeOK, worker, LinkState
<1>1. ASSUME NEW l \in Link, SocketOpens(l) PROVE Typed'
  BY <1>1 DEF SocketOpens
<1>2. ASSUME NEW l \in Link, HelloAcked(l) PROVE Typed'
  <2>1. CASE Sending(l) /\ slot = "opens"
    <3>1. FrameOf(cur.id, l) \in Frame
      BY <2>1, SendingHeld, FrameTyped DEF Snap
    <3>2. QED
      BY <1>2, <2>1, <3>1 DEF HelloAcked
  <2>2. CASE ~(Sending(l) /\ slot = "opens")
    BY <1>2, <2>2 DEF HelloAcked
  <2>3. QED
    BY <2>1, <2>2
<1>3. ASSUME NEW l \in Link, SocketCloses(l) PROVE Typed'
  BY <1>3 DEF SocketCloses
<1>4. ASSUME NEW l \in Link, NEW state \in {"down", "replaced"}, Closed(l, state)
      PROVE  Typed'
  <2>1. CASE Sending(l) /\ slot = "acks"
    <3>1. cur \in Snap /\ "retry" \in Verdict /\ Settle("retry")
      BY <1>4, <2>1, SendingHeld DEF Closed
    <3>2. QED
      BY <1>4, <3>1, SettleTypes, SettledTyped DEF Closed
  <2>2. CASE ~(Sending(l) /\ slot = "acks")
    BY <1>4, <2>2 DEF Closed
  <2>3. QED
    BY <2>1, <2>2
<1>5. ASSUME NEW s \in Session, Register(s) PROVE Typed'
  BY <1>5 DEF Register, Link
<1>6. ASSUME NEW s \in Session, Deregister(s) PROVE Typed'
  <2>1. s \in Link
    BY DEF Link
  <2>2. CASE Sending(s) /\ slot = "acks"
    <3>1. cur \in Snap /\ "retry" \in Verdict /\ Settle("retry")
      BY <1>6, <2>1, <2>2, SendingHeld DEF Deregister
    <3>2. QED
      BY <1>6, <2>1, <3>1, SettleTypes, SettledTyped DEF Deregister
  <2>3. CASE ~(Sending(s) /\ slot = "acks")
    BY <1>6, <2>1, <2>3 DEF Deregister
  <2>4. QED
    BY <2>2, <2>3
<1>7. QED
  BY <1>1, <1>2, <1>3, <1>4, <1>5, <1>6
     DEF Connections, SocketClosed, SessionReplaced

LEMMA EnvironmentTyped == Typed /\ Environment => Typed'
<1> SUFFICES ASSUME Typed, Environment PROVE Typed'
  OBVIOUS
<1> USE DEF Typed, CurHeld, TypeOK, worker, wire
<1>1. ASSUME NEW f \in net, BrokerAccepts(f) PROVE Typed'
  <2>1. f.id \in Cid /\ f.via \in Link
    BY DEF Frame
  <2>2. [id |-> f.id, via |-> f.via, verdict |-> "ok"] \in Ack
    BY <2>1 DEF Ack, Verdict
  <2>3. QED
    BY <1>1, <2>1, <2>2 DEF BrokerAccepts
<1>2. ASSUME NEW f \in net, NEW v \in {"retry", "permanent"}, BrokerRefuses(f, v)
      PROVE  Typed'
  <2>1. f.id \in Cid /\ f.via \in Link
    BY DEF Frame
  <2>2. [id |-> f.id, via |-> f.via, verdict |-> v] \in Ack
    BY <2>1 DEF Ack, Verdict
  <2>3. QED
    BY <1>2, <2>2 DEF BrokerRefuses
<1>3. ASSUME NEW a \in acks, AckArrives(a) PROVE Typed'
  <2>1. CASE Awaited(a)
    <3>1. cur \in Snap /\ a.verdict \in Verdict /\ Settle(a.verdict)
      BY <1>3, <2>1 DEF AckArrives, Awaited, Ack
    <3>2. QED
      BY <1>3, <3>1, SettleTypes, SettledTyped DEF AckArrives
  <2>2. CASE ~Awaited(a)
    BY <1>3, <2>2 DEF AckArrives
  <2>3. QED
    BY <2>1, <2>2
<1>4. CASE Tick
  <2>1. ASSUME NEW c \in Cid
        PROVE  [row[c] EXCEPT !.due = @ \/ row[c].status = "pending",
                              !.age = IF @ > OutboxTTL THEN @ ELSE @ + 1] \in Row
    <3>1. /\ row[c] \in Row /\ row[c].age \in 0..(OutboxTTL + 1)
          /\ row[c].due \in BOOLEAN /\ OutboxTTL \in Nat
      BY OutboxAssumption DEF Row, OutboxAssumption
    <3>2. (IF row[c].age > OutboxTTL THEN row[c].age ELSE row[c].age + 1)
             \in 0..(OutboxTTL + 1)
      BY <3>1
    <3>3. (row[c].due \/ row[c].status = "pending") \in BOOLEAN
      OBVIOUS
    <3>4. QED
      BY <3>1, <3>2, <3>3 DEF Row
  <2>2. QED
    BY <1>4, <2>1 DEF Tick
<1>5. ASSUME NEW c \in Cid, Due(c) PROVE Typed'
  <2>1. [row[c] EXCEPT !.due = TRUE] \in Row
    BY DEF Row
  <2>2. QED
    BY <1>5, <2>1 DEF Due
<1>6. ASSUME NEW a \in SUBSET Mesh \ {{}}, Restart(a) PROVE Typed'
  <2>1. crashes' \in 0..MaxCrashes
    BY <1>6, OutboxAssumption DEF Restart, OutboxAssumption
  <2>2. link' \in [Link -> LinkState]
    BY <1>6, LinksAtStart DEF Restart
  <2>3. QED
    BY <1>6, <2>1, <2>2 DEF Restart
<1>7. QED
  BY <1>1, <1>2, <1>3, <1>4, <1>5, <1>6 DEF Environment

LEMMA StepTyped == Typed /\ [Next]_vars => Typed'
<1>1. Typed /\ UNCHANGED vars => Typed'
  BY DEF vars, Typed, TypeOK, CurHeld
<1>2. QED
  BY <1>1, IpcTyped, WorkerTyped, ConnectionsTyped, EnvironmentTyped DEF Next

\* Type correctness of the outbox.
THEOREM OutboxTypes == Spec => []TypeOK
<1>1. Init => Typed
  BY InitTyped
<1>2. Typed => TypeOK
  BY DEF Typed
<1>3. QED
  BY <1>1, <1>2, StepTyped, PTL DEF Spec

-----------------------------------------------------------------------------
(* What one step may do to one row.                                        *)

Capped(r) == /\ r.attempts <= MaxAttempts
             /\ r.status = "pending" => r.attempts < MaxAttempts

\* A row keeps its request and its route, stays done once done, leaves dead
\* only for aborted, and stays within the attempt cap.
RowMove(r, t) ==
  /\ r.status # "absent" => /\ t.status # "absent" /\ t.fp = r.fp
                            /\ t.mesh = r.mesh /\ t.session = r.session
  /\ r.status = "done" => t.status = "done"
  /\ r.status = "dead" => t.status \in {"dead", "aborted"}
  /\ Capped(r) => Capped(t)

\* The awaited row is inflight, or was retired while it was awaited.
CurLive == phase \in {"nonce", "sending"} =>
             row[cur.id].status \in {"inflight", "aborted"}

LEMMA SameRowMove == ASSUME NEW r PROVE RowMove(r, r)
BY DEF RowMove, Capped

LEMMA DeadMove ==
  ASSUME NEW r \in Row, r.status \notin {"absent", "done"}
  PROVE  RowMove(r, Dead(r))
BY DEF RowMove, Capped, Dead, Row

LEMMA RetriedMove ==
  ASSUME NEW r \in Row, NEW b \in Snap, r.status \notin {"absent", "done", "dead"}
  PROVE  RowMove(r, Retried(b, r))
<1>1. CASE GiveUp(b)
  BY <1>1, DeadMove DEF Retried
<1>2. CASE ~GiveUp(b)
  <2>1. b.attempts \in Nat /\ MaxAttempts \in Nat /\ b.attempts + 1 < MaxAttempts
    BY <1>2, OutboxAssumption DEF GiveUp, Snap, OutboxAssumption
  <2>2. Backoff(b, r).status = "pending" /\ Backoff(b, r).attempts = b.attempts + 1
        /\ Backoff(b, r).fp = r.fp /\ Backoff(b, r).mesh = r.mesh
        /\ Backoff(b, r).session = r.session
    BY DEF Backoff, Row
  <2>3. QED
    BY <1>2, <2>1, <2>2 DEF Retried, RowMove, Capped
<1>3. QED
  BY <1>1, <1>2

LEMMA MarkedMove ==
  ASSUME row \in [Cid -> Row], NEW b \in Snap, row[b.id].status = "pending"
  PROVE  /\ RowMove(row[b.id], MarkInflight(b))
         /\ MarkInflight(b).status = "inflight"
<1>1. row[b.id] \in Row /\ row[b.id].attempts \in Nat /\ MaxAttempts \in Nat
  BY OutboxAssumption DEF Snap, Row, OutboxAssumption
<1>2. /\ MarkInflight(b).status = "inflight"
      /\ MarkInflight(b).attempts = row[b.id].attempts + 1
      /\ MarkInflight(b).fp = row[b.id].fp /\ MarkInflight(b).mesh = row[b.id].mesh
      /\ MarkInflight(b).session = row[b.id].session
  BY <1>1 DEF MarkInflight, Row
<1>3. QED
  BY <1>1, <1>2 DEF RowMove, Capped

LEMMA MoveTrans ==
  ASSUME NEW r, NEW t, NEW u, RowMove(r, t), RowMove(t, u),
         r.status \notin {"done", "dead"}
  PROVE  RowMove(r, u)
BY DEF RowMove

\* markInflight followed by markDead or backoffPending in the same step.
LEMMA MarkedThenMove ==
  ASSUME row \in [Cid -> Row], NEW b \in Snap, row[b.id].status = "pending"
  PROVE  /\ RowMove(row[b.id], Dead(MarkInflight(b)))
         /\ RowMove(row[b.id], Retried(b, MarkInflight(b)))
         /\ RowMove(row[b.id], NotReady(b))
<1>1. MarkInflight(b) \in Row /\ MarkInflight(b).status = "inflight"
      /\ RowMove(row[b.id], MarkInflight(b))
  BY MarkedRow, MarkedMove
<1>2. RowMove(MarkInflight(b), Dead(MarkInflight(b)))
  BY <1>1, DeadMove
<1>3. RowMove(MarkInflight(b), Retried(b, MarkInflight(b)))
  BY <1>1, RetriedMove
<1>4. /\ RowMove(row[b.id], Dead(MarkInflight(b)))
      /\ RowMove(row[b.id], Retried(b, MarkInflight(b)))
  BY <1>1, <1>2, <1>3, MoveTrans
<1>5. QED
  BY <1>4 DEF NotReady

\* Whatever the awaited promise settles to.
LEMMA OutcomeMove ==
  ASSUME row \in [Cid -> Row], cur \in Snap, NEW v \in Verdict,
         row[cur.id].status \in {"inflight", "aborted"}
  PROVE  RowMove(row[cur.id], Outcome(v))
<1>1. row[cur.id] \in Row
  BY DEF Snap
<1>2. RowMove(row[cur.id], [row[cur.id] EXCEPT !.status = "done"])
  BY <1>1 DEF RowMove, Capped, Row
<1>3. RowMove(row[cur.id], Dead(row[cur.id]))
      /\ RowMove(row[cur.id], Retried(cur, row[cur.id]))
  BY <1>1, DeadMove, RetriedMove
<1>4. QED
  BY <1>2, <1>3 DEF Outcome, Verdict

RowsMove == \A c \in Cid : RowMove(row[c], row'[c])

LEMMA SettleMoves ==
  ASSUME Typed, CurLive, phase \in {"nonce", "sending"}, NEW v \in Verdict,
         row' = [row EXCEPT ![cur.id] = Outcome(v)]
  PROVE  RowsMove
<1>1. cur \in Snap /\ cur.id \in Cid /\ row \in [Cid -> Row]
      /\ row[cur.id].status \in {"inflight", "aborted"}
  BY DEF Typed, CurHeld, TypeOK, CurLive, Snap
<1>2. RowMove(row[cur.id], Outcome(v))
  BY <1>1, OutcomeMove
<1>3. QED
  BY <1>1, <1>2, SameRowMove DEF RowsMove

LEMMA IpcMoves == Typed /\ Ipc => RowsMove
<1> SUFFICES ASSUME Typed, Ipc, NEW x \in Cid PROVE RowMove(row[x], row'[x])
  BY DEF RowsMove
<1> USE DEF Typed, TypeOK
<1>1. ASSUME NEW c \in Cid, NEW p \in FPrint, NEW m \in Mesh,
             NEW s \in Session \cup {None}, AcceptSend(c, p, m, s)
      PROVE  RowMove(row[x], row'[x])
  <2>1. CASE UNCHANGED row
    BY <2>1, SameRowMove
  <2>2. CASE ~Present(c) /\ row' = [row EXCEPT ![c] = Fresh(p, m, s)]
    <3>1. Capped(Fresh(p, m, s))
      BY OutboxAssumption DEF Fresh, Capped, OutboxAssumption
    <3>2. row[c].status = "absent" /\ row'[c] = Fresh(p, m, s)
      BY <2>2 DEF Present
    <3>3. x # c => row'[x] = row[x]
      BY <2>2
    <3>4. QED
      BY <3>1, <3>2, <3>3, SameRowMove DEF RowMove
  <2>3. QED
    BY <1>1, <2>1, <2>2 DEF AcceptSend
<1>2. ASSUME NEW c \in Cid, NEW d \in Cid, Requeue(c, d)
      PROVE  RowMove(row[x], row'[x])
  <2>1. row[c].status \in {"pending", "inflight", "dead"} /\ row[d].status = "absent"
        /\ c # d
    BY <1>2 DEF Requeue, Requeueable, Present
  <2>2. row'[d] = Fresh(row[c].fp, None, None)
    BY <1>2, <2>1 DEF Requeue
  <2>3. Capped(row'[d])
    BY <2>2, OutboxAssumption DEF Fresh, Capped, OutboxAssumption
  <2>4. row[c] \in Row /\ row'[c] = [row[c] EXCEPT !.status = "aborted", !.next = d]
    BY <1>2, <2>1 DEF Requeue
  <2>5. RowMove(row[c], row'[c])
    BY <2>1, <2>4 DEF RowMove, Capped, Row
  <2>6. x \notin {c, d} => row'[x] = row[x]
    BY <1>2 DEF Requeue
  <2>7. QED
    BY <2>1, <2>3, <2>5, <2>6, SameRowMove DEF RowMove
<1>3. ASSUME NEW c \in Cid, RequeueTorn(c) PROVE RowMove(row[x], row'[x])
  <2>1. row[c].status \in {"pending", "inflight", "dead"} /\ row[c] \in Row
        /\ row'[c] = [row[c] EXCEPT !.status = "aborted"]
        /\ (x # c => row'[x] = row[x])
    BY <1>3 DEF RequeueTorn, Requeueable
  <2>2. RowMove(row[c], row'[c])
    BY <2>1 DEF RowMove, Capped, Row
  <2>3. QED
    BY <2>1, <2>2, SameRowMove
<1>4. QED
  BY <1>1, <1>2, <1>3 DEF Ipc

LEMMA WorkerMoves == Typed /\ CurLive /\ Worker => RowsMove
<1> SUFFICES ASSUME Typed, CurLive, Worker PROVE RowsMove
  OBVIOUS
<1>0. row \in [Cid -> Row] /\ \A b \in batch : b \in Snap /\ b.id \in Cid
  BY DEF Typed, TypeOK, Snap
<1>1. CASE DrainTick
  <2>1. \A c \in Cid : RowMove(row[c], Sweep(row[c]))
    BY <1>0, SameRowMove, DeadMove DEF Sweep, Dead, Live
  <2>2. QED
    BY <1>1, <2>1 DEF DrainTick, RowsMove
<1>2. CASE DrainRow
  <2>1. CASE UNCHANGED row
    BY <2>1, SameRowMove DEF RowsMove
  <2>2. ASSUME NEW b \in batch, row[b.id].status = "pending",
               NEW t \in {MarkInflight(b), Dead(MarkInflight(b)), NotReady(b),
                          Retried(b, MarkInflight(b))},
               row' = [row EXCEPT ![b.id] = t]
        PROVE  RowsMove
    <3>1. RowMove(row[b.id], t)
      BY <1>0, <2>2, MarkedMove, MarkedThenMove
    <3>2. QED
      BY <1>0, <2>2, <3>1, SameRowMove DEF RowsMove
  <2>3. QED
    BY <1>2, <2>1, <2>2 DEF DrainRow, DrainEnd, DrainSkip, DrainNoBroker, Dead,
       DrainSessionNotReady, DrainNonce, DrainSend, DrainSendClosing
<1>3. ASSUME NEW l \in Link, NonceReady(l) PROVE RowsMove
  <2>1. CASE UNCHANGED row
    BY <2>1, SameRowMove DEF RowsMove
  <2>2. CASE row' = [row EXCEPT ![cur.id] = Retried(cur, row[cur.id])]
    <3>1. Outcome("retry") = Retried(cur, row[cur.id])
      BY DEF Outcome
    <3>2. QED
      BY <1>3, <2>2, <3>1, SettleMoves DEF NonceReady, Verdict
  <2>3. QED
    BY <1>3, <2>1, <2>2 DEF NonceReady
<1>4. CASE AckTimeout
  BY <1>4, SettleMoves DEF AckTimeout, Settle, Verdict
<1>5. QED
  BY <1>1, <1>2, <1>3, <1>4 DEF Worker

LEMMA OtherMoves == Typed /\ CurLive /\ (Connections \/ Environment) => RowsMove
<1> SUFFICES ASSUME Typed, CurLive, Connections \/ Environment PROVE RowsMove
  OBVIOUS
<1>1. CASE UNCHANGED row
  BY <1>1, SameRowMove DEF RowsMove
<1>2. ASSUME phase = "sending", NEW v \in Verdict, Settle(v) PROVE RowsMove
  BY <1>2, SettleMoves DEF Settle
<1>3. CASE Connections
  <2>1. UNCHANGED row \/ (phase = "sending" /\ Settle("retry"))
    BY <1>3 DEF Connections, SocketOpens, HelloAcked, SocketCloses, SocketClosed,
       SessionReplaced, Closed, Register, Deregister, Sending
  <2>2. QED
    BY <1>1, <1>2, <2>1 DEF Verdict
<1>4. CASE Environment
  <2>1. ASSUME NEW f \in net, BrokerAccepts(f) PROVE UNCHANGED row
    BY <2>1 DEF BrokerAccepts
  <2>2. ASSUME NEW f \in net, NEW v \in {"retry", "permanent"}, BrokerRefuses(f, v)
        PROVE  UNCHANGED row
    BY <2>2 DEF BrokerRefuses
  <2>3. ASSUME NEW a \in acks, AckArrives(a) PROVE RowsMove
    <3>1. a.verdict \in Verdict
      BY DEF Typed, TypeOK, Ack
    <3>2. UNCHANGED row \/ (phase = "sending" /\ Settle(a.verdict))
      BY <2>3 DEF AckArrives, Awaited
    <3>3. QED
      BY <1>1, <1>2, <3>1, <3>2
  <2>4. CASE Tick
    <3>1. ASSUME NEW c \in Cid PROVE RowMove(row[c], row'[c])
      <4>1. row[c] \in Row
        BY DEF Typed, TypeOK
      <4>2. /\ row'[c].status = row[c].status /\ row'[c].fp = row[c].fp
            /\ row'[c].mesh = row[c].mesh /\ row'[c].session = row[c].session
            /\ row'[c].attempts = row[c].attempts
        BY <2>4, <4>1 DEF Tick, Row
      <4>3. QED
        BY <4>2 DEF RowMove, Capped
    <3>2. QED
      BY <3>1 DEF RowsMove
  <2>5. ASSUME NEW d \in Cid, Due(d) PROVE RowsMove
    <3>1. ASSUME NEW c \in Cid PROVE RowMove(row[c], row'[c])
      <4>1. row \in [Cid -> Row] /\ row[c] \in Row
        BY DEF Typed, TypeOK
      <4>2. /\ row'[c].status = row[c].status /\ row'[c].fp = row[c].fp
            /\ row'[c].mesh = row[c].mesh /\ row'[c].session = row[c].session
            /\ row'[c].attempts = row[c].attempts
        BY <2>5, <4>1 DEF Due, Row
      <4>3. QED
        BY <4>2 DEF RowMove, Capped
    <3>2. QED
      BY <3>1 DEF RowsMove
  <2>6. ASSUME NEW a \in SUBSET Mesh \ {{}}, Restart(a) PROVE UNCHANGED row
    BY <2>6 DEF Restart
  <2>7. QED
    BY <1>1, <1>4, <2>1, <2>2, <2>3, <2>4, <2>5, <2>6 DEF Environment
<1>5. QED
  BY <1>3, <1>4

LEMMA StepMoves == Typed /\ CurLive /\ [Next]_vars => RowsMove
<1>1. UNCHANGED vars => RowsMove
  BY SameRowMove DEF vars, RowsMove
<1>2. QED
  BY <1>1, IpcMoves, WorkerMoves, OtherMoves DEF Next

-----------------------------------------------------------------------------
(* The awaited row, and the rows in general.                               *)

LEMMA CurLiveStep == Typed /\ CurLive /\ [Next]_vars => CurLive'
<1> SUFFICES ASSUME Typed, CurLive, [Next]_vars, phase' \in {"nonce", "sending"}
             PROVE  row'[cur'.id].status \in {"inflight", "aborted"}
  BY DEF CurLive
<1>0. row \in [Cid -> Row] /\ (\A b \in batch : b \in Snap /\ b.id \in Cid)
  BY DEF Typed, TypeOK, Snap
<1>1. ASSUME NEW b \in batch, row[b.id].status = "pending", cur' = b,
             row' = [row EXCEPT ![b.id] = MarkInflight(b)]
      PROVE  row'[cur'.id].status = "inflight"
  BY <1>0, <1>1, MarkedMove
<1>2. CASE UNCHANGED <<row, cur, phase>>
  BY <1>2 DEF CurLive
<1>3. CASE cur' = cur /\ phase \in {"nonce", "sending"} /\ UNCHANGED row
  BY <1>3 DEF CurLive
<1>4. CASE Ipc
  <2>1. UNCHANGED <<cur, phase>> /\ phase \in {"nonce", "sending"}
    BY <1>4 DEF Ipc, AcceptSend, Requeue, RequeueTorn, worker
  <2>2. cur \in Snap /\ cur.id \in Cid /\ row[cur.id].status \in {"inflight", "aborted"}
    BY <2>1 DEF Typed, CurHeld, CurLive, Snap
  <2>3. ASSUME NEW c \in Cid, NEW p \in FPrint, NEW m \in Mesh,
               NEW s \in Session \cup {None}, AcceptSend(c, p, m, s)
        PROVE  row'[cur.id] = row[cur.id]
    BY <1>0, <2>2, <2>3 DEF AcceptSend, Present
  <2>4. ASSUME NEW c \in Cid, NEW d \in Cid, Requeue(c, d)
        PROVE  row'[cur.id].status \in {"inflight", "aborted"}
    <3>1. cur.id # d /\ (cur.id # c => row'[cur.id] = row[cur.id])
      BY <1>0, <2>2, <2>4 DEF Requeue, Present
    <3>2. row[c] \in Row /\ c # d
      BY <1>0, <2>4 DEF Requeue, Requeueable, Present
    <3>3. row'[c].status = "aborted"
      BY <1>0, <2>4, <3>2 DEF Requeue, Row
    <3>4. QED
      BY <2>2, <3>1, <3>3
  <2>5. ASSUME NEW c \in Cid, RequeueTorn(c)
        PROVE  row'[cur.id].status \in {"inflight", "aborted"}
    <3>1. row[c] \in Row
      BY <1>0
    <3>2. row'[c].status = "aborted" /\ (cur.id # c => row'[cur.id] = row[cur.id])
      BY <1>0, <2>5, <3>1 DEF RequeueTorn, Row
    <3>3. QED
      BY <2>2, <3>2
  <2>6. QED
    BY <1>4, <2>1, <2>2, <2>3, <2>4, <2>5 DEF Ipc
<1>5. CASE Worker
  <2>1. CASE DrainTick
    BY <2>1 DEF DrainTick
  <2>2. CASE DrainRow
    BY <1>1, <2>2 DEF DrainRow, DrainEnd, DrainSkip, DrainNoBroker,
       DrainSessionNotReady, DrainNonce, DrainSend, DrainSendClosing, Submit
  <2>3. ASSUME NEW l \in Link, NonceReady(l)
        PROVE  cur' = cur /\ phase \in {"nonce", "sending"} /\ UNCHANGED row
    BY <2>3 DEF NonceReady, Submit
  <2>4. CASE AckTimeout
    BY <2>4 DEF AckTimeout, Settle
  <2>5. QED
    BY <1>3, <1>5, <2>1, <2>2, <2>3, <2>4 DEF Worker
<1>6. CASE Connections
  BY <1>2, <1>6 DEF Connections, SocketOpens, HelloAcked, SocketCloses, SocketClosed,
     SessionReplaced, Closed, Register, Deregister, Settle, worker
<1>7. CASE Environment
  <2>1. CASE Tick
    <3>1. UNCHANGED <<cur, phase>> /\ phase \in {"nonce", "sending"}
      BY <2>1 DEF Tick, worker
    <3>2. cur.id \in Cid /\ row[cur.id].status \in {"inflight", "aborted"}
          /\ row[cur.id] \in Row
      BY <1>0, <3>1 DEF Typed, CurHeld, CurLive, Snap
    <3>3. row'[cur.id].status = row[cur.id].status
      BY <2>1, <3>2 DEF Tick, Row
    <3>4. QED
      BY <3>1, <3>2, <3>3
  <2>2. ASSUME NEW c \in Cid, Due(c)
        PROVE  row'[cur'.id].status \in {"inflight", "aborted"}
    <3>1. UNCHANGED <<cur, phase>> /\ phase \in {"nonce", "sending"}
      BY <2>2 DEF Due, worker
    <3>2. cur.id \in Cid /\ row[cur.id].status \in {"inflight", "aborted"}
      BY <3>1 DEF Typed, CurHeld, CurLive, Snap
    <3>3. row'[cur.id] = row[cur.id]
      BY <1>0, <2>2, <3>2 DEF Due
    <3>4. QED
      BY <3>1, <3>2, <3>3
  <2>3. ASSUME NEW f \in net, BrokerAccepts(f) PROVE UNCHANGED <<row, cur, phase>>
    BY <2>3 DEF BrokerAccepts, worker
  <2>4. ASSUME NEW f \in net, NEW v \in {"retry", "permanent"}, BrokerRefuses(f, v)
        PROVE  UNCHANGED <<row, cur, phase>>
    BY <2>4 DEF BrokerRefuses, worker
  <2>5. ASSUME NEW a \in acks, AckArrives(a) PROVE UNCHANGED <<row, cur, phase>>
    BY <2>5 DEF AckArrives, Settle
  <2>6. ASSUME NEW a \in SUBSET Mesh \ {{}}, Restart(a) PROVE FALSE
    BY <2>6 DEF Restart
  <2>7. QED
    BY <1>2, <1>7, <2>1, <2>2, <2>3, <2>4, <2>5, <2>6 DEF Environment
<1>8. QED
  BY <1>2, <1>4, <1>5, <1>6, <1>7 DEF Next, vars

Loop == Typed /\ CurLive

LEMMA LoopInvariant == Spec => []Loop
<1>1. Init => Loop
  BY InitTyped DEF Init, CurLive, Loop
<1>2. Loop /\ [Next]_vars => Loop'
  BY StepTyped, CurLiveStep DEF Loop
<1>3. QED
  BY <1>1, <1>2, PTL DEF Spec

\* The attempt cap, for every cap and every number of rows and restarts.
THEOREM OutboxAttempts == Spec => []AttemptsCapped
<1>1. Init => AttemptsCapped
  BY OutboxAssumption DEF Init, AttemptsCapped, NoRow, OutboxAssumption
<1>2. Loop /\ AttemptsCapped /\ [Next]_vars => AttemptsCapped'
  BY StepMoves DEF Loop, RowsMove, RowMove, Capped, AttemptsCapped
<1>3. QED
  BY <1>1, <1>2, LoopInvariant, PTL DEF Spec

\* No step takes a settled row back, late acks and requeues included.
THEOREM OutboxSettledStays == Spec => SettledStays
<1>1. Loop /\ [Next]_vars =>
        [\A c \in Cid :
           /\ row[c].status = "done" => row'[c].status = "done"
           /\ row[c].status = "dead" => row'[c].status \in {"dead", "aborted"}]_vars
  BY StepMoves DEF Loop, RowsMove, RowMove
<1>2. QED
  BY <1>1, LoopInvariant, PTL DEF Spec, SettledStays

-----------------------------------------------------------------------------
(* What the wire carries is what the table says.                           *)

\* A frame shows the request and the session of a row that exists.
FrameTrue(f) ==
  /\ row[f.id].status # "absent"
  /\ f.fp = row[f.id].fp
  /\ row[f.id].session # None => f.via = row[f.id].session

FramesTrue == /\ \A f \in net : FrameTrue(f)
              /\ \A c \in Cid : \A f \in got[c] : f.id = c /\ FrameTrue(f)

PromisesTrue == \A x \in promised : /\ row[x[1]].status # "absent"
                                    /\ row[x[1]].fp = x[2]

\* An ok verdict on the wire is one the broker gave.
AcksTrue == \A a \in acks : a.verdict = "ok" => got[a.id] # {}

LEMMA FrameStays ==
  ASSUME Typed, RowsMove, NEW f \in Frame, FrameTrue(f)
  PROVE  FrameTrue(f)'
BY DEF Frame, FrameTrue, RowsMove, RowMove

\* What one step puts on the wire: at most a frame of the awaited row.
LEMMA NetMoves ==
  ASSUME Loop, [Next]_vars
  PROVE  \A f \in net' : f \in net \/ (f \in Frame /\ FrameTrue(f)')
<1>0. RowsMove
  BY StepMoves DEF Loop
<1>1. ASSUME NEW b \in Snap, NEW l \in Link, Carrier(b.id, l),
             row[b.id].status # "absent", NEW f, f = FrameOf(b.id, l)
      PROVE  f \in Frame /\ FrameTrue(f)'
  <2>1. f \in Frame
    BY <1>1, FrameTyped DEF Loop, Typed, Snap
  <2>2. FrameTrue(f)
    BY <1>1 DEF FrameTrue, FrameOf, Carrier
  <2>3. QED
    BY <1>0, <2>1, <2>2, FrameStays DEF Loop
<1>2. CASE net' \subseteq net
  BY <1>2
<1>3. ASSUME NEW b \in Snap, NEW l \in Link, Carrier(b.id, l),
             row[b.id].status # "absent", net' = net \cup {FrameOf(b.id, l)}
      PROVE  \A f \in net' : f \in net \/ (f \in Frame /\ FrameTrue(f)')
  BY <1>1, <1>3
<1>4. CASE Worker
  <2>1. ASSUME NEW b \in batch, NEW l \in Link, DrainSend(b, l)
        PROVE  net' \subseteq net \/
               (Carrier(b.id, l) /\ row[b.id].status # "absent"
                /\ net' = net \cup {FrameOf(b.id, l)})
    BY <2>1 DEF DrainSend, Submit
  <2>2. \A b \in batch : b \in Snap
    BY DEF Loop, Typed, TypeOK
  <2>3. ASSUME NEW l \in Link, NonceReady(l)
        PROVE  net' \subseteq net \/
               (cur \in Snap /\ Carrier(cur.id, l) /\ row[cur.id].status # "absent"
                /\ net' = net \cup {FrameOf(cur.id, l)})
    BY <2>3 DEF NonceReady, Submit, Loop, CurLive, Typed, CurHeld, wire
  <2>4. CASE DrainRow
    BY <1>2, <1>3, <2>1, <2>2, <2>4 DEF DrainRow, DrainEnd, DrainSkip, DrainNoBroker,
       DrainSessionNotReady, DrainNonce, DrainSendClosing, wire
  <2>5. QED
    BY <1>2, <1>3, <1>4, <2>3, <2>4 DEF Worker, DrainTick, AckTimeout, wire
<1>5. CASE Connections
  <2>1. ASSUME NEW l \in Link, HelloAcked(l)
        PROVE  net' \subseteq net \/
               (cur \in Snap /\ Carrier(cur.id, l) /\ row[cur.id].status # "absent"
                /\ net' = net \cup {FrameOf(cur.id, l)})
    BY <2>1 DEF HelloAcked, Sending, Loop, CurLive, Typed, CurHeld
  <2>2. QED
    BY <1>2, <1>3, <1>5, <2>1 DEF Connections, SocketOpens, SocketCloses,
       SocketClosed, SessionReplaced, Closed, Register, Deregister
<1>6. CASE Ipc \/ Environment \/ UNCHANGED vars
  BY <1>2, <1>6 DEF Ipc, AcceptSend, Requeue, RequeueTorn, Environment,
     BrokerAccepts, BrokerRefuses, AckArrives, Tick, Due, Restart, wire, vars
<1>7. QED
  BY <1>4, <1>5, <1>6 DEF Next

\* What one step adds to got: one frame that was on the wire, under its id.
LEMMA GotMoves ==
  ASSUME Loop, [Next]_vars
  PROVE  \/ UNCHANGED got
         \/ \E f \in net : BrokerAccepts(f)
BY DEF Next, Worker, DrainRow, DrainTick, DrainEnd, DrainSkip, DrainNoBroker,
   DrainSessionNotReady, DrainNonce, DrainSend, DrainSendClosing, NonceReady,
   AckTimeout, Ipc, AcceptSend, Requeue, RequeueTorn, Connections, SocketOpens,
   HelloAcked, SocketCloses, SocketClosed, SessionReplaced, Closed, Register,
   Deregister, Environment, BrokerRefuses, AckArrives, Tick, Due, Restart, vars

LEMMA FramesTrueStep == Loop /\ FramesTrue /\ [Next]_vars => FramesTrue'
<1> SUFFICES ASSUME Loop, FramesTrue, [Next]_vars PROVE FramesTrue'
  OBVIOUS
<1>1. RowsMove
  BY StepMoves DEF Loop
<1>2. \A f \in net : f \in Frame /\ FrameTrue(f)'
  BY <1>1, FrameStays DEF Loop, Typed, TypeOK, FramesTrue
<1>3. \A f \in net' : FrameTrue(f)'
  BY <1>2, NetMoves
<1>4. \A c \in Cid : \A f \in got[c] : f.id = c /\ FrameTrue(f)'
  BY <1>1, FrameStays DEF Loop, Typed, TypeOK, FramesTrue
<1>5. \A c \in Cid : \A f \in got'[c] : f.id = c /\ FrameTrue(f)'
  <2>1. CASE UNCHANGED got
    BY <1>4, <2>1
  <2>2. ASSUME NEW g \in net, BrokerAccepts(g)
        PROVE  \A c \in Cid : \A f \in got'[c] : f.id = c /\ FrameTrue(f)'
    <3>1. got' = [got EXCEPT ![g.id] = got[g.id] \cup {g}] /\ got \in [Cid -> SUBSET Frame]
      BY <2>2 DEF BrokerAccepts, Loop, Typed, TypeOK
    <3>2. \A c \in Cid : \A f \in got'[c] : f \in got[c] \/ (f = g /\ c = g.id)
      BY <3>1
    <3>3. QED
      BY <1>2, <1>4, <3>2
  <2>3. QED
    BY <2>1, <2>2, GotMoves
<1>6. QED
  BY <1>3, <1>5 DEF FramesTrue

LEMMA PromisesTrueStep == Loop /\ PromisesTrue /\ [Next]_vars => PromisesTrue'
<1> SUFFICES ASSUME Loop, PromisesTrue, [Next]_vars PROVE PromisesTrue'
  OBVIOUS
<1>1. RowsMove
  BY StepMoves DEF Loop
<1>2. \A x \in promised : x[1] \in Cid
  BY DEF Loop, Typed, TypeOK
<1>3. \A x \in promised : row'[x[1]].status # "absent" /\ row'[x[1]].fp = x[2]
  BY <1>1, <1>2 DEF PromisesTrue, RowsMove, RowMove
<1>4. ASSUME NEW c \in Cid, NEW p \in FPrint, NEW m \in Mesh,
             NEW s \in Session \cup {None}, AcceptSend(c, p, m, s)
      PROVE  PromisesTrue'
  <2>0. row \in [Cid -> Row]
    BY DEF Loop, Typed, TypeOK
  <2>1. row'[c].status # "absent" /\ row'[c].fp = p
    <3>1. CASE Present(c)
      BY <1>4, <3>1 DEF AcceptSend, Match, Present
    <3>2. CASE ~Present(c)
      <4>1. row'[c] = Fresh(p, m, s)
        BY <1>4, <2>0, <3>2 DEF AcceptSend
      <4>2. QED
        BY <4>1 DEF Fresh
    <3>3. QED
      BY <3>1, <3>2
  <2>2. promised' = promised \cup {<<c, p>>}
    BY <1>4 DEF AcceptSend
  <2>3. QED
    BY <1>3, <2>1, <2>2 DEF PromisesTrue
<1>5. CASE UNCHANGED promised
  BY <1>3, <1>5 DEF PromisesTrue
<1>6. CASE Ipc
  BY <1>4, <1>5, <1>6 DEF Ipc, Requeue, RequeueTorn
<1>7. CASE Worker \/ Connections \/ Environment \/ UNCHANGED vars
  BY <1>5, <1>7 DEF Worker, DrainRow, DrainTick, DrainEnd, DrainSkip,
     DrainNoBroker, DrainSessionNotReady, DrainNonce, DrainSend, DrainSendClosing,
     NonceReady, AckTimeout, Connections, SocketOpens, HelloAcked, SocketCloses,
     SocketClosed, SessionReplaced, Closed, Register, Deregister, Environment,
     BrokerAccepts, BrokerRefuses, AckArrives, Tick, Due, Restart, vars
<1>8. QED
  BY <1>6, <1>7 DEF Next

LEMMA WireTrue == Spec => [](Loop /\ FramesTrue /\ PromisesTrue)
<1>1. Init => FramesTrue /\ PromisesTrue
  BY DEF Init, FramesTrue, PromisesTrue
<1>2. QED
  BY <1>1, LoopInvariant, FramesTrueStep, PromisesTrueStep, PTL DEF Spec

\* One request per id, at the caller, in the table and at the broker.
THEOREM OutboxOneRequest == Spec => []OneRequestPerId
<1>1. Loop /\ FramesTrue /\ PromisesTrue => OneRequestPerId
  <2> SUFFICES ASSUME Loop, FramesTrue, PromisesTrue, NEW x \in promised
               PROVE  /\ \A y \in promised : y[1] = x[1] => y = x
                      /\ \A f \in got[x[1]] : f.fp = x[2]
    BY DEF OneRequestPerId
  <2>1. promised \subseteq Cid \X FPrint
    BY DEF Loop, Typed, TypeOK
  <2>2. ASSUME NEW y \in promised, y[1] = x[1] PROVE y = x
    <3>1. y[2] = x[2]
      BY <2>2 DEF PromisesTrue
    <3>2. y = <<y[1], y[2]>> /\ x = <<x[1], x[2]>>
      BY <2>1
    <3>3. QED
      BY <2>2, <3>1, <3>2
  <2>3. \A f \in got[x[1]] : f.fp = x[2]
    BY <2>1 DEF FramesTrue, FrameTrue, PromisesTrue
  <2>4. QED
    BY <2>2, <2>3
<1>2. QED
  BY <1>1, WireTrue, PTL

\* A session's rows only ever travel on that session's WS.
THEOREM OutboxSessionLink == Spec => []SessionKeepsItsLink
<1>1. Loop /\ FramesTrue => SessionKeepsItsLink
  BY DEF FramesTrue, FrameTrue, SessionKeepsItsLink
<1>2. QED
  BY <1>1, WireTrue, PTL

-----------------------------------------------------------------------------
(* Acks: what completes a row.                                             *)

\* Settling a row with v makes it done only if v is ok, and touches no other.
LEMMA SettleDone ==
  ASSUME Loop, phase = "sending", NEW v \in Verdict, Settle(v),
         NEW c \in Cid, row'[c].status = "done"
  PROVE  row[c].status = "done" \/ (v = "ok" /\ c = cur.id)
<1>1. row \in [Cid -> Row] /\ cur.id \in Cid /\ row[c] \in Row
  BY DEF Loop, Typed, TypeOK, CurHeld, Snap
<1>2. CASE c # cur.id
  BY <1>1, <1>2 DEF Settle
<1>3. CASE c = cur.id /\ v # "ok"
  BY <1>1, <1>3 DEF Settle, Outcome, Verdict, Dead, Retried, Backoff, Row
<1>4. QED
  BY <1>2, <1>3

\* Acks come from the broker alone.
LEMMA AcksMove ==
  ASSUME Loop, [Next]_vars
  PROVE  \/ acks' \subseteq acks
         \/ \E f \in net : BrokerAccepts(f)
         \/ \E f \in net, v \in {"retry", "permanent"} : BrokerRefuses(f, v)
<1>1. CASE Ipc
  BY <1>1 DEF Ipc, AcceptSend, Requeue, RequeueTorn, wire
<1>2. CASE Worker
  BY <1>2 DEF Worker, DrainRow, DrainTick, DrainEnd, DrainSkip, DrainNoBroker,
     DrainSessionNotReady, DrainNonce, DrainSend, DrainSendClosing, NonceReady,
     AckTimeout, Submit, wire
<1>3. CASE Connections
  BY <1>3 DEF Connections, SocketOpens, HelloAcked, SocketCloses, SocketClosed,
     SessionReplaced, Closed, Register, Deregister
<1>4. CASE Environment \/ UNCHANGED vars
  BY <1>4 DEF Environment, AckArrives, Tick, Due, Restart, wire, vars
<1>5. QED
  BY <1>1, <1>2, <1>3, <1>4 DEF Next

LEMMA AcksTrueStep == Loop /\ FramesTrue /\ AcksTrue /\ [Next]_vars => AcksTrue'
<1> SUFFICES ASSUME Loop, FramesTrue, AcksTrue, [Next]_vars PROVE AcksTrue'
  OBVIOUS
<1>0. (\A a \in acks : a \in Ack) /\ (\A f \in net : f.id \in Cid)
      /\ got \in [Cid -> SUBSET Frame]
  BY DEF Loop, Typed, TypeOK, Frame
<1>1. \A c \in Cid : got[c] \subseteq got'[c]
  BY <1>0, GotMoves DEF BrokerAccepts
<1>2. \A a \in acks : a.verdict = "ok" => got'[a.id] # {}
  BY <1>0, <1>1 DEF AcksTrue, Ack
<1>3. ASSUME NEW f \in net, BrokerAccepts(f) PROVE AcksTrue'
  <2>1. got'[f.id] # {}
    BY <1>0, <1>3 DEF BrokerAccepts
  <2>2. QED
    BY <1>2, <1>3, <2>1 DEF AcksTrue, BrokerAccepts
<1>4. ASSUME NEW f \in net, NEW v \in {"retry", "permanent"}, BrokerRefuses(f, v)
      PROVE  AcksTrue'
  BY <1>2, <1>4 DEF AcksTrue, BrokerRefuses
<1>5. QED
  BY <1>2, <1>3, <1>4, AcksMove DEF AcksTrue

LEMMA DoneStep ==
  Loop /\ AcksTrue /\ DoneWasAccepted /\ [Next]_vars => DoneWasAccepted'
<1> SUFFICES ASSUME Loop, AcksTrue, DoneWasAccepted, [Next]_vars,
                    NEW c \in Cid, row'[c].status = "done"
             PROVE  got'[c] # {}
  BY DEF DoneWasAccepted
<1>0. /\ row \in [Cid -> Row] /\ got \in [Cid -> SUBSET Frame]
      /\ \A f \in net : f.id \in Cid
      /\ \A b \in batch : b \in Snap /\ b.id \in Cid
  BY DEF Loop, Typed, TypeOK, Frame, Snap
<1>1. got[c] \subseteq got'[c]
  BY <1>0, GotMoves DEF BrokerAccepts
<1>2. CASE row[c].status = "done"
  BY <1>1, <1>2 DEF DoneWasAccepted
<1>3. CASE UNCHANGED row
  BY <1>2, <1>3
<1>4. ASSUME NEW v \in Verdict, v # "ok", phase = "sending", Settle(v)
      PROVE  got'[c] # {}
  BY <1>2, <1>4, SettleDone
<1>5. ASSUME NEW a \in acks, AckArrives(a) PROVE got'[c] # {}
  <2>1. a \in Ack /\ a.verdict \in Verdict
    BY DEF Loop, Typed, TypeOK, Ack
  <2>2. CASE Awaited(a)
    BY <1>1, <1>2, <1>5, <2>1, <2>2, SettleDone DEF AckArrives, Awaited, AcksTrue
  <2>3. QED
    BY <1>3, <1>5, <2>2 DEF AckArrives
<1>6. ASSUME NEW b \in Snap, NEW r, row' = [row EXCEPT ![b.id] = r], r.status # "done"
      PROVE  got'[c] # {}
  <2>1. b.id \in Cid
    BY DEF Snap
  <2>2. QED
    BY <1>0, <1>2, <1>6, <2>1
<1>7. CASE Ipc
  <2>1. ASSUME NEW d \in Cid, NEW p \in FPrint, NEW m \in Mesh,
               NEW s \in Session \cup {None}, AcceptSend(d, p, m, s)
        PROVE  got'[c] # {}
    BY <1>0, <1>2, <2>1 DEF AcceptSend, Fresh
  <2>2. ASSUME NEW d \in Cid, NEW e \in Cid, Requeue(d, e) PROVE got'[c] # {}
    <3>1. row[d] \in Row /\ row[c] \in Row
      BY <1>0
    <3>2. QED
      BY <1>0, <1>2, <2>2, <3>1 DEF Requeue, Fresh, Row
  <2>3. ASSUME NEW d \in Cid, RequeueTorn(d) PROVE got'[c] # {}
    <3>1. row[d] \in Row
      BY <1>0
    <3>2. QED
      BY <1>0, <1>2, <2>3, <3>1 DEF RequeueTorn, Row
  <2>4. QED
    BY <1>7, <2>1, <2>2, <2>3 DEF Ipc
<1>8. CASE Worker
  <2>1. CASE DrainTick
    <3>1. row'[c] = Sweep(row[c])
      BY <2>1 DEF DrainTick
    <3>2. QED
      BY <1>0, <1>2, <2>1, <3>1 DEF Sweep, Row
  <2>2. ASSUME NEW b \in Snap, row[b.id].status = "pending"
        PROVE  /\ MarkInflight(b).status # "done" /\ Retried(b, MarkInflight(b)).status # "done"
               /\ NotReady(b).status # "done"
               /\ [MarkInflight(b) EXCEPT !.status = "dead"].status # "done"
    <3>1. MarkInflight(b) \in Row /\ MarkInflight(b).status = "inflight"
      BY <1>0, <2>2, MarkedRow, MarkedMove
    <3>2. Retried(b, MarkInflight(b)).status # "done" /\ Dead(MarkInflight(b)).status # "done"
      BY <3>1 DEF Retried, Dead, Backoff, Row
    <3>3. QED
      BY <3>1, <3>2 DEF NotReady, Dead
  <2>3. ASSUME NEW b \in batch, NEW l \in Link, DrainSend(b, l) PROVE got'[c] # {}
    BY <1>0, <1>6, <2>2, <2>3 DEF DrainSend
  <2>4. ASSUME NEW b \in batch, NEW l \in Link, DrainSendClosing(b, l) PROVE got'[c] # {}
    BY <1>0, <1>6, <2>2, <2>4 DEF DrainSendClosing
  <2>5. ASSUME NEW b \in batch,
               DrainNoBroker(b) \/ DrainSessionNotReady(b) \/ DrainNonce(b)
        PROVE  got'[c] # {}
    BY <1>0, <1>6, <2>2, <2>5 DEF DrainNoBroker, DrainSessionNotReady, DrainNonce
  <2>6. ASSUME NEW l \in Link, NonceReady(l) PROVE got'[c] # {}
    <3>1. cur \in Snap /\ cur.id \in Cid /\ row[cur.id] \in Row
          /\ row[cur.id].status \in {"inflight", "aborted"}
      BY <2>6 DEF NonceReady, Loop, Typed, TypeOK, CurHeld, CurLive, Snap
    <3>2. Retried(cur, row[cur.id]).status # "done"
      BY <3>1 DEF Retried, Dead, Backoff, Row
    <3>3. QED
      BY <1>3, <1>6, <2>6, <3>1, <3>2 DEF NonceReady
  <2>7. CASE AckTimeout
    BY <1>4, <2>7 DEF AckTimeout, Verdict
  <2>8. QED
    BY <1>3, <1>8, <2>1, <2>3, <2>4, <2>5, <2>6, <2>7 DEF Worker, DrainRow,
       DrainEnd, DrainSkip
<1>9. CASE Connections
  BY <1>3, <1>4, <1>9 DEF Connections, SocketOpens, HelloAcked, SocketCloses,
     SocketClosed, SessionReplaced, Closed, Register, Deregister, Sending, Verdict
<1>10. CASE Environment
  <2>1. CASE Tick
    <3>1. row[c] \in Row
      BY <1>0
    <3>2. row'[c].status = row[c].status
      BY <2>1, <3>1 DEF Tick, Row
    <3>3. QED
      BY <1>2, <3>2
  <2>2. ASSUME NEW d \in Cid, Due(d) PROVE got'[c] # {}
    <3>1. row[d] \in Row
      BY <1>0
    <3>2. QED
      BY <1>0, <1>2, <2>2, <3>1 DEF Due, Row
  <2>3. QED
    BY <1>3, <1>5, <1>10, <2>1, <2>2 DEF Environment, BrokerAccepts, BrokerRefuses,
       Restart
<1>11. QED
  BY <1>3, <1>7, <1>8, <1>9, <1>10 DEF Next, vars

\* Only the broker's own acceptance of an id completes the row of that id.
THEOREM OutboxDone == Spec => []DoneWasAccepted
<1>1. Init => AcksTrue /\ DoneWasAccepted
  BY DEF Init, AcksTrue, DoneWasAccepted, NoRow
<1>2. QED
  BY <1>1, WireTrue, AcksTrueStep, DoneStep, PTL DEF Spec


-----------------------------------------------------------------------------
(* Who works on an inflight row.                                           *)

Working == phase \in {"nonce", "sending"}
Owned == \A c \in Cid : row[c].status = "inflight" => Working /\ cur.id = c

\* No step but the loop's own marks a row inflight.
Marks == \E c \in Cid : row'[c].status = "inflight" /\ row[c].status # "inflight"

LEMMA OwnedKept ==
  ASSUME Owned, ~Marks, Working => Working' /\ cur' = cur
  PROVE  Owned'
BY DEF Owned, Marks

\* Of what the awaited send comes to, none leaves its row inflight.
LEMMA OutcomeOwned ==
  ASSUME row \in [Cid -> Row], cur \in Snap, NEW v \in Verdict, Settle(v), Owned
  PROVE  Owned'
<1>1. cur.id \in Cid /\ row[cur.id] \in Row
  BY DEF Snap
<1>2. Outcome(v).status # "inflight"
  BY <1>1 DEF Outcome, Verdict, Dead, Retried, Backoff, Row
<1>3. row'[cur.id].status # "inflight" /\ \A c \in Cid \ {cur.id} : row'[c] = row[c]
  BY <1>1, <1>2 DEF Settle
<1>4. QED
  BY <1>3 DEF Owned

\* One row is written by the loop, and leaves its hands.
LEMMA RowLeft ==
  ASSUME row \in [Cid -> Row], NEW b \in Snap, NEW x, x.status # "inflight",
         row' = [row EXCEPT ![b.id] = x]
  PROVE  ~Marks
BY DEF Marks

\* The loop's steps, while it has the event loop.
LEMMA DrainOwned == Typed /\ Owned /\ DrainRow => Owned'
<1> SUFFICES ASSUME Typed, Owned, DrainRow PROVE Owned'
  OBVIOUS
<1>1. /\ row \in [Cid -> Row] /\ phase = "rows" /\ ~Working
      /\ \A c \in Cid : row[c].status # "inflight"
  BY DEF Typed, TypeOK, DrainRow, DrainEnd, DrainSkip, DrainNoBroker, DrainSessionNotReady, DrainNonce,
         DrainSend, DrainSendClosing, Owned, Working
<1>2. CASE DrainEnd
  BY <1>1, <1>2 DEF DrainEnd, Owned
<1>3. ASSUME NEW b \in batch, DrainSkip(b) \/ DrainNoBroker(b) \/ DrainSessionNotReady(b)
                                \/ \E l \in Link : DrainSendClosing(b, l)
      PROVE  Owned'
  <2>1. b \in Snap /\ MarkInflight(b) \in Row
    BY <1>1, MarkedRow DEF Typed, TypeOK
  <2>2. CASE DrainSkip(b)
    BY <1>1, <2>2 DEF DrainSkip, Owned
  <2>3. CASE DrainNoBroker(b)
    <3>1. PICK x : x = [MarkInflight(b) EXCEPT !.status = "dead"]
      OBVIOUS
    <3>2. x.status # "inflight"
      BY <2>1, <3>1 DEF Row
    <3>3. ~Marks
      BY <1>1, <2>1, <2>3, <3>1, <3>2, RowLeft DEF DrainNoBroker
    <3>4. QED
      BY <1>1, <3>3, OwnedKept
  <2>4. CASE DrainSessionNotReady(b)
    <3>1. NotReady(b).status # "inflight"
      BY <2>1 DEF NotReady, Dead, Retried, Backoff, Row
    <3>2. ~Marks
      BY <1>1, <2>1, <2>4, <3>1, RowLeft DEF DrainSessionNotReady
    <3>3. QED
      BY <1>1, <3>2, OwnedKept
  <2>5. CASE \E l \in Link : DrainSendClosing(b, l)
    <3>1. Retried(b, MarkInflight(b)).status # "inflight"
      BY <2>1 DEF Dead, Retried, Backoff, Row
    <3>2. ~Marks
      BY <1>1, <2>1, <2>5, <3>1, RowLeft DEF DrainSendClosing
    <3>3. QED
      BY <1>1, <3>2, OwnedKept
  <2>6. QED
    BY <1>3, <2>2, <2>3, <2>4, <2>5
<1>4. ASSUME NEW b \in batch, DrainNonce(b) \/ \E l \in Link : DrainSend(b, l)
      PROVE  Owned'
  <2>1. phase' \in {"nonce", "sending"} /\ cur' = b
        /\ row' = [row EXCEPT ![b.id] = MarkInflight(b)]
    BY <1>4 DEF DrainNonce, DrainSend, Submit
  <2>2. \A c \in Cid : c # b.id => row'[c].status # "inflight"
    BY <1>1, <2>1
  <2>3. QED
    BY <2>1, <2>2 DEF Owned, Working
<1>5. QED
  BY <1>2, <1>3, <1>4 DEF DrainRow

\* The rest of the worker's steps.
LEMMA WorkerOwned == Typed /\ Owned /\ Worker => Owned'
<1> SUFFICES ASSUME Typed, Owned, Worker PROVE Owned'
  OBVIOUS
<1>1. row \in [Cid -> Row] /\ (Working => cur \in Snap)
  BY DEF Typed, TypeOK, CurHeld, Working
<1>2. CASE DrainTick
  <2>1. \A c \in Cid : row[c].status # "inflight"
    BY <1>2 DEF DrainTick, Owned, Working
  <2>2. \A c \in Cid : row'[c] = row[c] \/ row'[c].status = "dead"
    BY <1>1, <1>2 DEF DrainTick, Sweep, Row
  <2>3. QED
    BY <2>1, <2>2 DEF Owned
<1>3. CASE \E l \in Link : NonceReady(l)
  <2>1. PICK l \in Link : NonceReady(l)
    BY <1>3
  <2>2. cur \in Snap /\ cur.id \in Cid /\ row[cur.id] \in Row
    BY <1>1, <2>1 DEF NonceReady, Working, Snap
  <2>3. CASE link[l] = "closing"
    <3>1. Retried(cur, row[cur.id]).status # "inflight"
      BY <2>2 DEF Dead, Retried, Backoff, Row
    <3>2. row'[cur.id].status # "inflight" /\ \A c \in Cid \ {cur.id} : row'[c] = row[c]
      BY <1>1, <2>1, <2>2, <2>3, <3>1 DEF NonceReady
    <3>3. QED
      BY <3>2 DEF Owned
  <2>4. CASE link[l] # "closing"
    BY <2>1, <2>4 DEF NonceReady, Submit, Owned, Working
  <2>5. QED
    BY <2>3, <2>4
<1>4. CASE AckTimeout
  <2>1. Settle("retry") /\ "retry" \in Verdict /\ cur \in Snap
    BY <1>1, <1>4 DEF AckTimeout, Verdict, Working
  <2>2. QED
    BY <1>1, <2>1, OutcomeOwned
<1>5. QED
  BY <1>2, <1>3, <1>4, DrainOwned DEF Worker

\* Steps beside the loop mark no row, and leave it at its row or settle that.
LEMMA OtherOwned ==
  Typed /\ Owned /\ (Ipc \/ Connections \/ Environment) /\ crashes' = crashes => Owned'
<1> SUFFICES ASSUME Typed, Owned, Ipc \/ Connections \/ Environment, crashes' = crashes
             PROVE  Owned'
  OBVIOUS
<1>1. /\ row \in [Cid -> Row] /\ (Working => cur \in Snap)
      /\ crashes \in Nat
  BY OutboxAssumption DEF Typed, TypeOK, CurHeld, Working, OutboxAssumption
<1>2. ASSUME UNCHANGED <<phase, cur>>, ~Marks
      PROVE  Owned'
  BY <1>2, OwnedKept DEF Working
<1>3. CASE UNCHANGED <<row, phase, cur>>
  BY <1>2, <1>3 DEF Marks
<1>4. CASE \E v \in Verdict : Settle(v) /\ phase = "sending"
  BY <1>1, <1>4, OutcomeOwned DEF Working
<1>5. CASE Ipc
  <2>1. ASSUME NEW c \in Cid, NEW p \in FPrint, NEW m \in Mesh,
               NEW s \in Session \cup {None}, AcceptSend(c, p, m, s)
        PROVE  UNCHANGED <<phase, cur>> /\ ~Marks
    BY <1>1, <2>1 DEF AcceptSend, Fresh, Marks, worker
  <2>2. ASSUME NEW c \in Cid, NEW d \in Cid, Requeue(c, d)
        PROVE  UNCHANGED <<phase, cur>> /\ ~Marks
    <3>1. PICK x : x = [[row[c] EXCEPT !.status = "aborted"] EXCEPT !.next = d]
      OBVIOUS
    <3>2. c # d /\ row[c] \in Row
      BY <1>1, <2>2 DEF Requeue, Requeueable, Present
    <3>3. row' = [[row EXCEPT ![c] = x] EXCEPT ![d] = Fresh(row[c].fp, None, None)]
      BY <1>1, <2>2, <3>1, <3>2 DEF Requeue
    <3>4. x.status = "aborted" /\ Fresh(row[c].fp, None, None).status = "pending"
      BY <3>1, <3>2 DEF Fresh, Row
    <3>5. QED
      BY <1>1, <2>2, <3>2, <3>3, <3>4 DEF Requeue, Marks, worker
  <2>3. ASSUME NEW c \in Cid, RequeueTorn(c)
        PROVE  UNCHANGED <<phase, cur>> /\ ~Marks
    <3>1. PICK x : x = [row[c] EXCEPT !.status = "aborted"]
      OBVIOUS
    <3>2. row' = [row EXCEPT ![c] = x] /\ x.status = "aborted"
      BY <1>1, <2>3, <3>1 DEF RequeueTorn, Row
    <3>3. QED
      BY <1>1, <2>3, <3>2 DEF RequeueTorn, Marks, worker
  <2>4. QED
    BY <1>2, <1>5, <2>1, <2>2, <2>3 DEF Ipc
<1>6. CASE Connections
  <2>1. UNCHANGED <<row, phase, cur>> \/ (Settle("retry") /\ phase = "sending")
    BY <1>6 DEF Connections, SocketOpens, HelloAcked, SocketCloses, SocketClosed, SessionReplaced,
                Closed, Sending, Register, Deregister, worker
  <2>2. QED
    BY <1>3, <1>4, <2>1 DEF Verdict
<1>7. CASE Environment
  <2>1. CASE Tick
    <3>1. \A c \in Cid : row'[c].status = row[c].status
      BY <1>1, <2>1 DEF Tick, Row
    <3>2. QED
      BY <1>2, <2>1, <3>1 DEF Tick, Marks, worker
  <2>2. ASSUME NEW c \in Cid, Due(c)
        PROVE  UNCHANGED <<phase, cur>> /\ ~Marks
    <3>1. \A d \in Cid : row'[d].status = row[d].status
      BY <1>1, <2>2 DEF Due, Row
    <3>2. QED
      BY <2>2, <3>1 DEF Due, Marks, worker
  <2>3. CASE \E f \in net : BrokerAccepts(f) \/ \E v \in {"retry", "permanent"} : BrokerRefuses(f, v)
    BY <1>3, <2>3 DEF BrokerAccepts, BrokerRefuses, worker
  <2>4. ASSUME NEW a \in acks, AckArrives(a)
        PROVE  Owned'
    <3>1. a.verdict \in Verdict
      BY DEF Typed, TypeOK, Ack
    <3>2. QED
      BY <1>3, <1>4, <2>4, <3>1 DEF AckArrives, Awaited
  <2>5. ASSUME NEW a, Restart(a)
        PROVE  FALSE
    BY <1>1, <2>5 DEF Restart
  <2>6. QED
    BY <1>2, <1>7, <2>1, <2>2, <2>3, <2>4, <2>5 DEF Environment
<1>8. QED
  BY <1>5, <1>6, <1>7

\* Until a restart, no path through the loop, no ack and no close leaves a row inflight
\* that the worker is not working on.
THEOREM OutboxInflight == Spec => []InflightIsOwned
<1>1. InflightIsOwned <=> (crashes = 0 => Owned)
  BY DEF InflightIsOwned, Owned, Working
<1>2. Init => Owned
  BY DEF Init, Owned, NoRow
<1>3. Typed /\ (crashes = 0 => Owned) /\ [Next]_vars => (crashes = 0 => Owned)'
  <2> SUFFICES ASSUME Typed, crashes = 0 => Owned, [Next]_vars, crashes' = 0 PROVE Owned'
    OBVIOUS
  <2>1. crashes = 0
    <3>1. crashes \in Nat
      BY OutboxAssumption DEF Typed, TypeOK, OutboxAssumption
    <3>2. crashes' = crashes \/ crashes' = crashes + 1
      BY DEF Next, Worker, DrainTick, DrainRow, DrainEnd, DrainSkip, DrainNoBroker,
             DrainSessionNotReady, DrainNonce, DrainSend, DrainSendClosing, NonceReady, AckTimeout,
             Ipc, AcceptSend, Requeue, RequeueTorn, Connections, SocketOpens, HelloAcked,
             SocketCloses, SocketClosed, SessionReplaced, Closed, Register, Deregister,
             Environment, BrokerAccepts, BrokerRefuses, AckArrives, Tick, Due, Restart, vars
    <3>3. QED
      BY <3>1, <3>2
  <2>2. CASE UNCHANGED vars
    BY <2>1, <2>2 DEF vars, Owned, Working
  <2>3. QED
    BY <2>1, <2>2, WorkerOwned, OtherOwned DEF Next
<1>4. QED
  BY <1>1, <1>2, <1>3, LoopInvariant, PTL DEF Spec, Loop
==============================================================================
