---------------------------- MODULE DeliveryProofs ----------------------------
(***************************************************************************)
(* What the broker's queue and a recipient's daemon guarantee together for *)
(* any messages, rows and connections.                                     *)
(***************************************************************************)
EXTENDS Delivery, TLAPS

RowRecord == [stage : Q!Stage, cid : Cid \cup {None}, db : Q!Db, claim : BOOLEAN]

\* A row says the same of its send in both its columns; what was sent has an id.
Coherent(x) ==
  /\ x.stage \in {"none", "checked"} => x.db = "absent"
  /\ x.stage \in {"queued", "fanned"} => x.db # "absent"
  /\ x.stage # "none" => x.cid \in Cid
  /\ x.stage = "fanned" => Letter[x.cid].kind = "multicast"

\* A row that was inserted stays so, under its id.
Kept(x, y) == x.db # "absent" => y.db # "absent" /\ y.cid = x.cid

Rows == row \in [Row -> RowRecord] /\ \A r \in Row : Coherent(row[r])

DrainRecord == [peer : Peer, stage : {"asked", "read", "claimed"}, status : Q!Status,
                rows : SUBSET Row, leased : BOOLEAN]

\* Only rows that were inserted are claimed.
Drains == /\ drains \subseteq DrainRecord
          /\ \A d \in drains : \A r \in d.rows : row[r].db # "absent"

Peers == /\ conn \in [Peer -> {"gone", "offline", "online"}]
         /\ status \in [Peer -> Q!Status]

\* A push is a copy of its row's message, and bears its id except from a fan-out.
Copy(u) == /\ row[u.row].db # "absent" /\ u.cid = row[u.row].cid
           /\ u.keyed \/ Letter[u.cid].kind = "multicast"

Copies == /\ wire \cup reading \subseteq Q!Push
          /\ \A u \in wire \cup reading : Copy(u)

\* An ack is for a message that was handled, and names its row.
AckTrue(a) == /\ row[a.row].db # "absent" /\ row[a.row].cid \in handled
              /\ a.key \in {a.row, row[a.row].cid}

Acks == /\ acks \subseteq Q!Ack
        /\ \A a \in acks : AckTrue(a)

\* What the daemon has stored it has handled, and what a message's inbox row says is
\* who has seen it.
Seen(c) ==
  c \in deleted \/
    \A s \in Session :
      /\ shown[s][c] <= 1
      /\ inbox[c].kind = "absent" => shown[s][c] = 0
      /\ inbox[c].kind = "session" /\ inbox[c].owner # s => shown[s][c] = 0

Stores == /\ D!InboxTypeOK
          /\ \A c \in Cid : inbox[c].kind # "absent" => c \in handled
          /\ \A c \in Cid : Letter[c].kind # "multicast" => Seen(c)

IInv == /\ Rows /\ Drains /\ Peers /\ Copies /\ Acks /\ Stores
        /\ DeliveredWasHandled

-----------------------------------------------------------------------------
(* Rows.                                                                   *)

\* None is not a key, and rows and ids differ.
LEMMA Basic ==
  /\ None \notin Row \cup Cid \cup Peer /\ Row \cap Cid = {} /\ Session \subseteq Peer
  /\ \A c \in Cid : /\ Letter[c].kind \in {"direct", "multicast", "topic"}
                    /\ Letter[c].to \subseteq Peer
BY DeliveryAssumption DEF DeliveryAssumption

\* One row is written.
LEMMA OneRow ==
  ASSUME Rows, NEW r \in Row, NEW x \in RowRecord, Coherent(x), Kept(row[r], x),
         row' = [row EXCEPT ![r] = x]
  PROVE  Rows' /\ \A q \in Row : Kept(row[q], row'[q])
BY DEF Rows, Kept

\* No row is written.
LEMMA SameRows ==
  ASSUME Rows, UNCHANGED row
  PROVE  Rows' /\ \A q \in Row : Kept(row[q], row'[q])
BY DEF Rows, Kept

\* Any row is left alone, or a column of one that was inserted is written.
LEMMA ManyRows ==
  ASSUME Rows, NEW f, row' = [r \in Row |-> f[r]],
         \A r \in Row : \/ f[r] = row[r]
                        \/ row[r].db # "absent" /\ \E d \in {"delivered", "deleted"} :
                                                   f[r] = [row[r] EXCEPT !.db = d]
                        \/ f[r] = [row[r] EXCEPT !.claim = TRUE]
                        \/ row[r].stage # "none" /\ f[r] = [row[r] EXCEPT !.stage = "done"]
  PROVE  Rows' /\ \A q \in Row : Kept(row[q], row'[q])
<1>1. ASSUME NEW r \in Row
      PROVE  f[r] \in RowRecord /\ Coherent(f[r]) /\ Kept(row[r], f[r])
  <2>1. row[r] \in RowRecord /\ Coherent(row[r])
    BY DEF Rows
  <2>2. QED
    BY <2>1 DEF RowRecord, Coherent, Kept, Q!Stage, Q!Db
<1>2. QED
  BY <1>1 DEF Rows

\* A send is checked, queued and fanned out.
LEMMA SendRows ==
  ASSUME Rows, Q!Send
  PROVE  Rows' /\ \A q \in Row : Kept(row[q], row'[q])
<1>1. PICK r \in Row : \/ \E c \in Cid : Q!SendArrives(r, c)
                       \/ Q!Enqueued(r) \/ Q!FansOut(r) \/ Q!MulticastMarked(r)
  BY DEF Q!Send
<1>2. row[r] \in RowRecord /\ Coherent(row[r]) /\ row \in [Row -> RowRecord]
  BY DEF Rows
<1>3. CASE \E c \in Cid : Q!SendArrives(r, c)
  <2>1. PICK c \in Cid : Q!SendArrives(r, c)
    BY <1>3
  <2>2. PICK x : x = [row[r] EXCEPT !.stage = "checked", !.cid = c]
    OBVIOUS
  <2>3. row' = [row EXCEPT ![r] = x] /\ row[r].stage = "none"
    BY <1>2, <2>1, <2>2 DEF Q!SendArrives
  <2>4. x \in RowRecord /\ Coherent(x) /\ Kept(row[r], x)
    BY <1>2, <2>2, <2>3 DEF RowRecord, Coherent, Kept, Q!Stage
  <2>5. QED
    BY <2>3, <2>4, OneRow
<1>4. CASE Q!Enqueued(r)
  <2>1. PICK x : x = [row[r] EXCEPT !.stage = "queued", !.db = "waiting"]
    OBVIOUS
  <2>2. row' = [row EXCEPT ![r] = x] /\ row[r].stage = "checked"
    BY <1>2, <1>4, <2>1 DEF Q!Enqueued
  <2>3. x \in RowRecord /\ Coherent(x) /\ Kept(row[r], x)
    BY <1>2, <2>1, <2>2 DEF RowRecord, Coherent, Kept, Q!Stage, Q!Db
  <2>4. QED
    BY <2>2, <2>3, OneRow
<1>5. CASE Q!FansOut(r)
  <2>1. PICK st \in {"done", "fanned"} :
          /\ row' = [row EXCEPT ![r].stage = st] /\ row[r].stage = "queued"
          /\ st = "fanned" => Letter[row[r].cid].kind = "multicast"
    BY <1>5 DEF Q!FansOut, Q!LetterOf
  <2>2. PICK x : x = [row[r] EXCEPT !.stage = st]
    OBVIOUS
  <2>3. row' = [row EXCEPT ![r] = x]
    BY <1>2, <2>1, <2>2
  <2>4. x \in RowRecord /\ Coherent(x) /\ Kept(row[r], x)
    BY <1>2, <2>1, <2>2 DEF RowRecord, Coherent, Kept, Q!Stage
  <2>5. QED
    BY <2>3, <2>4, OneRow
<1>6. CASE Q!MulticastMarked(r)
  <2>1. PICK d \in {"deleted", "delivered"} :
          row' = [row EXCEPT ![r].stage = "done", ![r].db = d] /\ row[r].stage = "fanned"
    <3>1. PICK d : d = IF row[r].db = "deleted" THEN "deleted" ELSE "delivered"
      OBVIOUS
    <3>2. row' = [row EXCEPT ![r].stage = "done", ![r].db = d] /\ row[r].stage = "fanned"
      BY <1>2, <1>6, <3>1 DEF Q!MulticastMarked, RowRecord
    <3>3. QED
      BY <3>1, <3>2
  <2>2. PICK x : x = [row[r] EXCEPT !.stage = "done", !.db = d]
    OBVIOUS
  <2>3. row' = [row EXCEPT ![r] = x]
    BY <1>2, <2>1, <2>2
  <2>4. x \in RowRecord /\ Coherent(x) /\ Kept(row[r], x)
    BY <1>2, <2>1, <2>2 DEF RowRecord, Coherent, Kept, Q!Stage, Q!Db
  <2>5. QED
    BY <2>3, <2>4, OneRow
<1>7. QED
  BY <1>1, <1>3, <1>4, <1>5, <1>6

\* Rows are claimed, acked, swept, and survive a restart.
LEMMA TableRows ==
  ASSUME Rows, Q!Drain \/ Q!Table \/ Q!Connections \/ Q!Restart
  PROVE  Rows' /\ \A q \in Row : Kept(row[q], row'[q])
<1>1. CASE Q!Drain
  <2>1. PICK d \in drains : Q!StatusRead(d) \/ Q!Claims(d) \/ Q!Pushes(d)
    BY <1>1 DEF Q!Drain
  <2>2. CASE Q!StatusRead(d) \/ Q!Pushes(d)
    BY <2>2, SameRows DEF Q!StatusRead, Q!Pushes
  <2>3. CASE Q!Claims(d)
    <3>1. PICK f : f = row'
      OBVIOUS
    <3>2. row' = [r \in Row |-> f[r]]
      BY <2>3, <3>1 DEF Q!Claims
    <3>3. \A r \in Row : f[r] = row[r] \/ f[r] = [row[r] EXCEPT !.claim = TRUE]
      BY <2>3, <3>1 DEF Q!Claims, Q!Claimed
    <3>4. QED
      BY <3>2, <3>3, ManyRows
  <2>4. QED
    BY <2>1, <2>2, <2>3
<1>2. CASE Q!Table
  <2>1. CASE \E a \in acks : Q!AckArrives(a)
    <3>1. PICK a \in acks : Q!AckArrives(a)
      BY <2>1
    <3>2. PICK f : f = row'
      OBVIOUS
    <3>3. row' = [r \in Row |-> f[r]]
      BY <3>1, <3>2 DEF Q!AckArrives
    <3>4. ASSUME NEW r \in Row
          PROVE  \/ f[r] = row[r]
                 \/ row[r].db # "absent" /\ f[r] = [row[r] EXCEPT !.db = "delivered"]
      BY <3>1, <3>2 DEF Q!AckArrives, Q!AckMatches
    <3>5. QED
      BY <3>3, <3>4, ManyRows
  <2>2. CASE \E r \in Row : Q!ClaimExpires(r) \/ Q!Orphaned(r)
    <3>1. PICK r \in Row : Q!ClaimExpires(r) \/ Q!Orphaned(r)
      BY <2>2
    <3>2. PICK x \in {[row[r] EXCEPT !.claim = FALSE], [row[r] EXCEPT !.db = "deleted"]} :
            row' = [row EXCEPT ![r] = x]
      BY <3>1 DEF Q!ClaimExpires, Q!Orphaned, Rows
    <3>3. row[r].db = "waiting" /\ row[r] \in RowRecord /\ Coherent(row[r])
      BY <3>1 DEF Q!ClaimExpires, Q!Orphaned, Rows
    <3>4. x \in RowRecord /\ Coherent(x) /\ Kept(row[r], x)
      BY <3>2, <3>3 DEF RowRecord, Coherent, Kept, Q!Db
    <3>5. QED
      BY <3>2, <3>4, OneRow
  <2>3. QED
    BY <1>2, <2>1, <2>2 DEF Q!Table
<1>3. CASE Q!Connections
  BY <1>3, SameRows DEF Q!Connections, Q!Hello, Q!Drop, Q!Evict, Q!StatusChanges, Q!Hook
<1>4. CASE Q!Restart
  <2>1. PICK f : f = row'
    OBVIOUS
  <2>2. row' = [r \in Row |-> f[r]]
    BY <1>4, <2>1 DEF Q!Restart
  <2>3. ASSUME NEW r \in Row
        PROVE  \/ f[r] = row[r]
               \/ row[r].stage # "none" /\ f[r] = [row[r] EXCEPT !.stage = "done"]
    BY <1>4, <2>1 DEF Q!Restart
  <2>4. QED
    BY <2>2, <2>3, ManyRows
<1>5. QED
  BY <1>1, <1>2, <1>3, <1>4

\* What a step does to the rows.
LEMMA RowsStep ==
  ASSUME Rows, [Next]_vars
  PROVE  Rows' /\ \A q \in Row : Kept(row[q], row'[q])
<1>1. CASE Q!QueueNext
  BY <1>1, SendRows, TableRows DEF Q!QueueNext
<1>2. CASE UNCHANGED row
  BY <1>2, SameRows
<1>3. QED
  BY <1>1, <1>2 DEF Next, vars, brokerSide, DaemonDies

-----------------------------------------------------------------------------
(* Drains and connections.                                                 *)

\* Some drains go on or end, others are asked for.
LEMMA MoreDrains ==
  ASSUME Drains, \A r \in Row : Kept(row[r], row'[r]),
         \A d \in drains' : \/ d \in drains
                            \/ d \in DrainRecord /\ \A r \in d.rows : row'[r].db # "absent"
  PROVE  Drains'
<1>1. \A d \in drains : d \in DrainRecord /\ \A r \in d.rows : row'[r].db # "absent"
  BY DEF Drains, DrainRecord, Kept
<1>2. QED
  BY <1>1 DEF Drains

\* A drain that was asked for has no rows.
LEMMA AskedTyped ==
  ASSUME NEW P \in SUBSET Peer, NEW d \in Q!Asked(P)
  PROVE  d \in DrainRecord /\ d.rows = {}
<1>1. PICK p \in P : d = [peer |-> p, stage |-> "asked", status |-> "idle", rows |-> {},
                        leased |-> TRUE]
  BY DEF Q!Asked
<1>2. QED
  BY <1>1 DEF DrainRecord, Q!Status

\* What a step does to the drains.
LEMMA DrainsStep ==
  ASSUME Rows, Drains, Peers, \A r \in Row : Kept(row[r], row'[r]), [Next]_vars
  PROVE  Drains'
<1>1. CASE \E P \in SUBSET Peer : drains' = drains \cup Q!Asked(P)
  <2>1. PICK P \in SUBSET Peer : drains' = drains \cup Q!Asked(P)
    BY <1>1
  <2>2. \A d \in Q!Asked(P) : d \in DrainRecord /\ d.rows = {}
    BY AskedTyped
  <2>3. QED
    BY <2>1, <2>2, MoreDrains
<1>2. CASE drains' \subseteq drains
  BY <1>2, MoreDrains
<1>3. ASSUME NEW d \in drains, Q!StatusRead(d) \/ Q!Claims(d)
      PROVE  Drains'
  <2>1. d \in DrainRecord /\ \A r \in d.rows : row[r].db # "absent"
    BY DEF Drains
  <2>2. CASE Q!StatusRead(d)
    <3>1. status[d.peer] \in Q!Status
      BY <2>1 DEF DrainRecord, Peers
    <3>2. PICK x : x = [d EXCEPT !.stage = "read", !.status = status[d.peer]]
      OBVIOUS
    <3>3. x \in DrainRecord /\ x.rows = d.rows
      BY <2>1, <3>1, <3>2 DEF DrainRecord
    <3>4. drains' = (drains \ {d}) \cup {x} /\ UNCHANGED row
      BY <2>2, <3>2 DEF Q!StatusRead
    <3>5. QED
      BY <2>1, <3>3, <3>4, MoreDrains
  <2>3. CASE Q!Claims(d)
    <3>1. PICK mine : mine = {r \in Row : row[r].db # "absent" /\ Q!Eligible(r, d.peer, d.status)}
      OBVIOUS
    <3>2. PICK x : x = [d EXCEPT !.stage = "claimed", !.rows = mine]
      OBVIOUS
    <3>3. \A y \in drains' : y \in drains \/ y = x
      BY <2>3, <3>1, <3>2 DEF Q!Claims
    <3>4. mine \subseteq Row /\ \A r \in mine : row[r].db # "absent"
      BY <3>1
    <3>5. x \in DrainRecord /\ x.rows = mine
      BY <2>1, <3>2, <3>4 DEF DrainRecord
    <3>6. \A r \in mine : row'[r].db # "absent"
      BY <3>4 DEF Kept
    <3>7. QED
      BY <3>3, <3>5, <3>6, MoreDrains
  <2>4. QED
    BY <1>3, <2>2, <2>3
<1>4. CASE \E p \in Peer : Q!Evict(p)
  <2>1. PICK p \in Peer : Q!Evict(p)
    BY <1>4
  <2>2. ASSUME NEW y \in drains'
        PROVE  y \in DrainRecord /\ \A r \in y.rows : row'[r].db # "absent"
    <3>1. PICK d \in drains : y = IF d.peer = p THEN [d EXCEPT !.leased = FALSE] ELSE d
      BY <2>1 DEF Q!Evict
    <3>2. d \in DrainRecord /\ \A r \in d.rows : row[r].db # "absent"
      BY DEF Drains
    <3>3. y \in DrainRecord /\ y.rows = d.rows
      BY <3>1, <3>2 DEF DrainRecord
    <3>4. QED
      BY <3>2, <3>3 DEF DrainRecord, Kept
  <2>3. QED
    BY <2>2, MoreDrains
<1>5. CASE Q!Send
  <2>1. PICK r \in Row : \/ \E c \in Cid : Q!SendArrives(r, c)
                         \/ Q!Enqueued(r) \/ Q!FansOut(r) \/ Q!MulticastMarked(r)
    BY <1>5 DEF Q!Send
  <2>2. \/ drains' = drains
        \/ drains' = drains \cup Q!Asked({p \in Peer : conn[p] # "gone"})
    BY <2>1 DEF Q!SendArrives, Q!Enqueued, Q!FansOut, Q!MulticastMarked
  <2>3. QED
    BY <1>1, <1>2, <2>2
<1>6. CASE Q!Drain
  BY <1>2, <1>3, <1>6 DEF Q!Drain, Q!Pushes
<1>7. CASE Q!Table
  BY <1>2, <1>7 DEF Q!Table, Q!AckArrives, Q!ClaimExpires, Q!Orphaned
<1>8. CASE Q!Connections
  <2>1. PICK p \in Peer : \/ Q!Hello(p) \/ Q!Drop(p) \/ Q!Evict(p) \/ Q!StatusChanges(p)
                          \/ \E st \in Q!Status : Q!Hook(p, st)
    BY <1>8 DEF Q!Connections
  <2>2. \/ Q!Evict(p) \/ drains' = drains \/ drains' = drains \cup Q!Asked({p})
    BY <2>1 DEF Q!Hello, Q!Drop, Q!StatusChanges, Q!Hook, Q!HookDrains
  <2>3. QED
    BY <1>1, <1>2, <1>4, <2>2
<1>9. CASE Q!Restart
  BY <1>2, <1>9 DEF Q!Restart
<1>10. CASE UNCHANGED drains
  BY <1>2, <1>10
<1>11. QED
  BY <1>5, <1>6, <1>7, <1>8, <1>9, <1>10 DEF Next, Q!QueueNext, vars, brokerSide, DaemonDies

\* What a step does to the connections.
LEMMA PeersStep ==
  ASSUME Peers, [Next]_vars
  PROVE  Peers'
<1>1. CASE UNCHANGED <<conn, status>>
  BY <1>1 DEF Peers
<1>2. CASE Q!Connections
  BY <1>2 DEF Q!Connections, Q!Hello, Q!Drop, Q!Evict, Q!StatusChanges, Q!Hook, Peers, Q!Status
<1>3. CASE Q!Restart \/ DaemonDies
  BY <1>3 DEF Q!Restart, DaemonDies, Peers
<1>4. CASE Q!Send \/ Q!Drain \/ Q!Table
  <2>1. UNCHANGED <<conn, status>>
    BY <1>4 DEF Q!Send, Q!SendArrives, Q!Enqueued, Q!FansOut, Q!MulticastMarked, Q!Drain,
                Q!StatusRead, Q!Claims, Q!Pushes, Q!Table, Q!AckArrives, Q!ClaimExpires,
                Q!Orphaned
  <2>2. QED
    BY <1>1, <2>1
<1>5. QED
  BY <1>1, <1>2, <1>3, <1>4 DEF Next, Q!QueueNext, vars, brokerSide

-----------------------------------------------------------------------------
(* Pushes and acks.                                                        *)

\* Some pushes arrive or are lost, others are sent.
LEMMA MoreCopies ==
  ASSUME Copies, \A r \in Row : Kept(row[r], row'[r]),
         \A u \in wire' \cup reading' : \/ u \in wire \cup reading
                                        \/ u \in Q!Push /\ Copy(u)'
  PROVE  Copies'
<1>1. ASSUME NEW u \in wire \cup reading
      PROVE  u \in Q!Push /\ Copy(u)'
  BY DEF Copies, Copy, Kept, Q!Push
<1>2. QED
  BY <1>1 DEF Copies

\* What a step does to the pushes.
LEMMA CopiesStep ==
  ASSUME Rows, Drains, Copies, \A r \in Row : Kept(row[r], row'[r]), [Next]_vars
  PROVE  Copies'
<1>1. CASE wire' \cup reading' \subseteq wire \cup reading
  BY <1>1, MoreCopies
<1>2. CASE Q!Send /\ UNCHANGED daemonSide
  <2>1. PICK r \in Row : \/ \E c \in Cid : Q!SendArrives(r, c)
                         \/ Q!Enqueued(r) \/ Q!FansOut(r) \/ Q!MulticastMarked(r)
    BY <1>2 DEF Q!Send
  <2>2. CASE UNCHANGED wire
    BY <1>1, <1>2, <2>2 DEF daemonSide
  <2>3. CASE Q!FansOut(r) /\ Q!LetterOf(r).kind = "multicast"
    <3>1. row[r].stage = "queued" /\ row[r].cid \in Cid /\ row[r].db # "absent"
      BY <2>3 DEF Q!FansOut, Rows, Coherent
    <3>2. ASSUME NEW u \in wire' \ wire
          PROVE  u \in Q!Push /\ Copy(u)'
      <4>1. /\ u.row = r /\ u.cid = row[r].cid
            /\ \E p \in Q!LetterOf(r).to :
                 u = [peer |-> p, row |-> r, cid |-> row[r].cid, keyed |-> FALSE]
        BY <2>3 DEF Q!FansOut
      <4>2. Q!LetterOf(r).to \subseteq Peer
        BY <3>1, Basic DEF Q!LetterOf
      <4>3. u \in Q!Push
        BY <3>1, <4>1, <4>2 DEF Q!Push
      <4>4. row'[r].db # "absent" /\ row'[r].cid = row[r].cid
        BY <3>1 DEF Kept
      <4>5. QED
        BY <2>3, <4>1, <4>3, <4>4 DEF Copy, Q!LetterOf
    <3>3. QED
      BY <1>2, <3>2, MoreCopies DEF daemonSide
  <2>4. QED
    BY <2>1, <2>2, <2>3 DEF Q!SendArrives, Q!Enqueued, Q!FansOut, Q!MulticastMarked
<1>3. CASE Q!Drain /\ UNCHANGED daemonSide
  <2>1. PICK d \in drains : Q!StatusRead(d) \/ Q!Claims(d) \/ Q!Pushes(d)
    BY <1>3 DEF Q!Drain
  <2>2. CASE UNCHANGED wire
    BY <1>1, <1>3, <2>2 DEF daemonSide
  <2>3. CASE Q!Pushes(d)
    <3>1. d \in DrainRecord /\ \A r \in d.rows : row[r].db # "absent"
      BY DEF Drains
    <3>2. ASSUME NEW u \in wire' \ wire
          PROVE  u \in Q!Push /\ Copy(u)'
      <4>1. PICK r \in d.rows : u = [peer |-> d.peer, row |-> r, cid |-> row[r].cid, keyed |-> TRUE]
        BY <2>3 DEF Q!Pushes
      <4>2. r \in Row /\ d.peer \in Peer /\ row[r].db # "absent" /\ row[r].cid \in Cid
        BY <3>1 DEF DrainRecord, Rows, Coherent
      <4>3. row'[r].db # "absent" /\ row'[r].cid = row[r].cid
        BY <4>2 DEF Kept
      <4>4. QED
        BY <4>1, <4>2, <4>3 DEF Copy, Q!Push
    <3>3. QED
      BY <1>3, <3>2, MoreCopies DEF daemonSide
  <2>4. QED
    BY <2>1, <2>2, <2>3 DEF Q!StatusRead, Q!Claims
<1>4. CASE (Q!Table \/ Q!Connections \/ Q!Restart) /\ UNCHANGED daemonSide
  <2>1. wire' \subseteq wire
    BY <1>4 DEF Q!Table, Q!AckArrives, Q!ClaimExpires, Q!Orphaned, Q!Connections, Q!Hello,
                Q!Drop, Q!CutOff, Q!Evict, Q!StatusChanges, Q!Hook, Q!Restart
  <2>2. QED
    BY <1>1, <1>4, <2>1 DEF daemonSide
<1>5. CASE D!InboxNext
  <2>1. wire' \cup reading' \subseteq wire \cup reading
    BY <1>5 DEF D!InboxNext, D!Receives, D!Handles, D!Deletes
  <2>2. QED
    BY <1>1, <2>1
<1>6. CASE DaemonDies
  <2>1. wire' \cup reading' \subseteq wire \cup reading
    BY <1>6 DEF DaemonDies, D!Forgets, Q!CutOff
  <2>2. QED
    BY <1>1, <2>1
<1>7. CASE UNCHANGED vars
  BY <1>1, <1>7 DEF vars
<1>8. QED
  BY <1>2, <1>3, <1>4, <1>5, <1>6, <1>7 DEF Next, Q!QueueNext

\* What is handled stays so.
LEMMA HandledGrows ==
  ASSUME [Next]_vars
  PROVE  handled \subseteq handled'
BY DEF Next, vars, daemonSide, D!InboxNext, D!Receives, D!Handles, D!Deletes, DaemonDies, D!Forgets

\* What a step does to the acks.
LEMMA AcksStep ==
  ASSUME Rows, Copies, Acks, \A r \in Row : Kept(row[r], row'[r]), [Next]_vars
  PROVE  Acks'
<1>1. \A a \in acks : a \in Q!Ack /\ AckTrue(a)'
  BY HandledGrows DEF Acks, AckTrue, Kept, Q!Ack
<1>2. ASSUME NEW u \in reading, D!Handles(u), UNCHANGED row
      PROVE  \A a \in acks' \ acks : a \in Q!Ack /\ AckTrue(a)'
  <2>1. u \in Q!Push /\ Copy(u)
    BY DEF Copies
  <2>2. PICK a : a = [peer |-> u.peer, key |-> D!KeyOf(u), row |-> u.row]
    OBVIOUS
  <2>3. acks' \ acks \subseteq {a}
    BY <1>2, <2>2 DEF D!Handles, D!AckSent
  <2>4. a \in Q!Ack /\ a.row = u.row /\ a.key \in {u.row, u.cid}
    BY <2>1, <2>2 DEF Q!Ack, Q!Push, D!KeyOf
  <2>5. u.cid \in handled'
    BY <1>2 DEF D!Handles
  <2>6. AckTrue(a)'
    BY <1>2, <2>1, <2>4, <2>5 DEF AckTrue, Copy
  <2>7. QED
    BY <2>3, <2>4, <2>6
<1>3. CASE acks' \subseteq acks
  BY <1>1, <1>3 DEF Acks
<1>4. CASE Q!QueueNext
  <2>1. acks' \subseteq acks
    BY <1>4 DEF Q!QueueNext, Q!Send, Q!SendArrives, Q!Enqueued, Q!FansOut, Q!MulticastMarked,
                Q!Drain, Q!StatusRead, Q!Claims, Q!Pushes, Q!Table, Q!AckArrives,
                Q!ClaimExpires, Q!Orphaned, Q!Connections, Q!Hello, Q!Drop, Q!CutOff, Q!Evict,
                Q!StatusChanges, Q!Hook, Q!Restart
  <2>2. QED
    BY <1>3, <2>1
<1>5. CASE D!InboxNext /\ UNCHANGED brokerSide
  <2>1. CASE \E u \in reading : D!Handles(u)
    BY <1>1, <1>2, <1>5, <2>1 DEF brokerSide, Acks
  <2>2. CASE UNCHANGED acks
    BY <1>3, <2>2
  <2>3. QED
    BY <1>5, <2>1, <2>2 DEF D!InboxNext, D!Receives, D!Deletes
<1>6. CASE DaemonDies
  BY <1>3, <1>6 DEF DaemonDies, Q!CutOff
<1>7. CASE UNCHANGED vars
  BY <1>3, <1>7 DEF vars
<1>8. QED
  BY <1>4, <1>5, <1>6, <1>7 DEF Next

-----------------------------------------------------------------------------
(* The inbox.                                                              *)

\* A push is stored, counted and shown under its own id, or is of a multicast.
LEMMA KeyTyped ==
  ASSUME NEW u \in Q!Push, u.keyed \/ Letter[u.cid].kind = "multicast"
  PROVE  /\ D!KeyOf(u) \in D!Key
         /\ \A c \in Cid : D!KeyOf(u) = c /\ Letter[c].kind # "multicast" => u.cid = c
         /\ Letter[u.cid].kind # "multicast" => D!KeyOf(u) = u.cid
         /\ \A c \in Cid : D!KeyOf(u) = c => u.cid = c
BY Basic DEF D!KeyOf, D!Key, Q!Push

\* How often each session was shown a message after one more.
LEMMA PublishedTyped ==
  ASSUME shown \in [Session -> [Cid -> Nat]], NEW c \in Cid, NEW S
  PROVE  /\ D!Published(c, S) \in [Session -> [Cid -> Nat]]
         /\ \A s \in Session, k \in Cid :
              D!Published(c, S)[s][k] = IF s \in S /\ k = c THEN shown[s][k] + 1 ELSE shown[s][k]
BY DEF D!Published

\* The inbox row a push leaves names its recipient.
LEMMA ScopeTyped ==
  ASSUME NEW u \in Q!Push
  PROVE  /\ D!Scoped(u) \in D!Scope /\ D!Scoped(u).owner = u.peer
         /\ D!Scoped(u).kind = D!KindOf(u) /\ D!KindOf(u) \in {"session", "member"}
         /\ D!KindOf(u) = "session" => u.peer \in Session
BY Basic DEF D!Scoped, D!Scope, D!KindOf, Q!Push

\* A message that one more push of was stored: who has seen it.
LEMMA InsertSeen ==
  ASSUME Stores, NEW u \in Q!Push, Copy(u), D!Inserts(u), UNCHANGED deleted
  PROVE  /\ inbox' \in [D!Key -> D!Scope] /\ shown' \in [Session -> [Cid -> Nat]]
         /\ \A c \in Cid \ {u.cid} : inbox'[c] = inbox[c]
         /\ \A c \in Cid : Letter[c].kind # "multicast" => Seen(c)'
<1> DEFINE k == D!KeyOf(u)
           x == D!Scoped(u)
<1>1. /\ k \in D!Key /\ u.cid \in Cid
      /\ \A c \in Cid : k = c => u.cid = c
      /\ Letter[u.cid].kind # "multicast" => k = u.cid
  BY KeyTyped DEF Copy, Q!Push
<1>2. /\ x \in D!Scope /\ x.owner = u.peer /\ x.kind \in {"session", "member"}
      /\ x.kind = "session" => u.peer \in Session
  BY ScopeTyped
<1>3. /\ inbox[k].kind = "absent" /\ inbox' = [inbox EXCEPT ![k] = x]
      /\ shown' = D!Published(u.cid, D!Audience(x))
  BY DEF D!Inserts
<1>4. inbox \in [D!Key -> D!Scope] /\ shown \in [Session -> [Cid -> Nat]]
  BY DEF Stores, D!InboxTypeOK
<1> HIDE DEF k, x
<1>5. /\ shown' \in [Session -> [Cid -> Nat]]
      /\ \A s \in Session, c \in Cid :
           shown'[s][c] = IF s \in D!Audience(x) /\ c = u.cid THEN shown[s][c] + 1 ELSE shown[s][c]
  BY <1>1, <1>3, <1>4, PublishedTyped
<1>6. inbox' \in [D!Key -> D!Scope] /\ \A c \in Cid \ {u.cid} : inbox'[c] = inbox[c]
  BY <1>1, <1>2, <1>3, <1>4 DEF D!Key
<1>7. ASSUME NEW c \in Cid, Letter[c].kind # "multicast"
      PROVE  Seen(c)'
  <2>1. Seen(c)
    BY <1>7 DEF Stores
  <2>2. CASE c # u.cid
    BY <1>5, <1>6, <2>1, <2>2 DEF Seen
  <2>3. CASE c = u.cid
    <3>1. k = c /\ inbox'[c] = x /\ inbox[c].kind = "absent"
      BY <1>1, <1>3, <1>4, <1>7, <2>3
    <3>2. CASE c \in deleted
      BY <3>2 DEF Seen
    <3>3. CASE c \notin deleted
      <4>1. \A s \in Session : shown[s][c] = 0
        BY <2>1, <3>1, <3>3 DEF Seen
      <4>2. \A s \in Session : shown'[s][c] = IF s \in D!Audience(x) THEN 1 ELSE 0
        BY <1>5, <2>3, <4>1
      <4>3. \A s \in Session : x.kind = "session" /\ x.owner # s => s \notin D!Audience(x)
        BY DEF D!Audience
      <4>4. QED
        BY <1>2, <3>1, <4>2, <4>3 DEF Seen
    <3>4. QED
      BY <3>2, <3>3
  <2>4. QED
    BY <2>2, <2>3
<1>8. QED
  BY <1>5, <1>6, <1>7

\* The same of a row that is widened.
LEMMA PromoteSeen ==
  ASSUME Stores, NEW u \in Q!Push, Copy(u), D!Promotes(u), UNCHANGED deleted
  PROVE  /\ inbox' \in [D!Key -> D!Scope] /\ shown' \in [Session -> [Cid -> Nat]]
         /\ \A c \in Cid \ {u.cid} : inbox'[c] = inbox[c]
         /\ \A c \in Cid : Letter[c].kind # "multicast" => Seen(c)'
<1> DEFINE k == D!KeyOf(u)
           x == D!Scoped(u)
           S == Session \ {inbox[k].owner}
<1>1. /\ k \in D!Key /\ u.cid \in Cid
      /\ \A c \in Cid : k = c => u.cid = c
      /\ Letter[u.cid].kind # "multicast" => k = u.cid
  BY KeyTyped DEF Copy, Q!Push
<1>2. x \in D!Scope /\ x.kind = "member"
  BY ScopeTyped DEF D!Promotes
<1>3. /\ inbox[k].kind = "session" /\ inbox' = [inbox EXCEPT ![k] = x]
      /\ shown' = D!Published(u.cid, S)
  BY DEF D!Promotes, D!Others
<1>4. inbox \in [D!Key -> D!Scope] /\ shown \in [Session -> [Cid -> Nat]]
  BY DEF Stores, D!InboxTypeOK
<1> HIDE DEF k, x
<1>5. /\ shown' \in [Session -> [Cid -> Nat]]
      /\ \A s \in Session, c \in Cid :
           shown'[s][c] = IF s \in S /\ c = u.cid THEN shown[s][c] + 1 ELSE shown[s][c]
  BY <1>1, <1>3, <1>4, PublishedTyped
<1>6. inbox' \in [D!Key -> D!Scope] /\ \A c \in Cid \ {u.cid} : inbox'[c] = inbox[c]
  BY <1>1, <1>2, <1>3, <1>4 DEF D!Key
<1>7. ASSUME NEW c \in Cid, Letter[c].kind # "multicast"
      PROVE  Seen(c)'
  <2>1. Seen(c)
    BY <1>7 DEF Stores
  <2>2. CASE c # u.cid
    BY <1>5, <1>6, <2>1, <2>2 DEF Seen
  <2>3. CASE c = u.cid
    <3>1. k = c /\ inbox'[c] = x
      BY <1>1, <1>3, <1>4, <1>7, <2>3
    <3>2. \A s \in Session : c \in deleted \/ shown'[s][c] <= 1
      <4>1. TAKE s \in Session
      <4>2. shown[s][c] \in Nat
        BY <1>4
      <4>3. CASE s \in S
        <5>1. inbox[c].kind = "session" /\ inbox[c].owner # s
          BY <1>3, <3>1, <4>3
        <5>2. c \in deleted \/ shown[s][c] = 0
          BY <2>1, <5>1 DEF Seen
        <5>3. shown'[s][c] = shown[s][c] + 1
          BY <1>5, <2>3, <4>3
        <5>4. QED
          BY <4>2, <5>2, <5>3
      <4>4. CASE s \notin S
        BY <1>5, <2>1, <4>4 DEF Seen
      <4>5. QED
        BY <4>3, <4>4
    <3>3. QED
      BY <1>2, <3>1, <3>2 DEF Seen
  <2>4. QED
    BY <2>2, <2>3
<1>8. QED
  BY <1>5, <1>6, <1>7

\* What a step does to the inbox.
LEMMA StoresStep ==
  ASSUME Copies, Stores, [Next]_vars
  PROVE  Stores'
<1>1. CASE UNCHANGED <<inbox, handled, shown, deleted>> /\ reading' \subseteq reading \cup wire
  BY <1>1 DEF Stores, D!InboxTypeOK, Seen, Copies, Q!Push
<1>2. CASE D!InboxNext
  <2>1. CASE \E u \in wire : D!Receives(u)
    BY <1>1, <2>1 DEF D!Receives
  <2>2. CASE \E u \in reading : D!Handles(u)
    <3>1. PICK u \in reading : D!Handles(u)
      BY <2>2
    <3>2. u \in Q!Push /\ Copy(u) /\ u.cid \in Cid
      BY DEF Copies, Q!Push
    <3>3. /\ reading' = reading \ {u} /\ handled' = handled \cup {u.cid} /\ UNCHANGED deleted
          /\ D!Drops(u) \/ D!Inserts(u) \/ D!Promotes(u) \/ D!Ignores(u)
      BY <3>1 DEF D!Handles
    <3>4. /\ inbox' \in [D!Key -> D!Scope] /\ shown' \in [Session -> [Cid -> Nat]]
          /\ \A c \in Cid \ {u.cid} : inbox'[c] = inbox[c]
          /\ \A c \in Cid : Letter[c].kind # "multicast" => Seen(c)'
      <4>1. CASE D!Inserts(u)
        BY <3>2, <3>3, <4>1, InsertSeen
      <4>2. CASE D!Promotes(u)
        BY <3>2, <3>3, <4>2, PromoteSeen
      <4>3. CASE D!Drops(u) \/ D!Ignores(u)
        BY <3>3, <4>3 DEF D!Drops, D!Ignores, Stores, D!InboxTypeOK, Seen
      <4>4. QED
        BY <3>3, <4>1, <4>2, <4>3
    <3>5. D!InboxTypeOK'
      BY <3>2, <3>3, <3>4 DEF Stores, D!InboxTypeOK
    <3>6. \A c \in Cid : inbox'[c].kind # "absent" => c \in handled'
      BY <3>3, <3>4 DEF Stores
    <3>7. QED
      BY <3>4, <3>5, <3>6 DEF Stores
  <2>3. CASE \E c \in Cid : D!Deletes(c)
    <3>1. PICK c \in Cid : D!Deletes(c)
      BY <2>3
    <3>2. /\ inbox' = [inbox EXCEPT ![c] = D!NoRow] /\ deleted' = deleted \cup {c}
          /\ UNCHANGED <<reading, handled, shown>>
      BY <3>1 DEF D!Deletes
    <3>3. D!NoRow \in D!Scope /\ D!NoRow.kind = "absent"
      BY DEF D!NoRow, D!Scope
    <3>4. D!InboxTypeOK'
      BY <3>2, <3>3 DEF Stores, D!InboxTypeOK
    <3>5. \A d \in Cid : inbox'[d].kind # "absent" => d \in handled'
      BY <3>2, <3>3 DEF Stores, D!InboxTypeOK, D!Key
    <3>6. \A d \in Cid : Letter[d].kind # "multicast" => Seen(d)'
      BY <3>2 DEF Stores, D!InboxTypeOK, D!Key, Seen
    <3>7. QED
      BY <3>4, <3>5, <3>6 DEF Stores
  <2>4. QED
    BY <1>2, <2>1, <2>2, <2>3 DEF D!InboxNext
<1>3. QED
  BY <1>1, <1>2 DEF Next, vars, daemonSide, DaemonDies, D!Forgets

-----------------------------------------------------------------------------
(* The invariant and what follows.                                         *)

\* A row is marked delivered after its fan-out to many, or by an ack, which is for a
\* message that was handled.
LEMMA DeliveredStep ==
  ASSUME Rows, Acks, DeliveredWasHandled, [Next]_vars
  PROVE  DeliveredWasHandled'
<1> SUFFICES ASSUME NEW r \in Row, row'[r].db = "delivered", Direct(row'[r].cid)
             PROVE  row'[r].cid \in handled'
  BY DEF DeliveredWasHandled
<1>1. CASE row[r].db = "delivered"
  <2>1. row'[r].cid = row[r].cid
    BY <1>1, RowsStep DEF Kept
  <2>2. QED
    BY <1>1, <2>1, HandledGrows DEF DeliveredWasHandled
<1>2. CASE row[r].db # "delivered"
  <2>1. CASE \E a \in acks : Q!AckArrives(a)
    <3>1. PICK a \in acks : Q!AckArrives(a)
      BY <2>1
    <3>2. Q!AckMatches(a, r) /\ row'[r] = [row[r] EXCEPT !.db = "delivered"]
      BY <1>2, <3>1 DEF Q!AckArrives
    <3>3. row[r].db = "waiting" /\ (r = a.row \/ row[r].cid = a.key)
      BY <3>2 DEF Q!AckMatches
    <3>4. row[r] \in RowRecord /\ row[r].cid \in Cid
      BY <3>3 DEF Rows, Coherent
    <3>5. row'[r].cid = row[r].cid
      BY <3>2, <3>4 DEF RowRecord
    <3>6. a \in Q!Ack /\ AckTrue(a)
      BY DEF Acks
    <3>7. row[r].cid \in handled
      <4>1. CASE r = a.row
        BY <3>6, <4>1 DEF AckTrue
      <4>2. CASE row[r].cid = a.key
        BY <3>4, <3>6, <4>2, Basic DEF AckTrue, Q!Ack
      <4>3. QED
        BY <3>3, <4>1, <4>2
    <3>8. QED
      BY <3>5, <3>7, HandledGrows
  <2>2. CASE \E q \in Row : Q!MulticastMarked(q)
    <3>1. PICK q \in Row : Q!MulticastMarked(q)
      BY <2>2
    <3>2. q = r
      BY <1>2, <3>1 DEF Q!MulticastMarked, Rows
    <3>3. row[r].stage = "fanned" /\ Letter[row[r].cid].kind = "multicast" /\ row[r].db # "absent"
      BY <3>1, <3>2 DEF Q!MulticastMarked, Rows, Coherent
    <3>4. row'[r].cid = row[r].cid
      BY <3>3, RowsStep DEF Kept
    <3>5. QED
      BY <3>3, <3>4 DEF Direct
  <2>3. CASE UNCHANGED row
    BY <1>2, <2>3
  <2>4. CASE \E q \in Row : (\E c \in Cid : Q!SendArrives(q, c)) \/ Q!Enqueued(q) \/ Q!FansOut(q)
    <3>1. PICK q \in Row : (\E c \in Cid : Q!SendArrives(q, c)) \/ Q!Enqueued(q) \/ Q!FansOut(q)
      BY <2>4
    <3>2. row'[r].db \in {row[r].db, "waiting"}
      BY <3>1 DEF Q!SendArrives, Q!Enqueued, Q!FansOut, Rows, RowRecord
    <3>3. QED
      BY <1>2, <3>2
  <2>5. CASE \E d \in drains : Q!Claims(d)
    <3>1. row'[r] \in {row[r], [row[r] EXCEPT !.claim = TRUE]}
      BY <2>5 DEF Q!Claims, Q!Claimed
    <3>2. row[r] \in RowRecord
      BY DEF Rows
    <3>3. row'[r].db = row[r].db
      BY <3>1, <3>2 DEF RowRecord
    <3>4. QED
      BY <1>2, <3>3
  <2>6. CASE \E q \in Row : Q!ClaimExpires(q) \/ Q!Orphaned(q)
    <3>1. PICK q \in Row : Q!ClaimExpires(q) \/ Q!Orphaned(q)
      BY <2>6
    <3>2. row'[r].db \in {row[r].db, "deleted"}
      BY <3>1 DEF Q!ClaimExpires, Q!Orphaned, Rows, RowRecord
    <3>3. QED
      BY <1>2, <3>2
  <2>7. CASE Q!Restart
    BY <1>2, <2>7 DEF Q!Restart, Rows, RowRecord
  <2>8. UNCHANGED row \/ Q!Send \/ Q!Table \/ Q!Restart \/ \E d \in drains : Q!Claims(d)
    BY DEF Next, Q!QueueNext, Q!Drain, Q!StatusRead, Q!Pushes, Q!Connections, Q!Hello, Q!Drop,
           Q!Evict, Q!StatusChanges, Q!Hook, vars, brokerSide, DaemonDies
  <2>9. QED
    BY <2>1, <2>2, <2>3, <2>4, <2>5, <2>6, <2>7, <2>8 DEF Q!Send, Q!Table
<1>3. QED
  BY <1>1, <1>2

\* The invariant holds at the start.
LEMMA InitIInv == Init => IInv
<1> SUFFICES ASSUME Init PROVE IInv
  OBVIOUS
<1>1. Rows /\ Drains /\ Peers /\ Copies /\ Acks
  BY DEF Init, Q!QueueInit, D!InboxInit, Rows, RowRecord, Coherent, Q!Stage, Q!Db, Drains, Peers,
         Q!Status, Copies, Acks
<1>2. D!NoRow \in D!Scope /\ D!NoRow.kind = "absent"
  BY DEF D!NoRow, D!Scope
<1>3. Stores
  BY <1>2 DEF Init, D!InboxInit, Stores, D!InboxTypeOK, Seen, D!Key
<1>4. DeliveredWasHandled
  BY DEF Init, Q!QueueInit, DeliveredWasHandled
<1>5. QED
  BY <1>1, <1>3, <1>4 DEF IInv

\* No step of either side breaks it.
LEMMA NextIInv == IInv /\ [Next]_vars => IInv'
<1> SUFFICES ASSUME IInv, [Next]_vars PROVE IInv'
  OBVIOUS
<1>1. Rows' /\ \A r \in Row : Kept(row[r], row'[r])
  BY RowsStep DEF IInv
<1>2. Drains' /\ Peers'
  BY <1>1, DrainsStep, PeersStep DEF IInv
<1>3. Copies' /\ Acks'
  BY <1>1, CopiesStep, AcksStep DEF IInv
<1>4. Stores' /\ DeliveredWasHandled'
  BY StoresStep, DeliveredStep DEF IInv
<1>5. QED
  BY <1>1, <1>2, <1>3, <1>4 DEF IInv

\* The invariant holds throughout.
THEOREM DeliveryInductive == Spec => []IInv
<1>1. QED
  BY InitIInv, NextIInv, PTL DEF Spec

\* The variables of both sides have their types, and a row's stage in handleSend
\* agrees with what is in the table.
THEOREM DeliveryTypes == Spec => []TypeOK
<1>1. IInv => TypeOK
  BY DEF IInv, TypeOK, Q!QueueTypeOK, Rows, RowRecord, Coherent, Drains, DrainRecord, Peers, Copies,
         Acks, Stores
<1>2. QED
  BY <1>1, DeliveryInductive, PTL

\* A direct message marked delivered was handled by its recipient, whatever claims
\* expired, acks were lost or repeated and connections broke in between.
THEOREM DeliveryHandled == Spec => []DeliveredWasHandled
<1>1. QED
  BY DeliveryInductive, PTL DEF IInv

\* No session is shown a message twice that is not a multicast, unless its inbox row was
\* removed.
THEOREM DeliveryOnce == Spec => []OncePerSession
<1>1. IInv => OncePerSession
  BY DEF IInv, Stores, Seen, OncePerSession
<1>2. QED
  BY <1>1, DeliveryInductive, PTL


-----------------------------------------------------------------------------
(* Broker and daemon implement Mailbox.                                    *)

\* Which rows have grown too old, only the sweep of old rows changes.
LEMMA LapsesSince ==
  ASSUME Rows, [Next]_vars, ~\E r \in Row : Q!Orphaned(r), NEW r \in Row
  PROVE  row'[r].db = "deleted" <=> row[r].db = "deleted"
<1>1. row \in [Row -> RowRecord] /\ row[r] \in RowRecord /\ Coherent(row[r])
  BY DEF Rows
<1>2. CASE Q!Send
  BY <1>1, <1>2 DEF Q!Send, Q!SendArrives, Q!Enqueued, Q!FansOut, Q!MulticastMarked, RowRecord,
                    Coherent
<1>3. CASE Q!Drain
  <2>1. row'[r] \in {row[r], [row[r] EXCEPT !.claim = TRUE]}
    BY <1>3 DEF Q!Drain, Q!StatusRead, Q!Claims, Q!Claimed, Q!Pushes
  <2>2. QED
    BY <1>1, <2>1 DEF RowRecord
<1>4. CASE Q!Table
  BY <1>1, <1>4 DEF Q!Table, Q!AckArrives, Q!AckMatches, Q!ClaimExpires, RowRecord
<1>5. CASE Q!Restart
  BY <1>1, <1>5 DEF Q!Restart, RowRecord
<1>6. UNCHANGED row \/ Q!Send \/ Q!Drain \/ Q!Table \/ Q!Restart
  BY DEF Next, Q!QueueNext, Q!Connections, Q!Hello, Q!Drop, Q!Evict, Q!StatusChanges, Q!Hook, vars,
         brokerSide, DaemonDies
<1>7. QED
  BY <1>2, <1>3, <1>4, <1>5, <1>6

\* A row begins to wait when it is inserted.
LEMMA WaitsSince ==
  ASSUME Rows, Q!QueueNext, NEW r \in Row, row'[r].db = "waiting", row[r].db # "waiting"
  PROVE  Q!Enqueued(r) /\ row'[r].cid = row[r].cid
<1>1. row \in [Row -> RowRecord] /\ row[r] \in RowRecord
  BY DEF Rows
<1>2. CASE Q!Send
  <2>1. PICK q \in Row : \/ \E c \in Cid : Q!SendArrives(q, c)
                         \/ Q!Enqueued(q) \/ Q!FansOut(q) \/ Q!MulticastMarked(q)
    BY <1>2 DEF Q!Send
  <2>2. q = r
    BY <1>1, <2>1 DEF Q!SendArrives, Q!Enqueued, Q!FansOut, Q!MulticastMarked
  <2>3. ~(\E c \in Cid : Q!SendArrives(r, c)) /\ ~Q!FansOut(r)
    BY <1>1 DEF Q!SendArrives, Q!FansOut, RowRecord
  <2>4. ~Q!MulticastMarked(r)
    BY <1>1 DEF Q!MulticastMarked, RowRecord
  <2>5. Q!Enqueued(r)
    BY <2>1, <2>2, <2>3, <2>4
  <2>6. QED
    BY <1>1, <2>5 DEF Q!Enqueued, RowRecord
<1>3. CASE Q!Drain
  <2>1. row'[r] \in {row[r], [row[r] EXCEPT !.claim = TRUE]}
    BY <1>3 DEF Q!Drain, Q!StatusRead, Q!Claims, Q!Claimed, Q!Pushes
  <2>2. QED
    BY <1>1, <2>1 DEF RowRecord
<1>4. CASE Q!Table
  BY <1>1, <1>4 DEF Q!Table, Q!AckArrives, Q!ClaimExpires, Q!Orphaned, RowRecord
<1>5. CASE Q!Restart
  BY <1>1, <1>5 DEF Q!Restart, RowRecord
<1>6. UNCHANGED row \/ Q!Send \/ Q!Drain \/ Q!Table \/ Q!Restart
  BY DEF Q!QueueNext, Q!Connections, Q!Hello, Q!Drop, Q!Evict, Q!StatusChanges, Q!Hook
<1>7. QED
  BY <1>2, <1>3, <1>4, <1>5, <1>6

\* The variables of the mailbox, as those of broker and daemon give them.
LEMMA AbstractVars ==
  /\ \A db : Of(db) \subseteq Directs /\ Of(db)' \subseteq Directs
  /\ \A db : UNCHANGED row => UNCHANGED Of(db)
  /\ UNCHANGED <<handled, shown, deleted>> =>
       UNCHANGED <<handled \cap Directs, ShownDirects, deleted \cap Directs>>
BY DEF Of, ShownDirects, Directs, Direct

\* The sweep of an old row lapses its message, which another row may still hold.
LEMMA SweepRefines ==
  ASSUME Rows, NEW r \in Row, Q!Orphaned(r), UNCHANGED daemonSide
  PROVE  Abstract!Next \/ UNCHANGED Abstract!vars
<1>1. PICK c : c = row[r].cid
  OBVIOUS
<1>2. /\ row \in [Row -> RowRecord] /\ row[r].db = "waiting" /\ c \in Cid
      /\ row' = [row EXCEPT ![r].db = "deleted"]
  BY <1>1 DEF Rows, Coherent, Q!Orphaned
<1>3. /\ \A q \in Row \ {r} : row'[q] = row[q]
      /\ row'[r].db = "deleted" /\ row'[r].cid = c
  BY <1>1, <1>2 DEF RowRecord
<1>4. UNCHANGED <<handled \cap Directs, ShownDirects, deleted \cap Directs>>
  BY AbstractVars DEF daemonSide
<1>5. CASE Direct(c)
  <2>1. c \in Directs /\ c \in Of("waiting")
    BY <1>1, <1>2, <1>5 DEF Of, Directs
  <2>2. Of("deleted")' = Of("deleted") \cup {c}
    BY <1>1, <1>2, <1>3, <2>1 DEF Of, Directs, Direct
  <2>3. \A d \in Directs \ {c} : d \in Of("waiting")' <=> d \in Of("waiting")
    BY <1>1, <1>3 DEF Of, Directs, Direct
  <2>4. Of("waiting")' \in {Of("waiting"), Of("waiting") \ {c}}
    BY <2>1, <2>3, AbstractVars
  <2>5. Abstract!Lapse(c)
    BY <1>4, <2>1, <2>2, <2>4 DEF Abstract!Lapse
  <2>6. QED
    BY <2>1, <2>5 DEF Abstract!Next
<1>6. CASE ~Direct(c)
  <2>1. UNCHANGED Of("waiting") /\ UNCHANGED Of("deleted")
    BY <1>1, <1>3, <1>6 DEF Of, Directs, Direct
  <2>2. QED
    BY <1>4, <2>1 DEF Abstract!vars
<1>7. QED
  BY <1>5, <1>6

\* Another step of the broker accepts one direct message, or settles some that were
\* handled.
LEMMA BrokerRefines ==
  ASSUME IInv, IInv', [Next]_vars, Q!QueueNext, UNCHANGED daemonSide,
         ~\E r \in Row : Q!Orphaned(r)
  PROVE  Abstract!Next
<1>1. UNCHANGED <<handled, shown, deleted>>
  BY DEF daemonSide
<1>2. UNCHANGED <<handled \cap Directs, ShownDirects, deleted \cap Directs>>
  BY <1>1, AbstractVars
<1>3. /\ Rows /\ Rows' /\ DeliveredWasHandled'
      /\ \A r \in Row : Kept(row[r], row'[r])
  BY RowsStep DEF IInv
<1>4. \A r \in Row : row'[r].db = "deleted" <=> row[r].db = "deleted"
  BY <1>3, LapsesSince
<1>5. UNCHANGED Of("deleted")
  <2>1. \A r \in Row : row[r].db = "deleted" => row'[r].cid = row[r].cid
    BY <1>3 DEF Kept
  <2>2. QED
    BY <1>4, <2>1 DEF Of, Directs, Direct
<1> DEFINE Owed == Of("waiting")
<1>6. Owed \subseteq Directs /\ Owed' \subseteq Directs
  BY AbstractVars
<1>7. \A c \in Owed \ Owed' : c \in handled
  <2>1. TAKE c \in Owed \ Owed'
  <2>2. PICK r \in Row : row[r].db = "waiting" /\ row[r].cid = c
    BY DEF Of
  <2>3. row'[r].db # "absent" /\ row'[r].cid = c /\ row'[r].db # "deleted"
    BY <1>3, <1>4, <2>2 DEF Kept
  <2>4. c \in Directs /\ Direct(c)
    BY <1>6 DEF Directs
  <2>5. row'[r].db # "waiting"
    BY <2>3, <2>4 DEF Of, Directs, Direct
  <2>6. row'[r].db = "delivered"
    BY <1>3, <2>3, <2>5 DEF Rows, RowRecord, Q!Db
  <2>7. c \in handled'
    BY <1>3, <2>3, <2>4, <2>6 DEF DeliveredWasHandled, Direct
  <2>8. QED
    BY <1>1, <2>7
<1>8. CASE Owed' \subseteq Owed
  <2>1. PICK C : C = Owed \ Owed'
    OBVIOUS
  <2>2. C \subseteq Owed \cap (handled \cap Directs) /\ Owed' = Owed \ C
    BY <1>6, <1>7, <1>8, <2>1
  <2>3. Abstract!Settle(C)
    BY <1>2, <1>5, <2>2 DEF Abstract!Settle
  <2>4. C \in SUBSET Owed
    BY <2>2
  <2>5. QED
    BY <2>3, <2>4 DEF Abstract!Next
<1>9. CASE ~(Owed' \subseteq Owed)
  <2>1. PICK c \in Owed' : c \notin Owed
    BY <1>9
  <2>2. PICK r \in Row : row'[r].db = "waiting" /\ row'[r].cid = c
    BY <2>1 DEF Of
  <2>3. row[r].db # "waiting"
    <3>1. row[r].db = "waiting" => row[r].cid = c
      BY <1>3, <2>2 DEF Kept
    <3>2. QED
      BY <1>6, <2>1, <3>1 DEF Of, Directs, Direct
  <2>4. Q!Enqueued(r) /\ row[r].cid = c
    BY <1>3, <2>2, <2>3, WaitsSince
  <2>5. \A q \in Row \ {r} : row'[q] = row[q]
    BY <1>3, <2>4 DEF Q!Enqueued, Rows
  <2>6. Owed' = Owed \cup {c}
    BY <1>6, <2>1, <2>2, <2>3, <2>5 DEF Of, Directs, Direct
  <2>7. Abstract!Accept(c)
    BY <1>2, <1>5, <2>6 DEF Abstract!Accept
  <2>8. QED
    BY <1>6, <2>1, <2>7 DEF Abstract!Next
<1>10. QED
  BY <1>8, <1>9

\* What a push does to who was shown its message.
LEMMA HandlesShows ==
  ASSUME Stores, NEW u \in Q!Push, Copy(u), D!Handles(u), Letter[u.cid].kind # "multicast"
  PROVE  \E S \in SUBSET {s \in Session : shown[s][u.cid] = 0 \/ u.cid \in deleted} :
           shown' = D!Published(u.cid, S)
<1>1. u.cid \in Cid /\ D!KeyOf(u) = u.cid /\ Seen(u.cid)
  BY KeyTyped DEF Copy, Stores, Q!Push
<1>2. shown \in [Session -> [Cid -> Nat]]
  BY DEF Stores, D!InboxTypeOK
<1>3. CASE D!Drops(u) \/ D!Ignores(u)
  <2>1. shown' = D!Published(u.cid, {})
    BY <1>2, <1>3 DEF D!Drops, D!Ignores, D!Published
  <2>2. QED
    BY <2>1
<1>4. CASE D!Inserts(u)
  <2>1. PICK S : S = D!Audience(D!Scoped(u))
    OBVIOUS
  <2>2. S \subseteq Session
    BY <2>1, ScopeTyped DEF D!Audience
  <2>3. \A s \in Session : shown[s][u.cid] = 0 \/ u.cid \in deleted
    BY <1>1, <1>4 DEF D!Inserts, Seen
  <2>4. QED
    BY <1>4, <2>1, <2>2, <2>3 DEF D!Inserts
<1>5. CASE D!Promotes(u)
  <2>1. PICK S : S = D!Others(u)
    OBVIOUS
  <2>2. S \subseteq Session /\ inbox[u.cid].kind = "session"
        /\ \A s \in S : inbox[u.cid].owner # s
    BY <1>1, <1>5, <2>1 DEF D!Others, D!Promotes
  <2>3. \A s \in S : shown[s][u.cid] = 0 \/ u.cid \in deleted
    BY <1>1, <2>2 DEF Seen
  <2>4. QED
    BY <1>5, <2>1, <2>2, <2>3 DEF D!Promotes
<1>6. QED
  BY <1>3, <1>4, <1>5 DEF D!Handles

\* A push of a direct message delivers it; one of another changes nothing here.
LEMMA HandlesRefines ==
  ASSUME IInv, NEW u \in reading, D!Handles(u), UNCHANGED brokerSide
  PROVE  Abstract!Next \/ UNCHANGED Abstract!vars
<1>1. /\ u \in Q!Push /\ Copy(u) /\ u.cid \in Cid /\ u.row \in Row
      /\ Stores /\ Rows /\ DeliveredWasHandled /\ UNCHANGED <<row, deleted>>
      /\ handled' = handled \cup {u.cid} /\ shown \in [Session -> [Cid -> Nat]]
  BY DEF IInv, Copies, Q!Push, brokerSide, D!Handles, Stores, D!InboxTypeOK
<1>2. UNCHANGED <<Of("waiting"), Of("deleted"), deleted \cap Directs>>
  BY <1>1, AbstractVars DEF Directs, Direct
<1>3. CASE Direct(u.cid)
  <2>1. PICK c : c = u.cid
    OBVIOUS
  <2>2. c \in Directs /\ Letter[c].kind # "multicast"
    BY <1>1, <1>3, <2>1 DEF Directs, Direct
  <2>3. c \in Of("waiting") \cup Of("deleted") \cup (handled \cap Directs)
    <3>1. row[u.row].cid = c /\ row[u.row].db \in {"waiting", "delivered", "deleted"}
      BY <1>1, <2>1 DEF Copy, Rows, RowRecord, Q!Db
    <3>2. QED
      BY <1>1, <1>3, <2>1, <2>2, <3>1 DEF Of, DeliveredWasHandled
  <2>4. PICK S \in SUBSET {s \in Session : shown[s][c] = 0 \/ c \in deleted} :
          shown' = D!Published(c, S)
    BY <1>1, <2>1, <2>2, HandlesShows
  <2>5. \A s \in S : ShownDirects[s][c] = 0 \/ c \in deleted \cap Directs
    BY <2>2 DEF ShownDirects
  <2>6. ShownDirects' = [s \in Session |->
          IF s \in S THEN [ShownDirects[s] EXCEPT ![c] = @ + 1] ELSE ShownDirects[s]]
    <3>1. \A s \in Session : shown'[s] = IF s \in S THEN [shown[s] EXCEPT ![c] = @ + 1] ELSE shown[s]
      BY <2>4 DEF D!Published
    <3>2. \A s \in Session : shown[s] \in [Cid -> Nat] /\ Directs \subseteq Cid
      BY <1>1 DEF Directs
    <3>3. ASSUME NEW s \in Session
          PROVE  [d \in Directs |-> shown'[s][d]] =
                   IF s \in S THEN [[d \in Directs |-> shown[s][d]] EXCEPT ![c] = @ + 1]
                              ELSE [d \in Directs |-> shown[s][d]]
      BY <2>2, <3>1, <3>2
    <3>4. QED
      BY <3>3 DEF ShownDirects, Directs, Direct
  <2>7. (handled \cap Directs)' = (handled \cap Directs) \cup {c}
    BY <1>1, <2>1, <2>2 DEF Directs, Direct
  <2>8. Abstract!Deliver(c)
    BY <1>2, <2>3, <2>5, <2>6, <2>7 DEF Abstract!Deliver
  <2>9. QED
    BY <2>2, <2>8 DEF Abstract!Next
<1>4. CASE ~Direct(u.cid)
  <2>1. (handled \cap Directs)' = handled \cap Directs
    BY <1>1, <1>4 DEF Directs, Direct
  <2>2. \A s \in Session, d \in Directs : shown'[s][d] = shown[s][d]
    <3>1. PICK S : shown' \in {shown, D!Published(u.cid, S)}
      BY DEF D!Handles, D!Drops, D!Ignores, D!Inserts, D!Promotes
    <3>2. \A s \in Session, d \in Cid \ {u.cid} : D!Published(u.cid, S)[s][d] = shown[s][d]
      BY <1>1, PublishedTyped
    <3>3. QED
      BY <1>4, <3>1, <3>2 DEF Directs
  <2>3. ShownDirects' = ShownDirects
    BY <2>2 DEF ShownDirects, Directs, Direct
  <2>4. QED
    BY <1>2, <2>1, <2>3 DEF Abstract!vars
<1>5. QED
  BY <1>3, <1>4

\* What the daemon removes, the mailbox's recipient has removed.
LEMMA DeletesRefines ==
  ASSUME IInv, NEW c \in Cid, D!Deletes(c), UNCHANGED brokerSide
  PROVE  Abstract!Next \/ UNCHANGED Abstract!vars
<1>1. /\ UNCHANGED <<row, handled, shown>> /\ deleted' = deleted \cup {c} /\ c \in handled
  BY DEF IInv, Stores, brokerSide, D!Deletes
<1>2. UNCHANGED <<Of("waiting"), Of("deleted"), handled \cap Directs, ShownDirects>>
  BY <1>1, AbstractVars DEF ShownDirects, Directs, Direct
<1>3. CASE Direct(c)
  <2>1. c \in Directs /\ (deleted \cap Directs)' = (deleted \cap Directs) \cup {c}
    BY <1>1, <1>3 DEF Directs, Direct
  <2>2. Abstract!Remove(c)
    BY <1>1, <1>2, <2>1 DEF Abstract!Remove
  <2>3. QED
    BY <2>1, <2>2 DEF Abstract!Next
<1>4. CASE ~Direct(c)
  <2>1. (deleted \cap Directs)' = deleted \cap Directs
    BY <1>1, <1>4 DEF Directs, Direct
  <2>2. QED
    BY <1>2, <2>1 DEF Abstract!vars
<1>5. QED
  BY <1>3, <1>4

\* Every step of broker and daemon is one of the mailbox, or none.
LEMMA StepRefines ==
  ASSUME IInv, IInv', [Next]_vars
  PROVE  [Abstract!Next]_(Abstract!vars)
<1>1. CASE Q!QueueNext /\ UNCHANGED daemonSide
  BY <1>1, BrokerRefines, SweepRefines DEF IInv
<1>2. CASE UNCHANGED <<row, handled, shown, deleted>>
  BY <1>2, AbstractVars DEF Abstract!vars
<1>3. CASE D!InboxNext /\ UNCHANGED brokerSide
  <2>1. CASE \E u \in reading : D!Handles(u)
    BY <1>3, <2>1, HandlesRefines
  <2>2. CASE \E c \in Cid : D!Deletes(c)
    BY <1>3, <2>2, DeletesRefines
  <2>3. CASE \E u \in wire : D!Receives(u)
    BY <1>2, <1>3, <2>3 DEF D!Receives, brokerSide
  <2>4. QED
    BY <1>3, <2>1, <2>2, <2>3 DEF D!InboxNext
<1>4. QED
  BY <1>1, <1>2, <1>3 DEF Next, DaemonDies, D!Forgets, vars

\* Broker and daemon start as a mailbox does.
LEMMA InitRefines == Init => Abstract!Init
<1> SUFFICES ASSUME Init PROVE Abstract!Init
  OBVIOUS
<1>1. Of("waiting") = {} /\ Of("deleted") = {}
  BY DEF Init, Q!QueueInit, Of
<1>2. handled = {} /\ deleted = {} /\ ShownDirects = [s \in Session |-> [c \in Directs |-> 0]]
  BY DEF Init, D!InboxInit, ShownDirects, Directs
<1>3. QED
  BY <1>1, <1>2 DEF Abstract!Init

\* Queue and inbox are a mailbox for direct messages: one accepted stays owed, over every
\* crash, loss and repetition, until its recipient has handled it or it has grown too old,
\* and is shown to each session at most once.
THEOREM DeliveryRefines == Spec => ImplementsMailbox
<1>1. IInv /\ IInv' /\ [Next]_vars => [Abstract!Next]_(Abstract!vars)
  BY StepRefines
<1>2. QED
  BY InitRefines, <1>1, DeliveryInductive, PTL DEF Spec, ImplementsMailbox, Abstract!Spec
==============================================================================
