---------------------------- MODULE LeaseProofs ----------------------------
(***************************************************************************)
(* What the broker's leases guarantee for any number of clients, sockets   *)
(* and presences, under either behaviour of close().                       *)
(***************************************************************************)
EXTENDS Lease, FiniteSetTheorems, TLAPS

-----------------------------------------------------------------------------
(* What the helpers do.                                                    *)

\* Closing sockets changes nothing but their state and code, and leaves none of
\* them open.
LEMMA Closing ==
  ASSUME sock \in [Sock -> Socket], NEW S, NEW code \in Code,
         NEW t, t = ClosedBy(S, code)
  PROVE  /\ t \in [Sock -> Socket]
         /\ \A s \in Sock : /\ t[s].stage = sock[s].stage
                            /\ t[s].pres = sock[s].pres
                            /\ t[s].owner = sock[s].owner
                            /\ t[s].broker = "open" => s \notin S /\ Open(s)
                            /\ s \notin S => t[s] = sock[s]
BY DEF ClosedBy, Socket, Open

\* A close event moves at most the lease whose current socket it is, into grace.
MovesToGrace(d, c, s) ==
  /\ DOMAIN d = DOMAIN c
  /\ d \in [DOMAIN c -> Lease]
  /\ \A p \in DOMAIN c :
       /\ d[p].ws = c[p].ws
       /\ d[p] = c[p] \/ (c[p].ws = s /\ d[p].state = "offline" /\ d[p].timer = TRUE)

LEMMA ClosingLeases ==
  ASSUME NEW c, DOMAIN c \subseteq Pres, c \in [DOMAIN c -> Lease],
         NEW s \in Sock, sock \in [Sock -> Socket],
         NEW d, d = AfterClose(c, s) \/ d = AtOnce(c, s)
  PROVE  MovesToGrace(d, c, s)
<1>1. AfterClose(c, s) = c \/ \E p \in DOMAIN c :
        /\ c[p].ws = s
        /\ AfterClose(c, s) = [c EXCEPT ![p].state = "offline", ![p].timer = TRUE]
  BY DEF AfterClose
<1>2. d = c \/ \E p \in DOMAIN c :
        /\ c[p].ws = s
        /\ d = [c EXCEPT ![p].state = "offline", ![p].timer = TRUE]
  BY <1>1 DEF AtOnce
<1>3. CASE d = c
  BY <1>3 DEF MovesToGrace
<1>4. CASE d # c
  <2>1. PICK p \in DOMAIN c :
        /\ c[p].ws = s
        /\ d = [c EXCEPT ![p].state = "offline", ![p].timer = TRUE]
    BY <1>2, <1>4
  <2>2. \A q \in DOMAIN c : d[q] = IF q = p THEN [c[q] EXCEPT !.state = "offline",
                                                   !.timer = TRUE] ELSE c[q]
    BY <2>1
  <2>3. DOMAIN d = DOMAIN c /\ c[p] \in Lease
    BY <2>1
  <2>4. [c[p] EXCEPT !.state = "offline", !.timer = TRUE] \in Lease
    BY <2>3 DEF Lease
  <2>5. d \in [DOMAIN c -> Lease]
    BY <2>1, <2>2, <2>3, <2>4
  <2>6. QED
    BY <2>1, <2>2, <2>3, <2>5 DEF Lease, MovesToGrace
<1>5. QED
  BY <1>3, <1>4

\* Taking a lease over gives it the new socket, online and without a timer, and
\* leaves the other leases what they were, but for grace if they sat on the socket
\* it left.
TakesOver(d, p, s) ==
  /\ DOMAIN d = Live
  /\ d \in [Live -> Lease]
  /\ d[p].ws = s /\ d[p].state = "online" /\ d[p].timer = FALSE
  /\ \A q \in Live \ {p} :
       /\ d[q].ws = connections[q].ws
       /\ \/ d[q] = connections[q]
          \/ /\ connections[q].ws = connections[p].ws
             /\ d[q].state = "offline" /\ d[q].timer = TRUE

LEMMA Takeover ==
  ASSUME TypeOK, NEW p \in Live, NEW s \in Sock,
         sock[s].owner \in Client, NEW d, d = TakenOver(p, s)
  PROVE  TakesOver(d, p, s)
<1> DEFINE old == connections[p].ws
           swapped == [connections EXCEPT ![p] = Swapped(@, s)]
           closed == AtOnce(swapped, old)
<1>1. connections[p] \in Lease /\ old \in Sock
  BY DEF TypeOK, Live, Lease
<1>2. Ident[sock[s].owner].sid \in Sid
  BY LeaseAssumption DEF LeaseAssumption
<1>3. Swapped(connections[p], s) \in Lease /\ Swapped(connections[p], s).ws = s
  BY <1>1, <1>2 DEF Swapped, Lease, Id
<1>4. /\ DOMAIN swapped = Live /\ swapped \in [Live -> Lease]
      /\ swapped[p].ws = s
      /\ \A q \in Live \ {p} : swapped[q] = connections[q]
  BY <1>3 DEF TypeOK, Live
<1>5. /\ DOMAIN closed = Live /\ closed \in [Live -> Lease]
      /\ \A q \in Live :
           /\ closed[q].ws = swapped[q].ws
           /\ closed[q] = swapped[q] \/ (swapped[q].ws = old /\ closed[q].state = "offline"
                                          /\ closed[q].timer = TRUE)
  <2>1. DOMAIN swapped \subseteq Pres /\ swapped \in [DOMAIN swapped -> Lease]
    BY <1>4 DEF TypeOK, Live
  <2>2. sock \in [Sock -> Socket]
    BY DEF TypeOK
  <2> HIDE DEF swapped, old
  <2>3. MovesToGrace(closed, swapped, old)
    BY <1>1, <2>1, <2>2, ClosingLeases
  <2> HIDE DEF closed
  <2>4. QED
    BY <1>4, <2>3 DEF MovesToGrace
<1>6. d = [closed EXCEPT ![p].state = "online", ![p].timer = FALSE]
  BY DEF TakenOver
<1> HIDE DEF closed, swapped, old
<1>7. /\ DOMAIN d = Live
      /\ d[p] = [closed[p] EXCEPT !.state = "online", !.timer = FALSE]
      /\ \A q \in Live \ {p} : d[q] = closed[q]
  BY <1>5, <1>6
<1>8. d[p] \in Lease /\ d[p].ws = closed[p].ws /\ d[p].state = "online" /\ d[p].timer = FALSE
  <2>1. closed[p] \in Lease
    BY <1>5
  <2>2. d[p] \in Lease
    BY <2>1, <1>7 DEF Lease
  <2>3. QED
    BY <2>1, <2>2, <1>7 DEF Lease
<1>9. d \in [Live -> Lease]
  BY <1>5, <1>6, <1>7, <1>8
<1>10. ASSUME NEW q \in Live \ {p}
      PROVE  /\ d[q].ws = connections[q].ws
             /\ \/ d[q] = connections[q]
                \/ connections[q].ws = old /\ d[q].state = "offline" /\ d[q].timer = TRUE
  BY <1>4, <1>5, <1>7
<1>11. d[p].ws = s
  BY <1>4, <1>5, <1>8
<1>12. QED
  BY <1>7, <1>8, <1>9, <1>10, <1>11 DEF old, TakesOver

LEMMA Dropped ==
  ASSUME TypeOK, NEW P, NEW d, d = Without(connections, P)
  PROVE  /\ DOMAIN d = Live \ P
         /\ DOMAIN d \subseteq Pres
         /\ d \in [DOMAIN d -> Lease]
         /\ \A p \in DOMAIN d : p \in Live /\ d[p] = connections[p]
BY DEF TypeOK, Without, Restrict, Live

-----------------------------------------------------------------------------
(* Types.                                                                  *)

\* A socket past its hello has an owner: the hello is read through it.
Owned == \A s \in Sock : sock[s].owner = None => sock[s].stage = "rejected"

LEMMA Discounting ==
  ASSUME perMesh \in Nat, NEW n \in Nat
  PROVE  Discounted(n) \in Nat
BY DEF Discounted

\* The leases a drop closes are finitely many.
LEMMA FinitelyMany ==
  ASSUME TypeOK, NEW P, P \subseteq Live
  PROVE  IsFiniteSet(P) /\ Cardinality(P) \in Nat
<1>1. IsFiniteSet(Pres) /\ P \in SUBSET Pres
  BY LeaseAssumption DEF TypeOK, LeaseAssumption, Live
<1>2. QED
  BY <1>1, FS_Subset, FS_CardinalityType

\* Every way to drop leases keeps the types and leaves the other sockets' owners.
LEMMA DropTypes ==
  ASSUME TypeOK, Owned, NEW P, P \subseteq Live,
         NEW code \in Code, Drop(P, code)
  PROVE  /\ DOMAIN connections' \subseteq Pres
         /\ connections' \in [DOMAIN connections' -> Lease]
         /\ perMesh' \in Nat
         /\ sock' \in [Sock -> Socket]
         /\ \A s \in Sock : sock'[s].owner = None => sock'[s].stage = "rejected"
         /\ writes' \subseteq Write
<1>1. connections' = Without(connections, P) /\ sock' = ClosedBy(WsOf(P), code)
  BY DEF Drop
<1>2. P \subseteq Pres /\ Cardinality(P) \in Nat
  BY FinitelyMany DEF TypeOK, Live
<1>3. DOMAIN connections' \subseteq Pres /\ connections' \in [DOMAIN connections' -> Lease]
  BY <1>1, Dropped
<1>4. perMesh' \in Nat
  BY <1>2, Discounting DEF Drop, TypeOK
<1>5. sock' \in [Sock -> Socket]
  <2>1. sock \in [Sock -> Socket]
    BY DEF TypeOK
  <2>2. QED
    BY <1>1, <2>1, Closing
<1>6. \A s \in Sock : sock'[s].owner = sock[s].owner /\ sock'[s].stage = sock[s].stage
  BY <1>1 DEF ClosedBy, TypeOK, Socket, Open
<1>7. writes' \subseteq Write
  BY <1>2 DEF Drop, TypeOK, Write
<1>8. QED
  BY <1>3, <1>4, <1>5, <1>6, <1>7 DEF Owned

\* Moving a socket to another stage, in a table of sockets.
LEMMA Staging ==
  ASSUME NEW t \in [Sock -> Socket], NEW s \in Sock, NEW st \in Stage, NEW u,
         u = [t EXCEPT ![s].stage = st]
  PROVE  /\ u \in [Sock -> Socket]
         /\ \A x \in Sock : /\ u[x].owner = t[x].owner
                            /\ u[x].broker = t[x].broker
                            /\ u[x].pres = t[x].pres
                            /\ x # s => u[x] = t[x]
         /\ u[s].stage = st
<1>1. t[s] \in Socket
  OBVIOUS
<1>2. [t[s] EXCEPT !.stage = st] \in Socket
  BY <1>1 DEF Socket
<1>3. u = [t EXCEPT ![s] = [t[s] EXCEPT !.stage = st]]
  OBVIOUS
<1>4. QED
  BY <1>1, <1>2, <1>3 DEF Socket

\* ... and naming its presence.
Joined(t, s, p) == [t EXCEPT ![s].stage = "joined", ![s].pres = p]

LEMMA Joining ==
  ASSUME NEW t \in [Sock -> Socket], NEW s \in Sock, NEW pr \in Pres,
         NEW u, u = Joined(t, s, pr)
  PROVE  /\ u \in [Sock -> Socket]
         /\ \A x \in Sock : /\ u[x].owner = t[x].owner
                            /\ u[x].broker = t[x].broker
                            /\ x # s => u[x] = t[x]
         /\ u[s].stage = "joined" /\ u[s].pres = pr
<1>1. t[s] \in Socket
  OBVIOUS
<1>2. [t[s] EXCEPT !.stage = "joined", !.pres = pr] \in Socket
  BY <1>1 DEF Socket, Stage
<1>3. u = [t EXCEPT ![s] = [t[s] EXCEPT !.stage = "joined", !.pres = pr]]
  BY DEF Joined
<1>4. QED
  BY <1>1, <1>2, <1>3 DEF Socket

OwnedNext == \A s \in Sock : sock'[s].owner = None => sock'[s].stage = "rejected"

\* Every step keeps the types.
LEMMA TypesStep ==
  ASSUME TypeOK, Owned, [Next]_vars
  PROVE  TypeOK' /\ OwnedNext
<1>a. sock \in [Sock -> Socket] /\ \A s \in Sock : sock[s] \in Socket
  BY DEF TypeOK
<1>b. DOMAIN connections \subseteq Pres /\ connections \in [DOMAIN connections -> Lease]
  BY DEF TypeOK
<1>1. ASSUME NEW c \in Client, NEW s \in Sock, ClientConnects(c, s)
      PROVE  TypeOK' /\ OwnedNext
  <2>1. [NoSocket EXCEPT !.owner = c, !.broker = "open", !.stage = "hello"] \in Socket
    BY DEF NoSocket, Socket, Stage, Code
  <2>2. sock' \in [Sock -> Socket]
    BY <1>1, <1>a, <2>1 DEF ClientConnects
  <2>3. OwnedNext
    BY <1>1, <1>a, LeaseAssumption DEF ClientConnects, OwnedNext, Owned, NoSocket, LeaseAssumption
  <2>4. QED
    BY <1>1, <2>2, <2>3 DEF ClientConnects, TypeOK
<1>2. ASSUME NEW c \in Client, ClientAcked(c) \/ ClientGivesUp(c) \/ ClientSeesClose(c)
      PROVE  TypeOK' /\ OwnedNext
  BY <1>2 DEF ClientAcked, ClientGivesUp, ClientSeesClose, TypeOK, OwnedNext, Owned
<1>3. ASSUME NEW s \in Sock, HelloArrives(s) \/ MemberRead(s)
      PROVE  TypeOK' /\ OwnedNext
  <2>1. PICK S \in SUBSET Sock, code \in Code, st \in Stage :
          /\ sock' = [ClosedBy(S, code) EXCEPT ![s].stage = st]
             \/ sock' = [sock EXCEPT ![s].stage = st]
          /\ sock[s].stage # "rejected"
    BY <1>3 DEF HelloArrives, MemberRead, Code, Stage
  <2>2. ClosedBy(S, code) \in [Sock -> Socket]
    BY <1>a, Closing
  <2>3. /\ sock' \in [Sock -> Socket]
        /\ \A x \in Sock : x # s => sock'[x] = sock[x] \/ sock'[x] = ClosedBy(S, code)[x]
        /\ sock'[s].owner = sock[s].owner \/ sock'[s].owner = ClosedBy(S, code)[s].owner
    <3>1. CASE sock' = [sock EXCEPT ![s].stage = st]
      BY <1>a, <3>1, Staging
    <3>2. CASE sock' = [ClosedBy(S, code) EXCEPT ![s].stage = st]
      BY <2>2, <3>2, Staging
    <3>3. QED
      BY <2>1, <3>1, <3>2
  <2>4. \A x \in Sock : /\ ClosedBy(S, code)[x].owner = sock[x].owner
                        /\ ClosedBy(S, code)[x].stage = sock[x].stage
    BY <1>a DEF ClosedBy, Socket, Open
  <2>5. OwnedNext
    BY <2>1, <2>3, <2>4 DEF OwnedNext, Owned
  <2>6. QED
    BY <1>3, <2>3, <2>5 DEF HelloArrives, MemberRead, TypeOK
<1>4. ASSUME NEW s \in Sock, NEW p \in Pres, Reattach(s, p)
      PROVE  TypeOK' /\ OwnedNext
  <2> DEFINE S == {connections[p].ws} \ {s}
  <2>1. sock[s].stage = "verified" /\ p \in Live
    BY <1>4 DEF Reattach, Matches
  <2>2. sock[s].owner \in Client
    BY <2>1, <1>a DEF Owned, Socket
  <2>3. connections' = TakenOver(p, s) /\ writes' = Restored(p)
        /\ sock' = Joined(ClosedBy(S, "replaced"), s, p)
    BY <1>4 DEF Reattach, Joined
  <2>4. DOMAIN connections' = Live /\ connections' \in [Live -> Lease]
    <3>1. connections' = TakenOver(p, s)
      BY <2>3
    <3>2. TakesOver(connections', p, s)
      BY <2>1, <2>2, <3>1, Takeover
    <3>3. QED
      BY <3>2 DEF TakesOver
  <2>5. "replaced" \in Code /\ "joined" \in Stage /\ p \in Pres \cup {None}
    BY DEF Code, Stage
  <2> HIDE DEF S
  <2>6. /\ ClosedBy(S, "replaced") \in [Sock -> Socket]
        /\ \A x \in Sock : /\ ClosedBy(S, "replaced")[x].owner = sock[x].owner
                           /\ ClosedBy(S, "replaced")[x].stage = sock[x].stage
    BY <1>a, <2>5, Closing
  <2>7. /\ sock' \in [Sock -> Socket]
        /\ \A x \in Sock : /\ sock'[x].owner = sock[x].owner
                           /\ x # s => sock'[x].stage = sock[x].stage
    BY <2>3, <2>6, Joining
  <2>8. OwnedNext
    BY <2>1, <2>7 DEF OwnedNext, Owned
  <2>9. writes' \subseteq Write
    BY <2>3 DEF Restored, TypeOK, Write
  <2>10. QED
    BY <1>4, <2>4, <2>7, <2>8, <2>9 DEF Reattach, TypeOK, Live
<1>5. ASSUME NEW s \in Sock, Dedup(s)
      PROVE  TypeOK' /\ OwnedNext
  <2> DEFINE P == Duplicates(s)
  <2>1. sock[s].stage = "verified" /\ P \subseteq Live
    BY <1>5 DEF Dedup, Duplicates
  <2>2. connections' = Without(connections, P) /\ perMesh' = Discounted(Cardinality(P))
        /\ sock' = [ClosedBy(WsOf(P), "replaced") EXCEPT ![s].stage = "inserting"]
        /\ writes' = writes \cup (P \X {"disconnect"})
    BY <1>5 DEF Dedup
  <2> HIDE DEF P
  <2>3. DOMAIN connections' \subseteq Pres /\ connections' \in [DOMAIN connections' -> Lease]
    BY <2>2, Dropped
  <2>4. perMesh' \in Nat
    BY <2>1, <2>2, FinitelyMany, Discounting DEF TypeOK
  <2>5. "replaced" \in Code /\ "inserting" \in Stage
    BY DEF Code, Stage
  <2>6. /\ ClosedBy(WsOf(P), "replaced") \in [Sock -> Socket]
        /\ \A x \in Sock : /\ ClosedBy(WsOf(P), "replaced")[x].owner = sock[x].owner
                           /\ ClosedBy(WsOf(P), "replaced")[x].stage = sock[x].stage
    BY <1>a, <2>5, Closing
  <2>7. /\ sock' \in [Sock -> Socket]
        /\ \A x \in Sock : /\ sock'[x].owner = sock[x].owner
                           /\ x # s => sock'[x].stage = sock[x].stage
    BY <2>2, <2>5, <2>6, Staging
  <2>8. OwnedNext
    BY <2>1, <2>7 DEF OwnedNext, Owned
  <2>9. writes' \subseteq Write
    BY <2>1, <2>2, <1>b DEF TypeOK, Write, Live
  <2>10. QED
    BY <1>5, <2>3, <2>4, <2>7, <2>8, <2>9 DEF Dedup, TypeOK
<1>6. ASSUME NEW s \in Sock, NEW p \in Pres, LeaseInserted(s, p)
      PROVE  TypeOK' /\ OwnedNext
  <2>1. sock[s].stage = "inserting" /\ sock[s].owner \in Client
    BY <1>6, <1>a DEF LeaseInserted, Owned, Socket
  <2> DEFINE new == [ws |-> s, role |-> Id(s).role, key |-> Id(s).key, sid |-> Id(s).sid,
                     member |-> Id(s).member, state |-> "online", timer |-> FALSE]
  <2>2. Ident[sock[s].owner] \in [role : Role, key : Key \cup {None}, sid : Sid, member : Member]
    BY <2>1, LeaseAssumption DEF LeaseAssumption
  <2>3. new \in Lease
    BY <2>2 DEF Lease, Id
  <2>4. connections' = [q \in Live \cup {p} |-> IF q = p THEN new ELSE connections[q]]
    BY <1>6 DEF LeaseInserted
  <2> HIDE DEF new
  <2>5. DOMAIN connections' \subseteq Pres /\ connections' \in [DOMAIN connections' -> Lease]
    BY <1>b, <2>3, <2>4 DEF Live
  <2>6. /\ sock' \in [Sock -> Socket]
        /\ \A x \in Sock : /\ sock'[x].owner = sock[x].owner
                           /\ x # s => sock'[x].stage = sock[x].stage
    <3>1. sock' = Joined(sock, s, p)
      BY <1>6 DEF LeaseInserted, Joined
    <3>2. QED
      BY <1>a, <3>1, Joining
  <2>7. OwnedNext
    BY <2>1, <2>6 DEF OwnedNext, Owned
  <2>8. perMesh' \in Nat /\ db' \in [Pres -> [up : BOOLEAN, stale : BOOLEAN]]
    BY <1>6 DEF LeaseInserted, TypeOK
  <2>9. QED
    BY <1>6, <2>5, <2>6, <2>7, <2>8 DEF LeaseInserted, TypeOK
<1>7. ASSUME NEW s \in Sock, CloseEvent(s)
      PROVE  TypeOK' /\ OwnedNext
  <2>1. connections' = AfterClose(connections, s)
    BY <1>7 DEF CloseEvent
  <2>2. DOMAIN connections' = DOMAIN connections /\ connections' \in [DOMAIN connections -> Lease]
    BY <1>a, <1>b, <2>1, ClosingLeases DEF MovesToGrace
  <2>3. sock' \in [Sock -> Socket] /\ OwnedNext
    BY <1>7, <1>a DEF CloseEvent, Socket, OwnedNext, Owned
  <2>4. QED
    BY <1>7, <1>b, <2>2, <2>3 DEF CloseEvent, TypeOK
<1>8. ASSUME NEW P \in SUBSET Live, NEW code \in Code, Drop(P, code),
             revoked' \subseteq Member, sweep' \in [stage : {"idle", "asked", "flipped"}, ids : SUBSET Pres],
             UNCHANGED <<link, db>>
      PROVE  TypeOK' /\ OwnedNext
  BY <1>8, DropTypes DEF TypeOK, OwnedNext
<1>9. ASSUME NEW p \in Pres, GraceExpires(p)
      PROVE  TypeOK' /\ OwnedNext
  <2>1. CASE connections[p].state = "offline"
    <3>1. {p} \in SUBSET Live /\ "other" \in Code /\ Drop({p}, "other")
      BY <1>9, <2>1 DEF GraceExpires, Evict, Code
    <3>2. revoked' \subseteq Member /\ UNCHANGED <<link, db>>
          /\ sweep' \in [stage : {"idle", "asked", "flipped"}, ids : SUBSET Pres]
      BY <1>9 DEF GraceExpires, TypeOK
    <3>3. QED
      BY <1>8, <3>1, <3>2
  <2>2. CASE connections[p].state # "offline"
    <3>1. connections' = [connections EXCEPT ![p].timer = FALSE] /\ p \in Live
          /\ UNCHANGED <<perMesh, sock, writes, link, revoked, db, sweep>>
      BY <1>9, <2>2 DEF GraceExpires
    <3>2. DOMAIN connections' = DOMAIN connections /\ connections' \in [DOMAIN connections -> Lease]
      <4>1. [connections[p] EXCEPT !.timer = FALSE] \in Lease
        <5>1. connections[p] \in Lease
          BY <3>1, <1>b DEF Live
        <5>2. QED
          BY <5>1 DEF Lease
      <4>2. connections' = [connections EXCEPT ![p] = [connections[p] EXCEPT !.timer = FALSE]]
        BY <3>1
      <4>3. p \in DOMAIN connections
        BY <3>1 DEF Live
      <4> DEFINE l == [connections[p] EXCEPT !.timer = FALSE]
      <4>4. l \in Lease /\ connections' = [connections EXCEPT ![p] = l]
        BY <4>1, <4>2
      <4> HIDE DEF l
      <4>5. connections' = [q \in DOMAIN connections |-> IF q = p THEN l ELSE connections[q]]
        BY <1>b, <4>4
      <4>6. \A q \in DOMAIN connections : (IF q = p THEN l ELSE connections[q]) \in Lease
        BY <1>b, <4>4
      <4>7. QED
        BY <4>5, <4>6
    <3>3. QED
      BY <1>b, <3>1, <3>2 DEF TypeOK, OwnedNext, Owned
  <2>3. QED
    BY <2>1, <2>2
<1>10. ASSUME NEW s \in Sock, NetworkDies(s)
       PROVE  TypeOK' /\ OwnedNext
  <2>1. sock' \in [Sock -> Socket] /\ OwnedNext
    BY <1>10, <1>a DEF NetworkDies, Socket, OwnedNext, Owned
  <2>2. QED
    BY <1>10, <2>1 DEF NetworkDies, TypeOK
<1>11. ASSUME NEW s \in Sock, connections' = AtOnce(connections, s),
              sock' = ClosedBy({s}, "other"),
              UNCHANGED <<perMesh, link, revoked, db, writes, sweep>>
       PROVE  TypeOK' /\ OwnedNext
  <2>1. DOMAIN connections' = DOMAIN connections /\ connections' \in [DOMAIN connections -> Lease]
    BY <1>a, <1>b, <1>11, ClosingLeases DEF MovesToGrace
  <2>2. "other" \in Code
    BY DEF Code
  <2>3. /\ sock' \in [Sock -> Socket]
        /\ \A x \in Sock : sock'[x].owner = sock[x].owner /\ sock'[x].stage = sock[x].stage
    BY <1>a, <1>11, <2>2, Closing
  <2>4. QED
    BY <1>b, <1>11, <2>1, <2>3 DEF TypeOK, OwnedNext, Owned
<1>12. ASSUME NEW s \in Sock, ZombieSweep(s)
       PROVE  TypeOK' /\ OwnedNext
  <2>1. "other" \in Code
    BY DEF Code
  <2>2. /\ sock' \in [Sock -> Socket]
        /\ \A x \in Sock : sock'[x].owner = sock[x].owner /\ sock'[x].stage = sock[x].stage
    BY <1>a, <1>12, <2>1, Closing DEF ZombieSweep
  <2>3. QED
    BY <1>12, <2>2 DEF ZombieSweep, TypeOK, OwnedNext, Owned
<1>13. ASSUME NEW p \in Pres, PingTimeout(p)
       PROVE  TypeOK' /\ OwnedNext
  <2>1. connections[p].ws \in Sock
    BY <1>13, <1>b DEF PingTimeout, Live, Lease
  <2>2. QED
    BY <1>11, <1>13, <2>1 DEF PingTimeout
<1>14. ASSUME NEW p \in Pres, PingAges(p) \/ Heartbeat(p)
       PROVE  TypeOK' /\ OwnedNext
  <2>1. PICK b \in BOOLEAN : db' = [db EXCEPT ![p].stale = b]
    BY <1>14 DEF PingAges, Heartbeat
  <2>2. [db[p] EXCEPT !.stale = b] \in [up : BOOLEAN, stale : BOOLEAN]
    BY DEF TypeOK
  <2>3. db' \in [Pres -> [up : BOOLEAN, stale : BOOLEAN]]
    BY <2>1, <2>2 DEF TypeOK
  <2>4. UNCHANGED <<connections, perMesh, sock, link, revoked, writes, sweep>>
    BY <1>14 DEF PingAges, Heartbeat
  <2>5. QED
    BY <2>3, <2>4 DEF TypeOK, OwnedNext, Owned
<1>15. ASSUME SweepAsks
       PROVE  TypeOK' /\ OwnedNext
  BY <1>15 DEF SweepAsks, TypeOK, OwnedNext, Owned, Keep, Live
<1>16. ASSUME SweepFlips
       PROVE  TypeOK' /\ OwnedNext
  <2>1. \A p \in Pres : db[p] \in [up : BOOLEAN, stale : BOOLEAN]
    BY DEF TypeOK
  <2>2. db' \in [Pres -> [up : BOOLEAN, stale : BOOLEAN]]
    BY <1>16, <2>1 DEF SweepFlips
  <2>3. sweep' \in [stage : {"idle", "asked", "flipped"}, ids : SUBSET Pres]
    BY <1>16 DEF SweepFlips
  <2>4. QED
    BY <1>16, <2>2, <2>3 DEF SweepFlips, TypeOK, OwnedNext, Owned
<1>17. ASSUME SweepReconciles
       PROVE  TypeOK' /\ OwnedNext
  <2>1. Ghosts(sweep.ids) \in SUBSET Live /\ "other" \in Code
        /\ Drop(Ghosts(sweep.ids), "other")
    BY <1>17 DEF SweepReconciles, Evict, Ghosts, Code
  <2>2. revoked' \subseteq Member /\ UNCHANGED <<link, db>>
        /\ sweep' \in [stage : {"idle", "asked", "flipped"}, ids : SUBSET Pres]
    BY <1>17 DEF SweepReconciles, TypeOK, Idle
  <2>3. QED
    BY <1>8, <2>1, <2>2
<1>18. ASSUME NEW w \in writes, WriteLands(w[1], w[2]) \/ WriteFails(w[1], w[2])
       PROVE  TypeOK' /\ OwnedNext
  <2>1. w[1] \in Pres
    BY DEF TypeOK, Write
  <2>2. db' \in [Pres -> [up : BOOLEAN, stale : BOOLEAN]]
    <3>1. [db[w[1]] EXCEPT !.up = FALSE] \in [up : BOOLEAN, stale : BOOLEAN]
      BY <2>1 DEF TypeOK
    <3>2. db' = db \/ \E r \in [up : BOOLEAN, stale : BOOLEAN] : db' = [db EXCEPT ![w[1]] = r]
      BY <1>18, <3>1 DEF WriteLands, WriteFails
    <3>3. QED
      BY <2>1, <3>2 DEF TypeOK
  <2>3. writes' \subseteq Write
    BY <1>18 DEF WriteLands, WriteFails, TypeOK
  <2>4. UNCHANGED <<connections, perMesh, sock, link, revoked, sweep>>
    BY <1>18 DEF WriteLands, WriteFails
  <2>5. QED
    BY <2>2, <2>3, <2>4 DEF TypeOK, OwnedNext, Owned
<1>19. ASSUME NEW p \in Pres, Kick(p) \/ Disconnect(p)
       PROVE  TypeOK' /\ OwnedNext
  <2>1. PICK code \in Code : {p} \in SUBSET Live /\ Drop({p}, code)
    BY <1>19 DEF Kick, Disconnect, Code
  <2>2. revoked' \subseteq Member /\ UNCHANGED <<link, db>>
        /\ sweep' \in [stage : {"idle", "asked", "flipped"}, ids : SUBSET Pres]
    BY <1>19 DEF Kick, Disconnect, TypeOK
  <2>3. QED
    BY <1>8, <2>1, <2>2
<1>20. ASSUME NEW m \in Member, Ban(m)
       PROVE  TypeOK' /\ OwnedNext
  <2>1. LeasesOf(m) \in SUBSET Live /\ "banned" \in Code /\ Drop(LeasesOf(m), "banned")
    BY <1>20 DEF Ban, LeasesOf, Code
  <2>2. revoked' \subseteq Member /\ UNCHANGED <<link, db>>
        /\ sweep' \in [stage : {"idle", "asked", "flipped"}, ids : SUBSET Pres]
    BY <1>20 DEF Ban, TypeOK
  <2>3. QED
    BY <1>8, <2>1, <2>2
<1>21. CASE UNCHANGED vars
  BY <1>21 DEF vars, TypeOK, OwnedNext, Owned
<1>22. QED
  BY <1>1, <1>2, <1>3, <1>4, <1>5, <1>6, <1>7, <1>9, <1>10, <1>12, <1>13, <1>14, <1>15,
     <1>16, <1>17, <1>18, <1>19, <1>20, <1>21
  DEF Next, ClientStep, Hello, Timers, Stale, Database, Verbs

LEMMA TypesInit == Init => TypeOK /\ Owned
BY DEF Init, TypeOK, Owned, NoSocket, Idle, Socket, Code, Stage, Lease, Write

\* The leases, the counter, the sockets, the rows and the sweep keep their types.
THEOREM LeaseTypes == Spec => [](TypeOK /\ Owned)
<1>1. TypeOK /\ Owned /\ [Next]_vars => TypeOK' /\ Owned'
  BY TypesStep DEF OwnedNext, Owned
<1>2. QED
  BY <1>1, TypesInit, PTL DEF Spec

-----------------------------------------------------------------------------
(* Sockets and leases.                                                     *)

\* The socket of a lease is past its hello, and its handler holds that lease's
\* presence id: the link between the two maps, in the direction NoForgottenSocket
\* does not say.
HeldIsJoined ==
  \A p \in Live : /\ sock[connections[p].ws].stage = "joined"
                  /\ sock[connections[p].ws].pres = p

Linked == HeldIsJoined /\ NoForgottenSocket

\* Steps that swap no socket in: leases may go with their sockets, sockets may
\* close, and a socket no lease holds may move on in its hello.
SwapsNone ==
  /\ DOMAIN connections' \subseteq Live
  /\ \A p \in DOMAIN connections' : connections'[p].ws = connections[p].ws
  /\ \A x \in Sock : \/ /\ sock'[x].stage = sock[x].stage
                        /\ sock'[x].pres = sock[x].pres
                        /\ sock'[x].broker = "open" => sock[x].broker = "open"
                      \/ /\ sock[x].stage # "joined" \/ ~Held(x)
                         /\ sock'[x].stage # "joined"
  /\ \A p \in Live \ DOMAIN connections' : sock'[connections[p].ws].broker # "open"

LEMMA Unswapped ==
  ASSUME TypeOK, Linked, SwapsNone
  PROVE  Linked'
<1>a. DOMAIN connections' \subseteq Live
  BY DEF SwapsNone
<1>b. \A p \in DOMAIN connections' : connections'[p].ws = connections[p].ws
  BY DEF SwapsNone
<1>c. \A x \in Sock : \/ /\ sock'[x].stage = sock[x].stage
                         /\ sock'[x].pres = sock[x].pres
                         /\ sock'[x].broker = "open" => sock[x].broker = "open"
                      \/ /\ sock[x].stage # "joined" \/ ~Held(x)
                         /\ sock'[x].stage # "joined"
  BY DEF SwapsNone
<1>d. \A p \in Live \ DOMAIN connections' : sock'[connections[p].ws].broker # "open"
  BY DEF SwapsNone
<1>1. \A p \in Live : connections[p].ws \in Sock
  BY DEF TypeOK, Live, Lease
<1>2. \A x \in Sock : Held(x) <=> \E p \in Live : connections[p].ws = x
  BY DEF Held, WsOf
<1>3. HeldIsJoined'
  <2> SUFFICES ASSUME NEW p \in DOMAIN connections'
               PROVE  /\ sock'[connections'[p].ws].stage = "joined"
                      /\ sock'[connections'[p].ws].pres = p
    BY DEF HeldIsJoined, Live
  <2>1. p \in Live /\ connections'[p].ws = connections[p].ws
    BY <1>a, <1>b
  <2>2. sock[connections[p].ws].stage = "joined" /\ sock[connections[p].ws].pres = p
    BY <2>1 DEF Linked, HeldIsJoined
  <2>3. Held(connections[p].ws)
    BY <1>1, <1>2, <2>1
  <2>4. QED
    BY <1>1, <1>c, <2>1, <2>2, <2>3
<1>4. NoForgottenSocket'
  <2> SUFFICES ASSUME NEW x \in Sock, sock'[x].broker = "open", sock'[x].stage = "joined"
               PROVE  /\ sock'[x].pres \in DOMAIN connections'
                      /\ connections'[sock'[x].pres].ws = x
    BY DEF NoForgottenSocket, Open, Live
  <2>1. Open(x) /\ sock[x].stage = "joined" /\ sock'[x].pres = sock[x].pres
    BY <1>c DEF Open
  <2>2. sock[x].pres \in Live /\ connections[sock[x].pres].ws = x
    BY <2>1 DEF Linked, NoForgottenSocket
  <2>3. QED
    BY <1>b, <1>d, <2>1, <2>2
<1>5. QED
  BY <1>3, <1>4 DEF Linked

\* A socket that a hello swaps in: it was not joined before, no lease is lost, the
\* other leases keep their sockets, and the lease's old socket is closed.
SwapsIn(s, p) ==
  /\ sock[s].stage # "joined"
  /\ DOMAIN connections' = Live \cup {p}
  /\ connections'[p].ws = s
  /\ \A q \in Live \ {p} : connections'[q].ws = connections[q].ws
  /\ sock'[s].stage = "joined" /\ sock'[s].pres = p
  /\ \A x \in Sock \ {s} : /\ sock'[x].stage = sock[x].stage
                           /\ sock'[x].pres = sock[x].pres
                           /\ sock'[x].broker = "open" => sock[x].broker = "open"
  /\ p \in Live => sock'[connections[p].ws].broker # "open"

LEMMA SwappedIn ==
  ASSUME TypeOK, Linked, NEW s \in Sock, NEW p \in Pres, SwapsIn(s, p)
  PROVE  Linked'
<1>a. sock[s].stage # "joined" /\ sock'[s].stage = "joined" /\ sock'[s].pres = p
  BY DEF SwapsIn, Open
<1>b. DOMAIN connections' = Live \cup {p} /\ connections'[p].ws = s
      /\ \A q \in Live \ {p} : connections'[q].ws = connections[q].ws
  BY DEF SwapsIn, Open
<1>c. \A x \in Sock \ {s} : /\ sock'[x].stage = sock[x].stage
                            /\ sock'[x].pres = sock[x].pres
                            /\ sock'[x].broker = "open" => sock[x].broker = "open"
  BY DEF SwapsIn, Open
<1>d. p \in Live => sock'[connections[p].ws].broker # "open"
  BY DEF SwapsIn, Open
<1>1. \A q \in Live : connections[q].ws \in Sock
  BY DEF TypeOK, Live, Lease
<1>2. HeldIsJoined'
  <2> SUFFICES ASSUME NEW q \in DOMAIN connections'
               PROVE  /\ sock'[connections'[q].ws].stage = "joined"
                      /\ sock'[connections'[q].ws].pres = q
    BY DEF HeldIsJoined, Live
  <2>1. CASE q = p
    BY <1>a, <1>b, <2>1
  <2>2. CASE q # p
    <3>1. q \in Live /\ connections'[q].ws = connections[q].ws
      BY <1>b, <2>2
    <3>2. sock[connections[q].ws].stage = "joined" /\ sock[connections[q].ws].pres = q
      BY <3>1 DEF Linked, HeldIsJoined
    <3>3. QED
      BY <1>1, <1>a, <1>c, <3>1, <3>2
  <2>3. QED
    BY <2>1, <2>2
<1>3. NoForgottenSocket'
  <2> SUFFICES ASSUME NEW x \in Sock, sock'[x].broker = "open", sock'[x].stage = "joined"
               PROVE  /\ sock'[x].pres \in DOMAIN connections'
                      /\ connections'[sock'[x].pres].ws = x
    BY DEF NoForgottenSocket, Open, Live
  <2>1. CASE x = s
    BY <1>a, <1>b, <2>1
  <2>2. CASE x # s
    <3>1. Open(x) /\ sock[x].stage = "joined" /\ sock'[x].pres = sock[x].pres
      BY <1>c, <2>2 DEF Open
    <3>2. sock[x].pres \in Live /\ connections[sock[x].pres].ws = x
      BY <3>1 DEF Linked, NoForgottenSocket
    <3>3. sock[x].pres # p
      BY <1>d, <2>2, <3>2
    <3>4. QED
      BY <1>b, <3>1, <3>2, <3>3
  <2>3. QED
    BY <2>1, <2>2
<1>4. QED
  BY <1>2, <1>3 DEF Linked

\* Dropping leases with their sockets, whatever else the step does.
LEMMA DropLinked ==
  ASSUME TypeOK, Linked, NEW P \in SUBSET Live, NEW code \in Code, Drop(P, code)
  PROVE  Linked'
<1>1. connections' = Without(connections, P) /\ sock' = ClosedBy(WsOf(P), code)
  BY DEF Drop
<1>2. DOMAIN connections' = Live \ P
      /\ \A p \in DOMAIN connections' : connections'[p] = connections[p]
  BY <1>1, Dropped
<1>3. \A x \in Sock : /\ sock'[x].stage = sock[x].stage
                      /\ sock'[x].pres = sock[x].pres
                      /\ sock'[x].broker = "open" => x \notin WsOf(P) /\ Open(x)
  <2>1. sock \in [Sock -> Socket]
    BY DEF TypeOK
  <2>2. QED
    BY <1>1, <2>1, Closing
<1>4. \A p \in P : connections[p].ws \in WsOf(P) /\ connections[p].ws \in Sock
  BY DEF WsOf, TypeOK, Live, Lease
<1>5. \A p \in Live \ DOMAIN connections' : sock'[connections[p].ws].broker # "open"
  BY <1>2, <1>3, <1>4
<1>6. SwapsNone
  BY <1>2, <1>3, <1>5 DEF SwapsNone, Open
<1>7. QED
  BY <1>6, Unswapped

\* Every step keeps leases and sockets linked.
LEMMA LinkedStep ==
  ASSUME TypeOK, Owned, Linked, [Next]_vars
  PROVE  Linked'
<1>a. sock \in [Sock -> Socket] /\ \A s \in Sock : sock[s] \in Socket
  BY DEF TypeOK
<1>b. DOMAIN connections \subseteq Pres /\ connections \in [DOMAIN connections -> Lease]
  BY DEF TypeOK
<1>c. \A p \in Live : connections[p].ws \in Sock
  BY <1>b DEF Live, Lease
<1>d. \A s \in Sock : sock[s].stage # "joined" => ~Held(s)
  BY DEF Held, WsOf, Linked, HeldIsJoined
<1>0. ASSUME connections' = connections, sock' = sock
      PROVE  Linked'
  BY <1>0 DEF Linked, HeldIsJoined, NoForgottenSocket, Live, Open
<1>1. ASSUME NEW c \in Client, NEW s \in Sock, ClientConnects(c, s)
      PROVE  Linked'
  <2>1. connections' = connections /\ ~Held(s)
    BY <1>1 DEF ClientConnects, Free
  <2>2. \A x \in Sock : x # s => sock'[x] = sock[x]
    BY <1>1 DEF ClientConnects
  <2>3. sock'[s].stage # "joined"
    BY <1>1, <1>a DEF ClientConnects, NoSocket
  <2>4. SwapsNone
    BY <2>1, <2>2, <2>3 DEF SwapsNone, Live, Open
  <2>5. QED
    BY <2>4, Unswapped
<1>2. ASSUME NEW c \in Client, ClientAcked(c) \/ ClientGivesUp(c) \/ ClientSeesClose(c)
      PROVE  Linked'
  BY <1>0, <1>2 DEF ClientAcked, ClientGivesUp, ClientSeesClose
<1>3. ASSUME NEW s \in Sock, HelloArrives(s) \/ MemberRead(s)
      PROVE  Linked'
  <2>1. PICK code \in Code, st \in Stage :
          /\ sock' = [ClosedBy({s}, code) EXCEPT ![s].stage = st]
             \/ sock' = [sock EXCEPT ![s].stage = st]
          /\ st # "joined" /\ sock[s].stage # "joined" /\ connections' = connections
    BY <1>3 DEF HelloArrives, MemberRead, Code, Stage
  <2>2. /\ ClosedBy({s}, code) \in [Sock -> Socket]
        /\ \A x \in Sock : x # s => ClosedBy({s}, code)[x] = sock[x]
    BY <1>a, Closing
  <2>3. sock'[s].stage = st /\ \A x \in Sock : x # s => sock'[x] = sock[x]
    <3>1. CASE sock' = [sock EXCEPT ![s].stage = st]
      BY <1>a, <3>1, Staging
    <3>2. CASE sock' = [ClosedBy({s}, code) EXCEPT ![s].stage = st]
      BY <2>2, <3>2, Staging
    <3>3. QED
      BY <2>1, <3>1, <3>2
  <2>4. SwapsNone
    BY <2>1, <2>3 DEF SwapsNone, Live, Open
  <2>5. QED
    BY <2>4, Unswapped
<1>4. ASSUME NEW s \in Sock, NEW p \in Pres, Reattach(s, p)
      PROVE  Linked'
  <2> DEFINE S == {connections[p].ws} \ {s}
  <2>1. sock[s].stage = "verified" /\ p \in Live
    BY <1>4 DEF Reattach, Matches
  <2>2. sock[s].owner \in Client
    BY <2>1, <1>a DEF Owned, Socket
  <2>3. connections' = TakenOver(p, s) /\ sock' = Joined(ClosedBy(S, "replaced"), s, p)
    BY <1>4 DEF Reattach, Joined
  <2>4. TakesOver(connections', p, s)
    BY <2>1, <2>2, <2>3, Takeover
  <2>5. "replaced" \in Code /\ connections[p].ws # s /\ S = {connections[p].ws}
    BY <2>1, <1>d DEF Code, Held, WsOf
  <2> HIDE DEF S
  <2>6. /\ ClosedBy(S, "replaced") \in [Sock -> Socket]
        /\ \A x \in Sock : /\ ClosedBy(S, "replaced")[x].pres = sock[x].pres
                           /\ ClosedBy(S, "replaced")[x].stage = sock[x].stage
                           /\ ClosedBy(S, "replaced")[x].broker = "open" => x \notin S /\ Open(x)
    BY <1>a, <2>5, Closing
  <2>7. /\ sock'[s].stage = "joined" /\ sock'[s].pres = p
        /\ \A x \in Sock \ {s} : sock'[x] = ClosedBy(S, "replaced")[x]
    BY <2>3, <2>6, Joining
  <2>8. /\ DOMAIN connections' = Live \cup {p}
        /\ connections'[p].ws = s
        /\ \A q \in Live \ {p} : connections'[q].ws = connections[q].ws
    BY <2>1, <2>4 DEF TakesOver
  <2>9. sock'[connections[p].ws].broker # "open"
    BY <1>c, <2>1, <2>5, <2>6, <2>7
  <2>10. \A x \in Sock \ {s} : /\ sock'[x].stage = sock[x].stage
                               /\ sock'[x].pres = sock[x].pres
                               /\ sock'[x].broker = "open" => Open(x)
    BY <2>6, <2>7
  <2>11. SwapsIn(s, p)
    BY <2>1, <2>7, <2>8, <2>9, <2>10 DEF SwapsIn, Open
  <2>12. QED
    BY <2>11, SwappedIn
<1>5. ASSUME NEW s \in Sock, Dedup(s)
      PROVE  Linked'
  <2> DEFINE P == Duplicates(s)
  <2>1. sock[s].stage = "verified" /\ P \subseteq Live
    BY <1>5 DEF Dedup, Duplicates
  <2>2. connections' = Without(connections, P)
        /\ sock' = [ClosedBy(WsOf(P), "replaced") EXCEPT ![s].stage = "inserting"]
    BY <1>5 DEF Dedup
  <2> HIDE DEF P
  <2>3. /\ DOMAIN connections' = Live \ P
        /\ \A p \in DOMAIN connections' : connections'[p] = connections[p]
    BY <2>2, Dropped
  <2>4. "replaced" \in Code /\ "inserting" \in Stage
    BY DEF Code, Stage
  <2>5. /\ ClosedBy(WsOf(P), "replaced") \in [Sock -> Socket]
        /\ \A x \in Sock : /\ ClosedBy(WsOf(P), "replaced")[x].pres = sock[x].pres
                           /\ ClosedBy(WsOf(P), "replaced")[x].stage = sock[x].stage
                           /\ ClosedBy(WsOf(P), "replaced")[x].broker = "open"
                                => x \notin WsOf(P) /\ Open(x)
    BY <1>a, <2>4, Closing
  <2>6. /\ sock'[s].stage = "inserting"
        /\ \A x \in Sock : /\ sock'[x].broker = ClosedBy(WsOf(P), "replaced")[x].broker
                           /\ x # s => sock'[x] = ClosedBy(WsOf(P), "replaced")[x]
    BY <2>2, <2>4, <2>5, Staging
  <2>7. \A p \in Live \ DOMAIN connections' : sock'[connections[p].ws].broker # "open"
    BY <1>c, <2>3, <2>5, <2>6 DEF WsOf
  <2>8. \A x \in Sock : \/ /\ sock'[x].stage = sock[x].stage
                           /\ sock'[x].pres = sock[x].pres
                           /\ sock'[x].broker = "open" => Open(x)
                         \/ /\ sock[x].stage # "joined"
                            /\ sock'[x].stage # "joined"
    BY <2>1, <2>5, <2>6
  <2>9. SwapsNone
    BY <2>3, <2>7, <2>8 DEF SwapsNone, Open
  <2>10. QED
    BY <2>9, Unswapped
<1>6. ASSUME NEW s \in Sock, NEW p \in Pres, LeaseInserted(s, p)
      PROVE  Linked'
  <2>1. sock[s].stage = "inserting" /\ p \notin Live
    BY <1>6 DEF LeaseInserted, Fresh
  <2>2. sock' = Joined(sock, s, p)
    BY <1>6 DEF LeaseInserted, Joined
  <2>3. /\ sock'[s].stage = "joined" /\ sock'[s].pres = p
        /\ \A x \in Sock \ {s} : sock'[x] = sock[x]
    BY <1>a, <2>2, Joining
  <2>4. /\ DOMAIN connections' = Live \cup {p}
        /\ connections'[p].ws = s
        /\ \A q \in Live \ {p} : connections'[q].ws = connections[q].ws
    BY <1>6 DEF LeaseInserted
  <2>5. SwapsIn(s, p)
    BY <2>1, <2>3, <2>4 DEF SwapsIn, Open
  <2>6. QED
    BY <2>5, SwappedIn
<1>7. ASSUME NEW s \in Sock, CloseEvent(s)
      PROVE  Linked'
  <2>1. connections' = AfterClose(connections, s)
    BY <1>7 DEF CloseEvent
  <2>2. MovesToGrace(connections', connections, s)
    BY <1>a, <1>b, <2>1, ClosingLeases
  <2>3. \A x \in Sock : /\ sock'[x].stage = sock[x].stage
                        /\ sock'[x].pres = sock[x].pres
                        /\ sock'[x].broker = "open" => Open(x)
    BY <1>7, <1>a DEF CloseEvent, Socket, Open
  <2>4. SwapsNone
    BY <2>2, <2>3 DEF SwapsNone, MovesToGrace, Live, Open
  <2>5. QED
    BY <2>4, Unswapped
<1>8. ASSUME NEW p \in Pres, GraceExpires(p)
      PROVE  Linked'
  <2>1. CASE connections[p].state = "offline"
    <3>1. {p} \in SUBSET Live /\ "other" \in Code /\ Drop({p}, "other")
      BY <1>8, <2>1 DEF GraceExpires, Evict, Code
    <3>2. QED
      BY <3>1, DropLinked
  <2>2. CASE connections[p].state # "offline"
    <3>1. connections' = [connections EXCEPT ![p].timer = FALSE] /\ p \in Live /\ sock' = sock
      BY <1>8, <2>2 DEF GraceExpires
    <3>2. /\ DOMAIN connections' = Live
          /\ \A q \in Live : connections'[q].ws = connections[q].ws
      BY <3>1, <1>b DEF Live, Lease
    <3>3. SwapsNone
      BY <3>1, <3>2 DEF SwapsNone, Open
    <3>4. QED
      BY <3>3, Unswapped
  <2>3. QED
    BY <2>1, <2>2
<1>9. ASSUME NEW s \in Sock, NetworkDies(s)
      PROVE  Linked'
  <2>1. connections' = connections
        /\ \A x \in Sock : /\ sock'[x].stage = sock[x].stage
                           /\ sock'[x].pres = sock[x].pres
                           /\ sock'[x].broker = sock[x].broker
    BY <1>9, <1>a DEF NetworkDies, Socket
  <2>2. SwapsNone
    BY <2>1 DEF SwapsNone, Live, Open
  <2>3. QED
    BY <2>2, Unswapped
<1>10. ASSUME NEW s \in Sock, connections' = AtOnce(connections, s) \/ connections' = connections,
              sock' = ClosedBy({s}, "other")
       PROVE  Linked'
  <2>1. MovesToGrace(connections', connections, s)
    <3>1. CASE connections' = connections
      BY <3>1, <1>b DEF MovesToGrace
    <3>2. CASE connections' = AtOnce(connections, s)
      BY <1>a, <1>b, <3>2, ClosingLeases
    <3>3. QED
      BY <1>10, <3>1, <3>2
  <2>2. "other" \in Code
    BY DEF Code
  <2>3. \A x \in Sock : /\ sock'[x].stage = sock[x].stage
                        /\ sock'[x].pres = sock[x].pres
                        /\ sock'[x].broker = "open" => Open(x)
    BY <1>a, <1>10, <2>2, Closing
  <2>4. SwapsNone
    BY <2>1, <2>3 DEF SwapsNone, MovesToGrace, Live, Open
  <2>5. QED
    BY <2>4, Unswapped
<1>11. ASSUME NEW s \in Sock, ZombieSweep(s)
       PROVE  Linked'
  BY <1>10, <1>11 DEF ZombieSweep
<1>12. ASSUME NEW p \in Pres, PingTimeout(p)
       PROVE  Linked'
  <2>1. connections[p].ws \in Sock
    BY <1>12, <1>c DEF PingTimeout
  <2>2. QED
    BY <1>10, <1>12, <2>1 DEF PingTimeout
<1>13. ASSUME NEW p \in Pres, PingAges(p) \/ Heartbeat(p)
       PROVE  Linked'
  BY <1>0, <1>13 DEF PingAges, Heartbeat
<1>14. ASSUME SweepAsks \/ SweepFlips
       PROVE  Linked'
  BY <1>0, <1>14 DEF SweepAsks, SweepFlips
<1>15. ASSUME SweepReconciles
       PROVE  Linked'
  <2>1. Ghosts(sweep.ids) \in SUBSET Live /\ "other" \in Code
        /\ Drop(Ghosts(sweep.ids), "other")
    BY <1>15 DEF SweepReconciles, Evict, Ghosts, Code
  <2>2. QED
    BY <2>1, DropLinked
<1>16. ASSUME NEW w \in writes, WriteLands(w[1], w[2]) \/ WriteFails(w[1], w[2])
       PROVE  Linked'
  BY <1>0, <1>16 DEF WriteLands, WriteFails
<1>17. ASSUME NEW p \in Pres, Kick(p) \/ Disconnect(p)
       PROVE  Linked'
  <2>1. PICK code \in Code : {p} \in SUBSET Live /\ Drop({p}, code)
    BY <1>17 DEF Kick, Disconnect, Code
  <2>2. QED
    BY <2>1, DropLinked
<1>18. ASSUME NEW m \in Member, Ban(m)
       PROVE  Linked'
  <2>1. LeasesOf(m) \in SUBSET Live /\ "banned" \in Code /\ Drop(LeasesOf(m), "banned")
    BY <1>18 DEF Ban, LeasesOf, Code
  <2>2. QED
    BY <2>1, DropLinked
<1>19. CASE UNCHANGED vars
  BY <1>0, <1>19 DEF vars
<1>20. QED
  BY <1>1, <1>2, <1>3, <1>4, <1>5, <1>6, <1>7, <1>8, <1>9, <1>11, <1>12, <1>13, <1>14,
     <1>15, <1>16, <1>17, <1>18, <1>19
  DEF Next, ClientStep, Hello, Timers, Stale, Database, Verbs

\* A socket the broker acknowledged and did not close is the one its lease is on,
\* whatever hellos, closes, sweeps and operator verbs overlap.
THEOREM LeaseNoForgotten == Spec => []NoForgottenSocket
<1>1. Init => Linked
  BY DEF Init, Linked, HeldIsJoined, NoForgottenSocket, Live, Open, NoSocket
<1>2. TypeOK /\ Owned /\ Linked /\ [Next]_vars => Linked'
  BY LinkedStep
<1>3. Linked => NoForgottenSocket
  BY DEF Linked
<1>4. QED
  BY <1>1, <1>2, <1>3, LeaseTypes, PTL DEF Spec

-----------------------------------------------------------------------------
(* Grace.                                                                  *)

\* What a step may make of a lease: leave it, bring it online without a timer, or
\* put it in grace with its timer, its socket gone.
GraceMoves ==
  \A p \in DOMAIN connections' :
    \/ /\ p \in Live
       /\ connections'[p] = connections[p]
       /\ (sock'[connections[p].ws].broker = "open" => Open(connections[p].ws))
    \/ /\ connections'[p].state = "online"
       /\ connections'[p].timer = FALSE
    \/ /\ connections'[p].state = "offline"
       /\ connections'[p].timer = TRUE
       /\ sock'[connections'[p].ws].broker # "open"

LEMMA GraceMoved ==
  ASSUME GraceOnlyWithoutSocket, GraceMoves
  PROVE  GraceOnlyWithoutSocket'
<1> SUFFICES ASSUME NEW p \in DOMAIN connections'
             PROVE  /\ (connections'[p].state = "offline" <=> connections'[p].timer)
                    /\ (connections'[p].state = "offline"
                          => sock'[connections'[p].ws].broker # "open")
  BY DEF GraceOnlyWithoutSocket, Live, Open
<1>1. CASE /\ p \in Live
           /\ connections'[p] = connections[p]
           /\ (sock'[connections[p].ws].broker = "open" => Open(connections[p].ws))
  BY <1>1 DEF GraceOnlyWithoutSocket, Open
<1>2. CASE connections'[p].state = "online" /\ connections'[p].timer = FALSE
  BY <1>2
<1>3. CASE /\ connections'[p].state = "offline" /\ connections'[p].timer = TRUE
           /\ sock'[connections'[p].ws].broker # "open"
  BY <1>3
<1>4. QED
  BY <1>1, <1>2, <1>3 DEF GraceMoves

\* Dropping leases leaves the others as they were, and closes only.
LEMMA DropGrace ==
  ASSUME TypeOK, GraceOnlyWithoutSocket, NEW P \in SUBSET Live, NEW code \in Code,
         connections' = Without(connections, P),
         NEW S, \A x \in Sock : sock'[x].broker = ClosedBy(S, code)[x].broker
  PROVE  GraceOnlyWithoutSocket'
<1>1. \A p \in DOMAIN connections' : p \in Live /\ connections'[p] = connections[p]
  BY Dropped
<1>2. sock \in [Sock -> Socket] /\ \A p \in Live : connections[p].ws \in Sock
  BY DEF TypeOK, Live, Lease
<1>3. \A x \in Sock : ClosedBy(S, code)[x].broker = "open" => Open(x)
  BY <1>2, Closing
<1>4. GraceMoves
  BY <1>1, <1>2, <1>3 DEF GraceMoves, Open
<1>5. QED
  BY <1>4, GraceMoved

\* Every step keeps grace to leases whose socket is gone.
LEMMA GraceStep ==
  ASSUME TypeOK, Owned, Linked, GraceOnlyWithoutSocket, [Next]_vars
  PROVE  GraceOnlyWithoutSocket'
<1>a. sock \in [Sock -> Socket] /\ \A s \in Sock : sock[s] \in Socket
  BY DEF TypeOK
<1>b. DOMAIN connections \subseteq Pres /\ connections \in [DOMAIN connections -> Lease]
  BY DEF TypeOK
<1>c. \A p \in Live : connections[p].ws \in Sock
  BY <1>b DEF Live, Lease
<1>d. \A s \in Sock : sock[s].stage # "joined" => ~Held(s)
  BY DEF Held, WsOf, Linked, HeldIsJoined
<1>0. ASSUME connections' = connections,
             \A x \in Sock : Held(x) /\ sock'[x].broker = "open" => Open(x)
      PROVE  GraceOnlyWithoutSocket'
  <2>1. \A p \in Live : Held(connections[p].ws)
    BY DEF Held, WsOf
  <2>2. GraceMoves
    BY <1>0, <1>c, <2>1 DEF GraceMoves, Live, Open
  <2>3. QED
    BY <2>2, GraceMoved
<1>1. ASSUME NEW c \in Client, NEW s \in Sock, ClientConnects(c, s)
      PROVE  GraceOnlyWithoutSocket'
  <2>1. connections' = connections /\ ~Held(s) /\ \A x \in Sock : x # s => sock'[x] = sock[x]
    BY <1>1 DEF ClientConnects, Free
  <2>2. QED
    BY <1>0, <2>1 DEF Open
<1>2. ASSUME NEW c \in Client, ClientAcked(c) \/ ClientGivesUp(c) \/ ClientSeesClose(c)
      PROVE  GraceOnlyWithoutSocket'
  BY <1>0, <1>2 DEF ClientAcked, ClientGivesUp, ClientSeesClose, Open
<1>3. ASSUME NEW s \in Sock, HelloArrives(s) \/ MemberRead(s)
      PROVE  GraceOnlyWithoutSocket'
  <2>1. PICK code \in Code, st \in Stage :
          /\ sock' = [ClosedBy({s}, code) EXCEPT ![s].stage = st]
             \/ sock' = [sock EXCEPT ![s].stage = st]
          /\ sock[s].stage # "joined" /\ connections' = connections
    BY <1>3 DEF HelloArrives, MemberRead, Code, Stage
  <2>2. /\ ClosedBy({s}, code) \in [Sock -> Socket]
        /\ \A x \in Sock : x # s => ClosedBy({s}, code)[x] = sock[x]
    BY <1>a, Closing
  <2>3. \A x \in Sock : x # s => sock'[x] = sock[x]
    <3>1. CASE sock' = [sock EXCEPT ![s].stage = st]
      BY <1>a, <3>1, Staging
    <3>2. CASE sock' = [ClosedBy({s}, code) EXCEPT ![s].stage = st]
      BY <2>2, <3>2, Staging
    <3>3. QED
      BY <2>1, <3>1, <3>2
  <2>4. QED
    BY <1>0, <1>d, <2>1, <2>3 DEF Open
<1>4. ASSUME NEW s \in Sock, NEW p \in Pres, Reattach(s, p)
      PROVE  GraceOnlyWithoutSocket'
  <2> DEFINE S == {connections[p].ws} \ {s}
  <2>1. sock[s].stage = "verified" /\ p \in Live
    BY <1>4 DEF Reattach, Matches
  <2>2. sock[s].owner \in Client
    BY <2>1, <1>a DEF Owned, Socket
  <2>3. connections' = TakenOver(p, s) /\ sock' = Joined(ClosedBy(S, "replaced"), s, p)
    BY <1>4 DEF Reattach, Joined
  <2>4. TakesOver(connections', p, s)
    BY <2>1, <2>2, <2>3, Takeover
  <2>5. "replaced" \in Code /\ connections[p].ws # s /\ S = {connections[p].ws}
    BY <2>1, <1>d DEF Code, Held, WsOf
  <2> HIDE DEF S
  <2>6. /\ ClosedBy(S, "replaced") \in [Sock -> Socket]
        /\ \A x \in Sock : (ClosedBy(S, "replaced")[x].broker = "open" => x \notin S /\ Open(x))
    BY <1>a, <2>5, Closing
  <2>7. \A x \in Sock : sock'[x].broker = ClosedBy(S, "replaced")[x].broker
    BY <2>3, <2>6, Joining
  <2>8. \A q \in Live \ {p} :
          /\ connections'[q].ws = connections[q].ws
          /\ \/ connections'[q] = connections[q]
             \/ /\ connections[q].ws = connections[p].ws
                /\ connections'[q].state = "offline" /\ connections'[q].timer = TRUE
    BY <2>4 DEF TakesOver
  <2>9. DOMAIN connections' = Live /\ connections'[p].state = "online" /\ connections'[p].timer = FALSE
    BY <2>4 DEF TakesOver
  <2>10. \A x \in Sock : /\ (sock'[x].broker = "open" => Open(x))
                         /\ (x \in S => sock'[x].broker # "open")
    BY <2>6, <2>7
  <2>11. ASSUME NEW q \in Live \ {p}
         PROVE  \/ /\ connections'[q] = connections[q]
                   /\ (sock'[connections[q].ws].broker = "open" => Open(connections[q].ws))
                \/ /\ connections'[q].state = "offline"
                   /\ connections'[q].timer = TRUE
                   /\ sock'[connections'[q].ws].broker # "open"
    BY <1>c, <2>1, <2>5, <2>8, <2>10
  <2>12. GraceMoves
    BY <2>9, <2>11 DEF GraceMoves
  <2>13. QED
    BY <2>12, GraceMoved
<1>5. ASSUME NEW s \in Sock, Dedup(s)
      PROVE  GraceOnlyWithoutSocket'
  <2> DEFINE P == Duplicates(s)
  <2>1. connections' = Without(connections, P) /\ P \in SUBSET Live
        /\ sock' = [ClosedBy(WsOf(P), "replaced") EXCEPT ![s].stage = "inserting"]
    BY <1>5 DEF Dedup, Duplicates
  <2>2. "replaced" \in Code /\ "inserting" \in Stage
    BY DEF Code, Stage
  <2> HIDE DEF P
  <2>3. ClosedBy(WsOf(P), "replaced") \in [Sock -> Socket]
    BY <1>a, <2>2, Closing
  <2>4. \A x \in Sock : sock'[x].broker = ClosedBy(WsOf(P), "replaced")[x].broker
    BY <2>1, <2>2, <2>3, Staging
  <2>5. QED
    BY <2>1, <2>2, <2>4, DropGrace
<1>6. ASSUME NEW s \in Sock, NEW p \in Pres, LeaseInserted(s, p)
      PROVE  GraceOnlyWithoutSocket'
  <2>1. /\ DOMAIN connections' = Live \cup {p} /\ p \notin Live
        /\ connections'[p].state = "online" /\ connections'[p].timer = FALSE
        /\ \A q \in Live : connections'[q] = connections[q]
    BY <1>6 DEF LeaseInserted, Fresh
  <2>2. \A x \in Sock : sock'[x].broker = sock[x].broker
    <3>1. sock' = Joined(sock, s, p)
      BY <1>6 DEF LeaseInserted, Joined
    <3>2. QED
      BY <1>a, <3>1, Joining
  <2>3. GraceMoves
    BY <1>c, <2>1, <2>2 DEF GraceMoves, Open
  <2>4. QED
    BY <2>3, GraceMoved
<1>7. ASSUME NEW s \in Sock, MovesToGrace(connections', connections, s),
             \A x \in Sock : (sock'[x].broker = "open" => x # s /\ Open(x))
      PROVE  GraceOnlyWithoutSocket'
  <2>1. \A p \in Live :
          /\ connections'[p].ws = connections[p].ws
          /\ \/ connections'[p] = connections[p]
             \/ /\ connections[p].ws = s
                /\ connections'[p].state = "offline" /\ connections'[p].timer = TRUE
    BY <1>7 DEF MovesToGrace, Live
  <2>2. DOMAIN connections' = Live
    BY <1>7 DEF MovesToGrace, Live
  <2>3. GraceMoves
    BY <1>7, <1>c, <2>1, <2>2 DEF GraceMoves
  <2>4. QED
    BY <2>3, GraceMoved
<1>8. ASSUME NEW s \in Sock, CloseEvent(s)
      PROVE  GraceOnlyWithoutSocket'
  <2>1. connections' = AfterClose(connections, s)
    BY <1>8 DEF CloseEvent
  <2>2. MovesToGrace(connections', connections, s)
    BY <1>a, <1>b, <2>1, ClosingLeases
  <2>3. \A x \in Sock : (sock'[x].broker = "open" => x # s /\ Open(x))
    BY <1>8, <1>a DEF CloseEvent, Socket, Open
  <2>4. QED
    BY <1>7, <2>2, <2>3
<1>9. ASSUME NEW p \in Pres, PingTimeout(p)
      PROVE  GraceOnlyWithoutSocket'
  <2> DEFINE s == connections[p].ws
  <2>1. s \in Sock
    BY <1>9, <1>c DEF PingTimeout
  <2>2. connections' = AtOnce(connections, s) /\ sock' = ClosedBy({s}, "other")
    BY <1>9 DEF PingTimeout
  <2>3. "other" \in Code
    BY DEF Code
  <2> HIDE DEF s
  <2>4. MovesToGrace(connections', connections, s)
    BY <1>a, <1>b, <2>1, <2>2, ClosingLeases
  <2>5. \A x \in Sock : (sock'[x].broker = "open" => x # s /\ Open(x))
    BY <1>a, <2>2, <2>3, Closing
  <2>6. QED
    BY <1>7, <2>1, <2>4, <2>5
<1>10. ASSUME NEW s \in Sock, ZombieSweep(s)
       PROVE  GraceOnlyWithoutSocket'
  <2>1. "other" \in Code
    BY DEF Code
  <2>2. \A x \in Sock : (sock'[x].broker = "open" => Open(x))
    BY <1>10, <1>a, <2>1, Closing DEF ZombieSweep
  <2>3. QED
    BY <1>0, <1>10, <2>2 DEF ZombieSweep
<1>11. ASSUME NEW P \in SUBSET Live, NEW code \in Code, Drop(P, code)
       PROVE  GraceOnlyWithoutSocket'
  <2>1. connections' = Without(connections, P)
        /\ \A x \in Sock : sock'[x].broker = ClosedBy(WsOf(P), code)[x].broker
    BY <1>11 DEF Drop
  <2>2. QED
    BY <2>1, DropGrace
<1>12. ASSUME NEW p \in Pres, GraceExpires(p)
       PROVE  GraceOnlyWithoutSocket'
  <2>1. p \in Live /\ connections[p].state = "offline"
    BY <1>12, <1>b DEF GraceExpires, GraceOnlyWithoutSocket
  <2>2. {p} \in SUBSET Live /\ "other" \in Code /\ Drop({p}, "other")
    BY <1>12, <2>1 DEF GraceExpires, Evict, Code
  <2>3. QED
    BY <1>11, <2>2
<1>13. ASSUME NEW s \in Sock, NetworkDies(s)
       PROVE  GraceOnlyWithoutSocket'
  <2>1. \A x \in Sock : (sock'[x].broker = "open" => Open(x))
    BY <1>13, <1>a DEF NetworkDies, Socket, Open
  <2>2. QED
    BY <1>0, <1>13, <2>1 DEF NetworkDies
<1>14. ASSUME NEW p \in Pres, PingAges(p) \/ Heartbeat(p)
       PROVE  GraceOnlyWithoutSocket'
  BY <1>0, <1>14 DEF PingAges, Heartbeat, Open
<1>15. ASSUME SweepAsks \/ SweepFlips
       PROVE  GraceOnlyWithoutSocket'
  BY <1>0, <1>15 DEF SweepAsks, SweepFlips, Open
<1>16. ASSUME SweepReconciles
       PROVE  GraceOnlyWithoutSocket'
  <2>1. Ghosts(sweep.ids) \in SUBSET Live /\ "other" \in Code
        /\ Drop(Ghosts(sweep.ids), "other")
    BY <1>16 DEF SweepReconciles, Evict, Ghosts, Code
  <2>2. QED
    BY <1>11, <2>1
<1>17. ASSUME NEW w \in writes, WriteLands(w[1], w[2]) \/ WriteFails(w[1], w[2])
       PROVE  GraceOnlyWithoutSocket'
  BY <1>0, <1>17 DEF WriteLands, WriteFails, Open
<1>18. ASSUME NEW p \in Pres, Kick(p) \/ Disconnect(p)
       PROVE  GraceOnlyWithoutSocket'
  <2>1. PICK code \in Code : {p} \in SUBSET Live /\ Drop({p}, code)
    BY <1>18 DEF Kick, Disconnect, Code
  <2>2. QED
    BY <1>11, <2>1
<1>19. ASSUME NEW m \in Member, Ban(m)
       PROVE  GraceOnlyWithoutSocket'
  <2>1. LeasesOf(m) \in SUBSET Live /\ "banned" \in Code /\ Drop(LeasesOf(m), "banned")
    BY <1>19 DEF Ban, LeasesOf, Code
  <2>2. QED
    BY <1>11, <2>1
<1>20. CASE UNCHANGED vars
  BY <1>0, <1>20 DEF vars, Open
<1>21. QED
  BY <1>1, <1>2, <1>3, <1>4, <1>5, <1>6, <1>8, <1>9, <1>10, <1>12, <1>13, <1>14, <1>15,
     <1>16, <1>17, <1>18, <1>19, <1>20
  DEF Next, ClientStep, Hello, Timers, Stale, Database, Verbs

\* A lease in grace has its eviction timer and no open socket, whether or not the
\* runtime runs the close handler inside close(): a lease that was taken over is
\* never on the way to eviction.
THEOREM LeaseGrace == Spec => []GraceOnlyWithoutSocket
<1>1. Init => Linked /\ GraceOnlyWithoutSocket
  BY DEF Init, Linked, HeldIsJoined, NoForgottenSocket, GraceOnlyWithoutSocket, Live, Open, NoSocket
<1>2. TypeOK /\ Owned /\ Linked /\ GraceOnlyWithoutSocket /\ [Next]_vars
        => Linked' /\ GraceOnlyWithoutSocket'
  BY LinkedStep, GraceStep
<1>3. QED
  BY <1>1, <1>2, LeaseTypes, PTL DEF Spec

-----------------------------------------------------------------------------
(* The counter.                                                            *)

\* Removing a set of leases counts them down once each.
LEMMA CountedDown ==
  ASSUME TypeOK, CounterIsExact, NEW P \in SUBSET Live,
         connections' = Without(connections, P), perMesh' = Discounted(Cardinality(P))
  PROVE  CounterIsExact'
<1>1. DOMAIN connections' = Live \ P
  BY Dropped
<1>2. IsFiniteSet(Live) /\ IsFiniteSet(P) /\ Cardinality(Live) \in Nat /\ Cardinality(P) \in Nat
  BY FinitelyMany
<1>3. Cardinality(P) <= Cardinality(Live)
  BY <1>2, FS_Subset
<1>4. Live \cap P = P
  OBVIOUS
<1>5. Cardinality(Live \ P) = Cardinality(Live) - Cardinality(P)
  BY <1>2, <1>4, FS_Difference
<1>6. perMesh' = Cardinality(Live) - Cardinality(P)
  BY <1>2, <1>3 DEF Discounted, CounterIsExact
<1>7. QED
  BY <1>1, <1>5, <1>6 DEF CounterIsExact, Live

\* Every step counts what it adds and removes.
LEMMA CounterStep ==
  ASSUME TypeOK, Owned, CounterIsExact, [Next]_vars
  PROVE  CounterIsExact'
<1>a. sock \in [Sock -> Socket] /\ \A s \in Sock : sock[s] \in Socket
  BY DEF TypeOK
<1>b. DOMAIN connections \subseteq Pres /\ connections \in [DOMAIN connections -> Lease]
  BY DEF TypeOK
<1>0. ASSUME DOMAIN connections' = Live, perMesh' = perMesh
      PROVE  CounterIsExact'
  BY <1>0 DEF CounterIsExact, Live
<1>1. ASSUME NEW c \in Client, ClientStep(c)
      PROVE  CounterIsExact'
  BY <1>0, <1>1 DEF ClientStep, ClientConnects, ClientAcked, ClientGivesUp, ClientSeesClose, Live
<1>2. ASSUME NEW s \in Sock, HelloArrives(s) \/ MemberRead(s) \/ NetworkDies(s) \/ ZombieSweep(s)
      PROVE  CounterIsExact'
  BY <1>0, <1>2 DEF HelloArrives, MemberRead, NetworkDies, ZombieSweep, Live
<1>3. ASSUME NEW s \in Sock, NEW p \in Pres, Reattach(s, p)
      PROVE  CounterIsExact'
  <2>1. sock[s].stage = "verified" /\ p \in Live /\ connections' = TakenOver(p, s)
        /\ perMesh' = perMesh
    BY <1>3 DEF Reattach, Matches
  <2>2. sock[s].owner \in Client
    BY <2>1, <1>a DEF Owned, Socket
  <2>3. TakesOver(connections', p, s)
    BY <2>1, <2>2, Takeover
  <2>4. QED
    BY <1>0, <2>1, <2>3 DEF TakesOver
<1>4. ASSUME NEW s \in Sock, Dedup(s)
      PROVE  CounterIsExact'
  <2>1. Duplicates(s) \in SUBSET Live /\ connections' = Without(connections, Duplicates(s))
        /\ perMesh' = Discounted(Cardinality(Duplicates(s)))
    BY <1>4 DEF Dedup, Duplicates
  <2>2. QED
    BY <2>1, CountedDown
<1>5. ASSUME NEW s \in Sock, NEW p \in Pres, LeaseInserted(s, p)
      PROVE  CounterIsExact'
  <2>1. DOMAIN connections' = Live \cup {p} /\ p \notin Live /\ perMesh' = perMesh + 1
    BY <1>5 DEF LeaseInserted, Fresh
  <2>2. IsFiniteSet(Live) /\ Cardinality(Live) \in Nat
    BY FinitelyMany
  <2>3. Cardinality(Live \cup {p}) = Cardinality(Live) + 1
    BY <2>1, <2>2, FS_AddElement
  <2>4. QED
    BY <2>1, <2>3 DEF CounterIsExact, Live
<1>6. ASSUME NEW s \in Sock, CloseEvent(s)
      PROVE  CounterIsExact'
  <2>1. connections' = AfterClose(connections, s) /\ perMesh' = perMesh
    BY <1>6 DEF CloseEvent
  <2>2. MovesToGrace(connections', connections, s)
    BY <1>a, <1>b, <2>1, ClosingLeases
  <2>3. QED
    BY <1>0, <2>1, <2>2 DEF MovesToGrace, Live
<1>7. ASSUME NEW p \in Pres, PingTimeout(p)
      PROVE  CounterIsExact'
  <2>1. connections[p].ws \in Sock
    BY <1>7, <1>b DEF PingTimeout, Live, Lease
  <2>2. connections' = AtOnce(connections, connections[p].ws) /\ perMesh' = perMesh
    BY <1>7 DEF PingTimeout
  <2>3. MovesToGrace(connections', connections, connections[p].ws)
    BY <1>a, <1>b, <2>1, <2>2, ClosingLeases
  <2>4. QED
    BY <1>0, <2>2, <2>3 DEF MovesToGrace, Live
<1>8. ASSUME NEW P \in SUBSET Live, NEW code, Drop(P, code)
      PROVE  CounterIsExact'
  BY <1>8, CountedDown DEF Drop
<1>9. ASSUME NEW p \in Pres, GraceExpires(p)
      PROVE  CounterIsExact'
  <2>1. CASE connections[p].state = "offline"
    <3>1. {p} \in SUBSET Live /\ Drop({p}, "other")
      BY <1>9, <2>1 DEF GraceExpires, Evict
    <3>2. QED
      BY <1>8, <3>1
  <2>2. CASE connections[p].state # "offline"
    <3>1. connections' = [connections EXCEPT ![p].timer = FALSE] /\ perMesh' = perMesh
      BY <1>9, <2>2 DEF GraceExpires
    <3>2. QED
      BY <1>0, <1>b, <3>1 DEF Live
  <2>3. QED
    BY <2>1, <2>2
<1>10. ASSUME Stale
       PROVE  CounterIsExact'
  <2>1. CASE SweepReconciles
    <3>1. Ghosts(sweep.ids) \in SUBSET Live /\ Drop(Ghosts(sweep.ids), "other")
      BY <2>1 DEF SweepReconciles, Evict, Ghosts
    <3>2. QED
      BY <1>8, <3>1
  <2>2. CASE ~SweepReconciles
    BY <1>0, <1>10, <2>2 DEF Stale, SweepAsks, SweepFlips, PingAges, Heartbeat, Live
  <2>3. QED
    BY <2>1, <2>2
<1>11. ASSUME Database
       PROVE  CounterIsExact'
  BY <1>0, <1>11 DEF Database, WriteLands, WriteFails, Live
<1>12. ASSUME Verbs
       PROVE  CounterIsExact'
  <2>1. PICK P \in SUBSET Live, code \in Code : Drop(P, code)
    <3>1. CASE \E p \in Pres : Kick(p) \/ Disconnect(p)
      <4>1. PICK p \in Live : Drop({p}, "kicked") \/ Drop({p}, "other")
        BY <3>1 DEF Kick, Disconnect
      <4>2. QED
        BY <4>1 DEF Code
    <3>2. CASE \E m \in Member : Ban(m)
      <4>1. PICK m \in Member : Drop(LeasesOf(m), "banned")
        BY <3>2 DEF Ban
      <4>2. QED
        BY <4>1 DEF Code, LeasesOf
    <3>3. QED
      BY <1>12, <3>1, <3>2 DEF Verbs
  <2>2. QED
    BY <1>8, <2>1
<1>13. CASE UNCHANGED vars
  BY <1>0, <1>13 DEF vars, Live
<1>14. QED
  BY <1>1, <1>2, <1>3, <1>4, <1>5, <1>6, <1>7, <1>9, <1>10, <1>11, <1>12, <1>13
  DEF Next, Hello, Timers

\* The mesh's connection counter equals the number of its leases for ever: no
\* number of reconnects, kicks and evictions drives it to the capacity on its own.
THEOREM LeaseCounter == Spec => []CounterIsExact
<1>1. Init => CounterIsExact
  BY FS_EmptySet DEF Init, CounterIsExact, Live
<1>2. TypeOK /\ Owned /\ CounterIsExact /\ [Next]_vars => CounterIsExact'
  BY CounterStep
<1>3. QED
  BY <1>1, <1>2, LeaseTypes, PTL DEF Spec
=============================================================================
