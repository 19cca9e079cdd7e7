------------------------------- MODULE Lease -------------------------------
(***************************************************************************)
(* Presence leases of one mesh: the broker's connections map, the sockets  *)
(* beneath the leases, the presence rows in the database, and the clients' *)
(* reconnect loops.                                                        *)
(*                                                                         *)
(* The broker is one JavaScript event loop.  A hello handler runs in three *)
(* pieces, between which it awaits the database and anything else may      *)
(* happen: the capacity check (HelloArrives), the membership read          *)
(* (MemberRead), the decision between reattach and a new lease (Reattach,  *)
(* Dedup) and the insertion of the new lease (LeaseInserted).  A write the *)
(* code does not await is an element of writes until it lands.             *)
(*                                                                         *)
(* Socket and presence names stand for slots: a name is used again once    *)
(* nothing mentions it.                                                    *)
(***************************************************************************)
EXTENDS Naturals, FiniteSets, Functions

CONSTANTS
  Client,    \* reconnect loops (WsLifecycle), each with an identity of its own
  Sock, Pres,
  Key, Sid, Member,  \* session pubkeys, session ids, member pubkeys
  None,
  Ident,     \* what each client puts in its hello
  Capacity,  \* MAX_CONNECTIONS_PER_MESH
  SyncClose, \* does close() run the close handler synchronously (Bun) or not
  Fragile,   \* sockets whose network may fail silently, whose hello may be slow (bound)
  Fallible,  \* database writes that may be lost (bound)
  Operator   \* which operator verbs are explored (bound)

Role == {"control-plane", "session"}

ASSUME LeaseAssumption ==
  /\ Ident \in [Client -> [role : Role, key : Key \cup {None}, sid : Sid,
                           member : Member]]
  /\ \A c \in Client : Ident[c].role = "session" => Ident[c].key # None
  /\ Capacity \in Nat \ {0}
  /\ SyncClose \in BOOLEAN
  /\ IsFiniteSet(Pres)
  /\ None \notin Client \cup Sock \cup Pres \cup Key

VARIABLES
  connections, \* presence id -> lease, the broker's Map
  perMesh,     \* connectionsPerMesh of this mesh
  sock,        \* the broker's end of every socket, and its handler's closure
  link,        \* each client's current socket and status
  revoked,     \* members whose row has revokedAt set
  db,          \* presence rows: shown as connected, last_ping_at older than 90 s
  writes,      \* updates of presence rows on their way to the database
  sweep        \* where the stale sweep is, and the ids it holds

vars == <<connections, perMesh, sock, link, revoked, db, writes, sweep>>

Lease == [ws : Sock, role : Role, key : Key \cup {None}, sid : Sid,
          member : Member, state : {"online", "offline"}, timer : BOOLEAN]
Stage == {"hello", "checking", "verified", "inserting", "joined", "rejected"}
Code == {"none", "replaced", "kicked", "banned", "other"}
Socket == [owner : Client \cup {None}, broker : {"open", "closing", "closed"},
           code : Code, stage : Stage, pres : Pres \cup {None},
           silent : BOOLEAN]
Write == Pres \X {"restore", "disconnect"}

TypeOK ==
  /\ DOMAIN connections \subseteq Pres
  /\ connections \in [DOMAIN connections -> Lease]
  /\ perMesh \in Nat
  /\ sock \in [Sock -> Socket]
  /\ link \in [Client -> [ws : Sock \cup {None},
                          status : {"down", "connecting", "open", "replaced"}]]
  /\ revoked \subseteq Member
  /\ db \in [Pres -> [up : BOOLEAN, stale : BOOLEAN]]
  /\ writes \subseteq Write
  /\ sweep \in [stage : {"idle", "asked", "flipped"}, ids : SUBSET Pres]

NoSocket == [owner |-> None, broker |-> "closed", code |-> "none",
             stage |-> "rejected", pres |-> None, silent |-> FALSE]
Idle == [stage |-> "idle", ids |-> {}]

Init ==
  /\ connections = [p \in {} |-> p]
  /\ perMesh = 0
  /\ sock = [s \in Sock |-> NoSocket]
  /\ link = [c \in Client |-> [ws |-> None, status |-> "down"]]
  /\ revoked = {}
  /\ db = [p \in Pres |-> [up |-> FALSE, stale |-> FALSE]]
  /\ writes = {}
  /\ sweep = Idle

-----------------------------------------------------------------------------
(* Helpers.                                                                *)

Live == DOMAIN connections
Open(s) == sock[s].broker = "open"
WsOf(P) == {connections[p].ws : p \in P}
Held(s) == s \in WsOf(Live)
Id(s) == Ident[sock[s].owner]
Without(c, P) == Restrict(c, DOMAIN c \ P)

\* The sockets after the broker called close(code) on those of S.
ClosedBy(S, code) ==
  [s \in Sock |-> IF s \in S /\ Open(s)
                  THEN [sock[s] EXCEPT !.code = code,
                          !.broker = IF SyncClose THEN "closed" ELSE "closing"]
                  ELSE sock[s]]

\* The leases c after the close handler of s has run (decideCloseAction): only
\* the current socket of a lease matters, and it puts an online lease in grace.
AfterClose(c, s) ==
  LET p == sock[s].pres
  IN IF /\ sock[s].stage = "joined" /\ p \in DOMAIN c
        /\ c[p].ws = s /\ c[p].state = "online"
     THEN [c EXCEPT ![p].state = "offline", ![p].timer = TRUE]
     ELSE c

\* ... and when the broker itself closes s, at once or on a later tick.
AtOnce(c, s) == IF SyncClose /\ Open(s) THEN AfterClose(c, s) ELSE c

\* Mutant: the socket's close handler counts down as well, past zero.
DiscountedTwice(n) == perMesh - 2 * n
\* decMeshCount, n times.
Discounted(n) == IF n <= perMesh THEN perMesh - n ELSE 0

\* Mutant: the entries go, the counter stays (every path but the eviction's
\* once did this).
DropUncounted(P, code) ==
  /\ connections' = Without(connections, P)
  /\ perMesh' = perMesh
  /\ sock' = ClosedBy(WsOf(P), code)
  /\ writes' = writes \cup (P \X {"disconnect"})
\* dropConnection, the close of its socket and disconnectPresence, for the
\* leases of P.  Where the entry goes first the close handlers find none; kick, disconnect
\* and ban close the socket first, and with SyncClose its handler arms a grace timer that
\* finds no entry when it fires.  That timer is left out: in the code a presence id is unique.
Drop(P, code) ==
  /\ connections' = Without(connections, P)
  /\ perMesh' = Discounted(Cardinality(P))
  /\ sock' = ClosedBy(WsOf(P), code)
  /\ writes' = writes \cup (P \X {"disconnect"})

\* Mutant: the lease is forgotten and its socket left as it is.
EvictSocketless(P) ==
  /\ connections' = Without(connections, P)
  /\ perMesh' = Discounted(Cardinality(P))
  /\ sock' = sock
  /\ writes' = writes \cup (P \X {"disconnect"})
\* evictPresenceFully, for the leases of P.
Evict(P) == Drop(P, "other")

-----------------------------------------------------------------------------
(* The clients' end.                                                       *)

Free(s) == /\ sock[s].broker = "closed"
           /\ sock[s].stage \notin {"checking", "verified", "inserting"}
           /\ ~Held(s)
           /\ \A c \in Client : link[c].ws # s

\* openOnce: a new socket; the hello is on its way as soon as it is open.
ClientConnects(c, s) ==
  /\ link[c].status = "down" /\ Free(s)
  /\ link' = [link EXCEPT ![c] = [ws |-> s, status |-> "connecting"]]
  /\ sock' = [sock EXCEPT ![s] = [NoSocket EXCEPT !.owner = c, !.broker = "open",
                                                  !.stage = "hello"]]
  /\ UNCHANGED <<connections, perMesh, revoked, db, writes, sweep>>

\* The hello_ack arrives on the client's current socket.
ClientAcked(c) ==
  LET s == link[c].ws
  IN /\ link[c].status = "connecting"
     /\ Open(s) /\ sock[s].stage = "joined" /\ ~sock[s].silent
     /\ link' = [link EXCEPT ![c].status = "open"]
     /\ UNCHANGED <<connections, perMesh, sock, revoked, db, writes, sweep>>

\* Hello timeout, silence watchdog or a network error: the socket is abandoned.
ClientGivesUp(c) ==
  /\ link[c].ws # None
  /\ link' = [link EXCEPT ![c] = [ws |-> None, status |-> "down"]]
  /\ UNCHANGED <<connections, perMesh, sock, revoked, db, writes, sweep>>

\* The client's close handler: the code session_replaced is terminal.
ClientSeesClose(c) ==
  LET s == link[c].ws
  IN /\ s # None /\ ~Open(s) /\ ~sock[s].silent
     /\ link' = [link EXCEPT ![c] =
          [ws |-> None,
           status |-> IF sock[s].code = "replaced" THEN "replaced" ELSE "down"]]
     /\ UNCHANGED <<connections, perMesh, sock, revoked, db, writes, sweep>>

-----------------------------------------------------------------------------
(* The broker's hello handlers.                                            *)

\* The shape and capacity checks, before the first await.
HelloArrives(s) ==
  /\ Open(s) /\ sock[s].stage = "hello" /\ ~sock[s].silent
  /\ sock' = IF perMesh >= Capacity
             THEN [ClosedBy({s}, "other") EXCEPT ![s].stage = "rejected"]
             ELSE [sock EXCEPT ![s].stage = "checking"]
  /\ UNCHANGED <<connections, perMesh, link, revoked, db, writes, sweep>>

\* Signature and membership; a revoked member is turned away.
MemberRead(s) ==
  /\ sock[s].stage = "checking"
  /\ sock' = IF Id(s).member \in revoked
             THEN [ClosedBy({s}, "banned") EXCEPT ![s].stage = "rejected"]
             ELSE [sock EXCEPT ![s].stage = "verified"]
  /\ UNCHANGED <<connections, perMesh, link, revoked, db, writes, sweep>>

\* The leases the hello of s may take over.  A session's key is enough, whatever
\* state the lease is in; a member-level hello takes over offline leases only.
Matches(s) ==
  {p \in Live :
     LET l == connections[p] id == Id(s)
     IN \/ /\ id.role = "session"
           /\ l.key = id.key
        \/ /\ id.role = "control-plane"
           /\ l.state = "offline"
           /\ l.key = id.key
           /\ id.key = None => l.sid = id.sid /\ l.member = id.member}

\* What the lease l becomes when its socket is swapped for s.
Swapped(l, s) ==
  [l EXCEPT !.ws = s, !.state = "online",
            !.sid = IF Id(s).role = "session" THEN Id(s).sid ELSE l.sid]

\* Mutant: the old order of reattachLease, closing the old socket first and
\* clearing the timer before that.
TakenOverCloseFirst(p, s) ==
  LET l == connections[p]
      closed == AtOnce([connections EXCEPT ![p].timer = FALSE], l.ws)
  IN [closed EXCEPT ![p] = [Swapped(closed[p], s) EXCEPT !.state = closed[p].state]]
\* reattachLease: swap, then close the old socket, then clear the timer and
\* force the lease online.
TakenOver(p, s) ==
  LET old == connections[p].ws
      swapped == [connections EXCEPT ![p] = Swapped(@, s)]
      closed == AtOnce(swapped, old)
  IN [closed EXCEPT ![p].state = "online", ![p].timer = FALSE]

\* Mutant: the presence row is not touched.
NoRestore(p) == writes
Restored(p) == writes \cup {<<p, "restore">>}

\* The decision, when a lease matches (by the Map's order, if several do).
Reattach(s, p) ==
  /\ sock[s].stage = "verified"
  /\ p \in Matches(s)
  /\ connections' = TakenOver(p, s)
  /\ sock' = [ClosedBy({connections[p].ws} \ {s}, "replaced") EXCEPT
                ![s].stage = "joined", ![s].pres = p]
  /\ writes' = Restored(p)
  /\ UNCHANGED <<perMesh, link, revoked, db, sweep>>

\* dedupTargets.
Duplicates(s) == {p \in Live : /\ connections[p].sid = Id(s).sid
                               /\ connections[p].role = Id(s).role}

\* The decision, when none does: ghosts of the session id go, and a new
\* presence row is awaited.
Dedup(s) ==
  /\ sock[s].stage = "verified"
  /\ Matches(s) = {}
  /\ connections' = Without(connections, Duplicates(s))
  /\ perMesh' = Discounted(Cardinality(Duplicates(s)))
  /\ sock' = [ClosedBy(WsOf(Duplicates(s)), "replaced") EXCEPT ![s].stage = "inserting"]
  /\ writes' = writes \cup (Duplicates(s) \X {"disconnect"})
  /\ UNCHANGED <<link, revoked, db, sweep>>

\* connectPresence returns an id never used before.
Fresh(p) == /\ p \notin Live /\ ~db[p].up /\ p \notin sweep.ids
            /\ \A w \in writes : w[1] # p
            /\ \A s \in Sock : sock[s].broker # "closed" => sock[s].pres # p

\* The new lease, counted and online whatever has become of its socket.
LeaseInserted(s, p) ==
  /\ sock[s].stage = "inserting"
  /\ Fresh(p)
  /\ connections' = [q \in Live \cup {p} |->
       IF q = p THEN [ws |-> s, role |-> Id(s).role, key |-> Id(s).key,
                      sid |-> Id(s).sid, member |-> Id(s).member,
                      state |-> "online", timer |-> FALSE]
       ELSE connections[q]]
  /\ perMesh' = perMesh + 1
  /\ sock' = [sock EXCEPT ![s].stage = "joined", ![s].pres = p]
  /\ db' = [db EXCEPT ![p] = [up |-> TRUE, stale |-> FALSE]]
  /\ UNCHANGED <<link, revoked, writes, sweep>>

-----------------------------------------------------------------------------
(* Closes, grace and the sweepers.                                         *)

\* The close event of a socket: the other end closed it, or the broker did and
\* the event comes on a later tick.
CloseEvent(s) ==
  /\ \/ sock[s].broker = "closing"
     \/ /\ Open(s) /\ ~sock[s].silent
        /\ link[sock[s].owner].ws # s
  /\ connections' = AfterClose(connections, s)
  /\ sock' = [sock EXCEPT ![s].broker = "closed"]
  /\ UNCHANGED <<perMesh, link, revoked, db, writes, sweep>>

\* The grace timer fires: shouldEvictOnGraceExpiry.
GraceExpires(p) ==
  /\ p \in Live /\ connections[p].timer
  /\ IF connections[p].state = "offline"
     THEN Evict({p})
     ELSE /\ connections' = [connections EXCEPT ![p].timer = FALSE]
          /\ UNCHANGED <<perMesh, sock, writes>>
  /\ UNCHANGED <<link, revoked, db, sweep>>

\* The network beneath a socket dies without a word to either end.
NetworkDies(s) ==
  /\ s \in Fragile /\ Open(s) /\ ~sock[s].silent
  /\ sock' = [sock EXCEPT ![s].silent = TRUE]
  /\ UNCHANGED <<connections, perMesh, link, revoked, db, writes, sweep>>

\* The ping loop terminates the socket of an online lease after 75 s of silence.
PingTimeout(p) ==
  /\ p \in Live /\ connections[p].state = "online"
  /\ Open(connections[p].ws) /\ sock[connections[p].ws].silent
  /\ connections' = AtOnce(connections, connections[p].ws)
  /\ sock' = ClosedBy({connections[p].ws}, "other")
  /\ UNCHANGED <<perMesh, link, revoked, db, writes, sweep>>

\* findZombieSockets: an open socket no lease refers to, old enough; where hellos
\* may be slow (Fragile), also one whose hello is still awaiting the database.
ZombieSweep(s) ==
  /\ Open(s) /\ ~Held(s)
  /\ sock[s].stage # "joined" => s \in Fragile
  /\ sock' = ClosedBy({s}, "other")
  /\ UNCHANGED <<connections, perMesh, link, revoked, db, writes, sweep>>

\* A row's last_ping_at falls 90 s behind: nothing pings it, or the heartbeat
\* write lags.  (Not within a sweep, which is short against 90 s.)
PingAges(p) ==
  /\ sweep.stage = "idle" /\ db[p].up /\ ~db[p].stale
  /\ db' = [db EXCEPT ![p].stale = TRUE]
  /\ UNCHANGED <<connections, perMesh, sock, link, revoked, writes, sweep>>

Healthy(s) == Open(s) /\ ~sock[s].silent

\* liveLeasePresenceIds.
Keep == {p \in Live : connections[p].state = "online" /\ Healthy(connections[p].ws)}

Heartbeat(p) ==
  /\ p \in Keep /\ db[p].stale
  /\ db' = [db EXCEPT ![p].stale = FALSE]
  /\ UNCHANGED <<connections, perMesh, sock, link, revoked, writes, sweep>>

\* The stale sweep computes what it must keep and asks the database ...
SweepAsks ==
  /\ sweep.stage = "idle"
  /\ sweep' = [stage |-> "asked", ids |-> Keep]
  /\ UNCHANGED <<connections, perMesh, sock, link, revoked, db, writes>>

\* ... which flips the other stale rows ...
SweepFlips ==
  LET flipped == {p \in Pres : db[p].up /\ db[p].stale /\ p \notin sweep.ids}
  IN /\ sweep.stage = "asked"
     /\ db' = [p \in Pres |-> IF p \in flipped THEN [db[p] EXCEPT !.up = FALSE]
                              ELSE db[p]]
     /\ sweep' = [stage |-> "flipped", ids |-> flipped]
     /\ UNCHANGED <<connections, perMesh, sock, link, revoked, writes>>

\* Mutant: the sweep does not look at the leases of the rows it flipped.
NoGhosts(P) == {}
\* reconcileFlippedPresences.
Ghosts(P) == {p \in P \cap Live : connections[p].state = "online"}

\* ... and evicts those that still hold an online lease.
SweepReconciles ==
  /\ sweep.stage = "flipped"
  /\ Evict(Ghosts(sweep.ids))
  /\ sweep' = Idle
  /\ UNCHANGED <<link, revoked, db>>

WriteLands(p, op) ==
  /\ <<p, op>> \in writes
  /\ writes' = writes \ {<<p, op>>}
  /\ db' = [db EXCEPT ![p] = IF op = "restore" THEN [up |-> TRUE, stale |-> FALSE]
                             ELSE [@ EXCEPT !.up = FALSE]]
  /\ UNCHANGED <<connections, perMesh, sock, link, revoked, sweep>>

\* The update fails and nobody awaits it.
WriteFails(p, op) ==
  /\ <<p, op>> \in writes /\ op \in Fallible
  /\ writes' = writes \ {<<p, op>>}
  /\ UNCHANGED <<connections, perMesh, sock, link, revoked, db, sweep>>

-----------------------------------------------------------------------------
(* Operator verbs.                                                         *)

\* kick closes session leases only, for good; disconnect closes any.
Kick(p) ==
  /\ "kick" \in Operator
  /\ p \in Live /\ connections[p].role = "session"
  /\ Drop({p}, "kicked")
  /\ UNCHANGED <<link, revoked, db, sweep>>

Disconnect(p) ==
  /\ "disconnect" \in Operator
  /\ p \in Live
  /\ Drop({p}, "other")
  /\ UNCHANGED <<link, revoked, db, sweep>>

\* ban revokes the member and, when that write is done, closes its leases.
LeasesOf(m) == {p \in Live : connections[p].member = m}

Ban(m) ==
  /\ "ban" \in Operator
  /\ m \notin revoked
  /\ revoked' = revoked \cup {m}
  /\ Drop(LeasesOf(m), "banned")
  /\ UNCHANGED <<link, db, sweep>>

-----------------------------------------------------------------------------
ClientStep(c) == \/ \E s \in Sock : ClientConnects(c, s)
                 \/ ClientAcked(c) \/ ClientGivesUp(c) \/ ClientSeesClose(c)

Hello(s) == \/ HelloArrives(s) \/ MemberRead(s) \/ Dedup(s)
            \/ \E p \in Pres : Reattach(s, p) \/ LeaseInserted(s, p)

Timers == \/ \E p \in Pres : GraceExpires(p) \/ PingTimeout(p)
          \/ \E s \in Sock : ZombieSweep(s)

Stale == \/ SweepAsks \/ SweepFlips \/ SweepReconciles
         \/ \E p \in Pres : PingAges(p) \/ Heartbeat(p)

Database == \E w \in writes : WriteLands(w[1], w[2]) \/ WriteFails(w[1], w[2])

Verbs == \/ \E p \in Pres : Kick(p) \/ Disconnect(p)
         \/ \E m \in Member : Ban(m)

Next == \/ \E c \in Client : ClientStep(c)
        \/ \E s \in Sock : Hello(s) \/ CloseEvent(s) \/ NetworkDies(s)
        \/ Timers \/ Stale \/ Database \/ Verbs

Spec == Init /\ [][Next]_vars

\* The broker's timers run, its database answers, close events come.
BrokerFairness ==
  /\ \A p \in Pres : /\ WF_vars(GraceExpires(p)) /\ WF_vars(PingTimeout(p))
                     /\ SF_vars(PingAges(p))
                     /\ \A op \in {"restore", "disconnect"} : WF_vars(WriteLands(p, op))
  /\ \A s \in Sock : WF_vars(CloseEvent(s))
  /\ WF_vars(SweepAsks) /\ WF_vars(SweepFlips) /\ WF_vars(SweepReconciles)

FairSpec == Spec /\ BrokerFairness

\* ... and the clients reconnect, and every await of a hello returns.
HelloFairness ==
  /\ \A c \in Client : /\ WF_vars(\E s \in Sock : ClientConnects(c, s))
                       /\ WF_vars(ClientAcked(c)) /\ WF_vars(ClientSeesClose(c))
  /\ \A s \in Sock : WF_vars(Hello(s))

ServedSpec == FairSpec /\ HelloFairness

-----------------------------------------------------------------------------
(* Properties.                                                             *)

\* The counter tracks the membership of the map exactly, on every path that adds
\* or removes a lease: it never bricks the mesh with phantom connections.
CounterIsExact == perMesh = Cardinality(Live)

\* A lease is in grace exactly while its eviction timer runs, and only a lease
\* whose socket is gone is in grace: no close, early, late or synchronous, puts
\* a healthy reattached lease on the way to eviction.
GraceOnlyWithoutSocket ==
  \A p \in Live : /\ connections[p].state = "offline" <=> connections[p].timer
                  /\ connections[p].state = "offline" => ~Open(connections[p].ws)

\* A socket the broker has acknowledged and not closed is the current socket of
\* the lease it was acknowledged for: no client sits connected and forgotten.
NoForgottenSocket ==
  \A s \in Sock : Open(s) /\ sock[s].stage = "joined" =>
    /\ sock[s].pres \in Live
    /\ connections[sock[s].pres].ws = s

\* A mesh whose clients are gone for good empties: every lease is evicted, also
\* one that was inserted or taken over for a socket already dead, and no presence
\* row stays shown as connected, in whatever order the writes landed.
Deserted == \A c \in Client : link[c].ws = None
MeshEmpties == <>[]Deserted => <>[](Live = {} /\ \A p \in Pres : ~db[p].up)

\* A client that keeps trying and gives up no socket before the broker closes it
\* is served, or told for good that it was replaced, or banned: neither its own
\* lease in grace nor a count gone wrong keeps it out for ever.
Patient(c) == <>[][link[c].ws # None /\ link'[c].ws = None => ~Open(link[c].ws)]_vars
Served ==
  \A c \in Client : Patient(c) =>
    []<>(link[c].status \in {"open", "replaced"} \/ Ident[c].member \in revoked)

\* A lease that is alive does not stay hidden.
LiveIsListed ==
  \A p \in Pres : p \in Keep ~> (p \notin Keep \/ db[p].up)
=============================================================================
