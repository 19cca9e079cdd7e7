--------------------------------- MODULE Hub ---------------------------------
(***************************************************************************)
(* The tables the broker keeps in memory for connected peers: URL watches, *)
(* stream subscriptions, the simulation clock, peer-hosted MCP servers,    *)
(* and what an eviction does to them. A mesh has one stream and one server *)
(* name.                                                                   *)
(***************************************************************************)
EXTENDS Naturals, FiniteSets

CONSTANTS Pres, MeshOf, MemberOf,
          Daemon,    \* presences made by hello, which alone restores servers
          Watch, Publish, Call,
          Object,    \* identities of subscriber sets
          None, MaxPage,
          Scene      \* [peers, uses]: who connects and what may happen

Mesh == {MeshOf[p] : p \in Pres}
Member == {MemberOf[p] : p \in Pres}
Use == {"watch", "stream", "mcp", "clock", "drop", "fail"}

ASSUME HubAssumption ==
  /\ DOMAIN MeshOf = Pres /\ DOMAIN MemberOf = Pres /\ Daemon \subseteq Pres
  /\ None \notin Pres \cup Object \cup Nat /\ MaxPage \in Nat
  /\ IsFiniteSet(Mesh) /\ IsFiniteSet(Publish)
  /\ Cardinality(Object) > Cardinality(Mesh) + Cardinality(Publish)
  /\ Scene \subseteq [peers : SUBSET Pres, uses : SUBSET Use]

VARIABLES
  conn,     \* connections, and what became of those that left it
  welcome,  \* hellos that have inserted their connection and not yet announced it
  watch, check, page, \* urlWatches, their fetches in flight, the page they watch
  stream, subs, publish, \* streamSubscriptions: a set object per key; its members
  clock, intervals,      \* meshClocks, and the interval timers alive
  server, call,          \* mcpRegistry, mcp_call
  scene

watchVars == <<watch, check, page>>
streamVars == <<stream, subs, publish>>
clockVars == <<clock, intervals>>
mcpVars == <<server, call>>
vars == <<conn, welcome, watchVars, streamVars, clockVars, mcpVars, scene>>

Page == 0..MaxPage
Slot == 1..2 \* a fetch takes up to two of the shortest intervals
Clock == [made : BOOLEAN, paused : BOOLEAN, timer : BOOLEAN]
Server == [pres : Pres \cup {None}, member : Member, persistent : BOOLEAN, online : BOOLEAN]

\* Types; and however hellos, evictions and calls interleave, a server is offline
\* exactly when it has no host, and only a persistent one is kept offline.
TypeOK ==
  /\ conn \in [Pres -> {"new", "up", "grace", "evicting", "gone", "stuck", "dropped"}]
  /\ welcome \subseteq Pres
  /\ watch \in [Watch -> [st : {"new", "on", "off"}, owner : Pres \cup {None},
                          val : Page \cup {None}]]
  /\ check \in [Watch -> [Slot -> Page \cup {None}]] /\ page \in Page
  /\ stream \in [Mesh -> Object \cup {None}] /\ subs \in [Object -> SUBSET Pres]
  /\ publish \in [Publish -> [st : {"new", "waits", "sent"}, of : Object \cup {None}]]
  /\ clock \in [Mesh -> Clock] /\ intervals \in [Mesh -> 0..1]
  /\ server \in [Mesh -> Server \cup {None}]
  /\ \A m \in Mesh : server[m] # None =>
       /\ server[m].online <=> server[m].pres # None
       /\ server[m].online \/ server[m].persistent
  /\ call \in [Call -> [st : {"new", "lookup", "waits", "answered"}, by : Pres \cup {None},
                        to : Pres \cup {None}]]
  /\ scene \in [peers : SUBSET Pres, uses : SUBSET Use]

Init ==
  /\ conn = [p \in Pres |-> "new"] /\ welcome = {}
  /\ watch = [w \in Watch |-> [st |-> "new", owner |-> None, val |-> None]]
  /\ check = [w \in Watch |-> [i \in Slot |-> None]] /\ page = 0
  /\ stream = [m \in Mesh |-> None] /\ subs = [o \in Object |-> {}]
  /\ publish = [u \in Publish |-> [st |-> "new", of |-> None]]
  /\ clock = [m \in Mesh |-> [made |-> FALSE, paused |-> FALSE, timer |-> FALSE]]
  /\ intervals = [m \in Mesh |-> 0]
  /\ server = [m \in Mesh |-> None]
  /\ call = [c \in Call |-> [st |-> "new", by |-> None, to |-> None]]
  /\ scene \in Scene

Connected(p) == conn[p] \in {"up", "grace"}
\* connectionsPerMesh.has
Populated(m) == \E p \in Pres : MeshOf[p] = m /\ Connected(p)
\* p sends a message of a kind this scene has.
Sends(p, use) == conn[p] = "up" /\ use \in scene.uses

-----------------------------------------------------------------------------
(* Connections come and go.                                                *)

Join(p) ==
  /\ p \in scene.peers /\ conn[p] = "new"
  /\ conn' = [conn EXCEPT ![p] = "up"]
  /\ welcome' = IF p \in Daemon THEN welcome \cup {p} ELSE welcome
  /\ UNCHANGED <<watchVars, streamVars, clockVars, mcpVars, scene>>

\* An offline server of p's member is taken over by p.
Restored(p, s) ==
  IF s # None /\ s.member = MemberOf[p] /\ ~s.online
  THEN [s EXCEPT !.online = TRUE, !.pres = p] ELSE s

\* Mutant: the connection is not looked up again after the catalog was read.
AnnouncedUnchecked(p) ==
  /\ p \in welcome
  /\ welcome' = welcome \ {p}
  /\ server' = [server EXCEPT ![MeshOf[p]] = Restored(p, @)]
  /\ UNCHANGED <<conn, watchVars, streamVars, clockVars, call, scene>>

\* The hello resumes from the read of the catalog.
Announced(p) ==
  /\ p \in welcome
  /\ welcome' = welcome \ {p}
  /\ server' = IF Connected(p) THEN [server EXCEPT ![MeshOf[p]] = Restored(p, @)] ELSE server
  /\ UNCHANGED <<conn, watchVars, streamVars, clockVars, call, scene>>

SocketCloses(p) ==
  /\ conn[p] = "up" /\ conn' = [conn EXCEPT ![p] = "grace"]
  /\ UNCHANGED <<welcome, watchVars, streamVars, clockVars, mcpVars, scene>>

Reattach(p) ==
  /\ conn[p] = "grace" /\ conn' = [conn EXCEPT ![p] = "up"]
  /\ UNCHANGED <<welcome, watchVars, streamVars, clockVars, mcpVars, scene>>

\* The entry goes first; the rest waits for the database.
Evict(p) ==
  /\ Connected(p) /\ conn' = [conn EXCEPT ![p] = "evicting"]
  /\ UNCHANGED <<welcome, watchVars, streamVars, clockVars, mcpVars, scene>>

\* The timer of each of p's watches is cleared and its entry deleted.
Unwatched(p, w) == IF w.owner = p THEN [w EXCEPT !.st = "off"] ELSE w

\* Mutant: the host stays in the entry.
OfflineKeepsHost(s) == IF s.persistent THEN [s EXCEPT !.online = FALSE] ELSE None

\* Without its host a persistent server is kept, offline.
Offline(s) == IF s.persistent THEN [s EXCEPT !.online = FALSE, !.pres = None] ELSE None

\* Mutant: the clock is paused and its interval goes on.
PausedOnly(m) == IF Populated(m) THEN clock[m] ELSE [clock[m] EXCEPT !.paused = TRUE]

\* A mesh that is empty by now has its clock paused.
Stilled(m) ==
  IF ~Populated(m) /\ clock[m].timer
  THEN [clock[m] EXCEPT !.timer = FALSE, !.paused = TRUE] ELSE clock[m]

\* Interval timers behind the clock's handle.
Ticking(k) == IF k.timer THEN 1 ELSE 0

EvictionEnds(p) ==
  /\ conn[p] = "evicting" /\ conn' = [conn EXCEPT ![p] = "gone"]
  /\ watch' = [w \in Watch |-> Unwatched(p, watch[w])]
  /\ subs' = [o \in Object |-> subs[o] \ {p}]
  /\ stream' = [m \in Mesh |-> IF stream[m] # None /\ subs'[stream[m]] = {}
                               THEN None ELSE stream[m]]
  /\ server' = [m \in Mesh |-> IF server[m] # None /\ server[m].pres = p
                               THEN Offline(server[m]) ELSE server[m]]
  /\ LET m == MeshOf[p] IN
     /\ clock' = [clock EXCEPT ![m] = Stilled(m)]
     /\ intervals' = [intervals EXCEPT ![m] = @ - (Ticking(clock[m]) - Ticking(Stilled(m)))]
  /\ UNCHANGED <<welcome, check, page, publish, call, scene>>

\* The database refuses, and the tables stay as they are.
EvictionFails(p) ==
  /\ "fail" \in scene.uses /\ conn[p] = "evicting"
  /\ conn' = [conn EXCEPT ![p] = "stuck"]
  /\ UNCHANGED <<welcome, watchVars, streamVars, clockVars, mcpVars, scene>>

\* Deduplication, kick and ban take the entry and nothing else.
DropConnection(p) ==
  /\ "drop" \in scene.uses /\ Connected(p)
  /\ conn' = [conn EXCEPT ![p] = "dropped"]
  /\ UNCHANGED <<welcome, watchVars, streamVars, clockVars, mcpVars, scene>>

-----------------------------------------------------------------------------
(* URL watches.                                                            *)

\* The first check starts at once.
StartWatch(p, w) ==
  /\ Sends(p, "watch") /\ watch[w].st = "new"
  /\ watch' = [watch EXCEPT ![w] = [st |-> "on", owner |-> p, val |-> None]]
  /\ check' = [check EXCEPT ![w][1] = page]
  /\ UNCHANGED <<conn, welcome, page, streamVars, clockVars, mcpVars, scene>>

\* Any peer that names the watch ends it.
Unwatch(p, w) ==
  /\ Sends(p, "watch") /\ watch[w].st = "on"
  /\ watch' = [watch EXCEPT ![w].st = "off"]
  /\ UNCHANGED <<conn, welcome, check, page, streamVars, clockVars, mcpVars, scene>>

\* The interval does not wait for the fetch before.
CheckStarts(w, i) ==
  /\ watch[w].st = "on" /\ check[w][i] = None
  /\ check' = [check EXCEPT ![w][i] = page]
  /\ UNCHANGED <<conn, welcome, watch, page, streamVars, clockVars, mcpVars, scene>>

\* Mutant: an answer is left out while another fetch is under way.
CheckEndsAlone(w, i) ==
  /\ check[w][i] # None
  /\ watch' = IF \E k \in Slot \ {i} : check[w][k] # None THEN watch
              ELSE [watch EXCEPT ![w].val = check[w][i]]
  /\ check' = [check EXCEPT ![w][i] = None]
  /\ UNCHANGED <<conn, welcome, page, streamVars, clockVars, mcpVars, scene>>

\* Fetches end in any order; the entry takes what the last one brought.
CheckEnds(w, i) ==
  /\ check[w][i] # None
  /\ watch' = [watch EXCEPT ![w].val = check[w][i]]
  /\ check' = [check EXCEPT ![w][i] = None]
  /\ UNCHANGED <<conn, welcome, page, streamVars, clockVars, mcpVars, scene>>

CheckFails(w, i) ==
  /\ check[w][i] # None
  /\ check' = [check EXCEPT ![w][i] = None]
  /\ UNCHANGED <<conn, welcome, watch, page, streamVars, clockVars, mcpVars, scene>>

PageChanges ==
  /\ "watch" \in scene.uses /\ page < MaxPage /\ page' = page + 1
  /\ UNCHANGED <<conn, welcome, watch, check, streamVars, clockVars, mcpVars, scene>>

-----------------------------------------------------------------------------
(* Streams.                                                                *)

\* A new Set is one that nothing refers to.
Fresh(o) == /\ \A m \in Mesh : stream[m] # o
            /\ \A u \in Publish : publish[u].st = "waits" => publish[u].of # o

\* Mutant: subscribing replaces the set by a copy.
SubscribeToCopy(p) ==
  /\ Sends(p, "stream")
  /\ LET m == MeshOf[p]
         o == CHOOSE x \in Object : Fresh(x)
     IN /\ stream' = [stream EXCEPT ![m] = o]
        /\ subs' = [subs EXCEPT ![o] = {p} \cup IF stream[m] = None THEN {} ELSE subs[stream[m]]]
  /\ UNCHANGED <<conn, welcome, watchVars, publish, clockVars, mcpVars, scene>>

Subscribe(p) ==
  /\ Sends(p, "stream")
  /\ LET m == MeshOf[p]
         o == IF stream[m] = None THEN CHOOSE x \in Object : Fresh(x) ELSE stream[m]
     IN /\ stream' = [stream EXCEPT ![m] = o]
        /\ subs' = [subs EXCEPT ![o] = {p} \cup IF stream[m] = None THEN {} ELSE @]
  /\ UNCHANGED <<conn, welcome, watchVars, publish, clockVars, mcpVars, scene>>

\* The set stays, even empty.
Unsubscribe(p) ==
  /\ Sends(p, "stream") /\ stream[MeshOf[p]] # None
  /\ subs' = [subs EXCEPT ![stream[MeshOf[p]]] = @ \ {p}]
  /\ UNCHANGED <<conn, welcome, watchVars, stream, publish, clockVars, mcpVars, scene>>

\* The set is looked up before the publisher's name is, and sent to after.
PublishRequested(p, u) ==
  /\ Sends(p, "stream") /\ publish[u].st = "new" /\ stream[MeshOf[p]] # None
  /\ publish' = [publish EXCEPT ![u] = [st |-> "waits", of |-> stream[MeshOf[p]]]]
  /\ UNCHANGED <<conn, welcome, watchVars, stream, subs, clockVars, mcpVars, scene>>

PublishSent(u) ==
  /\ publish[u].st = "waits"
  /\ publish' = [publish EXCEPT ![u] = [st |-> "sent", of |-> None]]
  /\ UNCHANGED <<conn, welcome, watchVars, stream, subs, clockVars, mcpVars, scene>>

-----------------------------------------------------------------------------
(* The simulation clock.                                                   *)

\* startClockInterval
Restarted(m) == intervals' = [intervals EXCEPT ![m] = 1 + @ - Ticking(clock[m])]

SetClock(p) ==
  /\ Sends(p, "clock")
  /\ LET m == MeshOf[p] IN
     IF clock[m].paused THEN UNCHANGED clockVars
     ELSE /\ clock' = [clock EXCEPT ![m] = [made |-> TRUE, paused |-> FALSE, timer |-> TRUE]]
          /\ Restarted(m)
  /\ UNCHANGED <<conn, welcome, watchVars, streamVars, mcpVars, scene>>

PauseClock(p) ==
  /\ Sends(p, "clock") /\ clock[MeshOf[p]].made
  /\ LET m == MeshOf[p] IN
     /\ clock' = [clock EXCEPT ![m].paused = TRUE, ![m].timer = FALSE]
     /\ intervals' = [intervals EXCEPT ![m] = @ - Ticking(clock[m])]
  /\ UNCHANGED <<conn, welcome, watchVars, streamVars, mcpVars, scene>>

ResumeClock(p) ==
  /\ Sends(p, "clock") /\ clock[MeshOf[p]].paused
  /\ clock' = [clock EXCEPT ![MeshOf[p]].paused = FALSE, ![MeshOf[p]].timer = TRUE]
  /\ Restarted(MeshOf[p])
  /\ UNCHANGED <<conn, welcome, watchVars, streamVars, mcpVars, scene>>

-----------------------------------------------------------------------------
(* Servers hosted by peers.                                                *)

\* The newest registration of a name is the one that counts.
McpRegister(p, persistent) ==
  /\ Sends(p, "mcp")
  /\ server' = [server EXCEPT ![MeshOf[p]] =
       [pres |-> p, member |-> MemberOf[p], persistent |-> persistent, online |-> TRUE]]
  /\ UNCHANGED <<conn, welcome, watchVars, streamVars, clockVars, call, scene>>

McpUnregister(p) ==
  /\ Sends(p, "mcp") /\ server[MeshOf[p]] # None /\ server[MeshOf[p]].pres = p
  /\ server' = [server EXCEPT ![MeshOf[p]] = None]
  /\ UNCHANGED <<conn, welcome, watchVars, streamVars, clockVars, call, scene>>

CallRequested(p, c) ==
  /\ Sends(p, "mcp") /\ call[c].st = "new"
  /\ call' = [call EXCEPT ![c] = [st |-> "lookup", by |-> p, to |-> None]]
  /\ UNCHANGED <<conn, welcome, watchVars, streamVars, clockVars, server, scene>>

\* No managed service has the name. A host that is connected is asked; the entry
\* of one that is not is corrected.
CallLooked(c) ==
  /\ call[c].st = "lookup"
  /\ LET m == MeshOf[call[c].by]
         s == server[m]
     IN IF s # None /\ s.online /\ Connected(s.pres)
        THEN /\ call' = [call EXCEPT ![c].st = "waits", ![c].to = s.pres]
             /\ UNCHANGED server
        ELSE /\ call' = [call EXCEPT ![c].st = "answered"]
             /\ server' = [server EXCEPT ![m] = IF s # None /\ s.online THEN Offline(s) ELSE s]
  /\ UNCHANGED <<conn, welcome, watchVars, streamVars, clockVars, scene>>

HostAnswers(c) ==
  /\ call[c].st = "waits" /\ conn[call[c].to] = "up"
  /\ call' = [call EXCEPT ![c].st = "answered"]
  /\ UNCHANGED <<conn, welcome, watchVars, streamVars, clockVars, server, scene>>

CallTimesOut(c) ==
  /\ call[c].st = "waits"
  /\ call' = [call EXCEPT ![c].st = "answered"]
  /\ UNCHANGED <<conn, welcome, watchVars, streamVars, clockVars, server, scene>>

-----------------------------------------------------------------------------
Next ==
  \/ \E p \in Pres :
       \/ Join(p) \/ Announced(p) \/ SocketCloses(p) \/ Reattach(p)
       \/ Evict(p) \/ EvictionEnds(p) \/ EvictionFails(p) \/ DropConnection(p)
       \/ \E w \in Watch : StartWatch(p, w) \/ Unwatch(p, w)
       \/ Subscribe(p) \/ Unsubscribe(p) \/ \E u \in Publish : PublishRequested(p, u)
       \/ SetClock(p) \/ PauseClock(p) \/ ResumeClock(p)
       \/ \E b \in BOOLEAN : McpRegister(p, b)
       \/ McpUnregister(p) \/ \E c \in Call : CallRequested(p, c)
  \/ \E w \in Watch, i \in Slot : CheckStarts(w, i) \/ CheckEnds(w, i) \/ CheckFails(w, i)
  \/ PageChanges
  \/ \E u \in Publish : PublishSent(u)
  \/ \E c \in Call : CallLooked(c) \/ HostAnswers(c) \/ CallTimesOut(c)

\* The watches' intervals go on, and a page that is fetched again and again is now
\* and then read.
Fairness == \A w \in Watch, i \in Slot : WF_vars(CheckStarts(w, i)) /\ SF_vars(CheckEnds(w, i))

Spec == Init /\ [][Next]_vars
LiveSpec == Spec /\ Fairness

-----------------------------------------------------------------------------
(* Properties.                                                             *)

\* p is what an entry of some table belongs to.
Serves(p) ==
  \/ \E w \in Watch : watch[w].st = "on" /\ watch[w].owner = p
  \/ \E m \in Mesh : stream[m] # None /\ p \in subs[stream[m]]
  \/ \E m \in Mesh : server[m] # None /\ server[m].pres = p

\* Once the eviction of a presence has run to its end no table names it again,
\* whatever its hello, its reattach or a restore of its member's servers had under
\* way when it was evicted.
EvictedLeavesNothing == \A p \in Pres : conn[p] = "gone" => ~Serves(p)

\* A clock has one interval while it runs and none while it is paused, and a mesh
\* whose peers have all been evicted has none: nothing ticks for nobody.
ClockTicksForSomebody ==
  \A m \in Mesh :
    /\ intervals[m] = IF clock[m].made /\ ~clock[m].paused THEN 1 ELSE 0
    /\ (\A p \in Pres : MeshOf[p] = m => conn[p] \in {"new", "gone"}) => intervals[m] = 0

\* A publish under way holds the set the stream has now, or one that everybody has
\* left: who was subscribed when it began, and still is, receives it.
PublishReachesSubscribers ==
  \A u \in Publish : publish[u].st = "waits" =>
    (\E m \in Mesh : stream[m] = publish[u].of) \/ subs[publish[u].of] = {}

\* A watch that is not ended settles on the page: once the page has stopped changing
\* the answers that are late, each of which puts an older page over a newer one, are
\* used up, and from then on the watch shows the page as it is.
WatchSettles ==
  \A w \in Watch : <>[](watch[w].st = "on") => <>[](watch[w].val = page)
=============================================================================
