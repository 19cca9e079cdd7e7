------------------------------ MODULE HubProofs ------------------------------
(***************************************************************************)
(* What the broker's tables for connected peers guarantee for any number   *)
(* of meshes, presences, watches, publishes and calls.                     *)
(***************************************************************************)
EXTENDS Hub, FiniteSetTheorems, TLAPS

\* No table names an evicted presence.
Unwatching == \A p \in Pres, w \in Watch : conn[p] = "gone" /\ watch[w].st = "on" => watch[w].owner # p
Unhosting == \A p \in Pres, m \in Mesh : conn[p] = "gone" /\ server[m] # None => server[m].pres # p
Unsubscribed ==
  \A p \in Pres, m \in Mesh : conn[p] = "gone" /\ stream[m] # None => p \notin subs[stream[m]]

\* A clock's handle is set while the clock runs, and names its one interval.
Timed ==
  \A m \in Mesh : /\ clock[m].timer <=> clock[m].made /\ ~clock[m].paused
                  /\ clock[m].paused => clock[m].made
                  /\ intervals[m] = Ticking(clock[m])

Deserted(m) == \A p \in Pres : MeshOf[p] = m => conn[p] \in {"new", "gone"}
Still == \A m \in Mesh : Deserted(m) => ~clock[m].timer

\* A publish under way holds a set, and a call has somebody who made it.
Held == /\ \A u \in Publish : publish[u].st = "waits" => publish[u].of \in Object
        /\ \A c \in Call : call[c].st = "lookup" => call[c].by \in Pres

IInv == /\ TypeOK /\ Held /\ Unwatching /\ Unhosting /\ Unsubscribed /\ Timed /\ Still
        /\ PublishReachesSubscribers

\* None is no set object, and a mesh is one of those that have presences.
LEMMA Basic ==
  /\ None \notin Object /\ None \notin Pres
  /\ \A p \in Pres : MeshOf[p] \in Mesh /\ MemberOf[p] \in Member
BY HubAssumption DEF HubAssumption, Mesh, Member

\* There is always a set object that no key and no publish refers to.
LEMMA FreshExists == TypeOK => \E o \in Object : Fresh(o)
<1> SUFFICES ASSUME TypeOK, \A o \in Object : ~Fresh(o) PROVE FALSE
  OBVIOUS
<1> DEFINE S == {stream[m] : m \in Mesh}
           Of == [u \in Publish |-> publish[u].of]
           P == {Of[u] : u \in Publish}
<1>1. IsFiniteSet(S) /\ Cardinality(S) <= Cardinality(Mesh)
  <2>1. stream \in Surjection(Mesh, S)
    BY DEF TypeOK, Surjection
  <2>2. QED
    BY <2>1, FS_Surjection, HubAssumption DEF HubAssumption
<1>2. IsFiniteSet(P) /\ Cardinality(P) <= Cardinality(Publish)
  <2>1. Of \in Surjection(Publish, P)
    BY DEF Surjection
  <2>2. QED
    BY <2>1, FS_Surjection, HubAssumption DEF HubAssumption
<1>3. Object \subseteq S \cup P
  BY DEF Fresh
<1>4. /\ IsFiniteSet(S \cup P)
      /\ Cardinality(S \cup P) = Cardinality(S) + Cardinality(P) - Cardinality(S \cap P)
  BY <1>1, <1>2, FS_Union
<1>5. Cardinality(S \cap P) \in Nat
  BY <1>1, FS_Intersection, FS_CardinalityType
<1>6. IsFiniteSet(Object) /\ Cardinality(Object) <= Cardinality(S \cup P)
  BY <1>3, <1>4, FS_Subset
<1>7. /\ Cardinality(S) \in Nat /\ Cardinality(P) \in Nat
      /\ Cardinality(Mesh) \in Nat /\ Cardinality(Publish) \in Nat
      /\ Cardinality(Object) \in Nat
  BY <1>1, <1>2, <1>6, FS_CardinalityType, HubAssumption DEF HubAssumption
<1> HIDE DEF S, P, Of
<1>8. QED
  BY <1>1, <1>2, <1>4, <1>5, <1>6, <1>7, HubAssumption DEF HubAssumption

\* A broker starts with empty tables.
LEMMA InitIInv == Init => IInv
<1> SUFFICES ASSUME Init PROVE IInv
  OBVIOUS
<1>1. TypeOK
  BY HubAssumption DEF HubAssumption, Init, TypeOK, Page, Clock, Slot
<1>2. Held /\ Unwatching /\ Unhosting /\ Unsubscribed /\ PublishReachesSubscribers
  BY DEF Init, Held, Unwatching, Unhosting, Unsubscribed, PublishReachesSubscribers
<1>3. Timed /\ Still
  BY DEF Init, Timed, Still, Ticking
<1>4. QED
  BY <1>1, <1>2, <1>3 DEF IInv

\* Connections that come and go, evictions that end excepted, touch no table.
LEMMA ConnStep ==
  ASSUME IInv, NEW p \in Pres,
         \/ Join(p) \/ SocketCloses(p) \/ Reattach(p)
         \/ Evict(p) \/ EvictionFails(p) \/ DropConnection(p)
  PROVE  IInv'
<1> USE DEF Join, SocketCloses, Reattach, Evict, EvictionFails, DropConnection, Connected,
        watchVars, streamVars, clockVars, mcpVars
<1>1. TypeOK'
  BY DEF IInv, TypeOK
<1>2. \A q \in Pres : conn'[q] \in {"new", "gone"} => conn[q] = conn'[q]
  BY DEF IInv, TypeOK
<1>3. Held' /\ Unwatching' /\ Unhosting' /\ Unsubscribed' /\ PublishReachesSubscribers'
  BY <1>2 DEF IInv, Held, Unwatching, Unhosting, Unsubscribed, PublishReachesSubscribers
<1>4. Timed' /\ Still'
  BY <1>2 DEF IInv, Timed, Still, Deserted, Ticking
<1>5. QED
  BY <1>1, <1>3, <1>4 DEF IInv

\* A watch belongs to a presence that is connected when it starts.
LEMMA WatchStep ==
  ASSUME IInv,
         \/ \E p \in Pres, w \in Watch : StartWatch(p, w) \/ Unwatch(p, w)
         \/ \E w \in Watch, i \in Slot : CheckStarts(w, i) \/ CheckEnds(w, i) \/ CheckFails(w, i)
         \/ PageChanges
  PROVE  IInv'
<1> DEFINE W == [st : {"new", "on", "off"}, owner : Pres \cup {None}, val : Page \cup {None}]
           C == [Slot -> Page \cup {None}]
<1>1. /\ watch \in [Watch -> W] /\ check \in [Watch -> C] /\ page \in Page
      /\ 1 \in Slot /\ Page \subseteq Nat /\ MaxPage \in Nat
  BY HubAssumption DEF HubAssumption, IInv, TypeOK, Page, Slot
<1>2. ASSUME NEW p \in Pres, NEW w \in Watch, StartWatch(p, w)
      PROVE  /\ watch' \in [Watch -> W] /\ check' \in [Watch -> C] /\ page' \in Page
             /\ \A x \in Watch : watch'[x].st = "on" =>
                  \/ watch[x].st = "on" /\ watch[x].owner = watch'[x].owner
                  \/ conn[watch'[x].owner] = "up"
             /\ UNCHANGED <<conn, welcome, streamVars, clockVars, mcpVars, scene>>
  <2>1. check' \in [Watch -> C]
    <3>1. check' = [check EXCEPT ![w] = [check[w] EXCEPT ![1] = page]]
      BY <1>2 DEF StartWatch
    <3>2. [check[w] EXCEPT ![1] = page] \in C
      BY <1>1
    <3>3. QED
      BY <1>1, <3>1, <3>2
  <2>2. QED
    BY <1>1, <1>2, <2>1 DEF StartWatch, Sends
<1>3. ASSUME NEW p \in Pres, NEW w \in Watch, Unwatch(p, w)
      PROVE  /\ watch' \in [Watch -> W] /\ check' \in [Watch -> C] /\ page' \in Page
             /\ \A x \in Watch : watch'[x].st = "on" =>
                  \/ watch[x].st = "on" /\ watch[x].owner = watch'[x].owner
                  \/ conn[watch'[x].owner] = "up"
             /\ UNCHANGED <<conn, welcome, streamVars, clockVars, mcpVars, scene>>
  BY <1>1, <1>3 DEF Unwatch
<1>4. ASSUME NEW w \in Watch, NEW i \in Slot,
             CheckStarts(w, i) \/ CheckEnds(w, i) \/ CheckFails(w, i)
      PROVE  /\ watch' \in [Watch -> W] /\ check' \in [Watch -> C] /\ page' \in Page
             /\ \A x \in Watch : watch'[x].st = "on" =>
                  \/ watch[x].st = "on" /\ watch[x].owner = watch'[x].owner
                  \/ conn[watch'[x].owner] = "up"
             /\ UNCHANGED <<conn, welcome, streamVars, clockVars, mcpVars, scene>>
  <2>1. PICK v \in Page \cup {None} : check' = [check EXCEPT ![w] = [check[w] EXCEPT ![i] = v]]
    BY <1>1, <1>4 DEF CheckStarts, CheckEnds, CheckFails
  <2>2. check' \in [Watch -> C]
    <3>1. [check[w] EXCEPT ![i] = v] \in C
      BY <1>1
    <3>2. QED
      BY <1>1, <2>1, <3>1
  <2>3. watch' \in [Watch -> W] /\ \A x \in Watch : /\ watch'[x].st = watch[x].st
                                                    /\ watch'[x].owner = watch[x].owner
    <3>1. CASE CheckEnds(w, i)
      <4>1. check[w][i] \in Page \cup {None}
        BY <1>1
      <4>2. watch' = [watch EXCEPT ![w] = [watch[w] EXCEPT !.val = check[w][i]]]
        BY <3>1 DEF CheckEnds
      <4>3. [watch[w] EXCEPT !.val = check[w][i]] \in W
        BY <1>1, <4>1
      <4>4. QED
        BY <1>1, <4>2, <4>3
    <3>2. CASE watch' = watch
      BY <1>1, <3>2
    <3>3. QED
      BY <1>4, <3>1, <3>2 DEF CheckStarts, CheckFails
  <2>4. QED
    BY <1>1, <1>4, <2>2, <2>3 DEF CheckStarts, CheckEnds, CheckFails
<1>5. /\ watch' \in [Watch -> W] /\ check' \in [Watch -> C] /\ page' \in Page
      /\ \A x \in Watch : watch'[x].st = "on" =>
           \/ watch[x].st = "on" /\ watch[x].owner = watch'[x].owner
           \/ conn[watch'[x].owner] = "up"
      /\ UNCHANGED <<conn, welcome, streamVars, clockVars, mcpVars, scene>>
  <2>1. CASE PageChanges
    BY <1>1, <2>1 DEF PageChanges, Page
  <2>2. QED
    BY <1>2, <1>3, <1>4, <2>1
<1>6. TypeOK'
  BY <1>5 DEF IInv, TypeOK, streamVars, clockVars, mcpVars
<1>7. Unwatching'
  BY <1>5 DEF IInv, Unwatching
<1>8. Held' /\ Unhosting' /\ Unsubscribed' /\ PublishReachesSubscribers'
  BY <1>5 DEF IInv, Held, Unhosting, Unsubscribed, PublishReachesSubscribers, streamVars,
     mcpVars
<1>9. Timed' /\ Still'
  BY <1>5 DEF IInv, Timed, Still, Deserted, Ticking, clockVars
<1>10. QED
  BY <1>6, <1>7, <1>8, <1>9 DEF IInv

\* A set that is waited for is the stream's, or everybody has left it: a new one is
\* another one.
LEMMA StreamStep ==
  ASSUME IInv,
         \/ \E p \in Pres : Subscribe(p) \/ Unsubscribe(p) \/ \E u \in Publish : PublishRequested(p, u)
         \/ \E u \in Publish : PublishSent(u)
  PROVE  IInv'
<1> USE DEF Sends, watchVars, clockVars, mcpVars
<1>1. ASSUME NEW p \in Pres, Subscribe(p)
      PROVE  /\ TypeOK' /\ Held' /\ Unsubscribed' /\ PublishReachesSubscribers'
             /\ UNCHANGED <<conn, watch, clock, intervals, server>>
  <2> DEFINE m == MeshOf[p]
             o == IF stream[m] = None THEN CHOOSE x \in Object : Fresh(x) ELSE stream[m]
  <2>1. /\ m \in Mesh /\ o \in Object
        /\ stream[m] = None => Fresh(o)
        /\ stream[m] # None => o = stream[m]
    BY FreshExists, Basic DEF IInv, TypeOK
  <2>2. /\ stream' = [stream EXCEPT ![m] = o] /\ conn[p] = "up"
        /\ subs' = [subs EXCEPT ![o] = {p} \cup IF stream[m] = None THEN {} ELSE subs[o]]
        /\ UNCHANGED <<conn, welcome, watchVars, publish, clockVars, mcpVars, scene>>
    BY <1>1 DEF Subscribe
  <2> HIDE DEF m, o
  <2>3. TypeOK'
    BY <2>1, <2>2 DEF IInv, TypeOK
  <2>4. Unsubscribed'
    <3>1. SUFFICES ASSUME NEW q \in Pres, NEW n \in Mesh, conn[q] = "gone", stream'[n] # None
                   PROVE  q \notin subs'[stream'[n]]
      BY <2>2 DEF Unsubscribed
    <3>2. q # p /\ stream'[n] \in Object
      BY <2>1, <2>2, <3>1 DEF IInv, TypeOK
    <3>3. CASE stream'[n] = o
      <4>1. subs'[o] = {p} \cup IF stream[m] = None THEN {} ELSE subs[o]
        BY <2>1, <2>2 DEF IInv, TypeOK
      <4>2. stream[m] # None => q \notin subs[o]
        BY <2>1, <3>1 DEF IInv, Unsubscribed
      <4>3. QED
        BY <3>2, <3>3, <4>1, <4>2
    <3>4. CASE stream'[n] # o
      BY <2>1, <2>2, <3>1, <3>2, <3>4 DEF IInv, TypeOK, Unsubscribed
    <3>5. QED
      BY <3>3, <3>4
  <2>5. PublishReachesSubscribers'
    <3>1. SUFFICES ASSUME NEW u \in Publish, publish[u].st = "waits"
                   PROVE  (\E n \in Mesh : stream'[n] = publish[u].of) \/ subs'[publish[u].of] = {}
      BY <2>2 DEF PublishReachesSubscribers
    <3>2. CASE \E n \in Mesh : stream[n] = publish[u].of
      <4>1. PICK n \in Mesh : stream[n] = publish[u].of
        BY <3>2
      <4>2. stream[n] # None
        BY <3>1, <4>1, Basic DEF IInv, Held
      <4>3. stream'[n] = stream[n]
        BY <4>2, <2>1, <2>2 DEF IInv, TypeOK
      <4>4. QED
        BY <4>1, <4>3
    <3>3. CASE ~\E n \in Mesh : stream[n] = publish[u].of
      <4>1. subs[publish[u].of] = {}
        BY <3>1, <3>3 DEF IInv, PublishReachesSubscribers
      <4>2. publish[u].of # o
        BY <2>1, <3>1, <3>3 DEF Fresh
      <4>3. QED
        BY <3>1, <4>1, <4>2, <2>1, <2>2 DEF IInv, TypeOK, Held
    <3>4. QED
      BY <3>2, <3>3
  <2>6. Held'
    BY <2>2 DEF IInv, Held
  <2>7. QED
    BY <2>2, <2>3, <2>4, <2>5, <2>6
<1>2. ASSUME NEW p \in Pres, Unsubscribe(p)
      PROVE  /\ TypeOK' /\ Held' /\ Unsubscribed' /\ PublishReachesSubscribers'
             /\ UNCHANGED <<conn, watch, clock, intervals, server>>
  <2>1. /\ subs' \in [Object -> SUBSET Pres] /\ \A x \in Object : subs'[x] \subseteq subs[x]
        /\ UNCHANGED <<conn, welcome, watchVars, stream, publish, clockVars, mcpVars, scene>>
    BY <1>2, Basic DEF IInv, TypeOK, Unsubscribe
  <2>2. TypeOK' /\ Held'
    BY <2>1 DEF IInv, TypeOK, Held
  <2>3. Unsubscribed'
    BY <2>1 DEF IInv, TypeOK, Unsubscribed
  <2>4. PublishReachesSubscribers'
    BY <2>1 DEF IInv, Held, PublishReachesSubscribers
  <2>5. QED
    BY <2>1, <2>2, <2>3, <2>4
<1>3. ASSUME NEW u \in Publish, PublishSent(u) \/ \E p \in Pres : PublishRequested(p, u)
      PROVE  /\ TypeOK' /\ Held' /\ Unsubscribed' /\ PublishReachesSubscribers'
             /\ UNCHANGED <<conn, watch, clock, intervals, server>>
  <2>1. UNCHANGED <<conn, welcome, watchVars, stream, subs, clockVars, mcpVars, scene>>
    BY <1>3 DEF PublishSent, PublishRequested
  <2>2. PICK r : /\ publish' = [publish EXCEPT ![u] = r]
                 /\ r \in [st : {"new", "waits", "sent"}, of : Object \cup {None}]
                 /\ r.st = "waits" => r.of \in Object /\ \E m \in Mesh : stream[m] = r.of
    BY <1>3, Basic DEF PublishSent, PublishRequested, IInv, TypeOK
  <2>3. TypeOK' /\ Held'
    BY <2>1, <2>2 DEF IInv, TypeOK, Held
  <2>4. Unsubscribed' /\ PublishReachesSubscribers'
    BY <2>1, <2>2 DEF IInv, TypeOK, Unsubscribed, PublishReachesSubscribers
  <2>5. QED
    BY <2>1, <2>3, <2>4
<1>4. /\ TypeOK' /\ Held' /\ Unsubscribed' /\ PublishReachesSubscribers'
      /\ UNCHANGED <<conn, watch, clock, intervals, server>>
  BY <1>1, <1>2, <1>3
<1>5. Unwatching' /\ Unhosting'
  BY <1>4 DEF IInv, Unwatching, Unhosting
<1>6. Timed' /\ Still'
  BY <1>4 DEF IInv, Timed, Still, Deserted, Ticking
<1>7. QED
  BY <1>4, <1>5, <1>6 DEF IInv

\* A mesh whose clock is set, paused or resumed has a peer.
LEMMA ClockFrame ==
  ASSUME IInv, NEW p \in Pres, conn[p] = "up", TypeOK', Timed',
         UNCHANGED <<conn, welcome, watchVars, streamVars, mcpVars, scene>>,
         \A n \in Mesh \ {MeshOf[p]} : clock'[n] = clock[n]
  PROVE  IInv'
<1>1. Held' /\ Unwatching' /\ Unhosting' /\ Unsubscribed' /\ PublishReachesSubscribers'
  BY DEF IInv, Held, Unwatching, Unhosting, Unsubscribed, PublishReachesSubscribers,
     watchVars, streamVars, mcpVars
<1>2. Still'
  BY DEF IInv, Still, Deserted
<1>3. QED
  BY <1>1, <1>2 DEF IInv

\* A connected peer sets, pauses or resumes the clock, and the interval before is cleared.
LEMMA ClockStep ==
  ASSUME IInv, NEW p \in Pres, SetClock(p) \/ PauseClock(p) \/ ResumeClock(p)
  PROVE  IInv'
<1> DEFINE m == MeshOf[p]
<1>1. /\ m \in Mesh /\ conn[p] = "up"
      /\ UNCHANGED <<conn, welcome, watchVars, streamVars, mcpVars, scene>>
  BY Basic DEF SetClock, PauseClock, ResumeClock, Sends
<1>2. /\ clock \in [Mesh -> Clock] /\ intervals \in [Mesh -> 0..1]
      /\ intervals[m] = Ticking(clock[m])
  BY <1>1 DEF IInv, TypeOK, Timed
<1>3. CASE UNCHANGED clockVars
  <2>1. TypeOK' /\ Timed' /\ \A n \in Mesh : clock'[n] = clock[n]
    BY <1>1, <1>3 DEF clockVars, watchVars, streamVars, mcpVars, IInv, TypeOK, Timed, Ticking
  <2>2. QED
    BY <1>1, <2>1, ClockFrame
<1>4. ASSUME NEW k \in Clock, k.timer <=> k.made /\ ~k.paused, k.paused => k.made,
             clock' = [clock EXCEPT ![m] = k], intervals' = [intervals EXCEPT ![m] = Ticking(k)]
      PROVE  IInv'
  <2>1. /\ clock' \in [Mesh -> Clock] /\ intervals' \in [Mesh -> 0..1]
        /\ \A n \in Mesh \ {m} : clock'[n] = clock[n] /\ intervals'[n] = intervals[n]
        /\ clock'[m] = k /\ intervals'[m] = Ticking(k)
    BY <1>1, <1>2, <1>4 DEF Ticking
  <2>2. TypeOK'
    BY <1>1, <2>1 DEF IInv, TypeOK, watchVars, streamVars, mcpVars
  <2>3. Timed'
    BY <1>4, <2>1 DEF IInv, Timed, Ticking
  <2>4. QED
    BY <1>1, <2>1, <2>2, <2>3, ClockFrame
<1>5. CASE PauseClock(p)
  <2> DEFINE k == [[clock[m] EXCEPT !.paused = TRUE] EXCEPT !.timer = FALSE]
  <2>1. clock' = [clock EXCEPT ![m] = k] /\ clock[m].made
    BY <1>2, <1>5 DEF PauseClock
  <2>2. k \in Clock /\ k.paused /\ ~k.timer /\ k.made /\ Ticking(k) = 0
    BY <1>1, <1>2, <2>1 DEF Clock, Ticking
  <2>3. intervals' = [intervals EXCEPT ![m] = 0]
    BY <1>2, <1>5 DEF PauseClock, Ticking
  <2> HIDE DEF k
  <2>4. QED
    BY <2>1, <2>2, <2>3, <1>4
<1>6. CASE ResumeClock(p)
  <2> DEFINE k == [[clock[m] EXCEPT !.paused = FALSE] EXCEPT !.timer = TRUE]
  <2>1. clock' = [clock EXCEPT ![m] = k] /\ clock[m].paused
    BY <1>2, <1>6 DEF ResumeClock
  <2>2. clock[m].made
    BY <1>1, <2>1 DEF IInv, Timed
  <2>3. k \in Clock /\ ~k.paused /\ k.timer /\ k.made /\ Ticking(k) = 1
    BY <1>1, <1>2, <2>2 DEF Clock, Ticking
  <2>4. intervals' = [intervals EXCEPT ![m] = 1]
    BY <1>2, <1>6 DEF ResumeClock, Restarted, Ticking
  <2> HIDE DEF k
  <2>5. QED
    BY <2>1, <2>3, <2>4, <1>4
<1>7. CASE SetClock(p) /\ ~clock[m].paused
  <2> DEFINE k == [made |-> TRUE, paused |-> FALSE, timer |-> TRUE]
  <2>1. clock' = [clock EXCEPT ![m] = k] /\ Restarted(m)
    BY <1>7 DEF SetClock
  <2>2. intervals' = [intervals EXCEPT ![m] = 1]
    BY <1>2, <2>1 DEF Restarted, Ticking
  <2>3. k \in Clock /\ ~k.paused /\ k.timer /\ k.made /\ Ticking(k) = 1
    BY DEF Clock, Ticking
  <2> HIDE DEF k
  <2>4. QED
    BY <2>1, <2>2, <2>3, <1>4
<1>8. QED
  BY <1>3, <1>5, <1>6, <1>7 DEF SetClock

\* What a server's entry may be.
Hosted(s) ==
  s # None => /\ s.online <=> s.pres # None
              /\ s.online \/ s.persistent

\* Only a connected presence becomes a server's host, and one that goes offline loses it.
LEMMA HostStep ==
  ASSUME IInv,
         UNCHANGED <<conn, watchVars, streamVars, clockVars, scene>>,
         welcome' \subseteq Pres,
         call' \in [Call -> [st : {"new", "lookup", "waits", "answered"},
                             by : Pres \cup {None}, to : Pres \cup {None}]],
         \A c \in Call : call'[c].st = "lookup" => call'[c].by \in Pres,
         NEW m \in Mesh, NEW s \in Server \cup {None},
         server' = [server EXCEPT ![m] = s], Hosted(s),
         s # None /\ s.pres # None => conn[s.pres] # "gone" \/ s = server[m]
  PROVE  IInv'
<1>1. server' \in [Mesh -> Server \cup {None}]
      /\ \A n \in Mesh : server'[n] # None => /\ server'[n].online <=> server'[n].pres # None
                                              /\ server'[n].online \/ server'[n].persistent
  BY DEF IInv, TypeOK, Hosted
<1>2. TypeOK'
  BY <1>1 DEF IInv, TypeOK, watchVars, streamVars, clockVars
<1>3. Unhosting'
  <2>1. SUFFICES ASSUME NEW q \in Pres, NEW n \in Mesh, conn[q] = "gone", server'[n] # None
                 PROVE  server'[n].pres # q
    BY DEF Unhosting
  <2>2. CASE n = m
    <3>1. server'[n] = s
      BY <2>2 DEF IInv, TypeOK
    <3>2. CASE s.pres = None
      BY <3>1, <3>2, Basic
    <3>3. CASE s.pres # None
      BY <2>1, <2>2, <3>1, <3>3 DEF IInv, Unhosting
    <3>4. QED
      BY <3>2, <3>3
  <2>3. CASE n # m
    BY <2>1, <2>3 DEF IInv, TypeOK, Unhosting
  <2>4. QED
    BY <2>2, <2>3
<1>4. Held' /\ Unwatching' /\ Unsubscribed' /\ PublishReachesSubscribers'
  BY DEF IInv, Held, Unwatching, Unsubscribed, PublishReachesSubscribers, watchVars, streamVars
<1>5. Timed' /\ Still'
  BY DEF IInv, Timed, Still, Deserted, Ticking, clockVars
<1>6. QED
  BY <1>2, <1>3, <1>4, <1>5 DEF IInv

\* An entry without its host is still one that may be.
LEMMA OfflineHosted ==
  ASSUME NEW s \in Server
  PROVE  /\ Offline(s) \in Server \cup {None} /\ Hosted(Offline(s))
         /\ Offline(s) # None => Offline(s).pres = None
BY DEF Offline, Server, Hosted

\* Registrations, restorations and calls change one server's entry, or none.
LEMMA ServerStep ==
  ASSUME IInv,
         \/ \E p \in Pres : \/ Announced(p) \/ McpUnregister(p)
                            \/ \E b \in BOOLEAN : McpRegister(p, b)
                            \/ \E c \in Call : CallRequested(p, c)
         \/ \E c \in Call : CallLooked(c) \/ HostAnswers(c) \/ CallTimesOut(c)
  PROVE  IInv'
<1> DEFINE CallType == [st : {"new", "lookup", "waits", "answered"},
                        by : Pres \cup {None}, to : Pres \cup {None}]
<1>1. /\ call \in [Call -> CallType] /\ server \in [Mesh -> Server \cup {None}]
      /\ welcome \subseteq Pres /\ \A m \in Mesh : Hosted(server[m])
  BY DEF IInv, TypeOK, Hosted
<1> HIDE DEF CallType
<1>2. ASSUME NEW p \in Pres, Announced(p) PROVE IInv'
  <2>1. UNCHANGED <<conn, watchVars, streamVars, clockVars, call, scene>> /\ welcome' \subseteq Pres
    BY <1>1, <1>2 DEF Announced
  <2>2. PICK s \in Server \cup {None} :
          /\ server' = [server EXCEPT ![MeshOf[p]] = s] /\ Hosted(s)
          /\ s # None /\ s.pres # None => conn[s.pres] # "gone" \/ s = server[MeshOf[p]]
    <3>1. CASE ~Connected(p)
      <4>1. server' = [server EXCEPT ![MeshOf[p]] = server[MeshOf[p]]]
        BY <1>1, <1>2, <3>1, Basic DEF Announced
      <4>2. QED
        BY <4>1, <1>1, Basic
    <3>2. CASE Connected(p)
      <4> DEFINE o == server[MeshOf[p]]
                 r == Restored(p, o)
      <4>1. server' = [server EXCEPT ![MeshOf[p]] = r]
        BY <1>2, <3>2 DEF Announced
      <4>2. o \in Server \cup {None} /\ Hosted(o)
        BY <1>1, Basic
      <4> HIDE DEF o
      <4>3. r = o \/ (o \in Server /\ r = [o EXCEPT !.online = TRUE, !.pres = p])
        BY <4>2 DEF Restored
      <4> HIDE DEF r
      <4>4. /\ r \in Server \cup {None} /\ Hosted(r)
            /\ r # None /\ r.pres # None => conn[r.pres] # "gone" \/ r = o
        BY <3>2, <4>2, <4>3, Basic DEF Server, Hosted, Connected
      <4>5. QED
        BY <4>1, <4>4 DEF o
    <3>3. QED
      BY <3>1, <3>2
  <2>3. QED
    BY <1>1, <2>1, <2>2, HostStep, Basic DEF CallType, IInv, Held
<1>3. ASSUME NEW p \in Pres, NEW b \in BOOLEAN, McpRegister(p, b) PROVE IInv'
  <2> DEFINE s == [pres |-> p, member |-> MemberOf[p], persistent |-> b, online |-> TRUE]
  <2>1. s \in Server /\ Hosted(s) /\ s.pres = p
    BY Basic DEF Server, Hosted
  <2>2. /\ server' = [server EXCEPT ![MeshOf[p]] = s] /\ conn[p] = "up"
        /\ UNCHANGED <<conn, welcome, watchVars, streamVars, clockVars, call, scene>>
    BY <1>3 DEF McpRegister, Sends
  <2> HIDE DEF s
  <2>3. QED
    BY <1>1, <2>1, <2>2, HostStep, Basic DEF CallType, IInv, Held
<1>4. ASSUME NEW p \in Pres, McpUnregister(p) PROVE IInv'
  <2>1. /\ server' = [server EXCEPT ![MeshOf[p]] = None]
        /\ UNCHANGED <<conn, welcome, watchVars, streamVars, clockVars, call, scene>>
    BY <1>4 DEF McpUnregister
  <2>2. Hosted(None)
    BY DEF Hosted
  <2>3. QED
    BY <1>1, <2>1, <2>2, HostStep, Basic DEF CallType, IInv, Held
<1>5. ASSUME NEW c \in Call,
             \/ \E p \in Pres : CallRequested(p, c)
             \/ HostAnswers(c) \/ CallTimesOut(c)
      PROVE  IInv'
  <2>1. /\ call' \in [Call -> CallType]
        /\ \A x \in Call : call'[x].st = "lookup" => call'[x].by \in Pres
        /\ UNCHANGED <<conn, welcome, watchVars, streamVars, clockVars, server, scene>>
    BY <1>1, <1>5 DEF CallRequested, HostAnswers, CallTimesOut, CallType, IInv, Held
  <2>2. TypeOK'
    BY <2>1 DEF IInv, TypeOK, watchVars, streamVars, clockVars, CallType
  <2>3. Held' /\ Unwatching' /\ Unhosting' /\ Unsubscribed' /\ PublishReachesSubscribers'
    BY <2>1 DEF IInv, Held, Unwatching, Unhosting, Unsubscribed, PublishReachesSubscribers,
       watchVars, streamVars
  <2>4. Timed' /\ Still'
    BY <2>1 DEF IInv, Timed, Still, Deserted, Ticking, clockVars
  <2>5. QED
    BY <2>2, <2>3, <2>4 DEF IInv
<1>6. ASSUME NEW c \in Call, CallLooked(c) PROVE IInv'
  <2> DEFINE m == MeshOf[call[c].by]
             s == server[m]
  <2>1. /\ UNCHANGED <<conn, welcome, watchVars, streamVars, clockVars, scene>>
        /\ m \in Mesh /\ s \in Server \cup {None} /\ Hosted(s)
    BY <1>1, <1>6, Basic DEF CallLooked, IInv, Held
  <2>2. CASE s # None /\ s.online /\ Connected(s.pres)
    <3>1. /\ call' = [call EXCEPT ![c].st = "waits", ![c].to = s.pres]
          /\ server' = [server EXCEPT ![m] = s]
      BY <1>1, <1>6, <2>1, <2>2 DEF CallLooked
    <3>2. s.pres \in Pres \cup {None}
      BY <2>1, <2>2 DEF Server
    <3> HIDE DEF s, m
    <3>3. /\ call' \in [Call -> CallType]
          /\ \A x \in Call : call'[x].st = "lookup" => call'[x].by \in Pres
      BY <1>1, <3>1, <3>2 DEF CallType, IInv, Held
    <3>4. QED
      BY <1>1, <2>1, <3>1, <3>3, HostStep DEF CallType, s
  <2>3. CASE ~(s # None /\ s.online /\ Connected(s.pres))
    <3> DEFINE r == IF s # None /\ s.online THEN Offline(s) ELSE s
    <3>1. /\ call' = [call EXCEPT ![c].st = "answered"]
          /\ server' = [server EXCEPT ![m] = r]
      BY <1>6, <2>3 DEF CallLooked
    <3>2. r \in Server \cup {None} /\ Hosted(r) /\ (r # None /\ r.pres # None => r = s)
      BY <2>1, OfflineHosted
    <3> HIDE DEF r, s, m
    <3>3. /\ call' \in [Call -> CallType]
          /\ \A x \in Call : call'[x].st = "lookup" => call'[x].by \in Pres
      BY <1>1, <3>1 DEF CallType, IInv, Held
    <3>4. QED
      BY <1>1, <2>1, <3>1, <3>2, <3>3, HostStep DEF CallType, s
  <2>4. QED
    BY <2>2, <2>3
<1>7. QED
  BY <1>2, <1>3, <1>4, <1>5, <1>6

\* The last word of an eviction: no table names p afterwards, and a mesh that is empty
\* has no clock running.
LEMMA EvictionStep ==
  ASSUME IInv, NEW p \in Pres, EvictionEnds(p)
  PROVE  IInv'
<1> DEFINE m == MeshOf[p]
<1>1. /\ conn[p] = "evicting" /\ m \in Mesh
      /\ conn' = [conn EXCEPT ![p] = "gone"]
      /\ UNCHANGED <<welcome, check, page, publish, call, scene>>
  BY Basic DEF EvictionEnds
<1>2. /\ watch' \in [Watch -> [st : {"new", "on", "off"}, owner : Pres \cup {None},
                               val : Page \cup {None}]]
      /\ \A w \in Watch : watch'[w].st = "on" => /\ watch[w].st = "on" /\ watch[w].owner # p
                                                 /\ watch'[w].owner = watch[w].owner
  <2>1. watch' = [w \in Watch |-> Unwatched(p, watch[w])]
    BY DEF EvictionEnds
  <2> DEFINE W == [st : {"new", "on", "off"}, owner : Pres \cup {None}, val : Page \cup {None}]
  <2>2. ASSUME NEW w \in Watch
        PROVE  /\ watch'[w] \in W
               /\ watch'[w].st = "on" => /\ watch[w].st = "on" /\ watch[w].owner # p
                                         /\ watch'[w].owner = watch[w].owner
    <3>1. watch[w] \in W
      BY DEF IInv, TypeOK
    <3>2. watch'[w] = Unwatched(p, watch[w])
      BY <2>1
    <3>3. QED
      BY <3>1, <3>2 DEF Unwatched
  <2>3. QED
    BY <2>1, <2>2
<1>3. /\ subs' \in [Object -> SUBSET Pres]
      /\ \A o \in Object : subs'[o] = subs[o] \ {p}
      /\ stream' \in [Mesh -> Object \cup {None}]
      /\ \A n \in Mesh : \/ stream'[n] = stream[n]
                         \/ (stream'[n] = None /\ stream[n] # None /\ subs'[stream[n]] = {})
  <2>1. subs' = [o \in Object |-> subs[o] \ {p}]
        /\ stream' = [n \in Mesh |-> IF stream[n] # None /\ subs'[stream[n]] = {}
                                     THEN None ELSE stream[n]]
    BY DEF EvictionEnds
  <2>2. subs' \in [Object -> SUBSET Pres] /\ \A o \in Object : subs'[o] = subs[o] \ {p}
    BY <2>1 DEF IInv, TypeOK
  <2>3. stream' \in [Mesh -> Object \cup {None}]
    BY <2>1 DEF IInv, TypeOK
  <2>4. QED
    BY <2>1, <2>2, <2>3
<1>4. /\ server' \in [Mesh -> Server \cup {None}]
      /\ \A n \in Mesh :
           /\ Hosted(server'[n])
           /\ server'[n] # None => /\ server'[n].pres # p
                                   /\ server'[n] = server[n] \/ server'[n].pres = None
  <2>1. server' = [n \in Mesh |-> IF server[n] # None /\ server[n].pres = p
                                  THEN Offline(server[n]) ELSE server[n]]
    BY DEF EvictionEnds
  <2>2. ASSUME NEW n \in Mesh
        PROVE  /\ server'[n] \in Server \cup {None} /\ Hosted(server'[n])
               /\ server'[n] # None => /\ server'[n].pres # p
                                       /\ \/ server'[n] = server[n]
                                          \/ server'[n].pres = None
    <3>1. server[n] \in Server \cup {None} /\ Hosted(server[n])
      BY DEF IInv, TypeOK, Hosted
    <3>2. QED
      BY <2>1, <3>1, OfflineHosted, Basic
  <2>3. QED
    BY <2>1, <2>2
<1>5. /\ clock' \in [Mesh -> Clock] /\ intervals' \in [Mesh -> 0..1] /\ Timed'
      /\ \A n \in Mesh \ {m} : clock'[n] = clock[n]
      /\ ~Populated(m) => ~clock'[m].timer
  <2> DEFINE k == Stilled(m)
  <2>1. clock \in [Mesh -> Clock] /\ intervals \in [Mesh -> 0..1] /\ clock[m] \in Clock
    BY <1>1 DEF IInv, TypeOK
  <2>2. /\ intervals[m] = Ticking(clock[m])
        /\ clock[m].timer <=> clock[m].made /\ ~clock[m].paused
        /\ clock[m].paused => clock[m].made
    BY <1>1 DEF IInv, Timed
  <2>3. /\ clock' = [clock EXCEPT ![m] = k]
        /\ intervals' = [intervals EXCEPT ![m] = intervals[m] - (Ticking(clock[m]) - Ticking(k))]
    BY DEF EvictionEnds
  <2>4. /\ k \in Clock /\ (~Populated(m) => ~k.timer)
        /\ k.timer <=> k.made /\ ~k.paused
        /\ k.paused => k.made
    BY <2>1, <2>2 DEF Stilled, Clock
  <2> HIDE DEF k
  <2>5. intervals' = [intervals EXCEPT ![m] = Ticking(k)] /\ Ticking(k) \in 0..1
    BY <2>2, <2>3, <2>4 DEF Ticking
  <2> HIDE DEF m
  <2>6. Timed'
    BY <1>1, <2>1, <2>3, <2>4, <2>5 DEF IInv, Timed, Ticking
  <2>7. QED
    BY <1>1, <2>1, <2>3, <2>4, <2>5, <2>6
<1>6. TypeOK'
  <2>1. \A n \in Mesh : server'[n] # None =>
          /\ server'[n].online <=> server'[n].pres # None
          /\ server'[n].online \/ server'[n].persistent
    BY <1>4 DEF Hosted
  <2>2. conn' \in [Pres -> {"new", "up", "grace", "evicting", "gone", "stuck", "dropped"}]
    BY <1>1 DEF IInv, TypeOK
  <2>3. QED
    BY <1>1, <1>2, <1>3, <1>4, <1>5, <2>1, <2>2 DEF IInv, TypeOK
<1>7. \A q \in Pres : conn'[q] = "gone" => q = p \/ conn[q] = "gone"
  BY <1>1 DEF IInv, TypeOK
<1>8. Unwatching' /\ Unhosting' /\ Held'
  <2>1. Unwatching'
    BY <1>2, <1>7 DEF IInv, Unwatching
  <2>2. Unhosting'
    BY <1>4, <1>7, Basic DEF IInv, Unhosting
  <2>3. Held'
    BY <1>1 DEF IInv, Held
  <2>4. QED
    BY <2>1, <2>2, <2>3
<1>9. Unsubscribed'
  BY <1>3, <1>7 DEF IInv, TypeOK, Unsubscribed
<1>10. PublishReachesSubscribers'
  <2>1. SUFFICES ASSUME NEW u \in Publish, publish[u].st = "waits"
                 PROVE  (\E n \in Mesh : stream'[n] = publish[u].of) \/ subs'[publish[u].of] = {}
    BY <1>1 DEF PublishReachesSubscribers
  <2>2. publish[u].of \in Object
    BY <2>1 DEF IInv, Held
  <2>3. QED
    BY <1>3, <2>1, <2>2 DEF IInv, PublishReachesSubscribers
<1>11. Still'
  <2>1. SUFFICES ASSUME NEW n \in Mesh, Deserted(n)' PROVE ~clock'[n].timer
    BY DEF Still
  <2>2. CASE n = m
    <3>1. ~Populated(m)
      BY <1>1, <2>1, <2>2 DEF Deserted, Populated, Connected, IInv, TypeOK
    <3>2. QED
      BY <1>5, <2>2, <3>1
  <2>3. CASE n # m
    <3>1. Deserted(n)
      BY <1>1, <2>1, <2>3 DEF Deserted, IInv, TypeOK
    <3>2. QED
      BY <1>5, <2>3, <3>1 DEF IInv, Still
  <2>4. QED
    BY <2>2, <2>3
<1>12. QED
  BY <1>5, <1>6, <1>8, <1>9, <1>10, <1>11 DEF IInv

\* Every step keeps what is known of the tables.
LEMMA NextIInv == IInv /\ [Next]_vars => IInv'
<1> SUFFICES ASSUME IInv, [Next]_vars PROVE IInv'
  OBVIOUS
<1>1. CASE UNCHANGED vars
  BY <1>1 DEF IInv, TypeOK, Held, Unwatching, Unhosting, Unsubscribed, Timed, Still, Deserted,
     Ticking, PublishReachesSubscribers, vars, watchVars, streamVars, clockVars, mcpVars
<1>2. QED
  BY <1>1, ConnStep, WatchStep, StreamStep, ClockStep, ServerStep, EvictionStep DEF Next

-----------------------------------------------------------------------------
(* Theorems.                                                               *)

\* What is known of the tables holds after any steps.
THEOREM HubInductive == Spec => []IInv
BY InitIInv, NextIInv, PTL DEF Spec

\* Types; a server is offline exactly when it has no host, and only a persistent one is
\* kept offline.
THEOREM HubTypes == Spec => []TypeOK
<1>1. IInv => TypeOK
  BY DEF IInv
<1>2. QED
  BY <1>1, HubInductive, PTL

\* Only what a connected presence asks for, or its hello restores, names it, and the end
\* of its eviction takes all of it out.
THEOREM HubEvicted == Spec => []EvictedLeavesNothing
<1>1. IInv => EvictedLeavesNothing
  BY DEF IInv, EvictedLeavesNothing, Serves, Unwatching, Unhosting, Unsubscribed
<1>2. QED
  BY <1>1, HubInductive, PTL

\* The clock's handle is its one interval, and the last eviction of a mesh clears it.
THEOREM HubClock == Spec => []ClockTicksForSomebody
<1>1. ASSUME IInv PROVE ClockTicksForSomebody
  <2>1. ASSUME NEW m \in Mesh
        PROVE  /\ intervals[m] = IF clock[m].made /\ ~clock[m].paused THEN 1 ELSE 0
               /\ Deserted(m) => intervals[m] = 0
    BY <1>1 DEF IInv, Timed, Still, Ticking
  <2>2. QED
    BY <2>1 DEF ClockTicksForSomebody, Deserted
<1>2. QED
  BY <1>1, HubInductive, PTL

\* A new set is another one, and a set that goes is empty.
THEOREM HubPublish == Spec => []PublishReachesSubscribers
<1>1. IInv => PublishReachesSubscribers
  BY DEF IInv
<1>2. QED
  BY <1>1, HubInductive, PTL
==============================================================================
