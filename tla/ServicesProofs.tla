---------------------------- MODULE ServicesProofs ----------------------------
(***************************************************************************)
(* What the runner and the broker's catalog guarantee for any number of    *)
(* services, deploys, calls and restarts of a child.                       *)
(***************************************************************************)
EXTENDS Services, TLAPS

Kids == Seq({"up", "dead", "gone", "void"})
Object == [status : R!Status, process : Nat, restarts : Nat, armed : BOOLEAN, tries : 0..MaxTries]

\* A /load that has not come to its child yet.
Early == {"none", "sent", "wait", "install"}

\* A service object, its children and its /load belong together: the child that has not
\* ended is the one the object points to, the restart timer runs when there is none, and
\* every child but the first has cost a restart.
Sound(s, ch, st) ==
  /\ \A k \in DOMAIN ch : ch[k] \in {"up", "dead"} => k = s.process
  /\ s.process \in 0..Len(ch)
  /\ s.status = "running" => s.process # 0
  /\ s.status = "restarting" => s.armed
  /\ s.armed => s.process = 0 /\ Len(ch) <= s.restarts
  /\ s.restarts <= MaxRestarts /\ Len(ch) <= s.restarts + 1
  /\ st \in Early => Len(ch) = 0 /\ ~s.armed

Objects ==
  /\ svc \in [Load -> Object] /\ child \in [Load -> Kids]
  /\ \A l \in Load : Sound(svc[l], child[l], load[l].st)

Requests ==
  /\ services \in [Name -> Load \cup {None}]
  /\ load \in [Load -> [st : R!LoadState, name : Name \cup {None}]]
  /\ call \in [Call -> [st : R!CallState, name : Name \cup {None}, svc : Load \cup {None}]]
  /\ unload \in [Unload -> [st : {"none", "term", "done"},
                            name : Name \cup {None}, svc : Load \cup {None}]]
  /\ \A l \in Load : load[l].st # "none" => load[l].name \in Name
  /\ \A c \in Call : call[c].st # "idle" => call[c].name \in Name
  /\ \A u \in Unload : unload[u].st = "term" => unload[u].svc \in Load /\ unload[u].name \in Name

\* A deploy's /load is not sent yet.
Unsent == Deploying \cup {"idle", "written"}
Sync == {"idle", "due", "read", "up", "down"}

Catalog ==
  /\ row \in [Service -> RowStatus]
  /\ deploy \in [Load -> [st : DeployState, of : Service \cup {None}]]
  /\ caller \in [Call -> Service \cup {None}]
  /\ sync \in [Service -> Sync]
  /\ scene \in [deploys : SUBSET Load, to : SUBSET Service, events : SUBSET Event]
  /\ \A l \in Load : /\ deploy[l].st # "idle" => deploy[l].of \in Service
                     /\ deploy[l].st \in Unsent => load[l].st = "none"

IInv == Objects /\ Requests /\ Catalog

-----------------------------------------------------------------------------
(* Objects.                                                                *)

\* An object without a child is given one.
LEMMA SpawnSound ==
  ASSUME NEW r \in Object, NEW ch \in Kids, NEW c \in {"up", "void"}, NEW st, st \notin Early,
         \A k \in DOMAIN ch : ch[k] \notin {"up", "dead"},
         r.restarts <= MaxRestarts, Len(ch) <= r.restarts,
         NEW s, s = [r EXCEPT !.process = Len(ch) + 1, !.armed = FALSE,
                              !.status = IF c = "up" THEN "running" ELSE "failed"]
  PROVE  /\ s \in Object /\ Append(ch, c) \in Kids
         /\ Sound(s, Append(ch, c), st)
<1>1. /\ s \in Object /\ s.process = Len(ch) + 1 /\ ~s.armed /\ s.restarts = r.restarts
      /\ s.status \in {"running", "failed"}
  <2>1. Len(ch) + 1 \in Nat
    BY DEF Kids
  <2>2. (IF c = "up" THEN "running" ELSE "failed") \in {"running", "failed"}
    OBVIOUS
  <2>3. QED
    BY <2>1, <2>2 DEF Object, R!Status
<1>2. /\ Append(ch, c) \in Kids /\ Len(Append(ch, c)) = Len(ch) + 1
      /\ \A k \in DOMAIN Append(ch, c) : k = Len(ch) + 1 \/ Append(ch, c)[k] \notin {"up", "dead"}
      /\ Len(ch) \in Nat
  BY DEF Kids
<1>3. MaxRestarts \in Nat /\ r.restarts \in Nat
  BY ServicesAssumption DEF ServicesAssumption, Object
<1>4. QED
  BY <1>1, <1>2, <1>3 DEF Sound

\* An object whose timer is armed, or whose /load is early, has no child.
LEMMA Childless ==
  ASSUME NEW s \in Object, NEW ch \in Kids, NEW st, Sound(s, ch, st), s.armed \/ st \in Early
  PROVE  /\ \A k \in DOMAIN ch : ch[k] \notin {"up", "dead"}
         /\ s.restarts <= MaxRestarts /\ Len(ch) <= s.restarts /\ Len(ch) \in Nat
         /\ s.process = 0
BY DEF Sound, Object, Kids

\* A failed handshake of object r.
LEMMA FailSound ==
  ASSUME NEW r \in Object, NEW ch \in Kids, NEW st, NEW to, to \notin Early, Sound(r, ch, st),
         NEW s, \/ s = [r EXCEPT !.status = "failed"]
                \/ r.tries > 1 /\ s = [r EXCEPT !.tries = @ - 1]
                \/ s = r
                \/ s = [r EXCEPT !.status = "stopped"]
  PROVE  s \in Object /\ Sound(s, ch, to)
<1>1. /\ s \in Object /\ s.process = r.process /\ s.armed = r.armed /\ s.restarts = r.restarts
      /\ s.status = r.status \/ s.status \in {"failed", "stopped"}
  BY ServicesAssumption DEF ServicesAssumption, Object, R!Status
<1>2. QED
  BY <1>1 DEF Sound

\* The status of an object is set.
LEMMA StatusSound ==
  ASSUME NEW r \in Object, NEW ch \in Kids, NEW st, Sound(r, ch, st),
         NEW s, s = [r EXCEPT !.status = "stopped"] \/ s = r
  PROVE  s \in Object /\ Sound(s, ch, st)
BY DEF Sound, Object, R!Status

\* A child that has ended: no other is there.
LEMMA ExitSound ==
  ASSUME NEW r \in Object, NEW ch \in Kids, NEW st, Sound(r, ch, st),
         NEW k \in DOMAIN ch, ch[k] = "dead"
  PROVE  /\ R!AfterExit(r) \in Object /\ [ch EXCEPT ![k] = "gone"] \in Kids
         /\ Sound(R!AfterExit(r), [ch EXCEPT ![k] = "gone"], st)
<1> DEFINE d == [ch EXCEPT ![k] = "gone"]
<1>1. /\ d \in Kids /\ Len(d) = Len(ch) /\ DOMAIN d = DOMAIN ch /\ Len(ch) \in Nat /\ Len(ch) # 0
      /\ d[k] = "gone" /\ \A j \in DOMAIN ch \ {k} : d[j] = ch[j]
  BY DEF Kids
<1>2. k = r.process /\ r.process # 0 /\ ~r.armed /\ st \notin Early
  BY <1>1 DEF Sound, Kids
<1>3. \A j \in DOMAIN d : d[j] \notin {"up", "dead"}
  BY <1>1, <1>2 DEF Sound
<1>4. /\ R!AfterExit(r) \in Object /\ R!AfterExit(r).process = 0
      /\ R!AfterExit(r).status # "running"
      /\ R!AfterExit(r).status = "restarting" => R!AfterExit(r).armed
      /\ IF R!AfterExit(r).armed
         THEN r.restarts < MaxRestarts /\ R!AfterExit(r).restarts = r.restarts + 1
         ELSE R!AfterExit(r).restarts = r.restarts
  <2> DEFINE q == [r EXCEPT !.process = 0]
  <2>1. /\ q \in Object /\ q.process = 0 /\ q.status = r.status /\ q.armed = r.armed
        /\ q.restarts = r.restarts /\ r.restarts \in Nat
    BY DEF Object
  <2>2. r.status = "restarting" => r.armed
    BY DEF Sound
  <2>3. CASE r.status # "running"
    <3>1. R!AfterExit(r) = q
      BY <2>3 DEF R!AfterExit
    <3>2. QED
      BY <1>2, <2>1, <2>2, <2>3, <3>1
  <2>4. CASE r.status = "running" /\ r.restarts < MaxRestarts
    <3> DEFINE a == [q EXCEPT !.restarts = @ + 1, !.status = "restarting", !.armed = TRUE]
    <3>1. R!AfterExit(r) = a
      BY <2>4 DEF R!AfterExit
    <3> HIDE DEF q
    <3>2. /\ a \in Object /\ a.process = 0 /\ a.status = "restarting" /\ a.armed
          /\ a.restarts = r.restarts + 1
      <4>1. /\ q.restarts + 1 \in Nat /\ q.restarts + 1 = r.restarts + 1
            /\ "restarting" \in R!Status /\ q \in Object
        BY <2>1 DEF R!Status
      <4>2. a = [q EXCEPT !.restarts = q.restarts + 1, !.status = "restarting", !.armed = TRUE]
        OBVIOUS
      <4> HIDE DEF a
      <4>3. QED
        BY <2>1, <4>1, <4>2 DEF Object
    <3> HIDE DEF a
    <3>3. QED
      BY <2>4, <3>1, <3>2
  <2>5. CASE r.status = "running" /\ ~(r.restarts < MaxRestarts)
    <3> DEFINE a == [q EXCEPT !.status = "crashed"]
    <3>1. R!AfterExit(r) = a
      BY <2>5 DEF R!AfterExit
    <3> HIDE DEF q
    <3>2. /\ a \in Object /\ a.process = 0 /\ a.status = "crashed" /\ ~a.armed
          /\ a.restarts = r.restarts
      BY <1>2, <2>1 DEF Object, R!Status
    <3> HIDE DEF a
    <3>3. QED
      BY <2>5, <3>1, <3>2
  <2>6. QED
    BY <2>3, <2>4, <2>5
<1>5. r.restarts \in Nat /\ MaxRestarts \in Nat
  BY ServicesAssumption DEF ServicesAssumption, Object
<1> HIDE DEF d
<1>6. Sound(R!AfterExit(r), d, st)
  BY <1>1, <1>2, <1>3, <1>4, <1>5 DEF Sound
<1>7. QED
  BY <1>1, <1>4, <1>6 DEF d

\* A child that ends is still the one its object points to.
LEMMA DieSound ==
  ASSUME NEW r \in Object, NEW ch \in Kids, NEW st, Sound(r, ch, st),
         NEW k \in DOMAIN ch, ch[k] = "up"
  PROVE  /\ [ch EXCEPT ![k] = "dead"] \in Kids
         /\ Sound(r, [ch EXCEPT ![k] = "dead"], st)
<1> DEFINE d == [ch EXCEPT ![k] = "dead"]
<1>1. /\ d \in Kids /\ Len(d) = Len(ch) /\ DOMAIN d = DOMAIN ch
      /\ \A j \in DOMAIN ch : d[j] \in {"up", "dead"} => ch[j] \in {"up", "dead"}
  BY DEF Kids
<1> HIDE DEF d
<1>2. Sound(r, d, st)
  BY <1>1 DEF Sound
<1>3. QED
  BY <1>1, <1>2 DEF d

-----------------------------------------------------------------------------
(* Steps of the runner.                                                    *)

\* None is neither a name nor an object.
LEMMA Basic == None \notin Load /\ None \notin Name /\ None \notin Service
BY ServicesAssumption DEF ServicesAssumption

\* The invariant holds at the start.
LEMMA InitIInv == Init => IInv
<1> SUFFICES ASSUME Init PROVE IInv
  OBVIOUS
<1>1. MaxRestarts \in Nat /\ 0 \in 0..MaxTries
  BY ServicesAssumption DEF ServicesAssumption
<1>2. R!Fresh("stopped", 0) \in Object
  BY <1>1 DEF R!Fresh, Object, R!Status
<1>3. Objects
  <2>1. <<>> \in Kids /\ Len(<<>>) = 0 /\ DOMAIN <<>> = {}
    BY DEF Kids
  <2>2. Sound(R!Fresh("stopped", 0), <<>>, "none")
    BY <1>1, <2>1 DEF Sound, R!Fresh
  <2>3. QED
    BY <1>2, <2>1, <2>2 DEF Init, R!RunnerInit, Objects
<1>4. Requests
  BY DEF Init, R!RunnerInit, Requests, R!LoadState, R!CallState
<1>5. Catalog
  BY ServicesAssumption
     DEF ServicesAssumption, Init, R!RunnerInit, Catalog, RowStatus, DeployState, Sync
<1>6. QED
  BY <1>3, <1>4, <1>5 DEF IInv

\* A step of one object.
LEMMA ObjectStep ==
  ASSUME Objects, NEW l \in Load, NEW s \in Object, NEW ch \in Kids,
         svc' = [svc EXCEPT ![l] = s], child' = [child EXCEPT ![l] = ch],
         \A k \in Load \ {l} : load'[k].st = load[k].st,
         Sound(s, ch, load'[l].st)
  PROVE  Objects'
<1>1. /\ svc' \in [Load -> Object] /\ child' \in [Load -> Kids]
      /\ svc'[l] = s /\ child'[l] = ch
      /\ \A k \in Load \ {l} : svc'[k] = svc[k] /\ child'[k] = child[k]
  BY DEF Objects
<1>2. ASSUME NEW k \in Load PROVE Sound(svc'[k], child'[k], load'[k].st)
  <2>1. CASE k = l
    BY <1>1, <2>1
  <2>2. CASE k # l
    BY <1>1, <2>2 DEF Objects
  <2>3. QED
    BY <2>1, <2>2
<1>3. QED
  BY <1>1, <1>2 DEF Objects

\* An object without a child spawns one.
LEMMA SpawnsStep ==
  ASSUME Objects, NEW l \in Load, NEW r \in Object, R!Spawns(l, r),
         \A k \in DOMAIN child[l] : child[l][k] \notin {"up", "dead"},
         r.restarts <= MaxRestarts, Len(child[l]) <= r.restarts,
         \A k \in Load \ {l} : load'[k].st = load[k].st, load'[l].st \notin Early
  PROVE  Objects'
<1>1. PICK c \in {"up", "void"} :
        /\ child' = [child EXCEPT ![l] = Append(child[l], c)]
        /\ svc' = [svc EXCEPT ![l] =
             [r EXCEPT !.process = Len(child[l]) + 1, !.armed = FALSE,
                       !.status = IF c = "up" THEN "running" ELSE "failed"]]
  BY DEF R!Spawns
<1>2. PICK s : s = [r EXCEPT !.process = Len(child[l]) + 1, !.armed = FALSE,
                             !.status = IF c = "up" THEN "running" ELSE "failed"]
  OBVIOUS
<1>3. PICK ch \in Kids : ch = child[l]
  BY DEF Objects
<1>4. PICK st : st = load'[l].st
  OBVIOUS
<1>5. s \in Object /\ Append(ch, c) \in Kids /\ Sound(s, Append(ch, c), st)
  <2>1. s = [r EXCEPT !.process = Len(ch) + 1, !.armed = FALSE,
                      !.status = IF c = "up" THEN "running" ELSE "failed"]
    BY <1>2, <1>3
  <2>2. /\ \A k \in DOMAIN ch : ch[k] \notin {"up", "dead"}
        /\ Len(ch) <= r.restarts /\ st \notin Early
    BY <1>3, <1>4
  <2>3. QED
    BY <2>1, <2>2, SpawnSound
<1>6. svc' = [svc EXCEPT ![l] = s] /\ child' = [child EXCEPT ![l] = Append(ch, c)]
  BY <1>1, <1>2, <1>3
<1>7. QED
  BY <1>4, <1>5, <1>6, ObjectStep

\* What the catalog says of a /load is about those that have not begun.
LEMMA CatalogFrame ==
  ASSUME Catalog, UNCHANGED <<brokerVars, scene>>,
         \A l \in Load : load[l].st = "none" => load'[l].st = "none"
  PROVE  Catalog'
BY DEF Catalog, brokerVars

\* A /load moves on.
LEMMA LoadMoves ==
  ASSUME Requests, NEW l \in Load, NEW st \in R!LoadState, load[l].st # "none",
         load' = R!At(l, st)
  PROVE  /\ load' \in [Load -> [st : R!LoadState, name : Name \cup {None}]]
         /\ load'[l].st = st /\ \A k \in Load \ {l} : load'[k].st = load[k].st
         /\ \A k \in Load : load[k].st = "none" => load'[k].st = "none"
         /\ \A k \in Load : load'[k].st # "none" => load'[k].name \in Name
BY DEF Requests, R!At

\* The source of an early /load is there, or not.
LEMMA PreparesStep ==
  ASSUME IInv, NEW l \in Load, load[l].st \in {"sent", "wait"}, R!Prepares(l),
         UNCHANGED <<brokerVars, scene>>
  PROVE  IInv'
<1>1. /\ svc[l] \in Object /\ child[l] \in Kids /\ Sound(svc[l], child[l], load[l].st)
      /\ load[l].name \in Name /\ svc \in [Load -> Object] /\ child \in [Load -> Kids]
      /\ MaxTries \in Nat \ {0} /\ MaxRestarts \in Nat
  BY ServicesAssumption DEF ServicesAssumption, IInv, Objects, Requests
<1>2. /\ \A k \in DOMAIN child[l] : child[l][k] \notin {"up", "dead"}
      /\ Len(child[l]) = 0
  BY <1>1, Childless DEF Early, Sound
<1>3. PICK st \in {"bad", "install", "settle"} : load' = R!At(l, st)
  BY DEF R!Prepares
<1>4. st \in R!LoadState
  BY DEF R!LoadState
<1>5. /\ load' \in [Load -> [st : R!LoadState, name : Name \cup {None}]]
      /\ load'[l].st = st /\ \A k \in Load \ {l} : load'[k].st = load[k].st
      /\ \A k \in Load : load[k].st = "none" => load'[k].st = "none"
      /\ \A k \in Load : load'[k].st # "none" => load'[k].name \in Name
  BY <1>3, <1>4, LoadMoves DEF IInv
<1>6. Catalog'
  BY <1>5, CatalogFrame DEF IInv
<1>7. Requests'
  BY <1>1, <1>5 DEF IInv, Requests, R!Prepares, R!Spawns
<1>8. Objects'
  <2>1. CASE UNCHANGED <<svc, child>> /\ load' = R!At(l, "bad")
    <3>1. load'[l].st = "bad"
      BY <2>1 DEF R!At, IInv, Requests
    <3>2. Sound(svc[l], child[l], "bad")
      BY <1>1, FailSound DEF Early
    <3>3. svc' = [svc EXCEPT ![l] = svc[l]] /\ child' = [child EXCEPT ![l] = child[l]]
      BY <1>1, <2>1
    <3>4. QED
      BY <1>1, <1>5, <3>1, <3>2, <3>3, ObjectStep DEF IInv
  <2>2. CASE svc' = [svc EXCEPT ![l] = R!Fresh("installing", 1)] /\ UNCHANGED child
    <3> DEFINE s == R!Fresh("installing", 1)
    <3>1. /\ s \in Object /\ ~s.armed /\ s.process = 0 /\ s.restarts = 0
          /\ s.status = "installing"
      BY <1>1 DEF R!Fresh, Object, R!Status
    <3>2. child' = [child EXCEPT ![l] = child[l]]
      BY <1>1, <2>2
    <3> HIDE DEF s
    <3>3. Sound(s, child[l], load'[l].st)
      BY <1>1, <1>2, <3>1 DEF Sound, Kids
    <3>4. QED
      BY <1>1, <1>5, <2>2, <3>1, <3>2, <3>3, ObjectStep DEF IInv, s
  <2>3. CASE R!Spawns(l, R!Fresh("running", MaxTries)) /\ load' = R!At(l, "settle")
    <3> DEFINE r == R!Fresh("running", MaxTries)
    <3>1. r \in Object /\ r.restarts = 0
      BY <1>1 DEF R!Fresh, Object, R!Status
    <3>2. load'[l].st = "settle" /\ load'[l].st \notin Early
      BY <2>3 DEF R!At, IInv, Requests, Early
    <3> HIDE DEF r
    <3>3. Len(child[l]) <= r.restarts /\ r.restarts <= MaxRestarts
      BY <1>1, <1>2, <3>1
    <3>4. QED
      BY <1>2, <1>5, <2>3, <3>1, <3>2, <3>3, SpawnsStep DEF IInv, r
  <2>4. QED
    BY <2>1, <2>2, <2>3 DEF R!Prepares
<1>9. QED
  BY <1>6, <1>7, <1>8 DEF IInv

\* Objects in place of which nothing happens, or which are told to stop.
LEMMA StatusStep ==
  ASSUME Objects, NEW l \in Load, UNCHANGED child,
         svc' = svc \/ svc' = [svc EXCEPT ![l].status = "stopped"],
         \A k \in Load : \/ load'[k].st = load[k].st
                         \/ load[k].st \in Early /\ load'[k].st \in Early
                         \/ load'[k].st \notin Early
  PROVE  Objects'
<1>1. ASSUME NEW k \in Load
      PROVE  svc'[k] \in Object /\ Sound(svc'[k], child[k], load'[k].st)
  <2>1. /\ svc[k] \in Object /\ child[k] \in Kids /\ Sound(svc[k], child[k], load[k].st)
        /\ svc'[k] = svc[k] \/ svc'[k] = [svc[k] EXCEPT !.status = "stopped"]
    BY DEF Objects
  <2>2. svc'[k] \in Object /\ Sound(svc'[k], child[k], load[k].st)
    BY <2>1, StatusSound
  <2>3. QED
    BY <2>2 DEF Sound
<1>2. svc' \in [Load -> Object]
  BY <1>1 DEF Objects
<1>3. QED
  BY <1>1, <1>2 DEF Objects

\* A /load tells the present object's child to end, or goes ahead.
LEMMA ArrivesStep ==
  ASSUME IInv, NEW l \in Load, R!LoadArrives(l), UNCHANGED <<brokerVars, scene>>
  PROVE  IInv'
<1> DEFINE e == services[load[l].name]
<1>1. load[l].st = "sent" /\ load[l].name \in Name /\ e \in Load \cup {None}
  BY DEF R!LoadArrives, IInv, Requests
<1>2. CASE e # None /\ svc[e].process # 0
  <2>1. /\ svc' = [svc EXCEPT ![e].status = "stopped"]
        /\ load' = R!At(l, "wait") /\ UNCHANGED <<services, child, call, unload>>
    BY <1>2 DEF R!LoadArrives
  <2>2. e \in Load
    BY <1>1, <1>2
  <2> HIDE DEF e
  <2>3. /\ load' \in [Load -> [st : R!LoadState, name : Name \cup {None}]]
        /\ load'[l].st = "wait" /\ \A k \in Load \ {l} : load'[k].st = load[k].st
        /\ \A k \in Load : load[k].st = "none" => load'[k].st = "none"
        /\ \A k \in Load : load'[k].st # "none" => load'[k].name \in Name
    BY <1>1, <2>1, LoadMoves DEF IInv, R!LoadState
  <2>4. Objects'
    BY <1>1, <2>1, <2>2, <2>3, StatusStep DEF IInv, Early
  <2>5. Requests' /\ Catalog'
    BY <2>1, <2>3, CatalogFrame DEF IInv, Requests
  <2>6. QED
    BY <2>4, <2>5 DEF IInv
<1>3. CASE ~(e # None /\ svc[e].process # 0)
  BY <1>1, <1>3, PreparesStep DEF R!LoadArrives
<1>4. QED
  BY <1>2, <1>3

\* The dependencies are there and the child is spawned, or they are not.
LEMMA InstalledStep ==
  ASSUME IInv, NEW l \in Load, R!Installed(l), UNCHANGED <<brokerVars, scene>>
  PROVE  IInv'
<1>1. /\ svc[l] \in Object /\ child[l] \in Kids /\ Sound(svc[l], child[l], "install")
      /\ svc \in [Load -> Object] /\ child \in [Load -> Kids] /\ load[l].st = "install"
  BY DEF IInv, Objects, R!Installed
<1>2. /\ \A k \in DOMAIN child[l] : child[l][k] \notin {"up", "dead"}
      /\ svc[l].restarts <= MaxRestarts /\ Len(child[l]) <= svc[l].restarts
  BY <1>1, Childless DEF Early
<1>3. PICK st \in {"bad", "settle"} : /\ load' = R!At(l, st)
                                      /\ UNCHANGED <<services, call, unload>>
  BY DEF R!Installed
<1>4. /\ load' \in [Load -> [st : R!LoadState, name : Name \cup {None}]]
      /\ load'[l].st = st /\ \A k \in Load \ {l} : load'[k].st = load[k].st
      /\ \A k \in Load : load[k].st = "none" => load'[k].st = "none"
      /\ \A k \in Load : load'[k].st # "none" => load'[k].name \in Name
  BY <1>1, <1>3, LoadMoves DEF IInv, R!LoadState
<1>5. Objects'
  <2>1. CASE R!Spawns(l, svc[l])
    BY <1>1, <1>2, <1>3, <1>4, <2>1, SpawnsStep DEF IInv, Early
  <2>2. CASE svc' = [svc EXCEPT ![l].status = "failed"] /\ UNCHANGED child
    <3> DEFINE s == [svc[l] EXCEPT !.status = "failed"]
    <3>1. svc' = [svc EXCEPT ![l] = s] /\ child' = [child EXCEPT ![l] = child[l]]
      BY <1>1, <2>2
    <3>2. s \in Object /\ Sound(s, child[l], st)
      BY <1>1, <1>3, FailSound DEF Early
    <3> HIDE DEF s
    <3>3. QED
      BY <1>1, <1>4, <3>1, <3>2, ObjectStep DEF IInv
  <2>3. QED
    BY <2>1, <2>2 DEF R!Installed
<1>6. Requests' /\ Catalog'
  BY <1>3, <1>4, CatalogFrame DEF IInv, Requests
<1>7. QED
  BY <1>5, <1>6 DEF IInv

\* A handshake that fails on the object r, which was or has become the object of l.
LEMMA FailsStep ==
  ASSUME IInv, NEW l \in Load, NEW r \in Object, NEW ch \in Kids,
         load[l].st \notin Early, Sound(r, ch, load[l].st),
         R!HandshakeFails(l, r), child' = [child EXCEPT ![l] = ch]
  PROVE  /\ Objects' /\ load' \in [Load -> [st : R!LoadState, name : Name \cup {None}]]
         /\ \A k \in Load : load[k].st = "none" => load'[k].st = "none"
         /\ \A k \in Load : load'[k].st # "none" => load'[k].name \in Name
<1>1. \E s : \E st \in {"settle", "bad"} :
        /\ svc' = [svc EXCEPT ![l] = s] /\ load' = R!At(l, st)
        /\ \/ s = [r EXCEPT !.status = "failed"]
           \/ r.tries > 1 /\ s = [r EXCEPT !.tries = @ - 1]
  <2>1. CASE r.tries > 1
    BY <2>1 DEF R!HandshakeFails
  <2>2. CASE ~(r.tries > 1)
    BY <2>2 DEF R!HandshakeFails
  <2>3. QED
    BY <2>1, <2>2
<1>2. PICK s : \E st \in {"settle", "bad"} :
        /\ svc' = [svc EXCEPT ![l] = s] /\ load' = R!At(l, st)
        /\ \/ s = [r EXCEPT !.status = "failed"]
           \/ r.tries > 1 /\ s = [r EXCEPT !.tries = @ - 1]
  BY <1>1
<1>3. PICK st \in {"settle", "bad"} : load' = R!At(l, st)
  BY <1>2
<1>4. s \in Object /\ Sound(s, ch, st)
  BY <1>2, FailSound DEF Early
<1>5. /\ load' \in [Load -> [st : R!LoadState, name : Name \cup {None}]]
      /\ load'[l].st = st /\ \A k \in Load \ {l} : load'[k].st = load[k].st
      /\ \A k \in Load : load[k].st = "none" => load'[k].st = "none"
      /\ \A k \in Load : load'[k].st # "none" => load'[k].name \in Name
  BY <1>3, LoadMoves DEF IInv, R!LoadState, Early
<1>6. QED
  BY <1>2, <1>4, <1>5, ObjectStep DEF IInv

\* The handshake, which begins, is answered or fails.
LEMMA HandshakeStep ==
  ASSUME IInv, NEW l \in Load, R!Settled(l) \/ R!HandshakeAnswered(l) \/ R!HandshakeTimesOut(l),
         UNCHANGED <<brokerVars, scene>>
  PROVE  IInv'
<1>1. /\ svc[l] \in Object /\ child[l] \in Kids /\ Sound(svc[l], child[l], load[l].st)
      /\ child \in [Load -> Kids]
      /\ load[l].st \in {"settle", "initialize", "tools"}
      /\ UNCHANGED <<services, child, call, unload>>
  BY DEF IInv, Objects, R!Settled, R!HandshakeAnswered, R!HandshakeTimesOut, R!Handshake
<1>2. /\ Objects' /\ load' \in [Load -> [st : R!LoadState, name : Name \cup {None}]]
      /\ \A k \in Load : load[k].st = "none" => load'[k].st = "none"
      /\ \A k \in Load : load'[k].st # "none" => load'[k].name \in Name
  <2>1. CASE R!HandshakeFails(l, svc[l])
    <3>1. child' = [child EXCEPT ![l] = child[l]]
      BY <1>1
    <3>2. QED
      BY <1>1, <2>1, <3>1, FailsStep DEF Early
  <2>2. CASE UNCHANGED svc /\ \E st \in {"initialize", "tools", "ok"} : load' = R!At(l, st)
    <3>1. PICK st \in {"initialize", "tools", "ok"} : load' = R!At(l, st)
      BY <2>2
    <3>2. /\ load' \in [Load -> [st : R!LoadState, name : Name \cup {None}]]
          /\ load'[l].st = st /\ \A k \in Load \ {l} : load'[k].st = load[k].st
          /\ \A k \in Load : load[k].st = "none" => load'[k].st = "none"
          /\ \A k \in Load : load'[k].st # "none" => load'[k].name \in Name
      BY <1>1, <3>1, LoadMoves DEF IInv, R!LoadState
    <3>3. QED
      BY <1>1, <2>2, <3>2, StatusStep DEF IInv, Early
  <2>3. QED
    BY <2>1, <2>2 DEF R!Settled, R!HandshakeAnswered, R!HandshakeTimesOut
<1>3. Requests' /\ Catalog'
  BY <1>1, <1>2, CatalogFrame DEF IInv, Requests
<1>4. QED
  BY <1>2, <1>3 DEF IInv

\* What is answered stays a call.
LEMMA AnswerKeeps ==
  ASSUME Requests, NEW C, NEW a \in {"result", "error"}, R!Answer(C, a),
         \A c \in C : call[c].st # "idle"
  PROVE  /\ call' \in [Call -> [st : R!CallState, name : Name \cup {None}, svc : Load \cup {None}]]
         /\ \A c \in Call : call'[c].st # "idle" => call'[c].name \in Name
BY DEF R!Answer, Requests, R!CallState

\* The runner learns that a child has ended.
LEMMA ExitStep ==
  ASSUME IInv, NEW l \in Load, R!ExitHandled(l), UNCHANGED <<brokerVars, scene>>
  PROVE  IInv'
<1>1. PICK k \in DOMAIN child[l] : /\ child[l][k] = "dead"
                                   /\ child' = [child EXCEPT ![l][k] = "gone"]
  BY DEF R!ExitHandled
<1>2. PICK ch : ch = [child[l] EXCEPT ![k] = "gone"]
  OBVIOUS
<1>3. PICK r : r = R!AfterExit(svc[l])
  OBVIOUS
<1>4. /\ svc[l] \in Object /\ child[l] \in Kids /\ Sound(svc[l], child[l], load[l].st)
      /\ child \in [Load -> Kids] /\ svc \in [Load -> Object]
  BY DEF IInv, Objects
<1>5. r \in Object /\ ch \in Kids /\ Sound(r, ch, load[l].st)
  BY <1>1, <1>2, <1>3, <1>4, ExitSound
<1>6. child' = [child EXCEPT ![l] = ch]
  BY <1>1, <1>2, <1>4
<1>7. /\ Objects' /\ load' \in [Load -> [st : R!LoadState, name : Name \cup {None}]]
      /\ \A j \in Load : load[j].st = "none" => load'[j].st = "none"
      /\ \A j \in Load : load'[j].st # "none" => load'[j].name \in Name
  <2>1. CASE load[l].st \in R!Handshake
    <3>1. R!HandshakeFails(l, r) /\ load[l].st \notin Early
      BY <1>3, <2>1 DEF R!ExitHandled, R!Handshake, Early
    <3>2. QED
      BY <1>5, <1>6, <3>1, FailsStep
  <2>2. CASE load[l].st \notin R!Handshake
    <3>1. svc' = [svc EXCEPT ![l] = r] /\ UNCHANGED load
      BY <1>3, <2>2 DEF R!ExitHandled
    <3>2. QED
      BY <1>5, <1>6, <3>1, ObjectStep DEF IInv, Requests
  <2>3. QED
    BY <2>1, <2>2
<1>8. /\ call' \in [Call -> [st : R!CallState, name : Name \cup {None}, svc : Load \cup {None}]]
      /\ \A c \in Call : call'[c].st # "idle" => call'[c].name \in Name
  BY AnswerKeeps DEF IInv, R!ExitHandled, R!PendingOn
<1>9. Requests' /\ Catalog'
  BY <1>7, <1>8, CatalogFrame DEF IInv, Requests, R!ExitHandled
<1>10. QED
  BY <1>7, <1>9 DEF IInv

\* A child ends; a timer starts another.
LEMMA ChildStep ==
  ASSUME IInv, NEW l \in Load, R!ChildDies(l) \/ R!RestartTimer(l),
         UNCHANGED <<brokerVars, scene>>
  PROVE  IInv'
<1>1. /\ svc[l] \in Object /\ child[l] \in Kids /\ Sound(svc[l], child[l], load[l].st)
      /\ child \in [Load -> Kids] /\ svc \in [Load -> Object]
      /\ UNCHANGED <<services, load, call, unload>>
  BY DEF IInv, Objects, R!ChildDies, R!RestartTimer
<1>2. CASE R!ChildDies(l)
  <2>1. PICK k \in DOMAIN child[l] : /\ child[l][k] = "up"
                                     /\ child' = [child EXCEPT ![l][k] = "dead"]
    BY <1>2 DEF R!ChildDies
  <2>2. PICK ch : ch = [child[l] EXCEPT ![k] = "dead"]
    OBVIOUS
  <2>3. ch \in Kids /\ Sound(svc[l], ch, load[l].st)
    BY <1>1, <2>1, <2>2, DieSound
  <2>4. child' = [child EXCEPT ![l] = ch] /\ svc' = [svc EXCEPT ![l] = svc[l]]
    BY <1>1, <1>2, <2>1, <2>2 DEF R!ChildDies
  <2>5. Objects'
    BY <1>1, <2>3, <2>4, ObjectStep DEF IInv
  <2>6. QED
    BY <1>1, <2>5, CatalogFrame DEF IInv, Requests
<1>3. CASE R!RestartTimer(l)
  <2>1. svc[l].armed /\ R!Spawns(l, svc[l])
    BY <1>3 DEF R!RestartTimer
  <2>2. /\ \A k \in DOMAIN child[l] : child[l][k] \notin {"up", "dead"}
        /\ svc[l].restarts <= MaxRestarts /\ Len(child[l]) <= svc[l].restarts
    BY <1>1, <2>1, Childless
  <2>3. load[l].st \notin Early
    BY <1>1, <2>1 DEF Sound
  <2>4. Objects'
    BY <1>1, <2>1, <2>2, <2>3, SpawnsStep DEF IInv
  <2>5. QED
    BY <1>1, <2>4, CatalogFrame DEF IInv, Requests
<1>4. QED
  BY <1>2, <1>3

\* A call reaches its object, or is answered.
LEMMA CallStep ==
  ASSUME IInv, NEW c \in Call,
         R!CallArrives(c) \/ R!ChildAnswers(c) \/ R!CallTimesOut(c),
         UNCHANGED <<brokerVars, scene>>
  PROVE  IInv'
<1>1. call[c].st \in {"sent", "pending"} /\ UNCHANGED <<services, svc, child, load, unload>>
  BY DEF R!CallArrives, R!ChildAnswers, R!CallTimesOut
<1>2. call[c].name \in Name
  BY <1>1 DEF IInv, Requests
<1>3. /\ call' \in [Call -> [st : R!CallState, name : Name \cup {None}, svc : Load \cup {None}]]
      /\ \A d \in Call : call'[d].st # "idle" => call'[d].name \in Name
  <2>1. CASE \E a \in {"result", "error"} : R!Answer({c}, a)
    BY <1>1, <2>1, AnswerKeeps DEF IInv
  <2>2. CASE \E l \in Load : call' = [call EXCEPT ![c].st = "pending", ![c].svc = l]
    <3>1. PICK l \in Load : call' = [call EXCEPT ![c].st = "pending", ![c].svc = l]
      BY <2>2
    <3>2. PICK r : r = [call[c] EXCEPT !.st = "pending", !.svc = l]
      OBVIOUS
    <3>3. r \in [st : R!CallState, name : Name \cup {None}, svc : Load \cup {None}]
      <4>1. call[c] \in [st : R!CallState, name : Name \cup {None}, svc : Load \cup {None}]
        BY DEF IInv, Requests
      <4>2. QED
        BY <3>2, <4>1 DEF R!CallState
    <3>4. r.name \in Name
      BY <1>2, <3>2 DEF IInv, Requests
    <3>5. call' = [call EXCEPT ![c] = r]
      BY <3>1, <3>2 DEF IInv, Requests
    <3>6. QED
      BY <3>3, <3>4, <3>5 DEF IInv, Requests
  <2>3. services[call[c].name] \in Load \cup {None}
    BY <1>2 DEF IInv, Requests
  <2>4. QED
    BY <2>1, <2>2, <2>3 DEF R!CallArrives, R!ChildAnswers, R!CallTimesOut
<1>4. Objects'
  BY <1>1 DEF IInv, Objects
<1>5. Requests' /\ Catalog'
  BY <1>1, <1>3, CatalogFrame DEF IInv, Requests
<1>6. QED
  BY <1>4, <1>5 DEF IInv

\* A name is freed.
LEMMA FreesKeeps ==
  ASSUME Requests, NEW u \in Unload, NEW l \in Load, NEW n \in Name, R!Frees(u, l, n)
  PROVE  /\ services' \in [Name -> Load \cup {None}]
         /\ call' \in [Call -> [st : R!CallState, name : Name \cup {None}, svc : Load \cup {None}]]
         /\ \A c \in Call : call'[c].st # "idle" => call'[c].name \in Name
         /\ unload' \in [Unload -> [st : {"none", "term", "done"},
                                   name : Name \cup {None}, svc : Load \cup {None}]]
         /\ \A v \in Unload : unload'[v].st = "term" =>
                              unload'[v].svc \in Load /\ unload'[v].name \in Name
<1>1. R!Answer(R!PendingOn(l), "error") /\ \A c \in R!PendingOn(l) : call[c].st # "idle"
  BY DEF R!Frees, R!PendingOn
<1>2. QED
  BY <1>1, AnswerKeeps DEF R!Frees, Requests

\* An /unload tells the object's child to end, or frees the name of one that has none.
LEMMA UnloadArrivesStep ==
  ASSUME IInv, NEW u \in Unload, NEW n \in Name, R!UnloadArrives(u, n),
         UNCHANGED <<brokerVars, scene>>
  PROVE  IInv'
<1> DEFINE l == services[n]
<1>1. /\ l \in Load /\ svc' = [svc EXCEPT ![l].status = "stopped"] /\ UNCHANGED <<child, load>>
  BY DEF IInv, Requests, R!UnloadArrives
<1>2. \/ /\ unload' = [unload EXCEPT ![u] = [st |-> "term", name |-> n, svc |-> l]]
         /\ UNCHANGED <<services, call>>
      \/ R!Frees(u, l, n)
  BY DEF R!UnloadArrives
<1> HIDE DEF l
<1>3. Objects'
  BY <1>1, StatusStep DEF IInv
<1>4. Requests'
  <2>1. CASE R!Frees(u, l, n)
    BY <1>1, <2>1, FreesKeeps DEF IInv, Requests
  <2>2. CASE ~R!Frees(u, l, n)
    BY <1>1, <1>2, <2>2 DEF IInv, Requests
  <2>3. QED
    BY <2>1, <2>2
<1>5. Catalog'
  BY <1>1, CatalogFrame DEF IInv
<1>6. QED
  BY <1>3, <1>4, <1>5 DEF IInv

\* The child that would not end is killed.
LEMMA UnloadWaitedStep ==
  ASSUME IInv, NEW u \in Unload, R!UnloadWaited(u), UNCHANGED <<brokerVars, scene>>
  PROVE  IInv'
<1> DEFINE l == unload[u].svc
           n == unload[u].name
           k == svc[l].process
<1>1. l \in Load /\ n \in Name
  BY DEF R!UnloadWaited, IInv, Requests
<1>2. /\ child' = IF k # 0 /\ child[l][k] = "up" THEN [child EXCEPT ![l][k] = "dead"] ELSE child
      /\ R!Frees(u, l, n)
      /\ IF load[l].st \in R!Handshake THEN R!HandshakeFails(l, svc[l])
                                        ELSE UNCHANGED <<svc, load>>
  BY DEF R!UnloadWaited
<1> HIDE DEF l, n
<1>3. /\ svc[l] \in Object /\ child[l] \in Kids /\ Sound(svc[l], child[l], load[l].st)
      /\ child \in [Load -> Kids] /\ svc \in [Load -> Object]
  BY <1>1 DEF IInv, Objects
<1>4. PICK ch \in Kids : child' = [child EXCEPT ![l] = ch] /\ Sound(svc[l], ch, load[l].st)
  <2>1. CASE k # 0 /\ child[l][k] = "up"
    <3>1. k \in DOMAIN child[l]
      BY <1>3, <2>1 DEF Sound, Kids, Object
    <3>2. PICK ch : ch = [child[l] EXCEPT ![k] = "dead"]
      OBVIOUS
    <3>3. ch \in Kids /\ Sound(svc[l], ch, load[l].st)
      BY <1>3, <2>1, <3>1, <3>2, DieSound
    <3>4. child' = [child EXCEPT ![l] = ch]
      BY <1>2, <1>3, <2>1, <3>2
    <3>5. QED
      BY <3>3, <3>4
  <2>2. CASE ~(k # 0 /\ child[l][k] = "up")
    <3>1. child' = [child EXCEPT ![l] = child[l]]
      BY <1>2, <1>3, <2>2
    <3>2. QED
      BY <1>3, <3>1
  <2>3. QED
    BY <2>1, <2>2
<1>5. /\ Objects' /\ load' \in [Load -> [st : R!LoadState, name : Name \cup {None}]]
      /\ \A j \in Load : load[j].st = "none" => load'[j].st = "none"
      /\ \A j \in Load : load'[j].st # "none" => load'[j].name \in Name
  <2>1. CASE load[l].st \in R!Handshake
    <3>1. R!HandshakeFails(l, svc[l]) /\ load[l].st \notin Early
      BY <1>2, <2>1 DEF R!Handshake, Early
    <3>2. QED
      BY <1>1, <1>3, <1>4, <3>1, FailsStep
  <2>2. CASE load[l].st \notin R!Handshake
    <3>1. svc' = [svc EXCEPT ![l] = svc[l]] /\ UNCHANGED load
      BY <1>2, <1>3, <2>2
    <3>2. QED
      BY <1>1, <1>3, <1>4, <3>1, ObjectStep DEF IInv, Requests
  <2>3. QED
    BY <2>1, <2>2
<1>6. Requests'
  BY <1>1, <1>2, <1>5, FreesKeeps DEF IInv, Requests
<1>7. Catalog'
  BY <1>5, CatalogFrame DEF IInv
<1>8. QED
  BY <1>5, <1>6, <1>7 DEF IInv

\* Every step of the runner's handlers, children and timers.
LEMMA RunnerStep ==
  ASSUME IInv, R!RunnerNext, UNCHANGED <<brokerVars, scene>>
  PROVE  IInv'
<1>1. ASSUME NEW l \in Load, R!LoadArrives(l)
      PROVE  IInv'
  BY <1>1, ArrivesStep
<1>2. ASSUME NEW l \in Load, R!Waited(l)
      PROVE  IInv'
  BY <1>2, PreparesStep DEF R!Waited
<1>3. ASSUME NEW l \in Load, R!Installed(l)
      PROVE  IInv'
  BY <1>3, InstalledStep
<1>4. ASSUME NEW l \in Load, R!Settled(l) \/ R!HandshakeAnswered(l) \/ R!HandshakeTimesOut(l)
      PROVE  IInv'
  BY <1>4, HandshakeStep
<1>5. ASSUME NEW l \in Load, R!ChildDies(l) \/ R!RestartTimer(l)
      PROVE  IInv'
  BY <1>5, ChildStep
<1>6. ASSUME NEW l \in Load, R!ExitHandled(l)
      PROVE  IInv'
  BY <1>6, ExitStep
<1>7. ASSUME NEW c \in Call, R!CallArrives(c) \/ R!ChildAnswers(c) \/ R!CallTimesOut(c)
      PROVE  IInv'
  BY <1>7, CallStep
<1>8. ASSUME NEW u \in Unload, R!UnloadWaited(u)
      PROVE  IInv'
  BY <1>8, UnloadWaitedStep
<1>9. QED
  BY <1>1, <1>2, <1>3, <1>4, <1>5, <1>6, <1>7, <1>8 DEF R!RunnerNext

\* The supervisor and its children are gone.
LEMMA RunnerStopsStep ==
  ASSUME IInv, RunnerStops
  PROVE  IInv'
<1>1. MaxRestarts \in Nat /\ 0 \in 0..MaxTries
  BY ServicesAssumption DEF ServicesAssumption
<1>2. /\ services' = [n \in Name |-> None]
      /\ svc' = [l \in Load |-> R!Fresh("stopped", 0)] /\ child' = [l \in Load |-> <<>>]
      /\ UNCHANGED brokerVars /\ scene' = [scene EXCEPT !.events = @ \ {"runner stops"}]
  BY DEF RunnerStops, R!RunnerStops, Happens
<1>3. /\ load' = [l \in Load |-> IF load[l].st \in {"none", "ok", "bad", "lost"} THEN load[l]
                               ELSE [load[l] EXCEPT !.st = "lost"]]
      /\ call' = [c \in Call |-> IF call[c].st \in {"sent", "pending"}
                               THEN [call[c] EXCEPT !.st = "error"] ELSE call[c]]
      /\ unload' = [u \in Unload |-> IF unload[u].st = "term"
                                   THEN [unload[u] EXCEPT !.st = "done"] ELSE unload[u]]
  BY DEF RunnerStops, R!RunnerStops
<1>4. Objects'
  <2>1. R!Fresh("stopped", 0) \in Object
    BY <1>1 DEF R!Fresh, Object, R!Status
  <2>2. <<>> \in Kids /\ Len(<<>>) = 0 /\ DOMAIN <<>> = {}
    BY DEF Kids
  <2>3. \A st : Sound(R!Fresh("stopped", 0), <<>>, st)
    BY <1>1, <2>2 DEF Sound, R!Fresh
  <2>4. QED
    BY <1>2, <2>1, <2>2, <2>3 DEF Objects
<1>5. Requests'
  <2>1. /\ load' \in [Load -> [st : R!LoadState, name : Name \cup {None}]]
        /\ \A l \in Load : load'[l].st # "none" => load'[l].name \in Name
    BY <1>3 DEF IInv, Requests, R!LoadState
  <2>2. /\ call' \in [Call -> [st : R!CallState, name : Name \cup {None},
                               svc : Load \cup {None}]]
        /\ \A c \in Call : call'[c].st # "idle" => call'[c].name \in Name
    BY <1>3 DEF IInv, Requests, R!CallState
  <2>3. /\ unload' \in [Unload -> [st : {"none", "term", "done"},
                                  name : Name \cup {None}, svc : Load \cup {None}]]
        /\ \A u \in Unload : unload'[u].st # "term"
    BY <1>3 DEF IInv, Requests
  <2>4. services' \in [Name -> Load \cup {None}]
    BY <1>2
  <2>5. QED
    BY <2>1, <2>2, <2>3, <2>4 DEF Requests
<1>6. Catalog'
  <2>1. \A l \in Load : load[l].st = "none" => load'[l].st = "none"
    BY <1>3
  <2>2. scene' \in [deploys : SUBSET Load, to : SUBSET Service, events : SUBSET Event]
    BY <1>2 DEF IInv, Catalog
  <2>3. QED
    BY <1>2, <2>1, <2>2 DEF IInv, Catalog, brokerVars
<1>7. QED
  BY <1>4, <1>5, <1>6 DEF IInv

-----------------------------------------------------------------------------
(* Steps of the broker.                                                    *)

\* What the runner holds is about its own variables.
LEMMA RunnerFrame ==
  ASSUME IInv, UNCHANGED runnerVars
  PROVE  Objects' /\ Requests'
BY DEF IInv, Objects, Requests, runnerVars

\* A row takes a status.
LEMMA UpdateKeeps ==
  ASSUME Catalog, NEW v \in Service, NEW status \in RowStatus, Update(v, status)
  PROVE  row' \in [Service -> RowStatus]
BY DEF Catalog, Update

\* A deploy moves on, and a row may be written.
LEMMA DeployMoves ==
  ASSUME IInv, NEW l \in Load, NEW st \in DeployState \ {"idle"}, Moves(l, st),
         deploy[l].st # "idle", st \in Unsent => load[l].st = "none",
         row' \in [Service -> RowStatus], UNCHANGED <<runnerVars, caller, sync, scene>>
  PROVE  IInv'
<1>1. /\ deploy' \in [Load -> [st : DeployState, of : Service \cup {None}]]
      /\ deploy'[l].st = st /\ deploy'[l].of = deploy[l].of
      /\ \A k \in Load \ {l} : deploy'[k] = deploy[k]
  BY DEF Moves, IInv, Catalog
<1>2. UNCHANGED load
  BY DEF runnerVars
<1>3. Catalog'
  BY <1>1, <1>2 DEF IInv, Catalog
<1>4. QED
  BY <1>3, RunnerFrame DEF IInv

\* A deploy is asked for, and writes the row as building.
LEMMA DeployStep ==
  ASSUME IInv, NEW l \in Load,
         \/ \E v \in Service : DeployRequested(l, v)
         \/ Selected(l) \/ Upserted(l) \/ UpsertFails(l)
  PROVE  IInv'
<1>1. CASE \E v \in Service : DeployRequested(l, v)
  <2>1. PICK v \in Service : DeployRequested(l, v)
    BY <1>1
  <2>2. PICK st \in {"done", "listed"} : deploy' = [deploy EXCEPT ![l] = [st |-> st, of |-> v]]
    BY <2>1 DEF DeployRequested
  <2>3. /\ deploy[l].st = "idle" /\ load[l].st = "none"
        /\ UNCHANGED <<runnerVars, row, caller, sync, scene>>
    BY <2>1 DEF DeployRequested, IInv, Catalog, Unsent
  <2>4. Catalog'
    BY <2>2, <2>3 DEF IInv, Catalog, runnerVars, DeployState, Deploying
  <2>5. QED
    BY <2>3, <2>4, RunnerFrame DEF IInv
<1>2. CASE Selected(l) \/ Upserted(l) \/ UpsertFails(l)
  <2>1. /\ deploy[l].st \in Deploying /\ deploy[l].of \in Service /\ load[l].st = "none"
        /\ UNCHANGED <<runnerVars, caller, sync, scene>>
    BY <1>2 DEF Selected, Upserted, UpsertFails, IInv, Catalog, Deploying, Unsent
  <2>2. PICK st \in {"found", "absent", "written", "done"} : Moves(l, st)
    BY <1>2 DEF Selected, Upserted, UpsertFails
  <2>3. UNCHANGED row \/ row' = [row EXCEPT ![deploy[l].of] = "building"]
    BY <1>2 DEF Selected, Upserted, UpsertFails
  <2>4. row' \in [Service -> RowStatus]
    BY <2>1, <2>3 DEF IInv, Catalog, RowStatus
  <2>5. deploy[l].st # "idle" /\ st \in DeployState \ {"idle"}
    BY <2>1 DEF Deploying, DeployState
  <2>6. QED
    BY <2>1, <2>2, <2>4, <2>5, DeployMoves
<1>3. QED
  BY <1>1, <1>2

\* Once the row is written the /load is sent.
LEMMA LoadSentStep ==
  ASSUME IInv, NEW l \in Load, LoadSent(l)
  PROVE  IInv'
<1>1. /\ deploy[l].st = "written" /\ deploy[l].of \in Service /\ load[l].st = "none"
      /\ deploy' = [deploy EXCEPT ![l].st = "loading"]
      /\ load' = [load EXCEPT ![l] = [st |-> "sent", name |-> deploy[l].of.name]]
      /\ UNCHANGED <<services, svc, child, call, unload, row, caller, sync, scene>>
  BY DEF LoadSent, Moves, IInv, Catalog, Unsent
<1>2. deploy[l].of.name \in Name
  BY <1>1 DEF Name
<1>3. Requests'
  BY <1>1, <1>2 DEF IInv, Requests, R!LoadState
<1>4. Objects'
  <2>1. load'[l].st = "sent" /\ \A k \in Load \ {l} : load'[k] = load[k]
    BY <1>1 DEF IInv, Requests
  <2>2. QED
    BY <1>1, <2>1, StatusStep DEF IInv, Early
<1>5. Catalog'
  <2>1. /\ deploy' \in [Load -> [st : DeployState, of : Service \cup {None}]]
        /\ deploy'[l].st = "loading" /\ deploy'[l].of \in Service
        /\ \A k \in Load \ {l} : deploy'[k] = deploy[k] /\ load'[k] = load[k]
    BY <1>1 DEF IInv, Catalog, Requests, DeployState
  <2>2. "loading" \notin Unsent
    BY DEF Unsent, Deploying
  <2>3. QED
    BY <1>1, <2>1, <2>2 DEF IInv, Catalog
<1>6. QED
  BY <1>3, <1>4, <1>5 DEF IInv

\* A pipeline ends, with its row written or not.
LEMMA PipelineStep ==
  ASSUME IInv, NEW l \in Load, PipelineEnds(l) \/ FetchFails(l) \/ CaughtWritten(l)
  PROVE  IInv'
<1>1. /\ deploy[l].st \in {"loading", "caught"} /\ deploy[l].of \in Service
      /\ UNCHANGED <<runnerVars, caller, sync, scene>>
  BY DEF PipelineEnds, FetchFails, CaughtWritten, IInv, Catalog
<1>2. PICK st \in {"done", "caught", "unwritten"} : Moves(l, st)
  BY DEF PipelineEnds, FetchFails, CaughtWritten
<1>3. row' \in [Service -> RowStatus]
  <2>1. UNCHANGED row \/ \E status \in {"running", "failed"} : Update(deploy[l].of, status)
    BY DEF PipelineEnds, FetchFails, CaughtWritten
  <2>2. QED
    BY <1>1, <2>1, UpdateKeeps DEF IInv, Catalog, RowStatus
<1>4. st \in DeployState \ {"idle"} /\ st \notin Unsent
  BY DEF Unsent, Deploying, DeployState
<1>5. QED
  BY <1>1, <1>2, <1>3, <1>4, DeployMoves

\* A row is deleted, or written by the startup check.
LEMMA RowStep ==
  ASSUME IInv, NEW v \in Service, Undeploy(v) \/ SyncWritten(v)
  PROVE  IInv'
<1>1. CASE Undeploy(v)
  <2>1. /\ row' = [row EXCEPT ![v] = "none"] /\ UNCHANGED <<runnerVars, caller, sync, scene>>
        /\ deploy' = [l \in Load |-> IF deploy[l] = [st |-> "found", of |-> v]
                                   THEN [deploy[l] EXCEPT !.st = "gone"] ELSE deploy[l]]
    BY <1>1 DEF Undeploy
  <2>2. row' \in [Service -> RowStatus]
    BY <2>1 DEF IInv, Catalog, RowStatus
  <2>3. ASSUME NEW l \in Load
        PROVE  /\ deploy'[l] \in [st : DeployState, of : Service \cup {None}]
               /\ deploy'[l].st # "idle" => deploy'[l].of \in Service
               /\ deploy'[l].st \in Unsent => load[l].st = "none"
    <3>1. /\ deploy[l] \in [st : DeployState, of : Service \cup {None}]
          /\ deploy[l].st # "idle" => deploy[l].of \in Service
          /\ deploy[l].st \in Unsent => load[l].st = "none"
      BY DEF IInv, Catalog
    <3>2. \/ deploy'[l] = deploy[l]
          \/ deploy[l].st = "found" /\ deploy'[l] = [deploy[l] EXCEPT !.st = "gone"]
      BY <2>1
    <3>3. QED
      BY <3>1, <3>2 DEF Unsent, Deploying, DeployState
  <2>4. deploy' \in [Load -> [st : DeployState, of : Service \cup {None}]]
    BY <2>1, <2>3
  <2>5. UNCHANGED load
    BY <2>1 DEF runnerVars
  <2>6. Catalog'
    BY <2>1, <2>2, <2>3, <2>4, <2>5 DEF IInv, Catalog
  <2>7. QED
    BY <2>1, <2>6, RunnerFrame DEF IInv
<1>2. CASE SyncWritten(v)
  <2>1. /\ UNCHANGED <<runnerVars, deploy, caller, scene>>
        /\ \/ sync' = [sync EXCEPT ![v] = "idle"]
           \/ sync' = [w \in Service |-> IF w.mesh = v.mesh THEN "idle" ELSE sync[w]]
        /\ UNCHANGED row \/ \E status \in {"running", "stopped"} : Update(v, status)
    BY <1>2 DEF SyncWritten
  <2>2. row' \in [Service -> RowStatus]
    BY <2>1, UpdateKeeps DEF IInv, Catalog, RowStatus
  <2>3. sync' \in [Service -> Sync] /\ UNCHANGED load
    BY <2>1 DEF IInv, Catalog, runnerVars, Sync
  <2>4. Catalog'
    BY <2>1, <2>2, <2>3 DEF IInv, Catalog
  <2>5. QED
    BY <2>1, <2>4, RunnerFrame DEF IInv
<1>3. QED
  BY <1>1, <1>2

\* A call is asked for, looked up and replied to.
LEMMA CallerStep ==
  ASSUME IInv, NEW c \in Call,
         (\E v \in Service : CallRequested(c, v)) \/ CallLooked(c) \/ CallReplied(c)
  PROVE  IInv'
<1>1. UNCHANGED <<services, svc, child, load, unload, row, deploy, sync, scene>>
  BY DEF CallRequested, CallLooked, CallReplied, brokerVars
<1>2. /\ caller' \in [Call -> Service \cup {None}]
      /\ call' \in [Call -> [st : R!CallState, name : Name \cup {None}, svc : Load \cup {None}]]
      /\ \A d \in Call : call'[d].st # "idle" => call'[d].name \in Name
  <2>1. CASE \E v \in Service : CallRequested(c, v)
    <3>1. PICK v \in Service : CallRequested(c, v)
      BY <2>1
    <3>2. v.name \in Name
      BY DEF Name
    <3>3. QED
      BY <3>1, <3>2 DEF CallRequested, IInv, Requests, Catalog, R!CallState
  <2>2. CASE CallLooked(c) \/ CallReplied(c)
    <3>1. PICK st \in {"sent", "error", "replied"} : call' = [call EXCEPT ![c].st = st]
      BY <2>2 DEF CallLooked, CallReplied
    <3>2. call[c].st # "idle" /\ UNCHANGED caller
      BY <2>2 DEF CallLooked, CallReplied, brokerVars
    <3>3. /\ call \in [Call -> [st : R!CallState, name : Name \cup {None}, svc : Load \cup {None}]]
          /\ \A d \in Call : call[d].st # "idle" => call[d].name \in Name
      BY DEF IInv, Requests
    <3>4. caller' \in [Call -> Service \cup {None}]
      BY <3>2 DEF IInv, Catalog
    <3>5. st \in R!CallState
      BY DEF R!CallState
    <3>6. QED
      BY <3>1, <3>2, <3>3, <3>4, <3>5
  <2>3. QED
    BY <2>1, <2>2
<1>3. Objects'
  BY <1>1 DEF IInv, Objects
<1>4. Requests'
  BY <1>1, <1>2 DEF IInv, Requests
<1>5. Catalog'
  BY <1>1, <1>2 DEF IInv, Catalog
<1>6. QED
  BY <1>3, <1>4, <1>5 DEF IInv

\* The broker restarts and checks what its runner serves.
LEMMA RestartStep ==
  ASSUME IInv, BrokerStops \/ \E m \in Mesh : RowsRead(m) \/ HealthRead(m)
  PROVE  IInv'
<1>1. CASE BrokerStops
  <2>1. /\ scene' = [scene EXCEPT !.events = @ \ {"broker stops"}]
        /\ deploy' = [l \in Load |->
             CASE deploy[l].st \in Deploying -> [deploy[l] EXCEPT !.st = "done"]
               [] deploy[l].st \in {"written", "loading", "caught"} ->
                    [deploy[l] EXCEPT !.st = "cut"]
               [] OTHER -> deploy[l]]
        /\ call' = [c \in Call |-> IF call[c].st \in {"idle", "replied"} THEN call[c]
                                 ELSE [call[c] EXCEPT !.st = "dropped"]]
        /\ sync' = [v \in Service |-> "due"]
        /\ UNCHANGED <<services, svc, child, load, unload, row, caller>>
    BY <1>1 DEF BrokerStops, Happens
  <2>2. Objects'
    BY <2>1 DEF IInv, Objects
  <2>3. Requests'
    <3>1. /\ call' \in [Call -> [st : R!CallState, name : Name \cup {None},
                                 svc : Load \cup {None}]]
          /\ \A c \in Call : call'[c].st # "idle" => call'[c].name \in Name
      <4>1. ASSUME NEW c \in Call
            PROVE  /\ call'[c] \in [st : R!CallState, name : Name \cup {None},
                                   svc : Load \cup {None}]
                   /\ call'[c].st # "idle" => call'[c].name \in Name
        <5>1. /\ call[c] \in [st : R!CallState, name : Name \cup {None}, svc : Load \cup {None}]
              /\ call[c].st # "idle" => call[c].name \in Name
          BY DEF IInv, Requests
        <5>2. \/ call'[c] = call[c]
              \/ call[c].st # "idle" /\ call'[c] = [call[c] EXCEPT !.st = "dropped"]
          BY <2>1
        <5>3. QED
          BY <5>1, <5>2 DEF R!CallState
      <4>2. DOMAIN call' = Call /\ call' = [c \in Call |-> call'[c]]
        BY <2>1
      <4>3. QED
        BY <4>1, <4>2
    <3>2. QED
      BY <2>1, <3>1 DEF IInv, Requests
  <2>4. Catalog'
    <3>1. scene' \in [deploys : SUBSET Load, to : SUBSET Service, events : SUBSET Event]
      BY <2>1 DEF IInv, Catalog
    <3>2. sync' \in [Service -> Sync]
      BY <2>1 DEF Sync
    <3>3. ASSUME NEW l \in Load
          PROVE  /\ deploy'[l] \in [st : DeployState, of : Service \cup {None}]
                 /\ deploy'[l].st # "idle" => deploy'[l].of \in Service
                 /\ deploy'[l].st \in Unsent => load[l].st = "none"
      <4>1. /\ deploy[l] \in [st : DeployState, of : Service \cup {None}]
            /\ deploy[l].st # "idle" => deploy[l].of \in Service
            /\ deploy[l].st \in Unsent => load[l].st = "none"
        BY DEF IInv, Catalog
      <4>2. "idle" \notin Deploying
        BY DEF Deploying
      <4>3. \/ deploy'[l] = deploy[l]
            \/ /\ deploy[l].st # "idle"
               /\ \E st \in {"done", "cut"} : deploy'[l] = [deploy[l] EXCEPT !.st = st]
        <5>1. CASE deploy[l].st \in Deploying
          <6>1. deploy'[l] = [deploy[l] EXCEPT !.st = "done"]
            BY <2>1, <5>1 DEF Deploying
          <6>2. QED
            BY <4>2, <5>1, <6>1
        <5>2. CASE deploy[l].st \in {"written", "loading", "caught"}
          <6>1. deploy[l].st \notin Deploying
            BY <5>2 DEF Deploying
          <6>2. deploy'[l] = [deploy[l] EXCEPT !.st = "cut"]
            BY <2>1, <5>2, <6>1
          <6>3. QED
            BY <5>2, <6>2
        <5>3. CASE deploy[l].st \notin Deploying \cup {"written", "loading", "caught"}
          BY <2>1, <5>3
        <5>4. QED
          BY <5>1, <5>2, <5>3
      <4>4. QED
        BY <4>1, <4>3 DEF Unsent, Deploying, DeployState
    <3>4. deploy' \in [Load -> [st : DeployState, of : Service \cup {None}]]
      BY <2>1, <3>3
    <3>5. QED
      BY <2>1, <3>1, <3>2, <3>3, <3>4 DEF IInv, Catalog
  <2>5. QED
    BY <2>2, <2>3, <2>4 DEF IInv
<1>2. CASE \E m \in Mesh : RowsRead(m) \/ HealthRead(m)
  <2>1. PICK m \in Mesh : RowsRead(m) \/ HealthRead(m)
    BY <1>2
  <2>2. UNCHANGED <<runnerVars, row, deploy, caller, scene>>
    BY <2>1 DEF RowsRead, HealthRead
  <2>3. sync' \in [Service -> Sync]
    BY <2>1 DEF RowsRead, HealthRead, IInv, Catalog, Sync
  <2>4. Catalog'
    BY <2>2, <2>3 DEF IInv, Catalog, runnerVars
  <2>5. QED
    BY <2>2, <2>4, RunnerFrame DEF IInv
<1>3. QED
  BY <1>1, <1>2

-----------------------------------------------------------------------------
(* The invariant and what follows.                                         *)

\* No step of the runner or of the broker breaks the invariant.
LEMMA NextIInv == IInv /\ [Next]_vars => IInv'
<1> SUFFICES ASSUME IInv, [Next]_vars PROVE IInv'
  OBVIOUS
<1>1. CASE OfRunner(R!RunnerNext)
  BY <1>1, RunnerStep DEF OfRunner
<1>2. CASE OfRunner(\E u \in Unload, n \in Name : R!UnloadArrives(u, n))
  BY <1>2, UnloadArrivesStep DEF OfRunner
<1>3. CASE \E l \in Load : \/ \E v \in Service : DeployRequested(l, v)
                           \/ Selected(l) \/ Upserted(l) \/ UpsertFails(l) \/ LoadSent(l)
                           \/ PipelineEnds(l) \/ FetchFails(l) \/ CaughtWritten(l)
  BY <1>3, DeployStep, LoadSentStep, PipelineStep
<1>4. CASE \E v \in Service : Undeploy(v) \/ SyncWritten(v)
  BY <1>4, RowStep
<1>5. CASE \E c \in Call : \/ \E v \in Service : CallRequested(c, v)
                           \/ CallLooked(c) \/ CallReplied(c)
  BY <1>5, CallerStep
<1>6. CASE BrokerStops \/ \E m \in Mesh : RowsRead(m) \/ HealthRead(m)
  BY <1>6, RestartStep
<1>7. CASE RunnerStops
  BY <1>7, RunnerStopsStep
<1>8. CASE UNCHANGED vars
  <2>1. UNCHANGED runnerVars /\ UNCHANGED <<brokerVars, scene>>
    BY <1>8 DEF vars
  <2>2. Objects' /\ Requests'
    BY <2>1, RunnerFrame
  <2>3. Catalog'
    BY <2>1, CatalogFrame DEF IInv, runnerVars
  <2>4. QED
    BY <2>2, <2>3 DEF IInv
<1>9. QED
  BY <1>1, <1>2, <1>3, <1>4, <1>5, <1>6, <1>7, <1>8 DEF Next

\* The invariant holds throughout.
THEOREM ServicesInductive == Spec => []IInv
<1>1. QED
  BY InitIInv, NextIInv, PTL DEF Spec

\* The variables have their types; a running service has a process and one that is
\* restarting a timer, which is what the runner's /health answers from.
THEOREM ServicesTypes == Spec => []TypeOK
<1>1. IInv => TypeOK
  <2> SUFFICES ASSUME IInv PROVE TypeOK
    OBVIOUS
  <2>1. R!RunnerTypeOK
    BY DEF IInv, Objects, Requests, Object, Kids, Sound, R!RunnerTypeOK
  <2>2. QED
    BY <2>1 DEF IInv, Catalog, Sync, TypeOK
<1>2. QED
  BY <1>1, ServicesInductive, PTL

\* A service object never has two living children, however its restarts, its /load, an
\* /unload and exits interleave, and it spawns MaxRestarts + 1 of them at most.
THEOREM ServicesOneChild == Spec => []OneChild
<1>1. IInv => OneChild
  <2> SUFFICES ASSUME IInv, NEW l \in Load
               PROVE  Up(l) \subseteq {svc[l].process} /\ Len(child[l]) <= MaxRestarts + 1
    BY DEF OneChild
  <2>1. Sound(svc[l], child[l], load[l].st) /\ svc[l] \in Object /\ child[l] \in Kids
    BY DEF IInv, Objects
  <2>2. MaxRestarts \in Nat
    BY ServicesAssumption DEF ServicesAssumption
  <2>3. Up(l) \subseteq {svc[l].process}
    BY <2>1 DEF Sound, Up
  <2>4. Len(child[l]) <= MaxRestarts + 1
    BY <2>1, <2>2 DEF Sound, Object, Kids
  <2>5. QED
    BY <2>3, <2>4
<1>2. QED
  BY <1>1, ServicesInductive, PTL

\* A row that was deleted comes back through a deploy only.
THEOREM ServicesOnlyDeploy == Spec => OnlyDeployCreates
<1>1. ASSUME IInv, [Next]_vars
      PROVE  [\A v \in Service : row[v] = "none" /\ row'[v] # "none" => row'[v] = "building"]_row
  <2> SUFFICES ASSUME NEW v \in Service, row[v] = "none", row'[v] # "none"
               PROVE  row'[v] = "building"
    OBVIOUS
  <2>1. row' # row /\ row \in [Service -> RowStatus]
    BY <1>1 DEF IInv, Catalog
  <2>2. ASSUME NEW w \in Service, NEW status, Update(w, status)
        PROVE  row'[v] = "none"
    BY <2>1, <2>2 DEF Update
  <2>3. CASE \E l \in Load : Upserted(l)
    BY <2>1, <2>3 DEF Upserted
  <2>4. CASE \E l \in Load : PipelineEnds(l) \/ CaughtWritten(l)
    <3>1. PICK l \in Load : PipelineEnds(l) \/ CaughtWritten(l)
      BY <2>4
    <3>2. deploy[l].of \in Service
      BY <1>1, <3>1 DEF PipelineEnds, CaughtWritten, IInv, Catalog
    <3>3. \E status \in {"running", "failed"} : Update(deploy[l].of, status)
      BY <2>1, <3>1 DEF PipelineEnds, CaughtWritten
    <3>4. QED
      BY <2>2, <3>2, <3>3
  <2>5. CASE \E w \in Service : Undeploy(w) \/ SyncWritten(w)
    BY <2>1, <2>2, <2>5 DEF Undeploy, SyncWritten
  <2>6. QED
    BY <1>1, <2>1, <2>3, <2>4, <2>5
       DEF Next, vars, OfRunner, brokerVars, DeployRequested, Selected, UpsertFails, LoadSent,
           FetchFails, RowsRead, HealthRead, CallRequested, CallLooked, CallReplied,
           BrokerStops, RunnerStops
<1>2. QED
  BY <1>1, ServicesInductive, PTL DEF Spec, OnlyDeployCreates
==============================================================================
