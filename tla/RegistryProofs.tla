---------------------------- MODULE RegistryProofs ----------------------------
(***************************************************************************)
(* What the daemon's session registry guarantees for any tokens, sessions, *)
(* processes, clients and crashes.                                         *)
(***************************************************************************)
EXTENDS Registry, FiniteSetTheorems, TLAPS

RegState == [byToken : [Token -> Row], bySid : [Sid -> Token \cup {None}],
             client : [Token -> Client \cup {None}], byKey : [Sid -> Client \cup {None}],
             keyOf : [Client -> Sid \cup {None}], open : SUBSET Client]

SidOf(t) == scene.sid[t]

\* A token's client is open and found under its session's key.
Held(r) ==
  \A t \in Token : r.client[t] # None =>
    /\ r.client[t] \in r.open /\ r.keyOf[r.client[t]] = SidOf(t)
    /\ r.byKey[SidOf(t)] = r.client[t]

\* The clients' side: each is one token's and none is forgotten.
Clients(r) ==
  /\ r \in RegState /\ Held(r)
  /\ \A t, u \in Token : r.client[t] # None /\ r.client[t] = r.client[u] => t = u
  /\ r.open = {r.client[t] : t \in Token} \ {None}
  /\ \A s \in Sid : r.byKey[s] # None => r.keyOf[r.byKey[s]] = s
  /\ \A c \in Client \ r.open : r.keyOf[c] = None

\* Registered with a key.
Keyed(r, t) == r.byToken[t] # None /\ r.byToken[t].key

Good(r) ==
  /\ Clients(r)
  /\ \A t \in Token : r.client[t] # None <=> Keyed(r, t)
  /\ \A t \in Token : r.byToken[t] # None => r.bySid[SidOf(t)] = t

Scened == scene \in Scenes

\* None is no token, session, client or entry, and a token's session is one.
LEMMA Basic ==
  /\ None \notin Token \cup Sid \cup Pid \cup Client \cup Nat /\ None \notin Entry
  /\ MaxGen \in Nat \ {0} /\ MaxCrash \in Nat
  /\ Scened => \A t \in Token : SidOf(t) \in Sid
BY RegistryAssumption, EntryAssumption DEF RegistryAssumption, EntryAssumption, Scened, Scene, SidOf

-----------------------------------------------------------------------------
(* The registry's operations.                                              *)

\* Closing clients leaves the others as they were.
LEMMA ClosedClients ==
  ASSUME Scened, NEW r, Clients(r), NEW T \in SUBSET Token
  PROVE  /\ Clients(Closed(r, T))
         /\ Closed(r, T).byToken = r.byToken /\ Closed(r, T).bySid = r.bySid
         /\ \A t \in Token : Closed(r, T).client[t] = IF t \in T THEN None ELSE r.client[t]
<1>1. PICK gone : gone = {r.client[t] : t \in T} \ {None}
  OBVIOUS
<1>2. r \in RegState /\ Held(r)
  BY DEF Clients
<1>3. CASE gone = {}
  <2>1. Closed(r, T) = r
    BY <1>1, <1>3 DEF Closed
  <2>2. \A t \in T : r.client[t] = None
    BY <1>1, <1>3
  <2>3. QED
    BY <2>1, <2>2
<1>4. CASE gone # {}
  <2>1. PICK x : x = Closed(r, T)
    OBVIOUS
  <2>2. x = [r EXCEPT !.client = [t \in Token |-> IF t \in T THEN None ELSE r.client[t]],
                      !.open = r.open \ gone,
                      !.keyOf = [c \in Client |-> IF c \in gone THEN None ELSE r.keyOf[c]],
                      !.byKey = [s \in Sid |-> IF r.byKey[s] \in gone /\ r.keyOf[r.byKey[s]] = s
                                               THEN None ELSE r.byKey[s]]]
    BY <1>1, <1>4, <2>1 DEF Closed
  <2>3. /\ x.byToken = r.byToken /\ x.bySid = r.bySid /\ x.open = r.open \ gone
        /\ x.client = [t \in Token |-> IF t \in T THEN None ELSE r.client[t]]
        /\ x.keyOf = [c \in Client |-> IF c \in gone THEN None ELSE r.keyOf[c]]
        /\ x.byKey = [s \in Sid |-> IF r.byKey[s] \in gone /\ r.keyOf[r.byKey[s]] = s
                                    THEN None ELSE r.byKey[s]]
        /\ x \in RegState
    BY <1>2, <2>2 DEF RegState
  <2>4. \A t \in Token : x.client[t] # None =>
          t \notin T /\ x.client[t] = r.client[t] /\ r.client[t] \notin gone
    BY <1>1, <2>3 DEF Clients
  <2>5. \A t \in Token : r.client[t] # None => r.client[t] \in Client
    BY <1>2 DEF RegState
  <2>6. Held(x)
    BY <1>2, <2>3, <2>4, <2>5, Basic DEF Held
  <2>7. \A t, u \in Token : x.client[t] # None /\ x.client[t] = x.client[u] => t = u
    BY <2>4 DEF Clients
  <2>8. x.open = {x.client[t] : t \in Token} \ {None}
    BY <1>1, <2>3, <2>4 DEF Clients
  <2>9. \A s \in Sid : x.byKey[s] # None => x.keyOf[x.byKey[s]] = s
    <3>1. TAKE s \in Sid
    <3>2. HAVE x.byKey[s] # None
    <3>3. x.byKey[s] = r.byKey[s] /\ r.byKey[s] \in Client
      BY <1>2, <2>3, <3>2 DEF RegState
    <3>4. r.keyOf[r.byKey[s]] = s
      BY <3>2, <3>3 DEF Clients
    <3>5. QED
      BY <2>3, <3>2, <3>3, <3>4
  <2>10. \A c \in Client \ x.open : x.keyOf[c] = None
    BY <2>3 DEF Clients
  <2>11. QED
    BY <2>1, <2>3, <2>6, <2>7, <2>8, <2>9, <2>10 DEF Clients
<1>5. QED
  BY <1>3, <1>4

\* The clients' side does not depend on who is registered.
LEMMA SameClients ==
  ASSUME NEW r, NEW x, Clients(r), x \in RegState, x.client = r.client, x.byKey = r.byKey,
         x.keyOf = r.keyOf, x.open = r.open
  PROVE  Clients(x)
BY DEF Clients, Held

\* Sessions are taken out, with their clients.
LEMMA DeregisteredGood ==
  ASSUME Scened, NEW r, Good(r), NEW T \in SUBSET Token
  PROVE  /\ Good(Deregistered(T, r))
         /\ \A t \in Token : Deregistered(T, r).byToken[t] = IF t \in T THEN None ELSE r.byToken[t]
<1>1. PICK D : D = {t \in T : r.byToken[t] # None}
  OBVIOUS
<1>2. r \in RegState /\ Clients(r)
  BY DEF Good, Clients
<1>3. CASE D = {}
  BY <1>1, <1>3 DEF Deregistered
<1>4. CASE D # {}
  <2>1. PICK x : x = [r EXCEPT !.byToken = [t \in Token |-> IF t \in D THEN None ELSE r.byToken[t]],
                               !.bySid = [s \in Sid |-> IF r.bySid[s] \in D /\ scene.sid[r.bySid[s]] = s
                                                        THEN None ELSE r.bySid[s]]]
    OBVIOUS
  <2>2. Deregistered(T, r) = Closed(x, D)
    BY <1>1, <1>4, <2>1 DEF Deregistered
  <2>3. /\ x.byToken = [t \in Token |-> IF t \in D THEN None ELSE r.byToken[t]]
        /\ x.bySid = [s \in Sid |-> IF r.bySid[s] \in D /\ scene.sid[r.bySid[s]] = s
                                    THEN None ELSE r.bySid[s]]
        /\ x.client = r.client /\ x.byKey = r.byKey /\ x.keyOf = r.keyOf /\ x.open = r.open
    BY <1>2, <2>1 DEF RegState
  <2>4. x \in RegState
    BY <1>2, <2>1, <2>3 DEF RegState, Row
  <2>5. Clients(x) /\ D \in SUBSET Token
    BY <1>1, <1>2, <2>3, <2>4, SameClients
  <2>6. PICK y : y = Closed(x, D)
    OBVIOUS
  <2>7. /\ Clients(y) /\ y.byToken = x.byToken /\ y.bySid = x.bySid
        /\ \A t \in Token : y.client[t] = IF t \in D THEN None ELSE x.client[t]
    BY <2>5, <2>6, ClosedClients
  <2>8. \A t \in Token : y.client[t] # None <=> Keyed(y, t)
    BY <2>3, <2>7 DEF Good, Keyed
  <2>9. ASSUME NEW t \in Token, y.byToken[t] # None
        PROVE  y.bySid[SidOf(t)] = t
    <3>1. t \notin D /\ r.byToken[t] # None
      BY <2>3, <2>7, <2>9
    <3>2. r.bySid[SidOf(t)] = t /\ SidOf(t) \in Sid
      BY <3>1, Basic DEF Good
    <3>3. QED
      BY <2>3, <2>7, <3>1, <3>2
  <2>10. \A t \in Token : y.byToken[t] = IF t \in T THEN None ELSE r.byToken[t]
    BY <1>1, <2>3, <2>7
  <2>11. QED
    BY <2>2, <2>6, <2>7, <2>8, <2>9, <2>10 DEF Good
<1>5. QED
  BY <1>3, <1>4

\* There is always a client that is not in use.
LEMMA ClientLeft ==
  ASSUME NEW r, Clients(r)
  PROVE  \E c \in Client : c \notin r.open
<1> SUFFICES ASSUME \A c \in Client : c \in r.open PROVE FALSE
  OBVIOUS
<1>1. IsFiniteSet(Token) /\ IsFiniteSet(Client) /\ Cardinality(Token) < Cardinality(Client)
  <2>1. Cardinality(Token) \in Nat /\ Cardinality(Client) \in Nat
    BY FS_CardinalityType, RegistryAssumption DEF RegistryAssumption
  <2>2. QED
    BY <2>1, RegistryAssumption DEF RegistryAssumption
<1>2. PICK f : f = [c \in Client |-> CHOOSE t \in Token : r.client[t] = c]
  OBVIOUS
<1>3. \A c \in Client : \E t \in Token : r.client[t] = c
  BY DEF Clients
<1>4. \A c \in Client : f[c] \in Token /\ r.client[f[c]] = c
  BY <1>2, <1>3
<1>5. f \in [Client -> Token]
  BY <1>2, <1>4
<1>6. PICK c, d \in Client : c # d /\ f[c] = f[d]
  BY <1>1, <1>5, FS_PigeonHole
<1>7. QED
  BY <1>4, <1>6

\* Another token of t's session is taken out, and with it what it had.
LEMMA ReplacedGood ==
  ASSUME Scened, NEW r, Good(r), NEW t \in Token
  PROVE  LET q == Replaced(r, t) IN
         /\ Clients(q) /\ q.bySid = r.bySid
         /\ \A u \in Token : q.client[u] # None <=> Keyed(q, u)
         /\ \A u \in Token : q.byToken[u] \in {r.byToken[u], None}
         /\ \A u \in Token \ {t} : SidOf(u) = SidOf(t) => q.byToken[u] = None
         /\ q.byToken[t] = r.byToken[t]
<1>1. PICK q : q = Replaced(r, t)
  OBVIOUS
<1>2. PICK prior : prior = r.bySid[SidOf(t)]
  OBVIOUS
<1>3. r \in RegState /\ Clients(r) /\ SidOf(t) \in Sid
  BY Basic DEF Good, Clients
<1>4. prior \in Token \cup {None}
  BY <1>2, <1>3 DEF RegState
<1>5. \A u \in Token : SidOf(u) = SidOf(t) /\ r.byToken[u] # None => u = prior
  BY <1>2 DEF Good
<1>6. CASE prior = None \/ prior = t \/ r.byToken[prior] = None
  <2>1. q = r
    BY <1>1, <1>2, <1>6 DEF Replaced, SidOf
  <2>2. \A u \in Token \ {t} : SidOf(u) = SidOf(t) => r.byToken[u] = None
    BY <1>5, <1>6, Basic
  <2>3. QED
    BY <1>1, <1>3, <2>1, <2>2 DEF Good
<1>7. CASE ~(prior = None \/ prior = t \/ r.byToken[prior] = None)
  <2>1. PICK x : x = [r EXCEPT !.byToken[prior] = None]
    OBVIOUS
  <2>2. q = Closed(x, {prior}) /\ prior \in Token /\ prior # t
    BY <1>1, <1>2, <1>4, <1>7, <2>1 DEF Replaced, SidOf
  <2>3. /\ x.byToken = [r.byToken EXCEPT ![prior] = None]
        /\ x.bySid = r.bySid /\ x.client = r.client /\ x.byKey = r.byKey
        /\ x.keyOf = r.keyOf /\ x.open = r.open
    BY <1>3, <2>1 DEF RegState
  <2>4. x \in RegState
    <3>1. x.byToken \in [Token -> Row]
      BY <1>3, <2>3 DEF RegState, Row
    <3>2. QED
      BY <1>3, <2>1, <3>1 DEF RegState
  <2>5. Clients(x)
    BY <1>3, <2>3, <2>4, SameClients
  <2>6. /\ Clients(q) /\ q.byToken = x.byToken /\ q.bySid = x.bySid
        /\ \A u \in Token : q.client[u] = IF u = prior THEN None ELSE x.client[u]
    BY <2>2, <2>5, ClosedClients
  <2>7. \A u \in Token : q.byToken[u] = IF u = prior THEN None ELSE r.byToken[u]
    BY <1>3, <2>3, <2>6 DEF RegState
  <2>8. \A u \in Token : q.client[u] # None <=> Keyed(q, u)
    BY <2>3, <2>6, <2>7 DEF Good, Keyed
  <2>9. QED
    BY <1>1, <1>5, <2>2, <2>3, <2>6, <2>7, <2>8
<1>8. QED
  BY <1>6, <1>7

\* A client is opened for t, whose session nobody else has.
LEMMA OpenedGood ==
  ASSUME Scened, NEW x, NEW t \in Token, Clients(x), Keyed(x, t),
         \A u \in Token \ {t} : x.client[u] # None <=> Keyed(x, u),
         \A u \in Token : x.byToken[u] # None => x.bySid[SidOf(u)] = u
  PROVE  Good(Opened(x, t, TRUE)) /\ Opened(x, t, TRUE).byToken = x.byToken
<1> DEFINE s == scene.sid[t]
<1>1. x \in RegState /\ s \in Sid /\ s = SidOf(t)
  BY Basic DEF Clients, SidOf
<1>2. PICK own : own = Closed(x, {t})
  OBVIOUS
<1>3. /\ Clients(own) /\ own.byToken = x.byToken /\ own.bySid = x.bySid
      /\ \A u \in Token : own.client[u] = IF u = t THEN None ELSE x.client[u]
      /\ own \in RegState
  <2>1. {t} \in SUBSET Token
    OBVIOUS
  <2>2. QED
    BY <1>2, <2>1, ClosedClients DEF Clients
<1>4. \A u \in Token \ {t} : Keyed(x, u) => SidOf(u) # s
  BY <1>1 DEF Keyed
<1>5. Rival(own, s, t) = {}
  <2> SUFFICES ASSUME NEW u \in Token \ {t}, own.client[u] # None, own.client[u] = own.byKey[s]
               PROVE  FALSE
    BY DEF Rival
  <2>1. own.keyOf[own.byKey[s]] = SidOf(u)
    BY <1>3 DEF Clients, Held
  <2>2. own.keyOf[own.byKey[s]] = s
    BY <1>1, <1>3 DEF Clients
  <2>3. Keyed(x, u)
    BY <1>3
  <2>4. QED
    BY <1>4, <2>1, <2>2, <2>3
<1>6. Cleared(x, t) = own
  BY <1>2, <1>5 DEF Cleared
<1>7. PICK c : c = CHOOSE d \in Client \ own.open : TRUE
  OBVIOUS
<1>8. c \in Client /\ c \notin own.open /\ c # None
  BY <1>3, <1>7, ClientLeft, Basic
<1>9. PICK z : z = [own EXCEPT !.client[t] = c, !.byKey[s] = c, !.keyOf[c] = s,
                               !.open = own.open \cup {c}]
  OBVIOUS
<1>10. Opened(x, t, TRUE) = z
  BY <1>6, <1>7, <1>9 DEF Opened
<1>11. /\ z.byToken = x.byToken /\ z.bySid = x.bySid /\ z.open = own.open \cup {c}
       /\ z.client = [own.client EXCEPT ![t] = c] /\ z.byKey = [own.byKey EXCEPT ![s] = c]
       /\ z.keyOf = [own.keyOf EXCEPT ![c] = s]
  BY <1>3, <1>9 DEF RegState
<1>12. z \in RegState
  <2>1. /\ z.client \in [Token -> Client \cup {None}] /\ z.byKey \in [Sid -> Client \cup {None}]
        /\ z.keyOf \in [Client -> Sid \cup {None}] /\ z.open \subseteq Client
    BY <1>1, <1>3, <1>8, <1>11 DEF RegState
  <2>2. z.byToken \in [Token -> Row] /\ z.bySid \in [Sid -> Token \cup {None}]
    BY <1>1, <1>11 DEF RegState
  <2>3. QED
    BY <1>3, <1>9, <2>1, <2>2 DEF RegState
<1>13. /\ \A u \in Token : z.client[u] = IF u = t THEN c ELSE own.client[u]
       /\ \A k \in Sid : z.byKey[k] = IF k = s THEN c ELSE own.byKey[k]
       /\ \A d \in Client : z.keyOf[d] = IF d = c THEN s ELSE own.keyOf[d]
       /\ \A u \in Token : own.client[u] # None => own.client[u] \in Client
  BY <1>1, <1>3, <1>8, <1>11 DEF RegState
<1>14. \A u \in Token \ {t} : own.client[u] # None =>
          own.client[u] \in own.open /\ own.client[u] # c /\ SidOf(u) # s /\ SidOf(u) \in Sid
  <2>1. TAKE u \in Token \ {t}
  <2>2. HAVE own.client[u] # None
  <2>3. own.client[u] \in own.open
    BY <1>3, <2>2 DEF Clients, Held
  <2>4. SidOf(u) # s
    BY <1>3, <1>4, <2>2
  <2>5. QED
    BY <1>8, <2>3, <2>4, Basic
<1>15. Held(z)
  <2> SUFFICES ASSUME NEW u \in Token, z.client[u] # None
               PROVE  /\ z.client[u] \in z.open /\ z.keyOf[z.client[u]] = SidOf(u)
                      /\ z.byKey[SidOf(u)] = z.client[u]
    BY DEF Held
  <2>1. CASE u = t
    BY <1>1, <1>8, <1>11, <1>13, <2>1
  <2>2. CASE u # t
    <3>1. own.client[u] # None /\ z.client[u] = own.client[u]
      BY <1>13, <2>2
    <3>2. own.keyOf[own.client[u]] = SidOf(u) /\ own.byKey[SidOf(u)] = own.client[u]
      BY <1>3, <3>1 DEF Clients, Held
    <3>3. QED
      BY <1>11, <1>13, <1>14, <2>2, <3>1, <3>2
  <2>3. QED
    BY <2>1, <2>2
<1>16. \A u, v \in Token : z.client[u] # None /\ z.client[u] = z.client[v] => u = v
  BY <1>3, <1>8, <1>13, <1>14 DEF Clients
<1>17. z.open = {z.client[u] : u \in Token} \ {None}
  <2>1. own.open = {own.client[u] : u \in Token} \ {None} /\ own.client[t] = None
    BY <1>3 DEF Clients
  <2>2. QED
    BY <1>8, <1>11, <1>13, <2>1
<1>18. \A k \in Sid : z.byKey[k] # None => z.keyOf[z.byKey[k]] = k
  <2>1. TAKE k \in Sid
  <2>2. HAVE z.byKey[k] # None
  <2>3. CASE k = s
    BY <1>8, <1>13, <2>3
  <2>4. CASE k # s
    <3>1. own.keyOf[own.byKey[k]] = k /\ own.byKey[k] \in Client /\ z.byKey[k] = own.byKey[k]
      BY <1>3, <1>13, <2>2, <2>4 DEF Clients, RegState
    <3>2. own.byKey[k] # c
      BY <1>3, <1>8, <3>1, Basic DEF Clients
    <3>3. QED
      BY <1>13, <3>1, <3>2
  <2>5. QED
    BY <2>3, <2>4
<1>19. \A d \in Client \ z.open : z.keyOf[d] = None
  BY <1>3, <1>11, <1>13 DEF Clients
<1>20. Clients(z)
  BY <1>12, <1>15, <1>16, <1>17, <1>18, <1>19 DEF Clients
<1>21. \A u \in Token : z.client[u] # None <=> Keyed(z, u)
  BY <1>3, <1>8, <1>11, <1>13 DEF Keyed
<1>22. QED
  BY <1>10, <1>11, <1>20, <1>21 DEF Good

\* A session is registered, in place of another of its id.
LEMMA RegisteredGood ==
  ASSUME Scened, NEW r, Good(r), NEW t \in Token, NEW e \in Entry, e.key \/ r.byToken[t] = None
  PROVE  LET z == Registered(r, t, e) IN
         /\ Good(z) /\ z.byToken[t] = e
         /\ \A u \in Token \ {t} : z.byToken[u] \in {r.byToken[u], None}
<1>1. PICK q : q = Replaced(r, t)
  OBVIOUS
<1>2. /\ Clients(q) /\ q.bySid = r.bySid /\ q \in RegState
      /\ \A u \in Token : q.client[u] # None <=> Keyed(q, u)
      /\ \A u \in Token : q.byToken[u] \in {r.byToken[u], None}
      /\ \A u \in Token \ {t} : SidOf(u) = SidOf(t) => q.byToken[u] = None
      /\ q.byToken[t] = r.byToken[t]
  BY <1>1, ReplacedGood DEF Clients
<1>3. SidOf(t) \in Sid
  BY Basic
<1>4. PICK x : x = [q EXCEPT !.byToken[t] = e, !.bySid[scene.sid[t]] = t]
  OBVIOUS
<1>5. /\ x.byToken = [q.byToken EXCEPT ![t] = e] /\ x.bySid = [q.bySid EXCEPT ![SidOf(t)] = t]
      /\ x.client = q.client /\ x.byKey = q.byKey /\ x.keyOf = q.keyOf /\ x.open = q.open
  BY <1>2, <1>4 DEF RegState, SidOf
<1>6. x \in RegState
  <2>1. x.byToken \in [Token -> Row] /\ x.bySid \in [Sid -> Token \cup {None}]
    BY <1>2, <1>3, <1>5 DEF RegState, Row
  <2>2. QED
    BY <1>2, <1>4, <2>1 DEF RegState
<1>7. Clients(x)
  BY <1>2, <1>5, <1>6, SameClients
<1>8. /\ \A u \in Token : x.byToken[u] = IF u = t THEN e ELSE q.byToken[u]
      /\ \A k \in Sid : x.bySid[k] = IF k = SidOf(t) THEN t ELSE r.bySid[k]
  BY <1>2, <1>3, <1>5 DEF RegState
<1>9. \A u \in Token \ {t} : x.client[u] # None <=> Keyed(x, u)
  BY <1>2, <1>5, <1>8 DEF Keyed
<1>10. \A u \in Token : x.byToken[u] # None => x.bySid[SidOf(u)] = u
  <2>1. TAKE u \in Token
  <2>2. HAVE x.byToken[u] # None
  <2>3. CASE u = t
    BY <1>3, <1>8, <2>3
  <2>4. CASE u # t
    <3>1. q.byToken[u] # None /\ SidOf(u) # SidOf(t) /\ r.byToken[u] # None
      BY <1>2, <1>8, <2>2, <2>4
    <3>2. r.bySid[SidOf(u)] = u /\ SidOf(u) \in Sid
      BY <3>1, Basic DEF Good
    <3>3. QED
      BY <1>8, <3>1, <3>2
  <2>5. QED
    BY <2>3, <2>4
<1>11. e # None /\ Registered(r, t, e) = Opened(x, t, e.key) /\ e.key \in BOOLEAN
  BY <1>1, <1>4, Basic DEF Registered, Entry
<1>12. CASE e.key
  <2>1. Keyed(x, t) /\ e.key = TRUE
    BY <1>8, <1>11, <1>12 DEF Keyed
  <2>2. Good(Opened(x, t, TRUE)) /\ Opened(x, t, TRUE).byToken = x.byToken
    BY <1>7, <1>9, <1>10, <2>1, OpenedGood
  <2>3. PICK z : z = Opened(x, t, TRUE)
    OBVIOUS
  <2>4. Registered(r, t, e) = z
    BY <1>11, <1>12, <2>3 DEF Opened
  <2>5. Good(z) /\ z.byToken = x.byToken
    BY <2>2, <2>3
  <2>6. z.byToken[t] = e /\ \A u \in Token \ {t} : z.byToken[u] \in {r.byToken[u], None}
    BY <1>2, <1>8, <2>5
  <2>7. QED
    BY <2>4, <2>5, <2>6
<1>13. CASE ~e.key
  <2>1. Registered(r, t, e) = x
    BY <1>11, <1>13 DEF Opened
  <2>2. q.client[t] = None
    BY <1>2, <1>13 DEF Keyed
  <2>3. \A u \in Token : x.client[u] # None <=> Keyed(x, u)
    BY <1>5, <1>8, <1>9, <1>13, <2>2 DEF Keyed
  <2>4. Good(x)
    BY <1>7, <1>10, <2>3 DEF Good
  <2>5. QED
    BY <1>2, <1>8, <2>1, <2>4
<1>14. QED
  BY <1>12, <1>13

-----------------------------------------------------------------------------
(* The invariant.                                                          *)

SweepRecord == [on : BOOLEAN, dead : SUBSET Token, info : [Token -> Row], ref : SUBSET Token,
                seen : [Token -> Row]]

RestTyped ==
  /\ scene \in Scenes /\ proc \in [Pid -> [gen : Gen, alive : BOOLEAN]]
  /\ launched \subseteq Token /\ daemon \in {"off", "boot", "serve"}
  /\ file \in [Token -> Row] /\ probe \subseteq Token \X Pid /\ sweep \in SweepRecord
  /\ rows \in [Token -> Row] /\ (daemon # "boot" => rows = Empty(Token))
  /\ live \in [Pid -> Gen \cup {None}] /\ crashes \in 0..MaxCrash

\* What is registered, or in the file, was launched.
Known == \A t \in Token : byToken[t] # None \/ file[t] # None \/ rows[t] # None => t \in launched

\* What is still to be rehydrated is in the file.
Saved == RegisteredSurvivesCrash /\ \A t \in Token : rows[t] # None => rows[t] = file[t]

\* e is of a process that its pid has, or has had.
Past(e) == e # None => e.gen <= proc[e.pid].gen
Pasts == \A t \in Token : Past(byToken[t]) /\ Past(file[t]) /\ Past(rows[t]) /\ Past(sweep.seen[t])

\* The start time a pass compares is that of the process it saw, if the pid is and while
\* that process has it.
Compared(t) ==
  LET i == sweep.info[t]
      s == sweep.seen[t]
  IN i.pid = s.pid /\ s.start \in {None, s.gen} =>
       i.start \in {None, s.gen} \/ s.gen < proc[s.pid].gen

\* What a pass under way knows.
Sweeps ==
  /\ ~sweep.on => sweep.ref = {}
  /\ \A t \in sweep.ref : byToken[t] # None /\ sweep.info[t] = byToken[t]
  /\ \A t \in sweep.dead : sweep.seen[t] # None /\ ~Living(sweep.seen[t]) /\ sweep.info[t] = None
  /\ \A t \in Token : sweep.info[t] # None => sweep.seen[t] # None /\ Compared(t)

IInv == RestTyped /\ Good(Reg) /\ Known /\ Saved /\ Pasts /\ Sweeps

\* A row that is not None is an entry.
LEMMA RowIs == ASSUME NEW e \in Row, e # None PROVE e \in Entry
BY DEF Row

\* The registry becomes what the operation makes of it.
LEMMA BecomesGood ==
  ASSUME NEW r, Good(r), Becomes(r), UNCHANGED scene
  PROVE  Good(Reg)' /\ byToken' = r.byToken
<1>1. /\ Reg'.byToken = r.byToken /\ Reg'.bySid = r.bySid /\ Reg'.client = r.client
      /\ Reg'.byKey = r.byKey /\ Reg'.keyOf = r.keyOf /\ Reg'.open = r.open
      /\ byToken' = r.byToken
  BY DEF Becomes, Reg
<1>2. r \in RegState /\ Clients(r)
  BY DEF Good, Clients
<1>3. Reg' \in RegState
  BY <1>1, <1>2 DEF RegState, Reg
<1>4. (\A t \in Token : SidOf(t)' = SidOf(t)) /\ Held(r)
  BY <1>2 DEF SidOf, Clients
<1>5. Held(Reg)'
  BY <1>1, <1>4 DEF Held
<1>6. Clients(Reg)'
  BY <1>1, <1>2, <1>3, <1>5 DEF Clients
<1>7. QED
  BY <1>1, <1>4, <1>6 DEF Good, Keyed

\* The same registry is as good as it was.
LEMMA SameGood == ASSUME Good(Reg), UNCHANGED <<registry, scene>> PROVE Good(Reg)'
BY BecomesGood DEF registry, hooked, Becomes, Reg

-----------------------------------------------------------------------------
(* The kinds of steps.                                                     *)

Rewritten == file' = IF Persisting THEN byToken' ELSE file

\* Processes get older, and one that has died does not come back.
Ages ==
  \A p \in Pid : /\ proc[p].gen <= proc'[p].gen
                 /\ proc'[p].alive /\ proc[p].gen = proc'[p].gen => proc[p].alive

\* A session is rehydrated, or those that remain to be are forgotten or read.
RowsGo == \A t \in Token : rows'[t] \in {None, rows[t], file[t]}

Enters(t, e) ==
  /\ NewEntry(t, e) /\ (e.key \/ byToken[t] = None)
  /\ Past(e) /\ t \in launched' /\ launched \subseteq launched'
  /\ daemon = "serve" \/ (daemon = "boot" /\ file[t] = e)
  /\ UNCHANGED <<scene, proc, daemon>>

Anchors(t, e) ==
  /\ byToken[t] # None /\ byToken' = [byToken EXCEPT ![t] = e]
  /\ Rewritten /\ Follows(t, e)
  /\ e.key = byToken[t].key /\ Past(e)
  /\ IF e.pid = byToken[t].pid THEN e.start \in {byToken[t].start, proc[e.pid].gen}
                               ELSE e.start = None /\ daemon = "serve"
  /\ UNCHANGED <<bySid, hooked, scene, proc, launched, daemon, rows>>

Falls(D) ==
  /\ Drops(D)
  /\ sweep' = NoSweep \/ sweep' = [sweep EXCEPT !.ref = sweep.ref \ D]
  /\ UNCHANGED <<scene, proc, launched, daemon, rows>>

Asks == AsksPs /\ UNCHANGED <<registry, file, scene, proc, launched, daemon, rows>>

Rests == UNCHANGED <<registry, file, sweep, scene, launched>>

\* An entry made of a live process is of that process.
LEMMA FreshEntry ==
  ASSUME RestTyped, NEW p \in Pid, NEW key \in BOOLEAN
  PROVE  Fresh(p, key) \in Entry /\ Fresh(p, key).key = key /\ Past(Fresh(p, key))
<1>1. proc[p].gen \in Gen /\ Gen \subseteq Nat
  BY Basic DEF RestTyped, Gen
<1>2. QED
  BY <1>1 DEF Fresh, Entry, Past

\* Reattaching moves an entry, or makes one.
LEMMA ReattachKind ==
  ASSUME IInv, NEW t \in Token, NEW p \in Pid, Reattach(t, p)
  PROVE  \E e \in Entry : Enters(t, e) \/ Anchors(t, e)
<1>1. daemon = "serve" /\ t \in launched /\ UNCHANGED <<scene, proc, launched, daemon, rows>>
  BY DEF Reattach, boot
<1>2. byToken \in [Token -> Row] /\ RestTyped
  BY DEF IInv, Good, Clients, RegState, Reg
<1>3. CASE byToken[t] # None /\ byToken[t].key
  <2>1. PICK e : e = Anchored(t, p)
    OBVIOUS
  <2>2. byToken[t] \in Entry /\ proc[p].gen \in Gen /\ Gen \subseteq Nat
    BY <1>2, <1>3, RowIs, Basic DEF RestTyped, Gen
  <2>3. /\ e \in Entry /\ e.key = byToken[t].key /\ e.pid = p /\ e.gen = proc[p].gen
        /\ e.start = IF byToken[t].pid = p THEN byToken[t].start ELSE None
    BY <2>1, <2>2 DEF Anchored, Entry
  <2>4. Moved(t, p)
    BY <1>3 DEF Reattach
  <2>5. byToken' = [byToken EXCEPT ![t] = e] /\ Rewritten /\ Follows(t, e) /\ UNCHANGED <<bySid, hooked>>
    BY <2>1, <2>4 DEF Moved, Persists, Rewritten
  <2>6. Past(e)
    <3>1. proc[p].gen \in Nat
      BY <2>2
    <3>2. QED
      BY <2>3, <3>1 DEF Past
  <2>7. Anchors(t, e)
    BY <1>1, <1>3, <2>3, <2>5, <2>6 DEF Anchors
  <2>8. QED
    BY <2>3, <2>7
<1>4. CASE ~(byToken[t] # None /\ byToken[t].key)
  <2>1. PICK e : e = Fresh(p, TRUE)
    OBVIOUS
  <2>2. NewEntry(t, e) /\ e \in Entry /\ e.key /\ Past(e)
    BY <1>2, <1>4, <2>1, FreshEntry DEF Reattach
  <2>3. QED
    BY <1>1, <2>2 DEF Enters
<1>5. QED
  BY <1>3, <1>4

\* A probe that is in time anchors its entry; another ends.
LEMMA ProbeKind ==
  ASSUME IInv, NEW t \in Token, NEW p \in Pid, ProbeEnds(t, p)
  PROVE  (\E e \in Entry : Anchors(t, e)) \/ (Rests /\ UNCHANGED <<proc, daemon, rows>>)
<1>1. UNCHANGED <<scene, proc, launched, daemon, bySid, hooked, rows>>
  BY DEF ProbeEnds, boot
<1>2. byToken \in [Token -> Row] /\ RestTyped
  BY DEF IInv, Good, Clients, RegState, Reg
<1>3. CASE proc[p].alive /\ byToken[t] # None /\ byToken[t].pid = p
  <2>1. PICK e : e = [byToken[t] EXCEPT !.start = proc[p].gen]
    OBVIOUS
  <2>2. byToken[t] \in Entry /\ proc[p].gen \in Gen /\ Past(byToken[t])
    BY <1>2, <1>3, RowIs DEF RestTyped, IInv, Pasts
  <2>3. /\ e \in Entry /\ e.key = byToken[t].key /\ e.pid = byToken[t].pid /\ e.gen = byToken[t].gen
        /\ e.start = proc[p].gen
    BY <2>1, <2>2 DEF Entry
  <2>4. byToken' = [byToken EXCEPT ![t] = e] /\ Rewritten /\ Follows(t, e)
    BY <1>3, <2>1 DEF ProbeEnds, Persists, Rewritten
  <2>5. Past(e)
    BY <1>3, <2>2, <2>3 DEF Past
  <2>6. Anchors(t, e)
    BY <1>1, <1>3, <2>3, <2>4, <2>5 DEF Anchors
  <2>7. QED
    BY <2>3, <2>6
<1>4. CASE ~(proc[p].alive /\ byToken[t] # None /\ byToken[t].pid = p)
  <2>1. UNCHANGED <<byToken, file, sweep>>
    BY <1>4 DEF ProbeEnds
  <2>2. QED
    BY <1>1, <2>1 DEF Rests, registry
<1>5. QED
  BY <1>3, <1>4

\* The reaper asks, or takes sessions out.
LEMMA ReaperKind ==
  ASSUME IInv, ReapStarts \/ ReapEnds
  PROVE  (\E D \in SUBSET Token : Falls(D)) \/ Asks
<1>1. UNCHANGED <<scene, proc, launched, daemon, rows>>
  BY DEF ReapStarts, ReapEnds, boot
<1>2. sweep \in SweepRecord
  BY DEF IInv, RestTyped
<1>3. CASE ReapStarts /\ Guarded = {}
  <2>1. Drops(Dead) /\ UNCHANGED sweep /\ sweep.ref = {} /\ Dead \in SUBSET Token
    BY <1>3 DEF ReapStarts, IInv, Sweeps, Dead
  <2>2. sweep' = [sweep EXCEPT !.ref = sweep.ref \ Dead]
    BY <1>2, <2>1 DEF SweepRecord
  <2>3. QED
    BY <1>1, <2>1, <2>2 DEF Falls
<1>4. CASE ReapStarts /\ Guarded # {}
  BY <1>1, <1>4 DEF ReapStarts, Asks
<1>5. CASE ReapEnds
  <2>1. PICK seen : Drops(sweep.dead \cup {t \in Token : Mismatched(t, seen)})
    BY <1>5 DEF ReapEnds
  <2>2. sweep.dead \cup {t \in Token : Mismatched(t, seen)} \in SUBSET Token
    BY <1>2 DEF SweepRecord
  <2>3. sweep' = NoSweep
    BY <1>5 DEF ReapEnds
  <2>4. QED
    BY <1>1, <2>1, <2>2, <2>3 DEF Falls
<1>6. QED
  BY <1>3, <1>4, <1>5


\* A launch, or a boot's rehydration, enters a session, or does nothing.
LEMMA LaunchKind ==
  ASSUME IInv, NEW t \in Token, NEW p \in Pid, NEW key \in BOOLEAN, Launch(t, p, key)
  PROVE  \E e \in Entry : Enters(t, e)
<1>1. PICK e : e = Fresh(p, key)
  OBVIOUS
<1>2. NewEntry(t, e) /\ daemon = "serve" /\ launched' = launched \cup {t}
  BY <1>1 DEF Launch
<1>3. UNCHANGED <<scene, proc, daemon>>
  BY DEF Launch
<1>4. e \in Entry /\ Past(e)
  BY <1>1, FreshEntry DEF IInv
<1>5. byToken[t] = None
  BY DEF Launch, IInv, Known
<1>6. Enters(t, e)
  BY <1>2, <1>3, <1>4, <1>5 DEF Enters
<1>7. QED
  BY <1>4, <1>6

\* A row that is rehydrated is the one in the file.
LEMMA RehydrateKind ==
  ASSUME IInv, NEW t \in Token, Rehydrate(t)
  PROVE  (\E e \in Entry : Enters(t, e)) \/ Rests
<1>1. UNCHANGED <<scene, proc, launched, daemon>>
  BY DEF Rehydrate
<1>2. CASE Revivable(t)
  <2>1. PICK e : e = rows[t]
    OBVIOUS
  <2>2. e # None /\ daemon = "boot" /\ NewEntry(t, e) /\ e.key
    BY <1>2, <2>1 DEF Rehydrate, Revivable
  <2>3. e \in Entry
    BY <2>1, <2>2, RowIs DEF IInv, RestTyped
  <2>4. Past(e) /\ file[t] = e /\ t \in launched
    BY <2>1, <2>2 DEF IInv, Pasts, Saved, Known
  <2>5. Enters(t, e)
    BY <1>1, <2>2, <2>4 DEF Enters
  <2>6. QED
    BY <2>3, <2>5
<1>3. CASE ~Revivable(t)
  BY <1>1, <1>3 DEF Rehydrate, Rests
<1>4. QED
  BY <1>2, <1>3

Changes ==
  \/ \E t \in Token, e \in Entry : Enters(t, e) \/ Anchors(t, e)
  \/ \E D \in SUBSET Token : Falls(D)
  \/ Asks \/ Rests \/ Crash

\* What the kinds of steps leave open.
Bookkeeps ==
  /\ scene' = scene /\ proc' \in [Pid -> [gen : Gen, alive : BOOLEAN]]
  /\ launched \subseteq launched' /\ launched' \subseteq Token
  /\ daemon' \in {"off", "boot", "serve"} /\ (daemon' # "boot" => rows' = Empty(Token))
  /\ probe' \subseteq Token \X Pid /\ live' \in [Pid -> Gen \cup {None}]
  /\ crashes' \in 0..MaxCrash /\ rows' \in [Token -> Row]

\* Rows are only read by Start and only forgotten one by one or by a crash.
LEMMA RowsKept == ASSUME UNCHANGED rows PROVE RowsGo
BY DEF RowsGo

\* Processes do not change but in their own steps.
LEMMA AgeKept == ASSUME RestTyped, UNCHANGED proc PROVE Ages
<1>1. Gen \subseteq Nat
  BY Basic DEF Gen
<1>2. \A p \in Pid : proc[p].gen \in Nat
  BY <1>1 DEF RestTyped
<1>3. QED
  BY <1>2 DEF Ages

\* A new entry's probe is one of its token and its pid.
LEMMA ProbeTyped ==
  ASSUME RestTyped, NEW t \in Token, NEW e \in Entry, NewEntry(t, e)
  PROVE  probe' \subseteq Token \X Pid
BY DEF NewEntry, RestTyped, Entry

\* Every step that a process takes is one of these kinds.
LEMMA ProcessKinds ==
  ASSUME IInv, NEW p \in Pid, Die(p) \/ Reuse(p)
  PROVE  Rests /\ Ages /\ RowsGo /\ Bookkeeps
<1>1. UNCHANGED <<scene, launched, daemon, registry, file, probe, sweep, boot, crashes>>
  BY DEF Die, Reuse
<1>2. UNCHANGED <<rows, live>> /\ Rests /\ RowsGo
  BY <1>1, RowsKept DEF boot, Rests
<1>3. RestTyped /\ Scened
  BY DEF IInv, RestTyped, Scened
<1>4. /\ proc' \in [Pid -> [gen : Gen, alive : BOOLEAN]]
      /\ proc[p].gen <= proc'[p].gen
      /\ proc'[p].alive /\ proc[p].gen = proc'[p].gen => proc[p].alive
      /\ \A q \in Pid \ {p} : proc'[q] = proc[q]
  <2>1. proc \in [Pid -> [gen : Gen, alive : BOOLEAN]] /\ MaxGen \in Nat /\ proc[p].gen \in 1..MaxGen
    BY <1>3, Basic DEF RestTyped, Gen
  <2>2. CASE Die(p)
    <3>1. proc' = [proc EXCEPT ![p].alive = FALSE]
      BY <2>2 DEF Die
    <3>2. proc'[p] = [gen |-> proc[p].gen, alive |-> FALSE] /\ \A q \in Pid \ {p} : proc'[q] = proc[q]
      BY <2>1, <3>1
    <3>3. proc' \in [Pid -> [gen : Gen, alive : BOOLEAN]]
      BY <2>1, <3>1
    <3>4. QED
      BY <2>1, <3>2, <3>3
  <2>3. CASE Reuse(p)
    <3>1. proc' = [proc EXCEPT ![p] = [gen |-> proc[p].gen + 1, alive |-> TRUE]]
      BY <2>3 DEF Reuse
    <3>2. scene.gens \in 1..MaxGen /\ proc[p].gen < scene.gens
      BY <1>3, <2>3, RegistryAssumption DEF Reuse, Scened, Scene, RegistryAssumption
    <3>3. proc[p].gen + 1 \in Gen
      BY <2>1, <3>2 DEF Gen
    <3>4. proc'[p] = [gen |-> proc[p].gen + 1, alive |-> TRUE] /\ \A q \in Pid \ {p} : proc'[q] = proc[q]
      BY <2>1, <3>1
    <3>5. proc' \in [Pid -> [gen : Gen, alive : BOOLEAN]]
      BY <2>1, <3>1, <3>3
    <3>6. QED
      BY <2>1, <3>4, <3>5
  <2>4. QED
    BY <2>2, <2>3
<1>5. \A q \in Pid : proc[q].gen \in Nat
  BY <1>3, Basic DEF RestTyped, Gen
<1>6. Ages
  BY <1>4, <1>5 DEF Ages
<1>7. Bookkeeps
  BY <1>1, <1>2, <1>3, <1>4 DEF Bookkeeps, RestTyped
<1>8. QED
  BY <1>2, <1>6, <1>7

\* Every other step of a token.
LEMMA TokenKinds ==
  ASSUME IInv, NEW t \in Token, NEW p \in Pid,
         (\E key \in BOOLEAN : Launch(t, p, key)) \/ Reattach(t, p) \/ ProbeEnds(t, p)
           \/ Delete(t)
  PROVE  Changes /\ Ages /\ RowsGo /\ Bookkeeps
<1>1. UNCHANGED <<scene, proc, daemon, boot, crashes>>
  BY DEF Launch, Reattach, ProbeEnds, Delete
<1>2. UNCHANGED <<rows, live>> /\ RestTyped /\ Ages /\ RowsGo
  BY <1>1, AgeKept, RowsKept DEF boot, IInv
<1>3. Changes
  <2>1. ASSUME NEW key \in BOOLEAN, Launch(t, p, key) PROVE Changes
    BY <2>1, LaunchKind DEF Changes
  <2>2. CASE Reattach(t, p)
    BY <2>2, ReattachKind DEF Changes
  <2>3. CASE ProbeEnds(t, p)
    BY <2>3, ProbeKind DEF Changes
  <2>4. CASE Delete(t)
    <3>1. PICK D : D = {t}
      OBVIOUS
    <3>2. Drops(D) /\ sweep' = [sweep EXCEPT !.ref = sweep.ref \ D] /\ UNCHANGED launched
      BY <2>4, <3>1 DEF Delete, Drops, Loses
    <3>3. Falls(D) /\ D \in SUBSET Token
      BY <1>1, <1>2, <3>1, <3>2 DEF Falls
    <3>4. QED
      BY <3>3 DEF Changes
  <2>5. QED
    BY <2>1, <2>2, <2>3, <2>4
<1>4. probe' \subseteq Token \X Pid
  <2>1. \A q \in Pid, k \in BOOLEAN : Fresh(q, k) \in Entry
    BY <1>2, FreshEntry
  <2>2. ASSUME NEW key \in BOOLEAN, Launch(t, p, key) PROVE probe' \subseteq Token \X Pid
    <3>1. PICK e : e = Fresh(p, key)
      OBVIOUS
    <3>2. QED
      BY <1>2, <2>1, <2>2, <3>1, ProbeTyped DEF Launch
  <2>3. CASE Reattach(t, p)
    <3>1. CASE Moved(t, p)
      BY <1>2, <3>1 DEF Moved, RestTyped
    <3>2. CASE NewEntry(t, Fresh(p, TRUE))
      <4>1. PICK e : e = Fresh(p, TRUE)
        OBVIOUS
      <4>2. QED
        BY <1>2, <2>1, <3>2, <4>1, ProbeTyped
    <3>3. QED
      BY <2>3, <3>1, <3>2 DEF Reattach
  <2>4. CASE ProbeEnds(t, p) \/ Delete(t)
    BY <1>2, <2>4 DEF ProbeEnds, Delete, RestTyped
  <2>5. QED
    BY <2>2, <2>3, <2>4
<1>5. launched \subseteq launched' /\ launched' \subseteq Token
  BY <1>2 DEF Launch, Reattach, ProbeEnds, Delete, RestTyped
<1>6. Bookkeeps
  BY <1>1, <1>2, <1>4, <1>5 DEF Bookkeeps, RestTyped
<1>7. QED
  BY <1>2, <1>3, <1>6

\* The reaper's steps and the boot's.
LEMMA DaemonKinds ==
  ASSUME IInv, (\E t \in Token : Rehydrate(t)) \/ ReapStarts \/ ReapEnds \/ Start \/ Serve \/ Crash
  PROVE  Changes /\ Ages /\ RowsGo /\ Bookkeeps
<1>1. RestTyped
  BY DEF IInv
<1>2. UNCHANGED <<scene, proc, launched>> /\ Ages
  BY <1>1, AgeKept DEF Rehydrate, ReapStarts, ReapEnds, Start, Serve, Crash
<1>3. ASSUME NEW t \in Token, Rehydrate(t)
      PROVE  Changes /\ RowsGo /\ Bookkeeps
  <2>1. Changes
    BY <1>3, RehydrateKind DEF Changes
  <2>2. daemon = "boot" /\ UNCHANGED <<daemon, live, crashes>> /\ rows' = [rows EXCEPT ![t] = None]
    BY <1>3 DEF Rehydrate
  <2>3. RowsGo
    BY <1>1, <2>2 DEF RowsGo, RestTyped
  <2>4. probe' \subseteq Token \X Pid
    <3>1. CASE NewEntry(t, rows[t])
      <4>1. PICK e : e = rows[t]
        OBVIOUS
      <4>2. e \in Entry
        BY <1>1, <1>3, <4>1, RowIs DEF Rehydrate, RestTyped
      <4>3. QED
        BY <1>1, <3>1, <4>1, <4>2, ProbeTyped
    <3>2. CASE UNCHANGED probe
      BY <1>1, <3>2 DEF RestTyped
    <3>3. QED
      BY <1>3, <3>1, <3>2 DEF Rehydrate
  <2>5. Bookkeeps
    BY <1>1, <1>2, <2>2, <2>4 DEF Bookkeeps, RestTyped, Row
  <2>6. QED
    BY <2>1, <2>3, <2>5
<1>4. CASE ReapStarts \/ ReapEnds
  <2>1. UNCHANGED <<daemon, probe, rows, live, crashes>> /\ RowsGo
    BY <1>4, RowsKept DEF ReapStarts, ReapEnds, boot
  <2>2. Changes
    BY <1>4, ReaperKind DEF Changes
  <2>3. QED
    BY <1>1, <1>2, <2>1, <2>2 DEF Bookkeeps, RestTyped
<1>5. CASE Start
  <2>1. UNCHANGED <<registry, file, sweep, probe, crashes>> /\ daemon' = "boot" /\ rows' = file
    BY <1>5 DEF Start
  <2>2. live' \in [Pid -> Gen \cup {None}]
    BY <1>1, <1>5 DEF Start, RestTyped
  <2>3. Rests /\ RowsGo /\ Bookkeeps
    BY <1>1, <1>2, <2>1, <2>2 DEF Rests, RowsGo, Bookkeeps, RestTyped
  <2>4. QED
    BY <1>2, <2>3 DEF Changes
<1>6. CASE Serve
  <2>1. UNCHANGED <<registry, file, sweep, probe, rows, live, crashes>> /\ daemon' = "serve"
        /\ rows = Empty(Token)
    BY <1>6 DEF Serve, boot
  <2>2. Rests /\ RowsGo /\ Bookkeeps
    BY <1>1, <1>2, <2>1 DEF Rests, RowsGo, Bookkeeps, RestTyped
  <2>3. QED
    BY <1>2, <2>2 DEF Changes
<1>7. CASE Crash
  <2>1. /\ rows' = Empty(Token) /\ live' = Empty(Pid) /\ probe' = {} /\ daemon' = "off"
        /\ crashes < scene.crashes /\ crashes' = crashes + 1
    BY <1>7 DEF Crash
  <2>2. scene.crashes \in 0..MaxCrash
    BY <1>1, RegistryAssumption DEF RestTyped, Scene, RegistryAssumption
  <2>3. crashes' \in 0..MaxCrash
    BY <1>1, <2>1, <2>2, Basic DEF RestTyped
  <2>4. RowsGo /\ live' \in [Pid -> Gen \cup {None}]
    BY <2>1 DEF RowsGo, Empty
  <2>5. Bookkeeps
    BY <1>1, <1>2, <2>1, <2>3, <2>4 DEF Bookkeeps, RestTyped, Row, Empty
  <2>6. QED
    BY <1>2, <1>7, <2>4, <2>5 DEF Changes
<1>8. QED
  BY <1>2, <1>3, <1>4, <1>5, <1>6, <1>7

\* Every step is of a kind.
LEMMA StepKinds ==
  ASSUME IInv, [Next]_vars
  PROVE  Changes /\ Ages /\ RowsGo /\ Bookkeeps
<1>1. CASE UNCHANGED vars
  <2>1. /\ RestTyped
        /\ UNCHANGED <<scene, proc, launched, daemon, registry, file, probe, sweep, boot, crashes>>
    BY <1>1 DEF IInv, vars
  <2>2. UNCHANGED <<rows, live>> /\ Ages /\ RowsGo /\ Rests
    BY <2>1, AgeKept, RowsKept DEF boot, Rests
  <2>3. Bookkeeps
    BY <2>1, <2>2 DEF Bookkeeps, RestTyped
  <2>4. QED
    BY <2>2, <2>3 DEF Changes
<1>2. ASSUME NEW p \in Pid, Die(p) \/ Reuse(p)
      PROVE  Changes /\ Ages /\ RowsGo /\ Bookkeeps
  BY <1>2, ProcessKinds DEF Changes
<1>3. ASSUME NEW t \in Token, NEW p \in Pid,
             (\E key \in BOOLEAN : Launch(t, p, key)) \/ Reattach(t, p) \/ ProbeEnds(t, p)
      PROVE  Changes /\ Ages /\ RowsGo /\ Bookkeeps
  BY <1>3, TokenKinds
<1>4. ASSUME NEW t \in Token, Delete(t)
      PROVE  Changes /\ Ages /\ RowsGo /\ Bookkeeps
  <2>1. byToken[t] # None /\ byToken[t] \in Row
    BY <1>4 DEF Delete, IInv, Good, Clients, RegState, Reg
  <2>2. PICK p \in Pid : p = byToken[t].pid
    BY <2>1, RowIs DEF Entry
  <2>3. QED
    BY <1>4, TokenKinds
<1>5. CASE (\E t \in Token : Rehydrate(t)) \/ ReapStarts \/ ReapEnds \/ Start \/ Serve \/ Crash
  BY <1>5, DaemonKinds
<1>6. QED
  BY <1>1, <1>2, <1>3, <1>4, <1>5 DEF Next


-----------------------------------------------------------------------------
(* What each kind of step does.                                            *)

\* The invariant gives the registry's maps their types.
LEMMA RegTyped ==
  ASSUME IInv
  PROVE  Reg \in RegState /\ Good(Reg) /\ byToken \in [Token -> Row] /\ Scened /\ RestTyped
BY DEF IInv, Good, Clients, RegState, Reg, Scened, RestTyped

\* Passes under way leave alone what changed under them.
Spared ==
  \E L \in SUBSET Token :
    /\ sweep' = [sweep EXCEPT !.ref = sweep.ref \ L]
    /\ \A u \in Token \ L : byToken'[u] = byToken[u]

\* Entering a session makes its entry the given one, and may take out another.
LEMMA EntersDoes ==
  ASSUME IInv, NEW t \in Token, NEW e \in Entry, Enters(t, e)
  PROVE  /\ Good(Reg)' /\ byToken' \in [Token -> Row] /\ Rewritten /\ Spared
         /\ byToken'[t] = e /\ \A u \in Token \ {t} : byToken'[u] \in {byToken[u], None}
<1>1. PICK r \in {Registered(Reg, t, e)} :
        /\ Becomes(r) /\ Persists(r.byToken)
        /\ Loses({u \in Token : r.byToken[u] # byToken[u]} \cup {t})
  BY DEF Enters, NewEntry
<1>2. Reg.byToken = byToken
  BY DEF Reg
<1>3. /\ Good(r) /\ r.byToken[t] = e
      /\ \A u \in Token \ {t} : r.byToken[u] \in {byToken[u], None}
  BY <1>1, <1>2, RegTyped, RegisteredGood DEF Enters
<1>4. Good(Reg)' /\ byToken' = r.byToken
  BY <1>1, <1>3, BecomesGood DEF Enters
<1>5. byToken' \in [Token -> Row]
  BY <1>3, <1>4 DEF Good, Clients, RegState
<1>6. Rewritten
  BY <1>1, <1>4 DEF Rewritten, Persists
<1>7. PICK L : L = {u \in Token : r.byToken[u] # byToken[u]} \cup {t}
  OBVIOUS
<1>8. Spared
  <2>1. L \in SUBSET Token /\ \A u \in Token \ L : byToken'[u] = byToken[u]
    BY <1>4, <1>7
  <2>2. sweep' = [sweep EXCEPT !.ref = sweep.ref \ L]
    BY <1>1, <1>7 DEF Loses
  <2>3. QED
    BY <2>1, <2>2 DEF Spared
<1>9. QED
  BY <1>3, <1>4, <1>5, <1>6, <1>8

\* Moving an anchor changes one entry, and not its key.
LEMMA AnchorsDoes ==
  ASSUME IInv, NEW t \in Token, NEW e \in Entry, Anchors(t, e)
  PROVE  /\ Good(Reg)' /\ byToken' \in [Token -> Row]
         /\ byToken'[t] = e /\ \A u \in Token \ {t} : byToken'[u] = byToken[u]
<1>1. byToken' = [byToken EXCEPT ![t] = e] /\ UNCHANGED <<bySid, hooked, scene>>
      /\ byToken[t] # None /\ e.key = byToken[t].key
  BY DEF Anchors
<1>2. byToken' \in [Token -> Row] /\ byToken'[t] = e /\ \A u \in Token \ {t} : byToken'[u] = byToken[u]
  BY <1>1, RegTyped DEF Row
<1>3. PICK r : r = [Reg EXCEPT !.byToken = byToken']
  OBVIOUS
<1>4. /\ r.byToken = byToken' /\ r.bySid = bySid /\ r.client = client /\ r.byKey = byKey
      /\ r.keyOf = keyOf /\ r.open = open /\ r \in RegState
  BY <1>2, <1>3, RegTyped DEF Reg, RegState
<1>5. Good(Reg) /\ Clients(Reg) /\ e # None
  BY RegTyped, Basic DEF Good
<1>6. Clients(r)
  BY <1>4, <1>5, SameClients DEF Reg
<1>7. \A u \in Token : (byToken'[u] # None <=> byToken[u] # None) /\ (Keyed(r, u) <=> Keyed(Reg, u))
  <2>1. TAKE u \in Token
  <2>2. CASE u = t
    <3>1. byToken'[u] = e /\ Keyed(Reg, u) = (byToken[t] # None /\ byToken[t].key)
      BY <1>2, <2>2 DEF Keyed, Reg
    <3>2. Keyed(r, u) = (e # None /\ e.key)
      BY <1>4, <3>1 DEF Keyed
    <3>3. QED
      BY <1>1, <1>5, <2>2, <3>1, <3>2
  <2>3. CASE u # t
    BY <1>2, <1>4, <2>3 DEF Keyed, Reg
  <2>4. QED
    BY <2>2, <2>3
<1>8. Good(r)
  <2>1. \A u \in Token : r.client[u] # None <=> Keyed(r, u)
    BY <1>4, <1>5, <1>7 DEF Good, Reg
  <2>2. \A u \in Token : r.byToken[u] # None => r.bySid[SidOf(u)] = u
    BY <1>4, <1>5, <1>7 DEF Good, Reg
  <2>3. QED
    BY <1>6, <2>1, <2>2 DEF Good
<1>9. Becomes(r)
  BY <1>1, <1>4 DEF Becomes, hooked
<1>10. QED
  BY <1>1, <1>2, <1>8, <1>9, BecomesGood

\* Dropping sessions takes out those and no others.
LEMMA DropsDoes ==
  ASSUME IInv, NEW D \in SUBSET Token, Drops(D), UNCHANGED scene
  PROVE  /\ Good(Reg)' /\ byToken' \in [Token -> Row] /\ Rewritten
         /\ \A u \in Token : byToken'[u] = IF u \in D THEN None ELSE byToken[u]
<1>1. PICK r \in {Deregistered(D, Reg)} : Becomes(r) /\ Persists(r.byToken)
  BY DEF Drops
<1>2. Reg.byToken = byToken
  BY DEF Reg
<1>3. Good(r) /\ \A u \in Token : r.byToken[u] = IF u \in D THEN None ELSE byToken[u]
  BY <1>1, <1>2, RegTyped, DeregisteredGood
<1>4. Good(Reg)' /\ byToken' = r.byToken
  BY <1>1, <1>3, BecomesGood
<1>5. byToken' \in [Token -> Row]
  BY <1>3, <1>4 DEF Good, Clients, RegState
<1>6. QED
  BY <1>1, <1>3, <1>4, <1>5 DEF Rewritten, Persists

Nothing == [byToken |-> Empty(Token), bySid |-> Empty(Sid), client |-> Empty(Token),
            byKey |-> Empty(Sid), keyOf |-> Empty(Client), open |-> {}]

\* An empty registry is a good one.
LEMMA NothingGood == Good(Nothing)
BY DEF Good, Clients, Held, Keyed, RegState, Row, Nothing, Empty

\* A crash leaves an empty registry.
LEMMA CrashDoes ==
  ASSUME IInv, Crash
  PROVE  Good(Reg)' /\ byToken' = Empty(Token) /\ sweep' = NoSweep /\ UNCHANGED file
<1>1. Becomes(Nothing) /\ UNCHANGED scene
  BY DEF Crash, Becomes, Nothing
<1>2. QED
  BY <1>1, NothingGood, BecomesGood DEF Crash

-----------------------------------------------------------------------------
(* The invariant is kept.                                                  *)

\* The registry stays good.
LEMMA GoodStep == ASSUME IInv, Changes PROVE Good(Reg)' /\ byToken' \in [Token -> Row]
<1>1. CASE Rests
  <2>1. UNCHANGED <<byToken, bySid, client, byKey, keyOf, open, scene>>
    BY <1>1 DEF Rests, registry, hooked
  <2>2. QED
    BY <2>1, RegTyped, SameGood DEF registry, hooked
<1>2. CASE Asks
  <2>1. UNCHANGED <<byToken, bySid, client, byKey, keyOf, open, scene>>
    BY <1>2 DEF Asks, registry, hooked
  <2>2. QED
    BY <2>1, RegTyped, SameGood DEF registry, hooked
<1>3. CASE Crash
  BY <1>3, CrashDoes DEF Empty, Row
<1>4. ASSUME NEW D \in SUBSET Token, Falls(D) PROVE Good(Reg)' /\ byToken' \in [Token -> Row]
  BY <1>4, DropsDoes DEF Falls
<1>5. QED
  BY <1>1, <1>2, <1>3, <1>4, EntersDoes, AnchorsDoes DEF Changes

\* What is saved is what is registered, or what was saved before.
LEMMA FileStep ==
  ASSUME IInv, Changes
  PROVE  /\ file' \in [Token -> Row]
         /\ \A t \in Token : file'[t] \in {file[t], byToken'[t]}
         /\ Rewritten \/ UNCHANGED file
<1>1. Rewritten \/ UNCHANGED file
  <2>1. ASSUME NEW D \in SUBSET Token, Falls(D) PROVE Rewritten
    BY <2>1, DropsDoes DEF Falls
  <2>2. QED
    BY <2>1, EntersDoes, CrashDoes DEF Changes, Anchors, Asks, Rests
<1>2. byToken' \in [Token -> Row] /\ file \in [Token -> Row]
  BY GoodStep, RegTyped DEF RestTyped
<1>3. QED
  BY <1>1, <1>2 DEF Rewritten

\* What a pass that begins saw.
LEMMA AsksTyped ==
  ASSUME IInv, AsksPs
  PROVE  /\ sweep' \in SweepRecord /\ sweep'.on /\ sweep'.dead = Dead /\ sweep'.ref = Guarded
         /\ \A t \in Token : sweep'.info[t] = IF t \in Guarded THEN byToken[t] ELSE None
         /\ \A t \in Token : sweep'.seen[t] = IF t \in Dead \cup Guarded THEN byToken[t] ELSE None
<1>1. byToken \in [Token -> Row] /\ None \in Row /\ Dead \subseteq Token /\ Guarded \subseteq Token
  BY RegTyped DEF Row, Dead, Guarded
<1>2. QED
  BY <1>1 DEF AsksPs, SweepRecord

\* How a pass under way changes.
LEMMA SweepStep ==
  ASSUME IInv, Changes
  PROVE  /\ sweep' \in SweepRecord
         /\ \/ UNCHANGED sweep
            \/ sweep' = NoSweep
            \/ AsksPs /\ UNCHANGED <<byToken, proc>>
            \/ Spared
            \/ \E t \in Token, e \in Entry : Anchors(t, e)
<1>1. sweep \in SweepRecord
  BY RegTyped DEF RestTyped
<1>2. NoSweep \in SweepRecord
  BY DEF NoSweep, SweepRecord, Row
<1>3. Spared => sweep' \in SweepRecord
  <2> SUFFICES ASSUME NEW L \in SUBSET Token, sweep' = [sweep EXCEPT !.ref = sweep.ref \ L]
               PROVE  sweep' \in SweepRecord
    BY DEF Spared
  <2>1. QED
    BY <1>1 DEF SweepRecord
<1>4. ASSUME NEW t \in Token, NEW e \in Entry, Anchors(t, e)
      PROVE  sweep' \in SweepRecord
  <2>1. Follows(t, e) /\ e \in Row
    BY <1>4 DEF Anchors, Row
  <2>2. QED
    BY <1>1, <2>1 DEF Follows, SweepRecord
<1>5. ASSUME NEW D \in SUBSET Token, Falls(D)
      PROVE  sweep' = NoSweep \/ Spared
  <2>1. \A u \in Token \ D : byToken'[u] = byToken[u]
    BY <1>5, DropsDoes DEF Falls
  <2>2. QED
    BY <1>5, <2>1 DEF Falls, Spared
<1>6. Asks => AsksPs /\ UNCHANGED <<byToken, proc>>
  BY DEF Asks, registry
<1>7. Rests => UNCHANGED sweep
  BY DEF Rests
<1>8. QED
  BY <1>1, <1>2, <1>3, <1>4, <1>5, <1>6, <1>7, EntersDoes, CrashDoes, AsksTyped DEF Changes

\* The rest keeps its types.
LEMMA RestStep == ASSUME IInv, Changes, Bookkeeps PROVE RestTyped'
<1>1. file' \in [Token -> Row] /\ sweep' \in SweepRecord
  BY FileStep, SweepStep
<1>2. rows' \in [Token -> Row]
  BY DEF Bookkeeps
<1>3. scene' \in Scenes
  BY RegTyped DEF Bookkeeps, RestTyped
<1>4. QED
  BY <1>1, <1>2, <1>3 DEF Bookkeeps, RestTyped


\* Who is registered, or saved, was launched.
LEMMA KnownStep == ASSUME IInv, Changes, RowsGo, Bookkeeps PROVE Known'
<1>1. Known /\ launched \subseteq launched'
  BY DEF IInv, Bookkeeps
<1>2. ASSUME NEW t \in Token, byToken'[t] # None PROVE t \in launched'
  <2>1. ASSUME NEW u \in Token, NEW e \in Entry, Enters(u, e) PROVE t \in launched'
    BY <1>1, <1>2, <2>1, EntersDoes DEF Enters, Known
  <2>2. ASSUME NEW u \in Token, NEW e \in Entry, Anchors(u, e) PROVE t \in launched'
    BY <1>1, <1>2, <2>2, AnchorsDoes DEF Anchors, Known
  <2>3. ASSUME NEW D \in SUBSET Token, Falls(D) PROVE t \in launched'
    BY <1>1, <1>2, <2>3, DropsDoes DEF Falls, Known
  <2>4. Asks \/ Rests => byToken' = byToken
    BY DEF Asks, Rests, registry
  <2>5. Crash => byToken'[t] = None
    BY CrashDoes DEF Empty
  <2>6. QED
    BY <1>1, <1>2, <2>1, <2>2, <2>3, <2>4, <2>5 DEF Changes, Known
<1>3. QED
  BY <1>1, <1>2, FileStep DEF Known, RowsGo

\* The file has every session that is registered, under its pid, and every one that is
\* still to be rehydrated.
LEMMA SavedStep == ASSUME IInv, Changes, RowsGo, Bookkeeps PROVE Saved'
<1>1. Saved /\ RestTyped /\ (daemon # "boot" => rows = Empty(Token))
  BY RegTyped DEF IInv, RestTyped
<1>2. CASE Persisting /\ daemon' = daemon /\ Rewritten
  <2>1. file' = byToken' /\ rows' = Empty(Token)
    BY <1>2 DEF Persisting, Rewritten, Bookkeeps
  <2>2. QED
    BY <2>1 DEF Saved, RegisteredSurvivesCrash, Empty
<1>3. CASE file' = file
  <2>1. ASSUME NEW t \in Token, byToken'[t] # None
        PROVE  file'[t] # None /\ file'[t].pid = byToken'[t].pid
    <3>1. CASE byToken'[t] = byToken[t]
      BY <1>1, <1>3, <2>1, <3>1 DEF Saved, RegisteredSurvivesCrash
    <3>2. CASE byToken'[t] # byToken[t] /\ Persisting /\ Rewritten
      BY <1>3, <2>1, <3>2 DEF Rewritten
    <3>3. ASSUME NEW u \in Token, NEW e \in Entry, Enters(u, e), byToken'[t] # byToken[t]
          PROVE  file'[t] # None /\ file'[t].pid = byToken'[t].pid
      <4>1. t = u /\ byToken'[t] = e /\ Rewritten
        BY <2>1, <3>3, EntersDoes
      <4>2. daemon = "serve" \/ file[t] = e
        BY <3>3, <4>1 DEF Enters
      <4>3. QED
        BY <1>3, <2>1, <3>2, <3>3, <4>1, <4>2 DEF Persisting
    <3>4. ASSUME NEW u \in Token, NEW e \in Entry, Anchors(u, e), byToken'[t] # byToken[t]
          PROVE  file'[t] # None /\ file'[t].pid = byToken'[t].pid
      <4>1. t = u /\ byToken'[t] = e /\ Rewritten
        BY <3>4, AnchorsDoes DEF Anchors
      <4>2. daemon = "serve" \/ e.pid = byToken[t].pid
        BY <3>4, <4>1 DEF Anchors
      <4>3. byToken[t] # None
        BY <3>4, <4>1 DEF Anchors
      <4>4. QED
        BY <1>1, <1>3, <3>2, <3>4, <4>1, <4>2, <4>3
           DEF Persisting, Saved, RegisteredSurvivesCrash
    <3>5. ASSUME NEW D \in SUBSET Token, Falls(D) PROVE byToken'[t] = byToken[t]
      BY <2>1, <3>5, DropsDoes DEF Falls
    <3>6. Asks \/ Rests => byToken'[t] = byToken[t]
      BY DEF Asks, Rests, registry
    <3>7. ~Crash
      BY <2>1, CrashDoes DEF Empty
    <3>8. QED
      BY <3>1, <3>3, <3>4, <3>5, <3>6, <3>7 DEF Changes
  <2>2. \A t \in Token : rows'[t] # None => rows'[t] = file'[t]
    BY <1>1, <1>3 DEF Saved, RowsGo
  <2>3. QED
    BY <2>1, <2>2 DEF Saved, RegisteredSurvivesCrash
<1>4. (Persisting /\ daemon' = daemon /\ Rewritten) \/ file' = file
  <2>1. ASSUME NEW u \in Token, NEW e \in Entry, Enters(u, e) \/ Anchors(u, e)
        PROVE  daemon' = daemon /\ Rewritten
    BY <2>1, EntersDoes DEF Enters, Anchors
  <2>2. ASSUME NEW D \in SUBSET Token, Falls(D) PROVE daemon' = daemon /\ Rewritten
    BY <2>2, DropsDoes DEF Falls
  <2>3. Asks \/ Rests \/ Crash => file' = file
    BY DEF Asks, Rests, Crash
  <2>4. QED
    BY <2>1, <2>2, <2>3 DEF Changes, Rewritten
<1>5. QED
  BY <1>2, <1>3, <1>4

\* Time only takes a process further into the past.
LEMMA PastAges ==
  ASSUME RestTyped, Ages, Bookkeeps, NEW e \in Row, Past(e)
  PROVE  Past(e)' /\ (e # None /\ ~Living(e) => ~Living(e)')
<1>1. CASE e = None
  BY <1>1 DEF Past
<1>2. CASE e # None
  <2>1. e.pid \in Pid /\ e.gen \in Gen
    BY <1>2, RowIs DEF Entry
  <2>2. proc[e.pid].gen \in Nat /\ proc'[e.pid].gen \in Nat /\ e.gen \in Nat
    BY <2>1, Basic DEF RestTyped, Bookkeeps, Gen
  <2>3. e.gen <= proc[e.pid].gen /\ proc[e.pid].gen <= proc'[e.pid].gen
    BY <1>2, <2>1 DEF Past, Ages
  <2>4. Past(e)'
    BY <2>2, <2>3 DEF Past
  <2>5. ASSUME Living(e)' PROVE Living(e)
    <3>1. proc'[e.pid].alive /\ proc'[e.pid].gen = e.gen
      BY <2>5 DEF Living
    <3>2. proc[e.pid].gen = e.gen /\ proc[e.pid].gen = proc'[e.pid].gen
      BY <2>2, <2>3, <3>1
    <3>3. proc[e.pid].alive
      BY <2>1, <3>1, <3>2 DEF Ages
    <3>4. QED
      BY <3>2, <3>3 DEF Living
  <2>6. QED
    BY <2>4, <2>5
<1>3. QED
  BY <1>1, <1>2

\* The entries of every map are of processes that are or were.
LEMMA PastsStep == ASSUME IInv, Changes, Ages, RowsGo, Bookkeeps PROVE Pasts'
<1>1. RestTyped /\ Pasts /\ byToken \in [Token -> Row] /\ file \in [Token -> Row]
      /\ rows \in [Token -> Row] /\ sweep.seen \in [Token -> Row]
  BY RegTyped DEF IInv, RestTyped, SweepRecord
<1>2. ASSUME NEW t \in Token
      PROVE  Past(byToken[t])'
  <2>1. PICK e \in Row : e = byToken[t]
    BY <1>1
  <2>2. Past(e)' /\ Past(None)'
    BY <1>1, <2>1, PastAges DEF Pasts, Past
  <2>3. ASSUME NEW u \in Token, NEW d \in Entry, Enters(u, d) PROVE Past(byToken[t])'
    <3>1. Past(d)
      BY <2>3 DEF Enters
    <3>2. Past(d)'
      BY <1>1, <3>1, PastAges DEF Row
    <3>3. byToken'[t] \in {d, e, None}
      BY <2>1, <2>3, EntersDoes
    <3>4. QED
      BY <2>2, <3>2, <3>3 DEF Past
  <2>4. ASSUME NEW u \in Token, NEW d \in Entry, Anchors(u, d) PROVE Past(byToken[t])'
    <3>1. Past(d)
      BY <2>4 DEF Anchors
    <3>2. Past(d)'
      BY <1>1, <3>1, PastAges DEF Row
    <3>3. byToken'[t] \in {d, e}
      BY <2>1, <2>4, AnchorsDoes
    <3>4. QED
      BY <2>2, <3>2, <3>3 DEF Past
  <2>5. ASSUME NEW D \in SUBSET Token, Falls(D) PROVE byToken'[t] \in {e, None}
    BY <2>1, <2>5, DropsDoes DEF Falls
  <2>6. Asks \/ Rests => byToken'[t] = e
    BY <2>1 DEF Asks, Rests, registry
  <2>7. Crash => byToken'[t] = None
    BY CrashDoes DEF Empty
  <2>8. QED
    BY <2>2, <2>3, <2>4, <2>5, <2>6, <2>7 DEF Changes, Past
<1>3. ASSUME NEW t \in Token PROVE Past(file[t])' /\ Past(rows[t])'
  <2>1. PICK f \in Row : f = file[t]
    BY <1>1
  <2>2. PICK w \in Row : w = rows[t]
    BY <1>1
  <2>3. Past(f)' /\ Past(w)' /\ Past(None)'
    BY <1>1, <2>1, <2>2, PastAges DEF Pasts, Past
  <2>4. file'[t] \in {f, byToken'[t]} /\ rows'[t] \in {None, w, f}
    BY <2>1, <2>2, FileStep DEF RowsGo
  <2>5. QED
    BY <1>2, <2>3, <2>4 DEF Past
<1>4. ASSUME NEW t \in Token PROVE Past(sweep.seen[t])'
  <2>1. PICK e \in Row : e = sweep.seen[t]
    BY <1>1
  <2>2. Past(e)' /\ Past(None)'
    BY <1>1, <2>1, PastAges DEF Pasts, Past
  <2>3. CASE AsksPs /\ UNCHANGED <<byToken, proc>>
    <3>1. sweep'.seen[t] \in {byToken'[t], None}
      BY <2>3, AsksTyped
    <3>2. QED
      BY <1>2, <2>2, <3>1 DEF Past
  <2>4. CASE sweep' = NoSweep
    BY <2>2, <2>4 DEF NoSweep, Past
  <2>5. CASE UNCHANGED sweep
    BY <2>1, <2>2, <2>5 DEF Past
  <2>6. CASE Spared
    <3>1. sweep'.seen = sweep.seen
      BY <1>1, <2>6 DEF Spared, RestTyped, SweepRecord
    <3>2. QED
      BY <2>1, <2>2, <3>1 DEF Past
  <2>7. CASE \E u \in Token, d \in Entry : Anchors(u, d)
    <3>1. sweep'.seen = sweep.seen
      BY <1>1, <2>7 DEF Anchors, Follows, RestTyped, SweepRecord
    <3>2. QED
      BY <2>1, <2>2, <3>1 DEF Past
  <2>8. QED
    BY <2>3, <2>4, <2>5, <2>6, <2>7, SweepStep
<1>5. QED
  BY <1>2, <1>3, <1>4 DEF Pasts


\* A start time that a pass compares stays that of the process it saw, or that is gone.
LEMMA ComparedAges ==
  ASSUME IInv, Ages, Bookkeeps, NEW t \in Token, sweep.seen[t] # None, Compared(t),
         sweep'.info[t] = sweep.info[t], sweep'.seen[t] = sweep.seen[t]
  PROVE  Compared(t)'
<1>1. PICK s \in Row : s = sweep.seen[t]
  BY RegTyped DEF RestTyped, SweepRecord
<1>2. s \in Entry /\ Past(s)
  BY <1>1, RowIs DEF IInv, Pasts
<1>3. s.pid \in Pid /\ s.gen \in Gen
  BY <1>2 DEF Entry
<1>4. s.gen \in Nat /\ proc[s.pid].gen \in Nat /\ proc'[s.pid].gen \in Nat
  BY <1>3, RegTyped, Basic DEF Gen, RestTyped, Bookkeeps
<1>5. proc[s.pid].gen <= proc'[s.pid].gen
  BY <1>3 DEF Ages
<1>6. s.gen < proc[s.pid].gen => s.gen < proc'[s.pid].gen
  BY <1>4, <1>5
<1>7. QED
  BY <1>1, <1>6 DEF Compared

\* What a pass knows, while it goes on and nothing that it waits for changes.
LEMMA SweepsKept ==
  ASSUME IInv, Ages, Bookkeeps, UNCHANGED <<sweep, byToken>>
  PROVE  Sweeps'
<1>1. Sweeps /\ sweep \in SweepRecord
  BY RegTyped DEF IInv, RestTyped
<1>2. ASSUME NEW t \in sweep.dead
      PROVE  sweep.seen[t] # None /\ ~Living(sweep.seen[t])' /\ sweep.info[t] = None
  <2>1. PICK s \in Row : s = sweep.seen[t]
    BY <1>1 DEF SweepRecord
  <2>2. t \in Token /\ s # None /\ ~Living(s) /\ Past(s)
    BY <1>1, <2>1 DEF Sweeps, SweepRecord, IInv, Pasts
  <2>3. ~Living(s)'
    BY <2>2, RegTyped, PastAges
  <2>4. QED
    BY <1>1, <2>1, <2>2, <2>3 DEF Sweeps, Living
<1>3. \A t \in Token : sweep.info[t] # None => sweep.seen[t] # None /\ Compared(t)'
  BY <1>1, ComparedAges DEF Sweeps
<1>4. QED
  BY <1>1, <1>2, <1>3 DEF Sweeps

\* A session's entry was replaced: a pass that looked at it no longer does.
LEMMA SweepsSpared ==
  ASSUME IInv, Ages, Bookkeeps, Spared
  PROVE  Sweeps'
<1>1. Sweeps /\ sweep \in SweepRecord
  BY RegTyped DEF IInv, RestTyped
<1>2. PICK L \in SUBSET Token :
        /\ sweep' = [sweep EXCEPT !.ref = sweep.ref \ L]
        /\ \A u \in Token \ L : byToken'[u] = byToken[u]
  BY DEF Spared
<1>3. /\ sweep'.on = sweep.on /\ sweep'.dead = sweep.dead /\ sweep'.info = sweep.info
      /\ sweep'.seen = sweep.seen /\ sweep'.ref = sweep.ref \ L
  BY <1>1, <1>2 DEF SweepRecord
<1>4. ASSUME NEW t \in sweep.dead
      PROVE  sweep'.seen[t] # None /\ ~Living(sweep.seen[t])' /\ sweep'.info[t] = None
  <2>1. PICK s \in Row : s = sweep.seen[t]
    BY <1>1 DEF SweepRecord
  <2>2. t \in Token /\ s # None /\ ~Living(s) /\ Past(s)
    BY <1>1, <2>1 DEF Sweeps, SweepRecord, IInv, Pasts
  <2>3. ~Living(s)'
    BY <2>2, RegTyped, PastAges
  <2>4. QED
    BY <1>1, <1>3, <2>1, <2>2, <2>3 DEF Sweeps, Living
<1>5. \A t \in Token : sweep'.info[t] # None => sweep'.seen[t] # None /\ Compared(t)'
  BY <1>1, <1>3, ComparedAges DEF Sweeps
<1>6. \A t \in sweep'.ref : byToken'[t] # None /\ sweep'.info[t] = byToken'[t]
  <2>1. TAKE t \in sweep'.ref
  <2>2. t \in sweep.ref /\ t \in Token \ L
    BY <1>1, <1>3 DEF SweepRecord
  <2>3. QED
    BY <1>1, <1>2, <1>3, <2>2 DEF Sweeps
<1>7. QED
  BY <1>1, <1>3, <1>4, <1>5, <1>6 DEF Sweeps

\* An anchor moved: a pass that looks at the entry has the new one to compare.
LEMMA SweepsFollow ==
  ASSUME IInv, Ages, Bookkeeps, NEW t \in Token, NEW e \in Entry, Anchors(t, e)
  PROVE  Sweeps'
<1>1. Sweeps /\ sweep \in SweepRecord /\ proc' = proc /\ Follows(t, e)
  BY RegTyped DEF IInv, RestTyped, Anchors
<1>2. byToken'[t] = e /\ \A u \in Token \ {t} : byToken'[u] = byToken[u]
  BY AnchorsDoes
<1>3. CASE t \notin sweep.ref
  <2>1. sweep' = sweep
    BY <1>1, <1>3 DEF Follows
  <2>2. \A u \in sweep.ref : u \in Token \ {t}
    BY <1>1, <1>3 DEF SweepRecord
  <2>3. QED
    BY <1>1, <1>2, <2>1, <2>2 DEF Sweeps, Compared, Living
<1>4. CASE t \in sweep.ref
  <2>1. sweep' = [sweep EXCEPT !.info[t] = e]
    BY <1>1, <1>4 DEF Follows
  <2>2. /\ sweep'.on = sweep.on /\ sweep'.dead = sweep.dead /\ sweep'.ref = sweep.ref
        /\ sweep'.seen = sweep.seen /\ sweep'.info[t] = e
        /\ \A u \in Token \ {t} : sweep'.info[u] = sweep.info[u]
        /\ sweep.dead \subseteq Token /\ sweep.ref \subseteq Token
    BY <1>1, <2>1 DEF SweepRecord
  <2>3. byToken[t] # None /\ sweep.info[t] = byToken[t] /\ sweep.seen[t] # None /\ Compared(t)
    BY <1>1, <1>4 DEF Sweeps
  <2>4. t \notin sweep.dead
    BY <1>1, <2>3 DEF Sweeps
  <2>5. Compared(t)'
    <3>1. PICK s \in Row : s = sweep.seen[t]
      BY <1>1 DEF SweepRecord
    <3>2. s \in Entry /\ Past(s)
      BY <2>3, <3>1, RowIs DEF IInv, Pasts
    <3>3. s.pid \in Pid /\ s.gen \in Nat /\ s.gen <= proc[s.pid].gen /\ proc[s.pid].gen \in Nat
      <4>1. s.pid \in Pid /\ s.gen \in Gen /\ s # None
        BY <2>3, <3>1, <3>2 DEF Entry
      <4>2. s.gen \in Nat /\ proc[s.pid].gen \in Nat
        BY <4>1, RegTyped, Basic DEF Gen, RestTyped
      <4>3. QED
        BY <3>2, <4>1, <4>2 DEF Past
    <3>4. SUFFICES ASSUME e.pid = s.pid, s.start \in {None, s.gen}
                   PROVE  e.start \in {None, s.gen} \/ s.gen < proc[s.pid].gen
      BY <1>1, <2>2, <3>1 DEF Compared
    <3>5. CASE e.start = None
      BY <3>5
    <3>6. CASE e.pid = byToken[t].pid /\ e.start = byToken[t].start
      BY <2>3, <3>1, <3>4, <3>6 DEF Compared
    <3>7. CASE e.start = proc[e.pid].gen
      BY <3>3, <3>4, <3>7
    <3>8. QED
      BY <3>5, <3>6, <3>7 DEF Anchors
  <2>6. \A u \in Token \ {t} : Compared(u) => Compared(u)'
    BY <1>1, <2>2 DEF Compared
  <2>7. \A u \in Token : sweep'.info[u] # None => sweep'.seen[u] # None /\ Compared(u)'
    BY <1>1, <2>2, <2>3, <2>5, <2>6 DEF Sweeps
  <2>8. \A u \in sweep'.dead :
          sweep'.seen[u] # None /\ ~Living(sweep.seen[u])' /\ sweep'.info[u] = None
    BY <1>1, <2>2, <2>4 DEF Sweeps, Living
  <2>9. \A u \in sweep'.ref : byToken'[u] # None /\ sweep'.info[u] = byToken'[u]
    BY <1>1, <1>2, <2>2, Basic DEF Sweeps
  <2>10. QED
    BY <1>1, <2>2, <2>7, <2>8, <2>9 DEF Sweeps
<1>5. QED
  BY <1>3, <1>4

\* A pass begins with what is registered.
LEMMA SweepsAsk ==
  ASSUME IInv, AsksPs, UNCHANGED <<byToken, proc>>
  PROVE  Sweeps'
<1>1. /\ sweep' \in SweepRecord /\ sweep'.on /\ sweep'.dead = Dead /\ sweep'.ref = Guarded
      /\ \A t \in Token : sweep'.info[t] = IF t \in Guarded THEN byToken[t] ELSE None
      /\ \A t \in Token : sweep'.seen[t] = IF t \in Dead \cup Guarded THEN byToken[t] ELSE None
  BY AsksTyped
<1>2. \A t \in Dead : t \in Token /\ t \notin Guarded /\ byToken[t] # None /\ ~Living(byToken[t])
  BY DEF Dead, Guarded, Living
<1>3. \A t \in Guarded : t \in Token /\ byToken[t] # None
  BY DEF Guarded
<1>4. \A t \in Dead : sweep'.seen[t] # None /\ ~Living(sweep.seen[t])' /\ sweep'.info[t] = None
  BY <1>1, <1>2 DEF Living
<1>5. ASSUME NEW t \in Token, sweep'.info[t] # None PROVE sweep'.seen[t] # None /\ Compared(t)'
  BY <1>1, <1>5 DEF Compared
<1>6. QED
  BY <1>1, <1>3, <1>4, <1>5 DEF Sweeps

\* No pass knows nothing.
LEMMA SweepsNone == ASSUME sweep' = NoSweep PROVE Sweeps'
BY DEF Sweeps, NoSweep

\* What passes know is true after every step.
LEMMA SweepsStep == ASSUME IInv, Changes, Ages, Bookkeeps PROVE Sweeps'
<1>1. ASSUME UNCHANGED sweep PROVE Sweeps' \/ Spared \/ \E t \in Token, e \in Entry : Anchors(t, e)
  <2>1. CASE UNCHANGED byToken
    BY <1>1, <2>1, SweepsKept
  <2>2. CASE Crash
    BY <2>2, CrashDoes, SweepsNone
  <2>3. ASSUME NEW D \in SUBSET Token, Falls(D) PROVE Sweeps' \/ Spared
    <3>1. \A u \in Token \ D : byToken'[u] = byToken[u]
      BY <2>3, DropsDoes DEF Falls
    <3>2. QED
      BY <2>3, <3>1, SweepsNone DEF Falls, Spared
  <2>4. QED
    BY <2>1, <2>2, <2>3, EntersDoes DEF Changes, Asks, Rests, registry
<1>2. QED
  BY <1>1, SweepStep, SweepsNone, SweepsAsk, SweepsSpared, SweepsFollow

-----------------------------------------------------------------------------
(* The invariant holds.                                                    *)

\* Nothing is registered, saved or under way at first.
LEMMA RegistryInit == Init => IInv
<1> SUFFICES ASSUME Init PROVE IInv
  OBVIOUS
<1>1. None \in Row /\ 1 \in Gen /\ Gen \subseteq Nat
  BY Basic DEF Row, Gen
<1>2. RestTyped
  <2>1. sweep \in SweepRecord /\ proc \in [Pid -> [gen : Gen, alive : BOOLEAN]]
    BY <1>1 DEF Init, NoSweep, SweepRecord
  <2>2. file \in [Token -> Row] /\ rows \in [Token -> Row] /\ live \in [Pid -> Gen \cup {None}]
    BY <1>1 DEF Init, Empty
  <2>3. QED
    BY <2>1, <2>2, Basic DEF Init, RestTyped
<1>3. Reg = Nothing
  BY DEF Reg, Init, Nothing
<1>4. Good(Reg)
  BY <1>3, NothingGood
<1>5. Known /\ Saved
  BY DEF Init, Known, Saved, RegisteredSurvivesCrash, Empty
<1>6. Pasts
  BY DEF Init, Pasts, Past, Empty, NoSweep
<1>7. Sweeps
  BY DEF Init, Sweeps, NoSweep
<1>8. QED
  BY <1>2, <1>4, <1>5, <1>6, <1>7 DEF IInv

\* The invariant is kept by every step.
LEMMA RegistryStep == IInv /\ [Next]_vars => IInv'
<1> SUFFICES ASSUME IInv, [Next]_vars PROVE IInv'
  OBVIOUS
<1>1. Changes /\ Ages /\ RowsGo /\ Bookkeeps
  BY StepKinds
<1>2. QED
  BY <1>1, RestStep, GoodStep, KnownStep, SavedStep, PastsStep, SweepsStep DEF IInv

\* Whatever sessions are launched, attached, deleted, reaped, saved and rehydrated, in
\* whatever order, the invariant holds.
THEOREM RegistryInductive == Spec => []IInv
BY RegistryInit, RegistryStep, PTL DEF Spec

\* Every variable keeps its type.
THEOREM RegistryTypes == Spec => []TypeOK
<1>1. IInv => TypeOK
  <2> SUFFICES ASSUME IInv PROVE TypeOK
    OBVIOUS
  <2>1. RestTyped /\ Reg \in RegState
    BY RegTyped
  <2>2. QED
    BY <2>1 DEF TypeOK, RestTyped, RegState, Reg, SweepRecord
<1>2. QED
  BY <1>1, RegistryInductive, PTL

\* However launches, reattaches, relaunches, deletions, reaper passes and boots interleave
\* (onRegister and onDeregister of run.ts, registry.ts): each registered session with a
\* key has one open client under its token and its key, and no other client is open.
THEOREM RegistryOneClient == Spec => []OneClientPerSession
<1>1. IInv => OneClientPerSession
  <2> SUFFICES ASSUME IInv PROVE OneClientPerSession
    OBVIOUS
  <2>1. Good(Reg) /\ Clients(Reg) /\ Held(Reg)
    BY RegTyped DEF Good, Clients
  <2>2. open = {client[t] : t \in Token} \ {None}
    BY <2>1 DEF Clients, Reg
  <2>3. ASSUME NEW t \in Token, byToken[t] # None, byToken[t].key
        PROVE  /\ client[t] \in open /\ keyOf[client[t]] = SidOf(t)
               /\ byKey[SidOf(t)] = client[t] /\ bySid[SidOf(t)] = t
    <3>1. client[t] # None
      BY <2>1, <2>3 DEF Good, Keyed, Reg
    <3>2. bySid[SidOf(t)] = t
      BY <2>1, <2>3 DEF Good, Reg
    <3>3. QED
      BY <2>1, <3>1, <3>2 DEF Held, Reg
  <2>4. ASSUME NEW t \in Token, ~(byToken[t] # None /\ byToken[t].key)
        PROVE  client[t] = None
    BY <2>1, <2>4 DEF Good, Keyed, Reg
  <2>5. QED
    BY <2>2, <2>3, <2>4 DEF OneClientPerSession, SidOf
<1>2. QED
  BY <1>1, RegistryInductive, PTL

\* A crash at any moment, one in the middle of a boot included, finds in sessions.json
\* every session that is registered, under the pid it has (persist() of registry.ts).
THEOREM RegistrySaved == Spec => []RegisteredSurvivesCrash
<1>1. IInv => RegisteredSurvivesCrash
  BY DEF IInv, Saved
<1>2. QED
  BY <1>1, RegistryInductive, PTL

\* Only the end of a pass ends one, but for a crash.
LEMMA PassEnds ==
  ASSUME IInv, [Next]_vars, sweep.on, ~sweep'.on, daemon' # "off"
  PROVE  ReapEnds
<1>1. sweep \in SweepRecord
  BY RegTyped DEF RestTyped
<1>2. ASSUME Spared PROVE FALSE
  BY <1>1, <1>2 DEF Spared, SweepRecord
<1>3. ASSUME NEW t \in Token, NEW e \in Entry, Anchors(t, e) PROVE FALSE
  BY <1>1, <1>3 DEF Anchors, Follows, SweepRecord
<1>4. ASSUME NEW t \in Token, NEW e \in Entry, Enters(t, e) PROVE FALSE
  BY <1>2, <1>4, EntersDoes
<1>5. sweep' # sweep
  OBVIOUS
<1>6. ~UNCHANGED vars
  BY <1>5 DEF vars
<1>7. ASSUME NEW p \in Pid, Die(p) \/ Reuse(p) PROVE FALSE
  BY <1>5, <1>7 DEF Die, Reuse
<1>8. ASSUME NEW t \in Token, NEW p \in Pid, NEW key \in BOOLEAN, Launch(t, p, key) PROVE FALSE
  BY <1>4, <1>8, LaunchKind
<1>9. ASSUME NEW t \in Token, NEW p \in Pid, Reattach(t, p) PROVE FALSE
  BY <1>3, <1>4, <1>9, ReattachKind
<1>10. ASSUME NEW t \in Token, NEW p \in Pid, ProbeEnds(t, p) PROVE FALSE
  BY <1>3, <1>5, <1>10, ProbeKind DEF Rests
<1>11. ASSUME NEW t \in Token, Delete(t) PROVE FALSE
  BY <1>1, <1>11 DEF Delete, Loses, SweepRecord
<1>12. ASSUME NEW t \in Token, Rehydrate(t) PROVE FALSE
  BY <1>4, <1>5, <1>12, RehydrateKind DEF Rests
<1>13. ~ReapStarts /\ ~Start /\ ~Serve /\ ~Crash
  BY <1>5 DEF ReapStarts, Start, Serve, Crash
<1>14. QED
  BY <1>6, <1>7, <1>8, <1>9, <1>10, <1>11, <1>12, <1>13 DEF Next

\* The end of a pass takes out no session that is where the pass saw it and lives.
LEMMA ReapedIsDead ==
  ASSUME IInv, ReapEnds, NEW t \in Token, byToken[t] # None, byToken'[t] = None, StillSeen(t)
  PROVE  ~Living(byToken[t])
<1>1. PICK seen : Drops(sweep.dead \cup {u \in Token : Mismatched(u, seen)})
  BY DEF ReapEnds
<1>2. PICK D : D = sweep.dead \cup {u \in Token : Mismatched(u, seen)}
  OBVIOUS
<1>3. D \in SUBSET Token /\ UNCHANGED scene /\ Drops(D)
  BY <1>1, <1>2, RegTyped DEF RestTyped, SweepRecord, ReapEnds
<1>4. t \in D
  BY <1>3, DropsDoes
<1>5. byToken[t] \in Entry /\ sweep.seen[t].pid = byToken[t].pid /\ sweep.seen[t].gen = byToken[t].gen
  BY RegTyped, RowIs DEF StillSeen
<1>6. CASE t \in sweep.dead
  BY <1>5, <1>6 DEF IInv, Sweeps, Living
<1>7. CASE Mismatched(t, seen)
  <2>1. PICK i : i = sweep.info[t]
    OBVIOUS
  <2>2. /\ i # None /\ i.start # None /\ i.pid = byToken[t].pid
        /\ proc[byToken[t].pid].gen # i.start
    BY <1>7, <2>1 DEF Mismatched, StillSeen
  <2>3. Compared(t) /\ sweep.seen[t].start \in {None, sweep.seen[t].gen}
    BY <2>1, <2>2 DEF IInv, Sweeps, StillSeen
  <2>4. i.start = byToken[t].gen \/ byToken[t].gen < proc[byToken[t].pid].gen
    BY <1>5, <2>1, <2>2, <2>3 DEF Compared
  <2>5. byToken[t].gen \in Nat /\ proc[byToken[t].pid].gen \in Nat
    BY <1>5, RegTyped, Basic DEF Entry, Gen, RestTyped
  <2>6. proc[byToken[t].pid].gen # byToken[t].gen
    BY <2>2, <2>4, <2>5
  <2>7. QED
    BY <2>6 DEF Living
<1>8. QED
  BY <1>2, <1>4, <1>6, <1>7

\* The reaper (registry.ts, reapDead) never takes out a session that is where its pass
\* saw it and whose process lives, whatever happened while the pass waited for ps.
THEOREM RegistryReaper == Spec => ReaperDropsOnlyTheDead
<1>1. ASSUME IInv, [Next]_vars
      PROVE  [\A t \in Token :
                sweep.on /\ ~sweep'.on /\ daemon' # "off" /\ byToken[t] # None /\ byToken'[t] = None
                  /\ StillSeen(t)
                => ~Living(byToken[t])]_vars
  BY <1>1, PassEnds, ReapedIsDead
<1>2. QED
  BY <1>1, RegistryInductive, PTL DEF Spec, ReaperDropsOnlyTheDead
==============================================================================
