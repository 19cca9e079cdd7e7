------------------------------ MODULE Registry ------------------------------
(***************************************************************************)
(* The daemon's registry of launched sessions: who is registered under     *)
(* which token, the broker client each session owns, the file that         *)
(* outlives the daemon, the reaper, and the rehydration at boot.           *)
(***************************************************************************)
EXTENDS Naturals, FiniteSets

CONSTANTS Token, \* one per launch
          Sid, Pid,
          Client, \* identities of SessionBrokerClient objects
          None,
          MaxGen, MaxCrash, \* processes under one pid, daemons that die
          Scenes \* what a behaviour is about: see Scene

\* The session each token was minted for, the tokens that are launched, whether with
\* a key, whether they can be deleted, the processes a pid can have, the daemons that die.
Scene == [sid : [Token -> Sid], tokens : SUBSET Token, keys : SUBSET BOOLEAN,
          deletes : BOOLEAN, gens : 1..MaxGen, crashes : 0..MaxCrash]

ASSUME RegistryAssumption ==
  /\ Scenes \subseteq Scene /\ None \notin Token \cup Sid \cup Pid \cup Client \cup Nat
  /\ MaxGen \in Nat \ {0} /\ MaxCrash \in Nat
  /\ IsFiniteSet(Token) /\ IsFiniteSet(Client) /\ Cardinality(Client) > Cardinality(Token)

VARIABLES
  scene,    \* chosen once
  proc,     \* the process that has, or last had, each pid
  launched, \* tokens that were registered by their launch
  daemon,   \* "off", "boot" or "serve"
  byToken, bySid,               \* the registry's maps
  client, byKey, keyOf, open,   \* sessionBrokers, sessionBrokersByPubkey; clients
  file,     \* sessions.json
  probe,    \* start-time probes under way: token and pid
  sweep,    \* a reaper pass that waits for ps
  rows, live, \* what the boot read: sessions left to rehydrate, start times
  crashes

hooked == <<client, byKey, keyOf, open>>
registry == <<byToken, bySid, hooked>>
boot == <<rows, live>>
vars == <<scene, proc, launched, daemon, registry, file, probe, sweep, boot, crashes>>

Gen == 1..MaxGen
\* gen is the process that registered; start, what ps said of its pid.
Entry == [pid : Pid, gen : Gen, start : Gen \cup {None}, key : BOOLEAN]
Row == Entry \cup {None}
ASSUME EntryAssumption == None \notin Entry

NoSweep == [on |-> FALSE, dead |-> {}, info |-> [t \in Token |-> None],
            ref |-> {}, seen |-> [t \in Token |-> None]]

Empty(S) == [x \in S |-> None]

TypeOK ==
  /\ scene \in Scenes /\ proc \in [Pid -> [gen : Gen, alive : BOOLEAN]]
  /\ launched \subseteq Token /\ daemon \in {"off", "boot", "serve"}
  /\ byToken \in [Token -> Row] /\ bySid \in [Sid -> Token \cup {None}]
  /\ client \in [Token -> Client \cup {None}] /\ byKey \in [Sid -> Client \cup {None}]
  /\ keyOf \in [Client -> Sid \cup {None}] /\ open \subseteq Client
  /\ file \in [Token -> Row] /\ probe \subseteq Token \X Pid
  /\ sweep \in [on : BOOLEAN, dead : SUBSET Token, info : [Token -> Row],
                ref : SUBSET Token, seen : [Token -> Row]]
  /\ rows \in [Token -> Row] /\ (daemon # "boot" => rows = Empty(Token))
  /\ live \in [Pid -> Gen \cup {None}] /\ crashes \in 0..MaxCrash

Init ==
  /\ scene \in Scenes /\ proc = [p \in Pid |-> [gen |-> 1, alive |-> TRUE]]
  /\ launched = {} /\ daemon = "off"
  /\ byToken = Empty(Token) /\ bySid = Empty(Sid)
  /\ client = Empty(Token) /\ byKey = Empty(Sid) /\ keyOf = Empty(Client) /\ open = {}
  /\ file = Empty(Token) /\ probe = {} /\ sweep = NoSweep
  /\ rows = Empty(Token) /\ live = Empty(Pid) /\ crashes = 0

-----------------------------------------------------------------------------
(* The registry and its hooks, as a function of their state.               *)

Reg == [byToken |-> byToken, bySid |-> bySid, client |-> client, byKey |-> byKey,
        keyOf |-> keyOf, open |-> open]

Becomes(r) ==
  /\ byToken' = r.byToken /\ bySid' = r.bySid
  /\ client' = r.client /\ byKey' = r.byKey /\ keyOf' = r.keyOf /\ open' = r.open

\* Mutant: the key's index is cleared without asking whose it is, and nothing else.
ClosedByKey(r, T) ==
  LET keys == {r.keyOf[r.client[t]] : t \in {u \in T : r.client[u] # None}}
  IN [r EXCEPT !.client = [t \in Token |-> IF t \in T THEN None ELSE r.client[t]],
               !.byKey = [s \in Sid |-> IF s \in keys THEN None ELSE r.byKey[s]]]

\* The clients of tokens T are closed; a key's index is cleared if it is still its client.
Closed(r, T) ==
  LET gone == {r.client[t] : t \in T} \ {None} IN
  IF gone = {} THEN r
  ELSE [r EXCEPT !.client = [t \in Token |-> IF t \in T THEN None ELSE r.client[t]],
                 !.open = r.open \ gone,
                 !.keyOf = [c \in Client |-> IF c \in gone THEN None ELSE r.keyOf[c]],
                 !.byKey = [s \in Sid |-> IF r.byKey[s] \in gone /\ r.keyOf[r.byKey[s]] = s
                                          THEN None ELSE r.byKey[s]]]

\* Clients of other tokens under the key of session s.
Rival(r, s, t) == {u \in Token \ {t} : r.client[u] # None /\ r.client[u] = r.byKey[s]}

\* What is left for the client of t to be opened: the one it had is closed, and one rival's.
Cleared(r, t) ==
  LET own == Closed(r, {t})
      rivals == Rival(own, scene.sid[t], t)
  IN IF rivals = {} THEN own ELSE Closed(own, {CHOOSE u \in rivals : TRUE})

\* onRegister: whatever client the token or the key has is closed, then one is opened.
Opened(r, t, key) ==
  IF ~key THEN r
  ELSE LET all == Cleared(r, t)
           c == CHOOSE x \in Client \ all.open : TRUE
       IN [all EXCEPT !.client[t] = c, !.byKey[scene.sid[t]] = c, !.keyOf[c] = scene.sid[t],
                      !.open = all.open \cup {c}]

\* Those of tokens T that are registered are taken out; onDeregister follows.
Deregistered(T, r) ==
  LET D == {t \in T : r.byToken[t] # None} IN
  IF D = {} THEN r
  ELSE Closed([r EXCEPT !.byToken = [t \in Token |-> IF t \in D THEN None ELSE r.byToken[t]],
                         !.bySid = [s \in Sid |-> IF r.bySid[s] \in D /\ scene.sid[r.bySid[s]] = s
                                                  THEN None ELSE r.bySid[s]]], D)

\* Another token registered for the session is taken out.
Replaced(r, t) ==
  LET prior == r.bySid[scene.sid[t]] IN
  IF prior = None \/ prior = t \/ r.byToken[prior] = None THEN r
  ELSE Closed([r EXCEPT !.byToken[prior] = None], {prior})

Registered(r, t, e) ==
  Opened([Replaced(r, t) EXCEPT !.byToken[t] = e, !.bySid[scene.sid[t]] = t], t, e.key)

\* Mutant: on from the beginning of the boot.
PersistingAlways == daemon # "off"

\* Off while the boot rehydrates.
Persisting == daemon = "serve"

\* persist(): what the registry holds replaces what the file held.
Persists(bt) == file' = IF Persisting THEN bt ELSE file

\* A pass under way looks at entries as they are now, unless they were replaced.
Follows(t, e) == sweep' = IF t \in sweep.ref THEN [sweep EXCEPT !.info[t] = e] ELSE sweep
Loses(T) == sweep' = [sweep EXCEPT !.ref = @ \ T]

-----------------------------------------------------------------------------
(* Processes.                                                              *)

Die(p) ==
  /\ proc[p].alive /\ proc' = [proc EXCEPT ![p].alive = FALSE]
  /\ UNCHANGED <<scene, launched, daemon, registry, file, probe, sweep, boot, crashes>>

Reuse(p) ==
  /\ ~proc[p].alive /\ proc[p].gen < scene.gens
  /\ proc' = [proc EXCEPT ![p] = [gen |-> @.gen + 1, alive |-> TRUE]]
  /\ UNCHANGED <<scene, launched, daemon, registry, file, probe, sweep, boot, crashes>>

-----------------------------------------------------------------------------
(* The IPC handlers.                                                       *)

\* A new entry, its hooks and the probe of its start time.
NewEntry(t, e) ==
  \E r \in {Registered(Reg, t, e)} :
  /\ Becomes(r) /\ Persists(r.byToken)
  /\ Loses({u \in Token : r.byToken[u] # byToken[u]} \cup {t})
  /\ probe' = IF e.start = None THEN probe \cup {<<t, e.pid>>} ELSE probe

\* t's entry under pid p; another pid's start time is not known yet.
Anchored(t, p) ==
  [byToken[t] EXCEPT !.pid = p, !.gen = proc[p].gen,
                     !.start = IF byToken[t].pid = p THEN byToken[t].start ELSE None]

\* Mutant: the new anchor is not written.
MovedUnwritten(t, p) ==
  LET e == Anchored(t, p) IN
  /\ byToken' = [byToken EXCEPT ![t] = e] /\ UNCHANGED file
  /\ Follows(t, e)
  /\ probe' = IF e.start = None /\ byToken[t].pid # p THEN probe \cup {<<t, p>>} ELSE probe
  /\ UNCHANGED <<bySid, hooked>>

\* The same session under the same key: only the anchor moves.
Moved(t, p) ==
  LET e == Anchored(t, p) IN
  /\ byToken' = [byToken EXCEPT ![t] = e] /\ Persists(byToken')
  /\ Follows(t, e)
  /\ probe' = IF e.start = None /\ byToken[t].pid # p THEN probe \cup {<<t, p>>} ELSE probe
  /\ UNCHANGED <<bySid, hooked>>

Fresh(p, key) == [pid |-> p, gen |-> proc[p].gen, start |-> None, key |-> key]

\* claudemesh launch: a session without a key is registered and gets no client.
Launch(t, p, key) ==
  /\ daemon = "serve" /\ proc[p].alive
  /\ t \in scene.tokens \ launched /\ key \in scene.keys
  /\ launched' = launched \cup {t}
  /\ NewEntry(t, Fresh(p, key))
  /\ UNCHANGED <<scene, proc, daemon, boot, crashes>>

\* A process of the session attaches it, always with its key.
Reattach(t, p) ==
  /\ daemon = "serve" /\ t \in launched /\ proc[p].alive
  /\ IF byToken[t] # None /\ byToken[t].key THEN Moved(t, p) ELSE NewEntry(t, Fresh(p, TRUE))
  /\ UNCHANGED <<scene, proc, launched, daemon, boot, crashes>>

\* DELETE /v1/sessions/<token>
Delete(t) ==
  /\ scene.deletes /\ daemon = "serve" /\ byToken[t] # None
  /\ \E r \in {Deregistered({t}, Reg)} : Becomes(r) /\ Persists(r.byToken)
  /\ Loses({t})
  /\ UNCHANGED <<scene, proc, launched, daemon, probe, boot, crashes>>

\* ps answers, or not; an entry that has moved on is left alone.
ProbeEnds(t, p) ==
  /\ <<t, p>> \in probe /\ probe' = probe \ {<<t, p>>}
  /\ IF proc[p].alive /\ byToken[t] # None /\ byToken[t].pid = p
     THEN LET e == [byToken[t] EXCEPT !.start = proc[p].gen] IN
          /\ byToken' = [byToken EXCEPT ![t] = e] /\ Persists(byToken') /\ Follows(t, e)
     ELSE UNCHANGED <<byToken, file, sweep>>
  /\ UNCHANGED <<scene, proc, launched, daemon, bySid, hooked, boot, crashes>>

-----------------------------------------------------------------------------
(* The reaper.                                                             *)

Drops(D) == \E r \in {Deregistered(D, Reg)} : Becomes(r) /\ Persists(r.byToken)

\* Registered sessions whose pid is not in use; others whose start time is known.
Dead == {t \in Token : byToken[t] # None /\ ~proc[byToken[t].pid].alive}
Guarded == {t \in Token \ Dead : byToken[t] # None /\ byToken[t].start # None}

\* The pass waits for ps, having seen the dead and the guarded.
AsksPs == sweep' = [on |-> TRUE, dead |-> Dead, ref |-> Guarded,
                    info |-> [t \in Token |-> IF t \in Guarded THEN byToken[t] ELSE None],
                    seen |-> [t \in Token |-> IF t \in Dead \cup Guarded THEN byToken[t] ELSE None]]

\* Mutant: with nobody to ask ps about, the pass ends at once.
ReapsGuarded ==
  /\ daemon # "off" /\ ~sweep.on /\ Guarded # {} /\ AsksPs
  /\ UNCHANGED <<registry, file, scene, proc, launched, daemon, probe, boot, crashes>>

\* Without a start time to compare, the pass ends where it began.
ReapStarts ==
  /\ daemon # "off" /\ ~sweep.on
  /\ IF Guarded = {} THEN Dead # {} /\ Drops(Dead) /\ UNCHANGED sweep
                     ELSE AsksPs /\ UNCHANGED <<registry, file>>
  /\ UNCHANGED <<scene, proc, launched, daemon, probe, boot, crashes>>

\* Mutant: a pid that ps does not list counts as dead.
MismatchedOrMissed(t, seen) ==
  sweep.info[t] # None /\ sweep.info[t].start # None
  /\ (sweep.info[t].pid \in seen /\ proc[sweep.info[t].pid].alive
        => proc[sweep.info[t].pid].gen # sweep.info[t].start)

\* ps lists the pid with another start time than the entry has.
Mismatched(t, seen) ==
  /\ sweep.info[t] # None /\ sweep.info[t].start # None
  /\ sweep.info[t].pid \in seen /\ proc[sweep.info[t].pid].alive
  /\ proc[sweep.info[t].pid].gen # sweep.info[t].start

\* ps was asked for the pids the entries had when the pass began, and may miss some.
ReapEnds ==
  /\ sweep.on
  /\ \E seen \in SUBSET {sweep.seen[t].pid : t \in {u \in Token : sweep.info[u] # None}} :
       Drops(sweep.dead \cup {t \in Token : Mismatched(t, seen)})
  /\ sweep' = NoSweep
  /\ UNCHANGED <<scene, proc, launched, daemon, probe, boot, crashes>>

-----------------------------------------------------------------------------
(* The daemon's life.                                                      *)

\* One ps for all rows, before the first is rehydrated.
Start ==
  /\ daemon = "off" /\ daemon' = "boot"
  /\ rows' = file
  /\ live' = [p \in Pid |-> IF proc[p].alive THEN proc[p].gen ELSE None]
  /\ UNCHANGED <<scene, proc, launched, registry, file, probe, sweep, crashes>>

\* Only a live process's session, and only with the key it had.
Revivable(t) ==
  LET e == rows[t] IN
  /\ proc[e.pid].alive /\ e.key
  /\ (e.start # None /\ live[e.pid] # None) => live[e.pid] = e.start

Rehydrate(t) ==
  /\ daemon = "boot" /\ rows[t] # None /\ rows' = [rows EXCEPT ![t] = None]
  /\ IF Revivable(t)
     THEN NewEntry(t, rows[t])
     ELSE UNCHANGED <<registry, file, probe, sweep>>
  /\ UNCHANGED <<scene, proc, launched, daemon, live, crashes>>

\* Mutant: the handlers are open while sessions are still to be rehydrated.
ServesAtOnce ==
  /\ daemon = "boot" /\ daemon' = "serve"
  /\ UNCHANGED <<scene, proc, launched, registry, file, probe, sweep, boot, crashes>>

Serve ==
  /\ daemon = "boot" /\ rows = Empty(Token) /\ daemon' = "serve"
  /\ UNCHANGED <<scene, proc, launched, registry, file, probe, sweep, boot, crashes>>

\* Shutdown and crash alike forget everything but the file.
Crash ==
  /\ daemon # "off" /\ crashes < scene.crashes /\ crashes' = crashes + 1
  /\ daemon' = "off" /\ byToken' = Empty(Token) /\ bySid' = Empty(Sid)
  /\ client' = Empty(Token) /\ byKey' = Empty(Sid) /\ keyOf' = Empty(Client) /\ open' = {}
  /\ probe' = {} /\ sweep' = NoSweep /\ rows' = Empty(Token) /\ live' = Empty(Pid)
  /\ UNCHANGED <<scene, proc, launched, file>>

Next ==
  \/ \E p \in Pid : Die(p) \/ Reuse(p)
  \/ \E t \in Token, p \in Pid :
       (\E key \in BOOLEAN : Launch(t, p, key)) \/ Reattach(t, p) \/ ProbeEnds(t, p)
  \/ \E t \in Token : Delete(t) \/ Rehydrate(t)
  \/ ReapStarts \/ ReapEnds \/ Start \/ Serve \/ Crash

Spec == Init /\ [][Next]_vars

\* The reaper's timer and ps, and a supervisor that starts the daemon again.
LiveSpec ==
  /\ Spec /\ WF_vars(ReapStarts) /\ WF_vars(ReapEnds) /\ WF_vars(Start) /\ WF_vars(Serve)
  /\ \A t \in Token : WF_vars(Rehydrate(t))

-----------------------------------------------------------------------------
(* Properties.                                                             *)

\* e belongs to a process that is still the one that registered.
Living(e) == proc[e.pid].alive /\ proc[e.pid].gen = e.gen

\* However launches, reattaches, relaunches of a session, deletions, the reaper and the
\* rehydration follow one another: each registered session that has a key has one
\* open client, found under its token and its key, and no other client is open.
OneClientPerSession ==
  /\ \A t \in Token :
       IF byToken[t] # None /\ byToken[t].key
       THEN LET s == scene.sid[t] IN
            client[t] \in open /\ keyOf[client[t]] = s /\ byKey[s] = client[t] /\ bySid[s] = t
       ELSE client[t] = None
  /\ open = {client[t] : t \in Token} \ {None}

\* A registered session is in the file under the pid it has now, so that a crash at
\* any time, one during the boot included, leaves it for the next boot to rehydrate.
RegisteredSurvivesCrash ==
  \A t \in Token : byToken[t] # None => file[t] # None /\ file[t].pid = byToken[t].pid

\* A pass saw t's entry under the process it has, and so was what the pass compares. (One
\* reattached under its old pid by another process keeps the old start time. The entry
\* of a token that was deleted is still compared: it may have moved before.)
StillSeen(t) ==
  /\ sweep.seen[t] # None /\ sweep.seen[t].pid = byToken[t].pid
  /\ sweep.seen[t].gen = byToken[t].gen /\ sweep.seen[t].start \in {None, byToken[t].gen}
  /\ sweep.info[t] # None => sweep.info[t].pid = byToken[t].pid

\* The reaper takes out no session that is where it saw it and whose process lives.
ReaperDropsOnlyTheDead ==
  [][\A t \in Token :
       sweep.on /\ ~sweep'.on /\ daemon' # "off" /\ byToken[t] # None /\ byToken'[t] = None
         /\ StillSeen(t)
       => ~Living(byToken[t])]_vars

\* A session whose process has died is taken out, unless its pid is in use again.
DeadAreReaped ==
  \A t \in Token : byToken[t] # None /\ ~proc[byToken[t].pid].alive
    ~> byToken[t] = None \/ proc[byToken[t].pid].alive

\* A daemon that went down, however early in its boot, has the sessions that are still
\* there back in time (but those reattached under a pid that another process had).
RestartReconnects ==
  \A t \in Token, p \in Pid :
    daemon = "off" /\ file[t] # None /\ file[t].key /\ file[t].pid = p /\ Living(file[t])
         /\ file[t].start \in {None, file[t].gen}
      ~> byToken[t] # None \/ ~proc[p].alive
=============================================================================
