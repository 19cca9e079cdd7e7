-------------------------------- MODULE Runner --------------------------------
(***************************************************************************)
(* The runner's supervisor: a process that keeps one child per managed     *)
(* MCP service, restarts it when it exits and answers the broker's HTTP    *)
(* requests.  A /load request l creates a service object, named l as well. *)
(***************************************************************************)
EXTENDS Naturals, Sequences

CONSTANTS Name, Load, Call, Unload, None,
          MaxRestarts, \* restarts of one service object (5)
          MaxTries     \* handshakes a uvx package is given (3)

VARIABLES
  services, \* name -> the service object the requests are routed to
  svc,      \* the service objects
  child,    \* service object -> the children it has spawned, in order
  load,     \* where each /load request stands
  call,     \* the calls: where each stands, its service, what it is written to
  unload    \* where each /unload request stands

runnerVars == <<services, svc, child, load, call, unload>>

Status == {"installing", "running", "stopped", "failed", "crashed", "restarting"}
Fresh(status, tries) ==
  [status |-> status, process |-> 0, restarts |-> 0, armed |-> FALSE, tries |-> tries]

LoadState == {"none", "sent", "wait", "install", "settle", "initialize", "tools",
              "ok", "bad", "lost"}
Handshake == {"initialize", "tools"} \* a request of the handshake is pending
CallState == {"idle", "lookup", "sent", "pending", "result", "error", "replied", "dropped"}

\* Types; and /health is right: a running service has a process to write to, and one
\* that is restarting will be started.
RunnerTypeOK ==
  /\ services \in [Name -> Load \cup {None}]
  /\ svc \in [Load -> [status : Status, process : Nat, restarts : Nat,
                       armed : BOOLEAN, tries : 0..MaxTries]]
  /\ child \in [Load -> Seq({"up", "dead", "gone", "void"})]
  /\ \A l \in Load : /\ svc[l].process \in 0..Len(child[l])
                     /\ svc[l].status = "running" => svc[l].process # 0
                     /\ svc[l].status = "restarting" => svc[l].armed
  /\ load \in [Load -> [st : LoadState, name : Name \cup {None}]]
  /\ call \in [Call -> [st : CallState, name : Name \cup {None}, svc : Load \cup {None}]]
  /\ unload \in [Unload -> [st : {"none", "term", "done"},
                            name : Name \cup {None}, svc : Load \cup {None}]]

RunnerInit ==
  /\ services = [n \in Name |-> None]
  /\ svc = [l \in Load |-> Fresh("stopped", 0)]
  /\ child = [l \in Load |-> <<>>]
  /\ load = [l \in Load |-> [st |-> "none", name |-> None]]
  /\ call = [c \in Call |-> [st |-> "idle", name |-> None, svc |-> None]]
  /\ unload = [u \in Unload |-> [st |-> "none", name |-> None, svc |-> None]]

\* The requests of a service object that wait for its child.
PendingOn(l) == {c \in Call : call[c].st = "pending" /\ call[c].svc = l}
Answer(C, a) == call' = [c \in Call |-> IF c \in C THEN [call[c] EXCEPT !.st = a] ELSE call[c]]
At(l, st) == [load EXCEPT ![l].st = st]

\* The child's stdin takes a request: there is a child, and it could be started.
Writable(l) == svc[l].process # 0 /\ child[l][svc[l].process] # "void"

\* spawnService on the object r: the program starts, or cannot be started at all,
\* which is reported before anything else happens.
Spawns(l, r) ==
  \E c \in {"up", "void"} :
    /\ child' = [child EXCEPT ![l] = Append(@, c)]
    /\ svc' = [svc EXCEPT ![l] =
                 [r EXCEPT !.process = Len(child[l]) + 1, !.armed = FALSE,
                           !.status = IF c = "up" THEN "running" ELSE "failed"]]

\* A failed handshake of object r ends the /load, unless another try is left.
HandshakeFails(l, r) ==
  IF r.tries > 1
  THEN /\ svc' = [svc EXCEPT ![l] = [r EXCEPT !.tries = @ - 1]]
       /\ load' = At(l, "settle")
  ELSE /\ svc' = [svc EXCEPT ![l] = [r EXCEPT !.status = "failed"]]
       /\ load' = At(l, "bad")

-----------------------------------------------------------------------------
(* POST /load.                                                             *)

\* The source is fetched, or cannot be; the object replaces the one of its name.
Prepares(l) ==
  \/ /\ load' = At(l, "bad")
     /\ UNCHANGED <<services, svc, child, call, unload>>
  \/ /\ services' = [services EXCEPT ![load[l].name] = l]
     /\ svc' = [svc EXCEPT ![l] = Fresh("installing", 1)]
     /\ load' = At(l, "install")
     /\ UNCHANGED <<child, call, unload>>
  \/ /\ services' = [services EXCEPT ![load[l].name] = l] \* a uvx package
     /\ Spawns(l, Fresh("running", MaxTries))
     /\ load' = At(l, "settle")
     /\ UNCHANGED <<call, unload>>

\* Mutant: the old object forgets its child when it tells it to end.
LoadForgetsChild(l) ==
  /\ load[l].st = "sent"
  /\ LET e == services[load[l].name] IN
     IF e # None /\ svc[e].process # 0
     THEN /\ svc' = [svc EXCEPT ![e].status = "stopped", ![e].process = 0]
          /\ load' = At(l, "wait")
          /\ UNCHANGED <<services, child, call, unload>>
     ELSE Prepares(l)

\* The request arrives; a child of the name's present object is told to end.
LoadArrives(l) ==
  /\ load[l].st = "sent"
  /\ LET e == services[load[l].name] IN
     IF e # None /\ svc[e].process # 0
     THEN /\ svc' = [svc EXCEPT ![e].status = "stopped"]
          /\ load' = At(l, "wait")
          /\ UNCHANGED <<services, child, call, unload>>
     ELSE Prepares(l)

Waited(l) == load[l].st = "wait" /\ Prepares(l)

\* The dependencies are installed, or not.
Installed(l) ==
  /\ load[l].st = "install"
  /\ \/ Spawns(l, svc[l]) /\ load' = At(l, "settle")
     \/ /\ svc' = [svc EXCEPT ![l].status = "failed"]
        /\ load' = At(l, "bad") /\ UNCHANGED child
  /\ UNCHANGED <<services, call, unload>>

\* The child has had its second: the handshake begins.
Settled(l) ==
  /\ load[l].st = "settle"
  /\ IF Writable(l) THEN load' = At(l, "initialize") /\ UNCHANGED svc
                    ELSE HandshakeFails(l, svc[l])
  /\ UNCHANGED <<services, child, call, unload>>

\* The child answers the pending request of the handshake.
HandshakeAnswered(l) ==
  /\ load[l].st \in Handshake /\ Writable(l) /\ child[l][svc[l].process] = "up"
  /\ \/ HandshakeFails(l, svc[l])
     \/ /\ load' = At(l, IF load[l].st = "initialize" THEN "tools" ELSE "ok")
        /\ UNCHANGED svc
  /\ UNCHANGED <<services, child, call, unload>>

HandshakeTimesOut(l) ==
  /\ load[l].st \in Handshake
  /\ HandshakeFails(l, svc[l])
  /\ UNCHANGED <<services, child, call, unload>>

-----------------------------------------------------------------------------
(* Children.                                                               *)

\* A child ends, by itself or because it was told to.
ChildDies(l) ==
  /\ \E k \in DOMAIN child[l] : child[l][k] = "up" /\ child' = [child EXCEPT ![l][k] = "dead"]
  /\ UNCHANGED <<services, svc, load, call, unload>>

\* Mutant: an object out of restarts is not marked as crashed.
CrashUnnoticed(r) ==
  LET q == [r EXCEPT !.process = 0] IN
  IF r.status = "running" /\ r.restarts < MaxRestarts
  THEN [q EXCEPT !.restarts = @ + 1, !.status = "restarting", !.armed = TRUE]
  ELSE q

\* A service that was running is started again, MaxRestarts times at most.
AfterExit(r) ==
  LET q == [r EXCEPT !.process = 0] IN
  IF r.status # "running" THEN q
  ELSE IF r.restarts < MaxRestarts
  THEN [q EXCEPT !.restarts = @ + 1, !.status = "restarting", !.armed = TRUE]
  ELSE [q EXCEPT !.status = "crashed"]

\* The exit event: whoever waits for the child is told so.
ExitHandled(l) ==
  /\ \E k \in DOMAIN child[l] : child[l][k] = "dead" /\ child' = [child EXCEPT ![l][k] = "gone"]
  /\ Answer(PendingOn(l), "error")
  /\ IF load[l].st \in Handshake
     THEN HandshakeFails(l, AfterExit(svc[l]))
     ELSE svc' = [svc EXCEPT ![l] = AfterExit(@)] /\ UNCHANGED load
  /\ UNCHANGED <<services, unload>>

RestartTimer(l) ==
  /\ svc[l].armed
  /\ Spawns(l, svc[l])
  /\ UNCHANGED <<services, load, call, unload>>

-----------------------------------------------------------------------------
(* POST /call and POST /unload.                                            *)

CallArrives(c) ==
  /\ call[c].st = "sent"
  /\ LET l == services[call[c].name] IN
     IF l # None /\ svc[l].status = "running" /\ Writable(l)
     THEN call' = [call EXCEPT ![c].st = "pending", ![c].svc = l]
     ELSE Answer({c}, "error")
  /\ UNCHANGED <<services, svc, child, load, unload>>

ChildAnswers(c) ==
  /\ call[c].st = "pending"
  /\ LET l == call[c].svc IN Writable(l) /\ child[l][svc[l].process] = "up"
  /\ \E a \in {"result", "error"} : Answer({c}, a)
  /\ UNCHANGED <<services, svc, child, load, unload>>


CallTimesOut(c) ==
  /\ call[c].st = "pending"
  /\ Answer({c}, "error")
  /\ UNCHANGED <<services, svc, child, load, unload>>

\* Whoever waits for the object is told; the name is free, whatever it stands for now.
Frees(u, l, n) ==
  /\ Answer(PendingOn(l), "error")
  /\ services' = [services EXCEPT ![n] = None]
  /\ unload' = [unload EXCEPT ![u] = [st |-> "done", name |-> n, svc |-> l]]

UnloadArrives(u, n) ==
  /\ unload[u].st = "none" /\ services[n] # None
  /\ LET l == services[n] IN
     /\ svc' = [svc EXCEPT ![l].status = "stopped"]
     /\ IF svc[l].process # 0
        THEN /\ unload' = [unload EXCEPT ![u] = [st |-> "term", name |-> n, svc |-> l]]
             /\ UNCHANGED <<services, call>>
        ELSE Frees(u, l, n)
  /\ UNCHANGED <<child, load>>

\* A child that is still there is killed.
UnloadWaited(u) ==
  /\ unload[u].st = "term"
  /\ LET l == unload[u].svc
         k == svc[l].process
     IN /\ child' = IF k # 0 /\ child[l][k] = "up" THEN [child EXCEPT ![l][k] = "dead"] ELSE child
        /\ Frees(u, l, unload[u].name)
        /\ IF load[l].st \in Handshake THEN HandshakeFails(l, svc[l])
                                       ELSE UNCHANGED <<svc, load>>

-----------------------------------------------------------------------------

\* The supervisor ends and is started again: its container takes every child with
\* it, and the requests it had not answered are cut off.
RunnerStops ==
  /\ services' = [n \in Name |-> None]
  /\ svc' = [l \in Load |-> Fresh("stopped", 0)]
  /\ child' = [l \in Load |-> <<>>]
  /\ load' = [l \in Load |-> IF load[l].st \in {"none", "ok", "bad", "lost"} THEN load[l]
                             ELSE [load[l] EXCEPT !.st = "lost"]]
  /\ call' = [c \in Call |-> IF call[c].st \in {"sent", "pending"}
                             THEN [call[c] EXCEPT !.st = "error"] ELSE call[c]]
  /\ unload' = [u \in Unload |-> IF unload[u].st = "term"
                                 THEN [unload[u] EXCEPT !.st = "done"] ELSE unload[u]]

RunnerNext ==
  \/ \E l \in Load : \/ LoadArrives(l) \/ Waited(l) \/ Installed(l) \/ Settled(l)
                     \/ HandshakeAnswered(l) \/ HandshakeTimesOut(l)
                     \/ ChildDies(l) \/ ExitHandled(l) \/ RestartTimer(l)
  \/ \E c \in Call : CallArrives(c) \/ ChildAnswers(c) \/ CallTimesOut(c)
  \/ \E u \in Unload : UnloadWaited(u)
=============================================================================
