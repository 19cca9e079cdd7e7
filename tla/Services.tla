------------------------------- MODULE Services -------------------------------
(***************************************************************************)
(* Managed MCP services: the broker's catalog, its deploy, undeploy and    *)
(* call handlers, and the runner they reach over HTTP.                     *)
(***************************************************************************)
EXTENDS Naturals, Sequences, FiniteSets

CONSTANTS Service, \* rows of the catalog: [mesh, name]
          Load, Call, Unload, None, MaxRestarts, MaxTries,
          MaxServices, \* services of one mesh
          Scene        \* [deploys, to, events]: how many deploys, of which services,
                       \* and what else may happen

Name == {v.name : v \in Service}
Mesh == {v.mesh : v \in Service}
Event == {"call", "undeploy", "unload", "broker stops", "runner stops", "fetch fails",
          "statement fails"}

ASSUME ServicesAssumption ==
  /\ \A v \in Service : DOMAIN v = {"mesh", "name"}
  /\ None \notin Load /\ None \notin Service /\ None \notin Name
  /\ MaxRestarts \in Nat /\ MaxTries \in Nat \ {0}
  /\ Load \subseteq Nat /\ MaxServices \in Nat
  /\ Scene \subseteq [deploys : SUBSET Load, to : SUBSET Service, events : SUBSET Event]

VARIABLES services, svc, child, load, call, unload,
          row,    \* status of each service in the catalog
          deploy, \* where each mcp_deploy stands, and its service
          caller, \* the service a call asked for
          sync,   \* where the check of each row at startup stands
          scene   \* what may still happen; each restart happens once

runnerVars == <<services, svc, child, load, call, unload>>
brokerVars == <<row, deploy, caller, sync>>
vars == <<runnerVars, brokerVars, scene>>

R == INSTANCE Runner

RowStatus == {"none", "building", "running", "failed", "stopped"}
\* A deploy before its row is written, before its load is sent, and after.
Deploying == {"listed", "found", "absent", "gone"}
DeployState == Deploying \cup {"idle", "written", "loading", "caught", "done", "unwritten", "cut"}

TypeOK ==
  /\ R!RunnerTypeOK
  /\ row \in [Service -> RowStatus]
  /\ deploy \in [Load -> [st : DeployState, of : Service \cup {None}]]
  /\ caller \in [Call -> Service \cup {None}]
  /\ sync \in [Service -> {"idle", "due", "read", "up", "down"}]
  /\ scene \in [deploys : SUBSET Load, to : SUBSET Service, events : SUBSET Event]

\* The catalog survives restarts: it may hold services that were stopped long ago.
Init ==
  /\ R!RunnerInit
  /\ row \in [Service -> {"none", "stopped"}]
  /\ deploy = [l \in Load |-> [st |-> "idle", of |-> None]]
  /\ caller = [c \in Call |-> None]
  /\ sync = [v \in Service |-> "idle"]
  /\ scene \in Scene

-----------------------------------------------------------------------------
(* mcp_deploy.                                                             *)

\* Mutant: the status is written by an upsert.
Upsert(v, status) == row' = [row EXCEPT ![v] = status]

\* UPDATE ... WHERE: a row that is gone stays gone.
Update(v, status) == row' = IF row[v] = "none" THEN row ELSE [row EXCEPT ![v] = status]

StatementFails == "statement fails" \in scene.events
InMesh(m) == {v \in Service : v.mesh = m /\ row[v] # "none"}
Moves(l, st) == deploy' = [deploy EXCEPT ![l].st = st]

DeployRequested(l, v) ==
  /\ l \in scene.deploys /\ v \in scene.to
  /\ deploy[l].st = "idle" /\ \A k \in Load : k < l => deploy[k].st # "idle"
  /\ deploy' = [deploy EXCEPT ![l] =
       [st |-> IF Cardinality(InMesh(v.mesh)) >= MaxServices THEN "done" ELSE "listed", of |-> v]]
  /\ UNCHANGED <<runnerVars, row, caller, sync, scene>>

\* The upsert looks for the row first.
Selected(l) ==
  /\ deploy[l].st = "listed"
  /\ Moves(l, IF row[deploy[l].of] = "none" THEN "absent" ELSE "found")
  /\ UNCHANGED <<runnerVars, row, caller, sync, scene>>

\* The row that was found is updated by its id, which writes nothing when it was
\* deleted since; where none was found one is inserted, which the unique index
\* refuses when another deploy was first.
Upserted(l) ==
  /\ LET absent == row[deploy[l].of] = "none"
     IN \/ /\ deploy[l].st = "found" \/ (deploy[l].st = "absent" /\ absent)
           /\ row' = [row EXCEPT ![deploy[l].of] = "building"] /\ Moves(l, "written")
        \/ deploy[l].st = "gone" /\ UNCHANGED row /\ Moves(l, "written")
        \/ deploy[l].st = "absent" /\ ~absent /\ UNCHANGED row /\ Moves(l, "done")
  /\ UNCHANGED <<runnerVars, caller, sync, scene>>

\* Nothing is written, and the deploy is refused.
UpsertFails(l) ==
  /\ StatementFails /\ deploy[l].st \in Deploying /\ Moves(l, "done")
  /\ UNCHANGED <<runnerVars, row, caller, sync, scene>>

LoadSent(l) ==
  /\ deploy[l].st = "written" /\ Moves(l, "loading")
  /\ load' = [load EXCEPT ![l] = [st |-> "sent", name |-> deploy[l].of.name]]
  /\ UNCHANGED <<services, svc, child, call, unload, row, caller, sync, scene>>

\* Mutant: a request that is cut off leaves the row as it is.
PipelineUncaught(l) ==
  /\ deploy[l].st = "loading" /\ load[l].st \in {"ok", "bad", "lost"}
  /\ IF load[l].st = "lost" THEN UNCHANGED row
     ELSE Update(deploy[l].of, IF load[l].st = "ok" THEN "running" ELSE "failed")
  /\ Moves(l, "done")
  /\ UNCHANGED <<runnerVars, caller, sync, scene>>

\* The runner's answer is written to the row; without one, or when it cannot be
\* written, the pipeline's catch is next.
PipelineEnds(l) ==
  /\ deploy[l].st = "loading" /\ load[l].st \in {"ok", "bad", "lost"}
  /\ \/ /\ load[l].st # "lost" /\ Moves(l, "done")
        /\ Update(deploy[l].of, IF load[l].st = "ok" THEN "running" ELSE "failed")
     \/ /\ load[l].st = "lost" \/ StatementFails
        /\ UNCHANGED row /\ Moves(l, "caught")
  /\ UNCHANGED <<runnerVars, caller, sync, scene>>

\* The request is given up, by a timeout or a reset, and the runner goes on with it.
FetchFails(l) ==
  /\ "fetch fails" \in scene.events /\ deploy[l].st = "loading" /\ Moves(l, "caught")
  /\ UNCHANGED <<runnerVars, row, caller, sync, scene>>

\* The catch writes a failure; that this fails as well is ignored.
CaughtWritten(l) ==
  /\ deploy[l].st = "caught"
  /\ \/ Update(deploy[l].of, "failed") /\ Moves(l, "done")
     \/ StatementFails /\ UNCHANGED row /\ Moves(l, "unwritten")
  /\ UNCHANGED <<runnerVars, caller, sync, scene>>

\* mcp_undeploy: service-manager's undeploy knows no service, since the runner has
\* them, and returns; the row is deleted, also under a deploy that has found it.
Undeploy(v) ==
  /\ "undeploy" \in scene.events /\ row[v] # "none"
  /\ row' = [row EXCEPT ![v] = "none"]
  /\ deploy' = [l \in Load |-> IF deploy[l] = [st |-> "found", of |-> v]
                               THEN [deploy[l] EXCEPT !.st = "gone"] ELSE deploy[l]]
  /\ UNCHANGED <<runnerVars, caller, sync, scene>>

-----------------------------------------------------------------------------
(* mcp_call.                                                               *)

CallRequested(c, v) ==
  /\ "call" \in scene.events /\ call[c].st = "idle"
  /\ call' = [call EXCEPT ![c] = [st |-> "lookup", name |-> v.name, svc |-> None]]
  /\ caller' = [caller EXCEPT ![c] = v]
  /\ UNCHANGED <<services, svc, child, load, unload, row, deploy, sync, scene>>

\* A running service's call goes to the runner, any other to a peer that might
\* have registered the name: here none has.
CallLooked(c) ==
  /\ call[c].st = "lookup"
  /\ call' = [call EXCEPT ![c].st = IF row[caller[c]] = "running" THEN "sent" ELSE "error"]
  /\ UNCHANGED <<services, svc, child, load, unload, brokerVars, scene>>

CallReplied(c) ==
  /\ call[c].st \in {"result", "error"}
  /\ call' = [call EXCEPT ![c].st = "replied"]
  /\ UNCHANGED <<services, svc, child, load, unload, brokerVars, scene>>

-----------------------------------------------------------------------------
(* Restarts.                                                               *)

Happens(e) == e \in scene.events /\ scene' = [scene EXCEPT !.events = @ \ {e}]

\* The broker ends: its pipelines and calls with it, whatever the runner does of
\* them. Once it is up again it serves, and its startup check is yet to begin.
BrokerStops ==
  /\ Happens("broker stops")
  /\ deploy' = [l \in Load |->
       CASE deploy[l].st \in Deploying -> [deploy[l] EXCEPT !.st = "done"]
         [] deploy[l].st \in {"written", "loading", "caught"} -> [deploy[l] EXCEPT !.st = "cut"]
         [] OTHER -> deploy[l]]
  /\ call' = [c \in Call |-> IF call[c].st \in {"idle", "replied"} THEN call[c]
                             ELSE [call[c] EXCEPT !.st = "dropped"]]
  /\ sync' = [v \in Service |-> "due"]
  /\ UNCHANGED <<services, svc, child, load, unload, row, caller>>

\* The check goes from mesh to mesh and reads the rows that may be running. A
\* statement that fails ends it.
RowsRead(m) ==
  /\ \A v \in Service : sync[v] \in {"idle", "due"}
  /\ \E v \in Service : v.mesh = m /\ sync[v] = "due"
  /\ \/ sync' = [v \in Service |-> IF v.mesh # m THEN sync[v]
                                   ELSE IF row[v] \in {"running", "failed"} THEN "read" ELSE "idle"]
     \/ StatementFails /\ sync' = [v \in Service |-> "idle"]
  /\ UNCHANGED <<runnerVars, row, deploy, caller, scene>>

\* It asks the runner for its services, once per mesh, or finds it unreachable.
HealthRead(m) ==
  /\ \E v \in Service : v.mesh = m /\ sync[v] = "read"
  /\ \E reachable \in BOOLEAN :
       sync' = [v \in Service |->
         IF v.mesh # m \/ sync[v] # "read" THEN sync[v]
         ELSE IF ~reachable THEN "idle"
         ELSE IF services[v.name] # None /\ svc[services[v.name]].status = "running"
         THEN "up" ELSE "down"]
  /\ UNCHANGED <<runnerVars, row, deploy, caller, scene>>

\* A row the runner serves is written only if its tools can be read as well; when a
\* row it does not serve cannot be written, the rest of the mesh is left as it is.
SyncWritten(v) ==
  /\ \/ /\ \/ sync[v] = "up" /\ (Update(v, "running") \/ UNCHANGED row)
           \/ sync[v] = "down" /\ Update(v, "stopped")
        /\ sync' = [sync EXCEPT ![v] = "idle"]
     \/ /\ sync[v] = "down" /\ StatementFails /\ UNCHANGED row
        /\ sync' = [w \in Service |-> IF w.mesh = v.mesh THEN "idle" ELSE sync[w]]
  /\ UNCHANGED <<runnerVars, deploy, caller, scene>>

RunnerStops ==
  /\ Happens("runner stops")
  /\ R!RunnerStops
  /\ UNCHANGED brokerVars

OfRunner(A) == A /\ UNCHANGED <<brokerVars, scene>>

Next ==
  \/ OfRunner(R!RunnerNext)
  \/ "unload" \in scene.events /\ OfRunner(\E u \in Unload, n \in Name : R!UnloadArrives(u, n))
  \/ \E l \in Load :
       \/ (\E v \in Service : DeployRequested(l, v)) \/ Selected(l) \/ Upserted(l)
       \/ UpsertFails(l) \/ LoadSent(l) \/ PipelineEnds(l) \/ FetchFails(l) \/ CaughtWritten(l)
  \/ \E v \in Service : Undeploy(v) \/ SyncWritten(v)
  \/ \E m \in Mesh : RowsRead(m) \/ HealthRead(m)
  \/ \E c \in Call : (\E v \in Service : CallRequested(c, v)) \/ CallLooked(c) \/ CallReplied(c)
  \/ BrokerStops \/ RunnerStops

Spec == Init /\ [][Next]_vars

\* Both event loops run, their timers fire, HTTP requests arrive, and installations
\* and children that were told to end do end.  A child need never answer.
Fairness ==
  /\ \A l \in Load :
       /\ WF_vars(Selected(l)) /\ WF_vars(Upserted(l)) /\ WF_vars(LoadSent(l))
       /\ WF_vars(PipelineEnds(l)) /\ WF_vars(CaughtWritten(l))
       /\ WF_vars(OfRunner(R!LoadArrives(l))) /\ WF_vars(OfRunner(R!Waited(l)))
       /\ WF_vars(OfRunner(R!Installed(l))) /\ WF_vars(OfRunner(R!Settled(l)))
       /\ WF_vars(OfRunner(R!HandshakeTimesOut(l))) /\ WF_vars(OfRunner(R!ExitHandled(l)))
       /\ WF_vars(OfRunner(R!RestartTimer(l)))
  /\ \A c \in Call :
       /\ WF_vars(CallLooked(c)) /\ WF_vars(CallReplied(c))
       /\ WF_vars(OfRunner(R!CallArrives(c))) /\ WF_vars(OfRunner(R!CallTimesOut(c)))
  /\ \A u \in Unload : WF_vars(OfRunner(R!UnloadWaited(u)))
  /\ \A v \in Service : WF_vars(SyncWritten(v))
  /\ \A m \in Mesh : WF_vars(RowsRead(m)) /\ WF_vars(HealthRead(m))

LiveSpec == Spec /\ Fairness

-----------------------------------------------------------------------------
(* Properties.                                                             *)

Up(l) == {k \in DOMAIN child[l] : child[l][k] = "up"}

\* A service object has one living child at most, and it is the one the object
\* points to: otherwise neither /load nor /unload could end it. A child that keeps
\* crashing is started MaxRestarts times again, then no more.
OneChild == \A l \in Load : Up(l) \subseteq {svc[l].process} /\ Len(child[l]) <= MaxRestarts + 1


\* A row leaves "building", for whatever reason its pipeline ends, and also when a
\* second deploy or an undeploy came in between. Two cases are left out: a broker that
\* restarts forgets its pipelines and does not look at rows that are building, and a
\* failure that cannot be written either is ignored.
BuildingEnds ==
  \A v \in Service :
    row[v] = "building" ~>
      \/ row[v] # "building"
      \/ \E l \in Load : deploy[l].of = v /\ deploy[l].st \in {"cut", "unwritten"}

\* A service that was undeployed does not come back by itself: neither a pipeline nor
\* the startup check, both of which write what they read earlier, recreates its row.
OnlyDeployCreates ==
  [][\A v \in Service : row[v] = "none" /\ row'[v] # "none" => row'[v] = "building"]_row
=============================================================================
