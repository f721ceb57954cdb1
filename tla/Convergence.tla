---------------------------- MODULE Convergence ----------------------------
(***************************************************************************)
(* Deployments that meet in the world: from the composed chart on, the     *)
(* stages of internal/application/deployment/execute.go over the publisher *)
(* (internal/adapter/outbound/oci/publisher.go) and the Argo CD client     *)
(* (internal/adapter/outbound/argocd/client.go).                           *)
(*                                                                         *)
(* The in-flight map of the executor keeps the drivers of one deployment   *)
(* apart, not two deployments of one application: those share the          *)
(* repository of its charts, and in one environment the Argo CD            *)
(* Application.  Here every deployment has one driver and every save       *)
(* succeeds (Executor has the races and the faults of those, and further   *)
(* requests with one identity); every call of the registry and of Argo CD  *)
(* is a step, and its effect and the save after it are two, so a crash, or *)
(* another deployment, comes between.                                      *)
(*                                                                         *)
(* Argo CD is external: a project is what an administrator last made of    *)
(* it; an Application points at a tag; a controller compares, starts the   *)
(* automated sync, and reports the sync status and the health it saw last. *)
(***************************************************************************)
EXTENDS FiniteSets, Integers, Sequences

CONSTANTS
  None,
  Ids,         \* identities of deployments
  Request,     \* for each: application, environment, namespace, project, commit
  Seconds,     \* bound: the seconds in which requests arrive
  Project,     \* of each AppProject at first: its sources and destinations
  Edits,       \* bound: what an administrator may make of which project
  Source, Server,  \* the registry host, and the cluster of the destination
  MaxCrashes   \* bound: crashes of the server

ASSUME BoundsAssumption == MaxCrashes \in Nat

ASSUME ProjectsAssumption ==
  /\ Project \in [DOMAIN Project -> {Project[p] : p \in DOMAIN Project}]
  /\ \A i \in Ids : Request[i].project \in DOMAIN Project
  /\ \A e \in Edits : e.project \in DOMAIN Project

\* A nil is no value.
ASSUME NilAssumption ==
  /\ None \notin Ids
  /\ \A i \in Ids, n \in Seconds :
       LET r == Request[i]
           tag == [app |-> r.app, second |-> n, sha |-> r.sha]
       IN  /\ None # [app |-> r.app, environment |-> r.environment, namespace |-> r.namespace,
                      project |-> r.project, sha |-> r.sha, second |-> n]
           /\ None # tag
           /\ \A b \in BOOLEAN : None # [tag |-> tag, automated |-> b]
           /\ \A d \in Ids : None # [tag |-> tag, by |-> d]

VARIABLES
  request,   \* of each deployment: what was asked for, and the second of startedAt
  status,    \* its stored status
  health,    \* its stored health: the sync status and the health Argo CD reported
  pc,        \* the call its driver is about to make, or the save
  inForce,   \* history: what its project has been since its drive began
  registry,  \* OCI: who composed the chart under each tag
  project,   \* Argo CD: the projects
  app,       \*   the spec of each Application
  pointed,   \*   history: the tags an Application has pointed at
  op, last,  \*   the sync operation under way, and the one that ended last
  live,      \*   what runs: a tag, and who composed it
  seen,      \*   status as the controller wrote it last
  crashes

drives == <<request, status, health, pc, inForce>>
target == <<app, pointed>>
argo == <<project, app, pointed, op, last, live, seen>>
vars == <<request, status, health, pc, inForce, registry, project, app, pointed, op,
          last, live, seen, crashes>>

\* NewArgoAppName: the parts, joined.
NewArgoAppName(r) == r.app \o "-" \o r.environment \o "-" \o r.namespace
ArgoAppName(d) == NewArgoAppName(request[d])
Names == {NewArgoAppName(Request[d]) : d \in Ids}

\* buildRef and NewDeploymentVersion: the repository is the application's, the
\* version the chart's (one here), the second of startedAt and the commit.
Tag(d) == [app |-> request[d].app, second |-> request[d].second, sha |-> request[d].sha]
Tags == [app : {Request[d].app : d \in Ids}, second : Seconds,
         sha : {Request[d].sha : d \in Ids}]

Unknown == [sync |-> "", health |-> ""]

Init ==
  /\ request = [d \in Ids |-> None]
  /\ status = [d \in Ids |-> ""]
  /\ health = [d \in Ids |-> Unknown]
  /\ pc = [d \in Ids |-> "idle"] /\ inForce = [d \in Ids |-> {}]
  /\ registry = [t \in Tags |-> None]
  /\ project = Project
  /\ app = [a \in Names |-> None] /\ pointed = [a \in Names |-> {}]
  /\ op = [a \in Names |-> None] /\ last = [a \in Names |-> None]
  /\ live = [a \in Names |-> None] /\ seen = [a \in Names |-> Unknown]
  /\ crashes = 0

---------------------------------------------------------------------------
(* A drive.                                                                *)

Goto(d, place) == pc' = [pc EXCEPT ![d] = place]

\* A call leaves the record alone; the save after it is a step of its own.
Calls(d, place) == Goto(d, place) /\ UNCHANGED <<request, status, health, inForce>>

\* A drive begins, under what the project is now.
Begin(d, p, place) ==
  /\ pc[d] = "idle"
  /\ Goto(d, place)
  /\ inForce' = [inForce EXCEPT ![d] = {project[p]}]

Accepted(r, second) ==
  [app |-> r.app, environment |-> r.environment, namespace |-> r.namespace,
   project |-> r.project, sha |-> r.sha, second |-> second]

\* POST /deployments, and the stages up to the composed chart.  NewDeploymentID makes
\* the identity out of the day, the application, the environment and the commit.
Create(d, second) ==
  /\ request[d] = None
  /\ request' = [request EXCEPT ![d] = Accepted(Request[d], second)]
  /\ status' = [status EXCEPT ![d] = "CHART_COMPOSED"]
  /\ Begin(d, Request[d].project, "publish")
  /\ UNCHANGED <<health, registry, argo, crashes>>

\* What run does at a status: the next call, the last save, or an error.
Stage == [ARTIFACT_PUBLISHED |-> "validate", ARGO_APP_CREATED |-> "sync",
          SYNCING |-> "poll", HEALTHY |-> "complete", DEGRADED |-> "fail"]

\* POST /deployments/{id}/deploy: run has a stage for these statuses; loaded at
\* CHART_COMPOSED or DEGRADED, a deployment is left as it is.
Redeploy(d) ==
  /\ status[d] \in {"ARTIFACT_PUBLISHED", "ARGO_APP_CREATED", "SYNCING", "HEALTHY"}
  /\ Begin(d, request[d].project, Stage[status[d]])
  /\ UNCHANGED <<request, status, health, registry, argo, crashes>>

\* step: the status after an effect is saved, and run goes on from it.
Saves == [published |-> "ARTIFACT_PUBLISHED", created |-> "ARGO_APP_CREATED",
          synced |-> "SYNCING", healthy |-> "HEALTHY", degraded |-> "DEGRADED"]

Step(d) ==
  /\ pc[d] \in DOMAIN Saves
  /\ status' = [status EXCEPT ![d] = Saves[pc[d]]]
  /\ Goto(d, Stage[Saves[pc[d]]])
  /\ UNCHANGED <<request, health, inForce, registry, argo, crashes>>

\* The save that ends a drive: Complete, or Execute's Fail after an error.
Ends == [complete |-> "COMPLETED", fail |-> "FAILED"]

End(d) ==
  /\ pc[d] \in DOMAIN Ends
  /\ status' = [status EXCEPT ![d] = Ends[pc[d]]]
  /\ Goto(d, "idle")
  /\ inForce' = [inForce EXCEPT ![d] = {}]
  /\ UNCHANGED <<request, health, registry, argo, crashes>>

\* A call fails without an effect.
CallFails(d) ==
  /\ pc[d] \in {"publish", "validate", "update", "sync", "poll"}
  /\ Calls(d, "fail")
  /\ UNCHANGED <<registry, argo, crashes>>

---------------------------------------------------------------------------
(* The publisher and the Argo CD client.                                   *)

\* Mutation: an error of the push is logged and the drive goes on.
PublishIgnoringErrors(d) ==
  /\ pc[d] = "publish"
  /\ registry' \in {registry, [registry EXCEPT ![Tag(d)] = d]}
  /\ Calls(d, "published")
  /\ UNCHANGED <<argo, crashes>>

\* Push: what was under the tag is replaced, and the answer may be lost.
Publish(d) ==
  /\ pc[d] = "publish"
  /\ registry' = [registry EXCEPT ![Tag(d)] = d]
  /\ \E place \in {"published", "fail"} : Calls(d, place)
  /\ UNCHANGED <<argo, crashes>>

Admits(pattern, x) == pattern \in {"*", x}

\* The loops of ValidateProject: a source, and a destination with both its parts.
Permits(p, source, server, namespace) ==
  /\ \E s \in p.sources : Admits(s, source)
  /\ \E x \in p.destinations : Admits(x.server, server) /\ Admits(x.namespace, namespace)

\* Mutation: a deployment whose chart was a target before is not validated again.
ValidateProjectOnce(d) ==
  LET again == \E a \in Names : Tag(d) \in pointed[a]
  IN  /\ pc[d] = "validate"
      /\ Calls(d, IF again \/ Permits(project[request[d].project], Source, Server,
                                      request[d].namespace)
                  THEN "post" ELSE "fail")
      /\ UNCHANGED <<registry, argo, crashes>>

\* ValidateProject: of the project as it is now.
ValidateProject(d) ==
  /\ pc[d] = "validate"
  /\ Calls(d, IF Permits(project[request[d].project], Source, Server, request[d].namespace)
              THEN "post" ELSE "fail")
  /\ UNCHANGED <<registry, argo, crashes>>

\* Mutation: the Application has no automated sync policy.
SpecManual(d) == [tag |-> Tag(d), automated |-> FALSE]

\* argoSpec and the payload of CreateOrUpdate.
ArgoSpec(d) == [tag |-> Tag(d), automated |-> TRUE]

Point(a, spec) ==
  /\ app' = [app EXCEPT ![a] = spec]
  /\ pointed' = [pointed EXCEPT ![a] = @ \cup {spec.tag}]

\* The POST of CreateOrUpdate: Argo CD refuses an Application that exists, unless it
\* is the same; any error, also one after it was applied, leads to the PUT.
PostApplication(d) ==
  LET a == ArgoAppName(d)
  IN  /\ pc[d] = "post"
      /\ \/ /\ app[a] = None /\ Point(a, ArgoSpec(d))
            /\ \E place \in {"created", "update"} : Calls(d, place)
         \/ app[a] = ArgoSpec(d) /\ Calls(d, "created") /\ UNCHANGED target
         \/ Calls(d, "update") /\ UNCHANGED target
      /\ UNCHANGED <<registry, project, op, last, live, seen, crashes>>

\* Mutation: an Application that exists is left as it is.
PutApplicationNot(d) ==
  /\ pc[d] = "update" /\ app[ArgoAppName(d)] # None
  /\ Calls(d, "created")
  /\ UNCHANGED <<registry, argo, crashes>>

\* Its PUT.
PutApplication(d) ==
  LET a == ArgoAppName(d)
  IN  /\ pc[d] = "update" /\ app[a] # None
      /\ Point(a, ArgoSpec(d))
      /\ \E place \in {"created", "fail"} : Calls(d, place)
      /\ UNCHANGED <<registry, project, op, last, live, seen, crashes>>

\* Sync of what the Application points at now.  An operation under way counts as
\* accepted, whatever it syncs.
Sync(d) ==
  LET a == ArgoAppName(d)
  IN  /\ pc[d] = "sync"
      /\ \/ op[a] # None /\ UNCHANGED op /\ Calls(d, "synced")
         \/ /\ op[a] = None /\ op' = [op EXCEPT ![a] = app[a].tag]
            /\ \E place \in {"synced", "fail"} : Calls(d, place)
      /\ UNCHANGED <<registry, project, target, last, live, seen, crashes>>

\* Client.Status: what Argo CD wrote last, not what is.
Status(d) == seen[ArgoAppName(d)]

\* The round of pollHealth that ends it: "Healthy" is one result, "Degraded" and
\* the deadline are the other.  Of the earlier rounds nothing is left, their health is
\* overwritten.
Poll(d) ==
  /\ pc[d] = "poll"
  /\ health' = [health EXCEPT ![d] = Status(d)]
  /\ Goto(d, IF Status(d).health = "Healthy" THEN "healthy" ELSE "degraded")
  /\ UNCHANGED <<request, status, inForce, registry, argo, crashes>>

---------------------------------------------------------------------------
(* Argo CD's controller and administrators, and the crash of the server.   *)

Synced(a) == live[a] # None /\ live[a].tag = app[a].tag

\* A comparison: the status is written ("Degraded" stands for "Missing" and
\* "Progressing" too, on which a poll can only end at its deadline); what is out of
\* sync is synced if the policy says so, but no tag is tried twice in a row.
Refresh(a) ==
  /\ app[a] # None
  /\ \E h \in IF live[a] = None THEN {"Degraded"} ELSE {"Healthy", "Degraded"} :
       seen' = [seen EXCEPT ![a] = [sync |-> IF Synced(a) THEN "Synced" ELSE "OutOfSync",
                                    health |-> h]]
  /\ op' = IF /\ ~Synced(a) /\ app[a].automated /\ op[a] = None
              /\ last[a] # app[a].tag
           THEN [op EXCEPT ![a] = app[a].tag]
           ELSE op
  /\ UNCHANGED <<drives, registry, project, target, last, live, crashes>>

\* The operation ends: the chart under its tag runs, or the sync has failed, and
\* may have torn down what ran.
EndSync(a) ==
  /\ op[a] # None
  /\ last' = [last EXCEPT ![a] = op[a]]
  /\ op' = [op EXCEPT ![a] = None]
  /\ \/ live' = [live EXCEPT ![a] = [tag |-> op[a], by |-> registry[op[a]]]]
     \/ live' \in {live, [live EXCEPT ![a] = None]}
  /\ UNCHANGED <<drives, registry, project, target, seen, crashes>>

\* An administrator edits a project, under whatever drives.
EditProject(e) ==
  /\ project[e.project] # e.definition
  /\ project' = [project EXCEPT ![e.project] = e.definition]
  /\ inForce' = [d \in Ids |-> IF pc[d] # "idle" /\ request[d].project = e.project
                               THEN inForce[d] \cup {e.definition}
                               ELSE inForce[d]]
  /\ UNCHANGED <<request, status, health, pc, registry, target, op, last, live, seen,
                 crashes>>

Crash ==
  /\ crashes < MaxCrashes
  /\ crashes' = crashes + 1
  /\ \E d \in Ids : pc[d] # "idle"
  /\ pc' = [d \in Ids |-> "idle"] /\ inForce' = [d \in Ids |-> {}]
  /\ UNCHANGED <<request, status, health, registry, argo>>

---------------------------------------------------------------------------

Drive(d) ==
  \/ \E second \in Seconds : Create(d, second)
  \/ Redeploy(d) \/ Step(d) \/ End(d) \/ CallFails(d)
  \/ Publish(d) \/ ValidateProject(d) \/ PostApplication(d) \/ PutApplication(d)
  \/ Sync(d) \/ Poll(d)

Next ==
  \/ \E d \in Ids : Drive(d)
  \/ \E a \in Names : Refresh(a) \/ EndSync(a)
  \/ \E e \in Edits : EditProject(e)
  \/ Crash

Spec == Init /\ [][Next]_vars

\* Argo CD's controller compares again and again, and an operation ends: the
\* platform relies on both, and on nothing it does itself.
FairSpec == Spec /\ \A a \in Names : WF_vars(Refresh(a)) /\ WF_vars(EndSync(a))

---------------------------------------------------------------------------
(* Properties.                                                             *)

Applied == {"ARGO_APP_CREATED", "SYNCING", "HEALTHY", "DEGRADED", "COMPLETED"}

Statuses == Applied \cup {"", "CHART_COMPOSED", "ARTIFACT_PUBLISHED", "FAILED"}
Places == {"idle", "publish", "published", "validate", "post", "update", "created",
           "sync", "synced", "poll", "healthy", "degraded", "complete", "fail"}
Accepteds == {Accepted(Request[d], n) : d \in Ids, n \in Seconds}
Definitions == {Project[p] : p \in DOMAIN Project} \cup {e.definition : e \in Edits}

\* Types of the variables; an Application only points at a tag that was pushed.
TypeOK ==
  /\ request \in [Ids -> {None} \cup Accepteds]
  /\ status \in [Ids -> Statuses]
  /\ pc \in [Ids -> Places]
  /\ inForce \in [Ids -> SUBSET Definitions]
  /\ project \in [DOMAIN Project -> Definitions]
  /\ registry \in [Tags -> Ids \cup {None}]
  /\ \A a \in Names :
       /\ pointed[a] \subseteq {t \in Tags : registry[t] # None}
       /\ {op[a], last[a]} \subseteq pointed[a] \cup {None}
       /\ live[a] # None => live[a].tag \in pointed[a] /\ live[a].by \in Ids
  /\ crashes \in 0 .. MaxCrashes

\* A deployment that says it was applied had its chart as the target of its
\* Application at some time, also when its POST was refused because another
\* deployment had created the Application first, or was answered with an error
\* after it was applied (client.go:134-143).
AppliedWasTarget ==
  \A d \in Ids : status[d] \in Applied => Tag(d) \in pointed[ArgoAppName(d)]

\* What a project allows, with its wildcards written out.
Spelled(pattern, all) == IF pattern = "*" THEN all ELSE {pattern}
Allowed(p) ==
  UNION {Spelled(s, {Source, "elsewhere"}) \X Spelled(x.server, {Server, "other"})
           \X Spelled(x.namespace, {Request[d].namespace : d \in Ids}) :
         s \in p.sources, x \in p.destinations}

\* No Application is created or re-pointed, also by a write that is answered with an
\* error, outside of what its project allowed, source and destination in one, at some
\* time of that very drive: a drive after a crash does not rely on what was checked
\* before it, whatever an administrator has made of the project since.  Between the
\* look at the project and the write its definition may change (client.go:55-98,
\* execute.go:241-253).
TargetIsAllowed ==
  [][\A a \in Names :
       app'[a] # app[a] =>
         \E d \in Ids :
           /\ pc'[d] # pc[d] /\ ArgoAppName(d) = a
           /\ \E p \in inForce[d] : <<Source, Server, request[d].namespace>> \in Allowed(p)]_vars

\* What runs under an Application was composed for it, and not for another
\* environment of the same application, whose chart goes to the same repository: the
\* version keeps them apart (valueobject.go:43).
RunsItsOwn == \A a \in Names : live[a] # None => ArgoAppName(live[a].by) = a

Targets(d) ==
  request[d] # None /\ app[ArgoAppName(d)] # None /\ app[ArgoAppName(d)].tag = Tag(d)
Replaced(d) == ~Targets(d)
Tried(d) ==
  LET a == ArgoAppName(d)
  IN  /\ request[d] # None
      /\ last[a] = Tag(d) \/ (live[a] # None /\ live[a].tag = Tag(d))

\* A deployment that reached SYNCING is synced, or was at least tried, unless
\* another deployment re-pointed the Application; also when its own sync call met
\* an operation on an older chart and was taken for accepted (client.go:154-160).
SyncedOrReplaced ==
  \A d \in Ids : status[d] = "SYNCING" ~> (Tried(d) \/ Replaced(d))

\* A deployment completes only when Argo CD reported Synced and Healthy.
CompletedWasSynced ==
  \A d \in Ids : status[d] = "COMPLETED" => health[d].sync = "Synced"
===========================================================================
