# A specification of the platform orchestrator

The platform orchestrator is an HTTP service. It accepts requests to deploy an
application, and takes each deployment through a pipeline: it resolves an
umbrella chart, composes it with the application's values, publishes the result
to an OCI registry, points an Argo CD Application at it, asks for a sync and
polls until Argo CD reports the application healthy. The pipeline runs in
detached goroutines of the server itself, its state is a document in MongoDB,
and the service is deployed with two replicas (`deploy/kubernetes/server.yaml`).

This directory holds TLA+ modules of that program, the TLC configurations that
check them, and proofs that TLAPS checks. Paths and lines in this file and in
the modules are those of the repository.

## 1. Inventory

| Component | State it keeps | Operations | What makes it correct |
|---|---|---|---|
| Deployment aggregate, `internal/domain/deployment` | status, metadata, artifact, Argo CD app, health, error, times | `New`, `TransitionTo`, the setters, `Fail`, `Complete`, `Reject` | the status only moves along `_transitions`; terminal is final |
| Executor, `internal/application/deployment/execute.go` | `inflight` map of the process; the aggregate and the chart archive of each run | `Execute`, `run`, `pollHealth`, `step` | one driver per deployment and process; every drive ends; a re-drive resumes; the record never runs ahead of the world |
| Repository, `internal/adapter/outbound/persistence` | the collection, shared by all replicas | `Save` (upsert by `$set`), `FindByID`, `FindByApplication` | a merge of two saves never makes a document nobody meant |
| Deployment handlers, `internal/adapter/inbound/http/handler/deployment.go`, `create.go`, `get.go` | none | create, redeploy, status, validation of tunables | what is stored is what the request declared |
| Gates of create: `resources.go`, `policy/allowlist.go`, `policy/resource.go`, `resource.go` | the loaded policies | reserved value paths, tunable allowlist, resource policy | closed when a policy is missing; the dry run agrees with the create |
| Argo CD client, `argocd/client.go` | none here; the Applications in Argo CD | `ValidateProject`, `CreateOrUpdate`, `Sync`, `Status` | idempotent against a re-drive |
| OCI resolver, composer, publisher, `oci/` | logins per registry host | `Resolve`, `Compose`, `Publish` | the version picked satisfies the constraint; the merge gives the platform the last word |
| GitHub App authentication, scaffolder, `github/`, `handler/apps.go` | a cached installation token | dispatch of a scaffold, readiness of a scaffolded application | no expired token is handed out; the readiness agrees with what exists |
| Token validation, configuration, routing, telemetry, wiring | none that changes | | |

How they interact. The create handler builds an aggregate, saves it and starts a
goroutine with its identity; the redeploy handler starts one for any identity.
The goroutine takes the process-wide lock of that identity, loads the document,
and from then on works on its own copy of the aggregate: a stage calls the
registry or Argo CD, moves the copy along the status machine, and saves the
whole copy. Nothing but the document and the lock is shared, the lock by the
goroutines of one process only, the document by all replicas.

What is hard about it:

* *Interleaving.* Create triggers and redeploys race for the lock; two replicas
  do not see each other's lock at all and overwrite each other's saves.
* *Failure between effect and record.* A push, an Application or a sync may
  have happened although its call, or the save after it, returned an error.
* *Crashes.* `Shutdown` waits for the requests, not for the goroutines. A drive
  may stop between any two calls and has to be resumable from its document.
* *The upsert.* `$set` with `omitempty` does not replace a document: a field
  that is empty in the aggregate keeps what an earlier save left.
* *Identity.* A deployment's identity is made of the day, the application, four
  letters of the environment and the short commit (`NewDeploymentID`), and
  create does not look whether it is in use.
* *Time.* The poll has a deadline, and the answer that decides it may be late.
* *Sharing.* All scaffolds and readiness probes of a process use one cached
  token and its mutex; deployments of one application, environment and namespace
  share an Argo CD Application, and those of one version a tag in the registry.

`PROJECT.json` lists each hazard at its line, with the property that would catch
it going wrong.

## 2. Modules

`DeploymentStatus` is the status machine, the names and the table of
`status.go`. `Absent` stands for a document that is not in the collection.

`Deployment` is the aggregate and its document. The two keep the same fields
apart, so both are a `Record`. `New`, `TransitionTo`, `Fail` and `Complete` are
the operations of `entity.go`; `Stored(old, d)` is the document after
`UpdateOne({_id}, {$set: toDoc(d)}, upsert)`. What is abstracted:

* `req` stands for all that `New` takes from a request and every save writes,
  the start time first of all. Requests with one identity are numbered. That two
  requests of one second share their version string is in `Convergence`.
* `res` is what `resources` and `values` have in common: they come from the
  request, `New` sets them, and they are stored with `omitempty`. A `Request`
  carries a Boolean `db` for it.
* `Version` is the deployment version, made of the resolved chart version and
  the start time; `Base` is metadata that is not stamped yet (`baseMetadata`).
* `Artifact` is a published chart: its version, which is its tag, and whether
  it renders a database.
* `SetMetadata` computes the identity again from the same inputs and gets the
  same identity, so it does not appear.

`DeploymentLifecycle` is the abstract specification: a deployment is received
once, its stored status moves along the table and stays when it is terminal,
until another request takes its identity (`Reuse`), of which nothing is promised
any more. A reader may miss one status (the aggregate moved in memory, its save
was lost, the next save holds the status after it), never two.

`Executor` is the executor with the handlers that start it, over the shared
collection, registry and Argo CD. Its state:

| Variable | In the program |
|---|---|
| `doc` | the collection, per identity |
| `registry`, `target`, `synced` | the charts pushed, the chart the Application points at, whether a sync was accepted |
| `inflight` | `DeployExecutionHandler.inflight` of each replica |
| `pc`, `job` | where a goroutine is, and the identity it was given |
| `agg`, `archive`, `late` | its `*Deployment`, whether `archive != nil`, whether its poll deadline has passed |
| `creates`, `faults` | counters that bound the exploration |

A worker `<<r, s>>` is a goroutine of replica `r`. Its actions are the calls it
makes that leave the process, one step each, since anything may come between two
of them: `Acquire`, `Skip`, `Load`, the stages, `FailAndSave`, `Release`.
Statements that only touch the copy of the aggregate belong to the step of the
call before or after. `pc = "stage"` means that the next call is the one the
guards of `run` select for the status in memory, so the stages need no place of
their own except between two calls of one stage (`publish`, `published`,
`created`, `sync`, `healthy`, `degraded`). `NothingToDo` is what `run` does for
a status none of its guards mentions. `Crash(r)` ends every goroutine of `r`
and empties its map, all else survives.

A call may fail before or after it took effect: a failed save leaves `doc` or
the saved document, a failed push, `CreateOrUpdate` or sync likewise. Failed
database calls and crashes count as faults and are bounded; refusals of the
registry and of Argo CD are not, since each ends its drive.

`MCExecutor` extends `Executor` with the symmetry set.

`Values` is what Helm values are to this program: trees, as functions from the
paths that are present to a map, a scalar or a list. `Merge` is `deepMerge` of
the composer, in one line; the recursion the code writes is `DeepMerge` in
`MCGovernance`, and the assumption `MergeIsDeepMerge` there makes TLC compare
the two on every pair of overlays and charts of the instance. `HasPath`
(`valuesHavePath`) and `FlattenKeys` (`flattenKeys`) are the two ways the gates
look into an overlay; they see different things: the first takes keys whole, the
second cuts them at their dots and takes an empty map for a leaf.

`Governance` is everything between a request and the values that are rendered.

| Variable | In the program |
|---|---|
| `policy` | the two policies the server was started with; a restart may bring others |
| `draft` | the body of the client's request |
| `dry`, `answer`, `scaffold` | what `/deployments:validate`, `/deployments` and `/apps` answered, each with the configuration it was answered under (history) |
| `stored` | the accepted deployment |
| `shipped` | the umbrella it was composed with, and the composed values |

`Verdict` is `CreateDeploymentHandler.Handle`, gate by gate in the order of the
code; `Blocked` is the dry run, `CreateApp` the gate of `POST /apps`,
`PlatformValues` and `Composed` what `platformValues` and `Compose` make of the
stored deployment. An allowlist in audit mode only logs, and so never rejects.
The length rules, versions of a database beside its size, and texts are left
out.

`Onboarding` is a new application on its way to its first chart: `POST /apps`
and `GET /apps/{name}` with all they call. Requests are goroutines of one
server. They share the token cache with its mutex (`cache`, `minter`: the mutex
is only worth modelling while it is held across the call of GitHub) and
`loggedIn`; each call is a step and may fail. External are the scaffold
workflow (`CreateRepo`, `PushContent`), release CI (`Publish`, under any rank:
the order of two versions of one application is that of their short commits, not
of time), the registry (`TagsCode`), a revoked credential, and the clock. A tag
of rank 0 is one that is no strict semantic version: helm packages it, and its
registry client does not list it (`Listed`), so the list that `ResolveLatest`
gets may be empty of a chart that is there. `selectVersion` then never sees a list
without a version, and its error has no case. A tick is the margin of the token
cache, a minute; a token's life is in ticks.

`Convergence` is deployments that meet in the world. It starts at the composed
chart and takes each effect and the save after it apart.

| Variable | In the program |
|---|---|
| `request` | what was asked for, and the second of `startedAt` |
| `status`, `health` | of the stored deployment |
| `pc` | the call the deployment's driver is about to make, or the save |
| `registry` | the charts of an application, by tag, and who composed them |
| `project` | the AppProjects of Argo CD |
| `app`, `op`, `last`, `live`, `seen` | an Application's spec, its operations, what runs, and the status Argo CD wrote last |
| `inForce`, `pointed` | history: what a project has been during a drive, what an Application has pointed at |

Its drivers are sequential per deployment, one request per identity, and their
saves succeed, since `Executor` has the races and the faults of those; what
`Executor` keeps apart is together here: `NewArgoAppName` and the tag (`Tag`) are
computed from the request, so two deployments may share an Application and a tag.
`Step` is the save after an effect, `End` the one that ends a drive: `COMPLETED`,
or `FAILED` after any error of `run`, that of a degraded poll among them. The Argo
CD client is modelled call by call (`ValidateProject`, `PostApplication`,
`PutApplication`, `Sync`, `Status`), so an administrator may edit the project
(`EditProject`) between the look at it and the write. Argo CD itself is external:
`Refresh` compares, writes the status and starts the automated sync, `EndSync`
ends an operation, well or not.

How the modules compose: `Executor`, `Governance`, `Convergence` and
`Onboarding` cut the system at the two places where it is thin. The document is
all that passes from the gates to the executor (`stored` in `Governance`,
`Create` in `Executor`), and the composed chart all that passes from the stages
before publication to those after (`Create` in `Convergence`).

`DeploymentProofs`, `ExecutorProofs`, `RecordProofs`, `EffectsProofs`,
`SingleReplicaProofs`, `GovernanceProofs`, `OnboardingProofs` and
`ConvergenceProofs` hold theorems (section 5).

Definitions under a comment `Mutation:` are plausible errors in the definition
that follows. They are used by no specification; each property is checked to
fail when one of them replaces the original.

## 3. Runs

| Run | Instance | Checks | Result |
|---|---|---|---|
| `replicas` | 2 replicas, 1 goroutine each, 1 deployment, 2 charts, 1 fault | `StoredIsResumable`, `CompletedWasHealthy`, `EffectsFirst`, `HalfWayIsDriven` | hold |
| `live` | 1 replica, 2 goroutines, 1 deployment, 2 requests with its identity, 2 charts, 2 faults, fairness | `TypeOK`, `OneDriver`, `InflightIsDriven`, `TargetIsRecorded`, `OnlyRequestsReopen`, `LifecycleKept`, `DriveEnds`, `SettlesUnlessParked` | hold |
| `gates` | 1 client, 305 requests, 5 configurations, 3 umbrella charts, 2 restarts | `TypeOK`, `ReservedIsPlatforms`, `DryRunAgrees`, `SpendWasAuthorized`, `BindMatchesInstance`, `EnforcedOverlayIsTunable`, `ScaffoldedIsDeployable` | hold |
| `onboarding` | 2 requests, 2 applications whose repository names are cut alike, 1 suffix, 2 repositories, tokens of 3 ticks | `TypeOK`, `AwaitingIsTrue`, `PublishedIsReal`, `LockHolderMints`, `HandedOutFresh` | hold |
| `convergence` | 2 commits for one environment, 1 edit of their project, 1 crash, fairness of Argo CD | `TypeOK`, `AppliedWasTarget`, `TargetIsAllowed`, `SyncedOrReplaced` | hold |
| `parked` | 1 goroutine, 1 request, 1 fault, fairness | `RedriveSettles` | violated |
| `completed_error` | 1 goroutine, 1 request, 1 fault | `CompletedHasNoError` | violated |
| `reopened` | 1 goroutine, 2 requests, no fault | `TerminalIsFinal` | violated |
| `misattributed` | 1 request, 1 application scaffolded twice | `VersionIsOwnBuild` | violated |
| `unversioned` | 1 request, 1 application, 1 repository | `BuiltIsNotAwaited` | violated |
| `unsynced` | 2 commits for one environment, no crash | `CompletedWasSynced` | violated |
| `collided` | 1 commit for 2 environments, 1 second, no crash | `RunsItsOwn` | violated |

`live`, `replicas` and `parked` to `reopened` are of `MCExecutor`; the others of
`MCGovernance`, `MCOnboarding` (`misattributed`, `unversioned`) and
`MCConvergence` (`unsynced`, `collided`).

What the passing runs show:

* `OneDriver`, `InflightIsDriven`: the lock of a replica is exact. It excludes,
  and no error path, skipped execution or crash leaks or steals an entry.
* `OnlyRequestsReopen`, `LifecycleKept`: with one replica nothing but a second
  request takes a deployment out of a terminal status, and until then the
  collection refines `DeploymentLifecycle`. Neither holds with two replicas: a slow
  replica may save an older status over a terminal one, which the comment on
  `Execute` (execute.go:104-108) announces.
* `StoredIsResumable`, `CompletedWasHealthy`, `EffectsFirst` do hold with two
  replicas: a lost update may take a status back, but never leaves a document
  that cannot be driven on, one that claims health nobody reported, or one that
  names an artifact, an Application or a sync that never was.
* `HalfWayIsDriven`: without a crash or a failed database call, a deployment that
  has left `RECEIVED` and is not terminal is being driven. Every error path of
  `run` ends in a terminal status, also where another replica has taken the record
  back meanwhile: then that replica is still driving. `RECEIVED` is left out,
  since a trigger may be lost without any fault: `Execute` skips a deployment that
  is being driven, and that driver may have loaded the document before the request
  was saved (a redeploy of an identity that was not there yet, or the end of an
  earlier request's drive). `SettlesUnlessParked` covers such a deployment, once
  somebody asks for a redeploy.
* `TargetIsRecorded` holds on one replica with a second request on the way: a
  record that says it is applied names the artifact the Application points at.
  With two replicas it does not: each may have resolved a chart of its own.
* `ReservedIsPlatforms`: whatever an overlay holds, at a reserved path the
  composed chart holds what it would hold without the overlay. An overlay may
  still take away: a leaf at `<app>.postgres` drops the chart's own bind, and is
  refused by no gate but the allowlist.
* `DryRunAgrees`, `SpendWasAuthorized`, `ScaffoldedIsDeployable`: the handlers
  reach the same policies over different code; they agree, they stay closed
  without a policy, with an empty section and with an empty environment, and
  what was authorized at acceptance is what is composed after a restart.
* `EnforcedOverlayIsTunable` relates the allowlist, which sees dotted leaves of
  the overlay, to the merged chart: nothing changed but at, or above, or beneath
  an entry. An empty map and a leaf in the place of a map are the cases in it.
* `BindMatchesInstance`: the instance is named by one function and the bind by
  another, from the umbrella's dependency list; they meet.
* `AwaitingIsTrue`, `PublishedIsReal`: the status route never tells a portal to
  wait for a repository, or for a build under a version, that is there, and never
  names a chart of another application. Of a build under no version the first
  fails (`unversioned`).
* `LockHolderMints`, `HandedOutFresh`: no error path of a mint keeps the mutex,
  and no token is handed out within its last minute.
* `AppliedWasTarget`, `SyncedOrReplaced`: whichever deployment created the
  Application, whose sync was under way and what answer got lost, one that says
  it is applied was, and one that says `SYNCING` is synced or was tried, unless
  another re-pointed the Application. The automated policy is what makes this
  true when a sync in progress is counted as accepted.
* `TargetIsAllowed`: every write of an Application lies within what the project
  allowed, server and namespace of one destination entry and not of two, at some
  time of that very drive. It says no more, because the code does not: the project
  is read by one call and the Application written by another, and an edit between
  them is not seen. It does say that a re-drive looks again.
* `DriveEnds`: a poll whose Application never converges still frees the
  deployment. `SettlesUnlessParked`: with redeploys, a deployment settles,
  unless it is left in `CHART_COMPOSED` or `DEGRADED`.

What the violated ones show:

* `parked`. `CHART_RESOLVED` to `ARTIFACT_PUBLISHED` is one stage with two
  saves, and no stage starts at `CHART_COMPOSED` (nor at `DEGRADED`, which
  `run` saves before it returns its error). A replica that stops between them
  leaves a document that every redeploy loads, finds nothing to do for, and
  leaves as it is.
* `completed_error`. `Complete` moves the aggregate before the save. When that
  save returns an error, `Fail` sets its message, cannot leave `COMPLETED`, and
  the record is saved as completed with an error.
* `reopened`. A second request of the same application, environment and commit
  on the same day overwrites a document that has ended, completed or failed, with
  `RECEIVED`.
* `misattributed`. The status of a repository finds its chart under a name that
  is the application's. A second repository of the application, whose CI has not
  run, is reported as published, with the version of the first.
* `unsynced`. The poll decides on the health alone. After a deployment re-points
  a healthy Application, the health of the release before completes it, with
  `OutOfSync` recorded next to it.
* `unversioned`. CI pushes a chart under a tag that is no strict semantic version.
  helm does not list it, `ResolveLatest` takes the empty list for a chart that was
  never pushed, and the portal waits for a build that already ran, which the
  comment a few lines below (appartifacts.go:52-54) means to exclude.
* `collided`. The charts of all environments go to one repository, under a tag made
  of a second and a commit. One commit that is deployed to two environments within
  a second has one tag: the later push replaces the earlier, and one environment
  runs what was composed for the other.

What the models show besides, without a run of its own:

* A second request with the same identity that declares no resources is stored,
  composed and deployed with those of the first: `resources` has `omitempty`, so
  `$set` leaves them in the document (`Stored`). `ResourcesAreDeclared` fails for
  that reason and, as `MixedOnlyByTwoRequests` proves, for no other.
* Two resources of one type pass `POST /apps`, and are refused by
  `POST /deployments` (`Verdict`, its last case).
* A chart that enables the SQL block in its own values ships it without a policy
  looking at it (the first disjunct of `SpendWasAuthorized`). apps.go:158-163
  judges a scaffold by the default rules because each deploy is judged again;
  a deploy that declares nothing is not.
* The comment of composer.go:28-31 names two layers; the platform's is a third.
* An application whose key in the umbrella is `sqldatabase` has its bind written
  over the block (`PlatformValues`; execute.go:498-501 says the subchart is named
  hex-scaffold whatever the application). `BindIsTheDatabases` needs `NoClash`.
* A policies file may file rules under an empty environment name. A scaffold is
  judged by them, although resources.go:141-142 means to ask for the default
  rules that way. `ScaffoldsAreDeployable` needs `NoNamelessRules`.
* When no random bytes are to be had the suffix is a constant (scaffolder.go:36),
  and a second scaffold then names the repository of the first.
* Re-driving an older deployment re-points the Application back to its chart
  (`Redeploy` in `Convergence`), and names of Applications joined by dashes are
  ambiguous for environments and namespaces that contain one.

**Bounds.** Two goroutines in one process are enough for every race on the lock:
it is per identity, and a third meets the same two cases. One identity is enough,
since no identity reads the state of another, and `LockIsExact` proves the locks
apart for any number. Two replicas are the deployed number. Two requests with one
identity give every order of an old and a new aggregate. Two charts let a re-drive
resolve a different one. Two faults give a crash after a lost save, or a failed
save on the error path; the run with two replicas has one, the second replica
being the other source of disorder.

The requests of `gates` are all combinations of seven tunings and eight reaching
overlays, of nine declarations and four environments, and the policies have every
mode, every kind of missing rule, and the two that differ between create and
compose; one client is enough because nothing is shared between two, and two
restarts give a configuration for each of the three moments. Two requests of
`onboarding` meet on the mutex and on the login; two applications with one cut
name are the case its names are about; a token of three ticks can be fresh,
close to its expiry and expired. A tag is a version or it is none, so one rank and
0 are enough for `AwaitingIsTrue` and `unversioned`. Two deployments of
`Convergence` are the fewest that share an Application, or a tag in two
Applications, so there is an instance for each: two commits for one environment,
whose tags differ in one second already, and one commit for two environments.
One crash comes between any effect and its save, and one edit (`Narrowed`) between
any look at the project and any write; the edited project names the cluster in one
entry and the namespace in another.

The theorems of section 5 do not depend on any bound. Some have a hypothesis, on
the number of replicas, of requests with one identity or of faults, or on what
shares a chart or an Application, since they fail without it; section 5 names
each.

**Symmetry** over replicas, goroutines and charts, and over requests and suffixes of `onboarding`, is used in the runs of safety
properties only; none of them is named in a specification.

## 4. Fairness

`Fairness` gives each goroutine weak fairness of its steps, and of the deadline
of its poll. This is what the Go scheduler and the clock provide, with one
assumption: the calls return. The Argo CD client has a time limit of 30 seconds
(argocd/client.go:46). The pulls and pushes of the registry have none of their
own, and the context of the goroutine is never cancelled
(`context.WithoutCancel`), so the assumption is one on the network there; a call
that hung would hold the inflight entry until the process ends.

A poll need not conclude before its deadline: Argo CD may answer "Progressing"
every time, so rounds before the deadline carry no obligation. After it, the
next answer decides. `DriveEnds` therefore rests on the deadline, and fails
without it.

The handlers are not fair: nobody has to ask for anything. `SettlesUnlessParked`
and `RedriveSettles` assume `Redriven`, that somebody keeps asking for a
redeploy, which the executor leaves to its callers. Crashes and failed saves are
bounded, so they eventually stop.

`Convergence` has no fairness of the server at all: `SyncedOrReplaced` must hold
of a drive that stopped. It has weak fairness of Argo CD's controller, which
compares every Application again and again, and whose operations end; the
platform's own design rests on that (the comment in client.go:154-160), and
nothing in the repository can provide it.

## 5. Proofs

Every safety invariant and every action property that a passing run checks is
stated by a theorem, and of each safety property that a run violates a theorem says
where it still holds. Of the executor, the proofs hold for any sets of
identities, replicas, goroutines and charts and any number of requests and
faults, those of `SingleReplicaProofs` for one replica.

* `ExecutorProofs!TypeCorrect`: `Spec => []TypeOK`. `TypeOK` is not inductive.
  A chart is published under the deployment version of the metadata, which is a
  version, not `Base` or nil, only because the archive was resolved in this
  run. `TypeInv` adds that: an archive in memory means stamped metadata
  (`ArchiveStamped`), a running goroutine has an identity, and every record but
  the absent one has a request (`Sound`).
* `ExecutorProofs!MutualExclusion` and `LockIsExact`: `OneDriver` and
  `InflightIsDriven` are inductive together, with `TypeInv`, and neither is
  alone. A lock that is taken excludes the others only if every driver is in
  the map; a release drops no other's entry only if drivers exclude each other.
* `RecordProofs!AlwaysResumable` and `CompletionIsHealthy`: the properties of
  documents are strengthened to the aggregates in memory, with what each
  goroutine holds between two calls of one stage (`Place`). The step that
  matters is `ConsistentStored`: the upsert of a consistent aggregate is
  consistent whatever document it is merged into. So the properties do not
  depend on who saved last, how many replicas there are or how often an identity
  is re-created; `CompletedWasHealthy` and `StoredIsResumable` are proved for
  re-created deployments too, which the run with two replicas leaves out.

* `RecordProofs!HalfWayOnlyByFaults`: `HalfWayIsDriven`, for any number of
  replicas and requests. The invariant (`FaultlessInv`) names a witness: if a
  document is half way and nothing has failed yet, some goroutine on it is still
  committed to save it again (`Committed`), at a place of `run` from which every
  way leads to a save. A save makes the goroutine that made it the witness, or is
  its last one and terminal; a re-create takes the document back to `RECEIVED`,
  where none is needed; and a step that saves nothing leads a committed goroutine
  to a committed place.
* `EffectsProofs!RecordFollowsWorld`: `EffectsFirst`. The world only grows
  (registry, `target` and `synced` are never taken back), and every claim a
  record or an aggregate makes was true when it was made. Merging two records
  makes no new claim, since the status is always that of the later save and a
  field is one of the two.
* `SingleReplicaProofs` has what only one replica promises (`OneReplica`); with
  two, a save may be older than the record it replaces. There `OneDriver` makes
  the drivers of a deployment exclusive, and a step of a goroutine touches its own
  deployment and nobody else's (`Footprint`, in `ExecutorProofs`), so it is enough to look at one
  driver and one record.
  `TargetMatchesRecord`: `TargetIsRecorded`, for any number of requests with one
  identity. An aggregate that has been applied agrees with the Application, and
  before the driver re-points it the record has left, or never reached, the
  applied statuses (`Matched`).
  `TerminalStays` and `LifecycleImplemented`: `OnlyRequestsReopen`, and that
  `Executor` implements `DeploymentLifecycle` until a second request takes the
  identity, step by step (`AbreastInv`). While a deployment is driven, its record is
  terminal only after a save that was applied and still returned an error; the
  driver then stands before its last save, with the record's own status, artifact
  and health or none. With one request so far the aggregate is where the record is,
  or one step ahead after a save that failed, hence every save is one step along
  the table, two with one unseen, or none.
* `GovernanceProofs`: `ReservedValuesAreThePlatforms` rests on lemmas about trees:
  an overlay without a reserved path has nothing at or beneath one, because a
  tree has every path above one it has (`IsTree`), and a merge of two trees is a
  tree. `SpendIsAuthorized` and `DryRunIsFaithful` rest on what `stored`, `dry`
  and `answer` remember of the configuration they were made under.
  `ScaffoldsAreDeployable`, `BindIsTheDatabases`, `EnforcedOverlaysAreTunable` and
  `TypeCorrect` rest on `OriginInv`: what the request, the scaffolded shape and
  the stored deployment owe to the gates they came through.
  `ScaffoldsAreDeployable` relates the three gates of a create to the one of a
  scaffold; its hypothesis `NoNamelessRules` is that no rules are filed under an
  empty environment. `BindIsTheDatabases` follows the name of the instance and
  the key of the bind through the merges; its hypothesis `NoClash` is that no
  umbrella gives its application the key of the building block.
  `EnforcedOverlaysAreTunable` says of the allowlist, which sees the leaves of an
  overlay cut at their dots, what it means for the merged chart: where the merge
  differs from the chart, the overlay has a leaf at, above or beneath the place
  (`ChangeHasLeaf`; an overlay is finite, so beneath every path of it is a leaf,
  `LeafBeneath`), and cutting keys at their dots keeps prefixes
  (`DottedGrows`).
* `OnboardingProofs`: all the properties the run checks. A token is never
  believed to live longer than it does (`CacheInv`), the mutex is held by who has
  no token yet (`LockInv`), and repositories and charts only come (`Grows`), so
  what a request learned is still true when it is answered (`Right`).
  `SelectedIsHighest`, that a set of versions has a highest, is from the
  well-foundedness of the naturals.
* `ConvergenceProofs`: the three safety properties the run checks. An Application
  only points at tags that its own deployments pushed (`OwnTags`), what is under a
  tag was composed by a deployment of that tag, and each place in a drive and each
  stored status has behind it what it claims (`Backed`). `TargetsAreAllowed` rests
  on `ForceInv`: a drive past `ValidateProject` looked at a definition that was in
  force since it began, and at one that permits it; `PermittedIsAllowed` relates the
  loops of the code to the project with its wildcards written out.

`DeploymentProofs` has the lemmas on the aggregate's operations and the merge.

The runs that expect a violation show one way to break a property. These theorems
say without what it cannot be broken, for any value of the constants, and so
delimit each finding:

| Violated property | Holds, whatever else happens, while | Theorem |
|---|---|---|
| `CompletedHasNoError` | no process crashed and no database call failed | `RecordProofs!StaleErrorOnlyByFaults` |
| `ResourcesAreDeclared` (no run) | each identity was used by at most one create request | `RecordProofs!MixedOnlyByTwoRequests` |
| `TerminalIsFinal` | there is one replica and no further request with the identity | `SingleReplicaProofs!TerminalStays` |
| `VersionIsOwnBuild` | every application has one repository, and no chart from before | `OnboardingProofs!MisattributedOnlyIfShared` |
| `BuiltIsNotAwaited` | every chart was pushed under strict versions only | `OnboardingProofs!AwaitedOnlyIfUnversioned` |
| `RunsItsOwn` | no two deployments of one application and commit, for different Applications, were accepted in one second | `ConvergenceProofs!CollidedOnlyInOneSecond` |
| `CompletedWasSynced` | each Application was pointed at one chart only | `ConvergenceProofs!UnsyncedOnlyIfRepointed` |

* `StaleErrorOnlyByFaults`: until something fails, an error message belongs to a
  deployment that failed, in memory and in the document, and `Fail` is only called
  where its transition is possible (both in `FaultlessInv`).
* `MixedOnlyByTwoRequests`: the document of an identity that was created once
  holds what that request declared, and so does every aggregate loaded from it
  (`DeclaredInv`); `run` never changes it (`RunKeepsRequest`). The merge by
  omission is then harmless, on any number of replicas.
* `UnsyncedOnlyIfRepointed` follows, deployment by deployment, from
  `FirstCompletedWasSynced`. Of an Application that was pointed at one chart,
  Healthy means that this chart runs, hence Synced (`ReportInv`): the sync status
  that the poll does not look at only matters where another chart ran before.
* `MisattributedOnlyIfShared`: a version in a chart comes from a repository of its
  application, or from before (`UnnamedOnlyEarlier`); with one repository and no
  chart from before it can only be that one's.

Assumptions on the constants: that a nil is no value (`NilAssumption`,
`NoneAssumption`, `ShapeAssumption`); that values are trees over keys among which
are the platform's, overlays finite ones, and the pieces of a dotted key are keys
(`TreeAssumption`, `KeysAssumption`); that an entry of an allowlist is a path and
a limit a number (`PolicyAssumption`); that the defaults of a resource keep the
bounds they are the defaults of (`DefaultsAssumption`, resource.go:30-47); that a
token lives longer than two margins and longer than the fallback
(`LifeAssumption`); that every application has a cut name and there is a
first rank (`AppsAssumption`); that the project of every request, and of every edit, is there
(`ProjectsAssumption`); and that bounds are numbers (`FaultsAssumption`,
`BoundAssumption`, `BoundsAssumption`). TLC evaluates each on the instances.

Only model-checked are the three liveness properties, `DriveEnds`,
`SettlesUnlessParked` and `SyncedOrReplaced`: liveness under fairness needs
`ENABLED`, which TLAPS cannot reason about. And `MergeIsDeepMerge`, that `Merge`
is the recursion of the composer: TLC compares the two on the instance, since the
prover has no backend for a module with a RECURSIVE operator. `FlattenSeq` of the
community modules, by which keys are cut, is a recursive function and within
reach: `FlatExists` shows that it is defined, by an induction that is stated about
sets of numbers (`Inductive`), not about an operator.

## 6. Not modelled

* `Reject`, `ROLLED_BACK`, `Delete` of the Argo CD client and `FindByApplication`:
  nothing in the server calls them. The branch policy evaluator is nil
  (main.go:177). `github/resolver.go` is not wired.
* Get and list (`get.go`): they read one document and keep nothing.
* Version constraints that exclude tags (`selectVersion` with anything but "*"):
  that is arithmetic of the semver library. The exchange of a credential at ACR
  (`acr_auth.go`) is one more call that may fail, of which the resolver's login
  stands for.
* The image and the short commit read from a chart (`appImage`, `shortSHA`):
  parsing. The key is read from the head of the repository while the chart may
  be older.
* Token validation (`entra/validator.go`): stateless, done by a library.
* Configuration, HTTP routing, telemetry, the DTOs: no state of the system.

## 7. Plan

Done: the status machine, the aggregate and its document, the executor on several
replicas and its abstract lifecycle; the gates and the composition; onboarding
with the shared token and login; deployments that share an Application or a tag;
the theorems of section 5, which state every safety property of the passing runs,
and what it takes to break the violated ones.

Next:

1. Theorems: what remains true of `TargetIsRecorded` and of the lifecycle with two
   replicas (the refinement of a lifecycle that may go back); the steps of
   `DriveEnds` that are safety, that no goroutine can be where none of its actions
   is possible.
2. A specification of what a completed deployment promises about the
   Application, with the sync status in the verdict of the poll, as the design
   has it, to see which of its claims two deployments can still take back.
3. Two replicas in `Convergence`, for drivers of one deployment that resolve
   different charts and share an Application with another.
