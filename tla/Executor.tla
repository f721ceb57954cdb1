----------------------------- MODULE Executor -----------------------------
(***************************************************************************)
(* The in-process deploy executor, internal/application/deployment/        *)
(* execute.go, with the two handlers that start it (POST /deployments and  *)
(* POST /deployments/{id}/deploy), on the replicas of the server and over  *)
(* the one collection they share.                                          *)
(*                                                                         *)
(* A worker <<r, s>> is a detached goroutine of replica r that runs        *)
(* Execute.  Its pc names the call it is about to make; at "stage" that    *)
(* call is the one run's guards select for the status of the aggregate in  *)
(* memory.  Every call that leaves the process (a save, a load, the chart  *)
(* registry, Argo CD) is a step of its own, so the other workers, and a    *)
(* crash, come between any two of them.                                    *)
(***************************************************************************)
EXTENDS Deployment

CONSTANTS
  Ids,        \* identities of deployments
  Replicas,   \* server processes
  Slots,      \* bound: goroutines running Execute at a time in one replica
  MaxFaults   \* bound: crashes and failed database calls

ASSUME FaultsAssumption == MaxFaults \in Nat

VARIABLES
  doc,        \* the collection: the document of each identity
  registry,   \* the OCI registry: the charts published for each identity
  target,     \* Argo CD: the chart the Application of an identity points at
  synced,     \* Argo CD: whether it accepted a sync of that Application
  inflight,   \* DeployExecutionHandler.inflight of each replica
  pc, job,    \* of each worker: where it is, and the identity it was given
  agg,        \*   the aggregate it loaded
  archive,    \*   whether its archive is not nil
  late,       \*   whether the deadline of its poll has passed
  creates,    \* create requests so far, per identity
  faults      \* faults so far

store == <<doc, faults>>
world == <<registry, target, synced>>
local == <<pc, job, agg, archive, late>>
vars == <<doc, registry, target, synced, inflight, pc, job, agg, archive,
          late, creates, faults>>

Workers == Replicas \X Slots
Host(w) == w[1]

PC == {"idle", "acquire", "load", "stage", "publish", "published", "created",
       "sync", "healthy", "degraded", "fail", "release"}

\* Between acquire and release.
Driving(w) == pc[w] \notin {"idle", "acquire"}

Init ==
  /\ doc = [i \in Ids |-> NoRecord]
  /\ registry = [i \in Ids |-> {}]
  /\ target = [i \in Ids |-> None]
  /\ synced = [i \in Ids |-> FALSE]
  /\ inflight = [r \in Replicas |-> {}]
  /\ pc = [w \in Workers |-> "idle"]
  /\ job = [w \in Workers |-> None]
  /\ agg = [w \in Workers |-> NoRecord]
  /\ archive = [w \in Workers |-> FALSE]
  /\ late = [w \in Workers |-> FALSE]
  /\ creates = [i \in Ids |-> 0]
  /\ faults = 0

---------------------------------------------------------------------------
(* Parts of the actions.                                                   *)

Goto(w, place) == pc' = [pc EXCEPT ![w] = place]

\* Repository.Save.  A save that returns an error may have been applied: the
\* answer is lost as easily as the request.
Save(i, d, ok) ==
  LET saved == [doc EXCEPT ![i] = Stored(doc[i], d)]
  IN  \/ ok /\ doc' = saved /\ UNCHANGED faults
      \/ ~ok /\ doc' \in {doc, saved} /\ faults < MaxFaults /\ faults' = faults + 1

\* d is moved to the status next, in memory, and saved; after an error run
\* returns and Execute turns to Fail.
Step(w, d, next, after) ==
  LET moved == TransitionTo(d, next)
  IN  /\ agg' = [agg EXCEPT ![w] = moved]
      /\ IF CanTransitionTo(d.status, next)
         THEN \E ok \in BOOLEAN :
                Save(job[w], moved, ok) /\ Goto(w, IF ok THEN after ELSE "fail")
         ELSE Goto(w, "fail") /\ UNCHANGED store

\* The worker is at the stage of run that status selects.
At(w, status) == pc[w] = "stage" /\ agg[w].status = status

\* The goroutine ends and its local variables go.
End(w) ==
  /\ Goto(w, "idle")
  /\ job' = [job EXCEPT ![w] = None]
  /\ agg' = [agg EXCEPT ![w] = NoRecord]
  /\ archive' = [archive EXCEPT ![w] = FALSE]
  /\ late' = [late EXCEPT ![w] = FALSE]

---------------------------------------------------------------------------
(* The handlers.  triggerDeploy starts a goroutine and does not wait.      *)

Trigger(w, i) ==
  /\ pc[w] = "idle"
  /\ Goto(w, "acquire")
  /\ job' = [job EXCEPT ![w] = i]
  /\ UNCHANGED <<agg, archive, late>>

\* POST /deployments with the identity i: the aggregate is built, saved and
\* handed to the executor.  Its identity may be in use already: nothing
\* looks, and the save is an upsert.
Create(w, i, db) ==
  /\ creates[i] < MaxCreates
  /\ creates' = [creates EXCEPT ![i] = @ + 1]
  /\ Save(i, New([n |-> creates[i] + 1, db |-> db]), TRUE)
  /\ Trigger(w, i)
  /\ UNCHANGED <<world, inflight>>

\* The save returns an error: the request is refused and nothing started.
CreateRefused(i, db) ==
  /\ creates[i] < MaxCreates
  /\ creates' = [creates EXCEPT ![i] = @ + 1]
  /\ Save(i, New([n |-> creates[i] + 1, db |-> db]), FALSE)
  /\ UNCHANGED <<world, inflight, local>>

\* POST /deployments/{id}/deploy, for any identity, known or not.
Redeploy(w, i) ==
  /\ Trigger(w, i)
  /\ UNCHANGED <<store, world, inflight, creates>>

---------------------------------------------------------------------------
(* Execute.                                                                *)

\* Mutation: the map is written without being looked at.
AcquireUnguarded(w) ==
  /\ pc[w] = "acquire"
  /\ inflight' = [inflight EXCEPT ![Host(w)] = @ \cup {job[w]}]
  /\ Goto(w, "load")
  /\ UNCHANGED <<store, world, job, agg, archive, late, creates>>

Acquire(w) ==
  /\ pc[w] = "acquire"
  /\ job[w] \notin inflight[Host(w)]
  /\ inflight' = [inflight EXCEPT ![Host(w)] = @ \cup {job[w]}]
  /\ Goto(w, "load")
  /\ UNCHANGED <<store, world, job, agg, archive, late, creates>>

\* Mutation: the deferred release is set up before acquire is asked.
SkipReleasing(w) ==
  /\ pc[w] = "acquire"
  /\ job[w] \in inflight[Host(w)]
  /\ inflight' = [inflight EXCEPT ![Host(w)] = @ \ {job[w]}]
  /\ End(w)
  /\ UNCHANGED <<store, world, creates>>

Skip(w) ==
  /\ pc[w] = "acquire"
  /\ job[w] \in inflight[Host(w)]
  /\ End(w)
  /\ UNCHANGED <<store, world, inflight, creates>>

\* FindByID, the terminal check and the nil-metadata guard at the top of run.
Load(w) ==
  LET d == doc[job[w]]
      corrupt == d.status \notin {"RECEIVED", "VALIDATING"} /\ d.meta = None
  IN  /\ pc[w] = "load"
      /\ agg' = [agg EXCEPT ![w] = d]
      /\ Goto(w, IF d.status \in Terminal \cup {Absent} THEN "release"
                 ELSE IF corrupt THEN "fail" ELSE "stage")
      /\ UNCHANGED <<store, world, inflight, job, archive, late, creates>>

LoadFails(w) ==
  /\ pc[w] = "load"
  /\ faults < MaxFaults
  /\ faults' = faults + 1
  /\ Goto(w, "release")
  /\ UNCHANGED <<doc, world, inflight, job, agg, archive, late, creates>>

\* Mutation: the failure is not saved.
FailUnsaved(w) ==
  /\ pc[w] = "fail"
  /\ agg' = [agg EXCEPT ![w] = Fail(agg[w])]
  /\ Goto(w, "release")
  /\ UNCHANGED <<store, world, inflight, job, archive, late, creates>>

\* The error path: Fail, and a save whose result is dropped.
FailAndSave(w) ==
  /\ pc[w] = "fail"
  /\ agg' = [agg EXCEPT ![w] = Fail(agg[w])]
  /\ \E ok \in BOOLEAN : Save(job[w], agg'[w], ok)
  /\ Goto(w, "release")
  /\ UNCHANGED <<world, inflight, job, archive, late, creates>>

Release(w) ==
  /\ pc[w] = "release"
  /\ inflight' = [inflight EXCEPT ![Host(w)] = @ \ {job[w]}]
  /\ End(w)
  /\ UNCHANGED <<store, world, creates>>

---------------------------------------------------------------------------
(* The stages of run.                                                      *)

Validate(w) ==
  /\ At(w, "RECEIVED")
  /\ Step(w, agg[w], "VALIDATING", "stage")
  /\ UNCHANGED <<world, inflight, job, archive, late, creates>>

GenerateMetadata(w) ==
  /\ At(w, "VALIDATING")
  /\ Step(w, [agg[w] EXCEPT !.meta = Base], "METADATA_GENERATED", "stage")
  /\ UNCHANGED <<world, inflight, job, archive, late, creates>>

\* ensureArchive: both stages that need the archive resolve it if this run
\* has not.  The constraint may resolve to another chart than last time.
Resolve(w) ==
  /\ At(w, "METADATA_GENERATED") \/ At(w, "CHART_RESOLVED")
  /\ ~archive[w]
  /\ \/ /\ \E c \in Charts :
             agg' = [agg EXCEPT ![w].meta = [chart |-> c, req |-> agg[w].req]]
        /\ archive' = [archive EXCEPT ![w] = TRUE]
        /\ UNCHANGED pc
     \/ Goto(w, "fail") /\ UNCHANGED <<agg, archive>>
  /\ UNCHANGED <<store, world, inflight, job, late, creates>>

ChartResolved(w) ==
  /\ At(w, "METADATA_GENERATED")
  /\ archive[w]
  /\ Step(w, agg[w], "CHART_RESOLVED", "stage")
  /\ UNCHANGED <<world, inflight, job, archive, late, creates>>

\* platformValues and Compose work on the aggregate and the archive only.
Compose(w) ==
  /\ At(w, "CHART_RESOLVED")
  /\ archive[w]
  /\ \/ Step(w, agg[w], "CHART_COMPOSED", "publish")
     \/ Goto(w, "fail") /\ UNCHANGED <<store, agg>>
  /\ UNCHANGED <<world, inflight, job, archive, late, creates>>

\* The composed chart, under its tag.  A push that returns an error may have
\* been accepted.
Publish(w) ==
  LET chart == [version |-> agg[w].meta, db |-> agg[w].res]
      pushed == [registry EXCEPT ![job[w]] = @ \cup {chart}]
  IN  /\ pc[w] = "publish"
      /\ \/ /\ registry' = pushed
            /\ agg' = [agg EXCEPT ![w].artifact = chart]
            /\ Goto(w, "published")
         \/ registry' \in {registry, pushed} /\ Goto(w, "fail") /\ UNCHANGED agg
      /\ UNCHANGED <<store, target, synced, inflight, job, archive, late, creates>>

ArtifactPublished(w) ==
  /\ pc[w] = "published"
  /\ Step(w, agg[w], "ARTIFACT_PUBLISHED", "stage")
  /\ UNCHANGED <<world, inflight, job, archive, late, creates>>

\* Mutation: an Application that exists is left as it is.
CreateOnly(w) ==
  LET pointed == IF target[job[w]] = None
                 THEN [target EXCEPT ![job[w]] = agg[w].artifact]
                 ELSE target
  IN  /\ At(w, "ARTIFACT_PUBLISHED")
      /\ IF agg[w].artifact = None
         THEN Goto(w, "fail") /\ UNCHANGED <<target, agg>>
         ELSE \/ /\ target' = pointed
                 /\ agg' = [agg EXCEPT ![w].argo = TRUE]
                 /\ Goto(w, "created")
              \/ target' \in {target, pointed} /\ Goto(w, "fail") /\ UNCHANGED agg
      /\ UNCHANGED <<store, registry, synced, inflight, job, archive, late, creates>>

\* ValidateProject, then CreateOrUpdate, which may be applied and still
\* return an error.
CreateOrUpdate(w) ==
  LET pointed == [target EXCEPT ![job[w]] = agg[w].artifact]
  IN  /\ At(w, "ARTIFACT_PUBLISHED")
      /\ IF agg[w].artifact = None
         THEN Goto(w, "fail") /\ UNCHANGED <<target, agg>>
         ELSE \/ /\ target' = pointed
                 /\ agg' = [agg EXCEPT ![w].argo = TRUE]
                 /\ Goto(w, "created")
              \/ target' \in {target, pointed} /\ Goto(w, "fail") /\ UNCHANGED agg
      /\ UNCHANGED <<store, registry, synced, inflight, job, archive, late, creates>>

ArgoAppCreated(w) ==
  /\ pc[w] = "created"
  /\ Step(w, agg[w], "ARGO_APP_CREATED", "stage")
  /\ UNCHANGED <<world, inflight, job, archive, late, creates>>

\* Mutation: the error of Sync is logged and the run goes on.
SyncIgnoringErrors(w) ==
  /\ At(w, "ARGO_APP_CREATED")
  /\ synced' \in {synced, [synced EXCEPT ![job[w]] = TRUE]}
  /\ Goto(w, "sync")
  /\ UNCHANGED <<store, registry, target, inflight, job, agg, archive, late, creates>>

\* A sync that is under way already counts as accepted.
Sync(w) ==
  LET accepted == [synced EXCEPT ![job[w]] = TRUE]
  IN  /\ At(w, "ARGO_APP_CREATED")
      /\ IF ~agg[w].argo
         THEN Goto(w, "fail") /\ UNCHANGED synced
         ELSE \/ synced' = accepted /\ Goto(w, "sync")
              \/ synced' \in {synced, accepted} /\ Goto(w, "fail")
      /\ UNCHANGED <<store, registry, target, inflight, job, agg, archive, late,
                     creates>>

Syncing(w) ==
  /\ pc[w] = "sync"
  /\ Step(w, agg[w], "SYNCING", "stage")
  /\ UNCHANGED <<world, inflight, job, archive, late, creates>>

\* Mutation: a poll that times out counts as healthy.
VerdictOptimistic(health, expired) ==
  IF health = "Degraded" THEN "degraded"
  ELSE IF health = "Healthy" \/ expired THEN "healthy" ELSE "stage"

\* Where an answer leads to: a late Healthy still counts, and only an answer
\* that decides nothing runs into the deadline.
Verdict(health, expired) ==
  IF health = "Healthy" THEN "healthy"
  ELSE IF health = "Degraded" \/ expired THEN "degraded" ELSE "stage"

\* One round of pollHealth: the status Argo CD reports is recorded and saved,
\* the result of the save dropped; "Missing" and "" count as Progressing.
Poll(w) ==
  /\ At(w, "SYNCING")
  /\ \E h \in Health \ {"unset"} :
       /\ agg' = [agg EXCEPT ![w].health = h]
       /\ Goto(w, Verdict(h, late[w]))
  /\ \E ok \in BOOLEAN : Save(job[w], agg'[w], ok)
  /\ UNCHANGED <<world, inflight, job, archive, late, creates>>

PollFails(w) ==
  /\ At(w, "SYNCING")
  /\ Goto(w, "fail")
  /\ UNCHANGED <<store, world, inflight, job, agg, archive, late, creates>>

Healthy(w) ==
  /\ pc[w] = "healthy"
  /\ Step(w, agg[w], "HEALTHY", "stage")
  /\ UNCHANGED <<world, inflight, job, archive, late, creates>>

\* The degraded status is saved and run returns an error all the same.
Degraded(w) ==
  /\ pc[w] = "degraded"
  /\ Step(w, agg[w], "DEGRADED", "fail")
  /\ UNCHANGED <<world, inflight, job, archive, late, creates>>

Completed(w) ==
  /\ At(w, "HEALTHY")
  /\ agg' = [agg EXCEPT ![w] = Complete(agg[w])]
  /\ \E ok \in BOOLEAN :
       Save(job[w], agg'[w], ok) /\ Goto(w, IF ok THEN "release" ELSE "fail")
  /\ UNCHANGED <<world, inflight, job, archive, late, creates>>

\* run has no stage for these two statuses: loaded from the database, they
\* make it return nil at once.
NothingToDo(w) ==
  /\ At(w, "CHART_COMPOSED") \/ At(w, "DEGRADED")
  /\ Goto(w, "release")
  /\ UNCHANGED <<store, world, inflight, job, agg, archive, late, creates>>

\* Mutation: the loop of pollHealth has no deadline.
DeadlineNever(w) == FALSE /\ UNCHANGED vars

\* The convergence timeout of a poll runs out.
Deadline(w) ==
  /\ At(w, "SYNCING")
  /\ ~late[w]
  /\ late' = [late EXCEPT ![w] = TRUE]
  /\ UNCHANGED <<store, world, inflight, pc, job, agg, archive, creates>>

---------------------------------------------------------------------------
(* A replica stops: shutdown does not wait for its goroutines.             *)

Crash(r) ==
  LET survive(f, v) == [w \in Workers |-> IF Host(w) = r THEN v ELSE f[w]]
  IN  /\ faults < MaxFaults
      /\ faults' = faults + 1
      /\ \E w \in Workers : Host(w) = r /\ pc[w] # "idle"
      /\ inflight' = [inflight EXCEPT ![r] = {}]
      /\ pc' = survive(pc, "idle")
      /\ job' = survive(job, None)
      /\ agg' = survive(agg, NoRecord)
      /\ archive' = survive(archive, FALSE)
      /\ late' = survive(late, FALSE)
      /\ UNCHANGED <<doc, world, creates>>

---------------------------------------------------------------------------

Execute(w) ==
  \/ Acquire(w) \/ Skip(w) \/ Load(w) \/ LoadFails(w)
  \/ FailAndSave(w) \/ Release(w)

Run(w) ==
  \/ Validate(w) \/ GenerateMetadata(w)
  \/ Resolve(w) \/ ChartResolved(w) \/ Compose(w)
  \/ Publish(w) \/ ArtifactPublished(w)
  \/ CreateOrUpdate(w) \/ ArgoAppCreated(w)
  \/ Sync(w) \/ Syncing(w)
  \/ Poll(w) \/ PollFails(w) \/ Healthy(w) \/ Degraded(w)
  \/ Completed(w) \/ NothingToDo(w)

Next ==
  \/ \E w \in Workers, i \in Ids, db \in BOOLEAN : Create(w, i, db)
  \/ \E i \in Ids, db \in BOOLEAN : CreateRefused(i, db)
  \/ \E w \in Workers, i \in Ids : Redeploy(w, i)
  \/ \E w \in Workers : Execute(w) \/ Run(w) \/ Deadline(w)
  \/ \E r \in Replicas : Crash(r)

Spec == Init /\ [][Next]_vars

\* A goroutine that can take a step takes it: the calls it makes return and
\* the clock runs.  Until its deadline has passed a poll need not conclude:
\* Argo CD may answer "Progressing" every time.
Fairness ==
  \A w \in Workers :
    /\ WF_vars(Execute(w) \/ (Run(w) /\ (At(w, "SYNCING") => late[w])))
    /\ WF_vars(Deadline(w))

FairSpec == Spec /\ Fairness

---------------------------------------------------------------------------
(* Properties.                                                             *)

\* Types of the variables.
TypeOK ==
  /\ doc \in [Ids -> Record]
  /\ registry \in [Ids -> SUBSET Artifact]
  /\ target \in [Ids -> Artifact \cup {None}]
  /\ synced \in [Ids -> BOOLEAN]
  /\ inflight \in [Replicas -> SUBSET Ids]
  /\ pc \in [Workers -> PC]
  /\ job \in [Workers -> Ids \cup {None}]
  /\ agg \in [Workers -> Record]
  /\ archive \in [Workers -> BOOLEAN]
  /\ late \in [Workers -> BOOLEAN]
  /\ creates \in [Ids -> 0 .. MaxCreates]
  /\ faults \in 0 .. MaxFaults

\* Within a replica no two goroutines drive the same deployment, whatever
\* create requests, redeploys and crashes race (execute.go, acquire).
OneDriver ==
  \A w, v \in Workers :
    (w # v /\ Host(w) = Host(v) /\ Driving(w) /\ Driving(v)) => job[w] # job[v]

\* An identity is in the inflight map of a replica exactly while a goroutine
\* of that replica drives it: no error path, and no skipped execution, leaks
\* the entry or drops another's (execute.go, acquire and release).
InflightIsDriven ==
  \A r \in Replicas :
    inflight[r] = {job[w] : w \in {v \in Workers : Host(v) = r /\ Driving(v)}}

\* Whatever was lost, and whichever saves of whichever replicas and requests
\* were merged by the upsert, a document can be driven on from its status:
\* the guards of run against a nil metadata, artifact or Argo CD application
\* (execute.go:154-158, 243-246, 262-264) never find one.
StoredIsResumable == \A i \in Ids : Resumable(doc[i])

\* A deployment is stored as HEALTHY or COMPLETED only together with the
\* Healthy answer of Argo CD, also when other drivers save their own polls
\* (execute.go, pollHealth and the stages after it).
CompletedWasHealthy ==
  \A i \in Ids : doc[i].status \in {"HEALTHY", "COMPLETED"} => doc[i].health = "Healthy"

\* The record never runs ahead of the world: a stored artifact was pushed, a
\* stored Application exists, a deployment stored as SYNCING or later had a
\* sync accepted (execute.go, effect first and save after).
EffectsFirst ==
  \A i \in Ids :
    /\ doc[i].artifact # None => doc[i].artifact \in registry[i]
    /\ doc[i].argo => target[i] # None
    /\ doc[i].status \in Applied \ {"ARGO_APP_CREATED"} => synced[i]

\* With one replica, the Application points at the very artifact of the record
\* as long as the record says it is applied.
TargetIsRecorded ==
  \A i \in Ids : doc[i].status \in Applied => target[i] = doc[i].artifact

\* Only a fault leaves a deployment half way: as long as no process crashed and
\* no database call failed, a document past its first status and short of a
\* terminal one is being driven, through every error path of run and whichever
\* replica or request saved it last (execute.go:100-102: on any step error the
\* aggregate is marked FAILED and persisted).
HalfWayIsDriven ==
  faults = 0 =>
    \A i \in Ids :
      doc[i].status \notin Terminal \cup {Absent, "RECEIVED"} =>
        \E w \in Workers : Driving(w) /\ job[w] = i

\* A completed deployment carries no error (persistence/deployment.go:54-56:
\* a stale error must not be left "on a now-COMPLETED record").
CompletedHasNoError ==
  \A i \in Ids : doc[i].status = "COMPLETED" => ~doc[i].err

\* The resources a deployment is stored, and so composed, with are those its
\* own request declared.
ResourcesAreDeclared ==
  \A i \in Ids : doc[i].req # None => doc[i].res = doc[i].req.db

Kept(i) ==
  /\ doc'[i].status = doc[i].status
  /\ doc'[i].artifact = doc[i].artifact
  /\ doc'[i].health = doc[i].health

\* With one replica, nothing but another request with its identity takes a stored
\* deployment out of a terminal status, or changes what it says was deployed: no drive
\* of an earlier request, no redeploy, no save that was applied although it returned an
\* error, and no failure recorded after it (entity.go, Fail; execute.go, Execute).
OnlyRequestsReopen ==
  [][\A i \in Ids :
       doc[i].status \in Terminal /\ creates'[i] = creates[i] => Kept(i)]_doc

\* Terminal is final: no step at all takes a stored deployment out of a terminal
\* status, or changes what it says was deployed (ARCHITECTURE.md:138).
TerminalIsFinal == [][\A i \in Ids : doc[i].status \in Terminal => Kept(i)]_doc

\* The stored status keeps the lifecycle the domain layer promises, until a second
\* request takes the identity.
Lifecycle == INSTANCE DeploymentLifecycle
  WITH status <- [i \in Ids |-> IF creates[i] <= 1 THEN doc[i].status ELSE "reused"]
LifecycleKept == Lifecycle!Spec

\* Every drive comes to an end and gives the deployment free again: the poll
\* stops at its deadline even if Argo CD never answers Healthy or Degraded.
DriveEnds ==
  \A r \in Replicas, i \in Ids : i \in inflight[r] ~> i \notin inflight[r]

Unsettled(i) == doc[i].status \notin Terminal \cup {Absent}

\* Somebody keeps asking for a redeploy, as the handler's comment expects
\* after a restart (deployment.go:220-222).
Redriven == \A i \in Ids : WF_vars(\E w \in Workers : Redeploy(w, i))

\* With redeploys, a deployment ends in a terminal status unless it is left
\* at one of the two statuses from which run has no stage.
SettlesUnlessParked ==
  Redriven =>
    \A i \in Ids :
      Unsettled(i) ~> (~Unsettled(i) \/ doc[i].status \in {"CHART_COMPOSED", "DEGRADED"})

\* With redeploys, a deployment ends in a terminal status (execute.go:28-29
\* and 144-145: a restart is re-driven, a re-drive resumes where it left off).
RedriveSettles == Redriven => \A i \in Ids : Unsettled(i) ~> ~Unsettled(i)
===========================================================================
