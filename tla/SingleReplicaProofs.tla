------------------------ MODULE SingleReplicaProofs ------------------------
(***************************************************************************)
(* What module Executor promises only while the server has one replica,    *)
(* the guard of the inflight map being one of a process (execute.go:40-45):*)
(* TargetIsRecorded, OnlyRequestsReopen, and that the stored statuses      *)
(* implement DeploymentLifecycle until a second request takes the identity.*)
(*                                                                         *)
(* In one replica the lock makes the driver of a deployment the only one   *)
(* that saves it or points its Application, apart from a request that is   *)
(* received again.  So the proofs relate the document of a deployment to   *)
(* the aggregate of its one driver, and an action is looked at for its own *)
(* goroutine and its own deployment only.                                  *)
(***************************************************************************)
EXTENDS RecordProofs

OneReplica == \A r, s \in Replicas : r = s

\* No two goroutines drive one deployment.
Exclusive ==
  \A w, v \in Workers : (w # v /\ Driving(w) /\ Driving(v)) => job[w] # job[v]

LEMMA OneReplicaIsExclusive == OneReplica /\ OneDriver => Exclusive
  BY DEF OneReplica, OneDriver, Exclusive, Workers, Host

(***************************************************************************)
(* TargetIsRecorded.  An Application is pointed at a new artifact while    *)
(* the record is not at an applied status, and the record gets there only  *)
(* with the aggregate that the Application was pointed by.                 *)
(***************************************************************************)

Recorded(record, pointed) == record.status \in Applied => pointed = record.artifact

\* How the aggregate of a driver relates to the record and the Application.
Matched(place, d, record, pointed) ==
  /\ place \in Held /\ d.status \in Applied => pointed = d.artifact
  /\ place = "created" => pointed = d.artifact
  /\ place \in {"stage", "publish", "published", "created"} /\ d.status \notin Applied =>
       record.status \notin Applied

TargetInv ==
  /\ \A i \in Ids : Recorded(doc[i], target[i])
  /\ \A w \in Workers :
       job[w] \in Ids => Matched(pc[w], agg[w], doc[job[w]], target[job[w]])

\* After a step of w, on the deployment i that it drives.
TargetAfter(w, i) ==
  Recorded(doc'[i], target'[i]) /\ Matched(pc'[w], agg'[w], doc'[i], target'[i])

\* What holds of a driver and its deployment after its step holds of all.
LEMMA TargetFootprint ==
  ASSUME TypeInv, Exclusive, TargetInv, NEW w \in Workers, Driving(w), Footprint(w),
         TargetAfter(w, job[w]), UNCHANGED job
  PROVE  TargetInv'
<1>1. job[w] \in Ids
  BY TypeFacts DEF Driving
<1>2. \A i \in Ids : Recorded(doc'[i], target'[i])
  BY DEF TargetAfter, Footprint, TargetInv
<1>3. ASSUME NEW v \in Workers, job'[v] \in Ids
      PROVE  Matched(pc'[v], agg'[v], doc'[job'[v]], target'[job'[v]])
  <2>1. CASE v = w
    BY <2>1 DEF TargetAfter
  <2>2. CASE v # w /\ Driving(v)
    <3>1. job[v] # job[w]
      BY <2>2 DEF Exclusive
    <3> QED
      BY <1>3, <2>2, <3>1 DEF Footprint, TargetInv
  <2>3. CASE v # w /\ ~Driving(v)
    <3>1. pc'[v] \in {"idle", "acquire"}
      BY <2>3 DEF Footprint, Driving
    <3> QED
      BY <3>1 DEF Matched, Held
  <2> QED
    BY <2>1, <2>2, <2>3
<1> QED
  BY <1>2, <1>3 DEF TargetInv

\* A step that points no Application and takes records only to statuses that
\* are not applied, while each goroutine stays as it was or drives nothing.
LEMMA TargetAside ==
  ASSUME TargetInv, UNCHANGED target,
         \A i \in Ids : doc'[i] = doc[i] \/ doc'[i].status \notin Applied,
         \A v \in Workers :
           \/ pc'[v] = pc[v] /\ agg'[v] = agg[v] /\ job'[v] = job[v]
           \/ pc'[v] \in {"idle", "acquire", "load"}
  PROVE  TargetInv'
<1>1. \A i \in Ids : Recorded(doc'[i], target'[i])
  BY DEF TargetInv, Recorded
<1>2. ASSUME NEW v \in Workers, job'[v] \in Ids
      PROVE  Matched(pc'[v], agg'[v], doc'[job'[v]], target'[job'[v]])
  <2>1. CASE pc'[v] \in {"idle", "acquire", "load"}
    BY <2>1 DEF Matched, Held
  <2>2. CASE pc'[v] = pc[v] /\ agg'[v] = agg[v] /\ job'[v] = job[v]
    BY <1>2, <2>2 DEF TargetInv, Matched
  <2> QED
    BY <2>1, <2>2
<1> QED
  BY <1>1, <1>2 DEF TargetInv

\* What a driver finds before its step.
LEMMA TargetBefore ==
  ASSUME TypeInv, RecordInv, TargetInv, NEW w \in Workers, pc[w] # "idle"
  PROVE  /\ job[w] \in Ids /\ doc[job[w]] \in Sound /\ doc[job[w]] \in Record
         /\ agg[w] \in Sound /\ agg[w] \in Record
         /\ Consistent(agg[w]) /\ Place(pc[w], agg[w])
         /\ Recorded(doc[job[w]], target[job[w]])
         /\ Matched(pc[w], agg[w], doc[job[w]], target[job[w]])
  BY TypeFacts DEF TypeInv, StoreType, Sound, RecordInv, TargetInv

\* A save of an aggregate that the Application agrees with.
LEMMA RecordedStored ==
  ASSUME NEW old \in Sound, NEW d \in Sound, Consistent(d), NEW pointed,
         d.status \in Applied => pointed = d.artifact
  PROVE  Recorded(Stored(old, d), pointed)
<1>1. d \in Record
  BY DEF Sound
<1>2. /\ Stored(old, d).status = d.status
      /\ d.artifact # None => Stored(old, d).artifact = d.artifact
  BY <1>1 DEF Stored, Record
<1>3. d.status \in Applied => d.artifact # None
  BY DEF Consistent, Resumable, Applied
<1> QED
  BY <1>2, <1>3 DEF Recorded

\* A step of the status machine by a driver whose Application agrees with the
\* aggregate, if it has one by then.
LEMMA TargetStep ==
  ASSUME TypeInv, RecordInv, TargetInv, NEW w \in Workers, pc[w] \in Held,
         NEW d \in Sound, NEW next \in Status, CanTransitionTo(d.status, next),
         NEW after \in Held \ {"created"}, Step(w, d, next, after), UNCHANGED target,
         Consistent([d EXCEPT !.status = next]),
         next \in Applied => target[job[w]] = d.artifact,
         next \notin Applied => doc[job[w]].status \notin Applied
  PROVE  TargetAfter(w, job[w])
<1> DEFINE i == job[w]
           moved == [d EXCEPT !.status = next]
<1>1. TransitionTo(d, next) = moved
  BY DEF TransitionTo
<1>2. /\ moved \in Sound /\ moved.status = next /\ moved.artifact = d.artifact
      /\ Consistent(moved)
  BY <1>1, SoundTransition DEF Sound, Record
<1>3. agg' = [agg EXCEPT ![w] = moved] /\ agg'[w] = moved
  BY <1>1 DEF Step, TypeInv, LocalType
<1>4. PICK ok \in BOOLEAN :
             Save(i, moved, ok) /\ Goto(w, IF ok THEN after ELSE "fail")
  BY <1>1 DEF Step
<1> HIDE DEF moved
<1>5. doc[i] \in Sound /\ i \in Ids /\ Recorded(doc[i], target[i])
  BY TargetBefore DEF Held
<1>6. Recorded(Stored(doc[i], moved), target[i]) /\ Stored(doc[i], moved).status = next
  <2>1. Recorded(Stored(doc[i], moved), target[i])
    BY <1>2, <1>5, RecordedStored
  <2>2. Stored(doc[i], moved).status = moved.status
    BY <1>2 DEF Stored, Sound, Record
  <2> QED
    BY <1>2, <2>1, <2>2
<1>7. doc'[i] \in {doc[i], Stored(doc[i], moved)}
  BY <1>4, <1>5 DEF Save, TypeInv, StoreType
<1>8. pc'[w] \in {after, "fail"}
  BY <1>4 DEF Goto, TypeInv, LocalType
<1>9. Matched(pc'[w], moved, doc'[i], target[i])
  BY <1>2, <1>6, <1>7, <1>8 DEF Matched, Held
<1> QED
  BY <1>3, <1>5, <1>6, <1>7, <1>9 DEF TargetAfter

\* A driver that leaves the record and the Application alone.
LEMMA TargetLeave ==
  ASSUME TypeInv, RecordInv, TargetInv, NEW w \in Workers, pc[w] \in Held,
         UNCHANGED <<doc, target>>,
         agg'[w].status = agg[w].status,
         agg'[w].status \in Applied => agg'[w].artifact = agg[w].artifact,
         \/ pc'[w] \in {"fail", "release", "sync"}
         \/ pc[w] \in {"stage", "publish"} /\ pc'[w] \in {"stage", "published"}
  PROVE  TargetAfter(w, job[w])
<1>1. /\ Recorded(doc[job[w]], target[job[w]])
      /\ Matched(pc[w], agg[w], doc[job[w]], target[job[w]])
  BY TargetBefore DEF Held
<1> QED
  BY <1>1 DEF TargetAfter, Matched, Held

LEMMA TargetExecute ==
  ASSUME TypeInv, RecordInv, Exclusive, TargetInv, NEW w \in Workers, Execute(w)
  PROVE  TargetInv'
<1>fp. Footprint(w)
  BY ExecuteFootprint
<1>1. CASE Acquire(w) \/ Skip(w)
  <2>1. pc'[w] \in {"idle", "load"}
    BY <1>1 DEF Acquire, Skip, End, Goto, TypeInv, LocalType
  <2> QED
    BY <1>1, <1>fp, <2>1, TargetAside DEF Acquire, Skip, store, world, Footprint
<1>2. CASE Load(w)
  <2>1. /\ pc[w] = "load" /\ UNCHANGED <<doc, target, job>>
        /\ agg'[w] = doc[job[w]] /\ pc'[w] \in {"release", "fail", "stage"}
    BY <1>2 DEF Load, Goto, store, world, TypeInv, LocalType
  <2>2. TargetAfter(w, job[w])
    BY <2>1, TargetBefore DEF TargetAfter, Matched, Recorded, Held
  <2> QED
    BY <1>fp, <2>1, <2>2, TargetFootprint DEF Driving
<1>3. CASE LoadFails(w)
  <2>1. /\ pc[w] = "load" /\ UNCHANGED <<doc, target, job>>
        /\ agg'[w] = agg[w] /\ pc'[w] = "release"
    BY <1>3 DEF LoadFails, Goto, world, TypeInv, LocalType
  <2>2. TargetAfter(w, job[w])
    BY <2>1, TargetBefore DEF TargetAfter, Matched, Held
  <2> QED
    BY <1>fp, <2>1, <2>2, TargetFootprint DEF Driving
<1>4. CASE FailAndSave(w)
  <2> DEFINE d == Fail(agg[w])
             i == job[w]
  <2>1. /\ pc[w] = "fail" /\ UNCHANGED <<target, job>>
        /\ agg'[w] = d /\ pc'[w] = "release"
    BY <1>4 DEF FailAndSave, Goto, world, TypeInv, LocalType
  <2>2. /\ i \in Ids /\ doc[i] \in Sound /\ agg[w] \in Sound /\ agg[w] \in Record
        /\ Consistent(agg[w]) /\ Recorded(doc[i], target[i])
        /\ Matched(pc[w], agg[w], doc[i], target[i])
    BY <2>1, TargetBefore
  <2>3. d \in Sound /\ Consistent(d)
    BY <2>2, SoundEnd, ConsistentFail
  <2>4. d.status \in {agg[w].status, "FAILED"} /\ d.artifact = agg[w].artifact
    BY <2>2 DEF Fail, TransitionTo, Record
  <2>5. d.status \in Applied => target[i] = d.artifact
    BY <2>1, <2>2, <2>4 DEF Matched, Held, Applied, Published
  <2> HIDE DEF d
  <2>6. Recorded(Stored(doc[i], d), target[i])
    BY <2>2, <2>3, <2>5, RecordedStored
  <2>7. doc'[i] \in {doc[i], Stored(doc[i], d)}
    BY <1>4, <2>1, <2>2 DEF FailAndSave, Save, TypeInv, StoreType
  <2>8. TargetAfter(w, i)
    BY <2>1, <2>2, <2>5, <2>6, <2>7 DEF TargetAfter, Matched, Held
  <2> QED
    BY <1>fp, <2>1, <2>8, TargetFootprint DEF Driving
<1>5. CASE Release(w)
  <2>1. UNCHANGED <<doc, target>> /\ pc'[w] = "idle"
    BY <1>5 DEF Release, End, Goto, store, world, TypeInv, LocalType
  <2> QED
    BY <1>fp, <2>1, TargetAside DEF Footprint
<1> QED
  BY <1>1, <1>2, <1>3, <1>4, <1>5 DEF Execute

\* The stages that are one step of the status machine.
LEMMA TargetStages ==
  ASSUME TypeInv, RecordInv, TargetInv, NEW w \in Workers
  PROVE  /\ Validate(w) => TargetAfter(w, job[w])
         /\ GenerateMetadata(w) => TargetAfter(w, job[w])
         /\ ChartResolved(w) => TargetAfter(w, job[w])
         /\ Compose(w) => TargetAfter(w, job[w])
         /\ ArtifactPublished(w) => TargetAfter(w, job[w])
         /\ ArgoAppCreated(w) => TargetAfter(w, job[w])
         /\ Syncing(w) => TargetAfter(w, job[w])
         /\ Healthy(w) => TargetAfter(w, job[w])
         /\ Degraded(w) => TargetAfter(w, job[w])
<1>at. ASSUME pc[w] \in Held
       PROVE  /\ agg[w] \in Sound /\ agg[w] \in Record
              /\ Consistent(agg[w]) /\ Place(pc[w], agg[w])
              /\ Matched(pc[w], agg[w], doc[job[w]], target[job[w]])
  BY <1>at, TargetBefore DEF Held
\* A step from the aggregate as it is: what the record and the Application have
\* to be like at the new status.
<1>step. ASSUME NEW next \in Status, NEW after \in Held \ {"created"}, pc[w] \in Held,
                CanTransitionTo(agg[w].status, next), Step(w, agg[w], next, after),
                UNCHANGED target, Consistent([agg[w] EXCEPT !.status = next]),
                \/ /\ next \in Applied
                   /\ agg[w].status \in Applied \/ pc[w] = "created"
                \/ /\ next \notin Applied /\ agg[w].status \notin Applied
                   /\ pc[w] \in {"stage", "publish", "published"}
         PROVE  TargetAfter(w, job[w])
  <2>1. next \in Applied => target[job[w]] = agg[w].artifact
    BY <1>at, <1>step DEF Matched
  <2>2. next \notin Applied => doc[job[w]].status \notin Applied
    BY <1>at, <1>step DEF Matched
  <2> QED
    BY <1>at, <1>step, <2>1, <2>2, TargetStep
<1>1. CASE Validate(w)
  BY <1>1, <1>at, <1>step
     DEF Validate, At, CanTransitionTo, Status, Consistent, Resumable, Published,
         Applied, Absent, Record, Held, world
<1>2. CASE GenerateMetadata(w)
  <2> DEFINE d == [agg[w] EXCEPT !.meta = Base]
  <2>1. /\ agg[w].status = "VALIDATING" /\ pc[w] = "stage" /\ UNCHANGED target
        /\ Step(w, d, "METADATA_GENERATED", "stage")
    BY <1>2 DEF GenerateMetadata, At, world
  <2>2. d \in Sound /\ d \in Record /\ d.status = "VALIDATING" /\ d.meta = Base
    BY <1>at, <2>1, SoundField DEF Sound, Record, Held
  <2>3. doc[job[w]].status \notin Applied
    BY <1>at, <2>1 DEF Matched, Applied, Published, Held
  <2> HIDE DEF d
  <2>4. Consistent([d EXCEPT !.status = "METADATA_GENERATED"])
    BY <2>2, NilAssumption DEF Consistent, Resumable, Published, Applied, Absent, Record
  <2> QED
    BY <2>1, <2>2, <2>3, <2>4, TargetStep
       DEF CanTransitionTo, Status, Applied, Published, Held
<1>3. CASE ChartResolved(w)
  BY <1>3, <1>at, <1>step
     DEF ChartResolved, At, CanTransitionTo, Status, Consistent, Resumable, Published,
         Applied, Absent, Record, Held, world
<1>4. CASE Compose(w)
  <2>1. CASE Step(w, agg[w], "CHART_COMPOSED", "publish")
    BY <1>4, <2>1, <1>at, <1>step
       DEF Compose, At, CanTransitionTo, Status, Consistent, Resumable, Published,
           Applied, Absent, Record, Held, world
  <2>2. CASE Goto(w, "fail") /\ UNCHANGED <<store, agg>>
    BY <1>4, <2>2, TargetLeave
       DEF Compose, At, Goto, Held, store, world, TypeInv, LocalType
  <2> QED
    BY <1>4, <2>1, <2>2 DEF Compose
<1>5. CASE ArtifactPublished(w)
  BY <1>5, <1>at, <1>step
     DEF ArtifactPublished, Place, CanTransitionTo, Status, Consistent, Resumable,
         Published, Applied, Absent, Record, Held, world
<1>6. CASE ArgoAppCreated(w)
  BY <1>6, <1>at, <1>step
     DEF ArgoAppCreated, Place, CanTransitionTo, Status, Consistent, Resumable,
         Published, Applied, Absent, Record, Held, world
<1>7. CASE Syncing(w)
  BY <1>7, <1>at, <1>step
     DEF Syncing, Place, CanTransitionTo, Status, Consistent, Resumable, Published,
         Applied, Absent, Record, Held, world
<1>8. CASE Healthy(w)
  BY <1>8, <1>at, <1>step
     DEF Healthy, Place, CanTransitionTo, Status, Consistent, Resumable, Published,
         Applied, Absent, Record, Held, world
<1>9. CASE Degraded(w)
  BY <1>9, <1>at, <1>step
     DEF Degraded, Place, CanTransitionTo, Status, Consistent, Resumable, Published,
         Applied, Absent, Record, Held, world
<1> QED
  BY <1>1, <1>2, <1>3, <1>4, <1>5, <1>6, <1>7, <1>8, <1>9

\* The stages that call the outside world: CreateOrUpdate points the Application
\* at the artifact of the aggregate, and the record is not at an applied status.
LEMMA TargetCalls ==
  ASSUME TypeInv, RecordInv, TargetInv, NEW w \in Workers
  PROVE  /\ Resolve(w) => TargetAfter(w, job[w])
         /\ Publish(w) => TargetAfter(w, job[w])
         /\ CreateOrUpdate(w) => TargetAfter(w, job[w])
         /\ Sync(w) => TargetAfter(w, job[w])
         /\ Poll(w) => TargetAfter(w, job[w])
         /\ PollFails(w) => TargetAfter(w, job[w])
         /\ Completed(w) => TargetAfter(w, job[w])
         /\ NothingToDo(w) => TargetAfter(w, job[w])
<1>at. ASSUME pc[w] \in Held
       PROVE  /\ job[w] \in Ids /\ doc[job[w]] \in Sound
              /\ agg[w] \in Sound /\ agg[w] \in Record
              /\ Consistent(agg[w]) /\ Place(pc[w], agg[w])
              /\ Recorded(doc[job[w]], target[job[w]])
              /\ Matched(pc[w], agg[w], doc[job[w]], target[job[w]])
  BY <1>at, TargetBefore DEF Held
<1>1. CASE Resolve(w)
  <2>1. /\ pc[w] = "stage" /\ UNCHANGED <<doc, target>>
        /\ pc'[w] \in {"stage", "fail"}
        /\ agg[w].status \in {"METADATA_GENERATED", "CHART_RESOLVED"}
    BY <1>1 DEF Resolve, At, Goto, store, world, TypeInv, LocalType
  <2>2. agg'[w].status = agg[w].status
    BY <1>1, <1>at, <2>1 DEF Resolve, TypeInv, LocalType, Record, Held
  <2> QED
    BY <2>1, <2>2, TargetLeave DEF Held, Applied, Published
<1>2. CASE Publish(w)
  <2>1. /\ pc[w] = "publish" /\ UNCHANGED <<doc, target>>
        /\ pc'[w] \in {"published", "fail"}
    BY <1>2 DEF Publish, Goto, store, TypeInv, LocalType
  <2>2. agg'[w].status = agg[w].status /\ agg[w].status = "CHART_COMPOSED"
    BY <1>2, <1>at, <2>1 DEF Publish, Place, TypeInv, LocalType, Record, Held
  <2> QED
    BY <2>1, <2>2, TargetLeave DEF Held, Applied, Published
<1>3. CASE CreateOrUpdate(w)
  <2> DEFINE i == job[w]
  <2>1. /\ pc[w] = "stage" /\ agg[w].status = "ARTIFACT_PUBLISHED"
        /\ UNCHANGED doc
    BY <1>3 DEF CreateOrUpdate, At, store
  <2>2. agg[w].status \notin Applied
    BY <2>1 DEF Applied
  <2>3. doc'[i].status \notin Applied
    BY <1>at, <2>1, <2>2 DEF Matched, Held
  <2>4. agg'[w].status = agg[w].status /\ agg'[w].artifact = agg[w].artifact
    BY <1>3, <1>at, <2>1 DEF CreateOrUpdate, TypeInv, LocalType, Record, Held
  <2>5. /\ pc'[w] \in {"created", "fail"}
        /\ pc'[w] = "created" => target'[i] = agg[w].artifact
    BY <1>3, <1>at, <2>1
       DEF CreateOrUpdate, Goto, TypeInv, LocalType, WorldType, Held
  <2> QED
    BY <2>2, <2>3, <2>4, <2>5 DEF TargetAfter, Recorded, Matched
<1>4. CASE Sync(w) \/ PollFails(w) \/ NothingToDo(w)
  BY <1>4, TargetLeave
     DEF Sync, PollFails, NothingToDo, At, Goto, Held, store, world, TypeInv, LocalType
<1>5. CASE Poll(w)
  <2> DEFINE i == job[w]
  <2>1. PICK h \in Health \ {"unset"} :
               agg' = [agg EXCEPT ![w].health = h] /\ Goto(w, Verdict(h, late[w]))
    BY <1>5 DEF Poll
  <2> DEFINE d == [agg[w] EXCEPT !.health = h]
  <2>2. pc[w] = "stage" /\ agg[w].status = "SYNCING" /\ UNCHANGED target
    BY <1>5 DEF Poll, At, world
  <2>3. agg'[w] = d /\ d \in Sound
    BY <1>at, <2>1, <2>2, SoundField DEF TypeInv, LocalType, Held
  <2>4. /\ d.status = "SYNCING" /\ d.artifact = agg[w].artifact
        /\ d.meta = agg[w].meta /\ d.argo = agg[w].argo
    BY <1>at, <2>2 DEF Record, Held
  <2>5. pc'[w] \in {"healthy", "degraded", "stage"}
    BY <2>1 DEF Goto, Verdict, TypeInv, LocalType
  <2> HIDE DEF d
  <2>6. Consistent(d) /\ target[i] = d.artifact
    BY <1>at, <2>2, <2>4 DEF Consistent, Resumable, Matched, Applied, Published, Held
  <2>7. doc'[i] \in {doc[i], Stored(doc[i], d)}
    BY <1>5, <1>at, <2>2, <2>3 DEF Poll, Save, TypeInv, StoreType, Held
  <2>8. Recorded(doc'[i], target[i])
    BY <1>at, <2>2, <2>3, <2>6, <2>7, RecordedStored DEF Held
  <2> QED
    BY <2>2, <2>3, <2>4, <2>5, <2>6, <2>8
       DEF TargetAfter, Matched, Applied, Published
<1>6. CASE Completed(w)
  <2> DEFINE i == job[w]
             d == Complete(agg[w])
  <2>1. pc[w] = "stage" /\ agg[w].status = "HEALTHY" /\ UNCHANGED target
    BY <1>6 DEF Completed, At, world
  <2>2. agg'[w] = d /\ d \in Sound /\ Consistent(d)
    BY <1>6, <1>at, <2>1, SoundEnd, ConsistentComplete
       DEF Completed, TypeInv, LocalType, Held
  <2>3. d.status = "COMPLETED" /\ d.artifact = agg[w].artifact
    BY <1>at, <2>1 DEF Complete, TransitionTo, CanTransitionTo, Record, Held
  <2>4. pc'[w] \in {"release", "fail"}
    BY <1>6 DEF Completed, Goto, TypeInv, LocalType
  <2> HIDE DEF d
  <2>5. target[i] = d.artifact
    BY <1>at, <2>1, <2>3 DEF Matched, Applied, Published, Held
  <2>6. doc'[i] \in {doc[i], Stored(doc[i], d)}
    BY <1>6, <1>at, <2>1, <2>2 DEF Completed, Save, TypeInv, StoreType, Held
  <2>7. Recorded(doc'[i], target[i])
    BY <1>at, <2>1, <2>2, <2>5, <2>6, RecordedStored DEF Held
  <2> QED
    BY <2>1, <2>2, <2>3, <2>4, <2>5, <2>7 DEF TargetAfter, Matched
<1> QED
  BY <1>1, <1>2, <1>3, <1>4, <1>5, <1>6

LEMMA TargetNext ==
  TypeInv /\ RecordInv /\ Exclusive /\ TargetInv /\ [Next]_vars => TargetInv'
<1> SUFFICES ASSUME TypeInv, RecordInv, Exclusive, TargetInv, [Next]_vars
             PROVE  TargetInv'
  OBVIOUS
<1>1. ASSUME NEW w \in Workers, NEW i \in Ids, Trigger(w, i)
      PROVE  \A v \in Workers :
               \/ pc'[v] = pc[v] /\ agg'[v] = agg[v] /\ job'[v] = job[v]
               \/ pc'[v] \in {"idle", "acquire", "load"}
  BY <1>1 DEF Trigger, Goto, TypeInv, LocalType
<1>2. ASSUME NEW w \in Workers, NEW i \in Ids, NEW db \in BOOLEAN, Create(w, i, db)
      PROVE  TargetInv'
  BY <1>1, <1>2, ReceivedSave, TargetAside DEF Create, Applied, Published, world
<1>3. ASSUME NEW i \in Ids, NEW db \in BOOLEAN, CreateRefused(i, db)
      PROVE  TargetInv'
  BY <1>3, ReceivedSave, TargetAside
     DEF CreateRefused, Applied, Published, world, local
<1>4. ASSUME NEW w \in Workers, NEW i \in Ids, Redeploy(w, i)
      PROVE  TargetInv'
  BY <1>1, <1>4, TargetAside DEF Redeploy, store, world
<1>5. ASSUME NEW w \in Workers, Execute(w)
      PROVE  TargetInv'
  BY <1>5, TargetExecute
<1>6. ASSUME NEW w \in Workers, Run(w)
      PROVE  TargetInv'
  <2>1. TargetAfter(w, job[w])
    BY <1>6, TargetStages, TargetCalls DEF Run
  <2>2. Driving(w) /\ UNCHANGED job
    BY <1>6 DEF Run, Validate, GenerateMetadata, Resolve, ChartResolved, Compose, Publish,
                ArtifactPublished, CreateOrUpdate, ArgoAppCreated, Sync, Syncing, Poll,
                PollFails, Healthy, Degraded, Completed, NothingToDo, At, Driving
  <2> QED
    BY <1>6, <2>1, <2>2, RunFootprint, TargetFootprint
<1>7. ASSUME NEW w \in Workers, Deadline(w)
      PROVE  TargetInv'
  BY <1>7, TargetAside DEF Deadline, store, world
<1>8. ASSUME NEW r \in Replicas, Crash(r)
      PROVE  TargetInv'
  BY <1>8, TargetAside DEF Crash, world
<1>9. CASE UNCHANGED vars
  BY <1>9, TargetAside DEF vars
<1> QED
  BY <1>2, <1>3, <1>4, <1>5, <1>6, <1>7, <1>8, <1>9 DEF Next

LEMMA TargetInit == Init => TargetInv
  BY DEF Init, TargetInv, Recorded, Matched, NoRecord, Absent, Applied, Published, Held

\* While the server has one replica, an Application points at the very artifact
\* of the record as long as the record says it is applied, for any number of
\* requests with one identity, crashes and lost answers (execute.go:248-266).
THEOREM TargetMatchesRecord == OneReplica => (Spec => []TargetIsRecorded)
<1> SUFFICES ASSUME OneReplica PROVE Spec => []TargetIsRecorded
  OBVIOUS
<1>1. OneDriver => Exclusive
  BY OneReplicaIsExclusive
<1>2. Spec => []TargetInv
  BY <1>1, TargetInit, TargetNext, TypeInvariant, RecordInvariant, MutualExclusion, PTL
     DEF Spec
<1>3. TargetInv => TargetIsRecorded
  BY DEF TargetInv, Recorded, TargetIsRecorded
<1> QED
  BY <1>2, <1>3, PTL

(***************************************************************************)
(* The lifecycle.  Nobody but its driver and further requests with its     *)
(* identity write the record of a deployment, and a request never writes a *)
(* terminal status.  A driver that meets a terminal record wrote it with a *)
(* save that returned an error: run returns, nothing but Fail follows, and *)
(* Fail repeats that save with the same artifact and health.               *)
(*                                                                         *)
(* Before a second request the aggregate in memory is also at the status   *)
(* of the record, or, after a save that returned an error, one step of the *)
(* status machine ahead: a saved failure skips at most one status.         *)
(***************************************************************************)

\* Its identity was asked for at most once.
Once(i) == creates[i] <= 1

Abreast(place, d, record, once) ==
  place \in Held =>
    /\ record.status # Absent
    /\ record.status \in Terminal =>
         /\ place = "fail" /\ d.status = record.status
         /\ d.artifact \in {None, record.artifact}
         /\ d.health \in {"unset", record.health}
    /\ once =>
         \/ d.status = record.status
         \/ place = "fail" /\ CanTransitionTo(record.status, d.status)

AbreastInv ==
  /\ \A i \in Ids : creates[i] = 0 => doc[i] = NoRecord
  /\ \A w \in Workers :
       job[w] \in Ids => Abreast(pc[w], agg[w], doc[job[w]], Once(job[w]))

\* What a save of a driver may make of a record that is there.
Advances(old, new, once) ==
  /\ once => new.status = old.status \/ Lifecycle!Leads(old.status, new.status)
  /\ old.status \in Terminal =>
       new.status = old.status /\ new.artifact = old.artifact /\ new.health = old.health

\* After a step of w, on the deployment i that it drives.
AbreastAfter(w, i) ==
  /\ Abreast(pc'[w], agg'[w], doc'[i], Once(i))
  /\ Advances(doc[i], doc'[i], Once(i))
  /\ doc[i].status = Absent => doc'[i] = doc[i]

LEMMA NoWayOut ==
  /\ \A from, to : from \in Terminal \cup {Absent} => ~CanTransitionTo(from, to)
  /\ \A from, to : CanTransitionTo(from, to) => to \in Status
  BY DEF CanTransitionTo, Terminal, Absent, Status

LEMMA LeadsFacts ==
  \A from, to :
    /\ CanTransitionTo(from, to) => Lifecycle!Leads(from, to)
    /\ \A unseen :
         CanTransitionTo(from, unseen) /\ CanTransitionTo(unseen, to) =>
           Lifecycle!Leads(from, to)
<1>1. \A from, to : Lifecycle!CanTransitionTo(from, to) <=> CanTransitionTo(from, to)
  BY DEF Lifecycle!CanTransitionTo, CanTransitionTo
<1>2. Lifecycle!Status = Status
  BY DEF Lifecycle!Status, Status
<1> QED
  BY <1>1, <1>2, NoWayOut DEF Lifecycle!Leads

LEMMA AdvancesSame == \A d, once : Advances(d, d, once)
  BY DEF Advances

LEMMA AbreastBefore ==
  ASSUME TypeInv, RecordInv, AbreastInv, NEW w \in Workers, pc[w] # "idle"
  PROVE  /\ job[w] \in Ids /\ doc[job[w]] \in Sound /\ doc[job[w]] \in Record
         /\ agg[w] \in Sound /\ agg[w] \in Record
         /\ Place(pc[w], agg[w])
         /\ Abreast(pc[w], agg[w], doc[job[w]], Once(job[w]))
  BY TypeFacts DEF TypeInv, StoreType, Sound, RecordInv, AbreastInv

\* What holds of a driver and its deployment after its step holds of all.
LEMMA AbreastFootprint ==
  ASSUME TypeInv, Exclusive, AbreastInv, NEW w \in Workers, Driving(w), Footprint(w),
         AbreastAfter(w, job[w]), UNCHANGED job
  PROVE  AbreastInv'
<1>1. \A i \in Ids : creates'[i] = 0 => doc'[i] = NoRecord
  <2>1. ASSUME NEW i \in Ids, creates'[i] = 0
        PROVE  doc'[i] = NoRecord
    <3>1. doc[i] = NoRecord
      BY <2>1 DEF AbreastInv, Footprint
    <3>2. CASE i = job[w]
      BY <3>1, <3>2 DEF AbreastAfter, NoRecord
    <3>3. CASE i # job[w]
      BY <3>1, <3>3 DEF Footprint
    <3> QED
      BY <3>2, <3>3
  <2> QED
    BY <2>1
<1>2. ASSUME NEW v \in Workers, job'[v] \in Ids
      PROVE  Abreast(pc'[v], agg'[v], doc'[job'[v]], Once(job[v])')
  <2>1. CASE v = w
    BY <2>1 DEF AbreastAfter, Footprint, Once
  <2>2. CASE v # w /\ Driving(v)
    <3>1. job[v] # job[w]
      BY <2>2 DEF Exclusive
    <3> QED
      BY <1>2, <2>2, <3>1 DEF Footprint, AbreastInv, Once
  <2>3. CASE v # w /\ ~Driving(v)
    <3>1. pc'[v] \in {"idle", "acquire"}
      BY <2>3 DEF Footprint, Driving
    <3> QED
      BY <3>1 DEF Abreast, Held
  <2> QED
    BY <2>1, <2>2, <2>3
<1> QED
  BY <1>1, <1>2 DEF AbreastInv

\* A request for i: a record that is there is only overwritten by a second one.
Requested(i) ==
  /\ creates'[i] = creates[i] + 1
  /\ doc'[i] = doc[i] \/ doc'[i].status = "RECEIVED"
  /\ creates[i] = 0 => doc[i].status = Absent
  /\ \A j \in Ids \ {i} : doc'[j] = doc[j] /\ creates'[j] = creates[j]

\* A step that writes no record but through a request, while each goroutine
\* stays as it was or drives nothing.
LEMMA AbreastAside ==
  ASSUME AbreastInv, TypeInv,
         UNCHANGED <<doc, creates>> \/ \E i \in Ids : Requested(i),
         \A v \in Workers :
           \/ pc'[v] = pc[v] /\ agg'[v] = agg[v] /\ job'[v] = job[v]
           \/ pc'[v] \in {"idle", "acquire", "load"}
  PROVE  AbreastInv'
<1>1. ASSUME NEW v \in Workers, job'[v] \in Ids
      PROVE  Abreast(pc'[v], agg'[v], doc'[job'[v]], Once(job[v])')
  <2>1. CASE pc'[v] \notin Held
    BY <2>1 DEF Abreast
  <2>2. CASE pc'[v] \in Held
    <3> DEFINE j == job[v]
    <3>1. pc'[v] = pc[v] /\ agg'[v] = agg[v] /\ job'[v] = job[v]
      BY <2>2 DEF Held
    <3>2. Abreast(pc[v], agg[v], doc[j], Once(j)) /\ doc[j].status # Absent
      BY <1>1, <2>2, <3>1 DEF AbreastInv, Abreast
    <3>3. CASE doc'[j] = doc[j] /\ creates'[j] = creates[j]
      BY <3>1, <3>2, <3>3 DEF Once
    <3>4. CASE Requested(j)
      <4>1. creates[j] \in Nat /\ creates[j] # 0
        BY <1>1, <3>1, <3>2, <3>4, NilAssumption DEF Requested, TypeInv
      <4>2. ~Once(j)'
        BY <3>1, <3>4, <4>1 DEF Requested, Once
      <4> QED
        BY <2>2, <3>1, <3>2, <3>4, <4>2 DEF Requested, Abreast, Terminal, Absent
    <3> QED
      BY <1>1, <3>1, <3>3, <3>4 DEF Requested
  <2> QED
    BY <2>1, <2>2
<1>2. ASSUME NEW i \in Ids, creates'[i] = 0
      PROVE  doc'[i] = NoRecord
  BY <1>2, NilAssumption DEF Requested, AbreastInv, TypeInv
<1> QED
  BY <1>1, <1>2 DEF AbreastInv

\* A step of the status machine by a driver that is abreast of its record.
LEMMA AbreastStep ==
  ASSUME TypeInv, RecordInv, AbreastInv, NEW w \in Workers, pc[w] \in Held \ {"fail"},
         NEW d \in Sound, d.status = agg[w].status,
         NEW next \in Status \ Terminal, CanTransitionTo(d.status, next),
         NEW after \in Held, Step(w, d, next, after)
  PROVE  AbreastAfter(w, job[w])
<1> DEFINE i == job[w]
           moved == [d EXCEPT !.status = next]
<1>1. TransitionTo(d, next) = moved
  BY DEF TransitionTo
<1>2. moved \in Sound /\ moved.status = next
  BY <1>1, SoundTransition DEF Sound, Record
<1>3. agg' = [agg EXCEPT ![w] = moved] /\ agg'[w] = moved
  BY <1>1 DEF Step, TypeInv, LocalType
<1>4. PICK ok \in BOOLEAN :
             Save(i, moved, ok) /\ Goto(w, IF ok THEN after ELSE "fail")
  BY <1>1 DEF Step
<1> HIDE DEF moved
<1>5. /\ i \in Ids /\ doc[i].status \notin Terminal \cup {Absent}
      /\ Once(i) => doc[i].status = d.status
  BY AbreastBefore DEF Abreast, Held
<1>6. Stored(doc[i], moved).status = next
  BY <1>2 DEF Stored, Sound, Record
<1>7. \/ pc'[w] = after /\ doc'[i] = Stored(doc[i], moved)
      \/ pc'[w] = "fail" /\ doc'[i] \in {doc[i], Stored(doc[i], moved)}
  BY <1>4, <1>5 DEF Save, Goto, TypeInv, StoreType, LocalType
<1>8. doc'[i].status \notin Terminal /\ next # Absent
  BY <1>5, <1>6, <1>7, NoWayOut DEF Status, Absent
<1>9. Abreast(pc'[w], moved, doc'[i], Once(i))
  BY <1>2, <1>5, <1>6, <1>7, <1>8 DEF Abreast
<1>10. Advances(doc[i], doc'[i], Once(i))
  BY <1>5, <1>6, <1>7, <1>8, LeadsFacts DEF Advances
<1> QED
  BY <1>3, <1>5, <1>9, <1>10 DEF AbreastAfter

\* A driver that leaves its record alone.
LEMMA AbreastLeave ==
  ASSUME TypeInv, RecordInv, AbreastInv, NEW w \in Workers, pc[w] \in Held \ {"fail"},
         UNCHANGED doc, agg'[w].status = agg[w].status
  PROVE  AbreastAfter(w, job[w])
<1>1. Abreast(pc[w], agg[w], doc[job[w]], Once(job[w]))
  BY AbreastBefore DEF Held
<1> QED
  BY <1>1, AdvancesSame DEF AbreastAfter, Abreast

LEMMA AbreastExecute ==
  ASSUME TypeInv, RecordInv, AbreastInv, NEW w \in Workers
  PROVE  /\ Load(w) => AbreastAfter(w, job[w])
         /\ LoadFails(w) => AbreastAfter(w, job[w])
         /\ FailAndSave(w) => AbreastAfter(w, job[w])
<1>1. CASE Load(w)
  <2>1. /\ UNCHANGED doc /\ agg'[w] = doc[job[w]]
        /\ pc'[w] \in {"release", "fail", "stage"}
        /\ doc[job[w]].status \in Terminal \cup {Absent} => pc'[w] = "release"
    BY <1>1 DEF Load, Goto, store, TypeInv, LocalType
  <2> QED
    BY <2>1, AdvancesSame DEF AbreastAfter, Abreast, Held
<1>2. CASE LoadFails(w)
  <2>1. UNCHANGED doc /\ pc'[w] = "release"
    BY <1>2 DEF LoadFails, Goto, TypeInv, LocalType
  <2> QED
    BY <2>1, AdvancesSame DEF AbreastAfter, Abreast, Held
<1>3. CASE FailAndSave(w)
  <2> DEFINE i == job[w]
             d == Fail(agg[w])
             new == Stored(doc[i], d)
  <2>1. pc[w] = "fail" /\ agg'[w] = d /\ pc'[w] = "release"
    BY <1>3 DEF FailAndSave, Goto, TypeInv, LocalType
  <2>2. /\ i \in Ids /\ agg[w] \in Sound /\ agg[w] \in Record
        /\ Abreast("fail", agg[w], doc[i], Once(i)) /\ doc[i].status # Absent
    BY <2>1, AbreastBefore DEF Abreast, Held
  <2>3. d \in Sound /\ d \in Record
    BY <2>2, SoundEnd DEF Sound
  <2>4. /\ d.status = IF CanTransitionTo(agg[w].status, "FAILED")
                      THEN "FAILED" ELSE agg[w].status
        /\ d.artifact = agg[w].artifact /\ d.health = agg[w].health
    BY <2>2 DEF Fail, TransitionTo, Record
  <2> HIDE DEF d
  <2>5. /\ new.status = d.status
        /\ new.artifact = IF d.artifact = None THEN doc[i].artifact ELSE d.artifact
        /\ new.health = IF d.health = "unset" THEN doc[i].health ELSE d.health
    BY <2>3 DEF Stored, Record
  <2>6. doc'[i] \in {doc[i], new}
    BY <1>3, <2>1, <2>2 DEF FailAndSave, Save, TypeInv, StoreType
  <2> HIDE DEF new
  <2>7. Once(i) => new.status = doc[i].status \/ Lifecycle!Leads(doc[i].status, new.status)
    BY <2>2, <2>4, <2>5, LeadsFacts DEF Abreast, Held
  <2>8. doc[i].status \in Terminal =>
          /\ new.status = doc[i].status /\ new.artifact = doc[i].artifact
          /\ new.health = doc[i].health
    <3>1. ASSUME doc[i].status \in Terminal
          PROVE  agg[w].status = doc[i].status /\ ~CanTransitionTo(agg[w].status, "FAILED")
      BY <2>2, <3>1, NoWayOut DEF Abreast, Held
    <3> QED
      BY <2>2, <2>4, <2>5, <3>1 DEF Abreast, Held
  <2>9. Advances(doc[i], doc'[i], Once(i))
    BY <2>6, <2>7, <2>8, AdvancesSame DEF Advances
  <2> QED
    BY <2>1, <2>2, <2>9 DEF AbreastAfter, Abreast, Held
<1> QED
  BY <1>1, <1>2, <1>3

LEMMA AbreastRun ==
  ASSUME TypeInv, RecordInv, AbreastInv, NEW w \in Workers, Run(w)
  PROVE  AbreastAfter(w, job[w])
<1>at. ASSUME pc[w] \in Held
       PROVE  /\ job[w] \in Ids /\ agg[w] \in Sound /\ agg[w] \in Record
              /\ Place(pc[w], agg[w])
              /\ Abreast(pc[w], agg[w], doc[job[w]], Once(job[w]))
  BY <1>at, AbreastBefore DEF Held
<1>1. CASE Validate(w) \/ ChartResolved(w)
  BY <1>1, <1>at, AbreastStep
     DEF Validate, ChartResolved, At, CanTransitionTo, Status, Terminal, Held
<1>2. CASE GenerateMetadata(w)
  <2> DEFINE d == [agg[w] EXCEPT !.meta = Base]
  <2>1. /\ agg[w].status = "VALIDATING" /\ pc[w] = "stage"
        /\ Step(w, d, "METADATA_GENERATED", "stage")
    BY <1>2 DEF GenerateMetadata, At
  <2>2. d \in Sound /\ d.status = agg[w].status
    BY <1>at, <2>1, SoundField DEF Record, Held
  <2> HIDE DEF d
  <2> QED
    BY <2>1, <2>2, AbreastStep DEF CanTransitionTo, Status, Terminal, Held
<1>3. CASE Compose(w)
  <2>1. CASE Step(w, agg[w], "CHART_COMPOSED", "publish")
    BY <1>3, <2>1, <1>at, AbreastStep
       DEF Compose, At, CanTransitionTo, Status, Terminal, Held
  <2>2. CASE Goto(w, "fail") /\ UNCHANGED <<store, agg>>
    BY <1>3, <2>2, AbreastLeave DEF Compose, At, Held, store, Terminal
  <2> QED
    BY <1>3, <2>1, <2>2 DEF Compose
<1>4. CASE ArtifactPublished(w) \/ ArgoAppCreated(w) \/ Syncing(w)
  BY <1>4, <1>at, AbreastStep
     DEF ArtifactPublished, ArgoAppCreated, Syncing, Place, CanTransitionTo, Status,
         Terminal, Held
<1>5. CASE Healthy(w) \/ Degraded(w)
  BY <1>5, <1>at, AbreastStep
     DEF Healthy, Degraded, Place, CanTransitionTo, Status, Terminal, Held
<1>6. CASE Sync(w) \/ PollFails(w) \/ NothingToDo(w)
  BY <1>6, AbreastLeave DEF Sync, PollFails, NothingToDo, At, Held, store, Terminal
<1>7. CASE Resolve(w) \/ CreateOrUpdate(w) \/ Publish(w)
  <2>1. /\ pc[w] \in {"stage", "publish"} /\ UNCHANGED doc
        /\ agg[w].status \notin Terminal
    BY <1>7, <1>at
       DEF Resolve, CreateOrUpdate, Publish, At, Place, Held, store, Terminal
  <2>2. agg'[w].status = agg[w].status
    BY <1>7, <1>at, <2>1
       DEF Resolve, CreateOrUpdate, Publish, TypeInv, LocalType, Record, Held
  <2> QED
    BY <2>1, <2>2, AbreastLeave DEF Held
<1>8. CASE Poll(w)
  <2> DEFINE i == job[w]
  <2>1. PICK h \in Health \ {"unset"} :
               agg' = [agg EXCEPT ![w].health = h] /\ Goto(w, Verdict(h, late[w]))
    BY <1>8 DEF Poll
  <2> DEFINE d == [agg[w] EXCEPT !.health = h]
  <2>2. pc[w] = "stage" /\ agg[w].status = "SYNCING"
    BY <1>8 DEF Poll, At
  <2>3. agg'[w] = d /\ d \in Sound /\ d.status = "SYNCING"
    BY <1>at, <2>1, <2>2, SoundField DEF TypeInv, LocalType, Record, Held
  <2> HIDE DEF d
  <2>4. pc'[w] \in {"healthy", "degraded", "stage"}
    BY <2>1 DEF Goto, Verdict, TypeInv, LocalType
  <2>5. /\ i \in Ids /\ doc[i].status \notin Terminal \cup {Absent}
        /\ Once(i) => doc[i].status = "SYNCING"
    BY <1>at, <2>2 DEF Abreast, Held
  <2>6. Stored(doc[i], d).status = "SYNCING"
    BY <2>3 DEF Stored, Sound, Record
  <2>7. doc'[i] \in {doc[i], Stored(doc[i], d)}
    BY <1>8, <2>3, <2>5 DEF Poll, Save, TypeInv, StoreType
  <2>8. /\ doc'[i].status \notin Terminal \cup {Absent}
        /\ Once(i) => doc'[i].status = "SYNCING"
    BY <2>5, <2>6, <2>7 DEF Terminal, Absent
  <2> QED
    BY <2>3, <2>4, <2>5, <2>8
       DEF AbreastAfter, Abreast, Advances, Terminal, Absent, Held
<1>9. CASE Completed(w)
  <2> DEFINE i == job[w]
             d == Complete(agg[w])
             new == Stored(doc[i], d)
  <2>1. pc[w] = "stage" /\ agg[w].status = "HEALTHY"
    BY <1>9 DEF Completed, At
  <2>2. agg'[w] = d /\ d \in Sound /\ d.status = "COMPLETED"
    BY <1>9, <1>at, <2>1, SoundEnd
       DEF Completed, Complete, TransitionTo, CanTransitionTo, TypeInv, LocalType,
           Record, Held
  <2> HIDE DEF d
  <2>3. /\ i \in Ids /\ doc[i].status \notin Terminal \cup {Absent}
        /\ Once(i) => doc[i].status = "HEALTHY"
    BY <1>at, <2>1 DEF Abreast, Held
  <2>4. /\ new.status = "COMPLETED"
        /\ d.artifact \in {None, new.artifact} /\ d.health \in {"unset", new.health}
    BY <2>2 DEF Stored, Sound, Record
  <2>5. \/ pc'[w] = "release" /\ doc'[i] = new
        \/ pc'[w] = "fail" /\ doc'[i] \in {doc[i], new}
    BY <1>9, <2>2, <2>3
       DEF Completed, Save, Goto, TypeInv, StoreType, LocalType
  <2> HIDE DEF new
  <2>6. CanTransitionTo("HEALTHY", "COMPLETED")
    BY DEF CanTransitionTo
  <2>7. Abreast(pc'[w], d, doc'[i], Once(i))
    BY <2>2, <2>3, <2>4, <2>5, <2>6 DEF Abreast, Terminal, Absent, Held
  <2>8. Advances(doc[i], doc'[i], Once(i))
    BY <2>3, <2>4, <2>5, <2>6, LeadsFacts DEF Advances, Terminal
  <2> QED
    BY <2>2, <2>3, <2>7, <2>8 DEF AbreastAfter, Absent
<1> QED
  BY <1>1, <1>2, <1>3, <1>4, <1>5, <1>6, <1>7, <1>8, <1>9 DEF Run

\* At most the record of i is written, by its driver: it advances.
Written(i) ==
  /\ UNCHANGED creates
  /\ \A j \in Ids \ {i} : doc'[j] = doc[j]
  /\ Advances(doc[i], doc'[i], Once(i))

LEMMA SavedRequest ==
  ASSUME TypeInv, AbreastInv, NEW i \in Ids, NEW db \in BOOLEAN, NEW ok \in BOOLEAN,
         creates' = [creates EXCEPT ![i] = creates[i] + 1],
         Save(i, New([n |-> creates[i] + 1, db |-> db]), ok)
  PROVE  Requested(i)
<1>1. /\ creates'[i] = creates[i] + 1
      /\ \A j \in Ids \ {i} : creates'[j] = creates[j]
  BY DEF TypeInv
<1>2. creates[i] = 0 => doc[i].status = Absent
  BY DEF AbreastInv, NoRecord
<1>3. \A j \in Ids \ {i} : doc'[j] = doc[j]
  BY ReceivedSave
<1>4. doc'[i] = doc[i] \/ doc'[i].status = "RECEIVED"
  BY ReceivedSave
<1> QED
  BY <1>1, <1>2, <1>3, <1>4 DEF Requested

LEMMA AbreastNext ==
  ASSUME TypeInv, RecordInv, Exclusive, AbreastInv, [Next]_vars
  PROVE  /\ AbreastInv'
         /\ UNCHANGED <<doc, creates>> \/ \E i \in Ids : Requested(i) \/ Written(i)
<1>1. ASSUME NEW w \in Workers, NEW i \in Ids, Trigger(w, i)
      PROVE  \A v \in Workers :
               \/ pc'[v] = pc[v] /\ agg'[v] = agg[v] /\ job'[v] = job[v]
               \/ pc'[v] \in {"idle", "acquire", "load"}
  BY <1>1 DEF Trigger, Goto, TypeInv, LocalType
<1>3. ASSUME NEW w \in Workers, NEW i \in Ids, NEW db \in BOOLEAN, Create(w, i, db)
      PROVE  AbreastInv' /\ Requested(i)
  <2>1. Requested(i) /\ Trigger(w, i)
    BY <1>3, SavedRequest DEF Create
  <2> QED
    BY <1>1, <2>1, AbreastAside
<1>4. ASSUME NEW i \in Ids, NEW db \in BOOLEAN, CreateRefused(i, db)
      PROVE  AbreastInv' /\ Requested(i)
  <2>1. Requested(i)
    BY <1>4, SavedRequest DEF CreateRefused
  <2>2. UNCHANGED <<pc, agg, job>>
    BY <1>4 DEF CreateRefused, local
  <2> QED
    BY <2>1, <2>2, AbreastAside
<1>5. ASSUME NEW w \in Workers, NEW i \in Ids, Redeploy(w, i)
      PROVE  AbreastInv' /\ UNCHANGED <<doc, creates>>
  BY <1>1, <1>5, AbreastAside DEF Redeploy, store
<1>6. ASSUME NEW w \in Workers, Footprint(w), AbreastAfter(w, job[w]), Driving(w),
             UNCHANGED job
      PROVE  AbreastInv' /\ \E i \in Ids : Written(i)
  <2>1. job[w] \in Ids /\ Written(job[w])
    BY <1>6, TypeFacts DEF Driving, Footprint, AbreastAfter, Written
  <2> QED
    BY <1>6, <2>1, AbreastFootprint
<1>7. ASSUME NEW w \in Workers, Execute(w)
      PROVE  /\ AbreastInv'
             /\ UNCHANGED <<doc, creates>> \/ \E i \in Ids : Written(i)
  <2>1. CASE Acquire(w) \/ Skip(w) \/ Release(w)
    <3>1. UNCHANGED <<doc, creates>> /\ pc'[w] \in {"idle", "load"}
      BY <2>1 DEF Acquire, Skip, Release, End, Goto, store, TypeInv, LocalType
    <3> QED
      BY <1>7, <3>1, ExecuteFootprint, AbreastAside DEF Footprint
  <2>2. CASE Load(w) \/ LoadFails(w) \/ FailAndSave(w)
    <3>1. Driving(w) /\ UNCHANGED job
      BY <2>2 DEF Load, LoadFails, FailAndSave, Driving
    <3> QED
      BY <1>6, <1>7, <2>2, <3>1, ExecuteFootprint, AbreastExecute
  <2> QED
    BY <1>7, <2>1, <2>2 DEF Execute
<1>8. ASSUME NEW w \in Workers, Run(w)
      PROVE  AbreastInv' /\ \E i \in Ids : Written(i)
  <2>1. Driving(w) /\ UNCHANGED job
    BY <1>8 DEF Run, Validate, GenerateMetadata, Resolve, ChartResolved, Compose, Publish,
                ArtifactPublished, CreateOrUpdate, ArgoAppCreated, Sync, Syncing, Poll,
                PollFails, Healthy, Degraded, Completed, NothingToDo, At, Driving
  <2> QED
    BY <1>6, <1>8, <2>1, RunFootprint, AbreastRun
<1>9. ASSUME NEW w \in Workers, Deadline(w)
      PROVE  AbreastInv' /\ UNCHANGED <<doc, creates>>
  BY <1>9, AbreastAside DEF Deadline, store
<1>10. ASSUME NEW r \in Replicas, Crash(r)
       PROVE  AbreastInv' /\ UNCHANGED <<doc, creates>>
  BY <1>10, AbreastAside DEF Crash
<1>11. CASE UNCHANGED vars
  BY <1>11, AbreastAside DEF vars
<1> QED
  BY <1>3, <1>4, <1>5, <1>7, <1>8, <1>9, <1>10, <1>11 DEF Next, vars

LEMMA AbreastInit == Init => AbreastInv
  BY DEF Init, AbreastInv, Abreast, Held

LEMMA AbreastInvariant ==
  ASSUME OneReplica
  PROVE  Spec => []AbreastInv
<1>1. OneDriver => Exclusive
  BY OneReplicaIsExclusive
<1>2. TypeInv /\ RecordInv /\ OneDriver /\ AbreastInv /\ [Next]_vars => AbreastInv'
  BY <1>1, AbreastNext
<1> QED
  BY <1>2, AbreastInit, TypeInvariant, RecordInvariant, MutualExclusion, PTL DEF Spec

\* While the server has one replica, nothing but another request with its identity takes
\* a stored deployment out of a terminal status, or changes what it says was deployed,
\* whatever is re-driven, crashes, or is saved with its answer lost, and however many
\* requests came before (entity.go, Fail; execute.go, Execute): TerminalIsFinal, which
\* the run "reopened" violates, is violated in no other way.
THEOREM TerminalStays == OneReplica => (Spec => OnlyRequestsReopen)
<1> SUFFICES ASSUME OneReplica PROVE Spec => OnlyRequestsReopen
  OBVIOUS
<1>1. OneDriver => Exclusive
  BY OneReplicaIsExclusive
<1>2. ASSUME UNCHANGED <<doc, creates>> \/ \E i \in Ids : Requested(i) \/ Written(i),
             TypeInv, NEW i \in Ids, doc[i].status \in Terminal, creates'[i] = creates[i]
      PROVE  Kept(i)
  <2>1. creates[i] \in Nat
    BY <1>2, NilAssumption DEF TypeInv
  <2>2. doc'[i] = doc[i] \/ Written(i)
    BY <1>2, <2>1 DEF Requested, Written
  <2> QED
    BY <1>2, <2>2 DEF Kept, Written, Advances
<1>3. TypeInv /\ RecordInv /\ OneDriver /\ AbreastInv /\ [Next]_vars =>
        [\A i \in Ids :
           doc[i].status \in Terminal /\ creates'[i] = creates[i] => Kept(i)]_doc
  BY <1>1, <1>2, AbreastNext
<1> QED
  BY <1>3, AbreastInvariant, TypeInvariant, RecordInvariant, MutualExclusion, PTL
     DEF Spec, OnlyRequestsReopen

\* Under the same condition the collection implements, up to the second request with an
\* identity, the lifecycle that the domain layer promises: every step of any handler,
\* goroutine or crash is one step of one deployment along the transition table, with at
\* most one status unseen, or none (ARCHITECTURE.md:128-138, entity.go, status.go).
THEOREM LifecycleImplemented == OneReplica => (Spec => LifecycleKept)
<1> SUFFICES ASSUME OneReplica PROVE Spec => LifecycleKept
  OBVIOUS
<1> DEFINE status == [i \in Ids |-> IF creates[i] <= 1 THEN doc[i].status ELSE "reused"]
<1>1. OneDriver => Exclusive
  BY OneReplicaIsExclusive
<1>2. Init => Lifecycle!Init
  BY DEF Init, NoRecord, Lifecycle!Init, Absent, Lifecycle!Absent
<1>3. TypeInv /\ RecordInv /\ OneDriver /\ AbreastInv /\ [Next]_vars =>
        [Lifecycle!Next]_status
  <2> SUFFICES ASSUME TypeInv,
                      \/ UNCHANGED <<doc, creates>>
                      \/ \E i \in Ids : Requested(i) \/ Written(i)
               PROVE  [Lifecycle!Next]_status
    BY <1>1, AbreastNext
  <2>1. CASE UNCHANGED <<doc, creates>>
    BY <2>1
  <2>2. ASSUME NEW i \in Ids, Written(i)
        PROVE  [Lifecycle!Next]_status
    <3>1. CASE Once(i)
      <4>1. status' = [status EXCEPT ![i] = doc'[i].status] /\ status[i] = doc[i].status
            /\ status'[i] = doc'[i].status
        BY <2>2, <3>1 DEF Written, Once
      <4>2. CASE Lifecycle!Leads(doc[i].status, doc'[i].status)
        BY <4>1, <4>2 DEF Lifecycle!Next, Lifecycle!Advance
      <4>3. CASE doc'[i].status = doc[i].status
        BY <4>1, <4>3
      <4> QED
        BY <2>2, <3>1, <4>2, <4>3 DEF Written, Advances
    <3>2. CASE ~Once(i)
      <4>1. status' = status
        BY <2>2, <3>2 DEF Written, Once
      <4> QED
        BY <4>1
    <3> QED
      BY <3>1, <3>2
  <2>3. ASSUME NEW i \in Ids, Requested(i)
        PROVE  [Lifecycle!Next]_status
    <3>1. /\ creates[i] \in Nat /\ creates'[i] = creates[i] + 1
          /\ \A j \in Ids \ {i} : status'[j] = status[j]
      BY <2>3, NilAssumption DEF TypeInv, Requested
    <3>2. CASE creates[i] = 0
      <4> creates[i] <= 1 /\ creates'[i] <= 1
        BY <3>1, <3>2
      <4>1. status' = [status EXCEPT ![i] = doc'[i].status] /\ status[i] = Absent
            /\ doc[i].status = Absent
        BY <2>3, <3>1, <3>2 DEF Requested
      <4>2. CASE doc'[i].status = "RECEIVED"
        BY <4>1, <4>2 DEF Lifecycle!Next, Lifecycle!Receive, Absent, Lifecycle!Absent
      <4>3. CASE doc'[i] = doc[i]
        BY <4>1, <4>3
      <4> QED
        BY <2>3, <4>2, <4>3 DEF Requested
    <3>3. CASE creates[i] # 0
      <4>1. ~(creates'[i] <= 1)
        BY <3>1, <3>3
      <4>2. status' = [status EXCEPT ![i] = "reused"]
        BY <3>1, <4>1
      <4> QED
        BY <4>2 DEF Lifecycle!Next, Lifecycle!Reuse
    <3> QED
      BY <3>2, <3>3
  <2> QED
    BY <2>1, <2>2, <2>3
<1> QED
  BY <1>2, <1>3, AbreastInvariant, TypeInvariant, RecordInvariant, MutualExclusion, PTL
     DEF Spec, LifecycleKept, Lifecycle!Spec
============================================================================
