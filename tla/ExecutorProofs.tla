-------------------------- MODULE ExecutorProofs --------------------------
(***************************************************************************)
(* Invariants of module Executor, for every number of deployments,         *)
(* replicas, goroutines, charts, requests and faults.                      *)
(***************************************************************************)
EXTENDS Executor, DeploymentProofs

(***************************************************************************)
(* Type correctness.  TypeOK is not inductive: a chart is published under  *)
(* the deployment version, which is there only because the archive was     *)
(* resolved in this run, and an archive cannot be older than the metadata. *)
(***************************************************************************)

StoreType == doc \in [Ids -> Sound] /\ faults \in 0 .. MaxFaults

WorldType ==
  /\ registry \in [Ids -> SUBSET Artifact]
  /\ target \in [Ids -> Artifact \cup {None}]
  /\ synced \in [Ids -> BOOLEAN]

LocalType ==
  /\ pc \in [Workers -> PC]
  /\ job \in [Workers -> Ids \cup {None}]
  /\ agg \in [Workers -> Sound]
  /\ archive \in [Workers -> BOOLEAN]
  /\ late \in [Workers -> BOOLEAN]

\* A goroutine that runs has a deployment.
HasJob == \A w \in Workers : pc[w] # "idle" => job[w] \in Ids

\* An aggregate whose chart this run has resolved carries its version.
Stamped(d) ==
  d.meta \in Version /\ d.status \notin {Absent, "RECEIVED", "VALIDATING"}

ArchiveStamped ==
  \A w \in Workers :
    /\ archive[w] => pc[w] \notin {"idle", "acquire", "load"} /\ Stamped(agg[w])
    /\ pc[w] = "publish" => archive[w]

TypeInv ==
  /\ StoreType
  /\ WorldType
  /\ LocalType
  /\ HasJob
  /\ ArchiveStamped
  /\ inflight \in [Replicas -> SUBSET Ids]
  /\ creates \in [Ids -> 0 .. MaxCreates]

LEMMA TypeInvImpliesTypeOK == TypeInv => TypeOK
  BY DEF TypeInv, StoreType, WorldType, LocalType, TypeOK, Sound

LEMMA TypeInit == Init => TypeInv
<1> SUFFICES ASSUME Init PROVE TypeInv
  OBVIOUS
<1>1. StoreType
  BY SoundStart, FaultsAssumption DEF Init, StoreType
<1>2. WorldType
  BY DEF Init, WorldType
<1>3. LocalType
  BY SoundStart DEF Init, LocalType, PC
<1>4. HasJob /\ ArchiveStamped
  BY DEF Init, HasJob, ArchiveStamped
<1>5. inflight \in [Replicas -> SUBSET Ids] /\ creates \in [Ids -> 0 .. MaxCreates]
  BY NilAssumption DEF Init
<1> QED
  BY <1>1, <1>2, <1>3, <1>4, <1>5 DEF TypeInv

\* A save keeps the collection well typed, applied or not.
LEMMA SaveType ==
  ASSUME StoreType, NEW i \in Ids, NEW d \in Sound, NEW ok, Save(i, d, ok)
  PROVE  StoreType'
<1>1. Stored(doc[i], d) \in Sound
  BY SoundStored DEF StoreType
<1>2. doc' \in {doc, [doc EXCEPT ![i] = Stored(doc[i], d)]}
  BY DEF Save
<1>3. faults' \in 0 .. MaxFaults
  BY FaultsAssumption DEF Save, StoreType
<1> QED
  BY <1>1, <1>2, <1>3 DEF StoreType

\* A step of one goroutine that goes on.
LEMMA LocalStep ==
  ASSUME TypeInv, NEW w \in Workers, pc[w] # "idle",
         NEW place \in PC \ {"idle", "acquire", "load"}, NEW d \in Sound,
         Goto(w, place),
         agg' = [agg EXCEPT ![w] = d],
         UNCHANGED <<job, archive>>,
         late' \in [Workers -> BOOLEAN],
         archive[w] => Stamped(d),
         place = "publish" => archive[w]
  PROVE  LocalType' /\ HasJob' /\ ArchiveStamped'
<1>1. LocalType'
  BY DEF TypeInv, LocalType, Goto
<1>2. HasJob'
  BY DEF TypeInv, LocalType, HasJob, Goto
<1>3. ArchiveStamped'
  BY DEF TypeInv, LocalType, ArchiveStamped, Goto
<1> QED
  BY <1>1, <1>2, <1>3

\* A step of one goroutine that changes its place only.
LEMMA LocalMove ==
  ASSUME TypeInv, NEW w \in Workers, pc[w] # "idle",
         NEW place \in PC \ {"idle", "acquire", "load", "publish"}, Goto(w, place),
         UNCHANGED <<job, agg, archive, late>>
  PROVE  LocalType' /\ HasJob' /\ ArchiveStamped'
<1>1. LocalType'
  BY DEF TypeInv, LocalType, Goto
<1>2. HasJob'
  BY DEF TypeInv, LocalType, HasJob, Goto
<1>3. ArchiveStamped'
  BY DEF TypeInv, LocalType, ArchiveStamped, Goto
<1> QED
  BY <1>1, <1>2, <1>3

LEMMA EndType ==
  ASSUME TypeInv, NEW w \in Workers, End(w)
  PROVE  LocalType' /\ HasJob' /\ ArchiveStamped'
  BY SoundStart DEF TypeInv, LocalType, HasJob, ArchiveStamped, End, Goto, PC

LEMMA TriggerType ==
  ASSUME TypeInv, NEW w \in Workers, NEW i \in Ids, Trigger(w, i)
  PROVE  LocalType' /\ HasJob' /\ ArchiveStamped'
  BY DEF TypeInv, LocalType, HasJob, ArchiveStamped, Trigger, Goto, PC

\* The helper step: the transition keeps the stamp of the aggregate.
LEMMA StepType ==
  ASSUME TypeInv, NEW w \in Workers, pc[w] # "idle", NEW d \in Sound,
         NEW next \in Status,
         NEW after \in PC \ {"idle", "acquire", "load"},
         Step(w, d, next, after),
         UNCHANGED <<job, archive, late>>,
         archive[w] => Stamped(d) /\ next \notin {"RECEIVED", "VALIDATING"},
         after = "publish" => archive[w]
  PROVE  StoreType' /\ LocalType' /\ HasJob' /\ ArchiveStamped'
<1> DEFINE moved == TransitionTo(d, next)
<1>1. moved \in Sound
  BY SoundTransition
<1>2. archive[w] => Stamped(moved)
  BY DEF Stamped, TransitionTo, Sound, Record, Absent, Status
<1>3. job[w] \in Ids
  BY DEF TypeInv, HasJob
<1>4. StoreType'
  <2>1. ASSUME NEW ok \in BOOLEAN, Save(job[w], moved, ok)
        PROVE  StoreType'
    BY <1>1, <1>3, <2>1, SaveType DEF TypeInv
  <2>2. ASSUME UNCHANGED store
        PROVE  StoreType'
    BY <2>2 DEF TypeInv, StoreType, store
  <2> QED
    BY <2>1, <2>2 DEF Step
<1>5. PICK place \in {after, "fail"} : Goto(w, place)
  BY DEF Step
<1>6. place \in PC \ {"idle", "acquire", "load"} /\ (place = "publish" => archive[w])
  BY <1>5 DEF PC
<1>7. agg' = [agg EXCEPT ![w] = moved]
  BY DEF Step
<1>8. late' \in [Workers -> BOOLEAN]
  BY DEF TypeInv, LocalType
<1> QED
  BY <1>1, <1>2, <1>4, <1>5, <1>6, <1>7, <1>8, LocalStep

\* Facts that every action needs.
LEMMA TypeFacts ==
  ASSUME TypeInv
  PROVE  /\ \A w \in Workers : pc[w] # "idle" => job[w] \in Ids
         /\ \A w \in Workers : agg[w] \in Sound
         /\ \A w \in Workers : Host(w) \in Replicas
         /\ \A w \in Workers : archive[w] => Stamped(agg[w])
         /\ \A w \in Workers : pc[w] \in {"acquire", "load"} => ~archive[w]
         /\ late \in [Workers -> BOOLEAN]
         /\ {"load", "stage", "publish", "published", "created", "sync", "healthy",
             "degraded", "fail", "release"} \subseteq PC
  BY DEF TypeInv, HasJob, LocalType, Workers, Host, ArchiveStamped, PC

\* The parts of the state that most actions leave alone.
LEMMA SameType ==
  ASSUME TypeInv
  PROVE  /\ UNCHANGED store => StoreType'
         /\ UNCHANGED <<world, inflight, creates>> =>
              /\ WorldType'
              /\ inflight' \in [Replicas -> SUBSET Ids]
              /\ creates' \in [Ids -> 0 .. MaxCreates]
  BY DEF TypeInv, StoreType, WorldType, store, world

LEMMA TypeHandlers ==
  ASSUME TypeInv, NEW i \in Ids
  PROVE  /\ \A w \in Workers, db \in BOOLEAN : Create(w, i, db) => TypeInv'
         /\ \A db \in BOOLEAN : CreateRefused(i, db) => TypeInv'
         /\ \A w \in Workers : Redeploy(w, i) => TypeInv'
<1>1. ASSUME NEW w \in Workers, NEW db \in BOOLEAN, Create(w, i, db)
      PROVE  TypeInv'
  <2>1. /\ [n |-> creates[i] + 1, db |-> db] \in Request
        /\ creates' \in [Ids -> 0 .. MaxCreates]
    BY <1>1, NilAssumption DEF Create, TypeInv, Request
  <2>2. StoreType'
    BY <1>1, <2>1, SoundStart, SaveType DEF Create, TypeInv
  <2>3. LocalType' /\ HasJob' /\ ArchiveStamped'
    BY <1>1, TriggerType DEF Create
  <2>4. WorldType' /\ inflight' \in [Replicas -> SUBSET Ids]
    BY <1>1 DEF Create, TypeInv, WorldType, world
  <2> QED
    BY <2>1, <2>2, <2>3, <2>4 DEF TypeInv
<1>2. ASSUME NEW db \in BOOLEAN, CreateRefused(i, db)
      PROVE  TypeInv'
  <2>1. /\ [n |-> creates[i] + 1, db |-> db] \in Request
        /\ creates' \in [Ids -> 0 .. MaxCreates]
    BY <1>2, NilAssumption DEF CreateRefused, TypeInv, Request
  <2>2. StoreType'
    BY <1>2, <2>1, SoundStart, SaveType DEF CreateRefused, TypeInv
  <2>3. LocalType' /\ HasJob' /\ ArchiveStamped'
    BY <1>2 DEF CreateRefused, TypeInv, LocalType, HasJob, ArchiveStamped, local
  <2>4. WorldType' /\ inflight' \in [Replicas -> SUBSET Ids]
    BY <1>2 DEF CreateRefused, TypeInv, WorldType, world
  <2> QED
    BY <2>1, <2>2, <2>3, <2>4 DEF TypeInv
<1>3. ASSUME NEW w \in Workers, Redeploy(w, i)
      PROVE  TypeInv'
  BY <1>3, SameType, TriggerType DEF Redeploy, TypeInv
<1> QED
  BY <1>1, <1>2, <1>3

LEMMA TypeExecute ==
  ASSUME TypeInv, NEW w \in Workers, Execute(w)
  PROVE  TypeInv'
<1>1. CASE Acquire(w)
  <2>1. inflight' \in [Replicas -> SUBSET Ids]
    BY <1>1, TypeFacts DEF Acquire, TypeInv
  <2>2. LocalType' /\ HasJob' /\ ArchiveStamped'
    BY <1>1, TypeFacts DEF Acquire, Goto, TypeInv, LocalType, HasJob, ArchiveStamped
  <2>3. StoreType' /\ WorldType' /\ creates' \in [Ids -> 0 .. MaxCreates]
    BY <1>1 DEF Acquire, TypeInv, WorldType, StoreType, store, world
  <2> QED
    BY <2>1, <2>2, <2>3 DEF TypeInv
<1>2. CASE Skip(w)
  BY <1>2, SameType, EndType DEF Skip, TypeInv
<1>3. CASE Load(w)
  <2> DEFINE d == doc[job[w]]
  <2>1. d \in Sound
    BY <1>3, TypeFacts DEF Load, TypeInv, StoreType
  <2>2. PICK place \in {"release", "fail", "stage"} : Goto(w, place)
    BY <1>3 DEF Load
  <2>3. LocalType' /\ HasJob' /\ ArchiveStamped'
    BY <1>3, <2>1, <2>2, TypeFacts, LocalStep DEF Load
  <2> QED
    BY <1>3, <2>3, SameType DEF Load, TypeInv
<1>4. CASE LoadFails(w)
  <2>1. StoreType'
    BY <1>4, FaultsAssumption DEF LoadFails, TypeInv, StoreType
  <2>2. LocalType' /\ HasJob' /\ ArchiveStamped'
    BY <1>4, TypeFacts, LocalMove DEF LoadFails
  <2> QED
    BY <1>4, <2>1, <2>2, SameType DEF LoadFails, TypeInv
<1>5. CASE FailAndSave(w)
  <2>1. Fail(agg[w]) \in Sound
    BY TypeFacts, SoundEnd
  <2>2. agg'[w] = Fail(agg[w])
    BY <1>5 DEF FailAndSave, TypeInv, LocalType
  <2>3. job[w] \in Ids
    BY <1>5, TypeFacts DEF FailAndSave
  <2>4. StoreType'
    BY <1>5, <2>1, <2>2, <2>3, SaveType DEF FailAndSave, TypeInv
  <2>5. archive[w] => Stamped(Fail(agg[w]))
    BY TypeFacts DEF Stamped, Fail, TransitionTo, Sound, Record, Absent
  <2>6. LocalType' /\ HasJob' /\ ArchiveStamped'
    BY <1>5, <2>1, <2>5, TypeFacts, LocalStep DEF FailAndSave
  <2> QED
    BY <1>5, <2>4, <2>6, SameType DEF FailAndSave, TypeInv
<1>6. CASE Release(w)
  <2>1. inflight' \in [Replicas -> SUBSET Ids]
    BY <1>6, TypeFacts DEF Release, TypeInv
  <2>2. StoreType' /\ WorldType' /\ creates' \in [Ids -> 0 .. MaxCreates]
    BY <1>6 DEF Release, TypeInv, WorldType, StoreType, store, world
  <2> QED
    BY <1>6, <2>1, <2>2, EndType DEF Release, TypeInv
<1> QED
  BY <1>1, <1>2, <1>3, <1>4, <1>5, <1>6 DEF Execute

\* The stages of run.  Most are one step of the status machine.
LEMMA TypeRun ==
  ASSUME TypeInv, NEW w \in Workers, Run(w)
  PROVE  TypeInv'
<1>at. /\ pc[w] # "idle"
       /\ job[w] \in Ids
       /\ agg[w] \in Sound
       /\ archive[w] => Stamped(agg[w])
       /\ pc[w] \in {"stage", "publish", "published", "created", "sync", "healthy", "degraded"}
  <2>1. pc[w] \in {"stage", "publish", "published", "created", "sync", "healthy", "degraded"}
    BY DEF Run, At, Validate, GenerateMetadata, Resolve, ChartResolved, Compose,
           Publish, ArtifactPublished, CreateOrUpdate, ArgoAppCreated, Sync, Syncing,
           Poll, PollFails, Healthy, Degraded, Completed, NothingToDo
  <2> QED
    BY <2>1, TypeFacts
<1>1. CASE Validate(w)
  BY <1>1, <1>at, TypeFacts, StepType, SameType
     DEF Validate, At, TypeInv, Status, Stamped
<1>2. CASE GenerateMetadata(w)
  BY <1>2, <1>at, TypeFacts, StepType, SameType, SoundField
     DEF GenerateMetadata, At, TypeInv, Status, Stamped
<1>3. CASE Resolve(w)
  <2>1. CASE Goto(w, "fail") /\ UNCHANGED <<agg, archive>>
    BY <1>3, <2>1, <1>at, TypeFacts, LocalMove, SameType DEF Resolve, TypeInv
  <2>2. CASE /\ \E c \in Charts :
                  agg' = [agg EXCEPT ![w].meta = [chart |-> c, req |-> agg[w].req]]
             /\ archive' = [archive EXCEPT ![w] = TRUE]
             /\ UNCHANGED pc
    <3>1. PICK c \in Charts :
                 agg' = [agg EXCEPT ![w].meta = [chart |-> c, req |-> agg[w].req]]
      BY <2>2
    <3> DEFINE v == [chart |-> c, req |-> agg[w].req]
               d == [agg[w] EXCEPT !.meta = v]
    <3>2. pc[w] = "stage" /\ agg[w].status \in {"METADATA_GENERATED", "CHART_RESOLVED"}
      BY <1>3 DEF Resolve, At
    <3>3. v \in Version
      BY <1>at, <3>2 DEF Version, Sound, Absent
    <3>4. d \in Sound /\ Stamped(d)
      <4>1. d.meta = v /\ d.status = agg[w].status
        BY <1>at DEF Sound, Record
      <4> QED
        BY <1>at, <3>2, <3>3, <4>1, SoundField DEF Stamped, Absent
    <3>5. agg' = [agg EXCEPT ![w] = d]
      BY <3>1
    <3> HIDE DEF d, v
    <3>6. LocalType'
      BY <1>3, <2>2, <3>4, <3>5 DEF TypeInv, LocalType, Resolve
    <3>7. HasJob' /\ ArchiveStamped'
      BY <1>3, <2>2, <3>2, <3>4, <3>5
         DEF TypeInv, LocalType, HasJob, ArchiveStamped, Resolve
    <3> QED
      BY <1>3, <3>6, <3>7, SameType DEF Resolve, TypeInv
  <2> QED
    BY <1>3, <2>1, <2>2 DEF Resolve
<1>4. CASE ChartResolved(w)
  BY <1>4, <1>at, TypeFacts, StepType, SameType DEF ChartResolved, At, TypeInv, Status
<1>5. CASE Compose(w)
  <2>1. CASE Step(w, agg[w], "CHART_COMPOSED", "publish")
    BY <1>5, <2>1, <1>at, TypeFacts, StepType, SameType DEF Compose, TypeInv, Status
  <2>2. CASE Goto(w, "fail") /\ UNCHANGED <<store, agg>>
    BY <1>5, <2>2, <1>at, TypeFacts, LocalMove, SameType DEF Compose, TypeInv
  <2> QED
    BY <1>5, <2>1, <2>2 DEF Compose
<1>6. CASE Publish(w)
  <2> DEFINE chart == [version |-> agg[w].meta, db |-> agg[w].res]
  <2>1. archive[w] /\ pc[w] = "publish"
    BY <1>6 DEF Publish, TypeInv, ArchiveStamped
  <2>2. chart \in Artifact
    BY <1>at, <2>1 DEF Artifact, Stamped, Sound, Record
  <2>3. WorldType'
    BY <1>6, <1>at, <2>2 DEF Publish, TypeInv, WorldType
  <2>4. LocalType' /\ HasJob' /\ ArchiveStamped'
    <3>1. CASE UNCHANGED agg
      BY <1>6, <3>1, <1>at, TypeFacts, LocalMove DEF Publish
    <3>2. CASE agg' = [agg EXCEPT ![w].artifact = chart] /\ Goto(w, "published")
      <4> DEFINE d == [agg[w] EXCEPT !.artifact = chart]
      <4>1. d \in Sound
        BY <1>at, <2>2, SoundField
      <4>2. Stamped(d)
        BY <1>at, <2>1 DEF Stamped, Sound, Record
      <4>3. agg' = [agg EXCEPT ![w] = d]
        BY <3>2
      <4> QED
        BY <1>6, <1>at, <3>2, <4>1, <4>2, <4>3, TypeFacts, LocalStep DEF Publish
    <3> QED
      BY <1>6, <3>1, <3>2 DEF Publish
  <2> QED
    BY <1>6, <2>3, <2>4, SameType DEF Publish, TypeInv
<1>7. CASE ArtifactPublished(w)
  BY <1>7, <1>at, TypeFacts, StepType, SameType DEF ArtifactPublished, TypeInv, Status
<1>8. CASE CreateOrUpdate(w)
  <2>1. WorldType'
    BY <1>8, <1>at DEF CreateOrUpdate, TypeInv, WorldType, Sound, Record
  <2>2. LocalType' /\ HasJob' /\ ArchiveStamped'
    <3>1. CASE Goto(w, "fail") /\ UNCHANGED agg
      BY <1>8, <3>1, <1>at, TypeFacts, LocalMove DEF CreateOrUpdate
    <3>2. CASE agg' = [agg EXCEPT ![w].argo = TRUE] /\ Goto(w, "created")
      <4> DEFINE d == [agg[w] EXCEPT !.argo = TRUE]
      <4>1. d \in Sound
        BY <1>at, SoundField
      <4>2. archive[w] => Stamped(d)
        BY <1>at DEF Stamped, Sound, Record
      <4>3. agg' = [agg EXCEPT ![w] = d]
        BY <3>2
      <4> QED
        BY <1>8, <1>at, <3>2, <4>1, <4>2, <4>3, TypeFacts, LocalStep DEF CreateOrUpdate
    <3> QED
      BY <1>8, <3>1, <3>2 DEF CreateOrUpdate
  <2> QED
    BY <1>8, <2>1, <2>2, SameType DEF CreateOrUpdate, TypeInv
<1>9. CASE ArgoAppCreated(w)
  BY <1>9, <1>at, TypeFacts, StepType, SameType DEF ArgoAppCreated, TypeInv, Status
<1>10. CASE Sync(w)
  <2>1. WorldType'
    BY <1>10, <1>at DEF Sync, TypeInv, WorldType
  <2>2. PICK place \in {"fail", "sync"} : Goto(w, place)
    BY <1>10 DEF Sync
  <2> QED
    BY <1>10, <1>at, <2>1, <2>2, TypeFacts, LocalMove, SameType DEF Sync, TypeInv
<1>11. CASE Syncing(w)
  BY <1>11, <1>at, TypeFacts, StepType, SameType DEF Syncing, TypeInv, Status
<1>12. CASE Poll(w)
  <2>1. PICK h \in Health \ {"unset"} :
               /\ agg' = [agg EXCEPT ![w].health = h]
               /\ Goto(w, Verdict(h, late[w]))
    BY <1>12 DEF Poll
  <2> DEFINE d == [agg[w] EXCEPT !.health = h]
  <2>2. d \in Sound
    BY <1>at, SoundField
  <2>3. archive[w] => Stamped(d)
    BY <1>at DEF Stamped, Sound, Record
  <2>4. agg' = [agg EXCEPT ![w] = d] /\ agg'[w] = d
    BY <2>1 DEF TypeInv, LocalType
  <2> HIDE DEF d
  <2>5. StoreType'
    BY <1>12, <1>at, <2>2, <2>4, SaveType DEF Poll, TypeInv
  <2>6. Verdict(h, late[w]) \in {"healthy", "degraded", "stage"}
    BY DEF Verdict
  <2>7. LocalType' /\ HasJob' /\ ArchiveStamped'
    BY <1>12, <1>at, <2>1, <2>2, <2>3, <2>4, <2>6, TypeFacts, LocalStep DEF Poll
  <2> QED
    BY <1>12, <2>5, <2>7, SameType DEF Poll, TypeInv
<1>13. CASE PollFails(w)
  BY <1>13, <1>at, TypeFacts, LocalMove, SameType DEF PollFails, TypeInv
<1>14. CASE Healthy(w)
  BY <1>14, <1>at, TypeFacts, StepType, SameType DEF Healthy, TypeInv, Status
<1>15. CASE Degraded(w)
  BY <1>15, <1>at, TypeFacts, StepType, SameType DEF Degraded, TypeInv, Status
<1>16. CASE Completed(w)
  <2> DEFINE d == Complete(agg[w])
  <2>1. d \in Sound
    BY <1>at, SoundEnd
  <2>2. archive[w] => Stamped(d)
    BY <1>at DEF Stamped, Complete, TransitionTo, Sound, Record, Absent
  <2>3. agg' = [agg EXCEPT ![w] = d] /\ agg'[w] = d
    BY <1>16 DEF Completed, TypeInv, LocalType
  <2>4. PICK place \in {"release", "fail"}, ok \in BOOLEAN :
               Save(job[w], agg'[w], ok) /\ Goto(w, place)
    BY <1>16 DEF Completed
  <2> HIDE DEF d
  <2>5. StoreType'
    BY <1>at, <2>1, <2>3, <2>4, SaveType DEF TypeInv
  <2>6. LocalType' /\ HasJob' /\ ArchiveStamped'
    BY <1>16, <1>at, <2>1, <2>2, <2>3, <2>4, TypeFacts, LocalStep DEF Completed
  <2> QED
    BY <1>16, <2>5, <2>6, SameType DEF Completed, TypeInv
<1>17. CASE NothingToDo(w)
  BY <1>17, <1>at, TypeFacts, LocalMove, SameType DEF NothingToDo, TypeInv
<1> QED
  BY <1>1, <1>2, <1>3, <1>4, <1>5, <1>6, <1>7, <1>8, <1>9, <1>10, <1>11, <1>12,
     <1>13, <1>14, <1>15, <1>16, <1>17 DEF Run

LEMMA TypeNext == TypeInv /\ [Next]_vars => TypeInv'
<1> SUFFICES ASSUME TypeInv, [Next]_vars PROVE TypeInv'
  OBVIOUS
<1>1. ASSUME NEW w \in Workers, Deadline(w)
      PROVE  TypeInv'
  <2>1. LocalType' /\ HasJob' /\ ArchiveStamped'
    BY <1>1 DEF Deadline, TypeInv, LocalType, HasJob, ArchiveStamped
  <2> QED
    BY <1>1, <2>1, SameType DEF Deadline, TypeInv
<1>2. ASSUME NEW r \in Replicas, Crash(r)
      PROVE  TypeInv'
  <2>1. LocalType'
    BY <1>2, SoundStart DEF Crash, TypeInv, LocalType, PC
  <2>2. HasJob' /\ ArchiveStamped'
    BY <1>2 DEF Crash, TypeInv, LocalType, HasJob, ArchiveStamped
  <2>3. StoreType' /\ WorldType' /\ inflight' \in [Replicas -> SUBSET Ids]
        /\ creates' \in [Ids -> 0 .. MaxCreates]
    BY <1>2, FaultsAssumption DEF Crash, TypeInv, StoreType, WorldType, world
  <2> QED
    BY <2>1, <2>2, <2>3 DEF TypeInv
<1>3. CASE UNCHANGED vars
  BY <1>3 DEF vars, TypeInv, StoreType, WorldType, LocalType, HasJob, ArchiveStamped
<1> QED
  BY <1>1, <1>2, <1>3, TypeHandlers, TypeExecute, TypeRun DEF Next

THEOREM TypeInvariant == Spec => []TypeInv
<1> QED
  BY TypeInit, TypeNext, PTL DEF Spec

\* Every variable keeps its type: in particular a chart is never pushed under
\* a version that was not stamped from a resolved chart (execute.go:180-196,
\* 213, 225).
THEOREM TypeCorrect == Spec => []TypeOK
<1> QED
  BY TypeInvariant, TypeInvImpliesTypeOK, PTL

---------------------------------------------------------------------------
(***************************************************************************)
(* The lock of a replica.  Neither half is inductive alone: that a lock    *)
(* taken excludes the others needs every driver in the map, and that a     *)
(* release drops no other driver's entry needs them to be exclusive.       *)
(***************************************************************************)

LockInv == OneDriver /\ InflightIsDriven

\* Nothing a driver does between acquire and release touches the lock.
LEMMA LockKept ==
  ASSUME LockInv, UNCHANGED inflight,
         \A v \in Workers : /\ Driving(v)' <=> Driving(v)
                            /\ Driving(v) => job'[v] = job[v]
  PROVE  LockInv'
<1>1. OneDriver'
  BY DEF LockInv, OneDriver
<1>2. InflightIsDriven'
  <2> SUFFICES ASSUME NEW r \in Replicas
               PROVE  inflight'[r] = {job'[w] : w \in {v \in Workers : Host(v) = r /\ Driving(v)'}}
    BY DEF InflightIsDriven
  <2>1. inflight'[r] = {job[w] : w \in {v \in Workers : Host(v) = r /\ Driving(v)}}
    BY DEF LockInv, InflightIsDriven
  <2> HIDE DEF Driving
  <2> QED
    BY <2>1
<1> QED
  BY <1>1, <1>2 DEF LockInv

LEMMA LockNext == TypeInv /\ LockInv /\ [Next]_vars => LockInv'
<1> SUFFICES ASSUME TypeInv, LockInv, [Next]_vars PROVE LockInv'
  OBVIOUS
<1>pc. pc \in [Workers -> PC] /\ job \in [Workers -> Ids \cup {None}]
  BY DEF TypeInv, LocalType
<1>in. inflight \in [Replicas -> SUBSET Ids] /\ \A w \in Workers : Host(w) \in Replicas
  BY DEF TypeInv, Workers, Host
<1>1. ASSUME NEW w \in Workers, NEW i \in Ids,
             Trigger(w, i), UNCHANGED inflight
      PROVE  LockInv'
  BY <1>1, <1>pc, LockKept DEF Trigger, Driving, Goto
<1>2. ASSUME NEW w \in Workers, Acquire(w)
      PROVE  LockInv'
  <2>1. /\ pc[w] = "acquire" /\ job[w] \notin inflight[Host(w)]
        /\ inflight' = [inflight EXCEPT ![Host(w)] = @ \cup {job[w]}]
        /\ pc' = [pc EXCEPT ![w] = "load"] /\ job' = job
    BY <1>2 DEF Acquire, Goto
  <2>2. \A v \in Workers : Driving(v)' <=> Driving(v) \/ v = w
    BY <1>pc, <2>1 DEF Driving
  <2>3. \A v \in Workers : Host(v) = Host(w) /\ Driving(v) => job[v] # job[w]
    BY <1>in, <2>1 DEF LockInv, InflightIsDriven
  <2>4. OneDriver'
    BY <2>1, <2>2, <2>3 DEF LockInv, OneDriver
  <2>5. InflightIsDriven'
    <3> SUFFICES ASSUME NEW r \in Replicas
                 PROVE  inflight'[r] = {job[v] : v \in {u \in Workers : Host(u) = r /\ Driving(u)'}}
      BY <2>1 DEF InflightIsDriven
    <3>1. inflight[r] = {job[v] : v \in {u \in Workers : Host(u) = r /\ Driving(u)}}
      BY DEF LockInv, InflightIsDriven
    <3> HIDE DEF Driving
    <3>2. CASE r = Host(w)
      BY <1>in, <2>1, <2>2, <3>1, <3>2
    <3>3. CASE r # Host(w)
      BY <1>in, <2>1, <2>2, <3>1, <3>3
    <3> QED
      BY <3>2, <3>3
  <2> QED
    BY <2>4, <2>5 DEF LockInv
<1>3. ASSUME NEW w \in Workers, Skip(w)
      PROVE  LockInv'
  BY <1>3, <1>pc, LockKept DEF Skip, End, Driving, Goto
<1>4. ASSUME NEW w \in Workers, Release(w)
      PROVE  LockInv'
  <2>1. /\ pc[w] = "release"
        /\ inflight' = [inflight EXCEPT ![Host(w)] = @ \ {job[w]}]
        /\ pc' = [pc EXCEPT ![w] = "idle"] /\ job' = [job EXCEPT ![w] = None]
    BY <1>4 DEF Release, End, Goto
  <2>2. \A v \in Workers : Driving(v)' <=> Driving(v) /\ v # w
    BY <1>pc, <2>1 DEF Driving
  <2>3. \A v \in Workers : Driving(v)' => job'[v] = job[v]
    BY <1>pc, <2>1, <2>2
  <2>4. \A v \in Workers : Host(v) = Host(w) /\ Driving(v)' => job[v] # job[w]
    BY <2>1, <2>2 DEF LockInv, OneDriver, Driving
  <2>5. OneDriver'
    BY <2>2, <2>3 DEF LockInv, OneDriver
  <2>6. InflightIsDriven'
    <3> SUFFICES ASSUME NEW r \in Replicas
                 PROVE  inflight'[r] = {job'[v] : v \in {u \in Workers : Host(u) = r /\ Driving(u)'}}
      BY DEF InflightIsDriven
    <3>1. inflight[r] = {job[v] : v \in {u \in Workers : Host(u) = r /\ Driving(u)}}
      BY DEF LockInv, InflightIsDriven
    <3> HIDE DEF Driving
    <3>2. CASE r = Host(w)
      BY <1>in, <2>1, <2>2, <2>3, <2>4, <3>1, <3>2
    <3>3. CASE r # Host(w)
      BY <1>in, <2>1, <2>2, <2>3, <3>1, <3>3
    <3> QED
      BY <3>2, <3>3
  <2> QED
    BY <2>5, <2>6 DEF LockInv
<1>5. ASSUME NEW w \in Workers, Load(w) \/ LoadFails(w) \/ FailAndSave(w)
      PROVE  LockInv'
  <2>1. PICK place \in {"release", "fail", "stage"} : Goto(w, place)
    BY <1>5 DEF Load, LoadFails, FailAndSave
  <2>2. Driving(w) /\ UNCHANGED <<job, inflight>>
    BY <1>5 DEF Load, LoadFails, FailAndSave, Driving
  <2> QED
    BY <1>pc, <2>1, <2>2, LockKept DEF Driving, Goto
<1>6. ASSUME NEW w \in Workers, Run(w)
      PROVE  LockInv'
  <2>1. PICK place \in PC \ {"idle", "acquire"} : pc' = [pc EXCEPT ![w] = place]
    <3>1. \A h, e : Verdict(h, e) \in {"healthy", "degraded", "stage"}
      BY DEF Verdict
    <3>2. UNCHANGED pc /\ pc[w] = "stage" => pc' = [pc EXCEPT ![w] = "stage"]
      BY <1>pc
    <3> QED
      BY <1>6, <3>1, <3>2
         DEF Run, At, PC, Goto, Step, Validate, GenerateMetadata, Resolve, ChartResolved,
             Compose, Publish, ArtifactPublished, CreateOrUpdate, ArgoAppCreated, Sync,
             Syncing, Poll, PollFails, Healthy, Degraded, Completed, NothingToDo
  <2>2. Driving(w) /\ UNCHANGED <<job, inflight>>
    BY <1>6
       DEF Run, At, Driving, Validate, GenerateMetadata, Resolve, ChartResolved,
           Compose, Publish, ArtifactPublished, CreateOrUpdate, ArgoAppCreated, Sync,
           Syncing, Poll, PollFails, Healthy, Degraded, Completed, NothingToDo
  <2> QED
    BY <1>pc, <2>1, <2>2, LockKept DEF Driving
<1>7. ASSUME NEW r \in Replicas, Crash(r)
      PROVE  LockInv'
  <2>1. /\ inflight' = [inflight EXCEPT ![r] = {}]
        /\ pc' = [w \in Workers |-> IF Host(w) = r THEN "idle" ELSE pc[w]]
        /\ job' = [w \in Workers |-> IF Host(w) = r THEN None ELSE job[w]]
    BY <1>7 DEF Crash
  <2>2. \A v \in Workers : /\ Driving(v)' <=> Driving(v) /\ Host(v) # r
                           /\ Driving(v)' => job'[v] = job[v]
    <3> SUFFICES ASSUME NEW v \in Workers
                 PROVE  /\ Driving(v)' <=> Driving(v) /\ Host(v) # r
                        /\ Driving(v)' => job'[v] = job[v]
      OBVIOUS
    <3>1. CASE Host(v) = r
      <4>1. pc'[v] = "idle"
        BY <2>1, <3>1
      <4> QED
        BY <3>1, <4>1 DEF Driving
    <3>2. CASE Host(v) # r
      <4>1. pc'[v] = pc[v] /\ job'[v] = job[v]
        BY <2>1, <3>2
      <4> QED
        BY <3>2, <4>1 DEF Driving
    <3> QED
      BY <3>1, <3>2
  <2>3. OneDriver'
    BY <2>2 DEF LockInv, OneDriver
  <2>4. InflightIsDriven'
    <3> SUFFICES ASSUME NEW q \in Replicas
                 PROVE  inflight'[q] = {job'[v] : v \in {u \in Workers : Host(u) = q /\ Driving(u)'}}
      BY DEF InflightIsDriven
    <3>1. inflight[q] = {job[v] : v \in {u \in Workers : Host(u) = q /\ Driving(u)}}
      BY DEF LockInv, InflightIsDriven
    <3> HIDE DEF Driving
    <3>2. inflight'[q] = IF q = r THEN {} ELSE inflight[q]
      BY <1>in, <2>1
    <3>3. CASE q = r
      BY <2>2, <3>2, <3>3
    <3>4. CASE q # r
      BY <2>2, <3>1, <3>2, <3>4
    <3> QED
      BY <3>3, <3>4
  <2> QED
    BY <2>3, <2>4 DEF LockInv
<1>8. ASSUME UNCHANGED <<pc, job, inflight>>
      PROVE  LockInv'
  BY <1>8, LockKept DEF Driving
<1> QED
  BY <1>1, <1>2, <1>3, <1>4, <1>5, <1>6, <1>7, <1>8
     DEF Next, Execute, Create, CreateRefused, Redeploy, Deadline, vars, local

LEMMA LockInit == Init => LockInv
  BY DEF Init, LockInv, OneDriver, InflightIsDriven, Driving

THEOREM LockInvariant == Spec => []LockInv
<1> QED
  BY LockInit, LockNext, TypeInvariant, PTL DEF Spec

\* No two goroutines of a replica ever drive the same deployment.
THEOREM MutualExclusion == Spec => []OneDriver
<1>1. LockInv => OneDriver
  BY DEF LockInv
<1> QED
  BY <1>1, LockInvariant, PTL

\* The inflight map of a replica holds the deployments being driven there,
\* and nothing else: the lock never leaks and is never dropped early.
THEOREM LockIsExact == Spec => []InflightIsDriven
<1>1. LockInv => InflightIsDriven
  BY DEF LockInv
<1> QED
  BY <1>1, LockInvariant, PTL

---------------------------------------------------------------------------
(***************************************************************************)
(* The footprint of an action.                                             *)
(***************************************************************************)

\* A step of goroutine w concerns the deployment it drives, and no other
\* goroutine.
Footprint(w) ==
  /\ \A v \in Workers \ {w} :
       pc'[v] = pc[v] /\ agg'[v] = agg[v] /\ job'[v] = job[v]
  /\ \A j \in Ids \ {job[w]} : doc'[j] = doc[j] /\ target'[j] = target[j]
  /\ creates' = creates

LEMMA SaveFootprint ==
  ASSUME TypeInv, NEW i, NEW d, NEW ok, Save(i, d, ok)
  PROVE  \A j \in Ids \ {i} : doc'[j] = doc[j]
  BY DEF Save, TypeInv, StoreType

LEMMA StepFootprint ==
  ASSUME TypeInv, NEW w \in Workers, NEW d, NEW next, NEW after,
         Step(w, d, next, after), UNCHANGED <<world, job, creates>>
  PROVE  Footprint(w)
<1>1. \A v \in Workers \ {w} : pc'[v] = pc[v] /\ agg'[v] = agg[v]
  BY DEF Step, Goto, TypeInv, LocalType
<1>2. \A j \in Ids \ {job[w]} : doc'[j] = doc[j]
  BY SaveFootprint DEF Step, store
<1> QED
  BY <1>1, <1>2 DEF Footprint, world

LEMMA ExecuteFootprint ==
  ASSUME TypeInv, NEW w \in Workers, Execute(w)
  PROVE  Footprint(w)
<1>1. CASE Acquire(w) \/ Load(w) \/ LoadFails(w)
  BY <1>1 DEF Acquire, Load, LoadFails, Goto, Footprint, TypeInv, LocalType, store, world
<1>2. CASE Skip(w) \/ Release(w)
  BY <1>2 DEF Skip, Release, End, Goto, Footprint, TypeInv, LocalType, store, world
<1>3. CASE FailAndSave(w)
  <2>1. \A j \in Ids \ {job[w]} : doc'[j] = doc[j]
    BY <1>3, SaveFootprint DEF FailAndSave
  <2> QED
    BY <1>3, <2>1 DEF FailAndSave, Goto, Footprint, TypeInv, LocalType, world
<1> QED
  BY <1>1, <1>2, <1>3 DEF Execute

LEMMA RunFootprint ==
  ASSUME TypeInv, NEW w \in Workers, Run(w)
  PROVE  Footprint(w)
<1>1. CASE \/ Validate(w) \/ GenerateMetadata(w) \/ ChartResolved(w)
           \/ ArtifactPublished(w) \/ ArgoAppCreated(w) \/ Syncing(w)
           \/ Healthy(w) \/ Degraded(w)
  BY <1>1, StepFootprint
     DEF Validate, GenerateMetadata, ChartResolved, ArtifactPublished,
         ArgoAppCreated, Syncing, Healthy, Degraded
<1>2. CASE Compose(w)
  <2>1. CASE Step(w, agg[w], "CHART_COMPOSED", "publish")
    BY <1>2, <2>1, StepFootprint DEF Compose
  <2>2. CASE Goto(w, "fail") /\ UNCHANGED <<store, agg>>
    BY <1>2, <2>2 DEF Compose, Goto, Footprint, TypeInv, LocalType, store, world
  <2> QED
    BY <1>2, <2>1, <2>2 DEF Compose
<1>3. CASE Resolve(w) \/ Publish(w) \/ Sync(w) \/ PollFails(w) \/ NothingToDo(w)
  BY <1>3 DEF Resolve, Publish, Sync, PollFails, NothingToDo, Goto, Footprint,
              TypeInv, LocalType, store, world
<1>4. CASE CreateOrUpdate(w)
  BY <1>4 DEF CreateOrUpdate, Goto, Footprint, TypeInv, LocalType, WorldType, store
<1>5. CASE Poll(w) \/ Completed(w)
  <2>1. \A j \in Ids \ {job[w]} : doc'[j] = doc[j]
    BY <1>5, SaveFootprint DEF Poll, Completed
  <2> QED
    BY <1>5, <2>1 DEF Poll, Completed, Goto, Footprint, TypeInv, LocalType, world
<1> QED
  BY <1>1, <1>2, <1>3, <1>4, <1>5 DEF Run

\* The places of a goroutine that has an aggregate to save.
Held ==
  {"stage", "publish", "published", "created", "sync", "healthy", "degraded", "fail"}

\* A request is saved as RECEIVED, whatever it is merged into.
LEMMA ReceivedSave ==
  ASSUME TypeInv, NEW i \in Ids, NEW db \in BOOLEAN, NEW ok \in BOOLEAN,
         Save(i, New([n |-> creates[i] + 1, db |-> db]), ok)
  PROVE  \A j \in Ids :
           \/ doc'[j] = doc[j]
           \/ j = i /\ doc'[j] = Stored(doc[i], New([n |-> creates[i] + 1, db |-> db]))
              /\ doc'[j].status = "RECEIVED"
<1> DEFINE d == New([n |-> creates[i] + 1, db |-> db])
<1>1. Stored(doc[i], d).status = "RECEIVED"
  BY DEF Stored, New, NoRecord
<1>2. doc' \in {doc, [doc EXCEPT ![i] = Stored(doc[i], d)]}
  BY DEF Save
<1> QED
  BY <1>1, <1>2 DEF TypeInv, StoreType
===========================================================================
