--------------------------- MODULE EffectsProofs ---------------------------
(***************************************************************************)
(* What the documents of module Executor say of the registry and of        *)
(* Argo CD, for any number of replicas, requests and faults: EffectsFirst. *)
(*                                                                         *)
(* The world only grows: nothing takes a chart out of the registry, an     *)
(* Application or an accepted sync away.  So what an aggregate could claim *)
(* when it was saved, by whichever replica, it can claim ever after, and   *)
(* the merge of two aggregates of one identity claims no more than they    *)
(* did together.                                                           *)
(***************************************************************************)
EXTENDS RecordProofs

\* An aggregate claims only what was pushed, pointed at and accepted.
Backed(pushed, pointed, accepted, d) ==
  /\ d.artifact # None => d.artifact \in pushed
  /\ d.argo => pointed # None
  /\ d.status \in Applied \ {"ARGO_APP_CREATED"} => accepted

Claims(i, d) == Backed(registry[i], target[i], synced[i], d)
ClaimsAfter(i, d) == Backed(registry'[i], target'[i], synced'[i], d)

EffectsInv ==
  /\ \A i \in Ids : Claims(i, doc[i])
  /\ \A w \in Workers :
       /\ pc[w] = "idle" => agg[w] = NoRecord
       /\ job[w] \in Ids => Claims(job[w], agg[w])
       /\ pc[w] = "sync" => synced[job[w]]

Grows ==
  \A i \in Ids :
    /\ registry[i] \subseteq registry'[i]
    /\ target[i] # None => target'[i] # None
    /\ synced[i] => synced'[i]

LEMMA BackedStart ==
  \A pushed, pointed, accepted :
    /\ Backed(pushed, pointed, accepted, NoRecord)
    /\ \A req \in Request : Backed(pushed, pointed, accepted, New(req))
  BY DEF Backed, NoRecord, New, Absent, Applied, Published

\* What is claimed stays true while the world grows.
LEMMA StillClaimed ==
  ASSUME Grows, NEW i \in Ids, NEW d, Claims(i, d)
  PROVE  ClaimsAfter(i, d)
  BY DEF Grows, Claims, ClaimsAfter, Backed

LEMMA WorldGrows ==
  ASSUME TypeInv, [Next]_vars
  PROVE  Grows
<1>0. (UNCHANGED world) => Grows
  BY DEF world, Grows
<1>1. ASSUME NEW w \in Workers, Publish(w)
      PROVE  Grows
  BY <1>1, TypeFacts DEF Publish, Grows, TypeInv, WorldType
<1>2. ASSUME NEW w \in Workers, CreateOrUpdate(w)
      PROVE  Grows
  BY <1>2, TypeFacts DEF CreateOrUpdate, Grows, TypeInv, WorldType
<1>3. ASSUME NEW w \in Workers, Sync(w)
      PROVE  Grows
  BY <1>3, TypeFacts DEF Sync, Grows, TypeInv, WorldType
<1>4. ASSUME NEW w \in Workers, Execute(w)
      PROVE  UNCHANGED world
  BY <1>4 DEF Execute, Acquire, Skip, Load, LoadFails, FailAndSave, Release
<1>5. ASSUME NEW w \in Workers, Run(w)
      PROVE  UNCHANGED world \/ Publish(w) \/ CreateOrUpdate(w) \/ Sync(w)
  BY <1>5 DEF Run, Validate, GenerateMetadata, Resolve, ChartResolved, Compose,
              ArtifactPublished, ArgoAppCreated, Syncing, Poll, PollFails, Healthy,
              Degraded, Completed, NothingToDo
<1>6. ASSUME \/ \E w \in Workers, i \in Ids, db \in BOOLEAN : Create(w, i, db)
             \/ \E i \in Ids, db \in BOOLEAN : CreateRefused(i, db)
             \/ \E w \in Workers, i \in Ids : Redeploy(w, i)
             \/ \E w \in Workers : Deadline(w)
             \/ \E r \in Replicas : Crash(r)
             \/ UNCHANGED vars
      PROVE  UNCHANGED world
  BY <1>6 DEF Create, CreateRefused, Redeploy, Deadline, Crash, vars, world
<1> QED
  BY <1>0, <1>1, <1>2, <1>3, <1>4, <1>5, <1>6 DEF Next

\* The upsert claims no more than the document and the aggregate did.
LEMMA BackedStored ==
  ASSUME NEW pushed, NEW pointed, NEW accepted, NEW old \in Sound, NEW d \in Sound,
         Backed(pushed, pointed, accepted, old), Backed(pushed, pointed, accepted, d)
  PROVE  Backed(pushed, pointed, accepted, Stored(old, d))
<1> DEFINE s == Stored(old, d)
<1>1. /\ s.status = d.status
      /\ s.artifact \in {old.artifact, d.artifact}
      /\ s.argo => old.argo \/ d.argo
  BY DEF Stored, Sound, Record
<1> QED
  BY <1>1 DEF Backed

LEMMA EffectsSave ==
  ASSUME TypeInv, EffectsInv, Grows,
         NEW i \in Ids, NEW d \in Sound, ClaimsAfter(i, d), NEW ok, Save(i, d, ok)
  PROVE  \A j \in Ids : ClaimsAfter(j, doc'[j])
<1>1. \A j \in Ids : ClaimsAfter(j, doc[j])
  BY StillClaimed DEF EffectsInv
<1>2. ClaimsAfter(i, Stored(doc[i], d))
  BY <1>1, BackedStored DEF ClaimsAfter, TypeInv, StoreType
<1>3. doc' \in {doc, [doc EXCEPT ![i] = Stored(doc[i], d)]}
  BY DEF Save
<1> QED
  BY <1>1, <1>2, <1>3 DEF TypeInv, StoreType

LEMMA EffectsSame ==
  ASSUME EffectsInv, Grows, UNCHANGED doc
  PROVE  \A j \in Ids : ClaimsAfter(j, doc'[j])
  BY StillClaimed DEF EffectsInv

\* A goroutine that arrives at a place with an aggregate that claims no more
\* than is there.
LEMMA EffectsMove ==
  ASSUME TypeInv, EffectsInv, Grows, NEW w \in Workers, pc[w] # "idle",
         NEW place, place # "idle", NEW d \in Sound,
         pc' = [pc EXCEPT ![w] = place], agg' = [agg EXCEPT ![w] = d], UNCHANGED job,
         \A i \in Ids : ClaimsAfter(i, doc'[i]),
         ClaimsAfter(job[w], d),
         place = "sync" => synced'[job[w]]
  PROVE  EffectsInv'
<1>1. ASSUME NEW v \in Workers
      PROVE  /\ pc'[v] = "idle" => agg'[v] = NoRecord
             /\ job'[v] \in Ids => ClaimsAfter(job'[v], agg'[v])
             /\ pc'[v] = "sync" => synced'[job'[v]]
  <2>1. CASE v = w
    BY <2>1 DEF TypeInv, LocalType
  <2>2. CASE v # w
    <3>1. pc'[v] = pc[v] /\ agg'[v] = agg[v] /\ job'[v] = job[v]
      BY <2>2 DEF TypeInv, LocalType
    <3>2. job[v] \in Ids => ClaimsAfter(job[v], agg[v])
      BY StillClaimed DEF EffectsInv
    <3>3. pc[v] = "sync" => synced'[job[v]]
      BY TypeFacts DEF EffectsInv, Grows
    <3> QED
      BY <3>1, <3>2, <3>3 DEF EffectsInv
  <2> QED
    BY <2>1, <2>2
<1> QED
  BY <1>1 DEF EffectsInv, Claims, ClaimsAfter

LEMMA EffectsFail ==
  ASSUME NEW d \in Sound, NEW i \in Ids, ClaimsAfter(i, d)
  PROVE  ClaimsAfter(i, Fail(d))
<1>1. d \in Record
  BY DEF Sound
<1>2. /\ Fail(d).status \in {d.status, "FAILED"}
      /\ Fail(d).artifact = d.artifact /\ Fail(d).argo = d.argo
  BY <1>1 DEF Fail, TransitionTo, Record
<1> QED
  BY <1>2 DEF ClaimsAfter, Backed, Applied, Published

\* A step of the status machine to a status that claims nothing new, or whose
\* sync was accepted.
LEMMA EffectsStep ==
  ASSUME TypeInv, EffectsInv, Grows, NEW w \in Workers, pc[w] # "idle",
         NEW d \in Sound, NEW next \in Status, CanTransitionTo(d.status, next),
         NEW after, after \notin {"idle", "sync"},
         Step(w, d, next, after), UNCHANGED job,
         ClaimsAfter(job[w], d),
         next \in Applied \ {"ARGO_APP_CREATED"} => synced'[job[w]]
  PROVE  EffectsInv'
<1> DEFINE moved == [d EXCEPT !.status = next]
<1>1. TransitionTo(d, next) = moved
  BY DEF TransitionTo
<1>2. moved \in Sound
  BY <1>1, SoundTransition
<1>3. agg' = [agg EXCEPT ![w] = moved]
  BY <1>1 DEF Step
<1>4. PICK ok \in BOOLEAN :
             Save(job[w], moved, ok) /\ Goto(w, IF ok THEN after ELSE "fail")
  BY <1>1 DEF Step
<1>5. ClaimsAfter(job[w], moved)
  BY DEF ClaimsAfter, Backed, Sound, Record
<1> HIDE DEF moved
<1>6. \A i \in Ids : ClaimsAfter(i, doc'[i])
  BY <1>2, <1>4, <1>5, EffectsSave, TypeFacts
<1>7. PICK place \in {after, "fail"} : pc' = [pc EXCEPT ![w] = place]
  BY <1>4 DEF Goto
<1> QED
  BY <1>2, <1>3, <1>5, <1>6, <1>7, EffectsMove

\* A goroutine changes its place and nothing else.
LEMMA EffectsLeave ==
  ASSUME TypeInv, EffectsInv, Grows, NEW w \in Workers, pc[w] # "idle",
         NEW place, place \notin {"idle", "sync"},
         Goto(w, place), UNCHANGED <<doc, job, agg>>
  PROVE  EffectsInv'
<1>1. agg' = [agg EXCEPT ![w] = agg[w]]
  BY DEF TypeInv, LocalType
<1>2. ClaimsAfter(job[w], agg[w])
  BY TypeFacts, StillClaimed DEF EffectsInv
<1> QED
  BY <1>1, <1>2, EffectsSame, EffectsMove, TypeFacts DEF Goto

LEMMA EffectsExecute ==
  ASSUME TypeInv, EffectsInv, Grows, NEW w \in Workers, Execute(w)
  PROVE  EffectsInv'
<1>end. ASSUME End(w), UNCHANGED doc
        PROVE  EffectsInv'
  <2>1. \A i \in Ids : ClaimsAfter(i, doc'[i])
    BY <1>end, EffectsSame
  <2>2. /\ pc' = [pc EXCEPT ![w] = "idle"] /\ agg' = [agg EXCEPT ![w] = NoRecord]
        /\ job' = [job EXCEPT ![w] = None]
    BY <1>end DEF End, Goto
  <2>3. ASSUME NEW v \in Workers
        PROVE  /\ pc'[v] = "idle" => agg'[v] = NoRecord
               /\ job'[v] \in Ids => ClaimsAfter(job'[v], agg'[v])
               /\ pc'[v] = "sync" => synced'[job'[v]]
    <3>1. CASE v = w
      BY <2>2, <3>1, BackedStart DEF TypeInv, LocalType, ClaimsAfter
    <3>2. CASE v # w
      <4>1. pc'[v] = pc[v] /\ agg'[v] = agg[v] /\ job'[v] = job[v]
        BY <2>2, <3>2 DEF TypeInv, LocalType
      <4>2. job[v] \in Ids => ClaimsAfter(job[v], agg[v])
        BY StillClaimed DEF EffectsInv
      <4>3. pc[v] = "sync" => synced'[job[v]]
        BY TypeFacts DEF EffectsInv, Grows
      <4> QED
        BY <4>1, <4>2, <4>3 DEF EffectsInv
    <3> QED
      BY <3>1, <3>2
  <2> QED
    BY <2>1, <2>3 DEF EffectsInv, Claims, ClaimsAfter
<1>1. CASE Acquire(w)
  BY <1>1, EffectsLeave DEF Acquire, store
<1>2. CASE Skip(w)
  BY <1>2, <1>end DEF Skip, store
<1>3. CASE Load(w)
  <2> DEFINE d == doc[job[w]]
  <2>1. d \in Sound /\ ClaimsAfter(job[w], d)
    BY <1>3, TypeFacts, StillClaimed DEF Load, TypeInv, StoreType, EffectsInv
  <2>2. PICK place \in {"release", "fail", "stage"} : pc' = [pc EXCEPT ![w] = place]
    BY <1>3 DEF Load, Goto
  <2>3. agg' = [agg EXCEPT ![w] = d] /\ UNCHANGED <<doc, job>> /\ pc[w] = "load"
    BY <1>3 DEF Load, store
  <2> QED
    BY <2>1, <2>2, <2>3, EffectsSame, EffectsMove
<1>4. CASE LoadFails(w)
  BY <1>4, EffectsLeave DEF LoadFails
<1>5. CASE FailAndSave(w)
  <2> DEFINE d == Fail(agg[w])
  <2>1. job[w] \in Ids
    BY <1>5, TypeFacts DEF FailAndSave
  <2>2. d \in Sound /\ ClaimsAfter(job[w], d)
    BY <2>1, TypeFacts, SoundEnd, StillClaimed, EffectsFail DEF EffectsInv
  <2>3. /\ pc' = [pc EXCEPT ![w] = "release"] /\ agg' = [agg EXCEPT ![w] = d]
        /\ agg'[w] = d /\ UNCHANGED job /\ pc[w] = "fail"
    BY <1>5 DEF FailAndSave, Goto, TypeInv, LocalType
  <2> HIDE DEF d
  <2>4. \A i \in Ids : ClaimsAfter(i, doc'[i])
    BY <1>5, <2>1, <2>2, <2>3, EffectsSave DEF FailAndSave
  <2> QED
    BY <2>2, <2>3, <2>4, EffectsMove
<1>6. CASE Release(w)
  BY <1>6, <1>end DEF Release, store
<1> QED
  BY <1>1, <1>2, <1>3, <1>4, <1>5, <1>6 DEF Execute

\* The stages that are one step of the status machine: only Syncing claims
\* more than it found, and it comes from the answer of Sync.
LEMMA EffectsStages ==
  ASSUME TypeInv, RecordInv, EffectsInv, Grows, NEW w \in Workers
  PROVE  /\ Validate(w) => EffectsInv'
         /\ GenerateMetadata(w) => EffectsInv'
         /\ ChartResolved(w) => EffectsInv'
         /\ Compose(w) => EffectsInv'
         /\ ArtifactPublished(w) => EffectsInv'
         /\ ArgoAppCreated(w) => EffectsInv'
         /\ Syncing(w) => EffectsInv'
         /\ Healthy(w) => EffectsInv'
         /\ Degraded(w) => EffectsInv'
<1>at. /\ agg[w] \in Sound /\ agg[w] \in Record
       /\ pc[w] # "idle" => job[w] \in Ids /\ ClaimsAfter(job[w], agg[w])
       /\ Place(pc[w], agg[w])
  BY TypeFacts, StillClaimed DEF EffectsInv, RecordInv, Sound
<1>1. CASE Validate(w)
  BY <1>1, <1>at, EffectsStep DEF Validate, At, CanTransitionTo, Status, Applied, Published
<1>2. CASE GenerateMetadata(w)
  <2> DEFINE d == [agg[w] EXCEPT !.meta = Base]
  <2>1. d \in Sound /\ agg[w].status = "VALIDATING" /\ pc[w] = "stage"
    BY <1>2, <1>at, SoundField DEF GenerateMetadata, At
  <2>2. d.status = "VALIDATING" /\ d.artifact = agg[w].artifact /\ d.argo = agg[w].argo
    BY <1>at, <2>1 DEF Record
  <2>3. Step(w, d, "METADATA_GENERATED", "stage") /\ UNCHANGED job
    BY <1>2 DEF GenerateMetadata
  <2> HIDE DEF d
  <2>4. ClaimsAfter(job[w], d)
    BY <1>at, <2>1, <2>2 DEF ClaimsAfter, Backed
  <2> QED
    BY <2>1, <2>2, <2>3, <2>4, EffectsStep DEF CanTransitionTo, Status, Applied, Published
<1>3. CASE ChartResolved(w)
  BY <1>3, <1>at, EffectsStep
     DEF ChartResolved, At, CanTransitionTo, Status, Applied, Published
<1>4. CASE Compose(w)
  <2>1. CASE Step(w, agg[w], "CHART_COMPOSED", "publish")
    BY <1>4, <2>1, <1>at, EffectsStep
       DEF Compose, At, CanTransitionTo, Status, Applied, Published
  <2>2. CASE Goto(w, "fail") /\ UNCHANGED <<store, agg>>
    BY <1>4, <2>2, EffectsLeave DEF Compose, At, store
  <2> QED
    BY <1>4, <2>1, <2>2 DEF Compose
<1>5. CASE ArtifactPublished(w)
  BY <1>5, <1>at, EffectsStep
     DEF ArtifactPublished, Place, CanTransitionTo, Status, Applied, Published
<1>6. CASE ArgoAppCreated(w)
  BY <1>6, <1>at, EffectsStep
     DEF ArgoAppCreated, Place, CanTransitionTo, Status, Applied, Published
<1>7. CASE Syncing(w)
  <2>1. synced'[job[w]]
    BY <1>7, <1>at DEF Syncing, EffectsInv, Grows
  <2> QED
    BY <1>7, <1>at, <2>1, EffectsStep
       DEF Syncing, Place, CanTransitionTo, Status, Applied, Published
<1>8. CASE Healthy(w)
  <2>1. agg[w].status = "SYNCING" /\ synced'[job[w]]
    BY <1>8, <1>at DEF Healthy, Place, ClaimsAfter, Backed, Applied, Published
  <2> QED
    BY <1>8, <1>at, <2>1, EffectsStep
       DEF Healthy, CanTransitionTo, Status, Applied, Published
<1>9. CASE Degraded(w)
  <2>1. agg[w].status = "SYNCING" /\ synced'[job[w]]
    BY <1>9, <1>at DEF Degraded, Place, ClaimsAfter, Backed, Applied, Published
  <2> QED
    BY <1>9, <1>at, <2>1, EffectsStep
       DEF Degraded, CanTransitionTo, Status, Applied, Published
<1> QED
  BY <1>1, <1>2, <1>3, <1>4, <1>5, <1>6, <1>7, <1>8, <1>9

\* The stages that call the outside world: what they note in the aggregate is
\* what the call did.
LEMMA EffectsCalls ==
  ASSUME TypeInv, RecordInv, EffectsInv, Grows, NEW w \in Workers
  PROVE  /\ Resolve(w) => EffectsInv'
         /\ Publish(w) => EffectsInv'
         /\ CreateOrUpdate(w) => EffectsInv'
         /\ Sync(w) => EffectsInv'
         /\ Poll(w) => EffectsInv'
         /\ Completed(w) => EffectsInv'
<1>at. /\ agg[w] \in Sound /\ agg[w] \in Record
       /\ pc[w] # "idle" => job[w] \in Ids /\ ClaimsAfter(job[w], agg[w])
       /\ Place(pc[w], agg[w])
  BY TypeFacts, StillClaimed DEF EffectsInv, RecordInv, Sound
<1>1. CASE Resolve(w)
  <2>1. CASE Goto(w, "fail") /\ UNCHANGED <<agg, archive>>
    BY <1>1, <2>1, EffectsLeave DEF Resolve, At, store
  <2>2. CASE /\ \E c \in Charts :
                  agg' = [agg EXCEPT ![w].meta = [chart |-> c, req |-> agg[w].req]]
             /\ UNCHANGED pc
    <3>1. PICK c \in Charts :
                 agg' = [agg EXCEPT ![w].meta = [chart |-> c, req |-> agg[w].req]]
      BY <2>2
    <3> DEFINE v == [chart |-> c, req |-> agg[w].req]
               d == [agg[w] EXCEPT !.meta = v]
    <3>2. pc[w] = "stage" /\ agg[w].status \in {"METADATA_GENERATED", "CHART_RESOLVED"}
      BY <1>1 DEF Resolve, At
    <3>3. v \in Version
      BY <1>at, <3>2 DEF Version, Sound, Absent
    <3>4. /\ d \in Sound /\ d.artifact = agg[w].artifact
          /\ d.argo = agg[w].argo /\ d.status = agg[w].status
      BY <1>at, <3>3, SoundField DEF Record
    <3>5. agg' = [agg EXCEPT ![w] = d] /\ pc' = [pc EXCEPT ![w] = "stage"]
      BY <2>2, <3>1, <3>2 DEF TypeInv, LocalType
    <3>6. UNCHANGED <<doc, job>>
      BY <1>1 DEF Resolve, store
    <3> HIDE DEF d, v
    <3>7. ClaimsAfter(job[w], d)
      BY <1>at, <3>2, <3>4 DEF ClaimsAfter, Backed
    <3> QED
      BY <3>2, <3>4, <3>5, <3>6, <3>7, EffectsSame, EffectsMove
  <2> QED
    BY <1>1, <2>1, <2>2 DEF Resolve
<1>2. CASE Publish(w)
  <2> DEFINE chart == [version |-> agg[w].meta, db |-> agg[w].res]
             d == [agg[w] EXCEPT !.artifact = chart]
  <2>0. pc[w] = "publish" /\ UNCHANGED <<doc, job>>
    BY <1>2 DEF Publish, store
  <2>1. CASE Goto(w, "fail") /\ UNCHANGED agg
    BY <2>0, <2>1, EffectsLeave
  <2>2. CASE /\ registry' = [registry EXCEPT ![job[w]] = @ \cup {chart}]
             /\ agg' = [agg EXCEPT ![w].artifact = chart]
             /\ Goto(w, "published")
    <3>1. archive[w]
      BY <2>0 DEF TypeInv, ArchiveStamped
    <3>2. chart \in Artifact
      BY <1>at, <3>1, TypeFacts DEF Artifact, Stamped, Record
    <3>3. d \in Sound
      BY <1>at, <3>2, SoundField
    <3>4. d.artifact = chart /\ d.argo = agg[w].argo /\ d.status = "CHART_COMPOSED"
      BY <1>at, <2>0 DEF Record, Place
    <3>5. agg' = [agg EXCEPT ![w] = d] /\ pc' = [pc EXCEPT ![w] = "published"]
      BY <2>2 DEF Goto
    <3>6. chart \in registry'[job[w]]
      BY <1>at, <2>0, <2>2 DEF TypeInv, WorldType
    <3> HIDE DEF d, chart
    <3>7. ClaimsAfter(job[w], d)
      BY <1>at, <2>0, <3>4, <3>6 DEF ClaimsAfter, Backed, Applied, Published
    <3> QED
      BY <2>0, <3>3, <3>5, <3>7, EffectsSame, EffectsMove
  <2> QED
    BY <1>2, <2>1, <2>2 DEF Publish
<1>3. CASE CreateOrUpdate(w)
  <2> DEFINE d == [agg[w] EXCEPT !.argo = TRUE]
  <2>0. pc[w] = "stage" /\ agg[w].status = "ARTIFACT_PUBLISHED" /\ UNCHANGED <<doc, job>>
    BY <1>3 DEF CreateOrUpdate, At, store
  <2>1. CASE Goto(w, "fail") /\ UNCHANGED agg
    BY <2>0, <2>1, EffectsLeave
  <2>2. CASE /\ agg[w].artifact # None
             /\ target' = [target EXCEPT ![job[w]] = agg[w].artifact]
             /\ agg' = [agg EXCEPT ![w].argo = TRUE]
             /\ Goto(w, "created")
    <3>1. d \in Sound
      BY <1>at, SoundField
    <3>2. d.artifact = agg[w].artifact /\ d.status = "ARTIFACT_PUBLISHED"
      BY <1>at, <2>0 DEF Record
    <3>3. agg' = [agg EXCEPT ![w] = d] /\ pc' = [pc EXCEPT ![w] = "created"]
      BY <2>2 DEF Goto
    <3>4. target'[job[w]] # None
      BY <1>at, <2>0, <2>2 DEF TypeInv, WorldType
    <3> HIDE DEF d
    <3>5. ClaimsAfter(job[w], d)
      BY <1>at, <2>0, <3>2, <3>4 DEF ClaimsAfter, Backed, Applied, Published
    <3> QED
      BY <2>0, <3>1, <3>3, <3>5, EffectsSame, EffectsMove
  <2> QED
    BY <1>3, <2>1, <2>2 DEF CreateOrUpdate
<1>4. CASE Sync(w)
  <2>0. pc[w] = "stage" /\ UNCHANGED <<doc, job, agg>>
    BY <1>4 DEF Sync, At, store
  <2>1. CASE Goto(w, "fail")
    BY <2>0, <2>1, EffectsLeave
  <2>2. CASE synced' = [synced EXCEPT ![job[w]] = TRUE] /\ Goto(w, "sync")
    <3>1. agg' = [agg EXCEPT ![w] = agg[w]] /\ pc' = [pc EXCEPT ![w] = "sync"]
      BY <2>0, <2>2 DEF Goto, TypeInv, LocalType
    <3>2. synced'[job[w]]
      BY <1>at, <2>0, <2>2 DEF TypeInv, WorldType
    <3> QED
      BY <1>at, <2>0, <3>1, <3>2, EffectsSame, EffectsMove
  <2> QED
    BY <1>4, <2>1, <2>2 DEF Sync
<1>5. CASE Poll(w)
  <2>1. PICK h \in Health \ {"unset"} :
               /\ agg' = [agg EXCEPT ![w].health = h]
               /\ Goto(w, Verdict(h, late[w]))
    BY <1>5 DEF Poll
  <2> DEFINE d == [agg[w] EXCEPT !.health = h]
  <2>2. d \in Sound
    BY <1>at, SoundField
  <2>3. agg' = [agg EXCEPT ![w] = d] /\ agg'[w] = d
    BY <2>1 DEF TypeInv, LocalType
  <2>4. pc[w] = "stage" /\ UNCHANGED job
    BY <1>5 DEF Poll, At
  <2>5. d.status = agg[w].status /\ d.artifact = agg[w].artifact /\ d.argo = agg[w].argo
    BY <1>at DEF Record
  <2> HIDE DEF d
  <2>6. ClaimsAfter(job[w], d)
    BY <1>at, <2>4, <2>5 DEF ClaimsAfter, Backed
  <2>7. \A i \in Ids : ClaimsAfter(i, doc'[i])
    BY <1>5, <1>at, <2>2, <2>3, <2>4, <2>6, EffectsSave DEF Poll
  <2>8. Verdict(h, late[w]) \notin {"idle", "sync"}
    BY DEF Verdict
  <2> QED
    BY <2>1, <2>2, <2>3, <2>4, <2>6, <2>7, <2>8, EffectsMove DEF Goto
<1>6. CASE Completed(w)
  <2> DEFINE d == Complete(agg[w])
  <2>1. pc[w] = "stage" /\ agg[w].status = "HEALTHY" /\ UNCHANGED job
    BY <1>6 DEF Completed, At
  <2>2. d \in Sound
    BY <1>at, SoundEnd
  <2>3. /\ d.status = "COMPLETED" /\ d.artifact = agg[w].artifact
        /\ d.argo = agg[w].argo
    BY <1>at, <2>1 DEF Complete, TransitionTo, CanTransitionTo, Record
  <2>4. agg' = [agg EXCEPT ![w] = d] /\ agg'[w] = d
    BY <1>6 DEF Completed, TypeInv, LocalType
  <2>5. PICK place \in {"release", "fail"}, ok \in BOOLEAN :
               Save(job[w], agg'[w], ok) /\ Goto(w, place)
    BY <1>6 DEF Completed
  <2> HIDE DEF d
  <2>6. ClaimsAfter(job[w], d)
    BY <1>at, <2>1, <2>3 DEF ClaimsAfter, Backed, Applied, Published
  <2>7. \A i \in Ids : ClaimsAfter(i, doc'[i])
    BY <1>at, <2>1, <2>2, <2>4, <2>5, <2>6, EffectsSave
  <2> QED
    BY <2>1, <2>2, <2>4, <2>5, <2>6, <2>7, EffectsMove DEF Goto
<1> QED
  BY <1>1, <1>2, <1>3, <1>4, <1>5, <1>6

LEMMA EffectsNext == TypeInv /\ RecordInv /\ EffectsInv /\ [Next]_vars => EffectsInv'
<1> SUFFICES ASSUME TypeInv, RecordInv, EffectsInv, [Next]_vars PROVE EffectsInv'
  OBVIOUS
<1>grows. Grows
  BY WorldGrows
<1>docs. EffectsInv => \A w \in Workers :
           job[w] \in Ids => ClaimsAfter(job[w], agg[w])
  BY <1>grows, StillClaimed DEF EffectsInv
<1>local. ASSUME UNCHANGED <<pc, agg, job>>, \A i \in Ids : ClaimsAfter(i, doc'[i])
          PROVE  EffectsInv'
  BY <1>local, <1>docs, <1>grows, TypeFacts DEF EffectsInv, Grows, Claims, ClaimsAfter
<1>1. ASSUME NEW w \in Workers, NEW i \in Ids, Trigger(w, i),
             \A j \in Ids : ClaimsAfter(j, doc'[j])
      PROVE  EffectsInv'
  <2>1. ASSUME NEW v \in Workers
        PROVE  /\ pc'[v] = "idle" => agg'[v] = NoRecord
               /\ job'[v] \in Ids => ClaimsAfter(job'[v], agg'[v])
               /\ pc'[v] = "sync" => synced'[job'[v]]
    <3>1. CASE v = w
      BY <1>1, <3>1, BackedStart
         DEF Trigger, Goto, TypeInv, LocalType, EffectsInv, ClaimsAfter
    <3>2. CASE v # w
      <4>1. pc'[v] = pc[v] /\ agg'[v] = agg[v] /\ job'[v] = job[v]
        BY <1>1, <3>2 DEF Trigger, Goto, TypeInv, LocalType
      <4> QED
        BY <4>1, <1>docs, <1>grows, TypeFacts DEF EffectsInv, Grows
    <3> QED
      BY <3>1, <3>2
  <2> QED
    BY <1>1, <2>1 DEF EffectsInv, Claims, ClaimsAfter
<1>2. ASSUME NEW i \in Ids, NEW db \in BOOLEAN, NEW ok \in BOOLEAN, creates[i] < MaxCreates,
             Save(i, New([n |-> creates[i] + 1, db |-> db]), ok)
      PROVE  \A j \in Ids : ClaimsAfter(j, doc'[j])
  <2> DEFINE req == [n |-> creates[i] + 1, db |-> db]
  <2>1. req \in Request
    BY <1>2, NilAssumption DEF TypeInv, Request
  <2>2. New(req) \in Sound /\ ClaimsAfter(i, New(req))
    BY <2>1, SoundStart, BackedStart DEF ClaimsAfter
  <2> QED
    BY <1>2, <1>grows, <2>2, EffectsSave
<1>3. ASSUME NEW w \in Workers, NEW i \in Ids, NEW db \in BOOLEAN, Create(w, i, db)
      PROVE  EffectsInv'
  BY <1>1, <1>2, <1>3 DEF Create
<1>4. ASSUME NEW i \in Ids, NEW db \in BOOLEAN, CreateRefused(i, db)
      PROVE  EffectsInv'
  BY <1>2, <1>local, <1>4 DEF CreateRefused, local
<1>5. ASSUME NEW w \in Workers, NEW i \in Ids, Redeploy(w, i)
      PROVE  EffectsInv'
  BY <1>1, <1>5, <1>grows, EffectsSame DEF Redeploy, store
<1>6. ASSUME NEW w \in Workers, Execute(w)
      PROVE  EffectsInv'
  BY <1>6, <1>grows, EffectsExecute
<1>7. ASSUME NEW w \in Workers, Run(w)
      PROVE  EffectsInv'
  <2>1. CASE PollFails(w)
    BY <2>1, <1>grows, EffectsLeave DEF PollFails, At, store
  <2>2. CASE NothingToDo(w)
    BY <2>2, <1>grows, EffectsLeave DEF NothingToDo, At, store
  <2> QED
    BY <1>7, <1>grows, <2>1, <2>2, EffectsStages, EffectsCalls DEF Run
<1>8. ASSUME NEW w \in Workers, Deadline(w)
      PROVE  EffectsInv'
  BY <1>8, <1>local, <1>grows, EffectsSame DEF Deadline, store
<1>9. ASSUME NEW r \in Replicas, Crash(r)
      PROVE  EffectsInv'
  <2>1. ASSUME NEW v \in Workers
        PROVE  /\ pc'[v] = "idle" => agg'[v] = NoRecord
               /\ job'[v] \in Ids => ClaimsAfter(job'[v], agg'[v])
               /\ pc'[v] = "sync" => synced'[job'[v]]
    <3>1. CASE Host(v) = r
      BY <1>9, <3>1, BackedStart DEF Crash, ClaimsAfter
    <3>2. CASE Host(v) # r
      <4>1. pc'[v] = pc[v] /\ agg'[v] = agg[v] /\ job'[v] = job[v]
        BY <1>9, <3>2 DEF Crash
      <4> QED
        BY <4>1, <1>docs, <1>grows, TypeFacts DEF EffectsInv, Grows
    <3> QED
      BY <3>1, <3>2
  <2>2. \A i \in Ids : ClaimsAfter(i, doc'[i])
    BY <1>9, <1>grows, EffectsSame DEF Crash
  <2> QED
    BY <2>1, <2>2 DEF EffectsInv, Claims, ClaimsAfter
<1>10. CASE UNCHANGED vars
  BY <1>10, <1>local, <1>grows, EffectsSame DEF vars
<1> QED
  BY <1>3, <1>4, <1>5, <1>6, <1>7, <1>8, <1>9, <1>10 DEF Next

LEMMA EffectsInit == Init => EffectsInv
<1> SUFFICES ASSUME Init PROVE EffectsInv
  OBVIOUS
<1>1. \A i \in Ids : Claims(i, NoRecord)
  BY BackedStart DEF Claims
<1> QED
  BY <1>1 DEF Init, EffectsInv

\* The record never runs ahead of the world: whichever replicas race, and
\* wherever one stops, a stored artifact was pushed, a stored Application was
\* created, and a deployment stored as SYNCING or later had a sync accepted
\* (execute.go: the call first, the save after).
THEOREM RecordFollowsWorld == Spec => []EffectsFirst
<1>1. EffectsInv => EffectsFirst
  BY DEF EffectsInv, EffectsFirst, Claims, Backed
<1>2. Spec => []EffectsInv
  BY EffectsInit, EffectsNext, TypeInvariant, RecordInvariant, PTL DEF Spec
<1> QED
  BY <1>1, <1>2, PTL
============================================================================
