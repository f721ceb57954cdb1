--------------------------- MODULE RecordProofs ---------------------------
(***************************************************************************)
(* What the documents of module Executor hold, for any number of replicas, *)
(* requests and faults: StoredIsResumable, CompletedWasHealthy and         *)
(* HalfWayIsDriven; and what it takes to break two properties that do not  *)
(* hold: a fault for CompletedHasNoError (run completed_error), a second   *)
(* request for one identity for ResourcesAreDeclared.                      *)
(*                                                                         *)
(* A document is the merge of an aggregate some goroutine saved into an    *)
(* older document.  The proof shows the two properties of every aggregate  *)
(* in memory, at every place of run, and that the merge keeps them         *)
(* whatever the older document was: that is why it does not matter which   *)
(* replica saved last.                                                     *)
(***************************************************************************)
EXTENDS ExecutorProofs

Consistent(d) ==
  /\ Resumable(d)
  /\ d.status \in {"HEALTHY", "COMPLETED"} => d.health = "Healthy"

\* What the aggregate holds between two calls of one stage.
Place(place, d) ==
  /\ place \in {"publish", "published"} => d.status = "CHART_COMPOSED"
  /\ place = "published" => d.artifact # None /\ d.artifact.version = d.meta
  /\ place = "created" => d.status = "ARTIFACT_PUBLISHED" /\ d.argo
  /\ place = "sync" => d.status = "ARGO_APP_CREATED"
  /\ place \in {"healthy", "degraded"} => d.status = "SYNCING"
  /\ place = "healthy" => d.health = "Healthy"

RecordInv ==
  /\ \A i \in Ids : Consistent(doc[i])
  /\ \A w \in Workers : Consistent(agg[w]) /\ Place(pc[w], agg[w])

LEMMA ConsistentStart ==
  /\ Consistent(NoRecord)
  /\ \A req \in Request : Consistent(New(req))
  BY DEF Consistent, Resumable, NoRecord, New, Absent, Published, Applied

\* The upsert keeps what the aggregate promises, whatever it overwrites.
LEMMA ConsistentStored ==
  ASSUME NEW old \in Sound, NEW d \in Sound, Consistent(d)
  PROVE  Consistent(Stored(old, d))
<1> DEFINE s == Stored(old, d)
<1>1. d \in Record
  BY DEF Sound
<1>2. /\ s.status = d.status
      /\ d.meta # None => s.meta = d.meta
      /\ d.artifact # None => s.artifact = d.artifact
      /\ d.argo => s.argo
      /\ d.health = "Healthy" => s.health = "Healthy"
  BY <1>1 DEF Stored, Record
<1> HIDE DEF s
<1>3. d.status \in Published => d.meta # None
  BY DEF Consistent, Resumable, Published, Absent
<1>4. Resumable(s)
  BY <1>2, <1>3 DEF Consistent, Resumable, Published, Applied
<1> QED
  BY <1>2, <1>4 DEF Consistent, s

LEMMA ConsistentFail ==
  ASSUME NEW d \in Sound, Consistent(d)
  PROVE  Consistent(Fail(d))
<1>1. d \in Record
  BY DEF Sound
<1>2. CASE CanTransitionTo(d.status, "FAILED")
  <2>1. Fail(d).status = "FAILED"
    BY <1>1, <1>2 DEF Fail, TransitionTo, Record
  <2> QED
    BY <2>1 DEF Consistent, Resumable, Published, Applied
<1>3. CASE ~CanTransitionTo(d.status, "FAILED")
  <2>1. /\ Fail(d).status = d.status /\ Fail(d).meta = d.meta
        /\ Fail(d).artifact = d.artifact /\ Fail(d).argo = d.argo
        /\ Fail(d).health = d.health
    BY <1>1, <1>3 DEF Fail, TransitionTo, Record
  <2> QED
    BY <2>1 DEF Consistent, Resumable
<1> QED
  BY <1>2, <1>3

LEMMA ConsistentComplete ==
  ASSUME NEW d \in Sound, Consistent(d), d.status = "HEALTHY"
  PROVE  Consistent(Complete(d))
<1>1. /\ Complete(d).status = "COMPLETED" /\ Complete(d).meta = d.meta
      /\ Complete(d).artifact = d.artifact /\ Complete(d).argo = d.argo
      /\ Complete(d).health = d.health
  BY DEF Complete, TransitionTo, CanTransitionTo, Sound, Record
<1> QED
  BY <1>1 DEF Consistent, Resumable, Published, Applied, Absent

\* A save of a consistent aggregate keeps every document consistent.
LEMMA RecordSave ==
  ASSUME TypeInv, \A i \in Ids : Consistent(doc[i]),
         NEW i \in Ids, NEW d \in Sound, Consistent(d), NEW ok, Save(i, d, ok)
  PROVE  \A j \in Ids : Consistent(doc'[j])
<1>1. Consistent(Stored(doc[i], d))
  BY ConsistentStored DEF TypeInv, StoreType
<1>2. doc' \in {doc, [doc EXCEPT ![i] = Stored(doc[i], d)]}
  BY DEF Save
<1> QED
  BY <1>1, <1>2 DEF TypeInv, StoreType

\* A goroutine that arrives at a place with what it needs there.
LEMMA RecordMove ==
  ASSUME TypeInv, RecordInv, NEW w \in Workers, NEW place, NEW d \in Sound,
         \A i \in Ids : Consistent(doc'[i]),
         pc' = [pc EXCEPT ![w] = place], agg' = [agg EXCEPT ![w] = d],
         Consistent(d), Place(place, d)
  PROVE  RecordInv'
<1>1. ASSUME NEW v \in Workers
      PROVE  Consistent(agg'[v]) /\ Place(pc'[v], agg'[v])
  <2>1. CASE v = w
    BY <2>1 DEF TypeInv, LocalType
  <2>2. CASE v # w
    BY <2>2 DEF TypeInv, LocalType, RecordInv
  <2> QED
    BY <2>1, <2>2
<1> QED
  BY <1>1 DEF RecordInv

LEMMA FailPlace ==
  \A d : Place("fail", d) /\ Place("stage", d) /\ Place("release", d)
         /\ Place("idle", d) /\ Place("acquire", d) /\ Place("load", d)
  BY DEF Place

\* A step of the status machine whose outcome is consistent.
LEMMA RecordStep ==
  ASSUME TypeInv, RecordInv, NEW w \in Workers, pc[w] # "idle", NEW d \in Sound,
         NEW next \in Status, NEW after, Step(w, d, next, after),
         CanTransitionTo(d.status, next),
         Consistent([d EXCEPT !.status = next]),
         Place(after, [d EXCEPT !.status = next])
  PROVE  RecordInv'
<1> DEFINE moved == [d EXCEPT !.status = next]
<1>1. TransitionTo(d, next) = moved
  BY DEF TransitionTo
<1>2. moved \in Sound
  BY <1>1, SoundTransition
<1>3. agg' = [agg EXCEPT ![w] = moved]
  BY <1>1 DEF Step
<1>4. PICK ok \in BOOLEAN :
             Save(job[w], moved, ok) /\ Goto(w, IF ok THEN after ELSE "fail")
  BY <1>1 DEF Step
<1> HIDE DEF moved
<1>5. \A i \in Ids : Consistent(doc'[i])
  BY <1>2, <1>4, RecordSave, TypeFacts DEF RecordInv, moved
<1>6. PICK place \in {after, "fail"} : pc' = [pc EXCEPT ![w] = place]
  BY <1>4 DEF Goto
<1> QED
  BY <1>2, <1>3, <1>5, <1>6, RecordMove, FailPlace DEF moved

LEMMA RecordExecute ==
  ASSUME TypeInv, RecordInv, NEW w \in Workers, Execute(w)
  PROVE  RecordInv'
<1>end. ASSUME End(w), UNCHANGED store
        PROVE  RecordInv'
  <2>1. pc' = [pc EXCEPT ![w] = "idle"] /\ agg' = [agg EXCEPT ![w] = NoRecord]
    BY <1>end DEF End, Goto
  <2>2. \A i \in Ids : Consistent(doc'[i])
    BY <1>end DEF RecordInv, store
  <2> QED
    BY <2>1, <2>2, RecordMove, FailPlace, ConsistentStart, SoundStart
<1>1. CASE Acquire(w)
  <2>1. pc' = [pc EXCEPT ![w] = "load"] /\ agg' = [agg EXCEPT ![w] = agg[w]]
    BY <1>1 DEF Acquire, Goto, TypeInv, LocalType
  <2>2. \A i \in Ids : Consistent(doc'[i])
    BY <1>1 DEF Acquire, RecordInv, store
  <2> QED
    BY <2>1, <2>2, RecordMove, FailPlace, TypeFacts DEF RecordInv
<1>2. CASE Skip(w)
  BY <1>2, <1>end DEF Skip
<1>3. CASE Load(w)
  <2> DEFINE d == doc[job[w]]
  <2>1. d \in Sound /\ Consistent(d)
    BY <1>3, TypeFacts DEF Load, TypeInv, StoreType, RecordInv
  <2>2. PICK place \in {"release", "fail", "stage"} : pc' = [pc EXCEPT ![w] = place]
    BY <1>3 DEF Load, Goto
  <2>3. agg' = [agg EXCEPT ![w] = d] /\ \A i \in Ids : Consistent(doc'[i])
    BY <1>3 DEF Load, RecordInv, store
  <2> QED
    BY <2>1, <2>2, <2>3, RecordMove, FailPlace
<1>4. CASE LoadFails(w)
  <2>1. pc' = [pc EXCEPT ![w] = "release"] /\ agg' = [agg EXCEPT ![w] = agg[w]]
    BY <1>4 DEF LoadFails, Goto, TypeInv, LocalType
  <2>2. \A i \in Ids : Consistent(doc'[i])
    BY <1>4 DEF LoadFails, RecordInv
  <2> QED
    BY <2>1, <2>2, RecordMove, FailPlace, TypeFacts DEF RecordInv
<1>5. CASE FailAndSave(w)
  <2> DEFINE d == Fail(agg[w])
  <2>1. d \in Sound /\ Consistent(d)
    BY TypeFacts, SoundEnd, ConsistentFail DEF RecordInv
  <2>2. pc' = [pc EXCEPT ![w] = "release"] /\ agg' = [agg EXCEPT ![w] = d] /\ agg'[w] = d
    BY <1>5 DEF FailAndSave, Goto, TypeInv, LocalType
  <2> HIDE DEF d
  <2>3. \A i \in Ids : Consistent(doc'[i])
    BY <1>5, <2>1, <2>2, RecordSave, TypeFacts DEF FailAndSave, RecordInv
  <2> QED
    BY <2>1, <2>2, <2>3, RecordMove, FailPlace
<1>6. CASE Release(w)
  BY <1>6, <1>end DEF Release
<1> QED
  BY <1>1, <1>2, <1>3, <1>4, <1>5, <1>6 DEF Execute

\* The stages that are one step of the status machine.
LEMMA RecordStages ==
  ASSUME TypeInv, RecordInv, NEW w \in Workers
  PROVE  /\ Validate(w) => RecordInv'
         /\ GenerateMetadata(w) => RecordInv'
         /\ ChartResolved(w) => RecordInv'
         /\ Compose(w) => RecordInv'
         /\ ArtifactPublished(w) => RecordInv'
         /\ ArgoAppCreated(w) => RecordInv'
         /\ Syncing(w) => RecordInv'
         /\ Healthy(w) => RecordInv'
         /\ Degraded(w) => RecordInv'
<1>at. agg[w] \in Sound /\ agg[w] \in Record /\ Consistent(agg[w]) /\ Place(pc[w], agg[w])
  BY TypeFacts DEF RecordInv, Sound
<1>1. CASE Validate(w)
  BY <1>1, <1>at, RecordStep
     DEF Validate, At, Place, CanTransitionTo, Status, Consistent, Resumable, Published,
         Applied, Absent, Record
<1>2. CASE GenerateMetadata(w)
  <2> DEFINE d == [agg[w] EXCEPT !.meta = Base]
  <2>1. d \in Sound /\ agg[w].status = "VALIDATING" /\ pc[w] = "stage"
    BY <1>2, <1>at, SoundField DEF GenerateMetadata, At
  <2>2. d \in Record /\ d.status = "VALIDATING" /\ d.meta = Base
    BY <1>at, <2>1 DEF Sound, Record
  <2>3. Step(w, d, "METADATA_GENERATED", "stage")
    BY <1>2 DEF GenerateMetadata
  <2> HIDE DEF d
  <2> QED
    BY <2>1, <2>2, <2>3, RecordStep, NilAssumption
       DEF Place, CanTransitionTo, Status, Consistent, Resumable, Published, Applied,
           Absent, Record
<1>3. CASE ChartResolved(w)
  BY <1>3, <1>at, RecordStep
     DEF ChartResolved, At, Place, CanTransitionTo, Status, Consistent, Resumable,
         Published, Applied, Absent, Record
<1>4. CASE Compose(w)
  <2>1. CASE Step(w, agg[w], "CHART_COMPOSED", "publish")
    BY <1>4, <2>1, <1>at, RecordStep
       DEF Compose, At, Place, CanTransitionTo, Status, Consistent, Resumable,
           Published, Applied, Absent, Record
  <2>2. CASE Goto(w, "fail") /\ UNCHANGED <<store, agg>>
    <3>1. agg' = [agg EXCEPT ![w] = agg[w]] /\ \A i \in Ids : Consistent(doc'[i])
      BY <2>2 DEF store, RecordInv, TypeInv, LocalType
    <3> QED
      BY <2>2, <3>1, <1>at, RecordMove, FailPlace DEF Goto
  <2> QED
    BY <1>4, <2>1, <2>2 DEF Compose
<1>5. CASE ArtifactPublished(w)
  BY <1>5, <1>at, RecordStep
     DEF ArtifactPublished, Place, CanTransitionTo, Status, Consistent, Resumable,
         Published, Applied, Absent, Record
<1>6. CASE ArgoAppCreated(w)
  BY <1>6, <1>at, RecordStep
     DEF ArgoAppCreated, Place, CanTransitionTo, Status, Consistent, Resumable,
         Published, Applied, Absent, Record
<1>7. CASE Syncing(w)
  BY <1>7, <1>at, RecordStep
     DEF Syncing, Place, CanTransitionTo, Status, Consistent, Resumable, Published,
         Applied, Absent, Record
<1>8. CASE Healthy(w)
  BY <1>8, <1>at, RecordStep
     DEF Healthy, Place, CanTransitionTo, Status, Consistent, Resumable, Published,
         Applied, Absent, Record
<1>9. CASE Degraded(w)
  BY <1>9, <1>at, RecordStep
     DEF Degraded, Place, CanTransitionTo, Status, Consistent, Resumable, Published,
         Applied, Absent, Record
<1> QED
  BY <1>1, <1>2, <1>3, <1>4, <1>5, <1>6, <1>7, <1>8, <1>9

\* A goroutine turns to the error path, or returns, without a save.
LEMMA RecordLeave ==
  ASSUME TypeInv, RecordInv, NEW w \in Workers, NEW place \in {"fail", "release"},
         Goto(w, place), UNCHANGED <<store, agg>>
  PROVE  RecordInv'
<1>1. agg' = [agg EXCEPT ![w] = agg[w]] /\ \A i \in Ids : Consistent(doc'[i])
  BY DEF store, RecordInv, TypeInv, LocalType
<1> QED
  BY <1>1, RecordMove, FailPlace, TypeFacts DEF Goto, RecordInv

\* The stages that call the outside world.
LEMMA RecordCalls ==
  ASSUME TypeInv, RecordInv, NEW w \in Workers
  PROVE  /\ Resolve(w) => RecordInv'
         /\ Publish(w) => RecordInv'
         /\ CreateOrUpdate(w) => RecordInv'
         /\ Sync(w) => RecordInv'
         /\ Poll(w) => RecordInv'
         /\ Completed(w) => RecordInv'
<1>at. agg[w] \in Sound /\ agg[w] \in Record /\ Consistent(agg[w]) /\ Place(pc[w], agg[w])
  BY TypeFacts DEF RecordInv, Sound
<1>docs. ASSUME UNCHANGED store
         PROVE  \A i \in Ids : Consistent(doc'[i])
  BY <1>docs DEF RecordInv, store
<1>1. CASE Resolve(w)
  <2>1. CASE Goto(w, "fail") /\ UNCHANGED <<agg, archive>>
    BY <1>1, <2>1, RecordLeave DEF Resolve
  <2>2. CASE /\ \E c \in Charts :
                  agg' = [agg EXCEPT ![w].meta = [chart |-> c, req |-> agg[w].req]]
             /\ UNCHANGED pc
    <3>1. PICK c \in Charts :
                 agg' = [agg EXCEPT ![w].meta = [chart |-> c, req |-> agg[w].req]]
      BY <2>2
    <3> DEFINE v == [chart |-> c, req |-> agg[w].req]
               d == [agg[w] EXCEPT !.meta = v]
    <3>2. pc[w] = "stage" /\ agg[w].status \in {"METADATA_GENERATED", "CHART_RESOLVED"}
      BY <1>1 DEF Resolve, At
    <3>3. v \in Version /\ v # None
      BY <1>at, <3>2, NilAssumption DEF Version, Sound, Absent
    <3>4. d \in Sound /\ d.meta = v /\ d.status = agg[w].status
      BY <1>at, <3>3, SoundField DEF Record
    <3>5. agg' = [agg EXCEPT ![w] = d] /\ pc' = [pc EXCEPT ![w] = "stage"]
      BY <2>2, <3>1, <3>2 DEF TypeInv, LocalType
    <3> HIDE DEF d, v
    <3>6. Consistent(d)
      BY <3>2, <3>3, <3>4 DEF Consistent, Resumable, Published, Applied
    <3> QED
      BY <1>1, <1>docs, <3>4, <3>5, <3>6, RecordMove, FailPlace DEF Resolve
  <2> QED
    BY <1>1, <2>1, <2>2 DEF Resolve
<1>2. CASE Publish(w)
  <2> DEFINE chart == [version |-> agg[w].meta, db |-> agg[w].res]
             d == [agg[w] EXCEPT !.artifact = chart]
  <2>1. CASE Goto(w, "fail") /\ UNCHANGED agg
    BY <1>2, <2>1, RecordLeave DEF Publish
  <2>2. CASE agg' = [agg EXCEPT ![w].artifact = chart] /\ Goto(w, "published")
    <3>1. archive[w] /\ pc[w] = "publish"
      BY <1>2 DEF Publish, TypeInv, ArchiveStamped
    <3>2. chart \in Artifact /\ chart # None /\ chart.version = agg[w].meta
      BY <1>at, <3>1, TypeFacts, NilAssumption DEF Artifact, Stamped, Record
    <3>3. d \in Sound
      BY <1>at, <3>2, SoundField
    <3>4. d.artifact = chart /\ d.meta = agg[w].meta /\ d.status = "CHART_COMPOSED"
      BY <1>at, <3>1 DEF Record, Place
    <3>5. agg' = [agg EXCEPT ![w] = d] /\ pc' = [pc EXCEPT ![w] = "published"]
      BY <2>2 DEF Goto
    <3>6. agg[w].meta # None
      BY <3>1, TypeFacts, NilAssumption DEF Stamped
    <3> HIDE DEF d, chart
    <3>7. Consistent(d) /\ Place("published", d)
      BY <3>2, <3>4, <3>6 DEF Consistent, Resumable, Published, Applied, Place
    <3> QED
      BY <1>2, <1>docs, <3>3, <3>5, <3>7, RecordMove DEF Publish
  <2> QED
    BY <1>2, <2>1, <2>2 DEF Publish
<1>3. CASE CreateOrUpdate(w)
  <2> DEFINE d == [agg[w] EXCEPT !.argo = TRUE]
  <2>1. CASE Goto(w, "fail") /\ UNCHANGED agg
    BY <1>3, <2>1, RecordLeave DEF CreateOrUpdate
  <2>2. CASE agg' = [agg EXCEPT ![w].argo = TRUE] /\ Goto(w, "created")
    <3>1. agg[w].status = "ARTIFACT_PUBLISHED"
      BY <1>3 DEF CreateOrUpdate, At
    <3>2. d \in Sound
      BY <1>at, SoundField
    <3>3. /\ d.argo = TRUE /\ d.meta = agg[w].meta /\ d.artifact = agg[w].artifact
          /\ d.status = "ARTIFACT_PUBLISHED"
      BY <1>at, <3>1 DEF Record
    <3>4. agg' = [agg EXCEPT ![w] = d] /\ pc' = [pc EXCEPT ![w] = "created"]
      BY <2>2 DEF Goto
    <3> HIDE DEF d
    <3>5. Consistent(d) /\ Place("created", d)
      BY <1>at, <3>1, <3>3 DEF Consistent, Resumable, Published, Applied, Absent, Place
    <3> QED
      BY <1>3, <1>docs, <3>2, <3>4, <3>5, RecordMove DEF CreateOrUpdate
  <2> QED
    BY <1>3, <2>1, <2>2 DEF CreateOrUpdate
<1>4. CASE Sync(w)
  <2>1. CASE Goto(w, "fail")
    BY <1>4, <2>1, RecordLeave DEF Sync
  <2>2. CASE Goto(w, "sync")
    <3>1. Place("sync", agg[w])
      BY <1>4 DEF Sync, At, Place
    <3>2. agg' = [agg EXCEPT ![w] = agg[w]] /\ pc' = [pc EXCEPT ![w] = "sync"]
      BY <1>4, <2>2 DEF Sync, Goto, TypeInv, LocalType
    <3> QED
      BY <1>4, <1>at, <1>docs, <3>1, <3>2, RecordMove DEF Sync
  <2> QED
    BY <1>4, <2>1, <2>2 DEF Sync
<1>5. CASE Poll(w)
  <2>1. PICK h \in Health \ {"unset"} :
               /\ agg' = [agg EXCEPT ![w].health = h]
               /\ Goto(w, Verdict(h, late[w]))
    BY <1>5 DEF Poll
  <2> DEFINE d == [agg[w] EXCEPT !.health = h]
  <2>2. d \in Sound
    BY <1>at, SoundField
  <2>3. agg' = [agg EXCEPT ![w] = d] /\ agg'[w] = d
    BY <2>1 DEF TypeInv, LocalType
  <2>4. pc[w] = "stage" /\ agg[w].status = "SYNCING"
    BY <1>5 DEF Poll, At
  <2>5. /\ d.status = "SYNCING" /\ d.meta = agg[w].meta
        /\ d.artifact = agg[w].artifact /\ d.argo = agg[w].argo /\ d.health = h
    BY <1>at, <2>4 DEF Record
  <2> HIDE DEF d
  <2>6. Consistent(d)
    BY <1>at, <2>4, <2>5 DEF Consistent, Resumable
  <2>7. \A i \in Ids : Consistent(doc'[i])
    BY <1>5, <2>2, <2>3, <2>4, <2>6, RecordSave, TypeFacts DEF Poll, RecordInv
  <2>8. Place(Verdict(h, late[w]), d)
    BY <2>5 DEF Place, Verdict
  <2> QED
    BY <2>1, <2>2, <2>3, <2>6, <2>7, <2>8, RecordMove DEF Goto
<1>6. CASE Completed(w)
  <2> DEFINE d == Complete(agg[w])
  <2>1. pc[w] = "stage" /\ agg[w].status = "HEALTHY"
    BY <1>6 DEF Completed, At
  <2>2. d \in Sound /\ Consistent(d)
    BY <1>at, <2>1, SoundEnd, ConsistentComplete
  <2>3. agg' = [agg EXCEPT ![w] = d] /\ agg'[w] = d
    BY <1>6 DEF Completed, TypeInv, LocalType
  <2>4. PICK place \in {"release", "fail"}, ok \in BOOLEAN :
               Save(job[w], agg'[w], ok) /\ Goto(w, place)
    BY <1>6 DEF Completed
  <2> HIDE DEF d
  <2>5. \A i \in Ids : Consistent(doc'[i])
    BY <2>1, <2>2, <2>3, <2>4, RecordSave, TypeFacts DEF RecordInv
  <2> QED
    BY <2>2, <2>3, <2>4, <2>5, RecordMove, FailPlace DEF Goto
<1> QED
  BY <1>1, <1>2, <1>3, <1>4, <1>5, <1>6

LEMMA RecordNext == TypeInv /\ RecordInv /\ [Next]_vars => RecordInv'
<1> SUFFICES ASSUME TypeInv, RecordInv, [Next]_vars PROVE RecordInv'
  OBVIOUS
<1>1. ASSUME NEW w \in Workers, NEW i \in Ids, Trigger(w, i),
             \A j \in Ids : Consistent(doc'[j])
      PROVE  RecordInv'
  <2>1. pc' = [pc EXCEPT ![w] = "acquire"] /\ agg' = [agg EXCEPT ![w] = agg[w]]
    BY <1>1 DEF Trigger, Goto, TypeInv, LocalType
  <2> QED
    BY <1>1, <2>1, RecordMove, FailPlace, TypeFacts DEF RecordInv
<1>2. ASSUME NEW i \in Ids, NEW db \in BOOLEAN, NEW ok \in BOOLEAN, creates[i] < MaxCreates,
             Save(i, New([n |-> creates[i] + 1, db |-> db]), ok)
      PROVE  \A j \in Ids : Consistent(doc'[j])
  <2>1. [n |-> creates[i] + 1, db |-> db] \in Request
    BY <1>2, NilAssumption DEF TypeInv, Request
  <2> QED
    BY <1>2, <2>1, ConsistentStart, SoundStart, RecordSave DEF RecordInv
<1>3. ASSUME NEW w \in Workers, NEW i \in Ids, NEW db \in BOOLEAN, Create(w, i, db)
      PROVE  RecordInv'
  BY <1>1, <1>2, <1>3 DEF Create
<1>4. ASSUME NEW i \in Ids, NEW db \in BOOLEAN, CreateRefused(i, db)
      PROVE  RecordInv'
  BY <1>2, <1>4 DEF CreateRefused, RecordInv, local
<1>5. ASSUME NEW w \in Workers, NEW i \in Ids, Redeploy(w, i)
      PROVE  RecordInv'
  BY <1>1, <1>5 DEF Redeploy, RecordInv, store
<1>6. ASSUME NEW w \in Workers, Execute(w)
      PROVE  RecordInv'
  BY <1>6, RecordExecute
<1>7. ASSUME NEW w \in Workers, Run(w)
      PROVE  RecordInv'
  <2>1. CASE PollFails(w)
    BY <2>1, RecordLeave DEF PollFails
  <2>2. CASE NothingToDo(w)
    BY <2>2, RecordLeave DEF NothingToDo
  <2> QED
    BY <1>7, <2>1, <2>2, RecordStages, RecordCalls DEF Run
<1>8. ASSUME NEW w \in Workers, Deadline(w)
      PROVE  RecordInv'
  BY <1>8 DEF Deadline, RecordInv, store
<1>9. ASSUME NEW r \in Replicas, Crash(r)
      PROVE  RecordInv'
  BY <1>9, ConsistentStart, FailPlace DEF Crash, RecordInv
<1>10. CASE UNCHANGED vars
  BY <1>10 DEF vars, RecordInv
<1> QED
  BY <1>3, <1>4, <1>5, <1>6, <1>7, <1>8, <1>9, <1>10 DEF Next

LEMMA RecordInit == Init => RecordInv
  BY ConsistentStart, FailPlace DEF Init, RecordInv

THEOREM RecordInvariant == Spec => []RecordInv
<1> QED
  BY RecordInit, RecordNext, TypeInvariant, PTL DEF Spec

\* A document can be driven on from the status it is in, whatever was lost
\* and whichever saves were merged: the guards of run against a nil metadata,
\* artifact or Argo CD application never stop a deployment.
THEOREM AlwaysResumable == Spec => []StoredIsResumable
<1>1. RecordInv => StoredIsResumable
  BY DEF RecordInv, StoredIsResumable, Consistent
<1> QED
  BY <1>1, RecordInvariant, PTL

\* No deployment is stored as HEALTHY or COMPLETED without the Healthy answer
\* of Argo CD, a poll that timed out included.
THEOREM CompletionIsHealthy == Spec => []CompletedWasHealthy
<1>1. RecordInv => CompletedWasHealthy
  BY DEF RecordInv, CompletedWasHealthy, Consistent
<1> QED
  BY <1>1, RecordInvariant, PTL

---------------------------------------------------------------------------
(***************************************************************************)
(* What only faults break.  Until a process crashes or a call to the       *)
(* database fails, a deployment half way is driven, and an error belongs   *)
(* to a deployment that failed.  The goroutine that saved a document last  *)
(* is the witness: it saves the document again before it releases it,      *)
(* because at every place from which it turns to the error path the        *)
(* deployment can still be failed.  So it does not matter that another     *)
(* driver may have gone from the same record in the meantime.              *)
(***************************************************************************)

Unfinished(d) == d.status \notin Terminal \cup {Absent, "RECEIVED"}

\* A goroutine that saves its deployment again before it releases it.
Committed(w) ==
  \/ pc[w] = "stage"
     /\ agg[w].status \notin Terminal \cup {Absent, "CHART_COMPOSED", "DEGRADED"}
  \/ pc[w] \in Held \ {"stage"}

\* An error message belongs to a deployment that failed.
Blamed(d) == d.err => d.status = "FAILED"

FaultlessInv ==
  /\ \A i \in Ids : Blamed(doc[i])
  /\ \A w \in Workers :
       Blamed(agg[w]) /\ (pc[w] = "fail" => CanTransitionTo(agg[w].status, "FAILED"))
  /\ \A i \in Ids : Unfinished(doc[i]) => \E w \in Workers : Committed(w) /\ job[w] = i

LEMMA FaultsGrow ==
  ASSUME TypeInv, [Next]_vars, faults' = 0
  PROVE  faults = 0
<1>nat. faults \in Nat
  BY FaultsAssumption DEF TypeInv, StoreType
<1>save. ASSUME NEW i, NEW d, NEW ok, Save(i, d, ok)
         PROVE  faults = 0
  BY <1>nat, <1>save DEF Save
<1>step. ASSUME NEW w, NEW d, NEW next, NEW after, Step(w, d, next, after)
         PROVE  faults = 0
  BY <1>save, <1>step DEF Step, store
<1>1. ASSUME NEW w \in Workers, NEW i \in Ids, NEW db \in BOOLEAN,
             Create(w, i, db)
      PROVE  faults = 0
  BY <1>1, <1>save DEF Create
<1>2. ASSUME NEW w \in Workers, Execute(w)
      PROVE  faults = 0
  <2>1. CASE FailAndSave(w)
    BY <2>1, <1>save DEF FailAndSave
  <2>2. CASE Acquire(w) \/ Skip(w) \/ Load(w) \/ LoadFails(w) \/ Release(w)
    BY <2>2, <1>nat DEF Acquire, Skip, Load, LoadFails, Release, store
  <2> QED
    BY <1>2, <2>1, <2>2 DEF Execute
<1>3. ASSUME NEW w \in Workers, Run(w)
      PROVE  faults = 0
  <2>1. CASE Poll(w) \/ Completed(w)
    BY <2>1, <1>save DEF Poll, Completed
  <2>2. CASE \/ Validate(w) \/ GenerateMetadata(w) \/ ChartResolved(w) \/ Compose(w)
             \/ ArtifactPublished(w) \/ ArgoAppCreated(w) \/ Syncing(w)
             \/ Healthy(w) \/ Degraded(w)
    BY <2>2, <1>step
       DEF Validate, GenerateMetadata, ChartResolved, Compose, ArtifactPublished,
           ArgoAppCreated, Syncing, Healthy, Degraded, store
  <2>3. CASE \/ Resolve(w) \/ Publish(w) \/ CreateOrUpdate(w) \/ Sync(w)
             \/ PollFails(w) \/ NothingToDo(w)
    BY <2>3 DEF Resolve, Publish, CreateOrUpdate, Sync, PollFails, NothingToDo, store
  <2> QED
    BY <1>3, <2>1, <2>2, <2>3 DEF Run
<1>4. ASSUME \/ \E w \in Workers, i \in Ids : Redeploy(w, i)
             \/ \E w \in Workers : Deadline(w)
             \/ UNCHANGED vars
      PROVE  faults = 0
  BY <1>4 DEF Redeploy, Deadline, store, vars
<1>5. ASSUME NEW r \in Replicas, Crash(r)
      PROVE  faults = 0
  BY <1>5, <1>nat DEF Crash
<1>6. \/ \E w \in Workers, i \in Ids, db \in BOOLEAN : Create(w, i, db)
      \/ \E i \in Ids, db \in BOOLEAN : CreateRefused(i, db)
      \/ \E w \in Workers, i \in Ids : Redeploy(w, i)
      \/ \E w \in Workers : Execute(w) \/ Run(w) \/ Deadline(w)
      \/ \E r \in Replicas : Crash(r)
      \/ UNCHANGED vars
  BY DEF Next
<1>7. CASE \E i \in Ids, db \in BOOLEAN : CreateRefused(i, db)
  <2>1. PICK i \in Ids, db \in BOOLEAN : CreateRefused(i, db)
    BY <1>7
  <2> QED
    BY <1>save, <2>1 DEF CreateRefused
<1> QED
  BY <1>1, <1>2, <1>3, <1>4, <1>5, <1>6, <1>7

\* After a step of w, on the deployment i that it drives: if w saved it half way,
\* or had yet to save it, w has yet to save it.
FaultlessAfter(w, i) ==
  /\ Blamed(doc'[i]) /\ Blamed(agg'[w])
  /\ pc'[w] = "fail" => CanTransitionTo(agg'[w].status, "FAILED")
  /\ Unfinished(doc'[i]) /\ (doc'[i] = doc[i] => Committed(w)) =>
       Committed(w)' /\ job'[w] = i

LEMMA FaultlessFootprint ==
  ASSUME TypeInv, FaultlessInv, NEW w \in Workers, Footprint(w), job[w] \in Ids,
         FaultlessAfter(w, job[w])
  PROVE  FaultlessInv'
<1>1. \A i \in Ids : Blamed(doc'[i])
  BY DEF FaultlessInv, FaultlessAfter, Footprint
<1>2. \A v \in Workers :
        Blamed(agg'[v]) /\ (pc'[v] = "fail" => CanTransitionTo(agg'[v].status, "FAILED"))
  BY DEF FaultlessInv, FaultlessAfter, Footprint
<1>3. \A v \in Workers \ {w} : Committed(v) => Committed(v)' /\ job'[v] = job[v]
  BY DEF Footprint, Committed
<1>4. ASSUME NEW i \in Ids, Unfinished(doc'[i])
      PROVE  \E v \in Workers : Committed(v)' /\ job'[v] = i
  <2>1. CASE doc'[i] = doc[i]
    <3>1. PICK v \in Workers : Committed(v) /\ job[v] = i
      BY <1>4, <2>1 DEF FaultlessInv
    <3>2. CASE v = w
      BY <1>4, <2>1, <3>1, <3>2 DEF FaultlessAfter
    <3>3. CASE v # w
      BY <1>3, <3>1, <3>3
    <3> QED
      BY <3>2, <3>3
  <2>2. CASE doc'[i] # doc[i]
    <3>1. i = job[w]
      BY <2>2 DEF Footprint
    <3> QED
      BY <1>4, <2>2, <3>1 DEF FaultlessAfter
  <2> QED
    BY <2>1, <2>2
<1> QED
  BY <1>1, <1>2, <1>4 DEF FaultlessInv

\* What a goroutine finds before its step.
LEMMA FaultlessBefore ==
  ASSUME TypeInv, RecordInv, FaultlessInv, NEW w \in Workers, pc[w] # "idle"
  PROVE  /\ job[w] \in Ids /\ doc[job[w]] \in Sound /\ doc[job[w]] \in Record
         /\ Blamed(doc[job[w]]) /\ Consistent(doc[job[w]])
         /\ agg[w] \in Sound /\ agg[w] \in Record /\ Blamed(agg[w])
         /\ Place(pc[w], agg[w])
         /\ pc[w] = "fail" => CanTransitionTo(agg[w].status, "FAILED")
  BY TypeFacts DEF TypeInv, StoreType, Sound, RecordInv, FaultlessInv

\* A save without a fault is applied and answered.
LEMMA FaultlessSave ==
  ASSUME TypeInv, faults' = 0, NEW i \in Ids, NEW d \in Sound, NEW ok, Save(i, d, ok)
  PROVE  /\ ok
         /\ doc'[i] = Stored(doc[i], d)
         /\ doc'[i].status = d.status /\ doc'[i].err = d.err
<1>1. ok /\ doc' = [doc EXCEPT ![i] = Stored(doc[i], d)]
  BY FaultsAssumption DEF Save, TypeInv, StoreType
<1>2. doc'[i] = Stored(doc[i], d)
  BY <1>1 DEF TypeInv, StoreType
<1>3. Stored(doc[i], d).status = d.status /\ Stored(doc[i], d).err = d.err
  BY DEF Stored, Sound, Record
<1> QED
  BY <1>1, <1>2, <1>3

\* A step of the status machine leads to a place from which w saves again.
LEMMA FaultlessStep ==
  ASSUME TypeInv, RecordInv, FaultlessInv, faults' = 0,
         NEW w \in Workers, pc[w] # "idle", UNCHANGED job,
         NEW d \in Sound, d.err = agg[w].err, d.status = agg[w].status,
         NEW next \in Status, NEW after, Step(w, d, next, after),
         CanTransitionTo(d.status, next),
         \/ after = "stage"
            /\ next \notin Terminal \cup {Absent, "CHART_COMPOSED", "DEGRADED"}
         \/ after \in Held \ {"stage", "fail"}
         \/ after = "fail" /\ CanTransitionTo(next, "FAILED")
  PROVE  FaultlessAfter(w, job[w])
<1> DEFINE moved == [d EXCEPT !.status = next]
<1>1. TransitionTo(d, next) = moved
  BY DEF TransitionTo
<1>2. moved \in Sound /\ moved.status = next /\ moved.err = d.err
  BY <1>1, SoundTransition DEF Sound, Record
<1>3. agg'[w] = moved
  BY <1>1 DEF Step, TypeInv, LocalType
<1>4. PICK ok \in BOOLEAN :
             Save(job[w], moved, ok) /\ Goto(w, IF ok THEN after ELSE "fail")
  BY <1>1 DEF Step
<1> HIDE DEF moved
<1>5. job[w] \in Ids /\ Blamed(agg[w])
  BY FaultlessBefore
<1>6. ok /\ doc'[job[w]].status = next /\ doc'[job[w]].err = d.err
  BY <1>2, <1>4, <1>5, FaultlessSave
<1>7. pc'[w] = after
  BY <1>4, <1>6 DEF Goto, TypeInv, LocalType
<1>8. ~d.err
  BY <1>5 DEF Blamed, CanTransitionTo
<1>9. Committed(w)'
  BY <1>2, <1>3, <1>7 DEF Committed, Held
<1> QED
  BY <1>2, <1>3, <1>6, <1>7, <1>8, <1>9 DEF FaultlessAfter, Blamed

\* A goroutine that leaves the document alone and, if it has yet to save it,
\* comes to a place where it still has.
LEMMA FaultlessMove ==
  ASSUME TypeInv, RecordInv, FaultlessInv, NEW w \in Workers, pc[w] # "idle",
         UNCHANGED <<doc, job>>,
         agg'[w].status = agg[w].status, agg'[w].err = agg[w].err,
         Committed(w) => Committed(w)',
         pc'[w] = "fail" => CanTransitionTo(agg[w].status, "FAILED")
  PROVE  FaultlessAfter(w, job[w])
  BY FaultlessBefore DEF FaultlessAfter, Blamed

LEMMA FaultlessExecute ==
  ASSUME TypeInv, RecordInv, FaultlessInv, faults' = 0, NEW w \in Workers, Execute(w)
  PROVE  FaultlessInv'
<1> DEFINE i == job[w]
<1>w. pc[w] # "idle"
  BY DEF Execute, Acquire, Skip, Load, LoadFails, FailAndSave, Release
<1>at. /\ i \in Ids /\ doc[i] \in Sound /\ doc[i] \in Record
       /\ Blamed(doc[i]) /\ Consistent(doc[i])
       /\ agg[w] \in Sound /\ agg[w] \in Record /\ Blamed(agg[w])
       /\ pc[w] = "fail" => CanTransitionTo(agg[w].status, "FAILED")
  BY <1>w, FaultlessBefore
<1>1. CASE Acquire(w)
  <2>1. /\ pc[w] = "acquire" /\ pc'[w] = "load" /\ UNCHANGED <<doc, agg>>
    BY <1>1 DEF Acquire, Goto, store, TypeInv, LocalType
  <2>2. ~Committed(w)
    BY <2>1 DEF Committed, Held
  <2>3. FaultlessAfter(w, i)
    BY <1>at, <2>1, <2>2 DEF FaultlessAfter
  <2> QED
    BY <1>at, <2>3, ExecuteFootprint, FaultlessFootprint
<1>2. CASE Skip(w) \/ Release(w)
  <2>1. /\ pc[w] \in {"acquire", "release"} /\ pc'[w] = "idle" /\ UNCHANGED doc
        /\ agg'[w] = NoRecord
    BY <1>2 DEF Skip, Release, End, Goto, store, TypeInv, LocalType
  <2>2. ~Committed(w)
    BY <2>1 DEF Committed, Held
  <2>3. FaultlessAfter(w, i)
    BY <1>at, <2>1, <2>2 DEF FaultlessAfter, Blamed, NoRecord
  <2> QED
    BY <1>at, <2>3, ExecuteFootprint, FaultlessFootprint
<1>3. CASE Load(w)
  <2>1. /\ pc[w] = "load" /\ UNCHANGED doc /\ agg'[w] = doc[i]
        /\ pc'[w] = IF doc[i].status \in Terminal \cup {Absent} THEN "release"
                    ELSE IF /\ doc[i].status \notin {"RECEIVED", "VALIDATING"}
                            /\ doc[i].meta = None
                         THEN "fail" ELSE "stage"
    BY <1>3 DEF Load, Goto, store, TypeInv, LocalType
  <2>2. ~Committed(w)
    BY <2>1 DEF Committed, Held
  <2>3. pc'[w] # "fail"
    BY <1>at, <2>1 DEF Consistent, Resumable, Terminal, Absent
  <2>4. FaultlessAfter(w, i)
    BY <1>at, <2>1, <2>2, <2>3 DEF FaultlessAfter
  <2> QED
    BY <1>at, <2>4, ExecuteFootprint, FaultlessFootprint
<1>4. CASE LoadFails(w)
  BY <1>4, FaultsAssumption DEF LoadFails, TypeInv, StoreType
<1>5. CASE FailAndSave(w)
  <2> DEFINE d == Fail(agg[w])
  <2>1. /\ pc[w] = "fail" /\ agg'[w] = d /\ pc'[w] = "release"
    BY <1>5 DEF FailAndSave, Goto, TypeInv, LocalType
  <2>2. d \in Sound /\ d.status = "FAILED"
    BY <1>at, <2>1, SoundEnd DEF Fail, TransitionTo, Record
  <2> HIDE DEF d
  <2>3. doc'[i].status = "FAILED"
    BY <1>5, <1>at, <2>1, <2>2, FaultlessSave DEF FailAndSave
  <2>4. FaultlessAfter(w, i)
    BY <2>1, <2>2, <2>3 DEF FaultlessAfter, Blamed, Unfinished, Terminal
  <2> QED
    BY <1>at, <2>4, ExecuteFootprint, FaultlessFootprint
<1> QED
  BY <1>1, <1>2, <1>3, <1>4, <1>5 DEF Execute

\* The stages that are one step of the status machine.
LEMMA FaultlessStages ==
  ASSUME TypeInv, RecordInv, FaultlessInv, faults' = 0, NEW w \in Workers
  PROVE  /\ Validate(w) => FaultlessAfter(w, job[w])
         /\ GenerateMetadata(w) => FaultlessAfter(w, job[w])
         /\ ChartResolved(w) => FaultlessAfter(w, job[w])
         /\ Compose(w) => FaultlessAfter(w, job[w])
         /\ ArtifactPublished(w) => FaultlessAfter(w, job[w])
         /\ ArgoAppCreated(w) => FaultlessAfter(w, job[w])
         /\ Syncing(w) => FaultlessAfter(w, job[w])
         /\ Healthy(w) => FaultlessAfter(w, job[w])
         /\ Degraded(w) => FaultlessAfter(w, job[w])
<1>at. agg[w] \in Sound /\ agg[w] \in Record /\ Place(pc[w], agg[w])
  BY TypeFacts DEF RecordInv, Sound
<1>step. ASSUME pc[w] # "idle", UNCHANGED job,
                NEW next \in Status, NEW after, Step(w, agg[w], next, after),
                CanTransitionTo(agg[w].status, next),
                \/ after = "stage"
                   /\ next \notin Terminal \cup {Absent, "CHART_COMPOSED", "DEGRADED"}
                \/ after \in Held \ {"stage", "fail"}
                \/ after = "fail" /\ CanTransitionTo(next, "FAILED")
         PROVE  FaultlessAfter(w, job[w])
  BY <1>at, <1>step, FaultlessStep
<1>1. CASE Validate(w)
  BY <1>1, <1>step DEF Validate, At, CanTransitionTo, Status, Terminal, Absent
<1>2. CASE GenerateMetadata(w)
  <2> DEFINE d == [agg[w] EXCEPT !.meta = Base]
  <2>1. d \in Sound /\ d.status = agg[w].status /\ d.err = agg[w].err
    BY <1>at, SoundField DEF Record
  <2>2. /\ pc[w] = "stage" /\ agg[w].status = "VALIDATING" /\ UNCHANGED job
        /\ Step(w, d, "METADATA_GENERATED", "stage")
    BY <1>2 DEF GenerateMetadata, At
  <2> HIDE DEF d
  <2> QED
    BY <2>1, <2>2, FaultlessStep DEF CanTransitionTo, Status, Terminal, Absent
<1>3. CASE ChartResolved(w)
  BY <1>3, <1>step DEF ChartResolved, At, CanTransitionTo, Status, Terminal, Absent
<1>4. CASE Compose(w)
  <2>1. pc[w] = "stage" /\ agg[w].status = "CHART_RESOLVED" /\ UNCHANGED job
    BY <1>4 DEF Compose, At
  <2>2. CASE Step(w, agg[w], "CHART_COMPOSED", "publish")
    BY <2>1, <2>2, <1>step DEF CanTransitionTo, Status, Held
  <2>3. CASE Goto(w, "fail") /\ UNCHANGED <<store, agg>>
    <3>1. pc'[w] = "fail" /\ UNCHANGED <<doc, agg>> /\ Committed(w)'
      BY <2>3 DEF Goto, store, Committed, Held, TypeInv, LocalType
    <3> QED
      BY <2>1, <3>1, FaultlessMove DEF CanTransitionTo
  <2> QED
    BY <1>4, <2>2, <2>3 DEF Compose
<1>5. CASE ArtifactPublished(w)
  BY <1>5, <1>at, <1>step
     DEF ArtifactPublished, Place, CanTransitionTo, Status, Terminal, Absent
<1>6. CASE ArgoAppCreated(w)
  BY <1>6, <1>at, <1>step
     DEF ArgoAppCreated, Place, CanTransitionTo, Status, Terminal, Absent
<1>7. CASE Syncing(w)
  BY <1>7, <1>at, <1>step DEF Syncing, Place, CanTransitionTo, Status, Terminal, Absent
<1>8. CASE Healthy(w)
  BY <1>8, <1>at, <1>step DEF Healthy, Place, CanTransitionTo, Status, Terminal, Absent
<1>9. CASE Degraded(w)
  BY <1>9, <1>at, <1>step DEF Degraded, Place, CanTransitionTo, Status
<1> QED
  BY <1>1, <1>2, <1>3, <1>4, <1>5, <1>6, <1>7, <1>8, <1>9

\* The stages that call the outside world: from each of them the deployment can
\* be failed, and the one that completes it is its last save.
LEMMA FaultlessCalls ==
  ASSUME TypeInv, RecordInv, FaultlessInv, faults' = 0, NEW w \in Workers
  PROVE  /\ Resolve(w) => FaultlessAfter(w, job[w])
         /\ Publish(w) => FaultlessAfter(w, job[w])
         /\ CreateOrUpdate(w) => FaultlessAfter(w, job[w])
         /\ Sync(w) => FaultlessAfter(w, job[w])
         /\ Poll(w) => FaultlessAfter(w, job[w])
         /\ PollFails(w) => FaultlessAfter(w, job[w])
         /\ Completed(w) => FaultlessAfter(w, job[w])
         /\ NothingToDo(w) => FaultlessAfter(w, job[w])
<1>at. agg[w] \in Sound /\ agg[w] \in Record /\ Place(pc[w], agg[w]) /\ Blamed(agg[w])
  BY TypeFacts DEF RecordInv, FaultlessInv, Sound
<1>local. pc \in [Workers -> PC] /\ agg \in [Workers -> Sound]
  BY DEF TypeInv, LocalType
\* A call that leaves the aggregate's status and message as they are.
<1>call. ASSUME pc[w] \in Held, UNCHANGED <<doc, job>>,
                agg'[w].status = agg[w].status, agg'[w].err = agg[w].err,
                \/ pc'[w] \in Held \ {"stage", "fail"}
                \/ pc'[w] = "fail" /\ CanTransitionTo(agg[w].status, "FAILED")
                \/ pc'[w] = "stage" /\ pc[w] = "stage"
         PROVE  FaultlessAfter(w, job[w])
  <2>1. Committed(w) => Committed(w)'
    BY <1>call DEF Committed, Held
  <2>2. pc'[w] = "fail" => CanTransitionTo(agg[w].status, "FAILED")
    BY <1>call DEF Held
  <2> QED
    BY <1>call, <2>1, <2>2, FaultlessMove DEF Held
<1>1. CASE Resolve(w)
  <2>1. /\ pc[w] = "stage" /\ agg[w].status \in {"METADATA_GENERATED", "CHART_RESOLVED"}
        /\ UNCHANGED <<doc, job>>
    BY <1>1 DEF Resolve, At, store
  <2>2. pc'[w] \in {"stage", "fail"}
    BY <1>1, <1>local, <2>1 DEF Resolve, Goto
  <2>3. agg'[w].status = agg[w].status /\ agg'[w].err = agg[w].err
    BY <1>1, <1>at, <1>local DEF Resolve, Record
  <2> QED
    BY <1>call, <2>1, <2>2, <2>3 DEF CanTransitionTo, Held
<1>2. CASE Publish(w)
  <2>1. pc[w] = "publish" /\ agg[w].status = "CHART_COMPOSED" /\ UNCHANGED <<doc, job>>
    BY <1>2, <1>at DEF Publish, Place, store
  <2>2. pc'[w] \in {"published", "fail"}
    BY <1>2, <1>local DEF Publish, Goto
  <2>3. agg'[w].status = agg[w].status /\ agg'[w].err = agg[w].err
    BY <1>2, <1>at, <1>local DEF Publish, Record
  <2> QED
    BY <1>call, <2>1, <2>2, <2>3 DEF CanTransitionTo, Held
<1>3. CASE CreateOrUpdate(w)
  <2>1. pc[w] = "stage" /\ agg[w].status = "ARTIFACT_PUBLISHED" /\ UNCHANGED <<doc, job>>
    BY <1>3 DEF CreateOrUpdate, At, store
  <2>2. pc'[w] \in {"created", "fail"}
    BY <1>3, <1>local DEF CreateOrUpdate, Goto
  <2>3. agg'[w].status = agg[w].status /\ agg'[w].err = agg[w].err
    BY <1>3, <1>at, <1>local DEF CreateOrUpdate, Record
  <2> QED
    BY <1>call, <2>1, <2>2, <2>3 DEF CanTransitionTo, Held
<1>4. CASE Sync(w)
  <2>1. /\ pc[w] = "stage" /\ agg[w].status = "ARGO_APP_CREATED"
        /\ UNCHANGED <<doc, job, agg>>
    BY <1>4 DEF Sync, At, store
  <2>2. pc'[w] \in {"sync", "fail"}
    BY <1>4, <1>local DEF Sync, Goto
  <2> QED
    BY <1>call, <2>1, <2>2 DEF CanTransitionTo, Held
<1>5. CASE Poll(w)
  <2>1. PICK h \in Health \ {"unset"} :
               /\ agg' = [agg EXCEPT ![w].health = h]
               /\ Goto(w, Verdict(h, late[w]))
    BY <1>5 DEF Poll
  <2> DEFINE d == [agg[w] EXCEPT !.health = h]
  <2>2. d \in Sound /\ agg'[w] = d
    BY <1>at, <1>local, <2>1, SoundField
  <2>3. pc[w] = "stage" /\ agg[w].status = "SYNCING" /\ UNCHANGED job
    BY <1>5 DEF Poll, At
  <2>4. d.status = "SYNCING" /\ ~d.err
    BY <1>at, <2>3 DEF Record, Blamed
  <2> HIDE DEF d
  <2>5. doc'[job[w]].status = "SYNCING" /\ ~doc'[job[w]].err
    BY <1>5, <2>2, <2>3, <2>4, TypeFacts, FaultlessSave DEF Poll
  <2>6. pc'[w] \in {"healthy", "degraded", "stage"}
    BY <1>local, <2>1 DEF Goto, Verdict
  <2>7. Committed(w)'
    BY <2>2, <2>4, <2>6 DEF Committed, Held, Terminal, Absent
  <2> QED
    BY <2>2, <2>3, <2>4, <2>5, <2>6, <2>7 DEF FaultlessAfter, Blamed
<1>6. CASE PollFails(w)
  <2>1. /\ pc[w] = "stage" /\ agg[w].status = "SYNCING" /\ UNCHANGED <<doc, job, agg>>
        /\ pc'[w] = "fail"
    BY <1>6, <1>local DEF PollFails, At, Goto, store
  <2> QED
    BY <1>call, <2>1 DEF CanTransitionTo, Held
<1>7. CASE Completed(w)
  <2> DEFINE d == Complete(agg[w])
  <2>1. pc[w] = "stage" /\ agg[w].status = "HEALTHY" /\ agg'[w] = d
    BY <1>7, <1>local DEF Completed, At
  <2>2. d \in Sound /\ d.status = "COMPLETED" /\ ~d.err
    BY <1>at, <2>1, SoundEnd DEF Complete, TransitionTo, CanTransitionTo, Record, Blamed
  <2> HIDE DEF d
  <2>3. PICK ok \in BOOLEAN :
               Save(job[w], d, ok) /\ Goto(w, IF ok THEN "release" ELSE "fail")
    BY <1>7, <2>1 DEF Completed
  <2>4. ok /\ doc'[job[w]].status = "COMPLETED" /\ ~doc'[job[w]].err
    BY <2>1, <2>2, <2>3, TypeFacts, FaultlessSave
  <2>5. pc'[w] = "release"
    BY <1>local, <2>3, <2>4 DEF Goto
  <2> QED
    BY <2>1, <2>2, <2>4, <2>5 DEF FaultlessAfter, Blamed, Unfinished, Terminal
<1>8. CASE NothingToDo(w)
  <2>1. /\ pc[w] = "stage" /\ agg[w].status \in {"CHART_COMPOSED", "DEGRADED"}
        /\ UNCHANGED <<doc, job, agg>> /\ pc'[w] = "release"
    BY <1>8, <1>local DEF NothingToDo, At, Goto, store
  <2>2. ~Committed(w)
    BY <2>1 DEF Committed, Held
  <2> QED
    BY <2>1, <2>2, FaultlessMove
<1> QED
  BY <1>1, <1>2, <1>3, <1>4, <1>5, <1>6, <1>7, <1>8

LEMMA FaultlessNext ==
  ASSUME TypeInv, RecordInv, FaultlessInv, faults' = 0, [Next]_vars
  PROVE  FaultlessInv'
\* What no goroutine drives any differently.
<1>aside. ASSUME \A i \in Ids : doc'[i] = doc[i] \/ (Blamed(doc'[i]) /\ ~Unfinished(doc'[i])),
                 agg' = agg,
                 \A v \in Workers :
                   \/ pc'[v] = pc[v] /\ job'[v] = job[v]
                   \/ pc[v] = "idle" /\ pc'[v] = "acquire"
          PROVE  FaultlessInv'
  <2>1. \A v \in Workers : Committed(v) => Committed(v)' /\ job'[v] = job[v]
    BY <1>aside DEF Committed, Held
  <2>2. \A v \in Workers : pc'[v] = "fail" => pc[v] = "fail"
    BY <1>aside
  <2> QED
    BY <1>aside, <2>1, <2>2 DEF FaultlessInv
<1>1. ASSUME NEW w \in Workers, NEW i \in Ids, Trigger(w, i)
      PROVE  /\ agg' = agg
             /\ \A v \in Workers :
                  \/ pc'[v] = pc[v] /\ job'[v] = job[v]
                  \/ pc[v] = "idle" /\ pc'[v] = "acquire"
  BY <1>1 DEF Trigger, Goto, TypeInv, LocalType
<1>2. ASSUME NEW i \in Ids, NEW db \in BOOLEAN, NEW ok \in BOOLEAN, creates[i] < MaxCreates,
             Save(i, New([n |-> creates[i] + 1, db |-> db]), ok)
      PROVE  \A j \in Ids : doc'[j] = doc[j] \/ (Blamed(doc'[j]) /\ ~Unfinished(doc'[j]))
  <2> DEFINE d == New([n |-> creates[i] + 1, db |-> db])
  <2>1. d \in Sound
    BY <1>2, SoundStart, NilAssumption DEF TypeInv, Request
  <2>2. d.status = "RECEIVED" /\ ~d.err
    BY DEF New, NoRecord
  <2> HIDE DEF d
  <2>3. doc'[i].status = "RECEIVED" /\ ~doc'[i].err
    BY <1>2, <2>1, <2>2, FaultlessSave DEF d
  <2>4. \A j \in Ids \ {i} : doc'[j] = doc[j]
    BY <1>2, SaveFootprint
  <2>5. Blamed(doc'[i]) /\ ~Unfinished(doc'[i])
    BY <2>3 DEF Blamed, Unfinished
  <2> QED
    BY <2>4, <2>5
<1>3. ASSUME NEW w \in Workers, NEW i \in Ids, NEW db \in BOOLEAN, Create(w, i, db)
      PROVE  FaultlessInv'
  BY <1>1, <1>2, <1>3, <1>aside DEF Create
<1>4. ASSUME NEW i \in Ids, NEW db \in BOOLEAN, CreateRefused(i, db)
      PROVE  FaultlessInv'
  <2>1. \A j \in Ids : doc'[j] = doc[j] \/ (Blamed(doc'[j]) /\ ~Unfinished(doc'[j]))
    BY <1>2, <1>4 DEF CreateRefused
  <2>2. pc' = pc /\ job' = job /\ agg' = agg
    BY <1>4 DEF CreateRefused, local
  <2> QED
    BY <1>aside, <2>1, <2>2
<1>5. ASSUME NEW w \in Workers, NEW i \in Ids, Redeploy(w, i)
      PROVE  FaultlessInv'
  BY <1>1, <1>5, <1>aside DEF Redeploy, store
<1>6. ASSUME NEW w \in Workers, Execute(w)
      PROVE  FaultlessInv'
  BY <1>6, FaultlessExecute
<1>7. ASSUME NEW w \in Workers, Run(w)
      PROVE  FaultlessInv'
  <2>1. FaultlessAfter(w, job[w])
    BY <1>7, FaultlessStages, FaultlessCalls DEF Run
  <2>2. pc[w] # "idle"
    BY <1>7 DEF Run, Validate, GenerateMetadata, Resolve, ChartResolved, Compose, Publish,
                ArtifactPublished, CreateOrUpdate, ArgoAppCreated, Sync, Syncing, Poll,
                PollFails, Healthy, Degraded, Completed, NothingToDo, At
  <2>3. job[w] \in Ids
    BY <2>2, TypeFacts
  <2>4. Footprint(w)
    BY <1>7, RunFootprint
  <2> QED
    BY <2>1, <2>3, <2>4, FaultlessFootprint
<1>8. ASSUME NEW w \in Workers, Deadline(w)
      PROVE  FaultlessInv'
  <2>1. doc' = doc /\ pc' = pc /\ job' = job /\ agg' = agg
    BY <1>8 DEF Deadline, store
  <2> QED
    BY <1>aside, <2>1
<1>9. ASSUME NEW r \in Replicas, Crash(r)
      PROVE  FaultlessInv'
  BY <1>9, FaultsAssumption DEF Crash, TypeInv, StoreType
<1>10. CASE UNCHANGED vars
  <2>1. doc' = doc /\ pc' = pc /\ job' = job /\ agg' = agg
    BY <1>10 DEF vars
  <2> QED
    BY <1>aside, <2>1
<1> QED
  BY <1>3, <1>4, <1>5, <1>6, <1>7, <1>8, <1>9, <1>10 DEF Next

LEMMA FaultlessInit == Init => FaultlessInv
  BY DEF Init, FaultlessInv, Blamed, Unfinished, NoRecord, Absent

LEMMA FaultlessInvariant == Spec => [](faults = 0 => FaultlessInv)
<1>1. TypeInv /\ RecordInv /\ (faults = 0 => FaultlessInv) /\ [Next]_vars
        => (faults = 0 => FaultlessInv)'
  BY FaultsGrow, FaultlessNext
<1> QED
  BY <1>1, FaultlessInit, TypeInvariant, RecordInvariant, PTL DEF Spec

\* Only a crash or a failed call to the database leaves a deployment half way
\* with nobody driving it, with any number of replicas and requests: every error
\* of a resolver, the registry or Argo CD ends in a terminal status.
THEOREM HalfWayOnlyByFaults == Spec => []HalfWayIsDriven
<1>1. (faults = 0 => FaultlessInv) => HalfWayIsDriven
  BY DEF FaultlessInv, HalfWayIsDriven, Unfinished, Committed, Driving, Held
<1> QED
  BY <1>1, FaultlessInvariant, PTL

\* A completed deployment can only carry an error after a fault: CompletedHasNoError
\* is violated through a save that failed, and in no other way.
THEOREM StaleErrorOnlyByFaults == Spec => [](faults = 0 => CompletedHasNoError)
<1>1. (faults = 0 => FaultlessInv) => (faults = 0 => CompletedHasNoError)
  BY DEF FaultlessInv, CompletedHasNoError, Blamed
<1> QED
  BY <1>1, FaultlessInvariant, PTL

---------------------------------------------------------------------------
(***************************************************************************)
(* What a second request for an identity breaks.  Until there is one, the  *)
(* documents and aggregates of an identity all declare what the first      *)
(* request declared, so no merge can mix two declarations.                 *)
(***************************************************************************)

\* d declares db, or comes from no request.
Declares(d, db) == IF d.req = None THEN ~d.res ELSE d.res = db /\ d.req.db = db

\* A document, and the aggregates loaded from it, declare db.
AllDeclare(i, db) ==
  Declares(doc[i], db) /\ \A w \in Workers : job[w] = i => Declares(agg[w], db)

DeclaredInv ==
  /\ \A w \in Workers : pc[w] \in {"idle", "acquire", "load"} => agg[w] = NoRecord
  /\ \A w \in Workers : pc[w] \in Held => agg[w].req # None
  /\ \A i \in Ids : creates[i] = 0 => AllDeclare(i, TRUE) /\ AllDeclare(i, FALSE)
  /\ \A i \in Ids : creates[i] <= 1 => \E db \in BOOLEAN : AllDeclare(i, db)

LEMMA DeclaresFacts ==
  /\ \A db \in BOOLEAN : Declares(NoRecord, db)
  /\ \A old, d \in Record, db \in BOOLEAN :
       Declares(old, db) /\ Declares(d, db) /\ d.req # None => Declares(Stored(old, d), db)
  /\ \A d, e, db : e.req = d.req /\ e.res = d.res /\ Declares(d, db) => Declares(e, db)
  /\ \A d \in Sound : d.status # Absent => d.req # None
<1>1. \A db \in BOOLEAN : Declares(NoRecord, db)
  BY DEF Declares, NoRecord
<1>2. ASSUME NEW old \in Record, NEW d \in Record, NEW db \in BOOLEAN,
             Declares(old, db), Declares(d, db), d.req # None
      PROVE  Declares(Stored(old, d), db)
  <2>1. /\ Stored(old, d).req = d.req
        /\ Stored(old, d).res = IF d.res THEN TRUE ELSE old.res
    BY DEF Stored, Record
  <2>2. d.res = db /\ d.req.db = db
    BY <1>2 DEF Declares
  <2>3. old.res => db
    BY <1>2 DEF Declares
  <2>4. d.res \in BOOLEAN /\ old.res \in BOOLEAN
    BY DEF Record
  <2>5. Stored(old, d).res = db
    BY <2>1, <2>2, <2>3, <2>4
  <2> QED
    BY <1>2, <2>1, <2>2, <2>5 DEF Declares
<1>3. \A d, e, db : e.req = d.req /\ e.res = d.res /\ Declares(d, db) => Declares(e, db)
  BY DEF Declares
<1>4. \A d \in Sound : d.status # Absent => d.req # None
  BY NilAssumption DEF Sound
<1> QED
  BY <1>1, <1>2, <1>3, <1>4

\* A stage of run keeps the request of the aggregate, and saves only that.
LEMMA RunKeepsRequest ==
  ASSUME TypeInv, NEW w \in Workers, Run(w)
  PROVE  /\ pc[w] \in Held \ {"fail"} /\ pc'[w] \in Held \cup {"release"}
         /\ job' = job
         /\ agg'[w] \in Record
         /\ agg'[w].req = agg[w].req /\ agg'[w].res = agg[w].res
         /\ doc'[job[w]] \in {doc[job[w]], Stored(doc[job[w]], agg'[w])}
<1>local. pc \in [Workers -> PC] /\ agg \in [Workers -> Sound] /\ doc \in [Ids -> Sound]
  BY DEF TypeInv, LocalType, StoreType
<1>at. pc[w] \in Held \ {"fail"} /\ job' = job
  BY DEF Run, Validate, GenerateMetadata, Resolve, ChartResolved, Compose, Publish,
         ArtifactPublished, CreateOrUpdate, ArgoAppCreated, Sync, Syncing, Poll,
         PollFails, Healthy, Degraded, Completed, NothingToDo, At, Held
<1>job. job[w] \in Ids /\ agg[w] \in Sound /\ agg[w] \in Record
  BY <1>at, <1>local, TypeFacts DEF Held, Sound
<1>type. agg'[w] \in Record
  BY TypeRun DEF TypeInv, LocalType, Sound
<1>save. ASSUME NEW d, NEW ok, Save(job[w], d, ok)
         PROVE  doc'[job[w]] \in {doc[job[w]], Stored(doc[job[w]], d)}
  BY <1>local, <1>job, <1>save DEF Save
<1>step. ASSUME NEW d \in Record, d.req = agg[w].req, d.res = agg[w].res,
                NEW next, NEW after \in Held \cup {"release"}, Step(w, d, next, after)
         PROVE  /\ pc'[w] \in Held \cup {"release"}
                /\ agg'[w].req = agg[w].req /\ agg'[w].res = agg[w].res
                /\ doc'[job[w]] \in {doc[job[w]], Stored(doc[job[w]], agg'[w])}
  <2>1. agg'[w] = TransitionTo(d, next) /\ pc'[w] \in {after, "fail"}
    BY <1>local, <1>step DEF Step, Goto
  <2>2. TransitionTo(d, next).req = d.req /\ TransitionTo(d, next).res = d.res
    BY <1>step DEF TransitionTo, Record
  <2>3. doc'[job[w]] \in {doc[job[w]], Stored(doc[job[w]], TransitionTo(d, next))}
    BY <1>save, <1>step DEF Step, store
  <2>4. doc'[job[w]] \in {doc[job[w]], Stored(doc[job[w]], agg'[w])}
    BY <2>1, <2>3
  <2>5. agg'[w].req = agg[w].req /\ agg'[w].res = agg[w].res
    BY <1>step, <2>1, <2>2
  <2>6. pc'[w] \in Held \cup {"release"}
    BY <1>step, <2>1 DEF Held
  <2> QED
    BY <2>4, <2>5, <2>6
<1>1. CASE \/ Validate(w) \/ ChartResolved(w) \/ ArtifactPublished(w)
           \/ ArgoAppCreated(w) \/ Syncing(w) \/ Healthy(w) \/ Degraded(w)
  <2>1. PICK next \in Status, after \in Held : Step(w, agg[w], next, after)
    BY <1>1 DEF Validate, ChartResolved, ArtifactPublished, ArgoAppCreated, Syncing,
                Healthy, Degraded, Held, Status
  <2> QED
    BY <1>at, <1>job, <1>type, <1>step, <2>1
<1>2. CASE GenerateMetadata(w)
  <2> DEFINE d == [agg[w] EXCEPT !.meta = Base]
  <2>1. d \in Record /\ d.req = agg[w].req /\ d.res = agg[w].res
    BY <1>job DEF Record
  <2>2. Step(w, d, "METADATA_GENERATED", "stage")
    BY <1>2 DEF GenerateMetadata
  <2> HIDE DEF d
  <2> QED
    BY <1>at, <1>type, <1>step, <2>1, <2>2 DEF Held
<1>3. CASE Compose(w)
  <2>1. CASE Step(w, agg[w], "CHART_COMPOSED", "publish")
    BY <1>at, <1>job, <1>type, <1>step, <2>1 DEF Held
  <2>2. CASE Goto(w, "fail") /\ UNCHANGED <<store, agg>>
    BY <1>at, <1>job, <1>type, <1>local, <2>2 DEF Goto, Held, store
  <2> QED
    BY <1>3, <2>1, <2>2 DEF Compose
<1>4. CASE \/ Resolve(w) \/ Publish(w) \/ CreateOrUpdate(w) \/ Sync(w)
           \/ PollFails(w) \/ NothingToDo(w)
  <2>1. doc' = doc
    BY <1>4 DEF Resolve, Publish, CreateOrUpdate, Sync, PollFails, NothingToDo, store
  <2>2. agg'[w].req = agg[w].req /\ agg'[w].res = agg[w].res
    BY <1>4, <1>local, <1>job
       DEF Resolve, Publish, CreateOrUpdate, Sync, PollFails, NothingToDo, Record
  <2>3. pc'[w] \in Held \cup {"release"}
    BY <1>4, <1>at, <1>local
       DEF Resolve, Publish, CreateOrUpdate, Sync, PollFails, NothingToDo, Goto, Held
  <2> QED
    BY <1>at, <1>type, <2>1, <2>2, <2>3
<1>5. CASE Poll(w)
  <2>1. PICK h \in Health \ {"unset"} :
               /\ agg' = [agg EXCEPT ![w].health = h]
               /\ Goto(w, Verdict(h, late[w]))
    BY <1>5 DEF Poll
  <2>2. agg'[w].req = agg[w].req /\ agg'[w].res = agg[w].res
    BY <1>local, <1>job, <2>1 DEF Record
  <2>3. pc'[w] \in Held
    BY <1>local, <2>1 DEF Goto, Verdict, Held
  <2>4. doc'[job[w]] \in {doc[job[w]], Stored(doc[job[w]], agg'[w])}
    BY <1>5, <1>save DEF Poll
  <2> QED
    BY <1>at, <1>type, <2>2, <2>3, <2>4
<1>6. CASE Completed(w)
  <2>1. agg'[w] = Complete(agg[w])
    BY <1>6, <1>local DEF Completed
  <2>2. agg'[w].req = agg[w].req /\ agg'[w].res = agg[w].res
    BY <1>job, <2>1 DEF Complete, TransitionTo, Record
  <2>3. pc'[w] \in Held \cup {"release"}
    BY <1>6, <1>local DEF Completed, Goto, Held
  <2>4. doc'[job[w]] \in {doc[job[w]], Stored(doc[job[w]], agg'[w])}
    BY <1>6, <1>save DEF Completed
  <2> QED
    BY <1>at, <1>type, <2>2, <2>3, <2>4
<1> QED
  BY <1>1, <1>2, <1>3, <1>4, <1>5, <1>6 DEF Run

\* A step of w, on the deployment that it drives, that brings in no other
\* declaration.
LEMMA DeclaredFootprint ==
  ASSUME TypeInv, DeclaredInv, NEW w \in Workers, Footprint(w), job[w] \in Ids,
         pc'[w] \in {"idle", "acquire", "load"} => agg'[w] = NoRecord,
         pc'[w] \in Held => agg'[w].req # None,
         agg'[w] = NoRecord \/ job'[w] = job[w],
         \A db \in BOOLEAN :
           AllDeclare(job[w], db) => /\ Declares(doc'[job[w]], db)
                                     /\ Declares(agg'[w], db)
  PROVE  DeclaredInv'
<1>1. ASSUME NEW i \in Ids, NEW db \in BOOLEAN, AllDeclare(i, db)
      PROVE  AllDeclare(i, db)'
  <2>1. Declares(doc'[i], db)
    BY <1>1 DEF Footprint, AllDeclare
  <2>2. ASSUME NEW v \in Workers, job'[v] = i
        PROVE  Declares(agg'[v], db)
    <3>1. CASE v = w
      BY <1>1, <2>2, <3>1, DeclaresFacts
    <3>2. CASE v # w
      BY <1>1, <2>2, <3>2 DEF Footprint, AllDeclare
    <3> QED
      BY <3>1, <3>2
  <2> QED
    BY <2>1, <2>2 DEF AllDeclare
<1>2. /\ \A v \in Workers : pc'[v] \in {"idle", "acquire", "load"} => agg'[v] = NoRecord
      /\ \A v \in Workers : pc'[v] \in Held => agg'[v].req # None
  BY DEF DeclaredInv, Footprint
<1>3. creates' = creates
  BY DEF Footprint
<1> QED
  BY <1>1, <1>2, <1>3 DEF DeclaredInv

LEMMA DeclaredExecute ==
  ASSUME TypeInv, RecordInv, DeclaredInv, NEW w \in Workers, Execute(w)
  PROVE  DeclaredInv'
<1> DEFINE i == job[w]
<1>w. pc[w] # "idle"
  BY DEF Execute, Acquire, Skip, Load, LoadFails, FailAndSave, Release
<1>at. /\ i \in Ids /\ doc[i] \in Sound /\ doc[i] \in Record
       /\ agg[w] \in Sound /\ agg[w] \in Record
       /\ pc[w] \in {"acquire", "load"} => agg[w] = NoRecord
       /\ pc[w] \in Held => agg[w].req # None
  BY <1>w, TypeFacts DEF TypeInv, StoreType, Sound, DeclaredInv
<1>fp. Footprint(w)
  BY ExecuteFootprint
<1>all. \A db : AllDeclare(i, db) => Declares(doc[i], db) /\ Declares(agg[w], db)
  BY DEF AllDeclare
<1>1. CASE Acquire(w) \/ LoadFails(w)
  <2>1. /\ pc[w] \in {"acquire", "load"} /\ pc'[w] \in {"load", "release"}
        /\ doc' = doc /\ agg' = agg /\ job' = job
    BY <1>1 DEF Acquire, LoadFails, Goto, store, TypeInv, LocalType
  <2> QED
    BY <1>at, <1>fp, <1>all, <2>1, DeclaredFootprint DEF Held
<1>2. CASE Skip(w) \/ Release(w)
  <2>1. pc'[w] = "idle" /\ doc' = doc /\ agg'[w] = NoRecord
    BY <1>2 DEF Skip, Release, End, Goto, store, TypeInv, LocalType
  <2> QED
    BY <1>at, <1>fp, <1>all, <2>1, DeclaresFacts, DeclaredFootprint DEF Held
<1>3. CASE Load(w)
  <2>1. /\ doc' = doc /\ agg'[w] = doc[i] /\ job' = job
        /\ pc'[w] \in {"release", "fail", "stage"}
        /\ doc[i].status \in Terminal \cup {Absent} => pc'[w] = "release"
    BY <1>3 DEF Load, Goto, store, TypeInv, LocalType
  <2>2. pc'[w] \in Held => agg'[w].req # None
    BY <1>at, <2>1, DeclaresFacts DEF Held
  <2> QED
    BY <1>at, <1>fp, <1>all, <2>1, <2>2, DeclaredFootprint
<1>4. CASE FailAndSave(w)
  <2> DEFINE d == Fail(agg[w])
  <2>1. pc[w] = "fail" /\ agg'[w] = d /\ pc'[w] = "release" /\ job' = job
    BY <1>4 DEF FailAndSave, Goto, TypeInv, LocalType
  <2>2. d \in Record /\ d.req = agg[w].req /\ d.res = agg[w].res
    <3>1. d \in Record
      BY <1>at, FailType
    <3>2. d.req = agg[w].req /\ d.res = agg[w].res
      BY <1>at DEF Fail, TransitionTo, Record
    <3> QED
      BY <3>1, <3>2
  <2>3. d.req # None
    BY <1>at, <2>1, <2>2 DEF Held
  <2>4. doc'[i] \in {doc[i], Stored(doc[i], d)}
    BY <1>4, <1>at, <2>1 DEF FailAndSave, Save, TypeInv, StoreType
  <2> HIDE DEF d
  <2>5. ASSUME NEW db \in BOOLEAN, AllDeclare(i, db)
        PROVE  Declares(doc'[i], db) /\ Declares(agg'[w], db)
    <3>1. Declares(doc[i], db) /\ Declares(d, db)
      BY <1>all, <2>2, <2>5, DeclaresFacts
    <3>2. Declares(Stored(doc[i], d), db)
      BY <1>at, <2>2, <2>3, <3>1, DeclaresFacts
    <3> QED
      BY <2>1, <2>4, <3>1, <3>2
  <2> QED
    BY <1>at, <1>fp, <2>1, <2>3, <2>5, DeclaredFootprint
<1> QED
  BY <1>1, <1>2, <1>3, <1>4 DEF Execute

LEMMA DeclaredRun ==
  ASSUME TypeInv, DeclaredInv, NEW w \in Workers, Run(w)
  PROVE  DeclaredInv'
<1> DEFINE i == job[w]
           d == agg'[w]
<1>1. /\ pc[w] \in Held /\ pc'[w] \in Held \cup {"release"} /\ job' = job
      /\ d \in Record /\ d.req = agg[w].req /\ d.res = agg[w].res
      /\ doc'[i] \in {doc[i], Stored(doc[i], d)}
  BY RunKeepsRequest
<1>2. i \in Ids /\ doc[i] \in Record /\ d.req # None
  BY <1>1, TypeFacts DEF DeclaredInv, Held, TypeInv, StoreType, Sound
<1> HIDE DEF d
<1>3. ASSUME NEW db \in BOOLEAN, AllDeclare(i, db)
      PROVE  Declares(doc'[i], db) /\ Declares(d, db)
  <2>1. Declares(doc[i], db) /\ Declares(agg[w], db)
    BY <1>3 DEF AllDeclare
  <2>2. Declares(d, db)
    BY <1>1, <2>1, DeclaresFacts
  <2>3. Declares(Stored(doc[i], d), db)
    BY <1>1, <1>2, <2>1, <2>2, DeclaresFacts
  <2> QED
    BY <1>1, <2>1, <2>2, <2>3
<1>4. Footprint(w)
  BY RunFootprint
<1> QED
  BY <1>1, <1>2, <1>3, <1>4, DeclaredFootprint DEF Held, d

\* The first request finds a document without a request.
LEMMA DeclaredCreate ==
  ASSUME TypeInv, DeclaredInv, NEW i \in Ids, NEW db \in BOOLEAN, NEW ok \in BOOLEAN,
         Save(i, New([n |-> creates[i] + 1, db |-> db]), ok),
         creates[i] < MaxCreates, creates' = [creates EXCEPT ![i] = @ + 1],
         agg' = agg,
         \A v \in Workers : \/ pc'[v] = pc[v] /\ job'[v] = job[v]
                            \/ pc[v] = "idle" /\ pc'[v] = "acquire"
  PROVE  DeclaredInv'
<1> DEFINE d == New([n |-> creates[i] + 1, db |-> db])
<1>1. /\ creates \in [Ids -> 0 .. MaxCreates] /\ doc \in [Ids -> Sound]
      /\ creates'[i] = creates[i] + 1 /\ MaxCreates \in Nat
  BY NilAssumption DEF TypeInv, StoreType
<1>2. d \in Record /\ d.req # None
  <2>1. [n |-> creates[i] + 1, db |-> db] \in Request
    BY <1>1 DEF Request
  <2> QED
    BY <2>1, NewType, NilAssumption DEF New, NoRecord
<1>3. Declares(d, db)
  BY <1>2 DEF Declares, New, NoRecord
<1>4. doc'[i] \in {doc[i], Stored(doc[i], d)} /\ \A j \in Ids \ {i} : doc'[j] = doc[j]
  BY <1>1, SaveFootprint DEF Save
<1> HIDE DEF d
<1>5. ASSUME NEW j \in Ids, NEW e \in BOOLEAN, AllDeclare(j, e), Declares(doc'[j], e)
      PROVE  AllDeclare(j, e)'
  <2>1. ASSUME NEW v \in Workers, job'[v] = j
        PROVE  Declares(agg'[v], e)
    <3>1. CASE pc'[v] = pc[v] /\ job'[v] = job[v]
      BY <1>5, <2>1, <3>1 DEF AllDeclare
    <3>2. CASE pc[v] = "idle" /\ pc'[v] = "acquire"
      BY <3>2, DeclaresFacts DEF DeclaredInv
    <3> QED
      BY <3>1, <3>2
  <2> QED
    BY <1>5, <2>1 DEF AllDeclare
<1>6. ASSUME creates'[i] <= 1
      PROVE  AllDeclare(i, db)'
  <2>1. creates[i] = 0
    BY <1>1, <1>6
  <2>2. AllDeclare(i, db)
    BY <2>1 DEF DeclaredInv
  <2>3. Declares(doc[i], db)
    BY <2>2 DEF AllDeclare
  <2>4. Declares(Stored(doc[i], d), db)
    BY <1>1, <1>2, <1>3, <2>3, DeclaresFacts DEF Sound
  <2> QED
    BY <1>4, <1>5, <2>2, <2>3, <2>4
<1>7. ASSUME NEW j \in Ids \ {i}
      PROVE  /\ creates'[j] = creates[j]
             /\ \A e \in BOOLEAN : AllDeclare(j, e) => AllDeclare(j, e)'
  <2>1. creates'[j] = creates[j]
    BY <1>1, <1>7
  <2>2. ASSUME NEW e \in BOOLEAN, AllDeclare(j, e)
        PROVE  AllDeclare(j, e)'
    BY <1>4, <1>5, <1>7, <2>2 DEF AllDeclare
  <2> QED
    BY <2>1, <2>2
<1>8. /\ \A v \in Workers : pc'[v] \in {"idle", "acquire", "load"} => agg'[v] = NoRecord
      /\ \A v \in Workers : pc'[v] \in Held => agg'[v].req # None
  BY DEF DeclaredInv, Held
<1>9. \A j \in Ids : creates'[j] = 0 => AllDeclare(j, TRUE)' /\ AllDeclare(j, FALSE)'
  <2>1. creates'[i] # 0
    BY <1>1
  <2> QED
    BY <1>7, <2>1 DEF DeclaredInv
<1>10. \A j \in Ids : creates'[j] <= 1 => \E e \in BOOLEAN : AllDeclare(j, e)'
  BY <1>6, <1>7 DEF DeclaredInv
<1> QED
  BY <1>8, <1>9, <1>10 DEF DeclaredInv

LEMMA DeclaredNext ==
  ASSUME TypeInv, RecordInv, DeclaredInv, [Next]_vars
  PROVE  DeclaredInv'
<1>1. ASSUME NEW w \in Workers, NEW i \in Ids, Trigger(w, i)
      PROVE  /\ agg' = agg
             /\ \A v \in Workers : \/ pc'[v] = pc[v] /\ job'[v] = job[v]
                                   \/ pc[v] = "idle" /\ pc'[v] = "acquire"
  BY <1>1 DEF Trigger, Goto, TypeInv, LocalType
\* What brings in no request.
<1>2. ASSUME doc' = doc, creates' = creates,
             \A v \in Workers :
               \/ pc'[v] = pc[v] /\ agg'[v] = agg[v] /\ job'[v] = job[v]
               \/ pc'[v] \in {"idle", "acquire"} /\ agg'[v] = NoRecord
      PROVE  DeclaredInv'
  <2>1. ASSUME NEW j \in Ids, NEW e \in BOOLEAN, AllDeclare(j, e)
        PROVE  AllDeclare(j, e)'
    <3>1. \A v \in Workers : job'[v] = j => Declares(agg'[v], e)
      BY <1>2, <2>1, DeclaresFacts DEF AllDeclare
    <3> QED
      BY <1>2, <2>1, <3>1 DEF AllDeclare
  <2>2. /\ \A v \in Workers : pc'[v] \in {"idle", "acquire", "load"} => agg'[v] = NoRecord
        /\ \A v \in Workers : pc'[v] \in Held => agg'[v].req # None
    BY <1>2 DEF DeclaredInv, Held
  <2> QED
    BY <1>2, <2>1, <2>2 DEF DeclaredInv
<1>3. ASSUME NEW w \in Workers, NEW i \in Ids, NEW db \in BOOLEAN, Create(w, i, db)
      PROVE  DeclaredInv'
  BY <1>1, <1>3, DeclaredCreate DEF Create
<1>4. ASSUME NEW i \in Ids, NEW db \in BOOLEAN, CreateRefused(i, db)
      PROVE  DeclaredInv'
  BY <1>4, DeclaredCreate DEF CreateRefused, local
<1>5. ASSUME NEW w \in Workers, NEW i \in Ids, Redeploy(w, i)
      PROVE  DeclaredInv'
  <2>1. \A v \in Workers :
          \/ pc'[v] = pc[v] /\ agg'[v] = agg[v] /\ job'[v] = job[v]
          \/ pc'[v] \in {"idle", "acquire"} /\ agg'[v] = NoRecord
    BY <1>1, <1>5 DEF Redeploy, DeclaredInv
  <2>2. doc' = doc /\ creates' = creates
    BY <1>5 DEF Redeploy, store
  <2> QED
    BY <1>2, <2>1, <2>2
<1>6. ASSUME NEW w \in Workers, Deadline(w)
      PROVE  DeclaredInv'
  <2>1. doc' = doc /\ creates' = creates /\ pc' = pc /\ agg' = agg /\ job' = job
    BY <1>6 DEF Deadline, store
  <2> QED
    BY <1>2, <2>1
<1>7. ASSUME NEW r \in Replicas, Crash(r)
      PROVE  DeclaredInv'
  BY <1>2, <1>7 DEF Crash
<1>8. CASE UNCHANGED vars
  <2>1. doc' = doc /\ creates' = creates /\ pc' = pc /\ agg' = agg /\ job' = job
    BY <1>8 DEF vars
  <2> QED
    BY <1>2, <2>1
<1>9. \A w \in Workers : Execute(w) \/ Run(w) => DeclaredInv'
  BY DeclaredExecute, DeclaredRun
<1>10. CASE Next
  <2>1. (\E w \in Workers, i \in Ids, db \in BOOLEAN : Create(w, i, db)) => DeclaredInv'
    BY <1>3, Zenon
  <2>2. (\E i \in Ids, db \in BOOLEAN : CreateRefused(i, db)) => DeclaredInv'
    BY <1>4, Zenon
  <2>3. (\E w \in Workers, i \in Ids : Redeploy(w, i)) => DeclaredInv'
    BY <1>5, Zenon
  <2>4. (\E w \in Workers : Execute(w) \/ Run(w) \/ Deadline(w)) => DeclaredInv'
    BY <1>6, <1>9, Zenon
  <2>5. (\E r \in Replicas : Crash(r)) => DeclaredInv'
    BY <1>7, Zenon
  <2> QED
    BY <1>10, <2>1, <2>2, <2>3, <2>4, <2>5, Zenon DEF Next
<1> QED
  BY <1>8, <1>10

LEMMA DeclaredInit == Init => DeclaredInv
<1> SUFFICES ASSUME Init PROVE DeclaredInv
  OBVIOUS
<1>1. /\ \A i \in Ids : doc[i] = NoRecord
      /\ \A w \in Workers : agg[w] = NoRecord /\ pc[w] = "idle"
  BY DEF Init
<1>2. \A i \in Ids, db \in BOOLEAN : AllDeclare(i, db)
  BY <1>1, DeclaresFacts DEF AllDeclare
<1> QED
  BY <1>1, <1>2 DEF DeclaredInv, Held

\* As long as no identity was used by two create requests, what is composed is
\* what the request declared, with any number of replicas, redeploys, crashes and
\* lost answers: ResourcesAreDeclared is violated through a second request with
\* the same identity, and in no other way.
THEOREM MixedOnlyByTwoRequests ==
  Spec => []((\A i \in Ids : creates[i] <= 1) => ResourcesAreDeclared)
<1>1. DeclaredInv => ((\A i \in Ids : creates[i] <= 1) => ResourcesAreDeclared)
  BY DEF DeclaredInv, ResourcesAreDeclared, AllDeclare, Declares
<1>2. TypeInv /\ RecordInv /\ DeclaredInv /\ [Next]_vars => DeclaredInv'
  BY DeclaredNext
<1> QED
  BY <1>1, <1>2, DeclaredInit, TypeInvariant, RecordInvariant, PTL DEF Spec
===========================================================================
