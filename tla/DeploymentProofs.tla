------------------------- MODULE DeploymentProofs -------------------------
(***************************************************************************)
(* Lemmas about the operators of module Deployment: what each of them      *)
(* returns, and that neither the aggregate's operations nor the upsert     *)
(* that merges one into an older document loses what a re-drive needs.     *)
(***************************************************************************)
EXTENDS Deployment, TLAPS

\* The status of a record is a status of the program once it has a request.
LEMMA NoRecordType == NoRecord \in Record
  BY DEF NoRecord, Record, Health

LEMMA NewType ==
  ASSUME NEW req \in Request
  PROVE  New(req) \in Record
  BY DEF New, NoRecord, Record, Health, Request, Status

\* A record changed in one field of the right type is a record.
LEMMA FieldType ==
  ASSUME NEW d \in Record
  PROVE  /\ \A s \in Status : [d EXCEPT !.status = s] \in Record
         /\ \A m \in Version \cup {Base} : [d EXCEPT !.meta = m] \in Record
         /\ \A a \in Artifact : [d EXCEPT !.artifact = a] \in Record
         /\ [d EXCEPT !.argo = TRUE] \in Record
         /\ \A h \in Health : [d EXCEPT !.health = h] \in Record
  BY DEF Record

LEMMA TransitionType ==
  ASSUME NEW d \in Record, NEW next \in Status
  PROVE  TransitionTo(d, next) \in Record
  BY FieldType DEF TransitionTo

LEMMA FailType ==
  ASSUME NEW d \in Record
  PROVE  Fail(d) \in Record
  BY DEF Fail, TransitionTo, Record, Status, CanTransitionTo

LEMMA CompleteType ==
  ASSUME NEW d \in Record
  PROVE  Complete(d) \in Record
<1>1. TransitionTo(d, "COMPLETED") \in Record
  BY TransitionType DEF Status
<1>2. \A e \in Record, b \in BOOLEAN : [e EXCEPT !.done = b] \in Record
  BY DEF Record
<1>3. d.done \in BOOLEAN
  BY DEF Record
<1>4. (IF CanTransitionTo(d.status, "COMPLETED") THEN TRUE ELSE d.done) \in BOOLEAN
  <2>1. CASE CanTransitionTo(d.status, "COMPLETED")
    BY <2>1
  <2>2. CASE ~CanTransitionTo(d.status, "COMPLETED")
    BY <1>3, <2>2
  <2> QED
    BY <2>1, <2>2
<1> QED
  BY <1>1, <1>2, <1>4 DEF Complete

LEMMA StoredType ==
  ASSUME NEW old \in Record, NEW d \in Record
  PROVE  Stored(old, d) \in Record
<1> DEFINE Kept(b, c) == IF b THEN TRUE ELSE c
<1>1. \A b, c \in BOOLEAN : Kept(b, c) \in BOOLEAN
  OBVIOUS
<1>2. /\ Kept(d.res, old.res) \in BOOLEAN
      /\ Kept(d.argo, old.argo) \in BOOLEAN
      /\ Kept(d.done, old.done) \in BOOLEAN
  <2>1. /\ {d.res, old.res, d.argo, old.argo, d.done, old.done} \subseteq BOOLEAN
    BY DEF Record
  <2> QED
    BY <1>1, <2>1
<1> HIDE DEF Kept
<1> DEFINE meta == IF d.meta = None THEN old.meta ELSE d.meta
           artifact == IF d.artifact = None THEN old.artifact ELSE d.artifact
           health == IF d.health = "unset" THEN old.health ELSE d.health
<1>3. /\ meta \in Version \cup {None, Base}
      /\ artifact \in Artifact \cup {None}
      /\ health \in Health
  BY DEF Record
<1> HIDE DEF meta, artifact, health
<1>4. \A b1, b2, b3 \in BOOLEAN :
        [d EXCEPT !.res = b1, !.meta = meta, !.artifact = artifact,
                  !.argo = b2, !.health = health, !.done = b3] \in Record
  BY <1>3 DEF Record
<1>5. Stored(old, d) =
        [d EXCEPT !.res = Kept(d.res, old.res), !.meta = meta, !.artifact = artifact,
                  !.argo = Kept(d.argo, old.argo), !.health = health,
                  !.done = Kept(d.done, old.done)]
  BY Zenon DEF Stored, Kept, meta, artifact, health
<1> QED
  BY <1>2, <1>4, <1>5

---------------------------------------------------------------------------
(* Records that come from a request.                                       *)

\* Only a document that does not exist has no request.
Sound == {d \in Record : d.status # Absent => d.req \in Request}

LEMMA SoundStart ==
  /\ NoRecord \in Sound
  /\ \A req \in Request : New(req) \in Sound
<1>1. NoRecord \in Sound
  BY NoRecordType DEF Sound, NoRecord
<1>2. ASSUME NEW req \in Request
      PROVE  New(req) \in Sound
  <2>1. New(req).req = req
    BY DEF New, NoRecord
  <2> QED
    BY NewType, <2>1 DEF Sound
<1> QED
  BY <1>1, <1>2

LEMMA SoundField ==
  ASSUME NEW d \in Sound
  PROVE  /\ \A m \in Version \cup {Base} : [d EXCEPT !.meta = m] \in Sound
         /\ \A a \in Artifact : [d EXCEPT !.artifact = a] \in Sound
         /\ [d EXCEPT !.argo = TRUE] \in Sound
         /\ \A h \in Health : [d EXCEPT !.health = h] \in Sound
<1>1. /\ d \in Record
      /\ d.status # Absent => d.req \in Request
  BY DEF Sound
<1> QED
  BY <1>1, FieldType DEF Sound, Record

LEMMA SoundTransition ==
  ASSUME NEW d \in Sound, NEW next \in Status
  PROVE  TransitionTo(d, next) \in Sound
<1>1. /\ d \in Record
      /\ d.status # Absent => d.req \in Request
  BY DEF Sound
<1>2. TransitionTo(d, next).req = d.req
  BY <1>1 DEF TransitionTo, Record
<1>3. d.status = Absent => TransitionTo(d, next).status = Absent
  BY DEF TransitionTo, CanTransitionTo, Absent
<1> QED
  BY <1>1, <1>2, <1>3, TransitionType DEF Sound

LEMMA SoundEnd ==
  ASSUME NEW d \in Sound
  PROVE  Fail(d) \in Sound /\ Complete(d) \in Sound
<1>1. /\ d \in Record
      /\ d.status # Absent => d.req \in Request
  BY DEF Sound
<1>2. Fail(d).req = d.req /\ Complete(d).req = d.req
  BY <1>1 DEF Fail, Complete, TransitionTo, Record
<1>3. d.status = Absent => Fail(d).status = Absent /\ Complete(d).status = Absent
  BY <1>1 DEF Fail, Complete, TransitionTo, CanTransitionTo, Absent, Record
<1> QED
  BY <1>1, <1>2, <1>3, FailType, CompleteType DEF Sound

LEMMA SoundStored ==
  ASSUME NEW old \in Sound, NEW d \in Sound
  PROVE  Stored(old, d) \in Sound
<1>1. /\ d \in Record
      /\ old \in Record
      /\ d.status # Absent => d.req \in Request
  BY DEF Sound
<1>2. Stored(old, d).req = d.req /\ Stored(old, d).status = d.status
  BY <1>1 DEF Stored, Record
<1> QED
  BY <1>1, <1>2, StoredType DEF Sound
===========================================================================
