---------------------------- MODULE Deployment ----------------------------
(***************************************************************************)
(* The Deployment aggregate (internal/domain/deployment/entity.go) and the *)
(* document the MongoDB repository keeps of it (internal/adapter/outbound/ *)
(* persistence/deployment.go).                                             *)
(*                                                                         *)
(* A deployment's identity is a function of the day, the application, the  *)
(* first four letters of the environment and the short commit, so several  *)
(* create requests can carry the same identity.  req tells them apart: it  *)
(* stands for what New takes from one request and every save writes, the   *)
(* start time first of all.                                                *)
(***************************************************************************)
EXTENDS Naturals, DeploymentStatus

CONSTANTS
  Charts,      \* versions of the umbrella chart in the registry
  MaxCreates,  \* bound: create requests that share one identity
  None,        \* a nil pointer in the aggregate, an omitted field of a document
  Base         \* metadata whose deployment version is not stamped yet

\* One create request: its number, and whether it declares resources (or
\* carries values: both fields are stored the same way).
Request == [n : 1 .. MaxCreates, db : BOOLEAN]

\* NewDeploymentVersion: the resolved chart version and the start time.
Version == [chart : Charts, req : Request]

\* A published OCI chart: its tag, and whether it renders the database.
Artifact == [version : Version, db : BOOLEAN]

ASSUME NilAssumption ==
  /\ MaxCreates \in Nat
  /\ None # Base
  /\ None \notin Request
  /\ {None, Base} \cap Version = {}
  /\ None \notin Artifact

Health == {"unset", "Healthy", "Degraded", "Progressing"}

\* The aggregate, and the document: toDoc and fromDoc keep these fields apart.
Record ==
  [status   : Status \cup {Absent},
   req      : Request \cup {None},
   res      : BOOLEAN,                          \* resources are declared
   meta     : Version \cup {None, Base},
   artifact : Artifact \cup {None},
   argo     : BOOLEAN,                          \* argoApp is set
   health   : Health,
   err      : BOOLEAN,                          \* errMsg is not empty
   done     : BOOLEAN]                          \* completedAt is set

NoRecord ==
  [status |-> Absent, req |-> None, res |-> FALSE, meta |-> None,
   artifact |-> None, argo |-> FALSE, health |-> "unset", err |-> FALSE,
   done |-> FALSE]

\* Mutation: the status is left at the zero value of its type.
NewWithoutStatus(req) ==
  [NoRecord EXCEPT !.status = "UNKNOWN", !.req = req, !.res = req.db]

New(req) == [NoRecord EXCEPT !.status = "RECEIVED", !.req = req, !.res = req.db]

TransitionTo(d, next) ==
  IF CanTransitionTo(d.status, next) THEN [d EXCEPT !.status = next] ELSE d

\* Mutation: the status is set without asking the transition table.
FailUnchecked(d) == [d EXCEPT !.status = "FAILED", !.err = TRUE, !.done = TRUE]

\* The message is set before the transition is tried, the completion time
\* after it succeeded.
Fail(d) ==
  LET failed == TransitionTo(d, "FAILED")
  IN  [failed EXCEPT !.err = TRUE,
                     !.done = IF CanTransitionTo(d.status, "FAILED") THEN TRUE ELSE d.done]

\* An error message set earlier stays.
Complete(d) ==
  [TransitionTo(d, "COMPLETED") EXCEPT
     !.done = IF CanTransitionTo(d.status, "COMPLETED") THEN TRUE ELSE d.done]

\* Mutation: an artifact that is in the document already is not replaced.
StoredFirstArtifact(old, d) ==
  [d EXCEPT !.res      = IF d.res THEN TRUE ELSE old.res,
            !.meta     = IF d.meta = None THEN old.meta ELSE d.meta,
            !.artifact = IF old.artifact # None THEN old.artifact ELSE d.artifact,
            !.argo     = IF d.argo THEN TRUE ELSE old.argo,
            !.health   = IF d.health = "unset" THEN old.health ELSE d.health,
            !.done     = IF d.done THEN TRUE ELSE old.done]

\* The document after UpdateOne({_id}, {$set: toDoc(d)}, upsert): the fields
\* toDoc omits when they are empty keep what an earlier save left in them.
Stored(old, d) ==
  [d EXCEPT !.res      = IF d.res THEN TRUE ELSE old.res,
            !.meta     = IF d.meta = None THEN old.meta ELSE d.meta,
            !.artifact = IF d.artifact = None THEN old.artifact ELSE d.artifact,
            !.argo     = IF d.argo THEN TRUE ELSE old.argo,
            !.health   = IF d.health = "unset" THEN old.health ELSE d.health,
            !.done     = IF d.done THEN TRUE ELSE old.done]

\* What a stored deployment holds at each status: the outputs that the stages
\* from there on read, of one and the same deployment version.
Resumable(d) ==
  /\ d.status \notin {Absent, "RECEIVED", "VALIDATING", "REJECTED", "FAILED",
                      "ROLLED_BACK"} => d.meta # None
  /\ d.status \in Published => d.artifact # None /\ d.artifact.version = d.meta
  /\ d.status \in Applied => d.argo
===========================================================================
