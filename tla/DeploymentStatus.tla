------------------------- MODULE DeploymentStatus -------------------------
(***************************************************************************)
(* The status machine of a deployment, internal/domain/deployment/         *)
(* status.go.  A status is written with the name its String method gives   *)
(* it, which is also what the database stores.                             *)
(***************************************************************************)

Status ==
  {"RECEIVED", "VALIDATING", "REJECTED", "METADATA_GENERATED",
   "CHART_RESOLVED", "CHART_COMPOSED", "ARTIFACT_PUBLISHED",
   "ARGO_APP_CREATED", "SYNCING", "HEALTHY", "DEGRADED", "FAILED",
   "ROLLED_BACK", "COMPLETED"}

\* _terminalStatuses
Terminal == {"REJECTED", "FAILED", "ROLLED_BACK", "COMPLETED"}

\* _transitions, as the relation CanTransitionTo decides.
CanTransitionTo(from, to) ==
  \/ from = "RECEIVED"           /\ to = "VALIDATING"
  \/ from = "VALIDATING"         /\ to \in {"REJECTED", "METADATA_GENERATED", "FAILED"}
  \/ from = "METADATA_GENERATED" /\ to \in {"CHART_RESOLVED", "FAILED"}
  \/ from = "CHART_RESOLVED"     /\ to \in {"CHART_COMPOSED", "FAILED"}
  \/ from = "CHART_COMPOSED"     /\ to \in {"ARTIFACT_PUBLISHED", "FAILED"}
  \/ from = "ARTIFACT_PUBLISHED" /\ to \in {"ARGO_APP_CREATED", "FAILED"}
  \/ from = "ARGO_APP_CREATED"   /\ to \in {"SYNCING", "FAILED", "ROLLED_BACK"}
  \/ from = "SYNCING"            /\ to \in {"HEALTHY", "DEGRADED", "FAILED", "ROLLED_BACK"}
  \/ from = "HEALTHY"            /\ to \in {"COMPLETED", "FAILED"}
  \/ from = "DEGRADED"           /\ to \in {"ROLLED_BACK", "FAILED"}

\* Not a status of the program: the status of a document that is not in the
\* collection.
Absent == "ABSENT"

\* The statuses of a deployment that was published, and of one whose Argo CD
\* Application was created and had not failed since.
Published ==
  {"ARTIFACT_PUBLISHED", "ARGO_APP_CREATED", "SYNCING", "HEALTHY", "DEGRADED",
   "COMPLETED"}

Applied == Published \ {"ARTIFACT_PUBLISHED"}
===========================================================================
