\* One client, every policy and umbrella; the client may stop at any point.
SPECIFICATION Spec
CONSTANTS
  None = None
  Keys <- MCKeys
  DottedKeys <- MCDottedKeys
  Drafts <- MCDrafts
  Policies <- MCPolicies
  Umbrellas <- MCUmbrellas
  ResourceNames = {"orders", "template"}
  RepoNames = {"orders", "orders-"}
  Sizes = {"small", "large"}
  DefaultSize = "small"
  MinMb = 1
  MaxMb = 3
  DefaultMb = 1
  MaxRestarts = 2
INVARIANTS
  TypeOK
  ReservedIsPlatforms
  DryRunAgrees
  SpendWasAuthorized
  BindMatchesInstance
  EnforcedOverlayIsTunable
  ScaffoldedIsDeployable
CHECK_DEADLOCK FALSE
