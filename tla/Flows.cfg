SPECIFICATION FSpec
CONSTANTS
  FoldOf <- Folds
  Catalog <- Kinds
  Install = {"here", "away"}
  Connected = {"here"}
  Plugin = {"p", "q"}
  ActionOf <- MCActionOf
  PortsFor <- MCPortsFor
  Profile = {"f"}
  Documents <- AllDocs
  MaxChanges = 1
INVARIANTS SilentFlowRunsOnce IdentityIsLocal RunMatchesFlow
PROPERTIES DesignSurvives
CHECK_DEADLOCK FALSE
