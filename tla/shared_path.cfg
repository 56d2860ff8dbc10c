SPECIFICATION CatalogSpec
CONSTANTS
  Editors = {e1}
  WorkflowNames = {"a"}
  Drafts <- TwoDrafts
  Credentials = {"c"}
  NoPath = NoPath
  Keep = Keep
  MaxWorkflows = 1
  MaxVersions = 2
  MaxTriggers = 2
  AskedPaths <- SecondPath
  Puts <- FewPuts
INVARIANT PathsUnique
CHECK_DEADLOCK FALSE
