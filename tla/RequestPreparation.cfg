SPECIFICATION Spec
CONSTANTS
  Requests <- MCRequests
  CoreTools <- MCCoreTools
  Catalog <- MCCatalog
INVARIANTS
  UpstreamRequirements
  ToolsOffered
  ChoiceKept
  CallsComeBackAsDeclared
  AsListed
