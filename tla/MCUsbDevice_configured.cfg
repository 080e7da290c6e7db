\* See README.md, the table of runs.
SPECIFICATION Spec
CONSTANTS
  DataEndpoints = {3}
  Requests <- EnumerationRequests
  MaxDepth = 1
  HostAborts = FALSE
  PromptCode = TRUE
INVARIANTS
  ConfiguredHasConfiguration
