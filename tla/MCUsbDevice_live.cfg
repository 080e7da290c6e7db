\* See README.md, the table of runs.
SPECIFICATION FairSpec
CONSTANTS
  DataEndpoints = {3}
  Requests <- EnumerationRequests
  MaxDepth = 2
  HostAborts = FALSE
  PromptCode = TRUE
PROPERTIES
  WakeServed
  SetupServed
