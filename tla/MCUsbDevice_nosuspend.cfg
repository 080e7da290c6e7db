\* See README.md, the table of runs.
SPECIFICATION FairSpec
CONSTANTS
  DataEndpoints = {3}
  Requests <- StateRequests
  MaxDepth = 1
  HostAborts = FALSE
  PromptCode = TRUE
PROPERTIES
  SuspendServed
