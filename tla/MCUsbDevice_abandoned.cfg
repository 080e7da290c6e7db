\* See README.md, the table of runs.
SPECIFICATION FairSpec
CONSTANTS
  DataEndpoints = {3}
  Requests <- NoAddressRequests
  MaxDepth = 2
  HostAborts = TRUE
  PromptCode = TRUE
PROPERTIES
  SetupServed
