\* See README.md, the table of runs.
SPECIFICATION Spec
CONSTANTS
  DataEndpoints = {3}
  Requests <- NoAddressRequests
  MaxDepth = 1
  HostAborts = TRUE
  PromptCode = TRUE
PROPERTIES
  StallOnlyUnhandled
