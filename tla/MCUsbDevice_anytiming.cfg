\* See README.md, the table of runs.
SPECIFICATION Spec
CONSTANTS
  DataEndpoints = {3}
  Requests <- StateRequests
  MaxDepth = 1
  HostAborts = TRUE
  PromptCode = FALSE
INVARIANTS
  Inv
  ControlEndpointSelected
  SelectionKept
