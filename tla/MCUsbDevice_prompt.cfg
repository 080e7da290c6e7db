\* See README.md, the table of runs.
SPECIFICATION Spec
CONSTANTS
  DataEndpoints = {3}
  Requests <- AllRequests
  MaxDepth = 2
  HostAborts = TRUE
  PromptCode = TRUE
INVARIANTS
  TypeOK
  WakeArmed
  ControlEndpointSelected
  SetupArmed
  SelectionKept
  RequestStable
  SuspendedIsUnattached
PROPERTIES
  ConfigurationFromHost
