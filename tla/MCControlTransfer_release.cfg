SPECIFICATION Spec
CONSTANTS
  Requests <- MCRequests
  MaxFailures = 0
INVARIANT ReleaseNumberRight
