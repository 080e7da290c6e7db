\* A supplementary run, see README.md.
SPECIFICATION Spec
CONSTANTS
  DataEndpoints = {3}
  PatientBus = TRUE
INVARIANT
  WakeupPermitted
