\* See README.md, the table of runs.
SPECIFICATION FairSpec
CONSTANTS
  DataEndpoints = {3}
  PatientBus = TRUE
INVARIANTS
  TypeOK
  OffMeansOff
  ClockManaged
PROPERTY
  CallsReturn
