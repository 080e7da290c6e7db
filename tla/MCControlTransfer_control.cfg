SPECIFICATION FairSpec
CONSTANTS
  Requests <- MCRequests
  MaxFailures = 1
INVARIANTS
  TypeOK
  DataStageRight
  SettingsAgreed
  NoLeftOver
PROPERTIES
  TransfersEnd
