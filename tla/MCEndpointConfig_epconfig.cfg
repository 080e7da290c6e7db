\* See README.md, the table of runs.
SPECIFICATION Spec
CONSTANTS
  ENDPOINT_TOTAL_ENDPOINTS = 5
  DpramBytes = 176
  MaxBankBytes = 64
  DoubleBanked = {3, 4}
  Types = {"BULK", "INTERRUPT"}
  Tables <- MCTables
INVARIANTS
  TypeOK
  MemorySeparate
  ConfigurationKept
