\* See README.md, the table of runs.
SPECIFICATION Spec
CONSTANTS
  BankSize = 2
  NotificationBank = 2
  HeaderBytes = 2
  StateBytes = 1
  USB_STREAM_TIMEOUT_MS = 1
  Calls = {"SendData", "SendByte", "Flush", "Write_Stream", "Null_Stream"}
  Lengths = {2}
  EventsLinked = TRUE
  MaxBytes = 4
  HostBytes = 0
INVARIANTS
  TypeOK
  InOrder
  NothingMissing
  ControlEndpointUntouched
PROPERTIES
  ImplementsChannel
  WaitsEnd
  NothingStuck
  FlushEndsTransfer
  TimeoutNotEarly
