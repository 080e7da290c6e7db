\* See README.md, the table of runs.
SPECIFICATION Spec
CONSTANTS
  BankSize = 2
  NotificationBank = 2
  HeaderBytes = 2
  StateBytes = 1
  USB_STREAM_TIMEOUT_MS = 1
  Calls = {"Flush"}
  Lengths = {1}
  EventsLinked = FALSE
  MaxBytes = 0
  HostBytes = 0
INVARIANTS
  LineAgreed
