\* A supplementary run, see README.md.
SPECIFICATION Spec
CONSTANTS
  BankSize = 2
  NotificationBank = 2
  HeaderBytes = 2
  StateBytes = 1
  USB_STREAM_TIMEOUT_MS = 0
  Calls = {"Header"}
  Lengths = {2}
  EventsLinked = TRUE
  MaxBytes = 0
  HostBytes = 0
PROPERTY NotificationHeaded
