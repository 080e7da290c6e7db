\* See README.md, the table of runs.
SPECIFICATION Spec
CONSTANTS
  BankSize = 2
  NotificationBank = 2
  HeaderBytes = 2
  StateBytes = 1
  USB_STREAM_TIMEOUT_MS = 0
  Calls = {"BytesReceived", "ReceiveByte", "getchar_Blocking", "Read_Stream", "Discard_Stream", "SendByte", "Header"}
  Lengths = {2}
  EventsLinked = TRUE
  MaxBytes = 1
  HostBytes = 3
INVARIANTS
  ReceivedInOrder
  NotificationWhole
PROPERTIES
  PromiseKept
