------------------------------ MODULE CdcDevice ------------------------------
(***************************************************************************)
(* The CDC class driver over the data endpoints (CDCClassDevice.c,         *)
(* EndpointStream.c, Template_Endpoint_RW.c, Endpoint_WaitUntilReady): the *)
(* main program calls the driver; in between its steps the host takes and  *)
(* sends packets, frames start, and interrupts reset, suspend, configure   *)
(* or halt.  A byte is its position in what the program sends (or in what  *)
(* the host sends), so a lost or repeated byte shows in the numbers.       *)
(* The interrupts' own steps are those of UsbDevice; here each is atomic,  *)
(* because no driver code runs during it.                                  *)
(***************************************************************************)
EXTENDS Integers, Sequences

CONSTANTS
  BankSize,              \* bytes in a data endpoint's only bank
  NotificationBank,      \* and in the notification endpoint's
  HeaderBytes,           \* sizeof(USB_Request_Header_t)
  StateBytes,            \* sizeof(ControlLineStates.DeviceToHost)
  USB_STREAM_TIMEOUT_MS,
  Calls,                 \* the driver calls the main program makes
  Lengths,               \* lengths of the data it sends or asks for
  EventsLinked,          \* the library's events call the driver
  MaxBytes,              \* bound: bytes the program sends
  HostBytes              \* bound: bytes the host sends

ASSUME SizesAssumption ==
  /\ BankSize \in Nat \ {0} /\ NotificationBank \in Nat \ {0}
  /\ HeaderBytes \in Nat \ {0} /\ StateBytes \in Nat \ {0}
  /\ USB_STREAM_TIMEOUT_MS \in Nat
  /\ Lengths \subseteq Nat \ {0} /\ MaxBytes \in Nat /\ HostBytes \in Nat

\* A notification ends in a packet that is not full (8 + 2 bytes in banks of 8):
\* nothing else would tell the host where it ends.
ASSUME NotificationAssumption ==
  \A packets \in 0 .. HeaderBytes + StateBytes :
    packets * NotificationBank # HeaderBytes + StateBytes

VARIABLES
  USB_DeviceState,                \* Powered, Default, Addressed: "Default"
  USB_Device_ConfigurationNumber,
  line,       \* the device's LineEncoding.BaudRateBPS is not zero
  hostLine,   \* the host has set a rate that is not zero
  sel,        \* the selected endpoint
  bank,       \* the banks of the two IN endpoints
  stall,      \* STALLRQ of the data IN endpoint
  control,    \* what the driver did to the control endpoint's bank
  out,        \* the bank of the OUT endpoint
  call,       \* the driver call under way
  msg,        \* the program's data: start, length, *BytesProcessed
  got,        \* last byte the host took
  short,      \* its last packet from the data IN endpoint was not full
  heard,      \* bytes of the notification the host is receiving
  fed,        \* last byte the host sent
  ate,        \* last byte the program was given
  promised,   \* receive calls that BytesReceived said would succeed
  dropped,    \* an interrupt emptied the OUT bank of bytes
  disturbed   \* a call failed, or an interrupt emptied an IN bank or cut a call

device == <<USB_DeviceState, USB_Device_ConfigurationNumber, line, hostLine>>
sending == <<bank, msg, got, short, heard>>
receiving == <<out, fed, ate, promised, dropped>>
vars == <<device, sel, stall, control, sending, receiving, call, disturbed>>

INs == {"IN", "NOTIF"}
Streams == {"SendData", "Write_Stream", "Null_Stream", "Header", "State",
            "Read_Stream", "Discard_Stream"}
Resumable == {"Write_Stream", "Null_Stream"}
Reading == {"Read_Stream", "Discard_Stream"}
Receiving == {"BytesReceived", "ReceiveByte", "getchar_Blocking"}
Flushing == {"Flush", "getchar_Flush"}

\* The endpoint a call selects.
EndpointOf(op) ==
  IF op \in {"Header", "State"} THEN "NOTIF"
  ELSE IF op \in Reading \cup Receiving THEN "OUT" ELSE "IN"

SizeOf(e) == IF e = "NOTIF" THEN NotificationBank ELSE BankSize

Empty == [bytes |-> <<>>, busy |-> FALSE]
Call(op, at, from, len, left) ==
  [op |-> op, at |-> at, from |-> from, len |-> len, left |-> left,
   then |-> "idle", rem |-> 0, moved |-> FALSE, frames |-> 0, full |-> FALSE]
NoCall == Call("none", "idle", 0, 0, 0)

Init ==
  /\ USB_DeviceState = "Unattached" /\ USB_Device_ConfigurationNumber = 0
  /\ line = FALSE /\ hostLine = FALSE /\ sel = "EP0"
  /\ bank = [e \in INs |-> Empty] /\ stall = FALSE
  /\ out = [bytes |-> <<>>, full |-> FALSE]
  /\ call = NoCall /\ msg = [base |-> 0, len |-> 0, processed |-> 0]
  /\ got = 0 /\ short = TRUE /\ heard = <<>>
  /\ control = "empty"
  /\ fed = 0 /\ ate = 0 /\ promised = 0 /\ dropped = FALSE /\ disturbed = FALSE

-----------------------------------------------------------------------------
(* Endpoint.h on the selected endpoint.  On the control endpoint, which a   *)
(* bus reset selects, a flag reads as anything, and the bytes written, or   *)
(* an empty packet, are sent from its bank unless a SETUP packet frees it.  *)

ReadWriteAllowed(b) ==
  CASE sel \in INs -> b = /\ ~bank[sel].busy
                          /\ Len(bank[sel].bytes) < SizeOf(sel)
                          /\ ~(sel = "IN" /\ stall)
    [] sel = "OUT" -> b = (out.full /\ out.bytes # <<>>)
    [] OTHER -> b \in BOOLEAN

\* IsINReady or IsOUTReceived, by Endpoint_GetEndpointDirection.
EndpointReady(b) ==
  CASE sel \in INs -> b = ~bank[sel].busy
    [] sel = "OUT" -> b = out.full
    [] OTHER -> b \in BOOLEAN

IsStalled == sel = "IN" /\ stall

BytesInEndpoint(b) ==
  CASE sel \in INs -> b = (bank[sel].bytes # <<>>)
    [] sel = "OUT" -> b = (out.bytes # <<>>)
    [] OTHER -> b \in BOOLEAN

\* Sends the bank; one that still waits for the host is not sent again.
ClearIN ==
  /\ bank' = IF sel \in INs THEN [bank EXCEPT ![sel].busy = TRUE] ELSE bank
  /\ control' = IF sel = "EP0" THEN "sent" ELSE control

ClearOUT ==
  out' = IF sel = "OUT" THEN [bytes |-> <<>>, full |-> FALSE] ELSE out

Write_8(byte) ==
  /\ bank' = IF /\ sel \in INs /\ ~bank[sel].busy
                /\ Len(bank[sel].bytes) < SizeOf(sel)
             THEN [bank EXCEPT ![sel].bytes = Append(@, byte)] ELSE bank
  /\ control' = IF sel = "EP0" /\ control = "empty" THEN "written" ELSE control

Read_8 ==
  IF sel = "OUT" /\ out.bytes # <<>>
  THEN /\ ate' = Head(out.bytes)
       /\ out' = [out EXCEPT !.bytes = Tail(@)]
  ELSE UNCHANGED <<ate, out>>

-----------------------------------------------------------------------------
(* Calls of the main program.  The guard every driver function starts with: *)

Usable == USB_DeviceState = "Configured" /\ line

Goto(at) == call' = [call EXCEPT !.at = at]
Return == call' = NoCall

Begin(op, from, len, left) ==
  /\ call.at = "idle" /\ op \in Calls /\ Usable
  /\ call' = Call(op, "select", from, len, left)
  /\ UNCHANGED <<device, sel, stall, control, bank, got, short, heard, receiving,
                 disturbed>>

\* SendString and SendData: a stream without BytesProcessed.
CDC_Device_SendData ==
  \E n \in Lengths :
    /\ msg.processed = 0 /\ msg.base + n =< MaxBytes
    /\ Begin("SendData", msg.base, n, n) /\ UNCHANGED msg

\* Mutated form: Length is not reduced by *BytesProcessed.
WriteStreamFromStart(op) ==
  \E n \in Lengths :
    /\ msg.processed > 0 => n = msg.len
    /\ msg.base + n =< MaxBytes
    /\ Begin(op, msg.base, n, n)
    /\ msg' = [msg EXCEPT !.len = n]

\* A stream of the application's own; one left incomplete is resumed.
Endpoint_Write_Stream(op) ==
  \E n \in Lengths :
    /\ msg.processed > 0 => n = msg.len
    /\ msg.base + n =< MaxBytes
    /\ Begin(op, msg.base, n, n - msg.processed)
    /\ msg' = [msg EXCEPT !.len = n]

CDC_Device_SendByte ==
  /\ msg.processed = 0 /\ msg.base < MaxBytes
  /\ Begin("SendByte", msg.base, 1, 1) /\ UNCHANGED msg

CDC_Device_Flush == Begin("Flush", 0, 0, 0) /\ UNCHANGED msg

CDC_Device_SendControlLineStateChange ==
  Begin("Header", 0, HeaderBytes, HeaderBytes) /\ UNCHANGED msg

Receive(op) == Begin(op, 0, 0, 0) /\ UNCHANGED msg

ReadStream(op) == \E n \in Lengths : Begin(op, 0, n, n) /\ UNCHANGED msg

Application ==
  \/ CDC_Device_SendData \/ CDC_Device_SendByte \/ CDC_Device_Flush
  \/ CDC_Device_SendControlLineStateChange
  \/ \E op \in Resumable : Endpoint_Write_Stream(op)
  \/ \E op \in Receiving : Receive(op)
  \/ \E op \in Reading : ReadStream(op)

-----------------------------------------------------------------------------
(* Steps of the calls. *)

Waiting(c, then) ==
  [op |-> c.op, at |-> "poll", from |-> c.from, len |-> c.len,
   left |-> c.left, then |-> then, rem |-> USB_STREAM_TIMEOUT_MS,
   moved |-> FALSE, frames |-> 0, full |-> c.full]

\* The second stream of a notification.
SendState ==
  Waiting(Call("State", "poll", HeaderBytes, StateBytes, StateBytes), "turn")

\* Mutated form: CDC_Device_SendByte relies on the endpoint selected last.
SelectEndpointForgotten ==
  /\ call.at = "select"
  /\ sel' = IF call.op = "SendByte" THEN sel ELSE EndpointOf(call.op)
  /\ call' = IF call.op \in Streams THEN Waiting(call, "turn")
             ELSE IF call.op \in Receiving THEN [call EXCEPT !.at = "received"]
             ELSE IF call.op = "SendByte" THEN [call EXCEPT !.at = "room"]
             ELSE [call EXCEPT !.at = "bytes"]
  /\ UNCHANGED <<device, stall, control, sending, receiving, disturbed>>

Endpoint_SelectEndpoint ==
  /\ call.at = "select"
  /\ sel' = EndpointOf(call.op)
  /\ call' = IF call.op \in Streams THEN Waiting(call, "turn")
             ELSE IF call.op \in Receiving THEN [call EXCEPT !.at = "received"]
             ELSE IF call.op = "SendByte" THEN [call EXCEPT !.at = "room"]
             ELSE [call EXCEPT !.at = "bytes"]
  /\ UNCHANGED <<device, stall, control, sending, receiving, disturbed>>

\* What a call reports.  A stream function returns the code of a failed wait as
\* its own; only the success of both decides how the code modelled here goes on.
Endpoint_WaitUntilReady_ErrorCodes_t ==
  [NoError |-> 0, EndpointStalled |-> 1, DeviceDisconnected |-> 2,
   BusSuspended |-> 3, Timeout |-> 4]
Endpoint_Stream_RW_ErrorCodes_t ==
  [NoError |-> 0, EndpointStalled |-> 1, DeviceDisconnected |-> 2,
   BusSuspended |-> 3, Timeout |-> 4, IncompleteTransfer |-> 5]

\* getchar_Blocking goes on after its call of Flush.
GetcharAgain == Call("getchar_Blocking", "again", 0, 0, 0)

\* What the program makes of an error.  Without BytesProcessed it cannot tell
\* how far the stream came and goes on behind it; the notification's two
\* streams ignore their results.
Failed ==
  /\ call' = CASE call.op = "Header" -> SendState
               [] call.op = "State" -> [call EXCEPT !.at = "clear"]
               [] call.op = "getchar_Flush" -> GetcharAgain
               [] OTHER -> NoCall
  /\ msg' = IF call.op = "SendData" THEN [msg EXCEPT !.base = @ + call.len]
            ELSE msg
  /\ disturbed' = (disturbed \/ call.op \notin Resumable \cup Reading)

\* Endpoint_WaitUntilReady: test the endpoint ...
WaitPoll ==
  /\ call.at = "poll"
  /\ \E b \in BOOLEAN :
       EndpointReady(b) /\ Goto(IF b THEN call.then ELSE "check")
  /\ UNCHANGED <<device, sel, stall, control, sending, receiving, disturbed>>

\* ... then the device, the endpoint's stall and the frame number.
\* Mutated forms: the remaining time tested after the decrement; not at all.
TimedOutEarly == call.moved /\ call.rem =< 1
TimedOutNever == FALSE
TimedOut == call.moved /\ call.rem = 0

\* Mutated form: without the test for DEVICE_STATE_Unattached.
WaitCheckAttached ==
  /\ call.at = "check"
  /\ IF IsStalled \/ TimedOut
     THEN Failed
     ELSE /\ call' = [call EXCEPT
                        !.at = "poll", !.moved = FALSE,
                        !.rem = IF call.moved THEN @ - 1 ELSE @]
          /\ UNCHANGED <<msg, disturbed>>
  /\ UNCHANGED <<device, sel, stall, control, bank, got, short, heard, receiving>>

WaitCheck ==
  /\ call.at = "check"
  /\ IF USB_DeviceState = "Unattached" \/ IsStalled \/ TimedOut
     THEN Failed
     ELSE /\ call' = [call EXCEPT
                        !.at = "poll", !.moved = FALSE,
                        !.rem = IF call.moved THEN @ - 1 ELSE @]
          /\ UNCHANGED <<msg, disturbed>>
  /\ UNCHANGED <<device, sel, stall, control, bank, got, short, heard, receiving>>

\* The ends of a stream: all transferred, or stopped at a full (empty) bank
\* with *BytesProcessed moved on.
StreamDone ==
  /\ msg' = IF call.op \in Resumable \cup {"SendData"}
            THEN [base |-> msg.base + call.len, len |-> 0, processed |-> 0]
            ELSE msg
  /\ call' = CASE call.op = "Header" -> SendState
               [] call.op = "State" -> [call EXCEPT !.at = "clear"]
               [] OTHER -> NoCall

\* Mutated form: *BytesProcessed is not updated.
StreamIncompleteUncounted == UNCHANGED msg /\ Return

StreamIncomplete ==
  /\ msg' = [msg EXCEPT !.processed = @ + (call.len - @ - call.left)]
  /\ Return

\* One turn of a stream's loop; done and transfer are what differs.
StreamTurn(ops, Clear, Transfer) ==
  /\ call.at = "turn" /\ call.op \in ops
  /\ IF call.left = 0
     THEN StreamDone /\ UNCHANGED <<bank, control, out, ate>>
     ELSE \E allowed \in BOOLEAN :
            /\ ReadWriteAllowed(allowed)
            /\ IF allowed
               THEN /\ Transfer
                    /\ call' = [call EXCEPT !.left = @ - 1]
                    /\ UNCHANGED msg
               ELSE /\ Clear
                    /\ IF call.op \in Resumable
                       THEN StreamIncomplete
                       ELSE call' = Waiting(call, "turn") /\ UNCHANGED msg
  /\ promised' = IF call.op \in Reading THEN 0 ELSE promised
  /\ UNCHANGED <<device, sel, stall, got, short, heard, fed, dropped, disturbed>>

NextByte == call.from + (call.len - call.left) + 1

WriteStreamTurn ==
  StreamTurn({"SendData", "Write_Stream", "Header", "State"},
             ClearIN /\ UNCHANGED <<out, ate>>,
             Write_8(NextByte) /\ UNCHANGED <<out, ate>>)

NullStreamTurn ==
  StreamTurn({"Null_Stream"}, ClearIN /\ UNCHANGED <<out, ate>>,
             Write_8(NextByte) /\ UNCHANGED <<out, ate>>)

ReadStreamTurn ==
  StreamTurn({"Read_Stream"}, ClearOUT /\ UNCHANGED <<bank, control, ate>>,
             Read_8 /\ UNCHANGED <<bank, control>>)

DiscardStreamTurn ==
  StreamTurn({"Discard_Stream"}, ClearOUT /\ UNCHANGED <<bank, control, ate>>,
             Read_8 /\ UNCHANGED <<bank, control>>)

-----------------------------------------------------------------------------
(* The rest of the driver's functions, one action per access. *)

\* CDC_Device_SendByte
SendByteRoom ==
  /\ call.at = "room"
  /\ \E allowed \in BOOLEAN :
       ReadWriteAllowed(allowed) /\ Goto(IF allowed THEN "write" ELSE "clear")
  /\ UNCHANGED <<device, sel, stall, control, sending, receiving, disturbed>>

\* Mutated form: without the wait for the bank.
SendByteClearOnly ==
  /\ call.at = "clear" /\ call.op = "SendByte"
  /\ ClearIN /\ Goto("write")
  /\ UNCHANGED <<device, sel, stall, msg, got, short, heard, receiving,
                 disturbed>>

SendByteClear ==
  /\ call.at = "clear" /\ call.op = "SendByte"
  /\ ClearIN /\ call' = Waiting(call, "write")
  /\ UNCHANGED <<device, sel, stall, msg, got, short, heard, receiving,
                 disturbed>>

SendByteWrite ==
  /\ call.at = "write"
  /\ Write_8(NextByte) /\ msg' = [msg EXCEPT !.base = @ + 1] /\ Return
  /\ UNCHANGED <<device, sel, stall, got, short, heard, receiving, disturbed>>

\* CDC_Device_Flush, called by the program or from getchar_Blocking.
FlushReturns ==
  call' = IF call.op = "getchar_Flush" THEN GetcharAgain ELSE NoCall

\* Mutated form: the test of Endpoint_BytesInEndpoint the wrong way round.
FlushBytesInverted ==
  /\ call.at = "bytes"
  /\ \E b \in BOOLEAN :
       BytesInEndpoint(b) /\ (IF b THEN FlushReturns ELSE Goto("full"))
  /\ UNCHANGED <<device, sel, stall, control, sending, receiving, disturbed>>

FlushBytes ==
  /\ call.at = "bytes"
  /\ \E b \in BOOLEAN :
       BytesInEndpoint(b) /\ (IF b THEN Goto("full") ELSE FlushReturns)
  /\ UNCHANGED <<device, sel, stall, control, sending, receiving, disturbed>>

\* Mutated form: BankFull is not recorded.
FlushNeverFull ==
  /\ call.at = "full" /\ Goto("clear")
  /\ UNCHANGED <<device, sel, stall, control, sending, receiving, disturbed>>

FlushFull ==
  /\ call.at = "full"
  /\ \E allowed \in BOOLEAN :
       /\ ReadWriteAllowed(allowed)
       /\ call' = [call EXCEPT !.full = ~allowed, !.at = "clear"]
  /\ UNCHANGED <<device, sel, stall, control, sending, receiving, disturbed>>

FlushClear ==
  /\ call.at = "clear" /\ call.op \in Flushing
  /\ ClearIN
  /\ IF call.full THEN call' = Waiting(call, "last") ELSE FlushReturns
  /\ UNCHANGED <<device, sel, stall, msg, got, short, heard, receiving,
                 disturbed>>

FlushLast ==
  /\ call.at = "last" /\ ClearIN /\ FlushReturns
  /\ UNCHANGED <<device, sel, stall, msg, got, short, heard, receiving,
                 disturbed>>

\* Mutated form: the notification's second packet is not sent.
NotificationKept ==
  /\ call.at = "clear" /\ call.op = "State"
  /\ Return
  /\ UNCHANGED <<device, sel, stall, control, sending, receiving, disturbed>>

\* The last statement of CDC_Device_SendControlLineStateChange.
NotificationClear ==
  /\ call.at = "clear" /\ call.op = "State"
  /\ ClearIN /\ Return
  /\ UNCHANGED <<device, sel, stall, msg, got, short, heard, receiving,
                 disturbed>>

\* A receiving function without a byte for its caller: getchar_Blocking loops.
NoByte ==
  IF call.op = "getchar_Blocking" THEN Goto("blocked") ELSE Return

Received ==
  /\ call.at = "received"
  /\ \E b \in BOOLEAN :
       EndpointReady(b) /\ (IF b THEN Goto("take") ELSE NoByte)
  /\ UNCHANGED <<device, sel, stall, control, sending, receiving, disturbed>>

\* CDC_Device_BytesReceived
BytesReceivedCount ==
  /\ call.at = "take" /\ call.op = "BytesReceived"
  /\ \E b \in BOOLEAN :
       /\ BytesInEndpoint(b)
       /\ IF b THEN UNCHANGED out ELSE ClearOUT
       /\ promised' = IF b /\ sel = "OUT" THEN Len(out.bytes) ELSE 0
  /\ Return
  /\ UNCHANGED <<device, sel, stall, control, sending, fed, ate, dropped, disturbed>>

\* CDC_Device_ReceiveByte
ReceiveByteRead ==
  /\ call.at = "take" /\ call.op \in {"ReceiveByte", "getchar_Blocking"}
  /\ \E b \in BOOLEAN :
       /\ BytesInEndpoint(b)
       /\ IF b THEN Read_8 ELSE UNCHANGED <<out, ate>>
       /\ promised' = IF b /\ promised > 0 THEN promised - 1 ELSE promised
       /\ call' = [call EXCEPT !.at = "release", !.full = b]
  /\ UNCHANGED <<device, sel, stall, control, sending, fed, dropped, disturbed>>

\* Mutated form: the bank is given back with bytes in it.
ReceiveByteReleaseAlways ==
  /\ call.at = "release" /\ ClearOUT
  /\ IF call.full THEN Return ELSE NoByte
  /\ UNCHANGED <<device, sel, stall, control, sending, fed, ate, promised, dropped,
                 disturbed>>

ReceiveByteRelease ==
  /\ call.at = "release"
  /\ \E b \in BOOLEAN :
       /\ BytesInEndpoint(b)
       /\ IF b THEN UNCHANGED out ELSE ClearOUT
  /\ IF call.full THEN Return ELSE NoByte
  /\ UNCHANGED <<device, sel, stall, control, sending, fed, ate, promised, dropped,
                 disturbed>>

\* CDC_Device_getchar_Blocking: give up, or run the tasks and try again.
getchar_Blocked ==
  /\ call.at = "blocked"
  /\ IF USB_DeviceState = "Unattached" THEN Return ELSE Goto("usbtask")
  /\ UNCHANGED <<device, sel, stall, control, sending, receiving, disturbed>>

CDC_Device_USBTask ==
  /\ call.at = "usbtask"
  /\ call' = IF Usable
             THEN Call("getchar_Flush", "select", 0, 0, 0)
             ELSE [call EXCEPT !.at = "again"]
  /\ UNCHANGED <<device, sel, stall, control, sending, receiving, disturbed>>

getchar_Again ==
  /\ call.at = "again"
  /\ Goto(IF Usable THEN "select" ELSE "blocked")
  /\ UNCHANGED <<device, sel, stall, control, sending, receiving, disturbed>>

Code ==
  \/ Endpoint_SelectEndpoint \/ WaitPoll \/ WaitCheck
  \/ WriteStreamTurn \/ NullStreamTurn \/ ReadStreamTurn \/ DiscardStreamTurn
  \/ SendByteRoom \/ SendByteClear \/ SendByteWrite
  \/ FlushBytes \/ FlushFull \/ FlushClear \/ FlushLast \/ NotificationClear
  \/ Received \/ BytesReceivedCount \/ ReceiveByteRead \/ ReceiveByteRelease
  \/ getchar_Blocked \/ CDC_Device_USBTask \/ getchar_Again

-----------------------------------------------------------------------------
(* The host, and the interrupts it causes. *)

InUse == USB_DeviceState = "Configured" /\ USB_Device_ConfigurationNumber = 1

HostTakes ==
  /\ InUse /\ bank["IN"].busy /\ ~stall
  /\ LET bytes == bank["IN"].bytes IN
       /\ got' = IF bytes = <<>> THEN got ELSE bytes[Len(bytes)]
       /\ short' = (Len(bytes) < BankSize)
  /\ bank' = [bank EXCEPT !["IN"] = Empty]
  /\ UNCHANGED <<device, sel, stall, control, msg, heard, receiving, call, disturbed>>

\* A short packet ends the notification (heard is not kept once disturbed).
HostHears ==
  /\ InUse /\ bank["NOTIF"].busy
  /\ heard' = IF disturbed \/ Len(bank["NOTIF"].bytes) < NotificationBank
              THEN <<>> ELSE heard \o bank["NOTIF"].bytes
  /\ bank' = [bank EXCEPT !["NOTIF"] = Empty]
  /\ UNCHANGED <<device, sel, stall, control, msg, got, short, receiving, call,
                 disturbed>>

HostSends ==
  /\ InUse /\ ~out.full
  /\ \E n \in 0 .. BankSize :
       /\ fed + n =< HostBytes
       /\ out' = [bytes |-> [i \in 1 .. n |-> fed + i], full |-> TRUE]
       /\ fed' = fed + n
  /\ UNCHANGED <<device, sel, stall, control, sending, ate, promised, dropped, call,
                 disturbed>>

StartOfFrame ==
  /\ USB_DeviceState # "Unattached" /\ call.at \in {"poll", "check"}
  /\ call' = [call EXCEPT !.moved = TRUE,
                !.frames = IF @ > USB_STREAM_TIMEOUT_MS THEN @ ELSE @ + 1]
  /\ UNCHANGED <<device, sel, stall, control, sending, receiving, disturbed>>

\* An endpoint that is reset, or disabled to be configured, is emptied.  That
\* disturbs nothing while no call is under way and nothing is there to lose.
\* A reset frees the control endpoint's bank, as each SETUP packet does.
BanksEmptied ==
  /\ bank' = [e \in INs |-> Empty]
  /\ out' = [bytes |-> <<>>, full |-> FALSE]
  /\ promised' = 0
  /\ dropped' = (dropped \/ out.bytes # <<>>)
  /\ disturbed' = \/ disturbed \/ call.at # "idle" \/ heard # <<>>
                  \/ \E e \in INs : bank[e] # Empty

\* The end-of-reset interrupt leaves the control endpoint selected.
BusReset ==
  /\ USB_DeviceState' = "Default" /\ USB_Device_ConfigurationNumber' = 0
  /\ hostLine' = FALSE
  /\ sel' = "EP0" /\ stall' = FALSE /\ control' = "empty" /\ BanksEmptied
  /\ UNCHANGED <<line, msg, got, short, heard, fed, ate, call>>

Suspend ==
  /\ USB_DeviceState = "Configured"
  /\ USB_DeviceState' = "Unattached"
  /\ UNCHANGED <<USB_Device_ConfigurationNumber, line, hostLine, sel, stall, control,
                 sending, receiving, call, disturbed>>

\* Without a configuration the address decides (USB_Device_IsAddressSet).
WakeUp ==
  /\ USB_DeviceState = "Unattached"
  /\ USB_DeviceState' \in IF USB_Device_ConfigurationNumber = 1
                          THEN {"Configured"} ELSE {"Configured", "Default"}
  /\ UNCHANGED <<USB_Device_ConfigurationNumber, line, hostLine, sel, stall, control,
                 sending, receiving, call, disturbed>>

\* SET CONFIGURATION, and CDC_Device_ConfigureEndpoints when its event is
\* linked.  The interrupt restores the selected endpoint.
HostConfigures ==
  /\ USB_DeviceState # "Unattached"
  /\ USB_DeviceState' = "Configured" /\ USB_Device_ConfigurationNumber' = 1
  /\ hostLine' = FALSE /\ control' = "empty"
  /\ IF EventsLinked
     THEN line' = FALSE /\ stall' = FALSE /\ BanksEmptied
     ELSE UNCHANGED <<line, stall, bank, out, promised, dropped, disturbed>>
  /\ UNCHANGED <<sel, msg, got, short, heard, fed, ate, call>>

\* SET LINE ENCODING, with any rate.
HostSetsLineEncoding ==
  /\ InUse
  /\ \E rate \in BOOLEAN :
       /\ hostLine' = rate
       /\ line' = IF EventsLinked THEN rate ELSE line
  /\ control' = "empty"
  /\ UNCHANGED <<USB_DeviceState, USB_Device_ConfigurationNumber, sel, stall,
                 sending, receiving, call, disturbed>>

\* Whatever the banks of an endpoint hold is lost.
Endpoint_ResetEndpoint(e) == bank' = [bank EXCEPT ![e] = Empty]

\* SET and CLEAR FEATURE ENDPOINT_HALT of the data IN endpoint.
HostHalts ==
  /\ InUse /\ ~stall /\ stall' = TRUE /\ control' = "empty"
  /\ UNCHANGED <<device, sel, sending, receiving, call, disturbed>>

HostClearsHalt ==
  /\ InUse /\ stall' = FALSE /\ control' = "empty"
  /\ Endpoint_ResetEndpoint("IN")
  /\ disturbed' = (disturbed \/ bank["IN"] # Empty)
  /\ UNCHANGED <<device, sel, msg, got, short, heard, receiving, call>>

Environment ==
  \/ HostTakes \/ HostHears \/ HostSends \/ StartOfFrame
  \/ BusReset \/ Suspend \/ WakeUp \/ HostConfigures \/ HostSetsLineEncoding
  \/ HostHalts \/ HostClearsHalt

Next == Application \/ Code \/ Environment

\* The main program runs, and main.c flushes on every pass of its loop; the
\* controller serves the endpoints and frames start while the bus is active.
Fairness ==
  /\ WF_vars(Code) /\ SF_vars(CDC_Device_Flush)
  /\ WF_vars(HostTakes) /\ WF_vars(StartOfFrame)

Spec == Init /\ [][Next]_vars /\ Fairness

-----------------------------------------------------------------------------
(* Properties *)

\* Every variable stays in its range: the banks hold no more than their size,
\* a call's remaining length is within its length, waits count frames down.
TypeOK ==
  /\ USB_DeviceState \in {"Unattached", "Default", "Configured"}
  /\ USB_Device_ConfigurationNumber \in {0, 1}
  /\ {line, hostLine, stall, short, dropped, disturbed} \subseteq BOOLEAN
  /\ control \in {"empty", "written", "sent"}
  /\ sel \in INs \cup {"OUT", "EP0"}
  /\ \A e \in INs : /\ Len(bank[e].bytes) \in 0 .. SizeOf(e)
                     /\ bank[e].busy \in BOOLEAN
  /\ Len(out.bytes) \in 0 .. BankSize /\ out.full \in BOOLEAN
  /\ call.left \in 0 .. call.len
  /\ call.rem \in 0 .. USB_STREAM_TIMEOUT_MS
  /\ {msg.base, msg.len, msg.processed, got} \subseteq 0 .. MaxBytes
  /\ {fed, ate} \subseteq 0 .. HostBytes
  /\ msg.processed =< msg.len
  /\ promised \in 0 .. BankSize

\* The last byte the program has written, or given up.
Written ==
  IF call.op \in {"SendData"} \cup Resumable
  THEN call.from + (call.len - call.left)
  ELSE msg.base + msg.processed

\* The sending half of the driver implements the abstract channel: the data IN
\* bank is what the channel holds.
Channel == INSTANCE ByteChannel
             WITH Capacity <- BankSize, sent <- Written,
                  pipe <- bank["IN"].bytes, got <- got, intact <- ~disturbed
ImplementsChannel == Channel!Spec

\* Whatever fails, is reset, halted, timed out or resumed, the host receives no
\* byte of SendData, SendByte or a resumed stream twice, and none late.
InOrder == Channel!Ordered

\* As long as no call fails and no bank is emptied, none is missing either:
\* what the host has and what is in the bank is all that was written.
NothingMissing == Channel!Complete

\* Whatever calls fail, time out or are reset, sending or receiving: the OUT bank
\* holds what the host sent last, none of which the program was given before, and
\* nothing is missing between the two unless a reset or SET CONFIGURATION emptied
\* the bank of bytes.  So no byte is given twice, none late, and no call loses one.
ReceivedInOrder ==
  LET before == fed - Len(out.bytes) IN
    /\ \A i \in DOMAIN out.bytes : out.bytes[i] = before + i
    /\ ate =< before
    /\ ~dropped => ate = before

\* The driver stays off the control endpoint, which a bus reset selects and which
\* interrupts leave as they found it: every call selects its own endpoint before it
\* writes or sends, so that only a bus reset in the middle of a call (which
\* disturbs it) lets the bytes out on the wrong pipe.
ControlEndpointUntouched == control # "empty" => disturbed

\* A Flush that returns leaves the host with a packet that ends the transfer:
\* a short one, or a zero-length one behind a full one; unless a stream of the
\* application is still to be resumed, or an earlier call failed (a Flush that
\* timed out behind a full packet is not completed).
FlushEndsTransfer ==
  [][(/\ call.op \in Flushing /\ call.at \in {"bytes", "clear", "last"}
      /\ call'.op \notin Flushing /\ ~disturbed')
     => IF bank'["IN"].busy THEN Len(bank'["IN"].bytes) < BankSize
        ELSE bank'["IN"].bytes = <<>> /\ (short' \/ msg.len > 0)]_vars

\* CDCClassDevice.h promises as many successful ReceiveByte calls as
\* BytesReceived counted; ReceiveByte finds no byte only when none is due.
PromiseKept ==
  [][(call.at \in {"received", "release"} /\ call'.at \in {"idle", "blocked"}
      /\ ~call.full) => promised = 0]_vars

\* A wait that gives up on a configured device whose endpoint is not stalled
\* has seen USB_STREAM_TIMEOUT_MS whole frames.
TimeoutNotEarly ==
  [][(/\ call.at = "check"
       /\ (call'.op # call.op \/ call'.at \notin {"check", "poll"})
       /\ USB_DeviceState # "Unattached" /\ ~IsStalled)
     => call.frames > USB_STREAM_TIMEOUT_MS]_vars

\* A notification reaches the host whole, header and state, or not at all,
\* as long as no wait of the call failed.
NotificationWhole ==
  ~disturbed =>
    LET bytes == heard \o bank["NOTIF"].bytes IN
      /\ \A i \in DOMAIN bytes : bytes[i] = i
      /\ (bank["NOTIF"].busy /\ Len(bank["NOTIF"].bytes) < NotificationBank)
           => Len(bytes) = HeaderBytes + StateBytes

\* A byte put into the bank of a configured device leaves it, however slow the
\* host is and whichever of the program's calls time out.
NothingStuck ==
  \A n \in 1 .. MaxBytes :
    (\E i \in DOMAIN bank["IN"].bytes : bank["IN"].bytes[i] = n)
      ~> \/ ~\E i \in DOMAIN bank["IN"].bytes : bank["IN"].bytes[i] = n
         \/ ~InUse \/ ~line \/ stall

\* No wait is for ever, unless the bus is suspended and woken for ever: the
\* packet comes, or the frames run out, or the device is found detached.
WaitsEnd ==
  (<>[](USB_DeviceState = "Unattached") \/ <>[](USB_DeviceState # "Unattached"))
  => (call.at \in {"poll", "check"} ~> call.at \notin {"poll", "check"})

\* The state of a notification follows its whole header.  The code ignores how
\* the header's stream ended, and writes the state all the same.
NotificationHeaded ==
  [][call.op = "Header" /\ call'.op = "State" => call.left = 0]_vars

\* The device takes the line encoding the host sets.
LineAgreed == USB_Device_ConfigurationNumber = 1 => line = hostLine
=============================================================================
