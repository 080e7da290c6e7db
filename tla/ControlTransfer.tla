-------------------------- MODULE ControlTransfer --------------------------
(***************************************************************************)
(* Control transfers, byte by byte: what the firmware puts into the bank   *)
(* of the control endpoint and takes out of it while it serves a request,  *)
(* and the host that cuts the data into packets and puts it together.      *)
(*                                                                         *)
(* One context serves requests here; UsbDevice has the contexts and the    *)
(* interrupts between them, and SET ADDRESS and SET CONFIGURATION.  The    *)
(* event EVENT_USB_Device_ControlRequest is linked to the CDC driver as    *)
(* its documentation asks for, and to two vendor requests of an            *)
(* application, Load and Store, that use the control streams.              *)
(***************************************************************************)
EXTENDS Descriptors, FiniteSets, SequencesExt

CONSTANTS
  Requests,    \* the control requests the host sends
  MaxFailures  \* bound on the transfers the host abandons

USB_Device_ControlEndpointSize == DeviceDescriptor[8]
ControlInterfaceNumber == 0
DataEndpoints == {2, 3, 4}  \* those CDC_Device_ConfigureEndpoints enables
DataEndpointAddresses == {CDC_NOTIFICATION_EPADDR, CDC_TX_EPADDR, CDC_RX_EPADDR}
ENDPOINT_EPNUM_MASK == 16   \* the endpoint is the address modulo this
CONTROL_REQTYPE_RECIPIENT == 32  \* the recipient is the type modulo this

REQDIR_HOSTTODEVICE == 0
REQDIR_DEVICETOHOST == 128
REQTYPE_STANDARD == 0
REQTYPE_CLASS == 32
REQTYPE_VENDOR == 64
REQREC_DEVICE == 0
REQREC_INTERFACE == 1
REQREC_ENDPOINT == 2

FEATURE_SEL_EndpointHalt == 0
FEATURE_SEL_DeviceRemoteWakeup == 1
FEATURE_REMOTE_WAKEUP_ENABLED == 2

ReadOps == {"GetDescriptor", "GetStatus", "GetLineEncoding", "Load"}
WriteOps == {"ClearFeature", "SetFeature", "SetLineEncoding",
             "SetControlLineState", "SendBreak", "Store"}

ASSUME RequestsAssumption ==
  Requests \subseteq [op : ReadOps \cup WriteOps \cup {"Unsupported"},
                      bmRequestType : UInt8,
                      wValue : UInt16, wIndex : UInt16, wLength : UInt16,
                      data : Seq(UInt8)]
\* A host asks for data only where it wants some, and sends wLength bytes.
ASSUME LengthsAssumption ==
  \A r \in Requests :
    IF r.bmRequestType >= REQDIR_DEVICETOHOST
    THEN r.wLength > 0 /\ r.data = <<>>
    ELSE r.wLength = Len(r.data)
\* The line encoding is asked for, and sent, as a whole.
ASSUME LineEncodingAssumption ==
  \A r \in Requests : /\ r.op = "GetLineEncoding" => r.wLength = 7
                      /\ r.op = "SetLineEncoding" => Len(r.data) = 7
\* The other requests are as USB 2.0 and the CDC specification define them.  The
\* firmware takes that for granted: of a feature it looks at the low byte of the
\* selector and the number in the endpoint's address, a status is two bytes
\* whatever wLength is, and data that comes with a setting is not fetched.
ASSUME WellFormedAssumption ==
  \A r \in Requests :
    /\ r.op = "GetStatus" => r.wLength = 2
    /\ r.op \in {"ClearFeature", "SetFeature"} =>
         /\ r.wValue < 256
         /\ (/\ r.bmRequestType % CONTROL_REQTYPE_RECIPIENT = REQREC_ENDPOINT
             /\ r.wIndex % ENDPOINT_EPNUM_MASK \in DataEndpoints)
              => r.wIndex \in DataEndpointAddresses
    /\ r.op \in {"ClearFeature", "SetFeature", "SetControlLineState", "SendBreak"}
         => r.wLength = 0
\* Every byte of the descriptors is one: the macro for versions, the only part
\* of them that is computed, gives 16 bits.
ASSUME VersionsAssumption ==
  VERSION_BCD(110) \in UInt16 /\ VERSION_BCD(23) \in UInt16
ASSUME MaxFailuresAssumption == MaxFailures \in Nat

VARIABLES
  attached,  \* USB_DeviceState is not Unattached
  ctl,       \* the control endpoint: its bank and its flags
  req,       \* USB_ControlRequest
  pc,        \* where the code is
  job,       \* the stream function's locals
  settings,  \* what requests change
  phase,     \* the host's part of the transfer
  pkt,       \* the SETUP packet it sent last
  got, fed,  \* bytes of the data stage it received, and number it sent
  may,       \* settings the device may have, as far as the host knows
  failures   \* transfers the host abandoned

codeVars == <<req, pc, job, settings>>
hostVars == <<phase, pkt, got, fed, may, failures>>
vars == <<attached, ctl, codeVars, hostVars>>

Empty == [full |-> FALSE, bytes |-> <<>>]
Holding(bytes) == [full |-> TRUE, bytes |-> bytes]
NoJob == [data |-> <<>>, left |-> 0, LastPacketFull |-> FALSE]
NoRequest ==
  [op |-> "Unsupported", bmRequestType |-> REQDIR_HOSTTODEVICE,
   wValue |-> 0, wIndex |-> 0, wLength |-> 0, data |-> <<>>]
NoLineEncoding == [BaudRateBPS |-> 0, CharFormat |-> 0, ParityType |-> 0, DataBits |-> 0]

ClassOps == {"GetLineEncoding", "SetLineEncoding", "SetControlLineState", "SendBreak"}
VendorOps == {"Load", "Store"}

Init ==
  /\ attached = TRUE
  /\ ctl = [setup |-> FALSE, stall |-> FALSE, out |-> Empty, in |-> Empty]
  /\ req = NoRequest /\ pc = "idle" /\ job = NoJob
  /\ settings = [line |-> NoLineEncoding, lineState |-> 0, wakeup |-> FALSE,
                 halted |-> {}, stored |-> <<>>]
  /\ phase = "idle" /\ pkt = NoRequest /\ got = <<>> /\ fed = 0
  /\ may = {settings} /\ failures = 0

-----------------------------------------------------------------------------
(***************************************************************************)
(* The CDC driver's requests and the application's, in the event that      *)
(* comes before the library's own processing.                              *)
(***************************************************************************)
\* CDC_LineEncoding_t on the wire.
LineEncodingBytes(l) ==
  Endpoint_Write_32_LE(l.BaudRateBPS) \o <<l.CharFormat, l.ParityType, l.DataBits>>

\* Mutated LineEncodingOf: the baud rate is read in the other byte order.
LineEncodingOfSwapped(bank) ==
  LET rest == Endpoint_Discard_32(bank)
  IN [BaudRateBPS |-> Endpoint_Read_32_BE(bank), CharFormat |-> rest[1],
      ParityType |-> rest[2], DataBits |-> rest[3]]

LineEncodingOf(bank) ==
  LET rest == Endpoint_Discard_32(bank)
  IN [BaudRateBPS |-> Endpoint_Read_32_LE(bank), CharFormat |-> rest[1],
      ParityType |-> rest[2], DataBits |-> rest[3]]

\* USB_Device_ProcessControlRequest reads the eight bytes of a request.
ReadRequest ==
  /\ pc = "idle" /\ ctl.setup
  /\ req' = pkt /\ pc' = "event"
  /\ UNCHANGED <<attached, ctl, job, settings, hostVars>>

\* The values of bmRequestType under which a request is taken.
RequestTypes(op) ==
  CASE op = "GetStatus" ->
         {REQDIR_DEVICETOHOST + REQTYPE_STANDARD + recipient :
            recipient \in {REQREC_DEVICE, REQREC_ENDPOINT}}
    [] op \in {"ClearFeature", "SetFeature"} ->
         {REQDIR_HOSTTODEVICE + REQTYPE_STANDARD + recipient :
            recipient \in {REQREC_DEVICE, REQREC_ENDPOINT}}
    [] op = "GetDescriptor" ->
         {REQDIR_DEVICETOHOST + REQTYPE_STANDARD + recipient :
            recipient \in {REQREC_DEVICE, REQREC_INTERFACE}}
    [] op = "GetLineEncoding" ->
         {REQDIR_DEVICETOHOST + REQTYPE_CLASS + REQREC_INTERFACE}
    [] op \in ClassOps \ {"GetLineEncoding"} ->
         {REQDIR_HOSTTODEVICE + REQTYPE_CLASS + REQREC_INTERFACE}
    [] op = "Load" -> {REQDIR_DEVICETOHOST + REQTYPE_VENDOR + REQREC_INTERFACE}
    [] op = "Store" -> {REQDIR_HOSTTODEVICE + REQTYPE_VENDOR + REQREC_INTERFACE}
    [] op = "Unsupported" -> {}

Pending(ops) ==
  ctl.setup /\ req.op \in ops /\ req.bmRequestType \in RequestTypes(req.op)

\* CDC_Device_ProcessControlRequest takes only requests for its interface.
ForDriver == Pending(ClassOps) /\ req.wIndex = ControlInterfaceNumber

AfterClassRequest(op) ==
  CASE op = "GetLineEncoding" -> "lineIn"
    [] op = "SetLineEncoding" -> "lineOut"
    [] OTHER                  -> "statusIn"

ClassRequest ==
  /\ pc = "event" /\ ForDriver
  /\ ctl' = [ctl EXCEPT !.setup = FALSE]
  /\ pc' = AfterClassRequest(req.op)
  /\ UNCHANGED <<attached, req, job, settings, hostVars>>

\* The wait for the IN bank has no other way out, but the SETUP freed the bank.
ReplyLineEncoding ==
  /\ pc = "lineIn" /\ ~ctl.in.full
  /\ ctl' = [ctl EXCEPT !.in = Holding(LineEncodingBytes(settings.line))]
  /\ pc' = "statusOut"
  /\ UNCHANGED <<attached, req, job, settings, hostVars>>

TakeLineEncoding ==
  /\ pc = "lineOut" /\ ctl.out.full
  /\ settings' = [settings EXCEPT !.line = LineEncodingOf(ctl.out.bytes)]
  /\ ctl' = [ctl EXCEPT !.out = Empty]
  /\ pc' = "statusIn"
  /\ UNCHANGED <<attached, req, job, hostVars>>

LineEncodingAbandoned ==
  /\ pc = "lineOut" /\ ~ctl.out.full /\ ~attached
  /\ pc' = "standard"
  /\ UNCHANGED <<attached, ctl, req, job, settings, hostVars>>

-----------------------------------------------------------------------------
(***************************************************************************)
(* The control streams.  A stream function for big endian data walks the   *)
(* buffer from its last byte, so job.data is in the order of the wire.     *)
(***************************************************************************)
\* Mutated StartWrite: the length is not cut to what the host asks for.
StartWriteUncut(data, endpoint) ==
  /\ job' = [data |-> data, left |-> Len(data), LastPacketFull |-> FALSE]
  /\ ctl' = [endpoint EXCEPT !.in = IF data = <<>> THEN Holding(<<>>) ELSE @]
  /\ pc' = "stream"

\* Endpoint_Write_Control_Stream up to its loop.
StartWrite(data, endpoint) ==
  LET cut == Len(data) > req.wLength
  IN /\ job' = [data |-> data, left |-> IF cut THEN req.wLength ELSE Len(data),
                LastPacketFull |-> FALSE]
     /\ ctl' = [endpoint EXCEPT
                  !.in = IF ~cut /\ data = <<>> THEN Holding(<<>>) ELSE @]
     /\ pc' = "stream"

\* Endpoint_Read_Control_Stream up to its loop.
StartRead(length, endpoint) ==
  /\ job' = [NoJob EXCEPT !.left = length]
  /\ ctl' = [endpoint EXCEPT !.out = IF length = 0 THEN Empty ELSE @]
  /\ pc' = "fetch"

\* The application streams its buffer, or the data of the host, big endian.  A
\* buffer in EEPROM differs only in how a byte of it is read or written.
VendorRequest ==
  /\ pc = "event" /\ Pending(VendorOps)
  /\ LET cleared == [ctl EXCEPT !.setup = FALSE]
     IN IF req.op = "Load" THEN StartWrite(Reverse(settings.stored), cleared)
                           ELSE StartRead(req.wLength, cleared)
  /\ UNCHANGED <<attached, req, settings, hostVars>>

EventIgnored ==
  /\ pc = "event" /\ ~ForDriver /\ ~Pending(VendorOps)
  /\ pc' = "standard"
  /\ UNCHANGED <<attached, ctl, req, job, settings, hostVars>>

Streaming == job.left > 0 \/ job.LastPacketFull

\* Mutated StreamPacket: a full last packet is not followed by an empty one.
StreamPacketNoZLP ==
  /\ pc = "stream" /\ Streaming
  /\ attached /\ ~ctl.setup /\ ~ctl.out.full /\ ~ctl.in.full
  /\ LET size == IF job.left < USB_Device_ControlEndpointSize
                 THEN job.left ELSE USB_Device_ControlEndpointSize
     IN /\ ctl' = [ctl EXCEPT !.in = Holding(SubSeq(job.data, 1, size))]
        /\ job' = [data |-> SubSeq(job.data, size + 1, Len(job.data)),
                   left |-> job.left - size, LastPacketFull |-> FALSE]
  /\ UNCHANGED <<attached, req, pc, settings, hostVars>>

\* Mutated StreamPacket: every packet is counted as a full one.
StreamPacketCountsFull ==
  /\ pc = "stream" /\ Streaming
  /\ attached /\ ~ctl.setup /\ ~ctl.out.full /\ ~ctl.in.full
  /\ LET size == USB_Device_ControlEndpointSize
     IN /\ ctl' = [ctl EXCEPT !.in = Holding(SubSeq(job.data, 1, job.left))]
        /\ job' = [data |-> SubSeq(job.data, size + 1, Len(job.data)),
                   left |-> job.left - size, LastPacketFull |-> FALSE]
  /\ UNCHANGED <<attached, req, pc, settings, hostVars>>

\* One packet: as much as fits; after a full one there is always another.
StreamPacket ==
  /\ pc = "stream" /\ Streaming
  /\ attached /\ ~ctl.setup /\ ~ctl.out.full /\ ~ctl.in.full
  /\ LET size == IF job.left < USB_Device_ControlEndpointSize
                 THEN job.left ELSE USB_Device_ControlEndpointSize
     IN /\ ctl' = [ctl EXCEPT !.in = Holding(SubSeq(job.data, 1, size))]
        /\ job' = [data |-> SubSeq(job.data, size + 1, Len(job.data)),
                   left |-> job.left - size,
                   LastPacketFull |-> size = USB_Device_ControlEndpointSize]
  /\ UNCHANGED <<attached, req, pc, settings, hostVars>>

\* The loop is left for good when the device is Unattached or a SETUP came.
WriteAborted ==
  /\ pc = "stream" /\ Streaming
  /\ ~attached \/ ctl.setup
  /\ pc' = "streamed"
  /\ UNCHANGED <<attached, ctl, req, job, settings, hostVars>>

\* All is sent, or the host began the status stage.
StreamEnds ==
  /\ pc = "stream"
  /\ ~Streaming \/ (attached /\ ~ctl.setup /\ ctl.out.full)
  /\ pc' = "drain"
  /\ UNCHANGED <<attached, ctl, req, job, settings, hostVars>>

\* The wait for the status stage does not look for a SETUP.
Drain ==
  /\ pc = "drain" /\ (ctl.out.full \/ ~attached)
  /\ pc' = "streamed"
  /\ UNCHANGED <<attached, ctl, req, job, settings, hostVars>>

AfterHandler(op) == IF op \in ClassOps \cup VendorOps THEN "standard" ELSE "check"

\* Mutated FinishWrite: the status packet is left in the bank.
FinishWriteKeepsStatus ==
  /\ pc = "streamed"
  /\ pc' = AfterHandler(req.op) /\ job' = NoJob
  /\ UNCHANGED <<attached, ctl, req, settings, hostVars>>

\* The caller clears the OUT bank, however the stream ended.
FinishWrite ==
  /\ pc = "streamed"
  /\ ctl' = [ctl EXCEPT !.out = Empty]
  /\ pc' = AfterHandler(req.op) /\ job' = NoJob
  /\ UNCHANGED <<attached, req, settings, hostVars>>

\* One packet of the data stage; bytes beyond the buffer are dropped with it.
FetchPacket ==
  /\ pc = "fetch" /\ job.left > 0
  /\ attached /\ ~ctl.setup /\ ctl.out.full
  /\ LET size == IF job.left < Len(ctl.out.bytes) THEN job.left
                                                  ELSE Len(ctl.out.bytes)
     IN job' = [job EXCEPT !.data = @ \o SubSeq(ctl.out.bytes, 1, size),
                           !.left = @ - size]
  /\ ctl' = [ctl EXCEPT !.out = Empty]
  /\ UNCHANGED <<attached, req, pc, settings, hostVars>>

ReadAborted ==
  /\ pc = "fetch" /\ job.left > 0
  /\ ~attached \/ ctl.setup
  /\ pc' = AfterHandler(req.op) /\ job' = NoJob
  /\ UNCHANGED <<attached, ctl, req, settings, hostVars>>

FetchEnds ==
  /\ pc = "fetch" /\ job.left = 0
  /\ pc' = "settle"
  /\ UNCHANGED <<attached, ctl, req, job, settings, hostVars>>

Endpoint_ControlStream_RW_ErrorCodes_t ==
  [NoError |-> 0, HostAborted |-> 1, DeviceDisconnected |-> 2, BusSuspended |-> 3]

\* Then the IN bank must be free; the application adopts the data only if the
\* stream function reports no error, and sends the status packet.
Settle ==
  /\ pc = "settle" /\ (~ctl.in.full \/ ~attached)
  /\ LET Code == Endpoint_ControlStream_RW_ErrorCodes_t
         result == IF ctl.in.full THEN Code.DeviceDisconnected ELSE Code.NoError
     IN IF result # Code.NoError
        THEN UNCHANGED <<ctl, settings>>
        ELSE /\ settings' = [settings EXCEPT !.stored = Reverse(job.data)]
             /\ ctl' = [ctl EXCEPT !.in = Holding(<<>>)]
  /\ pc' = AfterHandler(req.op) /\ job' = NoJob
  /\ UNCHANGED <<attached, req, hostVars>>

-----------------------------------------------------------------------------
(***************************************************************************)
(* The status stage, Endpoint_ClearStatusStage.                            *)
(***************************************************************************)
StatusIN ==
  /\ pc = "statusIn" /\ (~ctl.in.full \/ ~attached)
  /\ ctl' = [ctl EXCEPT !.in = IF @.full THEN @ ELSE Holding(<<>>)]
  /\ pc' = "finish"
  /\ UNCHANGED <<attached, req, job, settings, hostVars>>

StatusOUT ==
  /\ pc = "statusOut" /\ (ctl.out.full \/ ~attached)
  /\ ctl' = [ctl EXCEPT !.out = Empty]
  /\ pc' = "finish"
  /\ UNCHANGED <<attached, req, job, settings, hostVars>>

\* SET CONTROL LINE STATE stores the lines after the status stage; the events
\* of the CDC driver do nothing in main.c.
Finish ==
  /\ pc = "finish"
  /\ settings' = IF req.op = "SetControlLineState"
                 THEN [settings EXCEPT !.lineState = req.wValue] ELSE settings
  /\ pc' = AfterHandler(req.op)
  /\ UNCHANGED <<attached, ctl, req, job, hostVars>>

-----------------------------------------------------------------------------
(***************************************************************************)
(* The library's own requests.                                             *)
(***************************************************************************)
GetDescriptor ==
  /\ pc = "standard" /\ Pending({"GetDescriptor"})
  /\ CALLBACK_USB_GetDescriptor(req.wValue) # <<>>
  /\ StartWrite(CALLBACK_USB_GetDescriptor(req.wValue),
                [ctl EXCEPT !.setup = FALSE])
  /\ UNCHANGED <<attached, req, settings, hostVars>>

Recipient(r) == r.bmRequestType % CONTROL_REQTYPE_RECIPIENT

\* The firmware never sets USB_Device_CurrentlySelfPowered.
CurrentStatus(r, s) ==
  CASE Recipient(r) = REQREC_DEVICE ->
         IF s.wakeup THEN FEATURE_REMOTE_WAKEUP_ENABLED ELSE 0
    [] Recipient(r) = REQREC_ENDPOINT ->
         IF r.wIndex % ENDPOINT_EPNUM_MASK \in s.halted THEN 1 ELSE 0

\* The two bytes go into the bank without a wait for it.
GetStatus ==
  /\ pc = "standard" /\ Pending({"GetStatus"})
  /\ ctl' = [ctl EXCEPT !.setup = FALSE,
               !.in = Holding(Endpoint_Write_16_LE(CurrentStatus(req, settings)))]
  /\ pc' = "statusOut"
  /\ UNCHANGED <<attached, req, job, settings, hostVars>>

\* Whether USB_Device_ClearSetFeature takes the request.  Any other selector of
\* an endpoint, and one that is not enabled, is acknowledged all the same.
FeatureTaken(r) ==
  \/ /\ Recipient(r) = REQREC_DEVICE
     /\ r.wValue % 256 = FEATURE_SEL_DeviceRemoteWakeup
  \/ /\ Recipient(r) = REQREC_ENDPOINT
     /\ r.wValue % 256 = FEATURE_SEL_EndpointHalt
          => r.wIndex % ENDPOINT_EPNUM_MASK # 0

\* EPEN, STALLRQ and STALLRQC of a data endpoint.
Endpoint_IsEnabled(endpoint) == endpoint \in DataEndpoints
Endpoint_StallTransaction(s, endpoint) == [s EXCEPT !.halted = @ \cup {endpoint}]
Endpoint_ClearStall(s, endpoint) == [s EXCEPT !.halted = @ \ {endpoint}]

WithFeature(r, s) ==
  LET endpoint == r.wIndex % ENDPOINT_EPNUM_MASK
      set == r.op = "SetFeature"
  IN CASE Recipient(r) = REQREC_DEVICE -> [s EXCEPT !.wakeup = set]
       [] r.wValue % 256 = FEATURE_SEL_EndpointHalt /\ Endpoint_IsEnabled(endpoint) ->
            IF set THEN Endpoint_StallTransaction(s, endpoint)
                   ELSE Endpoint_ClearStall(s, endpoint)
       [] OTHER -> s

ClearSetFeature ==
  /\ pc = "standard" /\ Pending({"ClearFeature", "SetFeature"})
  /\ FeatureTaken(req)
  /\ settings' = WithFeature(req, settings)
  /\ ctl' = [ctl EXCEPT !.setup = FALSE]
  /\ pc' = "statusIn"
  /\ UNCHANGED <<attached, req, job, hostVars>>

StandardOps == {"GetStatus", "ClearFeature", "SetFeature", "GetDescriptor"}

NotHandled(r) ==
  CASE r.op = "GetDescriptor" -> CALLBACK_USB_GetDescriptor(r.wValue) = <<>>
    [] r.op = "GetStatus"     -> FALSE
    [] r.op \in {"ClearFeature", "SetFeature"} -> ~FeatureTaken(r)

NoStandardRequest ==
  /\ pc = "standard" /\ (Pending(StandardOps) => NotHandled(req))
  /\ pc' = "check"
  /\ UNCHANGED <<attached, ctl, req, job, settings, hostVars>>

\* A SETUP that is still, or again, pending is stalled and dropped.
StallUnhandled ==
  /\ pc = "check" /\ pc' = "idle"
  /\ ctl' = IF ctl.setup THEN [ctl EXCEPT !.setup = FALSE, !.stall = TRUE] ELSE ctl
  /\ UNCHANGED <<attached, req, job, settings, hostVars>>

-----------------------------------------------------------------------------
(***************************************************************************)
(* The host.  It takes an IN packet as soon as there is one and sends an   *)
(* OUT packet when the bank is free, but begins a transfer, gives one up,  *)
(* suspends and resumes only after milliseconds: by then the code waits    *)
(* for it.                                                                 *)
(***************************************************************************)
Quiet ==
  \/ pc = "idle" /\ ~ctl.setup
  \/ attached /\ pc \in {"lineOut", "drain", "statusOut"} /\ ~ctl.out.full
  \/ attached /\ pc = "statusIn" /\ ctl.in.full
  \/ /\ attached /\ pc = "stream" /\ Streaming
     /\ ~ctl.setup /\ ~ctl.out.full /\ ctl.in.full
  \/ attached /\ pc = "fetch" /\ job.left > 0 /\ ~ctl.setup /\ ~ctl.out.full

\* The firmware waits in a loop that does not look for a SETUP while one came.
Deaf == ctl.setup /\ pc \in {"lineOut", "drain", "statusOut"}

\* What a request that succeeds makes of the settings, as the host means it.
Applied(r, s) ==
  LET set == r.op = "SetFeature"
  IN CASE r.op = "SetLineEncoding" ->
            [s EXCEPT !.line = [BaudRateBPS |-> Word32(r.data), CharFormat |-> r.data[5],
                                ParityType |-> r.data[6], DataBits |-> r.data[7]]]
       [] r.op = "SetControlLineState" -> [s EXCEPT !.lineState = r.wValue]
       [] r.op = "Store" -> [s EXCEPT !.stored = Reverse(r.data)]
       [] /\ r.op \in {"ClearFeature", "SetFeature"} /\ Recipient(r) = REQREC_DEVICE
          /\ r.wValue = FEATURE_SEL_DeviceRemoteWakeup -> [s EXCEPT !.wakeup = set]
       [] /\ r.op \in {"ClearFeature", "SetFeature"} /\ Recipient(r) = REQREC_ENDPOINT
          /\ r.wValue = FEATURE_SEL_EndpointHalt ->
            LET endpoint == {address % ENDPOINT_EPNUM_MASK :
                               address \in DataEndpointAddresses \cap {r.wIndex}}
            IN [s EXCEPT !.halted = IF set THEN @ \cup endpoint ELSE @ \ endpoint]
       [] OTHER -> s

FirstPhase(r) == CASE r.bmRequestType >= REQDIR_DEVICETOHOST -> "dataIn"
                   [] r.data # <<>> -> "dataOut"
                   [] OTHER         -> "statusIn"

\* A SETUP is always accepted; it ends what the endpoint was doing.  From now
\* on the request may have been carried out or not.
HostSetup(r) ==
  /\ attached /\ phase = "idle" /\ Quiet
  /\ ctl' = [ctl EXCEPT !.setup = TRUE, !.stall = FALSE, !.in = Empty]
  /\ pkt' = r /\ phase' = FirstPhase(r)
  /\ may' = may \cup {Applied(r, s) : s \in may}
  /\ UNCHANGED <<attached, codeVars, got, fed, failures>>

HostDone == phase' = "idle" /\ got' = <<>> /\ fed' = 0

\* A short packet, or the last byte asked for, ends the data stage; the empty
\* packet of the status stage means that the request was carried out.
HostIn ==
  /\ attached /\ ctl.in.full /\ ~ctl.stall /\ phase \in {"dataIn", "statusIn"}
  /\ ctl' = [ctl EXCEPT !.in = Empty]
  /\ IF phase = "dataIn"
     THEN /\ got' = got \o ctl.in.bytes
          /\ phase' = IF \/ Len(ctl.in.bytes) < USB_Device_ControlEndpointSize
                         \/ Len(got') >= pkt.wLength
                      THEN "statusOut" ELSE "dataIn"
          /\ UNCHANGED <<may, fed>>
     ELSE /\ HostDone
          /\ may' = {Applied(pkt, s) : s \in may}
  /\ UNCHANGED <<attached, codeVars, pkt, failures>>

\* The host may have enough before the end of the data.
HostCutsShort ==
  /\ phase = "dataIn" /\ got # <<>>
  /\ phase' = "cut"
  /\ UNCHANGED <<attached, ctl, codeVars, pkt, got, fed, may, failures>>

\* OUT packets are refused while the SETUP is pending.
Accepting == attached /\ ~ctl.setup /\ ~ctl.out.full /\ ~ctl.stall

HostStatusOut ==
  /\ Accepting /\ phase \in {"statusOut", "cut"}
  /\ ctl' = [ctl EXCEPT !.out = Holding(<<>>)]
  /\ HostDone
  /\ UNCHANGED <<attached, codeVars, pkt, may, failures>>

HostDataOut ==
  /\ Accepting /\ phase = "dataOut"
  /\ LET rest == pkt.wLength - fed
         size == IF rest < USB_Device_ControlEndpointSize
                 THEN rest ELSE USB_Device_ControlEndpointSize
     IN /\ ctl' = [ctl EXCEPT !.out = Holding(SubSeq(pkt.data, fed + 1, fed + size))]
        /\ fed' = fed + size
        /\ phase' = IF size = rest THEN "statusIn" ELSE "dataOut"
  /\ UNCHANGED <<attached, codeVars, pkt, got, may, failures>>

HostStalled ==
  /\ attached /\ ctl.stall /\ phase # "idle"
  /\ HostDone
  /\ UNCHANGED <<attached, ctl, codeVars, pkt, may, failures>>

HostGivesUp ==
  /\ phase # "idle" /\ Quiet /\ failures < MaxFailures
  /\ HostDone /\ failures' = failures + 1
  /\ UNCHANGED <<attached, ctl, codeVars, pkt, may>>

\* Suspending ends the transfer, and stores Unattached in this build.  It is
\* what a host has left when the device answers no request any more.
HostSuspends ==
  /\ attached /\ Quiet
  /\ phase = "idle" \/ failures < MaxFailures \/ Deaf
  /\ attached' = FALSE /\ HostDone
  /\ failures' = IF phase = "idle" \/ Deaf THEN failures ELSE failures + 1
  /\ UNCHANGED <<ctl, codeVars, pkt, may>>

HostResumes ==
  /\ ~attached /\ Quiet
  /\ attached' = TRUE
  /\ UNCHANGED <<ctl, codeVars, hostVars>>

-----------------------------------------------------------------------------
EventStep ==
  \/ ReadRequest \/ ClassRequest \/ ReplyLineEncoding \/ TakeLineEncoding
  \/ LineEncodingAbandoned \/ VendorRequest \/ EventIgnored

StreamStep ==
  \/ StreamPacket \/ WriteAborted \/ StreamEnds \/ Drain \/ FinishWrite
  \/ FetchPacket \/ ReadAborted \/ FetchEnds \/ Settle

StandardStep ==
  \/ StatusIN \/ StatusOUT \/ Finish \/ GetDescriptor \/ GetStatus
  \/ ClearSetFeature \/ NoStandardRequest \/ StallUnhandled

CodeStep == EventStep \/ StreamStep \/ StandardStep

HostStep ==
  \/ HostIn \/ HostCutsShort \/ HostStatusOut \/ HostDataOut \/ HostStalled
  \/ HostGivesUp \/ HostSuspends \/ HostResumes
  \/ \E r \in Requests : HostSetup(r)

Next == CodeStep \/ HostStep

Spec == Init /\ [][Next]_vars

(***************************************************************************)
(* Fairness: the processor executes, and a host that began a transfer goes *)
(* on with it as far as the device lets it.                                *)
(***************************************************************************)
Fairness ==
  /\ WF_vars(CodeStep)
  /\ WF_vars(HostIn) /\ WF_vars(HostStatusOut) /\ WF_vars(HostDataOut)
  /\ WF_vars(HostStalled)

FairSpec == Spec /\ Fairness

-----------------------------------------------------------------------------
(***************************************************************************)
(* Properties.                                                             *)
(***************************************************************************)
Banks == [full : BOOLEAN, bytes : Seq(UInt8)]
SettingsType ==
  [line : [BaudRateBPS : UInt32, CharFormat : UInt8, ParityType : UInt8,
           DataBits : UInt8],
   lineState : UInt16, wakeup : BOOLEAN, halted : SUBSET DataEndpoints,
   stored : Seq(UInt8)]

\* Every variable stays in its set: no bank holds more than a packet, and the
\* length left of a stream (uint16_t) does not wrap.
TypeOK ==
  /\ attached \in BOOLEAN
  /\ ctl \in [setup : BOOLEAN, stall : BOOLEAN, out : Banks, in : Banks]
  /\ \A bank \in {ctl.in, ctl.out} :
       Len(bank.bytes) <= USB_Device_ControlEndpointSize
  /\ req \in Requests \cup {NoRequest} /\ pkt \in Requests \cup {NoRequest}
  /\ pc \in {"idle", "event", "lineIn", "lineOut", "stream", "drain", "streamed",
             "fetch", "settle", "statusIn", "statusOut", "finish", "standard", "check"}
  /\ job \in [data : Seq(UInt8), left : UInt16, LastPacketFull : BOOLEAN]
  /\ settings \in SettingsType /\ may \subseteq SettingsType
  /\ phase \in {"idle", "dataIn", "cut", "statusOut", "dataOut", "statusIn"}
  /\ got \in Seq(UInt8) /\ fed \in 0 .. pkt.wLength
  /\ failures \in 0 .. MaxFailures

\* The answer to a request, before it is cut to the length asked for.
Answer(r, s) ==
  CASE r.op = "GetDescriptor"   -> CALLBACK_USB_GetDescriptor(r.wValue)
    [] r.op = "GetStatus"       -> Endpoint_Write_16_LE(CurrentStatus(r, s))
    [] r.op = "GetLineEncoding" -> LineEncodingBytes(s.line)
    [] r.op = "Load"            -> Reverse(s.stored)

\* A data stage that comes to its end gave the host exactly the answer, up to
\* the length it asked for: no byte is missing, repeated, out of order or left
\* over from a transfer before, and the host can tell where the answer ends.
\* The settings it reads back are those it last made, or, if it gave a transfer
\* up, may have made (Endpoint_Write_Control_Stream and its callers).
DataStageRight ==
  phase = "statusOut" =>
    \E s \in may :
      LET answer == Answer(pkt, s)
      IN got = SubSeq(answer, 1, IF Len(answer) < pkt.wLength
                                 THEN Len(answer) ELSE pkt.wLength)

\* What the device acknowledged it does: when it waits for the next request,
\* its settings are those of the requests the host saw succeed, whether or not
\* a handler stores before or after the status stage (CDC_Device_ProcessControl-
\* Request, USB_Device_ClearSetFeature, Endpoint_Read_Control_Stream).
SettingsAgreed == pc = "idle" /\ ~ctl.setup => settings \in may

\* Nothing a transfer left behind is taken for part of the next: whatever became
\* of it, the OUT bank is empty when the firmware takes the next SETUP.
NoLeftOver == pc = "idle" => ~ctl.out.full

\* Every transfer ends, with its status stage, a stall, or the host giving up,
\* unless the host gave an earlier one up while the firmware waited for it in
\* a loop without a test for a SETUP.
TransfersEnd == phase # "idle" ~> (phase = "idle" \/ Deaf)

\* A host that reads the device descriptor finds the release number of
\* Descriptors.c, 00.23, in binary coded decimal.
ReleaseNumberRight ==
  phase = "statusOut" /\ Len(got) = 18 /\ got[2] = DTYPE_Device =>
    Word16(<<got[13], got[14]>>) = 2 * 16 + 3
=============================================================================
