----------------------- MODULE ControlTransfer_proofs -----------------------
(***************************************************************************)
(* Control transfers are right for every set of requests a host may send   *)
(* and any number of transfers it gives up.  The invariant relates the     *)
(* three parties of a transfer: the place of the code, the phase of the    *)
(* host, and the banks between them (Asked, Served, Waiting, Placed); on   *)
(* top of it, the bytes already under way are the next ones of the data    *)
(* stage (Sent, Fetched), and the settings are among those the host has to *)
(* expect (Settled).                                                       *)
(***************************************************************************)
EXTENDS ControlTransfer, Descriptors_proofs, SequenceTheorems

\* An answer, cut to the length the host asks for.
Shorter(data, length) == IF Len(data) < length THEN Len(data) ELSE length
Whole(r, s) == SubSeq(Answer(r, s), 1, Shorter(Answer(r, s), r.wLength))

\* The bytes a go before the bytes b at the front of the data w.
Begins(w, a, b) ==
  /\ \A i \in 1 .. Len(a) : a[i] = w[i]
  /\ \A i \in 1 .. Len(b) : b[i] = w[Len(a) + i]

\* What the banks hold for the other side.
Reply == IF ctl.in.full THEN ctl.in.bytes ELSE <<>>
Packet == IF ctl.out.full THEN ctl.out.bytes ELSE <<>>

Known == Requests \cup {NoRequest}

\* TypeOK, with a bank and its packet in one.
BankOK(b) == b \in Banks /\ Len(b.bytes) <= 8

Typed ==
  /\ attached \in BOOLEAN
  /\ ctl \in [setup : BOOLEAN, stall : BOOLEAN, out : Banks, in : Banks]
  /\ BankOK(ctl.in) /\ BankOK(ctl.out)
  /\ req \in Known /\ pkt \in Known
  /\ pc \in {"idle", "event", "lineIn", "lineOut", "stream", "drain", "streamed",
             "fetch", "settle", "statusIn", "statusOut", "finish", "standard", "check"}
  /\ job \in [data : Seq(UInt8), left : UInt16, LastPacketFull : BOOLEAN]
  /\ settings \in SettingsType /\ may \subseteq SettingsType
  /\ phase \in {"idle", "dataIn", "cut", "statusOut", "dataOut", "statusIn"}
  /\ got \in Seq(UInt8) /\ fed \in 0 .. pkt.wLength
  /\ failures \in 0 .. MaxFailures

\* What is never longer than a length of 16 bits counts.
Sizes ==
  /\ Len(settings.stored) \in UInt16
  /\ pc = "stream" => job.left <= Len(job.data)

\* The host's transfer is neither over nor still, or already, without the code.
Live == phase # "idle" /\ ~ctl.setup /\ ~ctl.stall

\* The code has taken over the SETUP packet, or is about to.
Fresh ==
  /\ ctl.setup
  /\ \/ pc \in {"idle", "event"}
     \/ pc = "standard" /\ req.op \notin ClassOps \cup VendorOps

\* While a SETUP packet is pending, or was refused, nothing else has happened
\* in its transfer; one pending elsewhere than in Fresh places will be refused.
Asked ==
  /\ ctl.setup => /\ ~ctl.out.full /\ ~ctl.in.full /\ ~ctl.stall
                  /\ got = <<>> /\ fed = 0
                  /\ phase \in {"idle", FirstPhase(pkt)}
  /\ ctl.stall => /\ pc = "idle" /\ ~ctl.setup /\ ~ctl.out.full
                  /\ got = <<>> /\ phase \in {"idle", FirstPhase(pkt)}
  /\ phase = "idle" => got = <<>> /\ fed = 0
  /\ phase # "idle" => attached
  /\ Fresh => phase = FirstPhase(pkt) /\ (pc # "idle" => req = pkt)
  /\ pc = "event" => ctl.setup

\* Where the code can be in a phase of the transfer it serves.
Places(p) ==
  CASE p = "dataIn" -> {"lineIn", "stream", "drain", "statusOut"}
    [] p \in {"cut", "statusOut"} -> {"stream", "drain", "statusOut"}
    [] p = "dataOut" -> {"lineOut", "fetch"}
    [] p = "statusIn" -> {"lineOut", "fetch", "settle", "statusIn", "finish",
                          "standard", "check", "idle"}
    [] OTHER -> {}

\* A transfer under way is the one the code serves.
Served == Live => pc \in Places(phase) /\ req = pkt

\* A packet in the OUT bank has its reader, and the host waits for it.
Waiting ==
  ctl.out.full =>
    /\ ~ctl.setup /\ ~ctl.stall /\ attached
    /\ \/ pc \in {"stream", "drain", "streamed", "statusOut"} /\ phase = "idle"
       \/ /\ pc \in {"lineOut", "fetch"} /\ phase \in {"dataOut", "statusIn"}
          /\ ctl.out.bytes # <<>>

\* What each place is for, and those the host cannot interrupt.
Placed ==
  /\ pc \notin {"idle", "event", "finish", "standard", "check"} =>
       req.bmRequestType \in RequestTypes(req.op)
  /\ pc = "lineIn" => req.op = "GetLineEncoding" /\ Live
  /\ pc = "lineOut" => req.op = "SetLineEncoding"
  /\ pc \in {"stream", "drain", "streamed"} => req.op \in {"GetDescriptor", "Load"}
  /\ pc \in {"fetch", "settle"} => req.op = "Store"
  /\ pc = "settle" \/ (pc = "fetch" /\ job.left = 0) => job.left = 0 /\ Live
  /\ pc = "statusOut" => req.op \in {"GetLineEncoding", "GetStatus"}
  /\ pc = "statusIn" =>
       /\ req.op \in WriteOps \ {"Store"}
       /\ Live /\ phase = "statusIn" /\ ~ctl.in.full
  /\ pc = "finish" => req.op \in (ReadOps \cup WriteOps) \ {"Store"}
  /\ (pc = "finish" /\ req.op = "SetControlLineState") => req = pkt /\ ~ctl.setup
  /\ (pc = "standard" /\ ~ctl.setup) => req.op \in ClassOps \cup VendorOps

\* The host has the front of the answer, the bank the next bytes, the stream's
\* buffer the rest; a packet that is not full is the last.
Sent ==
  /\ (Live /\ phase = "dataIn") =>
       LET whole == Whole(pkt, settings)
           rest == IF pc = "stream" THEN job.left ELSE 0
       IN IF pc = "lineIn" THEN got = <<>> /\ ~ctl.in.full
          ELSE /\ Len(got) + Len(Reply) + rest = Len(whole)
               /\ Begins(whole, got, Reply)
               /\ \A i \in 1 .. rest :
                    job.data[i] = whole[Len(got) + Len(Reply) + i]
               /\ (ctl.in.full /\ Len(Reply) < USB_Device_ControlEndpointSize)
                    => rest = 0
  /\ phase = "statusOut" => got = Whole(pkt, settings)

\* The stream's buffer has the front of the host's data, the bank the next bytes.
Fetched ==
  /\ (Live /\ pc = "lineOut") =>
       /\ ~ctl.in.full
       /\ IF ctl.out.full THEN phase = "statusIn" /\ ctl.out.bytes = pkt.data
          ELSE phase = "dataOut" /\ fed = 0
  /\ (Live /\ pc \in {"fetch", "settle"}) =>
       /\ ~ctl.in.full
       /\ Len(job.data) + job.left = pkt.wLength
       /\ fed = Len(job.data) + Len(Packet)
       /\ Begins(pkt.data, job.data, Packet)
       /\ phase = IF fed = pkt.wLength THEN "statusIn" ELSE "dataOut"

\* SET CONTROL LINE STATE is acknowledged before it is carried out.
Late == pc = "finish" /\ req.op = "SetControlLineState"

\* The host expects the settings of the device, and what the last request makes
\* of them; what was acknowledged makes no difference any more.
Settled ==
  /\ settings \in may \/ Late
  /\ Applied(pkt, settings) \in may
  /\ (Late /\ phase # "idle") => settings \in may
  /\ (Live /\ phase = "statusIn" /\ ctl.in.full)
       => Late \/ Applied(pkt, settings) = settings
  /\ (pc = "statusIn" /\ req.op # "SetControlLineState")
       => Applied(pkt, settings) = settings

Control == Asked /\ Served /\ Waiting /\ Placed
IInv == Typed /\ Sizes /\ Control /\ Sent /\ Fetched /\ Settled

-----------------------------------------------------------------------------
(* Requests, descriptors and settings. *)

\* A packet on the control endpoint has at most eight bytes.
LEMMA EndpointSize == USB_Device_ControlEndpointSize = 8
BY DEF USB_Device_ControlEndpointSize, DeviceDescriptor, USB_Descriptor_Device_t,
       WithHeader, USB_Descriptor_Header_t, Bytes16

\* Bytes and words are numbers.
LEMMA Numbers ==
  /\ \A n \in UInt8 : n \in Nat /\ n \in Int /\ n <= 255
  /\ \A n \in UInt16 : n \in Nat /\ n \in Int /\ n <= 65535
BY DEF UInt8, UInt16

\* What the host may send.
LEMMA RequestFacts ==
  ASSUME NEW r \in Known
  PROVE  /\ r.op \in ReadOps \cup WriteOps \cup {"Unsupported"}
         /\ r.bmRequestType \in UInt8 /\ r.wValue \in UInt16
         /\ r.wIndex \in UInt16 /\ r.wLength \in UInt16 /\ r.data \in Seq(UInt8)
         /\ r.bmRequestType < 128 => r.wLength = Len(r.data)
         /\ r.bmRequestType >= 128 => r.wLength > 0 /\ r.data = <<>>
         /\ r.op = "GetLineEncoding" => r.wLength = 7
         /\ r.op = "SetLineEncoding" => r.wLength = 7 /\ Len(r.data) = 7
         /\ r.op = "GetStatus" => r.wLength = 2
         /\ r.op \in WriteOps \ {"SetLineEncoding", "Store"} => r.wLength = 0
<1>1. CASE r \in Requests
  <2>1. r \in [op : ReadOps \cup WriteOps \cup {"Unsupported"},
               bmRequestType : UInt8, wValue : UInt16, wIndex : UInt16,
               wLength : UInt16, data : Seq(UInt8)]
    BY <1>1, RequestsAssumption
  <2>2. /\ r.op \in ReadOps \cup WriteOps \cup {"Unsupported"}
        /\ r.bmRequestType \in UInt8 /\ r.wValue \in UInt16
        /\ r.wIndex \in UInt16 /\ r.wLength \in UInt16 /\ r.data \in Seq(UInt8)
    BY <2>1
  <2>3. /\ r.bmRequestType < 128 => r.wLength = Len(r.data)
        /\ r.bmRequestType >= 128 => r.wLength > 0 /\ r.data = <<>>
    <3>1. IF r.bmRequestType >= 128
          THEN r.wLength > 0 /\ r.data = <<>>
          ELSE r.wLength = Len(r.data)
      BY <1>1, LengthsAssumption, Zenon DEF REQDIR_DEVICETOHOST
    <3>2. r.bmRequestType \in Int
      BY <2>2, Numbers
    <3>3. ~(r.bmRequestType >= 128) <=> r.bmRequestType < 128
      BY <3>2
    <3> QED BY <3>1, <3>3, Zenon
  <2>4. /\ r.op = "GetLineEncoding" => r.wLength = 7
        /\ r.op = "SetLineEncoding" => r.wLength = 7 /\ Len(r.data) = 7
    <3>1. /\ r.op = "GetLineEncoding" => r.wLength = 7
          /\ r.op = "SetLineEncoding" => Len(r.data) = 7
      BY <1>1, LineEncodingAssumption
    <3>2. /\ r.data = <<>> => Len(r.data) = 0
          /\ r.bmRequestType < 128 \/ r.bmRequestType >= 128
      BY <2>2, Numbers
    <3>3. r.op = "SetLineEncoding" => r.wLength = Len(r.data)
      <4>1. CASE r.bmRequestType < 128
        BY <2>3, <4>1, Zenon
      <4>2. CASE r.bmRequestType >= 128
        <5>1. Len(r.data) = 0
          BY <2>3, <3>2, <4>2, Zenon
        <5> QED BY <3>1, <5>1
      <4> QED BY <3>2, <4>1, <4>2
    <3> QED BY <3>1, <3>3, Zenon
  <2>5. /\ r.op = "GetStatus" => r.wLength = 2
        /\ r.op \in WriteOps \ {"SetLineEncoding", "Store"} => r.wLength = 0
    BY <1>1, WellFormedAssumption DEF WriteOps
  <2> QED BY <2>2, <2>3, <2>4, <2>5
<1>2. CASE r = NoRequest
  <2>1. /\ r.op = "Unsupported" /\ r.bmRequestType = 0 /\ r.wValue = 0
        /\ r.wIndex = 0 /\ r.wLength = 0 /\ r.data = <<>>
    BY <1>2 DEF NoRequest, REQDIR_HOSTTODEVICE
  <2>2. r.data \in Seq(UInt8) /\ Len(r.data) = 0
    BY <2>1
  <2> QED BY <2>1, <2>2 DEF UInt8, UInt16, WriteOps
<1> QED BY <1>1, <1>2 DEF Known

\* The phase a request begins with, if it is one that is taken.
LEMMA FirstPhases ==
  ASSUME NEW r \in Known
  PROVE  /\ FirstPhase(r) \in {"dataIn", "dataOut", "statusIn"}
         /\ r.bmRequestType \in RequestTypes(r.op) =>
              /\ r.op # "Unsupported"
              /\ r.op \in ReadOps => FirstPhase(r) = "dataIn"
              /\ r.op \in WriteOps => r.wLength = Len(r.data)
              /\ r.op = "SetLineEncoding" => FirstPhase(r) = "dataOut"
              /\ r.op = "Store" => FirstPhase(r) =
                   IF r.wLength = 0 THEN "statusIn" ELSE "dataOut"
              /\ r.op \in WriteOps \ {"SetLineEncoding", "Store"} =>
                   FirstPhase(r) = "statusIn"
<1>1. r.data \in Seq(UInt8) /\ (r.data = <<>> <=> Len(r.data) = 0)
  BY RequestFacts
<1>2. FirstPhase(r) \in {"dataIn", "dataOut", "statusIn"}
  BY DEF FirstPhase
<1>3. ASSUME r.bmRequestType \in RequestTypes(r.op)
      PROVE  /\ r.op # "Unsupported"
             /\ r.op \in ReadOps => r.bmRequestType >= 128
             /\ r.op \in WriteOps => r.bmRequestType < 128
  BY <1>3
     DEF RequestTypes, ReadOps, WriteOps, ClassOps, REQDIR_DEVICETOHOST,
         REQDIR_HOSTTODEVICE, REQTYPE_STANDARD, REQTYPE_CLASS, REQTYPE_VENDOR,
         REQREC_DEVICE, REQREC_INTERFACE, REQREC_ENDPOINT
<1>4. ASSUME r.bmRequestType \in RequestTypes(r.op), r.op \in ReadOps
      PROVE  FirstPhase(r) = "dataIn"
  <2>1. r.bmRequestType >= 128 /\ r.data = <<>>
    BY <1>3, <1>4, RequestFacts
  <2> QED BY <2>1 DEF FirstPhase, REQDIR_DEVICETOHOST
<1>5. ASSUME r.bmRequestType \in RequestTypes(r.op), r.op \in WriteOps
      PROVE  /\ r.wLength = Len(r.data)
             /\ FirstPhase(r) = IF r.wLength = 0 THEN "statusIn" ELSE "dataOut"
  <2>1. r.wLength = Len(r.data) /\ ~(r.bmRequestType >= 128)
    BY <1>3, <1>5, RequestFacts DEF UInt8
  <2> QED BY <1>1, <2>1 DEF FirstPhase, REQDIR_DEVICETOHOST
<1>6. r.op \in WriteOps \ {"SetLineEncoding", "Store"} => r.wLength = 0
  BY RequestFacts
<1>7. r.op = "SetLineEncoding" => r.wLength = 7
  BY RequestFacts
<1> QED BY <1>2, <1>3, <1>4, <1>5, <1>6, <1>7 DEF WriteOps

\* The bytes of the descriptors.
LEMMA Bytes16Typed ==
  ASSUME NEW w \in Int
  PROVE  /\ Bytes16(w) \in Seq(UInt8) /\ Len(Bytes16(w)) = 2
         /\ ByteAt(w, 1) \in UInt8 /\ ByteAt(w, 256) \in UInt8
BY DEF Bytes16, ByteAt, UInt8

\* A descriptor is its header and its members, ...
LEMMA HeaderTyped ==
  ASSUME NEW Type \in UInt8, NEW members \in Seq(UInt8), Len(members) <= 253
  PROVE  WithHeader(Type, members) \in Seq(UInt8)
<1>1. Len(members) + 2 \in UInt8
  <2> DEFINE n == Len(members)
  <2>1. n \in Nat /\ n <= 253
    OBVIOUS
  <2> HIDE DEF n
  <2>2. n + 2 \in UInt8
    BY <2>1 DEF UInt8
  <2> QED BY <2>2 DEF n
<1>2. <<Len(members) + 2, Type>> \in Seq(UInt8)
  BY <1>1
<1> QED BY <1>2 DEF WithHeader, USB_Descriptor_Header_t

\* ... as for an endpoint ...
LEMMA EndpointDescriptorTyped ==
  ASSUME NEW address \in UInt8, NEW attributes \in UInt8, NEW size \in UInt16,
         NEW interval \in UInt8
  PROVE  USB_Descriptor_Endpoint_t(
           [EndpointAddress |-> address, Attributes |-> attributes,
            EndpointSize |-> size, PollingIntervalMS |-> interval]) \in Seq(UInt8)
<1>1. size \in Int /\ DTYPE_Endpoint \in UInt8
  BY Numbers DEF DTYPE_Endpoint, UInt8
<1> DEFINE s == Bytes16(size)
           a == <<address, attributes>>
           c == <<interval>>
           m == a \o s \o c
<1>2. s \in Seq(UInt8) /\ Len(s) = 2
  BY <1>1, Bytes16Typed
<1> HIDE DEF s
<1>3. m \in Seq(UInt8) /\ Len(m) <= 253
  <2>1. a \in Seq(UInt8) /\ Len(a) = 2 /\ c \in Seq(UInt8) /\ Len(c) = 1
    OBVIOUS
  <2> HIDE DEF a, c
  <2> DEFINE t == a \o s
  <2>2. t \in Seq(UInt8) /\ Len(t) = Len(a) + Len(s)
    BY <1>2, <2>1, ConcatProperties, Zenon
  <2> HIDE DEF t
  <2> DEFINE u == t \o c
  <2>3. u \in Seq(UInt8) /\ Len(u) = Len(t) + Len(c)
    BY <2>1, <2>2, ConcatProperties, Zenon
  <2> HIDE DEF u
  <2>4. Len(u) <= 253
    BY <1>2, <2>1, <2>2, <2>3
  <2> QED BY <2>3, <2>4 DEF u, t
<1>4. WithHeader(DTYPE_Endpoint, m) \in Seq(UInt8)
  BY <1>1, <1>3, HeaderTyped
<1> QED BY <1>4 DEF USB_Descriptor_Endpoint_t, s

\* ... and for a string, ...
LEMMA StringTyped ==
  ASSUME NEW characters \in Nat, NEW first \in Nat
  PROVE  USB_Descriptor_String_t(characters, first) \in Seq(UInt8)
<1>1. ASSUME NEW i \in 1 .. 2 * characters
      PROVE  Bytes16(first + (i + 1) \div 2)[IF i % 2 = 1 THEN 1 ELSE 2] \in UInt8
  <2>1. first + (i + 1) \div 2 \in Int
    OBVIOUS
  <2>2. /\ Bytes16(first + (i + 1) \div 2)[1] \in UInt8
        /\ Bytes16(first + (i + 1) \div 2)[2] \in UInt8
    BY <2>1, Bytes16Typed DEF Bytes16
  <2> QED BY <2>2
<1> DEFINE text == [i \in 1 .. 2 * characters |->
          Bytes16(first + (i + 1) \div 2)[IF i % 2 = 1 THEN 1 ELSE 2]]
<1>2. text \in Seq(UInt8)
  <2>1. text \in [1 .. 2 * characters -> UInt8]
    BY <1>1, Zenon
  <2>2. 2 * characters \in Nat
    OBVIOUS
  <2> HIDE DEF text
  <2> QED BY <2>1, <2>2
<1>3. <<StringSize(characters), DTYPE_String>> \in Seq(UInt8)
  BY DEF StringSize, USB_STRING_LEN, DTYPE_String, UInt8
<1> HIDE DEF text
<1>4. <<StringSize(characters), DTYPE_String>> \o text \in Seq(UInt8)
  BY <1>2, <1>3
<1> QED BY <1>4 DEF USB_Descriptor_String_t, USB_Descriptor_Header_t, text

\* ... and so all that GET DESCRIPTOR can ask for is bytes.
LEMMA DescriptorTyped ==
  ASSUME NEW wValue \in UInt16
  PROVE  CALLBACK_USB_GetDescriptor(wValue) \in Seq(UInt8)
<1>0. VERSION_BCD(110) \in Int /\ VERSION_BCD(23) \in Int
  BY VersionsAssumption, Numbers
<1>1. DeviceDescriptor \in Seq(UInt8)
  BY <1>0, Bytes16Typed
     DEF DeviceDescriptor, USB_Descriptor_Device_t, WithHeader,
         USB_Descriptor_Header_t, Bytes16, UInt8, DTYPE_Device, NO_DESCRIPTOR,
         CDC_CSCP_CDCClass, CDC_CSCP_NoSpecificSubclass, CDC_CSCP_NoSpecificProtocol
<1>2. Interfaces \in Seq(UInt8)
  <2>1. CDC_CCI_Interface \in Seq(UInt8) /\ CDC_DCI_Interface \in Seq(UInt8)
    BY DEF CDC_CCI_Interface, CDC_DCI_Interface, USB_Descriptor_Interface_t,
           WithHeader, USB_Descriptor_Header_t, UInt8, DTYPE_Interface,
           NO_DESCRIPTOR, CDC_CSCP_CDCClass, CDC_CSCP_ACMSubclass,
           CDC_CSCP_ATCommandProtocol, CDC_CSCP_CDCDataClass,
           CDC_CSCP_NoDataSubclass, CDC_CSCP_NoDataProtocol
  <2>2. CDC_Functional \in Seq(UInt8)
    <3>1. USB_CDC_Descriptor_FunctionalHeader_t(VERSION_BCD(110)) \in Seq(UInt8)
      BY <1>0, Bytes16Typed
         DEF USB_CDC_Descriptor_FunctionalHeader_t, WithHeader,
             USB_Descriptor_Header_t, Bytes16, UInt8, DTYPE_CSInterface,
             CDC_DSUBTYPE_CSInterface_Header
    <3>2. /\ USB_CDC_Descriptor_FunctionalACM_t(6) \in Seq(UInt8)
          /\ USB_CDC_Descriptor_FunctionalUnion_t(0, 1) \in Seq(UInt8)
      BY DEF USB_CDC_Descriptor_FunctionalACM_t, WithHeader,
             USB_CDC_Descriptor_FunctionalUnion_t, USB_Descriptor_Header_t,
             UInt8, DTYPE_CSInterface, CDC_DSUBTYPE_CSInterface_ACM,
             CDC_DSUBTYPE_CSInterface_Union
    <3> QED BY <3>1, <3>2 DEF CDC_Functional
  <2>3. /\ CDC_NotificationEndpoint \in Seq(UInt8)
        /\ CDC_DataEndpoint(CDC_RX_EPADDR) \in Seq(UInt8)
        /\ CDC_DataEndpoint(CDC_TX_EPADDR) \in Seq(UInt8)
    <3>1. /\ {CDC_NOTIFICATION_EPADDR, CDC_RX_EPADDR, CDC_TX_EPADDR} \subseteq UInt8
          /\ EP_TYPE_INTERRUPT + ENDPOINT_ATTR_NO_SYNC + ENDPOINT_USAGE_DATA \in UInt8
          /\ BulkData \in UInt8 /\ 255 \in UInt8 /\ 5 \in UInt8
          /\ CDC_NOTIFICATION_EPSIZE \in UInt16 /\ CDC_TXRX_EPSIZE \in UInt16
      BY DEF UInt8, UInt16, CDC_NOTIFICATION_EPADDR, CDC_RX_EPADDR, CDC_TX_EPADDR,
             ENDPOINT_DIR_IN, ENDPOINT_DIR_OUT, EP_TYPE_INTERRUPT, EP_TYPE_BULK,
             ENDPOINT_ATTR_NO_SYNC, ENDPOINT_USAGE_DATA, BulkData,
             CDC_NOTIFICATION_EPSIZE, CDC_TXRX_EPSIZE
    <3> QED BY <3>1, EndpointDescriptorTyped
            DEF CDC_NotificationEndpoint, CDC_DataEndpoint
  <2> QED BY <2>1, <2>2, <2>3 DEF Interfaces
<1>3. ConfigurationDescriptor \in Seq(UInt8)
  <2> DEFINE size == SizeOfConfigurationHeader + Len(Interfaces)
             low == ByteAt(size, 1)
             high == ByteAt(size, 256)
  <2>1. size \in Int
    BY <1>2 DEF SizeOfConfigurationHeader
  <2> HIDE DEF size
  <2>2. low \in UInt8 /\ high \in UInt8 /\ Bytes16(size) = <<low, high>>
    BY <2>1, Bytes16Typed DEF Bytes16
  <2>3. /\ {2, 1, NO_DESCRIPTOR, USB_CONFIG_POWER_MA(100), DTYPE_Configuration,
            USB_CONFIG_ATTR_RESERVED + USB_CONFIG_ATTR_SELFPOWERED}
              \subseteq UInt8
    BY DEF UInt8, NO_DESCRIPTOR, USB_CONFIG_POWER_MA, DTYPE_Configuration,
           USB_CONFIG_ATTR_RESERVED, USB_CONFIG_ATTR_SELFPOWERED
  <2> DEFINE m == <<low, high>> \o
                  <<2, 1, NO_DESCRIPTOR,
                    USB_CONFIG_ATTR_RESERVED + USB_CONFIG_ATTR_SELFPOWERED,
                    USB_CONFIG_POWER_MA(100)>>
  <2>4. m \in Seq(UInt8) /\ Len(m) <= 253
    <3> HIDE DEF low, high
    <3> QED BY <2>2, <2>3
  <2>5. WithHeader(DTYPE_Configuration, m) \in Seq(UInt8)
    BY <2>3, <2>4, HeaderTyped
  <2>6. ConfigurationDescriptor = WithHeader(DTYPE_Configuration, m) \o Interfaces
    BY <2>2, Zenon DEF ConfigurationDescriptor, USB_Descriptor_Configuration_Header_t,
                       size
  <2> HIDE DEF m
  <2> QED BY <1>2, <2>5, <2>6
<1>5. /\ LanguageString \in Seq(UInt8) /\ ManufacturerString \in Seq(UInt8)
      /\ ProductString \in Seq(UInt8)
  <2>1. LanguageString \in Seq(UInt8)
    <3>1. <<StringSize(1), DTYPE_String>> \in Seq(UInt8)
      BY DEF StringSize, USB_STRING_LEN, DTYPE_String, UInt8
    <3>2. Bytes16(LANGUAGE_ID_ENG) \in Seq(UInt8)
      BY Bytes16Typed DEF LANGUAGE_ID_ENG
    <3> QED BY <3>1, <3>2 DEF LanguageString, USB_Descriptor_Header_t
  <2>2. 16 \in Nat /\ 17 \in Nat /\ 100 \in Nat /\ 200 \in Nat
    OBVIOUS
  <2>3. /\ USB_Descriptor_String_t(16, 100) \in Seq(UInt8)
        /\ USB_Descriptor_String_t(17, 200) \in Seq(UInt8)
    BY <2>2, StringTyped, Zenon
  <2> QED BY <2>1, <2>3, Zenon DEF ManufacturerString, ProductString
<1>4. <<>> \in Seq(UInt8)
  OBVIOUS
<1> QED BY <1>1, <1>3, <1>4, <1>5, Zenon DEF CALLBACK_USB_GetDescriptor

-----------------------------------------------------------------------------
(* What requests do to the settings. *)

\* A buffer has the bytes of what was stored in the other order.
LEMMA ReverseTyped ==
  ASSUME NEW T, NEW s \in Seq(T)
  PROVE  Reverse(s) \in Seq(T) /\ Len(Reverse(s)) = Len(s)
BY DEF Reverse

\* The bytes of a line encoding are read and written in the same order.
LEMMA LineEncodingTyped ==
  ASSUME NEW bytes \in Seq(UInt8), Len(bytes) = 7
  PROVE  /\ LineEncodingOf(bytes) =
              [BaudRateBPS |-> Word32(bytes), CharFormat |-> bytes[5],
               ParityType |-> bytes[6], DataBits |-> bytes[7]]
         /\ Word32(bytes) \in UInt32 /\ bytes[5] \in UInt8
         /\ bytes[6] \in UInt8 /\ bytes[7] \in UInt8
<1>1. \A i \in 1 .. 7 : bytes[i] \in UInt8
  BY ElementOfSeq
<1>2. Word32(bytes) \in UInt32
  BY <1>1, BytesOfWord32 DEF Word32
<1>3. Endpoint_Read_32_LE(bytes) = Word32(bytes)
  BY DEF Endpoint_Read_32_LE, Word32
<1>4. /\ Endpoint_Discard_32(bytes)[1] = bytes[5]
      /\ Endpoint_Discard_32(bytes)[2] = bytes[6]
      /\ Endpoint_Discard_32(bytes)[3] = bytes[7]
  <2>0. ASSUME NEW q \in Seq(UInt8), NEW n \in Nat, Len(q) = n + 1
        PROVE  /\ Tail(q) \in Seq(UInt8) /\ Len(Tail(q)) = n
               /\ \A i \in 1 .. n : Tail(q)[i] = q[i + 1]
    <3>1. q # <<>>
      BY <2>0, EmptySeq
    <3>2. /\ Tail(q) \in Seq(UInt8) /\ Len(Tail(q)) = Len(q) - 1
          /\ \A i \in 1 .. Len(Tail(q)) : Tail(q)[i] = q[i + 1]
      BY <3>1, HeadTailProperties, Zenon
    <3>3. Len(q) - 1 = n
      BY <2>0
    <3> QED BY <3>2, <3>3, Zenon
  <2> DEFINE a == Tail(bytes)
             b == Tail(a)
             c == Tail(b)
             d == Tail(c)
  <2>n. 3 \in Nat /\ 4 \in Nat /\ 5 \in Nat /\ 6 \in Nat /\ 7 = 6 + 1 /\ 6 = 5 + 1
        /\ 5 = 4 + 1 /\ 4 = 3 + 1
    OBVIOUS
  <2>1. a \in Seq(UInt8) /\ Len(a) = 6 /\ \A i \in 1 .. 6 : a[i] = bytes[i + 1]
    BY <2>0, <2>n, Zenon
  <2> HIDE DEF a
  <2>2. b \in Seq(UInt8) /\ Len(b) = 5 /\ \A i \in 1 .. 5 : b[i] = a[i + 1]
    BY <2>0, <2>1, <2>n, Zenon
  <2> HIDE DEF b
  <2>3. c \in Seq(UInt8) /\ Len(c) = 4 /\ \A i \in 1 .. 4 : c[i] = b[i + 1]
    BY <2>0, <2>2, <2>n, Zenon
  <2> HIDE DEF c
  <2>4. \A i \in 1 .. 3 : d[i] = c[i + 1]
    BY <2>0, <2>3, <2>n, Zenon
  <2>5. d[1] = bytes[5] /\ d[2] = bytes[6] /\ d[3] = bytes[7]
    <3> HIDE DEF d
    <3> QED BY <2>1, <2>2, <2>3, <2>4
  <2> QED BY <2>5, Zenon DEF Endpoint_Discard_32, a, b, c, d
<1> QED BY <1>1, <1>2, <1>3, <1>4 DEF LineEncodingOf

\* What is written of one is a packet of seven bytes.
LEMMA LineEncodingWritten ==
  ASSUME NEW s \in SettingsType
  PROVE  /\ LineEncodingBytes(s.line) \in Seq(UInt8)
         /\ Len(LineEncodingBytes(s.line)) = 7
<1> DEFINE l == s.line
<1>1. /\ l.BaudRateBPS \in UInt32 /\ l.CharFormat \in UInt8
      /\ l.ParityType \in UInt8 /\ l.DataBits \in UInt8
  BY DEF SettingsType
<1> HIDE DEF l
<1>2. /\ ByteAt(l.BaudRateBPS, 1) \in UInt8 /\ ByteAt(l.BaudRateBPS, 256) \in UInt8
      /\ ByteAt(l.BaudRateBPS, 65536) \in UInt8
      /\ ByteAt(l.BaudRateBPS, 16777216) \in UInt8
  BY <1>1, Word32OfBytes
<1>3. /\ LineEncodingBytes(l) \in Seq(UInt8)
      /\ Len(LineEncodingBytes(l)) = 7
  BY <1>1, <1>2 DEF LineEncodingBytes, Endpoint_Write_32_LE
<1> QED BY <1>3 DEF l

\* A request makes settings of settings, ...
LEMMA AppliedTyped ==
  ASSUME NEW r \in Known, NEW s \in SettingsType
  PROVE  Applied(r, s) \in SettingsType
<1>0. /\ r.op \in ReadOps \cup WriteOps \cup {"Unsupported"}
      /\ r.wValue \in UInt16 /\ r.data \in Seq(UInt8)
      /\ r.op = "SetLineEncoding" => Len(r.data) = 7
  BY RequestFacts
<1>1. CASE r.op = "SetLineEncoding"
  <2>1. /\ Word32(r.data) \in UInt32 /\ r.data[5] \in UInt8
        /\ r.data[6] \in UInt8 /\ r.data[7] \in UInt8
    BY <1>0, <1>1, LineEncodingTyped
  <2> QED BY <1>1, <2>1 DEF Applied, SettingsType
<1>2. CASE r.op = "SetControlLineState"
  BY <1>0, <1>2 DEF Applied, SettingsType
<1>3. CASE r.op = "Store"
  <2>1. Reverse(r.data) \in Seq(UInt8)
    BY <1>0, ReverseTyped
  <2> QED BY <1>3, <2>1 DEF Applied, SettingsType
<1>4. CASE r.op \in {"ClearFeature", "SetFeature"}
  <2>1. {a % ENDPOINT_EPNUM_MASK : a \in DataEndpointAddresses \cap {r.wIndex}}
          \subseteq DataEndpoints
    BY DEF DataEndpointAddresses, DataEndpoints, ENDPOINT_EPNUM_MASK,
           CDC_NOTIFICATION_EPADDR, CDC_TX_EPADDR, CDC_RX_EPADDR, ENDPOINT_DIR_IN,
           ENDPOINT_DIR_OUT
  <2>2. CASE Recipient(r) = REQREC_DEVICE
    <3> DEFINE set == r.op = "SetFeature"
    <3>1. \/ Applied(r, s) = [s EXCEPT !.wakeup = set]
          \/ Applied(r, s) = s
      BY <1>4, <2>2 DEF Applied, REQREC_DEVICE, REQREC_ENDPOINT
    <3>2. set \in BOOLEAN
      BY Zenon
    <3> HIDE DEF set
    <3> QED BY <3>1, <3>2 DEF SettingsType
  <2>3. CASE Recipient(r) = REQREC_ENDPOINT
    <3>1. CASE r.wValue = FEATURE_SEL_EndpointHalt
      <4> DEFINE e == {a % ENDPOINT_EPNUM_MASK :
                         a \in DataEndpointAddresses \cap {r.wIndex}}
      <4>1. Applied(r, s) =
              [s EXCEPT !.halted = IF r.op = "SetFeature" THEN @ \cup e ELSE @ \ e]
        BY <1>4, <2>3, <3>1 DEF Applied, REQREC_DEVICE, REQREC_ENDPOINT
      <4>2. e \subseteq DataEndpoints
        BY <2>1
      <4> DEFINE h == IF r.op = "SetFeature" THEN s.halted \cup e ELSE s.halted \ e
      <4>3. h \in SUBSET DataEndpoints /\ Applied(r, s) = [s EXCEPT !.halted = h]
        BY <4>1, <4>2 DEF SettingsType
      <4> HIDE DEF h
      <4> QED BY <4>3 DEF SettingsType
    <3>2. CASE r.wValue # FEATURE_SEL_EndpointHalt
      BY <1>4, <2>3, <3>2 DEF Applied, REQREC_DEVICE, REQREC_ENDPOINT
    <3> QED BY <3>1, <3>2
  <2>4. CASE Recipient(r) \notin {REQREC_DEVICE, REQREC_ENDPOINT}
    BY <1>4, <2>4 DEF Applied
  <2> QED BY <2>2, <2>3, <2>4
<1>5. CASE r.op \notin {"SetLineEncoding", "SetControlLineState", "Store",
                        "ClearFeature", "SetFeature"}
  BY <1>5 DEF Applied
<1> QED BY <1>1, <1>2, <1>3, <1>4, <1>5

\* ... and nothing more when it is repeated.
LEMMA AppliedTwice ==
  ASSUME NEW r \in Known, NEW s \in SettingsType
  PROVE  Applied(r, Applied(r, s)) = Applied(r, s)
<1>1. CASE r.op = "SetLineEncoding"
  BY <1>1 DEF Applied, SettingsType
<1>2. CASE r.op = "SetControlLineState"
  BY <1>2 DEF Applied, SettingsType
<1>3. CASE r.op = "Store"
  BY <1>3 DEF Applied, SettingsType
<1>4. CASE r.op \in {"ClearFeature", "SetFeature"} /\ Recipient(r) = REQREC_DEVICE
  BY <1>4 DEF Applied, SettingsType, REQREC_DEVICE, REQREC_ENDPOINT
<1>5. CASE /\ r.op \in {"ClearFeature", "SetFeature"} /\ Recipient(r) = REQREC_ENDPOINT
           /\ r.wValue = FEATURE_SEL_EndpointHalt
  <2> DEFINE e == {a % ENDPOINT_EPNUM_MASK : a \in DataEndpointAddresses \cap {r.wIndex}}
             H(h) == IF r.op = "SetFeature" THEN h \cup e ELSE h \ e
  <2>1. ASSUME NEW t
        PROVE  Applied(r, t) = [t EXCEPT !.halted = H(@)]
    BY <1>5 DEF Applied, REQREC_DEVICE, REQREC_ENDPOINT
  <2>2. \A h : H(H(h)) = H(h)
    OBVIOUS
  <2> HIDE DEF H
  <2> QED BY <2>1, <2>2 DEF SettingsType
<1>6. CASE /\ r.op \notin {"SetLineEncoding", "SetControlLineState", "Store"}
           /\ r.op \in {"ClearFeature", "SetFeature"} =>
                /\ Recipient(r) # REQREC_DEVICE
                /\ Recipient(r) = REQREC_ENDPOINT =>
                     r.wValue # FEATURE_SEL_EndpointHalt
  <2>1. ASSUME NEW t
        PROVE  Applied(r, t) = t
    BY <1>6 DEF Applied
  <2> QED BY <2>1
<1> QED BY <1>1, <1>2, <1>3, <1>4, <1>5, <1>6

\* What the code makes of a feature is what the host means.
LEMMA FeatureMeant ==
  ASSUME NEW r \in Known, NEW s \in SettingsType,
         r.op \in {"ClearFeature", "SetFeature"}, FeatureTaken(r)
  PROVE  WithFeature(r, s) = Applied(r, s)
<1> DEFINE e == r.wIndex % ENDPOINT_EPNUM_MASK
           E == {a % ENDPOINT_EPNUM_MASK : a \in DataEndpointAddresses \cap {r.wIndex}}
           set == r.op = "SetFeature"
<1>0. r \in Requests
  BY DEF Known, NoRequest
<1>1. /\ r.wValue \in UInt16 /\ r.wValue < 256
      /\ (Recipient(r) = REQREC_ENDPOINT /\ e \in DataEndpoints)
           => r.wIndex \in DataEndpointAddresses
  BY <1>0, RequestFacts, WellFormedAssumption, Zenon DEF Recipient
<1>2. r.wValue % 256 = r.wValue
  <2>1. ASSUME NEW n \in 0 .. 255
        PROVE  n % 256 = n
    OBVIOUS
  <2>2. r.wValue \in 0 .. 255
    BY <1>1, Numbers
  <2> QED BY <2>1, <2>2, Zenon
<1>3. CASE Recipient(r) = REQREC_DEVICE
  <2>1. r.wValue = FEATURE_SEL_DeviceRemoteWakeup
    BY <1>2, <1>3 DEF FeatureTaken, REQREC_DEVICE, REQREC_ENDPOINT
  <2>2. WithFeature(r, s) = [s EXCEPT !.wakeup = set]
    BY <1>2, <1>3, <2>1
       DEF WithFeature, FEATURE_SEL_EndpointHalt, FEATURE_SEL_DeviceRemoteWakeup
  <2>3. Applied(r, s) = [s EXCEPT !.wakeup = set]
    BY <1>3, <2>1 DEF Applied, REQREC_DEVICE, REQREC_ENDPOINT
  <2> QED BY <2>2, <2>3, Zenon
<1>4. CASE /\ Recipient(r) = REQREC_ENDPOINT /\ r.wValue = FEATURE_SEL_EndpointHalt
           /\ e \in DataEndpoints
  <2>1. E = {e}
    BY <1>1, <1>4
  <2> DEFINE with == IF set THEN [s EXCEPT !.halted = @ \cup {e}]
                            ELSE [s EXCEPT !.halted = @ \ {e}]
  <2>2. WithFeature(r, s) = with
    BY <1>2, <1>4
       DEF WithFeature, REQREC_DEVICE, REQREC_ENDPOINT, Endpoint_IsEnabled,
           Endpoint_StallTransaction, Endpoint_ClearStall
  <2>3. Applied(r, s) = [s EXCEPT !.halted = IF set THEN @ \cup E ELSE @ \ E]
    BY <1>4 DEF Applied, REQREC_DEVICE, REQREC_ENDPOINT
  <2> HIDE DEF e, E, set
  <2>4. Applied(r, s) = with
    BY <2>1, <2>3
  <2> HIDE DEF with
  <2> QED BY <2>2, <2>4, Zenon
<1>5. CASE /\ Recipient(r) = REQREC_ENDPOINT /\ r.wValue = FEATURE_SEL_EndpointHalt
           /\ e \notin DataEndpoints
  <2>1. E = {}
    BY <1>5
       DEF DataEndpointAddresses, DataEndpoints, ENDPOINT_EPNUM_MASK,
           CDC_NOTIFICATION_EPADDR, CDC_TX_EPADDR, CDC_RX_EPADDR, ENDPOINT_DIR_IN,
           ENDPOINT_DIR_OUT
  <2>2. WithFeature(r, s) = s
    BY <1>2, <1>5 DEF WithFeature, REQREC_DEVICE, REQREC_ENDPOINT, Endpoint_IsEnabled
  <2>3. Applied(r, s) = [s EXCEPT !.halted = IF set THEN @ \cup E ELSE @ \ E]
    BY <1>5 DEF Applied, REQREC_DEVICE, REQREC_ENDPOINT
  <2> HIDE DEF E, set
  <2> QED BY <2>1, <2>2, <2>3 DEF SettingsType
<1>6. CASE Recipient(r) = REQREC_ENDPOINT /\ r.wValue # FEATURE_SEL_EndpointHalt
  <2>1. WithFeature(r, s) = s
    BY <1>2, <1>6 DEF WithFeature, REQREC_DEVICE, REQREC_ENDPOINT
  <2>2. Applied(r, s) = s
    BY <1>6 DEF Applied, REQREC_DEVICE, REQREC_ENDPOINT
  <2> QED BY <2>1, <2>2, Zenon
<1>7. Recipient(r) = REQREC_DEVICE \/ Recipient(r) = REQREC_ENDPOINT
  BY DEF FeatureTaken
<1> HIDE DEF e
<1> QED BY <1>3, <1>4, <1>5, <1>6, <1>7

\* The types, written as the proofs use them.
LEMMA TypeAsParts == TypeOK <=> Typed
BY EndpointSize DEF TypeOK, Typed, BankOK, Known

\* The types without the bytes.
LEMMA Shape ==
  ASSUME TypeOK
  PROVE  /\ attached \in BOOLEAN
         /\ ctl \in [setup : BOOLEAN, stall : BOOLEAN, out : Banks, in : Banks]
         /\ ctl.out \in Banks /\ ctl.in \in Banks
         /\ req \in Known /\ pkt \in Known
         /\ job \in [data : Seq(UInt8), left : UInt16, LastPacketFull : BOOLEAN]
         /\ job.left \in Nat /\ fed \in Nat /\ fed <= pkt.wLength /\ pkt.wLength \in Nat
<1>1. /\ job.left \in UInt16 /\ pkt \in Known
      /\ pkt.wLength \in UInt16 /\ fed \in 0 .. pkt.wLength
  BY RequestFacts DEF TypeOK, Known
<1>2. job.left \in Nat /\ fed \in Nat /\ fed <= pkt.wLength /\ pkt.wLength \in Nat
  BY <1>1, Numbers
<1> QED BY <1>2 DEF TypeOK, Known

\* The lengths of what the banks and the buffer hold.
LEMMA LengthsOfBanks ==
  ASSUME TypeOK
  PROVE  /\ Reply \in Seq(UInt8) /\ Len(Reply) \in Nat /\ Len(Reply) <= 8
         /\ Packet \in Seq(UInt8) /\ Len(Packet) \in Nat /\ Len(Packet) <= 8
         /\ job.data \in Seq(UInt8) /\ Len(job.data) \in Nat
         /\ got \in Seq(UInt8) /\ Len(got) \in Nat
<1>1. /\ ctl.in.bytes \in Seq(UInt8) /\ ctl.out.bytes \in Seq(UInt8)
      /\ job.data \in Seq(UInt8) /\ got \in Seq(UInt8)
  BY DEF TypeOK, Banks
<1>2. Len(ctl.in.bytes) <= 8 /\ Len(ctl.out.bytes) <= 8
  BY EndpointSize DEF TypeOK
<1>3. <<>> \in Seq(UInt8) /\ Len(<<>>) <= 8
  OBVIOUS
<1>4. Reply \in {ctl.in.bytes, <<>>} /\ Packet \in {ctl.out.bytes, <<>>}
  BY DEF Reply, Packet
<1>5. Reply \in Seq(UInt8) /\ Len(Reply) <= 8 /\ Packet \in Seq(UInt8) /\ Len(Packet) <= 8
  BY <1>1, <1>2, <1>3, <1>4, Zenon
<1> QED BY <1>1, <1>5, LenProperties

-----------------------------------------------------------------------------
(* Who serves whom: every step keeps Control. *)

\* No step, of the code or of the host, disturbs who serves whom.
LEMMA ControlKept ==
  ASSUME IInv, Next
  PROVE  Control'
<1> USE DEF Control
<1>0. TypeOK /\ Control /\ Sent /\ Fetched
  BY TypeAsParts DEF IInv
<1>1. /\ attached \in BOOLEAN
      /\ ctl \in [setup : BOOLEAN, stall : BOOLEAN, out : Banks, in : Banks]
      /\ req \in Known /\ pkt \in Known
      /\ job \in [data : Seq(UInt8), left : UInt16, LastPacketFull : BOOLEAN]
      /\ job.left \in Nat
  BY <1>0, Shape, Zenon

<1>ReadRequest. CASE ReadRequest
  BY <1>0, <1>1, <1>ReadRequest, FirstPhases
     DEF ReadRequest, hostVars, codeVars, Asked, Served, Waiting, Placed, Live, Fresh,
         Places
<1>ClassRequest. CASE ClassRequest
  BY <1>0, <1>1, <1>ClassRequest, FirstPhases
     DEF ClassRequest, hostVars, codeVars, Asked, Served, Waiting, Placed, Live, Fresh,
         Places, ForDriver, Pending, AfterClassRequest, ClassOps, VendorOps, WriteOps,
         ReadOps
<1>ReplyLineEncoding. CASE ReplyLineEncoding
  BY <1>0, <1>1, <1>ReplyLineEncoding, FirstPhases
     DEF ReplyLineEncoding, hostVars, codeVars, Asked, Served, Waiting, Placed, Live,
         Fresh, Places, Holding
<1>TakeLineEncoding. CASE TakeLineEncoding
  BY <1>0, <1>1, <1>TakeLineEncoding, FirstPhases
     DEF TakeLineEncoding, hostVars, codeVars, Asked, Served, Waiting, Placed, Live,
         Fresh, Places, Empty, Fetched, WriteOps
<1>LineEncodingAbandoned. CASE LineEncodingAbandoned
  BY <1>0, <1>1, <1>LineEncodingAbandoned, FirstPhases
     DEF LineEncodingAbandoned, hostVars, codeVars, Asked, Served, Waiting, Placed, Live,
         Fresh, Places, ClassOps
<1>VendorRequest. CASE VendorRequest
  <2>0. /\ pc = "event" /\ ctl.setup /\ req = pkt /\ phase = FirstPhase(pkt)
        /\ ~ctl.stall /\ ~ctl.out.full /\ got = <<>> /\ fed = 0
        /\ req.op \in {"Load", "Store"} /\ req.bmRequestType \in RequestTypes(req.op)
        /\ attached
    BY <1>0, <1>1, <1>VendorRequest, FirstPhases
       DEF VendorRequest, Pending, VendorOps, Asked, Fresh
  <2>1. CASE req.op = "Load"
    <3>1. /\ pc' = "stream" /\ UNCHANGED <<attached, req, pkt, phase, got, fed>>
          /\ ~ctl'.setup /\ ~ctl'.stall /\ ~ctl'.out.full
      BY <1>1, <1>VendorRequest, <2>0, <2>1 DEF VendorRequest, hostVars, StartWrite
    <3>2. FirstPhase(pkt) = "dataIn"
      BY <1>1, <2>0, <2>1, FirstPhases DEF ReadOps
    <3>3. Asked'
      BY <2>0, <3>1, <3>2 DEF Asked, Fresh
    <3>4. Served'
      BY <2>0, <3>1, <3>2 DEF Served, Live, Places
    <3>5. Waiting'
      BY <3>1 DEF Waiting
    <3>6. Placed'
      BY <2>0, <2>1, <3>1 DEF Placed
    <3> QED BY <3>3, <3>4, <3>5, <3>6
  <2>2. CASE req.op = "Store"
    <3>1. /\ pc' = "fetch" /\ UNCHANGED <<attached, req, pkt, phase, got, fed>>
          /\ ~ctl'.setup /\ ~ctl'.stall /\ ~ctl'.out.full
      <4>1. /\ UNCHANGED <<attached, req, settings, hostVars>>
            /\ StartRead(req.wLength, [ctl EXCEPT !.setup = FALSE])
        BY <1>VendorRequest, <2>2 DEF VendorRequest
      <4>2. /\ pc' = "fetch"
            /\ ctl' = [[ctl EXCEPT !.setup = FALSE] EXCEPT
                         !.out = IF req.wLength = 0 THEN Empty ELSE @]
        BY <4>1 DEF StartRead
      <4> QED BY <1>1, <2>0, <4>1, <4>2 DEF hostVars, Empty
    <3>2. FirstPhase(pkt) \in {"dataOut", "statusIn"}
      BY <1>1, <2>0, <2>2, FirstPhases DEF WriteOps
    <3>3. Asked'
      BY <2>0, <3>1, <3>2 DEF Asked, Fresh
    <3>4. Live' /\ Served'
      BY <2>0, <3>1, <3>2 DEF Served, Live, Places
    <3>5. Waiting'
      BY <3>1 DEF Waiting
    <3>6. Placed'
      <4>1. /\ req'.op = "Store" /\ req'.bmRequestType \in RequestTypes(req'.op)
            /\ pc' = "fetch" /\ Live'
        BY <2>0, <2>2, <3>1, <3>4
      <4> QED BY <4>1 DEF Placed
    <3> QED BY <3>3, <3>4, <3>5, <3>6
  <2> QED BY <2>0, <2>1, <2>2
<1>EventIgnored. CASE EventIgnored
  BY <1>0, <1>1, <1>EventIgnored, FirstPhases
     DEF EventIgnored, hostVars, codeVars, Asked, Served, Waiting, Placed, Live, Fresh,
         Places, ForDriver, Pending, ClassOps, VendorOps, NoRequest
<1>StreamPacket. CASE StreamPacket
  BY <1>0, <1>1, <1>StreamPacket, FirstPhases
     DEF StreamPacket, hostVars, codeVars, Asked, Served, Waiting, Placed, Live, Fresh,
         Places, Holding
<1>WriteAborted. CASE WriteAborted
  BY <1>0, <1>1, <1>WriteAborted, FirstPhases
     DEF WriteAborted, hostVars, codeVars, Asked, Served, Waiting, Placed, Live, Fresh,
         Places
<1>StreamEnds. CASE StreamEnds
  BY <1>0, <1>1, <1>StreamEnds, FirstPhases
     DEF StreamEnds, hostVars, codeVars, Asked, Served, Waiting, Placed, Live, Fresh,
         Places
<1>Drain. CASE Drain
  BY <1>0, <1>1, <1>Drain, FirstPhases
     DEF Drain, hostVars, codeVars, Asked, Served, Waiting, Placed, Live, Fresh, Places
<1>FinishWrite. CASE FinishWrite
  BY <1>0, <1>1, <1>FinishWrite, FirstPhases
     DEF FinishWrite, hostVars, codeVars, Asked, Served, Waiting, Placed, Live, Fresh,
         Places, AfterHandler, ClassOps, VendorOps, Empty
<1>FetchPacket. CASE FetchPacket
  BY <1>0, <1>1, <1>FetchPacket, FirstPhases
     DEF FetchPacket, hostVars, codeVars, Asked, Served, Waiting, Placed, Live, Fresh,
         Places, Empty, Fetched
<1>ReadAborted. CASE ReadAborted
  BY <1>0, <1>1, <1>ReadAborted, FirstPhases
     DEF ReadAborted, hostVars, codeVars, Asked, Served, Waiting, Placed, Live, Fresh,
         Places, AfterHandler, ClassOps, VendorOps
<1>FetchEnds. CASE FetchEnds
  <2>1. Live /\ phase \in {"dataOut", "statusIn"} /\ job.left = 0
    BY <1>0, <1>FetchEnds DEF FetchEnds, Placed, Served, Places, Live
  <2>2. fed = pkt.wLength /\ Len(Packet) = 0
    <3>1. /\ Len(job.data) + job.left = pkt.wLength
          /\ fed = Len(job.data) + Len(Packet)
      BY <1>0, <1>FetchEnds, <2>1, Zenon DEF FetchEnds, Fetched
    <3> DEFINE n == Len(job.data)
               m == Len(Packet)
    <3>2. n \in Nat /\ m \in Nat
      BY <1>0, <1>1, LengthsOfBanks
    <3>3. fed <= pkt.wLength /\ fed \in Nat /\ pkt.wLength \in Nat
      BY <1>0, Shape
    <3>4. n + job.left = pkt.wLength /\ fed = n + m
      BY <3>1
    <3> HIDE DEF n, m
    <3>5. fed = pkt.wLength /\ m = 0
      BY <2>1, <3>2, <3>3, <3>4
    <3> QED BY <3>5 DEF m
  <2>3. phase = "statusIn"
    BY <1>0, <1>FetchEnds, <2>1, <2>2 DEF FetchEnds, Fetched
  <2>4. pc' = "settle" /\ UNCHANGED <<attached, ctl, req, job, pkt, phase, got, fed>>
    BY <1>FetchEnds DEF FetchEnds, hostVars
  <2>5. req.op = "Store" /\ req.bmRequestType \in RequestTypes(req.op) /\ req = pkt
    BY <1>0, <1>FetchEnds, <2>1 DEF FetchEnds, Placed, Served
  <2>6. ~ctl.out.full
    <3>1. ctl.out.bytes \in Seq(UInt8) /\ Len(<<>>) = 0
      BY <1>0 DEF TypeOK, Banks
    <3>2. ctl.out.bytes # <<>> => Len(ctl.out.bytes) # 0
      BY <3>1
    <3>3. ctl.out.full => ctl.out.bytes # <<>> /\ Packet = ctl.out.bytes
      BY <1>0, <1>FetchEnds DEF FetchEnds, Waiting, Packet
    <3> QED BY <2>2, <3>2, <3>3, Zenon
  <2> QED BY <1>0, <2>1, <2>3, <2>4, <2>5, <2>6
     DEF Asked, Served, Waiting, Placed, Live, Fresh, Places
<1>Settle. CASE Settle
  BY <1>0, <1>1, <1>Settle, FirstPhases
     DEF Settle, hostVars, codeVars, Asked, Served, Waiting, Placed, Live, Fresh, Places,
         AfterHandler, ClassOps, VendorOps, Holding
<1>StatusIN. CASE StatusIN
  BY <1>0, <1>1, <1>StatusIN, FirstPhases
     DEF StatusIN, hostVars, codeVars, Asked, Served, Waiting, Placed, Live, Fresh,
         Places, Holding, ReadOps, WriteOps
<1>StatusOUT. CASE StatusOUT
  BY <1>0, <1>1, <1>StatusOUT, FirstPhases
     DEF StatusOUT, hostVars, codeVars, Asked, Served, Waiting, Placed, Live, Fresh,
         Places, Empty, ReadOps
<1>Finish. CASE Finish
  BY <1>0, <1>1, <1>Finish, FirstPhases
     DEF Finish, hostVars, codeVars, Asked, Served, Waiting, Placed, Live, Fresh, Places,
         AfterHandler, ClassOps, VendorOps
<1>GetDescriptor. CASE GetDescriptor
  BY <1>0, <1>1, <1>GetDescriptor, FirstPhases
     DEF GetDescriptor, hostVars, codeVars, Asked, Served, Waiting, Placed, Live, Fresh,
         Places, StartWrite, Pending, Holding, ClassOps, VendorOps, ReadOps, WriteOps
<1>GetStatus. CASE GetStatus
  BY <1>0, <1>1, <1>GetStatus, FirstPhases
     DEF GetStatus, hostVars, codeVars, Asked, Served, Waiting, Placed, Live, Fresh,
         Places, Pending, Holding, ClassOps, VendorOps, ReadOps, WriteOps
<1>ClearSetFeature. CASE ClearSetFeature
  BY <1>0, <1>1, <1>ClearSetFeature, FirstPhases
     DEF ClearSetFeature, hostVars, codeVars, Asked, Served, Waiting, Placed, Live,
         Fresh, Places, Pending, ClassOps, VendorOps, ReadOps, WriteOps
<1>NoStandardRequest. CASE NoStandardRequest
  BY <1>0, <1>1, <1>NoStandardRequest, FirstPhases
     DEF NoStandardRequest, hostVars, codeVars, Asked, Served, Waiting, Placed, Live,
         Fresh, Places
<1>StallUnhandled. CASE StallUnhandled
  BY <1>0, <1>1, <1>StallUnhandled, FirstPhases
     DEF StallUnhandled, hostVars, codeVars, Asked, Served, Waiting, Placed, Live, Fresh,
         Places, ClassOps, VendorOps
<1>HostIn. CASE HostIn
  BY <1>0, <1>1, <1>HostIn, FirstPhases
     DEF HostIn, hostVars, codeVars, Asked, Served, Waiting, Placed, Live, Fresh, Places,
         HostDone, Empty, Sent, Fetched
<1>HostCutsShort. CASE HostCutsShort
  BY <1>0, <1>1, <1>HostCutsShort, FirstPhases
     DEF HostCutsShort, hostVars, codeVars, Asked, Served, Waiting, Placed, Live, Fresh,
         Places, Sent
<1>HostStatusOut. CASE HostStatusOut
  BY <1>0, <1>1, <1>HostStatusOut, FirstPhases
     DEF HostStatusOut, hostVars, codeVars, Asked, Served, Waiting, Placed, Live, Fresh,
         Places, Accepting, Holding, HostDone
<1>HostDataOut. CASE HostDataOut
  <2> DEFINE rest == pkt.wLength - fed
             size == IF rest < USB_Device_ControlEndpointSize
                     THEN rest ELSE USB_Device_ControlEndpointSize
             bytes == SubSeq(pkt.data, fed + 1, fed + size)
  <2>1. /\ ~ctl.setup /\ ~ctl.stall /\ ~ctl.out.full /\ attached /\ phase = "dataOut"
        /\ Live /\ pc \in {"lineOut", "fetch"} /\ req = pkt
    BY <1>0, <1>HostDataOut DEF HostDataOut, Accepting, Served, Places, Live
  <2>2. rest \in Nat /\ rest > 0
    <3>1. fed \in Nat /\ fed <= pkt.wLength /\ pkt.wLength \in Nat
      BY <1>0, Shape
    <3>2. CASE pc = "lineOut"
      <4>1. fed = 0 /\ pkt.op = "SetLineEncoding"
        BY <1>0, <2>1, <3>2 DEF Fetched, Placed
      <4>2. pkt.wLength = 7
        BY <1>1, <4>1, RequestFacts, Zenon
      <4> QED BY <4>1, <4>2
    <3>3. CASE pc = "fetch"
      <4>1. fed # pkt.wLength
        BY <1>0, <2>1, <3>3, Zenon DEF Fetched
      <4> QED BY <3>1, <4>1
    <3> QED BY <2>1, <3>2, <3>3
  <2>3. /\ ctl' = [ctl EXCEPT !.out = Holding(bytes)]
        /\ fed' = fed + size
        /\ phase' = IF size = rest THEN "statusIn" ELSE "dataOut"
        /\ UNCHANGED <<attached, req, pc, job, settings, pkt, got>>
    BY <1>HostDataOut, Zenon DEF HostDataOut, codeVars
  <2>4. bytes # <<>>
    <3>1. size \in Nat /\ size > 0
      BY <2>2, EndpointSize
    <3>2. fed \in Nat
      BY <1>0, Shape
    <3> HIDE DEF size
    <3>3. Len(bytes) > 0
      BY <3>1, <3>2
    <3> HIDE DEF bytes
    <3> QED BY <3>3
  <2> HIDE DEF bytes, size, rest
  <2> QED BY <1>0, <1>1, <2>1, <2>3, <2>4, FirstPhases
     DEF Holding, Asked, Served, Waiting, Placed, Live, Fresh, Places
<1>HostStalled. CASE HostStalled
  BY <1>0, <1>1, <1>HostStalled, FirstPhases
     DEF HostStalled, hostVars, codeVars, Asked, Served, Waiting, Placed, Live, Fresh,
         Places, HostDone
<1>HostGivesUp. CASE HostGivesUp
  BY <1>0, <1>1, <1>HostGivesUp, FirstPhases
     DEF HostGivesUp, hostVars, codeVars, Asked, Served, Waiting, Placed, Live, Fresh,
         Places, HostDone, Quiet
<1>HostSuspends. CASE HostSuspends
  BY <1>0, <1>1, <1>HostSuspends, FirstPhases
     DEF HostSuspends, hostVars, codeVars, Asked, Served, Waiting, Placed, Live, Fresh,
         Places, HostDone, Quiet
<1>HostResumes. CASE HostResumes
  BY <1>0, <1>1, <1>HostResumes, FirstPhases
     DEF HostResumes, hostVars, codeVars, Asked, Served, Waiting, Placed, Live, Fresh,
         Places
<1>HostSetup. ASSUME NEW r \in Requests, HostSetup(r)
  PROVE Control'
  BY <1>0, <1>1, <1>HostSetup, FirstPhases
     DEF HostSetup, hostVars, codeVars, Quiet, Empty, Known, Asked, Served, Waiting,
         Placed, Live, Fresh, Places
<1> QED BY <1>ReadRequest, <1>ClassRequest, <1>ReplyLineEncoding,
           <1>TakeLineEncoding, <1>LineEncodingAbandoned, <1>VendorRequest,
           <1>EventIgnored, <1>StreamPacket, <1>WriteAborted, <1>StreamEnds,
           <1>Drain, <1>FinishWrite, <1>FetchPacket, <1>ReadAborted, <1>FetchEnds,
           <1>Settle, <1>StatusIN, <1>StatusOUT, <1>Finish, <1>GetDescriptor,
           <1>GetStatus, <1>ClearSetFeature, <1>NoStandardRequest,
           <1>StallUnhandled, <1>HostIn, <1>HostCutsShort, <1>HostStatusOut,
           <1>HostDataOut, <1>HostStalled, <1>HostGivesUp, <1>HostSuspends,
           <1>HostResumes, <1>HostSetup
        DEF Next, CodeStep, EventStep, StreamStep, StandardStep, HostStep

-----------------------------------------------------------------------------
(* Banks, words, packets and handlers: every step keeps the types. *)

\* A packet that fits makes a bank.
LEMMA Banked ==
  /\ Empty \in Banks /\ BankOK(Empty) /\ ~Empty.full
  /\ \A bytes \in Seq(UInt8) : Len(bytes) <= 8 =>
       BankOK(Holding(bytes)) /\ Holding(bytes) \in Banks
<1>1. <<>> \in Seq(UInt8) /\ Len(<<>>) <= 8
  OBVIOUS
<1> QED BY <1>1 DEF BankOK, Banks, Empty, Holding

\* The front of some data that is as long as the data is the data.
LEMMA AllBegins ==
  ASSUME NEW T, NEW w \in Seq(T), NEW a \in Seq(T), NEW b, Begins(w, a, b),
         Len(a) = Len(w)
  PROVE  a = w
BY SeqEqual, Zenon DEF Begins

\* The answer to GET STATUS is two bytes.
LEMMA StatusTyped ==
  ASSUME NEW r, NEW s, r.op = "GetStatus", r.bmRequestType \in RequestTypes(r.op)
  PROVE  /\ Endpoint_Write_16_LE(CurrentStatus(r, s)) \in Seq(UInt8)
         /\ Len(Endpoint_Write_16_LE(CurrentStatus(r, s))) = 2
<1>1. r.bmRequestType \in {128, 130}
  BY DEF RequestTypes, ClassOps, REQDIR_DEVICETOHOST, REQTYPE_STANDARD, REQREC_DEVICE,
         REQREC_ENDPOINT
<1>2. Recipient(r) \in {REQREC_DEVICE, REQREC_ENDPOINT}
  BY <1>1 DEF Recipient, CONTROL_REQTYPE_RECIPIENT, REQREC_DEVICE, REQREC_ENDPOINT
<1>3. CurrentStatus(r, s) \in {0, 1, 2}
  BY <1>2 DEF CurrentStatus, REQREC_DEVICE, REQREC_ENDPOINT, FEATURE_REMOTE_WAKEUP_ENABLED
<1> QED BY <1>3 DEF Endpoint_Write_16_LE, ByteAt, UInt8

\* A number below 2^16 is a word.
LEMMA WordNumber ==
  ASSUME NEW n \in Nat, n <= 65535
  PROVE  n \in UInt16
<1> DEFINE q == n \div 256
           r == n % 256
<1>1. q \in Nat /\ r \in UInt8 /\ n = r + 256 * q
  BY SplitByte
<1>2. r \in Nat
  BY <1>1, Numbers
<1> HIDE DEF q, r
<1>3. q <= 255
  BY <1>1, <1>2
<1>4. q \in UInt8
  BY <1>1, <1>3 DEF UInt8
<1> QED BY <1>1, <1>4, BytesOfWord16

\* The length that is streamed is a uint16_t.
LEMMA ShorterNumber ==
  /\ 0 \in UInt16
  /\ \A n \in Nat, w \in UInt16 :
       /\ (IF n < w THEN n ELSE w) = IF n > w THEN w ELSE n
       /\ (IF n < w THEN n ELSE w) \in UInt16 /\ (IF n < w THEN n ELSE w) <= n
<1>1. \A w \in UInt16 : w \in Nat /\ w <= 65535
  BY Numbers
<1>2. \A n \in Nat : n <= 65535 => n \in UInt16
  BY WordNumber
<1> QED BY <1>1, <1>2

\* What a request makes of the application's buffer fits the length of a stream.
LEMMA AppliedStored ==
  ASSUME NEW r \in Known, NEW s \in SettingsType, Len(s.stored) \in UInt16
  PROVE  Len(Applied(r, s).stored) \in UInt16
<1>1. CASE r.op = "Store"
  <2>1. Applied(r, s).stored = Reverse(r.data)
    BY <1>1 DEF Applied, SettingsType
  <2>2. Len(Reverse(r.data)) = Len(r.data)
    BY RequestFacts, ReverseTyped
  <2>3. Len(r.data) \in UInt16
    <3>1. CASE r.bmRequestType < 128
      BY <3>1, RequestFacts
    <3>2. CASE r.bmRequestType >= 128
      <4>1. r.data = <<>>
        BY <3>2, RequestFacts
      <4>2. Len(<<>>) = 0
        OBVIOUS
      <4>3. 0 \in UInt16
        BY ShorterNumber
      <4> QED BY <4>1, <4>2, <4>3, Zenon
    <3>3. r.bmRequestType \in Int
      BY RequestFacts, Numbers
    <3>4. r.bmRequestType < 128 \/ r.bmRequestType >= 128
      BY <3>3
    <3> QED BY <3>1, <3>2, <3>4, Zenon
  <2> QED BY <2>1, <2>2, <2>3, Zenon
<1>2. CASE r.op # "Store"
  <2>1. Applied(r, s).stored = s.stored
    BY <1>2 DEF Applied, SettingsType
  <2> QED BY <2>1
<1> QED BY <1>1, <1>2

\* A handler carries out the request of the host, and that as the host means it.
LEMMA CarriedOut ==
  ASSUME IInv
  PROVE  /\ TakeLineEncoding => settings' = Applied(pkt, settings)
         /\ Settle => /\ settings' = Applied(pkt, settings)
                      /\ ctl' = [ctl EXCEPT !.in = Holding(<<>>)]
         /\ ClearSetFeature => settings' = Applied(pkt, settings)
         /\ Finish => settings' = IF Late THEN Applied(pkt, settings) ELSE settings
<1>0. Typed /\ Sizes /\ Control /\ Fetched
  BY TypeAsParts DEF IInv
<1>1. ASSUME TakeLineEncoding PROVE settings' = Applied(pkt, settings)
  <2>1. Live /\ ctl.out.bytes = pkt.data /\ pkt.op = "SetLineEncoding" /\ pkt \in Known
    BY <1>0, <1>1
       DEF TakeLineEncoding, Typed, Control, Waiting, Placed, Served, Live, Fetched
  <2>2. pkt.data \in Seq(UInt8) /\ Len(pkt.data) = 7
    BY <2>1, RequestFacts
  <2>3. settings' = [settings EXCEPT !.line = LineEncodingOf(pkt.data)]
    BY <1>1, <2>1, Zenon DEF TakeLineEncoding
  <2>4. LineEncodingOf(pkt.data) =
          [BaudRateBPS |-> Word32(pkt.data), CharFormat |-> pkt.data[5],
           ParityType |-> pkt.data[6], DataBits |-> pkt.data[7]]
    BY <2>2, LineEncodingTyped
  <2>5. Applied(pkt, settings) =
          [settings EXCEPT !.line =
             [BaudRateBPS |-> Word32(pkt.data), CharFormat |-> pkt.data[5],
              ParityType |-> pkt.data[6], DataBits |-> pkt.data[7]]]
    BY <2>1 DEF Applied
  <2> QED BY <2>3, <2>4, <2>5, Zenon
<1>2. ASSUME Settle PROVE /\ settings' = Applied(pkt, settings)
                          /\ ctl' = [ctl EXCEPT !.in = Holding(<<>>)]
  <2>1. /\ Live /\ job.left = 0 /\ req = pkt /\ pkt.op = "Store" /\ pkt \in Known
        /\ pkt.bmRequestType \in RequestTypes(pkt.op)
        /\ ~ctl.in.full
    BY <1>0, <1>2 DEF Settle, Typed, Control, Placed, Served, Live, Fetched
  <2>2. /\ settings' = [settings EXCEPT !.stored = Reverse(job.data)]
        /\ ctl' = [ctl EXCEPT !.in = Holding(<<>>)]
    BY <1>2, <2>1 DEF Settle, Endpoint_ControlStream_RW_ErrorCodes_t
  <2>3. job.data = pkt.data
    <3>1. /\ Begins(pkt.data, job.data, Packet)
          /\ Len(job.data) + job.left = pkt.wLength
      BY <1>0, <1>2, <2>1, Zenon DEF Settle, Fetched
    <3>2. job.data \in Seq(UInt8) /\ pkt.data \in Seq(UInt8) /\ pkt.wLength = Len(pkt.data)
      BY <1>0, <2>1, RequestFacts, FirstPhases DEF Typed, WriteOps
    <3>3. Len(job.data) \in Nat
      BY <3>2
    <3>4. Len(job.data) = Len(pkt.data)
      BY <2>1, <3>1, <3>2, <3>3
    <3> QED BY <3>1, <3>2, <3>4, AllBegins, Zenon
  <2>4. Applied(pkt, settings) = [settings EXCEPT !.stored = Reverse(pkt.data)]
    BY <2>1 DEF Applied
  <2> QED BY <2>2, <2>3, <2>4, Zenon
<1>3. ASSUME ClearSetFeature PROVE settings' = Applied(pkt, settings)
  <2>1. /\ req = pkt /\ pkt \in Known /\ settings \in SettingsType
        /\ req.op \in {"ClearFeature", "SetFeature"} /\ FeatureTaken(req)
        /\ settings' = WithFeature(req, settings)
    BY <1>0, <1>3
       DEF ClearSetFeature, Pending, Typed, Control, Asked, Fresh, ClassOps, VendorOps
  <2> QED BY <2>1, FeatureMeant
<1>4. ASSUME Finish
      PROVE settings' = IF Late THEN Applied(pkt, settings) ELSE settings
  <2>1. CASE req.op = "SetControlLineState"
    <3>1. Late /\ req = pkt
      BY <1>0, <1>4, <2>1 DEF Finish, Control, Placed, Late
    <3>2. settings' = [settings EXCEPT !.lineState = req.wValue]
      BY <1>4, <2>1 DEF Finish
    <3>3. Applied(req, settings) = [settings EXCEPT !.lineState = req.wValue]
      BY <2>1 DEF Applied
    <3> QED BY <3>1, <3>2, <3>3
  <2>2. CASE req.op # "SetControlLineState"
    BY <1>4, <2>2 DEF Finish, Late
  <2> QED BY <2>1, <2>2
<1> QED BY <1>1, <1>2, <1>3, <1>4

\* Where Endpoint_Write_Control_Stream comes to its loop.
LEMMA WriteStarts ==
  ASSUME NEW data \in Seq(UInt8), NEW endpoint, req.wLength \in UInt16,
         endpoint \in [setup : BOOLEAN, stall : BOOLEAN, out : Banks, in : Banks],
         BankOK(endpoint.in), StartWrite(data, endpoint)
  PROVE  /\ pc' = "stream"
         /\ job' = [data |-> data, left |-> Shorter(data, req.wLength),
                    LastPacketFull |-> FALSE]
         /\ Shorter(data, req.wLength) \in UInt16
         /\ Shorter(data, req.wLength) <= Len(data)
         /\ ctl' \in [setup : BOOLEAN, stall : BOOLEAN, out : Banks, in : Banks]
         /\ BankOK(ctl'.in)
         /\ ctl'.setup = endpoint.setup /\ ctl'.stall = endpoint.stall
         /\ ctl'.out = endpoint.out
         /\ IF Shorter(data, req.wLength) = 0 /\ data = <<>>
            THEN ctl'.in = Holding(<<>>) ELSE ctl'.in = endpoint.in
<1> DEFINE n == Len(data)
           w == req.wLength
<1>1. n \in Nat /\ w \in Nat /\ w <= 65535 /\ (data = <<>> <=> n = 0)
  BY Numbers
<1>2. /\ pc' = "stream"
      /\ job' = [data |-> data, left |-> IF n > w THEN w ELSE n, LastPacketFull |-> FALSE]
      /\ ctl' = [endpoint EXCEPT
                   !.in = IF ~(n > w) /\ data = <<>> THEN Holding(<<>>) ELSE @]
  BY DEF StartWrite
<1>3. BankOK(Holding(<<>>)) /\ Holding(<<>>) \in Banks
  <2>1. <<>> \in Seq(UInt8) /\ Len(<<>>) <= 8
    OBVIOUS
  <2> QED BY <2>1, Banked
<1>4. /\ Shorter(data, w) = IF n > w THEN w ELSE n
      /\ Shorter(data, w) \in UInt16 /\ Shorter(data, w) <= n
  <2>1. Shorter(data, w) = IF n < w THEN n ELSE w
    BY DEF Shorter
  <2>2. n \in Nat /\ w \in UInt16
    BY <1>1
  <2> HIDE DEF n, w
  <2> QED BY <2>1, <2>2, ShorterNumber, Zenon
<1> DEFINE empty == ~(n > w) /\ data = <<>>
<1>5. empty <=> Shorter(data, w) = 0 /\ data = <<>>
  <2> HIDE DEF n, w
  <2> QED BY <1>1, <1>4
<1>6. ctl' = [endpoint EXCEPT !.in = IF empty THEN Holding(<<>>) ELSE @]
  BY <1>2
<1>7. job' = [data |-> data, left |-> Shorter(data, w), LastPacketFull |-> FALSE]
  BY <1>2, <1>4, Zenon
<1> HIDE DEF empty, n
<1>8. /\ ctl' \in [setup : BOOLEAN, stall : BOOLEAN, out : Banks, in : Banks]
      /\ BankOK(ctl'.in)
      /\ ctl'.setup = endpoint.setup /\ ctl'.stall = endpoint.stall
      /\ ctl'.out = endpoint.out
      /\ IF empty THEN ctl'.in = Holding(<<>>) ELSE ctl'.in = endpoint.in
  BY <1>3, <1>6
<1> QED BY <1>2, <1>4, <1>5, <1>7, <1>8, Zenon DEF n

\* A packet of the data, wherever it begins.
LEMMA Piece ==
  ASSUME NEW T, NEW w \in Seq(T), NEW from \in Nat, NEW size \in Nat,
         from + size <= Len(w)
  PROVE  /\ SubSeq(w, from + 1, from + size) \in Seq(T)
         /\ Len(SubSeq(w, from + 1, from + size)) = size
         /\ \A i \in 1 .. size : SubSeq(w, from + 1, from + size)[i] = w[from + i]
<1> DEFINE p == SubSeq(w, from + 1, from + size)
           n == Len(w)
<1>1. n \in Nat /\ \A i \in 1 .. n : w[i] \in T
  BY LenProperties, ElementOfSeq
<1>2. from + 1 \in Int /\ from + size \in Int
  OBVIOUS
<1>3. \A i \in from + 1 .. from + size : w[i] \in T
  <2> HIDE DEF n
  <2>1. from + size <= n
    BY DEF n
  <2> QED BY <1>1, <2>1
<1>4. /\ p \in Seq(T)
      /\ Len(p) = IF from + 1 <= from + size THEN from + size - (from + 1) + 1 ELSE 0
      /\ \A i \in 1 .. from + size - (from + 1) + 1 : p[i] = w[from + 1 + i - 1]
  <2> DEFINE f == from + 1
             l == from + size
  <2>1. f \in Int /\ l \in Int /\ \A i \in f .. l : w[i] \in T
    BY <1>2, <1>3
  <2> HIDE DEF f, l
  <2>2. /\ SubSeq(w, f, l) \in Seq(T)
        /\ Len(SubSeq(w, f, l)) = IF f <= l THEN l - f + 1 ELSE 0
        /\ \A i \in 1 .. l - f + 1 : SubSeq(w, f, l)[i] = w[f + i - 1]
    BY <2>1, SubSeqProperties
  <2> QED BY <2>2 DEF f, l
<1> HIDE DEF p
<1>5. /\ Len(p) = size
      /\ \A i \in 1 .. size : p[i] = w[from + i]
  <2>1. from + size - (from + 1) + 1 = size
    OBVIOUS
  <2>2. \A i \in 1 .. size : from + 1 + i - 1 = from + i
    OBVIOUS
  <2>3. Len(p) = size
    BY <1>4, <2>1
  <2>4. \A i \in 1 .. size : p[i] = w[from + i]
    BY <1>4, <2>1, <2>2
  <2> QED BY <2>3, <2>4
<1> QED BY <1>4, <1>5 DEF p

\* The packet, and what is left of the data behind it, from the start.
LEMMA CutInTwo ==
  ASSUME NEW T, NEW w \in Seq(T), NEW size \in Nat, size <= Len(w)
  PROVE  /\ SubSeq(w, 1, size) \in Seq(T) /\ Len(SubSeq(w, 1, size)) = size
         /\ \A i \in 1 .. size : SubSeq(w, 1, size)[i] = w[i]
         /\ SubSeq(w, size + 1, Len(w)) \in Seq(T)
         /\ Len(SubSeq(w, size + 1, Len(w))) = Len(w) - size
         /\ \A i \in 1 .. Len(w) - size : SubSeq(w, size + 1, Len(w))[i] = w[size + i]
<1> DEFINE n == Len(w)
<1>1. n \in Nat
  BY LenProperties
<1>2. /\ SubSeq(w, 1, size) \in Seq(T) /\ Len(SubSeq(w, 1, size)) = size
      /\ \A i \in 1 .. size : SubSeq(w, 1, size)[i] = w[i]
  <2>1. 0 \in Nat /\ 0 + size = size /\ 0 + 1 = 1 /\ \A i \in 1 .. size : 0 + i = i
    OBVIOUS
  <2>2. /\ SubSeq(w, 0 + 1, 0 + size) \in Seq(T)
        /\ Len(SubSeq(w, 0 + 1, 0 + size)) = size
        /\ \A i \in 1 .. size : SubSeq(w, 0 + 1, 0 + size)[i] = w[0 + i]
    <3>1. 0 \in Nat /\ 0 + size <= Len(w)
      OBVIOUS
    <3> QED BY <3>1, Piece, Zenon
  <2> QED BY <2>1, <2>2
<1>3. /\ SubSeq(w, size + 1, n) \in Seq(T) /\ Len(SubSeq(w, size + 1, n)) = n - size
      /\ \A i \in 1 .. n - size : SubSeq(w, size + 1, n)[i] = w[size + i]
  <2>1. n - size \in Nat /\ size + (n - size) = n /\ n <= Len(w)
    BY <1>1
  <2>2. size + (n - size) <= Len(w)
    BY <2>1
  <2> DEFINE m == n - size
  <2>3. m \in Nat /\ size + m <= Len(w)
    BY <2>1, <2>2
  <2> HIDE DEF m
  <2>4. /\ SubSeq(w, size + 1, size + m) \in Seq(T)
        /\ Len(SubSeq(w, size + 1, size + m)) = m
        /\ \A i \in 1 .. m : SubSeq(w, size + 1, size + m)[i] = w[size + i]
    BY <2>3, Piece, Zenon
  <2>5. size + m = n
    BY <2>1 DEF m
  <2> QED BY <2>4, <2>5 DEF m
<1> QED BY <1>2, <1>3

\* Every step keeps the types.
LEMMA TypeKept ==
  ASSUME IInv, Next
  PROVE  Typed' /\ Sizes'
<1>0. Typed /\ Sizes /\ Control /\ Sent /\ Fetched
  BY TypeAsParts DEF IInv
<1>2. /\ BankOK(Empty) /\ Empty \in Banks
      /\ BankOK(Holding(<<>>)) /\ Holding(<<>>) \in Banks
  <2>1. <<>> \in Seq(UInt8) /\ Len(<<>>) <= 8
    OBVIOUS
  <2> QED BY <2>1, Banked
<1>3. /\ 0 \in UInt16 /\ <<>> \in Seq(UInt8) /\ Len(<<>>) = 0
  BY DEF UInt16
<1>4. \A r \in Known : r.wLength \in Nat
  BY RequestFacts, Numbers

<1>ReadRequest. CASE ReadRequest
  BY <1>0, <1>2, <1>3, <1>4, MaxFailuresAssumption, <1>ReadRequest
     DEF ReadRequest, hostVars, codeVars, Sizes, Typed, Known
<1>ClassRequest. CASE ClassRequest
  BY <1>0, <1>2, <1>3, <1>4, MaxFailuresAssumption, <1>ClassRequest
     DEF ClassRequest, hostVars, codeVars, Sizes, Typed, AfterClassRequest
<1>LineEncodingAbandoned. CASE LineEncodingAbandoned
  BY <1>0, <1>2, <1>3, <1>4, MaxFailuresAssumption, <1>LineEncodingAbandoned
     DEF LineEncodingAbandoned, hostVars, codeVars, Sizes, Typed
<1>EventIgnored. CASE EventIgnored
  BY <1>0, <1>2, <1>3, <1>4, MaxFailuresAssumption, <1>EventIgnored
     DEF EventIgnored, hostVars, codeVars, Sizes, Typed
<1>WriteAborted. CASE WriteAborted
  BY <1>0, <1>2, <1>3, <1>4, MaxFailuresAssumption, <1>WriteAborted
     DEF WriteAborted, hostVars, codeVars, Sizes, Typed
<1>StreamEnds. CASE StreamEnds
  BY <1>0, <1>2, <1>3, <1>4, MaxFailuresAssumption, <1>StreamEnds
     DEF StreamEnds, hostVars, codeVars, Sizes, Typed
<1>Drain. CASE Drain
  BY <1>0, <1>2, <1>3, <1>4, MaxFailuresAssumption, <1>Drain
     DEF Drain, hostVars, codeVars, Sizes, Typed
<1>FinishWrite. CASE FinishWrite
  BY <1>0, <1>2, <1>3, <1>4, MaxFailuresAssumption, <1>FinishWrite
     DEF FinishWrite, hostVars, codeVars, Sizes, Typed, AfterHandler, NoJob
<1>ReadAborted. CASE ReadAborted
  BY <1>0, <1>2, <1>3, <1>4, MaxFailuresAssumption, <1>ReadAborted
     DEF ReadAborted, hostVars, codeVars, Sizes, Typed, AfterHandler, NoJob
<1>FetchEnds. CASE FetchEnds
  BY <1>0, <1>2, <1>3, <1>4, MaxFailuresAssumption, <1>FetchEnds
     DEF FetchEnds, hostVars, codeVars, Sizes, Typed
<1>StatusIN. CASE StatusIN
  BY <1>0, <1>2, <1>3, <1>4, MaxFailuresAssumption, <1>StatusIN
     DEF StatusIN, hostVars, codeVars, Sizes, Typed, Holding
<1>StatusOUT. CASE StatusOUT
  BY <1>0, <1>2, <1>3, <1>4, MaxFailuresAssumption, <1>StatusOUT
     DEF StatusOUT, hostVars, codeVars, Sizes, Typed
<1>NoStandardRequest. CASE NoStandardRequest
  BY <1>0, <1>2, <1>3, <1>4, MaxFailuresAssumption, <1>NoStandardRequest
     DEF NoStandardRequest, hostVars, codeVars, Sizes, Typed
<1>StallUnhandled. CASE StallUnhandled
  BY <1>0, <1>2, <1>3, <1>4, MaxFailuresAssumption, <1>StallUnhandled
     DEF StallUnhandled, hostVars, codeVars, Sizes, Typed
<1>HostCutsShort. CASE HostCutsShort
  BY <1>0, <1>2, <1>3, <1>4, MaxFailuresAssumption, <1>HostCutsShort
     DEF HostCutsShort, hostVars, codeVars, Sizes, Typed
<1>HostStatusOut. CASE HostStatusOut
  BY <1>0, <1>2, <1>3, <1>4, MaxFailuresAssumption, <1>HostStatusOut
     DEF HostStatusOut, hostVars, codeVars, Sizes, Typed, HostDone
<1>HostStalled. CASE HostStalled
  BY <1>0, <1>2, <1>3, <1>4, MaxFailuresAssumption, <1>HostStalled
     DEF HostStalled, hostVars, codeVars, Sizes, Typed, HostDone
<1>HostGivesUp. CASE HostGivesUp
  <2>1. /\ failures' \in 0 .. MaxFailures
        /\ UNCHANGED <<attached, ctl, req, pc, job, settings, pkt, may>>
        /\ phase' = "idle" /\ got' = <<>> /\ fed' = 0
    BY <1>0, MaxFailuresAssumption, <1>HostGivesUp
       DEF HostGivesUp, HostDone, codeVars, Typed
  <2> QED BY <1>0, <1>3, <1>4, <2>1 DEF Typed, Sizes
<1>HostSuspends. CASE HostSuspends
  <2>1. /\ attached' \in BOOLEAN /\ UNCHANGED <<ctl, req, pc, job, settings, pkt, may>>
        /\ phase' = "idle" /\ got' = <<>> /\ fed' = 0
    BY <1>HostSuspends DEF HostSuspends, HostDone, codeVars
  <2>2. failures' \in 0 .. MaxFailures
    <3>1. /\ failures \in 0 .. MaxFailures
          /\ failures' = failures \/ (failures < MaxFailures /\ failures' = failures + 1)
      BY <1>0, <1>HostSuspends DEF HostSuspends, Typed
    <3> QED BY <3>1, MaxFailuresAssumption
  <2> QED BY <1>0, <1>3, <1>4, <2>1, <2>2 DEF Typed, Sizes
<1>HostResumes. CASE HostResumes
  BY <1>0, <1>2, <1>3, <1>4, MaxFailuresAssumption, <1>HostResumes
     DEF HostResumes, hostVars, codeVars, Sizes, Typed
<1>ReplyLineEncoding. CASE ReplyLineEncoding
  <2> DEFINE reply == Holding(LineEncodingBytes(settings.line))
  <2>1. reply \in Banks /\ BankOK(reply)
    <3>1. settings \in SettingsType /\ 7 <= 8
      BY <1>0 DEF Typed
    <3> QED BY <3>1, LineEncodingWritten, Banked, Zenon
  <2>2. /\ ctl' = [ctl EXCEPT !.in = reply] /\ pc' = "statusOut"
        /\ UNCHANGED <<attached, req, job, settings, hostVars>>
    BY <1>ReplyLineEncoding, Zenon DEF ReplyLineEncoding
  <2> HIDE DEF reply
  <2> QED BY <1>0, <2>1, <2>2 DEF Typed, Sizes, hostVars
<1>5. /\ Applied(pkt, settings) \in SettingsType
      /\ Len(Applied(pkt, settings).stored) \in UInt16
  BY <1>0, AppliedTyped, AppliedStored DEF Typed, Sizes
<1>TakeLineEncoding. CASE TakeLineEncoding
  <2>1. settings' = Applied(pkt, settings)
    BY <1>TakeLineEncoding, CarriedOut
  <2>2. /\ ctl' = [ctl EXCEPT !.out = Empty] /\ pc' = "statusIn"
        /\ UNCHANGED <<attached, req, job, hostVars>>
    BY <1>TakeLineEncoding, Zenon DEF TakeLineEncoding
  <2> QED BY <1>0, <1>2, <1>5, <2>1, <2>2 DEF Typed, Sizes, hostVars
<1>ClearSetFeature. CASE ClearSetFeature
  <2>1. settings' = Applied(pkt, settings)
    BY <1>ClearSetFeature, CarriedOut
  <2>2. /\ ctl' = [ctl EXCEPT !.setup = FALSE] /\ pc' = "statusIn"
        /\ UNCHANGED <<attached, req, job, hostVars>>
    BY <1>ClearSetFeature, Zenon DEF ClearSetFeature
  <2> QED BY <1>0, <1>2, <1>5, <2>1, <2>2 DEF Typed, Sizes, hostVars
<1>Settle. CASE Settle
  <2>1. settings' = Applied(pkt, settings) /\ ctl' = [ctl EXCEPT !.in = Holding(<<>>)]
    BY <1>Settle, CarriedOut
  <2>2. pc' = AfterHandler(req.op) /\ job' = NoJob /\ UNCHANGED <<attached, req, hostVars>>
    BY <1>Settle DEF Settle
  <2> QED BY <1>0, <1>2, <1>3, <1>5, <2>1, <2>2
     DEF Typed, Sizes, hostVars, AfterHandler, NoJob
<1>Finish. CASE Finish
  <2>1. settings' \in {settings, Applied(pkt, settings)}
    BY <1>Finish, CarriedOut
  <2>2. pc' = AfterHandler(req.op) /\ UNCHANGED <<attached, ctl, req, job, hostVars>>
    BY <1>Finish DEF Finish
  <2> QED BY <1>0, <1>5, <2>1, <2>2 DEF Typed, Sizes, hostVars, AfterHandler
<1>6. req.wLength \in UInt16 /\ pkt.wLength \in UInt16
  BY <1>0, RequestFacts DEF Typed
<1>7. ASSUME NEW data \in Seq(UInt8), StartWrite(data, [ctl EXCEPT !.setup = FALSE]),
             UNCHANGED <<attached, req, settings, hostVars>>
      PROVE  Typed' /\ Sizes'
  <2> DEFINE endpoint == [ctl EXCEPT !.setup = FALSE]
  <2>1. /\ endpoint \in [setup : BOOLEAN, stall : BOOLEAN, out : Banks, in : Banks]
        /\ BankOK(endpoint.in) /\ BankOK(endpoint.out) /\ StartWrite(data, endpoint)
    BY <1>0, <1>7 DEF Typed
  <2> HIDE DEF endpoint
  <2> DEFINE left == Shorter(data, req.wLength)
  <2>2. /\ pc' = "stream"
        /\ job' = [data |-> data, left |-> left, LastPacketFull |-> FALSE]
        /\ left \in UInt16 /\ left <= Len(data)
        /\ ctl' \in [setup : BOOLEAN, stall : BOOLEAN, out : Banks, in : Banks]
        /\ BankOK(ctl'.in) /\ BankOK(ctl'.out)
    BY <1>6, <1>7, <2>1, WriteStarts
  <2> HIDE DEF left
  <2> QED BY <1>0, <1>7, <2>2 DEF Typed, Sizes, hostVars
<1>VendorRequest. CASE VendorRequest
  <2>1. CASE req.op = "Load"
    <3>1. Reverse(settings.stored) \in Seq(UInt8)
      BY <1>0, ReverseTyped DEF Typed, SettingsType
    <3>2. /\ StartWrite(Reverse(settings.stored), [ctl EXCEPT !.setup = FALSE])
          /\ UNCHANGED <<attached, req, settings, hostVars>>
      BY <1>VendorRequest, <2>1 DEF VendorRequest
    <3> QED BY <1>7, <3>1, <3>2
  <2>2. CASE req.op # "Load"
    <3>1. /\ UNCHANGED <<attached, req, settings, hostVars>>
          /\ StartRead(req.wLength, [ctl EXCEPT !.setup = FALSE])
      BY <1>VendorRequest, <2>2 DEF VendorRequest
    <3>2. /\ job' = [data |-> <<>>, left |-> req.wLength, LastPacketFull |-> FALSE]
          /\ pc' = "fetch"
          /\ ctl' = [[ctl EXCEPT !.setup = FALSE] EXCEPT
                       !.out = IF req.wLength = 0 THEN Empty ELSE @]
      BY <3>1 DEF StartRead, NoJob
    <3> QED BY <1>0, <1>2, <1>3, <1>6, <3>1, <3>2 DEF Typed, Sizes, hostVars
  <2> QED BY <2>1, <2>2
<1>GetDescriptor. CASE GetDescriptor
  <2>1. CALLBACK_USB_GetDescriptor(req.wValue) \in Seq(UInt8)
    BY <1>0, RequestFacts, DescriptorTyped DEF Typed
  <2>2. /\ StartWrite(CALLBACK_USB_GetDescriptor(req.wValue), [ctl EXCEPT !.setup = FALSE])
        /\ UNCHANGED <<attached, req, settings, hostVars>>
    BY <1>GetDescriptor, Zenon DEF GetDescriptor
  <2> QED BY <1>7, <2>1, <2>2
<1>GetStatus. CASE GetStatus
  <2> DEFINE status == Endpoint_Write_16_LE(CurrentStatus(req, settings))
  <2>1. status \in Seq(UInt8) /\ Len(status) = 2
    <3>1. req.op = "GetStatus" /\ req.bmRequestType \in RequestTypes(req.op)
      BY <1>GetStatus DEF GetStatus, Pending
    <3> QED BY <3>1, StatusTyped
  <2> HIDE DEF status
  <2>2. Holding(status) \in Banks /\ BankOK(Holding(status))
    <3>1. Len(status) <= 8
      BY <2>1
    <3> QED BY <2>1, <3>1, Banked, Zenon
  <2>3. /\ ctl' = [ctl EXCEPT !.setup = FALSE, !.in = Holding(status)]
        /\ pc' = "statusOut" /\ UNCHANGED <<attached, req, job, settings, hostVars>>
    BY <1>GetStatus, Zenon DEF GetStatus, status
  <2> DEFINE reply == Holding(status)
  <2> HIDE DEF reply
  <2> QED BY <1>0, <2>2, <2>3 DEF Typed, Sizes, hostVars, reply
<1>HostSetup. ASSUME NEW r \in Requests, HostSetup(r)
              PROVE  Typed' /\ Sizes'
  <2>1. r \in Known /\ fed = 0
    BY <1>0, <1>HostSetup DEF Known, HostSetup, Control, Asked
  <2>2. {Applied(r, s) : s \in may} \subseteq SettingsType
    BY <1>0, <2>1, AppliedTyped DEF Typed
  <2>3. FirstPhase(r) \in {"dataIn", "dataOut", "statusIn"}
    BY <2>1, FirstPhases
  <2>4. /\ ctl' = [ctl EXCEPT !.setup = TRUE, !.stall = FALSE, !.in = Empty]
        /\ pkt' = r /\ phase' = FirstPhase(r)
        /\ may' = may \cup {Applied(r, s) : s \in may}
        /\ UNCHANGED <<attached, req, pc, job, settings, got, fed, failures>>
    BY <1>HostSetup, Zenon DEF HostSetup, codeVars
  <2>5. /\ ctl' \in [setup : BOOLEAN, stall : BOOLEAN, out : Banks, in : Banks]
        /\ BankOK(ctl'.in) /\ BankOK(ctl'.out)
    BY <1>0, <1>2, <2>4 DEF Typed
  <2>6. may' \subseteq SettingsType
    BY <1>0, <2>2, <2>4, Zenon DEF Typed
  <2>7. fed' \in 0 .. pkt'.wLength /\ pkt' \in Known
    BY <1>4, <2>1, <2>4
  <2>8. phase' \in {"idle", "dataIn", "cut", "statusOut", "dataOut", "statusIn"}
    BY <2>3, <2>4
  <2> QED BY <1>0, <2>4, <2>5, <2>6, <2>7, <2>8 DEF Typed, Sizes
<1>StreamPacket. CASE StreamPacket
  <2> DEFINE size == IF job.left < 8 THEN job.left ELSE 8
             full == size = 8
             packet == SubSeq(job.data, 1, size)
             data == SubSeq(job.data, size + 1, Len(job.data))
  <2>1. /\ pc = "stream" /\ ctl' = [ctl EXCEPT !.in = Holding(packet)]
        /\ job' = [data |-> data, left |-> job.left - size, LastPacketFull |-> full]
        /\ UNCHANGED <<attached, req, pc, settings, hostVars>>
    BY <1>StreamPacket, EndpointSize, Zenon DEF StreamPacket
  <2>2. job.data \in Seq(UInt8) /\ job.left \in UInt16 /\ job.left <= Len(job.data)
    BY <1>0, <2>1 DEF Typed, Sizes
  <2>3. /\ size \in Nat /\ size <= 8 /\ size <= job.left
        /\ job.left - size \in UInt16
    <3>1. job.left \in Nat /\ job.left <= 65535
      BY <2>2, Numbers
    <3> DEFINE left == job.left
    <3> HIDE DEF left
    <3>2. left \in Nat /\ left <= 65535
      BY <3>1 DEF left
    <3> DEFINE s == IF left < 8 THEN left ELSE 8
    <3>3. s \in Nat /\ s <= 8 /\ s <= left /\ left - s \in Nat /\ left - s <= 65535
      BY <3>2
    <3> HIDE DEF s
    <3>4. left - s \in UInt16
      BY <3>3, WordNumber
    <3> QED BY <3>3, <3>4 DEF left, s
  <2> HIDE DEF size
  <2>4. /\ packet \in Seq(UInt8) /\ Len(packet) = size
        /\ data \in Seq(UInt8) /\ Len(data) = Len(job.data) - size
    <3>1. size <= Len(job.data)
      <4> DEFINE n == Len(job.data)
      <4>1. n \in Nat /\ job.left <= n /\ job.left \in Nat
        BY <2>2, Numbers
      <4> HIDE DEF n
      <4>2. size <= n
        BY <2>3, <4>1
      <4> QED BY <4>2 DEF n
    <3> QED BY <2>2, <2>3, <3>1, CutInTwo
  <2>5. Holding(packet) \in Banks /\ BankOK(Holding(packet))
    <3>1. Len(packet) <= 8
      BY <2>3, <2>4
    <3> QED BY <2>4, <3>1, Banked, Zenon
  <2>6. job.left - size <= Len(data)
    <3> DEFINE n == Len(job.data)
               m == Len(data)
    <3>1. n \in Nat /\ job.left <= n /\ m = n - size /\ job.left \in Nat
      BY <2>2, <2>4, Numbers
    <3> HIDE DEF n, m
    <3>2. job.left - size <= m
      BY <2>3, <3>1
    <3> QED BY <3>2 DEF m
  <2>7. full \in BOOLEAN
    BY Zenon
  <2> HIDE DEF packet, data, full
  <2>8. job' \in [data : Seq(UInt8), left : UInt16, LastPacketFull : BOOLEAN]
    BY <2>1, <2>3, <2>4, <2>7
  <2>9. job'.left <= Len(job'.data)
    BY <2>1, <2>6
  <2> QED BY <1>0, <2>1, <2>5, <2>8, <2>9 DEF Typed, Sizes, hostVars
<1>FetchPacket. CASE FetchPacket
  <2> DEFINE n == Len(ctl.out.bytes)
             size == IF job.left < n THEN job.left ELSE n
             front == SubSeq(ctl.out.bytes, 1, size)
             data == job.data \o front
             left == job.left - size
  <2>1. /\ job' = [job EXCEPT !.data = data, !.left = left]
        /\ ctl' = [ctl EXCEPT !.out = Empty] /\ pc = "fetch"
        /\ UNCHANGED <<attached, req, pc, settings, hostVars>>
    BY <1>FetchPacket, Zenon DEF FetchPacket
  <2>2. /\ ctl.out.bytes \in Seq(UInt8) /\ n \in Nat
        /\ job.data \in Seq(UInt8) /\ job.left \in UInt16
    BY <1>0 DEF Typed, BankOK, Banks
  <2>3. size \in Nat /\ size <= n /\ left \in UInt16
    <3>1. job.left \in Nat /\ job.left <= 65535
      BY <2>2, Numbers
    <3> HIDE DEF n
    <3>2. size \in Nat /\ size <= n /\ left \in Nat /\ left <= 65535
      BY <2>2, <3>1
    <3> HIDE DEF left, size
    <3> QED BY <3>2, WordNumber
  <2> HIDE DEF size
  <2>4. front \in Seq(UInt8)
    BY <2>2, <2>3, CutInTwo
  <2> HIDE DEF front
  <2>5. data \in Seq(UInt8)
    BY <2>2, <2>4, ConcatProperties, Zenon
  <2> HIDE DEF data, left
  <2> QED BY <1>0, <1>2, <2>1, <2>3, <2>5 DEF Typed, Sizes, hostVars
<1>HostIn. CASE HostIn
  <2>1. got \o ctl.in.bytes \in Seq(UInt8)
    <3>1. got \in Seq(UInt8) /\ ctl.in.bytes \in Seq(UInt8)
      BY <1>0 DEF Typed, BankOK, Banks
    <3> QED BY <3>1, ConcatProperties, Zenon
  <2>2. {Applied(pkt, s) : s \in may} \subseteq SettingsType
    BY <1>0, AppliedTyped DEF Typed
  <2>3. /\ ctl' = [ctl EXCEPT !.in = Empty]
        /\ UNCHANGED <<attached, req, pc, job, settings, pkt, failures>>
    BY <1>HostIn DEF HostIn, codeVars
  <2>4. /\ got' \in {got \o ctl.in.bytes, <<>>} /\ fed' \in {fed, 0}
        /\ may' \in {may, {Applied(pkt, s) : s \in may}}
        /\ phase' \in {"idle", "statusOut", "dataIn"}
    <3>1. CASE phase = "dataIn"
      BY <1>HostIn, <3>1 DEF HostIn
    <3>2. CASE phase # "dataIn"
      BY <1>HostIn, <3>2 DEF HostIn, HostDone
    <3> QED BY <3>1, <3>2
  <2>5. got' \in Seq(UInt8) /\ fed' \in 0 .. pkt.wLength /\ may' \subseteq SettingsType
    <3>1. got' \in Seq(UInt8)
      BY <1>3, <2>1, <2>4
    <3>2. fed' \in 0 .. pkt.wLength
      BY <1>0, <1>4, <2>4 DEF Typed
    <3>3. may' \subseteq SettingsType
      BY <1>0, <2>2, <2>4 DEF Typed
    <3> QED BY <3>1, <3>2, <3>3
  <2> QED BY <1>0, <1>2, <2>3, <2>4, <2>5 DEF Typed, Sizes
<1>HostDataOut. CASE HostDataOut
  <2> DEFINE rest == pkt.wLength - fed
             size == IF rest < 8 THEN rest ELSE 8
             bytes == SubSeq(pkt.data, fed + 1, fed + size)
  <2>1. /\ ctl' = [ctl EXCEPT !.out = Holding(bytes)]
        /\ fed' = fed + size
        /\ phase' = IF size = rest THEN "statusIn" ELSE "dataOut"
        /\ UNCHANGED <<attached, req, pc, job, settings, pkt, got, may, failures>>
    BY <1>HostDataOut, EndpointSize, Zenon DEF HostDataOut, codeVars
  <2>2. /\ phase = "dataOut" /\ ~ctl.setup /\ ~ctl.stall
    BY <1>HostDataOut DEF HostDataOut, Accepting
  <2>3. pkt.data \in Seq(UInt8) /\ Len(pkt.data) = pkt.wLength /\ pkt \in Known
    <3>1. Live /\ pkt \in Known /\ req = pkt /\ pc \in {"lineOut", "fetch"}
      BY <1>0, <2>2 DEF Typed, Live, Control, Served, Places
    <3>2. pkt.op \in WriteOps /\ pkt.bmRequestType \in RequestTypes(pkt.op)
      BY <1>0, <3>1 DEF Control, Placed, WriteOps
    <3> QED BY <3>1, <3>2, RequestFacts, FirstPhases
  <2>4. /\ size \in Nat /\ size <= 8 /\ fed + size <= pkt.wLength
        /\ fed \in Nat /\ fed + size \in 0 .. pkt.wLength
    <3>1. fed \in 0 .. pkt.wLength /\ pkt.wLength \in Nat
      BY <1>0, <1>4 DEF Typed
    <3> QED BY <3>1
  <2> HIDE DEF size, rest
  <2>5. bytes \in Seq(UInt8) /\ Len(bytes) <= 8
    <3>1. bytes \in Seq(UInt8) /\ Len(bytes) = size
      BY <2>3, <2>4, Piece
    <3> QED BY <2>4, <3>1
  <2>6. Holding(bytes) \in Banks /\ BankOK(Holding(bytes))
    BY <2>5, Banked
  <2> HIDE DEF bytes
  <2>7. phase' \in {"statusIn", "dataOut"} /\ fed' \in 0 .. pkt'.wLength
    BY <2>1, <2>4
  <2> QED BY <1>0, <2>1, <2>6, <2>7 DEF Typed, Sizes
<1> QED BY <1>ReadRequest, <1>ClassRequest, <1>ReplyLineEncoding,
           <1>TakeLineEncoding, <1>LineEncodingAbandoned, <1>VendorRequest,
           <1>EventIgnored, <1>StreamPacket, <1>WriteAborted, <1>StreamEnds,
           <1>Drain, <1>FinishWrite, <1>FetchPacket, <1>ReadAborted, <1>FetchEnds,
           <1>Settle, <1>StatusIN, <1>StatusOUT, <1>Finish, <1>GetDescriptor,
           <1>GetStatus, <1>ClearSetFeature, <1>NoStandardRequest,
           <1>StallUnhandled, <1>HostIn, <1>HostCutsShort, <1>HostStatusOut,
           <1>HostDataOut, <1>HostStalled, <1>HostGivesUp, <1>HostSuspends,
           <1>HostResumes, <1>HostSetup
        DEF Next, CodeStep, EventStep, StreamStep, StandardStep, HostStep

-----------------------------------------------------------------------------
(* The bytes of the data stage: every step keeps Sent and Fetched. *)

\* What the answer to a request is: bytes, and no more than the host asks for.
LEMMA WholeTyped ==
  ASSUME NEW r \in Known, NEW s \in SettingsType, r.op \in ReadOps,
         r.bmRequestType \in RequestTypes(r.op)
  PROVE  /\ Answer(r, s) \in Seq(UInt8)
         /\ Whole(r, s) \in Seq(UInt8)
         /\ Len(Whole(r, s)) = Shorter(Answer(r, s), r.wLength)
         /\ Len(Whole(r, s)) \in Nat /\ Len(Whole(r, s)) <= r.wLength
         /\ \A i \in 1 .. Len(Whole(r, s)) : Whole(r, s)[i] = Answer(r, s)[i]
<1> DEFINE a == Answer(r, s)
           n == Len(a)
           m == Shorter(a, r.wLength)
<1>1. a \in Seq(UInt8)
  <2>1. CASE r.op = "GetDescriptor"
    <3>1. CALLBACK_USB_GetDescriptor(r.wValue) \in Seq(UInt8)
      BY RequestFacts, DescriptorTyped
    <3> QED BY <2>1, <3>1 DEF Answer
  <2>2. CASE r.op = "GetStatus"
    BY <2>2, StatusTyped DEF Answer
  <2>3. CASE r.op = "GetLineEncoding"
    BY <2>3, LineEncodingWritten DEF Answer
  <2>4. CASE r.op = "Load"
    <3>1. Reverse(s.stored) \in Seq(UInt8)
      BY ReverseTyped DEF SettingsType
    <3> QED BY <2>4, <3>1 DEF Answer
  <2> QED BY <2>1, <2>2, <2>3, <2>4 DEF ReadOps
<1>2. n \in Nat /\ r.wLength \in UInt16 /\ r.wLength \in Nat
  BY <1>1, RequestFacts, Numbers
<1>3. m = IF n < r.wLength THEN n ELSE r.wLength
  BY DEF Shorter
<1> HIDE DEF a, n, m
<1>4. m \in Nat /\ m <= n /\ m <= r.wLength
  BY <1>2, <1>3
<1>5. Whole(r, s) = SubSeq(a, 1, m)
  BY Zenon DEF Whole, a, m
<1>6. m <= Len(a)
  BY <1>4 DEF n
<1>7. /\ SubSeq(a, 1, m) \in Seq(UInt8) /\ Len(SubSeq(a, 1, m)) = m
      /\ \A i \in 1 .. m : SubSeq(a, 1, m)[i] = a[i]
  BY <1>1, <1>4, <1>6, CutInTwo
<1> QED BY <1>1, <1>4, <1>5, <1>7 DEF a, m

\* An answer of the length asked for is not cut.
LEMMA WholeAnswer ==
  ASSUME NEW r \in Known, NEW s \in SettingsType, r.op \in ReadOps,
         r.bmRequestType \in RequestTypes(r.op), Len(Answer(r, s)) = r.wLength
  PROVE  Whole(r, s) = Answer(r, s)
<1>1. Shorter(Answer(r, s), r.wLength) = Len(Answer(r, s))
  BY DEF Shorter
<1> QED BY <1>1, WholeTyped, SeqEqual, Zenon

\* The front of some data: nothing yet, one packet more, ...
LEMMA NothingBegins ==
  ASSUME NEW w
  PROVE  Begins(w, <<>>, <<>>)
BY DEF Begins

\* ... goes on with the next bytes of the data ...
LEMMA PacketBegins ==
  ASSUME NEW T, NEW w, NEW a \in Seq(T), NEW b \in Seq(T), Begins(w, a, <<>>),
         \A i \in 1 .. Len(b) : b[i] = w[Len(a) + i]
  PROVE  Begins(w, a, b)
BY DEF Begins

\* ... that is taken over by the other side.
LEMMA PacketTaken ==
  ASSUME NEW T, NEW w, NEW a \in Seq(T), NEW b \in Seq(T), Begins(w, a, b)
  PROVE  /\ Begins(w, a \o b, <<>>) /\ a \o b \in Seq(T)
         /\ Len(a \o b) = Len(a) + Len(b)
<1> DEFINE n == Len(a)
           m == Len(b)
           c == a \o b
<1>1. /\ c \in Seq(T) /\ Len(c) = n + m
      /\ \A i \in 1 .. n + m : c[i] = IF i <= n THEN a[i] ELSE b[i - n]
  BY ConcatProperties, Zenon
<1>2. n \in Nat /\ m \in Nat
  BY LenProperties
<1>3. /\ \A i \in 1 .. n : a[i] = w[i]
      /\ \A i \in 1 .. m : b[i] = w[n + i]
  BY DEF Begins
<1> HIDE DEF n, m, c
<1>4. ASSUME NEW i \in 1 .. n + m
      PROVE  c[i] = w[i]
  <2>1. CASE i <= n
    BY <1>1, <1>2, <1>3, <2>1
  <2>2. CASE ~(i <= n)
    <3>1. i - n \in 1 .. m /\ n + (i - n) = i
      BY <1>2, <2>2
    <3>2. b[i - n] = w[n + (i - n)]
      BY <1>3, <3>1
    <3> QED BY <1>1, <2>2, <3>1, <3>2
  <2> QED BY <2>1, <2>2
<1>5. Begins(w, c, <<>>)
  <2>1. \A i \in 1 .. Len(c) : c[i] = w[i]
    BY <1>1, <1>4
  <2>2. \A i \in 1 .. Len(<<>>) : <<>>[i] = w[Len(c) + i]
    OBVIOUS
  <2> QED BY <2>1, <2>2 DEF Begins
<1> QED BY <1>1, <1>5 DEF n, m, c

\* Every step keeps the bytes of the data stage in order.
LEMMA DataKept ==
  ASSUME IInv, Next
  PROVE  Sent' /\ Fetched'
<1>0. Asked /\ Served /\ Waiting /\ Placed /\ Sent /\ Fetched
  BY DEF IInv, Control
<1>1. /\ ctl \in [setup : BOOLEAN, stall : BOOLEAN, out : Banks, in : Banks]
      /\ req \in Known /\ pkt \in Known /\ job.left \in Nat
  BY TypeAsParts, Shape DEF IInv

<1>ReadRequest. CASE ReadRequest
  BY <1>0, <1>1, FirstPhases, <1>ReadRequest
     DEF ReadRequest, hostVars, codeVars, Sent, Fetched, Reply, Packet, Asked, Served,
         Waiting, Placed, Live, Fresh, Places
<1>LineEncodingAbandoned. CASE LineEncodingAbandoned
  BY <1>0, <1>1, FirstPhases, <1>LineEncodingAbandoned
     DEF LineEncodingAbandoned, hostVars, codeVars, Sent, Fetched, Reply, Packet, Asked,
         Served, Waiting, Placed, Live, Fresh, Places
<1>EventIgnored. CASE EventIgnored
  BY <1>0, <1>1, FirstPhases, <1>EventIgnored
     DEF EventIgnored, hostVars, codeVars, Sent, Fetched, Reply, Packet, Asked, Served,
         Waiting, Placed, Live, Fresh, Places
<1>WriteAborted. CASE WriteAborted
  BY <1>0, <1>1, FirstPhases, <1>WriteAborted
     DEF WriteAborted, hostVars, codeVars, Sent, Fetched, Reply, Packet, Asked, Served,
         Waiting, Placed, Live, Fresh, Places
<1>StreamEnds. CASE StreamEnds
  BY <1>0, <1>1, FirstPhases, <1>StreamEnds
     DEF StreamEnds, hostVars, codeVars, Sent, Fetched, Reply, Packet, Asked, Served,
         Waiting, Placed, Live, Fresh, Places, Streaming
<1>Drain. CASE Drain
  BY <1>0, <1>1, FirstPhases, <1>Drain
     DEF Drain, hostVars, codeVars, Sent, Fetched, Reply, Packet, Asked, Served, Waiting,
         Placed, Live, Fresh, Places
<1>FinishWrite. CASE FinishWrite
  BY <1>0, <1>1, FirstPhases, <1>FinishWrite
     DEF FinishWrite, hostVars, codeVars, Sent, Fetched, Reply, Packet, Asked, Served,
         Waiting, Placed, Live, Fresh, Places, AfterHandler
<1>ReadAborted. CASE ReadAborted
  BY <1>0, <1>1, FirstPhases, <1>ReadAborted
     DEF ReadAborted, hostVars, codeVars, Sent, Fetched, Reply, Packet, Asked, Served,
         Waiting, Placed, Live, Fresh, Places, AfterHandler
<1>FetchEnds. CASE FetchEnds
  BY <1>0, <1>1, FirstPhases, <1>FetchEnds
     DEF FetchEnds, hostVars, codeVars, Sent, Fetched, Reply, Packet, Asked, Served,
         Waiting, Placed, Live, Fresh, Places
<1>StatusIN. CASE StatusIN
  BY <1>0, <1>1, FirstPhases, <1>StatusIN
     DEF StatusIN, hostVars, codeVars, Sent, Fetched, Reply, Packet, Asked, Served,
         Waiting, Placed, Live, Fresh, Places
<1>StatusOUT. CASE StatusOUT
  BY <1>0, <1>1, FirstPhases, <1>StatusOUT
     DEF StatusOUT, hostVars, codeVars, Sent, Fetched, Reply, Packet, Asked, Served,
         Waiting, Placed, Live, Fresh, Places
<1>Finish. CASE Finish
  BY <1>0, <1>1, FirstPhases, <1>Finish
     DEF Finish, hostVars, codeVars, Sent, Fetched, Reply, Packet, Asked, Served,
         Waiting, Placed, Live, Fresh, Places, AfterHandler
<1>ClassRequest. CASE ClassRequest
  BY <1>0, <1>1, FirstPhases, <1>ClassRequest
     DEF ClassRequest, hostVars, codeVars, Sent, Fetched, Reply, Packet, Asked, Served,
         Waiting, Placed, Live, Fresh, Places, ForDriver, Pending, AfterClassRequest,
         ClassOps, WriteOps, ReadOps
<1>TakeLineEncoding. CASE TakeLineEncoding
  BY <1>0, <1>1, FirstPhases, <1>TakeLineEncoding
     DEF TakeLineEncoding, hostVars, codeVars, Sent, Fetched, Reply, Packet, Asked,
         Served, Waiting, Placed, Live, Fresh, Places
<1>Settle. CASE Settle
  BY <1>0, <1>1, FirstPhases, <1>Settle
     DEF Settle, hostVars, codeVars, Sent, Fetched, Reply, Packet, Asked, Served,
         Waiting, Placed, Live, Fresh, Places, AfterHandler
<1>ClearSetFeature. CASE ClearSetFeature
  BY <1>0, <1>1, FirstPhases, <1>ClearSetFeature
     DEF ClearSetFeature, hostVars, codeVars, Sent, Fetched, Reply, Packet, Asked,
         Served, Waiting, Placed, Live, Fresh, Places, Pending, ClassOps, VendorOps,
         WriteOps
<1>NoStandardRequest. CASE NoStandardRequest
  BY <1>0, <1>1, FirstPhases, <1>NoStandardRequest
     DEF NoStandardRequest, hostVars, codeVars, Sent, Fetched, Reply, Packet, Asked,
         Served, Waiting, Placed, Live, Fresh, Places
<1>StallUnhandled. CASE StallUnhandled
  BY <1>0, <1>1, FirstPhases, <1>StallUnhandled
     DEF StallUnhandled, hostVars, codeVars, Sent, Fetched, Reply, Packet, Asked, Served,
         Waiting, Placed, Live, Fresh, Places
<1>HostCutsShort. CASE HostCutsShort
  BY <1>0, <1>1, FirstPhases, <1>HostCutsShort
     DEF HostCutsShort, hostVars, codeVars, Sent, Fetched, Reply, Packet, Asked, Served,
         Waiting, Placed, Live, Fresh, Places
<1>HostStatusOut. CASE HostStatusOut
  BY <1>0, <1>1, FirstPhases, <1>HostStatusOut
     DEF HostStatusOut, hostVars, codeVars, Sent, Fetched, Reply, Packet, Asked, Served,
         Waiting, Placed, Live, Fresh, Places, HostDone
<1>HostStalled. CASE HostStalled
  BY <1>0, <1>1, FirstPhases, <1>HostStalled
     DEF HostStalled, hostVars, codeVars, Sent, Fetched, Reply, Packet, Asked, Served,
         Waiting, Placed, Live, Fresh, Places, HostDone
<1>HostGivesUp. CASE HostGivesUp
  BY <1>0, <1>1, FirstPhases, <1>HostGivesUp
     DEF HostGivesUp, hostVars, codeVars, Sent, Fetched, Reply, Packet, Asked, Served,
         Waiting, Placed, Live, Fresh, Places, HostDone
<1>HostSuspends. CASE HostSuspends
  BY <1>0, <1>1, FirstPhases, <1>HostSuspends
     DEF HostSuspends, hostVars, codeVars, Sent, Fetched, Reply, Packet, Asked, Served,
         Waiting, Placed, Live, Fresh, Places, HostDone
<1>HostResumes. CASE HostResumes
  BY <1>0, <1>1, FirstPhases, <1>HostResumes
     DEF HostResumes, hostVars, codeVars, Sent, Fetched, Reply, Packet, Asked, Served,
         Waiting, Placed, Live, Fresh, Places
<1>HostSetup. ASSUME NEW r \in Requests, HostSetup(r)
  PROVE Sent' /\ Fetched'
  BY <1>0, <1>1, <1>HostSetup, FirstPhases
     DEF HostSetup, codeVars, Empty, Known, Sent, Fetched, Reply, Packet, Asked, Served,
         Waiting, Placed, Live, Fresh, Places
<1>2. settings \in SettingsType /\ got \in Seq(UInt8) /\ BankOK(ctl.in) /\ BankOK(ctl.out)
  BY DEF IInv, Typed
<1>3. ASSUME (Live /\ phase = "dataIn") \/ phase = "statusOut"
      PROVE  /\ Live /\ req = pkt /\ pc \in {"lineIn", "stream", "drain", "statusOut"}
             /\ pkt.op \in ReadOps /\ pkt.bmRequestType \in RequestTypes(pkt.op)
  BY <1>0, <1>1, <1>3, FirstPhases DEF Asked, Served, Live, Placed, Places, ReadOps
<1>4. ASSUME Fresh, req.op \in ReadOps, req.bmRequestType \in RequestTypes(req.op),
             pc # "idle", StartWrite(Answer(req, settings), [ctl EXCEPT !.setup = FALSE]),
             UNCHANGED <<attached, req, settings, hostVars>>
      PROVE  Sent' /\ Fetched'
  <2> DEFINE answer == Answer(req, settings)
             left == Shorter(answer, req.wLength)
             whole == Whole(req, settings)
             endpoint == [ctl EXCEPT !.setup = FALSE]
  <2>1. /\ req = pkt /\ phase = "dataIn" /\ got = <<>> /\ ~ctl.in.full /\ ~ctl.stall
    BY <1>0, <1>1, <1>4, FirstPhases DEF Asked, Fresh
  <2>2. /\ answer \in Seq(UInt8) /\ Len(whole) = left
        /\ \A i \in 1 .. Len(whole) : whole[i] = answer[i]
    BY <1>1, <1>2, <1>4, WholeTyped, Zenon
  <2>3. /\ endpoint \in [setup : BOOLEAN, stall : BOOLEAN, out : Banks, in : Banks]
        /\ BankOK(endpoint.in) /\ endpoint.in = ctl.in
        /\ req.wLength \in UInt16
    BY <1>1, <1>2, RequestFacts
  <2>4. StartWrite(answer, endpoint)
    BY <1>4
  <2> HIDE DEF answer, whole, endpoint
  <2>5. /\ pc' = "stream"
        /\ job' = [data |-> answer, left |-> left, LastPacketFull |-> FALSE]
        /\ left \in UInt16
        /\ ctl'.in \in {Holding(<<>>), ctl.in}
    BY <2>2, <2>3, <2>4, WriteStarts
  <2>6. UNCHANGED <<pkt, phase, got, settings>>
    BY <1>4 DEF hostVars
  <2>7. Reply' = <<>> /\ Whole(pkt, settings)' = whole /\ got' = <<>>
    BY <2>1, <2>5, <2>6 DEF Reply, Holding, whole
  <2>8. Begins(whole, <<>>, <<>>)
    BY NothingBegins
  <2>9. ctl'.in.full => left = 0 \/ ~ctl.in.full
    BY <2>1
  <2> DEFINE rest == IF pc' = "stream" THEN job'.left ELSE 0
  <2>10. /\ Len(got') + Len(Reply') + rest = Len(whole)
         /\ Begins(whole, got', Reply')
         /\ \A i \in 1 .. rest : job'.data[i] = whole[Len(got') + Len(Reply') + i]
    <3>1. rest = left /\ job'.data = answer /\ left \in Nat
      BY <2>5, Numbers
    <3>2. Len(got') = 0 /\ Len(Reply') = 0
      BY <2>7
    <3> HIDE DEF rest, left
    <3> QED BY <2>2, <2>7, <2>8, <3>1, <3>2
  <2>11. ctl'.in.full => rest = 0
    <3>1. IF left = 0 /\ answer = <<>> THEN TRUE ELSE ctl'.in = ctl.in
      BY <2>2, <2>3, <2>4, WriteStarts
    <3>2. rest = left
      BY <2>5
    <3> HIDE DEF rest, left
    <3> QED BY <2>1, <3>1, <3>2
  <2>12. pc' # "lineIn" /\ phase' # "statusOut"
    BY <2>1, <2>5, <2>6
  <2> HIDE DEF rest
  <2>13. Sent'
    <3>1. rest = IF pc' = "stream" THEN job'.left ELSE 0
      BY DEF rest
    <3> QED BY <2>7, <2>10, <2>11, <2>12, <3>1 DEF Sent
  <2>14. Fetched'
    BY <2>5 DEF Fetched
  <2> QED BY <2>13, <2>14
<1>GetDescriptor. CASE GetDescriptor
  <2>1. /\ Fresh /\ pc # "idle" /\ req.op = "GetDescriptor"
        /\ req.bmRequestType \in RequestTypes(req.op)
    BY <1>GetDescriptor DEF GetDescriptor, Pending, Fresh, ClassOps, VendorOps
  <2>2. Answer(req, settings) = CALLBACK_USB_GetDescriptor(req.wValue)
    BY <2>1 DEF Answer
  <2>3. /\ StartWrite(CALLBACK_USB_GetDescriptor(req.wValue), [ctl EXCEPT !.setup = FALSE])
        /\ UNCHANGED <<attached, req, settings, hostVars>>
    BY <1>GetDescriptor, Zenon DEF GetDescriptor
  <2>4. req.op \in ReadOps
    BY <2>1 DEF ReadOps
  <2> QED BY <1>4, <2>1, <2>2, <2>3, <2>4
<1>VendorRequest. CASE VendorRequest
  <2>1. /\ pc = "event" /\ ctl.setup /\ Fresh /\ req.op \in {"Load", "Store"}
        /\ req.bmRequestType \in RequestTypes(req.op)
        /\ UNCHANGED <<attached, req, settings, hostVars>>
    BY <1>VendorRequest DEF VendorRequest, Pending, VendorOps, Fresh
  <2>2. CASE req.op = "Load"
    <3>1. Answer(req, settings) = Reverse(settings.stored)
      BY <2>2 DEF Answer
    <3>2. StartWrite(Reverse(settings.stored), [ctl EXCEPT !.setup = FALSE])
      BY <1>VendorRequest, <2>2 DEF VendorRequest
    <3>3. req.op \in ReadOps /\ pc # "idle"
      BY <2>1, <2>2 DEF ReadOps
    <3> QED BY <1>4, <2>1, <3>1, <3>2, <3>3
  <2>3. CASE req.op = "Store"
    <3>1. StartRead(req.wLength, [ctl EXCEPT !.setup = FALSE])
      BY <1>VendorRequest, <2>3 DEF VendorRequest
    <3>2. /\ job' = [data |-> <<>>, left |-> req.wLength, LastPacketFull |-> FALSE]
          /\ pc' = "fetch"
          /\ ctl' = [[ctl EXCEPT !.setup = FALSE] EXCEPT
                       !.out = IF req.wLength = 0 THEN Empty ELSE @]
      BY <3>1 DEF StartRead, NoJob
    <3>3. /\ req = pkt /\ fed = 0 /\ ~ctl.in.full /\ ~ctl.out.full
          /\ phase = IF pkt.wLength = 0 THEN "statusIn" ELSE "dataOut"
          /\ pkt.wLength \in Nat
      <4>1. /\ req = pkt /\ fed = 0 /\ ~ctl.in.full /\ ~ctl.out.full
            /\ phase = FirstPhase(pkt)
        BY <1>0, <2>1 DEF Asked, Fresh
      <4> QED BY <1>1, <2>1, <2>3, <4>1, FirstPhases, RequestFacts, Numbers
    <3>4. ctl'.in = ctl.in /\ ~ctl'.out.full
      BY <1>1, <3>2, <3>3 DEF Empty
    <3>5. UNCHANGED <<pkt, phase, fed>>
      BY <2>1 DEF hostVars
    <3>6. Packet' = <<>> /\ job'.data = <<>> /\ job'.left = pkt'.wLength
      BY <3>2, <3>3, <3>4, <3>5 DEF Packet
    <3>7. Begins(pkt'.data, job'.data, Packet')
      BY <3>6, NothingBegins
    <3>8. /\ Len(job'.data) + job'.left = pkt'.wLength
          /\ fed' = Len(job'.data) + Len(Packet')
      <4>1. Len(job'.data) = 0 /\ Len(Packet') = 0
        BY <3>6
      <4> QED BY <3>3, <3>5, <3>6, <4>1
    <3>9. Fetched'
      BY <3>2, <3>3, <3>4, <3>5, <3>7, <3>8 DEF Fetched
    <3>10. Sent'
      BY <3>3, <3>5 DEF Sent
    <3> QED BY <3>9, <3>10
  <2> QED BY <2>1, <2>2, <2>3
<1>5. ASSUME req = pkt, phase = "dataIn", got = <<>>, pkt.op \in ReadOps,
             pkt.bmRequestType \in RequestTypes(pkt.op),
             Len(Answer(pkt, settings)) = pkt.wLength,
             ctl'.in = Holding(Answer(pkt, settings)), pc' = "statusOut",
             UNCHANGED <<req, settings, hostVars>>
      PROVE  Sent' /\ Fetched'
  <2> DEFINE whole == Whole(pkt, settings)
  <2>1. whole \in Seq(UInt8) /\ whole = Answer(pkt, settings)
    BY <1>1, <1>2, <1>5, WholeTyped, WholeAnswer
  <2>2. UNCHANGED <<pkt, phase, got, settings>>
    BY <1>5 DEF hostVars
  <2> HIDE DEF whole
  <2>3. Reply' = whole /\ got' = <<>> /\ Whole(pkt, settings)' = whole
    BY <1>5, <2>1, <2>2 DEF Reply, Holding, whole
  <2>4. Begins(whole, got', Reply')
    <3>1. /\ <<>> \in Seq(UInt8) /\ Begins(whole, <<>>, <<>>)
          /\ \A i \in 1 .. Len(whole) : whole[i] = whole[Len(<<>>) + i]
      BY <2>1, NothingBegins
    <3>2. Begins(whole, <<>>, whole)
      BY <2>1, <3>1, PacketBegins, Zenon
    <3> QED BY <2>3, <3>2
  <2>5. Len(got') + Len(Reply') + 0 = Len(whole)
    <3>1. Len(whole) \in Nat /\ Len(got') = 0 /\ Len(Reply') = Len(whole)
      BY <2>1, <2>3
    <3> QED BY <3>1
  <2>6. Sent'
    BY <1>5, <2>2, <2>3, <2>4, <2>5 DEF Sent
  <2>7. Fetched'
    BY <1>5 DEF Fetched
  <2> QED BY <2>6, <2>7
<1>ReplyLineEncoding. CASE ReplyLineEncoding
  <2>1. /\ Live /\ req = pkt /\ phase = "dataIn" /\ pkt.op = "GetLineEncoding"
        /\ pkt.bmRequestType \in RequestTypes(pkt.op) /\ got = <<>>
    BY <1>0, <1>1, <1>ReplyLineEncoding
       DEF ReplyLineEncoding, Placed, Served, Live, Places, Sent
  <2>2. /\ Answer(pkt, settings) = LineEncodingBytes(settings.line) /\ pkt.op \in ReadOps
        /\ Len(Answer(pkt, settings)) = pkt.wLength
    <3>1. Answer(pkt, settings) = LineEncodingBytes(settings.line) /\ pkt.op \in ReadOps
      BY <2>1 DEF Answer, ReadOps
    <3>2. Len(LineEncodingBytes(settings.line)) = 7 /\ pkt.wLength = 7
      BY <1>1, <1>2, <2>1, LineEncodingWritten, RequestFacts
    <3> QED BY <3>1, <3>2
  <2>3. /\ ctl'.in = Holding(LineEncodingBytes(settings.line)) /\ pc' = "statusOut"
        /\ UNCHANGED <<req, settings, hostVars>>
    BY <1>1, <1>ReplyLineEncoding DEF ReplyLineEncoding
  <2> QED BY <1>5, <2>1, <2>2, <2>3
<1>GetStatus. CASE GetStatus
  <2>1. /\ req = pkt /\ phase = "dataIn" /\ pkt.op = "GetStatus"
        /\ pkt.bmRequestType \in RequestTypes(pkt.op) /\ got = <<>>
    <3>1. /\ Fresh /\ req.op = "GetStatus" /\ req.bmRequestType \in RequestTypes(req.op)
          /\ pc # "idle"
      BY <1>GetStatus DEF GetStatus, Pending, Fresh, ClassOps, VendorOps
    <3> QED BY <1>0, <1>1, <3>1, FirstPhases DEF Asked, Fresh, ReadOps
  <2> DEFINE status == Endpoint_Write_16_LE(CurrentStatus(pkt, settings))
  <2>2. /\ Answer(pkt, settings) = status /\ pkt.op \in ReadOps
        /\ Len(Answer(pkt, settings)) = pkt.wLength
    <3>1. Answer(pkt, settings) = status /\ pkt.op \in ReadOps
      BY <2>1 DEF Answer, ReadOps
    <3>2. Len(status) = 2 /\ pkt.wLength = 2
      BY <1>1, <2>1, StatusTyped, RequestFacts
    <3> QED BY <3>1, <3>2
  <2> HIDE DEF status
  <2>3. /\ ctl'.in = Holding(status) /\ pc' = "statusOut"
        /\ UNCHANGED <<req, settings, hostVars>>
    <3>1. /\ ctl' = [ctl EXCEPT !.setup = FALSE, !.in = Holding(status)]
          /\ pc' = "statusOut" /\ UNCHANGED <<req, settings, hostVars>>
      BY <1>GetStatus, <2>1, Zenon DEF GetStatus, status
    <3> QED BY <1>1, <3>1
  <2> QED BY <1>5, <2>1, <2>2, <2>3
<1>StreamPacket. CASE StreamPacket
  <2> DEFINE size == IF job.left < 8 THEN job.left ELSE 8
             full == size = 8
             packet == SubSeq(job.data, 1, size)
             data == SubSeq(job.data, size + 1, Len(job.data))
             whole == Whole(pkt, settings)
  <2>1. /\ pc = "stream" /\ ctl' = [ctl EXCEPT !.in = Holding(packet)]
        /\ job' = [data |-> data, left |-> job.left - size, LastPacketFull |-> full]
        /\ UNCHANGED <<attached, req, pc, settings, hostVars>>
        /\ ~ctl.in.full
    BY <1>StreamPacket, EndpointSize, Zenon DEF StreamPacket
  <2>2. /\ job.data \in Seq(UInt8) /\ job.left \in Nat /\ job.left <= Len(job.data)
        /\ Len(job.data) \in Nat
    <3>1. job.data \in Seq(UInt8) /\ job.left <= Len(job.data)
      BY <2>1 DEF IInv, Typed, Sizes
    <3> QED BY <1>1, <3>1, LenProperties
  <2>3. size \in Nat /\ size <= 8 /\ size <= job.left /\ (size < 8 => size = job.left)
    <3> DEFINE left == job.left
    <3>1. left \in Nat
      BY <2>2
    <3> HIDE DEF left
    <3> DEFINE s == IF left < 8 THEN left ELSE 8
    <3>2. s \in Nat /\ s <= 8 /\ s <= left /\ (s < 8 => s = left)
      BY <3>1
    <3> QED BY <3>2 DEF left
  <2> HIDE DEF size, full
  <2>4. size <= Len(job.data)
    <3> DEFINE n == Len(job.data)
    <3>1. n \in Nat /\ job.left <= n
      BY <2>2
    <3> HIDE DEF n
    <3>2. size <= n
      BY <2>2, <2>3, <3>1
    <3> QED BY <3>2 DEF n
  <2>5. /\ packet \in Seq(UInt8) /\ Len(packet) = size
        /\ \A i \in 1 .. size : packet[i] = job.data[i]
        /\ \A i \in 1 .. Len(job.data) - size : data[i] = job.data[size + i]
    BY <2>2, <2>3, <2>4, CutInTwo
  <2> HIDE DEF packet, data
  <2>6. /\ ctl'.in = Holding(packet) /\ ctl'.setup = ctl.setup /\ ctl'.stall = ctl.stall
        /\ ctl'.out = ctl.out
        /\ UNCHANGED <<pc, req, settings, pkt, phase, got, fed>>
    BY <1>1, <2>1 DEF hostVars
  <2>7. Fetched'
    BY <2>1, <2>6 DEF Fetched
  <2>8. CASE Live /\ phase = "dataIn"
    <3>1. /\ Len(got) + Len(Reply) + job.left = Len(whole)
          /\ Begins(whole, got, Reply)
          /\ \A i \in 1 .. job.left : job.data[i] = whole[Len(got) + Len(Reply) + i]
      BY <1>0, <2>1, <2>8 DEF Sent
    <3>2. Reply = <<>> /\ Reply' = packet /\ Whole(pkt, settings)' = whole /\ got' = got
      BY <2>1, <2>6 DEF Reply, Holding
    <3> HIDE DEF whole
    <3> DEFINE n == Len(got)
    <3>3. n \in Nat
      BY <1>2
    <3>4. /\ n + job.left = Len(whole)
          /\ \A i \in 1 .. job.left : job.data[i] = whole[n + i]
      <4>1. Len(Reply) = 0
        BY <3>2
      <4> HIDE DEF n
      <4>2. n + 0 + job.left = Len(whole)
        BY <3>1, <4>1 DEF n
      <4>3. \A i \in 1 .. job.left : job.data[i] = whole[n + 0 + i]
        BY <3>1, <4>1, Zenon DEF n
      <4> QED BY <2>2, <3>3, <4>2, <4>3
    <3> HIDE DEF n
    <3>5. \A i \in 1 .. size : packet[i] = whole[n + i]
      BY <2>2, <2>3, <2>5, <3>4
    <3>6. Begins(whole, got', Reply')
      <4>1. Begins(whole, got, <<>>)
        BY <3>1, <3>2
      <4>2. \A i \in 1 .. Len(packet) : packet[i] = whole[Len(got) + i]
        BY <2>5, <3>5, Zenon DEF n
      <4>3. Begins(whole, got, packet)
        BY <1>2, <2>5, <4>1, <4>2, PacketBegins, Zenon
      <4> QED BY <3>2, <4>3
    <3>7. n + size + (job.left - size) = Len(whole)
      BY <2>2, <2>3, <3>3, <3>4
    <3>8. \A i \in 1 .. job.left - size : data[i] = whole[n + size + i]
      <4>1. ASSUME NEW i \in 1 .. job.left - size
            PROVE  data[i] = whole[n + size + i]
        <5> DEFINE m == Len(job.data)
        <5>1. i \in 1 .. Len(job.data) - size
          <6>1. m \in Nat /\ job.left <= m
            BY <2>2
          <6> HIDE DEF m
          <6>2. i \in 1 .. m - size
            BY <2>2, <2>3, <6>1
          <6> QED BY <6>2 DEF m
        <5>2. data[i] = job.data[size + i]
          BY <2>5, <5>1
        <5>3. size + i \in 1 .. job.left /\ n + (size + i) = n + size + i
          BY <2>2, <2>3, <3>3
        <5> QED BY <3>4, <5>2, <5>3
      <4> QED BY <4>1
    <3>9. (ctl'.in.full /\ Len(packet) < 8) => job.left - size = 0
      BY <2>2, <2>3, <2>5
    <3>10. /\ job'.left = job.left - size /\ job'.data = data /\ Len(Reply') = size
           /\ Len(got') = n
      BY <2>1, <2>5, <3>2 DEF n
    <3>11. Live' /\ phase' = "dataIn" /\ pc' = "stream"
      BY <2>1, <2>6, <2>8 DEF Live
    <3> QED BY <2>7, <3>2, <3>6, <3>7, <3>8, <3>9, <3>10, <3>11, EndpointSize DEF Sent
  <2>9. CASE ~(Live /\ phase = "dataIn")
    <3>1. Sent'
      BY <1>0, <2>6, <2>9 DEF Sent, Live
    <3> QED BY <2>7, <3>1
  <2> QED BY <2>8, <2>9
<1>6. /\ job.data \in Seq(UInt8) /\ fed \in Nat /\ pkt.wLength \in Nat
      /\ fed <= pkt.wLength
  BY TypeAsParts, Shape DEF IInv, Typed
<1>7. ASSUME pc \in {"lineOut", "fetch"}, Live
      PROVE  /\ req = pkt /\ pkt.op \in WriteOps /\ pkt.data \in Seq(UInt8)
             /\ Len(pkt.data) = pkt.wLength
             /\ pc = "lineOut" => pkt.op = "SetLineEncoding" /\ pkt.wLength = 7
  <2>1. /\ req = pkt /\ pkt.op \in WriteOps /\ pkt.bmRequestType \in RequestTypes(pkt.op)
        /\ pc = "lineOut" => pkt.op = "SetLineEncoding"
    BY <1>0, <1>7 DEF Served, Placed, WriteOps
  <2> QED BY <1>1, <2>1, RequestFacts, FirstPhases
<1>FetchPacket. CASE FetchPacket
  <2> DEFINE bytes == ctl.out.bytes
             m == Len(bytes)
             n == Len(job.data)
             left == job.left
             size == IF left < m THEN left ELSE m
             front == SubSeq(bytes, 1, size)
  <2>1. /\ job' = [job EXCEPT !.data = job.data \o front, !.left = left - size]
        /\ ctl' = [ctl EXCEPT !.out = Empty] /\ pc = "fetch" /\ ctl.out.full
        /\ UNCHANGED <<attached, req, pc, settings, hostVars>>
    BY <1>FetchPacket, Zenon DEF FetchPacket
  <2>2. bytes \in Seq(UInt8) /\ m \in Nat /\ n \in Nat /\ left \in Nat
    BY <1>1, <1>2, <1>6, LenProperties DEF BankOK, Banks
  <2>3. Live /\ phase \in {"dataOut", "statusIn"}
    BY <1>0, <2>1 DEF Waiting, Live
  <2>4. /\ ~ctl.in.full /\ n + left = pkt.wLength /\ fed = n + m
        /\ Begins(pkt.data, job.data, bytes)
        /\ phase = IF fed = pkt.wLength THEN "statusIn" ELSE "dataOut"
    <3>1. Packet = bytes
      BY <2>1 DEF Packet
    <3> QED BY <1>0, <2>1, <2>3, <3>1, Zenon DEF Fetched
  <2>5. size = m
    <3> HIDE DEF m, n, left
    <3> QED BY <1>6, <2>2, <2>4
  <2>6. front = bytes
    <3> HIDE DEF size
    <3>1. m <= Len(bytes)
      BY <2>2
    <3>2. /\ SubSeq(bytes, 1, m) \in Seq(UInt8) /\ Len(SubSeq(bytes, 1, m)) = m
          /\ \A i \in 1 .. m : SubSeq(bytes, 1, m)[i] = bytes[i]
      <4> HIDE DEF bytes
      <4> QED BY <2>2, <3>1, CutInTwo
    <3>3. SubSeq(bytes, 1, m) = bytes
      <4> DEFINE p == SubSeq(bytes, 1, m)
      <4>1. /\ p \in Seq(UInt8) /\ Len(p) = Len(bytes)
            /\ \A i \in 1 .. Len(p) : p[i] = bytes[i]
        BY <3>2
      <4> HIDE DEF p, bytes
      <4>2. p = bytes
        BY <2>2, <4>1, SeqEqual, Zenon
      <4> QED BY <4>2 DEF p, bytes
    <3> QED BY <2>5, <3>3, Zenon
  <2> DEFINE data == job.data \o bytes
  <2>7. Begins(pkt.data, data, <<>>) /\ Len(data) = n + m
    <3> HIDE DEF bytes
    <3>1. /\ Begins(pkt.data, job.data \o bytes, <<>>)
          /\ Len(job.data \o bytes) = Len(job.data) + Len(bytes)
      BY <1>6, <2>2, <2>4, PacketTaken
    <3> QED BY <3>1
  <2>8. job'.data = data /\ job'.left = left - m
    <3> HIDE DEF size, front, m, left, bytes
    <3>1. job' = [job EXCEPT !.data = job.data \o bytes, !.left = left - m]
      BY <2>1, <2>5, <2>6, Zenon
    <3> HIDE DEF data
    <3>2. job' = [job EXCEPT !.data = data, !.left = left - m]
      BY <3>1, Zenon DEF data
    <3> QED BY <1>1, <3>2
  <2>9. /\ ~ctl'.out.full /\ ctl'.in = ctl.in /\ ctl'.setup = ctl.setup
        /\ ctl'.stall = ctl.stall
    BY <1>1, <2>1 DEF Empty
  <2>10. /\ UNCHANGED <<pc, req, settings, pkt, phase, got, fed>>
         /\ Packet' = <<>>
    BY <2>1, <2>9 DEF hostVars, Packet
  <2> HIDE DEF data
  <2>11. Len(job'.data) + job'.left = pkt.wLength /\ fed = Len(job'.data) + Len(Packet')
    <3>1. Len(Packet') = 0 /\ Len(job'.data) = n + m
      BY <2>7, <2>8, <2>10
    <3> HIDE DEF n, m, left
    <3>2. n + m + (left - m) = pkt.wLength /\ fed = n + m + 0
      BY <2>2, <2>4
    <3> QED BY <2>8, <3>1, <3>2
  <2>12. Begins(pkt.data, job'.data, Packet')
    BY <2>7, <2>8, <2>10
  <2>13. Fetched'
    BY <2>1, <2>4, <2>9, <2>10, <2>11, <2>12 DEF Fetched
  <2>14. Sent'
    BY <2>3, <2>10 DEF Sent
  <2> QED BY <2>13, <2>14
<1>HostIn. CASE HostIn
  <2> DEFINE whole == Whole(pkt, settings)
             bytes == ctl.in.bytes
             n == Len(got)
             m == Len(bytes)
             rest == IF pc = "stream" THEN job.left ELSE 0
  <2>1. /\ ctl' = [ctl EXCEPT !.in = Empty] /\ ctl.in.full
        /\ UNCHANGED <<attached, codeVars, pkt, failures>>
        /\ phase \in {"dataIn", "statusIn"} /\ ~ctl.stall
    BY <1>HostIn DEF HostIn
  <2>2. Live
    BY <1>0, <2>1 DEF Asked, Live
  <2>3. /\ ~ctl'.in.full /\ ctl'.setup = ctl.setup /\ ctl'.stall = ctl.stall
        /\ UNCHANGED <<pc, req, settings, job, pkt>>
    BY <1>1, <2>1 DEF Empty, codeVars
  <2>4. pc \notin {"lineOut", "fetch", "settle"}
    BY <1>0, <2>1, <2>2 DEF Fetched
  <2>5. Fetched'
    BY <2>3, <2>4 DEF Fetched
  <2>6. CASE phase = "statusIn"
    <3>1. phase' = "idle"
      BY <1>HostIn, <2>6 DEF HostIn, HostDone
    <3> QED BY <2>5, <3>1 DEF Sent
  <2>7. CASE phase = "dataIn"
    <3>1. /\ got' = got \o bytes
          /\ phase' = IF m < 8 \/ Len(got') >= pkt.wLength
                      THEN "statusOut" ELSE "dataIn"
      BY <1>HostIn, <2>7, EndpointSize DEF HostIn
    <3>2. Reply = bytes /\ Reply' = <<>> /\ Whole(pkt, settings)' = whole
      BY <2>1, <2>3 DEF Reply
    <3>3. /\ n + m + rest = Len(whole) /\ Begins(whole, got, bytes)
          /\ \A i \in 1 .. rest : job.data[i] = whole[n + m + i]
          /\ m < 8 => rest = 0
          /\ pc # "lineIn"
      <4>1. pc # "lineIn"
        BY <1>0, <2>1, <2>2, <2>7 DEF Sent
      <4> QED BY <1>0, <2>1, <2>2, <2>7, <3>2, <4>1, EndpointSize, Zenon DEF Sent
    <3>4. bytes \in Seq(UInt8) /\ n \in Nat /\ m \in Nat /\ rest \in Nat
      BY <1>1, <1>2, LenProperties DEF BankOK, Banks
    <3>5. whole \in Seq(UInt8) /\ Len(whole) <= pkt.wLength /\ Len(whole) \in Nat
      BY <1>1, <1>2, <1>3, <2>2, <2>7, WholeTyped
    <3> HIDE DEF whole, bytes
    <3>6. Begins(whole, got', <<>>) /\ got' \in Seq(UInt8) /\ Len(got') = n + m
      BY <1>2, <3>1, <3>3, <3>4, PacketTaken
    <3> HIDE DEF n, m, rest
    <3> DEFINE k == Len(got')
    <3>7. /\ k + 0 + rest = Len(whole)
          /\ \A i \in 1 .. rest : job.data[i] = whole[k + 0 + i]
      <4>1. k = n + m
        BY <3>6
      <4> HIDE DEF k
      <4> QED BY <3>3, <3>4, <4>1
    <3>8. CASE phase' = "dataIn"
      <4>1. Len(Reply') = 0 /\ rest = IF pc' = "stream" THEN job'.left ELSE 0
        BY <2>3, <3>2 DEF rest
      <4>2. Sent'
        BY <2>3, <3>2, <3>3, <3>6, <3>7, <3>8, <4>1 DEF Sent
      <4> QED BY <2>5, <4>2
    <3>9. CASE phase' # "dataIn"
      <4>1. phase' = "statusOut" /\ (m < 8 \/ k >= pkt.wLength)
        BY <3>1, <3>9
      <4>2. k = Len(whole)
        <5> HIDE DEF k
        <5>1. k \in Nat
          BY <3>6 DEF k
        <5> QED BY <1>6, <3>3, <3>4, <3>5, <3>7, <4>1, <5>1
      <4>3. got' = whole
        BY <3>5, <3>6, <4>2, AllBegins, Zenon
      <4>4. Sent'
        BY <3>2, <4>1, <4>3 DEF Sent
      <4> QED BY <2>5, <4>4
    <3> QED BY <3>8, <3>9
  <2> QED BY <2>1, <2>6, <2>7
<1>HostDataOut. CASE HostDataOut
  <2> DEFINE rest == pkt.wLength - fed
             size == IF rest < 8 THEN rest ELSE 8
             bytes == SubSeq(pkt.data, fed + 1, fed + size)
  <2>1. /\ ctl' = [ctl EXCEPT !.out = Holding(bytes)]
        /\ fed' = fed + size
        /\ phase' = IF size = rest THEN "statusIn" ELSE "dataOut"
        /\ UNCHANGED <<attached, req, pc, job, settings, pkt, got, may, failures>>
    BY <1>HostDataOut, EndpointSize, Zenon DEF HostDataOut, codeVars
  <2>2. /\ ~ctl.setup /\ ~ctl.stall /\ ~ctl.out.full /\ attached /\ phase = "dataOut"
        /\ Live /\ pc \in {"lineOut", "fetch"}
    BY <1>0, <1>HostDataOut DEF HostDataOut, Accepting, Served, Places, Live
  <2>3. /\ req = pkt /\ pkt.data \in Seq(UInt8) /\ Len(pkt.data) = pkt.wLength
    BY <1>7, <2>2
  <2>4. size \in Nat /\ fed + size <= pkt.wLength /\ rest \in Nat
    BY <1>6
  <2>5. size = rest <=> fed + size = pkt.wLength
    <3> HIDE DEF size
    <3> QED BY <1>6, <2>4
  <2> HIDE DEF size, rest
  <2>6. /\ bytes \in Seq(UInt8) /\ Len(bytes) = size
        /\ \A i \in 1 .. size : bytes[i] = pkt.data[fed + i]
    BY <1>6, <2>3, <2>4, Piece
  <2> HIDE DEF bytes
  <2>7. /\ ctl'.in = ctl.in /\ ctl'.setup = ctl.setup /\ ctl'.stall = ctl.stall
        /\ ctl'.out = Holding(bytes) /\ Packet' = bytes
    BY <1>1, <2>1 DEF Packet, Holding
  <2>8. Sent'
    BY <2>1 DEF Sent
  <2>9. CASE pc = "lineOut"
    <3>1. ~ctl.in.full /\ fed = 0 /\ pkt.wLength = 7
      BY <1>0, <1>7, <2>2, <2>9 DEF Fetched
    <3>2. size = 7 /\ fed + size = pkt.wLength
      BY <3>1 DEF size, rest
    <3>3. bytes = pkt.data
      <4>1. Len(bytes) = Len(pkt.data)
        BY <2>3, <2>6, <3>1, <3>2
      <4>2. \A i \in 1 .. Len(bytes) : bytes[i] = pkt.data[i]
        BY <2>6, <3>1, <3>2
      <4> QED BY <2>3, <2>6, <4>1, <4>2, SeqEqual, Zenon
    <3>4. Fetched'
      BY <2>1, <2>5, <2>7, <2>9, <3>1, <3>2, <3>3 DEF Fetched, Holding
    <3> QED BY <2>8, <3>4
  <2>10. CASE pc = "fetch"
    <3> DEFINE n == Len(job.data)
    <3>1. /\ ~ctl.in.full /\ n + job.left = pkt.wLength
          /\ fed = n + Len(Packet) /\ Begins(pkt.data, job.data, Packet)
      BY <1>0, <2>2, <2>10, Zenon DEF Fetched
    <3>2. Packet = <<>> /\ n \in Nat
      BY <1>6, <2>2, LenProperties DEF Packet
    <3>3. fed = n
      <4>1. Len(Packet) = 0
        BY <3>2
      <4> HIDE DEF n
      <4> QED BY <3>1, <3>2, <4>1
    <3>4. \A i \in 1 .. Len(bytes) : bytes[i] = pkt.data[Len(job.data) + i]
      BY <2>6, <3>3, Zenon DEF n
    <3>5. Begins(pkt.data, job.data, bytes)
      BY <1>6, <2>6, <3>1, <3>2, <3>4, PacketBegins, Zenon
    <3>6. fed' = Len(job.data) + Len(bytes)
      BY <2>1, <2>6, <3>3
    <3> HIDE DEF n
    <3>7. Fetched'
      <4>1. Len(job.data) + job.left = pkt.wLength
        BY <3>1 DEF n
      <4> QED BY <2>1, <2>5, <2>7, <2>10, <3>1, <3>5, <3>6, <4>1 DEF Fetched
    <3> QED BY <2>8, <3>7
  <2> QED BY <2>2, <2>9, <2>10
<1> QED BY <1>ReadRequest, <1>ClassRequest, <1>ReplyLineEncoding,
           <1>TakeLineEncoding, <1>LineEncodingAbandoned, <1>VendorRequest,
           <1>EventIgnored, <1>StreamPacket, <1>WriteAborted, <1>StreamEnds,
           <1>Drain, <1>FinishWrite, <1>FetchPacket, <1>ReadAborted, <1>FetchEnds,
           <1>Settle, <1>StatusIN, <1>StatusOUT, <1>Finish, <1>GetDescriptor,
           <1>GetStatus, <1>ClearSetFeature, <1>NoStandardRequest,
           <1>StallUnhandled, <1>HostIn, <1>HostCutsShort, <1>HostStatusOut,
           <1>HostDataOut, <1>HostStalled, <1>HostGivesUp, <1>HostSuspends,
           <1>HostResumes, <1>HostSetup
        DEF Next, CodeStep, EventStep, StreamStep, StandardStep, HostStep

-----------------------------------------------------------------------------
(* What the host has to expect: every step keeps Settled. *)

\* Every step keeps the settings among those the host expects.
LEMMA SettledKept ==
  ASSUME IInv, Next
  PROVE  Settled'
<1>0. Typed /\ Asked /\ Served /\ Waiting /\ Placed /\ Fetched /\ Settled
  BY DEF IInv, Control
<1>1. /\ ctl \in [setup : BOOLEAN, stall : BOOLEAN, out : Banks, in : Banks]
      /\ req \in Known /\ pkt \in Known /\ settings \in SettingsType
      /\ may \subseteq SettingsType
  BY <1>0 DEF Typed
<1>2. Applied(pkt, Applied(pkt, settings)) = Applied(pkt, settings)
  BY <1>1, AppliedTwice
<1>WriteAborted. CASE WriteAborted
  BY <1>0, <1>1, FirstPhases, <1>WriteAborted
     DEF WriteAborted, Settled, Late, Live, hostVars, codeVars
<1>StreamEnds. CASE StreamEnds
  BY <1>0, <1>1, FirstPhases, <1>StreamEnds
     DEF StreamEnds, Settled, Late, Live, hostVars, codeVars
<1>Drain. CASE Drain
  BY <1>0, <1>1, FirstPhases, <1>Drain
     DEF Drain, Settled, Late, Live, hostVars, codeVars
<1>FinishWrite. CASE FinishWrite
  BY <1>0, <1>1, FirstPhases, <1>FinishWrite
     DEF FinishWrite, Settled, Late, Live, hostVars, codeVars, AfterHandler
<1>ReadAborted. CASE ReadAborted
  BY <1>0, <1>1, FirstPhases, <1>ReadAborted
     DEF ReadAborted, Settled, Late, Live, hostVars, codeVars, AfterHandler
<1>FetchEnds. CASE FetchEnds
  BY <1>0, <1>1, FirstPhases, <1>FetchEnds
     DEF FetchEnds, Settled, Late, Live, hostVars, codeVars
<1>ReadRequest. CASE ReadRequest
  BY <1>0, <1>1, FirstPhases, <1>ReadRequest
     DEF ReadRequest, Settled, Late, Live, hostVars, codeVars
<1>LineEncodingAbandoned. CASE LineEncodingAbandoned
  BY <1>0, <1>1, FirstPhases, <1>LineEncodingAbandoned
     DEF LineEncodingAbandoned, Settled, Late, Live, hostVars, codeVars
<1>EventIgnored. CASE EventIgnored
  BY <1>0, <1>1, FirstPhases, <1>EventIgnored
     DEF EventIgnored, Settled, Late, Live, hostVars, codeVars
<1>StatusOUT. CASE StatusOUT
  BY <1>0, <1>1, FirstPhases, <1>StatusOUT
     DEF StatusOUT, Settled, Late, Live, hostVars, codeVars, Placed
<1>NoStandardRequest. CASE NoStandardRequest
  BY <1>0, <1>1, FirstPhases, <1>NoStandardRequest
     DEF NoStandardRequest, Settled, Late, Live, hostVars, codeVars
<1>StallUnhandled. CASE StallUnhandled
  BY <1>0, <1>1, FirstPhases, <1>StallUnhandled
     DEF StallUnhandled, Settled, Late, Live, hostVars, codeVars, Asked
<1>HostCutsShort. CASE HostCutsShort
  BY <1>0, <1>1, FirstPhases, <1>HostCutsShort
     DEF HostCutsShort, Settled, Late, Live, hostVars, codeVars
<1>HostStatusOut. CASE HostStatusOut
  BY <1>0, <1>1, FirstPhases, <1>HostStatusOut
     DEF HostStatusOut, Settled, Late, Live, hostVars, codeVars, HostDone
<1>HostStalled. CASE HostStalled
  BY <1>0, <1>1, FirstPhases, <1>HostStalled
     DEF HostStalled, Settled, Late, Live, hostVars, codeVars, HostDone
<1>HostGivesUp. CASE HostGivesUp
  BY <1>0, <1>1, FirstPhases, <1>HostGivesUp
     DEF HostGivesUp, Settled, Late, Live, hostVars, codeVars, HostDone
<1>HostSuspends. CASE HostSuspends
  BY <1>0, <1>1, FirstPhases, <1>HostSuspends
     DEF HostSuspends, Settled, Late, Live, hostVars, codeVars, HostDone
<1>HostResumes. CASE HostResumes
  BY <1>0, <1>1, FirstPhases, <1>HostResumes
     DEF HostResumes, Settled, Late, Live, hostVars, codeVars
<1>FetchPacket. CASE FetchPacket
  BY <1>0, <1>1, FirstPhases, <1>FetchPacket
     DEF FetchPacket, Settled, Late, Live, hostVars, codeVars
<1>HostDataOut. CASE HostDataOut
  BY <1>0, <1>1, FirstPhases, <1>HostDataOut
     DEF HostDataOut, Settled, Late, Live, hostVars, codeVars, Accepting, Served, Places,
         Fetched
<1>StatusIN. CASE StatusIN
  BY <1>0, <1>1, FirstPhases, <1>StatusIN
     DEF StatusIN, Settled, Late, Live, hostVars, codeVars, Placed, Served, Holding
<1>StreamPacket. CASE StreamPacket
  BY <1>0, <1>1, FirstPhases, <1>StreamPacket
     DEF StreamPacket, Settled, Late, Live, hostVars, codeVars, Served, Places
<1>ReplyLineEncoding. CASE ReplyLineEncoding
  BY <1>0, <1>1, FirstPhases, <1>ReplyLineEncoding
     DEF ReplyLineEncoding, Settled, Late, Live, hostVars, codeVars, Served, Places,
         Placed
<1>TakeLineEncoding. CASE TakeLineEncoding
  <2>1. settings' = Applied(pkt, settings)
    BY <1>TakeLineEncoding, CarriedOut
  <2> QED BY <1>0, <1>2, <1>TakeLineEncoding, <2>1
     DEF TakeLineEncoding, Settled, Late, hostVars
<1>ClearSetFeature. CASE ClearSetFeature
  <2>1. settings' = Applied(pkt, settings)
    BY <1>ClearSetFeature, CarriedOut
  <2> QED BY <1>0, <1>2, <1>ClearSetFeature, <2>1
     DEF ClearSetFeature, Settled, Late, hostVars
<1>Settle. CASE Settle
  <2>1. settings' = Applied(pkt, settings)
    BY <1>Settle, CarriedOut
  <2>2. pc' = AfterHandler(req.op) /\ UNCHANGED <<req, hostVars>>
    BY <1>Settle DEF Settle
  <2> QED BY <1>0, <1>2, <2>1, <2>2 DEF AfterHandler, Settled, Late, hostVars
<1>Finish. CASE Finish
  <2>1. settings' = IF Late THEN Applied(pkt, settings) ELSE settings
    BY <1>Finish, CarriedOut
  <2>2. pc' = AfterHandler(req.op) /\ UNCHANGED <<ctl, req, hostVars>>
    BY <1>Finish DEF Finish
  <2>3. CASE Late
    BY <1>0, <1>2, <2>1, <2>2, <2>3 DEF AfterHandler, Settled, Late, hostVars
  <2>4. CASE ~Late
    BY <1>0, <2>1, <2>2, <2>4 DEF AfterHandler, Settled, Late, Live, hostVars
  <2> QED BY <2>3, <2>4
<1>ClassRequest. CASE ClassRequest
  <2>1. /\ req = pkt /\ phase = FirstPhase(pkt) /\ ~ctl.in.full
    BY <1>0, <1>ClassRequest DEF ClassRequest, ForDriver, Pending, Asked, Fresh
  <2>2. /\ ctl'.in = ctl.in /\ pc' = AfterClassRequest(req.op) /\ req.op \in ClassOps
        /\ UNCHANGED <<req, settings, hostVars>>
    BY <1>1, <1>ClassRequest DEF ClassRequest, ForDriver, Pending
  <2>3. req.op = "SendBreak" => Applied(pkt, settings) = settings
    BY <2>1 DEF Applied
  <2>4. pc' = "statusIn" => req.op \in {"SendBreak", "SetControlLineState"}
    BY <2>2 DEF AfterClassRequest, ClassOps
  <2>5. ~Late /\ ~Late'
    BY <1>ClassRequest, <2>2 DEF ClassRequest, Late, AfterClassRequest
  <2> QED BY <1>0, <2>1, <2>2, <2>3, <2>4, <2>5 DEF Settled, hostVars
<1>3. ASSUME pc \in {"event", "standard"}, Fresh, req.op \in ReadOps,
             req.bmRequestType \in RequestTypes(req.op), pc' \in {"stream", "statusOut"},
             UNCHANGED <<req, settings, hostVars>>
      PROVE  Settled'
  <2>1. phase = "dataIn"
    BY <1>0, <1>1, <1>3, FirstPhases DEF Asked, Fresh
  <2> QED BY <1>0, <1>3, <2>1 DEF Settled, Late, hostVars
<1>GetDescriptor. CASE GetDescriptor
  BY <1>3, <1>GetDescriptor
     DEF GetDescriptor, Pending, StartWrite, Fresh, ClassOps, VendorOps, ReadOps
<1>GetStatus. CASE GetStatus
  BY <1>3, <1>GetStatus DEF GetStatus, Pending, Fresh, ClassOps, VendorOps, ReadOps
<1>VendorRequest. CASE VendorRequest
  <2>1. /\ pc = "event" /\ Fresh /\ req.op \in {"Load", "Store"}
        /\ req.bmRequestType \in RequestTypes(req.op)
        /\ UNCHANGED <<req, settings, hostVars>>
    BY <1>VendorRequest DEF VendorRequest, Pending, VendorOps, Fresh
  <2>2. CASE req.op = "Load"
    BY <1>3, <1>VendorRequest, <2>1, <2>2 DEF VendorRequest, StartWrite, ReadOps
  <2>3. CASE req.op = "Store"
    <3>1. StartRead(req.wLength, [ctl EXCEPT !.setup = FALSE])
      BY <1>VendorRequest, <2>3 DEF VendorRequest
    <3>2. pc' = "fetch" /\ ctl'.in = ctl.in
      BY <1>1, <3>1 DEF StartRead
    <3>3. ~ctl.in.full
      BY <1>0, <2>1 DEF Asked, Fresh
    <3> QED BY <1>0, <2>1, <3>2, <3>3 DEF Settled, Late, hostVars
  <2> QED BY <2>1, <2>2, <2>3
<1>HostIn. CASE HostIn
  <2>1. /\ ctl' = [ctl EXCEPT !.in = Empty] /\ UNCHANGED <<codeVars, pkt>>
        /\ ctl.in.full /\ phase \in {"dataIn", "statusIn"} /\ Live
    BY <1>0, <1>HostIn DEF HostIn, Asked, Live
  <2>2. ~ctl'.in.full /\ UNCHANGED <<pc, req, settings>>
    BY <1>1, <2>1 DEF Empty, codeVars
  <2>3. CASE phase = "dataIn"
    <3>1. may' = may
      BY <1>HostIn, <2>3 DEF HostIn
    <3>2. phase # "idle"
      BY <2>3
    <3> QED BY <1>0, <2>1, <2>2, <3>1, <3>2 DEF Settled, Late
  <2>4. CASE phase = "statusIn"
    <3> DEFINE new == Applied(pkt, settings)
    <3>1. phase' = "idle" /\ may' = {Applied(pkt, s) : s \in may}
      BY <1>HostIn, <2>4 DEF HostIn, HostDone
    <3>2. new \in may /\ (Late \/ new = settings)
      BY <1>0, <2>1, <2>4 DEF Settled
    <3>3. Applied(pkt, new) \in may'
      BY <3>1, <3>2
    <3>4. new \in may'
      BY <1>2, <3>3
    <3>5. Late' <=> Late
      BY <2>2 DEF Late
    <3>6. pc = "statusIn" => ~ctl.in.full
      BY <1>0 DEF Placed
    <3> QED BY <2>1, <2>2, <3>1, <3>2, <3>4, <3>5, <3>6 DEF Settled, Live
  <2> QED BY <2>1, <2>3, <2>4
<1>HostSetup. ASSUME NEW r \in Requests, HostSetup(r)
              PROVE  Settled'
  <2>1. /\ ctl' = [ctl EXCEPT !.setup = TRUE, !.stall = FALSE, !.in = Empty]
        /\ pkt' = r /\ may' = may \cup {Applied(r, s) : s \in may}
        /\ UNCHANGED <<pc, req, settings>> /\ Quiet
    BY <1>HostSetup DEF HostSetup, codeVars
  <2>2. pc # "finish" /\ pc # "statusIn"
    BY <1>0, <2>1 DEF Quiet, Placed
  <2>3. settings \in may
    BY <1>0, <2>2 DEF Settled, Late
  <2>4. settings' \in may' /\ Applied(pkt', settings') \in may'
    BY <2>1, <2>3
  <2>5. ~Live' /\ ~Late' /\ pc' # "statusIn"
    BY <1>1, <2>1, <2>2 DEF Live, Late
  <2> QED BY <2>4, <2>5 DEF Settled
<1> QED BY <1>ReadRequest, <1>ClassRequest, <1>ReplyLineEncoding,
           <1>TakeLineEncoding, <1>LineEncodingAbandoned, <1>VendorRequest,
           <1>EventIgnored, <1>StreamPacket, <1>WriteAborted, <1>StreamEnds,
           <1>Drain, <1>FinishWrite, <1>FetchPacket, <1>ReadAborted, <1>FetchEnds,
           <1>Settle, <1>StatusIN, <1>StatusOUT, <1>Finish, <1>GetDescriptor,
           <1>GetStatus, <1>ClearSetFeature, <1>NoStandardRequest,
           <1>StallUnhandled, <1>HostIn, <1>HostCutsShort, <1>HostStatusOut,
           <1>HostDataOut, <1>HostStalled, <1>HostGivesUp, <1>HostSuspends,
           <1>HostResumes, <1>HostSetup
        DEF Next, CodeStep, EventStep, StreamStep, StandardStep, HostStep

-----------------------------------------------------------------------------
(* The theorems. *)

\* Nothing is under way to begin with.
LEMMA Begin == Init => IInv
<1> SUFFICES ASSUME Init PROVE IInv
  OBVIOUS
<1> DEFINE s == [line |-> NoLineEncoding, lineState |-> 0, wakeup |-> FALSE,
                 halted |-> {}, stored |-> <<>>]
<1>1. /\ attached = TRUE
      /\ ctl = [setup |-> FALSE, stall |-> FALSE, out |-> Empty, in |-> Empty]
      /\ req = NoRequest /\ pc = "idle" /\ job = NoJob /\ settings = s
      /\ phase = "idle" /\ pkt = NoRequest /\ got = <<>> /\ fed = 0
      /\ may = {settings} /\ failures = 0
  BY Zenon DEF Init
<1>2. /\ 0 \in UInt8 /\ 0 \in UInt16 /\ <<>> \in Seq(UInt8) /\ Len(<<>>) = 0
      /\ NoRequest.wLength = 0
  BY DEF UInt8, UInt16, NoRequest
<1>3. s \in SettingsType
  <2>1. 0 \in UInt32
    BY DEF UInt32
  <2> QED BY <1>2, <2>1 DEF SettingsType, NoLineEncoding
<1> HIDE DEF s
<1>4. Typed
  <2>1. BankOK(Empty) /\ Empty \in Banks
    BY Banked
  <2>2. failures \in 0 .. MaxFailures /\ fed \in 0 .. pkt.wLength
    BY <1>1, <1>2, MaxFailuresAssumption
  <2>3. job \in [data : Seq(UInt8), left : UInt16, LastPacketFull : BOOLEAN]
    BY <1>1, <1>2 DEF NoJob
  <2> QED BY <1>1, <1>2, <1>3, <2>1, <2>2, <2>3 DEF Typed, Known
<1>5. Sizes
  BY <1>1, <1>2 DEF Sizes, s
<1>6. Control
  BY <1>1 DEF Control, Asked, Served, Waiting, Placed, Live, Fresh, Empty
<1>7. Sent /\ Fetched
  BY <1>1 DEF Sent, Fetched, Live
<1>8. Settled
  <2>1. Applied(pkt, settings) = settings
    BY <1>1 DEF Applied, NoRequest
  <2> QED BY <1>1, <2>1 DEF Settled, Live
<1> QED BY <1>4, <1>5, <1>6, <1>7, <1>8 DEF IInv

\* The invariant holds in every state of every behaviour.
THEOREM TransferInvariant == Spec => []IInv
<1>1. Init => IInv
  BY Begin
<1>2. IInv /\ [Next]_vars => IInv'
  <2> SUFFICES ASSUME IInv, [Next]_vars PROVE IInv'
    OBVIOUS
  <2>1. CASE Next
    BY <2>1, TypeKept, ControlKept, DataKept, SettledKept DEF IInv
  <2>2. CASE UNCHANGED vars
    BY <2>2
       DEF vars, codeVars, hostVars, IInv, Typed, BankOK, Sizes, Control, Asked, Served,
           Waiting, Placed, Sent, Fetched, Settled, Live, Fresh, Late, Reply, Packet
  <2> QED BY <2>1, <2>2
<1> QED BY <1>1, <1>2, PTL DEF Spec

\* Every variable keeps its type: no bank ever holds more than the eight bytes
\* of a packet, and the length left of a stream, a uint16_t, does not wrap.
THEOREM TypeCorrect == Spec => []TypeOK
<1>1. IInv => TypeOK
  BY TypeAsParts DEF IInv
<1> QED BY <1>1, TransferInvariant, PTL

\* Nothing a transfer left behind is taken for part of the next.
THEOREM AlwaysNoLeftOver == Spec => []NoLeftOver
<1>1. IInv => NoLeftOver
  BY DEF IInv, Control, Waiting, NoLeftOver
<1> QED BY <1>1, TransferInvariant, PTL

\* What the device acknowledged it did: waiting for the next request, it has
\* settings that the host expects.
THEOREM AlwaysSettingsAgreed == Spec => []SettingsAgreed
<1>1. IInv => SettingsAgreed
  BY DEF IInv, Settled, Late, SettingsAgreed
<1> QED BY <1>1, TransferInvariant, PTL

\* A data stage that comes to its end gave the host exactly the answer, up to
\* the length it asked for.
THEOREM AlwaysDataStageRight == Spec => []DataStageRight
<1>1. ASSUME IInv
      PROVE  DataStageRight
  <2> SUFFICES ASSUME phase = "statusOut"
               PROVE  \E s \in may : got = Whole(pkt, s)
    BY DEF DataStageRight, Whole, Shorter
  <2>1. Live /\ pc \in Places("statusOut")
    <3>1. Live
      <4>1. pkt \in Known /\ Asked
        BY <1>1 DEF IInv, Typed, Control
      <4>2. FirstPhase(pkt) # "statusOut"
        BY <4>1, FirstPhases
      <4> QED BY <4>1, <4>2 DEF Asked, Live
    <3> QED BY <1>1, <3>1 DEF IInv, Control, Served
  <2>2. settings \in may
    BY <1>1, <2>1 DEF IInv, Settled, Late, Places
  <2>3. got = Whole(pkt, settings)
    BY <1>1 DEF IInv, Sent
  <2> QED BY <2>2, <2>3
<1>2. IInv => DataStageRight
  BY <1>1
<1> QED BY <1>2, TransferInvariant, PTL
=============================================================================
