------------------------- MODULE MCControlTransfer -------------------------
(***************************************************************************)
(* The requests for model checking: descriptors longer and shorter than    *)
(* asked for, and of a length that fills the last packet; every setting    *)
(* with two values; and what the firmware refuses.                         *)
(***************************************************************************)
EXTENDS ControlTransfer

Request(o, bmRequestType, wValue, wIndex, wLength) ==
  [NoRequest EXCEPT !.op = o, !.bmRequestType = bmRequestType, !.wValue = wValue,
                    !.wIndex = wIndex, !.wLength = wLength]

Sending(o, type, bytes) ==
  [NoRequest EXCEPT !.op = o,
                    !.bmRequestType = REQDIR_HOSTTODEVICE + type + REQREC_INTERFACE,
                    !.wLength = Len(bytes), !.data = bytes]

StandardIn(recipient) == REQDIR_DEVICETOHOST + REQTYPE_STANDARD + recipient
StandardOut(recipient) == REQDIR_HOSTTODEVICE + REQTYPE_STANDARD + recipient
ClassIn == REQDIR_DEVICETOHOST + REQTYPE_CLASS + REQREC_INTERFACE
ClassOut == REQDIR_HOSTTODEVICE + REQTYPE_CLASS + REQREC_INTERFACE
VendorIn == REQDIR_DEVICETOHOST + REQTYPE_VENDOR + REQREC_INTERFACE

Descriptor(type, number, wLength) ==
  Request("GetDescriptor", StandardIn(REQREC_DEVICE), 256 * type + number, 0, wLength)

DescriptorRequests ==
  {Descriptor(DTYPE_Device, 0, 8), Descriptor(DTYPE_Device, 0, 64),
   Descriptor(DTYPE_Configuration, 0, 9), Descriptor(DTYPE_Configuration, 0, 255),
   Descriptor(DTYPE_String, 1, 2), Descriptor(DTYPE_String, 2, 255),
   Descriptor(DTYPE_String, 3, 255)}

SettingRequests ==
  {Request("GetStatus", StandardIn(REQREC_DEVICE), 0, 0, 2),
   Request("GetStatus", StandardIn(REQREC_ENDPOINT), 0, CDC_TX_EPADDR, 2),
   Request("GetStatus", StandardIn(REQREC_INTERFACE), 0, 0, 2),
   Request("SetFeature", StandardOut(REQREC_DEVICE), FEATURE_SEL_DeviceRemoteWakeup, 0, 0),
   Request("ClearFeature", StandardOut(REQREC_DEVICE), FEATURE_SEL_DeviceRemoteWakeup, 0, 0),
   Request("SetFeature", StandardOut(REQREC_DEVICE), 2, 0, 0),
   Request("SetFeature", ClassOut, FEATURE_SEL_EndpointHalt, CDC_TX_EPADDR, 0),
   Request("SetFeature", StandardOut(REQREC_ENDPOINT), FEATURE_SEL_EndpointHalt, CDC_TX_EPADDR, 0),
   Request("ClearFeature", StandardOut(REQREC_ENDPOINT), FEATURE_SEL_EndpointHalt, CDC_TX_EPADDR, 0),
   Request("SetFeature", StandardOut(REQREC_ENDPOINT), FEATURE_SEL_EndpointHalt, 0, 0)}

\* 115200 bits per second, two stop bits, even parity, seven data bits.
LineEncoding == <<0, 194, 1, 0, 2, 2, 7>>

ClassRequests ==
  {Request("GetLineEncoding", ClassIn, 0, ControlInterfaceNumber, 7),
   Request("GetLineEncoding", ClassIn, 0, 1, 7),
   Request("SetControlLineState", ClassOut, 3, ControlInterfaceNumber, 0),
   Request("SendBreak", ClassOut, 10, ControlInterfaceNumber, 0),
   Sending("SetLineEncoding", REQTYPE_CLASS, LineEncoding)}

VendorRequests ==
  {Request("Load", VendorIn, 0, 0, 5), Request("Load", VendorIn, 0, 0, 64)}
    \cup {Sending("Store", REQTYPE_VENDOR, [i \in 1 .. n |-> i]) : n \in {8, 11}}

MCRequests ==
  DescriptorRequests \cup SettingRequests \cup ClassRequests \cup VendorRequests
    \cup {NoRequest}
=============================================================================
