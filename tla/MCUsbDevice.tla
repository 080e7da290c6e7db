---------------------------- MODULE MCUsbDevice ----------------------------
(* Values for the constants of UsbDevice that a .cfg file cannot write.    *)
EXTENDS UsbDevice

Request(op, val) == [op |-> op, val |-> val]

\* Every kind of request: both kinds of address, good and bad configurations,
\* a descriptor of two packets, one that does not exist.  The bad ones take the
\* path of an unknown request, in either direction of transfer.
AllRequests ==
  {Request("SetAddress", 0), Request("SetAddress", 1),
   Request("SetConfiguration", 0), Request("SetConfiguration", 1),
   Request("SetConfiguration", 2), Request("GetConfiguration", 0),
   Request("GetDescriptor", 2), Request("GetDescriptor", 0)}

\* The two requests that change the device's state.
StateRequests == {Request("SetAddress", 1), Request("SetConfiguration", 1)}

\* An enumeration: address, configuration, reading the configuration back.
EnumerationRequests == StateRequests \cup {Request("GetConfiguration", 0)}

\* The same without SetAddress, and with a descriptor.
NoAddressRequests ==
  {Request("SetConfiguration", 1), Request("GetConfiguration", 0),
   Request("GetDescriptor", 2)}
=============================================================================
