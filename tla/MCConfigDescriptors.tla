------------------------ MODULE MCConfigDescriptors ------------------------
(***************************************************************************)
(* All buffers of up to five bytes, with any sizes, and the configuration  *)
(* descriptor of the device.                                               *)
(***************************************************************************)
EXTENDS ConfigDescriptors

CONSTANTS
  MaxBytes,   \* bound on the length of the buffers
  MaxByte     \* bound on the bytes in them

AnyBuffers == UNION {[1 .. n -> 0 .. MaxByte] : n \in 0 .. MaxBytes}
MCBuffers == AnyBuffers \cup {ConfigurationDescriptor}
MCBeyond == 0 .. MaxByte
=============================================================================
