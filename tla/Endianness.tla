----------------------------- MODULE Endianness -----------------------------
(***************************************************************************)
(* Byte order (Endianness.h) and the multi-byte accesses to an endpoint's  *)
(* bank (Endpoint.h).                                                      *)
(*                                                                         *)
(* The CPU is little endian: the union of a word and an array of bytes,    *)
(* which the C code uses, holds the low byte first.  A word is a number of *)
(* its width, an array of bytes a sequence.  The register UEDATX moves one *)
(* byte of the bank per access, so that what is written to it is the       *)
(* sequence of its values, in order, and what is read is the front of the  *)
(* bank.                                                                   *)
(***************************************************************************)
EXTENDS Integers, Sequences

UInt8 == 0 .. 255
UInt16 == 0 .. 65535
UInt32 == {n \in Nat : n \div 65536 < 65536}  \* its high half is a UInt16

\* The byte of weight `place' of a word; stored in a uint8_t, the rest is cut.
ByteAt(word, place) == (word \div place) % 256

\* The arrays a word shares a union with.
Bytes16(word) == <<ByteAt(word, 1), ByteAt(word, 256)>>
Bytes32(word) ==
  <<ByteAt(word, 1), ByteAt(word, 256), ByteAt(word, 65536), ByteAt(word, 16777216)>>
Word16(bytes) == bytes[1] + 256 * bytes[2]
Word32(bytes) ==
  bytes[1] + 256 * bytes[2] + 65536 * bytes[3] + 16777216 * bytes[4]

-----------------------------------------------------------------------------
(***************************************************************************)
(* Swapping.  The macros mask and shift, the functions exchange bytes.     *)
(***************************************************************************)
SWAPENDIAN_16(x) == ByteAt(x, 256) + 256 * ByteAt(x, 1)

SWAPENDIAN_32(x) ==
  ByteAt(x, 16777216) + 256 * ByteAt(x, 65536)
    + 65536 * ByteAt(x, 256) + 16777216 * ByteAt(x, 1)

Exchange(bytes, i, j) == [bytes EXCEPT ![i] = bytes[j], ![j] = bytes[i]]

SwapEndian_16(Word) == Word16(Exchange(Bytes16(Word), 1, 2))

SwapEndian_32(DWord) ==
  Word32(Exchange(Exchange(Bytes32(DWord), 1, 4), 2, 3))

\* The outermost bytes are exchanged, then the next pair inwards, as long as
\* more than one byte is left between them.
SwapEndian_n(Data) ==
  LET last == Len(Data) + 1
  IN [i \in 1 .. Len(Data) |-> Data[last - i]]

\* To and from the CPU's order, at run time ...
le16_to_cpu(x) == x
le32_to_cpu(x) == x
be16_to_cpu(x) == SwapEndian_16(x)
be32_to_cpu(x) == SwapEndian_32(x)
cpu_to_le16(x) == x
cpu_to_le32(x) == x
cpu_to_be16(x) == SwapEndian_16(x)
cpu_to_be32(x) == SwapEndian_32(x)

\* ... and in initializers.
LE16_TO_CPU(x) == x
LE32_TO_CPU(x) == x
BE16_TO_CPU(x) == SWAPENDIAN_16(x)
BE32_TO_CPU(x) == SWAPENDIAN_32(x)
CPU_TO_LE16(x) == x
CPU_TO_LE32(x) == x
CPU_TO_BE16(x) == SWAPENDIAN_16(x)
CPU_TO_BE32(x) == SWAPENDIAN_32(x)

\* The bits of a byte, the lowest first.  A mask selects the groups of `size'
\* bits that are shifted up or down: neighbouring groups change places.
BitPositions == 0 .. 7
GroupsSwapped(bits, size) ==
  [i \in BitPositions |->
     bits[IF (i \div size) % 2 = 0 THEN i + size ELSE i - size]]

BitReverse(Byte) == GroupsSwapped(GroupsSwapped(GroupsSwapped(Byte, 4), 2), 1)

-----------------------------------------------------------------------------
(***************************************************************************)
(* Accesses to the bank: what Write puts into it, what Read makes of its   *)
(* front, and what is left of it.                                          *)
(***************************************************************************)
Endpoint_Write_16_LE(Data) == <<ByteAt(Data, 1), ByteAt(Data, 256)>>
Endpoint_Write_16_BE(Data) == <<ByteAt(Data, 256), ByteAt(Data, 1)>>

Endpoint_Write_32_LE(Data) ==
  <<ByteAt(Data, 1), ByteAt(Data, 256), ByteAt(Data, 65536), ByteAt(Data, 16777216)>>

Endpoint_Write_32_BE(Data) ==
  <<ByteAt(Data, 16777216), ByteAt(Data, 65536), ByteAt(Data, 256), ByteAt(Data, 1)>>

Endpoint_Read_16_LE(bank) == Word16(<<bank[1], bank[2]>>)
Endpoint_Read_16_BE(bank) == Word16(<<bank[2], bank[1]>>)

Endpoint_Read_32_LE(bank) == Word32(<<bank[1], bank[2], bank[3], bank[4]>>)
Endpoint_Read_32_BE(bank) == Word32(<<bank[4], bank[3], bank[2], bank[1]>>)

Endpoint_Discard_8(bank) == Tail(bank)
Endpoint_Discard_16(bank) == Tail(Tail(bank))
Endpoint_Discard_32(bank) == Tail(Tail(Tail(Tail(bank))))
=============================================================================
