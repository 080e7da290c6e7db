------------------------- MODULE Descriptors_proofs -------------------------
(***************************************************************************)
(* Bytes and their layout, for every value.                                *)
(*                                                                         *)
(* Byte order: the two ways to swap agree, swapping undoes itself, and a   *)
(* word survives the bank if it is read as it was written.                 *)
(*                                                                         *)
(* Every descriptor structure exists twice, once with the library's names  *)
(* and once with the standard's (StdDescriptors.h, CDCClassCommon.h).  A   *)
(* program may fill in one and read it through the other: these theorems   *)
(* say that both put the same bytes at the same places, and that the size  *)
(* the library's form carries in its header is the one the standard gives. *)
(*                                                                         *)
(* The bytes of the device's configuration descriptor follow from both.    *)
(***************************************************************************)
EXTENDS Descriptors, TLAPS

-----------------------------------------------------------------------------
(***************************************************************************)
(* Byte order (Endianness.h, Common.h).                                    *)
(***************************************************************************)

\* Division by a byte's weight splits a number into a quotient and a byte.
LEMMA SplitByte ==
  ASSUME NEW n \in Nat
  PROVE  /\ n \div 256 \in Nat /\ n % 256 \in UInt8
         /\ n = (n % 256) + 256 * (n \div 256)
BY SMT DEF UInt8

\* A sum of a byte and a multiple of 256 is split into just these.
LEMMA JoinByte ==
  ASSUME NEW a \in UInt8, NEW q \in Nat
  PROVE  /\ a + 256 * q \in Nat
         /\ (a + 256 * q) % 256 = a
         /\ (a + 256 * q) \div 256 = q
BY SMT DEF UInt8

\* Dividing by the weights one after the other.
LEMMA Weights ==
  ASSUME NEW n \in Nat
  PROVE  /\ n \div 1 = n
         /\ n \div 65536 = (n \div 256) \div 256
         /\ n \div 16777216 = ((n \div 256) \div 256) \div 256
BY SMT

\* A 16-bit word is the sum of its bytes.
LEMMA Word16OfBytes ==
  ASSUME NEW w \in UInt16
  PROVE  /\ ByteAt(w, 1) \in UInt8 /\ ByteAt(w, 256) \in UInt8
         /\ w = ByteAt(w, 1) + 256 * ByteAt(w, 256)
<1> DEFINE q == w \div 256
           r == w % 256
<1>1. w \in Nat /\ w <= 65535
  BY SMT DEF UInt16
<1>2. q \in Nat /\ r \in UInt8 /\ w = r + 256 * q
  BY SMT, <1>1, SplitByte
<1>3. ByteAt(w, 1) = r /\ ByteAt(w, 256) = q % 256
  BY SMT, <1>1, Weights DEF ByteAt
<1> HIDE DEF q, r
<1>4. q \in UInt8 /\ q % 256 = q
  BY SMT, <1>1, <1>2 DEF UInt8
<1> QED  BY SMT, <1>2, <1>3, <1>4

\* A sum of two bytes with their weights has these bytes.
LEMMA BytesOfWord16 ==
  ASSUME NEW a \in UInt8, NEW b \in UInt8
  PROVE  /\ a + 256 * b \in UInt16
         /\ ByteAt(a + 256 * b, 1) = a
         /\ ByteAt(a + 256 * b, 256) = b
<1>1. b \in Nat /\ b % 256 = b
  BY SMT DEF UInt8
<1>2. a + 256 * b \in UInt16
  BY SMT DEF UInt8, UInt16
<1> DEFINE w == a + 256 * b
<1>3. w \in Nat /\ w % 256 = a /\ w \div 256 = b
  BY SMT, <1>1, JoinByte
<1> HIDE DEF w
<1>4. ByteAt(w, 1) = a /\ ByteAt(w, 256) = b
  BY SMT, <1>1, <1>3, Weights DEF ByteAt
<1> QED  BY SMT, <1>2, <1>4 DEF w

\* A 32-bit word is the sum of its bytes.
LEMMA Word32OfBytes ==
  ASSUME NEW w \in UInt32
  PROVE  /\ ByteAt(w, 1) \in UInt8 /\ ByteAt(w, 256) \in UInt8
         /\ ByteAt(w, 65536) \in UInt8 /\ ByteAt(w, 16777216) \in UInt8
         /\ w = ByteAt(w, 1) + 256 * ByteAt(w, 256)
                  + 65536 * ByteAt(w, 65536) + 16777216 * ByteAt(w, 16777216)
<1> DEFINE p == w \div 256
           q == p \div 256
           r == q \div 256
<1>1. w \in Nat /\ w \div 65536 < 65536
  BY SMT DEF UInt32
<1>2. p \in Nat /\ w % 256 \in UInt8 /\ w = (w % 256) + 256 * p
  BY SMT, <1>1, SplitByte
<1>3. q \in Nat /\ p % 256 \in UInt8 /\ p = (p % 256) + 256 * q
  BY SMT, <1>2, SplitByte
<1>4. r \in Nat /\ q % 256 \in UInt8 /\ q = (q % 256) + 256 * r
  BY SMT, <1>3, SplitByte
<1>5. /\ ByteAt(w, 1) = w % 256 /\ ByteAt(w, 256) = p % 256
      /\ ByteAt(w, 65536) = q % 256 /\ ByteAt(w, 16777216) = r % 256
  BY SMT, <1>1, Weights DEF ByteAt
<1>6. q < 65536
  BY SMT, <1>1, Weights
<1>7. r \in UInt8 /\ r % 256 = r
  <2> DEFINE ql == q % 256
  <2>1. ql \in UInt8 /\ q = ql + 256 * r
    BY SMT, <1>4
  <2> HIDE DEF q, r, ql
  <2> QED  BY SMT, <1>3, <1>4, <1>6, <2>1 DEF UInt8
<1> HIDE DEF p, q, r
<1> QED  BY SMT, <1>1, <1>2, <1>3, <1>4, <1>5, <1>7 DEF UInt8

\* A sum of four bytes with their weights has these bytes.
LEMMA BytesOfWord32 ==
  ASSUME NEW a \in UInt8, NEW b \in UInt8, NEW c \in UInt8, NEW d \in UInt8,
         NEW w, w = a + 256 * b + 65536 * c + 16777216 * d
  PROVE  /\ w \in UInt32
         /\ ByteAt(w, 1) = a /\ ByteAt(w, 256) = b
         /\ ByteAt(w, 65536) = c /\ ByteAt(w, 16777216) = d
<1> DEFINE q == c + 256 * d
           p == b + 256 * q
<1>1. d \in Nat /\ d % 256 = d
  BY SMT DEF UInt8
<1>2. q \in Nat /\ q % 256 = c /\ q \div 256 = d
  BY SMT, <1>1, JoinByte
<1>3. p = b + 256 * q /\ w = a + 256 * p
  BY SMT DEF UInt8
<1> HIDE DEF p, q
<1>4. p \in Nat /\ p % 256 = b /\ p \div 256 = q
  <2>1. q \in Nat
    BY <1>2
  <2>2. (b + 256 * q) \in Nat /\ (b + 256 * q) % 256 = b /\ (b + 256 * q) \div 256 = q
    BY ONLY <2>1, JoinByte, b \in UInt8
  <2> QED  BY SMT, <1>3, <2>2
<1>5. w \in Nat /\ w % 256 = a /\ w \div 256 = p
  BY SMT, <1>3, <1>4, JoinByte
<1>6. w \in UInt32
  <2>1. w \div 65536 = q
    BY SMT, <1>4, <1>5, Weights
  <2>2. q < 65536
    <3>1. c \in 0 .. 255 /\ d \in 0 .. 255 /\ q = c + 256 * d
      BY SMT DEF UInt8, q
    <3> QED  BY SMT, <3>1
  <2> QED  BY SMT, <1>5, <2>1, <2>2 DEF UInt32
<1> QED  BY SMT, <1>1, <1>2, <1>4, <1>5, <1>6, Weights DEF ByteAt

-----------------------------------------------------------------------------
\* The macro for initializers and the function for run time swap a 16-bit
\* word alike (SWAPENDIAN_16 and SwapEndian_16).
THEOREM Swap16Agrees ==
  \A w \in UInt16 : SwapEndian_16(w) = SWAPENDIAN_16(w)
BY SMT DEF SwapEndian_16, SWAPENDIAN_16, Exchange, Bytes16, Word16

\* The same for 32 bits (SWAPENDIAN_32 and SwapEndian_32).
THEOREM Swap32Agrees ==
  \A w \in UInt32 : SwapEndian_32(w) = SWAPENDIAN_32(w)
<1> TAKE w \in UInt32
<1> DEFINE s == Bytes32(w)
<1>1. Exchange(Exchange(s, 1, 4), 2, 3) = <<s[4], s[3], s[2], s[1]>>
  BY SMT DEF Exchange, Bytes32
<1>2. Word32(<<s[4], s[3], s[2], s[1]>>) = SWAPENDIAN_32(w)
  BY SMT, Word32OfBytes DEF Word32, Bytes32, SWAPENDIAN_32, UInt8
<1> QED  BY SMT, <1>1, <1>2 DEF SwapEndian_32

\* Swapping twice gives the word back, so that one function serves to and from
\* the CPU's order (be16_to_cpu and cpu_to_be16, be32_to_cpu and cpu_to_be32).
THEOREM SwapUndoesItself ==
  /\ \A w \in UInt16 : SwapEndian_16(SwapEndian_16(w)) = w
  /\ \A w \in UInt32 : SwapEndian_32(SwapEndian_32(w)) = w
<1>1. ASSUME NEW w \in UInt16
      PROVE  SwapEndian_16(SwapEndian_16(w)) = w
  <2>1. SWAPENDIAN_16(w) \in UInt16 /\ SWAPENDIAN_16(SWAPENDIAN_16(w)) = w
    BY SMT, Word16OfBytes, BytesOfWord16 DEF SWAPENDIAN_16
  <2> QED  BY SMT, <2>1, Swap16Agrees
<1>2. ASSUME NEW w \in UInt32
      PROVE  SwapEndian_32(SwapEndian_32(w)) = w
  <2> DEFINE a == ByteAt(w, 1)
             b == ByteAt(w, 256)
             c == ByteAt(w, 65536)
             d == ByteAt(w, 16777216)
             v == SWAPENDIAN_32(w)
  <2>1. /\ a \in UInt8 /\ b \in UInt8 /\ c \in UInt8 /\ d \in UInt8
        /\ w = a + 256 * b + 65536 * c + 16777216 * d
    BY SMT, Word32OfBytes
  <2>2. v = d + 256 * c + 65536 * b + 16777216 * a
    BY SMT DEF SWAPENDIAN_32
  <2>3. /\ v \in UInt32
        /\ ByteAt(v, 1) = d /\ ByteAt(v, 256) = c
        /\ ByteAt(v, 65536) = b /\ ByteAt(v, 16777216) = a
    <3> HIDE DEF a, b, c, d, v
    <3> QED  BY SMT, <2>1, <2>2, BytesOfWord32
  <2>4. SWAPENDIAN_32(v) = a + 256 * b + 65536 * c + 16777216 * d
    <3> HIDE DEF a, b, c, d, v
    <3> QED  BY SMT, <2>3 DEF SWAPENDIAN_32
  <2>5. SWAPENDIAN_32(v) = w
    BY SMT, <2>1, <2>4
  <2> QED  BY SMT, <2>3, <2>5, Swap32Agrees
<1> QED  BY SMT, <1>1, <1>2

\* SwapEndian_n gives the bytes back when it is called twice, and exchanges the
\* first and the last, for an array of any length.
THEOREM SwapBytesUndoesItself ==
  ASSUME NEW S, NEW s \in Seq(S)
  PROVE  /\ SwapEndian_n(s) \in Seq(S)
         /\ SwapEndian_n(SwapEndian_n(s)) = s
<1> DEFINE n == Len(s)
           r == SwapEndian_n(s)
<1>1. n \in Nat /\ s \in [1 .. n -> S]
  BY SMT
<1>2. r = [i \in 1 .. n |-> s[n + 1 - i]]
  BY SMT DEF SwapEndian_n
<1>3. r \in [1 .. n -> S]
  BY SMT, <1>1, <1>2
<1>4. r \in Seq(S) /\ Len(r) = n
  BY SMT, <1>1, <1>2, <1>3
<1>5. SwapEndian_n(r) = [i \in 1 .. n |-> r[n + 1 - i]]
  BY SMT, <1>4 DEF SwapEndian_n
<1>6. \A i \in 1 .. n : r[n + 1 - i] = s[i]
  BY SMT, <1>1, <1>2
<1>7. SwapEndian_n(r) = s
  BY SMT, <1>1, <1>5, <1>6
<1> QED  BY SMT, <1>4, <1>7

\* A word written to a bank in one order and read in the same order is the
\* word (Endpoint_Write_16_LE, ..._32_BE and Endpoint_Read_16_LE, ..._32_BE),
\* whatever follows it in the bank.
THEOREM BankKeepsWords ==
  ASSUME NEW rest \in Seq(UInt8)
  PROVE  /\ \A w \in UInt16 :
              /\ Endpoint_Read_16_LE(Endpoint_Write_16_LE(w) \o rest) = w
              /\ Endpoint_Read_16_BE(Endpoint_Write_16_BE(w) \o rest) = w
         /\ \A w \in UInt32 :
              /\ Endpoint_Read_32_LE(Endpoint_Write_32_LE(w) \o rest) = w
              /\ Endpoint_Read_32_BE(Endpoint_Write_32_BE(w) \o rest) = w
<1>1. ASSUME NEW a \in UInt8, NEW b \in UInt8
      PROVE  LET bank == <<a, b>> \o rest IN bank[1] = a /\ bank[2] = b
  BY SMT
<1>2. ASSUME NEW a \in UInt8, NEW b \in UInt8, NEW c \in UInt8, NEW d \in UInt8
      PROVE  LET bank == <<a, b, c, d>> \o rest
             IN bank[1] = a /\ bank[2] = b /\ bank[3] = c /\ bank[4] = d
  BY SMT
<1>3. ASSUME NEW w \in UInt16
      PROVE  /\ Endpoint_Read_16_LE(Endpoint_Write_16_LE(w) \o rest) = w
             /\ Endpoint_Read_16_BE(Endpoint_Write_16_BE(w) \o rest) = w
  BY SMT, <1>1, Word16OfBytes
  DEF Endpoint_Read_16_LE, Endpoint_Read_16_BE, Endpoint_Write_16_LE,
      Endpoint_Write_16_BE, Word16
<1>4. ASSUME NEW w \in UInt32
      PROVE  /\ Endpoint_Read_32_LE(Endpoint_Write_32_LE(w) \o rest) = w
             /\ Endpoint_Read_32_BE(Endpoint_Write_32_BE(w) \o rest) = w
  BY SMT, <1>2, Word32OfBytes
  DEF Endpoint_Read_32_LE, Endpoint_Read_32_BE, Endpoint_Write_32_LE,
      Endpoint_Write_32_BE, Word32
<1> QED  BY SMT, <1>3, <1>4

\* Read in the other order, the word comes out swapped: the big endian accesses
\* are the little endian ones followed by SwapEndian.
THEOREM OtherOrderSwaps ==
  /\ \A w \in UInt16 : Endpoint_Read_16_BE(Endpoint_Write_16_LE(w)) = SwapEndian_16(w)
  /\ \A w \in UInt32 : Endpoint_Read_32_BE(Endpoint_Write_32_LE(w)) = SwapEndian_32(w)
<1>1. ASSUME NEW w \in UInt16
      PROVE  Endpoint_Read_16_BE(Endpoint_Write_16_LE(w)) = SWAPENDIAN_16(w)
  BY SMT DEF Endpoint_Read_16_BE, Endpoint_Write_16_LE, Word16, SWAPENDIAN_16
<1>2. ASSUME NEW w \in UInt32
      PROVE  Endpoint_Read_32_BE(Endpoint_Write_32_LE(w)) = SWAPENDIAN_32(w)
  BY SMT DEF Endpoint_Read_32_BE, Endpoint_Write_32_LE, Word32, SWAPENDIAN_32
<1> QED  BY SMT, <1>1, <1>2, Swap16Agrees, Swap32Agrees

\* Data converted to a byte order and back is as it was, whether both
\* conversions are made at run time or one of them in an initializer
\* (Endianness.h:76-321).
THEOREM ConversionsUndoEachOther ==
  /\ \A w \in UInt16 :
       /\ le16_to_cpu(cpu_to_le16(w)) = w /\ LE16_TO_CPU(CPU_TO_LE16(w)) = w
       /\ be16_to_cpu(cpu_to_be16(w)) = w /\ BE16_TO_CPU(CPU_TO_BE16(w)) = w
       /\ be16_to_cpu(CPU_TO_BE16(w)) = w
  /\ \A d \in UInt32 :
       /\ le32_to_cpu(cpu_to_le32(d)) = d /\ LE32_TO_CPU(CPU_TO_LE32(d)) = d
       /\ be32_to_cpu(cpu_to_be32(d)) = d /\ BE32_TO_CPU(CPU_TO_BE32(d)) = d
       /\ be32_to_cpu(CPU_TO_BE32(d)) = d
<1>1. ASSUME NEW w \in UInt16
      PROVE  /\ le16_to_cpu(cpu_to_le16(w)) = w /\ LE16_TO_CPU(CPU_TO_LE16(w)) = w
             /\ be16_to_cpu(cpu_to_be16(w)) = w /\ BE16_TO_CPU(CPU_TO_BE16(w)) = w
             /\ be16_to_cpu(CPU_TO_BE16(w)) = w
  <2>1. SwapEndian_16(SwapEndian_16(w)) = w  BY SwapUndoesItself
  <2>2. SwapEndian_16(w) = SWAPENDIAN_16(w)  BY Swap16Agrees
  <2>3. SWAPENDIAN_16(w) \in UInt16  BY Word16OfBytes, BytesOfWord16 DEF SWAPENDIAN_16
  <2>4. SwapEndian_16(SWAPENDIAN_16(w)) = SWAPENDIAN_16(SWAPENDIAN_16(w))
    BY <2>3, Swap16Agrees
  <2> QED
    BY <2>1, <2>2, <2>4
    DEF le16_to_cpu, cpu_to_le16, LE16_TO_CPU, CPU_TO_LE16,
        be16_to_cpu, cpu_to_be16, BE16_TO_CPU, CPU_TO_BE16
<1>2. ASSUME NEW d \in UInt32
      PROVE  /\ le32_to_cpu(cpu_to_le32(d)) = d /\ LE32_TO_CPU(CPU_TO_LE32(d)) = d
             /\ be32_to_cpu(cpu_to_be32(d)) = d /\ BE32_TO_CPU(CPU_TO_BE32(d)) = d
             /\ be32_to_cpu(CPU_TO_BE32(d)) = d
  <2>1. SwapEndian_32(SwapEndian_32(d)) = d  BY SwapUndoesItself
  <2>2. SwapEndian_32(d) = SWAPENDIAN_32(d)  BY Swap32Agrees
  <2>3. SWAPENDIAN_32(d) \in UInt32
    BY Word32OfBytes, BytesOfWord32 DEF SWAPENDIAN_32
  <2>4. SwapEndian_32(SWAPENDIAN_32(d)) = SWAPENDIAN_32(SWAPENDIAN_32(d))
    BY <2>3, Swap32Agrees
  <2> QED
    BY <2>1, <2>2, <2>4
    DEF le32_to_cpu, cpu_to_le32, LE32_TO_CPU, CPU_TO_LE32,
        be32_to_cpu, cpu_to_be32, BE32_TO_CPU, CPU_TO_BE32
<1> QED  BY <1>1, <1>2

\* BitReverse puts the bits of a byte into the opposite order (Common.h:146).
THEOREM BitsReversed ==
  ASSUME NEW Byte
  PROVE  BitReverse(Byte) = [i \in BitPositions |-> Byte[7 - i]]
<1>1. ASSUME NEW i \in BitPositions, NEW bits
      PROVE  /\ GroupsSwapped(bits, 4)[i] = bits[IF i \in 0 .. 3 THEN i + 4 ELSE i - 4]
             /\ GroupsSwapped(bits, 2)[i]
                = bits[IF i \in {0, 1, 4, 5} THEN i + 2 ELSE i - 2]
             /\ GroupsSwapped(bits, 1)[i]
                = bits[IF i \in {0, 2, 4, 6} THEN i + 1 ELSE i - 1]
  <2>1. /\ (i \div 4) % 2 = 0 <=> i \in 0 .. 3
        /\ (i \div 2) % 2 = 0 <=> i \in {0, 1, 4, 5}
        /\ (i \div 1) % 2 = 0 <=> i \in {0, 2, 4, 6}
    BY SMT DEF BitPositions
  <2> QED  BY <2>1 DEF GroupsSwapped
<1>2. ASSUME NEW i \in BitPositions
      PROVE  BitReverse(Byte)[i] = Byte[7 - i]
  <2> DEFINE one == IF i \in {0, 2, 4, 6} THEN i + 1 ELSE i - 1
             two == IF one \in {0, 1, 4, 5} THEN one + 2 ELSE one - 2
             three == IF two \in 0 .. 3 THEN two + 4 ELSE two - 4
  <2>1. one \in BitPositions /\ two \in BitPositions /\ three = 7 - i
    BY SMT DEF BitPositions
  <2> HIDE DEF one, two, three
  <2>2. GroupsSwapped(GroupsSwapped(GroupsSwapped(Byte, 4), 2), 1)[i]
        = GroupsSwapped(GroupsSwapped(Byte, 4), 2)[one]
    BY <1>1 DEF one
  <2>3. GroupsSwapped(GroupsSwapped(Byte, 4), 2)[one] = GroupsSwapped(Byte, 4)[two]
    BY <1>1, <2>1 DEF two
  <2>4. GroupsSwapped(Byte, 4)[two] = Byte[three]
    BY <1>1, <2>1 DEF three
  <2> QED  BY <2>1, <2>2, <2>3, <2>4 DEF BitReverse
<1> QED  BY <1>2 DEF BitReverse, GroupsSwapped

-----------------------------------------------------------------------------
(***************************************************************************)
(* Descriptor structures (StdDescriptors.h, CDCClassCommon.h).             *)
(***************************************************************************)


\* The length a header names is that of the header and the members after it:
\* what a walk along a configuration relies on (ConfigDescriptors.h:225).
LEMMA HeaderHasSize ==
  ASSUME NEW T, NEW Type, NEW members \in Seq(T)
  PROVE  WithHeader(Type, members)[1] = Len(WithHeader(Type, members))
<1>1. Len(USB_Descriptor_Header_t(Len(members) + 2, Type)) = 2
  BY DEF USB_Descriptor_Header_t
<1>2. WithHeader(Type, members)[1] = Len(members) + 2
  BY DEF WithHeader, USB_Descriptor_Header_t
<1>. QED  BY <1>1, <1>2 DEF WithHeader, USB_Descriptor_Header_t

\* Device descriptors: 18 bytes under either naming (StdDescriptors.h:236-326).
THEOREM DeviceNamings ==
  ASSUME NEW d
  PROVE  USB_StdDescriptor_Device_t(
           [bLength |-> 18, bDescriptorType |-> DTYPE_Device,
            bcdUSB |-> d.USBSpecification, bDeviceClass |-> d.Class,
            bDeviceSubClass |-> d.SubClass, bDeviceProtocol |-> d.Protocol,
            bMaxPacketSize0 |-> d.Endpoint0Size, idVendor |-> d.VendorID,
            idProduct |-> d.ProductID, bcdDevice |-> d.ReleaseNumber,
            iManufacturer |-> d.ManufacturerStrIndex, iProduct |-> d.ProductStrIndex,
            iSerialNumber |-> d.SerialNumStrIndex,
            bNumConfigurations |-> d.NumberOfConfigurations])
         = USB_Descriptor_Device_t(d)
BY DEF USB_StdDescriptor_Device_t, USB_StdDescriptor_Header_t,
       USB_Descriptor_Device_t, WithHeader, USB_Descriptor_Header_t, Bytes16

\* Device qualifier descriptors: 10 bytes (StdDescriptors.h:335-373).
THEOREM DeviceQualifierNamings ==
  ASSUME NEW d
  PROVE  USB_StdDescriptor_DeviceQualifier_t(
           [bLength |-> 10, bDescriptorType |-> DTYPE_DeviceQualifier,
            bcdUSB |-> d.USBSpecification, bDeviceClass |-> d.Class,
            bDeviceSubClass |-> d.SubClass, bDeviceProtocol |-> d.Protocol,
            bMaxPacketSize0 |-> d.Endpoint0Size,
            bNumConfigurations |-> d.NumberOfConfigurations, bReserved |-> d.Reserved])
         = USB_Descriptor_DeviceQualifier_t(d)
BY DEF USB_StdDescriptor_DeviceQualifier_t, USB_StdDescriptor_Header_t,
       USB_Descriptor_DeviceQualifier_t, WithHeader, USB_Descriptor_Header_t, Bytes16

\* Headers of configuration descriptors: 9 bytes (StdDescriptors.h:384-434).
THEOREM ConfigurationNamings ==
  ASSUME NEW d
  PROVE  USB_StdDescriptor_Configuration_Header_t(
           [bLength |-> SizeOfConfigurationHeader, bDescriptorType |-> DTYPE_Configuration,
            wTotalLength |-> d.TotalConfigurationSize, bNumInterfaces |-> d.TotalInterfaces,
            bConfigurationValue |-> d.ConfigurationNumber,
            iConfiguration |-> d.ConfigurationStrIndex,
            bmAttributes |-> d.ConfigAttributes, bMaxPower |-> d.MaxPowerConsumption])
         = USB_Descriptor_Configuration_Header_t(d)
BY DEF USB_StdDescriptor_Configuration_Header_t, USB_StdDescriptor_Header_t,
       USB_Descriptor_Configuration_Header_t, WithHeader, USB_Descriptor_Header_t,
       Bytes16, SizeOfConfigurationHeader

\* Interface descriptors: 9 bytes (StdDescriptors.h:445-492).
THEOREM InterfaceNamings ==
  ASSUME NEW d
  PROVE  USB_StdDescriptor_Interface_t(
           [bLength |-> 9, bDescriptorType |-> DTYPE_Interface,
            bInterfaceNumber |-> d.InterfaceNumber, bAlternateSetting |-> d.AlternateSetting,
            bNumEndpoints |-> d.TotalEndpoints, bInterfaceClass |-> d.Class,
            bInterfaceSubClass |-> d.SubClass, bInterfaceProtocol |-> d.Protocol,
            iInterface |-> d.InterfaceStrIndex])
         = USB_Descriptor_Interface_t(d)
BY DEF USB_StdDescriptor_Interface_t, USB_StdDescriptor_Header_t,
       USB_Descriptor_Interface_t, WithHeader, USB_Descriptor_Header_t

\* Interface association descriptors: 8 bytes (StdDescriptors.h:509-555).
THEOREM AssociationNamings ==
  ASSUME NEW d
  PROVE  USB_StdDescriptor_Interface_Association_t(
           [bLength |-> 8, bDescriptorType |-> DTYPE_InterfaceAssociation,
            bFirstInterface |-> d.FirstInterfaceIndex, bInterfaceCount |-> d.TotalInterfaces,
            bFunctionClass |-> d.Class, bFunctionSubClass |-> d.SubClass,
            bFunctionProtocol |-> d.Protocol, iFunction |-> d.IADStrIndex])
         = USB_Descriptor_Interface_Association_t(d)
BY DEF USB_StdDescriptor_Interface_Association_t, USB_StdDescriptor_Header_t,
       USB_Descriptor_Interface_Association_t, WithHeader, USB_Descriptor_Header_t

\* Endpoint descriptors: 7 bytes (StdDescriptors.h:566-612).
THEOREM EndpointNamings ==
  ASSUME NEW d
  PROVE  USB_StdDescriptor_Endpoint_t(
           [bLength |-> 7, bDescriptorType |-> DTYPE_Endpoint,
            bEndpointAddress |-> d.EndpointAddress, bmAttributes |-> d.Attributes,
            wMaxPacketSize |-> d.EndpointSize, bInterval |-> d.PollingIntervalMS])
         = USB_Descriptor_Endpoint_t(d)
BY DEF USB_StdDescriptor_Endpoint_t, USB_StdDescriptor_Header_t,
       USB_Descriptor_Endpoint_t, WithHeader, USB_Descriptor_Header_t, Bytes16

\* String descriptors (StdDescriptors.h:629-667): the same bytes under both
\* names, and the length byte, which USB_STRING_LEN gives and a uint8_t keeps, is
\* the length of the descriptor up to 126 characters and of none longer.
THEOREM StringNamings ==
  ASSUME NEW characters \in Nat, NEW first \in Nat
  PROVE  LET string == USB_Descriptor_String_t(characters, first)
         IN /\ USB_StdDescriptor_String_t(
                 [bLength |-> StringSize(characters), bDescriptorType |-> DTYPE_String,
                  bString |-> [i \in 1 .. characters |-> first + i]]) = string
            /\ string[1] = Len(string) <=> characters =< 126
<1>. DEFINE text == [i \in 1 .. characters |-> first + i]
            std == [bLength |-> StringSize(characters),
                    bDescriptorType |-> DTYPE_String, bString |-> text]
            bytes == [i \in 1 .. 2 * characters |->
                        Bytes16(first + (i + 1) \div 2)[IF i % 2 = 1 THEN 1 ELSE 2]]
            header == <<StringSize(characters), DTYPE_String>>
<1>1. Len(std.bString) = characters
  OBVIOUS
<1>2. \A i \in 1 .. 2 * characters : std.bString[(i + 1) \div 2] = first + (i + 1) \div 2
  OBVIOUS
<1>3. DOMAIN bytes = 1 .. 2 * characters /\ 2 * characters \in Nat
  OBVIOUS
<1>4. \E S : bytes \in Seq(S)
  <2>1. \E S : bytes \in [1 .. 2 * characters -> S]
    <3>1. bytes \in [1 .. 2 * characters -> {bytes[i] : i \in 1 .. 2 * characters}]
      OBVIOUS
    <3> QED BY <3>1, Zenon
  <2> QED BY <1>3, <2>1
<1>. HIDE DEF text
<1>5. [i \in 1 .. 2 * Len(std.bString) |->
         Bytes16(std.bString[(i + 1) \div 2])[IF i % 2 = 1 THEN 1 ELSE 2]]
      = bytes
  BY <1>1, <1>2
<1>6. USB_StdDescriptor_Header_t(std) = header
      /\ USB_Descriptor_Header_t(StringSize(characters), DTYPE_String) = header
  BY DEF USB_StdDescriptor_Header_t, USB_Descriptor_Header_t
<1>7. USB_Descriptor_String_t(characters, first) = header \o bytes
  BY <1>6 DEF USB_Descriptor_String_t
<1>8. USB_StdDescriptor_String_t(std) = header \o bytes
  <2>. HIDE DEF std, bytes, header
  <2>. QED  BY <1>5, <1>6 DEF USB_StdDescriptor_String_t
<1>. HIDE DEF std, bytes
<1>9. Len(bytes) = 2 * characters
  BY <1>3, <1>4
<1>10. Len(header \o bytes) = 2 + 2 * characters /\ (header \o bytes)[1] = header[1]
  BY <1>4, <1>9
<1>11. header[1] = (2 + 2 * characters) % 256
  BY DEF StringSize, USB_STRING_LEN
<1>12. (2 + 2 * characters) % 256 = 2 + 2 * characters <=> characters =< 126
  OBVIOUS
<1>. QED  BY <1>7, <1>8, <1>10, <1>11, <1>12 DEF std, text

\* The functional descriptors of the CDC class (CDCClassCommon.h:197-317): 5,
\* 4 and 5 bytes, and each is the general one with its subtype and its data.
THEOREM FunctionalHeaderNamings ==
  ASSUME NEW CDCSpecification
  PROVE  /\ USB_CDC_StdDescriptor_FunctionalHeader_t(
              [bFunctionLength |-> 5, bDescriptorType |-> DTYPE_CSInterface,
               bDescriptorSubType |-> CDC_DSUBTYPE_CSInterface_Header,
               bcdCDC |-> CDCSpecification])
            = USB_CDC_Descriptor_FunctionalHeader_t(CDCSpecification)
         /\ USB_CDC_Descriptor_FunctionalHeader_t(CDCSpecification)
            = CDC_FUNCTIONAL_DESCRIPTOR(CDC_DSUBTYPE_CSInterface_Header,
                                        Bytes16(CDCSpecification))
BY DEF USB_CDC_StdDescriptor_FunctionalHeader_t, USB_CDC_Descriptor_FunctionalHeader_t,
       CDC_FUNCTIONAL_DESCRIPTOR, WithHeader, USB_Descriptor_Header_t, Bytes16

\* The same of the abstract control model descriptor (CDCClassCommon.h:240-275).
THEOREM FunctionalACMNamings ==
  ASSUME NEW Capabilities
  PROVE  USB_CDC_StdDescriptor_FunctionalACM_t(
           [bFunctionLength |-> 4, bDescriptorType |-> DTYPE_CSInterface,
            bDescriptorSubType |-> CDC_DSUBTYPE_CSInterface_ACM,
            bmCapabilities |-> Capabilities])
         = USB_CDC_Descriptor_FunctionalACM_t(Capabilities)
BY DEF USB_CDC_StdDescriptor_FunctionalACM_t, USB_CDC_Descriptor_FunctionalACM_t,
       WithHeader, USB_Descriptor_Header_t

\* The same of the union descriptor (CDCClassCommon.h:286-317).
THEOREM FunctionalUnionNamings ==
  ASSUME NEW Master, NEW Slave
  PROVE  USB_CDC_StdDescriptor_FunctionalUnion_t(
           [bFunctionLength |-> 5, bDescriptorType |-> DTYPE_CSInterface,
            bDescriptorSubType |-> CDC_DSUBTYPE_CSInterface_Union,
            bMasterInterface |-> Master, bSlaveInterface0 |-> Slave])
         = USB_CDC_Descriptor_FunctionalUnion_t(Master, Slave)
BY DEF USB_CDC_StdDescriptor_FunctionalUnion_t, USB_CDC_Descriptor_FunctionalUnion_t,
       WithHeader, USB_Descriptor_Header_t

-----------------------------------------------------------------------------
(***************************************************************************)
(* The configuration descriptor of the device (Descriptors.c).             *)
(***************************************************************************)

\* The bytes p are found in d at an offset.
PlacedAt(d, offset, p) ==
  /\ offset + Len(p) <= Len(d)
  /\ \A i \in 1 .. Len(p) : d[offset + i] = p[i]

\* Both parts are found in a concatenation, and what is found in the first stays.
LEMMA Appended ==
  ASSUME NEW T, NEW s \in Seq(T), NEW t \in Seq(T)
  PROVE  /\ s \o t \in Seq(T) /\ Len(s \o t) = Len(s) + Len(t)
         /\ PlacedAt(s \o t, Len(s), t) /\ PlacedAt(s \o t, 0, s)
         /\ \A p \in Seq(T), offset \in Nat :
              PlacedAt(s, offset, p) => PlacedAt(s \o t, offset, p)
<1>1. Len(s) \in Nat /\ Len(t) \in Nat
  OBVIOUS
<1>2. Len(s \o t) = Len(s) + Len(t) /\ s \o t \in Seq(T)
  OBVIOUS
<1>3. PlacedAt(s \o t, Len(s), t) /\ PlacedAt(s \o t, 0, s)
  BY <1>1, <1>2 DEF PlacedAt
<1>4. ASSUME NEW p \in Seq(T), NEW offset \in Nat, PlacedAt(s, offset, p)
      PROVE  PlacedAt(s \o t, offset, p)
  <2>1. Len(p) \in Nat
    OBVIOUS
  <2>2. ASSUME NEW i \in 1 .. Len(p) PROVE (s \o t)[offset + i] = p[i]
    <3>1. offset + i \in 1 .. Len(s)
      BY <1>1, <1>4, <2>1 DEF PlacedAt
    <3>2. (s \o t)[offset + i] = s[offset + i]
      BY <3>1
    <3> QED
      BY <1>4, <3>2 DEF PlacedAt
  <2> QED
    BY <1>1, <1>2, <1>4, <2>1, <2>2 DEF PlacedAt
<1> QED
  BY <1>2, <1>3, <1>4

\* A descriptor by its length and type.
Descriptor(T, s, length, Type) ==
  s \in Seq(T) /\ Len(s) = length /\ s[1] = length /\ s[2] = Type

\* A structure begins with its size and its type, and its members follow.
LEMMA MembersFollow ==
  ASSUME NEW T, Nat \subseteq T, NEW Type \in Nat, NEW members \in Seq(T)
  PROVE  /\ Descriptor(T, WithHeader(Type, members), Len(members) + 2, Type)
         /\ \A i \in 1 .. Len(members) : WithHeader(Type, members)[i + 2] = members[i]
<1> DEFINE h == <<Len(members) + 2, Type>>
           s == WithHeader(Type, members)
<1>1. Len(members) \in Nat /\ h \in Seq(T) /\ Len(h) = 2
  OBVIOUS
<1>2. h[1] = Len(members) + 2 /\ h[2] = Type
  OBVIOUS
<1>3. s = h \o members
  BY DEF WithHeader, USB_Descriptor_Header_t
<1> HIDE DEF h, s
<1>4. s \in Seq(T) /\ Len(s) = 2 + Len(members)
      /\ PlacedAt(s, 2, members) /\ PlacedAt(s, 0, h)
  BY <1>1, <1>3, Appended
<1>5. s[1] = Len(members) + 2 /\ s[2] = Type
  BY <1>1, <1>2, <1>4 DEF PlacedAt
<1>6. \A i \in 1 .. Len(members) : s[i + 2] = members[i]
  BY <1>1, <1>4 DEF PlacedAt
<1> QED
  BY <1>1, <1>4, <1>5, <1>6 DEF s, Descriptor

\* The same, with the size as a number.
LEMMA HeaderThenMembers ==
  ASSUME NEW T, Nat \subseteq T, NEW Type \in Nat, NEW members \in Seq(T),
         NEW length, length = Len(members) + 2
  PROVE  Descriptor(T, WithHeader(Type, members), length, Type)
BY MembersFollow

\* Where a sequence is found, its two parts are found.
LEMMA PartsPlaced ==
  ASSUME NEW T, NEW s \in Seq(T), NEW t \in Seq(T), NEW d \in Seq(T),
         NEW offset \in Nat, PlacedAt(d, offset, s \o t)
  PROVE  PlacedAt(d, offset, s) /\ PlacedAt(d, offset + Len(s), t)
<1>1. /\ Len(s) \in Nat /\ Len(t) \in Nat /\ Len(d) \in Nat
      /\ Len(s \o t) = Len(s) + Len(t)
  OBVIOUS
<1>2. ASSUME NEW i \in 1 .. Len(s) PROVE d[offset + i] = s[i]
  <2>1. i \in 1 .. Len(s \o t) /\ (s \o t)[i] = s[i]
    BY <1>1
  <2> QED
    BY <2>1 DEF PlacedAt
<1>3. ASSUME NEW i \in 1 .. Len(t) PROVE d[offset + Len(s) + i] = t[i]
  <2>1. Len(s) + i \in 1 .. Len(s \o t) /\ (s \o t)[Len(s) + i] = t[i]
    BY <1>1
  <2>2. d[offset + (Len(s) + i)] = t[i]
    BY <2>1 DEF PlacedAt
  <2>3. offset + (Len(s) + i) = offset + Len(s) + i
    BY <1>1
  <2> QED
    BY <2>2, <2>3
<1> QED
  BY <1>1, <1>2, <1>3 DEF PlacedAt



\* Two parts found one behind the other make the whole.
LEMMA PartsMake ==
  ASSUME NEW T, NEW s \in Seq(T), NEW t \in Seq(T), NEW r \in Seq(T),
         Len(r) = Len(s) + Len(t), PlacedAt(r, 0, s), PlacedAt(r, Len(s), t)
  PROVE  s \o t = r
<1>1. Len(s) \in Nat /\ Len(t) \in Nat /\ Len(s \o t) = Len(r) /\ s \o t \in Seq(T)
  OBVIOUS
<1>2. ASSUME NEW i \in 1 .. Len(r) PROVE (s \o t)[i] = r[i]
  <2>1. CASE i <= Len(s)
    <3>1. i \in 1 .. Len(s)
      BY <1>1, <2>1
    <3>2. (s \o t)[i] = s[i] /\ r[0 + i] = s[i]
      BY <3>1 DEF PlacedAt
    <3> QED
      BY <1>1, <3>2
  <2>2. CASE i > Len(s)
    <3> DEFINE k == i - Len(s)
    <3>1. k \in 1 .. Len(t) /\ i = Len(s) + k
      BY <1>1, <2>2
    <3> HIDE DEF k
    <3>2. (s \o t)[Len(s) + k] = t[k] /\ r[Len(s) + k] = t[k]
      BY <1>1, <3>1 DEF PlacedAt
    <3> QED
      BY <3>1, <3>2
  <2> QED
    BY <1>1, <2>1, <2>2
<1>3. /\ s \o t = [i \in 1 .. Len(r) |-> (s \o t)[i]]
      /\ r = [i \in 1 .. Len(r) |-> r[i]]
  <2> DEFINE u == s \o t
  <2>1. u \in Seq(T) /\ Len(u) = Len(r)
    BY <1>1
  <2> HIDE DEF u
  <2>2. u = [i \in 1 .. Len(u) |-> u[i]] /\ r = [i \in 1 .. Len(r) |-> r[i]]
    BY <2>1
  <2> QED
    BY <2>1, <2>2 DEF u
<1>4. [i \in 1 .. Len(r) |-> (s \o t)[i]] = [i \in 1 .. Len(r) |-> r[i]]
  BY <1>2, Zenon
<1> QED
  BY <1>3, <1>4

\* Short concatenations, as the structures write them.
LEMMA Triple ==
  ASSUME NEW a, NEW b, NEW c
  PROVE  <<a>> \o <<b, c>> = <<a, b, c>>
<1> DEFINE T == {a, b, c}
<1>1. <<a>> \o <<b, c>> = <<a, b, c>>
  <2> DEFINE s == <<a>>
             t == <<b, c>>
             r == <<a, b, c>>
  <2>1. /\ s \in Seq(T) /\ Len(s) = 1 /\ s[1] = a
        /\ t \in Seq(T) /\ Len(t) = 2 /\ t[1] = b /\ t[2] = c
        /\ r \in Seq(T) /\ Len(r) = 3 /\ r[1] = a /\ r[2] = b /\ r[3] = c
    OBVIOUS
  <2> HIDE DEF s, t, r, T
  <2>2. PlacedAt(r, 0, s) /\ PlacedAt(r, Len(s), t)
    BY <2>1 DEF PlacedAt
  <2>3. s \o t = r
    <3>1. s \in Seq(T) /\ t \in Seq(T) /\ r \in Seq(T) /\ Len(r) = Len(s) + Len(t)
      BY <2>1
    <3> QED
      BY ONLY <2>2, <3>1, PartsMake
  <2> QED
    BY <2>3 DEF s, t, r
<1> QED
  BY <1>1

\* An endpoint's members.
LEMMA Quintuple ==
  ASSUME NEW a, NEW b, NEW c, NEW e, NEW f
  PROVE  <<a, b>> \o <<c, e>> \o <<f>> = <<a, b, c, e, f>>
<1> DEFINE T == {a, b, c, e, f}
<1>2. <<a, b>> \o <<c, e>> = <<a, b, c, e>>
  <2> DEFINE s == <<a, b>>
             t == <<c, e>>
             r == <<a, b, c, e>>
  <2>1. /\ s \in Seq(T) /\ Len(s) = 2 /\ s[1] = a /\ s[2] = b
        /\ t \in Seq(T) /\ Len(t) = 2 /\ t[1] = c /\ t[2] = e
        /\ r \in Seq(T) /\ Len(r) = 4 /\ r[1] = a /\ r[2] = b /\ r[3] = c /\ r[4] = e
    OBVIOUS
  <2> HIDE DEF s, t, r, T
  <2>2. PlacedAt(r, 0, s) /\ PlacedAt(r, Len(s), t)
    BY <2>1 DEF PlacedAt
  <2>3. s \o t = r
    <3>1. s \in Seq(T) /\ t \in Seq(T) /\ r \in Seq(T) /\ Len(r) = Len(s) + Len(t)
      BY <2>1
    <3> QED
      BY ONLY <2>2, <3>1, PartsMake
  <2> QED
    BY <2>3 DEF s, t, r
<1>3. <<a, b, c, e>> \o <<f>> = <<a, b, c, e, f>>
  <2> DEFINE s == <<a, b, c, e>>
             t == <<f>>
             r == <<a, b, c, e, f>>
  <2>1. /\ s \in Seq(T) /\ Len(s) = 4 /\ s[1] = a /\ s[2] = b /\ s[3] = c /\ s[4] = e
        /\ t \in Seq(T) /\ Len(t) = 1 /\ t[1] = f
        /\ r \in Seq(T) /\ Len(r) = 5 /\ r[1] = a /\ r[2] = b /\ r[3] = c /\ r[4] = e
        /\ r[5] = f
    OBVIOUS
  <2> HIDE DEF s, t, r, T
  <2>2. PlacedAt(r, 0, s) /\ PlacedAt(r, Len(s), t)
    BY <2>1 DEF PlacedAt
  <2>3. s \o t = r
    <3>1. s \in Seq(T) /\ t \in Seq(T) /\ r \in Seq(T) /\ Len(r) = Len(s) + Len(t)
      BY <2>1
    <3> QED
      BY ONLY <2>2, <3>1, PartsMake
  <2> QED
    BY <2>3 DEF s, t, r
<1> QED
  BY <1>2, <1>3

\* The interface descriptors of the device.
LEMMA InterfaceBytes ==
  ASSUME NEW T, Nat \subseteq T
  PROVE  /\ Descriptor(T, CDC_CCI_Interface, 9, DTYPE_Interface)
         /\ Descriptor(T, CDC_DCI_Interface, 9, DTYPE_Interface)
<1>1. ASSUME NEW a \in Nat, NEW b \in Nat, NEW c \in Nat, NEW e \in Nat, NEW f \in Nat,
             NEW g \in Nat, NEW h \in Nat
      PROVE  Descriptor(T, WithHeader(DTYPE_Interface, <<a, b, c, e, f, g, h>>),
                        9, DTYPE_Interface)
  <2> DEFINE m == <<a, b, c, e, f, g, h>>
  <2>1. m \in Seq(T) /\ Len(m) + 2 = 9
    OBVIOUS
  <2>2. DTYPE_Interface \in Nat
    BY DEF DTYPE_Interface
  <2> HIDE DEF m
  <2>3. Descriptor(T, WithHeader(DTYPE_Interface, m), 9, DTYPE_Interface)
    BY <2>1, <2>2, HeaderThenMembers
  <2> QED
    BY <2>3 DEF m
<1> QED
  BY <1>1 DEF CDC_CCI_Interface, CDC_DCI_Interface, USB_Descriptor_Interface_t,
         CDC_CSCP_CDCClass, CDC_CSCP_ACMSubclass, CDC_CSCP_ATCommandProtocol,
         NO_DESCRIPTOR, CDC_CSCP_CDCDataClass, CDC_CSCP_NoDataSubclass,
         CDC_CSCP_NoDataProtocol

\* Its functional descriptors, whatever the bytes of the version are.
LEMMA FunctionalBytes ==
  ASSUME NEW T, Nat \subseteq T, NEW version, ByteAt(version, 1) \in T,
         ByteAt(version, 256) \in T
  PROVE  /\ Descriptor(T, USB_CDC_Descriptor_FunctionalHeader_t(version), 5,
                       DTYPE_CSInterface)
         /\ Descriptor(T, USB_CDC_Descriptor_FunctionalACM_t(6), 4, DTYPE_CSInterface)
         /\ Descriptor(T, USB_CDC_Descriptor_FunctionalUnion_t(0, 1), 5,
                       DTYPE_CSInterface)
<1>1. DTYPE_CSInterface \in Nat
  BY DEF DTYPE_CSInterface
<1>2. ASSUME NEW a \in T, NEW b \in T, NEW c \in T
      PROVE  Descriptor(T, WithHeader(DTYPE_CSInterface, <<a, b, c>>), 5,
                        DTYPE_CSInterface)
  <2> DEFINE m == <<a, b, c>>
  <2>1. m \in Seq(T) /\ Len(m) + 2 = 5
    OBVIOUS
  <2> HIDE DEF m
  <2>3. Descriptor(T, WithHeader(DTYPE_CSInterface, m), 5, DTYPE_CSInterface)
    BY <1>1, <2>1, HeaderThenMembers
  <2> QED
    BY <2>3 DEF m
<1>3. ASSUME NEW a \in T, NEW b \in T
      PROVE  Descriptor(T, WithHeader(DTYPE_CSInterface, <<a, b>>), 4,
                        DTYPE_CSInterface)
  <2> DEFINE m == <<a, b>>
  <2>1. m \in Seq(T) /\ Len(m) + 2 = 4
    OBVIOUS
  <2> HIDE DEF m
  <2>3. Descriptor(T, WithHeader(DTYPE_CSInterface, m), 4, DTYPE_CSInterface)
    BY <1>1, <2>1, HeaderThenMembers
  <2> QED
    BY <2>3 DEF m
<1>4. 0 \in T /\ 1 \in T /\ 2 \in T /\ 6 \in T
  OBVIOUS
<1>5. Descriptor(T, USB_CDC_Descriptor_FunctionalHeader_t(version), 5,
                 DTYPE_CSInterface)
  <2>1. <<0>> \o <<ByteAt(version, 1), ByteAt(version, 256)>>
        = <<0, ByteAt(version, 1), ByteAt(version, 256)>>
    BY Triple
  <2>2. USB_CDC_Descriptor_FunctionalHeader_t(version)
        = WithHeader(DTYPE_CSInterface, <<0>> \o <<ByteAt(version, 1), ByteAt(version, 256)>>)
    BY DEF USB_CDC_Descriptor_FunctionalHeader_t, Bytes16,
           CDC_DSUBTYPE_CSInterface_Header
  <2>3. Descriptor(T, WithHeader(DTYPE_CSInterface,
                     <<0, ByteAt(version, 1), ByteAt(version, 256)>>), 5, DTYPE_CSInterface)
    BY <1>2, <1>4
  <2> QED
    BY <2>1, <2>2, <2>3
<1>6. Descriptor(T, USB_CDC_Descriptor_FunctionalACM_t(6), 4, DTYPE_CSInterface)
  BY <1>3, <1>4 DEF USB_CDC_Descriptor_FunctionalACM_t, CDC_DSUBTYPE_CSInterface_ACM
<1>7. Descriptor(T, USB_CDC_Descriptor_FunctionalUnion_t(0, 1), 5, DTYPE_CSInterface)
  BY <1>2, <1>4 DEF USB_CDC_Descriptor_FunctionalUnion_t,
         CDC_DSUBTYPE_CSInterface_Union
<1> QED
  BY <1>5, <1>6, <1>7

\* An endpoint's descriptor: its address, its type and, low byte first, its size.
EndpointDescriptor(T, s, address, type, size) ==
  /\ Descriptor(T, s, 7, DTYPE_Endpoint)
  /\ s[3] = address /\ s[4] = type /\ s[5] = size /\ s[6] = 0

\* An endpoint descriptor by its members.
EndpointOf(address, type, size, interval) ==
  USB_Descriptor_Endpoint_t(
    [EndpointAddress |-> address, Attributes |-> type,
     EndpointSize |-> size, PollingIntervalMS |-> interval])

\* What an endpoint descriptor holds, if its size is less than 256.
LEMMA EndpointBytes ==
  ASSUME NEW T, Nat \subseteq T, NEW address \in Nat, NEW type \in Nat,
         NEW size \in 0 .. 255, NEW interval \in Nat
  PROVE  EndpointDescriptor(T, EndpointOf(address, type, size, interval),
                            address, type, size)
<1> DEFINE m == <<address, type, ByteAt(size, 1), ByteAt(size, 256), interval>>
           s == EndpointOf(address, type, size, interval)
<1>1. ByteAt(size, 1) = size /\ ByteAt(size, 256) = 0
  BY DEF ByteAt
<1>2. s = WithHeader(DTYPE_Endpoint, m)
  <2>1. <<address, type>> \o <<ByteAt(size, 1), ByteAt(size, 256)>> \o <<interval>> = m
    BY Quintuple
  <2>2. s = WithHeader(DTYPE_Endpoint,
              <<address, type>> \o <<ByteAt(size, 1), ByteAt(size, 256)>> \o <<interval>>)
    BY DEF EndpointOf, USB_Descriptor_Endpoint_t, Bytes16
  <2> HIDE DEF s
  <2> QED
    BY <2>1, <2>2
<1>3. m \in Seq(T) /\ Len(m) = 5 /\ m[1] = address /\ m[2] = type /\ m[3] = size
      /\ m[4] = 0
  BY <1>1
<1>4. DTYPE_Endpoint \in Nat
  BY DEF DTYPE_Endpoint
<1> HIDE DEF m, s
<1>5. Descriptor(T, s, 7, DTYPE_Endpoint) /\ \A i \in 1 .. 5 : s[i + 2] = m[i]
  <2>1. 7 = Len(m) + 2
    BY <1>3
  <2>2. Descriptor(T, s, 7, DTYPE_Endpoint)
    BY <1>2, <1>3, <1>4, <2>1, HeaderThenMembers
  <2>3. \A i \in 1 .. Len(m) : WithHeader(DTYPE_Endpoint, m)[i + 2] = m[i]
    <3>1. m \in Seq(T)
      BY <1>3
    <3> QED
      BY ONLY <1>4, <3>1, Nat \subseteq T, MembersFollow
  <2> QED
    BY <1>2, <1>3, <2>2, <2>3
<1>6. s[3] = m[1] /\ s[4] = m[2] /\ s[5] = m[3] /\ s[6] = m[4]
  BY <1>5
<1> QED
  BY <1>3, <1>5, <1>6 DEF s, EndpointDescriptor

\* ConfigurationDescriptor as its readers see it: TotalConfigurationSize is its
\* size (sizeof in Descriptors.c), each header names the size and the type of
\* the structure it heads, and the endpoints have the addresses, types and sizes
\* of Descriptors.h.  The bytes of the class specification's version are left
\* open: the proof does not need them.
THEOREM ConfigurationLayout ==
  /\ Len(ConfigurationDescriptor) = 62
  /\ ConfigurationDescriptor[3] = 62 /\ ConfigurationDescriptor[4] = 0
  /\ \A h \in {<<0, 9, 2>>, <<9, 9, 4>>, <<18, 5, 36>>, <<23, 4, 36>>, <<27, 5, 36>>,
               <<32, 7, 5>>, <<39, 9, 4>>, <<48, 7, 5>>, <<55, 7, 5>>} :
       /\ ConfigurationDescriptor[h[1] + 1] = h[2]
       /\ ConfigurationDescriptor[h[1] + 2] = h[3]
  /\ \A e \in {<<32, 130, 3, 8>>, <<48, 4, 2, 16>>, <<55, 131, 2, 16>>} :
       /\ ConfigurationDescriptor[e[1] + 3] = e[2]
       /\ ConfigurationDescriptor[e[1] + 4] = e[3]
       /\ ConfigurationDescriptor[e[1] + 5] = e[4]
       /\ ConfigurationDescriptor[e[1] + 6] = 0
<1> DEFINE version == VERSION_BCD(110)
           T == Nat \cup {ByteAt(version, 1), ByteAt(version, 256)}
           H == USB_CDC_Descriptor_FunctionalHeader_t(version)
           A == USB_CDC_Descriptor_FunctionalACM_t(6)
           U == USB_CDC_Descriptor_FunctionalUnion_t(0, 1)
           C == CDC_CCI_Interface
           N == CDC_NotificationEndpoint
           D == CDC_DCI_Interface
           R == CDC_DataEndpoint(CDC_RX_EPADDR)
           X == CDC_DataEndpoint(CDC_TX_EPADDR)
           Conf == USB_Descriptor_Configuration_Header_t(
             [TotalConfigurationSize |-> SizeOfConfigurationHeader + Len(Interfaces),
              TotalInterfaces |-> 2, ConfigurationNumber |-> 1,
              ConfigurationStrIndex |-> NO_DESCRIPTOR,
              ConfigAttributes |-> USB_CONFIG_ATTR_RESERVED + USB_CONFIG_ATTR_SELFPOWERED,
              MaxPowerConsumption |-> USB_CONFIG_POWER_MA(100)])
<1>1. Nat \subseteq T /\ ByteAt(version, 1) \in T /\ ByteAt(version, 256) \in T
  OBVIOUS
<1> HIDE DEF T, version
<1>2. /\ Descriptor(T, C, 9, DTYPE_Interface) /\ Descriptor(T, D, 9, DTYPE_Interface)
  BY <1>1, InterfaceBytes
<1>3. /\ Descriptor(T, H, 5, DTYPE_CSInterface) /\ Descriptor(T, A, 4, DTYPE_CSInterface)
      /\ Descriptor(T, U, 5, DTYPE_CSInterface)
  BY <1>1, FunctionalBytes
<1>4. EndpointDescriptor(T, N, 130, 3, 8)
  <2>1. EndpointDescriptor(T, EndpointOf(130, 3, 8, 255), 130, 3, 8)
    <3>1. 130 \in Nat /\ 3 \in Nat /\ 8 \in 0 .. 255 /\ 255 \in Nat
      OBVIOUS
    <3> QED
      BY ONLY <1>1, <3>1, EndpointBytes
  <2> QED
    BY <2>1 DEF EndpointOf, CDC_NotificationEndpoint, CDC_NOTIFICATION_EPADDR, ENDPOINT_DIR_IN,
           EP_TYPE_INTERRUPT, ENDPOINT_ATTR_NO_SYNC, ENDPOINT_USAGE_DATA,
           CDC_NOTIFICATION_EPSIZE
<1>5. ASSUME NEW address \in Nat
      PROVE  EndpointDescriptor(T, CDC_DataEndpoint(address), address, 2, 16)
  <2>1. EndpointDescriptor(T, EndpointOf(address, 2, 16, 5), address, 2, 16)
    <3>1. address \in Nat /\ 2 \in Nat /\ 16 \in 0 .. 255 /\ 5 \in Nat
      OBVIOUS
    <3> QED
      BY ONLY <1>1, <3>1, EndpointBytes
  <2> QED
    BY <2>1 DEF EndpointOf, CDC_DataEndpoint, BulkData, EP_TYPE_BULK, ENDPOINT_ATTR_NO_SYNC,
           ENDPOINT_USAGE_DATA, CDC_TXRX_EPSIZE
<1>6. EndpointDescriptor(T, R, 4, 2, 16) /\ EndpointDescriptor(T, X, 131, 2, 16)
  <2>1. CDC_RX_EPADDR = 4 /\ CDC_TX_EPADDR = 131
    BY DEF CDC_RX_EPADDR, CDC_TX_EPADDR, ENDPOINT_DIR_IN, ENDPOINT_DIR_OUT
  <2> QED
    BY <1>5, <2>1
<1>7. Interfaces = C \o (H \o A \o U) \o N \o D \o R \o X
  BY DEF Interfaces, CDC_Functional, version
<1>8. /\ Descriptor(T, Conf, 9, DTYPE_Configuration)
      /\ Conf[3] = ByteAt(SizeOfConfigurationHeader + Len(Interfaces), 1)
      /\ Conf[4] = ByteAt(SizeOfConfigurationHeader + Len(Interfaces), 256)
  <2> DEFINE total == SizeOfConfigurationHeader + Len(Interfaces)
             low == ByteAt(total, 1)
             high == ByteAt(total, 256)
             m == <<low, high>> \o <<2, 1, 0, 192, 50>>
  <2>1. Interfaces \in Seq(T)
    BY <1>2, <1>3, <1>4, <1>6, <1>7 DEF Descriptor, EndpointDescriptor
  <2>2. total \in Nat
    BY <2>1 DEF SizeOfConfigurationHeader
  <2> HIDE DEF total
  <2>3. low \in T /\ high \in T
    BY <1>1, <2>2 DEF ByteAt
  <2> HIDE DEF low, high
  <2>4. m \in Seq(T) /\ Len(m) = 7 /\ 9 = Len(m) + 2
    <3>1. <<low, high>> \in Seq(T) /\ Len(<<low, high>>) = 2
      BY <2>3
    <3>2. <<2, 1, 0, 192, 50>> \in Seq(T) /\ Len(<<2, 1, 0, 192, 50>>) = 5
      BY <1>1
    <3> QED
      BY ONLY <3>1, <3>2
  <2>7. m[1] = low /\ m[2] = high
    <3>1. <<low, high>>[1] = low /\ <<low, high>>[2] = high
      OBVIOUS
    <3>2. <<low, high>> \in Seq(T) /\ <<2, 1, 0, 192, 50>> \in Seq(T)
          /\ Len(<<low, high>>) = 2
      BY <1>1, <2>3
    <3> DEFINE a == <<low, high>>
               b == <<2, 1, 0, 192, 50>>
    <3> HIDE DEF a, b
    <3>3. PlacedAt(a \o b, 0, a)
      BY <3>2, Appended DEF a, b
    <3>4. (a \o b)[0 + 1] = a[1] /\ (a \o b)[0 + 2] = a[2]
      BY <3>2, <3>3 DEF PlacedAt, a
    <3> QED
      BY <3>1, <3>4 DEF a, b
  <2>5. Conf = WithHeader(DTYPE_Configuration, m)
    BY DEF USB_Descriptor_Configuration_Header_t, Bytes16, NO_DESCRIPTOR, low, high, total,
           USB_CONFIG_ATTR_RESERVED, USB_CONFIG_ATTR_SELFPOWERED, USB_CONFIG_POWER_MA
  <2>6. DTYPE_Configuration \in Nat
    BY DEF DTYPE_Configuration
  <2> HIDE DEF m
  <2>8. Descriptor(T, Conf, 9, DTYPE_Configuration)
    BY <1>1, <2>4, <2>5, <2>6, HeaderThenMembers
  <2>9. \A i \in 1 .. Len(m) : WithHeader(DTYPE_Configuration, m)[i + 2] = m[i]
    <3>1. m \in Seq(T)
      BY <2>4
    <3> QED
      BY ONLY <1>1, <2>6, <3>1, MembersFollow
  <2>10. Conf[1 + 2] = low /\ Conf[2 + 2] = high
    <3>1. Len(m) = 7
      BY <2>4
    <3> QED
      BY <2>5, <2>7, <2>9, <3>1
  <2> QED
    BY <2>8, <2>10 DEF low, high, total
<1>9. ConfigurationDescriptor = Conf \o Interfaces
  BY DEF ConfigurationDescriptor
<1> HIDE DEF H, A, U, C, N, D, R, X, Conf
<1> DEFINE F == H \o A \o U
           d == ConfigurationDescriptor
<1>10. /\ Conf \in Seq(T) /\ Len(Conf) = 9 /\ C \in Seq(T) /\ Len(C) = 9
       /\ H \in Seq(T) /\ Len(H) = 5 /\ A \in Seq(T) /\ Len(A) = 4
       /\ U \in Seq(T) /\ Len(U) = 5 /\ N \in Seq(T) /\ Len(N) = 7
       /\ D \in Seq(T) /\ Len(D) = 9 /\ R \in Seq(T) /\ Len(R) = 7
       /\ X \in Seq(T) /\ Len(X) = 7
  BY <1>2, <1>3, <1>4, <1>6, <1>8 DEF Descriptor, EndpointDescriptor
<1>11. /\ H \o A \in Seq(T) /\ Len(H \o A) = 9
       /\ F \in Seq(T) /\ Len(F) = 14
  <2>1. H \o A \in Seq(T) /\ Len(H \o A) = Len(H) + Len(A)
    BY <1>10, Appended
  <2>2. F \in Seq(T) /\ Len(F) = Len(H \o A) + Len(U)
    BY <1>10, <2>1, Appended
  <2> HIDE DEF F
  <2> QED
    BY <1>10, <2>1, <2>2
<1> HIDE DEF F
<1> DEFINE I1 == C \o F
           I2 == I1 \o N
           I3 == I2 \o D
           I4 == I3 \o R
<1>12. I1 \in Seq(T) /\ Len(I1) = 23
  <2>1. I1 \in Seq(T) /\ Len(I1) = Len(C) + Len(F)
    BY <1>10, <1>11, Appended
  <2> HIDE DEF I1
  <2> QED
    BY <1>10, <1>11, <2>1
<1> HIDE DEF I1
<1>13. I2 \in Seq(T) /\ Len(I2) = 30
  <2>1. I2 \in Seq(T) /\ Len(I2) = Len(I1) + Len(N)
    BY <1>10, <1>12, Appended
  <2> HIDE DEF I2
  <2> QED
    BY <1>10, <1>12, <2>1
<1> HIDE DEF I2
<1>14. I3 \in Seq(T) /\ Len(I3) = 39
  <2>1. I3 \in Seq(T) /\ Len(I3) = Len(I2) + Len(D)
    BY <1>10, <1>13, Appended
  <2> HIDE DEF I3
  <2> QED
    BY <1>10, <1>13, <2>1
<1> HIDE DEF I3
<1>15. I4 \in Seq(T) /\ Len(I4) = 46
  <2>1. I4 \in Seq(T) /\ Len(I4) = Len(I3) + Len(R)
    BY <1>10, <1>14, Appended
  <2> HIDE DEF I4
  <2> QED
    BY <1>10, <1>14, <2>1
<1> HIDE DEF I4
<1>16. Interfaces = I4 \o X /\ Interfaces \in Seq(T) /\ Len(Interfaces) = 53
  <2>1. Interfaces = I4 \o X
    BY <1>7 DEF I1, I2, I3, I4, F
  <2>2. I4 \o X \in Seq(T) /\ Len(I4 \o X) = Len(I4) + Len(X)
    BY <1>10, <1>15, Appended
  <2> QED
    BY <1>10, <1>15, <2>1, <2>2
<1>17. d \in Seq(T) /\ Len(d) = 62
  <2>1. Conf \o Interfaces \in Seq(T)
        /\ Len(Conf \o Interfaces) = Len(Conf) + Len(Interfaces)
    BY <1>10, <1>16, Appended
  <2> QED
    BY <1>9, <1>10, <1>16, <2>1
<1>18. PlacedAt(d, 0, Conf) /\ PlacedAt(d, 9, Interfaces)
  BY <1>9, <1>10, <1>16, Appended
<1> HIDE DEF d
<1>19. PlacedAt(d, 9, I4) /\ PlacedAt(d, 55, X)
  <2>1. PlacedAt(d, 9, I4) /\ PlacedAt(d, 9 + Len(I4), X)
    BY <1>10, <1>15, <1>16, <1>17, <1>18, PartsPlaced
  <2> QED
    BY <1>15, <2>1
<1>20. PlacedAt(d, 9, I3) /\ PlacedAt(d, 48, R)
  <2>1. PlacedAt(d, 9, I3) /\ PlacedAt(d, 9 + Len(I3), R)
    BY <1>10, <1>14, <1>17, <1>19, PartsPlaced DEF I4
  <2> QED
    BY <1>14, <2>1
<1>21. PlacedAt(d, 9, I2) /\ PlacedAt(d, 39, D)
  <2>1. PlacedAt(d, 9, I2) /\ PlacedAt(d, 9 + Len(I2), D)
    BY <1>10, <1>13, <1>17, <1>20, PartsPlaced DEF I3
  <2> QED
    BY <1>13, <2>1
<1>22. PlacedAt(d, 9, I1) /\ PlacedAt(d, 32, N)
  <2>1. PlacedAt(d, 9, I1) /\ PlacedAt(d, 9 + Len(I1), N)
    BY <1>10, <1>12, <1>17, <1>21, PartsPlaced DEF I2
  <2> QED
    BY <1>12, <2>1
<1>23. PlacedAt(d, 9, C) /\ PlacedAt(d, 18, F)
  <2>1. PlacedAt(d, 9, C) /\ PlacedAt(d, 9 + Len(C), F)
    BY <1>10, <1>11, <1>17, <1>22, PartsPlaced DEF I1
  <2> QED
    BY <1>10, <2>1
<1>24. PlacedAt(d, 18, H \o A) /\ PlacedAt(d, 27, U)
  <2>1. PlacedAt(d, 18, H \o A) /\ PlacedAt(d, 18 + Len(H \o A), U)
    BY <1>10, <1>11, <1>17, <1>23, PartsPlaced DEF F
  <2> QED
    BY <1>11, <2>1
<1>25. PlacedAt(d, 18, H) /\ PlacedAt(d, 23, A)
  <2>1. PlacedAt(d, 18, H) /\ PlacedAt(d, 18 + Len(H), A)
    BY <1>10, <1>17, <1>24, PartsPlaced
  <2> QED
    BY <1>10, <2>1
<1>26. ASSUME NEW offset \in Nat, NEW s, NEW length, NEW Type, length \in {4, 5, 7, 9},
              Descriptor(T, s, length, Type), PlacedAt(d, offset, s)
       PROVE  d[offset + 1] = length /\ d[offset + 2] = Type
  BY <1>26 DEF Descriptor, PlacedAt
<1>27. ASSUME NEW offset \in Nat, NEW s, NEW address, NEW type, NEW size,
              EndpointDescriptor(T, s, address, type, size), PlacedAt(d, offset, s)
       PROVE  /\ d[offset + 3] = address /\ d[offset + 4] = type
              /\ d[offset + 5] = size /\ d[offset + 6] = 0
  BY <1>27 DEF EndpointDescriptor, Descriptor, PlacedAt
<1>28. /\ d[0 + 1] = 9 /\ d[0 + 2] = DTYPE_Configuration
       /\ d[9 + 1] = 9 /\ d[9 + 2] = DTYPE_Interface
       /\ d[18 + 1] = 5 /\ d[18 + 2] = DTYPE_CSInterface
       /\ d[23 + 1] = 4 /\ d[23 + 2] = DTYPE_CSInterface
       /\ d[27 + 1] = 5 /\ d[27 + 2] = DTYPE_CSInterface
       /\ d[39 + 1] = 9 /\ d[39 + 2] = DTYPE_Interface
  BY <1>2, <1>3, <1>8, <1>18, <1>21, <1>23, <1>24, <1>25, <1>26
<1>29. /\ d[32 + 1] = 7 /\ d[32 + 2] = DTYPE_Endpoint
       /\ d[48 + 1] = 7 /\ d[48 + 2] = DTYPE_Endpoint
       /\ d[55 + 1] = 7 /\ d[55 + 2] = DTYPE_Endpoint
  BY <1>4, <1>6, <1>19, <1>20, <1>22, <1>26 DEF EndpointDescriptor
<1>30. /\ d[32 + 3] = 130 /\ d[32 + 4] = 3 /\ d[32 + 5] = 8 /\ d[32 + 6] = 0
       /\ d[48 + 3] = 4 /\ d[48 + 4] = 2 /\ d[48 + 5] = 16 /\ d[48 + 6] = 0
       /\ d[55 + 3] = 131 /\ d[55 + 4] = 2 /\ d[55 + 5] = 16 /\ d[55 + 6] = 0
  BY <1>4, <1>6, <1>19, <1>20, <1>22, <1>27
<1>31. d[3] = 62 /\ d[4] = 0
  <2>1. d[0 + 3] = Conf[3] /\ d[0 + 4] = Conf[4]
    BY <1>10, <1>18 DEF PlacedAt
  <2>2. SizeOfConfigurationHeader + Len(Interfaces) = 62
    BY <1>16 DEF SizeOfConfigurationHeader
  <2>3. ByteAt(62, 1) = 62 /\ ByteAt(62, 256) = 0
    BY DEF ByteAt
  <2> QED
    BY <1>8, <2>1, <2>2, <2>3
<1> QED
  BY <1>17, <1>28, <1>29, <1>30, <1>31 DEF d, DTYPE_Configuration, DTYPE_Interface,
     DTYPE_CSInterface, DTYPE_Endpoint
=============================================================================
