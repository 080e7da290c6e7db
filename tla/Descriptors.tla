---------------------------- MODULE Descriptors ----------------------------
(***************************************************************************)
(* The descriptors of the device (Descriptors.c) as the bytes they occupy  *)
(* in flash, and the callback that finds them for the library.             *)
(*                                                                         *)
(* A structure is the sequence of its bytes: the structures are packed, so *)
(* nothing lies between the members, and 16-bit members have the low byte  *)
(* first.                                                                  *)
(***************************************************************************)
EXTENDS Endianness

DTYPE_Device == 1
DTYPE_Configuration == 2
DTYPE_String == 3
DTYPE_Interface == 4
DTYPE_Endpoint == 5
DTYPE_DeviceQualifier == 6
DTYPE_InterfaceAssociation == 11
DTYPE_CSInterface == 36

CDC_CSCP_CDCClass == 2
CDC_CSCP_NoSpecificSubclass == 0
CDC_CSCP_ACMSubclass == 2
CDC_CSCP_ATCommandProtocol == 1
CDC_CSCP_NoSpecificProtocol == 0
CDC_CSCP_CDCDataClass == 10
CDC_CSCP_NoDataSubclass == 0
CDC_CSCP_NoDataProtocol == 0

CDC_DSUBTYPE_CSInterface_Header == 0
CDC_DSUBTYPE_CSInterface_ACM == 2
CDC_DSUBTYPE_CSInterface_Union == 6

NO_DESCRIPTOR == 0
ENDPOINT_DIR_OUT == 0
ENDPOINT_DIR_IN == 128
EP_TYPE_BULK == 2
EP_TYPE_INTERRUPT == 3
USB_CONFIG_ATTR_RESERVED == 128
USB_CONFIG_ATTR_SELFPOWERED == 64
ENDPOINT_ATTR_NO_SYNC == 0
ENDPOINT_USAGE_DATA == 0
LANGUAGE_ID_ENG == 1033  \* 0x0409

CDC_NOTIFICATION_EPADDR == ENDPOINT_DIR_IN + 2
CDC_TX_EPADDR == ENDPOINT_DIR_IN + 3
CDC_RX_EPADDR == ENDPOINT_DIR_OUT + 4
CDC_NOTIFICATION_EPSIZE == 8
CDC_TXRX_EPSIZE == 16

-----------------------------------------------------------------------------
(***************************************************************************)
(* VERSION_BCD computes with doubles, which avr-gcc holds in single        *)
(* precision: 24 significant bits, rounded to nearest, ties to even.  Such *)
(* a number is [m, e], the value m / 2^e.  A version is its literal times  *)
(* one hundred.                                                            *)
(***************************************************************************)
Precision == 16777216  \* 2^24

Rounded(m, e) ==
  LET k == CHOOSE k \in 0 .. 7 :
             /\ m < Precision * 2^k
             /\ k = 0 \/ m >= Precision * 2^(k - 1)
      quotient == m \div 2^k
      twiceRest == 2 * (m % 2^k)
      up == twiceRest > 2^k \/ (twiceRest = 2^k /\ k > 0 /\ quotient % 2 = 1)
  IN [m |-> IF up THEN quotient + 1 ELSE quotient, e |-> e - k]

\* The nearest single to hundredths / 100.
Literal(hundredths) ==
  LET nearest(e) == (hundredths * 2^e + 50) \div 100
      e == CHOOSE e \in 0 .. 29 :
             nearest(e) < Precision /\ 2 * nearest(e) >= Precision
  IN [m |-> nearest(e), e |-> e]

Truncated(f) == f.m \div 2^f.e
Fraction(f) == [f EXCEPT !.m = @ % 2^f.e]
Times10(f) == Rounded(10 * f.m, f.e)

VERSION_TENS(x) == Truncated(x) \div 10
VERSION_ONES(x) == Truncated(x) % 10
VERSION_TENTHS(x) == Truncated(Times10(Fraction(x)))
VERSION_HUNDREDTHS(x) == Truncated(Times10(Fraction(Times10(x))))

VERSION_BCD(hundredths) ==
  LET x == Literal(hundredths)
  IN CPU_TO_LE16(4096 * VERSION_TENS(x) + 256 * VERSION_ONES(x)
                   + 16 * VERSION_TENTHS(x) + VERSION_HUNDREDTHS(x))

-----------------------------------------------------------------------------
(***************************************************************************)
(* The structures.  Header.Size is the size of the structure in each, so   *)
(* it is filled in here.                                                   *)
(***************************************************************************)
USB_Descriptor_Header_t(Size, Type) == <<Size, Type>>

WithHeader(Type, members) ==
  USB_Descriptor_Header_t(Len(members) + 2, Type) \o members

USB_Descriptor_Device_t(d) ==
  WithHeader(DTYPE_Device,
    Bytes16(d.USBSpecification)
      \o <<d.Class, d.SubClass, d.Protocol, d.Endpoint0Size>>
      \o Bytes16(d.VendorID) \o Bytes16(d.ProductID) \o Bytes16(d.ReleaseNumber)
      \o <<d.ManufacturerStrIndex, d.ProductStrIndex, d.SerialNumStrIndex,
           d.NumberOfConfigurations>>)

USB_Descriptor_Configuration_Header_t(d) ==
  WithHeader(DTYPE_Configuration,
    Bytes16(d.TotalConfigurationSize)
      \o <<d.TotalInterfaces, d.ConfigurationNumber, d.ConfigurationStrIndex,
           d.ConfigAttributes, d.MaxPowerConsumption>>)

USB_Descriptor_Interface_t(d) ==
  WithHeader(DTYPE_Interface,
    <<d.InterfaceNumber, d.AlternateSetting, d.TotalEndpoints,
      d.Class, d.SubClass, d.Protocol, d.InterfaceStrIndex>>)

USB_Descriptor_Endpoint_t(d) ==
  WithHeader(DTYPE_Endpoint,
    <<d.EndpointAddress, d.Attributes>>
      \o Bytes16(d.EndpointSize) \o <<d.PollingIntervalMS>>)

USB_CDC_Descriptor_FunctionalHeader_t(CDCSpecification) ==
  WithHeader(DTYPE_CSInterface,
    <<CDC_DSUBTYPE_CSInterface_Header>> \o Bytes16(CDCSpecification))

USB_CDC_Descriptor_FunctionalACM_t(Capabilities) ==
  WithHeader(DTYPE_CSInterface, <<CDC_DSUBTYPE_CSInterface_ACM, Capabilities>>)

USB_CDC_Descriptor_FunctionalUnion_t(Master, Slave) ==
  WithHeader(DTYPE_CSInterface, <<CDC_DSUBTYPE_CSInterface_Union, Master, Slave>>)

(***************************************************************************)
(* The same structures under the names of the standard, where length and   *)
(* type are members like any other, and two that this device has none of.  *)
(***************************************************************************)
USB_StdDescriptor_Header_t(d) == <<d.bLength, d.bDescriptorType>>

USB_StdDescriptor_Device_t(d) ==
  USB_StdDescriptor_Header_t(d) \o Bytes16(d.bcdUSB)
    \o <<d.bDeviceClass, d.bDeviceSubClass, d.bDeviceProtocol, d.bMaxPacketSize0>>
    \o Bytes16(d.idVendor) \o Bytes16(d.idProduct) \o Bytes16(d.bcdDevice)
    \o <<d.iManufacturer, d.iProduct, d.iSerialNumber, d.bNumConfigurations>>

USB_Descriptor_DeviceQualifier_t(d) ==
  WithHeader(DTYPE_DeviceQualifier,
    Bytes16(d.USBSpecification)
      \o <<d.Class, d.SubClass, d.Protocol, d.Endpoint0Size,
           d.NumberOfConfigurations, d.Reserved>>)

USB_StdDescriptor_DeviceQualifier_t(d) ==
  USB_StdDescriptor_Header_t(d) \o Bytes16(d.bcdUSB)
    \o <<d.bDeviceClass, d.bDeviceSubClass, d.bDeviceProtocol, d.bMaxPacketSize0,
         d.bNumConfigurations, d.bReserved>>

USB_StdDescriptor_Configuration_Header_t(d) ==
  USB_StdDescriptor_Header_t(d) \o Bytes16(d.wTotalLength)
    \o <<d.bNumInterfaces, d.bConfigurationValue, d.iConfiguration,
         d.bmAttributes, d.bMaxPower>>

USB_StdDescriptor_Interface_t(d) ==
  USB_StdDescriptor_Header_t(d)
    \o <<d.bInterfaceNumber, d.bAlternateSetting, d.bNumEndpoints, d.bInterfaceClass,
         d.bInterfaceSubClass, d.bInterfaceProtocol, d.iInterface>>

USB_Descriptor_Interface_Association_t(d) ==
  WithHeader(DTYPE_InterfaceAssociation,
    <<d.FirstInterfaceIndex, d.TotalInterfaces, d.Class, d.SubClass, d.Protocol,
      d.IADStrIndex>>)

USB_StdDescriptor_Interface_Association_t(d) ==
  USB_StdDescriptor_Header_t(d)
    \o <<d.bFirstInterface, d.bInterfaceCount, d.bFunctionClass,
         d.bFunctionSubClass, d.bFunctionProtocol, d.iFunction>>

USB_StdDescriptor_Endpoint_t(d) ==
  USB_StdDescriptor_Header_t(d) \o <<d.bEndpointAddress, d.bmAttributes>>
    \o Bytes16(d.wMaxPacketSize) \o <<d.bInterval>>

USB_CDC_StdDescriptor_FunctionalHeader_t(d) ==
  <<d.bFunctionLength, d.bDescriptorType>>
    \o <<d.bDescriptorSubType>> \o Bytes16(d.bcdCDC)

USB_CDC_StdDescriptor_FunctionalACM_t(d) ==
  <<d.bFunctionLength, d.bDescriptorType>>
    \o <<d.bDescriptorSubType, d.bmCapabilities>>

USB_CDC_StdDescriptor_FunctionalUnion_t(d) ==
  <<d.bFunctionLength, d.bDescriptorType>>
    \o <<d.bDescriptorSubType, d.bMasterInterface, d.bSlaveInterface0>>

USB_CONFIG_POWER_MA(mA) == mA \div 2
USB_STRING_LEN(UnicodeChars) == 2 + 2 * UnicodeChars

\* What Header.Size, a uint8_t, keeps of it.
StringSize(characters) == USB_STRING_LEN(characters) % 256

\* The wording is left out: the characters of a text are numbered, from a
\* first number that tells the texts apart.
USB_Descriptor_String_t(characters, first) ==
  USB_Descriptor_Header_t(StringSize(characters), DTYPE_String)
    \o [i \in 1 .. 2 * characters |->
          Bytes16(first + (i + 1) \div 2)[IF i % 2 = 1 THEN 1 ELSE 2]]

\* The same text as an array of 16-bit characters, the low byte of each first.
USB_StdDescriptor_String_t(d) ==
  USB_StdDescriptor_Header_t(d)
    \o [i \in 1 .. 2 * Len(d.bString) |->
          Bytes16(d.bString[(i + 1) \div 2])[IF i % 2 = 1 THEN 1 ELSE 2]]

\* A functional descriptor of any subtype, by its data.
CDC_FUNCTIONAL_DESCRIPTOR(SubType, Data) ==
  WithHeader(DTYPE_CSInterface, <<SubType>> \o Data)

-----------------------------------------------------------------------------
(***************************************************************************)
(* The descriptors.                                                        *)
(***************************************************************************)
DeviceDescriptor ==
  USB_Descriptor_Device_t(
    [USBSpecification |-> VERSION_BCD(110),
     Class |-> CDC_CSCP_CDCClass, SubClass |-> CDC_CSCP_NoSpecificSubclass,
     Protocol |-> CDC_CSCP_NoSpecificProtocol,
     Endpoint0Size |-> 8,
     VendorID |-> 1003, ProductID |-> 8260,  \* 0x03EB, 0x2044
     ReleaseNumber |-> VERSION_BCD(23),
     ManufacturerStrIndex |-> 1, ProductStrIndex |-> 2,
     SerialNumStrIndex |-> NO_DESCRIPTOR,
     NumberOfConfigurations |-> 1])

CDC_CCI_Interface ==
  USB_Descriptor_Interface_t(
    [InterfaceNumber |-> 0, AlternateSetting |-> 0, TotalEndpoints |-> 1,
     Class |-> CDC_CSCP_CDCClass, SubClass |-> CDC_CSCP_ACMSubclass,
     Protocol |-> CDC_CSCP_ATCommandProtocol, InterfaceStrIndex |-> NO_DESCRIPTOR])

CDC_Functional ==
  USB_CDC_Descriptor_FunctionalHeader_t(VERSION_BCD(110))
    \o USB_CDC_Descriptor_FunctionalACM_t(6)
    \o USB_CDC_Descriptor_FunctionalUnion_t(0, 1)

CDC_NotificationEndpoint ==
  USB_Descriptor_Endpoint_t(
    [EndpointAddress |-> CDC_NOTIFICATION_EPADDR,
     Attributes |-> EP_TYPE_INTERRUPT + ENDPOINT_ATTR_NO_SYNC + ENDPOINT_USAGE_DATA,
     EndpointSize |-> CDC_NOTIFICATION_EPSIZE, PollingIntervalMS |-> 255])

CDC_DCI_Interface ==
  USB_Descriptor_Interface_t(
    [InterfaceNumber |-> 1, AlternateSetting |-> 0, TotalEndpoints |-> 2,
     Class |-> CDC_CSCP_CDCDataClass, SubClass |-> CDC_CSCP_NoDataSubclass,
     Protocol |-> CDC_CSCP_NoDataProtocol, InterfaceStrIndex |-> NO_DESCRIPTOR])

BulkData == EP_TYPE_BULK + ENDPOINT_ATTR_NO_SYNC + ENDPOINT_USAGE_DATA

\* Mutated CDC_DataEndpoint: both bulk endpoints get the IN endpoint's address.
CDC_DataEndpointOneWay(address) ==
  USB_Descriptor_Endpoint_t(
    [EndpointAddress |-> CDC_TX_EPADDR, Attributes |-> BulkData,
     EndpointSize |-> CDC_TXRX_EPSIZE, PollingIntervalMS |-> 5])

CDC_DataEndpoint(address) ==
  USB_Descriptor_Endpoint_t(
    [EndpointAddress |-> address, Attributes |-> BulkData,
     EndpointSize |-> CDC_TXRX_EPSIZE, PollingIntervalMS |-> 5])

\* The members of ConfigurationDescriptor after the first, Config.
Interfaces ==
  CDC_CCI_Interface \o CDC_Functional \o CDC_NotificationEndpoint
    \o CDC_DCI_Interface
    \o CDC_DataEndpoint(CDC_RX_EPADDR) \o CDC_DataEndpoint(CDC_TX_EPADDR)

SizeOfConfigurationHeader == 9

ConfigurationDescriptor ==
  USB_Descriptor_Configuration_Header_t(
    [TotalConfigurationSize |-> SizeOfConfigurationHeader + Len(Interfaces),
     TotalInterfaces |-> 2, ConfigurationNumber |-> 1,
     ConfigurationStrIndex |-> NO_DESCRIPTOR,
     ConfigAttributes |-> USB_CONFIG_ATTR_RESERVED + USB_CONFIG_ATTR_SELFPOWERED,
     MaxPowerConsumption |-> USB_CONFIG_POWER_MA(100)]) \o Interfaces

LanguageString ==
  USB_Descriptor_Header_t(StringSize(1), DTYPE_String) \o Bytes16(LANGUAGE_ID_ENG)
ManufacturerString == USB_Descriptor_String_t(16, 100)
ProductString == USB_Descriptor_String_t(17, 200)

\* The bytes at DescriptorAddress, as many as the callback returns; none when
\* it returns NO_DESCRIPTOR.  The number of a configuration is not looked at.
CALLBACK_USB_GetDescriptor(wValue) ==
  LET DescriptorType == wValue \div 256
      DescriptorNumber == wValue % 256
  IN CASE DescriptorType = DTYPE_Device -> DeviceDescriptor
       [] DescriptorType = DTYPE_Configuration -> ConfigurationDescriptor
       [] DescriptorType = DTYPE_String /\ DescriptorNumber = 0 -> LanguageString
       [] DescriptorType = DTYPE_String /\ DescriptorNumber = 1 -> ManufacturerString
       [] DescriptorType = DTYPE_String /\ DescriptorNumber = 2 -> ProductString
       [] OTHER -> <<>>
=============================================================================
