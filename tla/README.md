# usbrng: a TLA+ development of the firmware's USB stack

usbrng is an ATmega16U2 board that hands random bytes to a host over USB CDC
(a virtual serial port).  Its program is one main loop (`src/firmware/main.c`)
over a stripped-down LUFA device library (`src/firmware/srsly/`).  The
difficult part is the library: two interrupts that share registers, globals
and *one selected endpoint* with each other and with the main program, one of
them nesting on top of itself, and a host that may suspend, reset or abandon
anything at any time.

Build facts the models rely on: `atmega16u2` (USB series 2: no VBUS sensing, no
OTG pad), USB device only, full speed, `INTERRUPT_CONTROL_ENDPOINT`,
`FIXED_NUM_CONFIGURATIONS = 1`, a control endpoint of eight bytes,
`USE_FLASH_DESCRIPTORS`, automatic PLL with the regulator enabled,
`NO_INTERNAL_SERIAL`, and `NO_LIMITED_CONTROLLER_CONNECT` not defined
(`LUFAConfig.h` and the build file).  The last one is why a suspend stores
`DEVICE_STATE_Unattached` in this build.

## 1. Inventory

| Component | Source (under `src/firmware/`) | State | What is hard | What makes it correct | Modelled in |
|---|---|---|---|---|---|
| Controller and general interrupt | `srsly/USBController.c/.h`, `USBInterrupt.c/.h` | USBCON, UDCON, UDIEN, UDINT, PLLCSR, REGCR | enables swapped in three places; read-modify-writes the interrupt runs in the middle of | the device can be woken, sees the next suspend, is really off when disabled | UsbController, UsbDevice, UsbInterface |
| Control interrupt and device task | `srsly/USBInterrupt.c`, `USBTask.c` | RXSTPE, UENUM, the CPU stack | re-enables interrupts and nests, also on itself; main polls for the same packet | selections restored, SETUP interrupt never left off | UsbDevice |
| Standard requests | `srsly/DeviceStandardReq.c` | `USB_ControlRequest`, configuration number, features | one global request; waits inside an ISR; one with interrupts off | the host's values are stored; every SETUP is answered | UsbDevice, ControlTransfer |
| Control transfers | `srsly/Endpoint.c`, `Template_Endpoint_Control_W.c`, `_R.c` | RXSTPI, RXOUTI, TXINI, STALLRQ, the bank | host abort, early status stage, suspend in every loop | exact answer, cut and ended as asked; nothing left over | ControlTransfer, UsbDevice |
| Device state | `srsly/Device.c/.h` | `USB_DeviceState`, UDADDR | stored by ISR and handlers; remote wake-up waits for hardware the ISR switches | agrees with configuration, address, clock | UsbDevice, UsbInterface |
| Endpoint configuration | `srsly/Endpoint.c/.h` | packet memory, UECONX, UECFGxX | one call reallocates all endpoints above, a bus reset calls it again on top | no overlap, every endpoint as asked for | EndpointConfig |
| Data streams | `srsly/Template_Endpoint_RW.c`, `Endpoint.c` | FIFO, `BytesProcessed` | partial transfer, time-out, halt, disconnect | every byte once and in order | CdcDevice, ByteChannel |
| CDC class driver | `srsly/CDCClassDevice.c` | line encoding, line state | bank and state change between any two accesses | a transfer ends with a short packet, bytes leave, a notification is whole | CdcDevice, ControlTransfer |
| Main program | `main.c` | - | shares UENUM with the ISRs | bytes reach the host | UsbDevice, CdcDevice |
| Descriptors | `srsly/Descriptors.c/.h`, `StdDescriptors.h`, `CDCClassCommon.h` | constant tables | two namings of each structure, sizes and numbers written twice | bytes, lengths and endpoints agree | Descriptors |
| Configuration parser | `srsly/ConfigDescriptors.c/.h` | position and remaining size | sizes from outside | stays inside, finds, ends | ConfigDescriptors |
| Byte and bit helpers | `srsly/Endianness.h`, `Common.h`, `Endpoint.h` | - | function and macro forms | they agree; involutions | Endianness |
| Events | `srsly/Events.c` | - | weak stubs; time only | - | UsbDevice, ControlTransfer |
| Host-mode leftovers | `srsly/Pipe*.h` and others | - | declarations without definitions | - | no |
| Compiler and board headers, hardware | `srsly/*.h`, `src/hardware/` | - | no state | - | no |

**Interactions.** Main calls `USB_Init` and then, in each pass of its loop,
`readBitsAndWhiten`, `sendData` (`CDC_Device_SendString`, `CDC_Device_Flush`),
`CDC_Device_USBTask` and `USB_USBTask`.  `USB_GEN_vect` stores
`USB_DeviceState` and the configuration number and, on a bus reset, configures
endpoint 0 and enables its SETUP interrupt.  `USB_COM_vect` turns that interrupt
off, re-enables interrupts globally, and calls
`USB_Device_ProcessControlRequest`, which waits for the host in loops.
`USB_GEN_vect` may run in any of those waits.  All of them share `UENUM`, the
register that says which endpoint the `UE...` registers mean.  The library calls
back through weak `EVENT_...` aliases of an empty stub; `main.c` defines only
CDC events, and leaves them empty.

A consequence: nothing routes the class requests to the CDC driver.
`State.LineEncoding.BaudRateBPS` stays zero and each CDC function returns before
it selects an endpoint (run `silent`).  The models of the driver therefore also
have the driver linked as `CDCClassDevice.h:71-86` prescribes
(`EventsLinked = TRUE`), and UsbDevice lets the application select the endpoint
the driver would: more behaviours, not fewer.

## 2. Modules

    Endianness ------ Descriptors ------ ControlTransfer    control transfers by the byte
    words, bytes      structures, table \
                                         ConfigDescriptors  the parser over that table

    UsbController --- UsbDevice          contexts, interrupts, requests, the bus
    register records \
                       UsbInterface      on, off, reset, attach, remote wake-up

    ByteChannel <---- CdcDevice          driver and data endpoints (refinement)

    EndpointConfig                       the packet memory

`MC...` modules give constants a .cfg cannot write; `..._proofs` modules hold
the theorems of the module they are named after.  `Descriptors_proofs` has those
of Endianness too, and `ConfigDescriptors_proofs` builds on it.

The models overlap on purpose at their borders and each says what it takes from
its neighbours.  UsbDevice has the interleaving of contexts and counts packets;
ControlTransfer has one context and the bytes.  UsbDevice takes `USB_Init` as
one step, as `main.c` calls it before `sei()`; UsbInterface has it by the
register access, with the interrupt in between.  CdcDevice takes each interrupt
as one step, since no driver code runs during one, and keeps what it leaves
behind: emptied banks, the control endpoint selected, another device state.
EndpointConfig is the inside of the one step by which the others configure an
endpoint.

### UsbController

Two records are the storage: `usb` for the device (globals and device
registers) and `ep` for the control endpoint and UENUM.  An operator maps a
record to the record after the code ran.  `SuspendPart`, `WakePart` and
`ResetPart` are the three `if`s of `ISR(USB_GEN_vect)`; the ISR is their
composition, so an interrupt source that one part enables is served by a later
one in the same run, as in the code.  `LineActivity`, `IdleDetected`,
`BusResetSeen` and `EndpointReset` are the controller itself, marked external.

### UsbDevice

`frame[0]` is the main program and `frame[1..depth]` are the activations of
`ISR(USB_COM_vect)`; only `frame[depth]` moves.  A frame has a program
counter, the handler it runs, the endpoint number it saved, and one local (the
address of SetAddress, or the packets GetDescriptor has left).

| Action | Code |
|---|---|
| `Setup` | `setup()`: `cli`, `USB_Init`, `sei` |
| `AppCheckConfigured`, `AppSelectEndpoint` | the guard of a CDC function, then its `Endpoint_SelectEndpoint`: two steps, an interrupt may come between |
| `DeviceTask`, `PollSetup`, `RestoreEndpoint` | `USB_DeviceTask` |
| `UsbGenISR` | `ISR(USB_GEN_vect)`, one step: interrupts stay off in it |
| `UsbComISR`, `RearmSetup`, `ReturnFromISR` | `ISR(USB_COM_vect)` before and after the request |
| `ReadRequest`, `Dispatch`, `StallUnhandled` | `USB_Device_ProcessControlRequest`: the read of the eight bytes, the switch, the final test |
| `ClearSETUP` | `Endpoint_ClearSETUP` in the handler, with what it copied before |
| `StoreConfiguration`, `ReplyConfiguration` | the middle of SetConfiguration, GetConfiguration |
| `StreamPacket`, `StreamAborted`, `StreamDone`, `StreamDrain` | the two loops of `Endpoint_Write_Control_PStream_LE` and their exits |
| `ClearStatusStage`, `StatusIN`, `StatusOUT` | `Endpoint_ClearStatusStage`; the direction is read from the global request when it is called |
| `AdoptAddress`, `AdoptConfiguration`, `FinishDescriptor` | what each handler does after the status stage |
| `BusIdle` ... `BusReset`, `Host...` | the bus and a host that begins, continues, abandons transfers |

A handler is split wherever an interrupt between two steps can be told apart,
and at each turn of a wait loop; a wait loop that may not leave yet is a
disabled action.

**Interrupts and `slack`.** A pending interrupt is served before the next step
of the code, with two exceptions the processor has: the step under way when
the flag rises completes, and one instruction runs after interrupts are enabled
again (`sei`, `reti`).  `slack` allows exactly one such step.

**PromptCode.** The code between two waits takes microseconds; a suspend, a
bus reset or a host that gives up takes milliseconds.  With `PromptCode` the
bus and host actions that begin something new require `Quiet`: no interrupt is
about to be served and the code waits for the host or is in the main loop.
Without it every delay is possible, as when event handlers take their time.
Which property needs which is part of what the runs show:

* `TypeOK`, `WakeArmed`, `SetupArmed`, `ControlEndpointSelected`,
  `SelectionKept` need no timing at all.
* `RequestStable`, `SuspendedIsUnattached` and `ConfigurationFromHost` hold
  because the code is fast, and only then.  For instance, with a slow step
  between the status stage of SetConfiguration and its last assignment, a
  suspend served in between is overwritten by `Configured`.
  `ConfigurationFromHost` is about the number in every context, and about the
  host that is told its SET CONFIGURATION succeeded; it says nothing about the
  address, for which `staleaddress` has the counterexample.

### UsbInterface

The device-wide registers are the sets of their bits that are 1.  A call of the
main program is the sequence `todo` of the statements it executes in this
build, each with its own action; `register |= bit` and `register &= ~bit` are a
`ReadRegister` that keeps the value in `copy` and a `WriteBack` that may
overwrite what an interrupt changed meanwhile.

| Action | Code |
|---|---|
| `CallInit`, `CallReset`, `CallDisable` | `USB_Init`, `USB_ResetInterface`, `USB_Disable` (`USBController.c`) |
| `CallRemoteWakeup`, `CallSOFEvents` | `USB_Device_SendRemoteWakeup` (`Device.c`), `USB_Device_Enable/DisableSOFEvents` (`Device.h`) |
| `PutRegister`, `ReadRegister`, `WriteBack`, `Await`, `ResetGlobals`, `ConfigureEndpoint0`, `MarkInitialized` | one statement, by its kind |
| `UsbGenISR` | `ISR(USB_GEN_vect)` with its SOF part: the parts of UsbController composed |
| `SetAddress`, `SetConfiguration`, `SetRemoteWakeup` | what the requests make of the globals; their handling is UsbDevice's |
| `HostActs` ... `RemoteWakeupSent` | bus, PLL and controller (external) |

External facts it uses: disabling USBE resets UDCON, UDIEN, UDINT, UDADDR and
the endpoints; one instruction runs after an interrupt returns; a flag of UDINT
is cleared by writing 0.  `PatientBus` says that the bus does nothing in the few
microseconds in which an interrupt falls between the read and the write of one
statement.

### ControlTransfer

`ctl` is the control endpoint (its IN and OUT bank, the SETUP and STALL flags),
`pc` and `job` the code and the locals of a stream function, `settings` what
requests change, `may` the settings the device may have as far as the host can
tell from what it saw acknowledged.

| Action | Code |
|---|---|
| `ReadRequest` | the read of the eight bytes, `USB_Device_ProcessControlRequest` |
| `ClassRequest`, `ReplyLineEncoding`, `TakeLineEncoding`, `LineEncodingAbandoned` | `CDC_Device_ProcessControlRequest` |
| `VendorRequest`, `Settle` | two requests of an application, as users of `Endpoint_Write/Read_Control_Stream_BE` |
| `EventIgnored`, `NoStandardRequest`, `StallUnhandled` | the switch and the final test |
| `StreamPacket`, `WriteAborted`, `StreamEnds`, `Drain`, `FinishWrite` | `Template_Endpoint_Control_W.c` and its caller |
| `FetchPacket`, `ReadAborted`, `FetchEnds`, `Settle` | `Template_Endpoint_Control_R.c` |
| `StatusIN`, `StatusOUT`, `Finish` | `Endpoint_ClearStatusStage` and what follows |
| `GetDescriptor`, `GetStatus`, `ClearSetFeature` | the handlers of those names |
| `Host...` | a host that cuts data into packets, begins the status stage early, gives up, suspends |

The vendor requests stand for an application's use of the control streams: no
caller in the repository reads one.  SET ADDRESS, SET and GET CONFIGURATION and
the bus reset are in UsbDevice.

### Descriptors, Endianness

Pure operators.  Each descriptor structure is an operator from its fields to its
bytes, once in the library's naming (`USB_Descriptor_...`) and once in the
standard's (`USB_StdDescriptor_...`).  `VERSION_BCD` is modelled as it is
computed, in single precision.  Text is abstracted to numbered characters;
the length byte of a string is a `uint8_t`, so `StringSize` wraps above 126 of them.
Swaps and conversions are modelled both as functions and as macros; a bank is
the sequence of bytes in it and words are read from and written to it in either
order.

### ConfigDescriptors

The caller's two variables, `CurrConfigLoc` and `BytesRem`, and the four
searches over `USB_GetNextDescriptor`, one descriptor per step (`PassBy`,
`Find`, `ReachBefore`, `ComparatorFails`, `NothingRemains`).  `DESCRIPTOR_TYPE`
behind the end of the buffer is any byte of `Beyond`.  The firmware does not
call the parser; the model starts searches in any order.

### CdcDevice and ByteChannel

The main program is in one `call` of the driver at a time; its steps are the
accesses to the endpoint, and the host, frames, suspends, resets, requests and
halts act between any two.  A byte is its position in what the program sends,
so that loss, repetition and reordering show in the numbers.

| Action | Code |
|---|---|
| `CDC_Device_SendData`, `CDC_Device_SendByte`, `CDC_Device_Flush`, `CDC_Device_SendControlLineStateChange`, `Receive`, `ReadStream`, `Endpoint_Write_Stream` | the guard of each function, then its steps |
| `Endpoint_SelectEndpoint`, `WaitPoll`, `WaitCheck` | `Endpoint_WaitUntilReady`: test the endpoint, then device, stall and frame number |
| `WriteStreamTurn`, `NullStreamTurn`, `ReadStreamTurn`, `DiscardStreamTurn` | one turn of the loop of `Template_Endpoint_RW.c`, and the null and discard streams of `EndpointStream.c` |
| `SendByte...`, `Flush...`, `NotificationClear`, `Received`, `BytesReceivedCount`, `ReceiveByte...`, `getchar_...`, `CDC_Device_USBTask` | the rest of `CDCClassDevice.c` |
| `HostTakes` ... `HostClearsHalt` | the host and the interrupts it causes |

After a bus reset the control endpoint is selected under the driver's feet.  Its
flags then read as anything, and `control` says whether its bank was written or
sent since a reset, a SETUP or a request last freed it.  `dropped` says that a
reset or SET CONFIGURATION emptied the OUT bank of bytes, `disturbed` that a call
failed or was interrupted by one of the two, or that an IN bank was emptied.

`ByteChannel` is what the sending half promises: a bounded channel that
delivers in order, each byte at most once, and all of them as long as it is
`intact`.  `ImplementsChannel` is the refinement, with `Written` (the position
the program has reached in its data) for `sent`, the data IN bank for `pipe`,
and "nothing failed or was emptied" for `intact`.

### EndpointConfig

`Endpoint_ConfigureEndpoint_Prv` by the register group, one activation for main
and one for the bus reset on top of it (`SelectNext`, `LoadRegisters`,
`FreeMemory`, `WriteConfig`, `EnableInterrupts`, `ConfigFails`, `Return`),
driven by `Endpoint_ConfigureEndpointTable` and `Endpoint_ClearEndpoints`.  The
placement of banks (`FirstFree`, `Slid`) is the controller's and external.

## 3. Runs

| Run | Module | Properties | Shows | Distinct states |
|---|---|---|---|---|
| `prompt` | MCUsbDevice | `TypeOK` `WakeArmed` `ControlEndpointSelected` `SetupArmed` `SelectionKept` `RequestStable` `SuspendedIsUnattached` `ConfigurationFromHost` | all requests, an aborting host, two nested activations: registers, selections and globals stay consistent | 3.4 million |
| `live` | MCUsbDevice | `WakeServed` `SetupServed` | resume signalling wakes the device; each SETUP is taken, with nesting | 166,000 |
| `suspend` | MCUsbDevice | `SuspendServed` | without SetAddress, a suspend reaches the application from whatever was under way | 253,000 |
| `control` | MCControlTransfer | `TypeOK` `DataStageRight` `SettingsAgreed` `NoLeftOver` `TransfersEnd` | the host gets exactly the answer, cut and ended as it should be; acknowledged settings are kept; each transfer ends | 852,000 |
| `cdcsend` | CdcDevice | `TypeOK` `InOrder` `NothingMissing` `ImplementsChannel` `WaitsEnd` `NothingStuck` `FlushEndsTransfer` `TimeoutNotEarly` `ControlEndpointUntouched` | the sending half implements the channel; waits end, bytes leave, and only a call that a reset interrupted writes to endpoint 0 | 335,000 |
| `cdcreceive` | CdcDevice | `ReceivedInOrder` `NotificationWhole` `PromiseKept` | no byte given twice or late, whatever fails, and none lost unless a bank was emptied; while nothing failed a notification is whole and `BytesReceived` keeps its word | 2.8 million |
| `epconfig` | MCEndpointConfig | `TypeOK` `MemorySeparate` `ConfigurationKept` | grown, shrunk, refused, cleared, reset between calls: banks never overlap and every endpoint is as asked for (a reset in the middle of a call is followed too; its damage, until the endpoints are cleared, is in section 4) | 109,000 |
| `walk` | MCConfigDescriptors | `TypeOK` `InBuffer` `SearchRight` `EndpointsMatchDriver` `SearchEnds` | every search, over this device's descriptor and all malformed ones within the bounds | 448,000 |
| `lifecycle` | UsbInterface | `TypeOK` `OffMeansOff` `ClockManaged` `CallsReturn` | on, off, reset, attach, SOF and remote wake-up as interrupted read-modify-writes | 18,000 |
| `configured` | MCUsbDevice | `ConfiguredHasConfiguration`, violated | an addressed device woken from a suspend is `Configured` with configuration 0 | |
| `staleaddress` | MCUsbDevice | `DefaultAnswersHost`, violated | a bus reset during SetAddress: the old address is adopted after it | |
| `silent` | CdcDevice | `LineAgreed`, violated | the image as linked never learns the line encoding, and never sends | |

The three violated ones are disagreements between the program and its own
documentation; PROJECT.json quotes the lines under "findings".

**Bounds.**
*UsbDevice.* `MaxDepth` bounds nested activations: 2 is the least that puts one
activation on top of another, which is what every nesting hazard needs; depths
beyond add frames below that only wait, and the proofs hold for any depth.
Liveness of a SETUP says nothing at the bound (`SetupServed` excepts it).
`DataEndpoints = {3}`: one endpoint other than 0 distinguishes "restored" from
"not restored".  Requests: both kinds of address (zero, nonzero), a
configuration number in range, zero and out of range, a descriptor of two
packets, and one that does not exist; the refused ones take the path of an
unknown request in both directions.
*ControlTransfer.* The requests of MCControlTransfer: answers shorter and longer
than asked for, an answer that fills its last packet and must be followed by an
empty one (a stored value of 8 bytes, when 64 are asked for), each setting with two values, wrong
recipients and selectors.  `MaxFailures = 1`: the transfer after an abandoned
one is the one that could be harmed, and it runs to its end.
*CdcDevice.* Banks of two bytes: data of two bytes fills one that is empty, and
overfills one in which `SendByte` left a byte; `MaxBytes` 4 lets calls follow one
another in a bank that is not empty; `USB_STREAM_TIMEOUT_MS` is 1 when sending (0 when receiving, where
only `SendByte` and the notification wait); a notification of three bytes takes
two packets of two, so that its end is a short packet, as the real one of ten in
a bank of eight does.
*EndpointConfig.* The five endpoints and 176 bytes of memory of the part.  After
a bus reset has torn a call, the call and its table go on to the end and then
only `Endpoint_ClearEndpoints` follows: what the controller makes of further
calls on a memory in that state is not known.
*ConfigDescriptors.* All buffers of up to five bytes (`MaxBytes`) with values up
to 3 (`MaxByte`), which include sizes of zero, one, too large, and every type
sought, and the 62 bytes of the real descriptor.
*UsbInterface.* No counters; the state space is finite as it is.

Deadlock is checked in all runs.

**Fairness.** UsbDevice: the processor never stops (`WF` on all code), the
idle-bus detector does its work, a host that started a transfer takes its
packets, sends its status packet, notices a stall and ends its recovery time,
and resume signalling ends.  Nothing obliges a host to suspend, resume, reset or
begin a request, and the application never has to select an endpoint.
ControlTransfer: `WF` on the code and on the host's continuation of a transfer.
CdcDevice: `WF` on the code; `SF` on `CDC_Device_Flush`, which `main.c` calls in
every pass of its loop, so that it is tried again and again whatever other calls
come between; `WF` on the host taking a packet and on frames, which a
controller sends once a millisecond while the bus is active.  UsbInterface: `SF`
on the main program's statements, because interrupts take microseconds and what
raises them milliseconds; `WF` on the interrupt, the PLL's lock and the end of a
remote wake-up signal.  ConfigDescriptors: a function that was called runs.

**What the liveness properties leave out.** `live` has a host that does not
abandon transfers, `suspend` has no SetAddress, `TransfersEnd` excepts a transfer
the firmware is `Deaf` to: section 4 has the runs that show why.  `WaitsEnd`
assumes that the bus is not suspended and woken for ever: a bus that never stays
active until the next frame starts gives the wait neither a frame nor, at the
moment it looks, a disconnect.
`SearchEnds` excepts a descriptor of size zero, `NothingStuck` a halted endpoint
and an unconfigured device.

## 4. Supplementary configurations

These are kept beside the runs of section 3; `tlc -config <file> <module>`
repeats them.

| Configuration | Property | Result | Shows |
|---|---|---|---|
| `MCUsbDevice_anytiming` | `Inv` `ControlEndpointSelected` `SelectionKept` | holds | any delay between any two steps: the inductive invariant (3.6 million states) |
| `MCUsbDevice_polling` | `ManagedByInterrupt` | violated | `USBTask.h:103-104` says the control endpoint is managed by interrupts entirely; `USB_DeviceTask` (`USBTask.c:47`) still processes a SETUP whose flag rose while it tested RXSTPI |
| `MCUsbDevice_stalled` | `StallOnlyUnhandled` | violated | `Events.h:182-185` says that unknown requests are stalled; a valid one that ends an abandoned descriptor read is stalled unread by the final test (`DeviceStandardReq.c:106`) |
| `MCUsbDevice_nosuspend` | `SuspendServed` | violated | SetAddress waits for its status packet with interrupts off (`DeviceStandardReq.c:123`); a host that suspends, or a plug that is pulled, leaves the device in that loop |
| `MCUsbDevice_abandoned` | `SetupServed` | violated | the last loop of the control stream (`Template_Endpoint_Control_W.c:69`) does not look for a SETUP: the request after an abandoned one waits for a suspend |
| `MCUsbDevice_starved` | `MainRuns` | violated | a bus reset cancels the transfer whose status packet `Endpoint_ClearStatusStage` (`Endpoint.c:121`) waits for; that context never ends and the main loop below it never runs again, where `USBTask.h:88-93` asks for 30 ms |
| `MCEndpointConfig_deafened` | `ResetLeavesListening` | violated | a bus reset in the middle of `Endpoint_ConfigureEndpoint_Prv` leaves endpoint 0 selected; the interrupted call goes on and writes its data endpoint's configuration over it, and nobody listens for a SETUP (`Device.h:71-73` says that the device waits for enumeration) |
| `MCControlTransfer_release` | `ReleaseNumberRight` | violated | `VERSION_BCD(00.23)` truncates a float: the device reports release 0.22 |
| `MCConfigDescriptors_pastend` | `FoundIsThere` | violated | a search that reaches the end of the buffer reads the type byte behind it, and may report that as found |
| `CdcDevice_headless` | `NotificationHeaded` | violated | `CDC_Device_SendControlLineStateChange` ignores what its two streams return (`CDCClassDevice.c:265`): when the stream of the header gives up, the state is written all the same, and leaves without the rest of its header |
| `UsbInterface_forbidden` | `WakeupPermitted` | violated | a bus reset revokes remote wake-up, `USB_Device_RemoteWakeupEnabled` stays set |
| `UsbInterface_hasty` | `ClockManaged` | violated | if a bus event does fall between the read and the write of UDIEN, the interrupt's swap of enables is lost and a stopped clock stays stopped |

`UsbInterface` also shows without a property of its own that an unanswered
remote wake-up leaves the clock running with the suspend interrupt disabled,
until the bus is active again; `ClockManaged` allows it.

## 5. Proofs

Every safety invariant and every action property of the runs that pass is a
theorem as well, for all values of the constants.

| Module | Theorem | Statement |
|---|---|---|
| `UsbDevice_proofs` | `Invariant` | `Spec => []Inv` |
| | `TypeCorrect` `AlwaysWakeArmed` `AlwaysSetupArmed` `AlwaysControlEndpointSelected` `AlwaysSelectionKept` | the invariants of these names, with any timing |
| | `TimedInvariant` | under `PromptCode`, `Spec => [](Inv /\ TimedInv)` |
| | `AnswerInvariant` | under `PromptCode`, what a host that was told "done" may rely on: `Spec => []AnswerInv` |
| | `AlwaysRequestStable` `AlwaysSuspendedIsUnattached` `AlwaysConfigurationFromHost` | under `PromptCode`, the properties of these names |
| `UsbInterface_proofs` | `TypeCorrect` `AlwaysOffMeansOff` | the invariants of these names |
| | `AlwaysClockManaged` | under `PatientBus`, `Spec => []ClockManaged` |
| `ControlTransfer_proofs` | `TransferInvariant` | the invariant of code, host and the banks between them |
| | `TypeCorrect` `AlwaysDataStageRight` `AlwaysSettingsAgreed` `AlwaysNoLeftOver` | the invariants of these names |
| `CdcDevice_proofs` | `InductiveInvariant` | the invariant of the sending half |
| | `DriverImplementsChannel` | `Spec => ImplementsChannel`, the refinement |
| | `AlwaysInOrder` `AlwaysNothingMissing` | the invariants of these names, through the refinement |
| | `TimeoutsAreWhole` `FlushCompletes` | the action properties `TimeoutNotEarly` and `FlushEndsTransfer` |
| | `ReceivingInvariant` | the invariant of the receiving half |
| | `AlwaysControlEndpointUntouched` | the invariant of that name |
| | `AlwaysReceivedInOrder` `PromisesAreKept` | `ReceivedInOrder`; the action property `PromiseKept` |
| | `AlwaysNotificationWhole` `TypeCorrect` | `NotificationWhole`, `TypeOK` |
| | `WaitCodesAreStreamCodes` | a failed wait's code means the same as a stream's |
| `ByteChannel_proofs` | `ChannelSafe` | the channel is `Ordered` and, while intact, `Complete` |
| `EndpointConfig_proofs` | `InductiveInvariant` `TypeCorrect` `AlwaysMemorySeparate` `AlwaysConfigurationKept` | |
| `ConfigDescriptors_proofs` | `InductiveInvariant` `TypeCorrect` `AlwaysInBuffer` | |
| | `SearchInvariant` `AlwaysSearchRight` | every search, in every buffer, finds the first that it should |
| | `AlwaysEndpointsMatch` | the walk along the device's own descriptor |
| `Descriptors_proofs` | `Swap16Agrees` `Swap32Agrees` `SwapUndoesItself` `SwapBytesUndoesItself` `BankKeepsWords` `OtherOrderSwaps` `ConversionsUndoEachOther` `BitsReversed` | for every word and buffer |
| | `DeviceNamings` `ConfigurationNamings` `EndpointNamings` `StringNamings` | both namings of a structure lay out the same bytes; a string's first byte is its length exactly up to 126 characters |
| | `ConfigurationLayout` | the 62 bytes of the configuration descriptor: length, headers, endpoints |

*Assumptions* are the named ASSUMEs of the modules and the two timing
hypotheses above.

* UsbDevice: known operations and byte values in requests; a depth of at least
  one, since the interrupt exists.
* UsbInterface: none besides the hypothesis.
* ControlTransfer: the host asks for what it wants and sends what it announces
  (`LengthsAssumption`), sends and asks for line encodings whole
  (`LineEncodingAssumption`), and sends requests as the USB and CDC
  specifications define them (`WellFormedAssumption`).  The firmware takes these
  for granted: it answers GET STATUS with two bytes whatever `wLength` is, and
  looks at the low byte of a feature selector only.  `VersionsAssumption`, that
  the version macro gives 16 bits, is a computation on two constants, which TLC
  does and which its recursion keeps from the prover.
* CdcDevice: positive bank sizes and any time-out; `NotificationAssumption`, that
  a notification does not end with a full packet, as ten bytes in banks of eight
  do not.  In other sizes `NotificationWhole` would be false: nothing ends such a
  notification for the host.
* EndpointConfig: one to sixteen endpoints, any memory size, any tables of valid
  entries.  ConfigDescriptors: any buffers of bytes.

`PromptCode` and `PatientBus` are hypotheses of single theorems and not of the
modules.  Section 2 says what they mean and gives a behaviour that breaks a
property without the first; `UsbInterface_hasty` is one without the second.

*UsbDevice, any timing.* The selection properties speak of the running context,
which is not inductive: when an activation returns, the property must hold of the
one below.  `Inv` says it of the whole stack.  `EndpointFor(k)` is the endpoint
level `k` will find when it runs again (UENUM for the top, the next level's saved
number otherwise); `ControlEndpointRestored` says that it is endpoint 0 at each
level that is inside a request, and `SelectionRestored` that the application's
endpoint is on its way back through the saved numbers.  `StackShape` keeps
main's code at the bottom and interrupt code above it, and bounds each frame's
local; `QuietBeforeAttach` covers the time before `setup()`.  There is one
preservation lemma per conjunct.  The 16 handler actions are summed up once by
what they do to frames (`HandlerFrameStep`) and to storage
(`HandlerStorageStep`), the bus and host by `OutsideStep`, so a conjunct that
cannot be disturbed is settled in one line.

*UsbDevice, prompt code.* `TimedInv` says for which context the host waits: the
topmost.  A SETUP not yet read is the last thing that happened on the bus
(`SetupFresh`), and a handler between two waits works on the request the host
sent last (`HandlerCurrent`).  A level that another SETUP interrupted was waiting
for a host that has given up; `InterruptedWhereItWaits` has the places, and at none
of them does it still store an address or a configuration.  Interrupts are off
exactly while SetAddress waits (`MaskedBySetAddress`), so only there can a suspend
and a reset be pending together (`OneBusEvent`).  The main loop never finds a
SETUP, because the interrupt was faster (`MainFindsNothing`).
`AnswerInv` adds what `ConfigurationFromHost` needs.  A packet in the IN bank
answers the SETUP before it and no later one (`SetupEmptiesBank`).  A reset that is
pending is served before the host has recovered, so it cannot clear a number that
was stored for a request of afterwards (`ResetServedFirst`).  And once a SET
CONFIGURATION is neither pending nor stalled, its number is stored, or about to be
before the status packet is (`NumberStored`).

*UsbInterface.* A call is the sequence of statements it has still to execute, so
that the invariant is one claim for each number of statements done:
`StoppedAfter(n)` (what `USB_Disable` has switched off for good),
`StartedAfter(n)` (`USB_Init` and `USB_ResetInterface`), `WakingAfter(n)` (remote
wake-up).  An interrupt between the read and the write of `UDIEN |= bit` makes the
write restore old enables; `Switching` follows the value read through that.
`Managed` is what the interrupt maintains between calls: whatever is flagged, an
enable is set that will start a stopped clock.  The interrupt's three parts are
computed once, as what they make of each register (`SuspendServed`,
`WakeServed`, ...).

*ControlTransfer.* `Served` ties the place of the code to the phase of the host:
for each phase there are a few places, and the request the code works on is the
one the host sent.  `Asked` and `Waiting` are its two exceptions made harmless: a
SETUP that is pending or was refused belongs to a transfer in which nothing else
has happened, and a packet the host has sent has a reader.  The bytes then are
one sequence cut in three: what the host has, what is in the bank, what is left
of the stream make the answer (`Sent`); what the stream has, what is in the bank,
what the host has not sent make its data (`Fetched`).  `Settled` follows the
settings: those the host has to expect are those of the device and what the
request under way makes of them, and a request once acknowledged makes no
difference when it is carried out again.

*CdcDevice, sending.* `IInv` is what a call under way may rely on: `CallShape`
says where each kind of call can be and ties its `from`, `len` and `left` to
`msg`; `Selected` that its endpoint is selected, unless a bus reset selected
endpoint 0 and the channel is disturbed; `Room` that `SendByte` finds room in the
bank when it writes.  With these every step is one of four (`Still`, `PutStep`,
`TakeStep`, `DisturbStep`), the stutter and the three actions of ByteChannel.
That is the refinement, and `InOrder` and `NothingMissing` follow from
`ChannelSafe` through it.
For the time-outs, `Frames` says that the frames seen and those still to be
counted down add up to at least `USB_STREAM_TIMEOUT_MS`.
`FlushInv` says when the host may be left waiting for more, behind a full packet:
only while a call goes on that will write or end it.  It does not always: a
stream that returned because the bank was full has handed over a full packet and
is to be resumed, and a Flush that timed out behind one does not try again.
`FlushEndsTransfer` names both exceptions.

*CdcDevice, receiving and notification.* A byte is a position, so `Numbered` says
that the bank has the last positions the host has sent and that the program was
given only earlier ones, all of them unless `dropped`: it needs no condition on
failed calls, because a stream that fails leaves the bank as it was.  `Promised` that what `BytesReceived` counted is still in
the bank, and forgotten when the bank is given back or another endpoint is
selected.  `NoteInv` follows a notification through its two streams: the host has
a whole number of packets of it and the bank the bytes that follow.
`ControlInv` follows endpoint 0: `Selected` leaves only calls that a reset
interrupted to write there, and whatever frees the bank is the host's.
`TypeCorrect` needs `Budget`: the data of a call ends within `MaxBytes`.

*EndpointConfig.* Memory is separate only between calls.  During one, the
endpoints below `Reached` are laid out in order, those above have only their
registers right (`RegistersInv`), and the one the call is at is `InTransit`.
`sound` is the endpoint below which the caller may rely on the result: a call
that fails lowers it to where it failed, and only one that begins at or below it
raises it again.  `CallsInv` keeps the two activations in their ranges also when
a bus reset is on top of a call; all else is claimed only while not `torn`.

*ConfigDescriptors.* `CurrConfigLoc + BytesRem = Len(buffer)` as long as anything
remains, and a descriptor is skipped by at most `BytesRem`.
What a search finds is stated with `Following`, the offsets a walk arrives at,
which is recursive over the buffer.  `Scanned` relates the start of a search to its
position without the way between them: the walk stands there, and no descriptor
of the types sought lies between.  The prover cannot do induction over the
buffer, and need not: the recursive definition is shown to have a solution (the
least set closed under a step), and is then unfolded one step at a time; that no
offset is left out between two positions is argued about the least one that would be.
`AlwaysEndpointsMatch` follows one walk along the 62 bytes that
`ConfigurationLayout` gives, from structure to structure.

*Model-checked only.* Liveness (`WakeServed`, `SetupServed`, `SuspendServed`,
`TransfersEnd`, `WaitsEnd`, `NothingStuck`, `SearchEnds`, `CallsReturn`) is
beyond the prover, as is ENABLED, on which fairness rests.  The configurations of
section 4 and the three violated properties are about single behaviours, and a
counterexample of TLC is all they need.

## 6. Not modelled, and why

* **Host mode** (`Pipe.h`, `PipeStream.h`, `USBMode.h` and the host half of the
  CDC headers): declarations only; their definitions are not in the repository
  and the build is device only.
* **Compiler and board headers, `LUFAConfig.h`**: macros without state, tokens
  that select the code that is modelled.
* **Hardware** (`src/hardware/`): schematics and board layout.
* The FILE glue (`CDC_Device_CreateStream`, `CDC_Device_putchar` and its
  relatives): forwards to functions that are modelled.
  `CDC_Device_getchar_Blocking` is modelled.
* `readBitsAndWhiten` and the LED pins: no USB state depends on them.
* The internal serial number: `NO_INTERNAL_SERIAL` compiles it out.
* `USB_Device_CurrentlySelfPowered`: nothing in the firmware sets it, though the
  configuration descriptor says self-powered; GET STATUS therefore answers that
  the device is not, in the model as in the code.
* Data toggles, CRC and retransmission are the controller's.
* An IN request with `wLength = 0`; SET and GET LINE ENCODING of other lengths
  than seven.
* `Endpoint_BytesToEPSizeMask` above 512 bytes: it wraps above 1024 and does not
  end above 32768; every size in the repository is at most 64.
* The read-modify-write of UDINT and UDIEN inside `ISR(USB_GEN_vect)` is one
  step: whether the controller can raise a flag there is not in the repository.
* `USB_Device_SetConfiguration` reads the number from `USB_ControlRequest`
  twice; the compiler may keep the first read.  `RequestStable` makes the two
  indistinguishable.
* A bus reset during SET FEATURE ENDPOINT_HALT: ControlTransfer has one context
  and no bus reset.
* In CdcDevice the states Powered, Default and Addressed are one: no driver code
  distinguishes them.

## 7. Plan

1. The receiving half of CdcDevice as a second ByteChannel, from the host to the
   program, with `ReceivingInvariant` as the invariant behind the refinement.
2. The configuration of an endpoint in UsbDevice and CdcDevice, one step there,
   as an abstraction of EndpointConfig, with the refinement proved.
3. The control endpoint of UsbDevice as an abstraction of ControlTransfer, which
   share the request handlers and differ in what they count: packets and bytes.
4. The device descriptor and the strings laid out as `ConfigurationLayout` does
   for the configuration descriptor.
