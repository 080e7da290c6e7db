-------------------------- MODULE UsbDevice_proofs --------------------------
(***************************************************************************)
(* Proofs about UsbDevice, for every set of endpoints and of requests, any *)
(* depth of nested interrupts and any host.  The first invariant, Inv,     *)
(* holds whatever the timing; on top of it, TimedInv is about code that is *)
(* faster than the bus (PromptCode), and the theorems that need it say so. *)
(***************************************************************************)
EXTENDS UsbDevice, TLAPS

\* One-line accessors of the interrupt enable bit and of the selected endpoint.
USE DEF GlobalInterruptEnable, GlobalInterruptDisable, SetGlobalInterruptMask,
        Endpoint_GetCurrentEndpoint

(***************************************************************************)
(* The constants, and the operators on the device record.                  *)
(***************************************************************************)

\* What the assumptions say of a request that has arrived or was read.
LEMMA ControlRequestsType ==
  ASSUME NEW r \in ControlRequests
  PROVE  /\ r \in [op : Operations \cup {Unsupported}, val : Bytes]
         /\ r.op = "SetAddress" => r.val \in Addresses
  BY RequestsAssumption DEF ControlRequests, NoRequest, Unsupported, Bytes

\* A number a handler copies or stores fits its variable.
LEMMA CopiesFit ==
  ASSUME NEW r \in ControlRequests, NEW op \in Operations
  PROVE  /\ WValue(r) \in Bytes
         /\ LocalCopy(op, r) \in Bytes
         /\ op = "SetAddress" => LocalCopy(op, r) \in Addresses
<1>1. r.val \in Bytes  BY ControlRequestsType
<1>2. WValue(r) \in Bytes  BY <1>1 DEF WValue, Bytes
<1>3. WValue(r) % 128 \in Addresses  BY <1>2 DEF Bytes, Addresses
<1> QED  BY <1>1, <1>2, <1>3 DEF LocalCopy, Bytes, Addresses

\* The register accessors of USBInterrupt.h map a device record to one.
LEMMA AccessorsType ==
  ASSUME NEW u \in UsbRecords, NEW i \in Interrupts
  PROVE  /\ Enable(u, i) \in UsbRecords
         /\ Disable(u, i) \in UsbRecords
         /\ Clear(u, i) \in UsbRecords
  BY DEF Enable, Disable, Clear, UsbRecords

\* So do the three parts of ISR(USB_GEN_vect).
LEMMA GenPartsType ==
  ASSUME NEW u \in UsbRecords
  PROVE  /\ SuspendPart(u) \in UsbRecords
         /\ WakePart(u) \in UsbRecords
         /\ ResetPart(u) \in UsbRecords
<1>0. {"SUSPI", "WAKEUPI", "EORSTI"} \subseteq Interrupts  BY DEF Interrupts
<1>1. /\ Enable(Disable(u, "SUSPI"), "WAKEUPI") \in UsbRecords
      /\ Enable(Disable(Clear(u, "WAKEUPI"), "WAKEUPI"), "SUSPI") \in UsbRecords
      /\ Enable(Disable(Clear(Clear(u, "EORSTI"), "SUSPI"), "SUSPI"), "WAKEUPI")
           \in UsbRecords
  BY <1>0, AccessorsType
<1>2. 0 \in Bytes /\ StateFromConfiguration(u) \in DeviceStates
  BY DEF Bytes, StateFromConfiguration, DeviceStates
<1>3. ASSUME NEW v \in UsbRecords
      PROVE  /\ [v EXCEPT !.frozen = TRUE, !.pll = FALSE,
                          !.state = "Unattached"] \in UsbRecords
             /\ [v EXCEPT !.pll = TRUE, !.frozen = FALSE,
                          !.state = StateFromConfiguration(u)] \in UsbRecords
             /\ [v EXCEPT !.state = "Default", !.cfg = 0] \in UsbRecords
  BY <1>2 DEF UsbRecords, DeviceStates
<1> QED  BY <1>1, <1>3 DEF SuspendPart, WakePart, ResetPart

\* And the two parts of USB_Init.
LEMMA InitPartsType ==
  ASSUME NEW u \in UsbRecords
  PROVE  ResetInterface(u) \in UsbRecords /\ InitDevice(u) \in UsbRecords
<1>1. 0 \in Bytes  BY DEF Bytes
<1>2. [u EXCEPT !.state = "Unattached", !.cfg = 0] \in UsbRecords
  BY <1>1 DEF UsbRecords, DeviceStates
<1>3. InitDevice(u) \in UsbRecords
  BY <1>2, AccessorsType DEF InitDevice, Interrupts
<1> QED  BY <1>3 DEF ResetInterface, UsbRecords, NoAddress

\* What the bus does to the device record keeps it one.
LEMMA BusPartsType ==
  ASSUME NEW u \in UsbRecords
  PROVE  /\ LineActivity(u) \in UsbRecords
         /\ IdleDetected(u) \in UsbRecords
         /\ BusResetSeen(u) \in UsbRecords
  BY DEF LineActivity, IdleDetected, BusResetSeen, UsbRecords, Interrupts,
         NoAddress

\* The control endpoint's records stay records.
LEMMA EndpointPartsType ==
  ASSUME NEW e \in EpRecords, NEW u \in UsbRecords
  PROVE  /\ ResetEndpointPart(u, e) \in EpRecords
         /\ EndpointReset(e) \in EpRecords
         /\ ConfigureControlEndpoint(e) \in EpRecords
  BY DEF ResetEndpointPart, ConfigureControlEndpoint, EpPowerOn, EndpointReset,
         EpRecords, Endpoints

(***************************************************************************)
(* A step of a request handler changes only the context it runs in.        *)
(***************************************************************************)
HandlerFrame ==
  /\ top.pc \in HandlerPCs
  /\ frame' \in [Levels -> Frames]
  /\ \A k \in Levels : k # depth => frame'[k] = frame[k]
  /\ FrameOK(frame'[depth]) /\ frame'[depth].prev = top.prev
  /\ \/ frame'[depth].pc \in HandlerPCs
     \/ frame'[depth].pc = IF depth = 0 THEN "restore" ELSE "exit"

\* No request handler of DeviceStandardReq.c touches a context below its own, and
\* it leaves its own only to return.
LEMMA HandlerFrameStep ==
  ASSUME TypeOK, StackShape, HandlerStep
  PROVE  HandlerFrame
<1> USE DEF HandlerFrame, FrameOK, top, At, Code, Goto, Frames, PCs, HandlerPCs,
            MainPCs, AppPCs, ExitPCs
<1>1. /\ frame \in [Levels -> Frames] /\ depth \in Levels /\ FrameOK(top)
      /\ req \in ControlRequests
  BY DEF TypeOK, StackShape
<1>0. 0 \in Bytes  BY DEF Bytes
<1>2. CASE ReadRequest  BY <1>1, <1>2 DEF ReadRequest
<1>3. CASE Dispatch
  <2>1. Handled(req) => req.op \in Operations  BY DEF Handled, Operations
  <2> QED  BY <1>1, <1>3, <2>1 DEF Dispatch
<1>4. CASE ClearSETUP
  <2>1. top.op \in Operations  BY <1>1, <1>4 DEF ClearSETUP
  <2>2. /\ LocalCopy(top.op, req) \in Bytes
        /\ top.op = "SetAddress" => LocalCopy(top.op, req) \in Addresses
    BY <1>1, <2>1, CopiesFit
  <2>3. /\ AfterClearSETUP(top.op) \in {"status", "number", "reply", "stream"}
        /\ AfterClearSETUP(top.op) = "stream" => top.op = "GetDescriptor"
    BY <2>1 DEF AfterClearSETUP, Operations
  <2> QED  BY <1>1, <1>4, <2>1, <2>2, <2>3 DEF ClearSETUP
<1>5. CASE StoreConfiguration  BY <1>1, <1>5 DEF StoreConfiguration
<1>6. CASE ReplyConfiguration  BY <1>1, <1>6 DEF ReplyConfiguration
<1>7. CASE StreamPacket  BY <1>1, <1>7 DEF StreamPacket, Bytes
<1>8. CASE StreamAborted  BY <1>1, <1>8 DEF StreamAborted
<1>9. CASE StreamDone  BY <1>1, <1>9 DEF StreamDone
<1>10. CASE StreamDrain  BY <1>1, <1>10 DEF StreamDrain
<1>11. CASE ClearStatusStage  BY <1>1, <1>11 DEF ClearStatusStage
<1>12. CASE StatusIN  BY <1>1, <1>12 DEF StatusIN, AfterStatus
<1>13. CASE StatusOUT  BY <1>1, <1>13 DEF StatusOUT, AfterStatus
<1>14. CASE AdoptAddress  BY <1>1, <1>14 DEF AdoptAddress
<1>15. CASE AdoptConfiguration  BY <1>1, <1>15 DEF AdoptConfiguration
<1>16. CASE FinishDescriptor  BY <1>1, <1>16 DEF FinishDescriptor
<1>17. CASE StallUnhandled  BY <1>0, <1>1, <1>17 DEF StallUnhandled
<1> QED
  BY <1>2, <1>3, <1>4, <1>5, <1>6, <1>7, <1>8, <1>9, <1>10, <1>11, <1>12, <1>13, <1>14, <1>15, <1>16, <1>17
     DEF HandlerStep

(***************************************************************************)
(* It leaves the stack's height, the interrupt enables, the clock and the  *)
(* selected endpoint alone.                                                *)
(***************************************************************************)
HandlerStorage ==
  /\ usb' \in UsbRecords /\ ep' \in EpRecords /\ req' \in ControlRequests
  /\ ie' \in BOOLEAN /\ slack' \in BOOLEAN
  /\ usb'.ien = usb.ien /\ usb'.int = usb.int
  /\ usb'.frozen = usb.frozen /\ usb'.pll = usb.pll
  /\ ep'.uenum = ep.uenum /\ ep'.rxstpe = ep.rxstpe
  /\ UNCHANGED <<depth, appVars, hostVars>>

\* No request handler enables or disables an interrupt source, stops the clock
\* or selects another endpoint.
LEMMA HandlerStorageStep ==
  ASSUME TypeOK, StackShape, HandlerStep
  PROVE  HandlerStorage
<1> USE DEF HandlerStorage, top, At, Code, EpRecords
<1>1. /\ usb \in UsbRecords /\ ep \in EpRecords /\ req \in ControlRequests
      /\ pkt \in ControlRequests /\ ie \in BOOLEAN /\ slack \in BOOLEAN
      /\ depth \in Levels /\ FrameOK(top)
  BY DEF TypeOK, StackShape
<1>2. CASE ReadRequest  BY <1>1, <1>2 DEF ReadRequest
<1>3. CASE Dispatch  BY <1>1, <1>3 DEF Dispatch
<1>4. CASE ClearSETUP  BY <1>1, <1>4 DEF ClearSETUP
<1>5. CASE StoreConfiguration
  <2>1. WValue(req) \in Bytes  BY <1>1, CopiesFit DEF Operations
  <2> QED  BY <1>1, <1>5, <2>1 DEF StoreConfiguration, UsbRecords
<1>6. CASE ReplyConfiguration  BY <1>1, <1>6 DEF ReplyConfiguration
<1>7. CASE StreamPacket  BY <1>1, <1>7 DEF StreamPacket
<1>8. CASE StreamAborted  BY <1>1, <1>8 DEF StreamAborted
<1>9. CASE StreamDone  BY <1>1, <1>9 DEF StreamDone
<1>10. CASE StreamDrain  BY <1>1, <1>10 DEF StreamDrain
<1>11. CASE ClearStatusStage  BY <1>1, <1>11 DEF ClearStatusStage
<1>12. CASE StatusIN  BY <1>1, <1>12 DEF StatusIN
<1>13. CASE StatusOUT  BY <1>1, <1>13 DEF StatusOUT
<1>14. CASE AdoptAddress
  <2>1. top.local \in Addresses  BY <1>1, <1>14 DEF AdoptAddress, FrameOK
  <2>2. slack' \in BOOLEAN
    BY <1>14 DEF AdoptAddress, Pending, GenPending, ComPending
  <2> QED  BY <1>1, <1>14, <2>1, <2>2 DEF AdoptAddress, UsbRecords, DeviceStates
<1>15. CASE AdoptConfiguration
  BY <1>1, <1>15 DEF AdoptConfiguration, StateFromConfiguration, UsbRecords, DeviceStates
<1>16. CASE FinishDescriptor  BY <1>1, <1>16 DEF FinishDescriptor
<1>17. CASE StallUnhandled  BY <1>1, <1>17 DEF StallUnhandled
<1> QED
  BY <1>2, <1>3, <1>4, <1>5, <1>6, <1>7, <1>8, <1>9, <1>10, <1>11, <1>12, <1>13, <1>14, <1>15, <1>16, <1>17
     DEF HandlerStep

(***************************************************************************)
(* The bus and the host touch neither the processor nor the interrupt      *)
(* enables, and a bus reset that was not served stays flagged.             *)
(***************************************************************************)
ResetServed == hostAddr # NoAddress /\ ~Occurred(usb, "EORSTI")

OutsideEffect ==
  /\ usb' \in UsbRecords /\ ep' \in EpRecords /\ slack' \in BOOLEAN
  /\ bus' \in {"idle", "resuming", "active"}
  /\ hostAddr' \in Addresses \cup {NoAddress}
  /\ pkt' \in ControlRequests
  /\ xfer' \in {"none", "in", "data", "status", "recovery"}
  /\ usb'.ien = usb.ien /\ usb'.frozen = usb.frozen /\ usb'.pll = usb.pll
  /\ ep'.uenum = ep.uenum /\ ep'.rxstpe = ep.rxstpe
  /\ UNCHANGED <<req, ie, depth, frame, appVars>>
  /\ hostAddr' # hostAddr => Attached
  /\ ResetServed' => ResetServed

\* What the wire does to the controller leaves the firmware's state alone.
LEMMA OutsideStep ==
  ASSUME TypeOK, BusStep \/ HostStep
  PROVE  OutsideEffect
<1> USE DEF OutsideEffect, ResetServed, Occurred
<1>1. /\ usb \in UsbRecords /\ ep \in EpRecords /\ slack \in BOOLEAN
      /\ bus \in {"idle", "resuming", "active"}
      /\ hostAddr \in Addresses \cup {NoAddress}
      /\ pkt \in ControlRequests
      /\ xfer \in {"none", "in", "data", "status", "recovery"}
  BY DEF TypeOK
<1>2. ASSUME NEW u, NEW e, Hardware(u, e)
      PROVE  usb' = u /\ ep' = e /\ slack' \in BOOLEAN
  BY <1>1, <1>2 DEF Hardware, Pending, GenPending, ComPending
<1>3. /\ LineActivity(usb) \in UsbRecords
      /\ LineActivity(usb).ien = usb.ien /\ LineActivity(usb).pll = usb.pll
      /\ LineActivity(usb).frozen = usb.frozen
      /\ "EORSTI" \in LineActivity(usb).int <=> "EORSTI" \in usb.int
  BY <1>1, BusPartsType DEF LineActivity, UsbRecords
<1>4. /\ IdleDetected(usb) \in UsbRecords
      /\ IdleDetected(usb).ien = usb.ien /\ IdleDetected(usb).pll = usb.pll
      /\ IdleDetected(usb).frozen = usb.frozen
      /\ "EORSTI" \in IdleDetected(usb).int <=> "EORSTI" \in usb.int
  BY <1>1, BusPartsType DEF IdleDetected, UsbRecords
<1>5. /\ BusResetSeen(usb) \in UsbRecords
      /\ BusResetSeen(usb).ien = usb.ien /\ BusResetSeen(usb).pll = usb.pll
      /\ BusResetSeen(usb).frozen = usb.frozen
      /\ "EORSTI" \in BusResetSeen(usb).int
  BY <1>1, <1>3, BusPartsType DEF BusResetSeen, UsbRecords
<1>6. /\ EndpointReset(ep) \in EpRecords
      /\ EndpointReset(ep).uenum = ep.uenum
      /\ EndpointReset(ep).rxstpe = ep.rxstpe
  BY <1>1, EndpointPartsType DEF EndpointReset, EpRecords
<1>7. 0 \in Addresses  BY DEF Addresses
<1>8. CASE BusIdle
  BY <1>1, <1>8 DEF BusIdle, cpuVars
<1>9. CASE SuspendDetected
  BY <1>1, <1>2, <1>4, <1>9 DEF SuspendDetected, hostVars
<1>10. CASE BusResume
  BY <1>1, <1>2, <1>3, <1>10 DEF BusResume
<1>11. CASE BusActive
  BY <1>1, <1>11 DEF BusActive, cpuVars
<1>12. CASE BusReset
  BY <1>1, <1>2, <1>5, <1>6, <1>7, <1>12 DEF BusReset
<1>13. CASE HostRecovery
  BY <1>1, <1>13 DEF HostRecovery, cpuVars
<1>14. ASSUME NEW r \in Requests, HostSetup(r)
      PROVE  OutsideEffect
  <2> DEFINE e == [ep EXCEPT !.setup = TRUE, !.inBusy = FALSE, !.stall = FALSE]
  <2>1. e \in EpRecords /\ e.uenum = ep.uenum /\ e.rxstpe = ep.rxstpe
    BY <1>1 DEF EpRecords
  <2>2. Hardware(LineActivity(usb), e)  BY <1>14 DEF HostSetup
  <2> HIDE DEF e
  <2>3. usb' = LineActivity(usb) /\ ep' = e /\ slack' \in BOOLEAN
    BY <2>2, <1>2
  <2> QED  BY <1>1, <1>3, <1>14, <2>1, <2>3 DEF HostSetup, ControlRequests
<1>15. CASE HostIn
  <2>1. pkt.op = "SetAddress" => pkt.val \in Addresses
    BY <1>1, ControlRequestsType
  <2>2. hostAddr' # hostAddr => Attached
    BY <1>15 DEF HostIn, Talking
  <2>3. hostAddr # NoAddress
    BY <1>15 DEF HostIn, Talking
  <2> DEFINE e == [ep EXCEPT !.inBusy = FALSE]
  <2>4. e \in EpRecords /\ e.uenum = ep.uenum /\ e.rxstpe = ep.rxstpe
    BY <1>1 DEF EpRecords
  <2>5. Hardware(LineActivity(usb), e)  BY <1>15 DEF HostIn
  <2> HIDE DEF e
  <2>6. usb' = LineActivity(usb) /\ ep' = e /\ slack' \in BOOLEAN
    BY <2>5, <1>2
  <2> QED  BY <1>1, <1>3, <1>15, <2>1, <2>2, <2>3, <2>4, <2>6 DEF HostIn
<1>16. CASE HostOut
  <2> DEFINE e == [ep EXCEPT !.out = TRUE]
  <2>1. e \in EpRecords /\ e.uenum = ep.uenum /\ e.rxstpe = ep.rxstpe
    BY <1>1 DEF EpRecords
  <2>2. Hardware(LineActivity(usb), e)  BY <1>16 DEF HostOut
  <2> HIDE DEF e
  <2>3. usb' = LineActivity(usb) /\ ep' = e /\ slack' \in BOOLEAN
    BY <2>2, <1>2
  <2> QED  BY <1>1, <1>3, <1>16, <2>1, <2>3 DEF HostOut
<1>17. CASE HostStalled
  BY <1>1, <1>17 DEF HostStalled, cpuVars
<1>18. CASE HostAbort
  BY <1>1, <1>18 DEF HostAbort, cpuVars
<1> QED
  BY <1>8, <1>9, <1>10, <1>11, <1>12, <1>13, <1>14, <1>15, <1>16, <1>17, <1>18
     DEF BusStep, HostStep

(***************************************************************************)
(* Type correctness and the shape of the stack.                            *)
(***************************************************************************)

\* The running context tells whether the main program or an interrupt runs.
LEMMA TopLevel ==
  ASSUME TypeOK, StackShape
  PROVE  /\ depth \in Nat /\ depth <= MaxDepth /\ MaxDepth \in Nat
         /\ top.pc \in MainPCs => depth = 0
         /\ top.pc \in ExitPCs => depth > 0
  BY MaxDepthAssumption
  DEF TypeOK, StackShape, Levels, top, MainPCs, AppPCs, HandlerPCs, ExitPCs

\* The contents of memory and registers at power-on have their types.
LEMMA TypeInit == Init => TypeOK /\ StackShape
<1> SUFFICES ASSUME Init PROVE TypeOK /\ StackShape  OBVIOUS
<1>0. 0 \in Bytes /\ 0 \in Levels /\ ENDPOINT_CONTROLEP \in Endpoints
  BY MaxDepthAssumption DEF Bytes, Levels, Endpoints
<1>1. usb \in UsbRecords
  BY <1>0 DEF Init, UsbPowerOn, UsbRecords, DeviceStates
<1>2. ep \in EpRecords  BY <1>0 DEF Init, EpPowerOn, EpRecords
<1>3. frame \in [Levels -> Frames] /\ \A k \in Levels : FrameOK(frame[k])
  BY <1>0 DEF Init, IdleFrame, Frames, FrameOK, PCs, MainPCs, AppPCs
<1>4. frame[0].pc \in MainPCs  BY <1>0 DEF Init, IdleFrame, MainPCs, AppPCs
<1>5. TypeOK
  BY <1>0, <1>1, <1>2, <1>3 DEF Init, TypeOK, ControlRequests
<1>6. \A k \in 1 .. depth : FALSE  BY DEF Init
<1> QED  BY <1>3, <1>4, <1>5, <1>6 DEF StackShape

\* Every step of main program, interrupts, handlers, bus and host keeps the types,
\* and keeps handler code out of the places that only return from an interrupt.
LEMMA TypeNext ==
  ASSUME TypeOK, StackShape, [Next]_vars
  PROVE  TypeOK' /\ StackShape'
<1>1. CASE UNCHANGED vars
  BY <1>1 DEF vars, cpuVars, appVars, hostVars, TypeOK, StackShape
<1>2. CASE HandlerStep
  <2>1. HandlerFrame /\ HandlerStorage
    BY <1>2, HandlerFrameStep, HandlerStorageStep
  <2>2. TypeOK'
    BY <2>1 DEF TypeOK, HandlerFrame, HandlerStorage, appVars, hostVars
  <2>3. depth' = depth  BY <2>1 DEF HandlerStorage
  <2>4. \A k \in Levels : FrameOK(frame'[k])
    BY <2>1 DEF StackShape, HandlerFrame
  <2>5. \A k \in 1 .. depth : frame'[k].pc \in HandlerPCs \cup ExitPCs
    BY <2>1, TopLevel DEF StackShape, HandlerFrame, ExitPCs, Levels
  <2>6. frame'[0].pc \in MainPCs \cup HandlerPCs
    BY <2>1, TopLevel DEF StackShape, HandlerFrame, MainPCs, AppPCs, Levels
  <2> QED  BY <2>2, <2>3, <2>4, <2>5, <2>6 DEF StackShape, FrameOK
<1>3. CASE BusStep \/ HostStep
  <2>1. OutsideEffect  BY <1>3, OutsideStep
  <2> QED  BY <2>1 DEF OutsideEffect, TypeOK, StackShape, appVars
<1> USE DEF Code, At, Goto
<1>0. /\ usb \in UsbRecords /\ ep \in EpRecords /\ req \in ControlRequests
      /\ ie \in BOOLEAN /\ slack \in BOOLEAN
      /\ frame \in [Levels -> Frames] /\ depth \in Levels /\ 0 \in Levels
  BY TopLevel DEF TypeOK, Levels
<1>4. CASE MainStep
  <2>1. depth = 0 /\ top = frame[0]
    BY <1>4, TopLevel
    DEF MainStep, Setup, AppCheckConfigured, AppSelectEndpoint, DeviceTask, PollSetup,
        RestoreEndpoint, MainPCs, AppPCs, top
  <2>2. depth' = 0 /\ UNCHANGED <<req, bus, hostAddr, pkt, xfer>>
    BY <1>4, <2>1
    DEF MainStep, Setup, AppCheckConfigured, AppSelectEndpoint, DeviceTask, PollSetup,
        RestoreEndpoint, hostVars
  <2>3. usb' \in UsbRecords
    <3>1. CASE Setup
      BY <1>0, <3>1, InitPartsType DEF Setup
    <3> QED
      BY <1>0, <1>4, <3>1
      DEF MainStep, AppCheckConfigured, AppSelectEndpoint, DeviceTask, PollSetup,
          RestoreEndpoint
  <2>4. ep' \in EpRecords
    BY <1>0, <1>4, EndpointPartsType
    DEF MainStep, Setup, AppCheckConfigured, AppSelectEndpoint, DeviceTask, PollSetup,
        RestoreEndpoint, EpRecords, Endpoints, top, Frames
  <2>5. ie' \in BOOLEAN /\ slack' \in BOOLEAN
        /\ selected' \in Endpoints /\ clobbered' \in BOOLEAN
    BY <1>4
    DEF MainStep, Setup, AppCheckConfigured, AppSelectEndpoint, DeviceTask, PollSetup,
        RestoreEndpoint, Endpoints, TypeOK, appVars
  <2>6. /\ frame' \in [Levels -> Frames]
        /\ frame'[0].pc \in MainPCs \cup HandlerPCs
        /\ \A k \in Levels : FrameOK(frame'[k])
    BY <1>0, <1>4, <2>1
    DEF MainStep, Setup, AppCheckConfigured, AppSelectEndpoint, DeviceTask, PollSetup,
        RestoreEndpoint, StackShape, FrameOK, Frames, PCs, MainPCs, AppPCs, HandlerPCs,
        EpRecords, top
  <2>7. TypeOK'  BY <1>0, <2>2, <2>3, <2>4, <2>5, <2>6 DEF TypeOK
  <2>8. \A k \in 1 .. depth' : FALSE  BY <2>2
  <2> QED  BY <2>6, <2>7, <2>8 DEF StackShape, FrameOK
<1>5. CASE UsbGenISR
  <2>1. usb' \in UsbRecords /\ ep' \in EpRecords
    BY <1>0, <1>5, GenPartsType, EndpointPartsType DEF UsbGenISR
  <2>2. slack' \in BOOLEAN
    BY <1>5 DEF UsbGenISR, Pending, GenPending, ComPending
  <2>3. clobbered' \in BOOLEAN
    BY <1>5 DEF UsbGenISR, TypeOK, ResetDue, Occurred, IsEnabled
  <2> QED
    BY <1>5, <2>1, <2>2, <2>3 DEF UsbGenISR, TypeOK, StackShape, hostVars
<1>6. CASE UsbComISR
  <2>1. depth + 1 \in Levels /\ depth' = depth + 1 /\ depth # depth + 1
    BY <1>6, TopLevel DEF UsbComISR, ComPending, Levels
  <2> DEFINE f == [IdleFrame EXCEPT !.pc = "read", !.prev = ep.uenum]
  <2>2. f \in Frames /\ FrameOK(f) /\ f.pc = "read"
    <3>1. 0 \in Bytes  BY DEF Bytes
    <3> QED  BY <1>0, <3>1 DEF IdleFrame, Frames, FrameOK, PCs, HandlerPCs,
                               EpRecords
  <2>3. frame' = [frame EXCEPT ![depth + 1] = f]  BY <1>6 DEF UsbComISR
  <2> HIDE DEF f
  <2>4. /\ frame' \in [Levels -> Frames]
        /\ frame'[depth + 1].pc = "read" /\ FrameOK(frame'[depth + 1])
        /\ \A k \in Levels : k # depth + 1 => frame'[k] = frame[k]
    BY <1>0, <2>1, <2>2, <2>3
  <2>5. usb' \in UsbRecords /\ ep' \in EpRecords
    BY <1>0, <1>6 DEF UsbComISR, EpRecords, Endpoints
  <2>6. TypeOK'
    BY <1>0, <1>6, <2>1, <2>4, <2>5 DEF UsbComISR, TypeOK, appVars, hostVars
  <2>7. \A k \in 1 .. depth' : frame'[k].pc \in HandlerPCs \cup ExitPCs
    BY <2>1, <2>4, TopLevel DEF StackShape, HandlerPCs, Levels
  <2>8. frame'[0].pc \in MainPCs \cup HandlerPCs
    BY <1>0, <2>1, <2>4, TopLevel DEF StackShape
  <2>9. \A k \in Levels : FrameOK(frame'[k])  BY <2>4 DEF StackShape
  <2> QED  BY <2>6, <2>7, <2>8, <2>9 DEF StackShape, FrameOK
<1>7. CASE RearmSetup
  <2>1. /\ depth' = depth /\ depth > 0 /\ top.pc = "exit"
        /\ UNCHANGED <<usb, req, ie, appVars, hostVars>> /\ slack' = FALSE
    BY <1>7, TopLevel DEF RearmSetup, ExitPCs
  <2>2. ep' \in EpRecords  BY <1>0, <1>7 DEF RearmSetup, EpRecords, Endpoints
  <2>3. /\ frame' \in [Levels -> Frames] /\ frame'[depth].pc = "leave"
        /\ FrameOK(frame'[depth])
        /\ \A k \in Levels : k # depth => frame'[k] = frame[k]
    BY <1>0, <1>7, <2>1
    DEF RearmSetup, Frames, PCs, ExitPCs, top, FrameOK, StackShape
  <2>4. TypeOK'
    BY <1>0, <2>1, <2>2, <2>3 DEF TypeOK, appVars, hostVars
  <2>5. \A k \in 1 .. depth' : frame'[k].pc \in HandlerPCs \cup ExitPCs
    BY <2>1, <2>3, TopLevel DEF StackShape, ExitPCs, Levels
  <2>6. frame'[0].pc \in MainPCs \cup HandlerPCs
    BY <1>0, <2>1, <2>3 DEF StackShape
  <2>7. \A k \in Levels : FrameOK(frame'[k])  BY <2>3 DEF StackShape
  <2> QED  BY <2>4, <2>5, <2>6, <2>7 DEF StackShape, FrameOK
<1>8. CASE ReturnFromISR
  <2>1. /\ depth' = depth - 1 /\ depth > 0 /\ depth' \in Levels
        /\ UNCHANGED <<usb, req, ie, appVars, hostVars>>
    BY <1>8, TopLevel DEF ReturnFromISR, ExitPCs, Levels
  <2>2. ep' \in EpRecords
    BY <1>0, <1>8 DEF ReturnFromISR, EpRecords, Frames, top
  <2>3. slack' \in BOOLEAN
    BY <1>0, <1>8 DEF ReturnFromISR, GenPending, EpRecords
  <2>4. IdleFrame \in Frames /\ FrameOK(IdleFrame)
    <3>1. 0 \in Bytes  BY DEF Bytes
    <3> QED  BY <3>1 DEF IdleFrame, Frames, FrameOK, PCs, Endpoints
  <2>5. frame' = [frame EXCEPT ![depth] = IdleFrame]
    BY <1>8 DEF ReturnFromISR
  <2>6. /\ frame' \in [Levels -> Frames] /\ FrameOK(frame'[depth])
        /\ \A k \in Levels : k # depth => frame'[k] = frame[k]
    BY <1>0, <2>4, <2>5
  <2>7. TypeOK'
    BY <1>0, <2>1, <2>2, <2>3, <2>6 DEF TypeOK, appVars, hostVars
  <2>8. \A k \in 1 .. depth' : frame'[k].pc \in HandlerPCs \cup ExitPCs
    BY <2>1, <2>6, TopLevel DEF StackShape, Levels
  <2>9. frame'[0].pc \in MainPCs \cup HandlerPCs
    BY <1>0, <2>1, <2>6 DEF StackShape
  <2>10. \A k \in Levels : FrameOK(frame'[k])  BY <2>6 DEF StackShape
  <2> QED  BY <2>7, <2>8, <2>9, <2>10 DEF StackShape, FrameOK
<1> QED
  BY <1>1, <1>2, <1>3, <1>4, <1>5, <1>6, <1>7, <1>8
  DEF Next, CpuStep, InterruptStep

(***************************************************************************)
(* Only setup() attaches the device, and nothing detaches it.              *)
(***************************************************************************)
LEMMA AttachStep ==
  ASSUME TypeOK, StackShape, Next
  PROVE  /\ Setup => ~Attached /\ Attached'
         /\ ~Setup => (Attached' <=> Attached)
<1> USE DEF Attached, Code, At, Goto, top
<1>0. /\ frame \in [Levels -> Frames] /\ depth \in Levels /\ 0 \in Levels
      /\ depth \in Nat
      /\ top.pc \in MainPCs => depth = 0
      /\ top.pc \in ExitPCs => depth > 0
  BY TopLevel DEF TypeOK, Levels
<1>1. ASSUME Setup PROVE ~Attached /\ Attached'
  <2>1. depth = 0 /\ frame[0].pc = "off"  BY <1>0, <1>1 DEF Setup, MainPCs, AppPCs
  <2>2. frame'[0].pc = "app"
    BY <1>0, <1>1, <2>1 DEF Setup, Frames
  <2> QED  BY <2>1, <2>2
<1>2. ASSUME HandlerStep PROVE Attached' <=> Attached
  <2>1. HandlerFrame  BY <1>2, HandlerFrameStep
  <2>2. CASE depth = 0
    BY <1>0, <2>1, <2>2 DEF HandlerFrame, HandlerPCs
  <2>3. CASE depth # 0
    BY <1>0, <2>1, <2>3 DEF HandlerFrame
  <2> QED  BY <2>2, <2>3
<1>3. ASSUME BusStep \/ HostStep PROVE Attached' <=> Attached
  BY <1>3, OutsideStep DEF OutsideEffect
<1>4. ASSUME MainStep, ~Setup PROVE Attached' <=> Attached
  BY <1>0, <1>4
  DEF MainStep, AppCheckConfigured, AppSelectEndpoint, DeviceTask, PollSetup,
      RestoreEndpoint,
      MainPCs, AppPCs, Frames
<1>5. ASSUME InterruptStep PROVE Attached' <=> Attached
  <2>1. CASE UsbGenISR  BY <2>1 DEF UsbGenISR
  <2>2. CASE UsbComISR
    <3>1. depth + 1 # 0  BY TopLevel
    <3> QED  BY <1>0, <3>1, <2>2 DEF UsbComISR
  <2>3. CASE RearmSetup  BY <1>0, <2>3 DEF RearmSetup, ExitPCs
  <2>4. CASE ReturnFromISR  BY <1>0, <2>4 DEF ReturnFromISR, ExitPCs
  <2> QED  BY <1>5, <2>1, <2>2, <2>3, <2>4 DEF InterruptStep
<1> QED  BY <1>1, <1>2, <1>3, <1>4, <1>5 DEF Next, CpuStep

\* Before that, no request and no reset can have come.
LEMMA QuietNext ==
  ASSUME TypeOK, StackShape, QuietBeforeAttach, [Next]_vars
  PROVE  QuietBeforeAttach'
<1>1. CASE UNCHANGED vars
  BY <1>1 DEF vars, cpuVars, hostVars, QuietBeforeAttach, Attached
<1>2. CASE Next
  <2> SUFFICES ASSUME ~Attached'
               PROVE  ~ie' /\ depth' = 0 /\ hostAddr' = NoAddress
    BY DEF QuietBeforeAttach
  <2>1. ~Setup /\ ~Attached  BY <1>2, AttachStep
  <2>2. ~ie /\ depth = 0 /\ hostAddr = NoAddress /\ top = frame[0]
        /\ top.pc = "off"
    BY <2>1 DEF QuietBeforeAttach, top, Attached
  <2>3. CASE HandlerStep
    BY <2>2, <2>3, HandlerFrameStep DEF HandlerFrame, HandlerPCs
  <2>4. CASE BusStep \/ HostStep
    BY <2>1, <2>2, <2>4, OutsideStep DEF OutsideEffect
  <2>5. CASE MainStep
    BY <2>1, <2>2, <2>5
    DEF MainStep, AppCheckConfigured, AppSelectEndpoint, DeviceTask, PollSetup,
        RestoreEndpoint,
        Code, At
  <2>6. CASE InterruptStep
    BY <2>2, <2>6
    DEF InterruptStep, UsbGenISR, UsbComISR, RearmSetup, ReturnFromISR, Code, At
  <2> QED  BY <1>2, <2>3, <2>4, <2>5, <2>6 DEF Next, CpuStep
<1> QED  BY <1>1, <1>2

(***************************************************************************)
(* The wake-up and suspend interrupts.                                     *)
(***************************************************************************)
WakeArmedIn(u) ==
  /\ IsEnabled(u, "EORSTI")
  /\ IsEnabled(u, "SUSPI") <=> ~IsEnabled(u, "WAKEUPI")
  /\ u.frozen => IsEnabled(u, "WAKEUPI")
  /\ u.frozen <=> ~u.pll

\* Each part of ISR(USB_GEN_vect) keeps the device wakeable.
LEMMA GenPartsWakeArmed ==
  ASSUME NEW u \in UsbRecords, WakeArmedIn(u)
  PROVE  /\ WakeArmedIn(SuspendPart(u))
         /\ WakeArmedIn(WakePart(u))
         /\ WakeArmedIn(ResetPart(u))
<1> USE DEF WakeArmedIn, IsEnabled, Enable, Disable, Clear, UsbRecords
<1>1. WakeArmedIn(SuspendPart(u))  BY DEF SuspendPart
<1>2. WakeArmedIn(WakePart(u))  BY DEF WakePart
<1>3. WakeArmedIn(ResetPart(u))  BY DEF ResetPart
<1> QED  BY <1>1, <1>2, <1>3

\* Only setup() and ISR(USB_GEN_vect) change the enables, and both leave one of
\* suspend and wake-up enabled.
LEMMA WakeArmedNext ==
  ASSUME TypeOK, StackShape, WakeArmed, [Next]_vars
  PROVE  WakeArmed'
<1>1. WakeArmed <=> (Attached => WakeArmedIn(usb))
  BY DEF WakeArmed, WakeArmedIn
<1>2. WakeArmed' <=> (Attached' => WakeArmedIn(usb'))
  BY DEF WakeArmed, WakeArmedIn, IsEnabled
<1>3. usb \in UsbRecords  BY DEF TypeOK
<1>4. CASE UNCHANGED vars
  BY <1>4 DEF vars, cpuVars, WakeArmed, Attached
<1>5. CASE Setup
  <2>1. usb' = InitDevice(ResetInterface(usb))  BY <1>5 DEF Setup
  <2>2. WakeArmedIn(InitDevice(ResetInterface(usb)))
    BY <1>3
    DEF WakeArmedIn, IsEnabled, Enable, Clear, InitDevice, ResetInterface,
        UsbRecords
  <2> QED  BY <1>2, <2>1, <2>2
<1>6. CASE UsbGenISR
  <2>1. Attached' <=> Attached  BY <1>6 DEF UsbGenISR, Attached
  <2>2. usb' = ResetPart(WakePart(SuspendPart(usb)))  BY <1>6 DEF UsbGenISR
  <2>3. WakeArmedIn(usb) => WakeArmedIn(usb')
    BY <1>3, <2>2, GenPartsWakeArmed, GenPartsType
  <2> QED  BY <1>1, <1>2, <2>1, <2>3
<1>7. CASE Next /\ ~Setup /\ ~UsbGenISR
  <2>1. Attached' <=> Attached  BY <1>7, AttachStep
  <2>2. usb'.ien = usb.ien /\ usb'.frozen = usb.frozen /\ usb'.pll = usb.pll
    <3>1. CASE HandlerStep  BY <3>1, HandlerStorageStep DEF HandlerStorage
    <3>2. CASE BusStep \/ HostStep  BY <3>2, OutsideStep DEF OutsideEffect
    <3>3. CASE MainStep
      BY <1>7, <3>3
      DEF MainStep, AppCheckConfigured, AppSelectEndpoint, DeviceTask, PollSetup,
          RestoreEndpoint
    <3>4. CASE InterruptStep
      BY <1>7, <3>4 DEF InterruptStep, UsbComISR, RearmSetup, ReturnFromISR
    <3> QED  BY <1>7, <3>1, <3>2, <3>3, <3>4 DEF Next, CpuStep
  <2> QED  BY <1>1, <1>2, <2>1, <2>2 DEF WakeArmedIn, IsEnabled
<1> QED  BY <1>4, <1>5, <1>6, <1>7

(***************************************************************************)
(* The SETUP interrupt.                                                    *)
(***************************************************************************)
LEMMA SetupArmedNext ==
  ASSUME TypeOK, StackShape, QuietBeforeAttach, SetupArmed, [Next]_vars
  PROVE  SetupArmed'
<1> USE DEF SetupArmed, ResetServed
<1>0. /\ ep \in EpRecords /\ usb \in UsbRecords
      /\ frame \in [Levels -> Frames] /\ depth \in Levels /\ 0 \in Levels
  BY TopLevel DEF TypeOK, Levels
<1>1. CASE UNCHANGED vars
  BY <1>1 DEF vars, cpuVars, hostVars, top
<1>2. CASE HandlerStep
  <2>1. HandlerFrame /\ HandlerStorage
    BY <1>2, HandlerFrameStep, HandlerStorageStep
  <2>2. ResetServed' => ResetServed
    BY <2>1 DEF HandlerStorage, hostVars, Occurred
  <2>3. ASSUME depth > 0 PROVE frame'[depth].pc # "leave"
    BY <2>1, <2>3 DEF HandlerFrame, HandlerPCs
  <2> QED  BY <2>1, <2>2, <2>3 DEF HandlerStorage, top
<1>3. CASE BusStep \/ HostStep
  BY <1>3, OutsideStep DEF OutsideEffect, top
<1>4. CASE MainStep
  <2>1. depth = 0
    BY <1>4, TopLevel
    DEF MainStep, Setup, AppCheckConfigured, AppSelectEndpoint, DeviceTask, PollSetup,
        RestoreEndpoint, MainPCs, AppPCs, Code, At
  <2>2. CASE Setup
    <3>1. ~Attached  BY <2>1, <2>2 DEF Setup, Code, At, top, Attached
    <3> QED  BY <2>2, <3>1 DEF Setup, hostVars, QuietBeforeAttach
  <2>3. CASE ~Setup
    BY <1>0, <1>4, <2>1, <2>3
    DEF MainStep, AppCheckConfigured, AppSelectEndpoint, DeviceTask, PollSetup,
        RestoreEndpoint,
        EpRecords, hostVars
  <2> QED  BY <2>2, <2>3
<1>5. CASE UsbGenISR
  <2> DEFINE u == WakePart(SuspendPart(usb))
  <2>1. /\ usb' = ResetPart(u) /\ ep' = ResetEndpointPart(u, ep)
        /\ UNCHANGED <<depth, frame, hostAddr>>
    BY <1>5 DEF UsbGenISR, hostVars
  <2>2. "EORSTI" \in u.int <=> "EORSTI" \in usb.int
    BY <1>0
    DEF WakePart, SuspendPart, Enable, Disable, Clear, UsbRecords
  <2> HIDE DEF u
  <2>3. CASE ResetDue(u)
    BY <2>1, <2>3
    DEF ResetEndpointPart, ConfigureControlEndpoint, EpPowerOn
  <2>4. CASE ~ResetDue(u)
    BY <2>1, <2>2, <2>4 DEF ResetEndpointPart, ResetPart, Occurred, top
  <2> QED  BY <2>3, <2>4
<1>6. CASE UsbComISR
  <2>1. depth' > 0 /\ depth + 1 \in Levels /\ depth' = depth + 1
    BY <1>6, TopLevel DEF UsbComISR, ComPending, Levels
  <2>2. frame'[depth + 1].pc = "read"
    BY <1>0, <1>6, <2>1 DEF UsbComISR, IdleFrame
  <2> QED  BY <2>1, <2>2 DEF top
<1>7. CASE RearmSetup
  BY <1>0, <1>7 DEF RearmSetup, EpRecords
<1>8. CASE ReturnFromISR
  BY <1>0, <1>8
  DEF ReturnFromISR, EpRecords, hostVars, At, Occurred
<1> QED
  BY <1>1, <1>2, <1>3, <1>4, <1>5, <1>6, <1>7, <1>8
  DEF Next, CpuStep, InterruptStep

(***************************************************************************)
(* The endpoint that each context on the stack finds selected.             *)
(***************************************************************************)

\* Interrupts and handlers keep it for every context they leave on the stack;
\* only the running context sees what the reset part and RearmSetup select.
LEMMA EndpointForKept ==
  ASSUME TypeOK, StackShape,
         HandlerStep \/ BusStep \/ HostStep \/ InterruptStep,
         NEW k \in 0 .. depth, k <= depth',
         (UsbGenISR \/ RearmSetup) => k < depth
  PROVE  EndpointFor(k)' = EndpointFor(k)
<1> USE DEF EndpointFor
<1>0. /\ ep \in EpRecords /\ frame \in [Levels -> Frames]
      /\ depth \in Nat /\ k \in Nat /\ k <= depth
      /\ \A j \in 0 .. depth : j \in Levels
  BY TopLevel DEF TypeOK, Levels
<1>1. CASE HandlerStep
  <2>1. HandlerFrame /\ HandlerStorage
    BY <1>1, HandlerFrameStep, HandlerStorageStep
  <2>2. \A j \in 0 .. depth : frame'[j].prev = frame[j].prev
    BY <1>0, <2>1 DEF HandlerFrame, top
  <2>3. k # depth => k + 1 \in 0 .. depth  BY <1>0
  <2> QED  BY <2>1, <2>2, <2>3 DEF HandlerStorage
<1>2. CASE BusStep \/ HostStep
  BY <1>2, OutsideStep DEF OutsideEffect
<1>3. CASE UsbGenISR
  BY <1>0, <1>3 DEF UsbGenISR
<1>4. CASE UsbComISR
  <2>1. depth + 1 \in Levels /\ depth' = depth + 1
    BY <1>4, TopLevel DEF UsbComISR, ComPending, Levels
  <2>2. /\ frame'[depth + 1].prev = ep.uenum
        /\ \A j \in 0 .. depth : frame'[j] = frame[j]
    BY <1>0, <1>4, <2>1 DEF UsbComISR, IdleFrame
  <2>3. k # depth => k + 1 \in 0 .. depth  BY <1>0
  <2> QED  BY <1>0, <2>1, <2>2, <2>3
<1>5. CASE RearmSetup
  <2>1. depth' = depth /\ k < depth  BY <1>5 DEF RearmSetup
  <2>2. \A j \in 0 .. depth : frame'[j].prev = frame[j].prev
    BY <1>0, <1>5 DEF RearmSetup, Goto, Frames
  <2> QED  BY <1>0, <2>1, <2>2
<1>6. CASE ReturnFromISR
  <2>1. /\ depth' = depth - 1 /\ k < depth
        /\ ep'.uenum = frame[depth].prev
    BY <1>0, <1>6, TopLevel DEF ReturnFromISR, EpRecords, top
  <2>2. \A j \in 0 .. depth : j # depth => frame'[j] = frame[j]
    BY <1>0, <1>6 DEF ReturnFromISR
  <2> QED  BY <1>0, <2>1, <2>2
<1> QED
  BY <1>1, <1>2, <1>3, <1>4, <1>5, <1>6 DEF InterruptStep

\* Pushing a USB_COM context saves the selection, returning from it restores it:
\* the control endpoint comes back to whatever handler was interrupted.
LEMMA ControlEndpointRestoredNext ==
  ASSUME TypeOK, StackShape, ControlEndpointRestored, [Next]_vars
  PROVE  ControlEndpointRestored'
<1> USE DEF ControlEndpointRestored
<1>0. /\ ep \in EpRecords /\ frame \in [Levels -> Frames]
      /\ depth \in Nat /\ depth' \in Nat
      /\ \A j \in 0 .. depth : j \in Levels
  <2>1. TypeOK' /\ StackShape'  BY TypeNext
  <2>2. depth' \in Nat  BY <2>1, MaxDepthAssumption DEF TypeOK, Levels
  <2> QED  BY <2>2, TopLevel DEF TypeOK, Levels
<1>1. CASE UNCHANGED vars
  BY <1>1 DEF vars, cpuVars, EndpointFor
<1>2. CASE MainStep
  <2>1. depth = 0 /\ depth' = 0 /\ frame[0].pc \in MainPCs
    BY <1>2, TopLevel
    DEF MainStep, Setup, AppCheckConfigured, AppSelectEndpoint, DeviceTask, PollSetup,
        RestoreEndpoint, MainPCs, AppPCs, Code, At, top
  <2>2. frame'[0].pc \in ControlPCs => ep'.uenum = ENDPOINT_CONTROLEP
    <3>1. CASE DeviceTask  BY <1>0, <3>1 DEF DeviceTask, EpRecords
    <3>2. CASE PollSetup
      <4>1. frame[0].pc \in ControlPCs
        BY <2>1, <3>2 DEF PollSetup, Code, At, top, ControlPCs
      <4> QED  BY <2>1, <3>2, <4>1 DEF PollSetup, EndpointFor
    <3>3. CASE ~DeviceTask /\ ~PollSetup
      BY <1>0, <1>2, <2>1, <3>3
      DEF MainStep, Setup, AppCheckConfigured, AppSelectEndpoint, RestoreEndpoint, Goto,
          Code, At,
          top, ControlPCs, HandlerPCs, Frames
    <3> QED  BY <3>1, <3>2, <3>3
  <2> QED  BY <2>1, <2>2 DEF EndpointFor
<1>3. CASE HandlerStep \/ BusStep \/ HostStep \/ InterruptStep
  <2> SUFFICES ASSUME NEW k \in 0 .. depth', frame'[k].pc \in ControlPCs
               PROVE  EndpointFor(k)' = ENDPOINT_CONTROLEP
    OBVIOUS
  <2>1. CASE k = depth /\ UsbGenISR
    <3>1. depth' = depth /\ frame' = frame  BY <2>1 DEF UsbGenISR
    <3>2. ep.uenum = ENDPOINT_CONTROLEP
      BY <2>1, <3>1 DEF EndpointFor
    <3>3. ep'.uenum = ENDPOINT_CONTROLEP
      BY <2>1, <3>2 DEF UsbGenISR, ResetEndpointPart,
         ConfigureControlEndpoint, EpPowerOn
    <3> QED  BY <2>1, <3>1, <3>3 DEF EndpointFor
  <2>2. CASE k = depth /\ RearmSetup
    BY <1>0, <2>2 DEF RearmSetup, EndpointFor, EpRecords
  <2>3. CASE k = depth + 1
    <3>1. UsbComISR
      BY <1>0, <1>3, <2>3, OutsideStep, HandlerStorageStep
      DEF HandlerStorage, OutsideEffect, InterruptStep, UsbGenISR, RearmSetup,
          ReturnFromISR
    <3> QED  BY <1>0, <2>3, <3>1 DEF UsbComISR, EndpointFor, EpRecords
  <2>4. CASE k # depth + 1 /\ ~(k = depth /\ (UsbGenISR \/ RearmSetup))
    <3>1. depth' <= depth + 1 /\ k \in 0 .. depth /\ k <= depth'
      BY <1>0, <1>3, <2>4, OutsideStep, HandlerStorageStep
      DEF HandlerStorage, OutsideEffect, InterruptStep, UsbGenISR, RearmSetup,
          ReturnFromISR, UsbComISR
    <3>2. EndpointFor(k)' = EndpointFor(k)
      BY <1>0, <1>3, <2>4, <3>1, EndpointForKept
    <3>3. frame[k].pc \in ControlPCs
      <4>1. CASE HandlerStep
        BY <1>0, <3>1, <4>1, HandlerFrameStep DEF HandlerFrame, ControlPCs, top
      <4>2. CASE BusStep \/ HostStep
        BY <4>2, OutsideStep DEF OutsideEffect
      <4>3. CASE InterruptStep
        <5>2. CASE RearmSetup
          BY <1>0, <2>4, <3>1, <5>2 DEF RearmSetup, Goto
        <5>3. CASE UsbComISR
          BY <1>0, <2>4, <3>1, <5>3 DEF UsbComISR
        <5>4. CASE ReturnFromISR
          <6>1. k # depth  BY <1>0, <3>1, <5>4 DEF ReturnFromISR
          <6> QED  BY <1>0, <3>1, <5>4, <6>1 DEF ReturnFromISR
        <5>5. CASE UsbGenISR  BY <5>5 DEF UsbGenISR
        <5> QED  BY <4>3, <5>2, <5>3, <5>4, <5>5 DEF InterruptStep
      <4> QED  BY <1>3, <4>1, <4>2, <4>3
    <3> QED  BY <3>1, <3>2, <3>3
  <2> QED  BY <2>1, <2>2, <2>3, <2>4
<1> QED  BY <1>1, <1>2, <1>3 DEF Next, CpuStep

\* The application's selection survives on the stack until it runs again.
LEMMA SelectionRestoredNext ==
  ASSUME TypeOK, StackShape, SelectionRestored, [Next]_vars
  PROVE  SelectionRestored'
<1> USE DEF SelectionRestored
<1>0. /\ ep \in EpRecords /\ frame \in [Levels -> Frames]
      /\ depth \in Nat
      /\ 0 \in Levels /\ depth \in Levels /\ 0 \in 0 .. depth
      /\ depth' \in Nat /\ 0 <= depth'
  <2>1. TypeOK' /\ StackShape'  BY TypeNext
  <2>2. depth' \in Nat  BY <2>1, MaxDepthAssumption DEF TypeOK, Levels
  <2> QED  BY <2>2, TopLevel DEF TypeOK, Levels
<1>1. CASE UNCHANGED vars
  BY <1>1 DEF vars, cpuVars, appVars, EndpointFor
<1>2. CASE MainStep
  <2>1. depth = 0 /\ depth' = 0 /\ top = frame[0]
    BY <1>2, TopLevel
    DEF MainStep, Setup, AppCheckConfigured, AppSelectEndpoint, DeviceTask, PollSetup,
        RestoreEndpoint, MainPCs, AppPCs, Code, At, top
  <2>2. EndpointFor(0) = ep.uenum /\ EndpointFor(0)' = ep'.uenum
    BY <2>1 DEF EndpointFor
  <2> USE DEF Code, At, Goto, Frames, AppPCs
  <2>3. CASE Setup
    BY <1>0, <2>1, <2>2, <2>3
    DEF Setup, ConfigureControlEndpoint, EpPowerOn, appVars
  <2>4. CASE AppCheckConfigured
    BY <1>0, <2>1, <2>2, <2>4 DEF AppCheckConfigured, appVars
  <2>5. ASSUME NEW e \in DataEndpoints, AppSelectEndpoint(e)
        PROVE  SelectionRestored'
    BY <1>0, <2>1, <2>2, <2>5 DEF AppSelectEndpoint, EpRecords
  <2>6. CASE DeviceTask
    BY <1>0, <2>1, <2>2, <2>6 DEF DeviceTask, appVars
  <2>7. CASE PollSetup
    BY <1>0, <2>1, <2>2, <2>7 DEF PollSetup, appVars
  <2>8. CASE RestoreEndpoint
    BY <1>0, <2>1, <2>2, <2>8 DEF RestoreEndpoint, EpRecords, appVars
  <2> QED  BY <1>2, <2>3, <2>4, <2>5, <2>6, <2>7, <2>8 DEF MainStep
<1>3. CASE HandlerStep /\ depth = 0
  <2>1. HandlerFrame /\ HandlerStorage
    BY <1>3, HandlerFrameStep, HandlerStorageStep
  <2>2. frame[0].pc \notin AppPCs \cup {"off"} /\ frame'[0].pc \notin AppPCs \cup {"off"}
        /\ frame'[0].prev = frame[0].prev
    BY <1>3, <2>1 DEF HandlerFrame, HandlerPCs, AppPCs, top
  <2> QED  BY <2>1, <2>2 DEF HandlerStorage, appVars
<1>4. CASE BusStep \/ HostStep
  BY <1>4, OutsideStep DEF OutsideEffect, EndpointFor, appVars
<1>5. CASE UsbGenISR
  <2>1. ~clobbered' => ~clobbered /\ ep' = ep
    BY <1>5 DEF UsbGenISR, ResetEndpointPart
  <2>2. UNCHANGED <<depth, frame, selected>>  BY <1>5 DEF UsbGenISR
  <2> QED  BY <2>1, <2>2 DEF EndpointFor
<1>6. CASE \/ HandlerStep /\ depth # 0
           \/ UsbComISR \/ RearmSetup \/ ReturnFromISR
  <2>1. UNCHANGED appVars
    BY <1>6, HandlerStorageStep
    DEF HandlerStorage, UsbComISR, RearmSetup, ReturnFromISR
  <2>2. RearmSetup \/ ReturnFromISR => depth > 0
    BY TopLevel DEF RearmSetup, ReturnFromISR, Code, At, ExitPCs
  <2>3. frame'[0] = frame[0]
    BY <1>0, <1>6, <2>2, HandlerFrameStep
    DEF HandlerFrame, UsbComISR, RearmSetup, ReturnFromISR, Goto
  <2>4. CASE UsbGenISR  BY <1>5, <2>4
  <2>5. CASE ~UsbGenISR
    <3>1. EndpointFor(0)' = EndpointFor(0)
      BY <1>0, <1>6, <2>2, <2>5, EndpointForKept DEF InterruptStep
    <3> QED  BY <2>1, <2>3, <3>1 DEF appVars
  <2> QED  BY <2>4, <2>5
<1> QED
  BY <1>1, <1>2, <1>3, <1>4, <1>5, <1>6 DEF Next, CpuStep, InterruptStep

(***************************************************************************)
(* The theorems.                                                           *)
(***************************************************************************)

\* Inv holds of the device before setup().
LEMMA InvInit == Init => Inv
<1> SUFFICES ASSUME Init PROVE Inv  OBVIOUS
<1>1. TypeOK /\ StackShape  BY TypeInit
<1>2. depth = 0 /\ frame[0].pc = "off" /\ ~ie /\ hostAddr = NoAddress
      /\ selected = ENDPOINT_CONTROLEP
  BY MaxDepthAssumption DEF Init, IdleFrame, Levels
<1> QED
  BY <1>1, <1>2
  DEF Inv, QuietBeforeAttach, WakeArmed, Attached, ControlEndpointRestored,
      SelectionRestored, SetupArmed, ControlPCs, HandlerPCs, AppPCs

\* One step keeps every conjunct: the lemmas above, put together.
LEMMA InvNext == Inv /\ [Next]_vars => Inv'
<1> SUFFICES ASSUME Inv, [Next]_vars PROVE Inv'  OBVIOUS
<1>1. /\ TypeOK /\ StackShape /\ QuietBeforeAttach /\ WakeArmed
      /\ ControlEndpointRestored /\ SelectionRestored /\ SetupArmed
  BY DEF Inv
<1>2. TypeOK' /\ StackShape'  BY <1>1, TypeNext
<1>3. QuietBeforeAttach'  BY <1>1, QuietNext
<1>4. WakeArmed'  BY <1>1, WakeArmedNext
<1>5. ControlEndpointRestored'  BY <1>1, ControlEndpointRestoredNext
<1>6. SelectionRestored'  BY <1>1, SelectionRestoredNext
<1>7. SetupArmed'  BY <1>1, SetupArmedNext
<1> QED  BY <1>2, <1>3, <1>4, <1>5, <1>6, <1>7 DEF Inv

\* The invariant of the whole stack of contexts: whatever the host sends, and
\* however the interrupts of USBInterrupt.c nest in the request handlers.
THEOREM Invariant == Spec => []Inv
<1>1. Init => Inv  BY InvInit
<1>2. Inv /\ [Next]_vars => Inv'  BY InvNext
<1> QED  BY <1>1, <1>2, PTL DEF Spec

\* Type correctness: the stack of contexts never underflows, no packet count
\* and no address leaves its range.
THEOREM TypeCorrect == Spec => []TypeOK
<1>1. Inv => TypeOK  BY DEF Inv
<1> QED  BY <1>1, Invariant, PTL

\* ISR(USB_GEN_vect) leaves an attached device able to wake up.
THEOREM AlwaysWakeArmed == Spec => []WakeArmed
<1>1. Inv => WakeArmed  BY DEF Inv
<1> QED  BY <1>1, Invariant, PTL

\* No interleaving of interrupts leaves the SETUP interrupt off for good.
THEOREM AlwaysSetupArmed == Spec => []SetupArmed
<1>1. Inv => SetupArmed  BY DEF Inv
<1> QED  BY <1>1, Invariant, PTL

\* Every register access of a request handler goes to the control endpoint.
THEOREM AlwaysControlEndpointSelected == Spec => []ControlEndpointSelected
<1>1. Inv => ControlEndpointSelected
  <2> SUFFICES ASSUME Inv PROVE ControlEndpointSelected  OBVIOUS
  <2>1. TypeOK /\ StackShape /\ ControlEndpointRestored  BY DEF Inv
  <2>2. depth \in 0 .. depth  BY <2>1, TopLevel
  <2> QED
    BY <2>1, <2>2 DEF ControlEndpointRestored, ControlEndpointSelected,
                      ControlPCs, EndpointFor, top
<1> QED  BY <1>1, Invariant, PTL

\* Interrupts and USB_DeviceTask give the application its endpoint back.
THEOREM AlwaysSelectionKept == Spec => []SelectionKept
<1>1. Inv => SelectionKept
  BY DEF Inv, SelectionRestored, SelectionKept, EndpointFor, At, top
<1> QED  BY <1>1, Invariant, PTL

(***************************************************************************)
(* Code that outruns the host.                                             *)
(*                                                                         *)
(* With PromptCode the host begins something new only while the running    *)
(* context is Waiting or the main program is between requests.  What       *)
(* follows says what the context on top of the stack and the transfer      *)
(* under way then have in common.                                          *)
(***************************************************************************)

\* From the dispatch to the arming of the status packet no host is waited for.
HurryPCs == {"setup", "number", "reply", "status", "in"}

\* Past the dispatch: what is left of the request ends in "check".
LatePCs == {"stream", "drain", "in", "out", "finish", "check"}

StateOps == {"SetAddress", "SetConfiguration"}

\* What the host waits for while its request is handled.
Asked == xfer = IF DeviceToHost(pkt) THEN "data" ELSE "in"

\* The SETUP in the bank is the last thing that happened on the bus.
Fresh == /\ Asked /\ ~ep.inBusy /\ ~ep.stall
         /\ ~usb.frozen /\ ~Occurred(usb, "SUSPI")

\* A SETUP that has not been read yet, or that USB_COM will take at once.
Unread == ep.setup /\ (top.pc \notin LatePCs \/ (ep.rxstpe /\ depth < MaxDepth))

\* Interrupts are off from the ClearSETUP of SetAddress to its AdoptAddress.
MaskedBySetAddress ==
  Attached => (~ie <=> /\ top.op = "SetAddress"
                       /\ top.pc \in {"status", "in", "finish"})

\* The main program finds no SETUP to process: the interrupt was faster.
MainFindsNothing ==
  /\ frame[0].pc \in MainPCs \cup {"read", "dispatch", "check"}
  /\ frame[0].pc \in {"dispatch", "check"} => depth = 0 /\ ~ep.setup

\* A context is interrupted by another SETUP only where it waits, or after that.
InterruptedWhereItWaits ==
  \A k \in 1 .. depth - 1 :
    /\ frame[k].pc \in {"stream", "drain", "out", "finish", "check"} \cup ExitPCs
    /\ frame[k].pc = "finish" => frame[k].op \notin StateOps

\* Which handlers wait for the host in the data and in the OUT status stage.
WaitsOfHandlers ==
  \A k \in 1 .. depth :
    /\ frame[k].pc = "out" => frame[k].op = "GetConfiguration"
    /\ frame[k].pc = "drain" => frame[k].op = "GetDescriptor"

\* An unread SETUP is fresh, and none interrupts the context that reads one.
SetupFresh ==
  /\ ep.setup => hostAddr # NoAddress
  /\ Unread => Fresh
  /\ depth > 0 /\ top.pc \in {"read", "dispatch", "setup"} => ~(ep.rxstpe /\ ep.setup)
  /\ At("dispatch") /\ ep.setup => req = pkt

\* A handler that does not wait works on the request the host is waiting for.
HandlerCurrent ==
  /\ top.pc \in HurryPCs =>
       /\ ~usb.frozen /\ ~Occurred(usb, "SUSPI")
       /\ top.pc # "setup" => ~ep.setup
       /\ top.pc # "status" \/ ~DeviceToHost(req) => ~ep.inBusy
  /\ top.pc \in {"setup", "number", "reply", "status"} =>
       req = pkt /\ req.op = top.op /\ Handled(req)
  /\ top.pc \in {"setup", "number"} => Asked /\ ~ep.stall
  /\ At("status") => top.op # "GetDescriptor"
  /\ At("number") => top.op = "SetConfiguration"
  /\ At("reply") => top.op = "GetConfiguration"
  /\ At("in") => top.op \in StateOps
  /\ At("finish") /\ top.op \in StateOps => ~usb.frozen
  /\ At("finish") /\ top.op = "SetConfiguration" =>
       ~Occurred(usb, "SUSPI") /\ ~ep.setup

\* A suspend and a reset are pending together only while SetAddress, which has
\* disabled interrupts, waits for a host that will not take its status packet.
OneBusEvent ==
  /\ Attached /\ Occurred(usb, "SUSPI") /\ Occurred(usb, "EORSTI") =>
       ~ie /\ At("finish") /\ ep.inBusy
  /\ usb.frozen => ~Occurred(usb, "EORSTI")

\* The inductive invariant behind SuspendedIsUnattached, RequestStable and
\* ConfigurationFromHost, together with Inv.
TimedInv ==
  /\ MaskedBySetAddress /\ MainFindsNothing
  /\ InterruptedWhereItWaits /\ WaitsOfHandlers
  /\ SetupFresh /\ HandlerCurrent /\ OneBusEvent /\ SuspendedIsUnattached

\* What both invariants say of the contexts the steps below start from.
LEMMA TimedFacts ==
  ASSUME Inv, TimedInv
  PROVE  /\ TypeOK /\ StackShape
         /\ usb \in UsbRecords /\ ep \in EpRecords /\ req \in ControlRequests
         /\ ie \in BOOLEAN /\ frame \in [Levels -> Frames]
         /\ depth \in Levels /\ depth \in Nat /\ 0 \in Levels
         /\ FrameOK(top)
         /\ top.pc \in MainPCs => depth = 0
         /\ top.pc \in ExitPCs => depth > 0
         /\ depth = 0 => top = frame[0]
         /\ depth > 0 => top = frame[depth] /\ depth \in 1 .. depth
<1>1. TypeOK /\ StackShape  BY DEF Inv
<1>2. /\ usb \in UsbRecords /\ ep \in EpRecords /\ req \in ControlRequests
      /\ ie \in BOOLEAN /\ frame \in [Levels -> Frames]
      /\ depth \in Levels
  BY <1>1 DEF TypeOK
<1>3. /\ depth \in Nat /\ 0 \in Levels
      /\ top.pc \in MainPCs => depth = 0
      /\ top.pc \in ExitPCs => depth > 0
  BY <1>1, TopLevel DEF Levels
<1> QED  BY <1>1, <1>2, <1>3 DEF StackShape, top

\* The main program is interrupted before it can read a SETUP (USBTask.c).
LEMMA MainInterrupted ==
  ASSUME Inv, TimedInv, depth = 0, ep.setup
  PROVE  ie /\ Pending(usb, ep)
<1>1. /\ hostAddr # NoAddress /\ top = frame[0]
  BY TimedFacts DEF TimedInv, SetupFresh
<1>2. Attached  BY <1>1 DEF Inv, QuietBeforeAttach
<1>3. ie
  BY <1>1, <1>2 DEF TimedInv, MaskedBySetAddress, MainFindsNothing, MainPCs, AppPCs
<1>4. depth < MaxDepth  BY MaxDepthAssumption
<1>5. CASE Occurred(usb, "EORSTI")
  BY <1>2, <1>3, <1>5 DEF Inv, WakeArmed, Pending, GenPending, Occurred, IsEnabled
<1>6. CASE ~Occurred(usb, "EORSTI")
  BY <1>1, <1>3, <1>4, <1>6 DEF Inv, SetupArmed, Pending, ComPending
<1> QED  BY <1>5, <1>6

\* A request handler keeps all of it: the host has not moved since the handler
\* last waited, and nothing else is known of the contexts below.
LEMMA HandlerTimed ==
  ASSUME Inv, TimedInv, HandlerStep
  PROVE  TimedInv'
<1> USE DEF top, At, Code, Goto
<1>0. /\ HandlerFrame /\ HandlerStorage
      /\ usb \in UsbRecords /\ ep \in EpRecords /\ ie \in BOOLEAN
      /\ frame \in [Levels -> Frames] /\ depth \in Levels /\ depth \in Nat /\ 0 \in Levels
      /\ \A k \in 0 .. depth : k \in Levels
      /\ FrameOK(top) /\ (depth = 0 => top = frame[0])
      /\ depth > 0 => top = frame[depth] /\ depth \in 1 .. depth
  <2> HIDE DEF top
  <2>1. \A k \in 0 .. depth : k \in Levels
    BY TimedFacts, MaxDepthAssumption DEF Levels
  <2> QED  BY <2>1, TimedFacts, HandlerFrameStep, HandlerStorageStep
<1>1. /\ depth' = depth /\ UNCHANGED hostVars
      /\ \A k \in Levels : k # depth => frame'[k] = frame[k]
      /\ top.pc \in HandlerPCs
      /\ top'.pc \in HandlerPCs \cup {"restore", "exit"}
  BY <1>0 DEF HandlerFrame, HandlerStorage
<1>2. InterruptedWhereItWaits'
  BY <1>0, <1>1 DEF TimedInv, InterruptedWhereItWaits
<1>3. Attached' <=> Attached
  BY <1>0, <1>1 DEF Attached, HandlerFrame, HandlerPCs
<1>5. ep.setup => hostAddr # NoAddress
  BY DEF TimedInv, SetupFresh
<1>6. depth = 0 => top.pc \in {"read", "dispatch", "check"}
  BY <1>0, <1>1 DEF TimedInv, MainFindsNothing, HandlerPCs, MainPCs, AppPCs
<1>7. depth = 0 => (ep.setup => ie /\ Pending(usb, ep))
  BY MainInterrupted
<1> DEFINE Rest == /\ MaskedBySetAddress' /\ WaitsOfHandlers' /\ MainFindsNothing'
                   /\ SetupFresh' /\ HandlerCurrent' /\ OneBusEvent'
                   /\ SuspendedIsUnattached'
<1>8. SUFFICES Rest  BY <1>2 DEF TimedInv
<1> USE <1>0, <1>1, <1>3, <1>5, <1>6, <1>7
<1> USE DEF TimedInv, MaskedBySetAddress, WaitsOfHandlers, MainFindsNothing, SetupFresh,
            HandlerCurrent, OneBusEvent, SuspendedIsUnattached, Unread, Fresh, Asked,
            HurryPCs, LatePCs, StateOps, HandlerPCs, Frames, EpRecords, UsbRecords,
            Occurred, hostVars, appVars
<1>9. CASE ReadRequest
  <2>1. MaskedBySetAddress'  BY <1>9 DEF ReadRequest
  <2>2. WaitsOfHandlers'  BY <1>9 DEF ReadRequest
  <2>3. MainFindsNothing'  BY <1>9 DEF ReadRequest
  <2>4. SetupFresh'  BY <1>9 DEF ReadRequest
  <2>5. HandlerCurrent'  BY <1>9 DEF ReadRequest
  <2>6. OneBusEvent'  BY <1>9 DEF ReadRequest
  <2>7. SuspendedIsUnattached'  BY <1>9 DEF ReadRequest
  <2> QED  BY <2>1, <2>2, <2>3, <2>4, <2>5, <2>6, <2>7
<1>10. CASE Dispatch
  <2>1. MaskedBySetAddress'  BY <1>10 DEF Dispatch
  <2>2. WaitsOfHandlers'  BY <1>10 DEF Dispatch
  <2>3. MainFindsNothing'  BY <1>10 DEF Dispatch
  <2>4. SetupFresh'  BY <1>10 DEF Dispatch
  <2>5. HandlerCurrent'  BY <1>10 DEF Dispatch
  <2>6. OneBusEvent'  BY <1>10 DEF Dispatch
  <2>7. SuspendedIsUnattached'  BY <1>10 DEF Dispatch
  <2> QED  BY <2>1, <2>2, <2>3, <2>4, <2>5, <2>6, <2>7
<1>11. CASE ClearSETUP
  <2> USE DEF ClearSETUP, AfterClearSETUP, Handled, DeviceToHost, FrameOK, Operations
  <2>0. /\ top'.op = top.op /\ top.op \in Operations
        /\ top'.pc = AfterClearSETUP(top.op)
        /\ IF top.op = "SetAddress" THEN ie' = FALSE ELSE ie' = ie
    BY <1>11
  <2>1. MaskedBySetAddress'
    <3>1. CASE top.op = "SetAddress"
      BY <2>0, <3>1
    <3>2. CASE top.op # "SetAddress"
      <4>1. Attached' => ie'  BY <2>0, <3>2, <1>11
      <4> QED  BY <2>0, <3>2, <4>1
    <3> QED  BY <3>1, <3>2
  <2>2. WaitsOfHandlers'  BY <1>11
  <2>3. MainFindsNothing'  BY <1>11
  <2>4. SetupFresh'  BY <1>11
  <2>5. HandlerCurrent'  BY <1>11
  <2>6. OneBusEvent'  BY <1>11
  <2>7. SuspendedIsUnattached'  BY <1>11
  <2> QED  BY <2>1, <2>2, <2>3, <2>4, <2>5, <2>6, <2>7
<1>12. CASE StoreConfiguration
  BY <1>12 DEF StoreConfiguration
<1>13. CASE ReplyConfiguration
  BY <1>13 DEF ReplyConfiguration, DeviceToHost
<1>14. CASE StreamPacket
  BY <1>14 DEF StreamPacket
<1>15. CASE StreamAborted
  BY <1>15 DEF StreamAborted, FrameOK
<1>16. CASE StreamDone
  BY <1>16 DEF StreamDone, FrameOK
<1>17. CASE StreamDrain
  BY <1>17 DEF StreamDrain
<1>18. CASE ClearStatusStage
  BY <1>18 DEF ClearStatusStage, DeviceToHost, Operations, Handled
<1>19. CASE StatusIN
  BY <1>19 DEF StatusIN, AfterStatus
<1>20. CASE StatusOUT
  BY <1>20 DEF StatusOUT, AfterStatus
<1>21. CASE AdoptAddress
  <2>0. ie' = TRUE /\ top'.pc = "check"
    BY <1>21 DEF AdoptAddress
  <2>1. MaskedBySetAddress'  BY <2>0
  <2>2. WaitsOfHandlers'  BY <1>21 DEF AdoptAddress, Pending
  <2>3. MainFindsNothing'  BY <1>21 DEF AdoptAddress, Pending
  <2>4. SetupFresh'  BY <1>21 DEF AdoptAddress, Pending
  <2>5. HandlerCurrent'  BY <1>21 DEF AdoptAddress, Pending
  <2>6. OneBusEvent'  BY <1>21 DEF AdoptAddress, Pending
  <2>7. SuspendedIsUnattached'  BY <1>21 DEF AdoptAddress, Pending
  <2> QED  BY <2>1, <2>2, <2>3, <2>4, <2>5, <2>6, <2>7
<1>22. CASE AdoptConfiguration
  BY <1>22 DEF AdoptConfiguration, StateFromConfiguration
<1>23. CASE FinishDescriptor
  BY <1>23 DEF FinishDescriptor
<1>24. CASE StallUnhandled
  <2>1. MaskedBySetAddress'  BY <1>24 DEF StallUnhandled
  <2>2. WaitsOfHandlers'  BY <1>24 DEF StallUnhandled
  <2>0. frame'[depth].pc = IF depth = 0 THEN "restore" ELSE "exit"
    BY <1>24 DEF StallUnhandled
  <2>3. MainFindsNothing'  BY <2>0 DEF MainPCs
  <2>4. SetupFresh'  BY <1>24 DEF StallUnhandled
  <2>5. HandlerCurrent'  BY <1>24 DEF StallUnhandled
  <2>6. OneBusEvent'  BY <1>24 DEF StallUnhandled
  <2>7. SuspendedIsUnattached'  BY <1>24 DEF StallUnhandled
  <2> QED  BY <2>1, <2>2, <2>3, <2>4, <2>5, <2>6, <2>7
<1> QED
  BY <1>9, <1>10, <1>11, <1>12, <1>13, <1>14, <1>15, <1>16, <1>17, <1>18, <1>19, <1>20,
     <1>21, <1>22, <1>23, <1>24
  DEF HandlerStep

\* setup() and the main loop keep it: between two requests nothing is masked.
LEMMA MainTimed ==
  ASSUME Inv, TimedInv, MainStep
  PROVE  TimedInv'
<1> USE DEF At, Code, Goto
<1>0. /\ usb \in UsbRecords /\ ep \in EpRecords /\ ie \in BOOLEAN
      /\ frame \in [Levels -> Frames] /\ depth \in Levels /\ depth \in Nat /\ 0 \in Levels
      /\ top = frame[0] /\ depth = 0 /\ top.pc \in MainPCs
  <2>1. top.pc \in MainPCs
    BY DEF MainStep, Setup, AppCheckConfigured, AppSelectEndpoint, DeviceTask, PollSetup,
           RestoreEndpoint, MainPCs, AppPCs
  <2> QED  BY <2>1, TimedFacts
<1>1. depth' = 0 /\ UNCHANGED hostVars /\ UNCHANGED req
  BY <1>0 DEF MainStep, Setup, AppCheckConfigured, AppSelectEndpoint, DeviceTask,
              PollSetup,
              RestoreEndpoint
<1>2. InterruptedWhereItWaits' /\ WaitsOfHandlers'
  BY <1>1 DEF InterruptedWhereItWaits, WaitsOfHandlers
<1>3. /\ top' = frame'[0]
      /\ top'.pc \in MainPCs \cup {"read"}
  BY <1>0, <1>1
  DEF top, MainStep, Setup, AppCheckConfigured, AppSelectEndpoint, DeviceTask, PollSetup,
      RestoreEndpoint, MainPCs, AppPCs, Frames
<1> DEFINE Rest == /\ MaskedBySetAddress' /\ MainFindsNothing'
                   /\ SetupFresh' /\ HandlerCurrent' /\ OneBusEvent'
                   /\ SuspendedIsUnattached'
<1>4. SUFFICES Rest  BY <1>2 DEF TimedInv
<1> USE DEF TimedInv, MaskedBySetAddress, MainFindsNothing, SetupFresh,
            HandlerCurrent, OneBusEvent, SuspendedIsUnattached, Unread, Fresh, Asked,
            HurryPCs, LatePCs, MainPCs, AppPCs, Occurred, hostVars, Attached
<1>5. CASE Setup
  <2>1. /\ usb'.frozen = FALSE /\ "EORSTI" \notin usb'.int /\ "SUSPI" \notin usb'.int /\ ie' = TRUE
        /\ ep'.setup = FALSE
    BY <1>0, <1>5 DEF Setup, InitDevice, ResetInterface, UsbRecords, Enable, Clear,
       ConfigureControlEndpoint, EpPowerOn
  <2> QED  BY <1>0, <1>1, <1>3, <2>1
<1>6. CASE ~Setup
  <2>1. usb' = usb /\ ie' = ie /\ ep'.setup = ep.setup /\ ep'.inBusy = ep.inBusy
        /\ ep'.stall = ep.stall /\ ep'.rxstpe = ep.rxstpe /\ top.pc # "off"
    BY <1>0, <1>6 DEF MainStep, AppCheckConfigured, AppSelectEndpoint, DeviceTask,
                      PollSetup,
       RestoreEndpoint, EpRecords
  <2>2. Attached' <=> Attached
    BY <1>0, <1>3, <1>6, <2>1
    DEF MainStep, AppCheckConfigured, AppSelectEndpoint, DeviceTask, PollSetup,
        RestoreEndpoint, Frames
  <2> QED  BY <1>0, <1>1, <1>3, <2>1, <2>2
<1> QED  BY <1>5, <1>6

\* Serving a suspend, a wake-up and a reset keeps it (ISR(USB_GEN_vect)).
LEMMA GenTimed ==
  ASSUME Inv, TimedInv, UsbGenISR
  PROVE  TimedInv'
<1> DEFINE s == SuspendPart(usb)
           u == WakePart(s)
<1>0. /\ usb \in UsbRecords /\ ep \in EpRecords /\ ie = TRUE
      /\ s \in UsbRecords /\ u \in UsbRecords
  BY TimedFacts, GenPartsType DEF UsbGenISR
<1>1. /\ usb' = ResetPart(u) /\ ep' = ResetEndpointPart(u, ep)
      /\ UNCHANGED <<req, ie, depth, frame, hostVars>> /\ top' = top
  BY DEF UsbGenISR, top
<1>2. ep' = ep \/ (ep'.setup = FALSE /\ ep'.inBusy = FALSE /\ ep'.stall = FALSE)
  BY <1>1 DEF ResetEndpointPart, ConfigureControlEndpoint, EpPowerOn
<1>3. Attached /\ (Attached' <=> Attached)
  BY <1>0, <1>1 DEF Inv, QuietBeforeAttach, Attached
<1>4. ~("SUSPI" \in usb.int /\ "EORSTI" \in usb.int)
  BY <1>0, <1>3 DEF TimedInv, OneBusEvent, Occurred
<1>5. /\ "SUSPI" \in usb'.int => "SUSPI" \in usb.int
      /\ "EORSTI" \in usb'.int => "EORSTI" \in usb.int
      /\ usb'.frozen => usb.frozen \/ "SUSPI" \in usb.int
      /\ usb'.frozen => usb'.state = "Unattached"
  <2>1. /\ "SUSPI" \in s.int <=> "SUSPI" \in usb.int
        /\ "EORSTI" \in s.int <=> "EORSTI" \in usb.int
        /\ s.frozen => usb.frozen \/ "SUSPI" \in usb.int
        /\ s.frozen => s.state = "Unattached"
    BY <1>0
    DEF SuspendPart, SuspendDue, Occurred, Enable, Disable, UsbRecords, TimedInv,
        SuspendedIsUnattached
  <2> HIDE DEF s
  <2>2. /\ "SUSPI" \in u.int => "SUSPI" \in usb.int
        /\ "EORSTI" \in u.int => "EORSTI" \in usb.int
        /\ u.frozen => usb.frozen \/ "SUSPI" \in usb.int
        /\ u.frozen => u.state = "Unattached"
    BY <1>0, <2>1 DEF WakePart, Enable, Disable, Clear, UsbRecords
  <2> HIDE DEF u
  <2>3. ~(u.frozen /\ "EORSTI" \in u.int)
    BY <2>2, <1>4 DEF TimedInv, OneBusEvent, Occurred
  <2> QED
    BY <1>0, <1>1, <2>2, <2>3 DEF ResetPart, ResetDue, Occurred, Enable, Disable, Clear,
                                  UsbRecords
<1>6. ~(usb'.frozen /\ "EORSTI" \in usb'.int)
  BY <1>4, <1>5 DEF TimedInv, OneBusEvent, Occurred
<1> HIDE DEF u, s
<1> USE DEF TimedInv, MaskedBySetAddress, MainFindsNothing, InterruptedWhereItWaits,
            WaitsOfHandlers, SetupFresh,
            HandlerCurrent, OneBusEvent, SuspendedIsUnattached, Unread, Fresh, Asked,
            HurryPCs, LatePCs, StateOps, Occurred, hostVars, At
<1>7. MaskedBySetAddress' /\ MainFindsNothing' /\ InterruptedWhereItWaits' /\ WaitsOfHandlers'
  BY <1>1, <1>2, <1>3
<1>8. SetupFresh'  BY <1>0, <1>1, <1>2, <1>5
<1>9. HandlerCurrent'  BY <1>0, <1>1, <1>2, <1>3, <1>5
<1>10. OneBusEvent' /\ SuspendedIsUnattached'  BY <1>1, <1>4, <1>5, <1>6
<1> QED  BY <1>7, <1>8, <1>9, <1>10

\* USB_COM interrupts only a context that waits for the host, and its SETUP is
\* the one the host is waiting for.
LEMMA ComTimed ==
  ASSUME Inv, TimedInv, UsbComISR \/ RearmSetup \/ ReturnFromISR
  PROVE  TimedInv'
<1>0. /\ usb \in UsbRecords /\ ep \in EpRecords /\ ie \in BOOLEAN
      /\ frame \in [Levels -> Frames] /\ depth \in Levels /\ depth \in Nat /\ 0 \in Levels
      /\ depth > 0 => top = frame[depth] /\ depth \in 1 .. depth
      /\ depth = 0 => top = frame[0]
      /\ top.pc \in ExitPCs => depth > 0
  BY TimedFacts
<1>1. UNCHANGED <<usb, req, hostVars>>
      /\ ep'.setup = ep.setup /\ ep'.inBusy = ep.inBusy /\ ep'.stall = ep.stall
  BY <1>0 DEF UsbComISR, RearmSetup, ReturnFromISR, EpRecords
<1> USE DEF TimedInv, MaskedBySetAddress, MainFindsNothing, InterruptedWhereItWaits,
            WaitsOfHandlers, SetupFresh,
            HandlerCurrent, OneBusEvent, SuspendedIsUnattached, Unread, Fresh, Asked,
            HurryPCs, LatePCs, StateOps, Occurred, hostVars, At
<1>2. CASE UsbComISR
  <2>1. /\ depth + 1 \in Levels /\ depth' = depth + 1 /\ depth + 1 # 0
        /\ ep.setup /\ ep.rxstpe /\ depth < MaxDepth /\ ie = TRUE /\ ie' = TRUE
        /\ ep'.rxstpe = FALSE
    BY <1>0, <1>2, TopLevel, TimedFacts DEF UsbComISR, ComPending, Levels, EpRecords
  <2>2. /\ top' = frame'[depth + 1] /\ top'.pc = "read" /\ top'.op = "none"
        /\ \A k \in 0 .. depth : frame'[k] = frame[k]
    BY <1>0, <1>2, <2>1 DEF UsbComISR, top, IdleFrame
  <2>3. Attached /\ (Attached' <=> Attached)
    BY <1>0, <2>1, <2>2 DEF Inv, QuietBeforeAttach, Attached
  <2>4. Fresh  BY <2>1
  <2>5. ASSUME depth > 0
        PROVE  /\ top.pc \in {"stream", "drain", "out", "finish", "check"} \cup ExitPCs
               /\ top.pc = "finish" => top.op \notin StateOps
    <3>1. top.pc \in HandlerPCs \cup ExitPCs
      BY <1>0, <2>5, TimedFacts DEF StackShape
    <3> QED  BY <2>1, <2>3, <2>5, <3>1 DEF HandlerPCs
  <2>6. MaskedBySetAddress'  BY <2>1, <2>2
  <2>7. MainFindsNothing'  BY <1>0, <1>1, <2>1, <2>2
  <2>8. InterruptedWhereItWaits'
    BY <1>0, <2>1, <2>2, <2>5
  <2>9. WaitsOfHandlers'
    BY <1>0, <2>1, <2>2
  <2>10. SetupFresh'  BY <1>1, <2>1, <2>2, <2>4
  <2>11. HandlerCurrent'  BY <2>2
  <2>12. OneBusEvent' /\ SuspendedIsUnattached'  BY <1>1, <2>1, <2>3
  <2> QED  BY <2>6, <2>7, <2>8, <2>9, <2>10, <2>11, <2>12
<1>3. CASE RearmSetup
  <2>1. /\ top.pc = "exit" /\ depth' = depth /\ ie' = ie /\ depth > 0
        /\ top'.pc = "leave" /\ top'.op = top.op
        /\ \A k \in Levels : k # depth => frame'[k] = frame[k]
    BY <1>0, <1>3 DEF RearmSetup, Code, Goto, top, Frames, ExitPCs
  <2>2. Attached' <=> Attached  BY <1>0, <2>1 DEF Attached
  <2>3. \A k \in 0 .. depth : k \in Levels
    BY <1>0, MaxDepthAssumption DEF Levels
  <2>4. top' = frame'[depth]  BY <2>1 DEF top
  <2>5. MaskedBySetAddress' /\ MainFindsNothing'  BY <1>0, <1>1, <2>1, <2>2
  <2>6. InterruptedWhereItWaits'  BY <1>0, <2>1, <2>3
  <2>7. WaitsOfHandlers'  BY <1>0, <2>1, <2>3, <2>4
  <2>8. SetupFresh'  BY <1>1, <2>1
  <2>9. HandlerCurrent' /\ OneBusEvent' /\ SuspendedIsUnattached'
    BY <1>1, <2>1, <2>2
  <2> QED  BY <2>5, <2>6, <2>7, <2>8, <2>9
<1>4. CASE ReturnFromISR
  <2>1. /\ top.pc = "leave" /\ depth' = depth - 1 /\ ie' = ie /\ depth > 0
        /\ depth - 1 \in 0 .. depth
        /\ \A k \in Levels : k # depth => frame'[k] = frame[k]
    BY <1>0, <1>4 DEF ReturnFromISR, ExitPCs
  <2>2. \A k \in 0 .. depth : k \in Levels
    BY <1>0, MaxDepthAssumption DEF Levels
  <2>3. /\ top' = frame[depth - 1]
        /\ \A k \in 0 .. depth - 1 : frame'[k] = frame[k]
    BY <1>0, <2>1, <2>2 DEF top
  <2>4. Attached' <=> Attached  BY <1>0, <2>1 DEF Attached
  <2>5. Attached => ie  BY <2>1
  <2>6. /\ depth - 1 > 0 =>
             /\ top'.pc \in {"stream", "drain", "out", "finish", "check"} \cup ExitPCs
             /\ top'.pc = "finish" => top'.op \notin StateOps
        /\ depth - 1 = 0 => top'.pc \in MainPCs \cup {"read"}
    <3>1. CASE depth - 1 = 0  BY <1>0, <2>1, <2>3, <3>1
    <3>2. CASE depth - 1 > 0
      <4>1. depth - 1 \in 1 .. depth - 1  BY <1>0, <3>2
      <4> QED  BY <2>3, <3>2, <4>1
    <3> QED  BY <1>0, <2>1, <3>1, <3>2
  <2>7. MaskedBySetAddress'
    <3>1. ~(top'.op = "SetAddress" /\ top'.pc \in {"status", "in", "finish"})
      BY <1>0, <2>1, <2>6 DEF MainPCs, AppPCs, ExitPCs
    <3>2. Attached' => ie'  BY <2>1, <2>4, <2>5
    <3> QED  BY <3>1, <3>2
  <2>8. MainFindsNothing'  BY <1>0, <1>1, <2>1, <2>3
  <2>9. InterruptedWhereItWaits'  BY <1>0, <2>1, <2>3
  <2>10. WaitsOfHandlers'  BY <1>0, <2>1, <2>3
  <2>11. Fresh' \/ ~ep'.setup  BY <1>1, <2>1
  <2>12. SetupFresh'
    BY <1>0, <1>1, <2>1, <2>6, <2>11 DEF MainPCs, AppPCs, ExitPCs
  <2>13. HandlerCurrent'
    BY <1>0, <2>1, <2>6 DEF MainPCs, AppPCs, ExitPCs
  <2>14. OneBusEvent' /\ SuspendedIsUnattached'  BY <1>1, <2>1, <2>4
  <2> QED  BY <2>7, <2>8, <2>9, <2>10, <2>12, <2>13, <2>14
<1> QED  BY <1>2, <1>3, <1>4

\* What the host may find when it begins something new: no handler that hurries,
\* no unread SETUP, and a masked interrupt only where SetAddress waits.
LEMMA QuietMeansRead ==
  ASSUME Inv, TimedInv, Attached, Quiet
  PROVE  /\ ~Unread
         /\ top.pc \notin HurryPCs \cup {"read", "dispatch", "check"}
         /\ At("finish") => top.op = "SetAddress"
         /\ Occurred(usb, "EORSTI") => ~ie /\ At("finish") /\ ep.inBusy
         /\ depth = 0 => ~ep.setup
         /\ depth = 0 => ie
<1> USE DEF At, Occurred
<1>0. /\ depth \in Nat /\ (top.pc \in MainPCs => depth = 0)
      /\ depth = 0 => top = frame[0]
  BY TimedFacts
<1>1. /\ ~(ie /\ Pending(usb, ep))
      /\ Waiting \/ (depth = 0 /\ top.pc \in AppPCs \cup {"poll", "restore"})
  BY DEF Quiet
<1>2. At("in") => ~Waiting
  BY DEF Waiting, TimedInv, HandlerCurrent, HurryPCs
<1>3. /\ top.pc \notin HurryPCs \cup {"read", "dispatch", "check"}
      /\ At("finish") => top.op = "SetAddress" /\ ep.inBusy
  BY <1>1, <1>2 DEF Waiting, HurryPCs, AppPCs
<1>4. ~ie => At("finish") /\ ep.inBusy
  BY <1>3 DEF TimedInv, MaskedBySetAddress, HurryPCs
<1>5. Occurred(usb, "EORSTI") => ~ie
  BY <1>1 DEF Inv, WakeArmed, Pending, GenPending, IsEnabled
<1>6. depth = 0 => ~ep.setup /\ ie
  <2>1. depth = 0 => ~ep.setup  BY <1>1, MainInterrupted
  <2>2. depth = 0 => ie
    BY <1>0, <1>4 DEF TimedInv, MainFindsNothing, MainPCs, AppPCs
  <2> QED  BY <2>1, <2>2
<1>7. ~Unread
  <2> SUFFICES ASSUME Unread PROVE FALSE  OBVIOUS
  <2>1. ep.setup /\ ~ep.inBusy  BY DEF TimedInv, SetupFresh, Fresh, Unread
  <2>2. ie  BY <1>4, <2>1
  <2>3. CASE ep.rxstpe /\ depth < MaxDepth
    BY <1>1, <2>1, <2>2, <2>3 DEF Pending, ComPending
  <2>4. CASE top.pc \notin LatePCs
    <3>1. depth = 0  BY <1>1, <2>4 DEF Waiting, LatePCs
    <3> QED  BY <1>6, <2>1, <3>1
  <2> QED  BY <2>3, <2>4 DEF Unread
<1> QED  BY <1>3, <1>4, <1>5, <1>6, <1>7

\* The bus and the host keep it if they are no faster than PromptCode says.
LEMMA OutsideTimed ==
  ASSUME Inv, TimedInv, PromptCode, BusStep \/ HostStep
  PROVE  TimedInv'
<1> DEFINE Paced == SuspendDetected \/ BusActive \/ BusReset \/ HostRecovery \/ HostAbort
                    \/ \E r \in Requests : HostSetup(r)
           Setups == \E r \in Requests : HostSetup(r)
<1>0. /\ OutsideEffect
      /\ usb \in UsbRecords /\ ep \in EpRecords /\ pkt \in ControlRequests
  BY TimedFacts, OutsideStep DEF TypeOK
<1>1. /\ UNCHANGED <<req, ie, depth, frame>> /\ top' = top
      /\ usb'.frozen = usb.frozen /\ ep'.rxstpe = ep.rxstpe
      /\ Attached' <=> Attached
  BY <1>0 DEF OutsideEffect, top, Attached
<1>2. /\ usb'.state = usb.state
      /\ "EORSTI" \in usb'.int => "EORSTI" \in usb.int \/ BusReset
      /\ "SUSPI" \in usb'.int => "SUSPI" \in usb.int \/ SuspendDetected
      /\ "SUSPI" \in usb'.int => ep'.inBusy = ep.inBusy
      /\ ep'.setup => ep.setup \/ Setups
      /\ ep'.inBusy => ep.inBusy
      /\ ep'.stall => ep.stall
  <2> USE DEF UsbRecords, EpRecords, LineActivity, IdleDetected, BusResetSeen,
              EndpointReset,
              Hardware
  <2>1. CASE BusIdle  BY <2>1 DEF BusIdle
  <2>2. CASE SuspendDetected  BY <1>0, <2>2 DEF SuspendDetected
  <2>3. CASE BusResume  BY <1>0, <2>3 DEF BusResume
  <2>4. CASE BusActive  BY <2>4 DEF BusActive
  <2>5. CASE BusReset  BY <1>0, <2>5 DEF BusReset
  <2>6. CASE HostRecovery  BY <2>6 DEF HostRecovery
  <2>7. CASE HostIn  BY <1>0, <2>7 DEF HostIn
  <2>8. CASE HostOut  BY <1>0, <2>8 DEF HostOut
  <2>9. CASE HostStalled  BY <2>9 DEF HostStalled
  <2>10. CASE HostAbort  BY <2>10 DEF HostAbort
  <2>11. CASE Setups  BY <1>0, <2>11 DEF HostSetup
  <2> QED  BY <2>1, <2>2, <2>3, <2>4, <2>5, <2>6, <2>7, <2>8, <2>9, <2>10, <2>11
           DEF BusStep, HostStep
<1>3. ~Setups => UNCHANGED pkt
  BY DEF BusStep, HostStep, BusIdle, SuspendDetected, BusResume, BusActive, BusReset,
         HostRecovery, HostIn, HostOut, HostStalled, HostAbort, hostVars
<1>4. ~Paced /\ Asked /\ ~ep.inBusy /\ ~ep.stall => UNCHANGED xfer
  BY DEF BusStep, HostStep, BusIdle, BusResume,
         HostIn, HostOut, HostStalled, hostVars, Asked
<1>5. hostAddr # NoAddress => hostAddr' # NoAddress
  <2>1. 0 # NoAddress /\ (pkt.op = "SetAddress" => pkt.val # NoAddress)
    BY <1>0, ControlRequestsType DEF NoAddress, Addresses
  <2> QED
    BY <2>1 DEF BusStep, HostStep, BusIdle, SuspendDetected, BusResume, BusActive,
                BusReset,
       HostRecovery, HostIn, HostOut, HostStalled, HostAbort, HostSetup, hostVars
<1>6. Paced => Quiet
  BY DEF SuspendDetected, BusActive, BusReset, HostRecovery, HostAbort, HostSetup,
         HostPaced
<1>7. Setups => /\ Asked' /\ ~ep'.inBusy /\ ~ep'.stall /\ ~usb'.frozen
                /\ "SUSPI" \notin usb'.int /\ Attached /\ hostAddr # NoAddress
  BY <1>0, <1>1 DEF HostSetup, Talking, Hardware, LineActivity, UsbRecords, EpRecords,
                    Asked
<1>8. BusReset => ~usb.frozen /\ "SUSPI" \notin usb'.int /\ ~ep'.setup /\ Attached
  BY <1>0 DEF BusReset, Hardware, BusResetSeen, LineActivity, UsbRecords, EpRecords,
              EndpointReset
<1>9. SuspendDetected => Attached /\ ~usb.frozen  BY DEF SuspendDetected
<1> HIDE DEF Paced, Setups
<1> USE DEF TimedInv, MaskedBySetAddress, MainFindsNothing, InterruptedWhereItWaits,
            WaitsOfHandlers, SetupFresh,
            HandlerCurrent, OneBusEvent, SuspendedIsUnattached, Unread, Fresh, Asked,
            HurryPCs, LatePCs, StateOps, Occurred, hostVars, At
<1>10. MaskedBySetAddress' /\ InterruptedWhereItWaits' /\ WaitsOfHandlers' /\ SuspendedIsUnattached'
  BY <1>1, <1>2
<1>11. Paced /\ Attached =>
         /\ ~Unread /\ top.pc \notin HurryPCs \cup {"read", "dispatch", "check"}
         /\ At("finish") => top.op = "SetAddress"
         /\ Occurred(usb, "EORSTI") => ~ie /\ At("finish") /\ ep.inBusy
  BY <1>6, QuietMeansRead
<1>12. Setups => Paced /\ Attached  BY <1>7 DEF Paced, Setups
<1>13. MainFindsNothing'
  <2>1. frame[0].pc \in {"dispatch", "check"} => ~Setups
    <3>1. CASE depth = 0  BY <3>1, <1>11, <1>12, TimedFacts
    <3> QED  BY <3>1
  <2> QED  BY <1>1, <1>2, <2>1
<1>14. SetupFresh'
  <2>1. CASE Setups
    BY <1>1, <1>5, <1>7, <1>11, <1>12, <2>1
  <2>2. CASE ~Setups /\ Paced
    <3>1. ep'.setup => ep.setup /\ hostAddr # NoAddress /\ Attached
      BY <1>2, <2>2 DEF Inv, QuietBeforeAttach
    <3> QED  BY <1>1, <1>3, <1>5, <1>11, <2>2, <3>1
  <2>3. CASE ~Paced
    <3>1. ~Setups /\ ~SuspendDetected  BY <2>3 DEF Paced, Setups
    <3>2. "SUSPI" \in usb'.int => "SUSPI" \in usb.int
      BY <1>2, <3>1
    <3>3. Unread' => Unread  BY <1>1, <1>2, <3>1
    <3>4. Unread => Fresh  OBVIOUS
    <3>5. Unread' => Fresh'
      BY <1>1, <1>2, <1>3, <1>4, <2>3, <3>1, <3>3, <3>4
    <3> QED  BY <1>1, <1>2, <1>3, <1>5, <3>1, <3>5
  <2> QED  BY <2>1, <2>2, <2>3
<1>15. HandlerCurrent'
  <2>1. CASE Paced /\ Attached
    BY <1>1, <1>2, <1>3, <1>11, <2>1
  <2>2. CASE ~Attached
    <3>1. top.pc = "off"
      BY <2>2, TimedFacts DEF Inv, QuietBeforeAttach, Attached
    <3> QED  BY <1>1, <3>1
  <2>3. CASE ~Paced
    <3>1. ~Setups /\ ~SuspendDetected  BY <2>3 DEF Paced, Setups
    <3> QED  BY <1>1, <1>2, <1>3, <1>4, <2>3, <3>1
  <2> QED  BY <2>1, <2>2, <2>3
<1>16. OneBusEvent'
  <2>1. "EORSTI" \in usb'.int /\ "SUSPI" \in usb'.int =>
          "EORSTI" \in usb.int /\ ep'.inBusy = ep.inBusy
    BY <1>2, <1>8
  <2>2. CASE SuspendDetected
    <3>1. Paced /\ Attached  BY <1>9, <2>2 DEF Paced
    <3> QED  BY <1>1, <1>2, <1>8, <1>9, <1>11, <2>1, <2>2, <3>1
  <2>3. CASE ~SuspendDetected
    BY <1>1, <1>2, <1>8, <2>1, <2>3
  <2> QED  BY <2>2, <2>3
<1> QED  BY <1>10, <1>13, <1>14, <1>15, <1>16

\* Before setup() the timing says nothing.
LEMMA TimedInit == Init => TimedInv
<1> SUFFICES ASSUME Init PROVE TimedInv  OBVIOUS
<1>1. /\ depth = 0 /\ top = frame[0] /\ frame[0].pc = "off" /\ ~ie /\ hostAddr = NoAddress
      /\ usb = UsbPowerOn /\ ep = EpPowerOn
  BY MaxDepthAssumption DEF Init, IdleFrame, Levels, top
<1> QED
  BY <1>1
  DEF TimedInv, MaskedBySetAddress, MainFindsNothing, InterruptedWhereItWaits,
      WaitsOfHandlers, SetupFresh, HandlerCurrent, OneBusEvent, SuspendedIsUnattached,
      Unread, HurryPCs, StateOps, Occurred, At, Attached, MainPCs, UsbPowerOn, EpPowerOn

\* The invariant of a device that outruns its host.
THEOREM TimedInvariant ==
  ASSUME PromptCode
  PROVE  Spec => [](Inv /\ TimedInv)
<1>1. Init => Inv /\ TimedInv  BY InvInit, TimedInit
<1>2. Inv /\ TimedInv /\ [Next]_vars => (Inv /\ TimedInv)'
  <2> SUFFICES ASSUME Inv, TimedInv, [Next]_vars PROVE TimedInv'
    BY InvNext
  <2>1. CASE UNCHANGED vars
    BY <2>1
    DEF vars, cpuVars, appVars, hostVars, TimedInv, MaskedBySetAddress, MainFindsNothing,
        InterruptedWhereItWaits, WaitsOfHandlers, SetupFresh, HandlerCurrent, OneBusEvent,
        SuspendedIsUnattached, Unread, Fresh, Asked, Occurred, At, Attached, top
  <2>2. CASE MainStep  BY <2>2, MainTimed
  <2>3. CASE InterruptStep  BY <2>3, GenTimed, ComTimed DEF InterruptStep
  <2>4. CASE HandlerStep  BY <2>4, HandlerTimed
  <2>5. CASE BusStep \/ HostStep  BY <2>5, OutsideTimed
  <2> QED  BY <2>1, <2>2, <2>3, <2>4, <2>5 DEF Next, CpuStep
<1> QED  BY <1>1, <1>2, PTL DEF Spec

\* A nested USB_COM never overwrites a USB_ControlRequest that the interrupted
\* activation still has to read (USBInterrupt.c:147, DeviceStandardReq.c:133).
THEOREM AlwaysRequestStable ==
  ASSUME PromptCode
  PROVE  Spec => []RequestStable
<1>1. TimedInv => RequestStable
  BY DEF TimedInv, InterruptedWhereItWaits, RequestStable, ExitPCs
<1> QED  BY <1>1, TimedInvariant, PTL

\* No handler and no bus reset stores a state over that of a suspended device
\* (USBInterrupt.c:88, DeviceStandardReq.c:142).
THEOREM AlwaysSuspendedIsUnattached ==
  ASSUME PromptCode
  PROVE  Spec => []SuspendedIsUnattached
<1>1. TimedInv => SuspendedIsUnattached  BY DEF TimedInv
<1> QED  BY <1>1, TimedInvariant, PTL

(***************************************************************************)
(* What a host that is told a request succeeded may rely on.               *)
(***************************************************************************)

\* A SETUP in the bank has thrown away whatever was to be sent.
SetupEmptiesBank == ep.setup => ~ep.inBusy

\* A bus reset is served before the host has recovered from it.
ResetServedFirst ==
  /\ ~Attached => xfer = "none"
  /\ Attached /\ Occurred(usb, "EORSTI") =>
       /\ xfer = "recovery" /\ ~ep.setup /\ ~At("setup")
       /\ ~ie => At("finish") /\ ~ep.inBusy

\* Once its SETUP is neither pending nor stalled, the number is in use.
NumberStored ==
  xfer = "in" /\ pkt.op = "SetConfiguration" /\ ~ep.setup /\ ~ep.stall =>
    At("number") \/ usb.cfg = pkt.val

AnswerInv == SetupEmptiesBank /\ ResetServedFirst /\ NumberStored

\* The first two parts of ISR(USB_GEN_vect) leave configuration and reset alone.
LEMMA WakePartsKeep ==
  ASSUME NEW v \in UsbRecords
  PROVE  /\ WakePart(SuspendPart(v)) \in UsbRecords
         /\ WakePart(SuspendPart(v)).cfg = v.cfg
         /\ "EORSTI" \in WakePart(SuspendPart(v)).int => "EORSTI" \in v.int
<1> DEFINE s == SuspendPart(v)
<1>1. s \in UsbRecords /\ WakePart(s) \in UsbRecords
  BY GenPartsType
<1>2. s.cfg = v.cfg /\ ("EORSTI" \in s.int => "EORSTI" \in v.int)
  BY DEF SuspendPart, Enable, Disable, UsbRecords
<1> HIDE DEF s
<1>3. /\ WakePart(s).cfg = s.cfg
      /\ "EORSTI" \in WakePart(s).int => "EORSTI" \in s.int
  <2>1. CASE WakeDue(s)
    BY <1>1, <2>1 DEF WakePart, Enable, Disable, Clear, UsbRecords
  <2>2. CASE ~WakeDue(s)
    BY <2>2 DEF WakePart
  <2> QED BY <2>1, <2>2
<1> QED BY <1>1, <1>2, <1>3 DEF s

\* A request handler keeps it: it fills the bank only where it has found no
\* SETUP, and what it clears it has handled or stalled.
LEMMA AnswerHandler ==
  ASSUME Inv, TimedInv, AnswerInv, HandlerStep
  PROVE  AnswerInv'
<1> USE DEF Code, Goto
<1>0. /\ HandlerFrame /\ HandlerStorage
      /\ usb \in UsbRecords /\ ep \in EpRecords /\ ie \in BOOLEAN
      /\ frame \in [Levels -> Frames] /\ depth \in Levels /\ 0 \in Levels
  BY TimedFacts, HandlerFrameStep, HandlerStorageStep
<1>1. /\ depth' = depth /\ UNCHANGED hostVars
      /\ top.pc \in HandlerPCs
      /\ top = frame[depth] /\ top' = frame'[depth]
  BY <1>0 DEF HandlerFrame, HandlerStorage, top
<1>2. Attached' <=> Attached
  BY <1>0, <1>1 DEF Attached, HandlerFrame, HandlerPCs
<1>3. /\ xfer' = xfer /\ pkt' = pkt
      /\ "EORSTI" \in usb'.int <=> "EORSTI" \in usb.int
      /\ usb'.cfg = usb.cfg \/ StoreConfiguration
  <2>1. CASE StoreConfiguration
    BY <1>0, <1>1, <2>1 DEF StoreConfiguration, UsbRecords, hostVars
  <2>2. CASE AdoptAddress
    BY <1>0, <1>1, <2>2 DEF AdoptAddress, UsbRecords, hostVars
  <2>3. CASE AdoptConfiguration
    BY <1>0, <1>1, <2>3 DEF AdoptConfiguration, UsbRecords, hostVars
  <2>4. CASE UNCHANGED usb
    BY <1>1, <2>4 DEF hostVars
  <2> QED
    BY <2>1, <2>2, <2>3, <2>4
    DEF HandlerStep, ReadRequest, Dispatch, ClearSETUP, ReplyConfiguration, StreamPacket,
        StreamAborted, StreamDone, StreamDrain, ClearStatusStage, StatusIN, StatusOUT,
        FinishDescriptor, StallUnhandled
<1>4. /\ ep'.setup => ep.setup
      /\ ep'.stall \/ ~ep.stall
      /\ ep'.inBusy => ep.inBusy \/ ~ep.setup
  <2>1. top.pc \in {"reply", "in"} => ~ep.setup
    BY DEF TimedInv, HandlerCurrent, HurryPCs
  <2> QED
    BY <1>0, <2>1
    DEF HandlerStep, ReadRequest, Dispatch, ClearSETUP, ReplyConfiguration, StreamPacket,
        StreamAborted, StreamDone, StreamDrain, ClearStatusStage, StatusIN, StatusOUT,
        FinishDescriptor, StallUnhandled, StoreConfiguration, AdoptAddress,
        AdoptConfiguration, EpRecords, At
<1>5. SetupEmptiesBank'
  BY <1>4 DEF AnswerInv, SetupEmptiesBank
<1>6. ResetServedFirst'
  <2> SUFFICES ASSUME Attached, "EORSTI" \in usb.int
               PROVE  /\ xfer = "recovery" /\ ~ep'.setup /\ top'.pc # "setup"
                      /\ ~ie' => top'.pc = "finish" /\ ~ep'.inBusy
    BY <1>2, <1>3 DEF AnswerInv, ResetServedFirst, Occurred, At
  <2>1. /\ xfer = "recovery" /\ ~ep.setup /\ top.pc # "setup"
        /\ ~ie => top.pc = "finish" /\ top.op = "SetAddress" /\ ~ep.inBusy
    BY DEF AnswerInv, ResetServedFirst, Occurred, At, TimedInv, MaskedBySetAddress
  <2>2. top'.pc # "setup"
    <3>1. CASE Dispatch
      <4>1. frame' = [frame EXCEPT ![depth] = [@ EXCEPT !.pc = "check"]]
        BY <2>1, <3>1 DEF Dispatch
      <4> QED BY <1>0, <1>1, <4>1 DEF Frames
    <3>2. CASE StallUnhandled
      BY <1>0, <1>1, <3>2 DEF StallUnhandled, Frames
    <3>3. CASE ~Dispatch /\ ~StallUnhandled
      BY <1>0, <1>1, <2>1, <3>3
      DEF HandlerStep, ReadRequest, ClearSETUP, ReplyConfiguration, StreamPacket,
          StreamAborted, StreamDone, StreamDrain, ClearStatusStage, StatusIN, StatusOUT,
          FinishDescriptor, StoreConfiguration, AdoptAddress,
          AdoptConfiguration, AfterStatus, Frames, At
    <3> QED BY <3>1, <3>2, <3>3
  <2>3. ie' = ie \/ ie' = TRUE
    BY <2>1
    DEF HandlerStep, ReadRequest, Dispatch, ClearSETUP, ReplyConfiguration, StreamPacket,
        StreamAborted, StreamDone, StreamDrain, ClearStatusStage, StatusIN, StatusOUT,
        FinishDescriptor, StallUnhandled, StoreConfiguration, AdoptAddress,
        AdoptConfiguration, At
  <2>4. ASSUME ~ie, ~ie' PROVE FALSE
    <3>1. top.pc = "finish" /\ top.op = "SetAddress"
      BY <2>1, <2>4
    <3>2. AdoptAddress
      BY <3>1
      DEF HandlerStep, ReadRequest, Dispatch, ClearSETUP, ReplyConfiguration, StreamPacket,
          StreamAborted, StreamDone, StreamDrain, ClearStatusStage, StatusIN, StatusOUT,
          FinishDescriptor, StallUnhandled, StoreConfiguration, AdoptAddress,
          AdoptConfiguration, At
    <3> QED BY <2>4, <3>2 DEF AdoptAddress
  <2> QED BY <1>4, <2>1, <2>2, <2>3, <2>4
<1>7. NumberStored'
  <2> SUFFICES ASSUME xfer = "in", pkt.op = "SetConfiguration", ~ep'.setup, ~ep'.stall
               PROVE  top'.pc = "number" \/ usb'.cfg = pkt.val
    BY <1>3 DEF NumberStored, At
  <2>1. CASE ClearSETUP
    <3>1. top.pc = "setup" /\ req = pkt /\ req.op = top.op
      BY <2>1 DEF ClearSETUP, At, TimedInv, HandlerCurrent
    <3> QED BY <1>0, <1>1, <2>1, <3>1 DEF ClearSETUP, AfterClearSETUP, Frames
  <2>2. CASE StoreConfiguration
    <3>1. top.pc = "number" /\ req = pkt
      BY <2>2 DEF StoreConfiguration, At, TimedInv, HandlerCurrent
    <3> QED BY <1>0, <2>2, <3>1 DEF StoreConfiguration, WValue, UsbRecords
  <2>3. CASE ~ClearSETUP /\ ~StoreConfiguration
    <3>1. ~ep.setup /\ ~ep.stall
      BY <1>0, <1>4, <2>3
      DEF HandlerStep, ReadRequest, Dispatch, ReplyConfiguration, StreamPacket,
          StreamAborted, StreamDone, StreamDrain, ClearStatusStage, StatusIN, StatusOUT,
          FinishDescriptor, StallUnhandled, AdoptAddress, AdoptConfiguration, EpRecords
    <3>2. top.pc # "number"
      BY <2>3
      DEF HandlerStep, ReadRequest, Dispatch, ReplyConfiguration, StreamPacket,
          StreamAborted, StreamDone, StreamDrain, ClearStatusStage, StatusIN, StatusOUT,
          FinishDescriptor, StallUnhandled, AdoptAddress, AdoptConfiguration, At
    <3>3. usb.cfg = pkt.val
      BY <3>1, <3>2 DEF AnswerInv, NumberStored, At
    <3> QED BY <1>3, <2>3, <3>3
  <2> QED BY <2>1, <2>2, <2>3
<1> QED BY <1>5, <1>6, <1>7 DEF AnswerInv

\* So do the main program and the two interrupts: USB_GEN is the one that ends
\* the recovery, and USB_COM needs a SETUP.
LEMMA AnswerProgram ==
  ASSUME Inv, TimedInv, AnswerInv, MainStep \/ InterruptStep
  PROVE  AnswerInv'
<1> USE DEF Code, Goto
<1>0. /\ usb \in UsbRecords /\ ep \in EpRecords /\ ie \in BOOLEAN
      /\ frame \in [Levels -> Frames] /\ depth \in Levels /\ depth \in Nat
      /\ 0 \in Levels /\ FrameOK(top)
      /\ depth = 0 => top = frame[0]
      /\ top.pc \in MainPCs => depth = 0
  BY TimedFacts
<1>1. xfer' = xfer /\ pkt' = pkt
  BY DEF MainStep, InterruptStep, Setup, AppCheckConfigured, AppSelectEndpoint,
         DeviceTask, PollSetup, RestoreEndpoint, UsbGenISR, UsbComISR, RearmSetup,
         ReturnFromISR, hostVars
<1>2. CASE Setup
  <2>1. frame[0].pc = "off" /\ xfer = "none"
    BY <1>0, <1>2 DEF Setup, At, MainPCs, AnswerInv, ResetServedFirst, Attached
  <2>2. ep'.setup = FALSE
    BY <1>2 DEF Setup, ConfigureControlEndpoint, EpPowerOn
  <2>3. "EORSTI" \notin usb'.int
    <3> DEFINE u == ResetInterface(usb)
    <3>0. u \in UsbRecords
      BY <1>0, InitPartsType
    <3>1. u \in UsbRecords /\ u.int = {}
      BY <1>0, <3>0 DEF ResetInterface, UsbRecords
    <3>2. usb' = InitDevice(u)
      BY <1>2 DEF Setup
    <3> HIDE DEF u
    <3> QED BY <3>1, <3>2 DEF InitDevice, Enable, Clear, UsbRecords
  <2> QED BY <1>1, <2>1, <2>2, <2>3
          DEF AnswerInv, SetupEmptiesBank, ResetServedFirst, NumberStored, Occurred
<1>3. CASE MainStep /\ ~Setup
  <2>1. /\ usb' = usb /\ ie' = ie /\ depth' = 0 /\ depth = 0
        /\ ep'.setup = ep.setup /\ ep'.inBusy = ep.inBusy /\ ep'.stall = ep.stall
        /\ top.pc \in MainPCs \ {"off"}
        /\ frame'[0].pc \in {"send", "app", "poll", "read", "restore"}
    BY <1>0, <1>3
    DEF MainStep, AppCheckConfigured, AppSelectEndpoint, DeviceTask, PollSetup,
        RestoreEndpoint, MainPCs, AppPCs, At, EpRecords, Frames
  <2>2. /\ top = frame[0] /\ top' = frame'[0]
    BY <1>0, <2>1 DEF top
  <2>3. Attached /\ Attached'
    BY <2>1, <2>2 DEF Attached, MainPCs, AppPCs
  <2>4. ie
    BY <2>1, <2>3 DEF TimedInv, MaskedBySetAddress, MainPCs, AppPCs
  <2> QED BY <1>1, <2>1, <2>2, <2>3, <2>4
          DEF AnswerInv, SetupEmptiesBank, ResetServedFirst, NumberStored, Occurred, At,
              MainPCs, AppPCs
<1>4. CASE UsbGenISR
  <2> DEFINE u == WakePart(SuspendPart(usb))
  <2>1. /\ ie /\ Attached /\ Attached' /\ ie' = ie /\ top' = top
    BY <1>4 DEF UsbGenISR, Inv, QuietBeforeAttach, Attached, top
  <2>2. /\ u \in UsbRecords /\ u.cfg = usb.cfg
        /\ "EORSTI" \in u.int => "EORSTI" \in usb.int
    BY <1>0, WakePartsKeep
  <2>3. /\ usb' = ResetPart(u) /\ ep' = ResetEndpointPart(u, ep)
    BY <1>4 DEF UsbGenISR
  <2> HIDE DEF u
  <2>4. CASE ResetDue(u)
    <3>1. xfer = "recovery"
      BY <2>1, <2>2, <2>4 DEF ResetDue, Occurred, AnswerInv, ResetServedFirst
    <3>2. "EORSTI" \notin usb'.int
      BY <2>2, <2>3, <2>4 DEF ResetPart, Clear, Enable, Disable, UsbRecords
    <3>3. ep'.setup = FALSE
      BY <2>3, <2>4 DEF ResetEndpointPart, ConfigureControlEndpoint, EpPowerOn
    <3> QED BY <1>1, <2>1, <3>1, <3>2, <3>3
            DEF AnswerInv, SetupEmptiesBank, ResetServedFirst, NumberStored, Occurred
  <2>5. CASE ~ResetDue(u)
    <3>1. ep' = ep /\ usb' = u
      BY <2>3, <2>5 DEF ResetPart, ResetEndpointPart
    <3> QED BY <1>1, <2>1, <2>2, <3>1
            DEF AnswerInv, SetupEmptiesBank, ResetServedFirst, NumberStored, Occurred, At
  <2> QED BY <2>4, <2>5
<1>5. CASE UsbComISR
  <2>1. /\ ep.setup /\ ep'.setup = ep.setup /\ ep'.inBusy = ep.inBusy /\ usb' = usb
    BY <1>0, <1>5 DEF UsbComISR, ComPending, EpRecords
  <2>2. Attached /\ "EORSTI" \notin usb.int
    BY <1>5, <2>1 DEF UsbComISR, Inv, QuietBeforeAttach, AnswerInv, ResetServedFirst,
                      Occurred
  <2>3. Attached'
    BY <1>0, <1>5, <2>2 DEF UsbComISR, Attached
  <2> QED BY <1>1, <2>1, <2>2, <2>3
          DEF AnswerInv, SetupEmptiesBank, ResetServedFirst, NumberStored, Occurred
<1>6. CASE RearmSetup \/ ReturnFromISR
  <2>1. /\ usb' = usb /\ ie' = ie
        /\ ep'.setup = ep.setup /\ ep'.inBusy = ep.inBusy /\ ep'.stall = ep.stall
        /\ top.pc \in ExitPCs
    BY <1>0, <1>6 DEF RearmSetup, ReturnFromISR, At, ExitPCs, EpRecords
  <2>2. depth > 0 /\ top = frame[depth]
    BY <2>1, TimedFacts
  <2>3. frame'[0].pc = frame[0].pc
    BY <1>0, <1>6, <2>2 DEF RearmSetup, ReturnFromISR, Frames
  <2>4. top'.pc # "setup"
    <3>1. CASE RearmSetup
      BY <1>0, <3>1 DEF RearmSetup, top, Frames
    <3>2. CASE ReturnFromISR /\ depth = 1
      <4>1. top' = frame[0]
        BY <1>0, <3>2 DEF ReturnFromISR, top
      <4> QED BY <4>1 DEF TimedInv, MainFindsNothing, MainPCs, AppPCs
    <3>3. CASE ReturnFromISR /\ depth # 1
      <4>1. depth - 1 \in 1 .. depth - 1 /\ top' = frame[depth - 1]
        BY <1>0, <2>2, <3>3 DEF ReturnFromISR, top
      <4> QED BY <4>1 DEF TimedInv, InterruptedWhereItWaits, ExitPCs
    <3> QED BY <1>6, <3>1, <3>2, <3>3
  <2>5. Attached => ie
    BY <2>1 DEF TimedInv, MaskedBySetAddress, ExitPCs
  <2> QED BY <1>1, <2>1, <2>3, <2>4, <2>5
          DEF AnswerInv, SetupEmptiesBank, ResetServedFirst, NumberStored, Occurred, At,
              Attached, ExitPCs
<1> QED BY <1>2, <1>3, <1>4, <1>5, <1>6 DEF InterruptStep

\* So does the host, which recovers from a reset only in its own good time.
LEMMA AnswerOutside ==
  ASSUME Inv, TimedInv, AnswerInv, PromptCode, BusStep \/ HostStep
  PROVE  AnswerInv'
<1>0. /\ usb \in UsbRecords /\ ep \in EpRecords /\ OutsideEffect
  BY TimedFacts, OutsideStep DEF TypeOK
<1>1. /\ UNCHANGED <<req, ie, depth, frame>> /\ top' = top
      /\ Attached' <=> Attached
  BY <1>0 DEF OutsideEffect, top, Attached
<1>2. Quiet /\ Attached => ~Occurred(usb, "EORSTI")
  <2> SUFFICES ASSUME Quiet, Attached, Occurred(usb, "EORSTI") PROVE FALSE
    OBVIOUS
  <2> QED BY QuietMeansRead DEF AnswerInv, ResetServedFirst
<1>3. CASE \E r \in Requests : HostSetup(r)
  <2>1. /\ ep'.setup /\ ~ep'.inBusy /\ Attached
        /\ Occurred(usb', "EORSTI") => Occurred(usb, "EORSTI")
        /\ Quiet
    BY <1>0, <1>3 DEF HostSetup, Hardware, Talking, LineActivity, EpRecords, UsbRecords,
                      Occurred, HostPaced
  <2> QED BY <1>1, <1>2, <2>1
          DEF AnswerInv, SetupEmptiesBank, ResetServedFirst, NumberStored
<1>4. CASE BusReset
  <2>1. /\ xfer' = "recovery" /\ ~ep'.setup /\ ~ep'.inBusy /\ Quiet /\ Attached
    BY <1>0, <1>4 DEF BusReset, Hardware, EndpointReset, EpRecords, HostPaced
  <2>2. ~At("setup") /\ (~ie => At("finish"))
    <3>1. top.pc \notin {"setup", "status", "in"}
      BY <2>1, QuietMeansRead DEF HurryPCs
    <3> QED BY <2>1, <3>1 DEF At, TimedInv, MaskedBySetAddress
  <2> QED BY <1>1, <2>1, <2>2
          DEF AnswerInv, SetupEmptiesBank, ResetServedFirst, NumberStored, At
<1>5. CASE ~BusReset /\ ~(\E r \in Requests : HostSetup(r))
  <2>1. /\ ep'.setup = ep.setup /\ (ep'.inBusy => ep.inBusy) /\ ep'.stall = ep.stall
        /\ usb'.cfg = usb.cfg /\ pkt' = pkt
        /\ "EORSTI" \in usb'.int => "EORSTI" \in usb.int
    BY <1>0, <1>5
    DEF BusStep, HostStep, BusIdle, SuspendDetected, BusResume, BusActive, HostRecovery,
        HostIn, HostOut, HostStalled, HostAbort, hostVars, Hardware, LineActivity,
        IdleDetected, EpRecords, UsbRecords
  <2>2. /\ xfer' = "in" => xfer = "in"
        /\ xfer = "recovery" => xfer' = "recovery" \/ HostRecovery
        /\ xfer = "none" => xfer' = "none"
    BY <1>5
    DEF BusStep, HostStep, BusIdle, SuspendDetected, BusResume, BusActive, HostRecovery,
        HostIn, HostOut, HostStalled, HostAbort, hostVars
  <2>3. HostRecovery => Quiet
    BY DEF HostRecovery, HostPaced
  <2> QED BY <1>1, <1>2, <2>1, <2>2, <2>3
          DEF AnswerInv, SetupEmptiesBank, ResetServedFirst, NumberStored, Occurred, At
<1> QED BY <1>3, <1>4, <1>5

\* The number the device uses and the answer the host got, in every behaviour of
\* a device that outruns its host.
THEOREM AnswerInvariant ==
  ASSUME PromptCode
  PROVE  Spec => []AnswerInv
<1>1. Init => AnswerInv
  <2> SUFFICES ASSUME Init PROVE AnswerInv  OBVIOUS
  <2>1. /\ frame[0].pc = "off" /\ xfer = "none" /\ ep = EpPowerOn
    BY MaxDepthAssumption DEF Init, IdleFrame, Levels
  <2> QED BY <2>1 DEF AnswerInv, SetupEmptiesBank, ResetServedFirst, NumberStored,
                      Attached, EpPowerOn
<1>2. Inv /\ TimedInv /\ AnswerInv /\ [Next]_vars => AnswerInv'
  <2> SUFFICES ASSUME Inv, TimedInv, AnswerInv, [Next]_vars PROVE AnswerInv'
    OBVIOUS
  <2>1. CASE UNCHANGED vars
    BY <2>1 DEF vars, cpuVars, appVars, hostVars, AnswerInv, SetupEmptiesBank,
                ResetServedFirst, NumberStored, Attached, At, top
  <2> QED BY <2>1, AnswerHandler, AnswerProgram, AnswerOutside DEF Next, CpuStep
<1> QED  BY <1>1, <1>2, TimedInvariant, PTL DEF Spec

\* The configuration number changes to one the host asks for, range-checked, or
\* by a served reset, and a host that is told so can rely on it (USBInterrupt.c:
\* 120, DeviceStandardReq.c:133).
THEOREM AlwaysConfigurationFromHost ==
  ASSUME PromptCode
  PROVE  Spec => ConfigurationFromHost
<1> DEFINE Stores == usb'.cfg # usb.cfg
           Asks == \/ /\ usb'.cfg = 0
                      /\ ~Attached \/ (Occurred(usb, "EORSTI") /\ ~Occurred(usb', "EORSTI"))
                   \/ /\ pkt.op = "SetConfiguration" /\ pkt.val = usb'.cfg
                      /\ pkt.val <= FIXED_NUM_CONFIGURATIONS /\ xfer = "in"
           Told == HostIn /\ xfer = "in" /\ pkt.op = "SetConfiguration"
<1>1. ASSUME Inv, TimedInv, [Next]_vars, Stores PROVE Asks
  <2>0. usb \in UsbRecords /\ ep \in EpRecords  BY <1>1, TimedFacts
  <2>1. CASE HandlerStep
    <3>1. StoreConfiguration
      BY <1>1, <2>0, <2>1
      DEF HandlerStep, ReadRequest, Dispatch, ClearSETUP, ReplyConfiguration,
          StreamPacket,
          StreamAborted, StreamDone, StreamDrain, ClearStatusStage, StatusIN, StatusOUT,
          AdoptAddress, AdoptConfiguration, FinishDescriptor, StallUnhandled, UsbRecords
    <3>2. /\ At("number") /\ usb'.cfg = WValue(req)
      BY <2>0, <3>1 DEF StoreConfiguration, Code, UsbRecords
    <3> QED
      BY <1>1, <3>2
      DEF TimedInv, HandlerCurrent, At, Handled, WValue, DeviceToHost, Asked
  <2>2. CASE MainStep
    <3>1. Setup
      BY <1>1, <2>2
      DEF MainStep, AppCheckConfigured, AppSelectEndpoint, DeviceTask, PollSetup,
          RestoreEndpoint
    <3>2. ~Attached
      BY <1>1, <3>1, TimedFacts DEF Setup, Code, At, Attached, MainPCs
    <3>3. usb'.cfg = 0
      <4> DEFINE u == ResetInterface(usb)
      <4>1. u \in UsbRecords
        BY <2>0, InitPartsType
      <4>2. usb' = InitDevice(u)
        BY <3>1 DEF Setup
      <4> HIDE DEF u
      <4> QED BY <4>1, <4>2 DEF InitDevice, Enable, Clear, UsbRecords
    <3> QED BY <3>2, <3>3
  <2>3. CASE InterruptStep
    <3>1. CASE UsbGenISR
      <4> DEFINE u == WakePart(SuspendPart(usb))
      <4>1. /\ u \in UsbRecords /\ u.cfg = usb.cfg
            /\ "EORSTI" \in u.int => "EORSTI" \in usb.int
        BY <2>0, WakePartsKeep
      <4>2. usb' = ResetPart(u)
        BY <3>1 DEF UsbGenISR
      <4> HIDE DEF u
      <4>3. ResetDue(u)
        BY <1>1, <4>1, <4>2 DEF ResetPart
      <4> QED
        BY <4>1, <4>2, <4>3
        DEF ResetPart, ResetDue, Occurred, Clear, Enable, Disable, UsbRecords
    <3> QED  BY <1>1, <2>3, <3>1 DEF InterruptStep, UsbComISR, RearmSetup, ReturnFromISR
  <2>4. CASE BusStep \/ HostStep
    BY <1>1, <2>0, <2>4
    DEF BusStep, HostStep, BusIdle, SuspendDetected, BusResume, BusActive, BusReset,
        HostRecovery, HostIn, HostOut, HostStalled, HostAbort, HostSetup, Hardware,
        LineActivity, IdleDetected, BusResetSeen, UsbRecords
  <2> QED  BY <1>1, <2>1, <2>2, <2>3, <2>4 DEF Next, CpuStep, vars
<1>2. ASSUME TimedInv, AnswerInv, Told PROVE usb.cfg = pkt.val
  <2>1. ep.inBusy /\ ~ep.stall
    BY <1>2 DEF HostIn
  <2>2. ~ep.setup
    BY <1>2, <2>1 DEF AnswerInv, SetupEmptiesBank
  <2>3. ~At("number")
    BY <1>2, <2>1 DEF TimedInv, HandlerCurrent, HurryPCs, At
  <2> QED BY <1>2, <2>1, <2>2, <2>3 DEF AnswerInv, NumberStored
<1>3. Inv /\ TimedInv /\ AnswerInv /\ [Next]_vars =>
        [(Stores => Asks) /\ (Told => usb.cfg = pkt.val)]_vars
  BY <1>1, <1>2
<1> QED  BY <1>3, TimedInvariant, AnswerInvariant, PTL DEF Spec, ConfigurationFromHost
=============================================================================
