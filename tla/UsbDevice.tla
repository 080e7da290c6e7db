----------------------------- MODULE UsbDevice -----------------------------
(***************************************************************************)
(* The USB device stack running: the main program, the interrupts nested   *)
(* on top of it, and the host at the other end of the cable.               *)
(*                                                                         *)
(* The CPU is a stack of contexts.  Level 0 is the main program; each      *)
(* level above is one activation of ISR(USB_COM_vect), which re-enables    *)
(* interrupts and so can be interrupted in turn, even by itself.  Only the *)
(* top of the stack moves.  ISR(USB_GEN_vect) keeps interrupts disabled    *)
(* and is one action.                                                      *)
(*                                                                         *)
(* A pending interrupt is taken before the next step, except that the step *)
(* under way when it arrives, or the one instruction the AVR executes      *)
(* after interrupts are enabled, still completes: `slack' allows it.       *)
(***************************************************************************)
EXTENDS UsbController

CONSTANTS
  Requests,    \* the control requests the host sends
  MaxDepth,    \* bound on the nesting of ISR(USB_COM_vect)
  HostAborts,  \* whether the host may abandon a control transfer
  PromptCode   \* whether code between two waits outruns the host

Operations ==
  {"SetAddress", "SetConfiguration", "GetConfiguration", "GetDescriptor"}

\* Requests the library does not know; it has no handler to dispatch to.
Unsupported == "Unsupported"

(***************************************************************************)
(* A request is its operation and one number: the address,                 *)
(* the configuration number, or the number of packets Write_Control_PStream*)
(* sends for the descriptor, zero when there is no such descriptor.        *)
(***************************************************************************)
ASSUME RequestsAssumption ==
  /\ Requests \subseteq [op : Operations \cup {Unsupported}, val : Bytes]
  /\ \A r \in Requests : r.op = "SetAddress" => r.val \in Addresses
  /\ Requests # {}
ASSUME MaxDepthAssumption == MaxDepth \in Nat \ {0}   \* the interrupt exists
ASSUME FlagsAssumption == HostAborts \in BOOLEAN /\ PromptCode \in BOOLEAN

VARIABLES
  usb, ep,      \* the storage of UsbController
  req,          \* USB_ControlRequest
  ie,           \* the global interrupt enable bit of SREG
  slack,        \* one more step may run before a pending interrupt
  depth, frame, \* the CPU's stack of contexts
  selected,     \* endpoint the application selected last
  clobbered,    \* a bus reset was served since the application's selection
  bus,          \* "idle", "resuming" or "active"
  hostAddr,     \* address the host uses, NoAddress before the first reset
  pkt,          \* the SETUP packet the host sent last
  xfer          \* how far the host's control transfer has come

cpuVars == <<ie, slack, depth, frame>>
appVars == <<selected, clobbered>>
hostVars == <<bus, hostAddr, pkt, xfer>>
vars == <<usb, ep, req, cpuVars, appVars, hostVars>>

Levels == 0 .. MaxDepth

(***************************************************************************)
(* Program counters.  MainPCs belong to the main program (AppPCs to what   *)
(* is not the library's), ExitPCs to the end of ISR(USB_COM_vect) and      *)
(* HandlerPCs to USB_Device_ProcessControlRequest and the handlers.        *)
(***************************************************************************)
AppPCs == {"app", "send"}
MainPCs == AppPCs \cup {"off", "poll", "restore"}
HandlerPCs == {"read", "dispatch", "setup", "number", "reply", "stream",
               "drain", "status", "in", "out", "finish", "check"}
ExitPCs == {"exit", "leave"}
PCs == {"idle"} \cup MainPCs \cup HandlerPCs \cup ExitPCs

Frames ==
  [pc    : PCs,
   op    : Operations \cup {"none"},  \* the handler this context runs
   prev  : Endpoints,                 \* PrevEndpoint, PrevSelectedEndpoint
   local : Bytes]                     \* DeviceAddress; packets left to send

IdleFrame ==
  [pc |-> "idle", op |-> "none", prev |-> ENDPOINT_CONTROLEP, local |-> 0]

top == frame[depth]
At(p) == top.pc = p

\* USB_ControlRequest before the first request: all zero, which no handler takes.
NoRequest == [op |-> Unsupported, val |-> 0]
ControlRequests == Requests \cup {NoRequest}

\* The low byte of wValue; that of a descriptor request is an index, zero.
WValue(r) == IF r.op = "GetDescriptor" THEN 0 ELSE r.val

DeviceToHost(r) == r.op \in {"GetConfiguration", "GetDescriptor"}

(***************************************************************************)
(* Interrupts.  USB_GEN has the lower vector and wins over USB_COM.        *)
(***************************************************************************)
GenPending(u) == u.int \cap u.ien # {}
ComPending(e) == e.rxstpe /\ e.setup /\ depth < MaxDepth
Pending(u, e) == GenPending(u) \/ ComPending(e)

Ready == ie => (slack \/ ~Pending(usb, ep))

\* A step of the code in the running context, at program counter p.
Code(p) == Ready /\ At(p) /\ slack' = FALSE
Goto(p) == frame' = [frame EXCEPT ![depth].pc = p]

\* The controller changes beside the code: the step under way may complete.
Hardware(u, e) ==
  /\ usb' = u /\ ep' = e
  /\ slack' = (slack \/ (~Pending(usb, ep) /\ Pending(u, e)))

Init ==
  /\ usb = UsbPowerOn /\ ep = EpPowerOn /\ req = NoRequest
  /\ ie = FALSE /\ slack = FALSE /\ depth = 0
  /\ frame = [k \in Levels |->
                IF k = 0 THEN [IdleFrame EXCEPT !.pc = "off"] ELSE IdleFrame]
  /\ selected = ENDPOINT_CONTROLEP /\ clobbered = FALSE
  /\ bus = "idle" /\ hostAddr = NoAddress /\ pkt = NoRequest /\ xfer = "none"

\* The bit of SREG, as the library switches it (Common.h).
GlobalInterruptEnable == ie' = TRUE
GlobalInterruptDisable == ie' = FALSE
SetGlobalInterruptMask(mask) == ie' = mask

\* The direction the function adds is masked out when the endpoint is selected.
Endpoint_GetCurrentEndpoint == ep.uenum

-----------------------------------------------------------------------------
(***************************************************************************)
(* The main program.                                                       *)
(***************************************************************************)

\* setup(): USB_Init runs with interrupts disabled, then sei.
Setup ==
  /\ Code("off") /\ Goto("app")
  /\ usb' = InitDevice(ResetInterface(usb))
  /\ ep' = ConfigureControlEndpoint(ep)
  /\ ie' = TRUE
  /\ UNCHANGED <<req, depth, appVars, hostVars>>

\* A function of the CDC driver goes on only if the device is Configured (and
\* the application gave it a line encoding, at any time).
AppCheckConfigured ==
  /\ Code("app") /\ usb.state = "Configured" /\ Goto("send")
  /\ UNCHANGED <<usb, ep, req, ie, depth, appVars, hostVars>>

\* Then it selects its data endpoint, whatever became of the device meanwhile.
AppSelectEndpoint(e) ==
  /\ Code("send") /\ Goto("app")
  /\ ep' = [ep EXCEPT !.uenum = e]
  /\ selected' = e /\ clobbered' = FALSE
  /\ UNCHANGED <<usb, req, ie, depth, hostVars>>

\* USB_DeviceTask, entered only while the device is not Unattached.
DeviceTask ==
  /\ Code("app") /\ usb.state # "Unattached"
  /\ frame' = [frame EXCEPT ![depth].pc = "poll",
                            ![depth].prev = Endpoint_GetCurrentEndpoint]
  /\ ep' = [ep EXCEPT !.uenum = ENDPOINT_CONTROLEP]
  /\ UNCHANGED <<usb, req, ie, depth, appVars, hostVars>>

\* USB_DeviceTask processes a SETUP it finds, although the interrupt does too.
PollSetup ==
  /\ Code("poll") /\ Goto(IF ep.setup THEN "read" ELSE "restore")
  /\ UNCHANGED <<usb, ep, req, ie, depth, appVars, hostVars>>

RestoreEndpoint ==
  /\ Code("restore") /\ Goto("app")
  /\ ep' = [ep EXCEPT !.uenum = top.prev]
  /\ UNCHANGED <<usb, req, ie, depth, appVars, hostVars>>

-----------------------------------------------------------------------------
(***************************************************************************)
(* The interrupts.                                                         *)
(***************************************************************************)

\* ISR(USB_GEN_vect): no nesting; the device globals and registers change.
UsbGenISR ==
  /\ ie /\ GenPending(usb)
  /\ LET u == WakePart(SuspendPart(usb))
     IN /\ usb' = ResetPart(u)
        /\ ep' = ResetEndpointPart(u, ep)
        /\ clobbered' = (clobbered \/ ResetDue(u))
  /\ slack' = Pending(usb', ep')
  /\ UNCHANGED <<req, ie, depth, frame, selected, hostVars>>

\* Mutated UsbComISR: the control endpoint is not selected.
UsbComISRSelectsNothing ==
  /\ ie /\ ~GenPending(usb) /\ ComPending(ep)
  /\ depth' = depth + 1
  /\ frame' = [frame EXCEPT ![depth + 1] =
                 [IdleFrame EXCEPT !.pc = "read", !.prev = Endpoint_GetCurrentEndpoint]]
  /\ ep' = [ep EXCEPT !.rxstpe = FALSE]
  /\ slack' = FALSE
  /\ UNCHANGED <<usb, req, ie, appVars, hostVars>>

\* Mutated UsbComISR: RXSTPE stays enabled while interrupts are enabled.
UsbComISRStaysArmed ==
  /\ ie /\ ~GenPending(usb) /\ ComPending(ep)
  /\ depth' = depth + 1
  /\ frame' = [frame EXCEPT ![depth + 1] =
                 [IdleFrame EXCEPT !.pc = "read", !.prev = Endpoint_GetCurrentEndpoint]]
  /\ ep' = [ep EXCEPT !.uenum = ENDPOINT_CONTROLEP]
  /\ slack' = FALSE
  /\ UNCHANGED <<usb, req, ie, appVars, hostVars>>

\* ISR(USB_COM_vect) up to GlobalInterruptEnable: a new context is stacked.
UsbComISR ==
  /\ ie /\ ~GenPending(usb) /\ ComPending(ep)
  /\ depth' = depth + 1
  /\ frame' = [frame EXCEPT ![depth + 1] =
                 [IdleFrame EXCEPT !.pc = "read", !.prev = Endpoint_GetCurrentEndpoint]]
  /\ ep' = [ep EXCEPT !.uenum = ENDPOINT_CONTROLEP, !.rxstpe = FALSE]
  /\ slack' = FALSE
  /\ GlobalInterruptEnable
  /\ UNCHANGED <<usb, req, appVars, hostVars>>

\* After the request: the SETUP interrupt of the control endpoint is re-armed.
RearmSetup ==
  /\ Code("exit") /\ Goto("leave")
  /\ ep' = [ep EXCEPT !.uenum = ENDPOINT_CONTROLEP, !.rxstpe = TRUE]
  /\ UNCHANGED <<usb, req, ie, depth, appVars, hostVars>>

\* Mutated ReturnFromISR: the control endpoint stays selected.
ReturnFromISRKeepsSelection ==
  /\ Ready /\ At("leave")
  /\ depth' = depth - 1
  /\ frame' = [frame EXCEPT ![depth] = IdleFrame]
  /\ slack' = (GenPending(usb) \/ (ep.rxstpe /\ ep.setup))
  /\ UNCHANGED <<usb, ep, req, ie, appVars, hostVars>>

\* The interrupted context's endpoint is selected again, and reti.
ReturnFromISR ==
  /\ Ready /\ At("leave")
  /\ ep' = [ep EXCEPT !.uenum = top.prev]
  /\ depth' = depth - 1
  /\ frame' = [frame EXCEPT ![depth] = IdleFrame]
  /\ slack' = (GenPending(usb) \/ (ep.rxstpe /\ ep.setup))
  /\ UNCHANGED <<usb, req, ie, appVars, hostVars>>

-----------------------------------------------------------------------------
(***************************************************************************)
(* USB_Device_ProcessControlRequest and the handlers, in the top context.  *)
(* Every register access goes to the selected endpoint: the property       *)
(* ControlEndpointSelected says that this is the control endpoint.         *)
(***************************************************************************)

\* The eight bytes are read from the bank; without a SETUP they are anything.
\* The loop is too long to complete while an interrupt is pending.
ReadRequest ==
  /\ Code("read") /\ Goto("dispatch")
  /\ ~(ie /\ Pending(usb, ep))
  /\ IF ep.setup THEN req' = pkt ELSE req' \in ControlRequests
  /\ UNCHANGED <<usb, ep, ie, depth, appVars, hostVars>>

\* Mutated Handled: the configuration number is not range-checked.
HandledUnchecked(r) ==
  \/ r.op \in {"SetAddress", "GetConfiguration", "SetConfiguration"}
  \/ r.op = "GetDescriptor" /\ r.val > 0

\* Requests with a handler that does not return before it clears the SETUP.
Handled(r) ==
  \/ r.op \in {"SetAddress", "GetConfiguration"}
  \/ r.op = "SetConfiguration" /\ r.val <= FIXED_NUM_CONFIGURATIONS
  \/ r.op = "GetDescriptor" /\ r.val > 0

\* The switch on bRequest, taken only while a SETUP is pending.
Dispatch ==
  /\ Code("dispatch")
  /\ frame' = [frame EXCEPT ![depth] =
       IF ep.setup /\ Handled(req)
       THEN [@ EXCEPT !.pc = "setup", !.op = req.op]
       ELSE [@ EXCEPT !.pc = "check"]]
  /\ UNCHANGED <<usb, ep, req, ie, depth, appVars, hostVars>>

AfterClearSETUP(op) ==
  CASE op = "SetAddress"       -> "status"
    [] op = "SetConfiguration" -> "number"
    [] op = "GetConfiguration" -> "reply"
    [] op = "GetDescriptor"    -> "stream"

\* What a handler copies from USB_ControlRequest before it clears the SETUP:
\* seven bits of address, or how much GetDescriptor has to send.
LocalCopy(op, r) ==
  CASE op = "SetAddress"    -> WValue(r) % 128
    [] op = "GetDescriptor" -> r.val
    [] OTHER                -> 0

\* Endpoint_ClearSETUP; SetAddress disables interrupts first.
ClearSETUP ==
  /\ Code("setup")
  /\ frame' = [frame EXCEPT ![depth] =
       [@ EXCEPT !.pc = AfterClearSETUP(top.op),
                 !.local = LocalCopy(top.op, req)]]
  /\ ep' = [ep EXCEPT !.setup = FALSE]
  /\ IF top.op = "SetAddress" THEN GlobalInterruptDisable ELSE UNCHANGED ie
  /\ UNCHANGED <<usb, req, depth, appVars, hostVars>>

\* Mutated StoreConfiguration: the status packet is armed before its stage.
StoreConfigurationArmsStatus ==
  /\ Code("number") /\ Goto("status")
  /\ usb' = [usb EXCEPT !.cfg = WValue(req)]
  /\ ep' = [ep EXCEPT !.inBusy = TRUE]
  /\ UNCHANGED <<req, ie, depth, appVars, hostVars>>

\* SetConfiguration stores the number it reads from USB_ControlRequest.
StoreConfiguration ==
  /\ Code("number") /\ Goto("status")
  /\ usb' = [usb EXCEPT !.cfg = WValue(req)]
  /\ UNCHANGED <<ep, req, ie, depth, appVars, hostVars>>

\* GetConfiguration writes its byte and arms the IN bank without a wait.
ReplyConfiguration ==
  /\ Code("reply") /\ Goto("status")
  /\ ep' = [ep EXCEPT !.inBusy = TRUE]
  /\ UNCHANGED <<usb, req, ie, depth, appVars, hostVars>>

\* Mutated StreamPacket: the loop does not look at the remaining length.
StreamPacketEndless ==
  /\ Code("stream") /\ usb.state # "Unattached"
  /\ ~ep.setup /\ ~ep.out /\ ~ep.inBusy
  /\ ep' = [ep EXCEPT !.inBusy = TRUE]
  /\ frame' = [frame EXCEPT ![depth].local = @ - 1]
  /\ UNCHANGED <<usb, req, ie, depth, appVars, hostVars>>

\* Endpoint_Write_Control_PStream: one turn of the loop that sends packets.
\* It ends when all is sent, the host moved on, or the device is Unattached.
StreamPacket ==
  /\ Code("stream") /\ top.local > 0 /\ usb.state # "Unattached"
  /\ ~ep.setup /\ ~ep.out /\ ~ep.inBusy
  /\ ep' = [ep EXCEPT !.inBusy = TRUE]
  /\ frame' = [frame EXCEPT ![depth].local = @ - 1]
  /\ UNCHANGED <<usb, req, ie, depth, appVars, hostVars>>

StreamAborted ==
  /\ Code("stream") /\ top.local > 0
  /\ usb.state = "Unattached" \/ ep.setup
  /\ Goto("finish")
  /\ UNCHANGED <<usb, ep, req, ie, depth, appVars, hostVars>>

StreamDone ==
  /\ Code("stream")
  /\ top.local = 0 \/ (usb.state # "Unattached" /\ ~ep.setup /\ ep.out)
  /\ Goto("drain")
  /\ UNCHANGED <<usb, ep, req, ie, depth, appVars, hostVars>>

\* The last loop waits for the status packet, and does not look for a SETUP.
StreamDrain ==
  /\ Code("drain") /\ Goto("finish")
  /\ ep.out \/ usb.state = "Unattached"
  /\ UNCHANGED <<usb, ep, req, ie, depth, appVars, hostVars>>

\* Endpoint_ClearStatusStage: the direction comes from USB_ControlRequest.
ClearStatusStage ==
  /\ Code("status") /\ Goto(IF DeviceToHost(req) THEN "out" ELSE "in")
  /\ UNCHANGED <<usb, ep, req, ie, depth, appVars, hostVars>>

AfterStatus(op) == IF op = "GetConfiguration" THEN "check" ELSE "finish"

StatusIN ==
  /\ Code("in") /\ Goto(AfterStatus(top.op))
  /\ ~ep.inBusy \/ usb.state = "Unattached"
  /\ ep' = [ep EXCEPT !.inBusy = TRUE]
  /\ UNCHANGED <<usb, req, ie, depth, appVars, hostVars>>

StatusOUT ==
  /\ Code("out") /\ Goto(AfterStatus(top.op))
  /\ ep.out \/ usb.state = "Unattached"
  /\ ep' = [ep EXCEPT !.out = FALSE]
  /\ UNCHANGED <<usb, req, ie, depth, appVars, hostVars>>

\* SetAddress waits until the host took the status packet, with interrupts
\* still disabled and no way out, and only then adopts the address.
AdoptAddress ==
  /\ Ready /\ At("finish") /\ top.op = "SetAddress" /\ ~ep.inBusy
  /\ usb' = [usb EXCEPT !.addr = top.local,
                        !.state = IF top.local # 0 THEN "Addressed" ELSE "Default"]
  /\ Goto("check")
  /\ SetGlobalInterruptMask(TRUE) /\ slack' = Pending(usb', ep)
  /\ UNCHANGED <<ep, req, depth, appVars, hostVars>>

\* The state SetConfiguration ends in; its event has no handler in main.c.
AdoptConfiguration ==
  /\ Code("finish") /\ top.op = "SetConfiguration"
  /\ usb' = [usb EXCEPT !.state = StateFromConfiguration(usb)]
  /\ Goto("check")
  /\ UNCHANGED <<ep, req, ie, depth, appVars, hostVars>>

\* GetDescriptor clears the OUT bank, however the stream ended.
FinishDescriptor ==
  /\ Code("finish") /\ top.op = "GetDescriptor"
  /\ ep' = [ep EXCEPT !.out = FALSE]
  /\ Goto("check")
  /\ UNCHANGED <<usb, req, ie, depth, appVars, hostVars>>

\* Mutated StallUnhandled: the SETUP is stalled but not cleared.
StallUnhandledKeepsSetup ==
  /\ Code("check")
  /\ frame' = [frame EXCEPT ![depth] =
       [@ EXCEPT !.pc = IF depth = 0 THEN "restore" ELSE "exit",
                 !.op = "none", !.local = 0]]
  /\ ep' = [ep EXCEPT !.stall = @ \/ ep.setup]
  /\ UNCHANGED <<usb, req, ie, depth, appVars, hostVars>>

\* A SETUP that is still, or again, pending is stalled and dropped.
StallUnhandled ==
  /\ Code("check")
  /\ frame' = [frame EXCEPT ![depth] =
       [@ EXCEPT !.pc = IF depth = 0 THEN "restore" ELSE "exit",
                 !.op = "none", !.local = 0]]
  /\ ep' = IF ep.setup THEN [ep EXCEPT !.setup = FALSE, !.stall = TRUE] ELSE ep
  /\ UNCHANGED <<usb, req, ie, depth, appVars, hostVars>>

-----------------------------------------------------------------------------
(***************************************************************************)
(* The host and the controller hardware.  A host only talks to the device  *)
(* while the bus is active, the device's clock runs and the address the    *)
(* host uses is the one the controller answers to.                         *)
(*                                                                         *)
(* Beginning a transfer takes the host at least the eleven microseconds of *)
(* a SETUP packet; suspending, resetting and giving up take milliseconds.  *)
(* With PromptCode the firmware is never that slow: by then it is in the   *)
(* main loop or waits for the host.  Without, any delay is possible, as    *)
(* with event handlers that use the time the documentation gives them.     *)
(***************************************************************************)
Waiting ==
  \/ At("in") /\ ep.inBusy /\ usb.state # "Unattached"
  \/ At("out") /\ ~ep.out /\ usb.state # "Unattached"
  \/ At("drain") /\ ~ep.out /\ usb.state # "Unattached"
  \/ /\ At("stream") /\ top.local > 0 /\ usb.state # "Unattached"
     /\ ep.inBusy /\ ~ep.setup /\ ~ep.out
  \/ At("finish") /\ top.op = "SetAddress" /\ ep.inBusy

Quiet == /\ ~(ie /\ Pending(usb, ep))
         /\ Waiting \/ (depth = 0 /\ top.pc \in AppPCs \cup {"poll", "restore"})

HostPaced == PromptCode => Quiet

Attached == frame[0].pc # "off"
Talking == /\ Attached /\ bus = "active" /\ ~usb.frozen
           /\ hostAddr # NoAddress /\ BusAddress(usb) = hostAddr

BusIdle ==
  /\ bus = "active" /\ bus' = "idle"
  /\ UNCHANGED <<usb, ep, req, cpuVars, appVars, hostAddr, pkt, xfer>>

\* Three milliseconds of idle bus.
SuspendDetected ==
  /\ Attached /\ bus = "idle" /\ ~usb.frozen /\ ~Occurred(usb, "SUSPI")
  /\ HostPaced
  /\ Hardware(IdleDetected(usb), ep)
  /\ UNCHANGED <<req, ie, depth, frame, appVars, hostVars>>

BusResume ==
  /\ Attached /\ bus = "idle" /\ bus' = "resuming"
  /\ Hardware(LineActivity(usb), ep)
  /\ UNCHANGED <<req, ie, depth, frame, appVars, hostAddr, pkt, xfer>>

\* Resume signalling lasts twenty milliseconds; then frames start again.
BusActive ==
  /\ bus = "resuming" /\ bus' = "active" /\ HostPaced
  /\ UNCHANGED <<usb, ep, req, cpuVars, appVars, hostAddr, pkt, xfer>>

\* The end of a bus reset.  Its start is BusResume, which wakes the device.
BusReset ==
  /\ Attached /\ bus # "idle" /\ ~usb.frozen /\ HostPaced
  /\ bus' = "active"
  /\ Hardware(BusResetSeen(usb), EndpointReset(ep))
  /\ hostAddr' = 0 /\ xfer' = "recovery"
  /\ UNCHANGED <<req, ie, depth, frame, appVars, pkt>>

\* The host lets the device recover for ten milliseconds after a reset and for
\* two after it was given an address.
HostRecovery ==
  /\ xfer = "recovery" /\ HostPaced
  /\ xfer' = "none"
  /\ UNCHANGED <<usb, ep, req, cpuVars, appVars, bus, hostAddr, pkt>>

\* A SETUP is always accepted; it ends what the endpoint was doing.
HostSetup(r) ==
  /\ Talking /\ xfer = "none" /\ ~ep.setup /\ HostPaced
  /\ Hardware(LineActivity(usb),
           [ep EXCEPT !.setup = TRUE, !.inBusy = FALSE, !.stall = FALSE])
  /\ pkt' = r /\ xfer' = IF DeviceToHost(r) THEN "data" ELSE "in"
  /\ UNCHANGED <<req, ie, depth, frame, appVars, bus, hostAddr>>

\* The host takes an IN packet: data, or the status of a request without data.
HostIn ==
  /\ Talking /\ ep.inBusy /\ ~ep.stall /\ xfer \in {"in", "data", "status"}
  /\ Hardware(LineActivity(usb),
           [ep EXCEPT !.inBusy = FALSE])
  /\ xfer' = CASE xfer # "in"            -> "status"
              [] pkt.op = "SetAddress"  -> "recovery"
              [] OTHER                  -> "none"
  /\ hostAddr' = IF xfer = "in" /\ pkt.op = "SetAddress" THEN pkt.val ELSE hostAddr
  /\ UNCHANGED <<req, ie, depth, frame, appVars, bus, pkt>>

\* The host has the data it wants and sends the status packet.
HostOut ==
  /\ Talking /\ xfer = "status" /\ ~ep.out /\ ~ep.stall
  /\ Hardware(LineActivity(usb),
           [ep EXCEPT !.out = TRUE])
  /\ xfer' = "none"
  /\ UNCHANGED <<req, ie, depth, frame, appVars, bus, hostAddr, pkt>>

\* The host learns that the request was stalled.
HostStalled ==
  /\ Talking /\ ep.stall /\ xfer \in {"in", "data", "status"}
  /\ xfer' = "none"
  /\ UNCHANGED <<usb, ep, req, cpuVars, appVars, bus, hostAddr, pkt>>

HostAbort ==
  /\ HostAborts /\ xfer \in {"in", "data", "status"} /\ HostPaced
  /\ xfer' = "none"
  /\ UNCHANGED <<usb, ep, req, cpuVars, appVars, bus, hostAddr, pkt>>

-----------------------------------------------------------------------------
MainStep == \/ Setup \/ AppCheckConfigured
            \/ \E e \in DataEndpoints : AppSelectEndpoint(e)
            \/ DeviceTask \/ PollSetup \/ RestoreEndpoint

InterruptStep == UsbGenISR \/ UsbComISR \/ RearmSetup \/ ReturnFromISR

HandlerStep ==
  \/ ReadRequest \/ Dispatch \/ ClearSETUP \/ StoreConfiguration
  \/ ReplyConfiguration \/ StreamPacket \/ StreamAborted \/ StreamDone
  \/ StreamDrain \/ ClearStatusStage \/ StatusIN \/ StatusOUT
  \/ AdoptAddress \/ AdoptConfiguration \/ FinishDescriptor \/ StallUnhandled

BusStep == BusIdle \/ SuspendDetected \/ BusResume \/ BusActive \/ BusReset

HostStep == \/ HostRecovery \/ HostIn \/ HostOut \/ HostStalled \/ HostAbort
            \/ \E r \in Requests : HostSetup(r)

CpuStep == MainStep \/ InterruptStep \/ HandlerStep
Next == CpuStep \/ BusStep \/ HostStep

Spec == Init /\ [][Next]_vars

(***************************************************************************)
(* Fairness: the processor never stops executing; the idle-bus detector of *)
(* the controller does its work; a host that started a transfer goes on    *)
(* with it.  Nothing obliges the host to suspend, resume, reset or begin.  *)
(***************************************************************************)
Fairness ==
  /\ WF_vars(CpuStep)
  /\ WF_vars(SuspendDetected)
  /\ WF_vars(HostIn) /\ WF_vars(HostOut) /\ WF_vars(HostStalled)
  /\ WF_vars(HostRecovery) /\ WF_vars(BusActive)

FairSpec == Spec /\ Fairness

-----------------------------------------------------------------------------
(***************************************************************************)
(* Type correctness.                                                       *)
(***************************************************************************)

\* Every variable stays in its set: no context is popped below the main
\* program, no count of packets wraps, no address has more than seven bits.
TypeOK ==
  /\ usb \in UsbRecords /\ ep \in EpRecords /\ req \in ControlRequests
  /\ ie \in BOOLEAN /\ slack \in BOOLEAN
  /\ depth \in Levels /\ frame \in [Levels -> Frames]
  /\ selected \in Endpoints /\ clobbered \in BOOLEAN
  /\ bus \in {"idle", "resuming", "active"}
  /\ hostAddr \in Addresses \cup {NoAddress}
  /\ pkt \in ControlRequests
  /\ xfer \in {"none", "in", "data", "status", "recovery"}

(***************************************************************************)
(* Safety, whatever the timing of code and bus.                            *)
(***************************************************************************)

\* The device can always be woken and always sees a suspend: once attached,
\* bus resets are enabled, exactly one of suspend and wake-up is, and a
\* stopped clock means wake-up.  The PLL runs exactly while the clock does.
\* (ISR(USB_GEN_vect) swaps the two enables in three places, in one of them
\* without touching the clock.)
WakeArmed ==
  Attached => /\ IsEnabled(usb, "EORSTI")
              /\ IsEnabled(usb, "SUSPI") <=> ~IsEnabled(usb, "WAKEUPI")
              /\ usb.frozen => IsEnabled(usb, "WAKEUPI")
              /\ usb.frozen <=> ~usb.pll

\* The request handlers use UE... registers without naming an endpoint: while
\* one runs, in whatever context, the control endpoint is the selected one,
\* whatever the contexts stacked on it in the meantime selected.
ControlEndpointSelected ==
  top.pc \in HandlerPCs => ep.uenum = ENDPOINT_CONTROLEP

\* The device never goes deaf: once a bus reset was served, the SETUP
\* interrupt is off only while a USB_COM context that will re-arm it is on top.
SetupArmed ==
  (hostAddr # NoAddress /\ ~Occurred(usb, "EORSTI")) =>
    ep.rxstpe \/ (depth > 0 /\ top.pc # "leave")

\* Code between two uses of an endpoint finds it still selected: interrupts,
\* nested or not, and USB_DeviceTask put UENUM back.  Serving a bus reset is
\* the exception: it leaves the control endpoint selected.
SelectionKept ==
  (depth = 0 /\ top.pc \in AppPCs /\ ~clobbered) => ep.uenum = selected

(***************************************************************************)
(* The inductive invariant behind the four: what the contexts below the    *)
(* top of the stack will find when they run again.                         *)
(***************************************************************************)

\* Program counters that rely on the control endpoint being selected.
ControlPCs == HandlerPCs \cup {"poll"}

FrameOK(f) ==
  /\ f.pc = "setup" => f.op \in Operations
  /\ f.pc = "stream" => f.op = "GetDescriptor"
  /\ f.op = "SetAddress" /\ f.pc # "setup" => f.local \in Addresses

\* Only the main program runs main's code, only interrupts return.
StackShape ==
  /\ frame[0].pc \in MainPCs \cup HandlerPCs
  /\ \A k \in 1 .. depth : frame[k].pc \in HandlerPCs \cup ExitPCs
  /\ \A k \in Levels : FrameOK(frame[k])

\* The endpoint that level k finds selected when it runs again.
EndpointFor(k) == IF k = depth THEN ep.uenum ELSE frame[k + 1].prev

ControlEndpointRestored ==
  \A k \in 0 .. depth :
    frame[k].pc \in ControlPCs => EndpointFor(k) = ENDPOINT_CONTROLEP

\* The application's endpoint, on its way back through the saved selections.
SelectionRestored ==
  ~clobbered =>
    CASE frame[0].pc = "off"      -> selected = ENDPOINT_CONTROLEP
      [] frame[0].pc \in AppPCs -> EndpointFor(0) = selected
      [] OTHER                   -> frame[0].prev = selected

\* Before setup() attaches the device no interrupt runs and no reset comes.
QuietBeforeAttach == ~Attached => ~ie /\ depth = 0 /\ hostAddr = NoAddress

\* The invariant that every step of the program, the bus and the host keeps:
\* it holds of the saved endpoint selections and request state of every
\* context on the stack, not of the running one alone.
Inv == /\ TypeOK /\ StackShape /\ QuietBeforeAttach
       /\ WakeArmed /\ ControlEndpointRestored /\ SelectionRestored
       /\ SetupArmed

(***************************************************************************)
(* Safety when the code outruns the bus (PromptCode).                      *)
(***************************************************************************)

\* A suspended device is reported Unattached, the only sign of a suspend the
\* application gets in this build: no request handler that was under way when
\* the suspend came, and no bus reset, stores another state over it.
SuspendedIsUnattached == usb.frozen => usb.state = "Unattached"

\* The configuration number changes only when USB_GEN serves a bus reset, and
\* to the number the host is asking for at that moment, which is the one
\* USB_Device_SetConfiguration range-checked, though that is read twice, from a
\* global that a nested USB_COM overwrites, and the main program runs it too.
\* And a host told that SET CONFIGURATION succeeded finds its number in use.
ConfigurationFromHost ==
  [][/\ usb'.cfg # usb.cfg =>
          \/ /\ usb'.cfg = 0
             /\ ~Attached \/ (Occurred(usb, "EORSTI") /\ ~Occurred(usb', "EORSTI"))
          \/ /\ pkt.op = "SetConfiguration" /\ pkt.val = usb'.cfg
             /\ pkt.val <= FIXED_NUM_CONFIGURATIONS /\ xfer = "in"
     /\ HostIn /\ xfer = "in" /\ pkt.op = "SetConfiguration" =>
          usb.cfg = pkt.val]_vars

\* USB_ControlRequest is one global: an activation of USB_COM on top of another
\* overwrites it, but never while the one below still has to read it.
RequestStable ==
  \A k \in 1 .. depth - 1 :
    frame[k].pc \notin {"read", "dispatch", "setup", "number", "status"}

(***************************************************************************)
(* Liveness.                                                               *)
(***************************************************************************)

\* Resume signalling on the bus wakes a suspended device (or the bus goes idle
\* again first): USB_GEN is enabled and gets to run.
WakeServed == (usb.frozen /\ bus # "idle") ~> (~usb.frozen \/ bus = "idle")

\* An idle bus that goes on being idle makes the device Unattached: the suspend
\* is served, whatever request was being handled.
SuspendServed ==
  Occurred(usb, "SUSPI") ~> (usb.state = "Unattached" \/ ~Occurred(usb, "SUSPI"))

\* A SETUP packet that arrived is taken from the bank: read and handled, or
\* stalled.  Once the stack of contexts reached its bound nothing is said.
SetupServed == (ep.setup /\ depth < MaxDepth) ~> (~ep.setup \/ depth = MaxDepth)

(***************************************************************************)
(* What the documentation says, and the code does not do.                  *)
(***************************************************************************)

\* Device.h on DEVICE_STATE_Configured: the device has been enumerated, and
\* one that has an address only is Addressed, "not yet configured".
ConfiguredHasConfiguration == usb.state = "Configured" => usb.cfg # 0

\* USBTask.h on INTERRUPT_CONTROL_ENDPOINT: the control endpoint is managed
\* "via interrupts entirely", so the main program handles no request.
ManagedByInterrupt == depth = 0 => top.pc \notin HandlerPCs

\* Events.h: the library handles the standard requests, "unknown requests are
\* automatically STALLed": a request with a handler is not stalled.
StallOnlyUnhandled == [][ep'.stall /\ ~ep.stall => ~Handled(pkt)]_vars

\* Device.h on DEVICE_STATE_Default: the bus was reset and the device waits for
\* the host to begin the enumeration, which the host does at address 0.
DefaultAnswersHost == usb.state = "Default" => BusAddress(usb) = 0

\* USBTask.h: the USB task must be executed continuously, within 30 ms: the
\* main loop, which calls it, is never kept off the processor for good.
MainRuns == []<>(depth = 0)
=============================================================================
