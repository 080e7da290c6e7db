---------------------------- MODULE UsbInterface ----------------------------
(***************************************************************************)
(* The USB interface switched on, off and reset (USBController.c), the     *)
(* remote wake-up (Device.c) and the frame events (Device.h), called from  *)
(* the main program while the general USB interrupt is enabled.            *)
(*                                                                         *)
(* UsbDevice takes USB_Init as one step, as main.c calls it: before sei(). *)
(* Here every register access of these functions is a step.  A statement   *)
(* `register |= bit' or `register &= ~bit' reads the register in one step  *)
(* and writes it in another; the interrupt, the bus and the PLL act in     *)
(* between.  The interrupt itself runs with interrupts disabled and is one *)
(* step, the composition of the parts of UsbController.                    *)
(***************************************************************************)
EXTENDS UsbController, Sequences

CONSTANT PatientBus   \* the bus does one thing at a time, see Steady

ASSUME PatientBusAssumption == PatientBus \in BOOLEAN

VARIABLES
  reg,        \* the device-wide registers, each the set of its bits that are 1
  addr,       \* UDADDR, NoAddress while ADDEN is clear
  endpoint0,  \* the control endpoint: "none", "configured", or "listening",
              \* which is configured with RXSTPE
  dev,        \* the globals of the library
  todo,       \* the statements left of the call the main program is in
  copy,       \* the register value a statement has read: <<>> or <<bits>>
  returned,   \* the last instruction executed was the interrupt's return
  link,       \* the bus as the host drives it: "none", "idle", "active"
  permits     \* the host allows remote wake-up

deviceVars == <<reg, addr, endpoint0, dev>>
callVars == <<todo, copy, returned>>
busVars == <<link, permits>>
vars == <<deviceVars, callVars, busVars>>

Registers == {"USBCON", "UDCON", "UDIEN", "UDINT", "PLLCSR", "REGCR"}
InterruptBits == Interrupts \cup {"SOFI"}
Bits == [USBCON |-> {"USBE", "FRZCLK"}, UDCON |-> {"DETACH", "RMWKUP"},
         UDIEN |-> InterruptBits, UDINT |-> InterruptBits,
         PLLCSR |-> {"PLLE", "PLOCK"}, REGCR |-> {"REGDIS"}]

\* The address the host assigns.
DeviceAddress == 5

-----------------------------------------------------------------------------
(***************************************************************************)
(* The functions, as the statements they execute in this build: automatic  *)
(* PLL, regulator enabled, a controller without VBUS and OTG pad.          *)
(***************************************************************************)
Put(register, bits) == [does |-> "put", reg |-> register, bits |-> bits]
SetBit(register, bit) == [does |-> "set", reg |-> register, bits |-> {bit}]
ClearBit(register, bit) == [does |-> "clear", reg |-> register, bits |-> {bit}]
AwaitSet(register, bit) == [does |-> "await set", reg |-> register, bits |-> {bit}]
AwaitClear(register, bit) == [does |-> "await clear", reg |-> register, bits |-> {bit}]
Other(what) == [does |-> what, reg |-> "UDCON", bits |-> {}]

USB_INT_Enable(i) == SetBit("UDIEN", i)
USB_INT_Disable(i) == ClearBit("UDIEN", i)
USB_INT_Clear(i) == ClearBit("UDINT", i)
USB_INT_DisableAllInterrupts == Put("UDIEN", {})
USB_INT_ClearAllInterrupts == Put("UDINT", {})
USB_CLK_Unfreeze == ClearBit("USBCON", "FRZCLK")
USB_Controller_Disable == ClearBit("USBCON", "USBE")
USB_Controller_Reset == <<ClearBit("USBCON", "USBE"), SetBit("USBCON", "USBE")>>
USB_PLL_On == <<Put("PLLCSR", {}), Put("PLLCSR", {"PLLE"})>>
USB_PLL_Off == Put("PLLCSR", {})
AwaitPLL == AwaitSet("PLLCSR", "PLOCK")
USB_REG_On == ClearBit("REGCR", "REGDIS")
USB_REG_Off == SetBit("REGCR", "REGDIS")
USB_Attach == ClearBit("UDCON", "DETACH")
USB_Detach == SetBit("UDCON", "DETACH")

USB_Init_Device ==
  <<Other("globals"), Other("configure"),
    USB_INT_Clear("SUSPI"), USB_INT_Enable("SUSPI"), USB_INT_Enable("EORSTI"),
    USB_Attach>>

USB_ResetInterface ==
  <<USB_INT_DisableAllInterrupts, USB_INT_ClearAllInterrupts>>
    \o USB_Controller_Reset \o <<USB_CLK_Unfreeze>>
    \o USB_PLL_On \o <<AwaitPLL>> \o USB_Init_Device

USB_Init == <<USB_REG_On, Other("initialized")>> \o USB_ResetInterface

\* Mutated USB_Disable: the PLL is stopped before the interrupts are.
USB_DisableLate ==
  <<USB_PLL_Off, USB_INT_DisableAllInterrupts, USB_INT_ClearAllInterrupts,
    USB_Detach, USB_Controller_Disable, USB_REG_Off,
    Other("initialized"), Other("uninitialized")>>

USB_Disable ==
  <<USB_INT_DisableAllInterrupts, USB_INT_ClearAllInterrupts,
    USB_Detach, USB_Controller_Disable, USB_PLL_Off, USB_REG_Off,
    Other("initialized"), Other("uninitialized")>>

\* Mutated USB_Device_SendRemoteWakeup: the clock is left frozen.
SendRemoteWakeupFrozen ==
  USB_PLL_On \o <<AwaitPLL, SetBit("UDCON", "RMWKUP"), AwaitClear("UDCON", "RMWKUP")>>

USB_Device_SendRemoteWakeup ==
  USB_PLL_On
    \o <<AwaitPLL, USB_CLK_Unfreeze,
         SetBit("UDCON", "RMWKUP"), AwaitClear("UDCON", "RMWKUP")>>

USB_Device_EnableSOFEvents == <<USB_INT_Enable("SOFI")>>
USB_Device_DisableSOFEvents == <<USB_INT_Disable("SOFI")>>

-----------------------------------------------------------------------------
(***************************************************************************)
(* Registers.  Disabling the controller resets it.  A flag of UDINT is     *)
(* cleared by writing 0; writing 1 leaves it as it is.                     *)
(***************************************************************************)
Attached(r) == "USBE" \in r.USBCON /\ "DETACH" \notin r.UDCON
ClockRuns == "FRZCLK" \notin reg.USBCON /\ "PLOCK" \in reg.PLLCSR
Pending == reg.UDINT \cap reg.UDIEN # {}

Write(register, bits) ==
  LET off == register = "USBCON" /\ "USBE" \notin bits
      written == [reg EXCEPT ![register] = IF register = "UDINT" THEN @ \cap bits
                                                                 ELSE bits]
      now == IF off THEN [written EXCEPT !.UDCON = {"DETACH"}, !.UDIEN = {}, !.UDINT = {}]
                    ELSE written
  IN /\ reg' = now
     /\ addr' = IF off THEN NoAddress ELSE addr
     /\ endpoint0' = IF off THEN "none" ELSE endpoint0
     /\ link' = CASE ~Attached(now) -> "none"
                  [] Attached(now) /\ link = "none" -> "idle"
                  [] OTHER -> link
     /\ permits' = (permits /\ Attached(now))

\* The record the parts of the general interrupt work on.
View ==
  [state |-> dev.state, cfg |-> dev.cfg, frozen |-> "FRZCLK" \in reg.USBCON,
   pll |-> "PLOCK" \in reg.PLLCSR, ien |-> reg.UDIEN, int |-> reg.UDINT,
   addr |-> addr]

-----------------------------------------------------------------------------
\* The main program has called USB_Init after a power-on.
Init ==
  /\ reg = [USBCON |-> {"FRZCLK"}, UDCON |-> {"DETACH"}, UDIEN |-> {},
            UDINT |-> {}, PLLCSR |-> {}, REGCR |-> {}]
  /\ addr = NoAddress /\ endpoint0 = "none"
  /\ dev = [state |-> "Unattached", cfg |-> 0, initialized |-> FALSE, wakeup |-> FALSE]
  /\ todo = USB_Init /\ copy = <<>> /\ returned = FALSE
  /\ link = "none" /\ permits = FALSE

(***************************************************************************)
(* Calls.  An application resets or disables what it has initialized, and  *)
(* sends a remote wake-up to a suspended bus (which this build reports as  *)
(* Unattached) if the library says that the host allows it.                *)
(***************************************************************************)
Call(statements) ==
  /\ todo = <<>> /\ todo' = statements
  /\ UNCHANGED <<deviceVars, copy, returned, busVars>>

CallInit == Call(USB_Init)
CallReset == dev.initialized /\ Call(USB_ResetInterface)
CallDisable == dev.initialized /\ Call(USB_Disable)
CallRemoteWakeup ==
  /\ dev.initialized /\ dev.wakeup /\ dev.state = "Unattached"
  /\ Call(USB_Device_SendRemoteWakeup)
CallSOFEvents ==
  /\ dev.initialized
  /\ Call(USB_Device_EnableSOFEvents) \/ Call(USB_Device_DisableSOFEvents)

AppCall ==
  CallInit \/ CallReset \/ CallDisable \/ CallRemoteWakeup \/ CallSOFEvents

(***************************************************************************)
(* Statements.  An enabled interrupt is taken before the next instruction, *)
(* except that one instruction is executed after an interrupt's return.    *)
(***************************************************************************)
MainExecutes == ~Pending \/ returned
Doing(what) == MainExecutes /\ todo # <<>> /\ Head(todo).does = what
Operand == Head(todo).bits
Done == todo' = Tail(todo) /\ copy' = <<>> /\ returned' = FALSE

PutRegister ==
  /\ Doing("put") /\ Write(Head(todo).reg, Operand)
  /\ Done /\ UNCHANGED dev

ReadRegister ==
  /\ Doing("set") \/ Doing("clear")
  /\ copy = <<>> /\ copy' = <<reg[Head(todo).reg]>> /\ returned' = FALSE
  /\ UNCHANGED <<deviceVars, todo, busVars>>

WriteBack ==
  /\ MainExecutes /\ copy # <<>>
  /\ Write(Head(todo).reg, IF Doing("set") THEN copy[1] \cup Operand
                                           ELSE copy[1] \ Operand)
  /\ Done /\ UNCHANGED dev

Await ==
  /\ \/ Doing("await set") /\ Operand \subseteq reg[Head(todo).reg]
     \/ Doing("await clear") /\ Operand \cap reg[Head(todo).reg] = {}
  /\ Done /\ UNCHANGED <<deviceVars, busVars>>

ResetGlobals ==
  /\ Doing("globals")
  /\ dev' = [dev EXCEPT !.state = "Unattached", !.cfg = 0, !.wakeup = FALSE]
  /\ Done /\ UNCHANGED <<reg, addr, endpoint0, busVars>>

ConfigureEndpoint0 ==
  /\ Doing("configure") /\ endpoint0' = "configured"
  /\ Done /\ UNCHANGED <<reg, addr, dev, busVars>>

MarkInitialized ==
  /\ Doing("initialized") \/ Doing("uninitialized")
  /\ dev' = [dev EXCEPT !.initialized = Doing("initialized")]
  /\ Done /\ UNCHANGED <<reg, addr, endpoint0, busVars>>

Statement == PutRegister \/ ReadRegister \/ WriteBack \/ Await
             \/ ResetGlobals \/ ConfigureEndpoint0 \/ MarkInitialized

(***************************************************************************)
(* ISR(USB_GEN_vect).  The part for the start of a frame comes first and   *)
(* only clears the flag: EVENT_USB_Device_StartOfFrame is empty.           *)
(***************************************************************************)
SofPart(u) == IF Occurred(u, "SOFI") /\ IsEnabled(u, "SOFI") THEN Clear(u, "SOFI") ELSE u

UsbGenISR ==
  LET awake == WakePart(SuspendPart(SofPart(View)))
      served == ResetPart(awake)
      clockTouched == SuspendDue(SofPart(View)) \/ WakeDue(SuspendPart(SofPart(View)))
  IN /\ Pending
     /\ reg' = [reg EXCEPT
          !.USBCON = (@ \ {"FRZCLK"}) \cup (IF served.frozen THEN {"FRZCLK"} ELSE {}),
          !.PLLCSR = CASE ~clockTouched -> @
                       [] clockTouched /\ served.pll -> {"PLLE", "PLOCK"}
                       [] OTHER -> {},
          !.UDIEN = served.ien, !.UDINT = served.int]
     /\ endpoint0' = IF ResetDue(awake) THEN "listening" ELSE endpoint0
     /\ dev' = [dev EXCEPT !.state = served.state, !.cfg = served.cfg]
     /\ returned' = TRUE
     /\ UNCHANGED <<addr, todo, copy, busVars>>

(***************************************************************************)
(* What the control endpoint's interrupt makes of the host's requests; it  *)
(* is modelled in UsbDevice and ControlTransfer.                           *)
(***************************************************************************)
Reachable == /\ Attached(reg) /\ ClockRuns /\ link = "active"
             /\ endpoint0 = "listening" /\ ~Pending

SetAddress ==
  /\ Reachable /\ addr' = DeviceAddress
  /\ dev' = [dev EXCEPT !.state = "Addressed"]
  /\ UNCHANGED <<reg, endpoint0, callVars, busVars>>

SetConfiguration(number) ==
  /\ Reachable
  /\ dev' = [dev EXCEPT !.cfg = number,
               !.state = StateFromConfiguration([View EXCEPT !.cfg = number])]
  /\ UNCHANGED <<reg, addr, endpoint0, callVars, busVars>>

SetRemoteWakeup(allowed) ==
  /\ Reachable /\ permits' = allowed
  /\ dev' = [dev EXCEPT !.wakeup = allowed]
  /\ UNCHANGED <<reg, addr, endpoint0, callVars, link>>

\* Mutated Configurations: the number is not compared with the limit.
ConfigurationsUnchecked == 0 .. FIXED_NUM_CONFIGURATIONS + 1

Configurations == 0 .. FIXED_NUM_CONFIGURATIONS

HostRequest == \/ SetAddress
               \/ \E number \in Configurations : SetConfiguration(number)
               \/ \E allowed \in BOOLEAN : SetRemoteWakeup(allowed)

-----------------------------------------------------------------------------
(***************************************************************************)
(* The bus and the controller hardware (outside this source).              *)
(*                                                                         *)
(* An enabled interrupt is served before the bus does the next thing.  A   *)
(* patient bus does nothing in the few microseconds for which an interrupt *)
(* that came between the read and the write of a statement runs.  A        *)
(* suspend needs three milliseconds of idle bus after at least one frame;  *)
(* a call that began meanwhile is over.                                    *)
(***************************************************************************)
Steady == Attached(reg) /\ ~Pending /\ (PatientBus => copy = <<>> \/ ~returned)

BusEvent(after) ==
  /\ Steady /\ reg' = [reg EXCEPT !.UDINT = after.int] /\ addr' = after.addr
  /\ UNCHANGED <<endpoint0, dev, callVars>>

HostActs == BusEvent(LineActivity(View)) /\ link' = "active" /\ UNCHANGED permits

StartOfFrame ==
  /\ link = "active" /\ ClockRuns
  /\ BusEvent([LineActivity(View) EXCEPT !.int = @ \cup {"SOFI"}])
  /\ UNCHANGED busVars

\* The end of a reset.  Its start is HostActs, which wakes the device.
HostResets ==
  /\ link = "active" /\ ClockRuns /\ BusEvent(BusResetSeen(View))
  /\ permits' = FALSE /\ UNCHANGED link

HostIdles ==
  /\ link = "active" /\ "WAKEUPI" \in reg.UDINT /\ ~Pending /\ todo = <<>>
  /\ link' = "idle" /\ UNCHANGED <<deviceVars, callVars, permits>>

SuspendDetected ==
  /\ link = "idle" /\ ClockRuns /\ "SUSPI" \notin reg.UDINT
  /\ BusEvent(IdleDetected(View)) /\ UNCHANGED busVars

PllLocks ==
  /\ reg.PLLCSR = {"PLLE"} /\ reg' = [reg EXCEPT !.PLLCSR = {"PLLE", "PLOCK"}]
  /\ UNCHANGED <<addr, endpoint0, dev, callVars, busVars>>

\* The controller has signalled the resume; a suspended host answers or not.
RemoteWakeupSent ==
  /\ "RMWKUP" \in reg.UDCON /\ Attached(reg) /\ ClockRuns
  /\ \E answered \in BOOLEAN :
       /\ reg' = [reg EXCEPT !.UDCON = @ \ {"RMWKUP"},
                    !.UDINT = IF answered THEN LineActivity(View).int ELSE @]
       /\ link' = IF answered THEN "active" ELSE link
  /\ UNCHANGED <<addr, endpoint0, dev, callVars, permits>>

BusStep == HostActs \/ StartOfFrame \/ HostResets \/ HostIdles \/ SuspendDetected
           \/ PllLocks \/ RemoteWakeupSent

Next == AppCall \/ Statement \/ UsbGenISR \/ HostRequest \/ BusStep

Spec == Init /\ [][Next]_vars

\* The processor executes, the main program too: interrupts take microseconds and
\* what raises them milliseconds.  The PLL locks; a remote wake-up is signalled.
Fairness == /\ SF_vars(Statement) /\ WF_vars(UsbGenISR)
            /\ WF_vars(PllLocks) /\ WF_vars(RemoteWakeupSent)
FairSpec == Spec /\ Fairness

-----------------------------------------------------------------------------
\* Every variable stays in its set.
TypeOK ==
  /\ DOMAIN reg = Registers /\ \A r \in Registers : reg[r] \subseteq Bits[r]
  /\ addr \in {NoAddress, DeviceAddress}
  /\ endpoint0 \in {"none", "configured", "listening"}
  /\ dev \in [state : DeviceStates, cfg : 0 .. FIXED_NUM_CONFIGURATIONS,
              initialized : BOOLEAN, wakeup : BOOLEAN]
  /\ \A i \in DOMAIN todo : todo[i].bits \subseteq Bits[todo[i].reg]
  /\ copy # <<>> => /\ Head(todo).does \in {"set", "clear"}
                    /\ copy[1] \subseteq Bits[Head(todo).reg]
  /\ link \in {"none", "idle", "active"} /\ permits \in BOOLEAN

\* After USB_Disable nothing of the interface is left running, whatever
\* interrupts came while it ran: none of them has started the PLL or the clock
\* of a controller that is being switched off (USBController.c:57-76).
OffMeansOff ==
  ~dev.initialized /\ todo = <<>> =>
    /\ reg.UDIEN = {} /\ reg.PLLCSR = {}
    /\ "USBE" \notin reg.USBCON /\ "REGDIS" \in reg.REGCR /\ "DETACH" \in reg.UDCON
    /\ endpoint0 = "none" /\ addr = NoAddress

\* Between calls an initialized interface has a clock that works: if it runs,
\* the PLL that feeds it is locked; if it is stopped, the wake-up interrupt can
\* start it and a reset will be noticed, although the frame events are switched
\* by reading and writing a register the interrupt changes too.
ClockManaged ==
  dev.initialized /\ todo = <<>> /\ ~Pending =>
    /\ "FRZCLK" \notin reg.USBCON => "PLOCK" \in reg.PLLCSR
    /\ "FRZCLK" \in reg.USBCON => "WAKEUPI" \in reg.UDIEN
    /\ "EORSTI" \in reg.UDIEN

\* Every call returns: the waits for the PLL (USBController.c:96, Device.c:35)
\* and for the end of the remote wake-up (Device.c:41) end, although interrupts
\* stop and start the PLL meanwhile.
CallsReturn == todo # <<>> ~> todo = <<>>

\* Once a reset was served, the library says that the host allows remote
\* wake-up only if it does (DeviceStandardReq.h:68-81).
WakeupPermitted ==
  dev.initialized /\ todo = <<>> /\ "EORSTI" \notin reg.UDINT /\ dev.wakeup => permits
=============================================================================
