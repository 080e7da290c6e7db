--------------------------- MODULE UsbController ---------------------------
(***************************************************************************)
(* The device controller of the ATmega16U2 as the library sees it, and the *)
(* library code that runs to completion on it: USB_Init and the three      *)
(* parts of the general USB interrupt (suspend, wake-up, end of reset).    *)
(*                                                                         *)
(* The storage is two records.  `usb' is the device-wide part: the globals *)
(* USB_DeviceState and USB_Device_ConfigurationNumber and the registers    *)
(* USBCON, PLLCSR, UDIEN, UDINT, UDADDR.  `ep' is the part that belongs to *)
(* the control endpoint, plus UENUM, which selects the endpoint that every *)
(* UE... register access goes to.  Each operator maps a record to the      *)
(* record after the code ran; code that runs its parts in a row is their   *)
(* composition.                                                            *)
(*                                                                         *)
(* The firmware is built for a controller without VBUS sensing, with full  *)
(* speed, automatic PLL, USB_DEVICE_ONLY, INTERRUPT_CONTROL_ENDPOINT and   *)
(* without NO_LIMITED_CONTROLLER_CONNECT (Descriptors, LUFAConfig.h).      *)
(***************************************************************************)
EXTENDS Integers

CONSTANT DataEndpoints   \* endpoints the application may select besides EP0

ENDPOINT_CONTROLEP == 0

ASSUME DataEndpointsAssumption ==
  /\ DataEndpoints \subseteq Nat
  /\ ENDPOINT_CONTROLEP \notin DataEndpoints

Endpoints == DataEndpoints \cup {ENDPOINT_CONTROLEP}

(***************************************************************************)
(* USB_Device_States_t.  DEVICE_STATE_Suspended exists in the enumeration, *)
(* but no code of this build stores it.                                    *)
(***************************************************************************)
DeviceStates == {"Unattached", "Powered", "Default", "Addressed", "Configured"}

(***************************************************************************)
(* The interrupt sources of UDIEN/UDINT the firmware uses.  SOFI is never  *)
(* enabled: nothing calls USB_Device_EnableSOFEvents.                      *)
(***************************************************************************)
Interrupts == {"SUSPI", "WAKEUPI", "EORSTI"}

(***************************************************************************)
(* UDADDR: NoAddress while ADDEN is clear, else the seven bits of address. *)
(***************************************************************************)
NoAddress == -1
Addresses == 0 .. 127

Bytes == 0 .. 255   \* uint8_t

\* The numbers USB_Device_SetConfiguration accepts are 0 and 1.
FIXED_NUM_CONFIGURATIONS == 1

UsbRecords ==
  [state  : DeviceStates,              \* USB_DeviceState
   cfg    : Bytes,                     \* USB_Device_ConfigurationNumber
   frozen : BOOLEAN,                   \* FRZCLK in USBCON
   pll    : BOOLEAN,                   \* PLL on and locked
   ien    : SUBSET Interrupts,         \* UDIEN
   int    : SUBSET Interrupts,         \* UDINT
   addr   : Addresses \cup {NoAddress}]\* UDADDR with ADDEN

EpRecords ==
  [uenum  : Endpoints,                 \* UENUM
   rxstpe : BOOLEAN,                   \* RXSTPE of the control endpoint
   setup  : BOOLEAN,                   \* RXSTPI: a SETUP packet is in the bank
   out    : BOOLEAN,                   \* RXOUTI: an OUT packet is in the bank
   inBusy : BOOLEAN,                   \* TXINI clear: an IN packet is armed
   stall  : BOOLEAN]                   \* STALLRQ

(***************************************************************************)
(* Register accessors named after the inline functions of the library.     *)
(***************************************************************************)
Enable(u, i) == [u EXCEPT !.ien = @ \cup {i}]
Disable(u, i) == [u EXCEPT !.ien = @ \ {i}]
Clear(u, i) == [u EXCEPT !.int = @ \ {i}]
Occurred(u, i) == i \in u.int
IsEnabled(u, i) == i \in u.ien
AddressSet(u) == u.addr # NoAddress

\* The address the controller answers to: 0 until UDADDR is enabled.
BusAddress(u) == IF AddressSet(u) THEN u.addr ELSE 0

(***************************************************************************)
(* Power-on contents of the globals and registers.                         *)
(***************************************************************************)
UsbPowerOn ==
  [state |-> "Unattached", cfg |-> 0, frozen |-> TRUE, pll |-> FALSE,
   ien |-> {}, int |-> {}, addr |-> NoAddress]

EpPowerOn ==
  [uenum |-> ENDPOINT_CONTROLEP, rxstpe |-> FALSE, setup |-> FALSE,
   out |-> FALSE, inBusy |-> FALSE, stall |-> FALSE]

(***************************************************************************)
(* USB_ResetInterface: all interrupts disabled and cleared, the controller *)
(* reset, the clock running and the PLL locked (the code spins on          *)
(* USB_PLL_IsReady).                                                       *)
(***************************************************************************)
ResetInterface(u) ==
  [u EXCEPT !.ien = {}, !.int = {}, !.frozen = FALSE, !.pll = TRUE,
            !.addr = NoAddress]

(***************************************************************************)
(* USB_Init_Device: globals reset, then SUSPI and EORSTI are enabled.      *)
(***************************************************************************)
InitDevice(u) ==
  Enable(Enable(Clear([u EXCEPT !.state = "Unattached", !.cfg = 0], "SUSPI"),
                "SUSPI"), "EORSTI")

(***************************************************************************)
(* Endpoint_ConfigureEndpoint(ENDPOINT_CONTROLEP, ...): the endpoint is    *)
(* disabled, freed and set up again, so its bank is empty and its flags    *)
(* and interrupt enables are clear; it stays the selected endpoint.        *)
(***************************************************************************)
ConfigureControlEndpoint(e) == EpPowerOn

(***************************************************************************)
(* The three parts of ISR(USB_GEN_vect), in the order the ISR runs them.   *)
(* Each tests the flag and its enable when it is reached, so an interrupt  *)
(* that an earlier part enabled is served in the same run.                 *)
(***************************************************************************)
SuspendDue(u) == Occurred(u, "SUSPI") /\ IsEnabled(u, "SUSPI")
WakeDue(u) == Occurred(u, "WAKEUPI") /\ IsEnabled(u, "WAKEUPI")
ResetDue(u) == Occurred(u, "EORSTI") /\ IsEnabled(u, "EORSTI")

\* Mutated SuspendPart: the wake-up interrupt stays disabled.
SuspendPartForgetsWakeUp(u) ==
  IF SuspendDue(u)
  THEN [Disable(u, "SUSPI")
          EXCEPT !.frozen = TRUE, !.pll = FALSE, !.state = "Unattached"]
  ELSE u

\* The flag SUSPI is left set: the hardware clears it on the next wake-up.
SuspendPart(u) ==
  IF SuspendDue(u)
  THEN [Enable(Disable(u, "SUSPI"), "WAKEUPI")
          EXCEPT !.frozen = TRUE, !.pll = FALSE, !.state = "Unattached"]
  ELSE u

\* The state after a wake-up or a SET CONFIGURATION, from the number and ADDEN.
StateFromConfiguration(u) ==
  IF u.cfg # 0 \/ AddressSet(u) THEN "Configured" ELSE "Powered"

\* Mutated WakePart: the suspend interrupt stays disabled.
WakePartForgetsSuspend(u) ==
  IF WakeDue(u)
  THEN [Disable(Clear(u, "WAKEUPI"), "WAKEUPI")
          EXCEPT !.pll = TRUE, !.frozen = FALSE,
                 !.state = StateFromConfiguration(u)]
  ELSE u

WakePart(u) ==
  IF WakeDue(u)
  THEN [Enable(Disable(Clear(u, "WAKEUPI"), "WAKEUPI"), "SUSPI")
          EXCEPT !.pll = TRUE, !.frozen = FALSE,
                 !.state = StateFromConfiguration(u)]
  ELSE u

ResetPart(u) ==
  IF ResetDue(u)
  THEN LET cleared == Clear(Clear(u, "EORSTI"), "SUSPI")
       IN [Enable(Disable(cleared, "SUSPI"), "WAKEUPI")
             EXCEPT !.state = "Default", !.cfg = 0]
  ELSE u

\* Mutated ResetEndpointPart: the SETUP interrupt is not enabled again.
ResetEndpointPartForgetsSetup(u, e) ==
  IF ResetDue(u) THEN ConfigureControlEndpoint(e) ELSE e

\* The control endpoint after the reset part: set up anew and armed.
ResetEndpointPart(u, e) ==
  IF ResetDue(u)
  THEN [ConfigureControlEndpoint(e) EXCEPT !.rxstpe = TRUE]
  ELSE e

(***************************************************************************)
(* What the controller does by itself (outside this source, as the code    *)
(* relies on it).  Signalling on the lines raises WAKEUPI, suspended or    *)
(* not, and clears SUSPI; three idle frames raise SUSPI and clear WAKEUPI, *)
(* if the clock runs.  A bus reset clears UDADDR, empties the control      *)
(* endpoint and raises EORSTI, if the clock runs.                          *)
(***************************************************************************)
LineActivity(u) == [u EXCEPT !.int = (@ \ {"SUSPI"}) \cup {"WAKEUPI"}]

IdleDetected(u) == [u EXCEPT !.int = (@ \ {"WAKEUPI"}) \cup {"SUSPI"}]

BusResetSeen(u) == [LineActivity(u) EXCEPT !.int = @ \cup {"EORSTI"},
                                           !.addr = NoAddress]

EndpointReset(e) == [e EXCEPT !.setup = FALSE, !.out = FALSE,
                              !.inBusy = FALSE, !.stall = FALSE]
=============================================================================
