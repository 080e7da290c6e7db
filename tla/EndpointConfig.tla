--------------------------- MODULE EndpointConfig ---------------------------
(***************************************************************************)
(* How the library divides the controller's packet memory among the        *)
(* endpoints: Endpoint_ConfigureEndpoint, which sets one endpoint up and   *)
(* allocates all endpoints above it anew, Endpoint_ConfigureEndpointTable, *)
(* CDC_Device_ConfigureEndpoints and Endpoint_ClearEndpoints.              *)
(*                                                                         *)
(* The bus reset interrupt sets up the control endpoint through the same   *)
(* function.  It may find the main program in the middle of a call, since  *)
(* only the selected endpoint, UENUM, says where a register write goes.    *)
(*                                                                         *)
(* The registers of an endpoint are a record; a configuration stands for   *)
(* UECFG0X and the size and bank fields of UECFG1X.  The placement of the  *)
(* banks in the memory is the hardware's and follows the data sheet: an    *)
(* endpoint gets the memory after the nearest allocated one below it; the  *)
(* next endpoint above slides, with its data lost, and the others stay.    *)
(*                                                                         *)
(* Bound: once a bus reset has torn a call, the call and its table are     *)
(* followed to the end, and then only Endpoint_ClearEndpoints.             *)
(***************************************************************************)
EXTENDS Integers, Sequences

CONSTANTS
  ENDPOINT_TOTAL_ENDPOINTS,
  DpramBytes,        \* size of the packet memory
  MaxBankBytes,      \* largest bank of an endpoint
  DoubleBanked,      \* endpoints that may have two banks
  Types,             \* EP_TYPE_ masks of the data endpoints
  Tables             \* the tables the application configures

EPs == 0 .. ENDPOINT_TOTAL_ENDPOINTS - 1
ENDPOINT_CONTROLEP == 0
Control == "CONTROL"
Unset == "UNSET"   \* the type of an endpoint that was not set up

\* The bank sizes UECFG1X can say: eight bytes, doubled up to six times.
BankSizes == {8, 16, 32, 64, 128, 256, 512}

\* Endpoint_BytesToEPSizeMask: the smallest bank that holds that many bytes.
BankSize(bytes) ==
  CHOOSE s \in BankSizes :
    s >= bytes /\ \A t \in BankSizes : t >= bytes => s <= t

Directions == {"IN", "OUT"}

\* USB_Endpoint_Table_t, with the address split into number and direction.
Entries ==
  [number : 0 .. 15, dir : Directions, type : Types \cup {Control},
   size : 1 .. 512, banks : 1 .. 2]

\* An entry whose address is zero is unused.
Used(t) == t.number # 0 \/ t.dir = "IN"

ASSUME EndpointsAssumption ==
  /\ ENDPOINT_TOTAL_ENDPOINTS \in 1 .. 16
  /\ DpramBytes \in Nat /\ MaxBankBytes \in Nat
  /\ DoubleBanked \subseteq EPs
  /\ Unset \notin Types
ASSUME TablesAssumption ==
  /\ Tables \subseteq Seq(Entries)
  /\ \A t \in Tables : \A i \in 1 .. Len(t) :
       t[i].number = ENDPOINT_CONTROLEP => t[i].dir = "OUT"

VARIABLES
  ep,      \* the registers of each endpoint
  start,   \* where its memory starts, 0 while it is not allocated
  uenum,   \* UENUM, the selected endpoint
  call,    \* Endpoint_ConfigureEndpoint_Prv, one activation per level
  todo,    \* entries of the application's table still to configure
  asked,   \* the configuration last asked for, of each endpoint
  sound,   \* endpoints below this one were set up with success
  torn     \* a bus reset was served in the middle of a call

vars == <<ep, start, uenum, call, todo, asked, sound, torn>>

Configs ==
  [type : Types \cup {Control, Unset}, dir : Directions, size : BankSizes,
   banks : 1 .. 2]

\* UECFG0X and UECFG1X after power-on or Endpoint_ClearEndpoints.
NoConfig == [type |-> Unset, dir |-> "OUT", size |-> 8, banks |-> 1]

\* Endpoint_ConfigureEndpoint(ENDPOINT_CONTROLEP, EP_TYPE_CONTROL, 8, 1)
ControlConfig == [type |-> Control, dir |-> "OUT", size |-> 8, banks |-> 1]
ConfigOf(t) == [type |-> t.type, dir |-> t.dir, size |-> BankSize(t.size),
                banks |-> t.banks]

Registers ==
  [en    : BOOLEAN,                  \* EPEN
   alloc : BOOLEAN,                  \* ALLOC
   cfg   : Configs,                  \* UECFG0X and the rest of UECFG1X
   rxstpe : BOOLEAN]                 \* UEIENX
Cleared == [en |-> FALSE, alloc |-> FALSE, cfg |-> NoConfig, rxstpe |-> FALSE]

Levels == {"main", "isr"}
Calls ==
  [pc : {"idle", "select", "load", "free", "write", "enable"},
   number : EPs, cfg : Configs,            \* the arguments
   epnum : 0 .. ENDPOINT_TOTAL_ENDPOINTS,  \* the loop variable
   temp : Configs,                         \* UECFG0XTemp, UECFG1XTemp
   tempIen : BOOLEAN]                      \* UEIENXTemp

NotCalled ==
  [pc |-> "idle", number |-> 0, cfg |-> ControlConfig, epnum |-> 0,
   temp |-> NoConfig, tempIen |-> FALSE]

\* The interrupt runs before the main program goes on.
running == IF call["isr"].pc # "idle" THEN "isr" ELSE "main"
here == call[running]
Idle == \A l \in Levels : call[l].pc = "idle"

Init ==
  /\ ep = [n \in EPs |-> Cleared] /\ start = [n \in EPs |-> 0] /\ uenum = 0
  /\ call = [l \in Levels |-> NotCalled] /\ todo = <<>>
  /\ asked = [n \in EPs |-> NoConfig]
  /\ sound = ENDPOINT_TOTAL_ENDPOINTS /\ torn = FALSE

-----------------------------------------------------------------------------
(***************************************************************************)
(* The hardware's placement (data sheet).                                  *)
(***************************************************************************)
MemoryBytes(r) == r.cfg.size * r.cfg.banks
End(e, s, n) == s[n] + MemoryBytes(e[n])

\* p is where the memory of endpoint n goes: after the nearest one below.
FirstFree(e, s, n, p) ==
  \/ p = 0 /\ \A j \in EPs : j < n => ~e[j].alloc
  \/ \E j \in EPs :
       /\ j < n /\ e[j].alloc /\ p = End(e, s, j)
       /\ \A i \in EPs : j < i /\ i < n => ~e[i].alloc

Places(e, s) == {0} \cup {End(e, s, j) : j \in EPs}

\* The endpoint above n slides if it is allocated.
Slid(e, s, n) ==
  IF n + 1 \in EPs /\ e[n + 1].alloc
  THEN {[s EXCEPT ![n + 1] = p] :
          p \in {q \in Places(e, s) : FirstFree(e, s, n + 1, q)}}
  ELSE {s}

\* CFGOK: the banks are within the endpoint's limits and fit the memory.
ConfigOK(n) ==
  /\ ep[n].cfg.size <= MaxBankBytes
  /\ ep[n].cfg.banks = 2 => n \in DoubleBanked
  /\ End(ep, start, n) <= DpramBytes

-----------------------------------------------------------------------------
(***************************************************************************)
(* The operations that start and end a call.                               *)
(***************************************************************************)
Begun(number, cfg) ==
  [pc |-> "select", number |-> number, cfg |-> cfg, epnum |-> number,
   temp |-> NoConfig, tempIen |-> FALSE]

\* CDC_Device_ConfigureEndpoints, or any other use of a table.
ConfigureEndpointTable ==
  /\ Idle /\ todo = <<>> /\ ~torn
  /\ todo' \in Tables
  /\ UNCHANGED <<ep, start, uenum, call, asked, sound, torn>>

\* The next entry of the table: skipped, refused, or the call begins.
ConfigureEndpoint ==
  /\ Idle /\ todo # <<>>
  /\ LET t == Head(todo)
     IN \/ /\ ~Used(t)
           /\ todo' = Tail(todo) /\ UNCHANGED <<call, asked>>
        \/ /\ Used(t) /\ t.number \notin EPs
           /\ todo' = <<>> /\ UNCHANGED <<call, asked>>
        \/ /\ Used(t) /\ t.number \in EPs
           /\ call' = [call EXCEPT !["main"] = Begun(t.number, ConfigOf(t))]
           /\ asked' = [asked EXCEPT ![t.number] = ConfigOf(t)]
           /\ UNCHANGED todo
  /\ UNCHANGED <<ep, start, uenum, sound, torn>>

\* The bus reset: the hardware disables the data endpoints, and the interrupt
\* sets the control endpoint up.  The main program may be in a call.
BusReset ==
  /\ call["isr"].pc = "idle" /\ ~torn
  /\ ep' = [n \in EPs |-> [ep[n] EXCEPT !.en = @ /\ n = ENDPOINT_CONTROLEP]]
  /\ call' = [call EXCEPT !["isr"] = Begun(ENDPOINT_CONTROLEP, ControlConfig)]
  /\ asked' = [asked EXCEPT ![ENDPOINT_CONTROLEP] = ControlConfig]
  /\ torn' = (torn \/ call["main"].pc # "idle")
  /\ UNCHANGED <<start, uenum, todo, sound>>

\* Endpoint_ClearEndpoints; the last endpoint stays selected.
ClearEndpoints ==
  /\ Idle /\ todo = <<>>
  /\ ep' = [n \in EPs |-> [ep[n] EXCEPT !.en = FALSE, !.alloc = FALSE,
                                        !.cfg = NoConfig, !.rxstpe = FALSE]]
  /\ uenum' = ENDPOINT_TOTAL_ENDPOINTS - 1
  /\ asked' = [n \in EPs |-> NoConfig] /\ start' = [n \in EPs |-> 0]
  /\ sound' = ENDPOINT_TOTAL_ENDPOINTS /\ torn' = FALSE
  /\ UNCHANGED <<call, todo>>

-----------------------------------------------------------------------------
(***************************************************************************)
(* Endpoint_ConfigureEndpoint_Prv, one register access or group of them    *)
(* that belong to one endpoint at a time.                                  *)
(***************************************************************************)
At(p) == here.pc = p
Goto(p) == call' = [call EXCEPT ![running].pc = p]

\* What the caller may rely on after a call that came to endpoint `reached'.
SoundAfter(reached) == IF here.number <= sound THEN reached ELSE sound

\* The main program's table goes on after true and is given up after false.
ReturnToMain(result) ==
  /\ running = "main"
  /\ todo' = IF result THEN Tail(todo) ELSE <<>>
  /\ sound' = SoundAfter(IF result THEN ENDPOINT_TOTAL_ENDPOINTS ELSE here.epnum)
  /\ call' = [call EXCEPT !["main"] = NotCalled]

\* The interrupt enables RXSTPE of whatever endpoint is selected; when the
\* call failed that is not the control endpoint, and nothing is as it should.
ReturnToISR(result) ==
  /\ running = "isr"
  /\ sound' = IF result THEN ENDPOINT_TOTAL_ENDPOINTS ELSE 0
  /\ call' = [call EXCEPT !["isr"] = NotCalled]
  /\ UNCHANGED todo

\* Mutated SelectNext: the loop runs one endpoint too far.
SelectNextTooFar ==
  /\ At("select") /\ here.epnum <= ENDPOINT_TOTAL_ENDPOINTS
  /\ uenum' = here.epnum /\ Goto("load")
  /\ UNCHANGED <<ep, start, todo, asked, sound, torn>>

SelectNext ==
  /\ At("select") /\ here.epnum < ENDPOINT_TOTAL_ENDPOINTS
  /\ uenum' = here.epnum /\ Goto("load")
  /\ UNCHANGED <<ep, start, todo, asked, sound, torn>>

\* Mutated LoadRegisters: every endpoint gets the new configuration.
LoadRegistersNew ==
  /\ At("load")
  /\ LET own == here.epnum = here.number
     IN call' = [call EXCEPT ![running] =
          IF own \/ ep[uenum].alloc
          THEN [here EXCEPT !.pc = "free", !.temp = here.cfg, !.tempIen = FALSE]
          ELSE [here EXCEPT !.pc = "select", !.epnum = here.epnum + 1]]
  /\ UNCHANGED <<ep, start, uenum, todo, asked, sound, torn>>

\* The new registers for the endpoint asked for, their own for the others;
\* an endpoint that is not allocated is skipped.
LoadRegisters ==
  /\ At("load")
  /\ LET own == here.epnum = here.number
     IN call' = [call EXCEPT ![running] =
          IF own \/ ep[uenum].alloc
          THEN [here EXCEPT !.pc = "free",
                            !.temp = IF own THEN here.cfg ELSE ep[uenum].cfg,
                            !.tempIen = ~own /\ ep[uenum].rxstpe]
          ELSE [here EXCEPT !.pc = "select", !.epnum = here.epnum + 1]]
  /\ UNCHANGED <<ep, start, uenum, todo, asked, sound, torn>>

\* EPEN of the selected endpoint.
Endpoint_EnableEndpoint == [ep EXCEPT ![uenum].en = TRUE]
Endpoint_DisableEndpoint == [ep EXCEPT ![uenum].en = FALSE]

\* The endpoint is disabled, then ALLOC is cleared and the next one slides.
FreeMemory ==
  /\ At("free") /\ Goto("write")
  /\ ep' = [Endpoint_DisableEndpoint EXCEPT ![uenum].alloc = FALSE]
  /\ start' \in Slid(ep', [start EXCEPT ![uenum] = 0], uenum)
  /\ UNCHANGED <<uenum, todo, asked, sound, torn>>

\* It is enabled, and UECFG0X and UECFG1X are written, which allocates.
WriteConfig ==
  /\ At("write") /\ Goto("enable")
  /\ ep' = [Endpoint_EnableEndpoint EXCEPT ![uenum].alloc = TRUE,
                                           ![uenum].cfg = here.temp]
  /\ \E p \in Places(ep', start) :
       /\ FirstFree(ep', start, uenum, p)
       /\ start' \in Slid(ep', [start EXCEPT ![uenum] = p], uenum)
  /\ UNCHANGED <<uenum, todo, asked, sound, torn>>

\* UEIENX is written and CFGOK read: on to the next endpoint.
EnableInterrupts ==
  /\ At("enable") /\ ConfigOK(uenum)
  /\ ep' = [ep EXCEPT ![uenum].rxstpe = here.tempIen]
  /\ call' = [call EXCEPT ![running].pc = "select", ![running].epnum = @ + 1]
  /\ UNCHANGED <<start, uenum, todo, asked, sound, torn>>

\* CFGOK is clear: the call returns false with this endpoint selected.
ConfigFails ==
  /\ At("enable") /\ ~ConfigOK(uenum)
  /\ ep' = [ep EXCEPT ![uenum].rxstpe = (here.tempIen \/ running = "isr")]
  /\ ReturnToMain(FALSE) \/ ReturnToISR(FALSE)
  /\ UNCHANGED <<start, uenum, asked, torn>>

\* Mutated Return: the endpoints above need not be allocated again.
ReturnEarly ==
  /\ At("select") /\ here.epnum > here.number
  /\ uenum' = here.number
  /\ ep' = [ep EXCEPT ![here.number].rxstpe = (@ \/ running = "isr")]
  /\ ReturnToMain(TRUE) \/ ReturnToISR(TRUE)
  /\ UNCHANGED <<start, asked, torn>>

\* The loop is done: the endpoint asked for is selected again.
Return ==
  /\ At("select") /\ here.epnum = ENDPOINT_TOTAL_ENDPOINTS
  /\ uenum' = here.number
  /\ ep' = [ep EXCEPT ![here.number].rxstpe = (@ \/ running = "isr")]
  /\ ReturnToMain(TRUE) \/ ReturnToISR(TRUE)
  /\ UNCHANGED <<start, asked, torn>>

Steps ==
  \/ SelectNext \/ LoadRegisters \/ FreeMemory \/ WriteConfig
  \/ EnableInterrupts \/ ConfigFails \/ Return

Next ==
  \/ ConfigureEndpointTable \/ ConfigureEndpoint \/ BusReset \/ ClearEndpoints
  \/ Steps

Spec == Init /\ [][Next]_vars

-----------------------------------------------------------------------------
(***************************************************************************)
(* Properties.                                                             *)
(***************************************************************************)

\* Every variable stays in its type.
TypeOK ==
  /\ ep \in [EPs -> Registers] /\ start \in [EPs -> Nat] /\ uenum \in EPs
  /\ call \in [Levels -> Calls] /\ todo \in Seq(Entries)
  /\ asked \in [EPs -> Configs]
  /\ sound \in 0 .. ENDPOINT_TOTAL_ENDPOINTS /\ torn \in BOOLEAN

\* The memory of the endpoints below n does not overlap, in endpoint order,
\* and each is within the packet memory.
Ordered(n) ==
  \A k \in EPs : k < n /\ ep[k].alloc =>
    /\ End(ep, start, k) <= DpramBytes
    /\ \A j \in EPs : j < k /\ ep[j].alloc => End(ep, start, j) <= start[k]

\* Endpoint k is set up the way it was last asked for, or not at all.
AsAsked(k) ==
  /\ ep[k].alloc <=> asked[k] # NoConfig
  /\ asked[k] # NoConfig => ep[k].en /\ ep[k].cfg = asked[k]
  /\ k = ENDPOINT_CONTROLEP /\ asked[k] # NoConfig => ep[k].rxstpe

(***************************************************************************)
(* Between calls the endpoints that were set up with success have memory   *)
(* of their own, whatever was grown, shrunk, freed or refused before: the  *)
(* reason for allocating all endpoints above again.  A call that failed    *)
(* at an endpoint leaves those below it sound, and a later call at or      *)
(* below the failed one repairs what it can.                               *)
(***************************************************************************)
MemorySeparate == Idle /\ ~torn => Ordered(sound)

(***************************************************************************)
(* Setting one endpoint up leaves every other one as it was asked for:     *)
(* enabled, with its own configuration, and the control endpoint with its  *)
(* SETUP interrupt.                                                        *)
(***************************************************************************)
ConfigurationKept ==
  Idle /\ ~torn => \A k \in EPs : k < sound => AsAsked(k)

(***************************************************************************)
(* What Device.h:71-73 says of a bus reset: the device now waits for the   *)
(* host to begin the enumeration process, so its control endpoint takes a  *)
(* SETUP packet.  (Without a failed call, and while nothing is configured.)*)
(***************************************************************************)
ResetLeavesListening ==
  Idle /\ asked[ENDPOINT_CONTROLEP] # NoConfig /\ sound > 0 =>
    /\ ep[ENDPOINT_CONTROLEP].en /\ ep[ENDPOINT_CONTROLEP].rxstpe
    /\ ep[ENDPOINT_CONTROLEP].cfg = ControlConfig
=============================================================================
