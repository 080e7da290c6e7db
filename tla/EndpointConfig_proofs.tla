------------------------ MODULE EndpointConfig_proofs ------------------------
(***************************************************************************)
(* Proofs about EndpointConfig, for every number of endpoints, size of the *)
(* packet memory and set of tables: types, that the endpoints set up with  *)
(* success have memory of their own, and that they are as asked for.       *)
(***************************************************************************)
EXTENDS EndpointConfig, TLAPS

USE DEF Endpoint_EnableEndpoint, Endpoint_DisableEndpoint

(***************************************************************************)
(* The inductive invariant.  A call in progress, not torn, has brought the *)
(* endpoints below `Reached' in order; those it has still to come to have  *)
(* only their registers right, and the one it is at is in between.         *)
(***************************************************************************)
Reached ==
  IF Idle THEN sound
  ELSE IF here.number <= sound THEN here.epnum ELSE sound

\* The allocation and the configuration, but not EPEN, are as asked for.
RegistersAsAsked(k) ==
  /\ ep[k].alloc <=> asked[k] # NoConfig
  /\ ep[k].alloc => ep[k].cfg = asked[k]

\* The endpoint the call is at and has not written yet.
InTransit(k) ==
  \/ here.pc = "write" /\ k = here.epnum
  \/ ~Idle /\ k = here.number /\ k = here.epnum /\ here.pc # "enable"

CallsInv ==
  /\ \A l \in Levels :
       /\ call[l].pc \notin {"idle", "select"} => call[l].epnum \in EPs
       /\ call[l].pc # "idle" => call[l].number <= call[l].epnum
  /\ call["main"].pc # "idle" =>
       /\ todo # <<>> /\ call["main"].number # ENDPOINT_CONTROLEP
  /\ call["isr"].pc # "idle" => call["isr"].number = ENDPOINT_CONTROLEP
  /\ \A i \in 1 .. Len(todo) :
       todo[i].number = ENDPOINT_CONTROLEP => todo[i].dir = "OUT"

\* The call in progress works on the endpoint it selected, with its values.
CallInv ==
  /\ call["isr"].pc = "idle" \/ call["main"].pc = "idle"
  /\ ~Idle =>
       /\ here.pc # "select" => uenum = here.epnum
       /\ here.cfg = asked[here.number] /\ here.cfg # NoConfig
       /\ here.pc \in {"free", "write", "enable"} =>
            here.temp = asked[here.epnum] /\ here.temp # NoConfig

RegistersInv == \A k \in EPs : ~InTransit(k) => RegistersAsAsked(k)

EnabledInv ==
  /\ \A k \in EPs : k < Reached /\ asked[k] # NoConfig => ep[k].en
  /\ here.pc = "enable" => ep[here.epnum].en

ArmedInv ==
  call["isr"].pc = "idle" /\ sound > 0
    /\ asked[ENDPOINT_CONTROLEP] # NoConfig => ep[ENDPOINT_CONTROLEP].rxstpe

MemoryInv ==
  /\ Ordered(Reached)
  /\ here.pc = "enable" /\ here.number <= sound =>
       \A j \in EPs : j < here.epnum /\ ep[j].alloc =>
         End(ep, start, j) <= start[here.epnum]

WholeInv == CallInv /\ RegistersInv /\ EnabledInv /\ ArmedInv /\ MemoryInv

IInv == TypeOK /\ CallsInv /\ (~torn => WholeInv)

-----------------------------------------------------------------------------
(***************************************************************************)
(* Lemmas about the operators.                                             *)
(***************************************************************************)

\* Every size a table may hold has a bank size.
LEMMA BankSizeType ==
  ASSUME NEW b \in 1 .. 512 PROVE BankSize(b) \in BankSizes
<1>1. \E s \in BankSizes :
        s >= b /\ \A t \in BankSizes : t >= b => s <= t
  <2>1. CASE b <= 64
    BY <2>1 DEF BankSizes
  <2>2. CASE b > 64
    BY <2>2 DEF BankSizes
  <2> QED BY <2>1, <2>2
<1> QED BY <1>1 DEF BankSize

\* The memory of an endpoint is a number of bytes.
LEMMA MemoryBytesType ==
  ASSUME NEW r \in Registers PROVE MemoryBytes(r) \in Nat
<1>1. r.cfg.size \in BankSizes /\ r.cfg.banks \in 1 .. 2
  BY DEF Registers, Configs
<1>2. r.cfg.banks = 1 \/ r.cfg.banks = 2
  BY <1>1
<1>3. r.cfg.size \in Nat
  BY <1>1 DEF BankSizes
<1>4. CASE r.cfg.banks = 1
  BY <1>3, <1>4 DEF MemoryBytes
<1>5. CASE r.cfg.banks = 2
  BY <1>3, <1>5 DEF MemoryBytes
<1> QED BY <1>2, <1>4, <1>5

LEMMA EndType ==
  ASSUME NEW e \in [EPs -> Registers], NEW s \in [EPs -> Nat], NEW n \in EPs
  PROVE  End(e, s, n) \in Nat
BY MemoryBytesType DEF End

LEMMA PlacesType ==
  ASSUME NEW e \in [EPs -> Registers], NEW s \in [EPs -> Nat]
  PROVE  Places(e, s) \subseteq Nat
BY EndType DEF Places

\* Only the endpoint above slides.
LEMMA SlidFrame ==
  ASSUME NEW e \in [EPs -> Registers], NEW s \in [EPs -> Nat], NEW n \in EPs,
         NEW s1 \in Slid(e, s, n)
  PROVE  /\ s1 \in [EPs -> Nat]
         /\ \A k \in EPs : k # n + 1 => s1[k] = s[k]
<1>1. CASE n + 1 \in EPs /\ e[n + 1].alloc
  <2>1. PICK p \in Places(e, s) : s1 = [s EXCEPT ![n + 1] = p]
    BY <1>1 DEF Slid
  <2>2. p \in Nat
    BY PlacesType
  <2> QED BY <2>1, <2>2
<1>2. CASE ~(n + 1 \in EPs /\ e[n + 1].alloc)
  BY <1>2 DEF Slid
<1> QED BY <1>1, <1>2

\* What comes first among ordered endpoints is below the first free byte.
LEMMA FirstFreeAbove ==
  ASSUME NEW e \in [EPs -> Registers], NEW s \in [EPs -> Nat], NEW n \in EPs,
         NEW p \in Nat, FirstFree(e, s, n, p),
         \A k \in EPs : k < n /\ e[k].alloc =>
           \A j \in EPs : j < k /\ e[j].alloc => End(e, s, j) <= s[k]
  PROVE  \A j \in EPs : j < n /\ e[j].alloc => End(e, s, j) <= p
<1> SUFFICES ASSUME NEW j \in EPs, j < n, e[j].alloc
             PROVE  End(e, s, j) <= p
  OBVIOUS
<1>1. PICK m \in EPs :
        /\ m < n /\ e[m].alloc /\ p = End(e, s, m)
        /\ \A i \in EPs : m < i /\ i < n => ~e[i].alloc
  BY DEF FirstFree
<1>2. j <= m
  BY <1>1 DEF EPs
<1>3. CASE j = m
  BY <1>1, <1>3, EndType
<1>4. CASE j < m
  <2>1. End(e, s, j) <= s[m]
    BY <1>1, <1>4
  <2>2. s[m] <= End(e, s, m)
    BY MemoryBytesType DEF End
  <2> QED BY <1>1, <2>1, <2>2, EndType
<1> QED BY <1>2, <1>3, <1>4 DEF EPs

-----------------------------------------------------------------------------
(***************************************************************************)
(* Types and the bookkeeping of calls.                                     *)
(***************************************************************************)
LEMMA ConfigTypes ==
  /\ NoConfig \in Configs /\ ControlConfig \in Configs
  /\ ControlConfig # NoConfig
  /\ NotCalled \in Calls /\ NotCalled.pc = "idle"
  /\ \A t \in Entries : ConfigOf(t) \in Configs /\ ConfigOf(t) # NoConfig
<1>1. /\ NoConfig \in Configs /\ ControlConfig \in Configs
      /\ ControlConfig # NoConfig
  BY DEF NoConfig, ControlConfig, Configs, Unset, Control, Directions, BankSizes
<1>2. NotCalled \in Calls /\ NotCalled.pc = "idle"
  BY <1>1, EndpointsAssumption DEF NotCalled, Calls, EPs
<1>3. ASSUME NEW t \in Entries
      PROVE  ConfigOf(t) \in Configs /\ ConfigOf(t) # NoConfig
  <2>1. BankSize(t.size) \in BankSizes
    BY BankSizeType DEF Entries
  <2>2. ConfigOf(t) \in Configs
    BY <2>1 DEF ConfigOf, Configs, Entries
  <2>3. ConfigOf(t).type # Unset
    BY EndpointsAssumption DEF ConfigOf, Entries, Unset, Control
  <2> QED BY <2>2, <2>3 DEF NoConfig
<1> QED BY <1>1, <1>2, <1>3

LEMMA BegunType ==
  ASSUME NEW n \in EPs, NEW c \in Configs
  PROVE  /\ Begun(n, c) \in Calls
         /\ Begun(n, c).pc = "select" /\ Begun(n, c).number = n
         /\ Begun(n, c).epnum = n /\ Begun(n, c).cfg = c
BY EndpointsAssumption, ConfigTypes DEF Begun, Calls, EPs

LEMMA ControlInEPs == ENDPOINT_CONTROLEP \in EPs
BY EndpointsAssumption DEF ENDPOINT_CONTROLEP, EPs

TypesInv == TypeOK /\ CallsInv

LEMMA InitTypes == Init => TypesInv
<1> SUFFICES ASSUME Init PROVE TypesInv
  OBVIOUS
<1> USE DEF Init
<1>1. TypeOK
  <2>1. Cleared \in Registers
    BY ConfigTypes DEF Registers, Cleared
  <2>2. ep \in [EPs -> Registers]
    BY <2>1
  <2>3. todo \in Seq(Entries) /\ 0 \in EPs
    BY ControlInEPs DEF ENDPOINT_CONTROLEP
  <2> QED
    BY <2>2, <2>3, ConfigTypes, EndpointsAssumption DEF TypeOK, Levels
<1>2. CallsInv
  BY ConfigTypes DEF CallsInv, Levels
<1> QED BY <1>1, <1>2 DEF TypesInv

\* What every step of a call may use of its own activation.
LEMMA HereFacts ==
  ASSUME TypesInv
  PROVE  /\ running \in Levels /\ here \in Calls
         /\ here.pc \notin {"idle", "select"} => here.epnum \in EPs
         /\ here.pc # "idle" => here.number <= here.epnum
         /\ running = "main" /\ here.pc # "idle" =>
              here.number # ENDPOINT_CONTROLEP /\ todo # <<>>
         /\ running = "isr" =>
              here.pc # "idle" /\ here.number = ENDPOINT_CONTROLEP
BY DEF TypesInv, TypeOK, CallsInv, running, here, Levels

\* A step that leaves the call's arguments and the table alone.
LEMMA CallStep ==
  ASSUME TypesInv, UNCHANGED todo, NEW c \in Calls,
         call' = [call EXCEPT ![running] = c], here.pc # "idle",
         c.pc # "idle", c.number = here.number, c.number <= c.epnum,
         c.pc # "select" => c.epnum \in EPs
  PROVE  call' \in [Levels -> Calls] /\ CallsInv'
<1> USE HereFacts
<1>1. call' \in [Levels -> Calls]
  BY DEF TypesInv, TypeOK
<1>2. CallsInv'
  BY DEF TypesInv, TypeOK, CallsInv, running, here, Levels
<1> QED BY <1>1, <1>2

\* The end of a call, with the table's next entry, its end, or as it was.
LEMMA CallEnd ==
  ASSUME TypesInv, here.pc # "idle",
         NEW result \in BOOLEAN, ReturnToMain(result) \/ ReturnToISR(result)
  PROVE  /\ call' \in [Levels -> Calls] /\ CallsInv'
         /\ todo' \in Seq(Entries)
         /\ sound' \in 0 .. ENDPOINT_TOTAL_ENDPOINTS
<1> USE HereFacts, ConfigTypes, EndpointsAssumption
<1>1. call' \in [Levels -> Calls]
  BY DEF TypesInv, TypeOK, ReturnToMain, ReturnToISR, Levels
<1>2. CASE ReturnToISR(result)
  BY <1>1, <1>2 DEF TypesInv, TypeOK, CallsInv, ReturnToISR, running, Levels
<1>3. CASE ReturnToMain(result)
  <2>1. todo' \in Seq(Entries)
    BY <1>3 DEF TypesInv, TypeOK, ReturnToMain
  <2>2. \A i \in 1 .. Len(todo') :
          todo'[i].number = ENDPOINT_CONTROLEP => todo'[i].dir = "OUT"
    <3>1. CASE result
      BY <1>3, <3>1 DEF TypesInv, TypeOK, CallsInv, ReturnToMain
    <3>2. CASE ~result
      BY <1>3, <3>2 DEF ReturnToMain
    <3> QED BY <3>1, <3>2
  <2>3. call["isr"].pc = "idle"
    BY <1>3 DEF ReturnToMain, running
  <2>4. CallsInv'
    BY <1>1, <1>3, <2>2, <2>3 DEF TypesInv, TypeOK, CallsInv, ReturnToMain, Levels
  <2>5. sound' \in 0 .. ENDPOINT_TOTAL_ENDPOINTS
    BY <1>3 DEF TypesInv, TypeOK, ReturnToMain, SoundAfter, Calls
  <2> QED BY <1>1, <2>1, <2>4, <2>5
<1> QED BY <1>2, <1>3

\* The activation after it went on to the next endpoint, or loaded registers.
LEMMA AdvanceType ==
  ASSUME NEW r \in Calls, r.epnum \in EPs, NEW c,
         c = [r EXCEPT !.pc = "select", !.epnum = @ + 1]
  PROVE  /\ c \in Calls /\ c.pc = "select" /\ c.epnum = r.epnum + 1
         /\ c.number = r.number /\ c.cfg = r.cfg
<1>1. r.epnum + 1 \in 0 .. ENDPOINT_TOTAL_ENDPOINTS
  BY EndpointsAssumption DEF EPs
<1>2. c.pc = "select" /\ c.epnum = r.epnum + 1
      /\ c.number = r.number /\ c.cfg = r.cfg
      /\ c.temp = r.temp /\ c.tempIen = r.tempIen
  BY DEF Calls
<1>3. c = [pc |-> c.pc, number |-> c.number, cfg |-> c.cfg,
           epnum |-> c.epnum, temp |-> c.temp, tempIen |-> c.tempIen]
  BY DEF Calls
<1> QED BY <1>1, <1>2, <1>3 DEF Calls

\* One step of a call that goes on: its activation after the step.
LEMMA StepTypes ==
  ASSUME TypesInv,
         SelectNext \/ LoadRegisters \/ FreeMemory \/ WriteConfig
           \/ EnableInterrupts
  PROVE  call' \in [Levels -> Calls] /\ CallsInv'
<1> USE HereFacts DEF At, Goto
<1> DEFINE c == call'[running]
<1>1. call' = [call EXCEPT ![running] = c]
  BY DEF TypesInv, TypeOK, SelectNext, LoadRegisters, FreeMemory, WriteConfig,
         EnableInterrupts, here
<1>2. here.pc # "idle" /\ UNCHANGED todo
  BY DEF SelectNext, LoadRegisters, FreeMemory, WriteConfig, EnableInterrupts
<1>3. CASE SelectNext
  <2>1. c = [here EXCEPT !.pc = "load"]
    BY <1>3 DEF TypesInv, TypeOK, SelectNext, here
  <2>2. here.epnum \in EPs
    BY <1>3, EndpointsAssumption DEF SelectNext, Calls, EPs
  <2> QED BY <1>1, <1>2, <2>1, <2>2, <1>3, CallStep DEF Calls, SelectNext
<1>4. CASE LoadRegisters
  <2> DEFINE own == here.epnum = here.number
             t == IF own THEN here.cfg ELSE ep[uenum].cfg
             i == ~own /\ ep[uenum].rxstpe
  <2>1. t \in Configs /\ i \in BOOLEAN
    BY DEF TypesInv, TypeOK, Registers, Calls
  <2>2. here.epnum \in EPs
    BY <1>4 DEF LoadRegisters
  <2>3. here.number \in EPs /\ here.number <= here.epnum
    BY <1>2 DEF Calls
  <2>4. CASE ~(own \/ ep[uenum].alloc)
    <3>1. c = [here EXCEPT !.pc = "select", !.epnum = @ + 1]
      BY <1>4, <2>4 DEF TypesInv, TypeOK, LoadRegisters, here
    <3> HIDE DEF c
    <3>2. /\ c \in Calls /\ c.number = here.number
          /\ c.epnum = here.epnum + 1 /\ c.pc = "select"
      BY <2>2, <3>1, AdvanceType
    <3>3. c.number <= c.epnum
      BY <2>2, <2>3, <3>2, EndpointsAssumption DEF EPs
    <3> QED BY <1>1, <1>2, <3>2, <3>3, CallStep
  <2>5. CASE own \/ ep[uenum].alloc
    <3>1. c = [here EXCEPT !.pc = "free", !.temp = t, !.tempIen = i]
      BY <1>4, <2>5 DEF TypesInv, TypeOK, LoadRegisters, here
    <3> HIDE DEF c, t, i
    <3>2. /\ c \in Calls /\ c.number = here.number /\ c.epnum = here.epnum
          /\ c.pc = "free"
      BY <2>1, <3>1 DEF Calls
    <3> QED BY <1>1, <1>2, <2>2, <2>3, <3>2, CallStep
  <2> QED BY <2>4, <2>5
<1>5. CASE FreeMemory
  <2>1. c = [here EXCEPT !.pc = "write"]
    BY <1>5 DEF TypesInv, TypeOK, FreeMemory, here
  <2>2. here.epnum \in EPs
    BY <1>5 DEF FreeMemory
  <2> QED BY <1>1, <1>2, <2>1, <2>2, CallStep DEF Calls
<1>6. CASE WriteConfig
  <2>1. c = [here EXCEPT !.pc = "enable"]
    BY <1>6 DEF TypesInv, TypeOK, WriteConfig, here
  <2>2. here.epnum \in EPs
    BY <1>6 DEF WriteConfig
  <2> QED BY <1>1, <1>2, <2>1, <2>2, CallStep DEF Calls
<1>7. CASE EnableInterrupts
  <2>1. c = [here EXCEPT !.pc = "select", !.epnum = @ + 1]
    BY <1>7 DEF TypesInv, TypeOK, EnableInterrupts, here
  <2>2. here.epnum \in EPs
    BY <1>7 DEF EnableInterrupts
  <2>3. here.number \in EPs /\ here.number <= here.epnum
    BY <1>2 DEF Calls
  <2> HIDE DEF c
  <2>4. /\ c \in Calls /\ c.number = here.number
        /\ c.epnum = here.epnum + 1 /\ c.pc = "select"
    BY <2>1, <2>2, AdvanceType
  <2>5. c.number <= c.epnum
    BY <2>2, <2>3, <2>4, EndpointsAssumption DEF EPs
  <2> QED BY <1>1, <1>2, <2>4, <2>5, CallStep
<1> QED BY <1>3, <1>4, <1>5, <1>6, <1>7

\* The registers and places after the hardware freed or allocated memory.
LEMMA FreeTypes ==
  ASSUME TypesInv, FreeMemory
  PROVE  /\ ep' \in [EPs -> Registers] /\ start' \in [EPs -> Nat]
         /\ \A k \in EPs : k # uenum /\ k # uenum + 1 => start'[k] = start[k]
<1>1. ep' \in [EPs -> Registers] /\ uenum \in EPs
  BY DEF TypesInv, TypeOK, FreeMemory, Registers
<1> DEFINE s == [start EXCEPT ![uenum] = 0]
<1>2. s \in [EPs -> Nat] /\ \A k \in EPs : k # uenum => s[k] = start[k]
  BY DEF TypesInv, TypeOK
<1>3. start' \in Slid(ep', s, uenum)
  BY DEF FreeMemory
<1> HIDE DEF s
<1>4. /\ start' \in [EPs -> Nat]
      /\ \A k \in EPs : k # uenum + 1 => start'[k] = s[k]
  BY <1>1, <1>2, <1>3, SlidFrame
<1> QED BY <1>1, <1>2, <1>4

LEMMA WriteTypes ==
  ASSUME TypesInv, WriteConfig
  PROVE  /\ ep' \in [EPs -> Registers] /\ start' \in [EPs -> Nat]
         /\ start'[uenum] \in Nat
         /\ FirstFree(ep', start, uenum, start'[uenum])
         /\ \A k \in EPs : k # uenum /\ k # uenum + 1 => start'[k] = start[k]
<1>1. ep' \in [EPs -> Registers] /\ uenum \in EPs /\ start \in [EPs -> Nat]
  <2>1. here.temp \in Configs
    BY HereFacts DEF Calls
  <2> QED BY <2>1 DEF TypesInv, TypeOK, WriteConfig, Registers
<1>2. PICK p \in Places(ep', start) :
        /\ FirstFree(ep', start, uenum, p)
        /\ start' \in Slid(ep', [start EXCEPT ![uenum] = p], uenum)
  BY DEF WriteConfig
<1> DEFINE s == [start EXCEPT ![uenum] = p]
<1>3. p \in Nat
  BY <1>1, PlacesType
<1>4. /\ s \in [EPs -> Nat] /\ s[uenum] = p
      /\ \A k \in EPs : k # uenum => s[k] = start[k]
  BY <1>1, <1>3
<1> HIDE DEF s
<1>5. /\ start' \in [EPs -> Nat]
      /\ \A k \in EPs : k # uenum + 1 => start'[k] = s[k]
  <2>1. start' \in Slid(ep', s, uenum)
    BY <1>2 DEF s
  <2> QED BY <1>1, <1>4, <2>1, SlidFrame
<1>6. start'[uenum] = p
  <2>1. uenum # uenum + 1
    BY <1>1, EndpointsAssumption DEF EPs
  <2> QED BY <1>1, <1>4, <1>5, <2>1
<1> QED BY <1>1, <1>2, <1>3, <1>4, <1>5, <1>6

LEMMA NextTypes == TypesInv /\ [Next]_vars => TypesInv'
<1> SUFFICES ASSUME TypesInv, [Next]_vars PROVE TypesInv'
  OBVIOUS
<1> USE HereFacts, ConfigTypes, ControlInEPs, EndpointsAssumption
<1>1. CASE ConfigureEndpointTable
  <2>1. todo' \in Seq(Entries)
    BY <1>1, TablesAssumption DEF ConfigureEndpointTable
  <2>2. \A i \in 1 .. Len(todo') :
          todo'[i].number = ENDPOINT_CONTROLEP => todo'[i].dir = "OUT"
    BY <1>1, TablesAssumption DEF ConfigureEndpointTable
  <2>3. TypeOK'
    BY <1>1, <2>1 DEF TypesInv, TypeOK, ConfigureEndpointTable
  <2>4. CallsInv'
    BY <1>1, <2>2 DEF TypesInv, CallsInv, ConfigureEndpointTable, Idle, Levels
  <2> QED BY <2>3, <2>4 DEF TypesInv
<1>2. CASE ConfigureEndpoint
  <2> DEFINE t == Head(todo)
  <2>1. t \in Entries /\ Tail(todo) \in Seq(Entries) /\ Len(todo) \in Nat \ {0}
    BY <1>2 DEF ConfigureEndpoint, TypesInv, TypeOK
  <2>2. t.number = ENDPOINT_CONTROLEP => t.dir = "OUT"
    BY <1>2, <2>1 DEF ConfigureEndpoint, TypesInv, TypeOK, CallsInv
  <2>3. CASE ~Used(t)
    <3>1. UNCHANGED call /\ todo' = Tail(todo)
      BY <1>2, <2>3 DEF ConfigureEndpoint
    <3>2. TypeOK'
      BY <1>2, <2>1, <2>3, <3>1 DEF TypesInv, TypeOK, ConfigureEndpoint
    <3>3. CallsInv'
      BY <1>2, <3>1
         DEF TypesInv, TypeOK, CallsInv, ConfigureEndpoint, Idle, Levels
    <3> QED BY <3>2, <3>3 DEF TypesInv
  <2>4. CASE Used(t) /\ t.number \notin EPs
    <3>1. UNCHANGED call /\ todo' = <<>> /\ UNCHANGED asked
      BY <1>2, <2>4 DEF ConfigureEndpoint
    <3>2. TypeOK'
      BY <1>2, <3>1 DEF TypesInv, TypeOK, ConfigureEndpoint
    <3>3. CallsInv'
      BY <1>2, <3>1 DEF TypesInv, CallsInv, ConfigureEndpoint, Idle, Levels
    <3> QED BY <3>2, <3>3 DEF TypesInv
  <2>5. CASE Used(t) /\ t.number \in EPs
    <3>1. /\ call' = [call EXCEPT !["main"] = Begun(t.number, ConfigOf(t))]
          /\ asked' = [asked EXCEPT ![t.number] = ConfigOf(t)]
          /\ UNCHANGED <<ep, start, uenum, todo, sound, torn>>
      BY <1>2, <2>5 DEF ConfigureEndpoint
    <3>2. t.number # ENDPOINT_CONTROLEP
      BY <2>2, <2>5 DEF Used, ENDPOINT_CONTROLEP
    <3>3. ConfigOf(t) \in Configs
      BY <2>1
    <3>4. TypeOK'
      BY <2>5, <3>1, <3>3, BegunType DEF TypesInv, TypeOK
    <3>5. CallsInv'
      <4> DEFINE c == Begun(t.number, ConfigOf(t))
      <4>1. /\ c.pc = "select" /\ c.number = t.number /\ c.epnum = t.number
        BY <2>5, <3>3, BegunType
      <4> HIDE DEF c, t
      <4>2. call' = [call EXCEPT !["main"] = c]
        BY <3>1 DEF c
      <4>3. t.number <= t.number
        BY <2>5 DEF EPs
      <4>4. todo # <<>> /\ call["isr"].pc = "idle"
        BY <1>2 DEF ConfigureEndpoint, Idle, Levels
      <4> QED
        BY <3>1, <3>2, <4>1, <4>2, <4>3, <4>4 DEF TypesInv, TypeOK, CallsInv, Levels
    <3> QED BY <3>4, <3>5 DEF TypesInv
  <2> QED BY <2>3, <2>4, <2>5
<1>3. CASE BusReset
  <2>1. /\ call' = [call EXCEPT !["isr"] = Begun(ENDPOINT_CONTROLEP, ControlConfig)]
        /\ asked' = [asked EXCEPT ![ENDPOINT_CONTROLEP] = ControlConfig]
        /\ UNCHANGED <<start, uenum, todo, sound>> /\ torn' \in BOOLEAN
    BY <1>3 DEF BusReset
  <2>2. ep' \in [EPs -> Registers]
    BY <1>3 DEF BusReset, TypesInv, TypeOK, Registers
  <2>3. TypeOK'
    BY <2>1, <2>2, BegunType DEF TypesInv, TypeOK
  <2>4. CallsInv'
    <3> DEFINE c == Begun(ENDPOINT_CONTROLEP, ControlConfig)
    <3>1. /\ c.pc = "select" /\ c.number = ENDPOINT_CONTROLEP
          /\ c.epnum = ENDPOINT_CONTROLEP
      BY BegunType
    <3> HIDE DEF c
    <3>2. call' = [call EXCEPT !["isr"] = c]
      BY <2>1 DEF c
    <3>3. ENDPOINT_CONTROLEP <= ENDPOINT_CONTROLEP
      BY DEF ENDPOINT_CONTROLEP
    <3> QED BY <2>1, <3>1, <3>2, <3>3 DEF TypesInv, TypeOK, CallsInv, Levels
  <2> QED BY <2>3, <2>4 DEF TypesInv
<1>4. CASE ClearEndpoints
  <2>1. ep' \in [EPs -> Registers]
    BY <1>4 DEF ClearEndpoints, TypesInv, TypeOK, Registers
  <2>2. TypeOK'
    <3>1. asked' \in [EPs -> Configs] /\ start' \in [EPs -> Nat]
      BY <1>4 DEF ClearEndpoints
    <3>2. /\ uenum' = ENDPOINT_TOTAL_ENDPOINTS - 1
          /\ sound' = ENDPOINT_TOTAL_ENDPOINTS /\ torn' = FALSE
      BY <1>4, Zenon DEF ClearEndpoints
    <3>3. uenum' \in EPs /\ sound' \in 0 .. ENDPOINT_TOTAL_ENDPOINTS
      BY <3>2 DEF EPs
    <3> QED BY <1>4, <2>1, <3>1, <3>2, <3>3 DEF ClearEndpoints, TypesInv, TypeOK
  <2>3. CallsInv'
    BY <1>4 DEF ClearEndpoints, TypesInv, CallsInv
  <2> QED BY <2>2, <2>3 DEF TypesInv
<1>5. CASE SelectNext
  <2>1. uenum' \in EPs
    BY <1>5 DEF SelectNext, At, Calls, EPs
  <2> QED
    BY <1>5, <2>1, StepTypes DEF SelectNext, TypesInv, TypeOK
<1>6. CASE LoadRegisters
  BY <1>6, StepTypes DEF LoadRegisters, TypesInv, TypeOK
<1>7. CASE FreeMemory
  BY <1>7, StepTypes, FreeTypes DEF FreeMemory, TypesInv, TypeOK
<1>8. CASE WriteConfig
  BY <1>8, StepTypes, WriteTypes DEF WriteConfig, TypesInv, TypeOK
<1>9. CASE EnableInterrupts
  <2>1. here.tempIen \in BOOLEAN
    BY DEF Calls
  <2>2. ep' \in [EPs -> Registers]
    BY <1>9, <2>1 DEF EnableInterrupts, TypesInv, TypeOK, Registers
  <2> QED BY <1>9, <2>2, StepTypes DEF EnableInterrupts, TypesInv, TypeOK
<1>10. CASE ConfigFails
  <2>1. ep' \in [EPs -> Registers]
    BY <1>10 DEF ConfigFails, TypesInv, TypeOK, Registers, Calls
  <2>2. here.pc # "idle" /\ (ReturnToMain(FALSE) \/ ReturnToISR(FALSE))
    BY <1>10 DEF ConfigFails, At
  <2> QED BY <1>10, <2>1, <2>2, CallEnd DEF ConfigFails, TypesInv, TypeOK
<1>11. CASE Return
  <2>1. here.number \in EPs
    BY DEF Calls
  <2>2. ep' \in [EPs -> Registers]
    BY <1>11, <2>1 DEF Return, TypesInv, TypeOK, Registers
  <2>3. here.pc # "idle" /\ (ReturnToMain(TRUE) \/ ReturnToISR(TRUE))
    BY <1>11 DEF Return, At
  <2> QED BY <1>11, <2>1, <2>2, <2>3, CallEnd DEF Return, TypesInv, TypeOK
<1>12. CASE UNCHANGED vars
  <2>1. TypeOK'
    BY <1>12 DEF vars, TypesInv, TypeOK
  <2>2. CallsInv'
    BY <1>12 DEF vars, TypesInv, CallsInv
  <2> QED BY <2>1, <2>2 DEF TypesInv
<1> QED
  BY <1>1, <1>2, <1>3, <1>4, <1>5, <1>6, <1>7, <1>8, <1>9, <1>10, <1>11, <1>12
     DEF Next, Steps

\* Every variable keeps its type, for any number of endpoints and any tables.
THEOREM TypeCorrect == Spec => []TypeOK
<1>1. Init => TypesInv
  BY InitTypes
<1>2. TypesInv /\ [Next]_vars => TypesInv'
  BY NextTypes
<1>3. TypesInv => TypeOK
  BY DEF TypesInv
<1> QED BY <1>1, <1>2, <1>3, PTL DEF Spec

-----------------------------------------------------------------------------
(***************************************************************************)
(* Memory and configuration.                                               *)
(***************************************************************************)

\* After a step of a call that goes on, the same call runs.
LEMMA StillRunning ==
  ASSUME TypesInv, CallInv, here.pc # "idle", NEW c,
         call' = [call EXCEPT ![running] = c], c.pc # "idle"
  PROVE  /\ here' = c /\ ~Idle /\ ~Idle'
         /\ call'["isr"].pc = "idle" <=> call["isr"].pc = "idle"
         /\ call'["isr"].pc = "idle" \/ call'["main"].pc = "idle"
         /\ call["isr"].pc = "idle" => running = "main"
BY DEF TypesInv, TypeOK, CallInv, Idle, running, here, Levels

\* After the end of a call nothing runs.
LEMMA NothingRunning ==
  ASSUME TypesInv, CallInv, here.pc # "idle",
         call' = [call EXCEPT ![running] = NotCalled]
  PROVE  Idle' /\ ~Idle /\ call'["isr"].pc = "idle" /\ here'.pc = "idle"
BY ConfigTypes DEF TypesInv, TypeOK, CallInv, Idle, running, here, Levels

\* A call has not brought more endpoints in order than it has come to.
LEMMA ReachedBound ==
  ASSUME TypesInv
  PROVE  /\ Reached \in 0 .. ENDPOINT_TOTAL_ENDPOINTS
         /\ ~Idle => here.pc # "idle" /\ Reached <= here.epnum
<1>1. ~Idle => here.pc # "idle"
  BY DEF Idle, Levels, here, running
<1>2. /\ sound \in 0 .. ENDPOINT_TOTAL_ENDPOINTS
      /\ here.epnum \in 0 .. ENDPOINT_TOTAL_ENDPOINTS
      /\ here.number \in EPs
  BY HereFacts DEF TypesInv, TypeOK, Calls
<1>3. here.pc # "idle" => here.number <= here.epnum
  BY HereFacts
<1> QED BY <1>1, <1>2, <1>3, EndpointsAssumption DEF Reached, EPs

LEMMA SelectWhole ==
  ASSUME TypesInv, WholeInv, SelectNext PROVE WholeInv'
<1> DEFINE c == [here EXCEPT !.pc = "load"]
<1>1. here.pc = "select" /\ here \in Calls
  BY HereFacts DEF SelectNext, At
<1>2. /\ c.pc = "load" /\ c.number = here.number /\ c.epnum = here.epnum
      /\ c.cfg = here.cfg
  BY <1>1 DEF Calls
<1>3. call' = [call EXCEPT ![running] = c]
  BY HereFacts DEF SelectNext, Goto, here, TypesInv, TypeOK
<1>4. UNCHANGED <<ep, start, todo, asked, sound, torn>> /\ uenum' = here.epnum
  BY DEF SelectNext
<1> HIDE DEF c
<1>5. /\ here' = c /\ ~Idle /\ ~Idle'
      /\ call'["isr"].pc = "idle" <=> call["isr"].pc = "idle"
      /\ call'["isr"].pc = "idle" \/ call'["main"].pc = "idle"
  BY <1>1, <1>2, <1>3, StillRunning DEF WholeInv
<1>6. Reached' = Reached
  BY <1>2, <1>4, <1>5 DEF Reached
<1>7. CallInv'
  BY <1>1, <1>2, <1>4, <1>5 DEF WholeInv, CallInv
<1>8. RegistersInv'
  BY <1>1, <1>2, <1>4, <1>5
     DEF WholeInv, RegistersInv, InTransit, RegistersAsAsked
<1>9. EnabledInv'
  BY <1>2, <1>4, <1>5, <1>6 DEF WholeInv, EnabledInv
<1>10. ArmedInv'
  BY <1>4, <1>5 DEF WholeInv, ArmedInv
<1>11. MemoryInv'
  BY <1>2, <1>4, <1>5, <1>6 DEF WholeInv, MemoryInv, Ordered, End
<1> QED BY <1>7, <1>8, <1>9, <1>10, <1>11 DEF WholeInv

LEMMA LoadWhole ==
  ASSUME TypesInv, WholeInv, LoadRegisters PROVE WholeInv'
<1>1. /\ here.pc = "load" /\ here \in Calls /\ uenum = here.epnum
      /\ here.epnum \in EPs /\ here.number \in EPs
      /\ here.number <= here.epnum
      /\ here.cfg = asked[here.number] /\ here.cfg # NoConfig
  <2>1. here.pc = "load" /\ here \in Calls
    BY HereFacts DEF LoadRegisters, At
  <2>2. ~Idle
    BY <2>1 DEF Idle, here, running, Levels
  <2> QED BY <2>1, <2>2, HereFacts DEF WholeInv, CallInv, Calls
<1>2. UNCHANGED <<ep, start, uenum, todo, asked, sound, torn>>
  BY DEF LoadRegisters
<1> DEFINE own == here.epnum = here.number
           t == IF own THEN here.cfg ELSE ep[uenum].cfg
           i == ~own /\ ep[uenum].rxstpe
<1>3. CASE ~(own \/ ep[uenum].alloc)
  <2> DEFINE c == [here EXCEPT !.pc = "select", !.epnum = here.epnum + 1]
  <2>1. call' = [call EXCEPT ![running] = c]
    BY <1>3 DEF LoadRegisters
  <2>2. /\ c.pc = "select" /\ c.epnum = here.epnum + 1
        /\ c.number = here.number /\ c.cfg = here.cfg
    BY <1>1, AdvanceType
  <2> HIDE DEF c
  <2>3. /\ here' = c /\ ~Idle /\ ~Idle'
        /\ call'["isr"].pc = "idle" <=> call["isr"].pc = "idle"
        /\ call'["isr"].pc = "idle" \/ call'["main"].pc = "idle"
    BY <1>1, <2>1, <2>2, StillRunning DEF WholeInv
  <2>4. /\ ~ep[here.epnum].alloc /\ here.epnum # here.number
        /\ asked[here.epnum] = NoConfig
    <3>1. ~InTransit(here.epnum)
      BY <1>1, <1>3 DEF InTransit
    <3> QED BY <1>1, <1>3, <3>1 DEF WholeInv, RegistersInv, RegistersAsAsked
  <2>5. Reached' = Reached \/ (Reached = here.epnum /\ Reached' = here.epnum + 1)
    BY <1>2, <2>2, <2>3 DEF Reached
  <2>6. CallInv'
    BY <1>2, <2>2, <2>3, <1>1 DEF WholeInv, CallInv
  <2>7. RegistersInv'
    <3>1. \A k \in EPs : ~InTransit(k)
      BY <1>1, <1>3 DEF InTransit
    <3> QED BY <1>2, <3>1 DEF WholeInv, RegistersInv, RegistersAsAsked
  <2>8. EnabledInv'
    <3>1. SUFFICES ASSUME NEW k \in EPs, k < Reached', asked[k] # NoConfig
                   PROVE  ep[k].en
      BY <1>2, <2>2, <2>3 DEF EnabledInv
    <3>2. k < Reached
      BY <1>1, <2>4, <2>5, <3>1, ReachedBound DEF EPs
    <3> QED BY <3>1, <3>2 DEF WholeInv, EnabledInv
  <2>9. ArmedInv'
    BY <1>2, <2>3 DEF WholeInv, ArmedInv
  <2>10. MemoryInv'
    <3>1. Ordered(Reached')
      <4>1. \A k \in EPs : k < Reached' /\ ep[k].alloc => k < Reached
        BY <1>1, <2>4, <2>5, ReachedBound DEF EPs
      <4> QED BY <4>1 DEF WholeInv, MemoryInv, Ordered
    <3>2. Ordered(Reached)'
      BY <1>2, <3>1 DEF Ordered, End
    <3> QED BY <2>2, <2>3, <3>2 DEF MemoryInv
  <2> QED BY <2>6, <2>7, <2>8, <2>9, <2>10 DEF WholeInv
<1>4. CASE own \/ ep[uenum].alloc
  <2> DEFINE c == [here EXCEPT !.pc = "free", !.temp = t, !.tempIen = i]
  <2>1. call' = [call EXCEPT ![running] = c]
    BY <1>4 DEF LoadRegisters
  <2>2. /\ c.pc = "free" /\ c.epnum = here.epnum
        /\ c.number = here.number /\ c.cfg = here.cfg /\ c.temp = t
    BY <1>1 DEF Calls
  <2> HIDE DEF c
  <2>3. /\ here' = c /\ ~Idle /\ ~Idle'
        /\ call'["isr"].pc = "idle" <=> call["isr"].pc = "idle"
        /\ call'["isr"].pc = "idle" \/ call'["main"].pc = "idle"
    BY <1>1, <2>1, <2>2, StillRunning DEF WholeInv
  <2>4. t = asked[here.epnum] /\ t # NoConfig
    <3>1. CASE own
      BY <1>1, <3>1
    <3>2. CASE ~own
      <4>1. ~InTransit(here.epnum)
        BY <1>1, <3>2 DEF InTransit
      <4> QED
        BY <1>1, <1>4, <3>2, <4>1 DEF WholeInv, RegistersInv, RegistersAsAsked
    <3> QED BY <3>1, <3>2
  <2> HIDE DEF t
  <2>5. Reached' = Reached
    BY <1>2, <2>2, <2>3 DEF Reached
  <2>6. CallInv'
    BY <1>1, <1>2, <2>2, <2>3, <2>4 DEF WholeInv, CallInv
  <2>7. RegistersInv'
    BY <1>1, <1>2, <2>2, <2>3
       DEF WholeInv, RegistersInv, InTransit, RegistersAsAsked
  <2>8. EnabledInv'
    BY <1>2, <2>2, <2>3, <2>5 DEF WholeInv, EnabledInv
  <2>9. ArmedInv'
    BY <1>2, <2>3 DEF WholeInv, ArmedInv
  <2>10. MemoryInv'
    BY <1>2, <2>2, <2>3, <2>5 DEF WholeInv, MemoryInv, Ordered, End
  <2> QED BY <2>6, <2>7, <2>8, <2>9, <2>10 DEF WholeInv
<1> QED BY <1>3, <1>4

LEMMA FreeWhole ==
  ASSUME TypesInv, WholeInv, FreeMemory PROVE WholeInv'
<1> DEFINE c == [here EXCEPT !.pc = "write"]
<1>1. /\ here.pc = "free" /\ here \in Calls /\ here.epnum \in EPs
      /\ uenum = here.epnum /\ here.number \in EPs
      /\ here.number <= here.epnum
  <2>1. here.pc = "free"
    BY DEF FreeMemory, At
  <2>2. ~Idle
    BY <2>1 DEF Idle, here, running, Levels
  <2> QED BY <2>1, <2>2, HereFacts DEF WholeInv, CallInv, Calls
<1>2. /\ c.pc = "write" /\ c.number = here.number /\ c.epnum = here.epnum
      /\ c.cfg = here.cfg /\ c.temp = here.temp
  BY <1>1 DEF Calls
<1>3. call' = [call EXCEPT ![running] = c]
  BY HereFacts DEF FreeMemory, Goto, here, TypesInv, TypeOK
<1>4. UNCHANGED <<uenum, todo, asked, sound, torn>>
  BY DEF FreeMemory
<1> HIDE DEF c
<1>5. /\ here' = c /\ ~Idle /\ ~Idle'
      /\ call'["isr"].pc = "idle" <=> call["isr"].pc = "idle"
      /\ call'["isr"].pc = "idle" \/ call'["main"].pc = "idle"
  BY <1>1, <1>2, <1>3, StillRunning DEF WholeInv
<1>6. Reached' = Reached /\ Reached <= here.epnum /\ Reached \in Nat
  BY <1>2, <1>4, <1>5, ReachedBound DEF Reached
<1>7. /\ \A k \in EPs : k # here.epnum => ep'[k] = ep[k]
      /\ \A k \in EPs : k < here.epnum => start'[k] = start[k]
      /\ \A k \in EPs : ep'[k].rxstpe = ep[k].rxstpe
  <2>1. \A k \in EPs : k # here.epnum => ep'[k] = ep[k]
    BY <1>1 DEF FreeMemory, TypesInv, TypeOK
  <2>2. \A k \in EPs : ep'[k].rxstpe = ep[k].rxstpe
    BY <1>1 DEF FreeMemory, TypesInv, TypeOK, Registers
  <2>3. \A k \in EPs : k < here.epnum => start'[k] = start[k]
    BY <1>1, FreeTypes DEF EPs
  <2> QED BY <2>1, <2>2, <2>3
<1>8. CallInv'
  BY <1>1, <1>2, <1>4, <1>5 DEF WholeInv, CallInv
<1>9. RegistersInv'
  BY <1>1, <1>2, <1>4, <1>5, <1>7
     DEF WholeInv, RegistersInv, InTransit, RegistersAsAsked
<1>10. EnabledInv'
  <2>1. \A k \in EPs : k < Reached => k # here.epnum
    BY <1>1, <1>6 DEF EPs
  <2> QED BY <1>2, <1>4, <1>5, <1>6, <1>7, <2>1 DEF WholeInv, EnabledInv
<1>11. ArmedInv'
  BY <1>4, <1>5, <1>7, ControlInEPs DEF WholeInv, ArmedInv
<1>12. MemoryInv'
  <2>1. \A k \in EPs : k < Reached =>
          ep'[k].alloc = ep[k].alloc /\ ep'[k].cfg = ep[k].cfg
            /\ start'[k] = start[k]
    BY <1>1, <1>6, <1>7 DEF EPs
  <2>2. Ordered(Reached) /\ Reached \in Int
    BY <1>6 DEF WholeInv, MemoryInv
  <2> DEFINE n == Reached
  <2>3. \A k \in EPs : k < n => End(ep', start', k) = End(ep, start, k)
    BY <2>1 DEF End, MemoryBytes
  <2>4. Ordered(Reached)'
    <3>1. SUFFICES ASSUME NEW k \in EPs, k < Reached, ep'[k].alloc
                   PROVE  /\ End(ep', start', k) <= DpramBytes
                          /\ \A j \in EPs : j < k /\ ep'[j].alloc =>
                               End(ep', start', j) <= start'[k]
      BY <1>6 DEF Ordered
    <3>2. ASSUME NEW j \in EPs, j < k PROVE j < Reached
      BY <1>6, <3>1, <3>2 DEF EPs
    <3> QED BY <2>1, <2>2, <2>3, <3>1, <3>2 DEF Ordered
  <2> QED BY <1>2, <1>5, <2>4 DEF MemoryInv
<1> QED BY <1>8, <1>9, <1>10, <1>11, <1>12 DEF WholeInv

LEMMA WriteWhole ==
  ASSUME TypesInv, WholeInv, WriteConfig PROVE WholeInv'
<1> DEFINE c == [here EXCEPT !.pc = "enable"]
<1>1. /\ here.pc = "write" /\ here \in Calls /\ here.epnum \in EPs
      /\ uenum = here.epnum /\ here.number \in EPs
      /\ here.number <= here.epnum
      /\ here.temp = asked[here.epnum] /\ here.temp # NoConfig
  <2>1. here.pc = "write"
    BY DEF WriteConfig, At
  <2>2. ~Idle
    BY <2>1 DEF Idle, here, running, Levels
  <2> QED BY <2>1, <2>2, HereFacts DEF WholeInv, CallInv, Calls
<1>2. /\ c.pc = "enable" /\ c.number = here.number /\ c.epnum = here.epnum
      /\ c.cfg = here.cfg /\ c.temp = here.temp
  BY <1>1 DEF Calls
<1>3. call' = [call EXCEPT ![running] = c]
  BY HereFacts DEF WriteConfig, Goto, here, TypesInv, TypeOK
<1>4. UNCHANGED <<uenum, todo, asked, sound, torn>>
  BY DEF WriteConfig
<1> HIDE DEF c
<1>5. /\ here' = c /\ ~Idle /\ ~Idle'
      /\ call'["isr"].pc = "idle" <=> call["isr"].pc = "idle"
      /\ call'["isr"].pc = "idle" \/ call'["main"].pc = "idle"
  BY <1>1, <1>2, <1>3, StillRunning DEF WholeInv
<1>6. Reached' = Reached /\ Reached <= here.epnum /\ Reached \in Nat
  BY <1>2, <1>4, <1>5, ReachedBound DEF Reached
<1>7. /\ \A k \in EPs : k # here.epnum => ep'[k] = ep[k]
      /\ \A k \in EPs : k < here.epnum => start'[k] = start[k]
      /\ \A k \in EPs : ep'[k].rxstpe = ep[k].rxstpe
      /\ ep'[here.epnum].alloc /\ ep'[here.epnum].en
      /\ ep'[here.epnum].cfg = here.temp
  <2>1. /\ \A k \in EPs : k # here.epnum => ep'[k] = ep[k]
        /\ \A k \in EPs : ep'[k].rxstpe = ep[k].rxstpe
        /\ ep'[here.epnum].alloc /\ ep'[here.epnum].en
        /\ ep'[here.epnum].cfg = here.temp
    BY <1>1 DEF WriteConfig, TypesInv, TypeOK, Registers
  <2>2. \A k \in EPs : k < here.epnum => start'[k] = start[k]
    BY <1>1, WriteTypes DEF EPs
  <2> QED BY <2>1, <2>2
<1>8. CallInv'
  BY <1>1, <1>2, <1>4, <1>5 DEF WholeInv, CallInv
<1>9. RegistersInv'
  <2>1. SUFFICES ASSUME NEW k \in EPs PROVE RegistersAsAsked(k)'
    BY DEF RegistersInv
  <2>2. CASE k = here.epnum
    BY <1>1, <1>4, <1>7, <2>2 DEF RegistersAsAsked
  <2>3. CASE k # here.epnum
    <3>1. ~InTransit(k)
      BY <2>3 DEF InTransit
    <3> QED BY <1>4, <1>7, <2>3, <3>1
            DEF WholeInv, RegistersInv, RegistersAsAsked
  <2> QED BY <2>2, <2>3
<1>10. EnabledInv'
  <2>1. \A k \in EPs : k < Reached => k # here.epnum
    BY <1>1, <1>6 DEF EPs
  <2> QED BY <1>2, <1>4, <1>5, <1>6, <1>7, <2>1 DEF WholeInv, EnabledInv
<1>11. ArmedInv'
  BY <1>4, <1>5, <1>7, ControlInEPs DEF WholeInv, ArmedInv
<1>12. MemoryInv'
  <2>1. \A k \in EPs : k < here.epnum =>
          ep'[k].alloc = ep[k].alloc /\ ep'[k].cfg = ep[k].cfg
            /\ start'[k] = start[k]
    BY <1>1, <1>7 DEF EPs
  <2>2. Ordered(Reached)
    BY DEF WholeInv, MemoryInv
  <2>3. \A k \in EPs : k < here.epnum =>
          /\ End(ep', start', k) = End(ep, start, k)
          /\ End(ep', start, k) = End(ep, start, k)
    BY <2>1 DEF End, MemoryBytes
  <2>4. Ordered(Reached)'
    <3>1. SUFFICES ASSUME NEW k \in EPs, k < Reached, ep'[k].alloc
                   PROVE  /\ End(ep', start', k) <= DpramBytes
                          /\ \A j \in EPs : j < k /\ ep'[j].alloc =>
                               End(ep', start', j) <= start'[k]
      BY <1>6 DEF Ordered
    <3>2. k < here.epnum
      BY <1>1, <1>6, <3>1 DEF EPs
    <3>3. ASSUME NEW j \in EPs, j < k PROVE j < Reached /\ j < here.epnum
      BY <1>1, <1>6, <3>1, <3>3 DEF EPs
    <3> QED BY <2>1, <2>2, <2>3, <3>1, <3>2, <3>3 DEF Ordered
  <2>5. ASSUME here.number <= sound, NEW j \in EPs, j < here.epnum, ep'[j].alloc
        PROVE  End(ep', start', j) <= start'[here.epnum]
    <3>1. Reached = here.epnum
      BY <1>5, <2>5 DEF Reached
    <3>2. /\ ep' \in [EPs -> Registers] /\ start \in [EPs -> Nat]
          /\ start'[here.epnum] \in Nat
          /\ FirstFree(ep', start, here.epnum, start'[here.epnum])
      BY <1>1, WriteTypes DEF TypesInv, TypeOK
    <3>3. ASSUME NEW k \in EPs, k < here.epnum, ep'[k].alloc,
                 NEW i \in EPs, i < k, ep'[i].alloc
          PROVE  End(ep', start, i) <= start[k]
      <4>1. i < here.epnum
        BY <1>1, <3>3 DEF EPs
      <4> QED BY <2>1, <2>2, <2>3, <3>1, <3>3, <4>1 DEF Ordered
    <3>4. End(ep', start, j) <= start'[here.epnum]
      BY <1>1, <2>5, <3>2, <3>3, FirstFreeAbove
    <3> QED BY <2>3, <2>5, <3>4
  <2> QED BY <1>2, <1>4, <1>5, <2>4, <2>5 DEF MemoryInv
<1> QED BY <1>8, <1>9, <1>10, <1>11, <1>12 DEF WholeInv

LEMMA EnableWhole ==
  ASSUME TypesInv, WholeInv, EnableInterrupts PROVE WholeInv'
<1> DEFINE c == [here EXCEPT !.pc = "select", !.epnum = @ + 1]
<1>1. /\ here.pc = "enable" /\ here \in Calls /\ here.epnum \in EPs
      /\ uenum = here.epnum /\ here.number \in EPs
      /\ here.number <= here.epnum
  <2>1. here.pc = "enable"
    BY DEF EnableInterrupts, At
  <2>2. ~Idle
    BY <2>1 DEF Idle, here, running, Levels
  <2> QED BY <2>1, <2>2, HereFacts DEF WholeInv, CallInv, Calls
<1>2. /\ c.pc = "select" /\ c.epnum = here.epnum + 1
      /\ c.number = here.number /\ c.cfg = here.cfg
  BY <1>1, AdvanceType
<1>3. call' = [call EXCEPT ![running] = c]
  BY HereFacts DEF EnableInterrupts, here, TypesInv, TypeOK
<1>4. UNCHANGED <<start, uenum, todo, asked, sound, torn>> /\ ConfigOK(uenum)
  BY DEF EnableInterrupts
<1> HIDE DEF c
<1>5. /\ here' = c /\ ~Idle /\ ~Idle'
      /\ call'["isr"].pc = "idle" <=> call["isr"].pc = "idle"
      /\ call'["isr"].pc = "idle" \/ call'["main"].pc = "idle"
      /\ call["isr"].pc = "idle" => running = "main"
  BY <1>1, <1>2, <1>3, StillRunning DEF WholeInv
<1>6. /\ \A k \in EPs : ep'[k].alloc = ep[k].alloc /\ ep'[k].cfg = ep[k].cfg
                         /\ ep'[k].en = ep[k].en
      /\ \A k \in EPs : k # here.epnum => ep'[k] = ep[k]
  BY <1>1 DEF EnableInterrupts, TypesInv, TypeOK, Registers
<1>7. Reached' = Reached \/ (Reached = here.epnum /\ Reached' = here.epnum + 1
                             /\ here.number <= sound)
  BY <1>2, <1>4, <1>5 DEF Reached
<1>8. CallInv'
  BY <1>1, <1>2, <1>4, <1>5 DEF WholeInv, CallInv
<1>9. RegistersInv'
  <2>1. \A k \in EPs : ~InTransit(k)
    BY <1>1 DEF InTransit
  <2> QED BY <1>4, <1>6, <2>1 DEF WholeInv, RegistersInv, RegistersAsAsked
<1>10. EnabledInv'
  <2>1. SUFFICES ASSUME NEW k \in EPs, k < Reached', asked[k] # NoConfig
                 PROVE  ep[k].en
    BY <1>2, <1>4, <1>5, <1>6 DEF EnabledInv
  <2>2. k < Reached \/ k = here.epnum
    BY <1>1, <1>7, <2>1, ReachedBound DEF EPs
  <2> QED BY <1>1, <2>1, <2>2 DEF WholeInv, EnabledInv
<1>11. ArmedInv'
  <2>1. SUFFICES ASSUME call["isr"].pc = "idle"
                 PROVE  ep'[ENDPOINT_CONTROLEP] = ep[ENDPOINT_CONTROLEP]
    BY <1>4, <1>5 DEF WholeInv, ArmedInv
  <2>2. here.number # ENDPOINT_CONTROLEP
    BY <1>1, <1>5, <2>1, HereFacts
  <2>3. here.epnum # ENDPOINT_CONTROLEP
    BY <1>1, <2>2 DEF ENDPOINT_CONTROLEP, EPs
  <2> QED BY <1>6, <2>3, ControlInEPs
<1>12. MemoryInv'
  <2>1. \A k \in EPs : End(ep', start', k) = End(ep, start, k)
    BY <1>4, <1>6 DEF End, MemoryBytes
  <2>2. SUFFICES ASSUME NEW k \in EPs, k < Reached', ep[k].alloc
                 PROVE  /\ End(ep, start, k) <= DpramBytes
                        /\ \A j \in EPs : j < k /\ ep[j].alloc =>
                             End(ep, start, j) <= start[k]
    <3>1. Ordered(Reached)'
      BY <1>4, <1>6, <2>1, <2>2 DEF Ordered
    <3> QED BY <1>2, <1>5, <3>1 DEF MemoryInv
  <2>3. CASE k < Reached
    BY <2>2, <2>3 DEF WholeInv, MemoryInv, Ordered
  <2>4. CASE ~(k < Reached)
    <3>1. k = here.epnum /\ here.number <= sound
      BY <1>1, <1>7, <2>2, <2>4, ReachedBound DEF EPs
    <3> QED BY <1>1, <1>4, <3>1 DEF ConfigOK, WholeInv, MemoryInv
  <2> QED BY <2>3, <2>4
<1> QED BY <1>8, <1>9, <1>10, <1>11, <1>12 DEF WholeInv

LEMMA FailWhole ==
  ASSUME TypesInv, WholeInv, ConfigFails PROVE WholeInv'
<1>1. /\ here.pc = "enable" /\ here \in Calls /\ here.epnum \in EPs
      /\ uenum = here.epnum /\ here.number <= here.epnum /\ ~Idle
  <2>1. here.pc = "enable"
    BY DEF ConfigFails, At
  <2>2. ~Idle
    BY <2>1 DEF Idle, here, running, Levels
  <2> QED BY <2>1, <2>2, HereFacts DEF WholeInv, CallInv, Calls
<1>2. call' = [call EXCEPT ![running] = NotCalled]
  BY DEF ConfigFails, ReturnToMain, ReturnToISR
<1>3. Idle' /\ call'["isr"].pc = "idle" /\ here'.pc = "idle"
  BY <1>1, <1>2, NothingRunning DEF WholeInv
<1>4. UNCHANGED <<start, asked>>
  BY DEF ConfigFails
<1>5. /\ \A k \in EPs : ep'[k].alloc = ep[k].alloc /\ ep'[k].cfg = ep[k].cfg
                         /\ ep'[k].en = ep[k].en
      /\ \A k \in EPs : k # here.epnum => ep'[k] = ep[k]
  BY <1>1 DEF ConfigFails, TypesInv, TypeOK, Registers
<1>6. Reached' = sound' /\ (sound' = 0 \/ (running = "main" /\ sound' = Reached))
  BY <1>1, <1>3 DEF Reached, ConfigFails, ReturnToMain, ReturnToISR, SoundAfter
<1>7. CallInv'
  BY <1>3 DEF CallInv
<1>8. RegistersInv'
  <2>1. \A k \in EPs : ~InTransit(k)
    BY <1>1 DEF InTransit
  <2> QED BY <1>4, <1>5, <2>1 DEF WholeInv, RegistersInv, RegistersAsAsked
<1>9. EnabledInv'
  <2>1. \A k \in EPs : k < sound' => k < Reached
    BY <1>6 DEF EPs
  <2> QED BY <1>3, <1>4, <1>5, <1>6, <2>1 DEF WholeInv, EnabledInv
<1>10. ArmedInv'
  <2>1. SUFFICES ASSUME sound' > 0, asked[ENDPOINT_CONTROLEP] # NoConfig
                 PROVE  ep'[ENDPOINT_CONTROLEP].rxstpe
    BY <1>4 DEF ArmedInv
  <2>2. running = "main" /\ sound' = Reached
    BY <1>6, <2>1
  <2>3. call["isr"].pc = "idle"
    BY <2>2 DEF running
  <2>4. here.number # ENDPOINT_CONTROLEP /\ here.number \in EPs
    BY <1>1, <2>2, HereFacts DEF Calls
  <2>5. here.epnum # ENDPOINT_CONTROLEP
    BY <1>1, <2>4 DEF ENDPOINT_CONTROLEP, EPs
  <2>6. sound > 0
    BY <1>1, <2>1, <2>2, <2>4, HereFacts
       DEF Reached, TypesInv, TypeOK, EPs, ENDPOINT_CONTROLEP
  <2> QED BY <1>5, <2>1, <2>3, <2>5, <2>6, ControlInEPs DEF WholeInv, ArmedInv
<1>11. MemoryInv'
  <2>1. \A k \in EPs : End(ep', start', k) = End(ep, start, k)
    BY <1>4, <1>5 DEF End, MemoryBytes
  <2>2. \A k \in EPs : k < sound' => k < Reached
    BY <1>6 DEF EPs
  <2>3. Ordered(Reached)'
    BY <1>4, <1>5, <1>6, <2>1, <2>2 DEF WholeInv, MemoryInv, Ordered
  <2> QED BY <1>3, <2>3 DEF MemoryInv
<1> QED BY <1>7, <1>8, <1>9, <1>10, <1>11 DEF WholeInv

LEMMA ReturnWhole ==
  ASSUME TypesInv, WholeInv, Return PROVE WholeInv'
<1>1. /\ here.pc = "select" /\ here \in Calls /\ ~Idle
      /\ here.epnum = ENDPOINT_TOTAL_ENDPOINTS /\ here.number \in EPs
  <2>1. here.pc = "select" /\ here.epnum = ENDPOINT_TOTAL_ENDPOINTS
    BY DEF Return, At
  <2>2. ~Idle
    BY <2>1 DEF Idle, here, running, Levels
  <2> QED BY <2>1, <2>2, HereFacts DEF Calls
<1>2. call' = [call EXCEPT ![running] = NotCalled]
  BY DEF Return, ReturnToMain, ReturnToISR
<1>3. Idle' /\ call'["isr"].pc = "idle" /\ here'.pc = "idle"
  BY <1>1, <1>2, NothingRunning DEF WholeInv
<1>4. UNCHANGED <<start, asked>>
  BY DEF Return
<1>5. /\ \A k \in EPs : ep'[k].alloc = ep[k].alloc /\ ep'[k].cfg = ep[k].cfg
                         /\ ep'[k].en = ep[k].en
      /\ \A k \in EPs : k # here.number => ep'[k] = ep[k]
      /\ ep'[here.number].rxstpe = (ep[here.number].rxstpe \/ running = "isr")
  BY <1>1 DEF Return, TypesInv, TypeOK, Registers
<1>6. Reached' = sound' /\ sound' = Reached
  <2>1. CASE ReturnToMain(TRUE)
    BY <1>1, <1>3, <2>1 DEF Reached, ReturnToMain, SoundAfter
  <2>2. CASE ReturnToISR(TRUE)
    <3>1. here.number = ENDPOINT_CONTROLEP
      BY <2>2, HereFacts DEF ReturnToISR
    <3>2. here.number <= sound
      BY <3>1 DEF ENDPOINT_CONTROLEP, TypesInv, TypeOK
    <3> QED BY <1>1, <1>3, <2>2, <3>2 DEF Reached, ReturnToISR
  <2> QED BY <2>1, <2>2 DEF Return
<1>7. CallInv'
  BY <1>3 DEF CallInv
<1>8. RegistersInv'
  <2>1. \A k \in EPs : ~InTransit(k)
    BY <1>1, EndpointsAssumption DEF InTransit, EPs
  <2> QED BY <1>4, <1>5, <2>1 DEF WholeInv, RegistersInv, RegistersAsAsked
<1>9. EnabledInv'
  BY <1>3, <1>4, <1>5, <1>6 DEF WholeInv, EnabledInv
<1>10. ArmedInv'
  <2>1. SUFFICES ASSUME sound' > 0, asked[ENDPOINT_CONTROLEP] # NoConfig
                 PROVE  ep'[ENDPOINT_CONTROLEP].rxstpe
    BY <1>4 DEF ArmedInv
  <2>2. CASE running = "isr"
    <3>1. here.number = ENDPOINT_CONTROLEP
      BY <2>2, HereFacts
    <3> QED BY <1>5, <2>2, <3>1
  <2>3. CASE running = "main"
    <3>1. call["isr"].pc = "idle"
      BY <2>3 DEF running
    <3>2. here.number # ENDPOINT_CONTROLEP
      BY <1>1, <2>3, HereFacts
    <3>3. sound > 0
      BY <1>1, <1>6, <2>1, <3>2
         DEF Reached, TypesInv, TypeOK, EPs, ENDPOINT_CONTROLEP
    <3> QED BY <1>5, <2>1, <3>1, <3>2, <3>3, ControlInEPs DEF WholeInv, ArmedInv
  <2> QED BY <2>2, <2>3, HereFacts DEF Levels
<1>11. MemoryInv'
  <2>1. \A k \in EPs : End(ep', start', k) = End(ep, start, k)
    BY <1>4, <1>5 DEF End, MemoryBytes
  <2>2. Ordered(Reached)'
    BY <1>4, <1>5, <1>6, <2>1 DEF WholeInv, MemoryInv, Ordered
  <2> QED BY <1>3, <2>2 DEF MemoryInv
<1> QED BY <1>7, <1>8, <1>9, <1>10, <1>11 DEF WholeInv

\* The main program's next call: the endpoints from its number on are open.
LEMMA BeginWhole ==
  ASSUME TypesInv, WholeInv, ConfigureEndpoint PROVE WholeInv'
<1> DEFINE t == Head(todo)
<1>1. t \in Entries /\ Idle
  BY DEF ConfigureEndpoint, TypesInv, TypeOK
<1>2. UNCHANGED <<ep, start, uenum, sound, torn>>
  BY DEF ConfigureEndpoint
<1>3. CASE UNCHANGED <<call, asked>>
  <2>1. UNCHANGED <<ep, start, uenum, sound, call, asked>>
    BY <1>2, <1>3
  <2> QED
    BY <2>1
       DEF WholeInv, CallInv, RegistersInv, InTransit, RegistersAsAsked,
           EnabledInv, ArmedInv, MemoryInv, Ordered, End, Reached, Idle, here,
           running
<1>4. CASE /\ Used(t) /\ t.number \in EPs
           /\ call' = [call EXCEPT !["main"] = Begun(t.number, ConfigOf(t))]
           /\ asked' = [asked EXCEPT ![t.number] = ConfigOf(t)]
  <2> DEFINE c == Begun(t.number, ConfigOf(t))
  <2>1. /\ c.pc = "select" /\ c.number = t.number /\ c.epnum = t.number
        /\ c.cfg = ConfigOf(t) /\ ConfigOf(t) # NoConfig
    BY <1>1, <1>4, ConfigTypes, BegunType
  <2>2. t.number # ENDPOINT_CONTROLEP
    <3>1. t.number = ENDPOINT_CONTROLEP => t.dir = "OUT"
      BY DEF ConfigureEndpoint, TypesInv, TypeOK, CallsInv
    <3> QED BY <1>4, <3>1 DEF Used, ENDPOINT_CONTROLEP
  <2>3. call' = [call EXCEPT !["main"] = c]
    BY <1>4
  <2>4. asked'[t.number] = ConfigOf(t)
        /\ \A k \in EPs : k # t.number => asked'[k] = asked[k]
    BY <1>4 DEF TypesInv, TypeOK
  <2> DEFINE num == t.number
             cfg == ConfigOf(t)
  <2>5. num \in EPs
    BY <1>4
  <2> HIDE DEF c, num, cfg, t
  <2>6. /\ c.pc = "select" /\ c.number = num /\ c.epnum = num
        /\ c.cfg = cfg /\ cfg # NoConfig /\ num # ENDPOINT_CONTROLEP
        /\ asked'[num] = cfg
        /\ \A k \in EPs : k # num => asked'[k] = asked[k]
    BY <2>1, <2>2, <2>4 DEF num, cfg
  <2>7. /\ here' = c /\ ~Idle' /\ call'["isr"].pc = "idle"
        /\ call["isr"].pc = "idle" /\ here.pc = "idle"
    BY <1>1, <2>3, <2>6 DEF Idle, Levels, here, running, TypesInv, TypeOK
  <2>8. Reached = sound /\ sound \in Nat /\ Reached' <= sound /\ Reached' <= num
    BY <1>1, <1>2, <2>5, <2>6, <2>7 DEF Reached, TypesInv, TypeOK, EPs
  <2>9. CallInv'
    BY <2>6, <2>7 DEF CallInv
  <2>10. RegistersInv'
    <3>1. SUFFICES ASSUME NEW k \in EPs, k # num
                   PROVE  RegistersAsAsked(k)'
      BY <2>6, <2>7 DEF RegistersInv, InTransit
    <3>2. ~InTransit(k)
      BY <1>1, <2>7 DEF InTransit
    <3> QED BY <1>2, <2>6, <3>1, <3>2 DEF WholeInv, RegistersInv, RegistersAsAsked
  <2>11. EnabledInv'
    <3>1. SUFFICES ASSUME NEW k \in EPs, k < Reached', asked'[k] # NoConfig
                   PROVE  ep[k].en
      BY <1>2, <2>6, <2>7 DEF EnabledInv
    <3>2. k < sound /\ k # num
      BY <2>5, <2>8, <3>1, <1>2, <2>6, <2>7 DEF EPs, Reached, TypesInv, TypeOK
    <3> QED BY <2>6, <2>8, <3>1, <3>2 DEF WholeInv, EnabledInv
  <2>12. ArmedInv'
    BY <1>2, <2>6, <2>7, ControlInEPs DEF WholeInv, ArmedInv
  <2>13. MemoryInv'
    <3>1. Ordered(sound)
      BY <2>8 DEF WholeInv, MemoryInv
    <3>2. Reached' \in Int /\ sound \in Int
      BY <1>2, <2>5, <2>6, <2>7 DEF Reached, TypesInv, TypeOK, EPs
    <3>3. \A k \in EPs : k < Reached' => k < sound
      BY <2>8, <3>2 DEF EPs
    <3>4. Ordered(Reached')
      BY <3>1, <3>3 DEF Ordered
    <3>5. Ordered(Reached)'
      BY <1>2, <3>4 DEF Ordered, End
    <3> QED BY <2>6, <2>7, <3>5 DEF MemoryInv
  <2> QED BY <2>9, <2>10, <2>11, <2>12, <2>13 DEF WholeInv
<1> QED BY <1>3, <1>4 DEF ConfigureEndpoint

\* The bus reset between two calls: nothing is in order until its call ends.
LEMMA ResetWhole ==
  ASSUME TypesInv, WholeInv, BusReset, ~torn' PROVE WholeInv'
<1> DEFINE c == Begun(ENDPOINT_CONTROLEP, ControlConfig)
<1>1. /\ c.pc = "select" /\ c.number = ENDPOINT_CONTROLEP
      /\ c.epnum = ENDPOINT_CONTROLEP /\ c.cfg = ControlConfig
      /\ ControlConfig # NoConfig
  BY ConfigTypes, ControlInEPs, BegunType
<1>2. call["main"].pc = "idle" /\ call["isr"].pc = "idle"
  BY DEF BusReset
<1>3. call' = [call EXCEPT !["isr"] = c]
  BY DEF BusReset
<1>4. UNCHANGED <<start, uenum, todo, sound>>
      /\ asked' = [asked EXCEPT ![ENDPOINT_CONTROLEP] = ControlConfig]
  BY DEF BusReset
<1>5. \A k \in EPs : ep'[k].alloc = ep[k].alloc /\ ep'[k].cfg = ep[k].cfg
  BY DEF BusReset, TypesInv, TypeOK, Registers
<1> HIDE DEF c
<1>6. /\ here' = c /\ ~Idle' /\ call'["isr"].pc # "idle"
      /\ call'["main"].pc = "idle" /\ Idle /\ here.pc = "idle"
  BY <1>1, <1>2, <1>3 DEF Idle, Levels, here, running, TypesInv, TypeOK
<1>7. Reached' = 0
  BY <1>1, <1>4, <1>6 DEF Reached, ENDPOINT_CONTROLEP, TypesInv, TypeOK
<1>8. CallInv'
  BY <1>1, <1>4, <1>6, ControlInEPs DEF CallInv, TypesInv, TypeOK
<1>9. RegistersInv'
  <2>1. SUFFICES ASSUME NEW k \in EPs, k # ENDPOINT_CONTROLEP
                 PROVE  RegistersAsAsked(k)'
    BY <1>1, <1>6 DEF RegistersInv, InTransit
  <2>2. ~InTransit(k) /\ asked'[k] = asked[k]
    BY <1>4, <1>6, <2>1 DEF InTransit, TypesInv, TypeOK
  <2> QED BY <1>5, <2>1, <2>2 DEF WholeInv, RegistersInv, RegistersAsAsked
<1>10. EnabledInv'
  BY <1>1, <1>6, <1>7 DEF EnabledInv, EPs
<1>11. ArmedInv'
  BY <1>6 DEF ArmedInv
<1>12. MemoryInv'
  <2>1. Ordered(Reached)'
    BY <1>7 DEF Ordered, EPs
  <2> QED BY <1>1, <1>6, <2>1 DEF MemoryInv
<1> QED BY <1>8, <1>9, <1>10, <1>11, <1>12 DEF WholeInv

LEMMA ClearWhole ==
  ASSUME TypesInv, ClearEndpoints PROVE WholeInv'
<1>1. Idle /\ UNCHANGED call
  BY DEF ClearEndpoints
<1>2. /\ \A k \in EPs : ~ep'[k].alloc /\ asked'[k] = NoConfig
  BY DEF ClearEndpoints, TypesInv, TypeOK, Registers
<1>3. Idle' /\ here'.pc = "idle" /\ call'["isr"].pc = "idle"
  BY <1>1 DEF Idle, here, running, Levels
<1>4. CallInv'
  BY <1>3 DEF CallInv
<1>5. RegistersInv' /\ EnabledInv' /\ ArmedInv' /\ MemoryInv'
  BY <1>2, <1>3, ControlInEPs
     DEF RegistersInv, RegistersAsAsked, EnabledInv, ArmedInv, MemoryInv, Ordered
<1> QED BY <1>4, <1>5 DEF WholeInv

LEMMA InitWhole == Init => WholeInv
<1> SUFFICES ASSUME Init PROVE WholeInv
  OBVIOUS
<1>1. Idle /\ here.pc = "idle" /\ call["isr"].pc = "idle"
  BY ConfigTypes DEF Init, Idle, here, running, Levels
<1>2. \A k \in EPs : ~ep[k].alloc /\ asked[k] = NoConfig
  BY DEF Init, Cleared
<1>3. CallInv
  BY <1>1 DEF CallInv
<1>4. RegistersInv /\ EnabledInv /\ ArmedInv /\ MemoryInv
  BY <1>1, <1>2, ControlInEPs
     DEF RegistersInv, RegistersAsAsked, EnabledInv, ArmedInv, MemoryInv, Ordered
<1> QED BY <1>3, <1>4 DEF WholeInv

\* The inductive invariant holds, for every instance.
THEOREM InductiveInvariant == Spec => []IInv
<1>1. Init => IInv
  BY InitTypes, InitWhole DEF IInv, TypesInv
<1>2. IInv /\ [Next]_vars => IInv'
  <2> SUFFICES ASSUME IInv, [Next]_vars, ~torn' PROVE WholeInv'
    BY NextTypes DEF IInv, TypesInv
  <2>1. TypesInv /\ (~torn => WholeInv)
    BY DEF IInv, TypesInv
  <2>2. CASE ClearEndpoints
    BY <2>1, <2>2, ClearWhole
  <2>3. CASE BusReset
    BY <2>1, <2>3, ResetWhole DEF BusReset
  <2>4. CASE ConfigureEndpointTable
    <3>1. UNCHANGED <<ep, start, uenum, sound, call, asked, torn>>
      BY <2>4 DEF ConfigureEndpointTable
    <3> QED
      BY <2>1, <3>1
         DEF WholeInv, CallInv, RegistersInv, InTransit, RegistersAsAsked,
             EnabledInv, ArmedInv, MemoryInv, Ordered, End, Reached, Idle, here,
             running
  <2>5. CASE ConfigureEndpoint
    BY <2>1, <2>5, BeginWhole DEF ConfigureEndpoint
  <2>6. CASE SelectNext
    BY <2>1, <2>6, SelectWhole DEF SelectNext
  <2>7. CASE LoadRegisters
    BY <2>1, <2>7, LoadWhole DEF LoadRegisters
  <2>8. CASE FreeMemory
    BY <2>1, <2>8, FreeWhole DEF FreeMemory
  <2>9. CASE WriteConfig
    BY <2>1, <2>9, WriteWhole DEF WriteConfig
  <2>10. CASE EnableInterrupts
    BY <2>1, <2>10, EnableWhole DEF EnableInterrupts
  <2>11. CASE ConfigFails
    BY <2>1, <2>11, FailWhole DEF ConfigFails
  <2>12. CASE Return
    BY <2>1, <2>12, ReturnWhole DEF Return
  <2>13. CASE UNCHANGED vars
    <3>1. UNCHANGED <<ep, start, uenum, sound, call, asked, torn>>
      BY <2>13 DEF vars
    <3> QED
      BY <2>1, <3>1
         DEF WholeInv, CallInv, RegistersInv, InTransit, RegistersAsAsked,
             EnabledInv, ArmedInv, MemoryInv, Ordered, End, Reached, Idle, here,
             running
  <2> QED
    BY <2>2, <2>3, <2>4, <2>5, <2>6, <2>7, <2>8, <2>9, <2>10, <2>11, <2>12,
       <2>13
       DEF Next, Steps
<1> QED BY <1>1, <1>2, PTL DEF Spec

(***************************************************************************)
(* Endpoints that were set up with success never share memory, in whatever *)
(* order and with whatever sizes they are set up again.                    *)
(***************************************************************************)
THEOREM AlwaysMemorySeparate == Spec => []MemorySeparate
<1>1. IInv => MemorySeparate
  BY DEF IInv, WholeInv, MemoryInv, MemorySeparate, Reached
<1> QED BY <1>1, InductiveInvariant, PTL

\* They are enabled and configured as they were last asked for.
THEOREM AlwaysConfigurationKept == Spec => []ConfigurationKept
<1>1. IInv => ConfigurationKept
  <2> SUFFICES ASSUME IInv, Idle, ~torn, NEW k \in EPs, k < sound
               PROVE  AsAsked(k)
    BY DEF ConfigurationKept
  <2>1. WholeInv /\ Reached = sound /\ call["isr"].pc = "idle"
        /\ here.pc = "idle" /\ sound > 0
    BY DEF IInv, TypeOK, Reached, Idle, here, running, Levels, EPs
  <2>2. ~InTransit(k)
    BY <2>1 DEF InTransit
  <2> QED
    BY <2>1, <2>2
       DEF WholeInv, RegistersInv, RegistersAsAsked, EnabledInv, ArmedInv, AsAsked
<1> QED BY <1>1, InductiveInvariant, PTL
==============================================================================
