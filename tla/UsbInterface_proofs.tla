------------------------- MODULE UsbInterface_proofs -------------------------
(***************************************************************************)
(* Proofs about UsbInterface: what the main program finds of the interface *)
(* between calls, whatever interrupts, bus and PLL do while a call runs.   *)
(***************************************************************************)
EXTENDS UsbInterface, TLAPS

(***************************************************************************)
(* The statements of a call and how far it has come.                       *)
(***************************************************************************)
Statements ==
  {s \in [does : {"put", "set", "clear", "await set", "await clear", "globals",
                  "configure", "initialized", "uninitialized"},
          reg : Registers, bits : SUBSET UNION {Bits[r] : r \in Registers}] :
     s.bits \subseteq Bits[s.reg]}

\* What is left of a call after its first n statements.
Rest(call, n) == SubSeq(call, n + 1, Len(call))

\* The library's sequences are made of statements on the registers there are.
LEMMA StatementSorts ==
  ASSUME NEW r \in Registers, NEW b \in Bits[r]
  PROVE  /\ SetBit(r, b) \in Statements /\ ClearBit(r, b) \in Statements
         /\ AwaitSet(r, b) \in Statements /\ AwaitClear(r, b) \in Statements
         /\ Put(r, {}) \in Statements
         /\ Put(r, {b}) \in Statements
BY DEF SetBit, ClearBit, AwaitSet, AwaitClear, Put, Statements

\* ... and those without a register.
LEMMA OtherSorts ==
  ASSUME NEW what \in {"globals", "configure", "initialized", "uninitialized"}
  PROVE  Other(what) \in Statements
BY DEF Other, Statements, Registers

\* USB_Disable, statement by statement (USBController.c:57).
LEMMA DisableCode ==
  /\ USB_Disable \in Seq(Statements) /\ Len(USB_Disable) = 8
  /\ USB_Disable[1] = Put("UDIEN", {})
  /\ USB_Disable[2] = Put("UDINT", {})
  /\ USB_Disable[3] = SetBit("UDCON", "DETACH")
  /\ USB_Disable[4] = ClearBit("USBCON", "USBE")
  /\ USB_Disable[5] = Put("PLLCSR", {})
  /\ USB_Disable[6] = SetBit("REGCR", "REGDIS")
  /\ USB_Disable[7] = Other("initialized")
  /\ USB_Disable[8] = Other("uninitialized")
<1>1. /\ Put("UDIEN", {}) \in Statements /\ Put("UDINT", {}) \in Statements
      /\ SetBit("UDCON", "DETACH") \in Statements
      /\ ClearBit("USBCON", "USBE") \in Statements
      /\ Put("PLLCSR", {}) \in Statements /\ SetBit("REGCR", "REGDIS") \in Statements
      /\ Other("initialized") \in Statements /\ Other("uninitialized") \in Statements
  BY StatementSorts, OtherSorts DEF Registers, Bits, InterruptBits, Interrupts
<1> QED
  BY <1>1
  DEF USB_Disable, USB_INT_DisableAllInterrupts, USB_INT_ClearAllInterrupts, USB_Detach,
      USB_Controller_Disable, USB_PLL_Off, USB_REG_Off

\* Concatenation, position by position.
Joined(u, s, t, S) ==
  /\ u \in Seq(S) /\ Len(u) = Len(s) + Len(t)
  /\ \A i \in 1 .. Len(s) + Len(t) : u[i] = IF i <= Len(s) THEN s[i] ELSE t[i - Len(s)]

\* The elements of a concatenation.
LEMMA ConcatAt ==
  ASSUME NEW S, NEW s \in Seq(S), NEW t \in Seq(S)
  PROVE  Joined(s \o t, s, t, S)
BY DEF Joined

\* What is left of a sequence, position by position.
LEMMA RestAt ==
  ASSUME NEW S, NEW s \in Seq(S), NEW n \in 0 .. Len(s)
  PROVE  /\ Rest(s, n) \in Seq(S) /\ Len(Rest(s, n)) = Len(s) - n
         /\ \A i \in 1 .. Len(s) - n : Rest(s, n)[i] = s[n + i]
BY DEF Rest

\* Sequences that agree at every position are equal.
LEMMA SameSequence ==
  ASSUME NEW S, NEW s \in Seq(S), NEW t \in Seq(S), Len(s) = Len(t),
         \A i \in 1 .. Len(s) : s[i] = t[i]
  PROVE  s = t
OBVIOUS

\* USB_Init and, after its second statement, USB_ResetInterface
\* (USBController.c:38, USBController.c:78, USBController.c:139).
LEMMA InitCode ==
  /\ USB_Init \in Seq(Statements) /\ Len(USB_Init) = 16
  /\ USB_Init[1] = ClearBit("REGCR", "REGDIS")
  /\ USB_Init[2] = Other("initialized")
  /\ USB_Init[3] = Put("UDIEN", {})
  /\ USB_Init[4] = Put("UDINT", {})
  /\ USB_Init[5] = ClearBit("USBCON", "USBE")
  /\ USB_Init[6] = SetBit("USBCON", "USBE")
  /\ USB_Init[7] = ClearBit("USBCON", "FRZCLK")
  /\ USB_Init[8] = Put("PLLCSR", {})
  /\ USB_Init[9] = Put("PLLCSR", {"PLLE"})
  /\ USB_Init[10] = AwaitSet("PLLCSR", "PLOCK")
  /\ USB_Init[11] = Other("globals")
  /\ USB_Init[12] = Other("configure")
  /\ USB_Init[13] = ClearBit("UDINT", "SUSPI")
  /\ USB_Init[14] = SetBit("UDIEN", "SUSPI")
  /\ USB_Init[15] = SetBit("UDIEN", "EORSTI")
  /\ USB_Init[16] = ClearBit("UDCON", "DETACH")
  /\ USB_ResetInterface = Rest(USB_Init, 2)
<1> DEFINE S == Statements
           a1 == Put("UDIEN", {})  a2 == Put("UDINT", {})
           b1 == ClearBit("USBCON", "USBE")  b2 == SetBit("USBCON", "USBE")
           c == ClearBit("USBCON", "FRZCLK")
           d1 == Put("PLLCSR", {})  d2 == Put("PLLCSR", {"PLLE"})
           e == AwaitSet("PLLCSR", "PLOCK")
           i1 == Other("globals")  i2 == Other("configure")
           i3 == ClearBit("UDINT", "SUSPI")  i4 == SetBit("UDIEN", "SUSPI")
           i5 == SetBit("UDIEN", "EORSTI")  i6 == ClearBit("UDCON", "DETACH")
           r == ClearBit("REGCR", "REGDIS")  o == Other("initialized")
<1>1. /\ a1 \in S /\ a2 \in S /\ b1 \in S /\ b2 \in S /\ c \in S /\ d1 \in S /\ d2 \in S
      /\ e \in S /\ i1 \in S /\ i2 \in S /\ i3 \in S /\ i4 \in S /\ i5 \in S /\ i6 \in S
      /\ r \in S /\ o \in S
  BY StatementSorts, OtherSorts DEF Registers, Bits, InterruptBits, Interrupts
<1> DEFINE t1 == <<a1, a2>>  t2 == <<b1, b2>>  t3 == <<c>>  t4 == <<d1, d2>>
           t5 == <<e>>  t6 == <<i1, i2, i3, i4, i5, i6>>  t7 == <<r, o>>
           A == t1 \o t2  B == A \o t3  C == B \o t4  D == C \o t5  R == D \o t6
           I == t7 \o R
<1>2. USB_ResetInterface = R /\ USB_Init = I
  BY DEF USB_Init, USB_ResetInterface, USB_Init_Device, USB_PLL_On, USB_Controller_Reset,
         USB_REG_On, USB_INT_DisableAllInterrupts, USB_INT_ClearAllInterrupts,
         USB_CLK_Unfreeze, AwaitPLL, USB_INT_Clear, USB_INT_Enable, USB_Attach
<1> HIDE DEF S, a1, a2, b1, b2, c, d1, d2, e, i1, i2, i3, i4, i5, i6, r, o
<1>3. /\ t1 \in Seq(S) /\ Len(t1) = 2 /\ t1[1] = a1 /\ t1[2] = a2
      /\ t2 \in Seq(S) /\ Len(t2) = 2 /\ t2[1] = b1 /\ t2[2] = b2
      /\ t3 \in Seq(S) /\ Len(t3) = 1 /\ t3[1] = c
      /\ t4 \in Seq(S) /\ Len(t4) = 2 /\ t4[1] = d1 /\ t4[2] = d2
      /\ t5 \in Seq(S) /\ Len(t5) = 1 /\ t5[1] = e
      /\ t6 \in Seq(S) /\ Len(t6) = 6 /\ t6[1] = i1 /\ t6[2] = i2 /\ t6[3] = i3
      /\ t6[4] = i4 /\ t6[5] = i5 /\ t6[6] = i6
      /\ t7 \in Seq(S) /\ Len(t7) = 2 /\ t7[1] = r /\ t7[2] = o
  BY <1>1
<1> HIDE DEF t1, t2, t3, t4, t5, t6, t7
<1>4. /\ Joined(A, t1, t2, S) /\ Joined(B, A, t3, S) /\ Joined(C, B, t4, S)
      /\ Joined(D, C, t5, S) /\ Joined(R, D, t6, S) /\ Joined(I, t7, R, S)
  <2> HIDE DEF A, B, C, D, R, I
  <2>1. Joined(A, t1, t2, S)  BY <1>3, ConcatAt DEF A
  <2>2. Joined(B, A, t3, S)
    <3>1. A \in Seq(S)
      BY <2>1 DEF Joined
    <3> QED
      BY <1>3, <3>1, ConcatAt DEF B
  <2>3. Joined(C, B, t4, S)
    <3>1. B \in Seq(S)
      BY <2>2 DEF Joined
    <3> QED
      BY <1>3, <3>1, ConcatAt DEF C
  <2>4. Joined(D, C, t5, S)
    <3>1. C \in Seq(S)
      BY <2>3 DEF Joined
    <3> QED
      BY <1>3, <3>1, ConcatAt DEF D
  <2>5. Joined(R, D, t6, S)
    <3>1. D \in Seq(S)
      BY <2>4 DEF Joined
    <3> QED
      BY <1>3, <3>1, ConcatAt DEF R
  <2>6. Joined(I, t7, R, S)
    <3>1. R \in Seq(S)
      BY <2>5 DEF Joined
    <3> QED
      BY <1>3, <3>1, ConcatAt DEF I
  <2> QED
    BY <2>1, <2>2, <2>3, <2>4, <2>5, <2>6
<1> HIDE DEF A, B, C, D, R, I
<1>5. Len(A) = 4 /\ A[1] = a1 /\ A[2] = a2 /\ A[3] = b1 /\ A[4] = b2
  BY <1>3, <1>4 DEF Joined
<1>6. Len(B) = 5 /\ (\A i \in 1 .. 4 : B[i] = A[i]) /\ B[5] = c
  BY <1>3, <1>4, <1>5 DEF Joined
<1>7. Len(C) = 7 /\ (\A i \in 1 .. 5 : C[i] = B[i]) /\ C[6] = d1 /\ C[7] = d2
  BY <1>3, <1>4, <1>6 DEF Joined
<1>8. Len(D) = 8 /\ (\A i \in 1 .. 7 : D[i] = C[i]) /\ D[8] = e
  BY <1>3, <1>4, <1>7 DEF Joined
<1>9. /\ Len(R) = 14 /\ (\A i \in 1 .. 8 : R[i] = D[i])
      /\ R[9] = i1 /\ R[10] = i2 /\ R[11] = i3 /\ R[12] = i4 /\ R[13] = i5 /\ R[14] = i6
  BY <1>3, <1>4, <1>8 DEF Joined
<1>10. /\ I \in Seq(S) /\ Len(I) = 16 /\ I[1] = r /\ I[2] = o
       /\ \A i \in 1 .. 14 : I[2 + i] = R[i]
  BY <1>3, <1>4, <1>9 DEF Joined
<1>11. R = Rest(I, 2)
  <2>1. R \in Seq(S)
    BY <1>4 DEF Joined
  <2>2. I \in Seq(S) /\ 2 \in 0 .. Len(I)
    BY <1>10
  <2> HIDE DEF Rest
  <2>3. /\ Rest(I, 2) \in Seq(S) /\ Len(Rest(I, 2)) = Len(I) - 2
        /\ \A i \in 1 .. Len(I) - 2 : Rest(I, 2)[i] = I[2 + i]
    BY <2>2, RestAt
  <2> DEFINE Q == Rest(I, 2)
  <2>4. Q \in Seq(S) /\ Len(Q) = Len(I) - 2 /\ \A i \in 1 .. Len(I) - 2 : Q[i] = I[2 + i]
    BY <2>3
  <2> HIDE DEF Q
  <2>5. Len(R) = Len(Q) /\ \A i \in 1 .. Len(R) : R[i] = Q[i]
    BY <1>9, <1>10, <2>4
  <2>6. R = Q
    BY <2>1, <2>4, <2>5, SameSequence
  <2> QED
    BY <2>6 DEF Q
<1>12. /\ I[3] = a1 /\ I[4] = a2 /\ I[5] = b1 /\ I[6] = b2 /\ I[7] = c /\ I[8] = d1
       /\ I[9] = d2 /\ I[10] = e /\ I[11] = i1 /\ I[12] = i2 /\ I[13] = i3
       /\ I[14] = i4 /\ I[15] = i5 /\ I[16] = i6
  BY <1>5, <1>6, <1>7, <1>8, <1>9, <1>10
<1> QED
  BY <1>2, <1>10, <1>11, <1>12
  DEF S, a1, a2, b1, b2, c, d1, d2, e, i1, i2, i3, i4, i5, i6, r, o

\* USB_Device_SendRemoteWakeup, statement by statement (Device.c:38).
LEMMA WakeCode ==
  /\ USB_Device_SendRemoteWakeup \in Seq(Statements)
  /\ Len(USB_Device_SendRemoteWakeup) = 6
  /\ USB_Device_SendRemoteWakeup[1] = Put("PLLCSR", {})
  /\ USB_Device_SendRemoteWakeup[2] = Put("PLLCSR", {"PLLE"})
  /\ USB_Device_SendRemoteWakeup[3] = AwaitSet("PLLCSR", "PLOCK")
  /\ USB_Device_SendRemoteWakeup[4] = ClearBit("USBCON", "FRZCLK")
  /\ USB_Device_SendRemoteWakeup[5] = SetBit("UDCON", "RMWKUP")
  /\ USB_Device_SendRemoteWakeup[6] = AwaitClear("UDCON", "RMWKUP")
<1> DEFINE S == Statements
           d1 == Put("PLLCSR", {})  d2 == Put("PLLCSR", {"PLLE"})
           e == AwaitSet("PLLCSR", "PLOCK")  c == ClearBit("USBCON", "FRZCLK")
           w1 == SetBit("UDCON", "RMWKUP")  w2 == AwaitClear("UDCON", "RMWKUP")
<1>1. d1 \in S /\ d2 \in S /\ e \in S /\ c \in S /\ w1 \in S /\ w2 \in S
  BY StatementSorts DEF Registers, Bits
<1>2. USB_Device_SendRemoteWakeup = <<d1, d2>> \o <<e, c, w1, w2>>
  BY DEF USB_Device_SendRemoteWakeup, USB_PLL_On, AwaitPLL, USB_CLK_Unfreeze
<1> HIDE DEF S, d1, d2, e, c, w1, w2
<1> DEFINE s == <<d1, d2>>  t == <<e, c, w1, w2>>  W == s \o t
<1>3. /\ s \in Seq(S) /\ Len(s) = 2 /\ s[1] = d1 /\ s[2] = d2
      /\ t \in Seq(S) /\ Len(t) = 4 /\ t[1] = e /\ t[2] = c /\ t[3] = w1 /\ t[4] = w2
  BY <1>1
<1> HIDE DEF s, t
<1>4. Joined(W, s, t, S)
  BY <1>3, ConcatAt
<1> HIDE DEF W
<1>5. /\ W \in Seq(S) /\ Len(W) = 6 /\ W[1] = d1 /\ W[2] = d2 /\ W[3] = e /\ W[4] = c
      /\ W[5] = w1 /\ W[6] = w2
  BY <1>3, <1>4 DEF Joined
<1>6. USB_Device_SendRemoteWakeup = W
  BY <1>2 DEF W, s, t
<1> QED
  BY <1>5, <1>6 DEF S, d1, d2, e, c, w1, w2

\* The calls of one statement (Device.h:183, Device.h:192).
LEMMA FrameCode ==
  /\ USB_Device_EnableSOFEvents = <<SetBit("UDIEN", "SOFI")>>
  /\ USB_Device_DisableSOFEvents = <<ClearBit("UDIEN", "SOFI")>>
  /\ USB_Device_EnableSOFEvents \in Seq(Statements)
  /\ USB_Device_DisableSOFEvents \in Seq(Statements)
<1>1. SetBit("UDIEN", "SOFI") \in Statements /\ ClearBit("UDIEN", "SOFI") \in Statements
  BY StatementSorts DEF Registers, Bits, InterruptBits
<1> QED
  BY <1>1 DEF USB_Device_EnableSOFEvents, USB_Device_DisableSOFEvents, USB_INT_Enable,
              USB_INT_Disable

\* Splitting a call at the statement it has come to.
LEMMA RestStep ==
  ASSUME NEW call \in Seq(Statements), NEW n \in 0 .. Len(call)
  PROVE  /\ Rest(call, n) \in Seq(Statements)
         /\ Rest(call, 0) = call
         /\ Rest(call, n) = <<>> <=> n = Len(call)
         /\ n < Len(call) => /\ Head(Rest(call, n)) = call[n + 1]
                             /\ Tail(Rest(call, n)) = Rest(call, n + 1)
<1> QED BY DEF Rest
(***************************************************************************)
(* What one step makes of the registers, bit by bit.                       *)
(***************************************************************************)
SuspDue == "SUSPI" \in reg.UDINT /\ "SUSPI" \in reg.UDIEN
WakeFollows == "WAKEUPI" \in reg.UDINT /\ ("WAKEUPI" \in reg.UDIEN \/ SuspDue)
RstDue == "EORSTI" \in reg.UDINT /\ "EORSTI" \in reg.UDIEN

\* The view of the registers, after each part of the interrupt.
AfterSof == SofPart(View)
AfterSuspend == SuspendPart(AfterSof)
AfterWake == WakePart(AfterSuspend)
AfterReset == ResetPart(AfterWake)

SofServed == IF "SOFI" \in reg.UDINT /\ "SOFI" \in reg.UDIEN
             THEN reg.UDINT \ {"SOFI"} ELSE reg.UDINT
SuspendServed == IF SuspDue THEN (reg.UDIEN \ {"SUSPI"}) \cup {"WAKEUPI"} ELSE reg.UDIEN
WakeServed == IF WakeFollows THEN (SuspendServed \ {"WAKEUPI"}) \cup {"SUSPI"}
                             ELSE SuspendServed
WakeCleared == IF WakeFollows THEN SofServed \ {"WAKEUPI"} ELSE SofServed

\* The three parts of the interrupt, one after the other (USBInterrupt.c:53-165).
LEMMA ServedParts ==
  /\ SuspendDue(AfterSof) <=> SuspDue
  /\ WakeDue(AfterSuspend) <=> WakeFollows
  /\ ResetDue(AfterWake) <=> RstDue
  /\ AfterReset.ien = IF RstDue THEN (WakeServed \ {"SUSPI"}) \cup {"WAKEUPI"} ELSE WakeServed
  /\ AfterReset.int = IF RstDue THEN (WakeCleared \ {"EORSTI"}) \ {"SUSPI"} ELSE WakeCleared
  /\ AfterReset.frozen <=> IF WakeFollows THEN FALSE ELSE SuspDue \/ "FRZCLK" \in reg.USBCON
  /\ AfterReset.pll <=> IF WakeFollows THEN TRUE ELSE ~SuspDue /\ "PLOCK" \in reg.PLLCSR
  /\ AfterReset.cfg = IF RstDue THEN 0 ELSE dev.cfg
  /\ AfterReset.state = IF RstDue THEN "Default"
                        ELSE IF WakeFollows
                             THEN (IF dev.cfg # 0 \/ addr # NoAddress THEN "Configured"
                                                                      ELSE "Powered")
                        ELSE IF SuspDue THEN "Unattached" ELSE dev.state
<1>1. AfterSof = [state |-> dev.state, cfg |-> dev.cfg, frozen |-> "FRZCLK" \in reg.USBCON,
                  pll |-> "PLOCK" \in reg.PLLCSR, ien |-> reg.UDIEN, int |-> SofServed,
                  addr |-> addr]
  BY DEF AfterSof, SofServed, SofPart, View, Occurred, IsEnabled, Clear
<1>2. SuspendDue(AfterSof) <=> SuspDue
  BY <1>1 DEF SuspendDue, SuspDue, Occurred, IsEnabled, SofServed
<1>3. AfterSuspend = [state |-> IF SuspDue THEN "Unattached" ELSE dev.state, cfg |-> dev.cfg,
           frozen |-> IF SuspDue THEN TRUE ELSE "FRZCLK" \in reg.USBCON,
           pll |-> IF SuspDue THEN FALSE ELSE "PLOCK" \in reg.PLLCSR,
           ien |-> SuspendServed, int |-> SofServed, addr |-> addr]
  BY <1>1, <1>2 DEF AfterSuspend, SuspendServed, SuspendPart, Enable, Disable
<1>4. WakeDue(AfterSuspend) <=> WakeFollows
  BY <1>3 DEF WakeDue, WakeFollows, SuspDue, SuspendServed, SofServed, Occurred, IsEnabled
<1>5. AfterWake =
          [state |-> IF WakeFollows
                     THEN (IF dev.cfg # 0 \/ addr # NoAddress THEN "Configured" ELSE "Powered")
                     ELSE IF SuspDue THEN "Unattached" ELSE dev.state,
           cfg |-> dev.cfg,
           frozen |-> IF WakeFollows THEN FALSE
                      ELSE IF SuspDue THEN TRUE ELSE "FRZCLK" \in reg.USBCON,
           pll |-> IF WakeFollows THEN TRUE
                   ELSE IF SuspDue THEN FALSE ELSE "PLOCK" \in reg.PLLCSR,
           ien |-> WakeServed, int |-> WakeCleared, addr |-> addr]
  BY <1>3, <1>4 DEF AfterWake, WakeServed, WakeCleared, WakePart, Enable, Disable, Clear,
                    StateFromConfiguration, AddressSet
<1>6. ResetDue(AfterWake) <=> RstDue
  BY <1>5 DEF ResetDue, RstDue, Occurred, IsEnabled, WakeServed, WakeCleared,
              SuspendServed,
              SofServed
<1>7. /\ AfterReset.ien = IF RstDue THEN (WakeServed \ {"SUSPI"}) \cup {"WAKEUPI"}
                                    ELSE WakeServed
      /\ AfterReset.int = IF RstDue THEN (WakeCleared \ {"EORSTI"}) \ {"SUSPI"}
                                    ELSE WakeCleared
      /\ AfterReset.cfg = IF RstDue THEN 0 ELSE dev.cfg
      /\ AfterReset.state = IF RstDue THEN "Default" ELSE AfterWake.state
      /\ AfterReset.frozen = AfterWake.frozen /\ AfterReset.pll = AfterWake.pll
  BY <1>5, <1>6 DEF AfterReset, ResetPart, Enable, Disable, Clear
<1>8. /\ AfterWake.frozen <=> IF WakeFollows THEN FALSE ELSE SuspDue \/ "FRZCLK" \in reg.USBCON
      /\ AfterWake.pll <=> IF WakeFollows THEN TRUE ELSE ~SuspDue /\ "PLOCK" \in reg.PLLCSR
  BY <1>5
<1>9. AfterWake.state = IF WakeFollows
                        THEN (IF dev.cfg # 0 \/ addr # NoAddress THEN "Configured" ELSE "Powered")
                        ELSE IF SuspDue THEN "Unattached" ELSE dev.state
  BY <1>5
<1> QED
  BY <1>2, <1>4, <1>6, <1>7, <1>8, <1>9

\* The interrupt.
LEMMA IsrEffect ==
  ASSUME DOMAIN reg = Registers, UsbGenISR
  PROVE  /\ Pending
         /\ DOMAIN reg' = Registers
         /\ reg'.UDCON = reg.UDCON /\ reg'.REGCR = reg.REGCR
         /\ reg'.USBCON \ {"FRZCLK"} = reg.USBCON \ {"FRZCLK"}
         /\ "FRZCLK" \in reg'.USBCON <=> ~WakeFollows /\ (SuspDue \/ "FRZCLK" \in reg.USBCON)
         /\ reg'.PLLCSR = IF WakeFollows THEN {"PLLE", "PLOCK"}
                          ELSE IF SuspDue THEN {} ELSE reg.PLLCSR
         /\ reg'.UDIEN = IF RstDue THEN (WakeServed \ {"SUSPI"}) \cup {"WAKEUPI"}
                                   ELSE WakeServed
         /\ reg'.UDINT = IF RstDue THEN (WakeCleared \ {"EORSTI"}) \ {"SUSPI"}
                                   ELSE WakeCleared
         /\ endpoint0' = IF RstDue THEN "listening" ELSE endpoint0
         /\ dev' = [dev EXCEPT !.state = AfterReset.state, !.cfg = AfterReset.cfg]
         /\ returned' = TRUE
         /\ UNCHANGED <<addr, todo, copy, link, permits>>
<1> DEFINE fz == (reg.USBCON \ {"FRZCLK"}) \cup (IF AfterReset.frozen THEN {"FRZCLK"} ELSE {})
           touched == SuspendDue(AfterSof) \/ WakeDue(AfterSuspend)
           pl == CASE ~touched -> reg.PLLCSR
                   [] touched /\ AfterReset.pll -> {"PLLE", "PLOCK"}
                   [] OTHER -> {}
<1>1. reg' = [reg EXCEPT !.USBCON = fz, !.PLLCSR = pl, !.UDIEN = AfterReset.ien,
                         !.UDINT = AfterReset.int]
  BY DEF UsbGenISR, AfterSof, AfterSuspend, AfterWake, AfterReset
<1>2. /\ Pending
      /\ endpoint0' = IF ResetDue(AfterWake) THEN "listening" ELSE endpoint0
      /\ dev' = [dev EXCEPT !.state = AfterReset.state, !.cfg = AfterReset.cfg]
      /\ returned' = TRUE
      /\ UNCHANGED <<addr, todo, copy, link, permits>>
  BY DEF UsbGenISR, AfterSof, AfterSuspend, AfterWake, AfterReset, busVars
<1>3. pl = IF WakeFollows THEN {"PLLE", "PLOCK"} ELSE IF SuspDue THEN {} ELSE reg.PLLCSR
  BY ServedParts
<1>4. /\ fz \ {"FRZCLK"} = reg.USBCON \ {"FRZCLK"}
      /\ "FRZCLK" \in fz <=> ~WakeFollows /\ (SuspDue \/ "FRZCLK" \in reg.USBCON)
  BY ServedParts
<1> HIDE DEF fz, pl
<1>5. /\ DOMAIN reg' = Registers /\ reg'.UDCON = reg.UDCON /\ reg'.REGCR = reg.REGCR
      /\ reg'.USBCON = fz /\ reg'.PLLCSR = pl
      /\ reg'.UDIEN = AfterReset.ien /\ reg'.UDINT = AfterReset.int
  BY <1>1 DEF Registers
<1> QED
  BY <1>2, <1>3, <1>4, <1>5, ServedParts

\* A write to a register.
LEMMA WriteEffect ==
  ASSUME NEW register \in Registers, NEW bits, DOMAIN reg = Registers, Write(register, bits)
  PROVE  LET off == register = "USBCON" /\ "USBE" \notin bits
         IN /\ DOMAIN reg' = Registers
            /\ reg'.USBCON = IF register = "USBCON" THEN bits ELSE reg.USBCON
            /\ reg'.PLLCSR = IF register = "PLLCSR" THEN bits ELSE reg.PLLCSR
            /\ reg'.REGCR = IF register = "REGCR" THEN bits ELSE reg.REGCR
            /\ reg'.UDCON = IF off THEN {"DETACH"}
                            ELSE IF register = "UDCON" THEN bits ELSE reg.UDCON
            /\ reg'.UDIEN = IF off THEN {} ELSE IF register = "UDIEN" THEN bits ELSE reg.UDIEN
            /\ reg'.UDINT = IF off THEN {}
                            ELSE IF register = "UDINT" THEN reg.UDINT \cap bits ELSE reg.UDINT
            /\ addr' = IF off THEN NoAddress ELSE addr
            /\ endpoint0' = IF off THEN "none" ELSE endpoint0
            /\ link' = IF ~Attached(reg') THEN "none" ELSE IF link = "none" THEN "idle" ELSE link
            /\ permits' = (permits /\ Attached(reg'))
<1> DEFINE off == register = "USBCON" /\ "USBE" \notin bits
           written == [reg EXCEPT ![register] = IF register = "UDINT" THEN @ \cap bits
                                                                      ELSE bits]
           now == IF off THEN [written EXCEPT !.UDCON = {"DETACH"}, !.UDIEN = {}, !.UDINT = {}]
                         ELSE written
<1>1. /\ reg' = now
      /\ addr' = IF off THEN NoAddress ELSE addr
      /\ endpoint0' = IF off THEN "none" ELSE endpoint0
      /\ link' = CASE ~Attached(now) -> "none"
                   [] Attached(now) /\ link = "none" -> "idle"
                   [] OTHER -> link
      /\ permits' = (permits /\ Attached(now))
  BY DEF Write
<1>2. /\ DOMAIN written = Registers
      /\ \A r \in Registers :
           written[r] = IF r # register THEN reg[r]
                        ELSE IF register = "UDINT" THEN reg.UDINT \cap bits ELSE bits
  OBVIOUS
<1> HIDE DEF written
<1>3. /\ DOMAIN now = Registers
      /\ now.USBCON = written.USBCON /\ now.PLLCSR = written.PLLCSR
      /\ now.REGCR = written.REGCR
      /\ now.UDCON = IF off THEN {"DETACH"} ELSE written.UDCON
      /\ now.UDIEN = IF off THEN {} ELSE written.UDIEN
      /\ now.UDINT = IF off THEN {} ELSE written.UDINT
  BY <1>2 DEF Registers
<1>4. link' = IF ~Attached(reg') THEN "none" ELSE IF link = "none" THEN "idle" ELSE link
  BY <1>1
<1>5. permits' = (permits /\ Attached(reg'))
  BY <1>1
<1> HIDE DEF now
<1> QED
  BY <1>1, <1>2, <1>3, <1>4, <1>5 DEF Registers

(***************************************************************************)
(* Types: the calls are the library's statements.                          *)
(***************************************************************************)
TypeInv ==
  /\ TypeOK /\ todo \in Seq(Statements) /\ returned \in BOOLEAN
  /\ copy # <<>> => todo # <<>>

\* A statement's operand is a set of bits of its register, ...
LEMMA StatementBits ==
  ASSUME NEW s \in Statements
  PROVE  s.reg \in Registers /\ s.bits \subseteq Bits[s.reg]
BY DEF Statements

\* ... also in what is left of a call, ...
LEMMA CallBits ==
  ASSUME NEW t \in Seq(Statements)
  PROVE  \A i \in DOMAIN t : t[i].bits \subseteq Bits[t[i].reg]
<1>1. \A i \in DOMAIN t : t[i] \in Statements
  OBVIOUS
<1> QED
  BY <1>1, StatementBits

\* ... and so for the statement that is next.
LEMMA HeadSort ==
  ASSUME todo \in Seq(Statements), todo # <<>>
  PROVE  /\ Head(todo) \in Statements /\ Head(todo).reg \in Registers
         /\ Operand \subseteq Bits[Head(todo).reg]
         /\ Tail(todo) \in Seq(Statements)
<1>1. Head(todo) \in Statements /\ Tail(todo) \in Seq(Statements)
  OBVIOUS
<1> QED
  BY <1>1, StatementBits DEF Operand

\* Every call is a sequence of statements.
LEMMA CallSorts ==
  /\ USB_Init \in Seq(Statements) /\ USB_ResetInterface \in Seq(Statements)
  /\ USB_Disable \in Seq(Statements) /\ USB_Device_SendRemoteWakeup \in Seq(Statements)
  /\ USB_Device_EnableSOFEvents \in Seq(Statements)
  /\ USB_Device_DisableSOFEvents \in Seq(Statements)
<1>1. USB_Init \in Seq(Statements) /\ 2 \in 0 .. Len(USB_Init)
  BY InitCode
<1>2. Rest(USB_Init, 2) \in Seq(Statements)
  BY <1>1, RestAt
<1>3. USB_ResetInterface = Rest(USB_Init, 2)
  BY InitCode
<1>4. USB_ResetInterface \in Seq(Statements)
  BY <1>2, <1>3
<1> QED
  BY <1>1, <1>4, DisableCode, WakeCode, FrameCode

\* Writing a register keeps the types.
LEMMA WriteTyped ==
  ASSUME TypeInv, NEW register \in Registers, NEW bits \in SUBSET Bits[register],
         Write(register, bits), Done, UNCHANGED dev, todo # <<>>
  PROVE  TypeInv'
<1>1. /\ DOMAIN reg' = Registers /\ \A r \in Registers : reg'[r] \subseteq Bits[r]
  <2>1. DOMAIN reg = Registers /\ \A r \in Registers : reg[r] \subseteq Bits[r]
    BY DEF TypeInv, TypeOK
  <2> QED
    BY <2>1, WriteEffect DEF Registers, Bits
<1>2. /\ addr' \in {NoAddress, DeviceAddress} /\ endpoint0' \in {"none", "configured", "listening"}
      /\ link' \in {"none", "idle", "active"} /\ permits' \in BOOLEAN
  BY WriteEffect DEF TypeInv, TypeOK
<1>3. /\ todo' \in Seq(Statements) /\ copy' = <<>> /\ returned' \in BOOLEAN
      /\ \A i \in DOMAIN todo' : todo'[i].bits \subseteq Bits[todo'[i].reg]
  BY HeadSort, CallBits DEF TypeInv, Done
<1> QED
  BY <1>1, <1>2, <1>3 DEF TypeInv, TypeOK

\* So does every step.
LEMMA TypeStep ==
  ASSUME TypeInv, [Next]_vars
  PROVE  TypeInv'
<1> USE DEF TypeInv
<1>1. CASE AppCall
  <2>1. /\ todo = <<>> /\ todo' \in Seq(Statements)
        /\ UNCHANGED <<deviceVars, copy, returned, busVars>>
    BY <1>1, CallSorts DEF AppCall, CallInit, CallReset, CallDisable, CallRemoteWakeup,
                           CallSOFEvents, Call
  <2>2. \A i \in DOMAIN todo' : todo'[i].bits \subseteq Bits[todo'[i].reg]
    BY <2>1, CallBits
  <2> QED
    BY <2>1, <2>2 DEF TypeOK, deviceVars, busVars
<1>2. CASE PutRegister
  <2>1. todo # <<>> /\ Write(Head(todo).reg, Operand) /\ Done /\ UNCHANGED dev
    BY <1>2 DEF PutRegister, Doing
  <2> QED
    BY <2>1, HeadSort, WriteTyped
<1>3. CASE ReadRegister
  <2>1. /\ todo # <<>> /\ Head(todo).does \in {"set", "clear"} /\ copy' = <<reg[Head(todo).reg]>>
        /\ returned' = FALSE /\ UNCHANGED <<deviceVars, todo, busVars>>
    BY <1>3 DEF ReadRegister, Doing
  <2>2. reg[Head(todo).reg] \subseteq Bits[Head(todo).reg]
    BY <2>1, HeadSort DEF TypeOK
  <2> QED
    BY <2>1, <2>2 DEF TypeOK, deviceVars, busVars
<1>4. CASE WriteBack
  <2> DEFINE bits == IF Doing("set") THEN copy[1] \cup Operand ELSE copy[1] \ Operand
  <2>1. todo # <<>> /\ Write(Head(todo).reg, bits) /\ Done /\ UNCHANGED dev
    BY <1>4 DEF WriteBack
  <2>2. bits \in SUBSET Bits[Head(todo).reg]
    BY <1>4, <2>1, HeadSort DEF WriteBack, TypeOK
  <2> HIDE DEF bits
  <2> QED
    BY <2>1, <2>2, HeadSort, WriteTyped
<1>5. CASE Await \/ ResetGlobals \/ ConfigureEndpoint0 \/ MarkInitialized
  <2>1. todo # <<>> /\ Done /\ UNCHANGED <<reg, addr, busVars>>
    BY <1>5 DEF Await, ResetGlobals, ConfigureEndpoint0, MarkInitialized, Doing,
                deviceVars
  <2>2. /\ todo' \in Seq(Statements) /\ copy' = <<>> /\ returned' \in BOOLEAN
        /\ \A i \in DOMAIN todo' : todo'[i].bits \subseteq Bits[todo'[i].reg]
    BY <2>1, HeadSort, CallBits DEF Done
  <2>3. /\ endpoint0' \in {"none", "configured", "listening"}
        /\ dev' \in [state : DeviceStates, cfg : 0 .. FIXED_NUM_CONFIGURATIONS,
                     initialized : BOOLEAN, wakeup : BOOLEAN]
    <3>1. CASE Await
      BY <3>1 DEF Await, deviceVars, TypeOK
    <3>2. CASE ResetGlobals
      <4>1. /\ dev' = [dev EXCEPT !.state = "Unattached", !.cfg = 0, !.wakeup = FALSE]
            /\ endpoint0' = endpoint0
        BY <3>2 DEF ResetGlobals
      <4>2. "Unattached" \in DeviceStates /\ 0 \in 0 .. FIXED_NUM_CONFIGURATIONS
        BY DEF DeviceStates, FIXED_NUM_CONFIGURATIONS
      <4> QED
        BY <4>1, <4>2 DEF TypeOK
    <3>3. CASE ConfigureEndpoint0
      BY <3>3 DEF ConfigureEndpoint0, TypeOK
    <3>4. CASE MarkInitialized
      <4>1. Doing("initialized") \in BOOLEAN
        BY DEF Doing
      <4> QED
        BY <3>4, <4>1 DEF MarkInitialized, TypeOK
    <3> QED
      BY <1>5, <3>1, <3>2, <3>3, <3>4
  <2> QED
    BY <2>1, <2>2, <2>3 DEF TypeOK, busVars
<1>6. CASE UsbGenISR
  <2>1. DOMAIN reg = Registers /\ \A r \in Registers : reg[r] \subseteq Bits[r]
    BY DEF TypeOK
  <2>2. DOMAIN reg' = Registers /\ \A r \in Registers : reg'[r] \subseteq Bits[r]
    <3>1. reg'.UDIEN \subseteq Bits["UDIEN"] /\ reg'.UDINT \subseteq Bits["UDINT"]
      BY <1>6, <2>1, IsrEffect DEF Bits, Registers, InterruptBits, Interrupts, WakeServed,
                                   SuspendServed, WakeCleared, SofServed
    <3>2. reg'.USBCON \subseteq Bits["USBCON"]
      BY <1>6, <2>1, IsrEffect DEF Bits, Registers
    <3> QED
      BY <1>6, <2>1, <3>1, <3>2, IsrEffect DEF Bits, Registers
  <2>3. /\ AfterReset.state \in DeviceStates /\ AfterReset.cfg \in 0 .. FIXED_NUM_CONFIGURATIONS
    BY ServedParts DEF TypeOK, DeviceStates, FIXED_NUM_CONFIGURATIONS
  <2> QED
    BY <1>6, <2>1, <2>2, <2>3, IsrEffect DEF TypeOK
<1>7. CASE HostRequest
  <2>1. UNCHANGED <<reg, endpoint0, todo, copy, returned, link>>
    BY <1>7 DEF HostRequest, SetAddress, SetConfiguration, SetRemoteWakeup, callVars,
                busVars
  <2>2. addr' \in {NoAddress, DeviceAddress} /\ permits' \in BOOLEAN
    BY <1>7 DEF HostRequest, SetAddress, SetConfiguration, SetRemoteWakeup, busVars,
                TypeOK
  <2>3. dev' \in [state : DeviceStates, cfg : 0 .. FIXED_NUM_CONFIGURATIONS,
                  initialized : BOOLEAN, wakeup : BOOLEAN]
    BY <1>7 DEF HostRequest, SetAddress, SetConfiguration, SetRemoteWakeup, TypeOK,
                DeviceStates, StateFromConfiguration, Configurations
  <2> QED
    BY <2>1, <2>2, <2>3 DEF TypeOK
<1>8. CASE BusStep
  <2>1. /\ DOMAIN reg' = Registers /\ \A r \in Registers : reg'[r] \subseteq Bits[r]
        /\ addr' \in {NoAddress, DeviceAddress}
    <3> USE DEF TypeOK, Registers, Bits, InterruptBits, Interrupts
    <3>1. CASE HostActs
      BY <3>1 DEF HostActs, BusEvent, LineActivity, View
    <3>2. CASE StartOfFrame
      BY <3>2 DEF StartOfFrame, BusEvent, LineActivity, View
    <3>3. CASE HostResets
      BY <3>3 DEF HostResets, BusEvent, BusResetSeen, LineActivity, View
    <3>4. CASE HostIdles \/ PllLocks
      BY <3>4 DEF HostIdles, PllLocks, deviceVars
    <3>5. CASE SuspendDetected
      BY <3>5 DEF SuspendDetected, BusEvent, IdleDetected, View
    <3>6. CASE RemoteWakeupSent
      BY <3>6 DEF RemoteWakeupSent, LineActivity, View
    <3> QED
      BY <1>8, <3>1, <3>2, <3>3, <3>4, <3>5, <3>6 DEF BusStep
  <2>2. UNCHANGED <<endpoint0, dev, todo, copy, returned>>
    BY <1>8
       DEF BusStep, HostActs, StartOfFrame, HostResets, HostIdles, SuspendDetected,
           PllLocks,
                RemoteWakeupSent, BusEvent, callVars, deviceVars
  <2>3. link' \in {"none", "idle", "active"} /\ permits' \in BOOLEAN
    BY <1>8
       DEF BusStep, HostActs, StartOfFrame, HostResets, HostIdles, SuspendDetected,
           PllLocks,
                RemoteWakeupSent, busVars, TypeOK
  <2> QED
    BY <2>1, <2>2, <2>3 DEF TypeOK
<1>9. CASE UNCHANGED vars
  BY <1>9 DEF vars, deviceVars, callVars, busVars, TypeOK
<1> QED
  BY <1>1, <1>2, <1>3, <1>4, <1>5, <1>6, <1>7, <1>8, <1>9 DEF Next, Statement

\* They hold to begin with.
LEMMA TypeInit == Init => TypeInv
<1> SUFFICES ASSUME Init PROVE TypeInv
  OBVIOUS
<1>1. /\ todo \in Seq(Statements) /\ \A i \in DOMAIN todo : todo[i].bits \subseteq Bits[todo[i].reg]
  BY CallSorts, CallBits DEF Init
<1>2. DOMAIN reg = Registers /\ \A r \in Registers : reg[r] \subseteq Bits[r]
  BY DEF Init, Registers, Bits
<1>3. dev \in [state : DeviceStates, cfg : 0 .. FIXED_NUM_CONFIGURATIONS,
               initialized : BOOLEAN, wakeup : BOOLEAN]
  BY DEF Init, DeviceStates, FIXED_NUM_CONFIGURATIONS
<1> QED
  BY <1>1, <1>2, <1>3 DEF Init, TypeInv, TypeOK

\* Every variable stays in its set, whatever the order of statements, interrupts,
\* requests and bus events.
THEOREM TypeCorrect == Spec => []TypeOK
<1>1. Spec => []TypeInv
  BY TypeInit, TypeStep, PTL DEF Spec
<1>2. TypeInv => TypeOK
  BY DEF TypeInv
<1> QED
  BY <1>1, <1>2, PTL

(***************************************************************************)
(* USB_Disable.                                                            *)
(***************************************************************************)

\* What the first n statements of USB_Disable have switched off for good.
StoppedAfter(n) ==
  /\ n < 8 <=> dev.initialized
  /\ n >= 1 => reg.UDIEN = {}
  /\ n >= 4 => /\ "USBE" \notin reg.USBCON /\ "DETACH" \in reg.UDCON
               /\ endpoint0 = "none" /\ addr = NoAddress
  /\ n >= 5 => reg.PLLCSR = {}
  /\ n >= 6 => "REGDIS" \in reg.REGCR

\* No statement of t marks the interface as uninitialized.
NeverOff(t) == \A i \in DOMAIN t : t[i].does # "uninitialized"

\* The interface is switched off only by USB_Disable, and USB_Init starts it.
OffInv ==
  \/ \E n \in 0 .. 8 : todo = Rest(USB_Disable, n) /\ StoppedAfter(n)
  \/ \E n \in 0 .. 1 : todo = Rest(USB_Init, n)
  \/ dev.initialized /\ NeverOff(todo)

\* How far a call has come, and its next statement.
LEMMA DisableAt ==
  /\ \A n \in 0 .. 7 : /\ Rest(USB_Disable, n) # <<>>
                       /\ Head(Rest(USB_Disable, n)) = USB_Disable[n + 1]
                       /\ Tail(Rest(USB_Disable, n)) = Rest(USB_Disable, n + 1)
  /\ Rest(USB_Disable, 8) = <<>> /\ Rest(USB_Disable, 0) = USB_Disable
<1> DEFINE c == USB_Disable
<1>1. c \in Seq(Statements) /\ Len(c) = 8
  BY DisableCode
<1> HIDE DEF c
<1>2. \A n \in 0 .. 8 : n \in 0 .. Len(c) /\ (n = Len(c) <=> n = 8) /\ (n # 8 => n < Len(c))
  BY <1>1
<1>3. \A n \in 0 .. 8 :
        /\ Rest(c, 0) = c
        /\ Rest(c, n) = <<>> <=> n = 8
        /\ n # 8 => Head(Rest(c, n)) = c[n + 1] /\ Tail(Rest(c, n)) = Rest(c, n + 1)
  BY <1>1, <1>2, RestStep
<1>4. /\ \A n \in 0 .. 7 : /\ Rest(c, n) # <<>> /\ Head(Rest(c, n)) = c[n + 1]
                            /\ Tail(Rest(c, n)) = Rest(c, n + 1)
      /\ Rest(c, 8) = <<>> /\ Rest(c, 0) = c
  <2>1. \A n \in 0 .. 7 : n \in 0 .. 8 /\ n # 8
    OBVIOUS
  <2>2. 0 \in 0 .. 8 /\ 8 \in 0 .. 8
    OBVIOUS
  <2> QED
    BY <1>3, <2>1, <2>2, Zenon
<1> QED
  BY <1>4 DEF c

\* USB_Init, statement by statement (USBController.c:47), ...
LEMMA InitAt ==
  /\ \A n \in 0 .. 15 : /\ Rest(USB_Init, n) # <<>>
                       /\ Head(Rest(USB_Init, n)) = USB_Init[n + 1]
                       /\ Tail(Rest(USB_Init, n)) = Rest(USB_Init, n + 1)
  /\ Rest(USB_Init, 16) = <<>> /\ Rest(USB_Init, 0) = USB_Init
<1> DEFINE c == USB_Init
<1>1. c \in Seq(Statements) /\ Len(c) = 16
  BY InitCode
<1> HIDE DEF c
<1>2. \A n \in 0 .. 16 : n \in 0 .. Len(c) /\ (n = Len(c) <=> n = 16) /\ (n # 16 => n < Len(c))
  BY <1>1
<1>3. \A n \in 0 .. 16 :
        /\ Rest(c, 0) = c
        /\ Rest(c, n) = <<>> <=> n = 16
        /\ n # 16 => Head(Rest(c, n)) = c[n + 1] /\ Tail(Rest(c, n)) = Rest(c, n + 1)
  BY <1>1, <1>2, RestStep
<1>4. /\ \A n \in 0 .. 15 : /\ Rest(c, n) # <<>> /\ Head(Rest(c, n)) = c[n + 1]
                            /\ Tail(Rest(c, n)) = Rest(c, n + 1)
      /\ Rest(c, 16) = <<>> /\ Rest(c, 0) = c
  <2>1. \A n \in 0 .. 15 : n \in 0 .. 16 /\ n # 16
    OBVIOUS
  <2>2. 0 \in 0 .. 16 /\ 16 \in 0 .. 16
    OBVIOUS
  <2> QED
    BY <1>3, <2>1, <2>2, Zenon
<1> QED
  BY <1>4 DEF c

\* Between the second statement of USB_Init and its end.
LEMMA ResetAt ==
  /\ DOMAIN Rest(USB_Init, 2) = 1 .. 14
  /\ \A i \in 1 .. 14 : Rest(USB_Init, 2)[i] = USB_Init[2 + i]
<1> DEFINE c == USB_Init
<1>1. c \in Seq(Statements) /\ Len(c) = 16
  BY InitCode
<1> HIDE DEF c
<1>2. 2 \in 0 .. Len(c)
  BY <1>1
<1>3. /\ Rest(c, 2) \in Seq(Statements) /\ Len(Rest(c, 2)) = Len(c) - 2
      /\ \A i \in 1 .. Len(c) - 2 : Rest(c, 2)[i] = c[2 + i]
  BY <1>1, <1>2, RestAt
<1>4. DOMAIN Rest(c, 2) = 1 .. Len(c) - 2
  BY <1>3
<1>5. DOMAIN Rest(c, 2) = 1 .. 14 /\ \A i \in 1 .. 14 : Rest(c, 2)[i] = c[2 + i]
  BY <1>1, <1>3, <1>4
<1> QED
  BY <1>5 DEF c

\* ... and USB_Device_SendRemoteWakeup.
LEMMA WakeAt ==
  /\ \A n \in 0 .. 5 : /\ Rest(USB_Device_SendRemoteWakeup, n) # <<>>
                       /\ Head(Rest(USB_Device_SendRemoteWakeup, n))
                            = USB_Device_SendRemoteWakeup[n + 1]
                       /\ Tail(Rest(USB_Device_SendRemoteWakeup, n))
                            = Rest(USB_Device_SendRemoteWakeup, n + 1)
  /\ Rest(USB_Device_SendRemoteWakeup, 6) = <<>>
  /\ Rest(USB_Device_SendRemoteWakeup, 0) = USB_Device_SendRemoteWakeup
<1> DEFINE c == USB_Device_SendRemoteWakeup
<1>1. c \in Seq(Statements) /\ Len(c) = 6
  BY WakeCode
<1> HIDE DEF c
<1>2. \A n \in 0 .. 6 : n \in 0 .. Len(c) /\ (n = Len(c) <=> n = 6) /\ (n # 6 => n < Len(c))
  BY <1>1
<1>3. \A n \in 0 .. 6 :
        /\ Rest(c, 0) = c
        /\ Rest(c, n) = <<>> <=> n = 6
        /\ n # 6 => Head(Rest(c, n)) = c[n + 1] /\ Tail(Rest(c, n)) = Rest(c, n + 1)
  BY <1>1, <1>2, RestStep
<1>4. /\ \A n \in 0 .. 5 : /\ Rest(c, n) # <<>> /\ Head(Rest(c, n)) = c[n + 1]
                            /\ Tail(Rest(c, n)) = Rest(c, n + 1)
      /\ Rest(c, 6) = <<>> /\ Rest(c, 0) = c
  <2>1. \A n \in 0 .. 5 : n \in 0 .. 6 /\ n # 6
    OBVIOUS
  <2>2. 0 \in 0 .. 6 /\ 6 \in 0 .. 6
    OBVIOUS
  <2> QED
    BY <1>3, <2>1, <2>2, Zenon
<1> QED
  BY <1>4 DEF c

\* No call but USB_Disable ends with the interface uninitialized.
LEMMA CallsNeverOff ==
  /\ NeverOff(Rest(USB_Init, 2)) /\ NeverOff(USB_ResetInterface)
  /\ NeverOff(USB_Device_SendRemoteWakeup)
  /\ NeverOff(USB_Device_EnableSOFEvents) /\ NeverOff(USB_Device_DisableSOFEvents)
<1>0. \A r, b : /\ Put(r, b).does # "uninitialized" /\ SetBit(r, b).does # "uninitialized"
                /\ ClearBit(r, b).does # "uninitialized"
                /\ AwaitSet(r, b).does # "uninitialized"
                /\ AwaitClear(r, b).does # "uninitialized"
  BY DEF Put, SetBit, ClearBit, AwaitSet, AwaitClear
<1>1. \A n \in 3 .. 16 : USB_Init[n].does # "uninitialized"
  <2>1. /\ Other("globals").does # "uninitialized" /\ Other("configure").does # "uninitialized"
    BY DEF Other
  <2>2. \A n \in 3 .. 16 : \/ n = 3 \/ n = 4 \/ n = 5 \/ n = 6 \/ n = 7 \/ n = 8 \/ n = 9 \/ n = 10
                            \/ n = 11 \/ n = 12 \/ n = 13 \/ n = 14 \/ n = 15 \/ n = 16
    OBVIOUS
  <2> QED
    BY <1>0, <2>1, <2>2, InitCode
<1>2. NeverOff(Rest(USB_Init, 2))
  <2>1. \A i \in 1 .. 14 : 2 + i \in 3 .. 16
    OBVIOUS
  <2> QED
    BY <1>1, <2>1, ResetAt DEF NeverOff
<1>3. NeverOff(USB_Device_SendRemoteWakeup)
  <2> DEFINE c == USB_Device_SendRemoteWakeup
  <2>1. c \in Seq(Statements) /\ Len(c) = 6
    BY WakeCode
  <2>2. /\ c[1].does # "uninitialized" /\ c[2].does # "uninitialized"
        /\ c[3].does # "uninitialized" /\ c[4].does # "uninitialized"
        /\ c[5].does # "uninitialized" /\ c[6].does # "uninitialized"
    BY <1>0, WakeCode
  <2> HIDE DEF c
  <2>3. NeverOff(c)
    BY <2>1, <2>2 DEF NeverOff
  <2> QED
    BY <2>3 DEF c
<1>4. NeverOff(USB_Device_EnableSOFEvents) /\ NeverOff(USB_Device_DisableSOFEvents)
  BY FrameCode DEF NeverOff, SetBit, ClearBit
<1> QED
  BY <1>2, <1>3, <1>4, InitCode

\* The statement the main program executes: the register is read, or the statement ends.
LEMMA StatementStep ==
  ASSUME TypeInv, Statement
  PROVE  LET s == Head(todo)
         IN /\ todo # <<>> /\ s \in Statements /\ MainExecutes /\ returned' = FALSE
            /\ \/ /\ s.does \in {"set", "clear"} /\ copy = <<>> /\ copy' = <<reg[s.reg]>>
                  /\ UNCHANGED <<reg, addr, endpoint0, dev, todo, link, permits>>
               \/ /\ copy' = <<>> /\ todo' = Tail(todo)
                  /\ \/ s.does = "put" /\ Write(s.reg, s.bits) /\ dev' = dev
                     \/ /\ s.does = "set" /\ copy # <<>>
                        /\ Write(s.reg, copy[1] \cup s.bits) /\ dev' = dev
                     \/ /\ s.does = "clear" /\ copy # <<>>
                        /\ Write(s.reg, copy[1] \ s.bits) /\ dev' = dev
                     \/ /\ s.does = "await set" /\ s.bits \subseteq reg[s.reg]
                        /\ UNCHANGED <<reg, addr, endpoint0, dev, link, permits>>
                     \/ /\ s.does = "await clear" /\ s.bits \cap reg[s.reg] = {}
                        /\ UNCHANGED <<reg, addr, endpoint0, dev, link, permits>>
                     \/ /\ s.does = "globals"
                        /\ dev' = [dev EXCEPT !.state = "Unattached", !.cfg = 0, !.wakeup = FALSE]
                        /\ UNCHANGED <<reg, addr, endpoint0, link, permits>>
                     \/ /\ s.does = "configure" /\ endpoint0' = "configured"
                        /\ UNCHANGED <<reg, addr, dev, link, permits>>
                     \/ /\ s.does = "initialized" /\ dev' = [dev EXCEPT !.initialized = TRUE]
                        /\ UNCHANGED <<reg, addr, endpoint0, link, permits>>
                     \/ /\ s.does = "uninitialized" /\ dev' = [dev EXCEPT !.initialized = FALSE]
                        /\ UNCHANGED <<reg, addr, endpoint0, link, permits>>
<1>0. todo # <<>> => Head(todo) \in Statements
  BY HeadSort DEF TypeInv
<1>1. CASE PutRegister
  BY <1>0, <1>1 DEF PutRegister, Doing, Done, Operand
<1>2. CASE ReadRegister
  BY <1>0, <1>2 DEF ReadRegister, Doing, deviceVars, busVars
<1>3. CASE WriteBack
  BY <1>0, <1>3 DEF WriteBack, Doing, Done, Operand, TypeInv, TypeOK
<1>4. CASE Await
  BY <1>0, <1>4 DEF Await, Doing, Done, Operand, deviceVars, busVars
<1>5. CASE ResetGlobals
  BY <1>0, <1>5 DEF ResetGlobals, Doing, Done, busVars
<1>6. CASE ConfigureEndpoint0
  BY <1>0, <1>6 DEF ConfigureEndpoint0, Doing, Done, busVars
<1>7. CASE MarkInitialized
  BY <1>0, <1>7 DEF MarkInitialized, Doing, Done, busVars
<1> QED
  BY <1>1, <1>2, <1>3, <1>4, <1>5, <1>6, <1>7 DEF Statement

\* The same, by the kind of the statement.
Ends == todo' = Tail(todo) /\ copy' = <<>> /\ returned' = FALSE

Reads(r) == /\ copy = <<>> /\ copy' = <<reg[r]>> /\ returned' = FALSE
            /\ UNCHANGED <<reg, addr, endpoint0, dev, todo, link, permits>>

\* What a statement does, sort by sort: an assignment, ...
LEMMA PutStep ==
  ASSUME TypeInv, Statement, NEW r, NEW b, Head(todo) = Put(r, b)
  PROVE  r \in Registers /\ Write(r, b) /\ dev' = dev /\ Ends
<1> DEFINE s == Head(todo)
<1>1. s.does = "put" /\ s.reg = r /\ s.bits = b
  BY DEF Put
<1>2. s.reg \in Registers
  BY StatementStep, StatementBits
<1>3. returned' = FALSE
  BY StatementStep
<1>4. Write(s.reg, s.bits) /\ dev' = dev /\ copy' = <<>> /\ todo' = Tail(todo)
  BY <1>1, StatementStep
<1> HIDE DEF s
<1> QED
  BY <1>1, <1>2, <1>3, <1>4 DEF Ends

\* ... |=, a read and then a write, ...
LEMMA SetStep ==
  ASSUME TypeInv, Statement, NEW r, NEW b, Head(todo) = SetBit(r, b)
  PROVE  /\ r \in Registers
         /\ \/ Reads(r)
            \/ copy # <<>> /\ Write(r, copy[1] \cup {b}) /\ dev' = dev /\ Ends
<1> DEFINE s == Head(todo)
<1>1. s.does = "set" /\ s.reg = r /\ s.bits = {b}
  BY DEF SetBit
<1>2. s.reg \in Registers
  BY StatementStep, StatementBits
<1>3. returned' = FALSE
  BY StatementStep
<1>4. \/ /\ copy = <<>> /\ copy' = <<reg[s.reg]>>
         /\ UNCHANGED <<reg, addr, endpoint0, dev, todo, link, permits>>
      \/ /\ copy # <<>> /\ Write(s.reg, copy[1] \cup s.bits) /\ dev' = dev
         /\ copy' = <<>> /\ todo' = Tail(todo)
  BY <1>1, StatementStep
<1> HIDE DEF s
<1> QED
  BY <1>1, <1>2, <1>3, <1>4 DEF Ends, Reads

\* ... &= ~, in the same two steps, ...
LEMMA ClearStep ==
  ASSUME TypeInv, Statement, NEW r, NEW b, Head(todo) = ClearBit(r, b)
  PROVE  /\ r \in Registers
         /\ \/ Reads(r)
            \/ copy # <<>> /\ Write(r, copy[1] \ {b}) /\ dev' = dev /\ Ends
<1> DEFINE s == Head(todo)
<1>1. s.does = "clear" /\ s.reg = r /\ s.bits = {b}
  BY DEF ClearBit
<1>2. s.reg \in Registers
  BY StatementStep, StatementBits
<1>3. returned' = FALSE
  BY StatementStep
<1>4. \/ /\ copy = <<>> /\ copy' = <<reg[s.reg]>>
         /\ UNCHANGED <<reg, addr, endpoint0, dev, todo, link, permits>>
      \/ /\ copy # <<>> /\ Write(s.reg, copy[1] \ s.bits) /\ dev' = dev
         /\ copy' = <<>> /\ todo' = Tail(todo)
  BY <1>1, StatementStep
<1> HIDE DEF s
<1> QED
  BY <1>1, <1>2, <1>3, <1>4 DEF Ends, Reads

\* ... the loops that wait for a bit, ...
LEMMA AwaitStep ==
  ASSUME TypeInv, Statement, NEW r, NEW b
  PROVE  /\ Head(todo) = AwaitSet(r, b) =>
              b \in reg[r] /\ UNCHANGED <<reg, addr, endpoint0, dev, link, permits>> /\ Ends
         /\ Head(todo) = AwaitClear(r, b) =>
              b \notin reg[r] /\ UNCHANGED <<reg, addr, endpoint0, dev, link, permits>> /\ Ends
<1> DEFINE s == Head(todo)
<1>0. /\ AwaitSet(r, b).does = "await set" /\ AwaitClear(r, b).does = "await clear"
      /\ AwaitSet(r, b).reg = r /\ AwaitClear(r, b).reg = r
      /\ AwaitSet(r, b).bits = {b} /\ AwaitClear(r, b).bits = {b}
  BY DEF AwaitSet, AwaitClear
<1>1. CASE s = AwaitSet(r, b)
  <2>0. s # AwaitClear(r, b)
    BY <1>0, <1>1
  <2>1. s.does = "await set" /\ s.reg = r /\ s.bits = {b}
    BY <1>0, <1>1
  <2>2. /\ s.bits \subseteq reg[s.reg] /\ UNCHANGED <<reg, addr, endpoint0, dev, link, permits>>
        /\ copy' = <<>> /\ todo' = Tail(todo) /\ returned' = FALSE
    BY <2>1, StatementStep
  <2> HIDE DEF s
  <2>3. b \in reg[r]
    BY <2>1, <2>2
  <2> QED
    BY <2>0, <2>1, <2>2, <2>3 DEF Ends, s
<1>2. CASE s = AwaitClear(r, b)
  <2>0. s # AwaitSet(r, b)
    BY <1>0, <1>2
  <2>1. s.does = "await clear" /\ s.reg = r /\ s.bits = {b}
    BY <1>0, <1>2
  <2>2. /\ s.bits \cap reg[s.reg] = {} /\ UNCHANGED <<reg, addr, endpoint0, dev, link, permits>>
        /\ copy' = <<>> /\ todo' = Tail(todo) /\ returned' = FALSE
    BY <2>1, StatementStep
  <2> HIDE DEF s
  <2>3. b \notin reg[r]
    BY <2>1, <2>2
  <2> QED
    BY <2>0, <2>1, <2>2, <2>3 DEF Ends, s
<1> QED
  BY <1>1, <1>2

\* ... and what touches no register.
LEMMA OtherStep ==
  ASSUME TypeInv, Statement
  PROVE  /\ Head(todo) = Other("globals") =>
              /\ dev' = [dev EXCEPT !.state = "Unattached", !.cfg = 0, !.wakeup = FALSE]
              /\ UNCHANGED <<reg, addr, endpoint0, link, permits>> /\ Ends
         /\ Head(todo) = Other("configure") =>
              endpoint0' = "configured" /\ UNCHANGED <<reg, addr, dev, link, permits>> /\ Ends
         /\ Head(todo) = Other("initialized") =>
              /\ dev' = [dev EXCEPT !.initialized = TRUE]
              /\ UNCHANGED <<reg, addr, endpoint0, link, permits>> /\ Ends
         /\ Head(todo) = Other("uninitialized") =>
              /\ dev' = [dev EXCEPT !.initialized = FALSE]
              /\ UNCHANGED <<reg, addr, endpoint0, link, permits>> /\ Ends
<1> DEFINE s == Head(todo)
<1>1. \A what : s = Other(what) => s.does = what
  BY DEF Other
<1>2. returned' = FALSE
  BY StatementStep
<1>3. CASE s = Other("globals")
  <2>1. s.does = "globals"
    BY <1>1, <1>3
  <2> QED
    BY <1>1, <1>2, <1>3, <2>1, StatementStep DEF Ends
<1>4. CASE s = Other("configure")
  <2>1. s.does = "configure"
    BY <1>1, <1>4
  <2> QED
    BY <1>1, <1>2, <1>4, <2>1, StatementStep DEF Ends
<1>5. CASE s = Other("initialized")
  <2>1. s.does = "initialized"
    BY <1>1, <1>5
  <2> QED
    BY <1>1, <1>2, <1>5, <2>1, StatementStep DEF Ends
<1>6. CASE s = Other("uninitialized")
  <2>1. s.does = "uninitialized"
    BY <1>1, <1>6
  <2> QED
    BY <1>1, <1>2, <1>6, <2>1, StatementStep DEF Ends
<1> QED
  BY <1>3, <1>4, <1>5, <1>6

\* While USB_Disable runs: each statement, the interrupt and the bus keep what is off.
LEMMA DisableStep ==
  ASSUME TypeInv, NEW n \in 0 .. 7, todo = Rest(USB_Disable, n), StoppedAfter(n), Next
  PROVE  \E m \in 0 .. 8 : todo' = Rest(USB_Disable, m) /\ StoppedAfter(m)'
<1>1. /\ todo # <<>> /\ Head(todo) = USB_Disable[n + 1] /\ Tail(todo) = Rest(USB_Disable, n + 1)
  BY DisableAt
<1>2. DOMAIN reg = Registers
  BY DEF TypeInv, TypeOK
<1>3. CASE Statement
  <2> DEFINE s == Head(todo)
  <2>1. CASE n = 0 \/ n = 1 \/ n = 4
    <3>1. /\ n = 0 => s = Put("UDIEN", {})
          /\ n = 1 => s = Put("UDINT", {})
          /\ n = 4 => s = Put("PLLCSR", {})
      BY <1>1, DisableCode
    <3>2. /\ n = 0 => Write("UDIEN", {})
          /\ n = 1 => Write("UDINT", {})
          /\ n = 4 => Write("PLLCSR", {})
          /\ dev' = dev /\ todo' = Rest(USB_Disable, n + 1)
      BY <1>1, <1>3, <2>1, <3>1, PutStep DEF Ends
    <3>3. StoppedAfter(n + 1)'
      BY <1>2, <2>1, <3>2, WriteEffect DEF StoppedAfter, Registers
    <3> QED
      BY <3>2, <3>3
  <2>2. CASE n = 2 \/ n = 5
    <3>1. /\ n = 2 => s = SetBit("UDCON", "DETACH")
          /\ n = 5 => s = SetBit("REGCR", "REGDIS")
      BY <1>1, DisableCode
    <3>2. CASE Reads("UDCON") \/ Reads("REGCR")
      BY <3>2 DEF Reads, StoppedAfter
    <3>3. CASE ~(Reads("UDCON") \/ Reads("REGCR"))
      <4>1. /\ n = 2 => Write("UDCON", copy[1] \cup {"DETACH"})
            /\ n = 5 => Write("REGCR", copy[1] \cup {"REGDIS"})
            /\ dev' = dev /\ todo' = Rest(USB_Disable, n + 1)
        BY <1>1, <1>3, <2>2, <3>1, <3>3, SetStep DEF Ends
      <4>2. StoppedAfter(n + 1)'
        BY <1>2, <2>2, <4>1, WriteEffect DEF StoppedAfter, Registers
      <4> QED
        BY <4>1, <4>2
    <3> QED
      BY <3>2, <3>3
  <2>3. CASE n = 3
    <3>1. s = ClearBit("USBCON", "USBE")
      BY <1>1, <2>3, DisableCode
    <3>2. CASE Reads("USBCON")
      BY <3>2 DEF Reads, StoppedAfter
    <3>3. CASE ~Reads("USBCON")
      <4>1. /\ Write("USBCON", copy[1] \ {"USBE"})
            /\ dev' = dev /\ todo' = Rest(USB_Disable, n + 1)
        BY <1>1, <1>3, <3>1, <3>3, ClearStep DEF Ends
      <4>2. StoppedAfter(n + 1)'
        BY <1>2, <2>3, <4>1, WriteEffect DEF StoppedAfter, Registers
      <4> QED
        BY <4>1, <4>2
    <3> QED
      BY <3>2, <3>3
  <2>4. CASE n = 6 \/ n = 7
    <3>1. /\ n = 6 => s = Other("initialized")
          /\ n = 7 => s = Other("uninitialized")
      BY <1>1, DisableCode
    <3>2. /\ n = 6 => dev' = [dev EXCEPT !.initialized = TRUE]
          /\ n = 7 => dev' = [dev EXCEPT !.initialized = FALSE]
          /\ UNCHANGED <<reg, addr, endpoint0>> /\ todo' = Rest(USB_Disable, n + 1)
      BY <1>1, <1>3, <2>4, <3>1, OtherStep DEF Ends
    <3>3. StoppedAfter(n + 1)'
      BY <2>4, <3>2 DEF StoppedAfter, TypeInv, TypeOK
    <3> QED
      BY <3>2, <3>3
  <2> QED
    BY <2>1, <2>2, <2>3, <2>4
<1>4. CASE UsbGenISR
  <2>1. n = 0
    BY <1>4 DEF UsbGenISR, Pending, StoppedAfter
  <2>2. todo' = todo /\ dev'.initialized = dev.initialized
    BY <1>2, <1>4, IsrEffect DEF TypeInv, TypeOK
  <2>3. StoppedAfter(0)'
    BY <2>1, <2>2 DEF StoppedAfter
  <2> QED
    BY <2>1, <2>2, <2>3
<1>5. CASE HostRequest \/ BusStep
  <2>1. dev'.initialized = dev.initialized /\ todo' = todo /\ endpoint0' = endpoint0
    BY <1>5 DEF HostRequest, SetAddress, SetConfiguration, SetRemoteWakeup, BusStep,
                HostActs,
                StartOfFrame, HostResets, HostIdles, SuspendDetected, PllLocks, RemoteWakeupSent,
                BusEvent, deviceVars, callVars, busVars, TypeInv, TypeOK
  <2>2. /\ reg'.UDIEN = reg.UDIEN /\ reg'.USBCON = reg.USBCON /\ reg'.REGCR = reg.REGCR
        /\ reg'.PLLCSR = reg.PLLCSR \/ reg.PLLCSR = {"PLLE"}
        /\ Attached(reg) \/ (addr' = addr /\ reg'.UDCON = reg.UDCON)
    <3> USE <1>2 DEF Registers
    <3>1. CASE HostRequest
      BY <3>1 DEF HostRequest, SetAddress, SetConfiguration, SetRemoteWakeup, Reachable
    <3>2. CASE HostActs \/ StartOfFrame \/ HostResets \/ SuspendDetected
      BY <3>2 DEF HostActs, StartOfFrame, HostResets, SuspendDetected, BusEvent, Steady
    <3>3. CASE HostIdles
      BY <3>3 DEF HostIdles, deviceVars
    <3>4. CASE PllLocks
      BY <3>4 DEF PllLocks
    <3>5. CASE RemoteWakeupSent
      <4>1. PICK answered \in BOOLEAN :
              reg' = [reg EXCEPT !.UDCON = @ \ {"RMWKUP"},
                        !.UDINT = IF answered THEN LineActivity(View).int ELSE @]
        BY <3>5 DEF RemoteWakeupSent
      <4>2. /\ reg'.UDIEN = reg.UDIEN /\ reg'.USBCON = reg.USBCON /\ reg'.REGCR = reg.REGCR
            /\ reg'.PLLCSR = reg.PLLCSR
        BY <4>1
      <4>3. Attached(reg)
        BY <3>5 DEF RemoteWakeupSent
      <4> QED
        BY <4>2, <4>3
    <3> QED
      BY <1>5, <3>1, <3>2, <3>3, <3>4, <3>5 DEF BusStep
  <2>3. StoppedAfter(n)'
    BY <2>1, <2>2 DEF StoppedAfter, Attached
  <2> QED
    BY <2>1, <2>3
<1> QED
  BY <1>1, <1>3, <1>4, <1>5 DEF Next, AppCall, CallInit, CallReset, CallDisable,
     CallRemoteWakeup, CallSOFEvents, Call

\* Every step keeps what is off off.
LEMMA OffStep ==
  ASSUME TypeInv, OffInv, [Next]_vars
  PROVE  OffInv'
<1>1. CASE UNCHANGED vars
  BY <1>1 DEF OffInv, NeverOff, StoppedAfter, vars, deviceVars, callVars, busVars
<1>2. CASE Next /\ \E n \in 0 .. 7 : todo = Rest(USB_Disable, n) /\ StoppedAfter(n)
  BY <1>2, DisableStep DEF OffInv
<1>3. CASE Next /\ todo = Rest(USB_Disable, 8) /\ StoppedAfter(8)
  <2>1. todo = <<>> /\ ~dev.initialized
    BY <1>3, DisableAt DEF StoppedAfter, TypeInv, TypeOK
  <2>2. CASE AppCall
    <3>1. todo' = USB_Init
      BY <2>1, <2>2
         DEF AppCall, CallInit, CallReset, CallDisable, CallRemoteWakeup, CallSOFEvents,
                        Call
    <3>2. todo' = Rest(USB_Init, 0) /\ 0 \in 0 .. 1
      BY <3>1, InitAt
    <3> QED
      BY <3>2 DEF OffInv
  <2>3. CASE UsbGenISR
    BY <1>3, <2>3 DEF UsbGenISR, Pending, StoppedAfter
  <2>4. CASE HostRequest \/ BusStep
    <3>1. ~Attached(reg) /\ reg.PLLCSR = {}
      BY <1>3 DEF StoppedAfter, Attached
    <3>2. UNCHANGED <<reg, addr, endpoint0, dev, todo>>
      BY <2>4, <3>1 DEF HostRequest, SetAddress, SetConfiguration, SetRemoteWakeup,
                        BusStep,
           HostActs, Reachable, StartOfFrame, HostResets, HostIdles, SuspendDetected, PllLocks,
           RemoteWakeupSent, BusEvent, Steady, deviceVars, callVars
    <3> QED
      BY <1>3, <3>2 DEF OffInv, StoppedAfter
  <2> QED
    BY <1>3, <2>1, <2>2, <2>3, <2>4, StatementStep DEF Next
<1>4. CASE Next /\ \E n \in 0 .. 1 : todo = Rest(USB_Init, n)
  <2> PICK n \in 0 .. 1 : todo = Rest(USB_Init, n)
    BY <1>4
  <2>1. /\ todo # <<>> /\ Head(todo) = USB_Init[n + 1] /\ Tail(todo) = Rest(USB_Init, n + 1)
    <3>1. n \in 0 .. 15
      OBVIOUS
    <3> QED
      BY <3>1, InitAt
  <2>2. CASE todo' = todo
    BY <2>2 DEF OffInv
  <2>3. CASE todo' # todo
    <3>1. Statement /\ todo' = Tail(todo)
      <4>1. Statement
        BY <1>4, <2>1, <2>3
           DEF Next, AppCall, CallInit, CallReset, CallDisable, CallRemoteWakeup,
             CallSOFEvents, Call, UsbGenISR, HostRequest, SetAddress, SetConfiguration,
             SetRemoteWakeup, BusStep, HostActs, StartOfFrame, HostResets, HostIdles,
             SuspendDetected, PllLocks, RemoteWakeupSent, BusEvent, callVars
      <4> QED
        BY <2>3, <4>1, StatementStep
    <3>2. CASE n = 0
      BY <2>1, <3>1, <3>2 DEF OffInv
    <3>3. CASE n = 1
      <4>1. Head(todo) = Other("initialized")
        BY <2>1, <3>3, InitCode
      <4>2. dev' = [dev EXCEPT !.initialized = TRUE]
        BY <3>1, <4>1, OtherStep
      <4>3. dev'.initialized
        BY <4>2 DEF TypeInv, TypeOK
      <4>4. todo' = Rest(USB_Init, 2)
        BY <2>1, <3>1, <3>3
      <4>5. NeverOff(todo')
        BY <4>4, CallsNeverOff
      <4> QED
        BY <4>3, <4>5 DEF OffInv, NeverOff
    <3> QED
      BY <3>2, <3>3
  <2> QED
    BY <2>2, <2>3
<1>5. CASE Next /\ dev.initialized /\ NeverOff(todo)
  <2>1. CASE AppCall
    <3>1. dev' = dev
      BY <2>1
         DEF AppCall, CallInit, CallReset, CallDisable, CallRemoteWakeup, CallSOFEvents,
             Call,
                  deviceVars
    <3>2. todo' = USB_Init \/ todo' = USB_Disable \/ NeverOff(todo')
      BY <2>1, CallsNeverOff DEF AppCall, CallInit, CallReset, CallDisable,
                                 CallRemoteWakeup,
                  CallSOFEvents, Call
    <3>3. CASE todo' = USB_Init
      BY <3>3, InitAt DEF OffInv
    <3>4. CASE todo' = USB_Disable
      BY <1>5, <3>1, <3>4, DisableAt DEF OffInv, StoppedAfter
    <3>5. CASE NeverOff(todo')
      BY <1>5, <3>1, <3>5 DEF OffInv, NeverOff
    <3> QED
      BY <3>2, <3>3, <3>4, <3>5
  <2>2. CASE Statement
    <3>1. todo # <<>> /\ todo \in Seq(Statements)
      BY <2>2, StatementStep DEF TypeInv
    <3>2. Head(todo).does # "uninitialized" /\ NeverOff(Tail(todo))
      BY <1>5, <3>1 DEF NeverOff
    <3>3. dev'.initialized
      BY <1>5, <2>2, <3>2, StatementStep DEF TypeInv, TypeOK
    <3>4. todo' = todo \/ todo' = Tail(todo)
      BY <2>2, StatementStep
    <3> QED
      BY <1>5, <3>2, <3>3, <3>4 DEF OffInv, NeverOff
  <2>3. CASE UsbGenISR \/ HostRequest \/ BusStep
    <3>1. dev'.initialized = dev.initialized /\ todo' = todo
      BY <2>3
         DEF UsbGenISR, HostRequest, SetAddress, SetConfiguration, SetRemoteWakeup,
             BusStep,
                HostActs, StartOfFrame, HostResets, HostIdles, SuspendDetected, PllLocks,
                RemoteWakeupSent, BusEvent, deviceVars, callVars, busVars, TypeInv, TypeOK
    <3> QED
      BY <1>5, <3>1 DEF OffInv, NeverOff
  <2> QED
    BY <1>5, <2>1, <2>2, <2>3 DEF Next
<1> QED
  BY <1>1, <1>2, <1>3, <1>4, <1>5 DEF OffInv

\* Whatever interrupts, requests and bus events come while USB_Disable runs, nothing
\* of the interface is left running when it returns, and nothing starts it again
\* but USB_Init (USBController.c:57-76).
THEOREM AlwaysOffMeansOff == Spec => []OffMeansOff
<1>1. Init => OffInv
  BY InitAt DEF Init, OffInv
<1>2. TypeInv /\ OffInv => OffMeansOff
  <2> SUFFICES ASSUME TypeInv, OffInv, ~dev.initialized, todo = <<>>
               PROVE  StoppedAfter(8)
    BY DEF OffMeansOff, StoppedAfter
  <2>1. \A n \in 0 .. 8 : Rest(USB_Disable, n) = <<>> => n = 8
    <3>1. \A n \in 0 .. 8 : n = 8 \/ n \in 0 .. 7
      OBVIOUS
    <3> QED
      BY <3>1, DisableAt
  <2>2. \A n \in 0 .. 1 : Rest(USB_Init, n) # <<>>
    <3>1. \A n \in 0 .. 1 : n \in 0 .. 15
      OBVIOUS
    <3> QED
      BY <3>1, InitAt
  <2> QED
    BY <2>1, <2>2 DEF OffInv
<1>3. TypeInv /\ OffInv /\ [Next]_vars => TypeInv' /\ OffInv'
  BY TypeStep, OffStep
<1> QED
  BY <1>1, <1>2, <1>3, TypeInit, PTL DEF Spec

(***************************************************************************)
(* The clock of an interface that is switched on.                          *)
(***************************************************************************)
Frozen == "FRZCLK" \in reg.USBCON

\* The device slept when the library last looked, after a reset was served.
Slept == endpoint0 = "listening" /\ dev.state = "Unattached"
Asleep == Frozen \/ Slept

\* A suspend and what ends it are never flagged together.
LinesApart == ~({"SUSPI", "WAKEUPI"} \subseteq reg.UDINT)

LinkFollows == link = "none" <=> ~Attached(reg)

\* The registers of an attached interface outside USB_ResetInterface and
\* USB_Disable: whatever the interrupt left, it can be told of a wake-up.
Managed ==
  /\ dev.initialized /\ Attached(reg)
  /\ "EORSTI" \in reg.UDIEN
  /\ "SUSPI" \in reg.UDIEN \/ "WAKEUPI" \in reg.UDIEN
  /\ Asleep => "WAKEUPI" \in reg.UDIEN \/ SuspDue
  /\ ~("SUSPI" \in reg.UDINT /\ "EORSTI" \in reg.UDINT)
  /\ dev.wakeup => endpoint0 = "listening"
  /\ Slept /\ link = "idle" => "SUSPI" \in reg.UDINT
  /\ Slept /\ returned => ~SuspDue

ClockFed == Frozen \/ "PLOCK" \in reg.PLLCSR

\* USB_Init and USB_ResetInterface, after n statements.
StartedAfter(n) ==
  /\ n >= 2 => dev.initialized
  /\ n \in 3 .. 13 => reg.UDIEN = {}
  /\ n >= 3 => copy = <<>> \/ copy = <<reg[Head(todo).reg]>>
  /\ n >= 5 => reg.UDCON = {"DETACH"} /\ reg.UDINT = {}
  /\ n >= 6 => "USBE" \in reg.USBCON
  /\ n >= 7 => ~Frozen
  /\ n >= 10 => "PLOCK" \in reg.PLLCSR
  /\ n >= 11 => ~dev.wakeup
  /\ n >= 12 => endpoint0 = "configured"
  /\ n >= 14 => "SUSPI" \in reg.UDIEN
  /\ n >= 15 => "EORSTI" \in reg.UDIEN

\* USB_Device_SendRemoteWakeup, after n statements: no suspend can be detected.
WakingAfter(n) ==
  /\ link = "active" \/ "SUSPI" \in reg.UDINT
  /\ n >= 1 \/ returned => ~SuspDue
  /\ n >= 3 => "PLOCK" \in reg.PLLCSR
  /\ n >= 4 => ~Frozen
  /\ n <= 4 => "RMWKUP" \notin reg.UDCON
  /\ n = 3 /\ copy # <<>> => "USBE" \in copy[1]
  /\ n = 4 /\ copy # <<>> => "DETACH" \notin copy[1]

\* The statement of USB_Device_EnableSOFEvents or DisableSOFEvents: UDIEN was read,
\* and is what it was unless the interrupt came, after which the bus is patient.
Switching ==
  copy # <<>> =>
    /\ ~returned => copy[1] = reg.UDIEN
    /\ "EORSTI" \in copy[1] /\ ("SUSPI" \in copy[1] \/ "WAKEUPI" \in copy[1])
    /\ Asleep => "WAKEUPI" \in copy[1] \/ "SUSPI" \in reg.UDINT

\* Where the main program is: switched off, starting, stopping, running or waking the host.
Off == todo = <<>> /\ ~dev.initialized
Starting == \E n \in 0 .. 15 : todo = Rest(USB_Init, n) /\ StartedAfter(n)
Stopping == \E n \in 0 .. 7 : todo = Rest(USB_Disable, n)
Running ==
  /\ Managed /\ ClockFed /\ "RMWKUP" \notin reg.UDCON
  /\ \/ todo = <<>> /\ copy = <<>>
     \/ todo = USB_Device_EnableSOFEvents /\ Switching
     \/ todo = USB_Device_DisableSOFEvents /\ Switching
WakingHost ==
  /\ Managed
  /\ \E n \in 0 .. 5 : todo = Rest(USB_Device_SendRemoteWakeup, n) /\ WakingAfter(n)

ClockInv ==
  /\ LinesApart /\ LinkFollows
  /\ Off \/ Starting \/ Stopping \/ Running \/ WakingHost

\* A request of the host, and what it leaves alone.
LEMMA RequestEffect ==
  ASSUME TypeInv, HostRequest
  PROVE  /\ UNCHANGED <<reg, endpoint0, todo, copy, returned, link>>
         /\ Attached(reg) /\ ~Pending /\ endpoint0 = "listening"
         /\ dev'.initialized = dev.initialized
         /\ dev'.state = "Unattached" => dev.state = "Unattached"
<1>1. dev \in [state : DeviceStates, cfg : 0 .. FIXED_NUM_CONFIGURATIONS,
               initialized : BOOLEAN, wakeup : BOOLEAN]
  BY DEF TypeInv, TypeOK
<1>2. CASE SetAddress
  BY <1>1, <1>2 DEF SetAddress, Reachable, callVars, busVars
<1>3. CASE \E number \in Configurations : SetConfiguration(number)
  BY <1>1, <1>3 DEF SetConfiguration, Reachable, callVars, busVars, StateFromConfiguration
<1>4. CASE \E allowed \in BOOLEAN : SetRemoteWakeup(allowed)
  BY <1>1, <1>4 DEF SetRemoteWakeup, Reachable, callVars, busVars
<1> QED
  BY <1>2, <1>3, <1>4 DEF HostRequest

\* The steps of the bus and the PLL, by what they make of the registers.
OthersActs ==
  /\ Attached(reg) /\ ~Pending /\ (PatientBus => copy = <<>> \/ ~returned)
  /\ "SUSPI" \notin reg'.UDINT /\ "WAKEUPI" \in reg'.UDINT
  /\ reg'.UDCON = reg.UDCON /\ reg'.PLLCSR = reg.PLLCSR /\ link' = "active"
OthersIdle ==
  /\ link = "active" /\ "WAKEUPI" \in reg.UDINT /\ ~Pending /\ todo = <<>>
  /\ reg' = reg /\ link' = "idle"
OthersSuspend ==
  /\ Attached(reg) /\ ~Pending /\ (PatientBus => copy = <<>> \/ ~returned)
  /\ link = "idle" /\ link' = "idle" /\ "FRZCLK" \notin reg.USBCON /\ "SUSPI" \notin reg.UDINT
  /\ reg'.UDINT = (reg.UDINT \ {"WAKEUPI"}) \cup {"SUSPI"}
  /\ reg'.UDCON = reg.UDCON /\ reg'.PLLCSR = reg.PLLCSR
OthersLock ==
  /\ reg.PLLCSR = {"PLLE"} /\ reg'.PLLCSR = {"PLLE", "PLOCK"}
  /\ reg'.UDCON = reg.UDCON /\ reg'.UDINT = reg.UDINT /\ link' = link
OthersSent ==
  /\ "RMWKUP" \in reg.UDCON /\ Attached(reg) /\ reg'.UDCON = reg.UDCON \ {"RMWKUP"}
  /\ reg'.PLLCSR = reg.PLLCSR
  /\ \/ reg'.UDINT = reg.UDINT /\ link' = link
     \/ "SUSPI" \notin reg'.UDINT /\ "WAKEUPI" \in reg'.UDINT /\ link' = "active"

\* What the bus does to the registers, case by case.
LEMMA BusEffect ==
  ASSUME TypeInv, BusStep
  PROVE  /\ UNCHANGED <<endpoint0, dev, todo, copy, returned>>
         /\ DOMAIN reg' = Registers
         /\ reg'.USBCON = reg.USBCON /\ reg'.UDIEN = reg.UDIEN /\ reg'.REGCR = reg.REGCR
         /\ OthersActs \/ OthersIdle \/ OthersSuspend \/ OthersLock \/ OthersSent
<1>0. DOMAIN reg = Registers
  BY DEF TypeInv, TypeOK
<1> USE <1>0 DEF Registers
<1>1. CASE HostActs
  <2>1. /\ reg' = [reg EXCEPT !.UDINT = (reg.UDINT \ {"SUSPI"}) \cup {"WAKEUPI"}]
        /\ UNCHANGED <<endpoint0, dev, todo, copy, returned>> /\ link' = "active" /\ Steady
    BY <1>1 DEF HostActs, BusEvent, LineActivity, View, callVars
  <2> QED
    BY <2>1 DEF OthersActs, Steady
<1>2. CASE StartOfFrame
  <2>1. /\ reg' = [reg EXCEPT !.UDINT = ((reg.UDINT \ {"SUSPI"}) \cup {"WAKEUPI"}) \cup {"SOFI"}]
        /\ UNCHANGED <<endpoint0, dev, todo, copy, returned>> /\ link' = "active" /\ Steady
    BY <1>2 DEF StartOfFrame, BusEvent, LineActivity, View, callVars, busVars
  <2> QED
    BY <2>1 DEF OthersActs, Steady
<1>3. CASE HostResets
  <2>1. /\ reg' = [reg EXCEPT !.UDINT = ((reg.UDINT \ {"SUSPI"}) \cup {"WAKEUPI"}) \cup {"EORSTI"}]
        /\ UNCHANGED <<endpoint0, dev, todo, copy, returned>> /\ link' = "active" /\ Steady
    BY <1>3 DEF HostResets, BusEvent, BusResetSeen, LineActivity, View, callVars
  <2> QED
    BY <2>1 DEF OthersActs, Steady
<1>4. CASE HostIdles
  BY <1>4 DEF HostIdles, OthersIdle, deviceVars, callVars
<1>5. CASE SuspendDetected
  <2>1. /\ reg' = [reg EXCEPT !.UDINT = (reg.UDINT \ {"WAKEUPI"}) \cup {"SUSPI"}]
        /\ UNCHANGED <<endpoint0, dev, todo, copy, returned>> /\ link = "idle" /\ link' = "idle"
        /\ Steady /\ ClockRuns /\ "SUSPI" \notin reg.UDINT
    BY <1>5 DEF SuspendDetected, BusEvent, IdleDetected, View, callVars, busVars
  <2> QED
    BY <2>1 DEF OthersSuspend, Steady, ClockRuns
<1>6. CASE PllLocks
  BY <1>6 DEF PllLocks, OthersLock, callVars, busVars
<1>7. CASE RemoteWakeupSent
  <2>1. PICK answered \in BOOLEAN :
          /\ reg' = [reg EXCEPT !.UDCON = @ \ {"RMWKUP"},
                       !.UDINT = IF answered THEN LineActivity(View).int ELSE @]
          /\ link' = IF answered THEN "active" ELSE link
    BY <1>7 DEF RemoteWakeupSent
  <2>2. LineActivity(View).int = (reg.UDINT \ {"SUSPI"}) \cup {"WAKEUPI"}
    BY DEF LineActivity, View
  <2>3. /\ UNCHANGED <<endpoint0, dev, todo, copy, returned>>
        /\ "RMWKUP" \in reg.UDCON /\ Attached(reg)
    BY <1>7 DEF RemoteWakeupSent, callVars
  <2> QED
    BY <2>1, <2>2, <2>3 DEF OthersSent
<1> QED
  BY <1>1, <1>2, <1>3, <1>4, <1>5, <1>6, <1>7 DEF BusStep

\* No step raises a suspend and a wake-up together, and the link is up with the pull-up.
LEMMA LinesStep ==
  ASSUME TypeInv, LinesApart, LinkFollows, Next
  PROVE  LinesApart' /\ LinkFollows'
<1>0. DOMAIN reg = Registers /\ link \in {"none", "idle", "active"}
  BY DEF TypeInv, TypeOK
<1>1. CASE AppCall
  BY <1>1 DEF AppCall, CallInit, CallReset, CallDisable, CallRemoteWakeup, CallSOFEvents,
              Call,
              LinesApart, LinkFollows, deviceVars, busVars
<1>2. CASE Statement
  <2>1. CASE UNCHANGED <<reg, link>>
    BY <2>1 DEF LinesApart, LinkFollows
  <2>2. CASE ~UNCHANGED <<reg, link>>
    <3>1. PICK r \in Registers : \E b : Write(r, b)
      BY <1>2, <2>2, StatementStep, StatementBits
    <3> PICK b : Write(r, b)
      BY <3>1
    <3>2. reg'.UDINT \subseteq reg.UDINT
      BY <1>0, <3>1, WriteEffect
    <3>3. link' = IF ~Attached(reg') THEN "none" ELSE IF link = "none" THEN "idle" ELSE link
      BY <1>0, <3>1, WriteEffect
    <3> QED
      BY <1>0, <3>2, <3>3 DEF LinesApart, LinkFollows
  <2> QED
    BY <2>1, <2>2
<1>3. CASE UsbGenISR
  <2>1. reg'.UDINT \subseteq reg.UDINT /\ link' = link /\ reg'.UDCON = reg.UDCON
    BY <1>0, <1>3, IsrEffect DEF WakeCleared, SofServed
  <2>2. "USBE" \in reg'.USBCON <=> "USBE" \in reg.USBCON
    BY <1>0, <1>3, IsrEffect
  <2> QED
    BY <2>1, <2>2 DEF LinesApart, LinkFollows, Attached
<1>4. CASE HostRequest
  BY <1>4, RequestEffect DEF LinesApart, LinkFollows
<1>5. CASE BusStep
  BY <1>5, BusEffect
     DEF LinesApart, LinkFollows, Attached, OthersActs, OthersIdle, OthersSuspend,
                         OthersLock, OthersSent
<1> QED
  BY <1>1, <1>2, <1>3, <1>4, <1>5 DEF Next

\* The interrupt leaves a managed interface managed, with no suspend due.
LEMMA IsrManaged ==
  ASSUME TypeInv, LinesApart, Managed, UsbGenISR
  PROVE  /\ Managed' /\ ~SuspDue'
         /\ "SUSPI" \in reg.UDINT => "SUSPI" \in reg'.UDINT \/ RstDue
         /\ Asleep' => Asleep \/ (SuspDue /\ ~RstDue)
         /\ SuspDue => ~RstDue
         /\ RstDue => ~Slept'
<1>1. DOMAIN reg = Registers
  BY DEF TypeInv, TypeOK
<1>2. /\ dev'.initialized = dev.initialized /\ dev'.wakeup = dev.wakeup
      /\ dev'.state = AfterReset.state
  BY <1>1, IsrEffect DEF TypeInv, TypeOK
<1>3. /\ "SUSPI" \in reg'.UDINT <=> "SUSPI" \in reg.UDINT /\ ~RstDue
      /\ "EORSTI" \in reg'.UDINT <=> "EORSTI" \in reg.UDINT /\ ~RstDue
  BY <1>1, IsrEffect DEF WakeCleared, SofServed
<1>4. /\ "SUSPI" \in reg'.UDIEN <=>
           ~RstDue /\ (WakeFollows \/ (~SuspDue /\ "SUSPI" \in reg.UDIEN))
      /\ "WAKEUPI" \in reg'.UDIEN <=>
           RstDue \/ (~WakeFollows /\ (SuspDue \/ "WAKEUPI" \in reg.UDIEN))
      /\ "EORSTI" \in reg'.UDIEN <=> "EORSTI" \in reg.UDIEN
  BY <1>1, IsrEffect DEF WakeServed, SuspendServed
<1>5. Frozen' <=> ~WakeFollows /\ (SuspDue \/ Frozen)
  BY <1>1, IsrEffect DEF Frozen
<1>6. Slept' => ~RstDue /\ ~WakeFollows /\ (SuspDue \/ Slept)
  BY <1>1, <1>2, IsrEffect, ServedParts DEF Slept
<1>7. endpoint0' = "listening" \/ endpoint0' = endpoint0
  BY <1>1, IsrEffect
<1>8. Attached(reg')
  <2>1. "USBE" \in reg'.USBCON <=> "USBE" \in reg.USBCON
    BY <1>1, IsrEffect
  <2>2. reg'.UDCON = reg.UDCON
    BY <1>1, IsrEffect
  <2> QED
    BY <2>1, <2>2 DEF Managed, Attached
<1>9. ~SuspDue'
  BY <1>3, <1>4 DEF SuspDue, WakeFollows, LinesApart
<1>10. SuspDue => ~RstDue
  BY DEF SuspDue, RstDue, Managed
<1>11. link' = link
  BY <1>1, IsrEffect
<1>12. Slept' /\ link' = "idle" => "SUSPI" \in reg'.UDINT
  BY <1>3, <1>6, <1>11 DEF Managed, SuspDue
<1>13. Asleep' => "WAKEUPI" \in reg'.UDIEN \/ SuspDue'
  BY <1>4, <1>5, <1>6 DEF Managed, Asleep, SuspDue
<1>14. "SUSPI" \in reg'.UDIEN \/ "WAKEUPI" \in reg'.UDIEN
  BY <1>4 DEF Managed
<1>15. Managed'
  BY <1>2, <1>3, <1>4, <1>7, <1>8, <1>9, <1>12, <1>13, <1>14, IsrEffect DEF Managed
<1> QED
  BY <1>3, <1>5, <1>6, <1>9, <1>10, <1>15 DEF Asleep, SuspDue

\* A request of the host does not disturb the clock.
LEMMA RequestManaged ==
  ASSUME TypeInv, Managed, HostRequest
  PROVE  Managed' /\ (Asleep' => Asleep)
<1>1. Frozen' <=> Frozen
  BY RequestEffect DEF Frozen
<1>2. Slept' => Slept
  BY RequestEffect DEF Slept
<1>3. SuspDue' <=> SuspDue
  BY RequestEffect DEF SuspDue
<1>4. /\ UNCHANGED <<reg, endpoint0, todo, copy, returned, link>>
      /\ Attached(reg) /\ endpoint0 = "listening" /\ dev'.initialized = dev.initialized
  BY RequestEffect
<1>5. Asleep' => Asleep
  BY <1>1, <1>2 DEF Asleep
<1>6. Attached(reg')
  BY <1>4
<1>7. Managed'
  BY <1>2, <1>3, <1>4, <1>5, <1>6 DEF Managed
<1> QED
  BY <1>5, <1>7

\* Nor does the bus, while remote wake-up is not under way.
LEMMA BusManaged ==
  ASSUME TypeInv, Managed, BusStep, "RMWKUP" \in reg.UDCON => ~SuspDue
  PROVE  /\ Managed' /\ (Asleep' <=> Asleep)
         /\ OthersActs \/ OthersSent => (SuspDue' => SuspDue)
<1>1. (Frozen' <=> Frozen) /\ (Slept' <=> Slept)
  BY BusEffect DEF Frozen, Slept
<1>2. /\ Attached(reg')
  BY BusEffect
     DEF Managed, Attached, OthersActs, OthersIdle, OthersSuspend, OthersLock, OthersSent
<1>3. CASE OthersActs
  <2>1. ~SuspDue'
    BY <1>3 DEF OthersActs, SuspDue
  <2>2. Asleep => "WAKEUPI" \in reg.UDIEN
    BY <1>3 DEF OthersActs, Managed, SuspDue, Pending
  <2> QED
    BY <1>1, <1>2, <1>3, <2>1, <2>2, BusEffect DEF OthersActs, Managed, Asleep
<1>4. CASE OthersIdle
  <2>1. ~Slept
    BY <1>4 DEF OthersIdle, Managed, Asleep, SuspDue, Pending
  <2>2. SuspDue' <=> SuspDue
    BY <1>4 DEF OthersIdle, SuspDue
  <2> QED
    BY <1>1, <1>2, <1>4, <2>1, <2>2, BusEffect
       DEF OthersIdle, Managed, Asleep, OthersActs, OthersSent
<1>5. CASE OthersSuspend
  <2>1. ~Slept /\ ~Frozen
    BY <1>5 DEF OthersSuspend, Managed, Frozen
  <2>2. "EORSTI" \notin reg'.UDINT
    BY <1>5 DEF OthersSuspend, Managed, Pending
  <2> QED
    BY <1>1, <1>2, <1>5, <2>1, <2>2, BusEffect
       DEF OthersSuspend, Managed, Asleep, OthersActs, OthersSent
<1>6. CASE OthersLock
  <2>1. SuspDue' <=> SuspDue
    BY <1>6, BusEffect DEF OthersLock, SuspDue
  <2> QED
    BY <1>1, <1>2, <1>6, <2>1, BusEffect
       DEF OthersLock, Managed, Asleep, OthersActs, OthersSent
<1>7. CASE OthersSent
  <2>1. ~SuspDue' /\ ~SuspDue
    BY <1>7, BusEffect DEF OthersSent, SuspDue
  <2> QED
    BY <1>1, <1>2, <1>7, <2>1, BusEffect DEF OthersSent, Managed, Asleep
<1> QED
  BY <1>3, <1>4, <1>5, <1>6, <1>7, BusEffect

\* Switched off, nothing but USB_Init happens.
LEMMA OffOrInit ==
  ASSUME TypeInv, OffInv, Off, Next
  PROVE  Off' \/ Starting'
<1>1. StoppedAfter(8)
  <2>1. \A n \in 0 .. 8 : Rest(USB_Disable, n) = <<>> => n = 8
    <3>1. \A n \in 0 .. 8 : n = 8 \/ n \in 0 .. 7
      OBVIOUS
    <3> QED
      BY <3>1, DisableAt
  <2>2. \A n \in 0 .. 1 : Rest(USB_Init, n) # <<>>
    <3>1. \A n \in 0 .. 1 : n \in 0 .. 15
      OBVIOUS
    <3> QED
      BY <3>1, InitAt
  <2> QED
    BY <2>1, <2>2 DEF OffInv, Off
<1>2. CASE AppCall
  <2>1. todo' = USB_Init
    BY <1>2
       DEF Off, AppCall, CallInit, CallReset, CallDisable, CallRemoteWakeup,
           CallSOFEvents, Call
  <2>2. todo' = Rest(USB_Init, 0)
    BY <2>1, InitAt
  <2>3. StartedAfter(0)'
    BY DEF StartedAfter
  <2> QED
    BY <2>2, <2>3 DEF Starting
<1>3. CASE UsbGenISR
  BY <1>1, <1>3 DEF UsbGenISR, Pending, StoppedAfter
<1>4. CASE HostRequest
  BY <1>1, <1>4, RequestEffect DEF StoppedAfter, Attached
<1>5. CASE BusStep
  BY <1>5, BusEffect DEF Off
<1>6. CASE Statement
  BY <1>6, StatementStep DEF Off
<1> QED
  BY <1>2, <1>3, <1>4, <1>5, <1>6 DEF Next

\* USB_Disable goes on to its end (the order of its statements is DisableStep).
LEMMA StoppingStep ==
  ASSUME TypeInv, Stopping, Next
  PROVE  Stopping' \/ Off'
<1> PICK n \in 0 .. 7 : todo = Rest(USB_Disable, n)
  BY DEF Stopping
<1>1. /\ todo # <<>> /\ Head(todo) = USB_Disable[n + 1] /\ Tail(todo) = Rest(USB_Disable, n + 1)
  BY DisableAt
<1>2. CASE todo' = todo
  BY <1>2 DEF Stopping
<1>3. CASE todo' # todo
  <2>1. Statement
    BY <1>1, <1>3, RequestEffect, BusEffect
       DEF Next, AppCall, CallInit, CallReset, CallDisable,
      CallRemoteWakeup, CallSOFEvents, Call, UsbGenISR
  <2>2. todo' = Rest(USB_Disable, n + 1)
    BY <1>1, <1>3, <2>1, StatementStep
  <2>3. CASE n # 7
    <3>1. n + 1 \in 0 .. 7
      BY <2>3
    <3> QED
      BY <2>2, <3>1 DEF Stopping
  <2>4. CASE n = 7
    <3>1. Head(todo) = Other("uninitialized")
      BY <1>1, <2>4, DisableCode
    <3>2. dev' = [dev EXCEPT !.initialized = FALSE]
      BY <2>1, <3>1, OtherStep
    <3>3. todo' = <<>>
      BY <2>2, <2>4, DisableAt
    <3> QED
      BY <3>2, <3>3 DEF Off, TypeInv, TypeOK
  <2> QED
    BY <2>3, <2>4
<1> QED
  BY <1>2, <1>3

\* While USB_Init or USB_ResetInterface runs: interrupts, requests and the bus.
LEMMA StartingOthers ==
  ASSUME TypeInv, LinkFollows, NEW n \in 0 .. 15, todo = Rest(USB_Init, n), StartedAfter(n),
         UsbGenISR \/ HostRequest \/ BusStep
  PROVE  todo' = todo /\ StartedAfter(n)'
<1>1. DOMAIN reg = Registers
  BY DEF TypeInv, TypeOK
<1>2. /\ todo # <<>> /\ Head(todo) = USB_Init[n + 1]
  BY InitAt
<1>3. copy # <<>> => Head(todo).reg # "PLLCSR" /\ (n = 3 => FALSE)
  <2>1. Put("UDINT", {}).does = "put" /\ Put("PLLCSR", {}).does = "put"
        /\ Put("PLLCSR", {"PLLE"}).does = "put" /\ AwaitSet("PLLCSR", "PLOCK").does = "await set"
    BY DEF Put, AwaitSet
  <2>2. /\ \A r, b : SetBit(r, b).reg = r /\ ClearBit(r, b).reg = r /\ Put(r, b).reg = r
        /\ \A what : Other(what).reg = "UDCON"
    BY DEF SetBit, ClearBit, Put, Other
  <2>3. copy # <<>> => Head(todo).does \in {"set", "clear"}
    BY DEF TypeInv, TypeOK
  <2>4. /\ n = 3 => Head(todo) = Put("UDINT", {})
        /\ n = 7 => Head(todo) = Put("PLLCSR", {})
        /\ n = 8 => Head(todo) = Put("PLLCSR", {"PLLE"})
        /\ n = 9 => Head(todo) = AwaitSet("PLLCSR", "PLOCK")
    BY <1>2, InitCode
  <2>5. /\ n = 0 => Head(todo) = ClearBit("REGCR", "REGDIS")
        /\ n = 1 => Head(todo) = Other("initialized")
        /\ n = 2 => Head(todo) = Put("UDIEN", {})
        /\ n = 4 => Head(todo) = ClearBit("USBCON", "USBE")
        /\ n = 5 => Head(todo) = SetBit("USBCON", "USBE")
        /\ n = 6 => Head(todo) = ClearBit("USBCON", "FRZCLK")
    BY <1>2, InitCode
  <2>6. /\ n = 10 => Head(todo) = Other("globals")
        /\ n = 11 => Head(todo) = Other("configure")
        /\ n = 12 => Head(todo) = ClearBit("UDINT", "SUSPI")
        /\ n = 13 => Head(todo) = SetBit("UDIEN", "SUSPI")
        /\ n = 14 => Head(todo) = SetBit("UDIEN", "EORSTI")
        /\ n = 15 => Head(todo) = ClearBit("UDCON", "DETACH")
    BY <1>2, InitCode
  <2>7. CASE n = 3 \/ n = 7 \/ n = 8 \/ n = 9
    <3>1. Head(todo).does # "set" /\ Head(todo).does # "clear"
      BY <2>1, <2>4, <2>7
    <3> QED
      BY <2>3, <3>1
  <2>8. CASE n = 0 \/ n = 1 \/ n = 2 \/ n = 4 \/ n = 5 \/ n = 6
    BY <2>2, <2>5, <2>8
  <2>9. CASE n = 10 \/ n = 11 \/ n = 12 \/ n = 13 \/ n = 14 \/ n = 15
    BY <2>2, <2>6, <2>9
  <2> QED
    BY <2>7, <2>8, <2>9
<1>4. CASE UsbGenISR
  <2>1. n < 3
    BY <1>4 DEF UsbGenISR, Pending, StartedAfter
  <2>2. todo' = todo /\ dev'.initialized = dev.initialized
    BY <1>1, <1>4, IsrEffect DEF TypeInv, TypeOK
  <2> QED
    BY <2>1, <2>2 DEF StartedAfter
<1>5. CASE HostRequest
  <2>1. ~(n >= 5)
    BY <1>5, RequestEffect DEF StartedAfter, Attached
  <2> QED
    BY <1>5, <2>1, RequestEffect DEF StartedAfter
<1>6. CASE BusStep
  <2>1. n >= 5 => ~Attached(reg) /\ link = "none"
    BY DEF StartedAfter, Attached, LinkFollows
  <2>2. n >= 5 => reg'.UDCON = reg.UDCON /\ reg'.UDINT = reg.UDINT
    BY <1>6, <2>1, BusEffect DEF OthersActs, OthersIdle, OthersSuspend, OthersLock,
                                 OthersSent
  <2>3. "PLOCK" \in reg.PLLCSR => "PLOCK" \in reg'.PLLCSR
    BY <1>6, BusEffect DEF OthersActs, OthersIdle, OthersSuspend, OthersLock, OthersSent
  <2>4. copy # <<>> /\ n >= 3 => copy' = <<reg'[Head(todo').reg]>>
    <3> SUFFICES ASSUME copy # <<>>, n >= 3
                 PROVE  reg'[Head(todo).reg] = reg[Head(todo).reg]
      BY <1>6, BusEffect DEF StartedAfter
    <3>1. Head(todo).reg \in Registers
      BY <1>2, HeadSort DEF TypeInv
    <3>2. CASE n >= 5
      BY <1>3, <1>6, <2>2, <3>1, <3>2, BusEffect DEF Registers
    <3>3. CASE n = 4
      <4>1. Head(todo).reg = "USBCON"
        BY <1>2, <3>3, InitCode DEF ClearBit
      <4> QED
        BY <1>6, <4>1, BusEffect
    <3> QED
      BY <1>3, <3>2, <3>3
  <2> QED
    BY <1>6, <2>2, <2>3, <2>4, BusEffect DEF StartedAfter, Frozen
<1> QED
  BY <1>4, <1>5, <1>6

\* While USB_Init or USB_ResetInterface runs: the statements.
LEMMA StartingStatement ==
  ASSUME TypeInv, LinkFollows, NEW n \in 0 .. 15, todo = Rest(USB_Init, n), StartedAfter(n),
         Statement
  PROVE  \/ todo' = todo /\ StartedAfter(n)'
         \/ todo' = Rest(USB_Init, n + 1) /\ n < 15 /\ StartedAfter(n + 1)'
         \/ Running'
<1>1. DOMAIN reg = Registers
  BY DEF TypeInv, TypeOK
<1>2. /\ todo # <<>> /\ Head(todo) = USB_Init[n + 1] /\ Tail(todo) = Rest(USB_Init, n + 1)
  BY InitAt
<1> DEFINE s == Head(todo)
<1>3. ASSUME NEW r, Reads(r), s.reg = r
      PROVE  todo' = todo /\ StartedAfter(n)'
  BY <1>3 DEF Reads, StartedAfter, Frozen
<1>4. \A r, b : SetBit(r, b).reg = r /\ ClearBit(r, b).reg = r
  BY DEF SetBit, ClearBit
<1>5. CASE n = 0
  <2>1. s = ClearBit("REGCR", "REGDIS")
    BY <1>2, <1>5, InitCode
  <2>2. CASE Reads("REGCR")
    BY <1>3, <1>4, <2>1, <2>2
  <2>3. CASE ~Reads("REGCR")
    <3>1. Ends
      BY <2>1, <2>3, ClearStep
    <3>2. todo' = Rest(USB_Init, n + 1)
      BY <1>2, <3>1 DEF Ends
    <3>3. StartedAfter(n + 1)'
      BY <1>5 DEF StartedAfter
    <3> QED
      BY <1>5, <3>2, <3>3
  <2> QED
    BY <2>2, <2>3
<1>6. CASE n = 1
  <2>1. s = Other("initialized")
    BY <1>2, <1>6, InitCode
  <2>2. dev' = [dev EXCEPT !.initialized = TRUE] /\ Ends
    BY <2>1, OtherStep
  <2>3. dev'.initialized
    BY <2>2 DEF TypeInv, TypeOK
  <2> QED
    BY <1>2, <1>6, <2>2, <2>3 DEF Ends, StartedAfter
<1>7. CASE n = 2 \/ n = 3
  <2>1. (n = 2 => s = Put("UDIEN", {})) /\ (n = 3 => s = Put("UDINT", {}))
    BY <1>2, <1>7, InitCode
  <2>2. (n = 2 => Write("UDIEN", {})) /\ (n = 3 => Write("UDINT", {})) /\ dev' = dev /\ Ends
    BY <1>7, <2>1, PutStep
  <2>3. reg'.UDIEN = {}
    BY <1>1, <1>7, <2>2, WriteEffect DEF StartedAfter, Registers
  <2>4. StartedAfter(n + 1)'
    BY <1>7, <2>2, <2>3 DEF Ends, StartedAfter
  <2> QED
    BY <1>2, <1>7, <2>2, <2>4 DEF Ends
<1>8. CASE n = 4
  <2>1. s = ClearBit("USBCON", "USBE")
    BY <1>2, <1>8, InitCode
  <2>2. CASE Reads("USBCON")
    BY <1>3, <1>4, <2>1, <2>2
  <2>3. CASE ~Reads("USBCON")
    <3>1. Write("USBCON", copy[1] \ {"USBE"}) /\ dev' = dev /\ Ends
      BY <2>1, <2>3, ClearStep
    <3>2. StartedAfter(n + 1)'
      BY <1>1, <1>8, <3>1, WriteEffect DEF Ends, StartedAfter, Registers
    <3> QED
      BY <1>2, <1>8, <3>1, <3>2 DEF Ends
  <2> QED
    BY <2>2, <2>3
<1>9. CASE n = 5
  <2>1. s = SetBit("USBCON", "USBE")
    BY <1>2, <1>9, InitCode
  <2>2. CASE Reads("USBCON")
    BY <1>3, <1>4, <2>1, <2>2
  <2>3. CASE ~Reads("USBCON")
    <3>1. Write("USBCON", copy[1] \cup {"USBE"}) /\ dev' = dev /\ Ends
      BY <2>1, <2>3, SetStep
    <3>2. StartedAfter(n + 1)'
      BY <1>1, <1>9, <3>1, WriteEffect DEF Ends, StartedAfter, Registers
    <3> QED
      BY <1>2, <1>9, <3>1, <3>2 DEF Ends
  <2> QED
    BY <2>2, <2>3
<1>10. CASE n = 6
  <2>1. s = ClearBit("USBCON", "FRZCLK")
    BY <1>2, <1>10, InitCode
  <2>2. CASE Reads("USBCON")
    BY <1>3, <1>4, <2>1, <2>2
  <2>3. CASE ~Reads("USBCON")
    <3>1. Write("USBCON", copy[1] \ {"FRZCLK"}) /\ dev' = dev /\ Ends /\ copy # <<>>
      BY <2>1, <2>3, ClearStep
    <3>2. "USBE" \in copy[1]
      BY <1>4, <1>10, <2>1, <3>1 DEF StartedAfter
    <3>3. StartedAfter(n + 1)'
      BY <1>1, <1>10, <3>1, <3>2, WriteEffect DEF Ends, StartedAfter, Registers, Frozen
    <3> QED
      BY <1>2, <1>10, <3>1, <3>3 DEF Ends
  <2> QED
    BY <2>2, <2>3
<1>11. CASE n = 7 \/ n = 8
  <2>1. (n = 7 => s = Put("PLLCSR", {})) /\ (n = 8 => s = Put("PLLCSR", {"PLLE"}))
    BY <1>2, <1>11, InitCode
  <2>2. /\ n = 7 => Write("PLLCSR", {})
        /\ n = 8 => Write("PLLCSR", {"PLLE"})
        /\ dev' = dev /\ Ends
    BY <1>11, <2>1, PutStep
  <2>3. StartedAfter(n + 1)'
    BY <1>1, <1>11, <2>2, WriteEffect DEF Ends, StartedAfter, Registers, Frozen
  <2> QED
    BY <1>2, <1>11, <2>2, <2>3 DEF Ends
<1>12. CASE n = 9
  <2>1. s = AwaitSet("PLLCSR", "PLOCK")
    BY <1>2, <1>12, InitCode
  <2>2. "PLOCK" \in reg.PLLCSR /\ UNCHANGED <<reg, addr, endpoint0, dev, link, permits>> /\ Ends
    BY <2>1, AwaitStep
  <2>3. StartedAfter(n + 1)'
    BY <1>12, <2>2 DEF Ends, StartedAfter, Frozen
  <2> QED
    BY <1>2, <1>12, <2>2, <2>3 DEF Ends
<1>13. CASE n = 10 \/ n = 11
  <2>1. (n = 10 => s = Other("globals")) /\ (n = 11 => s = Other("configure"))
    BY <1>2, <1>13, InitCode
  <2>2. /\ n = 10 => dev' = [dev EXCEPT !.state = "Unattached", !.cfg = 0, !.wakeup = FALSE]
        /\ n = 11 => dev' = dev /\ endpoint0' = "configured"
        /\ reg' = reg /\ Ends
    BY <1>13, <2>1, OtherStep
  <2>3. dev'.initialized = dev.initialized /\ ~dev'.wakeup
    <3>1. dev \in [state : DeviceStates, cfg : 0 .. FIXED_NUM_CONFIGURATIONS,
                   initialized : BOOLEAN, wakeup : BOOLEAN]
      BY DEF TypeInv, TypeOK
    <3>2. CASE n = 10
      BY <2>2, <3>1, <3>2
    <3>3. CASE n = 11
      BY <2>2, <3>3 DEF StartedAfter
    <3> QED
      BY <1>13, <3>2, <3>3
  <2>4. StartedAfter(n + 1)'
    BY <1>13, <2>2, <2>3 DEF Ends, StartedAfter, Frozen
  <2> QED
    BY <1>2, <1>13, <2>2, <2>4 DEF Ends
<1>14. CASE n = 12
  <2>1. s = ClearBit("UDINT", "SUSPI")
    BY <1>2, <1>14, InitCode
  <2>2. CASE Reads("UDINT")
    BY <1>3, <1>4, <2>1, <2>2
  <2>3. CASE ~Reads("UDINT")
    <3>1. Write("UDINT", copy[1] \ {"SUSPI"}) /\ dev' = dev /\ Ends
      BY <2>1, <2>3, ClearStep
    <3>2. StartedAfter(n + 1)'
      BY <1>1, <1>14, <3>1, WriteEffect DEF Ends, StartedAfter, Registers, Frozen
    <3> QED
      BY <1>2, <1>14, <3>1, <3>2 DEF Ends
  <2> QED
    BY <2>2, <2>3
<1>15. CASE n = 13 \/ n = 14
  <2>1. (n = 13 => s = SetBit("UDIEN", "SUSPI")) /\ (n = 14 => s = SetBit("UDIEN", "EORSTI"))
    BY <1>2, <1>15, InitCode
  <2>2. CASE Reads("UDIEN")
    BY <1>3, <1>4, <1>15, <2>1, <2>2
  <2>3. CASE ~Reads("UDIEN")
    <3>1. /\ n = 13 => Write("UDIEN", copy[1] \cup {"SUSPI"})
          /\ n = 14 => Write("UDIEN", copy[1] \cup {"EORSTI"})
          /\ dev' = dev /\ Ends /\ copy # <<>>
      BY <1>15, <2>1, <2>3, SetStep
    <3>2. copy[1] = reg.UDIEN
      BY <1>4, <1>15, <2>1, <3>1 DEF StartedAfter
    <3>3. StartedAfter(n + 1)'
      BY <1>1, <1>15, <3>1, <3>2, WriteEffect DEF Ends, StartedAfter, Registers, Frozen
    <3> QED
      BY <1>2, <1>15, <3>1, <3>3 DEF Ends
  <2> QED
    BY <2>2, <2>3
<1>16. CASE n = 15
  <2>1. s = ClearBit("UDCON", "DETACH")
    BY <1>2, <1>16, InitCode
  <2>2. CASE Reads("UDCON")
    BY <1>3, <1>4, <2>1, <2>2
  <2>3. CASE ~Reads("UDCON")
    <3>1. Write("UDCON", copy[1] \ {"DETACH"}) /\ dev' = dev /\ Ends /\ copy # <<>>
      BY <2>1, <2>3, ClearStep
    <3>2. copy[1] = {"DETACH"}
      BY <1>4, <1>16, <2>1, <3>1 DEF StartedAfter
    <3>3. /\ reg'.UDCON = {} /\ reg'.USBCON = reg.USBCON /\ reg'.PLLCSR = reg.PLLCSR
          /\ reg'.UDIEN = reg.UDIEN /\ reg'.UDINT = {} /\ endpoint0' = endpoint0
      BY <1>1, <1>16, <3>1, <3>2, WriteEffect DEF StartedAfter, Registers
    <3>4. Managed' /\ ClockFed'
      BY <1>16, <3>1, <3>3
         DEF StartedAfter, Managed, ClockFed, Attached, Asleep, Slept, Frozen, SuspDue
    <3>5. todo' = <<>> /\ copy' = <<>>
      <4>1. todo' = Rest(USB_Init, n + 1) /\ copy' = <<>>
        BY <1>2, <3>1 DEF Ends
      <4>2. n + 1 = 16
        BY <1>16
      <4> QED
        BY <4>1, <4>2, InitAt
    <3> QED
      BY <3>3, <3>4, <3>5 DEF Running
  <2> QED
    BY <2>2, <2>3
<1>17. \/ n = 0 \/ n = 1 \/ n = 2 \/ n = 3 \/ n = 4 \/ n = 5 \/ n = 6 \/ n = 7 \/ n = 8
       \/ n = 9 \/ n = 10 \/ n = 11 \/ n = 12 \/ n = 13 \/ n = 14 \/ n = 15
  OBVIOUS
<1> QED
  BY <1>5, <1>6, <1>7, <1>8, <1>9, <1>10, <1>11, <1>12, <1>13, <1>14, <1>15, <1>16, <1>17

\* An interface that runs, between calls or while the frame events are switched.
LEMMA RunningCall ==
  ASSUME TypeInv, LinkFollows, Running, AppCall
  PROVE  Running' \/ Starting' \/ Stopping' \/ WakingHost'
<1>1. /\ todo = <<>> /\ copy = <<>>
      /\ UNCHANGED <<reg, addr, endpoint0, dev, copy, returned, link, permits>>
  BY FrameCode
     DEF AppCall, CallInit, CallReset, CallDisable, CallRemoteWakeup, CallSOFEvents, Call,
         deviceVars, busVars, Running
<1>2. CASE CallInit
  <2>1. todo' = Rest(USB_Init, 0)
    BY <1>2, InitAt DEF CallInit, Call
  <2>2. StartedAfter(0)'
    BY DEF StartedAfter
  <2> QED
    BY <2>1, <2>2 DEF Starting
<1>3. CASE CallReset
  <2>1. todo' = Rest(USB_Init, 2) /\ dev.initialized
    BY <1>3, InitCode DEF CallReset, Call
  <2>2. StartedAfter(2)'
    BY <1>1, <2>1 DEF StartedAfter
  <2> QED
    BY <2>1, <2>2 DEF Starting
<1>4. CASE CallDisable
  <2>1. todo' = Rest(USB_Disable, 0)
    BY <1>4, DisableAt DEF CallDisable, Call
  <2> QED
    BY <2>1 DEF Stopping
<1>5. CASE CallRemoteWakeup
  <2>1. /\ todo' = Rest(USB_Device_SendRemoteWakeup, 0) /\ dev.wakeup /\ dev.state = "Unattached"
    BY <1>5, WakeAt DEF CallRemoteWakeup, Call
  <2>2. Slept /\ (link = "active" \/ "SUSPI" \in reg.UDINT)
    BY <2>1 DEF Running, Managed, Slept, LinkFollows, TypeInv, TypeOK
  <2>3. WakingAfter(0)'
    BY <1>1, <2>2 DEF WakingAfter, Running, Managed, SuspDue
  <2>4. Managed'
    BY <1>1 DEF Running, Managed, Attached, Asleep, Slept, Frozen, SuspDue
  <2> QED
    BY <2>1, <2>3, <2>4 DEF WakingHost
<1>6. CASE CallSOFEvents
  <2>1. todo' = USB_Device_EnableSOFEvents \/ todo' = USB_Device_DisableSOFEvents
    BY <1>6 DEF CallSOFEvents, Call
  <2>2. Managed' /\ ClockFed' /\ "RMWKUP" \notin reg'.UDCON
    BY <1>1 DEF Running, Managed, Attached, Asleep, Slept, Frozen, SuspDue, ClockFed
  <2>3. Switching'
    BY <1>1 DEF Switching
  <2> QED
    BY <2>1, <2>2, <2>3 DEF Running
<1> QED
  BY <1>2, <1>3, <1>4, <1>5, <1>6 DEF AppCall

\* A running interface keeps running through a switch of the frame events.
LEMMA RunningStatement ==
  ASSUME TypeInv, LinkFollows, Running, Statement
  PROVE  Running'
<1>1. DOMAIN reg = Registers
  BY DEF TypeInv, TypeOK
<1>2. /\ todo # <<>> /\ Switching
      /\ \/ todo = USB_Device_EnableSOFEvents /\ Head(todo) = SetBit("UDIEN", "SOFI")
         \/ todo = USB_Device_DisableSOFEvents /\ Head(todo) = ClearBit("UDIEN", "SOFI")
      /\ Tail(todo) = <<>>
  <2>1. todo # <<>>
    BY StatementStep
  <2>2. todo = USB_Device_EnableSOFEvents \/ todo = USB_Device_DisableSOFEvents
    BY <2>1 DEF Running
  <2>3. Switching
    BY <2>1 DEF Running
  <2>4. \A x : Head(<<x>>) = x /\ Tail(<<x>>) = <<>>
    OBVIOUS
  <2>5. /\ Head(USB_Device_EnableSOFEvents) = SetBit("UDIEN", "SOFI")
        /\ Tail(USB_Device_EnableSOFEvents) = <<>>
        /\ Head(USB_Device_DisableSOFEvents) = ClearBit("UDIEN", "SOFI")
        /\ Tail(USB_Device_DisableSOFEvents) = <<>>
    BY <2>4, FrameCode
  <2> QED
    BY <2>1, <2>2, <2>3, <2>5
<1>3. CASE Reads("UDIEN")
  <2>1. Managed' /\ ClockFed' /\ "RMWKUP" \notin reg'.UDCON
    BY <1>3 DEF Reads, Running, Managed, Attached, Asleep, Slept, Frozen, SuspDue,
                ClockFed
  <2>2. Switching'
    BY <1>3 DEF Reads, Running, Managed, Switching, Asleep, Slept, Frozen, SuspDue
  <2> QED
    BY <1>2, <1>3, <2>1, <2>2 DEF Reads, Running
<1>4. CASE ~Reads("UDIEN")
  <2>1. PICK b : /\ Write("UDIEN", b) /\ dev' = dev /\ Ends /\ copy # <<>>
                 /\ b = copy[1] \cup {"SOFI"} \/ b = copy[1] \ {"SOFI"}
    BY <1>2, <1>4, SetStep, ClearStep
  <2>2. /\ reg'.UDIEN = b /\ reg'.USBCON = reg.USBCON /\ reg'.UDCON = reg.UDCON
        /\ reg'.UDINT = reg.UDINT /\ reg'.PLLCSR = reg.PLLCSR /\ endpoint0' = endpoint0
    BY <1>1, <2>1, WriteEffect DEF Registers
  <2>3. Attached(reg') /\ link' = link
    <3>1. Attached(reg')
      BY <2>2 DEF Running, Managed, Attached
    <3>2. link' = link \/ (link = "none" /\ link' = "idle")
      BY <1>1, <2>1, <3>1, WriteEffect DEF Registers
    <3> QED
      BY <3>1, <3>2 DEF LinkFollows, Running, Managed
  <2> QED
    BY <1>2, <2>1, <2>2, <2>3
  DEF Running, Managed, Switching, Ends, Asleep, Slept, Frozen, SuspDue, ClockFed
<1> QED
  BY <1>3, <1>4

\* The interrupt, the host and the bus, while an interface runs.
LEMMA RunningOthers ==
  ASSUME PatientBus, TypeInv, LinesApart, LinkFollows, Running, UsbGenISR \/ HostRequest \/ BusStep
  PROVE  Running'
<1>1. DOMAIN reg = Registers
  BY DEF TypeInv, TypeOK
<1>2. CASE UsbGenISR
  <2>1. Managed' /\ todo' = todo /\ copy' = copy /\ returned' = TRUE /\ reg'.UDCON = reg.UDCON
    BY <1>1, <1>2, IsrManaged, IsrEffect DEF Running
  <2>2. ClockFed'
    BY <1>1, <1>2, IsrEffect DEF Running, ClockFed, Frozen
  <2>3. Switching => Switching'
    <3> SUFFICES ASSUME Switching, copy # <<>>
                 PROVE  Switching'
      BY <2>1 DEF Switching
    <3>1. Asleep' => "WAKEUPI" \in copy[1] \/ "SUSPI" \in reg'.UDINT
      <4> SUFFICES ASSUME Asleep', "WAKEUPI" \notin copy[1]
                   PROVE  "SUSPI" \in reg'.UDINT
        OBVIOUS
      <4>1. "SUSPI" \in reg.UDINT
        BY <1>2, IsrManaged DEF Running, Switching, SuspDue
      <4>2. ~RstDue
        BY <4>1 DEF Running, Managed, RstDue
      <4> QED
        BY <1>2, <4>1, <4>2, IsrManaged DEF Running
    <3> QED
      BY <2>1, <3>1 DEF Switching
  <2> QED
    BY <2>1, <2>2, <2>3 DEF Running
<1>3. CASE HostRequest
  <2>1. Managed' /\ (Asleep' => Asleep)
    BY <1>3, RequestManaged DEF Running
  <2>2. Switching => Switching'
    BY <1>3, <2>1, RequestEffect DEF Switching
  <2> QED
    BY <1>3, <2>1, <2>2, RequestEffect DEF Running, ClockFed, Frozen
<1>4. CASE BusStep
  <2>1. Managed' /\ (Asleep' <=> Asleep)
    BY <1>4, BusManaged DEF Running
  <2>2. ClockFed' /\ "RMWKUP" \notin reg'.UDCON
    BY <1>4, BusEffect DEF Running, ClockFed, Frozen, OthersActs, OthersIdle,
                           OthersSuspend,
                           OthersLock, OthersSent
  <2>3. Switching => Switching'
    <3> SUFFICES ASSUME Switching, copy # <<>>
                 PROVE  Switching'
      BY <1>4, BusEffect DEF Switching
    <3>1. Asleep => "WAKEUPI" \in copy[1] \/ "SUSPI" \in reg'.UDINT
      <4> SUFFICES ASSUME Asleep, "WAKEUPI" \notin copy[1]
                   PROVE  "SUSPI" \in reg'.UDINT
        OBVIOUS
      <4>1. "SUSPI" \in reg.UDINT /\ "SUSPI" \in copy[1]
        BY DEF Switching
      <4>2. ~OthersActs
        BY <4>1 DEF OthersActs, Switching, Pending
      <4> QED
        BY <1>4, <4>1, <4>2, BusEffect
           DEF Running, OthersIdle, OthersSuspend, OthersLock, OthersSent
    <3> QED
      BY <1>4, <2>1, <3>1, BusEffect DEF Switching
  <2> QED
    BY <1>4, <2>1, <2>2, <2>3, BusEffect DEF Running
<1> QED
  BY <1>2, <1>3, <1>4

\* While the interface signals a remote wake-up: the statements.
LEMMA WakingStatement ==
  ASSUME TypeInv, LinkFollows, Managed, NEW n \in 0 .. 5,
         todo = Rest(USB_Device_SendRemoteWakeup, n), WakingAfter(n), Statement
  PROVE  \/ Managed' /\ todo' = todo /\ WakingAfter(n)'
         \/ /\ Managed' /\ todo' = Rest(USB_Device_SendRemoteWakeup, n + 1) /\ n < 5
            /\ WakingAfter(n + 1)'
         \/ Running'
<1>1. DOMAIN reg = Registers
  BY DEF TypeInv, TypeOK
<1>2. /\ todo # <<>> /\ Head(todo) = USB_Device_SendRemoteWakeup[n + 1]
      /\ Tail(todo) = Rest(USB_Device_SendRemoteWakeup, n + 1)
  BY WakeAt
<1> DEFINE s == Head(todo)
<1>3. ~SuspDue
  BY StatementStep DEF MainExecutes, Pending, SuspDue, WakingAfter
<1>4. link # "none"
  BY DEF LinkFollows, Managed
<1>5. CASE n = 0 \/ n = 1
  <2>1. (n = 0 => s = Put("PLLCSR", {})) /\ (n = 1 => s = Put("PLLCSR", {"PLLE"}))
    BY <1>2, <1>5, WakeCode
  <2>2. PICK b : Write("PLLCSR", b) /\ dev' = dev /\ Ends
    BY <1>5, <2>1, PutStep
  <2>3. /\ reg'.UDIEN = reg.UDIEN /\ reg'.USBCON = reg.USBCON /\ reg'.UDCON = reg.UDCON
        /\ reg'.UDINT = reg.UDINT /\ endpoint0' = endpoint0
    BY <1>1, <2>2, WriteEffect DEF Registers
  <2>4. Attached(reg') /\ link' = link
    <3>1. Attached(reg')
      BY <2>3 DEF Managed, Attached
    <3> QED
      BY <1>1, <1>4, <2>2, <3>1, WriteEffect DEF Registers
  <2>5. Managed'
    BY <2>2, <2>3, <2>4 DEF Managed, Ends, Asleep, Slept, Frozen, SuspDue
  <2>6. WakingAfter(n + 1)'
    BY <1>3, <1>5, <2>2, <2>3, <2>4 DEF WakingAfter, Ends, SuspDue, Frozen
  <2> QED
    BY <1>2, <1>5, <2>2, <2>5, <2>6 DEF Ends
<1>6. CASE n = 2 \/ n = 5
  <2>1. /\ n = 2 => s = AwaitSet("PLLCSR", "PLOCK")
        /\ n = 5 => s = AwaitClear("UDCON", "RMWKUP")
    BY <1>2, <1>6, WakeCode
  <2>2. /\ n = 2 => "PLOCK" \in reg.PLLCSR
        /\ n = 5 => "RMWKUP" \notin reg.UDCON
        /\ UNCHANGED <<reg, addr, endpoint0, dev, link, permits>> /\ Ends
    BY <1>6, <2>1, AwaitStep
  <2>3. Managed'
    BY <2>2 DEF Managed, Attached, Ends, Asleep, Slept, Frozen, SuspDue
  <2>4. CASE n = 2
    <3>1. WakingAfter(n + 1)'
      BY <1>3, <2>2, <2>4 DEF WakingAfter, Ends, SuspDue, Frozen
    <3> QED
      BY <1>2, <2>2, <2>3, <2>4, <3>1 DEF Ends
  <2>5. CASE n = 5
    <3>1. todo' = <<>> /\ copy' = <<>>
      <4>1. todo' = Rest(USB_Device_SendRemoteWakeup, n + 1) /\ copy' = <<>>
        BY <1>2, <2>2 DEF Ends
      <4>2. n + 1 = 6
        BY <2>5
      <4> QED
        BY <4>1, <4>2, WakeAt
    <3>2. ClockFed' /\ "RMWKUP" \notin reg'.UDCON
      BY <2>2, <2>5 DEF WakingAfter, ClockFed
    <3> QED
      BY <2>3, <3>1, <3>2 DEF Running
  <2> QED
    BY <1>6, <2>4, <2>5
<1>7. CASE n = 3 \/ n = 4
  <2> DEFINE r == IF n = 3 THEN "USBCON" ELSE "UDCON"
  <2>1. /\ n = 3 => s = ClearBit("USBCON", "FRZCLK")
        /\ n = 4 => s = SetBit("UDCON", "RMWKUP")
    BY <1>2, <1>7, WakeCode
  <2>2. CASE Reads(r)
    <3>1. /\ reg' = reg /\ copy' = <<reg[r]>> /\ returned' = FALSE
          /\ UNCHANGED <<endpoint0, dev, todo, link>>
      BY <2>2 DEF Reads
    <3>2. Managed'
      BY <3>1 DEF Managed, Attached, Asleep, Slept, Frozen, SuspDue
    <3>3. WakingAfter(n)'
      BY <1>3, <1>7, <3>1 DEF WakingAfter, Managed, Attached, SuspDue, Frozen
    <3> QED
      BY <3>1, <3>2, <3>3
  <2>3. CASE ~Reads(r) /\ n = 3
    <3>1. Write("USBCON", copy[1] \ {"FRZCLK"}) /\ dev' = dev /\ Ends /\ "USBE" \in copy[1]
      BY <2>1, <2>3, ClearStep DEF WakingAfter
    <3>2. /\ reg'.UDIEN = reg.UDIEN /\ reg'.USBCON = copy[1] \ {"FRZCLK"} /\ reg'.UDCON = reg.UDCON
          /\ reg'.UDINT = reg.UDINT /\ endpoint0' = endpoint0 /\ reg'.PLLCSR = reg.PLLCSR
      BY <1>1, <3>1, WriteEffect DEF Registers
    <3>3. Attached(reg') /\ link' = link
      <4>1. Attached(reg')
        BY <3>1, <3>2 DEF Managed, Attached
      <4> QED
        BY <1>1, <1>4, <3>1, <4>1, WriteEffect DEF Registers
    <3>4. Managed'
      BY <3>1, <3>2, <3>3 DEF Managed, Ends, Asleep, Slept, Frozen, SuspDue
    <3>5. WakingAfter(n + 1)'
      BY <1>3, <2>3, <3>1, <3>2, <3>3 DEF WakingAfter, Ends, SuspDue, Frozen
    <3> QED
      BY <1>2, <2>3, <3>1, <3>4, <3>5 DEF Ends
  <2>4. CASE ~Reads(r) /\ n = 4
    <3>1. Write("UDCON", copy[1] \cup {"RMWKUP"}) /\ dev' = dev /\ Ends /\ "DETACH" \notin copy[1]
      BY <2>1, <2>4, SetStep DEF WakingAfter
    <3>2. /\ reg'.UDIEN = reg.UDIEN /\ reg'.UDCON = copy[1] \cup {"RMWKUP"}
          /\ reg'.USBCON = reg.USBCON
          /\ reg'.UDINT = reg.UDINT /\ endpoint0' = endpoint0 /\ reg'.PLLCSR = reg.PLLCSR
      BY <1>1, <3>1, WriteEffect DEF Registers
    <3>3. Attached(reg') /\ link' = link
      <4>1. Attached(reg')
        BY <3>1, <3>2 DEF Managed, Attached
      <4> QED
        BY <1>1, <1>4, <3>1, <4>1, WriteEffect DEF Registers
    <3>4. Managed'
      BY <3>1, <3>2, <3>3 DEF Managed, Ends, Asleep, Slept, Frozen, SuspDue
    <3>5. WakingAfter(n + 1)'
      BY <1>3, <2>4, <3>1, <3>2, <3>3 DEF WakingAfter, Ends, SuspDue, Frozen
    <3> QED
      BY <1>2, <2>4, <3>1, <3>4, <3>5 DEF Ends
  <2> QED
    BY <1>7, <2>2, <2>3, <2>4
<1>8. n = 0 \/ n = 1 \/ n = 2 \/ n = 3 \/ n = 4 \/ n = 5
  OBVIOUS
<1> QED
  BY <1>5, <1>6, <1>7, <1>8

\* While the interface signals a remote wake-up: the interrupt, the host and the bus.
LEMMA WakingOthers ==
  ASSUME TypeInv, LinesApart, LinkFollows, Managed, NEW n \in 0 .. 5,
         todo = Rest(USB_Device_SendRemoteWakeup, n), WakingAfter(n),
         UsbGenISR \/ HostRequest \/ BusStep
  PROVE  Managed' /\ todo' = todo /\ WakingAfter(n)'
<1>1. DOMAIN reg = Registers
  BY DEF TypeInv, TypeOK
<1>2. todo # <<>>
  BY WakeAt
<1>3. CASE UsbGenISR
  <2>1. /\ Managed' /\ ~SuspDue' /\ todo' = todo /\ copy' = copy /\ reg'.UDCON = reg.UDCON
        /\ link' = link
    BY <1>1, <1>3, IsrManaged, IsrEffect
  <2>2. link = "active" \/ "SUSPI" \in reg'.UDINT
    <3> SUFFICES ASSUME "SUSPI" \in reg.UDINT PROVE "SUSPI" \in reg'.UDINT
      BY DEF WakingAfter
    <3>1. ~RstDue
      BY DEF Managed, RstDue
    <3> QED
      BY <1>3, <3>1, IsrManaged
  <2>3. n >= 3 => "PLOCK" \in reg'.PLLCSR
    BY <1>1, <1>3, IsrEffect DEF WakingAfter, SuspDue
  <2>4. n >= 4 => ~Frozen'
    BY <1>1, <1>3, IsrEffect DEF WakingAfter, SuspDue, Frozen
  <2> QED
    BY <2>1, <2>2, <2>3, <2>4 DEF WakingAfter
<1>4. CASE HostRequest
  <2>1. Managed'
    BY <1>4, RequestManaged
  <2>2. WakingAfter(n)'
    BY <1>4, RequestEffect DEF WakingAfter, SuspDue, Frozen
  <2> QED
    BY <1>4, <2>1, <2>2, RequestEffect
<1>5. CASE BusStep
  <2>1. "RMWKUP" \in reg.UDCON => ~SuspDue /\ n = 5
    BY DEF WakingAfter
  <2>2. Managed'
    BY <1>5, <2>1, BusManaged
  <2>3. ~OthersIdle /\ ~OthersSuspend
    BY <1>2 DEF OthersIdle, OthersSuspend, WakingAfter
  <2>4. SuspDue' => SuspDue
    BY <1>5, <2>3, BusEffect DEF OthersActs, OthersLock, OthersSent, SuspDue
  <2>5. /\ link' = "active" \/ "SUSPI" \in reg'.UDINT
        /\ "PLOCK" \in reg.PLLCSR => "PLOCK" \in reg'.PLLCSR
        /\ "RMWKUP" \notin reg.UDCON => "RMWKUP" \notin reg'.UDCON
    BY <1>5, <2>3, BusEffect DEF OthersActs, OthersLock, OthersSent, WakingAfter
  <2>6. WakingAfter(n)'
    BY <1>5, <2>4, <2>5, BusEffect DEF WakingAfter, Frozen
  <2> QED
    BY <1>5, <2>2, <2>6, BusEffect
<1> QED
  BY <1>3, <1>4, <1>5

\* Every step keeps the clock managed.
LEMMA ClockStep ==
  ASSUME PatientBus, TypeInv, OffInv, ClockInv, [Next]_vars
  PROVE  ClockInv'
<1>1. CASE UNCHANGED vars
  BY <1>1
     DEF vars, deviceVars, callVars, busVars, ClockInv, LinesApart, LinkFollows, Off,
         Starting,
     StartedAfter, Stopping, Running, Managed, Asleep, Slept, Frozen, SuspDue, ClockFed,
     Switching, WakingHost, WakingAfter, Attached
<1>2. CASE Next
  <2>1. LinesApart /\ LinkFollows /\ LinesApart' /\ LinkFollows'
    BY <1>2, LinesStep DEF ClockInv
  <2>2. CASE Off
    BY <1>2, <2>1, <2>2, OffOrInit DEF ClockInv
  <2>3. CASE Stopping
    BY <1>2, <2>1, <2>3, StoppingStep DEF ClockInv
  <2>4. CASE Starting
    <3> PICK n \in 0 .. 15 : todo = Rest(USB_Init, n) /\ StartedAfter(n)
      BY <2>4 DEF Starting
    <3>1. todo # <<>>
      BY InitAt
    <3>2. CASE UsbGenISR \/ HostRequest \/ BusStep
      BY <2>1, <3>2, StartingOthers DEF Starting, ClockInv
    <3>3. CASE Statement
      <4>1. CASE todo' = Rest(USB_Init, n + 1) /\ n < 15 /\ StartedAfter(n + 1)'
        <5>1. n + 1 \in 0 .. 15
          BY <4>1
        <5> QED
          BY <2>1, <4>1, <5>1 DEF Starting, ClockInv
      <4>2. CASE todo' = todo /\ StartedAfter(n)'
        BY <2>1, <4>2 DEF Starting, ClockInv
      <4>3. CASE Running'
        BY <2>1, <4>3 DEF ClockInv
      <4> QED
        BY <2>1, <3>3, <4>1, <4>2, <4>3, StartingStatement
    <3> QED
      BY <1>2, <3>1, <3>2, <3>3 DEF Next, AppCall, CallInit, CallReset, CallDisable,
         CallRemoteWakeup, CallSOFEvents, Call
  <2>5. CASE Running
    BY <1>2, <2>1, <2>5, RunningCall, RunningStatement, RunningOthers DEF Next, ClockInv
  <2>6. CASE WakingHost
    <3> PICK n \in 0 .. 5 : todo = Rest(USB_Device_SendRemoteWakeup, n) /\ WakingAfter(n)
      BY <2>6 DEF WakingHost
    <3>1. todo # <<>> /\ Managed
      BY <2>6, WakeAt DEF WakingHost
    <3>2. CASE UsbGenISR \/ HostRequest \/ BusStep
      BY <2>1, <3>1, <3>2, WakingOthers DEF WakingHost, ClockInv
    <3>3. CASE Statement
      <4>1. CASE /\ Managed' /\ todo' = Rest(USB_Device_SendRemoteWakeup, n + 1) /\ n < 5
                 /\ WakingAfter(n + 1)'
        <5>1. n + 1 \in 0 .. 5
          BY <4>1
        <5> QED
          BY <2>1, <4>1, <5>1 DEF WakingHost, ClockInv
      <4>2. CASE Managed' /\ todo' = todo /\ WakingAfter(n)'
        BY <2>1, <4>2 DEF WakingHost, ClockInv
      <4>3. CASE Running'
        BY <2>1, <4>3 DEF ClockInv
      <4> QED
        BY <2>1, <3>1, <3>3, <4>1, <4>2, <4>3, WakingStatement
    <3> QED
      BY <1>2, <3>1, <3>2, <3>3 DEF Next, AppCall, CallInit, CallReset, CallDisable,
         CallRemoteWakeup, CallSOFEvents, Call
  <2> QED
    BY <2>2, <2>3, <2>4, <2>5, <2>6 DEF ClockInv
<1> QED
  BY <1>1, <1>2

\* It is managed to begin with: the interface is not yet on.
LEMMA ClockInit == Init => ClockInv
<1> SUFFICES ASSUME Init PROVE ClockInv
  OBVIOUS
<1>1. todo = Rest(USB_Init, 0)
  BY InitAt DEF Init
<1>2. StartedAfter(0)
  BY DEF StartedAfter
<1>3. LinesApart /\ LinkFollows
  BY DEF Init, LinesApart, LinkFollows, Attached
<1> QED
  BY <1>1, <1>2, <1>3 DEF ClockInv, Starting

\* On a patient bus, an initialized interface has between calls a clock that works,
\* or an interrupt that will start it, and notices a reset (USBInterrupt.c:53-165,
\* Device.h:212-229, Device.c:38).
THEOREM AlwaysClockManaged == ASSUME PatientBus PROVE Spec => []ClockManaged
<1>1. Init => OffInv
  BY InitAt DEF Init, OffInv
<1>2. TypeInv /\ OffInv /\ ClockInv /\ [Next]_vars => TypeInv' /\ OffInv' /\ ClockInv'
  BY TypeStep, OffStep, ClockStep
<1>3. ClockInv => ClockManaged
  <2> SUFFICES ASSUME ClockInv, dev.initialized, todo = <<>>, ~Pending
               PROVE  /\ ~Frozen => "PLOCK" \in reg.PLLCSR
                      /\ Frozen => "WAKEUPI" \in reg.UDIEN
                      /\ "EORSTI" \in reg.UDIEN
    BY DEF ClockManaged, Frozen
  <2>1. Running
    BY InitAt, DisableAt, WakeAt DEF ClockInv, Off, Starting, Stopping, WakingHost
  <2>2. ~SuspDue
    BY DEF Pending, SuspDue
  <2> QED
    BY <2>1, <2>2 DEF Running, Managed, ClockFed, Asleep
<1> QED
  BY <1>1, <1>2, <1>3, TypeInit, ClockInit, PTL DEF Spec

=============================================================================
