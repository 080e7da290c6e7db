------------------------- MODULE ByteChannel_proofs -------------------------
(* The abstract channel delivers in order and, intact, everything. *)
EXTENDS ByteChannel, TLAPS

Type ==
  sent \in Nat /\ pipe \in Seq(Nat) /\ got \in Nat /\ intact \in BOOLEAN

Inv == Type /\ Ordered /\ Complete

\* Initially nothing is sent, held or delivered.
LEMMA InitInv == Init => Inv
BY DEF Init, Inv, Type, Ordered, Complete

\* A byte put is the largest so far, a packet taken is all of the pipe, and
\* what is lost leaves a shorter, still ordered, pipe.
LEMMA NextInv == Inv /\ [Next]_channel => Inv'
<1> SUFFICES ASSUME Inv, [Next]_channel PROVE Inv'
  OBVIOUS
<1> USE DEF Inv, Type
<1>1. CASE Put
  <2>1. DOMAIN pipe' = 1 .. Len(pipe) + 1 /\ Len(pipe') = Len(pipe) + 1
    BY <1>1 DEF Put
  <2>2. \A i \in DOMAIN pipe' :
          pipe'[i] = IF i = Len(pipe) + 1 THEN sent + 1 ELSE pipe[i]
    BY <1>1 DEF Put
  <2>3. DOMAIN pipe = 1 .. Len(pipe)
    OBVIOUS
  <2>4. Type'
    BY <1>1 DEF Put
  <2>5. Ordered'
    BY <1>1, <2>1, <2>2, <2>3 DEF Put, Ordered
  <2>6. Complete'
    BY <1>1, <2>1, <2>2, <2>3 DEF Put, Complete
  <2> QED BY <2>4, <2>5, <2>6
<1>2. CASE Take
  <2>1. Len(pipe) \in DOMAIN pipe /\ pipe[Len(pipe)] \in Nat
    BY <1>2 DEF Take
  <2> QED BY <1>2, <2>1 DEF Take, Ordered, Complete
<1>3. CASE Disturb
  <2>1. Ordered'
    <3>1. CASE pipe' = pipe
      BY <1>3, <3>1 DEF Disturb, Ordered
    <3>2. CASE pipe' = <<>>
      BY <1>3, <3>2 DEF Disturb, Ordered
    <3> QED BY <1>3, <3>1, <3>2 DEF Disturb
  <2>2. pipe' \in Seq(Nat)
    <3>1. pipe' = pipe \/ pipe' = <<>>
      BY <1>3 DEF Disturb
    <3>2. <<>> \in Seq(Nat)
      OBVIOUS
    <3> QED BY <3>1, <3>2
  <2>3. intact' = FALSE
    BY <1>3 DEF Disturb
  <2>4. sent' \in Nat /\ got' \in Nat
    BY <1>3 DEF Disturb
  <2>5. Complete'
    BY <2>3, Zenon DEF Complete
  <2>6. intact' \in BOOLEAN
    BY <2>3, Zenon
  <2> QED BY <2>1, <2>2, <2>4, <2>5, <2>6
<1>4. CASE UNCHANGED channel
  BY <1>4 DEF channel, Ordered, Complete
<1> HIDE DEF Inv, Type
<1> QED BY <1>1, <1>2, <1>3, <1>4 DEF Next

\* The channel is always in order, and complete while intact.
THEOREM ChannelSafe == Spec => [](Ordered /\ Complete)
<1>1. Inv => Ordered /\ Complete
  BY DEF Inv
<1> QED BY InitInv, NextInv, <1>1, PTL DEF Spec
=============================================================================
