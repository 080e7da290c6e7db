---------------------- MODULE ConfigDescriptors_proofs ----------------------
(***************************************************************************)
(* For any configuration descriptor, whatever its bytes, and whatever lies *)
(* behind it: the searches of ConfigDescriptors.c keep the position in the *)
(* buffer, and what they find is what they should.  TypeOK and InBuffer    *)
(* are inductive together: what is skipped is a byte only because          *)
(* something remains.  SearchRight needs to know, all along the way of a   *)
(* search, that it has missed nothing.                                     *)
(***************************************************************************)
EXTENDS ConfigDescriptors, Descriptors_proofs, WellFoundedInduction, TLAPS

IInv == TypeOK /\ InBuffer

\* What a step skips lies in the buffer, whatever size it is given.
LEMMA SkippedRemains ==
  ASSUME IInv, BytesRem > 0
  PROVE  /\ Skipped \in Nat
         /\ Skipped <= BytesRem
         /\ CurrConfigLoc + Skipped \in Nat /\ BytesRem - Skipped \in Nat
         /\ (CurrConfigLoc + Skipped) + (BytesRem - Skipped) = Len(buffer)
<1>1. /\ CurrConfigLoc \in Nat /\ BytesRem \in Nat
      /\ CurrConfigLoc + BytesRem = Len(buffer)
  BY DEF IInv, TypeOK, InBuffer
<1>2. buffer \in Seq(UInt8)
  BY BuffersAssumption DEF IInv, TypeOK
<1>3. CurrConfigLoc + 1 \in 1 .. Len(buffer)
  BY <1>1
<1>4. DESCRIPTOR_SIZE(CurrConfigLoc) \in UInt8
  BY <1>2, <1>3 DEF DESCRIPTOR_SIZE
<1>5. DESCRIPTOR_SIZE(CurrConfigLoc) \in Nat
  BY <1>4 DEF UInt8
<1> QED
  BY <1>1, <1>5 DEF Skipped

\* The step that every function takes (USB_GetNextDescriptor).
LEMMA NextStaysInBuffer ==
  ASSUME IInv, BytesRem > 0, USB_GetNextDescriptor, buffer' = buffer
  PROVE  InBuffer' /\ CurrConfigLoc' \in Nat /\ BytesRem' \in Nat
BY SkippedRemains DEF USB_GetNextDescriptor, InBuffer

\* The searches start in the buffer.
LEMMA InitInvariant == Init => IInv
<1> SUFFICES ASSUME Init PROVE IInv
  OBVIOUS
<1>1. buffer \in Seq(UInt8)
  BY BuffersAssumption DEF Init
<1>2. Len(buffer) \in Nat
  BY <1>1
<1> QED
  BY <1>2 DEF Init, IInv, TypeOK, InBuffer, NoCall, Results

\* Every step keeps the invariant.
LEMMA NextInvariant == IInv /\ [Next]_vars => IInv'
<1> SUFFICES ASSUME IInv, [Next]_vars PROVE IInv'
  OBVIOUS
<1> USE DEF IInv
<1>1. ASSUME NEW f \in Functions, NEW type \in SearchTypes,
             NEW other \in SearchTypes, Search(f, type, other)
      PROVE  IInv'
  <2>1. type \in UInt8 /\ other \in UInt8
    BY SearchTypesAssumption
  <2>2. call' \in [function : Functions, Type : UInt8, Other : UInt8]
    BY <1>1, <2>1 DEF Search
  <2>3. pc' \in {"idle", "walk", "after"} /\ result' \in Results
    BY <1>1 DEF Search, Results
  <2> QED
    BY <1>1, <2>2, <2>3 DEF Search, TypeOK, InBuffer
<1>2. CASE PassBy
  BY <1>2, NextStaysInBuffer DEF PassBy, TypeOK
<1>3. CASE Find
  <2>1. InBuffer' /\ CurrConfigLoc' \in Nat /\ BytesRem' \in Nat
    BY <1>3, NextStaysInBuffer DEF Find
  <2>2. pc' \in {"idle", "walk", "after"} /\ result' \in Results
    BY <1>3 DEF Find, Results
  <2> QED
    BY <1>3, <2>1, <2>2 DEF Find, TypeOK
<1>4. CASE ReachBefore
  BY <1>4, SkippedRemains DEF ReachBefore, TypeOK, InBuffer
<1>5. CASE ComparatorFails
  BY <1>5 DEF ComparatorFails, TypeOK, InBuffer, Results
<1>6. CASE NothingRemains
  BY <1>6 DEF NothingRemains, TypeOK, InBuffer, Results
<1>7. CASE UNCHANGED vars
  BY <1>7 DEF vars, TypeOK, InBuffer
<1> QED
  BY <1>1, <1>2, <1>3, <1>4, <1>5, <1>6, <1>7 DEF Next, Walk

\* The types and the place of the position together hold in every state.
THEOREM InductiveInvariant == Spec => []IInv
BY InitInvariant, NextInvariant, PTL DEF Spec

\* For every buffer: the variables keep their types and what remains does not
\* wrap below zero (USB_GetNextDescriptor).
THEOREM TypeCorrect == Spec => []TypeOK
<1>1. IInv => TypeOK
  BY DEF IInv
<1> QED
  BY InductiveInvariant, <1>1, PTL

\* For every buffer: the position a search leaves to its caller is in the
\* buffer, and what remains is what lies between it and the end.
THEOREM AlwaysInBuffer == Spec => []InBuffer
<1>1. IInv => InBuffer
  BY DEF IInv
<1> QED
  BY InductiveInvariant, <1>1, PTL

-----------------------------------------------------------------------------
(***************************************************************************)
(* What a search finds.  A walk is followed with an invariant that does    *)
(* not mention the way it came, only that no descriptor of the types it    *)
(* looks for is between its start and its position.  What the recursive    *)
(* definition of Following says is used one step at a time; that a walk    *)
(* leaves nothing out in between is shown on the least offset it would     *)
(* have left out.                                                          *)
(***************************************************************************)

\* The offsets that a walk from p arrives at.
Reached(d, p) ==
  LET reached[q \in p .. Len(d)] ==
        \E o \in p .. q - 1 : After(d, o) = q /\ (o = p \/ reached[o])
  IN reached

\* The offsets that a walk from p stands at.
Walked(d, p, q) == q = p \/ Reached(d, p)[q]

\* A walk from start stands at loc, and has passed by all descriptors of the
\* types up to there.
Scanned(d, start, loc, types) ==
  /\ start \in 0 .. Len(d) /\ loc \in start .. Len(d)
  /\ Walked(d, start, loc)
  /\ \A o \in start .. loc - 1 : Walked(d, start, o) => After(d, o) <= loc
  /\ \A q \in OfTypes(d, Following(d, start), types) : q > start => q > loc

\* Where the walk of a search began, and the types at which it stops.
Start == IF pc = "walk" /\ call.function = "OfTypeAfter"
         THEN First(OfTypes(buffer, Candidates, {call.Other})) ELSE from.loc

Wanted == CASE pc = "after" -> {call.Other}
            [] pc # "after" /\ call.function \in {"OfType", "OfTypeAfter"} ->
                 {call.Type}
            [] OTHER -> {call.Type, call.Other}

\* There was nothing to find, and nothing remains to be found by mistake.
Lost == BytesRem < 2 /\ Stops = {}

Scanning ==
  /\ from.rem > 0 /\ CurrConfigLoc + BytesRem = Len(buffer)
  /\ Scanned(buffer, Start, CurrConfigLoc, Wanted)
  /\ (pc = "walk" /\ call.function = "OfTypeAfter")
       => OfTypes(buffer, Candidates, {call.Other}) # {}

Searching ==
  /\ from.rem > 0 => from.loc + from.rem = Len(buffer)
  /\ pc = "after" => call.function = "OfTypeAfter"
  /\ pc # "idle" =>
       call.function \in Functions /\ result = "None" /\ (Lost \/ Scanning)

SearchInv == IInv /\ Searching /\ SearchRight

\* A set of offsets that is not empty has a least one.
LEMMA Least ==
  ASSUME NEW T, T # {}, T \subseteq Nat
  PROVE  \E x \in T : \A y \in T : x <= y
<1> DEFINE R == OpToRel(<, Nat)
<1>1. IsWellFoundedOn(R, Nat)
  BY NatLessThanWellFounded
<1>2. PICK x \in T : \A y \in T : ~(<<y, x>> \in R)
  <2> HIDE DEF R
  <2> QED
    BY <1>1, WFMin
<1>3. ASSUME NEW y \in T PROVE x <= y
  <2>1. x \in Nat /\ y \in Nat
    OBVIOUS
  <2>2. ~(y < x)
    BY <1>2, <2>1 DEF OpToRel
  <2> QED
    BY <2>1, <2>2
<1> QED
  BY <1>2, <1>3

\* First finds the least offset, if there is one.
LEMMA FirstIs ==
  ASSUME NEW T, T \subseteq Nat, NEW x \in T, \A y \in T : x <= y
  PROVE  First(T) = x
<1>1. First(T) \in T /\ \A y \in T : First(T) <= y
  BY DEF First
<1>2. First(T) <= x /\ x <= First(T) /\ x \in Nat /\ First(T) \in Nat
  BY <1>1
<1> QED
  BY <1>2

\* The recursive definition of Reached has a solution, the least set that is
\* closed under a step, and so Reached may be unfolded.
LEMMA ReachedStep ==
  ASSUME NEW d, NEW p
  PROVE  \A q \in p .. Len(d) :
           Reached(d, p)[q] <=>
             \E o \in p .. q - 1 : After(d, o) = q /\ (o = p \/ Reached(d, p)[o])
<1> DEFINE D == p .. Len(d)
           P(f) == f = [q \in D |-> \E o \in p .. q - 1 :
                                      After(d, o) = q /\ (o = p \/ f[o])]
           Pred(q, S) == \E o \in p .. q - 1 : After(d, o) = q /\ (o = p \/ o \in S)
           Closed(S) == \A q \in D : Pred(q, S) => q \in S
           N == {q \in D : \A S \in SUBSET D : Closed(S) => q \in S}
           g == [q \in D |-> q \in N]
<1>1. ASSUME NEW q \in D, Pred(q, N) PROVE q \in N
  <2>1. ASSUME NEW S \in SUBSET D, Closed(S) PROVE q \in S
    <3>1. Pred(q, S)
      BY <1>1, <2>1
    <3> QED
      BY <2>1, <3>1
  <2> QED
    BY <2>1
<1>2. ASSUME NEW q \in N PROVE Pred(q, N)
  <2> SUFFICES ASSUME ~Pred(q, N) PROVE FALSE
    OBVIOUS
  <2> DEFINE S == N \ {q}
  <2>1. ASSUME NEW r \in D, Pred(r, S) PROVE r \in S
    <3>1. Pred(r, N)
      BY <2>1
    <3>2. r \in N
      BY <1>1, <3>1
    <3>3. r # q
      BY <3>1
    <3> QED
      BY <3>2, <3>3
  <2>2. S \in SUBSET D /\ Closed(S)
    BY <2>1
  <2> QED
    BY <2>2
<1>3. P(g)
  <2>1. ASSUME NEW q \in D
        PROVE  (q \in N) <=> \E o \in p .. q - 1 : After(d, o) = q /\ (o = p \/ g[o])
    <3>1. \A o \in p .. q - 1 : o \in D
      OBVIOUS
    <3>2. \A o \in D : g[o] <=> o \in N
      OBVIOUS
    <3>3. Pred(q, N) <=> \E o \in p .. q - 1 : After(d, o) = q /\ (o = p \/ g[o])
      <4> HIDE DEF g, N
      <4> QED
        BY <3>1, <3>2
    <3> QED
      BY <1>1, <1>2, <3>3
  <2> DEFINE E(q) == \E o \in p .. q - 1 : After(d, o) = q /\ (o = p \/ g[o])
             M(q) == q \in N
  <2>2. \A q \in D : M(q) <=> E(q)
    BY <2>1
  <2>3. \A q \in D : M(q) \in BOOLEAN /\ E(q) \in BOOLEAN
    OBVIOUS
  <2>4. [q \in D |-> M(q)] = [q \in D |-> E(q)]
    <3> HIDE DEF M, E, D, N
    <3>1. \A q \in D : M(q) = E(q)
      BY <2>2, <2>3
    <3> QED
      BY <3>1
  <2> QED
    BY <2>4
<1>4. Reached(d, p) = CHOOSE f : P(f)
  BY DEF Reached
<1>5. P(Reached(d, p))
  <2> HIDE DEF P
  <2> QED
    BY <1>3, <1>4
<1> QED
  BY <1>5

\* A step forward stays in the buffer.
LEMMA AfterInside ==
  ASSUME NEW d \in Seq(UInt8), NEW p \in 0 .. Len(d) - 1
  PROVE  After(d, p) \in p .. Len(d) /\ After(d, p) \in Nat
<1>1. Len(d) \in Nat
  OBVIOUS
<1>2. p + 1 \in 1 .. Len(d)
  BY <1>1
<1>3. d[p + 1] \in UInt8
  BY <1>2
<1>4. d[p + 1] \in Nat
  <2>1. UInt8 \subseteq Nat
    BY DEF UInt8
  <2> QED
    BY <1>3, <2>1
<1> QED
  BY <1>1, <1>4 DEF After

\* What Following says, by Reached.
LEMMA InFollowing ==
  ASSUME NEW d, NEW p, NEW q
  PROVE  q \in Following(d, p) <=>
           q \in p .. Len(d) - 2 /\ (Reached(d, p)[q] \/ (q = p /\ After(d, p) = p))
<1>1. Following(d, p) = {r \in p .. Len(d) - 2 :
                           Reached(d, p)[r] \/ (r = p /\ After(d, p) = p)}
  BY DEF Following, Reached
<1> QED
  BY <1>1

\* A walk does not arrive where it began.
LEMMA NeverBack ==
  ASSUME NEW d \in Seq(UInt8), NEW p \in 0 .. Len(d)
  PROVE  ~Reached(d, p)[p]
<1>1. Len(d) \in Nat /\ p \in Nat /\ p \in p .. Len(d)
  OBVIOUS
<1>2. p .. p - 1 = {}
  BY <1>1
<1> QED
  BY <1>1, <1>2, ReachedStep

\* A walk that begins on a descriptor without size arrives nowhere.
LEMMA StuckStart ==
  ASSUME NEW d \in Seq(UInt8), NEW p \in 0 .. Len(d), After(d, p) = p
  PROVE  \A q \in p .. Len(d) : ~Reached(d, p)[q]
<1> DEFINE T == {q \in p .. Len(d) : Reached(d, p)[q]}
<1>1. Len(d) \in Nat /\ p \in Nat
  OBVIOUS
<1>2. SUFFICES ASSUME T # {} PROVE FALSE
  OBVIOUS
<1>3. T \subseteq Nat
  BY <1>1
<1>4. PICK x \in T : \A y \in T : x <= y
  <2> HIDE DEF T
  <2> QED
    BY <1>2, <1>3, Least
<1>5. PICK o \in p .. x - 1 : After(d, o) = x /\ (o = p \/ Reached(d, p)[o])
  BY ReachedStep
<1>6. x \in Nat /\ o \in Nat /\ o < x /\ x <= Len(d) /\ p <= o
  BY <1>1
<1>7. o # p
  BY <1>5, <1>6
<1>8. o \in T
  BY <1>5, <1>6, <1>7
<1> QED
  BY <1>4, <1>6, <1>8

\* Where a walk stands next after loc is not before After(loc): the least such
\* offset was reached from an offset behind loc, from loc, or from between.
LEMMA NothingBetween ==
  ASSUME NEW d \in Seq(UInt8), NEW start \in 0 .. Len(d),
         NEW loc \in start .. Len(d) - 1,
         \A o \in start .. loc - 1 : Walked(d, start, o) => After(d, o) <= loc,
         NEW q \in start .. Len(d), Walked(d, start, q), q > loc
  PROVE  After(d, loc) <= q
<1> DEFINE T == {r \in start .. Len(d) : Walked(d, start, r) /\ r > loc}
<1>1. Len(d) \in Nat /\ start \in Nat /\ loc \in Nat /\ q \in Nat
  OBVIOUS
<1>2. q \in T
  OBVIOUS
<1>3. T \subseteq Nat
  BY <1>1
<1>4. PICK x \in T : \A y \in T : x <= y
  <2> HIDE DEF T
  <2> QED
    BY <1>2, <1>3, Least
<1>5. x \in Nat /\ x > loc /\ x <= Len(d) /\ x \in start .. Len(d) /\ x # start
  BY <1>1
<1>6. Reached(d, start)[x]
  BY <1>5 DEF Walked
<1>7. PICK o \in start .. x - 1 :
        After(d, o) = x /\ (o = start \/ Reached(d, start)[o])
  BY <1>5, <1>6, ReachedStep
<1>8. o \in Nat /\ o < x /\ start <= o /\ Walked(d, start, o)
  BY <1>1, <1>5, <1>7 DEF Walked
<1>9. ~(o < loc)
  <2> SUFFICES ASSUME o < loc PROVE FALSE
    OBVIOUS
  <2>1. o \in start .. loc - 1
    BY <1>1, <1>8
  <2>2. x <= loc
    BY <1>7, <1>8, <2>1
  <2> QED
    BY <1>1, <1>5, <2>2
<1>10. ~(o > loc)
  <2> SUFFICES ASSUME o > loc PROVE FALSE
    OBVIOUS
  <2>1. o \in T
    BY <1>1, <1>5, <1>8
  <2> QED
    BY <1>4, <1>5, <1>8, <2>1
<1>11. o = loc
  BY <1>1, <1>8, <1>9, <1>10
<1>12. x <= q
  BY <1>2, <1>4
<1> QED
  BY <1>7, <1>11, <1>12

\* All descriptors that a search may still stop at lie at After(loc) or beyond.
LEMMA FoundAhead ==
  ASSUME NEW d \in Seq(UInt8), NEW start, NEW loc, NEW types,
         Scanned(d, start, loc, types), loc < Len(d),
         NEW q \in OfTypes(d, Following(d, start), types)
  PROVE  q \in Nat /\ q <= Len(d) - 2 /\ After(d, loc) <= q
<1>1. /\ start \in 0 .. Len(d) /\ loc \in start .. Len(d)
      /\ Len(d) \in Nat /\ start \in Nat /\ loc \in Nat
  BY DEF Scanned
<1>2. /\ q \in start .. Len(d) - 2
      /\ Reached(d, start)[q] \/ (q = start /\ After(d, start) = start)
  BY InFollowing DEF OfTypes
<1>3. q \in Nat /\ start <= q /\ q <= Len(d) - 2 /\ q \in start .. Len(d)
  BY <1>1, <1>2
<1>4. CASE q = start
  <2>1. After(d, start) = start
    BY <1>1, <1>2, <1>4, NeverBack
  <2>2. ~Reached(d, start)[loc]
    BY <1>1, <2>1, StuckStart
  <2>3. loc = start
    BY <2>2 DEF Scanned, Walked
  <2> QED
    BY <1>1, <1>3, <1>4, <2>1, <2>3
<1>5. CASE q # start
  <2>1. Walked(d, start, q) /\ q > start
    BY <1>1, <1>2, <1>3, <1>5 DEF Walked
  <2>2. q > loc
    BY <2>1 DEF Scanned
  <2>3. loc \in start .. Len(d) - 1
    BY <1>1
  <2>4. After(d, loc) <= q
    BY <1>1, <1>3, <2>1, <2>2, <2>3, NothingBetween DEF Scanned
  <2> QED
    BY <1>3, <2>4
<1> QED
  BY <1>4, <1>5

\* If the next descriptor is of a type that the search looks for, it is the first
\* of them.
LEMMA HitIsFirst ==
  ASSUME NEW d \in Seq(UInt8), NEW start, NEW loc, NEW types,
         Scanned(d, start, loc, types), loc < Len(d),
         After(d, loc) + 2 <= Len(d), d[After(d, loc) + 2] \in types
  PROVE  /\ OfTypes(d, Following(d, start), types) # {}
         /\ First(OfTypes(d, Following(d, start), types)) = After(d, loc)
<1> DEFINE n == After(d, loc)
           T == OfTypes(d, Following(d, start), types)
<1>1. /\ start \in 0 .. Len(d) /\ loc \in start .. Len(d)
      /\ Len(d) \in Nat /\ start \in Nat /\ loc \in Nat
  BY DEF Scanned
<1>2. n \in loc .. Len(d) /\ n \in Nat
  BY <1>1, AfterInside
<1>3. n \in start .. Len(d) - 2
  BY <1>1, <1>2
<1>4. Reached(d, start)[n] \/ (n = start /\ After(d, start) = start)
  <2>1. CASE n = loc
    BY <1>1, <2>1 DEF Scanned, Walked
  <2>2. CASE n # loc
    <3>1. loc \in start .. n - 1 /\ n \in start .. Len(d)
      BY <1>1, <1>2, <2>2
    <3> QED
      BY <3>1, ReachedStep DEF Scanned, Walked
  <2> QED
    BY <2>1, <2>2
<1>5. n \in T
  BY <1>3, <1>4, InFollowing DEF OfTypes
<1>6. \A q \in T : q \in Nat /\ n <= q
  BY FoundAhead
<1>7. First(T) = n
  <2> HIDE DEF T, n
  <2> QED
    BY <1>5, <1>6, FirstIs
<1> QED
  BY <1>5, <1>7

\* At the end of the buffer there was no descriptor to find.
LEMMA NothingAhead ==
  ASSUME NEW d \in Seq(UInt8), NEW start, NEW loc, NEW types,
         Scanned(d, start, loc, types),
         loc = Len(d) \/ After(d, loc) + 2 > Len(d)
  PROVE  OfTypes(d, Following(d, start), types) = {}
<1>1. /\ start \in 0 .. Len(d) /\ loc \in start .. Len(d)
      /\ Len(d) \in Nat /\ start \in Nat /\ loc \in Nat
  BY DEF Scanned
<1> SUFFICES ASSUME NEW q \in OfTypes(d, Following(d, start), types) PROVE FALSE
  OBVIOUS
<1>2. CASE loc = Len(d)
  <2>1. /\ q \in start .. Len(d) - 2
        /\ Reached(d, start)[q] \/ (q = start /\ After(d, start) = start)
    BY InFollowing DEF OfTypes
  <2>2. ~(q > start)
    <3>1. q > start => q > loc
      BY DEF Scanned
    <3> QED
      BY <1>1, <1>2, <2>1, <3>1
  <2>3. q = start
    BY <1>1, <2>1, <2>2
  <2>4. After(d, start) = start
    BY <1>1, <2>1, <2>3, NeverBack
  <2>5. ~Reached(d, start)[loc]
    BY <1>1, <2>4, StuckStart
  <2>6. loc = start
    BY <2>5 DEF Scanned, Walked
  <2> QED
    BY <1>1, <1>2, <2>1, <2>3, <2>6
<1>3. CASE loc < Len(d) /\ After(d, loc) + 2 > Len(d)
  <2>1. q \in Nat /\ q <= Len(d) - 2 /\ After(d, loc) <= q
    BY <1>3, FoundAhead
  <2>2. After(d, loc) \in Nat
    BY <1>1, <1>3, AfterInside
  <2> QED
    BY <1>1, <1>3, <2>1, <2>2
<1> QED
  BY <1>1, <1>2, <1>3

\* A search that passes by a descriptor of no interest has missed none.
LEMMA MissGoesOn ==
  ASSUME NEW d \in Seq(UInt8), NEW start, NEW loc, NEW types,
         Scanned(d, start, loc, types), loc < Len(d),
         After(d, loc) + 2 <= Len(d) => d[After(d, loc) + 2] \notin types
  PROVE  Scanned(d, start, After(d, loc), types)
<1> DEFINE n == After(d, loc)
<1>1. /\ start \in 0 .. Len(d) /\ loc \in start .. Len(d)
      /\ Len(d) \in Nat /\ start \in Nat /\ loc \in Nat
  BY DEF Scanned
<1>2. n \in loc .. Len(d) /\ n \in Nat /\ n \in start .. Len(d)
  BY <1>1, AfterInside
<1>3. CASE n = loc
  BY <1>3
<1>4. CASE n > loc
  <2>1. Walked(d, start, n)
    <3>1. loc \in start .. n - 1
      BY <1>1, <1>2, <1>4
    <3> QED
      BY <1>2, <3>1, ReachedStep DEF Scanned, Walked
  <2>2. ASSUME NEW o \in start .. n - 1, Walked(d, start, o)
        PROVE  After(d, o) <= n
    <3>1. o \in Nat /\ start <= o /\ o < n /\ o \in start .. Len(d)
      BY <1>1, <1>2
    <3>2. CASE o < loc
      <4>1. o \in start .. loc - 1
        BY <1>1, <3>1, <3>2
      <4>2. After(d, o) <= loc
        BY <2>2, <4>1 DEF Scanned
      <4>3. o \in 0 .. Len(d) - 1
        BY <1>1, <3>1, <3>2
      <4>4. After(d, o) \in Nat
        BY <4>3, AfterInside
      <4> QED
        BY <1>1, <1>2, <4>2, <4>4
    <3>3. CASE o = loc
      BY <1>2, <3>3
    <3>4. CASE o > loc
      <4>1. loc \in start .. Len(d) - 1
        BY <1>1
      <4>2. n <= o
        BY <1>1, <2>2, <3>1, <3>4, <4>1, NothingBetween DEF Scanned
      <4> QED
        BY <1>2, <3>1, <4>2
    <3> QED
      BY <1>1, <3>1, <3>2, <3>3, <3>4
  <2>3. ASSUME NEW q \in OfTypes(d, Following(d, start), types), q > start
        PROVE  q > n
    <3>1. q \in Nat /\ q <= Len(d) - 2 /\ n <= q
      BY FoundAhead
    <3>2. d[q + 2] \in types
      BY DEF OfTypes
    <3>3. q # n
      BY <1>1, <3>1, <3>2
    <3> QED
      BY <1>2, <3>1, <3>3
  <2> QED
    BY <1>1, <1>2, <2>1, <2>2, <2>3 DEF Scanned
<1> QED
  BY <1>1, <1>2, <1>3, <1>4

\* A search that starts has missed none.
LEMMA StartsScanned ==
  ASSUME NEW d \in Seq(UInt8), NEW loc \in 0 .. Len(d), NEW types
  PROVE  Scanned(d, loc, loc, types)
<1>1. Len(d) \in Nat /\ loc \in Nat /\ loc \in loc .. Len(d)
  OBVIOUS
<1>2. loc .. loc - 1 = {}
  BY <1>1
<1> QED
  BY <1>1, <1>2 DEF Scanned, Walked

\* USB_GetNextDescriptor goes to After(CurrConfigLoc), and what is seen there is
\* the type in the buffer if there is one.
LEMMA NextOffset ==
  ASSUME IInv, BytesRem > 0
  PROVE  /\ CurrConfigLoc + Skipped = After(buffer, CurrConfigLoc)
         /\ CurrConfigLoc \in 0 .. Len(buffer) - 1
         /\ After(buffer, CurrConfigLoc) + (BytesRem - Skipped) = Len(buffer)
         /\ BytesRem - Skipped \in Nat
         /\ \A seen \in Seen : After(buffer, CurrConfigLoc) + 2 <= Len(buffer)
              => seen = buffer[After(buffer, CurrConfigLoc) + 2]
<1>1. /\ CurrConfigLoc \in Nat /\ BytesRem \in Nat
      /\ CurrConfigLoc + BytesRem = Len(buffer)
  BY DEF IInv, TypeOK, InBuffer
<1>2. buffer \in Seq(UInt8)
  BY BuffersAssumption DEF IInv, TypeOK
<1>3. CurrConfigLoc + 1 \in 1 .. Len(buffer)
  BY <1>1
<1>4. buffer[CurrConfigLoc + 1] \in Nat
  <2>1. UInt8 \subseteq Nat
    BY DEF UInt8
  <2>2. buffer[CurrConfigLoc + 1] \in UInt8
    BY <1>2, <1>3
  <2> QED
    BY <2>1, <2>2
<1>5. CurrConfigLoc + Skipped = After(buffer, CurrConfigLoc)
  BY <1>1, <1>4 DEF Skipped, DESCRIPTOR_SIZE, After
<1>6. \A seen \in Seen : After(buffer, CurrConfigLoc) + 2 <= Len(buffer)
        => seen = buffer[After(buffer, CurrConfigLoc) + 2]
  BY <1>5 DEF Seen, DESCRIPTOR_TYPE
<1> QED
  BY <1>1, <1>5, <1>6, SkippedRemains

\* What a walk looks for is what its function may stop at.
LEMMA StopsOfWalk ==
  ASSUME Scanning, pc = "walk", call.function \in Functions
  PROVE  Stops = OfTypes(buffer, Following(buffer, Start), Wanted)
<1>1. from.rem # 0
  BY DEF Scanning
<1>2. Candidates = Following(buffer, from.loc)
  BY <1>1 DEF Candidates
<1>3. CASE call.function = "OfTypeAfter"
  BY <1>2, <1>3 DEF Scanning, Stops, Start, Wanted
<1>4. CASE call.function = "OfType"
  BY <1>2, <1>4 DEF Stops, Start, Wanted
<1>5. CASE call.function \in {"OfTypeBefore", "Comp"}
  BY <1>2, <1>5 DEF Stops, Start, Wanted
<1> QED
  BY <1>3, <1>4, <1>5 DEF Functions

\* The first half of OfTypeAfter looks for AfterType alone.
LEMMA OthersOfAfter ==
  ASSUME Scanning, pc = "after"
  PROVE  OfTypes(buffer, Candidates, {call.Other})
           = OfTypes(buffer, Following(buffer, Start), Wanted)
BY DEF Scanning, Candidates, Start, Wanted

\* What there is to find does not change while a function runs.
LEMMA SameStops ==
  ASSUME buffer' = buffer, call' = call, from' = from
  PROVE  Stops' = Stops /\ Expected' = Expected
BY DEF Stops, Expected, Candidates

\* A search begins with its position as the start.
LEMMA SearchStarts ==
  ASSUME SearchInv, NEW f \in Functions, NEW type \in SearchTypes,
         NEW other \in SearchTypes, Search(f, type, other)
  PROVE  Searching' /\ SearchRight'
<1>1. /\ buffer' = buffer /\ CurrConfigLoc' = CurrConfigLoc /\ BytesRem' = BytesRem
      /\ call'.function = f /\ pc' \in {"walk", "after"} /\ result' = "None"
      /\ from'.loc = CurrConfigLoc /\ from'.rem = BytesRem
      /\ pc' = "after" <=> f = "OfTypeAfter"
      /\ pc' = "walk" <=> f # "OfTypeAfter"
  BY DEF Search
<1>2. /\ CurrConfigLoc \in Nat /\ BytesRem \in Nat
      /\ BytesRem > 0 => CurrConfigLoc + BytesRem = Len(buffer)
      /\ buffer \in Seq(UInt8)
  BY BuffersAssumption DEF SearchInv, IInv, TypeOK, InBuffer
<1>3. ASSUME BytesRem = 0 PROVE Lost'
  <2>1. Candidates' = {}
    BY <1>1, <1>3 DEF Candidates
  <2>2. Stops' = {}
    BY <2>1 DEF Stops, OfTypes
  <2> QED
    BY <1>1, <1>3, <2>2 DEF Lost
<1>4. ASSUME BytesRem > 0 PROVE Scanning'
  <2>1. CurrConfigLoc \in 0 .. Len(buffer)
    BY <1>2, <1>4
  <2>2. Scanned(buffer, CurrConfigLoc, CurrConfigLoc, Wanted')
    BY <1>2, <2>1, StartsScanned
  <2>3. Start' = CurrConfigLoc /\ ~(pc' = "walk" /\ call'.function = "OfTypeAfter")
    BY <1>1 DEF Start
  <2> QED
    BY <1>1, <1>2, <1>4, <2>2, <2>3 DEF Scanning
<1>5. Lost' \/ Scanning'
  BY <1>2, <1>3, <1>4
<1> QED
  BY <1>1, <1>2, <1>5 DEF Searching, SearchRight

\* What remains does not grow.
LEMMA StepsBack ==
  ASSUME SearchInv, BytesRem > 0, Lost,
         BytesRem' = BytesRem - Skipped
  PROVE  BytesRem' < 2
<1>1. Skipped \in Nat /\ BytesRem \in Nat /\ BytesRem - Skipped \in Nat
  BY SkippedRemains DEF SearchInv, IInv, TypeOK
<1> QED
  BY <1>1 DEF Lost

\* The types a search stops at are the one it seeks and that of its failure.
LEMMA WantedAre ==
  ASSUME SearchInv, pc # "idle"
  PROVE  /\ Sought \in Wanted
         /\ \A seen \in Wanted : seen = Sought \/ (StopsAtOther /\ seen = call.Other)
         /\ StopsAtOther => call.Other \in Wanted
<1>1. /\ pc \in {"walk", "after"}
      /\ pc = "after" => call.function = "OfTypeAfter"
      /\ call.function \in Functions
  BY DEF SearchInv, IInv, TypeOK, Searching
<1>2. CASE pc = "after"
  BY <1>2 DEF Sought, Wanted, StopsAtOther
<1>3. CASE pc = "walk" /\ call.function \in {"OfType", "OfTypeAfter"}
  BY <1>3 DEF Sought, Wanted, StopsAtOther
<1>4. CASE pc = "walk" /\ call.function \in {"OfTypeBefore", "Comp"}
  BY <1>4 DEF Sought, Wanted, StopsAtOther
<1> QED
  BY <1>1, <1>2, <1>3, <1>4 DEF Functions

\* A descriptor of no interest.
LEMMA PassByKeeps ==
  ASSUME SearchInv, PassBy
  PROVE  Searching' /\ SearchRight'
<1>1. PICK seen \in Seen : seen # Sought /\ (StopsAtOther => seen # call.Other)
  BY DEF PassBy
<1>2. /\ pc # "idle" /\ BytesRem > 0 /\ USB_GetNextDescriptor
      /\ buffer' = buffer /\ pc' = pc /\ call' = call /\ from' = from
      /\ result' = result
  BY DEF PassBy
<1>3. Stops' = Stops /\ Start' = Start /\ Wanted' = Wanted
      /\ OfTypes(buffer', Candidates', {call'.Other})
           = OfTypes(buffer, Candidates, {call.Other})
  BY <1>2, SameStops DEF Start, Wanted, Candidates
<1>4. CASE Lost
  <2>1. BytesRem' < 2
    BY <1>2, <1>4, StepsBack DEF USB_GetNextDescriptor
  <2>2. Lost'
    BY <1>3, <1>4, <2>1 DEF Lost
  <2> QED
    BY <1>2, <2>2 DEF SearchInv, Searching, SearchRight
<1>5. CASE Scanning
  <2> DEFINE n == After(buffer, CurrConfigLoc)
  <2>1. /\ CurrConfigLoc' = n /\ CurrConfigLoc < Len(buffer)
        /\ CurrConfigLoc' + BytesRem' = Len(buffer)
        /\ n + 2 <= Len(buffer) => seen = buffer[n + 2]
    BY <1>2, NextOffset DEF SearchInv, USB_GetNextDescriptor
  <2>2. buffer \in Seq(UInt8)
    BY BuffersAssumption DEF SearchInv, IInv, TypeOK
  <2>3. seen \notin Wanted
    BY <1>1, <1>2, WantedAre DEF SearchInv
  <2>4. Scanned(buffer, Start, n, Wanted)
    BY <1>5, <2>1, <2>2, <2>3, MissGoesOn DEF Scanning
  <2>5. Scanning'
    BY <1>2, <1>3, <1>5, <2>1, <2>4 DEF Scanning
  <2> QED
    BY <1>2, <2>5 DEF SearchInv, Searching, SearchRight
<1> QED
  BY <1>2, <1>4, <1>5 DEF SearchInv, Searching

\* The descriptor looked for, or a byte behind the buffer that looks like it.
\* OfTypeAfter begins its second half there.
LEMMA FindKeeps ==
  ASSUME SearchInv, Find
  PROVE  Searching' /\ SearchRight'
<1> DEFINE n == After(buffer, CurrConfigLoc)
<1>1. Sought \in Seen
  BY DEF Find
<1>2. /\ pc # "idle" /\ BytesRem > 0 /\ USB_GetNextDescriptor
      /\ buffer' = buffer /\ call' = call /\ from' = from
      /\ pc' = IF pc = "after" THEN "walk" ELSE "idle"
      /\ result' = IF call.function = "Comp" THEN "Found" ELSE "None"
      /\ result' # "Fail"
  BY DEF Find
<1>3. /\ Stops' = Stops /\ Expected' = Expected
      /\ Candidates' = Candidates /\ call'.Other = call.Other
  BY <1>2, SameStops DEF Candidates
<1>4. /\ CurrConfigLoc' = n /\ CurrConfigLoc \in 0 .. Len(buffer) - 1
      /\ CurrConfigLoc' + BytesRem' = Len(buffer) /\ BytesRem' \in Nat
      /\ n + 2 <= Len(buffer) => Sought = buffer[n + 2]
  BY <1>1, <1>2, NextOffset DEF SearchInv, USB_GetNextDescriptor
<1>5. buffer \in Seq(UInt8) /\ Len(buffer) \in Nat
  BY BuffersAssumption DEF SearchInv, IInv, TypeOK
<1>6. n \in 0 .. Len(buffer) /\ n \in Nat
  BY <1>4, <1>5, AfterInside
<1>7. Sought \in Wanted
  BY <1>2, WantedAre DEF SearchInv
<1>8. ASSUME pc = "after", Lost PROVE Searching' /\ SearchRight'
  <2>1. BytesRem' < 2
    BY <1>2, <1>8, StepsBack DEF USB_GetNextDescriptor
  <2>2. Lost'
    BY <1>3, <1>8, <2>1 DEF Lost
  <2> QED
    BY <1>2, <1>8, <2>2 DEF SearchInv, Searching, SearchRight
<1>9. ASSUME pc = "after", Scanning PROVE Searching' /\ SearchRight'
  <2> DEFINE T == OfTypes(buffer, Candidates, {call.Other})
  <2>1. T = OfTypes(buffer, Following(buffer, Start), Wanted)
    BY <1>9, OthersOfAfter
  <2>2. call.function = "OfTypeAfter" /\ pc' = "walk" /\ result' = "None"
    BY <1>2, <1>9 DEF SearchInv, Searching
  <2>3. CASE n + 2 <= Len(buffer)
    <3>1. T # {} /\ First(T) = n
      BY <1>4, <1>5, <1>7, <1>9, <2>1, <2>3, HitIsFirst DEF Scanning
    <3>2. Start' = n
      BY <1>2, <1>3, <2>2, <3>1 DEF Start
    <3>3. Scanned(buffer, n, n, Wanted')
      BY <1>5, <1>6, StartsScanned
    <3>4. Scanning'
      BY <1>2, <1>3, <1>4, <1>9, <3>1, <3>2, <3>3 DEF Scanning
    <3> QED
      BY <1>2, <2>2, <3>4 DEF SearchInv, Searching, SearchRight
  <2>4. CASE n + 2 > Len(buffer)
    <3>1. T = {}
      BY <1>4, <1>5, <1>9, <2>1, <2>4, NothingAhead DEF Scanning
    <3>2. Stops = {}
      BY <2>2, <3>1 DEF Stops
    <3>3. Lost'
      BY <1>3, <1>4, <1>5, <1>6, <2>4, <3>2 DEF Lost
    <3> QED
      BY <1>2, <2>2, <3>3 DEF SearchInv, Searching, SearchRight
  <2> QED
    BY <1>5, <1>6, <2>3, <2>4
<1>10. ASSUME pc # "after", Lost PROVE Searching' /\ SearchRight'
  <2>1. BytesRem' < 2
    BY <1>2, <1>10, StepsBack DEF USB_GetNextDescriptor
  <2>2. ~Expected'
    BY <1>3, <1>10 DEF Lost, Expected
  <2> QED
    BY <1>2, <1>10, <2>1, <2>2 DEF SearchInv, Searching, SearchRight
<1>11. ASSUME pc # "after", Scanning PROVE Searching' /\ SearchRight'
  <2>1. pc = "walk" /\ call.function \in Functions /\ pc' = "idle"
    BY <1>2, <1>11 DEF SearchInv, IInv, TypeOK, Searching
  <2>2. Stops = OfTypes(buffer, Following(buffer, Start), Wanted)
    BY <1>11, <2>1, StopsOfWalk
  <2>3. Sought = call.Type
    BY <1>11 DEF Sought
  <2>4. CASE n + 2 <= Len(buffer)
    <3>1. Stops # {} /\ First(Stops) = n
      BY <1>4, <1>5, <1>7, <1>11, <2>2, <2>4, HitIsFirst DEF Scanning
    <3>2. Stops' # {} /\ First(Stops') = n
      BY <1>3, <3>1
    <3>3. BytesRem' >= 2
      BY <1>4, <1>5, <1>6, <2>4
    <3>4. Expected'
      BY <1>2, <1>4, <2>3, <2>4, <3>2 DEF Expected
    <3> QED
      BY <1>2, <1>4, <2>1, <3>2, <3>3, <3>4 DEF SearchInv, Searching, SearchRight
  <2>5. CASE n + 2 > Len(buffer)
    <3>1. Stops = {}
      BY <1>4, <1>5, <1>11, <2>2, <2>5, NothingAhead DEF Scanning
    <3>2. ~Expected' /\ BytesRem' < 2
      BY <1>3, <1>4, <1>5, <1>6, <2>5, <3>1 DEF Expected
    <3> QED
      BY <1>2, <2>1, <3>2 DEF SearchInv, Searching, SearchRight
  <2> QED
    BY <1>5, <1>6, <2>4, <2>5
<1> QED
  BY <1>2, <1>8, <1>9, <1>10, <1>11 DEF SearchInv, Searching

\* BeforeType comes first: what was sought may not be found.
LEMMA ReachBeforeKeeps ==
  ASSUME SearchInv, ReachBefore
  PROVE  Searching' /\ SearchRight'
<1> DEFINE n == After(buffer, CurrConfigLoc)
<1>1. call.Other \in Seen /\ call.Other # call.Type
  BY DEF ReachBefore
<1>2. /\ pc = "walk" /\ call.function = "OfTypeBefore" /\ BytesRem > 0
      /\ pc' = "idle" /\ BytesRem' = 0
      /\ buffer' = buffer /\ call' = call /\ from' = from /\ result' = result
      /\ result = "None"
  BY DEF ReachBefore, SearchInv, Searching
<1>3. Stops' = Stops /\ Expected' = Expected
  BY <1>2, SameStops
<1>4. ~Expected
  <2>1. CASE Lost
    BY <2>1 DEF Lost, Expected
  <2>2. CASE Scanning
    <3>1. /\ CurrConfigLoc < Len(buffer)
          /\ n + 2 <= Len(buffer) => call.Other = buffer[n + 2]
          /\ n \in Nat /\ Len(buffer) \in Nat /\ buffer \in Seq(UInt8)
      <4>1. buffer \in Seq(UInt8) /\ Len(buffer) \in Nat
        BY BuffersAssumption DEF SearchInv, IInv, TypeOK
      <4> QED
        BY <1>1, <1>2, <4>1, NextOffset, AfterInside DEF SearchInv
    <3>2. call.Other \in Wanted
      BY <1>2, WantedAre DEF StopsAtOther
    <3>3. Stops = OfTypes(buffer, Following(buffer, Start), Wanted)
      BY <1>2, <2>2, StopsOfWalk DEF Functions
    <3>4. CASE n + 2 <= Len(buffer)
      <4>1. First(Stops) = n
        BY <2>2, <3>1, <3>2, <3>3, <3>4, HitIsFirst DEF Scanning
      <4> QED
        BY <1>1, <3>1, <3>4, <4>1 DEF Expected
    <3>5. CASE n + 2 > Len(buffer)
      <4>1. Stops = {}
        BY <2>2, <3>1, <3>3, <3>5, NothingAhead DEF Scanning
      <4> QED
        BY <4>1 DEF Expected
    <3> QED
      BY <3>1, <3>4, <3>5
  <2> QED
    BY <1>2, <2>1, <2>2 DEF SearchInv, Searching
<1> QED
  BY <1>2, <1>3, <1>4 DEF SearchInv, Searching, SearchRight

\* The comparator fails on the next descriptor: it is the first to stop at.
LEMMA ComparatorFailsKeeps ==
  ASSUME SearchInv, ComparatorFails
  PROVE  Searching' /\ SearchRight'
<1> DEFINE n == After(buffer, CurrConfigLoc)
<1>1. call.Other \in Seen /\ call.Other # call.Type
  BY DEF ComparatorFails, ComparatorRoutine
<1>2. /\ pc = "walk" /\ call.function = "Comp" /\ BytesRem > 0
      /\ pc' = "idle" /\ result' = "Fail"
      /\ CurrConfigLoc' = CurrConfigLoc /\ BytesRem' = BytesRem
      /\ buffer' = buffer /\ call' = call /\ from' = from
  BY DEF ComparatorFails
<1>3. Stops' = Stops /\ Expected' = Expected
      /\ After(buffer, CurrConfigLoc)' = n
  BY <1>2, SameStops
<1>4. /\ CurrConfigLoc \in 0 .. Len(buffer) - 1
      /\ n + 2 <= Len(buffer) => call.Other = buffer[n + 2]
      /\ CurrConfigLoc + BytesRem = Len(buffer)
      /\ BytesRem \in Nat
  BY <1>1, <1>2, NextOffset DEF SearchInv, IInv, TypeOK, InBuffer
<1>5. buffer \in Seq(UInt8) /\ Len(buffer) \in Nat
  BY BuffersAssumption DEF SearchInv, IInv, TypeOK
<1>6. n \in CurrConfigLoc .. Len(buffer) /\ n \in Nat
  BY <1>4, <1>5, AfterInside
<1>7. ASSUME n + 2 <= Len(buffer) PROVE Stops # {} /\ n = First(Stops) /\ ~Expected
  <2>1. ~Lost
    BY <1>4, <1>5, <1>6, <1>7 DEF Lost
  <2>2. Scanning
    BY <1>2, <2>1 DEF SearchInv, Searching
  <2>3. call.Other \in Wanted
    BY <1>2, WantedAre DEF StopsAtOther
  <2>4. Stops = OfTypes(buffer, Following(buffer, Start), Wanted)
    BY <1>2, <2>2, StopsOfWalk DEF Functions
  <2>5. Stops # {} /\ First(Stops) = n
    BY <1>4, <1>5, <1>7, <2>2, <2>3, <2>4, HitIsFirst DEF Scanning
  <2> QED
    BY <1>1, <1>4, <1>7, <2>5 DEF Expected
<1>8. /\ BytesRem' > 0
      /\ After(buffer', CurrConfigLoc') + 2 <= Len(buffer') =>
           Stops' # {} /\ After(buffer', CurrConfigLoc') = First(Stops') /\ ~Expected'
  BY <1>2, <1>3, <1>7
<1> QED
  BY <1>2, <1>8 DEF SearchInv, Searching, SearchRight

\* The end of the buffer: there was nothing to find.
LEMMA NothingRemainsKeeps ==
  ASSUME SearchInv, NothingRemains
  PROVE  Searching' /\ SearchRight'
<1>1. /\ pc # "idle" /\ BytesRem = 0
      /\ pc' = "idle" /\ result' # "Fail" /\ BytesRem' = 0
      /\ buffer' = buffer /\ call' = call /\ from' = from
  BY DEF NothingRemains
<1>2. Stops' = Stops /\ Expected' = Expected
  BY <1>1, SameStops
<1>3. Stops = {}
  <2>1. CASE Lost
    BY <2>1 DEF Lost
  <2>2. CASE Scanning
    <3>1. buffer \in Seq(UInt8)
      BY BuffersAssumption DEF SearchInv, IInv, TypeOK
    <3>2. CurrConfigLoc = Len(buffer)
      BY <1>1, <2>2 DEF Scanning, SearchInv, IInv, TypeOK
    <3>3. OfTypes(buffer, Following(buffer, Start), Wanted) = {}
      BY <2>2, <3>1, <3>2, NothingAhead DEF Scanning
    <3>4. CASE pc = "after"
      <4>1. OfTypes(buffer, Candidates, {call.Other}) = {}
        BY <2>2, <3>3, <3>4, OthersOfAfter
      <4>2. call.function = "OfTypeAfter"
        BY <3>4 DEF SearchInv, Searching
      <4> QED
        BY <4>1, <4>2 DEF Stops
    <3>5. CASE pc = "walk"
      BY <1>1, <2>2, <3>3, <3>5, StopsOfWalk DEF SearchInv, Searching
    <3> QED
      BY <1>1, <3>4, <3>5 DEF SearchInv, IInv, TypeOK
  <2> QED
    BY <1>1, <2>1, <2>2 DEF SearchInv, Searching
<1> QED
  BY <1>1, <1>2, <1>3 DEF SearchInv, Searching, SearchRight, Expected

\* Before the first search.
LEMMA SearchInit == Init => SearchInv
<1> SUFFICES ASSUME Init PROVE SearchInv
  OBVIOUS
<1>1. IInv
  BY InitInvariant
<1>2. Searching /\ SearchRight
  BY DEF Init, Searching, SearchRight
<1> QED
  BY <1>1, <1>2 DEF SearchInv

\* Every step keeps the invariant of the searches.
LEMMA SearchNext == SearchInv /\ [Next]_vars => SearchInv'
<1> SUFFICES ASSUME SearchInv, [Next]_vars PROVE SearchInv'
  OBVIOUS
<1>1. IInv'
  BY NextInvariant DEF SearchInv
<1>2. Searching' /\ SearchRight'
  <2>1. ASSUME NEW f \in Functions, NEW type \in SearchTypes,
               NEW other \in SearchTypes, Search(f, type, other)
        PROVE  Searching' /\ SearchRight'
    BY <2>1, SearchStarts
  <2>2. CASE PassBy
    BY <2>2, PassByKeeps
  <2>3. CASE Find
    BY <2>3, FindKeeps
  <2>4. CASE ReachBefore
    BY <2>4, ReachBeforeKeeps
  <2>5. CASE ComparatorFails
    BY <2>5, ComparatorFailsKeeps
  <2>6. CASE NothingRemains
    BY <2>6, NothingRemainsKeeps
  <2>7. CASE UNCHANGED vars
    <3>1. /\ buffer' = buffer /\ CurrConfigLoc' = CurrConfigLoc
          /\ BytesRem' = BytesRem /\ pc' = pc /\ call' = call /\ from' = from
          /\ result' = result
      BY <2>7 DEF vars
    <3>2. Stops' = Stops /\ Expected' = Expected /\ Start' = Start
          /\ Wanted' = Wanted /\ Candidates' = Candidates
      BY <3>1, SameStops DEF Start, Wanted, Candidates
    <3>3. Lost' = Lost /\ Scanning' = Scanning
      BY <3>1, <3>2 DEF Lost, Scanning
    <3> QED
      BY <3>1, <3>2, <3>3 DEF SearchInv, Searching, SearchRight
  <2> QED
    BY <2>1, <2>2, <2>3, <2>4, <2>5, <2>6, <2>7 DEF Next, Walk
<1> QED
  BY <1>1, <1>2 DEF SearchInv

\* A search has missed nothing between its start and its position, and a search
\* that is over was right.
THEOREM SearchInvariant == Spec => []SearchInv
BY SearchInit, SearchNext, PTL DEF Spec

\* For every buffer, whatever its sizes and types, and whatever lies behind it: a
\* search that returns stands on the first descriptor it was to find, or the
\* caller can tell that there is none (USB_GetNextDescriptorOfType, its Before and
\* After, and USB_GetNextDescriptorComp).
THEOREM AlwaysSearchRight == Spec => []SearchRight
<1>1. SearchInv => SearchRight
  BY DEF SearchInv
<1> QED
  BY SearchInvariant, <1>1, PTL

-----------------------------------------------------------------------------
(***************************************************************************)
(* The device's own configuration descriptor.  ConfigurationLayout says    *)
(* what its bytes are; the rest is one walk along it.                      *)
(***************************************************************************)

\* Where the endpoint descriptors of the device are.
EndpointOffsets == {32, 48, 55}

\* A walk along the device's configuration descriptor goes from structure to
\* structure, and comes by three endpoint descriptors.
LEMMA ConfigurationWalk ==
  ASSUME ConfigurationDescriptor \in Seq(UInt8)
  PROVE  /\ ConfigurationDescriptor # <<>> /\ ConfigurationDescriptor[1] # 0
         /\ OfTypes(ConfigurationDescriptor, Following(ConfigurationDescriptor, 0),
                    {DTYPE_Endpoint}) = EndpointOffsets
<1> DEFINE d == ConfigurationDescriptor
<1>1. /\ d \in Seq(UInt8) /\ Len(d) = 62
      /\ d[0 + 1] = 9 /\ d[9 + 1] = 9 /\ d[18 + 1] = 5 /\ d[23 + 1] = 4 /\ d[27 + 1] = 5
      /\ d[32 + 1] = 7 /\ d[39 + 1] = 9 /\ d[48 + 1] = 7 /\ d[55 + 1] = 7
  BY ConfigurationLayout
<1>2. /\ d[9 + 2] = 4 /\ d[18 + 2] = 36 /\ d[23 + 2] = 36 /\ d[27 + 2] = 36
      /\ d[32 + 2] = 5 /\ d[39 + 2] = 4 /\ d[48 + 2] = 5 /\ d[55 + 2] = 5
  BY ConfigurationLayout
<1> HIDE DEF d
<1>3. /\ After(d, 0) = 9 /\ After(d, 9) = 18 /\ After(d, 18) = 23 /\ After(d, 23) = 27
      /\ After(d, 27) = 32 /\ After(d, 32) = 39 /\ After(d, 39) = 48
      /\ After(d, 48) = 55 /\ After(d, 55) = 62
  BY <1>1 DEF After
<1>4. ASSUME NEW loc \in 0 .. 61, NEW next \in 1 .. 62, After(d, loc) = next,
             Scanned(d, 0, loc, {})
      PROVE  /\ Scanned(d, 0, next, {}) /\ Walked(d, 0, next)
             /\ \A q \in 0 .. 62 : Walked(d, 0, q) /\ q > loc => q >= next
  <2>1. Scanned(d, 0, next, {})
    <3>1. loc < Len(d) /\ d[After(d, loc) + 2] \notin {}
      BY <1>1
    <3>2. Scanned(d, 0, After(d, loc), {})
      BY <1>1, <1>4, <3>1, MissGoesOn
    <3> QED
      BY <1>4, <3>2
  <2>2. ASSUME NEW q \in 0 .. 62, Walked(d, 0, q), q > loc PROVE q >= next
    <3>1. /\ 0 \in 0 .. Len(d) /\ loc \in 0 .. Len(d) - 1 /\ q \in 0 .. Len(d)
      BY <1>1
    <3>2. After(d, loc) <= q
      BY <1>1, <1>4, <2>2, <3>1, NothingBetween DEF Scanned
    <3> QED
      BY <1>4, <3>2
  <2> QED
    BY <2>1, <2>2 DEF Scanned
<1>5. Scanned(d, 0, 0, {})
  <2>1. 0 \in 0 .. Len(d)
    BY <1>1
  <2> QED
    BY <1>1, <2>1, StartsScanned
<1> DEFINE Hop(loc, next) ==
      /\ Scanned(d, 0, next, {}) /\ Walked(d, 0, next)
      /\ \A q \in 0 .. 62 : Walked(d, 0, q) /\ q > loc => q >= next
<1>6. Hop(0, 9)  BY <1>3, <1>4, <1>5
<1>7. Hop(9, 18)  BY <1>3, <1>4, <1>6
<1>8. Hop(18, 23)  BY <1>3, <1>4, <1>7
<1>9. Hop(23, 27)  BY <1>3, <1>4, <1>8
<1>10. Hop(27, 32)  BY <1>3, <1>4, <1>9
<1>11. Hop(32, 39)  BY <1>3, <1>4, <1>10
<1>12. Hop(39, 48)  BY <1>3, <1>4, <1>11
<1>13. Hop(48, 55)  BY <1>3, <1>4, <1>12
<1>14. Hop(55, 62)  BY <1>3, <1>4, <1>13
<1>15. ASSUME NEW q \in OfTypes(d, Following(d, 0), {DTYPE_Endpoint})
       PROVE  q \in EndpointOffsets
  <2>1. /\ q \in 0 .. 60 /\ d[q + 2] = 5
        /\ Reached(d, 0)[q] \/ (q = 0 /\ After(d, 0) = 0)
    <3>1. q \in Following(d, 0) /\ d[q + 2] = 5
      BY DEF OfTypes, DTYPE_Endpoint
    <3>2. /\ q \in 0 .. Len(d) - 2
          /\ Reached(d, 0)[q] \/ (q = 0 /\ After(d, 0) = 0)
      BY <3>1, InFollowing
    <3>3. Len(d) - 2 = 60
      BY <1>1
    <3> QED
      BY <3>1, <3>2, <3>3
  <2>2. q # 0 /\ Walked(d, 0, q)
    <3>1. ~Reached(d, 0)[0]
      BY <1>1, NeverBack
    <3> QED
      BY <1>3, <2>1, <3>1 DEF Walked
  <2>3. q \in {9, 18, 23, 27, 32, 39, 48, 55}
    <3>1. q \in 0 .. 62 /\ q <= 60 /\ q > 0 /\ q \in Int
      BY <2>1, <2>2
    <3>2. /\ q > 0 => q >= 9
          /\ q > 9 => q >= 18
          /\ q > 18 => q >= 23
          /\ q > 23 => q >= 27
          /\ q > 27 => q >= 32
          /\ q > 32 => q >= 39
          /\ q > 39 => q >= 48
          /\ q > 48 => q >= 55
          /\ q > 55 => q >= 62
      BY <1>6, <1>7, <1>8, <1>9, <1>10, <1>11, <1>12, <1>13, <1>14, <2>2, <3>1
    <3> QED
      BY <3>1, <3>2
  <2> QED
    BY <1>2, <2>1, <2>3 DEF EndpointOffsets
<1>16. ASSUME NEW q \in EndpointOffsets
       PROVE  q \in OfTypes(d, Following(d, 0), {DTYPE_Endpoint})
  <2>1. Walked(d, 0, q) /\ q \in 0 .. 60 /\ q # 0 /\ d[q + 2] = 5
    <3>1. CASE q = 32
      BY <1>2, <1>10, <3>1
    <3>2. CASE q = 48
      BY <1>2, <1>12, <3>2
    <3>3. CASE q = 55
      BY <1>2, <1>13, <3>3
    <3> QED
      BY <3>1, <3>2, <3>3 DEF EndpointOffsets
  <2>2. q \in Following(d, 0)
    <3>1. q \in 0 .. Len(d) - 2
      BY <1>1, <2>1
    <3> QED
      BY <2>1, <3>1, InFollowing DEF Walked
  <2> QED
    BY <2>1, <2>2 DEF OfTypes, DTYPE_Endpoint
<1> QED
  BY <1>1, <1>15, <1>16 DEF d

\* A 16-bit member, the low byte first.
LEMMA SizeWord ==
  ASSUME NEW d \in Seq(UInt8), NEW k \in 1 .. Len(d) - 1,
         NEW l, l = k + 1
  PROVE  Word16(SubSeq(d, k, l)) = d[k] + 256 * d[l]
<1>1. /\ Len(SubSeq(d, k, l)) = 2
      /\ SubSeq(d, k, l)[1] = d[k] /\ SubSeq(d, k, l)[2] = d[l]
  OBVIOUS
<1> QED
  BY <1>1 DEF Word16

\* The position is at the start only if nothing was skipped.
AtStart ==
  buffer # <<>> /\ buffer[1] # 0 =>
    /\ CurrConfigLoc = 0 => BytesRem = Len(buffer)
    /\ from.loc = 0 => from.rem = Len(buffer)

\* Before the first search.
LEMMA StartInit == Init => AtStart
BY DEF Init, AtStart

\* A descriptor with a size is skipped.
LEMMA StartMoves ==
  ASSUME IInv, AtStart, BytesRem > 0, buffer # <<>>, buffer[1] # 0
  PROVE  CurrConfigLoc + Skipped # 0
<1>1. CurrConfigLoc \in Nat /\ BytesRem \in Nat /\ Skipped \in Nat
  BY SkippedRemains DEF IInv, TypeOK
<1>2. ASSUME CurrConfigLoc = 0 PROVE Skipped # 0
  <2>1. DESCRIPTOR_SIZE(CurrConfigLoc) # 0
    BY <1>2 DEF DESCRIPTOR_SIZE
  <2> QED
    BY <2>1 DEF Skipped
<1> QED
  BY <1>1, <1>2

\* No step comes back to the start.
LEMMA StartNext == IInv /\ AtStart /\ [Next]_vars => AtStart'
<1> SUFFICES ASSUME IInv, AtStart, [Next]_vars PROVE AtStart'
  OBVIOUS
<1>0. buffer' = buffer
  <2>1. PassBy => buffer' = buffer
    BY DEF PassBy
  <2>2. Find => buffer' = buffer
    BY DEF Find
  <2>3. ReachBefore => buffer' = buffer
    BY DEF ReachBefore
  <2>4. ComparatorFails => buffer' = buffer
    BY DEF ComparatorFails
  <2>5. NothingRemains => buffer' = buffer
    BY DEF NothingRemains
  <2>6. Walk => buffer' = buffer
    BY <2>1, <2>2, <2>3, <2>4, <2>5 DEF Walk
  <2>7. CASE \E f \in Functions, type, other \in SearchTypes : Search(f, type, other)
    BY <2>7 DEF Search
  <2>8. CASE UNCHANGED vars
    BY <2>8 DEF vars
  <2> QED
    BY <2>6, <2>7, <2>8 DEF Next
<1> SUFFICES ASSUME buffer # <<>>, buffer[1] # 0 PROVE AtStart'
  BY <1>0 DEF AtStart
<1>1. ASSUME NEW f \in Functions, NEW type \in SearchTypes,
             NEW other \in SearchTypes, Search(f, type, other)
      PROVE  AtStart'
  BY <1>1 DEF Search, AtStart
<1>2. CASE PassBy
  BY <1>2, StartMoves DEF PassBy, USB_GetNextDescriptor, AtStart
<1>3. CASE Find
  BY <1>3, StartMoves DEF Find, USB_GetNextDescriptor, AtStart
<1>4. CASE ReachBefore
  BY <1>4, StartMoves DEF ReachBefore, AtStart
<1>5. CASE ComparatorFails
  BY <1>5 DEF ComparatorFails, AtStart
<1>6. CASE NothingRemains
  BY <1>6 DEF NothingRemains, AtStart
<1>7. CASE UNCHANGED vars
  BY <1>7 DEF vars, AtStart
<1> QED
  BY <1>1, <1>2, <1>3, <1>4, <1>5, <1>6, <1>7 DEF Next, Walk

\* A walk from the start finds the endpoints of the driver.
LEMMA DriverEndpointsFound ==
  ASSUME IInv, AtStart
  PROVE  EndpointsMatchDriver
<1> DEFINE at(q) == <<buffer[q + 3], buffer[q + 4],
                      Word16(SubSeq(buffer, q + 5, q + 6))>>
<1> SUFFICES ASSUME buffer = ConfigurationDescriptor, from.loc = 0
             PROVE  {at(q) : q \in OfTypes(buffer, Candidates, {DTYPE_Endpoint})}
                    = DriverEndpoints
  BY DEF EndpointsMatchDriver
<1>1. buffer \in Seq(UInt8) /\ Len(buffer) = 62
  BY BuffersAssumption, ConfigurationLayout DEF IInv, TypeOK
<1>2. buffer # <<>> /\ buffer[1] # 0
      /\ OfTypes(buffer, Following(buffer, 0), {DTYPE_Endpoint}) = EndpointOffsets
  BY <1>1, ConfigurationWalk
<1>3. from.rem # 0
  BY <1>1, <1>2 DEF AtStart
<1>4. OfTypes(buffer, Candidates, {DTYPE_Endpoint}) = EndpointOffsets
  BY <1>2, <1>3 DEF Candidates
<1>5. at(32) = <<130, 3, 8>> /\ at(48) = <<4, 2, 16>> /\ at(55) = <<131, 2, 16>>
  <2>1. ASSUME NEW q \in {32, 48, 55}
        PROVE  Word16(SubSeq(buffer, q + 5, q + 6)) = buffer[q + 5] + 256 * buffer[q + 6]
    <3> DEFINE k == q + 5
               l == q + 6
    <3>1. k \in 1 .. Len(buffer) - 1 /\ l = k + 1
      BY <1>1
    <3> HIDE DEF k, l
    <3>2. Word16(SubSeq(buffer, k, l)) = buffer[k] + 256 * buffer[l]
      <4>1. buffer \in Seq(UInt8)
        BY <1>1
      <4> QED
        BY ONLY <3>1, <4>1, SizeWord
    <3> QED
      BY <3>2 DEF k, l
  <2>2. /\ buffer[32 + 3] = 130 /\ buffer[32 + 4] = 3
        /\ buffer[32 + 5] = 8 /\ buffer[32 + 6] = 0
        /\ buffer[48 + 3] = 4 /\ buffer[48 + 4] = 2
        /\ buffer[48 + 5] = 16 /\ buffer[48 + 6] = 0
        /\ buffer[55 + 3] = 131 /\ buffer[55 + 4] = 2
        /\ buffer[55 + 5] = 16 /\ buffer[55 + 6] = 0
    BY ConfigurationLayout
  <2> QED
    BY <2>1, <2>2
<1>6. DriverEndpoints = {<<131, 2, 16>>, <<4, 2, 16>>, <<130, 3, 8>>}
  BY DEF DriverEndpoints, CDC_TX_EPADDR, CDC_RX_EPADDR, CDC_NOTIFICATION_EPADDR,
         ENDPOINT_DIR_IN, ENDPOINT_DIR_OUT, EP_TYPE_BULK, EP_TYPE_INTERRUPT,
         CDC_TXRX_EPSIZE, CDC_NOTIFICATION_EPSIZE
<1>7. {at(q) : q \in EndpointOffsets} = {at(32), at(48), at(55)}
  BY DEF EndpointOffsets
<1> HIDE DEF at
<1> QED
  BY <1>4, <1>5, <1>6, <1>7

\* For every set of buffers: whenever a search of the device's own configuration
\* descriptor from its start has returned, the endpoint descriptors along it are
\* those of the endpoints CDC_Device_ConfigureEndpoints sets up.
THEOREM AlwaysEndpointsMatch == Spec => []EndpointsMatchDriver
<1>1. Init => IInv /\ AtStart
  BY InitInvariant, StartInit
<1>2. (IInv /\ AtStart) /\ [Next]_vars => (IInv /\ AtStart)'
  BY NextInvariant, StartNext
<1>3. IInv /\ AtStart => EndpointsMatchDriver
  BY DriverEndpointsFound
<1> QED
  BY <1>1, <1>2, <1>3, PTL DEF Spec
=============================================================================
