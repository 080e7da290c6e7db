------------------------- MODULE ConfigDescriptors -------------------------
(***************************************************************************)
(* The parser of configuration descriptors (ConfigDescriptors.c): a        *)
(* position in a buffer of descriptors, the number of bytes that remain,   *)
(* and four functions that search from there.  Positions are offsets from  *)
(* the start of the buffer.  The code reads the size and the type of a     *)
(* descriptor without a look at what remains, so a read may fall behind    *)
(* the buffer, where any byte may be.                                      *)
(***************************************************************************)
EXTENDS Descriptors, FiniteSets

CONSTANTS
  Buffers,      \* the configuration descriptors to search
  SearchTypes,  \* the types to search for
  Beyond        \* the bytes that may lie behind a buffer

ASSUME BuffersAssumption == Buffers \subseteq Seq(UInt8)
ASSUME SearchTypesAssumption == SearchTypes \subseteq UInt8
ASSUME BeyondAssumption == Beyond \subseteq UInt8 /\ Beyond # {}

VARIABLES
  buffer,                   \* the configuration descriptor
  CurrConfigLoc, BytesRem,  \* the caller's position, and what remains
  pc,                       \* "idle", "walk", or "after": looking for AfterType
  call,                     \* the function that runs, or ran last
  from,                     \* the position it started from
  result                    \* what USB_GetNextDescriptorComp returned

vars == <<buffer, CurrConfigLoc, BytesRem, pc, call, from, result>>

Functions == {"OfType", "OfTypeBefore", "OfTypeAfter", "Comp"}
Results == {"None", "Found", "Fail", "EndOfDescriptor"}
NoCall == [function |-> "None", Type |-> 0, Other |-> 0]

Init ==
  /\ buffer \in Buffers
  /\ CurrConfigLoc = 0 /\ BytesRem = Len(buffer)
  /\ pc = "idle" /\ call = NoCall /\ result = "None"
  /\ from = [loc |-> 0, rem |-> Len(buffer)]

\* DESCRIPTOR_SIZE and DESCRIPTOR_TYPE of what lies at an offset.
DESCRIPTOR_SIZE(loc) == buffer[loc + 1]
DESCRIPTOR_TYPE(loc) == IF loc + 2 <= Len(buffer) THEN {buffer[loc + 2]} ELSE Beyond

\* The caller starts a search; Other is BeforeType or AfterType, or the type on
\* which its comparator fails.
Search(f, type, other) ==
  /\ pc = "idle"
  /\ call' = [function |-> f, Type |-> type, Other |-> other]
  /\ pc' = IF f = "OfTypeAfter" THEN "after" ELSE "walk"
  /\ from' = [loc |-> CurrConfigLoc, rem |-> BytesRem]
  /\ result' = "None"
  /\ UNCHANGED <<buffer, CurrConfigLoc, BytesRem>>

\* Mutated Skipped: the size is not limited to what remains.
SkippedUnlimited == DESCRIPTOR_SIZE(CurrConfigLoc)

\* The bytes USB_GetNextDescriptor skips.
Skipped ==
  IF BytesRem < DESCRIPTOR_SIZE(CurrConfigLoc) THEN BytesRem
                                               ELSE DESCRIPTOR_SIZE(CurrConfigLoc)

USB_GetNextDescriptor ==
  /\ CurrConfigLoc' = CurrConfigLoc + Skipped
  /\ BytesRem' = BytesRem - Skipped

Seen == DESCRIPTOR_TYPE(CurrConfigLoc + Skipped)
Sought == IF pc = "after" THEN call.Other ELSE call.Type

\* The caller's comparator looks for one type and fails on the other.
ComparatorRoutine(seen) ==
  IF seen = call.Type THEN "Found" ELSE IF seen = call.Other THEN "Fail" ELSE "NotFound"

StopsAtOther == pc = "walk" /\ call.function \in {"OfTypeBefore", "Comp"}

\* Mutated PassBy: the search does not go on to the next descriptor.
PassByStaying ==
  /\ pc # "idle" /\ BytesRem > 0
  /\ \E seen \in Seen : seen # Sought /\ (StopsAtOther => seen # call.Other)
  /\ UNCHANGED vars

\* A descriptor of no interest.
PassBy ==
  /\ pc # "idle" /\ BytesRem > 0
  /\ \E seen \in Seen : seen # Sought /\ (StopsAtOther => seen # call.Other)
  /\ USB_GetNextDescriptor
  /\ UNCHANGED <<buffer, pc, call, from, result>>

\* The descriptor looked for.  OfTypeAfter goes on from it with the other type.
Find ==
  /\ pc # "idle" /\ BytesRem > 0
  /\ \E seen \in Seen : seen = Sought
  /\ USB_GetNextDescriptor
  /\ pc' = IF pc = "after" THEN "walk" ELSE "idle"
  /\ result' = IF call.function = "Comp" THEN "Found" ELSE "None"
  /\ UNCHANGED <<buffer, call, from>>

\* OfTypeBefore came to BeforeType first: nothing remains.
ReachBefore ==
  /\ pc = "walk" /\ call.function = "OfTypeBefore" /\ BytesRem > 0
  /\ \E seen \in Seen : seen = call.Other /\ seen # call.Type
  /\ CurrConfigLoc' = CurrConfigLoc + Skipped
  /\ BytesRem' = 0
  /\ pc' = "idle"
  /\ UNCHANGED <<buffer, call, from, result>>

\* Mutated ComparatorFails: the position stays on the descriptor that failed.
ComparatorFailsForward ==
  /\ pc = "walk" /\ call.function = "Comp" /\ BytesRem > 0
  /\ \E seen \in Seen : ComparatorRoutine(seen) = "Fail"
  /\ USB_GetNextDescriptor
  /\ pc' = "idle" /\ result' = "Fail"
  /\ UNCHANGED <<buffer, call, from>>

\* The comparator fails the search: the position is taken back by a descriptor.
ComparatorFails ==
  /\ pc = "walk" /\ call.function = "Comp" /\ BytesRem > 0
  /\ \E seen \in Seen : ComparatorRoutine(seen) = "Fail"
  /\ pc' = "idle" /\ result' = "Fail"
  /\ UNCHANGED <<buffer, CurrConfigLoc, BytesRem, call, from>>

NothingRemains ==
  /\ pc # "idle" /\ BytesRem = 0
  /\ pc' = "idle"
  /\ result' = IF call.function = "Comp" THEN "EndOfDescriptor" ELSE "None"
  /\ UNCHANGED <<buffer, CurrConfigLoc, BytesRem, call, from>>

Walk == PassBy \/ Find \/ ReachBefore \/ ComparatorFails \/ NothingRemains

Next ==
  \/ Walk
  \/ \E f \in Functions, type, other \in SearchTypes : Search(f, type, other)

Spec == Init /\ [][Next]_vars

\* A function that was called runs.
FairSpec == Spec /\ WF_vars(Walk)

-----------------------------------------------------------------------------
(***************************************************************************)
(* Properties.                                                             *)
(***************************************************************************)

\* Every variable stays in its set; BytesRem (uint16_t) does not wrap.
TypeOK ==
  /\ buffer \in Buffers
  /\ CurrConfigLoc \in Nat /\ BytesRem \in Nat
  /\ pc \in {"idle", "walk", "after"}
  /\ call \in [function : Functions, Type : UInt8, Other : UInt8] \cup {NoCall}
  /\ from \in [loc : Nat, rem : Nat]
  /\ result \in Results

\* Whatever the sizes in the descriptors say, the position stays in the buffer
\* and what remains is what lies between it and the end, unless OfTypeBefore
\* gave up (USB_GetNextDescriptor limits the size to BytesRem).
InBuffer ==
  /\ CurrConfigLoc + BytesRem <= Len(buffer)
  /\ BytesRem > 0 => CurrConfigLoc + BytesRem = Len(buffer)

(***************************************************************************)
(* What a search should find in the descriptors d.  Following(d, p) are    *)
(* the offsets at which a walk that stands at p arrives; a descriptor      *)
(* without size follows itself.  Only an offset with a whole header is a   *)
(* descriptor.                                                             *)
(***************************************************************************)
After(d, p) == IF p + d[p + 1] < Len(d) THEN p + d[p + 1] ELSE Len(d)

Following(d, p) ==
  LET reached[q \in p .. Len(d)] ==
        \E o \in p .. q - 1 : After(d, o) = q /\ (o = p \/ reached[o])
  IN {q \in p .. Len(d) - 2 : reached[q] \/ (q = p /\ After(d, p) = p)}

OfTypes(d, offsets, types) == {q \in offsets : d[q + 2] \in types}
First(offsets) == CHOOSE q \in offsets : \A o \in offsets : q <= o

Candidates == IF from.rem = 0 THEN {} ELSE Following(buffer, from.loc)

\* The offsets a search may stop at, of which it should choose the first.
Stops ==
  CASE call.function = "OfType" -> OfTypes(buffer, Candidates, {call.Type})
    [] call.function = "OfTypeAfter" ->
         LET other == OfTypes(buffer, Candidates, {call.Other})
         IN IF other = {} THEN {}
            ELSE OfTypes(buffer, Following(buffer, First(other)), {call.Type})
    [] OTHER -> OfTypes(buffer, Candidates, {call.Type, call.Other})

Expected ==
  /\ Stops # {}
  /\ buffer[First(Stops) + 2] = call.Type

\* A search that returns stands on the first descriptor it was to find, if
\* there is one, and else the caller can tell: less than a header remains (or
\* the comparator failed).  After a failure the next search starts with the
\* descriptor that failed it.
SearchRight ==
  pc = "idle" /\ call # NoCall =>
    IF result = "Fail"
    THEN /\ BytesRem > 0
         /\ After(buffer, CurrConfigLoc) + 2 <= Len(buffer) =>
              Stops # {} /\ After(buffer, CurrConfigLoc) = First(Stops) /\ ~Expected
    ELSE IF Expected
    THEN BytesRem >= 2 /\ CurrConfigLoc = First(Stops)
    ELSE BytesRem < 2

\* Every search ends, unless it stands on a descriptor that says it has no size.
NoSize == BytesRem > 0 /\ DESCRIPTOR_SIZE(CurrConfigLoc) = 0
SearchEnds == pc # "idle" ~> (pc = "idle" \/ NoSize)

\* The endpoints of cdcif in main.c, as CDC_Device_ConfigureEndpoints sets them
\* up: address, type and size.
DriverEndpoints ==
  {<<CDC_TX_EPADDR, EP_TYPE_BULK, CDC_TXRX_EPSIZE>>,
   <<CDC_RX_EPADDR, EP_TYPE_BULK, CDC_TXRX_EPSIZE>>,
   <<CDC_NOTIFICATION_EPADDR, EP_TYPE_INTERRUPT, CDC_NOTIFICATION_EPSIZE>>}

\* Walking the device's own configuration descriptor, a host finds endpoint
\* descriptors of just those endpoints that the driver configures, as it
\* configures them (Descriptors.c and CDC_Device_ConfigureEndpoints).
EndpointsMatchDriver ==
  LET at(q) == <<buffer[q + 3], buffer[q + 4], Word16(SubSeq(buffer, q + 5, q + 6))>>
  IN buffer = ConfigurationDescriptor /\ from.loc = 0 /\ pc = "idle" =>
       {at(q) : q \in OfTypes(buffer, Candidates, {DTYPE_Endpoint})} = DriverEndpoints

\* DESCRIPTOR_SEARCH_COMP_Found: `Configuration descriptor now points to
\* descriptor which matches search criteria of the given comparator function.'
FoundIsThere == result = "Found" => BytesRem >= 2
=============================================================================
