-------------------------- MODULE CdcDevice_proofs --------------------------
(***************************************************************************)
(* The CDC driver.  The sending half implements the byte channel: its      *)
(* invariant IInv says what a call under way may rely on: the program      *)
(* position it works for, the endpoint it has selected (unless a bus reset *)
(* has selected the control endpoint, and then the channel is disturbed),  *)
(* and that SendByte finds room in the bank when it writes.  On top of it, *)
(* each with an invariant of its own: the frames of a wait, the receiving  *)
(* half (RecvInv), the ranges of the variables (Budget, Ranges), what      *)
(* Flush leaves behind (FlushInv) and the notification (NoteInv).          *)
(***************************************************************************)
EXTENDS CdcDevice, TLAPS

Data == {"SendData", "Write_Stream", "Null_Stream"}

\* Where each kind of call can be.
Places(op) ==
  CASE op = "none" -> {"idle"}
    [] op \in Data \cup Reading \cup {"Header"} ->
         {"select", "poll", "check", "turn"}
    [] op = "State" -> {"poll", "check", "turn", "clear"}
    [] op = "SendByte" ->
         {"select", "room", "clear", "poll", "check", "write"}
    [] op \in Flushing ->
         {"select", "bytes", "full", "clear", "poll", "check", "last"}
    [] OTHER -> {"select", "received", "take", "release", "blocked", "usbtask",
                 "again"}

Ops == {"none", "SendByte"} \cup Streams \cup Flushing \cup Receiving

Labels == {"idle", "select", "poll", "check", "turn", "clear", "room", "write",
           "bytes", "full", "last", "received", "take", "release", "blocked",
           "usbtask", "again"}

CallRecords ==
  [op : Ops, at : Labels, from : Nat, len : Nat, left : Nat, then : Labels,
   rem : Nat, moved : BOOLEAN, frames : Nat, full : BOOLEAN]

\* What follows a wait.
After(op) ==
  IF op \in Streams THEN "turn" ELSE IF op = "SendByte" THEN "write"
          ELSE "last"

Waits == {"poll", "check"}

Types ==
  /\ bank \in [INs -> [bytes : Seq(Nat), busy : BOOLEAN]]
  /\ Len(bank["IN"].bytes) =< BankSize
  /\ got \in Nat /\ disturbed \in BOOLEAN
  /\ msg \in [base : Nat, len : Nat, processed : Nat]
  /\ sel \in INs \cup {"OUT", "EP0"}
  /\ call \in CallRecords
  /\ call.left =< call.len

CallShape ==
  /\ call.at \in Places(call.op)
  /\ call.at \in Waits => call.then = After(call.op)
  /\ call.op \in Data => call.from = msg.base
  /\ call.op = "SendData" => msg.processed = 0
  /\ call.op \in Resumable =>
       /\ msg.len = call.len /\ msg.processed =< call.len - call.left
       /\ call.at \in {"select"} \cup Waits =>
            call.left = call.len - msg.processed
  /\ call.op = "SendByte" =>
       /\ call.from = msg.base /\ msg.processed = 0
       /\ call.len = 1 /\ call.left = 1

Selected ==
  call.at \notin {"idle", "select", "usbtask", "again", "blocked"}
    => sel = EndpointOf(call.op) \/ (sel = "EP0" /\ disturbed)

Room ==
  (call.op = "SendByte" /\ sel = "IN") =>
    /\ call.at = "write" => /\ ~bank["IN"].busy
                            /\ Len(bank["IN"].bytes) < BankSize
    /\ call.at \in Waits => bank["IN"].busy \/ bank["IN"].bytes = <<>>

\* The frames a wait has seen: the ones counted down and the one not yet
\* looked at.
Frames ==
  call.at \in Waits =>
    \/ call.frames > USB_STREAM_TIMEOUT_MS
    \/ call.frames + call.rem >=
         USB_STREAM_TIMEOUT_MS + (IF call.moved THEN 1 ELSE 0)

IInv == Types /\ CallShape /\ Selected /\ Room

-----------------------------------------------------------------------------
(* The steps of the channel, in terms of the driver's variables. *)

Pipe == bank["IN"].bytes

Still ==
  Written' = Written /\ Pipe' = Pipe /\ got' = got /\ disturbed' = disturbed
PutStep ==
  /\ Len(Pipe) < BankSize /\ Pipe' = Append(Pipe, Written + 1)
  /\ Written' = Written + 1 /\ got' = got /\ disturbed' = disturbed
TakeStep ==
  /\ Pipe # <<>> /\ got' = Pipe[Len(Pipe)] /\ Pipe' = <<>>
  /\ Written' = Written /\ disturbed' = disturbed
DisturbStep ==
  /\ disturbed' = TRUE /\ Pipe' \in {Pipe, <<>>}
  /\ Written' \in Nat /\ Written' >= Written /\ got' = got

\* What is left incomplete is no longer than the data.
Progress == msg.processed =< msg.len

ChannelStep == Still \/ PutStep \/ TakeStep \/ DisturbStep

\* The record that stands for "no call" is a call record.
LEMMA NoCallTyped == NoCall \in CallRecords /\ NoCall.left =< NoCall.len
BY DEF NoCall, Call, CallRecords, Labels, Ops

\* So is the one getchar_Blocking continues with after its Flush.
LEMMA GetcharAgainTyped ==
  GetcharAgain \in CallRecords /\ GetcharAgain.left =< GetcharAgain.len
BY DEF GetcharAgain, Call, CallRecords, Labels, Ops, Receiving

\* Returning to the main program establishes all that is required of a call.
LEMMA IdleShape ==
  ASSUME call' = NoCall
  PROVE  CallShape' /\ Selected' /\ Room'
<1>1. call'.op = "none" /\ call'.at = "idle"
  BY DEF NoCall, Call
<1>2. CallShape'
  BY <1>1
     DEF CallShape, Places, Waits, Data, Resumable, Reading, Flushing,
         Receiving, Streams
<1>3. Selected'
  BY <1>1 DEF Selected
<1>4. Room'
  BY <1>1 DEF Room
<1> QED BY <1>2, <1>3, <1>4

\* Selecting the endpoint of a call moves no byte.
LEMMA Endpoint_SelectEndpointStep ==
  IInv /\ Endpoint_SelectEndpoint => IInv' /\ ChannelStep
<1> SUFFICES ASSUME IInv, Endpoint_SelectEndpoint PROVE IInv' /\ ChannelStep
  OBVIOUS
<1> USE SizesAssumption DEF IInv, Types, Endpoint_SelectEndpoint, sending,
        Waiting, EndpointOf, INs
<1>1. call' \in CallRecords /\ call'.left =< call'.len
  <2>1. CASE call.op \in Streams
    BY <2>1
       DEF CallRecords, Labels, Ops, Data, Streams, Resumable, Reading,
           Receiving, Flushing
  <2>2. CASE call.op \in Receiving
    BY <2>2
       DEF CallRecords, Labels, Ops, Data, Streams, Resumable, Reading,
           Receiving, Flushing
  <2>3. CASE call.op = "SendByte"
    BY <2>3
       DEF CallRecords, Labels, Ops, Data, Streams, Resumable, Reading,
           Receiving, Flushing
  <2>4. CASE call.op \in Flushing
    BY <2>4
       DEF CallRecords, Labels, Ops, Data, Streams, Resumable, Reading,
           Receiving, Flushing
  <2>5. CASE call.op = "none"
    BY <2>5
       DEF CallRecords, Labels, Ops, Data, Streams, Resumable, Reading,
           Receiving, Flushing
  <2> QED BY <2>1, <2>2, <2>3, <2>4, <2>5 DEF Ops, CallRecords
<1>2. CallShape'
  <2>1. CASE call.op \in Streams
    BY <2>1
       DEF CallShape, CallRecords, Places, Waits, After, Ops, Data,
           Streams, Resumable, Reading, Receiving, Flushing
  <2>2. CASE call.op \in Receiving
    BY <2>2
       DEF CallShape, CallRecords, Places, Waits, After, Ops, Data,
           Streams, Resumable, Reading, Receiving, Flushing
  <2>3. CASE call.op = "SendByte"
    BY <2>3
       DEF CallShape, CallRecords, Places, Waits, After, Ops, Data,
           Streams, Resumable, Reading, Receiving, Flushing
  <2>4. CASE call.op \in Flushing
    BY <2>4
       DEF CallShape, CallRecords, Places, Waits, After, Ops, Data,
           Streams, Resumable, Reading, Receiving, Flushing
  <2>5. CASE call.op = "none"
    BY <2>5
       DEF CallShape, CallRecords, Places, Waits, After, Ops, Data,
           Streams, Resumable, Reading, Receiving, Flushing
  <2> QED BY <2>1, <2>2, <2>3, <2>4, <2>5 DEF Ops, CallRecords
<1>3. Selected'
  <2>1. CASE call.op \in Streams
    BY <2>1
       DEF Selected, CallShape, CallRecords, Places, EndpointOf, Ops, Data,
           Streams, Resumable, Reading, Receiving, Flushing
  <2>2. CASE call.op \in Receiving
    BY <2>2
       DEF Selected, CallShape, CallRecords, Places, EndpointOf, Ops, Data,
           Streams, Resumable, Reading, Receiving, Flushing
  <2>3. CASE call.op = "SendByte"
    BY <2>3
       DEF Selected, CallShape, CallRecords, Places, EndpointOf, Ops, Data,
           Streams, Resumable, Reading, Receiving, Flushing
  <2>4. CASE call.op \in Flushing
    BY <2>4
       DEF Selected, CallShape, CallRecords, Places, EndpointOf, Ops, Data,
           Streams, Resumable, Reading, Receiving, Flushing
  <2>5. CASE call.op = "none"
    BY <2>5
       DEF Selected, CallShape, CallRecords, Places, EndpointOf, Ops, Data,
           Streams, Resumable, Reading, Receiving, Flushing
  <2> QED BY <2>1, <2>2, <2>3, <2>4, <2>5 DEF Ops, CallRecords
<1>4. Room'
  <2>1. CASE call.op \in Streams
    BY <2>1
       DEF Room, CallShape, CallRecords, Places, Waits, After, Ops, Data,
           Streams, Resumable, Reading, Receiving, Flushing
  <2>2. CASE call.op \in Receiving
    BY <2>2
       DEF Room, CallShape, CallRecords, Places, Waits, After, Ops, Data,
           Streams, Resumable, Reading, Receiving, Flushing
  <2>3. CASE call.op = "SendByte"
    BY <2>3
       DEF Room, CallShape, CallRecords, Places, Waits, After, Ops, Data,
           Streams, Resumable, Reading, Receiving, Flushing
  <2>4. CASE call.op \in Flushing
    BY <2>4
       DEF Room, CallShape, CallRecords, Places, Waits, After, Ops, Data,
           Streams, Resumable, Reading, Receiving, Flushing
  <2>5. CASE call.op = "none"
    BY <2>5
       DEF Room, CallShape, CallRecords, Places, Waits, After, Ops, Data,
           Streams, Resumable, Reading, Receiving, Flushing
  <2> QED BY <2>1, <2>2, <2>3, <2>4, <2>5 DEF Ops, CallRecords
<1>5. Still
  <2>1. CASE call.op \in Streams
    BY <2>1
       DEF Still, Written, Pipe, CallShape, CallRecords, Places, Ops, Data,
           Streams, Resumable, Reading, Receiving, Flushing
  <2>2. CASE call.op \in Receiving
    BY <2>2
       DEF Still, Written, Pipe, CallShape, CallRecords, Places, Ops, Data,
           Streams, Resumable, Reading, Receiving, Flushing
  <2>3. CASE call.op = "SendByte"
    BY <2>3
       DEF Still, Written, Pipe, CallShape, CallRecords, Places, Ops, Data,
           Streams, Resumable, Reading, Receiving, Flushing
  <2>4. CASE call.op \in Flushing
    BY <2>4
       DEF Still, Written, Pipe, CallShape, CallRecords, Places, Ops, Data,
           Streams, Resumable, Reading, Receiving, Flushing
  <2>5. CASE call.op = "none"
    BY <2>5
       DEF Still, Written, Pipe, CallShape, CallRecords, Places, Ops, Data,
           Streams, Resumable, Reading, Receiving, Flushing
  <2> QED BY <2>1, <2>2, <2>3, <2>4, <2>5 DEF Ops, CallRecords
<1>6. Types'
  BY <1>1 DEF INs
<1> QED BY <1>2, <1>3, <1>4, <1>5, <1>6 DEF ChannelStep

\* SendByte's test for room moves no byte; if it goes on to write, there is
\* room.
LEMMA SendByteRoomStep == IInv /\ SendByteRoom => IInv' /\ ChannelStep
<1> SUFFICES ASSUME IInv, SendByteRoom PROVE IInv' /\ ChannelStep
  OBVIOUS
<1> USE SizesAssumption DEF IInv, Types, SendByteRoom, sending
<1>0. \/ /\ call' = [call EXCEPT !.at = "write"]
         /\ (sel = "IN" => ~bank["IN"].busy /\ Len(bank["IN"].bytes) < BankSize)
      \/ call' = [call EXCEPT !.at = "clear"]
  BY DEF Goto, ReadWriteAllowed, SizeOf, INs
<1>1. call' \in CallRecords /\ call'.left =< call'.len
  <2>1. CASE /\ call' = [call EXCEPT !.at = "write"]
             /\ (sel = "IN" => ~bank["IN"].busy /\ Len(bank["IN"].bytes) < BankSize)
    BY <2>1
       DEF CallRecords, Labels, Ops, Data, Streams, Resumable, Reading,
           Receiving, Flushing
  <2>2. CASE call' = [call EXCEPT !.at = "clear"]
    BY <2>2
       DEF CallRecords, Labels, Ops, Data, Streams, Resumable, Reading,
           Receiving, Flushing
  <2> QED BY <1>0, <2>1, <2>2
<1>2. CallShape'
  <2>1. CASE /\ call' = [call EXCEPT !.at = "write"]
             /\ (sel = "IN" => ~bank["IN"].busy /\ Len(bank["IN"].bytes) < BankSize)
    BY <2>1
       DEF CallShape, CallRecords, Places, Waits, After, Ops, Data,
           Streams, Resumable, Reading, Receiving, Flushing
  <2>2. CASE call' = [call EXCEPT !.at = "clear"]
    BY <2>2
       DEF CallShape, CallRecords, Places, Waits, After, Ops, Data,
           Streams, Resumable, Reading, Receiving, Flushing
  <2> QED BY <1>0, <2>1, <2>2
<1>3. Selected'
  <2>1. CASE /\ call' = [call EXCEPT !.at = "write"]
             /\ (sel = "IN" => ~bank["IN"].busy /\ Len(bank["IN"].bytes) < BankSize)
    BY <2>1
       DEF Selected, CallShape, CallRecords, Places, EndpointOf, Ops, Data,
           Streams, Resumable, Reading, Receiving, Flushing
  <2>2. CASE call' = [call EXCEPT !.at = "clear"]
    BY <2>2
       DEF Selected, CallShape, CallRecords, Places, EndpointOf, Ops, Data,
           Streams, Resumable, Reading, Receiving, Flushing
  <2> QED BY <1>0, <2>1, <2>2
<1>4. Room'
  <2>1. CASE /\ call' = [call EXCEPT !.at = "write"]
             /\ (sel = "IN" => ~bank["IN"].busy /\ Len(bank["IN"].bytes) < BankSize)
    BY <2>1
       DEF Room, CallShape, CallRecords, Places, Waits, After, Ops, Data,
           Streams, Resumable, Reading, Receiving, Flushing
  <2>2. CASE call' = [call EXCEPT !.at = "clear"]
    BY <2>2
       DEF Room, CallShape, CallRecords, Places, Waits, After, Ops, Data,
           Streams, Resumable, Reading, Receiving, Flushing
  <2> QED BY <1>0, <2>1, <2>2
<1>5. Still
  <2>1. CASE /\ call' = [call EXCEPT !.at = "write"]
             /\ (sel = "IN" => ~bank["IN"].busy /\ Len(bank["IN"].bytes) < BankSize)
    BY <2>1
       DEF Still, Written, Pipe, CallShape, CallRecords, Places, Ops, Data,
           Streams, Resumable, Reading, Receiving, Flushing
  <2>2. CASE call' = [call EXCEPT !.at = "clear"]
    BY <2>2
       DEF Still, Written, Pipe, CallShape, CallRecords, Places, Ops, Data,
           Streams, Resumable, Reading, Receiving, Flushing
  <2> QED BY <1>0, <2>1, <2>2
<1>6. Types'
  BY <1>1 DEF INs
<1> QED BY <1>2, <1>3, <1>4, <1>5, <1>6 DEF ChannelStep

\* Flush's test for bytes moves none.
LEMMA FlushBytesStep == IInv /\ FlushBytes => IInv' /\ ChannelStep
<1> SUFFICES ASSUME IInv, FlushBytes PROVE IInv' /\ ChannelStep
  OBVIOUS
<1> USE SizesAssumption DEF IInv, Types, FlushBytes, sending
<1>0. \/ call' = [call EXCEPT !.at = "full"]
      \/ call' = GetcharAgain
      \/ call' = NoCall
  BY DEF Goto, FlushReturns
<1>1. call' \in CallRecords /\ call'.left =< call'.len
  <2>1. CASE call' = [call EXCEPT !.at = "full"]
    BY <2>1
       DEF CallRecords, Labels, Ops, Data, Streams, Resumable, Reading,
           Receiving, Flushing, GetcharAgain, NoCall, Call
  <2>2. CASE call' = GetcharAgain
    BY <2>2
       DEF CallRecords, Labels, Ops, Data, Streams, Resumable, Reading,
           Receiving, Flushing, GetcharAgain, NoCall, Call
  <2>3. CASE call' = NoCall
    BY <2>3
       DEF CallRecords, Labels, Ops, Data, Streams, Resumable, Reading,
           Receiving, Flushing, GetcharAgain, NoCall, Call
  <2> QED BY <1>0, <2>1, <2>2, <2>3
<1>2. CallShape'
  <2>1. CASE call' = [call EXCEPT !.at = "full"]
    BY <2>1
       DEF CallShape, CallRecords, Places, Waits, After, Ops, Data,
           Streams, Resumable, Reading, Receiving, Flushing, GetcharAgain,
           NoCall, Call
  <2>2. CASE call' = GetcharAgain
    BY <2>2
       DEF CallShape, CallRecords, Places, Waits, After, Ops, Data,
           Streams, Resumable, Reading, Receiving, Flushing, GetcharAgain,
           NoCall, Call
  <2>3. CASE call' = NoCall
    BY <2>3
       DEF CallShape, CallRecords, Places, Waits, After, Ops, Data,
           Streams, Resumable, Reading, Receiving, Flushing, GetcharAgain,
           NoCall, Call
  <2> QED BY <1>0, <2>1, <2>2, <2>3
<1>3. Selected'
  <2>1. CASE call' = [call EXCEPT !.at = "full"]
    BY <2>1
       DEF Selected, CallShape, CallRecords, Places, EndpointOf, Ops, Data,
           Streams, Resumable, Reading, Receiving, Flushing, GetcharAgain,
           NoCall, Call
  <2>2. CASE call' = GetcharAgain
    BY <2>2
       DEF Selected, CallShape, CallRecords, Places, EndpointOf, Ops, Data,
           Streams, Resumable, Reading, Receiving, Flushing, GetcharAgain,
           NoCall, Call
  <2>3. CASE call' = NoCall
    BY <2>3
       DEF Selected, CallShape, CallRecords, Places, EndpointOf, Ops, Data,
           Streams, Resumable, Reading, Receiving, Flushing, GetcharAgain,
           NoCall, Call
  <2> QED BY <1>0, <2>1, <2>2, <2>3
<1>4. Room'
  <2>1. CASE call' = [call EXCEPT !.at = "full"]
    BY <2>1
       DEF Room, CallShape, CallRecords, Places, Waits, After, Ops, Data,
           Streams, Resumable, Reading, Receiving, Flushing, GetcharAgain,
           NoCall, Call
  <2>2. CASE call' = GetcharAgain
    BY <2>2
       DEF Room, CallShape, CallRecords, Places, Waits, After, Ops, Data,
           Streams, Resumable, Reading, Receiving, Flushing, GetcharAgain,
           NoCall, Call
  <2>3. CASE call' = NoCall
    BY <2>3
       DEF Room, CallShape, CallRecords, Places, Waits, After, Ops, Data,
           Streams, Resumable, Reading, Receiving, Flushing, GetcharAgain,
           NoCall, Call
  <2> QED BY <1>0, <2>1, <2>2, <2>3
<1>5. Still
  <2>1. CASE call' = [call EXCEPT !.at = "full"]
    BY <2>1
       DEF Still, Written, Pipe, CallShape, CallRecords, Places, Ops, Data,
           Streams, Resumable, Reading, Receiving, Flushing, GetcharAgain,
           NoCall, Call
  <2>2. CASE call' = GetcharAgain
    BY <2>2
       DEF Still, Written, Pipe, CallShape, CallRecords, Places, Ops, Data,
           Streams, Resumable, Reading, Receiving, Flushing, GetcharAgain,
           NoCall, Call
  <2>3. CASE call' = NoCall
    BY <2>3
       DEF Still, Written, Pipe, CallShape, CallRecords, Places, Ops, Data,
           Streams, Resumable, Reading, Receiving, Flushing, GetcharAgain,
           NoCall, Call
  <2> QED BY <1>0, <2>1, <2>2, <2>3
<1>6. Types'
  BY <1>1 DEF INs
<1> QED BY <1>2, <1>3, <1>4, <1>5, <1>6 DEF ChannelStep

\* A receive function's test for a packet leaves the sending half alone.
LEMMA ReceivedStep == IInv /\ Received => IInv' /\ ChannelStep
<1> SUFFICES ASSUME IInv, Received PROVE IInv' /\ ChannelStep
  OBVIOUS
<1> USE SizesAssumption DEF IInv, Types, Received, sending
<1>0. \/ call' = [call EXCEPT !.at = "take"]
      \/ call' = [call EXCEPT !.at = "blocked"]
      \/ call' = NoCall
  BY DEF Goto, NoByte, Return
<1>1. call' \in CallRecords /\ call'.left =< call'.len
  <2>1. CASE call' = [call EXCEPT !.at = "take"]
    BY <2>1
       DEF CallRecords, Labels, Ops, Data, Streams, Resumable, Reading,
           Receiving, Flushing, NoCall, Call
  <2>2. CASE call' = [call EXCEPT !.at = "blocked"]
    BY <2>2
       DEF CallRecords, Labels, Ops, Data, Streams, Resumable, Reading,
           Receiving, Flushing, NoCall, Call
  <2>3. CASE call' = NoCall
    BY <2>3
       DEF CallRecords, Labels, Ops, Data, Streams, Resumable, Reading,
           Receiving, Flushing, NoCall, Call
  <2> QED BY <1>0, <2>1, <2>2, <2>3
<1>2. CallShape'
  <2>1. CASE call' = [call EXCEPT !.at = "take"]
    BY <2>1
       DEF CallShape, CallRecords, Places, Waits, After, Ops, Data,
           Streams, Resumable, Reading, Receiving, Flushing, NoCall, Call
  <2>2. CASE call' = [call EXCEPT !.at = "blocked"]
    BY <2>2
       DEF CallShape, CallRecords, Places, Waits, After, Ops, Data,
           Streams, Resumable, Reading, Receiving, Flushing, NoCall, Call
  <2>3. CASE call' = NoCall
    BY <2>3
       DEF CallShape, CallRecords, Places, Waits, After, Ops, Data,
           Streams, Resumable, Reading, Receiving, Flushing, NoCall, Call
  <2> QED BY <1>0, <2>1, <2>2, <2>3
<1>3. Selected'
  <2>1. CASE call' = [call EXCEPT !.at = "take"]
    BY <2>1
       DEF Selected, CallShape, CallRecords, Places, EndpointOf, Ops, Data,
           Streams, Resumable, Reading, Receiving, Flushing, NoCall, Call
  <2>2. CASE call' = [call EXCEPT !.at = "blocked"]
    BY <2>2
       DEF Selected, CallShape, CallRecords, Places, EndpointOf, Ops, Data,
           Streams, Resumable, Reading, Receiving, Flushing, NoCall, Call
  <2>3. CASE call' = NoCall
    BY <2>3
       DEF Selected, CallShape, CallRecords, Places, EndpointOf, Ops, Data,
           Streams, Resumable, Reading, Receiving, Flushing, NoCall, Call
  <2> QED BY <1>0, <2>1, <2>2, <2>3
<1>4. Room'
  <2>1. CASE call' = [call EXCEPT !.at = "take"]
    BY <2>1
       DEF Room, CallShape, CallRecords, Places, Waits, After, Ops, Data,
           Streams, Resumable, Reading, Receiving, Flushing, NoCall, Call
  <2>2. CASE call' = [call EXCEPT !.at = "blocked"]
    BY <2>2
       DEF Room, CallShape, CallRecords, Places, Waits, After, Ops, Data,
           Streams, Resumable, Reading, Receiving, Flushing, NoCall, Call
  <2>3. CASE call' = NoCall
    BY <2>3
       DEF Room, CallShape, CallRecords, Places, Waits, After, Ops, Data,
           Streams, Resumable, Reading, Receiving, Flushing, NoCall, Call
  <2> QED BY <1>0, <2>1, <2>2, <2>3
<1>5. Still
  <2>1. CASE call' = [call EXCEPT !.at = "take"]
    BY <2>1
       DEF Still, Written, Pipe, CallShape, CallRecords, Places, Ops, Data,
           Streams, Resumable, Reading, Receiving, Flushing, NoCall, Call
  <2>2. CASE call' = [call EXCEPT !.at = "blocked"]
    BY <2>2
       DEF Still, Written, Pipe, CallShape, CallRecords, Places, Ops, Data,
           Streams, Resumable, Reading, Receiving, Flushing, NoCall, Call
  <2>3. CASE call' = NoCall
    BY <2>3
       DEF Still, Written, Pipe, CallShape, CallRecords, Places, Ops, Data,
           Streams, Resumable, Reading, Receiving, Flushing, NoCall, Call
  <2> QED BY <1>0, <2>1, <2>2, <2>3
<1>6. Types'
  BY <1>1 DEF INs
<1> QED BY <1>2, <1>3, <1>4, <1>5, <1>6 DEF ChannelStep

\* So does giving the OUT bank back.
LEMMA ReceiveByteReleaseStep ==
  IInv /\ ReceiveByteRelease => IInv' /\ ChannelStep
<1> SUFFICES ASSUME IInv, ReceiveByteRelease PROVE IInv' /\ ChannelStep
  OBVIOUS
<1> USE SizesAssumption DEF IInv, Types, ReceiveByteRelease, sending
<1>0. call' = NoCall \/ call' = [call EXCEPT !.at = "blocked"]
  BY DEF Goto, NoByte, Return
<1>1. call' \in CallRecords /\ call'.left =< call'.len
  <2>1. CASE call' = NoCall
    BY <2>1
       DEF CallRecords, Labels, Ops, Data, Streams, Resumable, Reading,
           Receiving, Flushing, NoCall, Call
  <2>2. CASE call' = [call EXCEPT !.at = "blocked"]
    BY <2>2
       DEF CallRecords, Labels, Ops, Data, Streams, Resumable, Reading,
           Receiving, Flushing, NoCall, Call
  <2> QED BY <1>0, <2>1, <2>2
<1>2. CallShape'
  <2>1. CASE call' = NoCall
    BY <2>1
       DEF CallShape, CallRecords, Places, Waits, After, Ops, Data,
           Streams, Resumable, Reading, Receiving, Flushing, NoCall, Call
  <2>2. CASE call' = [call EXCEPT !.at = "blocked"]
    BY <2>2
       DEF CallShape, CallRecords, Places, Waits, After, Ops, Data,
           Streams, Resumable, Reading, Receiving, Flushing, NoCall, Call
  <2> QED BY <1>0, <2>1, <2>2
<1>3. Selected'
  <2>1. CASE call' = NoCall
    BY <2>1
       DEF Selected, CallShape, CallRecords, Places, EndpointOf, Ops, Data,
           Streams, Resumable, Reading, Receiving, Flushing, NoCall, Call
  <2>2. CASE call' = [call EXCEPT !.at = "blocked"]
    BY <2>2
       DEF Selected, CallShape, CallRecords, Places, EndpointOf, Ops, Data,
           Streams, Resumable, Reading, Receiving, Flushing, NoCall, Call
  <2> QED BY <1>0, <2>1, <2>2
<1>4. Room'
  <2>1. CASE call' = NoCall
    BY <2>1
       DEF Room, CallShape, CallRecords, Places, Waits, After, Ops, Data,
           Streams, Resumable, Reading, Receiving, Flushing, NoCall, Call
  <2>2. CASE call' = [call EXCEPT !.at = "blocked"]
    BY <2>2
       DEF Room, CallShape, CallRecords, Places, Waits, After, Ops, Data,
           Streams, Resumable, Reading, Receiving, Flushing, NoCall, Call
  <2> QED BY <1>0, <2>1, <2>2
<1>5. Still
  <2>1. CASE call' = NoCall
    BY <2>1
       DEF Still, Written, Pipe, CallShape, CallRecords, Places, Ops, Data,
           Streams, Resumable, Reading, Receiving, Flushing, NoCall, Call
  <2>2. CASE call' = [call EXCEPT !.at = "blocked"]
    BY <2>2
       DEF Still, Written, Pipe, CallShape, CallRecords, Places, Ops, Data,
           Streams, Resumable, Reading, Receiving, Flushing, NoCall, Call
  <2> QED BY <1>0, <2>1, <2>2
<1>6. Types'
  BY <1>1 DEF INs
<1> QED BY <1>2, <1>3, <1>4, <1>5, <1>6 DEF ChannelStep

\* So does getchar_Blocking's test for a detached device.
LEMMA getchar_BlockedStep == IInv /\ getchar_Blocked => IInv' /\ ChannelStep
<1> SUFFICES ASSUME IInv, getchar_Blocked PROVE IInv' /\ ChannelStep
  OBVIOUS
<1> USE SizesAssumption DEF IInv, Types, getchar_Blocked, sending
<1>0. call' = NoCall \/ call' = [call EXCEPT !.at = "usbtask"]
  BY DEF Goto, Return
<1>1. call' \in CallRecords /\ call'.left =< call'.len
  <2>1. CASE call' = NoCall
    BY <2>1
       DEF CallRecords, Labels, Ops, Data, Streams, Resumable, Reading,
           Receiving, Flushing, NoCall, Call
  <2>2. CASE call' = [call EXCEPT !.at = "usbtask"]
    BY <2>2
       DEF CallRecords, Labels, Ops, Data, Streams, Resumable, Reading,
           Receiving, Flushing, NoCall, Call
  <2> QED BY <1>0, <2>1, <2>2
<1>2. CallShape'
  <2>1. CASE call' = NoCall
    BY <2>1
       DEF CallShape, CallRecords, Places, Waits, After, Ops, Data,
           Streams, Resumable, Reading, Receiving, Flushing, NoCall, Call
  <2>2. CASE call' = [call EXCEPT !.at = "usbtask"]
    BY <2>2
       DEF CallShape, CallRecords, Places, Waits, After, Ops, Data,
           Streams, Resumable, Reading, Receiving, Flushing, NoCall, Call
  <2> QED BY <1>0, <2>1, <2>2
<1>3. Selected'
  <2>1. CASE call' = NoCall
    BY <2>1
       DEF Selected, CallShape, CallRecords, Places, EndpointOf, Ops, Data,
           Streams, Resumable, Reading, Receiving, Flushing, NoCall, Call
  <2>2. CASE call' = [call EXCEPT !.at = "usbtask"]
    BY <2>2
       DEF Selected, CallShape, CallRecords, Places, EndpointOf, Ops, Data,
           Streams, Resumable, Reading, Receiving, Flushing, NoCall, Call
  <2> QED BY <1>0, <2>1, <2>2
<1>4. Room'
  <2>1. CASE call' = NoCall
    BY <2>1
       DEF Room, CallShape, CallRecords, Places, Waits, After, Ops, Data,
           Streams, Resumable, Reading, Receiving, Flushing, NoCall, Call
  <2>2. CASE call' = [call EXCEPT !.at = "usbtask"]
    BY <2>2
       DEF Room, CallShape, CallRecords, Places, Waits, After, Ops, Data,
           Streams, Resumable, Reading, Receiving, Flushing, NoCall, Call
  <2> QED BY <1>0, <2>1, <2>2
<1>5. Still
  <2>1. CASE call' = NoCall
    BY <2>1
       DEF Still, Written, Pipe, CallShape, CallRecords, Places, Ops, Data,
           Streams, Resumable, Reading, Receiving, Flushing, NoCall, Call
  <2>2. CASE call' = [call EXCEPT !.at = "usbtask"]
    BY <2>2
       DEF Still, Written, Pipe, CallShape, CallRecords, Places, Ops, Data,
           Streams, Resumable, Reading, Receiving, Flushing, NoCall, Call
  <2> QED BY <1>0, <2>1, <2>2
<1>6. Types'
  BY <1>1 DEF INs
<1> QED BY <1>2, <1>3, <1>4, <1>5, <1>6 DEF ChannelStep

\* The driver's task starts a Flush and moves no byte.
LEMMA CDC_Device_USBTaskStep ==
  IInv /\ CDC_Device_USBTask => IInv' /\ ChannelStep
<1> SUFFICES ASSUME IInv, CDC_Device_USBTask PROVE IInv' /\ ChannelStep
  OBVIOUS
<1> USE SizesAssumption DEF IInv, Types, CDC_Device_USBTask, sending
<1>0. \/ call' = Call("getchar_Flush", "select", 0, 0, 0)
      \/ call' = [call EXCEPT !.at = "again"]
  BY DEF Call
<1>1. call' \in CallRecords /\ call'.left =< call'.len
  <2>1. CASE call' = Call("getchar_Flush", "select", 0, 0, 0)
    BY <2>1
       DEF CallRecords, Labels, Ops, Data, Streams, Resumable, Reading,
           Receiving, Flushing, Call
  <2>2. CASE call' = [call EXCEPT !.at = "again"]
    BY <2>2
       DEF CallRecords, Labels, Ops, Data, Streams, Resumable, Reading,
           Receiving, Flushing, Call
  <2> QED BY <1>0, <2>1, <2>2
<1>2. CallShape'
  <2>1. CASE call' = Call("getchar_Flush", "select", 0, 0, 0)
    BY <2>1
       DEF CallShape, CallRecords, Places, Waits, After, Ops, Data,
           Streams, Resumable, Reading, Receiving, Flushing, Call
  <2>2. CASE call' = [call EXCEPT !.at = "again"]
    BY <2>2
       DEF CallShape, CallRecords, Places, Waits, After, Ops, Data,
           Streams, Resumable, Reading, Receiving, Flushing, Call
  <2> QED BY <1>0, <2>1, <2>2
<1>3. Selected'
  <2>1. CASE call' = Call("getchar_Flush", "select", 0, 0, 0)
    BY <2>1
       DEF Selected, CallShape, CallRecords, Places, EndpointOf, Ops, Data,
           Streams, Resumable, Reading, Receiving, Flushing, Call
  <2>2. CASE call' = [call EXCEPT !.at = "again"]
    BY <2>2
       DEF Selected, CallShape, CallRecords, Places, EndpointOf, Ops, Data,
           Streams, Resumable, Reading, Receiving, Flushing, Call
  <2> QED BY <1>0, <2>1, <2>2
<1>4. Room'
  <2>1. CASE call' = Call("getchar_Flush", "select", 0, 0, 0)
    BY <2>1
       DEF Room, CallShape, CallRecords, Places, Waits, After, Ops, Data,
           Streams, Resumable, Reading, Receiving, Flushing, Call
  <2>2. CASE call' = [call EXCEPT !.at = "again"]
    BY <2>2
       DEF Room, CallShape, CallRecords, Places, Waits, After, Ops, Data,
           Streams, Resumable, Reading, Receiving, Flushing, Call
  <2> QED BY <1>0, <2>1, <2>2
<1>5. Still
  <2>1. CASE call' = Call("getchar_Flush", "select", 0, 0, 0)
    BY <2>1
       DEF Still, Written, Pipe, CallShape, CallRecords, Places, Ops, Data,
           Streams, Resumable, Reading, Receiving, Flushing, Call
  <2>2. CASE call' = [call EXCEPT !.at = "again"]
    BY <2>2
       DEF Still, Written, Pipe, CallShape, CallRecords, Places, Ops, Data,
           Streams, Resumable, Reading, Receiving, Flushing, Call
  <2> QED BY <1>0, <2>1, <2>2
<1>6. Types'
  BY <1>1 DEF INs
<1> QED BY <1>2, <1>3, <1>4, <1>5, <1>6 DEF ChannelStep

\* A new frame is only noted by the wait that looks for it.
LEMMA StartOfFrameStep == IInv /\ StartOfFrame => IInv' /\ ChannelStep
<1> SUFFICES ASSUME IInv, StartOfFrame PROVE IInv' /\ ChannelStep
  OBVIOUS
<1>1. PICK n \in Nat : call' = [call EXCEPT !.moved = TRUE, !.frames = n]
  <2>1. call.frames \in Nat /\ call.frames + 1 \in Nat
    BY DEF IInv, Types, CallRecords
  <2> QED BY <2>1 DEF StartOfFrame
<1>2. UNCHANGED <<bank, msg, got, sel, disturbed>>
  BY DEF StartOfFrame, sending
<1>3. call' \in CallRecords /\ call'.left =< call'.len
  BY <1>1 DEF IInv, Types, CallRecords
<1>4. Types'
  BY <1>2, <1>3 DEF IInv, Types, INs
<1>5. CallShape' /\ Selected' /\ Room'
  BY <1>1, <1>2
     DEF IInv, Types, CallRecords, CallShape, Selected, Room, EndpointOf
<1>6. Still
  BY <1>1, <1>2 DEF IInv, Types, CallRecords, Still, Pipe, Written
<1> QED BY <1>4, <1>5, <1>6 DEF IInv, ChannelStep

\* A wait for SendByte that finds the endpoint ready finds its bank empty.
LEMMA WaitPollStep == IInv /\ WaitPoll => IInv' /\ ChannelStep
<1> SUFFICES ASSUME IInv, WaitPoll PROVE IInv' /\ ChannelStep
  OBVIOUS
<1> USE SizesAssumption DEF IInv, Types, WaitPoll, sending
<1>0. \/ /\ call' = [call EXCEPT !.at = call.then]
         /\ (sel = "IN" => ~bank["IN"].busy)
      \/ call' = [call EXCEPT !.at = "check"]
  BY DEF Goto, EndpointReady, INs
<1>1. call' \in CallRecords /\ call'.left =< call'.len
  <2>1. CASE /\ call' = [call EXCEPT !.at = call.then]
             /\ (sel = "IN" => ~bank["IN"].busy)
    BY <2>1
       DEF CallRecords, Labels, Ops, Data, Streams, Resumable, Reading,
           Receiving, Flushing
  <2>2. CASE call' = [call EXCEPT !.at = "check"]
    BY <2>2
       DEF CallRecords, Labels, Ops, Data, Streams, Resumable, Reading,
           Receiving, Flushing
  <2> QED BY <1>0, <2>1, <2>2
<1>2. CallShape'
  <2>1. CASE /\ call' = [call EXCEPT !.at = call.then]
             /\ (sel = "IN" => ~bank["IN"].busy)
    BY <2>1
       DEF CallShape, CallRecords, Places, Waits, After, Ops, Data,
           Streams, Resumable, Reading, Receiving, Flushing
  <2>2. CASE call' = [call EXCEPT !.at = "check"]
    BY <2>2
       DEF CallShape, CallRecords, Places, Waits, After, Ops, Data,
           Streams, Resumable, Reading, Receiving, Flushing
  <2> QED BY <1>0, <2>1, <2>2
<1>3. Selected'
  <2>1. CASE /\ call' = [call EXCEPT !.at = call.then]
             /\ (sel = "IN" => ~bank["IN"].busy)
    BY <2>1
       DEF Selected, CallShape, CallRecords, Places, EndpointOf, Ops, Data,
           Streams, Resumable, Reading, Receiving, Flushing
  <2>2. CASE call' = [call EXCEPT !.at = "check"]
    BY <2>2
       DEF Selected, CallShape, CallRecords, Places, EndpointOf, Ops, Data,
           Streams, Resumable, Reading, Receiving, Flushing
  <2> QED BY <1>0, <2>1, <2>2
<1>4. Room'
  <2>1. CASE /\ call' = [call EXCEPT !.at = call.then]
             /\ (sel = "IN" => ~bank["IN"].busy)
    BY <2>1
       DEF Room, CallShape, CallRecords, Places, Waits, After, Ops, Data,
           Streams, Resumable, Reading, Receiving, Flushing
  <2>2. CASE call' = [call EXCEPT !.at = "check"]
    BY <2>2
       DEF Room, CallShape, CallRecords, Places, Waits, After, Ops, Data,
           Streams, Resumable, Reading, Receiving, Flushing
  <2> QED BY <1>0, <2>1, <2>2
<1>5. Still
  <2>1. CASE /\ call' = [call EXCEPT !.at = call.then]
             /\ (sel = "IN" => ~bank["IN"].busy)
    BY <2>1
       DEF Still, Written, Pipe, CallShape, CallRecords, Places, Ops, Data,
           Streams, Resumable, Reading, Receiving, Flushing
  <2>2. CASE call' = [call EXCEPT !.at = "check"]
    BY <2>2
       DEF Still, Written, Pipe, CallShape, CallRecords, Places, Ops, Data,
           Streams, Resumable, Reading, Receiving, Flushing
  <2> QED BY <1>0, <2>1, <2>2
<1>6. Types'
  BY <1>1 DEF INs
<1> QED BY <1>2, <1>3, <1>4, <1>5, <1>6 DEF ChannelStep

\* What the program makes of an error is a disturbance of the channel, or, where
\* *BytesProcessed keeps the position, nothing at all.
LEMMA FailedStep ==
  ASSUME IInv, call.at = "check", Failed,
         UNCHANGED <<sel, bank, got>>
  PROVE  IInv' /\ ChannelStep
<1> USE SizesAssumption DEF IInv, Types
<1>0. call.op \in Ops /\ call.op # "none"
  BY
     DEF CallShape, Places, CallRecords, Ops, Data, Streams, Resumable,
         Reading, Receiving, Flushing
<1>a. NoCall \in CallRecords /\ NoCall.left =< NoCall.len /\ NoCall.op
        = "none" /\ NoCall.at = "idle"
  BY DEF NoCall, Call, CallRecords, Labels, Ops
<1>1. CASE call.op = "SendData"
  <2>1. call' = NoCall /\ msg' = [msg EXCEPT !.base = @ + call.len]
        /\ disturbed' = TRUE
    BY <1>1 DEF Failed, Resumable, Reading
  <2>2. Types'
    <3>1. msg' \in [base : Nat, len : Nat, processed : Nat]
      <4>1. msg.base + call.len \in Nat
        BY DEF CallRecords
      <4> QED BY <2>1, <4>1
    <3> QED BY <2>1, <3>1, <1>a DEF INs
  <2>3. CallShape' /\ Selected' /\ Room'
    BY <2>1, IdleShape
  <2>4. Pipe' = Pipe
    BY DEF Pipe
  <2>5. Written' \in Nat /\ Written' >= Written
    <3>1. Written' = msg.base + call.len
      BY <2>1, <1>a, <1>1 DEF Written, Resumable, CallShape, CallRecords
    <3>2. Written = msg.base + (call.len - call.left)
      BY <1>1 DEF Written, CallShape, Data
    <3> QED BY <3>1, <3>2 DEF CallRecords
  <2> QED BY <2>1, <2>2, <2>3, <2>4, <2>5 DEF ChannelStep, DisturbStep
<1>2. CASE call.op \in Resumable \cup Reading
  <2>1. call' = NoCall /\ msg' = msg /\ disturbed' = disturbed
    BY <1>2 DEF Failed, Resumable, Reading
  <2>2. Types'
    BY <2>1, <1>a DEF INs
  <2>3. CallShape' /\ Selected' /\ Room'
    BY <2>1, IdleShape
  <2>4. Written' = Written
    BY <1>2, <2>1
       DEF NoCall, Call, Written, Resumable, Reading, CallShape, Data,
           CallRecords, Waits
  <2> QED BY <2>1, <2>2, <2>3, <2>4 DEF ChannelStep, Still, Pipe
<1>3. CASE call.op \notin {"SendData"} \cup Resumable \cup Reading
  <2>1. msg' = msg /\ disturbed' = TRUE
    BY <1>3 DEF Failed
  <2>2. \/ call' = SendState /\ call.op = "Header"
        \/ call' = [call EXCEPT !.at = "clear"] /\ call.op = "State"
        \/ call' = GetcharAgain \/ call' = NoCall
    BY <1>3 DEF Failed
  <2>3. call' \in CallRecords /\ call'.left =< call'.len
    <3>1. CASE call' = SendState
      BY <3>1 DEF SendState, Call, Waiting, CallRecords, Labels, Ops, Streams
    <3>2. CASE call' = [call EXCEPT !.at = "clear"]
      BY <3>2 DEF CallRecords, Labels
    <3>3. CASE call' = GetcharAgain
      BY <3>3 DEF GetcharAgain, Call, CallRecords, Labels, Ops, Receiving
    <3>4. CASE call' = NoCall
      BY <3>4, <1>a
    <3> QED BY <2>2, <3>1, <3>2, <3>3, <3>4
  <2>4. Types'
    BY <2>1, <2>3 DEF INs
  <2>5. CallShape'
    BY <2>1, <2>2
       DEF SendState, GetcharAgain, NoCall, Call, Waiting, CallShape,
           Places, Waits, Data, Resumable, Reading, Receiving, Flushing, After,
           Streams, CallRecords
  <2>6. Selected' /\ Room'
    BY <2>1, <2>2
       DEF SendState, GetcharAgain, NoCall, Call, Waiting, Selected, Room,
           EndpointOf, CallRecords
  <2>7. Written' = Written /\ Written \in Nat
    BY <1>3, <2>1, <2>2
       DEF SendState, GetcharAgain, NoCall, Call, Waiting, Written,
           Resumable, CallRecords
  <2> QED BY <2>1, <2>4, <2>5, <2>6, <2>7 DEF ChannelStep, DisturbStep, Pipe
<1> QED BY <1>1, <1>2, <1>3

\* A turn of Endpoint_WaitUntilReady waits on, or fails.
LEMMA WaitCheckStep == IInv /\ WaitCheck => IInv' /\ ChannelStep
<1> SUFFICES ASSUME IInv, WaitCheck PROVE IInv' /\ ChannelStep
  OBVIOUS
<1>1. CASE Failed
  BY <1>1, FailedStep DEF WaitCheck
<1>2. CASE ~Failed
  <2> DEFINE rem == IF call.moved THEN call.rem - 1 ELSE call.rem
  <2>1. call' = [call EXCEPT !.at = "poll", !.moved = FALSE, !.rem = rem]
        /\ UNCHANGED <<bank, msg, got, sel, disturbed>> /\ call.at = "check"
        /\ ~TimedOut
    BY <1>2 DEF WaitCheck
  <2>2. rem \in Nat
    BY <2>1 DEF TimedOut, IInv, Types, CallRecords
  <2> HIDE DEF rem
  <2>3. call' \in CallRecords /\ call'.left =< call'.len
    BY <2>1, <2>2 DEF IInv, Types, CallRecords, Labels
  <2>4. Types'
    BY <2>1, <2>3 DEF INs, IInv, Types
  <2>5. CallShape'
    BY <2>1, <2>2
       DEF CallShape, IInv, Types, CallRecords, Places, Waits, After, Ops,
           Data, Streams, Resumable, Reading, Receiving, Flushing
  <2>6. Selected' /\ Room'
    BY <2>1, <2>2
       DEF CallShape, IInv, Types, CallRecords, Selected, Room, EndpointOf,
           Waits
  <2>7. Still
    BY <2>1, <2>2 DEF IInv, Types, CallRecords, Still, Pipe, Written
  <2> QED BY <2>4, <2>5, <2>6, <2>7 DEF IInv, ChannelStep
<1> QED BY <1>1, <1>2

\* Flush's test for a full bank moves no byte.
LEMMA FlushFullStep == IInv /\ FlushFull => IInv' /\ ChannelStep
<1> SUFFICES ASSUME IInv, FlushFull PROVE IInv' /\ ChannelStep
  OBVIOUS
<1> USE SizesAssumption DEF IInv, Types, FlushFull, sending, Goto
<1>1. call' \in CallRecords /\ call'.left =< call'.len
  BY
     DEF CallRecords, Labels, Ops, Data, Streams, Resumable, Reading,
         Receiving, Flushing
<1>2. CallShape'
  BY
     DEF CallShape, CallRecords, Places, Waits, After, Ops, Data, Streams,
         Resumable, Reading, Receiving, Flushing
<1>3. Selected'
  BY
     DEF Selected, CallShape, CallRecords, Places, EndpointOf, Ops, Data,
         Streams, Resumable, Reading, Receiving, Flushing
<1>4. Room'
  BY
     DEF Room, CallShape, CallRecords, Places, Waits, After, Ops, Data,
         Streams, Resumable, Reading, Receiving, Flushing
<1>5. Still
  BY
     DEF Still, Written, Pipe, CallShape, CallRecords, Places, Ops, Data,
         Streams, Resumable, Reading, Receiving, Flushing
<1>6. Types'
  BY <1>1 DEF INs
<1> QED BY <1>2, <1>3, <1>4, <1>5, <1>6 DEF ChannelStep

\* CDC_Device_BytesReceived leaves the sending half alone.
LEMMA BytesReceivedCountStep ==
  IInv /\ BytesReceivedCount => IInv' /\ ChannelStep
<1> SUFFICES ASSUME IInv, BytesReceivedCount PROVE IInv' /\ ChannelStep
  OBVIOUS
<1> USE SizesAssumption DEF IInv, Types, BytesReceivedCount, sending, Return,
        NoCall, Call
<1>1. call' \in CallRecords /\ call'.left =< call'.len
  BY
     DEF CallRecords, Labels, Ops, Data, Streams, Resumable, Reading,
         Receiving, Flushing
<1>2. CallShape'
  BY
     DEF CallShape, CallRecords, Places, Waits, After, Ops, Data, Streams,
         Resumable, Reading, Receiving, Flushing
<1>3. Selected'
  BY
     DEF Selected, CallShape, CallRecords, Places, EndpointOf, Ops, Data,
         Streams, Resumable, Reading, Receiving, Flushing
<1>4. Room'
  BY
     DEF Room, CallShape, CallRecords, Places, Waits, After, Ops, Data,
         Streams, Resumable, Reading, Receiving, Flushing
<1>5. Still
  BY
     DEF Still, Written, Pipe, CallShape, CallRecords, Places, Ops, Data,
         Streams, Resumable, Reading, Receiving, Flushing
<1>6. Types'
  BY <1>1 DEF INs
<1> QED BY <1>2, <1>3, <1>4, <1>5, <1>6 DEF ChannelStep

\* So does CDC_Device_ReceiveByte.
LEMMA ReceiveByteReadStep == IInv /\ ReceiveByteRead => IInv' /\ ChannelStep
<1> SUFFICES ASSUME IInv, ReceiveByteRead PROVE IInv' /\ ChannelStep
  OBVIOUS
<1> USE SizesAssumption DEF IInv, Types, ReceiveByteRead, sending
<1>1. call' \in CallRecords /\ call'.left =< call'.len
  BY
     DEF CallRecords, Labels, Ops, Data, Streams, Resumable, Reading,
         Receiving, Flushing
<1>2. CallShape'
  BY
     DEF CallShape, CallRecords, Places, Waits, After, Ops, Data, Streams,
         Resumable, Reading, Receiving, Flushing
<1>3. Selected'
  BY
     DEF Selected, CallShape, CallRecords, Places, EndpointOf, Ops, Data,
         Streams, Resumable, Reading, Receiving, Flushing
<1>4. Room'
  BY
     DEF Room, CallShape, CallRecords, Places, Waits, After, Ops, Data,
         Streams, Resumable, Reading, Receiving, Flushing
<1>5. Still
  BY
     DEF Still, Written, Pipe, CallShape, CallRecords, Places, Ops, Data,
         Streams, Resumable, Reading, Receiving, Flushing
<1>6. Types'
  BY <1>1 DEF INs
<1> QED BY <1>2, <1>3, <1>4, <1>5, <1>6 DEF ChannelStep

\* So does the loop of getchar_Blocking.
LEMMA getchar_AgainStep == IInv /\ getchar_Again => IInv' /\ ChannelStep
<1> SUFFICES ASSUME IInv, getchar_Again PROVE IInv' /\ ChannelStep
  OBVIOUS
<1> USE SizesAssumption DEF IInv, Types, getchar_Again, sending, Goto
<1>1. call' \in CallRecords /\ call'.left =< call'.len
  BY
     DEF CallRecords, Labels, Ops, Data, Streams, Resumable, Reading,
         Receiving, Flushing
<1>2. CallShape'
  BY
     DEF CallShape, CallRecords, Places, Waits, After, Ops, Data, Streams,
         Resumable, Reading, Receiving, Flushing
<1>3. Selected'
  BY
     DEF Selected, CallShape, CallRecords, Places, EndpointOf, Ops, Data,
         Streams, Resumable, Reading, Receiving, Flushing
<1>4. Room'
  BY
     DEF Room, CallShape, CallRecords, Places, Waits, After, Ops, Data,
         Streams, Resumable, Reading, Receiving, Flushing
<1>5. Still
  BY
     DEF Still, Written, Pipe, CallShape, CallRecords, Places, Ops, Data,
         Streams, Resumable, Reading, Receiving, Flushing
<1>6. Types'
  BY <1>1 DEF INs
<1> QED BY <1>2, <1>3, <1>4, <1>5, <1>6 DEF ChannelStep

\* Endpoint_ClearIN hands the bank over and changes none of its bytes.
LEMMA ClearINFacts ==
  ASSUME Types, ClearIN
  PROVE  /\ bank' \in [INs -> [bytes : Seq(Nat), busy : BOOLEAN]]
         /\ Pipe' = Pipe
         /\ sel = "IN" => bank'["IN"].busy
BY DEF Types, ClearIN, INs, Pipe

\* SendByte hands a full bank over and then waits for it.
LEMMA SendByteClearStep == IInv /\ SendByteClear => IInv' /\ ChannelStep
<1> SUFFICES ASSUME IInv, SendByteClear PROVE IInv' /\ ChannelStep
  OBVIOUS
<1>1. call' = Waiting(call, "write") /\ call.op = "SendByte" /\ ClearIN
      /\ UNCHANGED <<sel, msg, got, disturbed>>
  BY DEF SendByteClear
<1>2. call' \in CallRecords /\ call'.left =< call'.len
  BY <1>1, SizesAssumption DEF IInv, Types, CallRecords, Waiting, Labels
<1>3. Types'
  BY <1>1, <1>2, ClearINFacts DEF IInv, Types, Pipe
<1>4. CallShape'
  BY <1>1
     DEF IInv, CallShape, Waiting, Places, Waits, After, Data, Streams,
         Resumable, Reading, Flushing
<1>5. Selected'
  BY <1>1 DEF IInv, SendByteClear, Selected, Waiting
<1>6. Room'
  BY <1>1, ClearINFacts DEF IInv, Room, Waiting, Waits
<1>7. Still
  BY <1>1, ClearINFacts DEF IInv, Still, Written, Waiting, Resumable
<1> QED BY <1>3, <1>4, <1>5, <1>6, <1>7 DEF IInv, ChannelStep

\* Flush hands the bank over, and waits if a zero-length packet must follow.
LEMMA FlushClearStep == IInv /\ FlushClear => IInv' /\ ChannelStep
<1> SUFFICES ASSUME IInv, FlushClear PROVE IInv' /\ ChannelStep
  OBVIOUS
<1>1. call.op \in Flushing /\ ClearIN /\ UNCHANGED <<sel, msg, got, disturbed>>
      /\ call.at = "clear"
  BY DEF FlushClear
<1>2. call' = Waiting(call, "last") \/ call' = GetcharAgain \/ call' = NoCall
  BY DEF FlushClear, FlushReturns
<1>3. call' \in CallRecords /\ call'.left =< call'.len
  <2>1. CASE call' = Waiting(call, "last")
    BY <2>1, SizesAssumption DEF IInv, Types, CallRecords, Waiting, Labels
  <2> QED BY <1>2, <2>1, NoCallTyped, GetcharAgainTyped
<1>4. Types'
  BY <1>1, <1>3, ClearINFacts DEF IInv, Types, Pipe
<1>5. CallShape'
  BY <1>1, <1>2
     DEF IInv, CallShape, Waiting, GetcharAgain, NoCall, Call, Places,
         Waits, After, Data, Streams, Resumable, Reading, Flushing, Receiving
<1>6. Selected'
  BY <1>1, <1>2
     DEF IInv, Selected, Waiting, GetcharAgain, NoCall, Call, EndpointOf
<1>7. Room'
  BY <1>1, <1>2 DEF Room, Waiting, GetcharAgain, NoCall, Call, Flushing
<1>8. Still
  BY <1>1, <1>2, ClearINFacts
     DEF IInv, Still, Written, Waiting, GetcharAgain, NoCall, Call,
         Resumable, Flushing
<1> QED BY <1>4, <1>5, <1>6, <1>7, <1>8 DEF IInv, ChannelStep

\* Flush's zero-length packet holds no byte.
LEMMA FlushLastStep == IInv /\ FlushLast => IInv' /\ ChannelStep
<1> SUFFICES ASSUME IInv, FlushLast PROVE IInv' /\ ChannelStep
  OBVIOUS
<1>1. call.op \in Flushing /\ ClearIN /\ UNCHANGED <<sel, msg, got, disturbed>>
  BY
     DEF FlushLast, IInv, Types, CallShape, Places, CallRecords, Ops, Data,
         Streams, Resumable, Reading, Flushing, Receiving
<1>2. call' = GetcharAgain \/ call' = NoCall
  BY DEF FlushLast, FlushReturns
<1>3. call' \in CallRecords /\ call'.left =< call'.len
  BY <1>2, NoCallTyped, GetcharAgainTyped
<1>4. Types'
  BY <1>1, <1>3, ClearINFacts DEF IInv, Types, Pipe
<1>5. CallShape'
  BY <1>2
     DEF CallShape, GetcharAgain, NoCall, Call, Places, Waits, After, Data,
         Streams, Resumable, Reading, Flushing, Receiving
<1>6. Selected' /\ Room'
  BY <1>2 DEF Selected, Room, GetcharAgain, NoCall, Call
<1>8. Still
  BY <1>1, <1>2, ClearINFacts
     DEF IInv, Still, Written, GetcharAgain, NoCall, Call, Resumable,
         Flushing
<1> QED BY <1>4, <1>5, <1>6, <1>8 DEF IInv, ChannelStep

\* A notification's last packet is not in the data endpoint.
LEMMA NotificationClearStep ==
  IInv /\ NotificationClear => IInv' /\ ChannelStep
<1> SUFFICES ASSUME IInv, NotificationClear PROVE IInv' /\ ChannelStep
  OBVIOUS
<1>1. call.op = "State" /\ ClearIN /\ UNCHANGED <<sel, msg, got, disturbed>>
      /\ call' = NoCall
  BY DEF NotificationClear, Return
<1>3. call' \in CallRecords /\ call'.left =< call'.len
  BY <1>1 DEF CallRecords, NoCall, Call, Labels, Ops
<1>4. Types'
  BY <1>1, <1>3, ClearINFacts DEF IInv, Types, Pipe
<1>8. Still
  BY <1>1, ClearINFacts DEF IInv, Still, Written, NoCall, Call, Resumable
<1> QED BY <1>1, <1>4, <1>8, IdleShape DEF IInv, ChannelStep

\* A byte written to the selected data IN endpoint with room goes to its end.
LEMMA WriteFacts ==
  ASSUME Types, NEW byte \in Nat, Write_8(byte),
         sel = "IN", ~bank["IN"].busy, Len(Pipe) < BankSize
  PROVE  /\ Pipe' = Append(Pipe, byte) /\ Len(Pipe') = Len(Pipe) + 1
         /\ bank' \in [INs -> [bytes : Seq(Nat), busy : BOOLEAN]]
<1>1. Pipe \in Seq(Nat) /\ Append(Pipe, byte) \in Seq(Nat)
  BY DEF Types, INs, Pipe
<1>2. bank' = [bank EXCEPT !["IN"].bytes = Append(Pipe, byte)]
  BY Zenon DEF Write_8, INs, SizeOf, Pipe
<1>3. bank \in [INs -> [bytes : Seq(Nat), busy : BOOLEAN]] /\ "IN" \in INs
  BY DEF Types, INs
<1>4. Pipe' = Append(Pipe, byte)
  BY <1>2, <1>3 DEF Pipe
<1>5. bank' \in [INs -> [bytes : Seq(Nat), busy : BOOLEAN]]
  BY <1>1, <1>2, <1>3
<1>6. Len(Append(Pipe, byte)) = Len(Pipe) + 1
  BY <1>1
<1> QED BY <1>4, <1>5, <1>6

\* A byte written while another endpoint is selected does not reach it.
LEMMA WriteElsewhere ==
  ASSUME Types, NEW byte \in Nat, Write_8(byte), sel # "IN"
  PROVE  /\ Pipe' = Pipe
         /\ bank' \in [INs -> [bytes : Seq(Nat), busy : BOOLEAN]]
<1>1. CASE bank' = bank
  BY <1>1 DEF Types, Pipe
<1>2. CASE bank' # bank
  <2>1. sel = "NOTIF" /\ bank' = [bank EXCEPT ![sel].bytes = Append(@, byte)]
    BY <1>2 DEF Write_8, INs
  <2>2. bank["NOTIF"].bytes \in Seq(Nat)
        /\ Append(bank["NOTIF"].bytes, byte) \in Seq(Nat)
    BY DEF Types, INs
  <2>3. bank' = [bank EXCEPT !["NOTIF"].bytes =
                   Append(bank["NOTIF"].bytes, byte)]
    BY <2>1, Zenon
  <2> QED BY <2>2, <2>3 DEF Types, INs, Pipe
<1> QED BY <1>1, <1>2

\* SendByte puts the program's next byte, or, after a bus reset, loses it.
LEMMA SendByteWriteStep == IInv /\ SendByteWrite => IInv' /\ ChannelStep
<1> SUFFICES ASSUME IInv, SendByteWrite PROVE IInv' /\ ChannelStep
  OBVIOUS
<1>1. call.op = "SendByte" /\ call.at = "write"
  BY
     DEF SendByteWrite, IInv, Types, CallShape, Places, CallRecords, Ops,
         Data, Streams, Resumable, Reading, Flushing, Receiving
<1>2. NextByte = msg.base + 1 /\ Written = msg.base /\ NextByte \in Nat
  BY <1>1 DEF IInv, Types, CallRecords, CallShape, NextByte, Written, Resumable
<1>3. Written' = msg.base + 1 /\ msg' \in [base : Nat, len : Nat,
        processed : Nat]
  BY <1>1
     DEF IInv, Types, CallRecords, CallShape, SendByteWrite, Return,
         NoCall, Call, Written, Resumable
<1>4. call' \in CallRecords /\ call'.left =< call'.len
  BY DEF SendByteWrite, Return, CallRecords, NoCall, Call, Labels, Ops
<1>5. CASE sel = "IN"
  <2>1. ~bank["IN"].busy /\ Len(Pipe) < BankSize
    BY <1>1, <1>5 DEF IInv, Room, Pipe
  <2>3. /\ Pipe' = Append(Pipe, NextByte) /\ Len(Pipe') = Len(Pipe) + 1
        /\ bank' \in [INs -> [bytes : Seq(Nat), busy : BOOLEAN]]
    BY <1>2, <1>5, <2>1, WriteFacts DEF IInv, SendByteWrite
  <2>5. UNCHANGED <<got, disturbed, sel>>
    BY DEF SendByteWrite
  <2>6. Types'
    BY <1>3, <1>4, <2>1, <2>3, <2>5, SizesAssumption DEF IInv, Types, Pipe, INs
  <2>7. PutStep
    BY <1>2, <1>3, <2>1, <2>3, <2>5 DEF PutStep
  <2> QED BY <2>6, <2>7, IdleShape DEF IInv, ChannelStep, SendByteWrite, Return
<1>6. CASE sel = "EP0" /\ disturbed
  <2>1. UNCHANGED <<bank, got, disturbed, sel>>
    BY <1>6 DEF SendByteWrite, Write_8, INs
  <2>2. Types'
    BY <1>3, <1>4, <2>1 DEF IInv, Types, INs
  <2>3. DisturbStep
    BY <1>2, <1>3, <1>6, <2>1 DEF DisturbStep, Pipe, IInv, Types
  <2> QED BY <2>2, <2>3, IdleShape DEF IInv, ChannelStep, SendByteWrite, Return
<1> QED BY <1>1, <1>5, <1>6 DEF IInv, Selected, EndpointOf, Reading, Receiving

\* A stream that ends has written all of its bytes.
LEMMA StreamDoneStep ==
  ASSUME IInv, StreamDone, call.op \in Streams, call.at = "turn",
         call.left = 0, UNCHANGED <<sel, bank, got, disturbed>>
  PROVE  IInv' /\ ChannelStep
<1>0. /\ Types /\ CallShape /\ call \in CallRecords
      /\ msg \in [base : Nat, len : Nat, processed : Nat]
      /\ call.len \in Nat /\ call.left \in Nat /\ USB_STREAM_TIMEOUT_MS \in Nat
      /\ HeaderBytes \in Nat /\ StateBytes \in Nat
  BY SizesAssumption DEF IInv, Types, CallRecords
<1>1. CASE call.op \in Data
  <2>1. call' = NoCall
        /\ msg' = [base |-> msg.base + call.len, len |-> 0, processed |-> 0]
    BY <1>1 DEF StreamDone, Data, Resumable
  <2>2. Types'
    BY <1>0, <2>1, NoCallTyped DEF Types, CallRecords, INs
  <2>3. Written' = msg.base + call.len
    <3>1. msg'.base = msg.base + call.len /\ msg'.processed = 0
          /\ msg.base + call.len \in Nat
      BY <1>0, <2>1
    <3>2. call'.op = "none"
      BY <2>1 DEF NoCall, Call
    <3>3. Written' = msg'.base + msg'.processed
      BY <3>2 DEF Written, Resumable
    <3> QED BY <3>1, <3>3
  <2>4. Written = msg.base + call.len
    <3>1. Written = call.from + (call.len - call.left) /\ call.from = msg.base
      BY <1>0, <1>1 DEF Written, CallShape, Data, Resumable
    <3> QED BY <1>0, <3>1
  <2>5. Still
    BY <2>3, <2>4 DEF Still, Pipe
  <2> QED BY <2>1, <2>2, <2>5, IdleShape DEF IInv, ChannelStep
<1>2. CASE call.op \in Reading \cup {"Header", "State"}
  <2>1. msg' = msg
    BY <1>2 DEF StreamDone, Resumable, Reading
  <2>2. \/ call' = SendState /\ call.op = "Header"
        \/ call' = [call EXCEPT !.at = "clear"] /\ call.op = "State"
        \/ call' = NoCall
    BY <1>2 DEF StreamDone
  <2>3. call' \in CallRecords /\ call'.left =< call'.len
    <3>1. CASE call' = SendState
      BY <1>0, <3>1
         DEF SendState, Call, Waiting, CallRecords, Labels, Ops, Streams
    <3>2. CASE call' = [call EXCEPT !.at = "clear"]
      BY <1>0, <3>2 DEF Types, CallRecords, Labels
    <3> QED BY <2>2, <3>1, <3>2, NoCallTyped
  <2>4. Types'
    BY <1>0, <2>1, <2>3 DEF Types, INs
  <2>5. CallShape'
    BY <1>0, <2>1, <2>2
       DEF SendState, NoCall, Call, Waiting, CallShape, Places, Waits,
           Data, Resumable, Reading, Receiving, Flushing, After, Streams,
           CallRecords
  <2>6. Selected' /\ Room'
    BY <1>0, <2>1, <2>2
       DEF IInv, SendState, NoCall, Call, Waiting, Selected, Room,
           EndpointOf, CallRecords
  <2>7. Written' = Written
    <3>1. call.op \notin {"SendData"} \cup Resumable
      BY <1>2 DEF Resumable, Reading
    <3>2. call'.op \notin {"SendData"} \cup Resumable
      BY <1>0, <2>2, <3>1
         DEF SendState, NoCall, Call, Waiting, Resumable, CallRecords
    <3> QED BY <2>1, <3>1, <3>2 DEF Written
  <2> QED BY <2>1, <2>4, <2>5, <2>6, <2>7 DEF IInv, ChannelStep, Still, Pipe
<1> QED BY <1>1, <1>2 DEF Streams, Data, Reading

\* A stream's turn with room writes the program's next byte.
LEMMA StreamTransferStep ==
  ASSUME IInv, call.op \in Streams, call.at = "turn", call.left # 0,
         ReadWriteAllowed(TRUE), call' = [call EXCEPT !.left = @ - 1],
         UNCHANGED <<sel, msg, got, disturbed>>,
         call.op \in Reading => bank' = bank,
         call.op \notin Reading => Write_8(NextByte)
  PROVE  IInv' /\ ChannelStep
<1>0. /\ Types /\ CallShape /\ Selected /\ call \in CallRecords
      /\ msg \in [base : Nat, len : Nat, processed : Nat]
      /\ call.len \in Nat /\ call.left \in Nat /\ call.from \in Nat
      /\ call.left =< call.len
  BY DEF IInv, Types, CallRecords
<1>a. /\ call'.op = call.op /\ call'.at = call.at /\ call'.len = call.len
      /\ call'.from = call.from /\ call'.left = call.left - 1
      /\ call'.then = call.then
  BY <1>0 DEF CallRecords
<1>b. call'.at = "turn" /\ call'.op \in Streams
  BY <1>a
<1>1. call.left \in Nat /\ call.left - 1 \in Nat /\ call.len \in Nat
      /\ call.from \in Nat /\ NextByte \in Nat
      /\ NextByte = call.from + (call.len - call.left) + 1
  BY <1>0 DEF NextByte
<1>2. call' \in CallRecords /\ call'.left =< call'.len
  BY <1>0, <1>1, <1>a DEF CallRecords
<1>3. CallShape' /\ Selected'
  <2>1. CallShape'
    <3>1. call'.at \in Places(call'.op)
      BY <1>0, <1>a DEF CallShape
    <3>2. call.op \in Resumable => msg.processed =< call.len - (call.left - 1)
      BY <1>0, <1>1 DEF CallShape
    <3>3. call.op # "SendByte"
      BY DEF Streams
    <3> QED BY <1>0, <1>a, <1>b, <3>1, <3>2, <3>3 DEF CallShape, Waits
  <2>2. Selected'
    BY <1>0, <1>a DEF Selected, EndpointOf
  <2> QED BY <2>1, <2>2
<1>4. Room'
  BY <1>b DEF Room, Streams
<1>5. call.op \in Data => Written' = NextByte /\ Written = NextByte - 1
  <2> SUFFICES ASSUME call.op \in Data
               PROVE  Written' = NextByte /\ Written = NextByte - 1
    OBVIOUS
  <2>1. Written = call.from + (call.len - call.left)
    BY DEF Written, Data, Resumable
  <2>2. Written' = call.from + (call.len - (call.left - 1))
    BY <1>a DEF Written, Data, Resumable
  <2> QED BY <1>1, <2>1, <2>2
<1>6. call.op \notin Data => Written' = Written
  BY <1>a DEF Written, Data, Resumable
<1>7. CASE call.op \in Reading
  <2>1. Types'
    BY <1>0, <1>2, <1>7 DEF Types, INs
  <2>2. Still
    BY <1>6, <1>7 DEF Still, Pipe, Reading, Data
  <2> QED BY <1>3, <1>4, <2>1, <2>2 DEF IInv, ChannelStep
<1>8. CASE call.op \notin Reading /\ sel # "IN"
  <2>1. /\ Pipe' = Pipe
        /\ bank' \in [INs -> [bytes : Seq(Nat), busy : BOOLEAN]]
    BY <1>0, <1>1, <1>8, WriteElsewhere
  <2>2. Types'
    BY <1>0, <1>2, <2>1 DEF Types, Pipe
  <2>3. CASE call.op \in Data
    <3>1. disturbed = TRUE
      BY <1>0, <1>8, <2>3 DEF Selected, EndpointOf, Data, Reading, Receiving
    <3>2. DisturbStep
      BY <1>1, <1>5, <2>1, <2>3, <3>1 DEF DisturbStep
    <3> QED BY <1>3, <1>4, <2>2, <3>2 DEF IInv, ChannelStep
  <2>4. CASE call.op \notin Data
    BY <1>3, <1>4, <1>6, <2>1, <2>2, <2>4 DEF IInv, ChannelStep, Still
  <2> QED BY <2>3, <2>4
<1>9. CASE call.op \notin Reading /\ sel = "IN"
  <2>1. call.op \in Data
    BY <1>0, <1>9 DEF Selected, EndpointOf, Data, Reading, Receiving, Streams
  <2>2. ~bank["IN"].busy /\ Len(Pipe) < BankSize
    BY <1>9 DEF ReadWriteAllowed, INs, SizeOf, Pipe
  <2>3. /\ Pipe' = Append(Pipe, NextByte) /\ Len(Pipe') = Len(Pipe) + 1
        /\ bank' \in [INs -> [bytes : Seq(Nat), busy : BOOLEAN]]
    BY <1>0, <1>1, <1>9, <2>2, WriteFacts
  <2>4. Types'
    BY <1>0, <1>2, <2>2, <2>3, SizesAssumption DEF Types, Pipe, INs
  <2>5. PutStep
    <3>1. NextByte = Written + 1
      BY <1>1, <1>5, <2>1
    <3> QED BY <1>5, <2>1, <2>2, <2>3, <3>1, Zenon DEF PutStep
  <2> QED BY <1>3, <1>4, <2>4, <2>5 DEF IInv, ChannelStep
<1> QED BY <1>7, <1>8, <1>9

\* A stream's turn without room hands the bank over; a resumable stream returns
\* with *BytesProcessed at what it has written.
LEMMA StreamClearStep ==
  ASSUME IInv, call.op \in Streams, call.at = "turn", call.left # 0,
         UNCHANGED <<sel, got, disturbed>>,
         call.op \in Reading => bank' = bank,
         call.op \notin Reading => ClearIN,
         IF call.op \in Resumable THEN StreamIncomplete
         ELSE call' = Waiting(call, "turn") /\ UNCHANGED msg
  PROVE  IInv' /\ ChannelStep
<1> USE SizesAssumption DEF IInv, Types
<1>1. /\ Pipe' = Pipe
      /\ bank' \in [INs -> [bytes : Seq(Nat), busy : BOOLEAN]]
  BY ClearINFacts DEF Pipe
<1>2. CASE call.op \in Resumable
  <2>1. call' = NoCall
        /\ msg' = [msg EXCEPT !.processed = call.len - call.left]
    BY <1>2 DEF StreamIncomplete, Return, CallRecords, CallShape
  <2>2. call.len - call.left \in Nat
    BY DEF CallRecords
  <2>3. Types'
    BY <1>1, <2>1, <2>2, NoCallTyped DEF Pipe
  <2>4. Still
    BY <1>1, <1>2, <2>1, <2>2
       DEF Still, Written, NoCall, Call, CallShape, Data, Resumable
  <2> QED BY <2>1, <2>3, <2>4, IdleShape DEF ChannelStep
<1>3. CASE call.op \notin Resumable
  <2>1. call' = Waiting(call, "turn") /\ msg' = msg
    BY <1>3
  <2>2. call' \in CallRecords /\ call'.left =< call'.len
    BY <2>1 DEF CallRecords, Waiting, Labels
  <2>3. Types'
    BY <1>1, <2>1, <2>2 DEF Pipe
  <2>4. CallShape'
    BY <1>3, <2>1
       DEF CallShape, CallRecords, Waiting, Places, Waits, After, Ops,
           Data, Streams, Resumable, Reading, Receiving, Flushing
  <2>5. Selected' /\ Room'
    BY <2>1 DEF Selected, Room, Waiting, EndpointOf, Streams
  <2>6. Still
    BY <1>1, <2>1 DEF Still, Written, Waiting
  <2> QED BY <2>3, <2>4, <2>5, <2>6 DEF ChannelStep
<1> QED BY <1>2, <1>3

\* Every turn of the loop in the writing templates is a step of the channel.
LEMMA WritingTurnStep ==
  IInv /\ (WriteStreamTurn \/ NullStreamTurn) => IInv' /\ ChannelStep
<1> SUFFICES ASSUME IInv, WriteStreamTurn \/ NullStreamTurn
             PROVE  IInv' /\ ChannelStep
  OBVIOUS
<1>1. /\ call.op \in Streams \ Reading /\ call.at = "turn"
      /\ UNCHANGED <<sel, got, disturbed>>
  BY DEF WriteStreamTurn, NullStreamTurn, StreamTurn, Streams, Reading
<1>2. CASE call.left = 0
  BY <1>1, <1>2, StreamDoneStep DEF WriteStreamTurn, NullStreamTurn, StreamTurn
<1>3. CASE call.left # 0
  <2>1. \/ /\ ReadWriteAllowed(TRUE) /\ Write_8(NextByte)
           /\ call' = [call EXCEPT !.left = @ - 1] /\ UNCHANGED msg
        \/ /\ ClearIN
           /\ IF call.op \in Resumable THEN StreamIncomplete
              ELSE call' = Waiting(call, "turn") /\ UNCHANGED msg
    <3>1. PICK b \in BOOLEAN :
            /\ ReadWriteAllowed(b)
            /\ IF b THEN /\ Write_8(NextByte)
                         /\ call' = [call EXCEPT !.left = @ - 1]
                         /\ UNCHANGED msg
               ELSE /\ ClearIN
                    /\ IF call.op \in Resumable THEN StreamIncomplete
                       ELSE call' = Waiting(call, "turn") /\ UNCHANGED msg
      BY <1>3, Zenon DEF WriteStreamTurn, NullStreamTurn, StreamTurn
    <3>2. CASE b = TRUE
      BY <3>1, <3>2, Zenon
    <3>3. CASE b = FALSE
      BY <3>1, <3>3, Zenon
    <3> QED BY <3>2, <3>3
  <2> QED BY <1>1, <1>3, <2>1, StreamTransferStep, StreamClearStep
<1> QED BY <1>2, <1>3

\* The reading templates leave the sending half alone.
LEMMA ReadingTurnStep ==
  IInv /\ (ReadStreamTurn \/ DiscardStreamTurn) => IInv' /\ ChannelStep
<1> SUFFICES ASSUME IInv, ReadStreamTurn \/ DiscardStreamTurn
             PROVE  IInv' /\ ChannelStep
  OBVIOUS
<1>1. /\ call.op \in Streams /\ call.op \in Reading /\ call.at = "turn"
      /\ UNCHANGED <<sel, got, disturbed, bank>>
  BY DEF ReadStreamTurn, DiscardStreamTurn, StreamTurn, Streams, Reading
<1>2. CASE call.left = 0
  BY <1>1, <1>2, StreamDoneStep
     DEF ReadStreamTurn, DiscardStreamTurn, StreamTurn
<1>3. CASE call.left # 0
  <2>1. \/ /\ ReadWriteAllowed(TRUE)
           /\ call' = [call EXCEPT !.left = @ - 1] /\ UNCHANGED msg
        \/ IF call.op \in Resumable THEN StreamIncomplete
           ELSE call' = Waiting(call, "turn") /\ UNCHANGED msg
    <3>1. PICK b \in BOOLEAN :
            /\ ReadWriteAllowed(b)
            /\ IF b THEN /\ call' = [call EXCEPT !.left = @ - 1]
                         /\ UNCHANGED msg
               ELSE IF call.op \in Resumable THEN StreamIncomplete
                    ELSE call' = Waiting(call, "turn") /\ UNCHANGED msg
      BY <1>3, Zenon DEF ReadStreamTurn, DiscardStreamTurn, StreamTurn
    <3>2. CASE b = TRUE
      BY <3>1, <3>2, Zenon
    <3>3. CASE b = FALSE
      BY <3>1, <3>3, Zenon
    <3> QED BY <3>2, <3>3
  <2> QED BY <1>1, <1>3, <2>1, StreamTransferStep, StreamClearStep
<1> QED BY <1>2, <1>3

-----------------------------------------------------------------------------
(* The program's calls. *)

\* A call that starts, with the position it is given, moves no byte.
LEMMA BeginStep ==
  ASSUME IInv, NEW op \in Ops, NEW from \in Nat, NEW len \in Nat,
          NEW left \in Nat,
         op # "State", op # "none",
         left =< len, Begin(op, from, len, left),
         msg' \in [base : Nat, len : Nat, processed : Nat],
         msg'.base = msg.base, msg'.processed = msg.processed,
         op \in Data => from = msg.base /\ left = len - msg.processed,
         op = "SendData" => msg.processed = 0,
         op \in Resumable => msg'.len = len,
         op = "SendByte" =>
           from = msg.base /\ len = 1 /\ left = 1 /\ msg.processed = 0
  PROVE  IInv' /\ ChannelStep
<1>1. /\ call.at = "idle" /\ call' = Call(op, "select", from, len, left)
      /\ UNCHANGED <<sel, bank, got, disturbed>>
  BY DEF Begin
<1>2. /\ call'.op = op /\ call'.at = "select" /\ call'.from = from
      /\ call'.len = len /\ call'.left = left
  BY <1>1 DEF Call
<1>3. call' \in CallRecords
  BY <1>1 DEF Call, CallRecords, Labels
<1>4. Types'
  BY <1>1, <1>2, <1>3 DEF IInv, Types, INs
<1>5. CallShape'
  <2>1. "select" \in Places(op)
    BY DEF Places, Ops, Data, Streams, Resumable, Reading, Receiving, Flushing
  <2>2. op \in Resumable => op \in Data
    BY DEF Resumable, Data
  <2>3. msg.processed \in Nat
    BY DEF IInv, Types
  <2> QED BY <1>2, <2>1, <2>2, <2>3 DEF CallShape, Waits
<1>6. Selected' /\ Room'
  BY <1>2 DEF Selected, Room, Waits
<1>7. Still
  <2>1. call.op = "none"
    BY <1>1
       DEF IInv, Types, CallRecords, CallShape, Places, Ops, Data, Streams,
           Resumable, Reading, Receiving, Flushing
  <2>2. Written = msg.base + msg.processed
    BY <2>1 DEF Written, Resumable
  <2>3. msg.base \in Nat /\ msg.processed \in Nat
    BY DEF IInv, Types
  <2>4. Written' = msg.base + msg.processed
    <3>1. CASE op \in Data
      BY <1>2, <2>3, <3>1 DEF Written, Data, Resumable
    <3>2. CASE op \notin Data
      BY <1>2, <3>2 DEF Written, Data, Resumable
    <3> QED BY <3>1, <3>2
  <2> QED BY <1>1, <2>2, <2>4 DEF Still, Pipe
<1> QED BY <1>4, <1>5, <1>6, <1>7 DEF IInv, ChannelStep

\* Every call the main program makes starts that way.
LEMMA ApplicationStep ==
  ASSUME IInv, Progress, Application
  PROVE  IInv' /\ ChannelStep /\ Progress'
<1>0. /\ msg \in [base : Nat, len : Nat, processed : Nat]
      /\ msg.base \in Nat /\ msg.processed \in Nat /\ msg.len \in Nat
      /\ HeaderBytes \in Nat
  BY SizesAssumption DEF IInv, Types
<1>1. CASE CDC_Device_SendData
  <2>1. PICK n \in Lengths : msg.processed = 0 /\ msg' = msg
                             /\ Begin("SendData", msg.base, n, n)
    BY <1>1 DEF CDC_Device_SendData
  <2>2. n \in Nat
    BY SizesAssumption
  <2>3. "SendData" \in Ops
    BY DEF Ops, Streams
  <2>4. n = n - msg.processed
    BY <2>1, <2>2
  <2>5. IInv' /\ ChannelStep
    BY <1>0, <2>1, <2>2, <2>3, <2>4, BeginStep DEF Resumable
  <2> QED BY <2>1, <2>5 DEF Progress
<1>2. CASE CDC_Device_SendByte
  <2>1. msg.processed = 0 /\ msg' = msg /\ Begin("SendByte", msg.base, 1, 1)
    BY <1>2 DEF CDC_Device_SendByte
  <2>2. "SendByte" \in Ops
    BY DEF Ops
  <2>3. IInv' /\ ChannelStep
    BY <1>0, <2>1, <2>2, BeginStep DEF Data, Resumable
  <2> QED BY <2>1, <2>3 DEF Progress
<1>3. CASE CDC_Device_Flush
  <2>1. msg' = msg /\ Begin("Flush", 0, 0, 0) /\ "Flush" \in Ops
    BY <1>3 DEF CDC_Device_Flush, Ops, Flushing
  <2>2. IInv' /\ ChannelStep
    BY <1>0, <2>1, BeginStep DEF Data, Resumable
  <2> QED BY <2>1, <2>2 DEF Progress
<1>4. CASE CDC_Device_SendControlLineStateChange
  <2>1. msg' = msg /\ Begin("Header", 0, HeaderBytes, HeaderBytes)
        /\ "Header" \in Ops
    BY <1>4 DEF CDC_Device_SendControlLineStateChange, Ops, Streams
  <2>2. IInv' /\ ChannelStep
    BY <1>0, <2>1, BeginStep DEF Data, Resumable
  <2> QED BY <2>1, <2>2 DEF Progress
<1>5. CASE \E op \in Resumable : Endpoint_Write_Stream(op)
  <2>1. PICK op \in Resumable : Endpoint_Write_Stream(op)
    BY <1>5
  <2>2. PICK n \in Lengths :
          /\ msg.processed > 0 => n = msg.len
          /\ Begin(op, msg.base, n, n - msg.processed)
          /\ msg' = [msg EXCEPT !.len = n]
    BY <2>1 DEF Endpoint_Write_Stream
  <2>3. n \in Nat /\ msg.processed =< n /\ n - msg.processed \in Nat
        /\ n - msg.processed =< n
    BY <1>0, <2>2, SizesAssumption DEF Progress
  <2>4. /\ msg' \in [base : Nat, len : Nat, processed : Nat] /\ msg'.len = n
        /\ msg'.base = msg.base /\ msg'.processed = msg.processed
    BY <1>0, <2>2, <2>3
  <2>5. op \in Ops /\ op # "State" /\ op # "SendByte" /\ op # "none"
        /\ op # "SendData"
    BY DEF Ops, Streams, Resumable
  <2>6. IInv' /\ ChannelStep
    BY <1>0, <2>2, <2>3, <2>4, <2>5, BeginStep
  <2> QED BY <2>3, <2>4, <2>6 DEF Progress
<1>6. CASE \E op \in Receiving : Receive(op)
  <2>1. PICK op \in Receiving : msg' = msg /\ Begin(op, 0, 0, 0)
    BY <1>6 DEF Receive
  <2>2. op \in Ops /\ op \notin Data \cup Resumable
          \cup {"State", "SendByte", "none"}
    BY DEF Ops, Receiving, Data, Resumable
  <2>3. op # "SendData"
    BY <2>2 DEF Data
  <2>4. IInv' /\ ChannelStep
    BY <1>0, <2>1, <2>2, <2>3, BeginStep
  <2> QED BY <2>1, <2>4 DEF Progress
<1>7. CASE \E op \in Reading : ReadStream(op)
  <2>1. PICK op \in Reading : ReadStream(op)
    BY <1>7
  <2>2. PICK n \in Lengths : msg' = msg /\ Begin(op, 0, n, n)
    BY <2>1 DEF ReadStream
  <2>3. op \in Ops /\ op \notin Data \cup Resumable
          \cup {"State", "SendByte", "none"}
    BY DEF Ops, Reading, Streams, Data, Resumable
  <2>4. op # "SendData" /\ n \in Nat
    BY <2>3, SizesAssumption DEF Data
  <2>5. IInv' /\ ChannelStep
    BY <1>0, <2>2, <2>3, <2>4, BeginStep
  <2> QED BY <2>2, <2>5 DEF Progress
<1> QED BY <1>1, <1>2, <1>3, <1>4, <1>5, <1>6, <1>7 DEF Application

-----------------------------------------------------------------------------
(* The host and the interrupts. *)

\* What the host and the interrupts do keeps the invariant, as long as the
\* data IN bank is kept or emptied and a selection they change is accounted for.
LEMMA OutsideStep ==
  ASSUME IInv, UNCHANGED <<call, msg>>, got' \in Nat, disturbed' \in BOOLEAN,
         disturbed => disturbed',
         bank' \in [INs -> [bytes : Seq(Nat), busy : BOOLEAN]],
         bank'["IN"] = bank["IN"] \/ bank'["IN"] = Empty,
         \/ sel' = sel
         \/ sel' = "EP0" /\ (disturbed' \/ call.at = "idle")
  PROVE  IInv' /\ Written' = Written /\ Written \in Nat
<1>1. Types'
  <2>1. Len(Empty.bytes) = 0
    BY DEF Empty
  <2> QED BY <2>1, SizesAssumption DEF IInv, Types
<1>2. CallShape'
  BY DEF IInv, CallShape
<1>3. Selected'
  BY DEF IInv, Selected
<1>4. Room'
  <2>1. Empty.bytes = <<>> /\ Len(Empty.bytes) = 0 /\ ~Empty.busy
    BY DEF Empty
  <2>2. sel' = "IN" => sel = "IN"
    OBVIOUS
  <2> QED BY <2>1, <2>2, SizesAssumption DEF IInv, Room
<1>5. Written' = Written
  BY DEF Written
<1>6. Written \in Nat
  <2>1. /\ call.from \in Nat /\ call.len \in Nat /\ call.left \in Nat
        /\ call.left =< call.len /\ msg.base \in Nat /\ msg.processed \in Nat
    BY DEF IInv, Types, CallRecords
  <2> QED BY <2>1 DEF Written
<1> QED BY <1>1, <1>2, <1>3, <1>4, <1>5, <1>6 DEF IInv

\* An empty bank is a bank.
LEMMA EmptyTyped ==
  Empty \in [bytes : Seq(Nat), busy : BOOLEAN] /\ Empty.bytes = <<>>
BY DEF Empty

\* The host's IN transaction takes what is in the bank.
LEMMA HostTakesStep == IInv /\ HostTakes => IInv' /\ ChannelStep
<1> SUFFICES ASSUME IInv, HostTakes PROVE IInv' /\ ChannelStep
  OBVIOUS
<1>0. /\ bank \in [INs -> [bytes : Seq(Nat), busy : BOOLEAN]] /\ "IN" \in INs
      /\ Pipe \in Seq(Nat) /\ got \in Nat /\ disturbed \in BOOLEAN
  BY DEF IInv, Types, INs, Pipe
<1>1. /\ got' = IF Pipe = <<>> THEN got ELSE Pipe[Len(Pipe)]
      /\ bank' = [bank EXCEPT !["IN"] = Empty]
      /\ UNCHANGED <<call, msg, sel, disturbed>>
  BY DEF HostTakes, Pipe
<1>2. bank' \in [INs -> [bytes : Seq(Nat), busy : BOOLEAN]] /\ bank'["IN"]
        = Empty
  BY <1>0, <1>1, EmptyTyped
<1>3. Pipe' = <<>>
  BY <1>2, EmptyTyped DEF Pipe
<1>4. got' \in Nat
  BY <1>0, <1>1
<1>5. IInv' /\ Written' = Written
  BY <1>0, <1>1, <1>2, <1>4, OutsideStep
<1>6. CASE Pipe = <<>>
  BY <1>1, <1>3, <1>5, <1>6 DEF ChannelStep, Still
<1>7. CASE Pipe # <<>>
  BY <1>1, <1>3, <1>5, <1>7 DEF ChannelStep, TakeStep
<1> QED BY <1>6, <1>7

\* A transaction on the notification endpoint does not touch it.
LEMMA HostHearsStep == IInv /\ HostHears => IInv' /\ ChannelStep
<1> SUFFICES ASSUME IInv, HostHears PROVE IInv' /\ ChannelStep
  OBVIOUS
<1>0. /\ bank \in [INs -> [bytes : Seq(Nat), busy : BOOLEAN]]
      /\ "IN" \in INs /\ "NOTIF" \in INs /\ got \in Nat
              /\ disturbed \in BOOLEAN
  BY DEF IInv, Types, INs
<1>1. /\ bank' = [bank EXCEPT !["NOTIF"] = Empty]
      /\ UNCHANGED <<call, msg, sel, disturbed, got>>
  BY DEF HostHears
<1>2. /\ bank' \in [INs -> [bytes : Seq(Nat), busy : BOOLEAN]]
      /\ bank'["IN"] = bank["IN"]
  BY <1>0, <1>1, EmptyTyped
<1>3. IInv' /\ Written' = Written
  BY <1>0, <1>1, <1>2, OutsideStep
<1> QED BY <1>1, <1>2, <1>3 DEF ChannelStep, Still, Pipe

\* Emptying the bank disturbs the channel, unless nothing was in it.
LEMMA EmptyingStep ==
  ASSUME IInv, UNCHANGED <<call, msg, got>>, disturbed' \in BOOLEAN,
         disturbed => disturbed',
         bank' \in [INs -> [bytes : Seq(Nat), busy : BOOLEAN]],
         bank'["IN"] = Empty, bank["IN"] # Empty => disturbed',
         \/ sel' = sel
         \/ sel' = "EP0" /\ (disturbed' \/ call.at = "idle")
  PROVE  IInv' /\ ChannelStep
<1>1. got' \in Nat
  BY DEF IInv, Types
<1>2. IInv' /\ Written' = Written /\ Written \in Nat
  BY <1>1, OutsideStep
<1>3. Pipe' = <<>>
  BY EmptyTyped DEF Pipe
<1>4. CASE disturbed'
  <2>1. Written' >= Written
    BY <1>2
  <2>2. disturbed' = TRUE
    BY <1>4
  <2>3. DisturbStep
    BY <1>2, <1>3, <2>1, <2>2 DEF DisturbStep
  <2> QED BY <1>2, <2>3 DEF ChannelStep
<1>5. CASE ~disturbed'
  <2>1. disturbed' = disturbed
    BY <1>5 DEF IInv, Types
  <2>2. Pipe = <<>>
    BY <1>5, EmptyTyped DEF Pipe
  <2>3. Still
    BY <1>2, <1>3, <2>1, <2>2 DEF Still
  <2> QED BY <1>2, <2>3 DEF ChannelStep
<1> QED BY <1>4, <1>5

\* A reset or a configuration that loses something sets the disturbed flag.
LEMMA BanksEmptiedFacts ==
  ASSUME IInv, BanksEmptied
  PROVE  /\ disturbed' \in BOOLEAN /\ (disturbed => disturbed')
         /\ bank' \in [INs -> [bytes : Seq(Nat), busy : BOOLEAN]]
         /\ bank'["IN"] = Empty /\ (bank["IN"] # Empty => disturbed')
         /\ disturbed' \/ call.at = "idle"
<1>1. bank' = [e \in INs |-> Empty]
  BY DEF BanksEmptied
<1>2. disturbed' = (\/ disturbed \/ call.at # "idle" \/ heard # <<>>
                    \/ \E e \in INs : bank[e] # Empty)
  BY Zenon DEF BanksEmptied
<1>3. "IN" \in INs
  BY DEF INs
<1>4. /\ disturbed' \in BOOLEAN /\ (disturbed => disturbed')
      /\ (bank["IN"] # Empty => disturbed')
      /\ disturbed' \/ call.at = "idle"
  BY <1>2, <1>3, Zenon
<1> QED BY <1>1, <1>3, <1>4, EmptyTyped

\* SET CONFIGURATION is a disturbance at most.
LEMMA HostConfiguresStep == IInv /\ HostConfigures => IInv' /\ ChannelStep
<1> SUFFICES ASSUME IInv, HostConfigures PROVE IInv' /\ ChannelStep
  OBVIOUS
<1>1. UNCHANGED <<call, msg, sel, got>>
  BY DEF HostConfigures
<1>2. CASE EventsLinked
  <2>1. BanksEmptied
    BY <1>2 DEF HostConfigures
  <2> QED BY <1>1, <2>1, BanksEmptiedFacts, EmptyingStep
<1>3. CASE ~EventsLinked
  <2>1. UNCHANGED <<bank, disturbed>>
    BY <1>3 DEF HostConfigures
  <2>2. /\ bank \in [INs -> [bytes : Seq(Nat), busy : BOOLEAN]]
        /\ got \in Nat /\ disturbed \in BOOLEAN
    BY DEF IInv, Types
  <2>3. IInv' /\ Written' = Written
    BY <1>1, <2>1, <2>2, OutsideStep
  <2> QED BY <1>1, <2>1, <2>3 DEF ChannelStep, Still, Pipe
<1> QED BY <1>2, <1>3

\* CLEAR FEATURE ENDPOINT_HALT is a disturbance at most.
LEMMA HostClearsHaltStep == IInv /\ HostClearsHalt => IInv' /\ ChannelStep
<1> SUFFICES ASSUME IInv, HostClearsHalt PROVE IInv' /\ ChannelStep
  OBVIOUS
<1>0. /\ bank \in [INs -> [bytes : Seq(Nat), busy : BOOLEAN]] /\ "IN" \in INs
      /\ disturbed \in BOOLEAN
  BY DEF IInv, Types, INs
<1>1. /\ bank' = [bank EXCEPT !["IN"] = Empty]
      /\ UNCHANGED <<call, msg, sel, got>>
  BY DEF HostClearsHalt, Endpoint_ResetEndpoint
<1>2. disturbed' = (disturbed \/ bank["IN"] # Empty)
  BY Zenon DEF HostClearsHalt, Endpoint_ResetEndpoint
<1>3. /\ disturbed' \in BOOLEAN /\ (disturbed => disturbed')
      /\ (bank["IN"] # Empty => disturbed')
  BY <1>2, Zenon
<1>4. bank' \in [INs -> [bytes : Seq(Nat), busy : BOOLEAN]] /\ bank'["IN"]
        = Empty
  BY <1>0, <1>1, EmptyTyped
<1> QED BY <1>1, <1>3, <1>4, EmptyingStep

\* Steps that change none of the sending half's variables keep the invariant.
LEMMA QuietStep ==
  ASSUME IInv, UNCHANGED <<call, msg, sel, got, bank, disturbed>>
  PROVE  IInv' /\ ChannelStep
<1>1. /\ bank \in [INs -> [bytes : Seq(Nat), busy : BOOLEAN]]
      /\ got \in Nat /\ disturbed \in BOOLEAN
  BY DEF IInv, Types
<1>2. IInv' /\ Written' = Written
  BY <1>1, OutsideStep
<1> QED BY <1>2 DEF ChannelStep, Still, Pipe

\* Every step of the host and of the interrupts is a step of the channel.
LEMMA EnvironmentStep ==
  ASSUME IInv, Progress, Environment
  PROVE  IInv' /\ ChannelStep /\ Progress'
<1>1. Progress'
  <2>1. msg' = msg
    BY
       DEF Environment, HostTakes, HostHears, HostSends, StartOfFrame,
           BusReset, Suspend, WakeUp, HostConfigures, HostSetsLineEncoding,
           HostHalts, HostClearsHalt, sending
  <2> QED BY <2>1 DEF Progress
<1>2. CASE HostTakes
  BY <1>1, <1>2, HostTakesStep
<1>3. CASE HostHears
  BY <1>1, <1>3, HostHearsStep
<1>4. CASE StartOfFrame
  BY <1>1, <1>4, StartOfFrameStep
<1>5. CASE BusReset
  <2>1. /\ UNCHANGED <<call, msg, got>> /\ sel' = "EP0" /\ BanksEmptied
    BY <1>5 DEF BusReset
  <2> QED BY <1>1, <2>1, BanksEmptiedFacts, EmptyingStep
<1>6. CASE HostConfigures
  BY <1>1, <1>6, HostConfiguresStep
<1>7. CASE HostClearsHalt
  BY <1>1, <1>7, HostClearsHaltStep
<1>8. CASE HostSends \/ Suspend \/ WakeUp \/ HostSetsLineEncoding \/ HostHalts
  <2>1. UNCHANGED <<call, msg, sel, got, bank, disturbed>>
    BY <1>8
       DEF HostSends, Suspend, WakeUp, HostSetsLineEncoding, HostHalts,
           sending
  <2> QED BY <1>1, <2>1, QuietStep
<1> QED BY <1>1, <1>2, <1>3, <1>4, <1>5, <1>6, <1>7, <1>8 DEF Environment

-----------------------------------------------------------------------------
\* *BytesProcessed never passes the length of the data.
LEMMA CodeProgress ==
  ASSUME IInv, Progress, Code
  PROVE  Progress'
<1>0. /\ msg \in [base : Nat, len : Nat, processed : Nat]
      /\ msg.processed \in Nat /\ msg.len \in Nat
      /\ call.len \in Nat /\ call.left \in Nat /\ call.left =< call.len
  BY DEF IInv, Types, CallRecords
<1>1. CASE WaitCheck
  <2>1. \/ msg' = msg \/ msg' = [msg EXCEPT !.base = @ + call.len]
    BY <1>1 DEF WaitCheck, Failed
  <2> QED BY <1>0, <2>1 DEF Progress
<1>2. CASE WriteStreamTurn \/ NullStreamTurn \/ ReadStreamTurn
        \/ DiscardStreamTurn
  <2>1. \/ StreamDone \/ msg' = msg
        \/ call.op \in Resumable /\ StreamIncomplete
    BY <1>2, Zenon
       DEF WriteStreamTurn, NullStreamTurn, ReadStreamTurn,
           DiscardStreamTurn, StreamTurn
  <2>2. CASE StreamDone
    <3>1. \/ msg' = msg
          \/ msg' = [base |-> msg.base + call.len, len |-> 0, processed |-> 0]
      BY <2>2 DEF StreamDone
    <3> QED BY <3>1 DEF Progress
  <2>3. CASE call.op \in Resumable /\ StreamIncomplete
    <3>1. msg.len = call.len
      BY <2>3 DEF IInv, CallShape
    <3>2. msg'.len = msg.len

                           /\ msg'.processed = msg.processed + (call.len - msg.processed - call.left)
      BY <1>0, <2>3 DEF StreamIncomplete
    <3> QED BY <1>0, <3>1, <3>2 DEF Progress
  <2> QED BY <2>1, <2>2, <2>3 DEF Progress
<1>3. CASE SendByteWrite
  <2>1. msg' = [msg EXCEPT !.base = @ + 1]
    BY <1>3 DEF SendByteWrite
  <2> QED BY <1>0, <2>1 DEF Progress
<1>4. CASE \/ Endpoint_SelectEndpoint \/ WaitPoll \/ SendByteRoom
           \/ SendByteClear \/ FlushBytes \/ FlushFull \/ FlushClear
           \/ FlushLast \/ NotificationClear \/ Received
           \/ BytesReceivedCount \/ ReceiveByteRead \/ ReceiveByteRelease
           \/ getchar_Blocked \/ CDC_Device_USBTask \/ getchar_Again
  <2>1. msg' = msg
    BY <1>4
       DEF Endpoint_SelectEndpoint, WaitPoll, SendByteRoom, SendByteClear,
           FlushBytes, FlushFull, FlushClear, FlushLast, NotificationClear,
           Received, BytesReceivedCount, ReceiveByteRead, ReceiveByteRelease,
           getchar_Blocked, CDC_Device_USBTask, getchar_Again, sending
  <2> QED BY <2>1 DEF Progress
<1> QED BY <1>1, <1>2, <1>3, <1>4 DEF Code

\* Every step of the driver is a step of the channel.
LEMMA CodeStep == IInv /\ Code => IInv' /\ ChannelStep
BY Endpoint_SelectEndpointStep, WaitPollStep, WaitCheckStep, WritingTurnStep,
   ReadingTurnStep, SendByteRoomStep, SendByteClearStep, SendByteWriteStep,
   FlushBytesStep, FlushFullStep, FlushClearStep, FlushLastStep,
   NotificationClearStep, ReceivedStep, BytesReceivedCountStep,
   ReceiveByteReadStep, ReceiveByteReleaseStep, getchar_BlockedStep,
   CDC_Device_USBTaskStep, getchar_AgainStep, Zenon DEF Code

\* The initial state satisfies the invariant, and is the channel's.
LEMMA InitIInv == Init => IInv /\ Progress /\ Channel!Init
<1> SUFFICES ASSUME Init PROVE IInv /\ Progress /\ Channel!Init
  OBVIOUS
<1>1. /\ call = NoCall /\ msg = [base |-> 0, len |-> 0, processed |-> 0]
      /\ bank = [e \in INs |-> Empty] /\ "IN" \in INs /\ got = 0
      /\ disturbed = FALSE /\ sel = "EP0"
  BY DEF Init, INs
<1>2. call.op = "none" /\ call.at = "idle"
  BY <1>1 DEF NoCall, Call
<1>3. bank \in [INs -> [bytes : Seq(Nat), busy : BOOLEAN]]
      /\ bank["IN"].bytes = <<>>
  BY <1>1, EmptyTyped
<1>4. Types
  <2>1. Len(bank["IN"].bytes) =< BankSize
    BY <1>3, SizesAssumption
  <2>2. msg \in [base : Nat, len : Nat, processed : Nat]
    BY <1>1
  <2> QED BY <1>1, <1>3, <2>1, <2>2, NoCallTyped DEF Types
<1>5. CallShape
  BY <1>2
     DEF CallShape, Places, Waits, Data, Resumable, Streams, Reading,
         Receiving, Flushing
<1>6. Selected /\ Room
  BY <1>2 DEF Selected, Room
<1>7. Written = 0
  BY <1>1, <1>2 DEF Written, Resumable
<1>8. Progress
  BY <1>1 DEF Progress
<1> QED BY <1>1, <1>3, <1>4, <1>5, <1>6, <1>7, <1>8 DEF IInv, Channel!Init

\* Every step keeps the invariant and is a step of the channel.
LEMMA NextIInv ==
  IInv /\ Progress /\ [Next]_vars => (IInv /\ Progress)' /\ ChannelStep
<1> SUFFICES ASSUME IInv, Progress, [Next]_vars
             PROVE  IInv' /\ Progress' /\ ChannelStep
  OBVIOUS
<1>1. CASE Application
  BY <1>1, ApplicationStep
<1>2. CASE Code
  BY <1>2, CodeStep, CodeProgress
<1>3. CASE Environment
  BY <1>3, EnvironmentStep
<1>4. CASE UNCHANGED vars
  <2>1. UNCHANGED <<call, msg, sel, got, bank, disturbed>>
    BY <1>4 DEF vars, sending
  <2> QED BY <2>1, QuietStep DEF Progress
<1> QED BY <1>1, <1>2, <1>3, <1>4 DEF Next

\* The four kinds of step above are those of ByteChannel under the mapping.
LEMMA ChannelStepIsNext ==
  ASSUME Types, ChannelStep
  PROVE  [Channel!Next]_(Channel!channel)
<1>1. disturbed \in BOOLEAN
  BY DEF Types
<1>2. CASE Still
  <2>1. /\ Written' = Written /\ bank'["IN"].bytes = bank["IN"].bytes
        /\ got' = got /\ disturbed' = disturbed
    BY <1>2 DEF Still, Pipe
  <2>2. (~disturbed)' = ~disturbed
    BY <2>1
  <2> QED BY <2>1, <2>2 DEF Channel!channel
<1>3. CASE PutStep
  <2>1. Channel!Put
    BY <1>3 DEF PutStep, Pipe, Channel!Put
  <2> QED BY <2>1 DEF Channel!Next
<1>4. CASE TakeStep
  <2>1. Channel!Take
    BY <1>4 DEF TakeStep, Pipe, Channel!Take
  <2> QED BY <2>1 DEF Channel!Next
<1>5. CASE DisturbStep
  <2>1. Channel!Disturb
    BY <1>5 DEF DisturbStep, Pipe, Channel!Disturb
  <2> QED BY <2>1 DEF Channel!Next
<1> QED BY <1>2, <1>3, <1>4, <1>5 DEF ChannelStep

\* The invariant holds of every behaviour of the driver, for every bank size,
\* every set of lengths and every timeout.
THEOREM InductiveInvariant == Spec => [](IInv /\ Progress)
<1>1. Init => IInv /\ Progress
  BY InitIInv
<1>2. IInv /\ Progress /\ [Next]_vars => (IInv /\ Progress)'
  BY NextIInv
<1> QED BY <1>1, <1>2, PTL DEF Spec

\* The sending half of the CDC driver (SendData, SendByte, Flush and the
\* resumable streams, over Endpoint_WaitUntilReady) implements the byte channel.
THEOREM DriverImplementsChannel == Spec => ImplementsChannel
<1>1. Init => Channel!Init
  BY InitIInv
<1>2. IInv /\ Progress /\ [Next]_vars => [Channel!Next]_(Channel!channel)
  BY NextIInv, ChannelStepIsNext DEF IInv
<1> QED BY <1>1, <1>2, InductiveInvariant, PTL
        DEF Spec, ImplementsChannel, Channel!Spec

-----------------------------------------------------------------------------
ChannelProofs == INSTANCE ByteChannel_proofs
                   WITH Capacity <- BankSize, sent <- Written,
                        pipe <- bank["IN"].bytes, got <- got,
                        intact <- ~disturbed

\* What the channel promises holds of the driver and its endpoint.
LEMMA ChannelPromises == Spec => []InOrder /\ []NothingMissing
<1>1. Channel!Init => ChannelProofs!Init
  BY DEF Channel!Init, ChannelProofs!Init
<1>2. [Channel!Next]_(Channel!channel)
        => [ChannelProofs!Next]_(ChannelProofs!channel)
  BY DEF Channel!Next, Channel!Put, Channel!Take, Channel!Disturb,
         Channel!channel, ChannelProofs!Next, ChannelProofs!Put,
         ChannelProofs!Take, ChannelProofs!Disturb, ChannelProofs!channel
<1>3. ChannelProofs!Ordered /\ ChannelProofs!Complete
        => InOrder /\ NothingMissing
  BY DEF InOrder, NothingMissing, Channel!Ordered, Channel!Complete,
         ChannelProofs!Ordered, ChannelProofs!Complete
<1>4. ChannelProofs!Spec => [](ChannelProofs!Ordered /\ ChannelProofs!Complete)
  BY ChannelProofs!ChannelSafe
<1> QED BY <1>1, <1>2, <1>3, <1>4, DriverImplementsChannel, PTL
        DEF ImplementsChannel, Channel!Spec, ChannelProofs!Spec

\* No byte reaches the host twice or late, whatever call fails, times out or is
\* resumed and whatever the bus does meanwhile.
THEOREM AlwaysInOrder == Spec => []InOrder
BY ChannelPromises, PTL

\* As long as no call failed and no bank was emptied, what the host has and what
\* is in the bank is all the program has written.
THEOREM AlwaysNothingMissing == Spec => []NothingMissing
BY ChannelPromises, PTL

-----------------------------------------------------------------------------
(* A wait counts whole frames. *)

\* A wait starts with all of its frames to come.
LEMMA WaitingFrames ==
  ASSUME NEW c, NEW then, call' = Waiting(c, then)
  PROVE  Frames'
<1>1. call'.rem = USB_STREAM_TIMEOUT_MS /\ call'.moved = FALSE
        /\ call'.frames = 0
  BY DEF Waiting
<1> QED BY <1>1, SizesAssumption DEF Frames

\* The frames a wait has seen and those it has left add up to the timeout.
LEMMA FramesStep ==
  ASSUME IInv, Frames, [Next]_vars
  PROVE  Frames'
<1>0. /\ call \in CallRecords /\ call.frames \in Nat /\ call.rem \in Nat
      /\ call.moved \in BOOLEAN /\ USB_STREAM_TIMEOUT_MS \in Nat
  BY SizesAssumption DEF IInv, Types, CallRecords
<1>a. NoCall.at \notin Waits /\ GetcharAgain.at \notin Waits
  BY DEF NoCall, GetcharAgain, Call, Waits
<1>b. call'.at \notin Waits => Frames'
  BY DEF Frames
<1>c. SendState = Waiting(Call("State", "poll", HeaderBytes, StateBytes,
        StateBytes), "turn")
  BY DEF SendState
<1>1. CASE UNCHANGED call
  BY <1>1 DEF Frames
<1>2. CASE Application
  <2>1. PICK op, from, len, left : call' = Call(op, "select", from, len, left)
    BY <1>2, Zenon
       DEF Application, CDC_Device_SendData, CDC_Device_SendByte,
           CDC_Device_Flush, CDC_Device_SendControlLineStateChange,
           Endpoint_Write_Stream, Receive, ReadStream, Begin
  <2>2. call'.at = "select"
    BY <2>1 DEF Call
  <2> QED BY <2>2 DEF Frames, Waits
<1>3. CASE WaitPoll
  <2>1. PICK b \in BOOLEAN :
          call' = [call EXCEPT !.at = IF b THEN call.then ELSE "check"]
    BY <1>3 DEF WaitPoll, Goto
  <2>2. call'.frames = call.frames /\ call'.rem = call.rem /\ call'.moved
          = call.moved
    BY <1>0, <2>1 DEF CallRecords
  <2>3. call.at \in Waits
    BY <1>3 DEF WaitPoll, Waits
  <2> QED BY <2>2, <2>3 DEF Frames
<1>4. CASE WaitCheck
  <2>1. CASE Failed
    <3>1. \/ call' = SendState \/ call' = [call EXCEPT !.at = "clear"]
          \/ call' = GetcharAgain \/ call' = NoCall
      BY <2>1 DEF Failed
    <3>2. CASE call' = [call EXCEPT !.at = "clear"]
      <4>1. call'.at = "clear"
        BY <1>0, <3>2 DEF CallRecords
      <4> QED BY <4>1 DEF Frames, Waits
    <3> QED BY <1>a, <1>b, <1>c, <3>1, <3>2, WaitingFrames
  <2>2. CASE ~Failed
    <3> DEFINE rem == IF call.moved THEN call.rem - 1 ELSE call.rem
    <3>1. call' = [call EXCEPT !.at = "poll", !.moved = FALSE, !.rem = rem]
          /\ call.at = "check" /\ ~TimedOut
      BY <1>4, <2>2 DEF WaitCheck
    <3>2. rem \in Nat
      BY <1>0, <3>1 DEF TimedOut
    <3> HIDE DEF rem
    <3>3. call'.frames = call.frames /\ call'.rem = rem /\ call'.moved = FALSE
      BY <1>0, <3>1 DEF CallRecords
    <3>4. \/ call.frames > USB_STREAM_TIMEOUT_MS
          \/ call.frames + rem >= USB_STREAM_TIMEOUT_MS
      BY <1>0, <3>1 DEF Frames, Waits, rem
    <3> QED BY <3>3, <3>4, <1>0, <3>2 DEF Frames
  <2> QED BY <2>1, <2>2
<1>5. CASE StartOfFrame
  <2>1. PICK n \in Nat :
          /\ call' = [call EXCEPT !.moved = TRUE, !.frames = n]
          /\ n > USB_STREAM_TIMEOUT_MS \/ n = call.frames + 1
    <3>1. call.frames + 1 \in Nat
      BY <1>0
    <3> QED BY <1>0, <1>5, <3>1 DEF StartOfFrame
  <2>2. call'.frames = n /\ call'.rem = call.rem /\ call'.moved = TRUE
    BY <1>0, <2>1 DEF CallRecords
  <2>3. call.at \in Waits
    BY <1>5 DEF StartOfFrame, Waits
  <2> QED BY <1>0, <2>1, <2>2, <2>3 DEF Frames
<1>6. CASE Code /\ ~WaitPoll /\ ~WaitCheck
  <2>1. CASE \E c, then : call' = Waiting(c, then)
    BY <2>1, WaitingFrames
  <2>2. CASE ~\E c, then : call' = Waiting(c, then)
    <3>0. call' # SendState /\ \A c, then : call' # Waiting(c, then)
      BY <1>c, <2>2
    <3>1. \/ call' = NoCall \/ call' = GetcharAgain
          \/ \E op \in Ops : call' = Call(op, "select", 0, 0, 0)
          \/ call'.at \notin Waits
      <4>1. CASE Endpoint_SelectEndpoint
        BY <1>0, <3>0, <4>1 DEF Endpoint_SelectEndpoint, CallRecords, Waits
      <4>2. CASE WriteStreamTurn \/ NullStreamTurn \/ ReadStreamTurn
              \/ DiscardStreamTurn
        <5>1. \/ StreamDone
              \/ call' = [call EXCEPT !.left = @ - 1] /\ call.at = "turn"
              \/ StreamIncomplete
          BY <3>0, <4>2, Zenon
             DEF WriteStreamTurn, NullStreamTurn, ReadStreamTurn,
                 DiscardStreamTurn, StreamTurn
        <5>2. CASE StreamDone
          BY <1>0, <3>0, <5>2 DEF StreamDone, CallRecords, Waits
        <5>3. CASE StreamIncomplete
          BY <5>3 DEF StreamIncomplete, Return
        <5>4. CASE call' = [call EXCEPT !.left = @ - 1] /\ call.at = "turn"
          BY <1>0, <5>4 DEF CallRecords, Waits
        <5> QED BY <5>1, <5>2, <5>3, <5>4
      <4>3. CASE SendByteRoom
        BY <1>0, <4>3 DEF SendByteRoom, Goto, CallRecords, Waits
      <4>4. CASE SendByteClear
        BY <3>0, <4>4, Zenon DEF SendByteClear
      <4>5. CASE SendByteWrite \/ NotificationClear
        BY <4>5 DEF SendByteWrite, NotificationClear, Return
      <4>6. CASE FlushBytes
        BY <1>0, <4>6 DEF FlushBytes, FlushReturns, Goto, CallRecords, Waits
      <4>7. CASE FlushFull
        BY <1>0, <4>7 DEF FlushFull, CallRecords, Waits
      <4>8. CASE FlushClear \/ FlushLast
        BY <3>0, <4>8 DEF FlushClear, FlushLast, FlushReturns
      <4>9. CASE Received \/ ReceiveByteRelease
        BY <1>0, <4>9
           DEF Received, ReceiveByteRelease, NoByte, Goto, Return,
               CallRecords, Waits
      <4>10. CASE BytesReceivedCount \/ ReceiveByteRead
        BY <1>0, <4>10
           DEF BytesReceivedCount, ReceiveByteRead, Return, CallRecords,
               Waits
      <4>11. CASE getchar_Blocked \/ CDC_Device_USBTask \/ getchar_Again
        BY <1>0, <4>11
           DEF getchar_Blocked, CDC_Device_USBTask, getchar_Again, Goto,
               Return, Ops, Flushing, CallRecords, Waits
      <4> QED BY <1>6, <4>1, <4>2, <4>3, <4>4, <4>5, <4>6, <4>7, <4>8, <4>9,
                 <4>10, <4>11 DEF Code
    <3>2. CASE \E op \in Ops : call' = Call(op, "select", 0, 0, 0)
      <4>1. call'.at = "select"
        BY <3>2 DEF Call
      <4> QED BY <4>1 DEF Frames, Waits
    <3> QED BY <1>a, <1>b, <3>1, <3>2
  <2> QED BY <2>1, <2>2
<1>7. CASE Environment /\ ~StartOfFrame
  <2>1. call' = call
    BY <1>7
       DEF Environment, HostTakes, HostHears, HostSends, BusReset, Suspend,
           WakeUp, HostConfigures, HostSetsLineEncoding, HostHalts,
           HostClearsHalt
  <2> QED BY <1>1, <2>1
<1>8. CASE UNCHANGED vars
  BY <1>1, <1>8 DEF vars
<1> QED BY <1>2, <1>3, <1>4, <1>5, <1>6, <1>7, <1>8 DEF Next

\* Endpoint_WaitUntilReady reports a timeout on a live endpoint only after
\* USB_STREAM_TIMEOUT_MS whole frames.
THEOREM TimeoutsAreWhole == Spec => TimeoutNotEarly
<1> DEFINE GivesUp == /\ call.at = "check"
                      /\ call'.op # call.op
                              \/ call'.at \notin {"check", "poll"}
                      /\ USB_DeviceState # "Unattached" /\ ~IsStalled
<1>1. Init => Frames
  <2>1. NoCall.at \notin Waits
    BY DEF NoCall, Call, Waits
  <2> QED BY <2>1 DEF Init, Frames
<1>2. IInv /\ Frames /\ [Next]_vars => Frames'
  BY FramesStep
<1>3. IInv /\ Frames /\ [Next]_vars
        => [GivesUp => call.frames > USB_STREAM_TIMEOUT_MS]_vars
  <2> SUFFICES ASSUME IInv, Frames, Next, GivesUp
               PROVE  call.frames > USB_STREAM_TIMEOUT_MS
    OBVIOUS
  <2>0. /\ call \in CallRecords /\ call.frames \in Nat /\ call.rem \in Nat
        /\ call.moved \in BOOLEAN /\ USB_STREAM_TIMEOUT_MS \in Nat
    BY SizesAssumption DEF IInv, Types, CallRecords
  <2>1. WaitCheck \/ StartOfFrame \/ call' = call
    BY
       DEF Next, Application, CDC_Device_SendData, CDC_Device_SendByte,
           CDC_Device_Flush, CDC_Device_SendControlLineStateChange,
           Endpoint_Write_Stream, Receive, ReadStream, Begin, Code,
           Endpoint_SelectEndpoint, WaitPoll, WriteStreamTurn, NullStreamTurn,
           ReadStreamTurn, DiscardStreamTurn, StreamTurn, SendByteRoom,
           SendByteClear, SendByteWrite, FlushBytes, FlushFull, FlushClear,
           FlushLast, NotificationClear, Received, BytesReceivedCount,
           ReceiveByteRead, ReceiveByteRelease, getchar_Blocked,
           CDC_Device_USBTask, getchar_Again, Environment, HostTakes,
           HostHears, HostSends, BusReset, Suspend, WakeUp, HostConfigures,
           HostSetsLineEncoding, HostHalts, HostClearsHalt
  <2>2. ~(call' = call)
    OBVIOUS
  <2>3. ~StartOfFrame
    <3> SUFFICES ASSUME StartOfFrame PROVE FALSE
      OBVIOUS
    <3>1. \E n : call' = [call EXCEPT !.moved = TRUE, !.frames = n]
      BY DEF StartOfFrame
    <3>2. call'.at = call.at /\ call'.op = call.op
      BY <2>0, <3>1 DEF CallRecords
    <3> QED BY <3>2
  <2>4. TimedOut
    <3> SUFFICES ASSUME ~TimedOut PROVE FALSE
      OBVIOUS
    <3>1. \E r : call' = [call EXCEPT !.at = "poll", !.moved = FALSE, !.rem
            = r]
      BY <2>1, <2>2, <2>3 DEF WaitCheck
    <3>2. call'.at = "poll" /\ call'.op = call.op
      BY <2>0, <3>1 DEF CallRecords
    <3> QED BY <3>2
  <2> QED BY <2>0, <2>4 DEF TimedOut, Frames, Waits
<1> QED BY <1>1, <1>2, <1>3, InductiveInvariant, PTL DEF Spec, TimeoutNotEarly

-----------------------------------------------------------------------------
(* The receiving half: no byte is lost or given twice, and BytesReceived    *)
(* keeps its promise.                                                       *)

\* The OUT bank: what it holds was sent by the host, and a bank with bytes in
\* it has not been given back.
OutBank ==
  /\ out \in [bytes : Seq(Nat), full : BOOLEAN]
  /\ out.bytes # <<>> => out.full
  /\ Len(out.bytes) =< BankSize
  /\ \A i \in 1 .. Len(out.bytes) : out.bytes[i] =< fed
  /\ fed \in Nat /\ ate \in Nat /\ ate =< fed /\ fed =< HostBytes
  /\ dropped \in BOOLEAN

\* The bytes promised are in the bank of the OUT endpoint, or a bus reset has
\* taken the promise back; a call that found no byte had none promised.
Promised ==
  /\ promised \in Nat /\ promised =< Len(out.bytes)
  /\ sel = "EP0" => promised = 0
  /\ (call.at = "release" /\ ~call.full) => promised = 0

\* The bank holds what the host sent last, and the program was given what came
\* before; all of it, unless a bank with bytes in it was emptied.
Numbered ==
  /\ \A i \in 1 .. Len(out.bytes) : out.bytes[i] = fed - Len(out.bytes) + i
  /\ ate =< fed - Len(out.bytes)
  /\ ~dropped => ate = fed - Len(out.bytes)

RecvInv == OutBank /\ Promised /\ Numbered

\* The ways a step treats the receiving half: not at all, ...
RestStep == UNCHANGED receiving
\* ... it takes a byte, ...
ReadStep ==
  /\ sel = "OUT" /\ out.bytes # <<>>
  /\ ate' = Head(out.bytes) /\ out' = [out EXCEPT !.bytes = Tail(@)]
  /\ fed' = fed
  /\ promised' = 0 \/ (promised > 0 /\ promised' = promised - 1)
  /\ dropped' = dropped
\* ... gives an empty bank back or leaves it, and counts what is in it, ...
CountStep ==
  /\ \/ out' = out
     \/ /\ sel = "OUT" /\ out.bytes = <<>>
        /\ out' = [bytes |-> <<>>, full |-> FALSE]
  /\ \/ promised' = 0 \/ promised' = promised
     \/ sel = "OUT" /\ promised' = Len(out.bytes)
  /\ ate' = ate /\ fed' = fed /\ dropped' = dropped
\* ... fills a bank that was given back, or empties it.
FillStep ==
  /\ ~out.full /\ HostSends
LossStep ==
  /\ out' = [bytes |-> <<>>, full |-> FALSE] /\ promised' = 0
  /\ ate' = ate /\ fed' = fed
  /\ dropped' = (dropped \/ out.bytes # <<>>)

\* A step keeps a bank that holds what the host sent.
LEMMA CountKeeps ==
  ASSUME RecvInv, Types, CountStep
  PROVE  OutBank' /\ Numbered' /\ promised' \in Nat /\ promised' =< Len(out'.bytes)
<1>1. out'.bytes = out.bytes
      /\ out' \in [bytes : Seq(Nat), full : BOOLEAN]
      /\ (out'.bytes # <<>> => out'.full)
  <2>1. /\ out \in [bytes : Seq(Nat), full : BOOLEAN]
        /\ out.bytes # <<>> => out.full
    BY DEF RecvInv, OutBank
  <2>2. CASE out' = out
    BY <2>1, <2>2
  <2>3. CASE out.bytes = <<>> /\ out' = [bytes |-> <<>>, full |-> FALSE]
    BY <2>3
  <2> QED BY <2>2, <2>3 DEF CountStep
<1>2. OutBank'
  BY <1>1 DEF RecvInv, OutBank, CountStep
<1>3. Numbered'
  BY <1>1 DEF RecvInv, Numbered, CountStep
<1>4. promised' \in Nat /\ promised' =< Len(out.bytes)
  <2>1. Len(out.bytes) \in Nat
    BY DEF RecvInv, OutBank
  <2> QED BY <2>1 DEF RecvInv, Promised, CountStep
<1> QED BY <1>1, <1>2, <1>3, <1>4

\* A reset and a clear of the bank leave the numbering as it is.
LEMMA LossKeeps ==
  ASSUME RecvInv, Types, LossStep
  PROVE  OutBank' /\ Numbered' /\ promised' \in Nat /\ promised' =< Len(out'.bytes)
<1>1. out'.bytes = <<>> /\ Len(out'.bytes) = 0
      /\ out' \in [bytes : Seq(Nat), full : BOOLEAN]
  BY DEF LossStep
<1>2. OutBank'
  BY <1>1, SizesAssumption DEF RecvInv, OutBank, LossStep
<1>3. Numbered'
  <2>1. ate \in Nat /\ fed \in Nat /\ ate =< fed
    BY DEF RecvInv, OutBank
  <2>2. ~dropped' => ate = fed
    <3>1. SUFFICES ASSUME ~dropped, out.bytes = <<>> PROVE ate = fed
      BY DEF LossStep
    <3>2. Len(out.bytes) = 0
      BY <3>1
    <3> QED BY <2>1, <3>1, <3>2 DEF RecvInv, Numbered
  <2> QED BY <1>1, <2>1, <2>2 DEF Numbered, LossStep
<1> QED BY <1>1, <1>2, <1>3 DEF LossStep

\* Taking the first byte out of the bank goes on with the numbering.
LEMMA ReadKeeps ==
  ASSUME RecvInv, Types, ReadStep
  PROVE  /\ OutBank' /\ Numbered'
         /\ promised' \in Nat /\ promised' =< Len(out'.bytes)
<1> DEFINE bytes == out.bytes
           left == out'.bytes
<1>1. bytes \in Seq(Nat) /\ bytes # <<>>
  BY DEF RecvInv, OutBank, ReadStep
<1>2. /\ left = Tail(bytes) /\ out'.full = out.full
      /\ out' \in [bytes : Seq(Nat), full : BOOLEAN]
  <2>1. out \in [bytes : Seq(Nat), full : BOOLEAN]
    BY DEF RecvInv, OutBank
  <2>2. out' = [out EXCEPT !.bytes = Tail(bytes)]
    BY DEF ReadStep
  <2>3. Tail(bytes) \in Seq(Nat)
    BY <1>1
  <2> HIDE DEF bytes
  <2> QED BY <2>1, <2>2, <2>3
<1>3. /\ Len(bytes) \in Nat /\ Len(bytes) > 0 /\ Len(left) = Len(bytes) - 1
      /\ \A i \in 1 .. Len(left) : left[i] = bytes[i + 1]
  BY <1>1, <1>2
<1>4. ate' = bytes[1]
  BY <1>1 DEF ReadStep
<1>5. /\ fed' = fed /\ dropped' = dropped /\ dropped \in BOOLEAN /\ fed \in Nat
      /\ fed =< HostBytes
      /\ \A i \in 1 .. Len(bytes) : bytes[i] =< fed
      /\ bytes[1] \in Nat /\ ate \in Nat /\ Len(bytes) =< BankSize
  BY <1>1 DEF RecvInv, OutBank, ReadStep
<1>6. out'.full
  BY <1>1, <1>2 DEF RecvInv, OutBank
<1>7. promised' \in Nat /\ promised' =< Len(left)
  BY <1>3 DEF RecvInv, Promised, ReadStep
<1>8. /\ \A i \in 1 .. Len(bytes) : bytes[i] = fed - Len(bytes) + i
      /\ ~dropped => ate = fed - Len(bytes)
  BY DEF RecvInv, Numbered
<1> HIDE DEF bytes, left
<1>9. /\ \A i \in 1 .. Len(left) : left[i] =< fed
      /\ Len(left) =< BankSize /\ bytes[1] =< fed
  BY <1>3, <1>5, SizesAssumption
<1>10. /\ \A i \in 1 .. Len(left) : left[i] = fed - Len(left) + i
       /\ bytes[1] = fed - Len(left)
  BY <1>3, <1>5, <1>8
<1>11. OutBank'
  <2>1. ate' \in Nat /\ ate' =< fed'
    <3>1. bytes[1] =< fed
      BY <1>9
    <3> QED BY <1>4, <1>5, <3>1
  <2>2. fed' \in Nat /\ fed' =< HostBytes
    BY <1>5
  <2> QED BY <1>2, <1>5, <1>6, <1>9, <2>1, <2>2 DEF OutBank, left
<1>12. Numbered'
  <2>1. out'.bytes = left /\ fed' = fed /\ fed \in Nat /\ Len(left) \in Nat
    BY <1>2, <1>3, <1>5 DEF left
  <2>2. /\ ate' = fed - Len(left)
        /\ \A i \in 1 .. Len(left) : left[i] = fed - Len(left) + i
    BY <1>4, <1>10
  <2>3. ate' =< fed - Len(left)
    BY <2>1, <2>2
  <2> HIDE DEF left
  <2> QED BY <2>1, <2>2, <2>3 DEF Numbered
<1> QED BY <1>7, <1>11, <1>12 DEF left

\* So does a packet of the host.
LEMMA FillKeeps ==
  ASSUME RecvInv, Types, FillStep
  PROVE  OutBank' /\ Numbered' /\ promised' \in Nat /\ promised' =< Len(out'.bytes)
BY SizesAssumption DEF RecvInv, OutBank, Numbered, Promised, FillStep, HostSends, Types

\* Every statement is of one of these kinds, and one that finds no byte for its
\* caller has found none promised.
LEMMA CodeReceives ==
  ASSUME RecvInv, IInv, Code
  PROVE  /\ RestStep \/ ReadStep \/ CountStep
         /\ sel' = "EP0" => sel = "EP0"
         /\ (call'.at = "release" /\ ~call'.full) => promised' = 0
<1>0. call \in CallRecords /\ promised \in Nat
  BY DEF IInv, Types, RecvInv, Promised
<1>a. NoCall.at # "release" /\ GetcharAgain.at # "release"
      /\ \A c, then : Waiting(c, then).at = "poll"
  BY DEF NoCall, GetcharAgain, Call, Waiting
<1>1. CASE Endpoint_SelectEndpoint
  BY <1>0, <1>a, <1>1
     DEF Endpoint_SelectEndpoint, EndpointOf, CallRecords,
         RestStep, receiving
<1>2. CASE WaitPoll
  BY <1>0, <1>a, <1>2
     DEF WaitPoll, Goto, CallShape, After, IInv, Waits, CallRecords,
         RestStep, receiving
<1>3. CASE WaitCheck
  BY <1>0, <1>a, <1>3
     DEF WaitCheck, Failed, SendState, CallRecords,
         RestStep, receiving
<1>4. CASE WriteStreamTurn \/ NullStreamTurn
  BY <1>0, <1>a, <1>4
     DEF WriteStreamTurn, NullStreamTurn, StreamTurn, StreamDone, StreamIncomplete,
         Return, SendState, CallRecords, Reading, Resumable,
         RestStep, receiving
<1>5. CASE SendByteRoom \/ SendByteClear \/ SendByteWrite
  BY <1>0, <1>a, <1>5
     DEF SendByteRoom, SendByteClear, SendByteWrite, Goto, Return, CallRecords,
         RestStep, receiving
<1>6. CASE FlushBytes \/ FlushFull \/ FlushClear \/ FlushLast
  BY <1>0, <1>a, <1>6
     DEF FlushBytes, FlushFull, FlushClear, FlushLast, FlushReturns, Goto, CallRecords,
         RestStep, receiving
<1>7. CASE NotificationClear \/ Received
  BY <1>0, <1>a, <1>7
     DEF NotificationClear, Received, NoByte, Return, Goto, CallRecords,
         RestStep, receiving
<1>8. CASE getchar_Blocked \/ CDC_Device_USBTask \/ getchar_Again
  BY <1>0, <1>a, <1>8
     DEF getchar_Blocked, CDC_Device_USBTask, getchar_Again, Return, Goto, Call,
         CallRecords,
         RestStep, receiving
<1>9. CASE ReadStreamTurn \/ DiscardStreamTurn
  <2>1. /\ sel' = sel /\ fed' = fed /\ dropped' = dropped
        /\ promised' = 0
    BY <1>9 DEF ReadStreamTurn, DiscardStreamTurn, StreamTurn, Reading
  <2>2. (out' = out /\ ate' = ate) \/ ReadStep \/ CountStep
    <3>1. CASE call.left = 0
      BY <1>9, <3>1 DEF ReadStreamTurn, DiscardStreamTurn, StreamTurn
    <3>2. CASE call.left # 0
      <4>1. PICK allowed \in BOOLEAN :
              /\ ReadWriteAllowed(allowed)
              /\ IF allowed THEN Read_8 ELSE ClearOUT /\ UNCHANGED ate
        BY <1>9, <3>2 DEF ReadStreamTurn, DiscardStreamTurn, StreamTurn
      <4>2. CASE allowed
        BY <2>1, <4>1, <4>2 DEF Read_8, ReadStep
      <4>3. CASE ~allowed
        <5>1. sel = "OUT" => out.bytes = <<>>
          BY <4>1, <4>3 DEF ReadWriteAllowed, INs, RecvInv, OutBank
        <5> QED BY <2>1, <4>1, <4>3, <5>1 DEF ClearOUT, CountStep
      <4> QED BY <4>2, <4>3
    <3> QED BY <3>1, <3>2
  <2>3. call'.at # "release"
    BY <1>0, <1>a, <1>9
       DEF ReadStreamTurn, DiscardStreamTurn, StreamTurn, StreamDone,
           StreamIncomplete, Return, SendState, CallRecords
  <2> QED BY <2>1, <2>2, <2>3 DEF CountStep
<1>10. CASE BytesReceivedCount
  <2>1. /\ sel' = sel /\ fed' = fed /\ ate' = ate /\ dropped' = dropped
        /\ call' = NoCall
    BY <1>10 DEF BytesReceivedCount, Return, sending
  <2>2. PICK b \in BOOLEAN :
          /\ BytesInEndpoint(b)
          /\ IF b THEN UNCHANGED out ELSE ClearOUT
          /\ promised' = IF b /\ sel = "OUT" THEN Len(out.bytes) ELSE 0
    BY <1>10 DEF BytesReceivedCount
  <2>3. (sel = "OUT" /\ ~b) => out.bytes = <<>>
    BY <2>2 DEF BytesInEndpoint, INs
  <2>4. CountStep
    BY <2>1, <2>2, <2>3 DEF CountStep, ClearOUT
  <2> QED BY <1>a, <2>1, <2>4
<1>11. CASE ReceiveByteRead
  <2>1. /\ sel' = sel /\ fed' = fed /\ dropped' = dropped
    BY <1>11 DEF ReceiveByteRead, sending
  <2>2. PICK b \in BOOLEAN :
          /\ BytesInEndpoint(b)
          /\ IF b THEN Read_8 ELSE UNCHANGED <<out, ate>>
          /\ promised' = IF b /\ promised > 0 THEN promised - 1 ELSE promised
          /\ call' = [call EXCEPT !.at = "release", !.full = b]
    BY <1>11 DEF ReceiveByteRead
  <2>3. call'.at = "release" /\ call'.full = b
    BY <1>0, <2>2 DEF CallRecords
  <2>4. sel = "OUT" \/ (sel = "EP0" /\ promised = 0)
    BY <1>0, <1>11
       DEF ReceiveByteRead, IInv, Selected, EndpointOf, Receiving, Reading,
           RecvInv, Promised
  <2>5. sel = "OUT" => b = (out.bytes # <<>>)
    BY <2>2 DEF BytesInEndpoint, INs
  <2>6. ~b => promised = 0 /\ promised' = 0
    <3>1. out.bytes = <<>> => promised = 0
      BY <1>0 DEF RecvInv, Promised
    <3> QED BY <2>2, <2>4, <2>5, <3>1
  <2>7. ReadStep \/ CountStep
    <3>1. CASE sel = "OUT" /\ b
      <4>1. promised' = 0 \/ (promised > 0 /\ promised' = promised - 1)
        BY <1>0, <2>2, <3>1
      <4> QED BY <2>1, <2>2, <2>5, <3>1, <4>1 DEF Read_8, ReadStep
    <3>2. CASE ~(sel = "OUT" /\ b)
      BY <2>1, <2>2, <2>4, <2>6, <3>2 DEF Read_8, CountStep
    <3> QED BY <3>1, <3>2
  <2> QED BY <2>1, <2>3, <2>6, <2>7
<1>12. CASE ReceiveByteRelease
  <2>1. /\ sel' = sel /\ fed' = fed /\ ate' = ate /\ dropped' = dropped
        /\ promised' = promised /\ call'.at # "release"
    BY <1>0, <1>a, <1>12
       DEF ReceiveByteRelease, NoByte, Goto, Return, CallRecords, sending
  <2>2. PICK b \in BOOLEAN :
          BytesInEndpoint(b) /\ IF b THEN UNCHANGED out ELSE ClearOUT
    BY <1>12 DEF ReceiveByteRelease
  <2>3. (sel = "OUT" /\ ~b) => out.bytes = <<>>
    BY <2>2 DEF BytesInEndpoint, INs
  <2>4. CountStep
    BY <2>1, <2>2, <2>3 DEF CountStep, ClearOUT
  <2> QED BY <2>1, <2>4
<1> QED BY <1>1, <1>2, <1>3, <1>4, <1>5, <1>6, <1>7, <1>8, <1>9, <1>10, <1>11,
           <1>12 DEF Code


\* The host fills a bank that was given back; an interrupt empties it or leaves
\* it alone, and only a reset selects the control endpoint.
LEMMA EnvironmentReceives ==
  ASSUME RecvInv, IInv, Environment
  PROVE  /\ RestStep \/ FillStep \/ LossStep
         /\ sel' = "EP0" => sel = "EP0" \/ promised' = 0
         /\ (call'.at = "release" /\ ~call'.full) =>
              (call.at = "release" /\ ~call.full)
<1>0. call \in CallRecords /\ promised \in Nat
  BY DEF IInv, Types, RecvInv, Promised
<1>1. CASE HostTakes \/ HostHears \/ Suspend \/ WakeUp \/ HostSetsLineEncoding
             \/ HostHalts \/ HostClearsHalt
  BY <1>0, <1>1
     DEF HostTakes, HostHears, Suspend, WakeUp, HostSetsLineEncoding, HostHalts,
         HostClearsHalt, RestStep, receiving
<1>2. CASE HostSends
  BY <1>0, <1>2 DEF HostSends, FillStep
<1>3. CASE StartOfFrame
  BY <1>0, <1>3 DEF StartOfFrame, RestStep, CallRecords
<1>4. CASE BusReset
  BY <1>0, <1>4 DEF BusReset, BanksEmptied, LossStep
<1>5. CASE HostConfigures
  BY <1>0, <1>5
     DEF HostConfigures, BanksEmptied, LossStep, RestStep, receiving
<1> QED BY <1>1, <1>2, <1>3, <1>4, <1>5 DEF Environment

\* The receiving half keeps its invariant.
LEMMA ReceiveStep ==
  ASSUME RecvInv, IInv, [Next]_vars
  PROVE  RecvInv'
<1>0. Types
  BY DEF IInv
<1>1. CASE Code
  <2>1. RestStep \/ ReadStep \/ CountStep
    BY <1>1, CodeReceives
  <2>2. OutBank' /\ Numbered' /\ promised' \in Nat
          /\ promised' =< Len(out'.bytes)
    <3>1. CASE RestStep
      BY <1>0, <3>1
         DEF RestStep, receiving, RecvInv, OutBank, Numbered, Promised
    <3> QED BY <1>0, <2>1, <3>1, ReadKeeps, CountKeeps
  <2>3. sel' = "EP0" => promised' = 0
    BY <1>1, <2>1, CodeReceives
       DEF RestStep, receiving, ReadStep, CountStep, RecvInv, Promised
  <2> QED BY <1>1, <2>2, <2>3, CodeReceives DEF RecvInv, Promised
<1>2. CASE Environment
  <2>1. RestStep \/ FillStep \/ LossStep
    BY <1>2, EnvironmentReceives
  <2>2. OutBank' /\ Numbered' /\ promised' \in Nat
          /\ promised' =< Len(out'.bytes)
    <3>1. CASE RestStep
      BY <1>0, <3>1
         DEF RestStep, receiving, RecvInv, OutBank, Numbered, Promised
    <3> QED BY <1>0, <2>1, <3>1, FillKeeps, LossKeeps
  <2>3. promised' = promised \/ promised' = 0
    BY <2>1 DEF RestStep, receiving, FillStep, HostSends, LossStep
  <2>4. /\ sel' = "EP0" => sel = "EP0" \/ promised' = 0
        /\ (call'.at = "release" /\ ~call'.full) =>
             (call.at = "release" /\ ~call.full)
    BY <1>2, EnvironmentReceives
  <2> QED BY <2>2, <2>3, <2>4 DEF RecvInv, Promised
<1>3. CASE Application
  <2>1. \E op, from, len, left : call' = Call(op, "select", from, len, left)
    BY <1>3, Zenon
       DEF Application, CDC_Device_SendData, CDC_Device_SendByte,
           CDC_Device_Flush, CDC_Device_SendControlLineStateChange,
           Endpoint_Write_Stream, Receive, ReadStream, Begin
  <2>2. call'.at # "release"
    BY <2>1 DEF Call
  <2>3. UNCHANGED <<receiving, sel>>
    BY <1>3, Zenon
       DEF Application, CDC_Device_SendData, CDC_Device_SendByte,
           CDC_Device_Flush, CDC_Device_SendControlLineStateChange,
           Endpoint_Write_Stream, Receive, ReadStream, Begin
  <2> QED BY <2>2, <2>3
          DEF receiving, RecvInv, OutBank, Numbered, Promised
<1>4. CASE UNCHANGED vars
  BY <1>4 DEF vars, receiving, RecvInv, OutBank, Numbered, Promised
<1> QED BY <1>1, <1>2, <1>3, <1>4 DEF Next

\* The receiving half of the driver keeps its invariant in every behaviour.
THEOREM ReceivingInvariant == Spec => []RecvInv
<1>1. Init => RecvInv
  <2> SUFFICES ASSUME Init PROVE RecvInv
    OBVIOUS
  <2>1. out = [bytes |-> <<>>, full |-> FALSE] /\ call = NoCall
    BY DEF Init
  <2>2. /\ out \in [bytes : Seq(Nat), full : BOOLEAN] /\ out.bytes = <<>>
        /\ Len(out.bytes) = 0
    BY <2>1
  <2>3. fed = 0 /\ ate = 0 /\ promised = 0 /\ dropped = FALSE
    BY DEF Init
  <2>4. Len(out.bytes) = 0 /\ 1 .. Len(out.bytes) = {}
    BY <2>2
  <2>5. OutBank
    <3>1. /\ Len(out.bytes) =< BankSize
          /\ \A i \in 1 .. Len(out.bytes) : out.bytes[i] =< fed
      BY <2>4, SizesAssumption
    <3>2. fed \in Nat /\ ate \in Nat /\ ate =< fed /\ fed =< HostBytes
      BY <2>3, SizesAssumption
    <3>3. dropped \in BOOLEAN
      BY <2>3
    <3>4. out.bytes # <<>> => out.full
      BY <2>2
    <3> QED BY <2>2, <3>1, <3>2, <3>3, <3>4, Zenon DEF OutBank
  <2>6. Promised
    <3>1. call.at # "release"
      BY <2>1 DEF NoCall, Call
    <3> QED BY <2>3, <2>4, <3>1 DEF Promised
  <2>7. Numbered
    BY <2>3, <2>4 DEF Numbered
  <2> QED BY <2>5, <2>6, <2>7 DEF RecvInv
<1>2. RecvInv /\ IInv /\ [Next]_vars => RecvInv'
  BY ReceiveStep
<1> QED BY <1>1, <1>2, InductiveInvariant, PTL DEF Spec

\* Whatever calls fail, time out or are reset: no byte from the host is given to
\* the program twice or out of turn, and none is lost unless a reset or SET
\* CONFIGURATION emptied a bank it was in (CDCClassDevice.c:219-262).
THEOREM AlwaysReceivedInOrder == Spec => []ReceivedInOrder
<1>1. RecvInv => ReceivedInOrder
  <2> SUFFICES ASSUME RecvInv PROVE ReceivedInOrder
    OBVIOUS
  <2>1. DOMAIN out.bytes = 1 .. Len(out.bytes)
    BY DEF RecvInv, OutBank
  <2> QED BY <2>1 DEF RecvInv, Numbered, ReceivedInOrder
<1> QED BY <1>1, ReceivingInvariant, PTL

\* A receiving function comes back without a byte only when BytesReceived has
\* promised none, whatever the bus did in between.
THEOREM PromisesAreKept == Spec => PromiseKept
<1> DEFINE EmptyHanded ==
             /\ call.at \in {"received", "release"}
             /\ call'.at \in {"idle", "blocked"} /\ ~call.full
<1>1. RecvInv /\ IInv /\ [Next]_vars => [EmptyHanded => promised = 0]_vars
  <2> SUFFICES ASSUME RecvInv, IInv, Next, EmptyHanded PROVE promised = 0
    OBVIOUS
  <2>0. call \in CallRecords /\ promised \in Nat
    BY DEF IInv, Types, RecvInv, Promised
  <2>1. CASE call.at = "release"
    BY <2>1 DEF RecvInv, Promised
  <2>2. CASE call.at = "received"
    <3>1. sel = "OUT" \/ (sel = "EP0" /\ promised = 0)
      BY <2>0, <2>2
         DEF IInv, CallShape, Places, Selected, EndpointOf, CallRecords, Ops, Data,
             Streams, Flushing, Receiving,
             Reading, RecvInv, Promised
    <3>2. Received
      <4>1. call' # call
        BY <2>2
      <4>2. ~Application
        BY <2>2, Zenon
           DEF Application, CDC_Device_SendData, CDC_Device_SendByte,
               CDC_Device_Flush, CDC_Device_SendControlLineStateChange,
               Endpoint_Write_Stream, Receive, ReadStream, Begin
      <4>3. ~Environment
        BY <2>2, <4>1
           DEF Environment, HostTakes, HostHears, HostSends, StartOfFrame,
               BusReset, Suspend, WakeUp, HostConfigures,
               HostSetsLineEncoding, HostHalts, HostClearsHalt
      <4>4. Code
        BY <4>2, <4>3 DEF Next
      <4> QED BY <2>2, <4>4
              DEF Code, Endpoint_SelectEndpoint, WaitPoll, WaitCheck,
                  WriteStreamTurn, NullStreamTurn, ReadStreamTurn,
                  DiscardStreamTurn, StreamTurn, SendByteRoom, SendByteClear,
                  SendByteWrite, FlushBytes, FlushFull, FlushClear, FlushLast,
                  NotificationClear, BytesReceivedCount, ReceiveByteRead,
                  ReceiveByteRelease, getchar_Blocked, CDC_Device_USBTask,
                  getchar_Again
    <3>3. sel = "OUT" => ~out.full
      BY <2>0, <2>2, <3>2
         DEF Received, EndpointReady, Goto, INs, CallRecords
    <3>4. sel = "OUT" => out.bytes = <<>>
      BY <3>3 DEF RecvInv, OutBank
    <3>5. sel = "OUT" => promised =< 0
      BY <3>4 DEF RecvInv, Promised
    <3> QED BY <2>0, <3>1, <3>5
  <2> QED BY <2>1, <2>2
<1> QED BY <1>1, InductiveInvariant, ReceivingInvariant, PTL
        DEF Spec, PromiseKept

-----------------------------------------------------------------------------
(* The control endpoint. *)

ControlInv ==
  /\ control \in {"empty", "written", "sent"}
  /\ ControlEndpointUntouched

\* Where a call writes to the selected endpoint or sends its bank.
Output == {"turn", "write", "clear", "last"}

\* The bank of the control endpoint is freed, or left alone, or it is selected
\* where a call expects its own endpoint.
ControlFreed == control' = "empty"
ControlKept == control' = control /\ (disturbed => disturbed')
ControlMistaken ==
  /\ sel = "EP0" /\ call.at \in Output
  /\ control' \in {control, "written", "sent"} /\ disturbed' = disturbed

\* The two operations that reach it.
LEMMA ControlOperations ==
  ASSUME NEW byte, ClearIN \/ Write_8(byte)
  PROVE  /\ control' \in {control, "written", "sent"}
         /\ sel # "EP0" => control' = control
BY DEF ClearIN, Write_8

\* Every step does one of the three.
LEMMA ControlStep ==
  ASSUME IInv, [Next]_vars
  PROVE  ControlFreed \/ ControlKept \/ ControlMistaken
<1>1. CASE Application
  BY <1>1, Zenon
     DEF Application, CDC_Device_SendData, CDC_Device_SendByte,
         CDC_Device_Flush, CDC_Device_SendControlLineStateChange,
         Endpoint_Write_Stream, Receive, ReadStream, Begin, ControlKept
<1>2. CASE Code
  <2>1. CASE \/ Endpoint_SelectEndpoint \/ WaitPoll \/ SendByteRoom \/ FlushBytes
             \/ FlushFull \/ Received \/ BytesReceivedCount \/ ReceiveByteRead
             \/ ReceiveByteRelease \/ getchar_Blocked \/ CDC_Device_USBTask
             \/ getchar_Again
    BY <2>1
       DEF Endpoint_SelectEndpoint, WaitPoll, SendByteRoom, FlushBytes,
           FlushFull, Received, BytesReceivedCount, ReceiveByteRead,
           ReceiveByteRelease, getchar_Blocked, CDC_Device_USBTask,
           getchar_Again, ControlKept
  <2>2. CASE WaitCheck
    BY <2>2 DEF WaitCheck, Failed, ControlKept
  <2>3. CASE WriteStreamTurn \/ NullStreamTurn \/ ReadStreamTurn \/ DiscardStreamTurn
    <3>1. call.at = "turn" /\ disturbed' = disturbed
      BY <2>3
         DEF WriteStreamTurn, NullStreamTurn, ReadStreamTurn, DiscardStreamTurn,
             StreamTurn
    <3>2. control' = control \/ ClearIN \/ Write_8(NextByte)
      BY <2>3, Zenon
         DEF WriteStreamTurn, NullStreamTurn, ReadStreamTurn, DiscardStreamTurn,
             StreamTurn
    <3> QED BY <3>1, <3>2, ControlOperations
            DEF ControlKept, ControlMistaken, Output
  <2>4. CASE SendByteClear \/ SendByteWrite \/ FlushClear \/ FlushLast
             \/ NotificationClear
    <3>1. call.at \in Output /\ disturbed' = disturbed
      BY <2>4
         DEF SendByteClear, SendByteWrite, FlushClear, FlushLast,
             NotificationClear, Output
    <3>2. ClearIN \/ Write_8(NextByte)
      BY <2>4, Zenon
         DEF SendByteClear, SendByteWrite, FlushClear, FlushLast,
             NotificationClear
    <3> QED BY <3>1, <3>2, ControlOperations DEF ControlKept, ControlMistaken
  <2> QED BY <1>2, <2>1, <2>2, <2>3, <2>4 DEF Code
<1>3. CASE Environment
  <2>1. CASE HostTakes \/ HostHears \/ HostSends \/ StartOfFrame \/ Suspend \/ WakeUp
    BY <2>1
       DEF HostTakes, HostHears, HostSends, StartOfFrame, Suspend, WakeUp,
           ControlKept
  <2>2. CASE BusReset \/ HostConfigures \/ HostSetsLineEncoding \/ HostHalts
             \/ HostClearsHalt
    BY <2>2
       DEF BusReset, HostConfigures, HostSetsLineEncoding, HostHalts,
           HostClearsHalt, ControlFreed
  <2> QED BY <1>3, <2>1, <2>2 DEF Environment
<1>4. CASE UNCHANGED vars
  BY <1>4 DEF vars, ControlKept
<1> QED BY <1>1, <1>2, <1>3, <1>4 DEF Next

\* A call finds the control endpoint selected only after a bus reset has cut it.
LEMMA ControlInvariant == Spec => []ControlInv
<1>1. Init => ControlInv
  BY DEF Init, ControlInv, ControlEndpointUntouched
<1>2. IInv /\ ControlInv /\ [Next]_vars => ControlInv'
  <2> SUFFICES ASSUME IInv, ControlInv, [Next]_vars PROVE ControlInv'
    OBVIOUS
  <2>1. CASE ControlFreed
    BY <2>1 DEF ControlFreed, ControlInv, ControlEndpointUntouched
  <2>2. CASE ControlKept
    BY <2>2 DEF ControlKept, ControlInv, ControlEndpointUntouched
  <2>3. CASE ControlMistaken
    <3>1. disturbed
      BY <2>3
         DEF ControlMistaken, IInv, Selected, Output, EndpointOf
    <3> QED BY <2>3, <3>1 DEF ControlMistaken, ControlInv, ControlEndpointUntouched
  <2> QED BY <2>1, <2>2, <2>3, ControlStep
<1> QED BY <1>1, <1>2, InductiveInvariant, PTL DEF Spec

\* No call writes to, or sends, the bank of the control endpoint unless a bus
\* reset came in the middle of it, whatever interrupts select in between
\* (USBInterrupt.c:143, CDCClassDevice.c:136-265).
THEOREM AlwaysControlEndpointUntouched == Spec => []ControlEndpointUntouched
<1>1. ControlInv => ControlEndpointUntouched
  BY DEF ControlInv
<1> QED BY <1>1, ControlInvariant, PTL

-----------------------------------------------------------------------------
(* Every variable stays in its range. *)

\* The data the program works on, and the data of the call under way, end
\* within what the program sends; a wait counts down from the timeout.
Budget ==
  /\ msg.base =< MaxBytes /\ msg.len =< MaxBytes
  /\ msg.processed > 0 => msg.base + msg.len =< MaxBytes
  /\ call.op \in Data \cup {"SendByte"} => msg.base + call.len =< MaxBytes
  /\ call.rem =< USB_STREAM_TIMEOUT_MS

Ranges ==
  /\ USB_DeviceState \in {"Unattached", "Default", "Configured"}
  /\ USB_Device_ConfigurationNumber \in {0, 1}
  /\ line \in BOOLEAN /\ hostLine \in BOOLEAN /\ stall \in BOOLEAN
  /\ short \in BOOLEAN
  /\ Len(bank["NOTIF"].bytes) =< NotificationBank

\* A call goes on with the data it was made for, or ends; what waits, waits
\* anew or goes on counting.
SameCall ==
  /\ call'.op = call.op /\ call'.len = call.len
  /\ call'.rem \in {call.rem, USB_STREAM_TIMEOUT_MS}
OtherCall ==
  /\ call'.op \notin Data \cup {"SendByte"}
  /\ call'.rem \in {call.rem, 0, USB_STREAM_TIMEOUT_MS}

\* The calls a statement goes on with outside the stream functions.
LEMMA OtherCalls ==
  \/ call' = NoCall \/ call' = GetcharAgain \/ call' = SendState
  \/ call' = Call("getchar_Flush", "select", 0, 0, 0)
  => OtherCall
BY DEF NoCall, GetcharAgain, SendState, Waiting, Call, OtherCall, Data, Resumable

\* No statement spends more of the budget than there is.
LEMMA CodeBudget ==
  ASSUME IInv, Progress, Budget, Code
  PROVE  Budget'
<1>0. /\ call \in CallRecords /\ call.left =< call.len
      /\ msg \in [base : Nat, len : Nat, processed : Nat]
      /\ USB_STREAM_TIMEOUT_MS \in Nat /\ MaxBytes \in Nat
      /\ msg.processed =< msg.len
  BY SizesAssumption DEF IInv, Types, Progress
<1>a. UNCHANGED msg /\ (SameCall \/ OtherCall) => Budget'
  BY <1>0 DEF SameCall, OtherCall, Budget, CallRecords
<1>b. ASSUME NEW c, NEW then, c.op = call.op, c.len = call.len, call' = Waiting(c, then)
      PROVE  SameCall
  BY <1>b DEF Waiting, SameCall
<1>1. CASE Endpoint_SelectEndpoint
  BY <1>0, <1>1, <1>a DEF Endpoint_SelectEndpoint, sending, Waiting, SameCall, CallRecords
<1>2. CASE WaitPoll
  BY <1>0, <1>2, <1>a DEF WaitPoll, sending, Goto, SameCall, CallRecords
<1>3. CASE SendByteRoom \/ FlushBytes \/ FlushFull
  BY <1>0, <1>3, <1>a, OtherCalls
     DEF SendByteRoom, FlushBytes, FlushFull, FlushReturns, sending, Goto, SameCall,
         CallRecords
<1>4. CASE SendByteClear \/ FlushClear \/ FlushLast \/ NotificationClear
  BY <1>0, <1>4, <1>a, OtherCalls
     DEF SendByteClear, FlushClear, FlushLast, NotificationClear, FlushReturns, Return,
         Waiting, SameCall, CallRecords
<1>5. CASE Received \/ BytesReceivedCount \/ ReceiveByteRead \/ ReceiveByteRelease
  BY <1>0, <1>5, <1>a, OtherCalls
     DEF Received, BytesReceivedCount, ReceiveByteRead, ReceiveByteRelease, NoByte,
         sending, Goto, Return, SameCall, CallRecords
<1>6. CASE getchar_Blocked \/ CDC_Device_USBTask \/ getchar_Again
  BY <1>0, <1>6, <1>a, OtherCalls
     DEF getchar_Blocked, CDC_Device_USBTask, getchar_Again, sending, Goto, Return,
         SameCall, CallRecords
<1>7. CASE SendByteWrite
  <2>1. /\ msg' = [msg EXCEPT !.base = @ + 1] /\ call' = NoCall
        /\ call.op = "SendByte"
    BY <1>0, <1>7
       DEF SendByteWrite, Return, IInv, CallShape, Places, CallRecords, Ops, Streams,
           Data, Resumable, Reading, Flushing, Receiving
  <2>2. call.len = 1 /\ msg.processed = 0
    BY <2>1 DEF IInv, CallShape
  <2>3. OtherCall
    BY <2>1, OtherCalls
  <2>4. msg'.base = msg.base + 1 /\ msg'.len = msg.len /\ msg'.processed = 0
    BY <1>0, <2>1, <2>2
  <2> QED BY <1>0, <2>1, <2>2, <2>3, <2>4 DEF Budget, OtherCall, CallRecords
<1>8. CASE WaitCheck
  <2>1. CASE Failed
    <3>1. OtherCall \/ SameCall
      BY <1>0, <2>1, OtherCalls DEF Failed, CallRecords, SameCall
    <3>2. CASE call.op = "SendData"
      <4>1. msg' = [msg EXCEPT !.base = @ + call.len] /\ call' = NoCall
        BY <2>1, <3>2 DEF Failed
      <4>2. msg.processed = 0
        BY <3>2 DEF IInv, CallShape
      <4>3. OtherCall
        BY <4>1, OtherCalls
      <4>4. /\ msg'.base = msg.base + call.len /\ msg'.len = msg.len
            /\ msg'.processed = 0
        BY <1>0, <4>1, <4>2
      <4> QED BY <1>0, <3>2, <4>3, <4>4 DEF Budget, OtherCall, CallRecords, Data
    <3>3. CASE call.op # "SendData"
      BY <1>a, <2>1, <3>1, <3>3 DEF Failed
    <3> QED BY <3>2, <3>3
  <2>2. CASE ~Failed
    <3> DEFINE rem == IF call.moved THEN call.rem - 1 ELSE call.rem
    <3>1. /\ call' = [call EXCEPT !.at = "poll", !.moved = FALSE, !.rem = rem]
          /\ msg' = msg
      BY <1>8, <2>2 DEF WaitCheck
    <3>2. rem =< USB_STREAM_TIMEOUT_MS
      BY <1>0 DEF Budget, CallRecords
    <3> HIDE DEF rem
    <3>3. call'.op = call.op /\ call'.len = call.len /\ call'.rem = rem
      BY <1>0, <3>1 DEF CallRecords
    <3> QED BY <3>1, <3>2, <3>3 DEF Budget
  <2> QED BY <2>1, <2>2
<1>9. CASE WriteStreamTurn \/ NullStreamTurn \/ ReadStreamTurn
             \/ DiscardStreamTurn
  <2>1. \/ StreamDone
        \/ /\ msg' = msg
           /\ call' = [call EXCEPT !.left = @ - 1] \/ call' = Waiting(call, "turn")
        \/ StreamIncomplete /\ call.op \in Resumable
    BY <1>9, Zenon
       DEF WriteStreamTurn, NullStreamTurn, ReadStreamTurn,
           DiscardStreamTurn, StreamTurn
  <2>2. CASE StreamDone
    <3>1. OtherCall \/ SameCall
      BY <1>0, <2>2, OtherCalls DEF StreamDone, CallRecords, SameCall
    <3>2. CASE call.op \in Data
      <4>1. /\ msg' = [base |-> msg.base + call.len, len |-> 0, processed |-> 0]
            /\ call' = NoCall
        BY <2>2, <3>2 DEF StreamDone, Data, Resumable
      <4>2. OtherCall
        BY <4>1, OtherCalls
      <4>3. /\ msg'.base = msg.base + call.len /\ msg'.len = 0
            /\ msg'.processed = 0
        BY <4>1
      <4>4. msg.base + call.len =< MaxBytes
        BY <3>2 DEF Budget
      <4> QED BY <1>0, <4>2, <4>3, <4>4 DEF Budget, OtherCall, CallRecords
    <3>3. CASE call.op \notin Data
      BY <1>a, <2>2, <3>1, <3>3 DEF StreamDone, Data, Resumable
    <3> QED BY <3>2, <3>3
  <2>3. CASE /\ msg' = msg
             /\ call' = [call EXCEPT !.left = @ - 1] \/ call' = Waiting(call, "turn")
    <3>1. SameCall
      BY <1>0, <2>3 DEF SameCall, Waiting, CallRecords
    <3> QED BY <1>a, <2>3, <3>1
  <2>4. CASE StreamIncomplete /\ call.op \in Resumable
    <3> DEFINE p == msg.processed + (call.len - msg.processed - call.left)
    <3>1. msg' = [msg EXCEPT !.processed = p] /\ call' = NoCall
      BY <2>4 DEF StreamIncomplete, Return
    <3>2. msg.base + msg.len =< MaxBytes
      BY <2>4 DEF IInv, CallShape, Budget, Data, Resumable
    <3> HIDE DEF p
    <3>3. msg'.base = msg.base /\ msg'.len = msg.len
      BY <1>0, <3>1
    <3>4. OtherCall
      BY <3>1, OtherCalls
    <3> QED BY <1>0, <3>2, <3>3, <3>4 DEF Budget, OtherCall, CallRecords
  <2> QED BY <2>1, <2>2, <2>3, <2>4
<1> QED BY <1>1, <1>2, <1>3, <1>4, <1>5, <1>6, <1>7, <1>8, <1>9 DEF Code


\* The program starts a call only for data that ends within MaxBytes.
LEMMA ApplicationBudget ==
  ASSUME IInv, Budget, Application
  PROVE  Budget'
<1>0. /\ msg \in [base : Nat, len : Nat, processed : Nat]
      /\ USB_STREAM_TIMEOUT_MS \in Nat /\ MaxBytes \in Nat
      /\ Lengths \subseteq Nat
  BY SizesAssumption DEF IInv, Types
<1>1. ASSUME NEW op, NEW from, NEW len, NEW left, UNCHANGED msg,
             op = "SendData" => msg.base + len =< MaxBytes,
             op = "SendByte" => msg.base + len =< MaxBytes,
             op \notin Resumable,
             Begin(op, from, len, left)
      PROVE  Budget'
  <2>1. call'.op = op /\ call'.len = len /\ call'.rem = 0
    BY <1>1 DEF Begin, Call
  <2> QED BY <1>0, <1>1, <2>1 DEF Budget, Data, Resumable
<1>2. CASE CDC_Device_SendData
  <2>1. PICK n \in Lengths :
          /\ msg.base + n =< MaxBytes
          /\ Begin("SendData", msg.base, n, n) /\ UNCHANGED msg
    BY <1>2 DEF CDC_Device_SendData
  <2> QED BY <1>1, <2>1 DEF Resumable
<1>3. CASE CDC_Device_SendByte
  <2>1. /\ msg.base + 1 =< MaxBytes
        /\ Begin("SendByte", msg.base, 1, 1) /\ UNCHANGED msg
    BY <1>0, <1>3 DEF CDC_Device_SendByte
  <2> QED BY <1>1, <2>1 DEF Resumable
<1>4. CASE CDC_Device_Flush
  BY <1>1, <1>4 DEF CDC_Device_Flush, Resumable
<1>5. CASE CDC_Device_SendControlLineStateChange
  BY <1>1, <1>5 DEF CDC_Device_SendControlLineStateChange, Resumable
<1>6. CASE \E op \in Receiving : Receive(op)
  BY <1>1, <1>6 DEF Receive, Receiving, Resumable
<1>7. CASE \E op \in Reading : ReadStream(op)
  BY <1>1, <1>7 DEF ReadStream, Reading, Resumable
<1>8. CASE \E op \in Resumable : Endpoint_Write_Stream(op)
  <2>1. PICK op \in Resumable, n \in Lengths :
          /\ msg.processed > 0 => n = msg.len
          /\ msg.base + n =< MaxBytes
          /\ Begin(op, msg.base, n, n - msg.processed)
          /\ msg' = [msg EXCEPT !.len = n]
    BY <1>8 DEF Endpoint_Write_Stream
  <2>2. call'.op = op /\ call'.len = n /\ call'.rem = 0
    BY <2>1 DEF Begin, Call
  <2>3. /\ msg'.base = msg.base /\ msg'.len = n
        /\ msg'.processed = msg.processed
    BY <1>0, <2>1
  <2> QED BY <1>0, <2>1, <2>2, <2>3 DEF Budget
<1> QED BY <1>2, <1>3, <1>4, <1>5, <1>6, <1>7, <1>8 DEF Application

\* The notification's bank is filled by bytes written into it, and only there.
LEMMA RangesStep ==
  ASSUME IInv, Ranges, [Next]_vars
  PROVE  Ranges'
<1>0. /\ bank \in [INs -> [bytes : Seq(Nat), busy : BOOLEAN]]
      /\ "NOTIF" \in INs /\ Len(bank["NOTIF"].bytes) \in Nat
      /\ NotificationBank \in Nat
  BY SizesAssumption DEF IInv, Types, INs
<1> DEFINE note == bank["NOTIF"].bytes
<1>a. (note' = note /\ UNCHANGED <<device, stall, short>>) => Ranges'
  BY DEF Ranges, device
<1>b. ClearIN => note' = note
  BY <1>0 DEF ClearIN
<1>c. ASSUME NEW byte, Write_8(byte)
      PROVE  Len(note') =< NotificationBank
  <2>1. CASE sel = "NOTIF" /\ Len(note) < NotificationBank
    <3>1. note' = note \/ note' = Append(note, byte)
      BY <1>0, <1>c, <2>1 DEF Write_8
    <3> HIDE DEF note
    <3>2. Len(Append(note, byte)) = Len(note) + 1
      BY <1>0
    <3> QED BY <1>0, <2>1, <3>1, <3>2
  <2>2. CASE ~(sel = "NOTIF" /\ Len(note) < NotificationBank)
    <3>1. note' = note
      BY <1>0, <1>c, <2>2 DEF Write_8, SizeOf
    <3> QED BY <3>1 DEF Ranges
  <2> QED BY <2>1, <2>2
<1>d. (Len(note') =< NotificationBank /\ UNCHANGED <<device, stall, short>>)
        => Ranges'
  BY DEF Ranges, device
<1> HIDE DEF note
<1>1. CASE Application
  <2>1. UNCHANGED <<device, stall, bank, short>>
    BY <1>1, Zenon
       DEF Application, CDC_Device_SendData, CDC_Device_SendByte,
           CDC_Device_Flush, CDC_Device_SendControlLineStateChange,
           Endpoint_Write_Stream, Receive, ReadStream, Begin
  <2> QED BY <1>a, <2>1 DEF note
<1>2. CASE Code
  <2>1. UNCHANGED <<device, stall, short>>
    BY <1>2, Zenon
       DEF Code, Endpoint_SelectEndpoint, WaitPoll, WaitCheck,
           WriteStreamTurn, NullStreamTurn, ReadStreamTurn, DiscardStreamTurn,
           StreamTurn, SendByteRoom, SendByteClear, SendByteWrite, FlushBytes,
           FlushFull, FlushClear, FlushLast, NotificationClear, Received,
           BytesReceivedCount, ReceiveByteRead, ReceiveByteRelease,
           getchar_Blocked, CDC_Device_USBTask, getchar_Again, sending
  <2>2. bank' = bank \/ ClearIN \/ \E byte : Write_8(byte)
    BY <1>2, Zenon
       DEF Code, Endpoint_SelectEndpoint, WaitPoll, WaitCheck,
           WriteStreamTurn, NullStreamTurn, ReadStreamTurn, DiscardStreamTurn,
           StreamTurn, SendByteRoom, SendByteClear, SendByteWrite, FlushBytes,
           FlushFull, FlushClear, FlushLast, NotificationClear, Received,
           BytesReceivedCount, ReceiveByteRead, ReceiveByteRelease,
           getchar_Blocked, CDC_Device_USBTask, getchar_Again, sending
  <2>3. bank' = bank => note' = note
    BY DEF note
  <2> QED BY <1>a, <1>b, <1>c, <1>d, <2>1, <2>2, <2>3
<1>3. CASE Environment
  <2>0. Empty.bytes = <<>> /\ Len(Empty.bytes) = 0
    BY DEF Empty
  <2>1. note' = note \/ Len(note') = 0
    <3>1. CASE HostTakes \/ HostHears \/ HostClearsHalt
      BY <1>0, <2>0, <3>1
         DEF HostTakes, HostHears, HostClearsHalt, Endpoint_ResetEndpoint, note
    <3>2. CASE BanksEmptied
      <4>1. bank'["NOTIF"] = Empty
        BY <1>0, <3>2 DEF BanksEmptied
      <4> QED BY <2>0, <4>1 DEF note
    <3>3. CASE bank' = bank
      BY <3>3 DEF note
    <3> QED BY <1>3, <3>1, <3>2, <3>3
            DEF Environment, HostSends, StartOfFrame, BusReset, Suspend,
                WakeUp, HostConfigures, HostSetsLineEncoding, HostHalts,
                sending
  <2>2. Len(note') =< NotificationBank
    BY <1>0, <2>1 DEF Ranges, note
  <2>3. (Ranges /\ UNCHANGED device /\ {stall', short'} \subseteq BOOLEAN)
          => Ranges'
    BY <2>2 DEF Ranges, note, device
  <2>4. CASE HostTakes \/ HostHears \/ HostSends \/ StartOfFrame \/ HostHalts
               \/ HostClearsHalt
    <3>1. UNCHANGED device
      BY <2>4
         DEF HostTakes, HostHears, HostSends, StartOfFrame, HostHalts,
             HostClearsHalt
    <3>2. stall' = stall \/ stall' = TRUE \/ stall' = FALSE
      BY <2>4
         DEF HostTakes, HostHears, HostSends, StartOfFrame, HostHalts,
             HostClearsHalt
    <3>3. \/ short' = short
          \/ short' = (Len(bank["IN"].bytes) < BankSize)
      BY <2>4
         DEF HostTakes, HostHears, HostSends, StartOfFrame, HostHalts,
             HostClearsHalt, sending
    <3>4. stall' \in BOOLEAN /\ short' \in BOOLEAN
      <4>1. (Len(bank["IN"].bytes) < BankSize) \in BOOLEAN
        OBVIOUS
      <4>2. stall \in BOOLEAN /\ short \in BOOLEAN
        BY DEF Ranges
      <4> QED BY <3>2, <3>3, <4>1, <4>2
    <3>5. {stall', short'} \subseteq BOOLEAN
      BY <3>4
    <3> QED BY <2>3, <3>1, <3>5
  <2>5. CASE BusReset
    <3>1. /\ USB_DeviceState' = "Default"
          /\ USB_Device_ConfigurationNumber' = 0
          /\ hostLine' = FALSE /\ stall' = FALSE
          /\ line' = line /\ short' = short
      BY <2>5 DEF BusReset
    <3> QED BY <2>2, <3>1 DEF Ranges, note
  <2>6. CASE Suspend \/ WakeUp
    BY <2>2, <2>6 DEF Suspend, WakeUp, Ranges, note, sending
  <2>7. CASE HostConfigures
    <3>1. /\ USB_DeviceState' = "Configured"
          /\ USB_Device_ConfigurationNumber' = 1
          /\ hostLine' = FALSE /\ short' = short
          /\ stall' = FALSE \/ stall' = stall
          /\ line' = FALSE \/ line' = line
      BY <2>7 DEF HostConfigures
    <3>2. /\ stall' \in BOOLEAN /\ line' \in BOOLEAN
      BY <3>1 DEF Ranges
    <3> QED BY <2>2, <3>1, <3>2 DEF Ranges, note
  <2>8. CASE HostSetsLineEncoding
    <3>1. PICK rate \in BOOLEAN :
            /\ hostLine' = rate
            /\ line' = IF EventsLinked THEN rate ELSE line
      BY <2>8 DEF HostSetsLineEncoding
    <3>2. line' = rate \/ line' = line
      BY <3>1
    <3>3. line' \in BOOLEAN /\ hostLine' \in BOOLEAN
      BY <3>1, <3>2 DEF Ranges
    <3>4. /\ UNCHANGED <<USB_DeviceState, USB_Device_ConfigurationNumber>>
          /\ UNCHANGED <<stall, short>>
      BY <2>8 DEF HostSetsLineEncoding, sending
    <3> QED BY <2>2, <3>3, <3>4 DEF Ranges, note
  <2> QED BY <1>3, <2>4, <2>5, <2>6, <2>7, <2>8 DEF Environment
<1>4. CASE UNCHANGED vars
  BY <1>a, <1>4 DEF vars, sending, note
<1> QED BY <1>1, <1>2, <1>3, <1>4 DEF Next


\* No step of the bus or the host touches the budget.
LEMMA EnvironmentBudget ==
  ASSUME IInv, Budget, Environment \/ UNCHANGED vars
  PROVE  Budget'
<1>0. call \in CallRecords
  BY DEF IInv, Types
<1>1. CASE StartOfFrame
  <2>1. \E n : call' = [call EXCEPT !.moved = TRUE, !.frames = n]
    BY <1>1 DEF StartOfFrame
  <2>2. call'.op = call.op /\ call'.len = call.len /\ call'.rem = call.rem
    BY <1>0, <2>1 DEF CallRecords
  <2> QED BY <1>1, <2>2 DEF Budget, StartOfFrame, sending
<1>2. CASE call' = call /\ msg' = msg
  BY <1>2 DEF Budget
<1> QED BY <1>1, <1>2
        DEF Environment, HostTakes, HostHears, HostSends, BusReset, Suspend,
            WakeUp, HostConfigures, HostSetsLineEncoding, HostHalts,
            HostClearsHalt, vars, sending

\* The budget of the application, and the ranges of the calls' locals, hold in
\* every behaviour: the numbers of the bytes never go past it.
THEOREM RangeInvariant == Spec => [](Budget /\ Ranges)
<1>1. Init => Budget /\ Ranges
  <2> SUFFICES ASSUME Init PROVE Budget /\ Ranges
    OBVIOUS
  <2>1. call.op = "none" /\ call.rem = 0
    BY DEF Init, NoCall, Call
  <2>2. Len(bank["NOTIF"].bytes) = 0
    <3>1. bank["NOTIF"] = Empty /\ Empty.bytes = <<>>
      BY DEF Init, Empty, INs
    <3> QED BY <3>1
  <2>3. Budget
    BY <2>1, SizesAssumption DEF Init, Budget, Data, Resumable
  <2>4. Ranges
    <3>1. /\ USB_DeviceState = "Unattached"
          /\ USB_Device_ConfigurationNumber = 0
          /\ line = FALSE /\ hostLine = FALSE /\ stall = FALSE
          /\ short = TRUE
      BY DEF Init
    <3>2. 0 =< NotificationBank
      BY SizesAssumption
    <3>3. Len(bank["NOTIF"].bytes) =< NotificationBank
      BY <2>2, <3>2
    <3> QED BY <3>1, <3>3 DEF Ranges
  <2> QED BY <2>3, <2>4
<1>2. IInv /\ Progress /\ Budget /\ Ranges /\ [Next]_vars
        => (Budget /\ Ranges)'
  BY CodeBudget, ApplicationBudget, EnvironmentBudget, RangesStep DEF Next
<1> QED BY <1>1, <1>2, InductiveInvariant, PTL DEF Spec

\* Every variable stays in its range, for every size of bank and every length:
\* no bank overflows, no call outlasts its data, no wait its timeout.
THEOREM TypeCorrect == Spec => []TypeOK
<1>1. /\ IInv /\ Progress /\ Budget /\ Ranges /\ RecvInv /\ InOrder
      /\ ControlInv
      => TypeOK
  <2> SUFFICES ASSUME IInv, Progress, Budget, Ranges, RecvInv, InOrder, ControlInv
               PROVE  TypeOK
    OBVIOUS
  <2>0. /\ msg \in [base : Nat, len : Nat, processed : Nat] /\ got \in Nat
        /\ call \in CallRecords /\ call.left =< call.len
        /\ MaxBytes \in Nat /\ BankSize \in Nat
    BY SizesAssumption DEF IInv, Types
  <2>1. Written =< MaxBytes /\ Written \in Nat
    <3>1. CASE call.op \in Data
      <4>1. Written = msg.base + (call.len - call.left)
        BY <3>1 DEF Written, Data, Resumable, IInv, CallShape
      <4>2. msg.base + call.len =< MaxBytes
        BY <3>1 DEF Budget
      <4> QED BY <2>0, <4>1, <4>2 DEF CallRecords
    <3>2. CASE call.op \notin Data
      <4>1. Written = msg.base + msg.processed
        BY <3>2 DEF Written, Data, Resumable
      <4> QED BY <2>0, <4>1 DEF Budget, Progress
    <3> QED BY <3>1, <3>2
  <2>2. got =< MaxBytes
    <3>1. got =< Written
      BY DEF InOrder, Channel!Ordered
    <3> QED BY <2>0, <2>1, <3>1
  <2>3. {msg.base, msg.len, msg.processed, got} \subseteq 0 .. MaxBytes
    BY <2>0, <2>2 DEF Budget, Progress
  <2>4. /\ {fed, ate} \subseteq 0 .. HostBytes /\ promised \in 0 .. BankSize
        /\ Len(out.bytes) \in 0 .. BankSize /\ out.full \in BOOLEAN
        /\ dropped \in BOOLEAN
    <3>1. out \in [bytes : Seq(Nat), full : BOOLEAN]
      BY DEF RecvInv, OutBank
    <3>2. Len(out.bytes) \in Nat /\ out.full \in BOOLEAN
      BY <3>1
    <3> QED BY <2>0, <3>2, SizesAssumption DEF RecvInv, OutBank, Promised
  <2>5. \A e \in INs : /\ Len(bank[e].bytes) \in 0 .. SizeOf(e)
                        /\ bank[e].busy \in BOOLEAN
    <3>1. \A e \in INs : /\ bank[e].bytes \in Seq(Nat)
                          /\ bank[e].busy \in BOOLEAN
      BY DEF IInv, Types
    <3>2. \A e \in INs : Len(bank[e].bytes) \in Nat
      BY <3>1
    <3>3. /\ Len(bank["IN"].bytes) =< SizeOf("IN")
          /\ Len(bank["NOTIF"].bytes) =< SizeOf("NOTIF")
          /\ SizeOf("IN") \in Nat /\ SizeOf("NOTIF") \in Nat
      BY SizesAssumption DEF IInv, Types, Ranges, SizeOf
    <3> QED BY <3>1, <3>2, <3>3 DEF INs
  <2>6. call.left \in 0 .. call.len /\ call.rem \in 0 .. USB_STREAM_TIMEOUT_MS
    BY <2>0, SizesAssumption DEF Budget, CallRecords
  <2> QED BY <2>0, <2>3, <2>4, <2>5, <2>6
          DEF TypeOK, Ranges, IInv, Types, Progress, ControlInv
<1> QED BY <1>1, InductiveInvariant, RangeInvariant, ReceivingInvariant,
           ControlInvariant, AlwaysInOrder, PTL

-----------------------------------------------------------------------------
(* Flush ends the transfer. *)

\* A stream under way has something left to send, and one left incomplete more
\* than nothing.
Sized ==
  /\ msg.processed > 0 => msg.processed < msg.len
  /\ call.op \in Data => call.len > 0
  /\ (call.op \in Data /\ call.at \in {"select"} \cup Waits) => call.left > 0

\* The last packet the host was, or will be, given is a full one, and no byte
\* behind it is in the bank: for the host the transfer goes on.
HostExpectsMore ==
  IF bank["IN"].busy THEN Len(Pipe) = BankSize ELSE Pipe = <<>> /\ ~short

\* Then so does the program: with the rest of a stream, or the byte or the
\* zero-length packet it waits to send.
ProgramGoesOn ==
  \/ msg.len > 0
  \/ call.op = "SendData" /\ call.at \in Waits \cup {"turn"} /\ call.left > 0
  \/ call.op = "SendByte" /\ call.at \in Waits \cup {"write"}
  \/ call.op \in Flushing /\ call.at \in Waits \cup {"last"}

\* What each place of Flush knows of the bank, and a stream that has just
\* written its last byte.
BankKnown ==
  /\ (call.op \in Flushing /\ call.at = "clear" /\ ~call.full)
       => ~bank["IN"].busy /\ Len(Pipe) < BankSize
  /\ (call.op \in Flushing /\ call.at \in Waits)
       => bank["IN"].busy \/ Pipe = <<>>
  /\ (call.op \in Flushing /\ call.at = "last")
       => ~bank["IN"].busy /\ Pipe = <<>>
  /\ (call.op \in Data /\ call.at = "turn" /\ call.left = 0)
       => ~bank["IN"].busy /\ Pipe # <<>>

FlushInv ==
  ~disturbed => BankKnown /\ (HostExpectsMore => ProgramGoesOn)

\* The data IN bank is as it was.
SameBank == bank'["IN"] = bank["IN"] /\ short' = short

\* The calls that can be where none of this is asked of them.
LEMMA QuietCall ==
  ASSUME FlushInv, SameBank, disturbed' = disturbed, msg' = msg,
         ProgramGoesOn => ProgramGoesOn',
         ~disturbed => BankKnown'
  PROVE  FlushInv'
BY DEF FlushInv, HostExpectsMore, SameBank, Pipe

\* Selecting an endpoint.
LEMMA SelectFlush ==
  IInv /\ Sized /\ FlushInv /\ Endpoint_SelectEndpoint => Sized' /\ FlushInv'
<1> SUFFICES ASSUME IInv, Sized, FlushInv, Endpoint_SelectEndpoint
             PROVE  Sized' /\ FlushInv'
  OBVIOUS
<1>1. /\ call.at = "select" /\ call \in CallRecords
      /\ UNCHANGED <<bank, short, msg, disturbed>>
  BY DEF Endpoint_SelectEndpoint, sending, IInv, Types
<1>2. /\ call'.op = call.op /\ call'.len = call.len /\ call'.left = call.left
      /\ call'.at = IF call.op \in Streams THEN "poll"
                    ELSE IF call.op \in Receiving THEN "received"
                    ELSE IF call.op = "SendByte" THEN "room" ELSE "bytes"
  BY <1>1 DEF Endpoint_SelectEndpoint, Waiting, CallRecords
<1>3. Sized'
  BY <1>1, <1>2 DEF Sized, Data, Streams, Resumable, Waits
<1>4. BankKnown' /\ (ProgramGoesOn => ProgramGoesOn')
  BY <1>1, <1>2
     DEF BankKnown, ProgramGoesOn, Waits, Flushing, Streams, Data, Receiving, Reading,
         Resumable
<1> QED BY <1>1, <1>3, <1>4, QuietCall DEF SameBank

\* Testing whether the endpoint is ready: a flush that goes on to send its
\* zero-length packet finds the bank empty.
LEMMA WaitPollFlush ==
  IInv /\ Sized /\ FlushInv /\ WaitPoll => Sized' /\ FlushInv'
<1> SUFFICES ASSUME IInv, Sized, FlushInv, WaitPoll
             PROVE  Sized' /\ FlushInv'
  OBVIOUS
<1>1. /\ call.at = "poll" /\ call \in CallRecords
      /\ UNCHANGED <<bank, short, msg, disturbed>>
  BY DEF WaitPoll, sending, IInv, Types
<1>2. PICK b \in BOOLEAN :
        /\ EndpointReady(b)
        /\ call' = [call EXCEPT !.at = IF b THEN call.then ELSE "check"]
  BY DEF WaitPoll, Goto
<1>3. call.then = After(call.op)
  BY <1>1 DEF IInv, CallShape, Waits
<1>4. /\ call'.op = call.op /\ call'.len = call.len /\ call'.left = call.left
      /\ call'.full = call.full
      /\ call'.at = IF b THEN After(call.op) ELSE "check"
  BY <1>1, <1>2, <1>3 DEF CallRecords
<1>5. Sized'
  BY <1>1, <1>4 DEF Sized, Data, Waits, After, Streams, Resumable
<1>6. (call.op \in Flushing /\ b /\ ~disturbed) => ~bank["IN"].busy
  BY <1>1, <1>2
     DEF IInv, Selected, EndpointOf, EndpointReady, Flushing, Reading,
         Receiving, INs
<1>7. ~disturbed => BankKnown'
  BY <1>1, <1>4, <1>6
     DEF FlushInv, BankKnown, Sized, Pipe, Waits, After, Flushing, Streams, Data,
         Resumable
<1>8. ProgramGoesOn => ProgramGoesOn'
  BY <1>1, <1>4
     DEF ProgramGoesOn, Sized, Waits, After, Flushing, Streams, Data, Resumable
<1> QED BY <1>1, <1>5, <1>7, <1>8, QuietCall DEF SameBank

\* A wait that goes on, or gives up: only a stream that is resumed, and one that
\* reads, give up without disturbing.
LEMMA WaitCheckFlush ==
  IInv /\ Sized /\ FlushInv /\ WaitCheck => Sized' /\ FlushInv'
<1> SUFFICES ASSUME IInv, Sized, FlushInv, WaitCheck
             PROVE  Sized' /\ FlushInv'
  OBVIOUS
<1>1. /\ call.at = "check" /\ call \in CallRecords
      /\ UNCHANGED <<bank, short>>
      /\ msg \in [base : Nat, len : Nat, processed : Nat]
  BY DEF WaitCheck, sending, IInv, Types
<1>2. CASE Failed
  <2>1. \/ call' = NoCall \/ call' = GetcharAgain \/ call' = SendState
        \/ call.op = "State" /\ call' = [call EXCEPT !.at = "clear"]
    BY <1>2 DEF Failed
  <2>2. call'.op \notin Data \cup Flushing \cup {"SendByte"}
    BY <1>1, <2>1
       DEF NoCall, GetcharAgain, SendState, Waiting, Call, CallRecords, Data,
           Resumable, Flushing
  <2>3. Sized'
    <3>1. msg' = msg \/ msg'.processed = 0
      <4>1. CASE call.op = "SendData"
        <5>1. msg.processed = 0
          BY <4>1 DEF IInv, CallShape
        <5>2. msg' = [msg EXCEPT !.base = msg.base + call.len]
          BY <1>2, <4>1 DEF Failed
        <5> QED BY <1>1, <5>1, <5>2
      <4>2. CASE call.op # "SendData"
        BY <1>2, <4>2 DEF Failed
      <4> QED BY <4>1, <4>2
    <3> QED BY <2>2, <3>1 DEF Sized
  <2>4. CASE disturbed'
    BY <2>3, <2>4 DEF FlushInv
  <2>5. CASE ~disturbed'
    <3>1. call.op \in Resumable \cup Reading /\ ~disturbed /\ msg' = msg
      BY <1>2, <2>5 DEF Failed, Resumable, Reading
    <3>2. BankKnown'
      BY <2>2 DEF BankKnown
    <3>3. HostExpectsMore => msg.len > 0
      <4>1. CASE call.op \in Resumable
        BY <1>1, <4>1
           DEF IInv, Types, CallShape, CallRecords, Sized, Data, Resumable
      <4>2. CASE call.op \in Reading
        BY <3>1, <4>2
           DEF FlushInv, ProgramGoesOn, Reading, Flushing
      <4> QED BY <3>1, <4>1, <4>2
    <3> QED BY <1>1, <2>3, <3>1, <3>2, <3>3
            DEF FlushInv, HostExpectsMore, ProgramGoesOn, Pipe
  <2> QED BY <2>4, <2>5
<1>3. CASE ~Failed
  <2>1. /\ \E r : call' = [call EXCEPT !.at = "poll", !.moved = FALSE,
                                       !.rem = r]
        /\ msg' = msg /\ disturbed' = disturbed
    BY <1>3 DEF WaitCheck
  <2>2. /\ call'.op = call.op /\ call'.len = call.len
        /\ call'.left = call.left /\ call'.full = call.full
        /\ call'.at = "poll"
    BY <1>1, <2>1 DEF CallRecords
  <2>3. Sized'
    BY <1>1, <2>1, <2>2 DEF Sized, Waits
  <2>4. (~disturbed => BankKnown') /\ (ProgramGoesOn => ProgramGoesOn')
    BY <1>1, <2>1, <2>2
       DEF FlushInv, BankKnown, ProgramGoesOn, Pipe, Waits, Data, Resumable,
           Flushing
  <2> QED BY <1>1, <2>1, <2>3, <2>4, QuietCall DEF SameBank
<1> QED BY <1>2, <1>3

\* SendByte looks for room, hands a full bank over and waits, and then writes.
LEMMA SendByteFlush ==
  IInv /\ Sized /\ FlushInv /\ (SendByteRoom \/ SendByteClear \/ SendByteWrite)
    => Sized' /\ FlushInv'
<1> SUFFICES ASSUME IInv, Sized, FlushInv,
                    SendByteRoom \/ SendByteClear \/ SendByteWrite
             PROVE  Sized' /\ FlushInv'
  OBVIOUS
<1>0. /\ call \in CallRecords /\ Types
      /\ msg \in [base : Nat, len : Nat, processed : Nat]
  BY DEF IInv, Types
<1>1. CASE SendByteRoom
  <2>1. /\ UNCHANGED <<bank, short, msg, disturbed>> /\ call.at = "room"
        /\ call' = [call EXCEPT !.at = "write"] \/ call' = [call EXCEPT !.at = "clear"]
    BY <1>1 DEF SendByteRoom, Goto, sending
  <2>2. call.op = "SendByte"
    BY <1>0, <2>1
       DEF IInv, CallShape, Places, CallRecords, Ops, Streams, Data, Resumable,
           Reading, Flushing, Receiving
  <2>3. call'.op = "SendByte" /\ call'.at \in {"write", "clear"}
    BY <1>0, <2>1, <2>2 DEF CallRecords
  <2>4. Sized'
    BY <2>1, <2>3 DEF Sized, Data, Resumable
  <2>5. BankKnown' /\ (ProgramGoesOn => ProgramGoesOn')
    BY <2>1, <2>2, <2>3 DEF BankKnown, ProgramGoesOn, Data, Resumable, Flushing, Waits
  <2> QED BY <2>1, <2>4, <2>5, QuietCall DEF SameBank
<1>2. CASE SendByteClear
  <2>1. UNCHANGED <<msg, disturbed>> /\ call.op = "SendByte"
        /\ call' = Waiting(call, "write")
    BY <1>2 DEF SendByteClear
  <2>2. call'.op = "SendByte" /\ call'.at = "poll"
    BY <2>1 DEF Waiting
  <2>3. Sized'
    BY <2>1, <2>2 DEF Sized, Data, Resumable
  <2>4. BankKnown' /\ ProgramGoesOn'
    BY <2>2 DEF BankKnown, ProgramGoesOn, Data, Resumable, Flushing, Waits
  <2> QED BY <2>3, <2>4 DEF FlushInv
<1>3. CASE SendByteWrite
  <2>1. /\ call.at = "write" /\ Write_8(NextByte) /\ call' = NoCall
        /\ msg' = [msg EXCEPT !.base = @ + 1]
        /\ UNCHANGED <<short, disturbed>>
    BY <1>3 DEF SendByteWrite, Return
  <2>2. call.op = "SendByte"
    BY <1>0, <2>1
       DEF IInv, CallShape, Places, CallRecords, Ops, Streams, Data, Resumable,
           Reading, Flushing, Receiving
  <2>3. call'.op = "none" /\ msg'.len = msg.len
          /\ msg'.processed = msg.processed
    BY <1>0, <2>1 DEF NoCall, Call
  <2>4. Sized' /\ BankKnown'
    BY <2>3 DEF Sized, BankKnown, Data, Resumable, Flushing
  <2>5. ~disturbed => ~HostExpectsMore'
    <3> SUFFICES ASSUME ~disturbed PROVE ~HostExpectsMore'
      OBVIOUS
    <3>1. sel = "IN" /\ ~bank["IN"].busy /\ Len(Pipe) < BankSize
      BY <2>1, <2>2
         DEF IInv, Selected, Room, EndpointOf, Reading, Receiving, Pipe
    <3>2. NextByte \in Nat
      BY <1>0, <2>2 DEF NextByte, IInv, CallShape, CallRecords, Types
    <3>3. Pipe' = Append(Pipe, NextByte) /\ Len(Pipe') = Len(Pipe) + 1
      BY <1>0, <2>1, <3>1, <3>2, WriteFacts
    <3>4. bank'["IN"].busy = bank["IN"].busy
      BY <1>0, <2>1 DEF Write_8, Types, INs
    <3>5. Pipe' # <<>>
      <4>1. Len(Pipe) \in Nat
        BY <1>0 DEF Types, Pipe, INs
      <4> QED BY <3>3, <4>1
    <3> QED BY <3>1, <3>4, <3>5 DEF HostExpectsMore
  <2> QED BY <2>1, <2>4, <2>5 DEF FlushInv
<1> QED BY <1>1, <1>2, <1>3

\* Flush.
LEMMA FlushFlush ==
  IInv /\ Sized /\ FlushInv
    /\ (FlushBytes \/ FlushFull \/ FlushClear \/ FlushLast)
    => Sized' /\ FlushInv'
<1> SUFFICES ASSUME IInv, Sized, FlushInv,
                    FlushBytes \/ FlushFull \/ FlushClear \/ FlushLast
             PROVE  Sized' /\ FlushInv'
  OBVIOUS
<1>0. /\ call \in CallRecords /\ Types /\ UNCHANGED <<short, msg, disturbed>>
      /\ call.op \in Flushing
  BY DEF IInv, Types, FlushBytes, FlushFull, FlushClear, FlushLast, sending,
         CallShape, Places, CallRecords, Ops, Streams, Data, Resumable,
         Reading, Flushing, Receiving
<1>a. call'.op \in Flushing \/ call' = NoCall \/ call' = GetcharAgain
  <2>1. CASE FlushBytes
    BY <1>0, <2>1 DEF FlushBytes, FlushReturns, Goto, CallRecords
  <2>2. CASE FlushFull
    BY <1>0, <2>2 DEF FlushFull, CallRecords
  <2>3. CASE FlushClear
    BY <1>0, <2>3 DEF FlushClear, FlushReturns, Waiting
  <2>4. CASE FlushLast
    BY <1>0, <2>4 DEF FlushLast, FlushReturns
  <2> QED BY <2>1, <2>2, <2>3, <2>4
<1>b. call'.op \notin Data
  BY <1>a DEF NoCall, GetcharAgain, Call, Flushing, Data, Resumable
<1>c. Sized'
  BY <1>0, <1>b DEF Sized
<1>d. call' = NoCall \/ call' = GetcharAgain => BankKnown'
  BY <1>b DEF NoCall, GetcharAgain, Call, Flushing, BankKnown
<1>e. (sel = "IN" \/ disturbed) \/ call.at = "select"
  BY <1>0
     DEF IInv, Selected, EndpointOf, FlushBytes, FlushFull, FlushClear, FlushLast,
         Flushing, Reading, Receiving
<1>f. BankSize \in Nat /\ BankSize > 0
  BY SizesAssumption
<1>1. CASE FlushBytes
  <2>1. bank' = bank /\ call.at = "bytes"
        /\ (call' = [call EXCEPT !.at = "full"] \/ call' = NoCall \/ call' = GetcharAgain)
    BY <1>1 DEF FlushBytes, FlushReturns, Goto, sending
  <2>2. call' = [call EXCEPT !.at = "full"] => call'.at = "full"
    BY <1>0 DEF CallRecords
  <2>3. BankKnown'
    BY <1>b, <1>d, <2>1, <2>2 DEF BankKnown, Waits
  <2>4. ProgramGoesOn => msg.len > 0
    BY <1>0, <2>1 DEF ProgramGoesOn, Flushing, Waits
  <2> QED BY <1>0, <1>c, <2>1, <2>3, <2>4, QuietCall
          DEF SameBank, ProgramGoesOn
<1>2. CASE FlushFull
  <2>1. PICK allowed \in BOOLEAN :
          /\ ReadWriteAllowed(allowed)
          /\ call' = [call EXCEPT !.full = ~allowed, !.at = "clear"]
    BY <1>2 DEF FlushFull
  <2>2. bank' = bank /\ call.at = "full"
    BY <1>2 DEF FlushFull, sending
  <2>3. call'.at = "clear" /\ call'.full = ~allowed
    BY <1>0, <2>1 DEF CallRecords
  <2>4. (~disturbed /\ allowed) => ~bank["IN"].busy /\ Len(Pipe) < BankSize
    BY <1>e, <2>1, <2>2 DEF ReadWriteAllowed, INs, SizeOf, Pipe
  <2>5. ~disturbed => BankKnown'
    BY <1>b, <2>2, <2>3, <2>4 DEF BankKnown, Waits, Pipe
  <2>6. ProgramGoesOn => msg.len > 0
    BY <1>0, <2>2 DEF ProgramGoesOn, Flushing, Waits
  <2> QED BY <1>0, <1>c, <2>2, <2>5, <2>6, QuietCall
          DEF SameBank, ProgramGoesOn
<1>3. CASE FlushClear
  <2>1. ClearIN /\ call.at = "clear"
        /\ (IF call.full THEN call' = Waiting(call, "last") ELSE call' = NoCall \/ call' = GetcharAgain)
    BY <1>3 DEF FlushClear, FlushReturns
  <2>2. Pipe' = Pipe /\ (sel = "IN" => bank'["IN"].busy)
    BY <1>0, <2>1, ClearINFacts
  <2>3. CASE call.full
    <3>1. call'.op = call.op /\ call'.at = "poll"
      BY <2>1, <2>3 DEF Waiting
    <3>2. ProgramGoesOn'
      BY <1>0, <3>1 DEF ProgramGoesOn, Waits
    <3>3. ~disturbed => BankKnown'
      BY <1>b, <1>e, <2>1, <2>2, <3>1 DEF BankKnown, Waits
    <3> QED BY <1>0, <1>c, <3>2, <3>3 DEF FlushInv
  <2>4. CASE ~call.full
    <3>1. ~disturbed => bank'["IN"].busy /\ Len(Pipe') < BankSize
      BY <1>0, <1>e, <2>1, <2>2, <2>4 DEF FlushInv, BankKnown
    <3>2. ~disturbed => ~HostExpectsMore'
      <4>1. Len(Pipe) \in Nat
        BY <1>0 DEF Types, Pipe, INs
      <4> QED BY <1>f, <2>2, <3>1, <4>1 DEF HostExpectsMore
    <3> QED BY <1>0, <1>c, <1>d, <2>1, <2>4, <3>2 DEF FlushInv
  <2> QED BY <2>3, <2>4
<1>4. CASE FlushLast
  <2>1. ClearIN /\ call.at = "last" /\ (call' = NoCall \/ call' = GetcharAgain)
    BY <1>4 DEF FlushLast, FlushReturns
  <2>2. Pipe' = Pipe /\ (sel = "IN" => bank'["IN"].busy)
    BY <1>0, <2>1, ClearINFacts
  <2>3. ~disturbed => bank'["IN"].busy /\ Len(Pipe') = 0
    BY <1>0, <1>e, <2>1, <2>2 DEF FlushInv, BankKnown
  <2>4. ~disturbed => ~HostExpectsMore'
    BY <1>f, <2>3 DEF HostExpectsMore
  <2> QED BY <1>0, <1>c, <1>d, <2>1, <2>4 DEF FlushInv
<1> QED BY <1>1, <1>2, <1>3, <1>4


\* The streams: one that fills the bank and has more to send goes on, or returns
\* incomplete; one that is done has just put a byte into the bank.
LEMMA TurnFlush ==
  IInv /\ Sized /\ FlushInv /\ (WriteStreamTurn \/ NullStreamTurn)
    => Sized' /\ FlushInv'
<1> SUFFICES ASSUME IInv, Sized, FlushInv, WriteStreamTurn \/ NullStreamTurn
             PROVE  Sized' /\ FlushInv'
  OBVIOUS
<1>0. /\ call \in CallRecords /\ Types /\ call.left =< call.len
      /\ msg \in [base : Nat, len : Nat, processed : Nat]
      /\ BankSize \in Nat /\ BankSize > 0
  BY SizesAssumption DEF IInv, Types
<1>a. /\ call.at = "turn" /\ UNCHANGED <<sel, short, disturbed>>
      /\ call.op \in Data \cup {"Header", "State"}
  BY DEF WriteStreamTurn, NullStreamTurn, StreamTurn, Data
<1>b. /\ call.op \in Data => sel = "IN" \/ disturbed
      /\ call.op \notin Data => sel = "NOTIF" \/ disturbed
  BY <1>a
     DEF IInv, Selected, EndpointOf, Data, Resumable, Reading, Receiving
<1>c. call.op \notin Data => (ProgramGoesOn => msg.len > 0)
  BY <1>a DEF ProgramGoesOn, Data, Flushing
<1>1. CASE call.left = 0
  <2>1. StreamDone /\ bank' = bank
    BY <1>1 DEF WriteStreamTurn, NullStreamTurn, StreamTurn
  <2>2. /\ \/ call' = NoCall \/ call' = SendState
           \/ call' = [call EXCEPT !.at = "clear"] /\ call.op = "State"
        /\ call.op \notin Data => msg' = msg
        /\ call.op \in Data => msg' = [base |-> msg.base + call.len, len |-> 0, processed |-> 0]
    BY <2>1 DEF StreamDone, Data, Resumable
  <2>3. call'.op \notin Data \cup Flushing \cup {"SendByte"}
    BY <1>0, <2>2
       DEF NoCall, SendState, Waiting, Call, CallRecords, Data, Resumable,
           Flushing
  <2>4. Sized' /\ BankKnown'
    <3>1. call.op \in Data => msg'.processed = 0
      BY <2>2
    <3> QED BY <2>2, <2>3, <3>1 DEF Sized, BankKnown
  <2>5. CASE call.op \in Data
    <3>1. ~disturbed => ~HostExpectsMore'
      <4>1. ~disturbed => ~bank["IN"].busy /\ Pipe # <<>>
        BY <1>1, <1>a, <2>5 DEF FlushInv, BankKnown
      <4> QED BY <2>1, <4>1 DEF HostExpectsMore, Pipe
    <3> QED BY <1>a, <2>4, <3>1 DEF FlushInv
  <2>6. CASE call.op \notin Data
    BY <1>a, <1>c, <2>1, <2>2, <2>4, <2>6, QuietCall
       DEF SameBank, ProgramGoesOn
  <2> QED BY <2>5, <2>6
<1>2. CASE call.left # 0
  <2>0. call.left > 0 /\ call.left \in Nat /\ call.len \in Nat
        /\ call.from \in Nat /\ NextByte \in Nat
    BY <1>0, <1>2 DEF CallRecords, NextByte
  <2>1. \/ /\ ReadWriteAllowed(TRUE) /\ Write_8(NextByte)
           /\ call' = [call EXCEPT !.left = @ - 1] /\ UNCHANGED msg
        \/ /\ ClearIN
           /\ IF call.op \in Resumable THEN StreamIncomplete
              ELSE call' = Waiting(call, "turn") /\ UNCHANGED msg
    <3>1. PICK b \in BOOLEAN :
            /\ ReadWriteAllowed(b)
            /\ IF b THEN /\ Write_8(NextByte)
                         /\ call' = [call EXCEPT !.left = @ - 1]
                         /\ UNCHANGED msg
               ELSE /\ ClearIN
                    /\ IF call.op \in Resumable THEN StreamIncomplete
                       ELSE call' = Waiting(call, "turn") /\ UNCHANGED msg
      BY <1>2, Zenon DEF WriteStreamTurn, NullStreamTurn, StreamTurn
    <3>2. CASE b = TRUE
      BY <3>1, <3>2, Zenon
    <3>3. CASE b = FALSE
      BY <3>1, <3>3, Zenon
    <3> QED BY <3>2, <3>3
  <2>2. CASE /\ ReadWriteAllowed(TRUE) /\ Write_8(NextByte)
             /\ call' = [call EXCEPT !.left = @ - 1] /\ UNCHANGED msg
    <3>1. /\ call'.op = call.op /\ call'.at = "turn" /\ call'.len = call.len
          /\ call'.left = call.left - 1
      BY <1>0, <1>a, <2>2 DEF CallRecords
    <3>2. Sized'
      BY <1>0, <2>2, <3>1 DEF Sized, Waits
    <3>3. CASE call.op \in Data /\ ~disturbed
      <4>1. sel = "IN" /\ ~bank["IN"].busy /\ Len(Pipe) < BankSize
        BY <1>b, <2>2, <3>3 DEF ReadWriteAllowed, INs, SizeOf, Pipe
      <4>2. Pipe' = Append(Pipe, NextByte) /\ Len(Pipe') = Len(Pipe) + 1
        BY <1>0, <2>0, <2>2, <4>1, WriteFacts
      <4>3. bank'["IN"].busy = bank["IN"].busy
        BY <1>0, <2>2, <4>1 DEF Write_8, Types, INs
      <4>4. Pipe' # <<>>
        <5>1. Len(Pipe) \in Nat
          BY <1>0 DEF Types, Pipe, INs
        <5> QED BY <4>2, <5>1
      <4>5. ~HostExpectsMore' /\ BankKnown'
        BY <3>1, <3>3, <4>1, <4>3, <4>4
           DEF HostExpectsMore, BankKnown, Waits, Data, Resumable, Flushing
      <4> QED BY <3>2, <4>5 DEF FlushInv
    <3>4. CASE call.op \notin Data /\ ~disturbed
      <4>1. bank'["IN"] = bank["IN"]
        BY <1>0, <1>b, <2>2, <3>4 DEF Write_8, Types, INs
      <4>2. BankKnown'
        BY <1>a, <3>1, <3>4 DEF BankKnown, Data, Flushing
      <4> QED BY <1>a, <1>c, <2>2, <3>2, <3>4, <4>1, <4>2, QuietCall
              DEF SameBank, ProgramGoesOn
    <3>5. CASE disturbed
      BY <1>a, <3>2, <3>5 DEF FlushInv
    <3> QED BY <3>3, <3>4, <3>5
  <2>3. CASE /\ ClearIN
             /\ IF call.op \in Resumable THEN StreamIncomplete
                ELSE call' = Waiting(call, "turn") /\ UNCHANGED msg
    <3>1. CASE call.op \in Resumable
      <4>1. call' = NoCall
            /\ msg' = [msg EXCEPT !.processed = call.len - call.left]
        BY <1>0, <2>3, <3>1
           DEF StreamIncomplete, Return, CallRecords, IInv, CallShape
      <4>2. msg'.processed = call.len - call.left /\ msg'.len = msg.len
            /\ msg.len = call.len /\ call.len > 0
        BY <1>0, <3>1, <4>1 DEF IInv, CallShape, Sized, Data, Resumable
      <4>3. call'.op = "none"
        BY <4>1 DEF NoCall, Call
      <4>4. Sized' /\ BankKnown' /\ ProgramGoesOn'
        BY <1>0, <2>0, <4>2, <4>3
           DEF Sized, BankKnown, ProgramGoesOn, Data, Resumable, Flushing
      <4> QED BY <4>4 DEF FlushInv
    <3>2. CASE call.op \notin Resumable
      <4>1. call' = Waiting(call, "turn") /\ msg' = msg
        BY <2>3, <3>2
      <4>2. /\ call'.op = call.op /\ call'.at = "poll" /\ call'.len = call.len
            /\ call'.left = call.left
        BY <4>1 DEF Waiting
      <4>3. Sized'
        BY <2>0, <4>1, <4>2 DEF Sized
      <4>4. BankKnown'
        BY <1>a, <4>2 DEF BankKnown, Data, Flushing
      <4>5. CASE call.op \in Data
        <5>1. ProgramGoesOn'
          BY <2>0, <3>2, <4>2, <4>5 DEF ProgramGoesOn, Data, Resumable, Waits
        <5> QED BY <4>3, <4>4, <5>1 DEF FlushInv
      <4>6. CASE call.op \notin Data /\ ~disturbed
        <5>1. bank'["IN"] = bank["IN"]
          BY <1>0, <1>b, <2>3, <4>6 DEF ClearIN, Types, INs
        <5> QED BY <1>a, <1>c, <4>1, <4>3, <4>4, <4>6, <5>1, QuietCall
                DEF SameBank, ProgramGoesOn
      <4>7. CASE disturbed
        BY <1>a, <4>3, <4>7 DEF FlushInv
      <4> QED BY <4>5, <4>6, <4>7
    <3> QED BY <3>1, <3>2
  <2> QED BY <2>1, <2>2, <2>3
<1> QED BY <1>1, <1>2

\* The rest of the code has nothing to do with the data IN endpoint.
LEMMA OtherCodeFlush ==
  IInv /\ Sized /\ FlushInv
    /\ (\/ ReadStreamTurn \/ DiscardStreamTurn \/ NotificationClear \/ Received
        \/ BytesReceivedCount \/ ReceiveByteRead \/ ReceiveByteRelease
        \/ getchar_Blocked \/ CDC_Device_USBTask \/ getchar_Again)
    => Sized' /\ FlushInv'
<1> SUFFICES ASSUME IInv, Sized, FlushInv,
               \/ ReadStreamTurn \/ DiscardStreamTurn \/ NotificationClear
               \/ Received \/ BytesReceivedCount \/ ReceiveByteRead
               \/ ReceiveByteRelease \/ getchar_Blocked \/ CDC_Device_USBTask
               \/ getchar_Again
             PROVE  Sized' /\ FlushInv'
  OBVIOUS
<1>0. call \in CallRecords /\ Types
  BY DEF IInv, Types
<1>1. call.op \in Reading \cup Receiving \cup {"State"} /\ call.at \notin {"last"}
  BY DEF ReadStreamTurn, DiscardStreamTurn, StreamTurn, NotificationClear,
         Received, BytesReceivedCount, ReceiveByteRead, ReceiveByteRelease,
         getchar_Blocked, CDC_Device_USBTask, getchar_Again, IInv, Types,
         CallShape, Places, CallRecords, Ops, Streams, Data, Resumable,
         Reading, Flushing, Receiving
<1>2. UNCHANGED <<short, disturbed, msg>>
  <2>1. CASE ReadStreamTurn \/ DiscardStreamTurn
    BY <1>1, <2>1
       DEF ReadStreamTurn, DiscardStreamTurn, StreamTurn, StreamDone,
           StreamIncomplete, Reading, Receiving, Resumable
  <2>2. CASE ~(ReadStreamTurn \/ DiscardStreamTurn)
    BY <2>2
       DEF NotificationClear, Received, BytesReceivedCount, ReceiveByteRead,
           ReceiveByteRelease, getchar_Blocked, CDC_Device_USBTask,
           getchar_Again, sending
  <2> QED BY <2>1, <2>2
<1>3. ~disturbed => bank'["IN"] = bank["IN"]
  <2>1. CASE ReadStreamTurn \/ DiscardStreamTurn
    BY <2>1 DEF ReadStreamTurn, DiscardStreamTurn, StreamTurn
  <2>2. CASE NotificationClear
    BY <1>0, <2>2
       DEF NotificationClear, ClearIN, Types, INs, IInv, Selected, EndpointOf
  <2>3. CASE ~(ReadStreamTurn \/ DiscardStreamTurn \/ NotificationClear)
    BY <2>3
       DEF Received, BytesReceivedCount, ReceiveByteRead, ReceiveByteRelease,
           getchar_Blocked, CDC_Device_USBTask, getchar_Again, sending
  <2> QED BY <2>1, <2>2, <2>3
<1>4. call'.op \notin Data \cup {"SendByte"}
      /\ (call'.op \in Flushing => call'.at = "select")
  <2>1. CASE ReadStreamTurn \/ DiscardStreamTurn
    <3>0. call.op \in Reading
      BY <2>1 DEF ReadStreamTurn, DiscardStreamTurn, StreamTurn, Reading
    <3>1. \/ StreamDone
          \/ call' = [call EXCEPT !.left = @ - 1]
          \/ call' = Waiting(call, "turn")
          \/ StreamIncomplete
      BY <2>1, Zenon DEF ReadStreamTurn, DiscardStreamTurn, StreamTurn
    <3>2. StreamDone \/ StreamIncomplete => call' = NoCall
      BY <3>0 DEF StreamDone, StreamIncomplete, Return, Reading
    <3>3. call'.op \in Reading \/ call' = NoCall
      BY <1>0, <3>0, <3>1, <3>2 DEF Waiting, CallRecords
    <3> QED BY <3>3 DEF NoCall, Call, Reading, Data, Resumable, Flushing
  <2>2. CASE NotificationClear \/ BytesReceivedCount
    BY <2>2
       DEF NotificationClear, BytesReceivedCount, Return, NoCall, Call, Data,
           Resumable, Flushing
  <2>3. CASE Received \/ ReceiveByteRead \/ ReceiveByteRelease
    <3>0. call.op \in Receiving
      BY <1>0, <2>3
         DEF Received, ReceiveByteRead, ReceiveByteRelease, IInv, CallShape,
             Places, CallRecords, Ops, Streams, Data, Resumable, Reading,
             Flushing, Receiving
    <3>1. call'.op = call.op \/ call' = NoCall
      BY <1>0, <2>3
         DEF Received, ReceiveByteRead, ReceiveByteRelease, NoByte, Goto,
             Return, CallRecords
    <3> QED BY <3>0, <3>1
            DEF NoCall, Call, Receiving, Data, Resumable, Flushing
  <2>4. CASE getchar_Blocked \/ CDC_Device_USBTask \/ getchar_Again
    BY <1>0, <1>1, <2>4
       DEF getchar_Blocked, CDC_Device_USBTask, getchar_Again, Goto, Return,
           NoCall, Call, CallRecords, Reading, Receiving, Data, Resumable,
           Flushing
  <2> QED BY <2>1, <2>2, <2>3, <2>4
<1>5. Sized' /\ BankKnown'
  BY <1>2, <1>4 DEF Sized, BankKnown, Waits
<1>6. ProgramGoesOn => msg.len > 0
  BY <1>1 DEF ProgramGoesOn, Reading, Receiving, Flushing
<1>7. CASE ~disturbed
  BY <1>2, <1>3, <1>5, <1>6, <1>7, QuietCall DEF SameBank, ProgramGoesOn
<1>8. CASE disturbed
  BY <1>2, <1>5, <1>8 DEF FlushInv
<1> QED BY <1>7, <1>8


\* A call starts with something to send, and none is under way then.
LEMMA ApplicationFlush ==
  ASSUME IInv, Sized, FlushInv, Application
  PROVE  Sized' /\ FlushInv'
<1>0. /\ call \in CallRecords
      /\ msg \in [base : Nat, len : Nat, processed : Nat]
      /\ Lengths \subseteq Nat \ {0}
  BY SizesAssumption DEF IInv, Types
<1>1. /\ call.at = "idle" /\ UNCHANGED <<bank, short, disturbed>>
      /\ \E op, from, len, left : call' = Call(op, "select", from, len, left)
  BY Zenon
     DEF Application, CDC_Device_SendData, CDC_Device_SendByte,
         CDC_Device_Flush, CDC_Device_SendControlLineStateChange,
         Endpoint_Write_Stream, Receive, ReadStream, Begin
<1>2. call'.at = "select"
  BY <1>1 DEF Call
<1>3. ProgramGoesOn => msg.len > 0
  BY <1>1 DEF ProgramGoesOn, Waits
<1>4. BankKnown'
  BY <1>2 DEF BankKnown, Waits
<1>5. \/ msg' = msg
      \/ \E n \in Lengths : /\ msg' = [msg EXCEPT !.len = n]
                            /\ msg.processed > 0 => n = msg.len
  BY DEF Application, CDC_Device_SendData, CDC_Device_SendByte,
         CDC_Device_Flush, CDC_Device_SendControlLineStateChange,
         Endpoint_Write_Stream, Receive, ReadStream
<1>6. /\ (msg.processed > 0 => msg.processed < msg.len)'
      /\ msg.len > 0 => msg'.len > 0
  <2>1. CASE msg' = msg
    BY <2>1 DEF Sized
  <2>2. CASE \E n \in Lengths : /\ msg' = [msg EXCEPT !.len = n]
                                /\ msg.processed > 0 => n = msg.len
    <3>1. PICK n \in Lengths : /\ msg' = [msg EXCEPT !.len = n]
                               /\ msg.processed > 0 => n = msg.len
      BY <2>2
    <3>2. msg'.len = n /\ msg'.processed = msg.processed /\ n > 0
      BY <1>0, <3>1
    <3> QED BY <3>1, <3>2 DEF Sized
  <2> QED BY <1>5, <2>1, <2>2
<1>7. call'.op \in Data => call'.left > 0 /\ call'.len > 0
  <2>1. CASE CDC_Device_SendData
    <3>1. PICK n \in Lengths : call' = Call("SendData", "select", msg.base, n, n)
      BY <2>1 DEF CDC_Device_SendData, Begin
    <3> QED BY <1>0, <3>1 DEF Call
  <2>2. CASE \E op \in Resumable : Endpoint_Write_Stream(op)
    <3>1. PICK op \in Resumable, n \in Lengths :
            /\ msg.processed > 0 => n = msg.len
            /\ call' = Call(op, "select", msg.base, n, n - msg.processed)
      BY <2>2 DEF Endpoint_Write_Stream, Begin
    <3>2. n - msg.processed > 0 /\ n > 0
      BY <1>0, <3>1 DEF Sized
    <3> QED BY <3>1, <3>2 DEF Call
  <2>3. CASE ~CDC_Device_SendData /\ ~\E op \in Resumable : Endpoint_Write_Stream(op)
    <3>1. call'.op \notin Data
      BY <2>3
         DEF Application, CDC_Device_SendByte, CDC_Device_Flush,
             CDC_Device_SendControlLineStateChange, Receive, ReadStream, Begin,
             Call, Data, Resumable, Receiving, Reading
    <3> QED BY <3>1
  <2> QED BY <2>1, <2>2, <2>3
<1>8. Sized'
  BY <1>6, <1>7 DEF Sized
<1>9. FlushInv'
  BY <1>1, <1>3, <1>4, <1>6
     DEF FlushInv, HostExpectsMore, ProgramGoesOn, Pipe
<1> QED BY <1>8, <1>9

\* The host takes what it was given; an interrupt that empties the bank disturbs
\* or finds it empty.
LEMMA EnvironmentFlush ==
  ASSUME IInv, Sized, FlushInv, Environment \/ UNCHANGED vars
  PROVE  Sized' /\ FlushInv'
<1>0. /\ call \in CallRecords /\ Types /\ BankSize \in Nat /\ BankSize > 0
      /\ Len(Pipe) \in Nat /\ Len(Pipe) =< BankSize /\ Pipe \in Seq(Nat)
  BY SizesAssumption DEF IInv, Types, Pipe, INs
<1>e. Empty.bytes = <<>> /\ Empty.busy = FALSE
  BY DEF Empty
<1>1. /\ call'.op = call.op /\ call'.at = call.at /\ call'.len = call.len
      /\ call'.left = call.left /\ call'.full = call.full /\ msg' = msg
  <2>1. CASE StartOfFrame
    <3>1. \E n : call' = [call EXCEPT !.moved = TRUE, !.frames = n]
      BY <2>1 DEF StartOfFrame
    <3> QED BY <1>0, <2>1, <3>1 DEF StartOfFrame, CallRecords, sending
  <2>2. CASE call' = call /\ msg' = msg
    BY <2>2
  <2> QED BY <2>1, <2>2
          DEF Environment, HostTakes, HostHears, HostSends, BusReset, Suspend,
              WakeUp, HostConfigures, HostSetsLineEncoding, HostHalts,
              HostClearsHalt, vars, sending
<1>2. Sized' /\ (ProgramGoesOn => ProgramGoesOn')
  BY <1>1 DEF Sized, ProgramGoesOn
<1>3. CASE HostTakes
  <2>1. /\ bank["IN"].busy /\ bank'["IN"] = Empty /\ disturbed' = disturbed
        /\ short' = (Len(Pipe) < BankSize)
    BY <1>0, <1>3 DEF HostTakes, Types, INs, Pipe
  <2>2. HostExpectsMore' => HostExpectsMore
    <3>1. bank'["IN"].busy = FALSE
      BY <1>e, <2>1
    <3>2. HostExpectsMore' => ~short'
      BY <3>1 DEF HostExpectsMore
    <3>3. ~short' => ~(Len(Pipe) < BankSize)
      BY <2>1, Zenon
    <3>4. ~(Len(Pipe) < BankSize) => Len(Pipe) = BankSize
      BY <1>0
    <3> QED BY <2>1, <3>2, <3>3, <3>4 DEF HostExpectsMore
  <2>3. ~disturbed => BankKnown'
    BY <1>1, <1>e, <2>1 DEF FlushInv, BankKnown, Pipe
  <2> QED BY <1>2, <2>1, <2>2, <2>3 DEF FlushInv
<1>4. CASE BanksEmptied /\ short' = short
  <2>1. CASE disturbed'
    BY <1>2, <2>1 DEF FlushInv
  <2>2. CASE ~disturbed'
    <3>1. /\ ~disturbed /\ bank["IN"] = Empty /\ bank'["IN"] = Empty
      BY <1>4, <2>2 DEF BanksEmptied, INs
    <3>2. BankKnown' /\ (HostExpectsMore' => HostExpectsMore)
      BY <1>1, <1>4, <3>1 DEF FlushInv, BankKnown, HostExpectsMore, Pipe
    <3> QED BY <1>2, <3>1, <3>2 DEF FlushInv
  <2> QED BY <2>1, <2>2
<1>5. CASE HostClearsHalt
  <2>1. /\ bank'["IN"] = Empty /\ short' = short
        /\ disturbed' = (disturbed \/ bank["IN"] # Empty)
    BY <1>0, <1>5 DEF HostClearsHalt, Endpoint_ResetEndpoint, Types, INs
  <2>2. CASE disturbed'
    BY <1>2, <2>2 DEF FlushInv
  <2>3. CASE ~disturbed'
    <3>1. ~disturbed /\ bank'["IN"] = bank["IN"]
      BY <2>1, <2>3
    <3>2. BankKnown' /\ (HostExpectsMore' => HostExpectsMore)
      BY <1>1, <2>1, <3>1 DEF FlushInv, BankKnown, HostExpectsMore, Pipe
    <3> QED BY <1>2, <3>1, <3>2 DEF FlushInv
  <2> QED BY <2>2, <2>3
<1>6. CASE SameBank /\ disturbed' = disturbed
  <2>1. ~disturbed => BankKnown'
    BY <1>1, <1>6 DEF FlushInv, BankKnown, SameBank, Pipe
  <2> QED BY <1>1, <1>2, <1>6, <2>1, QuietCall
<1>7. CASE HostHears
  <2>1. SameBank /\ disturbed' = disturbed
    BY <1>0, <1>7 DEF HostHears, SameBank, Types, INs
  <2> QED BY <1>6, <2>1
<1>8. CASE HostConfigures
  <2>1. short' = short
        /\ (BanksEmptied \/ (bank' = bank /\ disturbed' = disturbed))
    BY <1>8 DEF HostConfigures
  <2> QED BY <1>4, <1>6, <2>1 DEF SameBank
<1>9. CASE BusReset
  BY <1>4, <1>9 DEF BusReset
<1>10. CASE \/ HostSends \/ StartOfFrame \/ Suspend \/ WakeUp
            \/ HostSetsLineEncoding \/ HostHalts \/ UNCHANGED vars
  BY <1>6, <1>10
     DEF HostSends, StartOfFrame, Suspend, WakeUp, HostSetsLineEncoding,
         HostHalts, vars, sending, SameBank
<1> QED BY <1>3, <1>5, <1>7, <1>8, <1>9, <1>10 DEF Environment

\* Every step keeps what the flush waits for.
LEMMA FlushStep ==
  ASSUME IInv, Sized, FlushInv, [Next]_vars
  PROVE  Sized' /\ FlushInv'
<1>1. CASE Code
  BY <1>1, SelectFlush, WaitPollFlush, WaitCheckFlush, SendByteFlush,
     FlushFlush, TurnFlush, OtherCodeFlush DEF Code
<1> QED BY <1>1, ApplicationFlush, EnvironmentFlush DEF Next

\* What the host and the program each expect to follow agrees in every
\* behaviour.
THEOREM FlushInvariant == Spec => [](Sized /\ FlushInv)
<1>1. Init => Sized /\ FlushInv
  <2> SUFFICES ASSUME Init PROVE Sized /\ FlushInv
    OBVIOUS
  <2>1. call.op = "none" /\ msg.processed = 0
    BY DEF Init, NoCall, Call
  <2>2. bank["IN"].busy = FALSE /\ short = TRUE
    BY DEF Init, Empty, INs
  <2> QED BY <2>1, <2>2
          DEF Sized, FlushInv, BankKnown, HostExpectsMore, Data, Resumable,
              Flushing
<1>2. IInv /\ Sized /\ FlushInv /\ [Next]_vars => (Sized /\ FlushInv)'
  BY FlushStep
<1> QED BY <1>1, <1>2, InductiveInvariant, PTL DEF Spec

\* CDC_Device_Flush, called by the program or from getchar_Blocking, leaves the
\* host with a packet that ends the transfer: a short or a zero-length one.
THEOREM FlushCompletes == Spec => FlushEndsTransfer
<1> DEFINE Returns == /\ call.op \in Flushing
                      /\ call.at \in {"bytes", "clear", "last"}
                      /\ call'.op \notin Flushing /\ ~disturbed'
           Ended == IF bank'["IN"].busy THEN Len(bank'["IN"].bytes) < BankSize
                    ELSE bank'["IN"].bytes = <<>> /\ (short' \/ msg.len > 0)
<1>1. IInv /\ Sized /\ FlushInv /\ [Next]_vars => [Returns => Ended]_vars
  <2> SUFFICES ASSUME IInv, Sized, FlushInv, Next, Returns PROVE Ended
    OBVIOUS
  <2>0. /\ call \in CallRecords /\ Types /\ BankSize \in Nat /\ BankSize > 0
        /\ Len(Pipe) \in Nat
    BY SizesAssumption DEF IInv, Types, Pipe, INs
  <2>1. FlushBytes \/ FlushClear \/ FlushLast
    <3>1. ~Application
      <4> SUFFICES ASSUME Application PROVE FALSE
        OBVIOUS
      <4>1. call.at = "idle"
        BY Zenon
           DEF Application, CDC_Device_SendData, CDC_Device_SendByte,
               CDC_Device_Flush, CDC_Device_SendControlLineStateChange,
               Endpoint_Write_Stream, Receive, ReadStream, Begin
      <4> QED BY <4>1
    <3>2. ~Environment
      BY DEF Environment, HostTakes, HostHears, HostSends, StartOfFrame,
             BusReset, Suspend, WakeUp, HostConfigures, HostSetsLineEncoding,
             HostHalts, HostClearsHalt
    <3>3. Code
      BY <3>1, <3>2 DEF Next
    <3> QED BY <3>3
            DEF Code, Endpoint_SelectEndpoint, WaitPoll, WaitCheck,
                WriteStreamTurn, NullStreamTurn, ReadStreamTurn,
                DiscardStreamTurn, StreamTurn, SendByteRoom, SendByteClear,
                SendByteWrite, FlushFull, NotificationClear, Received,
                BytesReceivedCount, ReceiveByteRead, ReceiveByteRelease,
                getchar_Blocked, CDC_Device_USBTask, getchar_Again, Flushing
  <2>2. ~disturbed /\ short' = short /\ (sel = "IN")
    BY <2>0, <2>1
       DEF FlushBytes, FlushClear, FlushLast, sending, IInv, Selected,
           EndpointOf, Flushing, Reading, Receiving
  <2>3. CASE FlushBytes
    <3>1. PICK b \in BOOLEAN :
            BytesInEndpoint(b) /\ (IF b THEN Goto("full") ELSE FlushReturns)
      BY <2>3 DEF FlushBytes
    <3>2. ~b
      BY <2>0, <3>1 DEF Goto, CallRecords
    <3>3. Pipe = <<>> /\ bank' = bank /\ call.at = "bytes"
      BY <2>2, <2>3, <3>1, <3>2
         DEF BytesInEndpoint, INs, Pipe, FlushBytes, sending
    <3>4. ~ProgramGoesOn \/ msg.len > 0
      BY <3>3 DEF ProgramGoesOn, Flushing, Waits
    <3> QED BY <2>0, <2>2, <3>3, <3>4
            DEF FlushInv, HostExpectsMore, Pipe
  <2>4. CASE FlushClear
    <3>1. ClearIN /\ call.at = "clear" /\ ~call.full
      BY <2>0, <2>4 DEF FlushClear, Waiting
    <3>2. Pipe' = Pipe /\ bank'["IN"].busy
      BY <2>0, <2>2, <3>1, ClearINFacts
    <3>3. Len(Pipe) < BankSize
      BY <2>2, <3>1 DEF FlushInv, BankKnown
    <3> QED BY <3>2, <3>3 DEF Pipe
  <2>5. CASE FlushLast
    <3>1. ClearIN /\ call.at = "last"
      BY <2>5 DEF FlushLast
    <3>2. Pipe' = Pipe /\ bank'["IN"].busy
      BY <2>0, <2>2, <3>1, ClearINFacts
    <3>3. Len(Pipe) = 0
      BY <2>2, <3>1 DEF FlushInv, BankKnown
    <3> QED BY <2>0, <3>2, <3>3 DEF Pipe
  <2> QED BY <2>1, <2>3, <2>4, <2>5
<1> QED BY <1>1, InductiveInvariant, FlushInvariant, PTL
        DEF Spec, FlushEndsTransfer

-----------------------------------------------------------------------------
(* A notification reaches the host whole. *)

Note == bank["NOTIF"].bytes
Notifying == {"Header", "State"}

\* A number of bytes that fills whole packets.
WholePackets(n) == \E k \in 0 .. n : n = k * NotificationBank

\* No notification under way: none, or all of the last one, which waits for
\* the host to take its last packet.
NoteAtRest ==
  /\ \/ call.op \notin Notifying
     \/ /\ call.op = "Header" /\ call.left = HeaderBytes
        /\ call.at \in {"select"} \cup Waits
  /\ \/ ~bank["NOTIF"].busy /\ Len(heard) + Len(Note) = 0
     \/ bank["NOTIF"].busy /\ Len(heard) + Len(Note) = HeaderBytes + StateBytes

\* One under way: the host has, or will be given, what was written of it, in
\* packets that are full.
NoteUnderWay ==
  /\ call.op \in Notifying /\ call.at \in Waits \cup {"turn", "clear"}
  /\ Len(heard) + Len(Note) = call.from + (call.len - call.left)
  /\ bank["NOTIF"].busy => call.at \in Waits /\ Len(Note) = NotificationBank
  /\ call.at = "clear" => call.left = 0

NoteBytes ==
  /\ WholePackets(Len(heard))
  /\ \A i \in 1 .. Len(heard) : heard[i] = i
  /\ \A i \in 1 .. Len(Note) : Note[i] = Len(heard) + i

NoteInv ==
  /\ heard \in Seq(Nat)
  /\ call.op = "Header" => call.from = 0 /\ call.len = HeaderBytes
  /\ call.op = "State" => call.from = HeaderBytes /\ call.len = StateBytes
  /\ ~disturbed => NoteBytes /\ (NoteAtRest \/ NoteUnderWay)

\* A full packet more is a whole number of packets again.
LEMMA OnePacketMore ==
  ASSUME NEW n \in Nat, WholePackets(n)
  PROVE  WholePackets(n + NotificationBank)
<1>1. PICK k \in 0 .. n : n = k * NotificationBank
  BY DEF WholePackets
<1>2. NotificationBank \in Nat \ {0}
  BY SizesAssumption
<1>3. n + NotificationBank = (k + 1) * NotificationBank
  BY <1>1, <1>2
<1>4. k + 1 \in 0 .. n + NotificationBank
  BY <1>1, <1>2
<1> QED BY <1>3, <1>4 DEF WholePackets

\* A notification is not a whole number of packets.
LEMMA NotWhole ==
  ~WholePackets(HeaderBytes + StateBytes) /\ WholePackets(0)
<1>1. ~WholePackets(HeaderBytes + StateBytes)
  BY NotificationAssumption DEF WholePackets
<1>2. 0 = 0 * NotificationBank
  BY SizesAssumption
<1> QED BY <1>1, <1>2 DEF WholePackets

\* Numbered bytes stay numbered when the next one is appended, ...
LEMMA OneByteMore ==
  ASSUME NEW s \in Seq(Nat), NEW n \in Nat, NEW t,
         \A i \in 1 .. Len(s) : s[i] = n + i,
         t = Append(s, n + Len(s) + 1)
  PROVE  \A i \in 1 .. Len(t) : t[i] = n + i
<1>1. /\ Len(t) = Len(s) + 1 /\ t[Len(s) + 1] = n + Len(s) + 1
      /\ \A i \in 1 .. Len(s) : t[i] = s[i]
      /\ Len(s) \in Nat
  OBVIOUS
<1>2. ASSUME NEW i \in 1 .. Len(t) PROVE t[i] = n + i
  <2>1. CASE i = Len(s) + 1
    BY <1>1, <2>1
  <2>2. CASE i # Len(s) + 1
    <3>1. i \in 1 .. Len(s)
      BY <1>1, <2>2
    <3> QED BY <1>1, <3>1
  <2> QED BY <2>1, <2>2
<1> QED BY <1>2

\* ... and when the next ones are.
LEMMA MoreBytes ==
  ASSUME NEW s \in Seq(Nat), NEW t \in Seq(Nat), NEW u,
         \A i \in 1 .. Len(s) : s[i] = i,
         \A i \in 1 .. Len(t) : t[i] = Len(s) + i,
         u = s \o t
  PROVE  /\ u \in Seq(Nat) /\ Len(u) = Len(s) + Len(t)
         /\ \A i \in 1 .. Len(u) : u[i] = i
<1>1. u \in Seq(Nat) /\ Len(u) = Len(s) + Len(t) /\ Len(s) \in Nat
      /\ Len(t) \in Nat
  OBVIOUS
<1>2. ASSUME NEW i \in 1 .. Len(u) PROVE u[i] = i
  <2>1. CASE i =< Len(s)
    <3>1. u[i] = s[i] /\ i \in 1 .. Len(s)
      BY <1>1, <2>1
    <3> QED BY <3>1
  <2>2. CASE ~(i =< Len(s))
    <3>1. u[i] = t[i - Len(s)] /\ i - Len(s) \in 1 .. Len(t)
      BY <1>1, <2>2
    <3> QED BY <1>1, <3>1
  <2> QED BY <2>1, <2>2
<1> QED BY <1>1, <1>2

\* What a step that leaves the endpoint alone may do to the call.
LEMMA NoteKept ==
  ASSUME NoteInv, UNCHANGED heard, disturbed => disturbed',
         ~disturbed => bank'["NOTIF"] = bank["NOTIF"],
         call'.op \notin Notifying,
         call.op \notin Notifying \/ disturbed'
  PROVE  NoteInv'
<1>1. NoteAtRest \/ disturbed \/ disturbed'
  BY DEF NoteInv, NoteUnderWay
<1>2. CASE disturbed'
  BY <1>2 DEF NoteInv, Notifying
<1>3. CASE ~disturbed'
  <2>1. ~disturbed /\ NoteAtRest /\ NoteBytes
    BY <1>1, <1>3 DEF NoteInv
  <2>2. bank'["NOTIF"] = bank["NOTIF"] /\ Note' = Note
    BY <2>1 DEF Note
  <2>3. NoteAtRest' /\ NoteBytes'
    BY <2>1, <2>2 DEF NoteAtRest, NoteBytes
  <2> QED BY <2>3 DEF NoteInv, Notifying
<1> QED BY <1>2, <1>3

\* The code of the other calls.
LEMMA OtherCodeNote ==
  ASSUME IInv, NoteInv, Code, call.op \notin Notifying
  PROVE  NoteInv'
<1>0. /\ call \in CallRecords /\ Types /\ disturbed \in BOOLEAN
  BY DEF IInv, Types
<1>1. heard' = heard /\ (disturbed => disturbed')
  BY <1>0
     DEF Code, Endpoint_SelectEndpoint, WaitPoll, WaitCheck, Failed,
         WriteStreamTurn, NullStreamTurn, ReadStreamTurn, DiscardStreamTurn,
         StreamTurn, SendByteRoom, SendByteClear, SendByteWrite, FlushBytes,
         FlushFull, FlushClear, FlushLast, NotificationClear, Received,
         BytesReceivedCount, ReceiveByteRead, ReceiveByteRelease,
         getchar_Blocked, CDC_Device_USBTask, getchar_Again, sending
<1>2. ~disturbed => bank'["NOTIF"] = bank["NOTIF"]
  <2>1. CASE bank' = bank
    BY <2>1
  <2>2. CASE ClearIN \/ \E byte : Write_8(byte)
    <3>1. CASE call.at \notin {"idle", "select", "usbtask", "again", "blocked"}
      <4>1. ~disturbed => sel # "NOTIF"
        BY <1>0, <3>1 DEF IInv, Selected, EndpointOf, Notifying
      <4> QED BY <1>0, <2>2, <4>1 DEF ClearIN, Write_8, Types, INs
    <3>2. CASE call.at \in {"idle", "select", "usbtask", "again", "blocked"}
      <4>1. bank' = bank
        BY <3>2
           DEF Code, Endpoint_SelectEndpoint, WaitPoll, WaitCheck,
               WriteStreamTurn, NullStreamTurn, ReadStreamTurn,
               DiscardStreamTurn, StreamTurn, SendByteRoom, SendByteClear,
               SendByteWrite, FlushBytes, FlushFull, FlushClear, FlushLast,
               NotificationClear, Received, BytesReceivedCount,
               ReceiveByteRead, ReceiveByteRelease, getchar_Blocked,
               CDC_Device_USBTask, getchar_Again, sending
      <4> QED BY <4>1
    <3> QED BY <3>1, <3>2
  <2> QED BY <2>1, <2>2, Zenon
          DEF Code, Endpoint_SelectEndpoint, WaitPoll, WaitCheck,
              WriteStreamTurn, NullStreamTurn, ReadStreamTurn,
              DiscardStreamTurn, StreamTurn, SendByteRoom, SendByteClear,
              SendByteWrite, FlushBytes, FlushFull, FlushClear, FlushLast,
              NotificationClear, Received, BytesReceivedCount,
              ReceiveByteRead, ReceiveByteRelease, getchar_Blocked,
              CDC_Device_USBTask, getchar_Again, sending
<1>3. call'.op \notin Notifying
  <2>0. NoCall.op \notin Notifying /\ GetcharAgain.op \notin Notifying
    BY DEF NoCall, GetcharAgain, Call, Notifying
  <2>1. CASE Endpoint_SelectEndpoint \/ WaitPoll
    BY <1>0, <2>1 DEF Endpoint_SelectEndpoint, WaitPoll, Goto, Waiting, CallRecords
  <2>2. CASE WaitCheck
    BY <1>0, <2>2, <2>0 DEF WaitCheck, Failed, CallRecords, Notifying
  <2>3. CASE WriteStreamTurn \/ NullStreamTurn \/ ReadStreamTurn
               \/ DiscardStreamTurn
    <3>1. \/ StreamDone
          \/ call' = [call EXCEPT !.left = @ - 1]
          \/ call' = Waiting(call, "turn")
          \/ StreamIncomplete
      BY <2>3, Zenon
         DEF WriteStreamTurn, NullStreamTurn, ReadStreamTurn,
             DiscardStreamTurn, StreamTurn
    <3>2. StreamDone \/ StreamIncomplete => call' = NoCall
      BY DEF StreamDone, StreamIncomplete, Return, Notifying
    <3> QED BY <1>0, <2>0, <3>1, <3>2 DEF Waiting, CallRecords
  <2>4. CASE SendByteRoom \/ SendByteClear \/ SendByteWrite
    BY <1>0, <2>0, <2>4
       DEF SendByteRoom, SendByteClear, SendByteWrite, Goto, Return, Waiting,
           CallRecords
  <2>5. CASE FlushBytes \/ FlushFull
    BY <1>0, <2>0, <2>5
       DEF FlushBytes, FlushFull, FlushReturns, Goto, CallRecords
  <2>6. CASE FlushClear \/ FlushLast \/ NotificationClear
    BY <1>0, <2>0, <2>6
       DEF FlushClear, FlushLast, NotificationClear, FlushReturns, Return,
           Waiting
  <2>7. CASE Received \/ BytesReceivedCount \/ ReceiveByteRead
               \/ ReceiveByteRelease
    BY <1>0, <2>0, <2>7
       DEF Received, BytesReceivedCount, ReceiveByteRead, ReceiveByteRelease,
           NoByte, Goto, Return, CallRecords
  <2>8. CASE getchar_Blocked \/ CDC_Device_USBTask \/ getchar_Again
    BY <1>0, <2>0, <2>8
       DEF getchar_Blocked, CDC_Device_USBTask, getchar_Again, Goto, Return,
           Call, CallRecords, Notifying
  <2> QED BY <2>1, <2>2, <2>3, <2>4, <2>5, <2>6, <2>7, <2>8 DEF Code
<1> QED BY <1>1, <1>2, <1>3, NoteKept


\* A notification waits for its endpoint: while it does, the bank is with the
\* host or can be written.
LEMMA NoteWaits ==
  ASSUME IInv, NoteInv, call.op \in Notifying,
         Endpoint_SelectEndpoint \/ WaitPoll \/ WaitCheck
  PROVE  NoteInv'
<1>0. /\ call \in CallRecords /\ Types /\ UNCHANGED <<bank, heard>>
      /\ disturbed => disturbed'
  BY DEF IInv, Types, Endpoint_SelectEndpoint, WaitPoll, WaitCheck, Failed,
         sending
<1>a. Note' = Note
  BY <1>0 DEF Note
<1>b. ASSUME call'.op = call.op, call'.from = call.from, call'.len = call.len,
             ~disturbed' => ~disturbed /\ (NoteAtRest' \/ NoteUnderWay')
      PROVE  NoteInv'
  BY <1>0, <1>a, <1>b DEF NoteInv, NoteBytes
<1>1. CASE Endpoint_SelectEndpoint
  <2>1. call.at = "select" /\ disturbed' = disturbed /\ call' = Waiting(call, "turn")
    BY <1>1 DEF Endpoint_SelectEndpoint, Notifying, Streams
  <2>2. /\ call'.op = call.op /\ call'.from = call.from /\ call'.len = call.len
        /\ call'.left = call.left /\ call'.at = "poll"
    BY <2>1 DEF Waiting
  <2>3. ~disturbed => NoteAtRest'
    BY <1>0, <1>a, <2>1, <2>2 DEF NoteInv, NoteAtRest, NoteUnderWay, Waits
  <2> QED BY <1>b, <2>1, <2>2, <2>3
<1>2. CASE WaitPoll
  <2>1. PICK b \in BOOLEAN :
          /\ EndpointReady(b)
          /\ call' = [call EXCEPT !.at = IF b THEN call.then ELSE "check"]
    BY <1>2 DEF WaitPoll, Goto
  <2>2. call.at = "poll" /\ call.then = "turn" /\ disturbed' = disturbed
    BY <1>2
       DEF WaitPoll, IInv, CallShape, Waits, After, Notifying, Streams
  <2>3. /\ call'.op = call.op /\ call'.from = call.from /\ call'.len = call.len
        /\ call'.left = call.left /\ call'.at = IF b THEN "turn" ELSE "check"
    BY <1>0, <2>1, <2>2 DEF CallRecords
  <2>4. (b /\ ~disturbed) => ~bank["NOTIF"].busy
    BY <2>1, <2>2
       DEF EndpointReady, IInv, Selected, EndpointOf, Notifying, INs
  <2>5. NoteAtRest \/ NoteUnderWay => NoteAtRest' \/ NoteUnderWay' \/ disturbed
    <3>1. CASE ~b
      BY <1>0, <1>a, <2>2, <2>3, <3>1 DEF NoteAtRest, NoteUnderWay, Waits
    <3>2. CASE b /\ ~disturbed
      <4>1. CASE NoteUnderWay
        BY <1>0, <1>a, <2>2, <2>3, <2>4, <3>2, <4>1 DEF NoteUnderWay, Waits
      <4>2. CASE NoteAtRest
        <5>1. call.op = "Header" /\ call.left = HeaderBytes
                /\ Len(heard) + Len(Note) = 0
          BY <2>4, <3>2, <4>2 DEF NoteAtRest
        <5>2. call.from = 0 /\ call.len = HeaderBytes
          BY <5>1 DEF NoteInv
        <5>3. Len(heard) + Len(Note) = call.from + (call.len - call.left)
          BY <5>1, <5>2, SizesAssumption
        <5>4. NoteUnderWay'
          BY <1>0, <1>a, <2>3, <2>4, <3>2, <5>1, <5>3
             DEF NoteUnderWay, Notifying
        <5> QED BY <5>4
      <4> QED BY <4>1, <4>2
    <3> QED BY <3>1, <3>2
  <2> QED BY <1>b, <2>2, <2>3, <2>5 DEF NoteInv
<1>3. CASE WaitCheck
  <2>1. CASE Failed
    <3>1. disturbed' /\ (call' = SendState \/ (call.op = "State" /\ call' = [call EXCEPT !.at = "clear"]))
      BY <2>1 DEF Failed, Notifying, Resumable, Reading
    <3>2. CASE call' = SendState
      <4>1. call'.op = "State" /\ call'.from = HeaderBytes
              /\ call'.len = StateBytes
        BY <3>2 DEF SendState, Waiting, Call
      <4> QED BY <1>0, <3>1, <4>1 DEF NoteInv
    <3>3. CASE call.op = "State" /\ call' = [call EXCEPT !.at = "clear"]
      <4>1. call'.op = call.op /\ call'.from = call.from
              /\ call'.len = call.len
        BY <1>0, <3>3 DEF CallRecords
      <4> QED BY <1>b, <3>1, <4>1
    <3> QED BY <3>1, <3>2, <3>3
  <2>2. CASE ~Failed
    <3>1. /\ \E r : call' = [call EXCEPT !.at = "poll", !.moved = FALSE,
                                         !.rem = r]
          /\ disturbed' = disturbed /\ call.at = "check"
      BY <1>3, <2>2 DEF WaitCheck
    <3>2. /\ call'.op = call.op /\ call'.len = call.len
          /\ call'.left = call.left /\ call'.from = call.from
          /\ call'.at = "poll"
      BY <1>0, <3>1 DEF CallRecords
    <3>3. NoteAtRest \/ NoteUnderWay => NoteAtRest' \/ NoteUnderWay'
      BY <1>0, <1>a, <3>1, <3>2 DEF NoteAtRest, NoteUnderWay, Waits
    <3> QED BY <1>b, <3>1, <3>2, <3>3 DEF NoteInv
  <2> QED BY <2>1, <2>2
<1> QED BY <1>1, <1>2, <1>3

\* A byte of a notification goes to the end of the bank it belongs to.
LEMMA NoteWritten ==
  ASSUME Types, NEW byte \in Nat, Write_8(byte), sel = "NOTIF",
         ~bank["NOTIF"].busy, Len(Note) < NotificationBank
  PROVE  /\ Note' = Append(Note, byte) /\ bank'["NOTIF"].busy = FALSE
         /\ Note \in Seq(Nat)
<1>1. Note \in Seq(Nat) /\ Append(Note, byte) \in Seq(Nat)
  BY DEF Types, INs, Note
<1>2. bank' = [bank EXCEPT !["NOTIF"].bytes = Append(Note, byte)]
  BY Zenon DEF Write_8, INs, SizeOf, Note
<1>3. bank \in [INs -> [bytes : Seq(Nat), busy : BOOLEAN]] /\ "NOTIF" \in INs
  BY DEF Types, INs
<1>4. Note' = Append(Note, byte) /\ bank'["NOTIF"].busy = bank["NOTIF"].busy
  BY <1>2, <1>3 DEF Note
<1>5. bank["NOTIF"].busy \in BOOLEAN
  BY <1>3
<1> QED BY <1>1, <1>4, <1>5

\* A turn of one of a notification's two streams.
LEMMA NoteTurn ==
  ASSUME IInv, NoteInv, Ranges, call.op \in Notifying, WriteStreamTurn
  PROVE  NoteInv'
<1>0. /\ call \in CallRecords /\ Types /\ call.left =< call.len
      /\ UNCHANGED <<heard, disturbed>> /\ call.at = "turn"
      /\ call.len \in Nat /\ call.left \in Nat /\ call.from \in Nat
      /\ HeaderBytes \in Nat /\ StateBytes \in Nat /\ NotificationBank \in Nat
  BY SizesAssumption
     DEF IInv, Types, WriteStreamTurn, StreamTurn, CallRecords
<1>a. Note \in Seq(Nat) /\ Len(Note) \in Nat
      /\ Len(Note) =< NotificationBank /\ bank["NOTIF"].busy \in BOOLEAN
  BY <1>0 DEF Types, INs, Note, Ranges
<1>h. heard \in Seq(Nat) /\ Len(heard) \in Nat
  BY DEF NoteInv
<1>b. ~disturbed => sel = "NOTIF"
  BY <1>0 DEF IInv, Selected, EndpointOf, Notifying
<1>c. ~disturbed => NoteBytes /\ NoteUnderWay /\ ~bank["NOTIF"].busy
  BY <1>0 DEF NoteInv, NoteAtRest, NoteUnderWay, Waits
<1>d. /\ call.op = "Header" => call.from = 0 /\ call.len = HeaderBytes
      /\ call.op = "State" => call.from = HeaderBytes /\ call.len = StateBytes
  BY DEF NoteInv
<1>1. CASE call.left = 0
  <2>1. StreamDone /\ bank' = bank
    BY <1>1 DEF WriteStreamTurn, StreamTurn
  <2>2. Note' = Note
    BY <2>1 DEF Note
  <2>3. NoteBytes => NoteBytes'
    BY <1>0, <2>2 DEF NoteBytes
  <2>4. CASE call.op = "Header"
    <3>1. call' = SendState
      BY <2>1, <2>4 DEF StreamDone
    <3>2. /\ call'.op = "State" /\ call'.from = HeaderBytes
          /\ call'.len = StateBytes /\ call'.left = StateBytes
          /\ call'.at = "poll"
      BY <3>1 DEF SendState, Waiting, Call
    <3>3. NoteUnderWay /\ ~bank["NOTIF"].busy => NoteUnderWay'
      <4>1. NoteUnderWay => Len(heard) + Len(Note) = HeaderBytes
        BY <1>0, <1>1, <1>d, <2>4 DEF NoteUnderWay
      <4> QED BY <1>0, <2>1, <2>2, <3>2, <4>1 DEF NoteUnderWay, Notifying, Waits
    <3> QED BY <1>0, <1>c, <2>3, <3>2, <3>3 DEF NoteInv
  <2>5. CASE call.op = "State"
    <3>1. call' = [call EXCEPT !.at = "clear"]
      BY <2>1, <2>5 DEF StreamDone
    <3>2. /\ call'.op = "State" /\ call'.from = call.from
          /\ call'.len = call.len /\ call'.left = 0 /\ call'.at = "clear"
      BY <1>0, <1>1, <2>5, <3>1 DEF CallRecords
    <3>3. NoteUnderWay /\ ~bank["NOTIF"].busy => NoteUnderWay'
      BY <1>0, <1>1, <2>1, <2>2, <3>2 DEF NoteUnderWay, Notifying
    <3> QED BY <1>0, <1>c, <1>d, <2>3, <2>5, <3>2, <3>3 DEF NoteInv
  <2> QED BY <2>4, <2>5 DEF Notifying
<1>2. CASE call.left # 0
  <2>1. PICK b \in BOOLEAN :
          /\ ReadWriteAllowed(b)
          /\ IF b THEN /\ Write_8(NextByte)
                       /\ call' = [call EXCEPT !.left = @ - 1]
             ELSE ClearIN /\ call' = Waiting(call, "turn")
    BY <1>2, Zenon DEF WriteStreamTurn, StreamTurn, Notifying, Resumable
  <2>2. CASE b
    <3>1. /\ call'.op = call.op /\ call'.from = call.from
          /\ call'.len = call.len /\ call'.left = call.left - 1
          /\ call'.at = "turn"
      BY <1>0, <2>1, <2>2 DEF CallRecords
    <3>2. CASE ~disturbed
      <4>1. ~bank["NOTIF"].busy /\ Len(Note) < NotificationBank
        BY <1>b, <2>1, <2>2, <3>2 DEF ReadWriteAllowed, INs, SizeOf, Note
      <4>2. NextByte = Len(heard) + Len(Note) + 1 /\ NextByte \in Nat
        BY <1>0, <1>a, <1>h, <1>c, <3>2 DEF NextByte, NoteUnderWay
      <4>3. Note' = Append(Note, NextByte) /\ bank'["NOTIF"].busy = FALSE
        BY <1>0, <1>b, <2>1, <2>2, <3>2, <4>1, <4>2, NoteWritten
      <4>4. Len(Note') = Len(Note) + 1
        BY <1>a, <4>3
      <4>5. \A i \in 1 .. Len(Note') : Note'[i] = Len(heard) + i
        <5>1. Note' = Append(Note, Len(heard) + Len(Note) + 1)
          BY <4>2, <4>3
        <5>2. \A i \in 1 .. Len(Note) : Note[i] = Len(heard) + i
          BY <1>c, <3>2 DEF NoteBytes
        <5> QED BY <1>a, <1>h, <5>1, <5>2, OneByteMore, Zenon
      <4>6. NoteBytes'
        BY <1>0, <1>c, <3>2, <4>5 DEF NoteBytes
      <4>7. Len(heard) + Len(Note') = call.from + (call.len - (call.left - 1))
        BY <1>0, <1>a, <1>h, <4>2, <4>4 DEF NextByte
      <4>8. NoteUnderWay'
        BY <1>0, <3>1, <4>3, <4>7 DEF NoteUnderWay
      <4> QED BY <1>0, <1>d, <1>h, <3>1, <4>6, <4>8 DEF NoteInv
    <3>3. CASE disturbed
      BY <1>0, <1>d, <1>h, <3>1, <3>3 DEF NoteInv
    <3> QED BY <3>2, <3>3
  <2>3. CASE ~b
    <3>1. /\ call'.op = call.op /\ call'.from = call.from
          /\ call'.len = call.len /\ call'.left = call.left
          /\ call'.at = "poll"
      BY <2>1, <2>3 DEF Waiting
    <3>2. CASE ~disturbed
      <4>1. bank' = [bank EXCEPT !["NOTIF"].busy = TRUE]
        BY <1>b, <2>1, <2>3, <3>2 DEF ClearIN, INs
      <4>2. Note' = Note /\ bank'["NOTIF"].busy
        BY <1>0, <4>1 DEF Types, INs, Note
      <4>3. ~(Len(Note) < NotificationBank)
        BY <1>b, <1>c, <2>1, <2>3, <3>2
           DEF ReadWriteAllowed, INs, SizeOf, Note
      <4>4. Len(Note) = NotificationBank
        BY <1>0, <1>a, <4>3
      <4>5. NoteBytes' /\ NoteUnderWay'
        BY <1>0, <1>c, <3>1, <3>2, <4>2, <4>4
           DEF NoteBytes, NoteUnderWay, Waits
      <4> QED BY <1>0, <1>d, <1>h, <3>1, <4>5 DEF NoteInv
    <3>3. CASE disturbed
      BY <1>0, <1>d, <1>h, <3>1, <3>3 DEF NoteInv
    <3> QED BY <3>2, <3>3
  <2> QED BY <2>2, <2>3
<1> QED BY <1>1, <1>2

\* The last packet is handed over, and the notification is complete.
LEMMA NoteSent ==
  ASSUME IInv, NoteInv, NotificationClear
  PROVE  NoteInv'
<1>1. /\ call.op = "State" /\ call.at = "clear" /\ ClearIN /\ call' = NoCall
      /\ UNCHANGED <<heard, disturbed>> /\ Types
  BY DEF NotificationClear, Return, IInv
<1>2. call'.op = "none"
  BY <1>1 DEF NoCall, Call
<1>3. CASE ~disturbed
  <2>1. sel = "NOTIF"
    BY <1>1, <1>3 DEF IInv, Selected, EndpointOf
  <2>2. bank' = [bank EXCEPT !["NOTIF"].busy = TRUE]
    BY <1>1, <2>1 DEF ClearIN, INs
  <2>3. Note' = Note /\ bank'["NOTIF"].busy
    BY <1>1, <2>2 DEF Types, INs, Note
  <2>4. NoteBytes /\ NoteUnderWay
    BY <1>1, <1>3 DEF NoteInv, NoteAtRest, Notifying
  <2>5. Len(heard) + Len(Note) = HeaderBytes + StateBytes
    BY <1>1, <2>4, SizesAssumption DEF NoteUnderWay, NoteInv
  <2>6. NoteBytes' /\ NoteAtRest'
    BY <1>1, <1>2, <2>3, <2>4, <2>5
       DEF NoteBytes, NoteAtRest, Notifying
  <2> QED BY <1>1, <1>2, <2>6 DEF NoteInv
<1>4. CASE disturbed
  BY <1>1, <1>2, <1>4 DEF NoteInv
<1> QED BY <1>3, <1>4

\* What a step of the program, or one that leaves endpoint, host and call in
\* their places, does to a notification.
LEMMA ApplicationNote ==
  ASSUME IInv, NoteInv, Application
  PROVE  NoteInv'
<1>0. /\ call.at = "idle" /\ UNCHANGED <<bank, heard, disturbed>>
      /\ \E op, from, len, left :
           /\ call' = Call(op, "select", from, len, left)
           /\ op # "State"
           /\ op = "Header" =>
                from = 0 /\ len = HeaderBytes /\ left = HeaderBytes
  <2>1. CASE CDC_Device_SendData \/ CDC_Device_SendByte \/ CDC_Device_Flush
               \/ CDC_Device_SendControlLineStateChange
    BY <2>1
       DEF CDC_Device_SendData, CDC_Device_SendByte, CDC_Device_Flush,
           CDC_Device_SendControlLineStateChange, Begin
  <2>2. CASE \E op \in Resumable : Endpoint_Write_Stream(op)
    BY <2>2 DEF Endpoint_Write_Stream, Begin, Resumable
  <2>3. CASE \/ \E op \in Receiving : Receive(op)
             \/ \E op \in Reading : ReadStream(op)
    BY <2>3 DEF Receive, ReadStream, Begin, Receiving, Reading
  <2> QED BY <2>1, <2>2, <2>3 DEF Application
<1>1. call.op \notin Notifying
  BY <1>0
     DEF IInv, CallShape, Places, Notifying, Data, Reading, Resumable, Flushing
<1>2. PICK op, from, len, left :
        /\ call' = Call(op, "select", from, len, left)
        /\ op # "State"
        /\ op = "Header" =>
             from = 0 /\ len = HeaderBytes /\ left = HeaderBytes
  BY <1>0
<1>3. /\ call'.op = op /\ call'.from = from /\ call'.len = len
      /\ call'.left = left /\ call'.at = "select"
  BY <1>2 DEF Call
<1>4. Note' = Note /\ bank' = bank
  BY <1>0 DEF Note
<1>5. ~disturbed => NoteAtRest /\ NoteBytes
  BY <1>1 DEF NoteInv, NoteUnderWay
<1>6. ~disturbed => NoteAtRest' /\ NoteBytes'
  BY <1>0, <1>2, <1>3, <1>4, <1>5 DEF NoteAtRest, NoteBytes, Notifying
<1> QED BY <1>0, <1>2, <1>3, <1>6 DEF NoteInv

\* What is not about the endpoint leaves a notification as it is.
LEMMA NoteUntouched ==
  ASSUME Types, NoteInv, UNCHANGED heard, disturbed => disturbed',
         ~disturbed' => bank'["NOTIF"] = bank["NOTIF"],
         call' = call \/ StartOfFrame
  PROVE  NoteInv'
<1>1. /\ call'.op = call.op /\ call'.from = call.from /\ call'.len = call.len
      /\ call'.left = call.left /\ call'.at = call.at
  BY DEF StartOfFrame, Types, CallRecords
<1>2. CASE disturbed'
  BY <1>1, <1>2 DEF NoteInv
<1>3. CASE ~disturbed'
  <2>1. ~disturbed /\ NoteBytes /\ (NoteAtRest \/ NoteUnderWay)
    BY <1>3 DEF NoteInv
  <2>2. bank'["NOTIF"] = bank["NOTIF"] /\ Note' = Note
    BY <1>3 DEF Note
  <2>3. NoteBytes' /\ (NoteAtRest' \/ NoteUnderWay')
    BY <1>1, <2>1, <2>2 DEF NoteBytes, NoteAtRest, NoteUnderWay
  <2> QED BY <1>1, <2>3 DEF NoteInv
<1> QED BY <1>2, <1>3

\* The host takes a packet: a full one is not the last, a short one is.
LEMMA NoteHeard ==
  ASSUME Types, NoteInv, Ranges, HostHears
  PROVE  NoteInv'
<1>0. /\ bank["NOTIF"].busy /\ UNCHANGED <<call, disturbed>>
      /\ bank' = [bank EXCEPT !["NOTIF"] = Empty]
      /\ heard' = IF disturbed \/ Len(Note) < NotificationBank
                  THEN <<>> ELSE heard \o Note
  BY DEF HostHears, Note
<1>1. Note \in Seq(Nat) /\ heard \in Seq(Nat) /\ NotificationBank \in Nat
      /\ Len(Note) \in Nat /\ Len(heard) \in Nat
      /\ HeaderBytes \in Nat /\ StateBytes \in Nat
      /\ Len(Note) =< NotificationBank
  BY SizesAssumption DEF Types, INs, Note, NoteInv, Ranges
<1>2. bank'["NOTIF"].busy = FALSE /\ Note' = <<>>
  BY <1>0 DEF Types, INs, Note, Empty
<1>3. Len(Note') = 0
  BY <1>2
<1>4. CASE disturbed
  <2>1. heard' \in Seq(Nat)
    BY <1>0, <1>4
  <2> QED BY <1>0, <1>4, <2>1 DEF NoteInv
<1>5. CASE ~disturbed
  <2>0. NoteBytes /\ (NoteAtRest \/ NoteUnderWay)
    BY <1>5 DEF NoteInv
  <2>1. CASE Len(Note) < NotificationBank
    <3>1. heard' = <<>> /\ heard' \in Seq(Nat) /\ Len(heard') = 0
      BY <1>0, <2>1
    <3>2. NoteAtRest
      BY <1>0, <1>1, <2>0, <2>1 DEF NoteUnderWay
    <3>3. NoteAtRest'
      BY <1>0, <1>2, <1>3, <3>1, <3>2 DEF NoteAtRest
    <3>4. NoteBytes'
      BY <1>1, <1>3, <3>1, NotWhole DEF NoteBytes
    <3> QED BY <1>0, <3>1, <3>3, <3>4 DEF NoteInv
  <2>2. CASE ~(Len(Note) < NotificationBank)
    <3>1. Len(Note) = NotificationBank /\ heard' = heard \o Note
      BY <1>0, <1>1, <1>5, <2>2
    <3>2. WholePackets(Len(heard) + Len(Note))
      BY <1>1, <2>0, <3>1, OnePacketMore DEF NoteBytes
    <3>3. ~NoteAtRest
      <4>1. Len(heard) + Len(Note) # HeaderBytes + StateBytes
        BY <3>2, NotWhole
      <4> QED BY <1>0, <4>1 DEF NoteAtRest
    <3>4. NoteUnderWay
      BY <2>0, <3>3
    <3>5. /\ heard' \in Seq(Nat) /\ Len(heard') = Len(heard) + Len(Note)
          /\ \A i \in 1 .. Len(heard') : heard'[i] = i
      BY <1>1, <2>0, <3>1, MoreBytes DEF NoteBytes
    <3>6. NoteBytes'
      BY <1>3, <3>2, <3>5 DEF NoteBytes
    <3>7. Len(heard') + Len(Note') = Len(heard) + Len(Note)
      BY <1>1, <1>3, <3>5
    <3>8. NoteUnderWay'
      BY <1>0, <1>2, <3>4, <3>7 DEF NoteUnderWay
    <3> QED BY <1>0, <3>5, <3>6, <3>8 DEF NoteInv
  <2> QED BY <2>1, <2>2
<1> QED BY <1>4, <1>5

\* Emptied banks disturb a notification, or there is none.
LEMMA NoteEmptied ==
  ASSUME IInv, NoteInv, BanksEmptied, UNCHANGED <<heard, call>>
  PROVE  NoteInv'
<1>0. Types /\ "NOTIF" \in INs
  BY DEF IInv, INs
<1>1. CASE disturbed'
  BY <1>1 DEF NoteInv
<1>2. CASE ~disturbed'
  <2>1. ~disturbed /\ bank["NOTIF"] = Empty
    BY <1>0, <1>2 DEF BanksEmptied
  <2>2. bank'["NOTIF"] = Empty
    BY <1>0 DEF BanksEmptied
  <2> QED BY <1>0, <2>1, <2>2, NoteUntouched
<1> QED BY <1>1, <1>2

\* The host and the interrupts.
LEMMA EnvironmentNote ==
  ASSUME IInv, NoteInv, Ranges, Environment
  PROVE  NoteInv'
<1>0. Types /\ disturbed \in BOOLEAN
  BY DEF IInv, Types
<1>1. CASE HostHears
  BY <1>0, <1>1, NoteHeard
<1>2. CASE HostTakes \/ HostClearsHalt
  <2>1. /\ UNCHANGED <<heard, call>>
        /\ bank' = [bank EXCEPT !["IN"] = Empty]
    BY <1>2 DEF HostTakes, HostClearsHalt, Endpoint_ResetEndpoint
  <2>2. disturbed => disturbed'
    <3>1. HostTakes => disturbed' = disturbed
      BY DEF HostTakes
    <3>2. HostClearsHalt => disturbed' = (disturbed \/ bank["IN"] # Empty)
      BY DEF HostClearsHalt
    <3> QED BY <1>2, <3>1, <3>2, Zenon
  <2>3. bank'["NOTIF"] = bank["NOTIF"]
    BY <1>0, <2>1 DEF Types, INs
  <2> QED BY <1>0, <2>1, <2>2, <2>3, NoteUntouched
<1>3. CASE HostSends \/ Suspend \/ WakeUp \/ HostSetsLineEncoding \/ HostHalts
             \/ StartOfFrame
  <2>1. /\ UNCHANGED <<heard, disturbed, bank>>
        /\ call' = call \/ StartOfFrame
    BY <1>3
       DEF HostSends, Suspend, WakeUp, HostSetsLineEncoding, HostHalts,
           StartOfFrame, sending
  <2> QED BY <1>0, <2>1, NoteUntouched
<1>4. CASE BusReset
  BY <1>4, NoteEmptied DEF BusReset
<1>5. CASE HostConfigures
  <2>1. UNCHANGED <<heard, call>>
        /\ (BanksEmptied \/ UNCHANGED <<bank, disturbed>>)
    BY <1>5 DEF HostConfigures
  <2>2. CASE BanksEmptied
    BY <2>1, <2>2, NoteEmptied
  <2>3. CASE UNCHANGED <<bank, disturbed>>
    BY <1>0, <2>1, <2>3, NoteUntouched
  <2> QED BY <2>1, <2>2, <2>3
<1> QED BY <1>1, <1>2, <1>3, <1>4, <1>5 DEF Environment

\* Every step keeps a notification whole.
LEMMA NoteStep ==
  ASSUME IInv, NoteInv, Ranges, [Next]_vars
  PROVE  NoteInv'
<1>0. Types
  BY DEF IInv
<1>1. CASE Application
  BY <1>1, ApplicationNote
<1>2. CASE Environment
  BY <1>2, EnvironmentNote
<1>3. CASE Code /\ call.op \notin Notifying
  BY <1>3, OtherCodeNote
<1>4. CASE Code /\ call.op \in Notifying
  <2>1. call.at \in {"select", "turn", "clear"} \cup Waits
    BY <1>4
       DEF IInv, CallShape, Places, Notifying, Data, Reading, Resumable,
           Flushing, Waits
  <2>2. \/ Endpoint_SelectEndpoint \/ WaitPoll \/ WaitCheck
        \/ WriteStreamTurn \/ NotificationClear
    BY <1>4, <2>1
       DEF Code, NullStreamTurn, ReadStreamTurn, DiscardStreamTurn, StreamTurn,
           SendByteRoom, SendByteClear, SendByteWrite, FlushBytes, FlushFull,
           FlushClear, FlushLast, Received, BytesReceivedCount,
           ReceiveByteRead, ReceiveByteRelease, getchar_Blocked,
           CDC_Device_USBTask, getchar_Again, Waits, Notifying, Flushing
  <2> QED BY <1>4, <2>2, NoteWaits, NoteTurn, NoteSent
<1>5. CASE UNCHANGED vars
  <2>1. UNCHANGED <<heard, disturbed, bank, call>>
    BY <1>5 DEF vars, sending
  <2> QED BY <1>0, <2>1, NoteUntouched
<1> QED BY <1>1, <1>2, <1>3, <1>4, <1>5 DEF Next

\* The notification's bytes are accounted for in every behaviour.
THEOREM NoteInvariant == Spec => []NoteInv
<1>1. Init => NoteInv
  <2> SUFFICES ASSUME Init PROVE NoteInv
    OBVIOUS
  <2>1. call.op = "none" /\ heard = <<>> /\ heard \in Seq(Nat)
        /\ Len(heard) = 0
    BY DEF Init, NoCall, Call
  <2>2. bank["NOTIF"] = Empty
    BY DEF Init, INs
  <2>3. bank["NOTIF"].busy = FALSE /\ Len(Note) = 0
    BY <2>2 DEF Empty, Note
  <2>4. NoteBytes
    BY <2>1, <2>3, NotWhole DEF NoteBytes
  <2>5. NoteAtRest
    BY <2>1, <2>3 DEF NoteAtRest, Notifying
  <2> QED BY <2>1, <2>4, <2>5 DEF NoteInv
<1>2. IInv /\ NoteInv /\ Ranges /\ [Next]_vars => NoteInv'
  BY NoteStep
<1> QED BY <1>1, <1>2, InductiveInvariant, RangeInvariant, PTL DEF Spec

\* A notification reaches the host whole, header and state, or not at all, as
\* long as no call failed: every packet but the last is full, so the host never
\* takes the end of one for the end of the notification.
THEOREM AlwaysNotificationWhole == Spec => []NotificationWhole
<1>1. IInv /\ NoteInv => NotificationWhole
  <2> SUFFICES ASSUME IInv, NoteInv, ~disturbed PROVE NotificationWhole
    BY DEF NotificationWhole
  <2> DEFINE bytes == heard \o Note
  <2>0. Note \in Seq(Nat) /\ heard \in Seq(Nat) /\ Types
    BY DEF IInv, Types, INs, Note, NoteInv
  <2>1. NoteBytes /\ (NoteAtRest \/ NoteUnderWay)
    BY DEF NoteInv
  <2>2. /\ bytes \in Seq(Nat) /\ Len(bytes) = Len(heard) + Len(Note)
        /\ \A i \in 1 .. Len(bytes) : bytes[i] = i
    BY <2>0, <2>1, MoreBytes DEF NoteBytes
  <2>3. DOMAIN bytes = 1 .. Len(bytes)
    BY <2>2
  <2>4. (bank["NOTIF"].busy /\ Len(Note) < NotificationBank) => NoteAtRest
    BY <2>1, SizesAssumption DEF NoteUnderWay
  <2>5. (bank["NOTIF"].busy /\ Len(Note) < NotificationBank)
          => Len(heard) + Len(Note) = HeaderBytes + StateBytes
    BY <2>4 DEF NoteAtRest
  <2>6. /\ \A i \in DOMAIN bytes : bytes[i] = i
        /\ (bank["NOTIF"].busy /\ Len(Note) < NotificationBank)
             => Len(bytes) = HeaderBytes + StateBytes
    BY <2>2, <2>3, <2>5
  <2> QED BY <2>6 DEF NotificationWhole, Note
<1> QED BY <1>1, InductiveInvariant, NoteInvariant, PTL

\* A stream function returns the code of a failed wait as its own (the first
\* lines of Endpoint_Write_Stream_LE and its kin): each code of the wait is the
\* stream code of the same name, no other, and only success is zero.
THEOREM WaitCodesAreStreamCodes ==
  LET wait == Endpoint_WaitUntilReady_ErrorCodes_t
      stream == Endpoint_Stream_RW_ErrorCodes_t
  IN /\ DOMAIN wait \subseteq DOMAIN stream
     /\ \A name \in DOMAIN wait, other \in DOMAIN stream :
          wait[name] = stream[other] <=> name = other
     /\ \A name \in DOMAIN stream : stream[name] = 0 <=> name = "NoError"
BY DEF Endpoint_WaitUntilReady_ErrorCodes_t, Endpoint_Stream_RW_ErrorCodes_t
=============================================================================
