----------------------------- MODULE ByteChannel -----------------------------
(***************************************************************************)
(* What the sending half of the CDC driver promises: a channel of bounded  *)
(* capacity that delivers the program's bytes in order, each at most once, *)
(* and every one of them as long as it is intact.  Bytes are numbered in   *)
(* the order the program sends them.                                       *)
(***************************************************************************)
EXTENDS Integers, Sequences

CONSTANT Capacity

VARIABLES
  sent,    \* the last byte the program has dealt with
  pipe,    \* bytes accepted and not yet delivered
  got,     \* the last byte delivered
  intact   \* nothing has been skipped or lost, no call has failed

channel == <<sent, pipe, got, intact>>

Init == sent = 0 /\ pipe = <<>> /\ got = 0 /\ intact = TRUE

\* The program's next byte is accepted.
Put ==
  /\ Len(pipe) < Capacity
  /\ pipe' = Append(pipe, sent + 1) /\ sent' = sent + 1
  /\ UNCHANGED <<got, intact>>

\* The host takes all that is there, as one packet.
Take ==
  /\ pipe # <<>> /\ got' = pipe[Len(pipe)] /\ pipe' = <<>>
  /\ UNCHANGED <<sent, intact>>

\* A call fails or an interrupt empties the endpoint: what was accepted may be
\* lost, and the program may have gone past bytes never accepted.
Disturb ==
  /\ intact' = FALSE
  /\ pipe' \in {pipe, <<>>}
  /\ sent' \in Nat /\ sent' >= sent
  /\ UNCHANGED got

Next == Put \/ Take \/ Disturb

Spec == Init /\ [][Next]_channel

-----------------------------------------------------------------------------
\* The bytes in the channel are in order, behind those delivered and not past
\* those sent: none is delivered twice and none late.
Ordered ==
  /\ got =< sent
  /\ \A i \in DOMAIN pipe : got < pipe[i] /\ pipe[i] =< sent
  /\ \A i, j \in DOMAIN pipe : i < j => pipe[i] < pipe[j]

\* An intact channel has delivered, or still holds, every byte sent.
Complete ==
  intact => /\ sent = got + Len(pipe)
            /\ \A i \in DOMAIN pipe : pipe[i] = got + i
=============================================================================
