---------------------------- MODULE ReceivedNpdu ----------------------------
(***************************************************************************)
(* What is left of a received datagram when the virtual link layer has     *)
(* taken its header off: the end of bip_receive() and of bip6_receive().   *)
(***************************************************************************)
EXTENDS Naturals

CONSTANTS MaxNpdu,      \* the size of the caller's buffer
          MaxOffset,    \* the longest header bvlc_handler() and its like report
          MaxLength,    \* the longest datagram
          U16           \* 2^16: npdu_len is a uint16_t

ASSUME NpduAssumption ==
    /\ MaxNpdu \in Nat /\ MaxOffset \in Nat /\ MaxLength \in Nat
    /\ U16 \in Nat /\ MaxNpdu + MaxOffset < U16

\* zsock_recvfrom() cuts a longer datagram off.
Received(n) == IF n <= MaxNpdu THEN n ELSE MaxNpdu

\* The length of what is shifted to the front of the buffer, 0 if nothing is passed on.
NpduLengthUnchecked(received, offset) ==
    IF offset > 0 THEN (received + U16 - offset) % U16 ELSE 0
NpduLength(received, offset) ==
    LET length == (received + U16 - offset) % U16
    IN  IF offset > 0 /\ length <= MaxNpdu THEN length ELSE 0

\* The bytes passed on: the length of them, from which offset of how many received.
Nothing == [received |-> 0, offset |-> 0, length |-> 0]
Passed(received, offset) ==
    IF NpduLength(received, offset) = 0 THEN Nothing
    ELSE [received |-> received, offset |-> offset, length |-> NpduLength(received, offset)]
NpduType == [received : 0..MaxNpdu, offset : 0..MaxOffset, length : 0..MaxNpdu]
=============================================================================
