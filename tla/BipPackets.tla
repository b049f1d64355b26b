----------------------------- MODULE BipPackets -----------------------------
(***************************************************************************)
(* The packets of the BACnet/IP datalink, over the sockets of BipDatalink. *)
(* The network puts datagrams into the two sockets; the main loop takes    *)
(* them by bip_receive() once the port is initialised, the unicast socket  *)
(* first.  Without a socket it returns at once.                            *)
(*                                                                         *)
(* What is left of a datagram is in ReceivedNpdu; sending changes nothing  *)
(* here.                                                                   *)
(***************************************************************************)
EXTENDS BipDatalink

VARIABLE readable     \* the sockets select() would report: a datagram waits

allVars == <<vars, readable>>

-----------------------------------------------------------------------------
\* A step of the datalink; what waits in a socket that is closed is lost, and what
\* waits in one the datalink has lost track of is never read.
Linked(Step) ==
    /\ Step
    /\ readable' = readable \cap {uni', bcast'}

Arrive(d) ==
    /\ d # -1
    /\ readable' = readable \cup {d}
    /\ UNCHANGED vars

\* The socket bip_receive() takes a datagram from, if it is readable.
ReceiveFromUnicastOnly == uni
ReceiveFrom == IF uni \in readable THEN uni ELSE bcast

\* bip_receive(); if another datagram waits behind the one read, it arrives next.
Receive ==
    /\ pc = "idle" /\ port
    /\ uni # -1
    /\ ReceiveFrom \in readable
    /\ readable' = readable \ {ReceiveFrom}
    /\ UNCHANGED vars

-----------------------------------------------------------------------------
PacketInit == Init /\ readable = {}

PacketNext == Linked(Next) \/ Arrive(uni) \/ Arrive(bcast) \/ Receive

\* The main loop goes on, in bip_init() and with bip_receive().
PacketSpec ==
    /\ PacketInit /\ [][PacketNext]_allVars
    /\ WF_allVars(Linked(MainStep)) /\ WF_allVars(Linked(Deliver)) /\ WF_allVars(Receive)

-----------------------------------------------------------------------------
\* The types of the variables: only sockets of the datalink are read.
PacketTypes == TypeOK /\ readable \subseteq {uni, bcast} \ {-1}

\* A broadcast that waits is read, or its socket closed, if the unicast socket, which
\* goes first, falls silent.  Nothing holds without that: it is served first for ever.
BroadcastHeard ==
    <>[](uni \notin readable) => [](bcast \in readable => <>(bcast \notin readable))
=============================================================================
