---------------------------- MODULE Bip6Datalink ----------------------------
(***************************************************************************)
(* The BACnet/IPv6 datalink: bip6_init() copies the address in one slot of *)
(* the interface's table, whatever is there, opens a socket, joins the     *)
(* multicast group and binds the socket, outside the task lock and in      *)
(* steps; bip6_cleanup() closes it.  The stack may set addresses and ports *)
(* meanwhile.  One socket sends and receives; without one bip6_receive()   *)
(* and bip6_send_mpdu() return at once.                                    *)
(*                                                                         *)
(* Descriptors are numbers shared with the rest of the system.  Datagrams  *)
(* are as in BipPackets.                                                   *)
(***************************************************************************)
EXTENDS Integers, ReceivedNpdu

CONSTANTS Descriptors,   \* the socket descriptors
          Addresses,     \* unicast addresses
          Groups,        \* multicast addresses
          SiteLocal,     \* BIP6_MULTICAST_SITE_LOCAL with its group id
          ConfigGroup,   \* CONFIG_BACDL_BIP6_MCAST_ADDRESS, or Unset if it does not parse
          Unset,         \* the address of all zeros
          Ports,         \* UDP ports, none of which is 0
          DefaultPort    \* 0xBAC0

ASSUME Bip6Assumption ==
    /\ Descriptors \subseteq Nat
    /\ Ports \subseteq Nat \ {0} /\ DefaultPort \in Ports
    /\ Unset \notin Addresses \cup Groups
    /\ SiteLocal \in Groups /\ ConfigGroup \in Groups \cup {Unset}

VARIABLES pc,          \* where the main loop is in bip6_init(), "idle" if outside
          port,        \* port_initialized
          unicast,     \* BIP6_Addr
          group,       \* BIP6_Broadcast_Addr
          sock,        \* BIP6_Socket
          owner,       \* who has which descriptor open: "free", "bip6" or "other"
          bound,       \* the port a descriptor is bound to, 0 if none
          slot,        \* the address in the interface's table
          readable,    \* the descriptors a datagram waits in
          io,          \* history: what the step just made did with a socket
          refused,     \* history: the descriptors the group could not be joined with
          fresh        \* history: are the addresses those the last bip6_init() got

link == <<pc, port, unicast, group, sock, owner, bound>>
vars == <<link, slot, readable, io, refused, fresh>>

NoIo == [fd |-> -1, npdu |-> Nothing]

-----------------------------------------------------------------------------
(***************************************************************************)
(* bip6_init() and bip6_cleanup().                                         *)
(***************************************************************************)
\* The port a bip6_init() works with.
InitPort == IF unicast.port = 0 THEN DefaultPort ELSE unicast.port

\* The addresses bip6_set_interface() sets if there is an interface with the slot.
FromInterfaceNoGroupPort == <<[address |-> slot, port |-> InitPort],
                              [address |-> ConfigGroup, port |-> 0]>>
FromInterface == <<[address |-> slot, port |-> InitPort],
                   [address |-> ConfigGroup, port |-> InitPort]>>

\* Else they stay, but for the port if bip6_set_port() had to set it.
Kept == <<[unicast EXCEPT !.port = InitPort],
          [group EXCEPT !.port = IF unicast.port = 0 THEN InitPort ELSE @]>>

\* By the main loop until it succeeds, by the stack after a bip6_cleanup().
Begin(found) ==
    /\ pc = "idle"
    /\ ~port \/ sock = -1
    /\ LET set == IF found THEN FromInterface ELSE Kept
       IN  /\ unicast' = set[1]
           /\ group' = IF set[2].address = Unset THEN [set[2] EXCEPT !.address = SiteLocal]
                                                 ELSE set[2]
    /\ fresh' = found
    /\ pc' = "socket"
    /\ io' = NoIo
    /\ UNCHANGED <<port, sock, owner, bound, slot, readable, refused>>

\* BIP6_Socket is overwritten, whatever it was.
CreateSocket(fd) ==
    /\ pc = "socket"
    /\ \/ /\ fd \in Descriptors /\ owner[fd] = "free"
          /\ owner' = [owner EXCEPT ![fd] = "bip6"]
          /\ pc' = "join"
       \/ /\ fd = -1
          /\ pc' = "idle"
          /\ UNCHANGED owner
    /\ sock' = fd
    /\ io' = NoIo
    /\ UNCHANGED <<port, unicast, group, bound, slot, readable, refused, fresh>>

\* IPV6_ADD_MEMBERSHIP.  A failure ends bip6_init() with the socket open.
Join(ok) ==
    /\ pc = "join"
    /\ IF ok THEN pc' = "bind" /\ UNCHANGED refused
             ELSE pc' = "idle" /\ refused' = refused \cup {sock}
    /\ io' = NoIo
    /\ UNCHANGED <<port, unicast, group, sock, owner, bound, slot, readable, fresh>>

BindLeavesOpen(ok) ==
    /\ pc = "bind"
    /\ IF ok THEN /\ bound' = [bound EXCEPT ![sock] = unicast.port]
                  /\ port' = TRUE
                  /\ UNCHANGED <<owner, sock>>
             ELSE /\ sock' = -1
                  /\ UNCHANGED <<owner, bound, port>>
    /\ pc' = "idle"
    /\ io' = NoIo
    /\ UNCHANGED <<unicast, group, slot, readable, refused, fresh>>

Bind(ok) ==
    /\ pc = "bind"
    /\ IF ok THEN /\ bound' = [bound EXCEPT ![sock] = unicast.port]
                  /\ port' = TRUE
                  /\ UNCHANGED <<owner, sock>>
             ELSE /\ owner' = [owner EXCEPT ![sock] = "free"]
                  /\ sock' = -1
                  /\ UNCHANGED <<bound, port>>
    /\ pc' = "idle"
    /\ io' = NoIo
    /\ UNCHANGED <<unicast, group, slot, readable, refused, fresh>>

CleanupKeepsNumber ==
    /\ pc = "idle"
    /\ sock # -1
    /\ owner' = [owner EXCEPT ![sock] = "free"]
    /\ bound' = [bound EXCEPT ![sock] = 0]
    /\ readable' = readable \ {sock}
    /\ refused' = refused \ {sock}
    /\ io' = NoIo
    /\ UNCHANGED <<pc, port, unicast, group, sock, slot, fresh>>

\* Without a socket there is nothing to close.
Cleanup ==
    /\ pc = "idle"
    /\ sock # -1
    /\ owner' = [owner EXCEPT ![sock] = "free"]
    /\ bound' = [bound EXCEPT ![sock] = 0]
    /\ readable' = readable \ {sock}
    /\ refused' = refused \ {sock}
    /\ sock' = -1
    /\ io' = NoIo
    /\ UNCHANGED <<pc, port, unicast, group, slot, fresh>>

-----------------------------------------------------------------------------
(***************************************************************************)
(* The setters, by the stack.                                              *)
(***************************************************************************)
Setters ==
    /\ fresh' = FALSE
    /\ io' = NoIo
    /\ UNCHANGED <<pc, port, sock, owner, bound, slot, readable, refused>>

\* bip6_set_port() sets the port of both.
SetPort(p) ==
    /\ unicast' = [unicast EXCEPT !.port = p]
    /\ group' = [group EXCEPT !.port = p]
    /\ Setters

\* bip6_set_addr() and bip6_set_broadcast_addr() each copy an address with a port.
SetAddr(a, p) ==
    /\ unicast' = [address |-> a, port |-> p]
    /\ UNCHANGED group
    /\ Setters

SetGroup(g, p) ==
    /\ group' = [address |-> g, port |-> p]
    /\ UNCHANGED unicast
    /\ Setters

-----------------------------------------------------------------------------
(***************************************************************************)
(* Packets.                                                                *)
(***************************************************************************)
\* bip6_receive(), with what zsock_recvfrom() got and bvlc6_handler() made of it.
Receive(n, ours, offset) ==
    /\ pc = "idle" /\ port
    /\ sock # -1
    /\ sock \in readable
    /\ n = 0 \/ ~ours => offset = 0
    /\ readable' = readable \ {sock}
    /\ io' = [fd |-> sock, npdu |-> Passed(Received(n), offset)]
    /\ UNCHANGED <<link, slot, refused, fresh>>

Send ==
    /\ pc = "idle" /\ port
    /\ sock # -1
    /\ io' = [fd |-> sock, npdu |-> Nothing]
    /\ UNCHANGED <<link, slot, readable, refused, fresh>>

-----------------------------------------------------------------------------
(***************************************************************************)
(* The network stack and the rest of the system.                           *)
(***************************************************************************)
Arrive(d) ==
    /\ bound[d] # 0
    /\ readable' = readable \cup {d}
    /\ io' = NoIo
    /\ UNCHANGED <<link, slot, refused, fresh>>

SlotChanges(a) ==
    /\ slot' = a
    /\ io' = NoIo
    /\ UNCHANGED <<link, readable, refused, fresh>>

OtherSocket(d) ==
    /\ \/ owner[d] = "free"  /\ owner' = [owner EXCEPT ![d] = "other"]
       \/ owner[d] = "other" /\ owner' = [owner EXCEPT ![d] = "free"]
    /\ io' = NoIo
    /\ UNCHANGED <<pc, port, unicast, group, sock, bound, slot, readable, refused, fresh>>

-----------------------------------------------------------------------------
Init ==
    /\ pc = "idle" /\ port = FALSE
    /\ unicast = [address |-> Unset, port |-> 0]
    /\ group = [address |-> Unset, port |-> 0]
    /\ sock = -1
    /\ owner = [d \in Descriptors |-> "free"] /\ bound = [d \in Descriptors |-> 0]
    /\ slot = Unset
    /\ readable = {} /\ io = NoIo /\ refused = {} /\ fresh = FALSE

Next ==
    \/ \E ok \in BOOLEAN : Begin(ok) \/ Join(ok) \/ Bind(ok)
    \/ \E fd \in Descriptors \cup {-1} : CreateSocket(fd)
    \/ Cleanup
    \/ \E p \in Ports : \/ SetPort(p)
                        \/ \E a \in Addresses : SetAddr(a, p)
                        \/ \E g \in Groups : SetGroup(g, p)
    \/ \E n \in 0..MaxLength, ours \in BOOLEAN, offset \in 0..MaxOffset : Receive(n, ours, offset)
    \/ Send
    \/ \E d \in Descriptors : Arrive(d) \/ OtherSocket(d)
    \/ \E a \in Addresses \cup {Unset} : SlotChanges(a)

Spec == Init /\ [][Next]_vars

-----------------------------------------------------------------------------
(***************************************************************************)
(* Properties.                                                             *)
(***************************************************************************)
\* The types of the variables.
Endpoint(A) == [address : A \cup {Unset}, port : Ports \cup {0}]

TypeOK ==
    /\ pc \in {"idle", "socket", "join", "bind"}
    /\ port \in BOOLEAN /\ fresh \in BOOLEAN
    /\ unicast \in Endpoint(Addresses) /\ group \in Endpoint(Groups)
    /\ sock \in Descriptors \cup {-1}
    /\ owner \in [Descriptors -> {"free", "bip6", "other"}]
    /\ bound \in [Descriptors -> Ports \cup {0}]
    /\ slot \in Addresses \cup {Unset}
    /\ readable \subseteq Descriptors /\ refused \subseteq Descriptors
    /\ io \in [fd : Descriptors \cup {-1}, npdu : NpduType]

\* The socket bip6_cleanup() closes and the packets go over is the datalink's own,
\* also while others open and close descriptors between the steps of bip6_init().
SocketOwned ==
    /\ sock # -1 => owner[sock] = "bip6"
    /\ io.fd # -1 => owner[io.fd] = "bip6"

\* A socket the datalink holds outside bip6_init() and is not bound is one the group
\* could not be joined with, although bip6_valid() may go by it; and a socket it has
\* lost track of is never a bound one, which would keep datagrams from the next.
UnboundOnlyIfRefused ==
    /\ \A d \in Descriptors : bound[d] # 0 => d = sock /\ owner[d] = "bip6"
    /\ pc = "idle" => \A d \in Descriptors : owner[d] = "bip6" => bound[d] # 0 \/ d \in refused

\* Until the stack sets an address or a port again, a bound socket, the address
\* bip6_init() took from the interface and the group it joined have one port, so that
\* what is sent to the group comes back in at the socket.
PortsAgree ==
    fresh /\ pc = "idle" /\ sock # -1 /\ bound[sock] # 0 =>
        /\ unicast.port = bound[sock]
        /\ group.port = bound[sock]
        /\ group.address # Unset

\* What bip6_receive() passes on are bytes it received: a header that claims more than
\* the datagram has makes the length wrap, and nothing is passed on.
NpduReceived == io.npdu.offset + io.npdu.length <= io.npdu.received
=============================================================================
