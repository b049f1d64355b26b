---------------------------- MODULE BipDatalink ----------------------------
(***************************************************************************)
(* The BACnet/IP datalink.  The main loop calls bip_init() until it        *)
(* succeeds, outside the task lock: it waits for the interface to get an   *)
(* IPv4 address, caches the address and opens a unicast and a broadcast    *)
(* socket.  Later the stack may close them by bip_cleanup() and call       *)
(* bip_init() again, with the cached address.                              *)
(*                                                                         *)
(* The network stack adds and removes addresses meanwhile and tells of     *)
(* additions by events, delivered later to whoever is subscribed then.     *)
(* Socket descriptors are numbers shared with the rest of the system,      *)
(* which opens and closes its own.  A bip_init() that finds no interface   *)
(* changes nothing and is left out.                                        *)
(***************************************************************************)
EXTENDS Integers

CONSTANTS Descriptors,   \* the socket descriptors
          Indexes,       \* the slots of the interface's address table
          Addresses,     \* the addresses it may get
          Passing,       \* those of the type ipv4_address_index() accepts
          Unset          \* 0.0.0.0

ASSUME BipAssumption ==
    /\ Descriptors \subseteq Nat
    /\ Indexes \subseteq Nat
    /\ Passing \subseteq Addresses
    /\ Unset \notin Addresses

VARIABLES pc,           \* where the main loop is in bip_init(), "idle" if outside
          port,         \* port_initialized
          address,      \* BIP_Address
          uni, bcast,   \* BIP_Socket and BIP_Broadcast_Socket
          owner,        \* who has which descriptor open: "free", "bip" or "other"
          addr,         \* the addresses in the table, those removed included
          used,         \* the slots of it in use
          events,       \* is an address event under way
          subscribed,   \* is wait.cb on the list of event callbacks
          sem,          \* wait.sem
          index         \* the slot found, -1 if none

link == <<port, address, uni, bcast, owner>>
net  == <<addr, used, events>>
wait == <<subscribed, sem, index>>
vars == <<pc, link, net, wait>>

Waiting == {"subscribe", "check", "take", "found"}

-----------------------------------------------------------------------------
(***************************************************************************)
(* bip_init(): the address.                                                *)
(***************************************************************************)
\* By the main loop until it succeeds, by the stack after a bip_cleanup().
BipInit ==
    /\ pc = "idle"
    /\ ~port \/ (uni = -1 /\ bcast = -1)
    /\ pc' = IF address = Unset THEN "subscribe" ELSE "unicast"
    /\ UNCHANGED <<link, net, wait>>

SubscribeLate ==
    /\ \/ pc = "subscribe" /\ pc' = "check" /\ UNCHANGED subscribed
       \/ pc = "take" /\ ~subscribed /\ subscribed' = TRUE /\ UNCHANGED pc
    /\ UNCHANGED <<link, net, sem, index>>

\* "Subscribe before checking the address or starting DHCP to avoid missed events."
Subscribe ==
    /\ pc = "subscribe"
    /\ sem' = 0 /\ subscribed' = TRUE /\ index' = -1
    /\ pc' = "check"
    /\ UNCHANGED <<link, net>>

Accepted(i) == i \in used /\ addr[i] \in Passing

\* ipv4_address_index(): the first slot with an address of the accepted type.
Check ==
    /\ pc = "check"
    /\ \/ /\ \E i \in Indexes : /\ Accepted(i)
                                /\ \A j \in Indexes : Accepted(j) => i <= j
                                /\ index' = i
          /\ pc' = "found"
       \/ /\ \A i \in Indexes : ~Accepted(i)
          /\ pc' = "take"
          /\ UNCHANGED index
    /\ UNCHANGED <<link, net, subscribed, sem>>

Take ==
    /\ pc = "take"
    /\ sem = 1
    /\ sem' = 0
    /\ pc' = "check"
    /\ UNCHANGED <<link, net, subscribed, index>>

LeaveSubscribed ==
    /\ pc = "found"
    /\ pc' = "read"
    /\ UNCHANGED <<link, net, wait>>

\* wait_for_ipv4_address() returns; wait was on its stack.
Unsubscribe ==
    /\ pc = "found"
    /\ subscribed' = FALSE
    /\ pc' = "read"
    /\ UNCHANGED <<link, net, sem, index>>

\* bip_set_interface() reads the slot again, whatever is in it now.
ReadAddress ==
    /\ pc = "read"
    /\ address' = addr[index]
    /\ pc' = IF address' = Unset THEN "idle" ELSE "unicast"
    /\ UNCHANGED <<port, uni, bcast, owner, net, wait>>

-----------------------------------------------------------------------------
(***************************************************************************)
(* The sockets.                                                            *)
(***************************************************************************)
\* createSocket(): fd is the descriptor returned, -1 if a call on the way failed,
\* after the socket was closed again.
KeepFailedSocket(fd) ==
    \/ /\ fd \in Descriptors /\ owner[fd] = "free"
       /\ owner' = [owner EXCEPT ![fd] = "bip"]
    \/ fd \in Descriptors /\ owner[fd] = "free" /\ UNCHANGED owner
    \/ fd = -1 /\ UNCHANGED owner
CreateSocket(fd) ==
    \/ /\ fd \in Descriptors /\ owner[fd] = "free"
       /\ owner' = [owner EXCEPT ![fd] = "bip"]
    \/ fd = -1 /\ UNCHANGED owner

CreateUnicast(fd) ==
    /\ pc = "unicast"
    /\ CreateSocket(fd)
    /\ uni' = fd
    /\ pc' = IF fd = -1 THEN "idle" ELSE "broadcast"
    /\ UNCHANGED <<port, address, bcast, net, wait>>

\* If this one fails the first socket stays open.
CreateBroadcast(fd) ==
    /\ pc = "broadcast"
    /\ CreateSocket(fd)
    /\ bcast' = fd
    /\ port' = (port \/ fd # -1)
    /\ pc' = "idle"
    /\ UNCHANGED <<address, uni, net, wait>>

CleanupForgetsAddress ==
    /\ pc = "idle"
    /\ owner' = [d \in Descriptors |-> IF d \in {uni, bcast} THEN "free" ELSE owner[d]]
    /\ uni' = -1 /\ bcast' = -1
    /\ address' = Unset
    /\ UNCHANGED <<pc, port, net, wait>>

\* bip_cleanup() closes the two sockets it knows and keeps the address.
Cleanup ==
    /\ pc = "idle"
    /\ owner' = [d \in Descriptors |-> IF d \in {uni, bcast} THEN "free" ELSE owner[d]]
    /\ uni' = -1 /\ bcast' = -1
    /\ UNCHANGED <<pc, port, address, net, wait>>

\* bip_set_addr(), by the stack, also while the main loop waits.  It would take 0.0.0.0
\* too, after which a re-initialisation waits again; the stack is assumed to set none.
SetAddr(a) ==
    /\ pc \in Waiting \cup {"idle"}
    /\ address' = a
    /\ UNCHANGED <<pc, port, uni, bcast, owner, net, wait>>

-----------------------------------------------------------------------------
(***************************************************************************)
(* The network stack and the rest of the system.                           *)
(***************************************************************************)
AddressAdded(i, a) ==
    /\ i \notin used
    /\ addr' = [addr EXCEPT ![i] = a]
    /\ used' = used \cup {i}
    /\ events' = TRUE
    /\ UNCHANGED <<pc, link, wait>>

AddressRemoved(i) ==
    /\ i \in used
    /\ used' = used \ {i}
    /\ UNCHANGED <<pc, link, addr, events, wait>>

DeliverCounts ==
    /\ events
    /\ events' = FALSE
    /\ sem' = IF subscribed THEN sem + 1 ELSE sem
    /\ UNCHANGED <<pc, link, addr, used, subscribed, index>>

\* event_cb_handler(), if it is subscribed; the semaphore has a limit of one.
Deliver ==
    /\ events
    /\ events' = FALSE
    /\ sem' = IF subscribed THEN 1 ELSE sem
    /\ UNCHANGED <<pc, link, addr, used, subscribed, index>>

OtherSocket(d) ==
    /\ \/ owner[d] = "free"  /\ owner' = [owner EXCEPT ![d] = "other"]
       \/ owner[d] = "other" /\ owner' = [owner EXCEPT ![d] = "free"]
    /\ UNCHANGED <<pc, port, address, uni, bcast, net, wait>>

-----------------------------------------------------------------------------
Init ==
    /\ pc = "idle" /\ port = FALSE
    /\ address = Unset /\ uni = -1 /\ bcast = -1
    /\ owner = [d \in Descriptors |-> "free"]
    /\ addr = [i \in Indexes |-> Unset] /\ used = {} /\ events = FALSE
    /\ subscribed = FALSE /\ sem = 0 /\ index = -1

MainStep ==
    \/ BipInit \/ Subscribe \/ Check \/ Take \/ Unsubscribe \/ ReadAddress
    \/ \E fd \in Descriptors \cup {-1} : CreateUnicast(fd) \/ CreateBroadcast(fd)

Next ==
    \/ MainStep
    \/ Cleanup
    \/ \E a \in Addresses : SetAddr(a)
    \/ \E i \in Indexes : AddressRemoved(i) \/ \E a \in Addresses : AddressAdded(i, a)
    \/ Deliver
    \/ \E d \in Descriptors : OtherSocket(d)

\* The main loop goes on and events are delivered; no address need ever come.
Spec == Init /\ [][Next]_vars /\ WF_vars(MainStep) /\ WF_vars(Deliver)

-----------------------------------------------------------------------------
(***************************************************************************)
(* Properties.                                                             *)
(***************************************************************************)
\* The types of the variables.
TypeOK ==
    /\ pc \in Waiting \cup {"idle", "read", "unicast", "broadcast"}
    /\ port \in BOOLEAN /\ events \in BOOLEAN /\ subscribed \in BOOLEAN
    /\ address \in Addresses \cup {Unset}
    /\ uni \in Descriptors \cup {-1} /\ bcast \in Descriptors \cup {-1}
    /\ owner \in [Descriptors -> {"free", "bip", "other"}]
    /\ addr \in [Indexes -> Addresses \cup {Unset}]
    /\ used \subseteq Indexes
    /\ sem \in 0..1
    /\ index \in Indexes \cup {-1}

\* The sockets bip_send_mpdu() and bip_receive() use and bip_cleanup() closes are
\* open and the datalink's own: a number that was closed and is another's by now is
\* never kept, and the two are never the same.
OwnedDescriptors ==
    /\ \A d \in {uni, bcast} : d # -1 => owner[d] = "bip"
    /\ uni # bcast \/ uni = -1

\* The event callback lies on the stack of wait_for_ipv4_address() and is off the
\* list when that returns.
NoDanglingCallback == subscribed => pc \in Waiting

\* The address survives bip_cleanup(), so that once initialised no bip_init() waits
\* for the network again: the stack makes it under the lock.
ReinitNeverWaits == port => pc \notin Waiting /\ address # Unset

\* Whoever sleeps on the semaphore while the table has an address to offer has been
\* woken or will be: no address falls between the check and the sleep.
NoLostWakeup ==
    pc = "take" /\ (\E i \in Indexes : Accepted(i)) => subscribed /\ (events \/ sem = 1)

\* An address that is there to stay ends the wait, whether it came before or after
\* the subscription, with or without an event of its own.
WaitEnds ==
    <>[](\E i \in Indexes : Accepted(i)) => [](pc \in Waiting => <>(pc \notin Waiting))

\* bip_cleanup(): "Cleanup and close out the BACnet/IP services by closing the
\* socket".
CleanupClosesAll == [][Cleanup => \A d \in Descriptors : owner'[d] # "bip"]_vars
=============================================================================
