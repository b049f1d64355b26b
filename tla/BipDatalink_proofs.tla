------------------------- MODULE BipDatalink_proofs -------------------------
(***************************************************************************)
(* Proofs about BipDatalink, alone and with the packets of BipPackets, for *)
(* any descriptors, table and addresses.                                   *)
(* Until the port is initialised there is no broadcast socket, and no      *)
(* bip_init() starts with one: so the descriptors a creation gets are new, *)
(* and a number is given up in the step that closes it.                    *)
(***************************************************************************)
EXTENDS BipPackets, TLAPS

Binding == {"unicast", "broadcast"}

\* The broadcast socket comes last, and with it the port.
BroadcastLast == (~port \/ pc # "idle") => bcast = -1

\* The address is known before a socket is bound to it and while there is a port.
AddressKnown == (port \/ pc \in Binding) => address # Unset

\* A found slot is one of the table.
SlotFound == pc \in {"found", "read"} => index \in Indexes

IInv ==
    /\ TypeOK
    /\ OwnedDescriptors
    /\ NoDanglingCallback
    /\ BroadcastLast
    /\ AddressKnown
    /\ SlotFound
    /\ port => pc \in Binding \cup {"idle"}

-----------------------------------------------------------------------------
LEMMA InitIInv == Init => IInv
<1>1. Init => TypeOK
  <2>1. /\ [d \in Descriptors |-> "free"] \in [Descriptors -> {"free", "bip", "other"}]
        /\ [i \in Indexes |-> Unset] \in [Indexes -> Addresses \cup {Unset}]
        /\ 0 \in 0..1
    OBVIOUS
  <2> QED
    BY <2>1 DEF Init, TypeOK
<1>2. Init => OwnedDescriptors
  BY DEF Init, OwnedDescriptors
<1>3. Init => /\ NoDanglingCallback /\ BroadcastLast /\ AddressKnown /\ SlotFound
              /\ (port => pc \in Binding \cup {"idle"})
  BY DEF Init, NoDanglingCallback, BroadcastLast, AddressKnown, SlotFound, Binding
<1> QED
  BY <1>1, <1>2, <1>3 DEF IInv

\* Steps that leave the sockets alone.
LEMMA SocketsKept ==
    ASSUME OwnedDescriptors, UNCHANGED <<uni, bcast, owner>>
    PROVE  OwnedDescriptors'
BY DEF OwnedDescriptors

\* A successful creation opens a descriptor neither socket has.
LEMMA NewDescriptor ==
    ASSUME TypeOK, OwnedDescriptors, NEW fd \in Descriptors \cup {-1}, CreateSocket(fd)
    PROVE  /\ owner' \in [Descriptors -> {"free", "bip", "other"}]
           /\ fd # -1 => owner'[fd] = "bip" /\ fd # uni /\ fd # bcast
           /\ uni # -1 => owner'[uni] = "bip"
           /\ bcast # -1 => owner'[bcast] = "bip"
BY BipAssumption DEF TypeOK, OwnedDescriptors, CreateSocket

LEMMA StepIInv ==
    ASSUME IInv, [Next]_vars
    PROVE  IInv'
<1>t. TypeOK /\ OwnedDescriptors
  BY DEF IInv
<1> USE DEF link, net, wait
<1>1. CASE BipInit
  BY <1>1, <1>t, SocketsKept
  DEF BipInit, IInv, TypeOK, NoDanglingCallback, BroadcastLast, AddressKnown, SlotFound, Binding,
      Waiting
<1>2. CASE Subscribe
  BY <1>2, <1>t, SocketsKept
  DEF Subscribe, IInv, TypeOK, NoDanglingCallback, BroadcastLast, AddressKnown, SlotFound, Binding,
      Waiting
<1>3. CASE Check
  <2>1. pc' \in {"found", "take"} /\ index' \in Indexes \cup {-1}
        /\ (pc' = "found" => index' \in Indexes)
    BY <1>3, <1>t DEF Check, TypeOK
  <2>2. pc = "check" /\ UNCHANGED <<link, net, subscribed, sem>>
    BY <1>3 DEF Check
  <2> QED
    BY <1>t, <2>1, <2>2, SocketsKept
    DEF IInv, TypeOK, NoDanglingCallback, BroadcastLast, AddressKnown, SlotFound, Binding, Waiting
<1>4. CASE Take
  BY <1>4, <1>t, SocketsKept
  DEF Take, IInv, TypeOK, NoDanglingCallback, BroadcastLast, AddressKnown, SlotFound, Binding,
      Waiting
<1>5. CASE Unsubscribe
  BY <1>5, <1>t, SocketsKept
  DEF Unsubscribe, IInv, TypeOK, NoDanglingCallback, BroadcastLast, AddressKnown, SlotFound,
      Binding, Waiting
<1>6. CASE ReadAddress
  <2>1. address' \in Addresses \cup {Unset} /\ (pc' = "unicast" => address' # Unset)
        /\ pc' \in {"idle", "unicast"} /\ ~port
    BY <1>6, <1>t DEF ReadAddress, IInv, SlotFound, TypeOK, Binding
  <2> QED
    BY <1>6, <1>t, <2>1, SocketsKept
    DEF ReadAddress, IInv, TypeOK, NoDanglingCallback, BroadcastLast, AddressKnown, SlotFound,
        Binding, Waiting
<1>7. ASSUME NEW fd \in Descriptors \cup {-1}, CreateUnicast(fd) PROVE IInv'
  <2>1. bcast = -1 /\ UNCHANGED bcast /\ uni' = fd
    BY <1>7 DEF CreateUnicast, IInv, BroadcastLast
  <2>2. OwnedDescriptors' /\ owner' \in [Descriptors -> {"free", "bip", "other"}]
    BY <1>7, <1>t, <2>1, NewDescriptor DEF CreateUnicast, OwnedDescriptors
  <2> QED
    BY <1>7, <1>t, <2>1, <2>2
    DEF CreateUnicast, IInv, TypeOK, NoDanglingCallback, BroadcastLast, AddressKnown, SlotFound,
        Binding, Waiting
<1>8. ASSUME NEW fd \in Descriptors \cup {-1}, CreateBroadcast(fd) PROVE IInv'
  <2>1. UNCHANGED uni /\ bcast' = fd
    BY <1>8 DEF CreateBroadcast
  <2>2. OwnedDescriptors' /\ owner' \in [Descriptors -> {"free", "bip", "other"}]
    BY <1>8, <1>t, <2>1, NewDescriptor DEF CreateBroadcast, OwnedDescriptors
  <2>3. port' \in BOOLEAN /\ (~port' => fd = -1) /\ pc' = "idle"
    BY <1>8, <1>t DEF CreateBroadcast, TypeOK
  <2> QED
    BY <1>8, <1>t, <2>1, <2>2, <2>3
    DEF CreateBroadcast, IInv, TypeOK, NoDanglingCallback, BroadcastLast, AddressKnown, SlotFound,
        Binding, Waiting
<1>9. CASE Cleanup
  <2>1. owner' \in [Descriptors -> {"free", "bip", "other"}] /\ OwnedDescriptors'
    BY <1>9, <1>t DEF Cleanup, TypeOK, OwnedDescriptors
  <2> QED
    BY <1>9, <1>t, <2>1
    DEF Cleanup, IInv, TypeOK, NoDanglingCallback, BroadcastLast, AddressKnown, SlotFound, Binding,
        Waiting
<1>10. ASSUME NEW a \in Addresses, SetAddr(a) PROVE IInv'
  <2>1. OwnedDescriptors'
    BY <1>10, <1>t, SocketsKept DEF SetAddr
  <2>2. TypeOK'
    BY <1>10, <1>t DEF SetAddr, TypeOK
  <2>3. AddressKnown'
    BY <1>10, BipAssumption DEF SetAddr, AddressKnown
  <2> QED
    BY <1>10, <2>1, <2>2, <2>3 DEF SetAddr, IInv, NoDanglingCallback, BroadcastLast, SlotFound
<1>11. ASSUME NEW i \in Indexes, AddressRemoved(i) PROVE IInv'
  BY <1>11, <1>t, SocketsKept
  DEF AddressRemoved, IInv, TypeOK, NoDanglingCallback, BroadcastLast, AddressKnown, SlotFound,
      Binding, Waiting
<1>12. ASSUME NEW i \in Indexes, NEW a \in Addresses, AddressAdded(i, a) PROVE IInv'
  <2>1. OwnedDescriptors'
    BY <1>12, <1>t, SocketsKept DEF AddressAdded
  <2>2. TypeOK'
    BY <1>12, <1>t DEF AddressAdded, TypeOK
  <2> QED
    BY <1>12, <2>1, <2>2
    DEF AddressAdded, IInv, NoDanglingCallback, BroadcastLast, AddressKnown, SlotFound
<1>13. CASE Deliver
  <2>1. OwnedDescriptors'
    BY <1>13, <1>t, SocketsKept DEF Deliver
  <2>2. sem' \in 0..1 /\ events' \in BOOLEAN
    <3>1. sem \in 0..1 /\ 1 \in 0..1
      BY <1>t DEF TypeOK
    <3>2. sem' = (IF subscribed THEN 1 ELSE sem) /\ events' = FALSE
      BY <1>13 DEF Deliver
    <3> QED
      BY <3>1, <3>2, Zenon
  <2>3. UNCHANGED <<pc, link, addr, used, subscribed, index>>
    BY <1>13 DEF Deliver
  <2> QED
    BY <1>t, <2>1, <2>2, <2>3
    DEF IInv, TypeOK, NoDanglingCallback, BroadcastLast, AddressKnown, SlotFound
<1>14. ASSUME NEW d \in Descriptors, OtherSocket(d) PROVE IInv'
  <2>1. owner' \in [Descriptors -> {"free", "bip", "other"}] /\ OwnedDescriptors'
    BY <1>14, <1>t DEF OtherSocket, TypeOK, OwnedDescriptors
  <2> QED
    BY <1>14, <1>t, <2>1
    DEF OtherSocket, IInv, TypeOK, NoDanglingCallback, BroadcastLast, AddressKnown, SlotFound,
        Binding, Waiting
<1>15. CASE UNCHANGED vars
  BY <1>15, <1>t, SocketsKept
  DEF vars, IInv, TypeOK, NoDanglingCallback, BroadcastLast, AddressKnown, SlotFound, Binding,
      Waiting
<1> QED
  BY <1>1, <1>2, <1>3, <1>4, <1>5, <1>6, <1>7, <1>8, <1>9, <1>10, <1>11, <1>12, <1>13, <1>14, <1>15
  DEF Next, MainStep

\* The inductive invariant.
THEOREM Invariance == Spec => []IInv
<1>1. Init => IInv
  BY InitIInv
<1>2. IInv /\ [Next]_vars => IInv'
  BY StepIInv
<1> QED
  BY <1>1, <1>2, PTL DEF Spec

\* The variables keep their types.
THEOREM TypeCorrect == Spec => []TypeOK
<1>1. IInv => TypeOK
  BY DEF IInv
<1> QED
  BY <1>1, Invariance, PTL

\* BIP_Socket and BIP_Broadcast_Socket are two open sockets of the datalink or -1,
\* through any failures, retries and clean-ups, with others opening sockets too.
THEOREM SocketsOwned == Spec => []OwnedDescriptors
<1>1. IInv => OwnedDescriptors
  BY DEF IInv
<1> QED
  BY <1>1, Invariance, PTL

\* No event callback of a wait that has returned stays on the list.
THEOREM CallbackRemoved == Spec => []NoDanglingCallback
<1>1. IInv => NoDanglingCallback
  BY DEF IInv
<1> QED
  BY <1>1, Invariance, PTL

\* Once the port was initialised no bip_init() waits for an address.
THEOREM NoSecondWait == Spec => []ReinitNeverWaits
<1>1. IInv => ReinitNeverWaits
  BY DEF IInv, ReinitNeverWaits, AddressKnown, Binding, Waiting
<1> QED
  BY <1>1, Invariance, PTL

-----------------------------------------------------------------------------
(* The wait for an address.                                                *)

\* Between the subscription and its end the callback is on the list; so the event of
\* an address that comes after the check finds it there.
Listening == pc \in {"check", "take", "found"} => subscribed

WaitInv == Listening /\ NoLostWakeup

LEMMA InitWaitInv == Init => WaitInv
BY DEF Init, WaitInv, Listening, NoLostWakeup

\* A step that adds no address and leaves the wait alone.
LEMMA WaitUntouched ==
    ASSUME WaitInv, UNCHANGED <<addr, events, subscribed, sem>>, used' \subseteq used,
           pc' = pc \/ pc' \notin {"check", "take", "found"}
    PROVE  WaitInv'
BY DEF WaitInv, Listening, NoLostWakeup, Accepted

LEMMA StepWaitInv ==
    ASSUME TypeOK, WaitInv, [Next]_vars
    PROVE  WaitInv'
<1> USE DEF net, wait
<1>1. CASE BipInit \/ Unsubscribe \/ Cleanup \/ UNCHANGED vars
  <2>1. CASE Unsubscribe
    BY <2>1 DEF Unsubscribe, WaitInv, Listening, NoLostWakeup
  <2>2. CASE BipInit \/ Cleanup \/ UNCHANGED vars
    BY <2>2, WaitUntouched DEF BipInit, Cleanup, vars
  <2> QED
    BY <1>1, <2>1, <2>2
<1>2. CASE Subscribe
  BY <1>2 DEF Subscribe, WaitInv, Listening, NoLostWakeup
\* Nothing accepted is there when the sleep begins.
<1>3. CASE Check
  <2>1. pc = "check" /\ subscribed /\ UNCHANGED <<addr, used, subscribed>>
    BY <1>3 DEF Check, WaitInv, Listening
  <2>2. pc' = "found" \/ (pc' = "take" /\ \A i \in Indexes : ~Accepted(i))
    BY <1>3 DEF Check
  <2> QED
    BY <2>1, <2>2 DEF WaitInv, Listening, NoLostWakeup, Accepted
<1>4. CASE Take
  BY <1>4 DEF Take, WaitInv, Listening, NoLostWakeup
<1>5. CASE ReadAddress \/ \E fd \in Descriptors \cup {-1} : CreateUnicast(fd) \/ CreateBroadcast(fd)
  <2>1. UNCHANGED <<net, wait>> /\ pc' \in {"idle", "unicast", "broadcast"}
    BY <1>5 DEF ReadAddress, CreateUnicast, CreateBroadcast
  <2> QED
    BY <2>1, WaitUntouched
<1>6. CASE (\E a \in Addresses : SetAddr(a)) \/ (\E d \in Descriptors : OtherSocket(d))
  BY <1>6, WaitUntouched DEF SetAddr, OtherSocket
<1>7. CASE \E i \in Indexes : AddressRemoved(i)
  BY <1>7, WaitUntouched DEF AddressRemoved
<1>8. CASE \E i \in Indexes, a \in Addresses : AddressAdded(i, a)
  BY <1>8 DEF AddressAdded, WaitInv, Listening, NoLostWakeup
\* The event is delivered to the wait.
<1>9. CASE Deliver
  BY <1>9 DEF Deliver, WaitInv, Listening, NoLostWakeup
<1> QED
  BY <1>1, <1>2, <1>3, <1>4, <1>5, <1>6, <1>7, <1>8, <1>9 DEF Next, MainStep

\* wait_for_ipv4_address() never sleeps through an address: if the table has one while
\* the main loop sleeps, then its event is under way and will find the callback, or the
\* semaphore has been given.
THEOREM WakeupNotLost == Spec => []NoLostWakeup
<1>1. Init => WaitInv
  BY InitWaitInv
<1>2. IInv /\ WaitInv /\ [Next]_vars => WaitInv'
  BY StepWaitInv DEF IInv
<1>3. WaitInv => NoLostWakeup
  BY DEF WaitInv
<1> QED
  BY <1>1, <1>2, <1>3, Invariance, PTL DEF Spec

-----------------------------------------------------------------------------
(* What is lost.                                                           *)

\* The sockets of the datalink that neither of its variables names any more.
Lost == {d \in Descriptors : owner[d] = "bip" /\ d # uni /\ d # bcast}

\* A step loses at most the unicast socket that bip_init() is about to replace, and
\* bip_cleanup() leaves open what was lost before and nothing else.
LossConfined ==
    /\ Lost \subseteq Lost'
    /\ Lost' # Lost => pc = "unicast" /\ uni # -1 /\ Lost' = Lost \cup {uni}
    /\ Cleanup => {d \in Descriptors : owner'[d] = "bip"} = Lost

\* createSocket() frees nothing and opens at most the descriptor it returns.
LEMMA CreatedSocket ==
    ASSUME TypeOK, NEW fd \in Descriptors \cup {-1}, CreateSocket(fd)
    PROVE  /\ owner' \in [Descriptors -> {"free", "bip", "other"}]
           /\ \A d \in Descriptors : d # fd => owner'[d] = owner[d]
           /\ \A d \in Descriptors : owner[d] = "bip" => owner'[d] = "bip" /\ d # fd
BY BipAssumption DEF CreateSocket, TypeOK

LEMMA LostStep ==
    ASSUME IInv, [Next]_vars
    PROVE  LossConfined
<1>t. TypeOK /\ OwnedDescriptors /\ -1 \notin Descriptors
  BY BipAssumption DEF IInv
<1>1. ASSUME NEW fd \in Descriptors \cup {-1}, CreateUnicast(fd)
      PROVE  /\ pc = "unicast" /\ Lost \subseteq Lost'
             /\ Lost' # Lost => uni # -1 /\ Lost' = Lost \cup {uni}
  <2>1. pc = "unicast" /\ CreateSocket(fd) /\ uni' = fd /\ UNCHANGED bcast /\ bcast = -1
    BY <1>1 DEF CreateUnicast, IInv, BroadcastLast
  <2>2. \A d \in Descriptors : owner'[d] = "bip" /\ d # fd <=> owner[d] = "bip"
    BY <1>t, <2>1, CreatedSocket
  <2>3. Lost' = {d \in Descriptors : owner[d] = "bip" /\ d # bcast}
    BY <1>t, <2>1, <2>2 DEF Lost
  <2>4. uni # -1 => uni \in Descriptors /\ owner[uni] = "bip"
    BY <1>t DEF TypeOK, OwnedDescriptors
  <2> QED
    BY <1>t, <2>1, <2>3, <2>4 DEF Lost
<1>2. ASSUME NEW fd \in Descriptors \cup {-1}, CreateBroadcast(fd) PROVE Lost' = Lost
  <2>1. CreateSocket(fd) /\ bcast' = fd /\ UNCHANGED uni /\ bcast = -1
    BY <1>2 DEF CreateBroadcast, IInv, BroadcastLast
  <2>2. \A d \in Descriptors : owner'[d] = "bip" /\ d # fd <=> owner[d] = "bip"
    BY <1>t, <2>1, CreatedSocket
  <2> QED
    BY <1>t, <2>1, <2>2 DEF Lost
<1>3. Cleanup => Lost' = Lost
  BY <1>t DEF Cleanup, Lost
<1>4. ASSUME NEW d \in Descriptors, OtherSocket(d) PROVE Lost' = Lost
  <2>1. /\ owner[d] # "bip" /\ owner'[d] # "bip" /\ UNCHANGED <<uni, bcast>>
        /\ \A e \in Descriptors : e # d => owner'[e] = owner[e]
    BY <1>4, <1>t DEF OtherSocket, TypeOK
  <2> QED
    BY <2>1 DEF Lost
<1>5. UNCHANGED <<uni, bcast, owner>> => Lost' = Lost
  BY DEF Lost
<1>6. BipInit \/ Subscribe \/ Check \/ Take \/ Unsubscribe \/ ReadAddress
      \/ (\E a \in Addresses : SetAddr(a)) \/ (\E i \in Indexes : AddressRemoved(i))
      \/ (\E i \in Indexes, a \in Addresses : AddressAdded(i, a))
      \/ Deliver \/ UNCHANGED vars
          => UNCHANGED <<uni, bcast, owner>>
  BY DEF BipInit, Subscribe, Check, Take, Unsubscribe, ReadAddress, SetAddr, AddressRemoved,
         AddressAdded, Deliver, vars, link
<1>7. Cleanup => {d \in Descriptors : owner'[d] = "bip"} = Lost
  BY DEF Cleanup, Lost
<1> QED
  BY <1>1, <1>2, <1>3, <1>4, <1>5, <1>6, <1>7 DEF Next, MainStep, LossConfined

\* Only bip_init() tried again after its broadcast socket failed loses a socket, the
\* unicast socket of the attempt before, and what is lost is never closed: bip_cleanup()
\* leaves behind exactly these.
THEOREM LeakConfined == Spec => [][LossConfined]_vars
BY LostStep, Invariance, PTL DEF Spec

-----------------------------------------------------------------------------
(* With packets.                                                           *)

\* A step with packets is a step of the datalink or leaves it alone.
LEMMA PacketStep == [PacketNext]_allVars => [Next]_vars
BY DEF PacketNext, Linked, Arrive, Receive, allVars

LEMMA PacketTypesStep ==
    ASSUME PacketTypes, TypeOK', [PacketNext]_allVars
    PROVE  PacketTypes'
<1>1. CASE Linked(Next)
  BY <1>1 DEF Linked, PacketTypes
<1>2. CASE Arrive(uni) \/ Arrive(bcast)
  BY <1>2 DEF Arrive, PacketTypes, vars, link
<1>3. CASE Receive
  BY <1>3 DEF Receive, PacketTypes, vars, link
<1>4. CASE UNCHANGED allVars
  BY <1>4 DEF allVars, PacketTypes, vars, link
<1> QED
  BY <1>1, <1>2, <1>3, <1>4 DEF PacketNext

\* The datalink with packets behaves as the datalink does.
THEOREM PacketsImplementDatalink == PacketSpec => Init /\ [][Next]_vars
<1>1. PacketInit => Init
  BY DEF PacketInit
<1>2. [PacketNext]_allVars => [Next]_vars
  BY PacketStep
<1> QED
  BY <1>1, <1>2, PTL DEF PacketSpec

\* bip_receive() only ever reads the two sockets the datalink holds: what waits in one
\* that was closed, or lost by a failed re-initialisation, is not taken for theirs.  And
\* nothing that is received disturbs the sockets, the callback or the address.
THEOREM PacketsSafe ==
    PacketSpec => [](/\ PacketTypes /\ OwnedDescriptors /\ NoDanglingCallback
                     /\ ReinitNeverWaits /\ NoLostWakeup)
<1>1. PacketInit => IInv /\ WaitInv /\ PacketTypes
  BY InitIInv, InitWaitInv DEF PacketInit, PacketTypes, IInv
<1>2. /\ IInv => TypeOK /\ OwnedDescriptors /\ NoDanglingCallback /\ ReinitNeverWaits
      /\ WaitInv => NoLostWakeup
  BY DEF IInv, ReinitNeverWaits, AddressKnown, Binding, Waiting, WaitInv
<1>3. ASSUME IInv, WaitInv, PacketTypes, [PacketNext]_allVars
      PROVE  IInv' /\ WaitInv' /\ PacketTypes'
  <2>1. IInv' /\ WaitInv'
    BY <1>3, PacketStep, StepIInv, StepWaitInv DEF IInv
  <2>2. TypeOK'
    BY <2>1 DEF IInv
  <2> QED
    BY <1>3, <2>1, <2>2, PacketTypesStep
<1> QED
  BY <1>1, <1>2, <1>3, PTL DEF PacketSpec
=============================================================================
