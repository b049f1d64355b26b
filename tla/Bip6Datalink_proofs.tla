------------------------ MODULE Bip6Datalink_proofs ------------------------
(***************************************************************************)
(* Proofs about Bip6Datalink, for any descriptors, addresses, ports and    *)
(* lengths.  A bip6_init() starts with nothing bound: before the port is   *)
(* initialised nothing ever was, and after it only bip6_cleanup() lets one *)
(* start (NoneBound).  So the socket it binds is the only one.             *)
(***************************************************************************)
EXTENDS Bip6Datalink, TLAPS

Opened == {"join", "bind"}

\* Between its creation and the binding the socket is there.
SocketOpen == pc \in Opened => sock # -1

\* During a bip6_init(), and before the first succeeded, no socket is bound.
NoneBound == pc # "idle" \/ ~port => \A d \in Descriptors : bound[d] = 0

\* The one bound is the one in use.
OneBound == \A d \in Descriptors : bound[d] # 0 => d = sock /\ owner[d] = "bip6"

\* The datalink's descriptors are the bound one, the one being bound and the refused.
Accounted == \A d \in Descriptors :
    owner[d] = "bip6" => bound[d] # 0 \/ d \in refused \/ (pc \in Opened /\ d = sock)

\* A bip6_init() has a port to bind to.
PortKnown == pc # "idle" => unicast.port # 0

\* What bip6_init() got from the interface.
FreshPorts ==
    fresh => /\ unicast.port = group.port
             /\ group.address # Unset
             /\ \A d \in Descriptors : bound[d] # 0 => unicast.port = bound[d]

IInv ==
    /\ TypeOK
    /\ SocketOwned
    /\ SocketOpen
    /\ NoneBound
    /\ OneBound
    /\ Accounted
    /\ PortKnown
    /\ FreshPorts
    /\ NpduReceived

-----------------------------------------------------------------------------
(* Lengths.                                                                *)

LEMMA ModBelow == ASSUME NEW n \in Nat, NEW a \in 0..(n - 1) PROVE a % n = a
OBVIOUS

LEMMA ModAbove == ASSUME NEW n \in Nat, NEW a \in 0..(n - 1) PROVE (n + a) % n = a
OBVIOUS

\* What is passed on is no more than was received after the header.
LEMMA PassedType ==
    ASSUME NEW n \in Nat, NEW offset \in 0..MaxOffset
    PROVE  LET npdu == Passed(Received(n), offset)
           IN  npdu \in NpduType /\ npdu.offset + npdu.length <= npdu.received
<1> DEFINE r == Received(n)
           l == NpduLength(r, offset)
<1>1. r \in 0..MaxNpdu
  BY NpduAssumption DEF Received
<1>2. CASE l = 0
  BY <1>2, NpduAssumption DEF Passed, Nothing, NpduType
<1>3. CASE l # 0
  <2>1. l = (r + U16 - offset) % U16 /\ l <= MaxNpdu
    BY <1>3 DEF NpduLength
  <2>2. offset <= r
    <3>1. SUFFICES ASSUME offset > r PROVE FALSE
      BY <1>1
    <3>2. r + U16 - offset \in 0..(U16 - 1)
      BY <1>1, <3>1, NpduAssumption
    <3>3. l = r + U16 - offset
      BY <2>1, <3>2, ModBelow, NpduAssumption
    <3> QED
      BY <1>1, <2>1, <3>3, NpduAssumption
  <2>3. l = r - offset
    <3>1. r - offset \in 0..(U16 - 1) /\ r + U16 - offset = U16 + (r - offset)
      BY <1>1, <2>2, NpduAssumption
    <3> QED
      BY <2>1, <3>1, ModAbove, NpduAssumption
  <2>4. Passed(r, offset) = [received |-> r, offset |-> offset, length |-> l]
    BY <1>3 DEF Passed
  <2>5. l \in 0..MaxNpdu
    BY <1>1, <2>2, <2>3, NpduAssumption
  <2> HIDE DEF r, l
  <2>6. [received |-> r, offset |-> offset, length |-> l] \in NpduType
    BY <1>1, <2>5 DEF NpduType
  <2> QED
    BY <1>1, <2>3, <2>4, <2>6 DEF r
<1> QED
  BY <1>2, <1>3

-----------------------------------------------------------------------------
(* The invariant.                                                          *)

LEMMA NothingTyped == /\ NoIo \in [fd : Descriptors \cup {-1}, npdu : NpduType]
                      /\ NoIo.fd = -1
                      /\ NoIo.npdu.offset + NoIo.npdu.length <= NoIo.npdu.received
BY NpduAssumption DEF NoIo, Nothing, NpduType

LEMMA InitIInv == Init => IInv
<1> SUFFICES ASSUME Init PROVE IInv
  OBVIOUS
<1>1. TypeOK
  <2>1. unicast \in Endpoint(Addresses) /\ group \in Endpoint(Groups)
    BY DEF Init, Endpoint
  <2>2. owner \in [Descriptors -> {"free", "bip6", "other"}] /\ bound \in [Descriptors -> Ports \cup {0}]
    BY DEF Init
  <2> QED
    BY <2>1, <2>2, NothingTyped DEF Init, TypeOK
<1> QED
  BY <1>1, NothingTyped
  DEF IInv, Init, SocketOwned, SocketOpen, NoneBound, OneBound, Accounted, PortKnown,
      FreshPorts, NpduReceived, Opened

\* Steps that leave the sockets and the packets alone.
LEMMA SocketsKept ==
    ASSUME IInv, UNCHANGED <<pc, port, sock, owner, bound, refused>>, io' = NoIo
    PROVE  /\ SocketOwned' /\ SocketOpen' /\ NoneBound' /\ OneBound' /\ Accounted'
           /\ NpduReceived'
<1>1. SocketOwned' /\ NpduReceived'
  BY NothingTyped DEF IInv, SocketOwned, NpduReceived
<1>2. SocketOpen' /\ NoneBound' /\ OneBound' /\ Accounted'
  BY DEF IInv, SocketOpen, NoneBound, OneBound, Accounted
<1> QED
  BY <1>1, <1>2

LEMMA BeginStep ==
    ASSUME IInv, NEW found \in BOOLEAN, Begin(found)
    PROVE  IInv'
<1> DEFINE set == IF found THEN FromInterface ELSE Kept
<1>p. InitPort \in Ports /\ InitPort # 0
  BY Bip6Assumption DEF InitPort, IInv, TypeOK, Endpoint
<1>n. \A d \in Descriptors : bound[d] = 0
  <2>1. CASE ~port
    BY <2>1 DEF IInv, NoneBound
  <2>2. CASE sock = -1
    BY <2>2, Bip6Assumption DEF IInv, OneBound
  <2> QED
    BY <2>1, <2>2 DEF Begin
<1>1. unicast' \in Endpoint(Addresses)
  <2>1. CASE found
    BY <2>1, <1>p DEF Begin, FromInterface, IInv, TypeOK, Endpoint
  <2>2. CASE ~found
    BY <2>2, <1>p DEF Begin, Kept, IInv, TypeOK, Endpoint
  <2> QED
    BY <2>1, <2>2
<1>2. set[2] \in Endpoint(Groups)
  <2>1. CASE found
    BY <2>1, <1>p, Bip6Assumption DEF FromInterface, Endpoint
  <2>2. CASE ~found
    BY <2>2, <1>p DEF Kept, IInv, TypeOK, Endpoint
  <2> QED
    BY <2>1, <2>2
<1>3. group' \in Endpoint(Groups) /\ group'.address # Unset /\ group'.port = set[2].port
  BY <1>2, Bip6Assumption DEF Begin, Endpoint
<1>4. found => unicast'.port = group'.port
  BY <1>3 DEF Begin, FromInterface
<1>k. PortKnown'
  BY <1>p DEF Begin, FromInterface, Kept, PortKnown
<1>5. TypeOK'
  BY <1>1, <1>3, NothingTyped DEF Begin, IInv, TypeOK
<1>6. SocketOwned' /\ NpduReceived'
  BY NothingTyped DEF Begin, IInv, SocketOwned, NpduReceived
<1>7. SocketOpen' /\ NoneBound' /\ OneBound'
  BY <1>n DEF Begin, SocketOpen, NoneBound, OneBound, Opened
<1>8. Accounted'
  BY DEF Begin, IInv, Accounted, Opened
<1>9. FreshPorts'
  BY <1>n, <1>3, <1>4 DEF Begin, FreshPorts
<1> QED
  BY <1>5, <1>6, <1>7, <1>8, <1>9, <1>k DEF IInv

LEMMA CreateStep ==
    ASSUME IInv, NEW fd \in Descriptors \cup {-1}, CreateSocket(fd)
    PROVE  IInv'
<1>n. \A d \in Descriptors : bound[d] = 0
  BY DEF CreateSocket, IInv, NoneBound
<1>1. CASE fd = -1
  <2>0. fd \notin Descriptors
    BY <1>1, Bip6Assumption
  <2>1. pc' = "idle" /\ sock' = -1 /\ UNCHANGED owner
    BY <1>1, <2>0 DEF CreateSocket
  <2>2. TypeOK'
    BY <2>1, NothingTyped DEF CreateSocket, IInv, TypeOK
  <2>3. SocketOwned' /\ NpduReceived'
    BY <2>1, NothingTyped DEF CreateSocket, IInv, SocketOwned, NpduReceived
  <2>4. SocketOpen' /\ NoneBound' /\ OneBound' /\ FreshPorts' /\ PortKnown'
    BY <1>n, <2>1 DEF CreateSocket, IInv, SocketOpen, NoneBound, OneBound, FreshPorts, PortKnown,
         Opened
  <2>5. Accounted'
    BY <1>n, <2>1 DEF CreateSocket, IInv, Accounted, Opened
  <2> QED
    BY <2>2, <2>3, <2>4, <2>5 DEF IInv
<1>2. CASE fd # -1
  <2>0. fd \in Descriptors
    BY <1>2
  <2>1. pc' = "join" /\ sock' = fd /\ owner' = [owner EXCEPT ![fd] = "bip6"]
    BY <1>2 DEF CreateSocket
  <2>t. owner \in [Descriptors -> {"free", "bip6", "other"}]
    BY DEF IInv, TypeOK
  <2>2. owner' \in [Descriptors -> {"free", "bip6", "other"}] /\ owner'[fd] = "bip6"
    BY <2>0, <2>1, <2>t
  <2>3. TypeOK'
    BY <2>0, <2>1, <2>2, NothingTyped DEF CreateSocket, IInv, TypeOK
  <2>4. SocketOwned' /\ NpduReceived'
    BY <2>1, <2>2, NothingTyped DEF CreateSocket, SocketOwned, NpduReceived
  <2>5. SocketOpen' /\ NoneBound' /\ OneBound' /\ FreshPorts' /\ PortKnown'
    BY <1>n, <1>2, <2>1 DEF CreateSocket, IInv, SocketOpen, NoneBound, OneBound, FreshPorts, PortKnown,
         Opened
  <2>6. \A d \in Descriptors : d # fd => owner'[d] = owner[d]
    BY <2>1, <2>t
  <2>7. pc = "socket" /\ UNCHANGED <<bound, refused>>
    BY DEF CreateSocket
  <2>8. Accounted'
    BY <1>n, <2>1, <2>6, <2>7 DEF IInv, Accounted, Opened
  <2> QED
    BY <2>3, <2>4, <2>5, <2>8 DEF IInv
<1> QED
  BY <1>1, <1>2

LEMMA JoinStep ==
    ASSUME IInv, NEW ok \in BOOLEAN, Join(ok)
    PROVE  IInv'
<1>s. sock \in Descriptors
  BY DEF IInv, TypeOK, SocketOpen, Opened, Join
<1>n. \A d \in Descriptors : bound[d] = 0
  BY DEF Join, IInv, NoneBound
<1>1. TypeOK'
  BY <1>s, NothingTyped DEF Join, IInv, TypeOK
<1>2. SocketOwned' /\ NpduReceived'
  BY NothingTyped DEF Join, IInv, SocketOwned, NpduReceived
<1>3. SocketOpen' /\ NoneBound' /\ OneBound' /\ FreshPorts' /\ PortKnown'
  BY <1>n DEF Join, IInv, SocketOpen, NoneBound, OneBound, FreshPorts, PortKnown,
         Opened
<1>4. Accounted'
  BY <1>n DEF Join, IInv, Accounted, Opened
<1> QED
  BY <1>1, <1>2, <1>3, <1>4 DEF IInv

LEMMA BindStep ==
    ASSUME IInv, NEW ok \in BOOLEAN, Bind(ok)
    PROVE  IInv'
<1>s. sock \in Descriptors
  BY DEF IInv, TypeOK, SocketOpen, Opened, Bind
<1>n. \A d \in Descriptors : bound[d] = 0
  BY DEF Bind, IInv, NoneBound
<1>t. /\ owner \in [Descriptors -> {"free", "bip6", "other"}]
      /\ bound \in [Descriptors -> Ports \cup {0}]
      /\ unicast.port \in Ports \cup {0}
      /\ sock # -1 /\ owner[sock] = "bip6"
  BY <1>s, Bip6Assumption DEF IInv, TypeOK, Endpoint, SocketOwned
<1>1. CASE ok
  <2>1. /\ bound' = [bound EXCEPT ![sock] = unicast.port] /\ port' = TRUE
        /\ pc' = "idle" /\ io' = NoIo
        /\ UNCHANGED <<owner, sock, unicast, group, slot, readable, refused, fresh>>
    BY <1>1 DEF Bind
  <2>2. /\ bound' \in [Descriptors -> Ports \cup {0}]
        /\ \A d \in Descriptors : bound'[d] = IF d = sock THEN unicast.port ELSE 0
    BY <1>s, <1>n, <1>t, <2>1
  <2>3. TypeOK'
    BY <2>1, <2>2, NothingTyped DEF IInv, TypeOK
  <2>4. SocketOwned' /\ NpduReceived'
    BY <2>1, NothingTyped DEF IInv, SocketOwned, NpduReceived
  <2>5. SocketOpen' /\ NoneBound' /\ OneBound'
    BY <1>t, <2>1, <2>2 DEF SocketOpen, NoneBound, OneBound, Opened
  <2>6. FreshPorts' /\ PortKnown'
    BY <2>1, <2>2 DEF IInv, FreshPorts, PortKnown
  <2>7. unicast.port # 0
    BY DEF Bind, IInv, PortKnown
  <2>8. Accounted'
    BY <1>n, <2>1, <2>2, <2>7 DEF IInv, Accounted, Opened
  <2> QED
    BY <2>3, <2>4, <2>5, <2>6, <2>8 DEF IInv
<1>2. CASE ~ok
  <2>1. /\ owner' = [owner EXCEPT ![sock] = "free"] /\ sock' = -1 /\ pc' = "idle" /\ io' = NoIo
        /\ UNCHANGED <<bound, port, unicast, group, slot, readable, refused, fresh>>
    BY <1>2 DEF Bind
  <2>2. /\ owner' \in [Descriptors -> {"free", "bip6", "other"}]
        /\ \A d \in Descriptors : owner'[d] = IF d = sock THEN "free" ELSE owner[d]
    BY <1>s, <1>t, <2>1
  <2>3. TypeOK'
    BY <2>1, <2>2, NothingTyped DEF IInv, TypeOK
  <2>4. SocketOwned' /\ NpduReceived'
    BY <2>1, NothingTyped DEF SocketOwned, NpduReceived
  <2>5. SocketOpen' /\ NoneBound' /\ OneBound' /\ FreshPorts' /\ PortKnown'
    BY <1>n, <2>1 DEF IInv, SocketOpen, NoneBound, OneBound, FreshPorts, PortKnown,
         Opened
  <2>6. Accounted'
    BY <1>n, <2>1, <2>2 DEF IInv, Accounted, Opened
  <2> QED
    BY <2>3, <2>4, <2>5, <2>6 DEF IInv
<1> QED
  BY <1>1, <1>2

LEMMA CleanupStep ==
    ASSUME IInv, Cleanup
    PROVE  IInv'
<1>t. /\ owner \in [Descriptors -> {"free", "bip6", "other"}]
      /\ bound \in [Descriptors -> Ports \cup {0}]
      /\ sock \in Descriptors
  BY DEF IInv, TypeOK, Cleanup
<1>1. /\ owner' \in [Descriptors -> {"free", "bip6", "other"}]
      /\ \A d \in Descriptors : owner'[d] = IF d = sock THEN "free" ELSE owner[d]
  BY <1>t DEF Cleanup
<1>2. /\ bound' \in [Descriptors -> Ports \cup {0}]
      /\ \A d \in Descriptors : bound'[d] = IF d = sock THEN 0 ELSE bound[d]
  BY <1>t DEF Cleanup
<1>n. \A d \in Descriptors : bound'[d] = 0
  BY <1>2 DEF IInv, OneBound
<1>3. TypeOK'
  BY <1>1, <1>2, NothingTyped DEF Cleanup, IInv, TypeOK
<1>4. SocketOwned' /\ NpduReceived'
  BY NothingTyped DEF Cleanup, SocketOwned, NpduReceived
<1>5. SocketOpen' /\ NoneBound' /\ OneBound' /\ FreshPorts' /\ PortKnown'
  BY <1>n DEF Cleanup, IInv, SocketOpen, NoneBound, OneBound, FreshPorts, PortKnown, Opened
<1>6. Accounted'
  BY <1>1, <1>2 DEF Cleanup, IInv, Accounted, Opened
<1> QED
  BY <1>3, <1>4, <1>5, <1>6 DEF IInv

\* The setters give the addresses their types and a port.
LEMMA SetterStep ==
    ASSUME IInv, Setters, unicast' \in Endpoint(Addresses), group' \in Endpoint(Groups),
           unicast'.port # 0 \/ UNCHANGED unicast
    PROVE  IInv'
<1>1. TypeOK'
  BY NothingTyped DEF Setters, IInv, TypeOK
<1>2. FreshPorts' /\ PortKnown'
  BY DEF Setters, FreshPorts, IInv, PortKnown
<1> QED
  BY <1>1, <1>2, SocketsKept DEF Setters, IInv

LEMMA StepIInv ==
    ASSUME IInv, [Next]_vars
    PROVE  IInv'
<1>e. /\ \A p \in Ports : p # 0
      /\ unicast \in Endpoint(Addresses) /\ group \in Endpoint(Groups)
  BY Bip6Assumption DEF IInv, TypeOK
<1>1. ASSUME NEW p \in Ports, SetPort(p) PROVE IInv'
  <2>1. unicast' \in Endpoint(Addresses) /\ group' \in Endpoint(Groups) /\ unicast'.port # 0
    BY <1>1, <1>e DEF SetPort, Endpoint
  <2> QED
    BY <1>1, <2>1, SetterStep DEF SetPort
<1>2. ASSUME NEW p \in Ports, NEW a \in Addresses, SetAddr(a, p) PROVE IInv'
  <2>1. unicast' \in Endpoint(Addresses) /\ group' \in Endpoint(Groups) /\ unicast'.port # 0
    BY <1>2, <1>e DEF SetAddr, Endpoint
  <2> QED
    BY <1>2, <2>1, SetterStep DEF SetAddr
<1>3. ASSUME NEW p \in Ports, NEW g \in Groups, SetGroup(g, p) PROVE IInv'
  <2>1. unicast' \in Endpoint(Addresses) /\ group' \in Endpoint(Groups) /\ UNCHANGED unicast
    BY <1>3, <1>e DEF SetGroup, Endpoint
  <2> QED
    BY <1>3, <2>1, SetterStep DEF SetGroup
<1>4. ASSUME NEW n \in 0..MaxLength, NEW ours \in BOOLEAN, NEW offset \in 0..MaxOffset,
             Receive(n, ours, offset)
      PROVE  IInv'
  <2>1. /\ Passed(Received(n), offset) \in NpduType
        /\ Passed(Received(n), offset).offset + Passed(Received(n), offset).length
               <= Passed(Received(n), offset).received
    BY PassedType
  <2>2. /\ io' = [fd |-> sock, npdu |-> Passed(Received(n), offset)]
        /\ readable' = readable \ {sock}
        /\ UNCHANGED <<link, slot, refused, fresh>>
    BY <1>4 DEF Receive
  <2>3. io' \in [fd : Descriptors \cup {-1}, npdu : NpduType] /\ io'.fd = sock /\ NpduReceived'
    BY <2>1, <2>2 DEF IInv, TypeOK, NpduReceived
  <2>4. TypeOK'
    BY <2>2, <2>3 DEF IInv, TypeOK, link
  <2>5. SocketOwned'
    BY <2>2, <2>3 DEF IInv, SocketOwned, link
  <2>6. SocketOpen' /\ NoneBound' /\ OneBound' /\ Accounted' /\ FreshPorts' /\ PortKnown'
    BY <2>2 DEF link, IInv, SocketOpen, NoneBound, OneBound, Accounted, FreshPorts, PortKnown
  <2> QED
    BY <2>3, <2>4, <2>5, <2>6 DEF IInv
<1>5. CASE Send
  <2>1. /\ io' = [fd |-> sock, npdu |-> Nothing]
        /\ UNCHANGED <<link, slot, readable, refused, fresh>>
    BY <1>5 DEF Send
  <2>2. io' \in [fd : Descriptors \cup {-1}, npdu : NpduType] /\ io'.fd = sock /\ NpduReceived'
    BY <2>1, NothingTyped DEF IInv, TypeOK, NpduReceived, NoIo
  <2>3. TypeOK'
    BY <2>1, <2>2 DEF IInv, TypeOK, link
  <2>4. SocketOwned'
    BY <2>1, <2>2 DEF IInv, SocketOwned, link
  <2>5. SocketOpen' /\ NoneBound' /\ OneBound' /\ Accounted' /\ FreshPorts' /\ PortKnown'
    BY <2>1 DEF link, IInv, SocketOpen, NoneBound, OneBound, Accounted, FreshPorts, PortKnown
  <2> QED
    BY <2>2, <2>3, <2>4, <2>5 DEF IInv
<1>6. ASSUME NEW d \in Descriptors, Arrive(d) PROVE IInv'
  <2>1. /\ readable' = readable \cup {d} /\ io' = NoIo
        /\ UNCHANGED <<link, slot, refused, fresh>>
    BY <1>6 DEF Arrive
  <2>2. TypeOK'
    BY <2>1, NothingTyped DEF IInv, TypeOK, link
  <2>3. FreshPorts' /\ PortKnown'
    BY <2>1 DEF link, IInv, FreshPorts, PortKnown
  <2> QED
    BY <2>1, <2>2, <2>3, SocketsKept DEF link, IInv
<1>7. ASSUME NEW d \in Descriptors, OtherSocket(d) PROVE IInv'
  <2>1. /\ io' = NoIo /\ owner' \in [Descriptors -> {"free", "bip6", "other"}]
        /\ \A b \in Descriptors : owner'[b] = "bip6" <=> owner[b] = "bip6"
        /\ UNCHANGED <<pc, port, unicast, group, sock, bound, slot, readable, refused, fresh>>
    BY <1>7 DEF OtherSocket, IInv, TypeOK
  <2>2. TypeOK'
    BY <2>1, NothingTyped DEF IInv, TypeOK
  <2>3. SocketOwned' /\ NpduReceived'
    BY <2>1, NothingTyped DEF IInv, TypeOK, SocketOwned, NpduReceived
  <2>4. SocketOpen' /\ NoneBound' /\ OneBound' /\ Accounted' /\ FreshPorts' /\ PortKnown'
    BY <2>1 DEF IInv, SocketOpen, NoneBound, OneBound, Accounted, FreshPorts, PortKnown
  <2> QED
    BY <2>2, <2>3, <2>4 DEF IInv
<1>8. ASSUME NEW a \in Addresses \cup {Unset}, SlotChanges(a) PROVE IInv'
  <2>1. slot' = a /\ io' = NoIo /\ UNCHANGED <<link, readable, refused, fresh>>
    BY <1>8 DEF SlotChanges
  <2>2. TypeOK'
    BY <2>1, NothingTyped DEF IInv, TypeOK, link
  <2>3. FreshPorts' /\ PortKnown'
    BY <2>1 DEF link, IInv, FreshPorts, PortKnown
  <2> QED
    BY <2>1, <2>2, <2>3, SocketsKept DEF link, IInv
<1>9. CASE UNCHANGED vars
  <2>1. TypeOK' /\ SocketOwned' /\ NpduReceived'
    BY <1>9 DEF vars, link, IInv, TypeOK, SocketOwned, NpduReceived
  <2>2. SocketOpen' /\ NoneBound' /\ OneBound' /\ Accounted' /\ FreshPorts' /\ PortKnown'
    BY <1>9 DEF vars, link, IInv, SocketOpen, NoneBound, OneBound, Accounted, FreshPorts, PortKnown
  <2> QED
    BY <2>1, <2>2 DEF IInv
<1> QED
  BY <1>1, <1>2, <1>3, <1>4, <1>5, <1>6, <1>7, <1>8, <1>9,
     BeginStep, CreateStep, JoinStep, BindStep, CleanupStep
  DEF Next

-----------------------------------------------------------------------------
\* The inductive invariant.
THEOREM Invariance == Spec => []IInv
<1>1. Init => IInv
  BY InitIInv
<1>2. IInv /\ [Next]_vars => IInv'
  BY StepIInv
<1> QED
  BY <1>1, <1>2, PTL DEF Spec

\* The variables keep their types.
THEOREM TypeCorrect == Spec => []TypeOK
<1>1. IInv => TypeOK
  BY DEF IInv
<1> QED
  BY <1>1, Invariance, PTL

\* bip6_cleanup() and the packets never touch a descriptor of another's.
THEOREM SocketIsOwn == Spec => []SocketOwned
<1>1. IInv => SocketOwned
  BY DEF IInv
<1> QED
  BY <1>1, Invariance, PTL

\* What the datalink leaves open it has bound and kept, or could not join the group with.
THEOREM LostOnlyIfRefused == Spec => []UnboundOnlyIfRefused
<1>1. IInv => UnboundOnlyIfRefused
  BY DEF IInv, OneBound, Accounted, UnboundOnlyIfRefused, Opened
<1> QED
  BY <1>1, Invariance, PTL

\* The socket, the address and the group have one port after a bip6_init().
THEOREM OnePort == Spec => []PortsAgree
<1>1. IInv => PortsAgree
  BY DEF IInv, TypeOK, FreshPorts, PortsAgree
<1> QED
  BY <1>1, Invariance, PTL

\* No wrapped length gets out of bip6_receive(), for any buffer and any datagram.
THEOREM OnlyReceivedBytes == Spec => []NpduReceived
<1>1. IInv => NpduReceived
  BY DEF IInv
<1> QED
  BY <1>1, Invariance, PTL
=============================================================================
