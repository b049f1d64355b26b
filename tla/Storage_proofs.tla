--------------------------- MODULE Storage_proofs ---------------------------
(***************************************************************************)
(* Proofs about Storage, for any properties, priorities and values.        *)
(*                                                                         *)
(* A request, the key it is saved under and the request the key is         *)
(* restored with name the same slots (RoundTrip).  When no client writes a *)
(* whole array, keys and slots are the same thing and no two writes share  *)
(* one (KeysAreSlots); that and a handler registered under the keys' base  *)
(* name are the two assumptions of Restores and StoreRefinement.  Runs of  *)
(* TLC show that neither can be dropped; what is left of a restart without *)
(* the one or the other is in SinglesComeBack, NothingComesBack and        *)
(* ColdStartForgets.                                                       *)
(***************************************************************************)
EXTENDS Storage, TLAPS

RestoredValue(s) == IF saved[s] = Absent THEN Default ELSE saved[s]

\* What holds whatever the clients write and the handler is called.
LoadsStored == phase = "load" => todo \subseteq Stored
Sound == TypeOK /\ LoadsStored /\ ClearLeavesOnlyFailures

\* While the load is on, a slot is at its default until its key's turn has come.
Loading == phase = "load" =>
    \A s \in Slots : live[s] = IF s \in todo THEN Default ELSE RestoredValue(s)

-----------------------------------------------------------------------------
(* Keys, requests and slots.                                               *)

\* A saved write is restored to the slots it was made to, also a whole array's.
LEMMA RoundTrip ==
    ASSUME NEW r \in Requests
    PROVE  Targets(RestoreRequest(StoreKey(r))) = Targets(r)
<1>1. CASE r.prop \in Commandable
  BY <1>1 DEF StoreKey, RestoreRequest, Targets
<1>2. CASE r.prop \notin Commandable
  BY <1>2 DEF StoreKey, RestoreRequest, Targets
<1> QED
  BY <1>1, <1>2

\* Without whole-array writes a request writes the one slot that is its key.
LEMMA OneSlot ==
    ASSUME WholeArrays = FALSE, NEW r \in Requests
    PROVE  StoreKey(r) \in Slots /\ Targets(r) = {StoreKey(r)}
<1>1. CASE r \in [prop : Commandable, index : {All}, priority : 1..MaxPriority]
  <2>1. StoreKey(r) = <<r.prop, r.priority>> /\ StoreKey(r) \in Slots
    BY <1>1 DEF StoreKey, Slots
  <2> QED
    BY <1>1, <2>1 DEF Targets
<1>2. CASE r \in [prop : Arrays, index : 1..MaxElement, priority : {MaxPriority}]
  <2>1. r.prop \notin Commandable /\ r.index \in 1..MaxElement /\ r.index # All
    BY <1>2, StorageAssumption
  <2>2. StoreKey(r) = <<r.prop, r.index>> /\ StoreKey(r) \in Slots
    BY <1>2, <2>1 DEF StoreKey, Slots
  <2> QED
    BY <2>1, <2>2 DEF Targets
<1>3. CASE r \in [prop : Plain, index : {All}, priority : {MaxPriority}]
  <2>1. r.prop \notin Commandable /\ r.prop \notin Arrays /\ r.index = All
    BY <1>3, StorageAssumption
  <2>2. StoreKey(r) = <<r.prop, All>> /\ StoreKey(r) \in Slots
    BY <1>3, <2>1 DEF StoreKey, Slots
  <2>3. \A s \in Slots : s[1] = r.prop => s = <<r.prop, All>>
    BY <1>3, <2>1 DEF Slots
  <2>4. Targets(r) = {s \in Slots : s[1] = r.prop}
    BY <2>1 DEF Targets
  <2> QED
    BY <2>2, <2>3, <2>4
<1> QED
  BY <1>1, <1>2, <1>3 DEF Requests

\* So the keys are the slots, and a key is restored to itself.
LEMMA KeysAreSlots ==
    ASSUME WholeArrays = FALSE
    PROVE  /\ Keys = Slots
           /\ \A k \in Keys : Targets(RestoreRequest(k)) = {k}
<1>1. Keys \subseteq Slots
  BY OneSlot DEF Keys
<1>2. ASSUME NEW s \in Slots PROVE s \in Keys
  <2>1. CASE s \in Commandable \X (1..MaxPriority)
    <3> DEFINE r == [prop |-> s[1], index |-> All, priority |-> s[2]]
    <3>1. r \in Requests /\ StoreKey(r) = s
      BY <2>1 DEF Requests, StoreKey
    <3> QED
      BY <3>1 DEF Keys
  <2>2. CASE s \in Arrays \X (1..MaxElement)
    <3> DEFINE r == [prop |-> s[1], index |-> s[2], priority |-> MaxPriority]
    <3>1. r \in Requests /\ StoreKey(r) = s
      BY <2>2, StorageAssumption DEF Requests, StoreKey
    <3> QED
      BY <3>1 DEF Keys
  <2>3. CASE s \in Plain \X {All}
    <3> DEFINE r == [prop |-> s[1], index |-> All, priority |-> MaxPriority]
    <3>1. r \in Requests /\ StoreKey(r) = s
      BY <2>3, StorageAssumption DEF Requests, StoreKey
    <3> QED
      BY <3>1 DEF Keys
  <2> QED
    BY <2>1, <2>2, <2>3 DEF Slots
<1>3. \A k \in Keys : Targets(RestoreRequest(k)) = {k}
  BY OneSlot, RoundTrip DEF Keys
<1> QED
  BY <1>1, <1>2, <1>3

-----------------------------------------------------------------------------
(* Types, the load list and the clearing, for every client.                *)

LEMMA KeysTyped ==
    /\ \A r \in Requests : StoreKey(r) \in Keys
    /\ Loadable \subseteq Stored
    /\ Stored \subseteq Keys
BY DEF Keys, Loadable, Stored

LEMMA PutTyped ==
    ASSUME NEW V, NEW f \in [Slots -> V], NEW S, NEW v \in V
    PROVE  Put(f, S, v) \in [Slots -> V]
BY DEF Put

LEMMA SavedTyped ==
    ASSUME NEW f \in [Slots -> Values \cup {Absent}], NEW S
    PROVE  /\ Put(f, S, Absent) \in [Slots -> Values \cup {Absent}]
           /\ \A v \in Values : Put(f, S, v) \in [Slots -> Values \cup {Absent}]
BY DEF Put

LEMMA SoundInit == Init => Sound
BY StorageAssumption DEF Init, Sound, TypeOK, LoadsStored, ClearLeavesOnlyFailures

LEMMA SoundStart ==
    ASSUME Sound, Start, UNCHANGED <<nv, saved>>
    PROVE  Sound'
<1>1. Stored' = Stored
  BY DEF Start, Stored
<1> QED
  BY <1>1, KeysTyped, StorageAssumption
  DEF Sound, Start, TypeOK, LoadsStored, ClearLeavesOnlyFailures

LEMMA SoundStep ==
    ASSUME Sound, [Next]_vars
    PROVE  Sound'
<1>1. CASE PowerLoss
  BY <1>1, SoundStart DEF PowerLoss
<1>2. CASE LoadDone
  BY <1>2 DEF LoadDone, Sound, TypeOK, LoadsStored, ClearLeavesOnlyFailures
<1>3. ASSUME NEW k \in Keys, LoadOne(k) PROVE Sound'
  <2>1. nv[k] \in Values
    BY <1>3 DEF LoadOne, Sound, TypeOK, LoadsStored, Stored
  <2>2. live' \in [Slots -> Values]
    BY <1>3, <2>1, PutTyped DEF LoadOne, Sound, TypeOK
  <2> QED
    BY <1>3, <2>2 DEF LoadOne, Sound, TypeOK, LoadsStored, ClearLeavesOnlyFailures, Stored
<1>4. ASSUME NEW k \in Keys, ShellDelete(k) PROVE Sound'
  <2>1. saved' \in [Slots -> Values \cup {Absent}]
    BY <1>4, SavedTyped DEF ShellDelete, Sound, TypeOK
  <2> QED
    BY <1>4, <2>1 DEF ShellDelete, Sound, TypeOK, LoadsStored, ClearLeavesOnlyFailures
<1>5. ASSUME NEW k \in Keys, NEW v \in Values, ShellSet(k, v) PROVE Sound'
  <2>1. saved' \in [Slots -> Values \cup {Absent}]
    BY <1>5, SavedTyped DEF ShellSet, Sound, TypeOK
  <2> QED
    BY <1>5, <2>1 DEF ShellSet, Sound, TypeOK, LoadsStored, ClearLeavesOnlyFailures
<1>6. ASSUME NEW r \in Requests, NEW v \in Values, WriteProperty(r, v) PROVE Sound'
  <2>1. live' \in [Slots -> Values]
    BY <1>6, PutTyped DEF WriteProperty, Sound, TypeOK
  <2> QED
    BY <1>6, <2>1 DEF WriteProperty, Sound, TypeOK, LoadsStored, ClearLeavesOnlyFailures
<1>7. ASSUME NEW ok \in BOOLEAN, StoreCallback(ok) PROVE Sound'
  <2>1. request.req \in Requests /\ request.value \in Values
    BY <1>7 DEF StoreCallback, Sound, TypeOK
  <2>2. saved' \in [Slots -> Values \cup {Absent}]
    <3>1. saved \in [Slots -> Values \cup {Absent}]
      BY DEF Sound, TypeOK
    <3>2. CASE ok
      <4>1. saved' = Put(saved, Targets(request.req), request.value)
        BY <1>7, <3>2 DEF StoreCallback
      <4> DEFINE S == Targets(request.req)
                 v == request.value
      <4>2. v \in Values
        BY <2>1
      <4>3. Put(saved, S, v) \in [Slots -> Values \cup {Absent}]
        <5> HIDE DEF S, v
        <5> QED BY <3>1, <4>2, SavedTyped
      <4> QED
        BY <4>1, <4>3
    <3>3. CASE ~ok
      BY <1>7, <3>1, <3>3 DEF StoreCallback
    <3> QED
      BY <3>2, <3>3
  <2>3. nv' \in [Keys -> Values \cup {Absent}]
    BY <1>7, <2>1, KeysTyped DEF StoreCallback, Sound, TypeOK
  <2> QED
    BY <1>7, <2>2, <2>3
    DEF StoreCallback, Sound, TypeOK, LoadsStored, ClearLeavesOnlyFailures
<1>8. ASSUME NEW ok \in BOOLEAN, NEW k \in Keys, ClearOne(k, ok) PROVE Sound'
  <2>1. saved' \in [Slots -> Values \cup {Absent}]
    BY <1>8, SavedTyped DEF ClearOne, Sound, TypeOK
  <2>2. TypeOK'
    BY <1>8, <2>1 DEF ClearOne, Sound, TypeOK
  <2>3. Stored' \subseteq todo' \cup failed'
    BY <1>8 DEF ClearOne, Sound, TypeOK, ClearLeavesOnlyFailures, Stored
  <2> QED
    BY <1>8, <2>2, <2>3 DEF ClearOne, Sound, LoadsStored, ClearLeavesOnlyFailures
<1>9. CASE List
  BY <1>9 DEF List, Sound, TypeOK, LoadsStored, ClearLeavesOnlyFailures
<1>10. CASE ClearBegin
  <2>1. Stored' = Stored
    BY <1>10 DEF ClearBegin, Stored
  <2> QED
    BY <1>10, <2>1, KeysTyped
    DEF ClearBegin, Sound, TypeOK, LoadsStored, ClearLeavesOnlyFailures
<1>11. CASE ClearDone
  BY <1>11, SoundStart DEF ClearDone
<1>12. CASE UNCHANGED vars
  BY <1>12 DEF vars, Sound, TypeOK, LoadsStored, ClearLeavesOnlyFailures, Stored
<1> QED
  BY <1>1, <1>2, <1>3, <1>4, <1>5, <1>6, <1>7, <1>8, <1>9, <1>10, <1>11, <1>12 DEF Next

\* The unconditional invariant: types, a load list of stored keys only, and what
\* a clearing may leave behind.
THEOREM Soundness == Spec => []Sound
<1>1. Init => Sound
  BY SoundInit
<1>2. Sound /\ [Next]_vars => Sound'
  BY SoundStep
<1> QED
  BY <1>1, <1>2, PTL DEF Spec

\* The variables keep their types, whole-array writes and base name regardless.
THEOREM TypeCorrect == Spec => []TypeOK
<1>1. Sound => TypeOK
  BY DEF Sound
<1> QED
  BY <1>1, Soundness, PTL

\* bacnet_storage_clear() carries on after a key it cannot delete: what is left is
\* still to be deleted or has failed.
THEOREM ClearCarriesOn == Spec => []ClearLeavesOnlyFailures
<1>1. Sound => ClearLeavesOnlyFailures
  BY DEF Sound
<1> QED
  BY <1>1, Soundness, PTL

-----------------------------------------------------------------------------
(* One key, one value: when no client writes a whole array.                *)

\* What saving or deleting under a key does to the keys and to the slots.
LEMMA OneKeyOneSlot ==
    ASSUME WholeArrays = FALSE, Sound, KeysHoldSaved,
           NEW k \in Keys, NEW v,
           nv' = [nv EXCEPT ![k] = v], saved' = Put(saved, {k}, v)
    PROVE  KeysHoldSaved'
<1>1. \A j \in Keys : nv'[j] = IF j = k THEN v ELSE nv[j]
  BY DEF Sound, TypeOK
<1>2. \A s \in Slots : saved'[s] = IF s = k THEN v ELSE saved[s]
  BY DEF Put
<1>3. \A j \in Keys : nv[j] = saved[j]
  BY KeysAreSlots DEF KeysHoldSaved
<1>4. \A j \in Keys : nv'[j] = saved'[j]
  BY <1>1, <1>2, <1>3, KeysAreSlots
<1> QED
  BY <1>4, KeysAreSlots DEF KeysHoldSaved

LEMMA KeysHoldSavedStep ==
    ASSUME WholeArrays = FALSE, Sound, KeysHoldSaved, [Next]_vars
    PROVE  KeysHoldSaved'
<1>1. CASE UNCHANGED <<nv, saved>>
  BY <1>1 DEF KeysHoldSaved
<1>2. ASSUME NEW k \in Keys, ShellDelete(k) PROVE KeysHoldSaved'
  <2>1. saved' = Put(saved, {k}, Absent)
    BY <1>2, KeysAreSlots DEF ShellDelete
  <2> QED
    BY <1>2, <2>1, OneKeyOneSlot DEF ShellDelete
<1>3. ASSUME NEW k \in Keys, NEW v \in Values, ShellSet(k, v) PROVE KeysHoldSaved'
  <2>1. saved' = Put(saved, {k}, v)
    BY <1>3, KeysAreSlots DEF ShellSet
  <2> QED
    BY <1>3, <2>1, OneKeyOneSlot DEF ShellSet
<1>4. ASSUME StoreCallback(TRUE) PROVE KeysHoldSaved'
  <2>1. request.req \in Requests
    BY <1>4 DEF StoreCallback, Sound, TypeOK
  <2>2. StoreKey(request.req) \in Keys
    BY <2>1, KeysTyped
  <2>3. saved' = Put(saved, {StoreKey(request.req)}, request.value)
    BY <1>4, <2>1, OneSlot DEF StoreCallback
  <2> QED
    BY <1>4, <2>2, <2>3, OneKeyOneSlot DEF StoreCallback
<1>5. ASSUME NEW k \in Keys, ClearOne(k, TRUE) PROVE KeysHoldSaved'
  <2>1. saved' = Put(saved, {k}, Absent)
    BY <1>5, KeysAreSlots DEF ClearOne
  <2> QED
    BY <1>5, <2>1, OneKeyOneSlot DEF ClearOne
<1>6. ASSUME NEW ok \in BOOLEAN, ok = FALSE, StoreCallback(ok) PROVE UNCHANGED <<nv, saved>>
  BY <1>6 DEF StoreCallback
<1>7. ASSUME NEW ok \in BOOLEAN, ok = FALSE, NEW k \in Keys, ClearOne(k, ok)
      PROVE  UNCHANGED <<nv, saved>>
  BY <1>7 DEF ClearOne
<1>8. ASSUME \/ PowerLoss \/ LoadDone \/ List \/ ClearBegin \/ ClearDone \/ UNCHANGED vars
             \/ \E k \in Keys : LoadOne(k)
             \/ \E r \in Requests, v \in Values : WriteProperty(r, v)
      PROVE  UNCHANGED <<nv, saved>>
  BY <1>8 DEF PowerLoss, LoadDone, List, ClearBegin, ClearDone, vars, LoadOne, WriteProperty
<1>9. ASSUME NEW ok \in BOOLEAN, StoreCallback(ok) PROVE KeysHoldSaved'
  BY <1>1, <1>4, <1>6, <1>9
<1>10. ASSUME NEW ok \in BOOLEAN, NEW k \in Keys, ClearOne(k, ok) PROVE KeysHoldSaved'
  BY <1>1, <1>5, <1>7, <1>10
<1> QED
  BY <1>1, <1>2, <1>3, <1>8, <1>9, <1>10 DEF Next

LEMMA KeysHoldSavedInit == ASSUME WholeArrays = FALSE, Init PROVE KeysHoldSaved
BY KeysAreSlots DEF Init, KeysHoldSaved

\* Without whole-array writes a key always holds the last value saved for its slot.
THEOREM KeysMatch ==
    ASSUME WholeArrays = FALSE
    PROVE  Spec => []KeysHoldSaved
<1>1. Init => KeysHoldSaved
  BY KeysHoldSavedInit
<1>2. Sound /\ KeysHoldSaved /\ [Next]_vars => KeysHoldSaved'
  BY KeysHoldSavedStep
<1> QED
  BY <1>1, <1>2, Soundness, PTL DEF Spec

-----------------------------------------------------------------------------
(* Restarts.                                                               *)

LEMMA RestoredIsKept ==
    ASSUME WholeArrays = FALSE, KeysHoldSaved
    PROVE  \A s \in Slots : s \in Keys /\ nv[s] = saved[s]
BY KeysAreSlots DEF KeysHoldSaved

LEMMA StartLoads ==
    ASSUME WholeArrays = FALSE, BaseName = HandlerName, KeysHoldSaved,
           Start, UNCHANGED <<nv, saved>>
    PROVE  Loading'
<1>1. \A s \in Slots : live'[s] = Default /\ (s \in todo' <=> saved'[s] # Absent)
  BY RestoredIsKept DEF Start, Loadable, Stored
<1> QED
  BY <1>1 DEF Loading, RestoredValue

LEMMA LoadingStep ==
    ASSUME WholeArrays = FALSE, BaseName = HandlerName,
           Sound, KeysHoldSaved, Loading, [Next]_vars
    PROVE  Loading'
<1>1. CASE PowerLoss
  BY <1>1, StartLoads DEF PowerLoss
<1>2. CASE ClearDone
  BY <1>2, StartLoads DEF ClearDone
<1>3. ASSUME NEW k \in Keys, LoadOne(k) PROVE Loading'
  <2>1. nv[k] = RestoredValue(k)
    BY <1>3, RestoredIsKept, KeysAreSlots
    DEF LoadOne, Sound, LoadsStored, Stored, RestoredValue
  <2>2. \A s \in Slots : live'[s] = IF s = k THEN nv[k] ELSE live[s]
    BY <1>3, KeysAreSlots DEF LoadOne, Put
  <2>3. \A s \in Slots : live[s] = IF s \in todo THEN Default ELSE RestoredValue(s)
    BY <1>3 DEF LoadOne, Loading
  <2>4. todo' = todo \ {k} /\ saved' = saved
    BY <1>3 DEF LoadOne
  <2> QED
    BY <2>1, <2>2, <2>3, <2>4 DEF Loading, RestoredValue
<1>4. CASE LoadDone
  BY <1>4 DEF LoadDone, Loading
<1>5. CASE UNCHANGED vars
  BY <1>5 DEF vars, Loading, RestoredValue
<1>6. ASSUME \/ List \/ ClearBegin
             \/ \E k \in Keys : ShellDelete(k) \/ \E v \in Values : ShellSet(k, v)
             \/ \E r \in Requests, v \in Values : WriteProperty(r, v)
             \/ \E ok \in BOOLEAN : StoreCallback(ok) \/ \E k \in Keys : ClearOne(k, ok)
      PROVE  phase' # "load"
  BY <1>6 DEF List, ClearBegin, ShellDelete, ShellSet, WriteProperty, StoreCallback, ClearOne
<1>7. CASE phase' # "load"
  BY <1>7 DEF Loading
<1> QED
  BY <1>1, <1>2, <1>3, <1>4, <1>5, <1>6, <1>7 DEF Next

LEMMA LoadingInit == ASSUME WholeArrays = FALSE, Init PROVE Loading
BY DEF Init, Loading, RestoredValue

LEMMA LoadingOver == ASSUME Loading PROVE RestoreComplete
BY DEF Loading, RestoreComplete, RestoredValue

\* With the handler under the keys' base name and no whole-array writes, every
\* value that was saved is back when the load is over, in whatever order the
\* backend hands the keys out and wherever the power failed before.
THEOREM Restores ==
    ASSUME WholeArrays = FALSE, BaseName = HandlerName
    PROVE  Spec => []RestoreComplete
<1>1. Init => Loading
  BY LoadingInit
<1>2. Sound /\ KeysHoldSaved /\ Loading /\ [Next]_vars => Loading'
  BY LoadingStep
<1>3. Loading => RestoreComplete
  BY LoadingOver
<1> QED
  BY <1>1, <1>2, <1>3, Soundness, KeysMatch, PTL DEF Spec

-----------------------------------------------------------------------------
(* Storage implements the durable store.                                   *)

\* The value Abstract sees in use.
Seen == IF phase = "load" THEN [s \in Slots |-> RestoredValue(s)] ELSE live

Running == phase # "load"

LEMMA AbstractSees ==
    /\ Abstract!Next <=>
        \/ /\ Running /\ Running'
           /\ \/ Seen' \in [Slots -> Values] /\ UNCHANGED saved
              \/ \E S \in SUBSET Slots :
                    \/ saved' = Put(saved, S, Absent) /\ UNCHANGED Seen
                    \/ \E v \in Values : saved' = Put(saved, S, v) /\ UNCHANGED Seen
        \/ ~Running /\ Running' /\ UNCHANGED <<Seen, saved>>
        \/ ~Running' /\ Seen' = [s \in Slots |-> RestoredValue(s)] /\ UNCHANGED saved
    /\ Abstract!Init <=> ~Running /\ Seen = [s \in Slots |-> RestoredValue(s)]
                         /\ saved = [s \in Slots |-> Absent]
BY DEF Abstract!Next, Abstract!Erase, Abstract!Write, Abstract!Save, Abstract!Restart,
       Abstract!Resume, Abstract!Put, Abstract!Restored, Abstract!Init, Put, Seen,
       RestoredValue, Running

LEMMA TargetsAreSlots == \A r \in Requests : Targets(r) \in SUBSET Slots
BY DEF Targets

LEMMA KeyTargetsAreSlots == \A k \in Keys : Targets(RestoreRequest(k)) \in SUBSET Slots
BY RoundTrip, TargetsAreSlots DEF Keys

LEMMA RestartSeen ==
    ASSUME Start, UNCHANGED <<nv, saved>>
    PROVE  ~Running' /\ Seen' = [s \in Slots |-> RestoredValue(s)] /\ UNCHANGED saved
BY DEF Start, Seen, RestoredValue, Running

LEMMA StoreStep ==
    ASSUME Sound, RestoreComplete, [Next]_vars
    PROVE  Abstract!Next \/ UNCHANGED <<Running, Seen, saved>>
<1>1. CASE PowerLoss
  BY <1>1, RestartSeen, AbstractSees DEF PowerLoss
<1>2. CASE ClearDone
  BY <1>2, RestartSeen, AbstractSees DEF ClearDone
<1>3. ASSUME NEW k \in Keys, LoadOne(k) PROVE UNCHANGED <<Running, Seen, saved>>
  BY <1>3 DEF LoadOne, Seen, RestoredValue, Running
<1>4. CASE LoadDone
  <2>1. live \in [Slots -> Values]
    BY DEF Sound, TypeOK
  <2>2. live = [s \in Slots |-> RestoredValue(s)]
    BY <1>4, <2>1 DEF LoadDone, RestoreComplete, RestoredValue
  <2>3. ~Running /\ Running' /\ UNCHANGED <<Seen, saved>>
    BY <1>4, <2>2 DEF LoadDone, Seen, Running
  <2> QED
    BY <2>3, AbstractSees
<1>5. ASSUME NEW r \in Requests, NEW v \in Values, WriteProperty(r, v) PROVE Abstract!Next
  <2>1. live' \in [Slots -> Values]
    BY <1>5, PutTyped DEF WriteProperty, Sound, TypeOK
  <2>2. Running /\ Running' /\ Seen' \in [Slots -> Values] /\ UNCHANGED saved
    BY <1>5, <2>1 DEF WriteProperty, Seen, Running
  <2> QED
    BY <2>2, AbstractSees
<1>6. ASSUME NEW ok \in BOOLEAN, StoreCallback(ok)
      PROVE  Abstract!Next \/ UNCHANGED <<Running, Seen, saved>>
  <2>1. request.req \in Requests /\ request.value \in Values
    BY <1>6 DEF StoreCallback, Sound, TypeOK
  <2>2. Running /\ Running' /\ UNCHANGED Seen
    BY <1>6 DEF StoreCallback, Seen, Running
  <2>3. CASE ok
    <3>1. saved' = Put(saved, Targets(request.req), request.value)
      BY <1>6, <2>3 DEF StoreCallback
    <3> QED
      BY <2>1, <2>2, <3>1, TargetsAreSlots, AbstractSees
  <2>4. CASE ~ok
    BY <1>6, <2>2, <2>4 DEF StoreCallback, Running
  <2> QED
    BY <2>3, <2>4
<1>7. ASSUME NEW k \in Keys, NEW v \in Values, ShellSet(k, v) PROVE Abstract!Next
  <2>1. Running /\ Running' /\ saved' = Put(saved, Targets(RestoreRequest(k)), v)
         /\ UNCHANGED Seen
    BY <1>7 DEF ShellSet, Seen, Running
  <2> QED
    BY <2>1, KeyTargetsAreSlots, AbstractSees
<1>8. ASSUME NEW k \in Keys, ShellDelete(k) PROVE Abstract!Next
  <2>1. Running /\ Running' /\ saved' = Put(saved, Targets(RestoreRequest(k)), Absent)
         /\ UNCHANGED Seen
    BY <1>8 DEF ShellDelete, Seen, Running
  <2> QED
    BY <2>1, KeyTargetsAreSlots, AbstractSees
<1>9. ASSUME NEW ok \in BOOLEAN, NEW k \in Keys, ClearOne(k, ok)
      PROVE  Abstract!Next \/ UNCHANGED <<Running, Seen, saved>>
  <2>1. Running /\ Running' /\ UNCHANGED Seen
    BY <1>9 DEF ClearOne, Seen, Running
  <2>2. CASE ok
    <3>1. saved' = Put(saved, Targets(RestoreRequest(k)), Absent)
      BY <1>9, <2>2 DEF ClearOne
    <3> QED
      BY <2>1, <3>1, KeyTargetsAreSlots, AbstractSees
  <2>3. CASE ~ok
    BY <1>9, <2>1, <2>3 DEF ClearOne, Running
  <2> QED
    BY <2>2, <2>3
<1>10. CASE List \/ ClearBegin \/ UNCHANGED vars
  BY <1>10 DEF List, ClearBegin, vars, Seen, RestoredValue, Running
<1> QED
  BY <1>1, <1>2, <1>3, <1>4, <1>5, <1>6, <1>7, <1>8, <1>9, <1>10 DEF Next

LEMMA StoreInit == Init => Abstract!Init
BY AbstractSees DEF Init, Seen, RestoredValue, Running

\* Under the same two assumptions every run of Storage is a run of the durable
\* store: saved values survive restarts and power losses, and nothing else comes
\* back.
THEOREM StoreRefinement ==
    ASSUME WholeArrays = FALSE, BaseName = HandlerName
    PROVE  Spec => Durable
<1>1. Init => Abstract!Init
  BY StoreInit
<1>2. Sound /\ RestoreComplete /\ [Next]_vars =>
          [Abstract!Next]_<<phase # "load",
                            IF phase = "load"
                            THEN [s \in Slots |-> IF saved[s] = Absent THEN Default ELSE saved[s]]
                            ELSE live,
                            saved>>
  BY StoreStep DEF Seen, RestoredValue, Running
<1> QED
  BY <1>1, <1>2, Soundness, Restores, PTL DEF Spec, Durable, Abstract!Spec, Abstract!vars
-----------------------------------------------------------------------------
(* What holds of a restart whatever the clients write.                     *)

\* The key k is restored to the slot s.
Covers(k, s) == s \in Targets(RestoreRequest(k))

\* The keys of a slot that the load has been through.
Loaded(s) == {k \in Stored \ todo : Covers(k, s)}

\* A slot has the value of one of its keys, and its default only while there is none.
LoadedValues == phase = "load" =>
    \A s \in Slots : IF Loaded(s) = {} THEN live[s] = Default
                                       ELSE \E k \in Loaded(s) : live[s] = nv[k]

\* The slots with one key each: all but the elements of arrays.
Singles == {s \in Slots : s[1] \notin Arrays}

SinglesHold == \A s \in Singles : nv[s] = saved[s]

SinglesRestored == phase = "load" /\ todo = {} =>
    \A s \in Singles : live[s] = RestoredValue(s)

\* A saved value has a key that will bring it back.
SavedHasKey == \A s \in Slots : saved[s] # Absent => \E k \in Stored : Covers(k, s)

NothingLoaded == phase = "load" => todo = {} /\ \A s \in Slots : live[s] = Default

\* A restart at the end of a clearing that deleted every key.
FactoryReset == phase = "clear" /\ todo = {} /\ failed = {} /\ phase' = "load" => Init'

\* A step changes nothing that is saved, or one key and the slots it is restored to.
SavesOneKey ==
    \E k \in Keys, v \in Values \cup {Absent} :
        /\ nv' = [nv EXCEPT ![k] = v]
        /\ saved' = Put(saved, Targets(RestoreRequest(k)), v)

LEMMA SavingStep ==
    ASSUME Sound, [Next]_vars
    PROVE  UNCHANGED <<nv, saved>> \/ SavesOneKey
<1>1. ASSUME NEW k \in Keys, ShellDelete(k) PROVE SavesOneKey
  BY <1>1 DEF ShellDelete, SavesOneKey
<1>2. ASSUME NEW k \in Keys, NEW v \in Values, ShellSet(k, v) PROVE SavesOneKey
  BY <1>2 DEF ShellSet, SavesOneKey
<1>3. ASSUME NEW ok \in BOOLEAN, StoreCallback(ok)
      PROVE  UNCHANGED <<nv, saved>> \/ SavesOneKey
  <2>1. CASE ok
    <3>1. request.req \in Requests /\ request.value \in Values
      BY <1>3 DEF StoreCallback, Sound, TypeOK
    <3>2. /\ StoreKey(request.req) \in Keys
          /\ Targets(RestoreRequest(StoreKey(request.req))) = Targets(request.req)
      BY <3>1, KeysTyped, RoundTrip
    <3>3. /\ nv' = [nv EXCEPT ![StoreKey(request.req)] = request.value]
          /\ saved' = Put(saved, Targets(RestoreRequest(StoreKey(request.req))),
                          request.value)
      BY <1>3, <2>1, <3>2 DEF StoreCallback
    <3> QED
      BY <3>1, <3>2, <3>3 DEF SavesOneKey
  <2>2. CASE ~ok
    BY <1>3, <2>2 DEF StoreCallback
  <2> QED
    BY <2>1, <2>2
<1>4. ASSUME NEW ok \in BOOLEAN, NEW k \in Keys, ClearOne(k, ok)
      PROVE  UNCHANGED <<nv, saved>> \/ SavesOneKey
  BY <1>4 DEF ClearOne, SavesOneKey
<1>5. ASSUME \/ PowerLoss \/ LoadDone \/ List \/ ClearBegin \/ ClearDone \/ UNCHANGED vars
             \/ \E k \in Keys : LoadOne(k)
             \/ \E r \in Requests, v \in Values : WriteProperty(r, v)
      PROVE  UNCHANGED <<nv, saved>>
  BY <1>5 DEF PowerLoss, LoadDone, List, ClearBegin, ClearDone, vars, LoadOne, WriteProperty
<1> QED
  BY <1>1, <1>2, <1>3, <1>4, <1>5 DEF Next

\* Saving under a key gives its slots a key, deleting one leaves them nothing saved.
LEMMA SavedHasKeyStep ==
    ASSUME Sound, SavedHasKey, [Next]_vars
    PROVE  SavedHasKey'
<1>1. CASE UNCHANGED <<nv, saved>>
  BY <1>1 DEF SavedHasKey, Stored, Covers
<1>2. CASE SavesOneKey
  <2>1. PICK k \in Keys, v \in Values \cup {Absent} :
            /\ nv' = [nv EXCEPT ![k] = v]
            /\ saved' = Put(saved, Targets(RestoreRequest(k)), v)
    BY <1>2 DEF SavesOneKey
  <2>2. \A j \in Keys : nv'[j] = IF j = k THEN v ELSE nv[j]
    BY <2>1 DEF Sound, TypeOK
  <2>3. ASSUME NEW s \in Slots, saved'[s] # Absent
        PROVE  \E j \in Stored' : Covers(j, s)
    <3>1. CASE Covers(k, s)
      <4>1. v # Absent
        BY <2>1, <2>3, <3>1 DEF Put, Covers
      <4>2. k \in Stored'
        BY <2>2, <4>1 DEF Stored
      <4> QED
        BY <3>1, <4>2
    <3>2. CASE ~ Covers(k, s)
      <4>1. saved[s] # Absent
        BY <2>1, <2>3, <3>2 DEF Put, Covers
      <4>2. PICK j \in Stored : Covers(j, s)
        BY <4>1 DEF SavedHasKey
      <4>3. j \in Stored'
        BY <2>2, <3>2, <4>2 DEF Stored
      <4> QED
        BY <4>2, <4>3
    <3> QED
      BY <3>1, <3>2
  <2>4. \A j, s : Covers(j, s)' <=> Covers(j, s)
    BY DEF Covers
  <2> QED
    BY <2>3, <2>4 DEF SavedHasKey
<1> QED
  BY <1>1, <1>2, SavingStep

\* A restart that loads nothing and finds nothing saved starts from the beginning.
LEMMA ResetStep ==
    ASSUME Sound, SavedHasKey, [Next]_vars
    PROVE  FactoryReset
<1> SUFFICES ASSUME phase = "clear", todo = {}, failed = {}, phase' = "load" PROVE Init'
  BY DEF FactoryReset
<1>1. Stored = {}
  BY DEF Sound, ClearLeavesOnlyFailures
<1>2. PowerLoss \/ ClearDone
  BY DEF Next, PowerLoss, ClearDone, LoadDone, LoadOne, ShellDelete, ShellSet, WriteProperty,
         StoreCallback, ClearOne, List, ClearBegin, vars
<1>3. Start /\ UNCHANGED <<nv, saved>>
  BY <1>2 DEF PowerLoss, ClearDone
<1>4. \A k \in Keys : nv[k] = Absent
  BY <1>1 DEF Stored
<1>5. \A s \in Slots : saved[s] = Absent
  BY <1>1 DEF SavedHasKey
<1>6. nv' = [k \in Keys |-> Absent] /\ saved' = [s \in Slots |-> Absent]
  BY <1>3, <1>4, <1>5 DEF Sound, TypeOK
<1>7. todo' = {}
  BY <1>1, <1>3 DEF Start, Loadable
<1> QED
  BY <1>3, <1>6, <1>7 DEF Start, Init

\* A cold start whose deletions all succeed brings the device back to its first
\* start: no value of before it, not even one only a whole-array key held, is saved
\* any more or in use.
THEOREM ColdStartForgets == Spec => []SavedHasKey /\ [][FactoryReset]_vars
<1>1. Init => SavedHasKey
  BY DEF Init, SavedHasKey
<1>2. Sound /\ SavedHasKey /\ [Next]_vars => SavedHasKey'
  BY SavedHasKeyStep
<1>3. Sound /\ SavedHasKey /\ [Next]_vars => [FactoryReset]_vars
  BY ResetStep
<1> QED
  BY <1>1, <1>2, <1>3, Soundness, PTL DEF Spec

-----------------------------------------------------------------------------
(* What the load leaves in a slot.                                         *)

LEMMA StartLoadedValues ==
    ASSUME BaseName = HandlerName, Start, UNCHANGED <<nv, saved>>
    PROVE  LoadedValues'
<1>1. Stored' = Stored /\ todo' = Stored
  BY DEF Start, Loadable, Stored
<1>2. \A s \in Slots : Loaded(s)' = {} /\ live'[s] = Default
  BY <1>1 DEF Loaded, Start
<1> QED
  BY <1>2 DEF LoadedValues

LEMMA LoadedValuesStep ==
    ASSUME BaseName = HandlerName, Sound, LoadedValues, [Next]_vars
    PROVE  LoadedValues'
<1>1. CASE PowerLoss
  BY <1>1, StartLoadedValues DEF PowerLoss
<1>2. CASE ClearDone
  BY <1>2, StartLoadedValues DEF ClearDone
<1>3. ASSUME NEW k \in Keys, LoadOne(k) PROVE LoadedValues'
  <2>1. k \in Stored /\ k \in todo /\ Stored' = Stored /\ todo' = todo \ {k} /\ nv' = nv
    BY <1>3 DEF LoadOne, Sound, LoadsStored, Stored
  <2>2. ASSUME NEW s \in Slots
        PROVE  IF Loaded(s)' = {} THEN live'[s] = Default
                                  ELSE \E j \in Loaded(s)' : live'[s] = nv'[j]
    <3>1. live'[s] = IF Covers(k, s) THEN nv[k] ELSE live[s]
      BY <1>3 DEF LoadOne, Put, Covers
    <3>2. Loaded(s)' = IF Covers(k, s) THEN Loaded(s) \cup {k} ELSE Loaded(s)
      BY <2>1 DEF Loaded, Covers
    <3>3. IF Loaded(s) = {} THEN live[s] = Default ELSE \E j \in Loaded(s) : live[s] = nv[j]
      BY <1>3 DEF LoadOne, LoadedValues
    <3> QED
      BY <2>1, <3>1, <3>2, <3>3
  <2> QED
    BY <2>2 DEF LoadedValues
<1>4. CASE LoadDone
  BY <1>4 DEF LoadDone, LoadedValues
<1>5. CASE UNCHANGED vars
  BY <1>5 DEF vars, LoadedValues, Loaded, Stored, Covers
<1>6. ASSUME \/ List \/ ClearBegin
             \/ \E k \in Keys : ShellDelete(k) \/ \E v \in Values : ShellSet(k, v)
             \/ \E r \in Requests, v \in Values : WriteProperty(r, v)
             \/ \E ok \in BOOLEAN : StoreCallback(ok) \/ \E k \in Keys : ClearOne(k, ok)
      PROVE  phase' # "load"
  BY <1>6 DEF List, ClearBegin, ShellDelete, ShellSet, WriteProperty, StoreCallback, ClearOne
<1>7. CASE phase' # "load"
  BY <1>7 DEF LoadedValues
<1> QED
  BY <1>1, <1>2, <1>3, <1>4, <1>5, <1>6, <1>7 DEF Next

LEMMA LoadedValuesInit == Init => LoadedValues
<1> SUFFICES ASSUME Init PROVE LoadedValues
  OBVIOUS
<1>1. Stored = {}
  BY DEF Init, Stored
<1> QED
  BY <1>1 DEF Init, LoadedValues, Loaded

\* A slot that is not an array's element has one key, which is the slot.
LEMMA OneKey ==
    ASSUME NEW s \in Singles
    PROVE  /\ s \in Slots /\ s \in Keys
           /\ \A k \in Keys : Covers(k, s) <=> k = s
<1>1. CASE s \in Commandable \X (1..MaxPriority)
  <2> DEFINE r == [prop |-> s[1], index |-> All, priority |-> s[2]]
  <2>1. r \in Requests /\ StoreKey(r) = s /\ s \in Slots
    BY <1>1 DEF Requests, StoreKey, Slots
  <2>2. ASSUME NEW q \in Requests
        PROVE  s \in Targets(q) <=> StoreKey(q) = s
    <3>1. CASE q.prop \in Commandable
      BY <1>1, <2>1, <3>1 DEF Targets, StoreKey
    <3>2. CASE q.prop \notin Commandable
      BY <1>1, <2>1, <3>2 DEF Targets, StoreKey
    <3> QED
      BY <3>1, <3>2
  <2> QED
    BY <2>1, <2>2, RoundTrip DEF Keys, Covers
<1>2. CASE s \in Plain \X {All}
  <2> DEFINE r == [prop |-> s[1], index |-> All, priority |-> MaxPriority]
  <2>1. r \in Requests /\ StoreKey(r) = s /\ s \in Slots
    BY <1>2, StorageAssumption DEF Requests, StoreKey, Slots
  <2>2. ASSUME NEW q \in Requests
        PROVE  s \in Targets(q) <=> StoreKey(q) = s
    <3>1. s[1] \in Plain /\ s[2] = All /\ s = <<s[1], All>>
      BY <1>2
    <3>2. CASE q.prop = s[1]
      <4>1. q.prop \notin Commandable /\ q.prop \notin Arrays
        BY <3>1, <3>2, StorageAssumption
      <4>2. q.index = All
        BY <4>1 DEF Requests
      <4> QED
        BY <2>1, <3>1, <3>2, <4>1, <4>2 DEF Targets, StoreKey
    <3>3. CASE q.prop # s[1]
      <4>1. StoreKey(q) # s
        BY <3>1, <3>3 DEF StoreKey
      <4>2. s \notin Targets(q)
        BY <3>1, <3>3 DEF Targets
      <4> QED
        BY <4>1, <4>2
    <3> QED
      BY <3>2, <3>3
  <2> QED
    BY <2>1, <2>2, RoundTrip DEF Keys, Covers
<1> QED
  BY <1>1, <1>2 DEF Singles, Slots

LEMMA SinglesHoldStep ==
    ASSUME Sound, SinglesHold, [Next]_vars
    PROVE  SinglesHold'
<1>1. CASE UNCHANGED <<nv, saved>>
  BY <1>1 DEF SinglesHold
<1>2. CASE SavesOneKey
  <2>1. PICK k \in Keys, v \in Values \cup {Absent} :
            /\ nv' = [nv EXCEPT ![k] = v]
            /\ saved' = Put(saved, Targets(RestoreRequest(k)), v)
    BY <1>2 DEF SavesOneKey
  <2>2. ASSUME NEW s \in Singles PROVE nv'[s] = saved'[s]
    <3>1. nv'[s] = IF k = s THEN v ELSE nv[s]
      BY <2>1, OneKey DEF Sound, TypeOK
    <3>2. saved'[s] = IF k = s THEN v ELSE saved[s]
      BY <2>1, OneKey DEF Put, Covers
    <3> QED
      BY <3>1, <3>2 DEF SinglesHold
  <2> QED
    BY <2>2 DEF SinglesHold
<1> QED
  BY <1>1, <1>2, SavingStep

LEMMA SinglesHoldInit == Init => SinglesHold
BY OneKey DEF Init, SinglesHold

LEMMA LoadedSingles ==
    ASSUME Sound, LoadedValues, SinglesHold
    PROVE  SinglesRestored
<1> SUFFICES ASSUME phase = "load", todo = {}, NEW s \in Singles
             PROVE  live[s] = RestoredValue(s)
  BY DEF SinglesRestored
<1>1. Loaded(s) = Stored \cap {s}
  BY OneKey DEF Loaded, Stored
<1>2. IF Loaded(s) = {} THEN live[s] = Default ELSE \E k \in Loaded(s) : live[s] = nv[k]
  BY OneKey DEF LoadedValues
<1>3. nv[s] = saved[s] /\ (s \in Stored <=> saved[s] # Absent)
  BY OneKey DEF SinglesHold, Stored
<1> QED
  BY <1>1, <1>2, <1>3 DEF RestoredValue

\* Also where clients write whole arrays, each slot comes back with the value of one
\* of its keys, and to its default only if it has none; every priority of a
\* commandable property and every plain property, having one key, comes back with
\* the last value saved for it.  Only an element of an array can come back older.
THEOREM SinglesComeBack ==
    ASSUME BaseName = HandlerName
    PROVE  Spec => [](LoadedValues /\ SinglesRestored)
<1>1. Init => LoadedValues /\ SinglesHold
  BY LoadedValuesInit, SinglesHoldInit
<1>2. Sound /\ LoadedValues /\ SinglesHold /\ [Next]_vars => LoadedValues' /\ SinglesHold'
  BY LoadedValuesStep, SinglesHoldStep
<1>3. Sound /\ LoadedValues /\ SinglesHold => SinglesRestored
  BY LoadedSingles
<1> QED
  BY <1>1, <1>2, <1>3, Soundness, PTL DEF Spec

-----------------------------------------------------------------------------
(* Another name than the keys'.                                            *)

LEMMA NothingLoadedStep ==
    ASSUME BaseName # HandlerName, NothingLoaded, [Next]_vars
    PROVE  NothingLoaded'
<1>1. CASE PowerLoss \/ ClearDone
  BY <1>1 DEF PowerLoss, ClearDone, Start, Loadable, NothingLoaded
<1>2. ASSUME NEW k \in Keys PROVE ~ LoadOne(k)
  BY DEF LoadOne, NothingLoaded
<1>3. CASE UNCHANGED vars
  BY <1>3 DEF vars, NothingLoaded
<1>4. ASSUME \/ List \/ ClearBegin \/ LoadDone
             \/ \E k \in Keys : ShellDelete(k) \/ \E v \in Values : ShellSet(k, v)
             \/ \E r \in Requests, v \in Values : WriteProperty(r, v)
             \/ \E ok \in BOOLEAN : StoreCallback(ok) \/ \E k \in Keys : ClearOne(k, ok)
      PROVE  phase' # "load"
  BY <1>4 DEF List, ClearBegin, LoadDone, ShellDelete, ShellSet, WriteProperty,
              StoreCallback, ClearOne
<1>5. CASE phase' # "load"
  BY <1>5 DEF NothingLoaded
<1> QED
  BY <1>1, <1>2, <1>3, <1>4, <1>5 DEF Next

\* With the default names, ".bacnet" for the keys and "bacnet" for the handler, every
\* start loads nothing at all: RestoreComplete holds only while no value other than
\* a default is saved.
THEOREM NothingComesBack ==
    ASSUME BaseName # HandlerName
    PROVE  Spec => [](phase = "load" =>
               NothingLoaded /\ (RestoreComplete <=> \A s \in Slots : saved[s] \in {Absent, Default}))
<1>1. Init => NothingLoaded
  BY DEF Init, NothingLoaded
<1>2. NothingLoaded /\ [Next]_vars => NothingLoaded'
  BY NothingLoadedStep
<1>3. NothingLoaded => (phase = "load" =>
          NothingLoaded /\ (RestoreComplete <=> \A s \in Slots : saved[s] \in {Absent, Default}))
  BY DEF NothingLoaded, RestoreComplete
<1> QED
  BY <1>1, <1>2, <1>3, PTL DEF Spec
=============================================================================
