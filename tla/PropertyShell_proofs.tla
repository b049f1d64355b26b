------------------------ MODULE PropertyShell_proofs ------------------------
(***************************************************************************)
(* What is proved of Storage holds beside the shell's writers too: a step  *)
(* of PropertyShell is a step of Storage or an unsaved change of values in *)
(* RAM (ShellStep), and neither the saved values nor a load know of the    *)
(* latter.  And `bacnet property value` writes what it names.              *)
(***************************************************************************)
EXTENDS PropertyShell, Storage_proofs

\* A command to a light, as Storage sees it.
LightStep ==
    /\ phase = "run"
    /\ live' \in [Slots -> Values]
    /\ UNCHANGED <<phase, nv, todo, failed, request, callback, saved>>

LEMMA ShellStep ==
    ASSUME Sound, [ShellNext]_vars
    PROVE  [Next]_vars \/ LightStep
<1>1. CASE [Next]_vars
  BY <1>1
<1>2. ASSUME NEW c \in Commands, NEW v \in Values, PropertyValue(c, v) PROVE Next
  BY <1>2 DEF PropertyValue, Next
<1>3. ASSUME NEW S, NEW v \in Values, Unsaved(S, v) PROVE LightStep
  <2>1. live \in [Slots -> Values]
    BY DEF Sound, TypeOK
  <2> QED
    BY <1>3, <2>1, PutTyped DEF Unsaved, LightStep
<1>4. ASSUME NEW l \in Lights, NEW p, NEW v \in Values, LightSet(l, p, v) PROVE LightStep
  BY <1>3, <1>4 DEF LightSet
<1>5. ASSUME NEW l \in Lights, NEW p, NEW v \in Values, LightCommand(l, p, v) PROVE LightStep
  BY <1>3, <1>5 DEF LightCommand
<1>6. ASSUME NEW l \in Lights, NEW p, NEW v \in Values, NEW seconds \in Values,
             LightBlink(l, p, v, seconds)
      PROVE  LightStep
  <2>1. live \in [Slots -> Values]
    BY DEF Sound, TypeOK
  <2>2. Put(live, {<<Egress[l], All>>}, seconds) \in [Slots -> Values]
    BY <2>1, PutTyped
  <2>3. live' \in [Slots -> Values]
    BY <1>6, <2>2, PutTyped DEF LightBlink
  <2> QED
    BY <1>6, <2>3 DEF LightBlink, LightStep
<1> QED
  BY <1>1, <1>2, <1>4, <1>5, <1>6 DEF ShellNext

LEMMA SoundLight ==
    ASSUME Sound, LightStep
    PROVE  Sound'
BY DEF Sound, TypeOK, LoadsStored, ClearLeavesOnlyFailures, LightStep, Stored

LEMMA AlwaysSound == ShellSpec => []Sound
<1>1. Init => Sound
  BY SoundInit
<1>2. Sound /\ [ShellNext]_vars => Sound'
  BY ShellStep, SoundStep, SoundLight
<1> QED
  BY <1>1, <1>2, PTL DEF ShellSpec

\* Types, and that a clearing carries on after a failure, whatever the shell writes.
THEOREM ShellSound == ShellSpec => [](TypeOK /\ ClearLeavesOnlyFailures)
<1>1. Sound => TypeOK /\ ClearLeavesOnlyFailures
  BY DEF Sound
<1> QED
  BY <1>1, AlwaysSound, PTL

-----------------------------------------------------------------------------
\* A command to a light is gone with the next restart: when its load is over, every
\* property has the last value saved for it by a client or by `bacnet property value`,
\* and the keys hold those.
THEOREM ShellRestores ==
    ASSUME WholeArrays = FALSE, BaseName = HandlerName
    PROVE  ShellSpec => [](RestoreComplete /\ KeysHoldSaved)
<1>1. Init => KeysHoldSaved /\ Loading
  BY KeysHoldSavedInit, LoadingInit
<1>2. ASSUME Sound, KeysHoldSaved, Loading, [ShellNext]_vars
      PROVE  KeysHoldSaved' /\ Loading'
  <2>1. CASE [Next]_vars
    BY <1>2, <2>1, KeysHoldSavedStep, LoadingStep
  <2>2. CASE LightStep
    BY <2>2, <1>2 DEF LightStep, KeysHoldSaved, Loading
  <2> QED
    BY <1>2, <2>1, <2>2, ShellStep
<1>3. Loading => RestoreComplete
  BY LoadingOver
<1> QED
  BY <1>1, <1>2, <1>3, AlwaysSound, PTL DEF ShellSpec

\* Whatever clients and shell write, whole arrays included: a start finds each slot
\* with the value of one of its keys, a property or priority with the last value
\* saved for it, and a cold start whose deletions succeed forgets everything, the
\* commands to lights too.
THEOREM ShellRestarts ==
    ASSUME BaseName = HandlerName
    PROVE  ShellSpec => [](LoadedValues /\ SinglesRestored) /\ [][FactoryReset]_vars
<1>1. Init => LoadedValues /\ SinglesHold /\ SavedHasKey
  BY LoadedValuesInit, SinglesHoldInit DEF Init, SavedHasKey
<1>2. ASSUME Sound, LoadedValues, SinglesHold, SavedHasKey, [ShellNext]_vars
      PROVE  LoadedValues' /\ SinglesHold' /\ SavedHasKey' /\ FactoryReset
  <2>1. CASE [Next]_vars
    BY <1>2, <2>1, LoadedValuesStep, SinglesHoldStep, SavedHasKeyStep, ResetStep
  <2>2. CASE LightStep
    BY <1>2, <2>2
    DEF LightStep, LoadedValues, SinglesHold, SavedHasKey, FactoryReset, Stored, Covers
  <2> QED
    BY <1>2, <2>1, <2>2, ShellStep
<1>3. Sound /\ LoadedValues /\ SinglesHold => SinglesRestored
  BY LoadedSingles
<1>4. Sound /\ LoadedValues /\ SinglesHold /\ SavedHasKey /\ [ShellNext]_vars
          => [FactoryReset]_vars
  BY <1>2
<1>5. Sound /\ LoadedValues /\ SinglesHold /\ SavedHasKey /\ [ShellNext]_vars
          => LoadedValues' /\ SinglesHold' /\ SavedHasKey'
  BY <1>2
<1> QED
  BY <1>1, <1>3, <1>4, <1>5, AlwaysSound, PTL DEF ShellSpec

\* The device with the shell implements the durable store as well.
THEOREM ShellRefinement ==
    ASSUME WholeArrays = FALSE, BaseName = HandlerName
    PROVE  ShellSpec => Durable
<1>1. Init => Abstract!Init
  BY StoreInit
<1>2. ASSUME LightStep PROVE Abstract!Next
  <2>1. Running /\ Running' /\ Seen' \in [Slots -> Values] /\ UNCHANGED saved
    BY <1>2 DEF LightStep, Running, Seen
  <2> QED
    BY <2>1, AbstractSees
<1>3. Sound /\ RestoreComplete /\ [ShellNext]_vars =>
          [Abstract!Next]_<<phase # "load",
                            IF phase = "load"
                            THEN [s \in Slots |-> IF saved[s] = Absent THEN Default ELSE saved[s]]
                            ELSE live,
                            saved>>
  BY <1>2, ShellStep, StoreStep DEF Seen, RestoredValue, Running
<1> QED
  BY <1>1, <1>3, AlwaysSound, ShellRestores, PTL
  DEF ShellSpec, Durable, Abstract!Spec, Abstract!vars

-----------------------------------------------------------------------------
LEMMA ShellRequestNamed ==
    ASSUME NEW c \in Commands, ShellRequest(c) \in Requests
    PROVE  Targets(ShellRequest(c)) \subseteq Named(c)
<1> DEFINE r == ShellRequest(c)
<1>1. CASE c.prop \in Commandable
  <2>1. r.prop = c.prop /\ r.priority = ShellPriority(c)
    BY <1>1 DEF ShellRequest
  <2>2. r.priority \in 1..MaxPriority
    BY StorageAssumption DEF Requests
  <2>3. ShellPriority(c) = c.at
    BY <2>1, <2>2 DEF ShellPriority, NoPriority
  <2>4. Targets(r) \subseteq {<<c.prop, c.at>>} /\ Targets(r) \subseteq Slots
    BY <1>1, <2>1, <2>3 DEF Targets
  <2> QED
    BY <1>1, <2>4, StorageAssumption DEF Named
<1>2. CASE c.prop \notin Commandable
  <2>1. r.prop = c.prop /\ r.index = c.index
    BY DEF ShellRequest
  <2>2. Targets(r) = IF c.index = All THEN {s \in Slots : s[1] = c.prop}
                     ELSE {<<c.prop, c.index>>} \cap Slots
    BY <1>2, <2>1 DEF Targets
  <2> QED
    BY <1>2, <2>2 DEF Named
<1> QED
  BY <1>1, <1>2

\* The element `bacnet property value` reads for the datatype is never the one it
\* writes by mistake, nor is a priority out of range taken for another.
THEOREM WritesOnlyNamed == ShellSpec => NamedOnly
<1>1. ASSUME NEW c \in Commands, NEW v \in Values, PropertyValue(c, v)
      PROVE  /\ \A s \in Slots \ Named(c) : live'[s] = live[s]
             /\ Targets(RestoreRequest(StoreKey(request'.req))) \subseteq Named(c)
  <2>1. ShellRequest(c) \in Requests /\ WriteProperty(ShellRequest(c), v)
    BY <1>1 DEF PropertyValue
  <2>2. Targets(ShellRequest(c)) \subseteq Named(c)
    BY <2>1, ShellRequestNamed
  <2>3. live' = Put(live, Targets(ShellRequest(c)), v) /\ request'.req = ShellRequest(c)
    BY <2>1 DEF WriteProperty
  <2>4. \A s \in Slots \ Named(c) : live'[s] = live[s]
    BY <2>2, <2>3 DEF Put
  <2>5. Targets(RestoreRequest(StoreKey(ShellRequest(c)))) = Targets(ShellRequest(c))
    BY <2>1, RoundTrip
  <2> QED
    BY <2>2, <2>3, <2>4, <2>5
<1>2. [\A c \in Commands, v \in Values : PropertyValue(c, v) =>
           /\ \A s \in Slots \ Named(c) : live'[s] = live[s]
           /\ Targets(RestoreRequest(StoreKey(request'.req))) \subseteq Named(c)]_vars
  BY <1>1
<1> QED
  BY <1>2, PTL DEF NamedOnly
=============================================================================
