------------------------------ MODULE Storage ------------------------------
(***************************************************************************)
(* Property values across restarts: WriteProperty changes the value in RAM *)
(* and then saves it to the settings; at start-up the saved values are     *)
(* loaded one by one and written back through Device_Write_Property().  A  *)
(* commandable property is saved once per priority, with the priority as   *)
(* the key's array index.  Shell commands list, set and delete saved       *)
(* values; a cold start deletes them one by one and restarts.              *)
(*                                                                         *)
(* The device may lose power between any two steps.  Each save or delete   *)
(* of one key is atomic, and may fail.  Everything but the power loss runs *)
(* under the task lock (BacnetTask), so one activity at a time.            *)
(***************************************************************************)
EXTENDS Naturals, FiniteSets

CONSTANTS Commandable,   \* commandable Present_Value properties
          Arrays,        \* BACnetARRAY properties
          Plain,         \* other properties
          MaxPriority,   \* BACNET_MAX_PRIORITY
          MaxElement,    \* the length of an array
          All,           \* BACNET_ARRAY_ALL, BACNET_STORAGE_ARRAY_INDEX_NONE
          Values, Default, Absent,
          BaseName,      \* CONFIG_BACNET_SETTINGS_BASE_NAME, the keys' first element
          HandlerName,   \* bacnet_storage_handler.name
          WholeArrays    \* do clients write whole arrays as well as elements

ASSUME StorageAssumption ==
    /\ MaxPriority \in Nat \ {0} /\ MaxElement \in Nat
    /\ All \notin Nat
    /\ Default \in Values /\ Absent \notin Values
    /\ Commandable \cap Arrays = {} /\ Commandable \cap Plain = {} /\ Arrays \cap Plain = {}
    /\ WholeArrays \in BOOLEAN

Slots == (Commandable \X (1..MaxPriority)) \cup (Arrays \X (1..MaxElement)) \cup (Plain \X {All})

\* WriteProperty requests: the property, the array index and the priority.
Requests ==
    [prop : Commandable, index : {All}, priority : 1..MaxPriority]
        \cup [prop : Arrays, index : 1..MaxElement \cup (IF WholeArrays THEN {All} ELSE {}),
              priority : {MaxPriority}]
        \cup [prop : Plain, index : {All}, priority : {MaxPriority}]

VARIABLES phase,      \* "load", "run", "store" or "clear"
          live,       \* the values in RAM
          nv,         \* the saved value of each key
          todo,       \* the keys still to load or to clear
          failed,     \* the keys whose deletion failed in this cold start
          request,    \* the write being stored, Absent if none
          callback,   \* who gets what bacnet_storage_load() finds
          saved       \* history: the last value saved for each slot

vars == <<phase, live, nv, todo, failed, request, callback, saved>>

-----------------------------------------------------------------------------
(***************************************************************************)
(* Keys and requests.                                                      *)
(***************************************************************************)
\* The key a write is saved under, by bacnet_settings_write_property_store().
StoreKeyNoPriority(r) == <<r.prop, r.index>>
StoreKey(r) == <<r.prop, IF r.prop \in Commandable THEN r.priority ELSE r.index>>

\* The write a key is restored with, by bacnet_settings_restore().
RestoreLowest(k) == [prop |-> k[1], index |-> IF k[1] \in Commandable THEN All ELSE k[2],
                     priority |-> MaxPriority]
RestoreRequest(k) ==
    IF k[1] \in Commandable
    THEN [prop |-> k[1], index |-> All, priority |-> k[2]]
    ELSE [prop |-> k[1], index |-> k[2], priority |-> MaxPriority]

Keys == { StoreKey(r) : r \in Requests }

\* The slots a request writes, in the objects of the device.
Targets(r) == IF r.prop \in Commandable THEN {<<r.prop, r.priority>>} \cap Slots
              ELSE IF r.index = All THEN {s \in Slots : s[1] = r.prop}
              ELSE {<<r.prop, r.index>>} \cap Slots

Put(f, S, v) == [s \in Slots |-> IF s \in S THEN v ELSE f[s]]

\* The keys bacnet_storage_load() finds: those under the handler's name.  The settings
\* keep them through bacnet_storage_init(): a build with a settings file on LittleFS,
\* which deletes that file first, and an init that fails are left out.
Stored   == {k \in Keys : nv[k] # Absent}
LoadableAll == Keys
Loadable == IF BaseName = HandlerName THEN Stored ELSE {}

-----------------------------------------------------------------------------
(***************************************************************************)
(* Start-up and power loss.                                                *)
(***************************************************************************)
\* The objects are created with their defaults and the load begins, with the
\* device's own callback.
Start == /\ phase' = "load"
         /\ live' = [s \in Slots |-> Default]
         /\ todo' = Loadable
         /\ callback' = "device"
         /\ failed' = {}
         /\ request' = Absent

PowerLoss == /\ Start
             /\ UNCHANGED <<nv, saved>>

\* bacnet_storage_handler_set() for one key, whose value the backend can read and the
\* handler's buffer takes.
LoadOne(k) ==
    /\ phase = "load"
    /\ k \in todo
    /\ callback = "device"
    /\ live' = Put(live, Targets(RestoreRequest(k)), nv[k])
    /\ todo' = todo \ {k}
    /\ UNCHANGED <<phase, nv, failed, request, callback, saved>>

LoadDone ==
    /\ phase = "load"
    /\ todo = {}
    /\ phase' = "run"
    /\ UNCHANGED <<live, nv, todo, failed, request, callback, saved>>

-----------------------------------------------------------------------------
(***************************************************************************)
(* WriteProperty.                                                          *)
(***************************************************************************)
WriteProperty(r, v) ==
    /\ phase = "run"
    /\ live' = Put(live, Targets(r), v)
    /\ request' = [req |-> r, value |-> v]
    /\ phase' = "store"
    /\ UNCHANGED <<nv, todo, failed, callback, saved>>

\* The store callback; nobody looks at whether the save succeeded.
StoreCallback(ok) ==
    /\ phase = "store"
    /\ IF ok
       THEN /\ nv' = [nv EXCEPT ![StoreKey(request.req)] = request.value]
            /\ saved' = Put(saved, Targets(request.req), request.value)
       ELSE UNCHANGED <<nv, saved>>
    /\ phase' = "run"
    /\ request' = Absent
    /\ UNCHANGED <<live, todo, failed, callback>>

-----------------------------------------------------------------------------
(***************************************************************************)
(* The settings and storage shells.                                        *)
(***************************************************************************)
\* `list` takes over the load callback, which prints.  The next load is that of the next
\* list or start, and each sets its own first.
List ==
    /\ phase = "run"
    /\ callback' = "shell"
    /\ UNCHANGED <<phase, live, nv, todo, failed, request, saved>>

\* `value`: only a key that is stored, since its tag comes from the stored value.
ShellSet(k, v) ==
    /\ phase = "run"
    /\ k \in Stored
    /\ nv' = [nv EXCEPT ![k] = v]
    /\ saved' = Put(saved, Targets(RestoreRequest(k)), v)
    /\ UNCHANGED <<phase, live, todo, failed, request, callback>>

ShellDelete(k) ==
    /\ phase = "run"
    /\ k \in Stored
    /\ nv' = [nv EXCEPT ![k] = Absent]
    /\ saved' = Put(saved, Targets(RestoreRequest(k)), Absent)
    /\ UNCHANGED <<phase, live, todo, failed, request, callback>>

-----------------------------------------------------------------------------
(***************************************************************************)
(* A cold start: bacnet_storage_clear(), then the restart.                 *)
(***************************************************************************)
ClearBegin ==
    /\ phase = "run"
    /\ phase' = "clear"
    /\ todo' = Stored
    /\ failed' = {}
    /\ UNCHANGED <<live, nv, request, callback, saved>>

ClearStopsAtError(k, ok) ==
    /\ phase = "clear"
    /\ k \in todo
    /\ IF ok THEN /\ nv' = [nv EXCEPT ![k] = Absent]
                  /\ saved' = Put(saved, Targets(RestoreRequest(k)), Absent)
                  /\ todo' = todo \ {k} /\ UNCHANGED failed
             ELSE todo' = {} /\ failed' = {k} /\ UNCHANGED <<nv, saved>>
    /\ UNCHANGED <<phase, live, request, callback>>
ClearOne(k, ok) ==
    /\ phase = "clear"
    /\ k \in todo
    /\ todo' = todo \ {k}
    /\ IF ok THEN /\ nv' = [nv EXCEPT ![k] = Absent]
                  /\ saved' = Put(saved, Targets(RestoreRequest(k)), Absent)
                  /\ UNCHANGED failed
             ELSE failed' = failed \cup {k} /\ UNCHANGED <<nv, saved>>
    /\ UNCHANGED <<phase, live, request, callback>>

ClearDone ==
    /\ phase = "clear"
    /\ todo = {}
    /\ Start
    /\ UNCHANGED <<nv, saved>>

-----------------------------------------------------------------------------
Init ==
    /\ phase = "load"
    /\ live = [s \in Slots |-> Default]
    /\ nv = [k \in Keys |-> Absent]
    /\ todo = {}
    /\ failed = {}
    /\ request = Absent
    /\ callback = "device"
    /\ saved = [s \in Slots |-> Absent]

Next ==
    \/ PowerLoss
    \/ LoadDone
    \/ \E k \in Keys : LoadOne(k) \/ ShellDelete(k) \/ \E v \in Values : ShellSet(k, v)
    \/ \E r \in Requests, v \in Values : WriteProperty(r, v)
    \/ \E ok \in BOOLEAN : StoreCallback(ok) \/ \E k \in Keys : ClearOne(k, ok)
    \/ List
    \/ ClearBegin
    \/ ClearDone

Spec == Init /\ [][Next]_vars

-----------------------------------------------------------------------------
(***************************************************************************)
(* Properties.                                                             *)
(***************************************************************************)
\* The types of the variables.
TypeOK ==
    /\ phase \in {"load", "run", "store", "clear"}
    /\ live \in [Slots -> Values]
    /\ nv \in [Keys -> Values \cup {Absent}]
    /\ todo \subseteq Keys
    /\ failed \subseteq Keys
    /\ IF phase = "store" THEN request \in [req : Requests, value : Values] ELSE request = Absent
    /\ callback \in {"device", "shell"}
    /\ saved \in [Slots -> Values \cup {Absent}]

\* main.c of the samples: "restore any property values previously stored via
\* WriteProperty".  When the load is over, each property, element and priority has
\* the last value saved for it, whatever the order the keys were loaded in.
RestoreComplete ==
    phase = "load" /\ todo = {} =>
        \A s \in Slots : live[s] = IF saved[s] = Absent THEN Default ELSE saved[s]

\* What a key holds is the last value saved for the slots it is restored to: no
\* two of them share a key, and no key is left behind by an erased value.
KeysHoldSaved ==
    \A k \in Keys : \A s \in Targets(RestoreRequest(k)) : nv[k] = saved[s]

\* A cold start leaves nothing behind but the keys the backend would not delete:
\* one failure does not end the clearing.
ClearLeavesOnlyFailures == phase = "clear" => Stored \subseteq todo \cup failed

\* Storage implements the durable store: a restart shows at once what the load
\* will have restored when it is over.
Abstract == INSTANCE PropertyStore
    WITH up <- phase # "load",
         live <- IF phase = "load"
                 THEN [s \in Slots |-> IF saved[s] = Absent THEN Default ELSE saved[s]]
                 ELSE live,
         durable <- saved
Durable == Abstract!Spec
=============================================================================
