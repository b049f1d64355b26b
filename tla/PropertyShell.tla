--------------------------- MODULE PropertyShell ---------------------------
(***************************************************************************)
(* The shell as a writer of properties, beside the clients of Storage.     *)
(* `bacnet property value` reads the property to learn its datatype and    *)
(* writes it through Device_Write_Property(), so that it is saved.         *)
(* `bacnet light` commands a light directly, so that it is not.  Each runs *)
(* under the task lock.                                                    *)
(*                                                                         *)
(* A command that fails to parse, or that an object refuses, changes       *)
(* nothing and is left out; so are the overrides of a light, which are no  *)
(* property, and the time a fade or a ramp takes.                          *)
(***************************************************************************)
EXTENDS Storage

CONSTANTS Lights,          \* the Present_Values of lights
          Egress,          \* a light's Egress_Time
          LightPriority    \* Lighting_Output_Default_Priority()

ASSUME ShellAssumption ==
    /\ Lights \subseteq Commandable
    /\ Egress \in [Lights -> Plain]
    /\ LightPriority \in 1..MaxPriority

-----------------------------------------------------------------------------
(***************************************************************************)
(* `bacnet property value`.                                                *)
(***************************************************************************)
NoPriority == 0    \* BACNET_NO_PRIORITY

\* The arguments: a property, its array index in [], the number after the @ (in range,
\* on either side of it, or none) and whether the datatype is given.
Properties == Commandable \cup Arrays \cup Plain
Commands == [prop : Properties, index : {All} \cup 1..(MaxElement + 1),
             at : 0..(MaxPriority + 1), tag : BOOLEAN]

\* What Device_Read_Property() answers: an index is for arrays, and may be out of range.
Readable(p, i) == i = All \/ (p \in Arrays /\ i \in 1..MaxElement)

\* Where the datatype is read: instead of an element an array does not have, yet, the first.
ReadIndex(c) == IF c.prop \in Arrays /\ ~Readable(c.prop, c.index) THEN 1 ELSE c.index

\* A commandable property has its priority from the @, if that is one.
ShellPriority(c) == IF c.prop \in Commandable /\ c.at \in 1..MaxPriority THEN c.at ELSE NoPriority

\* The WriteProperty made of it.  Only a commandable property has a use for a priority;
\* elsewhere that of Requests stands for NoPriority.
ShellRequestAtReadIndex(c) ==
    [prop |-> c.prop, index |-> ReadIndex(c),
     priority |-> IF c.prop \in Commandable THEN ShellPriority(c) ELSE MaxPriority]
ShellRequest(c) ==
    [prop |-> c.prop, index |-> c.index,
     priority |-> IF c.prop \in Commandable THEN ShellPriority(c) ELSE MaxPriority]

\* Without a datatype the property must be readable; Device_Write_Property() refuses
\* an element that is not there and a priority that is none.
PropertyValue(c, v) ==
    /\ c.tag \/ Readable(c.prop, ReadIndex(c))
    /\ ShellRequest(c) \in Requests
    /\ WriteProperty(ShellRequest(c), v)

-----------------------------------------------------------------------------
(***************************************************************************)
(* `bacnet light`.                                                         *)
(***************************************************************************)
\* The objects change, and nobody is told to save it.
Unsaved(S, v) ==
    /\ phase = "run"
    /\ live' = Put(live, S, v)
    /\ UNCHANGED <<phase, nv, todo, failed, request, callback, saved>>

\* `set` and `relinquish`: the priority given or, without one, LightPriority; the
\* object refuses one that is none.
LightSet(l, priority, v) ==
    /\ priority \in 1..MaxPriority
    /\ Unsaved({<<l, priority>>}, v)

\* The lighting commands take the object's for a priority that is none or not given.
CommandPriority(given) == IF given \in 1..MaxPriority THEN given ELSE LightPriority

\* `fade`, `ramp`, `stop` and `step`; v is the level when they are over.
LightCommand(l, given, v) == Unsaved({<<l, CommandPriority(given)>>}, v)

\* `blink` sets the Egress_Time as well, to five minutes if it is not given.
LightBlink(l, given, v, seconds) ==
    /\ phase = "run"
    /\ live' = Put(Put(live, {<<Egress[l], All>>}, seconds), {<<l, CommandPriority(given)>>}, v)
    /\ UNCHANGED <<phase, nv, todo, failed, request, callback, saved>>

-----------------------------------------------------------------------------
ShellNext ==
    \/ Next
    \/ \E c \in Commands, v \in Values : PropertyValue(c, v)
    \/ \E l \in Lights, priority \in 0..(MaxPriority + 1), v \in Values :
           \/ LightSet(l, priority, v)
           \/ LightCommand(l, priority, v)
           \/ \E seconds \in Values : LightBlink(l, priority, v, seconds)

ShellSpec == Init /\ [][ShellNext]_vars

-----------------------------------------------------------------------------
(***************************************************************************)
(* Properties.                                                             *)
(***************************************************************************)
\* What the arguments of a command name.
Named(c) == {s \in Slots : /\ s[1] = c.prop
                           /\ c.prop \in Commandable => s[2] = c.at
                           /\ c.prop \in Arrays /\ c.index # All => s[2] = c.index}

\* `bacnet property value` changes nothing but what it names, although it may have read
\* another element for the datatype, and a priority out of range is not taken for
\* another; and that is also what a restart will write with the value it saves.
NamedOnly ==
    [][\A c \in Commands, v \in Values : PropertyValue(c, v) =>
           /\ \A s \in Slots \ Named(c) : live'[s] = live[s]
           /\ Targets(RestoreRequest(StoreKey(request'.req))) \subseteq Named(c)]_vars
=============================================================================
