--------------------------- MODULE SettingsValues ---------------------------
(***************************************************************************)
(* The values of the settings: what the typed setters and getters of       *)
(* bacnet_settings.c and the `value`, `string` and `delete` commands of    *)
(* the shells put under a key and find there, datatype included.  Storage  *)
(* has the other half, which key a property's value is kept under and how  *)
(* it comes back after a restart.                                          *)
(*                                                                         *)
(* A datum is a class and a number: an integer is its number, a real, a    *)
(* character string and what a user types are told apart by both.  A       *)
(* reader's buffer is taken to be as long as those of the shells.  The     *)
(* limits for an encoding in bacnet_settings_value_set() and in `value`    *)
(* differ by a byte, but no encoding is of the length between.             *)
(* Saving and deleting under one key is atomic and may fail.               *)
(***************************************************************************)
EXTENDS Integers

CONSTANTS Keys,
          Commandable,   \* keys of commandable properties
          Named,         \* keys of properties whose values have names
          UIntMod,       \* 2^32, uint32_t
          ULongMod,      \* ULONG_MAX + 1
          Texts,         \* what users type and applications save
          Spelled,       \* what a text's characters mean where a value is decoded
          Absent

Classes == {"number", "fraction", "nan", "inf",          \* what strtof() takes
            "true", "false", "NULL", "name", "pair",     \* words, and type:instance
            "coded",       \* a date, a time, octets or bits
            "word",        \* any other text
            \* Texts by the buffers they fit: BACNET_CHARACTER_STRING, the encoding of a
            \* setting, a reader's.  Which of them are longer is a matter of the build.
            "large",       \* all but the encoding
            "huge",        \* the first only
            "wide",        \* the reader's only
            "long",        \* none
            "cut",         \* the beginning of a text
            "empty"}
Data == [class : Classes, n : Int]
Tags == {"null", "boolean", "enumerated", "unsigned", "signed", "real", "string",
         "objectid", "coded"}

Num(n)  == [class |-> "number", n |-> n]
Lone(c) == [class |-> c, n |-> 0]
Is(t, d) == [tag |-> t, data |-> d]
None    == Is("none", Lone("empty"))      \* MAX_BACNET_APPLICATION_TAG

ASSUME SettingsAssumption ==
    /\ Commandable \subseteq Keys /\ Named \subseteq Keys
    /\ UIntMod \in Nat \ {0, 1} /\ UIntMod % 2 = 0
    /\ ULongMod \in Nat /\ ULongMod % UIntMod = 0 /\ ULongMod >= UIntMod
    /\ Texts \subseteq Data /\ \A t \in Texts : t.class \notin {"empty", "cut"}
    /\ Spelled \in [Texts -> [tag : Tags, data : Data] \cup {None}]
    /\ Absent \notin [tag : Tags \cup {"none", "raw"}, data : Data]

Untaken == {"wide", "long"}               \* what characterstring_init_ansi() refuses

VARIABLES stored,  \* what the settings hold under each key
          kept,    \* history: the last value reported as saved under each key
          ansi     \* history: the keys where characterstring_ansi_set() reported it

vars == <<stored, kept, ansi>>

-----------------------------------------------------------------------------
(***************************************************************************)
(* Numbers and words that users type.                                      *)
(***************************************************************************)
\* bacnet_storage_strtoul() and _strtol(): the numbers they deliver.  Beyond the
\* range strtoul() and strtol() return its end, which is refused; a negative
\* number is an unsigned one from the top.
ToULong(n) == {u \in {n % ULongMod} : n \in (1 - ULongMod)..(ULongMod - 2) /\ u # ULongMod - 1}
ToLong(n)  == {n} \cap ((1 - (ULongMod \div 2))..((ULongMod \div 2) - 2))

UInt32(n) == n % UIntMod
Int32(n)  == ((n + UIntMod \div 2) % UIntMod) - (UIntMod \div 2)
UInt16(n) == n % (UIntMod \div 2)

\* The values of a text whatever the datatype of the setting.
Words(k, t) ==
    {w \in {Is("null", Lone("NULL")), Is("boolean", Lone("true")), Is("boolean", Lone("false"))} :
         w.data.class = t.class /\ (t.class = "NULL" => k \in Commandable)}
        \cup {Is("enumerated", Num(n)) : n \in {m \in {t.n} : t.class = "name" /\ k \in Named}}

\* The values of a text for the setting's datatype.  An object identifier is read
\* and never reported as parsed.
NarrowLiterals(tag, t) ==
    {Is(tag, d) : d \in
        IF t.class = "number" /\ tag \in {"unsigned", "enumerated"} THEN {Num(UInt16(n)) : n \in ToULong(t.n)}
        ELSE IF t.class = "number" /\ tag = "signed" THEN {Num(Int32(n)) : n \in ToLong(t.n)}
        ELSE {u \in {t} : tag = "string" /\ t.class \notin Untaken}}
Literals(tag, t) ==
    {Is(tag, d) : d \in
        CASE tag \in {"unsigned", "enumerated"} ->
                 {Num(UInt32(n)) : n \in IF t.class = "number" THEN ToULong(t.n) ELSE {}}
          [] tag = "signed" ->
                 {Num(Int32(n)) : n \in IF t.class = "number" THEN ToLong(t.n) ELSE {}}
          [] tag = "real" -> {u \in {t} : t.class \in {"number", "fraction", "nan"}}
          [] tag = "string" -> {u \in {t} : t.class \notin Untaken}
          [] tag = "coded" -> {u \in {t} : t.class = "coded"}
          [] OTHER -> {}}

\* bacnet_settings_value_parse(): no value, or one.
Parse(k, tag, t) == IF Words(k, t) # {} THEN Words(k, t) ELSE Literals(tag, t)

-----------------------------------------------------------------------------
(***************************************************************************)
(* Getters.                                                                *)
(***************************************************************************)
\* bacapp_decode_application_data(), given what is stored.
Decode(e) == IF e = Absent THEN None
             ELSE IF e.tag = "raw" THEN Spelled[e.data]
             ELSE e

\* bacnet_settings_real_get(), _unsigned_get(), _signed_get() and
\* _characterstring_get(): the stored value of their datatype, or the default.
TypedGet(tag, k, default) ==
    IF Decode(stored[k]).tag = tag THEN Decode(stored[k]).data ELSE default

\* A text as it is read: as much of it as the reader's buffer takes, with the
\* buffer's length for that of the text.
Read(t) == IF t.class \in {"huge", "long"} THEN [class |-> "cut", n |-> t.n] ELSE t

\* bacnet_settings_string_get(), of what a string setter saved.
StringGet(k, default) ==
    IF stored[k] = Absent THEN default ELSE Read(stored[k].data)

-----------------------------------------------------------------------------
(***************************************************************************)
(* Setters and shell commands.  ok: the backend saves, or deletes.         *)
(***************************************************************************)
\* Is an encoded value short enough for a setting.
Fits(v) == v.data.class \notin {"large", "huge"}

\* bacnet_storage_set(), of any length, and its caller's report.
Save(k, e, ok) ==
    IF ok
    THEN /\ stored' = [stored EXCEPT ![k] = e]
         /\ kept' = [kept EXCEPT ![k] = e]
         /\ ansi' = ansi \ {k}
    ELSE UNCHANGED vars
\* The values the typed setters are given.
Settable ==
    [tag : {"unsigned", "enumerated"}, data : {t \in Texts : t.class = "number" /\ t.n \in 0..(UIntMod - 1)}]
        \cup [tag : {"signed"}, data : {t \in Texts : t.class = "number" /\ Int32(t.n) = t.n}]
        \cup [tag : {"real"}, data : {t \in Texts : t.class \in {"number", "fraction", "nan"}}]
        \cup [tag : {"string"}, data : {t \in Texts : t.class \notin Untaken}]
        \cup [tag : {"coded"}, data : {t \in Texts : t.class = "coded"}]
        \cup [tag : {"objectid"}, data : {t \in Texts : t.class = "pair"}]
        \cup {Is("null", Lone("NULL")), Is("boolean", Lone("true")), Is("boolean", Lone("false"))}

\* bacnet_settings_value_set(), real_set(), unsigned_set() and signed_set().
ValueSetIgnoresStore(k, v, ok) ==
    /\ Fits(v)
    /\ IF ok THEN stored' = [stored EXCEPT ![k] = v] ELSE UNCHANGED stored
    /\ kept' = [kept EXCEPT ![k] = v]
    /\ ansi' = ansi \ {k}
ValueSet(k, v, ok) == Fits(v) /\ Save(k, v, ok)

\* bacnet_settings_characterstring_ansi_set(): the text is saved only if it could
\* not be taken, and is then the empty string.
AnsiSet(k, t, ok) ==
    IF t.class \notin Untaken \/ ok
    THEN /\ stored' = [stored EXCEPT ![k] = IF t.class \notin Untaken THEN @
                                            ELSE Is("string", Lone("empty"))]
         /\ kept' = [kept EXCEPT ![k] = Is("string", t)]
         /\ ansi' = ansi \cup {k}
    ELSE UNCHANGED vars

\* bacnet_settings_string_set() and `string`: the characters, not encoded, and
\* however many they are.
StringSet(k, t, ok) == Save(k, Is("raw", t), ok)

\* `value`, with a text.  A tag before the text has no effect: decoding the stored
\* value replaces it.
Value(k, t, ok) ==
    /\ Decode(stored[k]) # None
    /\ \E v \in Parse(k, Decode(stored[k]).tag, t) : Fits(v) /\ Save(k, v, ok)

\* `delete`.
DeleteLeavesEmpty(k, ok) ==
    /\ ok
    /\ stored' = [stored EXCEPT ![k] = None]
    /\ kept' = [kept EXCEPT ![k] = Absent]
    /\ ansi' = ansi \ {k}
Delete(k, ok) ==
    /\ ok
    /\ stored' = [stored EXCEPT ![k] = Absent]
    /\ kept' = [kept EXCEPT ![k] = Absent]
    /\ ansi' = ansi \ {k}

-----------------------------------------------------------------------------
Init ==
    /\ stored = [k \in Keys |-> Absent]
    /\ kept = [k \in Keys |-> Absent]
    /\ ansi = {}

Next ==
    \E k \in Keys, ok \in BOOLEAN :
        \/ Delete(k, ok)
        \/ \E v \in Settable : ValueSet(k, v, ok)
        \/ \E t \in Texts : AnsiSet(k, t, ok) \/ StringSet(k, t, ok) \/ Value(k, t, ok)

Spec == Init /\ [][Next]_vars

-----------------------------------------------------------------------------
(***************************************************************************)
(* Properties.                                                             *)
(***************************************************************************)
Entries == [tag : Tags, data : Data] \cup [tag : {"raw"}, data : Texts]

\* The types of the variables.
TypeOK ==
    /\ stored \in [Keys -> Entries \cup {Absent}]
    /\ kept \in [Keys -> Entries \cup {Absent}]
    /\ ansi \subseteq Keys

\* What each getter answers for the value e last reported as saved.
Answered(k, e) ==
    /\ \A tag \in Tags, default \in Texts :
           TypedGet(tag, k, default) = IF Decode(e).tag = tag THEN Decode(e).data ELSE default
    /\ e = Absent \/ e.tag = "raw" => \A default \in Texts :
           StringGet(k, default) = IF e = Absent THEN default ELSE Read(e.data)

\* bacnet_settings.h: "true on success, false on failure".  A getter answers with the
\* value last reported as saved, by an application or by a shell, when it asks for that
\* value's datatype, and with its default otherwise; a call that failed changed nothing.
\* The getter of strings answers with the text last reported as saved or, where that is
\* longer than the reader's buffer, with its beginning, and never with another text.
Answers == \A k \in Keys \ ansi : Answered(k, kept[k])

\* The same where characterstring_ansi_set() was the last to report success.
AnsiKept == \A k \in ansi : Answered(k, kept[k])

\* The numbers a datatype holds.
Holds(tag, n) ==
    \/ tag \in {"unsigned", "enumerated"} /\ n \in 0..(UIntMod - 2)
    \/ tag = "signed" /\ n \in (1 - (UIntMod \div 2))..((UIntMod \div 2) - 2)

\* `value` with a number the setting's datatype holds saves that number, with that
\* datatype, or nothing: no other number and no other datatype.
NumberSaved ==
    [][\A k \in Keys, t \in Texts, ok \in BOOLEAN :
           Value(k, t, ok) /\ t.class = "number" /\ Holds(Decode(stored[k]).tag, t.n)
               => stored'[k] \in {stored[k], Is(Decode(stored[k]).tag, t)}]_vars
=============================================================================
