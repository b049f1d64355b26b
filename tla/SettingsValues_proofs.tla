------------------------ MODULE SettingsValues_proofs ------------------------
(***************************************************************************)
(* Proofs about SettingsValues, for any keys, texts and widths.            *)
(***************************************************************************)
EXTENDS SettingsValues, TLAPS

\* What is stored under a key is what was last reported, unless the report was
\* characterstring_ansi_set()'s.
Sound == /\ TypeOK
         /\ \A k \in Keys \ ansi : stored[k] = kept[k]

-----------------------------------------------------------------------------
(***************************************************************************)
(* What can be saved is an entry.                                          *)
(***************************************************************************)
LEMMA LoneType == ASSUME NEW c \in Classes PROVE Lone(c) \in Data
BY DEF Lone, Data

LEMMA NumType == ASSUME NEW n \in Int PROVE Num(n) \in Data
BY DEF Num, Data, Classes

LEMMA TextType == ASSUME NEW t \in Texts PROVE t \in Data
BY SettingsAssumption

LEMMA IsType == ASSUME NEW tag \in Tags, NEW d \in Data PROVE Is(tag, d) \in Entries
BY DEF Is, Entries

LEMMA RawType == ASSUME NEW t \in Texts PROVE Is("raw", t) \in Entries
BY DEF Is, Entries

LEMMA WordData ==
    /\ Lone("NULL") \in Data /\ Lone("true") \in Data /\ Lone("false") \in Data
    /\ Lone("empty") \in Data
BY LoneType DEF Classes

LEMMA IntConversions ==
    ASSUME NEW n \in Int
    PROVE  UInt32(n) \in Int /\ Int32(n) \in Int
<1>1. UIntMod \in Nat /\ UIntMod > 0 /\ UIntMod \div 2 \in Int
  BY SettingsAssumption
<1> QED
  BY <1>1 DEF UInt32, Int32

LEMMA LongConversions ==
    ASSUME NEW n \in Int
    PROVE  ToULong(n) \subseteq Int /\ ToLong(n) \subseteq Int
<1>1. ULongMod \in Nat /\ ULongMod > 0
  BY SettingsAssumption
<1> QED
  BY <1>1 DEF ToULong, ToLong

LEMMA SettableType == Settable \subseteq Entries
BY WordData, TextType DEF Settable, Entries, Tags, Is

LEMMA WordsType == ASSUME NEW k \in Keys, NEW t \in Texts PROVE Words(k, t) \subseteq Entries
<1>1. t.n \in Int
  BY TextType DEF Data
<1>2. "null" \in Tags /\ "boolean" \in Tags /\ "enumerated" \in Tags
  BY DEF Tags
<1>3. Num(t.n) \in Data
  BY <1>1, NumType
<1> QED
  BY <1>2, <1>3, WordData, IsType DEF Words

LEMMA LiteralsType ==
    ASSUME NEW tag \in Tags, NEW t \in Texts
    PROVE  Literals(tag, t) \subseteq Entries
<1>1. t \in Data /\ t.n \in Int
  BY TextType DEF Data
<1>2. \A n \in ToULong(t.n) : Num(UInt32(n)) \in Data
  BY <1>1, LongConversions, IntConversions, NumType
<1>3. \A n \in ToLong(t.n) : Num(Int32(n)) \in Data
  BY <1>1, LongConversions, IntConversions, NumType
<1>4. ASSUME NEW v \in Literals(tag, t) PROVE v \in Entries
  <2>1. PICK d : v = Is(tag, d) /\ d \in Data
    BY <1>1, <1>2, <1>3 DEF Literals, Tags
  <2> QED
    BY <2>1, IsType
<1> QED
  BY <1>4

LEMMA ParseType ==
    ASSUME NEW k \in Keys, NEW tag \in Tags, NEW t \in Texts
    PROVE  Parse(k, tag, t) \subseteq Entries
BY WordsType, LiteralsType DEF Parse

\* The datatype a stored value is decoded with is one of the datatypes.
LEMMA DecodeTag ==
    ASSUME NEW e \in Entries \cup {Absent}, Decode(e) # None
    PROVE  Decode(e).tag \in Tags
<1>1. CASE e \in [tag : {"raw"}, data : Texts] /\ e # Absent
  <2>1. Decode(e) = Spelled[e.data] /\ e.data \in Texts
    BY <1>1 DEF Decode
  <2> QED
    BY <2>1, SettingsAssumption
<1>2. CASE e \in [tag : Tags, data : Data] /\ e # Absent
  BY <1>2 DEF Decode, Tags
<1> QED
  BY <1>1, <1>2 DEF Decode, Entries

-----------------------------------------------------------------------------
(***************************************************************************)
(* The reports.                                                            *)
(***************************************************************************)
LEMMA SaveSound ==
    ASSUME Sound, NEW k \in Keys, NEW e \in Entries, NEW ok \in BOOLEAN, Save(k, e, ok)
    PROVE  Sound'
<1>1. CASE ok
  BY <1>1 DEF Save, Sound, TypeOK
<1>2. CASE ~ok
  BY <1>2 DEF Save, Sound, TypeOK, vars
<1> QED
  BY <1>1, <1>2

LEMMA AnsiSound ==
    ASSUME Sound, NEW k \in Keys, NEW t \in Texts, NEW ok \in BOOLEAN, AnsiSet(k, t, ok)
    PROVE  Sound'
<1>1. Is("string", t) \in Entries /\ Is("string", Lone("empty")) \in Entries
  BY TextType, WordData, IsType DEF Tags
<1>2. CASE t.class \notin Untaken \/ ok
  <2>1. stored' = [stored EXCEPT ![k] = IF t.class \notin Untaken THEN @ ELSE Is("string", Lone("empty"))]
        /\ kept' = [kept EXCEPT ![k] = Is("string", t)] /\ ansi' = ansi \cup {k}
    BY <1>2 DEF AnsiSet
  <2>2. TypeOK'
    BY <1>1, <2>1 DEF Sound, TypeOK
  <2>3. ASSUME NEW j \in Keys \ ansi' PROVE stored'[j] = kept'[j]
    BY <2>1, <2>3 DEF Sound, TypeOK
  <2> QED
    BY <2>2, <2>3 DEF Sound
<1>3. CASE ~(t.class \notin Untaken \/ ok)
  BY <1>3 DEF AnsiSet, Sound, TypeOK, vars
<1> QED
  BY <1>2, <1>3

LEMMA SoundStep == Sound /\ [Next]_vars => Sound'
<1> SUFFICES ASSUME Sound, [Next]_vars PROVE Sound'
  OBVIOUS
<1>1. ASSUME NEW k \in Keys, NEW ok \in BOOLEAN, Delete(k, ok) PROVE Sound'
  BY <1>1 DEF Delete, Sound, TypeOK
<1>2. ASSUME NEW k \in Keys, NEW ok \in BOOLEAN, NEW v \in Settable, ValueSet(k, v, ok)
      PROVE  Sound'
  BY <1>2, SettableType, SaveSound DEF ValueSet
<1>3. ASSUME NEW k \in Keys, NEW ok \in BOOLEAN, NEW t \in Texts, StringSet(k, t, ok)
      PROVE  Sound'
  BY <1>3, RawType, SaveSound DEF StringSet
<1>4. ASSUME NEW k \in Keys, NEW ok \in BOOLEAN, NEW t \in Texts, Value(k, t, ok)
      PROVE  Sound'
  <2>1. Decode(stored[k]).tag \in Tags
    BY <1>4, DecodeTag DEF Value, Sound, TypeOK
  <2>2. PICK v \in Parse(k, Decode(stored[k]).tag, t) : Save(k, v, ok)
    BY <1>4 DEF Value
  <2> QED
    BY <2>1, <2>2, ParseType, SaveSound
<1>5. CASE UNCHANGED vars
  BY <1>5 DEF vars, Sound, TypeOK
<1> QED
  BY <1>1, <1>2, <1>3, <1>4, <1>5, AnsiSound DEF Next

LEMMA SoundInit == Init => Sound
BY DEF Init, Sound, TypeOK

LEMMA Soundness == Spec => []Sound
BY SoundInit, SoundStep, PTL DEF Spec

\* The variables of SettingsValues keep their types.
THEOREM SettingsTypes == Spec => []TypeOK
<1>1. Sound => TypeOK
  BY DEF Sound
<1> QED
  BY <1>1, Soundness, PTL

\* A getter answers with the value last reported as saved, when it asks for that
\* value's datatype, and with its default otherwise, whatever the texts and the
\* widths of the integers; of a string too long for the reader's buffer, which is
\* saved all the same, with the beginning.
THEOREM GettersAnswer == Spec => []Answers
<1>1. Sound => Answers
  BY DEF Sound, Answers, Answered, TypedGet, StringGet
<1> QED
  BY <1>1, Soundness, PTL

-----------------------------------------------------------------------------
(***************************************************************************)
(* Numbers typed at a shell.                                               *)
(***************************************************************************)
LEMMA SmallModulo ==
    ASSUME NEW n \in Nat, NEW m \in Nat, n < m
    PROVE  n % m = n
OBVIOUS

\* A number the datatype holds is parsed as itself.
LEMMA UnsignedExact ==
    ASSUME NEW n \in 0..(UIntMod - 2)
    PROVE  \A u \in ToULong(n) : UInt32(u) = n
<1>1. n \in Nat /\ n < UIntMod /\ n < ULongMod /\ UIntMod \in Nat /\ ULongMod \in Nat
  BY SettingsAssumption
<1>2. n % ULongMod = n /\ n % UIntMod = n
  BY <1>1, SmallModulo
<1> QED
  BY <1>2 DEF ToULong, UInt32

LEMMA SignedExact ==
    ASSUME NEW n \in (1 - (UIntMod \div 2))..((UIntMod \div 2) - 2)
    PROVE  Int32(n) = n
<1> DEFINE h == UIntMod \div 2
<1>1. UIntMod \in Nat /\ h \in Nat /\ UIntMod = 2 * h
  BY SettingsAssumption
<1>2. n + h \in Nat /\ n + h < UIntMod
  BY <1>1
<1>3. (n + h) % UIntMod = n + h
  BY <1>1, <1>2, SmallModulo
<1> QED
  BY <1>1, <1>3 DEF Int32

LEMMA NumberText ==
    ASSUME NEW t \in Texts, t.class = "number"
    PROVE  t = Num(t.n) /\ t.n \in Int
BY TextType DEF Data, Num

\* `value` with a number: the parse finds that number with the setting's datatype.
LEMMA NumberParsed ==
    ASSUME NEW k \in Keys, NEW t \in Texts, NEW tag, t.class = "number", Holds(tag, t.n),
           NEW v \in Parse(k, tag, t)
    PROVE  v = Is(tag, t)
<1>1. Words(k, t) = {}
  BY DEF Words, Is, Lone
<1>2. v \in Literals(tag, t)
  BY <1>1 DEF Parse
<1>3. CASE tag \in {"unsigned", "enumerated"}
  <2>1. PICK u \in ToULong(t.n) : v = Is(tag, Num(UInt32(u)))
    BY <1>2, <1>3 DEF Literals
  <2>2. t.n \in 0..(UIntMod - 2)
    BY <1>3 DEF Holds
  <2> QED
    BY <2>1, <2>2, UnsignedExact, NumberText
<1>4. CASE tag = "signed"
  <2>1. PICK u \in ToLong(t.n) : v = Is(tag, Num(Int32(u)))
    BY <1>2, <1>4 DEF Literals
  <2>2. u = t.n /\ t.n \in (1 - (UIntMod \div 2))..((UIntMod \div 2) - 2)
    BY <1>4, <2>1 DEF Holds, ToLong
  <2> QED
    BY <2>1, <2>2, SignedExact, NumberText
<1> QED
  BY <1>3, <1>4 DEF Holds

\* `value` with a number the setting's datatype holds saves that number with that
\* datatype, or nothing.
THEOREM NumbersSavedExactly == Spec => NumberSaved
<1>1. ASSUME Sound, NEW k \in Keys, NEW t \in Texts, NEW ok \in BOOLEAN,
             Value(k, t, ok), t.class = "number", Holds(Decode(stored[k]).tag, t.n)
      PROVE  stored'[k] \in {stored[k], Is(Decode(stored[k]).tag, t)}
  <2>1. PICK v \in Parse(k, Decode(stored[k]).tag, t) : Save(k, v, ok)
    BY <1>1 DEF Value
  <2>2. v = Is(Decode(stored[k]).tag, t)
    BY <1>1, <2>1, NumberParsed
  <2> QED
    BY <1>1, <2>1, <2>2 DEF Save, Sound, TypeOK, vars
<1>2. Sound =>
        [\A k \in Keys, t \in Texts, ok \in BOOLEAN :
           Value(k, t, ok) /\ t.class = "number" /\ Holds(Decode(stored[k]).tag, t.n)
               => stored'[k] \in {stored[k], Is(Decode(stored[k]).tag, t)}]_vars
  BY <1>1
<1> QED
  BY <1>2, Soundness, PTL DEF NumberSaved
-----------------------------------------------------------------------------
(***************************************************************************)
(* The datatype of a setting.                                              *)
(***************************************************************************)
\* What `value` saves has the setting's datatype, unless the text is a word with a
\* datatype of its own.
DatatypeKept ==
    \A k \in Keys, t \in Texts, ok \in BOOLEAN :
        Value(k, t, ok) /\ stored'[k] # stored[k] =>
            \/ stored'[k].tag = Decode(stored[k]).tag
            \/ stored'[k] = Is("null", Lone("NULL")) /\ t.class = "NULL" /\ k \in Commandable
            \/ stored'[k].tag = "boolean" /\ stored'[k].data.class = t.class
               /\ t.class \in {"true", "false"}
            \/ stored'[k] = Is("enumerated", Num(t.n)) /\ t.class = "name" /\ k \in Named

LEMMA WordDatatype ==
    ASSUME NEW k \in Keys, NEW t \in Texts, NEW v \in Words(k, t)
    PROVE  \/ v = Is("null", Lone("NULL")) /\ t.class = "NULL" /\ k \in Commandable
           \/ v.tag = "boolean" /\ v.data.class = t.class /\ t.class \in {"true", "false"}
           \/ v = Is("enumerated", Num(t.n)) /\ t.class = "name" /\ k \in Named
<1>1. CASE v \in {w \in {Is("null", Lone("NULL")), Is("boolean", Lone("true")),
                         Is("boolean", Lone("false"))} :
                     w.data.class = t.class /\ (t.class = "NULL" => k \in Commandable)}
  BY <1>1 DEF Is, Lone
<1>2. CASE v \in {Is("enumerated", Num(n)) : n \in {m \in {t.n} : t.class = "name" /\ k \in Named}}
  BY <1>2
<1> QED
  BY <1>1, <1>2 DEF Words

LEMMA LiteralDatatype ==
    ASSUME NEW tag, NEW t, NEW v \in Literals(tag, t)
    PROVE  v.tag = tag
BY DEF Literals, Is

\* A setting keeps its datatype through any text typed for it, an object identifier
\* or a date that does not parse included, but for the words NULL, where the property
\* is commandable, true and false anywhere, and the names of a property that has them.
THEOREM ValueKeepsDatatype == Spec => [][DatatypeKept]_vars
<1>1. ASSUME Sound, NEW k \in Keys, NEW t \in Texts, NEW ok \in BOOLEAN,
             Value(k, t, ok), stored'[k] # stored[k]
      PROVE  \/ stored'[k].tag = Decode(stored[k]).tag
             \/ stored'[k] = Is("null", Lone("NULL")) /\ t.class = "NULL" /\ k \in Commandable
             \/ stored'[k].tag = "boolean" /\ stored'[k].data.class = t.class
                /\ t.class \in {"true", "false"}
             \/ stored'[k] = Is("enumerated", Num(t.n)) /\ t.class = "name" /\ k \in Named
  <2>1. PICK v \in Parse(k, Decode(stored[k]).tag, t) : Save(k, v, ok)
    BY <1>1 DEF Value
  <2>2. stored'[k] = v
    BY <1>1, <2>1 DEF Save, Sound, TypeOK, vars
  <2>3. v \in Words(k, t) \/ v \in Literals(Decode(stored[k]).tag, t)
    BY <2>1 DEF Parse
  <2> QED
    BY <2>2, <2>3, WordDatatype, LiteralDatatype
<1>2. Sound => [DatatypeKept]_vars
  BY <1>1 DEF DatatypeKept
<1> QED
  BY <1>2, Soundness, PTL
=============================================================================
