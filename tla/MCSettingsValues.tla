-------------------------- MODULE MCSettingsValues --------------------------
(* SettingsValues for TLC: 8 for 2^32, so numbers on both sides of each end of *)
(* the datatypes, and a text of every other class.  Saved as characters, 12 is *)
(* decoded as a signed 50: 1 is that datatype's tag and length, 2 the number.  *)
EXTENDS SettingsValues
Typed == {Num(n) : n \in {-9, -4, -2, 0, 2, 6, 7, 8}}
             \cup {[class |-> "name", n |-> 1], [class |-> "word", n |-> 2]}
             \cup {Lone(c) : c \in Classes \ {"number", "name", "cut", "empty"}}
TypedSpelled == [t \in Typed |-> CASE t.class = "number" /\ t.n > 0 -> Is("signed", Num(3))
                                   [] t = [class |-> "word", n |-> 2] -> Is("unsigned", Num(2))
                                   [] t = Lone("word") -> Is("coded", Lone("coded"))
                                   [] OTHER -> None]
=============================================================================
