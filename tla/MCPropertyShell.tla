-------------------------- MODULE MCPropertyShell --------------------------
(* PropertyShell for TLC: the Present_Value of a light with two priorities,  *)
(* its Egress_Time and an array; two values, one of them the default.        *)
EXTENDS PropertyShell

MCLights == Commandable
MCEgress == [l \in Lights |-> CHOOSE p \in Plain : TRUE]
=============================================================================
