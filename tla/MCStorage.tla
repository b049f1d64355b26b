----------------------------- MODULE MCStorage -----------------------------
(* Storage for TLC: a commandable property with two priorities, an array and *)
(* a plain property; two values, one of them the default.                    *)
EXTENDS Storage
=============================================================================
