------------------------------ MODULE MCReinit ------------------------------
(* Reinit for TLC: a delay of four ticks, sleeps of up to two, and a counter *)
(* that wraps every eight.                                                    *)
EXTENDS Reinit
=============================================================================
