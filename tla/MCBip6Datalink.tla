--------------------------- MODULE MCBip6Datalink ---------------------------
(* Bip6Datalink for TLC: three descriptors, two ports, one address, two      *)
(* groups, and a buffer of two bytes for datagrams of up to three with       *)
(* headers of up to two, the lengths of which wrap at five.                  *)
EXTENDS Bip6Datalink

MCDescriptors == 0..2
MCPorts == 1..2
=============================================================================
