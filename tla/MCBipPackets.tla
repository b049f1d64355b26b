---------------------------- MODULE MCBipPackets ----------------------------
(* BipPackets for TLC: three descriptors, two slots for addresses, an        *)
(* address of the accepted type and one of another.                          *)
EXTENDS BipPackets

MCDescriptors == 0..2
MCIndexes == 0..1
=============================================================================
