---------------------------- MODULE MCBacnetTask ----------------------------
(* BacnetTask for TLC: the main thread, two shells, two clock values.        *)
EXTENDS BacnetTask
=============================================================================
