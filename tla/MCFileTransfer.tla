--------------------------- MODULE MCFileTransfer ---------------------------
(* FileTransfer for TLC: one transferring shell, one object, two pathnames;  *)
(* offsets up to 2, chunks of 1 (export) and 2 (dump, decode), so that a     *)
(* chunk ends short of, at and past the end of a file, a transfer takes more *)
(* than one, and a file may outgrow the offsets.                             *)
EXTENDS FileTransfer
=============================================================================
