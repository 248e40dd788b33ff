---------------------------- MODULE MCProtection ----------------------------
(* Small instances of FileProtection for TLC. *)
EXTENDS FileProtection
=============================================================================
