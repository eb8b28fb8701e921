---------------------------- MODULE MCDirectory ----------------------------
(***************************************************************************)
(* Small instances of Directory.                                           *)
(***************************************************************************)
EXTENDS Directory

=============================================================================
