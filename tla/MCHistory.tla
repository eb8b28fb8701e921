----------------------------- MODULE MCHistory ------------------------------
(* Four directories, and lists of at most three entries: long enough for    *)
(* the limit to be reached in the middle of a line.                          *)
EXTENDS FilerHistory
=============================================================================
