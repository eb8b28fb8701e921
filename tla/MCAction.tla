------------------------------ MODULE MCAction ------------------------------
(* Small operations for TLC: deletions with a write-protected file, copies  *)
(* with two conflicts, and two file systems to unmount.                     *)
EXTENDS Action

MCJobs ==
    { <<"plain", "protected">>, <<"conflict", "new", "conflict">>,
      <<"mount", "mount">>, <<"unmount", "unmount">> }
MCUnmounts == { <<"unmount", "unmount">> }
=============================================================================
