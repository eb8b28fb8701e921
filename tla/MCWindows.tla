------------------------------ MODULE MCWindows ------------------------------
(* A root, a mount point and a directory below it; two windows; panels on    *)
(* two sides. At most three things are open at once: enough for two windows  *)
(* and a dialog, and for every pair of things closed in the same callback.   *)
EXTENDS FilerWindows, TLC

CONSTANTS home, disk, photos

MCBelow == [d \in {home, disk, photos} |->
              CASE d = home -> {home, disk, photos}
                [] d = disk -> {disk, photos}
                [] d = photos -> {photos}]
MCParentOf == [d \in {home, disk, photos} |-> IF d = photos THEN disk ELSE home]
\* Neither the addresses of windows nor the sides are told apart.
Interchangeable == Permutations(Windows) \cup Permutations(Sides)
==============================================================================
