---------------------------- MODULE SerialRecord ----------------------------
(***************************************************************************)
(* One session record as its users think of it: every operation reads and  *)
(* writes it in one step.  A write carries the number of writes before it, *)
(* so an update that works from an old copy is not a step of this module.  *)
(***************************************************************************)
EXTENDS Naturals

VARIABLE file   \* the record: whether it exists, has ended, and its write count

NoFile == [exists |-> FALSE, ended |-> FALSE, writes |-> 0]

Init == file = NoFile

Created == [exists |-> TRUE, ended |-> FALSE, writes |-> 1]
Updated(f) == [f EXCEPT !.writes = f.writes + 1]
Closed(f) == [f EXCEPT !.writes = f.writes + 1, !.ended = TRUE]

Create == ~file.exists /\ file' = Created
Update == file.exists /\ file' = Updated(file)
Close == file.exists /\ file' = Closed(file)
Purge == file.exists /\ file.ended /\ file' = NoFile

Next == Create \/ Update \/ Close \/ Purge

Spec == Init /\ [][Next]_file
=============================================================================
