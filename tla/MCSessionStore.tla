--------------------------- MODULE MCSessionStore ---------------------------
(***************************************************************************)
(* Small instances of SessionStore for TLC.                                *)
(***************************************************************************)
EXTENDS SessionStore, TLC

\* Every process takes leases under a name of its own ...
OwnHolder == [p \in Proc |-> p]
\* ... or all of them under one, as the command line does ("cli:cli").
SharedHolder == [p \in Proc |-> CHOOSE h \in Holder : TRUE]

OnlyUnfiltered == {NoFilter}
AtSite == [NoFilter EXCEPT !.site = {CHOOSE h \in Host : TRUE}, !.older_than = {0}]
TwoFilters == {NoFilter, AtSite}

Symmetric == Permutations(Proc) \cup Permutations(Pid) \cup Permutations(Sid)
=============================================================================
