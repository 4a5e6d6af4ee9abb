------------------------- MODULE MCOperationService -------------------------
(* Values of the constants of OperationService for TLC. *)
EXTENDS OperationService, TLC

CONSTANTS sc1, sc2, t1, t2, s1

MCHolderOf == (sc1 :> t1) @@ (sc2 :> t2)
\* One scope has every budget, for one operation; the other has none.
MCLimit ==
  [sc \in {sc1, sc2} |-> [d \in Dimension |-> IF sc = sc1 THEN {1} ELSE {}]]
\* Two operations of the first scope, or one of each.
MCAssigned == {scopeOf \in [Op -> Scope] : \E o \in Op : scopeOf[o] = sc1}
\* An operation can be cancelled, or has a second of time.
MCGuards == {[timeout |-> {}, handle |-> TRUE], [timeout |-> {1}, handle |-> FALSE]}
\* Neither.
MCNoGuard == {[timeout |-> {}, handle |-> FALSE]}
MCNoLimit == [sc \in {sc1, sc2} |-> [d \in Dimension |-> {}]]
Symmetric == Permutations(Op)
=============================================================================
