----------------------------- MODULE Allocation -----------------------------
(***************************************************************************)
(* domain/allocation.py: how a new pool's 10000 basis points are split     *)
(* among its members.  A member's basis points are its units in every      *)
(* quota window (quota_service.py, create_pool).                           *)
(***************************************************************************)
EXTENDS Totals

\* compute_equal_allocations_bps(), by the members' order; the total is
\* TOTAL_ALLOCATION_BPS.
EqualAllocations(total, n) ==
  [index \in 1..n |-> IF index =< total % n THEN total \div n + 1 ELSE total \div n]

\* The reference: cards are dealt round by round, and a member has those that
\* were dealt to it.
Dealt(total, n) ==
  [index \in 1..n |-> Cardinality({ card \in 1..total : (card - 1) % n = index - 1 })]
=============================================================================
