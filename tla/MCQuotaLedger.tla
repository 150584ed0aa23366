--------------------------- MODULE MCQuotaLedger ---------------------------
(* QuotaLedger for TLC: an equal split, and one reset time for the whole   *)
(* pool, as create_pool() sets them up.                                    *)
EXTENDS QuotaLedger, Allocation, TLC

CONSTANTS Share, WindowEnd

\* The split is the one that dealing gives, with and without a remainder; the
\* sum for any total is a theorem of TotalsTheorems.
ASSUME SplitIsDealt ==
  \A total \in 0..30, n \in 1..12 : EqualAllocations(total, n) = Dealt(total, n)

EqualShares == [m \in Members |-> Share]

OneReset == [m \in Members |-> WindowEnd]

Symmetry == Permutations(Members) \cup Permutations(Keys)
=============================================================================
