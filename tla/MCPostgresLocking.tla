------------------------ MODULE MCPostgresLocking ------------------------
EXTENDS PostgresLocking

CONSTANTS alice, bob, k1, k2, r1, r2, g1, g2

TwoMembers == {alice, bob}

TwoEach == [m \in Members |-> 2]

Grant(id, source, recipient, type) ==
  [id |-> id, source |-> source, recipient |-> recipient, amount |-> 1, type |-> type,
   status |-> "ACTIVE", revoked |-> FALSE]

\* Each member may already lend to the other, or alice to bob, twice.
Loans == (g1 :> Grant(g1, alice, bob, "SHARED")) @@ (g2 :> Grant(g2, bob, alice, "SHARED"))

LoansOfOne == [g \in {g1, g2} |-> Grant(g, alice, bob, "SHARED")]

Openings == {Loans, LoansOfOne}

BothLend == {Loans}

\* Either request can be approved, but not both.
Asked == [r \in {r1, r2} |->
  [requester |-> bob, target |-> alice, amount |-> IF r = r1 THEN 1 ELSE 2, type |-> "SOLID"]]

Consume(m, a, k) == [op |-> "consume", member |-> m, amount |-> a, key |-> k]
On(op, m, ref) == [op |-> op, member |-> m, ref |-> ref]
Read(op, m) == [op |-> op, member |-> m]

\* Charges that need a loan, one that reuses a key, decisions on requests that
\* exclude each other, a revocation, and the reads that store expiries.
Mixed ==
  { Consume(alice, 3, k1), Consume(bob, 3, k2), Consume(bob, 1, k1),
    On("approve", alice, r1), On("approve", alice, r2), On("reject", alice, r1),
    On("revoke", alice, g1), Read("effective", alice), Read("list", bob) }

\* The calls that can wait for one another in a cycle: for windows, or for the
\* rows of grants that have expired.
Waiting == { Consume(alice, 3, k1), Consume(bob, 3, k2), Read("list", bob) }

\* Two pairs of reads and charges, with a revocation among them.
Crossing ==
  { Consume(alice, 3, k1), Consume(bob, 3, k2), On("revoke", alice, g1),
    Read("effective", alice), Read("list", bob) }

Symmetry == Permutations(Calls)
=============================================================================
