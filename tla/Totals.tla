------------------------------- MODULE Totals -------------------------------
(***************************************************************************)
(* Sums of quota units over table rows.                                    *)
(*                                                                         *)
(* Every table of the quota engine that carries quota (usage records,      *)
(* shared-consumption records, capacity requests and grants) has an        *)
(* `amount` column.  The code adds such columns up with Python's sum();    *)
(* here the sum over a finite set of rows is the number of units the rows  *)
(* stand for, each unit tagged with its row.  Rows are distinct (they have *)
(* keys), so the units are disjoint and the count is the sum.  The form    *)
(* needs no recursion, which lets the proofs use the finite-set theorems.  *)
(***************************************************************************)
EXTENDS Integers, FiniteSets

Units(rows) == UNION { {r} \X (1..r.amount) : r \in rows }

Total(rows) == Cardinality(Units(rows))

\* The same sum over a function from names to amounts.
TotalOf(f) == Total({ [of |-> x, amount |-> f[x]] : x \in DOMAIN f })

Least(a, b) == IF a =< b THEN a ELSE b

\* max(a, 0), the clamp the engine applies to every remaining balance.
Clamp(a) == IF a >= 0 THEN a ELSE 0
=============================================================================
