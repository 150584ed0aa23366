--------------------------- MODULE TotalsTheorems ---------------------------
(***************************************************************************)
(* What the sums of Totals satisfy: they are natural numbers, they grow    *)
(* with the set of rows, they are additive over disjoint sets of rows and  *)
(* pointwise over functions, and rows may be exchanged one for one.        *)
(* Last comes a result of its own: the equal split hands out exactly the   *)
(* total, and to each member what dealing it round by round would give.    *)
(***************************************************************************)
EXTENDS Allocation, FiniteSetTheorems, FunctionTheorems, TLAPS

\* A finite table whose amounts are natural numbers.
Summable(rows) == IsFiniteSet(rows) /\ \A r \in rows : r.amount \in Nat

\* The units of one row are as many as its amount says.
LEMMA UnitsOfRow ==
  ASSUME NEW r, r.amount \in Nat
  PROVE  /\ IsFiniteSet({r} \X (1..r.amount))
         /\ Cardinality({r} \X (1..r.amount)) = r.amount
<1>1. IsFiniteSet({r}) /\ Cardinality({r}) = 1
  BY FS_Singleton
<1>2. IsFiniteSet(1..r.amount) /\ Cardinality(1..r.amount) = r.amount
  BY FS_Interval
<1>3. QED
  BY <1>1, <1>2, FS_Product

\* A summable table stands for finitely many units.
LEMMA UnitsFinite ==
  ASSUME NEW rows, Summable(rows)
  PROVE  IsFiniteSet(Units(rows))
<1> DEFINE UnitsOf == [r \in rows |-> {r} \X (1..r.amount)]
           Parts   == { {r} \X (1..r.amount) : r \in rows }
<1>1. UnitsOf \in Surjection(rows, Parts)
  BY DEF Surjection
<1>2. IsFiniteSet(Parts)
  BY <1>1, FS_Surjection DEF Summable
<1>3. \A T \in Parts : IsFiniteSet(T)
  BY UnitsOfRow DEF Summable
<1>4. QED
  BY <1>2, <1>3, FS_UNION DEF Units

\* A total is a natural number.
LEMMA TotalType ==
  ASSUME NEW rows, Summable(rows)
  PROVE  Total(rows) \in Nat
BY UnitsFinite, FS_CardinalityType DEF Total

\* No rows, no units.
LEMMA TotalEmpty == Total({}) = 0
<1>1. Units({}) = {}
  BY DEF Units
<1>2. QED
  BY <1>1, FS_EmptySet DEF Total

\* A part of a table never totals more than the table.
LEMMA TotalSubset ==
  ASSUME NEW rows, Summable(rows), NEW part \in SUBSET rows
  PROVE  /\ Summable(part)
         /\ Total(part) =< Total(rows)
<1>1. Summable(part)
  BY FS_Subset DEF Summable
<1>2. Units(part) \subseteq Units(rows)
  BY DEF Units
<1>3. Cardinality(Units(part)) =< Cardinality(Units(rows))
  BY <1>2, UnitsFinite, FS_Subset
<1>4. QED
  BY <1>1, <1>3 DEF Total

\* Totals of disjoint tables add up.
LEMMA TotalDisjointUnion ==
  ASSUME NEW S, NEW T, Summable(S), Summable(T), S \cap T = {}
  PROVE  /\ Summable(S \cup T)
         /\ Total(S \cup T) = Total(S) + Total(T)
<1>1. Summable(S \cup T)
  BY FS_Union DEF Summable
<1>2. Units(S \cup T) = Units(S) \cup Units(T)
  BY DEF Units
<1>3. Units(S) \cap Units(T) = {}
  BY DEF Units
<1>4. Cardinality(Units(S) \cap Units(T)) = 0
  BY <1>3, FS_EmptySet
<1>5. Total(S) \in Nat /\ Total(T) \in Nat
  BY TotalType
<1>6. Cardinality(Units(S) \cup Units(T))
        = Cardinality(Units(S)) + Cardinality(Units(T)) - Cardinality(Units(S) \cap Units(T))
  BY UnitsFinite, FS_Union
<1>7. Total(S \cup T) = Total(S) + Total(T) - 0
  BY <1>2, <1>4, <1>6 DEF Total
<1>8. QED
  BY <1>1, <1>5, <1>7

\* A table of one row totals that row's amount.
LEMMA TotalSingleton ==
  ASSUME NEW r, r.amount \in Nat
  PROVE  /\ Summable({r})
         /\ Total({r}) = r.amount
<1>1. Summable({r})
  BY FS_Singleton DEF Summable
<1>2. Units({r}) = {r} \X (1..r.amount)
  BY DEF Units
<1>3. QED
  BY <1>1, <1>2, UnitsOfRow DEF Total

\* Adding a new row adds its amount.
LEMMA TotalAdd ==
  ASSUME NEW S, Summable(S), NEW r, r.amount \in Nat, r \notin S
  PROVE  /\ Summable(S \cup {r})
         /\ Total(S \cup {r}) = Total(S) + r.amount
<1>1. S \cap {r} = {}
  OBVIOUS
<1>2. QED
  BY <1>1, TotalSingleton, TotalDisjointUnion

\* Each row's amount is part of the total.
LEMMA TotalMember ==
  ASSUME NEW S, Summable(S), NEW r \in S
  PROVE  r.amount =< Total(S)
<1>1. {r} \in SUBSET S
  OBVIOUS
<1>2. QED
  BY <1>1, TotalSubset, TotalSingleton DEF Summable

\* The sum over a function with a finite domain is a natural number.
LEMMA TotalOfType ==
  ASSUME NEW D, IsFiniteSet(D), NEW f \in [D -> Nat]
  PROVE  TotalOf(f) \in Nat
<1> DEFINE Row  == [x \in D |-> [of |-> x, amount |-> f[x]]]
           Rows == { [of |-> x, amount |-> f[x]] : x \in D }
<1>1. Row \in Surjection(D, Rows)
  BY DEF Surjection
<1>2. IsFiniteSet(Rows)
  BY <1>1, FS_Surjection
<1>3. Summable(Rows)
  BY <1>2 DEF Summable
<1>4. QED
  BY <1>3, TotalType DEF TotalOf

\* The smaller of two integers.
LEMMA LeastType ==
  ASSUME NEW a \in Int, NEW b \in Int
  PROVE  /\ Least(a, b) \in Int
         /\ Least(a, b) =< a
         /\ Least(a, b) =< b
         /\ Least(a, b) \in {a, b}
BY DEF Least

\* A clamped balance is a natural number that is no larger than a natural
\* number the balance is no larger than.
LEMMA ClampType ==
  ASSUME NEW a \in Int
  PROVE  /\ Clamp(a) \in Nat
         /\ a =< Clamp(a)
         /\ Clamp(a) # 0 => Clamp(a) = a
BY DEF Clamp

-----------------------------------------------------------------------------
(* One table's rows in another's place.                                    *)

\* Rows exchanged one for one for rows of the same amounts total the same.
LEMMA TotalBijection ==
  ASSUME NEW S, Summable(S), NEW T, NEW f \in Bijection(S, T), \A r \in S : f[r].amount = r.amount
  PROVE  Summable(T) /\ Total(T) = Total(S)
<1> DEFINE unit == [u \in Units(S) |-> <<f[u[1]], u[2]>>]
<1>1. /\ f \in [S -> T]
      /\ \A r, q \in S : f[r] = f[q] => r = q
      /\ \A t \in T : \E r \in S : f[r] = t
  BY Fun_BijectionProperties
<1>2. IsFiniteSet(T)
  BY FS_Bijection DEF Summable, ExistsBijection
<1>3. \A t \in T : t.amount \in Nat
  BY <1>1 DEF Summable
<1>4. \A u : u \in Units(S) <=> \E r \in S : \E i \in 1..r.amount : u = <<r, i>>
  BY DEF Units
<1>5. \A u : u \in Units(T) <=> \E t \in T : \E i \in 1..t.amount : u = <<t, i>>
  BY DEF Units
<1>6. unit \in [Units(S) -> Units(T)]
  BY <1>1, <1>4, <1>5
<1>7. \A u, v \in Units(S) : unit[u] = unit[v] => u = v
  BY <1>1, <1>4
<1>8. \A v \in Units(T) : \E u \in Units(S) : unit[u] = v
  <2> SUFFICES ASSUME NEW v \in Units(T) PROVE \E u \in Units(S) : unit[u] = v
    OBVIOUS
  <2>1. PICK t \in T : \E i \in 1..t.amount : v = <<t, i>>
    BY <1>5
  <2>2. PICK i \in 1..t.amount : v = <<t, i>>
    BY <2>1
  <2>3. PICK r \in S : f[r] = t
    BY <1>1
  <2>4. <<r, i>> \in Units(S)
    BY <1>4, <2>2, <2>3
  <2> QED
    BY <2>2, <2>3, <2>4
<1>9. unit \in Bijection(Units(S), Units(T))
  BY <1>6, <1>7, <1>8, Fun_IsBij
<1>10. Cardinality(Units(T)) = Cardinality(Units(S))
  BY <1>9, UnitsFinite, FS_Bijection DEF ExistsBijection
<1> QED
  BY <1>2, <1>3, <1>10 DEF Summable, Total

\* Rows of amount zero do not count.
LEMMA TotalWithoutZeros ==
  ASSUME NEW S, Summable(S), NEW T \in SUBSET S, \A r \in S : r.amount > 0 => r \in T
  PROVE  Total(T) = Total(S)
<1>1. Units(T) = Units(S)
  <2>1. ASSUME NEW r \in S, NEW i \in 1..r.amount PROVE r \in T
    BY <2>1 DEF Summable
  <2> QED
    BY <2>1 DEF Units
<1> QED
  BY <1>1 DEF Total

\* A set of bounded natural numbers has a greatest element.
LEMMA GreatestElement ==
  ASSUME NEW n \in Nat, NEW S \in SUBSET (0..n), S # {}
  PROVE  \E x \in S : \A y \in S : y =< x
<1> DEFINE tails == { x..n : x \in S }
<1>1. tails \subseteq SUBSET (0..n) /\ tails # {}
  <2>1. \A x \in S : x..n \in tails /\ x..n \subseteq 0..n
    OBVIOUS
  <2> QED
    BY <2>1
<1>2. IsFiniteSet(0..n)
  BY FS_Interval
<1> DEFINE R == StrictSubsetOrdering(0..n)
<1>3. IsWellFoundedOn(R, SUBSET (0..n))
  BY <1>2, FS_StrictSubsetOrderingWellFounded, FS_FiniteSubsetsOfFinite
<1> HIDE DEF R, tails
<1>4. PICK tail \in tails : \A t \in tails : ~ (<<t, tail>> \in R)
  BY ONLY <1>1, <1>3, WFMin
<1>5. \A t \in tails : ~ (t \subseteq tail /\ t # tail)
  BY <1>1, <1>4 DEF R, StrictSubsetOrdering
<1> USE DEF tails
<1>6. PICK x \in S : tail = x..n
  OBVIOUS
<1>7. ASSUME NEW y \in S, y > x PROVE FALSE
  <2>1. y..n \subseteq x..n /\ x \in x..n /\ x \notin y..n
    BY <1>7
  <2>2. y..n \in tails
    OBVIOUS
  <2> QED
    BY <1>5, <1>6, <2>1, <2>2
<1> QED
  BY <1>7

-----------------------------------------------------------------------------
(* Sums over functions.                                                    *)

\* The rows a sum over a function adds up.
RowsOf(f) == { [of |-> x, amount |-> f[x]] : x \in DOMAIN f }

\* They can be summed, and their units are known by element and number.
LEMMA RowsOfFunction ==
  ASSUME NEW D, IsFiniteSet(D), NEW f \in [D -> Nat]
  PROVE  /\ Summable(RowsOf(f))
         /\ TotalOf(f) = Total(RowsOf(f))
         /\ IsFiniteSet(Units(RowsOf(f)))
         /\ \A u : u \in Units(RowsOf(f)) <=>
              \E x \in D : \E i \in 1..f[x] : u = <<[of |-> x, amount |-> f[x]], i>>
<1> DEFINE Row == [x \in D |-> [of |-> x, amount |-> f[x]]]
<1>1. RowsOf(f) = { Row[x] : x \in D }
  BY DEF RowsOf
<1>2. Row \in Surjection(D, RowsOf(f))
  BY <1>1 DEF Surjection
<1>3. IsFiniteSet(RowsOf(f))
  BY <1>2, FS_Surjection
<1>4. Summable(RowsOf(f))
  BY <1>1, <1>3 DEF Summable
<1>5. TotalOf(f) = Total(RowsOf(f))
  BY DEF TotalOf, RowsOf
<1> HIDE DEF Row
<1>7. \A u : u \in Units(RowsOf(f)) <=> \E r \in RowsOf(f) : \E i \in 1..r.amount : u = <<r, i>>
  BY DEF Units
<1>8. \A u : u \in Units(RowsOf(f)) <=> \E x \in D : \E i \in 1..f[x] : u = <<[of |-> x, amount |-> f[x]], i>>
  BY <1>7 DEF RowsOf
<1>9. IsFiniteSet(Units(RowsOf(f)))
  BY <1>4, UnitsFinite
<1> QED
  BY <1>4, <1>5, <1>8, <1>9

\* Sums of functions add up point by point.
LEMMA TotalOfSum ==
  ASSUME NEW D, IsFiniteSet(D), NEW f \in [D -> Nat], NEW g \in [D -> Nat], NEW h \in [D -> Nat],
         \A x \in D : h[x] = f[x] + g[x]
  PROVE  TotalOf(h) = TotalOf(f) + TotalOf(g)
<1> DEFINE RowF(x) == [of |-> x, amount |-> f[x]]
           RowG(x) == [of |-> x, amount |-> g[x]]
           RowH(x) == [of |-> x, amount |-> h[x]]
           low  == { u \in Units(RowsOf(h)) : u[2] =< f[u[1].of] }
           high == { u \in Units(RowsOf(h)) : ~ u[2] =< f[u[1].of] }
           toF  == [u \in low |-> <<RowF(u[1].of), u[2]>>]
           toG  == [u \in high |-> <<RowG(u[1].of), u[2] - f[u[1].of]>>]
<1>1. \A x : RowF(x).of = x /\ RowG(x).of = x /\ RowH(x).of = x
  OBVIOUS
<1>2. \A u : u \in Units(RowsOf(f)) <=> \E x \in D : \E i \in 1..f[x] : u = <<RowF(x), i>>
  BY RowsOfFunction
<1>3. \A u : u \in Units(RowsOf(g)) <=> \E x \in D : \E i \in 1..g[x] : u = <<RowG(x), i>>
  BY RowsOfFunction
<1>4. \A u : u \in Units(RowsOf(h)) <=> \E x \in D : \E i \in 1..h[x] : u = <<RowH(x), i>>
  BY RowsOfFunction
<1> HIDE DEF RowF, RowG, RowH
<1>5. toF \in Bijection(low, Units(RowsOf(f)))
  <2>1. \A u : u \in low <=> \E x \in D : \E i \in 1..f[x] : u = <<RowH(x), i>>
    BY <1>1, <1>4
  <2> HIDE DEF low
  <2>2. \A x \in D : \A i \in 1..f[x] : <<RowH(x), i>> \in low /\ toF[<<RowH(x), i>>] = <<RowF(x), i>>
    BY <1>1, <2>1
  <2> HIDE DEF toF
  <2>3. \A u \in low : toF[u] \in Units(RowsOf(f))
    BY <1>2, <2>1, <2>2
  <2>4. toF \in [low -> Units(RowsOf(f))]
    BY <2>3 DEF toF
  <2>5. \A u, v \in low : toF[u] = toF[v] => u = v
    <3> SUFFICES ASSUME NEW u \in low, NEW v \in low, toF[u] = toF[v] PROVE u = v
      OBVIOUS
    <3>1. PICK x \in D, i \in Nat : i \in 1..f[x] /\ u = <<RowH(x), i>>
      BY <2>1
    <3>2. PICK y \in D, j \in Nat : j \in 1..f[y] /\ v = <<RowH(y), j>>
      BY <2>1
    <3>3. <<RowF(x), i>> = <<RowF(y), j>>
      BY <2>2, <3>1, <3>2
    <3>4. RowF(x) = RowF(y) /\ i = j
      BY <3>3
    <3>5. x = y
      BY <1>1, <3>4
    <3> QED
      BY <3>1, <3>2, <3>4, <3>5
  <2>6. ASSUME NEW v \in Units(RowsOf(f)) PROVE \E u \in low : toF[u] = v
    <3>1. PICK x \in D, i \in Nat : i \in 1..f[x] /\ v = <<RowF(x), i>>
      BY <1>2
    <3> QED
      BY <2>2, <3>1
  <2> QED
    BY <2>4, <2>5, <2>6, Fun_IsBij
<1>6. toG \in Bijection(high, Units(RowsOf(g)))
  <2>1. \A u : u \in high <=> \E x \in D : \E i \in 1..g[x] : u = <<RowH(x), f[x] + i>>
    <3> SUFFICES ASSUME NEW u PROVE u \in high <=> \E x \in D : \E i \in 1..g[x] : u = <<RowH(x), f[x] + i>>
      OBVIOUS
    <3>1. ASSUME NEW x \in D, NEW j \in 1..h[x], u = <<RowH(x), j>>
          PROVE  u[2] =< f[u[1].of] <=> j =< f[x]
      BY <1>1, <3>1
    <3>2. ASSUME u \in high PROVE \E x \in D : \E i \in 1..g[x] : u = <<RowH(x), f[x] + i>>
      <4>1. PICK x \in D, j \in Nat : j \in 1..h[x] /\ u = <<RowH(x), j>>
        BY <1>4, <3>2
      <4>2. ~ j =< f[x]
        BY <3>1, <3>2, <4>1
      <4>3. j - f[x] \in 1..g[x] /\ j = f[x] + (j - f[x])
        BY <4>1, <4>2
      <4> QED
        BY <4>1, <4>3
    <3>3. ASSUME NEW x \in D, NEW i \in 1..g[x], u = <<RowH(x), f[x] + i>> PROVE u \in high
      <4>1. f[x] + i \in 1..h[x] /\ ~ f[x] + i =< f[x]
        OBVIOUS
      <4>2. u \in Units(RowsOf(h))
        BY <1>4, <3>3, <4>1
      <4> QED
        BY <3>1, <3>3, <4>1, <4>2
    <3> QED
      BY <3>2, <3>3
  <2> HIDE DEF high
  <2>2. \A x \in D : \A i \in 1..g[x] :
          <<RowH(x), f[x] + i>> \in high /\ toG[<<RowH(x), f[x] + i>>] = <<RowG(x), i>>
    <3> SUFFICES ASSUME NEW x \in D, NEW i \in 1..g[x]
                 PROVE  <<RowH(x), f[x] + i>> \in high /\ toG[<<RowH(x), f[x] + i>>] = <<RowG(x), i>>
      OBVIOUS
    <3>1. <<RowH(x), f[x] + i>> \in high
      BY <2>1
    <3>2. toG[<<RowH(x), f[x] + i>>] = <<RowG(x), f[x] + i - f[x]>>
      BY <1>1, <3>1
    <3>3. f[x] + i - f[x] = i
      OBVIOUS
    <3> QED
      BY <3>1, <3>2, <3>3
  <2>3. ASSUME NEW u \in high PROVE toG[u] \in Units(RowsOf(g))
    <3> HIDE DEF toG
    <3>1. PICK x \in D, i \in Nat : i \in 1..g[x] /\ u = <<RowH(x), f[x] + i>>
      BY <2>1
    <3> QED
      BY <1>3, <2>2, <3>1
  <2>4. toG \in [high -> Units(RowsOf(g))]
    BY <2>3
  <2> HIDE DEF toG
  <2>5. \A u, v \in high : toG[u] = toG[v] => u = v
    <3> SUFFICES ASSUME NEW u \in high, NEW v \in high, toG[u] = toG[v] PROVE u = v
      OBVIOUS
    <3>1. PICK x \in D, i \in Nat : i \in 1..g[x] /\ u = <<RowH(x), f[x] + i>>
      BY <2>1
    <3>2. PICK y \in D, j \in Nat : j \in 1..g[y] /\ v = <<RowH(y), f[y] + j>>
      BY <2>1
    <3>3. <<RowG(x), i>> = <<RowG(y), j>>
      BY <2>2, <3>1, <3>2
    <3>4. RowG(x) = RowG(y) /\ i = j
      BY <3>3
    <3>5. x = y
      BY <1>1, <3>4
    <3> QED
      BY <3>1, <3>2, <3>4, <3>5
  <2>6. ASSUME NEW v \in Units(RowsOf(g)) PROVE \E u \in high : toG[u] = v
    <3>1. PICK x \in D, i \in Nat : i \in 1..g[x] /\ v = <<RowG(x), i>>
      BY <1>3
    <3> QED
      BY <2>2, <3>1
  <2> QED
    BY <2>4, <2>5, <2>6, Fun_IsBij
<1> HIDE DEF toF, toG
<1>7. IsFiniteSet(Units(RowsOf(h)))
  BY RowsOfFunction
<1>8. /\ low \cup high = Units(RowsOf(h)) /\ low \cap high = {}
      /\ IsFiniteSet(low) /\ IsFiniteSet(high)
  BY <1>7, FS_Subset
<1> HIDE DEF low, high
<1>9. Cardinality(low) = Cardinality(Units(RowsOf(f))) /\ Cardinality(high) = Cardinality(Units(RowsOf(g)))
  BY <1>5, <1>6, <1>8, FS_Bijection DEF ExistsBijection
<1>10. Cardinality(Units(RowsOf(h))) = Cardinality(low) + Cardinality(high) - Cardinality({})
  BY <1>8, FS_Union
<1>11. Cardinality(low) \in Nat /\ Cardinality(high) \in Nat
  BY <1>8, FS_CardinalityType
<1>12. Cardinality(Units(RowsOf(h))) = Cardinality(low) + Cardinality(high)
  BY <1>10, <1>11, FS_EmptySet
<1> QED
  BY <1>9, <1>12, RowsOfFunction DEF Total

\* A function that is zero everywhere sums up to zero.
LEMMA TotalOfZeros ==
  ASSUME NEW D, IsFiniteSet(D), NEW f \in [D -> Nat], \A x \in D : f[x] = 0
  PROVE  TotalOf(f) = 0
<1>1. {} \in SUBSET RowsOf(f) /\ \A r \in RowsOf(f) : ~ r.amount > 0
  BY DEF RowsOf
<1> QED
  BY <1>1, RowsOfFunction, TotalWithoutZeros, TotalEmpty

\* A function that is no larger anywhere has no larger sum.
LEMMA TotalOfMonotone ==
  ASSUME NEW D, IsFiniteSet(D), NEW f \in [D -> Nat], NEW h \in [D -> Nat], \A x \in D : f[x] =< h[x]
  PROVE  TotalOf(f) =< TotalOf(h)
<1> DEFINE g == [x \in D |-> h[x] - f[x]]
<1>1. g \in [D -> Nat] /\ \A x \in D : h[x] = f[x] + g[x]
  OBVIOUS
<1> HIDE DEF g
<1>2. TotalOf(h) = TotalOf(f) + TotalOf(g)
  BY <1>1, TotalOfSum
<1> QED
  BY <1>1, <1>2, TotalOfType

\* Each value is part of the sum.
LEMMA TotalOfMember ==
  ASSUME NEW D, IsFiniteSet(D), NEW f \in [D -> Nat], NEW x \in D
  PROVE  f[x] =< TotalOf(f)
<1> DEFINE row == [of |-> x, amount |-> f[x]]
<1>1. row \in RowsOf(f) /\ row.amount = f[x]
  BY DEF RowsOf
<1> QED
  BY <1>1, RowsOfFunction, TotalMember

\* One value more: the sum over part of the domain, and over a part with one
\* more element.
LEMMA TotalOfPart ==
  ASSUME NEW D, IsFiniteSet(D), NEW f \in [D -> Nat], NEW P \in SUBSET D, NEW x \in D \ P
  PROVE  /\ TotalOf([y \in P |-> f[y]]) \in Nat
         /\ TotalOf([y \in P |-> f[y]]) + f[x] =< TotalOf(f)
         /\ D = P \cup {x} => TotalOf([y \in P |-> f[y]]) + f[x] = TotalOf(f)
<1> DEFINE part == [y \in P |-> f[y]]
           row  == [of |-> x, amount |-> f[x]]
<1>1. IsFiniteSet(P) /\ part \in [P -> Nat]
  BY FS_Subset
<1>2. /\ Summable(RowsOf(f)) /\ TotalOf(f) = Total(RowsOf(f))
      /\ Summable(RowsOf(part)) /\ TotalOf(part) = Total(RowsOf(part))
  BY <1>1, RowsOfFunction
<1>3. /\ row \notin RowsOf(part)
      /\ RowsOf(part) \cup {row} \in SUBSET RowsOf(f)
      /\ D = P \cup {x} => RowsOf(f) = RowsOf(part) \cup {row}
  <2>1. \A r : r \in RowsOf(f) <=> \E y \in D : r = [of |-> y, amount |-> f[y]]
    BY DEF RowsOf
  <2>2. \A r : r \in RowsOf(part) <=> \E y \in P : r = [of |-> y, amount |-> f[y]]
    BY DEF RowsOf
  <2> HIDE DEF part
  <2> QED
    BY <2>1, <2>2
<1>4. row.amount \in Nat /\ row.amount = f[x]
  OBVIOUS
<1> HIDE DEF part, row
<1>5. Total(RowsOf(part) \cup {row}) = Total(RowsOf(part)) + f[x]
  BY <1>2, <1>3, <1>4, TotalAdd
<1>6. Total(RowsOf(part) \cup {row}) =< Total(RowsOf(f))
  BY <1>2, <1>3, TotalSubset
<1>7. Total(RowsOf(part)) \in Nat
  BY <1>2, TotalType
<1>8. D = P \cup {x} => Total(RowsOf(part) \cup {row}) = Total(RowsOf(f))
  BY <1>3
<1> QED
  BY <1>2, <1>5, <1>6, <1>7, <1>8 DEF part

\* A table's total is the sum of its parts' totals.
LEMMA TotalPartition ==
  ASSUME NEW S, Summable(S), NEW D, IsFiniteSet(D),
         NEW part \in [D -> SUBSET S],
         \A r \in S : \E x \in D : r \in part[x],
         \A x, y \in D : x # y => part[x] \cap part[y] = {},
         NEW f, f = [x \in D |-> Total(part[x])]
  PROVE  f \in [D -> Nat] /\ TotalOf(f) = Total(S)
<1>1. \A x \in D : Summable(part[x]) /\ f[x] = Total(part[x]) /\ f[x] \in Nat
  BY TotalSubset, TotalType
<1>2. f \in [D -> Nat]
  BY <1>1
<1> DEFINE Row(x) == [of |-> x, amount |-> f[x]]
           count == [x \in D |-> CHOOSE b : b \in Bijection(1..f[x], Units(part[x]))]
           unit  == [u \in Units(RowsOf(f)) |-> count[u[1].of][u[2]]]
<1>3. \A x \in D : count[x] \in Bijection(1..f[x], Units(part[x]))
  <2> SUFFICES ASSUME NEW x \in D PROVE \E b : b \in Bijection(1..f[x], Units(part[x]))
    OBVIOUS
  <2>1. IsFiniteSet(Units(part[x]))
    BY <1>1, UnitsFinite
  <2>2. ExistsBijection(1..Cardinality(Units(part[x])), Units(part[x]))
    BY <2>1, FS_CardinalityType
  <2> QED
    BY <1>1, <2>2 DEF ExistsBijection, Total
<1>4. \A x \in D : /\ \A i \in 1..f[x] : count[x][i] \in Units(part[x])
                   /\ \A i, j \in 1..f[x] : count[x][i] = count[x][j] => i = j
                   /\ \A v \in Units(part[x]) : \E i \in 1..f[x] : count[x][i] = v
  <2> SUFFICES ASSUME NEW x \in D
               PROVE  /\ \A i \in 1..f[x] : count[x][i] \in Units(part[x])
                      /\ \A i, j \in 1..f[x] : count[x][i] = count[x][j] => i = j
                      /\ \A v \in Units(part[x]) : \E i \in 1..f[x] : count[x][i] = v
    OBVIOUS
  <2> DEFINE b == count[x]
  <2>1. b \in Bijection(1..f[x], Units(part[x]))
    BY <1>3
  <2> HIDE DEF b
  <2>2. /\ b \in [1..f[x] -> Units(part[x])]
        /\ \A i, j \in 1..f[x] : b[i] = b[j] => i = j
        /\ \A v \in Units(part[x]) : \E i \in 1..f[x] : b[i] = v
    BY <2>1 DEF Bijection, Injection, Surjection, IsInjective
  <2> QED
    BY <2>2 DEF b
<1> HIDE DEF count
<1>5. \A u : u \in Units(RowsOf(f)) <=> \E x \in D : \E i \in 1..f[x] : u = <<Row(x), i>>
  BY <1>2, RowsOfFunction
<1>6. \A x : Row(x).of = x
  OBVIOUS
<1> HIDE DEF Row
<1>7. \A x \in D : \A i \in 1..f[x] : <<Row(x), i>> \in Units(RowsOf(f)) /\ unit[<<Row(x), i>>] = count[x][i]
  BY <1>5, <1>6
<1>8. \A x \in D : Units(part[x]) \subseteq Units(S)
  BY DEF Units
<1>9. \A v \in Units(S) : \E x \in D : v \in Units(part[x])
  BY DEF Units
<1>10. \A v : \A x, y \in D : v \in Units(part[x]) /\ v \in Units(part[y]) => x = y
  <2> SUFFICES ASSUME NEW x \in D, NEW y \in D, NEW v, v \in Units(part[x]), v \in Units(part[y]) PROVE x = y
    OBVIOUS
  <2>1. v[1] \in part[x] /\ v[1] \in part[y]
    BY DEF Units
  <2> QED
    BY <2>1
<1>11. unit \in [Units(RowsOf(f)) -> Units(S)]
  <2> HIDE DEF unit
  <2>1. ASSUME NEW u \in Units(RowsOf(f)) PROVE unit[u] \in Units(S)
    <3>1. PICK x \in D, i \in Nat : i \in 1..f[x] /\ u = <<Row(x), i>>
      BY <1>5
    <3>2. unit[u] = count[x][i] /\ count[x][i] \in Units(part[x])
      BY <1>4, <1>7, <3>1
    <3> QED
      BY <1>8, <3>2
  <2> QED
    BY <2>1 DEF unit
<1> HIDE DEF unit
<1>12. \A u, v \in Units(RowsOf(f)) : unit[u] = unit[v] => u = v
  <2> SUFFICES ASSUME NEW u \in Units(RowsOf(f)), NEW v \in Units(RowsOf(f)), unit[u] = unit[v] PROVE u = v
    OBVIOUS
  <2>1. PICK x \in D, i \in Nat : i \in 1..f[x] /\ u = <<Row(x), i>>
    BY <1>5
  <2>2. PICK y \in D, j \in Nat : j \in 1..f[y] /\ v = <<Row(y), j>>
    BY <1>5
  <2>3. count[x][i] = count[y][j]
    BY <1>7, <2>1, <2>2
  <2>4. x = y
    BY <1>4, <1>10, <2>1, <2>2, <2>3
  <2>5. i = j
    BY <1>4, <2>1, <2>2, <2>3, <2>4
  <2> QED
    BY <2>1, <2>2, <2>4, <2>5
<1>13. \A v \in Units(S) : \E u \in Units(RowsOf(f)) : unit[u] = v
  <2> SUFFICES ASSUME NEW v \in Units(S) PROVE \E u \in Units(RowsOf(f)) : unit[u] = v
    OBVIOUS
  <2>1. PICK x \in D : v \in Units(part[x])
    BY <1>9
  <2>2. PICK i \in 1..f[x] : count[x][i] = v
    BY <1>4, <2>1
  <2> QED
    BY <1>7, <2>2
<1>14. unit \in Bijection(Units(RowsOf(f)), Units(S))
  BY <1>11, <1>12, <1>13, Fun_IsBij
<1>15. Cardinality(Units(S)) = Cardinality(Units(RowsOf(f)))
  BY <1>2, <1>14, RowsOfFunction, FS_Bijection DEF ExistsBijection
<1> QED
  BY <1>2, <1>15, RowsOfFunction DEF Total
-----------------------------------------------------------------------------
(* The equal split: the units of the shares correspond one to one to the   *)
(* units of the total, dealt round by round.                               *)

\* Division with remainder.
LEMMA Division ==
  ASSUME NEW a \in Nat, NEW n \in Nat \ {0}
  PROVE  /\ a \div n \in Nat
         /\ a % n \in 0..(n - 1)
         /\ a = n * (a \div n) + (a % n)
BY SMT

\* Quotient and remainder are unique.
LEMMA DivisionUnique ==
  ASSUME NEW n \in Nat \ {0}, NEW x \in Nat, NEW y \in 0..(n - 1)
  PROVE  (n * x + y) \div n = x /\ (n * x + y) % n = y
<1> DEFINE a == n * x + y
<1>1. a \in Nat
  BY SMT
<1>2. /\ a \div n \in Nat
      /\ a % n \in 0..(n - 1)
      /\ a = n * (a \div n) + (a % n)
  BY <1>1, Division
<1> DEFINE d == a \div n
           m == a % n
<1>3. d \in Nat /\ m \in 0..(n - 1) /\ n * x + y = n * d + m
  BY <1>2
<1> HIDE DEF d, m, a
<1>4. ~ d >= x + 1
  <2> SUFFICES ASSUME d >= x + 1 PROVE FALSE
    OBVIOUS
  <2>1. n * d >= n * x + n
    BY <1>3, SMT
  <2> QED
    BY <2>1, <1>3, SMT
<1>5. ~ x >= d + 1
  <2> SUFFICES ASSUME x >= d + 1 PROVE FALSE
    OBVIOUS
  <2>1. n * x >= n * d + n
    BY <1>3, SMT
  <2> QED
    BY <2>1, <1>3, SMT
<1>6. d = x /\ m = y
  BY <1>3, <1>4, <1>5, SMT
<1> QED
  BY <1>6 DEF d, m, a

\* The card dealt to a member in a round lies within the total exactly if the
\* member's share has that many rounds.
LEMMA RoundsOfShare ==
  ASSUME NEW total \in Nat, NEW n \in Nat \ {0}, NEW index \in 1..n, NEW round \in Nat \ {0}
  PROVE  /\ EqualAllocations(total, n)[index] \in Nat
         /\ round =< EqualAllocations(total, n)[index] <=> n * (round - 1) + index =< total
<1> DEFINE q == total \div n
           r == total % n
<1>1. q \in Nat /\ r \in 0..(n - 1) /\ total = n * q + r
  BY Division
<1>2. EqualAllocations(total, n)[index] = IF index =< r THEN q + 1 ELSE q
  BY DEF EqualAllocations
<1> HIDE DEF q, r
<1>3. CASE round - 1 >= q + 1
  <2>1. n * (round - 1) >= n * q + n
    BY <1>1, <1>3, SMT
  <2> QED
    BY <2>1, <1>1, <1>2, <1>3, SMT
<1>4. CASE round - 1 = q
  <2>1. n * (round - 1) = n * q
    BY <1>4
  <2> QED
    BY <2>1, <1>1, <1>2, <1>4, SMT
<1>5. CASE q >= round - 1 + 1
  <2>1. n * q >= n * (round - 1) + n
    BY <1>1, <1>5, SMT
  <2> QED
    BY <2>1, <1>1, <1>2, <1>5, SMT
<1> QED
  BY <1>1, <1>3, <1>4, <1>5, SMT

\* compute_equal_allocations_bps() hands out the whole total, no more and no less,
\* for any number of members (what its assert says).
THEOREM EqualSplit ==
  ASSUME NEW total \in Nat, NEW n \in Nat \ {0}
  PROVE  TotalOf(EqualAllocations(total, n)) = total
<1> DEFINE f == EqualAllocations(total, n)
           Row(x) == [of |-> x, amount |-> f[x]]
           rows == { Row(x) : x \in 1..n }
           deal == [card \in 1..total |-> <<Row(((card - 1) % n) + 1), (card - 1) \div n + 1>>]
<1>1. DOMAIN f = 1..n
  BY DEF EqualAllocations
<1>2. \A card \in 1..total :
        /\ ((card - 1) % n) + 1 \in 1..n
        /\ (card - 1) \div n + 1 \in Nat \ {0}
        /\ card = n * ((card - 1) \div n) + ((card - 1) % n) + 1
  <2> TAKE card \in 1..total
  <2>1. card - 1 \in Nat
    OBVIOUS
  <2> DEFINE d == (card - 1) \div n
             m == (card - 1) % n
  <2>2. d \in Nat /\ m \in 0..(n - 1) /\ card - 1 = n * d + m
    BY <2>1, Division
  <2> HIDE DEF d, m
  <2>3. m + 1 \in 1..n /\ d + 1 \in Nat \ {0} /\ card = n * d + m + 1
    BY <2>2, SMT
  <2> QED
    BY <2>3 DEF d, m
<1>3. \A x \in 1..n : f[x] \in Nat /\ \A k \in Nat \ {0} : k =< f[x] <=> n * (k - 1) + x =< total
  BY RoundsOfShare
<1> HIDE DEF f
<1>4. \A u : u \in Units(rows) <=> \E x \in 1..n : \E k \in 1..f[x] : u = <<Row(x), k>>
  <2> TAKE u
  <2>1. \A x \in 1..n : Row(x).amount = f[x] /\ Row(x).of = x
    OBVIOUS
  <2> HIDE DEF Row
  <2> QED
    BY <2>1 DEF Units
<1>5. deal \in [1..total -> Units(rows)]
  <2> SUFFICES ASSUME NEW card \in 1..total PROVE deal[card] \in Units(rows)
    BY DEF deal
  <2> DEFINE x == ((card - 1) % n) + 1
             k == (card - 1) \div n + 1
  <2>1. x \in 1..n /\ k \in Nat \ {0} /\ card = n * (k - 1) + x
    BY <1>2
  <2>2. deal[card] = <<Row(x), k>>
    OBVIOUS
  <2> HIDE DEF x, k, deal, Row
  <2>3. k =< f[x] /\ f[x] \in Nat
    BY <1>3, <2>1
  <2>4. k \in 1..f[x]
    BY <2>1, <2>3
  <2> QED
    BY <1>4, <2>1, <2>2, <2>4
<1>6. \A c1, c2 \in 1..total : deal[c1] = deal[c2] => c1 = c2
  <2> SUFFICES ASSUME NEW c1 \in 1..total, NEW c2 \in 1..total, deal[c1] = deal[c2] PROVE c1 = c2
    OBVIOUS
  <2>1. ((c1 - 1) % n) + 1 = ((c2 - 1) % n) + 1 /\ (c1 - 1) \div n + 1 = (c2 - 1) \div n + 1
    <3>1. /\ deal[c1] = <<Row(((c1 - 1) % n) + 1), (c1 - 1) \div n + 1>>
          /\ deal[c2] = <<Row(((c2 - 1) % n) + 1), (c2 - 1) \div n + 1>>
      OBVIOUS
    <3>2. \A x, y : Row(x) = Row(y) => x = y
      <4> TAKE x, y
      <4>1. Row(x).of = x /\ Row(y).of = y
        OBVIOUS
      <4> QED
        BY <4>1
    <3> DEFINE x1 == ((c1 - 1) % n) + 1
               x2 == ((c2 - 1) % n) + 1
               k1 == (c1 - 1) \div n + 1
               k2 == (c2 - 1) \div n + 1
    <3>3. deal[c1] = <<Row(x1), k1>> /\ deal[c2] = <<Row(x2), k2>>
      BY <3>1
    <3> HIDE DEF deal, Row, x1, x2, k1, k2
    <3>4. Row(x1) = Row(x2) /\ k1 = k2
      <4>1. <<Row(x1), k1>> = <<Row(x2), k2>>
        BY <3>3
      <4> QED
        BY <4>1, Zenon
    <3>5. x1 = x2
      BY <3>2, <3>4
    <3> QED
      BY <3>4, <3>5 DEF x1, x2, k1, k2
  <2> QED
    BY <1>2, <2>1
<1>7. \A u \in Units(rows) : \E card \in 1..total : deal[card] = u
  <2> SUFFICES ASSUME NEW u \in Units(rows) PROVE \E card \in 1..total : deal[card] = u
    OBVIOUS
  <2>0. PICK x \in 1..n : \E k \in 1..f[x] : u = <<Row(x), k>>
    BY <1>4
  <2>1. PICK k \in 1..f[x] : u = <<Row(x), k>>
    BY <2>0
  <2>2. k \in Nat \ {0} /\ n * (k - 1) + x =< total
    BY <1>3
  <2> DEFINE card == n * (k - 1) + x
  <2>3. k - 1 \in Nat /\ x - 1 \in 0..(n - 1) /\ n * (k - 1) \in Nat
    BY <2>2, SMT
  <2>4. card \in 1..total /\ card - 1 = n * (k - 1) + (x - 1)
    BY <2>2, <2>3
  <2>5. (card - 1) \div n = k - 1 /\ (card - 1) % n = x - 1
    BY <2>3, <2>4, DivisionUnique
  <2> HIDE DEF card, Row
  <2>6. ((card - 1) % n) + 1 = x /\ (card - 1) \div n + 1 = k
    BY <2>2, <2>3, <2>5
  <2>7. deal[card] = <<Row(x), k>>
    BY <2>4, <2>6
  <2> QED
    BY <2>1, <2>4, <2>7
<1>8. TotalOf(f) = Cardinality(Units(rows))
  BY <1>1 DEF TotalOf, Total
<1> HIDE DEF deal, rows, Row
<1>9. deal \in Bijection(1..total, Units(rows))
  BY <1>5, <1>6, <1>7 DEF Bijection, Injection, Surjection, IsInjective
<1>10. IsFiniteSet(1..total) /\ Cardinality(1..total) = total
  BY FS_Interval
<1>11. Cardinality(Units(rows)) = total
  BY <1>9, <1>10, FS_Bijection DEF ExistsBijection
<1> QED
  BY <1>8, <1>11 DEF f

\* compute_equal_allocations_bps() gives each member exactly the units that are
\* dealt to it when the total is dealt round by round, for any total and number
\* of members: no two shares differ by more than a unit, and the members that
\* come first have the remainder.
THEOREM EqualSplitIsDealt ==
  ASSUME NEW total \in Nat, NEW n \in Nat \ {0}
  PROVE  EqualAllocations(total, n) = Dealt(total, n)
<1> DEFINE f == EqualAllocations(total, n)
           Hand(index) == { card \in 1..total : (card - 1) % n = index - 1 }
<1>1. DOMAIN f = 1..n /\ f = [index \in 1..n |-> f[index]]
  BY DEF EqualAllocations
<1>2. Dealt(total, n) = [index \in 1..n |-> Cardinality(Hand(index))]
  BY DEF Dealt
<1>3. ASSUME NEW index \in 1..n PROVE f[index] = Cardinality(Hand(index))
  <2> DEFINE rounds == f[index]
             dealt  == [round \in 1..rounds |-> n * (round - 1) + index]
  <2>1. /\ rounds \in Nat
        /\ \A round \in Nat \ {0} : round =< rounds <=> n * (round - 1) + index =< total
    BY RoundsOfShare
  <2> HIDE DEF f, rounds
  <2>2. ASSUME NEW round \in 1..rounds PROVE dealt[round] \in Hand(index)
    <3>1. round - 1 \in Nat /\ index - 1 \in 0..(n - 1) /\ n * (round - 1) \in Nat
      BY <2>1
    <3>2. (n * (round - 1) + (index - 1)) % n = index - 1
      BY <3>1, DivisionUnique
    <3>3. n * (round - 1) + index =< total
      BY <2>1
    <3>4. dealt[round] = n * (round - 1) + index
      OBVIOUS
    <3> HIDE DEF dealt
    <3>5. dealt[round] \in 1..total /\ dealt[round] - 1 = n * (round - 1) + (index - 1)
      BY <3>1, <3>3, <3>4
    <3> QED
      BY <3>2, <3>5
  <2>3. ASSUME NEW i \in 1..rounds, NEW j \in 1..rounds, dealt[i] = dealt[j] PROVE i = j
    <3>1. i - 1 \in Nat /\ j - 1 \in Nat /\ index - 1 \in 0..(n - 1)
      BY <2>1
    <3>2. /\ (n * (i - 1) + (index - 1)) \div n = i - 1
          /\ (n * (j - 1) + (index - 1)) \div n = j - 1
      BY <3>1, DivisionUnique
    <3>3. n * (i - 1) + index = n * (j - 1) + index
      BY <2>3
    <3>4. n * (i - 1) \in Nat /\ n * (j - 1) \in Nat
      BY <3>1
    <3>5. n * (i - 1) + (index - 1) = n * (j - 1) + (index - 1)
      BY <3>3, <3>4
    <3>6. i - 1 = j - 1
      BY <3>2, <3>5
    <3> QED
      BY <3>6, <2>1
  <2>4. ASSUME NEW card \in Hand(index) PROVE \E round \in 1..rounds : dealt[round] = card
    <3> DEFINE d == (card - 1) \div n
    <3>1. card \in 1..total /\ (card - 1) % n = index - 1
      OBVIOUS
    <3>2. card - 1 \in Nat
      BY <3>1
    <3>3. d \in Nat /\ card - 1 = n * d + ((card - 1) % n)
      BY <3>2, Division
    <3> HIDE DEF d
    <3>4. d + 1 \in Nat \ {0} /\ (d + 1) - 1 = d /\ card = n * d + index /\ card =< total
      BY <3>1, <3>3
    <3>5. d + 1 =< rounds
      BY <2>1, <3>4
    <3>6. d + 1 \in 1..rounds /\ n * ((d + 1) - 1) + index = card
      BY <2>1, <3>4, <3>5
    <3> QED
      BY <3>6
  <2>5. dealt \in Bijection(1..rounds, Hand(index))
    <3> HIDE DEF Hand
    <3>1. dealt \in [1..rounds -> Hand(index)]
      BY <2>2
    <3> HIDE DEF dealt
    <3> QED
      BY <2>3, <2>4, <3>1, Fun_IsBij
  <2>6. IsFiniteSet(1..rounds) /\ Cardinality(1..rounds) = rounds
    BY <2>1, FS_Interval
  <2> HIDE DEF dealt, Hand
  <2>7. Cardinality(Hand(index)) = Cardinality(1..rounds)
    BY <2>5, <2>6, FS_Bijection DEF ExistsBijection
  <2> QED
    BY <2>6, <2>7 DEF rounds
<1> HIDE DEF Hand, f
<1>4. f = [index \in 1..n |-> Cardinality(Hand(index))]
  <2>1. [index \in 1..n |-> f[index]] = [index \in 1..n |-> Cardinality(Hand(index))]
    BY <1>3, Zenon
  <2> QED
    BY <1>1, <2>1, Zenon
<1> QED
  BY <1>2, <1>4, Zenon DEF f
===============================================================================
