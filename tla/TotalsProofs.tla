---------------------------- MODULE TotalsProofs ----------------------------
(***************************************************************************)
(* The laws of Total that the proofs about the components rest on.         *)
(***************************************************************************)
EXTENDS Totals, FiniteSetTheorems, TLAPS

\* The units of a function with natural values, without the union.
LEMMA UnitsSet ==
  ASSUME NEW D, NEW f \in [D -> Nat]
  PROVE  Units(f) = {u \in D \X Nat : u[2] \in 1..f[u[1]]}
<1> DEFINE U == {u \in D \X Nat : u[2] \in 1..f[u[1]]}
<1>1. ASSUME NEW u \in Units(f) PROVE u \in U
  <2>1. PICK x \in D : u \in {x} \X (1..f[x])
    BY <1>1 DEF Units
  <2>2. f[x] \in Nat
    OBVIOUS
  <2>3. QED
    BY <2>1, <2>2
<1>2. ASSUME NEW u \in U PROVE u \in Units(f)
  <2>1. u \in {u[1]} \X (1..f[u[1]]) /\ u[1] \in D
    OBVIOUS
  <2>2. QED
    BY <2>1 DEF Units
<1>3. QED
  BY <1>1, <1>2

\* A stack of n units of one element has n members.
LEMMA Column ==
  ASSUME NEW x, NEW n \in Nat
  PROVE  IsFiniteSet({x} \X (1..n)) /\ Cardinality({x} \X (1..n)) = n
<1>1. IsFiniteSet(1..n) /\ Cardinality(1..n) = n
  BY FS_Interval
<1>2. IsFiniteSet({x}) /\ Cardinality({x}) = 1
  BY FS_Singleton
<1>3. /\ IsFiniteSet({x} \X (1..n))
      /\ Cardinality({x} \X (1..n)) = Cardinality({x}) * Cardinality(1..n)
  <2> DEFINE S == {x}
             T == 1..n
  <2>1. IsFiniteSet(S) /\ IsFiniteSet(T)
    BY <1>1, <1>2
  <2> HIDE DEF S, T
  <2>2. IsFiniteSet(S \X T) /\ Cardinality(S \X T) = Cardinality(S) * Cardinality(T)
    BY <2>1, FS_Product
  <2> QED
    BY <2>2 DEF S, T
<1>4. QED
  BY <1>1, <1>2, <1>3

LEMMA UnitsFinite ==
  ASSUME NEW D, IsFiniteSet(D), NEW f \in [D -> Nat]
  PROVE  IsFiniteSet(Units(f))
<1> DEFINE S == {{x} \X (1..f[x]) : x \in D}
           g == [x \in D |-> {x} \X (1..f[x])]
<1>1. g \in Surjection(D, S)
  BY DEF Surjection
<1>2. IsFiniteSet(S)
  BY <1>1, FS_Surjection
<1>3. ASSUME NEW T \in S PROVE IsFiniteSet(T)
  <2>1. PICK x \in D : T = {x} \X (1..f[x])
    OBVIOUS
  <2>2. f[x] \in Nat
    OBVIOUS
  <2>3. QED
    BY <2>1, <2>2, Column
<1>4. IsFiniteSet(UNION S)
  <2> HIDE DEF S
  <2> QED BY <1>2, <1>3, FS_UNION
<1>5. QED
  BY <1>4 DEF Units

LEMMA TotalNat ==
  ASSUME NEW D, IsFiniteSet(D), NEW f \in [D -> Nat]
  PROVE  Total(f) \in Nat
BY UnitsFinite, FS_CardinalityType DEF Total

LEMMA TotalZero ==
  ASSUME NEW D, NEW f \in [D -> Nat], \A x \in D : f[x] = 0
  PROVE  Total(f) = 0
<1>1. Units(f) = {}
  BY UnitsSet
<1>2. QED
  BY <1>1, FS_EmptySet DEF Total

\* The units of f other than those of x.
LEMMA TotalSplit ==
  ASSUME NEW D, IsFiniteSet(D), NEW f \in [D -> Nat], NEW x \in D
  PROVE  Total(f) = Cardinality({u \in Units(f) : u[1] # x}) + f[x]
<1> DEFINE R == {u \in Units(f) : u[1] # x}
           C == {x} \X (1..f[x])
<1>1. Units(f) = R \cup C /\ R \cap C = {}
  BY UnitsSet
<1>2. IsFiniteSet(R) /\ Cardinality(R) \in Nat
  BY UnitsFinite, FS_Subset, FS_CardinalityType
<1>3. IsFiniteSet(C) /\ Cardinality(C) = f[x]
  BY Column
<1>4. Cardinality(R \cup C) = Cardinality(R) + Cardinality(C) - Cardinality(R \cap C)
  <2> HIDE DEF R, C
  <2> QED BY <1>2, <1>3, FS_Union
<1>5. Cardinality(R \cap C) = 0
  BY <1>1, FS_EmptySet
<1>6. QED
  <2>1. f[x] \in Nat /\ Total(f) = Cardinality(R \cup C)
    BY <1>1 DEF Total
  <2> HIDE DEF R, C
  <2>2. Total(f) = Cardinality(R) + f[x]
    BY <1>2, <1>3, <1>4, <1>5, <2>1
  <2>3. QED
    BY <2>2 DEF R

\* Changing one value changes the total by as much.
LEMMA TotalUpdate ==
  ASSUME NEW D, IsFiniteSet(D), NEW f \in [D -> Nat], NEW g \in [D -> Nat],
         NEW x \in D, \A y \in D \ {x} : g[y] = f[y]
  PROVE  Total(g) = Total(f) - f[x] + g[x]
<1> DEFINE R(h) == {u \in Units(h) : u[1] # x}
<1>1. R(f) = R(g)
  BY UnitsSet
<1>2. Cardinality(R(f)) \in Nat
  BY UnitsFinite, FS_Subset, FS_CardinalityType
<1>3. Total(f) = Cardinality(R(f)) + f[x] /\ Total(g) = Cardinality(R(g)) + g[x]
  BY TotalSplit
<1>4. QED
  <2> HIDE DEF R
  <2> QED BY <1>1, <1>2, <1>3

\* A value raised by q raises the total by q.
LEMMA TotalRaised ==
  ASSUME NEW D, IsFiniteSet(D), NEW f \in [D -> Nat], NEW x \in D, NEW q \in Nat,
         NEW g \in [D -> Nat], g[x] = f[x] + q, \A y \in D \ {x} : g[y] = f[y]
  PROVE  Total(g) = Total(f) + q
<1>1. Total(g) = Total(f) - f[x] + g[x]
  BY TotalUpdate
<1>2. Total(f) \in Nat /\ f[x] \in Nat
  BY TotalNat
<1> QED
  BY <1>1, <1>2

LEMMA TotalBounds ==
  ASSUME NEW D, IsFiniteSet(D), NEW f \in [D -> Nat], NEW x \in D
  PROVE  f[x] <= Total(f)
<1>1. Cardinality({u \in Units(f) : u[1] # x}) \in Nat
  BY UnitsFinite, FS_Subset, FS_CardinalityType
<1>2. QED
  BY <1>1, TotalSplit

\* The total of a pointwise sum is the sum of the totals.
LEMMA TotalSum ==
  ASSUME NEW D, IsFiniteSet(D), NEW f \in [D -> Nat], NEW g \in [D -> Nat],
         NEW h \in [D -> Nat], \A x \in D : h[x] = f[x] + g[x]
  PROVE  Total(h) = Total(f) + Total(g)
<1> DEFINE Upper == {u \in Units(h) : u[2] > f[u[1]]}
           lift == [u \in Units(g) |-> <<u[1], u[2] + f[u[1]]>>]
<1>1. Units(h) = Units(f) \cup Upper /\ Units(f) \cap Upper = {}
  BY UnitsSet
<1>2. lift \in Bijection(Units(g), Upper)
  <2>1. lift \in [Units(g) -> Upper]
    BY UnitsSet
  <2>2. ASSUME NEW a \in Units(g), NEW b \in Units(g), lift[a] = lift[b]
        PROVE  a = b
    <3>1. a \in D \X Nat /\ b \in D \X Nat
      BY UnitsSet
    <3>2. a[1] = b[1] /\ a[2] + f[a[1]] = b[2] + f[b[1]] /\ f[a[1]] \in Nat
      BY <2>2, <3>1
    <3>3. a[2] = b[2]
      BY <3>1, <3>2
    <3>4. QED
      BY <3>1, <3>2, <3>3
  <2>3. \A v \in Upper : \E u \in Units(g) : lift[u] = v
    <3> SUFFICES ASSUME NEW v \in Upper PROVE \E u \in Units(g) : lift[u] = v
      OBVIOUS
    <3>1. v \in D \X Nat /\ v[2] \in 1..h[v[1]] /\ v[2] > f[v[1]]
      BY UnitsSet
    <3>2. <<v[1], v[2] - f[v[1]]>> \in Units(g)
      BY <3>1, UnitsSet
    <3>3. lift[<<v[1], v[2] - f[v[1]]>>] = v
      BY <3>1, <3>2
    <3>4. QED
      BY <3>2, <3>3
  <2>4. QED
    BY <2>1, <2>2, <2>3 DEF Bijection, Injection, Surjection, IsInjective
<1>3. IsFiniteSet(Upper) /\ Cardinality(Upper) = Total(g)
  BY <1>2, UnitsFinite, FS_Bijection DEF ExistsBijection, Total
<1>4. Cardinality(Units(f) \cup Upper) =
        Cardinality(Units(f)) + Cardinality(Upper) - Cardinality(Units(f) \cap Upper)
  BY <1>3, UnitsFinite, FS_Union
<1>5. Cardinality(Units(f) \cap Upper) = 0
  BY <1>1, FS_EmptySet
<1>6. Total(f) \in Nat /\ Total(g) \in Nat
  BY TotalNat
<1>7. QED
  <2>1. Total(h) = Cardinality(Units(f) \cup Upper)
    BY <1>1 DEF Total
  <2> HIDE DEF Upper
  <2>2. QED
    BY <1>3, <1>4, <1>5, <1>6, <2>1 DEF Total

\* The same of four functions.
LEMMA FourTotals ==
  ASSUME NEW D, IsFiniteSet(D), NEW f \in [D -> Nat], NEW g \in [D -> Nat],
         NEW h \in [D -> Nat], NEW i \in [D -> Nat]
  PROVE  Total([x \in D |-> f[x] + g[x] + h[x] + i[x]]) =
           Total(f) + Total(g) + Total(h) + Total(i)
<1> DEFINE two == [x \in D |-> f[x] + g[x]]
           three == [x \in D |-> two[x] + h[x]]
           four == [x \in D |-> three[x] + i[x]]
<1>1. two \in [D -> Nat] /\ three \in [D -> Nat] /\ four \in [D -> Nat]
  OBVIOUS
<1>2. four = [x \in D |-> f[x] + g[x] + h[x] + i[x]]
  OBVIOUS
<1>3. Total(two) = Total(f) + Total(g)
  <2>1. \A x \in D : two[x] = f[x] + g[x]
    OBVIOUS
  <2> QED BY <1>1, <2>1, TotalSum
<1>4. \A x \in D : three[x] = two[x] + h[x]
  OBVIOUS
<1>5. \A x \in D : four[x] = three[x] + i[x]
  OBVIOUS
<1> HIDE DEF two, three, four
<1>6. Total(three) = Total(two) + Total(h)
  BY <1>1, <1>4, TotalSum
<1>7. Total(four) = Total(three) + Total(i)
  BY <1>1, <1>5, TotalSum
<1>8. QED
  BY <1>2, <1>3, <1>6, <1>7

\* g on the pairs that start with a, nothing on the others.
Section(A, B, a, g) == [i \in A \X B |-> IF i[1] = a THEN g[i[2]] ELSE 0]

LEMMA SectionTotal ==
  ASSUME NEW A, NEW B, IsFiniteSet(B), NEW a \in A, NEW g \in [B -> Nat]
  PROVE  Total(Section(A, B, a, g)) = Total(g)
<1> DEFINE f == Section(A, B, a, g)
<1>1. f \in [A \X B -> Nat]
      /\ \A i \in A \X B : f[i] = IF i[1] = a THEN g[i[2]] ELSE 0
  BY DEF Section
<1> DEFINE lift == [u \in Units(g) |-> <<<<a, u[1]>>, u[2]>>]
<1> HIDE DEF f
<1>2. lift \in Bijection(Units(g), Units(f))
  <2>1. lift \in [Units(g) -> Units(f)]
    BY <1>1, UnitsSet
  <2>2. \A u, v \in Units(g) : lift[u] = lift[v] => u = v
    BY <1>1, UnitsSet
  <2>3. \A v \in Units(f) : \E u \in Units(g) : lift[u] = v
    <3> SUFFICES ASSUME NEW v \in Units(f)
                 PROVE  \E u \in Units(g) : lift[u] = v
      OBVIOUS
    <3>1. v \in (A \X B) \X Nat /\ v[2] \in 1..f[v[1]]
      BY <1>1, UnitsSet
    <3>2. v[1][1] = a /\ v[2] \in 1..g[v[1][2]]
      BY <1>1, <3>1
    <3>3. <<v[1][2], v[2]>> \in Units(g)
      BY <3>1, <3>2, UnitsSet
    <3>4. lift[<<v[1][2], v[2]>>] = v
      BY <3>1, <3>2, <3>3
    <3>5. QED
      BY <3>3, <3>4
  <2>4. QED
    BY <2>1, <2>2, <2>3 DEF Bijection, Injection, Surjection, IsInjective
<1>3. Total(f) = Total(g)
  BY <1>2, UnitsFinite, FS_Bijection DEF ExistsBijection, Total
<1>4. QED
  BY <1>3 DEF f

\* The same for the pairs that end with b.
Mirror(A, B, b, g) == [i \in A \X B |-> IF i[2] = b THEN g[i[1]] ELSE 0]

LEMMA MirrorTotal ==
  ASSUME NEW A, NEW B, IsFiniteSet(A), NEW b \in B, NEW g \in [A -> Nat]
  PROVE  Total(Mirror(A, B, b, g)) = Total(g)
<1> DEFINE f == Mirror(A, B, b, g)
<1>1. f \in [A \X B -> Nat]
      /\ \A i \in A \X B : f[i] = IF i[2] = b THEN g[i[1]] ELSE 0
  BY DEF Mirror
<1> HIDE DEF f
<1> DEFINE lift == [u \in Units(g) |-> <<<<u[1], b>>, u[2]>>]
<1>2. lift \in Bijection(Units(g), Units(f))
  <2>1. lift \in [Units(g) -> Units(f)]
    BY <1>1, UnitsSet
  <2>2. \A u, v \in Units(g) : lift[u] = lift[v] => u = v
    BY <1>1, UnitsSet
  <2>3. \A v \in Units(f) : \E u \in Units(g) : lift[u] = v
    <3> SUFFICES ASSUME NEW v \in Units(f)
                 PROVE  \E u \in Units(g) : lift[u] = v
      OBVIOUS
    <3>1. v \in (A \X B) \X Nat /\ v[2] \in 1..f[v[1]]
      BY <1>1, UnitsSet
    <3>2. v[1][2] = b /\ v[2] \in 1..g[v[1][1]]
      BY <1>1, <3>1
    <3>3. <<v[1][1], v[2]>> \in Units(g)
      BY <3>1, <3>2, UnitsSet
    <3>4. lift[<<v[1][1], v[2]>>] = v
      BY <3>1, <3>2, <3>3
    <3>5. QED
      BY <3>3, <3>4
  <2>4. QED
    BY <2>1, <2>2, <2>3 DEF Bijection, Injection, Surjection, IsInjective
<1>3. Total(f) = Total(g)
  BY <1>2, UnitsFinite, FS_Bijection DEF ExistsBijection, Total
<1>4. QED
  BY <1>3 DEF f

\* The members of A, counted label by label.
LEMMA LabelTotal ==
  ASSUME NEW A, IsFiniteSet(A), NEW S, IsFiniteSet(S), NEW label \in [A -> S]
  PROVE  Total([s \in S |-> Cardinality({a \in A : label[a] = s})]) = Cardinality(A)
<1> DEFINE Class(s) == {a \in A : label[a] = s}
           f == [s \in S |-> Cardinality(Class(s))]
           Numbers(s) == Bijection(1..Cardinality(Class(s)), Class(s))
           number == [s \in S |-> CHOOSE h : h \in Numbers(s)]
           member == [u \in Units(f) |-> number[u[1]][u[2]]]
<1>1. ASSUME NEW s \in S
      PROVE  Cardinality(Class(s)) \in Nat /\ number[s] \in Numbers(s)
  <2>1. IsFiniteSet(Class(s))
    BY FS_Subset
  <2>2. Cardinality(Class(s)) \in Nat
        /\ ExistsBijection(1..Cardinality(Class(s)), Class(s))
    BY <2>1, FS_CardinalityType
  <2>3. \E h : h \in Numbers(s)
    BY <2>2 DEF ExistsBijection
  <2> QED
    BY <2>2, <2>3
<1>2. ASSUME NEW s \in S, NEW a PROVE a \in Class(s) <=> a \in A /\ label[a] = s
  OBVIOUS
<1> HIDE DEF Class, Numbers, number
<1>3. f \in [S -> Nat] /\ \A s \in S : f[s] = Cardinality(Class(s))
  BY <1>1
<1>4. Units(f) = {u \in S \X Nat : u[2] \in 1..Cardinality(Class(u[1]))}
  BY <1>3, UnitsSet
<1> HIDE DEF f
<1>5. ASSUME NEW s \in S
      PROVE  /\ \A n \in 1..Cardinality(Class(s)) : number[s][n] \in Class(s)
             /\ \A m, n \in 1..Cardinality(Class(s)) :
                  number[s][m] = number[s][n] => m = n
             /\ \A a \in Class(s) :
                  \E n \in 1..Cardinality(Class(s)) : number[s][n] = a
  BY <1>1 DEF Numbers, Bijection, Injection, Surjection, IsInjective
<1>6. member \in Bijection(Units(f), A)
  <2>1. ASSUME NEW u \in Units(f)
        PROVE  /\ u[1] \in S /\ u[2] \in 1..Cardinality(Class(u[1])) /\ u \in S \X Nat
               /\ member[u] = number[u[1]][u[2]]
               /\ member[u] \in A /\ label[member[u]] = u[1]
    <3>1. u[1] \in S /\ u[2] \in 1..Cardinality(Class(u[1])) /\ u \in S \X Nat
          /\ member[u] = number[u[1]][u[2]]
      BY <1>4
    <3>2. number[u[1]][u[2]] \in Class(u[1])
      BY <3>1, <1>5
    <3> QED
      BY <1>2, <3>1, <3>2
  <2>2. member \in [Units(f) -> A]
    <3> SUFFICES ASSUME NEW u \in Units(f) PROVE number[u[1]][u[2]] \in A
      OBVIOUS
    <3> QED
      BY <2>1
  <2>3. ASSUME NEW u \in Units(f), NEW v \in Units(f), member[u] = member[v]
        PROVE  u = v
    <3>1. u[1] = v[1]
      BY <2>1, <2>3
    <3>2. u[2] = v[2]
      BY <2>1, <2>3, <1>5, <3>1
    <3> QED
      BY <2>1, <3>1, <3>2
  <2>4. ASSUME NEW a \in A
        PROVE  \E u \in Units(f) : member[u] = a
    <3>1. label[a] \in S /\ a \in Class(label[a])
      BY <1>2
    <3>2. PICK n \in 1..Cardinality(Class(label[a])) : number[label[a]][n] = a
      BY <3>1, <1>5
    <3>3. <<label[a], n>> \in Units(f)
      BY <3>1, <3>2, <1>1, <1>4
    <3>4. member[<<label[a], n>>] = a
      BY <3>2, <3>3
    <3> QED
      BY <3>3, <3>4
  <2> HIDE DEF member
  <2> QED
    BY <2>2, <2>3, <2>4 DEF Bijection, Injection, Surjection, IsInjective
<1>7. Total(f) = Cardinality(A)
  BY <1>3, <1>6, UnitsFinite, FS_Bijection DEF ExistsBijection, Total
<1> QED
  BY <1>7 DEF f, Class

=============================================================================
