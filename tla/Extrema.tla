------------------------------ MODULE Extrema -----------------------------
(***************************************************************************)
(* Least and greatest members of sets of numbers, what the models' Min and *)
(* Max and every argument by a least counterexample rest on; and sums over *)
(* finite sets, what MapThenSumSet computes.                               *)
(***************************************************************************)
EXTENDS Integers, FiniteSetsExt, FiniteSetTheorems, WellFoundedInduction, TLAPS

LEMMA SmallestNat ==
    ASSUME NEW S, S \subseteq Nat, S # {}
    PROVE  \E x \in S : \A y \in S : x <= y
  <1> DEFINE R == {ss \in Nat \X Nat : ss[1] < ss[2]}
  <1>1. IsWellFoundedOn(R, Nat)
    BY NatLessThanWellFounded DEF OpToRel
  <1> HIDE DEF R
  <1>2. PICK x \in S : \A y \in S : ~(<<y, x>> \in R)
    BY <1>1, WFMin
  <1>3. ASSUME NEW y \in S PROVE x <= y
    <2>1. y \in Nat /\ x \in Nat /\ ~(<<y, x>> \in R)
      BY <1>2
    <2>2. ~(y < x)
      BY <2>1 DEF R
    <2> QED
      BY <2>1, <2>2
  <1> QED
    BY <1>3

LEMMA LargestNat ==
    ASSUME NEW S, NEW n \in Nat, S \subseteq 0 .. n, S # {}
    PROVE  \E x \in S : \A y \in S : x >= y
  <1> DEFINE T == {n - x : x \in S}
  <1>1. T \subseteq Nat /\ T # {}
    <2>1. \A x \in S : x \in 0 .. n /\ n - x \in Nat
      OBVIOUS
    <2>2. PICK x \in S : TRUE
      OBVIOUS
    <2>3. n - x \in T
      BY <2>2
    <2> QED
      BY <2>1, <2>3
  <1>2. PICK m \in T : \A y \in T : m <= y
    BY <1>1, SmallestNat
  <1>3. PICK x \in S : m = n - x
    OBVIOUS
  <1>4. ASSUME NEW y \in S PROVE x >= y
    <2>1. n - x <= n - y /\ x \in 0 .. n /\ y \in 0 .. n
      BY <1>2, <1>3
    <2> QED
      BY <2>1
  <1> QED
    BY <1>4

LEMMA MinIsLeast ==
    ASSUME NEW S, S \subseteq Nat, S # {}
    PROVE  Min(S) \in S /\ \A y \in S : Min(S) <= y
  BY SmallestNat DEF Min

LEMMA MaxIsLargest ==
    ASSUME NEW S, NEW n \in Nat, S \subseteq 0 .. n, S # {}
    PROVE  Max(S) \in S /\ \A y \in S : Max(S) >= y
  BY LargestNat DEF Max

(***************************************************************************)
(* Sums over finite sets                                                   *)
(***************************************************************************)
\* The order in which MapThenSumSet visits a set, and what it computes on the way.
Pick(s) == CHOOSE x \in s : TRUE

Iterates(it, f, D) ==
    \A s \in D : it[s] = IF s = {} THEN 0 ELSE f[Pick(s)] + it[s \ {Pick(s)}]

\* The member MapThenSumSet takes next is one of the set's.
LEMMA PickIs ==
    ASSUME NEW s, s # {}
    PROVE  Pick(s) \in s
  BY DEF Pick

\* Taking a member out of a finite set makes it smaller by one.
LEMMA SmallerSet ==
    ASSUME NEW s, IsFiniteSet(s), NEW x \in s
    PROVE  /\ IsFiniteSet(s \ {x}) /\ Cardinality(s \ {x}) = Cardinality(s) - 1
           /\ Cardinality(s) \in Nat /\ Cardinality(s) > 0 /\ Cardinality(s \ {x}) \in Nat
  <1>1. IsFiniteSet(s \ {x}) /\ Cardinality(s \ {x}) = Cardinality(s) - 1
    BY FS_RemoveElement
  <1>2. Cardinality(s) \in Nat /\ Cardinality(s \ {x}) \in Nat
    BY <1>1, FS_CardinalityType
  <1> QED
    BY <1>1, <1>2

\* The subsets of S of at most n members.
Upto(S, n) == {s \in SUBSET S : Cardinality(s) <= n}

\* Taking a member out stays among the small subsets.
LEMMA UptoDown ==
    ASSUME NEW S, IsFiniteSet(S), NEW n \in Nat, NEW s \in Upto(S, n), s # {}
    PROVE  s \ {Pick(s)} \in Upto(S, n) /\ (n > 0 => s \ {Pick(s)} \in Upto(S, n - 1)) /\ n > 0
  <1>1. s \in SUBSET S /\ Cardinality(s) <= n
    BY DEF Upto
  <1>2. IsFiniteSet(s)
    BY <1>1, FS_Subset
  <1>3. PICK x : x = Pick(s) /\ x \in s
    BY PickIs
  <1>4. PICK t : t = s \ {x} /\ t \in SUBSET S
    BY <1>1
  <1>5. PICK c, d : c = Cardinality(s) /\ d = Cardinality(t)
    OBVIOUS
  <1>6. c \in Nat /\ d \in Nat /\ d = c - 1 /\ c <= n
    BY <1>1, <1>2, <1>3, <1>4, <1>5, SmallerSet
  <1>7. d <= n /\ n > 0 /\ d <= n - 1
    BY <1>6
  <1> QED
    BY <1>3, <1>4, <1>5, <1>7 DEF Upto

\* The sums of the subsets up to a size can be computed one size after another.
LEMMA IterUpto ==
    ASSUME NEW S, IsFiniteSet(S), NEW f, NEW n \in Nat
    PROVE  \E it : Iterates(it, f, Upto(S, n))
  <1> DEFINE Bad == {m \in Nat : ~ \E it : Iterates(it, f, Upto(S, m))}
  <1> SUFFICES ASSUME Bad # {} PROVE FALSE
    OBVIOUS
  <1>1. PICK m \in Bad : \A k \in Bad : m <= k
    BY SmallestNat
  <1>2. m \in Nat /\ ~ \E it : Iterates(it, f, Upto(S, m))
    BY <1>1
  <1>3. \A k \in Nat : k < m => \E it : Iterates(it, f, Upto(S, k))
    BY <1>1
  <1> HIDE DEF Bad
  <1>4. CASE m = 0
    <2>1. ASSUME NEW s \in Upto(S, m), s # {} PROVE FALSE
      <3>1. m > 0
        BY <1>2, <2>1, UptoDown
      <3> QED
        BY <1>4, <3>1
    <2>2. PICK it : it = [s \in Upto(S, m) |-> 0]
      OBVIOUS
    <2>3. Iterates(it, f, Upto(S, m))
      BY <2>1, <2>2 DEF Iterates
    <2> QED
      BY <1>2, <2>3
  <1>5. CASE m # 0
    <2>1. m - 1 \in Nat /\ m - 1 < m /\ m > 0
      BY <1>2, <1>5
    <2>2. PICK g : Iterates(g, f, Upto(S, m - 1))
      BY <1>3, <2>1
    <2>3. PICK it : it = [s \in Upto(S, m) |-> IF s = {} THEN 0 ELSE f[Pick(s)] + g[s \ {Pick(s)}]]
      OBVIOUS
    <2>4. \A s \in Upto(S, m - 1) : s \in Upto(S, m)
      <3>1. \A s \in SUBSET S : Cardinality(s) \in Nat
        BY FS_Subset, FS_CardinalityType
      <3>2. \A c \in Nat : c <= m - 1 => c <= m
        BY <1>2, <2>1
      <3> QED
        BY <3>1, <3>2 DEF Upto
    <2>5. \A s \in Upto(S, m - 1) : it[s] = g[s]
      BY <2>2, <2>3, <2>4 DEF Iterates
    <2>6. \A s \in Upto(S, m) : s # {} => s \ {Pick(s)} \in Upto(S, m - 1)
      BY <1>2, <2>1, UptoDown
    <2>7. Iterates(it, f, Upto(S, m))
      BY <2>3, <2>5, <2>6 DEF Iterates
    <2> QED
      BY <1>2, <2>7
  <1> QED
    BY <1>4, <1>5

\* The recursive function of MapThenSumSet exists.
LEMMA IterExists ==
    ASSUME NEW S, IsFiniteSet(S), NEW f
    PROVE  \E it : it = [s \in SUBSET S |-> it[s]] /\ Iterates(it, f, SUBSET S)
  <1>1. PICK n \in Nat : n = Cardinality(S)
    BY FS_CardinalityType
  <1>2. \A s \in SUBSET S : s \in Upto(S, n)
    BY <1>1, FS_Subset DEF Upto
  <1>3. PICK g : Iterates(g, f, Upto(S, n))
    BY IterUpto
  <1>4. PICK it : it = [s \in SUBSET S |-> g[s]]
    OBVIOUS
  <1>5. \A s \in SUBSET S : s # {} => s \ {Pick(s)} \in SUBSET S
    OBVIOUS
  <1>6. \A s \in SUBSET S : it[s] = g[s]
    BY <1>4
  <1>7. Iterates(it, f, SUBSET S)
    BY <1>2, <1>3, <1>5, <1>6 DEF Iterates
  <1>8. it = [s \in SUBSET S |-> it[s]]
    BY <1>4
  <1> QED
    BY <1>7, <1>8

\* The sum of a set depends on nothing but the values at its members.
LEMMA IterSame ==
    ASSUME NEW S, NEW R, NEW f, NEW g, NEW i, NEW j, Iterates(i, f, SUBSET S), Iterates(j, g, SUBSET R),
           NEW T, IsFiniteSet(T), T \subseteq S, T \subseteq R, \A x \in T : f[x] = g[x]
    PROVE  i[T] = j[T]
  <1> DEFINE Bad == {n \in Nat : \E s \in SUBSET T : Cardinality(s) = n /\ i[s] # j[s]}
  <1>1. SUFFICES ASSUME i[T] # j[T] PROVE FALSE
    OBVIOUS
  <1>2. Bad # {}
    BY <1>1, FS_CardinalityType
  <1>3. PICK m \in Bad : \A k \in Bad : m <= k
    BY <1>2, SmallestNat
  <1>4. PICK s \in SUBSET T : Cardinality(s) = m /\ i[s] # j[s]
    BY <1>3
  <1>5. IsFiniteSet(s) /\ s \in SUBSET S /\ s \in SUBSET R
    BY <1>4, FS_Subset
  <1>6. s # {}
    BY <1>4, <1>5 DEF Iterates
  <1>7. PICK x : x = Pick(s) /\ x \in s /\ x \in T
    BY <1>6, PickIs
  <1>8. PICK t : t = s \ {x} /\ t \in SUBSET T /\ t \in SUBSET S /\ t \in SUBSET R
    BY <1>5
  <1>9. Cardinality(t) \in Nat /\ Cardinality(t) = m - 1 /\ m \in Nat
    BY <1>3, <1>4, <1>5, <1>7, <1>8, SmallerSet
  <1>10. i[t] = j[t]
    <2>1. i[t] # j[t] => Cardinality(t) \in Bad
      BY <1>8, <1>9
    <2>2. Cardinality(t) \notin Bad
      <3> HIDE DEF Bad
      <3> QED
        BY <1>3, <1>9
    <2> QED
      BY <2>1, <2>2
  <1>11. i[s] = f[x] + i[t] /\ j[s] = g[x] + j[t]
    BY <1>5, <1>6, <1>7, <1>8 DEF Iterates
  <1> QED
    BY <1>4, <1>7, <1>10, <1>11

\* A sum of natural numbers is one.
LEMMA IterNat ==
    ASSUME NEW S, IsFiniteSet(S), NEW f, \A x \in S : f[x] \in Nat, NEW i, Iterates(i, f, SUBSET S),
           NEW T \in SUBSET S
    PROVE  i[T] \in Nat
  <1> DEFINE Bad == {n \in Nat : \E s \in SUBSET S : Cardinality(s) = n /\ i[s] \notin Nat}
  <1>1. SUFFICES ASSUME i[T] \notin Nat PROVE FALSE
    OBVIOUS
  <1>2. Bad # {}
    BY <1>1, FS_Subset, FS_CardinalityType
  <1>3. PICK m \in Bad : \A k \in Bad : m <= k
    BY <1>2, SmallestNat
  <1>4. PICK s \in SUBSET S : Cardinality(s) = m /\ i[s] \notin Nat
    BY <1>3
  <1>5. IsFiniteSet(s)
    BY <1>4, FS_Subset
  <1>6. s # {}
    <2>1. s = {} => i[s] = 0
      BY DEF Iterates
    <2> QED
      BY <1>4, <2>1
  <1>7. PICK x : x = Pick(s) /\ x \in s /\ x \in S
    BY <1>6, PickIs
  <1>8. PICK t : t = s \ {x} /\ t \in SUBSET S
    OBVIOUS
  <1>9. Cardinality(t) \in Nat /\ Cardinality(t) = m - 1 /\ m \in Nat
    BY <1>3, <1>4, <1>5, <1>7, <1>8, SmallerSet
  <1>10. i[t] \in Nat
    <2>1. i[t] \notin Nat => Cardinality(t) \in Bad
      BY <1>8, <1>9
    <2>2. Cardinality(t) \notin Bad
      <3> HIDE DEF Bad
      <3> QED
        BY <1>3, <1>9
    <2> QED
      BY <2>1, <2>2
  <1>11. i[s] = f[x] + i[t]
    BY <1>6, <1>7, <1>8 DEF Iterates
  <1>12. f[x] + i[t] \in Nat
    BY <1>7, <1>10
  <1> QED
    BY <1>4, <1>11, <1>12

\* Any member may be taken out first.
LEMMA IterAny ==
    ASSUME NEW S, IsFiniteSet(S), NEW f, \A x \in S : f[x] \in Nat, NEW i, Iterates(i, f, SUBSET S),
           NEW T \in SUBSET S, NEW y \in T
    PROVE  i[T] = f[y] + i[T \ {y}]
  <1> DEFINE Bad == {n \in Nat : \E s \in SUBSET S : \E z \in s :
                        Cardinality(s) = n /\ i[s] # f[z] + i[s \ {z}]}
  <1>1. SUFFICES ASSUME i[T] # f[y] + i[T \ {y}] PROVE FALSE
    OBVIOUS
  <1>2. Bad # {}
    BY <1>1, FS_Subset, FS_CardinalityType
  <1>3. PICK m \in Bad : \A k \in Bad : m <= k
    BY <1>2, SmallestNat
  <1>4. PICK s \in SUBSET S : \E z \in s : Cardinality(s) = m /\ i[s] # f[z] + i[s \ {z}]
    BY <1>3
  <1>5. PICK z \in s : Cardinality(s) = m /\ i[s] # f[z] + i[s \ {z}]
    BY <1>4
  <1>6. IsFiniteSet(s)
    BY <1>4, FS_Subset
  <1>7. PICK x : x = Pick(s) /\ x \in s /\ x \in S
    BY PickIs
  <1>8. PICK t, u, v : t = s \ {x} /\ u = s \ {z} /\ v = t \ {z}
    OBVIOUS
  <1>9. t \in SUBSET S /\ u \in SUBSET S /\ v \in SUBSET S /\ z \in S
    BY <1>8
  <1>10. i[s] = f[x] + i[t]
    BY <1>7, <1>8 DEF Iterates
  <1>11. x # z
    BY <1>5, <1>8, <1>10
  <1>12. z \in t /\ x \in u /\ v = u \ {x}
    BY <1>7, <1>8, <1>11
  <1>13. ASSUME NEW r \in SUBSET S, Cardinality(r) \in Nat, Cardinality(r) < m, NEW q \in r
         PROVE  i[r] = f[q] + i[r \ {q}]
    <2>1. i[r] # f[q] + i[r \ {q}] => Cardinality(r) \in Bad
      BY <1>13
    <2>2. Cardinality(r) \notin Bad
      <3>1. m \in Nat
        BY <1>3
      <3> HIDE DEF Bad
      <3> QED
        BY <1>3, <1>13, <3>1
    <2> QED
      BY <2>1, <2>2
  <1>14. /\ Cardinality(t) \in Nat /\ Cardinality(t) < m
         /\ Cardinality(u) \in Nat /\ Cardinality(u) < m
    <2>1. /\ Cardinality(t) = m - 1 /\ Cardinality(u) = m - 1 /\ m \in Nat
          /\ Cardinality(t) \in Nat /\ Cardinality(u) \in Nat
      BY <1>5, <1>6, <1>7, <1>8, SmallerSet
    <2>2. m - 1 < m
      BY <2>1
    <2> QED
      BY <2>1, <2>2
  <1>15. i[t] = f[z] + i[v] /\ i[u] = f[x] + i[v]
    <2>1. i[t] = f[z] + i[t \ {z}]
      BY <1>9, <1>12, <1>13, <1>14
    <2>2. i[u] = f[x] + i[u \ {x}]
      BY <1>9, <1>12, <1>13, <1>14
    <2> QED
      BY <1>8, <1>12, <2>1, <2>2
  <1>16. i[v] \in Nat /\ f[x] \in Nat /\ f[z] \in Nat
    BY <1>7, <1>9, IterNat
  <1>17. PICK a \in Nat, b \in Nat, c \in Nat : a = f[x] /\ b = f[z] /\ c = i[v]
    BY <1>16
  <1>18. i[s] = a + (b + c) /\ i[u] = a + c
    BY <1>10, <1>15, <1>17
  <1> QED
    BY <1>5, <1>8, <1>17, <1>18

\* The sum of f over S.
Total(f, S) == CHOOSE n : \E it : Iterates(it, f, SUBSET S) /\ n = it[S]

\* Total is what any such iteration computes.
LEMMA TotalIs ==
    ASSUME NEW S, IsFiniteSet(S), NEW f, NEW it, Iterates(it, f, SUBSET S)
    PROVE  Total(f, S) = it[S]
  <1>1. \E n : \E i : Iterates(i, f, SUBSET S) /\ n = i[S]
    OBVIOUS
  <1>2. \E i : Iterates(i, f, SUBSET S) /\ Total(f, S) = i[S]
    BY <1>1, Zenon DEF Total
  <1>3. PICK i : Iterates(i, f, SUBSET S) /\ Total(f, S) = i[S]
    BY <1>2
  <1>4. i[S] = it[S]
    BY <1>3, IterSame
  <1> QED
    BY <1>3, <1>4

\* Total depends on the values at the members alone.
LEMMA TotalSame ==
    ASSUME NEW S, IsFiniteSet(S), NEW f, NEW g, \A x \in S : f[x] = g[x]
    PROVE  Total(f, S) = Total(g, S)
  <1>1. PICK i : Iterates(i, f, SUBSET S)
    BY IterExists
  <1>2. PICK j : Iterates(j, g, SUBSET S)
    BY IterExists
  <1>3. i[S] = j[S]
    BY <1>1, <1>2, IterSame
  <1> QED
    BY <1>1, <1>2, <1>3, TotalIs

\* A total of natural numbers is one.
LEMMA TotalNat ==
    ASSUME NEW S, IsFiniteSet(S), NEW f, \A x \in S : f[x] \in Nat
    PROVE  Total(f, S) \in Nat
  <1>1. PICK i : Iterates(i, f, SUBSET S)
    BY IterExists
  <1>2. i[S] \in Nat
    BY <1>1, IterNat
  <1> QED
    BY <1>1, <1>2, TotalIs

\* Any member can be taken out of a total.
LEMMA TotalOut ==
    ASSUME NEW S, IsFiniteSet(S), NEW f, \A x \in S : f[x] \in Nat, NEW y \in S
    PROVE  Total(f, S) = f[y] + Total(f, S \ {y})
  <1>1. PICK i : Iterates(i, f, SUBSET S)
    BY IterExists
  <1>2. PICK T : T = S \ {y} /\ T \subseteq S
    OBVIOUS
  <1>3. IsFiniteSet(T)
    BY <1>2, FS_Subset
  <1>4. PICK j : Iterates(j, f, SUBSET T)
    BY <1>3, IterExists
  <1>5. i[T] = j[T]
    <2>1. ASSUME NEW g, NEW R, g = f, R = T PROVE i[T] = j[T]
      <3>1. Iterates(j, g, SUBSET R) /\ T \subseteq R /\ \A x \in T : f[x] = g[x]
        BY <1>4, <2>1
      <3>2. T \subseteq S /\ IsFiniteSet(T) /\ Iterates(i, f, SUBSET S)
        BY <1>1, <1>2, <1>3
      <3> QED
        BY <3>1, <3>2, IterSame
    <2> QED
      BY <2>1
  <1>6. Total(f, S) = i[S] /\ Total(f, T) = j[T]
    BY <1>1, <1>3, <1>4, TotalIs
  <1>7. i[S] = f[y] + i[T]
    BY <1>1, <1>2, IterAny
  <1> QED
    BY <1>2, <1>5, <1>6, <1>7

\* Nothing adds up to 0.
LEMMA TotalEmpty ==
    ASSUME NEW f
    PROVE  Total(f, {}) = 0
  <1>1. PICK i : Iterates(i, f, SUBSET {})
    BY FS_EmptySet, IterExists
  <1>2. i[{}] = 0
    BY <1>1 DEF Iterates
  <1> QED
    BY <1>1, <1>2, FS_EmptySet, TotalIs

\* Zeros add up to 0.
LEMMA TotalZero ==
    ASSUME NEW S, IsFiniteSet(S), NEW f, \A x \in S : f[x] = 0
    PROVE  Total(f, S) = 0
  <1>1. PICK i : i = [s \in SUBSET S |-> 0]
    OBVIOUS
  <1>2. ASSUME NEW s \in SUBSET S PROVE i[s] = IF s = {} THEN 0 ELSE f[Pick(s)] + i[s \ {Pick(s)}]
    <2>1. s # {} => f[Pick(s)] = 0
      BY PickIs
    <2> QED
      BY <1>1, <2>1
  <1>3. Iterates(i, f, SUBSET S) /\ i[S] = 0
    BY <1>1, <1>2 DEF Iterates
  <1> QED
    BY <1>3, TotalIs

\* One value changes, or a member joins with a value.
LEMMA TotalChange ==
    ASSUME NEW S, IsFiniteSet(S), NEW f, NEW g, \A x \in S : f[x] \in Nat, NEW y \in S,
           NEW m \in Nat, g[y] = f[y] + m, \A x \in S : x # y => g[x] = f[x]
    PROVE  Total(g, S) = Total(f, S) + m
  <1>1. PICK T : T = S \ {y} /\ IsFiniteSet(T) /\ T \subseteq S
    BY FS_Subset
  <1>2. PICK n \in Nat : n = Total(f, T)
    BY <1>1, TotalNat
  <1>3. Total(g, T) = n
    BY <1>1, <1>2, TotalSame
  <1>4. f[y] \in Nat /\ \A x \in S : g[x] \in Nat
    OBVIOUS
  <1>5. Total(f, S) = f[y] + n /\ Total(g, S) = (f[y] + m) + n
    BY <1>1, <1>2, <1>3, <1>4, TotalOut
  <1> QED
    BY <1>4, <1>5

\* A member joins with its value.
LEMMA TotalJoin ==
    ASSUME NEW S, IsFiniteSet(S), NEW f, NEW g, NEW y, y \notin S, g[y] \in Nat,
           \A x \in S : f[x] \in Nat /\ g[x] = f[x]
    PROVE  Total(g, S \cup {y}) = g[y] + Total(f, S)
  <1>1. PICK T : T = S \cup {y}
    OBVIOUS
  <1>2. IsFiniteSet(T) /\ y \in T /\ T \ {y} = S
    BY <1>1, FS_AddElement
  <1>3. Total(g, T) = g[y] + Total(g, S)
    BY <1>1, <1>2, TotalOut
  <1>4. Total(g, S) = Total(f, S)
    BY TotalSame
  <1> QED
    BY <1>1, <1>3, <1>4

\* MapThenSumSet of the values of a function.
ValueSum(f, S) == CHOOSE it : it = [s \in SUBSET S |->
    IF s = {} THEN 0 ELSE f[CHOOSE x \in s : TRUE] + it[s \ {CHOOSE x \in s : TRUE}]]

\* It is the total of the values.
LEMMA SumIs ==
    ASSUME NEW S, IsFiniteSet(S), NEW f
    PROVE  MapThenSumSet(LAMBDA x : f[x], S) = Total(f, S)
  <1>0. MapThenSumSet(LAMBDA x : f[x], S) = ValueSum(f, S)[S]
    BY Zenon DEF MapThenSumSet, MapThenFoldSet, ValueSum
  <1>1. PICK it : it = [s \in SUBSET S |-> it[s]] /\ Iterates(it, f, SUBSET S)
    BY IterExists
  <1>2. it = [s \in SUBSET S |->
                IF s = {} THEN 0 ELSE f[CHOOSE x \in s : TRUE] + it[s \ {CHOOSE x \in s : TRUE}]]
    <2>1. ASSUME NEW s \in SUBSET S
          PROVE  it[s] = IF s = {} THEN 0
                         ELSE f[CHOOSE x \in s : TRUE] + it[s \ {CHOOSE x \in s : TRUE}]
      BY <1>1 DEF Iterates, Pick
    <2> QED
      BY <1>1, <2>1
  <1>3. ValueSum(f, S) = [s \in SUBSET S |-> IF s = {} THEN 0
            ELSE f[CHOOSE x \in s : TRUE] + ValueSum(f, S)[s \ {CHOOSE x \in s : TRUE}]]
    BY <1>2, Zenon DEF ValueSum
  <1>4. PICK j : j = ValueSum(f, S)
    OBVIOUS
  <1>5. Iterates(j, f, SUBSET S)
    BY <1>3, <1>4 DEF Iterates, Pick
  <1> QED
    BY <1>0, <1>4, <1>5, TotalIs
===========================================================================
