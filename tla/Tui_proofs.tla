----------------------------- MODULE Tui_proofs -----------------------------
(* What holds of the screens for terminals, lists, runs and organizations  *)
(* of every size: the geometry of the run screen, that what it adds up is  *)
(* what the run is, that the Org tab never takes for read what its user    *)
(* has not seen, and that its tree has every agent once.                   *)
EXTENDS Tui, FiniteSetTheorems, SequenceTheorems, WellFoundedInduction, NaturalsInduction, TLAPS
-----------------------------------------------------------------------------
(* Facts about numbers, sets, sums and sequences.                          *)

(* A set of naturals with a member has a least one.                        *)
LEMMA LeastNumber ==
    ASSUME NEW S \in SUBSET Nat, S # {}
    PROVE  \E m \in S : \A n \in S : m <= n
<1> DEFINE R == OpToRel(<, Nat)
<1>1. IsWellFoundedOn(R, Nat)
  BY NatLessThanWellFounded
<1>2. \A x, y \in Nat : <<y, x>> \in R <=> y < x
  BY DEF OpToRel
<1> HIDE DEF R
<1>3. PICK m \in S : \A n \in S : <<n, m>> \notin R
  BY <1>1, WFMin
<1>4. ASSUME NEW n \in S PROVE m <= n
  <2>1. m \in Nat /\ n \in Nat /\ ~(n < m)
    BY <1>2, <1>3
  <2> QED
    BY <2>1
<1> QED
  BY <1>4

Pick(s) == CHOOSE x \in s : TRUE

(* g adds up f over every part of S, one member after the other.           *)
AddsUp(f, S, g) ==
    /\ g \in [SUBSET S -> Nat]
    /\ \A s \in SUBSET S : g[s] = IF s = {} THEN 0 ELSE f[Pick(s)] + g[s \ {Pick(s)}]

(* There is such a function, and it gives SumFunction's value.             *)
LEMMA SumIsThere ==
    ASSUME NEW S, IsFiniteSet(S), NEW f \in [S -> Nat]
    PROVE  \E g : AddsUp(f, S, g) /\ SumFunction(f) = g[S]
<1> DEFINE Small(n) == {s \in SUBSET S : Cardinality(s) <= n}
           Sums(g, n) == /\ g \in [Small(n) -> Nat]
                         /\ \A s \in Small(n) :
                              g[s] = IF s = {} THEN 0 ELSE f[Pick(s)] + g[s \ {Pick(s)}]
           Bad == {n \in Nat : ~\E g : Sums(g, n)}
<1>1. ASSUME NEW s \in SUBSET S
      PROVE  /\ IsFiniteSet(s) /\ Cardinality(s) \in Nat /\ Cardinality(s) <= Cardinality(S)
             /\ s # {} => /\ Pick(s) \in s /\ s \ {Pick(s)} \in SUBSET S
                          /\ Cardinality(s \ {Pick(s)}) = Cardinality(s) - 1
  <2>1. IsFiniteSet(s) /\ Cardinality(s) <= Cardinality(S)
    BY <1>1, FS_Subset
  <2>2. Cardinality(s) \in Nat
    BY <2>1, FS_CardinalityType
  <2>3. s # {} => Pick(s) \in s
    BY DEF Pick
  <2>4. s # {} => Cardinality(s \ {Pick(s)}) = Cardinality(s) - 1
    BY <2>1, <2>3, FS_RemoveElement
  <2> QED
    BY <1>1, <2>1, <2>2, <2>3, <2>4
<1>2. ASSUME NEW n \in Nat, n = 0 \/ \E g : Sums(g, n - 1)
      PROVE  \E g : Sums(g, n)
  <2>1. PICK g : n > 0 => Sums(g, n - 1)
    <3> HIDE DEF Sums
    <3> QED
      BY <1>2
  <2> DEFINE value(s) == IF s = {} THEN 0 ELSE f[Pick(s)] + g[s \ {Pick(s)}]
             h == [s \in Small(n) |-> value(s)]
  <2>2. ASSUME NEW s \in Small(n), s # {}
        PROVE  n > 0 /\ s \ {Pick(s)} \in Small(n - 1) /\ f[Pick(s)] \in Nat
    BY <1>1, <2>2, FS_EmptySet
  <2>3. ASSUME NEW s \in Small(n) PROVE value(s) \in Nat
    <3>1. CASE s = {}
      BY <3>1
    <3>2. CASE s # {}
      BY <2>1, <2>2, <3>2
    <3> QED
      BY <3>1, <3>2
  <2>4. ASSUME NEW s \in Small(n), n > 0, s \in Small(n - 1) PROVE h[s] = g[s]
    BY <2>1, <2>4
  <2>5. ASSUME NEW s \in Small(n)
        PROVE  h[s] = IF s = {} THEN 0 ELSE f[Pick(s)] + h[s \ {Pick(s)}]
    <3>1. CASE s = {}
      BY <3>1
    <3>2. CASE s # {}
      <4>1. n > 0 /\ s \ {Pick(s)} \in Small(n - 1)
        BY <2>2, <3>2
      <4>2. s \ {Pick(s)} \in Small(n)
        BY <1>1, <4>1
      <4>3. h[s \ {Pick(s)}] = g[s \ {Pick(s)}]
        BY <2>4, <4>1, <4>2
      <4> HIDE DEF Small
      <4> QED
        BY <3>2, <4>3
    <3> QED
      BY <3>1, <3>2
  <2>6. h \in [Small(n) -> Nat]
    <3> HIDE DEF Small, value
    <3> QED
      BY <2>3
  <2> HIDE DEF h, Small
  <2> QED
    BY <2>5, <2>6
<1>3. Bad = {}
  <2> SUFFICES ASSUME Bad # {} PROVE FALSE
    OBVIOUS
  <2> HIDE DEF Sums
  <2>1. PICK m \in Bad : \A n \in Bad : m <= n
    BY LeastNumber
  <2>2. m \in Nat /\ ~\E g : Sums(g, m)
    BY <2>1
  <2>3. m > 0 => m - 1 \in Nat /\ m - 1 \notin Bad
    BY <2>1
  <2>4. m = 0 \/ \E g : Sums(g, m - 1)
    BY <2>2, <2>3
  <2> QED
    BY <1>2, <2>2, <2>4
<1>4. \E g : AddsUp(f, S, g)
  <2>1. Cardinality(S) \in Nat /\ Small(Cardinality(S)) = SUBSET S
    BY <1>1, FS_CardinalityType
  <2>2. PICK g : Sums(g, Cardinality(S))
    BY <1>3, <2>1
  <2> QED
    BY <2>1, <2>2 DEF AddsUp
<1>5. PICK g : g = [s \in SUBSET S |-> IF s = {} THEN 0 ELSE f[Pick(s)] + g[s \ {Pick(s)}]]
  BY <1>4 DEF AddsUp
<1> DEFINE it == CHOOSE h : h = [s \in SUBSET S |-> IF s = {} THEN 0 ELSE f[Pick(s)] + h[s \ {Pick(s)}]]
<1>6. it = [s \in SUBSET S |-> IF s = {} THEN 0 ELSE f[Pick(s)] + it[s \ {Pick(s)}]]
  BY <1>5
<1>7. SumFunction(f) = it[S]
  BY DEF SumFunction, SumFunctionOnSet, FoldFunctionOnSet, MapThenFoldSet, Pick
<1> HIDE DEF it
<1>8. \A s \in SUBSET S : it[s] = IF s = {} THEN 0 ELSE f[Pick(s)] + it[s \ {Pick(s)}]
  BY <1>6
<1>9. \A s \in SUBSET S : it[s] \in Nat
  <2> DEFINE Off == {n \in Nat : \E s \in SUBSET S : Cardinality(s) = n /\ it[s] \notin Nat}
  <2>1. CASE Off # {}
    <3>1. PICK m \in Off : \A n \in Off : m <= n
      BY <2>1, LeastNumber
    <3>2. PICK s \in SUBSET S : Cardinality(s) = m /\ it[s] \notin Nat
      BY <3>1
    <3>3. s # {}
      <4>1. ASSUME s = {} PROVE it[s] = 0
        BY <1>8, <4>1
      <4> QED
        BY <3>2, <4>1
    <3>4. s \ {Pick(s)} \in SUBSET S /\ Cardinality(s \ {Pick(s)}) = m - 1 /\ m - 1 \in Nat
      <4>1. s \ {Pick(s)} \in SUBSET S /\ Cardinality(s \ {Pick(s)}) = m - 1
        BY <1>1, <3>2, <3>3
      <4>2. Cardinality(s \ {Pick(s)}) \in Nat
        BY <1>1, <4>1
      <4> QED
        BY <4>1, <4>2
    <3>5. it[s \ {Pick(s)}] \in Nat
      BY <3>1, <3>4
    <3>6. f[Pick(s)] \in Nat
      BY <1>1, <3>3
    <3> QED
      BY <1>8, <3>2, <3>3, <3>5, <3>6
  <2>2. CASE Off = {}
    BY <1>1, <2>2
  <2> QED
    BY <2>1, <2>2
<1>10. AddsUp(f, S, it)
  <2>1. it \in [SUBSET S -> Nat]
    BY <1>6, <1>9
  <2> QED
    BY <1>8, <2>1 DEF AddsUp
<1> QED
  BY <1>7, <1>10

(* The parts of a finite set have sizes, which a member less makes less.   *)
LEMMA PartsAreSmall ==
    ASSUME NEW S, IsFiniteSet(S), NEW s \in SUBSET S
    PROVE  /\ IsFiniteSet(s) /\ Cardinality(s) \in Nat /\ Cardinality(s) <= Cardinality(S)
           /\ \A y \in s : s \ {y} \in SUBSET S /\ Cardinality(s \ {y}) = Cardinality(s) - 1
<1>1. IsFiniteSet(s) /\ Cardinality(s) <= Cardinality(S)
  BY FS_Subset
<1>2. Cardinality(s) \in Nat
  BY <1>1, FS_CardinalityType
<1>3. ASSUME NEW y \in s PROVE Cardinality(s \ {y}) = Cardinality(s) - 1
  BY <1>1, FS_RemoveElement
<1> QED
  BY <1>1, <1>2, <1>3

(* It does not matter which member is added last.                          *)
LEMMA AnyLast ==
    ASSUME NEW S, IsFiniteSet(S), NEW f \in [S -> Nat], NEW g, AddsUp(f, S, g),
           NEW s \in SUBSET S, NEW y \in s
    PROVE  g[s] = f[y] + g[s \ {y}]
<1> DEFINE Wrong(t) == \E z \in t : g[t] # f[z] + g[t \ {z}]
           Off == {n \in Nat : \E t \in SUBSET S : Cardinality(t) = n /\ Wrong(t)}
<1>1. Off = {}
  <2> SUFFICES ASSUME Off # {} PROVE FALSE
    OBVIOUS
  <2>1. PICK m \in Off : \A n \in Off : m <= n
    BY LeastNumber
  <2>a. PICK t \in SUBSET S : Cardinality(t) = m /\ Wrong(t)
    BY <2>1
  <2>2. PICK z \in t : Cardinality(t) = m /\ g[t] # f[z] + g[t \ {z}]
    BY <2>a
  <2> DEFINE x == Pick(t)
  <2>3. x \in t /\ g[t] = f[x] + g[t \ {x}]
    <3>1. x \in t
      BY <2>2 DEF Pick
    <3> QED
      BY <3>1, <2>2 DEF AddsUp
  <2> HIDE DEF x
  <2>4. /\ t \ {x} \in SUBSET S /\ t \ {z} \in SUBSET S
        /\ Cardinality(t \ {x}) = m - 1 /\ Cardinality(t \ {z}) = m - 1
        /\ Cardinality(t \ {x}) \in Nat
    <3>1. /\ t \ {x} \in SUBSET S /\ Cardinality(t \ {x}) = m - 1
          /\ t \ {z} \in SUBSET S /\ Cardinality(t \ {z}) = m - 1
      BY <2>2, <2>3, PartsAreSmall
    <3>2. Cardinality(t \ {x}) \in Nat
      BY <3>1, PartsAreSmall
    <3> QED
      BY <3>1, <3>2
  <2>5. m - 1 \notin Off
    BY <2>1
  <2>6. ~Wrong(t \ {x}) /\ ~Wrong(t \ {z})
    BY <2>4, <2>5
  <2>7. x # z
    BY <2>2, <2>3
  <2>8. /\ g[t \ {x}] = f[z] + g[(t \ {x}) \ {z}]
        /\ g[t \ {z}] = f[x] + g[(t \ {z}) \ {x}]
    BY <2>2, <2>3, <2>6, <2>7
  <2>9. PICK r : r = (t \ {x}) \ {z} /\ r = (t \ {z}) \ {x} /\ r \in SUBSET S
    <3>1. (t \ {x}) \ {z} = (t \ {z}) \ {x}
      OBVIOUS
    <3>2. (t \ {x}) \ {z} \in SUBSET S
      BY <2>2
    <3> QED
      BY <3>1, <3>2
  <2>10. f[x] \in Nat /\ f[z] \in Nat /\ g[r] \in Nat
    BY <2>2, <2>3, <2>9 DEF AddsUp
  <2>11. g[t \ {x}] = f[z] + g[r] /\ g[t \ {z}] = f[x] + g[r]
    BY <2>8, <2>9
  <2>12. g[t] = f[x] + (f[z] + g[r]) /\ g[t] # f[z] + (f[x] + g[r])
    BY <2>2, <2>3, <2>11
  <2> QED
    BY <2>10, <2>12
<1>2. Cardinality(s) \in Nat
  BY PartsAreSmall
<1> QED
  BY <1>1, <1>2

(* A sum depends on the values it adds and on nothing else.                *)
LEMMA SameSums ==
    ASSUME NEW S, IsFiniteSet(S), NEW f \in [S -> Nat], NEW g, AddsUp(f, S, g),
           NEW T \in SUBSET S, NEW e \in [T -> Nat], NEW h, AddsUp(e, T, h),
           \A x \in T : e[x] = f[x]
    PROVE  h[T] = g[T]
<1> DEFINE Off == {n \in Nat : \E t \in SUBSET T : Cardinality(t) = n /\ h[t] # g[t]}
<1>1. Off = {}
  <2> SUFFICES ASSUME Off # {} PROVE FALSE
    OBVIOUS
  <2>1. PICK m \in Off : \A n \in Off : m <= n
    BY LeastNumber
  <2>2. PICK t \in SUBSET T : Cardinality(t) = m /\ h[t] # g[t]
    BY <2>1
  <2>3. t \in SUBSET S
    BY <2>2
  <2>4. t # {}
    <3>1. ASSUME t = {} PROVE h[t] = 0 /\ g[t] = 0
      BY <2>2, <2>3, <3>1 DEF AddsUp
    <3> QED
      BY <2>2, <3>1
  <2> DEFINE x == Pick(t)
  <2>5. x \in t
    BY <2>4 DEF Pick
  <2>6. h[t] = e[x] + h[t \ {x}] /\ g[t] = f[x] + g[t \ {x}]
    BY <2>2, <2>3, <2>4 DEF AddsUp
  <2> HIDE DEF x
  <2>7. t \ {x} \in SUBSET T /\ Cardinality(t \ {x}) = m - 1 /\ Cardinality(t \ {x}) \in Nat
    <3>1. t \ {x} \in SUBSET S /\ Cardinality(t \ {x}) = m - 1
      BY <2>2, <2>3, <2>5, PartsAreSmall
    <3> QED
      BY <2>2, <3>1, PartsAreSmall
  <2>8. h[t \ {x}] = g[t \ {x}]
    BY <2>1, <2>7
  <2> QED
    BY <2>2, <2>5, <2>6, <2>8
<1>2. Cardinality(T) \in Nat
  BY PartsAreSmall
<1> QED
  BY <1>1, <1>2

(* SumFunction, one member at a time.                                      *)
LEMMA SumLaws ==
    ASSUME NEW S, IsFiniteSet(S), NEW f \in [S -> Nat]
    PROVE  /\ SumFunction(f) \in Nat
           /\ S = {} => SumFunction(f) = 0
           /\ \A y \in S : SumFunction(f) = f[y] + SumFunction([x \in S \ {y} |-> f[x]])
<1>1. PICK g : AddsUp(f, S, g) /\ SumFunction(f) = g[S]
  BY SumIsThere
<1>2. S \in SUBSET S
  OBVIOUS
<1>3. g[S] \in Nat /\ (S = {} => g[S] = 0)
  BY <1>1, <1>2 DEF AddsUp
<1>4. ASSUME NEW y \in S
      PROVE  SumFunction(f) = f[y] + SumFunction([x \in S \ {y} |-> f[x]])
  <2> DEFINE T == S \ {y}
             e == [x \in T |-> f[x]]
  <2>1. T \in SUBSET S /\ IsFiniteSet(T) /\ e \in [T -> Nat] /\ \A x \in T : e[x] = f[x]
    BY PartsAreSmall
  <2> HIDE DEF e
  <2>2. PICK h : AddsUp(e, T, h) /\ SumFunction(e) = h[T]
    <3> HIDE DEF T
    <3> QED
      BY <2>1, SumIsThere
  <2>3. h[T] = g[T]
    <3> HIDE DEF T
    <3> QED
      BY <1>1, <2>1, <2>2, SameSums
  <2>4. g[S] = f[y] + g[T]
    BY <1>1, <1>2, AnyLast
  <2> QED
    BY <1>1, <2>2, <2>3, <2>4 DEF e
<1> QED
  BY <1>1, <1>3, <1>4

(* A sum of smaller values is not greater.                                 *)
LEMMA SumsGrow ==
    ASSUME NEW S, IsFiniteSet(S), NEW f \in [S -> Nat], NEW g \in [S -> Nat],
           \A x \in S : f[x] <= g[x]
    PROVE  SumFunction(f) <= SumFunction(g)
<1> DEFINE part(k, s) == [x \in s |-> k[x]]
           Off == {n \in Nat : \E s \in SUBSET S :
                     Cardinality(s) = n /\ ~(SumFunction(part(f, s)) <= SumFunction(part(g, s)))}
<1>1. Off = {}
  <2> SUFFICES ASSUME Off # {} PROVE FALSE
    OBVIOUS
  <2>1. PICK m \in Off : \A n \in Off : m <= n
    BY LeastNumber
  <2>2. PICK s \in SUBSET S :
            Cardinality(s) = m /\ ~(SumFunction(part(f, s)) <= SumFunction(part(g, s)))
    BY <2>1
  <2>3. IsFiniteSet(s) /\ part(f, s) \in [s -> Nat] /\ part(g, s) \in [s -> Nat]
    BY <2>2, PartsAreSmall
  <2>4. s # {}
    <3>1. ASSUME s = {} PROVE SumFunction(part(f, s)) = 0 /\ SumFunction(part(g, s)) = 0
      <4> HIDE DEF part
      <4> QED
        BY <2>3, <3>1, SumLaws
    <3> QED
      BY <2>2, <3>1
  <2>5. PICK y \in s : TRUE
    BY <2>4
  <2> DEFINE t == s \ {y}
  <2>6. [x \in t |-> part(f, s)[x]] = part(f, t) /\ [x \in t |-> part(g, s)[x]] = part(g, t)
    OBVIOUS
  <2>7. /\ SumFunction(part(f, s)) = part(f, s)[y] + SumFunction(part(f, t))
        /\ SumFunction(part(g, s)) = part(g, s)[y] + SumFunction(part(g, t))
    <3> HIDE DEF part
    <3> QED
      BY <2>3, <2>5, <2>6, SumLaws
  <2>8. t \in SUBSET S /\ IsFiniteSet(t) /\ Cardinality(t) = m - 1 /\ Cardinality(t) \in Nat
    <3>1. t \in SUBSET S /\ Cardinality(t) = m - 1
      BY <2>2, <2>5, PartsAreSmall
    <3> HIDE DEF t
    <3> QED
      BY <3>1, PartsAreSmall
  <2>9. SumFunction(part(f, t)) <= SumFunction(part(g, t))
    <3> HIDE DEF part, t
    <3> QED
      BY <2>1, <2>8
  <2>10. SumFunction(part(f, t)) \in Nat /\ SumFunction(part(g, t)) \in Nat
    <3>1. part(f, t) \in [t -> Nat] /\ part(g, t) \in [t -> Nat]
      BY <2>8
    <3> HIDE DEF part, t
    <3> QED
      BY <2>8, <3>1, SumLaws
  <2>11. part(f, s)[y] = f[y] /\ part(g, s)[y] = g[y] /\ f[y] \in Nat /\ g[y] \in Nat /\ f[y] <= g[y]
    BY <2>2, <2>5
  <2> HIDE DEF part, t
  <2> QED
    BY <2>2, <2>7, <2>9, <2>10, <2>11
<1>2. Cardinality(S) \in Nat /\ S \in SUBSET S
  BY PartsAreSmall
<1>3. SumFunction(part(f, S)) <= SumFunction(part(g, S))
  <2> HIDE DEF part
  <2> QED
    BY <1>1, <1>2
<1>4. part(f, S) = f /\ part(g, S) = g
  OBVIOUS
<1> QED
  BY <1>3, <1>4

(* In a finite set that R orders, one element has k others before it, for  *)
(* each k below the size of the set.                                       *)
LEMMA Ranked ==
    ASSUME NEW S, IsFiniteSet(S), NEW R,
           \A a \in S : <<a, a>> \notin R,
           \A a, b \in S : a # b => <<a, b>> \in R \/ <<b, a>> \in R,
           \A a, b, c \in S : <<a, b>> \in R /\ <<b, c>> \in R => <<a, c>> \in R
    PROVE  \A k \in 0..(Cardinality(S) - 1) :
             \E a \in S : Cardinality({b \in S : <<b, a>> \in R}) = k
<1> DEFINE Before(a) == {b \in S : <<b, a>> \in R}
           f == [a \in S |-> Cardinality(Before(a))]
           n == Cardinality(S)
           T == 0..(n - 1)
<1>1. n \in Nat
  BY FS_CardinalityType
<1>2. ASSUME NEW a \in S
      PROVE  /\ IsFiniteSet(Before(a)) /\ Cardinality(Before(a)) \in Nat
             /\ Cardinality(Before(a)) < n
  <2>1. Before(a) \in SUBSET S /\ a \notin Before(a)
    BY <1>2
  <2> HIDE DEF Before
  <2>2. IsFiniteSet(Before(a)) /\ Cardinality(Before(a)) <= n /\ Cardinality(Before(a)) # n
    BY <1>2, <2>1, FS_Subset
  <2>3. Cardinality(Before(a)) \in Nat
    BY <2>2, FS_CardinalityType
  <2> QED
    BY <1>1, <2>2, <2>3
<1>3. ASSUME NEW a \in S, NEW b \in S, <<a, b>> \in R
      PROVE  f[a] # f[b]
  <2>1. Before(a) \in SUBSET Before(b) /\ a \in Before(b) /\ a \notin Before(a)
    BY <1>3
  <2>2. IsFiniteSet(Before(b))
    BY <1>2, <1>3
  <2> HIDE DEF Before
  <2>3. Cardinality(Before(b)) # Cardinality(Before(a))
    BY <2>1, <2>2, FS_Subset
  <2> QED
    BY <1>3, <2>3
<1>4. f \in [S -> T]
  <2> HIDE DEF Before
  <2> QED
    BY <1>1, <1>2
<1> HIDE DEF f, n
<1>5. f \in Injection(S, T)
  <2>1. \A a, b \in S : f[a] = f[b] => a = b
    BY <1>3
  <2> QED
    BY <1>4, <2>1 DEF Injection, IsInjective
<1>6. IsFiniteSet(T) /\ Cardinality(T) = n
  BY <1>1, FS_Interval
<1>7. f \in Surjection(S, T)
  <2> HIDE DEF T
  <2> QED
    BY <1>5, <1>6, FS_Injection DEF n
<1>8. ASSUME NEW k \in T PROVE \E a \in S : Cardinality(Before(a)) = k
  <2>1. PICK a \in S : f[a] = k
    BY <1>7, <1>8 DEF Surjection
  <2> QED
    BY <2>1 DEF f
<1> QED
  BY <1>8 DEF n

(* Distinct numbers give the members of a finite set their ranks.          *)
Numbered(S, pos) == (\A a \in S : pos[a] \in Nat) /\ \A a, b \in S : pos[a] = pos[b] => a = b

RanksBy(S, pos) ==
    /\ Cardinality(S) \in Nat
    /\ \A k \in 1..Cardinality(S) : \E a \in S : Cardinality({b \in S : pos[b] < pos[a]}) = k - 1
    /\ \A a \in S : Cardinality({b \in S : pos[b] < pos[a]}) \in 0..(Cardinality(S) - 1)
    /\ \A a, c \in S : pos[a] < pos[c] =>
         Cardinality({b \in S : pos[b] < pos[a]}) < Cardinality({b \in S : pos[b] < pos[c]})

(* The ranks are distinct, and grow with the numbers.                      *)
LEMMA RankByNumber ==
    ASSUME NEW S, IsFiniteSet(S), NEW pos, Numbered(S, pos)
    PROVE  RanksBy(S, pos)
<1> USE DEF Numbered
<1> DEFINE R == {p \in S \X S : pos[p[1]] < pos[p[2]]}
           before(a) == {b \in S : pos[b] < pos[a]}
           rank(a) == Cardinality(before(a))
           n == Cardinality(S)
<1>1. n \in Nat
  BY FS_CardinalityType
<1>2. \A a, b \in S : <<a, b>> \in R <=> pos[a] < pos[b]
  OBVIOUS
<1>3. /\ \A a \in S : <<a, a>> \notin R
      /\ \A a, b \in S : a # b => <<a, b>> \in R \/ <<b, a>> \in R
      /\ \A a, b, c \in S : <<a, b>> \in R /\ <<b, c>> \in R => <<a, c>> \in R
  BY <1>2
<1>4. \A a \in S : {b \in S : <<b, a>> \in R} = before(a)
  BY <1>2
<1>5. \A k \in 0..(n - 1) : \E a \in S : rank(a) = k
  <2> HIDE DEF R, before
  <2>0. IsFiniteSet(S)
    OBVIOUS
  <2>1. \A k \in 0..(n - 1) : \E a \in S : Cardinality({b \in S : <<b, a>> \in R}) = k
    BY ONLY <1>3, <2>0, Ranked, ZenonT(60)
  <2> QED
    BY <1>4, <2>1
<1>6. ASSUME NEW a \in S
      PROVE  IsFiniteSet(before(a)) /\ rank(a) \in Nat /\ rank(a) < n
  <2>1. before(a) \in SUBSET S /\ a \notin before(a)
    OBVIOUS
  <2> HIDE DEF before
  <2>2. IsFiniteSet(before(a)) /\ rank(a) <= n /\ rank(a) # n
    BY <2>1, FS_Subset
  <2>3. rank(a) \in Nat
    BY <2>2, FS_CardinalityType
  <2> QED
    BY <1>1, <2>2, <2>3
<1>7. ASSUME NEW a \in S, NEW c \in S, pos[a] < pos[c]
      PROVE  rank(a) < rank(c)
  <2>1. before(a) \in SUBSET before(c)
    <3> SUFFICES ASSUME NEW x \in S, pos[x] < pos[a] PROVE pos[x] < pos[c]
      OBVIOUS
    <3>1. pos[x] \in Nat /\ pos[a] \in Nat /\ pos[c] \in Nat
      OBVIOUS
    <3> QED
      BY <1>7, <3>1
  <2>2. a \in before(c) /\ a \notin before(a)
    BY <1>7
  <2> HIDE DEF before
  <2>3. IsFiniteSet(before(c)) /\ rank(a) \in Nat /\ rank(c) \in Nat
    BY <1>6
  <2>4. rank(a) # rank(c) /\ rank(a) <= rank(c)
    BY <2>1, <2>2, <2>3, FS_Subset
  <2> QED
    BY <2>3, <2>4
<1>8. \A k \in 1..n : \E a \in S : rank(a) = k - 1
  <2>1. \A k \in 1..n : k - 1 \in 0..(n - 1)
    BY <1>1
  <2> HIDE DEF rank, n
  <2> QED
    BY <1>5, <2>1
<1>9. \A a \in S : rank(a) \in 0..(n - 1)
  <2>1. \A a \in S : rank(a) \in Nat /\ rank(a) < n
    BY <1>6
  <2> HIDE DEF rank, n
  <2> QED
    BY ONLY <1>1, <2>1
<1> HIDE DEF R
<1> QED
  BY <1>1, <1>7, <1>8, <1>9 DEF RanksBy

(* InOrder() lists every member of a set of numbers once.                  *)
LEMMA InOrderIs ==
    ASSUME NEW S \in SUBSET Nat, IsFiniteSet(S)
    PROVE  /\ InOrder(S) \in Seq(S) /\ Len(InOrder(S)) = Cardinality(S)
           /\ DOMAIN InOrder(S) = 1..Cardinality(S)
           /\ \A i \in DOMAIN InOrder(S) : InOrder(S)[i] \in S
           /\ \A n \in S : \E i \in DOMAIN InOrder(S) : InOrder(S)[i] = n
           /\ \A i, j \in DOMAIN InOrder(S) : InOrder(S)[i] = InOrder(S)[j] => i = j
<1> DEFINE pos == [a \in S |-> a]
           n == Cardinality(S)
           rank(a) == Cardinality({b \in S : b < a})
           nth(k) == CHOOSE a \in S : rank(a) = k - 1
<1>1. /\ n \in Nat
      /\ \A k \in 1..n : \E a \in S : rank(a) = k - 1
      /\ \A a \in S : rank(a) \in 0..(n - 1)
      /\ \A a, c \in S : a < c => rank(a) < rank(c)
  <2>1. \A a \in S : pos[a] = a
    OBVIOUS
  <2>2. Numbered(S, pos)
    BY <2>1 DEF Numbered
  <2>3. \A a \in S : {b \in S : pos[b] < pos[a]} = {b \in S : b < a}
    BY <2>1
  <2> HIDE DEF pos
  <2>4. RanksBy(S, pos)
    BY <2>2, RankByNumber
  <2> USE DEF RanksBy
  <2> QED
    BY <2>1, <2>3, <2>4
<1>2. InOrder(S) = [k \in 1..n |-> nth(k)]
  BY DEF InOrder
<1>3. n = Cardinality(S) /\ \A a \in S : a \in Nat
  OBVIOUS
<1> HIDE DEF rank, n
<1>4. \A k \in 1..n : nth(k) \in S /\ rank(nth(k)) = k - 1
  BY <1>1
<1> HIDE DEF nth
<1>5. InOrder(S) \in [1..n -> S] /\ \A i \in 1..n : InOrder(S)[i] = nth(i)
  BY <1>2, <1>4
<1>6. InOrder(S) \in Seq(S) /\ Len(InOrder(S)) = n /\ DOMAIN InOrder(S) = 1..n
  <2>1. InOrder(S) \in UNION {[1..k -> S] : k \in Nat}
    BY <1>1, <1>5
  <2>2. InOrder(S) \in Seq(S)
    BY <2>1, SeqDef
  <2> QED
    BY <1>1, <1>5, <2>2
<1>7. \A i, j \in 1..n : nth(i) = nth(j) => i = j
  BY <1>1, <1>4
<1>8. ASSUME NEW a \in S PROVE \E i \in 1..n : nth(i) = a
  <2>1. rank(a) + 1 \in 1..n /\ (rank(a) + 1) - 1 = rank(a)
    BY <1>1
  <2> DEFINE c == nth(rank(a) + 1)
  <2>2. c \in S /\ rank(c) = rank(a) /\ rank(a) \in Int
    BY <1>1, <1>4, <2>1
  <2>3. a \in Nat /\ c \in Nat
    BY <1>3, <2>2
  <2> HIDE DEF c
  <2>4. ~(a < c) /\ ~(c < a)
    <3>1. (a < c => rank(a) < rank(c)) /\ (c < a => rank(c) < rank(a))
      BY <1>1, <2>2
    <3> QED
      BY <2>2, <3>1
  <2>5. a = c
    BY ONLY <2>3, <2>4
  <2> QED
    BY <2>1, <2>5 DEF c
<1> QED
  BY <1>3, <1>4, <1>5, <1>6, <1>7, <1>8

(* g computes, place by place, from v by the steps of next.                *)
Steps(next, lo, n, V) == next \in [lo..n -> [V -> V]]

Upto(g, lo, n, V, v, next) ==
    /\ g \in [lo..n -> V]
    /\ \A k \in lo..n : g[k] = IF k = lo THEN v ELSE next[k][g[k - 1]]

(* A function that is computed place by place is there.                    *)
LEMMA Iterates ==
    ASSUME NEW lo \in Nat, NEW n \in Nat, lo <= n, NEW V, NEW v \in V,
           NEW next, Steps(next, lo, n, V)
    PROVE  \E g : Upto(g, lo, n, V, v, next)
<1> USE DEF Upto, Steps
<1> DEFINE Bad == {m \in lo..n : ~\E g : Upto(g, lo, m, V, v, next)}
<1>1. Bad = {}
  <2> SUFFICES ASSUME Bad # {} PROVE FALSE
    OBVIOUS
  <2>1. Bad \in SUBSET Nat
    OBVIOUS
  <2>2. PICK m \in Bad : \A k \in Bad : m <= k
    <3> HIDE DEF Bad
    <3> QED
      BY <2>1, LeastNumber
  <2>3. m \in lo..n /\ ~\E g : Upto(g, lo, m, V, v, next)
    BY <2>2
  <2>4. CASE m = lo
    <3> DEFINE g == [k \in lo..lo |-> v]
    <3>1. g \in [lo..lo -> V] /\ \A k \in lo..lo : k = lo /\ g[k] = v
      OBVIOUS
    <3>2. Upto(g, lo, lo, V, v, next)
      BY <3>1
    <3> QED
      BY <2>3, <2>4, <3>2
  <2>5. CASE m # lo
    <3>1. m - 1 \in lo..n /\ m - 1 \notin Bad
      <4>1. m - 1 \in lo..n /\ ~(m <= m - 1)
        BY <2>3, <2>5
      <4> HIDE DEF Bad
      <4> QED
        BY <2>2, <4>1
    <3>2. PICK g : Upto(g, lo, m - 1, V, v, next)
      BY <3>1
    <3> DEFINE h == [k \in lo..m |-> IF k = m THEN next[m][g[m - 1]] ELSE g[k]]
    <3>3. g[m - 1] \in V /\ next[m] \in [V -> V]
      BY <2>3, <3>1, <3>2
    <3>4. h \in [lo..m -> V]
      BY <2>3, <3>1, <3>2, <3>3
    <3>5. ASSUME NEW k \in lo..m PROVE h[k] = IF k = lo THEN v ELSE next[k][h[k - 1]]
      <4>1. CASE k = m
        <5>1. m - 1 \in lo..m /\ m - 1 # m /\ h[m - 1] = g[m - 1]
          BY <2>3, <3>1
        <5> QED
          BY <2>3, <2>5, <4>1, <5>1
      <4>2. CASE k # m
        <5>1. k \in lo..(m - 1) /\ h[k] = g[k]
          BY <2>3, <4>2
        <5>2. k # lo => k - 1 \in lo..m /\ k - 1 # m /\ h[k - 1] = g[k - 1]
          BY <2>3, <4>2
        <5> QED
          BY <3>2, <5>1, <5>2
      <4> QED
        BY <4>1, <4>2
    <3> HIDE DEF h
    <3>6. Upto(h, lo, m, V, v, next)
      BY <3>4, <3>5
    <3> QED
      BY <2>3, <3>6
  <2> QED
    BY <2>4, <2>5
<1>2. n \in lo..n
  OBVIOUS
<1>3. PICK g : Upto(g, lo, n, V, v, next)
  BY <1>1, <1>2
<1> QED
  BY <1>3

(* ss consists of n sequences over S.                                      *)
Parts(ss, n, S) == ss = [i \in 1..n |-> ss[i]] /\ \A i \in 1..n : ss[i] \in Seq(S)

(* g joins them one after the other.                                       *)
Joins(g, ss, n, S) ==
    g \in [1..n -> Seq(S)] /\ g[1] = ss[1] /\ \A k \in 2..n : g[k] = g[k - 1] \o ss[k]

(* FlattenSeq() joins the sequences of a sequence.                         *)
LEMMA Flattens ==
    ASSUME NEW S, NEW n \in Nat, n > 0, NEW ss, Parts(ss, n, S)
    PROVE  \E g : Joins(g, ss, n, S) /\ FlattenSeq(ss) = g[n]
<1> USE DEF Parts
<1>1. Len(ss) = n
  OBVIOUS
<1> DEFINE V == Seq(S)
           next == [k \in 1..n |-> [x \in V |-> x \o ss[k]]]
           Is(f) == f = [i \in 1..n |-> IF i = 1 THEN ss[i] ELSE f[i - 1] \o ss[i]]
<1>2. Steps(next, 1, n, V)
  <2>1. \A k \in 1..n, x \in V : x \o ss[k] \in V
    OBVIOUS
  <2> QED
    BY <2>1 DEF Steps
<1>3. PICK g : Upto(g, 1, n, V, ss[1], next)
  <2>1. 1 \in Nat /\ n \in Nat /\ 1 <= n /\ ss[1] \in V
    OBVIOUS
  <2> HIDE DEF next, V
  <2> QED
    BY <1>2, <2>1, Iterates
<1>4. \A k \in 2..n : next[k][g[k - 1]] = g[k - 1] \o ss[k]
  <2>1. \A k \in 2..n : k \in 1..n /\ k - 1 \in 1..n /\ g[k - 1] \in V
    BY <1>3 DEF Upto
  <2> QED
    BY <2>1
<1>5. Is(g)
  <2>1. ASSUME NEW k \in 1..n PROVE g[k] = IF k = 1 THEN ss[k] ELSE g[k - 1] \o ss[k]
    <3>1. g[k] = IF k = 1 THEN ss[1] ELSE next[k][g[k - 1]]
      <4> HIDE DEF next, V
      <4> QED
        BY <1>3 DEF Upto
    <3>2. k # 1 => k \in 2..n
      OBVIOUS
    <3>3. k # 1 => next[k][g[k - 1]] = g[k - 1] \o ss[k]
      <4> HIDE DEF next
      <4> QED
        BY <1>4, <3>2
    <3> HIDE DEF next, V
    <3> QED
      BY ONLY <3>1, <3>3
  <2>2. g = [k \in 1..n |-> g[k]]
    BY <1>3 DEF Upto
  <2> HIDE DEF next, V
  <2> QED
    BY <2>1, <2>2
<1>6. PICK h : Is(h) /\ h = CHOOSE f : Is(f)
  <2> HIDE DEF Is
  <2> QED
    BY <1>5
<1>7. FlattenSeq(ss) = h[n]
  <2>1. FlattenSeq(ss) = (CHOOSE f : Is(f))[n]
    BY <1>1 DEF FlattenSeq
  <2> HIDE DEF Is
  <2> QED
    BY <1>6, <2>1
<1> DEFINE Typed(m) == h[m] \in V
           Off == {m \in 1..n : ~Typed(m)}
<1>8. Off = {}
  <2> SUFFICES ASSUME Off # {} PROVE FALSE
    OBVIOUS
  <2>1. PICK m \in Off : \A k \in Off : m <= k
    <3>1. Off \in SUBSET Nat
      OBVIOUS
    <3> HIDE DEF Off
    <3> QED
      BY <3>1, LeastNumber
  <2>2. m # 1 => m - 1 \in 1..n /\ h[m - 1] \in V
    <3>1. m \in 1..n
      BY <2>1
    <3>2. m # 1 => m - 1 \in 1..n /\ ~(m <= m - 1)
      BY <3>1
    <3>3. m # 1 => m - 1 \notin Off
      <4> HIDE DEF Off
      <4> QED
        BY <2>1, <3>2
    <3> QED
      BY <3>2, <3>3
  <2>3. h[m] = IF m = 1 THEN ss[m] ELSE h[m - 1] \o ss[m]
    BY <1>6, <2>1
  <2>4. m \in 1..n /\ h[m] \notin V
    BY <2>1
  <2>5. \A x, y \in Seq(S) : x \o y \in Seq(S)
    OBVIOUS
  <2>6. ss[m] \in V
    BY <2>4
  <2> QED
    BY <2>2, <2>3, <2>4, <2>5, <2>6
<1>9. h \in [1..n -> Seq(S)] /\ h[1] = ss[1] /\ \A k \in 2..n : h[k] = h[k - 1] \o ss[k]
  <2>1. h = [i \in 1..n |-> h[i]]
    BY <1>6
  <2>2. \A i \in 1..n : h[i] \in V
    BY <1>8
  <2>3. \A i \in 1..n : h[i] = IF i = 1 THEN ss[i] ELSE h[i - 1] \o ss[i]
    BY <1>6
  <2>4. h \in [1..n -> V]
    <3> HIDE DEF Is, V
    <3> QED
      BY ONLY <2>1, <2>2
  <2>5. 1 \in 1..n /\ \A k \in 2..n : k \in 1..n /\ k # 1
    OBVIOUS
  <2>6. h[1] = ss[1] /\ \A k \in 2..n : h[k] = h[k - 1] \o ss[k]
    BY ONLY <2>3, <2>5
  <2> QED
    BY <2>4, <2>6
<1> QED
  BY <1>7, <1>9 DEF Joins

(* Joined sequences.                                                       *)
LEMMA JoinIs ==
    ASSUME NEW S, NEW s \in Seq(S), NEW t \in Seq(S)
    PROVE  /\ s \o t \in Seq(S)
           /\ \A x : Contains(s \o t, x) <=> Contains(s, x) \/ Contains(t, x)
           /\ (\A x : ~(Contains(s, x) /\ Contains(t, x))) /\ IsInjective(s) /\ IsInjective(t)
                => IsInjective(s \o t)
<1> DEFINE u == s \o t
<1>1. /\ u \in Seq(S) /\ Len(u) = Len(s) + Len(t) /\ Len(s) \in Nat /\ Len(t) \in Nat
      /\ DOMAIN u = 1..Len(u) /\ DOMAIN s = 1..Len(s) /\ DOMAIN t = 1..Len(t)
  OBVIOUS
<1>2. /\ \A i \in 1..Len(s) : u[i] = s[i] /\ i \in 1..Len(u)
      /\ \A i \in 1..Len(t) : u[Len(s) + i] = t[i] /\ Len(s) + i \in 1..Len(u)
  OBVIOUS
<1> HIDE DEF u
<1>3. ASSUME NEW x
      PROVE  Contains(u, x) <=> Contains(s, x) \/ Contains(t, x)
  <2>1. Contains(s, x) \/ Contains(t, x) => Contains(u, x)
    BY <1>2 DEF Contains
  <2>2. ASSUME NEW i \in 1..Len(u), u[i] = x PROVE Contains(s, x) \/ Contains(t, x)
    <3>1. CASE i \in 1..Len(s)
      BY <1>2, <2>2, <3>1 DEF Contains
    <3>2. CASE i \notin 1..Len(s)
      <4>1. i - Len(s) \in 1..Len(t) /\ Len(s) + (i - Len(s)) = i
        BY <1>1, <3>2
      <4>2. t[i - Len(s)] = x
        BY <1>2, <2>2, <4>1
      <4> QED
        BY <4>1, <4>2 DEF Contains
    <3> QED
      BY <3>1, <3>2
  <2> QED
    BY <2>1, <2>2 DEF Contains
<1>4. ASSUME \A x : ~(Contains(s, x) /\ Contains(t, x)), IsInjective(s), IsInjective(t),
             NEW i \in 1..Len(u), NEW j \in 1..Len(u), u[i] = u[j]
      PROVE  i = j
  <2>1. \A k \in 1..Len(u) : k \notin 1..Len(s) =>
          k - Len(s) \in 1..Len(t) /\ Len(s) + (k - Len(s)) = k
    BY <1>1
  <2>2. CASE i \in 1..Len(s) /\ j \in 1..Len(s)
    BY <1>1, <1>2, <1>4, <2>2 DEF IsInjective
  <2>3. CASE i \notin 1..Len(s) /\ j \notin 1..Len(s)
    <3>1. t[i - Len(s)] = u[i] /\ t[j - Len(s)] = u[j]
      BY <1>2, <2>1, <2>3
    <3>2. i - Len(s) = j - Len(s)
      BY <1>1, <1>4, <2>1, <2>3, <3>1 DEF IsInjective
    <3> QED
      BY <1>1, <3>2
  <2>4. ASSUME NEW p \in 1..Len(s), NEW q \in 1..Len(u), q \notin 1..Len(s), u[p] = u[q] PROVE FALSE
    <3>1. s[p] = u[p] /\ t[q - Len(s)] = u[q] /\ q - Len(s) \in 1..Len(t)
      BY <1>2, <2>1, <2>4
    <3>2. Contains(s, u[p]) /\ Contains(t, u[p])
      BY <2>4, <3>1 DEF Contains
    <3> QED
      BY <1>4, <3>2
  <2> QED
    BY <1>4, <2>2, <2>3, <2>4
<1> QED
  BY <1>1, <1>3, <1>4 DEF IsInjective, u

(* Each without repetition, and no two with a common member.               *)
Apart(ss, n) ==
    /\ \A i \in 1..n : IsInjective(ss[i])
    /\ \A i, j \in 1..n : \A x : Contains(ss[i], x) /\ Contains(ss[j], x) => i = j

(* What FlattenSeq() joins has the members of the parts, and each once     *)
(* when the parts are apart.                                               *)
LEMMA FlatIs ==
    ASSUME NEW S, NEW n \in Nat, NEW ss, Parts(ss, n, S)
    PROVE  /\ FlattenSeq(ss) \in Seq(S)
           /\ \A x : Contains(FlattenSeq(ss), x) <=> \E i \in 1..n : Contains(ss[i], x)
           /\ Apart(ss, n) => IsInjective(FlattenSeq(ss))
<1>1. CASE n = 0
  <2>1. ss = << >>
    BY <1>1 DEF Parts
  <2>2. FlattenSeq(ss) = << >>
    BY <2>1 DEF FlattenSeq
  <2> QED
    BY <1>1, <2>2 DEF Contains, IsInjective
<1>2. CASE n > 0
  <2>1. ss = [i \in 1..n |-> ss[i]] /\ \A i \in 1..n : ss[i] \in Seq(S)
    BY DEF Parts
  <2>0. n \in Nat /\ Parts(ss, n, S)
    OBVIOUS
  <2>a. PICK g : Joins(g, ss, n, S) /\ FlattenSeq(ss) = g[n]
    BY ONLY <1>2, <2>0, Flattens
  <2>2. /\ g \in [1..n -> Seq(S)]
        /\ g[1] = ss[1] /\ \A k \in 2..n : g[k] = g[k - 1] \o ss[k]
        /\ FlattenSeq(ss) = g[n]
    BY <2>a DEF Joins
  <2> DEFINE Good(m) == /\ \A x : Contains(g[m], x) <=> \E i \in 1..m : Contains(ss[i], x)
                        /\ Apart(ss, n) => IsInjective(g[m])
             Bad == {m \in 1..n : ~Good(m)}
  <2>3. Bad = {}
    <3> SUFFICES ASSUME Bad # {} PROVE FALSE
      OBVIOUS
    <3>1. Bad \in SUBSET Nat
      OBVIOUS
    <3>2. PICK m \in Bad : \A k \in Bad : m <= k
      <4> HIDE DEF Bad
      <4> QED
        BY <3>1, LeastNumber
    <3>3. m \in 1..n /\ ~Good(m)
      BY <3>2
    <3>4. CASE m = 1
      <4>1. 1..1 = {1}
        OBVIOUS
      <4> QED
        BY <2>2, <3>3, <3>4, <4>1 DEF Apart
    <3>5. CASE m # 1
      <4>1. m \in 2..n /\ m - 1 \in 1..n /\ ~(m <= m - 1)
        BY <3>3, <3>5
      <4>2. Good(m - 1)
        <5>1. m - 1 \notin Bad
          <6> HIDE DEF Bad
          <6> QED
            BY <3>2, <4>1
        <5> QED
          BY <4>1, <5>1
      <4>3. g[m] = g[m - 1] \o ss[m] /\ g[m - 1] \in Seq(S) /\ ss[m] \in Seq(S)
        BY <2>1, <2>2, <4>1
      <4> DEFINE s == g[m - 1]
                 t == ss[m]
      <4>4. /\ \A x : Contains(s \o t, x) <=> Contains(s, x) \/ Contains(t, x)
            /\ (\A x : ~(Contains(s, x) /\ Contains(t, x))) /\ IsInjective(s) /\ IsInjective(t)
                 => IsInjective(s \o t)
        <5>1. s \in Seq(S) /\ t \in Seq(S)
          BY <4>3
        <5> HIDE DEF s, t
        <5> QED
          BY <5>1, JoinIs
      <4>5. \A i : i \in 1..m <=> i \in 1..(m - 1) \/ i = m
        BY <4>1
      <4>6. \A x : Contains(g[m], x) <=> \E i \in 1..m : Contains(ss[i], x)
        <5> SUFFICES ASSUME NEW x PROVE Contains(g[m], x) <=> \E i \in 1..m : Contains(ss[i], x)
          OBVIOUS
        <5>1. Contains(g[m], x) <=> Contains(g[m - 1], x) \/ Contains(ss[m], x)
          BY <4>3, <4>4
        <5>2. Contains(g[m - 1], x) <=> \E i \in 1..(m - 1) : Contains(ss[i], x)
          BY <4>2
        <5> QED
          BY ONLY <4>5, <5>1, <5>2
      <4>7. ASSUME Apart(ss, n) PROVE IsInjective(g[m])
        <5>1. IsInjective(g[m - 1]) /\ IsInjective(ss[m])
          BY <3>3, <4>2, <4>7 DEF Apart
        <5>2. ASSUME NEW x, Contains(g[m - 1], x), Contains(ss[m], x) PROVE FALSE
          <6>1. PICK i \in 1..(m - 1) : Contains(ss[i], x)
            BY <4>2, <5>2
          <6>2. i \in 1..n /\ m \in 1..n /\ i # m
            BY <4>1, <6>1
          <6> QED
            BY <4>7, <5>2, <6>1, <6>2 DEF Apart
        <5> QED
          BY <4>3, <4>4, <5>1, <5>2
      <4> QED
        BY <3>3, <4>6, <4>7
    <3> QED
      BY <3>4, <3>5
  <2>4. n \in 1..n /\ g[n] \in Seq(S)
    BY <1>2, <2>2
  <2>5. Good(n)
    BY <2>3, <2>4
  <2> QED
    BY <2>2, <2>4, <2>5
<1> QED
  BY <1>1, <1>2
-----------------------------------------------------------------------------
(* The geometry of the run screen: facts about Viewport's operators.       *)
(* The window starts in the list, holds as many items as it has slots and  *)
(* the list has items for, and the selected one among them.                *)
LEMMA WindowShape ==
    ASSUME NEW n \in Nat, NEW pos \in 0..(n - 1), NEW slots \in 1..n
    PROVE  /\ Start(n, pos, slots) \in 0..(n - 1)
           /\ End(n, pos, slots) = Start(n, pos, slots) + slots
           /\ End(n, pos, slots) \in 1..n
           /\ Start(n, pos, slots) <= pos /\ pos < End(n, pos, slots)
           /\ Markers(n, pos, slots) \in 0..2
<1> DEFINE h == (slots - 1) \div 2
<1>1. h \in Nat /\ 2 * h <= slots - 1 /\ slots - 1 < 2 * h + 2
  BY SMT
<1>2. Start(n, pos, slots) = AtLeast(0, AtMost(pos - h, n - slots))
  BY DEF Start
<1> HIDE DEF h
<1>3. /\ Start(n, pos, slots) \in 0..(n - 1)
      /\ Start(n, pos, slots) <= pos /\ Start(n, pos, slots) <= n - slots
      /\ pos < Start(n, pos, slots) + slots
  BY <1>1, <1>2, SMT DEF AtLeast, AtMost
<1>4. End(n, pos, slots) = Start(n, pos, slots) + slots
  BY <1>3, SMT DEF End, AtMost
<1>5. Markers(n, pos, slots) \in 0..2
  BY SMT DEF Markers
<1> QED
  BY <1>3, <1>4, <1>5, SMT

(* The passes end with one slot at least and no more than the rows; with   *)
(* three rows or more, the markers that this many slots call for fit too.  *)
LEMMA SettledSlots ==
    ASSUME NEW n \in Nat, NEW pos \in 0..(n - 1), NEW cap \in 1..(n - 1)
    PROVE  /\ Settled(n, pos, cap) \in 1..cap
           /\ cap >= 3 => Settled(n, pos, cap) + Markers(n, pos, Settled(n, pos, cap)) <= cap
<1> DEFINE m1 == Markers(n, pos, Slots(cap, 0))
           m2 == Markers(n, pos, Slots(cap, m1))
<1>1. m1 \in 0..2 /\ m2 \in 0..2
  BY SMT DEF Markers
<1>2. \A m \in 0..2 : Slots(cap, m) \in 1..cap
  BY SMT DEF Slots, AtLeast
<1>3. Settled(n, pos, cap) = Slots(cap, IF m1 = 0 THEN 0 ELSE IF m2 = m1 THEN m1 ELSE m2)
  BY DEF Settled
<1>4. ASSUME cap >= 3
      PROVE  Settled(n, pos, cap) + Markers(n, pos, Settled(n, pos, cap)) <= cap
  <2>1. \A m \in 0..2 : Slots(cap, m) = cap - m
    BY <1>4, SMT DEF Slots, AtLeast
  <2>2. CASE m1 = 0
    BY <1>3, <2>1, <2>2, SMT
  <2>3. CASE m1 # 0 /\ m2 = m1
    BY <1>1, <1>3, <2>1, <2>3, SMT
  <2>4. CASE m1 # 0 /\ m2 # m1
    <3>1. Settled(n, pos, cap) = cap - m2
      BY <1>1, <1>3, <2>1, <2>4, SMT
    <3>2. \A k \in 0..2 : /\ Start(n, pos, cap - k) \in 0..(n - 1)
                          /\ End(n, pos, cap - k) = Start(n, pos, cap - k) + (cap - k)
      BY <1>4, WindowShape, SMT
    <3>3. m1 = 1 => m2 # 0
      BY <3>2, <2>1, <1>1, SMT DEF Markers
    <3>4. ASSUME m1 = 2
          PROVE  m2 = 2
      <4> DEFINE h == (cap - 1) \div 2
      <4>1. h \in Int /\ ((cap - 2) - 1) \div 2 = h - 1
        BY <1>4, SMT
      <4>2. /\ Start(n, pos, cap) = AtLeast(0, AtMost(pos - h, n - cap))
            /\ Start(n, pos, cap - 2) = AtLeast(0, AtMost(pos - (h - 1), n - (cap - 2)))
        BY <4>1 DEF Start
      <4> HIDE DEF h
      <4>3. Start(n, pos, cap) > 0 /\ End(n, pos, cap) < n
        BY <3>4, <2>1, SMT DEF Markers
      <4>4. End(n, pos, cap) = Start(n, pos, cap) + cap
        BY <3>2, <2>1, SMT
      <4>5. 0 < pos - h /\ pos - h < n - cap
        BY <4>1, <4>2, <4>3, <4>4, SMT DEF AtLeast, AtMost
      <4>6. Start(n, pos, cap - 2) = pos - h + 1
        BY <4>1, <4>2, <4>5, SMT DEF AtLeast, AtMost
      <4>7. Start(n, pos, cap - 2) > 0 /\ End(n, pos, cap - 2) < n
        BY <3>2, <4>1, <4>5, <4>6, SMT
      <4> QED
        BY <3>4, <2>1, <4>7, SMT DEF Markers
    <3>5. m2 = 2
      BY <1>1, <2>4, <3>3, <3>4, SMT
    <3>6. Markers(n, pos, cap - 2) \in 0..2
      BY SMT DEF Markers
    <3> QED
      BY <3>1, <3>5, <3>6, SMT
  <2> QED
    BY <2>2, <2>3, <2>4
<1> QED
  BY <1>1, <1>2, <1>3, <1>4, SMT

(* "The selected item is mandatory - it is always inside the slice"        *)
(* (src/tui/format.ts:242): of a list that has items and a screen that has *)
(* rows, the selected item is shown.                                       *)
THEOREM SelectionShown ==
    ASSUME NEW n \in Nat, NEW pos \in Int, NEW cap \in Nat
    PROVE  SelectionInside(n, pos, cap)
<1> SUFFICES ASSUME n > 0, cap > 0
             PROVE  /\ Window(n, pos, cap).first <= Clamped(pos, n)
                    /\ Clamped(pos, n) < Window(n, pos, cap).last
  BY DEF SelectionInside
<1>1. Clamped(pos, n) \in 0..(n - 1)
  BY SMT DEF Clamped, AtLeast, AtMost
<1>2. CASE cap >= n
  BY <1>1, <1>2, SMT DEF Window
<1>3. CASE cap < n
  <2> DEFINE s == Clamped(pos, n)
             slots == Settled(n, s, cap)
  <2>1. slots \in 1..cap
    BY <1>1, <1>3, SettledSlots, SMT
  <2>2. slots \in 1..n
    BY <1>3, <2>1, SMT
  <2> HIDE DEF s, slots
  <2>3. Start(n, s, slots) <= s /\ s < End(n, s, slots)
    BY <1>1, <2>2, WindowShape DEF s
  <2> USE DEF s, slots
  <2>4. /\ Window(n, pos, cap).first = Start(n, s, slots)
        /\ Window(n, pos, cap).last = End(n, s, slots)
    BY <1>3, SMT DEF Window
  <2> QED
    BY <2>3, <2>4
<1> QED
  BY <1>2, <1>3, SMT

(* "The rendered row count is guaranteed <= capacity for every input"      *)
(* (src/tui/format.ts:245).                                                *)
THEOREM WindowFits ==
    ASSUME NEW n \in Nat, NEW pos \in Int, NEW cap \in Nat
    PROVE  WithinCapacity(n, pos, cap)
<1>1. CASE n = 0 \/ cap = 0
  BY <1>1, SMT DEF WithinCapacity, Window, Rendered
<1>2. CASE n > 0 /\ cap >= n
  BY <1>2, SMT DEF WithinCapacity, Window, Rendered
<1>3. CASE n > 0 /\ cap > 0 /\ cap < n
  <2> DEFINE s == Clamped(pos, n)
             slots == Settled(n, s, cap)
             marks == Markers(n, s, slots)
             w == Window(n, pos, cap)
  <2>1. s \in 0..(n - 1)
    BY <1>3, SMT DEF Clamped, AtLeast, AtMost
  <2>2. slots \in 1..cap
    BY <1>3, <2>1, SettledSlots, SMT
  <2>3. /\ Start(n, s, slots) \in 0..(n - 1)
        /\ End(n, s, slots) = Start(n, s, slots) + slots
        /\ End(n, s, slots) \in 1..n
    <3>1. slots \in 1..n
      BY <1>3, <2>2, SMT
    <3> HIDE DEF s, slots
    <3> QED
      BY <2>1, <3>1, WindowShape
  <2>4. w = [first |-> Start(n, s, slots), last |-> End(n, s, slots),
             above |-> IF End(n, s, slots) - Start(n, s, slots) + marks > cap
                       THEN 0 ELSE Start(n, s, slots),
             below |-> IF End(n, s, slots) - Start(n, s, slots) + marks > cap
                       THEN 0 ELSE n - End(n, s, slots)]
    BY <1>3, SMT DEF Window
  <2>5. marks = (IF Start(n, s, slots) > 0 THEN 1 ELSE 0) + (IF End(n, s, slots) < n THEN 1 ELSE 0)
    BY DEF Markers
  <2> HIDE DEF s, slots, marks, w
  <2>6. Rendered(w) <= cap
    BY <2>2, <2>3, <2>4, <2>5, SMT DEF Rendered
  <2> QED
    BY <2>6 DEF WithinCapacity, w
<1> QED
  BY <1>1, <1>2, <1>3, SMT

(* Of the two degenerate cases only a screen of one or two rows loses a    *)
(* marker: from three rows on they report the true hidden counts.          *)
THEOREM MarkersReport ==
    ASSUME NEW n \in Nat, NEW pos \in Int, NEW cap \in Nat
    PROVE  MarkersTrue(n, pos, cap)
<1> SUFFICES ASSUME n > 0, cap >= 3
             PROVE  /\ Window(n, pos, cap).above = Window(n, pos, cap).first
                    /\ Window(n, pos, cap).below = n - Window(n, pos, cap).last
  BY DEF MarkersTrue
<1>1. CASE cap >= n
  BY <1>1, SMT DEF Window
<1>2. CASE cap < n
  <2> DEFINE s == Clamped(pos, n)
             slots == Settled(n, s, cap)
  <2>1. s \in 0..(n - 1)
    BY SMT DEF Clamped, AtLeast, AtMost
  <2>2. slots \in 1..cap /\ slots + Markers(n, s, slots) <= cap
    BY <1>2, <2>1, SettledSlots, SMT
  <2>3. /\ End(n, s, slots) = Start(n, s, slots) + slots
        /\ Start(n, s, slots) \in 0..(n - 1)
        /\ Markers(n, s, slots) \in 0..2
    <3>1. slots \in 1..n
      BY <1>2, <2>2, SMT
    <3> HIDE DEF s, slots
    <3> QED
      BY <2>1, <3>1, WindowShape
  <2>4. ~(End(n, s, slots) - Start(n, s, slots) + Markers(n, s, slots) > cap)
    BY <2>2, <2>3, SMT
  <2> QED
    BY <1>2, <2>4, SMT DEF Window
<1> QED
  BY <1>1, <1>2, SMT

(* The agents' rows, the result's and the fixed ones never add up to more  *)
(* than the terminal has, once the fixed ones fit.                         *)
THEOREM PanesNeverOverflow ==
    ASSUME NEW rows \in Nat, NEW banner \in BOOLEAN, NEW narratorLines \in Nat,
           NEW finished \in BOOLEAN, NEW tailMax \in Nat
    PROVE  PanesFit(rows, banner, narratorLines, finished, tailMax)
<1> DEFINE c == Chrome(banner, narratorLines)
           content == Content(rows, banner, narratorLines)
<1>1. c \in Nat
  BY SMT DEF Chrome
<1>2. content = AtLeast(0, rows - c)
  BY DEF Content
<1> HIDE DEF c, content
<1>3. content \in Nat
  BY <1>1, <1>2, SMT DEF AtLeast
<1>4. content \div 2 \in Nat /\ 2 * (content \div 2) <= content
  BY <1>3, SMT
<1>5. CASE ~finished
  <2>1. AgentRows(content, finished, tailMax) = content /\ ResultRows(content, finished, tailMax) = 0
    BY <1>5 DEF AgentRows, ResultRows
  <2> QED
    BY <1>1, <1>2, <1>5, <2>1, SMT DEF PanesFit, AtLeast, c, content
<1>6. CASE finished
  <2> DEFINE res == ResultRows(content, finished, tailMax)
  <2>1. res \in Nat /\ res <= AtLeast(0, content - 4)
    BY <1>3, <1>4, <1>6, SMT DEF ResultRows, ResultChrome, AtMost, AtLeast
  <2>2. AgentRows(content, finished, tailMax) = AtLeast(0, content - 4 - res)
    BY <1>6 DEF AgentRows, ResultChrome
  <2> HIDE DEF res
  <2>3. c + 4 <= rows => c + 4 + AgentRows(content, finished, tailMax) + res <= rows
    BY <1>1, <1>2, <2>1, <2>2, SMT DEF AtLeast
  <2> QED
    BY <1>6, <2>3 DEF PanesFit, ResultChrome, c, content, res
<1> QED
  BY <1>5, <1>6

(* What a window shows is part of the list.                                *)
LEMMA WindowInList ==
    ASSUME NEW n \in Nat, NEW pos \in Int, NEW cap \in Nat
    PROVE  /\ Window(n, pos, cap).first \in Nat /\ Window(n, pos, cap).last \in Nat
           /\ Window(n, pos, cap).last <= n
           /\ Window(n, pos, cap).above \in Nat /\ Window(n, pos, cap).below \in Nat
<1>1. CASE n = 0 \/ cap = 0
  BY <1>1, SMT DEF Window
<1>2. CASE n > 0 /\ cap >= n
  BY <1>2, SMT DEF Window
<1>3. CASE n > 0 /\ cap > 0 /\ cap < n
  <2> DEFINE s == Clamped(pos, n)
             slots == Settled(n, s, cap)
  <2>1. s \in 0..(n - 1)
    BY <1>3, SMT DEF Clamped, AtLeast, AtMost
  <2>2. slots \in 1..n
    BY <1>3, <2>1, SettledSlots, SMT
  <2>3. Start(n, s, slots) \in 0..(n - 1) /\ End(n, s, slots) \in 1..n
    <3> HIDE DEF s, slots
    <3> QED
      BY <2>1, <2>2, WindowShape
  <2>4. /\ Window(n, pos, cap).first = Start(n, s, slots)
        /\ Window(n, pos, cap).last = End(n, s, slots)
        /\ Window(n, pos, cap).above \in {0, Start(n, s, slots)}
        /\ Window(n, pos, cap).below \in {0, n - End(n, s, slots)}
    BY <1>3, SMT DEF Window
  <2> HIDE DEF s, slots
  <2> QED
    BY <2>3, <2>4, SMT
<1> QED
  BY <1>1, <1>2, <1>3, SMT
-----------------------------------------------------------------------------
(* The run screen: an invariant that its steps keep, and what follows.     *)

Statuses == {"running", "ok", "failed", "skipped"}
Phases   == Titles \cup {NoPhase}

(* Titles in a sequence, none of them twice.                               *)
Titled(titles) ==
    /\ titles \in Seq(Titles)
    /\ \A i, j \in DOMAIN titles : titles[i] = titles[j] => i = j

AgentsTyped(agents) ==
    /\ agents = [n \in DOMAIN agents |-> agents[n]] /\ DOMAIN agents \subseteq Agents
    /\ \A n \in DOMAIN agents : agents[n] \in [phase : Phases, status : Statuses, used : Nat]

(* A state of the fold.                                                    *)
FoldTyped(s) ==
    /\ s = [started |-> s.started, status |-> s.status, paused |-> s.paused,
            current |-> s.current, phases |-> s.phases, agents |-> s.agents,
            spent |-> s.spent, narrator |-> s.narrator]
    /\ s.status \in {"running", "ok", "failed", "stopped"} /\ s.current \in Phases
    /\ s.spent \in Nat /\ s.narrator \in Nat
    /\ AgentsTyped(s.agents)

(* Its phases are those of its agents, and what they count is right.       *)
FoldSound(s) ==
    /\ FoldTyped(s) /\ Titled(PhaseTitles(s))
    /\ \A n \in DOMAIN s.agents : s.agents[n].phase \in Range(PhaseTitles(s)) \cup {NoPhase}
    /\ s.phases = ComputePhases(PhaseTitles(s), s.agents)
-----------------------------------------------------------------------------
(* The agents that a sound state has are finitely many.                    *)
LEMMA AgentsAreFinite ==
    /\ AgentCount \in Nat /\ IsFiniteSet(Agents) /\ Cardinality(Agents) = AgentCount
    /\ Agents \in SUBSET Nat
    /\ \A S \in SUBSET Agents : /\ IsFiniteSet(S) /\ Cardinality(S) \in 0..AgentCount /\ S \in SUBSET Nat
<1>1. AgentCount \in Nat
  BY RunScreenBounds
<1>2. IsFiniteSet(Agents) /\ Cardinality(Agents) = AgentCount
  BY <1>1, FS_Interval DEF Agents
<1>3. Agents \in SUBSET Nat
  BY <1>1 DEF Agents
<1>4. ASSUME NEW S \in SUBSET Agents
      PROVE  IsFiniteSet(S) /\ Cardinality(S) \in 0..AgentCount /\ S \in SUBSET Nat
  <2>1. IsFiniteSet(S) /\ Cardinality(S) <= AgentCount
    BY <1>2, FS_Subset
  <2>2. Cardinality(S) \in Nat
    BY <2>1, FS_CardinalityType
  <2> QED
    BY <1>1, <1>3, <2>1, <2>2
<1> QED
  BY <1>1, <1>2, <1>3, <1>4

(* Two disjoint finite sets have as many members as both together.         *)
LEMMA DisjointSizes ==
    ASSUME NEW A, IsFiniteSet(A), NEW B, IsFiniteSet(B), A \cap B = {}
    PROVE  Cardinality(A \cup B) = Cardinality(A) + Cardinality(B)
<1>1. Cardinality(A \cup B) = Cardinality(A) + Cardinality(B) - Cardinality(A \cap B)
  BY FS_Union
<1>2. Cardinality(A \cap B) = 0
  BY FS_EmptySet
<1>3. Cardinality(A) \in Nat /\ Cardinality(B) \in Nat
  BY FS_CardinalityType
<1> QED
  BY <1>1, <1>2, <1>3

(* The agents of phase t with a status in X.                               *)
Counted(agents, t, X) ==
    {n \in DOMAIN agents : agents[n].phase = t /\ agents[n].status \in X}

(* ComputePhases(): a phase per title, with its agents counted by status.  *)
LEMMA PhasesCount ==
    ASSUME NEW titles, NEW agents, AgentsTyped(agents)
    PROVE  ComputePhases(titles, agents) =
             [i \in DOMAIN titles |->
                [title   |-> titles[i],
                 running |-> Cardinality(Counted(agents, titles[i], {"running"})),
                 failed  |-> Cardinality(Counted(agents, titles[i], {"failed"})),
                 done    |-> Cardinality(Counted(agents, titles[i], {"ok", "skipped"})),
                 total   |-> Cardinality(Counted(agents, titles[i], Statuses))]]
<1> DEFINE Its(t) == {n \in DOMAIN agents : agents[n].phase = t}
           Mine(t) == [n \in Its(t) |-> agents[n]]
<1>1. ComputePhases(titles, agents) =
        [i \in DOMAIN titles |->
           [title |-> titles[i], running |-> Counting(Mine(titles[i]), {"running"}),
            failed |-> Counting(Mine(titles[i]), {"failed"}),
            done |-> Counting(Mine(titles[i]), {"ok", "skipped"}), total |-> Cardinality(Its(titles[i]))]]
  BY DEF ComputePhases
<1>2. ASSUME NEW t, NEW X PROVE Counting(Mine(t), X) = Cardinality(Counted(agents, t, X))
  <2>1. {n \in DOMAIN Mine(t) : Mine(t)[n].status \in X} = Counted(agents, t, X)
    BY DEF Counted
  <2> HIDE DEF Mine
  <2> QED
    BY <2>1 DEF Counting
<1>3. \A t : Its(t) = Counted(agents, t, Statuses)
  BY DEF AgentsTyped, Counted
<1> HIDE DEF Mine, Its
<1> QED
  BY <1>1, <1>2, <1>3

(* What is counted only depends on phases and statuses.                    *)
LEMMA SameCounts ==
    ASSUME NEW titles, NEW agents, AgentsTyped(agents), NEW others, AgentsTyped(others),
           DOMAIN others = DOMAIN agents,
           \A n \in DOMAIN agents : /\ others[n].phase = agents[n].phase
                                    /\ others[n].status = agents[n].status
    PROVE  ComputePhases(titles, others) = ComputePhases(titles, agents)
<1>1. \A t, X : Counted(others, t, X) = Counted(agents, t, X)
  BY DEF Counted
<1> QED
  BY <1>1, PhasesCount

(* The counts of a phase add up to its agents.                             *)
LEMMA CountsAddUp ==
    ASSUME NEW titles, NEW agents, AgentsTyped(agents), NEW i \in DOMAIN titles,
           NEW p, p = ComputePhases(titles, agents)[i]
    PROVE  /\ p.title = titles[i]
           /\ p.running \in Nat /\ p.failed \in Nat /\ p.done \in Nat /\ p.total \in Nat
           /\ p.done + p.running + p.failed = p.total
           /\ (\A n \in DOMAIN agents : agents[n].status # "running") => p.running = 0
<1> DEFINE Of(X) == Counted(agents, titles[i], X)
<1>1. /\ p.title = titles[i]
      /\ p.running = Cardinality(Of({"running"})) /\ p.failed = Cardinality(Of({"failed"}))
      /\ p.done = Cardinality(Of({"ok", "skipped"})) /\ p.total = Cardinality(Of(Statuses))
  BY PhasesCount
<1>2. \A X : IsFiniteSet(Of(X)) /\ Cardinality(Of(X)) \in Nat
  <2> SUFFICES ASSUME NEW X PROVE IsFiniteSet(Of(X)) /\ Cardinality(Of(X)) \in Nat
    OBVIOUS
  <2>1. Of(X) \in SUBSET Agents
    BY DEF AgentsTyped, Counted
  <2> HIDE DEF Of
  <2>2. IsFiniteSet(Of(X))
    BY <2>1, AgentsAreFinite
  <2> QED
    BY <2>2, FS_CardinalityType
<1>3. /\ Of(Statuses) = Of({"ok", "skipped"}) \cup Of({"running", "failed"})
      /\ Of({"ok", "skipped"}) \cap Of({"running", "failed"}) = {}
      /\ Of({"running", "failed"}) = Of({"running"}) \cup Of({"failed"})
      /\ Of({"running"}) \cap Of({"failed"}) = {}
  BY DEF Statuses, Counted
<1>4. (\A n \in DOMAIN agents : agents[n].status # "running") => Of({"running"}) = {}
  BY DEF Counted
<1> HIDE DEF Of
<1>5. Cardinality(Of(Statuses)) = Cardinality(Of({"ok", "skipped"})) + Cardinality(Of({"running", "failed"}))
  BY <1>2, <1>3, DisjointSizes
<1>6. Cardinality(Of({"running", "failed"})) = Cardinality(Of({"running"})) + Cardinality(Of({"failed"}))
  BY <1>2, <1>3, DisjointSizes
<1>7. Of({"running"}) = {} => Cardinality(Of({"running"})) = 0
  BY FS_EmptySet
<1> QED
  BY <1>1, <1>2, <1>4, <1>5, <1>6, <1>7

(* The titles that a script declares, each once.                           *)
LEMMA DistinctTitles ==
    ASSUME NEW titles \in Seq(Titles)
    PROVE  Titled(Distinct(titles))
<1> DEFINE I == {i \in DOMAIN titles : \A j \in 1..(i - 1) : titles[j] # titles[i]}
           o == InOrder(I)
<1>1. DOMAIN titles = 1..Len(titles) /\ Len(titles) \in Nat
  OBVIOUS
<1>2. I \in SUBSET Nat /\ IsFiniteSet(I)
  <2>1. IsFiniteSet(1..Len(titles)) /\ I \in SUBSET (1..Len(titles))
    BY <1>1, FS_Interval
  <2>2. 1..Len(titles) \subseteq Nat
    BY <1>1
  <2> HIDE DEF I
  <2> QED
    BY <2>1, <2>2, FS_Subset
<1> HIDE DEF I
<1>3. /\ Cardinality(I) \in Nat /\ DOMAIN o = 1..Cardinality(I)
      /\ \A i \in DOMAIN o : o[i] \in I
      /\ \A i, j \in DOMAIN o : o[i] = o[j] => i = j
  BY <1>2, InOrderIs, FS_CardinalityType
<1>4. Distinct(titles) = [k \in DOMAIN o |-> titles[o[k]]]
  BY DEF Distinct, I
<1> HIDE DEF o
<1>5. \A i \in I : i \in 1..Len(titles) /\ titles[i] \in Titles /\ \A j \in 1..(i - 1) : titles[j] # titles[i]
  BY <1>1 DEF I
<1>6. Distinct(titles) \in [1..Cardinality(I) -> Titles]
  BY <1>3, <1>4, <1>5
<1>7. Distinct(titles) \in Seq(Titles)
  BY <1>3, <1>6, SeqDef
<1>8. ASSUME NEW i \in I, NEW j \in I, titles[i] = titles[j] PROVE i = j
  <2>1. i \in Nat /\ j \in Nat /\ i >= 1 /\ j >= 1
    BY <1>1, <1>5
  <2>2. CASE i < j
    <3>1. i \in 1..(j - 1)
      BY <2>1, <2>2
    <3> QED
      BY <1>5, <1>8, <3>1
  <2>3. CASE j < i
    <3>1. j \in 1..(i - 1)
      BY <2>1, <2>3
    <3> QED
      BY <1>5, <1>8, <3>1
  <2> QED
    BY <2>1, <2>2, <2>3
<1>9. \A i, j \in DOMAIN Distinct(titles) : Distinct(titles)[i] = Distinct(titles)[j] => i = j
  BY <1>3, <1>4, <1>8
<1> QED
  BY <1>7, <1>9 DEF Titled

(* A title that is not there yet gets its place at the end.                *)
LEMMA IncludingTitles ==
    ASSUME NEW titles, Titled(titles), NEW x \in Titles
    PROVE  /\ Titled(Including(titles, x))
           /\ x \in Range(Including(titles, x)) /\ Range(titles) \subseteq Range(Including(titles, x))
<1>1. titles \in Seq(Titles) /\ DOMAIN titles = 1..Len(titles) /\ Len(titles) \in Nat
  BY DEF Titled
<1>2. CASE Contains(titles, x)
  BY <1>1, <1>2 DEF Including, Titled, Range, Contains
<1>3. CASE ~Contains(titles, x)
  <2> DEFINE r == Append(titles, x)
  <2>1. Including(titles, x) = r
    BY <1>3 DEF Including
  <2>2. /\ r \in Seq(Titles) /\ Len(r) = Len(titles) + 1 /\ DOMAIN r = 1..(Len(titles) + 1)
        /\ r[Len(titles) + 1] = x /\ \A i \in 1..Len(titles) : r[i] = titles[i]
    BY <1>1
  <2> HIDE DEF r
  <2>3. \A i \in 1..Len(titles) : titles[i] # x
    BY <1>1, <1>3 DEF Contains
  <2>4. ASSUME NEW i \in DOMAIN r, NEW j \in DOMAIN r, r[i] = r[j] PROVE i = j
    <3>1. (i \in 1..Len(titles) \/ i = Len(titles) + 1) /\ (j \in 1..Len(titles) \/ j = Len(titles) + 1)
      BY <1>1, <2>2
    <3> QED
      BY <1>1, <2>2, <2>3, <2>4, <3>1 DEF Titled
  <2>5. Titled(r)
    BY <2>2, <2>4 DEF Titled
  <2>6. x \in Range(r)
    BY <1>1, <2>2 DEF Range
  <2>7. Range(titles) \subseteq Range(r)
    BY <1>1, <2>2 DEF Range
  <2> QED
    BY <2>1, <2>5, <2>6, <2>7
<1> QED
  BY <1>2, <1>3

(* The titles of computed phases are those they were computed from.        *)
LEMMA ComputedTitles ==
    ASSUME NEW s, AgentsTyped(s.agents), NEW titles, Titled(titles),
           s.phases = ComputePhases(titles, s.agents)
    PROVE  PhaseTitles(s) = titles
<1>1. /\ DOMAIN s.phases = DOMAIN titles
      /\ \A i \in DOMAIN titles : s.phases[i].title = titles[i]
  BY PhasesCount
<1>2. titles = [i \in DOMAIN titles |-> titles[i]]
  BY DEF Titled
<1> QED
  BY <1>1, <1>2 DEF PhaseTitles

(* How a step of the fold keeps its phases sound.                          *)
LEMMA Recomputed ==
    ASSUME NEW s, FoldTyped(s), NEW titles, Titled(titles),
           s.phases = ComputePhases(titles, s.agents),
           \A n \in DOMAIN s.agents : s.agents[n].phase \in Range(titles) \cup {NoPhase}
    PROVE  FoldSound(s)
<1>1. PhaseTitles(s) = titles
  BY ComputedTitles DEF FoldTyped
<1> QED
  BY <1>1 DEF FoldSound

(* The state that the fold of a journal begins with is sound.              *)
LEMMA FoldStarts == FoldSound(InitialState)
<1> DEFINE s == InitialState
           none == << >>
<1>1. s.agents = NoAgents /\ DOMAIN NoAgents = {} /\ NoAgents = [n \in {} |-> 0]
  BY DEF InitialState, NoAgents
<1>2. AgentsTyped(s.agents)
  BY <1>1 DEF AgentsTyped
<1>3. FoldTyped(s)
  <2>1. /\ s.status = "running" /\ s.current = NoPhase /\ s.spent = 0 /\ s.narrator = 0
        /\ s = [started |-> s.started, status |-> s.status, paused |-> s.paused,
            current |-> s.current, phases |-> s.phases, agents |-> s.agents,
            spent |-> s.spent, narrator |-> s.narrator]
    BY DEF InitialState
  <2> HIDE DEF s
  <2> QED
    BY <1>2, <2>1 DEF FoldTyped, Phases
<1>4. Titled(none)
  BY DEF Titled
<1>5. s.phases = ComputePhases(none, s.agents)
  BY DEF InitialState, ComputePhases
<1> QED
  BY <1>1, <1>3, <1>4, <1>5, Recomputed

(* The fields of a state of the fold that a line of the journal leaves.    *)
Leaves(s, r, status, paus, agents, spent) ==
    /\ r.status = status /\ r.paused = paus /\ r.agents = agents /\ r.spent = spent
    /\ r.started \in {s.started, TRUE}

(* run_start, with which the journal begins.                               *)
LEMMA FoldsRunStart ==
    ASSUME NEW s, FoldSound(s), DOMAIN s.agents = {}, NEW titles \in Seq(Titles),
           NEW r, r = Reduce(s, [t |-> "run_start", titles |-> titles])
    PROVE  /\ FoldSound(r) /\ r.current = s.current
           /\ Leaves(s, r, "running", s.paused, s.agents, s.spent)
<1> DEFINE ts == Distinct(titles)
           phases == ComputePhases(ts, s.agents)
<1>1. Reduce(s, [t |-> "run_start", titles |-> titles])
        = [s EXCEPT !.started = TRUE, !.status = "running", !.phases = phases]
  BY DEF Reduce, OnRunStart
<1> HIDE DEF phases
<1>2. FoldTyped(s)
  BY DEF FoldSound
<1>3. /\ r.started = TRUE /\ r.status = "running" /\ r.phases = phases
      /\ r.agents = s.agents /\ r.spent = s.spent /\ r.paused = s.paused
      /\ r.current = s.current /\ r.narrator = s.narrator
      /\ r = [started |-> r.started, status |-> r.status, paused |-> r.paused,
              current |-> r.current, phases |-> r.phases, agents |-> r.agents,
              spent |-> r.spent, narrator |-> r.narrator]
  BY <1>1, <1>2 DEF FoldTyped
<1>4. FoldTyped(r)
  BY <1>2, <1>3 DEF FoldTyped
<1>5. Titled(ts)
  BY DistinctTitles
<1>6. FoldSound(r)
  BY <1>3, <1>4, <1>5, Recomputed DEF phases
<1> QED
  BY <1>3, <1>6 DEF Leaves

(* phase().                                                                *)
LEMMA FoldsPhase ==
    ASSUME NEW s, FoldSound(s), NEW x \in Titles,
           NEW r, r = Reduce(s, [t |-> "phase", title |-> x])
    PROVE  FoldSound(r) /\ Leaves(s, r, s.status, s.paused, s.agents, s.spent)
<1> DEFINE ts == Including(PhaseTitles(s), x)
           phases == ComputePhases(ts, s.agents)
<1>1. Reduce(s, [t |-> "phase", title |-> x]) = [s EXCEPT !.current = x, !.phases = phases]
  BY DEF Reduce, OnPhase
<1> HIDE DEF phases
<1>2. FoldTyped(s)
  BY DEF FoldSound
<1>3. /\ r.started = s.started /\ r.status = s.status /\ r.phases = phases
      /\ r.agents = s.agents /\ r.spent = s.spent /\ r.paused = s.paused
      /\ r.current = x /\ r.narrator = s.narrator
      /\ r = [started |-> r.started, status |-> r.status, paused |-> r.paused,
              current |-> r.current, phases |-> r.phases, agents |-> r.agents,
              spent |-> r.spent, narrator |-> r.narrator]
  BY <1>1, <1>2 DEF FoldTyped
<1>4. FoldTyped(r)
  BY <1>2, <1>3 DEF FoldTyped, Phases
<1>5. Titled(ts) /\ Range(PhaseTitles(s)) \subseteq Range(ts)
  BY IncludingTitles DEF FoldSound
<1>6. \A n \in DOMAIN r.agents : r.agents[n].phase \in Range(ts) \cup {NoPhase}
  BY <1>3, <1>5 DEF FoldSound
<1> HIDE DEF ts
<1>7. FoldSound(r)
  BY <1>3, <1>4, <1>5, <1>6, Recomputed DEF phases
<1> QED
  BY <1>3, <1>7 DEF Leaves

(* agent_start: an agent more, which runs and has used nothing.            *)
LEMMA FoldsAgentStart ==
    ASSUME NEW s, FoldSound(s), NEW n \in Agents, NEW x \in Phases,
           NEW r, r = Reduce(s, [t |-> "agent_start", n |-> n, phase |-> x])
    PROVE  /\ FoldSound(r)
           /\ Leaves(s, r, s.status, s.paused,
                     With(s.agents, n, [phase |-> x, status |-> "running", used |-> 0]), s.spent)
<1> DEFINE agents == With(s.agents, n, [phase |-> x, status |-> "running", used |-> 0])
           ts == IF x = NoPhase THEN PhaseTitles(s) ELSE Including(PhaseTitles(s), x)
           phases == ComputePhases(ts, agents)
<1>1. Reduce(s, [t |-> "agent_start", n |-> n, phase |-> x])
        = [s EXCEPT !.agents = agents, !.phases = phases]
  BY DEF Reduce, OnAgentStart
<1> HIDE DEF phases
<1>2. FoldTyped(s)
  BY DEF FoldSound
<1>3. /\ DOMAIN agents = DOMAIN s.agents \cup {n}
      /\ \A m \in DOMAIN agents :
           agents[m] = IF m = n THEN [phase |-> x, status |-> "running", used |-> 0] ELSE s.agents[m]
      /\ agents = [m \in DOMAIN agents |-> agents[m]]
  BY DEF With
<1> HIDE DEF agents
<1>4. /\ r.started = s.started /\ r.status = s.status /\ r.phases = phases
      /\ r.agents = agents /\ r.spent = s.spent /\ r.paused = s.paused
      /\ r.current = s.current /\ r.narrator = s.narrator
      /\ r = [started |-> r.started, status |-> r.status, paused |-> r.paused,
              current |-> r.current, phases |-> r.phases, agents |-> r.agents,
              spent |-> r.spent, narrator |-> r.narrator]
  BY <1>1, <1>2 DEF FoldTyped
<1>5. AgentsTyped(agents)
  BY <1>2, <1>3 DEF FoldTyped, AgentsTyped, Statuses
<1>6. FoldTyped(r)
  BY <1>2, <1>4, <1>5 DEF FoldTyped
<1>7. /\ Titled(ts) /\ Range(PhaseTitles(s)) \subseteq Range(ts)
      /\ x \in Range(ts) \cup {NoPhase}
  BY IncludingTitles DEF FoldSound, Phases
<1>8. \A m \in DOMAIN r.agents : r.agents[m].phase \in Range(ts) \cup {NoPhase}
  BY <1>3, <1>4, <1>7 DEF FoldSound
<1> HIDE DEF ts
<1>9. FoldSound(r)
  BY <1>4, <1>6, <1>7, <1>8, Recomputed DEF phases
<1> QED
  BY <1>4, <1>9 DEF Leaves, agents

(* agent_usage.                                                            *)
LEMMA FoldsUsage ==
    ASSUME NEW s, FoldSound(s), NEW n \in DOMAIN s.agents, NEW u \in Nat,
           NEW r, r = Reduce(s, [t |-> "agent_usage", n |-> n, used |-> u])
    PROVE  /\ FoldSound(r) /\ r.current = s.current
           /\ Leaves(s, r, s.status, s.paused, [s.agents EXCEPT ![n].used = u], s.spent)
<1> DEFINE agents == [s.agents EXCEPT ![n].used = u]
<1>1. Reduce(s, [t |-> "agent_usage", n |-> n, used |-> u]) = [s EXCEPT !.agents[n].used = u]
  BY DEF Reduce, OnAgentUsage
<1>2. FoldTyped(s)
  BY DEF FoldSound
<1>3. /\ r.started = s.started /\ r.status = s.status /\ r.phases = s.phases
      /\ r.agents = agents /\ r.spent = s.spent /\ r.paused = s.paused
      /\ r.current = s.current /\ r.narrator = s.narrator
      /\ r = [started |-> r.started, status |-> r.status, paused |-> r.paused,
              current |-> r.current, phases |-> r.phases, agents |-> r.agents,
              spent |-> r.spent, narrator |-> r.narrator]
  BY <1>1, <1>2 DEF FoldTyped
<1>4. /\ DOMAIN agents = DOMAIN s.agents /\ agents = [m \in DOMAIN agents |-> agents[m]]
      /\ \A m \in DOMAIN agents : /\ agents[m] \in [phase : Phases, status : Statuses, used : Nat]
                                  /\ agents[m].phase = s.agents[m].phase
                                  /\ agents[m].status = s.agents[m].status
  BY <1>2 DEF FoldTyped, AgentsTyped
<1> HIDE DEF agents
<1>5. AgentsTyped(agents)
  BY <1>2, <1>4 DEF FoldTyped, AgentsTyped
<1>6. FoldTyped(r)
  BY <1>2, <1>3, <1>5 DEF FoldTyped
<1>7. ComputePhases(PhaseTitles(s), agents) = ComputePhases(PhaseTitles(s), s.agents)
  BY <1>2, <1>4, <1>5, SameCounts DEF FoldTyped
<1>8. \A m \in DOMAIN r.agents : r.agents[m].phase \in Range(PhaseTitles(s)) \cup {NoPhase}
  BY <1>3, <1>4 DEF FoldSound
<1>9. FoldSound(r)
  BY <1>3, <1>6, <1>7, <1>8, Recomputed DEF FoldSound
<1> QED
  BY <1>3, <1>9 DEF Leaves, agents

(* agent_end: its usage joins the total.                                   *)
LEMMA FoldsAgentEnd ==
    ASSUME NEW s, FoldSound(s), NEW n \in DOMAIN s.agents, NEW u \in Nat, NEW status \in Statuses,
           NEW r, r = Reduce(s, [t |-> "agent_end", n |-> n, status |-> status, used |-> u])
    PROVE  /\ FoldSound(r) /\ r.current = s.current
           /\ Leaves(s, r, s.status, s.paused,
                     [s.agents EXCEPT ![n].status = status, ![n].used = u], s.spent + u)
<1> DEFINE agents == [s.agents EXCEPT ![n].status = status, ![n].used = u]
           phases == ComputePhases(PhaseTitles(s), agents)
<1>1. Reduce(s, [t |-> "agent_end", n |-> n, status |-> status, used |-> u])
        = [s EXCEPT !.agents = agents, !.spent = s.spent + u, !.phases = phases]
  BY DEF Reduce, OnAgentEnd
<1> HIDE DEF phases
<1>2. FoldTyped(s)
  BY DEF FoldSound
<1>3. /\ r.started = s.started /\ r.status = s.status /\ r.phases = phases
      /\ r.agents = agents /\ r.spent = s.spent + u /\ r.paused = s.paused
      /\ r.current = s.current /\ r.narrator = s.narrator
      /\ r = [started |-> r.started, status |-> r.status, paused |-> r.paused,
              current |-> r.current, phases |-> r.phases, agents |-> r.agents,
              spent |-> r.spent, narrator |-> r.narrator]
  <2> HIDE DEF agents
  <2> QED
    BY <1>1, <1>2 DEF FoldTyped
<1>4. /\ DOMAIN agents = DOMAIN s.agents /\ agents = [m \in DOMAIN agents |-> agents[m]]
      /\ \A m \in DOMAIN agents : /\ agents[m] \in [phase : Phases, status : Statuses, used : Nat]
                                  /\ agents[m].phase = s.agents[m].phase
  BY <1>2 DEF FoldTyped, AgentsTyped
<1> HIDE DEF agents
<1>5. AgentsTyped(agents)
  BY <1>2, <1>4 DEF FoldTyped, AgentsTyped
<1>6. FoldTyped(r)
  BY <1>2, <1>3, <1>5 DEF FoldTyped
<1>8. \A m \in DOMAIN r.agents : r.agents[m].phase \in Range(PhaseTitles(s)) \cup {NoPhase}
  BY <1>3, <1>4 DEF FoldSound
<1>9. FoldSound(r)
  BY <1>3, <1>6, <1>8, Recomputed DEF FoldSound, phases
<1> QED
  BY <1>3, <1>9 DEF Leaves, agents

(* The other lines change no agent.                                        *)
LEMMA FoldsOthers ==
    ASSUME NEW s, FoldSound(s), NEW r
    PROVE  /\ r = Reduce(s, [t |-> "log"]) =>
                FoldSound(r) /\ r.current = s.current /\ Leaves(s, r, s.status, s.paused, s.agents, s.spent)
           /\ r = Reduce(s, [t |-> "paused"]) =>
                FoldSound(r) /\ r.current = s.current /\ Leaves(s, r, s.status, TRUE, s.agents, s.spent)
           /\ r = Reduce(s, [t |-> "resumed"]) =>
                FoldSound(r) /\ r.current = s.current /\ Leaves(s, r, s.status, FALSE, s.agents, s.spent)
           /\ \A status \in {"ok", "failed", "stopped"}, u \in Nat :
                r = Reduce(s, [t |-> "run_end", status |-> status, spent |-> u]) =>
                  FoldSound(r) /\ r.current = NoPhase /\ Leaves(s, r, status, s.paused, s.agents, u)
<1> DEFINE Whole(f) == f = [started |-> f.started, status |-> f.status, paused |-> f.paused,
              current |-> f.current, phases |-> f.phases, agents |-> f.agents,
              spent |-> f.spent, narrator |-> f.narrator]
<1>1. FoldTyped(s) /\ Whole(s) /\ NarratorMax \in Nat
  BY NarratorBound DEF FoldSound, FoldTyped
<1>2. ASSUME Whole(r), r.phases = s.phases, r.agents = s.agents, r.spent \in Nat, r.narrator \in Nat,
             r.status \in {"running", "ok", "failed", "stopped"}, r.current \in Phases
      PROVE  FoldSound(r)
  <2>1. FoldTyped(r)
    BY <1>1, <1>2 DEF FoldTyped
  <2> QED
    BY <1>2, <2>1, Recomputed DEF FoldSound
<1>3. /\ s.status \in {"running", "ok", "failed", "stopped"} /\ s.current \in Phases
      /\ s.spent \in Nat /\ s.narrator \in Nat /\ NoPhase \in Phases
  BY <1>1 DEF FoldTyped, Phases
<1> DEFINE Rest == r.phases = s.phases /\ r.agents = s.agents /\ r.started = s.started
<1>4. ASSUME r = Reduce(s, [t |-> "log"])
      PROVE  FoldSound(r) /\ r.current = s.current /\ Leaves(s, r, s.status, s.paused, s.agents, s.spent)
  <2>1. r = [s EXCEPT !.narrator = IF @ = NarratorMax THEN @ ELSE @ + 1]
    BY <1>4 DEF Reduce, OnLog
  <2>2. Whole(r) /\ Rest /\ r.spent = s.spent /\ r.current = s.current /\ r.status = s.status
        /\ r.paused = s.paused /\ r.narrator \in Nat
    BY <1>1, <1>3, <2>1
  <2> QED
    BY <1>2, <1>3, <2>2 DEF Leaves
<1>5. ASSUME r = Reduce(s, [t |-> "paused"])
      PROVE  FoldSound(r) /\ r.current = s.current /\ Leaves(s, r, s.status, TRUE, s.agents, s.spent)
  <2>1. r = [s EXCEPT !.paused = TRUE]
    BY <1>5 DEF Reduce
  <2>2. Whole(r) /\ Rest /\ r.spent = s.spent /\ r.current = s.current /\ r.status = s.status
        /\ r.paused = TRUE /\ r.narrator \in Nat
    BY <1>1, <1>3, <2>1
  <2> QED
    BY <1>2, <1>3, <2>2 DEF Leaves
<1>6. ASSUME r = Reduce(s, [t |-> "resumed"])
      PROVE  FoldSound(r) /\ r.current = s.current /\ Leaves(s, r, s.status, FALSE, s.agents, s.spent)
  <2>1. r = [s EXCEPT !.paused = FALSE]
    BY <1>6 DEF Reduce
  <2>2. Whole(r) /\ Rest /\ r.spent = s.spent /\ r.current = s.current /\ r.status = s.status
        /\ r.paused = FALSE /\ r.narrator \in Nat
    BY <1>1, <1>3, <2>1
  <2> QED
    BY <1>2, <1>3, <2>2 DEF Leaves
<1>7. ASSUME NEW status \in {"ok", "failed", "stopped"}, NEW u \in Nat,
             r = Reduce(s, [t |-> "run_end", status |-> status, spent |-> u])
      PROVE  FoldSound(r) /\ r.current = NoPhase /\ Leaves(s, r, status, s.paused, s.agents, u)
  <2>1. r = [s EXCEPT !.status = status, !.current = NoPhase, !.spent = u]
    BY <1>7 DEF Reduce, OnRunEnd
  <2>2. Whole(r) /\ Rest /\ r.spent = u /\ r.current = NoPhase /\ r.status = status
        /\ r.paused = s.paused /\ r.narrator \in Nat
    BY <1>1, <1>3, <2>1
  <2> QED
    BY <1>2, <1>3, <2>2 DEF Leaves
<1> QED
  BY <1>4, <1>5, <1>6, <1>7

(* What the runner keeps: the books of the tokens are the state of the     *)
(* journal's fold and the ledger of the budget.                            *)
StatusTells ==
    /\ runner \in {"boot", "begun", "live", "draining"} => told.status = "running"
    /\ runner \in {"boot", "begun"} => DOMAIN told.agents = {} /\ told.spent = 0
    /\ told.status # "running" => told.current = NoPhase

InFlight(l, s) == SumFunction([n \in Running(s) |-> l[n]])

Books ==
    /\ \A n \in Agents \ DOMAIN told.agents : ledger[n] = 0
    /\ \A n \in Running(told) :
         /\ told.agents[n].used <= ledger[n]
         /\ throttle[n] # "armed" => told.agents[n].used = ledger[n]
    /\ SumFunction(ledger) = IF told.status = "running" THEN told.spent + InFlight(ledger, told) ELSE told.spent

RunnerTypes ==
    /\ runner \in {"boot", "begun", "live", "draining", "over", "gone"}
    /\ acts \in Nat /\ acts <= MaxActs
    /\ ledger \in [Agents -> Nat] /\ \A n \in Agents : ledger[n] <= acts
    /\ throttle \in [Agents -> {"open", "closed", "armed"}] /\ aborted \subseteq Agents
    /\ paused \in BOOLEAN /\ stopped \in BOOLEAN /\ told.paused = paused

Ran == RunnerTypes /\ FoldSound(told) /\ StatusTells /\ Books

(* The last of the toggles is still to be read, or was obeyed.             *)
Toggles == {"pause", "resume"}

Commands ==
    [cmd : {"pause", "resume", "stop"}] \cup [cmd : {"skip"}, n : 0..AgentCount]

LastToggle ==
    /\ control \in Seq(Commands)
    /\ toggled \in Toggles \cup {"none"}
    /\ toggled # "none" /\ ~stopped =>
         \/ \E i \in 1..Len(control) :
              /\ control[i].cmd = toggled
              /\ \A j \in 1..Len(control) : j > i => control[j].cmd \notin Toggles
         \/ /\ \A j \in 1..Len(control) : control[j].cmd \notin Toggles
            /\ paused = (toggled = "pause")

Screened ==
    /\ FoldSound(shown)
    /\ mode \in {"away", "main", "over", "stop", "skip"}
    /\ aim \in 0..AgentCount /\ sel \in 0..AgentCount /\ tab \in Nat

RunStrong == Ran /\ LastToggle /\ Screened
-----------------------------------------------------------------------------
(* e is f, but for its value at n.                                         *)
Becomes(e, f, n, v) == e = [f EXCEPT ![n] = v]

(* One value of a sum changes.                                             *)
LEMMA SumChange ==
    ASSUME NEW S, IsFiniteSet(S), NEW f \in [S -> Nat], NEW n \in S, NEW v \in Nat,
           NEW e, Becomes(e, f, n, v)
    PROVE  SumFunction(e) + f[n] = SumFunction(f) + v /\ SumFunction(e) \in Nat
<1> DEFINE rest(g) == [x \in S \ {n} |-> g[x]]
<1>1. e \in [S -> Nat] /\ e[n] = v
  BY DEF Becomes
<1>2. rest(e) = rest(f)
  BY DEF Becomes
<1>3. rest(f) \in [S \ {n} -> Nat] /\ IsFiniteSet(S \ {n})
  BY PartsAreSmall
<1> HIDE DEF rest
<1>4. SumFunction(rest(f)) \in Nat
  BY <1>3, SumLaws
<1>5. SumFunction(e) = v + SumFunction(rest(f))
  <2>1. SumFunction(e) = e[n] + SumFunction(rest(e))
    BY <1>1, SumLaws DEF rest
  <2> QED
    BY <1>1, <1>2, <2>1
<1>6. SumFunction(f) = f[n] + SumFunction(rest(f))
  <2>1. f \in [S -> Nat] /\ IsFiniteSet(S) /\ n \in S
    OBVIOUS
  <2>2. \A y \in S : SumFunction(f) = f[y] + SumFunction([x \in S \ {y} |-> f[x]])
    BY ONLY <2>1, SumLaws
  <2> QED
    BY <2>1, <2>2 DEF rest
<1>7. f[n] \in Nat
  OBVIOUS
<1> QED
  BY <1>4, <1>5, <1>6, <1>7

(* Zeros add up to zero.                                                   *)
LEMMA SumOfZeros ==
    ASSUME NEW S, IsFiniteSet(S)
    PROVE  SumFunction([x \in S |-> 0]) = 0
<1> DEFINE zero(s) == [x \in s |-> 0]
           Off == {n \in Nat : \E s \in SUBSET S : Cardinality(s) = n /\ SumFunction(zero(s)) # 0}
<1>1. Off = {}
  <2> SUFFICES ASSUME Off # {} PROVE FALSE
    OBVIOUS
  <2>1. PICK m \in Off : \A n \in Off : m <= n
    BY LeastNumber
  <2>2. PICK s \in SUBSET S : Cardinality(s) = m /\ SumFunction(zero(s)) # 0
    BY <2>1
  <2>3. IsFiniteSet(s) /\ zero(s) \in [s -> Nat]
    BY <2>2, PartsAreSmall
  <2>4. s # {}
    BY <2>2, <2>3, SumLaws
  <2>5. PICK y \in s : TRUE
    BY <2>4
  <2>6. SumFunction(zero(s)) = zero(s)[y] + SumFunction([x \in s \ {y} |-> zero(s)[x]])
    <3> HIDE DEF zero
    <3> QED
      BY <2>3, <2>5, SumLaws
  <2>7. [x \in s \ {y} |-> zero(s)[x]] = zero(s \ {y}) /\ zero(s)[y] = 0
    BY <2>5
  <2> DEFINE t == s \ {y}
  <2>8. t \in SUBSET S /\ Cardinality(t) = m - 1 /\ Cardinality(t) \in Nat
    <3>1. t \in SUBSET S /\ Cardinality(t) = m - 1
      BY <2>2, <2>5, PartsAreSmall
    <3> HIDE DEF t
    <3> QED
      BY <3>1, PartsAreSmall
  <2> HIDE DEF zero
  <2>9. SumFunction(zero(t)) = 0
    <3> HIDE DEF t
    <3> QED
      BY <2>1, <2>8
  <2> QED
    BY <2>2, <2>6, <2>7, <2>9
<1>2. Cardinality(S) \in Nat /\ S \in SUBSET S
  BY PartsAreSmall
<1>3. SumFunction(zero(S)) = 0
  <2> HIDE DEF zero
  <2> QED
    BY <1>1, <1>2
<1> QED
  BY <1>3

(* Agents that run are agents, so finitely many.                           *)
LEMMA RunningIs ==
    ASSUME NEW s, FoldSound(s)
    PROVE  /\ Running(s) \in SUBSET Agents /\ IsFiniteSet(Running(s))
           /\ Running(s) \subseteq DOMAIN s.agents /\ IsFiniteSet(Agents)
           /\ \A n \in DOMAIN s.agents : s.agents[n].used \in Nat /\ n \in Agents
<1>1. Running(s) \in SUBSET Agents /\ Running(s) \subseteq DOMAIN s.agents
  BY DEF Running, FoldSound, FoldTyped, AgentsTyped
<1>2. \A n \in DOMAIN s.agents : s.agents[n].used \in Nat /\ n \in Agents
  BY DEF FoldSound, FoldTyped, AgentsTyped
<1> QED
  BY <1>1, <1>2, AgentsAreFinite

(* What agents in flight have used, as their ledger changes.               *)
LEMMA InFlightIs ==
    ASSUME NEW l \in [Agents -> Nat], NEW s, FoldSound(s)
    PROVE  /\ InFlight(l, s) \in Nat
           /\ \A n \in Running(s), v \in Nat : 
                LET k == [l EXCEPT ![n] = v]
                IN  /\ InFlight(k, s) + l[n] = InFlight(l, s) + v
                    /\ InFlight(k, s) \in Nat
           /\ \A r : Running(r) = Running(s) => InFlight(l, r) = InFlight(l, s)
           /\ \A r, n : n \in Running(s) /\ Running(r) = Running(s) \ {n} =>
                InFlight(l, s) = l[n] + InFlight(l, r)
<1> DEFINE R == Running(s)
           f == [n \in R |-> l[n]]
<1>1. R \in SUBSET Agents /\ IsFiniteSet(R)
  BY RunningIs
<1> HIDE DEF R
<1>2. f \in [R -> Nat]
  BY <1>1
<1>3. InFlight(l, s) = SumFunction(f)
  BY DEF InFlight, R
<1>4. SumFunction(f) \in Nat
  <2> HIDE DEF f
  <2> QED
    BY <1>1, <1>2, SumLaws
<1>5. ASSUME NEW n \in R, NEW v \in Nat
      PROVE  LET k == [l EXCEPT ![n] = v]
             IN  InFlight(k, s) + l[n] = InFlight(l, s) + v /\ InFlight(k, s) \in Nat
  <2> DEFINE k == [l EXCEPT ![n] = v]
             e == [f EXCEPT ![n] = v]
  <2>1. [m \in R |-> k[m]] = e /\ f[n] = l[n]
    BY <1>1
  <2>2. InFlight(k, s) = SumFunction(e)
    BY <2>1 DEF InFlight, R
  <2>4. Becomes(e, f, n, v)
    BY DEF Becomes
  <2> HIDE DEF e, k, f
  <2>3. SumFunction(e) + f[n] = SumFunction(f) + v /\ SumFunction(e) \in Nat
    BY <1>1, <1>2, <2>4, SumChange
  <2> QED
    BY <1>3, <2>1, <2>2, <2>3 DEF k
<1>6. ASSUME NEW r, NEW n \in R, Running(r) = R \ {n}
      PROVE  InFlight(l, s) = l[n] + InFlight(l, r)
  <2>1. SumFunction(f) = f[n] + SumFunction([x \in R \ {n} |-> f[x]])
    <3> HIDE DEF f
    <3> QED
      BY <1>1, <1>2, SumLaws
  <2>2. [x \in R \ {n} |-> f[x]] = [x \in R \ {n} |-> l[x]] /\ f[n] = l[n]
    OBVIOUS
  <2>3. InFlight(l, r) = SumFunction([x \in R \ {n} |-> l[x]])
    BY <1>6 DEF InFlight
  <2> QED
    BY <1>3, <2>1, <2>2, <2>3
<1>7. \A r : Running(r) = Running(s) => InFlight(l, r) = InFlight(l, s)
  BY DEF InFlight
<1> QED
  BY <1>3, <1>4, <1>5, <1>6, <1>7 DEF R

ranVars == <<runner, ledger, throttle, paused, stopped, aborted, told>>

(* Keys and the screen's steps leave the runner as it is.                  *)
LEMMA RunnerRests ==
    ASSUME Ran, UNCHANGED ranVars, acts' = acts \/ Act
    PROVE  Ran'
<1>1. UNCHANGED <<runner, ledger, throttle, paused, stopped, aborted, told>>
  BY DEF ranVars
<1>2. MaxActs \in Nat
  BY RunScreenBounds
<1>3. acts' \in Nat /\ acts' <= MaxActs /\ acts <= acts'
  BY <1>2 DEF Ran, RunnerTypes, Act
<1>4. RunnerTypes'
  <2>1. \A n \in Agents : ledger[n] \in Nat /\ ledger[n] <= acts
    BY DEF Ran, RunnerTypes
  <2>2. \A n \in Agents : ledger[n] <= acts'
    BY <1>3, <2>1 DEF Ran, RunnerTypes
  <2> QED
    BY <1>1, <1>3, <2>2 DEF Ran, RunnerTypes
<1>5. StatusTells'
  BY <1>1 DEF Ran, StatusTells
<1>6. Books'
  BY <1>1 DEF Ran, Books, InFlight
<1> QED
  BY <1>1, <1>4, <1>5, <1>6 DEF Ran

(* Steps of the runner that journal something of no agent.                 *)
LEMMA TellingKeeps ==
    ASSUME Ran, FoldSound(told)', UNCHANGED <<ledger, throttle>>, acts' = acts \/ Act,
           told'.agents = told.agents, told'.spent = told.spent, told'.status = told.status,
           runner' \in {"boot", "begun", "live", "draining", "over", "gone"},
           aborted' \subseteq Agents, paused' \in BOOLEAN, stopped' \in BOOLEAN, told'.paused = paused',
           runner' = runner \/ (runner' \in {"begun", "live", "draining"} /\ told.status = "running"
                                /\ (runner' = "begun" => runner = "boot"))
                 \/ runner' = "gone",
           told'.status # "running" => told'.current = told.current
    PROVE  Ran'
<1>1. MaxActs \in Nat
  BY RunScreenBounds
<1>2. acts' \in Nat /\ acts' <= MaxActs /\ acts <= acts'
  BY <1>1 DEF Ran, RunnerTypes, Act
<1>3. RunnerTypes'
  <2>1. \A n \in Agents : ledger[n] \in Nat /\ ledger[n] <= acts
    BY DEF Ran, RunnerTypes
  <2>2. \A n \in Agents : ledger[n] <= acts'
    BY <1>2, <2>1 DEF Ran, RunnerTypes
  <2> QED
    BY <1>2, <2>2 DEF Ran, RunnerTypes
<1>4. StatusTells'
  BY DEF Ran, StatusTells
<1>5. Running(told)' = Running(told)
  BY DEF Running
<1>6. Books'
  BY <1>5 DEF Ran, Books, InFlight
<1> QED
  BY <1>3, <1>4, <1>6 DEF Ran

(* The run is announced.                                                   *)
LEMMA RunStartKeeps == ASSUME Ran, RunStart PROVE Ran'
<1>1. /\ runner = "boot" /\ runner' = "begun"
      /\ told' = Reduce(told, [t |-> "run_start", titles |-> Declared])
      /\ UNCHANGED <<ledger, throttle, aborted, paused, stopped, acts>>
  BY DEF RunStart, Journal, calls
<1>2. Declared \in Seq(Titles) /\ DOMAIN told.agents = {} /\ told.status = "running"
  BY <1>1, RunScreenBounds DEF Ran, StatusTells
<1>3. /\ FoldSound(told') /\ Leaves(told, told', "running", told.paused, told.agents, told.spent)
      /\ told'.current = told.current
  BY <1>1, <1>2, FoldsRunStart DEF Ran
<1> QED
  BY <1>1, <1>2, <1>3, TellingKeeps DEF Leaves, Ran, RunnerTypes

(* A run that ends has its whole spending in the journal.                  *)
LEMMA EndKeeps ==
    ASSUME Ran, FoldSound(told)', UNCHANGED <<ledger, throttle, aborted, paused, stopped, acts>>,
           runner' \in {"over", "gone"}, told'.status # "running", told'.current = NoPhase,
           told'.agents = told.agents, told'.paused = told.paused,
           told'.spent = SumFunction(ledger)
    PROVE  Ran'
<1>1. RunnerTypes'
  BY DEF Ran, RunnerTypes
<1>2. StatusTells'
  BY DEF StatusTells
<1>3. Running(told)' = Running(told)
  BY DEF Running
<1>4. Books'
  BY <1>3 DEF Ran, Books
<1> QED
  BY <1>1, <1>2, <1>4 DEF Ran

(* The script cannot be loaded.                                            *)
LEMMA LoadFailsKeeps == ASSUME Ran, LoadFails PROVE Ran'
<1>1. /\ runner \in {"boot", "begun"} /\ runner' = "gone"
      /\ told' = Reduce(told, [t |-> "run_end", status |-> "failed", spent |-> 0])
      /\ UNCHANGED <<ledger, throttle, aborted, paused, stopped, acts>>
  BY DEF LoadFails, Journal, calls
<1>2. /\ FoldSound(told') /\ Leaves(told, told', "failed", told.paused, told.agents, 0)
      /\ told'.current = NoPhase
  BY <1>1, FoldsOthers DEF Ran
<1>3. SumFunction(ledger) = 0
  <2>1. told.spent = 0 /\ told.status = "running" /\ Running(told) = {}
    BY <1>1 DEF Ran, StatusTells, Running
  <2>2. InFlight(ledger, told) = 0
    <3> DEFINE f == [n \in Running(told) |-> ledger[n]]
    <3>1. f \in [{} -> Nat] /\ IsFiniteSet({})
      BY <2>1, FS_EmptySet
    <3> HIDE DEF f
    <3>2. SumFunction(f) = 0
      BY <3>1, SumLaws
    <3> QED
      BY <3>2 DEF f, InFlight
  <2> QED
    BY <2>1, <2>2 DEF Ran, Books
<1> QED
  BY <1>1, <1>2, <1>3, EndKeeps DEF Leaves

(* The run ends, and its last line is written.                             *)
LEMMA RunEndKeeps == ASSUME Ran, RunEnd PROVE Ran'
<1>1. PICK status \in {"ok", "failed", "stopped"} :
        told' = Reduce(told, [t |-> "run_end", status |-> status, spent |-> Spent])
  BY DEF RunEnd, Journal
<1>2. /\ runner' = "over"
      /\ UNCHANGED <<ledger, throttle, aborted, paused, stopped, acts>>
  BY DEF RunEnd, calls
<1>3. Spent = SumFunction(ledger) /\ Spent \in Nat
  BY AgentsAreFinite, SumLaws DEF Spent, Ran, RunnerTypes
<1>4. /\ FoldSound(told') /\ Leaves(told, told', status, told.paused, told.agents, Spent)
      /\ told'.current = NoPhase
  BY <1>1, <1>3, FoldsOthers DEF Ran
<1> QED
  BY <1>2, <1>3, <1>4, EndKeeps DEF Leaves

(* The script logs, or enters a phase.                                     *)
LEMMA BodyTellsKeeps == ASSUME Ran, BodyTells PROVE Ran'
<1>1. /\ runner \in {"live", "draining"} /\ Act
      /\ UNCHANGED <<runner, ledger, throttle, aborted, paused, stopped>>
  BY DEF BodyTells, runVar, calls
<1>2. told.status = "running"
  BY <1>1 DEF Ran, StatusTells
<1>3. FoldSound(told') /\ Leaves(told, told', told.status, told.paused, told.agents, told.spent)
  <2>1. CASE \E title \in Titles : Journal([t |-> "phase", title |-> title])
    <3>1. PICK x \in Titles : told' = Reduce(told, [t |-> "phase", title |-> x])
      BY <2>1 DEF Journal
    <3> QED
      BY <3>1, FoldsPhase DEF Ran
  <2>2. CASE Journal([t |-> "log"])
    BY <2>2, FoldsOthers DEF Ran, Journal
  <2> QED
    BY <2>1, <2>2 DEF BodyTells
<1> QED
  BY <1>1, <1>2, <1>3, TellingKeeps DEF Leaves, Ran, RunnerTypes

(* The pid file, the exit and a crash.                                     *)
LEMMA ComesAndGoes == ASSUME Ran, WritePid \/ Exit \/ Crash \/ PidTaken PROVE Ran'
<1>1. UNCHANGED <<ledger, throttle, aborted, paused, stopped, acts, told>>
  BY DEF WritePid, Exit, Crash, PidTaken, calls, runVar, journal
<1>2. runner' = runner \/ runner' = "gone" \/ (runner' = "live" /\ runner = "begun")
  BY DEF WritePid, Exit, Crash, PidTaken, runVar
<1>3. runner = "begun" => told.status = "running"
  BY DEF Ran, StatusTells
<1> QED
  BY <1>1, <1>2, <1>3, TellingKeeps DEF Ran, RunnerTypes

(* What is in flight is aborted.                                           *)
LEMMA TeardownKeeps == ASSUME Ran, Teardown PROVE Ran'
<1>1. /\ UNCHANGED <<ledger, throttle, paused, acts, told>>
      /\ runner = "live" /\ runner' = "draining" /\ stopped' = TRUE /\ aborted' = Running(told)
  BY DEF Teardown, StopAll, journal
<1>2. Running(told) \in SUBSET Agents
  BY RunningIs DEF Ran
<1>3. told.status = "running"
  BY <1>1 DEF Ran, StatusTells
<1> QED
  BY <1>1, <1>2, <1>3, TellingKeeps DEF Ran, RunnerTypes

(* The control file's commands.                                            *)
LEMMA ObeyKeeps == ASSUME Ran, Obey PROVE Ran'
<1>1. UNCHANGED <<runner, ledger, throttle, acts>>
  BY DEF Obey
<1>2. Running(told) \in SUBSET Agents
  BY RunningIs DEF Ran
<1>3. \/ paused' = TRUE /\ Journal([t |-> "paused"]) /\ UNCHANGED <<stopped, aborted>>
      \/ paused' = FALSE /\ Journal([t |-> "resumed"]) /\ UNCHANGED <<stopped, aborted>>
      \/ /\ aborted' = aborted \cup ({Head(control).n} \cap Running(told))
         /\ UNCHANGED <<paused, stopped, told>>
      \/ stopped' = TRUE /\ aborted' = Running(told) /\ UNCHANGED <<paused, told>>
      \/ UNCHANGED <<paused, stopped, aborted, told>>
  BY DEF Obey, StopAll, journal
<1>4. CASE paused' = TRUE /\ Journal([t |-> "paused"]) /\ UNCHANGED <<stopped, aborted>>
  <2>1. FoldSound(told') /\ Leaves(told, told', told.status, TRUE, told.agents, told.spent)
        /\ told'.current = told.current
    BY <1>4, FoldsOthers DEF Ran, Journal
  <2> QED
    BY <1>1, <1>4, <2>1, TellingKeeps DEF Leaves, Ran, RunnerTypes
<1>5. CASE paused' = FALSE /\ Journal([t |-> "resumed"]) /\ UNCHANGED <<stopped, aborted>>
  <2>1. FoldSound(told') /\ Leaves(told, told', told.status, FALSE, told.agents, told.spent)
        /\ told'.current = told.current
    BY <1>5, FoldsOthers DEF Ran, Journal
  <2> QED
    BY <1>1, <1>5, <2>1, TellingKeeps DEF Leaves, Ran, RunnerTypes
<1>6. CASE UNCHANGED <<paused, told>> /\ aborted' \subseteq Agents /\ stopped' \in BOOLEAN
  BY <1>1, <1>6, TellingKeeps DEF Ran, RunnerTypes
<1>7. aborted \subseteq Agents /\ stopped \in BOOLEAN
  BY DEF Ran, RunnerTypes
<1> QED
  BY <1>2, <1>3, <1>4, <1>5, <1>6, <1>7

(* A step of an agent: what it must do to the books.                       *)
LEMMA AgentStepKeeps ==
    ASSUME Ran, runner \in {"live", "draining"}, UNCHANGED <<runner, paused, stopped>>,
           FoldSound(told)', told'.status = told.status, told'.paused = told.paused,
           acts' \in Nat, acts <= acts', acts' <= MaxActs,
           aborted' \subseteq Agents, throttle' \in [Agents -> {"open", "closed", "armed"}],
           ledger' \in [Agents -> Nat], \A n \in Agents : ledger'[n] <= acts', 
           \A n \in Agents \ DOMAIN told'.agents : ledger'[n] = 0,
           \A n \in Running(told') :
             /\ told'.agents[n].used <= ledger'[n]
             /\ throttle'[n] # "armed" => told'.agents[n].used = ledger'[n],
           SumFunction(ledger') = told'.spent + InFlight(ledger', told')
    PROVE  Ran'
<1>1. told.status = "running"
  BY DEF Ran, StatusTells
<1>2. RunnerTypes'
  BY DEF Ran, RunnerTypes
<1>3. StatusTells'
  BY <1>1 DEF StatusTells
<1>4. Books'
  BY <1>1 DEF Books
<1> QED
  BY <1>2, <1>3, <1>4 DEF Ran

(* What Ran says, for the steps of an agent.                               *)
LEMMA RanFacts ==
    ASSUME Ran, runner \in {"live", "draining"}
    PROVE  /\ told.status = "running" /\ MaxActs \in Nat
           /\ acts \in Nat /\ acts <= MaxActs
           /\ ledger \in [Agents -> Nat] /\ (\A n \in Agents : ledger[n] <= acts)
           /\ throttle \in [Agents -> {"open", "closed", "armed"}] /\ aborted \subseteq Agents
           /\ FoldSound(told)
           /\ \A n \in Agents \ DOMAIN told.agents : ledger[n] = 0
           /\ \A n \in Running(told) :
                /\ told.agents[n].used <= ledger[n]
                /\ throttle[n] # "armed" => told.agents[n].used = ledger[n]
           /\ SumFunction(ledger) = told.spent + InFlight(ledger, told)
           /\ told.spent \in Nat /\ InFlight(ledger, told) \in Nat /\ SumFunction(ledger) \in Nat
<1>1. told.status = "running" /\ MaxActs \in Nat
  BY RunScreenBounds DEF Ran, StatusTells
<1>2. ledger \in [Agents -> Nat] /\ FoldSound(told)
  BY DEF Ran, RunnerTypes
<1>3. InFlight(ledger, told) \in Nat
  BY <1>2, InFlightIs
<1>4. told.spent \in Nat
  BY <1>2 DEF FoldSound, FoldTyped
<1>5. SumFunction(ledger) \in Nat
  BY <1>2, AgentsAreFinite, SumLaws
<1> QED
  BY <1>1, <1>2, <1>3, <1>4, <1>5 DEF Ran, RunnerTypes, Books

(* An agent starts: it owes nothing yet.                                   *)
LEMMA AgentStartsKeeps == ASSUME Ran, AgentStarts PROVE Ran'
<1>1. /\ runner \in {"live", "draining"}
      /\ UNCHANGED <<runner, ledger, throttle, paused, stopped, acts>>
  BY DEF AgentStarts
<1>2. PICK n \in Agents \ DOMAIN told.agents : \E phase \in PhasesOf[n] :
        /\ Journal([t |-> "agent_start", n |-> n, phase |-> phase])
        /\ aborted' = IF stopped THEN aborted \cup {n} ELSE aborted
  BY DEF AgentStarts
<1>3. PICK phase \in PhasesOf[n] : Journal([t |-> "agent_start", n |-> n, phase |-> phase])
  BY <1>2
<1>4. phase \in Phases
  BY RunScreenBounds DEF Agents, Phases
<1>5. told' = Reduce(told, [t |-> "agent_start", n |-> n, phase |-> phase])
  BY <1>3 DEF Journal
<1> DEFINE a == [phase |-> phase, status |-> "running", used |-> 0]
<1>6. FoldSound(told') /\ Leaves(told, told', told.status, told.paused, With(told.agents, n, a), told.spent)
  BY <1>4, <1>5, FoldsAgentStart DEF Ran
<1>7. /\ told'.agents = With(told.agents, n, a) /\ told'.spent = told.spent
      /\ told'.status = told.status /\ told'.paused = told.paused
  BY <1>6 DEF Leaves
<1>8. /\ DOMAIN told'.agents = DOMAIN told.agents \cup {n}
      /\ \A m \in DOMAIN told.agents : told'.agents[m] = told.agents[m]
      /\ told'.agents[n].status = "running" /\ told'.agents[n].used = 0
  BY <1>7 DEF With
<1>9. n \in Running(told') /\ Running(told) = Running(told') \ {n}
  BY <1>8 DEF Running
<1>10. ledger[n] = 0 /\ ledger \in [Agents -> Nat]
  BY <1>1, RanFacts
<1>11. InFlight(ledger, told') = ledger[n] + InFlight(ledger, told)
  BY <1>6, <1>9, <1>10, InFlightIs
<1>12. SumFunction(ledger') = told'.spent + InFlight(ledger', told')
  BY <1>1, <1>7, <1>10, <1>11, RanFacts
<1>13. \A m \in Running(told') : /\ told'.agents[m].used <= ledger'[m]
                                 /\ throttle'[m] # "armed" => told'.agents[m].used = ledger'[m]
  <2> SUFFICES ASSUME NEW m \in Running(told')
               PROVE  /\ told'.agents[m].used <= ledger'[m]
                      /\ throttle'[m] # "armed" => told'.agents[m].used = ledger'[m]
    OBVIOUS
  <2>1. CASE m = n
    BY <1>1, <1>8, <1>10, <2>1
  <2>2. CASE m # n
    <3>1. m \in Running(told) /\ told'.agents[m] = told.agents[m]
      BY <1>8, <1>9, <2>2 DEF Running
    <3> QED
      BY <1>1, <3>1, RanFacts
  <2> QED
    BY <2>1, <2>2
<1>14. aborted' \subseteq Agents
  BY <1>1, <1>2, RanFacts
<1>15. \A m \in Agents \ DOMAIN told'.agents : ledger'[m] = 0
  BY <1>1, <1>8, RanFacts
<1>16. /\ acts' \in Nat /\ acts <= acts' /\ acts' <= MaxActs
       /\ throttle' \in [Agents -> {"open", "closed", "armed"}]
       /\ ledger' \in [Agents -> Nat] /\ \A m \in Agents : ledger'[m] <= acts'
  BY <1>1, RanFacts
<1>17. FoldSound(told)'
  BY <1>6
<1> HIDE DEF a
<1> QED
  BY <1>1, <1>7, <1>12, <1>13, <1>14, <1>15, <1>16, <1>17, AgentStepKeeps

(* The books of one agent change.                                          *)
LEMMA OneChanges ==
    ASSUME NEW l, l \in [Agents -> Nat], NEW n, n \in Agents, NEW v, v \in Nat,
           NEW k, Becomes(k, l, n, v)
    PROVE  SumFunction(k) + l[n] = SumFunction(l) + v /\ SumFunction(k) \in Nat
  BY AgentsAreFinite, SumChange

(* The same of an agent in flight, for those in flight.                    *)
LEMMA OneInFlight ==
    ASSUME NEW l, l \in [Agents -> Nat], NEW s, FoldSound(s), NEW n, n \in Running(s),
           NEW v, v \in Nat, NEW k, Becomes(k, l, n, v)
    PROVE  InFlight(k, s) + l[n] = InFlight(l, s) + v /\ InFlight(k, s) \in Nat
<1>1. LET e == [l EXCEPT ![n] = v]
      IN  InFlight(e, s) + l[n] = InFlight(l, s) + v /\ InFlight(e, s) \in Nat
  BY InFlightIs
<1> QED
  BY <1>1 DEF Becomes

(* onUsage(): the ledger, and a line unless the throttle holds it back.    *)
LEMMA TicksKeeps == ASSUME Ran, Ticks PROVE Ran'
<1>1. /\ runner \in {"live", "draining"} /\ Act
      /\ UNCHANGED <<runner, paused, stopped, aborted>>
  BY DEF Ticks
<1>2. PICK n \in Running(told) :
         /\ ledger' = [ledger EXCEPT ![n] = @ + 1]
         /\ throttle' = [throttle EXCEPT ![n] = IF @ = "open" THEN "closed" ELSE "armed"]
         /\ IF throttle[n] = "open" THEN Journal(Usage(n)) ELSE UNCHANGED journal
  BY DEF Ticks
<1>3. n \in Agents /\ n \in DOMAIN told.agents /\ Running(told) \in SUBSET Agents
  BY <1>1, RunningIs, RanFacts
<1> DEFINE v == ledger[n] + 1
<1>4. /\ v \in Nat /\ ledger' = [ledger EXCEPT ![n] = v] /\ ledger' \in [Agents -> Nat]
      /\ ledger'[n] = v /\ \A m \in Agents : m # n => ledger'[m] = ledger[m]
  BY <1>1, <1>2, <1>3, RanFacts
<1>5. acts' \in Nat /\ acts <= acts' /\ acts' <= MaxActs /\ \A m \in Agents : ledger'[m] <= acts'
  <2>1. acts' = acts + 1 /\ acts < MaxActs
    BY <1>1 DEF Act
  <2>2. acts \in Nat /\ MaxActs \in Nat /\ \A m \in Agents : ledger[m] \in Nat /\ ledger[m] <= acts
    BY <1>1, RanFacts
  <2>3. ASSUME NEW m \in Agents PROVE ledger'[m] <= acts'
    BY <1>4, <2>1, <2>2
  <2> QED
    BY <2>1, <2>2, <2>3
<1>6. throttle' \in [Agents -> {"open", "closed", "armed"}]
  BY <1>1, <1>2, RanFacts
<1>7. /\ FoldSound(told') /\ told'.status = told.status /\ told'.paused = told.paused
      /\ told'.spent = told.spent /\ Running(told') = Running(told)
      /\ DOMAIN told'.agents = DOMAIN told.agents
      /\ \A m \in DOMAIN told.agents : m # n => told'.agents[m] = told.agents[m]
      /\ IF throttle[n] = "open" THEN told'.agents[n].used = v ELSE told' = told
  <2>1. CASE throttle[n] = "open"
    <3>1. told' = Reduce(told, [t |-> "agent_usage", n |-> n, used |-> v])
      BY <1>2, <1>4, <2>1 DEF Journal, Usage
    <3>2. FoldSound(told') /\ Leaves(told, told', told.status, told.paused, [told.agents EXCEPT ![n].used = v], told.spent)
      BY <1>3, <1>4, <3>1, FoldsUsage DEF Ran
    <3>3. /\ DOMAIN told'.agents = DOMAIN told.agents
          /\ \A m \in DOMAIN told.agents : m # n => told'.agents[m] = told.agents[m]
          /\ told'.agents[n].status = told.agents[n].status /\ told'.agents[n].used = v
      <4>1. told'.agents = [told.agents EXCEPT ![n].used = v]
        BY <3>2 DEF Leaves
      <4>2. told.agents[n] \in [phase : Phases, status : Statuses, used : Nat]
        BY <1>3 DEF Ran, FoldSound, FoldTyped, AgentsTyped
      <4> HIDE DEF v
      <4> QED
        BY <1>3, <4>1, <4>2
    <3> QED
      BY <2>1, <3>2, <3>3 DEF Leaves, Running
  <2>2. CASE throttle[n] # "open"
    BY <1>2, <2>2 DEF journal, Ran
  <2> QED
    BY <2>1, <2>2
<1>8. \A m \in Running(told') : /\ told'.agents[m].used <= ledger'[m]
                                /\ throttle'[m] # "armed" => told'.agents[m].used = ledger'[m]
  <2> SUFFICES ASSUME NEW m \in Running(told)
               PROVE  /\ told'.agents[m].used <= ledger'[m]
                      /\ throttle'[m] # "armed" => told'.agents[m].used = ledger'[m]
    BY <1>7
  <2>1. m \in Agents /\ m \in DOMAIN told.agents /\ told.agents[m].used \in Nat
    BY <1>1, RunningIs, RanFacts
  <2>2. CASE m # n
    <3>1. throttle'[m] = throttle[m] /\ ledger'[m] = ledger[m] /\ told'.agents[m] = told.agents[m]
      BY <1>1, <1>2, <1>4, <1>7, <2>1, <2>2, RanFacts
    <3> QED
      BY <1>1, <3>1, RanFacts
  <2>3. CASE m = n /\ throttle[n] = "open"
    BY <1>4, <1>7, <2>3
  <2>4. CASE m = n /\ throttle[n] # "open"
    <3>1. throttle'[n] = "armed"
      BY <1>1, <1>2, <1>3, <2>4, RanFacts
    <3>2. told.agents[n].used <= ledger[n] /\ ledger[n] \in Nat
      BY <1>1, <1>3, RanFacts
    <3>3. told.agents[n].used <= ledger'[n]
      BY <1>4, <2>1, <2>4, <3>2
    <3> QED
      BY <1>7, <2>4, <3>1, <3>3
  <2> QED
    BY <2>2, <2>3, <2>4
<1>9. SumFunction(ledger') = told'.spent + InFlight(ledger', told')
  <2> HIDE DEF v
  <2>0. ledger \in [Agents -> Nat] /\ FoldSound(told) /\ IsFiniteSet(Agents)
    BY <1>1, AgentsAreFinite, RanFacts
  <2>9. Becomes(ledger', ledger, n, v)
    BY <1>4 DEF Becomes
  <2>5. n \in Agents /\ v \in Nat
    BY <1>3, <1>4
  <2>1. SumFunction(ledger') + ledger[n] = SumFunction(ledger) + v /\ SumFunction(ledger') \in Nat
    BY ONLY <2>0, <2>5, <2>9, OneChanges
  <2>2. InFlight(ledger', told) + ledger[n] = InFlight(ledger, told) + v /\ InFlight(ledger', told) \in Nat
    BY <1>2, <1>4, <2>0, <2>9, OneInFlight
  <2>3. InFlight(ledger', told') = InFlight(ledger', told)
    BY <1>7 DEF InFlight
  <2>4. ledger[n] \in Nat
    BY <1>1, <1>3, RanFacts
  <2> QED
    BY <1>1, <1>4, <1>7, <2>1, <2>2, <2>3, <2>4, RanFacts
<1>10. aborted' \subseteq Agents
  BY <1>1, RanFacts
<1>11. \A m \in Agents \ DOMAIN told'.agents : ledger'[m] = 0
  BY <1>1, <1>3, <1>4, <1>7, RanFacts
<1> QED
  BY <1>1, <1>4, <1>5, <1>6, <1>7, <1>8, <1>9, <1>10, <1>11, AgentStepKeeps

(* A usage line of an agent in flight.                                     *)
LEMMA UsageTold ==
    ASSUME Ran, NEW n \in Running(told), NEW u \in Nat,
           told' = Reduce(told, [t |-> "agent_usage", n |-> n, used |-> u])
    PROVE  /\ FoldSound(told') /\ told'.status = told.status /\ told'.paused = told.paused
           /\ told'.spent = told.spent /\ Running(told') = Running(told)
           /\ DOMAIN told'.agents = DOMAIN told.agents
           /\ \A m \in DOMAIN told.agents : m # n => told'.agents[m] = told.agents[m]
           /\ told'.agents[n].used = u
<1>1. n \in DOMAIN told.agents
  BY DEF Running
<1>2. FoldSound(told') /\ Leaves(told, told', told.status, told.paused, [told.agents EXCEPT ![n].used = u], told.spent)
  BY <1>1, FoldsUsage DEF Ran
<1>3. told'.agents = [told.agents EXCEPT ![n].used = u]
  BY <1>2 DEF Leaves
<1>4. told.agents[n] \in [phase : Phases, status : Statuses, used : Nat]
  BY <1>1 DEF Ran, FoldSound, FoldTyped, AgentsTyped
<1>5. /\ DOMAIN told'.agents = DOMAIN told.agents
      /\ \A m \in DOMAIN told.agents : m # n => told'.agents[m] = told.agents[m]
      /\ told'.agents[n].status = told.agents[n].status /\ told'.agents[n].used = u
  BY <1>1, <1>3, <1>4
<1>6. Running(told') = Running(told)
  BY <1>5 DEF Running
<1> QED
  BY <1>2, <1>5, <1>6 DEF Leaves

(* The throttle of an agent opens, and what it holds back is told.         *)
LEMMA IntervalEndsKeeps == ASSUME Ran, IntervalEnds PROVE Ran'
<1>1. runner \in {"live", "draining"} /\ UNCHANGED <<runner, paused, stopped, aborted, acts>>
  BY DEF IntervalEnds
<1>2. PICK n \in Running(told) :
         \/ /\ throttle[n] = "closed" /\ throttle' = [throttle EXCEPT ![n] = "open"]
            /\ UNCHANGED <<ledger, journal>>
         \/ /\ throttle[n] = "armed" /\ throttle' = [throttle EXCEPT ![n] = "closed"]
            /\ UNCHANGED ledger /\ Journal(Usage(n))
  BY DEF IntervalEnds
<1>3. n \in Agents /\ n \in DOMAIN told.agents /\ ledger[n] \in Nat /\ ledger' = ledger
  BY <1>1, <1>2, RunningIs, RanFacts
<1>4. /\ throttle' \in [Agents -> {"open", "closed", "armed"}] /\ throttle'[n] # "armed"
      /\ \A m \in Agents : m # n => throttle'[m] = throttle[m]
  BY <1>1, <1>2, <1>3, RanFacts
<1>5. /\ FoldSound(told') /\ told'.status = told.status /\ told'.paused = told.paused
      /\ told'.spent = told.spent /\ Running(told') = Running(told)
      /\ DOMAIN told'.agents = DOMAIN told.agents
      /\ \A m \in DOMAIN told.agents : m # n => told'.agents[m] = told.agents[m]
      /\ told'.agents[n].used = ledger[n]
  <2>1. CASE throttle[n] = "closed"
    <3>1. told' = told
      BY <1>2, <2>1 DEF journal
    <3>2. told.agents[n].used = ledger[n]
      BY <1>1, <2>1, RanFacts
    <3> QED
      BY <1>1, <3>1, <3>2, RanFacts
  <2>2. CASE throttle[n] = "armed"
    <3>1. told' = Reduce(told, [t |-> "agent_usage", n |-> n, used |-> ledger[n]])
      BY <1>2, <1>3, <2>2 DEF Journal, Usage
    <3> QED
      BY <1>3, <3>1, UsageTold
  <2> QED
    BY <1>2, <2>1, <2>2
<1>6. \A m \in Running(told') : /\ told'.agents[m].used <= ledger'[m]
                                /\ throttle'[m] # "armed" => told'.agents[m].used = ledger'[m]
  <2> SUFFICES ASSUME NEW m \in Running(told)
               PROVE  /\ told'.agents[m].used <= ledger'[m]
                      /\ throttle'[m] # "armed" => told'.agents[m].used = ledger'[m]
    BY <1>5
  <2>1. m \in Agents /\ m \in DOMAIN told.agents
    BY <1>1, RunningIs, RanFacts
  <2>2. CASE m = n
    BY <1>3, <1>5, <2>2
  <2>3. CASE m # n
    <3>1. throttle'[m] = throttle[m] /\ ledger'[m] = ledger[m] /\ told'.agents[m] = told.agents[m]
      BY <1>3, <1>4, <1>5, <2>1, <2>3
    <3> QED
      BY <1>1, <3>1, RanFacts
  <2> QED
    BY <2>2, <2>3
<1>7. SumFunction(ledger') = told'.spent + InFlight(ledger', told')
  <2>1. InFlight(ledger', told') = InFlight(ledger, told)
    BY <1>3, <1>5 DEF InFlight
  <2> QED
    BY <1>1, <1>3, <1>5, <2>1, RanFacts
<1>8. /\ aborted' \subseteq Agents /\ ledger' \in [Agents -> Nat]
      /\ \A m \in Agents \ DOMAIN told'.agents : ledger'[m] = 0
  BY <1>1, <1>3, <1>5, RanFacts
<1>9. acts' \in Nat /\ acts <= acts' /\ acts' <= MaxActs /\ \A m \in Agents : ledger'[m] <= acts'
  BY <1>1, <1>3, RanFacts
<1> QED
  BY <1>1, <1>4, <1>5, <1>6, <1>7, <1>8, <1>9, AgentStepKeeps

(* end(): what the agent used moves from what is in flight to the total.   *)
LEMMA AgentEndsKeeps == ASSUME Ran, AgentEnds PROVE Ran'
<1>1. runner \in {"live", "draining"} /\ UNCHANGED <<runner, paused, stopped>>
  BY DEF AgentEnds
<1>2. PICK n \in Running(told), used \in 0..MaxActs :
         /\ \/ used <= ledger[n] /\ UNCHANGED acts
            \/ used = ledger[n] + 1 /\ Act
         /\ \E status \in IF n \in aborted THEN {"skipped"} ELSE {"ok", "failed"} :
              Journal([t |-> "agent_end", n |-> n, status |-> status, used |-> used])
         /\ ledger' = [ledger EXCEPT ![n] = used]
         /\ throttle' = [throttle EXCEPT ![n] = "open"]
         /\ aborted' = aborted \ {n}
  BY DEF AgentEnds
<1>3. n \in Agents /\ n \in DOMAIN told.agents /\ ledger[n] \in Nat /\ used \in Nat /\ MaxActs \in Nat
  BY <1>1, <1>2, RunningIs, RanFacts
<1>4. PICK status \in {"skipped", "ok", "failed"} :
         told' = Reduce(told, [t |-> "agent_end", n |-> n, status |-> status, used |-> used])
  BY <1>2 DEF Journal
<1> DEFINE ended == [told.agents EXCEPT ![n].status = status, ![n].used = used]
<1>5. FoldSound(told') /\ Leaves(told, told', told.status, told.paused, ended, told.spent + used)
  <2>1. status \in Statuses /\ FoldSound(told)
    BY DEF Statuses, Ran
  <2> QED
    BY <1>3, <1>4, <2>1, FoldsAgentEnd
<1>6. /\ told'.agents = ended /\ told'.spent = told.spent + used
      /\ told'.status = told.status /\ told'.paused = told.paused
  BY <1>5 DEF Leaves
<1>7. /\ DOMAIN told'.agents = DOMAIN told.agents /\ told'.agents[n].status = status
      /\ \A m \in DOMAIN told.agents : m # n => told'.agents[m] = told.agents[m]
  <2>1. told.agents[n] \in [phase : Phases, status : Statuses, used : Nat]
    BY <1>3 DEF Ran, FoldSound, FoldTyped, AgentsTyped
  <2> QED
    BY <1>3, <1>6, <2>1
<1>8. Running(told') = Running(told) \ {n}
  BY <1>7 DEF Running
<1>9. /\ ledger' \in [Agents -> Nat] /\ throttle' \in [Agents -> {"open", "closed", "armed"}]
      /\ \A m \in Agents : m # n => ledger'[m] = ledger[m] /\ throttle'[m] = throttle[m]
      /\ ledger'[n] = used /\ Becomes(ledger', ledger, n, used)
  BY <1>1, <1>2, <1>3, RanFacts DEF Becomes
<1>10. acts' \in Nat /\ acts <= acts' /\ acts' <= MaxActs /\ \A m \in Agents : ledger'[m] <= acts'
  <2>1. /\ acts \in Nat /\ acts <= MaxActs
        /\ \A m \in Agents : ledger[m] \in Nat /\ ledger[m] <= acts
    BY <1>1, RanFacts
  <2>2. acts' \in Nat /\ acts <= acts' /\ acts' <= MaxActs /\ used <= acts'
    BY <1>2, <1>3, <2>1 DEF Act
  <2>3. ASSUME NEW m \in Agents PROVE ledger'[m] <= acts'
    <3>1. ledger[m] \in Nat /\ ledger[m] <= acts
      BY <2>1
    <3>2. CASE m = n
      BY <1>9, <2>2, <3>2
    <3>3. CASE m # n
      BY <1>9, <2>1, <2>2, <3>1, <3>3
    <3> QED
      BY <3>2, <3>3
  <2> QED
    BY <2>2, <2>3
<1>11. \A m \in Running(told') : /\ told'.agents[m].used <= ledger'[m]
                                 /\ throttle'[m] # "armed" => told'.agents[m].used = ledger'[m]
  <2> SUFFICES ASSUME NEW m \in Running(told), m # n
               PROVE  /\ told'.agents[m].used <= ledger'[m]
                      /\ throttle'[m] # "armed" => told'.agents[m].used = ledger'[m]
    BY <1>8
  <2>1. m \in Agents /\ m \in DOMAIN told.agents
    BY <1>1, RunningIs, RanFacts
  <2>2. throttle'[m] = throttle[m] /\ ledger'[m] = ledger[m] /\ told'.agents[m] = told.agents[m]
    BY <1>7, <1>9, <2>1
  <2> QED
    BY <1>1, <2>2, RanFacts
<1>12. SumFunction(ledger') = told'.spent + InFlight(ledger', told')
  <2>0. ledger \in [Agents -> Nat] /\ FoldSound(told)
    BY <1>1, RanFacts
  <2>1. SumFunction(ledger') + ledger[n] = SumFunction(ledger) + used /\ SumFunction(ledger') \in Nat
    BY ONLY <2>0, <1>3, <1>9, OneChanges
  <2>2. InFlight(ledger, told) = ledger[n] + InFlight(ledger, told')
    <3>1. n \in Running(told) /\ Running(told') = Running(told) \ {n}
      BY <1>2, <1>8
    <3>2. \A r, m : m \in Running(told) /\ Running(r) = Running(told) \ {m} =>
                     InFlight(ledger, told) = ledger[m] + InFlight(ledger, r)
      BY ONLY <2>0, InFlightIs
    <3> QED
      BY ONLY <3>1, <3>2, Zenon
  <2>3. InFlight(ledger, told') \in Nat
    BY <1>5, <2>0, InFlightIs
  <2>4. InFlight(ledger', told') = InFlight(ledger, told')
    <3>1. \A m \in Running(told') : ledger'[m] = ledger[m]
      BY <1>1, <1>8, <1>9, RunningIs, RanFacts
    <3> QED
      BY <3>1 DEF InFlight
  <2>5. /\ SumFunction(ledger) = told.spent + InFlight(ledger, told)
        /\ told.spent \in Nat /\ SumFunction(ledger) \in Nat
    BY <1>1, RanFacts
  <2>6. told'.spent = told.spent + used /\ ledger[n] \in Nat /\ used \in Nat
    BY <1>3, <1>6
  <2> QED
    BY ONLY <2>1, <2>2, <2>3, <2>4, <2>5, <2>6
<1>13. aborted' \subseteq Agents /\ \A m \in Agents \ DOMAIN told'.agents : ledger'[m] = 0
  BY <1>1, <1>2, <1>3, <1>7, <1>9, RanFacts
<1> HIDE DEF ended
<1> QED
  BY <1>1, <1>5, <1>6, <1>9, <1>10, <1>11, <1>12, <1>13, AgentStepKeeps

(* The runner and its books, by every step of the run screen.              *)
LEMMA RanSteps == ASSUME Ran, RunScreenNext PROVE Ran'
<1>1. CASE RunStart \/ LoadFails \/ WritePid \/ BodyTells \/ RunEnd \/ Exit \/ Crash \/ PidTaken
  BY <1>1, RunStartKeeps, LoadFailsKeeps, BodyTellsKeeps, RunEndKeeps, ComesAndGoes
<1>2. CASE AgentStarts \/ Ticks \/ IntervalEnds \/ AgentEnds
  BY <1>2, AgentStartsKeeps, TicksKeeps, IntervalEndsKeeps, AgentEndsKeeps
<1>3. CASE Obey \/ Teardown
  BY <1>3, ObeyKeeps, TeardownKeeps
<1>4. CASE OpenScreen \/ Flush \/ CheckRunner \/ GracePasses
  <2>1. UNCHANGED ranVars /\ acts' = acts
    BY <1>4 DEF OpenScreen, Flush, CheckRunner, GracePasses, ranVars, runVar, calls, journal
  <2> QED
    BY <2>1, RunnerRests
<1>5. CASE KeyNext
  <2>1. UNCHANGED ranVars /\ Act
    BY <1>5 DEF KeyNext, MoveKey, TabKey, LookKey, PauseKey, AskKey, AnswerKey, BackKey,
               ranVars, runVar, calls, journal
  <2> QED
    BY <2>1, RunnerRests
<1> QED
  BY <1>1, <1>2, <1>3, <1>4, <1>5 DEF RunScreenNext, RunnerNext

(* The steps that neither send nor obey.                                   *)
LEMMA ToggleRests ==
    ASSUME LastToggle, UNCHANGED <<control, toggled, paused>>,
           stopped' = stopped \/ stopped' = TRUE
    PROVE  LastToggle'
BY DEF LastToggle

(* A toggle of the line read is obeyed, if it was not in effect.           *)
LEMMA ObeyTells ==
    ASSUME Ran, Obey, ~stopped'
    PROVE  /\ Head(control).cmd = "pause" => paused' = TRUE
           /\ Head(control).cmd = "resume" => paused' = FALSE
           /\ Head(control).cmd \notin Toggles => paused' = paused
           /\ ~stopped
<1>1. paused \in BOOLEAN /\ stopped \in BOOLEAN
  BY DEF Ran, RunnerTypes
<1>2. ~stopped
  BY <1>1 DEF Obey, StopAll
<1> QED
  BY <1>1, <1>2 DEF Obey, StopAll, Toggles

(* The runner obeys the first command that waits for it.                   *)
LEMMA ObeyToggles == ASSUME Ran, LastToggle, Obey PROVE LastToggle'
<1>1. control \in Seq(Commands) /\ control # << >> /\ control' = Tail(control) /\ toggled' = toggled
  BY DEF Obey, LastToggle
<1>2. /\ control' \in Seq(Commands) /\ Len(control') = Len(control) - 1
      /\ \A i \in 1..Len(control') : control'[i] = control[i + 1] /\ i + 1 \in 1..Len(control)
      /\ Len(control) \in Nat /\ Head(control) = control[1] /\ 1 \in 1..Len(control)
  BY <1>1
<1>3. ASSUME toggled # "none", ~stopped'
      PROVE  \/ \E i \in 1..Len(control') :
                  /\ control'[i].cmd = toggled
                  /\ \A j \in 1..Len(control') : j > i => control'[j].cmd \notin Toggles
             \/ /\ \A j \in 1..Len(control') : control'[j].cmd \notin Toggles
                /\ paused' = (toggled = "pause")
  <2>1. /\ Head(control).cmd = "pause" => paused' = TRUE
        /\ Head(control).cmd = "resume" => paused' = FALSE
        /\ Head(control).cmd \notin Toggles => paused' = paused
        /\ ~stopped
    BY <1>3, ObeyTells
  <2>2. CASE \E i \in 1..Len(control) :
               /\ control[i].cmd = toggled
               /\ \A j \in 1..Len(control) : j > i => control[j].cmd \notin Toggles
    <3>1. PICK i \in 1..Len(control) :
             /\ control[i].cmd = toggled
             /\ \A j \in 1..Len(control) : j > i => control[j].cmd \notin Toggles
      BY <2>2
    <3>2. CASE i = 1
      <4>1. \A j \in 1..Len(control') : control'[j].cmd \notin Toggles
        BY <1>2, <3>1, <3>2
      <4>2. Head(control).cmd = toggled /\ toggled \in Toggles
        BY <1>2, <1>3, <3>1, <3>2 DEF LastToggle
      <4> QED
        BY <2>1, <4>1, <4>2 DEF Toggles
    <3>3. CASE i # 1
      <4> DEFINE k == i - 1
      <4>1. k \in 1..Len(control') /\ control'[k].cmd = toggled
        BY <1>2, <3>1, <3>3
      <4>2. \A j \in 1..Len(control') : j > k => control'[j].cmd \notin Toggles
        BY <1>2, <3>1
      <4> QED
        BY <4>1, <4>2
    <3> QED
      BY <3>2, <3>3
  <2>3. CASE /\ \A j \in 1..Len(control) : control[j].cmd \notin Toggles
             /\ paused = (toggled = "pause")
    BY <1>2, <2>1, <2>3
  <2> QED
    BY <1>3, <2>1, <2>2, <2>3 DEF LastToggle
<1> QED
  BY <1>1, <1>2, <1>3 DEF LastToggle

(* A line is sent: a toggle is the last of the toggles now.                *)
LEMMA SendToggles ==
    ASSUME LastToggle, UNCHANGED <<stopped, paused>>, NEW line \in Commands, Send(line),
           \/ line.cmd \in Toggles /\ toggled' = line.cmd
           \/ line.cmd \notin Toggles /\ toggled' = toggled
    PROVE  LastToggle'
<1>1. control \in Seq(Commands) /\ control' = Append(control, line)
  BY DEF LastToggle, Send
<1>2. /\ control' \in Seq(Commands) /\ Len(control') = Len(control) + 1 /\ Len(control) \in Nat
      /\ \A i \in 1..Len(control) : control'[i] = control[i] /\ i \in 1..Len(control')
      /\ control'[Len(control) + 1] = line
  BY <1>1
<1>3. CASE line.cmd \in Toggles /\ toggled' = line.cmd
  <2> DEFINE k == Len(control) + 1
  <2>1. k \in 1..Len(control') /\ control'[k].cmd = toggled'
    BY <1>2, <1>3
  <2>2. \A j \in 1..Len(control') : ~(j > k)
    BY <1>2
  <2> QED
    BY <1>2, <1>3, <2>1, <2>2 DEF LastToggle
<1>4. CASE line.cmd \notin Toggles /\ toggled' = toggled
  <2>1. \A j \in 1..Len(control') : j \in 1..Len(control) \/ control'[j].cmd \notin Toggles
    BY <1>2, <1>4
  <2>2. CASE \E i \in 1..Len(control) :
               /\ control[i].cmd = toggled
               /\ \A j \in 1..Len(control) : j > i => control[j].cmd \notin Toggles
    <3>1. PICK i \in 1..Len(control) :
             /\ control[i].cmd = toggled
             /\ \A j \in 1..Len(control) : j > i => control[j].cmd \notin Toggles
      BY <2>2
    <3>2. i \in 1..Len(control') /\ control'[i].cmd = toggled'
      BY <1>2, <1>4, <3>1
    <3>3. \A j \in 1..Len(control') : j > i => control'[j].cmd \notin Toggles
      BY <1>2, <2>1, <3>1
    <3> QED
      BY <1>2, <1>4, <3>2, <3>3 DEF LastToggle
  <2>3. CASE /\ \A j \in 1..Len(control) : control[j].cmd \notin Toggles
             /\ paused = (toggled = "pause")
    <3>1. \A j \in 1..Len(control') : control'[j].cmd \notin Toggles
      BY <1>2, <2>1, <2>3
    <3> QED
      BY <1>2, <1>4, <2>3, <3>1 DEF LastToggle
  <2>4. CASE ~(toggled # "none" /\ ~stopped)
    BY <1>2, <1>4, <2>4 DEF LastToggle
  <2> QED
    BY <2>2, <2>3, <2>4 DEF LastToggle
<1> QED
  BY <1>3, <1>4

(* Of the keys that pause and resume the last counts, by every step.       *)
LEMMA ToggleSteps == ASSUME Ran, Screened, LastToggle, RunScreenNext PROVE LastToggle'
<1>1. CASE Obey
  BY <1>1, ObeyToggles
<1>2. CASE PauseKey
  <2> DEFINE line == [cmd |-> IF shown.paused THEN "resume" ELSE "pause"]
  <2>1. Send(line) /\ toggled' = line.cmd /\ UNCHANGED <<stopped, paused>>
    BY <1>2 DEF PauseKey, runVar
  <2>2. line \in Commands /\ line.cmd \in Toggles
    BY DEF Commands, Toggles
  <2> HIDE DEF line
  <2> QED
    BY <2>1, <2>2, SendToggles
<1>3. CASE AnswerKey
  <2>1. toggled' = toggled /\ UNCHANGED <<stopped, paused>>
    BY <1>3 DEF AnswerKey, runVar
  <2>2. CASE UNCHANGED control
    BY <2>1, <2>2, ToggleRests
  <2>3. CASE Send([cmd |-> "stop"])
    <3>1. [cmd |-> "stop"] \in Commands /\ [cmd |-> "stop"].cmd \notin Toggles
      BY DEF Commands, Toggles
    <3> QED
      BY <2>1, <2>3, <3>1, SendToggles
  <2>4. CASE Send([cmd |-> "skip", n |-> aim])
    <3>1. [cmd |-> "skip", n |-> aim] \in Commands /\ [cmd |-> "skip", n |-> aim].cmd \notin Toggles
      BY DEF Commands, Toggles, Screened
    <3> QED
      BY <2>1, <2>4, <3>1, SendToggles
  <2> QED
    BY <1>3, <2>2, <2>3, <2>4 DEF AnswerKey
<1>4. CASE RunnerNext /\ ~Obey
  <2>1. UNCHANGED <<control, toggled, paused>> /\ (stopped' = stopped \/ stopped' = TRUE)
    BY <1>4 DEF RunnerNext, RunStart, LoadFails, WritePid, BodyTells, AgentStarts, Ticks, IntervalEnds,
                AgentEnds, Teardown, StopAll, RunEnd, Exit, Crash, PidTaken, runVar, sent
  <2> QED
    BY <2>1, ToggleRests
<1>5. CASE OpenScreen \/ Flush \/ CheckRunner \/ GracePasses \/ (KeyNext /\ ~PauseKey /\ ~AnswerKey)
  <2>1. UNCHANGED <<control, toggled, paused, stopped>>
    BY <1>5 DEF OpenScreen, Flush, CheckRunner, GracePasses, KeyNext, MoveKey, TabKey, LookKey, AskKey,
                BackKey, runVar, sent
  <2> QED
    BY <2>1, ToggleRests
<1> QED
  BY <1>1, <1>2, <1>3, <1>4, <1>5 DEF RunScreenNext, KeyNext

(* The phases of a sound state are a sequence.                             *)
LEMMA PhasesAreListed ==
    ASSUME NEW s, FoldSound(s)
    PROVE  Len(s.phases) \in Nat /\ DOMAIN s.phases = 1..Len(s.phases)
<1>1. PhaseTitles(s) \in Seq(Titles) /\ DOMAIN PhaseTitles(s) = DOMAIN s.phases
  BY DEF FoldSound, Titled, PhaseTitles
<1> DEFINE k == Len(PhaseTitles(s))
<1>2. k \in Nat /\ DOMAIN s.phases = 1..k
  BY <1>1
<1>3. s.phases = [i \in 1..k |-> s.phases[i]]
  <2>1. s.phases = ComputePhases(PhaseTitles(s), s.agents) /\ AgentsTyped(s.agents)
    BY DEF FoldSound, FoldTyped
  <2>2. s.phases = [i \in DOMAIN s.phases |-> s.phases[i]]
    BY <2>1, PhasesCount
  <2> QED
    BY <1>2, <2>2
<1> HIDE DEF k
<1>4. Len(s.phases) = k
  BY <1>2, <1>3
<1> QED
  BY <1>2, <1>4

(* What is listed, and what can be selected: agents, none of them twice.   *)
LEMMA SelectableIs ==
    ASSUME FoldSound(shown)
    PROVE  /\ Len(Selectable) \in 0..AgentCount /\ Selectable \in Seq(Agents)
           /\ \A i \in 1..Len(Selectable) : Selectable[i] \in DOMAIN shown.agents
           /\ Len(Visible) \in 0..AgentCount
           /\ Tier # "aggregate" => Selectable = Visible
           /\ PhaseSel \in 0..Len(shown.phases) \/ tab \notin Int
<1> DEFINE phase == IF PhaseSel = 0 THEN NoPhase ELSE shown.phases[PhaseSel].title
           V == {n \in DOMAIN shown.agents : PhaseSel = 0 \/ shown.agents[n].phase = phase}
           W == {n \in Range(Visible) : shown.agents[n].status \in {"running", "failed"}}
<1>1. DOMAIN shown.agents \in SUBSET Agents
  BY DEF FoldSound, FoldTyped, AgentsTyped
<1>2. Visible = InOrder(V)
  BY DEF Visible, AgentsUnder
<1>3. V \in SUBSET Agents /\ V \in SUBSET DOMAIN shown.agents
  BY <1>1
<1> HIDE DEF V
<1>4. IsFiniteSet(V) /\ Cardinality(V) \in 0..AgentCount /\ V \in SUBSET Nat
  BY <1>3, AgentsAreFinite
<1>5. /\ Visible \in Seq(V) /\ Len(Visible) = Cardinality(V) /\ DOMAIN Visible = 1..Cardinality(V)
      /\ \A i \in DOMAIN Visible : Visible[i] \in V
  BY <1>2, <1>4, InOrderIs
<1>6. W \in SUBSET V
  BY <1>5 DEF Range
<1>7. IsFiniteSet(W) /\ Cardinality(W) \in 0..AgentCount /\ W \in SUBSET Nat
  <2> HIDE DEF W
  <2>1. W \in SUBSET Agents
    BY <1>3, <1>6
  <2> QED
    BY <2>1, AgentsAreFinite
<1>8. Selectable = IF Tier = "aggregate" THEN InOrder(W) ELSE Visible
  BY DEF Selectable
<1> HIDE DEF W
<1>11. PhaseSel \in 0..Len(shown.phases) \/ tab \notin Int
  <2>1. Len(shown.phases) \in Nat
    BY PhasesAreListed
  <2> QED
    BY <2>1 DEF PhaseSel, ClampPhaseFilter
<1>9. CASE Tier = "aggregate"
  <2>1. Selectable = InOrder(W)
    BY <1>8, <1>9
  <2>2. /\ Selectable \in Seq(W) /\ Len(Selectable) = Cardinality(W)
        /\ DOMAIN Selectable = 1..Cardinality(W)
        /\ \A i \in DOMAIN Selectable : Selectable[i] \in W
    BY <1>7, <2>1, InOrderIs
  <2>3. Len(Selectable) \in 0..AgentCount /\ DOMAIN Selectable = 1..Len(Selectable)
    BY <1>7, <2>2
  <2>4. W \in SUBSET DOMAIN shown.agents /\ W \in SUBSET Agents
    BY <1>3, <1>6
  <2>5. \A i \in 1..Len(Selectable) : Selectable[i] \in DOMAIN shown.agents
    BY <2>2, <2>3, <2>4
  <2>6. Selectable \in Seq(Agents)
    BY <2>2, <2>4
  <2>7. Len(Visible) \in 0..AgentCount
    BY <1>4, <1>5
  <2> QED
    BY <1>9, <1>11, <2>3, <2>5, <2>6, <2>7
<1>10. CASE Tier # "aggregate"
  <2>1. Selectable = Visible
    BY <1>8, <1>10
  <2> QED
    BY <1>3, <1>4, <1>5, <1>10, <1>11, <2>1
<1> QED
  BY <1>9, <1>10

(* What is selected is one of the rows of the screen.                      *)
LEMMA SelIs ==
    ASSUME Screened
    PROVE  /\ Sel \in 0..AgentCount
           /\ HasSelected => Selected \in Agents /\ Sel < Len(Selectable)
           /\ Len(Selectable) > 0 => HasSelected
<1>1. /\ Len(Selectable) \in Nat /\ Len(Selectable) <= AgentCount /\ Selectable \in Seq(Agents)
      /\ AgentCount \in Nat /\ sel \in 0..AgentCount
  BY SelectableIs, AgentsAreFinite DEF Screened
<1>2. Sel \in 0..AgentCount /\ (Len(Selectable) > 0 => Sel < Len(Selectable))
  BY <1>1 DEF Sel, AtMost, AtLeast
<1>3. HasSelected => Selected \in Agents /\ Sel < Len(Selectable)
  <2> SUFFICES ASSUME HasSelected PROVE Selected \in Agents /\ Sel < Len(Selectable)
    OBVIOUS
  <2>1. Sel < Len(Selectable)
    BY DEF HasSelected
  <2>2. Sel + 1 \in 1..Len(Selectable)
    BY <1>1, <1>2, <2>1
  <2> QED
    BY <1>1, <2>1, <2>2 DEF Selected
<1> QED
  BY <1>2, <1>3 DEF HasSelected

(* The screen's variables under the runner's steps.                        *)
LEMMA ScreenRests ==
    ASSUME Screened, UNCHANGED <<mode, aim, sel, tab>>, FoldSound(shown)'
    PROVE  Screened'
BY DEF Screened

(* What the screen shows stays well-formed, by every step.                 *)
LEMMA ScreenSteps == ASSUME Ran, Screened, RunScreenNext PROVE Screened'
<1>1. CASE RunnerNext
  <2>1. UNCHANGED <<shown, mode, aim, sel, tab>>
    BY <1>1 DEF RunnerNext, RunStart, LoadFails, WritePid, BodyTells, AgentStarts, Ticks, IntervalEnds,
                AgentEnds, Obey, Teardown, RunEnd, Exit, Crash, PidTaken, screen, keys
  <2> QED
    BY <2>1, ScreenRests DEF Screened
<1>2. CASE OpenScreen
  <2>1. mode' = "main" /\ shown' = told /\ UNCHANGED <<aim, sel, tab>>
    BY <1>2 DEF OpenScreen
  <2> QED
    BY <2>1 DEF Screened, Ran
<1>3. CASE Flush \/ CheckRunner \/ GracePasses
  <2>1. shown' \in {told, shown} /\ UNCHANGED <<mode, aim, sel, tab>>
    BY <1>3 DEF Flush, CheckRunner, GracePasses, keys
  <2> QED
    BY <2>1 DEF Screened, Ran
<1>4. AgentCount \in Nat /\ 0 \in 0..AgentCount
  BY AgentsAreFinite
<1>5. CASE MoveKey
  <2>1. UNCHANGED <<shown, mode, aim, tab>>
    BY <1>5 DEF MoveKey
  <2>2. sel' \in 0..AgentCount
    <3>1. Len(Selectable) \in 0..AgentCount /\ Sel \in 0..AgentCount
      BY SelIs, SelectableIs DEF Screened
    <3> HIDE DEF Screened
    <3>2. sel' = AtLeast(0, Sel - 1) \/ sel' = AtMost(AtLeast(0, Len(Selectable) - 1), Sel + 1)
      BY <1>5 DEF MoveKey
    <3> QED
      BY <1>4, <3>1, <3>2 DEF AtLeast, AtMost
  <2> QED
    BY <2>1, <2>2 DEF Screened
<1>6. CASE TabKey
  <2>1. UNCHANGED <<shown, mode, aim>> /\ sel' = Sel
    BY <1>6 DEF TabKey
  <2>2. sel' \in 0..AgentCount
    BY <2>1, SelIs
  <2>3. tab' \in Nat
    <3>1. PhaseSel \in 0..Len(shown.phases) /\ Len(shown.phases) \in Nat
      BY SelectableIs, PhasesAreListed DEF Screened
    <3>2. PICK way \in {-1, 1} : tab' = ClampPhaseFilter(PhaseSel + way, Len(shown.phases))
      BY <1>6 DEF TabKey
    <3> QED
      BY <3>1, <3>2 DEF ClampPhaseFilter
  <2> QED
    BY <2>1, <2>2, <2>3 DEF Screened
<1>7. CASE LookKey \/ PauseKey
  <2>1. UNCHANGED <<shown, aim, sel, tab>> /\ mode' \in {mode, "over"}
    BY <1>7 DEF LookKey, PauseKey
  <2> QED
    BY <2>1 DEF Screened
<1>8. CASE AskKey
  <2>1. UNCHANGED <<shown, sel, tab>> /\ mode' \in {"stop", "skip"}
    BY <1>8 DEF AskKey
  <2>2. aim' \in 0..AgentCount
    <3>1. aim' = aim \/ (HasSelected /\ aim' = Selected)
      BY <1>8 DEF AskKey
    <3>2. \A n \in Agents : n \in 0..AgentCount
      BY <1>4 DEF Agents
    <3> QED
      BY <3>1, <3>2, SelIs DEF Screened
  <2> QED
    BY <2>1, <2>2 DEF Screened
<1>9. CASE AnswerKey
  <2>1. UNCHANGED <<shown, sel, tab>> /\ mode' = "main" /\ aim' = 0
    BY <1>9 DEF AnswerKey
  <2> QED
    BY <1>4, <2>1 DEF Screened
<1>10. CASE BackKey
  <2>1. /\ aim' = 0 /\ mode' \in {"away", "main"} /\ shown' \in {shown, InitialState}
        /\ sel' \in {sel, 0} /\ tab' \in {tab, 0}
    BY <1>10 DEF BackKey
  <2>2. FoldSound(shown')
    BY <2>1, FoldStarts DEF Screened
  <2> QED
    BY <1>4, <2>1, <2>2 DEF Screened
<1> QED
  BY <1>1, <1>2, <1>3, <1>5, <1>6, <1>7, <1>8, <1>9, <1>10 DEF RunScreenNext, KeyNext

(* The invariant of the run screen holds at the start.                     *)
LEMMA RunStarts == ASSUME RunInit PROVE RunStrong
<1>1. AgentCount \in Nat /\ MaxActs \in Nat /\ IsFiniteSet(Agents)
  BY RunScreenBounds, AgentsAreFinite
<1>2. FoldSound(told) /\ FoldSound(shown) /\ told.status = "running" /\ told.paused = FALSE
      /\ told.spent = 0 /\ DOMAIN told.agents = {} /\ Running(told) = {}
  BY FoldStarts DEF RunInit, InitialState, NoAgents, Running
<1>3. RunnerTypes
  <2>1. ledger = [n \in Agents |-> 0] /\ throttle = [n \in Agents |-> "open"]
    BY DEF RunInit
  <2>2. ledger \in [Agents -> Nat] /\ throttle \in [Agents -> {"open", "closed", "armed"}]
    BY <2>1
  <2>3. \A n \in Agents : ledger[n] <= 0
    BY <2>1
  <2>4. runner = "boot" /\ acts = 0 /\ aborted = {} /\ paused = FALSE /\ stopped = FALSE
    BY DEF RunInit
  <2>5. told.paused = paused /\ 0 \in Nat /\ 0 <= MaxActs
    <3>1. told.paused = FALSE
      BY <1>2
    <3>2. told.paused = paused
      BY <2>4, <3>1, Zenon
    <3> QED
      BY <1>1, <3>2
  <2>6. \A n \in Agents : ledger[n] <= acts
    BY <2>3, <2>4
  <2>7. aborted \subseteq Agents
    BY <2>4
  <2> QED
    BY <2>2, <2>4, <2>5, <2>6, <2>7 DEF RunnerTypes
<1>4. StatusTells
  BY <1>2 DEF StatusTells
<1>5. SumFunction(ledger) = 0
  BY <1>1, SumOfZeros DEF RunInit
<1>6. InFlight(ledger, told) = 0
  <2> DEFINE f == [n \in Running(told) |-> ledger[n]]
  <2>1. f \in [{} -> Nat] /\ IsFiniteSet({})
    BY <1>2, FS_EmptySet
  <2> HIDE DEF f
  <2>2. SumFunction(f) = 0
    BY <2>1, SumLaws
  <2> QED
    BY <2>2 DEF f, InFlight
<1>7. Books
  BY <1>2, <1>5, <1>6 DEF RunInit, Books
<1>8. LastToggle
  BY DEF RunInit, LastToggle
<1>9. Screened
  BY <1>1, <1>2 DEF RunInit, Screened
<1> QED
  BY <1>2, <1>3, <1>4, <1>7, <1>8, <1>9 DEF RunStrong, Ran

(* The route, and the other view's steps.                                  *)
LEMMA RunSteps == ASSUME RunStrong, [TuiNext]_tuiVars PROVE RunStrong'
<1>1. CASE OfRun(RunScreenNext)
  BY <1>1, RanSteps, ToggleSteps, ScreenSteps DEF OfRun, RunStrong
<1>2. CASE UNCHANGED runVars
  <2>1. UNCHANGED ranVars /\ acts' = acts /\ UNCHANGED <<control, toggled, paused, stopped>>
        /\ UNCHANGED <<shown, mode, aim, sel, tab>>
    BY <1>2 DEF runVars, ranVars, runVar, calls, journal, sent, screen, keys
  <2> QED
    BY <2>1, RunnerRests, ToggleRests, ScreenRests DEF RunStrong, Screened
<1>3. UNCHANGED tuiVars => UNCHANGED runVars
  BY DEF tuiVars
<1> QED
  BY <1>1, <1>2, <1>3 DEF TuiNext, OfOrg

(* The invariant of the run screen holds in every state.                   *)
LEMMA RunStaysStrong == TuiSpec => []RunStrong
<1>1. TuiInit => RunStrong
  BY RunStarts DEF TuiInit
<1>2. RunStrong /\ [TuiNext]_tuiVars => RunStrong'
  BY RunSteps
<1> QED
  BY <1>1, <1>2, PTL DEF TuiSpec

(* What follows from it: the types of the run screen,                      *)
LEMMA RunTypesKept == RunStrong => RunTypeOK
<1> SUFFICES ASSUME RunStrong PROVE RunTypeOK
  OBVIOUS
<1>1. RunnerTypes /\ Screened /\ MaxActs \in Nat
  BY RunScreenBounds DEF RunStrong, Ran
<1>2. ledger \in [Agents -> 0..MaxActs]
  <2>1. ledger \in [Agents -> Nat] /\ acts \in Nat /\ acts <= MaxActs
    BY <1>1 DEF RunnerTypes
  <2>2. ASSUME NEW n \in Agents PROVE ledger[n] \in 0..MaxActs
    <3>1. ledger[n] \in Nat /\ ledger[n] <= acts
      BY <1>1, <2>1 DEF RunnerTypes
    <3> QED
      BY <1>1, <2>1, <3>1
  <2>3. ledger = [n \in Agents |-> ledger[n]]
    BY <2>1
  <2> QED
    BY <2>2, <2>3
<1>3. DOMAIN told.agents \subseteq Agents
  BY DEF RunStrong, Ran, FoldSound, FoldTyped, AgentsTyped
<1> QED
  BY <1>1, <1>2, <1>3 DEF RunTypeOK, RunnerTypes, Screened

(* that the tokens on the screen are those that the agents used,           *)
LEMMA BooksAddUp == RunStrong => TokensAddUp
<1> SUFFICES ASSUME RunStrong PROVE TokensAddUp
  OBVIOUS
<1>1. FoldSound(told) /\ Books /\ ledger \in [Agents -> Nat]
  BY DEF RunStrong, Ran, RunnerTypes
<1> DEFINE R == Running(told)
           u == [n \in R |-> told.agents[n].used]
           l == [n \in R |-> ledger[n]]
<1>2. /\ R \in SUBSET Agents /\ IsFiniteSet(R)
      /\ \A n \in R : told.agents[n].used \in Nat /\ told.agents[n].used <= ledger[n]
  <2>1. /\ Running(told) \in SUBSET Agents /\ IsFiniteSet(Running(told))
        /\ Running(told) \subseteq DOMAIN told.agents
        /\ \A n \in DOMAIN told.agents : told.agents[n].used \in Nat
    BY <1>1, RunningIs
  <2> QED
    BY <1>1, <2>1 DEF Books
<1> HIDE DEF R
<1>3. u \in [R -> Nat] /\ l \in [R -> Nat] /\ \A n \in R : u[n] <= l[n]
  BY <1>1, <1>2
<1>4. Spent = SumFunction(ledger) /\ InFlight(ledger, told) = SumFunction(l)
      /\ LiveOutputTokens(told) = told.spent + SumFunction(u) /\ told.spent \in Nat
  BY <1>1 DEF Spent, InFlight, LiveOutputTokens, R, FoldSound, FoldTyped
<1>5. (\A n \in R : throttle[n] # "armed") => u = l
  BY <1>1 DEF Books, R
<1> HIDE DEF u, l
<1>6. SumFunction(u) <= SumFunction(l) /\ SumFunction(u) \in Nat /\ SumFunction(l) \in Nat
  BY <1>2, <1>3, SumsGrow, SumLaws
<1>7. CASE told.status = "running"
  <2>1. Spent = told.spent + SumFunction(l)
    BY <1>1, <1>4, <1>7 DEF Books
  <2>2. LiveOutputTokens(told) <= Spent
    BY <1>4, <1>6, <2>1
  <2>3. {n \in Running(told) : throttle[n] = "armed"} = {} => LiveOutputTokens(told) = Spent
    BY <1>4, <1>5, <2>1 DEF R
  <2> QED
    BY <2>2, <2>3 DEF TokensAddUp
<1>8. CASE told.status # "running" /\ R = {}
  <2>1. SumFunction(u) = 0
    BY <1>2, <1>3, <1>8, SumLaws
  <2>2. Spent = told.spent
    BY <1>1, <1>4, <1>8 DEF Books
  <2> QED
    BY <1>4, <2>1, <2>2 DEF TokensAddUp
<1> QED
  BY <1>7, <1>8 DEF TokensAddUp, R

(* that the phases it lists count every agent once,                        *)
LEMMA CountsMatch == RunStrong => PhasesAddUp
<1> SUFFICES ASSUME RunStrong PROVE PhasesAddUp
  OBVIOUS
<1> DEFINE titles == PhaseTitles(told)
<1>1. /\ FoldSound(told) /\ AgentsTyped(told.agents)
      /\ Titled(titles) /\ DOMAIN titles = DOMAIN told.phases
      /\ \A i \in DOMAIN titles : titles[i] = told.phases[i].title
      /\ told.phases = ComputePhases(titles, told.agents)
  BY DEF RunStrong, Ran, FoldSound, FoldTyped, PhaseTitles
<1>2. \A i, j \in DOMAIN told.phases : told.phases[i].title = told.phases[j].title => i = j
  BY <1>1 DEF Titled
<1>3. \A n \in DOMAIN told.agents : told.agents[n].phase \in Range(titles) \cup {NoPhase}
  BY <1>1 DEF FoldSound
<1>4. ASSUME NEW i \in DOMAIN told.phases, NEW p, p = told.phases[i]
      PROVE  /\ p.done + p.running + p.failed = p.total
             /\ told.status # "running" /\ Running(told) = {} =>
                  Glyph(told, p) = IF p.total > 0 THEN "finished" ELSE "waiting"
  <2>1. /\ p.title = titles[i]
        /\ p.running \in Nat /\ p.failed \in Nat /\ p.done \in Nat /\ p.total \in Nat
        /\ p.done + p.running + p.failed = p.total
        /\ (\A n \in DOMAIN told.agents : told.agents[n].status # "running") => p.running = 0
    BY <1>1, <1>4, CountsAddUp
  <2>2. p.title # NoPhase
    <3>1. titles[i] \in Titles
      BY <1>1 DEF Titled
    <3> QED
      BY <2>1, <3>1, RunScreenBounds
  <2>3. ASSUME told.status # "running", Running(told) = {}
        PROVE  Glyph(told, p) = IF p.total > 0 THEN "finished" ELSE "waiting"
    <3>1. told.current = NoPhase
      BY <2>3 DEF RunStrong, Ran, StatusTells
    <3>2. p.running = 0
      BY <2>1, <2>3 DEF Running
    <3> QED
      BY <2>1, <2>2, <3>1, <3>2 DEF Glyph
  <2> QED
    BY <2>1, <2>3
<1> HIDE DEF titles
<1> QED
  BY <1>1, <1>2, <1>3, <1>4 DEF PhasesAddUp, titles

(* that the last of the keys that pause and resume is obeyed,              *)
LEMMA ToggleObeyed == RunStrong => LastToggleWins
<1> SUFFICES ASSUME RunStrong, control = << >>, ~stopped
             PROVE  (toggled # "none" => paused = (toggled = "pause")) /\ told.paused = paused
  BY DEF LastToggleWins
<1>1. ~\E i \in 1..Len(control) : TRUE
  OBVIOUS
<1>2. toggled # "none" => paused = (toggled = "pause")
  BY <1>1 DEF RunStrong, LastToggle
<1> QED
  BY <1>2 DEF RunStrong, Ran, RunnerTypes

(* and that the selected agent is among those on the screen, which has     *)
(* room for what is drawn, but for the rows the layout does not know of,   *)
(* unless not even a line of it fits.                                      *)
LEMMA SelectionFits == RunStrong => SelectionOnScreen
<1> SUFFICES ASSUME RunStrong, HasSelected, NEW rows \in Rows
             PROVE  /\ Sel \in OnScreen(rows).first..(OnScreen(rows).last - 1)
                    /\ Roomy(rows) =>
                         \A tall \in Heights : Written(rows, tall) <= rows + Unreckoned(tall)
  BY DEF SelectionOnScreen
<1>1. /\ FoldSound(shown) /\ Screened /\ rows \in Nat
      /\ NarratorTail \in Nat /\ ResultTailMax \in Nat /\ AgentCount \in Nat
  BY RunScreenBounds DEF RunStrong, Screened
<1> DEFINE n == Len(Selectable)
           w == OnScreen(rows)
           cap == ItemCapacity(rows)
           sum == SummaryLines
<1>2. n \in Nat /\ Sel \in Nat /\ Sel < n /\ n <= AgentCount /\ Selectable \in Seq(Agents)
  BY <1>1, SelectableIs, SelIs
<1>3. sum \in Nat /\ (Tier = "cards" => sum = 0)
  BY <1>1, PhasesAreListed DEF SummaryLines
<1>4. NarratorLines \in Nat /\ Fixed \in Nat
  <2>1. shown.narrator \in Nat
    BY <1>1 DEF FoldSound, FoldTyped
  <2> QED
    BY <1>1, <2>1 DEF NarratorLines, Fixed, AtMost, Chrome
<1> DEFINE c == ListContent(rows)
           t == TailRows(rows)
           r == AgentRows(c, Finished, ResultTailMax)
           lr == ListRows(rows)
<1>5. c = AtLeast(0, rows - Fixed) /\ c \in Nat
  BY <1>1, <1>4 DEF ListContent, Content, Fixed, AtLeast
<1>6. t \in Nat /\ (~Finished => t = 0)
  <2>1. t = IF ~Finished THEN 0 ELSE AtMost(ResultTailMax, AtMost(c \div 2, AtLeast(0, c - 4)))
    BY DEF TailRows, ResultRows, ResultChrome
  <2> HIDE DEF t, c
  <2>2. c \div 2 \in Nat
    BY <1>5
  <2> QED
    BY <1>1, <1>5, <2>1, <2>2 DEF AtMost, AtLeast
<1>7. r = (IF ~Finished THEN c ELSE AtLeast(0, c - 4 - t)) /\ r \in Nat
  BY <1>5, <1>6 DEF AgentRows, TailRows, AtLeast, ResultChrome
<1>8. lr = AtLeast(0, r - sum) /\ lr \in Nat
  BY <1>3, <1>7 DEF ListRows, AtLeast
<1> HIDE DEF c, t, r, lr, n, sum
<1>9. LineHeight = (IF Tier = "cards" THEN 2 ELSE 1) /\ cap = AtLeast(1, lr \div LineHeight)
  BY DEF LineHeight, ItemCapacity, lr
<1>10. cap \in Nat /\ cap >= 1 /\ (lr >= LineHeight => LineHeight * cap <= lr)
  BY <1>8, <1>9 DEF AtLeast
<1> HIDE DEF cap
<1>11. w = Window(n, Sel, cap)
  BY DEF OnScreen, n, cap
<1> HIDE DEF w
<1>12. Clamped(Sel, n) = Sel
  BY <1>2 DEF Clamped, AtLeast, AtMost
<1>22. n \in Nat /\ Sel \in Int /\ cap \in Nat /\ n > 0 /\ cap > 0
  BY <1>2, <1>10
<1>13. w.first <= Sel /\ Sel < w.last
  <2>1. SelectionInside(n, Sel, cap)
    BY ONLY <1>22, SelectionShown
  <2> QED
    BY <1>11, <1>12, <1>22, <2>1 DEF SelectionInside
<1>14. w.first \in Nat /\ w.last \in Nat /\ w.last <= n
  BY ONLY <1>11, <1>22, WindowInList
<1>15. Rendered(w) <= cap /\ Rendered(w) \in Nat /\ w.last - w.first <= Rendered(w)
  <2>1. Rendered(w) <= cap
    BY ONLY <1>11, <1>22, WindowFits DEF WithinCapacity
  <2> QED
    BY <1>2, <1>13, <1>14, <2>1 DEF Rendered
<1> DEFINE tall == {i \in w.first..(w.last - 1) : shown.agents[Selectable[i + 1]].status = "running"}
<1>16. Cardinality(tall) \in Nat /\ Cardinality(tall) <= w.last - w.first
  <2>1. IsFiniteSet(w.first..(w.last - 1)) /\ Cardinality(w.first..(w.last - 1)) = w.last - w.first
    <3>1. w.first \in Int /\ w.last - 1 \in Int /\ w.first <= w.last - 1
      BY <1>13, <1>14, <1>2
    <3>2. /\ IsFiniteSet(w.first..(w.last - 1))
          /\ Cardinality(w.first..(w.last - 1)) = (w.last - 1) - w.first + 1
      BY ONLY <3>1, FS_Interval
    <3> QED
      BY <1>14, <3>2
  <2>2. tall \in SUBSET (w.first..(w.last - 1))
    OBVIOUS
  <2> HIDE DEF tall
  <2> QED
    BY <2>1, <2>2, FS_Subset, FS_CardinalityType
<1>17. ListLines(rows) = Rendered(w) + sum + (IF Tier = "cards" THEN Cardinality(tall) ELSE 0)
  BY DEF ListLines, w, sum
<1> HIDE DEF tall
<1>18. Sel \in w.first..(w.last - 1)
  BY <1>2, <1>13, <1>14
<1>19. ASSUME lr >= LineHeight PROVE ListLines(rows) <= r /\ ListLines(rows) \in Nat
  <2>1. lr = r - sum
    BY <1>3, <1>7, <1>8, <1>9, <1>19 DEF AtLeast
  <2>2. CASE Tier = "cards"
    BY <1>3, <1>7, <1>8, <1>9, <1>10, <1>14, <1>15, <1>16, <1>17, <1>19, <2>1, <2>2
  <2>3. CASE Tier # "cards"
    BY <1>3, <1>7, <1>8, <1>9, <1>10, <1>15, <1>17, <1>19, <2>1, <2>3
  <2> QED
    BY <2>2, <2>3
<1>20. ASSUME lr >= LineHeight, Finished => t >= 2, NEW high \in Heights
       PROVE  Written(rows, high) <= rows + Unreckoned(high)
  <2> DEFINE e == IF shown.status = "failed" THEN high.error ELSE 0
             x == IF shown.phases # << >> THEN high.phases ELSE 0
             res == ResultLines(rows, high)
  <2>1. r >= 1
    BY <1>3, <1>7, <1>8, <1>9, <1>20 DEF AtLeast
  <2>2. e \in Nat /\ x \in Nat /\ (~Finished => e = 0)
    BY <1>20, RunScreenBounds DEF Heights, Finished
  <2>3. /\ Written(rows, high) = Fixed + ListLines(rows) + res + x
        /\ Unreckoned(high) = AtLeast(0, e - 1) + x
    BY DEF Written, Unreckoned, AtLeast
  <2>4. res = IF ~Finished THEN 0
              ELSE LET k == AtLeast(0, t - AtMost(1, e))
                       h == IF k < ResultTailMax THEN 1 ELSE 0
                   IN  4 + e + h + AtLeast(0, AtMost(ResultTailMax, k - h))
    BY DEF ResultLines, ResultChrome, t
  <2> HIDE DEF e, x, res
  <2>5. ListLines(rows) <= r /\ ListLines(rows) \in Nat /\ AtLeast(0, e - 1) \in Nat
    BY <1>19, <1>20, <2>2 DEF AtLeast
  <2>6. CASE ~Finished
    <3>1. res = 0 /\ r = c /\ c = rows - Fixed
      BY <1>1, <1>4, <1>5, <1>7, <2>1, <2>4, <2>6 DEF AtLeast
    <3>2. \A fix, list, u, y, z \in Nat : list <= z - fix => fix + list + 0 + y <= z + (u + y)
      OBVIOUS
    <3> HIDE DEF Fixed
    <3> QED
      BY <1>1, <1>4, <2>2, <2>3, <2>5, <3>1, <3>2
  <2>7. CASE Finished
    <3>1. c = r + 4 + t /\ c = rows - Fixed
      BY <1>1, <1>4, <1>5, <1>6, <1>7, <2>1, <2>7 DEF AtLeast
    <3>2. res <= 4 + t + AtLeast(0, e - 1) /\ res \in Nat
      <4> DEFINE k == AtLeast(0, t - AtMost(1, e))
                 h == IF k < ResultTailMax THEN 1 ELSE 0
      <4>1. res = 4 + e + h + AtLeast(0, AtMost(ResultTailMax, k - h))
        BY <2>4, <2>7
      <4>2. k = t - AtMost(1, e) /\ k \in Nat /\ k >= 1
        BY <1>6, <1>20, <2>2, <2>7 DEF AtLeast, AtMost
      <4>3. e <= AtMost(1, e) + AtLeast(0, e - 1) /\ AtMost(1, e) \in 0..1
        BY <2>2 DEF AtLeast, AtMost
      <4> HIDE DEF k
      <4>4. h \in 0..1
        OBVIOUS
      <4> HIDE DEF h
      <4>5. /\ AtLeast(0, AtMost(ResultTailMax, k - h)) <= k - h
            /\ AtLeast(0, AtMost(ResultTailMax, k - h)) \in Nat
        BY <1>1, <4>2, <4>4 DEF AtLeast, AtMost
      <4> QED
        BY <1>6, <2>2, <2>5, <4>1, <4>2, <4>3, <4>4, <4>5
    <3>3. \A fix, list, out, p, q, u, y, z \in Nat :
             z - fix = p + 4 + q /\ list <= p /\ out <= 4 + q + u
               => fix + list + out + y <= z + (u + y)
      OBVIOUS
    <3>4. rows - Fixed = r + 4 + t
      BY <3>1
    <3> HIDE DEF Fixed
    <3> QED
      BY <1>1, <1>4, <1>6, <1>7, <2>2, <2>3, <2>5, <3>2, <3>3, <3>4
  <2> QED
    BY <2>6, <2>7
<1> QED
  BY <1>18, <1>20 DEF Roomy, lr, t, w
-----------------------------------------------------------------------------
(* The Org tab: an invariant that its steps keep, and what follows.        *)
(* Types, sharper where a value is used: what has been read is no later    *)
(* than what is on disk.                                                   *)
OrgTypes ==
    /\ clock \in Nat
    /\ coverage \in [seats : SUBSET AllSeats, readable : BOOLEAN, at : Nat]
    /\ Root \in coverage.seats
    /\ files \in [AllSeats -> [brief : Nat, facts : Facts, at : Nat, past : Nat]]
    /\ visits \in [of : [AllSeats -> Nat], at : Nat]
    /\ \A a \in AllSeats :
         /\ 0 < files[a].brief /\ files[a].brief <= clock /\ files[a].at <= clock
         /\ files[a].past <= clock /\ visits.of[a] <= clock
    /\ ui.tab \in {"org", "other"} /\ ui.view \in {"tree", "ops", "briefs"} /\ ui.brief \in AllSeats
    /\ ui = [tab |-> ui.tab, view |-> ui.view, brief |-> ui.brief, sel |-> ui.sel,
             expanded |-> ui.expanded, marked |-> ui.marked]

SeenTypes == seen \in [AllSeats -> Nat] /\ \A a \in AllSeats : seen[a] <= files[a].brief

StampTypes(s) ==
    s.at = "stamping" =>
      /\ s.brief \in AllSeats /\ s.of \in [AllSeats -> Nat]
      /\ \A a \in AllSeats : s.of[a] <= clock

StepTypes ==
    /\ step.at \in {"idle", "seats", "texts", "times", "stamping"}
    /\ StampTypes(step)
    /\ step.at \in {"texts", "times"} => step.seats \subseteq AllSeats /\ Root \in step.seats
    /\ step.at = "times" =>
         \A a \in step.seats : step.briefs[a] \in Nat /\ step.briefs[a] <= files[a].brief
    /\ step.at = "stamping" => OnDisplay(step.brief)
OtherTypes == other.at \in {"idle", "stamping"} /\ StampTypes(other)
LoadTypes == Holds =>
    /\ Snapshot.seats \subseteq AllSeats /\ Root \in Snapshot.seats
    /\ ui.brief \in Snapshot.seats
    /\ \A a \in Snapshot.seats :
         /\ Snapshot.briefs[a] \in Nat /\ Snapshot.briefs[a] <= files[a].brief
         /\ Snapshot.times[a] \in Nat

(* The brief of a that is on the screen will be read again, unless it was  *)
(* already, as it is, or a is no seat when the inventory is read.          *)
Rereads(a) ==
    /\ step.at \in {"seats", "texts", "times"} /\ OnDisplay(a)
    /\ step.at # "seats" => a \in step.seats
    /\ step.at = "times" => step.briefs[a] = files[a].brief

(* A stamp v of agent a tells the truth: it is none, or older than the     *)
(* brief, or the brief was on a screen, or is about to be.                 *)
Safe(v, a) ==
    v = 0 \/ files[a].brief > v + 1 \/ seen[a] = files[a].brief \/ Rereads(a)

(* So do the stamps on disk, and those that a screen is about to write,    *)
(* but for the one of the brief it shows.                                  *)
StampsSafe == \A a \in AllSeats :
    /\ Safe(visits.of[a], a)
    /\ step.at = "stamping" /\ step.brief # a => Safe(step.of[a], a)
    /\ other.at = "stamping" /\ other.brief # a => Safe(other.of[a], a)

UncoveredSeen == \A a \in AllSeats \ Inventory : seen[a] = files[a].brief

OrgKinds  == OrgTypes /\ StepTypes /\ OtherTypes /\ LoadTypes
OrgStrong == OrgKinds /\ SeenTypes /\ StampsSafe /\ UncoveredSeen
-----------------------------------------------------------------------------
(* The root is a seat of the organisation.                                 *)
LEMMA SeatsFacts == Root \in AllSeats
<1>1. Seats \in Seq(AllSeats) /\ Seats # << >>
  BY OrgScreenBounds
<1>2. 1 \in DOMAIN Seats /\ Head(Seats) = Seats[1]
  BY <1>1
<1> QED
  BY <1>2 DEF Root, AllSeats, Range

(* What loadInventory() finds are seats, the root among them.              *)
LEMMA InventoryIs ==
    ASSUME Root \in coverage.seats, coverage.seats \subseteq AllSeats
    PROVE  Inventory \subseteq AllSeats /\ Root \in Inventory
BY SeatsFacts DEF Inventory

(* The greatest of finitely many numbers: of what was seen of a, what is   *)
(* on disk, and what is on the screen, as far as these were seen.          *)
LEMMA MaxOfThree ==
    ASSUME NEW x \in Nat, NEW S \in SUBSET Nat, NEW y \in Nat, NEW z \in Nat,
           x \in S, S \subseteq {x, y, z}
    PROVE  Max(S) \in S /\ \A w \in S : w <= Max(S)
<1>1. \E m \in S : \A w \in S : m >= w
  <2>1. CASE \A w \in S : x >= w
    BY <2>1
  <2>2. CASE y \in S /\ y > x /\ (z \in S => y >= z)
    BY <2>2
  <2>3. CASE z \in S /\ z > x /\ (y \in S => z >= y)
    BY <2>3
  <2> QED
    BY <2>1, <2>2, <2>3
<1>2. Max(S) \in S /\ \A w \in S : Max(S) >= w
  BY <1>1 DEF Max
<1> QED
  BY <1>2

(* What has been seen of a brief is the newest of what had been, and of    *)
(* what is on the screen now.                                              *)
LEMMA SeesIs ==
    ASSUME Sees, seen \in [AllSeats -> Nat], NEW a \in AllSeats,
           files'[a].brief \in Nat, seen[a] <= files'[a].brief,
           OnDisplay(a)' => Snapshot'.briefs[a] \in Nat /\ Snapshot'.briefs[a] <= files'[a].brief
    PROVE  /\ seen'[a] \in Nat /\ seen[a] <= seen'[a] /\ seen'[a] <= files'[a].brief
           /\ a \notin Inventory' => seen'[a] = files'[a].brief
           /\ other # other' /\ other' = Idle /\ other.brief = a => seen'[a] = files'[a].brief
           /\ OnDisplay(a)' => Snapshot'.briefs[a] <= seen'[a]
<1> DEFINE B == {b \in {files'[a].brief} :
                   a \notin Inventory' \/ (other # other' /\ other' = Idle /\ other.brief = a)}
           C == {Snapshot'.briefs[b] : b \in {b \in {a} : OnDisplay(b)'}}
           S == {seen[a]} \cup B \cup C
           z == IF OnDisplay(a)' THEN Snapshot'.briefs[a] ELSE 0
<1>1. seen'[a] = Max(S)
  BY DEF Sees
<1>2. C \subseteq {z} /\ (OnDisplay(a)' => z \in C)
  OBVIOUS
<1>3. B \subseteq {files'[a].brief}
  OBVIOUS
<1>4. z \in Nat /\ z <= files'[a].brief
  OBVIOUS
<1>5. a \notin Inventory' => files'[a].brief \in B
  OBVIOUS
<1>6. other # other' /\ other' = Idle /\ other.brief = a => files'[a].brief \in B
  OBVIOUS
<1> HIDE DEF B, C, z
<1>7. seen[a] \in S /\ S \subseteq {seen[a], files'[a].brief, z} /\ seen[a] \in Nat
  BY <1>2, <1>3
<1>8. S \in SUBSET Nat
  BY <1>4, <1>7
<1>9. B \subseteq S /\ C \subseteq S
  OBVIOUS
<1> HIDE DEF S
<1>10. Max(S) \in S /\ \A w \in S : w <= Max(S)
  BY <1>4, <1>7, <1>8, MaxOfThree
<1>11. Max(S) \in Nat /\ Max(S) <= files'[a].brief /\ seen[a] <= Max(S)
  BY <1>4, <1>7, <1>8, <1>10
<1>12. files'[a].brief \in S => Max(S) = files'[a].brief
  BY <1>10, <1>11
<1>13. OnDisplay(a)' => Snapshot'.briefs[a] = z
  BY DEF z
<1> QED
  BY <1>1, <1>2, <1>5, <1>6, <1>9, <1>10, <1>11, <1>12, <1>13

(* What a step must do to the files and the stamps so that they stay true: *)
(* a brief is written after every stamp, a brief that will be read again   *)
(* is then on the screen, and a stamp comes from one that was true or      *)
(* whose brief the screen that writes it shows.                            *)
Faithful(a) ==
    /\ files'[a].brief = files[a].brief \/ files'[a].brief = clock + 2
    /\ Rereads(a) /\ files'[a].brief = files[a].brief =>
         \/ Rereads(a)' \/ a \notin Inventory'
         \/ OnDisplay(a)' /\ Snapshot'.briefs[a] = files'[a].brief
    /\ \/ visits'.of[a] \in {0, visits.of[a]}
       \/ /\ step.at = "stamping" /\ visits'.of[a] = step.of[a]
          /\ step.brief = a => Rereads(a)' \/ a \notin Inventory'
       \/ /\ other.at = "stamping" /\ visits'.of[a] = other.of[a]
          /\ other.brief = a => other # other' /\ other' = Idle
    /\ \/ step' = step
       \/ step'.at = "stamping" /\ step'.brief # a => step'.of[a] \in {0, visits.of[a]}
    /\ \/ other' = other
       \/ other'.at = "stamping" /\ other'.brief # a => other'.of[a] \in {0, visits.of[a]}

(* A step that is faithful for every seat keeps the invariant.             *)
LEMMA FaithfulKeeps ==
    ASSUME OrgStrong, Sees, OrgKinds', \A a \in AllSeats : Faithful(a)
    PROVE  OrgStrong'
<1>1. /\ seen' = [a \in AllSeats |-> seen'[a]]
      /\ seen \in [AllSeats -> Nat]
  BY DEF Sees, OrgStrong, SeenTypes
<1>2. ASSUME NEW a \in AllSeats
      PROVE  /\ seen'[a] \in Nat /\ seen[a] <= seen'[a] /\ seen'[a] <= files'[a].brief
             /\ a \notin Inventory' => seen'[a] = files'[a].brief
             /\ other # other' /\ other' = Idle /\ other.brief = a => seen'[a] = files'[a].brief
             /\ OnDisplay(a)' => Snapshot'.briefs[a] <= seen'[a]
  <2>1. files'[a].brief \in Nat /\ files[a].brief \in Nat /\ clock \in Nat
    BY <1>2 DEF OrgStrong, OrgKinds, OrgTypes
  <2>2. seen[a] \in Nat /\ seen[a] <= files[a].brief /\ files[a].brief <= clock
    BY <1>2 DEF OrgStrong, OrgKinds, OrgTypes, SeenTypes
  <2>3. seen[a] <= files'[a].brief
    BY <1>2, <2>1, <2>2 DEF Faithful
  <2>4. OnDisplay(a)' => Snapshot'.briefs[a] \in Nat /\ Snapshot'.briefs[a] <= files'[a].brief
    BY DEF OnDisplay, OrgKinds, LoadTypes
  <2> QED
    BY <1>1, <1>2, <2>1, <2>3, <2>4, SeesIs
<1>3. SeenTypes'
  BY <1>1, <1>2 DEF SeenTypes
<1>4. ASSUME NEW a \in AllSeats, NEW v \in Nat, v <= clock, Safe(v, a)
      PROVE  Safe(v, a)'
  <2>1. /\ files'[a].brief \in Nat /\ files[a].brief \in Nat /\ clock \in Nat
        /\ files[a].brief <= clock /\ seen[a] \in Nat
    BY <1>4 DEF OrgStrong, OrgKinds, OrgTypes, SeenTypes
  <2>2. /\ seen'[a] \in Nat /\ seen[a] <= seen'[a] /\ seen'[a] <= files'[a].brief
        /\ OnDisplay(a)' => Snapshot'.briefs[a] <= seen'[a]
    BY <1>2, <1>4
  <2>3. CASE files'[a].brief # files[a].brief
    BY <1>4, <2>1, <2>3 DEF Faithful, Safe
  <2>4. CASE files'[a].brief = files[a].brief /\ ~Rereads(a)
    BY <1>4, <2>1, <2>2, <2>4 DEF Safe
  <2>5. CASE files'[a].brief = files[a].brief /\ Rereads(a)
    <3>1. \/ Rereads(a)' \/ a \notin Inventory'
          \/ OnDisplay(a)' /\ Snapshot'.briefs[a] = files'[a].brief
      BY <1>4, <2>5 DEF Faithful
    <3>2. Rereads(a)' \/ seen'[a] = files'[a].brief
      BY <1>2, <1>4, <2>1, <2>2, <3>1
    <3> QED
      BY <3>2 DEF Safe
  <2> QED
    BY <2>3, <2>4, <2>5
<1>5. ASSUME NEW a \in AllSeats PROVE Safe(0, a) /\ 0 <= clock /\ 0 \in Nat
  BY DEF Safe, OrgStrong, OrgKinds, OrgTypes
<1>6. ASSUME NEW a \in AllSeats
      PROVE  /\ visits.of[a] \in Nat /\ visits.of[a] <= clock /\ Safe(visits.of[a], a)
             /\ step.at = "stamping" => step.of[a] \in Nat /\ step.of[a] <= clock
             /\ other.at = "stamping" => other.of[a] \in Nat /\ other.of[a] <= clock
             /\ step.at = "stamping" /\ step.brief # a => Safe(step.of[a], a)
             /\ other.at = "stamping" /\ other.brief # a => Safe(other.of[a], a)
  BY <1>6 DEF OrgStrong, OrgKinds, OrgTypes, StepTypes, OtherTypes, StampTypes, StampsSafe
<1>7. ASSUME NEW a \in AllSeats
      PROVE  Safe(visits.of[a], a)'
  <2>1. \A v : v = visits'.of[a] /\ Safe(v, a)' => Safe(visits.of[a], a)'
    BY DEF Safe, Rereads
  <2>2. CASE visits'.of[a] \in {0, visits.of[a]}
    BY <1>4, <1>5, <1>6, <1>7, <2>1, <2>2
  <2>3. CASE /\ step.at = "stamping" /\ visits'.of[a] = step.of[a]
             /\ step.brief = a => Rereads(a)' \/ a \notin Inventory'
    <3>1. CASE step.brief # a
      BY <1>4, <1>6, <1>7, <2>1, <2>3, <3>1
    <3>2. CASE step.brief = a
      <4>1. Rereads(a)' \/ seen'[a] = files'[a].brief
        BY <1>2, <1>7, <2>3, <3>2
      <4> QED
        BY <4>1 DEF Safe
    <3> QED
      BY <3>1, <3>2
  <2>4. CASE /\ other.at = "stamping" /\ visits'.of[a] = other.of[a]
             /\ other.brief = a => other # other' /\ other' = Idle
    <3>1. CASE other.brief # a
      BY <1>4, <1>6, <1>7, <2>1, <2>4, <3>1
    <3>2. CASE other.brief = a
      <4>1. seen'[a] = files'[a].brief
        BY <1>2, <1>7, <2>4, <3>2
      <4> QED
        BY <4>1 DEF Safe
    <3> QED
      BY <3>1, <3>2
  <2> QED
    BY <1>7, <2>2, <2>3, <2>4 DEF Faithful
<1>8. ASSUME NEW a \in AllSeats, step'.at = "stamping", step'.brief # a
      PROVE  Safe(step.of[a], a)'
  <2>1. \A v : v = step'.of[a] /\ Safe(v, a)' => Safe(step.of[a], a)'
    BY DEF Safe, Rereads
  <2> QED
    BY <1>4, <1>5, <1>6, <1>8, <2>1 DEF Faithful
<1>9. ASSUME NEW a \in AllSeats, other'.at = "stamping", other'.brief # a
      PROVE  Safe(other.of[a], a)'
  <2>1. \A v : v = other'.of[a] /\ Safe(v, a)' => Safe(other.of[a], a)'
    BY DEF Safe, Rereads
  <2> QED
    BY <1>4, <1>5, <1>6, <1>9, <2>1 DEF Faithful
<1>10. StampsSafe'
  BY <1>7, <1>8, <1>9 DEF StampsSafe
<1>11. UncoveredSeen'
  BY <1>2 DEF UncoveredSeen
<1> QED
  BY <1>3, <1>10, <1>11 DEF OrgStrong

(* The fields of a file that was written.                                  *)
LEMMA FileIs ==
    ASSUME NEW x \in Nat, NEW f \in Facts, NEW y \in Nat, NEW z \in Nat, NEW g,
           g = [brief |-> x, facts |-> f, at |-> y, past |-> z]
    PROVE  g \in [brief : Nat, facts : Facts, at : Nat, past : Nat]
           /\ g.brief = x /\ g.at = y /\ g.past = z
OBVIOUS

(* Agents and the user, writing: a new brief is later than every stamp.    *)
LEMMA WritesKeep ==
    ASSUME OrgStrong, Sees, WriteBrief \/ WriteOthers \/ WriteUnwatched \/ WriteCoverage
    PROVE  OrgStrong'
<1> USE DEF OrgStrong, OrgKinds
<1>1. /\ clock' = clock + 2 /\ clock \in Nat
      /\ UNCHANGED <<visits, load, step, other, ui>>
  BY DEF WriteBrief, WriteOthers, WriteUnwatched, WriteCoverage, OrgTypes
<1>2. /\ coverage' \in [seats : SUBSET AllSeats, readable : BOOLEAN, at : Nat]
      /\ Root \in coverage'.seats
      /\ files' \in [AllSeats -> [brief : Nat, facts : Facts, at : Nat, past : Nat]]
      /\ \A a \in AllSeats : /\ files'[a].brief \in {files[a].brief, clock'}
                             /\ files'[a].at \in {files[a].at, clock'}
                             /\ files'[a].past \in {files[a].past, clock'}
  <2>1. CASE WriteBrief
    <3>1. PICK b \in Busy : files' = [files EXCEPT ![b].brief = clock']
      BY <2>1 DEF WriteBrief
    <3>2. ASSUME NEW a \in AllSeats
          PROVE  /\ files'[a] = IF a = b
                   THEN [brief |-> clock', facts |-> files[a].facts, at |-> files[a].at,
                         past |-> files[a].past]
                   ELSE files[a]
                 /\ files[a].brief \in Nat /\ files[a].facts \in Facts /\ files[a].at \in Nat /\ files[a].past \in Nat
                 /\ files[a] = [brief |-> files[a].brief, facts |-> files[a].facts, at |-> files[a].at,
                                  past |-> files[a].past]
      BY <3>1, <3>2 DEF OrgTypes
    <3>3. ASSUME NEW a \in AllSeats
          PROVE  /\ files'[a] \in [brief : Nat, facts : Facts, at : Nat, past : Nat]
                 /\ files'[a].brief \in {files[a].brief, clock'} /\ files'[a].at \in {files[a].at, clock'}
                 /\ files'[a].past \in {files[a].past, clock'}
      <4>1. CASE a = b
        <5>1. files'[a] = [brief |-> clock', facts |-> files[a].facts, at |-> files[a].at, past |-> files[a].past]
          BY <3>2, <3>3, <4>1
        <5>2. clock' \in Nat
          BY <1>1
        <5>3. files[a].brief \in Nat /\ files[a].facts \in Facts /\ files[a].at \in Nat /\ files[a].past \in Nat
          BY <3>2, <3>3
        <5> QED
          BY <5>1, <5>2, <5>3, FileIs
      <4>2. CASE a # b
        <5>1. files'[a] = files[a]
          BY <3>2, <3>3, <4>2
        <5>2. files[a] \in [brief : Nat, facts : Facts, at : Nat, past : Nat]
          BY <3>3 DEF OrgTypes
        <5> QED
          BY <5>1, <5>2
      <4> QED
        BY <4>1, <4>2
    <3>4. files' = [a \in AllSeats |-> files'[a]]
      BY <3>1 DEF OrgTypes
    <3>5. coverage' = coverage
      BY <2>1 DEF WriteBrief
    <3> QED
      BY <3>3, <3>4, <3>5 DEF OrgTypes
  <2>2. CASE WriteOthers
    <3>1. PICK b \in Busy, f \in Facts : files' = [files EXCEPT ![b].facts = f, ![b].at = clock']
      BY <2>2 DEF WriteOthers
    <3>2. ASSUME NEW a \in AllSeats
          PROVE  /\ files'[a] = IF a = b
                   THEN [brief |-> files[a].brief, facts |-> f, at |-> clock',
                         past |-> files[a].past]
                   ELSE files[a]
                 /\ files[a].brief \in Nat /\ files[a].facts \in Facts /\ files[a].at \in Nat /\ files[a].past \in Nat
                 /\ files[a] = [brief |-> files[a].brief, facts |-> files[a].facts, at |-> files[a].at,
                                  past |-> files[a].past]
      BY <3>1, <3>2 DEF OrgTypes
    <3>3. ASSUME NEW a \in AllSeats
          PROVE  /\ files'[a] \in [brief : Nat, facts : Facts, at : Nat, past : Nat]
                 /\ files'[a].brief \in {files[a].brief, clock'} /\ files'[a].at \in {files[a].at, clock'}
                 /\ files'[a].past \in {files[a].past, clock'}
      <4>1. CASE a = b
        <5>1. files'[a] = [brief |-> files[a].brief, facts |-> f, at |-> clock', past |-> files[a].past]
          BY <3>2, <3>3, <4>1
        <5>2. clock' \in Nat
          BY <1>1
        <5>3. files[a].brief \in Nat /\ files[a].facts \in Facts /\ files[a].at \in Nat /\ files[a].past \in Nat
          BY <3>2, <3>3
        <5> QED
          BY <5>1, <5>2, <5>3, FileIs
      <4>2. CASE a # b
        <5>1. files'[a] = files[a]
          BY <3>2, <3>3, <4>2
        <5>2. files[a] \in [brief : Nat, facts : Facts, at : Nat, past : Nat]
          BY <3>3 DEF OrgTypes
        <5> QED
          BY <5>1, <5>2
      <4> QED
        BY <4>1, <4>2
    <3>4. files' = [a \in AllSeats |-> files'[a]]
      BY <3>1 DEF OrgTypes
    <3>5. coverage' = coverage
      BY <2>2 DEF WriteOthers
    <3> QED
      BY <3>3, <3>4, <3>5 DEF OrgTypes
  <2>3. CASE WriteCoverage
    <3>1. files' = files
      BY <2>3 DEF WriteCoverage
    <3>2. CASE coverage' = [coverage EXCEPT !.readable = ~@, !.at = clock']
      <4>1. PICK r \in BOOLEAN :
              coverage' = [seats |-> coverage.seats, readable |-> r, at |-> clock']
        <5>1. (~coverage.readable) \in BOOLEAN
          BY coverage.readable \in BOOLEAN DEF OrgTypes
        <5>2. coverage' = [seats |-> coverage.seats, readable |-> ~coverage.readable, at |-> clock']
          BY <3>2 DEF OrgTypes
        <5> QED
          BY <5>1, <5>2, Zenon
      <4>2. coverage.seats \in SUBSET AllSeats /\ clock' \in Nat
        BY <1>1 DEF OrgTypes
      <4>3. coverage'.seats = coverage.seats
        BY <4>1
      <4>4. coverage' \in [seats : SUBSET AllSeats, readable : BOOLEAN, at : Nat]
        BY <4>1, <4>2
      <4>5. Root \in coverage'.seats
        BY <4>3 DEF OrgTypes
      <4> QED
        BY <3>1, <4>4, <4>5 DEF OrgTypes
    <3>3. ASSUME NEW b \in AllSeats \ {Root}, NEW under,
                 under = {c \in AllSeats \ {Root} : c = b \/ Parent[c] = b},
                 coverage' = [coverage EXCEPT !.at = clock',
                                !.seats = IF b \in @ THEN @ \ under ELSE @ \cup under]
          PROVE  /\ coverage' \in [seats : SUBSET AllSeats, readable : BOOLEAN, at : Nat]
                 /\ Root \in coverage'.seats
      <4>1. under \subseteq AllSeats /\ Root \notin under
        BY <3>3
      <4>2. coverage'.seats = IF b \in coverage.seats THEN coverage.seats \ under
                              ELSE coverage.seats \cup under
        BY <3>3 DEF OrgTypes
      <4>3. coverage'.seats \subseteq AllSeats /\ Root \in coverage'.seats
        BY <4>1, <4>2 DEF OrgTypes
      <4>4. coverage' = [seats |-> coverage'.seats, readable |-> coverage.readable, at |-> clock']
        BY <3>3, <4>2 DEF OrgTypes
      <4>5. coverage.readable \in BOOLEAN /\ clock' \in Nat
        BY <1>1 DEF OrgTypes
      <4> QED
        BY <4>3, <4>4, <4>5
    <3> QED
      BY <2>3, <3>1, <3>2, <3>3 DEF WriteCoverage, OrgTypes
  <2>4. CASE WriteUnwatched
    <3>1. PICK b \in Busy, f \in Facts : files' = [files EXCEPT ![b].facts = f, ![b].past = clock']
      BY <2>4 DEF WriteUnwatched
    <3>2. ASSUME NEW a \in AllSeats
          PROVE  /\ files'[a] = IF a = b
                   THEN [brief |-> files[a].brief, facts |-> f, at |-> files[a].at,
                         past |-> clock']
                   ELSE files[a]
                 /\ files[a].brief \in Nat /\ files[a].facts \in Facts /\ files[a].at \in Nat /\ files[a].past \in Nat
                 /\ files[a] = [brief |-> files[a].brief, facts |-> files[a].facts, at |-> files[a].at,
                                  past |-> files[a].past]
      BY <3>1, <3>2 DEF OrgTypes
    <3>3. ASSUME NEW a \in AllSeats
          PROVE  /\ files'[a] \in [brief : Nat, facts : Facts, at : Nat, past : Nat]
                 /\ files'[a].brief \in {files[a].brief, clock'} /\ files'[a].at \in {files[a].at, clock'}
                 /\ files'[a].past \in {files[a].past, clock'}
      <4>1. CASE a = b
        <5>1. files'[a] = [brief |-> files[a].brief, facts |-> f, at |-> files[a].at, past |-> clock']
          BY <3>2, <3>3, <4>1
        <5>2. clock' \in Nat
          BY <1>1
        <5>3. files[a].brief \in Nat /\ files[a].facts \in Facts /\ files[a].at \in Nat /\ files[a].past \in Nat
          BY <3>2, <3>3
        <5> QED
          BY <5>1, <5>2, <5>3, FileIs
      <4>2. CASE a # b
        <5>1. files'[a] = files[a]
          BY <3>2, <3>3, <4>2
        <5>2. files[a] \in [brief : Nat, facts : Facts, at : Nat, past : Nat]
          BY <3>3 DEF OrgTypes
        <5> QED
          BY <5>1, <5>2
      <4> QED
        BY <4>1, <4>2
    <3>4. files' = [a \in AllSeats |-> files'[a]]
      BY <3>1 DEF OrgTypes
    <3>5. coverage' = coverage
      BY <2>4 DEF WriteUnwatched
    <3> QED
      BY <3>3, <3>4, <3>5 DEF OrgTypes
  <2> QED
    BY <2>1, <2>2, <2>3, <2>4
<1>3. \A a \in AllSeats : /\ files[a].brief \in Nat /\ files'[a].brief \in Nat
                           /\ files[a].brief <= files'[a].brief /\ 0 < files'[a].brief
                           /\ files'[a].brief <= clock' /\ files'[a].at <= clock'
                           /\ files'[a].past <= clock' /\ visits.of[a] <= clock'
  BY <1>1, <1>2 DEF OrgTypes
<1>4. OrgTypes'
  BY <1>1, <1>2, <1>3 DEF OrgTypes
<1>5. \A s : StampTypes(s) /\ s.at = "stamping" =>
              /\ s.brief \in AllSeats /\ s.of \in [AllSeats -> Nat]
              /\ \A a \in AllSeats : s.of[a] <= clock'
  BY <1>1 DEF StampTypes
<1>6. StepTypes'
  BY <1>1, <1>3, <1>5 DEF StepTypes, StampTypes, OnDisplay, OnOrg, Holds
<1>7. OtherTypes'
  BY <1>1, <1>5 DEF OtherTypes, StampTypes
<1>8. LoadTypes'
  BY <1>1, <1>3 DEF LoadTypes, Holds, Snapshot
<1>9. ASSUME NEW a \in AllSeats PROVE Faithful(a)
  BY <1>1, <1>2, <1>9 DEF Faithful, Rereads, OnDisplay, OnOrg, Holds
<1> QED
  BY <1>4, <1>6, <1>7, <1>8, <1>9, FaithfulKeeps

(* What a screen reads of the stamps while the other writes them.          *)
LEMMA ReadStamps ==
    ASSUME OrgTypes, NEW s, NEW of \in VisitsRead(s)
    PROVE  /\ of \in [AllSeats -> Nat]
           /\ \A a \in AllSeats : of[a] \in {0, visits.of[a]} /\ of[a] <= clock
<1>1. of = visits.of \/ of = [a \in AllSeats |-> 0]
  BY DEF VisitsRead
<1> QED
  BY <1>1 DEF OrgTypes

(* A stamp that is about to be written has the stamps that were read, but  *)
(* for the one of its own brief.                                           *)
LEMMA StampingIs ==
    ASSUME OrgTypes, NEW s, NEW of \in VisitsRead(s), NEW b \in AllSeats,
           NEW t, t = Stamping(of, b)
    PROVE  /\ t.at = "stamping" /\ t.brief = b
           /\ t.of \in [AllSeats -> Nat]
           /\ \A a \in AllSeats : t.of[a] <= clock /\ (a # b => t.of[a] \in {0, visits.of[a]})
<1>1. /\ of \in [AllSeats -> Nat] /\ clock \in Nat
      /\ \A a \in AllSeats : of[a] \in {0, visits.of[a]} /\ of[a] <= clock
  BY ReadStamps DEF OrgTypes
<1>2. t.at = "stamping" /\ t.brief = b /\ t.of = [of EXCEPT ![b] = clock]
  BY DEF Stamping
<1> QED
  BY <1>1, <1>2

(* The other screen reads the stamps.                                      *)
LEMMA OtherReadsKeeps ==
    ASSUME OrgStrong, Sees, OtherReads
    PROVE  OrgStrong'
<1> USE DEF OrgStrong, OrgKinds
<1>1. UNCHANGED <<coverage, files, visits, clock, load, step, ui>>
  BY DEF OtherReads
<1>2. PICK b \in AllSeats, of \in VisitsRead(step) : other' = Stamping(of, b)
  <2>1. Inventory \subseteq AllSeats
    BY InventoryIs DEF OrgTypes
  <2> QED
    BY <2>1 DEF OtherReads
<1>3. /\ other'.at = "stamping" /\ other'.brief = b
      /\ other'.of \in [AllSeats -> Nat]
      /\ \A a \in AllSeats : other'.of[a] <= clock /\ (a # b => other'.of[a] \in {0, visits.of[a]})
  BY <1>2, StampingIs
<1>4. OrgTypes' /\ StepTypes' /\ LoadTypes'
  BY <1>1 DEF OrgTypes, StepTypes, StampTypes, LoadTypes, OnDisplay, OnOrg, Holds, Snapshot
<1>5. OtherTypes'
  BY <1>1, <1>3 DEF OtherTypes, StampTypes
<1>6. ASSUME NEW a \in AllSeats PROVE Faithful(a)
  BY <1>1, <1>3, <1>6 DEF Faithful, Rereads, OnDisplay, OnOrg, Holds
<1> QED
  BY <1>4, <1>5, <1>6, FaithfulKeeps

(* The other screen writes its stamps; it has seen the brief it marks.     *)
LEMMA OtherWritesKeeps ==
    ASSUME OrgStrong, Sees, OtherWrites
    PROVE  OrgStrong'
<1> USE DEF OrgStrong, OrgKinds
<1>1. /\ UNCHANGED <<coverage, files, clock, load, step, ui>> /\ other' = Idle
      /\ other.at = "stamping" /\ visits' = [of |-> other.of, at |-> visits.at + 1]
  BY DEF OtherWrites, Stamp
<1>2. /\ other.of \in [AllSeats -> Nat] /\ \A a \in AllSeats : other.of[a] <= clock
      /\ other'.at = "idle" /\ other # other' /\ visits.at \in Nat
  BY <1>1 DEF OtherTypes, StampTypes, Idle, OrgTypes
<1>3. visits' \in [of : [AllSeats -> Nat], at : Nat] /\ visits'.of = other.of
  BY <1>1, <1>2
<1>4. OrgTypes'
  BY <1>1, <1>2, <1>3 DEF OrgTypes
<1>5. StepTypes' /\ LoadTypes' /\ OtherTypes'
  BY <1>1, <1>2 DEF StepTypes, StampTypes, LoadTypes, OtherTypes, OnDisplay, OnOrg, Holds, Snapshot
<1>6. ASSUME NEW a \in AllSeats PROVE Faithful(a)
  BY <1>1, <1>2, <1>3, <1>6 DEF Faithful, Rereads, OnDisplay, OnOrg, Holds
<1> QED
  BY <1>4, <1>5, <1>6, FaithfulKeeps

(* The screen begins a refresh.                                            *)
LEMMA RefreshKeeps ==
    ASSUME OrgStrong, Sees, Refresh
    PROVE  OrgStrong'
<1> USE DEF OrgStrong, OrgKinds
<1>1. /\ UNCHANGED <<coverage, files, visits, clock, load, other, ui>> /\ step.at = "idle"
      /\ step'.at = "seats"
  BY DEF Refresh, Ready, Reading
<1>2. Inventory \subseteq AllSeats /\ Root \in Inventory
  BY InventoryIs DEF OrgTypes
<1>3. OrgTypes' /\ LoadTypes' /\ OtherTypes'
  BY <1>1 DEF OrgTypes, StampTypes, LoadTypes, OtherTypes, Holds, Snapshot
<1>4. StepTypes'
  BY <1>1, <1>2 DEF StepTypes, StampTypes
<1>5. ASSUME NEW a \in AllSeats PROVE Faithful(a)
  BY <1>1, <1>5 DEF Faithful, Rereads
<1> QED
  BY <1>3, <1>4, <1>5, FaithfulKeeps

(* The screen reads the inventory: a brief that is on the screen and not   *)
(* of a seat any more is nobody's to read.                                 *)
LEMMA ReadSeatsKeeps ==
    ASSUME OrgStrong, Sees, ReadSeats
    PROVE  OrgStrong'
<1> USE DEF OrgStrong, OrgKinds
<1>1. /\ UNCHANGED <<coverage, files, visits, clock, load, other, ui>> /\ step.at = "seats"
      /\ step'.at = "texts" /\ step'.seats = Inventory
  BY DEF ReadSeats
<1>2. Inventory \subseteq AllSeats /\ Root \in Inventory /\ Inventory' = Inventory
  BY <1>1, InventoryIs DEF OrgTypes, Inventory, Scaffolded
<1>3. OrgTypes' /\ LoadTypes' /\ OtherTypes'
  BY <1>1 DEF OrgTypes, StampTypes, LoadTypes, OtherTypes, Holds, Snapshot
<1>4. StepTypes'
  BY <1>1, <1>2 DEF StepTypes, StampTypes
<1>5. ASSUME NEW a \in AllSeats PROVE Faithful(a)
  BY <1>1, <1>2, <1>5 DEF Faithful, Rereads, OnDisplay, OnOrg, Holds
<1> QED
  BY <1>3, <1>4, <1>5, FaithfulKeeps

(* The screen reads the briefs: what is on the screen is about to be shown *)
(* again.                                                                  *)
LEMMA ReadTextsKeeps ==
    ASSUME OrgStrong, Sees, ReadTexts
    PROVE  OrgStrong'
<1> USE DEF OrgStrong, OrgKinds
<1>1. /\ UNCHANGED <<coverage, files, visits, clock, load, other, ui>> /\ step.at = "texts"
      /\ step'.at = "times" /\ step'.seats = step.seats
      /\ step'.briefs = [a \in step.seats |-> files[a].brief]
  BY DEF ReadTexts
<1>2. OrgTypes' /\ LoadTypes' /\ OtherTypes'
  BY <1>1 DEF OrgTypes, StampTypes, LoadTypes, OtherTypes, Holds, Snapshot
<1>3. \A a \in step.seats : files[a].brief \in Nat
  BY <1>1 DEF StepTypes, OrgTypes
<1>4. StepTypes'
  BY <1>1, <1>3 DEF StepTypes, StampTypes
<1>5. ASSUME NEW a \in AllSeats PROVE Faithful(a)
  BY <1>1, <1>5 DEF Faithful, Rereads, OnDisplay, OnOrg, Holds
<1> QED
  BY <1>2, <1>4, <1>5, FaithfulKeeps

(* The screen reads the times, and shows the new snapshot.                 *)
LEMMA ReadTimesKeeps ==
    ASSUME OrgStrong, Sees, ReadTimes
    PROVE  OrgStrong'
<1> USE DEF OrgStrong, OrgKinds
<1>1. /\ UNCHANGED <<coverage, files, visits, clock, other>> /\ step.at = "times" /\ step'.at = "idle"
  BY DEF ReadTimes, TakeTimes, Idle
<1>2. PICK l : /\ load' = <<l>> /\ ui' = Shown(ui, l)
               /\ l.seats = step.seats /\ l.briefs = step.briefs
               /\ l.times = [a \in step.seats |-> files[a].brief]
  <2>1. PICK of \in VisitsRead(other) :
          LET l == [fp |-> step.fp, seats |-> step.seats, read |-> step.read, briefs |-> step.briefs,
                    facts |-> step.facts, visits |-> of,
                    times |-> [a \in step.seats |-> files[a].brief]]
          IN  load' = <<l>> /\ ui' = Shown(ui, l)
    BY DEF ReadTimes, TakeTimes
  <2> DEFINE l == [fp |-> step.fp, seats |-> step.seats, read |-> step.read, briefs |-> step.briefs,
                   facts |-> step.facts, visits |-> of,
                   times |-> [a \in step.seats |-> files[a].brief]]
  <2>2. /\ l.seats = step.seats /\ l.briefs = step.briefs
        /\ l.times = [a \in step.seats |-> files[a].brief]
    OBVIOUS
  <2>3. load' = <<l>> /\ ui' = Shown(ui, l)
    BY <2>1
  <2> HIDE DEF l
  <2> QED
    BY <2>2, <2>3
<1>3. Snapshot' = l /\ Holds'
  BY <1>2 DEF Snapshot, Holds
<1>4. /\ ui' = [tab |-> ui'.tab, view |-> ui'.view, brief |-> ui'.brief, sel |-> ui'.sel,
                 expanded |-> ui'.expanded, marked |-> ui'.marked]
      /\ ui'.tab = ui.tab /\ ui'.view = ui.view
      /\ ui'.brief = IF ui.brief \in l.seats THEN ui.brief ELSE Root
  <2> DEFINE e == IF ui.expanded = AllSeats THEN ui.expanded ELSE ui.expanded \cap l.seats
             d == DefaultSelected(l, ui.expanded, ui.sel)
             b == IF ui.brief \in l.seats THEN ui.brief ELSE Root
  <2>1. ui' = [ui EXCEPT !.expanded = e, !.sel = d, !.brief = b]
    BY <1>2 DEF Shown
  <2> HIDE DEF e, d, b
  <2>2. ui' = [tab |-> ui.tab, view |-> ui.view, brief |-> b, sel |-> d,
               expanded |-> e, marked |-> ui.marked]
    BY <2>1 DEF OrgTypes
  <2> QED
    BY <2>2 DEF b
<1>5. step.seats \subseteq AllSeats /\ Root \in step.seats
  BY <1>1 DEF StepTypes
<1>6. OrgTypes'
  BY <1>1, <1>2, <1>4, <1>5 DEF OrgTypes
<1>7. OtherTypes' /\ StepTypes'
  BY <1>1 DEF OtherTypes, StepTypes, StampTypes
<1>8. LoadTypes'
  <2>1. \A a \in step.seats : l.times[a] \in Nat
    BY <1>2, <1>5 DEF OrgTypes
  <2> QED
    BY <1>1, <1>2, <1>3, <1>4, <1>5, <2>1 DEF LoadTypes, StepTypes
<1>9. ASSUME NEW a \in AllSeats PROVE Faithful(a)
  <2>1. Rereads(a) => OnDisplay(a)' /\ Snapshot'.briefs[a] = files'[a].brief
    BY <1>1, <1>2, <1>3, <1>4 DEF Rereads, OnDisplay, OnOrg
  <2> QED
    BY <1>1, <2>1, <1>9 DEF Faithful
<1> QED
  BY <1>6, <1>7, <1>8, <1>9, FaithfulKeeps

(* The screen reads the stamps, to mark the brief that it shows.           *)
LEMMA MarkReadsKeeps ==
    ASSUME OrgStrong, Sees, MarkReads \/ MarkFails
    PROVE  OrgStrong'
<1> USE DEF OrgStrong, OrgKinds
<1>1. /\ UNCHANGED <<coverage, files, visits, clock, load, other>> /\ step.at = "idle"
      /\ ui' = [ui EXCEPT !.marked = MarkKey]
      /\ ui.tab = "org" /\ ui.view = "briefs" /\ Holds
  BY DEF MarkReads, MarkFails, MarkDue, OnOrg
<1>2. ui' = [tab |-> ui.tab, view |-> ui.view, brief |-> ui.brief, sel |-> ui.sel,
             expanded |-> ui.expanded, marked |-> MarkKey]
  <2> HIDE DEF MarkKey
  <2> QED
    BY <1>1 DEF OrgTypes
<1>3. /\ ui'.tab = ui.tab /\ ui'.view = ui.view /\ ui'.brief = ui.brief
      /\ ui' = [tab |-> ui'.tab, view |-> ui'.view, brief |-> ui'.brief, sel |-> ui'.sel,
                 expanded |-> ui'.expanded, marked |-> ui'.marked]
  BY <1>2
<1>4. OrgTypes' /\ LoadTypes' /\ OtherTypes'
  BY <1>1, <1>3 DEF OrgTypes, StampTypes, LoadTypes, OtherTypes, Holds, Snapshot
<1>5. OnDisplay(ui.brief)'
  BY <1>1, <1>3 DEF OnDisplay, OnOrg, Holds
<1>6. CASE MarkFails
  <2>1. step' = step
    BY <1>6 DEF MarkFails
  <2>2. StepTypes'
    BY <1>1, <2>1 DEF StepTypes, StampTypes
  <2>3. ASSUME NEW a \in AllSeats PROVE Faithful(a)
    BY <1>1, <2>1, <2>3 DEF Faithful, Rereads
  <2> QED
    BY <1>4, <2>2, <2>3, FaithfulKeeps
<1>7. CASE MarkReads
  <2>1. PICK of \in VisitsRead(other) : step' = Stamping(of, ui.brief)
    BY <1>7 DEF MarkReads
  <2>2. ui.brief \in AllSeats
    BY DEF OrgTypes
  <2>3. /\ step'.at = "stamping" /\ step'.brief = ui.brief
        /\ step'.of \in [AllSeats -> Nat]
        /\ \A a \in AllSeats : /\ step'.of[a] <= clock
                               /\ a # ui.brief => step'.of[a] \in {0, visits.of[a]}
    BY <2>1, <2>2, StampingIs
  <2>4. StepTypes'
    BY <1>1, <1>5, <2>2, <2>3 DEF StepTypes, StampTypes, OnDisplay, OnOrg, Holds
  <2>5. ASSUME NEW a \in AllSeats PROVE Faithful(a)
    BY <1>1, <2>3, <2>5 DEF Faithful, Rereads
  <2> QED
    BY <1>4, <2>4, <2>5, FaithfulKeeps
<1> QED
  BY <1>6, <1>7

(* The screen writes its stamps, and reads everything again: the brief it  *)
(* has marked too.                                                         *)
LEMMA MarkWritesKeeps ==
    ASSUME OrgStrong, Sees, MarkWrites
    PROVE  OrgStrong'
<1> USE DEF OrgStrong, OrgKinds
<1>1. /\ UNCHANGED <<coverage, files, clock, load, other, ui>> /\ step.at = "stamping"
      /\ visits' = [of |-> step.of, at |-> visits.at + 1]
      /\ step'.at = "seats"
  BY DEF MarkWrites, Stamp, Reading
<1>2. Inventory \subseteq AllSeats /\ Root \in Inventory /\ Inventory' = Inventory
  BY <1>1, InventoryIs DEF OrgTypes, Inventory, Scaffolded
<1>3. /\ step.of \in [AllSeats -> Nat] /\ \A a \in AllSeats : step.of[a] <= clock
      /\ visits.at \in Nat /\ OnDisplay(step.brief)
  BY <1>1 DEF StepTypes, StampTypes, OrgTypes
<1>4. visits' \in [of : [AllSeats -> Nat], at : Nat] /\ visits'.of = step.of
  BY <1>1, <1>3
<1>5. OrgTypes'
  BY <1>1, <1>3, <1>4 DEF OrgTypes
<1>6. LoadTypes' /\ OtherTypes' /\ StepTypes'
  BY <1>1, <1>2 DEF StampTypes, LoadTypes, OtherTypes, StepTypes, Holds, Snapshot
<1>7. ASSUME NEW a \in AllSeats PROVE Faithful(a)
  <2>1. step.brief = a => Rereads(a)' \/ a \notin Inventory'
    BY <1>1, <1>2, <1>3 DEF Rereads, OnDisplay, OnOrg, Holds
  <2> QED
    BY <1>1, <1>4, <1>7, <2>1 DEF Faithful, Rereads
<1> QED
  BY <1>5, <1>6, <1>7, FaithfulKeeps
-----------------------------------------------------------------------------
(* Every seat has one place in the order of paths.                         *)
LEMMA Positions ==
    /\ \A a \in AllSeats : Position(a) \in DOMAIN Seats /\ Seats[Position(a)] = a
    /\ DOMAIN Seats = 1..Len(Seats) /\ Len(Seats) \in Nat
    /\ \A i, j \in DOMAIN Seats : Seats[i] = Seats[j] => i = j
    /\ IsFiniteSet(AllSeats)
<1>1. /\ DOMAIN Seats = 1..Len(Seats) /\ Len(Seats) \in Nat
      /\ \A i, j \in DOMAIN Seats : Seats[i] = Seats[j] => i = j
  BY OrgScreenBounds DEF IsInjective
<1>2. \A a \in AllSeats : \E i \in DOMAIN Seats : Seats[i] = a
  BY DEF AllSeats, Range
<1>3. \A a \in AllSeats : Position(a) \in DOMAIN Seats /\ Seats[Position(a)] = a
  BY <1>2 DEF Position
<1>4. IsFiniteSet(AllSeats)
  <2> DEFINE f == [a \in AllSeats |-> Position(a)]
  <2>1. f \in [AllSeats -> DOMAIN Seats]
    BY <1>3
  <2>2. \A a, b \in AllSeats : f[a] = f[b] => a = b
    BY <1>3
  <2>3. f \in Injection(AllSeats, DOMAIN Seats)
    BY <2>1, <2>2 DEF Injection, IsInjective
  <2>4. IsFiniteSet(DOMAIN Seats)
    BY <1>1, FS_Interval
  <2> QED
    BY <2>3, <2>4, FS_Injection
<1> QED
  BY <1>1, <1>3, <1>4

(* The queue of a snapshot's unread briefs is of its seats.                *)
LEMMA QueueOfSeats ==
    ASSUME NEW l, l.seats \subseteq AllSeats, \A a \in l.seats : l.times[a] \in Nat
    PROVE  /\ Cardinality(UnreadIn(l)) \in Nat
           /\ UnreadBriefs(l) \in [1..Cardinality(UnreadIn(l)) -> l.seats]
<1> DEFINE waiting == UnreadIn(l)
           R == {p \in waiting \X waiting :
                   \/ l.times[p[1]] > l.times[p[2]]
                   \/ l.times[p[1]] = l.times[p[2]] /\ Position(p[1]) < Position(p[2])}
           before(a) == {b \in waiting : \/ l.times[b] > l.times[a]
                                         \/ l.times[b] = l.times[a] /\ Position(b) < Position(a)}
           nth(k) == CHOOSE a \in waiting : Cardinality(before(a)) = k - 1
<1>1. waiting \subseteq l.seats
  BY DEF UnreadIn
<1>2. \A a \in waiting : l.times[a] \in Nat /\ a \in AllSeats
  BY <1>1
<1> HIDE DEF waiting
<1>3. IsFiniteSet(waiting) /\ Cardinality(waiting) \in Nat
  <2>1. waiting \in SUBSET AllSeats
    BY <1>2
  <2> QED
    BY <2>1, Positions, FS_Subset, FS_CardinalityType
<1>4. \A a, b \in waiting : <<a, b>> \in R <=> a \in before(b)
  OBVIOUS
<1>5. /\ \A a \in waiting : Position(a) \in Nat
      /\ \A a, b \in waiting : a # b => Position(a) # Position(b)
  BY <1>2, Positions
<1>6. /\ \A a \in waiting : <<a, a>> \notin R
      /\ \A a, b \in waiting : a # b => <<a, b>> \in R \/ <<b, a>> \in R
      /\ \A a, b, c \in waiting : <<a, b>> \in R /\ <<b, c>> \in R => <<a, c>> \in R
  BY <1>2, <1>5
<1>7. \A a \in waiting : before(a) = {b \in waiting : <<b, a>> \in R}
  OBVIOUS
<1> HIDE DEF R, before
<1>8. \A k \in 0..(Cardinality(waiting) - 1) : \E a \in waiting : Cardinality(before(a)) = k
  <2>1. \A k \in 0..(Cardinality(waiting) - 1) :
          \E a \in waiting : Cardinality({b \in waiting : <<b, a>> \in R}) = k
    BY <1>3, <1>6, Ranked, ZenonT(60)
  <2> QED
    BY <1>7, <2>1
<1>9. ASSUME NEW k \in 1..Cardinality(waiting) PROVE nth(k) \in waiting
  <2>1. k - 1 \in 0..(Cardinality(waiting) - 1)
    BY <1>3, <1>9
  <2>2. \E a \in waiting : Cardinality(before(a)) = k - 1
    BY <1>8, <2>1
  <2> QED
    BY <2>2
<1>10. UnreadBriefs(l) = [k \in 1..Cardinality(waiting) |-> nth(k)]
  BY DEF UnreadBriefs, waiting, before
<1> HIDE DEF nth
<1>11. UnreadBriefs(l) \in [1..Cardinality(waiting) -> l.seats]
  BY <1>1, <1>9, <1>10
<1> QED
  BY <1>3, <1>11 DEF waiting

(* A sequence of one member.                                               *)
LEMMA OneOf ==
    ASSUME NEW S, NEW x \in S PROVE <<x>> \in Seq(S) /\ Len(<<x>>) = 1 /\ <<x>>[1] = x
OBVIOUS

(* Keys: the brief they put on the screen is one of the snapshot.          *)
LEMMA KeysKeep ==
    ASSUME OrgStrong, Sees,
           ViewKey \/ LeaveKey \/ MoveInTree \/ ToggleKey \/ MoveInBriefs
    PROVE  OrgStrong'
<1> USE DEF OrgStrong, OrgKinds
<1>1. /\ UNCHANGED <<coverage, files, visits, clock, load, step, other>> /\ step.at = "idle"
  BY DEF ViewKey, LeaveKey, MoveInTree, ToggleKey, MoveInBriefs, OrgKey, Ready
<1>2. /\ ui'.tab \in {"org", "other"} /\ ui'.view \in {"tree", "ops", "briefs"}
      /\ ui'.brief \in AllSeats
      /\ Holds => ui'.brief \in Snapshot.seats
      /\ ui' = [tab |-> ui'.tab, view |-> ui'.view, brief |-> ui'.brief, sel |-> ui'.sel,
                expanded |-> ui'.expanded, marked |-> ui'.marked]
  <2>1. CASE ViewKey
    <3>1. ui' = [ui EXCEPT !.view = NextView[@]]
      BY <2>1 DEF ViewKey
    <3>2. ui' = [tab |-> ui.tab, view |-> NextView[ui.view], brief |-> ui.brief, sel |-> ui.sel,
                 expanded |-> ui.expanded, marked |-> ui.marked]
      BY <3>1 DEF OrgTypes
    <3>3. NextView[ui.view] \in {"tree", "ops", "briefs"}
      BY DEF OrgTypes, NextView
    <3> QED
      BY <3>2, <3>3 DEF OrgTypes, LoadTypes
  <2>2. CASE LeaveKey
    BY <2>2, SeatsFacts DEF LeaveKey, Mounted, OrgTypes, LoadTypes
  <2>3. CASE MoveInTree
    <3>1. PICK x : ui' = [ui EXCEPT !.sel = x]
      BY <2>3 DEF MoveInTree
    <3>2. ui' = [tab |-> ui.tab, view |-> ui.view, brief |-> ui.brief, sel |-> x,
                 expanded |-> ui.expanded, marked |-> ui.marked]
      BY <3>1 DEF OrgTypes
    <3> QED
      BY <3>2 DEF OrgTypes, LoadTypes
  <2>4. CASE ToggleKey
    <3>1. PICK x : ui' = [ui EXCEPT !.expanded = x]
      BY <2>4 DEF ToggleKey
    <3>2. ui' = [tab |-> ui.tab, view |-> ui.view, brief |-> ui.brief, sel |-> ui.sel,
                 expanded |-> x, marked |-> ui.marked]
      BY <3>1 DEF OrgTypes
    <3> QED
      BY <3>2 DEF OrgTypes, LoadTypes
  <2>5. CASE MoveInBriefs
    <3> DEFINE waiting == UnreadBriefs(Snapshot)
               queue  == <<Root>> \o waiting
               n      == Cardinality(UnreadIn(Snapshot))
    <3>1. Holds
      BY <2>5 DEF MoveInBriefs
    <3>2. Snapshot.seats \subseteq AllSeats /\ Root \in Snapshot.seats
      BY <3>1 DEF LoadTypes
    <3>3. n \in Nat /\ waiting \in [1..n -> Snapshot.seats]
      BY <3>1, <3>2, QueueOfSeats DEF LoadTypes
    <3>4. PICK delta \in {-1, 1} :
            ui' = [ui EXCEPT !.brief = queue[1 + ((PlaceIn(queue, ui.brief) - 1 + delta) % Len(queue))]]
      BY <2>5 DEF MoveInBriefs
    <3> HIDE DEF waiting, n
    <3>5. waiting \in Seq(Snapshot.seats) /\ <<Root>> \in Seq(Snapshot.seats)
      <4>1. waiting \in UNION {[1..k -> Snapshot.seats] : k \in Nat}
        BY <3>3
      <4>2. <<Root>> \in Seq(Snapshot.seats)
        BY <3>2, OneOf
      <4> QED
        BY <4>1, <4>2, SeqDef
    <3>6. queue \in Seq(Snapshot.seats) /\ Len(queue) \in Nat /\ Len(queue) > 0
      BY <3>5, ConcatProperties
    <3> DEFINE place == PlaceIn(queue, ui.brief)
    <3> HIDE DEF queue
    <3>7. place \in Int
      <4>1. CASE Contains(queue, ui.brief)
        <5> DEFINE P == {i \in DOMAIN queue : queue[i] = ui.brief}
        <5>1. P \in SUBSET Nat /\ P # {}
          BY <3>6, <4>1 DEF Contains
        <5> HIDE DEF P
        <5>2. \E i \in P : \A j \in P : i <= j
          BY <5>1, LeastNumber
        <5>3. Min(P) \in P
          BY <5>2 DEF Min
        <5> QED
          BY <4>1, <5>1, <5>3 DEF PlaceIn, P
      <4>2. CASE ~Contains(queue, ui.brief)
        BY <4>2 DEF PlaceIn
      <4> QED
        BY <4>1, <4>2
    <3> HIDE DEF place
    <3>8. 1 + ((place - 1 + delta) % Len(queue)) \in 1..Len(queue)
      BY <3>4, <3>6, <3>7
    <3> DEFINE b == queue[1 + ((place - 1 + delta) % Len(queue))]
    <3>9. b \in Snapshot.seats
      BY <3>6, <3>8
    <3>10. ui' = [ui EXCEPT !.brief = b]
      BY <3>4 DEF place
    <3> HIDE DEF b
    <3>11. ui' = [tab |-> ui.tab, view |-> ui.view, brief |-> b, sel |-> ui.sel,
                  expanded |-> ui.expanded, marked |-> ui.marked]
      BY <3>10 DEF OrgTypes
    <3> QED
      BY <3>2, <3>9, <3>11 DEF OrgTypes
  <2> QED
    BY <2>1, <2>2, <2>3, <2>4, <2>5
<1>3. OrgTypes' /\ OtherTypes' /\ StepTypes'
  BY <1>1, <1>2 DEF OrgTypes, OtherTypes, StepTypes, StampTypes
<1>4. LoadTypes'
  BY <1>1, <1>2 DEF LoadTypes, Holds, Snapshot
<1>5. ASSUME NEW a \in AllSeats PROVE Faithful(a)
  BY <1>1, <1>5 DEF Faithful, Rereads
<1> QED
  BY <1>3, <1>4, <1>5, FaithfulKeeps

(* The invariant holds at the start.                                       *)
LEMMA OrgStarts == OrgInit => OrgStrong
<1> SUFFICES ASSUME OrgInit PROVE OrgStrong
  OBVIOUS
<1> USE DEF OrgInit, Idle, Mounted
<1>1. /\ files = [a \in AllSeats |-> [brief |-> 2, facts |-> FactsAtFirst, at |-> 2, past |-> 2]]
      /\ clock = 2 /\ FactsAtFirst \in Facts /\ Root \in AllSeats
  BY SeatsFacts, OrgScreenBounds
<1>2. /\ files \in [AllSeats -> [brief : Nat, facts : Facts, at : Nat, past : Nat]]
      /\ \A a \in AllSeats : files[a].brief = 2 /\ files[a].at = 2 /\ files[a].past = 2
  BY <1>1
<1>3. OrgTypes
  BY <1>1, <1>2 DEF OrgTypes
<1>4. StepTypes /\ OtherTypes /\ LoadTypes
  BY DEF StepTypes, OtherTypes, StampTypes, LoadTypes, Holds
<1>5. SeenTypes /\ StampsSafe
  BY <1>2 DEF SeenTypes, StampsSafe, Safe
<1>6. UncoveredSeen
  BY DEF UncoveredSeen, Inventory
<1> QED
  BY <1>3, <1>4, <1>5, <1>6 DEF OrgStrong, OrgKinds

(* Steps of the run view leave the Org tab as it is.                       *)
LEMMA OrgRests ==
    ASSUME OrgStrong, UNCHANGED orgVars
    PROVE  OrgStrong'
<1>1. UNCHANGED <<coverage, files, visits, clock, load, step, other, ui, seen>>
  BY DEF orgVars
<1>2. OrgTypes' /\ StepTypes' /\ OtherTypes' /\ LoadTypes' /\ SeenTypes'
  BY <1>1 DEF OrgStrong, OrgKinds, OrgTypes, StepTypes, OtherTypes, LoadTypes, StampTypes, SeenTypes,
              OnDisplay, OnOrg, Holds, Snapshot
<1>3. StampsSafe'
  BY <1>1 DEF OrgStrong, StampsSafe, Safe, Rereads, OnDisplay, OnOrg, Holds
<1>4. UncoveredSeen'
  BY <1>1 DEF OrgStrong, UncoveredSeen, Inventory, Scaffolded
<1> QED
  BY <1>2, <1>3, <1>4 DEF OrgStrong, OrgKinds

(* The invariant holds in every state of the screens.                      *)
LEMMA OrgStrongHolds == TuiSpec => []OrgStrong
<1>1. TuiInit => OrgStrong
  BY OrgStarts DEF TuiInit
<1>2. OrgStrong /\ [TuiNext]_tuiVars => OrgStrong'
  <2> SUFFICES ASSUME OrgStrong, [TuiNext]_tuiVars PROVE OrgStrong'
    OBVIOUS
  <2>1. CASE UNCHANGED tuiVars
    BY <2>1, OrgRests DEF tuiVars
  <2>2. CASE OfRun(RunScreenNext)
    BY <2>2, OrgRests DEF OfRun
  <2>3. CASE OfOrg(OrgScreenNext)
    <3>1. Sees
      BY <2>3 DEF OfOrg, OrgScreenNext
    <3>2. CASE WriteBrief \/ WriteOthers \/ WriteUnwatched \/ WriteCoverage
      BY <3>1, <3>2, WritesKeep
    <3>3. CASE OtherReads
      BY <3>1, <3>3, OtherReadsKeeps
    <3>4. CASE OtherWrites
      BY <3>1, <3>4, OtherWritesKeeps
    <3>5. CASE Refresh
      BY <3>1, <3>5, RefreshKeeps
    <3>6. CASE ReadSeats \/ ReadTexts
      BY <3>1, <3>6, ReadSeatsKeeps, ReadTextsKeeps
    <3>7. CASE ReadTimes
      BY <3>1, <3>7, ReadTimesKeeps
    <3>8. CASE MarkReads \/ MarkFails
      BY <3>1, <3>8, MarkReadsKeeps
    <3>9. CASE MarkWrites
      BY <3>1, <3>9, MarkWritesKeeps
    <3>10. CASE ViewKey \/ LeaveKey \/ MoveInTree \/ ToggleKey \/ MoveInBriefs
      BY <3>1, <3>10, KeysKeep
    <3> QED
      BY <2>3, <3>2, <3>3, <3>4, <3>5, <3>6, <3>7, <3>8, <3>9, <3>10
      DEF OfOrg, OrgScreenNext, ScreenReads
  <2> QED
    BY <2>1, <2>2, <2>3 DEF TuiNext
<1> QED
  BY <1>1, <1>2, PTL DEF TuiSpec

(* No brief is taken for read that nobody has seen as it is: for any       *)
(* organisation, any number of writes while the screen reads, and another  *)
(* screen that rewrites the stamps at any moment.                          *)
THEOREM NothingUnseenIsRead == TuiSpec => []NothingReadUnseen
<1>1. OrgStrong => NothingReadUnseen
  <2> SUFFICES ASSUME OrgStrong, NEW a \in AllSeats
               PROVE  \/ Unread(files[a].brief, visits.of[a])
                      \/ seen[a] = files[a].brief
                      \/ step.at \in {"seats", "texts", "times"} /\ OnDisplay(a)
    BY DEF NothingReadUnseen
  <2>1. Safe(visits.of[a], a) /\ files[a].brief # 0
    BY DEF OrgStrong, OrgKinds, OrgTypes, StampsSafe
  <2> QED
    BY <2>1 DEF Safe, Unread, Rereads
<1> QED
  BY <1>1, OrgStrongHolds, PTL
-----------------------------------------------------------------------------
(* The tree of the Org tab.                                                *)

(* Sorted() lists every member of a set of seats once, by their places.    *)
LEMMA SortedIs ==
    ASSUME NEW S \in SUBSET AllSeats
    PROVE  /\ Sorted(S) \in Seq(S) /\ DOMAIN Sorted(S) = 1..Len(Sorted(S)) /\ Len(Sorted(S)) \in Nat
           /\ \A i \in DOMAIN Sorted(S) : Sorted(S)[i] \in S
           /\ \A a : Contains(Sorted(S), a) <=> a \in S
           /\ \A i, j \in DOMAIN Sorted(S) : i < j => Position(Sorted(S)[i]) < Position(Sorted(S)[j])
           /\ \A i, j \in DOMAIN Sorted(S) : Sorted(S)[i] = Sorted(S)[j] => i = j
<1> DEFINE pos == [a \in S |-> Position(a)]
           n == Cardinality(S)
           rank(a) == Cardinality({b \in S : Position(b) < Position(a)})
           nth(k) == CHOOSE a \in S : rank(a) = k - 1
<1>1. IsFiniteSet(S)
  BY Positions, FS_Subset
<1>2. \A a \in S : Position(a) \in Nat
  BY Positions
<1>3. \A a, b \in S : Position(a) = Position(b) => a = b
  BY Positions
<1>4. /\ n \in Nat
      /\ \A k \in 1..n : \E a \in S : rank(a) = k - 1
      /\ \A a \in S : rank(a) \in 0..(n - 1)
      /\ \A a, c \in S : Position(a) < Position(c) => rank(a) < rank(c)
  <2>1. \A a \in S : pos[a] = Position(a)
    OBVIOUS
  <2>2. Numbered(S, pos)
    BY <1>2, <1>3, <2>1 DEF Numbered
  <2>3. \A a \in S : {b \in S : pos[b] < pos[a]} = {b \in S : Position(b) < Position(a)}
    BY <2>1
  <2> HIDE DEF pos
  <2>4. RanksBy(S, pos)
    BY <1>1, <2>2, RankByNumber
  <2> USE DEF RanksBy
  <2> QED
    BY <2>1, <2>3, <2>4
<1>5. Sorted(S) = [k \in 1..n |-> nth(k)]
  BY DEF Sorted
<1> HIDE DEF rank, n
<1>6. \A k \in 1..n : nth(k) \in S /\ rank(nth(k)) = k - 1
  BY <1>4
<1> HIDE DEF nth
<1>7. Sorted(S) \in [1..n -> S] /\ \A i \in 1..n : Sorted(S)[i] = nth(i)
  BY <1>5, <1>6
<1>8. Sorted(S) \in Seq(S) /\ Len(Sorted(S)) = n /\ DOMAIN Sorted(S) = 1..n
  <2>1. Sorted(S) \in UNION {[1..k -> S] : k \in Nat}
    BY <1>4, <1>7
  <2>2. Sorted(S) \in Seq(S)
    BY <2>1, SeqDef
  <2> QED
    BY <1>4, <1>7, <2>2
<1>9. \A i, j \in 1..n : i < j => Position(nth(i)) < Position(nth(j))
  <2> SUFFICES ASSUME NEW i \in 1..n, NEW j \in 1..n, i < j, ~(Position(nth(i)) < Position(nth(j)))
               PROVE  FALSE
    OBVIOUS
  <2>1. rank(nth(i)) = i - 1 /\ rank(nth(j)) = j - 1 /\ nth(i) \in S /\ nth(j) \in S
    BY <1>6
  <2>2. Position(nth(i)) \in Nat /\ Position(nth(j)) \in Nat
    BY <1>2, <2>1
  <2>3. CASE Position(nth(j)) < Position(nth(i))
    <3>1. rank(nth(j)) < rank(nth(i))
      BY <1>4, <2>1, <2>3
    <3> QED
      BY <1>4, <2>1, <3>1
  <2>4. CASE Position(nth(j)) = Position(nth(i))
    <3>1. nth(i) = nth(j)
      BY <1>3, <2>1, <2>4
    <3> QED
      BY <1>4, <2>1, <3>1
  <2> QED
    BY <2>2, <2>3, <2>4
<1>10. \A i, j \in 1..n : nth(i) = nth(j) => i = j
  BY <1>4, <1>6
<1>11. \A a \in S : \E i \in 1..n : nth(i) = a
  <2> SUFFICES ASSUME NEW a \in S PROVE \E i \in 1..n : nth(i) = a
    OBVIOUS
  <2>1. rank(a) + 1 \in 1..n /\ (rank(a) + 1) - 1 = rank(a)
    BY <1>4
  <2>2. nth(rank(a) + 1) \in S /\ rank(nth(rank(a) + 1)) = rank(a)
    BY <1>6, <2>1
  <2>3. nth(rank(a) + 1) = a
    <3>1. ~(Position(a) < Position(nth(rank(a) + 1))) /\ ~(Position(nth(rank(a) + 1)) < Position(a))
      BY <1>4, <2>1, <2>2
    <3> QED
      BY <1>2, <1>3, <2>2, <3>1
  <2> QED
    BY <2>1, <2>3
<1>12. \A a : Contains(Sorted(S), a) <=> a \in S
  BY <1>6, <1>7, <1>8, <1>11 DEF Contains
<1> QED
  BY <1>4, <1>6, <1>7, <1>8, <1>9, <1>10, <1>12

(* The parent of a seat has a place before it.                             *)
LEMMA ParentFirst ==
    ASSUME NEW c \in AllSeats, c # Root
    PROVE  Parent[c] \in AllSeats /\ Position(Parent[c]) < Position(c)
<1>1. Position(c) \in DOMAIN Seats /\ Seats[Position(c)] = c
  BY Positions
<1>2. Position(c) > 1
  <2>1. Seats # << >> /\ Root = Seats[1] /\ Position(c) \in Nat /\ Position(c) # 0
    BY <1>1, OrgScreenBounds, Positions DEF Root
  <2> QED
    BY <1>1, <2>1
<1>3. PICK j \in 1..(Position(c) - 1) : Seats[j] = Parent[c]
  BY <1>1, <1>2, OrgScreenBounds
<1>4. j \in DOMAIN Seats /\ j < Position(c) /\ Parent[c] \in AllSeats
  BY <1>1, <1>3, Positions, OrgScreenBounds
<1>5. Position(Parent[c]) = j
  BY <1>3, <1>4, Positions
<1> QED
  BY <1>4, <1>5

(* The children of a seat, in the snapshot l, come after it.               *)
LEMMA ChildrenAre ==
    ASSUME NEW l, l.seats \subseteq AllSeats, NEW a
    PROVE  /\ Children(l, a) \in Seq(l.seats)
           /\ DOMAIN Children(l, a) = 1..Len(Children(l, a)) /\ Len(Children(l, a)) \in Nat
           /\ \A i \in DOMAIN Children(l, a) :
                LET c == Children(l, a)[i]
                IN  c \in l.seats /\ c # Root /\ Parent[c] = a /\ Position(c) > Position(a)
           /\ \A i, j \in DOMAIN Children(l, a) : Children(l, a)[i] = Children(l, a)[j] => i = j
<1> DEFINE S == {c \in l.seats \ {Root} : Parent[c] = a}
<1>1. S \in SUBSET AllSeats
  OBVIOUS
<1>2. \A c \in S : c \in l.seats /\ c # Root /\ Parent[c] = a /\ c \in AllSeats
  OBVIOUS
<1> HIDE DEF S
<1>3. /\ Sorted(S) \in Seq(S) /\ DOMAIN Sorted(S) = 1..Len(Sorted(S)) /\ Len(Sorted(S)) \in Nat
      /\ \A i \in DOMAIN Sorted(S) : Sorted(S)[i] \in S
      /\ \A i, j \in DOMAIN Sorted(S) : Sorted(S)[i] = Sorted(S)[j] => i = j
  BY <1>1, SortedIs
<1>4. Children(l, a) = Sorted(S)
  BY DEF Children, S
<1>5. ASSUME NEW c \in S PROVE Position(c) > Position(a)
  BY <1>2, ParentFirst
<1>6. Sorted(S) \in Seq(l.seats)
  BY <1>2, <1>3
<1> QED
  BY <1>2, <1>3, <1>4, <1>5, <1>6

(* The rows of the tree in the snapshot l, with the agents of open         *)
(* unfolded: what follows that of a, when f has the rows of its children.  *)
Below(l, open, a) == IF a \in open THEN Children(l, a) ELSE << >>
RowsBelow(l, open, f, a) == [i \in DOMAIN Below(l, open, a) |-> f[Below(l, open, a)[i]]]
RowsWith(l, open, f, a) == <<a>> \o FlattenSeq(RowsBelow(l, open, f, a))

(* f has the rows of the agents in D, and of those under them.             *)
HasRows(f, l, open, D) ==
    f \in [D -> Seq(AllSeats)] /\ \A a \in D : f[a] = RowsWith(l, open, f, a)

(* The children that are shown come after their parent, each once.         *)
LEMMA BelowIs ==
    ASSUME NEW l, l.seats \subseteq AllSeats, NEW open, NEW a
    PROVE  /\ Below(l, open, a) \in Seq(l.seats)
           /\ DOMAIN Below(l, open, a) = 1..Len(Below(l, open, a)) /\ Len(Below(l, open, a)) \in Nat
           /\ \A i \in DOMAIN Below(l, open, a) :
                LET c == Below(l, open, a)[i]
                IN  c \in l.seats /\ c # Root /\ Parent[c] = a /\ Position(c) > Position(a)
           /\ \A i, j \in DOMAIN Below(l, open, a) :
                Below(l, open, a)[i] = Below(l, open, a)[j] => i = j
<1>1. CASE a \in open
  <2>1. Below(l, open, a) = Children(l, a)
    BY <1>1 DEF Below
  <2> QED
    BY <2>1, ChildrenAre
<1>2. CASE a \notin open
  <2>1. Below(l, open, a) = << >>
    BY <1>2 DEF Below
  <2>2. << >> \in Seq(l.seats) /\ DOMAIN << >> = 1..0 /\ Len(<< >>) = 0 /\ 1..0 = {}
    OBVIOUS
  <2> HIDE DEF Below
  <2> QED
    BY <2>1, <2>2
<1> QED
  BY <1>1, <1>2

(* Rows of later agents amount to rows of an agent.                        *)
LEMMA RowsWithIs ==
    ASSUME NEW l, l.seats \subseteq AllSeats, NEW open, NEW a \in AllSeats, NEW f, NEW h,
           \A c \in AllSeats : Position(c) > Position(a) => f[c] \in Seq(AllSeats) /\ h[c] = f[c]
    PROVE  /\ RowsWith(l, open, f, a) \in Seq(AllSeats)
           /\ RowsWith(l, open, h, a) = RowsWith(l, open, f, a)
<1> DEFINE below == Below(l, open, a)
           n == Len(below)
           ss == RowsBelow(l, open, f, a)
<1>1. /\ DOMAIN below = 1..n /\ n \in Nat
      /\ \A i \in DOMAIN below : below[i] \in AllSeats /\ Position(below[i]) > Position(a)
  BY BelowIs
<1>2. ss = [i \in 1..n |-> f[below[i]]]
  BY <1>1 DEF RowsBelow
<1>3. RowsBelow(l, open, h, a) = [i \in 1..n |-> h[below[i]]]
  BY <1>1 DEF RowsBelow
<1> HIDE DEF below, n, ss
<1>4. \A i \in 1..n : f[below[i]] \in Seq(AllSeats) /\ h[below[i]] = f[below[i]]
  BY <1>1
<1>5. Parts(ss, n, AllSeats)
  BY <1>2, <1>4 DEF Parts
<1>6. FlattenSeq(ss) \in Seq(AllSeats)
  BY <1>1, <1>5, FlatIs
<1>7. RowsBelow(l, open, h, a) = ss
  BY <1>2, <1>3, <1>4
<1>8. <<a>> \in Seq(AllSeats)
  BY OneOf
<1>9. <<a>> \o FlattenSeq(ss) \in Seq(AllSeats)
  BY <1>6, <1>8, ConcatProperties
<1> QED
  BY <1>7, <1>9 DEF RowsWith, ss

(* The function that RowsFrom() describes is there.                        *)
LEMMA RowsThere ==
    ASSUME NEW l, l.seats \subseteq AllSeats, NEW open
    PROVE  \E f : f = [a \in AllSeats |-> RowsWith(l, open, f, a)]
<1> DEFINE N == Len(Seats)
           After(p) == {a \in AllSeats : Position(a) > p}
           Bad == {d \in 0..N : ~\E f : HasRows(f, l, open, After(N - d))}
<1>1. N \in Nat /\ \A a \in AllSeats : Position(a) \in 1..N
  BY Positions
<1> HIDE DEF N
<1>2. Bad = {}
  <2> SUFFICES ASSUME Bad # {} PROVE FALSE
    OBVIOUS
  <2>1. Bad \in SUBSET Nat
    BY <1>1
  <2>2. PICK d \in Bad : \A k \in Bad : d <= k
    <3> HIDE DEF Bad
    <3> QED
      BY <2>1, LeastNumber
  <2>3. d \in 0..N /\ ~\E f : HasRows(f, l, open, After(N - d))
    BY <2>2
  <2>4. CASE d = 0
    <3>1. After(N - d) = {}
      BY <1>1, <2>4
    <3> DEFINE f == [a \in {} |-> << >>]
    <3>2. f \in [{} -> Seq(AllSeats)]
      OBVIOUS
    <3>3. HasRows(f, l, open, After(N - d))
      BY <3>1, <3>2 DEF HasRows
    <3> QED
      BY <2>3, <3>3
  <2>5. CASE d # 0
    <3>1. d - 1 \in 0..N /\ ~(d <= d - 1)
      BY <1>1, <2>3, <2>5
    <3>2. d - 1 \notin Bad
      <4> HIDE DEF Bad
      <4> QED
        BY <2>2, <3>1
    <3> DEFINE p == N - d
               Old == After(N - (d - 1))
    <3>3. PICK f : HasRows(f, l, open, Old)
      BY <3>1, <3>2
    <3>4. \A a \in AllSeats : (a \in After(p) <=> Position(a) > p) /\ (a \in Old <=> Position(a) > p + 1)
      BY <1>1, <2>3
    <3>5. Old \subseteq AllSeats /\ After(p) \subseteq AllSeats /\ p \in Nat
      BY <1>1, <2>3
    <3>6. f \in [Old -> Seq(AllSeats)] /\ \A a \in Old : f[a] = RowsWith(l, open, f, a)
      BY <3>3 DEF HasRows
    <3> DEFINE h == [a \in After(p) |-> IF a \in Old THEN f[a] ELSE RowsWith(l, open, f, a)]
    <3>7. \A a \in After(p) : h[a] = IF a \in Old THEN f[a] ELSE RowsWith(l, open, f, a)
      OBVIOUS
    <3>8. h = [a \in After(p) |-> h[a]]
      OBVIOUS
    <3> HIDE DEF h, p, Old, After
    <3>9. ASSUME NEW a \in After(p)
          PROVE  h[a] \in Seq(AllSeats) /\ h[a] = RowsWith(l, open, h, a)
      <4>1. \A c \in AllSeats : Position(c) > Position(a) => c \in Old /\ c \in After(p)
        <5>1. a \in AllSeats /\ Position(a) > p
          BY <3>4, <3>5
        <5> QED
          BY <1>1, <3>4, <3>5, <5>1
      <4>2. \A c \in AllSeats : Position(c) > Position(a) => f[c] \in Seq(AllSeats) /\ h[c] = f[c]
        BY <3>6, <3>7, <4>1
      <4>3. a \in AllSeats
        BY <3>5
      <4>4. /\ RowsWith(l, open, f, a) \in Seq(AllSeats)
            /\ RowsWith(l, open, h, a) = RowsWith(l, open, f, a)
        BY <4>2, <4>3, RowsWithIs
      <4> QED
        BY <3>6, <3>7, <4>4
    <3>10. h \in [After(p) -> Seq(AllSeats)]
      BY <3>8, <3>9
    <3>11. HasRows(h, l, open, After(p))
      BY <3>9, <3>10 DEF HasRows
    <3> QED
      BY <2>3, <3>11 DEF p
  <2> QED
    BY <2>4, <2>5
<1>3. N \in 0..N /\ N - N = 0
  BY <1>1
<1>4. After(0) = AllSeats
  BY <1>1
<1>5. PICK f : HasRows(f, l, open, AllSeats)
  BY <1>2, <1>3, <1>4
<1>6. f = [a \in AllSeats |-> f[a]] /\ \A a \in AllSeats : f[a] = RowsWith(l, open, f, a)
  BY <1>5 DEF HasRows
<1>7. f = [a \in AllSeats |-> RowsWith(l, open, f, a)]
  BY <1>6
<1> QED
  BY <1>7

(* The rows that RowsFrom() describes: those of an agent are the agent,    *)
(* and those of its children.                                              *)
LEMMA RowsFromIs ==
    ASSUME NEW l, l.seats \subseteq AllSeats, NEW open
    PROVE  \E f : /\ \A a : RowsFrom(l, open, a) = f[a]
                  /\ \A a \in AllSeats : f[a] = RowsWith(l, open, f, a)
<1> DEFINE Is(f) == f = [a \in AllSeats |-> RowsWith(l, open, f, a)]
           rows == CHOOSE f : Is(f)
<1>1. ASSUME NEW a PROVE RowsFrom(l, open, a) = rows[a]
  BY DEF RowsFrom, RowsWith, RowsBelow, Below
<1>2. Is(rows)
  <2>1. \E f : Is(f)
    BY RowsThere
  <2> HIDE DEF Is
  <2> QED
    BY <2>1
<1>3. \A a \in AllSeats : rows[a] = RowsWith(l, open, rows, a)
  <2> HIDE DEF rows
  <2> QED
    BY <1>2
<1> HIDE DEF rows
<1> QED
  BY <1>1, <1>3

(* s lists agents of the snapshot l, each once and none before it has its  *)
(* parent, but for those of tops.                                          *)
Grown(s, l, tops) ==
    /\ s \in Seq(l.seats) /\ IsInjective(s)
    /\ \A x \in tops : Contains(s, x)
    /\ \A x : Contains(s, x) =>
         x \in l.seats /\ (x \in tops \/ (x # Root /\ Contains(s, Parent[x])))

(* From a down nobody comes before a.                                      *)
GrownFrom(s, l, a) ==
    Grown(s, l, {a}) /\ \A x : Contains(s, x) => x = a \/ Position(x) > Position(a)

(* Of two lists that grew from different agents, when neither is in the    *)
(* other list, no agent is in both.                                        *)
LEMMA GrownApart ==
    ASSUME NEW l, l.seats \subseteq AllSeats, NEW s, NEW S, Grown(s, l, S), NEW t, NEW T, Grown(t, l, T),
           \A x \in S : ~Contains(t, x), \A x \in T : ~Contains(s, x)
    PROVE  \A x : ~(Contains(s, x) /\ Contains(t, x))
<1> DEFINE Both == {x \in l.seats : Contains(s, x) /\ Contains(t, x)}
           Places == {Position(x) : x \in Both}
<1>1. SUFFICES ASSUME NEW y, Contains(s, y), Contains(t, y) PROVE FALSE
  OBVIOUS
<1>2. y \in Both
  BY <1>1 DEF Grown
<1>3. Both \subseteq AllSeats
  OBVIOUS
<1>4. Places \in SUBSET Nat /\ Places # {}
  BY <1>2, <1>3, Positions
<1>5. PICK m \in Places : \A k \in Places : m <= k
  <2> HIDE DEF Places
  <2> QED
    BY <1>4, LeastNumber
<1>6. PICK x \in Both : Position(x) = m
  BY <1>5
<1>7. Contains(s, x) /\ Contains(t, x) /\ x \in AllSeats
  BY <1>3, <1>6
<1>8. x # Root /\ Contains(s, Parent[x]) /\ Contains(t, Parent[x])
  BY <1>1, <1>7 DEF Grown
<1>9. Parent[x] \in Both
  BY <1>8 DEF Grown
<1>10. Position(Parent[x]) < Position(x) /\ Position(x) \in Nat /\ Position(Parent[x]) \in Nat
  BY <1>3, <1>7, <1>8, <1>9, ParentFirst, Positions
<1>11. Position(x) <= Position(Parent[x])
  BY <1>5, <1>6, <1>9
<1> QED
  BY <1>10, <1>11

(* The rows of an agent, when those of the later ones have grown from      *)
(* them, have grown from it.                                               *)
LEMMA RowsGrow ==
    ASSUME NEW l, l.seats \subseteq AllSeats, NEW open, NEW f, NEW a \in l.seats,
           \A c \in l.seats : Position(c) > Position(a) => GrownFrom(f[c], l, c)
    PROVE  GrownFrom(RowsWith(l, open, f, a), l, a)
<1> DEFINE below == Below(l, open, a)
           n == Len(below)
           ss == RowsBelow(l, open, f, a)
           rest == FlattenSeq(ss)
           row == <<a>>
<1>1. /\ DOMAIN below = 1..n /\ n \in Nat
      /\ \A i \in DOMAIN below : /\ below[i] \in l.seats /\ below[i] # Root /\ Parent[below[i]] = a
                                 /\ Position(below[i]) > Position(a)
      /\ \A i, j \in DOMAIN below : below[i] = below[j] => i = j
  BY BelowIs
<1>2. ss = [i \in 1..n |-> f[below[i]]]
  BY <1>1 DEF RowsBelow
<1>3. \A x \in AllSeats : Position(x) \in Nat
  BY Positions
<1> HIDE DEF below, n, ss
<1>4. \A i \in 1..n : ss[i] = f[below[i]] /\ GrownFrom(ss[i], l, below[i])
  BY <1>1, <1>2
<1>5. Parts(ss, n, l.seats)
  BY <1>2, <1>4 DEF Parts, GrownFrom, Grown
<1>6. ASSUME NEW i \in 1..n, NEW x, Contains(ss[i], x)
      PROVE  x \in l.seats /\ x # a /\ Position(x) > Position(a)
  <2>1. x \in l.seats /\ (x = below[i] \/ Position(x) > Position(below[i]))
    BY <1>4, <1>6 DEF GrownFrom, Grown
  <2>2. Position(below[i]) > Position(a) /\ below[i] \in l.seats
    BY <1>1
  <2> QED
    BY <1>3, <2>1, <2>2
<1>7. ASSUME NEW i \in 1..n, NEW j \in 1..n, i # j PROVE ~Contains(ss[j], below[i])
  <2> SUFFICES ASSUME Contains(ss[j], below[i]) PROVE FALSE
    OBVIOUS
  <2>1. below[i] # below[j] /\ Parent[below[i]] = a
    BY <1>1, <1>7
  <2>2. Contains(ss[j], a)
    BY <1>4, <2>1 DEF GrownFrom, Grown
  <2> QED
    BY <1>6, <2>2
<1>8. Apart(ss, n)
  <2>1. ASSUME NEW i \in 1..n, NEW j \in 1..n, i # j, NEW x, Contains(ss[i], x), Contains(ss[j], x)
        PROVE  FALSE
    <3>1. Grown(ss[i], l, {below[i]}) /\ Grown(ss[j], l, {below[j]})
      BY <1>4 DEF GrownFrom
    <3>2. ~Contains(ss[j], below[i]) /\ ~Contains(ss[i], below[j])
      BY <1>7, <2>1
    <3>3. (\A y \in {below[i]} : ~Contains(ss[j], y)) /\ \A y \in {below[j]} : ~Contains(ss[i], y)
      BY <3>2
    <3>4. \A y : ~(Contains(ss[i], y) /\ Contains(ss[j], y))
      BY <3>1, <3>3, GrownApart
    <3> QED
      BY <2>1, <3>4
  <2>2. \A i \in 1..n : IsInjective(ss[i])
    BY <1>4 DEF GrownFrom, Grown
  <2> QED
    BY <2>1, <2>2 DEF Apart
<1>9. /\ rest \in Seq(l.seats) /\ IsInjective(rest)
      /\ \A x : Contains(rest, x) <=> \E i \in 1..n : Contains(ss[i], x)
  BY <1>1, <1>5, <1>8, FlatIs
<1> HIDE DEF rest
<1>10. /\ row \in Seq(l.seats) /\ IsInjective(row)
       /\ \A x : Contains(row, x) <=> x = a
  <2>0. a \in l.seats
    OBVIOUS
  <2>1. row \in Seq(l.seats) /\ Len(row) = 1 /\ row[1] = a
    BY ONLY <2>0, OneOf
  <2>2. DOMAIN row = 1..1 /\ 1..1 = {1}
    BY ONLY <2>1
  <2> HIDE DEF row
  <2> QED
    BY <2>1, <2>2 DEF Contains, IsInjective
<1> HIDE DEF row
<1>11. \A x : ~(Contains(row, x) /\ Contains(rest, x))
  BY <1>6, <1>9, <1>10
<1>12. /\ row \o rest \in Seq(l.seats) /\ IsInjective(row \o rest)
       /\ \A x : Contains(row \o rest, x) <=> Contains(row, x) \/ Contains(rest, x)
  BY <1>9, <1>10, <1>11, JoinIs
<1>13. RowsWith(l, open, f, a) = row \o rest
  BY DEF RowsWith, row, rest, ss
<1> DEFINE u == row \o rest
<1> HIDE DEF u
<1>14. ASSUME NEW x, Contains(u, x)
       PROVE  x = a \/ (x \in l.seats /\ Position(x) > Position(a) /\ x # Root /\ Contains(u, Parent[x]))
  <2>1. x = a \/ \E i \in 1..n : Contains(ss[i], x)
    BY <1>9, <1>10, <1>12, <1>14 DEF u
  <2>2. ASSUME NEW i \in 1..n, Contains(ss[i], x)
        PROVE  x \in l.seats /\ Position(x) > Position(a) /\ x # Root /\ Contains(u, Parent[x])
    <3>1. x \in l.seats /\ Position(x) > Position(a)
      BY <1>6, <2>2
    <3>2. CASE x = below[i]
      BY <1>1, <1>10, <1>12, <3>1, <3>2 DEF u
    <3>3. CASE x # below[i]
      <4>1. x # Root /\ Contains(ss[i], Parent[x])
        BY <1>4, <2>2, <3>3 DEF GrownFrom, Grown
      <4> QED
        BY <1>9, <1>12, <3>1, <4>1 DEF u
    <3> QED
      BY <3>2, <3>3
  <2> QED
    BY <2>1, <2>2
<1>15. u \in Seq(l.seats) /\ IsInjective(u) /\ Contains(u, a)
  BY <1>10, <1>12 DEF u
<1>16. GrownFrom(u, l, a)
  BY <1>14, <1>15 DEF GrownFrom, Grown
<1> QED
  BY <1>13, <1>16 DEF u

(* The rows from an agent have grown from it.                              *)
LEMMA RowsFromGrow ==
    ASSUME NEW l, l.seats \subseteq AllSeats, NEW open
    PROVE  \A a \in l.seats : GrownFrom(RowsFrom(l, open, a), l, a)
<1>1. PICK f : /\ \A a : RowsFrom(l, open, a) = f[a]
               /\ \A a \in AllSeats : f[a] = RowsWith(l, open, f, a)
  BY RowsFromIs
<1> DEFINE Bad == {a \in l.seats : ~GrownFrom(f[a], l, a)}
           N == Len(Seats)
           Lefts == {N - Position(a) : a \in Bad}
<1>2. N \in Nat /\ \A a \in AllSeats : Position(a) \in 1..N
  BY Positions
<1> HIDE DEF N
<1>3. Bad = {}
  <2> SUFFICES ASSUME Bad # {} PROVE FALSE
    OBVIOUS
  <2>1. Lefts \in SUBSET Nat /\ Lefts # {}
    BY <1>2
  <2>2. PICK m \in Lefts : \A k \in Lefts : m <= k
    <3> HIDE DEF Lefts
    <3> QED
      BY <2>1, LeastNumber
  <2>3. PICK a \in Bad : N - Position(a) = m
    BY <2>2
  <2>4. a \in l.seats /\ a \in AllSeats /\ ~GrownFrom(f[a], l, a)
    BY <2>3
  <2>5. ASSUME NEW c \in l.seats, Position(c) > Position(a) PROVE GrownFrom(f[c], l, c)
    <3> SUFFICES ASSUME c \in Bad PROVE FALSE
      OBVIOUS
    <3>1. N - Position(a) <= N - Position(c)
      BY <2>2, <2>3
    <3>2. Position(c) \in 1..N /\ Position(a) \in 1..N
      BY <1>2, <2>4
    <3> QED
      BY <1>2, <2>5, <3>1, <3>2
  <2>6. GrownFrom(RowsWith(l, open, f, a), l, a)
    BY <2>4, <2>5, RowsGrow
  <2> QED
    BY <1>1, <2>4, <2>6
<1> QED
  BY <1>1, <1>3

(* buildOrgTreeRows() of src/tui/org.ts: the tree has every agent of the   *)
(* snapshot in exactly one row, whatever organisation it is, whoever of it *)
(* is covered, and whatever is folded.                                     *)
THEOREM TreeIs ==
    ASSUME NEW l, l.seats \subseteq AllSeats, NEW open
    PROVE  /\ TreeRows(l, open) \in Seq(l.seats)
           /\ Range(TreeRows(l, open)) = l.seats
           /\ IsInjective(TreeRows(l, open))
<1> DEFINE agents == Sorted(l.seats)
           n == Len(agents)
           S == Seq(l.seats)
           from(k) == RowsFrom(l, open, agents[k])
           more == [k \in 0..n |-> [s \in S |->
                      IF Contains(s, agents[k]) \/ k \notin 1..n THEN s ELSE s \o from(k)]]
           Is(g) == g = [k \in 0..n |->
                           IF k = 0 THEN << >>
                           ELSE IF Contains(g[k - 1], agents[k]) THEN g[k - 1]
                           ELSE g[k - 1] \o from(k)]
<1>1. /\ DOMAIN agents = 1..n /\ n \in Nat
      /\ \A k \in 1..n : agents[k] \in l.seats
      /\ \A a : Contains(agents, a) <=> a \in l.seats
      /\ \A i, j \in 1..n : i < j => Position(agents[i]) < Position(agents[j])
  BY SortedIs
<1>2. TreeRows(l, open) = (CHOOSE g : Is(g))[n]
  BY DEF TreeRows
<1> HIDE DEF agents, n
<1>3. \A k \in 1..n : GrownFrom(from(k), l, agents[k])
  BY <1>1, RowsFromGrow
<1> HIDE DEF from
<1>4. \A k \in 1..n : from(k) \in S
  BY <1>3 DEF GrownFrom, Grown
<1>5. \A k \in 0..n, s \in S :
        more[k][s] = IF Contains(s, agents[k]) \/ k \notin 1..n THEN s ELSE s \o from(k)
  OBVIOUS
<1>6. \A k \in 0..n, s \in S : (IF Contains(s, agents[k]) \/ k \notin 1..n THEN s ELSE s \o from(k)) \in S
  BY <1>4, ConcatProperties
<1>7. Steps(more, 0, n, S)
  BY <1>6 DEF Steps
<1>8. << >> \in S
  OBVIOUS
<1> HIDE DEF more, S
<1>9. PICK g : Upto(g, 0, n, S, << >>, more)
  <2>1. 0 \in Nat /\ 0 <= n
    BY <1>1
  <2> QED
    BY <1>1, <1>7, <1>8, <2>1, Iterates
<1>10. Is(g)
  <2>1. ASSUME NEW k \in 0..n
        PROVE  g[k] = IF k = 0 THEN << >>
                      ELSE IF Contains(g[k - 1], agents[k]) THEN g[k - 1] ELSE g[k - 1] \o from(k)
    <3>1. CASE k = 0
      BY <1>9, <3>1 DEF Upto
    <3>2. CASE k # 0
      <4>1. k \in 1..n /\ k - 1 \in 0..n
        BY <1>1, <3>2
      <4>2. g[k] = more[k][g[k - 1]] /\ g[k - 1] \in S
        BY <1>9, <3>2, <4>1 DEF Upto
      <4> QED
        BY <1>5, <3>2, <4>1, <4>2
    <3> QED
      BY <3>1, <3>2
  <2>2. g = [k \in 0..n |-> g[k]]
    BY <1>9 DEF Upto
  <2> QED
    BY <2>1, <2>2
<1>11. PICK h : Is(h) /\ TreeRows(l, open) = h[n]
  <2> HIDE DEF Is
  <2> QED
    BY <1>2, <1>10
<1>12. \A k \in 0..n : h[k] = IF k = 0 THEN << >>
                              ELSE IF Contains(h[k - 1], agents[k]) THEN h[k - 1]
                              ELSE h[k - 1] \o from(k)
  BY <1>11
<1> HIDE DEF Is
(* By then, everything that is there has grown from the agents up to k.    *)
<1> DEFINE tops(k) == {agents[j] : j \in 1..k}
           Good(k) == \E T \in SUBSET tops(k) : Grown(h[k], l, T) /\ \A x \in tops(k) : Contains(h[k], x)
           Bad == {k \in 0..n : ~Good(k)}
<1>13. Bad = {}
  <2> SUFFICES ASSUME Bad # {} PROVE FALSE
    OBVIOUS
  <2>1. Bad \in SUBSET Nat
    BY <1>1
  <2>2. PICK k \in Bad : \A i \in Bad : k <= i
    <3> HIDE DEF Bad
    <3> QED
      BY <2>1, LeastNumber
  <2>3. k \in 0..n /\ ~Good(k)
    BY <2>2
  <2>4. CASE k = 0
    <3>1. h[k] = << >> /\ tops(k) = {}
      BY <1>12, <2>3, <2>4
    <3>2. << >> \in Seq(l.seats) /\ IsInjective(<< >>) /\ \A x : ~Contains(<< >>, x)
      BY DEF IsInjective, Contains
    <3>3. Grown(h[k], l, {})
      BY <3>1, <3>2 DEF Grown
    <3> QED
      BY <2>3, <3>1, <3>3
  <2>5. CASE k # 0
    <3>1. k \in 1..n /\ k - 1 \in 0..n /\ ~(k <= k - 1)
      BY <1>1, <2>3, <2>5
    <3>2. Good(k - 1)
      <4>1. k - 1 \notin Bad
        <5> HIDE DEF Bad
        <5> QED
          BY <2>2, <3>1
      <4> QED
        BY <3>1, <4>1
    <3> DEFINE s == h[k - 1]
               a == agents[k]
    <3>3. PICK T \in SUBSET tops(k - 1) : Grown(s, l, T) /\ \A x \in tops(k - 1) : Contains(s, x)
      BY <3>2
    <3>4. tops(k) = tops(k - 1) \cup {a} /\ a \in l.seats
      <4>1. \A j : j \in 1..k <=> j \in 1..(k - 1) \/ j = k
        BY <3>1
      <4> QED
        BY <1>1, <3>1, <4>1
    <3>5. h[k] = IF Contains(s, a) THEN s ELSE s \o from(k)
      BY <1>12, <2>5, <3>1
    <3>6. CASE Contains(s, a)
      <4>1. h[k] = s /\ T \in SUBSET tops(k)
        BY <3>4, <3>5, <3>6
      <4>2. \A x \in tops(k) : Contains(s, x)
        BY <3>3, <3>4, <3>6
      <4> HIDE DEF tops, s
      <4> QED
        BY <2>3, <3>3, <4>1, <4>2
    <3>7. CASE ~Contains(s, a)
      <4> DEFINE t == from(k)
                 u == s \o t
      <4>1. h[k] = u
        BY <3>5, <3>7
      <4>2. Grown(t, l, {a}) /\ \A x : Contains(t, x) => x = a \/ Position(x) > Position(a)
        BY <1>3, <3>1 DEF GrownFrom
      <4>3. \A x \in tops(k - 1) : x \in AllSeats /\ Position(x) < Position(a)
        BY <1>1, <3>1
      <4>4. \A x \in T : ~Contains(t, x)
        <5> SUFFICES ASSUME NEW x \in T, Contains(t, x) PROVE FALSE
          OBVIOUS
        <5>1. x \in AllSeats /\ Position(x) < Position(a)
          BY <4>3
        <5>2. Position(x) \in Nat /\ Position(a) \in Nat
          BY <3>4, <5>1, Positions
        <5>3. x = a \/ Position(x) > Position(a)
          BY <4>2
        <5> QED
          BY <5>1, <5>2, <5>3
      <4> HIDE DEF s, t, tops
      <4>5. \A x : ~(Contains(s, x) /\ Contains(t, x))
        <5>1. \A x \in {a} : ~Contains(s, x)
          BY <3>7
        <5> HIDE DEF a
        <5> QED
          BY <3>3, <4>2, <4>4, <5>1, GrownApart
      <4>6. /\ s \in Seq(l.seats) /\ IsInjective(s)
            /\ t \in Seq(l.seats) /\ IsInjective(t) /\ Contains(t, a)
        BY <3>3, <4>2 DEF Grown
      <4>7. /\ u \in Seq(l.seats) /\ IsInjective(u)
            /\ \A x : Contains(u, x) <=> Contains(s, x) \/ Contains(t, x)
        BY <4>5, <4>6, JoinIs
      <4> HIDE DEF u, a
      <4>8. Grown(u, l, T \cup {a})
        <5>1. \A x \in T \cup {a} : Contains(u, x)
          BY <3>3, <4>6, <4>7 DEF Grown
        <5>2. ASSUME NEW x, Contains(u, x)
              PROVE  x \in l.seats /\ (x \in T \cup {a} \/ (x # Root /\ Contains(u, Parent[x])))
          BY <3>3, <4>2, <4>7, <5>2 DEF Grown
        <5> QED
          BY <4>7, <5>1, <5>2 DEF Grown
      <4>9. T \cup {a} \in SUBSET tops(k) /\ \A x \in tops(k) : Contains(u, x)
        BY <3>3, <3>4, <4>6, <4>7
      <4> QED
        BY <2>3, <4>1, <4>8, <4>9
    <3> QED
      BY <3>6, <3>7
  <2> QED
    BY <2>4, <2>5
<1> DEFINE rows == TreeRows(l, open)
<1>14. /\ rows \in Seq(l.seats) /\ IsInjective(rows)
       /\ \A x \in l.seats : Contains(rows, x)
  <2>1. n \in 0..n /\ h[n] = rows
    BY <1>1, <1>11
  <2>2. Good(n)
    BY <1>13, <2>1
  <2>3. rows \in Seq(l.seats) /\ IsInjective(rows) /\ \A x \in tops(n) : Contains(rows, x)
    BY <2>1, <2>2 DEF Grown
  <2>4. l.seats \subseteq tops(n)
    BY <1>1 DEF Contains
  <2> QED
    BY <2>3, <2>4
<1> HIDE DEF rows
<1>15. Range(rows) = l.seats
  BY <1>14 DEF Range, Contains
<1> QED
  BY <1>14, <1>15 DEF rows

(* What is selected in the tree is an agent of the snapshot.               *)
SelectedThere == Holds => ui.sel \in Snapshot.seats

(* What defaultOrgSelectedPath() selects is an agent of the snapshot.      *)
LEMMA DefaultIsThere ==
    ASSUME NEW l, l.seats \subseteq AllSeats, Root \in l.seats, NEW open, NEW selected
    PROVE  DefaultSelected(l, open, selected) \in l.seats
<1> DEFINE rows == TreeRows(l, open)
           first(set) == CHOOSE i \in DOMAIN rows :
                           rows[i] \in set /\ \A j \in 1..(i - 1) : rows[j] \notin set
           material  == {a \in l.seats : l.facts[a].severity >= 2}
           attention == {a \in l.seats : l.facts[a].inbox + l.facts[a].tickets + l.facts[a].overdue > 0}
<1>1. rows \in Seq(l.seats) /\ Range(rows) = l.seats
  BY TreeIs
<1>2. DefaultSelected(l, open, selected) =
        IF selected \in l.seats THEN selected
        ELSE IF material # {} THEN rows[first(material)]
        ELSE IF attention # {} THEN rows[first(attention)] ELSE Root
  BY DEF DefaultSelected
<1>3. material \subseteq l.seats /\ attention \subseteq l.seats
  OBVIOUS
<1> HIDE DEF rows, material, attention
<1>4. ASSUME NEW set \in SUBSET l.seats, set # {} PROVE rows[first(set)] \in l.seats
  <2> DEFINE Places == {i \in DOMAIN rows : rows[i] \in set}
  <2>1. DOMAIN rows = 1..Len(rows) /\ Len(rows) \in Nat
    BY <1>1
  <2>2. Places \in SUBSET Nat /\ Places # {}
    BY <1>1, <1>4, <2>1 DEF Range
  <2>3. PICK m \in Places : \A k \in Places : m <= k
    <3> HIDE DEF Places
    <3> QED
      BY <2>2, LeastNumber
  <2>4. m \in DOMAIN rows /\ rows[m] \in set
    BY <2>3
  <2>5. \A j \in 1..(m - 1) : rows[j] \notin set
    <3> SUFFICES ASSUME NEW j \in 1..(m - 1), rows[j] \in set PROVE FALSE
      OBVIOUS
    <3>1. j \in DOMAIN rows /\ ~(m <= j)
      BY <2>1, <2>4
    <3> QED
      BY <2>3, <3>1
  <2>6. first(set) \in DOMAIN rows
    BY <2>4, <2>5
  <2> HIDE DEF first
  <2> QED
    BY <1>1, <2>6
<1> HIDE DEF first
<1> QED
  BY <1>2, <1>3, <1>4

(* What is selected stays an agent of the snapshot, by every step.         *)
LEMMA SelectedStays ==
    ASSUME OrgStrong, SelectedThere, OrgScreenNext
    PROVE  SelectedThere'
<1> USE DEF OrgStrong, OrgKinds
<1>1. ui = [tab |-> ui.tab, view |-> ui.view, brief |-> ui.brief, sel |-> ui.sel,
            expanded |-> ui.expanded, marked |-> ui.marked]
  BY DEF OrgTypes
<1>2. CASE UNCHANGED <<load, ui>>
  BY <1>2 DEF SelectedThere, Holds, Snapshot
<1>3. CASE ReadTimes
  <2>1. PICK l : load' = <<l>> /\ ui' = Shown(ui, l) /\ l.seats = step.seats
    <3>1. PICK of \in VisitsRead(other) :
            LET l == [fp |-> step.fp, seats |-> step.seats, read |-> step.read, briefs |-> step.briefs,
                      facts |-> step.facts, visits |-> of,
                      times |-> [a \in step.seats |-> files[a].brief]]
            IN  load' = <<l>> /\ ui' = Shown(ui, l)
      BY <1>3 DEF ReadTimes, TakeTimes
    <3> DEFINE l == [fp |-> step.fp, seats |-> step.seats, read |-> step.read, briefs |-> step.briefs,
                     facts |-> step.facts, visits |-> of,
                     times |-> [a \in step.seats |-> files[a].brief]]
    <3>2. l.seats = step.seats
      OBVIOUS
    <3>3. load' = <<l>> /\ ui' = Shown(ui, l)
      BY <3>1
    <3> HIDE DEF l
    <3> QED
      BY <3>2, <3>3
  <2> DEFINE e == IF ui.expanded = AllSeats THEN ui.expanded ELSE ui.expanded \cap l.seats
             d == DefaultSelected(l, ui.expanded, ui.sel)
             b == IF ui.brief \in l.seats THEN ui.brief ELSE Root
  <2>2. ui' = [ui EXCEPT !.expanded = e, !.sel = d, !.brief = b]
    BY <2>1 DEF Shown
  <2>3. d \in l.seats
    <3>1. l.seats \subseteq AllSeats /\ Root \in l.seats
      BY <1>3, <2>1 DEF StepTypes, ReadTimes, TakeTimes
    <3> QED
      BY <3>1, DefaultIsThere
  <2> HIDE DEF e, d, b
  <2>4. ui'.sel = d
    BY <1>1, <2>2
  <2>5. Snapshot' = l
    BY <2>1 DEF Snapshot
  <2> QED
    BY <2>3, <2>4, <2>5 DEF SelectedThere
<1>4. CASE LeaveKey
  BY <1>4 DEF LeaveKey, OrgKey, Mounted, SelectedThere, LoadTypes, Holds, Snapshot
<1>5. CASE MoveInTree
  <2> DEFINE rows == TreeRows(Snapshot, ui.expanded)
  <2>1. /\ UNCHANGED load /\ Holds
        /\ \E next \in DOMAIN rows : ui' = [ui EXCEPT !.sel = rows[next]]
    BY <1>5 DEF MoveInTree, OrgKey
  <2>2. rows \in Seq(Snapshot.seats)
    BY <2>1, TreeIs DEF LoadTypes
  <2> HIDE DEF rows
  <2>3. PICK next \in DOMAIN rows : ui' = [ui EXCEPT !.sel = rows[next]]
    BY <2>1
  <2>4. rows[next] \in Snapshot.seats
    BY <2>2
  <2>5. ui'.sel = rows[next]
    BY <1>1, <2>3
  <2>6. Snapshot' = Snapshot
    BY <2>1 DEF Snapshot
  <2> QED
    BY <2>4, <2>5, <2>6 DEF SelectedThere
<1>6. CASE UNCHANGED load /\ \E x : \/ ui' = [ui EXCEPT !.view = x] \/ ui' = [ui EXCEPT !.marked = x]
                                    \/ ui' = [ui EXCEPT !.expanded = x] \/ ui' = [ui EXCEPT !.brief = x]
  <2>1. ui'.sel = ui.sel
    <3>1. PICK x : \/ ui' = [ui EXCEPT !.view = x] \/ ui' = [ui EXCEPT !.marked = x]
                   \/ ui' = [ui EXCEPT !.expanded = x] \/ ui' = [ui EXCEPT !.brief = x]
      BY <1>6
    <3> QED
      BY <1>1, <3>1
  <2> QED
    BY <1>6, <2>1 DEF SelectedThere, Holds, Snapshot
<1>7. MarkReads \/ MarkFails =>
        UNCHANGED load /\ ui' = [ui EXCEPT !.marked = MarkKey]
  BY DEF MarkReads, MarkFails
<1>8. ViewKey => UNCHANGED load /\ \E x : ui' = [ui EXCEPT !.view = x]
  <2>1. ViewKey => UNCHANGED load /\ ui' = [ui EXCEPT !.view = NextView[ui.view]]
    BY DEF ViewKey, OrgKey
  <2> QED
    BY <2>1
<1>9. ToggleKey => UNCHANGED load /\ \E x : ui' = [ui EXCEPT !.expanded = x]
  BY DEF ToggleKey, OrgKey
<1>10. MoveInBriefs => UNCHANGED load /\ \E x : ui' = [ui EXCEPT !.brief = x]
  BY DEF MoveInBriefs, OrgKey
<1>11. \/ UNCHANGED <<load, ui>> \/ ReadTimes \/ LeaveKey \/ MoveInTree
       \/ MarkReads \/ MarkFails \/ ViewKey \/ ToggleKey \/ MoveInBriefs
  BY DEF OrgScreenNext, ScreenReads, WriteBrief, WriteOthers, WriteUnwatched, WriteCoverage,
         OtherReads, OtherWrites, Refresh, ReadSeats, ReadTexts, MarkWrites
<1> QED
  BY <1>2, <1>3, <1>4, <1>5, <1>6, <1>7, <1>8, <1>9, <1>10, <1>11

(* It is one in every state.                                               *)
LEMMA SelectedStaysThere == TuiSpec => []SelectedThere
<1>1. TuiInit => SelectedThere
  BY DEF TuiInit, OrgInit, SelectedThere, Holds
<1>2. OrgStrong /\ SelectedThere /\ [TuiNext]_tuiVars => SelectedThere'
  <2> SUFFICES ASSUME OrgStrong, SelectedThere, [TuiNext]_tuiVars PROVE SelectedThere'
    OBVIOUS
  <2>1. CASE UNCHANGED <<load, ui>>
    BY <2>1 DEF SelectedThere, Holds, Snapshot
  <2>2. CASE OrgScreenNext
    BY <2>2, SelectedStays
  <2> QED
    BY <2>1, <2>2 DEF TuiNext, OfRun, OfOrg, tuiVars, orgVars
<1> QED
  BY <1>1, <1>2, OrgStrongHolds, PTL DEF TuiSpec

(* The Org tab is sound.                                                   *)
LEMMA OrgTabFits ==
    ASSUME OrgStrong, SelectedThere
    PROVE  OrgTypeOK /\ TreeSound
<1> USE DEF OrgStrong, OrgKinds
<1>1. OrgTypeOK
  BY DEF OrgTypeOK, OrgTypes, StepTypes, OtherTypes, NextView
<1>2. ASSUME Holds PROVE TreeSound
  <2>1. Snapshot.seats \subseteq AllSeats /\ ui.brief \in Snapshot.seats /\ ui.sel \in Snapshot.seats
    BY <1>2 DEF LoadTypes, SelectedThere
  <2>2. /\ Range(TreeRows(Snapshot, ui.expanded)) = Snapshot.seats
        /\ IsInjective(TreeRows(Snapshot, ui.expanded))
    BY <2>1, TreeIs
  <2> QED
    BY <2>1, <2>2 DEF TreeSound
<1>3. ~Holds => TreeSound
  BY DEF TreeSound
<1> QED
  BY <1>1, <1>2, <1>3
-----------------------------------------------------------------------------
(* What every state of the screens satisfies, for every journal, number of *)
(* agents and phases, terminal and organisation: the tokens, counts and    *)
(* selections of src/tui/RunView.tsx are those of the run, the last key    *)
(* that pauses or resumes is obeyed, and the tree of src/tui/OrgView.tsx   *)
(* has every agent of the snapshot once and what is selected in it.        *)
THEOREM ScreensAreSound == TuiSpec => []TuiInv
<1>1. RunStrong => RunTypeOK /\ TokensAddUp /\ PhasesAddUp /\ SelectionOnScreen /\ LastToggleWins
  BY RunTypesKept, BooksAddUp, CountsMatch, SelectionFits, ToggleObeyed
<1>2. OrgStrong /\ SelectedThere => OrgTypeOK /\ TreeSound
  BY OrgTabFits
<1>3. RunStrong /\ OrgStrong /\ SelectedThere => TuiInv
  BY <1>1, <1>2 DEF TuiInv
<1> QED
  BY <1>3, RunStaysStrong, OrgStrongHolds, SelectedStaysThere, PTL
=============================================================================
