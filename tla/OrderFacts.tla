------------------------------ MODULE OrderFacts ------------------------------
(***************************************************************************)
(* Facts about naturals in order that the proofs of several modules need:  *)
(* least and greatest elements, the places of a finite set counted from    *)
(* its least on, and the recursive functions of loops.                     *)
(***************************************************************************)
EXTENDS Integers, FiniteSetTheorems, WellFoundedInduction, TLAPS

Below(T, j) == {i \in T : i < j}

(* A set of naturals has a least element. *)
LEMMA LeastElement ==
  ASSUME NEW T \in SUBSET Nat, T # {}
  PROVE  \E x \in T : \A y \in T : x <= y
<1> DEFINE Less == {pair \in Nat \X Nat : pair[1] < pair[2]}
<1>1. OpToRel(<, Nat) = Less
  BY DEF OpToRel
<1>2. IsWellFoundedOn(Less, Nat)
  BY <1>1, NatLessThanWellFounded
<1>3. PICK x \in T : \A y \in T : ~(<<y, x>> \in Less)
  BY <1>2, WFMin
<1>4. ASSUME NEW y \in T PROVE x <= y
  <2>1. x \in Nat /\ y \in Nat
    OBVIOUS
  <2>2. y < x => <<y, x>> \in Less
    BY <2>1
  <2>3. ~(y < x)
    <3> HIDE DEF Less
    <3> QED
      BY <1>3, <2>2
  <2> QED
    BY ONLY <2>1, <2>3
<1> QED
  BY <1>4

(* A set of naturals with a bound has a greatest element. *)
LEMMA GreatestElement ==
  ASSUME NEW L \in Nat, NEW T \in SUBSET (1 .. L), T # {}
  PROVE  \E x \in T : \A y \in T : y <= x
<1> DEFINE mirrored == {L - y : y \in T}
<1>1. mirrored \in SUBSET Nat /\ mirrored # {}
  <2>1. \A y \in T : L - y \in Nat
    <3>1. TAKE y \in T
    <3>2. y \in 1 .. L
      BY <3>1
    <3> QED
      BY <3>2
  <2> QED
    BY <2>1
<1>2. PICK least \in mirrored : \A z \in mirrored : least <= z
  BY <1>1, LeastElement
<1>3. PICK x \in T : least = L - x
  BY <1>2
<1>4. ASSUME NEW y \in T PROVE y <= x
  <2>1. L - x <= L - y
    BY <1>2, <1>3
  <2>2. x \in 1 .. L /\ y \in 1 .. L
    OBVIOUS
  <2> QED
    BY <2>1, <2>2
<1> QED
  BY <1>4

(* Subsets of an interval are finite, and those below a place too. *)
LEMMA BelowFinite ==
  ASSUME NEW L \in Nat, NEW T \in SUBSET (1 .. L)
  PROVE  /\ IsFiniteSet(T) /\ Cardinality(T) \in Nat
         /\ \A j \in T : /\ IsFiniteSet(Below(T, j))
                         /\ Cardinality(Below(T, j)) \in Nat
                         /\ Cardinality(Below(T, j)) < Cardinality(T)
<1>1. IsFiniteSet(T)
  <2>1. IsFiniteSet(1 .. L)
    BY FS_Interval
  <2> QED
    BY <2>1, FS_Subset
<1>2. Cardinality(T) \in Nat
  BY <1>1, FS_CardinalityType
<1>3. ASSUME NEW j \in T
      PROVE  /\ IsFiniteSet(Below(T, j))
             /\ Cardinality(Below(T, j)) \in Nat
             /\ Cardinality(Below(T, j)) < Cardinality(T)
  <2>1. Below(T, j) \in SUBSET (T \ {j})
    <3>1. j \in Int
      OBVIOUS
    <3> QED
      BY <3>1 DEF Below
  <2>2. IsFiniteSet(T \ {j}) /\ Cardinality(T \ {j}) = Cardinality(T) - 1
    BY <1>1, FS_RemoveElement
  <2>3. IsFiniteSet(Below(T, j)) /\ Cardinality(Below(T, j)) <= Cardinality(T \ {j})
    BY <2>1, <2>2, FS_Subset
  <2>4. Cardinality(Below(T, j)) \in Nat
    BY <2>3, FS_CardinalityType
  <2> QED
    BY <1>2, <2>2, <2>3, <2>4
<1> QED
  BY <1>1, <1>2, <1>3

(* A later place has more places below it. *)
LEMMA BelowGrows ==
  ASSUME NEW L \in Nat, NEW T \in SUBSET (1 .. L), NEW j \in T, NEW k \in T, j < k
  PROVE  Cardinality(Below(T, j)) < Cardinality(Below(T, k))
<1>1. j \in Below(T, k)
  BY DEF Below
<1>2. Below(T, j) \in SUBSET (Below(T, k) \ {j})
  <2>1. \A i \in T : i < j => i < k /\ i # j
    <3>1. \A i \in T : i \in Int
      OBVIOUS
    <3> QED
      BY <3>1
  <2> QED
    BY <2>1 DEF Below
<1>3. IsFiniteSet(Below(T, k)) /\ Cardinality(Below(T, k)) \in Nat /\ Cardinality(Below(T, j)) \in Nat
  BY BelowFinite
<1>4. /\ IsFiniteSet(Below(T, k) \ {j})
      /\ Cardinality(Below(T, k) \ {j}) = Cardinality(Below(T, k)) - 1
  BY <1>1, <1>3, FS_RemoveElement
<1>5. Cardinality(Below(T, j)) <= Cardinality(Below(T, k) \ {j})
  BY <1>2, <1>4, FS_Subset
<1> QED
  BY <1>3, <1>4, <1>5

(* Every number up to their count is the number of one of the places. *)
LEMMA NthPlace ==
  ASSUME NEW L \in Nat, NEW T \in SUBSET (1 .. L), NEW n \in 1 .. Cardinality(T)
  PROVE  \E j \in T : Cardinality(Below(T, j)) = n - 1
<1> DEFINE late == {j \in T : Cardinality(Below(T, j)) >= n - 1}
<1>1. IsFiniteSet(T) /\ Cardinality(T) \in Nat
  BY BelowFinite
<1>2. T # {}
  <2>1. Cardinality({}) = 0
    BY FS_EmptySet
  <2> QED
    BY <2>1
<1>3. late # {}
  <2>1. PICK last \in T : \A y \in T : y <= last
    BY <1>2, GreatestElement
  <2>2. Below(T, last) = T \ {last}
    <3>1. \A y \in T : y # last => y < last
      <4>1. \A y \in T : y \in Int
        OBVIOUS
      <4> QED
        BY <2>1, <4>1
    <3>2. ~(last < last)
      <4>1. last \in Int
        OBVIOUS
      <4> QED
        BY <4>1
    <3>3. \A y \in T : y < last <=> y # last
      BY <3>1, <3>2
    <3> QED
      BY <3>3 DEF Below
  <2>3. Cardinality(Below(T, last)) = Cardinality(T) - 1
    BY <1>1, <2>2, FS_RemoveElement
  <2> QED
    BY <1>1, <2>3
<1>4. late \in SUBSET Nat
  <2>1. T \in SUBSET Nat
    OBVIOUS
  <2> QED
    BY <2>1
<1>5. PICK j \in late : \A y \in late : j <= y
  BY <1>3, <1>4, LeastElement
<1>6. j \in T /\ Cardinality(Below(T, j)) >= n - 1
  BY <1>5
<1>7. ASSUME NEW i \in Below(T, j) PROVE i \in T /\ i < j /\ Cardinality(Below(T, i)) < n - 1
  <2>1. i \in T /\ i < j
    BY DEF Below
  <2>2. ~(j <= i)
    <3>1. i \in Int /\ j \in Int
      BY <1>6, <2>1
    <3> QED
      BY <2>1, <3>1
  <2>3. i \notin late
    BY <1>5, <2>2
  <2>4. Cardinality(Below(T, i)) \in Nat
    BY <2>1, BelowFinite
  <2> QED
    BY <2>1, <2>3, <2>4
<1> HIDE DEF late
<1>8. Cardinality(Below(T, j)) <= n - 1
  <2>1. CASE Below(T, j) = {}
    BY <2>1, FS_EmptySet
  <2>2. CASE Below(T, j) # {}
    <3>1. Below(T, j) \in SUBSET (1 .. L)
      BY DEF Below
    <3>2. PICK p \in Below(T, j) : \A y \in Below(T, j) : y <= p
      BY <2>2, <3>1, GreatestElement
    <3>3. p \in T /\ p < j /\ Cardinality(Below(T, p)) < n - 1
      BY <1>7, <3>2
    <3>4. Below(T, j) = Below(T, p) \cup {p}
      <4>1. \A y \in T : y < j => y = p \/ y < p
        <5>1. \A y \in T : y \in Int
          OBVIOUS
        <5>2. ASSUME NEW y \in T, y < j PROVE y <= p
          BY <3>2, <5>2 DEF Below
        <5> QED
          BY <3>3, <5>1, <5>2
      <4>2. \A y \in T : y = p \/ y < p => y < j
        <5>1. \A y \in T : y \in Int
          OBVIOUS
        <5>2. j \in Int
          BY <1>6
        <5> QED
          BY <3>3, <5>1, <5>2
      <4> QED
        BY <3>3, <4>1, <4>2 DEF Below
    <3>5. IsFiniteSet(Below(T, p)) /\ Cardinality(Below(T, p)) \in Nat
      BY <3>3, BelowFinite
    <3>6. p \notin Below(T, p)
      <4>1. p \in Int
        BY <3>3
      <4> QED
        BY <4>1 DEF Below
    <3>7. Cardinality(Below(T, j)) = Cardinality(Below(T, p)) + 1
      BY <3>4, <3>5, <3>6, FS_AddElement
    <3> QED
      BY <3>3, <3>5, <3>7
  <2> QED
    BY <2>1, <2>2
<1>9. Cardinality(Below(T, j)) \in Nat
  BY <1>6, BelowFinite
<1>10. Cardinality(Below(T, j)) = n - 1
  BY <1>6, <1>8, <1>9
<1> QED
  BY <1>6, <1>10

(* Some places of a list, when the entry at one place is taken out and     *)
(* those behind it move up.                                                *)
LEMMA OnePlaceLess ==
  ASSUME NEW n \in Nat, NEW T \in SUBSET (1 .. n), NEW p \in 1 .. n
  PROVE  LET rest == {k \in 1 .. n - 1 : (IF k < p THEN k ELSE k + 1) \in T}
         IN  /\ IsFiniteSet(rest)
             /\ Cardinality(rest) = Cardinality(T) - (IF p \in T THEN 1 ELSE 0)
<1> DEFINE from(k) == IF k < p THEN k ELSE k + 1
           rest == {k \in 1 .. n - 1 : from(k) \in T}
           others == T \ {p}
           f == [k \in rest |-> from(k)]
<1>1. /\ IsFiniteSet(others)
      /\ Cardinality(others) = Cardinality(T) - (IF p \in T THEN 1 ELSE 0)
  <2>1. IsFiniteSet(T) /\ Cardinality(T) \in Nat
    BY BelowFinite
  <2> QED
    BY <2>1, FS_RemoveElement
<1>2. IsFiniteSet(rest)
  <2>1. CASE n = 0
    BY <2>1
  <2>2. CASE n # 0
    <3>1. n - 1 \in Nat /\ rest \in SUBSET (1 .. n - 1)
      BY <2>2
    <3> HIDE DEF rest
    <3> QED
      BY <3>1, BelowFinite
  <2> QED
    BY <2>1, <2>2
<1>3. \A k \in 1 .. n - 1 : from(k) \in Int /\ from(k) # p
  OBVIOUS
<1>4. \A j, k \in 1 .. n - 1 : from(j) = from(k) => j = k
  OBVIOUS
<1>5. \A i \in 1 .. n : i # p => \E k \in 1 .. n - 1 : from(k) = i
  <2>1. TAKE i \in 1 .. n
  <2>2. HAVE i # p
  <2>3. CASE i < p
    <3>1. i \in 1 .. n - 1 /\ from(i) = i
      BY <2>3
    <3> QED
      BY <3>1
  <2>4. CASE ~(i < p)
    <3>1. i - 1 \in 1 .. n - 1 /\ from(i - 1) = i
      BY <2>2, <2>4
    <3> QED
      BY <3>1
  <2> QED
    BY <2>3, <2>4
<1> HIDE DEF from
<1>6. f \in [rest -> others]
  BY <1>3
<1>7. \A j, k \in rest : f[j] = f[k] => j = k
  BY <1>4
<1>8. \A i \in others : \E k \in rest : f[k] = i
  <2>1. TAKE i \in others
  <2>2. PICK k \in 1 .. n - 1 : from(k) = i
    BY <1>5
  <2>3. k \in rest /\ f[k] = i
    BY <2>2
  <2> QED
    BY <2>3
<1> HIDE DEF rest, others, f
<1>9. ExistsBijection(rest, others)
  <2>1. DOMAIN f = rest
    BY <1>6
  <2>2. f \in Injection(rest, others)
    BY <1>6, <1>7, <2>1 DEF Injection, IsInjective
  <2>3. f \in Surjection(rest, others)
    BY <1>6, <1>8 DEF Surjection
  <2> QED
    BY <2>2, <2>3 DEF ExistsBijection, Bijection
<1>10. Cardinality(others) = Cardinality(rest)
  BY <1>2, <1>9, FS_Bijection
<1> QED
  BY <1>1, <1>2, <1>10 DEF rest, from

(* The same for the first place. *)
LEMMA FirstPlaceLess ==
  ASSUME NEW n \in Nat \ {0}, NEW T \in SUBSET (1 .. n)
  PROVE  Cardinality({k \in 1 .. n - 1 : k + 1 \in T})
           = Cardinality(T) - (IF 1 \in T THEN 1 ELSE 0)
<1>1. n \in Nat /\ 1 \in 1 .. n
  OBVIOUS
<1>2. PICK p \in 1 .. n : p = 1
  BY <1>1
<1>3. Cardinality({k \in 1 .. n - 1 : (IF k < p THEN k ELSE k + 1) \in T})
        = Cardinality(T) - (IF p \in T THEN 1 ELSE 0)
  <2>1. T \in SUBSET (1 .. n)
    OBVIOUS
  <2>2. n \in Nat /\ p \in 1 .. n
    OBVIOUS
  <2> QED
    BY ONLY <2>1, <2>2, OnePlaceLess
<1>4. {k \in 1 .. n - 1 : (IF k < p THEN k ELSE k + 1) \in T} = {k \in 1 .. n - 1 : k + 1 \in T}
  BY <1>2
<1> QED
  BY <1>2, <1>3, <1>4

(* The same places further on. *)
LEMMA ShiftedPlaces ==
  ASSUME NEW L \in Nat, NEW T \in SUBSET (1 .. L), NEW c \in Nat
  PROVE  /\ IsFiniteSet({i + c : i \in T})
         /\ Cardinality({i + c : i \in T}) = Cardinality(T)
<1> DEFINE moved == {i + c : i \in T}
           f == [i \in T |-> i + c]
<1>1. IsFiniteSet(T)
  BY BelowFinite
<1>2. T \in SUBSET Int
  OBVIOUS
<1>3. \A i, j \in Int : i + c = j + c => i = j
  OBVIOUS
<1>4. f \in Injection(T, moved)
  <2>1. f \in [T -> moved]
    OBVIOUS
  <2>2. \A i, j \in T : f[i] = f[j] => i = j
    BY <1>2, <1>3
  <2>3. DOMAIN f = T
    OBVIOUS
  <2> HIDE DEF f, moved
  <2> QED
    BY <2>1, <2>2, <2>3 DEF Injection, IsInjective
<1>5. f \in Surjection(T, moved)
  <2>1. f \in [T -> moved]
    OBVIOUS
  <2>2. \A k \in moved : \E i \in T : f[i] = k
    OBVIOUS
  <2> HIDE DEF f, moved
  <2> QED
    BY <2>1, <2>2 DEF Surjection
<1>6. ExistsBijection(T, moved)
  BY <1>4, <1>5 DEF ExistsBijection, Bijection
<1> HIDE DEF moved, f
<1>7. IsFiniteSet(moved) /\ Cardinality(moved) = Cardinality(T)
  BY <1>1, <1>6, FS_Bijection
<1> QED
  BY <1>7 DEF moved

----------------------------------------------------------------------------
(* Going through a list *)

(* f[n] is what step makes of f[n - 1] at n, starting from base. *)
Iterates(f, L, D, base, step) ==
  /\ f \in [0 .. L -> D]
  /\ f[0] = base
  /\ \A n \in 1 .. L : f[n] = step[<<n, f[n - 1]>>]

(* A recursive function on 0 .. L that takes a value to the next is there: *)
(* otherwise there would be a least L for which it is not.                 *)
LEMMA IterationExists ==
  ASSUME NEW L \in Nat, NEW D, NEW base \in D,
         NEW step, \A n \in 1 .. L : \A d \in D : step[<<n, d>>] \in D
  PROVE  \E f : Iterates(f, L, D, base, step)
<1> DEFINE Goes(m) == \E f \in [0 .. m -> D] :
                        f[0] = base /\ \A n \in 1 .. m : f[n] = step[<<n, f[n - 1]>>]
           stuck == {m \in 0 .. L : ~Goes(m)}
<1>1. Goes(0)
  <2> DEFINE f == [n \in 0 .. 0 |-> base]
  <2>1. f \in [0 .. 0 -> D] /\ f[0] = base /\ 1 .. 0 = {}
    OBVIOUS
  <2> HIDE DEF f
  <2> QED
    BY <2>1
<1>2. ASSUME NEW m \in 1 .. L, Goes(m - 1) PROVE Goes(m)
  <2>1. PICK f \in [0 .. m - 1 -> D] :
          f[0] = base /\ \A n \in 1 .. m - 1 : f[n] = step[<<n, f[n - 1]>>]
    BY <1>2
  <2> DEFINE g == [n \in 0 .. m |-> IF n = m THEN step[<<m, f[m - 1]>>] ELSE f[n]]
  <2>2. f[m - 1] \in D
    BY <2>1
  <2>3. step[<<m, f[m - 1]>>] \in D
    BY <2>2
  <2>4. g \in [0 .. m -> D]
    <3>1. \A n \in 0 .. m : n = m \/ n \in 0 .. m - 1
      OBVIOUS
    <3> QED
      BY <2>1, <2>3, <3>1
  <2>5. g[0] = base
    BY <2>1
  <2>6. \A n \in 1 .. m : g[n] = step[<<n, g[n - 1]>>]
    <3>1. TAKE n \in 1 .. m
    <3>2. CASE n = m
      <4>1. m - 1 \in 0 .. m /\ m - 1 # m /\ m \in 0 .. m
        OBVIOUS
      <4>2. g[m] = step[<<m, f[m - 1]>>] /\ g[m - 1] = f[m - 1]
        BY <4>1
      <4> HIDE DEF g
      <4> QED
        BY <3>2, <4>2
    <3>3. CASE n # m
      <4>1. n \in 1 .. m - 1 /\ n - 1 # m
        BY <3>3
      <4>2. g[n] = f[n] /\ g[n - 1] = f[n - 1]
        BY <4>1
      <4> QED
        BY <2>1, <4>1, <4>2
    <3> QED
      BY <3>2, <3>3
  <2> HIDE DEF g
  <2> QED
    BY <2>4, <2>5, <2>6
<1> HIDE DEF Goes
<1>3. stuck = {}
  <2>1. SUFFICES ASSUME stuck # {} PROVE FALSE
    OBVIOUS
  <2>2. PICK m \in stuck : \A n \in stuck : m <= n
    <3>1. stuck \in SUBSET Nat
      OBVIOUS
    <3> HIDE DEF stuck
    <3> QED
      BY <2>1, <3>1, LeastElement
  <2>3. m \in 0 .. L /\ m # 0
    BY <1>1
  <2>4. m \in 1 .. L /\ m - 1 \in 0 .. L /\ m - 1 \notin stuck
    BY <2>2, <2>3
  <2> QED
    BY <1>2, <2>2, <2>4
<1>4. Goes(L)
  BY <1>3
<1> QED
  BY <1>4 DEF Goes, Iterates

(* What holds at 0, and at each place if at the one before, holds at all.  *)
LEMMA Ascending ==
  ASSUME NEW L \in Nat, NEW T, 0 \in T,
         \A n \in 1 .. L : n - 1 \in T => n \in T
  PROVE  \A n \in 0 .. L : n \in T
<1> DEFINE missing == {n \in 0 .. L : n \notin T}
<1>1. missing \in SUBSET Nat
  OBVIOUS
<1>2. ASSUME missing # {} PROVE FALSE
  <2>1. PICK n \in missing : \A m \in missing : n <= m
    <3> HIDE DEF missing
    <3> QED
      BY <1>1, <1>2, LeastElement
  <2>2. n \in 0 .. L /\ n # 0 /\ n \notin T
    OBVIOUS
  <2>3. n \in 1 .. L /\ n - 1 \in 0 .. L /\ n - 1 \notin missing
    BY <2>1, <2>2
  <2> QED
    BY <2>2, <2>3
<1> QED
  BY <1>2
=============================================================================
