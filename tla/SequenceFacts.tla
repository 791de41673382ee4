--------------------------- MODULE SequenceFacts ----------------------------
(***************************************************************************)
(* What the proofs of this project need to know of the natural numbers, of *)
(* functions defined by recursion on them, of sorting, of sequences        *)
(* without repetition (their ranges, heads and tails) and of the order of  *)
(* the positions in a set.                                                 *)
(***************************************************************************)
EXTENDS Integers, Sequences, Functions, FiniteSets, SequenceTheorems,
        FiniteSetTheorems, WellFoundedInduction, TLAPS

-----------------------------------------------------------------------------
(* Natural numbers.                                                          *)

(* A set of natural numbers that is not empty has a least element. *)
LEMMA LeastElement ==
    ASSUME NEW T \in SUBSET Nat, T # {}
    PROVE  \E x \in T : \A y \in T : x <= y
  <1> DEFINE R == {p \in Nat \X Nat : p[1] < p[2]}
  <1>1. IsWellFoundedOn(R, Nat)
    BY NatLessThanWellFounded DEF OpToRel
  <1>2. PICK x \in T : \A y \in T : ~(<<y, x>> \in R)
    BY <1>1, WFMin
  <1>3. x \in Nat /\ \A y \in T : y \in Nat
    OBVIOUS
  <1>4. ASSUME NEW y \in T PROVE x <= y
    <2>1. ~(<<y, x>> \in {p \in Nat \X Nat : p[1] < p[2]})
      BY <1>2
    <2>2. <<y, x>> \in Nat \X Nat
      BY <1>3
    <2>3. ~(<<y, x>>[1] < <<y, x>>[2])
      BY <2>1, <2>2, Zenon
    <2> QED
      BY <1>3, <2>3
  <1> QED
    BY <1>4

(* Induction: a set that contains 0 and with a number the next one. *)
LEMMA ContainsNat ==
    ASSUME NEW S, 0 \in S, \A n \in Nat : n \in S => n + 1 \in S
    PROVE  Nat \subseteq S
  <1> SUFFICES ASSUME Nat \ S # {} PROVE FALSE
    OBVIOUS
  <1>1. Nat \ S \in SUBSET Nat
    OBVIOUS
  <1>2. PICK x \in Nat \ S : \A y \in Nat \ S : x <= y
    BY <1>1, LeastElement
  <1>3. x # 0 /\ x - 1 \in Nat /\ ~(x <= x - 1) /\ (x - 1) + 1 = x
    BY <1>2
  <1>4. x - 1 \in S
    BY <1>2, <1>3
  <1> QED
    BY <1>2, <1>3, <1>4

(* A recursion that computes each value from the previous one has a solution. *)
Iterates(h, v, m, n, step) ==
    \A i \in m .. n : h[i] = IF i = m THEN v ELSE step[<<h[i - 1], i>>]

LEMMA Iteration ==
    ASSUME NEW V, NEW v \in V, NEW m \in Int, NEW n \in Int, m <= n,
           NEW step \in [V \X Int -> V]
    PROVE  \E h \in [m .. n -> V] : Iterates(h, v, m, n, step)
  <1> DEFINE Solves(h, k) ==
        \A i \in m .. (m + k) : h[i] = IF i = m THEN v ELSE step[<<h[i - 1], i>>]
             S == {k \in Nat : \E h \in [m .. (m + k) -> V] : Solves(h, k)}
  <1>1. 0 \in S
    <2> DEFINE h == [i \in m .. (m + 0) |-> v]
    <2>1. h \in [m .. (m + 0) -> V] /\ Solves(h, 0)
      OBVIOUS
    <2> QED
      BY <2>1
  <1>2. ASSUME NEW k \in Nat, k \in S
        PROVE  k + 1 \in S
    <2>1. PICK h \in [m .. (m + k) -> V] : Solves(h, k)
      BY <1>2
    <2> DEFINE next == step[<<h[m + k], m + k + 1>>]
               g == [i \in m .. (m + (k + 1)) |-> IF i = m + k + 1 THEN next ELSE h[i]]
    <2>2. h[m + k] \in V /\ next \in V
      BY <2>1
    <2>3. g \in [m .. (m + (k + 1)) -> V]
      BY <2>1, <2>2
    <2>4. ASSUME NEW i \in m .. (m + (k + 1))
          PROVE  g[i] = IF i = m THEN v ELSE step[<<g[i - 1], i>>]
      <3>1. CASE i = m + k + 1
        <4>1. i # m /\ i - 1 = m + k /\ i - 1 \in m .. (m + (k + 1)) /\ i - 1 # m + k + 1
          BY <3>1
        <4>2. g[i - 1] = h[m + k] /\ g[i] = next
          BY <3>1, <4>1
        <4> QED
          BY <3>1, <4>1, <4>2
      <3>2. CASE i # m + k + 1
        <4>1. i \in m .. (m + k) /\ g[i] = h[i]
          BY <3>2
        <4>2. i # m => i - 1 \in m .. (m + (k + 1)) /\ i - 1 # m + k + 1 /\ g[i - 1] = h[i - 1]
          BY <4>1
        <4> QED
          BY <2>1, <4>1, <4>2
      <3> QED
        BY <3>1, <3>2
    <2>5. Solves(g, k + 1)
      BY <2>4
    <2> HIDE DEF g, Solves
    <2>6. \E f \in [m .. (m + (k + 1)) -> V] : Solves(f, k + 1)
      BY <2>3, <2>5
    <2> QED
      BY <2>6
  <1> HIDE DEF S
  <1>3. n - m \in S
    BY <1>1, <1>2, ContainsNat
  <1>4. m + (n - m) = n
    OBVIOUS
  <1> QED
    BY <1>3, <1>4 DEF S, Iterates

-----------------------------------------------------------------------------
(* Sorting.                                                                  *)

(* The place of i among 1 .. n, where <<j, i>> \in R says that j is before i. *)
Place(R, n, i) == 1 + Cardinality({j \in 1 .. n : <<j, i>> \in R})

StrictOrder(R, n) ==
    /\ \A i \in 1 .. n : <<i, i>> \notin R
    /\ \A i, j \in 1 .. n : i # j => <<i, j>> \in R \/ <<j, i>> \in R
    /\ \A i, j, k \in 1 .. n : <<i, j>> \in R /\ <<j, k>> \in R => <<i, k>> \in R

(* What is ordered strictly has places of its own, the earlier the smaller. *)
LEMMA Places ==
    ASSUME NEW n \in Nat, NEW R, StrictOrder(R, n)
    PROVE  /\ \A i \in 1 .. n : Place(R, n, i) \in 1 .. n
           /\ \A i, j \in 1 .. n : <<i, j>> \in R => Place(R, n, i) < Place(R, n, j)
           /\ \A k \in 1 .. n : \E i \in 1 .. n : Place(R, n, i) = k
  <1> DEFINE D == 1 .. n
             B(i) == {j \in D : <<j, i>> \in R}
  <1>1. IsFiniteSet(D) /\ Cardinality(D) = n
    BY FS_Interval
  <1>2. ASSUME NEW i \in D
        PROVE  IsFiniteSet(B(i)) /\ Cardinality(B(i)) \in Nat /\ Cardinality(B(i)) < n
    <2>1. B(i) \in SUBSET D /\ i \notin B(i)
      BY DEF StrictOrder
    <2>2. /\ IsFiniteSet(B(i)) /\ Cardinality(B(i)) <= Cardinality(D)
          /\ Cardinality(D) = Cardinality(B(i)) => D = B(i)
      <3> HIDE DEF B, D
      <3> QED
        BY <1>1, <2>1, FS_Subset, Zenon
    <2>3. Cardinality(B(i)) \in Nat
      BY <2>2, FS_CardinalityType
    <2>4. Cardinality(B(i)) <= n /\ Cardinality(B(i)) # n
      BY <1>1, <2>1, <2>2
    <2> QED
      BY <2>2, <2>3, <2>4
  <1>3. \A i \in D : Place(R, n, i) \in D
    BY <1>2 DEF Place
  <1>4. ASSUME NEW i \in D, NEW j \in D, <<i, j>> \in R
        PROVE  Place(R, n, i) < Place(R, n, j)
    <2>1. B(i) \in SUBSET B(j) /\ i \in B(j) /\ i \notin B(i)
      BY <1>4 DEF StrictOrder
    <2>2. Cardinality(B(i)) <= Cardinality(B(j)) /\ Cardinality(B(i)) # Cardinality(B(j))
      BY <1>2, <2>1, FS_Subset
    <2> QED
      BY <1>2, <2>2 DEF Place
  <1>5. ASSUME NEW k \in D
        PROVE  \E i \in D : Place(R, n, i) = k
    <2> DEFINE f == [i \in D |-> Place(R, n, i)]
    <2>1. f \in [D -> D]
      BY <1>3
    <2>2. \A i, j \in D : f[i] = f[j] => i = j
      <3> SUFFICES ASSUME NEW i \in D, NEW j \in D, Place(R, n, i) = Place(R, n, j), i # j
                   PROVE  FALSE
        OBVIOUS
      <3>1. <<i, j>> \in R \/ <<j, i>> \in R
        BY DEF StrictOrder
      <3>2. Place(R, n, i) < Place(R, n, j) \/ Place(R, n, j) < Place(R, n, i)
        BY <1>4, <3>1
      <3> QED
        BY <1>3, <3>2
    <2>3. f \in Injection(D, D)
      BY <2>1, <2>2 DEF Injection, IsInjective
    <2>4. f \in Surjection(D, D)
      BY <1>1, <2>3, FS_Injection, Zenon
    <2> QED
      BY <2>4 DEF Surjection
  <1> QED
    BY <1>3, <1>4, <1>5

-----------------------------------------------------------------------------
(* Sequences.                                                                *)

LEMMA EmptyRange == Range(<< >>) = {} /\ IsInjective(<< >>)
  BY DEF Range, IsInjective

LEMMA SingletonRange ==
    ASSUME NEW x PROVE Range(<<x>>) = {x} /\ IsInjective(<<x>>)
  BY DEF Range, IsInjective

LEMMA RangeOfAppend ==
    ASSUME NEW S, NEW s \in Seq(S), NEW x \in S
    PROVE  Range(Append(s, x)) = Range(s) \cup {x}
  <1>1. Range(Append(s, x)) = {Append(s, x)[i] : i \in 1..(Len(s) + 1)}
    <2>1. Append(s, x) \in Seq(S) /\ Len(Append(s, x)) = Len(s) + 1
      BY AppendProperties
    <2>2. Range(Append(s, x)) = {Append(s, x)[i] : i \in 1..Len(Append(s, x))}
      BY <2>1, RangeEquality, Zenon
    <2> QED
      BY <2>1, <2>2, Zenon
  <1>2. Range(s) = {s[i] : i \in 1..Len(s)}
    BY RangeEquality
  <1>3. Len(s) \in Nat
    OBVIOUS
  <1>4. 1..(Len(s) + 1) = (1..Len(s)) \cup {Len(s) + 1}
    BY <1>3
  <1>5. /\ \A i \in 1..Len(s) : Append(s, x)[i] = s[i]
        /\ Append(s, x)[Len(s) + 1] = x
    BY AppendProperties
  <1> QED
    BY <1>1, <1>2, <1>4, <1>5

LEMMA AppendIsInjective ==
    ASSUME NEW S, NEW s \in Seq(S), NEW x \in S, IsInjective(s), x \notin Range(s)
    PROVE  IsInjective(Append(s, x))
  <1>1. /\ DOMAIN s = 1..Len(s) /\ Len(s) \in Nat
        /\ DOMAIN Append(s, x) = 1..(Len(s) + 1)
    BY AppendProperties, LenProperties
  <1>2. /\ \A i \in 1..Len(s) : Append(s, x)[i] = s[i]
        /\ Append(s, x)[Len(s) + 1] = x
    BY AppendProperties
  <1>3. \A i \in 1..Len(s) : s[i] # x
    BY <1>1 DEF Range
  <1> QED
    BY <1>1, <1>2, <1>3 DEF IsInjective

LEMMA SplitHead ==
    ASSUME NEW S, NEW s \in Seq(S), s # << >>
    PROVE  /\ Head(s) \in S /\ Tail(s) \in Seq(S)
           /\ s = <<Head(s)>> \o Tail(s)
           /\ Range(s) = Range(Tail(s)) \cup {Head(s)}
           /\ IsInjective(s) => IsInjective(Tail(s)) /\ Head(s) \notin Range(Tail(s))
  <1>1. /\ Head(s) \in S /\ Tail(s) \in Seq(S) /\ Len(Tail(s)) = Len(s) - 1
        /\ \A i \in 1..Len(Tail(s)) : Tail(s)[i] = s[i + 1]
        /\ Len(s) \in Nat \ {0} /\ Head(s) = s[1]
    BY HeadTailProperties, EmptySeq
  <1>2. s = <<Head(s)>> \o Tail(s)
    <2> DEFINE t == <<Head(s)>> \o Tail(s)
    <2>1. t \in Seq(S) /\ Len(t) = Len(s)
      BY <1>1
    <2>2. \A i \in 1..Len(s) : t[i] = s[i]
      BY <1>1
    <2> QED
      BY <2>1, <2>2, SeqEqual
  <1>3. Range(<<Head(s)>>) = {Head(s)}
    BY DEF Range
  <1>4. Range(s) = Range(Tail(s)) \cup {Head(s)}
    <2>1. <<Head(s)>> \in Seq(S)
      BY <1>1
    <2>0. \A a, b \in Seq(S) : Range(a \o b) = Range(a) \cup Range(b)
      BY RangeConcatenation
    <2>2. Range(<<Head(s)>> \o Tail(s)) = Range(<<Head(s)>>) \cup Range(Tail(s))
      BY <1>1, <2>0, <2>1, ZenonT(60)
    <2> QED
      BY <1>2, <1>3, <2>2, Zenon
  <1>5. ASSUME IsInjective(s)
        PROVE  IsInjective(Tail(s)) /\ Head(s) \notin Range(Tail(s))
    <2>1. DOMAIN s = 1..Len(s) /\ DOMAIN Tail(s) = 1..Len(Tail(s))
      BY <1>1, LenProperties
    <2>2. \A i \in 1..Len(Tail(s)) : i + 1 \in DOMAIN s /\ 1 \in DOMAIN s /\ i + 1 # 1
      BY <1>1, <2>1
    <2>3. Head(s) \notin Range(Tail(s))
      BY <1>1, <1>5, <2>1, <2>2 DEF IsInjective, Range
    <2>4. ASSUME NEW i \in DOMAIN Tail(s), NEW j \in DOMAIN Tail(s), Tail(s)[i] = Tail(s)[j]
          PROVE  i = j
      <3>1. s[i + 1] = s[j + 1] /\ i \in Nat /\ j \in Nat
        BY <1>1, <2>1, <2>4
      <3> QED
        BY <1>5, <2>1, <2>2, <3>1 DEF IsInjective
    <2> QED
      BY <2>3, <2>4 DEF IsInjective
  <1> QED
    BY <1>1, <1>2, <1>4, <1>5

-----------------------------------------------------------------------------
(* Sets of positions.                                                        *)

(* The positions of P up to one. *)
UpTo(P, i) == {j \in P : j <= i}

(* The elements of a set of positions in their order. *)
Enumeration(P) ==
    [k \in 1 .. Cardinality(P) |-> CHOOSE i \in P : Cardinality(UpTo(P, i)) = k]

(* q lists the m positions of P in their order. *)
Enumerates(q, m, P) ==
    /\ q \in [1 .. m -> P]
    /\ \A k, l \in 1 .. m : k < l => q[k] < q[l]
    /\ \A i \in P : \E k \in 1 .. m : q[k] = i

(* A position is found under the number of those up to it. *)
LEMMA RankOf ==
    ASSUME NEW n \in Nat, NEW P \in SUBSET (1 .. n), NEW m \in Nat, NEW q, Enumerates(q, m, P),
           NEW k \in 1 .. m
    PROVE  Cardinality(UpTo(P, q[k])) = k
  <1> DEFINE U == {j \in P : j <= q[k]}
             f == [l \in 1 .. k |-> q[l]]
  <1>1. /\ q \in [1 .. m -> P] /\ \A i \in P : i \in Int
        /\ \A j, l \in 1 .. m : j < l => q[j] < q[l]
        /\ \A i \in P : \E l \in 1 .. m : q[l] = i
    BY DEF Enumerates
  <1>2. \A l \in 1 .. k : l \in 1 .. m /\ (l = k \/ l < k)
    OBVIOUS
  <1>3. f \in [1 .. k -> U]
    <2>1. ASSUME NEW l \in 1 .. k PROVE q[l] \in U
      <3>1. q[l] \in P /\ q[k] \in P /\ q[l] \in Int /\ q[k] \in Int /\ (l = k \/ q[l] < q[k])
        BY <1>1, <1>2
      <3> QED
        BY <3>1
    <2> QED
      BY <2>1
  <1>4. \A x, y \in 1 .. m : q[x] = q[y] => x = y
    <2> SUFFICES ASSUME NEW x \in 1 .. m, NEW y \in 1 .. m, x # y PROVE q[x] # q[y]
      OBVIOUS
    <2>1. q[x] \in Int /\ q[y] \in Int
      BY <1>1
    <2>2. x < y \/ y < x
      OBVIOUS
    <2> QED
      BY <1>1, <2>1, <2>2
  <1>5. ASSUME NEW i \in U PROVE \E l \in 1 .. k : f[l] = i
    <2>1. PICK l \in 1 .. m : q[l] = i
      BY <1>1
    <2>2. ~(k < l)
      <3> SUFFICES ASSUME k < l PROVE FALSE
        OBVIOUS
      <3>1. q[k] < q[l] /\ q[l] <= q[k] /\ q[k] \in Int /\ q[l] \in Int
        BY <1>1, <2>1
      <3> QED
        BY <3>1
    <2> QED
      BY <2>1, <2>2
  <1>6. f \in Bijection(1 .. k, U)
    <2>1. \A x, y \in 1 .. k : f[x] = f[y] => x = y
      BY <1>2, <1>4
    <2> HIDE DEF f, U
    <2> QED
      BY <1>3, <1>5, <2>1 DEF Bijection, Injection, Surjection, IsInjective
  <1>7. IsFiniteSet(1 .. k) /\ Cardinality(1 .. k) = k
    BY FS_Interval
  <1> HIDE DEF f, U
  <1>8. Cardinality(U) = Cardinality(1 .. k)
    BY <1>6, <1>7, FS_Bijection DEF ExistsBijection
  <1> QED
    BY <1>7, <1>8 DEF U, UpTo

(* A set of positions is enumerated in its order. *)
LEMMA EnumerationWorks ==
    ASSUME NEW n \in Nat, NEW P \in SUBSET (1 .. n)
    PROVE  /\ IsFiniteSet(P) /\ Cardinality(P) \in Nat
           /\ Enumerates(Enumeration(P), Cardinality(P), P)
  <1> DEFINE m == Cardinality(P)
             U(i) == {j \in P : j <= i}
             r == [i \in P |-> Cardinality(U(i))]
  <1>1. IsFiniteSet(P) /\ m \in Nat /\ \A i \in P : i \in Int
    <2>1. IsFiniteSet(1 .. n)
      BY FS_Interval
    <2>2. IsFiniteSet(P)
      BY <2>1, FS_Subset
    <2> QED
      BY <2>2, FS_CardinalityType
  <1>2. ASSUME NEW i \in P
        PROVE  IsFiniteSet(U(i)) /\ r[i] \in 1 .. m
    <2>1. U(i) \in SUBSET P /\ i \in U(i)
      BY <1>1
    <2>2. IsFiniteSet(U(i)) /\ Cardinality(U(i)) \in Nat /\ Cardinality(U(i)) <= m
          /\ Cardinality(U(i)) # 0
      <3> HIDE DEF U
      <3> QED
        BY <1>1, <2>1, FS_Subset, FS_CardinalityType, FS_EmptySet
    <2> QED
      BY <1>1, <2>2
  <1>3. ASSUME NEW i \in P, NEW j \in P, i < j
        PROVE  r[i] < r[j]
    <2>1. U(i) \in SUBSET U(j) /\ j \in U(j) /\ j \notin U(i)
      <3>1. i \in Int /\ j \in Int /\ ~(j <= i) /\ j <= j
        BY <1>1, <1>3
      <3>2. \A k \in P : k <= i => k <= j
        BY <1>1, <1>3, <3>1
      <3> QED
        BY <3>1, <3>2
    <2>2. IsFiniteSet(U(j)) /\ r[i] \in Int /\ r[j] \in Int
      BY <1>2
    <2>3. r[i] = Cardinality(U(i)) /\ r[j] = Cardinality(U(j))
      OBVIOUS
    <2> HIDE DEF U, r
    <2>4. r[i] <= r[j] /\ r[i] # r[j]
      BY <2>1, <2>2, <2>3, FS_Subset
    <2> QED
      BY <2>2, <2>4
  <1>4. r \in [P -> 1 .. m]
    BY <1>2
  <1>5. \A i, j \in P : r[i] = r[j] => i = j
    <2> HIDE DEF r
    <2> SUFFICES ASSUME NEW i \in P, NEW j \in P, i # j PROVE r[i] # r[j]
      OBVIOUS
    <2>1. (i < j \/ j < i) /\ r[i] \in Int /\ r[j] \in Int
      BY <1>1, <1>4
    <2> QED
      BY <1>3, <2>1
  <1> DEFINE e == Enumeration(P)
  <1> HIDE DEF r
  <1>6. \A k \in 1 .. m : \E i \in P : r[i] = k
    <2>1. r \in Injection(P, 1 .. m)
      BY <1>4, <1>5 DEF Injection, IsInjective
    <2>2. IsFiniteSet(1 .. m) /\ Cardinality(1 .. m) = m
      BY <1>1, FS_Interval
    <2>3. r \in Surjection(P, 1 .. m)
      BY <2>1, <2>2, FS_Injection, Zenon
    <2> QED
      BY <2>3 DEF Surjection
  <1>7. ASSUME NEW k \in 1 .. m
        PROVE  e[k] \in P /\ r[e[k]] = k
    <2>1. e[k] = CHOOSE i \in P : Cardinality(UpTo(P, i)) = k
      BY DEF Enumeration
    <2>2. PICK i \in P : r[i] = k
      BY <1>6
    <2>3. \A x \in P : r[x] = Cardinality(UpTo(P, x))
      BY DEF r, UpTo
    <2> QED
      BY <2>1, <2>2, <2>3
  <1>8. DOMAIN e = 1 .. m /\ e = [k \in 1 .. m |-> e[k]]
    BY DEF Enumeration
  <1>9. e \in [1 .. m -> P]
    <2> HIDE DEF e, m
    <2> QED
      BY <1>7, <1>8
  <1>10. \A i \in P : e[r[i]] = i /\ r[i] \in 1 .. m
    BY <1>4, <1>5, <1>7
  <1>11. ASSUME NEW k \in 1 .. m, NEW l \in 1 .. m, k < l
         PROVE  e[k] < e[l]
    <2>1. e[k] \in Int /\ e[l] \in Int /\ e[k] \in P /\ e[l] \in P
      BY <1>1, <1>7
    <2>2. ~(e[l] < e[k]) /\ e[l] # e[k]
      <3>1. r[e[k]] = k /\ r[e[l]] = l
        BY <1>7
      <3> HIDE DEF e
      <3> QED
        BY <1>3, <1>11, <2>1, <3>1
    <2> HIDE DEF e
    <2> QED
      BY <2>1, <2>2
  <1> HIDE DEF e
  <1> QED
    BY <1>1, <1>9, <1>10, <1>11 DEF Enumerates, e

(* What enumerates a set is its enumeration. *)
LEMMA EnumerationIsUnique ==
    ASSUME NEW n \in Nat, NEW P \in SUBSET (1 .. n), NEW m \in Nat, NEW q, Enumerates(q, m, P)
    PROVE  m = Cardinality(P) /\ q = Enumeration(P)
  <1> DEFINE c == Cardinality(P)
             e == Enumeration(P)
  <1>1. /\ IsFiniteSet(P) /\ c \in Nat /\ Enumerates(e, c, P)
    BY EnumerationWorks
  <1>2. m = c
    <2>1. \A x, y \in 1 .. m : q[x] = q[y] => x = y
      <3> SUFFICES ASSUME NEW x \in 1 .. m, NEW y \in 1 .. m, x # y PROVE q[x] # q[y]
        OBVIOUS
      <3>1. q[x] \in P /\ q[y] \in P
        BY DEF Enumerates
      <3>2. q[x] \in Int /\ q[y] \in Int
        <4>1. \A i \in P : i \in Int
          OBVIOUS
        <4> QED
          BY <3>1, <4>1
      <3>3. x < y \/ y < x
        OBVIOUS
      <3> QED
        BY <3>2, <3>3 DEF Enumerates
    <2>2. q \in Bijection(1 .. m, P)
      BY <2>1 DEF Enumerates, Bijection, Injection, Surjection, IsInjective
    <2>3. IsFiniteSet(1 .. m) /\ Cardinality(1 .. m) = m
      BY FS_Interval
    <2> QED
      BY <2>2, <2>3, FS_Bijection DEF ExistsBijection
  <1>3. ASSUME NEW k \in 1 .. m
        PROVE  q[k] = e[k]
    <2>1. q[k] \in P /\ e[k] \in P
      BY <1>1, <1>2 DEF Enumerates
    <2>2. Cardinality(UpTo(P, q[k])) = k
      BY RankOf
    <2>3. PICK l \in 1 .. m : e[l] = q[k]
      BY <1>1, <1>2, <2>1 DEF Enumerates
    <2>4. Cardinality(UpTo(P, e[l])) = l
      <3> HIDE DEF e, c
      <3> QED
        BY <1>1, <1>2, RankOf
    <2> QED
      BY <2>2, <2>3, <2>4
  <1>4. q \in [1 .. m -> P] /\ e \in [1 .. c -> P]
    BY <1>1 DEF Enumerates
  <1> HIDE DEF c, e
  <1>5. q = e
    BY <1>2, <1>3, <1>4
  <1> QED
    BY <1>2, <1>5 DEF c, e

=============================================================================
