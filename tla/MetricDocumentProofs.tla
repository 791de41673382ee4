----------------------- MODULE MetricDocumentProofs ------------------------
(***************************************************************************)
(* Proofs about the metric documents of PureFunctions, for any outcomes of *)
(* two events: what is stored is what was recorded, and the listings show  *)
(* what was stored.                                                        *)
(***************************************************************************)
EXTENDS FunctionProofs

-----------------------------------------------------------------------------
(* What a document is read back as: for one playbook and kind, for a playbook, *)
(* for all of them.                                                          *)

(* MetricDocuments counts sets as the proofs do. *)
LEMMA CountedAlike == \A S : Doc!Cardinality(S) = Cardinality(S)
  BY DEF Doc!Cardinality, Cardinality

(* Filtering a list keeps what is at the positions, in their order. *)
LEMMA SelectAtEnumerates ==
    ASSUME NEW s, NEW n \in Nat, NEW P \in SUBSET (1 .. n)
    PROVE  LET m == Cardinality(P)
           IN  /\ m \in Nat /\ Enumerates(Enumeration(P), m, P)
               /\ Doc!SelectAt(s, P) = [k \in 1 .. m |-> s[Enumeration(P)[k]]]
  <1> DEFINE m == Cardinality(P)
             e == Enumeration(P)
  <1>1. m \in Nat /\ Enumerates(e, m, P)
    BY EnumerationWorks
  <1>2. Doc!SelectAt(s, P) =
           [k \in 1 .. Doc!Cardinality(P) |->
               s[CHOOSE i \in P : Doc!Cardinality(UpTo(P, i)) = k]]
    BY DEF Doc!SelectAt, UpTo
  <1>3. Doc!Cardinality(P) = m
    BY CountedAlike
  <1>4. ASSUME NEW k \in 1 .. m
        PROVE  (CHOOSE i \in P : Doc!Cardinality(UpTo(P, i)) = k) = e[k]
    <2>1. \A i : Doc!Cardinality(UpTo(P, i)) = Cardinality(UpTo(P, i))
      BY CountedAlike
    <2>2. e[k] = CHOOSE i \in P : Cardinality(UpTo(P, i)) = k
      BY DEF Enumeration
    <2> HIDE DEF e
    <2> QED
      BY <2>1, <2>2
  <1> HIDE DEF e, m
  <1>5. Doc!SelectAt(s, P) = [k \in 1 .. m |-> s[e[k]]]
    BY <1>2, <1>3, <1>4
  <1> QED
    BY <1>1, <1>5 DEF e, m

(* Sequences are flattened one by one. *)
JoinsUp(h, seqs, n) == h[1] = seqs[1] /\ \A i \in 2 .. n : h[i] = h[i - 1] \o seqs[i]

LEMMA FlattenSteps ==
    ASSUME NEW X, NEW n \in Nat \ {0}, NEW seqs \in [1 .. n -> Seq(X)]
    PROVE  \E h \in [1 .. n -> Seq(X)] : JoinsUp(h, seqs, n) /\ Doc!FlattenSeq(seqs) = h[n]
  <1> DEFINE V == Seq(X)
             Solve(g) == [i \in 1 .. n |-> IF i = 1 THEN seqs[i] ELSE g[i - 1] \o seqs[i]]
             flatten == CHOOSE g : g = Solve(g)
             step == [w \in V \X Int |-> IF w[2] \in 1 .. n THEN w[1] \o seqs[w[2]] ELSE w[1]]
  <1>1. seqs \in Seq(V) /\ Len(seqs) = n
    OBVIOUS
  <1>2. Doc!FlattenSeq(seqs) = flatten[n]
    BY <1>1 DEF Doc!FlattenSeq
  <1>3. PICK h \in [1 .. n -> V] : Iterates(h, seqs[1], 1, n, step)
    <2>1. step \in [V \X Int -> V]
      OBVIOUS
    <2>2. 1 \in Int /\ n \in Int /\ 1 <= n /\ seqs[1] \in V
      OBVIOUS
    <2> HIDE DEF step, V
    <2> QED
      BY <2>1, <2>2, Iteration
  <1>4. h[1] = seqs[1] /\ \A i \in 2 .. n : h[i] = h[i - 1] \o seqs[i]
    <2>1. h[1] = seqs[1]
      <3>1. 1 \in 1 .. n
        OBVIOUS
      <3> QED
        BY <1>3, <3>1 DEF Iterates
    <2>2. ASSUME NEW i \in 2 .. n PROVE h[i] = h[i - 1] \o seqs[i]
      <3>1. i \in 1 .. n /\ i # 1 /\ i - 1 \in 1 .. n /\ i \in Int
        OBVIOUS
      <3>2. h[i] = step[<<h[i - 1], i>>] /\ h[i - 1] \in V
        BY <1>3, <3>1 DEF Iterates
      <3> QED
        BY <3>1, <3>2
    <2> QED
      BY <2>1, <2>2
  <1>5. flatten = Solve(flatten)
    <2>1. h = Solve(h)
      <3>1. \A i \in 1 .. n : i # 1 => i \in 2 .. n
        OBVIOUS
      <3> QED
        BY <1>4, <3>1
    <2> HIDE DEF Solve
    <2> QED
      BY <2>1
  <1> HIDE DEF flatten, step
  <1> DEFINE T == {i \in 1 .. n : flatten[i] # h[i]}
  <1>6. ASSUME T # {} PROVE FALSE
    <2>1. T \in SUBSET Nat
      OBVIOUS
    <2>2. PICK i \in T : \A y \in T : i <= y
      <3> HIDE DEF T
      <3> QED
        BY <1>6, <2>1, LeastElement
    <2>3. i \in 1 .. n /\ flatten[i] # h[i]
      OBVIOUS
    <2>4. i # 1
      BY <1>4, <1>5, <2>3
    <2>5. i - 1 \in 1 .. n /\ ~(i <= i - 1) /\ i \in 2 .. n
      BY <2>3, <2>4
    <2>6. flatten[i - 1] = h[i - 1]
      BY <2>2, <2>5
    <2>7. flatten[i] = flatten[i - 1] \o seqs[i]
      BY <1>5, <2>3, <2>4
    <2> QED
      BY <1>4, <2>3, <2>5, <2>6, <2>7
  <1>7. n \in 1 .. n
    OBVIOUS
  <1>8. flatten[n] = h[n]
    BY <1>6, <1>7
  <1> QED
    BY <1>2, <1>4, <1>8 DEF JoinsUp

(* Records of one playbook, that are all of rules or all of actions. *)
SameKind(r, q) == r.playbook = q.playbook /\ (r.type \in Doc!RuleTypes <=> q.type \in Doc!RuleTypes)

(* s has the elements of t at the positions of A, each once: the k-th is that at
   at[k].  Those of one playbook and kind are in their order. *)
Arranges(at, s, t, A) ==
    /\ at \in [1 .. Len(s) -> A]
    /\ \A i \in A : \E k \in 1 .. Len(s) : at[k] = i
    /\ \A k, l \in 1 .. Len(s) : at[k] = at[l] => k = l
    /\ \A k \in 1 .. Len(s) : s[k] = t[at[k]]
    /\ \A k, l \in 1 .. Len(s) : k < l /\ SameKind(s[k], s[l]) => at[k] < at[l]

(* Two lists of records arranged from disjoint positions, of different kinds or
   playbooks, are arranged when joined. *)
LEMMA ArrangedJoin ==
    ASSUME NEW X, NEW s \in Seq(X), NEW u \in Seq(X), NEW t, NEW A, NEW B, NEW p, NEW q,
           Arranges(p, s, t, A), Arranges(q, u, t, B),
           \A i \in A, j \in B : i # j /\ ~SameKind(t[i], t[j])
    PROVE  \E r : Arranges(r, s \o u, t, A \cup B)
  <1> DEFINE m == Len(s)
             n == Len(s \o u)
             r == [k \in 1 .. n |-> IF k <= m THEN p[k] ELSE q[k - m]]
  <1>1. /\ m \in Nat /\ n = m + Len(u) /\ Len(u) \in Nat
        /\ \A k \in 1 .. m : (s \o u)[k] = s[k]
        /\ \A k \in 1 .. n : k > m => (s \o u)[k] = u[k - m] /\ k - m \in 1 .. Len(u)
    BY JoinedLists
  <1> HIDE DEF m, n
  <1>2. /\ p \in [1 .. m -> A] /\ \A i \in A : \E k \in 1 .. m : p[k] = i
        /\ \A k, l \in 1 .. m : p[k] = p[l] => k = l
        /\ \A k \in 1 .. m : s[k] = t[p[k]]
        /\ \A k, l \in 1 .. m : k < l /\ SameKind(s[k], s[l]) => p[k] < p[l]
    BY DEF Arranges, m
  <1>3. /\ q \in [1 .. Len(u) -> B] /\ \A i \in B : \E k \in 1 .. Len(u) : q[k] = i
        /\ \A k, l \in 1 .. Len(u) : q[k] = q[l] => k = l
        /\ \A k \in 1 .. Len(u) : u[k] = t[q[k]]
        /\ \A k, l \in 1 .. Len(u) : k < l /\ SameKind(u[k], u[l]) => q[k] < q[l]
    BY DEF Arranges
  <1>4. ASSUME NEW k \in 1 .. n
        PROVE  \/ /\ k \in 1 .. m /\ r[k] = p[k] /\ r[k] \in A /\ (s \o u)[k] = s[k]
               \/ /\ ~(k <= m) /\ k - m \in 1 .. Len(u) /\ r[k] = q[k - m] /\ r[k] \in B
                  /\ (s \o u)[k] = u[k - m]
    <2>1. CASE k <= m
      <3>1. k \in 1 .. m /\ r[k] = p[k]
        BY <1>1, <2>1
      <3> QED
        BY <1>1, <1>2, <3>1
    <2>2. CASE ~(k <= m)
      <3>1. k > m /\ r[k] = q[k - m]
        BY <1>1, <2>2
      <3> QED
        BY <1>1, <1>3, <2>2, <3>1
    <2> QED
      BY <2>1, <2>2
  <1>5. r \in [1 .. n -> A \cup B]
    <2>1. \A k \in 1 .. n : r[k] \in A \cup B
      BY <1>4
    <2> QED
      BY <2>1
  <1>6. ASSUME NEW i \in A \cup B PROVE \E k \in 1 .. n : r[k] = i
    <2>1. CASE i \in A
      <3>1. PICK k \in 1 .. m : p[k] = i
        BY <1>2, <2>1
      <3>2. k \in 1 .. n /\ k <= m
        BY <1>1
      <3> QED
        BY <3>1, <3>2
    <2>2. CASE i \in B
      <3>1. PICK k \in 1 .. Len(u) : q[k] = i
        BY <1>3, <2>2
      <3>2. k + m \in 1 .. n /\ ~(k + m <= m) /\ (k + m) - m = k
        BY <1>1
      <3>3. r[k + m] = q[k]
        BY <3>2
      <3> QED
        BY <3>1, <3>2, <3>3
    <2> QED
      BY <2>1, <2>2
  <1> HIDE DEF r
  <1>7. ASSUME NEW k \in 1 .. n
        PROVE  (s \o u)[k] = t[r[k]]
    <2>1. CASE k \in 1 .. m /\ r[k] = p[k] /\ (s \o u)[k] = s[k]
      BY <1>2, <2>1
    <2>2. CASE k - m \in 1 .. Len(u) /\ r[k] = q[k - m] /\ (s \o u)[k] = u[k - m]
      BY <1>3, <2>2
    <2> QED
      BY <1>4, <2>1, <2>2
  <1>8. ASSUME NEW k \in 1 .. n, NEW l \in 1 .. n
        PROVE  /\ r[k] = r[l] => k = l
               /\ k < l /\ SameKind((s \o u)[k], (s \o u)[l]) => r[k] < r[l]
    <2>1. CASE k \in 1 .. m /\ l \in 1 .. m
      <3>1. r[k] = p[k] /\ r[l] = p[l] /\ (s \o u)[k] = s[k] /\ (s \o u)[l] = s[l]
        <4>1. k <= m /\ l <= m
          BY <1>1, <2>1
        <4>2. \A x \in 1 .. n : x <= m => r[x] = p[x] /\ (s \o u)[x] = s[x]
          BY <1>4
        <4> QED
          BY <4>1, <4>2
      <3> QED
        BY <1>2, <2>1, <3>1
    <2>2. CASE ~(k <= m) /\ ~(l <= m)
      <3>1. /\ r[k] = q[k - m] /\ r[l] = q[l - m]
            /\ (s \o u)[k] = u[k - m] /\ (s \o u)[l] = u[l - m]
            /\ k - m \in 1 .. Len(u) /\ l - m \in 1 .. Len(u)
        <4>1. \A x \in 1 .. n : ~(x <= m) =>
                 x - m \in 1 .. Len(u) /\ r[x] = q[x - m] /\ (s \o u)[x] = u[x - m]
          <5> SUFFICES ASSUME NEW x \in 1 .. n, ~(x <= m)
                       PROVE  x - m \in 1 .. Len(u) /\ r[x] = q[x - m] /\ (s \o u)[x] = u[x - m]
            OBVIOUS
          <5>1. x \notin 1 .. m
            BY <1>1
          <5> QED
            BY <1>4, <5>1
        <4> QED
          BY <2>2, <4>1
      <3>2. (k < l => k - m < l - m) /\ (k - m = l - m => k = l)
        BY <1>1
      <3> QED
        BY <1>3, <3>1, <3>2
    <2>3. CASE k \in 1 .. m /\ ~(l <= m)
      <3>1. r[k] \in A /\ r[l] \in B
        BY <1>1, <1>4, <2>3
      <3> QED
        BY <1>7, <3>1
    <2>4. CASE ~(k <= m) /\ l \in 1 .. m
      <3>1. r[k] \in B /\ r[l] \in A /\ ~(k < l)
        BY <1>1, <1>4, <2>4
      <3> QED
        BY <1>7, <3>1
    <2>5. /\ k \in 1 .. m \/ ~(k <= m)
          /\ l \in 1 .. m \/ ~(l <= m)
      BY <1>1
    <2> QED
      BY <2>1, <2>2, <2>3, <2>4, <2>5
  <1>9. Arranges(r, s \o u, t, A \cup B)
    <2>1. n = Len(s \o u)
      BY DEF n
    <2> QED
      BY <1>5, <1>6, <1>7, <1>8, <2>1 DEF Arranges
  <1> QED
    BY <1>9

(* at pairs 1 .. n with the members of A. *)
Pairs(at, n, A) ==
    /\ at \in [1 .. n -> A]
    /\ \A k, l \in 1 .. n : at[k] = at[l] => k = l
    /\ \A i \in A : \E k \in 1 .. n : at[k] = i

(* Paired so, the members of P go with those of Q. *)
Matching(at, n, A, P, Q) ==
    P \subseteq 1 .. n /\ Q \subseteq A /\ \A k \in 1 .. n : k \in P <=> at[k] \in Q

(* Positions that are paired are as many. *)
LEMMA CountsAgree ==
    ASSUME NEW n \in Nat, NEW A, NEW at, Pairs(at, n, A),
           NEW P, NEW Q, Matching(at, n, A, P, Q)
    PROVE  Cardinality(P) = Cardinality(Q) /\ IsFiniteSet(Q) /\ Cardinality(Q) \in Nat
  <1> DEFINE f == [k \in P |-> at[k]]
  <1>1. f \in Bijection(P, Q)
    BY DEF Pairs, Matching, Bijection, Injection, Surjection, IsInjective
  <1>2. IsFiniteSet(1 .. n)
    BY FS_Interval
  <1>3. IsFiniteSet(P)
    BY <1>2, FS_Subset DEF Matching
  <1> HIDE DEF f
  <1>4. IsFiniteSet(Q) /\ Cardinality(Q) = Cardinality(P)
    BY <1>1, <1>3, FS_Bijection DEF ExistsBijection
  <1> QED
    BY <1>3, <1>4, FS_CardinalityType

(* What is recorded of an event: the rules of an outcome at one time and its
   actions at another. *)
RecordsOf(R, event, first, second) ==
    /\ IsSeq(R)
    /\ \A k \in DOMAIN R :
          /\ R[k] = [type |-> R[k].type, event |-> event, playbook |-> R[k].playbook,
                     rule |-> R[k].rule, action |-> R[k].action, time |-> R[k].time]
          /\ R[k].playbook # None
          /\ \/ R[k].type \in Doc!RuleTypes /\ R[k].time = first
             \/ R[k].type = "action.triggered" /\ R[k].time = second

(* What is recorded of an event comes from its outcome. *)
LEMMA RecordedOutcome ==
    ASSUME InputOK, input.of = "metrics", NEW i \in 1 .. 2
    PROVE  \E first, second \in 0 .. Now : RecordsOf(Recorded(i), Events[i], first, second)
  <1> DEFINE o == input.outcomes[i]
             event == Events[i]
             rm == Doc!RuleMetrics(event, o.evaluations, o.time)
             am == Doc!ActionMetrics(event, o.actions, o.time + o.delay)
             X == Range(rm) \cup Range(am)
  <1>1. o \in Outcomes \cup OtherOutcomes
    <2>1. input \in {[of |-> "metrics", outcomes |-> <<q, p>>] : q \in Outcomes, p \in OtherOutcomes}
      BY InputOfKind DEF Inputs, Kinds
    <2>2. PICK q \in Outcomes, p \in OtherOutcomes : input.outcomes = <<q, p>>
      BY <2>1
    <2>3. i = 1 \/ i = 2
      OBVIOUS
    <2> QED
      BY <2>2, <2>3
  <1>2. /\ IsSeq(o.evaluations) /\ IsSeq(o.actions)
        /\ o.time \in 0 .. Now /\ o.time + o.delay \in 0 .. Now
        /\ \A e \in Range(o.evaluations) : e.status \in Doc!RuleTypes /\ e.playbook # None
        /\ \A a \in Range(o.actions) : a.playbook # None
    BY <1>1, OutcomesAssumption
  <1> HIDE DEF o, event
  <1>3. \A k \in DOMAIN rm :
           /\ rm[k] = [type |-> rm[k].type, event |-> event, playbook |-> rm[k].playbook,
                       rule |-> rm[k].rule, action |-> rm[k].action, time |-> rm[k].time]
           /\ rm[k].playbook # None /\ rm[k].type \in Doc!RuleTypes /\ rm[k].time = o.time
    BY <1>2 DEF Doc!RuleMetrics, Range
  <1>4. \A k \in DOMAIN am :
           /\ am[k] = [type |-> am[k].type, event |-> event, playbook |-> am[k].playbook,
                       rule |-> am[k].rule, action |-> am[k].action, time |-> am[k].time]
           /\ am[k].playbook # None /\ am[k].type = "action.triggered"
           /\ am[k].time = o.time + o.delay
    BY <1>2 DEF Doc!ActionMetrics, Range
  <1>5. rm \in Seq(X)
    <2>1. \A k \in DOMAIN rm : rm[k] \in X
      BY DEF Range
    <2>2. DOMAIN rm = 1 .. Len(o.evaluations) /\ Len(o.evaluations) \in Nat
      BY <1>2 DEF IsSeq, Doc!RuleMetrics
    <2>3. rm \in [1 .. Len(o.evaluations) -> X]
      BY <2>1, <2>2 DEF Doc!RuleMetrics
    <2> HIDE DEF rm, X
    <2> QED
      BY <2>2, <2>3
  <1>6. am \in Seq(X)
    <2>1. \A k \in DOMAIN am : am[k] \in X
      BY DEF Range
    <2>2. DOMAIN am = 1 .. Len(o.actions) /\ Len(o.actions) \in Nat
      BY <1>2 DEF IsSeq, Doc!ActionMetrics
    <2>3. am \in [1 .. Len(o.actions) -> X]
      BY <2>1, <2>2 DEF Doc!ActionMetrics
    <2> HIDE DEF am, X
    <2> QED
      BY <2>2, <2>3
  <1>7. Recorded(i) = rm \o am
    BY DEF Recorded, Doc!MetricsOfOutcome, o, event
  <1> DEFINE R == rm \o am
  <1> HIDE DEF rm, am, X
  <1>8. IsSeq(R)
    <2>1. R \in Seq(X) /\ DOMAIN R = 1 .. Len(R) /\ Len(R) \in Nat
      BY <1>5, <1>6
    <2>2. \A k \in 1 .. Len(R) : R[k] \in Range(R)
      BY <2>1 DEF Range
    <2> HIDE DEF R
    <2> QED
      BY <2>1, <2>2 DEF IsSeq
  <1>9. ASSUME NEW k \in DOMAIN R
        PROVE  \/ \E l \in DOMAIN rm : R[k] = rm[l]
               \/ \E l \in DOMAIN am : R[k] = am[l]
    <2>1. /\ DOMAIN R = 1 .. Len(R) /\ DOMAIN rm = 1 .. Len(rm) /\ DOMAIN am = 1 .. Len(am)
          /\ Len(rm) \in Nat /\ Len(R) \in Nat
      BY <1>5, <1>6
    <2>2. /\ \A l \in 1 .. Len(rm) : R[l] = rm[l]
          /\ \A l \in 1 .. Len(R) : l > Len(rm) =>
                R[l] = am[l - Len(rm)] /\ l - Len(rm) \in 1 .. Len(am)
      BY <1>5, <1>6, JoinedLists
    <2> HIDE DEF R
    <2>3. k \in 1 .. Len(R)
      BY <2>1
    <2>4. CASE k > Len(rm)
      BY <2>1, <2>2, <2>3, <2>4
    <2>5. CASE ~(k > Len(rm))
      BY <2>1, <2>2, <2>3, <2>5
    <2> QED
      BY <2>4, <2>5
  <1> HIDE DEF R
  <1>10. RecordsOf(R, event, o.time, o.time + o.delay)
    BY <1>3, <1>4, <1>8, <1>9 DEF RecordsOf
  <1> QED
    BY <1>2, <1>7, <1>10 DEF R, event

(* The records as they come back from the store. *)
AsStored(R) == [k \in DOMAIN R |-> Stored(R[k])]

(* The positions of the records of a playbook and of types in T. *)
Mine(R, pb, T) == {i \in DOMAIN R : R[i].playbook = pb /\ R[i].type \in T}

(* The entries of a result, read back. *)
ReadAll(header, pb, entries) == [i \in DOMAIN entries |-> Doc!ReadEntry(header, pb, entries[i])]

(* An entry that is read back is the stored form of the record it shows. *)
LEMMA ReadIsStored ==
    ASSUME NEW type, NEW event, NEW pb, NEW rule, NEW action, NEW time,
           NEW header, header.event_id = event
    PROVE  LET r == [type |-> type, event |-> event, playbook |-> pb,
                     rule |-> rule, action |-> action, time |-> time]
           IN  /\ Doc!ReadEntry(header, pb, Doc!Shown(r)) = Stored(r)
               /\ Stored(r) = [type |-> type, event |-> event, playbook |-> Doc!Read(pb),
                               rule |-> Doc!Read(rule), action |-> Doc!Read(action),
                               time |-> Doc!Written(time)]
  <1> DEFINE r == [type |-> type, event |-> event, playbook |-> pb,
                   rule |-> rule, action |-> action, time |-> time]
             s == [type |-> type, event |-> event, playbook |-> Doc!Read(pb),
                   rule |-> Doc!Read(rule), action |-> Doc!Read(action),
                   time |-> Doc!Written(time)]
  <1>1. Doc!ReadEntry(header, pb, Doc!Shown(r)) = s
    <2>1. Doc!Shown(r) = [type |-> type, rule |-> rule, action |-> action,
                          time |-> Doc!Written(time)]
      BY DEF Doc!Shown
    <2> QED
      BY <2>1 DEF Doc!ReadEntry
  <1>2. Stored(r) = s
    BY DEF Stored
  <1> QED
    BY <1>1, <1>2

(* The stored form of what is recorded, field by field. *)
LEMMA StoredFields ==
    ASSUME NEW R, NEW event, NEW first, NEW second, RecordsOf(R, event, first, second)
    PROVE  /\ \E n \in Nat : DOMAIN R = 1 .. n
           /\ \A k \in DOMAIN R :
                 /\ AsStored(R)[k] = Stored(R[k])
                 /\ AsStored(R)[k].type = R[k].type
                 /\ AsStored(R)[k].event = event
                 /\ AsStored(R)[k].playbook = Doc!Read(R[k].playbook)
                 /\ AsStored(R)[k].time = Doc!Written(R[k].time)
                 /\ \A header : header.event_id = event =>
                       Doc!ReadEntry(header, R[k].playbook, Doc!Shown(R[k])) = Stored(R[k])
           /\ AsStored(R) \in [DOMAIN R -> Range(AsStored(R))]
  <1>1. DOMAIN R = 1 .. Len(R) /\ Len(R) \in Nat
    BY DEF RecordsOf, IsSeq
  <1>2. ASSUME NEW k \in DOMAIN R
        PROVE  /\ Stored(R[k]).type = R[k].type
               /\ Stored(R[k]).event = event
               /\ Stored(R[k]).playbook = Doc!Read(R[k].playbook)
               /\ Stored(R[k]).time = Doc!Written(R[k].time)
               /\ \A header : header.event_id = event =>
                     Doc!ReadEntry(header, R[k].playbook, Doc!Shown(R[k])) = Stored(R[k])
    <2> DEFINE r == [type |-> R[k].type, event |-> event, playbook |-> R[k].playbook,
                     rule |-> R[k].rule, action |-> R[k].action, time |-> R[k].time]
    <2>1. R[k] = r
      BY DEF RecordsOf
    <2>2. ASSUME NEW header, header.event_id = event
          PROVE  /\ Doc!ReadEntry(header, R[k].playbook, Doc!Shown(r)) = Stored(r)
                 /\ Stored(r) = [type |-> R[k].type, event |-> event,
                                 playbook |-> Doc!Read(R[k].playbook),
                                 rule |-> Doc!Read(R[k].rule), action |-> Doc!Read(R[k].action),
                                 time |-> Doc!Written(R[k].time)]
      BY <2>2, ReadIsStored
    <2>3. [event_id |-> event].event_id = event
      OBVIOUS
    <2>4. Stored(r) = [type |-> R[k].type, event |-> event, playbook |-> Doc!Read(R[k].playbook),
                       rule |-> Doc!Read(R[k].rule), action |-> Doc!Read(R[k].action),
                       time |-> Doc!Written(R[k].time)]
      BY <2>2, <2>3, Zenon
    <2> HIDE DEF r
    <2>5. Stored(R[k]) = Stored(r) /\ Doc!Shown(R[k]) = Doc!Shown(r)
      BY <2>1
    <2> QED
      BY <2>2, <2>4, <2>5
  <1>3. AsStored(R) \in [DOMAIN R -> Range(AsStored(R))]
    BY DEF AsStored, Range
  <1> QED
    BY <1>1, <1>2, <1>3 DEF AsStored

(* Reading the entries of a playbook and kind gives back their records in order. *)
LEMMA EntriesRead ==
    ASSUME NEW R, NEW event, NEW first, NEW second, RecordsOf(R, event, first, second),
           NEW header, header.event_id = event, NEW pb, NEW T
    PROVE  LET entries == Doc!EntriesOf(R, pb, T)
               A       == Mine(R, pb, T)
               read    == ReadAll(header, pb, entries)
           IN  /\ Cardinality(A) \in Nat /\ entries \in Seq(Range(entries))
               /\ Len(entries) = Cardinality(A) /\ Len(read) = Cardinality(A)
               /\ \A k \in 1 .. Cardinality(A) : entries[k] = Doc!Shown(R[Enumeration(A)[k]])
               /\ read \in Seq(Range(AsStored(R)))
               /\ Arranges(Enumeration(A), read, AsStored(R), A)
  <1> DEFINE entries == Doc!EntriesOf(R, pb, T)
             A == Mine(R, pb, T)
             m == Cardinality(A)
             e == Enumeration(A)
             read == ReadAll(header, pb, entries)
  <1>1. PICK n \in Nat : DOMAIN R = 1 .. n
    BY StoredFields
  <1>2. A \in SUBSET (1 .. n) /\ \A i \in A : i \in DOMAIN R /\ R[i].playbook = pb /\ R[i].type \in T
    BY <1>1 DEF Mine
  <1>3. m \in Nat /\ Enumerates(e, m, A) /\ Doc!SelectAt(R, A) = [k \in 1 .. m |-> R[e[k]]]
    <2> HIDE DEF A
    <2> QED
      BY <1>2, SelectAtEnumerates
  <1>4. entries = [k \in 1 .. m |-> Doc!Shown(R[e[k]])]
    <2>1. entries = [i \in DOMAIN Doc!SelectAt(R, A) |-> Doc!Shown(Doc!SelectAt(R, A)[i])]
      BY DEF Doc!EntriesOf, Mine
    <2> HIDE DEF A, e, m
    <2> QED
      BY <1>3, <2>1
  <1> HIDE DEF A, m, e, entries
  <1>5. /\ e \in [1 .. m -> A]
        /\ \A k, l \in 1 .. m : k < l => e[k] < e[l]
        /\ \A i \in A : \E k \in 1 .. m : e[k] = i
    BY <1>3 DEF Enumerates
  <1>6. \A k \in 1 .. m : e[k] \in A /\ e[k] \in DOMAIN R /\ e[k] \in Int
    <2>1. ASSUME NEW k \in 1 .. m PROVE e[k] \in A
      BY <1>5
    <2>2. \A i \in A : i \in DOMAIN R /\ i \in Int
      BY <1>1, <1>2
    <2> QED
      BY <2>1, <2>2
  <1>7. DOMAIN read = 1 .. m /\ \A k \in 1 .. m : read[k] = AsStored(R)[e[k]]
    <2>1. DOMAIN read = 1 .. m
      BY <1>4 DEF ReadAll
    <2>2. ASSUME NEW k \in 1 .. m
          PROVE  read[k] = AsStored(R)[e[k]]
      <3>1. e[k] \in DOMAIN R /\ R[e[k]].playbook = pb
        BY <1>2, <1>6
      <3>2. read[k] = Doc!ReadEntry(header, pb, Doc!Shown(R[e[k]]))
        BY <1>4 DEF ReadAll
      <3> HIDE DEF read
      <3> QED
        BY <3>1, <3>2, StoredFields
    <2> HIDE DEF read
    <2> QED
      BY <2>1, <2>2
  <1>8. read \in Seq(Range(AsStored(R))) /\ Len(read) = m
    <2>1. \A k \in 1 .. m : read[k] \in Range(AsStored(R))
      <3> HIDE DEF read
      <3>1. AsStored(R) \in [DOMAIN R -> Range(AsStored(R))]
        BY StoredFields
      <3> QED
        BY <1>6, <1>7, <3>1
    <2>2. read = [k \in 1 .. m |-> read[k]]
      BY <1>7 DEF ReadAll
    <2> HIDE DEF read
    <2>3. read \in [1 .. m -> Range(AsStored(R))]
      BY <2>1, <2>2
    <2> QED
      BY <1>3, <2>3
  <1>9. entries \in Seq(Range(entries)) /\ Len(entries) = m
    <2>1. DOMAIN entries = 1 .. m /\ \A k \in 1 .. m : entries[k] \in Range(entries)
      BY <1>4 DEF Range
    <2>2. entries = [k \in 1 .. m |-> entries[k]]
      BY <1>4, <2>1
    <2>3. entries \in [1 .. m -> Range(entries)]
      BY <2>1, <2>2
    <2> QED
      BY <1>3, <2>3
  <1>10. \A k, l \in 1 .. m : e[k] = e[l] => k = l
    <2> SUFFICES ASSUME NEW k \in 1 .. m, NEW l \in 1 .. m, k # l
                 PROVE  e[k] # e[l]
      OBVIOUS
    <2>1. (k < l \/ l < k) /\ e[k] \in Int /\ e[l] \in Int
      BY <1>6
    <2> QED
      BY <1>5, <2>1
  <1> HIDE DEF read
  <1>11. Arranges(e, read, AsStored(R), A)
    BY <1>5, <1>7, <1>8, <1>10 DEF Arranges
  <1>12. \A k \in 1 .. m : entries[k] = Doc!Shown(R[e[k]])
    BY <1>4
  <1> QED
    BY <1>3, <1>8, <1>9, <1>11, <1>12 DEF entries, read, A, m, e

(* The block of records that is read from the result of one playbook. *)
Block(R, header, pb) ==
    LET entries == Doc!EntriesOf(R, pb, Doc!RuleTypes) \o Doc!EntriesOf(R, pb, {"action.triggered"})
    IN  ReadAll(header, pb, entries)

(* Names for what the lemmas say of whole lists. *)
OfPlaybook(R, pb) == {i \in DOMAIN R : R[i].playbook = pb}

Through(f, s) == [i \in DOMAIN s |-> f[s[i]]]

Join(s, u) == s \o u

(* Reading two lists one behind the other. *)
LEMMA ReadingAJoin ==
    ASSUME NEW X, NEW s \in Seq(X), NEW u \in Seq(X), NEW f, DOMAIN f = X
    PROVE  Through(f, Join(s, u)) = Join(Through(f, s), Through(f, u))
  <1> DEFINE Y == Range(f)
             a == [i \in 1 .. Len(s) |-> f[s[i]]]
             b == [i \in 1 .. Len(u) |-> f[u[i]]]
             c == [i \in 1 .. Len(s \o u) |-> f[(s \o u)[i]]]
  <1>0. \A x \in X : f[x] \in Y
    BY DEF Range
  <1> HIDE DEF Y
  <1>1. /\ s \o u \in Seq(X) /\ Len(s \o u) = Len(s) + Len(u) /\ Len(s) \in Nat /\ Len(u) \in Nat
        /\ \A k \in 1 .. Len(s) : (s \o u)[k] = s[k]
        /\ \A k \in 1 .. Len(s \o u) : k > Len(s) =>
              (s \o u)[k] = u[k - Len(s)] /\ k - Len(s) \in 1 .. Len(u)
    BY JoinedLists
  <1>2. DOMAIN s = 1 .. Len(s) /\ DOMAIN u = 1 .. Len(u) /\ DOMAIN (s \o u) = 1 .. Len(s \o u)
    BY <1>1
  <1>3. a \in Seq(Y) /\ Len(a) = Len(s)
    <2>1. \A i \in 1 .. Len(s) : s[i] \in X
      OBVIOUS
    <2>2. a \in [1 .. Len(s) -> Y]
      BY <1>0, <2>1
    <2> HIDE DEF a
    <2> QED
      BY <1>1, <2>2
  <1>4. b \in Seq(Y) /\ Len(b) = Len(u)
    <2>1. \A i \in 1 .. Len(u) : u[i] \in X
      OBVIOUS
    <2>2. b \in [1 .. Len(u) -> Y]
      BY <1>0, <2>1
    <2> HIDE DEF b
    <2> QED
      BY <1>1, <2>2
  <1>5. c \in Seq(Y) /\ Len(c) = Len(a \o b)
    <2> DEFINE n == Len(s \o u)
    <2>1. \A i \in 1 .. n : (s \o u)[i] \in X
      BY <1>1
    <2>2. c \in [1 .. n -> Y] /\ n \in Nat
      BY <1>0, <1>1, <2>1
    <2> HIDE DEF c, n, a, b
    <2>3. c \in Seq(Y) /\ Len(c) = n
      BY <2>2
    <2>4. Len(a \o b) = Len(a) + Len(b)
      BY <1>3, <1>4
    <2> QED
      BY <1>1, <1>3, <1>4, <2>3, <2>4 DEF n
  <1>6. /\ \A i \in 1 .. Len(s) : a[i] = f[s[i]]
        /\ \A i \in 1 .. Len(u) : b[i] = f[u[i]]
        /\ \A i \in 1 .. Len(s \o u) : c[i] = f[(s \o u)[i]]
    OBVIOUS
  <1> HIDE DEF a, b, c
  <1>7. /\ \A k \in 1 .. Len(a) : (a \o b)[k] = a[k]
        /\ \A k \in 1 .. Len(a \o b) : k > Len(a) =>
              (a \o b)[k] = b[k - Len(a)] /\ k - Len(a) \in 1 .. Len(b)
        /\ a \o b \in Seq(Y) /\ Len(a \o b) = Len(a) + Len(b)
    BY <1>3, <1>4, JoinedLists
  <1>8. ASSUME NEW k \in 1 .. Len(c)
        PROVE  c[k] = (a \o b)[k]
    <2>1. k \in 1 .. Len(s \o u) /\ k \in 1 .. Len(a \o b)
      BY <1>1, <1>3, <1>4, <1>5, <1>7
    <2>2. CASE k > Len(s)
      <3>1. c[k] = f[u[k - Len(s)]] /\ k - Len(s) \in 1 .. Len(u)
        BY <1>1, <1>6, <2>1, <2>2
      <3>2. (a \o b)[k] = b[k - Len(s)]
        BY <1>3, <1>7, <2>1, <2>2
      <3> QED
        BY <1>6, <3>1, <3>2
    <2>3. CASE ~(k > Len(s))
      <3>1. k \in 1 .. Len(s)
        BY <1>1, <2>1, <2>3
      <3> QED
        BY <1>1, <1>3, <1>6, <1>7, <2>1, <3>1
    <2> QED
      BY <2>2, <2>3
  <1>9. c = a \o b
    BY <1>5, <1>7, <1>8, SeqEqual
  <1> QED
    BY <1>2, <1>9 DEF a, b, c, Through, Join

(* The result of a playbook gives back the records of the playbook. *)
LEMMA BlockArranged ==
    ASSUME NEW R, NEW event, NEW first, NEW second, RecordsOf(R, event, first, second),
           NEW header, header.event_id = event, NEW pb
    PROVE  /\ Block(R, header, pb) \in Seq(Range(AsStored(R)))
           /\ \E at : Arranges(at, Block(R, header, pb), AsStored(R), OfPlaybook(R, pb))
  <1> DEFINE t == AsStored(R)
             ruleEntries == Doc!EntriesOf(R, pb, Doc!RuleTypes)
             actEntries == Doc!EntriesOf(R, pb, {"action.triggered"})
             A == Mine(R, pb, Doc!RuleTypes)
             B == Mine(R, pb, {"action.triggered"})
             p == ReadAll(header, pb, ruleEntries)
             q == ReadAll(header, pb, actEntries)
  <1>1. /\ ruleEntries \in Seq(Range(ruleEntries)) /\ p \in Seq(Range(t))
        /\ Arranges(Enumeration(A), p, t, A)
    BY EntriesRead
  <1>2. /\ actEntries \in Seq(Range(actEntries)) /\ q \in Seq(Range(t))
        /\ Arranges(Enumeration(B), q, t, B)
    BY EntriesRead
  <1>3. Block(R, header, pb) = p \o q
    <2> DEFINE X == Range(ruleEntries) \cup Range(actEntries)
               f == [x \in X |-> Doc!ReadEntry(header, pb, x)]
               entries == ruleEntries \o actEntries
    <2>1. Block(R, header, pb) = ReadAll(header, pb, entries)
      BY DEF Block
    <2> HIDE DEF ruleEntries, actEntries
    <2>2. ruleEntries \in Seq(X) /\ actEntries \in Seq(X)
      BY <1>1, <1>2
    <2>3. DOMAIN f = X
      OBVIOUS
    <2>4. Through(f, Join(ruleEntries, actEntries))
             = Join(Through(f, ruleEntries), Through(f, actEntries))
      <3> HIDE DEF f, X
      <3> QED
        BY <2>2, <2>3, ReadingAJoin
    <2>5. ASSUME NEW u \in Seq(X)
          PROVE  Through(f, u) = ReadAll(header, pb, u)
      <3>1. \A i \in DOMAIN u : u[i] \in X
        OBVIOUS
      <3> QED
        BY <3>1 DEF Through, ReadAll
    <2>6. entries \in Seq(X)
      BY <2>2
    <2> HIDE DEF entries, X, f
    <2> QED
      BY <2>1, <2>2, <2>4, <2>5, <2>6 DEF Join, entries
  <1>4. A \cup B = OfPlaybook(R, pb)
    BY DEF Mine, OfPlaybook, RecordsOf
  <1>5. \A i \in A, j \in B : i # j /\ ~SameKind(t[i], t[j])
    <2> SUFFICES ASSUME NEW i \in A, NEW j \in B
                 PROVE  i # j /\ ~SameKind(t[i], t[j])
      OBVIOUS
    <2>1. /\ i \in DOMAIN R /\ R[i].type \in Doc!RuleTypes
          /\ j \in DOMAIN R /\ R[j].type = "action.triggered"
      BY DEF Mine
    <2>2. "action.triggered" \notin Doc!RuleTypes
      BY DEF Doc!RuleTypes
    <2>3. t[i].type = R[i].type /\ t[j].type = R[j].type
      <3> HIDE DEF t
      <3> QED
        BY <2>1, StoredFields DEF t
    <2> HIDE DEF t
    <2> QED
      BY <2>1, <2>2, <2>3 DEF SameKind
  <1> HIDE DEF A, B, t, p, q
  <1>6. \E at : Arranges(at, p \o q, t, A \cup B)
    BY <1>1, <1>2, <1>5, ArrangedJoin
  <1>7. p \o q \in Seq(Range(t))
    BY <1>1, <1>2
  <1> QED
    BY <1>3, <1>4, <1>6, <1>7 DEF t

(* Every playbook that the records name is listed once. *)
ListsEachOnce(pbs, m, R) ==
    /\ DOMAIN pbs = 1 .. m /\ Len(pbs) = m /\ pbs = [k \in 1 .. m |-> pbs[k]]
    /\ \A k, l \in 1 .. m : pbs[k] = pbs[l] => k = l
    /\ \A k \in 1 .. m : pbs[k] # None /\ \E i \in DOMAIN R : R[i].playbook = pbs[k]
    /\ \A i \in DOMAIN R : R[i].playbook # None => \E k \in 1 .. m : pbs[k] = R[i].playbook

(* Removing repetitions lists every playbook once. *)
LEMMA PlaybooksListed ==
    ASSUME NEW R, NEW n \in Nat, DOMAIN R = 1 .. n
    PROVE  \E m \in Nat : ListsEachOnce(Doc!PlaybooksOf(R), m, R)
  <1> DEFINE F == {i \in 1 .. n : /\ R[i].playbook # None
                                  /\ \A j \in 1 .. (i - 1) : R[j].playbook # R[i].playbook}
             m == Cardinality(F)
             e == Enumeration(F)
             pbs == Doc!PlaybooksOf(R)
  <1>1. F \in SUBSET (1 .. n)
    OBVIOUS
  <1>2. m \in Nat /\ Enumerates(e, m, F) /\ Doc!SelectAt(R, F) = [k \in 1 .. m |-> R[e[k]]]
    <2> HIDE DEF F
    <2> QED
      BY <1>1, SelectAtEnumerates
  <1>3. pbs = [k \in 1 .. m |-> R[e[k]].playbook]
    <2>1. pbs = Doc!PlaybooksAt(R, F)
      BY DEF Doc!PlaybooksOf
    <2> HIDE DEF F, m, e, pbs
    <2>2. Doc!PlaybooksAt(R, F)
             = [k \in DOMAIN Doc!SelectAt(R, F) |-> Doc!SelectAt(R, F)[k].playbook]
      BY DEF Doc!PlaybooksAt
    <2> QED
      BY <1>2, <2>1, <2>2
  <1>4. \A i, j \in F : R[i].playbook = R[j].playbook => i = j
    <2> SUFFICES ASSUME NEW i \in F, NEW j \in F, R[i].playbook = R[j].playbook, i # j
                 PROVE  FALSE
      OBVIOUS
    <2>1. i \in 1 .. n /\ j \in 1 .. n /\ (i \in 1 .. (j - 1) \/ j \in 1 .. (i - 1))
      OBVIOUS
    <2> QED
      BY <2>1
  <1>5. ASSUME NEW i \in 1 .. n, R[i].playbook # None
        PROVE  \E j \in F : R[j].playbook = R[i].playbook
    <2> DEFINE T == {j \in 1 .. n : R[j].playbook = R[i].playbook}
    <2>1. T \in SUBSET Nat /\ i \in T
      OBVIOUS
    <2>2. PICK j \in T : \A k \in T : j <= k
      <3> HIDE DEF T
      <3> QED
        BY <2>1, LeastElement
    <2>3. j \in 1 .. n /\ R[j].playbook = R[i].playbook
      OBVIOUS
    <2>4. ASSUME NEW k \in 1 .. (j - 1) PROVE R[k].playbook # R[j].playbook
      <3>1. k \in 1 .. n /\ ~(j <= k)
        BY <2>3
      <3> QED
        BY <2>2, <2>3, <3>1
    <2> QED
      BY <1>5, <2>3, <2>4
  <1>6. \A i \in F : i \in 1 .. n /\ R[i].playbook # None /\ i \in Int
    OBVIOUS
  <1>7. /\ e \in [1 .. m -> F]
        /\ \A k, l \in 1 .. m : k < l => e[k] < e[l]
        /\ \A i \in F : \E k \in 1 .. m : e[k] = i
    BY <1>2 DEF Enumerates
  <1> HIDE DEF F, m, e, pbs
  <1>8. \A k \in 1 .. m : e[k] \in F /\ e[k] \in 1 .. n /\ e[k] \in Int /\ pbs[k] = R[e[k]].playbook
                          /\ R[e[k]].playbook # None
    <2>1. ASSUME NEW k \in 1 .. m PROVE e[k] \in F /\ pbs[k] = R[e[k]].playbook
      BY <1>3, <1>7
    <2> QED
      BY <1>6, <2>1
  <1>9. \A k, l \in 1 .. m : pbs[k] = pbs[l] => k = l
    <2> SUFFICES ASSUME NEW k \in 1 .. m, NEW l \in 1 .. m, pbs[k] = pbs[l], k # l
                 PROVE  FALSE
      OBVIOUS
    <2>1. e[k] = e[l] /\ e[k] \in Int /\ e[l] \in Int
      BY <1>4, <1>8
    <2>2. k < l \/ l < k
      BY <1>2
    <2> QED
      BY <1>7, <2>1, <2>2
  <1>10. ASSUME NEW i \in 1 .. n, R[i].playbook # None
         PROVE  \E k \in 1 .. m : pbs[k] = R[i].playbook
    <2>1. PICK j \in F : R[j].playbook = R[i].playbook
      BY <1>5, <1>10
    <2>2. PICK k \in 1 .. m : e[k] = j
      BY <1>7
    <2> QED
      BY <1>8, <2>1, <2>2
  <1>11. DOMAIN pbs = 1 .. m /\ Len(pbs) = m /\ pbs = [k \in 1 .. m |-> pbs[k]]
    BY <1>2, <1>3
  <1>12. \A k \in 1 .. m : pbs[k] # None /\ \E i \in 1 .. n : R[i].playbook = pbs[k]
    BY <1>8
  <1>13. ListsEachOnce(pbs, m, R)
    BY <1>9, <1>10, <1>11, <1>12 DEF ListsEachOnce
  <1> QED
    BY <1>2, <1>13 DEF pbs

(* The records of the first k playbooks. *)
AmongFirst(R, pbs, k) == {i \in DOMAIN R : \E l \in 1 .. k : R[i].playbook = pbs[l]}

(* A document gives back the records of its event: after k results those of the
   first k playbooks. *)
LEMMA ReadBack ==
    ASSUME NEW R, NEW event, NEW first, NEW second, RecordsOf(R, event, first, second),
           NEW now, R # << >>
    PROVE  LET got == Doc!Flatten(Doc!FormatResponse(event, R, now))
           IN  /\ got \in Seq(Range(AsStored(R)))
               /\ \E at : Arranges(at, got, AsStored(R), DOMAIN R)
  <1> DEFINE t == AsStored(R)
             X == Range(t)
             pbs == Doc!PlaybooksOf(R)
             header == Doc!Header(event, R, now)
             seqs == [k \in DOMAIN pbs |-> Block(R, header, pbs[k])]
             got == Doc!Flatten(Doc!FormatResponse(event, R, now))
  <1>1. PICK n \in Nat : DOMAIN R = 1 .. n
    BY StoredFields
  <1>2. n # 0
    <2>1. R \in Seq(Range(R)) /\ (n = 0 => Len(R) = 0)
      BY <1>1 DEF RecordsOf, IsSeq
    <2> QED
      BY <2>1
  <1>3. PICK m \in Nat : ListsEachOnce(pbs, m, R)
    BY <1>1, PlaybooksListed
  <1>4. m # 0
    <2>1. 1 \in 1 .. n /\ R[1].playbook # None
      BY <1>1, <1>2 DEF RecordsOf
    <2> QED
      BY <1>1, <1>3, <2>1 DEF ListsEachOnce
  <1>5. header.event_id = event
    BY DEF Doc!Header
  <1>6. got = Doc!FlattenSeq(seqs)
    <2> DEFINE document == Doc!FormatResponse(event, R, now)
    <2>1. document = [header |-> header, results |-> [k \in DOMAIN pbs |-> Doc!Result(R, pbs[k])]]
      BY DEF Doc!FormatResponse
    <2>2. \A k \in DOMAIN pbs :
             Doc!Result(R, pbs[k]) =
                [playbook |-> pbs[k], rules |-> Doc!EntriesOf(R, pbs[k], Doc!RuleTypes),
                 actions_triggered |-> Doc!EntriesOf(R, pbs[k], {"action.triggered"})]
      BY DEF Doc!Result
    <2> HIDE DEF document, header, pbs
    <2>3. /\ document.header = header /\ DOMAIN document.results = DOMAIN pbs
          /\ \A k \in DOMAIN pbs :
                /\ document.results[k].playbook = pbs[k]
                /\ document.results[k].rules = Doc!EntriesOf(R, pbs[k], Doc!RuleTypes)
                /\ document.results[k].actions_triggered
                      = Doc!EntriesOf(R, pbs[k], {"action.triggered"})
      BY <2>1, <2>2
    <2>4. \A h, pb, entries : ReadAll(h, pb, entries)
                                 = [i \in DOMAIN entries |-> Doc!ReadEntry(h, pb, entries[i])]
      BY DEF ReadAll
    <2>5. Doc!Flatten(document) = Doc!FlattenSeq([k \in DOMAIN document.results |->
             ReadAll(document.header, document.results[k].playbook,
                     document.results[k].rules \o document.results[k].actions_triggered)])
      BY DEF Doc!Flatten, ReadAll
    <2>6. \A k \in DOMAIN pbs :
             ReadAll(document.header, document.results[k].playbook,
                     document.results[k].rules \o document.results[k].actions_triggered) = seqs[k]
      BY <2>3 DEF Block
    <2>7. [k \in DOMAIN document.results |->
             ReadAll(document.header, document.results[k].playbook,
                     document.results[k].rules \o document.results[k].actions_triggered)] = seqs
      BY <2>3, <2>6
    <2> HIDE DEF seqs
    <2> QED
      BY <2>5, <2>7 DEF document
  <1>7. seqs \in [1 .. m -> Seq(X)] /\ \A k \in 1 .. m : seqs[k] = Block(R, header, pbs[k])
    <2> HIDE DEF header, pbs, t
    <2>1. \A k \in 1 .. m : Block(R, header, pbs[k]) \in Seq(X)
      BY <1>5, BlockArranged DEF t
    <2> QED
      BY <1>3, <2>1 DEF ListsEachOnce
  <1> HIDE DEF seqs, got, header, pbs, t, X
  <1>8. PICK h \in [1 .. m -> Seq(X)] :
           JoinsUp(h, seqs, m) /\ Doc!FlattenSeq(seqs) = h[m]
    <2>1. m \in Nat \ {0} /\ seqs \in [1 .. m -> Seq(X)]
      BY <1>4, <1>7
    <2> QED
      BY <2>1, FlattenSteps, Zenon
  <1> DEFINE Fits(k) == \E at : Arranges(at, h[k], t, AmongFirst(R, pbs, k))
             S == {k \in Nat : k < m => Fits(k + 1)}
  <1>9. Fits(1)
    <2>1. 1 \in 1 .. m
      BY <1>3, <1>4
    <2>2. AmongFirst(R, pbs, 1) = OfPlaybook(R, pbs[1])
      BY DEF AmongFirst, OfPlaybook
    <2>3. h[1] = Block(R, header, pbs[1])
      BY <1>7, <1>8, <2>1 DEF JoinsUp
    <2>4. \E at : Arranges(at, Block(R, header, pbs[1]), t, OfPlaybook(R, pbs[1]))
      BY <1>5, BlockArranged DEF t
    <2> QED
      BY <2>2, <2>3, <2>4
  <1>10. ASSUME NEW k \in Nat, k \in S
         PROVE  k + 1 \in S
    <2> SUFFICES ASSUME k + 1 < m PROVE Fits((k + 1) + 1)
      OBVIOUS
    <2> DEFINE j == (k + 1) + 1
               A == AmongFirst(R, pbs, k + 1)
               B == OfPlaybook(R, pbs[j])
               u == Block(R, header, pbs[j])
    <2>1. j \in 2 .. m /\ j \in 1 .. m /\ k + 1 \in 1 .. m /\ j - 1 = k + 1 /\ k < m
      BY <1>3
    <2>2. PICK p : Arranges(p, h[k + 1], t, A)
      BY <1>10, <2>1
    <2>3. PICK q : Arranges(q, u, t, B)
      BY <1>5, BlockArranged DEF t
    <2>4. h[j] = h[k + 1] \o u
      BY <1>7, <1>8, <2>1 DEF JoinsUp
    <2>5. A \cup B = AmongFirst(R, pbs, j)
      <3>1. \A l : l \in 1 .. j <=> l \in 1 .. (k + 1) \/ l = j
        OBVIOUS
      <3> QED
        BY <3>1 DEF AmongFirst, OfPlaybook
    <2>6. \A x \in A, y \in B : x # y /\ ~SameKind(t[x], t[y])
      <3> SUFFICES ASSUME NEW x \in A, NEW y \in B
                   PROVE  x # y /\ ~SameKind(t[x], t[y])
        OBVIOUS
      <3>1. PICK l \in 1 .. (k + 1) : R[x].playbook = pbs[l]
        BY DEF AmongFirst
      <3>2. x \in DOMAIN R /\ y \in DOMAIN R /\ R[y].playbook = pbs[j]
        BY DEF AmongFirst, OfPlaybook
      <3>3. l \in 1 .. m /\ l # j
        BY <2>1
      <3>4. R[x].playbook # R[y].playbook /\ R[x].playbook # None /\ R[y].playbook # None
        <4>1. pbs[l] # pbs[j]
          BY <1>3, <2>1, <3>3 DEF ListsEachOnce
        <4>2. pbs[l] # None /\ pbs[j] # None
          BY <1>3, <2>1, <3>3 DEF ListsEachOnce
        <4> QED
          BY <3>1, <3>2, <4>1, <4>2
      <3>5. t[x].playbook = Doc!Read(R[x].playbook) /\ t[y].playbook = Doc!Read(R[y].playbook)
        BY <3>2, StoredFields DEF t
      <3>6. Doc!Read(R[x].playbook) # Doc!Read(R[y].playbook)
        BY <3>4 DEF Doc!Read
      <3> QED
        BY <3>4, <3>5, <3>6 DEF SameKind
    <2>7. h[k + 1] \in Seq(X) /\ u \in Seq(X)
      BY <1>7, <1>8, <2>1
    <2> HIDE DEF A, B, u
    <2>8. \E r : Arranges(r, h[k + 1] \o u, t, A \cup B)
      BY <2>2, <2>3, <2>6, <2>7, ArrangedJoin
    <2> QED
      BY <2>4, <2>5, <2>8
  <1>11. 0 \in S
    BY <1>9
  <1>12. Fits(m)
    <2> HIDE DEF S
    <2>1. Nat \subseteq S
      BY <1>10, <1>11, ContainsNat
    <2>2. m - 1 \in Nat /\ m - 1 < m /\ (m - 1) + 1 = m
      BY <1>3, <1>4
    <2>3. m - 1 \in S
      BY <2>1, <2>2
    <2> QED
      BY <2>2, <2>3 DEF S
  <1>13. AmongFirst(R, pbs, m) = DOMAIN R
    <2>1. \A i \in DOMAIN R : R[i].playbook # None
      BY DEF RecordsOf
    <2>2. \A i \in DOMAIN R : \E k \in 1 .. m : R[i].playbook = pbs[k]
      BY <1>3, <2>1 DEF ListsEachOnce
    <2> QED
      BY <2>2 DEF AmongFirst
  <1>14. h[m] \in Seq(X)
    BY <1>3, <1>4, <1>8
  <1> QED
    BY <1>6, <1>8, <1>12, <1>13, <1>14 DEF got, X, t

-----------------------------------------------------------------------------
(* Nothing recorded is lost, and nothing is read twice.                      *)

(* What Store makes of an input. *)
RecordsIn(in, i) == Doc!MetricsOfOutcome(Events[i], in.outcomes[i])

DocumentIn(in, i) == Doc!FormatResponse(Events[i], RecordsIn(in, i), Now)

ReadIn(in, i) == IF RecordsIn(in, i) = << >> THEN << >> ELSE Doc!Flatten(DocumentIn(in, i))

BreachIn(in) == IF RecordsIn(in, 1) = << >> THEN << >>
                ELSE <<Doc!BreachMetric(RecordsIn(in, 1)[1], Now)>>

MetricsOf(in) ==
    [documents |-> [i \in 1 .. 2 |-> DocumentIn(in, i)],
     records |-> [i \in 1 .. 2 |-> ReadIn(in, i)],
     one |-> Doc!MetricsByEventId(Events[1], ReadIn(in, 1) \o BreachIn(in), Now),
     all |-> Doc!AllMetrics(ReadIn(in, 1) \o BreachIn(in) \o ReadIn(in, 2), Now)]

(* What the action for metrics answers. *)
MetricsAnswer == Done("metrics") => outcome = MetricsOf(input)

(* The outcome for metrics is what Store makes of the input. *)
LEMMA MetricsAreComputed == Spec => []MetricsAnswer
  <1>1. Init => MetricsAnswer
    BY DEF Init, MetricsAnswer, Done
  <1>2. ASSUME MetricsAnswer, [Next]_vars
        PROVE  MetricsAnswer'
    <2>1. CASE UNCHANGED vars
      BY <1>2, <2>1 DEF vars, MetricsAnswer, Done
    <2>2. CASE Next /\ Store
      <3>1. outcome' = MetricsOf(input)
        <4>1. Store
          BY <2>2
        <4>2. \A i : Recorded(i) = RecordsIn(input, i)
          BY DEF Recorded, RecordsIn
        <4> QED
          BY <4>1 DEF Store, Recorded, MetricsOf, ReadIn, BreachIn, DocumentIn, RecordsIn
      <3>2. input' = input
        BY <2>2 DEF Next
      <3> QED
        BY <3>1, <3>2 DEF MetricsAnswer
    <2>3. CASE Next /\ ~Store
      <3>1. input' = input /\ input.of # "metrics"
        BY <2>3 DEF Next, Decide, Load, Evaluate, Match, Route, Keep, Find
      <3> QED
        BY <3>1 DEF MetricsAnswer, Done
    <2> QED
      BY <1>2, <2>1, <2>2, <2>3
  <1>3. MetricsAnswer /\ [Next]_vars => MetricsAnswer'
    BY <1>2
  <1> QED
    BY <1>1, <1>3, PTL DEF Spec

(* s has the elements of t in another order. *)
Rearranges(at, s, m, t, n) ==
    /\ Pairs(at, m, 1 .. n)
    /\ DOMAIN s = 1 .. m /\ DOMAIN t = 1 .. n
    /\ \A k \in 1 .. m : s[k] = t[at[k]]

(* A list in another order counts the same. *)
LEMMA CountsAreKept ==
    ASSUME NEW m \in Nat, NEW n \in Nat, NEW s, NEW t, NEW at, Rearranges(at, s, m, t, n)
    PROVE  /\ m = n
           /\ \A r : Occurrences(r, s) = Occurrences(r, t)
           /\ \A T : Doc!CountOf(s, T) = Doc!CountOf(t, T)
  <1>1. /\ at \in [1 .. m -> 1 .. n] /\ DOMAIN s = 1 .. m /\ DOMAIN t = 1 .. n
        /\ \A k \in 1 .. m : s[k] = t[at[k]]
    BY DEF Rearranges, Pairs
  <1>2. ASSUME NEW P, NEW Q, Matching(at, m, 1 .. n, P, Q)
        PROVE  Cardinality(P) = Cardinality(Q)
    BY <1>2, CountsAgree DEF Rearranges
  <1>3. m = n
    <2>1. Matching(at, m, 1 .. n, 1 .. m, 1 .. n)
      BY <1>1 DEF Matching
    <2>2. Cardinality(1 .. m) = Cardinality(1 .. n)
      BY <1>2, <2>1
    <2>3. Cardinality(1 .. m) = m
      BY FS_Interval
    <2>4. Cardinality(1 .. n) = n
      BY FS_Interval
    <2> QED
      BY <2>2, <2>3, <2>4
  <1>4. ASSUME NEW r PROVE Occurrences(r, s) = Occurrences(r, t)
    <2> DEFINE P == {k \in 1 .. m : s[k] = r}
               Q == {i \in 1 .. n : t[i] = r}
    <2>1. Matching(at, m, 1 .. n, P, Q)
      BY <1>1 DEF Matching
    <2>2. Occurrences(r, s) = Cardinality(P) /\ Occurrences(r, t) = Cardinality(Q)
      BY <1>1 DEF Occurrences
    <2> HIDE DEF P, Q
    <2> QED
      BY <1>2, <2>1, <2>2
  <1>5. ASSUME NEW T PROVE Doc!CountOf(s, T) = Doc!CountOf(t, T)
    <2> DEFINE P == {k \in 1 .. m : s[k].type \in T}
               Q == {i \in 1 .. n : t[i].type \in T}
    <2>1. Matching(at, m, 1 .. n, P, Q)
      BY <1>1 DEF Matching
    <2>2. Doc!CountOf(s, T) = Doc!Cardinality(P) /\ Doc!CountOf(t, T) = Doc!Cardinality(Q)
      BY <1>1 DEF Doc!CountOf
    <2> HIDE DEF P, Q
    <2> QED
      BY <1>2, <2>1, <2>2, CountedAlike
  <1> QED
    BY <1>3, <1>4, <1>5

(* What is read back is the stored form of the records in another order. *)
LEMMA ArrangedCounts ==
    ASSUME NEW R, NEW n \in Nat, DOMAIN R = 1 .. n, NEW X, NEW got \in Seq(X), NEW at,
           Arranges(at, got, AsStored(R), DOMAIN R)
    PROVE  /\ Len(got) = n /\ Rearranges(at, got, n, AsStored(R), n)
           /\ \A r : Occurrences(r, got) = Occurrences(r, AsStored(R))
           /\ \A T : Doc!CountOf(got, T) = Doc!CountOf(AsStored(R), T)
  <1>1. Len(got) \in Nat /\ DOMAIN got = 1 .. Len(got) /\ DOMAIN AsStored(R) = 1 .. n
    BY DEF AsStored
  <1>2. Rearranges(at, got, Len(got), AsStored(R), n)
    BY <1>1 DEF Arranges, Rearranges, Pairs
  <1>3. Len(got) = n
    BY <1>1, <1>2, CountsAreKept
  <1> QED
    BY <1>1, <1>2, <1>3, CountsAreKept

(* What is read back from the document of an event is what was recorded, as
   often as it was recorded (metric_manager.rs, format_metric_response;
   metric_store.rs, flatten_metric_response_document): playbooks are listed
   once, every record is in the result of its playbook once, as a rule or as an
   action, and reading an entry gives back the record but for empty names and
   for the seconds of its time. *)
THEOREM MetricsAreKept == Spec => []MetricsSurviveStorage
  <1>1. ASSUME InputOK, MetricsAnswer
        PROVE  MetricsSurviveStorage
    <2> SUFFICES ASSUME Done("metrics"), NEW i \in 1 .. 2
                 PROVE  LET recorded == [k \in DOMAIN Recorded(i) |-> Stored(Recorded(i)[k])]
                        IN  /\ Len(outcome.records[i]) = Len(recorded)
                            /\ \A r \in Range(recorded) :
                                  Occurrences(r, outcome.records[i]) = Occurrences(r, recorded)
      BY DEF MetricsSurviveStorage
    <2> DEFINE R == Recorded(i)
               got == outcome.records[i]
    <2>1. [k \in DOMAIN R |-> Stored(R[k])] = AsStored(R)
      BY DEF AsStored
    <2>2. got = IF R = << >> THEN << >>
                ELSE Doc!Flatten(Doc!FormatResponse(Events[i], R, Now))
      <3>1. outcome = MetricsOf(input)
        BY <1>1 DEF MetricsAnswer
      <3>2. outcome.records[i] = ReadIn(input, i)
        BY <3>1 DEF MetricsOf
      <3>3. Recorded(i) = RecordsIn(input, i)
        BY DEF Recorded, RecordsIn
      <3> QED
        BY <3>2, <3>3 DEF ReadIn, DocumentIn
    <2>3. PICK first, second \in 0 .. Now : RecordsOf(R, Events[i], first, second)
      BY <1>1, RecordedOutcome DEF Done
    <2> HIDE DEF R, got
    <2>4. PICK n \in Nat : DOMAIN R = 1 .. n
      BY <2>3, StoredFields
    <2>5. DOMAIN AsStored(R) = 1 .. n /\ Len(AsStored(R)) = n
      BY <2>4 DEF AsStored
    <2>6. CASE R = << >>
      <3>1. n = 0 /\ Len(got) = 0
        BY <2>2, <2>4, <2>6
      <3>2. Range(AsStored(R)) = {}
        BY <2>5, <3>1 DEF Range
      <3> QED
        BY <2>1, <2>5, <3>1, <3>2 DEF R, got
    <2>7. CASE R # << >>
      <3>1. got \in Seq(Range(AsStored(R))) /\ \E at : Arranges(at, got, AsStored(R), DOMAIN R)
        BY <2>2, <2>3, <2>7, ReadBack
      <3>2. Len(got) = n /\ \A r : Occurrences(r, got) = Occurrences(r, AsStored(R))
        BY <2>4, <3>1, ArrangedCounts
      <3> QED
        BY <2>1, <2>5, <3>2 DEF R, got
    <2> QED
      BY <2>6, <2>7
  <1> QED
    BY <1>1, InputIsKept, MetricsAreComputed, PTL

-----------------------------------------------------------------------------
(* Sorting the records found by their time, and what a response counts.      *)

(* What the division by a minute leaves is less than a minute. *)
LEMMA DivFacts ==
    ASSUME NEW m \in Nat \ {0}, NEW x \in Nat
    PROVE  /\ x \div m \in Nat
           /\ (x \div m) * m \in Nat
           /\ (x \div m) * m <= x
           /\ x < (x \div m) * m + m
  OBVIOUS

(* A time is written at a minute that is not after it; writing keeps the order
   and does not change what is written. *)
LEMMA WrittenTimes ==
    /\ \A x \in Nat : Doc!Written(x) \in Nat /\ Doc!Written(x) <= x
                      /\ Doc!Written(Doc!Written(x)) = Doc!Written(x)
    /\ \A x, y \in Nat : x <= y => Doc!Written(x) <= Doc!Written(y)
  <1> DEFINE m == Minute
             q(x) == x \div m
  <1>1. m \in Nat \ {0}
    BY OutcomesAssumption
  <1>2. ASSUME NEW x \in Nat
        PROVE  q(x) \in Nat /\ q(x) * m \in Nat /\ q(x) * m <= x /\ x < q(x) * m + m
               /\ Doc!Written(x) = q(x) * m
    BY <1>1, DivFacts DEF Doc!Written
  <1>3. ASSUME NEW a \in Nat, NEW b \in Nat, a * m < b * m + m
        PROVE  a <= b
    <2> SUFFICES ASSUME b + 1 <= a PROVE FALSE
      OBVIOUS
    <2>1. (b + 1) * m <= a * m /\ (b + 1) * m = b * m + m
      BY <1>1
    <2>2. a * m \in Nat /\ b * m \in Nat /\ m \in Nat
      BY <1>1
    <2> HIDE DEF m
    <2> QED
      BY <1>3, <2>1, <2>2
  <1>4. ASSUME NEW a \in Nat, NEW b \in Nat, a <= b
        PROVE  a * m <= b * m
    BY <1>1, <1>4
  <1> HIDE DEF q, m
  <1>5. ASSUME NEW x \in Nat, NEW y \in Nat, x <= y
        PROVE  Doc!Written(x) <= Doc!Written(y)
    <2>1. q(x) * m < q(y) * m + m
      <3>1. q(x) * m \in Nat /\ q(y) * m \in Nat /\ q(x) * m <= x /\ y < q(y) * m + m /\ m \in Nat
        BY <1>1, <1>2
      <3> QED
        BY <1>5, <3>1
    <2> QED
      BY <1>2, <1>3, <1>4, <2>1
  <1>6. ASSUME NEW x \in Nat
        PROVE  Doc!Written(Doc!Written(x)) = Doc!Written(x)
    <2> DEFINE w == q(x) * m
    <2>1. w \in Nat /\ q(w) \in Nat /\ q(w) * m \in Nat /\ w < q(w) * m + m /\ q(w) * m <= w
      BY <1>2
    <2>2. q(x) \in Nat /\ m \in Nat \ {0}
      BY <1>1, <1>2
    <2>3. q(x) <= q(w)
      BY <1>3, <2>1, <2>2
    <2>4. q(w) <= q(x)
      <3>1. q(w) * m < q(x) * m + m
        BY <2>1, <2>2
      <3> QED
        BY <1>3, <2>1, <2>2, <3>1
    <2>5. q(w) = q(x)
      BY <2>1, <2>2, <2>3, <2>4
    <2>6. Doc!Written(x) = w /\ Doc!Written(w) = q(w) * m
      BY <1>2, <2>1
    <2> QED
      BY <2>5, <2>6
  <1> QED
    BY <1>2, <1>5, <1>6

(* Sorting by time keeps every record and the order of those of one time. *)
LEMMA LatestFirstSorts ==
    ASSUME NEW s, NEW n \in Nat, DOMAIN s = 1 .. n, \A k \in 1 .. n : s[k].time \in Int
    PROVE  LET X == Doc!LatestFirst(s)
           IN  /\ DOMAIN X = 1 .. n
               /\ \E q : /\ Pairs(q, n, 1 .. n)
                         /\ \A k \in 1 .. n : X[k] = s[q[k]]
                         /\ \A k, l \in 1 .. n : k < l /\ X[k].time = X[l].time => q[k] < q[l]
  <1> DEFINE D == 1 .. n
             X == Doc!LatestFirst(s)
             R == {w \in D \X D : \/ s[w[1]].time > s[w[2]].time
                                  \/ s[w[1]].time = s[w[2]].time /\ w[1] < w[2]}
             place == [i \in D |-> Place(R, n, i)]
  <1>1. ASSUME NEW i \in D, NEW j \in D
        PROVE  <<i, j>> \in R <=> s[i].time > s[j].time \/ (s[i].time = s[j].time /\ i < j)
    OBVIOUS
  <1>2. StrictOrder(R, n)
    <2> HIDE DEF R
    <2>1. \A i \in D : <<i, i>> \notin R
      BY <1>1
    <2>2. ASSUME NEW i \in D, NEW j \in D, i # j
          PROVE  <<i, j>> \in R \/ <<j, i>> \in R
      <3>1. s[i].time \in Int /\ s[j].time \in Int /\ i \in Int /\ j \in Int
        OBVIOUS
      <3> QED
        BY <1>1, <2>2, <3>1
    <2>3. ASSUME NEW i \in D, NEW j \in D, NEW k \in D, <<i, j>> \in R, <<j, k>> \in R
          PROVE  <<i, k>> \in R
      <3>1. s[i].time \in Int /\ s[j].time \in Int /\ s[k].time \in Int
        OBVIOUS
      <3> QED
        BY <1>1, <2>3, <3>1
    <2> QED
      BY <2>1, <2>2, <2>3 DEF StrictOrder
  <1>3. /\ place \in [D -> D]
        /\ \A i, j \in D : <<i, j>> \in R => place[i] < place[j]
        /\ \A k \in D : \E i \in D : place[i] = k
    <2> HIDE DEF R
    <2> QED
      BY <1>2, Places
  <1>4. \A i, j \in D : place[i] = place[j] => i = j
    <2> HIDE DEF place, R
    <2>1. ASSUME NEW i \in D, NEW j \in D, i # j
          PROVE  place[i] # place[j]
      <3>1. <<i, j>> \in R \/ <<j, i>> \in R
        BY <1>2, <2>1 DEF StrictOrder
      <3>2. (place[i] < place[j] \/ place[j] < place[i]) /\ place[i] \in D /\ place[j] \in D
        BY <1>3, <3>1
      <3> QED
        BY <3>2
    <2> QED
      BY <2>1
  <1> DEFINE q == [k \in D |-> CHOOSE i \in D : place[i] = k]
  <1>5. \A k \in D : q[k] \in D /\ place[q[k]] = k
    <2> HIDE DEF place
    <2> QED
      BY <1>3
  <1>6. \A i \in D : q[place[i]] = i /\ place[i] \in D
    <2> HIDE DEF place, q
    <2> QED
      BY <1>3, <1>4, <1>5
  <1>7. X = [k \in D |-> s[q[k]]]
    <2> DEFINE before(j, i) == \/ s[j].time > s[i].time
                               \/ ~(s[i].time > s[j].time) /\ j < i
               behind(i) == {j \in D : before(j, i)}
    <2>1. X = [k \in DOMAIN s |->
                  s[CHOOSE i \in DOMAIN s :
                       1 + Doc!Cardinality({j \in DOMAIN s : before(j, i)}) = k]]
      BY DEF Doc!LatestFirst, Doc!StableSort
    <2>2. X = [k \in D |-> s[CHOOSE i \in D : 1 + Doc!Cardinality(behind(i)) = k]]
      BY <2>1
    <2>3. ASSUME NEW i \in D
          PROVE  1 + Doc!Cardinality(behind(i)) = place[i]
      <3>1. behind(i) = {j \in D : <<j, i>> \in R}
        <4>1. ASSUME NEW j \in D
              PROVE  before(j, i) <=> <<j, i>> \in R
          <5>1. s[i].time \in Int /\ s[j].time \in Int
            OBVIOUS
          <5> QED
            BY <1>1, <5>1
        <4> HIDE DEF before, R
        <4> QED
          BY <4>1
      <3> HIDE DEF behind, R
      <3> QED
        BY <3>1, CountedAlike DEF Place
    <2> DEFINE c == [k \in D |-> CHOOSE i \in D : 1 + Doc!Cardinality(behind(i)) = k]
    <2>4. ASSUME NEW k \in D
          PROVE  c[k] = q[k]
      <3> HIDE DEF place, behind
      <3> QED
        BY <2>3
    <2>5. \A k \in D : X[k] = s[c[k]]
      <3> HIDE DEF behind, X
      <3> QED
        BY <2>2
    <2>6. DOMAIN X = D /\ X = [k \in D |-> X[k]]
      <3> HIDE DEF behind, X
      <3> QED
        BY <2>2
    <2> HIDE DEF behind, q, X, c
    <2> QED
      BY <2>4, <2>5, <2>6
  <1>8. Pairs(q, n, D)
    <2> HIDE DEF place
    <2>1. q \in [D -> D]
      BY <1>5
    <2> HIDE DEF q
    <2> QED
      BY <1>5, <1>6, <2>1 DEF Pairs
  <1> HIDE DEF q, X, place, R
  <1>9. DOMAIN X = D /\ \A k \in D : X[k] = s[q[k]]
    BY <1>7
  <1>10. ASSUME NEW k \in D, NEW l \in D, k < l, X[k].time = X[l].time
         PROVE  q[k] < q[l]
    <2>1. q[k] \in D /\ q[l] \in D /\ s[q[k]].time = s[q[l]].time /\ q[k] \in Int /\ q[l] \in Int
      BY <1>5, <1>9, <1>10
    <2>2. ~(q[l] < q[k])
      <3> SUFFICES ASSUME q[l] < q[k] PROVE FALSE
        OBVIOUS
      <3>1. <<q[l], q[k]>> \in R
        BY <1>1, <2>1
      <3>2. place[q[l]] < place[q[k]]
        BY <1>3, <2>1, <3>1
      <3>3. l < k
        BY <1>5, <3>2
      <3> QED
        BY <1>10, <3>3
    <2>3. q[k] # q[l]
      <3>1. place[q[k]] = k /\ place[q[l]] = l /\ k # l
        BY <1>5, <1>10
      <3> QED
        BY <3>1
    <2> QED
      BY <2>1, <2>2, <2>3
  <1> QED
    BY <1>8, <1>9, <1>10 DEF X

(* c records of s are of a type in T. *)
CountsAs(s, n, T, c) == c = Cardinality({i \in 1 .. n : s[i].type \in T}) /\ c \in Nat

(* A count is a number. *)
LEMMA CountIs ==
    ASSUME NEW s, NEW n \in Nat, DOMAIN s = 1 .. n, NEW T
    PROVE  CountsAs(s, n, T, Doc!CountOf(s, T))
  <1> DEFINE P == {i \in 1 .. n : s[i].type \in T}
  <1>1. Doc!CountOf(s, T) = Doc!Cardinality(P)
    BY DEF Doc!CountOf
  <1>2. IsFiniteSet(P)
    BY FS_Interval, FS_Subset
  <1> HIDE DEF P
  <1> QED
    BY <1>1, <1>2, CountedAlike, FS_CardinalityType DEF CountsAs, P

(* Counts of joined lists add up. *)
LEMMA CountOfJoin ==
    ASSUME NEW X, NEW s \in Seq(X), NEW u \in Seq(X), NEW T
    PROVE  Doc!CountOf(Join(s, u), T) = Doc!CountOf(s, T) + Doc!CountOf(u, T)
  <1> DEFINE c == s \o u
             m == Len(s)
             l == Len(u)
             P == {i \in 1 .. m : s[i].type \in T}
             Q == {i \in 1 .. l : u[i].type \in T}
             M == {i \in (m + 1) .. (m + l) : c[i].type \in T}
             S == {i \in 1 .. (m + l) : c[i].type \in T}
             shift == [i \in 1 .. l |-> i + m]
  <1>1. /\ m \in Nat /\ l \in Nat /\ Len(c) = m + l /\ c \in Seq(X)
        /\ \A k \in 1 .. m : c[k] = s[k]
        /\ \A k \in 1 .. Len(c) : k > m => c[k] = u[k - m] /\ k - m \in 1 .. l
    BY JoinedLists
  <1>2. DOMAIN s = 1 .. m /\ DOMAIN u = 1 .. l /\ DOMAIN c = 1 .. (m + l)
    BY <1>1
  <1> HIDE DEF c, m, l
  <1>3. S = P \cup M /\ P \cap M = {}
    BY <1>1
  <1>4. \A i \in 1 .. l : i + m \in (m + 1) .. (m + l) /\ c[i + m] = u[i]
    <2> SUFFICES ASSUME NEW i \in 1 .. l
                 PROVE  i + m \in (m + 1) .. (m + l) /\ c[i + m] = u[i]
      OBVIOUS
    <2>1. i + m \in 1 .. Len(c) /\ i + m > m /\ (i + m) - m = i /\ i + m \in (m + 1) .. (m + l)
      BY <1>1
    <2> QED
      BY <1>1, <2>1
  <1>5. Pairs(shift, l, (m + 1) .. (m + l)) /\ Matching(shift, l, (m + 1) .. (m + l), Q, M)
    <2>1. \A i \in (m + 1) .. (m + l) : i - m \in 1 .. l /\ (i - m) + m = i
      BY <1>1
    <2>2. Pairs(shift, l, (m + 1) .. (m + l))
      BY <1>1, <1>4, <2>1 DEF Pairs
    <2>3. Matching(shift, l, (m + 1) .. (m + l), Q, M)
      BY <1>4 DEF Matching
    <2> QED
      BY <2>2, <2>3
  <1> HIDE DEF shift
  <1>6. Cardinality(M) = Cardinality(Q) /\ IsFiniteSet(M)
    <2> HIDE DEF M, Q
    <2> QED
      BY <1>1, <1>5, CountsAgree
  <1>7. IsFiniteSet(P)
    <2>1. IsFiniteSet(1 .. m)
      <3>1. m \in Int /\ 1 \in Int
        BY <1>1
      <3> QED
        BY <3>1, FS_Interval
    <2>2. P \in SUBSET (1 .. m)
      OBVIOUS
    <2> HIDE DEF P
    <2> QED
      BY <2>1, <2>2, FS_Subset
  <1>8. Cardinality(S) = Cardinality(P) + Cardinality(M)
    <2> HIDE DEF S, P, M
    <2>1. Cardinality(P \cup M) = Cardinality(P) + Cardinality(M) - Cardinality(P \cap M)
      BY <1>6, <1>7, FS_Union
    <2>2. Cardinality(P \cap M) = 0
      BY <1>3, FS_EmptySet
    <2>3. Cardinality(P) \in Nat /\ Cardinality(M) \in Nat
      BY <1>6, <1>7, FS_CardinalityType
    <2> QED
      BY <1>3, <2>1, <2>2, <2>3
  <1>9. Doc!CountOf(c, T) = Cardinality(S)
    <2>1. CountsAs(c, m + l, T, Doc!CountOf(c, T))
      BY <1>1, <1>2, CountIs
    <2> QED
      BY <2>1 DEF CountsAs
  <1>10. Doc!CountOf(s, T) = Cardinality(P)
    <2>1. CountsAs(s, m, T, Doc!CountOf(s, T))
      BY <1>1, <1>2, CountIs
    <2> QED
      BY <2>1 DEF CountsAs
  <1>12. Doc!CountOf(u, T) = Cardinality(Q)
    <2>1. CountsAs(u, l, T, Doc!CountOf(u, T))
      BY <1>1, <1>2, CountIs
    <2> QED
      BY <2>1 DEF CountsAs
  <1> HIDE DEF S, P, M, Q
  <1>11. Join(s, u) = c
    BY DEF Join, c
  <1> QED
    BY <1>6, <1>8, <1>9, <1>10, <1>11, <1>12

(* The stored form of a record is of its type. *)
LEMMA CountOfStored ==
    ASSUME NEW R, NEW event, NEW first, NEW second, RecordsOf(R, event, first, second), NEW T
    PROVE  Doc!CountOf(AsStored(R), T) = Doc!CountOf(R, T)
  <1>1. PICK n \in Nat : DOMAIN R = 1 .. n
    BY StoredFields
  <1>2. DOMAIN AsStored(R) = 1 .. n
    BY <1>1 DEF AsStored
  <1>3. \A k \in 1 .. n : AsStored(R)[k].type = R[k].type
    BY <1>1, StoredFields
  <1>4. {i \in 1 .. n : AsStored(R)[i].type \in T} = {i \in 1 .. n : R[i].type \in T}
    BY <1>3
  <1>5. CountsAs(R, n, T, Doc!CountOf(R, T)) /\ CountsAs(AsStored(R), n, T, Doc!CountOf(AsStored(R), T))
    BY <1>1, <1>2, CountIs
  <1> QED
    BY <1>4, <1>5 DEF CountsAs

(* A breach is of no rule and of no action. *)
LEMMA BreachRecord ==
    ASSUME NEW R, NEW event, NEW first, NEW second, RecordsOf(R, event, first, second),
           NEW now, R # << >>
    PROVE  LET b == Doc!BreachMetric(R[1], now)
           IN  /\ b.type = "kpi.threshold_breach" /\ b.event = event /\ b.time = now
               /\ b.playbook = R[1].playbook /\ 1 \in DOMAIN R
  <1>1. 1 \in DOMAIN R
    <2>1. R \in Seq(Range(R))
      BY DEF RecordsOf, IsSeq
    <2> QED
      BY <2>1
  <1>2. R[1] = [type |-> R[1].type, event |-> event, playbook |-> R[1].playbook,
                rule |-> R[1].rule, action |-> R[1].action, time |-> R[1].time]
    BY <1>1 DEF RecordsOf
  <1>3. \A type, pb, rule, action, time :
           LET r == [type |-> type, event |-> event, playbook |-> pb, rule |-> rule,
                     action |-> action, time |-> time]
               b == Doc!BreachMetric(r, now)
           IN  /\ b.type = "kpi.threshold_breach" /\ b.event = event /\ b.time = now
               /\ b.playbook = pb
    BY DEF Doc!BreachMetric
  <1> QED
    BY <1>1, <1>2, <1>3

-----------------------------------------------------------------------------
(* The listing of one event.                                                 *)

(* The types that a header counts. *)
MetricTypes == Doc!RuleTypes \cup {"action.triggered"}

(* No name in the records is empty. *)
Named(R) == \A i \in DOMAIN R : NoName \notin {R[i].playbook, R[i].rule, R[i].action}

(* X has the stored form of every record of R, for each of its places with
   f[k] # 0 that of f[k], and breaches; records of one playbook and kind are in
   their order. *)
Shows(X, m, R, n, f) ==
    /\ DOMAIN X = 1 .. m /\ DOMAIN R = 1 .. n
    /\ f \in [1 .. m -> 0 .. n]
    /\ \A k \in 1 .. m : f[k] # 0 => X[k] = Stored(R[f[k]])
    /\ \A k \in 1 .. m : f[k] = 0 =>
          /\ X[k].type \notin MetricTypes /\ X[k].time = Now
          /\ \E i \in 1 .. n : X[k].playbook = R[i].playbook
    /\ \A i \in 1 .. n : \E k \in 1 .. m : f[k] = i
    /\ \A k, l \in 1 .. m :
          k < l /\ f[k] # 0 /\ f[l] # 0 /\ SameKind(X[k], X[l]) => f[k] < f[l]

(* A record without empty names is stored as it is, but for the seconds. *)
LEMMA StoredWithNames ==
    ASSUME NEW R, NEW event, NEW first \in 0 .. Now, NEW second \in 0 .. Now,
           RecordsOf(R, event, first, second), Named(R), NEW i \in DOMAIN R
    PROVE  /\ Stored(R[i]).type = R[i].type /\ Stored(R[i]).event = event
           /\ Stored(R[i]).playbook = R[i].playbook
           /\ Stored(R[i]).time = Doc!Written(R[i].time)
           /\ Doc!Shown(Stored(R[i])) = Doc!Shown(R[i])
           /\ R[i].time \in 0 .. Now /\ R[i].type \in MetricTypes
  <1>1. /\ R[i].time \in Nat /\ R[i].time \in 0 .. Now /\ R[i].type \in MetricTypes
        /\ R[i].playbook # NoName /\ R[i].rule # NoName /\ R[i].action # NoName
    BY OutcomesAssumption DEF RecordsOf, Named, MetricTypes
  <1>2. /\ Doc!Read(R[i].playbook) = R[i].playbook /\ Doc!Read(R[i].rule) = R[i].rule
        /\ Doc!Read(R[i].action) = R[i].action
    BY <1>1 DEF Doc!Read
  <1>3. Stored(R[i]) = [type |-> R[i].type, event |-> R[i].event, playbook |-> R[i].playbook,
                        rule |-> R[i].rule, action |-> R[i].action,
                        time |-> Doc!Written(R[i].time)]
    BY <1>2 DEF Stored
  <1>4. Doc!Written(Doc!Written(R[i].time)) = Doc!Written(R[i].time)
    BY <1>1, WrittenTimes
  <1>5. Doc!Shown(Stored(R[i])) = Doc!Shown(R[i])
    BY <1>3, <1>4 DEF Doc!Shown
  <1>6. Stored(R[i]).event = event
    BY StoredFields DEF AsStored
  <1> QED
    BY <1>1, <1>3, <1>5, <1>6

(* The records at the positions of P as entries. *)
ShownAt(R, P) == [k \in 1 .. Cardinality(P) |-> Doc!Shown(R[Enumeration(P)[k]])]

(* The entries of a playbook and kind show the records at its positions. *)
LEMMA EntriesAt ==
    ASSUME NEW R, NEW n \in Nat, DOMAIN R = 1 .. n, NEW pb, NEW T
    PROVE  /\ Mine(R, pb, T) \in SUBSET (1 .. n) /\ Cardinality(Mine(R, pb, T)) \in Nat
           /\ Enumerates(Enumeration(Mine(R, pb, T)), Cardinality(Mine(R, pb, T)), Mine(R, pb, T))
           /\ Doc!EntriesOf(R, pb, T) = ShownAt(R, Mine(R, pb, T))
  <1> DEFINE A == Mine(R, pb, T)
             m == Cardinality(A)
             e == Enumeration(A)
  <1>1. A \in SUBSET (1 .. n)
    BY DEF Mine
  <1>2. m \in Nat /\ Enumerates(e, m, A) /\ Doc!SelectAt(R, A) = [k \in 1 .. m |-> R[e[k]]]
    <2> HIDE DEF A
    <2> QED
      BY <1>1, SelectAtEnumerates
  <1>3. Doc!EntriesOf(R, pb, T)
           = [i \in DOMAIN Doc!SelectAt(R, A) |-> Doc!Shown(Doc!SelectAt(R, A)[i])]
    BY DEF Doc!EntriesOf, Mine
  <1>4. Doc!EntriesOf(R, pb, T) = [k \in 1 .. m |-> Doc!Shown(R[e[k]])]
    <2> HIDE DEF A, e, m
    <2> QED
      BY <1>2, <1>3
  <1> QED
    BY <1>1, <1>2, <1>4 DEF ShownAt

(* Breaches and the order of the playbooks do not change the entries of one. *)
LEMMA EntriesAlike ==
    ASSUME NEW R, NEW event, NEW first \in 0 .. Now, NEW second \in 0 .. Now,
           RecordsOf(R, event, first, second), Named(R),
           NEW X, NEW m \in Nat, NEW n \in Nat, NEW f, Shows(X, m, R, n, f),
           NEW pb, NEW T \in {Doc!RuleTypes, {"action.triggered"}}
    PROVE  Doc!EntriesOf(X, pb, T) = Doc!EntriesOf(R, pb, T)
  <1> DEFINE A == Mine(R, pb, T)
             B == Mine(X, pb, T)
             e == Enumeration(B)
             c == Cardinality(B)
             g == [j \in 1 .. c |-> f[e[j]]]
  <1>1. /\ DOMAIN X = 1 .. m /\ DOMAIN R = 1 .. n /\ f \in [1 .. m -> 0 .. n]
        /\ \A k \in 1 .. m : f[k] # 0 => X[k] = Stored(R[f[k]])
        /\ \A k \in 1 .. m : f[k] = 0 => X[k].type \notin MetricTypes
        /\ \A i \in 1 .. n : \E k \in 1 .. m : f[k] = i
        /\ \A k, l \in 1 .. m :
              k < l /\ f[k] # 0 /\ f[l] # 0 /\ SameKind(X[k], X[l]) => f[k] < f[l]
    BY DEF Shows
  <1>2. /\ B \in SUBSET (1 .. m) /\ c \in Nat /\ Enumerates(e, c, B)
        /\ Doc!EntriesOf(X, pb, T) = ShownAt(X, B)
    BY <1>1, EntriesAt
  <1>3. /\ A \in SUBSET (1 .. n)
        /\ Doc!EntriesOf(R, pb, T) = ShownAt(R, A)
    BY <1>1, EntriesAt
  <1>4. T \subseteq MetricTypes
    BY DEF MetricTypes
  <1>5. ASSUME NEW k \in B
        PROVE  k \in 1 .. m /\ f[k] # 0 /\ f[k] \in A /\ f[k] \in Int /\ X[k] = Stored(R[f[k]])
    <2>1. k \in 1 .. m /\ X[k].playbook = pb /\ X[k].type \in T
      BY <1>1 DEF Mine
    <2>2. f[k] # 0 /\ f[k] \in 0 .. n
      BY <1>1, <1>4, <2>1
    <2>3. f[k] \in DOMAIN R /\ X[k] = Stored(R[f[k]]) /\ f[k] \in Int
      BY <1>1, <2>1, <2>2
    <2>4. R[f[k]].playbook = X[k].playbook /\ R[f[k]].type = X[k].type
      BY <2>3, StoredWithNames
    <2> QED
      BY <2>1, <2>2, <2>3, <2>4 DEF Mine
  <1>6. ASSUME NEW i \in A
        PROVE  \E k \in B : f[k] = i
    <2>1. i \in DOMAIN R /\ R[i].playbook = pb /\ R[i].type \in T
      BY DEF Mine
    <2>2. PICK k \in 1 .. m : f[k] = i
      BY <1>1, <2>1
    <2>3. X[k] = Stored(R[i])
      BY <1>1, <2>1, <2>2
    <2>4. X[k].playbook = pb /\ X[k].type \in T
      BY <2>1, <2>3, StoredWithNames
    <2> QED
      BY <1>1, <2>2, <2>4 DEF Mine
  <1>7. ASSUME NEW k \in B, NEW l \in B
        PROVE  SameKind(X[k], X[l])
    <2>1. /\ X[k].playbook = pb /\ X[k].type \in T /\ X[l].playbook = pb /\ X[l].type \in T
      BY DEF Mine
    <2>2. "action.triggered" \notin Doc!RuleTypes
      BY DEF Doc!RuleTypes
    <2> QED
      BY <2>1, <2>2 DEF SameKind
  <1> HIDE DEF A, B, c, e
  <1>8. /\ e \in [1 .. c -> B]
        /\ \A k, l \in 1 .. c : k < l => e[k] < e[l]
        /\ \A i \in B : \E k \in 1 .. c : e[k] = i
    BY <1>2 DEF Enumerates
  <1>9. Enumerates(g, c, A)
    <2>1. \A j \in 1 .. c : e[j] \in B /\ g[j] = f[e[j]]
      BY <1>8
    <2>2. g \in [1 .. c -> A]
      BY <1>5, <2>1
    <2>3. ASSUME NEW k \in 1 .. c, NEW l \in 1 .. c, k < l
          PROVE  g[k] < g[l]
      <3> HIDE DEF g
      <3>1. e[k] < e[l] /\ e[k] \in B /\ e[l] \in B
        BY <1>8, <2>3
      <3>2. /\ e[k] \in 1 .. m /\ e[l] \in 1 .. m /\ f[e[k]] # 0 /\ f[e[l]] # 0
            /\ SameKind(X[e[k]], X[e[l]])
        BY <1>5, <1>7, <3>1
      <3> QED
        BY <1>1, <2>1, <3>1, <3>2
    <2>4. ASSUME NEW i \in A
          PROVE  \E j \in 1 .. c : g[j] = i
      <3>1. PICK k \in B : f[k] = i
        BY <1>6
      <3>2. PICK j \in 1 .. c : e[j] = k
        BY <1>8
      <3> QED
        BY <2>1, <3>1, <3>2
    <2> HIDE DEF g
    <2> QED
      BY <2>2, <2>3, <2>4 DEF Enumerates
  <1> HIDE DEF g
  <1>10. c = Cardinality(A) /\ g = Enumeration(A)
    BY <1>2, <1>3, <1>9, EnumerationIsUnique
  <1>11. \A k \in 1 .. c : Doc!Shown(X[e[k]]) = Doc!Shown(R[Enumeration(A)[k]])
    <2> SUFFICES ASSUME NEW k \in 1 .. c
                 PROVE  Doc!Shown(X[e[k]]) = Doc!Shown(R[Enumeration(A)[k]])
      OBVIOUS
    <2>1. e[k] \in B /\ g[k] = f[e[k]]
      BY <1>8 DEF g
    <2>2. X[e[k]] = Stored(R[g[k]]) /\ g[k] \in DOMAIN R
      BY <1>1, <1>3, <1>5, <2>1
    <2>3. Doc!Shown(Stored(R[g[k]])) = Doc!Shown(R[g[k]])
      BY <2>2, StoredWithNames
    <2> QED
      BY <1>10, <2>2, <2>3
  <1> QED
    BY <1>2, <1>3, <1>10, <1>11 DEF ShownAt, c, e

(* A least element is the least. *)
LEMMA LeastIs ==
    ASSUME NEW S \in SUBSET Int, NEW x \in S, \A y \in S : x <= y
    PROVE  Doc!Least(S) = x
  <1>1. \A z \in S : (\A y \in S : z <= y) => z = x
    <2> SUFFICES ASSUME NEW z \in S, \A y \in S : z <= y PROVE z = x
      OBVIOUS
    <2>1. z <= x /\ x <= z /\ z \in Int /\ x \in Int
      OBVIOUS
    <2> QED
      BY <2>1
  <1> QED
    BY <1>1 DEF Doc!Least

(* Breaches name no playbook that the other records do not name. *)
LEMMA PlaybooksAlike ==
    ASSUME NEW R, NEW event, NEW first \in 0 .. Now, NEW second \in 0 .. Now,
           RecordsOf(R, event, first, second), Named(R),
           NEW X, NEW m \in Nat, NEW n \in Nat, NEW f, Shows(X, m, R, n, f)
    PROVE  /\ Len(Doc!PlaybooksOf(X)) = Len(Doc!PlaybooksOf(R))
           /\ Range(Doc!PlaybooksOf(X)) = Range(Doc!PlaybooksOf(R))
  <1> DEFINE PB == {R[i].playbook : i \in 1 .. n}
             listX == Doc!PlaybooksOf(X)
             listR == Doc!PlaybooksOf(R)
  <1>1. DOMAIN X = 1 .. m /\ DOMAIN R = 1 .. n
    BY DEF Shows
  <1>2. PICK M \in Nat : ListsEachOnce(listX, M, X)
    BY <1>1, PlaybooksListed
  <1>3. PICK N \in Nat : ListsEachOnce(listR, N, R)
    BY <1>1, PlaybooksListed
  <1> HIDE DEF listX, listR
  <1>4. \A i \in 1 .. n : R[i].playbook # None
    BY <1>1 DEF RecordsOf
  <1>5. ASSUME NEW k \in 1 .. m PROVE X[k].playbook \in PB
    <2>1. CASE f[k] = 0
      BY <2>1 DEF Shows
    <2>2. CASE f[k] # 0
      <3>1. X[k] = Stored(R[f[k]]) /\ f[k] \in 1 .. n
        BY <2>2 DEF Shows
      <3>2. X[k].playbook = R[f[k]].playbook
        BY <1>1, <3>1, StoredWithNames
      <3> QED
        BY <3>1, <3>2
    <2> QED
      BY <2>1, <2>2
  <1>6. ASSUME NEW i \in 1 .. n PROVE \E k \in 1 .. m : X[k].playbook = R[i].playbook
    <2>1. PICK k \in 1 .. m : f[k] = i
      BY DEF Shows
    <2>2. X[k] = Stored(R[i])
      <3>1. f[k] # 0
        BY <2>1
      <3>2. X[k] = Stored(R[f[k]])
        BY <3>1 DEF Shows
      <3> QED
        BY <2>1, <3>2
    <2>3. X[k].playbook = R[i].playbook
      BY <1>1, <2>2, StoredWithNames
    <2> QED
      BY <2>3
  <1>7. Pairs(listX, M, PB)
    <2>1. \A k \in 1 .. M : listX[k] \in PB
      BY <1>1, <1>2, <1>5 DEF ListsEachOnce
    <2>2. listX = [k \in 1 .. M |-> listX[k]]
      BY <1>2 DEF ListsEachOnce
    <2>3. listX \in [1 .. M -> PB]
      <3> HIDE DEF PB
      <3> QED
        BY <2>1, <2>2
    <2>4. ASSUME NEW p \in PB PROVE \E k \in 1 .. M : listX[k] = p
      <3>1. PICK i \in 1 .. n : p = R[i].playbook
        OBVIOUS
      <3>2. PICK k \in 1 .. m : X[k].playbook = p
        BY <1>6, <3>1
      <3>3. p # None
        BY <1>4, <3>1
      <3> QED
        BY <1>1, <1>2, <3>2, <3>3 DEF ListsEachOnce
    <2>5. \A k, l \in 1 .. M : listX[k] = listX[l] => k = l
      BY <1>2 DEF ListsEachOnce
    <2> HIDE DEF PB
    <2> QED
      BY <2>3, <2>4, <2>5 DEF Pairs
  <1>8. Pairs(listR, N, PB)
    <2>1. \A k \in 1 .. N : listR[k] \in PB
      BY <1>1, <1>3 DEF ListsEachOnce
    <2>2. listR = [k \in 1 .. N |-> listR[k]]
      BY <1>3 DEF ListsEachOnce
    <2>3. listR \in [1 .. N -> PB]
      <3> HIDE DEF PB
      <3> QED
        BY <2>1, <2>2
    <2>4. ASSUME NEW p \in PB PROVE \E k \in 1 .. N : listR[k] = p
      <3>1. PICK i \in 1 .. n : p = R[i].playbook
        OBVIOUS
      <3> QED
        BY <1>1, <1>3, <1>4, <3>1 DEF ListsEachOnce
    <2>5. \A k, l \in 1 .. N : listR[k] = listR[l] => k = l
      BY <1>3 DEF ListsEachOnce
    <2> HIDE DEF PB
    <2> QED
      BY <2>3, <2>4, <2>5 DEF Pairs
  <1> HIDE DEF PB
  <1>9. M = N
    <2>1. Matching(listX, M, PB, 1 .. M, PB) /\ Matching(listR, N, PB, 1 .. N, PB)
      BY <1>7, <1>8 DEF Pairs, Matching
    <2>2. Cardinality(1 .. M) = Cardinality(PB)
      BY <1>7, <2>1, CountsAgree
    <2>3. Cardinality(1 .. N) = Cardinality(PB)
      BY <1>8, <2>1, CountsAgree
    <2>4. Cardinality(1 .. M) = M
      BY FS_Interval
    <2>5. Cardinality(1 .. N) = N
      BY FS_Interval
    <2> QED
      BY <2>2, <2>3, <2>4, <2>5
  <1>10. Range(listX) = PB
    BY <1>7 DEF Pairs, Range
  <1>11. Range(listR) = PB
    BY <1>8 DEF Pairs, Range
  <1> QED
    BY <1>2, <1>3, <1>9, <1>10, <1>11 DEF ListsEachOnce, listX, listR

(* The first time is the same, written once or twice, with or without breaches,
   which come after it. *)
LEMMA TimesAlike ==
    ASSUME NEW R, NEW event, NEW first \in 0 .. Now, NEW second \in 0 .. Now,
           RecordsOf(R, event, first, second), Named(R),
           NEW X, NEW m \in Nat, NEW n \in Nat, NEW f, Shows(X, m, R, n, f), n # 0
    PROVE  Doc!Written(Doc!Least({X[k].time : k \in DOMAIN X}))
              = Doc!Written(Doc!Least({R[i].time : i \in DOMAIN R}))
  <1> DEFINE P == {R[i].time : i \in DOMAIN R}
             Q == {X[k].time : k \in DOMAIN X}
  <1>1. DOMAIN X = 1 .. m /\ DOMAIN R = 1 .. n /\ Now \in Nat
    BY OutcomesAssumption DEF Shows
  <1>2. \A i \in 1 .. n : R[i].time \in Nat /\ R[i].time <= Now
    <2>1. \A i \in 1 .. n : R[i].time \in 0 .. Now
      BY <1>1, StoredWithNames
    <2> QED
      BY <1>1, <2>1
  <1>3. P \in SUBSET Nat /\ R[1].time \in P
    BY <1>1, <1>2
  <1>4. PICK a \in P : \A y \in P : a <= y
    <2> HIDE DEF P
    <2> QED
      BY <1>3, LeastElement
  <1>5. PICK i \in 1 .. n : a = R[i].time
    BY <1>1
  <1>6. a \in Nat /\ a <= Now /\ \A j \in 1 .. n : a <= R[j].time
    BY <1>1, <1>2, <1>4, <1>5
  <1>7. Doc!Least(P) = a
    <2> HIDE DEF P
    <2> QED
      BY <1>3, <1>4, LeastIs
  <1>8. Doc!Written(a) \in Nat /\ Doc!Written(a) <= a /\ Doc!Written(Doc!Written(a)) = Doc!Written(a)
    BY <1>6, WrittenTimes
  <1>9. ASSUME NEW k \in 1 .. m
        PROVE  X[k].time \in Nat /\ Doc!Written(a) <= X[k].time
    <2>1. CASE f[k] = 0
      <3>1. X[k].time = Now
        BY <2>1 DEF Shows
      <3> QED
        BY <1>1, <1>6, <1>8, <3>1
    <2>2. CASE f[k] # 0
      <3>1. X[k] = Stored(R[f[k]]) /\ f[k] \in 1 .. n
        BY <2>2 DEF Shows
      <3>2. X[k].time = Doc!Written(R[f[k]].time)
        BY <1>1, <3>1, StoredWithNames
      <3>3. R[f[k]].time \in Nat /\ a <= R[f[k]].time
        BY <1>2, <1>6, <3>1
      <3> QED
        BY <1>6, <3>2, <3>3, WrittenTimes
    <2> QED
      BY <2>1, <2>2
  <1>10. Doc!Written(a) \in Q
    <2>1. PICK k \in 1 .. m : f[k] = i
      BY DEF Shows
    <2>2. X[k] = Stored(R[i])
      <3>1. f[k] # 0
        BY <2>1
      <3>2. X[k] = Stored(R[f[k]])
        BY <3>1 DEF Shows
      <3> QED
        BY <2>1, <3>2
    <2>3. X[k].time = Doc!Written(a)
      BY <1>1, <1>5, <2>2, StoredWithNames
    <2> QED
      BY <1>1, <2>3
  <1>11. Q \in SUBSET Int /\ \A y \in Q : Doc!Written(a) <= y
    BY <1>1, <1>9
  <1>12. Doc!Least(Q) = Doc!Written(a)
    <2> HIDE DEF Q
    <2> QED
      BY <1>10, <1>11, LeastIs
  <1> HIDE DEF P, Q
  <1> QED
    BY <1>7, <1>8, <1>12 DEF P, Q

(* Such records are shown like the records of the event. *)
LEMMA DocumentsAlike ==
    ASSUME NEW R, NEW event, NEW first \in 0 .. Now, NEW second \in 0 .. Now,
           RecordsOf(R, event, first, second), Named(R),
           NEW X, NEW m \in Nat, NEW n \in Nat, NEW f, Shows(X, m, R, n, f), n # 0,
           \A T \in {Doc!RuleTypes, {"action.triggered"}, {"PASS"}, {"FAIL"}} :
               Doc!CountOf(X, T) = Doc!CountOf(R, T),
           NEW now
    PROVE  LET shown == Doc!FormatResponse(event, X, now)
               kept  == Doc!FormatResponse(event, R, now)
           IN  shown.header = kept.header /\ Range(shown.results) = Range(kept.results)
  <1> DEFINE listX == Doc!PlaybooksOf(X)
             listR == Doc!PlaybooksOf(R)
             shown == Doc!FormatResponse(event, X, now)
             kept == Doc!FormatResponse(event, R, now)
  <1>1. /\ DOMAIN X = 1 .. m /\ DOMAIN R = 1 .. n
        /\ \A i \in 1 .. n : \E k \in 1 .. m : f[k] = i
    BY DEF Shows
  <1>2. X # << >> /\ R # << >>
    <2>1. 1 \in 1 .. n /\ \E k : k \in 1 .. m
      <3>1. 1 \in 1 .. n
        OBVIOUS
      <3> QED
        BY <1>1, <3>1
    <2>2. DOMAIN << >> = {}
      OBVIOUS
    <2> QED
      BY <1>1, <2>1, <2>2
  <1>3. Len(listX) = Len(listR) /\ Range(listX) = Range(listR)
    BY PlaybooksAlike
  <1>4. Doc!Header(event, X, now) = Doc!Header(event, R, now)
    <2>1. Doc!Written(Doc!Least({X[k].time : k \in DOMAIN X}))
             = Doc!Written(Doc!Least({R[i].time : i \in DOMAIN R}))
      BY TimesAlike
    <2>2. /\ Doc!CountOf(X, Doc!RuleTypes) = Doc!CountOf(R, Doc!RuleTypes)
          /\ Doc!CountOf(X, {"action.triggered"}) = Doc!CountOf(R, {"action.triggered"})
          /\ Doc!CountOf(X, {"PASS"}) = Doc!CountOf(R, {"PASS"})
          /\ Doc!CountOf(X, {"FAIL"}) = Doc!CountOf(R, {"FAIL"})
      OBVIOUS
    <2> DEFINE hX == Doc!Written(Doc!Least({X[k].time : k \in DOMAIN X}))
               hR == Doc!Written(Doc!Least({R[i].time : i \in DOMAIN R}))
    <2>3. Doc!Header(event, X, now) =
             [event_id |-> event, timestamp |-> hX,
              total_playbooks_triggered |-> Len(listX),
              total_rules_triggered |-> Doc!CountOf(X, Doc!RuleTypes),
              total_no_action_triggered |-> Doc!CountOf(X, {"action.triggered"}),
              total_no_of_success |-> Doc!CountOf(X, {"PASS"}),
              total_no_of_failure |-> Doc!CountOf(X, {"FAIL"}),
              status |-> IF Doc!CountOf(X, {"FAIL"}) > 0 THEN "fail" ELSE "success"]
      BY <1>2 DEF Doc!Header
    <2>4. Doc!Header(event, R, now) =
             [event_id |-> event, timestamp |-> hR,
              total_playbooks_triggered |-> Len(listR),
              total_rules_triggered |-> Doc!CountOf(R, Doc!RuleTypes),
              total_no_action_triggered |-> Doc!CountOf(R, {"action.triggered"}),
              total_no_of_success |-> Doc!CountOf(R, {"PASS"}),
              total_no_of_failure |-> Doc!CountOf(R, {"FAIL"}),
              status |-> IF Doc!CountOf(R, {"FAIL"}) > 0 THEN "fail" ELSE "success"]
      BY <1>2 DEF Doc!Header
    <2>5. hX = hR
      BY <2>1
    <2> HIDE DEF hX, hR, listX, listR
    <2> QED
      BY <1>3, <2>2, <2>3, <2>4, <2>5
  <1>5. \A pb : Doc!Result(X, pb) = Doc!Result(R, pb)
    <2>1. \A pb : Doc!EntriesOf(X, pb, Doc!RuleTypes) = Doc!EntriesOf(R, pb, Doc!RuleTypes)
      BY EntriesAlike
    <2>2. \A pb : Doc!EntriesOf(X, pb, {"action.triggered"})
                     = Doc!EntriesOf(R, pb, {"action.triggered"})
      BY EntriesAlike
    <2> QED
      BY <2>1, <2>2 DEF Doc!Result
  <1>6. /\ shown = [header |-> Doc!Header(event, X, now),
                    results |-> [k \in DOMAIN listX |-> Doc!Result(X, listX[k])]]
        /\ kept = [header |-> Doc!Header(event, R, now),
                   results |-> [k \in DOMAIN listR |-> Doc!Result(R, listR[k])]]
    BY DEF Doc!FormatResponse
  <1> HIDE DEF shown, kept, listX, listR
  <1>7. Range(shown.results) = Range(kept.results)
    <2>1. Range(shown.results) = {Doc!Result(X, pb) : pb \in Range(listX)}
      BY <1>6 DEF Range
    <2>2. Range(kept.results) = {Doc!Result(R, pb) : pb \in Range(listR)}
      BY <1>6 DEF Range
    <2> QED
      BY <1>3, <1>5, <2>1, <2>2
  <1> QED
    BY <1>4, <1>6, <1>7 DEF shown, kept

(* What the store holds of an event: a breach, and its document read back. *)
BreachOf(R) == IF R = << >> THEN << >> ELSE <<Doc!BreachMetric(R[1], Now)>>

ReadOf(event, R, now) ==
    IF R = << >> THEN << >> ELSE Doc!Flatten(Doc!FormatResponse(event, R, now))

(* What is read of an event, which may have no document. *)
LEMMA ReadOfRecords ==
    ASSUME NEW R, NEW event, NEW first, NEW second, RecordsOf(R, event, first, second), NEW now
    PROVE  LET got == ReadOf(event, R, now)
           IN  /\ got \in Seq(Range(AsStored(R)))
               /\ \E at : Arranges(at, got, AsStored(R), DOMAIN R)
  <1>1. CASE R = << >>
    <2> DEFINE at == [k \in {} |-> k]
    <2>1. ReadOf(event, R, now) = << >> /\ DOMAIN R = {} /\ Len(<< >>) = 0
      BY <1>1 DEF ReadOf
    <2>2. \A k : k \notin 1 .. 0
      OBVIOUS
    <2>3. at \in [1 .. 0 -> {}]
      BY <2>2
    <2> HIDE DEF at
    <2>4. Arranges(at, << >>, AsStored(R), {})
      BY <2>1, <2>2, <2>3 DEF Arranges
    <2> QED
      BY <2>1, <2>4
  <1>2. CASE R # << >>
    BY <1>2, ReadBack DEF ReadOf
  <1> QED
    BY <1>1, <1>2

(* Stored records have a time and name their event. *)
LEMMA ElementsOfStored ==
    ASSUME NEW R, NEW event, NEW first \in 0 .. Now, NEW second \in 0 .. Now,
           RecordsOf(R, event, first, second), NEW y \in Range(AsStored(R))
    PROVE  y.time \in Nat /\ y.event = event
  <1>1. PICK i \in DOMAIN R : y = AsStored(R)[i]
    BY DEF Range, AsStored
  <1>2. R[i].time \in Nat
    BY OutcomesAssumption DEF RecordsOf
  <1>3. y.time = Doc!Written(R[i].time) /\ y.event = event
    BY <1>1, StoredFields
  <1> QED
    BY <1>2, <1>3, WrittenTimes

(* The breaches found are of no type that a header counts. *)
LEMMA BreachesOf ==
    ASSUME NEW R, NEW event, NEW first, NEW second, RecordsOf(R, event, first, second)
    PROVE  /\ BreachOf(R) \in Seq(Range(BreachOf(R)))
           /\ \A y \in Range(BreachOf(R)) : y.time \in Nat /\ y.event = event
           /\ \A T \in SUBSET MetricTypes : Doc!CountOf(BreachOf(R), T) = 0
  <1>1. CASE R = << >>
    <2>1. BreachOf(R) = << >> /\ DOMAIN << >> = 1 .. 0
      BY <1>1 DEF BreachOf
    <2>2. ASSUME NEW T PROVE Doc!CountOf(<< >>, T) = 0
      <3>1. CountsAs(<< >>, 0, T, Doc!CountOf(<< >>, T))
        BY <2>1, CountIs
      <3>2. {i \in 1 .. 0 : << >>[i].type \in T} = {}
        OBVIOUS
      <3> QED
        BY <3>1, <3>2, FS_EmptySet DEF CountsAs
    <2>3. Range(<< >>) = {}
      BY DEF Range
    <2> QED
      BY <2>1, <2>2, <2>3
  <1>2. CASE R # << >>
    <2> DEFINE b == Doc!BreachMetric(R[1], Now)
    <2>1. b.type = "kpi.threshold_breach" /\ b.event = event /\ b.time = Now
      BY <1>2, BreachRecord
    <2>2. BreachOf(R) = <<b>>
      BY <1>2 DEF BreachOf
    <2> HIDE DEF b
    <2>3. DOMAIN <<b>> = 1 .. 1 /\ <<b>>[1] = b /\ Range(<<b>>) = {b} /\ <<b>> \in Seq({b})
      BY DEF Range
    <2>4. ASSUME NEW T \in SUBSET MetricTypes PROVE Doc!CountOf(<<b>>, T) = 0
      <3>1. CountsAs(<<b>>, 1, T, Doc!CountOf(<<b>>, T))
        BY <2>3, CountIs
      <3>2. b.type \notin T
        BY <2>1 DEF MetricTypes, Doc!RuleTypes
      <3>3. {i \in 1 .. 1 : <<b>>[i].type \in T} = {}
        BY <2>3, <3>2
      <3> QED
        BY <3>1, <3>3, FS_EmptySet DEF CountsAs
    <2> QED
      BY <2>1, <2>2, <2>3, <2>4, OutcomesAssumption
  <1> QED
    BY <1>1, <1>2

(* Records of one time are in the order in which they were found. *)
KeepsTies(q, X, n) ==
    \A k, l \in 1 .. n : k < l /\ X[k].time = X[l].time => q[k] < q[l]

(* The sorted records are those found. *)
LEMMA LatestFirstRearranges ==
    ASSUME NEW Y, NEW s \in Seq(Y), \A y \in Y : y.time \in Nat
    PROVE  \E q : /\ Rearranges(q, Doc!LatestFirst(s), Len(s), s, Len(s))
                  /\ KeepsTies(q, Doc!LatestFirst(s), Len(s))
  <1>1. Len(s) \in Nat /\ DOMAIN s = 1 .. Len(s) /\ \A k \in 1 .. Len(s) : s[k] \in Y
    OBVIOUS
  <1>2. \A k \in 1 .. Len(s) : s[k].time \in Int
    BY <1>1
  <1> DEFINE X == Doc!LatestFirst(s)
             n == Len(s)
  <1>3. /\ DOMAIN X = 1 .. n
        /\ \E q : /\ Pairs(q, n, 1 .. n)
                  /\ \A k \in 1 .. n : X[k] = s[q[k]]
                  /\ \A k, l \in 1 .. n : k < l /\ X[k].time = X[l].time => q[k] < q[l]
    BY <1>1, <1>2, LatestFirstSorts
  <1> HIDE DEF X, n
  <1> QED
    BY <1>1, <1>3 DEF Rearranges, KeepsTies, X, n

(* The listing of an event shows its document. *)
LEMMA OneListed ==
    ASSUME NEW R, NEW event, NEW first \in 0 .. Now, NEW second \in 0 .. Now,
           RecordsOf(R, event, first, second), Named(R), R # << >>, NEW now
    PROVE  LET shown == Doc!FormatResponse(event,
                            Doc!LatestFirst(Join(ReadOf(event, R, now), BreachOf(R))), now)
               kept  == Doc!FormatResponse(event, R, now)
           IN  shown.header = kept.header /\ Range(shown.results) = Range(kept.results)
  <1> DEFINE got == ReadOf(event, R, now)
             br == BreachOf(R)
             t == AsStored(R)
             Y == Range(t) \cup Range(br)
             s == Join(got, br)
             X == Doc!LatestFirst(s)
             b == Doc!BreachMetric(R[1], Now)
  <1>1. PICK n \in Nat : DOMAIN R = 1 .. n
    BY StoredFields
  <1>2. b.type = "kpi.threshold_breach" /\ b.time = Now /\ b.playbook = R[1].playbook /\ 1 \in 1 .. n
    BY <1>1, BreachRecord
  <1>3. br = <<b>>
    BY DEF BreachOf
  <1>4. got \in Seq(Range(t)) /\ \E at : Arranges(at, got, t, DOMAIN R)
    BY ReadOfRecords
  <1>5. br \in Seq(Range(br)) /\ (\A y \in Range(br) : y.time \in Nat)
        /\ \A T \in SUBSET MetricTypes : Doc!CountOf(br, T) = 0
    BY BreachesOf
  <1>6. \A y \in Y : y.time \in Nat
    BY <1>5, ElementsOfStored
  <1> HIDE DEF got, br, t, b
  <1>7. PICK at : Arranges(at, got, t, DOMAIN R)
    BY <1>4
  <1>8. Len(got) = n /\ Rearranges(at, got, n, t, n) /\ \A T : Doc!CountOf(got, T) = Doc!CountOf(t, T)
    BY <1>1, <1>4, <1>7, ArrangedCounts DEF t
  <1>9. got \in Seq(Y) /\ br \in Seq(Y)
    BY <1>4, <1>5
  <1>10. /\ s \in Seq(Y) /\ Len(s) = n + 1
         /\ \A k \in 1 .. n : s[k] = got[k]
         /\ s[n + 1] = b
    <2>1. Len(br) = 1 /\ br[1] = b
      BY <1>3
    <2> HIDE DEF Y
    <2>5. s = got \o br
      BY DEF Join
    <2>6. /\ s \in Seq(Y) /\ Len(s) = Len(got) + Len(br)
          /\ \A k \in 1 .. Len(got) : s[k] = got[k]
          /\ \A k \in 1 .. Len(s) : k > Len(got) => s[k] = br[k - Len(got)]
      <3> HIDE DEF s
      <3> QED
        BY <1>9, <2>5, JoinedLists
    <2>2. /\ s \in Seq(Y) /\ Len(s) = n + 1
          /\ \A k \in 1 .. n : s[k] = got[k]
          /\ \A k \in 1 .. (n + 1) : k > n => s[k] = br[k - n]
      <3> HIDE DEF s
      <3> QED
        BY <1>8, <2>1, <2>6
    <2>3. n + 1 \in 1 .. (n + 1) /\ n + 1 > n /\ (n + 1) - n = 1
      OBVIOUS
    <2>4. s[n + 1] = br[1]
      <3> HIDE DEF s, Y
      <3> QED
        BY <2>2, <2>3
    <2> QED
      BY <2>1, <2>2, <2>4
  <1> HIDE DEF s, Y
  <1>11. PICK q : Rearranges(q, X, n + 1, s, n + 1) /\ KeepsTies(q, X, n + 1)
    BY <1>6, <1>10, LatestFirstRearranges DEF X
  <1> HIDE DEF X
  <1> DEFINE f == [k \in 1 .. (n + 1) |-> IF q[k] = n + 1 THEN 0 ELSE at[q[k]]]
  <1>12. /\ DOMAIN X = 1 .. (n + 1) /\ q \in [1 .. (n + 1) -> 1 .. (n + 1)]
         /\ \A k, l \in 1 .. (n + 1) : q[k] = q[l] => k = l
         /\ \A i \in 1 .. (n + 1) : \E k \in 1 .. (n + 1) : q[k] = i
         /\ \A k \in 1 .. (n + 1) : X[k] = s[q[k]]
    BY <1>11 DEF Rearranges, Pairs
  <1>13. /\ at \in [1 .. n -> 1 .. n] /\ \A i \in 1 .. n : \E k \in 1 .. n : at[k] = i
         /\ \A k \in 1 .. n : got[k] = t[at[k]]
         /\ \A k, l \in 1 .. n : k < l /\ SameKind(got[k], got[l]) => at[k] < at[l]
    BY <1>1, <1>7, <1>8 DEF Arranges
  <1>14. ASSUME NEW k \in 1 .. (n + 1)
         PROVE  \/ q[k] = n + 1 /\ f[k] = 0 /\ X[k] = b
                \/ /\ q[k] \in 1 .. n /\ f[k] = at[q[k]] /\ f[k] \in 1 .. n
                   /\ X[k] = got[q[k]] /\ X[k] = Stored(R[f[k]])
    <2>1. q[k] \in 1 .. (n + 1) /\ X[k] = s[q[k]]
      BY <1>12
    <2>2. CASE q[k] = n + 1
      BY <1>10, <2>1, <2>2
    <2>3. CASE q[k] # n + 1
      <3>1. q[k] \in 1 .. n
        BY <2>1, <2>3
      <3>2. f[k] = at[q[k]]
        BY <2>3
      <3> HIDE DEF f
      <3>3. f[k] \in 1 .. n /\ X[k] = got[q[k]] /\ got[q[k]] = t[f[k]]
        BY <1>10, <1>13, <2>1, <3>1, <3>2
      <3>4. t[f[k]] = Stored(R[f[k]])
        BY <1>1, <3>3 DEF t, AsStored
      <3> QED
        BY <3>1, <3>2, <3>3, <3>4
    <2> QED
      BY <2>2, <2>3
  <1>15. f \in [1 .. (n + 1) -> 0 .. n]
    <2>1. \A k \in 1 .. (n + 1) : f[k] \in 0 .. n
      <3> HIDE DEF f
      <3> QED
        BY <1>14
    <2> QED
      BY <2>1
  <1> HIDE DEF f
  <1>16. ASSUME NEW i \in 1 .. n PROVE \E k \in 1 .. (n + 1) : f[k] = i
    <2>1. PICK j \in 1 .. n : at[j] = i
      BY <1>13
    <2>2. j \in 1 .. (n + 1) /\ j # n + 1
      OBVIOUS
    <2>3. PICK k \in 1 .. (n + 1) : q[k] = j
      BY <1>12, <2>2
    <2> QED
      BY <1>14, <2>1, <2>2, <2>3
  <1>17. ASSUME NEW k \in 1 .. (n + 1), NEW l \in 1 .. (n + 1), k < l, f[k] # 0, f[l] # 0,
                SameKind(X[k], X[l])
         PROVE  f[k] < f[l]
    <2>1. /\ q[k] \in 1 .. n /\ f[k] = at[q[k]] /\ f[k] \in 1 .. n /\ X[k] = got[q[k]]
          /\ X[k] = Stored(R[f[k]])
      BY <1>14, <1>17
    <2>2. /\ q[l] \in 1 .. n /\ f[l] = at[q[l]] /\ f[l] \in 1 .. n /\ X[l] = got[q[l]]
          /\ X[l] = Stored(R[f[l]])
      BY <1>14, <1>17
    <2>3. X[k].time = X[l].time
      <3>1. /\ X[k].type = R[f[k]].type /\ X[l].type = R[f[l]].type
            /\ X[k].time = Doc!Written(R[f[k]].time) /\ X[l].time = Doc!Written(R[f[l]].time)
        <4>1. \A i \in 1 .. n : /\ Stored(R[i]).type = R[i].type
                                /\ Stored(R[i]).time = Doc!Written(R[i].time)
          BY <1>1, StoredWithNames
        <4> QED
          BY <2>1, <2>2, <4>1
      <3>2. R[f[k]].type \in Doc!RuleTypes <=> R[f[l]].type \in Doc!RuleTypes
        BY <1>17, <3>1 DEF SameKind
      <3>3. "action.triggered" \notin Doc!RuleTypes
        BY DEF Doc!RuleTypes
      <3>4. R[f[k]].time = R[f[l]].time
        BY <1>1, <2>1, <2>2, <3>2, <3>3 DEF RecordsOf
      <3> QED
        BY <3>1, <3>4
    <2>4. q[k] < q[l]
      BY <1>11, <1>17, <2>3 DEF KeepsTies
    <2> QED
      BY <1>13, <1>17, <2>1, <2>2, <2>4
  <1>18. Shows(X, n + 1, R, n, f)
    <2>1. \A k \in 1 .. (n + 1) : f[k] # 0 => X[k] = Stored(R[f[k]])
      BY <1>14
    <2>2. ASSUME NEW k \in 1 .. (n + 1), f[k] = 0
          PROVE  /\ X[k].type \notin MetricTypes /\ X[k].time = Now
                 /\ \E i \in 1 .. n : X[k].playbook = R[i].playbook
      <3>1. X[k] = b
        BY <1>14, <2>2
      <3>2. b.type \notin MetricTypes
        BY <1>2 DEF MetricTypes, Doc!RuleTypes
      <3> QED
        BY <1>2, <3>1, <3>2
    <2> QED
      BY <1>1, <1>12, <1>15, <1>16, <1>17, <2>1, <2>2 DEF Shows
  <1>19. ASSUME NEW T \in {Doc!RuleTypes, {"action.triggered"}, {"PASS"}, {"FAIL"}}
         PROVE  Doc!CountOf(X, T) = Doc!CountOf(R, T)
    <2>1. T \in SUBSET MetricTypes
      BY DEF MetricTypes, Doc!RuleTypes
    <2>2. Doc!CountOf(X, T) = Doc!CountOf(s, T)
      BY <1>11, CountsAreKept
    <2>3. Doc!CountOf(s, T) = Doc!CountOf(got, T) + Doc!CountOf(br, T)
      BY <1>9, CountOfJoin DEF s
    <2>4. Doc!CountOf(br, T) = 0
      BY <1>5, <2>1
    <2>5. Doc!CountOf(got, T) = Doc!CountOf(R, T)
      BY <1>8, CountOfStored DEF t
    <2>6. Doc!CountOf(R, T) \in Nat
      BY <1>1, CountIs DEF CountsAs
    <2> QED
      BY <2>2, <2>3, <2>4, <2>5, <2>6
  <1>20. n + 1 \in Nat /\ n # 0
    BY <1>2
  <1> QED
    BY <1>18, <1>19, <1>20, DocumentsAlike DEF X, s, got, br

-----------------------------------------------------------------------------
(* The listing of all events.                                                *)

(* What the header of a response counts. *)
Counts(h, event, R) ==
    /\ h.event_id = event
    /\ h.total_rules_triggered = Doc!CountOf(R, Doc!RuleTypes)
    /\ h.total_no_action_triggered = Doc!CountOf(R, {"action.triggered"})
    /\ h.total_no_of_failure = Doc!CountOf(R, {"FAIL"})
    /\ h.status = IF Doc!CountOf(R, {"FAIL"}) > 0 THEN "fail" ELSE "success"

(* A header counts the records it is made for. *)
LEMMA HeaderCounts ==
    ASSUME NEW event, NEW R, NEW now
    PROVE  Counts(Doc!FormatResponse(event, R, now).header, event, R)
  <1>1. Doc!FormatResponse(event, R, now).header = Doc!Header(event, R, now)
    BY DEF Doc!FormatResponse
  <1>2. Counts(Doc!Header(event, R, now), event, R)
    BY DEF Doc!Header, Counts
  <1> QED
    BY <1>1, <1>2

(* The records found of an event: as many of every kind as were recorded, and
   each names the event. *)
FoundOf(got, event, R) ==
    /\ got \in Seq(Range(got))
    /\ \A y \in Range(got) : y.time \in Nat /\ y.event = event
    /\ R # << >> => Range(got) # {}
    /\ \A T : Doc!CountOf(got, T) = Doc!CountOf(R, T) /\ Doc!CountOf(R, T) \in Nat

(* What is found of an event, for the counts. *)
LEMMA RecordsFound ==
    ASSUME NEW R, NEW event, NEW first \in 0 .. Now, NEW second \in 0 .. Now,
           RecordsOf(R, event, first, second), NEW now
    PROVE  FoundOf(ReadOf(event, R, now), event, R)
  <1> DEFINE got == ReadOf(event, R, now)
             t == AsStored(R)
  <1>1. PICK n \in Nat : DOMAIN R = 1 .. n
    BY StoredFields
  <1>2. got \in Seq(Range(t)) /\ \E at : Arranges(at, got, t, DOMAIN R)
    BY ReadOfRecords
  <1>3. \A y \in Range(t) : y.time \in Nat /\ y.event = event
    BY ElementsOfStored
  <1> HIDE DEF got, t
  <1>4. PICK at : Arranges(at, got, t, DOMAIN R)
    BY <1>2
  <1>5. Len(got) = n /\ \A T : Doc!CountOf(got, T) = Doc!CountOf(t, T)
    BY <1>1, <1>2, <1>4, ArrangedCounts DEF t
  <1>6. \A T : Doc!CountOf(got, T) = Doc!CountOf(R, T) /\ Doc!CountOf(R, T) \in Nat
    <2> SUFFICES ASSUME NEW T
                 PROVE  Doc!CountOf(got, T) = Doc!CountOf(R, T) /\ Doc!CountOf(R, T) \in Nat
      OBVIOUS
    <2>1. Doc!CountOf(t, T) = Doc!CountOf(R, T)
      BY CountOfStored DEF t
    <2>2. Doc!CountOf(R, T) \in Nat
      BY <1>1, CountIs DEF CountsAs
    <2> QED
      BY <1>5, <2>1, <2>2
  <1>7. DOMAIN got = 1 .. n /\ \A k \in 1 .. n : got[k] \in Range(t)
    BY <1>2, <1>5
  <1>8. got \in Seq(Range(got)) /\ Range(got) \subseteq Range(t)
    <2>1. \A y \in Range(got) : \E k \in 1 .. n : y = got[k]
      BY <1>7 DEF Range
    <2>2. Range(got) \subseteq Range(t)
      BY <1>7, <2>1
    <2>3. \A k \in 1 .. n : got[k] \in Range(got)
      BY <1>7 DEF Range
    <2>4. got = [k \in 1 .. n |-> got[k]]
      BY <1>2, <1>5
    <2> QED
      BY <1>1, <2>2, <2>3, <2>4
  <1>9. R # << >> => Range(got) # {}
    <2> SUFFICES ASSUME R # << >> PROVE Range(got) # {}
      OBVIOUS
    <2>1. 1 \in DOMAIN R
      BY BreachRecord
    <2>2. got[1] \in Range(got)
      BY <1>1, <1>7, <2>1 DEF Range
    <2> QED
      BY <2>2
  <1>10. \A y \in Range(got) : y.time \in Nat /\ y.event = event
    BY <1>3, <1>8
  <1>11. FoundOf(got, event, R)
    BY <1>6, <1>8, <1>9, <1>10 DEF FoundOf
  <1> QED
    BY <1>11 DEF got

(* A joined list has what is in its parts. *)
RangeJoins(s, u) == Range(Join(s, u)) = Range(s) \cup Range(u)

(* A joined list has what is in its parts. *)
LEMMA RangeOfJoin ==
    ASSUME NEW X, NEW s \in Seq(X), NEW u \in Seq(X)
    PROVE  Join(s, u) \in Seq(X) /\ RangeJoins(s, u)
  <1> DEFINE c == s \o u
             m == Len(s)
             l == Len(u)
  <1>1. /\ m \in Nat /\ l \in Nat /\ Len(c) = m + l /\ c \in Seq(X)
        /\ \A k \in 1 .. m : c[k] = s[k]
        /\ \A k \in 1 .. Len(c) : k > m => c[k] = u[k - m] /\ k - m \in 1 .. l
    BY JoinedLists
  <1>2. DOMAIN s = 1 .. m /\ DOMAIN u = 1 .. l /\ DOMAIN c = 1 .. (m + l)
    BY <1>1
  <1>3. Join(s, u) = c
    BY DEF Join
  <1> HIDE DEF c, m, l
  <1>4. ASSUME NEW k \in 1 .. (m + l) PROVE c[k] \in Range(s) \cup Range(u)
    <2>1. CASE k > m
      BY <1>1, <1>2, <2>1 DEF Range
    <2>2. CASE ~(k > m)
      <3>1. k \in 1 .. m
        BY <1>1, <2>2
      <3> QED
        BY <1>1, <1>2, <3>1 DEF Range
    <2> QED
      BY <2>1, <2>2
  <1>5. ASSUME NEW k \in 1 .. m PROVE s[k] \in Range(c)
    <2>1. k \in 1 .. (m + l)
      BY <1>1
    <2> QED
      BY <1>1, <1>2, <2>1 DEF Range
  <1>6. ASSUME NEW k \in 1 .. l PROVE u[k] \in Range(c)
    <2>1. k + m \in 1 .. (m + l) /\ k + m > m /\ (k + m) - m = k
      BY <1>1
    <2>2. c[k + m] = u[k]
      BY <1>1, <2>1
    <2> QED
      BY <1>2, <2>1, <2>2 DEF Range
  <1>7. Range(c) = Range(s) \cup Range(u)
    <2>1. \A y \in Range(c) : \E k \in 1 .. (m + l) : y = c[k]
      BY <1>2 DEF Range
    <2>2. \A y \in Range(s) : \E k \in 1 .. m : y = s[k]
      BY <1>2 DEF Range
    <2>3. \A y \in Range(u) : \E k \in 1 .. l : y = u[k]
      BY <1>2 DEF Range
    <2> QED
      BY <1>4, <1>5, <1>6, <2>1, <2>2, <2>3
  <1> QED
    BY <1>1, <1>3, <1>7 DEF RangeJoins

(* The event that a listing names is that of every record in it. *)
LEMMA EventNamed ==
    ASSUME NEW s, NEW n \in Nat, DOMAIN s = 1 .. n, NEW now, NEW y \in Range(s),
           Doc!FormatAll(s, now).header.event_id # None
    PROVE  Doc!FormatAll(s, now).header.event_id = y.event
  <1> DEFINE events == {s[i].event : i \in DOMAIN s}
             e == IF \E x \in events : events = {x} THEN s[1].event ELSE None
  <1>1. Doc!FormatAll(s, now).header.event_id = e
    <2>1. Doc!FormatAll(s, now) = Doc!FormatResponse(e, s, now)
      BY DEF Doc!FormatAll
    <2> HIDE DEF e
    <2>2. Counts(Doc!FormatResponse(e, s, now).header, e, s)
      BY HeaderCounts
    <2> QED
      BY <2>1, <2>2 DEF Counts
  <1>2. PICK x \in events : events = {x}
    BY <1>1
  <1>3. PICK j \in 1 .. n : y = s[j]
    BY DEF Range
  <1>4. 1 \in 1 .. n
    BY <1>3
  <1>5. s[1].event \in events /\ y.event \in events
    BY <1>3, <1>4
  <1>6. e = s[1].event
    BY <1>2
  <1> HIDE DEF events, e
  <1> QED
    BY <1>1, <1>2, <1>5, <1>6

(* What the listing of all events says of the documents of two events. *)
AddsUp(all, one, other) ==
    /\ all.total_rules_triggered = one.total_rules_triggered + other.total_rules_triggered
    /\ all.total_no_action_triggered
          = one.total_no_action_triggered + other.total_no_action_triggered
    /\ all.total_no_of_failure = one.total_no_of_failure + other.total_no_of_failure
    /\ all.status = "fail" <=> one.status = "fail" \/ other.status = "fail"

(* The listing of all events adds up the documents of two of them, with breaches
   between. *)
LEMMA AllListed ==
    ASSUME NEW R1, NEW event1, NEW got1, FoundOf(got1, event1, R1),
           NEW R2, NEW event2, NEW got2, FoundOf(got2, event2, R2),
           NEW br, br \in Seq(Range(br)), \A y \in Range(br) : y.time \in Nat,
           \A T \in SUBSET MetricTypes : Doc!CountOf(br, T) = 0, NEW now
    PROVE  LET all == Doc!FormatAll(Doc!LatestFirst(Join(Join(got1, br), got2)), now).header
           IN  /\ AddsUp(all, Doc!FormatResponse(event1, R1, now).header,
                         Doc!FormatResponse(event2, R2, now).header)
               /\ all.event_id # None => /\ R1 # << >> => all.event_id = event1
                                         /\ R2 # << >> => all.event_id = event2
  <1> DEFINE found == Join(Join(got1, br), got2)
             X == Doc!LatestFirst(found)
             Y == Range(got1) \cup Range(br) \cup Range(got2)
             n == Len(found)
             events == {X[i].event : i \in DOMAIN X}
             e == IF \E x \in events : events = {x} THEN X[1].event ELSE None
             all == Doc!FormatAll(X, now).header
             one == Doc!FormatResponse(event1, R1, now).header
             other == Doc!FormatResponse(event2, R2, now).header
  <1>1. got1 \in Seq(Y) /\ br \in Seq(Y) /\ got2 \in Seq(Y) /\ \A y \in Y : y.time \in Nat
    BY DEF FoundOf
  <1> HIDE DEF Y
  <1>2. Join(got1, br) \in Seq(Y) /\ RangeJoins(got1, br)
    BY <1>1, RangeOfJoin
  <1>3. found \in Seq(Y) /\ RangeJoins(Join(got1, br), got2)
    BY <1>1, <1>2, RangeOfJoin
  <1>4. Range(got1) \subseteq Range(found) /\ Range(got2) \subseteq Range(found)
    <2>1. Range(Join(got1, br)) = Range(got1) \cup Range(br)
      BY <1>2 DEF RangeJoins
    <2>2. Range(found) = Range(Join(got1, br)) \cup Range(got2)
      BY <1>3 DEF RangeJoins
    <2> HIDE DEF found
    <2> QED
      BY <2>1, <2>2
  <1>5. ASSUME NEW T \in SUBSET MetricTypes
        PROVE  /\ Doc!CountOf(found, T) = Doc!CountOf(R1, T) + Doc!CountOf(R2, T)
               /\ Doc!CountOf(R1, T) \in Nat /\ Doc!CountOf(R2, T) \in Nat
    <2>1. Doc!CountOf(found, T) = Doc!CountOf(Join(got1, br), T) + Doc!CountOf(got2, T)
      BY <1>1, <1>2, CountOfJoin
    <2>2. Doc!CountOf(Join(got1, br), T) = Doc!CountOf(got1, T) + Doc!CountOf(br, T)
      BY <1>1, CountOfJoin
    <2>3. /\ Doc!CountOf(got1, T) = Doc!CountOf(R1, T) /\ Doc!CountOf(R1, T) \in Nat
          /\ Doc!CountOf(got2, T) = Doc!CountOf(R2, T) /\ Doc!CountOf(R2, T) \in Nat
      BY DEF FoundOf
    <2>4. Doc!CountOf(br, T) = 0
      OBVIOUS
    <2> HIDE DEF found
    <2> QED
      BY <2>1, <2>2, <2>3, <2>4
  <1> HIDE DEF found
  <1>6. PICK q : Rearranges(q, X, n, found, n)
    BY <1>1, <1>3, LatestFirstRearranges
  <1>7. n \in Nat /\ DOMAIN found = 1 .. n
    BY <1>3
  <1> HIDE DEF X, n
  <1>8. \A T : Doc!CountOf(X, T) = Doc!CountOf(found, T)
    BY <1>6, <1>7, CountsAreKept
  <1>9. DOMAIN X = 1 .. n /\ Range(found) \subseteq Range(X)
    <2>1. /\ DOMAIN X = 1 .. n /\ \A i \in 1 .. n : \E k \in 1 .. n : q[k] = i
          /\ \A k \in 1 .. n : X[k] = found[q[k]]
      BY <1>6 DEF Rearranges, Pairs
    <2>2. ASSUME NEW y \in Range(found) PROVE y \in Range(X)
      <3>1. PICK i \in 1 .. n : y = found[i]
        BY <1>7 DEF Range
      <3>2. PICK k \in 1 .. n : q[k] = i
        BY <2>1
      <3>3. X[k] = y
        BY <2>1, <3>1, <3>2
      <3> QED
        BY <2>1, <3>3 DEF Range
    <2> QED
      BY <2>1, <2>2
  <1>10. Counts(all, e, X)
    <2>1. Doc!FormatAll(X, now) = Doc!FormatResponse(e, X, now)
      BY DEF Doc!FormatAll
    <2> HIDE DEF e
    <2> QED
      BY <2>1, HeaderCounts
  <1>11. Counts(one, event1, R1) /\ Counts(other, event2, R2)
    BY HeaderCounts
  <1>12. AddsUp(all, one, other)
    <2>1. /\ Doc!RuleTypes \in SUBSET MetricTypes /\ {"action.triggered"} \in SUBSET MetricTypes
          /\ {"FAIL"} \in SUBSET MetricTypes
      BY DEF MetricTypes, Doc!RuleTypes
    <2>2. /\ Doc!CountOf(X, Doc!RuleTypes)
                = Doc!CountOf(R1, Doc!RuleTypes) + Doc!CountOf(R2, Doc!RuleTypes)
          /\ Doc!CountOf(X, {"action.triggered"})
                = Doc!CountOf(R1, {"action.triggered"}) + Doc!CountOf(R2, {"action.triggered"})
          /\ Doc!CountOf(X, {"FAIL"}) = Doc!CountOf(R1, {"FAIL"}) + Doc!CountOf(R2, {"FAIL"})
          /\ Doc!CountOf(R1, {"FAIL"}) \in Nat /\ Doc!CountOf(R2, {"FAIL"}) \in Nat
      BY <1>5, <1>8, <2>1
    <2> HIDE DEF all, one, other, e
    <2> QED
      BY <1>10, <1>11, <2>2 DEF Counts, AddsUp
  <1>13. ASSUME NEW y \in Range(X), all.event_id # None
         PROVE  all.event_id = y.event
    BY <1>7, <1>9, <1>13, EventNamed
  <1> HIDE DEF all, e, one, other
  <1>14. ASSUME all.event_id # None, R1 # << >>
         PROVE  all.event_id = event1
    <2>1. PICK y : y \in Range(got1)
      BY <1>14 DEF FoundOf
    <2>2. y \in Range(X) /\ y.event = event1
      BY <1>4, <1>9, <2>1 DEF FoundOf
    <2> QED
      BY <1>13, <1>14, <2>2
  <1>15. ASSUME all.event_id # None, R2 # << >>
         PROVE  all.event_id = event2
    <2>1. PICK y : y \in Range(got2)
      BY <1>15 DEF FoundOf
    <2>2. y \in Range(X) /\ y.event = event2
      BY <1>4, <1>9, <2>1 DEF FoundOf
    <2> QED
      BY <1>13, <1>15, <2>2
  <1> QED
    BY <1>12, <1>14, <1>15 DEF all, one, other, X, found

(* The listings show what was stored (intake_api.rs, metrics_by_event_id and
   metrics): sorting the records found by time moves no two of one playbook and
   kind past each other, so an event is listed with the results of its document;
   and what is counted in the listing of all events is what the documents count,
   since a breach is of no kind that is counted. *)
THEOREM ListingsAgree == Spec => []ListingsShowWhatWasStored
  <1>1. ASSUME InputOK, MetricsAnswer
        PROVE  ListingsShowWhatWasStored
    <2> DEFINE R1 == Recorded(1)
               R2 == Recorded(2)
               event1 == Events[1]
               event2 == Events[2]
               got1 == ReadOf(event1, R1, Now)
               got2 == ReadOf(event2, R2, Now)
               br == BreachOf(R1)
               one == Doc!FormatResponse(event1, R1, Now)
               other == Doc!FormatResponse(event2, R2, Now)
    <2>1. SUFFICES ASSUME Done("metrics") PROVE ListingsShowWhatWasStored
      BY DEF ListingsShowWhatWasStored
    <2>2. /\ outcome.documents[1] = one /\ outcome.documents[2] = other
          /\ outcome.one = Doc!FormatResponse(event1, Doc!LatestFirst(Join(got1, br)), Now)
          /\ outcome.all = Doc!FormatAll(Doc!LatestFirst(Join(Join(got1, br), got2)), Now)
      <3>1. outcome = MetricsOf(input)
        BY <1>1, <2>1 DEF MetricsAnswer
      <3>2. RecordsIn(input, 1) = R1 /\ RecordsIn(input, 2) = R2
        BY DEF Recorded, RecordsIn
      <3>3. /\ DocumentIn(input, 1) = one /\ DocumentIn(input, 2) = other
            /\ ReadIn(input, 1) = got1 /\ ReadIn(input, 2) = got2 /\ BreachIn(input) = br
        BY <3>2 DEF DocumentIn, ReadIn, BreachIn, ReadOf, BreachOf
      <3>4. Join(got1, br) = got1 \o br /\ Join(Join(got1, br), got2) = got1 \o br \o got2
        BY DEF Join
      <3> HIDE DEF R1, R2, event1, event2, got1, got2, br, one, other
      <3>5. /\ outcome.documents = [i \in 1 .. 2 |-> DocumentIn(input, i)]
            /\ outcome.one = Doc!MetricsByEventId(Events[1], got1 \o br, Now)
            /\ outcome.all = Doc!AllMetrics(got1 \o br \o got2, Now)
        BY <3>1, <3>3 DEF MetricsOf
      <3>6. outcome.documents[1] = one /\ outcome.documents[2] = other
        BY <3>3, <3>5
      <3> QED
        BY <3>4, <3>5, <3>6 DEF Doc!MetricsByEventId, Doc!AllMetrics, event1
    <2>3. PICK first1, second1 \in 0 .. Now : RecordsOf(R1, event1, first1, second1)
      BY <1>1, <2>1, RecordedOutcome DEF Done
    <2>4. PICK first2, second2 \in 0 .. Now : RecordsOf(R2, event2, first2, second2)
      BY <1>1, <2>1, RecordedOutcome DEF Done
    <2> HIDE DEF R1, R2, event1, event2
    <2>5. ASSUME R1 # << >>, \A r \in Range(R1) : NoName \notin {r.playbook, r.rule, r.action}
          PROVE  /\ outcome.one.header = one.header
                 /\ Range(outcome.one.results) = Range(one.results)
      <3>1. Named(R1)
        BY <2>5 DEF Named, Range
      <3> QED
        BY <2>2, <2>3, <2>5, <3>1, OneListed
    <2>6. FoundOf(got1, event1, R1) /\ FoundOf(got2, event2, R2)
      BY <2>3, <2>4, RecordsFound
    <2>7. /\ br \in Seq(Range(br)) /\ \A y \in Range(br) : y.time \in Nat
          /\ \A T \in SUBSET MetricTypes : Doc!CountOf(br, T) = 0
      BY <2>3, BreachesOf
    <2> HIDE DEF got1, got2, br
    <2>8. /\ AddsUp(outcome.all.header, one.header, other.header)
          /\ outcome.all.header.event_id # None =>
                /\ R1 # << >> => outcome.all.header.event_id = event1
                /\ R2 # << >> => outcome.all.header.event_id = event2
      BY <2>2, <2>6, <2>7, AllListed
    <2>9. /\ \A i \in 1 .. 2 : i = 1 \/ i = 2
          /\ 1 \in 1 .. 2 /\ 2 \in 1 .. 2
      OBVIOUS
    <2> HIDE DEF one, other
    <2> DEFINE all == outcome.all.header
               of(i) == outcome.documents[i].header
    <2>10. of(1) = one.header /\ of(2) = other.header
      BY <2>2
    <2>11. all.status = "fail" <=> \E i \in 1 .. 2 : of(i).status = "fail"
      <3>1. all.status = "fail" <=> one.header.status = "fail" \/ other.header.status = "fail"
        BY <2>8 DEF AddsUp
      <3> QED
        BY <2>9, <2>10, <3>1
    <2>12. all.event_id # None =>
              \A i \in 1 .. 2 : Recorded(i) # << >> => all.event_id = Events[i]
      BY <2>8, <2>9 DEF R1, R2, event1, event2
    <2>13. /\ all.total_rules_triggered = of(1).total_rules_triggered + of(2).total_rules_triggered
           /\ all.total_no_action_triggered
                 = of(1).total_no_action_triggered + of(2).total_no_action_triggered
           /\ all.total_no_of_failure = of(1).total_no_of_failure + of(2).total_no_of_failure
      BY <2>8, <2>10 DEF AddsUp
    <2>14. R1 # << >> /\ (\A r \in Range(R1) : NoName \notin {r.playbook, r.rule, r.action})
              => /\ outcome.one.header = of(1)
                 /\ Range(outcome.one.results) = Range(outcome.documents[1].results)
      BY <2>2, <2>5, <2>10
    <2> HIDE DEF all, of
    <2> QED
      BY <2>11, <2>12, <2>13, <2>14 DEF ListingsShowWhatWasStored, R1, all, of
  <1> QED
    BY <1>1, InputIsKept, MetricsAreComputed, PTL

=============================================================================
