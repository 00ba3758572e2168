--------------------------- MODULE Research_proofs ---------------------------
(* Proofs about Research, for any subtasks, plans, languages, limits and    *)
(* faults.                                                                  *)
EXTENDS Research, SequenceTheorems, FiniteSetTheorems, WellFoundedInduction, TLAPS

-----------------------------------------------------------------------------
(* Recursion over the positions of a list.                                  *)

LEMMA LeastElement ==
    ASSUME NEW S \in SUBSET Nat, S # {}
    PROVE  \E n \in S : \A m \in S : n <= m
<1>1. PICK n \in S : \A m \in S : <<m, n>> \notin OpToRel(<, Nat)
  BY NatLessThanWellFounded, WFMin
<1>2. \A m \in S : ~(m < n)
  BY <1>1 DEF OpToRel
<1> QED
  BY <1>2

(* Induction up to N, over the set of the numbers that are proved.          *)
LEMMA Induction ==
    ASSUME NEW N \in Nat, NEW S, 0 \in S,
           \A n \in 1 .. N : n - 1 \in S => n \in S
    PROVE  0 .. N \subseteq S
<1> SUFFICES ASSUME (0 .. N) \ S # {} PROVE FALSE
  OBVIOUS
<1> (0 .. N) \ S \in SUBSET Nat
  OBVIOUS
<1>1. PICK n \in (0 .. N) \ S : \A m \in (0 .. N) \ S : n <= m
  BY LeastElement
<1>2. n \in 1 .. N /\ n - 1 \in 0 .. N /\ n - 1 \notin (0 .. N) \ S
  BY <1>1
<1> QED
  BY <1>1, <1>2

(* A function that is defined from its value before is defined.             *)
Iterates(f, N, base, step) ==
    f = [n \in 0 .. N |-> IF n = 0 THEN base ELSE step[n][f[n - 1]]]

LEMMA IterationExists ==
    ASSUME NEW N \in Nat, NEW V, NEW base \in V, NEW step \in [1 .. N -> [V -> V]]
    PROVE  \E f \in [0 .. N -> V] : Iterates(f, N, base, step)
<1> DEFINE Upto(n) == {g \in [0 .. n -> V] :
                         g[0] = base /\ \A i \in 1 .. n : g[i] = step[i][g[i - 1]]}
           S == {n \in 0 .. N : Upto(n) # {}}
<1>1. 0 \in S
  <2>1. [i \in 0 .. 0 |-> base] \in Upto(0)
    OBVIOUS
  <2> QED
    BY <2>1
<1>2. ASSUME NEW n \in 1 .. N, n - 1 \in S PROVE n \in S
  <2>1. PICK g \in [0 .. n - 1 -> V] :
            g[0] = base /\ \A i \in 1 .. n - 1 : g[i] = step[i][g[i - 1]]
    BY <1>2
  <2> DEFINE h == [i \in 0 .. n |-> IF i = n THEN step[n][g[n - 1]] ELSE g[i]]
  <2>2. g[n - 1] \in V /\ step[n][g[n - 1]] \in V
    BY <2>1
  <2>3. h \in [0 .. n -> V] /\ h[0] = base
    BY <2>1, <2>2
  <2>4. ASSUME NEW i \in 1 .. n PROVE h[i] = step[i][h[i - 1]]
    <3>1. h[i - 1] = g[i - 1]
      BY <2>1
    <3>2. CASE i = n
      BY <3>1, <3>2
    <3>3. CASE i # n
      <4>1. i \in 1 .. n - 1 /\ h[i] = g[i]
        BY <3>3
      <4> QED
        BY <2>1, <3>1, <4>1
    <3> QED
      BY <3>2, <3>3
  <2> HIDE DEF h
  <2>5. h \in Upto(n)
    BY <2>3, <2>4
  <2> QED
    BY <2>5
<1>3. N \in S
  <2> HIDE DEF S
  <2>1. 0 .. N \subseteq S
    BY <1>1, <1>2, Induction
  <2> QED
    BY <2>1
<1>4. PICK f \in [0 .. N -> V] : f[0] = base /\ \A i \in 1 .. N : f[i] = step[i][f[i - 1]]
  BY <1>3
<1>5. f = [n \in 0 .. N |-> IF n = 0 THEN base ELSE step[n][f[n - 1]]]
  BY <1>4
<1> QED
  BY <1>5 DEF Iterates

-----------------------------------------------------------------------------
(* Among: a part of a list, in its order.                                   *)

LEMMA AmongRecursion ==
    ASSUME NEW V, NEW list \in Seq(V), NEW s
    PROVE  \E f : /\ Among(list, s) = f[Len(list)]
                  /\ f[0] = <<>>
                  /\ \A n \in 1 .. Len(list) :
                       f[n] = IF list[n] \in s THEN Append(f[n - 1], list[n]) ELSE f[n - 1]
<1> DEFINE N == Len(list)
           Eq(f) == f = [n \in 0 .. N |-> IF n = 0 THEN <<>>
                            ELSE IF list[n] \in s THEN Append(f[n - 1], list[n]) ELSE f[n - 1]]
           step == [n \in 1 .. N |-> [q \in Seq(V) |->
                      IF list[n] \in s THEN Append(q, list[n]) ELSE q]]
<1>1. N \in Nat /\ <<>> \in Seq(V) /\ \A n \in 1 .. N : list[n] \in V
  OBVIOUS
<1>2. step \in [1 .. N -> [Seq(V) -> Seq(V)]]
  BY <1>1, AppendProperties
<1>3. PICK g \in [0 .. N -> Seq(V)] : Iterates(g, N, <<>>, step)
  <2> HIDE DEF N, step
  <2> QED
    BY <1>1, <1>2, IterationExists
<1>4. Eq(g)
  <2>1. \A n \in 0 .. N : n # 0 => n \in 1 .. N /\ g[n - 1] \in Seq(V)
    BY <1>1
  <2>2. ASSUME NEW n \in 1 .. N, g[n - 1] \in Seq(V)
        PROVE  step[n][g[n - 1]] = IF list[n] \in s THEN Append(g[n - 1], list[n]) ELSE g[n - 1]
    BY <2>2
  <2>3. g = [n \in 0 .. N |-> IF n = 0 THEN <<>> ELSE step[n][g[n - 1]]]
    BY <1>3 DEF Iterates
  <2> HIDE DEF N, step
  <2> QED
    BY <2>1, <2>2, <2>3
<1>5. Eq(CHOOSE h : Eq(h))
  <2> HIDE DEF Eq
  <2> QED
    BY <1>4
<1>6. Among(list, s) = (CHOOSE h : Eq(h))[N]
  BY DEF Among
<1>7. PICK f : Eq(f) /\ Among(list, s) = f[N]
  BY <1>5, <1>6
<1> HIDE DEF N
<1>8. f[0] = <<>>
  BY <1>1, <1>7
<1>9. ASSUME NEW n \in 1 .. N
      PROVE  f[n] = IF list[n] \in s THEN Append(f[n - 1], list[n]) ELSE f[n - 1]
  <2>1. n \in 0 .. N /\ n # 0
    BY <1>1
  <2> QED
    BY <1>7, <2>1, Zenon
<1> USE DEF N
<1> QED
  BY <1>7, <1>8, <1>9

(* The elements of the lists that are made.                                 *)
LEMMA SeqFacts ==
    ASSUME NEW V, NEW q \in Seq(V)
    PROVE  /\ Len(q) \in Nat /\ DOMAIN q = 1 .. Len(q) /\ ToSet(q) \subseteq V
           /\ ToSet(q) = {q[i] : i \in 1 .. Len(q)}
           /\ q = <<>> <=> Len(q) = 0
  BY DEF ToSet

LEMMA AppendFacts ==
    ASSUME NEW V, NEW q \in Seq(V), NEW x \in V
    PROVE  /\ Append(q, x) \in Seq(V)
           /\ ToSet(Append(q, x)) = ToSet(q) \union {x}
           /\ IsInjective(q) /\ x \notin ToSet(q) => IsInjective(Append(q, x))
<1> DEFINE r == Append(q, x)
           N == Len(q)
<1>1. /\ r \in Seq(V) /\ Len(r) = N + 1 /\ r[N + 1] = x /\ N \in Nat
      /\ \A i \in 1 .. N : r[i] = q[i]
      /\ DOMAIN q = 1 .. N /\ DOMAIN r = 1 .. N + 1
  BY AppendProperties
<1> HIDE DEF r, N
<1>2. ToSet(r) = ToSet(q) \union {x}
  <2>1. \A i \in 1 .. N + 1 : i \in 1 .. N \/ i = N + 1
    BY <1>1
  <2>2. N + 1 \in 1 .. N + 1 /\ 1 .. N \subseteq 1 .. N + 1
    BY <1>1
  <2> QED
    BY <1>1, <2>1, <2>2 DEF ToSet
<1>3. ASSUME IsInjective(q), x \notin ToSet(q) PROVE IsInjective(r)
  <2>1. SUFFICES ASSUME NEW i \in 1 .. N + 1, NEW j \in 1 .. N + 1, r[i] = r[j] PROVE i = j
    BY <1>1 DEF IsInjective
  <2>2. \A k \in 1 .. N + 1 : k \in 1 .. N \/ k = N + 1
    BY <1>1
  <2>3. \A k \in 1 .. N : r[k] # x
    BY <1>1, <1>3 DEF ToSet
  <2> QED
    BY <1>1, <1>3, <2>1, <2>2, <2>3 DEF IsInjective
<1> QED
  BY <1>1, <1>2, <1>3 DEF r

LEMMA ConcatFacts ==
    ASSUME NEW V, NEW q \in Seq(V), NEW t \in Seq(V)
    PROVE  /\ q \o t \in Seq(V) /\ Len(q \o t) = Len(q) + Len(t)
           /\ \A i \in 1 .. Len(q) : (q \o t)[i] = q[i]
           /\ ToSet(q \o t) = ToSet(q) \union ToSet(t)
           /\ IsInjective(q) /\ IsInjective(t) /\ ToSet(q) \intersect ToSet(t) = {}
                => IsInjective(q \o t)
<1> DEFINE r == q \o t
           N == Len(q)
           M == Len(t)
<1>1. /\ r \in Seq(V) /\ Len(r) = N + M /\ N \in Nat /\ M \in Nat
      /\ \A i \in 1 .. N + M : r[i] = IF i <= N THEN q[i] ELSE t[i - N]
      /\ DOMAIN q = 1 .. N /\ DOMAIN t = 1 .. M /\ DOMAIN r = 1 .. N + M
  BY ConcatProperties, LenProperties
<1> HIDE DEF r, N, M
<1>2. \A i \in 1 .. N : i \in 1 .. N + M /\ r[i] = q[i]
  BY <1>1
<1>3. \A i \in 1 .. M : N + i \in 1 .. N + M /\ r[N + i] = t[i]
  BY <1>1
<1>4. \A i \in 1 .. N + M : i \in 1 .. N \/ (i - N \in 1 .. M /\ r[i] = t[i - N])
  BY <1>1
<1>5. ToSet(r) = ToSet(q) \union ToSet(t)
  <2>1. /\ ToSet(r) = {r[i] : i \in 1 .. N + M} /\ ToSet(q) = {q[i] : i \in 1 .. N}
        /\ ToSet(t) = {t[i] : i \in 1 .. M}
    BY <1>1 DEF ToSet
  <2>2. ToSet(q) \subseteq ToSet(r) /\ ToSet(t) \subseteq ToSet(r)
    BY <1>2, <1>3, <2>1
  <2>3. ToSet(r) \subseteq ToSet(q) \union ToSet(t)
    BY <1>2, <1>4, <2>1
  <2> QED
    BY <2>2, <2>3
<1>6. ASSUME IsInjective(q), IsInjective(t), ToSet(q) \intersect ToSet(t) = {}
      PROVE  IsInjective(r)
  <2>1. SUFFICES ASSUME NEW i \in 1 .. N + M, NEW j \in 1 .. N + M, r[i] = r[j] PROVE i = j
    BY <1>1 DEF IsInjective
  <2>2. CASE i \in 1 .. N /\ j \in 1 .. N
    BY <1>1, <1>2, <1>6, <2>1, <2>2 DEF IsInjective
  <2>3. CASE i \notin 1 .. N /\ j \notin 1 .. N
    <3>1. i - N \in 1 .. M /\ j - N \in 1 .. M /\ t[i - N] = t[j - N]
      BY <1>4, <2>1, <2>3
    <3>2. i - N = j - N
      BY <1>1, <1>6, <3>1, Zenon DEF IsInjective
    <3> QED
      BY <1>1, <3>2
  <2>4. \A k \in 1 .. N, l \in (1 .. N + M) \ (1 .. N) : r[k] # r[l]
    BY <1>1, <1>2, <1>4, <1>6 DEF ToSet
  <2> QED
    BY <2>1, <2>2, <2>3, <2>4
<1> QED
  BY <1>1, <1>2, <1>5, <1>6 DEF r, N, M

LEMMA AmongFacts ==
    ASSUME NEW V, NEW list \in Seq(V), NEW s
    PROVE  /\ Among(list, s) \in Seq(V)
           /\ ToSet(Among(list, s)) = ToSet(list) \intersect s
           /\ IsInjective(list) => IsInjective(Among(list, s))
<1> DEFINE N == Len(list)
           First(n) == {list[i] : i \in 1 .. n}
<1>1. PICK f : /\ Among(list, s) = f[N]
               /\ f[0] = <<>>
               /\ \A n \in 1 .. N :
                    f[n] = IF list[n] \in s THEN Append(f[n - 1], list[n]) ELSE f[n - 1]
  BY AmongRecursion
<1>2. N \in Nat /\ DOMAIN list = 1 .. N /\ ToSet(list) = First(N) /\ \A i \in 1 .. N : list[i] \in V
  BY SeqFacts
<1> DEFINE P == {n \in 0 .. N : /\ f[n] \in Seq(V)
                                /\ ToSet(f[n]) = First(n) \intersect s
                                /\ IsInjective(list) => IsInjective(f[n])}
<1> HIDE DEF N
<1>3. 0 \in P
  <2>1. First(0) = {} /\ ToSet(<<>>) = {} /\ IsInjective(<<>>) /\ <<>> \in Seq(V) /\ 0 \in 0 .. N
    BY <1>2 DEF ToSet, IsInjective
  <2> HIDE DEF First
  <2> QED
    BY <1>1, <2>1
<1>4. ASSUME NEW n \in 1 .. N, n - 1 \in P PROVE n \in P
  <2>1. /\ list[n] \in V /\ n \in 0 .. N
        /\ f[n - 1] \in Seq(V) /\ ToSet(f[n - 1]) = First(n - 1) \intersect s
        /\ IsInjective(list) => IsInjective(f[n - 1])
    BY <1>2, <1>4
  <2>2. First(n) = First(n - 1) \union {list[n]}
    <3>1. \A i \in 1 .. n : i \in 1 .. n - 1 \/ i = n
      BY <1>2
    <3>2. n \in 1 .. n /\ 1 .. n - 1 \subseteq 1 .. n
      BY <1>2
    <3> QED
      BY <3>1, <3>2
  <2>3. IsInjective(list) => list[n] \notin First(n - 1)
    BY <1>2 DEF IsInjective
  <2>4. CASE list[n] \in s
    <3>1. f[n] = Append(f[n - 1], list[n])
      BY <1>1, <2>4
    <3> HIDE DEF First
    <3>2. /\ f[n] \in Seq(V) /\ ToSet(f[n]) = ToSet(f[n - 1]) \union {list[n]}
          /\ IsInjective(f[n - 1]) /\ list[n] \notin ToSet(f[n - 1]) => IsInjective(f[n])
      BY <2>1, <3>1, AppendFacts
    <3>3. ToSet(f[n]) = First(n) \intersect s
      BY <2>1, <2>2, <2>4, <3>2
    <3> QED
      BY <2>1, <2>3, <3>2, <3>3
  <2>5. CASE list[n] \notin s
    <3>1. f[n] = f[n - 1]
      BY <1>1, <2>5
    <3> HIDE DEF First
    <3> QED
      BY <2>1, <2>2, <2>5, <3>1
  <2> QED
    BY <2>4, <2>5
<1>5. N \in P
  <2> HIDE DEF P
  <2>1. 0 .. N \subseteq P
    BY <1>2, <1>3, <1>4, Induction
  <2> QED
    BY <1>2, <2>1
<1> QED
  BY <1>1, <1>2, <1>5

-----------------------------------------------------------------------------
(* topologicalSort.                                                         *)

Freed(d, q, n) == {u \in Ids : q[n] \in d[u] /\ d[u] \subseteq {q[i] : i \in 1 .. n}}

LEMMA KahnRecursion ==
    ASSUME NEW list \in Seq(Ids), NEW d, NEW queue \in Seq(Ids)
    PROVE  \E f : /\ Kahn(list, d, queue) = f[Len(list)]
                  /\ f[0] = queue
                  /\ \A n \in 1 .. Len(list) :
                       f[n - 1] \in Seq(Ids) =>
                         f[n] = IF n <= Len(f[n - 1])
                                   THEN f[n - 1] \o Among(list, Freed(d, f[n - 1], n))
                                   ELSE f[n - 1]
<1> DEFINE N == Len(list)
           pop == [n \in 1 .. N |-> [q \in Seq(Ids) |->
                     IF n <= Len(q) THEN q \o Among(list, Freed(d, q, n)) ELSE q]]
           Eq(f) == f = [n \in 0 .. N |-> IF n = 0 THEN queue ELSE pop[n][f[n - 1]]]
<1>1. N \in Nat
  OBVIOUS
<1>2. pop \in [1 .. N -> [Seq(Ids) -> Seq(Ids)]]
  BY AmongFacts, ConcatFacts
<1>3. \E f : Eq(f)
  <2> HIDE DEF N, pop
  <2>1. PICK f \in [0 .. N -> Seq(Ids)] : Iterates(f, N, queue, pop)
    BY <1>1, <1>2, IterationExists
  <2>2. Eq(f)
    BY <2>1 DEF Iterates
  <2> QED
    BY <2>2
<1>4. Eq(CHOOSE f : Eq(f))
  <2> HIDE DEF Eq
  <2> QED
    BY <1>3
<1>5. Kahn(list, d, queue) = (CHOOSE f : Eq(f))[N]
  BY DEF Kahn, Freed
<1>6. PICK f : Eq(f) /\ Kahn(list, d, queue) = f[N]
  BY <1>4, <1>5
<1>7. ASSUME NEW n \in 1 .. N, f[n - 1] \in Seq(Ids)
      PROVE  f[n] = IF n <= Len(f[n - 1]) THEN f[n - 1] \o Among(list, Freed(d, f[n - 1], n))
                                          ELSE f[n - 1]
  <2>1. n \in 0 .. N /\ n # 0
    BY <1>1
  <2>2. f[n] = pop[n][f[n - 1]]
    <3> HIDE DEF N, pop
    <3> QED
      BY <1>6, <2>1
  <2> QED
    BY <1>7, <2>2
<1>8. f[0] = queue
  <2> HIDE DEF N, pop
  <2> QED
    BY <1>1, <1>6
<1> QED
  BY <1>6, <1>7, <1>8

(* Every subtask comes after all it depends on.                             *)
Upto(q, n) == {q[j] : j \in 1 .. n}
Sorted(d, q)  == \A i \in DOMAIN q : d[q[i]] \subseteq Upto(q, i - 1)

(* After n pops what is in the queue depended on those only.                *)
After(d, q, n) == \A i \in DOMAIN q : d[q[i]] \subseteq Upto(q, n)

(* After n pops all that depended on what they popped only is in the queue. *)
Popped(q, n) == {q[j] : j \in (1 .. n) \intersect DOMAIN q}
Exhausted(list, d, q, n) == \A u \in ToSet(list) : d[u] \subseteq Popped(q, n) => u \in ToSet(q)

LEMMA UptoFacts ==
    ASSUME NEW q, NEW m \in Nat, NEW n \in Nat, m <= n
    PROVE  Upto(q, m) \subseteq Upto(q, n)
  BY DEF Upto

LEMMA PopSorts ==
    ASSUME NEW d, NEW list \in Seq(Ids), NEW q \in Seq(Ids), NEW new \in Seq(Ids),
           NEW n \in Nat \ {0}, n <= Len(q),
           IsInjective(q), IsInjective(new), ToSet(q) \subseteq ToSet(list),
           ToSet(new) = ToSet(list) \intersect Freed(d, q, n),
           Sorted(d, q), After(d, q, n - 1)
    PROVE  /\ q \o new \in Seq(Ids) /\ ToSet(q \o new) \subseteq ToSet(list)
           /\ IsInjective(q \o new) /\ Sorted(d, q \o new) /\ After(d, q \o new, n)
<1>1. /\ Len(q) \in Nat /\ DOMAIN q = 1 .. Len(q) /\ ToSet(q) = Upto(q, Len(q))
      /\ Len(new) \in Nat /\ DOMAIN new = 1 .. Len(new) /\ ToSet(new) = Upto(new, Len(new))
      /\ n - 1 \in Nat
  BY SeqFacts DEF Upto
<1>2. ToSet(q) \intersect ToSet(new) = {}
  <2> SUFFICES ASSUME NEW i \in 1 .. Len(q), q[i] \in Freed(d, q, n) PROVE FALSE
    BY <1>1 DEF Upto
  <2>1. q[n] \in Upto(q, n - 1)
    BY <1>1 DEF Freed, After
  <2>2. PICK j \in 1 .. n - 1 : q[j] = q[n]
    BY <2>1 DEF Upto
  <2>3. n \in DOMAIN q /\ j \in DOMAIN q /\ j # n
    BY <1>1
  <2> QED
    BY <2>2, <2>3 DEF IsInjective
<1>3. PICK r : r = q \o new
  OBVIOUS
<1>4. /\ r \in Seq(Ids) /\ Len(r) = Len(q) + Len(new) /\ ToSet(r) \subseteq ToSet(list)
      /\ IsInjective(r) /\ \A i \in 1 .. Len(q) : r[i] = q[i]
  BY <1>2, <1>3, ConcatFacts
<1>5. DOMAIN r = 1 .. Len(q) + Len(new)
  BY <1>4, SeqFacts
<1>6. \A i \in Nat : i <= Len(q) => Upto(r, i) = Upto(q, i)
  <2> SUFFICES ASSUME NEW i \in Nat, i <= Len(q) PROVE Upto(r, i) = Upto(q, i)
    OBVIOUS
  <2>1. \A j \in 1 .. i : r[j] = q[j]
    BY <1>1, <1>4
  <2> QED
    BY <2>1 DEF Upto
<1>7. ASSUME NEW i \in DOMAIN r
      PROVE  d[r[i]] \subseteq Upto(r, i - 1) /\ d[r[i]] \subseteq Upto(r, n)
  <2>1. CASE i \in 1 .. Len(q)
    <3>1. i - 1 \in Nat /\ i - 1 <= Len(q) /\ r[i] = q[i] /\ i \in DOMAIN q
      BY <1>1, <1>4, <2>1
    <3>2. d[q[i]] \subseteq Upto(q, i - 1) /\ d[q[i]] \subseteq Upto(q, n - 1)
      BY <3>1 DEF Sorted, After
    <3>3. Upto(q, n - 1) \subseteq Upto(q, n)
      BY <1>1, UptoFacts
    <3> QED
      BY <1>6, <3>1, <3>2, <3>3
  <2>2. CASE i \notin 1 .. Len(q)
    <3>1. i - Len(q) \in 1 .. Len(new) /\ i \in 1 .. Len(q) + Len(new) /\ ~(i <= Len(q))
      BY <1>1, <1>5, <2>2
    <3>2. r[i] = new[i - Len(q)]
      BY <1>3, <3>1, ConcatProperties
    <3>3. r[i] \in Freed(d, q, n)
      BY <1>1, <3>1, <3>2 DEF Upto
    <3>4. d[r[i]] \subseteq Upto(q, n)
      BY <3>3 DEF Freed, Upto
    <3>5. i - 1 \in Nat /\ n <= i - 1
      BY <1>1, <3>1
    <3>6. Upto(r, n) \subseteq Upto(r, i - 1)
      BY <3>5, UptoFacts
    <3> QED
      BY <1>6, <3>4, <3>6
  <2> QED
    BY <2>1, <2>2
<1> QED
  BY <1>3, <1>4, <1>7 DEF Sorted, After

LEMMA PopExhausts ==
    ASSUME NEW d, NEW list \in Seq(Ids), NEW q \in Seq(Ids), NEW new \in Seq(Ids),
           NEW n \in Nat \ {0}, n <= Len(q),
           ToSet(new) = ToSet(list) \intersect Freed(d, q, n), Exhausted(list, d, q, n - 1)
    PROVE  Exhausted(list, d, q \o new, n)
<1>1. /\ Len(q) \in Nat /\ DOMAIN q = 1 .. Len(q) /\ Len(new) \in Nat /\ n - 1 \in Nat
      /\ ToSet(list) \subseteq Ids
  BY SeqFacts
<1>2. PICK r : r = q \o new
  OBVIOUS
<1>3. /\ r \in Seq(Ids) /\ Len(r) = Len(q) + Len(new) /\ ToSet(r) = ToSet(q) \union ToSet(new)
      /\ \A i \in 1 .. Len(q) : r[i] = q[i]
  BY <1>2, ConcatFacts
<1>4. DOMAIN r = 1 .. Len(q) + Len(new)
  BY <1>3, SeqFacts
<1>5. Popped(r, n) = Upto(q, n)
  <2>1. (1 .. n) \intersect DOMAIN r = 1 .. n /\ \A j \in 1 .. n : r[j] = q[j]
    BY <1>1, <1>3, <1>4
  <2> QED
    BY <2>1 DEF Popped, Upto
<1>6. Popped(q, n - 1) = Upto(q, n - 1)
  <2>1. (1 .. n - 1) \intersect DOMAIN q = 1 .. n - 1
    BY <1>1
  <2> QED
    BY <2>1 DEF Popped, Upto
<1>7. Upto(q, n) = Upto(q, n - 1) \union {q[n]}
  <2>1. 1 .. n = (1 .. n - 1) \union {n}
    BY <1>1
  <2> QED
    BY <2>1 DEF Upto
<1>8. ASSUME NEW u \in ToSet(list), d[u] \subseteq Upto(q, n) PROVE u \in ToSet(r)
  <2>1. CASE q[n] \in d[u]
    BY <1>1, <1>3, <1>8, <2>1 DEF Freed, Upto
  <2>2. CASE q[n] \notin d[u]
    <3>1. d[u] \subseteq Upto(q, n - 1)
      BY <1>7, <1>8, <2>2
    <3> QED
      BY <1>3, <1>6, <3>1 DEF Exhausted
  <2> QED
    BY <2>1, <2>2
<1> QED
  BY <1>2, <1>5, <1>8 DEF Exhausted

LEMMA KahnSorts ==
    ASSUME NEW list \in Seq(Ids), NEW d, NEW queue \in Seq(Ids), IsInjective(list),
           IsInjective(queue), ToSet(queue) = Sources(list, d)
    PROVE  /\ Kahn(list, d, queue) \in Seq(Ids) /\ ToSet(Kahn(list, d, queue)) \subseteq ToSet(list)
           /\ IsInjective(Kahn(list, d, queue)) /\ Sorted(d, Kahn(list, d, queue))
           /\ Exhausted(list, d, Kahn(list, d, queue), Len(list))
<1> DEFINE N == Len(list)
<1>1. PICK f : /\ Kahn(list, d, queue) = f[N]
               /\ f[0] = queue
               /\ \A n \in 1 .. N :
                       f[n - 1] \in Seq(Ids) =>
                         f[n] = IF n <= Len(f[n - 1])
                                   THEN f[n - 1] \o Among(list, Freed(d, f[n - 1], n))
                                   ELSE f[n - 1]
  BY KahnRecursion
<1> DEFINE Good(q, n) == /\ q \in Seq(Ids) /\ ToSet(q) \subseteq ToSet(list)
                         /\ IsInjective(q) /\ Sorted(d, q) /\ After(d, q, n)
                         /\ Exhausted(list, d, q, n)
           P == {n \in 0 .. N : Good(f[n], n)}
<1>2. N \in Nat
  OBVIOUS
<1> HIDE DEF N
<1>3. 0 \in P
  <2>1. \A i \in DOMAIN queue : d[queue[i]] = {}
    BY DEF Sources, ToSet
  <2>2. ToSet(queue) \subseteq ToSet(list)
    BY DEF Sources
  <2>3. Sorted(d, queue) /\ After(d, queue, 0)
    BY <2>1 DEF Sorted, After
  <2>4. Exhausted(list, d, queue, 0)
    BY DEF Exhausted, Popped, Sources
  <2>5. Good(queue, 0)
    BY <2>2, <2>3, <2>4
  <2> QED
    BY <1>1, <1>2, <2>5
<1>4. ASSUME NEW n \in 1 .. N, n - 1 \in P PROVE n \in P
  <2>1. PICK q : q = f[n - 1]
    OBVIOUS
  <2>2. Good(q, n - 1) /\ n \in 0 .. N /\ n \in Nat \ {0} /\ n - 1 \in Nat
    BY <1>2, <1>4, <2>1
  <2>3. CASE n <= Len(q)
    <3>1. PICK new : new = Among(list, Freed(d, q, n))
      OBVIOUS
    <3>2. f[n] = q \o new
      BY <1>1, <2>1, <2>2, <2>3, <3>1
    <3>3. /\ new \in Seq(Ids) /\ ToSet(new) = ToSet(list) \intersect Freed(d, q, n)
          /\ IsInjective(new)
      BY <3>1, AmongFacts
    <3>4. Good(q \o new, n)
      BY <2>2, <2>3, <3>3, PopSorts, PopExhausts
    <3> HIDE DEF Good
    <3> QED
      BY <2>2, <3>2, <3>4
  <2>4. CASE ~(n <= Len(q))
    <3>1. f[n] = q
      BY <1>1, <2>1, <2>2, <2>4
    <3>2. Upto(q, n - 1) \subseteq Upto(q, n)
      BY <2>2, UptoFacts
    <3>3. After(d, q, n)
      BY <2>2, <3>2 DEF After
    <3>4. (1 .. n) \intersect DOMAIN q = (1 .. n - 1) \intersect DOMAIN q
      BY <2>2, <2>4, SeqFacts
    <3>5. Exhausted(list, d, q, n)
      BY <2>2, <3>4 DEF Exhausted, Popped
    <3>6. Good(q, n)
      BY <2>2, <3>3, <3>5
    <3> HIDE DEF Good
    <3> QED
      BY <2>2, <3>1, <3>6
  <2> QED
    BY <2>3, <2>4
<1>5. N \in P
  <2> HIDE DEF P
  <2>1. 0 .. N \subseteq P
    BY <1>2, <1>3, <1>4, Induction
  <2> QED
    BY <1>2, <2>1
<1> QED
  BY <1>1, <1>5 DEF N

LEMMA CardinalityOfList ==
    ASSUME NEW q \in Seq(Ids), IsInjective(q)
    PROVE  IsFiniteSet(ToSet(q)) /\ Cardinality(ToSet(q)) = Len(q)
<1>1. Len(q) \in Nat /\ q \in [1 .. Len(q) -> ToSet(q)] /\ ToSet(q) = {q[i] : i \in 1 .. Len(q)}
  <2>1. q = [i \in 1 .. Len(q) |-> q[i]]
    OBVIOUS
  <2> QED
    BY <2>1, SeqFacts
<1>2. q \in Bijection(1 .. Len(q), ToSet(q))
  BY <1>1 DEF Bijection, Injection, Surjection
<1>3. IsFiniteSet(1 .. Len(q)) /\ Cardinality(1 .. Len(q)) = Len(q)
  <2>1. PICK n \in Nat : n = Len(q)
    BY <1>1
  <2>2. IsFiniteSet(1 .. n) /\ Cardinality(1 .. n) = IF 1 > n THEN 0 ELSE n - 1 + 1
    BY FS_Interval
  <2> QED
    BY <2>1, <2>2
<1> QED
  BY <1>2, <1>3, FS_Bijection DEF ExistsBijection

LEMMA SourceOrders ==
    ASSUME NEW list \in Seq(Ids), NEW d
    PROVE  /\ SetToSeq(Sources(list, d)) \in SetToSeqs(Sources(list, d))
           /\ \A q \in SetToSeqs(Sources(list, d)) :
                 q \in Seq(Ids) /\ IsInjective(q) /\ ToSet(q) = Sources(list, d)
<1> DEFINE S == Sources(list, d)
           C == Cardinality(S)
<1>1. IsFiniteSet(S) /\ S \subseteq Ids
  <2>1. IsFiniteSet(Ids)
    BY ResearchAssumption, FS_AddElement DEF Ids
  <2>2. S \subseteq Ids
    BY SeqFacts DEF Sources
  <2> QED
    BY <2>1, <2>2, FS_Subset
<1> HIDE DEF S
<1>2. C \in Nat /\ ExistsBijection(1 .. C, S)
  BY <1>1, FS_CardinalityType
<1>3. IsFiniteSet(1 .. C) /\ Cardinality(1 .. C) = C
  BY <1>2, FS_Interval
<1> HIDE DEF C
<1>4. \A f \in [1 .. C -> S] : IsInjective(f) <=> \A i, j \in 1 .. C : i # j => f[i] # f[j]
  BY DEF IsInjective
<1>5. SetToSeqs(S) = {f \in [1 .. C -> S] : IsInjective(f)}
  BY <1>4 DEF SetToSeqs, C
<1>6. \E f \in [1 .. C -> S] : IsInjective(f)
  BY <1>2 DEF ExistsBijection, Bijection, Injection
<1>7. SetToSeq(S) \in SetToSeqs(S)
  BY <1>5, <1>6 DEF SetToSeq, C
<1>8. ASSUME NEW q \in SetToSeqs(S)
      PROVE  q \in Seq(Ids) /\ IsInjective(q) /\ ToSet(q) = S
  <2>1. q \in [1 .. C -> S] /\ q \in Injection(1 .. C, S)
    BY <1>5 DEF Injection
  <2>2. q \in Surjection(1 .. C, S)
    BY <1>1, <1>3, <2>1, FS_Injection DEF C
  <2>3. ToSet(q) = S
    BY <2>1, <2>2 DEF ToSet, Surjection
  <2>4. q \in Seq(Ids)
    BY <1>1, <1>2, <2>1
  <2> QED
    BY <1>5, <2>3, <2>4
<1> QED
  BY <1>7, <1>8 DEF S

(* A list with the same elements, each once.                                *)
Permutes(list, q) == q \in Seq(Ids) /\ IsInjective(q) /\ ToSet(q) = ToSet(list)

(* Whatever order there is leads to what a full pass over the queue finds.  *)
LEMMA KahnFinds ==
    ASSUME NEW list \in Seq(Ids), NEW d, IsInjective(list),
           NEW queue \in SetToSeqs(Sources(list, d))
    PROVE  LET q == Kahn(list, d, queue)
           IN  /\ q \in Seq(Ids) /\ Sorted(d, q) /\ (Len(q) = Len(list) => Permutes(list, q))
               /\ \A o \in Seq(Ids) :
                     Permutes(list, o) /\ Sorted(d, o) => Permutes(list, q) /\ Len(q) = Len(list)
<1>1. PICK q : q = Kahn(list, d, queue)
  OBVIOUS
<1>2. /\ q \in Seq(Ids) /\ ToSet(q) \subseteq ToSet(list) /\ IsInjective(q) /\ Sorted(d, q)
      /\ Exhausted(list, d, q, Len(list))
  BY <1>1, SourceOrders, KahnSorts
<1>3. /\ IsFiniteSet(ToSet(list)) /\ Cardinality(ToSet(list)) = Len(list)
      /\ IsFiniteSet(ToSet(q)) /\ Cardinality(ToSet(q)) = Len(q)
      /\ Len(q) \in Nat /\ Len(list) \in Nat /\ DOMAIN q = 1 .. Len(q)
  BY <1>2, CardinalityOfList
<1>4. Len(q) <= Len(list) /\ (Len(q) = Len(list) => ToSet(q) = ToSet(list))
  BY <1>2, <1>3, FS_Subset
<1>5. Popped(q, Len(list)) = ToSet(q)
  <2>1. (1 .. Len(list)) \intersect DOMAIN q = DOMAIN q
    BY <1>3, <1>4
  <2> QED
    BY <2>1 DEF Popped, ToSet
<1>6. ASSUME NEW o \in Seq(Ids), Permutes(list, o), Sorted(d, o) PROVE ToSet(q) = ToSet(list)
  <2> DEFINE Missing == {i \in 1 .. Len(o) : o[i] \notin ToSet(q)}
  <2>1. Len(o) \in Nat /\ DOMAIN o = 1 .. Len(o) /\ ToSet(list) = {o[i] : i \in 1 .. Len(o)}
    BY <1>6, SeqFacts DEF Permutes
  <2>2. ASSUME Missing # {} PROVE FALSE
    <3>1. Missing \in SUBSET Nat
      BY <2>1
    <3>2. PICK i \in Missing : \A m \in Missing : i <= m
      <4> HIDE DEF Missing
      <4> QED
        BY <2>2, <3>1, LeastElement
    <3>3. i \in 1 .. Len(o) /\ o[i] \notin ToSet(q) /\ o[i] \in ToSet(list)
      BY <2>1, <3>2
    <3>4. \A j \in 1 .. i - 1 : o[j] \in ToSet(q)
      <4>1. \A j \in 1 .. i - 1 : j \in 1 .. Len(o) /\ ~(i <= j)
        BY <2>1, <3>3
      <4> QED
        BY <3>2, <4>1
    <3>5. d[o[i]] \subseteq Upto(o, i - 1)
      BY <1>6, <2>1, <3>3 DEF Sorted
    <3>6. d[o[i]] \subseteq ToSet(q)
      BY <3>4, <3>5 DEF Upto
    <3> QED
      BY <1>2, <1>5, <3>3, <3>6 DEF Exhausted
  <2> QED
    BY <1>2, <2>1, <2>2
<1>7. ToSet(q) = ToSet(list) => Permutes(list, q) /\ Len(q) = Len(list)
  BY <1>2, <1>3 DEF Permutes
<1> QED
  BY <1>1, <1>2, <1>4, <1>6, <1>7

(* topologicalSort returns the subtasks of its list, each once.  If they    *)
(* can be ordered so that each comes after all it depends on, it returns    *)
(* such an order, in whatever order Go's map gives those that depend on     *)
(* nothing; if they cannot, or one depends on a subtask that the list has   *)
(* not, it returns the list as it is.                                       *)
THEOREM TopologicalOrder ==
    ASSUME NEW list \in Seq(Ids), NEW d, IsInjective(list), NEW seq \in TopologicalSort(list, d)
    PROVE  /\ Permutes(list, seq)
           /\ Sortable(list, d) <=> \E o \in Seq(Ids) : Permutes(list, o) /\ Sorted(d, o)
           /\ IF Sortable(list, d) THEN Sorted(d, seq) ELSE seq = list
<1> DEFINE Ordered == \E o \in Seq(Ids) : Permutes(list, o) /\ Sorted(d, o)
<1>1. Sortable(list, d) <=> Ordered
  <2>1. PICK q : q = Kahn(list, d, SetToSeq(Sources(list, d)))
    OBVIOUS
  <2>2. /\ q \in Seq(Ids) /\ Sorted(d, q) /\ (Len(q) = Len(list) => Permutes(list, q))
        /\ Ordered => Len(q) = Len(list)
    BY <2>1, SourceOrders, KahnFinds
  <2>3. Sortable(list, d) <=> Len(q) = Len(list)
    BY <2>1 DEF Sortable
  <2> QED
    BY <2>2, <2>3
<1>2. CASE Ordered
  <2>1. PICK queue \in SetToSeqs(Sources(list, d)) : seq = Kahn(list, d, queue)
    BY <1>1, <1>2 DEF TopologicalSort
  <2>2. Sorted(d, seq) /\ Permutes(list, seq)
    BY <1>2, <2>1, KahnFinds
  <2> QED
    BY <1>1, <1>2, <2>2
<1>3. CASE ~Ordered
  <2>1. seq = list
    BY <1>1, <1>3 DEF TopologicalSort
  <2>2. Permutes(list, list)
    BY DEF Permutes
  <2> QED
    BY <1>1, <1>3, <2>1, <2>2
<1> QED
  BY <1>2, <1>3

-----------------------------------------------------------------------------
(* The invariant.                                                           *)

Early     == {"refine", "decompose", "route"}
Running0  == {"running", "good", "bad"}
Unheard   == {"waiting", "queued", "expired"} \union Running0
Rounds    == {"iterate", "coverage", "subqueries", "spawn"}
Answered  == {"good", "counted"}
Finishing == {"reflect", "cite", "verify", "complete"}

(* TypeOK but for the bounds of the counts.                                 *)
PlanTypes ==
    /\ company \in BOOLEAN /\ plan \in Seq(Ids) /\ IsInjective(plan)
    /\ deps \in [Ids -> SUBSET Ids]
    /\ mode \in {None, "react"} \union Executor \union InOrder \union {"parallel"}
    /\ order \in Seq(Tasks) /\ completed \subseteq Ids /\ entries \subseteq Ids
    /\ given \in [Tasks -> SUBSET Ids]
    /\ analysis \in {"off", "running", "good", "failed"} /\ started \in BOOLEAN

WorkTypes ==
    /\ stage \in Stages /\ outcome \in {None, "success", "failed", "cancelled"}
    /\ pool \subseteq Agents /\ co \in [Agents -> CoStates]
    /\ round \in 1 .. MaxIterations
    /\ results \in [Agents -> Nat] /\ evidence \subseteq Agents
    /\ spent \subseteq Calls /\ total \in [Calls -> Nat]
    /\ filled \in BOOLEAN /\ basis \subseteq Agents /\ current \in BOOLEAN
    /\ cancelled \in BOOLEAN /\ faults \in 0 .. MaxFaults

Types == PlanTypes /\ WorkTypes

(* Where the workflow is there are only agents of that part of it, and the  *)
(* executor waits for those that are not heard of yet.                      *)
Place ==
    /\ stage \in Early =>
          /\ pool = {} /\ completed = {} /\ entries = {} /\ mode = None
          /\ \A a \in Agents : co[a] = "none"
    /\ stage \in {"execute", "await"} =>
          /\ ToSet(plan) \subseteq Tasks /\ pool \subseteq Tasks /\ mode # None
          /\ \A a \in Agents :
                /\ co[a] # "none" => a \in Tasks /\ (mode = "phase3" \/ a \in pool)
                /\ co[a] \in Unheard => a \in pool
                /\ mode = "react" => co[a] = "none"
          /\ mode \in InOrder =>
                /\ IsInjective(order) /\ ToSet(order) \subseteq pool
                /\ \A t \in ToSet(order) : co[t] = "none"
                /\ \A t \in pool : co[t] \in {"none", "counted", "void"} \union Running0
    /\ stage \in {"await", "localize"} =>
          \A a \in Agents : co[a] \notin {"running", "good"} /\ (co[a] # "none" => a \in Tasks)
    /\ stage = "languages" =>
          /\ pool \subseteq Languages
          /\ \A a \in Agents : co[a] # "none" => a \in pool
    /\ stage \in Gathered => \A a \in Agents : co[a] # "none" => a \in Gaps
    /\ stage \in {"filter", "synthesis", "legacy"} => \A a \in Agents : co[a] = "none"
    /\ stage \in Rounds => \A g \in Gaps : g[1] >= round => co[g] = "none"
    /\ stage = "gaps" => \A g \in Gaps : g[1] > round => co[g] = "none"
    /\ stage = "spawn" => pool \subseteq InRound(round)
    /\ stage \in {"gaps", "areas"} => pool \subseteq Gaps

(* The child workflow, and what of its result the third phase was given.    *)
Child ==
    /\ stage \in Early => analysis = "off"
    /\ stage \in {"execute", "await"} /\ analysis = "running" => started
    /\ stage = "execute" /\ mode = "phase3" => analysis \in {"good", "failed"}
    /\ stage = "execute" /\ Domain \in entries => mode = "phase3" /\ analysis = "good"
    /\ stage = "localize" => analysis # "running"
    /\ stage \in Gathered \union {"languages"} => analysis = "off"

(* Whose result has not been counted yet.                                   *)
Uncounted(a) ==
    \/ a \in Gaps /\ co[a] # "counted"
    \/ stage \in Early
    \/ stage = "execute" /\ mode \in InOrder /\ co[a] # "counted"
    \/ stage = "execute" /\ mode = "phase3" /\ (a \in pool \/ co[a] # "counted")
    \/ stage = "execute" /\ mode \notin InOrder \union {"phase3"}
    \/ stage = "await" /\ a = Domain
    \/ stage \in {"await", "localize"} /\ a \in Languages
    \/ stage = "languages" /\ a \in Languages /\ co[a] # "counted"
    \/ stage \in {"await", "localize", "languages", "filter"} /\ a = Searcher

Fresh == \A a \in Agents : Uncounted(a) => results[a] = 0 /\ total[a] = 0

(* What has been counted, was counted once, except that the results the     *)
(* third phase was given come again when it ends.                           *)
Once ==
    /\ \A a \in Agents : results[a] \in 0 .. 2 /\ (results[a] > 0 => total[a] = 1)
    /\ \A c \in Calls : total[c] = 0 \/ (total[c] = 1 /\ c \in spent)

Paid ==
    /\ Once
    /\ stage = "refine" => total[Refiner] = 0
    /\ stage = "execute" /\ mode = "phase3" =>
          \A a \in Agents \ pool : co[a] = "counted" => results[a] = 1

(* Who has answered: it was counted, or its coroutine or child holds the    *)
(* answer.                                                                  *)
Watched == Ids \union Languages \union {Solo}

Spendings ==
    /\ Digest \subseteq spent /\ \A a \in Agents : co[a] \in Answered => a \in spent
    /\ stage \in Early => spent \intersect Watched = {}
    /\ stage = "execute" =>
          \A a \in spent \intersect Watched :
             \/ a \in Tasks /\ co[a] \in Answered
             \/ a \in Digest
    /\ stage = "execute" /\ mode \in InOrder =>
          \A a \in Agents : co[a] = "counted" => results[a] > 0
    /\ stage = "execute" /\ mode = "phase3" =>
          \A a \in pool : co[a] = "counted" => a \in entries
    /\ stage \in {"await", "localize", "languages"} =>
          \A a \in spent \intersect Watched :
             \/ results[a] > 0
             \/ stage = "await" /\ a \in Digest
             \/ stage = "languages" /\ a \in pool /\ co[a] = "good"
    /\ stage \in Gathered => spent \intersect Watched \subseteq evidence

(* The report and what is kept.                                             *)
Report ==
    /\ stage \in Stages \ (Finishing \union {"done"}) => current
    /\ stage \in Rounds \union {"gaps", "resynthesis"} => filled \/ Kept \subseteq basis
    /\ stage \in {"legacy", "areas"} => Kept \subseteq basis
    /\ stage \in Finishing /\ current => Kept \subseteq basis
    /\ stage # "done" => outcome # "success"
    /\ FinalEvidence

(* Who may still get a result: no agent that has started depends on it.     *)
Pending ==
    {t \in pool : co[t] \in Unheard} \union
      (IF mode = "phase1" THEN Dependents \union {Domain} ELSE {})
Begun == {t \in Tasks : co[t] \in {"queued", "counted"} \union Running0}

Dependencies ==
    /\ stage = "execute" /\ mode \in Executor =>
          /\ entries \subseteq completed /\ completed \intersect Pending = {}
          /\ mode = "phase1" => pool \intersect Dependents = {}
          /\ \A t \in Begun : deps[t] \intersect Pending = {}
    /\ stage = "execute" /\ mode = "reactSeq" /\ Sortable(plan, deps) =>
          /\ \A i, j \in DOMAIN order : i <= j => order[j] \notin deps[order[i]]
          /\ \A t \in Begun : deps[t] \intersect (ToSet(order) \union Pending) = {}
    /\ GivenResults

IInv == Types /\ Place /\ Child /\ Fresh /\ Paid /\ Spendings /\ Report /\ Dependencies

(* What the constants are.                                                  *)
LEMMA IdFacts ==
    /\ Tasks \subseteq Ids /\ Domain \in Ids /\ Domain \notin Tasks
    /\ Ids \subseteq Agents /\ Languages \subseteq Agents /\ Gaps \subseteq Agents
    /\ Solo \in Agents /\ Searcher \in Agents /\ Solo # Searcher
    /\ Agents \subseteq Calls /\ Refiner \in Calls /\ Decomposer \in Calls
    /\ Refiner \notin Agents /\ Decomposer \notin Agents
    /\ Ids \intersect Languages = {} /\ Gaps \intersect Ids = {} /\ Gaps \intersect Languages = {}
    /\ Solo \notin Ids \union Languages \union Gaps
    /\ Searcher \notin Ids \union Languages \union Gaps
  BY DistinctAssumption DEF Ids, Agents, Calls

LEMMA LimitFacts ==
    /\ MaxConcurrency \in Nat \ {0} /\ GapLimit \in Nat \ {0}
    /\ MaxIterations \in Nat \ {0} /\ MaxFaults \in Nat /\ MaxSubqueries \in Nat
  BY ResearchAssumption

LEMMA GapFacts ==
    /\ \A r \in 1 .. MaxIterations, n \in 0 .. MaxSubqueries : {r} \X (1 .. n) \subseteq InRound(r)
    /\ \A r \in 1 .. MaxIterations : InRound(r) \subseteq Gaps
    /\ \A g \in Gaps : g[1] \in 1 .. MaxIterations /\ g \in InRound(g[1])
    /\ \A r \in 1 .. MaxIterations : \A g \in InRound(r) : g[1] = r
  BY LimitFacts DEF Gaps, InRound

(* Counting.                                                                *)
LEMMA AddFacts ==
    ASSUME NEW X, NEW c \in [X -> Nat], NEW s
    PROVE  /\ Add(c, s) \in [X -> Nat]
           /\ \A x \in X : Add(c, s)[x] = IF x \in s THEN c[x] + 1 ELSE c[x]
  BY DEF Add

LEMMA OnlyFacts ==
    ASSUME NEW s
    PROVE  /\ Only(s) \in [Calls -> Nat]
           /\ \A c \in Calls : Only(s)[c] = IF c \in s THEN 1 ELSE 0
  BY DEF Only

LEMMA SeqOfElements ==
    ASSUME NEW V, NEW q \in Seq(V), NEW W, ToSet(q) \subseteq W
    PROVE  q \in Seq(W)
  BY DEF ToSet

(* The tasks that remain to be run, and their order.                        *)
LEMMA RouteFacts ==
    ASSUME PlanTypes, NEW analyse \in BOOLEAN, NEW m \in Modes(analyse),
           NEW seq \in TopologicalSort(Executing, deps)
    PROVE  /\ Executing \in Seq(Ids) /\ Executing \in Seq(Tasks) /\ IsInjective(Executing)
           /\ ToSet(Executing) \subseteq Tasks /\ ToSet(Executing) \subseteq ToSet(plan)
           /\ seq \in Seq(Tasks) /\ IsInjective(seq) /\ ToSet(seq) \subseteq ToSet(Executing)
           /\ Sortable(Executing, deps) => Sorted(deps, seq)
           /\ m \in {"react"} \union InOrder \union {"parallel", "hybrid", "phase1"}
           /\ analyse => m # "hybrid"
           /\ ~analyse => m # "phase1"
<1>1. plan \in Seq(Ids) /\ IsInjective(plan)
  BY DEF PlanTypes
<1>2. /\ Executing \in Seq(Ids) /\ IsInjective(Executing)
      /\ ToSet(Executing) = ToSet(plan) \intersect Tasks
  BY <1>1, AmongFacts DEF Executing
<1>3. Executing \in Seq(Tasks)
  BY <1>2, SeqOfElements
<1>4. /\ seq \in Seq(Ids) /\ ToSet(seq) \subseteq ToSet(Executing) /\ IsInjective(seq)
      /\ Sortable(Executing, deps) => Sorted(deps, seq)
  <2> HIDE DEF Executing
  <2> QED
    BY <1>2, TopologicalOrder DEF Permutes
<1>5. seq \in Seq(Tasks)
  BY <1>2, <1>4, SeqOfElements
<1>6. /\ m \in {"react"} \union InOrder \union {"parallel", "hybrid", "phase1"}
      /\ analyse => m # "hybrid"
      /\ ~analyse => m # "phase1"
  BY DEF Modes, InOrder
<1> QED
  BY <1>2, <1>3, <1>4, <1>5, <1>6

LEMMA EnlistFacts ==
    ASSUME Types, NEW s
    PROVE  /\ Enlist(s) \in [Agents -> CoStates]
           /\ \A a \in Agents : Enlist(s)[a] = IF a \notin s THEN co[a]
                                  ELSE IF deps[a] = {} THEN "queued" ELSE "waiting"
  BY DEF Types, PlanTypes, WorkTypes, Enlist, CoStates

(* What the steps make of the variables is of their types.                  *)
LEMMA StateFacts ==
    ASSUME Types
    PROVE  /\ Digest \subseteq {Domain} /\ Counted \subseteq pool /\ Answers \subseteq entries
           /\ Kept \subseteq Agents /\ Dependents \subseteq Ids
           /\ \A s : Add(results, s) \in [Agents -> Nat]
           /\ \A s : Add(total, s) \in [Calls -> Nat]
           /\ \A s : Only(s) \in [Calls -> Nat]
           /\ \A s : Enlist(s) \in [Agents -> CoStates]
<1>1. Dependents \subseteq Ids
  <2>1. plan \in Seq(Ids)
    BY DEF Types, PlanTypes
  <2>2. ToSet(plan) \subseteq Ids
    BY <2>1, SeqFacts
  <2> QED
    BY <2>2 DEF Dependents
<1>2. /\ \A s : Add(results, s) \in [Agents -> Nat]
      /\ \A s : Add(total, s) \in [Calls -> Nat]
  BY DEF Types, WorkTypes, Add
<1>3. \A s : Only(s) \in [Calls -> Nat] /\ Enlist(s) \in [Agents -> CoStates]
  BY OnlyFacts, EnlistFacts
<1> QED
  BY <1>1, <1>2, <1>3 DEF Digest, Counted, Answers, Kept

(* The list without its first.                                              *)
LEMMA TailFacts ==
    ASSUME NEW V, NEW q \in Seq(V), q # <<>>
    PROVE  /\ Tail(q) \in Seq(V) /\ Len(Tail(q)) = Len(q) - 1 /\ Len(q) \in Nat \ {0}
           /\ \A i \in 1 .. Len(q) - 1 : Tail(q)[i] = q[i + 1]
           /\ Head(q) = q[1] /\ Head(q) \in ToSet(q) /\ ToSet(Tail(q)) \subseteq ToSet(q)
           /\ ToSet(q) \subseteq ToSet(Tail(q)) \union {Head(q)}
           /\ IsInjective(q) => Head(q) \notin ToSet(Tail(q)) /\ IsInjective(Tail(q))
<1>1. PICK r : r = Tail(q)
  OBVIOUS
<1>2. PICK N : N = Len(q)
  OBVIOUS
<1>3. /\ r \in Seq(V) /\ Len(r) = N - 1 /\ N \in Nat \ {0} /\ Head(q) = q[1]
      /\ \A i \in 1 .. N - 1 : r[i] = q[i + 1]
  BY <1>1, <1>2
<1>4. DOMAIN q = 1 .. N /\ DOMAIN r = 1 .. N - 1
  BY <1>2, <1>3
<1>5. \A i \in 1 .. N - 1 : i + 1 \in 1 .. N /\ i + 1 # 1
  BY <1>3
<1>6. \A i \in 1 .. N : i = 1 \/ (i - 1 \in 1 .. N - 1 /\ (i - 1) + 1 = i)
  BY <1>3
<1>7. 1 \in 1 .. N
  BY <1>3
<1>8. /\ Head(q) \in ToSet(q) /\ ToSet(r) \subseteq ToSet(q)
      /\ ToSet(q) \subseteq ToSet(r) \union {Head(q)}
  <2>1. ToSet(q) = {q[i] : i \in 1 .. N} /\ ToSet(r) = {r[i] : i \in 1 .. N - 1}
    BY <1>4 DEF ToSet
  <2>2. \A i \in 1 .. N : i = 1 \/ \E j \in 1 .. N - 1 : r[j] = q[i]
    BY <1>3, <1>6
  <2>3. q[1] \in ToSet(q)
    BY <1>7, <2>1
  <2>4. ASSUME NEW x \in ToSet(q) PROVE x \in ToSet(r) \union {q[1]}
    <3>1. PICK i \in 1 .. N : x = q[i]
      BY <2>1
    <3> QED
      BY <2>1, <2>2, <3>1
  <2>5. ToSet(r) \subseteq ToSet(q)
    BY <1>3, <1>5, <2>1
  <2> QED
    BY <1>3, <2>3, <2>4, <2>5
<1>9. ASSUME IsInjective(q) PROVE Head(q) \notin ToSet(r) /\ IsInjective(r)
  <2>1. Head(q) \notin ToSet(r)
    BY <1>3, <1>4, <1>5, <1>7, <1>9 DEF ToSet, IsInjective
  <2>2. SUFFICES ASSUME NEW i \in 1 .. N - 1, NEW j \in 1 .. N - 1, r[i] = r[j] PROVE i = j
    BY <1>4, <2>1 DEF IsInjective
  <2>3. i + 1 \in DOMAIN q /\ j + 1 \in DOMAIN q /\ q[i + 1] = q[j + 1]
    BY <1>3, <1>4, <1>5, <2>2
  <2>4. i + 1 = j + 1
    BY <1>9, <2>3, Zenon DEF IsInjective
  <2> QED
    BY <1>3, <2>4
<1> QED
  BY <1>1, <1>2, <1>3, <1>8, <1>9

(* What has grown by one.                                                   *)
LEMMA CountFacts ==
    ASSUME Types, NEW s
    PROVE  /\ \A a \in Agents : Add(results, s)[a] = IF a \in s THEN results[a] + 1 ELSE results[a]
           /\ \A c \in Calls : Add(total, s)[c] = IF c \in s THEN total[c] + 1 ELSE total[c]
  BY DEF Types, WorkTypes, Add

LEMMA RunningFacts ==
    ASSUME NEW s
    PROVE  Running(s) = {} => \A a \in s : co[a] \notin {"running", "good", "bad"}
  BY DEF Running

(* Every step keeps the types.                                             *)
LEMMA PlanTypesStep ==
    ASSUME IInv, Next
    PROVE  PlanTypes'
<1> USE DEF PlanTypes
<1>0. PlanTypes /\ Digest \subseteq {Domain}
  BY StateFacts DEF IInv, Types
<1>1. CASE Cancelled
  BY <1>0, <1>1 DEF Cancelled, planVars, poolVars, childVars, Executor, InOrder
<1>2. ASSUME NEW ok \in BOOLEAN, NEW isCompany \in BOOLEAN, Refine(ok, isCompany) PROVE PlanTypes'
  BY <1>0, <1>2 DEF Refine, poolVars, childVars, Executor, InOrder
<1>3. ASSUME NEW p \in Plans, Decompose(p) PROVE PlanTypes'
  BY <1>0, <1>3, ResearchAssumption, DistinctAssumption DEF Decompose, poolVars, childVars,
          Executor, InOrder
<1>4. CASE DecomposeFails
  BY <1>0, <1>4 DEF DecomposeFails, planVars, poolVars, childVars, Executor, InOrder
<1>5. ASSUME NEW analyse \in BOOLEAN, NEW m \in Modes(analyse),
             NEW seq \in TopologicalSort(Executing, deps), Route(analyse, m, seq)
      PROVE  PlanTypes'
  <2>1. /\ Executing \in Seq(Ids) /\ Executing \in Seq(Tasks) /\ IsInjective(Executing)
        /\ seq \in Seq(Tasks)
        /\ m \in {"react"} \union InOrder \union {"parallel", "hybrid", "phase1"}
    BY <1>0, RouteFacts
  <2>2. order' \in Seq(Tasks)
    BY <1>0, <1>5, <2>1 DEF Route, InOrder
  <2> QED
    BY <1>0, <1>5, <2>1, <2>2 DEF Route, InOrder, Executor
<1>6. ASSUME NEW t \in Tasks, Ready(t) PROVE PlanTypes'
  BY <1>0, <1>6 DEF Ready, planVars, poolVars, childVars, Executor, InOrder
<1>7. ASSUME NEW t \in Tasks, Expire(t) PROVE PlanTypes'
  BY <1>0, <1>7 DEF Expire, planVars, poolVars, childVars, Executor, InOrder
<1>8. ASSUME NEW t \in Tasks, Acquire(t) PROVE PlanTypes'
  BY <1>0, <1>8 DEF Acquire, Begin, planVars, childVars, Executor, InOrder
<1>9. ASSUME NEW t \in Tasks, CollectHybrid(t) PROVE PlanTypes'
  BY <1>0, <1>9, IdFacts DEF CollectHybrid, Executor, planVars, childVars, Executor, InOrder
<1>10. ASSUME NEW t \in Tasks, CollectParallel(t) PROVE PlanTypes'
  BY <1>0, <1>10 DEF CollectParallel, planVars, poolVars, childVars, Executor, InOrder
<1>11. ASSUME NEW t \in Tasks, CollectReact(t) PROVE PlanTypes'
  BY <1>0, <1>11, IdFacts DEF CollectReact, InOrder, planVars, childVars, Executor, InOrder
<1>12. ASSUME NEW ok \in BOOLEAN, React(ok) PROVE PlanTypes'
  BY <1>0, <1>12 DEF React, planVars, poolVars, childVars, Executor, InOrder
<1>13. ASSUME NEW ok \in BOOLEAN, AnalysisEnds(ok) PROVE PlanTypes'
  BY <1>0, <1>13 DEF AnalysisEnds, planVars, poolVars, Executor, InOrder
<1>14. ASSUME NEW a \in Agents, NEW ok \in BOOLEAN, Answer(a, ok) PROVE PlanTypes'
  BY <1>0, <1>14 DEF Answer, planVars, poolVars, childVars, Executor, InOrder
<1>15. CASE StartNext
  <2>1. Head(order) \in Tasks /\ Tail(order) \in Seq(Tasks)
    BY <1>0, <1>15 DEF StartNext
  <2>2. given' \in [Tasks -> SUBSET Ids]
    BY <1>0, <1>15, <2>1 DEF StartNext, Begin
  <2> QED
    BY <1>0, <1>15, <2>1, <2>2 DEF StartNext, planVars, childVars
<1>16. CASE ReactsDone
  BY <1>0, <1>16 DEF ReactsDone, InOrder, planVars, poolVars, childVars, Executor, InOrder
<1>17. CASE ExecutorDone
  BY <1>0, <1>17 DEF ExecutorDone, planVars, poolVars, childVars, Executor, InOrder
<1>18. CASE Phase1Done
  BY <1>0, <1>18, IdFacts DEF Phase1Done, Digest, childVars, Executor, InOrder
<1>19. CASE Phase3Done
  BY <1>0, <1>19 DEF Phase3Done, Digest, planVars, poolVars, Executor, InOrder
<1>20. CASE Await
  BY <1>0, <1>20 DEF Await, Digest, planVars, poolVars, Executor, InOrder
<1>21. ASSUME NEW langs \in SUBSET Languages, Localize(langs) PROVE PlanTypes'
  <2>1. <<>> \in Seq(Ids) /\ <<>> \in Seq(Tasks) /\ IsInjective(<<>>)
    BY DEF IsInjective
  <2> QED
    BY <1>0, <1>21, <2>1 DEF Localize, Forget
<1>22. ASSUME NEW l \in Languages, CollectLanguage(l) PROVE PlanTypes'
  BY <1>0, <1>22 DEF CollectLanguage, planVars, poolVars, childVars, Executor, InOrder
<1>23. ASSUME NEW entity \in BOOLEAN, Filter(entity) PROVE PlanTypes'
  BY <1>0, <1>23 DEF Filter, planVars, childVars, Executor, InOrder
<1>24. ASSUME NEW ok \in BOOLEAN, Fallback(ok) PROVE PlanTypes'
  BY <1>0, <1>24 DEF Fallback, planVars, poolVars, childVars, Executor, InOrder
<1>25. CASE ToolsUsed
  BY <1>0, <1>25 DEF ToolsUsed, planVars, poolVars, childVars, Executor, InOrder
<1>26. ASSUME NEW ok \in BOOLEAN, NEW next \in {"iterate", "legacy", "reflect"},
              Synthesize(ok, next)
       PROVE  PlanTypes'
  BY <1>0, <1>26 DEF Synthesize, planVars, poolVars, childVars, Executor, InOrder
<1>27. ASSUME NEW confident \in BOOLEAN, Iterate(confident) PROVE PlanTypes'
  BY <1>0, <1>27 DEF Iterate, planVars, poolVars, childVars, Executor, InOrder
<1>28. ASSUME NEW gaps \in BOOLEAN, Coverage(gaps) PROVE PlanTypes'
  BY <1>0, <1>28 DEF Coverage, planVars, poolVars, childVars, Executor, InOrder
<1>29. ASSUME NEW ok \in BOOLEAN, Resynthesize(ok) PROVE PlanTypes'
  BY <1>0, <1>29 DEF Resynthesize, planVars, poolVars, childVars, Executor, InOrder
<1>30. ASSUME NEW n \in 0 .. MaxSubqueries, GenerateSubqueries(n) PROVE PlanTypes'
  BY <1>0, <1>30 DEF GenerateSubqueries, planVars, childVars, Executor, InOrder
<1>31. ASSUME NEW n \in 1 .. MaxSubqueries, SpawnAreas(n) PROVE PlanTypes'
  BY <1>0, <1>31 DEF SpawnAreas, planVars, childVars, Executor, InOrder
<1>32. ASSUME NEW g \in Gaps, GapAcquire(g) PROVE PlanTypes'
  BY <1>0, <1>32 DEF GapAcquire, InRound, planVars, poolVars, childVars, Executor, InOrder
<1>33. ASSUME NEW g \in Gaps, CollectArea(g) PROVE PlanTypes'
  BY <1>0, <1>33 DEF CollectArea, planVars, poolVars, childVars, Executor, InOrder
<1>34. ASSUME NEW g \in Gaps, NEW accept \in BOOLEAN, NEW saturated \in BOOLEAN,
              CollectGap(g, accept, saturated)
       PROVE  PlanTypes'
  BY <1>0, <1>34 DEF CollectGap, planVars, childVars, Executor, InOrder
<1>35. ASSUME NEW cited \in BOOLEAN, NEW ok \in BOOLEAN, Enhance(cited, ok) PROVE PlanTypes'
  BY <1>0, <1>35 DEF Enhance, planVars, poolVars, childVars, Executor, InOrder
<1>36. CASE SpawnGaps
  BY <1>0, <1>36 DEF SpawnGaps, planVars, poolVars, childVars, Executor, InOrder
<1>37. CASE RoundEnds
  BY <1>0, <1>37 DEF RoundEnds, planVars, poolVars, childVars, Executor, InOrder
<1>38. CASE NothingFilled
  BY <1>0, <1>38 DEF NothingFilled, planVars, poolVars, childVars, Executor, InOrder
<1>39. CASE Reflect
  BY <1>0, <1>39 DEF Reflect, Step, planVars, poolVars, childVars, Executor, InOrder
<1>40. CASE Cite
  BY <1>0, <1>40 DEF Cite, Step, planVars, poolVars, childVars, Executor, InOrder
<1>41. CASE Verify
  BY <1>0, <1>41 DEF Verify, Step, planVars, poolVars, childVars, Executor, InOrder
<1>42. CASE Complete
  BY <1>0, <1>42 DEF Complete, planVars, poolVars, childVars, Executor, InOrder
<1>43. CASE Cancel
  BY <1>0, <1>43 DEF Cancel, planVars, poolVars, childVars, Executor, InOrder
<1> QED
  BY <1>1, <1>2, <1>3, <1>4, <1>5, <1>6, <1>7, <1>8, <1>9, <1>10, <1>11, <1>12, <1>13,
     <1>14, <1>15, <1>16, <1>17, <1>18, <1>19, <1>20, <1>21, <1>22, <1>23, <1>24, <1>25,
     <1>26, <1>27, <1>28, <1>29, <1>30, <1>31, <1>32, <1>33, <1>34, <1>35, <1>36, <1>37,
     <1>38, <1>39, <1>40, <1>41, <1>42, <1>43 DEF Next, Workflow, Execution, GapFilling

LEMMA WorkTypesStep ==
    ASSUME IInv, Next
    PROVE  WorkTypes'
<1> USE DEF WorkTypes
<1>0. /\ WorkTypes /\ PlanTypes
      /\ Digest \subseteq {Domain} /\ Counted \subseteq pool /\ Answers \subseteq entries
      /\ Kept \subseteq Agents /\ Dependents \subseteq Agents
      /\ \A s : Add(results, s) \in [Agents -> Nat]
      /\ \A s : Add(total, s) \in [Calls -> Nat]
      /\ \A s : Only(s) \in [Calls -> Nat]
      /\ \A s : Enlist(s) \in [Agents -> CoStates]
  BY StateFacts, IdFacts DEF IInv, Types
<1>f. /\ Fault => faults' \in 0 .. MaxFaults
      /\ \A ok \in BOOLEAN : Outcome(ok) => faults' \in 0 .. MaxFaults
  BY <1>0, LimitFacts DEF Fault, Outcome
<1>1. CASE Cancelled
  BY <1>0, <1>1 DEF Cancelled, Return, poolVars, gatherVars, reportVars, userVars, Stages,
          CoStates
<1>2. ASSUME NEW ok \in BOOLEAN, NEW isCompany \in BOOLEAN, Refine(ok, isCompany) PROVE WorkTypes'
  <2>1. spent' \subseteq Calls /\ total' \in [Calls -> Nat]
    BY <1>0, <1>2, IdFacts DEF Refine
  <2> QED
    BY <1>0, <1>f, <1>2, <2>1 DEF Refine, Goto, poolVars, reportVars, Stages
<1>3. ASSUME NEW p \in Plans, Decompose(p) PROVE WorkTypes'
  BY <1>0, <1>3, IdFacts DEF Decompose, Goto, poolVars, gatherVars, reportVars, userVars,
          Stages, CoStates
<1>4. CASE DecomposeFails
  BY <1>0, <1>4, <1>f DEF DecomposeFails, Return, poolVars, gatherVars, reportVars, Stages,
          CoStates
<1>5. ASSUME NEW analyse \in BOOLEAN, NEW m \in Modes(analyse),
             NEW seq \in TopologicalSort(Executing, deps), Route(analyse, m, seq)
      PROVE  WorkTypes'
  <2>1. /\ ToSet(Executing) \subseteq Agents
        /\ m \in {"react"} \union InOrder \union {"parallel", "hybrid", "phase1"}
    BY <1>0, RouteFacts, IdFacts
  <2>2. pool' \subseteq Agents
    BY <1>0, <1>5, <2>1 DEF Route, InOrder
  <2>3. co' \in [Agents -> CoStates]
    BY <1>0, <1>5, <2>1 DEF Route, InOrder, CoStates
  <2> QED
    BY <1>0, <1>5, <2>2, <2>3 DEF Route, Goto, gatherVars, reportVars, userVars, Stages
<1>6. ASSUME NEW t \in Tasks, Ready(t) PROVE WorkTypes'
  BY <1>0, <1>6 DEF Ready, Stay, poolVars, gatherVars, reportVars, userVars, Stages,
          CoStates
<1>7. ASSUME NEW t \in Tasks, Expire(t) PROVE WorkTypes'
  BY <1>0, <1>7 DEF Expire, Stay, poolVars, gatherVars, reportVars, userVars, Stages,
          CoStates
<1>8. ASSUME NEW t \in Tasks, Acquire(t) PROVE WorkTypes'
  BY <1>0, <1>8 DEF Acquire, Begin, Stay, gatherVars, reportVars, userVars, Stages, CoStates
<1>9. ASSUME NEW t \in Tasks, CollectHybrid(t) PROVE WorkTypes'
  BY <1>0, <1>9 DEF CollectHybrid, Executor, Heard, Stay, gatherVars, reportVars, userVars,
          Stages, CoStates
<1>10. ASSUME NEW t \in Tasks, CollectParallel(t) PROVE WorkTypes'
  BY <1>0, <1>10 DEF CollectParallel, Heard, Stay, poolVars, gatherVars, reportVars,
          userVars, Stages, CoStates
<1>11. ASSUME NEW t \in Tasks, CollectReact(t) PROVE WorkTypes'
  <2>1. /\ co' \in [Agents -> CoStates]
        /\ results' \in [Agents -> Nat] /\ total' \in [Calls -> Nat]
    BY <1>0, <1>11 DEF CollectReact, Heard, CoStates
  <2> QED
    BY <1>0, <1>f, <1>11, <2>1 DEF CollectReact, InOrder, Stay, reportVars, userVars, Stages
<1>12. ASSUME NEW ok \in BOOLEAN, React(ok) PROVE WorkTypes'
  <2>1. results' \in [Agents -> Nat] /\ total' \in [Calls -> Nat] /\ spent' \subseteq Calls
    BY <1>0, <1>12, IdFacts DEF React
  <2> QED
    BY <1>0, <1>f, <1>12, <2>1 DEF React, Goto, Return, poolVars, reportVars, Stages
<1>13. ASSUME NEW ok \in BOOLEAN, AnalysisEnds(ok) PROVE WorkTypes'
  BY <1>0, <1>13, <1>f, IdFacts DEF AnalysisEnds, Stay, poolVars, gatherVars, reportVars,
          Stages, CoStates
<1>14. ASSUME NEW a \in Agents, NEW ok \in BOOLEAN, Answer(a, ok) PROVE WorkTypes'
  <2>1. co' \in [Agents -> CoStates] /\ spent' \subseteq Calls
    BY <1>0, <1>14, IdFacts DEF Answer, CoStates
  <2> QED
    BY <1>0, <1>f, <1>14, <2>1 DEF Answer, Stay, poolVars, gatherVars, reportVars, Stages
<1>15. CASE StartNext
  <2>1. Head(order) \in Tasks
    BY <1>0, <1>15 DEF StartNext, PlanTypes
  <2>2. co' \in [Agents -> CoStates]
    BY <1>0, <1>15, <2>1 DEF StartNext, Begin, CoStates
  <2> QED
    BY <1>0, <1>15, <2>1, <2>2 DEF StartNext, Stay, gatherVars, reportVars, userVars, Stages
<1>16. CASE ReactsDone
  BY <1>0, <1>16 DEF ReactsDone, InOrder, Goto, poolVars, gatherVars, reportVars, userVars,
          Stages, CoStates
<1>17. CASE ExecutorDone
  BY <1>0, <1>17 DEF ExecutorDone, Goto, poolVars, reportVars, userVars, Stages, CoStates
<1>18. CASE Phase1Done
  BY <1>0, <1>18, IdFacts DEF Phase1Done, Stay, reportVars, userVars, Stages, CoStates
<1>19. CASE Phase3Done
  <2> DEFINE base == IF pool = {} THEN results ELSE Add(results, Answers)
  <2>1. base \in [Agents -> Nat]
    BY <1>0
  <2>2. Add(base, Digest) \in [Agents -> Nat]
    BY <2>1, AddFacts
  <2>3. results' \in [Agents -> Nat] /\ total' \in [Calls -> Nat]
    BY <1>0, <1>19, <2>2 DEF Phase3Done
  <2> HIDE DEF base
  <2> QED
    BY <1>0, <1>19, <2>3 DEF Phase3Done, Goto, poolVars, reportVars, userVars, Stages
<1>20. CASE Await
  BY <1>0, <1>20 DEF Await, Goto, poolVars, reportVars, userVars, Stages, CoStates
<1>21. ASSUME NEW langs \in SUBSET Languages, Localize(langs) PROVE WorkTypes'
  BY <1>0, <1>21, IdFacts DEF Localize, Goto, Forget, gatherVars, reportVars, userVars,
          Stages, CoStates
<1>22. ASSUME NEW l \in Languages, CollectLanguage(l) PROVE WorkTypes'
  <2>1. /\ co' \in [Agents -> CoStates]
        /\ results' \in [Agents -> Nat] /\ total' \in [Calls -> Nat]
    BY <1>0, <1>22 DEF CollectLanguage, Heard, CoStates
  <2> QED
    BY <1>0, <1>f, <1>22, <2>1 DEF CollectLanguage, Stay, poolVars, reportVars, userVars,
            Stages
<1>23. ASSUME NEW entity \in BOOLEAN, Filter(entity) PROVE WorkTypes'
  BY <1>0, <1>23 DEF Filter, Goto, reportVars, userVars, Stages, CoStates
<1>24. ASSUME NEW ok \in BOOLEAN, Fallback(ok) PROVE WorkTypes'
  <2>1. /\ results' \in [Agents -> Nat] /\ total' \in [Calls -> Nat]
        /\ spent' \subseteq Calls /\ evidence' \subseteq Agents
    BY <1>0, <1>24, IdFacts DEF Fallback
  <2> QED
    BY <1>0, <1>f, <1>24, <2>1 DEF Fallback, Goto, poolVars, reportVars, Stages
<1>25. CASE ToolsUsed
  BY <1>0, <1>25 DEF ToolsUsed, Goto, poolVars, gatherVars, reportVars, userVars, Stages,
          CoStates
<1>26. ASSUME NEW ok \in BOOLEAN, NEW next \in {"iterate", "legacy", "reflect"},
              Synthesize(ok, next)
       PROVE  WorkTypes'
  BY <1>0, <1>26, <1>f DEF Synthesize, Goto, Return, poolVars, gatherVars, Stages, CoStates
<1>27. ASSUME NEW confident \in BOOLEAN, Iterate(confident) PROVE WorkTypes'
  BY <1>0, <1>27 DEF Iterate, Break, Goto, poolVars, gatherVars, reportVars, userVars,
          Stages, CoStates
<1>28. ASSUME NEW gaps \in BOOLEAN, Coverage(gaps) PROVE WorkTypes'
  BY <1>0, <1>28 DEF Coverage, Goto, Break, poolVars, gatherVars, reportVars, userVars,
          Stages, CoStates
<1>29. ASSUME NEW ok \in BOOLEAN, Resynthesize(ok) PROVE WorkTypes'
  BY <1>0, <1>29, <1>f DEF Resynthesize, Goto, poolVars, gatherVars, Stages, CoStates
<1>30. ASSUME NEW n \in 0 .. MaxSubqueries, GenerateSubqueries(n) PROVE WorkTypes'
  BY <1>0, <1>30, GapFacts, IdFacts DEF GenerateSubqueries, Break, Goto, gatherVars,
          reportVars, userVars, Stages, CoStates
<1>31. ASSUME NEW n \in 1 .. MaxSubqueries, SpawnAreas(n) PROVE WorkTypes'
  <2>1. pool' \subseteq Gaps
    <3>1. 1 \in 1 .. MaxIterations /\ n \in 0 .. MaxSubqueries
      BY LimitFacts
    <3> QED
      BY <1>31, <3>1, GapFacts DEF SpawnAreas
  <2> QED
    BY <1>0, <1>31, <2>1, IdFacts DEF SpawnAreas, Goto, gatherVars, reportVars, userVars,
            Stages, CoStates
<1>32. ASSUME NEW g \in Gaps, GapAcquire(g) PROVE WorkTypes'
  BY <1>0, <1>32 DEF GapAcquire, InRound, Stay, poolVars, gatherVars, reportVars, userVars,
          Stages, CoStates
<1>33. ASSUME NEW g \in Gaps, CollectArea(g) PROVE WorkTypes'
  <2>1. co' \in [Agents -> CoStates] /\ total' \in [Calls -> Nat]
    BY <1>0, <1>33 DEF CollectArea, Heard, CoStates
  <2> QED
    BY <1>0, <1>f, <1>33, <2>1 DEF CollectArea, Stay, poolVars, reportVars, userVars, Stages
<1>34. ASSUME NEW g \in Gaps, NEW accept \in BOOLEAN, NEW saturated \in BOOLEAN,
              CollectGap(g, accept, saturated)
       PROVE  WorkTypes'
  <2>1. /\ co' \in [Agents -> CoStates]
        /\ results' \in [Agents -> Nat] /\ total' \in [Calls -> Nat] /\ evidence' \subseteq Agents
        /\ pool' \subseteq Agents
    BY <1>0, <1>34, IdFacts DEF CollectGap, Heard, CoStates
  <2> QED
    BY <1>0, <1>f, <1>34, <2>1 DEF CollectGap, Stay, userVars, Stages
<1>35. ASSUME NEW cited \in BOOLEAN, NEW ok \in BOOLEAN, Enhance(cited, ok) PROVE WorkTypes'
  <2>1. basis' \subseteq Agents /\ current' \in BOOLEAN
    BY <1>0, <1>35 DEF Enhance
  <2> QED
    BY <1>0, <1>f, <1>35, <2>1 DEF Enhance, Goto, poolVars, gatherVars, Stages
<1>36. CASE SpawnGaps
  BY <1>0, <1>36 DEF SpawnGaps, Goto, poolVars, gatherVars, reportVars, userVars, Stages,
          CoStates
<1>37. CASE RoundEnds
  BY <1>0, <1>37, LimitFacts DEF RoundEnds, Goto, Break, poolVars, gatherVars, reportVars,
          userVars, Stages, CoStates
<1>38. CASE NothingFilled
  BY <1>0, <1>38 DEF NothingFilled, Goto, poolVars, gatherVars, reportVars, userVars,
          Stages, CoStates
<1>39. CASE Reflect
  BY <1>0, <1>39 DEF Reflect, Step, Goto, poolVars, gatherVars, reportVars, userVars,
          Stages, CoStates
<1>40. CASE Cite
  BY <1>0, <1>40 DEF Cite, Step, Goto, poolVars, gatherVars, reportVars, userVars, Stages,
          CoStates
<1>41. CASE Verify
  BY <1>0, <1>41 DEF Verify, Step, Goto, poolVars, gatherVars, reportVars, userVars, Stages,
          CoStates
<1>42. CASE Complete
  BY <1>0, <1>42 DEF Complete, Return, poolVars, gatherVars, reportVars, userVars, Stages,
          CoStates
<1>43. CASE Cancel
  BY <1>0, <1>43 DEF Cancel, Stay, poolVars, gatherVars, reportVars, Stages, CoStates
<1> QED
  BY <1>1, <1>2, <1>3, <1>4, <1>5, <1>6, <1>7, <1>8, <1>9, <1>10, <1>11, <1>12, <1>13,
     <1>14, <1>15, <1>16, <1>17, <1>18, <1>19, <1>20, <1>21, <1>22, <1>23, <1>24, <1>25,
     <1>26, <1>27, <1>28, <1>29, <1>30, <1>31, <1>32, <1>33, <1>34, <1>35, <1>36, <1>37,
     <1>38, <1>39, <1>40, <1>41, <1>42, <1>43 DEF Next, Workflow, Execution, GapFilling

(* Every step leaves the agents in their place.                             *)
LEMMA PlaceStep ==
    ASSUME IInv, Next
    PROVE  Place'
<1> USE DEF Place, Early, Gathered, Rounds, Unheard, Running0, InOrder, Executor
<1>0. /\ Place /\ co \in [Agents -> CoStates] /\ stage \in Stages /\ pool \subseteq Agents
      /\ order \in Seq(Tasks)
  BY DEF IInv, Types, PlanTypes, WorkTypes
<1>1. CASE Cancelled
  BY <1>0, <1>1 DEF Cancelled, Checkpoints, Return, poolVars, planVars
<1>2. ASSUME NEW ok \in BOOLEAN, NEW isCompany \in BOOLEAN, Refine(ok, isCompany) PROVE Place'
  BY <1>0, <1>2 DEF Refine, CheckPausePoint, Goto, poolVars, planVars
<1>3. ASSUME NEW p \in Plans, Decompose(p) PROVE Place'
  BY <1>0, <1>3 DEF Decompose, CheckPausePoint, Goto, poolVars, planVars
<1>4. CASE DecomposeFails
  BY <1>0, <1>4 DEF DecomposeFails, CheckPausePoint, Return, poolVars, planVars
<1>5. ASSUME NEW analyse \in BOOLEAN, NEW m \in Modes(analyse),
             NEW seq \in TopologicalSort(Executing, deps), Route(analyse, m, seq)
      PROVE  Place'
  <2>1. /\ ToSet(Executing) \subseteq Tasks /\ IsInjective(Executing) /\ IsInjective(seq)
        /\ ToSet(seq) \subseteq ToSet(Executing)
        /\ m \in {"react"} \union InOrder \union {"parallel", "hybrid", "phase1"} /\ m # None
    BY RouteFacts, DistinctAssumption DEF IInv, Types
  <2>2. stage' = "execute" /\ mode' = m /\ plan' = Executing /\ \A a \in Agents : co[a] = "none"
    BY <1>0, <1>5 DEF Route, Goto
  <2>3. CASE m = "react"
    BY <1>0, <1>5, <2>1, <2>2, <2>3 DEF Route
  <2>4. CASE m \in InOrder
    <3>1. order' \in {seq, Executing} /\ pool' = ToSet(Executing) /\ co' = co
      BY <1>5, <2>4 DEF Route
    <3>2. IsInjective(order') /\ ToSet(order') \subseteq pool' /\ pool' \subseteq Tasks
      BY <2>1, <3>1
    <3>3. /\ \A t \in ToSet(order') : co'[t] = "none"
          /\ \A t \in pool' : co'[t] = "none" /\ t \in Agents
      BY <2>2, <3>1, <3>2, IdFacts
    <3> QED
      BY <2>1, <2>2, <2>4, <3>1, <3>2, <3>3
  <2>5. CASE m = "parallel"
    BY <1>0, <1>5, <2>1, <2>2, <2>5 DEF Route
  <2>6. CASE m \in {"hybrid", "phase1"}
    <3>1. pool' \subseteq ToSet(Executing) /\ co' = Enlist(pool')
      BY <1>5, <2>6 DEF Route
    <3>2. \A a \in Agents : co'[a] = IF a \notin pool' THEN co[a]
                                     ELSE IF deps[a] = {} THEN "queued" ELSE "waiting"
      BY <3>1, EnlistFacts DEF IInv
    <3> QED
      BY <2>1, <2>2, <2>6, <3>1, <3>2
  <2> QED
    BY <2>1, <2>3, <2>4, <2>5, <2>6
<1>6. ASSUME NEW t \in Tasks, Ready(t) PROVE Place'
  BY <1>0, <1>6 DEF Ready, Stay, poolVars, planVars
<1>7. ASSUME NEW t \in Tasks, Expire(t) PROVE Place'
  BY <1>0, <1>7 DEF Expire, Stay, poolVars, planVars
<1>8. ASSUME NEW t \in Tasks, Acquire(t) PROVE Place'
  BY <1>0, <1>8 DEF Acquire, Begin, Stay, poolVars, planVars
<1>9. ASSUME NEW t \in Tasks, CollectHybrid(t) PROVE Place'
  BY <1>0, <1>9 DEF CollectHybrid, Executor, Heard, Stay, poolVars, planVars
<1>10. ASSUME NEW t \in Tasks, CollectParallel(t) PROVE Place'
  BY <1>0, <1>10 DEF CollectParallel, Heard, Stay, poolVars, planVars
<1>11. ASSUME NEW t \in Tasks, CollectReact(t) PROVE Place'
  BY <1>0, <1>11 DEF CollectReact, InOrder, Heard, Stay, poolVars, planVars
<1>12. ASSUME NEW ok \in BOOLEAN, React(ok) PROVE Place'
  BY <1>0, <1>12 DEF React, Goto, Return, poolVars, planVars
<1>13. ASSUME NEW ok \in BOOLEAN, AnalysisEnds(ok) PROVE Place'
  BY <1>0, <1>13 DEF AnalysisEnds, Stay, poolVars, planVars
<1>14. ASSUME NEW a \in Agents, NEW ok \in BOOLEAN, Answer(a, ok) PROVE Place'
  BY <1>0, <1>14 DEF Answer, Stay, poolVars, planVars
<1>15. CASE StartNext
  <2>1. PICK t : t = Head(order)
    OBVIOUS
  <2>2. /\ t \in ToSet(order) /\ ToSet(order') \subseteq ToSet(order) /\ t \notin ToSet(order')
        /\ IsInjective(order')
    <3>1. order \in Seq(Tasks) /\ order # <<>> /\ IsInjective(order) /\ order' = Tail(order)
      BY <1>0, <1>15 DEF StartNext
    <3> QED
      BY <2>1, <3>1, TailFacts
  <2>3. t \in pool /\ t \in Agents /\ co[t] = "none"
    BY <1>0, <1>15, <2>2 DEF StartNext
  <2>4. \A a \in Agents : co'[a] = IF a = t THEN "running" ELSE co[a]
    BY <1>0, <1>15, <2>1, <2>3 DEF StartNext, Begin
  <2> QED
    BY <1>0, <1>15, <2>2, <2>3, <2>4 DEF StartNext, Stay, planVars
<1>16. CASE ReactsDone
  BY <1>0, <1>16, RunningFacts DEF ReactsDone, InOrder, Goto, poolVars, planVars
<1>17. CASE ExecutorDone
  BY <1>0, <1>17 DEF ExecutorDone, Settled, Goto, poolVars, planVars
<1>18. CASE Phase1Done
  <2>1. Dependents \subseteq Tasks
    BY <1>0, <1>18 DEF Phase1Done, Dependents
  <2>2. \A a \in Agents : co'[a] = IF a \notin Dependents THEN co[a]
                                   ELSE IF deps[a] = {} THEN "queued" ELSE "waiting"
    BY <1>18, EnlistFacts DEF Phase1Done, IInv
  <2>3. \A a \in pool : co[a] \in {"counted", "void"}
    BY <1>18 DEF Phase1Done, Settled
  <2>4. /\ mode' = "phase3" /\ pool' = Dependents /\ stage = "execute" /\ stage' = stage
        /\ plan' = plan
    BY <1>18 DEF Phase1Done, Stay
  <2> QED
    BY <1>0, <2>1, <2>2, <2>3, <2>4, DistinctAssumption
<1>19. CASE Phase3Done
  BY <1>0, <1>19 DEF Phase3Done, Settled, Digest, Goto, poolVars, planVars
<1>20. CASE Await
  BY <1>0, <1>20 DEF Await, Digest, Goto, poolVars, planVars
<1>21. ASSUME NEW langs \in SUBSET Languages, Localize(langs) PROVE Place'
  BY <1>0, <1>21 DEF Localize, Goto, Forget, poolVars, planVars
<1>22. ASSUME NEW l \in Languages, CollectLanguage(l) PROVE Place'
  BY <1>0, <1>22 DEF CollectLanguage, Heard, Stay, poolVars, planVars
<1>23. ASSUME NEW entity \in BOOLEAN, Filter(entity) PROVE Place'
  BY <1>0, <1>23 DEF Filter, Settled, Goto, poolVars, planVars
<1>24. ASSUME NEW ok \in BOOLEAN, Fallback(ok) PROVE Place'
  BY <1>0, <1>24 DEF Fallback, CheckPausePoint, Goto, poolVars, planVars
<1>25. CASE ToolsUsed
  BY <1>0, <1>25 DEF ToolsUsed, CheckPausePoint, Goto, poolVars, planVars
<1>26. ASSUME NEW ok \in BOOLEAN, NEW next \in {"iterate", "legacy", "reflect"},
              Synthesize(ok, next)
       PROVE  Place'
  BY <1>0, <1>26, IdFacts DEF Synthesize, Goto, Return, poolVars, planVars
<1>27. ASSUME NEW confident \in BOOLEAN, Iterate(confident) PROVE Place'
  BY <1>0, <1>27 DEF Iterate, CheckPausePoint, Break, Goto, poolVars, planVars
<1>28. ASSUME NEW gaps \in BOOLEAN, Coverage(gaps) PROVE Place'
  BY <1>0, <1>28 DEF Coverage, CheckPausePoint, Goto, Break, poolVars, planVars
<1>29. ASSUME NEW ok \in BOOLEAN, Resynthesize(ok) PROVE Place'
  BY <1>0, <1>29 DEF Resynthesize, Goto, poolVars, planVars
<1>30. ASSUME NEW n \in 0 .. MaxSubqueries, GenerateSubqueries(n) PROVE Place'
  <2>1. pool' \subseteq InRound(round)
    BY <1>30, GapFacts DEF GenerateSubqueries, IInv, Types, WorkTypes
  <2> QED
    BY <1>0, <1>30, <2>1 DEF GenerateSubqueries, Break, Goto, InRound
<1>31. ASSUME NEW n \in 1 .. MaxSubqueries, SpawnAreas(n) PROVE Place'
  <2>1. pool' \subseteq Gaps
    <3>1. 1 \in 1 .. MaxIterations /\ n \in 0 .. MaxSubqueries
      BY LimitFacts
    <3> QED
      BY <1>31, <3>1, GapFacts DEF SpawnAreas
  <2> QED
    BY <1>0, <1>31, <2>1 DEF SpawnAreas, Goto
<1>32. ASSUME NEW g \in Gaps, GapAcquire(g) PROVE Place'
  BY <1>0, <1>32, IdFacts DEF GapAcquire, Stay, poolVars, planVars
<1>33. ASSUME NEW g \in Gaps, CollectArea(g) PROVE Place'
  BY <1>0, <1>33 DEF CollectArea, Heard, Stay, poolVars, planVars
<1>34. ASSUME NEW g \in Gaps, NEW accept \in BOOLEAN, NEW saturated \in BOOLEAN,
              CollectGap(g, accept, saturated)
       PROVE  Place'
  BY <1>0, <1>34 DEF CollectGap, Heard, Stay, poolVars, planVars
<1>35. ASSUME NEW cited \in BOOLEAN, NEW ok \in BOOLEAN, Enhance(cited, ok) PROVE Place'
  BY <1>0, <1>35 DEF Enhance, Settled, Goto, poolVars, planVars
<1>36. CASE SpawnGaps
  <2>1. pool \subseteq Gaps /\ \A g \in pool : g[1] = round
    BY <1>0, <1>36, GapFacts DEF SpawnGaps, IInv, Types, WorkTypes
  <2>2. round \in Nat /\ \A g \in Gaps : g \in Agents /\ g[1] \in Nat
    BY LimitFacts, GapFacts, IdFacts DEF IInv, Types, WorkTypes
  <2> QED
    BY <1>0, <1>36, <2>1, <2>2 DEF SpawnGaps, Goto, poolVars, planVars
<1>37. CASE RoundEnds
  <2>1. round + 1 \in Nat /\ round \in Nat /\ \A g \in Gaps : g \in Agents /\ g[1] \in Nat
    BY LimitFacts, GapFacts, IdFacts DEF IInv, Types, WorkTypes
  <2> QED
    BY <1>0, <1>37, <2>1 DEF RoundEnds, Goto, Break, poolVars, planVars
<1>38. CASE NothingFilled
  BY <1>0, <1>38 DEF NothingFilled, Goto, poolVars, planVars
<1>39. CASE Reflect
  BY <1>0, <1>39 DEF Reflect, Step, CheckPausePoint, Goto, poolVars, planVars
<1>40. CASE Cite
  BY <1>0, <1>40 DEF Cite, Step, CheckPausePoint, Goto, poolVars, planVars
<1>41. CASE Verify
  BY <1>0, <1>41 DEF Verify, Step, CheckPausePoint, Goto, poolVars, planVars
<1>42. CASE Complete
  BY <1>0, <1>42 DEF Complete, CheckPausePoint, Return, poolVars, planVars
<1>43. CASE Cancel
  BY <1>0, <1>43 DEF Cancel, Stay, poolVars, planVars
<1> QED
  BY <1>1, <1>2, <1>3, <1>4, <1>5, <1>6, <1>7, <1>8, <1>9, <1>10, <1>11, <1>12, <1>13,
     <1>14, <1>15, <1>16, <1>17, <1>18, <1>19, <1>20, <1>21, <1>22, <1>23, <1>24, <1>25,
     <1>26, <1>27, <1>28, <1>29, <1>30, <1>31, <1>32, <1>33, <1>34, <1>35, <1>36, <1>37,
     <1>38, <1>39, <1>40, <1>41, <1>42, <1>43 DEF Next, Workflow, Execution, GapFilling

(* Every step keeps the child workflow's state.                             *)
LEMMA ChildStep ==
    ASSUME IInv, Next
    PROVE  Child'
<1> USE IdFacts DEF Child, Early, Gathered
<1>0. Child /\ Place /\ entries \subseteq Ids /\ analysis \in {"off", "running", "good", "failed"}
  BY DEF IInv, Types, PlanTypes
<1>1. CASE Cancelled
  BY <1>0, <1>1 DEF Cancelled, Checkpoints, Return, poolVars, childVars, planVars
<1>2. ASSUME NEW ok \in BOOLEAN, NEW isCompany \in BOOLEAN, Refine(ok, isCompany) PROVE Child'
  BY <1>0, <1>2 DEF Refine, Goto, poolVars, childVars, planVars
<1>3. ASSUME NEW p \in Plans, Decompose(p) PROVE Child'
  BY <1>0, <1>3 DEF Decompose, Goto, poolVars, childVars, planVars
<1>4. CASE DecomposeFails
  BY <1>0, <1>4 DEF DecomposeFails, Return, poolVars, childVars, planVars
<1>5. ASSUME NEW analyse \in BOOLEAN, NEW m \in Modes(analyse),
             NEW seq \in TopologicalSort(Executing, deps), Route(analyse, m, seq)
      PROVE  Child'
  <2>1. entries' = {} /\ analysis' = (IF analyse THEN "running" ELSE "off") /\ started' = analyse
    BY <1>0, <1>5 DEF Route, Place
  <2>2. m # "phase3"
    BY RouteFacts DEF IInv, Types, InOrder
  <2> QED
    BY <1>5, <2>1, <2>2 DEF Route, Goto
<1>6. ASSUME NEW t \in Tasks, Ready(t) PROVE Child'
  BY <1>0, <1>6 DEF Ready, Stay, poolVars, childVars, planVars
<1>7. ASSUME NEW t \in Tasks, Expire(t) PROVE Child'
  BY <1>0, <1>7 DEF Expire, Stay, poolVars, childVars, planVars
<1>8. ASSUME NEW t \in Tasks, Acquire(t) PROVE Child'
  BY <1>0, <1>8 DEF Acquire, Stay, poolVars, childVars, planVars
<1>9. ASSUME NEW t \in Tasks, CollectHybrid(t) PROVE Child'
  BY <1>0, <1>9 DEF CollectHybrid, Executor, Stay, poolVars, childVars, planVars
<1>10. ASSUME NEW t \in Tasks, CollectParallel(t) PROVE Child'
  BY <1>0, <1>10 DEF CollectParallel, Stay, poolVars, childVars, planVars
<1>11. ASSUME NEW t \in Tasks, CollectReact(t) PROVE Child'
  BY <1>0, <1>11 DEF CollectReact, InOrder, Stay, poolVars, childVars, planVars
<1>12. ASSUME NEW ok \in BOOLEAN, React(ok) PROVE Child'
  BY <1>0, <1>12 DEF React, Goto, Return, poolVars, childVars, planVars
<1>13. ASSUME NEW ok \in BOOLEAN, AnalysisEnds(ok) PROVE Child'
  BY <1>0, <1>13 DEF AnalysisEnds, Stay, poolVars, childVars, planVars
<1>14. ASSUME NEW a \in Agents, NEW ok \in BOOLEAN, Answer(a, ok) PROVE Child'
  BY <1>0, <1>14 DEF Answer, Stay, poolVars, childVars, planVars
<1>15. CASE StartNext
  BY <1>0, <1>15 DEF StartNext, InOrder, Stay, poolVars, childVars, planVars
<1>16. CASE ReactsDone
  BY <1>0, <1>16 DEF ReactsDone, InOrder, Goto, poolVars, childVars, planVars
<1>17. CASE ExecutorDone
  BY <1>0, <1>17 DEF ExecutorDone, Goto, poolVars, childVars, planVars
<1>18. CASE Phase1Done
  BY <1>0, <1>18 DEF Phase1Done, Digest, Stay, poolVars, childVars, planVars
<1>19. CASE Phase3Done
  BY <1>0, <1>19 DEF Phase3Done, Digest, Goto, poolVars, childVars, planVars
<1>20. CASE Await
  BY <1>0, <1>20 DEF Await, Digest, Goto, poolVars, childVars, planVars
<1>21. ASSUME NEW langs \in SUBSET Languages, Localize(langs) PROVE Child'
  BY <1>0, <1>21 DEF Localize, Goto, Forget, poolVars, childVars, planVars
<1>22. ASSUME NEW l \in Languages, CollectLanguage(l) PROVE Child'
  BY <1>0, <1>22 DEF CollectLanguage, Stay, poolVars, childVars, planVars
<1>23. ASSUME NEW entity \in BOOLEAN, Filter(entity) PROVE Child'
  BY <1>0, <1>23 DEF Filter, Goto, poolVars, childVars, planVars
<1>24. ASSUME NEW ok \in BOOLEAN, Fallback(ok) PROVE Child'
  BY <1>0, <1>24 DEF Fallback, Goto, poolVars, childVars, planVars
<1>25. CASE ToolsUsed
  BY <1>0, <1>25 DEF ToolsUsed, Goto, poolVars, childVars, planVars
<1>26. ASSUME NEW ok \in BOOLEAN, NEW next \in {"iterate", "legacy", "reflect"},
              Synthesize(ok, next)
       PROVE  Child'
  BY <1>0, <1>26 DEF Synthesize, Goto, Return, poolVars, childVars, planVars
<1>27. ASSUME NEW confident \in BOOLEAN, Iterate(confident) PROVE Child'
  BY <1>0, <1>27 DEF Iterate, Break, Goto, poolVars, childVars, planVars
<1>28. ASSUME NEW gaps \in BOOLEAN, Coverage(gaps) PROVE Child'
  BY <1>0, <1>28 DEF Coverage, Goto, Break, poolVars, childVars, planVars
<1>29. ASSUME NEW ok \in BOOLEAN, Resynthesize(ok) PROVE Child'
  BY <1>0, <1>29 DEF Resynthesize, Goto, poolVars, childVars, planVars
<1>30. ASSUME NEW n \in 0 .. MaxSubqueries, GenerateSubqueries(n) PROVE Child'
  BY <1>0, <1>30 DEF GenerateSubqueries, Break, Goto, poolVars, childVars, planVars
<1>31. ASSUME NEW n \in 1 .. MaxSubqueries, SpawnAreas(n) PROVE Child'
  BY <1>0, <1>31 DEF SpawnAreas, Goto, poolVars, childVars, planVars
<1>32. ASSUME NEW g \in Gaps, GapAcquire(g) PROVE Child'
  BY <1>0, <1>32 DEF GapAcquire, Stay, poolVars, childVars, planVars
<1>33. ASSUME NEW g \in Gaps, CollectArea(g) PROVE Child'
  BY <1>0, <1>33 DEF CollectArea, Stay, poolVars, childVars, planVars
<1>34. ASSUME NEW g \in Gaps, NEW accept \in BOOLEAN, NEW saturated \in BOOLEAN,
              CollectGap(g, accept, saturated)
       PROVE  Child'
  BY <1>0, <1>34 DEF CollectGap, Stay, poolVars, childVars, planVars
<1>35. ASSUME NEW cited \in BOOLEAN, NEW ok \in BOOLEAN, Enhance(cited, ok) PROVE Child'
  BY <1>0, <1>35 DEF Enhance, Goto, poolVars, childVars, planVars
<1>36. CASE SpawnGaps
  BY <1>0, <1>36 DEF SpawnGaps, Goto, poolVars, childVars, planVars
<1>37. CASE RoundEnds
  BY <1>0, <1>37 DEF RoundEnds, Goto, Break, poolVars, childVars, planVars
<1>38. CASE NothingFilled
  BY <1>0, <1>38 DEF NothingFilled, Goto, poolVars, childVars, planVars
<1>39. CASE Reflect
  BY <1>0, <1>39 DEF Reflect, Step, Goto, poolVars, childVars, planVars
<1>40. CASE Cite
  BY <1>0, <1>40 DEF Cite, Step, Goto, poolVars, childVars, planVars
<1>41. CASE Verify
  BY <1>0, <1>41 DEF Verify, Step, Goto, poolVars, childVars, planVars
<1>42. CASE Complete
  BY <1>0, <1>42 DEF Complete, Return, poolVars, childVars, planVars
<1>43. CASE Cancel
  BY <1>0, <1>43 DEF Cancel, Stay, poolVars, childVars, planVars
<1> QED
  BY <1>1, <1>2, <1>3, <1>4, <1>5, <1>6, <1>7, <1>8, <1>9, <1>10, <1>11, <1>12, <1>13,
     <1>14, <1>15, <1>16, <1>17, <1>18, <1>19, <1>20, <1>21, <1>22, <1>23, <1>24, <1>25,
     <1>26, <1>27, <1>28, <1>29, <1>30, <1>31, <1>32, <1>33, <1>34, <1>35, <1>36, <1>37,
     <1>38, <1>39, <1>40, <1>41, <1>42, <1>43 DEF Next, Workflow, Execution, GapFilling

(* Every step keeps what is said of the report.                             *)
(* What is kept changes as the counts do.                                   *)
LEMMA KeptFacts ==
    ASSUME IInv
    PROVE  /\ results' = results => Kept' = Kept
           /\ \A s : results' = Add(results, s) => Kept' = Kept \union (s \intersect Agents)
<1> SUFFICES ASSUME NEW s, results' = Add(results, s)
             PROVE  Kept' = Kept \union (s \intersect Agents)
  BY DEF Kept
<1>1. /\ results \in [Agents -> Nat]
      /\ \A a \in Agents : results'[a] = IF a \in s THEN results[a] + 1 ELSE results[a]
  BY CountFacts DEF IInv, Types, WorkTypes
<1> QED
  BY <1>1 DEF Kept

LEMMA ReportStep ==
    ASSUME IInv, Next
    PROVE  Report'
<1> USE DEF Report, FinalEvidence, Rounds, Finishing
<1>0. /\ Report /\ Place /\ stage \in Stages
      /\ results' = results => Kept' = Kept
      /\ \A s : results' = Add(results, s) => Kept' = Kept \union (s \intersect Agents)
  BY KeptFacts DEF IInv, Types, WorkTypes
<1>1. CASE Cancelled
  BY <1>0, <1>1 DEF Cancelled, Checkpoints, Return, gatherVars, reportVars, Stages
<1>2. ASSUME NEW ok \in BOOLEAN, NEW isCompany \in BOOLEAN, Refine(ok, isCompany) PROVE Report'
  BY <1>0, <1>2 DEF Refine, CheckPausePoint, Goto, reportVars, Stages
<1>3. ASSUME NEW p \in Plans, Decompose(p) PROVE Report'
  BY <1>0, <1>3 DEF Decompose, CheckPausePoint, Goto, gatherVars, reportVars, Stages
<1>4. CASE DecomposeFails
  BY <1>0, <1>4 DEF DecomposeFails, CheckPausePoint, Return, gatherVars, reportVars, Stages
<1>5. ASSUME NEW analyse \in BOOLEAN, NEW m \in Modes(analyse),
             NEW seq \in TopologicalSort(Executing, deps), Route(analyse, m, seq)
      PROVE  Report'
  BY <1>0, <1>5 DEF Route, CheckPausePoint, Goto, gatherVars, reportVars, Stages
<1>6. ASSUME NEW t \in Tasks, Ready(t) PROVE Report'
  BY <1>0, <1>6 DEF Ready, Stay, gatherVars, reportVars, Stages
<1>7. ASSUME NEW t \in Tasks, Expire(t) PROVE Report'
  BY <1>0, <1>7 DEF Expire, Stay, gatherVars, reportVars, Stages
<1>8. ASSUME NEW t \in Tasks, Acquire(t) PROVE Report'
  BY <1>0, <1>8 DEF Acquire, Stay, gatherVars, reportVars, Stages
<1>9. ASSUME NEW t \in Tasks, CollectHybrid(t) PROVE Report'
  BY <1>0, <1>9 DEF CollectHybrid, Executor, Stay, gatherVars, reportVars, Stages
<1>10. ASSUME NEW t \in Tasks, CollectParallel(t) PROVE Report'
  BY <1>0, <1>10 DEF CollectParallel, Stay, gatherVars, reportVars, Stages
<1>11. ASSUME NEW t \in Tasks, CollectReact(t) PROVE Report'
  BY <1>0, <1>11 DEF CollectReact, InOrder, Stay, reportVars, Stages
<1>12. ASSUME NEW ok \in BOOLEAN, React(ok) PROVE Report'
  BY <1>0, <1>12 DEF React, Goto, Return, reportVars, Stages
<1>13. ASSUME NEW ok \in BOOLEAN, AnalysisEnds(ok) PROVE Report'
  BY <1>0, <1>13 DEF AnalysisEnds, Stay, gatherVars, reportVars, Stages
<1>14. ASSUME NEW a \in Agents, NEW ok \in BOOLEAN, Answer(a, ok) PROVE Report'
  BY <1>0, <1>14 DEF Answer, Stay, gatherVars, reportVars, Stages
<1>15. CASE StartNext
  BY <1>0, <1>15 DEF StartNext, InOrder, Stay, gatherVars, reportVars, Stages
<1>16. CASE ReactsDone
  BY <1>0, <1>16 DEF ReactsDone, InOrder, Goto, gatherVars, reportVars, Stages
<1>17. CASE ExecutorDone
  BY <1>0, <1>17 DEF ExecutorDone, Goto, reportVars, Stages
<1>18. CASE Phase1Done
  BY <1>0, <1>18 DEF Phase1Done, Digest, Stay, reportVars, Stages
<1>19. CASE Phase3Done
  BY <1>0, <1>19 DEF Phase3Done, Digest, Goto, reportVars, Stages
<1>20. CASE Await
  BY <1>0, <1>20 DEF Await, Digest, Goto, reportVars, Stages
<1>21. ASSUME NEW langs \in SUBSET Languages, Localize(langs) PROVE Report'
  BY <1>0, <1>21 DEF Localize, Goto, Forget, gatherVars, reportVars, Stages
<1>22. ASSUME NEW l \in Languages, CollectLanguage(l) PROVE Report'
  BY <1>0, <1>22 DEF CollectLanguage, Stay, reportVars, Stages
<1>23. ASSUME NEW entity \in BOOLEAN, Filter(entity) PROVE Report'
  BY <1>0, <1>23 DEF Filter, Goto, reportVars, Stages
<1>24. ASSUME NEW ok \in BOOLEAN, Fallback(ok) PROVE Report'
  BY <1>0, <1>24 DEF Fallback, CheckPausePoint, Goto, reportVars, Stages
<1>25. CASE ToolsUsed
  BY <1>0, <1>25 DEF ToolsUsed, CheckPausePoint, Goto, gatherVars, reportVars, Stages
<1>26. ASSUME NEW ok \in BOOLEAN, NEW next \in {"iterate", "legacy", "reflect"},
              Synthesize(ok, next)
       PROVE  Report'
  BY <1>0, <1>26 DEF Synthesize, Goto, Return, gatherVars, Stages
<1>27. ASSUME NEW confident \in BOOLEAN, Iterate(confident) PROVE Report'
  BY <1>0, <1>27 DEF Iterate, CheckPausePoint, Break, Goto, gatherVars, reportVars, Stages
<1>28. ASSUME NEW gaps \in BOOLEAN, Coverage(gaps) PROVE Report'
  BY <1>0, <1>28 DEF Coverage, CheckPausePoint, Goto, Break, gatherVars, reportVars, Stages
<1>29. ASSUME NEW ok \in BOOLEAN, Resynthesize(ok) PROVE Report'
  BY <1>0, <1>29 DEF Resynthesize, Goto, gatherVars, Stages
<1>30. ASSUME NEW n \in 0 .. MaxSubqueries, GenerateSubqueries(n) PROVE Report'
  BY <1>0, <1>30 DEF GenerateSubqueries, CheckPausePoint, Break, Goto, gatherVars,
          reportVars, Stages
<1>31. ASSUME NEW n \in 1 .. MaxSubqueries, SpawnAreas(n) PROVE Report'
  BY <1>0, <1>31 DEF SpawnAreas, Goto, gatherVars, reportVars, Stages
<1>32. ASSUME NEW g \in Gaps, GapAcquire(g) PROVE Report'
  BY <1>0, <1>32 DEF GapAcquire, Stay, gatherVars, reportVars, Stages
<1>33. ASSUME NEW g \in Gaps, CollectArea(g) PROVE Report'
  BY <1>0, <1>33 DEF CollectArea, Stay, reportVars, Stages
<1>34. ASSUME NEW g \in Gaps, NEW accept \in BOOLEAN, NEW saturated \in BOOLEAN,
              CollectGap(g, accept, saturated)
       PROVE  Report'
  <2>1. /\ stage = "gaps" /\ stage' = stage /\ outcome' = outcome /\ current' = current
        /\ basis' = basis
    BY <1>34 DEF CollectGap, Stay
  <2>2. filled' \/ Kept' = Kept
    BY <1>0, <1>34 DEF CollectGap
  <2>3. filled => filled'
    BY <1>34 DEF CollectGap
  <2> QED
    BY <1>0, <2>1, <2>2, <2>3
<1>35. ASSUME NEW cited \in BOOLEAN, NEW ok \in BOOLEAN, Enhance(cited, ok) PROVE Report'
  BY <1>0, <1>35 DEF Enhance, Goto, gatherVars, Stages
<1>36. CASE SpawnGaps
  BY <1>0, <1>36 DEF SpawnGaps, CheckPausePoint, Goto, gatherVars, reportVars, Stages
<1>37. CASE RoundEnds
  BY <1>0, <1>37 DEF RoundEnds, Goto, Break, gatherVars, reportVars, Stages
<1>38. CASE NothingFilled
  BY <1>0, <1>38 DEF NothingFilled, Goto, gatherVars, reportVars, Stages
<1>39. CASE Reflect
  BY <1>0, <1>39 DEF Reflect, Step, CheckPausePoint, Goto, gatherVars, reportVars, Stages
<1>40. CASE Cite
  BY <1>0, <1>40 DEF Cite, Step, CheckPausePoint, Goto, gatherVars, reportVars, Stages
<1>41. CASE Verify
  BY <1>0, <1>41 DEF Verify, Step, CheckPausePoint, Goto, gatherVars, reportVars, Stages
<1>42. CASE Complete
  BY <1>0, <1>42 DEF Complete, CheckPausePoint, Return, gatherVars, reportVars, Stages
<1>43. CASE Cancel
  BY <1>0, <1>43 DEF Cancel, Stay, gatherVars, reportVars, Stages
<1> QED
  BY <1>1, <1>2, <1>3, <1>4, <1>5, <1>6, <1>7, <1>8, <1>9, <1>10, <1>11, <1>12, <1>13,
     <1>14, <1>15, <1>16, <1>17, <1>18, <1>19, <1>20, <1>21, <1>22, <1>23, <1>24, <1>25,
     <1>26, <1>27, <1>28, <1>29, <1>30, <1>31, <1>32, <1>33, <1>34, <1>35, <1>36, <1>37,
     <1>38, <1>39, <1>40, <1>41, <1>42, <1>43 DEF Next, Workflow, Execution, GapFilling

(* The counts after a step.                                                 *)
LEMMA CountsNext ==
    ASSUME IInv
    PROVE  /\ results \in [Agents -> Nat] /\ total \in [Calls -> Nat]
           /\ \A s : results' = Add(results, s) =>
                 \A a \in Agents : results'[a] = IF a \in s THEN results[a] + 1 ELSE results[a]
           /\ \A s : total' = Add(total, s) =>
                 \A c \in Calls : total'[c] = IF c \in s THEN total[c] + 1 ELSE total[c]
           /\ \A s : total' = Only(s) => \A c \in Calls : total'[c] = IF c \in s THEN 1 ELSE 0
  BY CountFacts, OnlyFacts DEF IInv, Types, WorkTypes

(* Every step leaves at zero what is not counted yet.                       *)
LEMMA FreshStep ==
    ASSUME IInv, Next
    PROVE  Fresh'
<1> USE IdFacts DEF Fresh, Uncounted, Early, InOrder
<1>0. /\ Fresh /\ Place /\ stage \in Stages /\ pool \subseteq Agents /\ co \in [Agents -> CoStates]
  BY CountsNext DEF IInv, Types, WorkTypes
<1>c. /\ results \in [Agents -> Nat] /\ total \in [Calls -> Nat]
      /\ \A s : results' = Add(results, s) =>
            \A a \in Agents : results'[a] = IF a \in s THEN results[a] + 1 ELSE results[a]
      /\ \A s : total' = Add(total, s) =>
            \A c \in Calls : total'[c] = IF c \in s THEN total[c] + 1 ELSE total[c]
      /\ \A s : total' = Only(s) => \A c \in Calls : total'[c] = IF c \in s THEN 1 ELSE 0
  BY CountsNext
<1>1. CASE Cancelled
  BY <1>0, <1>1 DEF Cancelled, Checkpoints, Return, poolVars, gatherVars, Stages, planVars
<1>2. ASSUME NEW ok \in BOOLEAN, NEW isCompany \in BOOLEAN, Refine(ok, isCompany) PROVE Fresh'
  BY <1>0, <1>2, <1>c DEF Refine, Goto, poolVars, Stages, gatherVars, planVars
<1>3. ASSUME NEW p \in Plans, Decompose(p) PROVE Fresh'
  BY <1>0, <1>3 DEF Decompose, Goto, poolVars, gatherVars, Stages, planVars
<1>4. CASE DecomposeFails
  BY <1>0, <1>4 DEF DecomposeFails, Return, poolVars, gatherVars, Stages, planVars
<1>5. ASSUME NEW analyse \in BOOLEAN, NEW m \in Modes(analyse),
             NEW seq \in TopologicalSort(Executing, deps), Route(analyse, m, seq)
      PROVE  Fresh'
  BY <1>0, <1>5 DEF Route, Goto, gatherVars, Stages, poolVars, planVars
<1>6. ASSUME NEW t \in Tasks, Ready(t) PROVE Fresh'
  BY <1>0, <1>6 DEF Ready, Stay, poolVars, gatherVars, Stages, planVars
<1>7. ASSUME NEW t \in Tasks, Expire(t) PROVE Fresh'
  BY <1>0, <1>7 DEF Expire, Stay, poolVars, gatherVars, Stages, planVars
<1>8. ASSUME NEW t \in Tasks, Acquire(t) PROVE Fresh'
  BY <1>0, <1>8 DEF Acquire, Stay, gatherVars, Begin, Stages, poolVars, planVars
<1>9. ASSUME NEW t \in Tasks, CollectHybrid(t) PROVE Fresh'
  BY <1>0, <1>9 DEF CollectHybrid, Executor, Heard, Stay, gatherVars, Stages, poolVars,
          planVars
<1>10. ASSUME NEW t \in Tasks, CollectParallel(t) PROVE Fresh'
  BY <1>0, <1>10 DEF CollectParallel, Heard, Stay, poolVars, gatherVars, Stages, planVars
<1>11. ASSUME NEW t \in Tasks, CollectReact(t) PROVE Fresh'
  <2>1. PICK new : new = IF co[t] = "good" THEN {t} ELSE {}
    OBVIOUS
  <2>2. results' = Add(results, new) /\ total' = Add(total, new)
    BY <1>11, <2>1 DEF CollectReact
  <2>3. /\ stage' = stage /\ mode' = mode /\ pool' \subseteq pool /\ t \in Agents
        /\ co' = [co EXCEPT ![t] = IF @ = "good" THEN "counted" ELSE "void"]
        /\ new # {} => co[t] = "good"
    BY <1>11, <2>1 DEF CollectReact, Heard, Stay, poolVars, planVars
  <2>4. ASSUME NEW a \in Agents, Uncounted(a)' PROVE a \notin new /\ Uncounted(a)
    BY <1>0, <1>11, <2>1, <2>3, <2>4 DEF CollectReact, Place
  <2> QED
    BY <1>0, <1>c, <2>2, <2>4 DEF Fresh
<1>12. ASSUME NEW ok \in BOOLEAN, React(ok) PROVE Fresh'
  BY <1>0, <1>12, <1>c DEF React, Goto, Return, poolVars, Place, Stages, gatherVars,
          planVars
<1>13. ASSUME NEW ok \in BOOLEAN, AnalysisEnds(ok) PROVE Fresh'
  BY <1>0, <1>13 DEF AnalysisEnds, Stay, poolVars, gatherVars, Stages, planVars
<1>14. ASSUME NEW a \in Agents, NEW ok \in BOOLEAN, Answer(a, ok) PROVE Fresh'
  BY <1>0, <1>14 DEF Answer, Stay, poolVars, gatherVars, Stages, planVars
<1>15. CASE StartNext
  <2>1. Head(order) \in Tasks /\ co[Head(order)] # "counted"
    BY <1>0, <1>15, TailFacts DEF StartNext, Place, IInv, Types, PlanTypes
  <2> QED
    BY <1>0, <1>15, <2>1 DEF StartNext, Begin, Stay, gatherVars, planVars
<1>16. CASE ReactsDone
  BY <1>0, <1>16 DEF ReactsDone, InOrder, Goto, poolVars, gatherVars, Place, Stages,
          planVars
<1>17. CASE ExecutorDone
  BY <1>0, <1>17, <1>c DEF ExecutorDone, Goto, Counted, poolVars, Place, Stages, gatherVars,
          planVars
<1>18. CASE Phase1Done
  <2>1. results' = Add(results, Counted) /\ total' = Add(total, Counted)
    BY <1>18 DEF Phase1Done
  <2>2. \A a \in Agents : results[a] = 0 /\ total[a] = 0
    BY <1>0, <1>18 DEF Phase1Done
  <2>3. /\ stage' = "execute" /\ mode' = "phase3" /\ pool' = Dependents
        /\ \A a \in Agents : co'[a] = IF a \notin Dependents THEN co[a]
                                      ELSE IF deps[a] = {} THEN "queued" ELSE "waiting"
    BY <1>18, EnlistFacts DEF Phase1Done, Stay, IInv
  <2>4. ASSUME NEW t \in Counted PROVE t \notin Dependents
    <3>1. t \in Begun /\ Domain \in Pending /\ deps[t] \intersect Pending = {}
      BY <1>0, <1>18, <2>4 DEF Phase1Done, Counted, Begun, Pending, Place, IInv, Dependencies,
              Executor
    <3> QED
      BY <3>1 DEF Dependents
  <2>5. ASSUME NEW a \in Agents, Uncounted(a)' PROVE a \notin Counted
    BY <1>0, <1>18, <2>3, <2>4, <2>5 DEF Counted, Place, Phase1Done
  <2> QED
    BY <1>c, <2>1, <2>2, <2>5 DEF Fresh
<1>19. CASE Phase3Done
  <2>1. PICK first : first = IF pool = {} THEN results ELSE Add(results, Answers)
    OBVIOUS
  <2>2. first \in [Agents -> Nat] /\ \A a \in Agents : a \notin Answers => first[a] = results[a]
    BY <1>c, <2>1, CountFacts, StateFacts DEF IInv
  <2>3. results' = Add(first, Digest) /\ total' = Add(total, Counted \union Digest)
    BY <1>19, <2>1 DEF Phase3Done
  <2>4. \A a \in Agents : a \notin Answers \union Digest => results'[a] = results[a]
    BY <2>2, <2>3, AddFacts
  <2>5. ASSUME NEW a \in Agents, Uncounted(a)'
        PROVE  a \notin Answers \union Digest \union Counted /\ Uncounted(a)
    <3>1. Answers \union Digest \union Counted \subseteq Ids /\ pool \subseteq Tasks
      BY <1>0, <1>19, StateFacts DEF Phase3Done, Place, IInv, Types, PlanTypes
    <3>2. \A b \in Agents \ Tasks : co[b] # "counted"
      BY <1>0, <1>19 DEF Phase3Done, Place
    <3>3. stage' = "localize" /\ co' = co
      BY <1>19 DEF Phase3Done, Goto
    <3>4. a \in Gaps \/ a \in Languages \/ a = Searcher
      BY <2>5, <3>3
    <3>5. Uncounted(a)
      BY <1>19, <3>2, <3>4 DEF Phase3Done
    <3> QED
      BY <3>1, <3>4, <3>5
  <2>6. ASSUME NEW a \in Agents, Uncounted(a)' PROVE results'[a] = 0 /\ total'[a] = 0
    <3>1. results[a] = 0 /\ total[a] = 0 /\ a \notin Answers \union Digest \union Counted
      BY <1>0, <2>5, <2>6 DEF Fresh
    <3>2. PICK new : new = Counted \union Digest
      OBVIOUS
    <3>3. total' = Add(total, new) /\ a \notin new
      BY <2>3, <3>1, <3>2
    <3>4. total'[a] = total[a]
      BY <1>c, <3>3
    <3>5. results'[a] = results[a]
      BY <2>4, <3>1
    <3> QED
      BY <3>1, <3>4, <3>5
  <2> QED
    BY <2>6 DEF Fresh
<1>20. CASE Await
  <2>1. results' = Add(results, Digest) /\ total' = Add(total, Digest)
    BY <1>20 DEF Await
  <2>2. ASSUME NEW a \in Agents, Uncounted(a)' PROVE a \notin Digest /\ Uncounted(a)
    BY <1>0, <1>20, <2>2 DEF Await, Goto, Digest, poolVars
  <2> QED
    BY <1>0, <1>c, <2>1, <2>2 DEF Fresh
<1>21. ASSUME NEW langs \in SUBSET Languages, Localize(langs) PROVE Fresh'
  BY <1>0, <1>21 DEF Localize, Goto, Forget, gatherVars, Place, Stages, poolVars, planVars
<1>22. ASSUME NEW l \in Languages, CollectLanguage(l) PROVE Fresh'
  <2>1. PICK new : new = IF co[l] = "good" THEN {l} ELSE {}
    OBVIOUS
  <2>2. results' = Add(results, new) /\ total' = Add(total, new)
    BY <1>22, <2>1 DEF CollectLanguage
  <2>3. /\ stage' = stage /\ mode' = mode /\ pool' \subseteq pool /\ l \in Agents
        /\ co' = [co EXCEPT ![l] = IF @ = "good" THEN "counted" ELSE "void"]
        /\ new # {} => co[l] = "good"
    BY <1>22, <2>1 DEF CollectLanguage, Heard, Stay, poolVars, planVars
  <2>4. ASSUME NEW a \in Agents, Uncounted(a)' PROVE a \notin new /\ Uncounted(a)
    BY <1>0, <1>22, <2>1, <2>3, <2>4 DEF CollectLanguage, Place
  <2> QED
    BY <1>0, <1>c, <2>2, <2>4 DEF Fresh
<1>23. ASSUME NEW entity \in BOOLEAN, Filter(entity) PROVE Fresh'
  BY <1>0, <1>23, <1>c DEF Filter, Goto, Place, Kept, Stages, poolVars, gatherVars, planVars
<1>24. ASSUME NEW ok \in BOOLEAN, Fallback(ok) PROVE Fresh'
  <2>1. PICK new : new = IF ok THEN {Searcher} ELSE {}
    OBVIOUS
  <2>2. results' = Add(results, new) /\ total' = Add(total, new)
    BY <1>24, <2>1 DEF Fallback
  <2>3. ASSUME NEW a \in Agents, Uncounted(a)' PROVE a \notin new /\ Uncounted(a)
    BY <1>24, <2>1, <2>3 DEF Fallback, Goto
  <2> QED
    BY <1>0, <1>c, <2>2, <2>3 DEF Fresh
<1>25. CASE ToolsUsed
  BY <1>0, <1>25 DEF ToolsUsed, Goto, poolVars, gatherVars, Stages, planVars
<1>26. ASSUME NEW ok \in BOOLEAN, NEW next \in {"iterate", "legacy", "reflect"},
              Synthesize(ok, next)
       PROVE  Fresh'
  BY <1>0, <1>26 DEF Synthesize, Goto, Return, poolVars, gatherVars, Stages, planVars
<1>27. ASSUME NEW confident \in BOOLEAN, Iterate(confident) PROVE Fresh'
  BY <1>0, <1>27 DEF Iterate, Break, Goto, poolVars, gatherVars, Stages, planVars
<1>28. ASSUME NEW gaps \in BOOLEAN, Coverage(gaps) PROVE Fresh'
  BY <1>0, <1>28 DEF Coverage, Goto, Break, poolVars, gatherVars, Stages, planVars
<1>29. ASSUME NEW ok \in BOOLEAN, Resynthesize(ok) PROVE Fresh'
  BY <1>0, <1>29 DEF Resynthesize, Goto, poolVars, gatherVars, Stages, planVars
<1>30. ASSUME NEW n \in 0 .. MaxSubqueries, GenerateSubqueries(n) PROVE Fresh'
  BY <1>0, <1>30 DEF GenerateSubqueries, Break, Goto, gatherVars, Stages, poolVars, planVars
<1>31. ASSUME NEW n \in 1 .. MaxSubqueries, SpawnAreas(n) PROVE Fresh'
  BY <1>0, <1>31 DEF SpawnAreas, Goto, gatherVars, Place, Stages, poolVars, planVars
<1>32. ASSUME NEW g \in Gaps, GapAcquire(g) PROVE Fresh'
  BY <1>0, <1>32 DEF GapAcquire, Stay, poolVars, gatherVars, Stages, planVars
<1>33. ASSUME NEW g \in Gaps, CollectArea(g) PROVE Fresh'
  BY <1>0, <1>33, <1>c DEF CollectArea, Heard, Stay, poolVars, Stages, gatherVars, planVars
<1>34. ASSUME NEW g \in Gaps, NEW accept \in BOOLEAN, NEW saturated \in BOOLEAN,
              CollectGap(g, accept, saturated)
       PROVE  Fresh'
  <2>1. PICK new : new = IF accept THEN {g} ELSE {}
    OBVIOUS
  <2>2. results' = Add(results, new) /\ total' = Add(total, new)
    BY <1>34, <2>1 DEF CollectGap
  <2>3. /\ stage' = stage /\ mode' = mode /\ pool' \subseteq pool /\ g \in Agents
        /\ co' = [co EXCEPT ![g] = IF @ = "good" THEN "counted" ELSE "void"]
        /\ new # {} => co[g] = "good"
    BY <1>34, <2>1 DEF CollectGap, Heard, Stay, poolVars, planVars
  <2>4. ASSUME NEW a \in Agents, Uncounted(a)' PROVE a \notin new /\ Uncounted(a)
    BY <1>0, <1>34, <2>1, <2>3, <2>4 DEF CollectGap, Place
  <2> QED
    BY <1>0, <1>c, <2>2, <2>4 DEF Fresh
<1>35. ASSUME NEW cited \in BOOLEAN, NEW ok \in BOOLEAN, Enhance(cited, ok) PROVE Fresh'
  BY <1>0, <1>35 DEF Enhance, Counted, Goto, poolVars, gatherVars, Stages, planVars
<1>36. CASE SpawnGaps
  <2>1. pool \subseteq Gaps /\ \A g \in pool : g[1] = round
    BY <1>0, <1>36, GapFacts DEF SpawnGaps, Place, IInv, Types, WorkTypes
  <2>2. \A g \in pool : co[g] # "counted"
    BY <1>0, <1>36, <2>1, GapFacts DEF SpawnGaps, Place, Rounds, IInv, Types, WorkTypes
  <2> QED
    BY <1>0, <1>36, <2>1, <2>2 DEF SpawnGaps, Goto, gatherVars
<1>37. CASE RoundEnds
  BY <1>0, <1>37 DEF RoundEnds, Goto, Break, poolVars, gatherVars, Stages, planVars
<1>38. CASE NothingFilled
  BY <1>0, <1>38 DEF NothingFilled, Goto, poolVars, gatherVars, Stages, planVars
<1>39. CASE Reflect
  BY <1>0, <1>39 DEF Reflect, Step, Goto, poolVars, gatherVars, Stages, planVars
<1>40. CASE Cite
  BY <1>0, <1>40 DEF Cite, Step, Goto, poolVars, gatherVars, Stages, planVars
<1>41. CASE Verify
  BY <1>0, <1>41 DEF Verify, Step, Goto, poolVars, gatherVars, Stages, planVars
<1>42. CASE Complete
  BY <1>0, <1>42 DEF Complete, Return, poolVars, gatherVars, Stages, planVars
<1>43. CASE Cancel
  BY <1>0, <1>43 DEF Cancel, Stay, poolVars, gatherVars, Stages, planVars
<1> QED
  BY <1>1, <1>2, <1>3, <1>4, <1>5, <1>6, <1>7, <1>8, <1>9, <1>10, <1>11, <1>12, <1>13,
     <1>14, <1>15, <1>16, <1>17, <1>18, <1>19, <1>20, <1>21, <1>22, <1>23, <1>24, <1>25,
     <1>26, <1>27, <1>28, <1>29, <1>30, <1>31, <1>32, <1>33, <1>34, <1>35, <1>36, <1>37,
     <1>38, <1>39, <1>40, <1>41, <1>42, <1>43 DEF Next, Workflow, Execution, GapFilling

(* Results that were not counted yet, and the tokens of their agents, are    *)
(* added together.                                                          *)
LEMMA NewlyPaid ==
    ASSUME IInv, NEW s, s \subseteq Agents, s \subseteq spent', spent \subseteq spent',
           results' = Add(results, s), total' = Add(total, s),
           \A a \in s : results[a] = 0 /\ total[a] = 0
    PROVE  Once'
<1>1. Once
  BY DEF IInv, Paid
<1>2. \A a \in Agents : results'[a] = IF a \in s THEN results[a] + 1 ELSE results[a]
  BY CountsNext
<1>3. \A c \in Calls : total'[c] = IF c \in s THEN total[c] + 1 ELSE total[c]
  BY CountsNext
<1> QED
  BY <1>1, <1>2, <1>3, IdFacts DEF Once

(* What is counted was paid for.                                            *)
LEMMA PaidStep ==
    ASSUME IInv, Next
    PROVE  Paid'
<1> USE IdFacts DEF Paid
<1>0. /\ Paid /\ Fresh /\ stage \in Stages /\ pool \subseteq Agents /\ co \in [Agents -> CoStates]
      /\ spent \subseteq Calls
      /\ Digest \subseteq spent /\ \A a \in Agents : co[a] \in Answered => a \in spent
  BY DEF IInv, Types, WorkTypes, Spendings
<1>c. /\ results \in [Agents -> Nat] /\ total \in [Calls -> Nat]
      /\ \A s : results' = Add(results, s) =>
            \A a \in Agents : results'[a] = IF a \in s THEN results[a] + 1 ELSE results[a]
      /\ \A s : total' = Add(total, s) =>
            \A c \in Calls : total'[c] = IF c \in s THEN total[c] + 1 ELSE total[c]
      /\ \A s : total' = Only(s) => \A c \in Calls : total'[c] = IF c \in s THEN 1 ELSE 0
  BY CountsNext
<1>1. CASE Cancelled
  BY <1>0, <1>1 DEF Cancelled, Checkpoints, Return, poolVars, gatherVars, Once, planVars
<1>2. ASSUME NEW ok \in BOOLEAN, NEW isCompany \in BOOLEAN, Refine(ok, isCompany) PROVE Paid'
  BY <1>0, <1>2, <1>c DEF Refine, Goto, poolVars, Fresh, Uncounted, Early, InOrder,
          Answered, Once, gatherVars, planVars
<1>3. ASSUME NEW p \in Plans, Decompose(p) PROVE Paid'
  BY <1>0, <1>3 DEF Decompose, Goto, poolVars, gatherVars, Once, planVars
<1>4. CASE DecomposeFails
  BY <1>0, <1>4 DEF DecomposeFails, Return, poolVars, gatherVars, Once, planVars
<1>5. ASSUME NEW analyse \in BOOLEAN, NEW m \in Modes(analyse),
             NEW seq \in TopologicalSort(Executing, deps), Route(analyse, m, seq)
      PROVE  Paid'
  <2>1. m # "phase3"
    BY RouteFacts DEF IInv, Types, InOrder
  <2> QED
    <3>1. Once'
      BY <1>0, <1>5 DEF Route, gatherVars, Once
    <3> QED
      BY <1>5, <2>1, <3>1 DEF Route, Goto
<1>6. ASSUME NEW t \in Tasks, Ready(t) PROVE Paid'
  BY <1>0, <1>6 DEF Ready, Stay, poolVars, gatherVars, Once, planVars
<1>7. ASSUME NEW t \in Tasks, Expire(t) PROVE Paid'
  BY <1>0, <1>7 DEF Expire, Stay, poolVars, gatherVars, Once, planVars
<1>8. ASSUME NEW t \in Tasks, Acquire(t) PROVE Paid'
  <2>1. t \in Agents /\ t \in pool
    BY <1>8 DEF Acquire, IInv, Place, Unheard
  <2> QED
    <3>1. Once'
      BY <1>0, <1>8 DEF Acquire, gatherVars, Once
    <3>2. \A a \in Agents \ pool : co'[a] = co[a]
      BY <2>1, <1>8 DEF Acquire, Begin
    <3> QED
      BY <1>0, <1>8, <3>1, <3>2 DEF Acquire, Stay, gatherVars, planVars
<1>9. ASSUME NEW t \in Tasks, CollectHybrid(t) PROVE Paid'
  BY <1>0, <1>9 DEF CollectHybrid, Executor, Heard, Stay, gatherVars, Once, poolVars,
          planVars
<1>10. ASSUME NEW t \in Tasks, CollectParallel(t) PROVE Paid'
  BY <1>0, <1>10 DEF CollectParallel, Heard, Stay, poolVars, gatherVars, Once, planVars
<1>11. ASSUME NEW t \in Tasks, CollectReact(t) PROVE Paid'
  <2>1. PICK new : new = IF co[t] = "good" THEN {t} ELSE {}
    OBVIOUS
  <2>2. results' = Add(results, new) /\ total' = Add(total, new)
    BY <1>11, <2>1 DEF CollectReact
  <2>3. new \subseteq spent' /\ spent \subseteq spent' /\ new \subseteq Agents
    BY <1>0, <1>11, <2>1 DEF CollectReact, Answered
  <2>4. \A a \in new : results[a] = 0 /\ total[a] = 0
    BY <1>0, <1>11, <2>1 DEF CollectReact, Fresh, Uncounted, InOrder
  <2>5. Once'
    BY <2>2, <2>3, <2>4, NewlyPaid
  <2> QED
    BY <1>11, <2>5 DEF CollectReact, Stay, planVars, InOrder
<1>12. ASSUME NEW ok \in BOOLEAN, React(ok) PROVE Paid'
  BY <1>0, <1>12, <1>c DEF React, Goto, Return, poolVars, Fresh, Uncounted, Early, InOrder,
          Answered, Once, gatherVars, planVars
<1>13. ASSUME NEW ok \in BOOLEAN, AnalysisEnds(ok) PROVE Paid'
  BY <1>0, <1>13 DEF AnalysisEnds, Stay, poolVars, gatherVars, Once, planVars
<1>14. ASSUME NEW a \in Agents, NEW ok \in BOOLEAN, Answer(a, ok) PROVE Paid'
  BY <1>0, <1>14 DEF Answer, Stay, poolVars, gatherVars, Once, planVars
<1>15. CASE StartNext
  BY <1>0, <1>15 DEF StartNext, InOrder, Stay, gatherVars, Once, poolVars, planVars
<1>16. CASE ReactsDone
  BY <1>0, <1>16 DEF ReactsDone, InOrder, Goto, poolVars, gatherVars, Once, planVars
<1>17. CASE ExecutorDone
  BY <1>0, <1>17, <1>c DEF ExecutorDone, Goto, Counted, poolVars, Fresh, Uncounted, Early,
          InOrder, Answered, Once, gatherVars, planVars
<1>18. CASE Phase1Done
  <2>1. Counted \subseteq Agents /\ Counted \subseteq spent
    BY <1>0 DEF Counted, Answered
  <2>2. \A a \in Agents : results[a] = 0 /\ total[a] = 0
    BY <1>0, <1>18 DEF Phase1Done, Fresh, Uncounted, InOrder
  <2>3. Once'
    BY <1>18, <2>1, <2>2, NewlyPaid DEF Phase1Done
  <2>4. \A a \in Agents \ pool' : co'[a] = "counted" => a \in Counted
    <3>1. pool' = Dependents /\ \A a \in Agents \ Dependents : co'[a] = co[a]
      BY <1>18, EnlistFacts DEF Phase1Done, IInv
    <3>2. \A a \in Agents : co[a] = "counted" => a \in pool
      BY <1>18 DEF Phase1Done, IInv, Place, Unheard
    <3> QED
      BY <3>1, <3>2 DEF Counted
  <2>5. \A a \in Counted : results'[a] = 1
    BY <1>c, <1>18, <2>1, <2>2 DEF Phase1Done
  <2> QED
    BY <1>18, <2>3, <2>4, <2>5 DEF Phase1Done, Stay
<1>19. CASE Phase3Done
  <2>1. PICK first : first = IF pool = {} THEN results ELSE Add(results, Answers)
    OBVIOUS
  <2>2. /\ first \in [Agents -> Nat]
        /\ \A a \in Agents : first[a] =
                IF pool # {} /\ a \in Answers THEN results[a] + 1 ELSE results[a]
    BY <1>c, <2>1, CountFacts, StateFacts DEF IInv
  <2>3. results' = Add(first, Digest) /\ total' = Add(total, Counted \union Digest)
    BY <1>19, <2>1 DEF Phase3Done
  <2>4. \A a \in Agents : results'[a] = IF a \in Digest THEN first[a] + 1 ELSE first[a]
    BY <2>2, <2>3, AddFacts
  <2>5. PICK new : new = Counted \union Digest
    OBVIOUS
  <2>6. \A c \in Calls : total'[c] = IF c \in new THEN total[c] + 1 ELSE total[c]
    <3>1. total' = Add(total, new)
      BY <2>3, <2>5
    <3> QED
      BY <1>c, <3>1
  <2>7. new \subseteq spent /\ Counted \subseteq pool /\ Digest \subseteq {Domain}
    BY <1>0, <2>5 DEF Counted, Digest, Answered
  <2>8. /\ pool \subseteq Tasks /\ Domain \notin pool /\ co[Domain] # "counted"
        /\ \A a \in pool : results[a] = 0 /\ total[a] = 0
        /\ results[Domain] = 0 /\ total[Domain] = 0
    BY <1>0, <1>19 DEF Phase3Done, IInv, Place, Fresh, Uncounted
  <2>9. Domain \in entries => Domain \in Digest
    BY <1>19 DEF Phase3Done, IInv, Child, Digest
  <2>10. ASSUME NEW a \in Agents
         PROVE  results'[a] \in 0 .. 2 /\ (results'[a] > 0 => total'[a] = 1)
    <3>1. CASE a = Domain
      BY <1>c, <2>2, <2>4, <2>5, <2>6, <2>8, <2>9, <3>1 DEF Answers
    <3>2. CASE a \in pool
      BY <1>c, <2>2, <2>4, <2>5, <2>6, <2>7, <2>8, <3>2 DEF Answers, Counted
    <3>3. CASE a # Domain /\ a \notin pool
      <4>1. results'[a] = first[a] /\ total'[a] = total[a]
        BY <1>c, <2>2, <2>4, <2>5, <2>6, <2>7, <3>3
      <4>2. a \in Answers => co[a] = "counted"
        BY <3>3 DEF Answers
      <4>3. co[a] = "counted" => results[a] = 1
        BY <1>0, <1>19, <3>3 DEF Phase3Done
      <4> QED
        BY <1>0, <1>c, <2>2, <4>1, <4>2, <4>3 DEF Once
    <3> QED
      BY <3>1, <3>2, <3>3
  <2>11. \A c \in Calls : total'[c] = 0 \/ (total'[c] = 1 /\ c \in spent)
    <3>1. \A c \in new : total[c] = 0
      BY <2>5, <2>7, <2>8
    <3> QED
      BY <1>0, <1>c, <2>6, <2>7, <3>1 DEF Once
  <2>12. Once'
    BY <1>19, <2>10, <2>11 DEF Phase3Done, Once
  <2> QED
    BY <1>19, <2>12 DEF Phase3Done, Goto
<1>20. CASE Await
  <2>1. Digest \subseteq {Domain}
    BY DEF Digest
  <2>2. Once'
    BY <1>0, <1>20, <2>1, NewlyPaid DEF Await, Fresh, Uncounted
  <2> QED
    BY <1>20, <2>2 DEF Await, Goto
<1>21. ASSUME NEW langs \in SUBSET Languages, Localize(langs) PROVE Paid'
  BY <1>0, <1>21 DEF Localize, Goto, Forget, gatherVars, Once, poolVars, planVars
<1>22. ASSUME NEW l \in Languages, CollectLanguage(l) PROVE Paid'
  <2>1. PICK new : new = IF co[l] = "good" THEN {l} ELSE {}
    OBVIOUS
  <2>2. results' = Add(results, new) /\ total' = Add(total, new)
    BY <1>22, <2>1 DEF CollectLanguage
  <2>3. new \subseteq spent' /\ spent \subseteq spent' /\ new \subseteq Agents
    BY <1>0, <1>22, <2>1 DEF CollectLanguage, Answered
  <2>4. \A a \in new : results[a] = 0 /\ total[a] = 0
    BY <1>0, <1>22, <2>1 DEF CollectLanguage, Fresh, Uncounted
  <2>5. Once'
    BY <2>2, <2>3, <2>4, NewlyPaid
  <2> QED
    BY <1>22, <2>5 DEF CollectLanguage, Stay
<1>23. ASSUME NEW entity \in BOOLEAN, Filter(entity) PROVE Paid'
  BY <1>0, <1>23 DEF Filter, Goto, Once, poolVars, gatherVars, planVars
<1>24. ASSUME NEW ok \in BOOLEAN, Fallback(ok) PROVE Paid'
  <2>1. PICK new : new = IF ok THEN {Searcher} ELSE {}
    OBVIOUS
  <2>2. results' = Add(results, new) /\ total' = Add(total, new)
    BY <1>24, <2>1 DEF Fallback
  <2>3. new \subseteq spent' /\ spent \subseteq spent' /\ new \subseteq Agents
    BY <1>0, <1>24, <2>1 DEF Fallback, Answered
  <2>4. \A a \in new : results[a] = 0 /\ total[a] = 0
    BY <1>0, <1>24, <2>1 DEF Fallback, Fresh, Uncounted
  <2>5. Once'
    BY <2>2, <2>3, <2>4, NewlyPaid
  <2> QED
    BY <1>24, <2>5 DEF Fallback, Goto
<1>25. CASE ToolsUsed
  BY <1>0, <1>25 DEF ToolsUsed, Goto, poolVars, gatherVars, Once, planVars
<1>26. ASSUME NEW ok \in BOOLEAN, NEW next \in {"iterate", "legacy", "reflect"},
              Synthesize(ok, next)
       PROVE  Paid'
  BY <1>0, <1>26 DEF Synthesize, Goto, Return, poolVars, gatherVars, Once, planVars
<1>27. ASSUME NEW confident \in BOOLEAN, Iterate(confident) PROVE Paid'
  BY <1>0, <1>27 DEF Iterate, Break, Goto, poolVars, gatherVars, Once, planVars
<1>28. ASSUME NEW gaps \in BOOLEAN, Coverage(gaps) PROVE Paid'
  BY <1>0, <1>28 DEF Coverage, Goto, Break, poolVars, gatherVars, Once, planVars
<1>29. ASSUME NEW ok \in BOOLEAN, Resynthesize(ok) PROVE Paid'
  BY <1>0, <1>29 DEF Resynthesize, Goto, poolVars, gatherVars, Once, planVars
<1>30. ASSUME NEW n \in 0 .. MaxSubqueries, GenerateSubqueries(n) PROVE Paid'
  BY <1>0, <1>30 DEF GenerateSubqueries, Break, Goto, gatherVars, Once, poolVars, planVars
<1>31. ASSUME NEW n \in 1 .. MaxSubqueries, SpawnAreas(n) PROVE Paid'
  BY <1>0, <1>31 DEF SpawnAreas, Goto, gatherVars, Once, poolVars, planVars
<1>32. ASSUME NEW g \in Gaps, GapAcquire(g) PROVE Paid'
  BY <1>0, <1>32 DEF GapAcquire, Stay, poolVars, gatherVars, Once, planVars
<1>33. ASSUME NEW g \in Gaps, CollectArea(g) PROVE Paid'
  <2>1. PICK new : new = IF co[g] = "good" THEN {g} ELSE {}
    OBVIOUS
  <2>2. total' = Add(total, new) /\ results' = results /\ spent' = spent /\ stage' = stage
    BY <1>33, <2>1 DEF CollectArea, Stay
  <2>3. new \subseteq spent /\ \A a \in new : results[a] = 0 /\ total[a] = 0
    BY <1>0, <1>33, <2>1 DEF CollectArea, Answered, Fresh, Uncounted
  <2>4. \A c \in Calls : total'[c] = IF c \in new THEN total[c] + 1 ELSE total[c]
    BY <1>c, <2>2
  <2>5. Once'
    BY <1>0, <1>c, <2>2, <2>3, <2>4 DEF Once
  <2> QED
    BY <1>33, <2>2, <2>5 DEF CollectArea
<1>34. ASSUME NEW g \in Gaps, NEW accept \in BOOLEAN, NEW saturated \in BOOLEAN,
              CollectGap(g, accept, saturated)
       PROVE  Paid'
  <2>1. PICK new : new = IF accept THEN {g} ELSE {}
    OBVIOUS
  <2>2. results' = Add(results, new) /\ total' = Add(total, new)
    BY <1>34, <2>1 DEF CollectGap
  <2>3. new \subseteq spent' /\ spent \subseteq spent' /\ new \subseteq Agents
    BY <1>0, <1>34, <2>1 DEF CollectGap, Answered
  <2>4. \A a \in new : results[a] = 0 /\ total[a] = 0
    BY <1>0, <1>34, <2>1 DEF CollectGap, Fresh, Uncounted
  <2>5. Once'
    BY <2>2, <2>3, <2>4, NewlyPaid
  <2> QED
    BY <1>34, <2>5 DEF CollectGap, Stay
<1>35. ASSUME NEW cited \in BOOLEAN, NEW ok \in BOOLEAN, Enhance(cited, ok) PROVE Paid'
  BY <1>0, <1>35 DEF Enhance, Counted, Goto, poolVars, gatherVars, Once, planVars
<1>36. CASE SpawnGaps
  BY <1>0, <1>36 DEF SpawnGaps, Goto, poolVars, gatherVars, Once, planVars
<1>37. CASE RoundEnds
  BY <1>0, <1>37 DEF RoundEnds, Goto, Break, poolVars, gatherVars, Once, planVars
<1>38. CASE NothingFilled
  BY <1>0, <1>38 DEF NothingFilled, Goto, poolVars, gatherVars, Once, planVars
<1>39. CASE Reflect
  BY <1>0, <1>39 DEF Reflect, Step, Goto, poolVars, gatherVars, Once, planVars
<1>40. CASE Cite
  BY <1>0, <1>40 DEF Cite, Step, Goto, poolVars, gatherVars, Once, planVars
<1>41. CASE Verify
  BY <1>0, <1>41 DEF Verify, Step, Goto, poolVars, gatherVars, Once, planVars
<1>42. CASE Complete
  BY <1>0, <1>42 DEF Complete, Return, poolVars, gatherVars, Once, planVars
<1>43. CASE Cancel
  BY <1>0, <1>43 DEF Cancel, Stay, poolVars, gatherVars, Once, planVars
<1> QED
  BY <1>1, <1>2, <1>3, <1>4, <1>5, <1>6, <1>7, <1>8, <1>9, <1>10, <1>11, <1>12, <1>13,
     <1>14, <1>15, <1>16, <1>17, <1>18, <1>19, <1>20, <1>21, <1>22, <1>23, <1>24, <1>25,
     <1>26, <1>27, <1>28, <1>29, <1>30, <1>31, <1>32, <1>33, <1>34, <1>35, <1>36, <1>37,
     <1>38, <1>39, <1>40, <1>41, <1>42, <1>43 DEF Next, Workflow, Execution, GapFilling

(* No agent of the first phase depends on a task that is left to the third, *)
(* or on the domain analysis.                                               *)
LEMMA Phase1Facts ==
    ASSUME IInv, stage = "execute", mode = "phase1"
    PROVE  \A t \in Begun : t \notin Dependents
                            /\ deps[t] \intersect (Dependents \union {Domain}) = {}
  BY DEF IInv, Dependencies, Executor, Pending, Dependents

(* Every answer is where it can be heard or counted.                        *)
LEMMA SpendingsStep ==
    ASSUME IInv, Next
    PROVE  Spendings'
<1> USE IdFacts DEF Spendings, Watched, Answered, Digest, Early, Gathered, Running0
<1>0. /\ Spendings /\ Place /\ Child /\ stage \in Stages /\ pool \subseteq Agents
      /\ co \in [Agents -> CoStates] /\ results \in [Agents -> Nat]
  BY DEF IInv, Types, WorkTypes
<1>c. \A s : results' = Add(results, s) =>
        \A a \in Agents : results'[a] = IF a \in s THEN results[a] + 1 ELSE results[a]
  BY CountsNext
<1>1. CASE Cancelled
  BY <1>0, <1>1 DEF Cancelled, Checkpoints, Return, poolVars, childVars, gatherVars,
          planVars, Stages
<1>2. ASSUME NEW ok \in BOOLEAN, NEW isCompany \in BOOLEAN, Refine(ok, isCompany) PROVE Spendings'
  BY <1>0, <1>2 DEF Refine, Goto, poolVars, childVars, gatherVars, planVars, Stages
<1>3. ASSUME NEW p \in Plans, Decompose(p) PROVE Spendings'
  BY <1>0, <1>3 DEF Decompose, Goto, poolVars, childVars, gatherVars, planVars, Stages
<1>4. CASE DecomposeFails
  BY <1>0, <1>4 DEF DecomposeFails, Return, poolVars, childVars, gatherVars, planVars,
          Stages
<1>5. ASSUME NEW analyse \in BOOLEAN, NEW m \in Modes(analyse),
             NEW seq \in TopologicalSort(Executing, deps), Route(analyse, m, seq)
      PROVE  Spendings'
  <2>1. \A a \in Agents : co'[a] \in {"none", "queued", "waiting"}
    <3>1. \A a \in Agents : co[a] = "none"
      BY <1>0, <1>5 DEF Route, Place
    <3>2. m \in {"react"} \union InOrder \union {"parallel", "hybrid", "phase1"}
      BY RouteFacts DEF IInv, Types
    <3>3. CASE m \in {"hybrid", "phase1"}
      BY <1>5, <3>1, <3>3, EnlistFacts DEF Route, IInv
    <3>4. CASE m \in {"react", "parallel"} \union InOrder
      BY <1>5, <3>1, <3>4 DEF Route, InOrder
    <3> QED
      BY <3>2, <3>3, <3>4
  <2>2. stage' = "execute" /\ mode' # "phase3" /\ spent' = spent /\ spent \intersect Watched = {}
    <3>1. m # "phase3"
      BY RouteFacts DEF IInv, Types, InOrder
    <3> QED
      BY <1>0, <1>5, <3>1 DEF Route, Goto
  <2>3. analysis' # "good"
    BY <1>5 DEF Route
  <2> QED
    BY <2>1, <2>2, <2>3
<1>6. ASSUME NEW t \in Tasks, Ready(t) PROVE Spendings'
  BY <1>0, <1>6 DEF Ready, Stay, poolVars, childVars, gatherVars, planVars, Stages
<1>7. ASSUME NEW t \in Tasks, Expire(t) PROVE Spendings'
  BY <1>0, <1>7 DEF Expire, Stay, poolVars, childVars, gatherVars, planVars, Stages
<1>8. ASSUME NEW t \in Tasks, Acquire(t) PROVE Spendings'
  BY <1>0, <1>8 DEF Acquire, Stay, childVars, gatherVars, Place, Unheard, Begin, poolVars,
          planVars, Stages
<1>9. ASSUME NEW t \in Tasks, CollectHybrid(t) PROVE Spendings'
  <2>1. \A a \in Agents : co'[a] = IF a = t THEN (IF co[t] = "good" THEN "counted" ELSE "void")
                                            ELSE co[a]
    BY <1>0, <1>9 DEF CollectHybrid, Heard
  <2>2. /\ co[t] \in {"good", "bad", "expired"} /\ stage = "execute" /\ stage' = stage
        /\ mode' = mode /\ mode \notin InOrder /\ pool' = pool
        /\ spent' = spent /\ analysis' = analysis /\ results' = results
    BY <1>9 DEF CollectHybrid, Stay, planVars, childVars, gatherVars, InOrder, Executor
  <2>3. entries \subseteq entries' /\ (co[t] = "good" => t \in entries')
    BY <1>9 DEF CollectHybrid
  <2>4. Digest' = Digest /\ \A a \in Agents : co'[a] \in Answered <=> co[a] \in Answered
    BY <1>0, <2>1, <2>2
  <2>5. \A a \in Agents : co'[a] = "counted" => co[a] = "counted" \/ (a = t /\ co[t] = "good")
    BY <2>1
  <2> HIDE DEF Digest, Answered
  <2> QED
    BY <1>0, <2>2, <2>3, <2>4, <2>5
<1>10. ASSUME NEW t \in Tasks, CollectParallel(t) PROVE Spendings'
  <2>1. \A a \in Agents : co'[a] = IF a = t THEN (IF co[t] = "good" THEN "counted" ELSE "void")
                                            ELSE co[a]
    BY <1>0, <1>10 DEF CollectParallel, Heard
  <2>2. /\ co[t] \in {"good", "bad"} /\ stage = "execute" /\ stage' = stage
        /\ mode' = mode /\ mode = "parallel"
        /\ spent' = spent /\ analysis' = analysis
    BY <1>10 DEF CollectParallel, Stay, planVars, childVars
  <2>3. Digest' = Digest /\ \A a \in Agents : co'[a] \in Answered <=> co[a] \in Answered
    BY <1>0, <2>1, <2>2
  <2> HIDE DEF Digest, Answered
  <2> QED
    BY <1>0, <2>2, <2>3 DEF InOrder
<1>11. ASSUME NEW t \in Tasks, CollectReact(t) PROVE Spendings'
  <2>1. \A a \in Agents : co'[a] = IF a = t THEN (IF co[t] = "good" THEN "counted" ELSE "void")
                                            ELSE co[a]
    BY <1>0, <1>11 DEF CollectReact, Heard
  <2>2. /\ co[t] \in {"good", "bad"} /\ stage = "execute" /\ stage' = stage
        /\ mode' = mode /\ mode \in InOrder
        /\ spent' = spent /\ analysis' = analysis
    BY <1>11 DEF CollectReact, Stay, planVars, childVars
  <2>3. /\ \A a \in Agents : results[a] > 0 => results'[a] > 0
        /\ co[t] = "good" => results'[t] > 0
    <3>1. PICK new : new = IF co[t] = "good" THEN {t} ELSE {}
      OBVIOUS
    <3>2. results' = Add(results, new)
      BY <1>11, <3>1 DEF CollectReact
    <3> QED
      BY <1>0, <1>c, <3>1, <3>2
  <2>4. Digest' = Digest /\ \A a \in Agents : co'[a] \in Answered <=> co[a] \in Answered
    BY <1>0, <2>1, <2>2
  <2>5. \A a \in Agents : co'[a] = "counted" => co[a] = "counted" \/ (a = t /\ co[t] = "good")
    BY <2>1
  <2> HIDE DEF Digest, Answered
  <2> QED
    BY <1>0, <2>2, <2>3, <2>4, <2>5 DEF InOrder
<1>12. ASSUME NEW ok \in BOOLEAN, React(ok) PROVE Spendings'
  BY <1>0, <1>12, <1>c DEF React, Goto, Return, poolVars, childVars, Place, Unheard,
          gatherVars, planVars, Stages
<1>13. ASSUME NEW ok \in BOOLEAN, AnalysisEnds(ok) PROVE Spendings'
  BY <1>0, <1>13 DEF AnalysisEnds, Stay, poolVars, gatherVars, Child, Gathered, planVars,
          childVars, Stages
<1>14. ASSUME NEW a \in Agents, NEW ok \in BOOLEAN, Answer(a, ok) PROVE Spendings'
  BY <1>0, <1>14 DEF Answer, Stay, poolVars, childVars, gatherVars, Place, Unheard,
          planVars, Stages
<1>15. CASE StartNext
  <2>1. PICK t : t = Head(order)
    OBVIOUS
  <2>2. t \in Agents /\ co[t] = "none"
    BY <1>0, <1>15, <2>1, TailFacts DEF StartNext, Place, IInv, Types, PlanTypes
  <2>3. \A a \in Agents : co'[a] = IF a = t THEN "running" ELSE co[a]
    BY <1>0, <1>15, <2>1 DEF StartNext, Begin
  <2> QED
    BY <1>0, <1>15, <2>2, <2>3 DEF StartNext, InOrder, Stay, planVars, childVars, gatherVars
<1>16. CASE ReactsDone
  <2>1. \A a \in Agents : co[a] \notin {"running", "good", "bad"}
    BY <1>0, <1>16, RunningFacts DEF ReactsDone, Place, Unheard
  <2> QED
    BY <1>0, <1>16, <2>1 DEF ReactsDone, Goto, poolVars, planVars, childVars, gatherVars
<1>17. CASE ExecutorDone
  <2>1. \A a \in Agents : co[a] \in Answered => a \in Counted
    BY <1>0, <1>17 DEF ExecutorDone, Settled, Counted, Place, Unheard
  <2>2. \A a \in Counted : a \in Agents => results'[a] > 0
    BY <1>0, <1>c, <1>17 DEF ExecutorDone
  <2>3. stage = "execute" /\ stage' = "await" /\ co' = co /\ analysis' = analysis /\ spent' = spent
    BY <1>17 DEF ExecutorDone, Goto, childVars
  <2> QED
    BY <1>0, <2>1, <2>2, <2>3
<1>18. CASE Phase1Done
  <2>1. /\ stage = "execute" /\ stage' = stage /\ mode' = "phase3" /\ pool' = Dependents
        /\ analysis' = analysis /\ spent' = spent
        /\ \A a \in Agents : co'[a] = IF a \notin Dependents THEN co[a]
                                      ELSE IF deps[a] = {} THEN "queued" ELSE "waiting"
    BY <1>18, EnlistFacts DEF Phase1Done, Stay, childVars, IInv
  <2>2. \A a \in Tasks : co[a] \in Answered => a \notin Dependents
    BY <1>18, Phase1Facts DEF Phase1Done, Begun
  <2>3. Digest' = Digest
    BY <2>1
  <2>4. \A a \in Agents : co'[a] \in Answered <=> (co[a] \in Answered /\ a \notin Dependents)
    BY <2>1
  <2>5. \A a \in Dependents : a \in Agents /\ co'[a] # "counted"
    BY <2>1, StateFacts DEF IInv
  <2> HIDE DEF Digest, Answered
  <2> QED
    BY <1>0, <2>1, <2>2, <2>3, <2>4, <2>5 DEF InOrder
<1>19. CASE Phase3Done
  <2>1. PICK first : first = IF pool = {} THEN results ELSE Add(results, Answers)
    OBVIOUS
  <2>2. /\ first \in [Agents -> Nat]
        /\ \A a \in Agents : first[a] =
                IF pool # {} /\ a \in Answers THEN results[a] + 1 ELSE results[a]
    BY <1>0, <2>1, CountFacts, StateFacts DEF IInv
  <2>3. results' = Add(first, Digest)
    BY <1>19, <2>1 DEF Phase3Done
  <2>4. \A a \in Agents : results'[a] = IF a \in Digest THEN first[a] + 1 ELSE first[a]
    BY <2>2, <2>3, AddFacts
  <2>5. \A a \in Digest : results'[a] > 0
    BY <2>2, <2>4
  <2>6. ASSUME NEW a \in Tasks, co[a] \in Answered PROVE results'[a] > 0
    <3>1. co[a] = "counted"
      BY <1>0, <1>19, <2>6 DEF Phase3Done, Settled, Place, Unheard
    <3>2. CASE a \in pool
      <4>1. a \in Answers
        BY <1>0, <1>19, <3>1, <3>2 DEF Phase3Done, Answers
      <4> QED
        BY <1>0, <2>2, <2>4, <3>2, <4>1
    <3>3. CASE a \notin pool
      <4>1. results[a] = 1
        BY <1>19, <3>1, <3>3 DEF Phase3Done, IInv, Paid
      <4> QED
        BY <2>2, <2>4, <4>1
    <3> QED
      BY <3>2, <3>3
  <2>7. /\ stage = "execute" /\ stage' = "localize" /\ co' = co /\ analysis' = analysis
        /\ spent' = spent
    BY <1>19 DEF Phase3Done, Goto
  <2> QED
    BY <1>0, <2>5, <2>6, <2>7
<1>20. CASE Await
  <2>1. results' = Add(results, Digest)
    BY <1>20 DEF Await
  <2>2. /\ \A a \in Agents : results[a] > 0 => results'[a] > 0
        /\ \A a \in Digest : results'[a] > 0
    <3>1. \A a \in Agents : results'[a] = IF a \in Digest THEN results[a] + 1 ELSE results[a]
      BY <1>c, <2>1
    <3> QED
      BY <1>0, <3>1
  <2>3. stage = "await" /\ stage' = "localize" /\ co' = co /\ analysis' = analysis /\ spent' = spent
    BY <1>20 DEF Await, Goto
  <2> QED
    BY <1>0, <2>2, <2>3
<1>21. ASSUME NEW langs \in SUBSET Languages, Localize(langs) PROVE Spendings'
  BY <1>0, <1>21 DEF Localize, Goto, Forget, gatherVars, Place, Unheard, poolVars, planVars,
          childVars, Stages
<1>22. ASSUME NEW l \in Languages, CollectLanguage(l) PROVE Spendings'
  <2>1. \A a \in Agents : co'[a] = IF a = l THEN (IF co[l] = "good" THEN "counted" ELSE "void")
                                            ELSE co[a]
    BY <1>0, <1>22 DEF CollectLanguage, Heard
  <2>2. /\ stage = "languages" /\ stage' = stage /\ spent' = spent /\ analysis' = analysis
        /\ pool' = pool
    BY <1>22 DEF CollectLanguage, Stay, childVars, poolVars
  <2>3. /\ \A a \in Agents : results[a] > 0 => results'[a] > 0
        /\ co[l] = "good" => results'[l] > 0
    <3>1. PICK new : new = IF co[l] = "good" THEN {l} ELSE {}
      OBVIOUS
    <3>2. results' = Add(results, new)
      BY <1>22, <3>1 DEF CollectLanguage
    <3> QED
      BY <1>0, <1>c, <3>1, <3>2
  <2> QED
    BY <1>0, <2>1, <2>2, <2>3
<1>23. ASSUME NEW entity \in BOOLEAN, Filter(entity) PROVE Spendings'
  <2>1. \A a \in spent \intersect Watched : results[a] > 0
    BY <1>0, <1>23 DEF Filter, Settled
  <2>2. evidence' = Kept /\ stage' = "filter" /\ spent' = spent /\ analysis' = analysis
    BY <1>23 DEF Filter, Goto, childVars
  <2>3. \A a \in Agents : co'[a] = "none"
    BY <1>23 DEF Filter
  <2> QED
    BY <1>0, <2>1, <2>2, <2>3 DEF Kept
<1>24. ASSUME NEW ok \in BOOLEAN, Fallback(ok) PROVE Spendings'
  BY <1>0, <1>24, <1>c DEF Fallback, Goto, poolVars, childVars, gatherVars, planVars, Stages
<1>25. CASE ToolsUsed
  BY <1>0, <1>25 DEF ToolsUsed, Goto, poolVars, childVars, gatherVars, planVars, Stages
<1>26. ASSUME NEW ok \in BOOLEAN, NEW next \in {"iterate", "legacy", "reflect"},
              Synthesize(ok, next)
       PROVE  Spendings'
  BY <1>0, <1>26 DEF Synthesize, Goto, Return, poolVars, childVars, gatherVars, planVars,
          Stages
<1>27. ASSUME NEW confident \in BOOLEAN, Iterate(confident) PROVE Spendings'
  BY <1>0, <1>27 DEF Iterate, Break, Goto, poolVars, childVars, gatherVars, planVars, Stages
<1>28. ASSUME NEW gaps \in BOOLEAN, Coverage(gaps) PROVE Spendings'
  BY <1>0, <1>28 DEF Coverage, Goto, Break, poolVars, childVars, gatherVars, planVars,
          Stages
<1>29. ASSUME NEW ok \in BOOLEAN, Resynthesize(ok) PROVE Spendings'
  BY <1>0, <1>29 DEF Resynthesize, Goto, poolVars, childVars, gatherVars, planVars, Stages
<1>30. ASSUME NEW n \in 0 .. MaxSubqueries, GenerateSubqueries(n) PROVE Spendings'
  BY <1>0, <1>30 DEF GenerateSubqueries, Break, Goto, childVars, gatherVars, poolVars,
          planVars, Stages
<1>31. ASSUME NEW n \in 1 .. MaxSubqueries, SpawnAreas(n) PROVE Spendings'
  BY <1>0, <1>31 DEF SpawnAreas, Goto, childVars, gatherVars, poolVars, planVars, Stages
<1>32. ASSUME NEW g \in Gaps, GapAcquire(g) PROVE Spendings'
  BY <1>0, <1>32 DEF GapAcquire, Stay, poolVars, childVars, gatherVars, planVars, Stages
<1>33. ASSUME NEW g \in Gaps, CollectArea(g) PROVE Spendings'
  BY <1>0, <1>33 DEF CollectArea, Heard, Stay, poolVars, childVars, gatherVars, planVars,
          Stages
<1>34. ASSUME NEW g \in Gaps, NEW accept \in BOOLEAN, NEW saturated \in BOOLEAN,
              CollectGap(g, accept, saturated)
       PROVE  Spendings'
  BY <1>0, <1>34, <1>c DEF CollectGap, Heard, Stay, childVars, poolVars, gatherVars,
          planVars, Stages
<1>35. ASSUME NEW cited \in BOOLEAN, NEW ok \in BOOLEAN, Enhance(cited, ok) PROVE Spendings'
  BY <1>0, <1>35 DEF Enhance, Goto, poolVars, childVars, gatherVars, planVars, Stages
<1>36. CASE SpawnGaps
  BY <1>0, <1>36 DEF SpawnGaps, Goto, poolVars, childVars, gatherVars, planVars, Stages
<1>37. CASE RoundEnds
  BY <1>0, <1>37 DEF RoundEnds, Goto, Break, poolVars, childVars, gatherVars, planVars,
          Stages
<1>38. CASE NothingFilled
  BY <1>0, <1>38 DEF NothingFilled, Goto, poolVars, childVars, gatherVars, planVars, Stages
<1>39. CASE Reflect
  BY <1>0, <1>39 DEF Reflect, Step, Goto, poolVars, childVars, gatherVars, planVars, Stages
<1>40. CASE Cite
  BY <1>0, <1>40 DEF Cite, Step, Goto, poolVars, childVars, gatherVars, planVars, Stages
<1>41. CASE Verify
  BY <1>0, <1>41 DEF Verify, Step, Goto, poolVars, childVars, gatherVars, planVars, Stages
<1>42. CASE Complete
  BY <1>0, <1>42 DEF Complete, Return, poolVars, childVars, gatherVars, planVars, Stages
<1>43. CASE Cancel
  BY <1>0, <1>43 DEF Cancel, Stay, poolVars, childVars, gatherVars, planVars, Stages
<1> QED
  BY <1>1, <1>2, <1>3, <1>4, <1>5, <1>6, <1>7, <1>8, <1>9, <1>10, <1>11, <1>12, <1>13,
     <1>14, <1>15, <1>16, <1>17, <1>18, <1>19, <1>20, <1>21, <1>22, <1>23, <1>24, <1>25,
     <1>26, <1>27, <1>28, <1>29, <1>30, <1>31, <1>32, <1>33, <1>34, <1>35, <1>36, <1>37,
     <1>38, <1>39, <1>40, <1>41, <1>42, <1>43 DEF Next, Workflow, Execution, GapFilling

(* Nobody depends on a result that is still to come.                        *)
LEMMA DependenciesStep ==
    ASSUME IInv, Next
    PROVE  Dependencies'
<1> USE IdFacts DEF Dependencies, GivenResults, Orderly, Executor, Begun, Pending, Unheard,
                        Running0, Dependents
<1>0. Dependencies /\ co \in [Agents -> CoStates]
  BY DEF IInv, Types, WorkTypes
<1>1. CASE Cancelled
  BY <1>0, <1>1 DEF Cancelled, Checkpoints, Return, planVars, poolVars
<1>2. ASSUME NEW ok \in BOOLEAN, NEW isCompany \in BOOLEAN, Refine(ok, isCompany)
      PROVE  Dependencies'
  BY <1>0, <1>2 DEF Refine, Goto, poolVars, planVars
<1>3. ASSUME NEW p \in Plans, Decompose(p) PROVE Dependencies'
  <2>1. \A t \in Tasks : co[t] = "none"
    BY <1>3 DEF Decompose, IInv, Place, Early
  <2> QED
    BY <1>3, <2>1 DEF Decompose, Goto, poolVars
<1>4. CASE DecomposeFails
  BY <1>0, <1>4 DEF DecomposeFails, Return, planVars, poolVars
<1>5. ASSUME NEW analyse \in BOOLEAN, NEW m \in Modes(analyse),
             NEW seq \in TopologicalSort(Executing, deps), Route(analyse, m, seq)
      PROVE  Dependencies'
  <2>1. /\ IsInjective(seq) /\ seq \in Seq(Tasks) /\ ToSet(Executing) \subseteq ToSet(plan)
        /\ Sortable(Executing, deps) => Sorted(deps, seq)
        /\ m \in {"react"} \union InOrder \union {"parallel", "hybrid", "phase1"}
    BY RouteFacts DEF IInv, Types
  <2>2. completed = {} /\ entries = {} /\ \A t \in Agents : co[t] = "none"
    BY <1>5 DEF Route, IInv, Place, Early
  <2>3. /\ stage' = "execute" /\ plan' = Executing /\ mode' = m /\ deps' = deps
        /\ completed' = {} /\ entries' = {}
    BY <1>5, <2>2 DEF Route, Goto
  <2>4. CASE m \in {"hybrid", "phase1"}
    <3>1. /\ m = "phase1" => pool' \intersect Dependents = {}
          /\ co' = Enlist(pool')
      BY <1>5, <2>4 DEF Route
    <3>2. \A t \in Agents : co'[t] \in {"none", "queued", "waiting"}
                            /\ (co'[t] = "queued" => deps[t] = {})
      BY <2>2, <3>1, EnlistFacts DEF IInv
    <3>3. Dependents' \subseteq Dependents
      BY <2>1, <2>3
    <3> HIDE DEF Dependents
    <3> QED
      BY <2>3, <2>4, <3>1, <3>2, <3>3
  <2>5. CASE m \in {"react", "parallel"} \union InOrder
    <3>1. \A t \in Tasks : co'[t] \in {"none", "queued"} /\ (m = "reactSeq" => co'[t] = "none")
      BY <1>5, <2>2, <2>5 DEF Route, InOrder
    <3>2. m = "reactSeq" => order' = seq
      BY <1>5 DEF Route, InOrder
    <3>3. ASSUME Sorted(deps, seq), NEW i \in DOMAIN seq, NEW j \in DOMAIN seq, i <= j,
                 seq[j] \in deps[seq[i]]
          PROVE  FALSE
      <4>1. seq[j] \in Upto(seq, i - 1)
        BY <3>3 DEF Sorted
      <4>2. i \in Nat /\ j \in Nat /\ i \in 1 .. Len(seq) /\ j \in 1 .. Len(seq)
        BY <2>1
      <4>3. PICK k \in 1 .. i - 1 : seq[k] = seq[j]
        BY <4>1 DEF Upto
      <4>4. k \in DOMAIN seq /\ k # j
        BY <2>1, <3>3, <4>2
      <4> QED
        BY <2>1, <4>3, <4>4 DEF IsInjective
    <3>4. m \notin {"hybrid", "phase1", "phase3"}
      BY <2>5 DEF InOrder
    <3> QED
      BY <2>1, <2>3, <3>1, <3>2, <3>3, <3>4
  <2> QED
    BY <2>1, <2>4, <2>5
<1>6. ASSUME NEW t \in Tasks, Ready(t) PROVE Dependencies'
  <2>1. \A u \in Agents : co'[u] = IF u = t THEN "queued" ELSE co[u]
    BY <1>0, <1>6 DEF Ready
  <2>2. Pending' = Pending /\ Begun' = Begun \union {t}
    BY <1>6, <2>1 DEF Ready, planVars, poolVars
  <2>3. /\ stage' = stage /\ mode' = mode /\ deps' = deps /\ entries' = entries /\ pool' = pool
        /\ completed' = completed /\ plan' = plan /\ order' = order /\ given' = given
    BY <1>6 DEF Ready, Stay, planVars, poolVars
  <2>4. mode # "reactSeq"
    BY <1>6 DEF Ready, IInv, Place, InOrder
  <2>5. GivenResults'
    BY <1>0, <2>1, <2>3
  <2>6. deps[t] \subseteq completed
    BY <1>6 DEF Ready
  <2> HIDE DEF Pending, Begun, GivenResults
  <2> QED
    BY <1>0, <2>2, <2>3, <2>4, <2>5, <2>6
<1>7. ASSUME NEW t \in Tasks, Expire(t) PROVE Dependencies'
  BY <1>0, <1>7 DEF Expire, Stay, planVars, poolVars
<1>8. ASSUME NEW t \in Tasks, Acquire(t) PROVE Dependencies'
  <2>1. \A u \in Agents : co'[u] = IF u = t THEN "running" ELSE co[u]
    BY <1>0, <1>8 DEF Acquire, Begin
  <2>2. given' = [given EXCEPT ![t] = deps[t] \intersect entries] /\ given \in [Tasks -> SUBSET Ids]
    BY <1>8 DEF Acquire, Begin, IInv, Types, PlanTypes
  <2>3. /\ stage' = stage /\ mode' = mode /\ deps' = deps /\ entries' = entries /\ pool' = pool
        /\ completed' = completed /\ plan' = plan /\ order' = order /\ pool \subseteq Agents
    BY <1>8 DEF Acquire, Stay, planVars, IInv, Types, WorkTypes
  <2>4. Pending' = Pending /\ Begun' = Begun
    BY <1>8, <2>1, <2>3 DEF Acquire
  <2>5. GivenResults'
    BY <1>0, <2>1, <2>2, <2>3
  <2> HIDE DEF Pending, Begun, GivenResults
  <2> QED
    BY <1>0, <2>3, <2>4, <2>5
<1>9. ASSUME NEW t \in Tasks, CollectHybrid(t) PROVE Dependencies'
  BY <1>0, <1>9 DEF CollectHybrid, Heard, Stay, planVars, poolVars
<1>10. ASSUME NEW t \in Tasks, CollectParallel(t) PROVE Dependencies'
  BY <1>0, <1>10 DEF CollectParallel, Heard, Stay, planVars, poolVars
<1>11. ASSUME NEW t \in Tasks, CollectReact(t) PROVE Dependencies'
  <2>1. \A u \in Agents : co'[u] = IF u = t THEN (IF co[t] = "good" THEN "counted" ELSE "void")
                                            ELSE co[u]
    BY <1>0, <1>11 DEF CollectReact, Heard
  <2>2. /\ stage = "execute" /\ stage' = stage /\ mode \in InOrder /\ mode' = mode /\ deps' = deps
        /\ pool' = pool /\ plan' = plan /\ order' = order /\ given' = given
        /\ t \in pool /\ co[t] \in {"good", "bad"} /\ entries' \subseteq entries \union {t}
        /\ entries \subseteq entries' /\ pool \subseteq Agents
    BY <1>11 DEF CollectReact, Stay, planVars, IInv, Types, WorkTypes
  <2>3. t \in Pending /\ Pending' \subseteq Pending /\ Begun' \subseteq Begun
    BY <2>1, <2>2
  <2>4. CASE mode = "reactSeq" /\ Sortable(plan, deps)
    <3>1. \A u \in Begun : deps[u] \intersect (ToSet(order) \union Pending) = {}
      BY <1>0, <2>2, <2>4
    <3>2. \A u \in Begun : t \notin deps[u]
      BY <2>3, <3>1
    <3>3. \A u \in Tasks : co'[u] \in {"running", "good", "bad", "counted"} =>
                             u \in Begun /\ co[u] \in {"running", "good", "bad", "counted"}
      BY <2>1, <2>2
    <3>4. GivenResults'
      BY <1>0, <2>2, <2>4, <3>2, <3>3
    <3> HIDE DEF Pending, Begun, GivenResults
    <3> QED
      BY <1>0, <2>2, <2>3, <2>4, <3>1, <3>4 DEF InOrder
  <2>5. CASE ~(mode = "reactSeq" /\ Sortable(plan, deps))
    BY <2>2, <2>5 DEF InOrder
  <2> QED
    BY <2>4, <2>5
<1>12. ASSUME NEW ok \in BOOLEAN, React(ok) PROVE Dependencies'
  BY <1>0, <1>12 DEF React, Goto, Return, planVars, poolVars
<1>13. ASSUME NEW ok \in BOOLEAN, AnalysisEnds(ok) PROVE Dependencies'
  BY <1>0, <1>13 DEF AnalysisEnds, Stay, planVars, poolVars
<1>14. ASSUME NEW a \in Agents, NEW ok \in BOOLEAN, Answer(a, ok) PROVE Dependencies'
  BY <1>0, <1>14 DEF Answer, Stay, planVars, poolVars
<1>15. CASE StartNext
  <2>1. PICK t : t = Head(order)
    OBVIOUS
  <2>2. /\ order \in Seq(Tasks) /\ order # <<>> /\ given \in [Tasks -> SUBSET Ids]
        /\ pool \subseteq Tasks /\ ToSet(order) \subseteq pool
        /\ \A u \in pool : co[u] \in {"none", "counted", "void", "running", "good", "bad"}
    BY <1>15 DEF StartNext, IInv, Types, PlanTypes, Place
  <2>3. /\ t \in ToSet(order) /\ t \in Tasks /\ ToSet(order') \subseteq ToSet(order)
        /\ Len(order) \in Nat \ {0} /\ t = order[1]
        /\ order' \in Seq(Tasks) /\ Len(order') = Len(order) - 1
        /\ \A i \in 1 .. Len(order) - 1 : order'[i] = order[i + 1]
    BY <1>15, <2>1, <2>2, TailFacts DEF StartNext
  <2>4. /\ \A u \in Agents : co'[u] = IF u = t THEN "running" ELSE co[u]
        /\ given' = [given EXCEPT ![t] = deps[t] \intersect entries]
    BY <1>0, <1>15, <2>1 DEF StartNext, Begin
  <2>5. /\ stage = "execute" /\ stage' = stage /\ mode \in InOrder /\ mode' = mode /\ deps' = deps
        /\ pool' = pool /\ plan' = plan /\ entries' = entries
    BY <1>15 DEF StartNext, Stay, planVars
  <2>6. GivenResults'
    BY <1>0, <2>2, <2>3, <2>4, <2>5
  <2>7. CASE mode = "reactSeq" /\ Sortable(plan, deps)
    <3>1. Running(pool) = {}
      <4>1. IsFiniteSet(Running(pool)) /\ Cardinality(Running(pool)) < 1
        BY <1>15, <2>2, <2>7, ResearchAssumption, FS_Subset DEF StartNext, Running
      <4> QED
        BY <4>1, FS_EmptySet, FS_CardinalityType
    <3>2. Pending = {} /\ Pending' \subseteq {t} /\ Begun' = Begun \union {t}
      <4>1. \A u \in pool : co[u] \in {"none", "counted", "void"} /\ u \in Agents
        BY <2>2, <3>1, RunningFacts
      <4> QED
        BY <2>2, <2>3, <2>4, <2>5, <2>7, <4>1
    <3>3. /\ \A i, j \in DOMAIN order : i <= j => order[j] \notin deps[order[i]]
          /\ \A u \in Begun : deps[u] \intersect ToSet(order) = {}
      BY <1>0, <2>5, <2>7
    <3>4. deps[t] \intersect ToSet(order) = {}
      <4>1. DOMAIN order = 1 .. Len(order)
        BY <2>2
      <4>2. 1 \in DOMAIN order /\ \A j \in DOMAIN order : 1 <= j
        BY <2>3, <4>1
      <4>3. \A j \in DOMAIN order : order[j] \notin deps[t]
        BY <2>3, <3>3, <4>2
      <4> QED
        BY <4>3 DEF ToSet
    <3>5. \A i, j \in DOMAIN order' : i <= j => order'[j] \notin deps[order'[i]]
      <4>1. DOMAIN order = 1 .. Len(order) /\ DOMAIN order' = 1 .. Len(order) - 1
        BY <2>2, <2>3
      <4>2. \A i \in DOMAIN order' : i + 1 \in DOMAIN order /\ order'[i] = order[i + 1]
        BY <2>3, <4>1
      <4>3. \A i, j \in DOMAIN order' : i <= j => i + 1 <= j + 1
        BY <2>3, <4>1
      <4> QED
        BY <3>3, <4>2, <4>3
    <3>6. \A u \in Begun' : deps[u] \intersect (ToSet(order') \union Pending') = {}
      <4> HIDE DEF Pending, Begun
      <4> QED
        BY <2>3, <3>2, <3>3, <3>4
    <3> HIDE DEF Pending, Begun, GivenResults
    <3> QED
      BY <2>5, <2>6, <2>7, <3>5, <3>6
  <2>8. CASE ~(mode = "reactSeq" /\ Sortable(plan, deps))
    <3> HIDE DEF GivenResults
    <3> QED
      BY <2>5, <2>6, <2>8 DEF InOrder
  <2> QED
    BY <2>7, <2>8
<1>16. CASE ReactsDone
  BY <1>0, <1>16 DEF ReactsDone, Goto, planVars, poolVars
<1>17. CASE ExecutorDone
  BY <1>0, <1>17 DEF ExecutorDone, Goto, planVars, poolVars
<1>18. CASE Phase1Done
  <2>1. /\ stage = "execute" /\ stage' = stage /\ mode = "phase1" /\ mode' = "phase3"
        /\ pool' = Dependents /\ deps' = deps /\ plan' = plan /\ given' = given
        /\ completed' = entries \union Digest /\ entries' = entries \union Digest
        /\ Digest \subseteq {Domain}
        /\ \A a \in Agents : co'[a] = IF a \notin Dependents THEN co[a]
                                      ELSE IF deps[a] = {} THEN "queued" ELSE "waiting"
    BY <1>18, EnlistFacts, StateFacts DEF Phase1Done, Stay, IInv
  <2>2. \A t \in Begun : t \notin Dependents /\ deps[t] \intersect (Dependents \union {Domain}) = {}
    BY <2>1, Phase1Facts
  <2>3. /\ entries \subseteq completed /\ completed \intersect Dependents = {}
        /\ Domain \notin Dependents /\ \A a \in Dependents : a \in Agents /\ deps[a] # {}
    <3>1. completed \intersect Pending = {} /\ entries \subseteq completed
      BY <1>0, <2>1
    <3>2. Dependents \subseteq Tasks
      BY <2>1 DEF IInv, Place
    <3> QED
      BY <2>1, <3>1, <3>2
  <2>4. Pending' \subseteq Dependents /\ Dependents' = Dependents
    BY <2>1
  <2>5. \A t \in Tasks : t \in Begun' => t \in Begun /\ co'[t] = co[t]
    BY <2>1, <2>3
  <2>6. GivenResults'
    <3> HIDE DEF Dependents
    <3> QED
      BY <1>0, <2>1, <2>2, <2>3, <2>5
  <2>7. \A t \in Begun' : deps[t] \intersect Pending' = {}
    <3>1. \A t \in Begun' : t \in Tasks
      OBVIOUS
    <3> HIDE DEF Dependents, Pending, Begun
    <3> QED
      BY <2>2, <2>4, <2>5, <3>1
  <2> HIDE DEF Dependents, Pending, Begun, GivenResults
  <2> QED
    BY <2>1, <2>3, <2>4, <2>6, <2>7
<1>19. CASE Phase3Done
  BY <1>0, <1>19 DEF Phase3Done, Answers, Digest, Goto, planVars, poolVars
<1>20. CASE Await
  BY <1>0, <1>20 DEF Await, Digest, Goto, planVars, poolVars
<1>21. ASSUME NEW langs \in SUBSET Languages, Localize(langs) PROVE Dependencies'
  BY <1>0, <1>21 DEF Localize, Goto, Forget, poolVars, planVars
<1>22. ASSUME NEW l \in Languages, CollectLanguage(l) PROVE Dependencies'
  BY <1>0, <1>22 DEF CollectLanguage, Heard, Stay, planVars, poolVars
<1>23. ASSUME NEW entity \in BOOLEAN, Filter(entity) PROVE Dependencies'
  BY <1>0, <1>23 DEF Filter, Goto, planVars, poolVars
<1>24. ASSUME NEW ok \in BOOLEAN, Fallback(ok) PROVE Dependencies'
  BY <1>0, <1>24 DEF Fallback, Goto, planVars, poolVars
<1>25. CASE ToolsUsed
  BY <1>0, <1>25 DEF ToolsUsed, Goto, planVars, poolVars
<1>26. ASSUME NEW ok \in BOOLEAN, NEW next \in {"iterate", "legacy", "reflect"},
              Synthesize(ok, next)
       PROVE  Dependencies'
  BY <1>0, <1>26 DEF Synthesize, Goto, Return, planVars, poolVars
<1>27. ASSUME NEW confident \in BOOLEAN, Iterate(confident) PROVE Dependencies'
  BY <1>0, <1>27 DEF Iterate, Break, Goto, planVars, poolVars
<1>28. ASSUME NEW gaps \in BOOLEAN, Coverage(gaps) PROVE Dependencies'
  BY <1>0, <1>28 DEF Coverage, Goto, Break, planVars, poolVars
<1>29. ASSUME NEW ok \in BOOLEAN, Resynthesize(ok) PROVE Dependencies'
  BY <1>0, <1>29 DEF Resynthesize, Goto, planVars, poolVars
<1>30. ASSUME NEW n \in 0 .. MaxSubqueries, GenerateSubqueries(n) PROVE Dependencies'
  BY <1>0, <1>30 DEF GenerateSubqueries, Break, Goto, planVars, poolVars
<1>31. ASSUME NEW n \in 1 .. MaxSubqueries, SpawnAreas(n) PROVE Dependencies'
  BY <1>0, <1>31 DEF SpawnAreas, Goto, planVars, poolVars
<1>32. ASSUME NEW g \in Gaps, GapAcquire(g) PROVE Dependencies'
  BY <1>0, <1>32 DEF GapAcquire, Stay, planVars, poolVars
<1>33. ASSUME NEW g \in Gaps, CollectArea(g) PROVE Dependencies'
  BY <1>0, <1>33 DEF CollectArea, Heard, Stay, planVars, poolVars
<1>34. ASSUME NEW g \in Gaps, NEW accept \in BOOLEAN, NEW saturated \in BOOLEAN,
              CollectGap(g, accept, saturated)
       PROVE  Dependencies'
  BY <1>0, <1>34 DEF CollectGap, Heard, Stay, planVars, poolVars
<1>35. ASSUME NEW cited \in BOOLEAN, NEW ok \in BOOLEAN, Enhance(cited, ok) PROVE Dependencies'
  BY <1>0, <1>35 DEF Enhance, Goto, planVars, poolVars
<1>36. CASE SpawnGaps
  BY <1>0, <1>36 DEF SpawnGaps, Goto, planVars, poolVars
<1>37. CASE RoundEnds
  BY <1>0, <1>37 DEF RoundEnds, Goto, Break, planVars, poolVars
<1>38. CASE NothingFilled
  BY <1>0, <1>38 DEF NothingFilled, Goto, planVars, poolVars
<1>39. CASE Reflect
  BY <1>0, <1>39 DEF Reflect, Step, Goto, planVars, poolVars
<1>40. CASE Cite
  BY <1>0, <1>40 DEF Cite, Step, Goto, planVars, poolVars
<1>41. CASE Verify
  BY <1>0, <1>41 DEF Verify, Step, Goto, planVars, poolVars
<1>42. CASE Complete
  BY <1>0, <1>42 DEF Complete, Return, planVars, poolVars
<1>43. CASE Cancel
  BY <1>0, <1>43 DEF Cancel, Stay, planVars, poolVars
<1> QED
  BY <1>1, <1>2, <1>3, <1>4, <1>5, <1>6, <1>7, <1>8, <1>9, <1>10, <1>11, <1>12, <1>13,
     <1>14, <1>15, <1>16, <1>17, <1>18, <1>19, <1>20, <1>21, <1>22, <1>23, <1>24, <1>25,
     <1>26, <1>27, <1>28, <1>29, <1>30, <1>31, <1>32, <1>33, <1>34, <1>35, <1>36, <1>37,
     <1>38, <1>39, <1>40, <1>41, <1>42, <1>43 DEF Next, Workflow, Execution, GapFilling

-----------------------------------------------------------------------------
(* The invariant holds.                                                     *)

LEMMA InitIInv == Init => IInv
<1> SUFFICES ASSUME Init PROVE IInv
  OBVIOUS
<1> USE IdFacts, LimitFacts DEF Init
<1>1. Types
  <2>1. <<>> \in Seq(Ids) /\ <<>> \in Seq(Tasks) /\ IsInjective(<<>>)
    BY DEF IsInjective
  <2>2. PlanTypes
    BY <2>1 DEF PlanTypes
  <2>3. WorkTypes
    <3>1. /\ co \in [Agents -> CoStates] /\ results \in [Agents -> Nat] /\ total \in [Calls -> Nat]
      BY DEF CoStates
    <3>2. round \in 1 .. MaxIterations /\ faults \in 0 .. MaxFaults
      OBVIOUS
    <3> QED
      BY <3>1, <3>2 DEF WorkTypes, Stages
  <2> QED
    BY <2>2, <2>3 DEF Types
<1>2. Place
  BY DEF Place, Early, Gathered, Rounds
<1>3. Child
  BY DEF Child, Early, Gathered
<1>4. Fresh /\ Paid
  BY DEF Fresh, Paid, Once
<1>5. Spendings
  BY DEF Spendings, Answered, Watched, Digest, Early, Gathered
<1>6. Report
  BY DistinctAssumption DEF Report, Rounds, Finishing, FinalEvidence, Stages
<1>7. Dependencies
  BY DEF Dependencies, GivenResults
<1> QED
  BY <1>1, <1>2, <1>3, <1>4, <1>5, <1>6, <1>7 DEF IInv

LEMMA StutterIInv ==
    ASSUME IInv, UNCHANGED vars
    PROVE  IInv'
<1> USE DEF vars, planVars, poolVars, childVars, gatherVars, reportVars, userVars
<1>1. Types'
  BY DEF IInv, Types, PlanTypes, WorkTypes
<1>2. Place'
  BY DEF IInv, Place, InRound
<1>3. Child'
  BY DEF IInv, Child
<1>4. Fresh'
  BY DEF IInv, Fresh, Uncounted
<1>5. Paid'
  BY DEF IInv, Paid, Once
<1>6. Spendings'
  BY DEF IInv, Spendings, Digest
<1>7. Report'
  BY DEF IInv, Report, FinalEvidence, Kept
<1>8. Dependencies'
  BY DEF IInv, Dependencies, GivenResults, Orderly, Begun, Pending, Dependents
<1> QED
  BY <1>1, <1>2, <1>3, <1>4, <1>5, <1>6, <1>7, <1>8 DEF IInv

LEMMA NextIInv ==
    ASSUME IInv, [Next]_vars
    PROVE  IInv'
<1>1. CASE Next
  BY <1>1, PlanTypesStep, WorkTypesStep, PlaceStep, ChildStep, FreshStep, PaidStep,
     SpendingsStep, ReportStep, DependenciesStep DEF IInv, Types
<1>2. CASE UNCHANGED vars
  BY <1>2, StutterIInv
<1> QED
  BY <1>1, <1>2

(* The strengthening of all of them.                                        *)
THEOREM Invariance == Spec => []IInv
  BY InitIInv, NextIInv, PTL DEF Spec

(* The variables keep their types; an answered call is counted at most once *)
(* in the total, a result at most twice in the list.                        *)
THEOREM TypeCorrect == Spec => []TypeOK
<1>1. IInv => TypeOK
  <2> SUFFICES ASSUME IInv PROVE TypeOK
    OBVIOUS
  <2>1. results \in [Agents -> 0 .. 2] /\ total \in [Calls -> 0 .. 1]
    <3>1. results \in [Agents -> Nat] /\ total \in [Calls -> Nat]
      BY DEF IInv, Types, WorkTypes
    <3>2. /\ \A a \in Agents : results[a] \in 0 .. 2
          /\ \A c \in Calls : total[c] \in 0 .. 1
      BY DEF IInv, Paid, Once
    <3> QED
      BY <3>1, <3>2
  <2> QED
    BY <2>1 DEF IInv, Types, PlanTypes, WorkTypes, TypeOK
<1> QED
  BY <1>1, Invariance, PTL

(* Whichever way the subtasks were run, no answer of theirs, of the domain  *)
(* analysis or of the localized search is left behind when the workflow     *)
(* goes on to its report, however they interleave and whatever fails.       *)
THEOREM NoAnswerLost == Spec => []NothingLost
<1>1. IInv => NothingLost
  BY DEF IInv, Spendings, Child, NothingLost, Watched
<1> QED
  BY <1>1, Invariance, PTL

(* A result that is kept has its tokens in the total, once, and the total   *)
(* has no tokens of a call that was not answered.                           *)
THEOREM KeptIsPaid == Spec => []ResultsPaid
<1>1. IInv => ResultsPaid
  <2> SUFFICES ASSUME IInv PROVE ResultsPaid
    OBVIOUS
  <2>1. results \in [Agents -> Nat] /\ total \in [Calls -> Nat] /\ Once
    BY DEF IInv, Types, WorkTypes, Paid
  <2> QED
    BY <2>1 DEF Once, ResultsPaid
<1> QED
  BY <1>1, Invariance, PTL

(* An agent was given the results of all its dependencies that ever have    *)
(* one: none answers after its dependent has started.  Where agents run one *)
(* after the other this is so if the list could be sorted; TopologicalOrder *)
(* says when it can.                                                        *)
THEOREM DependenciesFirst == Spec => []GivenResults
<1>1. IInv => GivenResults
  BY DEF IInv, Dependencies
<1> QED
  BY <1>1, Invariance, PTL

(* The report of a task that succeeds was made from every result that is    *)
(* kept, unless the last synthesis failed.                                  *)
THEOREM ReportOfAll == Spec => []FinalEvidence
<1>1. IInv => FinalEvidence
  BY DEF IInv, Report
<1> QED
  BY <1>1, Invariance, PTL
=============================================================================
