------------------------------ MODULE ListProofs ------------------------------
(***************************************************************************)
(* Lemmas about lists that the other proofs use: induction over a length,  *)
(* what a recursion along a list computes, what is picked out of a list    *)
(* and what several lists give one after the other.                        *)
(***************************************************************************)
EXTENDS ListLoops, SequencesExt, SequenceTheorems, FiniteSetTheorems,
        WellFoundedInduction, TLAPS

-------------------------------------------------------------------------------
(***************************************************************************)
(* What a recursive function computes is proved by induction over a set:   *)
(* the least number at which something fails does not exist.               *)
(***************************************************************************)
LEMMA LeastOf ==
  ASSUME NEW T, T \subseteq Nat, T # {}
  PROVE  \E x \in T : \A y \in T : x <= y
<1> DEFINE R == {ss \in Nat \X Nat : ss[1] < ss[2]}
<1>1. IsWellFoundedOn(R, Nat)
  BY NatLessThanWellFounded, Zenon DEF OpToRel
<1>2. PICK x \in T : \A y \in T : ~ (<<y, x>> \in R)
  BY <1>1, WFMin, Zenon
<1>3. ASSUME NEW y \in T PROVE x <= y
  <2>1. x \in Nat /\ y \in Nat /\ <<y, x>> \in Nat \X Nat
    OBVIOUS
  <2>2. <<y, x>> \notin R
    BY <1>2, Zenon
  <2>3. ~ (y < x)
    BY <2>1, <2>2
  <2> QED
    BY <2>1, <2>3
<1> QED
  BY <1>3, Zenon

LEMMA SetInduction ==
  ASSUME NEW S, 0 \in S, \A n \in Nat : n \in S => n + 1 \in S
  PROVE  \A n \in Nat : n \in S
<1> SUFFICES ASSUME NEW m \in Nat, m \notin S PROVE FALSE
  OBVIOUS
<1> DEFINE T == {n \in Nat : n \notin S}
<1>1. PICK x \in T : \A y \in T : x <= y
  BY LeastOf
<1>2. x # 0 /\ x - 1 \in Nat
  BY <1>1
<1>3. x - 1 \in S
  BY <1>1, <1>2
<1> QED
  BY <1>2, <1>3

\* A recursion along a list has values: each follows from the one before.
ValuesOf(f, V, base, N, F) ==
  f \in [0..N -> V] /\ f[0] = base /\ \A n \in 1..N : f[n] = F[<<n, f[n - 1]>>]

LEMMA RecursionHasValues ==
  ASSUME NEW V, NEW base \in V, NEW N \in Nat, NEW F, F \in [(1..N) \X V -> V]
  PROVE  \E f : ValuesOf(f, V, base, N, F)
<1> DEFINE Good(n) == \E f \in [0..n -> V] :
                        f[0] = base /\ \A i \in 1..n : f[i] = F[<<i, f[i - 1]>>]
           S == {n \in Nat : n <= N => Good(n)}
<1>1. 0 \in S
  <2> DEFINE f == [i \in 0..0 |-> base]
  <2>1. f \in [0..0 -> V] /\ f[0] = base
    OBVIOUS
  <2>2. \A i \in 1..0 : f[i] = F[<<i, f[i - 1]>>]
    OBVIOUS
  <2> QED
    BY <2>1, <2>2
<1>2. ASSUME NEW n \in Nat, n \in S PROVE n + 1 \in S
  <2> SUFFICES ASSUME n + 1 <= N PROVE Good(n + 1)
    OBVIOUS
  <2>1. PICK f \in [0..n -> V] : f[0] = base /\ \A i \in 1..n : f[i] = F[<<i, f[i - 1]>>]
    BY <1>2
  <2> DEFINE g == [i \in 0..n + 1 |-> IF i = n + 1 THEN F[<<n + 1, f[n]>>] ELSE f[i]]
  <2>2. f[n] \in V /\ n + 1 \in 1..N
    OBVIOUS
  <2>3. F[<<n + 1, f[n]>>] \in V
    BY <2>2
  <2>4. g \in [0..n + 1 -> V]
    BY <2>3
  <2>5. \A i \in 0..n : g[i] = f[i]
    OBVIOUS
  <2>6. g[n + 1] = F[<<n + 1, f[n]>>]
    OBVIOUS
  <2> HIDE DEF g
  <2>7. ASSUME NEW i \in 1..n + 1 PROVE g[i] = F[<<i, g[i - 1]>>]
    <3>1. i - 1 \in 0..n
      OBVIOUS
    <3>2. g[i - 1] = f[i - 1]
      BY <3>1, <2>5
    <3>3. CASE i = n + 1
      BY <3>3, <3>2, <2>6
    <3>4. CASE i # n + 1
      <4>1. i \in 0..n /\ i \in 1..n
        BY <3>4
      <4> QED
        BY <4>1, <3>2, <2>1, <2>5
    <3> QED
      BY <3>3, <3>4
  <2>8. g[0] = base
    BY <2>1, <2>5
  <2> QED
    BY <2>4, <2>7, <2>8
<1> HIDE DEF S
<1>3. \A n \in Nat : n \in S
  BY <1>1, <1>2, SetInduction
<1>4. N \in S
  BY <1>3
<1>5. \E f \in [0..N -> V] : f[0] = base /\ \A i \in 1..N : f[i] = F[<<i, f[i - 1]>>]
  BY <1>4 DEF S
<1> QED
  BY <1>5 DEF ValuesOf

-------------------------------------------------------------------------------
(***************************************************************************)
(* Picked.                                                                 *)
(***************************************************************************)

\* A list is the first n elements of another at the positions in S, in their order.
PickedOf(p, list, S, n) ==
  \E pos \in [1..Len(p) -> S \cap (1..n)] :
    /\ \A i \in 1..Len(p) : p[i] = list[pos[i]]
    /\ \A i, j \in 1..Len(p) : i < j => pos[i] < pos[j]
    /\ \A k \in S \cap (1..n) : \E i \in 1..Len(p) : pos[i] = k

PickedUpTo(f, list, S) ==
  f = [n \in 0..Len(list) |->
         IF n = 0 THEN <<>> ELSE IF n \in S THEN Append(f[n - 1], list[n]) ELSE f[n - 1]]

LEMMA PickedHasValues ==
  ASSUME NEW T, NEW list \in Seq(T), NEW S
  PROVE  \E f : PickedUpTo(f, list, S)
<1> DEFINE N == Len(list)
           F == [e \in (1..N) \X Seq(T) |-> IF e[1] \in S THEN Append(e[2], list[e[1]]) ELSE e[2]]
<1>0. N \in Nat /\ \A n \in 1..N : list[n] \in T
  OBVIOUS
<1>1. F \in [(1..N) \X Seq(T) -> Seq(T)]
  <2>1. ASSUME NEW e \in (1..N) \X Seq(T)
        PROVE  (IF e[1] \in S THEN Append(e[2], list[e[1]]) ELSE e[2]) \in Seq(T)
    <3>1. e[1] \in 1..N /\ e[2] \in Seq(T)
      OBVIOUS
    <3>2. list[e[1]] \in T
      BY <3>1, <1>0
    <3> QED
      BY <3>1, <3>2
  <2> QED
    BY <2>1
<1>2. <<>> \in Seq(T)
  OBVIOUS
<1>3. PICK f : ValuesOf(f, Seq(T), <<>>, N, F)
  <2> HIDE DEF N, F
  <2> QED
    BY <1>0, <1>1, <1>2, RecursionHasValues
<1>4. f \in [0..N -> Seq(T)] /\ f[0] = <<>> /\ \A n \in 1..N : f[n] = F[<<n, f[n - 1]>>]
  BY <1>3 DEF ValuesOf
<1>5. ASSUME NEW n \in 1..N
      PROVE  f[n] = IF n \in S THEN Append(f[n - 1], list[n]) ELSE f[n - 1]
  <2>1. f[n - 1] \in Seq(T)
    BY <1>4
  <2>2. f[n] = F[<<n, f[n - 1]>>]
    BY <1>4
  <2> QED
    BY <2>1, <2>2
<1> HIDE DEF F
<1>6. ASSUME NEW n \in 0..N
      PROVE  f[n] = IF n = 0 THEN <<>> ELSE IF n \in S THEN Append(f[n - 1], list[n]) ELSE f[n - 1]
  <2>1. CASE n = 0
    BY <1>4, <2>1
  <2>2. CASE n # 0
    <3>1. n \in 1..N
      BY <2>2
    <3> QED
      BY <3>1, <1>5, <2>2
  <2> QED
    BY <2>1, <2>2
<1>7. f = [n \in 0..N |-> f[n]]
  BY <1>4
<1> QED
  BY <1>6, <1>7, Zenon DEF PickedUpTo

LEMMA PickedStep ==
  ASSUME NEW T, NEW list \in Seq(T), NEW S, NEW n \in Nat, n + 1 <= Len(list),
         NEW p \in Seq(T), PickedOf(p, list, S, n)
  PROVE  /\ n + 1 \in S => Append(p, list[n + 1]) \in Seq(T) /\ PickedOf(Append(p, list[n + 1]), list, S, n + 1)
         /\ n + 1 \notin S => PickedOf(p, list, S, n + 1)
<1> DEFINE L == Len(p)
<1>1. L \in Nat /\ list[n + 1] \in T
  OBVIOUS
<1>2. PICK pos \in [1..L -> S \cap (1..n)] :
        /\ \A i \in 1..L : p[i] = list[pos[i]]
        /\ \A i, j \in 1..L : i < j => pos[i] < pos[j]
        /\ \A k \in S \cap (1..n) : \E i \in 1..L : pos[i] = k
  BY DEF PickedOf
<1>3. CASE n + 1 \notin S
  <2>1. S \cap (1..n + 1) = S \cap (1..n)
    BY <1>3
  <2> QED
    BY <1>3, <1>2, <2>1 DEF PickedOf
<1>4. CASE n + 1 \in S
  <2> DEFINE q == Append(p, list[n + 1])
             to == [i \in 1..L + 1 |-> IF i = L + 1 THEN n + 1 ELSE pos[i]]
  <2>1. q \in Seq(T) /\ Len(q) = L + 1 /\ q[L + 1] = list[n + 1] /\ \A i \in 1..L : q[i] = p[i]
    BY <1>1
  <2>2. \A i \in 1..L : pos[i] \in S /\ pos[i] \in 1..n
    OBVIOUS
  <2>3. S \cap (1..n + 1) = (S \cap (1..n)) \cup {n + 1}
    BY <1>4
  <2>4. to \in [1..L + 1 -> S \cap (1..n + 1)] /\ to[L + 1] = n + 1 /\ \A i \in 1..L : to[i] = pos[i]
    BY <2>2, <2>3, <1>1
  <2> HIDE DEF q, to, L
  <2>5. \A i \in 1..L + 1 : i = L + 1 \/ i \in 1..L
    BY <1>1
  <2>6. \A i \in 1..L + 1 : q[i] = list[to[i]]
    BY <2>1, <2>4, <2>5, <1>2
  <2>7. ASSUME NEW i \in 1..L + 1, NEW j \in 1..L + 1, i < j PROVE to[i] < to[j]
    <3>1. i \in 1..L
      BY <2>7, <1>1
    <3>2. CASE j = L + 1
      BY <3>1, <3>2, <2>4, <2>2
    <3>3. CASE j \in 1..L
      BY <3>1, <3>3, <2>4, <1>2, <2>7
    <3> QED
      BY <3>2, <3>3, <2>5
  <2>8. ASSUME NEW k \in S \cap (1..n + 1) PROVE \E i \in 1..L + 1 : to[i] = k
    <3>1. CASE k = n + 1
      BY <3>1, <2>4, <1>1
    <3>2. CASE k \in S \cap (1..n)
      <4>1. PICK i \in 1..L : pos[i] = k
        BY <3>2, <1>2
      <4> QED
        BY <4>1, <2>4, <1>1
    <3> QED
      BY <3>1, <3>2, <2>3
  <2>9. PickedOf(q, list, S, n + 1)
    <3>1. Len(q) = L + 1
      BY <2>1
    <3>3. \A i \in 1..Len(q) : q[i] = list[to[i]]
      BY <2>6, <3>1
    <3>4. \A i, j \in 1..Len(q) : i < j => to[i] < to[j]
      BY <2>7, <3>1
    <3>5. \A k \in S \cap (1..n + 1) : \E i \in 1..Len(q) : to[i] = k
      BY <2>8, <3>1
    <3>6. to \in [1..Len(q) -> S \cap (1..n + 1)]
      BY <2>4, <3>1
    <3> HIDE DEF PickedOf
    <3>7. \E x \in [1..Len(q) -> S \cap (1..n + 1)] :
            /\ \A i \in 1..Len(q) : q[i] = list[x[i]]
            /\ \A i, j \in 1..Len(q) : i < j => x[i] < x[j]
            /\ \A k \in S \cap (1..n + 1) : \E i \in 1..Len(q) : x[i] = k
      BY <3>3, <3>4, <3>5, <3>6, Zenon
    <3> QED
      BY <3>7 DEF PickedOf
  <2> QED
    BY <2>1, <2>9, <1>4 DEF q
<1> QED
  BY <1>3, <1>4

\* What is picked is a list of the same elements, by increasing positions.
LEMMA PickedFacts ==
  ASSUME NEW T, NEW list \in Seq(T), NEW S
  PROVE  Picked(list, S) \in Seq(T) /\ PickedOf(Picked(list, S), list, S, Len(list))
<1> DEFINE N == Len(list)
           h == CHOOSE f : PickedUpTo(f, list, S)
           Q == {n \in Nat : n <= N => h[n] \in Seq(T) /\ PickedOf(h[n], list, S, n)}
<1>0. N \in Nat
  OBVIOUS
<1>1. PickedUpTo(h, list, S)
  BY PickedHasValues
<1>2. Picked(list, S) = h[N]
  BY DEF Picked, PickedUpTo
<1>3. \A n \in 0..N : h[n] = IF n = 0 THEN <<>> ELSE IF n \in S THEN Append(h[n - 1], list[n]) ELSE h[n - 1]
  <2> HIDE DEF h
  <2> QED
    BY <1>1 DEF PickedUpTo
<1> HIDE DEF h
<1>4. 0 \in Q
  <2>1. h[0] = <<>>
    BY <1>0, <1>3
  <2>2. S \cap (1..0) = {} /\ Len(<<>>) = 0
    OBVIOUS
  <2>3. <<>> \in [1..0 -> {}]
    OBVIOUS
  <2>4. PickedOf(<<>>, list, S, 0)
    BY <2>2, <2>3 DEF PickedOf
  <2>5. h[0] \in Seq(T) /\ PickedOf(h[0], list, S, 0)
    BY <2>1, <2>4
  <2> QED
    BY <2>5
<1>5. ASSUME NEW n \in Nat, n \in Q PROVE n + 1 \in Q
  <2> SUFFICES ASSUME n + 1 <= N PROVE h[n + 1] \in Seq(T) /\ PickedOf(h[n + 1], list, S, n + 1)
    OBVIOUS
  <2>1. h[n] \in Seq(T) /\ PickedOf(h[n], list, S, n)
    BY <1>5
  <2>2. h[n + 1] = IF n + 1 \in S THEN Append(h[n], list[n + 1]) ELSE h[n]
    BY <1>3, <1>0
  <2>3. /\ n + 1 \in S => Append(h[n], list[n + 1]) \in Seq(T) /\ PickedOf(Append(h[n], list[n + 1]), list, S, n + 1)
        /\ n + 1 \notin S => PickedOf(h[n], list, S, n + 1)
    BY <2>1, PickedStep
  <2> QED
    BY <2>1, <2>2, <2>3
<1> HIDE DEF Q
<1>6. N \in Q
  BY <1>0, <1>4, <1>5, SetInduction
<1> QED
  BY <1>0, <1>2, <1>6 DEF Q

LEMMA FrontFacts ==
  ASSUME NEW T, NEW s \in Seq(T), s # <<>>
  PROVE  /\ Front(s) \in Seq(T) /\ Len(Front(s)) = Len(s) - 1
         /\ \A i \in 1..Len(s) - 1 : Front(s)[i] = s[i]
         /\ Len(s) \in 1..Len(s) /\ Last(s) = s[Len(s)] /\ Last(s) \in T
<1> DEFINE n == Len(s)
           f == SubSeq(s, 1, n - 1)
<1>1. n \in Nat /\ n \in 1..n /\ \A i \in 1..n : s[i] \in T
  OBVIOUS
<1>2. Last(s) = s[n] /\ s[n] \in T
  BY <1>1 DEF Last
<1>3. Front(s) = f
  BY DEF Front
<1> HIDE DEF n
<1>4. /\ f \in Seq(T) /\ Len(f) = IF 1 <= n - 1 THEN n - 1 - 1 + 1 ELSE 0
      /\ \A i \in 1..n - 1 - 1 + 1 : f[i] = s[1 + i - 1]
  <2>1. 1 \in Int /\ n - 1 \in Int /\ \A i \in 1..n - 1 : s[i] \in T
    BY <1>1
  <2> HIDE DEF f
  <2>2. f = SubSeq(s, 1, n - 1)
    BY DEF f
  <2> QED
    BY <2>1, <2>2, SubSeqProperties
<1> HIDE DEF f
<1>5. Len(f) = n - 1
  BY <1>1, <1>4
<1>6. \A i \in 1..n - 1 : f[i] = s[i]
  BY <1>1, <1>4
<1> QED
  BY <1>1, <1>2, <1>3, <1>4, <1>5, <1>6 DEF n

LEMMA ElementsAt ==
  ASSUME NEW T, NEW s \in Seq(T)
  PROVE  ToSet(s) = {s[i] : i \in 1..Len(s)} /\ Len(s) \in Nat /\ DOMAIN s = 1..Len(s)
BY DEF ToSet

LEMMA ConcatFacts ==
  ASSUME NEW T, NEW s \in Seq(T), NEW t \in Seq(T)
  PROVE  /\ s \o t \in Seq(T) /\ Len(s \o t) = Len(s) + Len(t)
         /\ \A i \in 1..Len(s) : (s \o t)[i] = s[i]
         /\ \A i \in 1..Len(t) : (s \o t)[Len(s) + i] = t[i]
OBVIOUS

LEMMA ConcatElements ==
  ASSUME NEW T, NEW s \in Seq(T), NEW t \in Seq(T)
  PROVE  ToSet(s \o t) = ToSet(s) \cup ToSet(t)
<1> DEFINE u == s \o t
<1>1. u \in Seq(T) /\ Len(u) = Len(s) + Len(t) /\ Len(s) \in Nat /\ Len(t) \in Nat
  OBVIOUS
<1>2. \A i \in 1..Len(s) : u[i] = s[i]
  OBVIOUS
<1>3. \A i \in 1..Len(t) : u[Len(s) + i] = t[i]
  OBVIOUS
<1>4. DOMAIN u = 1..Len(u) /\ DOMAIN s = 1..Len(s) /\ DOMAIN t = 1..Len(t)
  BY <1>1
<1> HIDE DEF u
<1>5. ASSUME NEW i \in 1..Len(u) PROVE u[i] \in ToSet(s) \cup ToSet(t)
  <2>1. CASE i <= Len(s)
    BY <2>1, <1>1, <1>2, <1>4 DEF ToSet
  <2>2. CASE i > Len(s)
    <3>1. i - Len(s) \in 1..Len(t) /\ Len(s) + (i - Len(s)) = i
      BY <2>2, <1>1
    <3>2. u[i] = t[i - Len(s)]
      BY <3>1, <1>3
    <3> QED
      BY <3>1, <3>2, <1>4 DEF ToSet
  <2> QED
    BY <2>1, <2>2, <1>1
<1>6. ASSUME NEW i \in 1..Len(s) PROVE s[i] \in ToSet(u)
  BY <1>1, <1>2, <1>4 DEF ToSet
<1>7. ASSUME NEW i \in 1..Len(t) PROVE t[i] \in ToSet(u)
  <2>1. Len(s) + i \in 1..Len(u)
    BY <1>1
  <2> QED
    BY <2>1, <1>3, <1>4 DEF ToSet
<1>8. ToSet(u) \subseteq ToSet(s) \cup ToSet(t)
  BY <1>5, <1>4 DEF ToSet
<1>9. ToSet(s) \cup ToSet(t) \subseteq ToSet(u)
  BY <1>6, <1>7, <1>4 DEF ToSet
<1> QED
  BY <1>8, <1>9 DEF u

\* Its elements are those at the positions in S.
LEMMA PickedElements ==
  ASSUME NEW T, NEW list \in Seq(T), NEW S
  PROVE  ToSet(Picked(list, S)) = {list[k] : k \in S \cap (1..Len(list))}
<1> DEFINE p == Picked(list, S)
           K == S \cap (1..Len(list))
<1>1. p \in Seq(T) /\ DOMAIN p = 1..Len(p)
  BY PickedFacts
<1>2. PICK pos \in [1..Len(p) -> K] :
        /\ \A i \in 1..Len(p) : p[i] = list[pos[i]]
        /\ \A k \in K : \E i \in 1..Len(p) : pos[i] = k
  BY PickedFacts DEF PickedOf
<1> HIDE DEF p, K
<1>3. ToSet(p) = {p[i] : i \in 1..Len(p)}
  BY <1>1 DEF ToSet
<1>4. ASSUME NEW i \in 1..Len(p) PROVE p[i] \in {list[k] : k \in K}
  BY <1>2
<1>5. ASSUME NEW k \in K PROVE list[k] \in {p[i] : i \in 1..Len(p)}
  <2>1. PICK i \in 1..Len(p) : pos[i] = k
    BY <1>2
  <2> QED
    BY <2>1, <1>2
<1>6. {p[i] : i \in 1..Len(p)} \subseteq {list[k] : k \in K}
  BY <1>4
<1>7. {list[k] : k \in K} \subseteq {p[i] : i \in 1..Len(p)}
  BY <1>5
<1> QED
  BY <1>3, <1>6, <1>7, Zenon DEF p, K

-------------------------------------------------------------------------------
(***************************************************************************)
(* FlattenSeq.                                                             *)
(***************************************************************************)
FlatUpTo(f, lists) ==
  f = [i \in 1..Len(lists) |-> IF i = 1 THEN lists[i] ELSE f[i - 1] \o lists[i]]

LEMMA FlatHasValues ==
  ASSUME NEW T, NEW lists \in Seq(Seq(T)), lists # <<>>
  PROVE  \E f : FlatUpTo(f, lists)
<1> DEFINE N == Len(lists)
           F == [e \in (1..N) \X Seq(T) |-> IF e[1] = 1 THEN lists[e[1]] ELSE e[2] \o lists[e[1]]]
<1>0. N \in Nat /\ \A n \in 1..N : lists[n] \in Seq(T)
  OBVIOUS
<1>1. F \in [(1..N) \X Seq(T) -> Seq(T)]
  <2>1. ASSUME NEW e \in (1..N) \X Seq(T)
        PROVE  (IF e[1] = 1 THEN lists[e[1]] ELSE e[2] \o lists[e[1]]) \in Seq(T)
    <3>1. e[1] \in 1..N /\ e[2] \in Seq(T)
      OBVIOUS
    <3>2. lists[e[1]] \in Seq(T)
      BY <3>1, <1>0
    <3> QED
      BY <3>1, <3>2
  <2> QED
    BY <2>1
<1>2. <<>> \in Seq(T)
  OBVIOUS
<1>3. PICK f : ValuesOf(f, Seq(T), <<>>, N, F)
  <2> HIDE DEF N, F
  <2> QED
    BY <1>0, <1>1, <1>2, RecursionHasValues
<1>4. f \in [0..N -> Seq(T)] /\ \A n \in 1..N : f[n] = F[<<n, f[n - 1]>>]
  BY <1>3 DEF ValuesOf
<1> DEFINE g == [i \in 1..N |-> f[i]]
<1>5. ASSUME NEW n \in 1..N
      PROVE  g[n] = IF n = 1 THEN lists[n] ELSE g[n - 1] \o lists[n]
  <2>1. f[n - 1] \in Seq(T)
    <3>1. n - 1 \in 0..N
      BY <1>0
    <3> QED
      BY <3>1, <1>4
  <2>2. f[n] = F[<<n, f[n - 1]>>]
    BY <1>4
  <2>3. g[n] = IF n = 1 THEN lists[n] ELSE f[n - 1] \o lists[n]
    BY <2>1, <2>2
  <2>4. CASE n = 1
    BY <2>3, <2>4
  <2>5. CASE n # 1
    <3>1. n - 1 \in 1..N
      BY <2>5
    <3>2. g[n - 1] = f[n - 1]
      BY <3>1
    <3> HIDE DEF g
    <3> QED
      BY <3>2, <2>3, <2>5
  <2> QED
    BY <2>4, <2>5
<1>6. g = [n \in 1..N |-> g[n]]
  OBVIOUS
<1> HIDE DEF g
<1>7. FlatUpTo(g, lists)
  BY <1>5, <1>6, Zenon DEF FlatUpTo
<1> QED
  BY <1>7

\* Lists one after the other make a list of their elements.
LEMMA FlattenFacts ==
  ASSUME NEW T, NEW lists \in Seq(Seq(T))
  PROVE  /\ FlattenSeq(lists) \in Seq(T)
         /\ \A x : x \in ToSet(FlattenSeq(lists)) <=> \E i \in 1..Len(lists) : x \in ToSet(lists[i])
<1>1. CASE lists = <<>>
  <2>1. Len(lists) = 0 /\ FlattenSeq(lists) = lists
    BY <1>1 DEF FlattenSeq
  <2>2. ToSet(lists) = {} /\ lists \in Seq(T)
    BY <1>1 DEF ToSet
  <2>3. 1..Len(lists) = {}
    BY <2>1
  <2> QED
    BY <2>1, <2>2, <2>3
<1>2. CASE lists # <<>>
  <2> DEFINE N == Len(lists)
             h == CHOOSE f : FlatUpTo(f, lists)
             Upto(n) == {x : x \in UNION {ToSet(lists[i]) : i \in 1..n}}
             Q == {n \in Nat : n >= 1 /\ n <= N => h[n] \in Seq(T) /\ ToSet(h[n]) = Upto(n)}
  <2>0. N \in Nat /\ N >= 1 /\ \A n \in 1..N : lists[n] \in Seq(T)
    BY <1>2
  <2>1. FlatUpTo(h, lists)
    BY <1>2, FlatHasValues
  <2>2. FlattenSeq(lists) = h[N]
    BY <2>0 DEF FlattenSeq, FlatUpTo
  <2>3. \A n \in 1..N : h[n] = IF n = 1 THEN lists[n] ELSE h[n - 1] \o lists[n]
    <3> HIDE DEF h
    <3> QED
      BY <2>1 DEF FlatUpTo
  <2> HIDE DEF h
  <2>4. 0 \in Q
    OBVIOUS
  <2>5. ASSUME NEW n \in Nat, n \in Q PROVE n + 1 \in Q
    <3> SUFFICES ASSUME n + 1 <= N PROVE h[n + 1] \in Seq(T) /\ ToSet(h[n + 1]) = Upto(n + 1)
      OBVIOUS
    <3>1. n + 1 \in 1..N /\ lists[n + 1] \in Seq(T)
      BY <2>0
    <3>2. CASE n = 0
      <4>1. h[n + 1] = lists[n + 1]
        BY <3>1, <3>2, <2>3
      <4>2. 1..n + 1 = {1}
        BY <3>2
      <4>3. Upto(n + 1) = ToSet(lists[n + 1])
        BY <4>2, <3>2
      <4> QED
        BY <4>1, <4>3, <3>1
    <3>3. CASE n # 0
      <4>1. h[n] \in Seq(T) /\ ToSet(h[n]) = Upto(n)
        BY <2>5, <3>1, <3>3
      <4>2. h[n + 1] = h[n] \o lists[n + 1]
        <5>1. h[n + 1] = IF n + 1 = 1 THEN lists[n + 1] ELSE h[n + 1 - 1] \o lists[n + 1]
          BY <3>1, <2>3
        <5>2. n + 1 # 1 /\ n + 1 - 1 = n
          BY <3>3
        <5> QED
          BY <5>1, <5>2
      <4>3. ToSet(h[n] \o lists[n + 1]) = ToSet(h[n]) \cup ToSet(lists[n + 1])
        BY <4>1, <3>1, ConcatElements
      <4>4. 1..n + 1 = (1..n) \cup {n + 1}
        OBVIOUS
      <4>5. Upto(n + 1) = Upto(n) \cup ToSet(lists[n + 1])
        BY <4>4
      <4>6. h[n] \o lists[n + 1] \in Seq(T)
        BY <4>1, <3>1
      <4> HIDE DEF Upto
      <4> QED
        BY <4>1, <4>2, <4>3, <4>5, <4>6
    <3> QED
      BY <3>2, <3>3
  <2> HIDE DEF Q
  <2>6. N \in Q
    BY <2>0, <2>4, <2>5, SetInduction
  <2>7. h[N] \in Seq(T) /\ ToSet(h[N]) = Upto(N)
    BY <2>0, <2>6 DEF Q
  <2> QED
    BY <2>2, <2>7
<1> QED
  BY <1>1, <1>2

\* A list has as many elements as it is long, if it has each once.
LEMMA ElementsCounted ==
  ASSUME NEW T, NEW s \in Seq(T)
  PROVE  /\ IsFiniteSet(ToSet(s)) /\ Cardinality(ToSet(s)) \in Nat /\ Cardinality(ToSet(s)) <= Len(s)
         /\ (\A i, j \in 1..Len(s) : s[i] = s[j] => i = j) => Cardinality(ToSet(s)) = Len(s)
<1>1. Len(s) \in Nat /\ DOMAIN s = 1..Len(s)
  OBVIOUS
<1>2. s \in Surjection(1..Len(s), ToSet(s))
  <2>1. ToSet(s) = {s[i] : i \in 1..Len(s)}
    BY <1>1 DEF ToSet
  <2>2. s \in [1..Len(s) -> ToSet(s)]
    BY <2>1
  <2>3. \A t \in ToSet(s) : \E i \in 1..Len(s) : s[i] = t
    BY <2>1
  <2> QED
    BY <2>2, <2>3 DEF Surjection
<1>3. IsFiniteSet(1..Len(s)) /\ Cardinality(1..Len(s)) = Len(s)
  BY <1>1, FS_Interval
<1>4. /\ IsFiniteSet(ToSet(s)) /\ Cardinality(ToSet(s)) <= Len(s)
      /\ Cardinality(ToSet(s)) = Len(s) <=> s \in Injection(1..Len(s), ToSet(s))
  BY <1>2, <1>3, FS_Surjection
<1>5. Cardinality(ToSet(s)) \in Nat
  BY <1>4, FS_CardinalityType
<1>6. (\A i, j \in 1..Len(s) : s[i] = s[j] => i = j) => s \in Injection(1..Len(s), ToSet(s))
  <2>1. s \in [1..Len(s) -> ToSet(s)]
    BY <1>2 DEF Surjection
  <2> DEFINE n == Len(s)
  <2> HIDE DEF n
  <2>2. s \in [1..n -> ToSet(s)]
    BY <2>1 DEF n
  <2>3. (\A i, j \in 1..n : s[i] = s[j] => i = j) => s \in Injection(1..n, ToSet(s))
    BY <2>2, Zenon DEF Injection, IsInjective
  <2> QED
    BY <2>3 DEF n
<1> QED
  BY <1>4, <1>5, <1>6

\* The recursion behind Picked.
LEMMA PickedValues ==
  ASSUME NEW T, NEW list \in Seq(T), NEW S
  PROVE  \E h : /\ Picked(list, S) = h[Len(list)] /\ h[0] = <<>>
                /\ \A n \in 1..Len(list) :
                     h[n] = IF n \in S THEN Append(h[n - 1], list[n]) ELSE h[n - 1]
<1> DEFINE N == Len(list)
           h == CHOOSE f : PickedUpTo(f, list, S)
<1>0. N \in Nat
  OBVIOUS
<1>1. PickedUpTo(h, list, S)
  BY PickedHasValues
<1>2. Picked(list, S) = h[N]
  BY DEF Picked, PickedUpTo
<1> HIDE DEF h
<1>3. \A n \in 0..N : h[n] = IF n = 0 THEN <<>> ELSE IF n \in S THEN Append(h[n - 1], list[n]) ELSE h[n - 1]
  BY <1>1 DEF PickedUpTo
<1>4. \A n \in 1..N : n \in 0..N /\ n # 0
  OBVIOUS
<1>5. h[0] = <<>>
  BY <1>0, <1>3
<1> QED
  BY <1>2, <1>3, <1>4, <1>5

\* If no position is left out, it is the list.
LEMMA PickedAll ==
  ASSUME NEW T, NEW list \in Seq(T), NEW S, 1..Len(list) \subseteq S
  PROVE  Picked(list, S) = list
<1> DEFINE N == Len(list)
<1>0. N \in Nat /\ \A n \in 1..N : list[n] \in T
  OBVIOUS
<1>1. PICK h : /\ Picked(list, S) = h[N] /\ h[0] = <<>>
               /\ \A n \in 1..N : h[n] = IF n \in S THEN Append(h[n - 1], list[n]) ELSE h[n - 1]
  BY PickedValues
<1> DEFINE Q == {n \in Nat : n <= N => /\ h[n] \in Seq(T) /\ Len(h[n]) = n
                                       /\ \A k \in 1..n : h[n][k] = list[k]}
<1>2. 0 \in Q
  <2>1. <<>> \in Seq(T) /\ Len(<<>>) = 0 /\ \A k \in 1..0 : FALSE
    OBVIOUS
  <2> QED
    BY <1>1, <2>1
<1>3. ASSUME NEW n \in Nat, n \in Q PROVE n + 1 \in Q
  <2> SUFFICES ASSUME n + 1 <= N
               PROVE  /\ h[n + 1] \in Seq(T) /\ Len(h[n + 1]) = n + 1
                      /\ \A k \in 1..n + 1 : h[n + 1][k] = list[k]
    OBVIOUS
  <2>1. h[n] \in Seq(T) /\ Len(h[n]) = n /\ \A k \in 1..n : h[n][k] = list[k]
    BY <1>3, <1>0
  <2>2. n + 1 \in 1..N /\ n + 1 \in S /\ n + 1 - 1 = n
    BY <1>0
  <2>3. h[n + 1] = Append(h[n], list[n + 1]) /\ list[n + 1] \in T
    <3>1. PICK m \in 1..N : m = n + 1 /\ m - 1 = n
      BY <2>2
    <3>2. h[m] = Append(h[m - 1], list[m])
      BY <1>1, <2>2, <3>1
    <3> QED
      BY <1>0, <3>1, <3>2
  <2> DEFINE p == h[n]
             x == list[n + 1]
  <2> HIDE DEF p, x
  <2>4. Append(p, x) \in Seq(T) /\ Len(Append(p, x)) = n + 1 /\ Append(p, x)[n + 1] = x
        /\ \A k \in 1..n : Append(p, x)[k] = p[k]
    BY <2>1, <2>3 DEF p, x
  <2>5. \A k \in 1..n + 1 : k = n + 1 \/ k \in 1..n
    OBVIOUS
  <2> QED
    BY <2>1, <2>3, <2>4, <2>5 DEF p, x
<1> HIDE DEF Q
<1>4. N \in Q
  BY <1>0, <1>2, <1>3, SetInduction
<1>5. h[N] \in Seq(T) /\ Len(h[N]) = N /\ \A k \in 1..N : h[N][k] = list[k]
  BY <1>0, <1>4 DEF Q
<1> QED
  BY <1>0, <1>1, <1>5

\* A set of positions has a greatest and a least one.
LEMMA ExtremesExist ==
  ASSUME NEW N \in Nat, NEW S, S \subseteq 0..N, S # {}
  PROVE  /\ Max(S) \in S /\ \A k \in S : k <= Max(S)
         /\ Min(S) \in S /\ \A k \in S : Min(S) <= k
<1>0. S \subseteq Nat /\ \A k \in S : k \in Int /\ N - k \in Nat
  OBVIOUS
<1>1. \E k \in S : \A l \in S : k <= l
  BY <1>0, LeastOf
<1>2. Min(S) \in S /\ \A k \in S : Min(S) <= k
  BY <1>1 DEF Min
<1> DEFINE T == {N - k : k \in S}
<1>3. T \subseteq Nat /\ T # {}
  BY <1>0
<1>4. PICK x \in T : \A y \in T : x <= y
  BY <1>3, LeastOf
<1>5. PICK k \in S : x = N - k
  BY <1>4
<1>6. \A l \in S : k >= l
  <2> SUFFICES ASSUME NEW l \in S PROVE k >= l
    OBVIOUS
  <2>1. x <= N - l
    BY <1>4
  <2> QED
    BY <1>5, <2>1
<1>7. \E m \in S : \A l \in S : m >= l
  BY <1>6
<1>8. Max(S) \in S /\ \A l \in S : Max(S) >= l
  BY <1>7 DEF Max
<1>9. \A l \in S : l <= Max(S)
  BY <1>8
<1> QED
  BY <1>2, <1>8, <1>9

\* Nothing is picked twice.
LEMMA PickedLength ==
  ASSUME NEW T, NEW list \in Seq(T), NEW S
  PROVE  Len(Picked(list, S)) <= Len(list)
<1> DEFINE N == Len(list)
<1>0. N \in Nat /\ \A n \in 1..N : list[n] \in T
  OBVIOUS
<1>1. PICK h : /\ Picked(list, S) = h[N] /\ h[0] = <<>>
               /\ \A n \in 1..N : h[n] = IF n \in S THEN Append(h[n - 1], list[n]) ELSE h[n - 1]
  BY PickedValues
<1> DEFINE Q == {n \in Nat : n <= N => h[n] \in Seq(T) /\ Len(h[n]) <= n}
<1>2. 0 \in Q
  <2>1. <<>> \in Seq(T) /\ Len(<<>>) = 0
    OBVIOUS
  <2>2. h[0] \in Seq(T) /\ Len(h[0]) <= 0
    BY <1>1, <2>1
  <2> QED
    BY <2>2
<1>3. ASSUME NEW n \in Nat, n \in Q PROVE n + 1 \in Q
  <2> SUFFICES ASSUME n + 1 <= N PROVE h[n + 1] \in Seq(T) /\ Len(h[n + 1]) <= n + 1
    OBVIOUS
  <2>1. h[n] \in Seq(T) /\ Len(h[n]) <= n
    BY <1>0, <1>3
  <2>2. PICK m \in 1..N : m = n + 1 /\ m - 1 = n
    BY <1>0
  <2>3. h[m] = IF m \in S THEN Append(h[m - 1], list[m]) ELSE h[m - 1]
    BY <1>1
  <2>4. (h[n + 1] = Append(h[n], list[n + 1]) \/ h[n + 1] = h[n]) /\ list[n + 1] \in T
    BY <1>0, <2>2, <2>3
  <2> DEFINE p == h[n]
             x == list[n + 1]
  <2> HIDE DEF p, x
  <2>5. Append(p, x) \in Seq(T) /\ Len(Append(p, x)) = Len(p) + 1 /\ Len(p) \in Nat
    BY <2>1, <2>4 DEF p, x
  <2>6. CASE h[n + 1] = Append(h[n], list[n + 1])
    <3>1. h[n + 1] = Append(p, x) /\ Len(p) <= n
      BY <2>1, <2>6 DEF p, x
    <3> QED
      BY <2>5, <3>1
  <2>7. CASE h[n + 1] = h[n]
    <3>1. h[n + 1] = p /\ Len(p) <= n /\ p \in Seq(T)
      BY <2>1, <2>7 DEF p
    <3> QED
      BY <2>5, <3>1
  <2> QED
    BY <2>4, <2>6, <2>7
<1> HIDE DEF Q
<1>4. N \in Q
  BY <1>0, <1>2, <1>3, SetInduction
<1>5. Len(h[N]) <= N
  BY <1>0, <1>4 DEF Q
<1> QED
  BY <1>1, <1>5
===============================================================================
