---------------------------- MODULE LinkedLists ----------------------------
(***************************************************************************)
(* Facts about lists.  First induction, stated for the members of a set,   *)
(* and that a function which recurs on the number before exists.  Then the *)
(* doubly linked lists of fdevent.c and usb_linux.c, which the models keep *)
(* as sequences: what taking an entry out, taking the first and adding to  *)
(* the end leave in the list.                                              *)
(***************************************************************************)
EXTENDS Integers, Sequences, SequencesExt, WellFoundedInduction, TLAPS

-----------------------------------------------------------------------------
(* Induction. *)

\* A set of numbers that is not empty has a least one.
LEMMA Least ==
  ASSUME NEW T, T \subseteq Nat, T # {}
  PROVE  \E x \in T : \A y \in T : x <= y
<1> DEFINE R == OpToRel(<, Nat)
<1>1. IsWellFoundedOn(R, Nat)
  BY NatLessThanWellFounded, Zenon
<1>2. \A x, y \in Nat : x < y => <<x, y>> \in R
  BY DEF OpToRel
<1> HIDE DEF R
<1>3. PICK x \in T : \A y \in T : ~ (<<y, x>> \in R)
  BY <1>1, WFMin
<1>4. ASSUME NEW y \in T PROVE x <= y
  <2>1. x \in Nat /\ y \in Nat
    OBVIOUS
  <2>2. ~ (y < x)
    BY <1>2, <1>3, <2>1
  <2> QED BY <2>1, <2>2
<1> QED BY <1>4

\* Induction over the natural numbers, for the members of a set.
LEMMA Induction ==
  ASSUME NEW S, 0 \in S, \A n \in Nat : n \in S => n + 1 \in S
  PROVE  Nat \subseteq S
<1> SUFFICES ASSUME Nat \ S # {} PROVE FALSE
  OBVIOUS
<1>1. PICK x \in Nat \ S : \A y \in Nat \ S : x <= y
  BY Least
<1> QED BY <1>1

\* Up to a bound.
LEMMA BoundedInduction ==
  ASSUME NEW n \in Nat, NEW S, 0 \in S, \A i \in 1..n : i - 1 \in S => i \in S
  PROVE  0..n \subseteq S
<1> DEFINE T == {i \in Nat : i <= n => i \in S}
<1>1. 0 \in T
  OBVIOUS
<1>2. ASSUME NEW i \in Nat, i \in T PROVE i + 1 \in T
  <2> SUFFICES ASSUME i + 1 <= n PROVE i + 1 \in S
    OBVIOUS
  <2>1. i \in S /\ i + 1 \in 1..n /\ (i + 1) - 1 = i
    BY <1>2
  <2>2. (i + 1) - 1 \in S => i + 1 \in S
    BY <2>1
  <2> QED BY <2>1, <2>2
<1> HIDE DEF T
<1>3. Nat \subseteq T
  BY <1>1, <1>2, Induction
<1> QED BY <1>3 DEF T

\* f has values in V, begins with a and goes on from i - 1 to i by step[i].
Recurs(f, n, V, a, step) ==
  f \in [0..n -> V] /\ f[0] = a /\ \A i \in 1..n : f[i] = step[i][f[i - 1]]

\* A function that recurs on the number before exists.
LEMMA Recursion ==
  ASSUME NEW n \in Nat, NEW V, NEW a \in V, NEW step \in [1..n -> [V -> V]]
  PROVE  \E f : Recurs(f, n, V, a, step)
<1> DEFINE Up(k, f) == f[0] = a /\ \A i \in 1..k : f[i] = step[i][f[i - 1]]
           T == {k \in 0..n : \E f \in [0..n -> V] : Up(k, f)}
<1>1. 0 \in T
  <2>1. [i \in 0..n |-> a] \in [0..n -> V]
    OBVIOUS
  <2>2. Up(0, [i \in 0..n |-> a])
    OBVIOUS
  <2>3. 0 \in 0..n
    OBVIOUS
  <2> QED BY <2>1, <2>2, <2>3
<1>2. ASSUME NEW k \in 1..n, k - 1 \in T PROVE k \in T
  <2>1. PICK f \in [0..n -> V] : Up(k - 1, f)
    BY <1>2
  <2> DEFINE g == [f EXCEPT ![k] = step[k][f[k - 1]]]
  <2>2. k \in 0..n /\ k - 1 \in 0..n /\ f[k - 1] \in V /\ step[k] \in [V -> V]
    OBVIOUS
  <2>3. step[k][f[k - 1]] \in V
    BY <2>2
  <2>4. g \in [0..n -> V]
    BY <2>2, <2>3
  <2>5. g[k] = step[k][f[k - 1]] /\ \A i \in 0..n : i # k => g[i] = f[i]
    BY <2>2
  <2>6. Up(k, g)
    <3>1. g[0] = a
      BY <2>1, <2>5
    <3>2. ASSUME NEW i \in 1..k PROVE g[i] = step[i][g[i - 1]]
      <4>1. i \in 0..n /\ i - 1 \in 0..n /\ i - 1 # k
        OBVIOUS
      <4>2. g[i - 1] = f[i - 1]
        BY <2>5, <4>1
      <4>3. CASE i = k
        BY <2>5, <4>2, <4>3
      <4>4. CASE i # k
        BY <2>1, <2>5, <4>1, <4>2, <4>4
      <4> QED BY <4>3, <4>4
    <3> QED BY <3>1, <3>2
  <2> QED BY <2>2, <2>4, <2>6
<1> HIDE DEF T
<1>3. 0..n \subseteq T
  BY <1>1, <1>2, BoundedInduction
<1>4. n \in T
  BY <1>3
<1> QED BY <1>4 DEF T, Recurs

-----------------------------------------------------------------------------
(* Linked lists. *)

\* s links exactly the members of set S, once each.
Links(s, S) == IsInjective(s) /\ ToSet(s) = S

\* s without its entry f.
Without(s, f) == RemoveAt(s, CHOOSE i \in DOMAIN s : s[i] = f)

\* What is where in a sequence that has lost its i-th entry.
LEMMA RemoveAtEach ==
  ASSUME NEW S, NEW s \in Seq(S), NEW i \in DOMAIN s
  PROVE  /\ RemoveAt(s, i) \in Seq(S) /\ Len(s) \in Nat /\ i \in 1..Len(s)
         /\ Len(RemoveAt(s, i)) = Len(s) - 1
         /\ \A k \in 1..(i - 1) : RemoveAt(s, i)[k] = s[k]
         /\ \A k \in i..(Len(s) - 1) : RemoveAt(s, i)[k] = s[k + 1]
<1> DEFINE u == SubSeq(s, 1, i - 1)
           v == SubSeq(s, i + 1, Len(s))
<1>1. /\ Len(s) \in Nat /\ i \in 1..Len(s)
      /\ u \in Seq(S) /\ Len(u) = i - 1 /\ \A k \in 1..(i - 1) : u[k] = s[k]
      /\ v \in Seq(S) /\ Len(v) = Len(s) - i
      /\ \A k \in 1..(Len(s) - i) : v[k] = s[i + k]
  OBVIOUS
<1> HIDE DEF u, v
<1> DEFINE r == u \o v
<1>2. /\ r \in Seq(S) /\ Len(r) = Len(u) + Len(v)
      /\ \A k \in 1..Len(u) : r[k] = u[k]
      /\ \A k \in (Len(u) + 1)..(Len(u) + Len(v)) : r[k] = v[k - Len(u)]
  <2>1. u \in Seq(S) /\ v \in Seq(S)
    BY <1>1
  <2> QED BY ONLY <2>1
<1> HIDE DEF r
<1>3. ASSUME NEW k \in i..(Len(s) - 1) PROVE r[k] = s[k + 1]
  <2>1. /\ k \in (Len(u) + 1)..(Len(u) + Len(v)) /\ k - Len(u) \in 1..(Len(s) - i)
        /\ i + (k - Len(u)) = k + 1
    BY <1>1
  <2>2. r[k] = v[k - Len(u)] /\ v[k - Len(u)] = s[i + (k - Len(u))]
    BY <1>1, <1>2, <2>1
  <2> QED BY <2>1, <2>2
<1>4. Len(r) = Len(s) - 1 /\ \A k \in 1..(i - 1) : r[k] = s[k]
  <2>1. Len(u) + Len(v) = Len(s) - 1
    BY <1>1
  <2>2. ASSUME NEW k \in 1..(i - 1) PROVE r[k] = s[k]
    <3>1. k \in 1..Len(u)
      BY <1>1
    <3>2. r[k] = u[k]
      BY <1>2, <3>1
    <3>3. u[k] = s[k]
      BY <1>1
    <3> QED BY <3>2, <3>3
  <2> QED BY <1>2, <2>1, <2>2
<1>5. RemoveAt(s, i) = r
  BY DEF RemoveAt, r, u, v
<1> QED BY <1>1, <1>2, <1>3, <1>4, <1>5

\* Taking out an entry.
LEMMA WithoutLinks ==
  ASSUME NEW S, NEW s \in Seq(S), NEW P, Links(s, P), NEW f \in P
  PROVE  /\ Without(s, f) \in Seq(S)
         /\ Links(Without(s, f), P \ {f})
<1> DEFINE i == CHOOSE j \in DOMAIN s : s[j] = f
           r == RemoveAt(s, i)
<1>1. i \in DOMAIN s /\ s[i] = f
  BY DEF Links, ToSet
<1> HIDE DEF i
<1>2. /\ r \in Seq(S) /\ Len(s) \in Nat /\ i \in 1..Len(s)
      /\ Len(r) = Len(s) - 1
      /\ \A k \in 1..(i - 1) : r[k] = s[k]
      /\ \A k \in i..(Len(s) - 1) : r[k] = s[k + 1]
  BY <1>1, RemoveAtEach
<1> HIDE DEF r
<1>3. DOMAIN r = 1..(Len(s) - 1) /\ DOMAIN s = 1..Len(s)
  BY <1>2
<1>4. \A a, b \in DOMAIN s : s[a] = s[b] => a = b
  BY DEF Links, IsInjective
<1>5. ASSUME NEW k \in DOMAIN r
      PROVE  \/ k < i /\ k \in DOMAIN s /\ r[k] = s[k]
             \/ k >= i /\ k + 1 \in DOMAIN s /\ r[k] = s[k + 1]
  BY <1>2, <1>3
<1>6. IsInjective(r)
  <2> SUFFICES ASSUME NEW a \in DOMAIN r, NEW b \in DOMAIN r, r[a] = r[b]
               PROVE  a = b
    BY DEF IsInjective
  <2>1. a \in Nat /\ b \in Nat /\ i \in Nat
    BY <1>2, <1>3
  <2> QED BY <1>4, <1>5, <2>1
<1>7. ToSet(r) \subseteq P \ {f}
  <2> SUFFICES ASSUME NEW k \in DOMAIN r PROVE r[k] \in P \ {f}
    BY DEF ToSet
  <2>1. k \in Nat /\ i \in Nat
    BY <1>2, <1>3
  <2>2. PICK m \in DOMAIN s : m # i /\ r[k] = s[m]
    BY <1>5, <2>1
  <2> QED BY <1>1, <1>4, <2>2 DEF Links, ToSet
<1>8. P \ {f} \subseteq ToSet(r)
  <2> SUFFICES ASSUME NEW g \in P, g # f PROVE g \in ToSet(r)
    OBVIOUS
  <2>1. PICK m \in DOMAIN s : s[m] = g
    BY DEF Links, ToSet
  <2>2. m # i /\ m \in 1..Len(s)
    BY <1>1, <1>3, <2>1
  <2>3. CASE m < i
    <3>1. m \in DOMAIN r /\ r[m] = s[m]
      BY <1>2, <1>3, <2>2, <2>3
    <3> QED BY <2>1, <3>1 DEF ToSet
  <2>4. CASE m > i
    <3>1. m - 1 \in DOMAIN r /\ m - 1 \in i..(Len(s) - 1) /\ (m - 1) + 1 = m
      BY <1>2, <1>3, <2>2, <2>4
    <3>2. r[m - 1] = s[m]
      BY <1>2, <3>1
    <3> QED BY <2>1, <3>1, <3>2 DEF ToSet
  <2> QED BY <1>2, <2>2, <2>3, <2>4
<1>9. Without(s, f) = r
  BY DEF Without, r, i
<1> QED BY <1>2, <1>6, <1>7, <1>8, <1>9 DEF Links

\* Taking the first entry.
LEMMA TailLinks ==
  ASSUME NEW S, NEW s \in Seq(S), NEW P, Links(s, P), s # <<>>
  PROVE  /\ Tail(s) \in Seq(S) /\ Links(Tail(s), P \ {Head(s)})
         /\ Head(s) \in P /\ Head(s) \in S
<1> DEFINE r == Tail(s)
<1>1. /\ r \in Seq(S) /\ Len(s) \in Nat /\ Len(s) > 0 /\ Len(r) = Len(s) - 1
      /\ \A k \in 1..Len(r) : r[k] = s[k + 1]
      /\ Head(s) = s[1] /\ DOMAIN s = 1..Len(s) /\ s[1] \in S
  OBVIOUS
<1> HIDE DEF r
<1>2. DOMAIN r = 1..(Len(s) - 1) /\ 1 \in DOMAIN s
  BY <1>1
<1>3. \A a, b \in DOMAIN s : s[a] = s[b] => a = b
  BY DEF Links, IsInjective
<1>4. \A k \in DOMAIN r : k \in Nat /\ k + 1 \in DOMAIN s /\ k + 1 # 1 /\ r[k] = s[k + 1]
  BY <1>1, <1>2
<1>5. IsInjective(r)
  BY <1>3, <1>4 DEF IsInjective
<1>6. \A k \in DOMAIN r : r[k] \in P \ {s[1]}
  BY <1>2, <1>3, <1>4 DEF Links, ToSet
<1>7. ASSUME NEW g \in P, g # s[1] PROVE \E k \in DOMAIN r : r[k] = g
  <2>1. PICK m \in DOMAIN s : s[m] = g
    BY DEF Links, ToSet
  <2>2. m - 1 \in DOMAIN r /\ (m - 1) + 1 = m /\ m - 1 \in 1..Len(r)
    BY <1>1, <1>2, <1>7, <2>1
  <2>3. r[m - 1] = g
    BY <1>1, <2>1, <2>2
  <2> QED BY <2>2, <2>3
<1>8. ToSet(r) = P \ {s[1]}
  BY <1>6, <1>7 DEF ToSet
<1>9. s[1] \in P
  BY <1>2 DEF Links, ToSet
<1> QED BY <1>1, <1>5, <1>8, <1>9 DEF Links, r

\* Adding entries that the list does not hold.
LEMMA ConcatLinks ==
  ASSUME NEW S, NEW s \in Seq(S), NEW t \in Seq(S), NEW P, NEW Q,
         Links(s, P), Links(t, Q), P \cap Q = {}
  PROVE  s \o t \in Seq(S) /\ Links(s \o t, P \cup Q)
<1> DEFINE r == s \o t
<1>1. /\ r \in Seq(S) /\ Len(s) \in Nat /\ Len(t) \in Nat
      /\ Len(r) = Len(s) + Len(t)
      /\ \A k \in 1..Len(s) : r[k] = s[k]
      /\ \A k \in (Len(s) + 1)..(Len(s) + Len(t)) : r[k] = t[k - Len(s)]
      /\ DOMAIN s = 1..Len(s) /\ DOMAIN t = 1..Len(t)
  OBVIOUS
<1> HIDE DEF r
<1>2. DOMAIN r = 1..(Len(s) + Len(t))
  BY <1>1
<1>3. ASSUME NEW k \in DOMAIN r
      PROVE  \/ k \in DOMAIN s /\ r[k] = s[k] /\ r[k] \in P /\ k \in Nat
             \/ k - Len(s) \in DOMAIN t /\ r[k] = t[k - Len(s)] /\ r[k] \in Q /\ k \in Nat
  <2>1. \/ k \in DOMAIN s /\ r[k] = s[k] /\ k \in Nat
        \/ k - Len(s) \in DOMAIN t /\ r[k] = t[k - Len(s)] /\ k \in Nat
    BY <1>1, <1>2
  <2> QED BY <2>1 DEF Links, ToSet
<1>4. /\ \A a, b \in DOMAIN s : s[a] = s[b] => a = b
      /\ \A a, b \in DOMAIN t : t[a] = t[b] => a = b
  BY DEF Links, IsInjective
<1>5. IsInjective(r)
  <2> SUFFICES ASSUME NEW a \in DOMAIN r, NEW b \in DOMAIN r, r[a] = r[b]
               PROVE  a = b
    BY DEF IsInjective
  <2>1. \/ a \in DOMAIN s /\ b \in DOMAIN s /\ s[a] = s[b]
        \/ /\ a - Len(s) \in DOMAIN t /\ b - Len(s) \in DOMAIN t
           /\ t[a - Len(s)] = t[b - Len(s)]
    BY <1>3
  <2>2. a = b \/ a - Len(s) = b - Len(s)
    BY <1>4, <2>1
  <2>3. a \in Nat /\ b \in Nat
    BY <1>3
  <2> QED BY <1>1, <2>2, <2>3
<1>6. ASSUME NEW g \in P \cup Q PROVE \E k \in DOMAIN r : r[k] = g
  <2>1. CASE g \in P
    <3>1. PICK m \in DOMAIN s : s[m] = g
      BY <2>1 DEF Links, ToSet
    <3>2. m \in DOMAIN r /\ r[m] = s[m]
      BY <1>1, <1>2, <3>1
    <3> QED BY <3>1, <3>2
  <2>2. CASE g \in Q
    <3>1. PICK m \in DOMAIN t : t[m] = g
      BY <2>2 DEF Links, ToSet
    <3>2. /\ m + Len(s) \in DOMAIN r /\ (m + Len(s)) - Len(s) = m
          /\ m + Len(s) \in (Len(s) + 1)..(Len(s) + Len(t))
      BY <1>1, <1>2, <3>1
    <3>3. r[m + Len(s)] = g
      BY <1>1, <3>1, <3>2
    <3> QED BY <3>2, <3>3
  <2> QED BY <2>1, <2>2
<1>7. ToSet(r) = P \cup Q
  BY <1>3, <1>6 DEF ToSet
<1> QED BY <1>1, <1>5, <1>7 DEF Links, r

\* Adding one entry.
LEMMA AppendLinks ==
  ASSUME NEW S, NEW s \in Seq(S), NEW x \in S, NEW P, Links(s, P), x \notin P
  PROVE  /\ Append(s, x) \in Seq(S) /\ Links(Append(s, x), P \cup {x})
         /\ Append(s, x) # <<>> /\ Last(Append(s, x)) = x
<1> DEFINE r == Append(s, x)
<1>1. /\ r \in Seq(S) /\ Len(s) \in Nat /\ Len(r) = Len(s) + 1
      /\ \A k \in 1..Len(s) : r[k] = s[k]
      /\ r[Len(s) + 1] = x
      /\ DOMAIN s = 1..Len(s) /\ DOMAIN r = 1..(Len(s) + 1)
  OBVIOUS
<1> HIDE DEF r
<1>2. \A a, b \in DOMAIN s : s[a] = s[b] => a = b
  BY DEF Links, IsInjective
<1>3. \A k \in DOMAIN s : s[k] \in P
  BY DEF Links, ToSet
<1>4. \A k \in DOMAIN r : (k \in DOMAIN s /\ r[k] = s[k]) \/ (k = Len(s) + 1 /\ r[k] = x)
  BY <1>1
<1>5. IsInjective(r)
  BY <1>2, <1>3, <1>4 DEF IsInjective
<1>6. ASSUME NEW g \in P PROVE \E k \in DOMAIN r : r[k] = g
  <2>1. PICK m \in DOMAIN s : s[m] = g
    BY DEF Links, ToSet
  <2>2. m \in DOMAIN r /\ r[m] = s[m]
    BY <1>1
  <2> QED BY <2>1, <2>2
<1>7. \E k \in DOMAIN r : r[k] = x
  <2>1. Len(s) + 1 \in DOMAIN r
    BY <1>1
  <2> QED BY <1>1, <2>1
<1>8. \A k \in DOMAIN r : r[k] \in P \cup {x}
  BY <1>3, <1>4
<1>9. ToSet(r) = P \cup {x}
  BY <1>6, <1>7, <1>8 DEF ToSet
<1>10. r # <<>> /\ Last(r) = x
  BY <1>1 DEF Last
<1> QED BY <1>1, <1>5, <1>9, <1>10 DEF Links, r

\* Taking out an entry that is not the last.
LEMMA WithoutLast ==
  ASSUME NEW S, NEW s \in Seq(S), NEW P, Links(s, P), NEW f \in P, Last(s) # f
  PROVE  Without(s, f) # <<>> /\ Last(Without(s, f)) = Last(s)
<1> DEFINE i == CHOOSE j \in DOMAIN s : s[j] = f
           r == RemoveAt(s, i)
<1>1. i \in DOMAIN s /\ s[i] = f
  BY DEF Links, ToSet
<1> HIDE DEF i
<1>2. /\ r \in Seq(S) /\ Len(s) \in Nat /\ i \in 1..Len(s)
      /\ Len(r) = Len(s) - 1
      /\ \A k \in i..(Len(s) - 1) : r[k] = s[k + 1]
  BY <1>1, RemoveAtEach
<1> HIDE DEF r
<1>3. i # Len(s)
  BY <1>1 DEF Last
<1>4. Len(s) - 1 \in i..(Len(s) - 1) /\ (Len(s) - 1) + 1 = Len(s) /\ Len(s) - 1 # 0
  BY <1>2, <1>3
<1>5. r[Len(s) - 1] = s[Len(s)]
  BY <1>2, <1>4
<1>6. r # <<>> /\ Last(r) = Last(s)
  BY <1>2, <1>4, <1>5 DEF Last
<1> QED BY <1>6 DEF Without, r, i
=============================================================================
