--------------------------- MODULE FastbootProofs ---------------------------
(***************************************************************************)
(* Proofs about Fastboot and Sparse.                                       *)
(*                                                                         *)
(* The list of backed blocks is followed from the generator, or the file,  *)
(* to the sparse files (ImageInv); the queue and the device from the first *)
(* action to the last (ExecInv).                                           *)
(***************************************************************************)
EXTENDS Fastboot, LinkedLists, FiniteSetTheorems, SequenceTheorems, TLAPS

-----------------------------------------------------------------------------
(* Blocks of 4096 bytes. *)

\* Lengths in blocks.
LEMMA RoundUp ==
    ASSUME NEW n \in Nat
    PROVE  /\ DIV_ROUND_UP(n) \in Nat
           /\ n <= 4096 * DIV_ROUND_UP(n) /\ 4096 * DIV_ROUND_UP(n) < n + 4096
           /\ n > 0 <=> DIV_ROUND_UP(n) > 0
    BY DEF DIV_ROUND_UP, block_size

\* Lengths of whole blocks.
LEMMA Aligned ==
    ASSUME NEW n \in Nat
    PROVE  /\ ALIGN(n) = 4096 * DIV_ROUND_UP(n) /\ ALIGN(n) \in Nat
           /\ DIV_ROUND_UP(ALIGN(n)) = DIV_ROUND_UP(n)
    BY DEF DIV_ROUND_UP, ALIGN, block_size

\* The whole blocks of a length.
LEMMA AlignedDown ==
    ASSUME NEW n \in Nat
    PROVE  /\ n \div 4096 \in Nat /\ 4096 * (n \div 4096) <= n
           /\ n < 4096 * (n \div 4096) + 4096
           /\ ALIGN_DOWN(n) = 4096 * (n \div 4096) /\ ALIGN_DOWN(n) \in Nat
    BY DEF ALIGN_DOWN, block_size

\* Any number of whole blocks.
LEMMA RoundUpSum ==
    ASSUME NEW m \in Nat, NEW n \in Nat, NEW q \in Nat, m = 4096 * q
    PROVE  /\ DIV_ROUND_UP(m) = q /\ DIV_ROUND_UP(m + n) = q + DIV_ROUND_UP(n)
           /\ m \div 4096 = q
    BY DEF DIV_ROUND_UP, block_size

\* A length of whole blocks is that many of them.
LEMMA WholeBlocks ==
    ASSUME NEW q \in Nat
    PROVE  DIV_ROUND_UP(4096 * q) = q
<1>1. 4096 * q \in Nat /\ 0 \in Nat
  OBVIOUS
<1> QED BY <1>1, RoundUpSum

-----------------------------------------------------------------------------
(* Backed blocks and what they put on the disk. *)

Block == [id: Nat, block: Nat, len: Nat \ {0}, type: {"fd", "fill"}, src: Nat]

\* What bb puts into the block k.
CellAt(bb, k) ==
    [block |-> k, type |-> bb.type,
     src |-> IF bb.type = "fill" THEN bb.src
             ELSE bb.src + (k - bb.block) * block_size,
     bytes |-> IF k + 1 = EndOf(bb) THEN bb.len - (k - bb.block) * block_size
               ELSE block_size]

\* A block has at least one cell.
LEMMA CellsOf ==
    ASSUME NEW bb \in Block
    PROVE  /\ Cells(bb) = {CellAt(bb, k) : k \in bb.block..(EndOf(bb) - 1)}
           /\ EndOf(bb) \in Nat /\ bb.block < EndOf(bb) /\ bb.block \in Nat
           /\ \A c \in Cells(bb) : bb.block <= c.block /\ c.block < EndOf(bb) /\ c.block \in Nat
           /\ \A k \in bb.block..(EndOf(bb) - 1) : CellAt(bb, k) \in Cells(bb) /\ CellAt(bb, k).block = k
<1>1. bb.block \in Nat /\ bb.len \in Nat /\ bb.len > 0
    BY DEF Block
<1>2. DIV_ROUND_UP(bb.len) \in Nat /\ DIV_ROUND_UP(bb.len) > 0
    BY <1>1, RoundUp
<1>3. EndOf(bb) \in Nat /\ bb.block < EndOf(bb)
    BY <1>1, <1>2 DEF EndOf
<1>4. Cells(bb) = {CellAt(bb, k) : k \in bb.block..(EndOf(bb) - 1)}
    BY DEF Cells, CellAt
<1>5. \A k : CellAt(bb, k).block = k
    BY DEF CellAt
<1> QED
    BY <1>1, <1>3, <1>4, <1>5

\* merge_bb(): what the two blocks had, the merged one has.
LEMMA MergeCells ==
    ASSUME NEW a \in Block, NEW b \in Block, Mergeable(a, b), EndOf(a) <= b.block
    PROVE  LET c == [a EXCEPT !.len = @ + b.len] IN
           /\ c \in Block /\ c.block = a.block /\ EndOf(c) = EndOf(b)
           /\ Cells(c) = Cells(a) \cup Cells(b)
<1> DEFINE c == [a EXCEPT !.len = @ + b.len]
           q == a.len \div 4096
<1>1. /\ a.block \in Nat /\ b.block \in Nat /\ a.src \in Nat /\ b.src \in Nat
      /\ a.len \in Nat \ {0} /\ b.len \in Nat \ {0}
      /\ a.type = b.type /\ a.type \in {"fd", "fill"}
      /\ b.block = a.block + q
      /\ a.type = "fill" => a.src = b.src
      /\ a.type = "fd" => a.src + a.len = b.src
    BY DEF Block, Mergeable, block_size
<1>2. c \in Block /\ c.block = a.block /\ c.len = a.len + b.len /\ c.src = a.src /\ c.type = a.type
    BY DEF Block
<1>3. q \in Nat /\ 4096 * q <= a.len
    BY <1>1, AlignedDown
<1>4. DIV_ROUND_UP(a.len) <= q
    BY <1>1, <1>3, RoundUp DEF EndOf
<1> HIDE DEF q
<1>5. a.len = 4096 * q
  <2>1. DIV_ROUND_UP(a.len) \in Nat /\ a.len <= 4096 * DIV_ROUND_UP(a.len)
    BY <1>1, RoundUp
  <2> QED
    BY <1>1, <1>3, <1>4, <2>1
<1>6. DIV_ROUND_UP(a.len) = q /\ DIV_ROUND_UP(c.len) = q + DIV_ROUND_UP(b.len)
    BY <1>1, <1>2, <1>3, <1>5, RoundUpSum
<1>7. DIV_ROUND_UP(b.len) \in Nat
    BY <1>1, RoundUp
<1>8. EndOf(a) = b.block /\ EndOf(c) = EndOf(b)
    BY <1>1, <1>2, <1>3, <1>6, <1>7 DEF EndOf
<1>9. a.block < EndOf(a) /\ b.block < EndOf(b) /\ EndOf(b) \in Nat
    BY CellsOf
<1>10. ASSUME NEW k \in a.block..(EndOf(a) - 1) PROVE CellAt(c, k) = CellAt(a, k)
  <2>1. k \in Int /\ k < b.block /\ k + 1 # EndOf(c)
    BY <1>1, <1>8, <1>9
  <2>2. k + 1 = EndOf(a) => a.len - (k - a.block) * 4096 = 4096
    BY <1>1, <1>3, <1>5, <1>8, <2>1
  <2> QED
    BY <1>2, <2>1, <2>2 DEF CellAt, block_size
<1>11. ASSUME NEW k \in b.block..(EndOf(b) - 1) PROVE CellAt(c, k) = CellAt(b, k)
  <2>1. k \in Int
    BY <1>1
  <2>2. c.len - (k - c.block) * 4096 = b.len - (k - b.block) * 4096
    BY <1>1, <1>2, <1>3, <1>5, <2>1
  <2>3. a.type = "fd" => c.src + (k - c.block) * 4096 = b.src + (k - b.block) * 4096
    BY <1>1, <1>2, <1>3, <1>5, <2>1
  <2> QED
    BY <1>1, <1>2, <1>8, <2>2, <2>3 DEF CellAt, block_size
<1> HIDE DEF c
<1>12. /\ Cells(a) = {CellAt(a, k) : k \in a.block..(EndOf(a) - 1)}
       /\ Cells(b) = {CellAt(b, k) : k \in b.block..(EndOf(b) - 1)}
       /\ Cells(c) = {CellAt(c, k) : k \in c.block..(EndOf(c) - 1)}
    BY <1>2, CellsOf
<1>13. \A k : k \in c.block..(EndOf(c) - 1) <=>
                 k \in a.block..(EndOf(a) - 1) \/ k \in b.block..(EndOf(b) - 1)
    BY <1>1, <1>2, <1>8, <1>9
<1>14. Cells(c) = Cells(a) \cup Cells(b)
    BY <1>10, <1>11, <1>12, <1>13
<1> QED
    BY <1>2, <1>8, <1>14 DEF c

-----------------------------------------------------------------------------
(* The list of backed blocks. *)

\* Entries of a part of a list.
LEMMA Sub ==
    ASSUME NEW S, NEW s \in Seq(S), NEW m \in Nat \ {0}, NEW n \in Nat, n <= Len(s), m <= n + 1
    PROVE  /\ SubSeq(s, m, n) \in Seq(S) /\ Len(SubSeq(s, m, n)) = n + 1 - m
           /\ \A k \in 1..(n + 1 - m) : SubSeq(s, m, n)[k] = s[m + k - 1]
  OBVIOUS

\* Entries of lists that are put together.
LEMMA Concat ==
    ASSUME NEW S, NEW s \in Seq(S), NEW t \in Seq(S)
    PROVE  /\ s \o t \in Seq(S) /\ Len(s \o t) = Len(s) + Len(t)
           /\ \A k \in 1..Len(s) : (s \o t)[k] = s[k]
           /\ \A k \in (Len(s) + 1)..(Len(s) + Len(t)) : (s \o t)[k] = t[k - Len(s)]
  OBVIOUS

\* t is s with c in the place of the entries behind i and before j.
Spliced(t, n, S, s, i, c, j) ==
    /\ t \in Seq(S) /\ Len(t) = n
    /\ \A k \in 1..i : t[k] = s[k]
    /\ t[i + 1] = c
    /\ \A k \in (i + 2)..n : t[k] = s[k + (j - i - 2)]

\* A list that is cut twice and put together around c.
LEMMA Splice ==
    ASSUME NEW S, NEW s \in Seq(S), NEW c \in S, NEW i \in 0..Len(s),
           NEW j \in (i + 1)..(Len(s) + 1), NEW n \in Nat, n = i + 1 + (Len(s) + 1 - j),
           NEW t, t = SubSeq(s, 1, i) \o <<c>> \o SubSeq(s, j, Len(s))
    PROVE  Spliced(t, n, S, s, i, c, j)
<1> DEFINE u == SubSeq(s, 1, i)
           v == SubSeq(s, j, Len(s))
           w == u \o <<c>>
<1>0. t = w \o v
    OBVIOUS
<1>1. /\ u \in Seq(S) /\ Len(u) = i /\ \A k \in 1..i : u[k] = s[k]
    <2>1. /\ SubSeq(s, 1, i) \in Seq(S) /\ Len(SubSeq(s, 1, i)) = i + 1 - 1
          /\ \A k \in 1..(i + 1 - 1) : SubSeq(s, 1, i)[k] = s[1 + k - 1]
      BY Sub
    <2> QED BY <2>1
<1>2. /\ v \in Seq(S) /\ Len(v) = Len(s) + 1 - j
      /\ \A k \in 1..(Len(s) + 1 - j) : v[k] = s[j + k - 1]
    BY Sub
<1> HIDE DEF u, v
<1>3. w \in Seq(S) /\ Len(w) = i + 1 /\ w[i + 1] = c /\ \A k \in 1..i : w[k] = s[k]
  <2>1. <<c>> \in Seq(S) /\ Len(<<c>>) = 1 /\ <<c>>[1] = c
    OBVIOUS
  <2> DEFINE d == <<c>>
  <2> HIDE DEF d
  <2>2. d \in Seq(S) /\ Len(d) = 1 /\ d[1] = c
    BY <2>1 DEF d
  <2>3. /\ u \o d \in Seq(S) /\ Len(u \o d) = Len(u) + Len(d)
        /\ \A k \in 1..Len(u) : (u \o d)[k] = u[k]
        /\ \A k \in (Len(u) + 1)..(Len(u) + Len(d)) : (u \o d)[k] = d[k - Len(u)]
    BY <1>1, <2>2, Concat
  <2>4. w = u \o d
    BY DEF d
  <2> HIDE DEF w
  <2>5. w[i + 1] = d[1]
    BY <1>1, <2>2, <2>3, <2>4
  <2> QED BY <1>1, <2>2, <2>3, <2>4, <2>5
<1> HIDE DEF w
<1>4. /\ t \in Seq(S) /\ Len(t) = i + 1 + Len(v)
      /\ \A k \in 1..(i + 1) : t[k] = w[k]
      /\ \A k \in (i + 2)..(i + 1 + Len(v)) : t[k] = v[k - (i + 1)]
  <2>1. /\ w \o v \in Seq(S) /\ Len(w \o v) = Len(w) + Len(v)
        /\ \A k \in 1..Len(w) : (w \o v)[k] = w[k]
        /\ \A k \in (Len(w) + 1)..(Len(w) + Len(v)) : (w \o v)[k] = v[k - Len(w)]
    BY <1>2, <1>3, Concat
  <2>2. Len(w) = i + 1 /\ Len(w) + 1 = i + 2
    BY <1>3
  <2> QED BY <1>0, <2>1, <2>2
<1>5. ASSUME NEW k \in (i + 2)..n PROVE t[k] = s[k + (j - i - 2)]
  <2>1. k - (i + 1) \in 1..(Len(s) + 1 - j) /\ k \in Int
    BY <1>2, <1>4
  <2>2. v[k - (i + 1)] = s[j + (k - (i + 1)) - 1]
    BY <1>2, <2>1
  <2>3. j + (k - (i + 1)) - 1 = k + (j - i - 2)
    BY <2>1
  <2> QED
    BY <1>2, <1>4, <2>2, <2>3
<1>6. /\ t \in Seq(S) /\ Len(t) = n
      /\ \A k \in 1..i : t[k] = s[k]
      /\ t[i + 1] = c
  <2>1. Len(t) = n
    BY <1>2, <1>4
  <2>2. i + 1 \in 1..(i + 1) /\ \A k \in 1..i : k \in 1..(i + 1)
    OBVIOUS
  <2> QED BY <1>3, <1>4, <2>1, <2>2, Zenon
<1> QED
    BY <1>5, <1>6 DEF Spliced

\* The blocks of a list are in order and do not overlap.
Apart(l) == \A i, j \in DOMAIN l : i < j => EndOf(l[i]) <= l[j].block

\* merge_bb() loses nothing.
LEMMA MergeList ==
    ASSUME NEW l \in Seq(Block), Apart(l), NEW i \in 1..Len(l)
    PROVE  /\ merge_bb(l, i) \in Seq(Block) /\ Apart(merge_bb(l, i))
           /\ Contents(merge_bb(l, i)) = Contents(l)
           /\ i <= Len(merge_bb(l, i))
<1>1. CASE ~ (i < Len(l) /\ Mergeable(l[i], l[i + 1]))
  <2>1. merge_bb(l, i) = l
    BY <1>1 DEF merge_bb
  <2> QED BY <2>1
<1>2. CASE i < Len(l) /\ Mergeable(l[i], l[i + 1])
  <2> DEFINE a == l[i]
             b == l[i + 1]
             c == [a EXCEPT !.len = @ + b.len]
             t == SubSeq(l, 1, i - 1) \o <<c>> \o SubSeq(l, i + 2, Len(l))
  <2>1. a \in Block /\ b \in Block /\ EndOf(a) <= b.block
    BY <1>2 DEF Apart
  <2>2. c \in Block /\ c.block = a.block /\ EndOf(c) = EndOf(b) /\ Cells(c) = Cells(a) \cup Cells(b)
    BY <1>2, <2>1, MergeCells
  <2>3. merge_bb(l, i) = t
    BY <1>2 DEF merge_bb
  <2>4. \A k \in 1..Len(l) : EndOf(l[k]) \in Nat /\ l[k].block \in Nat /\ l[k].block < EndOf(l[k])
    BY CellsOf
  <2> HIDE DEF a, b, c
  <2> HIDE DEF t
  <2>7. /\ t \in Seq(Block) /\ Len(t) = Len(l) - 1 /\ i <= Len(t) /\ t[i] = c
        /\ \A k \in 1..(i - 1) : t[k] = l[k]
        /\ \A k \in (i + 1)..(Len(l) - 1) : t[k] = l[k + 1]
    <3> DEFINE h == i - 1
               j == i + 2
               n == Len(l) - 1
    <3>1. /\ h \in 0..Len(l) /\ j \in (h + 1)..(Len(l) + 1) /\ n \in Nat
          /\ n = h + 1 + (Len(l) + 1 - j) /\ h + 1 = i /\ h + 2 = i + 1 /\ j - h - 2 = 1
      BY <1>2
    <3>2. t = SubSeq(l, 1, h) \o <<c>> \o SubSeq(l, j, Len(l))
      BY DEF t
    <3> HIDE DEF h, j, n
    <3>3. Spliced(t, n, Block, l, h, c, j)
      <4>1. c \in Block
        BY <2>2
      <4>2. h \in 0..Len(l)
        BY <3>1
      <4>3. j \in (h + 1)..(Len(l) + 1)
        BY <3>1
      <4>4. n \in Nat /\ n = h + 1 + (Len(l) + 1 - j)
        BY <3>1
      <4> QED BY <3>2, <4>1, <4>2, <4>3, <4>4, Splice
    <3>4. ASSUME NEW k \in (i + 1)..(Len(l) - 1) PROVE t[k] = l[k + 1]
      <4>1. k \in (h + 2)..n /\ k + (j - h - 2) = k + 1
        BY <3>1 DEF n
      <4> QED BY <3>3, <4>1 DEF Spliced
    <3>5. h = i - 1 /\ n = Len(l) - 1 /\ i <= n
      BY <1>2 DEF h, n
    <3>6. t[i] = c /\ \A k \in 1..(i - 1) : t[k] = l[k]
      BY <3>1, <3>3, <3>5 DEF Spliced
    <3> QED BY <3>3, <3>4, <3>5, <3>6 DEF Spliced
  <2>8. Apart(t)
    <3> SUFFICES ASSUME NEW j \in 1..Len(t), NEW k \in 1..Len(t), j < k
                 PROVE  EndOf(t[j]) <= t[k].block
      BY <2>7 DEF Apart
    <3>0. \A m, n \in 1..Len(l) : m < n => EndOf(l[m]) <= l[n].block
      BY DEF Apart
    <3>1. CASE k < i
      <4>1. t[j] = l[j] /\ t[k] = l[k] /\ j \in 1..Len(l) /\ k \in 1..Len(l)
        BY <2>7, <3>1
      <4> QED BY <3>0, <4>1
    <3>2. CASE k = i
      <4>1. t[j] = l[j] /\ t[k] = c /\ j \in 1..Len(l) /\ j < i
        BY <2>7, <3>2
      <4>2. EndOf(l[j]) <= l[i].block
        BY <3>0, <4>1
      <4> QED BY <2>2, <4>1, <4>2 DEF a
    <3>3. CASE j = i
      <4>1. t[j] = c /\ t[k] = l[k + 1] /\ i + 1 \in 1..Len(l) /\ k + 1 \in 1..Len(l) /\ i + 1 < k + 1
        BY <2>7, <3>3
      <4>2. EndOf(l[i + 1]) <= l[k + 1].block
        BY <3>0, <4>1
      <4> QED BY <2>2, <4>1, <4>2 DEF b
    <3>4. CASE j < i /\ k > i
      <4>1. t[j] = l[j] /\ t[k] = l[k + 1] /\ j \in 1..Len(l) /\ k + 1 \in 1..Len(l) /\ j < k + 1
        BY <2>7, <3>4
      <4> QED BY <3>0, <4>1
    <3>5. CASE j > i
      <4>1. t[j] = l[j + 1] /\ t[k] = l[k + 1] /\ j + 1 \in 1..Len(l) /\ k + 1 \in 1..Len(l)
            /\ j + 1 < k + 1
        BY <2>7, <3>5
      <4> QED BY <3>0, <4>1
    <3> QED BY <3>1, <3>2, <3>3, <3>4, <3>5
  <2>9. Contents(t) = Contents(l)
    <3>1. ASSUME NEW x \in Contents(t) PROVE x \in Contents(l)
      <4>1. PICK k \in 1..Len(t) : x \in Cells(t[k])
        BY <2>7 DEF Contents
      <4>2. CASE k < i
        BY <2>7, <4>1, <4>2 DEF Contents
      <4>3. CASE k > i
        <5>1. k + 1 \in 1..Len(l) /\ t[k] = l[k + 1]
          BY <2>7, <4>3
        <5> QED BY <4>1, <5>1 DEF Contents
      <4>4. CASE k = i
        BY <1>2, <2>2, <2>7, <4>1, <4>4 DEF Contents, a, b
      <4> QED BY <4>2, <4>3, <4>4
    <3>2. ASSUME NEW x \in Contents(l) PROVE x \in Contents(t)
      <4>1. PICK k \in 1..Len(l) : x \in Cells(l[k])
        BY DEF Contents
      <4>2. CASE k < i
        <5>1. k \in 1..Len(t) /\ t[k] = l[k]
          BY <2>7, <4>2
        <5> QED BY <2>7, <4>1, <5>1 DEF Contents
      <4>3. CASE k > i + 1
        <5>1. k - 1 \in 1..Len(t) /\ t[k - 1] = l[k]
          BY <2>7, <4>3
        <5> QED BY <2>7, <4>1, <5>1 DEF Contents
      <4>4. CASE k = i \/ k = i + 1
        <5>1. i \in 1..Len(t) /\ x \in Cells(t[i])
          BY <2>2, <2>7, <4>1, <4>4 DEF a, b
        <5> QED BY <2>7, <5>1 DEF Contents
      <4> QED BY <4>2, <4>3, <4>4
    <3> QED BY <3>1, <3>2
  <2> QED
    BY <2>3, <2>7, <2>8, <2>9
<1> QED
    BY <1>1, <1>2

\* A block in its place in the list.
LEMMA InsertList ==
    ASSUME NEW l \in Seq(Block), Apart(l), NEW bb \in Block, NEW at \in 0..Len(l), NEW t,
           Spliced(t, Len(l) + 1, Block, l, at, bb, at + 1),
           \A i \in 1..at : EndOf(l[i]) <= bb.block,
           \A i \in (at + 1)..Len(l) : EndOf(bb) <= l[i].block
    PROVE  /\ t \in Seq(Block) /\ Len(t) = Len(l) + 1 /\ Apart(t)
           /\ Contents(t) = Contents(l) \cup Cells(bb)
<1>1. /\ t \in Seq(Block) /\ Len(t) = Len(l) + 1
      /\ \A k \in 1..at : t[k] = l[k]
      /\ t[at + 1] = bb
    BY DEF Spliced
<1>2. ASSUME NEW k \in (at + 2)..(Len(l) + 1) PROVE t[k] = l[k - 1]
  <2>1. t[k] = l[k + ((at + 1) - at - 2)]
    BY DEF Spliced
  <2>2. k + ((at + 1) - at - 2) = k - 1
    OBVIOUS
  <2> QED BY <2>1, <2>2
<1>3. \A m, n \in 1..Len(l) : m < n => EndOf(l[m]) <= l[n].block
    BY DEF Apart
<1>4. Apart(t)
  <2> SUFFICES ASSUME NEW j \in 1..Len(t), NEW k \in 1..Len(t), j < k
               PROVE  EndOf(t[j]) <= t[k].block
    BY <1>1 DEF Apart
  <2>1. CASE k <= at
    BY <1>1, <1>3, <2>1
  <2>2. CASE k = at + 1
    BY <1>1, <2>2
  <2>3. CASE k > at + 1 /\ j <= at
    <3>1. t[k] = l[k - 1] /\ t[j] = l[j] /\ k - 1 \in 1..Len(l) /\ j \in 1..Len(l) /\ j < k - 1
      BY <1>1, <1>2, <2>3
    <3> QED BY <1>3, <3>1
  <2>4. CASE j = at + 1
    <3>1. t[k] = l[k - 1] /\ t[j] = bb /\ k - 1 \in (at + 1)..Len(l)
      BY <1>1, <1>2, <2>4
    <3> QED BY <3>1
  <2>5. CASE j > at + 1
    <3>1. t[k] = l[k - 1] /\ t[j] = l[j - 1] /\ k - 1 \in 1..Len(l) /\ j - 1 \in 1..Len(l)
          /\ j - 1 < k - 1
      BY <1>1, <1>2, <2>5
    <3> QED BY <1>3, <3>1
  <2> QED BY <2>1, <2>2, <2>3, <2>4, <2>5
<1>5. ASSUME NEW x \in Contents(t) PROVE x \in Contents(l) \cup Cells(bb)
  <2>1. PICK k \in 1..Len(t) : x \in Cells(t[k])
    BY <1>1 DEF Contents
  <2>2. CASE k <= at
    BY <1>1, <2>1, <2>2 DEF Contents
  <2>3. CASE k > at + 1
    <3>1. k - 1 \in 1..Len(l) /\ t[k] = l[k - 1]
      BY <1>1, <1>2, <2>3
    <3> QED BY <2>1, <3>1 DEF Contents
  <2>4. CASE k = at + 1
    BY <1>1, <2>1, <2>4
  <2> QED BY <2>2, <2>3, <2>4
<1>6. ASSUME NEW x \in Contents(l) \cup Cells(bb) PROVE x \in Contents(t)
  <2>1. CASE x \in Cells(bb)
    <3>1. at + 1 \in 1..Len(t) /\ x \in Cells(t[at + 1])
      BY <1>1, <2>1
    <3> QED BY <1>1, <3>1 DEF Contents
  <2>2. CASE x \in Contents(l)
    <3>1. PICK k \in 1..Len(l) : x \in Cells(l[k])
      BY <2>2 DEF Contents
    <3>2. CASE k <= at
      <4>1. k \in 1..Len(t) /\ t[k] = l[k]
        BY <1>1, <3>2
      <4> QED BY <1>1, <3>1, <4>1 DEF Contents
    <3>3. CASE k > at
      <4>1. k + 1 \in 1..Len(t) /\ k + 1 \in (at + 2)..(Len(l) + 1) /\ (k + 1) - 1 = k
        BY <1>1, <3>3
      <4>2. t[k + 1] = l[k]
        BY <1>2, <4>1
      <4> QED BY <1>1, <3>1, <4>1, <4>2 DEF Contents
    <3> QED BY <3>2, <3>3
  <2> QED BY <2>1, <2>2
<1> QED
    BY <1>1, <1>4, <1>5, <1>6

\* bb overlaps no block of l.
Clear(l, bb) == \A i \in 1..Len(l) : EndOf(l[i]) <= bb.block \/ EndOf(bb) <= l[i].block

\* A list and the block that was added last.
Queue == [list: Seq(Block), last_used: Nat]

\* l is k with bb.
Adds(l, k, bb) ==
    l \in Seq(Block) /\ Apart(l) /\ Contents(l) = Contents(k) \cup Cells(bb)

\* queue_bb() finds the place of the new block, from whatever block it starts,
\* and loses nothing.
LEMMA QueueList ==
    ASSUME NEW q \in Queue, Apart(q.list), NEW bb \in Block, Clear(q.list, bb)
    PROVE  queue_bb(q, bb) \in Queue /\ Adds(queue_bb(q, bb).list, q.list, bb)
<1> DEFINE l == q.list
           last == {i \in DOMAIN l : l[i].id = q.last_used /\ bb.block > l[i].block}
           start == IF last = {} THEN 1 ELSE CHOOSE i \in last : TRUE
           Place(i) == /\ i = Len(l) \/ l[i + 1].block >= bb.block
                       /\ \A k \in (start + 1)..i : l[k].block < bb.block
           at == CHOOSE i \in start..Len(l) : Place(i)
           inserted == SubSeq(l, 1, at) \o <<bb>> \o SubSeq(l, at + 1, Len(l))
<1>1. l \in Seq(Block) /\ q.last_used \in Nat /\ bb.id \in Nat
    BY DEF Queue, Block
<1>2. \A k \in 1..Len(l) : EndOf(l[k]) \in Nat /\ l[k].block \in Nat /\ l[k].block < EndOf(l[k])
    BY <1>1, CellsOf
<1>3. bb.block \in Nat /\ EndOf(bb) \in Nat /\ bb.block < EndOf(bb)
    BY CellsOf
<1>4. \A m, n \in 1..Len(l) : m < n => EndOf(l[m]) <= l[n].block
    BY <1>1 DEF Apart
<1>5. \A i \in 1..Len(l) : EndOf(l[i]) <= bb.block \/ EndOf(bb) <= l[i].block
    BY DEF Clear
<1>6. CASE l = <<>> \/ l[1].block > bb.block
  <2> DEFINE t == <<bb>> \o l
  <2>1. queue_bb(q, bb) = [q EXCEPT !.list = t]
    BY <1>6 DEF queue_bb
  <2>2. Spliced(t, Len(l) + 1, Block, l, 0, bb, 0 + 1)
    <3> DEFINE d == <<bb>>
    <3>1. d \in Seq(Block) /\ Len(d) = 1 /\ d[1] = bb
      OBVIOUS
    <3> HIDE DEF d, l
    <3>2. /\ d \o l \in Seq(Block) /\ Len(d \o l) = Len(d) + Len(l)
          /\ \A k \in 1..Len(d) : (d \o l)[k] = d[k]
          /\ \A k \in (Len(d) + 1)..(Len(d) + Len(l)) : (d \o l)[k] = l[k - Len(d)]
      BY <1>1, <3>1, Concat
    <3>3. t = d \o l
      BY DEF d, t
    <3> HIDE DEF t
    <3>4. t \in Seq(Block) /\ Len(t) = Len(l) + 1 /\ t[1] = bb
      BY <1>1, <3>1, <3>2, <3>3
    <3>5. ASSUME NEW k \in (0 + 2)..(Len(l) + 1) PROVE t[k] = l[k + ((0 + 1) - 0 - 2)]
      <4>1. k \in (Len(d) + 1)..(Len(d) + Len(l)) /\ k - Len(d) = k + ((0 + 1) - 0 - 2)
        BY <1>1, <3>1
      <4> QED BY <3>2, <3>3, <4>1
    <3> QED BY <3>4, <3>5 DEF Spliced
  <2>3. 0 \in 0..Len(l) /\ \A i \in 1..0 : EndOf(l[i]) <= bb.block
    BY <1>1
  <2>4. ASSUME NEW i \in (0 + 1)..Len(l) PROVE EndOf(bb) <= l[i].block
    <3>1. i \in 1..Len(l) /\ 1 \in 1..Len(l) /\ l # <<>>
      BY <1>1
    <3>2. l[1].block > bb.block
      BY <1>6, <3>1
    <3>3. EndOf(bb) <= l[1].block
      BY <1>2, <1>3, <1>5, <3>1, <3>2
    <3>4. i = 1 \/ EndOf(l[1]) <= l[i].block
      BY <1>4, <3>1
    <3> QED BY <1>2, <1>3, <3>1, <3>3, <3>4
  <2> HIDE DEF t, l
  <2>5. /\ t \in Seq(Block) /\ Len(t) = Len(l) + 1 /\ Apart(t)
        /\ Contents(t) = Contents(l) \cup Cells(bb)
    BY <1>1, <2>2, <2>3, <2>4, InsertList DEF l
  <2>6. queue_bb(q, bb) \in Queue /\ queue_bb(q, bb).list = t
    BY <1>1, <2>1, <2>5 DEF Queue
  <2> QED BY <2>5, <2>6 DEF Adds, l
<1>7. CASE ~ (l = <<>> \/ l[1].block > bb.block)
  <2>1. Len(l) \in Nat /\ Len(l) >= 1 /\ 1 \in 1..Len(l) /\ DOMAIN l = 1..Len(l)
    BY <1>1, <1>7
  <2>2. start \in 1..Len(l) /\ l[start].block <= bb.block
    <3>1. CASE last = {}
      BY <1>2, <1>3, <1>7, <2>1, <3>1
    <3>2. CASE last # {}
      <4>1. start \in last
        BY <3>2
      <4>2. \A i \in last : i \in 1..Len(l) /\ bb.block > l[i].block
        BY <2>1
      <4>3. start \in 1..Len(l) /\ bb.block > l[start].block
        BY <4>1, <4>2
      <4> HIDE DEF start, last, l
      <4> QED BY <1>2, <1>3, <4>3
    <3> QED BY <3>1, <3>2
  <2> HIDE DEF last, start
  <2>3. \E i \in start..Len(l) : Place(i)
    <3> DEFINE T == {i \in start..Len(l) : i = Len(l) \/ l[i + 1].block >= bb.block}
    <3>1. T \subseteq Nat /\ Len(l) \in T
      BY <2>1, <2>2
    <3>2. PICK x \in T : \A y \in T : x <= y
      BY <3>1, Least
    <3>3. ASSUME NEW k \in (start + 1)..x PROVE l[k].block < bb.block
      <4>1. k - 1 \in start..Len(l) /\ k - 1 < x /\ k - 1 # Len(l) /\ k \in 1..Len(l)
            /\ (k - 1) + 1 = k
        BY <2>1, <2>2
      <4>2. ~ (l[k].block >= bb.block)
        BY <2>1, <3>2, <4>1
      <4> QED BY <1>2, <1>3, <4>1, <4>2, SMTT(60)
    <3> QED BY <3>2, <3>3
  <2>4. at \in start..Len(l) /\ Place(at)
    BY <2>3
  <2>5. queue_bb(q, bb) = [list |-> merge_bb(merge_bb(inserted, at + 1), at), last_used |-> bb.id]
    BY <1>7 DEF queue_bb, last, start
  <2> HIDE DEF at, l
  <2>6. at \in 1..Len(l) /\ l[at].block <= bb.block
    <3>a. at \in start..Len(l)
      BY <2>4, Zenon
    <3>b. start \in 1..Len(l)
      BY <2>2, Zenon
    <3>c. Len(l) \in Int
      BY <2>1
    <3>1. at \in Int /\ start \in Int /\ start <= at /\ at \in 1..Len(l)
      BY <3>a, <3>b, <3>c
    <3>2. at = start \/ at \in (start + 1)..at
      BY <3>1
    <3>3. CASE at \in (start + 1)..at
      <4>1. l[at].block < bb.block
        BY <2>4, <3>3
      <4> QED BY <1>2, <1>3, <3>1, <4>1
    <3> QED BY <2>2, <3>1, <3>2, <3>3
  <2>7. EndOf(l[at]) <= bb.block
    BY <1>2, <1>3, <1>5, <2>6
  <2>8. ASSUME NEW i \in 1..at PROVE EndOf(l[i]) <= bb.block
    <3>1. i \in 1..Len(l) /\ (i = at \/ EndOf(l[i]) <= l[at].block)
      BY <1>4, <2>1, <2>6
    <3> QED BY <1>2, <1>3, <2>6, <2>7, <3>1
  <2>9. ASSUME NEW i \in (at + 1)..Len(l) PROVE EndOf(bb) <= l[i].block
    <3>0. at \in Nat /\ 1 <= at /\ at <= Len(l) /\ Len(l) \in Int
      BY <2>1, <2>6
    <3>1. at + 1 \in 1..Len(l) /\ at # Len(l) /\ i \in 1..Len(l)
      BY <3>0
    <3>2. l[at + 1].block >= bb.block
      BY <2>4, <3>1
    <3>3. EndOf(bb) <= l[at + 1].block
      BY <1>2, <1>3, <1>5, <3>1, <3>2
    <3>4. i = at + 1 \/ EndOf(l[at + 1]) <= l[i].block
      BY <1>4, <3>1
    <3> QED BY <1>2, <1>3, <3>1, <3>3, <3>4
  <2>10. Spliced(inserted, Len(l) + 1, Block, l, at, bb, at + 1)
    <3>1. at \in 0..Len(l)
      BY <2>6
    <3>2. at + 1 \in (at + 1)..(Len(l) + 1)
      BY <2>1, <2>6
    <3>3. Len(l) + 1 \in Nat /\ Len(l) + 1 = at + 1 + (Len(l) + 1 - (at + 1))
      BY <2>1, <2>6
    <3> DEFINE n == Len(l) + 1
               j == at + 1
    <3>4. n \in Nat /\ n = at + 1 + (Len(l) + 1 - j) /\ j \in (at + 1)..(Len(l) + 1)
      BY <3>2, <3>3
    <3>5. inserted = SubSeq(l, 1, at) \o <<bb>> \o SubSeq(l, j, Len(l))
      OBVIOUS
    <3> HIDE DEF n, j, inserted
    <3>6. Spliced(inserted, n, Block, l, at, bb, j)
      BY <1>1, <3>1, <3>4, <3>5, Splice
    <3> QED BY <3>6 DEF n, j
  <2> HIDE DEF inserted
  <2>11. Apart(l) /\ at \in 0..Len(l)
    BY <2>6 DEF l
  <2>12. /\ inserted \in Seq(Block) /\ Len(inserted) = Len(l) + 1 /\ Apart(inserted)
         /\ Contents(inserted) = Contents(l) \cup Cells(bb)
    BY <1>1, <2>8, <2>9, <2>10, <2>11, InsertList
  <2> DEFINE once == merge_bb(inserted, at + 1)
             twice == merge_bb(once, at)
  <2>13. at + 1 \in 1..Len(inserted)
    BY <2>1, <2>6, <2>12
  <2>14. /\ once \in Seq(Block) /\ Apart(once) /\ Contents(once) = Contents(inserted)
         /\ at + 1 <= Len(once)
    BY <2>12, <2>13, MergeList
  <2>15. at \in 1..Len(once)
    BY <2>6, <2>14
  <2> HIDE DEF once
  <2>16. twice \in Seq(Block) /\ Apart(twice) /\ Contents(twice) = Contents(once)
    BY <2>14, <2>15, MergeList
  <2> HIDE DEF twice
  <2>17. queue_bb(q, bb) = [list |-> twice, last_used |-> bb.id]
    BY <2>5 DEF twice, once
  <2>18. queue_bb(q, bb) \in Queue /\ queue_bb(q, bb).list = twice
    BY <1>1, <2>16, <2>17 DEF Queue
  <2> QED BY <2>12, <2>14, <2>16, <2>18 DEF Adds, l
<1> QED
    BY <1>6, <1>7

-----------------------------------------------------------------------------
(* Sums. *)

\* f adds up w, from a.
Sums(f, n, a, w) ==
    f \in [0..n -> Nat] /\ f[0] = a /\ \A i \in 1..n : f[i] = f[i - 1] + w[i]

\* There are sums.
LEMMA SumsExist ==
    ASSUME NEW n \in Nat, NEW a \in Nat, NEW w \in [1..n -> Nat]
    PROVE  \E f : Sums(f, n, a, w)
<1> DEFINE step == [i \in 1..n |-> [v \in Nat |-> v + w[i]]]
<1>1. step \in [1..n -> [Nat -> Nat]]
  <2> SUFFICES ASSUME NEW i \in 1..n PROVE [v \in Nat |-> v + w[i]] \in [Nat -> Nat]
    OBVIOUS
  <2>1. w[i] \in Nat
    OBVIOUS
  <2> QED BY <2>1
<1>2. \A i \in 1..n : \A v \in Nat : step[i][v] = v + w[i]
    OBVIOUS
<1> HIDE DEF step
<1>3. PICK f : Recurs(f, n, Nat, a, step)
    BY <1>1, Recursion
<1>4. f \in [0..n -> Nat] /\ f[0] = a /\ \A i \in 1..n : f[i] = step[i][f[i - 1]]
    BY <1>3 DEF Recurs
<1>5. ASSUME NEW i \in 1..n PROVE f[i] = f[i - 1] + w[i]
  <2>1. i - 1 \in 0..n
    OBVIOUS
  <2>2. f[i - 1] \in Nat
    BY <1>4, <2>1
  <2> QED BY <1>2, <1>4, <2>2
<1>6. Sums(f, n, a, w)
    BY <1>4, <1>5 DEF Sums
<1> QED BY <1>6

\* Sums do not fall.
LEMMA SumsGrow ==
    ASSUME NEW n \in Nat, NEW a, NEW w \in [1..n -> Nat], NEW f, Sums(f, n, a, w)
    PROVE  \A i, j \in 0..n : i <= j => f[i] <= f[j]
<1> SUFFICES ASSUME NEW i \in 0..n PROVE \A j \in 0..n : i <= j => f[i] <= f[j]
    OBVIOUS
<1> DEFINE T == {j \in 0..n : i <= j => f[i] <= f[j]}
<1>0. f \in [0..n -> Nat] /\ \A k \in 1..n : f[k] = f[k - 1] + w[k]
    BY DEF Sums
<1>1. 0 \in T
    BY <1>0
<1>2. ASSUME NEW k \in 1..n, k - 1 \in T PROVE k \in T
  <2>1. k \in 0..n /\ k - 1 \in 0..n /\ w[k] \in Nat
    OBVIOUS
  <2>2. f[k] = f[k - 1] + w[k] /\ f[k] \in Nat /\ f[k - 1] \in Nat /\ f[i] \in Nat
    BY <1>0, <2>1
  <2>3. i <= k => i = k \/ i <= k - 1
    OBVIOUS
  <2> QED BY <1>2, <2>1, <2>2, <2>3
<1> HIDE DEF T
<1>3. 0..n \subseteq T
    BY <1>1, <1>2, BoundedInduction
<1> QED
    BY <1>3 DEF T

\* f and g have the same values on S.
Agree(f, g, S) == \A i \in S : f[i] = g[i]

\* Sums of the same numbers are the same.
LEMMA SumsSame ==
    ASSUME NEW n \in Nat, NEW m \in Nat, NEW k \in 0..n, k <= m, NEW a,
           NEW v, NEW w, NEW f, NEW g, Sums(f, n, a, v), Sums(g, m, a, w),
           Agree(v, w, 1..k)
    PROVE  Agree(f, g, 0..k)
<1> DEFINE T == {i \in 0..k : f[i] = g[i]}
<1>0. k \in Nat
    OBVIOUS
<1>1. 0 \in T
    BY DEF Sums
<1>2. ASSUME NEW i \in 1..k, i - 1 \in T PROVE i \in T
  <2>1. i \in 1..n /\ i \in 1..m
    OBVIOUS
  <2> QED BY <1>2, <2>1 DEF Sums, Agree
<1> HIDE DEF T
<1>3. 0..k \subseteq T
    BY <1>0, <1>1, <1>2, BoundedInduction
<1> QED
    BY <1>3 DEF T, Agree

-----------------------------------------------------------------------------
(* The size of a list in a file. *)

\* The bytes of the chunk of each block.
Sizes(l) == [i \in 1..Len(l) |-> ChunkBytes(l[i])]

\* A chunk has a header, and data of whole blocks or four bytes to fill with.
LEMMA ChunkSize ==
    ASSUME NEW bb \in Block
    PROVE  /\ ChunkBytes(bb) \in Nat
           /\ bb.type = "fill" => ChunkBytes(bb) = 16
           /\ bb.type = "fd" => ChunkBytes(bb) = 12 + ALIGN(bb.len)
<1>1. bb.type \in {"fd", "fill"} /\ bb.len \in Nat
    BY DEF Block
<1>2. ALIGN(bb.len) \in Nat
    BY <1>1, Aligned
<1>3. CASE bb.type = "fill"
    BY <1>3 DEF ChunkBytes, ChunkLen
<1>4. CASE bb.type = "fd"
  <2>1. ChunkBytes(bb) = 12 + ALIGN(bb.len)
    BY <1>4 DEF ChunkBytes, ChunkLen
  <2> QED BY <1>2, <1>4, <2>1
<1> QED
    BY <1>1, <1>3, <1>4

\* FileLen() adds up those bytes.
LEMMA FileLenSums ==
    ASSUME NEW l \in Seq(Block)
    PROVE  Sums(FileLen(l), Len(l), 0, Sizes(l)) /\ Sizes(l) \in [1..Len(l) -> Nat]
<1> DEFINE n == Len(l)
           Sum(f) == f = [i \in 0..n |-> IF i = 0 THEN 0 ELSE f[i - 1] + ChunkBytes(l[i])]
           sum == CHOOSE f : Sum(f)
<1>1. n \in Nat /\ Sizes(l) \in [1..n -> Nat] /\ \A i \in 1..n : Sizes(l)[i] = ChunkBytes(l[i])
    BY ChunkSize DEF Sizes
<1>2. PICK g : Sums(g, n, 0, Sizes(l))
    BY <1>1, SumsExist
<1>3. g = [i \in 0..n |-> IF i = 0 THEN 0 ELSE g[i - 1] + ChunkBytes(l[i])]
  <2>1. \A i \in 0..n : g[i] = IF i = 0 THEN 0 ELSE g[i - 1] + ChunkBytes(l[i])
    <3> SUFFICES ASSUME NEW i \in 0..n
                 PROVE  g[i] = IF i = 0 THEN 0 ELSE g[i - 1] + ChunkBytes(l[i])
      OBVIOUS
    <3>1. CASE i = 0
      BY <1>2, <3>1 DEF Sums
    <3>2. CASE i # 0
      <4>1. i \in 1..n
        BY <1>1, <3>2
      <4> QED BY <1>1, <1>2, <3>2, <4>1 DEF Sums
    <3> QED BY <3>1, <3>2
  <2>2. g \in [0..n -> Nat]
    BY <1>2 DEF Sums
  <2> QED BY <2>1, <2>2
<1>4. Sum(sum)
    BY <1>3
<1>5. FileLen(l) = sum
    BY DEF FileLen
<1> HIDE DEF sum
<1>6. DOMAIN sum = 0..n /\ \A i \in 0..n : sum[i] = IF i = 0 THEN 0 ELSE sum[i - 1] + ChunkBytes(l[i])
    BY <1>4
<1> HIDE DEF Sum
<1>7. sum[0] = 0
    BY <1>1, <1>6
<1>8. \A i \in 1..n : sum[i] = sum[i - 1] + Sizes(l)[i]
  <2> SUFFICES ASSUME NEW i \in 1..n PROVE sum[i] = sum[i - 1] + Sizes(l)[i]
    OBVIOUS
  <2>1. i \in 0..n /\ i # 0
    BY <1>1
  <2> QED BY <1>1, <1>6, <2>1
<1>9. \A i \in 0..n : sum[i] \in Nat
  <2> DEFINE T == {i \in 0..n : sum[i] \in Nat}
  <2>1. 0 \in T
    BY <1>1, <1>7
  <2>2. ASSUME NEW i \in 1..n, i - 1 \in T PROVE i \in T
    BY <1>1, <1>8, <2>2
  <2> HIDE DEF T
  <2>3. 0..n \subseteq T
    BY <1>1, <2>1, <2>2, BoundedInduction
  <2> QED BY <2>3 DEF T
<1>10. sum \in [0..n -> Nat]
  <2>1. sum = [i \in 0..n |-> sum[i]]
    BY <1>4, <1>6 DEF Sum
  <2> QED BY <1>9, <2>1
<1> QED
    BY <1>1, <1>5, <1>7, <1>8, <1>10 DEF Sums

-----------------------------------------------------------------------------
(* move_chunks_up_to_len(). *)

\* What a sparse file may have, besides its overhead.
Space == Limit - 80

\* That is at least eight blocks.
LEMMA SpaceEnough ==
    /\ Space \in Nat /\ Space >= 32768 /\ Limit - overhead = Space
    /\ Space \div 8 \in Nat /\ Space \div 8 >= 4096 /\ 8 * (Space \div 8) <= Space
    BY LimitAssumption DEF Space, overhead, HeaderLen, ChunkLen, block_size

\* A pass over l cuts it behind its n-th block.
Stops(l, n) ==
    LET f == FileLen(l) IN
    /\ n \in 1..Len(l)
    /\ \/ /\ f[n - 1] <= Space /\ Space < f[n]
          /\ n = 1 \/ Space - f[n - 1] > Space \div 8
          /\ l[n].len <= ALIGN_DOWN(Space - f[n - 1])
       \/ /\ n < Len(l)
          /\ f[n] <= Space /\ Space < f[n + 1] /\ Space - f[n] <= Space \div 8

\* bb is what is left of the front of another block, of which all of a sparse
\* file was made.
FrontPart(bb) == bb.type = "fd" /\ bb.len = ALIGN_DOWN(Space)

\* The first block that does not fit.
LEMMA FirstOver ==
    ASSUME NEW l \in Seq(Block), NEW i \in 1..Len(l),
           FileLen(l)[i - 1] <= Space, Space < FileLen(l)[i]
    PROVE  LET over == {j \in DOMAIN l : FileLen(l)[j] > Limit - overhead} IN
           over # {} /\ i = (CHOOSE k \in over : \A j \in over : k <= j)
<1> DEFINE over == {j \in DOMAIN l : FileLen(l)[j] > Limit - overhead}
           f == FileLen(l)
<1>1. /\ Len(l) \in Nat /\ f \in [0..Len(l) -> Nat]
      /\ \A j, k \in 0..Len(l) : j <= k => f[j] <= f[k]
  <2>1. Len(l) \in Nat
    OBVIOUS
  <2>2. Sums(f, Len(l), 0, Sizes(l)) /\ Sizes(l) \in [1..Len(l) -> Nat]
    BY FileLenSums
  <2> HIDE DEF f
  <2>3. \A j, k \in 0..Len(l) : j <= k => f[j] <= f[k]
    BY <2>1, <2>2, SumsGrow
  <2> QED BY <2>1, <2>2, <2>3 DEF Sums
<1>2. Space \in Nat /\ Limit - overhead = Space
    BY SpaceEnough
<1> HIDE DEF f
<1>3. over = {j \in 1..Len(l) : f[j] > Space}
    BY <1>2 DEF f
<1> HIDE DEF over
<1>4. i \in over
    BY <1>1, <1>2, <1>3 DEF f
<1>5. ASSUME NEW j \in over PROVE i <= j
  <2>1. j \in 1..Len(l) /\ f[j] > Space
    BY <1>3
  <2>2. SUFFICES ASSUME j < i PROVE FALSE
    BY <2>1
  <2>3. j <= i - 1 /\ i - 1 \in 0..Len(l) /\ j \in 0..Len(l)
    BY <1>1, <2>1, <2>2
  <2>4. f[j] <= f[i - 1] /\ f[i - 1] <= Space
    BY <1>1, <2>3 DEF f
  <2>5. f[j] \in Nat /\ f[i - 1] \in Nat
    BY <1>1, <2>3
  <2> QED BY <1>2, <2>1, <2>4, <2>5
<1>6. \A k \in over : k \in Int
    BY <1>1, <1>3
<1>7. \A k \in over : (\A j \in over : k <= j) => k = i
    BY <1>4, <1>5, <1>6
<1>8. i = CHOOSE k \in over : \A j \in over : k <= j
    BY <1>4, <1>5, <1>7
<1> QED
    BY <1>4, <1>8 DEF over, f

\* What move_chunks_up_to_len() returns if the i-th block is the first that
\* does not fit.
LEMMA MoveOver ==
    ASSUME NEW l \in Seq(Block), NEW i \in 1..Len(l),
           FileLen(l)[i - 1] <= Space, Space < FileLen(l)[i]
    PROVE  LET left == Space - FileLen(l)[i - 1]
               parts == backed_block_split(l[i], left) IN
           move_chunks_up_to_len(l, Limit) =
              IF i = 1 \/ left > Space \div 8
              THEN [moved |-> SubSeq(l, 1, i - 1) \o <<parts[1]>>,
                    rest |-> SplitRest(parts, SubSeq(l, i + 1, Len(l))), more |-> TRUE]
              ELSE [moved |-> SubSeq(l, 1, i - 1),
                    rest |-> SubSeq(l, i, Len(l)), more |-> TRUE]
<1>1. Limit - overhead = Space
    BY SpaceEnough
<1> DEFINE over == {j \in DOMAIN l : FileLen(l)[j] > Limit - overhead}
<1>2. over # {} /\ i = (CHOOSE k \in over : \A j \in over : k <= j)
    BY FirstOver
<1> HIDE DEF over
<1> DEFINE h == CHOOSE k \in over : \A j \in over : k <= j
<1>3. move_chunks_up_to_len(l, Limit) =
        LET left == Space - FileLen(l)[h - 1]
            parts == backed_block_split(l[h], left)
        IN  IF over = {}
            THEN [moved |-> l, rest |-> <<>>, more |-> FALSE]
            ELSE IF h = 1 \/ left > Space \div 8
            THEN [moved |-> SubSeq(l, 1, h - 1) \o <<parts[1]>>,
                  rest |-> SplitRest(parts, SubSeq(l, h + 1, Len(l))), more |-> TRUE]
            ELSE [moved |-> SubSeq(l, 1, h - 1),
                  rest |-> SubSeq(l, h, Len(l)), more |-> TRUE]
    BY <1>1, Zenon DEF move_chunks_up_to_len, over
<1>4. h = i
    BY <1>2
<1> HIDE DEF h
<1> QED
    BY <1>2, <1>3, <1>4

\* If all blocks fit.
LEMMA MoveAll ==
    ASSUME NEW l \in Seq(Block), \A i \in 1..Len(l) : FileLen(l)[i] <= Space
    PROVE  move_chunks_up_to_len(l, Limit) = [moved |-> l, rest |-> <<>>, more |-> FALSE]
<1>1. Limit - overhead = Space /\ Space \in Nat
    BY SpaceEnough
<1> DEFINE over == {j \in DOMAIN l : FileLen(l)[j] > Limit - overhead}
<1>2. \A i \in 1..Len(l) : FileLen(l)[i] \in Nat
    BY FileLenSums DEF Sums
<1>3. over = {}
  <2> DEFINE f == FileLen(l)
  <2>1. \A i \in 1..Len(l) : f[i] \in Nat /\ f[i] <= Space
    BY <1>2
  <2> HIDE DEF f
  <2>2. over = {j \in 1..Len(l) : f[j] > Space}
    BY <1>1 DEF f
  <2> QED BY <1>1, <2>1, <2>2
<1> QED
    BY <1>3, Zenon DEF move_chunks_up_to_len

\* Either all fit or there is a first that does not.
LEMMA Overflow ==
    ASSUME NEW l \in Seq(Block)
    PROVE  \/ \A i \in 1..Len(l) : FileLen(l)[i] <= Space
           \/ \E i \in 1..Len(l) : FileLen(l)[i - 1] <= Space /\ Space < FileLen(l)[i]
<1> DEFINE f == FileLen(l)
           n == Len(l)
<1>1. n \in Nat /\ f \in [0..n -> Nat] /\ f[0] = 0 /\ Space \in Nat
    BY FileLenSums, SpaceEnough DEF Sums
<1> HIDE DEF f, n
<1> SUFFICES ASSUME ~ \E i \in 1..n : f[i - 1] <= Space /\ Space < f[i]
             PROVE  \A i \in 1..n : f[i] <= Space
    BY DEF f, n
<1> DEFINE T == {i \in 0..n : f[i] <= Space}
<1>2. 0 \in T
    BY <1>1
<1>3. ASSUME NEW i \in 1..n, i - 1 \in T PROVE i \in T
  <2>1. i \in 0..n /\ f[i] \in Nat /\ f[i - 1] <= Space
    BY <1>1, <1>3
  <2> QED BY <1>1, <2>1
<1> HIDE DEF T
<1>4. 0..n \subseteq T
    BY <1>1, <1>2, <1>3, BoundedInduction
<1>5. \A i \in 1..n : i \in 0..n
    BY <1>1
<1> QED
    BY <1>4, <1>5 DEF T

-----------------------------------------------------------------------------
(* Parts of a list. *)

\* A list and one more entry of another.
LEMMA SubNext ==
    ASSUME NEW S, NEW s \in Seq(S), NEW n \in 1..Len(s)
    PROVE  SubSeq(s, 1, n - 1) \o <<s[n]>> = SubSeq(s, 1, n)
<1> DEFINE u == SubSeq(s, 1, n - 1)
           d == <<s[n]>>
           v == SubSeq(s, 1, n)
<1>1. /\ u \in Seq(S) /\ Len(u) = n - 1 /\ \A k \in 1..(n - 1) : u[k] = s[k]
  <2>1. /\ SubSeq(s, 1, n - 1) \in Seq(S) /\ Len(SubSeq(s, 1, n - 1)) = (n - 1) + 1 - 1
        /\ \A k \in 1..((n - 1) + 1 - 1) : SubSeq(s, 1, n - 1)[k] = s[1 + k - 1]
    BY Sub
  <2> QED BY <2>1
<1>2. /\ v \in Seq(S) /\ Len(v) = n /\ \A k \in 1..n : v[k] = s[k]
  <2>1. /\ SubSeq(s, 1, n) \in Seq(S) /\ Len(SubSeq(s, 1, n)) = n + 1 - 1
        /\ \A k \in 1..(n + 1 - 1) : SubSeq(s, 1, n)[k] = s[1 + k - 1]
    BY Sub
  <2> QED BY <2>1
<1>3. d \in Seq(S) /\ Len(d) = 1 /\ d[1] = s[n]
    OBVIOUS
<1> HIDE DEF u, v, d
<1>4. /\ u \o d \in Seq(S) /\ Len(u \o d) = Len(u) + Len(d)
      /\ \A k \in 1..Len(u) : (u \o d)[k] = u[k]
      /\ \A k \in (Len(u) + 1)..(Len(u) + Len(d)) : (u \o d)[k] = d[k - Len(u)]
    BY <1>1, <1>3, Concat
<1> DEFINE t == u \o d
<1> HIDE DEF t
<1>5. t \in Seq(S) /\ Len(t) = n
    BY <1>1, <1>3, <1>4 DEF t
<1>6. ASSUME NEW k \in 1..n PROVE t[k] = v[k]
  <2>1. CASE k = n
    <3>1. k \in (Len(u) + 1)..(Len(u) + Len(d)) /\ k - Len(u) = 1
      BY <1>1, <1>3, <2>1
    <3>2. t[k] = d[1]
      BY <1>4, <3>1 DEF t
    <3> QED BY <1>2, <1>3, <2>1, <3>2
  <2>2. CASE k # n
    <3>1. k \in 1..Len(u) /\ k \in 1..(n - 1)
      BY <1>1, <2>2
    <3>2. t[k] = u[k]
      BY <1>4, <3>1 DEF t
    <3> QED BY <1>1, <1>2, <3>1, <3>2
  <2> QED BY <2>1, <2>2
<1>7. t = v
    BY <1>2, <1>5, <1>6, SeqEqual
<1> QED
    BY <1>7 DEF t, u, d, v

\* The two parts of a list.
LEMMA SubBoth ==
    ASSUME NEW S, NEW s \in Seq(S), NEW n \in 0..Len(s)
    PROVE  SubSeq(s, 1, n) \o SubSeq(s, n + 1, Len(s)) = s
<1> DEFINE u == SubSeq(s, 1, n)
           v == SubSeq(s, n + 1, Len(s))
<1>1. /\ u \in Seq(S) /\ Len(u) = n /\ \A k \in 1..n : u[k] = s[k]
  <2>1. /\ SubSeq(s, 1, n) \in Seq(S) /\ Len(SubSeq(s, 1, n)) = n + 1 - 1
        /\ \A k \in 1..(n + 1 - 1) : SubSeq(s, 1, n)[k] = s[1 + k - 1]
    BY Sub
  <2> QED BY <2>1
<1>2. /\ v \in Seq(S) /\ Len(v) = Len(s) - n /\ \A k \in 1..(Len(s) - n) : v[k] = s[n + k]
  <2>1. /\ SubSeq(s, n + 1, Len(s)) \in Seq(S)
        /\ Len(SubSeq(s, n + 1, Len(s))) = Len(s) + 1 - (n + 1)
        /\ \A k \in 1..(Len(s) + 1 - (n + 1)) :
              SubSeq(s, n + 1, Len(s))[k] = s[(n + 1) + k - 1]
    BY Sub
  <2>2. Len(s) + 1 - (n + 1) = Len(s) - n
    OBVIOUS
  <2>3. \A k \in 1..(Len(s) - n) : (n + 1) + k - 1 = n + k
    OBVIOUS
  <2> QED BY <2>1, <2>2, <2>3
<1> HIDE DEF u, v
<1>4. /\ u \o v \in Seq(S) /\ Len(u \o v) = Len(u) + Len(v)
      /\ \A k \in 1..Len(u) : (u \o v)[k] = u[k]
      /\ \A k \in (Len(u) + 1)..(Len(u) + Len(v)) : (u \o v)[k] = v[k - Len(u)]
    BY <1>1, <1>2, Concat, ZenonT(60)
<1> DEFINE t == u \o v
<1> HIDE DEF t
<1>5. t \in Seq(S) /\ Len(t) = Len(s)
    BY <1>1, <1>2, <1>4 DEF t
<1>6. ASSUME NEW k \in 1..Len(s) PROVE t[k] = s[k]
  <2>1. CASE k <= n
    <3>1. k \in 1..Len(u) /\ k \in 1..n
      BY <1>1, <2>1
    <3>2. t[k] = u[k]
      BY <1>4, <3>1 DEF t
    <3> QED BY <1>1, <3>1, <3>2
  <2>2. CASE k > n
    <3>1. k \in (Len(u) + 1)..(Len(u) + Len(v)) /\ k - Len(u) = k - n
          /\ k - n \in 1..(Len(s) - n) /\ n + (k - n) = k
      BY <1>1, <1>2, <2>2
    <3>2. t[k] = v[k - n]
      BY <1>4, <3>1 DEF t
    <3>3. v[k - n] = s[n + (k - n)]
      BY <1>2, <3>1
    <3> QED BY <3>1, <3>2, <3>3
  <2> QED BY <2>1, <2>2
<1>7. t = s
    BY <1>5, <1>6, SeqEqual
<1> QED
    BY <1>7 DEF t, u, v

\* A pass over a list cuts it where Stops() says.
LEMMA StopsMove ==
    ASSUME NEW l \in Seq(Block), NEW n, Stops(l, n)
    PROVE  move_chunks_up_to_len(l, Limit) =
              [moved |-> SubSeq(l, 1, n), rest |-> SubSeq(l, n + 1, Len(l)), more |-> TRUE]
<1> DEFINE f == FileLen(l)
<1>1. n \in 1..Len(l)
    BY DEF Stops
<1>2. Len(l) \in Nat /\ f \in [0..Len(l) -> Nat] /\ Space \in Nat /\ Space \div 8 \in Nat
    BY FileLenSums, SpaceEnough DEF Sums
<1>3. CASE /\ f[n - 1] <= Space /\ Space < f[n]
           /\ n = 1 \/ Space - f[n - 1] > Space \div 8
           /\ l[n].len <= ALIGN_DOWN(Space - f[n - 1])
  <2> DEFINE left == Space - f[n - 1]
             parts == backed_block_split(l[n], left)
  <2>1. parts = <<l[n]>>
    BY <1>3 DEF backed_block_split
  <2>2. SplitRest(parts, SubSeq(l, n + 1, Len(l))) = SubSeq(l, n + 1, Len(l))
    <3>1. Len(parts) = 1
      BY <2>1
    <3> HIDE DEF parts
    <3> QED BY <3>1 DEF SplitRest
  <2>3. move_chunks_up_to_len(l, Limit) =
              IF n = 1 \/ left > Space \div 8
              THEN [moved |-> SubSeq(l, 1, n - 1) \o <<parts[1]>>,
                    rest |-> SplitRest(parts, SubSeq(l, n + 1, Len(l))), more |-> TRUE]
              ELSE [moved |-> SubSeq(l, 1, n - 1),
                    rest |-> SubSeq(l, n, Len(l)), more |-> TRUE]
    BY <1>1, <1>3, MoveOver
  <2>4. n = 1 \/ left > Space \div 8
    BY <1>3
  <2>5. parts[1] = l[n]
    BY <2>1
  <2> HIDE DEF left, parts, f
  <2>6. SubSeq(l, 1, n - 1) \o <<parts[1]>> = SubSeq(l, 1, n)
    BY <1>1, <2>5, SubNext
  <2> QED
    BY <2>2, <2>3, <2>4, <2>6
<1>4. CASE /\ n < Len(l)
           /\ f[n] <= Space /\ Space < f[n + 1] /\ Space - f[n] <= Space \div 8
  <2> DEFINE i == n + 1
             left == Space - f[i - 1]
             parts == backed_block_split(l[i], left)
  <2>1. i \in 1..Len(l) /\ i - 1 = n /\ i # 1
    BY <1>1, <1>2, <1>4
  <2>2. f[i - 1] <= Space /\ Space < f[i]
    BY <1>4, <2>1
  <2> HIDE DEF i
  <2>3. move_chunks_up_to_len(l, Limit) =
              IF i = 1 \/ left > Space \div 8
              THEN [moved |-> SubSeq(l, 1, i - 1) \o <<parts[1]>>,
                    rest |-> SplitRest(parts, SubSeq(l, i + 1, Len(l))), more |-> TRUE]
              ELSE [moved |-> SubSeq(l, 1, i - 1),
                    rest |-> SubSeq(l, i, Len(l)), more |-> TRUE]
    BY <2>1, <2>2, MoveOver
  <2>4. ~ (left > Space \div 8)
    <3>1. left \in Int /\ left <= Space \div 8
      BY <1>1, <1>2, <1>4, <2>1
    <3> HIDE DEF left
    <3> QED BY <1>2, <3>1
  <2> HIDE DEF left, parts, f
  <2>5. move_chunks_up_to_len(l, Limit) =
            [moved |-> SubSeq(l, 1, i - 1), rest |-> SubSeq(l, i, Len(l)), more |-> TRUE]
    BY <2>1, <2>3, <2>4
  <2> QED
    BY <2>1, <2>5 DEF i
<1> QED
    BY <1>3, <1>4 DEF Stops

\* It cuts there too if what follows has changed.
LEMMA StopsAgain ==
    ASSUME NEW u \in Seq(Block), NEW v \in Seq(Block), NEW n, Stops(u, n), n <= Len(v),
           \A i \in 1..n : v[i] = u[i],
           n < Len(u) => n < Len(v) /\ (v[n + 1] = u[n + 1] \/ FrontPart(v[n + 1]))
    PROVE  Stops(v, n)
<1> DEFINE f == FileLen(u)
           g == FileLen(v)
<1>1. n \in 1..Len(u) /\ n \in 1..Len(v) /\ Len(u) \in Nat /\ Len(v) \in Nat /\ n \in Nat
    BY DEF Stops
<1>2. /\ Sums(f, Len(u), 0, Sizes(u)) /\ Sums(g, Len(v), 0, Sizes(v))
      /\ Sizes(v) \in [1..Len(v) -> Nat]
    BY FileLenSums
<1>3. \A i \in 1..n : Sizes(u)[i] = Sizes(v)[i]
    BY <1>1 DEF Sizes
<1> HIDE DEF f, g
<1>4. \A i \in 0..n : f[i] = g[i]
  <2> DEFINE a == Sizes(u)
             b == Sizes(v)
             j == Len(u)
             k == Len(v)
  <2>1. /\ j \in Nat /\ k \in Nat /\ n \in 0..j /\ n <= k
        /\ Sums(f, j, 0, a) /\ Sums(g, k, 0, b) /\ Agree(a, b, 1..n)
    BY <1>1, <1>2, <1>3 DEF Agree
  <2> HIDE DEF a, b, j, k
  <2>2. Agree(f, g, 0..n)
    BY <2>1, SumsSame
  <2> QED BY <2>2 DEF Agree
<1>5. f[n - 1] = g[n - 1] /\ f[n] = g[n] /\ v[n] = u[n]
    BY <1>1, <1>4
<1>6. f \in [0..Len(u) -> Nat] /\ g \in [0..Len(v) -> Nat]
    BY <1>2 DEF Sums
<1>7. CASE /\ f[n - 1] <= Space /\ Space < f[n]
           /\ n = 1 \/ Space - f[n - 1] > Space \div 8
           /\ u[n].len <= ALIGN_DOWN(Space - f[n - 1])
    BY <1>1, <1>5, <1>7 DEF Stops, g
<1>8. CASE /\ n < Len(u)
           /\ f[n] <= Space /\ Space < f[n + 1] /\ Space - f[n] <= Space \div 8
  <2>1. n < Len(v) /\ (v[n + 1] = u[n + 1] \/ FrontPart(v[n + 1]))
        /\ n + 1 \in 1..Len(v) /\ n + 1 \in 1..Len(u) /\ (n + 1) - 1 = n
    BY <1>1, <1>8
  <2>2. /\ g[n + 1] = g[n] + ChunkBytes(v[n + 1]) /\ f[n + 1] = f[n] + ChunkBytes(u[n + 1])
        /\ v[n + 1] \in Block
    <3>1. g[n + 1] = g[(n + 1) - 1] + Sizes(v)[n + 1] /\ f[n + 1] = f[(n + 1) - 1] + Sizes(u)[n + 1]
      BY <1>2, <2>1 DEF Sums
    <3> QED BY <2>1, <3>1 DEF Sizes
  <2>3. Space < g[n + 1]
    <3>1. CASE v[n + 1] = u[n + 1]
      BY <1>5, <1>8, <2>2, <3>1
    <3>2. CASE FrontPart(v[n + 1])
      <4>1. v[n + 1].type = "fd" /\ v[n + 1].len = ALIGN_DOWN(Space)
        BY <3>2 DEF FrontPart
      <4>2. /\ Space \in Nat /\ Space >= 32768 /\ 8 * (Space \div 8) <= Space /\ Space \div 8 \in Nat
        BY SpaceEnough
      <4>3. ALIGN_DOWN(Space) \in Nat /\ Space < ALIGN_DOWN(Space) + 4096
        BY <4>2, AlignedDown
      <4>4. ChunkBytes(v[n + 1]) = 12 + ALIGN(ALIGN_DOWN(Space))
        BY <2>2, <4>1, ChunkSize
      <4>5. ALIGN(ALIGN_DOWN(Space)) \in Nat /\ ALIGN(ALIGN_DOWN(Space)) >= ALIGN_DOWN(Space)
        BY <4>3, Aligned, RoundUp
      <4>6. g[n] \in Nat /\ Space - g[n] <= Space \div 8
        BY <1>1, <1>5, <1>6, <1>8
      <4> DEFINE eighth == Space \div 8
                 up == ALIGN(ALIGN_DOWN(Space))
                 down == ALIGN_DOWN(Space)
      <4>7. /\ Space \in Nat /\ Space >= 32768 /\ 8 * eighth <= Space /\ eighth \in Nat
            /\ Space < down + 4096 /\ up >= down /\ down \in Nat /\ up \in Nat
            /\ g[n] \in Nat /\ Space - g[n] <= eighth
            /\ g[n + 1] = g[n] + (12 + up)
        BY <2>2, <4>2, <4>3, <4>4, <4>5, <4>6
      <4> HIDE DEF eighth, up, down
      <4> QED BY <4>7, SMTT(60)
    <3> QED BY <2>1, <3>1, <3>2
  <2> QED
    BY <1>1, <1>5, <1>8, <2>1, <2>3 DEF Stops, g
<1> QED
    BY <1>7, <1>8 DEF Stops, f

-----------------------------------------------------------------------------
(* A turn of sparse_file_resparse(). *)

\* a and b are the two parts of bb.
Halves(a, b, bb) ==
    /\ a \in Block /\ b \in Block /\ a.block = bb.block
    /\ EndOf(a) <= b.block /\ a.block < EndOf(a) /\ EndOf(b) = EndOf(bb)
    /\ Cells(bb) = Cells(a) \cup Cells(b)

\* A block of data.
Data(id, block, len, src) ==
    [id |-> id, block |-> block, len |-> len, type |-> "fd", src |-> src]

\* What backed_block_split() makes of a block of data that is longer than m.
LEMMA SplitParts ==
    ASSUME NEW bb \in Block, bb.type = "fd", NEW left, NEW m, NEW q,
           m = ALIGN_DOWN(left), m \div block_size = q, ~ (bb.len <= m)
    PROVE  backed_block_split(bb, left)
           = <<Data(bb.id, bb.block, m, bb.src), Data(0, bb.block + q, bb.len - m, bb.src + m)>>
<1> DEFINE i == bb.id
           b == bb.block
           l == bb.len
           s == bb.src
           x == bb.len - m
           y == bb.block + q
           w == bb.src + m
           d0 == [bb EXCEPT !.len = m]
           d1 == [bb EXCEPT !.len = x]
           d2 == [d1 EXCEPT !.block = y]
           d3 == [d2 EXCEPT !.id = 0]
           d4 == [d3 EXCEPT !.src = w]
<1>1. bb = Data(i, b, l, s)
    BY DEF Data, Block
<1>2. backed_block_split(bb, left) = <<d0, d4>>
    BY DEF backed_block_split
<1> HIDE DEF x, y, w, i, b, l, s
<1>3. d1 = Data(i, b, x, s)
    BY <1>1 DEF Data
<1>4. d0 = Data(i, b, m, s)
    BY <1>1 DEF Data
<1> HIDE DEF d0, d1
<1>5. d2 = Data(i, y, x, s)
    BY <1>3 DEF Data
<1> HIDE DEF d2
<1>6. d3 = Data(0, y, x, s)
    BY <1>5 DEF Data
<1> HIDE DEF d3
<1>7. d4 = Data(0, y, x, w)
    BY <1>6 DEF Data
<1> HIDE DEF d4
<1> QED
    BY <1>2, <1>4, <1>7 DEF x, y, w, i, b, l, s

\* They are its halves.
LEMMA SplitBlock ==
    ASSUME NEW bb \in Block, bb.type = "fd", NEW q \in Nat \ {0}, NEW m, m = 4096 * q,
           bb.len > m,
           NEW a, a = Data(bb.id, bb.block, m, bb.src),
           NEW b, b = Data(0, bb.block + q, bb.len - m, bb.src + m)
    PROVE  Halves(a, b, bb)
<1>1. /\ bb.len \in Nat /\ bb.block \in Nat /\ bb.src \in Nat /\ m \in Nat /\ m > 0
      /\ bb.len - m \in Nat \ {0} /\ bb.id \in Nat
    BY DEF Block
<1>2. DIV_ROUND_UP(m) = q /\ m \div 4096 = q
    BY <1>1, RoundUpSum
<1>3. /\ a \in Block /\ a.block = bb.block /\ a.len = m /\ a.type = "fd" /\ a.src = bb.src
    BY <1>1 DEF Block, Data
<1>4. /\ b \in Block /\ b.block = bb.block + q /\ b.len = bb.len - m /\ b.type = "fd"
      /\ b.src = bb.src + m
    BY <1>1 DEF Block, Data
<1>5. EndOf(a) = b.block
    BY <1>2, <1>3, <1>4 DEF EndOf
<1>6. Mergeable(a, b)
    BY <1>2, <1>3, <1>4 DEF Mergeable, block_size
<1>7. b.block \in Nat /\ EndOf(a) <= b.block
    BY <1>4, <1>5 DEF Block
<1>8. [a EXCEPT !.len = @ + b.len] = bb
  <2>1. a.len + b.len = bb.len
    BY <1>1, <1>3, <1>4
  <2>2. bb = Data(bb.id, bb.block, bb.len, bb.src)
    BY DEF Block, Data
  <2> DEFINE n == a.len + b.len
  <2> HIDE DEF n
  <2>3. [a EXCEPT !.len = n] = Data(bb.id, bb.block, n, bb.src)
    BY DEF Data
  <2> QED BY <2>1, <2>2, <2>3 DEF n
<1>9. EndOf(bb) = EndOf(b) /\ Cells(bb) = Cells(a) \cup Cells(b)
  <2> DEFINE c == [a EXCEPT !.len = @ + b.len]
  <2>1. EndOf(c) = EndOf(b) /\ Cells(c) = Cells(a) \cup Cells(b)
    BY <1>3, <1>4, <1>6, <1>7, MergeCells
  <2> QED BY <1>8, <2>1
<1>10. a.block < EndOf(a)
    BY <1>3, CellsOf
<1> QED
    BY <1>3, <1>4, <1>7, <1>9, <1>10 DEF Halves

\* w is l with its i-th block split.
SplitAt(w, l, i) ==
    /\ w \in Seq(Block) /\ Len(w) = Len(l) + 1
    /\ \A k \in 1..(i - 1) : w[k] = l[k]
    /\ Halves(w[i], w[i + 1], l[i])
    /\ \A k \in (i + 2)..(Len(l) + 1) : w[k] = l[k - 1]

\* It says the same.
LEMMA SplitList ==
    ASSUME NEW l \in Seq(Block), Apart(l), NEW i \in 1..Len(l), NEW w, SplitAt(w, l, i)
    PROVE  Apart(w) /\ Contents(w) = Contents(l)
<1> DEFINE a == w[i]
           b == w[i + 1]
<1>1. /\ w \in Seq(Block) /\ Len(w) = Len(l) + 1 /\ Len(l) \in Nat
      /\ \A k \in 1..(i - 1) : w[k] = l[k]
      /\ \A k \in (i + 2)..(Len(l) + 1) : w[k] = l[k - 1]
    BY DEF SplitAt
<1>2. /\ a \in Block /\ b \in Block /\ a.block = l[i].block
      /\ EndOf(a) <= b.block /\ a.block < EndOf(a) /\ EndOf(b) = EndOf(l[i])
      /\ Cells(l[i]) = Cells(a) \cup Cells(b)
    BY DEF SplitAt, Halves
<1> HIDE DEF a, b
<1>3. \A m, n \in 1..Len(l) : m < n => EndOf(l[m]) <= l[n].block
    BY DEF Apart
<1>4. /\ a.block \in Nat /\ EndOf(a) \in Nat /\ b.block \in Nat /\ EndOf(b) \in Nat
      /\ b.block < EndOf(b)
    BY <1>2, CellsOf
<1>5. \A k \in 1..Len(l) : EndOf(l[k]) \in Nat /\ l[k].block \in Nat
    BY CellsOf
<1>6. Apart(w)
  <2> SUFFICES ASSUME NEW j \in 1..Len(w), NEW k \in 1..Len(w), j < k
               PROVE  EndOf(w[j]) <= w[k].block
    BY <1>1 DEF Apart
  <2> DEFINE old(n) == IF n <= i THEN n ELSE n - 1
  <2>1. ASSUME NEW n \in 1..Len(w)
        PROVE  /\ old(n) \in 1..Len(l)
               /\ l[old(n)].block <= w[n].block /\ EndOf(w[n]) <= EndOf(l[old(n)])
    <3>1. CASE n < i
      <4>1. old(n) = n /\ n \in 1..(i - 1) /\ n \in 1..Len(l)
        BY <1>1, <3>1
      <4> QED BY <1>1, <1>5, <4>1
    <3>2. CASE n = i
      BY <1>1, <1>2, <1>4, <1>5, <3>2 DEF a
    <3>3. CASE n = i + 1
      <4>1. old(n) = i
        BY <3>3
      <4>2. l[i].block <= b.block /\ EndOf(b) <= EndOf(l[i])
        BY <1>2, <1>4
      <4> QED BY <3>3, <4>1, <4>2 DEF b
    <3>4. CASE n > i + 1
      <4>1. old(n) = n - 1 /\ n \in (i + 2)..(Len(l) + 1) /\ n - 1 \in 1..Len(l)
        BY <1>1, <3>4
      <4>2. w[n] = l[n - 1]
        BY <1>1, <4>1
      <4> DEFINE o == n - 1
      <4>3. EndOf(l[o]) \in Nat /\ l[o].block \in Nat
        BY <1>5, <4>1
      <4>4. l[o].block <= l[o].block /\ EndOf(l[o]) <= EndOf(l[o])
        BY <4>3
      <4> QED BY <4>1, <4>2, <4>4
    <3> QED BY <1>1, <3>1, <3>2, <3>3, <3>4
  <2>2. CASE j = i /\ k = i + 1
    BY <1>2, <2>2 DEF a, b
  <2>3. CASE ~ (j = i /\ k = i + 1)
    <3>1. old(j) < old(k)
      BY <1>1, <2>3
    <3>2. EndOf(l[old(j)]) <= l[old(k)].block
      BY <1>3, <2>1, <3>1
    <3>3. EndOf(w[j]) \in Nat /\ w[k].block \in Nat
      BY <1>1, CellsOf
    <3> DEFINE p == old(j)
               q == old(k)
    <3>4. p \in 1..Len(l) /\ EndOf(w[j]) <= EndOf(l[p])
      BY <2>1
    <3>5. q \in 1..Len(l) /\ l[q].block <= w[k].block
      BY <2>1
    <3>6. EndOf(l[p]) <= l[q].block
      BY <3>2
    <3> HIDE DEF p, q, old
    <3>7. EndOf(l[p]) \in Nat /\ l[q].block \in Nat
      BY <1>5, <3>4, <3>5
    <3> QED BY ONLY <3>3, <3>4, <3>5, <3>6, <3>7, SMTT(60)
  <2> QED BY <2>2, <2>3
<1>7. ASSUME NEW x \in Contents(w) PROVE x \in Contents(l)
  <2>1. PICK k \in 1..Len(w) : x \in Cells(w[k])
    BY <1>1 DEF Contents
  <2>2. CASE k < i
    BY <1>1, <2>1, <2>2 DEF Contents
  <2>3. CASE k > i + 1
    <3>1. k - 1 \in 1..Len(l) /\ w[k] = l[k - 1]
      BY <1>1, <2>3
    <3> QED BY <2>1, <3>1 DEF Contents
  <2>4. CASE k = i \/ k = i + 1
    <3>1. x \in Cells(l[i])
      BY <1>2, <2>1, <2>4 DEF a, b
    <3> QED BY <3>1 DEF Contents
  <2> QED BY <1>1, <2>2, <2>3, <2>4
<1>8. ASSUME NEW x \in Contents(l) PROVE x \in Contents(w)
  <2>1. PICK k \in 1..Len(l) : x \in Cells(l[k])
    BY DEF Contents
  <2>2. CASE k < i
    <3>1. k \in 1..Len(w) /\ w[k] = l[k]
      BY <1>1, <2>2
    <3> QED BY <1>1, <2>1, <3>1 DEF Contents
  <2>3. CASE k > i
    <3>1. k + 1 \in 1..Len(w) /\ k + 1 \in (i + 2)..(Len(l) + 1) /\ (k + 1) - 1 = k
      BY <1>1, <2>3
    <3>2. w[k + 1] = l[k]
      BY <1>1, <3>1
    <3> QED BY <1>1, <2>1, <3>1, <3>2 DEF Contents
  <2>4. CASE k = i
    <3>1. i \in 1..Len(w) /\ i + 1 \in 1..Len(w)
      BY <1>1
    <3>2. x \in Cells(w[i]) \/ x \in Cells(w[i + 1])
      BY <1>2, <2>1, <2>4 DEF a, b
    <3> QED BY <1>1, <3>1, <3>2 DEF Contents
  <2> QED BY <2>2, <2>3, <2>4
<1> QED
    BY <1>6, <1>7, <1>8

\* l becomes r.moved and r.rest.
Turned(l, r) ==
    LET w == r.moved \o r.rest IN
    /\ r.moved \in Seq(Block) /\ r.rest \in Seq(Block) /\ w \in Seq(Block)
    /\ Apart(w) /\ Contents(w) = Contents(l)
    /\ Stops(w, Len(r.moved))
    /\ w[1].block = l[1].block
    /\ w[1] = l[1] \/ FrontPart(w[1])

\* A turn that is not the last one: a second pass cuts what it has made of
\* the list at the same place.
LEMMA TurnOver ==
    ASSUME NEW l \in Seq(Block), Apart(l), NEW i \in 1..Len(l),
           FileLen(l)[i - 1] <= Space, Space < FileLen(l)[i]
    PROVE  Turned(l, move_chunks_up_to_len(l, Limit))
<1> DEFINE r == move_chunks_up_to_len(l, Limit)
           f == FileLen(l)
           n == Len(l)
           left == Space - f[i - 1]
           parts == backed_block_split(l[i], left)
           eighth == Space \div 8
<1> SUFFICES Turned(l, r)
    OBVIOUS
<1>1. /\ Space \in Nat /\ Space >= 32768 /\ eighth \in Nat /\ eighth >= 4096
    BY SpaceEnough
<1>2. /\ n \in Nat /\ Sums(f, n, 0, Sizes(l)) /\ Sizes(l) \in [1..n -> Nat]
      /\ \A k \in 1..n : l[k] \in Block
    BY FileLenSums
<1>3. /\ f \in [0..n -> Nat] /\ f[0] = 0
      /\ \A k \in 1..n : f[k] = f[k - 1] + ChunkBytes(l[k])
    BY <1>2 DEF Sums, Sizes
<1>4. f[i - 1] <= Space /\ Space < f[i] /\ i \in 1..n
    OBVIOUS
<1>5. r = IF i = 1 \/ left > eighth
          THEN [moved |-> SubSeq(l, 1, i - 1) \o <<parts[1]>>,
                rest |-> SplitRest(parts, SubSeq(l, i + 1, n)), more |-> TRUE]
          ELSE [moved |-> SubSeq(l, 1, i - 1),
                rest |-> SubSeq(l, i, n), more |-> TRUE]
    BY MoveOver
<1> HIDE DEF f, eighth, r
<1>6. /\ i - 1 \in 0..n /\ f[i - 1] \in Nat /\ f[i] \in Nat /\ left \in Nat
      /\ f[i] = f[i - 1] + ChunkBytes(l[i]) /\ l[i] \in Block
    BY <1>1, <1>2, <1>3, <1>4, SMTT(60)
<1>7. ASSUME NEW k \in 1..n, r.moved = SubSeq(l, 1, k), r.rest = SubSeq(l, k + 1, n),
             Stops(l, k)
      PROVE  Turned(l, r)
  <2>1. r.moved \in Seq(Block) /\ r.rest \in Seq(Block) /\ Len(r.moved) = k
    <3>1. /\ SubSeq(l, 1, k) \in Seq(Block) /\ Len(SubSeq(l, 1, k)) = k + 1 - 1
      BY <1>2, Sub
    <3>2. SubSeq(l, k + 1, n) \in Seq(Block)
      BY <1>2, Sub
    <3> QED BY <1>7, <3>1, <3>2
  <2>2. r.moved \o r.rest = l
    <3>1. k \in 0..n
      OBVIOUS
    <3> QED BY <1>7, <3>1, SubBoth
  <2> QED BY <1>7, <2>1, <2>2 DEF Turned
<1>8. CASE ~ (i = 1 \/ left > eighth)
  <2> DEFINE k == i - 1
  <2>1. /\ k \in 1..n /\ k + 1 = i /\ k < n
    BY <1>2, <1>4, <1>8
  <2>2. r.moved = SubSeq(l, 1, k) /\ r.rest = SubSeq(l, k + 1, n)
    BY <1>5, <1>8, <2>1
  <2>3. f[k] <= Space /\ Space < f[k + 1] /\ Space - f[k] <= eighth
    BY <1>1, <1>4, <1>6, <1>8, <2>1
  <2> HIDE DEF k
  <2>4. Stops(l, k)
    BY <2>1, <2>3 DEF Stops, f, eighth
  <2> QED BY <1>7, <2>1, <2>2, <2>4
<1>9. CASE i = 1 \/ left > eighth
  <2>1. left >= 4096 /\ (i = 1 => left = Space)
    BY <1>1, <1>3, <1>6, <1>9
  <2>2. l[i].type = "fd"
    <3>1. l[i].type # "fill"
      <4> SUFFICES ASSUME l[i].type = "fill" PROVE FALSE
        OBVIOUS
      <4>1. ChunkBytes(l[i]) = 16
        BY <1>6, ChunkSize
      <4> QED BY <1>1, <1>4, <1>6, <2>1, <4>1
    <3> QED BY <1>6, <3>1 DEF Block
  <2>3. ChunkBytes(l[i]) = 12 + ALIGN(l[i].len)
    BY <1>6, <2>2, ChunkSize
  <2> DEFINE q == left \div 4096
             m == ALIGN_DOWN(left)
  <2> HIDE DEF left
  <2>4. q \in Nat /\ m = 4096 * q /\ m <= left /\ left < m + 4096 /\ m \in Nat
    <3>1. left \in Nat
      BY <1>6
    <3>2. /\ left \div 4096 \in Nat /\ 4096 * (left \div 4096) <= left
          /\ left < 4096 * (left \div 4096) + 4096
          /\ ALIGN_DOWN(left) = 4096 * (left \div 4096) /\ ALIGN_DOWN(left) \in Nat
      BY <3>1 DEF ALIGN_DOWN, block_size
    <3> HIDE DEF left
    <3> QED BY <3>2
  <2> USE DEF left
  <2>5. parts = IF l[i].len <= m THEN <<l[i]>>
                ELSE <<[l[i] EXCEPT !.len = m],
                       [l[i] EXCEPT !.len = @ - m, !.block = @ + m \div block_size, !.id = 0,
                                    !.src = IF l[i].type = "fill" THEN @ ELSE @ + m]>>
    BY DEF backed_block_split
  <2>6. r.moved = SubSeq(l, 1, i - 1) \o <<parts[1]>> /\ r.rest = SplitRest(parts, SubSeq(l, i + 1, n))
    BY <1>5, <1>9
  <2> HIDE DEF q, m, parts
  <2>7. q \in Nat \ {0}
    BY <1>6, <2>1, <2>4
  <2>8. CASE l[i].len <= m
    <3>1. parts = <<l[i]>>
      BY <2>5, <2>8
    <3>2. parts[1] = l[i] /\ Len(parts) = 1
      BY <3>1
    <3>3. r.moved = SubSeq(l, 1, i) /\ r.rest = SubSeq(l, i + 1, n)
      <4>1. SubSeq(l, 1, i - 1) \o <<l[i]>> = SubSeq(l, 1, i)
        BY <1>4, SubNext
      <4> QED BY <2>6, <3>2, <4>1 DEF SplitRest
    <3>4. Stops(l, i)
      BY <1>4, <1>9, <2>8 DEF Stops, f, eighth, m
    <3> QED BY <1>4, <1>7, <3>3, <3>4
  <2>9. CASE ~ (l[i].len <= m)
    <3> DEFINE a == Data(l[i].id, l[i].block, m, l[i].src)
               b == Data(0, l[i].block + q, l[i].len - m, l[i].src + m)
    <3>1. parts[1] = a /\ parts[2] = b /\ Len(parts) = 2
      <4>1. m \div block_size = q
        BY <2>4, RoundUpSum DEF block_size
      <4>2. m = ALIGN_DOWN(left)
        BY DEF m
      <4>3. parts = <<a, b>>
        BY <1>6, <2>2, <2>9, <4>1, <4>2, SplitParts DEF parts
      <4> HIDE DEF a, b
      <4> QED BY <4>3
    <3>2. l[i].len \in Nat /\ l[i].len > m
      <4>1. l[i].len \in Nat \ {0}
        BY <1>6 DEF Block
      <4> QED BY <2>4, <2>9, <4>1
    <3>3. Halves(a, b, l[i])
      BY <1>6, <2>2, <2>4, <2>7, <3>2, SplitBlock
    <3>4. a.type = "fd" /\ a.len = m /\ b.type = "fd" /\ b.len = l[i].len - m
      BY DEF Data
    <3> HIDE DEF a, b
    <3>5. a \in Block /\ b \in Block
      BY <3>3 DEF Halves
    <3> DEFINE u == SubSeq(l, 1, i - 1) \o <<a>>
               v == <<b>> \o SubSeq(l, i + 1, n)
               w == u \o v
    <3>6. r.moved = u /\ r.rest = v
      BY <2>6, <3>1 DEF SplitRest
    <3>7. /\ u \in Seq(Block) /\ Len(u) = i /\ u[i] = a /\ \A k \in 1..(i - 1) : u[k] = l[k]
      <4> DEFINE d == SubSeq(l, 1, i - 1)
                 e == <<a>>
                 h == i - 1
      <4>1. h \in Nat /\ h <= n /\ h + 1 - 1 = i - 1 /\ 1 <= h + 1
        BY <1>2, <1>4
      <4>2. /\ SubSeq(l, 1, h) \in Seq(Block) /\ Len(SubSeq(l, 1, h)) = h + 1 - 1
            /\ \A k \in 1..(h + 1 - 1) : SubSeq(l, 1, h)[k] = l[1 + k - 1]
        BY <4>1, Sub
      <4>3. d \in Seq(Block) /\ Len(d) = i - 1 /\ \A k \in 1..(i - 1) : d[k] = l[k]
        BY <4>1, <4>2
      <4>4. e \in Seq(Block) /\ Len(e) = 1 /\ e[1] = a
        BY <3>5
      <4>5. u = d \o e
        OBVIOUS
      <4> HIDE DEF d, e, u
      <4>6. /\ d \o e \in Seq(Block) /\ Len(d \o e) = Len(d) + Len(e)
            /\ \A k \in 1..Len(d) : (d \o e)[k] = d[k]
            /\ \A k \in (Len(d) + 1)..(Len(d) + Len(e)) : (d \o e)[k] = e[k - Len(d)]
        BY <4>3, <4>4, Concat
      <4>7. i \in (Len(d) + 1)..(Len(d) + Len(e)) /\ i - Len(d) = 1
        BY <1>4, <4>3, <4>4
      <4>8. u[i] = a
        BY <4>4, <4>5, <4>6, <4>7
      <4>9. Len(u) = i
        BY <1>4, <4>3, <4>4, <4>5, <4>6
      <4> QED BY <4>3, <4>5, <4>6, <4>8, <4>9
    <3>8. /\ v \in Seq(Block) /\ Len(v) = n - i + 1 /\ v[1] = b
          /\ \A k \in 2..(n - i + 1) : v[k] = l[i + k - 1]
      <4> DEFINE d == SubSeq(l, i + 1, n)
                 e == <<b>>
                 h == i + 1
      <4>1. h \in Nat \ {0} /\ h <= n + 1 /\ n + 1 - h = n - i
        BY <1>2, <1>4
      <4>2. /\ SubSeq(l, h, n) \in Seq(Block) /\ Len(SubSeq(l, h, n)) = n + 1 - h
            /\ \A k \in 1..(n + 1 - h) : SubSeq(l, h, n)[k] = l[h + k - 1]
        BY <1>2, <4>1, Sub
      <4>3. /\ d \in Seq(Block) /\ Len(d) = n - i
            /\ \A k \in 1..(n - i) : d[k] = l[(i + 1) + k - 1]
        BY <4>1, <4>2
      <4>4. e \in Seq(Block) /\ Len(e) = 1 /\ e[1] = b
        BY <3>5
      <4>5. v = e \o d
        OBVIOUS
      <4> HIDE DEF d, e, v
      <4>6. /\ e \o d \in Seq(Block) /\ Len(e \o d) = Len(e) + Len(d)
            /\ \A k \in 1..Len(e) : (e \o d)[k] = e[k]
            /\ \A k \in (Len(e) + 1)..(Len(e) + Len(d)) : (e \o d)[k] = d[k - Len(e)]
        BY <4>3, <4>4, Concat
      <4>7. v \in Seq(Block) /\ Len(v) = n - i + 1 /\ v[1] = b
        BY <1>2, <1>4, <4>3, <4>4, <4>5, <4>6
      <4>8. ASSUME NEW k \in 2..(n - i + 1) PROVE v[k] = l[i + k - 1]
        <5>1. k \in (Len(e) + 1)..(Len(e) + Len(d)) /\ k - Len(e) = k - 1
              /\ k - 1 \in 1..(n - i) /\ (i + 1) + (k - 1) - 1 = i + k - 1
          BY <1>2, <1>4, <4>3, <4>4
        <5>2. v[k] = d[k - 1]
          BY <4>5, <4>6, <5>1
        <5>3. d[k - 1] = l[(i + 1) + (k - 1) - 1]
          BY <4>3, <5>1
        <5> QED BY <5>1, <5>2, <5>3
      <4> QED BY <4>7, <4>8
    <3> HIDE DEF u, v
    <3>9. /\ w \in Seq(Block) /\ Len(w) = Len(u) + Len(v)
          /\ \A k \in 1..Len(u) : w[k] = u[k]
          /\ \A k \in (Len(u) + 1)..(Len(u) + Len(v)) : w[k] = v[k - Len(u)]
      BY <3>7, <3>8, Concat, ZenonT(60)
    <3> HIDE DEF w
    <3>10. /\ Len(w) = n + 1 /\ w[i] = a /\ w[i + 1] = b
           /\ \A k \in 1..(i - 1) : w[k] = l[k]
      <4>1. i \in 1..Len(u) /\ i + 1 \in (Len(u) + 1)..(Len(u) + Len(v)) /\ (i + 1) - Len(u) = 1
            /\ Len(u) + Len(v) = n + 1
        <5>1. Len(u) = i /\ Len(v) = n - i + 1
          BY <3>7, <3>8
        <5> QED BY <1>2, <1>4, <5>1
      <4>2. w[i + 1] = v[1] /\ w[i] = u[i]
        BY <3>9, <4>1
      <4>3. \A k \in 1..(i - 1) : k \in 1..Len(u)
        BY <3>7
      <4> QED BY <3>7, <3>8, <3>9, <4>1, <4>2, <4>3
    <3>11. ASSUME NEW k \in (i + 2)..(n + 1) PROVE w[k] = l[k - 1]
      <4>1. k \in (Len(u) + 1)..(Len(u) + Len(v)) /\ k - Len(u) = k - i
            /\ k - i \in 2..(n - i + 1) /\ i + (k - i) - 1 = k - 1
        BY <1>2, <1>4, <3>7, <3>8
      <4>2. w[k] = v[k - i]
        BY <3>9, <4>1
      <4>3. v[k - i] = l[i + (k - i) - 1]
        BY <3>8, <4>1
      <4> QED BY <4>1, <4>2, <4>3
    <3>12. SplitAt(w, l, i)
      BY <3>3, <3>9, <3>10, <3>11 DEF SplitAt
    <3>13. Apart(w) /\ Contents(w) = Contents(l)
      BY <1>4, <3>12, SplitList
    <3>14. Stops(w, i)
      <4> DEFINE g == FileLen(w)
      <4>1. /\ Sums(g, n + 1, 0, Sizes(w)) /\ Sizes(w) \in [1..(n + 1) -> Nat]
        BY <3>9, <3>10, FileLenSums
      <4> HIDE DEF g
      <4>2. \A k \in 1..(n + 1) : Sizes(w)[k] = ChunkBytes(w[k])
        BY <3>10 DEF Sizes
      <4>3. g[i - 1] = f[i - 1]
        <5> DEFINE j == i - 1
                   p == n + 1
                   y == Sizes(l)
                   z == Sizes(w)
        <5>1. /\ p \in Nat /\ j \in 0..n /\ j <= p /\ Agree(y, z, 1..j) /\ j \in 0..j
              /\ Sums(f, n, 0, y) /\ Sums(g, p, 0, z)
          BY <1>2, <1>4, <3>10, <4>1, <4>2 DEF Agree, Sizes
        <5> HIDE DEF j, p, y, z
        <5>2. Agree(f, g, 0..j)
          BY <1>2, <5>1, SumsSame
        <5>3. f[j] = g[j]
          BY <5>1, <5>2 DEF Agree
        <5> QED BY <5>3 DEF j
      <4>4. g[i] = g[i - 1] + ChunkBytes(a) /\ g[i + 1] = g[i] + ChunkBytes(b)
        <5>1. i \in 1..(n + 1) /\ i + 1 \in 1..(n + 1) /\ (i + 1) - 1 = i
          BY <1>2, <1>4
        <5>2. g[i] = g[i - 1] + Sizes(w)[i] /\ g[i + 1] = g[(i + 1) - 1] + Sizes(w)[i + 1]
          BY <4>1, <5>1 DEF Sums
        <5> QED BY <3>10, <4>2, <5>1, <5>2
      <4>5. ChunkBytes(a) = 12 + m
        <5>1. ChunkBytes(a) = 12 + ALIGN(m)
          BY <3>4, <3>5, ChunkSize
        <5>2. DIV_ROUND_UP(m) = q
          BY <2>4, RoundUpSum
        <5>3. ALIGN(m) = m
          BY <2>4, <5>2, Aligned
        <5> QED BY <5>1, <5>3
      <4>6. ChunkBytes(b) \in Nat /\ ChunkBytes(b) >= 12 + 4096
        <5>1. b.len \in Nat /\ b.len > 0
          BY <3>5 DEF Block
        <5>2. ChunkBytes(b) = 12 + ALIGN(b.len)
          BY <3>4, <3>5, ChunkSize
        <5>3. ALIGN(b.len) = 4096 * DIV_ROUND_UP(b.len)
          BY <5>1, Aligned
        <5>4. DIV_ROUND_UP(b.len) \in Nat /\ DIV_ROUND_UP(b.len) > 0
          <6> DEFINE z == b.len
          <6> HIDE DEF z
          <6>1. z \in Nat /\ z > 0
            BY <5>1 DEF z
          <6>2. DIV_ROUND_UP(z) \in Nat /\ DIV_ROUND_UP(z) > 0
            BY <6>1 DEF DIV_ROUND_UP, block_size
          <6> QED BY <6>2 DEF z
        <5> QED BY <5>2, <5>3, <5>4
      <4>7. i \in 1..Len(w) /\ i < Len(w)
        BY <1>2, <1>4, <3>10
      <4>8. g[i - 1] <= Space /\ Space - g[i - 1] = left
        BY <1>4, <4>3
      <4>9. CASE Space < g[i]
        <5>1. w[i].len <= m /\ m = ALIGN_DOWN(Space - g[i - 1])
          BY <2>4, <3>4, <3>10, <4>8 DEF m
        <5> HIDE DEF left
        <5>2. i = 1 \/ Space - g[i - 1] > eighth
          BY <1>9, <4>8
        <5> QED BY <4>7, <4>8, <4>9, <5>1, <5>2 DEF Stops, g, eighth
      <4>10. CASE ~ (Space < g[i])
        <5>1. g[i] = g[i - 1] + (12 + m) /\ g[i - 1] \in Nat /\ g[i] \in Nat
          BY <1>6, <2>4, <4>3, <4>4, <4>5
        <5>2. g[i] <= Space /\ Space - g[i] <= eighth /\ Space < g[i + 1]
          <6> HIDE DEF left, m
          <6>1. g[i] <= Space /\ Space - g[i] < 4096
            BY <1>1, <2>4, <4>8, <4>10, <5>1
          <6> QED BY <1>1, <4>4, <4>6, <5>1, <6>1
        <5> QED BY <4>7, <5>2 DEF Stops, g, eighth
      <4> QED BY <4>9, <4>10
    <3>15. w[1].block = l[1].block /\ (w[1] = l[1] \/ FrontPart(w[1]))
      <4>1. CASE i = 1
        <5>1. w[1] = a /\ left = Space /\ a.block = l[1].block
          BY <2>1, <3>3, <3>10, <4>1 DEF Halves
        <5> QED BY <3>4, <5>1 DEF FrontPart, m
      <4>2. CASE i # 1
        <5>1. 1 \in 1..(i - 1)
          BY <1>4, <4>2
        <5> QED BY <3>10, <5>1
      <4> QED BY <4>1, <4>2
    <3>16. r.moved \o r.rest = w
      BY <3>6 DEF w
    <3> QED
      BY <3>6, <3>7, <3>8, <3>9, <3>13, <3>14, <3>15, <3>16 DEF Turned
  <2> QED BY <2>8, <2>9
<1> QED
    BY <1>8, <1>9

-----------------------------------------------------------------------------
(* Lists that are put together. *)

\* What is behind the first p entries of s.
Rest(s, p) == SubSeq(s, p + 1, Len(s))

LEMMA RestOf ==
    ASSUME NEW S, NEW s \in Seq(S), NEW p \in 0..Len(s)
    PROVE  /\ Rest(s, p) \in Seq(S) /\ Len(Rest(s, p)) = Len(s) - p
           /\ \A k \in 1..(Len(s) - p) : Rest(s, p)[k] = s[p + k]
<1> DEFINE n == Len(s)
           m == p + 1
<1>1. n \in Nat /\ m \in Nat \ {0} /\ n <= Len(s) /\ m <= n + 1 /\ n + 1 - m = n - p
    OBVIOUS
<1>2. /\ SubSeq(s, m, n) \in Seq(S) /\ Len(SubSeq(s, m, n)) = n + 1 - m
      /\ \A k \in 1..(n + 1 - m) : SubSeq(s, m, n)[k] = s[m + k - 1]
    BY <1>1, Sub
<1>3. \A k \in 1..(n - p) : m + k - 1 = p + k
    BY <1>1
<1> QED
    BY <1>1, <1>2, <1>3 DEF Rest

LEMMA RestConcat ==
    ASSUME NEW S, NEW s \in Seq(S), NEW t \in Seq(S)
    PROVE  Rest(s \o t, Len(s)) = t
<1> DEFINE w == s \o t
           p == Len(s)
           r == Rest(w, p)
<1>1. /\ w \in Seq(S) /\ Len(w) = p + Len(t) /\ p \in Nat /\ Len(t) \in Nat
      /\ \A k \in (p + 1)..(p + Len(t)) : w[k] = t[k - p]
    BY Concat
<1> HIDE DEF w, p
<1>2. p \in 0..Len(w) /\ Len(w) - p = Len(t)
    BY <1>1
<1>3. /\ r \in Seq(S) /\ Len(r) = Len(w) - p
      /\ \A k \in 1..(Len(w) - p) : r[k] = w[p + k]
    BY <1>1, <1>2, RestOf
<1> HIDE DEF r
<1>4. ASSUME NEW k \in 1..Len(r) PROVE r[k] = t[k]
  <2>1. p + k \in (p + 1)..(p + Len(t)) /\ (p + k) - p = k
    BY <1>1, <1>2, <1>3
  <2> QED BY <1>1, <1>2, <1>3, <2>1
<1>5. r = t
    BY <1>2, <1>3, <1>4, SeqEqual
<1> QED
    BY <1>5 DEF r, w, p

LEMMA RestRest ==
    ASSUME NEW S, NEW s \in Seq(S), NEW p \in 0..Len(s), NEW n \in 0..(Len(s) - p)
    PROVE  Rest(Rest(s, p), n) = Rest(s, p + n)
<1> DEFINE r == Rest(s, p)
           m == Len(s)
           u == Rest(r, n)
           v == Rest(s, p + n)
<1>1. m \in Nat /\ p + n \in 0..m
    OBVIOUS
<1>2. r \in Seq(S) /\ Len(r) = m - p /\ \A k \in 1..(m - p) : r[k] = s[p + k]
    BY RestOf
<1>3. v \in Seq(S) /\ Len(v) = m - (p + n) /\ \A k \in 1..(m - (p + n)) : v[k] = s[(p + n) + k]
    BY <1>1, RestOf
<1> HIDE DEF r, v
<1>4. n \in 0..Len(r)
    BY <1>2
<1>5. u \in Seq(S) /\ Len(u) = Len(r) - n /\ \A k \in 1..(Len(r) - n) : u[k] = r[n + k]
    BY <1>2, <1>4, RestOf, ZenonT(60), SMTT(60)
<1> HIDE DEF u
<1>6. Len(u) = Len(v)
    BY <1>1, <1>2, <1>3, <1>5
<1>7. ASSUME NEW k \in 1..Len(u) PROVE u[k] = v[k]
  <2>1. n + k \in 1..(m - p) /\ p + (n + k) = (p + n) + k /\ k \in 1..(m - (p + n))
        /\ k \in 1..(Len(r) - n)
    BY <1>1, <1>2, <1>5
  <2> QED BY <1>2, <1>3, <1>5, <2>1
<1>8. u = v
    BY <1>3, <1>5, <1>6, <1>7, SeqEqual
<1> QED
    BY <1>8 DEF u, v, r

LEMMA RestTake ==
    ASSUME NEW S, NEW s \in Seq(S), NEW p \in 0..Len(s), NEW n \in 0..(Len(s) - p)
    PROVE  /\ SubSeq(Rest(s, p), 1, n) \in Seq(S) /\ Len(SubSeq(Rest(s, p), 1, n)) = n
           /\ \A k \in 1..n : SubSeq(Rest(s, p), 1, n)[k] = s[p + k]
<1> DEFINE r == Rest(s, p)
           u == SubSeq(r, 1, n)
<1>1. r \in Seq(S) /\ Len(r) = Len(s) - p /\ \A k \in 1..(Len(s) - p) : r[k] = s[p + k]
    BY RestOf
<1> HIDE DEF r
<1>2. n \in Nat /\ n <= Len(r) /\ 1 <= n + 1 /\ Len(s) \in Nat /\ n + 1 - 1 = n
    BY <1>1
<1>3. /\ u \in Seq(S) /\ Len(u) = n + 1 - 1
      /\ \A k \in 1..(n + 1 - 1) : u[k] = r[1 + k - 1]
    BY <1>1, <1>2, Sub
<1> HIDE DEF u
<1>4. \A k \in 1..n : 1 + k - 1 = k /\ k \in 1..(Len(s) - p)
    BY <1>2
<1>5. /\ u \in Seq(S) /\ Len(u) = n /\ \A k \in 1..n : u[k] = s[p + k]
    BY <1>1, <1>2, <1>3, <1>4
<1> QED
    BY <1>5 DEF u, r

\* All blocks of k are before those of l.
Ahead(k, l) == \A i \in 1..Len(k), j \in 1..Len(l) : EndOf(k[i]) <= l[j].block

LEMMA ContentsOf ==
    ASSUME NEW l \in Seq(Block), NEW c
    PROVE  c \in Contents(l) <=> \E i \in 1..Len(l) : c \in Cells(l[i])
    BY DEF Contents

LEMMA ApartConcat ==
    ASSUME NEW k \in Seq(Block), NEW l \in Seq(Block)
    PROVE  /\ k \o l \in Seq(Block)
           /\ Apart(k \o l) <=> Apart(k) /\ Apart(l) /\ Ahead(k, l)
           /\ Contents(k \o l) = Contents(k) \cup Contents(l)
<1> DEFINE w == k \o l
           m == Len(k)
           n == Len(l)
<1>1. /\ w \in Seq(Block) /\ Len(w) = m + n /\ m \in Nat /\ n \in Nat
      /\ \A i \in 1..m : w[i] = k[i]
      /\ \A i \in (m + 1)..(m + n) : w[i] = l[i - m]
    BY Concat
<1>2. DOMAIN k = 1..m /\ DOMAIN l = 1..n /\ DOMAIN w = 1..(m + n)
    BY <1>1
<1> HIDE DEF w, m, n
<1>3. \A j \in 1..n : m + j \in (m + 1)..(m + n) /\ (m + j) - m = j /\ w[m + j] = l[j]
  <2> SUFFICES ASSUME NEW j \in 1..n
               PROVE  m + j \in (m + 1)..(m + n) /\ (m + j) - m = j /\ w[m + j] = l[j]
    OBVIOUS
  <2>1. m + j \in (m + 1)..(m + n) /\ (m + j) - m = j
    BY <1>1
  <2> QED BY <1>1, <2>1
<1>4. ASSUME Apart(w) PROVE Apart(k) /\ Apart(l) /\ Ahead(k, l)
  <2>1. ASSUME NEW i \in 1..m, NEW j \in 1..m, i < j PROVE EndOf(k[i]) <= k[j].block
    <3>1. i \in 1..(m + n) /\ j \in 1..(m + n)
      BY <1>1
    <3>2. EndOf(w[i]) <= w[j].block
      BY <1>2, <1>4, <2>1, <3>1 DEF Apart
    <3>3. w[i] = k[i] /\ w[j] = k[j]
      BY <1>1
    <3> QED BY ONLY <3>2, <3>3
  <2>2. ASSUME NEW i \in 1..n, NEW j \in 1..n, i < j PROVE EndOf(l[i]) <= l[j].block
    <3>1. m + i \in 1..(m + n) /\ m + j \in 1..(m + n) /\ m + i < m + j
      BY <1>1, <2>2
    <3>2. EndOf(w[m + i]) <= w[m + j].block
      BY <1>2, <1>4, <3>1 DEF Apart
    <3> QED BY <1>3, <3>2
  <2>3. ASSUME NEW i \in 1..m, NEW j \in 1..n PROVE EndOf(k[i]) <= l[j].block
    <3>1. i \in 1..(m + n) /\ m + j \in 1..(m + n) /\ i < m + j
      BY <1>1
    <3>2. EndOf(w[i]) <= w[m + j].block
      BY <1>2, <1>4, <3>1 DEF Apart
    <3> QED BY <1>1, <1>3, <3>2
  <2> QED BY <1>2, <2>1, <2>2, <2>3 DEF Apart, Ahead, m, n
<1>5. ASSUME Apart(k), Apart(l), Ahead(k, l) PROVE Apart(w)
  <2> SUFFICES ASSUME NEW i \in 1..(m + n), NEW j \in 1..(m + n), i < j
               PROVE  EndOf(w[i]) <= w[j].block
    BY <1>2 DEF Apart
  <2>1. CASE j <= m
    <3>1. i \in 1..m /\ j \in 1..m
      BY <1>1, <2>1
    <3> QED BY <1>1, <1>2, <1>5, <3>1 DEF Apart
  <2>2. CASE i > m
    <3>1. i \in (m + 1)..(m + n) /\ j \in (m + 1)..(m + n)
          /\ i - m \in 1..n /\ j - m \in 1..n /\ i - m < j - m
      BY <1>1, <2>2
    <3>2. EndOf(l[i - m]) <= l[j - m].block
      BY <1>2, <1>5, <3>1 DEF Apart
    <3> QED BY <1>1, <3>1, <3>2
  <2>3. CASE i <= m /\ j > m
    <3>1. i \in 1..m /\ j \in (m + 1)..(m + n) /\ j - m \in 1..n
      BY <1>1, <2>3
    <3>2. EndOf(k[i]) <= l[j - m].block
      BY <1>5, <3>1 DEF Ahead, m, n
    <3> QED BY <1>1, <3>1, <3>2
  <2> QED BY <1>1, <2>1, <2>2, <2>3
<1>6. Contents(w) = Contents(k) \cup Contents(l)
  <2>1. ASSUME NEW c \in Contents(w) PROVE c \in Contents(k) \cup Contents(l)
    <3>1. PICK i \in 1..(m + n) : c \in Cells(w[i])
      BY <1>2 DEF Contents
    <3>2. CASE i <= m
      <4>1. i \in 1..m
        BY <1>1, <3>2
      <4> QED BY <1>1, <1>2, <3>1, <4>1 DEF Contents
    <3>3. CASE i > m
      <4>1. i \in (m + 1)..(m + n) /\ i - m \in 1..n
        BY <1>1, <3>3
      <4> QED BY <1>1, <1>2, <3>1, <4>1 DEF Contents
    <3> QED BY <1>1, <3>2, <3>3
  <2>2. ASSUME NEW c \in Contents(k) PROVE c \in Contents(w)
    <3>1. PICK i \in 1..m : c \in Cells(k[i])
      BY <1>2 DEF Contents
    <3>2. i \in 1..(m + n) /\ w[i] = k[i]
      BY <1>1
    <3> QED BY <1>2, <3>1, <3>2 DEF Contents
  <2>3. ASSUME NEW c \in Contents(l) PROVE c \in Contents(w)
    <3>1. PICK i \in 1..n : c \in Cells(l[i])
      BY <1>2 DEF Contents
    <3>2. m + i \in 1..(m + n) /\ w[m + i] = l[i]
      BY <1>1, <1>3
    <3> QED BY <1>2, <3>1, <3>2 DEF Contents
  <2> QED BY <2>1, <2>2, <2>3
<1> QED
    BY <1>1, <1>4, <1>5, <1>6 DEF w

\* What is in lists one of which is before the other is in other blocks.
LEMMA AheadContents ==
    ASSUME NEW k \in Seq(Block), NEW l \in Seq(Block), Ahead(k, l)
    PROVE  \A c \in Contents(k), d \in Contents(l) :
              c.block \in Nat /\ d.block \in Nat /\ c.block < d.block
<1> SUFFICES ASSUME NEW c \in Contents(k), NEW d \in Contents(l)
             PROVE  c.block \in Nat /\ d.block \in Nat /\ c.block < d.block
    OBVIOUS
<1>1. PICK i \in 1..Len(k) : c \in Cells(k[i])
    BY ContentsOf
<1>2. PICK j \in 1..Len(l) : d \in Cells(l[j])
    BY ContentsOf
<1> DEFINE a == k[i]
           b == l[j]
<1>3. a \in Block /\ b \in Block
    OBVIOUS
<1>4. EndOf(a) <= b.block
    BY DEF Ahead
<1> HIDE DEF a, b
<1>5. EndOf(a) \in Nat /\ b.block \in Nat /\ c.block < EndOf(a) /\ c.block \in Nat
    BY <1>1, <1>3, CellsOf DEF a, b
<1>6. b.block <= d.block /\ d.block \in Nat
    BY <1>2, <1>3, CellsOf DEF b
<1> QED
    BY <1>4, <1>5, <1>6

\* Where the blocks of a list end.
LEMMA EndsBefore ==
    ASSUME NEW l \in Seq(Block), NEW n \in Nat, \A c \in Contents(l) : c.block < n
    PROVE  \A i \in 1..Len(l) : EndOf(l[i]) <= n
<1> SUFFICES ASSUME NEW i \in 1..Len(l) PROVE EndOf(l[i]) <= n
    OBVIOUS
<1> DEFINE b == l[i]
           k == EndOf(b) - 1
<1>1. b \in Block
    OBVIOUS
<1>2. \A c \in Cells(b) : c \in Contents(l)
    BY ContentsOf
<1> HIDE DEF b
<1>3. EndOf(b) \in Nat /\ b.block < EndOf(b) /\ b.block \in Nat
    BY <1>1, CellsOf
<1>4. k \in b.block..(EndOf(b) - 1)
    BY <1>3
<1>5. CellAt(b, k) \in Cells(b) /\ CellAt(b, k).block = k
    BY <1>1, <1>4, CellsOf
<1>6. k < n
    BY <1>2, <1>5
<1>7. EndOf(b) <= n
    BY <1>3, <1>6
<1> QED
    BY <1>7 DEF b

\* A block with other cells than those of a list lies between its blocks.
LEMMA ClearOf ==
    ASSUME NEW l \in Seq(Block), NEW bb \in Block,
           \A c \in Contents(l), d \in Cells(bb) : c.block # d.block
    PROVE  Clear(l, bb)
<1> SUFFICES ASSUME NEW i \in 1..Len(l),
                    ~ (EndOf(l[i]) <= bb.block \/ EndOf(bb) <= l[i].block)
             PROVE  FALSE
    BY DEF Clear
<1> DEFINE a == l[i]
           k == IF a.block <= bb.block THEN bb.block ELSE a.block
<1>1. a \in Block
    OBVIOUS
<1>2. \A c \in Cells(a) : c \in Contents(l)
    BY ContentsOf
<1>3. ~ (EndOf(a) <= bb.block \/ EndOf(bb) <= a.block)
    OBVIOUS
<1> HIDE DEF a
<1>4. /\ EndOf(a) \in Nat /\ a.block < EndOf(a) /\ a.block \in Nat
      /\ EndOf(bb) \in Nat /\ bb.block < EndOf(bb) /\ bb.block \in Nat
    BY <1>1, CellsOf
<1>5. k \in a.block..(EndOf(a) - 1) /\ k \in bb.block..(EndOf(bb) - 1)
    BY <1>3, <1>4
<1> HIDE DEF k
<1>6. CellAt(a, k) \in Cells(a) /\ CellAt(a, k).block = k
    BY <1>1, <1>5, CellsOf
<1>7. CellAt(bb, k) \in Cells(bb) /\ CellAt(bb, k).block = k
    BY <1>5, CellsOf
<1> QED
    BY <1>2, <1>6, <1>7

\* backed_block_list_move() puts a list behind one that is before it.
LEMMA MoveList ==
    ASSUME NEW k \in Seq(Block), NEW l \in Seq(Block), Ahead(k, l)
    PROVE  backed_block_list_move(l, k) = k \o l
<1>1. CASE l = <<>>
  <2>1. k \o l = k
    BY <1>1, ConcatEmptySeq
  <2> QED BY <1>1, <2>1 DEF backed_block_list_move
<1>2. CASE l # <<>> /\ k = <<>>
  <2>1. k \o l = l
    BY <1>2, ConcatEmptySeq
  <2> QED BY <1>2, <2>1 DEF backed_block_list_move
<1>3. CASE l # <<>> /\ k # <<>>
  <2> DEFINE n == Len(k)
             P(i) == /\ i = n \/ k[i + 1].block > l[1].block
                     /\ \A j \in 2..i : k[j].block <= l[1].block
             at == CHOOSE i \in 1..n : P(i)
  <2>1. n \in Nat \ {0} /\ 1 \in 1..Len(l) /\ \A i \in 1..n : k[i] \in Block
    BY <1>3
  <2>2. l[1].block \in Nat
    <3>1. l[1] \in Block
      BY <2>1
    <3> QED BY <3>1 DEF Block
  <2>3. ASSUME NEW i \in 1..n PROVE k[i].block \in Nat /\ k[i].block <= l[1].block
    <3> DEFINE a == k[i]
    <3>1. EndOf(a) <= l[1].block /\ a \in Block
      BY <2>1 DEF Ahead
    <3> HIDE DEF a
    <3>2. EndOf(a) \in Nat /\ a.block \in Nat /\ a.block < EndOf(a)
      BY <3>1, CellsOf
    <3>3. a.block \in Nat /\ a.block <= l[1].block
      BY <2>2, <3>1, <3>2
    <3> QED BY <3>3 DEF a
  <2>4. n \in 1..n /\ P(n)
    BY <2>1, <2>3
  <2>5. at \in 1..n /\ P(at)
    BY <2>4
  <2> HIDE DEF at
  <2>6. at = n
    <3> SUFFICES ASSUME at # n PROVE FALSE
      OBVIOUS
    <3>1. at + 1 \in 1..n /\ k[at + 1].block > l[1].block
      BY <2>1, <2>5
    <3> QED BY <2>2, <2>3, <3>1
  <2>7. backed_block_list_move(l, k) = SubSeq(k, 1, at) \o l \o SubSeq(k, at + 1, n)
    BY <1>3 DEF backed_block_list_move, at
  <2>8. SubSeq(k, 1, n) = k /\ SubSeq(k, n + 1, n) = <<>>
    BY <2>1, SubSeqFull, SubSeqEmpty
  <2>9. k \o l \in Seq(Block)
    BY Concat
  <2>10. (k \o l) \o <<>> = k \o l
    BY <2>9, ConcatEmptySeq
  <2> QED BY <2>6, <2>7, <2>8, <2>10
<1> QED
    BY <1>1, <1>2, <1>3

-----------------------------------------------------------------------------
(* Where the passes of sparse_file_resparse() cut. *)

\* A pass over w cuts it behind cut[1], ..., cut[n] blocks, and then is at p.
Cut(w, cut, n, p) ==
    /\ p \in 0..Len(w) /\ cut \in [0..n -> 0..p] /\ cut[0] = 0 /\ cut[n] = p
    /\ \A i, j \in 0..n : i <= j => cut[i] <= cut[j]
    /\ \A i \in 1..n : Stops(Rest(w, cut[i - 1]), cut[i] - cut[i - 1])

\* It goes on being cut there when what lies behind p changes.
LEMMA CutAgain ==
    ASSUME NEW w \in Seq(Block), NEW v \in Seq(Block), NEW n \in Nat, NEW cut, NEW p,
           Cut(w, cut, n, p), p <= Len(v), \A i \in 1..p : v[i] = w[i],
           p < Len(w) => p < Len(v) /\ (v[p + 1] = w[p + 1] \/ FrontPart(v[p + 1]))
    PROVE  Cut(v, cut, n, p)
<1>1. p \in Nat /\ p <= Len(w) /\ Len(w) \in Nat /\ Len(v) \in Nat
    BY DEF Cut
<1>2. ASSUME NEW i \in 1..n PROVE Stops(Rest(v, cut[i - 1]), cut[i] - cut[i - 1])
  <2> DEFINE a == cut[i - 1]
             m == cut[i] - a
             x == Rest(w, a)
             y == Rest(v, a)
  <2>1. a \in 0..p /\ cut[i] \in 0..p /\ Stops(x, m)
    <3>1. /\ cut \in [0..n -> 0..p]
          /\ \A j \in 1..n : Stops(Rest(w, cut[j - 1]), cut[j] - cut[j - 1])
      BY DEF Cut
    <3>2. i \in 0..n /\ i - 1 \in 0..n
      OBVIOUS
    <3>3. a \in 0..p /\ cut[i] \in 0..p
      BY <3>1, <3>2
    <3>4. Stops(x, m)
      BY <3>1
    <3> QED BY <3>3, <3>4
  <2> HIDE DEF a
  <2>2. a \in 0..Len(w) /\ a \in 0..Len(v)
    BY <1>1, <2>1
  <2>3. x \in Seq(Block) /\ Len(x) = Len(w) - a /\ \A k \in 1..(Len(w) - a) : x[k] = w[a + k]
    BY <2>2, RestOf
  <2>4. y \in Seq(Block) /\ Len(y) = Len(v) - a /\ \A k \in 1..(Len(v) - a) : y[k] = v[a + k]
    BY <2>2, RestOf
  <2>5. m \in 1..Len(x) /\ m <= p - a /\ m \in Nat
    BY <2>1, <1>1, SMTT(60) DEF Stops
  <2> HIDE DEF m, x, y
  <2>6. m <= Len(y)
    BY <1>1, <2>1, <2>4, <2>5
  <2>7. ASSUME NEW k \in 1..m PROVE y[k] = x[k]
    <3>1. a + k \in 1..p /\ k \in 1..(Len(w) - a) /\ k \in 1..(Len(v) - a)
      BY <1>1, <2>1, <2>5
    <3> QED BY <2>3, <2>4, <3>1
  <2>8. ASSUME m < Len(x) PROVE m < Len(y) /\ (y[m + 1] = x[m + 1] \/ FrontPart(y[m + 1]))
    <3>1. CASE a + m < p
      <4>1. a + (m + 1) \in 1..p /\ m + 1 \in 1..(Len(w) - a) /\ m + 1 \in 1..(Len(v) - a)
            /\ m < Len(y)
        BY <1>1, <2>1, <2>4, <2>5, <3>1
      <4> QED BY <2>3, <2>4, <4>1
    <3>2. CASE a + m = p
      <4>1. p < Len(w)
        BY <1>1, <2>1, <2>3, <2>5, <2>8, <3>2
      <4>2. p < Len(v) /\ (v[p + 1] = w[p + 1] \/ FrontPart(v[p + 1]))
        BY <4>1
      <4>3. a + (m + 1) = p + 1 /\ m + 1 \in 1..(Len(w) - a) /\ m + 1 \in 1..(Len(v) - a)
            /\ m < Len(y)
        BY <1>1, <2>1, <2>4, <2>5, <3>2, <4>1, <4>2
      <4> QED BY <2>3, <2>4, <4>2, <4>3
    <3> QED BY <1>1, <2>1, <2>5, <3>1, <3>2
  <2>9. Stops(y, m)
    BY <2>1, <2>3, <2>4, <2>6, <2>7, <2>8, StopsAgain
  <2> QED BY <2>9 DEF y, m, a
<1> QED
    BY <1>1, <1>2 DEF Cut

\* The next turn.
LEMMA CutNext ==
    ASSUME NEW w \in Seq(Block), NEW n \in Nat, NEW cut, NEW p, NEW m,
           Cut(w, cut, n, p), Stops(Rest(w, p), m)
    PROVE  \E next : Cut(w, next, n + 1, p + m)
<1> DEFINE next == [i \in 0..(n + 1) |-> IF i = n + 1 THEN p + m ELSE cut[i]]
<1>1. p \in 0..Len(w) /\ Len(w) \in Nat /\ cut \in [0..n -> 0..p] /\ cut[0] = 0 /\ cut[n] = p
    BY DEF Cut
<1>2. Len(Rest(w, p)) = Len(w) - p
    BY <1>1, RestOf
<1>3. m \in 1..(Len(w) - p)
    BY <1>2 DEF Stops
<1>4. p + m \in 0..Len(w) /\ p + m \in Nat
    BY <1>1, <1>3
<1>5. /\ \A i \in 0..n : next[i] = cut[i] /\ next[i] \in 0..(p + m)
      /\ next[n + 1] = p + m
  <2>1. \A i \in 0..n : i # n + 1 /\ i \in 0..(n + 1)
    OBVIOUS
  <2>2. \A i \in 0..n : cut[i] \in 0..(p + m)
    BY <1>1, <1>3
  <2> QED BY <2>1, <2>2
<1>6. next \in [0..(n + 1) -> 0..(p + m)]
    BY <1>4, <1>5
<1>7. ASSUME NEW i \in 1..(n + 1) PROVE Stops(Rest(w, next[i - 1]), next[i] - next[i - 1])
  <2>1. CASE i = n + 1
    <3>1. i - 1 = n /\ n \in 0..n /\ p + m - p = m
      BY <1>1, <1>3, <2>1
    <3>2. next[i - 1] = p /\ next[i] = p + m
      BY <1>1, <1>5, <2>1, <3>1
    <3> QED BY <3>1, <3>2
  <2>2. CASE i # n + 1
    <3>1. i \in 1..n /\ i - 1 \in 0..n /\ i \in 0..n
      BY <2>2
    <3>2. next[i - 1] = cut[i - 1] /\ next[i] = cut[i]
      BY <1>5, <3>1
    <3> QED BY <3>1, <3>2 DEF Cut
  <2> QED BY <2>1, <2>2
<1>8. next[0] = 0
    BY <1>1, <1>5
<1>9. ASSUME NEW i \in 0..(n + 1), NEW j \in 0..(n + 1), i <= j PROVE next[i] <= next[j]
  <2>1. CASE j = n + 1
    BY <1>4, <1>5, <1>6, <2>1
  <2>2. CASE j # n + 1
    <3>1. i \in 0..n /\ j \in 0..n
      BY <1>9, <2>2
    <3>2. cut[i] <= cut[j]
      BY <1>9, <3>1 DEF Cut
    <3> QED BY <1>5, <3>1, <3>2
  <2> QED BY <2>1, <2>2
<1> HIDE DEF next
<1>10. Cut(w, next, n + 1, p + m)
    BY <1>4, <1>5, <1>6, <1>7, <1>8, <1>9 DEF Cut
<1> QED
    BY <1>10

\* All of l fits into one sparse file.
Fits(l) == \A i \in 1..Len(l) : FileLen(l)[i] <= Space

\* A pass over l takes n turns and then the last one.
Turns(l, n) == \E cut, p : Cut(l, cut, n, p) /\ Fits(Rest(l, p))

\* A turn leaves one turn less.
LEMMA TurnsLess ==
    ASSUME NEW l \in Seq(Block), NEW n \in Nat \ {0}, Turns(l, n)
    PROVE  \E m : Stops(l, m) /\ Turns(Rest(l, m), n - 1)
<1>1. PICK cut, p : Cut(l, cut, n, p) /\ Fits(Rest(l, p))
    BY DEF Turns
<1> DEFINE m == cut[1]
           r == Rest(l, m)
           k == n - 1
           q == p - m
           next == [i \in 0..k |-> cut[i + 1] - m]
<1>2. /\ p \in 0..Len(l) /\ Len(l) \in Nat /\ cut \in [0..n -> 0..p] /\ cut[0] = 0 /\ cut[n] = p
      /\ \A i, j \in 0..n : i <= j => cut[i] <= cut[j]
      /\ \A i \in 1..n : Stops(Rest(l, cut[i - 1]), cut[i] - cut[i - 1])
    BY <1>1 DEF Cut
<1>3. 1 \in 0..n /\ 1 \in 1..n /\ n \in 0..n /\ 0 \in 0..n /\ k \in Nat /\ k + 1 = n /\ 1 - 1 = 0
    OBVIOUS
<1>4. m \in 0..p /\ m \in 0..Len(l) /\ m - 0 = m
    BY <1>2, <1>3
<1>5. Stops(l, m)
  <2>1. Rest(l, 0) = l
    BY SubSeqFull DEF Rest
  <2>2. Stops(Rest(l, cut[0]), cut[1] - cut[0])
    BY <1>2, <1>3
  <2> QED BY <1>2, <1>4, <2>1, <2>2
<1> HIDE DEF m, k
<1>6. r \in Seq(Block) /\ Len(r) = Len(l) - m
    BY <1>4, RestOf
<1>7. q \in 0..Len(r)
    BY <1>2, <1>4, <1>6
<1>8. ASSUME NEW i \in 0..k
      PROVE  /\ i + 1 \in 0..n /\ next[i] = cut[i + 1] - m /\ next[i] \in 0..q
             /\ cut[i + 1] \in 0..p /\ m <= cut[i + 1]
  <2>1. i + 1 \in 0..n /\ 1 <= i + 1
    BY <1>3
  <2>2. cut[i + 1] \in 0..p /\ cut[1] <= cut[i + 1]
    BY <1>2, <1>3, <2>1
  <2>3. m <= cut[i + 1] /\ next[i] = cut[i + 1] - m
    BY <2>2 DEF m
  <2> DEFINE c == cut[i + 1]
  <2> HIDE DEF c, next
  <2>4. c - m \in 0..q
    BY <1>2, <1>4, <2>2, <2>3, SMTT(60) DEF c
  <2> QED BY <2>1, <2>2, <2>3, <2>4 DEF c
<1>9. next[0] = 0 /\ next[k] = q
  <2>1. 0 \in 0..k /\ k \in 0..k /\ 0 + 1 = 1
    BY <1>3
  <2>2. next[0] = cut[1] - m /\ next[k] = cut[n] - m
    BY <1>3, <2>1
  <2> QED BY <1>2, <1>4, <2>2 DEF m
<1>10. next \in [0..k -> 0..q]
    BY <1>8
<1>11. ASSUME NEW i \in 0..k, NEW j \in 0..k, i <= j PROVE next[i] <= next[j]
  <2>1. i + 1 <= j + 1 /\ i + 1 \in 0..n /\ j + 1 \in 0..n
    BY <1>3, <1>8, <1>11
  <2>2. cut[i + 1] <= cut[j + 1]
    BY <1>2, <2>1
  <2> DEFINE c == cut[i + 1]
             d == cut[j + 1]
  <2> HIDE DEF c, d, next
  <2>3. c <= d /\ c \in Nat /\ d \in Nat /\ next[i] = c - m /\ next[j] = d - m
    BY <1>2, <1>8, <2>2 DEF c, d
  <2> QED BY <1>4, <2>3
<1> HIDE DEF next
<1>12. ASSUME NEW i \in 1..k PROVE Stops(Rest(r, next[i - 1]), next[i] - next[i - 1])
  <2>1. i - 1 \in 0..k /\ i \in 0..k /\ (i - 1) + 1 = i /\ i + 1 \in 1..n /\ (i + 1) - 1 = i
    BY <1>3
  <2>2. /\ next[i - 1] = cut[i] - m /\ next[i] = cut[i + 1] - m /\ m <= cut[i] /\ cut[i] \in 0..p
        /\ cut[i + 1] \in 0..p
    BY <1>8, <2>1
  <2>3. Stops(Rest(l, cut[i]), cut[i + 1] - cut[i])
    <3>1. Stops(Rest(l, cut[(i + 1) - 1]), cut[i + 1] - cut[(i + 1) - 1])
      BY <1>2, <2>1
    <3> QED BY <2>1, <3>1
  <2>4. Rest(r, cut[i] - m) = Rest(l, cut[i])
    <3> DEFINE a == cut[i]
               d == a - m
    <3> HIDE DEF a
    <3>1. d \in 0..(Len(l) - m) /\ m + d = a
      <4>1. m <= a /\ a \in 0..p
        BY <2>2 DEF a
      <4> QED BY <1>2, <1>4, <4>1
    <3> HIDE DEF d
    <3>2. Rest(r, d) = Rest(l, m + d)
      BY <1>4, <3>1, RestRest DEF r
    <3> QED BY <3>1, <3>2 DEF d, a
  <2>5. (cut[i + 1] - m) - (cut[i] - m) = cut[i + 1] - cut[i]
    BY <1>4, <2>2
  <2> QED BY <2>2, <2>3, <2>4, <2>5
<1>13. Cut(r, next, k, q)
    BY <1>7, <1>9, <1>10, <1>11, <1>12 DEF Cut
<1>14. Rest(r, q) = Rest(l, p)
  <2>1. q \in 0..(Len(l) - m) /\ m + q = p
    BY <1>2, <1>4
  <2> HIDE DEF q
  <2>2. Rest(r, q) = Rest(l, m + q)
    BY <1>4, <2>1, RestRest DEF r
  <2> QED BY <2>1, <2>2
<1>15. Turns(r, k)
    BY <1>1, <1>13, <1>14 DEF Turns
<1> QED
    BY <1>5, <1>15 DEF r, k

\* Where the first pass is: it has cut t \o l behind t, in n turns.
Counted(t, l, n) ==
    /\ t \in Seq(Block) /\ l \in Seq(Block) /\ Apart(t \o l)
    /\ \E cut : Cut(t \o l, cut, n, Len(t))

\* The first pass begins.
LEMMA CountBegins ==
    ASSUME NEW l \in Seq(Block), Apart(l)
    PROVE  Counted(<<>>, l, 0) /\ <<>> \o l = l
<1> DEFINE e == <<>>
           cut == [i \in 0..0 |-> 0]
<1>1. e \in Seq(Block) /\ e \o l = l /\ Len(e) = 0
    BY ConcatEmptySeq
<1>2. cut \in [0..0 -> 0..0] /\ cut[0] = 0 /\ 0 \in 0..Len(l)
    OBVIOUS
<1>3. \A i, j \in 0..0 : i <= j => cut[i] <= cut[j]
    OBVIOUS
<1> HIDE DEF cut, e
<1>4. Cut(l, cut, 0, 0)
    BY <1>2, <1>3 DEF Cut
<1>5. Counted(e, l, 0)
    BY <1>1, <1>4 DEF Counted
<1> QED
    BY <1>1, <1>5 DEF e

\* A turn is the last one, or not.
LEMMA Turn ==
    ASSUME NEW l \in Seq(Block), Apart(l), NEW r, r = move_chunks_up_to_len(l, Limit)
    PROVE  \/ r.more = TRUE /\ l # <<>> /\ Turned(l, r)
           \/ r.more = FALSE /\ r.moved = l /\ r.rest = <<>> /\ Fits(l)
<1>1. CASE \A i \in 1..Len(l) : FileLen(l)[i] <= Space
  <2>1. r = [moved |-> l, rest |-> <<>>, more |-> FALSE]
    BY <1>1, MoveAll
  <2>2. Fits(l)
    BY <1>1 DEF Fits
  <2> QED BY <2>1, <2>2
<1>2. CASE \E i \in 1..Len(l) : FileLen(l)[i - 1] <= Space /\ Space < FileLen(l)[i]
  <2>1. PICK i \in 1..Len(l) : FileLen(l)[i - 1] <= Space /\ Space < FileLen(l)[i]
    BY <1>2
  <2>2. Turned(l, r)
    BY <2>1, TurnOver
  <2>3. l # <<>>
    BY <2>1
  <2> DEFINE left == Space - FileLen(l)[i - 1]
             parts == backed_block_split(l[i], left)
             a == SubSeq(l, 1, i - 1) \o <<parts[1]>>
             b == SplitRest(parts, SubSeq(l, i + 1, Len(l)))
             c == SubSeq(l, 1, i - 1)
             d == SubSeq(l, i, Len(l))
  <2>4. r = IF i = 1 \/ left > Space \div 8
            THEN [moved |-> a, rest |-> b, more |-> TRUE]
            ELSE [moved |-> c, rest |-> d, more |-> TRUE]
    BY <2>1, MoveOver
  <2> HIDE DEF left, parts, a, b, c, d
  <2>5. r.more = TRUE
    BY <2>4
  <2> QED BY <2>2, <2>3, <2>5
<1> QED
    BY <1>1, <1>2, Overflow

LEMMA AheadConcat ==
    ASSUME NEW t \in Seq(Block), NEW u \in Seq(Block), NEW v \in Seq(Block), Ahead(t, u \o v)
    PROVE  Ahead(t, u) /\ Ahead(t, v)
<1> DEFINE w == u \o v
           m == Len(u)
           n == Len(v)
<1>1. /\ Len(w) = m + n /\ m \in Nat /\ n \in Nat
      /\ \A i \in 1..m : w[i] = u[i]
      /\ \A i \in (m + 1)..(m + n) : w[i] = v[i - m]
    BY Concat
<1>2. Ahead(t, w)
    OBVIOUS
<1> HIDE DEF w, m, n
<1>3. ASSUME NEW i \in 1..Len(t), NEW j \in 1..m PROVE EndOf(t[i]) <= u[j].block
  <2>1. j \in 1..(m + n) /\ w[j] = u[j]
    BY <1>1
  <2> QED BY <1>1, <1>2, <2>1 DEF Ahead
<1>4. ASSUME NEW i \in 1..Len(t), NEW j \in 1..n PROVE EndOf(t[i]) <= v[j].block
  <2>1. m + j \in 1..(m + n) /\ m + j \in (m + 1)..(m + n) /\ (m + j) - m = j
    BY <1>1
  <2>2. w[m + j] = v[j]
    BY <1>1, <2>1
  <2> QED BY <1>1, <1>2, <2>1, <2>2 DEF Ahead
<1> QED
    BY <1>3, <1>4 DEF Ahead, m, n

LEMMA AheadFirst ==
    ASSUME NEW t \in Seq(Block), NEW w \in Seq(Block), Apart(w),
           \A i \in 1..Len(t) : EndOf(t[i]) <= w[1].block
    PROVE  Ahead(t, w)
<1> SUFFICES ASSUME NEW i \in 1..Len(t), NEW j \in 1..Len(w) PROVE EndOf(t[i]) <= w[j].block
    BY DEF Ahead
<1> DEFINE a == t[i]
           b == w[1]
           c == w[j]
<1>1. a \in Block /\ b \in Block /\ c \in Block /\ EndOf(a) <= b.block
    OBVIOUS
<1>2. j # 1 => EndOf(b) <= c.block
  <2>1. 1 \in DOMAIN w /\ j \in DOMAIN w /\ (j # 1 => 1 < j)
    OBVIOUS
  <2> QED BY <2>1 DEF Apart
<1>3. j = 1 => c = b
    OBVIOUS
<1> HIDE DEF a, b, c
<1>4. EndOf(a) \in Nat /\ EndOf(b) \in Nat /\ b.block \in Nat /\ b.block < EndOf(b) /\ c.block \in Nat
    BY <1>1, CellsOf
<1>5. EndOf(a) <= c.block
    BY <1>1, <1>2, <1>3, <1>4
<1> QED
    BY <1>5 DEF a, c

\* A turn of the first pass.
LEMMA CountTurn ==
    ASSUME NEW t, NEW l, NEW n \in Nat, Counted(t, l, n),
           NEW r, l # <<>>, Turned(l, r),
           NEW b, b = backed_block_list_move(r.moved, t)
    PROVE  /\ Counted(b, r.rest, n + 1)
           /\ Contents(b \o r.rest) = Contents(t \o l)
<1> DEFINE u == r.moved
           v == r.rest
           w == u \o v
<1>1. t \in Seq(Block) /\ l \in Seq(Block) /\ Apart(t \o l)
    BY DEF Counted
<1>2. Apart(t) /\ Apart(l) /\ Ahead(t, l) /\ t \o l \in Seq(Block)
      /\ Contents(t \o l) = Contents(t) \cup Contents(l)
    BY <1>1, ApartConcat
<1>3. l # <<>> /\ Turned(l, r)
    OBVIOUS
<1>4. /\ u \in Seq(Block) /\ v \in Seq(Block) /\ w \in Seq(Block)
      /\ Apart(w) /\ Contents(w) = Contents(l) /\ Stops(w, Len(u))
      /\ w[1].block = l[1].block /\ (w[1] = l[1] \/ FrontPart(w[1]))
    BY <1>3 DEF Turned
<1>5. b = backed_block_list_move(u, t)
    OBVIOUS
<1> HIDE DEF u, v
<1>6. Ahead(t, w)
  <2>1. 1 \in 1..Len(l)
    BY <1>1, <1>3
  <2>2. \A i \in 1..Len(t) : EndOf(t[i]) <= w[1].block
    BY <1>2, <1>4, <2>1 DEF Ahead
  <2> HIDE DEF w
  <2> QED BY <1>1, <1>4, <2>2, AheadFirst
<1>7. Ahead(t, u)
    BY <1>1, <1>4, <1>6, AheadConcat
<1>8. b = t \o u
    BY <1>1, <1>4, <1>5, <1>7, MoveList
<1>9. b \in Seq(Block) /\ Len(b) = Len(t) + Len(u)
    BY <1>1, <1>4, <1>8, Concat
<1>10. b \o v = t \o w
  <2>1. (t \o u) \o v = t \o (u \o v)
    <3>1. t \in Seq(Block) /\ u \in Seq(Block) /\ v \in Seq(Block)
      BY <1>1, <1>4
    <3> QED BY <3>1, ConcatAssociative, SMTT(60)
  <2> QED BY <1>8, <2>1
<1> HIDE DEF w
<1>11. t \o w \in Seq(Block) /\ Apart(t \o w) /\ Contents(t \o w) = Contents(t) \cup Contents(w)
    BY <1>1, <1>2, <1>4, <1>6, ApartConcat
<1>12. PICK cut : Cut(t \o l, cut, n, Len(t))
    BY DEF Counted
<1>13. Cut(t \o w, cut, n, Len(t))
  <2> DEFINE x == t \o l
             y == t \o w
             p == Len(t)
  <2>1. /\ x \in Seq(Block) /\ Len(x) = p + Len(l) /\ p \in Nat /\ Len(l) \in Nat
        /\ \A k \in 1..p : x[k] = t[k]
        /\ \A k \in (p + 1)..(p + Len(l)) : x[k] = l[k - p]
    BY <1>1, Concat
  <2>2. /\ y \in Seq(Block) /\ Len(y) = p + Len(w) /\ Len(w) \in Nat
        /\ \A k \in 1..p : y[k] = t[k]
        /\ \A k \in (p + 1)..(p + Len(w)) : y[k] = w[k - p]
    <3>1. t \in Seq(Block) /\ w \in Seq(Block)
      BY <1>1, <1>4
    <3>2. Len(w) \in Nat
      BY <3>1
    <3> QED BY <3>1, <3>2, Concat
  <2>3. Cut(x, cut, n, p)
    BY <1>12
  <2>4. Len(w) >= 1 /\ Len(l) >= 1
    <3>1. Len(u) \in 1..Len(w)
      BY <1>4 DEF Stops
    <3>2. Len(l) # 0
      BY <1>1, <1>3
    <3> QED BY <1>1, <1>4, <2>2, <3>1, <3>2
  <2> HIDE DEF x, y, p
  <2>5. p + 1 \in (p + 1)..(p + Len(l)) /\ p + 1 \in (p + 1)..(p + Len(w)) /\ (p + 1) - p = 1
    BY <2>1, <2>2, <2>4
  <2>6. x[p + 1] = l[1] /\ y[p + 1] = w[1]
    BY <2>1, <2>2, <2>5
  <2>7. p <= Len(y) /\ p < Len(y)
    BY <2>1, <2>2, <2>4
  <2>8. y[p + 1] = x[p + 1] \/ FrontPart(y[p + 1])
    BY <1>4, <2>6
  <2>9. \A i \in 1..p : y[i] = x[i]
    BY <2>1, <2>2
  <2>10. Cut(y, cut, n, p)
    BY <2>1, <2>2, <2>3, <2>7, <2>8, <2>9, CutAgain
  <2> QED BY <2>10 DEF y, p
<1>14. Rest(t \o w, Len(t)) = w
    BY <1>1, <1>4, RestConcat
<1>15. \E next : Cut(t \o w, next, n + 1, Len(t) + Len(u))
  <2> DEFINE y == t \o w
             p == Len(t)
             m == Len(u)
  <2>1. y \in Seq(Block) /\ Cut(y, cut, n, p) /\ Stops(Rest(y, p), m)
    BY <1>4, <1>11, <1>13, <1>14
  <2> HIDE DEF y, p, m
  <2>2. \E next : Cut(y, next, n + 1, p + m)
    BY <2>1, CutNext
  <2> QED BY <2>2 DEF y, p, m
<1>16. Counted(b, v, n + 1)
    BY <1>4, <1>9, <1>10, <1>11, <1>15 DEF Counted
<1>17. Contents(b \o v) = Contents(t \o l)
    BY <1>2, <1>4, <1>10, <1>11
<1> QED
    BY <1>16, <1>17 DEF v

\* Its end: the second pass takes as many turns.
LEMMA CountEnds ==
    ASSUME NEW t, NEW l, NEW n \in Nat, Counted(t, l, n), Fits(l),
           NEW b, b = backed_block_list_move(l, t)
    PROVE  /\ b = t \o l /\ backed_block_list_move(b, <<>>) = b
           /\ b \in Seq(Block) /\ Apart(b) /\ Turns(b, n)
<1>1. t \in Seq(Block) /\ l \in Seq(Block) /\ Apart(t \o l)
    BY DEF Counted
<1>2. Ahead(t, l) /\ t \o l \in Seq(Block)
    BY <1>1, ApartConcat
<1>3. b = t \o l
    BY <1>1, <1>2, MoveList
<1>4. backed_block_list_move(b, <<>>) = b
    BY DEF backed_block_list_move
<1>5. PICK cut : Cut(t \o l, cut, n, Len(t))
    BY DEF Counted
<1>6. Rest(t \o l, Len(t)) = l
    BY <1>1, RestConcat
<1>7. Turns(t \o l, n)
    BY <1>5, <1>6 DEF Turns
<1> QED
    BY <1>1, <1>2, <1>3, <1>4, <1>7

\* A sparse file that may be made of l: its blocks may be over by the header of
\* the chunk that was split, or by a chunk that fills.
Small(l) == FileLen(l)[Len(l)] \in 0..(Space + 16)

LEMMA FitsSmall ==
    ASSUME NEW l \in Seq(Block), Fits(l)
    PROVE  Small(l)
<1> DEFINE f == FileLen(l)
           n == Len(l)
<1>1. n \in Nat /\ f \in [0..n -> Nat] /\ f[0] = 0
    BY FileLenSums DEF Sums
<1>2. n \in 0..n /\ Space \in Nat
    BY <1>1, SpaceEnough
<1>3. f[n] <= Space
  <2>1. CASE n = 0
    BY <1>1, <1>2, <2>1
  <2>2. CASE n # 0
    <3>1. n \in 1..n
      BY <1>1, <2>2
    <3> QED BY <3>1 DEF Fits
  <2> QED BY <2>1, <2>2
<1> HIDE DEF f, n
<1>4. f[n] \in 0..(Space + 16)
    BY <1>1, <1>2, <1>3
<1> QED
    BY <1>4 DEF Small, f, n

LEMMA StopsSmall ==
    ASSUME NEW l \in Seq(Block), NEW n, Stops(l, n)
    PROVE  Small(SubSeq(l, 1, n))
<1> DEFINE f == FileLen(l)
           u == SubSeq(l, 1, n)
           g == FileLen(u)
           m == Len(l)
<1>1. n \in 1..m /\ m \in Nat /\ n \in Nat /\ n <= m /\ 1 <= n + 1 /\ n + 1 - 1 = n
    BY DEF Stops
<1>2. /\ u \in Seq(Block) /\ Len(u) = n + 1 - 1
      /\ \A k \in 1..(n + 1 - 1) : u[k] = l[1 + k - 1]
    BY <1>1, Sub
<1>3. Len(u) = n /\ \A k \in 1..n : u[k] = l[k]
    BY <1>1, <1>2
<1> HIDE DEF u
<1>4. /\ Sums(f, m, 0, Sizes(l)) /\ Sizes(l) \in [1..m -> Nat] /\ Sums(g, n, 0, Sizes(u))
    BY <1>2, <1>3, FileLenSums
<1>5. f[n] = g[n]
  <2> DEFINE y == Sizes(l)
             z == Sizes(u)
  <2>1. Agree(y, z, 1..n)
    BY <1>1, <1>3 DEF Agree, Sizes
  <2> HIDE DEF f, g, m, y, z
  <2>2. m \in Nat /\ n \in 0..m /\ n \in Nat /\ n <= n /\ Sums(f, m, 0, y) /\ Sums(g, n, 0, z)
    BY <1>1, <1>4 DEF y, z
  <2>3. Agree(f, g, 0..n)
    BY <2>1, <2>2, SumsSame
  <2> QED BY <1>1, <2>3 DEF Agree
<1>6. f[n] \in Nat /\ f[n - 1] \in Nat /\ f[n] = f[n - 1] + ChunkBytes(l[n]) /\ l[n] \in Block
  <2>1. n - 1 \in 0..m /\ n \in 0..m
    BY <1>1
  <2>2. f[n] = f[n - 1] + Sizes(l)[n]
    BY <1>1, <1>4 DEF Sums
  <2>3. Sizes(l)[n] = ChunkBytes(l[n])
    BY <1>1 DEF Sizes
  <2>4. f \in [0..m -> Nat]
    BY <1>4 DEF Sums
  <2>5. l[n] \in Block
    BY <1>1
  <2> HIDE DEF f
  <2> QED BY <2>1, <2>2, <2>3, <2>4, <2>5
<1>7. Space \in Nat
    BY SpaceEnough
<1> HIDE DEF f, g, m
<1>8. f[n] <= Space + 16
  <2>1. CASE f[n] <= Space
    BY <1>6, <1>7, <2>1
  <2>2. CASE f[n - 1] <= Space /\ l[n].len <= ALIGN_DOWN(Space - f[n - 1])
    <3> DEFINE left == Space - f[n - 1]
               b == l[n]
               q == left \div 4096
               d == DIV_ROUND_UP(b.len)
    <3> HIDE DEF left, b, q, d
    <3>1. left \in Nat /\ left = Space - f[n - 1]
      BY <1>6, <1>7, <2>2 DEF left
    <3>2. q \in Nat /\ ALIGN_DOWN(left) = 4096 * q /\ 4096 * q <= left
      BY <3>1 DEF ALIGN_DOWN, block_size, q
    <3>3. b \in Block /\ b.len <= ALIGN_DOWN(left) /\ b.len \in Nat /\ b.type \in {"fd", "fill"}
      BY <1>6, <2>2 DEF left, b, Block
    <3>4. d \in Nat /\ 4096 * d < b.len + 4096
      <4> DEFINE z == b.len
      <4>1. z \in Nat
        BY <3>3
      <4> HIDE DEF z
      <4>2. DIV_ROUND_UP(z) \in Nat /\ 4096 * DIV_ROUND_UP(z) < z + 4096
        BY <4>1 DEF DIV_ROUND_UP, block_size
      <4> QED BY <4>2 DEF d, z
    <3>5. d <= q
      BY <3>2, <3>3, <3>4
    <3>6. ALIGN(b.len) = 4096 * d
      BY <3>3, Aligned DEF d
    <3>7. ChunkBytes(b) = 16 \/ ChunkBytes(b) = 12 + 4096 * d
      BY <3>3, <3>6, ChunkSize
    <3>8. f[n] = f[n - 1] + ChunkBytes(b)
      BY <1>6 DEF b
    <3>9. 4096 * d <= left
      BY <3>1, <3>2, <3>4, <3>5
    <3> QED BY <1>6, <1>7, <2>2, <3>1, <3>7, <3>8, <3>9, <3>4, SMTT(60)
  <2> QED BY <2>1, <2>2 DEF Stops, f
<1>9. g[n] \in 0..(Space + 16)
    BY <1>5, <1>6, <1>7, <1>8
<1> QED
    BY <1>3, <1>9 DEF Small, g, u

-----------------------------------------------------------------------------
(* The second pass. *)

\* The sparse files made so far, and what is left.
Divided(o, l) ==
    /\ o \in Seq(Seq(Block)) /\ l \in Seq(Block) /\ Apart(l)
    /\ \A i \in 1..Len(o) : Apart(o[i]) /\ Small(o[i]) /\ Ahead(o[i], l)
    /\ \A i, j \in 1..Len(o) : i < j => Ahead(o[i], o[j])

\* All that is in sparse files.
Total(o) == UNION {Contents(o[i]) : i \in 1..Len(o)}

\* One more of them.
LEMMA PartNext ==
    ASSUME NEW o, NEW l, Divided(o, l), NEW u \in Seq(Block), NEW v \in Seq(Block),
           l = u \o v, Small(u)
    PROVE  /\ Divided(Append(o, u), v) /\ Len(Append(o, u)) = Len(o) + 1
           /\ Total(Append(o, u)) \cup Contents(v) = Total(o) \cup Contents(l)
<1> DEFINE S == Seq(Block)
           p == Append(o, u)
           n == Len(o)
<1>1. o \in Seq(S) /\ l \in S /\ Apart(l) /\ n \in Nat /\ u \in S
    BY DEF Divided
<1> HIDE DEF S
<1>2. /\ p \in Seq(S) /\ Len(p) = n + 1 /\ p[n + 1] = u /\ \A i \in 1..n : p[i] = o[i]
    BY <1>1
<1> USE DEF S
<1> HIDE DEF p, n
<1>3. Apart(u) /\ Apart(v) /\ Ahead(u, v) /\ Contents(l) = Contents(u) \cup Contents(v)
    BY <1>1, ApartConcat
<1>4. \A i \in 1..n : o[i] \in S /\ Apart(o[i]) /\ Small(o[i]) /\ Ahead(o[i], u \o v)
    BY <1>1 DEF Divided, n
<1>5. \A i \in 1..n : Ahead(o[i], u) /\ Ahead(o[i], v)
    BY <1>4, AheadConcat
<1>6. \A i \in 1..(n + 1) : i \in 1..n \/ i = n + 1
    BY <1>1
<1>7. \A i \in 1..(n + 1) : Apart(p[i]) /\ Small(p[i]) /\ Ahead(p[i], v)
    BY <1>2, <1>3, <1>4, <1>5, <1>6
<1>8. ASSUME NEW i \in 1..(n + 1), NEW j \in 1..(n + 1), i < j PROVE Ahead(p[i], p[j])
  <2>1. i \in 1..n
    BY <1>1, <1>8
  <2>2. CASE j = n + 1
    BY <1>2, <1>5, <2>1, <2>2
  <2>3. CASE j \in 1..n
    <3>1. Ahead(o[i], o[j])
      BY <1>8, <2>1, <2>3 DEF Divided, n
    <3> QED BY <1>2, <2>1, <2>3, <3>1
  <2> QED BY <1>6, <2>2, <2>3
<1>9. Divided(p, v)
    BY <1>2, <1>3, <1>7, <1>8 DEF Divided
<1>10. Total(p) = Total(o) \cup Contents(u)
  <2>1. ASSUME NEW c \in Total(p) PROVE c \in Total(o) \cup Contents(u)
    <3>1. PICK i \in 1..(n + 1) : c \in Contents(p[i])
      BY <1>2 DEF Total
    <3> QED BY <1>2, <1>6, <3>1 DEF Total, n
  <2>2. ASSUME NEW c \in Total(o) PROVE c \in Total(p)
    <3>1. PICK i \in 1..n : c \in Contents(o[i])
      BY DEF Total, n
    <3>2. i \in 1..(n + 1) /\ p[i] = o[i]
      BY <1>1, <1>2
    <3> QED BY <1>2, <3>1, <3>2 DEF Total
  <2>3. ASSUME NEW c \in Contents(u) PROVE c \in Total(p)
    <3>1. n + 1 \in 1..(n + 1)
      BY <1>1
    <3> QED BY <1>2, <3>1 DEF Total
  <2> QED BY <2>1, <2>2, <2>3
<1> QED
    BY <1>2, <1>3, <1>9, <1>10 DEF p, n

\* A turn of the second pass.
LEMMA SplitTurn ==
    ASSUME NEW o, NEW l, Divided(o, l), NEW n \in Nat \ {0}, Turns(l, n),
           NEW r, r = move_chunks_up_to_len(l, Limit)
    PROVE  \E u, v : /\ r = [moved |-> u, rest |-> v, more |-> TRUE]
                      /\ Divided(Append(o, u), v) /\ Turns(v, n - 1)
                      /\ Len(Append(o, u)) = Len(o) + 1
                      /\ Total(Append(o, u)) \cup Contents(v) = Total(o) \cup Contents(l)
<1>1. l \in Seq(Block)
    BY DEF Divided
<1>2. PICK m : Stops(l, m) /\ Turns(Rest(l, m), n - 1)
    BY <1>1, TurnsLess
<1> DEFINE u == SubSeq(l, 1, m)
           v == Rest(l, m)
<1>3. r = [moved |-> u, rest |-> v, more |-> TRUE]
    BY <1>1, <1>2, StopsMove DEF Rest
<1>4. m \in 0..Len(l) /\ m \in Nat /\ m <= Len(l) /\ 1 <= m + 1
    BY <1>1, <1>2 DEF Stops
<1>5. u \in Seq(Block) /\ v \in Seq(Block)
    BY <1>1, <1>4, Sub, RestOf
<1>6. u \o v = l
    BY <1>1, <1>4, SubBoth DEF Rest
<1>7. Small(u)
    BY <1>1, <1>2, StopsSmall
<1>8. Turns(v, n - 1)
    BY <1>2
<1> HIDE DEF u, v
<1>9. /\ Divided(Append(o, u), v) /\ Len(Append(o, u)) = Len(o) + 1
      /\ Total(Append(o, u)) \cup Contents(v) = Total(o) \cup Contents(l)
    BY <1>5, <1>6, <1>7, PartNext, SMTT(60)
<1> QED
    BY ONLY <1>3, <1>8, <1>9

\* Its last turn.
LEMMA SplitEnds ==
    ASSUME NEW o, NEW l, Divided(o, l), Turns(l, 0),
           NEW r, r = move_chunks_up_to_len(l, Limit)
    PROVE  /\ r.more = FALSE /\ r.moved = l /\ r.rest = <<>>
           /\ Divided(Append(o, l), <<>>) /\ Len(Append(o, l)) = Len(o) + 1
           /\ Total(Append(o, l)) = Total(o) \cup Contents(l)
<1>1. l \in Seq(Block)
    BY DEF Divided
<1>2. PICK cut, p : Cut(l, cut, 0, p) /\ Fits(Rest(l, p))
    BY DEF Turns
<1>3. p = 0
    BY <1>2 DEF Cut
<1>4. Rest(l, 0) = l
    BY <1>1, SubSeqFull DEF Rest
<1>5. Fits(l)
    BY <1>2, <1>3, <1>4
<1>6. r = [moved |-> l, rest |-> <<>>, more |-> FALSE]
    BY <1>1, <1>5, MoveAll DEF Fits
<1>7. Small(l)
    BY <1>1, <1>5, FitsSmall
<1> DEFINE e == <<>>
<1>8. e \in Seq(Block) /\ l = l \o e /\ Contents(e) = {}
    BY <1>1, ConcatEmptySeq DEF Contents
<1>9. r.more = FALSE /\ r.moved = l /\ r.rest = e
    BY <1>6
<1> HIDE DEF e
<1>10. /\ Divided(Append(o, l), e) /\ Len(Append(o, l)) = Len(o) + 1
       /\ Total(Append(o, l)) \cup Contents(e) = Total(o) \cup Contents(l)
    BY <1>1, <1>7, <1>8, PartNext
<1> QED
    BY <1>8, <1>9, <1>10 DEF e

-----------------------------------------------------------------------------
(* Reading: the blocks of a file come one after the other. *)

\* A chunk of an image file.
Chunk == [type: {"fd", "fill", "skip"}, len: Nat \ {0}, src: Nat, off: Nat]

\* b[i] is where the i-th of n chunks begins.
Begins(b, n, ch) ==
    /\ b \in [1..(n + 1) -> Nat] /\ b[1] = 0
    /\ \A i \in 1..n : b[i + 1] = b[i] + DIV_ROUND_UP(ch[i].len)
    /\ \A i, j \in 1..(n + 1) : i <= j => b[i] <= b[j]

LEMMA BlockOfBegins ==
    ASSUME NEW ch, NEW n \in Nat, Len(ch) = n,
           \A i \in 1..n : ch[i].len \in Nat
    PROVE  Begins(BlockOf(ch), n, ch)
<1> DEFINE w == [i \in 1..n |-> DIV_ROUND_UP(ch[i].len)]
           Rec(f) == f = [i \in 1..(n + 1) |-> IF i = 1 THEN 0
                                              ELSE f[i - 1] + DIV_ROUND_UP(ch[i - 1].len)]
           b == CHOOSE f : Rec(f)
<1>1. \A i \in 1..n : DIV_ROUND_UP(ch[i].len) \in Nat
  <2> SUFFICES ASSUME NEW i \in 1..n PROVE DIV_ROUND_UP(ch[i].len) \in Nat
    OBVIOUS
  <2> DEFINE z == ch[i].len
  <2>1. z \in Nat
    OBVIOUS
  <2> HIDE DEF z
  <2>2. DIV_ROUND_UP(z) \in Nat
    BY <2>1 DEF DIV_ROUND_UP, block_size
  <2> QED BY <2>2 DEF z
<1>2. w \in [1..n -> Nat] /\ \A i \in 1..n : w[i] = DIV_ROUND_UP(ch[i].len)
    BY <1>1
<1> HIDE DEF w
<1>3. PICK f : Sums(f, n, 0, w)
    BY <1>2, SumsExist
<1> DEFINE g == [i \in 1..(n + 1) |-> f[i - 1]]
<1>4. /\ f \in [0..n -> Nat] /\ f[0] = 0 /\ \A i \in 1..n : f[i] = f[i - 1] + w[i]
    BY <1>3 DEF Sums
<1>5. \A i, j \in 0..n : i <= j => f[i] <= f[j]
    BY <1>2, <1>3, SumsGrow
<1>6. ASSUME NEW i \in 1..(n + 1)
      PROVE  g[i] = IF i = 1 THEN 0 ELSE g[i - 1] + DIV_ROUND_UP(ch[i - 1].len)
  <2>1. CASE i = 1
    <3>1. i - 1 = 0
      BY <2>1
    <3> QED BY <1>4, <2>1, <3>1
  <2>2. CASE i # 1
    <3>1. i - 1 \in 1..n /\ i - 1 \in 1..(n + 1)
      BY <2>2
    <3>2. g[i] = f[i - 1] /\ g[i - 1] = f[(i - 1) - 1]
      BY <3>1
    <3>3. f[i - 1] = f[(i - 1) - 1] + w[i - 1]
      BY <1>4, <3>1
    <3> QED BY <1>2, <2>2, <3>1, <3>2, <3>3
  <2> QED BY <2>1, <2>2
<1>7. Rec(g)
    BY <1>6
<1>8. Rec(b)
    BY <1>7
<1>9. BlockOf(ch) = b
    BY DEF BlockOf
<1> HIDE DEF b
<1>10. /\ DOMAIN b = 1..(n + 1) /\ b = [i \in 1..(n + 1) |-> b[i]]
       /\ \A i \in 1..(n + 1) : b[i] = IF i = 1 THEN 0
                                       ELSE b[i - 1] + DIV_ROUND_UP(ch[i - 1].len)
    BY <1>8
<1> HIDE DEF Rec, g
<1>11. \A i \in 0..n : b[i + 1] = f[i]
  <2> DEFINE T == {i \in 0..n : b[i + 1] = f[i]}
  <2>1. 0 \in T
    <3>1. 0 + 1 = 1 /\ 1 \in 1..(n + 1) /\ 0 \in 0..n
      OBVIOUS
    <3> QED BY <1>4, <1>10, <3>1
  <2>2. ASSUME NEW i \in 1..n, i - 1 \in T PROVE i \in T
    <3>1. i \in 0..n /\ i + 1 \in 1..(n + 1) /\ i + 1 # 1 /\ (i + 1) - 1 = i /\ (i - 1) + 1 = i
      OBVIOUS
    <3>2. b[i + 1] = b[i] + DIV_ROUND_UP(ch[i].len)
      BY <1>10, <3>1
    <3>3. b[i] = f[i - 1]
      BY <2>2, <3>1
    <3> QED BY <1>2, <1>4, <3>1, <3>2, <3>3
  <2> HIDE DEF T
  <2>3. 0..n \subseteq T
    BY <2>1, <2>2, BoundedInduction
  <2> QED BY <2>3 DEF T
<1>12. \A i \in 1..(n + 1) : i - 1 \in 0..n /\ (i - 1) + 1 = i /\ b[i] = f[i - 1] /\ b[i] \in Nat
  <2> SUFFICES ASSUME NEW i \in 1..(n + 1)
               PROVE  i - 1 \in 0..n /\ (i - 1) + 1 = i /\ b[i] = f[i - 1] /\ b[i] \in Nat
    OBVIOUS
  <2>1. i - 1 \in 0..n /\ (i - 1) + 1 = i
    OBVIOUS
  <2>2. b[(i - 1) + 1] = f[i - 1]
    BY <1>11, <2>1
  <2> QED BY <1>4, <2>1, <2>2
<1>13. b \in [1..(n + 1) -> Nat]
    BY <1>10, <1>12
<1>14. ASSUME NEW i \in 1..(n + 1), NEW j \in 1..(n + 1), i <= j PROVE b[i] <= b[j]
  <2>1. i - 1 <= j - 1 /\ i - 1 \in 0..n /\ j - 1 \in 0..n
    BY <1>14
  <2> QED BY <1>5, <1>12, <2>1
<1>15. ASSUME NEW i \in 1..n PROVE b[i + 1] = b[i] + DIV_ROUND_UP(ch[i].len)
  <2>1. i + 1 \in 1..(n + 1) /\ i + 1 # 1 /\ (i + 1) - 1 = i
    OBVIOUS
  <2> QED BY <1>10, <2>1
<1>16. b[1] = 0
  <2>1. 1 \in 1..(n + 1)
    OBVIOUS
  <2> QED BY <1>10, <2>1
<1> QED
    BY <1>9, <1>13, <1>14, <1>15, <1>16 DEF Begins

\* What the k-th chunk puts on the disk.
Puts(ch, k) == IF ch[k].type = "skip" THEN {} ELSE Cells(BlockRead(ch[k], k, BlockOf(ch)[k]))

\* The block that is added for the k-th chunk.
LEMMA ReadBlock ==
    ASSUME NEW ch \in Seq(Chunk), NEW k \in 1..Len(ch), ch[k].type # "skip",
           NEW bb, bb = BlockRead(ch[k], k, BlockOf(ch)[k])
    PROVE  bb \in Block /\ bb.block = BlockOf(ch)[k] /\ EndOf(bb) = BlockOf(ch)[k + 1]
<1> DEFINE n == Len(ch)
           b == BlockOf(ch)
           c == ch[k]
           s == IF c.type = "fill" THEN c.src ELSE c.off
<1>1. n \in Nat /\ \A i \in 1..n : ch[i] \in Chunk
    OBVIOUS
<1>2. \A i \in 1..n : ch[i].len \in Nat
    BY <1>1 DEF Chunk
<1>3. Begins(b, n, ch)
    BY <1>1, <1>2, BlockOfBegins
<1>4. c \in Chunk /\ c.type # "skip"
    BY <1>1
<1>5. b[k] \in Nat /\ b[k + 1] = b[k] + DIV_ROUND_UP(c.len)
  <2>1. k \in 1..n /\ k \in 1..(n + 1)
    BY <1>1
  <2> QED BY <1>3, <2>1 DEF Begins
<1>6. bb = [id |-> k, block |-> b[k], len |-> c.len, type |-> c.type, src |-> s]
    BY DEF BlockRead
<1> HIDE DEF n, b, c
<1>7. c.len \in Nat \ {0} /\ c.type \in {"fd", "fill"} /\ s \in Nat /\ k \in Nat
    BY <1>4 DEF Chunk
<1> HIDE DEF s
<1>8. bb \in Block /\ bb.block = b[k] /\ bb.len = c.len
    BY <1>5, <1>6, <1>7 DEF Block
<1> QED
    BY <1>5, <1>8 DEF EndOf, b

\* The contents of a file grow by a chunk.
LEMMA FileNext ==
    ASSUME NEW ch, NEW k \in Nat \ {0}
    PROVE  FileContents(ch, k) = FileContents(ch, k - 1) \cup Puts(ch, k)
<1> DEFINE C(i) == Cells(BlockRead(ch[i], i, BlockOf(ch)[i]))
           D(m) == {i \in 1..m : ch[i].type # "skip"}
<1>1. \A m : FileContents(ch, m) = UNION {C(i) : i \in D(m)}
    BY DEF FileContents
<1>2. Puts(ch, k) = IF ch[k].type = "skip" THEN {} ELSE C(k)
    BY DEF Puts
<1> HIDE DEF C
<1>3. \A i : i \in D(k) <=> i \in D(k - 1) \/ (i = k /\ ch[k].type # "skip")
    OBVIOUS
<1> HIDE DEF D
<1> QED
    BY <1>1, <1>2, <1>3

\* The first k chunks are before the next one.
LEMMA FileBelow ==
    ASSUME NEW ch \in Seq(Chunk), NEW k \in 0..Len(ch)
    PROVE  \A c \in FileContents(ch, k) : c.block \in Nat /\ c.block < BlockOf(ch)[k + 1]
<1> SUFFICES ASSUME NEW c \in FileContents(ch, k)
             PROVE  c.block \in Nat /\ c.block < BlockOf(ch)[k + 1]
    OBVIOUS
<1> DEFINE n == Len(ch)
           b == BlockOf(ch)
<1>1. PICK i \in 1..k : ch[i].type # "skip" /\ c \in Cells(BlockRead(ch[i], i, b[i]))
    BY DEF FileContents
<1> DEFINE bb == BlockRead(ch[i], i, b[i])
<1>2. i \in 1..n /\ n \in Nat /\ i + 1 \in 1..(n + 1) /\ k + 1 \in 1..(n + 1) /\ i + 1 <= k + 1
    OBVIOUS
<1>3. bb \in Block /\ EndOf(bb) = b[i + 1]
    BY <1>1, <1>2, ReadBlock
<1>4. c \in Cells(bb)
    BY <1>1
<1> HIDE DEF bb
<1>5. c.block < EndOf(bb) /\ c.block \in Nat
    BY <1>3, <1>4, CellsOf
<1>6. \A j \in 1..n : ch[j].len \in Nat
  <2>1. \A j \in 1..n : ch[j] \in Chunk
    OBVIOUS
  <2> QED BY <2>1 DEF Chunk
<1>7. Begins(b, n, ch)
    BY <1>2, <1>6, BlockOfBegins
<1> HIDE DEF b, n
<1>8. b[i + 1] <= b[k + 1] /\ b[i + 1] \in Nat /\ b[k + 1] \in Nat
    BY <1>2, <1>7 DEF Begins
<1>9. c.block \in Nat /\ c.block < b[k + 1]
    BY <1>3, <1>5, <1>8
<1> QED
    BY <1>9 DEF b

\* A turn of the loop that reads the file.
LEMMA ReadList ==
    ASSUME NEW q \in Queue, Apart(q.list), NEW ch \in Seq(Chunk), NEW k \in 1..Len(ch),
           Contents(q.list) \subseteq FileContents(ch, k - 1),
           NEW bb, bb = BlockRead(ch[k], k, BlockOf(ch)[k]), ch[k].type # "skip"
    PROVE  /\ queue_bb(q, bb) \in Queue /\ Apart(queue_bb(q, bb).list)
           /\ Contents(queue_bb(q, bb).list) = Contents(q.list) \cup Cells(bb)
           /\ FileContents(ch, k) = FileContents(ch, k - 1) \cup Cells(bb)
           /\ FileContents(ch, k - 1) \cap Cells(bb) = {}
<1>1. bb \in Block /\ bb.block = BlockOf(ch)[k]
    BY ReadBlock
<1>2. k - 1 \in 0..Len(ch) /\ (k - 1) + 1 = k /\ k \in Nat \ {0}
    OBVIOUS
<1>3. \A c \in FileContents(ch, k - 1) : c.block \in Nat /\ c.block < BlockOf(ch)[(k - 1) + 1]
  <2> DEFINE j == k - 1
  <2>1. j \in 0..Len(ch)
    BY <1>2
  <2> HIDE DEF j
  <2>2. \A c \in FileContents(ch, j) : c.block \in Nat /\ c.block < BlockOf(ch)[j + 1]
    BY <2>1, FileBelow
  <2> QED BY <2>2 DEF j
<1>4. \A d \in Cells(bb) : d.block \in Nat /\ bb.block <= d.block /\ bb.block \in Nat
    BY <1>1, CellsOf
<1>5. q.list \in Seq(Block)
    BY DEF Queue
<1>11. \A c \in FileContents(ch, k - 1), d \in Cells(bb) : c.block # d.block
    BY <1>1, <1>2, <1>3, <1>4
<1>6. \A c \in Contents(q.list), d \in Cells(bb) : c.block # d.block
    BY <1>11
<1>7. Clear(q.list, bb)
    BY <1>1, <1>5, <1>6, ClearOf
<1>8. queue_bb(q, bb) \in Queue /\ Adds(queue_bb(q, bb).list, q.list, bb)
    BY <1>1, <1>7, QueueList
<1>12. FileContents(ch, k - 1) \cap Cells(bb) = {}
    BY <1>11
<1>9. FileContents(ch, k) = FileContents(ch, k - 1) \cup Puts(ch, k)
    BY <1>2, FileNext
<1>10. Puts(ch, k) = Cells(bb)
    BY DEF Puts
<1> QED
    BY <1>8, <1>9, <1>10, <1>12 DEF Adds

-----------------------------------------------------------------------------
(* Writing: the chunks of all blocks, one after the other. *)

\* w is made of the n sequences seqs; the i-th ends at pos[i].
Flattened(w, S, n, seqs, pos) ==
    /\ w \in Seq(S) /\ pos \in [0..n -> Nat] /\ pos[0] = 0 /\ pos[n] = Len(w)
    /\ \A i \in 1..n : pos[i] = pos[i - 1] + Len(seqs[i])
    /\ \A i \in 1..n : \A k \in 1..Len(seqs[i]) : w[pos[i - 1] + k] = seqs[i][k]

\* g[i] is made of the first i of them.
Joins(g, S, n, seqs) ==
    /\ g \in [0..n -> Seq(S)] /\ g[0] = <<>>
    /\ \A i \in 1..n : g[i] = g[i - 1] \o seqs[i]

LEMMA JoinsExist ==
    ASSUME NEW S, NEW n \in Nat, NEW seqs, \A i \in 1..n : seqs[i] \in Seq(S)
    PROVE  \E g : Joins(g, S, n, seqs)
<1> DEFINE V == Seq(S)
           step == [i \in 1..n |-> [v \in V |-> v \o seqs[i]]]
           e == <<>>
<1>1. step \in [1..n -> [V -> V]]
    BY Concat
<1>2. e \in V
    OBVIOUS
<1>3. \A i \in 1..n : \A v \in V : step[i][v] = v \o seqs[i]
    OBVIOUS
<1> HIDE DEF step, V, e
<1>4. PICK g : Recurs(g, n, V, e, step)
    BY <1>1, <1>2, Recursion
<1>5. g \in [0..n -> V] /\ g[0] = e /\ \A i \in 1..n : g[i] = step[i][g[i - 1]]
    BY <1>4 DEF Recurs
<1>6. ASSUME NEW i \in 1..n PROVE g[i] = g[i - 1] \o seqs[i]
  <2>1. i - 1 \in 0..n
    OBVIOUS
  <2>2. g[i - 1] \in V
    BY <1>5, <2>1
  <2> QED BY <1>3, <1>5, <2>2
<1> QED
    BY <1>5, <1>6 DEF Joins, V, e

LEMMA JoinsFlattened ==
    ASSUME NEW S, NEW n \in Nat, NEW seqs, \A i \in 1..n : seqs[i] \in Seq(S),
           NEW g, Joins(g, S, n, seqs)
    PROVE  \E pos : Flattened(g[n], S, n, seqs, pos)
<1> DEFINE pos == [i \in 0..n |-> Len(g[i])]
<1>1. /\ g \in [0..n -> Seq(S)] /\ g[0] = <<>>
      /\ \A i \in 1..n : g[i] = g[i - 1] \o seqs[i]
    BY DEF Joins
<1>2. \A i \in 0..n : g[i] \in Seq(S) /\ Len(g[i]) \in Nat /\ pos[i] = Len(g[i])
    BY <1>1
<1>3. pos \in [0..n -> Nat]
    BY <1>2
<1>4. pos[0] = 0 /\ pos[n] = Len(g[n])
    BY <1>1, <1>2
<1> HIDE DEF pos
<1>5. ASSUME NEW i \in 1..n
      PROVE  /\ i - 1 \in 0..n /\ i \in 0..n
             /\ pos[i] = pos[i - 1] + Len(seqs[i])
             /\ \A k \in 1..pos[i - 1] : g[i][k] = g[i - 1][k]
             /\ \A k \in 1..Len(seqs[i]) : g[i][pos[i - 1] + k] = seqs[i][k]
  <2> DEFINE s == g[i - 1]
             t == seqs[i]
  <2>1. i - 1 \in 0..n /\ i \in 0..n
    OBVIOUS
  <2>2. s \in Seq(S) /\ t \in Seq(S) /\ g[i] = s \o t /\ pos[i - 1] = Len(s) /\ pos[i] = Len(g[i])
    BY <1>1, <1>2, <2>1
  <2> HIDE DEF s, t
  <2>3. /\ Len(s \o t) = Len(s) + Len(t)
        /\ \A k \in 1..Len(s) : (s \o t)[k] = s[k]
        /\ \A k \in (Len(s) + 1)..(Len(s) + Len(t)) : (s \o t)[k] = t[k - Len(s)]
    BY <2>2, Concat
  <2>4. ASSUME NEW k \in 1..Len(t) PROVE (s \o t)[Len(s) + k] = t[k]
    <3>1. Len(s) \in Nat /\ Len(t) \in Nat
      BY <2>2
    <3>2. Len(s) + k \in (Len(s) + 1)..(Len(s) + Len(t)) /\ (Len(s) + k) - Len(s) = k
      BY <3>1
    <3> QED BY <2>3, <3>2
  <2> QED BY <2>1, <2>2, <2>3, <2>4 DEF s, t
<1>6. ASSUME NEW i \in 0..n
      PROVE  \A j \in 0..n : i <= j => pos[i] <= pos[j] /\ \A k \in 1..pos[i] : g[j][k] = g[i][k]
  <2> DEFINE T == {j \in 0..n : i <= j => pos[i] <= pos[j] /\ \A k \in 1..pos[i] : g[j][k] = g[i][k]}
  <2>1. 0 \in T
    BY <1>3
  <2>2. ASSUME NEW j \in 1..n, j - 1 \in T PROVE j \in T
    <3>1. j \in 0..n
      OBVIOUS
    <3>2. CASE ~ (i <= j)
      BY <3>1, <3>2
    <3>3. CASE i = j
      BY <1>3, <3>1, <3>3
    <3>4. CASE i <= j - 1
      <4>1. pos[i] <= pos[j - 1] /\ \A k \in 1..pos[i] : g[j - 1][k] = g[i][k]
        BY <2>2, <3>4
      <4>2. pos[i] \in Nat /\ pos[j - 1] \in Nat /\ pos[j] \in Nat /\ Len(seqs[j]) \in Nat
            /\ pos[j] = pos[j - 1] + Len(seqs[j])
        BY <1>3, <1>5, <3>1
      <4>3. \A k \in 1..pos[i] : k \in 1..pos[j - 1]
        BY <4>1, <4>2
      <4>4. \A k \in 1..pos[i] : g[j][k] = g[i][k]
        BY <1>5, <4>1, <4>3
      <4>5. pos[i] <= pos[j]
        BY <4>1, <4>2
      <4> QED BY <3>1, <4>4, <4>5
    <3> QED BY <3>1, <3>2, <3>3, <3>4
  <2> HIDE DEF T
  <2>3. 0..n \subseteq T
    BY <2>1, <2>2, BoundedInduction
  <2> QED BY <2>3 DEF T
<1>7. ASSUME NEW i \in 1..n, NEW k \in 1..Len(seqs[i]) PROVE g[n][pos[i - 1] + k] = seqs[i][k]
  <2> DEFINE h == pos[i - 1] + k
  <2>1. i \in 0..n /\ i - 1 \in 0..n /\ n \in 0..n /\ i <= n
    OBVIOUS
  <2>2. pos[i - 1] \in Nat /\ pos[i] = pos[i - 1] + Len(seqs[i]) /\ Len(seqs[i]) \in Nat
    BY <1>3, <1>5, <2>1
  <2>3. h \in 1..pos[i]
    BY <2>2
  <2>4. g[i][h] = seqs[i][k]
    BY <1>5
  <2> HIDE DEF h
  <2>5. g[n][h] = g[i][h]
    BY <1>6, <2>1, <2>3
  <2> QED BY <2>4, <2>5 DEF h
<1>8. g[n] \in Seq(S)
    BY <1>2
<1>9. Flattened(g[n], S, n, seqs, pos)
    BY <1>3, <1>4, <1>5, <1>7, <1>8 DEF Flattened
<1> QED
    BY <1>9

LEMMA FlatJoins ==
    ASSUME NEW S, NEW n \in Nat, NEW seqs \in Seq(Seq(S)), Len(seqs) = n
    PROVE  \E g : Joins(g, S, n, seqs) /\ FlattenSeq(seqs) = g[n]
<1>1. \A i \in 1..n : seqs[i] \in Seq(S)
    OBVIOUS
<1>2. PICK g : Joins(g, S, n, seqs)
    BY <1>1, JoinsExist
<1>3. /\ g \in [0..n -> Seq(S)] /\ g[0] = <<>>
      /\ \A i \in 1..n : g[i] = g[i - 1] \o seqs[i]
    BY <1>2 DEF Joins
<1>4. FlattenSeq(seqs) = g[n]
  <2>1. CASE n = 0
    <3>1. seqs = <<>>
      BY <2>1
    <3> QED BY <1>3, <2>1, <3>1 DEF FlattenSeq
  <2>2. CASE n # 0
    <3> DEFINE Rec(f) == f = [i \in 1..n |-> IF i = 1 THEN seqs[i] ELSE f[i - 1] \o seqs[i]]
               h == [i \in 1..n |-> g[i]]
               f == CHOOSE x : Rec(x)
    <3>1. ASSUME NEW i \in 1..n PROVE h[i] = IF i = 1 THEN seqs[i] ELSE h[i - 1] \o seqs[i]
      <4>1. CASE i = 1
        <5>1. i - 1 = 0 /\ g[i] = g[i - 1] \o seqs[i] /\ seqs[i] \in Seq(S)
          <6>1. g[i] = g[i - 1] \o seqs[i] /\ seqs[i] \in Seq(S)
            BY <1>1, <1>3
          <6> QED BY <4>1, <6>1
        <5>2. <<>> \o seqs[i] = seqs[i]
          BY <5>1, ConcatEmptySeq
        <5> QED BY <1>3, <4>1, <5>1, <5>2
      <4>2. CASE i # 1
        <5>1. i - 1 \in 1..n
          BY <4>2
        <5> QED BY <1>3, <4>2, <5>1
      <4> QED BY <4>1, <4>2
    <3>2. Rec(h)
      BY <3>1
    <3>3. Rec(f)
      BY <3>2
    <3>4. FlattenSeq(seqs) = f[n]
      BY <2>2 DEF FlattenSeq
    <3> HIDE DEF f
    <3>5. \A i \in 1..n : f[i] = IF i = 1 THEN seqs[i] ELSE f[i - 1] \o seqs[i]
      BY <3>3
    <3> HIDE DEF Rec
    <3> DEFINE T == {i \in 0..n : i = 0 \/ f[i] = g[i]}
    <3>6. 0 \in T
      OBVIOUS
    <3>7. ASSUME NEW i \in 1..n, i - 1 \in T PROVE i \in T
      <4>1. i \in 0..n
        OBVIOUS
      <4>2. h[i] = g[i]
        OBVIOUS
      <4>3. CASE i = 1
        BY <3>1, <3>5, <4>1, <4>2, <4>3
      <4>4. CASE i # 1
        <5>1. i - 1 \in 1..n /\ i - 1 # 0
          BY <4>4
        <5>2. f[i - 1] = g[i - 1]
          BY <3>7, <5>1
        <5>3. f[i] = f[i - 1] \o seqs[i]
          BY <3>5, <4>4
        <5> QED BY <1>3, <4>1, <5>2, <5>3
      <4> QED BY <4>3, <4>4
    <3> HIDE DEF T
    <3>8. 0..n \subseteq T
      BY <3>6, <3>7, BoundedInduction
    <3>9. n \in T
      BY <3>8
    <3> QED BY <2>2, <3>4, <3>9 DEF T
  <2> QED BY <2>1, <2>2
<1> QED
    BY <1>2, <1>4

LEMMA Flat ==
    ASSUME NEW S, NEW n \in Nat, NEW seqs \in Seq(Seq(S)), Len(seqs) = n
    PROVE  \E pos : Flattened(FlattenSeq(seqs), S, n, seqs, pos)
<1>1. \A i \in 1..n : seqs[i] \in Seq(S)
    OBVIOUS
<1>2. PICK g : Joins(g, S, n, seqs) /\ FlattenSeq(seqs) = g[n]
    BY FlatJoins
<1> QED
    BY <1>1, <1>2, JoinsFlattened

\* A chunk that is written.
Out == [type: {"fd", "fill", "skip"}, len: Nat \ {0}, src: Nat]
Skip(n) == [type |-> "skip", len |-> n, src |-> 0]
Written(bb) == [type |-> bb.type, len |-> ALIGN(bb.len), src |-> bb.src]

\* The blocks before the i-th that nothing was added for.
Gap(l, i) == l[i].block - EndBefore(l, i)

\* The chunk that the i-th block needs, or the two.
Piece(s, l, i) ==
    /\ s \in Seq(Out)
    /\ i \in Gaps(l) => /\ Len(s) = 2 /\ s[1] = Skip(4096 * Gap(l, i)) /\ s[2] = Written(l[i])
    /\ i \notin Gaps(l) => Len(s) = 1 /\ s[1] = Written(l[i])

\* s skips d blocks.
Skips(s, d) ==
    /\ d <= 0 => s = <<>>
    /\ d > 0 => s = <<Skip(4096 * d)>> /\ Skip(4096 * d) \in Out

LEMMA SkipChunk ==
    ASSUME NEW d \in Int
    PROVE  Skips(write_skip_chunk(d * block_size), d)
<1>1. block_size = 4096
    BY DEF block_size
<1>2. d * 4096 = 4096 * d /\ (4096 * d) % 4096 = 0
    OBVIOUS
<1>3. CASE d <= 0
  <2>1. 4096 * d <= 0
    BY <1>3
  <2> QED BY <1>1, <1>2, <1>3, <2>1 DEF write_skip_chunk, Skips
<1>4. CASE d > 0
  <2>1. ~ (4096 * d <= 0) /\ 4096 * d \in Nat \ {0}
    BY <1>4
  <2> DEFINE z == 4096 * d
  <2> HIDE DEF z
  <2>2. z \in Nat \ {0} /\ ~ (z <= 0) /\ z % 4096 = 0 /\ d * block_size = z
    BY <1>1, <1>2, <2>1 DEF z
  <2>3. write_skip_chunk(z) = <<Skip(z)>>
    BY <1>1, <2>2 DEF write_skip_chunk, Skip
  <2>4. Skip(z) \in Out
    BY <2>2 DEF Skip, Out
  <2>5. write_skip_chunk(d * block_size) = <<Skip(4096 * d)>> /\ Skip(4096 * d) \in Out
    BY <2>2, <2>3, <2>4 DEF z
  <2> QED BY <1>4, <2>5 DEF Skips
<1> QED
    BY <1>3, <1>4

\* Where the i-th block and what lies before it begin.
LEMMA GapOf ==
    ASSUME NEW l \in Seq(Block), Apart(l), NEW i \in 1..Len(l)
    PROVE  /\ EndBefore(l, i) \in Nat /\ l[i].block \in Nat /\ Gap(l, i) \in Nat
           /\ EndBefore(l, i) + Gap(l, i) = l[i].block
           /\ i \in Gaps(l) <=> Gap(l, i) > 0
           /\ EndBefore(l, i + 1) = EndOf(l[i]) /\ EndOf(l[i]) \in Nat
<1> DEFINE b == l[i]
           e == EndBefore(l, i)
<1>1. b \in Block /\ i \in DOMAIN l
    OBVIOUS
<1>2. b.block \in Nat /\ EndOf(b) \in Nat
    BY <1>1, CellsOf
<1>3. e \in Nat /\ e <= b.block
  <2>1. CASE i = 1
    BY <1>2, <2>1 DEF EndBefore
  <2>2. CASE i # 1
    <3> DEFINE a == l[i - 1]
    <3>1. i - 1 \in DOMAIN l /\ i - 1 < i /\ a \in Block
      BY <2>2
    <3>2. e = EndOf(a)
      BY <2>2 DEF EndBefore
    <3>3. EndOf(a) <= b.block
      BY <1>1, <3>1 DEF Apart
    <3> HIDE DEF a, b, e
    <3>4. EndOf(a) \in Nat
      BY <3>1, CellsOf
    <3> QED BY <3>2, <3>3, <3>4
  <2> QED BY <2>1, <2>2
<1>4. i \in Gaps(l) <=> b.block > e
    BY <1>1 DEF Gaps
<1>5. EndBefore(l, i + 1) = EndOf(b)
  <2>1. i + 1 # 1 /\ (i + 1) - 1 = i
    OBVIOUS
  <2> QED BY <2>1 DEF EndBefore
<1> HIDE DEF b, e
<1>6. Gap(l, i) = b.block - e
    BY DEF Gap, b, e
<1>7. /\ Gap(l, i) \in Nat /\ e + Gap(l, i) = b.block /\ (Gap(l, i) > 0 <=> b.block > e)
  <2> DEFINE x == b.block
             g == Gap(l, i)
  <2> HIDE DEF x, g
  <2>1. x \in Nat /\ e \in Nat /\ e <= x /\ g = x - e
    BY <1>2, <1>3, <1>6 DEF x, g
  <2>2. g \in Nat /\ e + g = x /\ (g > 0 <=> x > e)
    BY <2>1
  <2> QED BY <2>2 DEF x, g
<1> QED
    BY <1>2, <1>3, <1>4, <1>5, <1>7 DEF b, e

LEMMA PieceOf ==
    ASSUME NEW l \in Seq(Block), Apart(l), NEW i \in 1..Len(l)
    PROVE  Piece(write_skip_chunk((l[i].block - EndBefore(l, i)) * block_size)
                 \o write_data_chunk(l[i]), l, i)
<1> DEFINE d == Gap(l, i)
           a == write_skip_chunk(d * block_size)
           b == write_data_chunk(l[i])
           c == Written(l[i])
<1>1. d \in Nat /\ (i \in Gaps(l) <=> d > 0)
    BY GapOf
<1>2. c \in Out
  <2>1. l[i] \in Block
    OBVIOUS
  <2>2. l[i].type \in {"fd", "fill"} /\ l[i].len \in Nat \ {0} /\ l[i].src \in Nat
    BY <2>1 DEF Block
  <2> DEFINE z == l[i].len
  <2>3. z \in Nat \ {0}
    BY <2>2
  <2> HIDE DEF z
  <2>4. ALIGN(z) \in Nat \ {0}
    BY <2>3 DEF ALIGN, DIV_ROUND_UP, block_size
  <2>5. ALIGN(l[i].len) \in Nat \ {0}
    BY <2>4 DEF z
  <2> QED BY <2>2, <2>5 DEF Written, Out
<1>3. b = <<c>>
    BY DEF write_data_chunk, Written
<1> HIDE DEF c
<1>4. b \in Seq(Out) /\ Len(b) = 1 /\ b[1] = c
    BY <1>2, <1>3
<1>5. (l[i].block - EndBefore(l, i)) * block_size = d * block_size
    BY DEF Gap
<1> HIDE DEF b, d
<1>8. d \in Int /\ Skips(a, d)
    BY <1>1, SkipChunk
<1> HIDE DEF a
<1>6. CASE d = 0
  <2>1. a = <<>>
    BY <1>1, <1>6, <1>8 DEF Skips
  <2>2. a \o b = b
    BY <1>4, <2>1, ConcatEmptySeq
  <2>3. i \notin Gaps(l) /\ b[1] = Written(l[i])
    BY <1>1, <1>4, <1>6 DEF c
  <2>4. Piece(b, l, i)
    BY <1>4, <2>3 DEF Piece
  <2> QED BY <1>5, <2>2, <2>4 DEF a, b
<1>7. CASE d > 0
  <2> DEFINE e == Skip(4096 * d)
  <2>1. a = <<e>> /\ e \in Out
    BY <1>1, <1>7, <1>8 DEF Skips
  <2> HIDE DEF e, a
  <2>2. a \in Seq(Out) /\ Len(a) = 1 /\ a[1] = e
    BY <2>1
  <2>3. /\ a \o b \in Seq(Out) /\ Len(a \o b) = Len(a) + Len(b)
        /\ \A k \in 1..Len(a) : (a \o b)[k] = a[k]
        /\ \A k \in (Len(a) + 1)..(Len(a) + Len(b)) : (a \o b)[k] = b[k - Len(a)]
    BY <1>4, <2>2, Concat
  <2>4. Len(a \o b) = 2 /\ (a \o b)[1] = e /\ (a \o b)[2] = c
    <3>1. 1 \in 1..Len(a) /\ 2 \in (Len(a) + 1)..(Len(a) + Len(b)) /\ 2 - Len(a) = 1
      BY <1>4, <2>2
    <3>2. Len(a) + Len(b) = 2
      BY <1>4, <2>2
    <3> QED BY <1>4, <2>2, <2>3, <3>1, <3>2
  <2>5. Piece(a \o b, l, i)
    BY <1>1, <1>7, <2>3, <2>4 DEF Piece, c, e, d
  <2> QED BY <1>5, <2>5 DEF a, b
<1> QED
    BY <1>1, <1>6, <1>7

\* w is what write_all_blocks() makes of l; the chunk of its i-th block is at pos[i].
Layout(w, l, len, pos) ==
    /\ w \in Seq(Out) /\ pos \in [0..Len(l) -> Nat] /\ pos[0] = 0
    /\ \A i \in 1..Len(l) :
          /\ pos[i] = pos[i - 1] + (IF i \in Gaps(l) THEN 2 ELSE 1)
          /\ w[pos[i]] = Written(l[i])
          /\ i \in Gaps(l) => w[pos[i - 1] + 1] = Skip(4096 * Gap(l, i))
    /\ LET t == write_skip_chunk(Pad(l, len)) IN
       /\ t \in Seq(Out) /\ Len(t) <= 1 /\ (Len(t) = 1 => t[1] = Skip(Pad(l, len)))
       /\ Len(w) = pos[Len(l)] + Len(t)
       /\ Len(t) = 1 => w[Len(w)] = Skip(Pad(l, len))

LEMMA LayoutOf ==
    ASSUME NEW l \in Seq(Block), Apart(l), NEW len \in Int
    PROVE  \E pos : Layout(write_all_blocks(l, len), l, len, pos)
<1> DEFINE n == Len(l)
           seqs == [i \in DOMAIN l |->
                      write_skip_chunk((l[i].block - EndBefore(l, i)) * block_size)
                      \o write_data_chunk(l[i])]
           v == FlattenSeq(seqs)
           t == write_skip_chunk(Pad(l, len))
           w == v \o t
<1>1. n \in Nat /\ DOMAIN l = 1..n
    OBVIOUS
<1>2. \A i \in 1..n : Piece(seqs[i], l, i)
    BY <1>1, PieceOf
<1>3. seqs \in Seq(Seq(Out)) /\ Len(seqs) = n
  <2>2. seqs = [i \in 1..n |-> seqs[i]]
    BY <1>1
  <2> HIDE DEF seqs
  <2>1. \A i \in 1..n : seqs[i] \in Seq(Out)
    BY <1>2 DEF Piece
  <2>3. seqs \in [1..n -> Seq(Out)]
    BY <2>1, <2>2
  <2> QED BY <1>1, <2>3
<1>4. write_all_blocks(l, len) = w
    BY DEF write_all_blocks
<1> HIDE DEF seqs
<1>5. PICK pos : Flattened(v, Out, n, seqs, pos)
    BY <1>1, <1>3, Flat
<1> HIDE DEF v
<1>6. /\ v \in Seq(Out) /\ pos \in [0..n -> Nat] /\ pos[0] = 0 /\ pos[n] = Len(v)
      /\ \A i \in 1..n : pos[i] = pos[i - 1] + Len(seqs[i])
      /\ \A i \in 1..n : \A k \in 1..Len(seqs[i]) : v[pos[i - 1] + k] = seqs[i][k]
    BY <1>5 DEF Flattened
<1> DEFINE p == Pad(l, len)
<1>7. p \in Int
  <2>1. EndBefore(l, n + 1) \in Nat
    <3>1. CASE n = 0
      BY <3>1 DEF EndBefore
    <3>2. CASE n # 0
      <4>1. n \in 1..Len(l)
        BY <1>1, <3>2
      <4> QED BY <4>1, GapOf
    <3> QED BY <3>1, <3>2
  <2>2. p = len - EndBefore(l, n + 1) * 4096
    BY DEF Pad, block_size
  <2> HIDE DEF p, n
  <2> QED BY <2>1, <2>2
<1> HIDE DEF p
<1>8. t \in Seq(Out) /\ Len(t) <= 1 /\ (Len(t) = 1 => t[1] = Skip(p))
  <2>1. t = IF p <= 0 \/ p % 4096 # 0 THEN <<>> ELSE <<Skip(p)>>
    BY DEF write_skip_chunk, block_size, Skip, p
  <2>2. CASE p <= 0 \/ p % 4096 # 0
    BY <2>1, <2>2
  <2>3. CASE ~ (p <= 0 \/ p % 4096 # 0)
    <3>1. Skip(p) \in Out
      BY <1>7, <2>3 DEF Skip, Out
    <3> HIDE DEF t
    <3> QED BY <2>1, <2>3, <3>1
  <2> QED BY <2>2, <2>3
<1> HIDE DEF t
<1>9. /\ w \in Seq(Out) /\ Len(w) = Len(v) + Len(t)
      /\ \A k \in 1..Len(v) : w[k] = v[k]
      /\ \A k \in (Len(v) + 1)..(Len(v) + Len(t)) : w[k] = t[k - Len(v)]
    BY <1>6, <1>8, Concat
<1> HIDE DEF w
<1>10. Len(v) \in Nat /\ Len(t) \in Nat
    BY <1>6, <1>8
<1>11. ASSUME Len(t) = 1 PROVE w[Len(w)] = Skip(p)
  <2>1. Len(w) \in (Len(v) + 1)..(Len(v) + Len(t)) /\ Len(w) - Len(v) = 1
    BY <1>9, <1>10, <1>11
  <2> QED BY <1>8, <1>9, <1>11, <2>1
<1>12. \A i \in 0..n : pos[i] <= Len(v)
  <2> DEFINE a == [i \in 1..n |-> Len(seqs[i])]
             z == Len(v)
  <2>1. a \in [1..n -> Nat]
    BY <1>3
  <2>2. Sums(pos, n, 0, a)
    BY <1>6 DEF Sums
  <2> HIDE DEF a
  <2>3. \A i, j \in 0..n : i <= j => pos[i] <= pos[j]
    BY <1>1, <2>1, <2>2, SumsGrow
  <2> QED BY <1>1, <1>6, <2>3
<1>13. ASSUME NEW i \in 1..n
       PROVE  /\ pos[i] = pos[i - 1] + (IF i \in Gaps(l) THEN 2 ELSE 1)
              /\ w[pos[i]] = Written(l[i])
              /\ i \in Gaps(l) => w[pos[i - 1] + 1] = Skip(4096 * Gap(l, i))
  <2> DEFINE s == seqs[i]
             j == pos[i - 1]
  <2>1. j \in Nat /\ pos[i] \in Nat /\ pos[i] = j + Len(s) /\ pos[i] <= Len(v)
    <3>1. i - 1 \in 0..n /\ i \in 0..n
      BY <1>1
    <3> QED BY <1>6, <1>12, <3>1
  <2>2. \A k \in 1..Len(s) : v[j + k] = s[k]
    BY <1>6
  <2>3. Piece(s, l, i)
    BY <1>2
  <2> HIDE DEF s, j
  <2>4. CASE i \in Gaps(l)
    <3>1. Len(s) = 2 /\ s[1] = Skip(4096 * Gap(l, i)) /\ s[2] = Written(l[i])
      BY <2>3, <2>4 DEF Piece
    <3>2. pos[i] = j + 2 /\ 1 \in 1..Len(s) /\ 2 \in 1..Len(s)
          /\ j + 1 \in 1..Len(v) /\ j + 2 \in 1..Len(v)
      BY <1>10, <2>1, <3>1
    <3>3. w[j + 1] = s[1] /\ w[j + 2] = s[2]
      BY <1>9, <2>2, <3>2
    <3> QED BY <2>4, <3>1, <3>2, <3>3 DEF j
  <2>5. CASE i \notin Gaps(l)
    <3>1. Len(s) = 1 /\ s[1] = Written(l[i])
      BY <2>3, <2>5 DEF Piece
    <3>2. pos[i] = j + 1 /\ 1 \in 1..Len(s) /\ j + 1 \in 1..Len(v)
      BY <1>10, <2>1, <3>1
    <3>3. w[j + 1] = s[1]
      BY <1>9, <2>2, <3>2
    <3> QED BY <2>5, <3>1, <3>2, <3>3 DEF j
  <2> QED BY <2>4, <2>5
<1>14. Layout(w, l, len, pos)
    BY <1>6, <1>8, <1>9, <1>11, <1>13 DEF Layout, t, p
<1> QED
    BY <1>4, <1>14

\* Positions rise, and are positions of w.
LEMMA LayoutRises ==
    ASSUME NEW l \in Seq(Block), NEW len, NEW w, NEW pos, Layout(w, l, len, pos)
    PROVE  /\ Len(w) \in Nat /\ pos[Len(l)] <= Len(w) /\ Len(w) <= pos[Len(l)] + 1
           /\ \A i, j \in 0..Len(l) : i <= j => pos[i] <= pos[j]
           /\ \A i \in 1..Len(l) : pos[i] \in 1..Len(w) /\ pos[i - 1] \in 0..(Len(w) - 1)
           /\ \A i \in 1..Len(l) : i \in Gaps(l) => pos[i - 1] + 1 \in 1..(Len(w) - 1)
<1> DEFINE n == Len(l)
           a == [i \in 1..n |-> IF i \in Gaps(l) THEN 2 ELSE 1]
<1>1. n \in Nat /\ a \in [1..n -> Nat]
    OBVIOUS
<1>2. /\ w \in Seq(Out) /\ pos \in [0..n -> Nat] /\ pos[0] = 0
      /\ \A i \in 1..n : pos[i] = pos[i - 1] + a[i]
    BY DEF Layout
<1>3. PICK t : Len(w) = pos[n] + Len(t) /\ Len(t) <= 1 /\ t \in Seq(Out)
    BY DEF Layout
<1>4. \A i \in 1..n : (i \in Gaps(l) => a[i] = 2) /\ (i \notin Gaps(l) => a[i] = 1)
    OBVIOUS
<1> HIDE DEF a
<1>5. Sums(pos, n, 0, a)
    BY <1>2 DEF Sums
<1>6. \A i, j \in 0..n : i <= j => pos[i] <= pos[j]
    BY <1>1, <1>5, SumsGrow
<1> HIDE DEF n
<1>7. Len(t) \in Nat /\ pos[n] \in Nat /\ Len(w) \in Nat
    BY <1>1, <1>2, <1>3
<1>8. pos[n] <= Len(w) /\ Len(w) <= pos[n] + 1
    BY <1>3, <1>7
<1>9. ASSUME NEW i \in 1..n
      PROVE  /\ pos[i] \in 1..Len(w) /\ pos[i - 1] \in 0..(Len(w) - 1)
             /\ i \in Gaps(l) => pos[i - 1] + 1 \in 1..(Len(w) - 1)
  <2> DEFINE x == pos[i - 1]
             y == pos[i]
             z == pos[n]
             m == Len(w)
  <2>1. i - 1 \in 0..n /\ i \in 0..n /\ n \in 0..n /\ i <= n
    BY <1>1
  <2>2. x \in Nat /\ y \in Nat /\ z \in Nat /\ y <= z /\ z <= m /\ m \in Nat /\ y = x + a[i]
    BY <1>2, <1>6, <1>7, <1>8, <2>1
  <2> HIDE DEF x, y, z, m
  <2>3. CASE i \in Gaps(l)
    <3>1. y = x + 2
      BY <1>4, <2>2, <2>3
    <3>2. y \in 1..m /\ x \in 0..(m - 1) /\ x + 1 \in 1..(m - 1)
      BY <2>2, <3>1
    <3> QED BY <3>2 DEF x, y, m
  <2>4. CASE i \notin Gaps(l)
    <3>1. y = x + 1
      BY <1>4, <2>2, <2>4
    <3>2. y \in 1..m /\ x \in 0..(m - 1)
      BY <2>2, <3>1
    <3> QED BY <2>4, <3>2 DEF x, y, m
  <2> QED BY <2>3, <2>4
<1> QED
    BY <1>6, <1>7, <1>8, <1>9 DEF n

\* Every chunk skips, or is that of a block.
LEMMA LayoutCovers ==
    ASSUME NEW l \in Seq(Block), NEW len, NEW w, NEW pos, Layout(w, l, len, pos)
    PROVE  \A k \in 1..Len(w) : w[k].type = "skip" \/ \E i \in 1..Len(l) : k = pos[i]
<1> DEFINE n == Len(l)
           T == {i \in 0..n : \A k \in 1..pos[i] : w[k].type = "skip" \/ \E j \in 1..n : k = pos[j]}
<1>1. n \in Nat /\ pos \in [0..n -> Nat] /\ pos[0] = 0
    BY DEF Layout
<1>2. 0 \in T
    BY <1>1
<1>3. ASSUME NEW i \in 1..n, i - 1 \in T PROVE i \in T
  <2> SUFFICES ASSUME NEW k \in 1..pos[i]
               PROVE  w[k].type = "skip" \/ \E j \in 1..n : k = pos[j]
    BY <1>1
  <2>1. i - 1 \in 0..n /\ pos[i - 1] \in Nat /\ pos[i] \in Nat
    BY <1>1
  <2>2. CASE k <= pos[i - 1]
    <3>1. k \in 1..pos[i - 1]
      BY <2>1, <2>2
    <3> QED BY <1>3, <3>1
  <2>3. CASE k = pos[i]
    BY <2>3
  <2>4. CASE k > pos[i - 1] /\ k # pos[i]
    <3>1. pos[i] = pos[i - 1] + (IF i \in Gaps(l) THEN 2 ELSE 1)
          /\ (i \in Gaps(l) => w[pos[i - 1] + 1] = Skip(4096 * Gap(l, i)))
      BY DEF Layout
    <3>2. i \in Gaps(l)
      BY <2>1, <2>4, <3>1
    <3>3. pos[i] = pos[i - 1] + 2 /\ w[pos[i - 1] + 1] = Skip(4096 * Gap(l, i))
      BY <3>1, <3>2
    <3>4. k = pos[i - 1] + 1
      BY <2>1, <2>4, <3>3, SMTT(60)
    <3>5. w[k].type = "skip"
      BY <3>3, <3>4 DEF Skip
    <3> QED BY <3>5
  <2> QED BY <2>1, <2>2, <2>3, <2>4
<1> HIDE DEF T
<1>4. 0..n \subseteq T
    BY <1>1, <1>2, <1>3, BoundedInduction
<1>5. \A k \in 1..pos[n] : w[k].type = "skip" \/ \E j \in 1..n : k = pos[j]
    BY <1>1, <1>4 DEF T
<1> SUFFICES ASSUME NEW k \in 1..Len(w), ~ (k <= pos[n]) PROVE w[k].type = "skip"
    BY <1>1, <1>5
<1>6. pos[n] \in Nat /\ Len(w) \in Nat /\ Len(w) <= pos[n] + 1
    BY <1>1, LayoutRises
<1>7. k = Len(w) /\ Len(w) = pos[n] + 1
    BY <1>6
<1> DEFINE t == write_skip_chunk(Pad(l, len))
<1>8. /\ t \in Seq(Out) /\ Len(w) = pos[n] + Len(t)
      /\ (Len(t) = 1 => w[Len(w)] = Skip(Pad(l, len)))
    BY DEF Layout
<1> HIDE DEF t
<1>9. Len(t) = 1
  <2>1. Len(t) \in Nat
    BY <1>8
  <2> DEFINE x == pos[n]
             y == Len(w)
             z == Len(t)
  <2> HIDE DEF x, y, z
  <2>2. x \in Nat /\ y = x + 1 /\ y = x + z /\ z \in Nat
    BY <1>6, <1>7, <1>8, <2>1 DEF x, y, z
  <2>3. z = 1
    BY <2>2
  <2> QED BY <2>3 DEF z
<1> QED
    BY <1>7, <1>8, <1>9 DEF Skip

\* Reading what was written finds every block where it was.
LEMMA LayoutBlocks ==
    ASSUME NEW l \in Seq(Block), Apart(l), NEW len, NEW w, NEW pos, Layout(w, l, len, pos),
           NEW ch, Len(ch) = Len(w), \A k \in 1..Len(w) : ch[k].len = w[k].len
    PROVE  \A i \in 1..Len(l) : BlockOf(ch)[pos[i]] = l[i].block
<1> DEFINE n == Len(l)
           m == Len(w)
           b == BlockOf(ch)
           T == {i \in 0..n : b[pos[i] + 1] = EndBefore(l, i + 1)}
<1>1. n \in Nat /\ pos \in [0..n -> Nat] /\ pos[0] = 0 /\ m \in Nat
    BY LayoutRises DEF Layout
<1>2. \A k \in 1..m : w[k] \in Out
    BY DEF Layout
<1>3. Begins(b, m, ch)
  <2>1. \A k \in 1..m : ch[k].len \in Nat
    BY <1>2 DEF Out
  <2> QED BY <1>1, <2>1, BlockOfBegins
<1>4. \A k \in 1..m : b[k + 1] = b[k] + DIV_ROUND_UP(w[k].len) /\ b[k] \in Nat
  <2> SUFFICES ASSUME NEW k \in 1..m
               PROVE  b[k + 1] = b[k] + DIV_ROUND_UP(w[k].len) /\ b[k] \in Nat
    OBVIOUS
  <2>1. k \in 1..(m + 1)
    BY <1>1
  <2>2. ch[k].len = w[k].len
    OBVIOUS
  <2> HIDE DEF b
  <2> QED BY <1>3, <2>1, <2>2 DEF Begins
<1>5. b[1] = 0
    BY <1>3 DEF Begins
<1> HIDE DEF b, m
<1>6. ASSUME NEW i \in 1..n, i - 1 \in T PROVE i \in T /\ b[pos[i]] = l[i].block
  <2> DEFINE x == pos[i - 1]
             y == pos[i]
             e == EndBefore(l, i)
             g == Gap(l, i)
             a == l[i].block
             z == l[i].len
  <2>1. /\ e \in Nat /\ a \in Nat /\ g \in Nat /\ e + g = a /\ (i \in Gaps(l) <=> g > 0)
        /\ EndBefore(l, i + 1) = EndOf(l[i])
    BY GapOf
  <2>2. i - 1 \in 0..n /\ i \in 0..n /\ (i - 1) + 1 = i
    BY <1>1
  <2>3. b[x + 1] = e
    BY <1>6, <2>2
  <2>4. y \in 1..m /\ x \in 0..(m - 1) /\ (i \in Gaps(l) => x + 1 \in 1..(m - 1))
    BY LayoutRises DEF m
  <2>5. /\ y = x + (IF i \in Gaps(l) THEN 2 ELSE 1) /\ w[y] = Written(l[i])
        /\ (i \in Gaps(l) => w[x + 1] = Skip(4096 * g))
    BY DEF Layout
  <2>6. l[i] \in Block /\ z \in Nat /\ EndOf(l[i]) = a + DIV_ROUND_UP(z)
    <3>1. l[i] \in Block
      OBVIOUS
    <3>2. z \in Nat
      BY <3>1 DEF Block
    <3> QED BY <3>1, <3>2 DEF EndOf
  <2>7. w[y].len = ALIGN(z)
    BY <2>5 DEF Written
  <2> HIDE DEF x, y, e, g, a, z
  <2>8. b[y] = a
    <3>1. CASE i \in Gaps(l)
      <4>1. y = x + 2 /\ w[x + 1] = Skip(4096 * g) /\ x + 1 \in 1..m /\ (x + 1) + 1 = y
        BY <1>1, <2>4, <2>5, <3>1
      <4> DEFINE v == 4096 * g
                 d == DIV_ROUND_UP(v)
      <4>2. w[x + 1].len = v
        BY <4>1 DEF Skip
      <4>3. d = g
        BY <2>1, WholeBlocks
      <4>4. b[(x + 1) + 1] = b[x + 1] + DIV_ROUND_UP(w[x + 1].len)
        BY <1>4, <4>1
      <4> HIDE DEF v
      <4>5. b[y] = e + d
        BY <2>3, <4>1, <4>2, <4>4
      <4> HIDE DEF d
      <4> QED BY <2>1, <4>3, <4>5
    <3>2. CASE i \notin Gaps(l)
      <4>1. y = x + 1
        BY <2>5, <3>2
      <4>2. e = a
        BY <2>1, <3>2
      <4> QED BY <2>3, <4>1, <4>2
    <3> QED BY <3>1, <3>2
  <2>9. DIV_ROUND_UP(ALIGN(z)) = DIV_ROUND_UP(z)
    BY <2>6, Aligned
  <2>10. b[y + 1] = a + DIV_ROUND_UP(z)
    BY <1>4, <2>4, <2>7, <2>8, <2>9
  <2>11. b[y + 1] = EndBefore(l, i + 1)
    BY <2>1, <2>6, <2>10
  <2> QED BY <2>2, <2>8, <2>11 DEF y, a
<1>7. 0 \in T
  <2>1. 0 \in 0..n /\ pos[0] + 1 = 1 /\ 0 + 1 = 1
    BY <1>1
  <2>2. EndBefore(l, 1) = 0
    BY DEF EndBefore
  <2> QED BY <1>5, <2>1, <2>2
<1> HIDE DEF T, n
<1>8. 0..n \subseteq T
    BY <1>1, <1>6, <1>7, BoundedInduction
<1>9. \A i \in 1..n : i - 1 \in T
    BY <1>1, <1>8
<1>10. \A i \in 1..n : b[pos[i]] = l[i].block
    BY <1>6, <1>9
<1> QED
    BY <1>10 DEF b, n

\* A block of which the last part is padded, and a cell of it.
Padded(bb) == [bb EXCEPT !.len = ALIGN(@)]
PadCell(c) == [block |-> c.block, type |-> c.type, src |-> c.src, bytes |-> 4096]

\* Blocks that differ in nothing but their identity have the same cells.
LEMMA CellsSame ==
    ASSUME NEW a, NEW b, a.block = b.block, a.len = b.len, a.type = b.type, a.src = b.src
    PROVE  Cells(a) = Cells(b)
<1>1. EndOf(a) = EndOf(b)
    BY DEF EndOf
<1>2. \A k : CellAt(a, k) = CellAt(b, k)
    BY <1>1 DEF CellAt
<1>3. /\ Cells(a) = {CellAt(a, k) : k \in a.block..(EndOf(a) - 1)}
      /\ Cells(b) = {CellAt(b, k) : k \in b.block..(EndOf(b) - 1)}
    BY DEF Cells, CellAt
<1> QED
    BY <1>1, <1>2, <1>3

LEMMA PadCells ==
    ASSUME NEW bb \in Block, NEW p, p.block = bb.block, p.len = ALIGN(bb.len),
           p.type = bb.type, p.src = bb.src
    PROVE  Cells(p) = {PadCell(c) : c \in Cells(bb)}
<1> DEFINE d == DIV_ROUND_UP(bb.len)
           b == bb.block
           n == bb.len
           e == EndOf(bb)
<1>1. b \in Nat /\ n \in Nat
    BY DEF Block
<1>2. DIV_ROUND_UP(ALIGN(n)) = d /\ ALIGN(n) = 4096 * d
    BY <1>1, Aligned
<1>3. d \in Nat
  <2> HIDE DEF n
  <2>1. DIV_ROUND_UP(n) \in Nat
    BY <1>1 DEF DIV_ROUND_UP, block_size
  <2> QED BY <2>1 DEF n
<1>4. e = b + d /\ EndOf(p) = e
    BY <1>2 DEF EndOf
<1>5. /\ Cells(p) = {CellAt(p, k) : k \in b..(e - 1)}
      /\ Cells(bb) = {CellAt(bb, k) : k \in b..(e - 1)}
    BY <1>4 DEF Cells, CellAt
<1>6. ASSUME NEW k \in b..(e - 1) PROVE CellAt(p, k) = PadCell(CellAt(bb, k))
  <2> DEFINE s == IF bb.type = "fill" THEN bb.src ELSE bb.src + (k - bb.block) * block_size
             x == IF k + 1 = EndOf(bb) THEN bb.len - (k - bb.block) * block_size ELSE block_size
             y == IF k + 1 = e THEN 4096 * d - (k - b) * 4096 ELSE 4096
  <2>1. CellAt(bb, k) = [block |-> k, type |-> bb.type, src |-> s, bytes |-> x]
    BY DEF CellAt
  <2>2. CellAt(p, k) = [block |-> k, type |-> bb.type, src |-> s, bytes |-> y]
    BY <1>2, <1>4 DEF CellAt, block_size
  <2> HIDE DEF s, x, b, d, e
  <2>3. y = 4096
    BY <1>1, <1>3, <1>4
  <2> HIDE DEF y
  <2> QED BY <2>1, <2>2, <2>3 DEF PadCell
<1> HIDE DEF b, e
<1> QED
    BY <1>5, <1>6

\* Reading an image that was written finds what the list has, padded.
LEMMA WrittenContents ==
    ASSUME NEW l \in Seq(Block), Apart(l), NEW len, NEW w, NEW pos, Layout(w, l, len, pos),
           NEW ch, Len(ch) = Len(w),
           \A k \in 1..Len(w) : /\ ch[k].len = w[k].len /\ ch[k].type = w[k].type
                                /\ ch[k].src = w[k].src /\ ch[k].off = w[k].src
    PROVE  FileContents(ch, Len(ch)) = {PadCell(c) : c \in Contents(l)}
<1> DEFINE n == Len(l)
           m == Len(w)
           b == BlockOf(ch)
           R(k) == BlockRead(ch[k], k, b[k])
<1>1. /\ n \in Nat /\ m \in Nat /\ \A i \in 1..n : pos[i] \in 1..m /\ w[pos[i]] = Written(l[i])
  <2>1. m \in Nat /\ \A i \in 1..n : pos[i] \in 1..m
    BY LayoutRises
  <2>2. \A i \in 1..n : w[pos[i]] = Written(l[i])
    <3>1. Layout(w, l, len, pos)
      OBVIOUS
    <3> QED BY ONLY <3>1 DEF Layout
  <2> QED BY <2>1, <2>2
<1>2. \A i \in 1..n : b[pos[i]] = l[i].block
    BY LayoutBlocks
<1>3. \A k \in 1..m : w[k].type = "skip" \/ \E i \in 1..n : k = pos[i]
    BY LayoutCovers
<1>4. FileContents(ch, m) = UNION {Cells(R(k)) : k \in {j \in 1..m : ch[j].type # "skip"}}
    BY DEF FileContents
<1> HIDE DEF b
<1>5. ASSUME NEW i \in 1..n
      PROVE  ch[pos[i]].type # "skip" /\ Cells(R(pos[i])) = {PadCell(c) : c \in Cells(l[i])}
  <2> DEFINE k == pos[i]
             a == l[i]
             r == R(k)
  <2>1. a \in Block
    BY <1>1
  <2>2. k \in 1..m /\ w[k] = Written(a) /\ b[k] = a.block
    BY <1>1, <1>2
  <2>3. ch[k].len = w[k].len /\ ch[k].type = w[k].type /\ ch[k].src = w[k].src /\ ch[k].off = w[k].src
    BY <2>2
  <2>4. r.block = b[k] /\ r.len = ch[k].len /\ r.type = ch[k].type
        /\ r.src = IF ch[k].type = "fill" THEN ch[k].src ELSE ch[k].off
    BY DEF BlockRead
  <2> HIDE DEF k, a, r
  <2>5. w[k].len = ALIGN(a.len) /\ w[k].type = a.type /\ w[k].src = a.src
    BY <2>2 DEF Written
  <2>6. r.block = a.block /\ r.len = ALIGN(a.len) /\ r.type = a.type /\ r.src = a.src
    BY <2>2, <2>3, <2>4, <2>5
  <2>7. Cells(r) = {PadCell(c) : c \in Cells(a)}
    BY <2>1, <2>6, PadCells
  <2>8. a.type # "skip"
    BY <2>1 DEF Block
  <2> QED BY <2>3, <2>5, <2>7, <2>8 DEF k, a, r
<1> HIDE DEF R, n, m
<1>6. ASSUME NEW x \in FileContents(ch, m) PROVE x \in {PadCell(c) : c \in Contents(l)}
  <2>1. PICK k \in 1..m : ch[k].type # "skip" /\ x \in Cells(R(k))
    BY <1>4
  <2>2. w[k].type # "skip"
    BY <2>1 DEF m
  <2>3. PICK i \in 1..n : k = pos[i]
    BY <1>3, <2>2
  <2>4. PICK c \in Cells(l[i]) : x = PadCell(c)
    BY <1>5, <2>1, <2>3
  <2>5. c \in Contents(l)
    BY <2>4, ContentsOf DEF n
  <2> QED BY <2>4, <2>5
<1>7. ASSUME NEW c \in Contents(l) PROVE PadCell(c) \in FileContents(ch, m)
  <2>1. PICK i \in 1..n : c \in Cells(l[i])
    BY ContentsOf DEF n
  <2>2. PadCell(c) \in Cells(R(pos[i])) /\ ch[pos[i]].type # "skip" /\ pos[i] \in 1..m
    BY <1>1, <1>5, <2>1
  <2> QED BY <1>4, <2>2
<1>8. FileContents(ch, m) = {PadCell(c) : c \in Contents(l)}
    BY <1>6, <1>7
<1> QED
    BY <1>8 DEF m

-----------------------------------------------------------------------------
(* The size of a sparse file. *)

\* The bytes of the chunks that are written.
Bytes(w) == [i \in 1..Len(w) |-> ChunkBytes(w[i])]

LEMMA OutBytes ==
    ASSUME NEW c \in Out
    PROVE  /\ ChunkBytes(c) \in Nat /\ (c.type = "skip" => ChunkBytes(c) = 12)
<1>1. c.type \in {"fd", "fill", "skip"} /\ c.len \in Nat
    BY DEF Out
<1>2. ALIGN(c.len) \in Nat
    BY <1>1, Aligned
<1>3. CASE c.type = "skip"
    BY <1>3 DEF ChunkBytes, ChunkLen
<1>4. CASE c.type = "fill"
    BY <1>4 DEF ChunkBytes, ChunkLen
<1>5. CASE c.type = "fd"
  <2>1. ChunkBytes(c) = 12 + ALIGN(c.len)
    BY <1>5 DEF ChunkBytes, ChunkLen
  <2> QED BY <1>2, <1>5, <2>1
<1> QED
    BY <1>1, <1>3, <1>4, <1>5

LEMMA SizeUpToSums ==
    ASSUME NEW w \in Seq(Out)
    PROVE  Sums(SizeUpTo(w), Len(w), 28, Bytes(w)) /\ Bytes(w) \in [1..Len(w) -> Nat]
<1> DEFINE n == Len(w)
           Size(f) == f = [i \in 0..n |-> IF i = 0 THEN 28 ELSE f[i - 1] + ChunkBytes(w[i])]
           size == CHOOSE f : Size(f)
<1>1. n \in Nat /\ Bytes(w) \in [1..n -> Nat] /\ \A i \in 1..n : Bytes(w)[i] = ChunkBytes(w[i])
    BY OutBytes DEF Bytes
<1>2. PICK g : Sums(g, n, 28, Bytes(w))
    BY <1>1, SumsExist
<1>3. g = [i \in 0..n |-> IF i = 0 THEN 28 ELSE g[i - 1] + ChunkBytes(w[i])]
  <2>1. \A i \in 0..n : g[i] = IF i = 0 THEN 28 ELSE g[i - 1] + ChunkBytes(w[i])
    <3> SUFFICES ASSUME NEW i \in 0..n
                 PROVE  g[i] = IF i = 0 THEN 28 ELSE g[i - 1] + ChunkBytes(w[i])
      OBVIOUS
    <3>1. CASE i = 0
      BY <1>2, <3>1 DEF Sums
    <3>2. CASE i # 0
      <4>1. i \in 1..n
        BY <1>1, <3>2
      <4> QED BY <1>1, <1>2, <3>2, <4>1 DEF Sums
    <3> QED BY <3>1, <3>2
  <2>2. g \in [0..n -> Nat]
    BY <1>2 DEF Sums
  <2> QED BY <2>1, <2>2
<1>4. Size(size)
    BY <1>3
<1>5. SizeUpTo(w) = size
    BY DEF SizeUpTo, HeaderLen
<1> HIDE DEF size
<1>6. DOMAIN size = 0..n /\ \A i \in 0..n : size[i] = IF i = 0 THEN 28 ELSE size[i - 1] + ChunkBytes(w[i])
    BY <1>4
<1> HIDE DEF Size
<1>7. size[0] = 28
    BY <1>1, <1>6
<1>8. \A i \in 1..n : size[i] = size[i - 1] + Bytes(w)[i]
  <2> SUFFICES ASSUME NEW i \in 1..n PROVE size[i] = size[i - 1] + Bytes(w)[i]
    OBVIOUS
  <2>1. i \in 0..n /\ i # 0
    BY <1>1
  <2> QED BY <1>1, <1>6, <2>1
<1>9. \A i \in 0..n : size[i] \in Nat
  <2> DEFINE T == {i \in 0..n : size[i] \in Nat}
  <2>1. 0 \in T
    BY <1>1, <1>7
  <2>2. ASSUME NEW i \in 1..n, i - 1 \in T PROVE i \in T
    BY <1>1, <1>8, <2>2
  <2> HIDE DEF T
  <2>3. 0..n \subseteq T
    BY <1>1, <2>1, <2>2, BoundedInduction
  <2> QED BY <2>3 DEF T
<1>10. size \in [0..n -> Nat]
  <2>1. size = [i \in 0..n |-> size[i]]
    BY <1>4, <1>6 DEF Size
  <2> QED BY <1>9, <2>1
<1> QED
    BY <1>1, <1>5, <1>7, <1>8, <1>10 DEF Sums

\* How many of the first i blocks have a gap before them.
Skipped(l, i) == Cardinality({j \in Gaps(l) : j <= i})

LEMMA SkippedNext ==
    ASSUME NEW l \in Seq(Block)
    PROVE  /\ Skipped(l, 0) = 0 /\ Skipped(l, Len(l)) = Cardinality(Gaps(l))
           /\ \A i \in 0..Len(l) : Skipped(l, i) \in Nat
           /\ \A i \in 1..Len(l) :
                 Skipped(l, i) = Skipped(l, i - 1) + (IF i \in Gaps(l) THEN 1 ELSE 0)
<1> DEFINE n == Len(l)
           G(i) == {j \in Gaps(l) : j <= i}
<1>1. n \in Nat /\ Gaps(l) \subseteq 1..n
    BY DEF Gaps
<1>2. \A i : IsFiniteSet(G(i))
  <2>1. IsFiniteSet(1..n)
    BY <1>1, FS_Interval
  <2>2. \A i : G(i) \subseteq 1..n
    BY <1>1
  <2> QED BY <2>1, <2>2, FS_Subset
<1>3. G(0) = {} /\ G(n) = Gaps(l)
    BY <1>1
<1>4. ASSUME NEW i \in 1..n
      PROVE  /\ i \in Gaps(l) => G(i) = G(i - 1) \cup {i} /\ i \notin G(i - 1)
             /\ i \notin Gaps(l) => G(i) = G(i - 1)
    BY <1>1
<1>5. \A i : Skipped(l, i) = Cardinality(G(i))
    BY DEF Skipped
<1> HIDE DEF G
<1>6. \A i : Cardinality(G(i)) \in Nat
    BY <1>2, FS_CardinalityType
<1>7. ASSUME NEW i \in 1..n
      PROVE  Cardinality(G(i)) = Cardinality(G(i - 1)) + (IF i \in Gaps(l) THEN 1 ELSE 0)
  <2>1. CASE i \in Gaps(l)
    <3>1. IsFiniteSet(G(i - 1)) /\ i \notin G(i - 1) /\ G(i) = G(i - 1) \cup {i}
      BY <1>2, <1>4, <2>1
    <3>2. Cardinality(G(i - 1) \cup {i}) = Cardinality(G(i - 1)) + 1
      BY <3>1, FS_AddElement
    <3> QED BY <2>1, <3>1, <3>2
  <2>2. CASE i \notin Gaps(l)
    BY <1>4, <1>6, <2>2
  <2> QED BY <2>1, <2>2
<1>8. Cardinality(G(0)) = 0
    BY <1>3, FS_EmptySet
<1> QED
    BY <1>3, <1>5, <1>6, <1>7, <1>8

\* The bytes of a block are those of its chunk.
LEMMA WrittenBytes ==
    ASSUME NEW bb \in Block
    PROVE  ChunkBytes(Written(bb)) = ChunkBytes(bb)
<1> DEFINE z == bb.len
           c == Written(bb)
<1>1. bb.type \in {"fd", "fill"} /\ z \in Nat
    BY DEF Block
<1>2. c.type = bb.type /\ c.len = ALIGN(z)
    BY DEF Written
<1> HIDE DEF z, c
<1>3. ALIGN(ALIGN(z)) = ALIGN(z)
  <2> DEFINE y == ALIGN(z)
  <2>1. y \in Nat /\ y = 4096 * DIV_ROUND_UP(z) /\ DIV_ROUND_UP(y) = DIV_ROUND_UP(z)
    BY <1>1, Aligned
  <2> HIDE DEF y
  <2>2. ALIGN(y) = 4096 * DIV_ROUND_UP(y)
    BY <2>1, Aligned
  <2>3. ALIGN(y) = y
    BY <2>1, <2>2
  <2> QED BY <2>3 DEF y
<1>4. ChunkBytes(c) = ChunkBytes(bb)
  <2>1. CASE bb.type = "fd"
    <3>1. ChunkBytes(c) = 12 + ALIGN(ALIGN(z)) /\ ChunkBytes(bb) = 12 + ALIGN(z)
      BY <1>2, <2>1 DEF ChunkBytes, ChunkLen, z
    <3> QED BY <1>3, <3>1
  <2>2. CASE bb.type = "fill"
    BY <1>2, <2>2 DEF ChunkBytes, ChunkLen
  <2> QED BY <1>1, <2>1, <2>2
<1> QED
    BY <1>4 DEF c

\* Where the i-th block is in the file, and what the file has up to it.
LEMMA LayoutSizes ==
    ASSUME NEW l \in Seq(Block), NEW len, NEW w, NEW pos, Layout(w, l, len, pos)
    PROVE  \A i \in 0..Len(l) :
              /\ pos[i] = i + Skipped(l, i)
              /\ SizeUpTo(w)[pos[i]] = 28 + FileLen(l)[i] + 12 * Skipped(l, i)
<1> DEFINE n == Len(l)
           m == Len(w)
           f == FileLen(l)
           s == SizeUpTo(w)
           K(i) == Skipped(l, i)
           T == {i \in 0..n : pos[i] = i + K(i) /\ s[pos[i]] = 28 + f[i] + 12 * K(i)}
<1>1. /\ n \in Nat /\ m \in Nat /\ pos \in [0..n -> Nat] /\ pos[0] = 0 /\ w \in Seq(Out)
  <2>1. m \in Nat
    BY LayoutRises
  <2> QED BY <2>1 DEF Layout
<1>2. /\ f \in [0..n -> Nat] /\ f[0] = 0 /\ \A i \in 1..n : f[i] = f[i - 1] + ChunkBytes(l[i])
    BY FileLenSums DEF Sums, Sizes
<1>3. /\ s \in [0..m -> Nat] /\ s[0] = 28 /\ \A i \in 1..m : s[i] = s[i - 1] + ChunkBytes(w[i])
    BY <1>1, SizeUpToSums DEF Sums, Bytes
<1>4. /\ K(0) = 0 /\ \A i \in 0..n : K(i) \in Nat
      /\ \A i \in 1..n : K(i) = K(i - 1) + (IF i \in Gaps(l) THEN 1 ELSE 0)
    BY SkippedNext
<1> HIDE DEF f, s, K
<1>5. 0 \in T
    BY <1>1, <1>2, <1>3, <1>4
<1>6. ASSUME NEW i \in 1..n, i - 1 \in T PROVE i \in T
  <2> DEFINE x == pos[i - 1]
             y == pos[i]
             a == K(i - 1)
             c == ChunkBytes(l[i])
  <2>1. i - 1 \in 0..n /\ i \in 0..n
    BY <1>1
  <2>2. /\ y \in 1..m /\ x \in 0..(m - 1) /\ (i \in Gaps(l) => x + 1 \in 1..(m - 1))
    BY LayoutRises
  <2>3. /\ y = x + (IF i \in Gaps(l) THEN 2 ELSE 1) /\ w[y] = Written(l[i])
        /\ (i \in Gaps(l) => w[x + 1] = Skip(4096 * Gap(l, i)))
    BY DEF Layout
  <2>4. ChunkBytes(w[y]) = c /\ c \in Nat
    <3>1. l[i] \in Block
      BY <1>1
    <3>2. ChunkBytes(Written(l[i])) = c /\ c \in Nat
      BY <3>1, WrittenBytes, ChunkSize
    <3> QED BY <2>3, <3>2
  <2>5. /\ x = (i - 1) + a /\ s[x] = 28 + f[i - 1] + 12 * a /\ a \in Nat /\ f[i - 1] \in Nat
        /\ f[i] = f[i - 1] + c
    BY <1>2, <1>4, <1>6, <2>1
  <2> HIDE DEF x, y, a, c
  <2>6. s[y] = s[y - 1] + c
    BY <1>3, <2>2, <2>4
  <2>7. CASE i \in Gaps(l)
    <3>1. y = x + 2 /\ w[x + 1] = Skip(4096 * Gap(l, i)) /\ x + 1 \in 1..m /\ x \in Nat
          /\ y - 1 = x + 1 /\ (x + 1) - 1 = x
      BY <1>1, <2>2, <2>3, <2>7
    <3>2. w[x + 1].type = "skip" /\ w[x + 1] \in Out
      BY <1>1, <3>1 DEF Skip
    <3>3. ChunkBytes(w[x + 1]) = 12
      BY <3>2, OutBytes
    <3>4. s[x + 1] = s[x] + 12
      BY <1>3, <3>1, <3>3
    <3>5. K(i) = a + 1
      BY <1>4, <2>7 DEF a
    <3>6. y = i + K(i)
      BY <2>5, <3>1, <3>5
    <3>7. s[y] = 28 + f[i] + 12 * K(i)
      <4> DEFINE u == f[i - 1]
                 v == s[x]
      <4> HIDE DEF u, v
      <4>1. /\ s[y] = (v + 12) + c /\ v = 28 + u + 12 * a /\ f[i] = u + c
            /\ a \in Nat /\ u \in Nat /\ c \in Nat
        BY <2>4, <2>5, <2>6, <3>1, <3>4 DEF u, v
      <4> QED BY <3>5, <4>1
    <3> QED BY <2>1, <3>6, <3>7 DEF y
  <2>8. CASE i \notin Gaps(l)
    <3>1. y = x + 1 /\ x \in Nat /\ y - 1 = x
      BY <2>2, <2>3, <2>8
    <3>2. K(i) = a
      BY <1>4, <2>5, <2>8 DEF a
    <3>3. y = i + K(i)
      BY <2>5, <3>1, <3>2
    <3>4. s[y] = 28 + f[i] + 12 * K(i)
      BY <2>4, <2>5, <2>6, <3>1, <3>2
    <3> QED BY <2>1, <3>3, <3>4 DEF y
  <2> QED BY <2>7, <2>8
<1> HIDE DEF T, n
<1>7. 0..n \subseteq T
    BY <1>1, <1>5, <1>6, BoundedInduction
<1> QED
    BY <1>7 DEF T, n, s, f, K

\* A sparse file that is small enough is larger than the device can take by no
\* more than the gaps in it.
LEMMA SmallLimit ==
    ASSUME NEW l \in Seq(Block), Apart(l), Small(l), NEW len \in Int
    PROVE  sparse_file_len(l, len) \in Nat
           /\ sparse_file_len(l, len) <= Limit + ChunkLen * Cardinality(Gaps(l) \ {1})
<1> DEFINE w == write_all_blocks(l, len)
           n == Len(l)
           m == Len(w)
           s == SizeUpTo(w)
           F == FileLen(l)[n]
           k == Cardinality(Gaps(l))
           j == Cardinality(Gaps(l) \ {1})
<1>1. PICK pos : Layout(w, l, len, pos)
    BY LayoutOf
<1>2. sparse_file_len(l, len) = s[m]
    BY DEF sparse_file_len
<1> HIDE DEF w
<1>3. /\ n \in Nat /\ m \in Nat /\ pos[n] <= m /\ m <= pos[n] + 1 /\ w \in Seq(Out) /\ pos[n] \in Nat
  <2>1. m \in Nat /\ pos[n] <= m /\ m <= pos[n] + 1
    BY <1>1, LayoutRises
  <2>2. w \in Seq(Out) /\ pos \in [0..n -> Nat]
    BY <1>1 DEF Layout
  <2> QED BY <2>1, <2>2
<1>4. s[pos[n]] = 28 + F + 12 * k
  <2>1. n \in 0..n
    BY <1>3
  <2>2. s[pos[n]] = 28 + F + 12 * Skipped(l, n)
    BY <1>1, <2>1, LayoutSizes
  <2>3. Skipped(l, n) = k
    BY SkippedNext
  <2> QED BY <2>2, <2>3
<1>5. k \in Nat /\ j \in Nat /\ k <= j + 1
  <2>1. Gaps(l) \subseteq 1..n
    BY DEF Gaps
  <2>2. IsFiniteSet(Gaps(l))
    <3>1. IsFiniteSet(1..n)
      BY <1>3, FS_Interval
    <3> QED BY <2>1, <3>1, FS_Subset
  <2>3. CASE 1 \in Gaps(l)
    <3>1. IsFiniteSet(Gaps(l) \ {1}) /\ j = k - 1 /\ k \in Nat /\ j \in Nat
      BY <2>2, <2>3, FS_RemoveElement, FS_CardinalityType
    <3> QED BY <3>1
  <2>4. CASE 1 \notin Gaps(l)
    <3>1. Gaps(l) \ {1} = Gaps(l)
      BY <2>4
    <3>2. k \in Nat
      BY <2>2, FS_CardinalityType
    <3>3. j = k
      BY <3>1
    <3> HIDE DEF j, k
    <3> QED BY <3>2, <3>3
  <2> QED BY <2>3, <2>4
<1>6. F \in Nat /\ F <= Limit - 64 /\ Limit \in Nat
  <2>1. F \in 0..(Space + 16) /\ Space \in Nat /\ Space = Limit - 80 /\ Limit \in Nat
    BY SpaceEnough, LimitAssumption DEF Small, Space
  <2> HIDE DEF F
  <2> QED BY <2>1
<1>7. ASSUME m = pos[n] + 1 PROVE s[m] = s[pos[n]] + 12
  <2>1. m \in 1..m /\ m - 1 = pos[n] /\ w[m] \in Out
    BY <1>3, <1>7
  <2>2. w[m].type = "skip"
    <3> DEFINE t == write_skip_chunk(Pad(l, len))
    <3>1. /\ t \in Seq(Out) /\ m = pos[n] + Len(t)
          /\ (Len(t) = 1 => w[m] = Skip(Pad(l, len)))
      BY <1>1 DEF Layout
    <3> HIDE DEF t, m
    <3>2. Len(t) \in Nat
      BY <3>1
    <3> DEFINE x == pos[n]
               z == Len(t)
    <3> HIDE DEF x, z
    <3>4. x \in Nat /\ m = x + 1 /\ m = x + z /\ z \in Nat
      BY <1>3, <1>7, <3>1, <3>2 DEF x, z
    <3>5. z = 1
      BY <3>4
    <3>3. Len(t) = 1
      BY <3>5 DEF z
    <3> QED BY <3>1, <3>3 DEF Skip
  <2>3. s[m] = s[m - 1] + Bytes(w)[m]
    BY <1>3, <2>1, SizeUpToSums DEF Sums
  <2>4. Bytes(w)[m] = ChunkBytes(w[m])
    BY <2>1 DEF Bytes
  <2>5. ChunkBytes(w[m]) = 12
    BY <2>1, <2>2, OutBytes
  <2> QED BY <2>1, <2>3, <2>4, <2>5
<1> HIDE DEF s, m, n, F, k, j
<1>8. m = pos[n] \/ m = pos[n] + 1
    BY <1>3
<1>9. s[m] = 28 + F + 12 * k \/ s[m] = 28 + F + 12 * k + 12
  <2>1. CASE m = pos[n]
    BY <1>4, <2>1
  <2>2. CASE m = pos[n] + 1
    BY <1>4, <1>7, <2>2
  <2> QED BY <1>8, <2>1, <2>2
<1>10. s[m] \in Nat /\ s[m] <= Limit + 12 * j
    BY <1>5, <1>6, <1>9
<1> QED
    BY <1>2, <1>10 DEF ChunkLen, j

-----------------------------------------------------------------------------
(* The image, from the generator or the file to the sparse files. *)

\* q has what the generator has added.
Built(q, a) ==
    q \in Queue /\ Apart(q.list) /\ Contents(q.list) = UNION {Cells(e) : e \in a}

\* q has what was read of the first n chunks, except for what is gone.
ReadUpTo(q, ch, n, gone) ==
    /\ n \in 0..Len(ch) /\ q \in Queue /\ Apart(q.list)
    /\ Contents(q.list) = FileContents(ch, n) \ gone /\ gone \subseteq FileContents(ch, n)

\* The first call of sparse_file_resparse(), after n turns.
CountOk(t, l, n, all) == n \in Nat /\ Counted(t, l, n) /\ Contents(t \o l) = all

\* The second one: n of k sparse files are made.
SplitOk(o, l, n, k, all) ==
    /\ n \in Nat /\ k \in Nat /\ n < k /\ Divided(o, l) /\ Len(o) = n
    /\ Turns(l, (k - 1) - n) /\ Total(o) \cup Contents(l) = all

\* The sparse files are made, if there are any.
Ready(o, l, k, all) ==
    \/ k = 0 /\ o = <<>>
    \/ /\ k \in Nat \ {0} /\ Len(o) = k /\ l = <<>>
       /\ Divided(o, <<>>) /\ Total(o) = all

\* What was written for the generator is what it has added, padded.
WroteAll(ch, a) ==
    FileContents([i \in DOMAIN ch |-> [ch[i] EXCEPT !.off = ch[i].src]], Len(ch))
    = UNION {Cells([e EXCEPT !.len = ALIGN(@)]) : e \in a}

ImageInv ==
    /\ file \in [chunks : Seq(Chunk), size : Nat, len : Nat] /\ added \subseteq Extents
    /\ phase = "build" => Built(in_s, added \ lost) /\ lost \subseteq added
    /\ phase \in {"build", "load", "import"} => tmp = <<>> /\ out_s = <<>> /\ files = 0
    /\ phase \in {"build", "load"} => count = 0
    /\ phase = "load" => in_s = NoList
    /\ phase = "load" /\ command = "format" => WroteAll(file.chunks, added \ lost)
    /\ phase = "import" => ReadUpTo(in_s, file.chunks, count, Missing)
    /\ phase = "count" => out_s = <<>> /\ CountOk(tmp, in_s.list, count, ImageContents)
    /\ phase = "split" => tmp = <<>> /\ SplitOk(out_s, in_s.list, count, files, ImageContents)
    /\ phase \in {"queue", "execute"} => Ready(out_s, in_s.list, files, ImageContents)
    /\ phase \in {"queue", "execute"} /\ out_s = <<>> => lost = {}

LEMMA ContentsStay ==
    ASSUME UNCHANGED <<file, lost>>
    PROVE  ImageContents' = ImageContents /\ WholeImage' = WholeImage
    BY DEF ImageContents, WholeImage, Missing

LEMMA ExtentBlock ==
    ASSUME NEW e \in Extents
    PROVE  e \in Block
<1>1. e \in [id : Nat \ {0}, type : {"fd", "fill"}, block : Nat, len : Nat \ {0}, src : Nat]
    BY ExtentsAssumption
<1> QED
    BY <1>1 DEF Block

\* A file of an image.
LEMMA NormalFileType ==
    ASSUME NEW im \in Images
    PROVE  NormalFile(im) \in [chunks : Seq(Chunk), size : Nat, len : Nat]
<1> DEFINE m == Len(im.blocks)
           t == im.tail
           n == m + (IF t > 0 THEN 1 ELSE 0)
           value(i) == IF i > m THEN 0 ELSE im.blocks[i]
           bytes(i) == IF i > m THEN t ELSE 4096
           len == m * 4096 + t
           c(i) == [type |-> IF value(i) = 0 THEN "fd" ELSE "fill",
                    len |-> bytes(i), src |-> value(i), off |-> (i - 1) * 4096]
           f == [i \in 1..n |-> c(i)]
<1>1. im.blocks \in Seq(Nat) /\ im.tail \in 0..4095
  <2>1. im \in [blocks : Seq(Nat), tail : 0..(block_size - 1)]
    BY ImagesAssumption
  <2>2. im.tail \in 0..(4096 - 1) /\ im.blocks \in Seq(Nat)
    BY <2>1, SMTT(60) DEF block_size
  <2> QED BY <2>2, SMTT(60)
<1>3. NormalFile(im) = [chunks |-> f, size |-> len, len |-> len]
    BY DEF NormalFile, block_size
<1>7. m \in Nat /\ t \in 0..4095
    BY <1>1, SMTT(60)
<1>8. \A i \in 1..m : im.blocks[i] \in Nat
    BY <1>1
<1> HIDE DEF m, t
<1>2. m \in Nat /\ n \in Nat /\ len \in Nat
    BY <1>7
<1>4. ASSUME NEW i \in 1..n PROVE c(i) \in Chunk
  <2>1. value(i) \in Nat
    BY <1>7, <1>8
  <2>2. bytes(i) \in Nat \ {0}
    BY <1>7
  <2>3. (i - 1) * 4096 \in Nat
    BY <1>2
  <2> HIDE DEF value, bytes
  <2> QED BY <2>1, <2>2, <2>3 DEF Chunk
<1> HIDE DEF c
<1>5. f \in [1..n -> Chunk]
    BY <1>4
<1> HIDE DEF f, len, n
<1>6. f \in Seq(Chunk)
    BY <1>2, <1>5
<1> QED
    BY <1>2, <1>3, <1>6

LEMMA ImageInit ==
    ASSUME Init
    PROVE  ImageInv
<1>1. <<>> \in Seq(Chunk) /\ <<>> \in Seq(Block)
    OBVIOUS
<1>2. file \in [chunks : Seq(Chunk), size : Nat, len : Nat]
  <2>1. NoFile \in [chunks : Seq(Chunk), size : Nat, len : Nat]
    BY <1>1 DEF NoFile
  <2> QED BY <2>1, NormalFileType DEF Init
<1>3. Built(NoList, {})
  <2>1. NoList \in Queue /\ NoList.list = <<>>
    BY <1>1 DEF NoList, Queue
  <2>2. Apart(<<>>) /\ Contents(<<>>) = {}
    BY DEF Apart, Contents
  <2> QED BY <2>1, <2>2 DEF Built
<1>4. added = {} /\ in_s = NoList /\ tmp = <<>> /\ out_s = <<>> /\ count = 0 /\ files = 0
      /\ lost = {} /\ added \ lost = {}
    BY DEF Init
<1>5. phase \in {"build", "load"} /\ (phase = "load" => command # "format")
    BY DEF Init
<1> QED
    BY <1>2, <1>3, <1>4, <1>5 DEF ImageInv

\* backed_block_add_*() of the generator.
LEMMA AddBuilt ==
    ASSUME NEW q, NEW a \in SUBSET Extents, Built(q, a), NEW e \in Extents \ a
    PROVE  Built(queue_bb(q, e), a \cup {e})
<1>1. q \in Queue /\ Apart(q.list) /\ Contents(q.list) = UNION {Cells(d) : d \in a}
    BY DEF Built
<1>2. e \in Block /\ q.list \in Seq(Block)
    BY <1>1, ExtentBlock DEF Queue
<1>3. ASSUME NEW c \in Contents(q.list), NEW x \in Cells(e) PROVE c.block # x.block
  <2>1. PICK d \in a : c \in Cells(d)
    BY <1>1
  <2>2. d \in Block /\ d \in Extents /\ d # e
    BY ExtentBlock
  <2>3. EndOf(d) <= e.block \/ EndOf(e) <= d.block
    BY <2>2, ExtentsAssumption
  <2>4. /\ d.block <= c.block /\ c.block < EndOf(d) /\ c.block \in Nat
        /\ EndOf(d) \in Nat /\ d.block \in Nat
    BY <2>1, <2>2, CellsOf
  <2>5. /\ e.block <= x.block /\ x.block < EndOf(e) /\ x.block \in Nat
        /\ EndOf(e) \in Nat /\ e.block \in Nat
    BY <1>2, CellsOf
  <2> QED BY <2>3, <2>4, <2>5
<1>4. Clear(q.list, e)
    BY <1>2, <1>3, ClearOf
<1>5. queue_bb(q, e) \in Queue /\ Adds(queue_bb(q, e).list, q.list, e)
    BY <1>1, <1>2, <1>4, QueueList
<1>6. UNION {Cells(d) : d \in a \cup {e}} = Contents(q.list) \cup Cells(e)
    BY <1>1
<1> QED
    BY <1>5, <1>6 DEF Built, Adds

\* The chunks that sparse_file_write() writes.
FileOf(w) ==
    [i \in DOMAIN w |-> [type |-> w[i].type, len |-> w[i].len, src |-> w[i].src,
                         off |-> SizeUpTo(w)[i - 1] + ChunkLen]]

LEMMA WroteBuilt ==
    ASSUME NEW q, NEW a \in SUBSET Extents, Built(q, a),
           NEW w, w = write_all_blocks(q.list, ImageLen)
    PROVE  /\ FileOf(w) \in Seq(Chunk) /\ WroteAll(FileOf(w), a)
           /\ sparse_file_len(q.list, ImageLen) \in Nat
<1> DEFINE l == q.list
           m == Len(w)
           s == SizeUpTo(w)
           ch == FileOf(w)
           xh == [i \in DOMAIN ch |-> [ch[i] EXCEPT !.off = ch[i].src]]
<1>1. l \in Seq(Block) /\ Apart(l) /\ Contents(l) = UNION {Cells(e) : e \in a}
    BY DEF Built, Queue
<1>2. PICK pos : Layout(w, l, ImageLen, pos)
  <2>1. ImageLen \in Int
    BY ExtentsAssumption
  <2> QED BY <1>1, <2>1, LayoutOf
<1>3. w \in Seq(Out) /\ m \in Nat /\ DOMAIN w = 1..m /\ \A i \in 1..m : w[i] \in Out
    BY <1>2 DEF Layout
<1>4. s \in [0..m -> Nat]
    BY <1>3, SizeUpToSums DEF Sums
<1>5. sparse_file_len(l, ImageLen) \in Nat
  <2>1. sparse_file_len(l, ImageLen) = s[m]
    BY DEF sparse_file_len
  <2>2. m \in 0..m
    BY <1>3
  <2> HIDE DEF s, m
  <2> QED BY <1>4, <2>1, <2>2
<1> HIDE DEF s, m
<1>6. ch = [i \in 1..m |-> [type |-> w[i].type, len |-> w[i].len, src |-> w[i].src,
                            off |-> s[i - 1] + 12]]
    BY <1>3 DEF FileOf, ChunkLen, s
<1> HIDE DEF ch
<1>7. ASSUME NEW i \in 1..m
      PROVE  /\ ch[i] = [type |-> w[i].type, len |-> w[i].len, src |-> w[i].src, off |-> s[i - 1] + 12]
             /\ ch[i] \in Chunk
  <2> DEFINE o == s[i - 1] + 12
  <2>1. s[i - 1] \in Nat
    BY <1>3, <1>4
  <2>2. o \in Nat
    BY <2>1
  <2>3. ch[i] = [type |-> w[i].type, len |-> w[i].len, src |-> w[i].src, off |-> o]
    BY <1>6
  <2> HIDE DEF o
  <2>4. w[i].type \in {"fd", "fill", "skip"} /\ w[i].len \in Nat \ {0} /\ w[i].src \in Nat
    BY <1>3 DEF Out
  <2>5. ch[i] \in Chunk
    BY <2>2, <2>3, <2>4 DEF Chunk
  <2> QED BY <2>3, <2>5 DEF o
<1>8. ch \in [1..m -> Chunk]
  <2>1. ch = [i \in 1..m |-> ch[i]]
    BY <1>6
  <2> QED BY <1>7, <2>1
<1>9. ch \in Seq(Chunk) /\ DOMAIN ch = 1..m /\ Len(ch) = m
    BY <1>3, <1>8
<1>10. Len(xh) = m
    BY <1>3, <1>9
<1>11. ASSUME NEW k \in 1..m
       PROVE  /\ xh[k].len = w[k].len /\ xh[k].type = w[k].type
              /\ xh[k].src = w[k].src /\ xh[k].off = w[k].src
  <2> DEFINE c == ch[k]
             d == [c EXCEPT !.off = c.src]
             o == s[k - 1] + 12
  <2>1. xh[k] = d
    BY <1>9
  <2>4. c = [type |-> w[k].type, len |-> w[k].len, src |-> w[k].src, off |-> o] /\ c \in Chunk
    BY <1>7
  <2> HIDE DEF c, o
  <2>2. c \in Chunk /\ c.type = w[k].type /\ c.len = w[k].len /\ c.src = w[k].src
    BY <2>4
  <2>3. d.type = c.type /\ d.len = c.len /\ d.src = c.src /\ d.off = c.src
    BY <2>2 DEF Chunk
  <2> HIDE DEF d, xh
  <2> QED BY <2>1, <2>2, <2>3
<1> HIDE DEF xh
<1>12. FileContents(xh, Len(xh)) = {PadCell(c) : c \in Contents(l)}
    BY <1>1, <1>2, <1>10, <1>11, WrittenContents DEF m
<1>13. ASSUME NEW e \in a PROVE Cells([e EXCEPT !.len = ALIGN(@)]) = {PadCell(c) : c \in Cells(e)}
  <2> DEFINE p == [e EXCEPT !.len = ALIGN(@)]
  <2>1. e \in Block
    BY ExtentBlock
  <2>2. p.block = e.block /\ p.len = ALIGN(e.len) /\ p.type = e.type /\ p.src = e.src
    BY <2>1 DEF Block
  <2> HIDE DEF p
  <2>3. Cells(p) = {PadCell(c) : c \in Cells(e)}
    BY <2>1, <2>2, PadCells
  <2> QED BY <2>3 DEF p
<1>14. UNION {Cells([e EXCEPT !.len = ALIGN(@)]) : e \in a} = {PadCell(c) : c \in Contents(l)}
  <2> DEFINE C(e) == Cells([e EXCEPT !.len = ALIGN(@)])
  <2>1. \A e \in a : C(e) = {PadCell(c) : c \in Cells(e)}
    BY <1>13
  <2> HIDE DEF C
  <2>2. UNION {C(e) : e \in a} = {PadCell(c) : c \in UNION {Cells(e) : e \in a}}
    BY <2>1
  <2>3. UNION {C(e) : e \in a} = {PadCell(c) : c \in Contents(l)}
    BY <1>1, <2>2
  <2> QED BY <2>3 DEF C
<1>15. WroteAll(ch, a)
    BY <1>9, <1>10, <1>12, <1>14 DEF WroteAll, xh
<1> QED
    BY <1>5, <1>9, <1>15 DEF ch

LEMMA ImageAdd ==
    ASSUME ImageInv, NEW e \in Extents \ added, Add(e)
    PROVE  ImageInv'
<1> DEFINE kept == added \ lost
<1>1. phase = "build" /\ Built(in_s, kept) /\ lost \subseteq added /\ added \subseteq Extents
    BY DEF ImageInv, Add
<1>2. added' = added \cup {e} /\ added' \subseteq Extents /\ UNCHANGED <<file, tmp, out_s, count, files>>
    BY <1>1 DEF Add
<1>3. \/ in_s' = queue_bb(in_s, e) /\ phase' = "build" /\ lost' = lost
      \/ in_s' = [in_s EXCEPT !.last_used = e.id] /\ phase' = "build" /\ lost' = lost \cup {e}
      \/ phase' = "corrupt"
    BY DEF Add, AddBlock
<1>4. kept \in SUBSET Extents /\ e \in Extents \ kept
    BY <1>1
<1> HIDE DEF kept
<1>5. CASE in_s' = queue_bb(in_s, e) /\ phase' = "build" /\ lost' = lost
  <2>1. Built(queue_bb(in_s, e), kept \cup {e})
    BY <1>1, <1>4, AddBuilt
  <2>2. added' \ lost' = kept \cup {e} /\ lost' \subseteq added'
    BY <1>1, <1>2, <1>5 DEF kept
  <2>3. Built(in_s, added \ lost)' /\ (lost \subseteq added)'
    BY <1>5, <2>1, <2>2
  <2> QED BY <1>1, <1>2, <1>5, <2>3 DEF ImageInv
<1>6. CASE in_s' = [in_s EXCEPT !.last_used = e.id] /\ phase' = "build" /\ lost' = lost \cup {e}
  <2>1. added' \ lost' = kept /\ lost' \subseteq added'
    BY <1>1, <1>2, <1>6 DEF kept
  <2>2. in_s \in Queue /\ e.id \in Nat
    BY <1>1, ExtentBlock DEF Built, Block
  <2>3. in_s' \in Queue /\ in_s'.list = in_s.list
    BY <1>6, <2>2 DEF Queue
  <2>4. Built(in_s, added \ lost)' /\ (lost \subseteq added)'
    BY <1>1, <2>1, <2>3 DEF Built
  <2> QED BY <1>1, <1>2, <1>6, <2>4 DEF ImageInv
<1>7. CASE phase' = "corrupt"
    BY <1>2, <1>7 DEF ImageInv
<1> QED
    BY <1>3, <1>5, <1>6, <1>7

LEMMA ImageWrite ==
    ASSUME ImageInv, sparse_file_write
    PROVE  ImageInv'
<1> DEFINE w == write_all_blocks(in_s.list, ImageLen)
<1>1. phase = "build" /\ Built(in_s, added \ lost) /\ added \subseteq Extents
      /\ tmp = <<>> /\ out_s = <<>> /\ files = 0 /\ count = 0
    BY DEF ImageInv, sparse_file_write
<1>2. /\ FileOf(w) \in Seq(Chunk) /\ WroteAll(FileOf(w), added \ lost)
      /\ sparse_file_len(in_s.list, ImageLen) \in Nat
  <2> DEFINE kept == added \ lost
  <2>1. kept \in SUBSET Extents /\ Built(in_s, kept)
    BY <1>1
  <2> HIDE DEF kept
  <2>2. /\ FileOf(w) \in Seq(Chunk) /\ WroteAll(FileOf(w), kept)
        /\ sparse_file_len(in_s.list, ImageLen) \in Nat
    BY <2>1, WroteBuilt
  <2> QED BY <2>2 DEF kept
<1>3. /\ file' = [chunks |-> FileOf(w), size |-> sparse_file_len(in_s.list, ImageLen), len |-> ImageLen]
      /\ in_s' = NoList /\ phase' = "load" /\ UNCHANGED <<command, added, lost, tmp, out_s, count, files>>
    BY DEF sparse_file_write, FileOf
<1>4. ImageLen \in Nat
    BY ExtentsAssumption
<1> HIDE DEF w
<1>5. file' \in [chunks : Seq(Chunk), size : Nat, len : Nat] /\ file'.chunks = FileOf(w)
    BY <1>2, <1>3, <1>4
<1> QED
    BY <1>1, <1>2, <1>3, <1>5 DEF ImageInv

LEMMA ImageFails ==
    ASSUME ImageInv, FormatFails
    PROVE  ImageInv'
    BY DEF ImageInv, FormatFails, image, Ready

LEMMA ImageLoad ==
    ASSUME ImageInv, load_buf_fd \/ FormatNotLoaded
    PROVE  ImageInv'
<1>1. /\ phase = "load" /\ in_s = NoList /\ tmp = <<>> /\ out_s = <<>> /\ files = 0 /\ count = 0
      /\ file \in [chunks : Seq(Chunk), size : Nat, len : Nat] /\ added \subseteq Extents
    BY DEF ImageInv, load_buf_fd, FormatNotLoaded
<1>2. /\ phase' \in {"import", "queue"} /\ lost' = {}
      /\ UNCHANGED <<added, in_s, tmp, out_s, count, files>>
      /\ file' = file \/ (phase' = "queue" /\ file' = NoFile)
    BY DEF load_buf_fd, FormatNotLoaded, image
<1>3. ReadUpTo(NoList, file.chunks, 0, {})
  <2>1. 0 \in 0..Len(file.chunks)
    BY <1>1
  <2>2. NoList \in Queue /\ NoList.list = <<>>
    BY DEF NoList, Queue
  <2>3. Apart(<<>>) /\ Contents(<<>>) = {} /\ FileContents(file.chunks, 0) = {}
    BY DEF Apart, Contents, FileContents
  <2> QED BY <2>1, <2>2, <2>3 DEF ReadUpTo
<1>4. Missing' = {}
    BY <1>2 DEF Missing
<1>5. NoFile \in [chunks : Seq(Chunk), size : Nat, len : Nat]
    BY DEF NoFile
<1>6. CASE phase' = "import"
    BY <1>1, <1>2, <1>3, <1>4, <1>6 DEF ImageInv
<1>7. CASE phase' = "queue"
    BY <1>1, <1>2, <1>5, <1>7 DEF ImageInv, Ready
<1> QED
    BY <1>2, <1>6, <1>7

\* The program gives up.
LEMMA ImageDies ==
    ASSUME ImageInv, LoadFails
    PROVE  ImageInv'
    BY DEF ImageInv, LoadFails, image

LEMMA ImageRead ==
    ASSUME ImageInv, ReadChunk
    PROVE  ImageInv'
<1> DEFINE ch == file.chunks
           k == count + 1
           bb == BlockRead(ch[k], k, BlockOf(ch)[k])
           F(n) == FileContents(ch, n)
<1>1. /\ phase = "import" /\ count < Len(ch) /\ ReadUpTo(in_s, ch, count, Missing)
      /\ tmp = <<>> /\ out_s = <<>> /\ files = 0
      /\ file \in [chunks : Seq(Chunk), size : Nat, len : Nat] /\ added \subseteq Extents
    BY DEF ImageInv, ReadChunk
<1>2. /\ count \in 0..Len(ch) /\ in_s \in Queue /\ Apart(in_s.list) /\ ch \in Seq(Chunk)
      /\ Contents(in_s.list) = F(count) \ Missing /\ Missing \subseteq F(count)
    BY <1>1 DEF ReadUpTo
<1>3. k \in 1..Len(ch) /\ k - 1 = count /\ k \in 0..Len(ch) /\ k \in Nat \ {0}
    BY <1>1, <1>2
<1>4. count' = k /\ UNCHANGED <<file, added, tmp, out_s, files>>
    BY DEF ReadChunk, image
<1>5. CASE ch[k].type = "skip"
  <2>1. in_s' = in_s /\ phase' = phase /\ lost' = lost
    BY <1>5 DEF ReadChunk
  <2>2. F(k) = F(k - 1) \cup Puts(ch, k) /\ Puts(ch, k) = {}
    BY <1>3, <1>5, FileNext DEF Puts
  <2> HIDE DEF k
  <2>3. ReadUpTo(in_s, ch, k, Missing)
    BY <1>2, <1>3, <2>2 DEF ReadUpTo
  <2>4. Missing' = Missing
    BY <2>1 DEF Missing
  <2> QED BY <1>1, <1>4, <2>1, <2>3, <2>4 DEF ImageInv
<1>6. CASE ch[k].type # "skip"
  <2>1. \/ in_s' = queue_bb(in_s, bb) /\ phase' = "import" /\ lost' = lost
        \/ in_s' = [in_s EXCEPT !.last_used = bb.id] /\ phase' = "import" /\ lost' = lost \cup {bb}
        \/ phase' = "corrupt"
    BY <1>6 DEF ReadChunk, AddBlock
  <2>7. bb.id = k
    BY DEF BlockRead
  <2> HIDE DEF k
  <2>2. Contents(in_s.list) \subseteq F(k - 1)
    BY <1>2, <1>3
  <2>3. /\ queue_bb(in_s, bb) \in Queue /\ Apart(queue_bb(in_s, bb).list)
        /\ Contents(queue_bb(in_s, bb).list) = Contents(in_s.list) \cup Cells(bb)
        /\ F(k) = F(k - 1) \cup Cells(bb) /\ F(k - 1) \cap Cells(bb) = {}
    BY <1>2, <1>3, <1>6, <2>2, ReadList
  <2> HIDE DEF bb, F
  <2>8. /\ Contents(in_s.list) = F(k - 1) \ Missing /\ Missing \subseteq F(k - 1)
    BY <1>2, <1>3
  <2>5. CASE in_s' = queue_bb(in_s, bb) /\ phase' = "import" /\ lost' = lost
    <3>1. Contents(queue_bb(in_s, bb).list) = F(k) \ Missing /\ Missing \subseteq F(k)
      BY <2>3, <2>8
    <3>2. ReadUpTo(queue_bb(in_s, bb), ch, k, Missing)
      BY <1>3, <2>3, <3>1 DEF ReadUpTo, F
    <3>3. Missing' = Missing
      BY <2>5 DEF Missing
    <3> QED BY <1>1, <1>4, <2>5, <3>2, <3>3 DEF ImageInv
  <2>6. CASE in_s' = [in_s EXCEPT !.last_used = bb.id] /\ phase' = "import" /\ lost' = lost \cup {bb}
    <3>1. Missing' = Missing \cup Cells(bb)
      BY <2>6 DEF Missing
    <3>2. Contents(in_s.list) = F(k) \ Missing' /\ Missing' \subseteq F(k)
      BY <2>3, <2>8, <3>1
    <3>3. in_s' \in Queue /\ in_s'.list = in_s.list
      BY <1>2, <1>3, <2>6, <2>7 DEF Queue
    <3>4. ReadUpTo(in_s', ch, k, Missing')
      BY <1>2, <1>3, <3>2, <3>3 DEF ReadUpTo, F
    <3> QED BY <1>1, <1>4, <2>6, <3>4 DEF ImageInv
  <2>9. CASE phase' = "corrupt"
    BY <1>1, <1>4, <2>9 DEF ImageInv
  <2> QED BY <2>1, <2>5, <2>6, <2>9
<1> QED
    BY <1>5, <1>6

LEMMA ImageReadEnd ==
    ASSUME ImageInv, ReadEnd
    PROVE  ImageInv'
<1>1. /\ phase = "import" /\ count = Len(file.chunks) /\ ReadUpTo(in_s, file.chunks, count, Missing)
      /\ tmp = <<>> /\ out_s = <<>> /\ files = 0
      /\ file \in [chunks : Seq(Chunk), size : Nat, len : Nat] /\ added \subseteq Extents
    BY DEF ImageInv, ReadEnd
<1>2. count' = 0 /\ phase' = "count" /\ UNCHANGED <<file, lost, added, in_s, tmp, out_s, files>>
    BY DEF ReadEnd, image
<1>3. /\ in_s \in Queue /\ Apart(in_s.list) /\ Contents(in_s.list) = ImageContents
    BY <1>1 DEF ReadUpTo, ImageContents, WholeImage
<1>4. in_s.list \in Seq(Block)
    BY <1>3 DEF Queue
<1>5. Counted(<<>>, in_s.list, 0) /\ <<>> \o in_s.list = in_s.list
    BY <1>3, <1>4, CountBegins
<1>6. CountOk(<<>>, in_s.list, 0, ImageContents)
    BY <1>3, <1>5 DEF CountOk
<1>7. ImageContents' = ImageContents
    BY <1>2, ContentsStay
<1> QED
    BY <1>1, <1>2, <1>6, <1>7 DEF ImageInv

\* The first call goes on, or ends and the second begins.
LEMMA ImageCount ==
    ASSUME ImageInv, sparse_file_resparse, phase = "count"
    PROVE  ImageInv'
<1> DEFINE l == in_s.list
           m == move_chunks_up_to_len(l, Limit)
           back == backed_block_list_move(m.moved, tmp)
<1>1. /\ out_s = <<>> /\ CountOk(tmp, l, count, ImageContents)
      /\ file \in [chunks : Seq(Chunk), size : Nat, len : Nat] /\ added \subseteq Extents
    BY DEF ImageInv
<1>2. count \in Nat /\ Counted(tmp, l, count) /\ Contents(tmp \o l) = ImageContents
    BY <1>1 DEF CountOk
<1>3. /\ UNCHANGED <<file, lost, added>> /\ out_s' = out_s
      /\ tmp' = (IF m.more THEN back ELSE <<>>)
      /\ in_s' = [list |-> IF m.more THEN m.rest ELSE backed_block_list_move(back, m.rest),
                  last_used |-> 0]
      /\ count' = (IF m.more THEN count + 1 ELSE 0)
      /\ files' = count + 1
      /\ phase' = (CASE m.more -> phase
                    [] ~m.more /\ phase = "count" -> "split"
                    [] OTHER -> "queue")
    BY DEF sparse_file_resparse, image
<1>4. l \in Seq(Block) /\ Apart(l) /\ tmp \in Seq(Block)
  <2>1. tmp \in Seq(Block) /\ l \in Seq(Block) /\ Apart(tmp \o l)
    BY <1>2 DEF Counted
  <2> HIDE DEF l
  <2> QED BY <2>1, ApartConcat
<1>5. ImageContents' = ImageContents
    BY <1>3, ContentsStay
<1>6. \/ m.more = TRUE /\ l # <<>> /\ Turned(l, m)
      \/ m.more = FALSE /\ m.moved = l /\ m.rest = <<>> /\ Fits(l)
  <2> HIDE DEF l
  <2> QED BY <1>4, Turn
<1> HIDE DEF m
<1>7. CASE m.more = TRUE
  <2>1. /\ tmp' = back /\ in_s' = [list |-> m.rest, last_used |-> 0]
        /\ count' = count + 1 /\ phase' = "count"
    BY <1>3, <1>7
  <2>2. Counted(back, m.rest, count + 1) /\ Contents(back \o m.rest) = Contents(tmp \o l)
    <3>1. l # <<>> /\ Turned(l, m)
      BY <1>6, <1>7
    <3> HIDE DEF l
    <3> QED BY <1>2, <3>1, CountTurn
  <2>3. in_s'.list = m.rest
    BY <2>1
  <2> HIDE DEF back, l
  <2>4. CountOk(back, m.rest, count + 1, ImageContents)
    BY <1>2, <2>2 DEF CountOk
  <2> QED BY <1>1, <1>3, <1>5, <2>1, <2>3, <2>4 DEF ImageInv
<1>8. CASE m.more = FALSE
  <2> DEFINE b == backed_block_list_move(l, tmp)
  <2>1. m.moved = l /\ m.rest = <<>> /\ Fits(l)
    BY <1>6, <1>8
  <2>2. /\ b = tmp \o l /\ backed_block_list_move(b, <<>>) = b
        /\ b \in Seq(Block) /\ Apart(b) /\ Turns(b, count)
    BY <1>2, <2>1, CountEnds
  <2>3. back = b
    BY <2>1
  <2> HIDE DEF b, back, l
  <2>4. /\ tmp' = <<>> /\ in_s' = [list |-> b, last_used |-> 0]
        /\ count' = 0 /\ phase' = "split" /\ files' = count + 1
    BY <1>3, <1>8, <2>1, <2>2, <2>3
  <2>5. Divided(<<>>, b) /\ Total(<<>>) = {}
    BY <2>2 DEF Divided, Total
  <2>6. Contents(b) = ImageContents /\ Turns(b, ((count + 1) - 1) - 0)
    BY <1>2, <2>2
  <2>7. SplitOk(<<>>, b, 0, count + 1, ImageContents)
    BY <1>2, <2>5, <2>6 DEF SplitOk
  <2> QED BY <1>1, <1>3, <1>5, <2>4, <2>7 DEF ImageInv
<1> QED
    BY <1>6, <1>7, <1>8

\* The second call: another sparse file, until there are as many as counted.
LEMMA ImageSplit ==
    ASSUME ImageInv, sparse_file_resparse, phase = "split"
    PROVE  ImageInv'
<1> DEFINE l == in_s.list
           m == move_chunks_up_to_len(l, Limit)
           t == (files - 1) - count
<1>1. /\ tmp = <<>> /\ SplitOk(out_s, l, count, files, ImageContents)
      /\ file \in [chunks : Seq(Chunk), size : Nat, len : Nat] /\ added \subseteq Extents
    BY DEF ImageInv
<1>2. /\ count \in Nat /\ files \in Nat /\ count < files /\ Divided(out_s, l)
      /\ Len(out_s) = count /\ Turns(l, t)
      /\ Total(out_s) \cup Contents(l) = ImageContents
    BY <1>1 DEF SplitOk
<1>3. /\ UNCHANGED <<file, lost, added, files>> /\ out_s' = Append(out_s, m.moved)
      /\ tmp' = <<>>
      /\ in_s' = [list |-> IF m.more THEN m.rest ELSE backed_block_list_move(<<>>, m.rest),
                  last_used |-> 0]
      /\ count' = (IF m.more THEN count + 1 ELSE 0)
      /\ phase' = (CASE m.more -> phase
                    [] ~m.more /\ phase = "count" -> "split"
                    [] OTHER -> "queue")
  <2>1. Room(count)
    BY <1>2 DEF Room
  <2> HIDE DEF m
  <2> QED BY <1>1, <2>1 DEF sparse_file_resparse, image, m
<1>4. ImageContents' = ImageContents
    BY <1>3, ContentsStay
<1> HIDE DEF m
<1>5. t \in Nat
    BY <1>2
<1>6. CASE t # 0
  <2>1. PICK u, v : /\ m = [moved |-> u, rest |-> v, more |-> TRUE]
                    /\ Divided(Append(out_s, u), v) /\ Turns(v, t - 1)
                    /\ Len(Append(out_s, u)) = Len(out_s) + 1
                    /\ Total(Append(out_s, u)) \cup Contents(v)
                         = Total(out_s) \cup Contents(l)
    <3>1. t \in Nat \ {0}
      BY <1>5, <1>6
    <3>2. Divided(out_s, l) /\ Turns(l, t)
      BY <1>2
    <3>3. m = move_chunks_up_to_len(l, Limit)
      BY DEF m
    <3> HIDE DEF t, l
    <3> QED BY ONLY <3>1, <3>2, <3>3, SplitTurn
  <2>2. m.moved = u /\ m.rest = v /\ m.more
    BY <2>1
  <2>3. /\ in_s' = [list |-> v, last_used |-> 0] /\ count' = count + 1
        /\ phase' = "split" /\ out_s' = Append(out_s, u)
    BY <1>3, <2>2
  <2>4. in_s'.list = v
    BY <2>3
  <2>5. t - 1 = (files - 1) - (count + 1) /\ count + 1 < files /\ count + 1 \in Nat
    BY <1>2, <1>6
  <2>6. SplitOk(Append(out_s, u), v, count + 1, files, ImageContents)
    BY <1>2, <2>1, <2>5 DEF SplitOk
  <2> QED BY <1>1, <1>3, <1>4, <2>3, <2>4, <2>6 DEF ImageInv
<1>7. CASE t = 0
  <2>1. /\ m.more = FALSE /\ m.moved = l /\ m.rest = <<>>
        /\ Divided(Append(out_s, l), <<>>) /\ Len(Append(out_s, l)) = Len(out_s) + 1
        /\ Total(Append(out_s, l)) = Total(out_s) \cup Contents(l)
    <3>1. Turns(l, 0)
      BY <1>2, <1>7
    <3> QED BY <1>2, <3>1, SplitEnds DEF m
  <2>2. backed_block_list_move(<<>>, <<>>) = <<>>
    BY DEF backed_block_list_move
  <2> HIDE DEF l
  <2>3. in_s' = [list |-> <<>>, last_used |-> 0] /\ phase' = "queue"
    BY <1>3, <2>1, <2>2
  <2>4. in_s'.list = <<>>
    BY <2>3
  <2>5. Len(Append(out_s, l)) = files /\ files \in Nat \ {0}
    BY <1>2, <1>7, <2>1
  <2>6. Ready(Append(out_s, l), <<>>, files, ImageContents)
    BY <1>2, <2>1, <2>5 DEF Ready
  <2>7. Append(out_s, l) # <<>>
    BY <2>5
  <2>8. out_s' = Append(out_s, l)
    BY <1>3, <2>1
  <2> QED BY <1>1, <1>3, <1>4, <2>3, <2>4, <2>6, <2>7, <2>8 DEF ImageInv
<1> QED
    BY <1>6, <1>7

\* The rest of fastboot, the device and the user leave the image as it is.
LEMMA ImageStays ==
    ASSUME ImageInv, UNCHANGED <<image, split>>,
           \/ phase' = phase
           \/ phase \in {"queue", "execute"} /\ phase' \in {"execute", "exit", "aborted"}
    PROVE  ImageInv'
<1>2. UNCHANGED <<command, added, file, in_s, lost, tmp, out_s, count, files>>
    BY DEF image, split
<1>1. ImageContents' = ImageContents /\ Missing' = Missing
  <2>1. Missing' = Missing
    BY <1>2 DEF Missing
  <2> QED BY <1>2, <2>1, ContentsStay
<1>3. CASE phase' = phase
    BY <1>1, <1>2, <1>3 DEF ImageInv
<1>4. CASE phase \in {"queue", "execute"} /\ phase' \in {"execute", "exit", "aborted"}
    BY <1>1, <1>2, <1>4 DEF ImageInv
<1> QED
    BY <1>3, <1>4

\* What the steps after the splitting do to the phase, and to the image.
LEMMA Later ==
    ASSUME \/ Fill \/ Notice \/ _command_start \/ check_response \/ _command_data \/ Finish
           \/ Device \/ Unplug \/ UNCHANGED vars
    PROVE  /\ UNCHANGED <<image, split>>
           /\ \/ phase' = phase
              \/ phase \in {"queue", "execute"} /\ phase' \in {"execute", "exit", "aborted"}
<1>1. CASE Fill
    BY <1>1 DEF Fill
<1>2. CASE Notice
    BY <1>2 DEF Notice
<1>3. CASE _command_start
    BY <1>3 DEF _command_start, Complete, Executing
<1>4. CASE check_response
    BY <1>4 DEF check_response, Complete, Executing
<1>5. CASE _command_data
    BY <1>5 DEF _command_data, Complete, Executing
<1>6. CASE Finish
    BY <1>6 DEF Finish
<1>7. CASE Device
    BY <1>7 DEF Device, DeviceAnswers, DeviceReceives, DeviceRefuses
<1>8. CASE Unplug
    BY <1>8 DEF Unplug
<1>9. CASE UNCHANGED vars
    BY <1>9 DEF vars
<1> QED
    BY <1>1, <1>2, <1>3, <1>4, <1>5, <1>6, <1>7, <1>8, <1>9

\* The inductive invariant of the image.
THEOREM ImageKept == Spec => []ImageInv
<1>1. Init => ImageInv
    BY ImageInit
<1>2. ImageInv /\ [Next]_vars => ImageInv'
  <2> SUFFICES ASSUME ImageInv, [Next]_vars PROVE ImageInv'
    OBVIOUS
  <2>1. CASE \E e \in Extents \ added : Add(e)
    BY <2>1, ImageAdd
  <2>2. CASE sparse_file_write
    BY <2>2, ImageWrite
  <2>3. CASE FormatFails
    BY <2>3, ImageFails
  <2>4. CASE load_buf_fd \/ FormatNotLoaded
    BY <2>4, ImageLoad
  <2>9. CASE LoadFails
    BY <2>9, ImageDies
  <2>5. CASE ReadChunk
    BY <2>5, ImageRead
  <2>6. CASE ReadEnd
    BY <2>6, ImageReadEnd
  <2>7. CASE sparse_file_resparse
    <3>1. phase \in {"count", "split"}
      BY <2>7 DEF sparse_file_resparse
    <3> QED BY <2>7, <3>1, ImageCount, ImageSplit
  <2>8. CASE \/ Fill \/ Notice \/ _command_start \/ check_response \/ _command_data \/ Finish
             \/ Device \/ Unplug \/ UNCHANGED vars
    BY <2>8, Later, ImageStays
  <2> QED
    BY <2>1, <2>2, <2>3, <2>4, <2>5, <2>6, <2>7, <2>8, <2>9 DEF Next, Host
<1> QED
    BY <1>1, <1>2, PTL DEF Spec

LEMMA OrderedApart ==
    ASSUME NEW l \in Seq(Block), Apart(l)
    PROVE  Ordered(l)
<1> SUFFICES ASSUME NEW i \in 1..(Len(l) - 1) PROVE EndOf(l[i]) <= l[i + 1].block
    BY DEF Ordered
<1>1. i \in DOMAIN l /\ i + 1 \in DOMAIN l /\ i < i + 1
    OBVIOUS
<1> QED
    BY <1>1 DEF Apart

\* The list of backed blocks holds what was added to it, whatever the order of
\* the calls and however blocks were merged, except for the blocks that a freed
\* last_used has lost, for every image and every set of regions that do not
\* overlap, and however many blocks are lost; and what sparse_file_write()
\* writes of it says the same of every block, padded.
THEOREM ListRightHolds == Spec => []ListRight
<1>1. ImageInv => ListRight
  <2> SUFFICES ASSUME ImageInv PROVE ListRight
    OBVIOUS
  <2>1. ASSUME phase = "build"
        PROVE  Ordered(in_s.list) /\ Contents(in_s.list) = UNION {Cells(e) : e \in added \ lost}
    <3>1. in_s \in Queue /\ Apart(in_s.list) /\ Contents(in_s.list) = UNION {Cells(e) : e \in added \ lost}
      BY <2>1 DEF ImageInv, Built
    <3> QED BY <3>1, OrderedApart DEF Queue
  <2>2. ASSUME phase = "import"
        PROVE  Ordered(in_s.list) /\ Contents(in_s.list) = FileContents(file.chunks, count) \ Missing
    <3>1. in_s \in Queue /\ Apart(in_s.list) /\ Contents(in_s.list) = FileContents(file.chunks, count) \ Missing
      BY <2>2 DEF ImageInv, ReadUpTo
    <3> QED BY <3>1, OrderedApart DEF Queue
  <2>3. ASSUME phase = "load", command = "format" PROVE WroteAll(file.chunks, added \ lost)
    BY <2>3 DEF ImageInv
  <2> QED
    BY <2>1, <2>2, <2>3 DEF ListRight, WroteAll
<1> QED
    BY <1>1, ImageKept, PTL

\* The lists of sparse_file_resparse() share no block.
LEMMA AheadDisjoint ==
    ASSUME NEW k \in Seq(Block), NEW l \in Seq(Block), Ahead(k, l)
    PROVE  Contents(k) \cap Contents(l) = {}
<1> SUFFICES ASSUME NEW c, c \in Contents(k), c \in Contents(l) PROVE FALSE
    OBVIOUS
<1>1. c.block \in Nat /\ c.block < c.block
    BY AheadContents
<1> QED
    BY <1>1

\* Of a list, another and a sequence of others.
LEMMA Lists ==
    ASSUME NEW a \in Seq(Block), NEW b \in Seq(Block), NEW o \in Seq(Seq(Block)),
           NEW n, n = Len(o), NEW s, s = <<a, b>> \o o
    PROVE  /\ n \in Nat /\ DOMAIN s = 1..(n + 2) /\ s[1] = a /\ s[2] = b
           /\ \A i \in 3..(n + 2) : s[i] = o[i - 2] /\ i - 2 \in 1..n
           /\ \A i \in 1..n : o[i] = s[i + 2] /\ i + 2 \in 3..(n + 2)
<1> DEFINE u == <<a, b>>
<1>1. u \in Seq(Seq(Block)) /\ Len(u) = 2 /\ u[1] = a /\ u[2] = b
    OBVIOUS
<1>2. n \in Nat
    OBVIOUS
<1> HIDE DEF u
<1>3. /\ s \in Seq(Seq(Block)) /\ Len(s) = 2 + n
      /\ \A k \in 1..2 : s[k] = u[k]
      /\ \A k \in 3..(2 + n) : s[k] = o[k - 2]
    BY <1>1, <1>2 DEF u
<1>4. DOMAIN s = 1..(n + 2)
    BY <1>2, <1>3
<1>5. s[1] = a /\ s[2] = b
    BY <1>1, <1>3
<1>6. ASSUME NEW i \in 1..n PROVE o[i] = s[i + 2] /\ i + 2 \in 3..(n + 2)
  <2> DEFINE k == i + 2
  <2>1. k \in 3..(2 + n) /\ k - 2 = i /\ k \in 3..(n + 2)
    BY <1>2
  <2> HIDE DEF k
  <2>2. s[k] = o[i]
    BY <1>3, <2>1
  <2> QED BY <2>1, <2>2 DEF k
<1>7. ASSUME NEW i \in 3..(n + 2) PROVE s[i] = o[i - 2] /\ i - 2 \in 1..n
  <2>1. i \in 3..(2 + n) /\ i - 2 \in 1..n
    BY <1>2
  <2> QED BY <1>3, <2>1
<1> QED
    BY <1>2, <1>4, <1>5, <1>6, <1>7

\* The lists of s are in order and share nothing.
Separate(s) ==
    /\ \A i \in DOMAIN s : Ordered(s[i])
    /\ \A i, j \in DOMAIN s : i # j => Contents(s[i]) \intersect Contents(s[j]) = {}

\* All that is in them.
Union(s) == UNION {Contents(s[i]) : i \in DOMAIN s}

\* s lists a, b and then o, and one of b and o is empty.
LaidOut(a, b, o, s) ==
    /\ Divided(o, a) /\ b \in Seq(Block) /\ Apart(b) /\ Ahead(b, a)
    /\ b = <<>> \/ o = <<>>
    /\ s = <<a, b>> \o o

\* The lists of s are separate and hold what a, b and o hold.
Gathers(a, b, o, s) ==
    Separate(s) /\ Union(s) = Contents(a) \cup Contents(b) \cup Total(o)

LEMMA ListsApart ==
    ASSUME NEW a, NEW b, NEW o, NEW s, LaidOut(a, b, o, s)
    PROVE  Gathers(a, b, o, s)
<1> SUFFICES ASSUME Divided(o, a), b \in Seq(Block), Apart(b), Ahead(b, a),
                    b = <<>> \/ o = <<>>, s = <<a, b>> \o o
             PROVE  Separate(s) /\ Union(s) = Contents(a) \cup Contents(b) \cup Total(o)
    BY DEF LaidOut, Gathers
<1> DEFINE n == Len(o)
<1>0. /\ o \in Seq(Seq(Block)) /\ a \in Seq(Block) /\ Apart(a)
      /\ \A i \in 1..n : Apart(o[i]) /\ Ahead(o[i], a)
      /\ \A i, j \in 1..n : i < j => Ahead(o[i], o[j])
    BY DEF Divided
<1>1. /\ n \in Nat /\ DOMAIN s = 1..(n + 2) /\ s[1] = a /\ s[2] = b
      /\ \A i \in 3..(n + 2) : s[i] = o[i - 2] /\ i - 2 \in 1..n
      /\ \A i \in 1..n : o[i] = s[i + 2] /\ i + 2 \in 3..(n + 2)
    BY <1>0, Lists
<1>2. \A i \in 1..n : o[i] \in Seq(Block)
    BY <1>0
<1>3. n > 0 => b = <<>>
    BY <1>0
<1> HIDE DEF n
<1>4. ASSUME NEW i \in DOMAIN s PROVE i = 1 \/ i = 2 \/ i \in 3..(n + 2)
  <2>1. i \in 1..(n + 2) /\ n \in Nat
    BY <1>1
  <2> QED BY <2>1
<1>5. \A i \in DOMAIN s : s[i] \in Seq(Block) /\ Apart(s[i])
    BY <1>0, <1>1, <1>2, <1>4
<1>6. ASSUME NEW i \in DOMAIN s, NEW j \in DOMAIN s, i < j
      PROVE  Contents(s[i]) \cap Contents(s[j]) = {}
  <2>1. CASE i = 1 /\ j = 2
    BY <1>0, <1>1, <2>1, AheadDisjoint
  <2>2. CASE i = 1 /\ j \in 3..(n + 2)
    <3>1. o[j - 2] \in Seq(Block) /\ Ahead(o[j - 2], a)
      BY <1>0, <1>1, <1>2, <2>2
    <3> QED BY <1>0, <1>1, <2>2, <3>1, AheadDisjoint
  <2>3. CASE i = 2 /\ j \in 3..(n + 2)
    <3>1. b = <<>>
      BY <1>1, <1>3, <2>3
    <3>2. Contents(<<>>) = {}
      BY DEF Contents
    <3> QED BY <1>1, <2>3, <3>1, <3>2
  <2>4. CASE i \in 3..(n + 2) /\ j \in 3..(n + 2)
    <3>1. /\ o[i - 2] \in Seq(Block) /\ o[j - 2] \in Seq(Block)
          /\ i - 2 \in 1..n /\ j - 2 \in 1..n /\ i - 2 < j - 2
          /\ s[i] = o[i - 2] /\ s[j] = o[j - 2]
      <4>1. i - 2 \in 1..n /\ j - 2 \in 1..n /\ s[i] = o[i - 2] /\ s[j] = o[j - 2]
        BY <1>1, <2>4
      <4>2. i - 2 < j - 2
        BY <1>6, <2>4
      <4> QED BY <1>2, <4>1, <4>2
    <3>2. Ahead(o[i - 2], o[j - 2])
      BY <1>0, <3>1
    <3>3. Contents(o[i - 2]) \cap Contents(o[j - 2]) = {}
      BY <3>1, <3>2, AheadDisjoint
    <3> QED BY <3>1, <3>3
  <2>5. i \in 1..(n + 2) /\ j \in 1..(n + 2) /\ i < j /\ n \in Nat
    BY <1>1, <1>6
  <2>6. (i = 1 \/ i = 2 \/ i \in 3..(n + 2)) /\ (j = 1 \/ j = 2 \/ j \in 3..(n + 2))
    BY <1>4
  <2>7. i = 1 => j # 1
    BY ONLY <2>5
  <2>8. i = 2 => j # 1 /\ j # 2
    BY ONLY <2>5
  <2>9. i \in 3..(n + 2) => j # 1 /\ j # 2
    BY ONLY <2>5
  <2> QED BY <2>1, <2>2, <2>3, <2>4, <2>6, <2>7, <2>8, <2>9
<1>7. Union(s) = Contents(a) \cup Contents(b) \cup Total(o)
  <2>1. ASSUME NEW c, NEW i \in DOMAIN s, c \in Contents(s[i])
        PROVE  c \in Contents(a) \cup Contents(b) \cup Total(o)
    <3>1. CASE i \in 3..(n + 2)
      BY <1>1, <2>1, <3>1 DEF Total, n
    <3> QED BY <1>1, <1>4, <2>1, <3>1
  <2>2. ASSUME NEW c, c \in Contents(a) \cup Contents(b) \cup Total(o)
        PROVE  \E i \in DOMAIN s : c \in Contents(s[i])
    <3>1. CASE c \in Total(o)
      <4>1. PICK i \in 1..n : c \in Contents(o[i])
        BY <3>1 DEF Total, n
      <4>2. i + 2 \in DOMAIN s /\ c \in Contents(s[i + 2])
        BY <1>1, <4>1
      <4> QED BY <4>2
    <3>2. 1 \in DOMAIN s /\ 2 \in DOMAIN s
      BY <1>1
    <3> QED BY <1>1, <2>2, <3>1, <3>2
  <2> QED BY <2>1, <2>2 DEF Union
<1>8. \A i \in DOMAIN s : i \in Int
    BY <1>1
<1>9. ASSUME NEW i \in DOMAIN s, NEW j \in DOMAIN s, i # j
      PROVE  Contents(s[i]) \cap Contents(s[j]) = {}
  <2>1. i < j \/ j < i
    BY <1>8, <1>9
  <2> QED BY <1>6, <2>1
<1> QED
    BY <1>5, <1>7, <1>9, OrderedApart DEF Separate

\* Through both calls of sparse_file_resparse() every block of the image is in
\* exactly one of in_s, tmp and the sparse files, and the second call makes as
\* many sparse files as the first one counted, whatever the image and the limit.
THEOREM NothingLostHolds == Spec => []NothingLost
<1>1. ImageInv => NothingLost
  <2> SUFFICES ASSUME ImageInv PROVE NothingLost
    OBVIOUS
  <2> DEFINE s == <<in_s.list, tmp>> \o out_s
  <2>0. Apart(<<>>) /\ Contents(<<>>) = {} /\ Total(<<>>) = {} /\ Len(<<>>) = 0
        /\ <<>> \in Seq(Block) /\ <<>> \in Seq(Seq(Block))
        /\ \A l : Ahead(<<>>, l)
    BY DEF Apart, Contents, Total, Ahead
  <2>1. CASE phase = "count"
    <3>1. out_s = <<>> /\ Counted(tmp, in_s.list, count)
          /\ Contents(tmp \o in_s.list) = ImageContents
      BY <2>1 DEF ImageInv, CountOk
    <3>2. tmp \in Seq(Block) /\ in_s.list \in Seq(Block) /\ Apart(tmp \o in_s.list)
      BY <3>1 DEF Counted
    <3>3. /\ Apart(tmp) /\ Apart(in_s.list) /\ Ahead(tmp, in_s.list)
          /\ ImageContents = Contents(tmp) \cup Contents(in_s.list)
      BY <3>1, <3>2, ApartConcat
    <3>5. Separate(s) /\ Union(s) = Contents(in_s.list) \cup Contents(tmp) \cup Total(out_s)
      <4> DEFINE a == in_s.list
      <4>1. Divided(out_s, a)
        BY <2>0, <3>1, <3>2, <3>3 DEF Divided
      <4>2. tmp \in Seq(Block) /\ Apart(tmp) /\ Ahead(tmp, a) /\ (tmp = <<>> \/ out_s = <<>>)
        BY <3>1, <3>2, <3>3
      <4>3. s = <<a, tmp>> \o out_s
        OBVIOUS
      <4> HIDE DEF a, s
      <4>4. LaidOut(a, tmp, out_s, s)
        BY ONLY <4>1, <4>2, <4>3 DEF LaidOut
      <4>5. Gathers(a, tmp, out_s, s)
        BY ONLY <4>4, ListsApart
      <4> QED BY <4>5 DEF a, Gathers
    <3> HIDE DEF s
    <3>6. Separate(s) /\ Union(s) = ImageContents
      BY <2>0, <3>1, <3>3, <3>5
    <3> QED BY <2>1, <3>6 DEF NothingLost, Separate, Union, s
  <2>2. CASE phase = "split"
    <3>1. tmp = <<>> /\ Divided(out_s, in_s.list)
          /\ Total(out_s) \cup Contents(in_s.list) = ImageContents
      BY <2>2 DEF ImageInv, SplitOk
    <3>3. tmp \in Seq(Block) /\ Apart(tmp) /\ Ahead(tmp, in_s.list) /\ Contents(tmp) = {}
      BY <2>0, <3>1
    <3>5. Separate(s) /\ Union(s) = Contents(in_s.list) \cup Contents(tmp) \cup Total(out_s)
      <4> DEFINE a == in_s.list
      <4>1. Divided(out_s, a)
        BY <3>1
      <4>2. tmp \in Seq(Block) /\ Apart(tmp) /\ Ahead(tmp, a) /\ (tmp = <<>> \/ out_s = <<>>)
        BY <3>1, <3>3
      <4>3. s = <<a, tmp>> \o out_s
        OBVIOUS
      <4> HIDE DEF a, s
      <4>4. LaidOut(a, tmp, out_s, s)
        BY ONLY <4>1, <4>2, <4>3 DEF LaidOut
      <4>5. Gathers(a, tmp, out_s, s)
        BY ONLY <4>4, ListsApart
      <4> QED BY <4>5 DEF a, Gathers
    <3> HIDE DEF s
    <3>6. Separate(s) /\ Union(s) = ImageContents
      BY <3>1, <3>3, <3>5
    <3> QED BY <2>2, <3>6 DEF NothingLost, Separate, Union, s
  <2>3. CASE phase = "queue"
    <3>1. Ready(out_s, in_s.list, files, ImageContents)
      BY <2>3 DEF ImageInv
    <3>2. ASSUME files > 0
          PROVE  /\ Len(out_s) = files /\ in_s.list = <<>> /\ out_s \in Seq(Seq(Block))
                 /\ Total(out_s) = ImageContents
      BY <3>1, <3>2 DEF Ready, Divided
    <3>3. ASSUME files > 0 PROVE DOMAIN out_s = 1..Len(out_s)
      BY <3>2, <3>3
    <3> QED BY <2>3, <3>2, <3>3 DEF NothingLost, Total
  <2> QED
    BY <2>1, <2>2, <2>3 DEF NothingLost
<1> QED
    BY <1>1, ImageKept, PTL

\* Every sparse file is within what the device can take, but for the skip
\* chunks between its blocks.
THEOREM WithinLimitHolds == Spec => []WithinLimit
<1>1. ImageInv => WithinLimit
  <2> SUFFICES ASSUME ImageInv, NEW l \in Parts
               PROVE  sparse_file_len(l, file.len) <= Limit + ChunkLen * Cardinality(Gaps(l) \ {1})
    BY DEF WithinLimit
  <2>1. phase = "queue" /\ l \in Range(out_s)
    BY DEF Parts
  <2>2. Ready(out_s, in_s.list, files, ImageContents) /\ file.len \in Nat
    BY <2>1 DEF ImageInv
  <2>3. PICK i \in DOMAIN out_s : l = out_s[i]
    BY <2>1 DEF Range
  <2>4. out_s # <<>>
    BY <2>3
  <2>5. Divided(out_s, <<>>)
    BY <2>2, <2>4 DEF Ready
  <2>6. l \in Seq(Block) /\ Apart(l) /\ Small(l)
    <3>1. out_s \in Seq(Seq(Block)) /\ \A k \in 1..Len(out_s) : Apart(out_s[k]) /\ Small(out_s[k])
      BY <2>5 DEF Divided
    <3>2. i \in 1..Len(out_s) /\ out_s[i] \in Seq(Block)
      BY <3>1
    <3> QED BY <2>3, <3>1, <3>2
  <2> QED
    BY <2>2, <2>6, SmallLimit
<1> QED
    BY <1>1, ImageKept, PTL

-----------------------------------------------------------------------------
(* Bytes over the link. *)

\* BytesOf() adds up the lengths.
LEMMA BytesSums ==
    ASSUME NEW s \in Seq(Nat)
    PROVE  \E f : Sums(f, Len(s), 0, s) /\ BytesOf(s) = f[Len(s)]
<1> DEFINE n == Len(s)
           Sum(f) == f = [i \in 0..n |-> IF i = 0 THEN 0 ELSE f[i - 1] + s[i]]
           sum == CHOOSE f : Sum(f)
<1>1. n \in Nat /\ s \in [1..n -> Nat] /\ 0 \in Nat
    OBVIOUS
<1>2. PICK g : Sums(g, n, 0, s)
    BY <1>1, SumsExist
<1>3. g \in [0..n -> Nat] /\ g[0] = 0 /\ \A i \in 1..n : g[i] = g[i - 1] + s[i]
    BY <1>2 DEF Sums
<1>4. Sum(g)
  <2>1. ASSUME NEW i \in 0..n PROVE g[i] = IF i = 0 THEN 0 ELSE g[i - 1] + s[i]
    <3>1. CASE i = 0
      BY <1>3, <3>1
    <3>2. CASE i # 0
      <4>1. i \in 1..n
        BY <1>1, <3>2
      <4> QED BY <1>3, <3>2, <4>1
    <3> QED BY <3>1, <3>2
  <2> QED BY <1>3, <2>1
<1>5. Sum(sum)
    BY <1>4
<1>6. BytesOf(s) = sum[n]
    BY DEF BytesOf
<1> HIDE DEF sum
<1>7. \A i \in 0..n : sum[i] = IF i = 0 THEN 0 ELSE sum[i - 1] + s[i]
    BY <1>5
<1> HIDE DEF Sum
<1> DEFINE T == {i \in 0..n : sum[i] = g[i]}
<1>8. 0 \in T
    BY <1>1, <1>3, <1>7
<1>9. ASSUME NEW i \in 1..n, i - 1 \in T PROVE i \in T
  <2>1. i \in 0..n /\ i # 0 /\ sum[i - 1] = g[i - 1]
    BY <1>1, <1>9
  <2>2. sum[i] = g[i]
    BY <1>3, <1>7, <2>1
  <2> QED BY <2>1, <2>2
<1> HIDE DEF T
<1>10. 0..n \subseteq T
    BY <1>1, <1>8, <1>9, BoundedInduction
<1>11. sum[n] = g[n]
    BY <1>1, <1>10 DEF T
<1> QED
    BY <1>2, <1>6, <1>11

\* Of two sequences, one behind the other.
LEMMA BytesConcat ==
    ASSUME NEW s \in Seq(Nat), NEW t \in Seq(Nat)
    PROVE  /\ BytesOf(s) \in Nat /\ BytesOf(t) \in Nat
           /\ BytesOf(s \o t) = BytesOf(s) + BytesOf(t)
<1> DEFINE r == s \o t
           m == Len(s)
           n == Len(t)
<1>1. PICK f : Sums(f, m, 0, s) /\ BytesOf(s) = f[m]
    BY BytesSums
<1>2. PICK g : Sums(g, n, 0, t) /\ BytesOf(t) = g[n]
    BY BytesSums
<1>3. /\ r \in Seq(Nat) /\ Len(r) = m + n /\ m \in Nat /\ n \in Nat
      /\ \A k \in 1..m : r[k] = s[k]
      /\ \A k \in (m + 1)..(m + n) : r[k] = t[k - m]
    BY Concat
<1> HIDE DEF r
<1>4. PICK h : Sums(h, m + n, 0, r) /\ BytesOf(r) = h[m + n]
  <2>1. PICK h : Sums(h, Len(r), 0, r) /\ BytesOf(r) = h[Len(r)]
    BY <1>3, BytesSums
  <2> QED BY <1>3, <2>1
<1> HIDE DEF m, n
<1>5. Agree(f, h, 0..m)
  <2>1. Agree(s, r, 1..m)
    BY <1>3 DEF Agree
  <2>2. m \in 0..m /\ m + n \in Nat /\ m <= m + n
    BY <1>3
  <2> QED BY <1>1, <1>3, <1>4, <2>1, <2>2, SumsSame
<1>6. h[m] = f[m]
    BY <1>3, <1>5 DEF Agree
<1>7. /\ f \in [0..m -> Nat] /\ g \in [0..n -> Nat] /\ g[0] = 0
      /\ \A i \in 1..n : g[i] = g[i - 1] + t[i]
    BY <1>1, <1>2 DEF Sums
<1>8. \A i \in 1..(m + n) : h[i] = h[i - 1] + r[i]
    BY <1>4 DEF Sums
<1>9. \A i \in 1..n : t[i] \in Nat
    BY DEF n
<1>10. f[m] \in Nat /\ g[n] \in Nat
    BY <1>3, <1>7
<1> DEFINE T == {i \in 0..n : h[m + i] = f[m] + g[i]}
<1>11. 0 \in T
    BY <1>3, <1>6, <1>7, <1>10
<1>12. ASSUME NEW i \in 1..n, i - 1 \in T PROVE i \in T
  <2>1. h[m + (i - 1)] = f[m] + g[i - 1] /\ i \in 0..n /\ i - 1 \in 0..n
    BY <1>3, <1>12
  <2> DEFINE k == m + i
  <2>2. /\ k \in 1..(m + n) /\ k \in (m + 1)..(m + n) /\ k - 1 = m + (i - 1) /\ k - m = i
    BY <1>3
  <2> HIDE DEF k
  <2>3. h[k] = h[k - 1] + r[k] /\ r[k] = t[k - m]
    BY <1>3, <1>8, <2>2
  <2>4. h[k] = (f[m] + g[i - 1]) + t[i]
    BY <2>1, <2>2, <2>3
  <2>5. g[i - 1] \in Nat /\ t[i] \in Nat /\ g[i] = g[i - 1] + t[i]
    BY <1>7, <1>9, <2>1
  <2>6. h[k] = f[m] + g[i]
    BY <1>10, <2>4, <2>5
  <2> QED BY <2>1, <2>6 DEF k
<1> HIDE DEF T
<1>13. 0..n \subseteq T
    BY <1>3, <1>11, <1>12, BoundedInduction
<1>14. h[m + n] = f[m] + g[n]
    BY <1>3, <1>13 DEF T
<1> QED
    BY <1>1, <1>2, <1>4, <1>10, <1>14 DEF r

\* Of none, and of one.
LEMMA BytesNone == BytesOf(<<>>) = 0
<1> DEFINE e == <<>>
<1>1. e \in Seq(Nat) /\ Len(e) = 0
    OBVIOUS
<1> HIDE DEF e
<1>2. PICK f : Sums(f, Len(e), 0, e) /\ BytesOf(e) = f[Len(e)]
    BY <1>1, BytesSums
<1>3. BytesOf(e) = 0
    BY <1>1, <1>2 DEF Sums
<1> QED
    BY <1>3 DEF e

LEMMA BytesFew ==
    ASSUME NEW x \in Nat
    PROVE  BytesOf(<<>>) = 0 /\ BytesOf(<<x>>) = x
<1> DEFINE e == <<>>
           s == <<x>>
<1>1. e \in Seq(Nat) /\ Len(e) = 0 /\ s \in Seq(Nat) /\ Len(s) = 1 /\ s[1] = x
    OBVIOUS
<1> HIDE DEF e, s
<1>2. PICK f : Sums(f, Len(e), 0, e) /\ BytesOf(e) = f[Len(e)]
    BY <1>1, BytesSums
<1>3. PICK g : Sums(g, Len(s), 0, s) /\ BytesOf(s) = g[Len(s)]
    BY <1>1, BytesSums
<1>4. BytesOf(e) = 0
    BY <1>1, <1>2 DEF Sums
<1>5. g[0] = 0 /\ g[1] = g[1 - 1] + s[1]
  <2>1. 1 \in 1..Len(s)
    BY <1>1
  <2> QED BY <1>3, <2>1 DEF Sums
<1>6. 1 - 1 = 0
    OBVIOUS
<1>7. BytesOf(s) = x
    BY <1>1, <1>3, <1>5, <1>6
<1> QED
    BY <1>4, <1>7 DEF e, s

\* usb_buf_len, and what was written to the device.
LinkState == [buf : 0..1024, sent : Seq(Nat)]

\* Writes of whole multiples of USB_BUF_SIZE.
Whole(s) == \A i \in 1..Len(s) : s[i] % 1024 = 0

LEMMA WholeConcat ==
    ASSUME NEW s \in Seq(Nat), NEW t \in Seq(Nat), Whole(s), Whole(t)
    PROVE  Whole(s \o t)
<1>1. /\ Len(s \o t) = Len(s) + Len(t) /\ Len(s) \in Nat /\ Len(t) \in Nat
      /\ \A k \in 1..Len(s) : (s \o t)[k] = s[k]
      /\ \A k \in (Len(s) + 1)..(Len(s) + Len(t)) : (s \o t)[k] = t[k - Len(s)]
    BY Concat
<1> SUFFICES ASSUME NEW i \in 1..Len(s \o t) PROVE (s \o t)[i] % 1024 = 0
    BY DEF Whole
<1>2. CASE i \in 1..Len(s)
    BY <1>1, <1>2 DEF Whole
<1>3. CASE i \notin 1..Len(s)
  <2>1. i \in (Len(s) + 1)..(Len(s) + Len(t)) /\ i - Len(s) \in 1..Len(t)
    BY <1>1, <1>3
  <2> QED BY <1>1, <2>1 DEF Whole
<1> QED
    BY <1>2, <1>3

LEMMA SingleWrite ==
    ASSUME NEW x \in Nat
    PROVE  /\ <<>> \in Seq(Nat) /\ BytesOf(<<>>) = 0 /\ Whole(<<>>)
           /\ <<x>> \in Seq(Nat) /\ BytesOf(<<x>>) = x /\ (x % 1024 = 0 => Whole(<<x>>))
<1>1. Whole(<<>>) /\ (x % 1024 = 0 => Whole(<<x>>))
    BY DEF Whole
<1> QED
    BY <1>1, BytesFew

\* How a write of len bytes, with b in the buffer, is divided: n fill the
\* buffer, "direct" go as they are, c is then in the buffer.
Divides(b, len, n, direct, c) ==
    /\ n \in Nat /\ direct \in Nat /\ c \in 0..1024 /\ direct % 1024 = 0
    /\ b + len = (IF b + n = 1024 THEN 1024 ELSE 0) + direct + c

\* How the code finds them.
Computed(b, len, n, left, direct, c) ==
    /\ n = (IF b > 0 /\ 1024 - b < len THEN 1024 - b ELSE IF b > 0 THEN len ELSE 0)
    /\ left = len - n
    /\ direct = (IF left > 1024 THEN left - (left % 1024) ELSE 0)
    /\ c = (IF left > direct THEN left - direct ELSE IF b + n = 1024 THEN 0 ELSE b + n)

LEMMA WriteDivides ==
    ASSUME NEW b \in 0..1024, NEW len \in Nat, NEW n, NEW left, NEW direct, NEW c,
           Computed(b, len, n, left, direct, c)
    PROVE  Divides(b, len, n, direct, c)
<1> USE DEF Computed
<1>1. n \in 0..len /\ b + n <= 1024 /\ (n < len => b = 0 \/ b + n = 1024) /\ (b = 0 => n = 0)
    OBVIOUS
<1>2. left \in Nat /\ left + n = len
    BY <1>1
<1>3. direct \in Nat /\ direct % 1024 = 0 /\ direct <= left /\ left - direct <= 1024
  <2>1. CASE left > 1024
    <3> DEFINE r == left % 1024
    <3>1. r \in 0..1023 /\ (left - r) % 1024 = 0
      BY <1>2, SMTT(60)
    <3>2. direct = left - r
      BY <2>1
    <3> HIDE DEF r
    <3> QED BY <1>2, <2>1, <3>1, <3>2
  <2>2. CASE ~ (left > 1024)
    BY <1>2, <2>2
  <2> QED BY <2>1, <2>2
<1>4. CASE left > direct
  <2>1. c = left - direct /\ n < len
    BY <1>1, <1>2, <1>3, <1>4
  <2>2. (b = 0 /\ n = 0) \/ b + n = 1024
    BY <1>1, <2>1
  <2>3. b + len = (IF b + n = 1024 THEN 1024 ELSE 0) + direct + c
    BY <1>1, <1>2, <1>3, <2>1, <2>2
  <2>4. c \in 0..1024 /\ n \in Nat
    BY ONLY <1>1, <1>2, <1>3, <1>4, <2>1, len \in Nat
  <2> QED BY ONLY <1>3, <2>3, <2>4 DEF Divides
<1>5. CASE ~ (left > direct)
  <2>1. left = direct
    BY <1>2, <1>3, <1>5
  <2>2. c = IF b + n = 1024 THEN 0 ELSE b + n
    BY <1>5
  <2>3. b + len = (IF b + n = 1024 THEN 1024 ELSE 0) + direct + c
    BY <1>1, <1>2, <2>1, <2>2
  <2>4. c \in 0..1024 /\ n \in Nat
    BY ONLY <1>1, <2>2, b \in 0..1024, len \in Nat
  <2> QED BY ONLY <1>3, <2>3, <2>4 DEF Divides
<1> QED
    BY <1>4, <1>5

\* What a write does to the buffer and to the device.
Passes(u, len, v) ==
    /\ v \in LinkState /\ (Whole(u.sent) => Whole(v.sent))
    /\ BytesOf(v.sent) \in Nat /\ BytesOf(u.sent) \in Nat
    /\ BytesOf(v.sent) + v.buf = BytesOf(u.sent) + u.buf + len

LEMMA WriteGoes ==
    ASSUME NEW u \in LinkState, NEW len \in Nat
    PROVE  Passes(u, len, fb_download_data_sparse_write(u, len))
<1> DEFINE b == u.buf
           s == u.sent
           n == IF b > 0 /\ 1024 - b < len THEN 1024 - b ELSE IF b > 0 THEN len ELSE 0
           left == len - n
           direct == IF left > 1024 THEN left - (left % 1024) ELSE 0
           c == IF left > direct THEN left - direct ELSE IF b + n = 1024 THEN 0 ELSE b + n
           p == IF b + n = 1024 THEN <<1024>> ELSE <<>>
           q == IF direct > 0 THEN <<direct>> ELSE <<>>
           v == [buf |-> c, sent |-> s \o p \o q]
<1>1. b \in 0..1024 /\ s \in Seq(Nat)
    BY DEF LinkState
<1>2. fb_download_data_sparse_write(u, len) = v
    BY DEF fb_download_data_sparse_write, USB_BUF_SIZE
<1>3. Computed(b, len, n, left, direct, c)
    BY DEF Computed
<1> HIDE DEF b, s, n, left, direct, c
<1>4. Divides(b, len, n, direct, c)
    BY <1>1, <1>3, WriteDivides, ZenonT(60)
<1>5. /\ n \in Nat /\ direct \in Nat /\ c \in 0..1024 /\ direct % 1024 = 0
      /\ b + len = (IF b + n = 1024 THEN 1024 ELSE 0) + direct + c
    BY <1>4 DEF Divides
<1>6. p \in Seq(Nat) /\ BytesOf(p) = (IF b + n = 1024 THEN 1024 ELSE 0) /\ Whole(p)
  <2> DEFINE k == 1024
  <2>1. k \in Nat /\ k % 1024 = 0
    OBVIOUS
  <2> HIDE DEF k
  <2>2. /\ <<>> \in Seq(Nat) /\ BytesOf(<<>>) = 0 /\ Whole(<<>>)
        /\ <<k>> \in Seq(Nat) /\ BytesOf(<<k>>) = k /\ Whole(<<k>>)
    BY <2>1, SingleWrite
  <2>3. CASE b + n = 1024
    BY <2>2, <2>3 DEF k
  <2>4. CASE b + n # 1024
    BY <2>2, <2>4
  <2> QED BY <2>3, <2>4
<1>7. q \in Seq(Nat) /\ BytesOf(q) = direct /\ Whole(q)
  <2>1. /\ <<>> \in Seq(Nat) /\ BytesOf(<<>>) = 0 /\ Whole(<<>>)
        /\ <<direct>> \in Seq(Nat) /\ BytesOf(<<direct>>) = direct /\ Whole(<<direct>>)
    BY <1>5, SingleWrite
  <2>2. direct > 0 \/ direct = 0
    BY <1>5
  <2>3. CASE direct > 0
    BY <2>1, <2>3
  <2>4. CASE direct = 0
    BY <2>1, <2>4
  <2> QED BY <2>2, <2>3, <2>4
<1> DEFINE a == s \o p
           z == a \o q
<1>8. v = [buf |-> c, sent |-> z]
    OBVIOUS
<1> HIDE DEF p, q, v
<1>9. a \in Seq(Nat) /\ BytesOf(s) \in Nat /\ BytesOf(p) \in Nat
      /\ BytesOf(a) = BytesOf(s) + BytesOf(p) /\ (Whole(s) => Whole(a))
    BY <1>1, <1>6, BytesConcat, WholeConcat, Concat
<1> HIDE DEF a
<1>10. /\ z \in Seq(Nat) /\ BytesOf(z) = BytesOf(a) + BytesOf(q) /\ (Whole(a) => Whole(z))
    BY <1>7, <1>9, BytesConcat, WholeConcat, Concat
<1> HIDE DEF z
<1>11. BytesOf(z) \in Nat /\ BytesOf(z) + c = BytesOf(s) + b + len
  <2> DEFINE x == BytesOf(s)
             y == BytesOf(p)
             r == BytesOf(z)
  <2>1. /\ x \in Nat /\ y \in Nat /\ r = x + y + direct
        /\ y = (IF b + n = 1024 THEN 1024 ELSE 0)
    BY <1>6, <1>7, <1>9, <1>10
  <2> HIDE DEF x, y, r
  <2>2. r \in Nat /\ r + c = x + b + len
    BY ONLY <1>1, <1>5, <2>1, len \in Nat
  <2> QED BY <2>2 DEF x, r
<1>12. v.buf = c /\ v.sent = z /\ v \in LinkState
    BY <1>5, <1>8, <1>10 DEF LinkState
<1>13. Passes(u, len, v)
    BY <1>9, <1>10, <1>11, <1>12 DEF Passes, b, s
<1> QED
    BY <1>2, <1>13

\* f[i] is the state after i writes.
Runs(f, w) ==
    /\ f \in [0..Len(w) -> LinkState] /\ f[0] = [buf |-> 0, sent |-> <<>>]
    /\ \A i \in 1..Len(w) : f[i] = fb_download_data_sparse_write(f[i - 1], w[i])

LEMMA SparseRuns ==
    ASSUME NEW list, NEW len, NEW w \in Seq(Nat), w = Writes(list, len)
    PROVE  \E f : /\ Runs(f, w)
                  /\ fb_download_data_sparse(list, len)
                       = f[Len(w)].sent \o (IF f[Len(w)].buf > 0 THEN <<f[Len(w)].buf>> ELSE <<>>)
<1> DEFINE n == Len(w)
           a == [buf |-> 0, sent |-> <<>>]
           step == [i \in 1..n |-> [v \in LinkState |-> fb_download_data_sparse_write(v, w[i])]]
           Rec(f) == f = [i \in 0..n |-> IF i = 0 THEN [buf |-> 0, sent |-> <<>>]
                                         ELSE fb_download_data_sparse_write(f[i - 1], w[i])]
           c == CHOOSE f : Rec(f)
<1>1. n \in Nat /\ \A i \in 1..n : w[i] \in Nat
    OBVIOUS
<1>2. fb_download_data_sparse(list, len)
        = c[n].sent \o (IF c[n].buf > 0 THEN <<c[n].buf>> ELSE <<>>)
    BY DEF fb_download_data_sparse
<1>3. a \in LinkState
    BY DEF LinkState
<1>4. step \in [1..n -> [LinkState -> LinkState]]
  <2>1. ASSUME NEW i \in 1..n, NEW v \in LinkState
        PROVE  fb_download_data_sparse_write(v, w[i]) \in LinkState
    <3>1. w[i] \in Nat
      BY <1>1
    <3> QED BY <3>1, WriteGoes DEF Passes
  <2> QED BY <2>1
<1>5. \A i \in 1..n : \A v \in LinkState : step[i][v] = fb_download_data_sparse_write(v, w[i])
    OBVIOUS
<1> HIDE DEF step, n, a
<1>6. PICK f : Recurs(f, n, LinkState, a, step)
    BY <1>1, <1>3, <1>4, Recursion
<1>7. f \in [0..n -> LinkState] /\ f[0] = a /\ \A i \in 1..n : f[i] = step[i][f[i - 1]]
    BY <1>6 DEF Recurs
<1>8. ASSUME NEW i \in 1..n PROVE f[i] = fb_download_data_sparse_write(f[i - 1], w[i])
  <2>1. i - 1 \in 0..n
    BY <1>1
  <2>2. f[i - 1] \in LinkState
    BY <1>7, <2>1
  <2> QED BY <1>5, <1>7, <2>2
<1>9. Rec(f)
  <2>1. ASSUME NEW i \in 0..n
        PROVE  f[i] = IF i = 0 THEN [buf |-> 0, sent |-> <<>>]
                      ELSE fb_download_data_sparse_write(f[i - 1], w[i])
    <3>1. CASE i = 0
      BY <1>7, <3>1 DEF a
    <3>2. CASE i # 0
      <4>1. i \in 1..n
        BY <1>1, <3>2
      <4> QED BY <1>8, <3>2, <4>1
    <3> QED BY <3>1, <3>2
  <2> QED BY <1>7, <2>1
<1>10. Rec(c)
    BY <1>9
<1> HIDE DEF c
<1>11. \A i \in 0..n : c[i] = IF i = 0 THEN a
                              ELSE fb_download_data_sparse_write(c[i - 1], w[i])
    BY <1>10 DEF a
<1> HIDE DEF Rec
<1> DEFINE T == {i \in 0..n : c[i] = f[i]}
<1>12. 0 \in T
    BY <1>1, <1>7, <1>11
<1>13. ASSUME NEW i \in 1..n, i - 1 \in T PROVE i \in T
  <2>1. c[i - 1] = f[i - 1] /\ i \in 0..n /\ i # 0
    BY <1>1, <1>13
  <2>2. c[i] = f[i]
    BY <1>8, <1>11, <2>1
  <2> QED BY <2>1, <2>2
<1> HIDE DEF T
<1>14. 0..n \subseteq T
    BY <1>1, <1>12, <1>13, BoundedInduction
<1>15. c[n] = f[n]
    BY <1>1, <1>14 DEF T
<1>16. Runs(f, w)
    BY <1>7, <1>8 DEF Runs, n, a
<1> QED
    BY <1>2, <1>15, <1>16 DEF n

\* All that is written goes over the link, and nothing else; only the last
\* write to the device may be other than a multiple of USB_BUF_SIZE.
LEMMA SparseSends ==
    ASSUME NEW list, NEW len, NEW w \in Seq(Nat), w = Writes(list, len),
           NEW sent, sent = fb_download_data_sparse(list, len)
    PROVE  /\ sent \in Seq(Nat) /\ BytesOf(sent) = BytesOf(w)
           /\ \A i \in 1..(Len(sent) - 1) : sent[i] % 1024 = 0
<1> DEFINE n == Len(w)
<1>1. PICK f : /\ Runs(f, w)
               /\ fb_download_data_sparse(list, len)
                    = f[n].sent \o (IF f[n].buf > 0 THEN <<f[n].buf>> ELSE <<>>)
    BY SparseRuns
<1>2. PICK g : Sums(g, n, 0, w) /\ BytesOf(w) = g[n]
    BY BytesSums
<1>3. n \in Nat /\ \A i \in 1..n : w[i] \in Nat
    OBVIOUS
<1>4. /\ f \in [0..n -> LinkState] /\ f[0] = [buf |-> 0, sent |-> <<>>]
      /\ \A i \in 1..n : f[i] = fb_download_data_sparse_write(f[i - 1], w[i])
    BY <1>1 DEF Runs
<1>5. /\ g \in [0..n -> Nat] /\ g[0] = 0 /\ \A i \in 1..n : g[i] = g[i - 1] + w[i]
    BY <1>2 DEF Sums
<1> HIDE DEF n
<1> DEFINE Right(i) == Whole(f[i].sent) /\ BytesOf(f[i].sent) \in Nat
                       /\ BytesOf(f[i].sent) + f[i].buf = g[i]
           T == {i \in 0..n : Right(i)}
<1>6. 0 \in T
  <2>1. 0 \in Nat /\ f[0].sent = <<>> /\ f[0].buf = 0
    BY <1>4
  <2>2. BytesOf(<<>>) = 0 /\ Whole(<<>>)
    BY <2>1, SingleWrite
  <2> QED BY <1>3, <1>5, <2>1, <2>2
<1>7. ASSUME NEW i \in 1..n, i - 1 \in T PROVE i \in T
  <2> DEFINE u == f[i - 1]
             v == f[i]
             x == w[i]
  <2>1. i \in 0..n /\ i - 1 \in 0..n /\ x \in Nat
    BY <1>3
  <2>2. u \in LinkState /\ v = fb_download_data_sparse_write(u, x)
    BY <1>4, <2>1
  <2>3. Right(i - 1)
    BY <1>7
  <2>4. Whole(u.sent) /\ BytesOf(u.sent) \in Nat /\ BytesOf(u.sent) + u.buf = g[i - 1]
    BY <2>3
  <2>5. g[i] = g[i - 1] + x /\ g[i - 1] \in Nat
    BY <1>5, <2>1
  <2> HIDE DEF u, v, x
  <2>6. Passes(u, x, v)
    BY <2>1, <2>2, WriteGoes
  <2>7. /\ Whole(v.sent) /\ BytesOf(v.sent) \in Nat
        /\ BytesOf(v.sent) + v.buf = BytesOf(u.sent) + u.buf + x
    BY <2>4, <2>6 DEF Passes
  <2>8. BytesOf(v.sent) + v.buf = g[i]
    BY <2>4, <2>5, <2>7
  <2>9. Right(i)
    BY <2>7, <2>8 DEF v
  <2> HIDE DEF Right
  <2> QED BY <2>1, <2>9
<1> HIDE DEF T
<1>8. 0..n \subseteq T
    BY <1>3, <1>6, <1>7, BoundedInduction
<1>9. n \in 0..n /\ n \in T
    BY <1>3, <1>8
<1> DEFINE s == f[n].sent
           b == f[n].buf
           e == IF b > 0 THEN <<b>> ELSE <<>>
<1>10. s \in Seq(Nat) /\ b \in Nat
  <2>1. f[n] \in LinkState
    BY <1>4, <1>9
  <2>2. f[n].sent \in Seq(Nat) /\ f[n].buf \in 0..1024
    BY ONLY <2>1, ZenonT(60) DEF LinkState
  <2>3. f[n].buf \in Nat
    <3> DEFINE y == f[n].buf
    <3>1. y \in 0..1024
      BY <2>2, SMTT(60), ZenonT(60)
    <3> HIDE DEF y
    <3>2. y \in Nat
      BY ONLY <3>1
    <3> QED BY <3>2 DEF y
  <2> QED BY ONLY <2>2, <2>3
<1>11. Whole(s) /\ BytesOf(s) \in Nat /\ BytesOf(s) + b = BytesOf(w)
    BY <1>2, <1>9 DEF T
<1>12. sent = s \o e
    BY <1>1
<1> HIDE DEF s, b
<1>13. e \in Seq(Nat) /\ BytesOf(e) = b /\ Len(e) <= 1
  <2>1. <<>> \in Seq(Nat) /\ BytesOf(<<>>) = 0 /\ <<b>> \in Seq(Nat) /\ BytesOf(<<b>>) = b
    BY <1>10, SingleWrite
  <2>2. CASE b > 0
    BY <2>1, <2>2
  <2>3. CASE b = 0
    BY <2>1, <2>3
  <2> QED BY <1>10, <2>2, <2>3
<1> HIDE DEF e
<1>14. sent \in Seq(Nat) /\ BytesOf(sent) = BytesOf(w)
    BY <1>10, <1>11, <1>12, <1>13, BytesConcat, Concat
<1>15. ASSUME NEW i \in 1..(Len(sent) - 1) PROVE sent[i] % 1024 = 0
  <2>1. /\ Len(sent) = Len(s) + Len(e) /\ Len(s) \in Nat /\ Len(e) \in Nat
        /\ \A k \in 1..Len(s) : sent[k] = s[k]
    BY <1>10, <1>12, <1>13, Concat
  <2>2. i \in 1..Len(s)
    BY <1>13, <2>1
  <2> QED BY <1>11, <2>1, <2>2 DEF Whole
<1> QED
    BY <1>14, <1>15

\* The end of the image, in the file and in the number of its chunks.
LEMMA FileSize ==
    ASSUME NEW l \in Seq(Block), Apart(l), NEW len \in Nat, len % 4096 = 0
    PROVE  /\ sparse_file_len(l, len)
                = 28 + FileLen(l)[Len(l)] + 12 * Cardinality(Gaps(l))
                  + (IF Pad(l, len) > 0 THEN 12 ELSE 0)
           /\ Len(write_all_blocks(l, len)) = sparse_count_chunks(l, len)
<1> DEFINE w == write_all_blocks(l, len)
           n == Len(l)
           m == Len(w)
           s == SizeUpTo(w)
           F == FileLen(l)[n]
           k == Cardinality(Gaps(l))
           t == write_skip_chunk(Pad(l, len))
           e == EndBefore(l, n + 1)
           d == len \div 4096
           x == d - e
<1>1. PICK pos : Layout(w, l, len, pos)
    BY LayoutOf
<1>2. sparse_file_len(l, len) = s[m]
    BY DEF sparse_file_len
<1>3. sparse_count_chunks(l, len) = n + k + (IF e < DIV_ROUND_UP(len) THEN 1 ELSE 0)
    BY DEF sparse_count_chunks
<1>4. e \in Nat
  <2>0. n \in Nat
    OBVIOUS
  <2>1. CASE n = 0
    BY <2>1 DEF EndBefore
  <2>2. CASE n # 0
    <3>1. n \in 1..Len(l)
      BY <2>0, <2>2
    <3> QED BY <3>1, GapOf
  <2> QED BY <2>1, <2>2
<1>5. Pad(l, len) = len - e * 4096
    BY DEF Pad, block_size
<1> HIDE DEF w, e
<1>6. d \in Nat /\ len = 4096 * d
    OBVIOUS
<1> HIDE DEF d
<1>7. DIV_ROUND_UP(len) = d
    BY <1>6, RoundUpSum
<1>8. x \in Int /\ Pad(l, len) = x * 4096 /\ (Pad(l, len) > 0 <=> x > 0) /\ (e < d <=> x > 0)
    BY <1>4, <1>5, <1>6
<1> HIDE DEF x
<1>9. Skips(t, x)
  <2>1. t = write_skip_chunk(x * block_size)
    BY <1>8 DEF block_size
  <2> QED BY <1>8, <2>1, SkipChunk
<1>10. (x > 0 => Len(t) = 1) /\ (x <= 0 => Len(t) = 0)
    BY <1>8, <1>9 DEF Skips
<1>11. /\ n \in Nat /\ m \in Nat /\ w \in Seq(Out) /\ pos[n] \in Nat /\ m = pos[n] + Len(t)
       /\ Len(t) = 1 => w[m] = Skip(Pad(l, len))
  <2>1. m \in Nat
    BY <1>1, LayoutRises
  <2>2. w \in Seq(Out) /\ pos \in [0..n -> Nat] /\ m = pos[n] + Len(t)
        /\ (Len(t) = 1 => w[m] = Skip(Pad(l, len)))
    BY <1>1 DEF Layout
  <2> QED BY <2>1, <2>2
<1>12. pos[n] = n + k /\ s[pos[n]] = 28 + F + 12 * k
  <2>1. n \in 0..n
    BY <1>11
  <2>2. pos[n] = n + Skipped(l, n) /\ s[pos[n]] = 28 + F + 12 * Skipped(l, n)
    BY <1>1, <2>1, LayoutSizes
  <2>3. Skipped(l, n) = k
    BY SkippedNext
  <2> QED BY <2>2, <2>3
<1>13. ASSUME x > 0 PROVE s[m] = s[pos[n]] + 12
  <2>1. Len(t) = 1
    BY <1>10, <1>13
  <2>2. m \in 1..m /\ m - 1 = pos[n] /\ w[m] \in Out /\ w[m] = Skip(Pad(l, len))
    BY <1>11, <2>1
  <2>3. w[m].type = "skip"
    BY <2>2 DEF Skip
  <2>4. s[m] = s[m - 1] + Bytes(w)[m]
    <3>1. Sums(s, m, 28, Bytes(w))
      BY <1>11, SizeUpToSums
    <3> QED BY <2>2, <3>1 DEF Sums
  <2>5. Bytes(w)[m] = ChunkBytes(w[m])
    BY <2>2 DEF Bytes
  <2>6. ChunkBytes(w[m]) = 12
    BY <2>2, <2>3, OutBytes
  <2> QED BY <2>2, <2>4, <2>5, <2>6
<1>16. F \in Nat /\ k \in Nat
  <2>1. n \in 0..n
    BY <1>11
  <2>2. FileLen(l) \in [0..n -> Nat]
    BY FileLenSums DEF Sums
  <2>3. Skipped(l, n) \in Nat /\ Skipped(l, n) = k
    BY <2>1, SkippedNext
  <2> QED BY <2>1, <2>2, <2>3
<1> HIDE DEF s, m, n, F, k, t
<1>14. CASE x > 0
  <2>1. s[m] = 28 + F + 12 * k + 12 /\ m = n + k + 1
    <3>1. s[m] = s[pos[n]] + 12 /\ Len(t) = 1
      BY <1>10, <1>13, <1>14
    <3> QED BY <1>11, <1>12, <1>16, <3>1
  <2>2. Pad(l, len) > 0 /\ e < DIV_ROUND_UP(len)
    BY <1>7, <1>8, <1>14
  <2>3. sparse_count_chunks(l, len) = n + k + 1
    BY <1>3, <2>2
  <2> QED BY <1>2, <2>1, <2>2, <2>3 DEF m, w, n, F, k
<1>15. CASE ~ (x > 0)
  <2>1. Len(t) = 0
    BY <1>8, <1>10, <1>15
  <2>2. m = pos[n] /\ pos[n] = n + k
    BY <1>11, <1>12, <2>1
  <2>3. s[m] = 28 + F + 12 * k
    BY <1>12, <2>2
  <2>4. ~ (Pad(l, len) > 0) /\ ~ (e < DIV_ROUND_UP(len))
    BY <1>7, <1>8, <1>15
  <2>5. sparse_count_chunks(l, len) = n + k + 0
    BY <1>3, <2>4
  <2> DEFINE y == sparse_file_len(l, len)
             c == sparse_count_chunks(l, len)
  <2>7. y = 28 + F + 12 * k + 0 /\ m = c
    BY <1>2, <1>11, <1>16, <2>2, <2>3, <2>5
  <2> QED BY <2>4, <2>7 DEF m, w, n, F, k
<1> QED
    BY <1>14, <1>15

\* The writes for a block: the headers of its chunks, and its data.
Headers(l, i) == (IF i \in Gaps(l) THEN <<12>> ELSE <<>>) \o <<12>>
Body(bb) == IF bb.type = "fill" THEN <<4>>
            ELSE <<bb.len>> \o (IF ALIGN(bb.len) > bb.len
                                THEN <<ALIGN(bb.len) - bb.len>> ELSE <<>>)

LEMMA BodyBytes ==
    ASSUME NEW bb \in Block
    PROVE  Body(bb) \in Seq(Nat) /\ BytesOf(Body(bb)) = ChunkBytes(bb) - 12
<1> DEFINE z == bb.len
           y == ALIGN(z)
<1>1. bb.type \in {"fd", "fill"} /\ z \in Nat
    BY DEF Block
<1>2. /\ bb.type = "fill" => ChunkBytes(bb) = 16
      /\ bb.type = "fd" => ChunkBytes(bb) = 12 + y
    BY ChunkSize
<1>3. y \in Nat /\ z <= y
  <2> HIDE DEF z
  <2>1. y = 4096 * DIV_ROUND_UP(z) /\ y \in Nat
    BY <1>1, Aligned
  <2> QED BY <1>1, <2>1, RoundUp
<1>4. CASE bb.type = "fill"
  <2> DEFINE k == 4
  <2>1. k \in Nat
    OBVIOUS
  <2>2. Body(bb) = <<k>> /\ ChunkBytes(bb) - 12 = k
    BY <1>2, <1>4 DEF Body
  <2> HIDE DEF k
  <2>3. <<k>> \in Seq(Nat) /\ BytesOf(<<k>>) = k
    BY <2>1, SingleWrite
  <2> QED BY <2>2, <2>3
<1>5. CASE bb.type = "fd"
  <2> DEFINE a == <<z>>
             b == IF y > z THEN <<y - z>> ELSE <<>>
  <2>1. Body(bb) = a \o b
    BY <1>5 DEF Body
  <2>2. a \in Seq(Nat) /\ BytesOf(a) = z
    BY <1>1, SingleWrite
  <2> HIDE DEF z, y
  <2>3. b \in Seq(Nat) /\ BytesOf(b) = y - z
    <3> DEFINE x == y - z
    <3>1. x \in Nat /\ (y > z <=> x > 0)
      BY <1>1, <1>3
    <3>2. b = IF x > 0 THEN <<x>> ELSE <<>>
      BY <3>1
    <3> HIDE DEF x, b
    <3>3. /\ <<>> \in Seq(Nat) /\ BytesOf(<<>>) = 0
          /\ <<x>> \in Seq(Nat) /\ BytesOf(<<x>>) = x
      BY <3>1, SingleWrite
    <3>4. CASE x > 0
      BY <3>2, <3>3, <3>4 DEF x
    <3>5. CASE x = 0
      <4>1. b = <<>>
        BY <3>2, <3>5
      <4>2. b \in Seq(Nat) /\ BytesOf(b) = x
        BY <3>3, <3>5, <4>1
      <4> QED BY <4>2 DEF x
    <3> QED BY <3>1, <3>4, <3>5
  <2> HIDE DEF a, b
  <2>4. a \o b \in Seq(Nat) /\ BytesOf(a \o b) = BytesOf(a) + BytesOf(b)
    BY <2>2, <2>3, BytesConcat, Concat
  <2>5. BytesOf(a \o b) = y
    BY <1>1, <1>3, <2>2, <2>3, <2>4
  <2>6. ChunkBytes(bb) - 12 = y
    BY <1>2, <1>3, <1>5
  <2> QED BY <2>1, <2>4, <2>5, <2>6
<1> QED
    BY <1>1, <1>4, <1>5

LEMMA HeadersBytes ==
    ASSUME NEW l, NEW i
    PROVE  /\ Headers(l, i) \in Seq(Nat)
           /\ BytesOf(Headers(l, i)) = 12 + 12 * (IF i \in Gaps(l) THEN 1 ELSE 0)
<1> DEFINE k == 12
           a == IF i \in Gaps(l) THEN <<k>> ELSE <<>>
           b == <<k>>
<1>1. k \in Nat
    OBVIOUS
<1>2. Headers(l, i) = a \o b
    BY DEF Headers
<1>3. k = 12
    OBVIOUS
<1> HIDE DEF k
<1>4. /\ <<>> \in Seq(Nat) /\ BytesOf(<<>>) = 0 /\ <<k>> \in Seq(Nat) /\ BytesOf(<<k>>) = k
    BY <1>1, SingleWrite
<1>5. a \in Seq(Nat) /\ BytesOf(a) = 12 * (IF i \in Gaps(l) THEN 1 ELSE 0)
  <2>1. CASE i \in Gaps(l)
    BY <1>3, <1>4, <2>1
  <2>2. CASE i \notin Gaps(l)
    BY <1>4, <2>2
  <2> QED BY <2>1, <2>2
<1>6. b \in Seq(Nat) /\ BytesOf(b) = 12
    BY <1>3, <1>4
<1> HIDE DEF a, b
<1>7. a \o b \in Seq(Nat) /\ BytesOf(a \o b) = BytesOf(a) + BytesOf(b)
    BY <1>5, <1>6, BytesConcat, Concat
<1>8. BytesOf(a \o b) = 12 + 12 * (IF i \in Gaps(l) THEN 1 ELSE 0)
    BY <1>5, <1>6, <1>7
<1> QED
    BY <1>2, <1>7, <1>8

\* The end of an image of whole blocks is written, if there is one.
LEMMA PadWritten ==
    ASSUME NEW l \in Seq(Block), NEW len \in Nat, len % 4096 = 0
    PROVE  write_skip_chunk(Pad(l, len)) # <<>> <=> Pad(l, len) > 0
<1> DEFINE e == EndBefore(l, Len(l) + 1)
           p == Pad(l, len)
<1>1. e \in Nat
  <2>1. CASE Len(l) = 0
    BY <2>1 DEF EndBefore
  <2>2. CASE Len(l) # 0
    <3> DEFINE n == Len(l)
    <3>1. n \in 1..n /\ l[n] \in Block /\ n + 1 # 1 /\ (n + 1) - 1 = n
      BY <2>2
    <3>2. e = EndOf(l[n])
      BY <3>1 DEF EndBefore
    <3> DEFINE b == l[n].block
               z == l[n].len
    <3>3. b \in Nat /\ z \in Nat
      BY <3>1 DEF Block
    <3>4. EndOf(l[n]) = b + DIV_ROUND_UP(z)
      BY DEF EndOf
    <3> HIDE DEF b, z, e, n
    <3>5. DIV_ROUND_UP(z) \in Nat
      BY <3>3 DEF DIV_ROUND_UP, block_size
    <3> QED BY <3>2, <3>3, <3>4, <3>5
  <2> QED BY <2>1, <2>2
<1>2. p = len - e * 4096
    BY DEF Pad, block_size
<1> HIDE DEF e, p
<1>3. p \in Int /\ p % 4096 = 0
    BY <1>1, <1>2
<1>4. write_skip_chunk(p) # <<>> <=> p > 0
    BY <1>3 DEF write_skip_chunk, block_size
<1> QED
    BY <1>4 DEF p

\* output_file.c writes as many bytes as sparse_file_len() has counted.
LEMMA WritesBytes ==
    ASSUME NEW l \in Seq(Block), Apart(l), NEW len \in Nat, len % 4096 = 0
    PROVE  Writes(l, len) \in Seq(Nat) /\ BytesOf(Writes(l, len)) = sparse_file_len(l, len)
<1> DEFINE n == Len(l)
           seqs == [i \in DOMAIN l |->
                      (IF i \in Gaps(l) THEN <<ChunkLen>> ELSE <<>>) \o <<ChunkLen>>
                      \o (IF l[i].type = "fill" THEN <<4>>
                          ELSE <<l[i].len>>
                               \o (IF ALIGN(l[i].len) > l[i].len
                                   THEN <<ALIGN(l[i].len) - l[i].len>> ELSE <<>>))]
           h == <<28>>
           v == FlattenSeq(seqs)
           e == IF write_skip_chunk(Pad(l, len)) # <<>> THEN <<12>> ELSE <<>>
           F == FileLen(l)
           K(i) == Skipped(l, i)
<1>1. Writes(l, len) = h \o v \o e
    BY DEF Writes, HeaderLen, ChunkLen
<1>2. n \in Nat /\ DOMAIN l = 1..n /\ \A i \in 1..n : l[i] \in Block
    OBVIOUS
<1>3. \A i \in 1..n : seqs[i] = Headers(l, i) \o Body(l[i])
    BY <1>2 DEF Headers, Body, ChunkLen
<1>4. seqs = [i \in 1..n |-> seqs[i]]
    BY <1>2
<1> HIDE DEF seqs
<1>5. ASSUME NEW i \in 1..n
      PROVE  /\ seqs[i] \in Seq(Nat)
             /\ BytesOf(seqs[i]) = ChunkBytes(l[i]) + 12 * (IF i \in Gaps(l) THEN 1 ELSE 0)
  <2> DEFINE a == Headers(l, i)
             b == Body(l[i])
             c == ChunkBytes(l[i])
             g == IF i \in Gaps(l) THEN 1 ELSE 0
  <2>1. a \in Seq(Nat) /\ BytesOf(a) = 12 + 12 * g
    BY HeadersBytes
  <2>2. b \in Seq(Nat) /\ BytesOf(b) = c - 12
    BY <1>2, BodyBytes
  <2>3. seqs[i] = a \o b /\ c \in Nat /\ g \in Nat
    BY <1>2, <1>3, ChunkSize
  <2> HIDE DEF a, b, c, g
  <2>4. a \o b \in Seq(Nat) /\ BytesOf(a \o b) = BytesOf(a) + BytesOf(b)
    BY <2>1, <2>2, BytesConcat, Concat
  <2>5. BytesOf(a \o b) = c + 12 * g
    BY <2>1, <2>2, <2>3, <2>4
  <2> QED BY <2>3, <2>4, <2>5 DEF c, g
<1>6. seqs \in Seq(Seq(Nat)) /\ Len(seqs) = n
  <2>1. seqs \in [1..n -> Seq(Nat)]
    BY <1>4, <1>5
  <2> QED BY <1>2, <2>1
<1>7. PICK g : Joins(g, Nat, n, seqs) /\ v = g[n]
    BY <1>2, <1>6, FlatJoins
<1> HIDE DEF v
<1>8. /\ g \in [0..n -> Seq(Nat)] /\ g[0] = <<>>
      /\ \A i \in 1..n : g[i] = g[i - 1] \o seqs[i]
    BY ONLY <1>7 DEF Joins
<1>9. /\ F \in [0..n -> Nat] /\ F[0] = 0 /\ \A i \in 1..n : F[i] = F[i - 1] + ChunkBytes(l[i])
    BY FileLenSums DEF Sums, Sizes
<1>10. /\ K(0) = 0 /\ K(n) = Cardinality(Gaps(l)) /\ \A i \in 0..n : K(i) \in Nat
       /\ \A i \in 1..n : K(i) = K(i - 1) + (IF i \in Gaps(l) THEN 1 ELSE 0)
    BY SkippedNext
<1> HIDE DEF n, F, K
<1> DEFINE T == {i \in 0..n : BytesOf(g[i]) = F[i] + 12 * K(i)}
<1>11. 0 \in T
  <2>1. BytesOf(<<>>) = 0
    BY BytesNone
  <2> QED BY <1>2, <1>8, <1>9, <1>10, <2>1
<1>12. ASSUME NEW i \in 1..n, i - 1 \in T PROVE i \in T
  <2> DEFINE a == g[i - 1]
             b == seqs[i]
             c == ChunkBytes(l[i])
             q == IF i \in Gaps(l) THEN 1 ELSE 0
  <2>1. i \in 0..n /\ i - 1 \in 0..n /\ BytesOf(a) = F[i - 1] + 12 * K(i - 1)
    BY <1>2, <1>12
  <2>2. /\ a \in Seq(Nat) /\ b \in Seq(Nat) /\ g[i] = a \o b /\ BytesOf(b) = c + 12 * q
        /\ F[i] = F[i - 1] + c /\ K(i) = K(i - 1) + q
    <3>1. a \in Seq(Nat)
      BY ONLY <1>8, <2>1
    <3>5. g[i] = a \o b
      <4>1. \A j \in 1..n : g[j] = g[j - 1] \o seqs[j]
        BY ONLY <1>8
      <4> HIDE DEF a, b
      <4>2. g[i] = g[i - 1] \o seqs[i]
        BY ONLY <4>1, i \in 1..n
      <4> QED BY ONLY <4>2 DEF a, b
    <3>2. b \in Seq(Nat) /\ BytesOf(b) = c + 12 * q
      BY <1>5
    <3>3. F[i] = F[i - 1] + c
      BY <1>9
    <3>4. K(i) = K(i - 1) + q
      BY <1>10
    <3> QED BY <3>1, <3>2, <3>3, <3>4, <3>5
  <2>3. F[i - 1] \in Nat /\ K(i - 1) \in Nat /\ c \in Nat /\ q \in Nat
    BY <1>2, <1>9, <1>10, <2>1, ChunkSize, SMTT(60)
  <2> HIDE DEF a, b, c, q
  <2>4. BytesOf(a \o b) = BytesOf(a) + BytesOf(b)
    BY <2>2, BytesConcat
  <2>5. BytesOf(g[i]) = F[i] + 12 * K(i)
    BY <2>1, <2>2, <2>3, <2>4
  <2> QED BY <2>1, <2>5
<1> HIDE DEF T
<1>13. 0..n \subseteq T
  <2>1. n \in Nat
    BY <1>2
  <2>2. \A i \in 1..n : i - 1 \in T => i \in T
    BY <1>12
  <2> QED BY ONLY <1>11, <2>1, <2>2, BoundedInduction
<1>14. n \in 0..n /\ BytesOf(v) = F[n] + 12 * K(n) /\ v \in Seq(Nat)
    BY <1>2, <1>7, <1>8, <1>13 DEF T
<1>15. h \in Seq(Nat) /\ BytesOf(h) = 28
  <2> DEFINE k == 28
  <2>1. k \in Nat /\ h = <<k>> /\ k = 28
    OBVIOUS
  <2> HIDE DEF k, h
  <2>2. <<k>> \in Seq(Nat) /\ BytesOf(<<k>>) = k
    BY <2>1, SingleWrite
  <2> QED BY <2>1, <2>2
<1>16. e \in Seq(Nat) /\ BytesOf(e) = (IF Pad(l, len) > 0 THEN 12 ELSE 0)
  <2> DEFINE k == 12
  <2>5. write_skip_chunk(Pad(l, len)) # <<>> <=> Pad(l, len) > 0
    BY PadWritten
  <2>1. k \in Nat /\ k = 12 /\ e = IF Pad(l, len) > 0 THEN <<k>> ELSE <<>>
    BY <2>5
  <2> HIDE DEF k, e
  <2>2. /\ <<>> \in Seq(Nat) /\ BytesOf(<<>>) = 0 /\ <<k>> \in Seq(Nat) /\ BytesOf(<<k>>) = k
    BY <2>1, SingleWrite
  <2>3. CASE Pad(l, len) > 0
    BY <2>1, <2>2, <2>3
  <2>4. CASE ~ (Pad(l, len) > 0)
    BY <2>1, <2>2, <2>4
  <2> QED BY <2>3, <2>4
<1> HIDE DEF h, e
<1> DEFINE a == h \o v
<1>17. a \in Seq(Nat) /\ BytesOf(a) = BytesOf(h) + BytesOf(v)
    BY <1>14, <1>15, BytesConcat, Concat
<1>18. Writes(l, len) = a \o e
    BY <1>1
<1> HIDE DEF a
<1>19. a \o e \in Seq(Nat) /\ BytesOf(a \o e) = BytesOf(a) + BytesOf(e)
    BY <1>16, <1>17, BytesConcat, Concat
<1>20. sparse_file_len(l, len)
         = 28 + F[n] + 12 * K(n) + (IF Pad(l, len) > 0 THEN 12 ELSE 0)
  <2>1. sparse_file_len(l, len)
         = 28 + FileLen(l)[Len(l)] + 12 * Cardinality(Gaps(l))
           + (IF Pad(l, len) > 0 THEN 12 ELSE 0)
    BY FileSize
  <2> QED BY <1>10, <2>1 DEF F, n
<1>21. F[n] \in Nat /\ K(n) \in Nat
    BY <1>9, <1>10, <1>14
<1> DEFINE p == IF Pad(l, len) > 0 THEN 12 ELSE 0
<1>22. p \in Nat /\ BytesOf(e) = p /\ sparse_file_len(l, len) = 28 + F[n] + 12 * K(n) + p
    BY <1>16, <1>20
<1> HIDE DEF p
<1>23. BytesOf(a \o e) = sparse_file_len(l, len)
    BY ONLY <1>14, <1>15, <1>17, <1>19, <1>21, <1>22
<1> QED
    BY <1>18, <1>19, <1>23

\* A file that ends in the middle of a block has something in that block.
TailOf(f) ==
    f.len % 4096 # 0 =>
        \E x \in FileContents(f.chunks, Len(f.chunks)) : 4096 * (x.block + 1) > f.len

LEMMA NormalTail ==
    ASSUME NEW im \in Images
    PROVE  TailOf(NormalFile(im))
<1> DEFINE m == Len(im.blocks)
           t == im.tail
           n == m + (IF t > 0 THEN 1 ELSE 0)
           value(i) == IF i > m THEN 0 ELSE im.blocks[i]
           bytes(i) == IF i > m THEN t ELSE 4096
           len == m * 4096 + t
           c(i) == [type |-> IF value(i) = 0 THEN "fd" ELSE "fill",
                    len |-> bytes(i), src |-> value(i), off |-> (i - 1) * 4096]
           f == [i \in 1..n |-> c(i)]
           b == BlockOf(f)
<1>1. m \in Nat /\ t \in 0..4095
  <2>1. im \in [blocks : Seq(Nat), tail : 0..(block_size - 1)]
    BY ImagesAssumption
  <2>2. im.tail \in 0..(4096 - 1) /\ im.blocks \in Seq(Nat)
    BY <2>1, SMTT(60) DEF block_size
  <2> QED BY <2>2, SMTT(60)
<1>2. NormalFile(im) = [chunks |-> f, size |-> len, len |-> len]
    BY DEF NormalFile, block_size
<1>3. NormalFile(im).chunks = f /\ NormalFile(im).len = len
    BY ONLY <1>2
<1>4. f \in Seq(Chunk) /\ Len(f) = n
  <2>1. NormalFile(im).chunks \in Seq(Chunk)
    BY NormalFileType
  <2>2. n \in Nat
    <3> HIDE DEF m, t
    <3> QED BY <1>1
  <2>3. f \in Seq(Chunk)
    <3> HIDE DEF f
    <3> QED BY <1>3, <2>1
  <2> HIDE DEF n, c
  <2>4. Len(f) = n
    BY ONLY <2>2, <2>3
  <2> QED BY ONLY <2>3, <2>4
<1> SUFFICES ASSUME len % 4096 # 0
             PROVE  \E x \in FileContents(f, Len(f)) : 4096 * (x.block + 1) > len
  <2> DEFINE y == NormalFile(im)
  <2>1. y.chunks = f /\ y.len = len
    BY <1>3
  <2> HIDE DEF y, f, len
  <2>2. TailOf(y) <=> (len % 4096 # 0 =>
          \E x \in FileContents(f, Len(f)) : 4096 * (x.block + 1) > len)
    BY ONLY <2>1 DEF TailOf
  <2> QED BY <2>2 DEF y
<1> HIDE DEF m, t
<1>5. t > 0 /\ n = m + 1 /\ t \in Nat
    BY <1>1
<1>6. \A i \in 1..n : f[i] = c(i)
    OBVIOUS
<1>7. /\ \A i \in 1..m : f[i].len = 4096
      /\ f[n].len = t /\ f[n].type = "fd"
  <2>1. ASSUME NEW i \in 1..m PROVE f[i].len = 4096
    BY <1>1, <1>5, <1>6, SMTT(60)
  <2>2. n \in 1..n /\ n > m
    BY <1>1, <1>5
  <2> QED BY <1>6, <2>1, <2>2
<1> HIDE DEF f, c, value, bytes
<1>8. Begins(b, n, f)
  <2>1. ASSUME NEW i \in 1..n PROVE f[i].len \in Nat
    <3>1. f[i] \in Chunk
      BY <1>4
    <3> QED BY <3>1 DEF Chunk
  <2>2. n \in Nat
    BY <1>1, <1>5
  <2> QED BY <1>4, <2>1, <2>2, BlockOfBegins
<1> HIDE DEF b
<1>9. /\ b[1] = 0 /\ \A i \in 1..n : b[i + 1] = b[i] + DIV_ROUND_UP(f[i].len)
    BY <1>8 DEF Begins
<1>10. DIV_ROUND_UP(4096) = 1 /\ DIV_ROUND_UP(t) = 1
    BY <1>1, <1>5 DEF DIV_ROUND_UP, block_size
<1> HIDE DEF n
<1>11. b[n] = m
  <2> DEFINE T == {i \in 0..m : b[i + 1] = i}
  <2>1. 0 \in T
    BY <1>1, <1>9
  <2>2. ASSUME NEW i \in 1..m, i - 1 \in T PROVE i \in T
    <3>1. i \in 0..m /\ i \in 1..n /\ (i - 1) + 1 = i
      BY <1>1, <1>5
    <3>2. b[i] = i - 1
      BY <2>2, <3>1
    <3>3. b[i + 1] = b[i] + 1
      BY <1>7, <1>9, <1>10, <3>1
    <3> QED BY <3>1, <3>2, <3>3
  <2> HIDE DEF T
  <2>3. 0..m \subseteq T
    BY <1>1, <2>1, <2>2, BoundedInduction
  <2>4. m \in T
    BY <1>1, <2>3
  <2> QED BY <1>5, <2>4 DEF T
<1> DEFINE bb == BlockRead(f[n], n, m)
           cell(k) == [block |-> k, type |-> bb.type,
                       src |-> IF bb.type = "fill" THEN bb.src
                               ELSE bb.src + (k - bb.block) * block_size,
                       bytes |-> IF k + 1 = EndOf(bb) THEN bb.len - (k - bb.block) * block_size
                                 ELSE block_size]
<1>12. bb.block = m /\ bb.len = t
    BY <1>7 DEF BlockRead
<1>13. EndOf(bb) = m + 1
    BY <1>10, <1>12 DEF EndOf
<1>14. cell(m) \in Cells(bb)
  <2>1. m \in bb.block..(EndOf(bb) - 1)
    BY <1>1, <1>12, <1>13
  <2>2. Cells(bb) = {cell(k) : k \in bb.block..(EndOf(bb) - 1)}
    BY DEF Cells
  <2> HIDE DEF cell, bb
  <2> QED BY <2>1, <2>2
<1>15. Cells(bb) \subseteq FileContents(f, n)
  <2>1. n \in {k \in 1..n : f[k].type # "skip"}
    BY <1>1, <1>5, <1>7
  <2>2. FileContents(f, n) = UNION {Cells(BlockRead(f[i], i, b[i])) :
                                    i \in {k \in 1..n : f[k].type # "skip"}}
    BY DEF FileContents, b
  <2>3. bb = BlockRead(f[n], n, b[n])
    BY <1>11
  <2> HIDE DEF bb
  <2> QED BY <2>1, <2>2, <2>3
<1>16. cell(m).block = m
    OBVIOUS
<1>17. 4096 * (m + 1) > len
    BY <1>1
<1> HIDE DEF cell, len
<1> QED
    BY <1>4, <1>14, <1>15, <1>16, <1>17

TailInv == TailOf(file)

\* Only an image made for the generator is another one, and it is whole.
LEMMA FileStays ==
    ASSUME [Next]_vars
    PROVE  file' = file \/ file'.len = ImageLen \/ file'.len = 0
<1>1. CASE sparse_file_write
    BY <1>1 DEF sparse_file_write
<1>3. CASE FormatNotLoaded
    BY <1>3 DEF FormatNotLoaded, NoFile
<1>2. CASE ~ sparse_file_write /\ ~ FormatNotLoaded
    BY <1>2 DEF Next, vars, Host, Device, Add, FormatFails, load_buf_fd, LoadFails, ReadChunk,
                ReadEnd, sparse_file_resparse, Fill, Notice, _command_start, check_response,
                _command_data, Finish, Complete, DeviceAnswers, DeviceReceives, DeviceRefuses,
                Unplug, image
<1> QED
    BY <1>1, <1>2, <1>3

THEOREM TailKept == Spec => []TailInv
<1>1. Init => TailInv
  <2> SUFFICES ASSUME Init PROVE TailOf(file)
    BY DEF TailInv
  <2>1. CASE file = NoFile
    <3>1. file.len = 0
      BY <2>1 DEF NoFile
    <3> QED BY <3>1 DEF TailOf
  <2>2. CASE \E im \in Images : file = NormalFile(im)
    BY <2>2, NormalTail
  <2> QED BY <2>1, <2>2 DEF Init
<1>2. TailInv /\ [Next]_vars => TailInv'
  <2> SUFFICES ASSUME TailInv, [Next]_vars PROVE TailOf(file')
    BY DEF TailInv, TailOf
  <2>1. CASE file' = file
    BY <2>1 DEF TailInv
  <2>2. CASE file'.len = ImageLen
    <3>1. file'.len % 4096 = 0
      BY <2>2, ExtentsAssumption DEF block_size
    <3> QED BY <3>1 DEF TailOf
  <2>3. CASE file'.len = 0
    BY <2>3 DEF TailOf
  <2> QED BY <2>1, <2>2, <2>3, FileStays
<1> QED
    BY <1>1, <1>2, PTL DEF Spec

\* A sparse file with a block behind the end of the image stops at the assertion.
LEMMA TailAborts ==
    ASSUME NEW l \in Seq(Block), Apart(l), NEW len \in Nat,
           NEW x \in Contents(l), 4096 * (x.block + 1) > len
    PROVE  Aborts(l, len)
<1> DEFINE n == Len(l)
           e == EndBefore(l, n + 1)
<1>1. n \in Nat /\ DOMAIN l = 1..n
    OBVIOUS
<1>2. PICK i \in 1..n : x \in Cells(l[i])
    BY <1>1 DEF Contents
<1>3. l[i] \in Block
    OBVIOUS
<1>4. x.block < EndOf(l[i]) /\ x.block \in Nat /\ EndOf(l[i]) \in Nat
    BY <1>2, <1>3, CellsOf
<1>5. n \in 1..n /\ l[n].block \in Nat /\ l[n] \in Block
  <2>1. n \in 1..n
    BY <1>1
  <2>2. l[n] \in Block
    BY <2>1
  <2> QED BY <2>1, <2>2, SMTT(60) DEF Block
<1>6. e = EndOf(l[n]) /\ EndOf(l[n]) \in Nat /\ EndBefore(l, n) \in Nat
    BY <1>5, GapOf, SMTT(60)
<1>7. l[n].block <= EndOf(l[n])
  <2>1. DIV_ROUND_UP(l[n].len) \in Nat
    <3> DEFINE z == l[n].len
    <3>1. z \in Nat
      BY <1>5 DEF Block
    <3> HIDE DEF z
    <3>2. DIV_ROUND_UP(z) \in Nat
      BY <3>1 DEF DIV_ROUND_UP, block_size
    <3> QED BY <3>2 DEF z
  <2> QED BY <1>5, <2>1 DEF EndOf
<1>8. EndOf(l[i]) <= EndOf(l[n])
  <2>1. CASE i = n
    BY <1>6, <2>1
  <2>2. CASE i # n
    <3>1. i < n
      <4> HIDE DEF n
      <4> QED BY <1>1, <2>2
    <3>2. EndOf(l[i]) <= l[n].block
      BY <1>1, <1>5, <3>1 DEF Apart
    <3> QED BY <1>4, <1>5, <1>6, <1>7, <3>2
  <2> QED BY <2>1, <2>2
<1>9. Pad(l, len) = len - e * 4096
    BY DEF Pad, block_size
<1> HIDE DEF e, n
<1>10. Pad(l, len) < 0
  <2>1. x.block + 1 <= e /\ e \in Nat
    BY <1>4, <1>6, <1>8
  <2> DEFINE y == x.block
  <2>2. y \in Nat /\ 4096 * (y + 1) > len /\ y + 1 <= e
    BY <1>4, <2>1
  <2> HIDE DEF y
  <2> QED BY <1>9, <2>1, <2>2
<1> QED
    BY <1>10 DEF Aborts

\* A sparse file that is queued.
LEMMA PartOk ==
    ASSUME ImageInv, TailInv, NEW l \in Parts, ~TailLost
    PROVE  /\ l \in Seq(Block) /\ Apart(l) /\ file.len \in Nat /\ file.len % 4096 = 0
<1>1. phase = "queue" /\ l \in Range(out_s) /\ ~ Assertion
    BY DEF Parts
<1>2. Ready(out_s, in_s.list, files, ImageContents) /\ file.len \in Nat
    BY <1>1 DEF ImageInv
<1>3. PICK i \in DOMAIN out_s : l = out_s[i]
    BY <1>1 DEF Range
<1>4. out_s # <<>>
    BY <1>3
<1>5. Divided(out_s, <<>>) /\ Total(out_s) = ImageContents
    BY <1>2, <1>4 DEF Ready
<1>6. out_s \in Seq(Seq(Block)) /\ \A k \in 1..Len(out_s) : Apart(out_s[k])
    BY <1>5 DEF Divided
<1>7. \A k \in 1..Len(out_s) : out_s[k] \in Seq(Block)
    BY <1>6
<1>8. DOMAIN out_s = 1..Len(out_s)
    BY <1>6
<1>9. ASSUME file.len % 4096 # 0 PROVE FALSE
  <2>4. ImageContents = WholeImage
    BY <1>9 DEF TailLost, ImageContents, Missing, block_size
  <2>1. PICK x \in ImageContents : 4096 * (x.block + 1) > file.len
    BY <1>9, <2>4 DEF TailInv, TailOf, WholeImage
  <2>2. PICK k \in 1..Len(out_s) : x \in Contents(out_s[k])
    BY <1>5 DEF Total
  <2>3. Aborts(out_s[k], file.len)
    BY <1>2, <1>6, <1>7, <2>1, <2>2, TailAborts
  <2> QED BY <1>1, <1>8, <2>3 DEF Assertion
<1> QED
    BY <1>2, <1>3, <1>6, <1>7, <1>8, <1>9

\* What is announced of a sparse file is what is sent: the number of its
\* chunks, its bytes, and all writes but the last are multiples of USB_BUF_SIZE.
THEOREM AnnouncedHolds == Spec => []Announced
<1>1. ImageInv /\ TailInv => Announced
  <2> SUFFICES ASSUME ImageInv, TailInv PROVE Announced
    OBVIOUS
  <2>1. ASSUME NEW l \in Parts, ~TailLost
        PROVE  /\ Len(write_all_blocks(l, file.len)) = sparse_count_chunks(l, file.len)
               /\ LET sent == fb_download_data_sparse(l, file.len) IN
                  /\ BytesOf(sent) = sparse_file_len(l, file.len)
                  /\ \A i \in 1..(Len(sent) - 1) : sent[i] % USB_BUF_SIZE = 0
    <3> DEFINE len == file.len
               w == Writes(l, len)
               sent == fb_download_data_sparse(l, len)
    <3>1. l \in Seq(Block) /\ Apart(l) /\ len \in Nat /\ len % 4096 = 0
      BY <2>1, PartOk
    <3> HIDE DEF len
    <3>2. Len(write_all_blocks(l, len)) = sparse_count_chunks(l, len)
      BY <3>1, FileSize
    <3>3. w \in Seq(Nat) /\ BytesOf(w) = sparse_file_len(l, len)
      BY <3>1, WritesBytes
    <3>4. /\ BytesOf(sent) = BytesOf(w)
          /\ \A i \in 1..(Len(sent) - 1) : sent[i] % 1024 = 0
      BY <3>3, SparseSends
    <3> QED BY <3>2, <3>3, <3>4 DEF len, USB_BUF_SIZE
  <2>2. ASSUME phase = "build"
        PROVE  Len(write_all_blocks(in_s.list, ImageLen)) = sparse_count_chunks(in_s.list, ImageLen)
    <3>1. in_s.list \in Seq(Block) /\ Apart(in_s.list)
      BY <2>2 DEF ImageInv, Built, Queue
    <3>2. ImageLen \in Nat /\ ImageLen % 4096 = 0
      BY ExtentsAssumption DEF block_size
    <3> QED BY <3>1, <3>2, FileSize
  <2> QED BY <2>1, <2>2 DEF Announced
<1> QED
    BY <1>1, ImageKept, TailKept, PTL

-----------------------------------------------------------------------------
(* The queue. *)

Action ==
    [op : {"command", "download", "query", "notice", "wait"},
     func : {"default", "display", "save", "require", "nothing"},
     cmd : {"none", "version", "product", "flash", "signature", "erase", "reboot"},
     size : Nat, data : Nat]

NoFlash(s) == \A k \in 1..Len(s) : s[k].cmd # "flash"
NoErase(s) == \A k \in 1..Len(s) : s[k].cmd # "erase"

\* The two actions of fb_queue_flash() and fb_queue_flash_sparse().
IsDownload(a, d) == a.op = "download" /\ a.func = "default" /\ a.cmd = "flash" /\ a.data = d
IsFlash(a) == a.op = "command" /\ a.func = "default" /\ a.cmd = "flash"

\* s downloads and flashes the n parts with the numbers d.
Pairs(s, n, d) ==
    /\ s \in Seq(Action) /\ n \in Nat /\ d \in [1..n -> Nat] /\ Len(s) = 2 * n
    /\ \A j \in 1..n : IsDownload(s[2 * j - 1], d[j]) /\ IsFlash(s[2 * j])

\* q does it behind a other actions.
Plan(q, a, n, d) ==
    /\ q \in Seq(Action) /\ n \in Nat /\ d \in [1..n -> Nat] /\ a \in Nat
    /\ a + 2 * n <= Len(q)
    /\ \A j \in 1..n : IsDownload(q[a + 2 * j - 1], d[j]) /\ IsFlash(q[a + 2 * j])
    /\ \A k \in 1..Len(q) : k <= a \/ k > a + 2 * n => q[k].cmd # "flash"
    /\ \A k \in 1..Len(q) : k > a + 2 * n => q[k].cmd # "erase"

LEMMA PlanJoins ==
    ASSUME NEW x \in Seq(Action), NEW y, NEW z \in Seq(Action), NEW n, NEW d,
           Pairs(y, n, d), NoFlash(x), NoFlash(z), NoErase(z)
    PROVE  Plan((x \o y) \o z, Len(x), n, d)
<1> DEFINE u == x \o y
           q == u \o z
           a == Len(x)
           b == Len(z)
<1>1. y \in Seq(Action) /\ n \in Nat /\ d \in [1..n -> Nat] /\ Len(y) = 2 * n
    BY DEF Pairs
<1>2. a \in Nat /\ b \in Nat
    OBVIOUS
<1>3. /\ u \in Seq(Action) /\ Len(u) = a + 2 * n
      /\ \A k \in 1..a : u[k] = x[k]
      /\ \A k \in (a + 1)..(a + 2 * n) : u[k] = y[k - a]
  <2>1. /\ u \in Seq(Action) /\ Len(u) = a + Len(y)
        /\ \A k \in 1..a : u[k] = x[k]
        /\ \A k \in (a + 1)..(a + Len(y)) : u[k] = y[k - a]
    BY <1>1, Concat
  <2> HIDE DEF u, a
  <2> QED BY <1>1, <2>1
<1> HIDE DEF u
<1>4. /\ q \in Seq(Action) /\ Len(q) = (a + 2 * n) + b
      /\ \A k \in 1..(a + 2 * n) : q[k] = u[k]
      /\ \A k \in (a + 2 * n + 1)..((a + 2 * n) + b) : q[k] = z[k - (a + 2 * n)]
  <2>1. /\ q \in Seq(Action) /\ Len(q) = Len(u) + b
        /\ \A k \in 1..Len(u) : q[k] = u[k]
        /\ \A k \in (Len(u) + 1)..(Len(u) + b) : q[k] = z[k - Len(u)]
    BY <1>3, Concat
  <2> HIDE DEF q, b
  <2> QED BY <1>3, <2>1
<1> HIDE DEF q, a, b
<1>5. ASSUME NEW j \in 1..n
      PROVE  IsDownload(q[a + 2 * j - 1], d[j]) /\ IsFlash(q[a + 2 * j])
  <2> DEFINE e == a + 2 * j - 1
             f == a + 2 * j
  <2>1. /\ e \in 1..(a + 2 * n) /\ e \in (a + 1)..(a + 2 * n) /\ e - a = 2 * j - 1
        /\ f \in 1..(a + 2 * n) /\ f \in (a + 1)..(a + 2 * n) /\ f - a = 2 * j
    BY <1>1, <1>2
  <2> HIDE DEF e, f
  <2>2. q[e] = y[2 * j - 1] /\ q[f] = y[2 * j]
    BY <1>3, <1>4, <2>1
  <2>3. IsDownload(y[2 * j - 1], d[j]) /\ IsFlash(y[2 * j])
    BY DEF Pairs
  <2> QED BY <2>2, <2>3 DEF e, f
<1>6. ASSUME NEW k \in 1..Len(q), k <= a PROVE q[k].cmd # "flash"
  <2>1. k \in 1..a /\ k \in 1..(a + 2 * n)
    BY <1>1, <1>2, <1>6
  <2>2. q[k] = x[k]
    BY <1>3, <1>4, <2>1
  <2> QED BY <2>1, <2>2 DEF NoFlash, a
<1>7. ASSUME NEW k \in 1..Len(q), k > a + 2 * n PROVE q[k].cmd # "flash" /\ q[k].cmd # "erase"
  <2> DEFINE i == k - (a + 2 * n)
  <2>1. k \in (a + 2 * n + 1)..((a + 2 * n) + b) /\ i \in 1..b
    BY <1>1, <1>2, <1>4, <1>7
  <2>2. q[k] = z[i]
    BY <1>4, <2>1
  <2> HIDE DEF i
  <2> QED BY <2>1, <2>2 DEF NoFlash, NoErase, b
<1>8. a + 2 * n <= Len(q)
    BY <1>1, <1>2, <1>4
<1>9. Plan(q, a, n, d)
    BY <1>1, <1>2, <1>4, <1>5, <1>6, <1>7, <1>8 DEF Plan
<1> QED
    BY <1>9 DEF q, u, a

LEMMA QueueAction ==
    ASSUME NEW op, NEW func, NEW cmd, NEW size, NEW data,
           [op |-> op, func |-> func, cmd |-> cmd, size |-> size, data |-> data] \in Action,
           NEW s, s = queue_action(op, func, cmd, size, data)
    PROVE  /\ s \in Seq(Action) /\ Len(s) = 1
           /\ s[1] = [op |-> op, func |-> func, cmd |-> cmd, size |-> size, data |-> data]
<1> DEFINE x == [op |-> op, func |-> func, cmd |-> cmd, size |-> size, data |-> data]
<1>1. s = <<x>> /\ x \in Action
    BY DEF queue_action
<1> HIDE DEF x
<1>2. s \in Seq(Action) /\ Len(s) = 1 /\ s[1] = x
    BY <1>1
<1> QED
    BY <1>2 DEF x

LEMMA OneMore ==
    ASSUME NEW s \in Seq(Action), NEW n \in Nat, Len(s) = n, NEW x \in Action,
           NEW t, t = s \o <<x>>, NEW m, m = n + 1
    PROVE  /\ t \in Seq(Action) /\ Len(t) = m /\ t[m] = x
           /\ \A k \in 1..n : t[k] = s[k]
<1> DEFINE u == <<x>>
<1>1. u \in Seq(Action) /\ Len(u) = 1 /\ u[1] = x
    OBVIOUS
<1>4. t = s \o u
    OBVIOUS
<1> HIDE DEF u
<1>5. /\ t \in Seq(Action) /\ Len(t) = Len(s) + Len(u)
      /\ \A k \in 1..Len(s) : t[k] = s[k]
      /\ \A k \in (Len(s) + 1)..(Len(s) + Len(u)) : t[k] = u[k - Len(s)]
    BY <1>1, <1>4, Concat
<1>2. /\ t \in Seq(Action) /\ Len(t) = n + 1
      /\ \A k \in 1..n : t[k] = s[k]
      /\ \A k \in (n + 1)..(n + 1) : t[k] = u[k - n]
    BY <1>1, <1>5
<1>3. n + 1 \in (n + 1)..(n + 1) /\ (n + 1) - n = 1
    OBVIOUS
<1> QED
    BY <1>1, <1>2, <1>3

\* A download and its command.
LEMMA QueueDownload ==
    ASSUME NEW cmd \in {"flash", "signature"}, NEW size \in Nat, NEW data \in Nat,
           NEW s, s = fb_queue_download(cmd, size, data)
    PROVE  /\ s \in Seq(Action) /\ Len(s) = 2
           /\ s[1] = [op |-> "download", func |-> "default", cmd |-> cmd, size |-> size, data |-> data]
           /\ s[2] = [op |-> "command", func |-> "default", cmd |-> cmd, size |-> 0, data |-> 0]
<1> DEFINE x == [op |-> "download", func |-> "default", cmd |-> cmd, size |-> size, data |-> data]
           y == [op |-> "command", func |-> "default", cmd |-> cmd, size |-> 0, data |-> 0]
<1>1. x \in Action /\ y \in Action
    BY DEF Action
<1>2. s = <<x>> \o <<y>>
    BY DEF fb_queue_download, fb_queue_command, queue_action
<1> HIDE DEF x, y
<1>3. <<x>> \in Seq(Action) /\ Len(<<x>>) = 1 /\ <<x>>[1] = x
    BY <1>1
<1>4. s \in Seq(Action) /\ Len(s) = 2 /\ s[1] = x /\ s[2] = y
  <2> DEFINE t == <<x>>
  <2>1. t \in Seq(Action) /\ Len(t) = 1 /\ s = t \o <<y>> /\ t[1] = x
    BY <1>2, <1>3
  <2> HIDE DEF t
  <2>3. 2 = 1 + 1 /\ 1 \in Nat
    OBVIOUS
  <2>2. s \in Seq(Action) /\ Len(s) = 2 /\ s[2] = y /\ \A k \in 1..1 : s[k] = t[k]
    BY <1>1, <2>1, <2>3, OneMore
  <2> QED BY <2>1, <2>2
<1> QED
    BY <1>4 DEF x, y

\* What main() and do_flashall() queue in front of the image.
IsSave(a) == a.op = "query" /\ a.func = "save"
IsRequire(a) == a.op = "query" /\ a.func = "require"

Front4(s) == Len(s) >= 4 /\ IsSave(s[3]) /\ IsRequire(s[4])

LEMMA ChecksQueued ==
    /\ Checks \in Seq(Action) /\ Len(Checks) = 4 /\ NoFlash(Checks) /\ Front4(Checks)
    /\ Info \in Seq(Action) /\ NoFlash(Info) /\ Info # Checks
<1> DEFINE w == [op |-> "notice", func |-> "default", cmd |-> "none", size |-> 0, data |-> 0]
           x == [op |-> "query", func |-> "display", cmd |-> "version", size |-> 0, data |-> 0]
           y == [op |-> "query", func |-> "save", cmd |-> "product", size |-> 0, data |-> 0]
           v == [op |-> "query", func |-> "require", cmd |-> "version", size |-> 0, data |-> 0]
<1>1. w \in Action /\ x \in Action /\ y \in Action /\ v \in Action
    BY DEF Action
<1>2. Checks = <<w>> \o <<x>> \o <<y>> \o <<v>>
    BY DEF Checks, Info, queue_action
<1>4. Info = <<w>> \o <<x>> \o <<y>>
    BY DEF Info, queue_action
<1>3. w.cmd # "flash" /\ x.cmd # "flash" /\ y.cmd # "flash" /\ v.cmd # "flash"
      /\ IsSave(y) /\ IsRequire(v)
    BY DEF IsSave, IsRequire
<1> HIDE DEF w, x, y, v
<1>5. /\ Checks \in Seq(Action) /\ Len(Checks) = 4 /\ Checks[1] = w /\ Checks[2] = x
      /\ Checks[3] = y /\ Checks[4] = v
      /\ Info \in Seq(Action) /\ Len(Info) = 3 /\ Info[1] = w /\ Info[2] = x /\ Info[3] = y
  <2> DEFINE r == <<w>>
             s == r \o <<x>>
             t == s \o <<y>>
             u == t \o <<v>>
  <2>1. r \in Seq(Action) /\ Len(r) = 1 /\ r[1] = w
    BY <1>1
  <2>14. 2 = 1 + 1 /\ 3 = 2 + 1 /\ 4 = 3 + 1 /\ 1 \in Nat /\ 2 \in Nat /\ 3 \in Nat
    OBVIOUS
  <2>11. s = r \o <<x>>
    OBVIOUS
  <2>12. t = s \o <<y>>
    OBVIOUS
  <2>13. u = t \o <<v>>
    OBVIOUS
  <2> HIDE DEF r, s, t, u
  <2>2. s \in Seq(Action) /\ Len(s) = 2 /\ s[2] = x /\ \A k \in 1..1 : s[k] = r[k]
    BY <1>1, <2>1, <2>11, <2>14, OneMore
  <2>3. s \in Seq(Action) /\ Len(s) = 2 /\ s[2] = x /\ s[1] = w
    BY <2>1, <2>2
  <2>4. t \in Seq(Action) /\ Len(t) = 3 /\ t[3] = y /\ \A k \in 1..2 : t[k] = s[k]
    BY <1>1, <2>3, <2>12, <2>14, OneMore, SMTT(60)
  <2>5. t \in Seq(Action) /\ Len(t) = 3 /\ t[3] = y /\ t[2] = x /\ t[1] = w
    BY <2>3, <2>4
  <2>6. u \in Seq(Action) /\ Len(u) = 4 /\ u[4] = v /\ \A k \in 1..3 : u[k] = t[k]
    <3> DEFINE a == 3
               b == 4
    <3>1. t \in Seq(Action) /\ Len(t) = a /\ v \in Action /\ a \in Nat /\ b = a + 1
      BY <1>1, <2>5
    <3> HIDE DEF a, b
    <3>2. u \in Seq(Action) /\ Len(u) = b /\ u[b] = v /\ \A k \in 1..a : u[k] = t[k]
      BY <2>13, <3>1, OneMore
    <3> QED BY <3>2 DEF a, b
  <2>7. u \in Seq(Action) /\ Len(u) = 4 /\ u[4] = v /\ u[3] = y /\ u[2] = x /\ u[1] = w
    BY <2>5, <2>6
  <2>8. Checks = u /\ Info = t
    BY <1>2, <1>4 DEF r, s, t, u
  <2> QED BY <2>5, <2>7, <2>8
<1>6. \A k \in 1..4 : Checks[k].cmd # "flash"
    BY <1>3, <1>5
<1>7. \A k \in 1..3 : Info[k].cmd # "flash"
    BY <1>3, <1>5
<1>8. Info \in Seq(Action) /\ NoFlash(Info) /\ Info # Checks
  <2>1. Len(Info) # Len(Checks)
    BY <1>5
  <2>2. Info # Checks
    BY <2>1
  <2>3. Info \in Seq(Action) /\ NoFlash(Info)
    BY <1>5, <1>7 DEF NoFlash
  <2> QED BY <2>2, <2>3
<1> QED
    BY <1>3, <1>5, <1>6, <1>8 DEF NoFlash, Front4

LEMMA EmptyQueue ==
    <<>> \in Seq(Action) /\ Len(<<>>) = 0 /\ NoFlash(<<>>) /\ NoErase(<<>>)
    BY DEF NoFlash, NoErase

LEMMA NoFlashConcat ==
    ASSUME NEW s \in Seq(Action), NEW t \in Seq(Action), NoFlash(s), NoFlash(t)
    PROVE  /\ s \o t \in Seq(Action) /\ Len(s \o t) = Len(s) + Len(t) /\ NoFlash(s \o t)
           /\ Front4(s) => Front4(s \o t)
<1> DEFINE m == Len(s)
           n == Len(t)
           q == s \o t
<1>1. /\ q \in Seq(Action) /\ Len(q) = m + n /\ m \in Nat /\ n \in Nat
      /\ \A k \in 1..m : q[k] = s[k]
      /\ \A k \in (m + 1)..(m + n) : q[k] = t[k - m]
    BY Concat
<1>2. (\A k \in 1..m : s[k].cmd # "flash") /\ (\A k \in 1..n : t[k].cmd # "flash")
    BY DEF NoFlash
<1>5. Front4(s) => m >= 4 /\ IsSave(s[3]) /\ IsRequire(s[4])
    BY DEF Front4
<1> HIDE DEF q, m, n
<1>3. ASSUME NEW k \in 1..Len(q) PROVE q[k].cmd # "flash"
  <2>1. CASE k <= m
    <3>1. k \in 1..m
      BY <1>1, <2>1
    <3> QED BY <1>1, <1>2, <3>1
  <2>2. CASE k > m
    <3>1. k \in (m + 1)..(m + n) /\ k - m \in 1..n
      BY <1>1, <2>2
    <3> QED BY <1>1, <1>2, <3>1
  <2> QED BY <1>1, <2>1, <2>2
<1>4. Front4(s) => Front4(q)
  <2> SUFFICES ASSUME Front4(s) PROVE Front4(q)
    OBVIOUS
  <2>1. 3 \in 1..m /\ 4 \in 1..m /\ Len(q) >= 4
    BY <1>1, <1>5
  <2> QED BY <1>1, <1>5, <2>1 DEF Front4
<1> QED
    BY <1>1, <1>3, <1>4 DEF NoFlash, q, m, n

\* The number of sparse files, or 1 for the whole file, and what they are.
PartNumbers(o) == IF o = <<>> THEN [j \in 1..1 |-> 0] ELSE [j \in 1..Len(o) |-> j]

\* n positions two apart.
LEMMA TwoApart ==
    ASSUME NEW n \in Nat, NEW pos \in [0..n -> Nat], pos[0] = 0,
           \A i \in 1..n : pos[i] = pos[i - 1] + 2
    PROVE  \A i \in 0..n : pos[i] = 2 * i
<1> DEFINE T == {i \in 0..n : pos[i] = 2 * i}
<1>1. 0 \in T
    OBVIOUS
<1>2. ASSUME NEW i \in 1..n, i - 1 \in T PROVE i \in T
  <2>1. pos[i - 1] = 2 * (i - 1) /\ pos[i] = pos[i - 1] + 2 /\ i \in 0..n
    BY <1>2
  <2>2. 2 * (i - 1) + 2 = 2 * i
    OBVIOUS
  <2> QED BY <2>1, <2>2
<1> HIDE DEF T
<1>3. 0..n \subseteq T
    BY <1>1, <1>2, BoundedInduction
<1> QED
    BY <1>3 DEF T

\* flash_buf() downloads and flashes each part.
LEMMA FlashBuf ==
    ASSUME NEW o \in Seq(Seq(Block)), o = out_s, file.size \in Nat,
           \A i \in 1..Len(o) : sparse_file_len(o[i], file.len) \in Nat,
           NEW d, d = PartNumbers(o), NEW n, n = (IF o = <<>> THEN 1 ELSE Len(o))
    PROVE  Pairs(flash_buf, n, d)
<1>1. CASE o = <<>>
  <2> DEFINE s == flash_buf
  <2>1. s = fb_queue_download("flash", file.size, 0) /\ n = 1 /\ d = [j \in 1..1 |-> 0]
    BY <1>1 DEF flash_buf, PartNumbers
  <2>2. /\ s \in Seq(Action) /\ Len(s) = 2
        /\ s[1] = [op |-> "download", func |-> "default", cmd |-> "flash", size |-> file.size, data |-> 0]
        /\ s[2] = [op |-> "command", func |-> "default", cmd |-> "flash", size |-> 0, data |-> 0]
    <3>1. "flash" \in {"flash", "signature"} /\ 0 \in Nat
      OBVIOUS
    <3> HIDE DEF s
    <3> QED BY <2>1, <3>1, QueueDownload
  <2> HIDE DEF s
  <2>3. IsDownload(s[1], 0) /\ IsFlash(s[2])
    BY <2>2 DEF IsDownload, IsFlash
  <2>4. d \in [1..1 -> Nat] /\ d[1] = 0
    BY <2>1
  <2>5. \A j \in 1..1 : 2 * j - 1 = 1 /\ 2 * j = 2 /\ j = 1
    OBVIOUS
  <2>6. \A j \in 1..1 : IsDownload(s[2 * j - 1], d[j]) /\ IsFlash(s[2 * j])
    BY <2>3, <2>4, <2>5
  <2>7. Len(s) = 2 * 1 /\ 1 \in Nat
    BY <2>2
  <2>8. Pairs(s, 1, d)
    BY <2>2, <2>4, <2>6, <2>7 DEF Pairs
  <2>9. Pairs(s, n, d)
    BY <2>1, <2>8
  <2> QED BY <2>9 DEF s
<1>2. CASE o # <<>>
  <2> DEFINE part1(i) == fb_queue_download("flash", sparse_file_len(o[i], file.len), i)
             seqs == [i \in 1..n |-> part1(i)]
             s == flash_buf
  <2>1. n = Len(o) /\ n \in Nat /\ DOMAIN o = 1..n /\ d = [j \in 1..n |-> j]
    BY <1>2 DEF PartNumbers
  <2>2. s = FlattenSeq(seqs)
    BY <1>2, <2>1 DEF flash_buf
  <2>3. ASSUME NEW i \in 1..n
        PROVE  part1(i) \in Seq(Action) /\ Len(part1(i)) = 2 /\ IsDownload(part1(i)[1], i)
               /\ IsFlash(part1(i)[2])
    <3> DEFINE x == part1(i)
               z == sparse_file_len(o[i], file.len)
    <3>1. "flash" \in {"flash", "signature"} /\ i \in Nat /\ z \in Nat
      BY <2>1
    <3>2. x = fb_queue_download("flash", z, i)
      OBVIOUS
    <3> HIDE DEF x, z
    <3>3. /\ x \in Seq(Action) /\ Len(x) = 2
          /\ x[1] = [op |-> "download", func |-> "default", cmd |-> "flash", size |-> z, data |-> i]
          /\ x[2] = [op |-> "command", func |-> "default", cmd |-> "flash", size |-> 0, data |-> 0]
      BY <3>1, <3>2, QueueDownload
    <3>4. IsDownload(x[1], i) /\ IsFlash(x[2])
      BY <3>3 DEF IsDownload, IsFlash
    <3> QED BY <3>3, <3>4 DEF x
  <2> HIDE DEF part1
  <2>4. seqs \in [1..n -> Seq(Action)] /\ \A i \in 1..n : seqs[i] = part1(i)
    BY <2>3
  <2> HIDE DEF seqs, s
  <2>5. seqs \in Seq(Seq(Action)) /\ Len(seqs) = n
    <3> DEFINE V == Seq(Action)
    <3>1. seqs \in [1..n -> V]
      BY <2>4
    <3> HIDE DEF V
    <3>2. seqs \in Seq(V) /\ Len(seqs) = n
      <4>1. n \in Nat
        BY <2>1
      <4> QED BY ONLY <3>1, <4>1
    <3> QED BY <3>2 DEF V
  <2>6. PICK pos : Flattened(s, Action, n, seqs, pos)
    BY <2>1, <2>2, <2>5, Flat
  <2>7. /\ s \in Seq(Action) /\ pos \in [0..n -> Nat] /\ pos[0] = 0 /\ pos[n] = Len(s)
        /\ \A i \in 1..n : pos[i] = pos[i - 1] + Len(seqs[i])
        /\ \A i \in 1..n : \A k \in 1..Len(seqs[i]) : s[pos[i - 1] + k] = seqs[i][k]
    BY <2>6 DEF Flattened
  <2>8. \A i \in 0..n : pos[i] = 2 * i
    <3>1. ASSUME NEW i \in 1..n PROVE pos[i] = pos[i - 1] + 2
      <4>1. Len(seqs[i]) = 2
        BY <2>3, <2>4
      <4> QED BY <2>7, <4>1
    <3> QED BY <2>1, <2>7, <3>1, TwoApart, ZenonT(60)
  <2>9. ASSUME NEW j \in 1..n PROVE IsDownload(s[2 * j - 1], d[j]) /\ IsFlash(s[2 * j])
    <3> DEFINE x == part1(j)
    <3>1. x = seqs[j] /\ Len(x) = 2 /\ IsDownload(x[1], j) /\ IsFlash(x[2])
      BY <2>3, <2>4
    <3> HIDE DEF x
    <3>2. \A k \in 1..2 : s[pos[j - 1] + k] = x[k]
      BY <2>7, <3>1
    <3>3. 1 \in 1..2 /\ 2 \in 1..2 /\ j - 1 \in 0..n
      BY <2>1
    <3>4. pos[j - 1] = 2 * (j - 1) /\ 2 * (j - 1) + 1 = 2 * j - 1 /\ 2 * (j - 1) + 2 = 2 * j
      BY <2>8, <3>3
    <3>5. s[2 * j - 1] = x[1] /\ s[2 * j] = x[2]
      BY <3>2, <3>3, <3>4
    <3>6. d[j] = j
      BY <2>1
    <3> QED BY <3>1, <3>5, <3>6
  <2>10. Len(s) = 2 * n /\ d \in [1..n -> Nat]
    <3>1. n \in 0..n
      BY <2>1
    <3>2. Len(s) = 2 * n
      BY <2>7, <2>8, <3>1
    <3>3. \A j \in 1..n : j \in Nat
      BY <2>1
    <3> QED BY <2>1, <3>2, <3>3
  <2>11. Pairs(s, n, d)
    BY <2>1, <2>7, <2>9, <2>10 DEF Pairs
  <2> QED BY <2>11 DEF s
<1> QED
    BY <1>1, <1>2

\* What is queued in front of the image and behind it.
Signed(sig) == IF sig THEN fb_queue_download("signature", 256, 0) ELSE <<>>
Erased(erase) == IF erase THEN fb_queue_command("erase") ELSE <<>>
Rebooted(reboot) ==
    IF reboot THEN queue_action("command", "nothing", "reboot", 0, 0)
                   \o queue_action("wait", "default", "none", 0, 0)
    ELSE <<>>

LEMMA Around ==
    ASSUME NEW sig \in BOOLEAN, NEW erase \in BOOLEAN, NEW reboot \in BOOLEAN,
           NEW checks \in {Checks, Info, <<>>},
           NEW x, x = (checks \o Signed(sig)) \o Erased(erase),
           NEW r, r = Rebooted(reboot)
    PROVE  /\ x \in Seq(Action) /\ NoFlash(x) /\ (checks = Checks => Front4(x))
           /\ r \in Seq(Action) /\ NoFlash(r) /\ NoErase(r)
<1> DEFINE s == Signed(sig)
           e == Erased(erase)
<1>8. /\ s = (IF sig THEN fb_queue_download("signature", 256, 0) ELSE <<>>)
      /\ e = (IF erase THEN fb_queue_command("erase") ELSE <<>>)
      /\ r = (IF reboot THEN queue_action("command", "nothing", "reboot", 0, 0)
                             \o queue_action("wait", "default", "none", 0, 0)
              ELSE <<>>)
    BY DEF Signed, Erased, Rebooted
<1>9. x = (checks \o s) \o e
    OBVIOUS
<1> HIDE DEF s, e
<1>1. s \in Seq(Action) /\ NoFlash(s)
  <2>1. CASE ~sig
    BY <1>8, <2>1, EmptyQueue
  <2>2. CASE sig
    <3> DEFINE z == 256
               y == 0
    <3>1. s = fb_queue_download("signature", z, y)
          /\ "signature" \in {"flash", "signature"} /\ z \in Nat /\ y \in Nat
      BY <1>8, <2>2
    <3> HIDE DEF z, y
    <3>2. /\ s \in Seq(Action) /\ Len(s) = 2
          /\ s[1] = [op |-> "download", func |-> "default", cmd |-> "signature", size |-> z, data |-> y]
          /\ s[2] = [op |-> "command", func |-> "default", cmd |-> "signature", size |-> 0, data |-> 0]
      BY <3>1, QueueDownload
    <3>3. s[1].cmd # "flash" /\ s[2].cmd # "flash"
      BY <3>2
    <3>4. \A k \in 1..2 : s[k].cmd # "flash"
      BY <3>3
    <3> QED BY <3>2, <3>4 DEF NoFlash
  <2> QED BY <2>1, <2>2
<1>2. e \in Seq(Action) /\ NoFlash(e)
  <2>1. CASE ~erase
    BY <1>8, <2>1, EmptyQueue
  <2>2. CASE erase
    <3> DEFINE y == [op |-> "command", func |-> "default", cmd |-> "erase", size |-> 0, data |-> 0]
    <3>1. e = queue_action("command", "default", "erase", 0, 0) /\ y \in Action /\ y.cmd # "flash"
      BY <1>8, <2>2 DEF fb_queue_command, Action
    <3>2. e \in Seq(Action) /\ Len(e) = 1 /\ e[1] = y
      BY <3>1, QueueAction
    <3> QED BY <3>1, <3>2 DEF NoFlash
  <2> QED BY <2>1, <2>2
<1>3. r \in Seq(Action) /\ NoFlash(r) /\ NoErase(r)
  <2>1. CASE ~reboot
    BY <1>8, <2>1, EmptyQueue
  <2>2. CASE reboot
    <3> DEFINE y == [op |-> "command", func |-> "nothing", cmd |-> "reboot", size |-> 0, data |-> 0]
               v == [op |-> "wait", func |-> "default", cmd |-> "none", size |-> 0, data |-> 0]
               t == <<y>>
    <3>1. y \in Action /\ v \in Action /\ y.cmd = "reboot" /\ v.cmd = "none"
      BY DEF Action
    <3>2. r = t \o <<v>>
      BY <1>8, <2>2 DEF queue_action
    <3> HIDE DEF y, v
    <3>3. t \in Seq(Action) /\ Len(t) = 1 /\ t[1] = y /\ 1 \in Nat
      BY <3>1
    <3> HIDE DEF t
    <3>7. 2 = 1 + 1
      OBVIOUS
    <3>4. r \in Seq(Action) /\ Len(r) = 2 /\ r[2] = v /\ \A k \in 1..1 : r[k] = t[k]
      <4>1. t \in Seq(Action) /\ Len(t) = 1 /\ v \in Action /\ 1 \in Nat
        BY <3>1, <3>3
      <4> QED BY ONLY <3>2, <3>7, <4>1, OneMore
    <3>5. Len(r) = 2 /\ r[1].cmd = "reboot" /\ r[2].cmd = "none"
      BY <3>1, <3>3, <3>4
    <3>6. \A k \in 1..2 : r[k].cmd # "flash" /\ r[k].cmd # "erase"
      BY <3>5
    <3> QED BY <3>4, <3>5, <3>6 DEF NoFlash, NoErase
  <2> QED BY <2>1, <2>2
<1>4. checks \in Seq(Action) /\ NoFlash(checks) /\ (checks = Checks => Front4(checks))
    BY ChecksQueued, EmptyQueue
<1> DEFINE u == checks \o s
<1>5. u \in Seq(Action) /\ NoFlash(u) /\ (checks = Checks => Front4(u))
    BY <1>1, <1>4, NoFlashConcat
<1>6. x = u \o e
    BY <1>9
<1> HIDE DEF u
<1>7. x \in Seq(Action) /\ NoFlash(x) /\ (checks = Checks => Front4(x))
    BY <1>2, <1>5, <1>6, NoFlashConcat
<1> QED
    BY <1>3, <1>7

-----------------------------------------------------------------------------
(* fb_execute_queue(). *)

\* What the partition holds when the first k actions are done, of parts c.
Held(c, n, a, k) == UNION {c[i] : i \in {j \in 1..n : a + 2 * j <= k}}

\* The partition is x, and the device's buffer b.
Wrote(a, n, d, c, k, b, x) ==
    /\ x = Held(c, n, a, k)
    /\ \A j \in 1..n : k = a + 2 * j - 1 => b = [what |-> "flash", data |-> d[j]]

\* An action that is none of the download and the flashing of a part.
Other(x) == x.cmd # "flash" \/ x.op \notin {"download", "command"} \/ x.func = "nothing"

LEMMA TwoPlaces ==
    ASSUME NEW n \in Nat, NEW i \in 1..(2 * n)
    PROVE  \E j \in 1..n : i = 2 * j \/ i = 2 * j - 1
<1> DEFINE j == (i + 1) \div 2
<1>1. j \in 1..n /\ (i = 2 * j \/ i = 2 * j - 1)
    OBVIOUS
<1> QED
    BY <1>1

LEMMA OtherPlace ==
    ASSUME NEW q, NEW a, NEW n, NEW d, Plan(q, a, n, d), NEW k \in Nat, Other(q[k])
    PROVE  \A j \in 1..n : k # a + 2 * j /\ k # a + 2 * j - 1
<1>1. ASSUME NEW j \in 1..n PROVE ~Other(q[a + 2 * j]) /\ ~Other(q[a + 2 * j - 1])
  <2>1. IsDownload(q[a + 2 * j - 1], d[j]) /\ IsFlash(q[a + 2 * j])
    BY DEF Plan
  <2> QED BY <2>1 DEF Other, IsDownload, IsFlash
<1> QED
    BY <1>1

LEMMA HeldSame ==
    ASSUME NEW a \in Nat, NEW n \in Nat, NEW c, NEW k \in Nat, NEW l \in Nat, l = k + 1,
           \A j \in 1..n : l # a + 2 * j
    PROVE  Held(c, n, a, l) = Held(c, n, a, k)
<1>1. \A j \in 1..n : a + 2 * j <= l <=> a + 2 * j <= k
    OBVIOUS
<1> QED
    BY <1>1 DEF Held

LEMMA WroteOther ==
    ASSUME NEW q, NEW a, NEW n, NEW d, Plan(q, a, n, d), NEW c, NEW k \in Nat, NEW b, NEW x,
           NEW l, l = k + 1, Other(q[l]), Wrote(a, n, d, c, k, b, x)
    PROVE  Wrote(a, n, d, c, l, b, x)
<1>1. l \in Nat /\ a \in Nat /\ n \in Nat
    BY DEF Plan
<1>2. \A j \in 1..n : l # a + 2 * j /\ l # a + 2 * j - 1
    BY <1>1, OtherPlace
<1>3. Held(c, n, a, l) = Held(c, n, a, k)
  <2>1. \A j \in 1..n : l # a + 2 * j
    BY ONLY <1>2
  <2>2. l = k + 1 /\ k \in Nat
    OBVIOUS
  <2> QED BY ONLY <1>1, <2>1, <2>2, HeldSame
<1> QED
    BY <1>2, <1>3 DEF Wrote

LEMMA WroteErase ==
    ASSUME NEW q, NEW a, NEW n, NEW d, Plan(q, a, n, d), NEW c, NEW k \in 1..Len(q), NEW b,
           q[k].cmd = "erase"
    PROVE  Wrote(a, n, d, c, k, b, {})
<1>1. k \in Nat /\ a \in Nat /\ n \in Nat /\ ~(k > a + 2 * n)
    BY DEF Plan
<1>2. \A j \in 1..n : k # a + 2 * j /\ k # a + 2 * j - 1
    BY <1>1, OtherPlace, ZenonT(60) DEF Other
<1>3. k <= a
  <2> SUFFICES ASSUME k > a PROVE FALSE
    BY <1>1
  <2>1. k - a \in 1..(2 * n)
    BY <1>1
  <2>2. PICK j \in 1..n : k - a = 2 * j \/ k - a = 2 * j - 1
    BY <1>1, <2>1, TwoPlaces
  <2>3. k = a + 2 * j \/ k = a + 2 * j - 1
    BY <1>1, <2>2
  <2> QED BY <1>2, <2>3
<1>4. Held(c, n, a, k) = {}
  <2>1. \A j \in 1..n : ~(a + 2 * j <= k)
    BY <1>1, <1>3
  <2> QED BY <2>1 DEF Held
<1> QED
    BY <1>2, <1>4 DEF Wrote

LEMMA WroteDownload ==
    ASSUME NEW q, NEW a, NEW n, NEW d, Plan(q, a, n, d), NEW c, NEW k \in Nat, NEW b, NEW x,
           NEW l, l = k + 1, q[l].op = "download", Wrote(a, n, d, c, k, b, x)
    PROVE  Wrote(a, n, d, c, l, [what |-> q[l].cmd, data |-> q[l].data], x)
<1>1. l \in Nat /\ a \in Nat /\ n \in Nat
    BY DEF Plan
<1>2. ASSUME NEW j \in 1..n PROVE l # a + 2 * j
  <2>1. IsFlash(q[a + 2 * j])
    BY DEF Plan
  <2> QED BY <2>1 DEF IsFlash
<1>3. Held(c, n, a, l) = Held(c, n, a, k)
  <2>1. \A j \in 1..n : l # a + 2 * j
    BY ONLY <1>2
  <2>2. l = k + 1 /\ k \in Nat
    OBVIOUS
  <2> QED BY ONLY <1>1, <2>1, <2>2, HeldSame
<1>4. ASSUME NEW j \in 1..n, l = a + 2 * j - 1
      PROVE  q[l].cmd = "flash" /\ q[l].data = d[j]
  <2>1. IsDownload(q[a + 2 * j - 1], d[j])
    BY DEF Plan
  <2> QED BY <1>4, <2>1 DEF IsDownload
<1> QED
    BY <1>3, <1>4 DEF Wrote

\* No two parts have a block in common.
Disjoint(c, n) ==
    \A i, j \in 1..n : i < j => \A x \in c[i], y \in c[j] : x.block # y.block

LEMMA WroteFlash ==
    ASSUME NEW q, NEW a, NEW n, NEW d, Plan(q, a, n, d), NEW c, Disjoint(c, n),
           NEW k \in Nat, NEW l \in 1..Len(q), l = k + 1, NEW b, NEW x,
           q[l].op = "command", q[l].cmd = "flash", Wrote(a, n, d, c, k, b, x)
    PROVE  \E j \in 1..n : 
              /\ b = [what |-> "flash", data |-> d[j]]
              /\ Wrote(a, n, d, c, l, b, {y \in x : y.block \notin {z.block : z \in c[j]}} \cup c[j])
<1>1. l \in Nat /\ a \in Nat /\ n \in Nat /\ k \in Nat
    BY DEF Plan
<1>2. l > a /\ l <= a + 2 * n
    BY <1>1 DEF Plan
<1>3. \A j \in 1..n : l # a + 2 * j - 1
  <2> SUFFICES ASSUME NEW j \in 1..n, l = a + 2 * j - 1 PROVE FALSE
    OBVIOUS
  <2>1. IsDownload(q[a + 2 * j - 1], d[j])
    BY DEF Plan
  <2> QED BY <2>1 DEF IsDownload
<1>4. \E j \in 1..n : l = a + 2 * j
  <2>1. l - a \in 1..(2 * n)
    BY <1>1, <1>2
  <2>2. PICK j \in 1..n : l - a = 2 * j \/ l - a = 2 * j - 1
    BY <1>1, <2>1, TwoPlaces
  <2>3. l = a + 2 * j \/ l = a + 2 * j - 1
    BY <1>1, <2>2
  <2> QED BY <1>3, <2>3
<1>5. PICK j \in 1..n : l = a + 2 * j
    BY <1>4
<1>6. k = a + 2 * j - 1 /\ j \in Nat
    BY <1>1, <1>5
<1>7. b = [what |-> "flash", data |-> d[j]] /\ x = Held(c, n, a, k)
    BY <1>6 DEF Wrote
<1> DEFINE blocks == {z.block : z \in c[j]}
           y == {z \in x : z.block \notin blocks} \cup c[j]
<1>8. \A i \in 1..n : (a + 2 * i <= l <=> i < j \/ i = j) /\ (a + 2 * i <= k <=> i < j)
    BY <1>1, <1>5, <1>6
<1>9. \A z : z \in x <=> \E i \in 1..n : i < j /\ z \in c[i]
    BY <1>7, <1>8 DEF Held
<1>10. \A z : z \in Held(c, n, a, l) <=> \E i \in 1..n : (i < j \/ i = j) /\ z \in c[i]
    BY <1>8 DEF Held
<1>11. ASSUME NEW z \in x PROVE z.block \notin blocks
  <2>1. PICK i \in 1..n : i < j /\ z \in c[i]
    BY <1>9
  <2> QED BY <2>1 DEF Disjoint
<1>12. y = x \cup c[j]
    BY <1>11
<1> HIDE DEF blocks, y
<1>13. y = Held(c, n, a, l)
  <2>1. \A z : z \in Held(c, n, a, l) <=> z \in x \/ z \in c[j]
    BY <1>9, <1>10
  <2> QED BY <1>12, <2>1
<1>14. Wrote(a, n, d, c, l, b, y)
    BY <1>3, <1>13 DEF Wrote
<1> QED
    BY <1>7, <1>14 DEF y, blocks

\* "flashall", and the device does not meet the requirement for its product.
Unsuited == command = "flashall" /\ listed /\ device.product = "a" /\ ~device.meets

\* The actions that are done: the device answers before the host goes on.
Done(w, p) == IF w = "OKAY" THEN p + 1 ELSE p

\* Where the host is with the action behind the first p, and what is on the wire.
Link(h, w, q, p) ==
    \/ h = "next" /\ w = "none"
    \/ p < Len(q) /\ h = "reply" /\ w \in {"command", "FAIL"}
    \/ p < Len(q) /\ h = "reply" /\ w = "OKAY" /\ q[p + 1].op # "download"
    \/ /\ p < Len(q) /\ q[p + 1].op = "download"
       /\ \/ h = "reply" /\ w = "DATA"
          \/ h = "data" /\ w = "none"
          \/ h = "end" /\ w \in {"data", "short", "OKAY", "FAIL"}

\* The n parts c, with the numbers d, are the image.
Sent(n, d, c) ==
    /\ \A j \in 1..n : c[j] = IF d[j] = 0 THEN WholeImage ELSE Contents(out_s[d[j]])
    /\ Disjoint(c, n)
    /\ Loaded => UNION {c[j] : j \in 1..n} = ImageContents

\* A device that is not suited never gets past the requirement.
Fit(q, a, p, pr, u) ==
    u => a >= 4 /\ IsSave(q[3]) /\ IsRequire(q[4]) /\ p <= 3 /\ (p = 3 => pr = "a")

\* Of the queue q the first p actions are done.
Running(q, a, n, d, c, p) ==
    /\ Plan(q, a, n, d) /\ Sent(n, d, c)
    /\ p \in 0..Len(q) /\ todo = Rest(q, p) /\ Link(host, wire, q, p)
    /\ Wrote(a, n, d, c, Done(wire, p), buffer, part)
    /\ Fit(q, a, p, product, Unsuited)

ExecInv ==
    /\ device \in [up : BOOLEAN, product : {"a", "b"}, meets : BOOLEAN]
    /\ phase # "execute" => wire = "none"
    /\ phase \notin {"execute", "exit"} => host = "next" /\ part = {}
    /\ phase = "execute" => \E q, a, n, d, c, p : Running(q, a, n, d, c, p)
    /\ phase = "exit" => /\ status = 0 /\ Loaded => part = ImageContents
                         /\ Unsuited => part = {}

LEMMA TodoNext ==
    ASSUME NEW S, NEW q \in Seq(S), NEW p \in 0..Len(q), NEW t, t = Rest(q, p)
    PROVE  /\ t = <<>> => p = Len(q)
           /\ t # <<>> => /\ p < Len(q) /\ p + 1 \in 1..Len(q) /\ p + 1 \in 0..Len(q)
                          /\ Head(t) = q[p + 1] /\ Tail(t) = Rest(q, p + 1)
<1>1. /\ t \in Seq(S) /\ Len(t) = Len(q) - p
      /\ \A k \in 1..(Len(q) - p) : t[k] = q[p + k]
    BY RestOf
<1>2. Len(q) \in Nat /\ p \in Nat /\ p <= Len(q)
    OBVIOUS
<1>3. t = <<>> => p = Len(q)
    BY <1>1, <1>2
<1>4. ASSUME t # <<>>
      PROVE  /\ p < Len(q) /\ p + 1 \in 1..Len(q) /\ p + 1 \in 0..Len(q)
             /\ Head(t) = q[p + 1] /\ Tail(t) = Rest(q, p + 1)
  <2>1. Len(t) # 0
    BY <1>1, <1>4
  <2>2. p < Len(q) /\ p + 1 \in 1..Len(q) /\ p + 1 \in 0..Len(q) /\ 1 \in 1..(Len(q) - p)
    BY <1>1, <1>2, <2>1
  <2>3. Head(t) = t[1] /\ Tail(t) = Rest(t, 1)
    BY <1>1, <1>4 DEF Rest
  <2>4. t[1] = q[p + 1]
    BY <1>1, <2>2
  <2>5. Rest(t, 1) = Rest(q, p + 1)
    <3>1. 1 \in 0..(Len(q) - p)
      BY <1>2, <2>2
    <3> QED BY <3>1, RestRest
  <2> QED BY <2>2, <2>3, <2>4, <2>5
<1> QED
    BY <1>3, <1>4

LEMMA Goes ==
    ASSUME NEW q, NEW a, NEW n, NEW d, NEW c, NEW p, Running(q, a, n, d, c, p),
           UNCHANGED <<image, split>>, NEW r \in 0..Len(q), todo' = Rest(q, r),
           Link(host', wire', q, r), Wrote(a, n, d, c, Done(wire', r), buffer', part'),
           Fit(q, a, r, product', Unsuited')
    PROVE  Running(q, a, n, d, c, r)'
<1>1. UNCHANGED <<file, lost, out_s>>
    BY DEF image, split
<1>2. Plan(q, a, n, d) /\ Sent(n, d, c)
    BY DEF Running
<1>3. ImageContents' = ImageContents /\ WholeImage' = WholeImage /\ Loaded' = Loaded
    BY <1>1, ContentsStay DEF Loaded
<1>4. Sent(n, d, c)'
    BY <1>1, <1>2, <1>3 DEF Sent
<1> QED
    BY <1>2, <1>4 DEF Running

\* A device that is not suited holds nothing.
LEMMA UnsuitedEmpty ==
    ASSUME NEW q, NEW a, NEW n, NEW d, NEW c, NEW p, Running(q, a, n, d, c, p), Unsuited
    PROVE  part = {}
<1>1. Plan(q, a, n, d) /\ p \in 0..Len(q) /\ a >= 4 /\ p <= 3
      /\ part = Held(c, n, a, Done(wire, p))
    BY DEF Running, Fit, Wrote
<1>2. a \in Nat /\ n \in Nat /\ p \in Nat
    BY <1>1 DEF Plan
<1>3. Done(wire, p) <= 4 /\ Done(wire, p) \in Nat
    BY <1>1, <1>2 DEF Done
<1>4. \A j \in 1..n : ~(a + 2 * j <= Done(wire, p))
    BY <1>1, <1>2, <1>3
<1> QED
    BY <1>1, <1>4 DEF Held

\* The first action has ended, after an answer of the device or without one.
LEMMA ExecComplete ==
    ASSUME ExecInv, Executing, NEW ok \in BOOLEAN, Complete(ok), ok => wire = "OKAY",
           wire' = "none", UNCHANGED <<buffer, part, device>>
    PROVE  ExecInv'
<1>1. phase = "execute" /\ todo # <<>> /\ UNCHANGED <<image, split>> /\ UNCHANGED <<command, listed, file>>
    BY DEF Executing, Complete, image
<1>2. PICK q, a, n, d, c, p : Running(q, a, n, d, c, p)
    BY <1>1 DEF ExecInv
<1>3. /\ Plan(q, a, n, d) /\ p \in 0..Len(q) /\ todo = Rest(q, p)
      /\ Wrote(a, n, d, c, Done(wire, p), buffer, part)
      /\ Fit(q, a, p, product, Unsuited)
    BY <1>2 DEF Running
<1>4. q \in Seq(Action) /\ p \in Nat
    BY <1>3 DEF Plan
<1> DEFINE r == p + 1
           x == q[r]
<1>5. p < Len(q) /\ r \in 1..Len(q) /\ r \in 0..Len(q) /\ Head(todo) = x /\ Tail(todo) = Rest(q, r)
    BY <1>1, <1>3, <1>4, TodoNext
<1>6. Unsuited' = Unsuited
    BY <1>1 DEF Unsuited
<1>7. x \in Action
    BY <1>4, <1>5
<1>8. device \in [up : BOOLEAN, product : {"a", "b"}, meets : BOOLEAN]
    BY DEF ExecInv
<1>9. CASE ~Func(Head(todo), ok)
  <2>1. phase' = "exit" /\ status' = 1
    BY <1>9 DEF Complete
  <2>2. Unsuited => part = {}
    BY <1>2, UnsuitedEmpty
  <2> QED BY <1>6, <1>8, <2>1, <2>2 DEF ExecInv
<1>10. CASE Func(Head(todo), ok)
  <2>1. todo' = Rest(q, r) /\ host' = "next" /\ phase' = "execute"
        /\ product' = (IF x.func = "save" /\ ok THEN device.product ELSE product)
    BY <1>1, <1>5, <1>10 DEF Complete
  <2>2. Func(x, ok)
    BY <1>5, <1>10
  <2> HIDE DEF x
  <2>3. ok \/ x.func = "nothing"
    BY <2>2 DEF Func
  <2>4. Wrote(a, n, d, c, r, buffer, part)
    <3>1. CASE wire = "OKAY"
      BY <1>3, <3>1 DEF Done
    <3>2. CASE wire # "OKAY"
      <4>1. Other(q[r])
        BY <2>3, <3>2 DEF Other, x
      <4>2. Wrote(a, n, d, c, p, buffer, part)
        BY <1>3, <3>2 DEF Done
      <4> QED BY <1>3, <1>4, <4>1, <4>2, WroteOther
    <3> QED BY <3>1, <3>2
  <2>5. Fit(q, a, r, product', Unsuited)
    <3> SUFFICES ASSUME Unsuited PROVE Fit(q, a, r, product', Unsuited)
      BY DEF Fit
    <3>1. a >= 4 /\ IsSave(q[3]) /\ IsRequire(q[4]) /\ p <= 3 /\ (p = 3 => product = "a")
      BY <1>3 DEF Fit
    <3>2. p # 3
      <4> SUFFICES ASSUME p = 3 PROVE FALSE
        OBVIOUS
      <4>1. x.func = "require" /\ product = "a" /\ ~device.meets
        BY <3>1 DEF x, Unsuited, IsRequire
      <4> QED BY <2>2, <4>1 DEF Func, cb_check
    <3>3. r <= 3
      BY <1>4, <3>1, <3>2
    <3>4. ASSUME r = 3 PROVE product' = "a"
      <4>1. x.func = "save"
        BY <3>1, <3>4 DEF x, IsSave
      <4>2. ok
        BY <2>3, <4>1
      <4> QED BY <2>1, <4>1, <4>2 DEF Unsuited
    <3> QED BY <3>1, <3>3, <3>4 DEF Fit
  <2>6. Link(host', wire', q, r) /\ Done(wire', r) = r
    BY <2>1 DEF Link, Done
  <2> HIDE DEF r
  <2>7. Wrote(a, n, d, c, Done(wire', r), buffer', part') /\ Fit(q, a, r, product', Unsuited')
    BY <1>6, <2>4, <2>5, <2>6
  <2>8. Running(q, a, n, d, c, r)'
    BY <1>1, <1>2, <1>5, <2>1, <2>6, <2>7, Goes
  <2> QED BY <1>8, <2>1, <2>8 DEF ExecInv
<1> QED
    BY <1>9, <1>10

\* A step in the middle of an action.
LEMMA ExecWithin ==
    ASSUME ExecInv, phase = "execute", phase' = "execute",
           NEW q, NEW a, NEW n, NEW d, NEW c, NEW p, Running(q, a, n, d, c, p),
           UNCHANGED <<image, split>>, UNCHANGED <<todo, product, device>>,
           Link(host', wire', q, p), Wrote(a, n, d, c, Done(wire', p), buffer', part')
    PROVE  ExecInv'
<1>1. p \in 0..Len(q) /\ todo' = Rest(q, p) /\ Fit(q, a, p, product, Unsuited)
    BY DEF Running
<1>2. Unsuited' = Unsuited
    BY DEF Unsuited, image
<1>3. Fit(q, a, p, product', Unsuited')
    BY <1>1, <1>2
<1>4. Running(q, a, n, d, c, p)'
    BY <1>1, <1>3, Goes
<1>5. device' \in [up : BOOLEAN, product : {"a", "b"}, meets : BOOLEAN]
    BY DEF ExecInv
<1> QED
    BY <1>4, <1>5 DEF ExecInv

\* The action that is being executed.
LEMMA ExecHead ==
    ASSUME NEW q, NEW a, NEW n, NEW d, NEW c, NEW p, Running(q, a, n, d, c, p), NEW r, r = p + 1
    PROVE  /\ Plan(q, a, n, d) /\ Sent(n, d, c) /\ p \in 0..Len(q) /\ p \in Nat /\ Link(host, wire, q, p)
           /\ Wrote(a, n, d, c, Done(wire, p), buffer, part)
           /\ todo = <<>> => p = Len(q)
           /\ todo # <<>> <=> p < Len(q)
           /\ p < Len(q) => /\ r \in 1..Len(q) /\ r \in 0..Len(q)
                            /\ Head(todo) = q[r] /\ Tail(todo) = Rest(q, r)
<1>1. /\ Plan(q, a, n, d) /\ Sent(n, d, c) /\ p \in 0..Len(q) /\ todo = Rest(q, p)
      /\ Link(host, wire, q, p) /\ Wrote(a, n, d, c, Done(wire, p), buffer, part)
    BY DEF Running
<1>2. q \in Seq(Action) /\ p \in Nat /\ Len(q) \in Nat
    BY <1>1 DEF Plan
<1>3. /\ todo = <<>> => p = Len(q)
      /\ todo # <<>> => /\ p < Len(q) /\ r \in 1..Len(q) /\ r \in 0..Len(q)
                        /\ Head(todo) = q[r] /\ Tail(todo) = Rest(q, r)
    BY <1>1, <1>2, TodoNext
<1>4. p < Len(q) => todo # <<>>
    BY <1>2, <1>3
<1> QED
    BY <1>1, <1>2, <1>3, <1>4

LEMMA ExecNotice ==
    ASSUME ExecInv, Notice
    PROVE  ExecInv'
<1>1. /\ phase = "execute" /\ phase' = "execute" /\ todo # <<>> /\ host = "next"
      /\ Head(todo).op \in {"notice", "wait"} /\ todo' = Tail(todo)
      /\ UNCHANGED <<image, split>> /\ UNCHANGED <<host, product, wire, buffer, part, device>>
    BY DEF Notice, Executing, target
<1>2. PICK q, a, n, d, c, p : Running(q, a, n, d, c, p)
    BY <1>1 DEF ExecInv
<1> DEFINE r == p + 1
<1>3. /\ Plan(q, a, n, d) /\ p \in Nat /\ p < Len(q) /\ Link(host, wire, q, p)
      /\ Wrote(a, n, d, c, Done(wire, p), buffer, part)
      /\ r \in 0..Len(q) /\ Head(todo) = q[r] /\ Tail(todo) = Rest(q, r)
    BY <1>1, <1>2, ExecHead
<1>4. wire = "none"
    BY <1>1, <1>3 DEF Link
<1>5. Other(q[r])
    BY <1>1, <1>3 DEF Other
<1>6. Wrote(a, n, d, c, p, buffer, part)
    BY <1>3, <1>4 DEF Done
<1>7. Wrote(a, n, d, c, r, buffer, part)
    BY <1>3, <1>5, <1>6, WroteOther
<1>8. Unsuited' = Unsuited
    BY <1>1 DEF Unsuited, image
<1>9. Fit(q, a, r, product, Unsuited)
  <2> SUFFICES ASSUME Unsuited PROVE Fit(q, a, r, product, Unsuited)
    BY DEF Fit
  <2>1. a >= 4 /\ IsSave(q[3]) /\ IsRequire(q[4]) /\ p <= 3 /\ (p = 3 => product = "a")
    BY <1>2 DEF Running, Fit
  <2>2. p # 2 /\ p # 3
    <3>1. q[3].op = "query" /\ q[4].op = "query"
      BY <2>1 DEF IsSave, IsRequire
    <3> QED BY <1>1, <1>3, <3>1
  <2>3. r <= 3 /\ r # 3
    BY <1>3, <2>1, <2>2
  <2> QED BY <2>1, <2>3 DEF Fit
<1> HIDE DEF r
<1>10. Link(host', wire', q, r) /\ Done(wire', r) = r
    BY <1>1, <1>4 DEF Link, Done
<1>11. Wrote(a, n, d, c, Done(wire', r), buffer', part') /\ Fit(q, a, r, product', Unsuited')
    BY <1>1, <1>7, <1>8, <1>9, <1>10
<1>12. Running(q, a, n, d, c, r)'
    BY <1>1, <1>2, <1>3, <1>10, <1>11, Goes
<1>13. device' \in [up : BOOLEAN, product : {"a", "b"}, meets : BOOLEAN]
    BY <1>1 DEF ExecInv
<1> QED
    BY <1>1, <1>12, <1>13 DEF ExecInv

LEMMA ExecStart ==
    ASSUME ExecInv, _command_start
    PROVE  ExecInv'
<1>1. Executing /\ phase = "execute" /\ todo # <<>> /\ host = "next" /\ UNCHANGED <<buffer, part, device>>
    BY DEF _command_start, Executing
<1>2. PICK q, a, n, d, c, p : Running(q, a, n, d, c, p)
    BY <1>1 DEF ExecInv
<1>3. p < Len(q) /\ Link(host, wire, q, p) /\ Wrote(a, n, d, c, Done(wire, p), buffer, part)
    BY <1>1, <1>2, ExecHead
<1>4. wire = "none"
    BY <1>1, <1>3 DEF Link
<1>5. CASE device.up
  <2>1. /\ wire' = "command" /\ host' = "reply" /\ phase' = "execute"
        /\ UNCHANGED <<image, split>> /\ UNCHANGED <<todo, product, device>>
    BY <1>1, <1>5 DEF _command_start
  <2>2. Link(host', wire', q, p) /\ Done(wire', p) = p /\ Done(wire, p) = p
    BY <1>3, <1>4, <2>1 DEF Link, Done
  <2>3. Wrote(a, n, d, c, Done(wire', p), buffer', part')
    BY <1>1, <1>3, <2>2
  <2> QED BY <1>1, <1>2, <2>1, <2>2, <2>3, ExecWithin
<1>6. CASE ~device.up
  <2>1. Complete(FALSE) /\ wire' = "none"
    BY <1>4, <1>6 DEF _command_start
  <2> QED BY <1>1, <2>1, ExecComplete
<1> QED
    BY <1>5, <1>6

LEMMA ExecData ==
    ASSUME ExecInv, _command_data
    PROVE  ExecInv'
<1>1. Executing /\ phase = "execute" /\ todo # <<>> /\ host = "data" /\ UNCHANGED <<buffer, part, device>>
    BY DEF _command_data, Executing
<1>2. PICK q, a, n, d, c, p : Running(q, a, n, d, c, p)
    BY <1>1 DEF ExecInv
<1>3. p < Len(q) /\ Link(host, wire, q, p) /\ Wrote(a, n, d, c, Done(wire, p), buffer, part)
    BY <1>1, <1>2, ExecHead
<1>4. wire = "none" /\ q[p + 1].op = "download"
    BY <1>1, <1>3 DEF Link
<1>5. CASE /\ wire' \in {"data", "short"} /\ host' = "end"
           /\ UNCHANGED <<phase, image, split, todo, status, product>>
  <2>1. /\ phase' = "execute" /\ UNCHANGED <<image, split>> /\ UNCHANGED <<todo, product, device>>
    BY <1>1, <1>5
  <2>2. Link(host', wire', q, p) /\ Done(wire', p) = p /\ Done(wire, p) = p
    BY <1>3, <1>4, <1>5, <2>1 DEF Link, Done
  <2>3. Wrote(a, n, d, c, Done(wire', p), buffer', part')
    BY <1>1, <1>3, <2>2
  <2> QED BY <1>1, <1>2, <2>1, <2>2, <2>3, ExecWithin
<1>6. CASE Complete(FALSE) /\ wire' = wire
  <2>1. Complete(FALSE) /\ wire' = "none"
    BY <1>4, <1>6
  <2> QED BY <1>1, <2>1, ExecComplete
<1> QED
    BY <1>5, <1>6 DEF _command_data

LEMMA ExecResponse ==
    ASSUME ExecInv, check_response
    PROVE  ExecInv'
<1>1. Executing /\ phase = "execute" /\ todo # <<>> /\ wire' = "none" /\ UNCHANGED <<buffer, part, device>>
    BY DEF check_response, Executing
<1>2. PICK q, a, n, d, c, p : Running(q, a, n, d, c, p)
    BY <1>1 DEF ExecInv
<1>3. /\ p < Len(q) /\ Link(host, wire, q, p) /\ Wrote(a, n, d, c, Done(wire, p), buffer, part)
      /\ Head(todo) = q[p + 1]
    BY <1>1, <1>2, ExecHead
<1>4. ~DownloadOkay
    BY <1>3 DEF Link, DownloadOkay
<1>5. CASE wire = "DATA" /\ device.up
  <2>1. /\ host' = "data" /\ phase' = "execute"
        /\ UNCHANGED <<image, split>> /\ UNCHANGED <<todo, product, device>>
    BY <1>1, <1>4, <1>5 DEF check_response
  <2>2. Link(host', wire', q, p) /\ Done(wire', p) = p /\ Done(wire, p) = p
    BY <1>1, <1>3, <1>5, <2>1 DEF Link, Done
  <2>3. Wrote(a, n, d, c, Done(wire', p), buffer', part')
    BY <1>1, <1>3, <2>2
  <2> QED BY <1>1, <1>2, <2>1, <2>2, <2>3, ExecWithin
<1>6. CASE ~(wire = "DATA" /\ device.up)
  <2> DEFINE ok == wire = "OKAY" /\ device.up
  <2>1. Complete(ok) /\ ok \in BOOLEAN /\ (ok => wire = "OKAY")
    BY <1>4, <1>6 DEF check_response
  <2> HIDE DEF ok
  <2> QED BY <1>1, <2>1, ExecComplete
<1> QED
    BY <1>5, <1>6

LEMMA ExecFinish ==
    ASSUME ExecInv, Finish
    PROVE  ExecInv'
<1>1. phase = "execute" /\ todo = <<>> /\ phase' = "exit"
      /\ UNCHANGED <<command, listed, file, lost, wire, buffer, part, device>>
    BY DEF Finish, image, split, target
<1>2. PICK q, a, n, d, c, p : Running(q, a, n, d, c, p)
    BY <1>1 DEF ExecInv
<1>3. /\ Plan(q, a, n, d) /\ Sent(n, d, c) /\ p \in Nat /\ p = Len(q) /\ Link(host, wire, q, p)
      /\ Wrote(a, n, d, c, Done(wire, p), buffer, part)
    BY <1>1, <1>2, ExecHead
<1>4. wire = "none" /\ Done(wire, p) = p
    BY <1>3 DEF Link, Done
<1>5. a \in Nat /\ n \in Nat /\ a + 2 * n <= p
    BY <1>3 DEF Plan
<1>6. part = UNION {c[j] : j \in 1..n}
  <2>1. \A j \in 1..n : a + 2 * j <= p
    BY <1>3, <1>5
  <2>2. part = Held(c, n, a, p)
    BY <1>3, <1>4 DEF Wrote
  <2> QED BY <2>1, <2>2 DEF Held
<1>7. Loaded => part = ImageContents
    BY <1>3, <1>6 DEF Sent
<1>8. Unsuited => part = {}
    BY <1>2, UnsuitedEmpty
<1>9. ImageContents' = ImageContents /\ Loaded' = Loaded /\ Unsuited' = Unsuited
    BY <1>1, ContentsStay DEF Loaded, Unsuited
<1>10. device' \in [up : BOOLEAN, product : {"a", "b"}, meets : BOOLEAN]
    BY <1>1 DEF ExecInv
<1> QED
    BY <1>1, <1>4, <1>7, <1>8, <1>9, <1>10 DEF ExecInv

LEMMA ExecAnswers ==
    ASSUME ExecInv, DeviceAnswers
    PROVE  ExecInv'
<1>1. /\ wire = "command" /\ UNCHANGED <<phase, host, device>>
      /\ UNCHANGED <<image, split>> /\ UNCHANGED <<todo, product, device>>
    BY DEF DeviceAnswers, queue
<1>2. phase = "execute" /\ phase' = "execute"
    BY <1>1 DEF ExecInv
<1>3. PICK q, a, n, d, c, p : Running(q, a, n, d, c, p)
    BY <1>2 DEF ExecInv
<1> DEFINE r == p + 1
           x == Head(todo)
<1>4. /\ Plan(q, a, n, d) /\ Sent(n, d, c) /\ p \in Nat /\ Link(host, wire, q, p)
      /\ Wrote(a, n, d, c, Done(wire, p), buffer, part)
      /\ p < Len(q) => r \in 1..Len(q) /\ x = q[r]
    BY <1>3, ExecHead
<1>5. p < Len(q) /\ host = "reply"
    BY <1>1, <1>4 DEF Link
<1>6. r \in 1..Len(q) /\ x = q[r] /\ r = p + 1
    BY <1>4, <1>5
<1>7. Wrote(a, n, d, c, p, buffer, part)
    BY <1>1, <1>4 DEF Done
<1>8. \/ x.op = "download" /\ wire' = "DATA" /\ UNCHANGED <<buffer, part>>
      \/ x.op = "query" /\ wire' = "OKAY" /\ UNCHANGED <<buffer, part>>
      \/ x.op = "command" /\ x.cmd = "erase" /\ wire' = "OKAY" /\ part' = {} /\ UNCHANGED buffer
      \/ x.op = "command" /\ x.cmd = "flash" /\ wire' = "OKAY" /\ part' = Flash /\ UNCHANGED buffer
      \/ x.op = "command" /\ x.cmd \in {"signature", "reboot"} /\ wire' = "OKAY"
         /\ UNCHANGED <<buffer, part>>
    BY DEF DeviceAnswers
<1> HIDE DEF r, x
<1>9. CASE x.op = "download" /\ wire' = "DATA" /\ UNCHANGED <<buffer, part>>
  <2>1. Link(host', wire', q, p) /\ Done(wire', p) = p
    BY <1>1, <1>5, <1>6, <1>9 DEF Link, Done
  <2> QED BY <1>1, <1>2, <1>3, <1>7, <1>9, <2>1, ExecWithin
<1>10. ASSUME wire' = "OKAY", x.op # "download" PROVE Link(host', wire', q, p) /\ Done(wire', p) = r
    BY <1>1, <1>5, <1>6, <1>10 DEF Link, Done
<1>11. ASSUME wire' = "OKAY", x.op # "download", UNCHANGED <<buffer, part>>, Other(q[r]) PROVE ExecInv'
  <2>1. Wrote(a, n, d, c, r, buffer, part)
    BY <1>4, <1>6, <1>7, <1>11, WroteOther
  <2>2. Link(host', wire', q, p) /\ Wrote(a, n, d, c, Done(wire', p), buffer', part')
    BY <1>10, <1>11, <2>1
  <2> QED BY <1>1, <1>2, <1>3, <2>2, ExecWithin
<1>12. CASE x.op = "query" /\ wire' = "OKAY" /\ UNCHANGED <<buffer, part>>
    BY <1>6, <1>11, <1>12 DEF Other
<1>13. CASE x.op = "command" /\ x.cmd \in {"signature", "reboot"} /\ wire' = "OKAY"
            /\ UNCHANGED <<buffer, part>>
    BY <1>6, <1>11, <1>13 DEF Other
<1>14. CASE x.op = "command" /\ x.cmd = "erase" /\ wire' = "OKAY" /\ part' = {} /\ UNCHANGED buffer
  <2>1. Wrote(a, n, d, c, r, buffer, {})
    BY <1>4, <1>6, <1>14, WroteErase
  <2>2. Link(host', wire', q, p) /\ Wrote(a, n, d, c, Done(wire', p), buffer', part')
    BY <1>10, <1>14, <2>1
  <2> QED BY <1>1, <1>2, <1>3, <2>2, ExecWithin
<1>15. CASE x.op = "command" /\ x.cmd = "flash" /\ wire' = "OKAY" /\ part' = Flash /\ UNCHANGED buffer
  <2>1. Disjoint(c, n)
    BY <1>4 DEF Sent
  <2>2. PICK j \in 1..n :
           /\ buffer = [what |-> "flash", data |-> d[j]]
           /\ Wrote(a, n, d, c, r, buffer,
                    {y \in part : y.block \notin {z.block : z \in c[j]}} \cup c[j])
    BY <1>4, <1>6, <1>7, <1>15, <2>1, WroteFlash
  <2>3. buffer.data = d[j]
    BY <2>2
  <2>4. c[j] = IF d[j] = 0 THEN WholeImage ELSE Contents(out_s[d[j]])
    BY <1>4 DEF Sent
  <2>5. Flash = {y \in part : y.block \notin {z.block : z \in c[j]}} \cup c[j]
    BY <2>3, <2>4 DEF Flash
  <2>6. Link(host', wire', q, p) /\ Wrote(a, n, d, c, Done(wire', p), buffer', part')
    BY <1>10, <1>15, <2>2, <2>5
  <2> QED BY <1>1, <1>2, <1>3, <2>6, ExecWithin
<1> QED
    BY <1>8, <1>9, <1>12, <1>13, <1>14, <1>15

LEMMA ExecReceives ==
    ASSUME ExecInv, DeviceReceives
    PROVE  ExecInv'
<1>1. /\ wire = "data" /\ wire' = "OKAY" /\ UNCHANGED <<phase, host, part>>
      /\ buffer' = [what |-> Head(todo).cmd, data |-> Head(todo).data]
      /\ UNCHANGED <<image, split>> /\ UNCHANGED <<todo, product, device>>
    BY DEF DeviceReceives, queue
<1>2. phase = "execute" /\ phase' = "execute"
    BY <1>1 DEF ExecInv
<1>3. PICK q, a, n, d, c, p : Running(q, a, n, d, c, p)
    BY <1>2 DEF ExecInv
<1> DEFINE r == p + 1
<1>4. /\ Plan(q, a, n, d) /\ p \in Nat /\ Link(host, wire, q, p)
      /\ Wrote(a, n, d, c, Done(wire, p), buffer, part)
      /\ p < Len(q) => r \in 1..Len(q) /\ Head(todo) = q[r]
    BY <1>3, ExecHead
<1>5. p < Len(q) /\ host = "end" /\ q[p + 1].op = "download"
    BY <1>1, <1>4 DEF Link
<1>6. Head(todo) = q[r] /\ q[r].op = "download" /\ r = p + 1
    BY <1>4, <1>5
<1>7. Wrote(a, n, d, c, p, buffer, part)
    BY <1>1, <1>4 DEF Done
<1>8. Link(host', wire', q, p) /\ Done(wire', p) = r
    BY <1>1, <1>5 DEF Link, Done
<1> HIDE DEF r
<1>9. Wrote(a, n, d, c, r, [what |-> q[r].cmd, data |-> q[r].data], part)
    BY <1>4, <1>6, <1>7, WroteDownload
<1>10. Wrote(a, n, d, c, Done(wire', p), buffer', part')
    BY <1>1, <1>6, <1>8, <1>9
<1> QED
    BY <1>1, <1>2, <1>3, <1>8, <1>10, ExecWithin

LEMMA ExecRefuses ==
    ASSUME ExecInv, DeviceRefuses
    PROVE  ExecInv'
<1>1. /\ wire \in {"command", "data", "short"} /\ wire' = "FAIL" /\ UNCHANGED <<phase, host, buffer, part>>
      /\ UNCHANGED <<image, split>> /\ UNCHANGED <<todo, product, device>>
    BY DEF DeviceRefuses, queue
<1>2. phase = "execute" /\ phase' = "execute"
    BY <1>1 DEF ExecInv
<1>3. PICK q, a, n, d, c, p : Running(q, a, n, d, c, p)
    BY <1>2 DEF ExecInv
<1>4. Link(host, wire, q, p) /\ Wrote(a, n, d, c, Done(wire, p), buffer, part)
    BY <1>3 DEF Running
<1>5. Link(host', wire', q, p) /\ Done(wire', p) = p /\ Done(wire, p) = p
    BY <1>1, <1>4 DEF Link, Done
<1>6. Wrote(a, n, d, c, Done(wire', p), buffer', part')
    BY <1>1, <1>4, <1>5
<1> QED
    BY <1>1, <1>2, <1>3, <1>5, <1>6, ExecWithin

LEMMA ExecUnplug ==
    ASSUME ExecInv, Unplug
    PROVE  ExecInv'
<1>1. /\ phase # "exit" /\ device' = [device EXCEPT !.up = FALSE] /\ UNCHANGED <<image, split>>
      /\ UNCHANGED <<phase, command, listed, file, todo, host, status, product, wire, buffer, part>>
    BY DEF Unplug, Ended, image, queue
<1>2. device \in [up : BOOLEAN, product : {"a", "b"}, meets : BOOLEAN]
    BY DEF ExecInv
<1>3. /\ device' \in [up : BOOLEAN, product : {"a", "b"}, meets : BOOLEAN]
      /\ device'.product = device.product /\ device'.meets = device.meets
    BY <1>1, <1>2
<1>4. Unsuited' = Unsuited
    BY <1>1, <1>3 DEF Unsuited
<1>5. CASE phase = "execute"
  <2>1. PICK q, a, n, d, c, p : Running(q, a, n, d, c, p)
    BY <1>5 DEF ExecInv
  <2>2. /\ p \in 0..Len(q) /\ todo' = Rest(q, p) /\ Link(host', wire', q, p)
        /\ Wrote(a, n, d, c, Done(wire', p), buffer', part')
        /\ Fit(q, a, p, product', Unsuited')
    BY <1>1, <1>4, <2>1 DEF Running
  <2>3. Running(q, a, n, d, c, p)'
    BY <1>1, <2>1, <2>2, Goes
  <2> QED BY <1>1, <1>3, <1>5, <2>3 DEF ExecInv
<1>6. CASE phase # "execute"
    BY <1>1, <1>3, <1>6 DEF ExecInv
<1> QED
    BY <1>5, <1>6

\* The parts that are queued are the image, and apart.
LEMMA PartsSent ==
    ASSUME ImageInv, phase = "queue", NEW n, n = (IF out_s = <<>> THEN 1 ELSE Len(out_s)),
           NEW d, d = PartNumbers(out_s),
           NEW c, c = [j \in 1..n |-> IF d[j] = 0 THEN WholeImage ELSE Contents(out_s[d[j]])]
    PROVE  Sent(n, d, c) /\ Pairs(flash_buf, n, d)
<1>1. Ready(out_s, in_s.list, files, ImageContents) /\ file \in [chunks : Seq(Chunk), size : Nat, len : Nat]
    BY DEF ImageInv
<1>2. CASE out_s = <<>>
  <2>1. n = 1 /\ d = [j \in 1..1 |-> 0]
    BY <1>2 DEF PartNumbers
  <2>7. 1..n = {1} /\ d[1] = 0 /\ 1 \in 1..n /\ ~(1 < 1)
    <3>1. 1..n = {1} /\ 1 \in 1..n /\ ~(1 < 1)
      BY ONLY <2>1
    <3>2. d[1] = 0
      BY ONLY <2>1
    <3> QED BY <3>1, <3>2
  <2>8. ImageContents = WholeImage
    BY <1>2 DEF ImageInv, ImageContents, Missing
  <2>2. c[1] = ImageContents
    BY <2>7, <2>8
  <2>3. Disjoint(c, n)
    BY <2>7 DEF Disjoint
  <2>4. UNION {c[j] : j \in 1..n} = ImageContents
    BY <2>2, <2>7
  <2>5. out_s \in Seq(Seq(Block)) /\ file.size \in Nat
        /\ \A i \in 1..Len(out_s) : sparse_file_len(out_s[i], file.len) \in Nat
    BY <1>1, <1>2
  <2>6. Pairs(flash_buf, n, d)
    BY <2>5, FlashBuf
  <2> QED BY <2>3, <2>4, <2>6 DEF Sent
<1>3. CASE out_s # <<>>
  <2>1. Divided(out_s, <<>>) /\ Total(out_s) = ImageContents
    BY <1>1, <1>3 DEF Ready
  <2>2. /\ out_s \in Seq(Seq(Block)) /\ n = Len(out_s) /\ n \in Nat
        /\ \A i \in 1..n : Apart(out_s[i]) /\ Small(out_s[i])
        /\ \A i, j \in 1..n : i < j => Ahead(out_s[i], out_s[j])
    BY <1>3, <2>1 DEF Divided
  <2>3. \A i \in 1..n : out_s[i] \in Seq(Block)
    BY <2>2
  <2>4. d = [j \in 1..n |-> j]
    BY <1>3, <2>2 DEF PartNumbers
  <2>5. ASSUME NEW j \in 1..n PROVE c[j] = Contents(out_s[j])
    <3>1. d[j] = j /\ j # 0
      BY <2>2, <2>4
    <3> QED BY <3>1
  <2>6. Disjoint(c, n)
    <3> SUFFICES ASSUME NEW i \in 1..n, NEW j \in 1..n, i < j, NEW x \in c[i], NEW y \in c[j]
                 PROVE  x.block # y.block
      BY DEF Disjoint
    <3>1. x \in Contents(out_s[i]) /\ y \in Contents(out_s[j])
      BY <2>5
    <3>2. out_s[i] \in Seq(Block) /\ out_s[j] \in Seq(Block) /\ Ahead(out_s[i], out_s[j])
      BY <2>2, <2>3
    <3>3. x.block \in Nat /\ y.block \in Nat /\ x.block < y.block
      BY <3>1, <3>2, AheadContents
    <3> QED BY <3>3
  <2>7. UNION {c[j] : j \in 1..n} = ImageContents
    <3>1. {c[j] : j \in 1..n} = {Contents(out_s[i]) : i \in 1..n}
      <4>1. \A j \in 1..n : c[j] = Contents(out_s[j])
        BY <2>5
      <4> QED BY ONLY <4>1
    <3>2. Total(out_s) = UNION {Contents(out_s[i]) : i \in 1..n}
      BY <2>2 DEF Total
    <3> QED BY <2>1, <3>1, <3>2
  <2>8. \A i \in 1..Len(out_s) : sparse_file_len(out_s[i], file.len) \in Nat
    <3> SUFFICES ASSUME NEW i \in 1..n PROVE sparse_file_len(out_s[i], file.len) \in Nat
      BY <2>2
    <3>1. out_s[i] \in Seq(Block) /\ Apart(out_s[i]) /\ Small(out_s[i]) /\ file.len \in Int
      BY <1>1, <2>2, <2>3
    <3> QED BY <3>1, SmallLimit
  <2>9. Pairs(flash_buf, n, d)
    BY <1>1, <2>2, <2>8, FlashBuf
  <2> QED BY <2>6, <2>7, <2>9 DEF Sent
<1> QED
    BY <1>2, <1>3

\* The queue is filled.
LEMMA ExecFill ==
    ASSUME ImageInv, ExecInv, Fill
    PROVE  ExecInv'
<1>1. phase = "queue" /\ wire = "none" /\ host = "next" /\ part = {}
      /\ UNCHANGED <<image, split>> /\ UNCHANGED <<command, listed, file, lost, out_s, host, product, wire, buffer, part, device>>
    BY DEF Fill, ExecInv, image, split, target
<1>2. device' \in [up : BOOLEAN, product : {"a", "b"}, meets : BOOLEAN]
    BY <1>1 DEF ExecInv
<1>3. CASE phase' = "aborted"
    BY <1>1, <1>2, <1>3 DEF ExecInv
<1>4. CASE phase' = "execute"
  <2> DEFINE checks == IF command # "flashall" THEN <<>> ELSE IF listed THEN Checks ELSE Info
             y == IF Loaded THEN flash_buf ELSE <<>>
  <2>1. PICK sig \in BOOLEAN, erase \in BOOLEAN, reboot \in BOOLEAN :
           todo' = Queued(checks, Signed(sig), Erased(erase), Rebooted(reboot))
    BY <1>4 DEF Fill, Signed, Erased, Rebooted
  <2> DEFINE r == Rebooted(reboot)
             x == (checks \o Signed(sig)) \o Erased(erase)
             q == (x \o y) \o r
             a == Len(x)
  <2>2. todo' = q
    BY <2>1 DEF Queued
  <2>3. /\ x \in Seq(Action) /\ NoFlash(x) /\ (checks = Checks => Front4(x))
        /\ r \in Seq(Action) /\ NoFlash(r) /\ NoErase(r)
    <3>1. checks \in {Checks, Info, <<>>}
      OBVIOUS
    <3>2. x = (checks \o Signed(sig)) \o Erased(erase) /\ r = Rebooted(reboot)
      OBVIOUS
    <3> HIDE DEF checks, r, x
    <3> QED BY <3>1, <3>2, Around
  <2>4. command = "flashall" /\ listed => checks = Checks
    OBVIOUS
  <2> HIDE DEF checks, r, x
  <2>5. \E n, d, c : Sent(n, d, c) /\ Pairs(y, n, d)
    <3>1. CASE Loaded
      <4> DEFINE n == IF out_s = <<>> THEN 1 ELSE Len(out_s)
                 d == PartNumbers(out_s)
                 c == [j \in 1..n |-> IF d[j] = 0 THEN WholeImage ELSE Contents(out_s[d[j]])]
      <4>1. y = flash_buf
        BY <3>1
      <4>2. Sent(n, d, c) /\ Pairs(flash_buf, n, d)
        BY <1>1, PartsSent
      <4> HIDE DEF n, d, c, y
      <4> QED BY <4>1, <4>2
    <3>2. CASE ~Loaded
      <4> DEFINE d == [j \in 1..0 |-> 0]
      <4>1. y = <<>>
        BY <3>2
      <4>2. Sent(0, d, d)
        BY <3>2 DEF Sent, Disjoint
      <4>3. <<>> \in Seq(Action) /\ Len(<<>>) = 2 * 0 /\ d \in [1..0 -> Nat]
        OBVIOUS
      <4>4. Pairs(<<>>, 0, d)
        BY <4>3 DEF Pairs
      <4> HIDE DEF d, y
      <4> QED BY <4>1, <4>2, <4>4
    <3> QED BY <3>1, <3>2
  <2> HIDE DEF y
  <2>6. PICK n, d, c : Sent(n, d, c) /\ Pairs(y, n, d)
    BY <2>5
  <2>7. Plan(q, a, n, d)
    BY <2>3, <2>6, PlanJoins
  <2>8. command = "flashall" /\ listed => a >= 4 /\ IsSave(q[3]) /\ IsRequire(q[4])
    <3> SUFFICES ASSUME command = "flashall", listed PROVE a >= 4 /\ IsSave(q[3]) /\ IsRequire(q[4])
      OBVIOUS
    <3>1. a >= 4 /\ IsSave(x[3]) /\ IsRequire(x[4])
      BY <2>3, <2>4 DEF Front4
    <3> DEFINE u == x \o y
    <3>2. y \in Seq(Action) /\ a \in Nat
      BY <2>3, <2>6 DEF Pairs
    <3>3. u \in Seq(Action) /\ Len(u) = a + Len(y) /\ \A k \in 1..a : u[k] = x[k]
      BY <2>3, <3>2, Concat
    <3>4. q = u \o r
      OBVIOUS
    <3> HIDE DEF u, q
    <3>5. \A k \in 1..Len(u) : q[k] = u[k]
      BY <2>3, <3>3, <3>4, Concat
    <3> HIDE DEF a
    <3>6. 3 \in 1..a /\ 4 \in 1..a /\ 3 \in 1..Len(u) /\ 4 \in 1..Len(u)
      <4>1. Len(y) \in Nat
        BY <3>2
      <4> QED BY <3>1, <3>2, <3>3, <4>1
    <3> QED BY <3>1, <3>3, <3>5, <3>6
  <2> HIDE DEF q, a
  <2>9. 0 \in 0..Len(q) /\ q \in Seq(Action) /\ Rest(q, 0) = q
    BY <2>7 DEF Plan, Rest
  <2>10. Link(host', wire', q, 0) /\ Done(wire', 0) = 0
    BY <1>1 DEF Link, Done
  <2>11. Wrote(a, n, d, c, 0, buffer', part')
    <3>1. a \in Nat /\ n \in Nat
      BY <2>7 DEF Plan
    <3>2. \A j \in 1..n : ~(a + 2 * j <= 0) /\ 0 # a + 2 * j - 1
      BY <3>1
    <3> QED BY <1>1, <3>2 DEF Wrote, Held
  <2>12. Fit(q, a, 0, product', Unsuited')
    BY <1>1, <2>8 DEF Fit, Unsuited
  <2>13. Sent(n, d, c)'
    <3>1. ImageContents' = ImageContents /\ WholeImage' = WholeImage /\ Loaded' = Loaded
      BY <1>1, ContentsStay DEF Loaded
    <3> QED BY <1>1, <2>6, <3>1 DEF Sent
  <2>14. ASSUME NEW f, NEW g, f = q, g = a PROVE Running(f, g, n, d, c, 0)'
    <3>1. Plan(f, g, n, d) /\ 0 \in 0..Len(f) /\ todo' = Rest(f, 0)
      BY <2>2, <2>7, <2>9, <2>14
    <3>2. Link(host', wire', f, 0) /\ Wrote(g, n, d, c, Done(wire', 0), buffer', part')
          /\ Fit(f, g, 0, product', Unsuited')
      BY <2>10, <2>11, <2>12, <2>14
    <3> QED BY <2>13, <3>1, <3>2 DEF Running
  <2>15. \E f, g : Running(f, g, n, d, c, 0)'
    BY <2>14
  <2> QED BY <1>2, <1>4, <2>15 DEF ExecInv
<1> QED
    BY <1>3, <1>4 DEF Fill

\* What comes before the queue does not touch the device.
LEMMA ExecBefore ==
    ASSUME ExecInv, UNCHANGED <<host, wire, buffer, part, device, command>>,
           phase \notin {"execute", "exit"}, phase' \notin {"execute", "exit"}
    PROVE  ExecInv'
    BY DEF ExecInv

LEMMA ExecInit ==
    ASSUME Init
    PROVE  ExecInv
<1>1. device \in [up : {TRUE}, product : {"a", "b"}, meets : BOOLEAN]
    BY DEF Init
<1>2. device \in [up : BOOLEAN, product : {"a", "b"}, meets : BOOLEAN]
    BY <1>1
<1> QED
    BY <1>2 DEF Init, ExecInv

\* The inductive invariant of the queue.
THEOREM ExecKept == Spec => []ExecInv
<1>1. Init => ExecInv
    BY ExecInit
<1>2. ImageInv /\ ExecInv /\ [Next]_vars => ExecInv'
  <2> SUFFICES ASSUME ImageInv, ExecInv, [Next]_vars PROVE ExecInv'
    OBVIOUS
  <2>1. CASE \E e \in Extents \ added : Add(e)
    BY <2>1, ExecBefore DEF Add, AddBlock, queue, target
  <2>2. CASE sparse_file_write
    BY <2>2, ExecBefore DEF sparse_file_write, queue, target
  <2>3. CASE FormatFails
    BY <2>3, ExecBefore DEF FormatFails, image, queue, target
  <2>4. CASE load_buf_fd
    BY <2>4, ExecBefore DEF load_buf_fd, image, queue, target
  <2>10. CASE FormatNotLoaded
    BY <2>10, ExecBefore DEF FormatNotLoaded, queue, target
  <2>5. CASE LoadFails
    <3>1. /\ phase \in {"load", "import", "count", "split"} /\ phase' = "exit" /\ status' = 1
          /\ UNCHANGED <<wire, part, device>>
      BY <2>5 DEF LoadFails, target
    <3> QED BY <3>1 DEF ExecInv
  <2>6. CASE ReadChunk
    BY <2>6, ExecBefore DEF ReadChunk, AddBlock, image, queue, target
  <2>7. CASE ReadEnd
    BY <2>7, ExecBefore DEF ReadEnd, image, queue, target
  <2>8. CASE sparse_file_resparse
    <3>1. phase \in {"count", "split"} /\ phase' \in {"count", "split", "queue"}
      BY <2>8 DEF sparse_file_resparse
    <3>2. UNCHANGED <<host, wire, buffer, part, device, command>>
      BY <2>8 DEF sparse_file_resparse, image, queue, target
    <3> QED BY <3>1, <3>2, ExecBefore
  <2>9. CASE UNCHANGED vars
    <3>1. UNCHANGED <<phase, command, listed, file, lost, out_s, todo, host, status, product, wire, buffer, part, device>>
      BY <2>9 DEF vars, image, split, queue, target
    <3>2. /\ ImageContents' = ImageContents /\ WholeImage' = WholeImage
          /\ Loaded' = Loaded /\ Unsuited' = Unsuited
      BY <3>1, ContentsStay DEF Loaded, Unsuited
    <3>3. ASSUME NEW q, NEW a, NEW n, NEW d, NEW c, NEW p, Running(q, a, n, d, c, p)
          PROVE  Running(q, a, n, d, c, p)'
      BY <3>1, <3>2, <3>3 DEF Running, Sent
    <3> QED BY <3>1, <3>2, <3>3 DEF ExecInv
  <2> QED
    BY <2>1, <2>2, <2>3, <2>4, <2>5, <2>6, <2>7, <2>8, <2>9, <2>10, ExecFill, ExecNotice, ExecStart,
       ExecResponse, ExecData, ExecFinish, ExecAnswers, ExecReceives, ExecRefuses, ExecUnplug
    DEF Next, Host, Device
<1> QED
    BY <1>1, <1>2, ImageKept, PTL DEF Spec

\* When fastboot ends with status 0 the partition holds all of the image that
\* the list had, whatever the image and the limit, and however the device and
\* its link behave.
THEOREM FlashedHolds == Spec => []Flashed
<1>1. ExecInv => Flashed
    BY DEF ExecInv, Flashed
<1> QED
    BY <1>1, ExecKept, PTL

\* "flashall" writes nothing to a device that does not meet the requirement
\* for its product.
THEOREM SuitedHolds == Spec => []Suited
<1>1. ExecInv => Suited
  <2> SUFFICES ASSUME ExecInv, Unsuited PROVE part = {}
    BY DEF Suited, Unsuited
  <2>1. CASE phase = "execute"
    BY <2>1, UnsuitedEmpty DEF ExecInv
  <2>2. CASE phase # "execute"
    BY <2>2 DEF ExecInv
  <2> QED BY <2>1, <2>2
<1> QED
    BY <1>1, ExecKept, PTL

=============================================================================
