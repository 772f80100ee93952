---------------------------- MODULE HeapListProofs ----------------------------
(***************************************************************************)
(* The list of the heap, for every size of it: what val_split and          *)
(* val_coalesce make of an ordered list of blocks, and that each step of   *)
(* val_malloc, val_free and val_realloc on the list keeps State, the       *)
(* inductive invariant.  Every such step replaces a few neighbouring       *)
(* blocks by others (a splice), so the facts about order, headers and      *)
(* free neighbours are proved once, of splices.                            *)
(***************************************************************************)
EXTENDS HeapAllocator, TLAPS

-----------------------------------------------------------------------------
(***************************************************************************)
(* Lists, and splices: part of the list is replaced by other blocks.       *)
(***************************************************************************)
\* Where a block ends.
End(b) == b.addr + BlockSize + b.size

\* The blocks lie one after the other inside the heap.
Ordered(h) ==
    /\ h \in Seq(Block)
    /\ \A i \in DOMAIN h : End(h[i]) <= HeapSize
    /\ \A i, j \in DOMAIN h : i < j => End(h[i]) <= h[j].addr

\* Of two free neighbours one is block k.
Parted(h, k) ==
    \A i \in 1 .. Len(h) - 1 : h[i].free /\ h[i + 1].free => k \in {i, i + 1}

\* The blocks in use.
Used(h) == { h[i] : i \in { j \in DOMAIN h : ~h[j].free } }

\* What the concatenation of two sequences, and of three, consists of.
LEMMA TwoParts ==
    ASSUME NEW S, NEW a \in Seq(S), NEW z \in Seq(S), NEW g, g = a \o z
    PROVE  /\ g \in Seq(S) /\ Len(g) = Len(a) + Len(z)
           /\ \A i \in 1 .. Len(a) : g[i] = a[i]
           /\ \A i \in 1 .. Len(z) : g[Len(a) + i] = z[i]
<1>1. g \in Seq(S)
  BY SMT
<1>2. Len(g) = Len(a) + Len(z)
  BY SMT
<1>3. \A i \in 1 .. Len(a) : g[i] = a[i]
  BY SMT
<1>4. \A i \in 1 .. Len(z) : g[Len(a) + i] = z[i]
  BY SMT
<1> QED
  BY <1>1, <1>2, <1>3, <1>4, Zenon

\* Three sequences in a row.
LEMMA ThreeParts ==
    ASSUME NEW S, NEW a \in Seq(S), NEW m \in Seq(S), NEW z \in Seq(S)
    PROVE  \A g : g = a \o m \o z =>
             /\ g \in Seq(S) /\ Len(g) = Len(a) + Len(m) + Len(z)
             /\ \A i \in 1 .. Len(a) : g[i] = a[i]
             /\ \A i \in 1 .. Len(m) : g[Len(a) + i] = m[i]
             /\ \A i \in 1 .. Len(z) : g[Len(a) + Len(m) + i] = z[i]
<1>1. PICK d : d = a \o m
  BY Zenon
<1>2. /\ d \in Seq(S) /\ Len(d) = Len(a) + Len(m)
      /\ \A i \in 1 .. Len(a) : d[i] = a[i]
      /\ \A i \in 1 .. Len(m) : d[Len(a) + i] = m[i]
  BY <1>1, TwoParts
<1> d \in Seq(S)
  BY <1>2, Zenon
<1>3. PICK e : e = d \o z
  BY Zenon
<1>4. /\ e \in Seq(S) /\ Len(e) = Len(d) + Len(z)
      /\ \A i \in 1 .. Len(d) : e[i] = d[i]
      /\ \A i \in 1 .. Len(z) : e[Len(d) + i] = z[i]
  BY <1>3, TwoParts
<1>5. /\ e \in Seq(S) /\ Len(e) = Len(a) + Len(m) + Len(z)
      /\ \A i \in 1 .. Len(a) : e[i] = a[i]
      /\ \A i \in 1 .. Len(m) : e[Len(a) + i] = m[i]
      /\ \A i \in 1 .. Len(z) : e[Len(a) + Len(m) + i] = z[i]
  BY <1>2, <1>4, SMTT(20)
<1>6. a \o m \o z = e
  BY <1>1, <1>3, Zenon
<1> QED
  BY <1>5, <1>6, Zenon

\* g is h with the blocks m in place of those from lo to hi.
Spliced(h, lo, hi, m, g) ==
    /\ g \in Seq(Block) /\ Len(g) = lo - 1 + Len(m) + Len(h) - hi
    /\ \A i \in 1 .. lo - 1 : g[i] = h[i]
    /\ \A i \in 1 .. Len(m) : g[lo - 1 + i] = m[i]
    /\ \A i \in lo + Len(m) .. Len(g) : g[i] = h[i - lo - Len(m) + hi + 1]

\* Which is what is put together of the parts before lo and after hi.
LEMMA Replaced ==
    ASSUME NEW h \in Seq(Block), NEW lo \in 1 .. Len(h), NEW hi \in lo .. Len(h),
           NEW m \in Seq(Block)
    PROVE  Spliced(h, lo, hi, m, SubSeq(h, 1, lo - 1) \o m \o SubSeq(h, hi + 1, Len(h)))
<1> DEFINE S == Block
<1>1. PICK a : a = SubSeq(h, 1, lo - 1)
  BY Zenon
<1>2. PICK z : z = SubSeq(h, hi + 1, Len(h))
  BY Zenon
<1>3. a \in Seq(S) /\ Len(a) = lo - 1 /\ \A i \in 1 .. lo - 1 : a[i] = h[i]
  BY <1>1
<1>4. z \in Seq(S) /\ Len(z) = Len(h) - hi /\ \A i \in 1 .. Len(h) - hi : z[i] = h[hi + i]
  BY <1>2
<1> a \in Seq(S) /\ z \in Seq(S)
  BY <1>3, <1>4, Zenon
<1>5. PICK e : e = a \o m \o z
  BY Zenon
<1>6. /\ e \in Seq(S) /\ Len(e) = Len(a) + Len(m) + Len(z)
      /\ \A i \in 1 .. Len(a) : e[i] = a[i]
      /\ \A i \in 1 .. Len(m) : e[Len(a) + i] = m[i]
      /\ \A i \in 1 .. Len(z) : e[Len(a) + Len(m) + i] = z[i]
  BY <1>5, ThreeParts
<1>7. Len(m) \in Nat /\ Len(h) \in Nat /\ Len(e) = lo - 1 + Len(m) + Len(h) - hi
  BY <1>3, <1>4, <1>6
<1>8. \A i \in 1 .. lo - 1 : e[i] = h[i]
  BY <1>3, <1>6, Zenon
<1>9. \A i \in 1 .. Len(m) : e[lo - 1 + i] = m[i]
  BY <1>3, <1>6, Zenon
<1>10. ASSUME NEW i \in lo + Len(m) .. Len(e) PROVE e[i] = h[i - lo - Len(m) + hi + 1]
  <2> DEFINE j == i - (lo - 1) - Len(m)
  <2>1. j \in 1 .. Len(h) - hi /\ i = lo - 1 + Len(m) + j /\ hi + j = i - lo - Len(m) + hi + 1
    BY <1>7
  <2> HIDE DEF j
  <2>2. e[i] = z[j]
    BY <1>3, <1>4, <1>6, <2>1, Zenon
  <2>3. z[j] = h[hi + j]
    BY <1>4, <2>1, Zenon
  <2> QED
    BY <2>1, <2>2, <2>3, Zenon
<1>11. SubSeq(h, 1, lo - 1) \o m \o SubSeq(h, hi + 1, Len(h)) = e
  BY <1>1, <1>2, <1>5, Zenon
<1>12. Spliced(h, lo, hi, m, e)
  BY <1>6, <1>7, <1>8, <1>9, <1>10, Zenon DEF Spliced
<1> QED
  BY <1>11, <1>12, Zenon

\* What is known of the blocks of an ordered list.
LEMMA OrderedFacts ==
    ASSUME NEW h, Ordered(h)
    PROVE  /\ h \in Seq(Block) /\ Len(h) \in Nat /\ DOMAIN h = 1 .. Len(h)
           /\ \A i \in DOMAIN h :
                 /\ h[i] \in Block /\ h[i].addr \in Nat /\ h[i].size \in Nat
                 /\ h[i].free \in BOOLEAN
                 /\ h[i].addr + BlockSize + h[i].size <= HeapSize
           /\ \A i, j \in DOMAIN h :
                 /\ i < j => h[i].addr + BlockSize + h[i].size <= h[j].addr
                 /\ i # j => h[i].addr # h[j].addr
<1>1. /\ h \in Seq(Block) /\ Len(h) \in Nat /\ DOMAIN h = 1 .. Len(h)
      /\ \A i \in DOMAIN h : h[i] \in Block
  BY DEF Ordered
<1>2. ASSUME NEW i \in DOMAIN h
      PROVE  /\ h[i].addr \in Nat /\ h[i].size \in Nat /\ h[i].free \in BOOLEAN
             /\ h[i].addr + BlockSize + h[i].size <= HeapSize
  BY <1>1, HeapAssumption DEF Ordered, Block, Units, End
<1>3. ASSUME NEW i \in DOMAIN h, NEW j \in DOMAIN h, i < j
      PROVE  h[i].addr + BlockSize + h[i].size <= h[j].addr
  BY <1>3, Zenon DEF Ordered, End
<1>4. ASSUME NEW i \in DOMAIN h, NEW j \in DOMAIN h, i < j PROVE h[i].addr # h[j].addr
  BY <1>2, <1>3, <1>4, HeapAssumption
<1>5. ASSUME NEW i \in DOMAIN h, NEW j \in DOMAIN h, i # j PROVE h[i].addr # h[j].addr
  <2>1. i \in Int /\ j \in Int
    BY <1>1
  <2>2. i < j \/ j < i
    BY <1>5, <2>1
  <2> QED
    BY <1>4, <2>2, Zenon
<1> QED
  BY <1>1, <1>2, <1>3, <1>5, Zenon

\* Where the blocks of a spliced list come from, and where they go.
LEMMA SplicedBlocks ==
    ASSUME NEW h \in Seq(Block), NEW lo \in 1 .. Len(h), NEW hi \in lo .. Len(h),
           NEW m \in Seq(Block), NEW g, Spliced(h, lo, hi, m, g)
    PROVE  /\ \A i \in DOMAIN g :
                 \/ i < lo /\ i \in DOMAIN h /\ g[i] = h[i]
                 \/ /\ lo <= i /\ i < lo + Len(m)
                    /\ i - lo + 1 \in DOMAIN m /\ g[i] = m[i - lo + 1]
                 \/ /\ i >= lo + Len(m) /\ i - lo - Len(m) + hi + 1 \in hi + 1 .. Len(h)
                    /\ g[i] = h[i - lo - Len(m) + hi + 1]
           /\ \A j \in 1 .. lo - 1 : j \in DOMAIN g /\ g[j] = h[j]
           /\ \A j \in hi + 1 .. Len(h) :
                 j - hi - 1 + lo + Len(m) \in DOMAIN g /\ g[j - hi - 1 + lo + Len(m)] = h[j]
           /\ \A j \in DOMAIN m : lo - 1 + j \in DOMAIN g /\ g[lo - 1 + j] = m[j]
<1>1. /\ Len(h) \in Nat /\ Len(m) \in Nat /\ DOMAIN m = 1 .. Len(m)
      /\ DOMAIN h = 1 .. Len(h)
  OBVIOUS
<1>2. /\ DOMAIN g = 1 .. Len(g) /\ Len(g) = lo - 1 + Len(m) + Len(h) - hi
  BY DEF Spliced
<1>3. ASSUME NEW j \in 1 .. lo - 1 PROVE j \in DOMAIN g /\ g[j] = h[j]
  BY <1>1, <1>2 DEF Spliced
<1>4. ASSUME NEW j \in DOMAIN m PROVE lo - 1 + j \in DOMAIN g /\ g[lo - 1 + j] = m[j]
  BY <1>1, <1>2 DEF Spliced
<1>5. ASSUME NEW j \in hi + 1 .. Len(h)
      PROVE  j - hi - 1 + lo + Len(m) \in DOMAIN g /\ g[j - hi - 1 + lo + Len(m)] = h[j]
  <2> DEFINE i == j - hi - 1 + lo + Len(m)
  <2>1. i \in lo + Len(m) .. Len(g) /\ i \in DOMAIN g /\ i - lo - Len(m) + hi + 1 = j
    BY <1>1, <1>2
  <2> HIDE DEF i
  <2>2. g[i] = h[j]
    BY <2>1, Zenon DEF Spliced
  <2> QED
    BY <2>1, <2>2, Zenon DEF i
<1>6. ASSUME NEW i \in DOMAIN g, i < lo PROVE i \in DOMAIN h /\ g[i] = h[i]
  BY <1>1, <1>2, <1>6 DEF Spliced
<1>7. ASSUME NEW i \in DOMAIN g, lo <= i, i < lo + Len(m)
      PROVE  i - lo + 1 \in DOMAIN m /\ g[i] = m[i - lo + 1]
  <2>1. i - lo + 1 \in DOMAIN m /\ lo - 1 + (i - lo + 1) = i
    BY <1>1, <1>2, <1>7
  <2> QED
    BY <1>4, <2>1, Zenon
<1>8. ASSUME NEW i \in DOMAIN g, i >= lo + Len(m)
      PROVE  /\ i - lo - Len(m) + hi + 1 \in hi + 1 .. Len(h)
             /\ g[i] = h[i - lo - Len(m) + hi + 1]
  <2>1. i - lo - Len(m) + hi + 1 \in hi + 1 .. Len(h) /\ i \in lo + Len(m) .. Len(g)
    BY <1>1, <1>2, <1>8
  <2> QED
    BY <2>1, Zenon DEF Spliced
<1>9. \A i \in DOMAIN g : i < lo \/ (lo <= i /\ i < lo + Len(m)) \/ i >= lo + Len(m)
  BY <1>1, <1>2
<1> QED
  BY <1>3, <1>4, <1>5, <1>6, <1>7, <1>8, <1>9, Zenon

\* A splice that stays between its neighbours keeps the order.
LEMMA SplicedOrdered ==
    ASSUME NEW h, Ordered(h), NEW lo \in DOMAIN h, NEW hi \in lo .. Len(h), NEW m, Ordered(m),
           NEW g, Spliced(h, lo, hi, m, g),
           \A j \in DOMAIN m : h[lo].addr <= m[j].addr /\ End(m[j]) <= End(h[hi])
    PROVE  Ordered(g)
<1>1. /\ h \in Seq(Block) /\ Len(h) \in Nat /\ DOMAIN h = 1 .. Len(h)
      /\ m \in Seq(Block) /\ Len(m) \in Nat /\ DOMAIN m = 1 .. Len(m) /\ hi \in DOMAIN h
  BY OrderedFacts
<1> DEFINE Before(i) == i < lo /\ i \in DOMAIN h /\ g[i] = h[i]
           Inside(i) == /\ lo <= i /\ i < lo + Len(m)
                        /\ i - lo + 1 \in DOMAIN m /\ g[i] = m[i - lo + 1]
           After(i) == /\ i >= lo + Len(m) /\ i - lo - Len(m) + hi + 1 \in hi + 1 .. Len(h)
                       /\ g[i] = h[i - lo - Len(m) + hi + 1]
<1>2. \A i \in DOMAIN g : Before(i) \/ Inside(i) \/ After(i)
  <2> h \in Seq(Block) /\ lo \in 1 .. Len(h) /\ m \in Seq(Block)
    BY <1>1, Zenon
  <2> QED
    BY SplicedBlocks
<1>3. g \in Seq(Block) /\ \A i \in DOMAIN g : i \in Int /\ g[i] \in Block
  BY DEF Spliced
<1>4. \A i \in DOMAIN h : h[i].addr \in Int /\ End(h[i]) \in Int /\ h[i].addr <= End(h[i])
                         /\ End(h[i]) <= HeapSize
  BY OrderedFacts, HeapAssumption DEF End
<1>5. \A i \in DOMAIN m : m[i].addr \in Int /\ End(m[i]) \in Int /\ m[i].addr <= End(m[i])
                         /\ End(m[i]) <= HeapSize
  BY OrderedFacts, HeapAssumption DEF End
<1>6. \A i, j \in DOMAIN h : i < j => End(h[i]) <= h[j].addr
  BY Zenon DEF Ordered
<1>7. \A i, j \in DOMAIN m : i < j => End(m[i]) <= m[j].addr
  BY Zenon DEF Ordered
<1>8. ASSUME NEW i \in DOMAIN g PROVE End(g[i]) <= HeapSize
  <2>1. CASE Before(i)
    BY <1>4, <2>1, Zenon
  <2>2. CASE Inside(i)
    BY <1>5, <2>2, Zenon
  <2>3. CASE After(i)
    <3>1. i - lo - Len(m) + hi + 1 \in DOMAIN h
      BY <1>1, <2>3
    <3> QED
      BY <1>4, <2>3, <3>1, Zenon
  <2> QED
    BY <1>2, <2>1, <2>2, <2>3, Zenon
<1>9. ASSUME NEW i \in DOMAIN g, NEW j \in DOMAIN g, i < j PROVE End(g[i]) <= g[j].addr
  <2>1. CASE Before(i) /\ Before(j)
    BY <1>6, <1>9, <2>1, Zenon
  <2>2. CASE Before(i) /\ Inside(j)
    <3>1. End(h[i]) <= h[lo].addr
      BY <1>6, <2>2, Zenon
    <3>2. h[lo].addr <= m[j - lo + 1].addr
      BY <2>2, Zenon
    <3> QED
      BY <1>4, <1>5, <2>2, <3>1, <3>2
  <2>3. CASE Before(i) /\ After(j)
    <3>1. PICK n \in hi + 1 .. Len(h) : g[j] = h[n]
      BY <2>3, Zenon
    <3>2. n \in DOMAIN h /\ i < n
      BY <1>1, <2>3, <3>1
    <3> QED
      BY <1>6, <2>3, <3>1, <3>2, Zenon
  <2>4. CASE Inside(i) /\ Inside(j)
    <3>1. i - lo + 1 < j - lo + 1
      BY <1>1, <1>3, <1>9
    <3> QED
      BY <1>7, <2>4, <3>1, Zenon
  <2>5. CASE Inside(i) /\ After(j)
    <3>1. PICK n \in hi + 1 .. Len(h) : g[j] = h[n]
      BY <2>5, Zenon
    <3>2. n \in DOMAIN h /\ hi < n
      BY <1>1, <3>1
    <3>3. End(h[hi]) <= h[n].addr /\ End(m[i - lo + 1]) <= End(h[hi])
      BY <1>1, <1>6, <2>5, <3>2, Zenon
    <3> QED
      BY <1>1, <1>4, <1>5, <2>5, <3>1, <3>2, <3>3
  <2>6. CASE After(i) /\ After(j)
    <3> DEFINE p == i - lo - Len(m) + hi + 1
               q == j - lo - Len(m) + hi + 1
    <3>1. p \in DOMAIN h /\ q \in DOMAIN h
      BY <1>1, <2>6
    <3>2. i \in Int /\ j \in Int
      BY <1>3, Zenon
    <3>3. p < q
      BY <1>1, <1>9, <3>2
    <3>4. g[i] = h[p] /\ g[j] = h[q]
      BY <2>6, Zenon
    <3> HIDE DEF p, q
    <3> QED
      BY <1>6, <3>1, <3>3, <3>4, Zenon
  <2>7. /\ ~(Inside(i) /\ Before(j)) /\ ~(After(i) /\ Before(j)) /\ ~(After(i) /\ Inside(j))
    BY <1>1, <1>3, <1>9, SMTT(20)
  <2> QED
    BY <1>2, <2>1, <2>2, <2>3, <2>4, <2>5, <2>6, <2>7
<1> QED
  BY <1>3, <1>8, <1>9, Zenon DEF Ordered

\* The blocks in use and the headers of a spliced list.
LEMMA SplicedSets ==
    ASSUME NEW h, Ordered(h), NEW lo \in DOMAIN h, NEW hi \in lo .. Len(h),
           NEW m \in Seq(Block), NEW g, Spliced(h, lo, hi, m, g)
    PROVE  /\ Used(g) = (Used(h) \ { h[i] : i \in lo .. hi }) \cup Used(m)
           /\ Headers(g) = (Headers(h) \ { h[i].addr : i \in lo .. hi }) \cup Headers(m)
<1>1. /\ h \in Seq(Block) /\ Len(h) \in Nat /\ DOMAIN h = 1 .. Len(h) /\ hi \in DOMAIN h
      /\ lo .. hi \subseteq DOMAIN h
  BY OrderedFacts
<1> h \in Seq(Block) /\ lo \in 1 .. Len(h)
  BY <1>1, Zenon
<1>2. \A i \in DOMAIN g : \/ \E j \in DOMAIN h \ (lo .. hi) : g[i] = h[j]
                         \/ \E j \in DOMAIN m : g[i] = m[j]
  <2> SUFFICES ASSUME NEW i \in DOMAIN g, ~\E j \in DOMAIN m : g[i] = m[j]
               PROVE  \E j \in DOMAIN h \ (lo .. hi) : g[i] = h[j]
    BY Zenon
  <2>1. \/ i < lo /\ i \in DOMAIN h /\ g[i] = h[i]
        \/ \E j \in hi + 1 .. Len(h) : g[i] = h[j]
    BY SplicedBlocks
  <2>2. CASE i < lo /\ i \in DOMAIN h /\ g[i] = h[i]
    BY <1>1, <2>2
  <2>3. CASE \E j \in hi + 1 .. Len(h) : g[i] = h[j]
    BY <1>1, <2>3
  <2> QED
    BY <2>1, <2>2, <2>3, Zenon
<1>3. ASSUME NEW j \in DOMAIN h \ (lo .. hi) PROVE \E i \in DOMAIN g : g[i] = h[j]
  <2>1. j \in 1 .. lo - 1 \/ j \in hi + 1 .. Len(h)
    BY <1>1
  <2> QED
    BY <2>1, SplicedBlocks
<1>4. ASSUME NEW j \in DOMAIN m PROVE \E i \in DOMAIN g : g[i] = m[j]
  BY SplicedBlocks
<1>5. \A i \in DOMAIN h \ (lo .. hi), j \in lo .. hi : h[i] # h[j] /\ h[i].addr # h[j].addr
  <2>1. \A i \in DOMAIN h \ (lo .. hi), j \in lo .. hi : i # j /\ j \in DOMAIN h
    BY <1>1, Zenon
  <2> QED
    BY <2>1, OrderedFacts, Zenon
<1>6. Used(g) = (Used(h) \ { h[i] : i \in lo .. hi }) \cup Used(m)
  <2>1. ASSUME NEW u \in Used(g)
        PROVE  u \in (Used(h) \ { h[i] : i \in lo .. hi }) \cup Used(m)
    <3>1. PICK i \in DOMAIN g : u = g[i] /\ ~u.free
      BY Zenon DEF Used
    <3>2. CASE \E j \in DOMAIN m : g[i] = m[j]
      <4>1. u \in Used(m)
        BY <3>1, <3>2, Zenon DEF Used
      <4> QED
        BY <4>1, Zenon
    <3>3. CASE \E j \in DOMAIN h \ (lo .. hi) : g[i] = h[j]
      <4>1. PICK j \in DOMAIN h \ (lo .. hi) : u = h[j]
        BY <3>1, <3>3, Zenon
      <4>2. u \in Used(h)
        BY <3>1, <4>1, Zenon DEF Used
      <4>3. u \notin { h[x] : x \in lo .. hi }
        BY <1>5, <4>1, Zenon
      <4> QED
        BY <4>2, <4>3, Zenon
    <3> QED
      BY <1>2, <3>2, <3>3, Zenon
  <2>2. ASSUME NEW u \in Used(h), u \notin { h[i] : i \in lo .. hi }
        PROVE  u \in Used(g)
    <3>1. PICK j \in DOMAIN h : u = h[j] /\ ~u.free
      BY Zenon DEF Used
    <3>2. j \notin lo .. hi
      BY <2>2, <3>1, Zenon
    <3>3. PICK i \in DOMAIN g : g[i] = u
      BY <1>3, <3>1, <3>2, Zenon
    <3> QED
      BY <3>1, <3>3, Zenon DEF Used
  <2>3. ASSUME NEW u \in Used(m)
        PROVE  u \in Used(g)
    <3>1. PICK j \in DOMAIN m : u = m[j] /\ ~u.free
      BY Zenon DEF Used
    <3>2. PICK i \in DOMAIN g : g[i] = u
      BY <1>4, <3>1, Zenon
    <3> QED
      BY <3>1, <3>2, Zenon DEF Used
  <2> QED
    BY <2>1, <2>2, <2>3, Zenon
<1>7. Headers(g) = (Headers(h) \ { h[i].addr : i \in lo .. hi }) \cup Headers(m)
  <2>1. ASSUME NEW u \in Headers(g)
        PROVE  u \in (Headers(h) \ { h[i].addr : i \in lo .. hi }) \cup Headers(m)
    <3>1. PICK i \in DOMAIN g : u = g[i].addr
      BY Zenon DEF Headers
    <3>2. CASE \E j \in DOMAIN m : g[i] = m[j]
      <4>1. u \in Headers(m)
        BY <3>1, <3>2, Zenon DEF Headers
      <4> QED
        BY <4>1, Zenon
    <3>3. CASE \E j \in DOMAIN h \ (lo .. hi) : g[i] = h[j]
      <4>1. PICK j \in DOMAIN h \ (lo .. hi) : u = h[j].addr
        BY <3>1, <3>3, Zenon
      <4>2. u \in Headers(h)
        BY <4>1, Zenon DEF Headers
      <4>3. u \notin { h[x].addr : x \in lo .. hi }
        BY <1>5, <4>1, Zenon
      <4> QED
        BY <4>2, <4>3, Zenon
    <3> QED
      BY <1>2, <3>2, <3>3, Zenon
  <2>2. ASSUME NEW u \in Headers(h), u \notin { h[i].addr : i \in lo .. hi }
        PROVE  u \in Headers(g)
    <3>1. PICK j \in DOMAIN h : u = h[j].addr
      BY Zenon DEF Headers
    <3>2. j \notin lo .. hi
      BY <2>2, <3>1, Zenon
    <3>3. PICK i \in DOMAIN g : g[i].addr = u
      BY <1>3, <3>1, <3>2, Zenon
    <3> QED
      BY <3>3, Zenon DEF Headers
  <2>3. ASSUME NEW u \in Headers(m)
        PROVE  u \in Headers(g)
    <3>1. PICK j \in DOMAIN m : u = m[j].addr
      BY Zenon DEF Headers
    <3>2. PICK i \in DOMAIN g : g[i].addr = u
      BY <1>4, <3>1, Zenon
    <3> QED
      BY <3>2, Zenon DEF Headers
  <2> QED
    BY <2>1, <2>2, <2>3, Zenon
<1> QED
  BY <1>6, <1>7, Zenon

\* Among the blocks m and the neighbours they get, only block p of the result
\* is free and has a free neighbour.
Seams(h, lo, hi, m, p) ==
    /\ \A j \in 1 .. Len(m) - 1 : m[j].free /\ m[j + 1].free => p \in {lo - 1 + j, lo + j}
    /\ lo > 1 /\ h[lo - 1].free /\ m[1].free => p \in {lo - 1, lo}
    /\ hi < Len(h) /\ m[Len(m)].free /\ h[hi + 1].free
         => p \in {lo - 1 + Len(m), lo + Len(m)}

\* The same of the blocks as functions of their places: n of them take the
\* places from lo to hi of l blocks, which makes d.
Arranged(l, lo, hi, n, d, k, h, m, g, p) ==
    /\ l \in Int /\ lo \in Int /\ hi \in Int /\ n \in Int /\ d \in Int /\ k \in Int
    /\ 1 <= lo /\ lo <= hi /\ hi <= l /\ 0 < n /\ lo <= k /\ k <= hi
    /\ d = lo - 1 + n + l - hi
    /\ \A i \in 1 .. lo - 1 : g[i] = h[i]
    /\ \A i \in 1 .. n : g[lo - 1 + i] = m[i]
    /\ \A i \in lo + n .. d : g[i] = h[i - lo - n + hi + 1]
    /\ \A i \in 1 .. l - 1 : h[i].free /\ h[i + 1].free => k \in {i, i + 1}
    /\ \A j \in 1 .. n - 1 : m[j].free /\ m[j + 1].free => p \in {lo - 1 + j, lo + j}
    /\ lo > 1 /\ h[lo - 1].free /\ m[1].free => p \in {lo - 1, lo}
    /\ hi < l /\ m[n].free /\ h[hi + 1].free => p \in {lo - 1 + n, lo + n}

\* Two free neighbours of the new list are at p: the arithmetic of it.
LEMMA SeamsOnly ==
    ASSUME NEW l, NEW lo, NEW hi, NEW n, NEW d, NEW k, NEW h, NEW m, NEW g, NEW p,
           Arranged(l, lo, hi, n, d, k, h, m, g, p),
           NEW i \in 1 .. d - 1, g[i].free, g[i + 1].free
    PROVE  p \in {i, i + 1}
<1> USE DEF Arranged
<1>1. CASE i + 1 < lo
  <2>1. g[i] = h[i] /\ g[i + 1] = h[i + 1] /\ i \in 1 .. l - 1 /\ k \notin {i, i + 1}
    BY <1>1
  <2> QED
    BY <2>1, Zenon
<1>2. CASE i + 1 = lo
  <2>1. i = lo - 1 /\ lo > 1 /\ i \in 1 .. lo - 1 /\ 1 \in 1 .. n /\ lo - 1 + 1 = i + 1
    BY <1>2
  <2>2. g[i] = h[lo - 1] /\ g[i + 1] = m[1]
    BY <2>1, Zenon
  <2> QED
    BY <1>2, <2>1, <2>2, Zenon
<1>3. CASE lo <= i /\ i + 1 < lo + n
  <2> DEFINE j == i - lo + 1
  <2>1. /\ j \in 1 .. n - 1 /\ j \in 1 .. n /\ j + 1 \in 1 .. n
        /\ lo - 1 + j = i /\ lo - 1 + (j + 1) = i + 1 /\ lo + j = i + 1
    BY <1>3
  <2> HIDE DEF j
  <2>2. g[i] = m[j] /\ g[i + 1] = m[j + 1]
    BY <2>1, Zenon
  <2> QED
    BY <2>1, <2>2, Zenon
<1>4. CASE lo <= i /\ i + 1 = lo + n
  <2>1. /\ lo - 1 + n = i /\ n \in 1 .. n /\ i + 1 \in lo + n .. d
        /\ i + 1 - lo - n + hi + 1 = hi + 1 /\ hi < l
    BY <1>4
  <2>2. g[i] = m[n] /\ g[i + 1] = h[hi + 1]
    BY <2>1
  <2> QED
    BY <1>4, <2>1, <2>2, Zenon
<1>5. CASE i >= lo + n
  <2> DEFINE j == i - lo - n + hi + 1
  <2>1. /\ i \in lo + n .. d /\ i + 1 \in lo + n .. d
        /\ j \in 1 .. l - 1 /\ k \notin {j, j + 1}
        /\ j = i - lo - n + hi + 1 /\ j + 1 = i + 1 - lo - n + hi + 1
    BY <1>5
  <2> HIDE DEF j
  <2>2. g[i] = h[j] /\ g[i + 1] = h[j + 1]
    BY <2>1
  <2> QED
    BY <2>1, <2>2, Zenon
<1> QED
  BY <1>1, <1>2, <1>3, <1>4, <1>5, SMTT(20)

\* Replacing the blocks around the free neighbours leaves those at the seams.
LEMMA SplicedParted ==
    ASSUME NEW h, Ordered(h), NEW lo \in DOMAIN h, NEW hi \in lo .. Len(h), NEW m \in Seq(Block),
           Len(m) > 0, NEW g, Spliced(h, lo, hi, m, g), NEW k \in lo .. hi, Parted(h, k),
           NEW p, Seams(h, lo, hi, m, p)
    PROVE  Parted(g, p)
<1>1. /\ h \in Seq(Block) /\ Len(h) \in Nat /\ DOMAIN h = 1 .. Len(h)
  BY OrderedFacts, Zenon
<1>2. Len(g) \in Nat
  BY DEF Spliced
<1>3. /\ Len(h) \in Int /\ lo \in Int /\ hi \in Int /\ Len(m) \in Int /\ Len(g) \in Int /\ k \in Int
      /\ 1 <= lo /\ lo <= hi /\ hi <= Len(h) /\ 0 < Len(m) /\ lo <= k /\ k <= hi
  BY <1>1, <1>2
<1>4. /\ Len(g) = lo - 1 + Len(m) + Len(h) - hi
      /\ \A i \in 1 .. lo - 1 : g[i] = h[i]
      /\ \A i \in 1 .. Len(m) : g[lo - 1 + i] = m[i]
      /\ \A i \in lo + Len(m) .. Len(g) : g[i] = h[i - lo - Len(m) + hi + 1]
  BY Zenon DEF Spliced
<1>5. \A i \in 1 .. Len(h) - 1 : h[i].free /\ h[i + 1].free => k \in {i, i + 1}
  BY Zenon DEF Parted
<1>6. /\ \A j \in 1 .. Len(m) - 1 : m[j].free /\ m[j + 1].free => p \in {lo - 1 + j, lo + j}
      /\ lo > 1 /\ h[lo - 1].free /\ m[1].free => p \in {lo - 1, lo}
      /\ hi < Len(h) /\ m[Len(m)].free /\ h[hi + 1].free
           => p \in {lo - 1 + Len(m), lo + Len(m)}
  BY Zenon DEF Seams
<1>7. SUFFICES ASSUME NEW i \in 1 .. Len(g) - 1, g[i].free, g[i + 1].free
               PROVE  p \in {i, i + 1}
  BY Zenon DEF Parted
<1>8. Arranged(Len(h), lo, hi, Len(m), Len(g), k, h, m, g, p)
  BY <1>3, <1>4, <1>5, <1>6, Zenon DEF Arranged
<1> QED
  BY <1>7, <1>8, SeamsOnly, Zenon

\* A list is a splice of itself.
LEMMA SplicedSelf ==
    ASSUME NEW h \in Seq(Block), NEW k \in 1 .. Len(h)
    PROVE  Spliced(h, k, k, <<h[k]>>, h)
<1>1. Len(h) \in Nat /\ Len(<<h[k]>>) = 1
  OBVIOUS
<1>2. \A i \in 1 .. 1 : h[k - 1 + i] = <<h[k]>>[i]
  OBVIOUS
<1>3. \A i \in k + 1 .. Len(h) : h[i] = h[i - k - 1 + k + 1]
  <2>1. \A i \in k + 1 .. Len(h) : i - k - 1 + k + 1 = i
    OBVIOUS
  <2> QED
    BY <2>1, Zenon
<1> QED
  BY <1>1, <1>2, <1>3 DEF Spliced

\* A block of the spliced part is changed.
LEMMA Respliced ==
    ASSUME NEW h \in Seq(Block), NEW lo \in 1 .. Len(h), NEW hi \in lo .. Len(h),
           NEW m \in Seq(Block), NEW g, Spliced(h, lo, hi, m, g),
           NEW j \in DOMAIN m, NEW b \in Block
    PROVE  Spliced(h, lo, hi, [m EXCEPT ![j] = b], [g EXCEPT ![lo - 1 + j] = b])
<1> DEFINE n == [m EXCEPT ![j] = b]
           f == [g EXCEPT ![lo - 1 + j] = b]
<1>1. /\ Len(h) \in Nat /\ Len(m) \in Nat /\ j \in 1 .. Len(m)
      /\ g \in Seq(Block) /\ Len(g) \in Nat /\ Len(g) = lo - 1 + Len(m) + Len(h) - hi
  BY DEF Spliced
<1>2. lo - 1 + j \in 1 .. Len(g) /\ n \in Seq(Block) /\ Len(n) = Len(m)
  BY <1>1
<1>3. f \in Seq(Block) /\ Len(f) = Len(g)
  BY <1>1, <1>2
<1>4. /\ \A i \in 1 .. Len(m) : n[i] = IF i = j THEN b ELSE m[i]
      /\ \A i \in 1 .. Len(g) : f[i] = IF i = lo - 1 + j THEN b ELSE g[i]
  BY <1>1, <1>2
<1> HIDE DEF n, f
<1>5. ASSUME NEW i \in 1 .. lo - 1 PROVE f[i] = h[i]
  <2>1. i \in 1 .. Len(g) /\ i # lo - 1 + j
    BY <1>1
  <2>2. g[i] = h[i]
    BY Zenon DEF Spliced
  <2> QED
    BY <1>4, <2>1, <2>2, Zenon
<1>6. ASSUME NEW i \in 1 .. Len(m) PROVE f[lo - 1 + i] = n[i]
  <2>1. lo - 1 + i \in 1 .. Len(g) /\ ((lo - 1 + i = lo - 1 + j) <=> i = j)
    BY <1>1, SMTT(20)
  <2>2. g[lo - 1 + i] = m[i]
    BY Zenon DEF Spliced
  <2> QED
    BY <1>4, <2>1, <2>2, Zenon
<1>7. ASSUME NEW i \in lo + Len(m) .. Len(g) PROVE f[i] = h[i - lo - Len(m) + hi + 1]
  <2>1. i \in 1 .. Len(g) /\ i # lo - 1 + j
    BY <1>1, SMTT(20)
  <2>2. g[i] = h[i - lo - Len(m) + hi + 1]
    BY Zenon DEF Spliced
  <2> QED
    BY <1>4, <2>1, <2>2, Zenon
<1>8. Spliced(h, lo, hi, n, f)
  BY <1>1, <1>2, <1>3, <1>5, <1>6, <1>7, Zenon DEF Spliced
<1> QED
  BY <1>8, Zenon DEF n, f

-----------------------------------------------------------------------------
(***************************************************************************)
(* The inductive invariant of the heap.                                    *)
(***************************************************************************)
\* What the splice takes away does not matter.
LEMMA IgnoredPart ==
    ASSUME NEW h, NEW f, NEW lo, NEW hi, NEW m, NEW g, Spliced(h, lo, hi, m, g),
           lo \in Int, hi \in Int, Len(m) \in Int, Len(h) \in Int,
           Len(f) = Len(h), \A i \in 1 .. lo - 1 : f[i] = h[i],
           \A i \in hi + 1 .. Len(h) : f[i] = h[i]
    PROVE  Spliced(f, lo, hi, m, g)
<1>1. ASSUME NEW i \in lo + Len(m) .. Len(g)
      PROVE  f[i - lo - Len(m) + hi + 1] = h[i - lo - Len(m) + hi + 1]
  <2>1. Len(g) = lo - 1 + Len(m) + Len(h) - hi
    BY Zenon DEF Spliced
  <2>2. i - lo - Len(m) + hi + 1 \in hi + 1 .. Len(h)
    BY <2>1
  <2> QED
    BY <2>2, Zenon
<1> QED
  BY <1>1, Zenon DEF Spliced

\* Every block of a list with requests for whole pages starts at a multiple of
\* a header.
Multiple(x) == \E q \in Nat : x = q * BlockSize

\* That of every block of the list, when aligned memory is asked for.
Multiples(h) == AlignedRequests # {} => \A i \in DOMAIN h : Multiple(h[i].addr)

\* Each block in use is held by one client, under one pointer.
Owners(U, l) ==
    /\ l \subseteq [ptr : Units, size : Units]
    /\ \A c \in l : \E b \in U : c.ptr = b.addr + BlockSize /\ c.size <= b.size
    /\ \A b \in U : \E c \in l : c.ptr = b.addr + BlockSize
    /\ \A c, d \in l : c.ptr = d.ptr => c = d

\* The inductive invariant: of the list h and what the clients hold, l.
State(h, l) ==
    /\ Ordered(h) /\ Parted(h, 0) /\ Multiples(h)
    /\ Owners(Used(h), l)

\* The blocks m take the place of the free block k: block j is handed out, for
\* n units, and the rest stays free.
Fills(h, k, m, j, n) ==
    /\ Ordered(m) /\ Parted(m, 0) /\ Multiples(m) /\ Len(m) > 0
    /\ m[1].addr = h[k].addr
    /\ \A i \in DOMAIN m : h[k].addr <= m[i].addr /\ End(m[i]) <= End(h[k])
    /\ j \in DOMAIN m /\ ~m[j].free /\ n <= m[j].size
    /\ \A i \in DOMAIN m : i # j => m[i].free

\* A splice keeps the addresses multiples of a header.
LEMMA SplicedMultiples ==
    ASSUME NEW h, Ordered(h), NEW lo \in DOMAIN h, NEW hi \in lo .. Len(h), NEW m \in Seq(Block),
           NEW g, Spliced(h, lo, hi, m, g), Multiples(h), Multiples(m)
    PROVE  Multiples(g)
<1>1. h \in Seq(Block) /\ lo \in 1 .. Len(h) /\ DOMAIN h = 1 .. Len(h) /\ Len(h) \in Nat
  BY OrderedFacts, Zenon
<1> h \in Seq(Block) /\ lo \in 1 .. Len(h)
  BY <1>1, Zenon
<1>2. \A i \in DOMAIN g : \/ \E j \in DOMAIN h : g[i] = h[j]
                         \/ \E j \in DOMAIN m : g[i] = m[j]
  <2>1. hi + 1 .. Len(h) \subseteq DOMAIN h
    BY <1>1
  <2> QED
    BY <2>1, SplicedBlocks
<1> QED
  BY <1>2, Zenon DEF Multiples

\* A block in the list is the only one at its address.
LEMMA OneBlock ==
    ASSUME NEW h, Ordered(h), NEW k \in DOMAIN h
    PROVE  /\ h[k].free => \A b \in Used(h) : b.addr # h[k].addr
           /\ ~h[k].free => h[k] \in Used(h)
           /\ \A b \in Used(h) : b.addr = h[k].addr => b = h[k]
           /\ IndexOf(h, h[k].addr) = k
<1>1. \A i, j \in DOMAIN h : i # j => h[i].addr # h[j].addr
  BY OrderedFacts, Zenon
<1>2. \A b \in Used(h) : \E i \in DOMAIN h : b = h[i] /\ ~h[i].free
  BY Zenon DEF Used
<1>3. IndexOf(h, h[k].addr) = k
  BY <1>1, Zenon DEF IndexOf
<1> QED
  BY <1>1, <1>2, <1>3 DEF Used

\* The block of a pointer that a client holds.
LEMMA BlockOf ==
    ASSUME NEW h, NEW l, State(h, l), NEW c \in l
    PROVE  \E k \in DOMAIN h : /\ ~h[k].free /\ c.ptr = h[k].addr + BlockSize
                               /\ c.ptr - BlockSize = h[k].addr
                               /\ c.size <= h[k].size
                               /\ IndexOf(h, c.ptr - BlockSize) = k
<1>1. Ordered(h)
  BY Zenon DEF State
<1>2. PICK b \in Used(h) : c.ptr = b.addr + BlockSize /\ c.size <= b.size
  BY Zenon DEF State, Owners
<1>3. PICK k \in DOMAIN h : ~h[k].free /\ b = h[k]
  BY Zenon DEF Used
<1>4. c.ptr - BlockSize = h[k].addr
  BY <1>1, <1>2, <1>3, OrderedFacts, HeapAssumption
<1>5. IndexOf(h, c.ptr - BlockSize) = k
  BY <1>1, <1>4, OneBlock, Zenon
<1> QED
  BY <1>2, <1>3, <1>4, <1>5, Zenon

-----------------------------------------------------------------------------
(***************************************************************************)
(* An allocation out of a free block.                                      *)
(***************************************************************************)
\* The used blocks and the headers of the blocks that fill a free one.
LEMMA FilledSets ==
    ASSUME NEW h, Ordered(h), NEW k \in DOMAIN h, h[k].free, NEW m, NEW j, NEW n,
           Fills(h, k, m, j, n), NEW g, Spliced(h, k, k, m, g)
    PROVE  /\ Used(g) = Used(h) \cup {m[j]}
           /\ Headers(h) \subseteq Headers(g)
           /\ \E i \in DOMAIN g : g[i] = m[j]
<1>1. /\ h \in Seq(Block) /\ k \in 1 .. Len(h) /\ Len(h) \in Nat /\ k \in k .. Len(h)
      /\ m \in Seq(Block) /\ Len(m) \in Nat /\ DOMAIN m = 1 .. Len(m)
  BY OrderedFacts DEF Fills
<1> m \in Seq(Block) /\ h \in Seq(Block) /\ k \in 1 .. Len(h) /\ k \in k .. Len(h)
  BY <1>1, Zenon
<1>2. k .. k = {k}
  BY <1>1
<1>3. Used(m) = {m[j]}
  BY Zenon DEF Used, Fills
<1>4. { h[i] : i \in k .. k } = {h[k]} /\ { h[i].addr : i \in k .. k } = {h[k].addr}
  BY <1>2, Zenon
<1>5. /\ Used(g) = (Used(h) \ {h[k]}) \cup {m[j]}
      /\ Headers(g) = (Headers(h) \ {h[k].addr}) \cup Headers(m)
  BY <1>3, <1>4, SplicedSets
<1>6. h[k] \notin Used(h)
  BY OneBlock, Zenon
<1>7. h[k].addr \in Headers(m)
  <2>1. 1 \in DOMAIN m
    BY <1>1 DEF Fills
  <2> QED
    BY <2>1, Zenon DEF Fills, Headers
<1>8. \E i \in DOMAIN g : g[i] = m[j]
  BY SplicedBlocks DEF Fills
<1> QED
  BY <1>5, <1>6, <1>7, <1>8, Zenon

\* No header lies in the payload of a block.
LEMMA NoHeaderInside ==
    ASSUME NEW g, Ordered(g), NEW i \in DOMAIN g, NEW n \in Nat, n <= g[i].size
    PROVE  Headers(g) \cap (g[i].addr + BlockSize .. g[i].addr + BlockSize + n - 1) = {}
<1> SUFFICES ASSUME NEW j \in DOMAIN g,
                    g[j].addr \in g[i].addr + BlockSize .. g[i].addr + BlockSize + n - 1
             PROVE  FALSE
  BY Zenon DEF Headers
<1>1. /\ g[i].addr \in Nat /\ g[j].addr \in Nat /\ g[i].size \in Nat /\ g[j].size \in Nat
      /\ i \in Int /\ j \in Int
  BY OrderedFacts
<1>2. CASE i = j
  BY <1>1, <1>2, HeapAssumption
<1>3. CASE i < j
  <2>1. g[i].addr + BlockSize + g[i].size <= g[j].addr
    BY <1>3, OrderedFacts, Zenon
  <2> QED
    BY <1>1, <2>1, HeapAssumption
<1>4. CASE j < i
  <2>1. g[j].addr + BlockSize + g[j].size <= g[i].addr
    BY <1>4, OrderedFacts, Zenon
  <2> QED
    BY <1>1, <2>1, HeapAssumption
<1> QED
  BY <1>1, <1>2, <1>3, <1>4

\* A client gets a block of its own.
LEMMA NewOwner ==
    ASSUME NEW U, NEW l, Owners(U, l), NEW b \in Block, \A u \in U : u.addr # b.addr,
           \A u \in U : u.addr \in Nat, b.addr \in Nat, b.addr + BlockSize \in Units,
           NEW n \in Units, n <= b.size
    PROVE  /\ Owners(U \cup {b}, l \cup {[ptr |-> b.addr + BlockSize, size |-> n]})
           /\ \A d \in l : d.ptr # b.addr + BlockSize
<1> DEFINE c == [ptr |-> b.addr + BlockSize, size |-> n]
<1>1. c \in [ptr : Units, size : Units] /\ c.ptr = b.addr + BlockSize /\ c.size = n
  BY Zenon
<1> HIDE DEF c
<1>2. ASSUME NEW d \in l PROVE d.ptr # b.addr + BlockSize
  <2>1. PICK u \in U : d.ptr = u.addr + BlockSize
    BY Zenon DEF Owners
  <2> QED
    BY <2>1, HeapAssumption
<1>3. l \cup {c} \subseteq [ptr : Units, size : Units]
  BY <1>1, Zenon DEF Owners
<1>4. \A d \in l \cup {c} : \E u \in U \cup {b} : d.ptr = u.addr + BlockSize /\ d.size <= u.size
  BY <1>1, Zenon DEF Owners
<1>5. \A u \in U \cup {b} : \E d \in l \cup {c} : d.ptr = u.addr + BlockSize
  BY <1>1, Zenon DEF Owners
<1>6. \A d, e \in l \cup {c} : d.ptr = e.ptr => d = e
  BY <1>1, <1>2, Zenon DEF Owners
<1>7. Owners(U \cup {b}, l \cup {c})
  BY <1>3, <1>4, <1>5, <1>6, Zenon DEF Owners
<1> QED
  BY <1>2, <1>7, Zenon DEF c

\* Sizes and addresses inside a block of s units at a.
LEMMA Room ==
    ASSUME NEW a \in Nat, NEW s \in Nat, a + BlockSize + s <= HeapSize, NEW n \in Nat, n <= s
    PROVE  a \in Units /\ a + BlockSize \in Units /\ s \in Units /\ n \in Units
BY HeapAssumption DEF Units

\* A block that starts behind another is elsewhere.
LEMMA Apart ==
    ASSUME NEW a \in Nat, NEW s \in Nat, NEW x \in Nat, NEW y \in Nat, NEW b \in Nat,
           a <= x, x + BlockSize + y <= a + BlockSize + s, a + BlockSize + s <= b
    PROVE  b # x
BY HeapAssumption

\* And so is one that ends before it.
LEMMA Ahead ==
    ASSUME NEW b \in Nat, NEW t \in Nat, NEW a \in Nat, NEW x \in Nat,
           b + BlockSize + t <= a, a <= x
    PROVE  b # x
BY HeapAssumption

\* The step from h to g hands out n units at p, which no client held.
Hands(h, l, g, p, n) ==
    /\ State(g, l \cup {[ptr |-> p, size |-> n]})
    /\ Stamped(Headers(h), h, g, p, n) = Headers(g)
    /\ \A d \in l : d.ptr # p

\* An allocation from the free block k, when its neighbours are no free blocks
\* that the new ones would have to be joined with.
LEMMA AllocatedNear ==
    ASSUME NEW h, NEW l, Ordered(h), NEW k \in DOMAIN h, Parted(h, k), Multiples(h),
           Owners(Used(h), l), h[k].free, NEW n \in Nat,
           NEW m, NEW j, Fills(h, k, m, j, n), NEW g, Spliced(h, k, k, m, g),
           k > 1 => ~(h[k - 1].free /\ m[1].free), k < Len(h) => ~h[k + 1].free
    PROVE  /\ Hands(h, l, g, m[j].addr + BlockSize, n)
           /\ Headers(h) \subseteq Headers(g)
<1>1. Ordered(h) /\ Multiples(h) /\ Owners(Used(h), l)
  BY Zenon
<1>2. Ordered(m) /\ Parted(m, 0) /\ Multiples(m) /\ Len(m) > 0 /\ j \in DOMAIN m
  BY Zenon DEF Fills
<1>3. /\ h \in Seq(Block) /\ k \in 1 .. Len(h) /\ Len(h) \in Nat /\ k \in k .. Len(h)
      /\ m \in Seq(Block) /\ Len(m) \in Nat /\ DOMAIN m = 1 .. Len(m)
  BY <1>1, <1>2, OrderedFacts
<1> m \in Seq(Block) /\ h \in Seq(Block) /\ k \in 1 .. Len(h) /\ k \in k .. Len(h)
  BY <1>3, Zenon
<1>4. Ordered(g)
  BY <1>1, <1>2, SplicedOrdered, Zenon DEF Fills
<1>5. Parted(g, 0)
  <2>1. Seams(h, k, k, m, 0)
    <3>1. \A i \in 1 .. Len(m) - 1 : ~(m[i].free /\ m[i + 1].free)
      BY <1>2, <1>3 DEF Parted
    <3> QED
      BY <3>1, Zenon DEF Seams
  <2>2. Parted(h, k) /\ k \in k .. k
    BY <1>3
  <2> QED
    BY <1>1, <1>2, <2>1, <2>2, SplicedParted, Zenon
<1>6. Multiples(g)
  BY <1>1, <1>2, SplicedMultiples, Zenon
<1>7. /\ Used(g) = Used(h) \cup {m[j]} /\ Headers(h) \subseteq Headers(g)
      /\ \E i \in DOMAIN g : g[i] = m[j]
  BY <1>1, FilledSets
<1>8. /\ m[j] \in Block /\ m[j].addr \in Nat /\ m[j].size \in Nat
      /\ m[j].addr + BlockSize + m[j].size <= HeapSize /\ n <= m[j].size
  BY <1>2, OrderedFacts, Zenon DEF Fills
<1>9. m[j].addr + BlockSize \in Units /\ n \in Units
  BY <1>8, Room, Zenon
<1>10. \A u \in Used(h) : u.addr \in Nat /\ u.addr # m[j].addr
  <2> SUFFICES ASSUME NEW i \in DOMAIN h, ~h[i].free
               PROVE  h[i].addr \in Nat /\ h[i].addr # m[j].addr
    BY Zenon DEF Used
  <2>1. /\ h[i].addr \in Nat /\ h[k].addr \in Nat /\ h[i].size \in Nat /\ h[k].size \in Nat
        /\ i # k /\ i \in Int /\ k \in Int
    BY <1>1, OrderedFacts
  <2>2. /\ h[k].addr <= m[j].addr
        /\ m[j].addr + BlockSize + m[j].size <= h[k].addr + BlockSize + h[k].size
    BY <1>2, Zenon DEF Fills, End
  <2>3. CASE i < k
    <3>1. h[i].addr + BlockSize + h[i].size <= h[k].addr
      BY <1>1, <2>3, OrderedFacts, Zenon
    <3> QED
      BY <1>8, <2>1, <2>2, <3>1, Ahead, Zenon
  <2>4. CASE k < i
    <3>1. h[k].addr + BlockSize + h[k].size <= h[i].addr
      BY <1>1, <2>4, OrderedFacts, Zenon
    <3> QED
      BY <1>8, <2>1, <2>2, <3>1, Apart, Zenon
  <2> QED
    BY <2>1, <2>3, <2>4
<1>11. /\ Owners(Used(g), l \cup {[ptr |-> m[j].addr + BlockSize, size |-> n]})
       /\ \A d \in l : d.ptr # m[j].addr + BlockSize
  <2>1. /\ Owners(Used(h) \cup {m[j]}, l \cup {[ptr |-> m[j].addr + BlockSize, size |-> n]})
        /\ \A d \in l : d.ptr # m[j].addr + BlockSize
    BY <1>1, <1>8, <1>9, <1>10, NewOwner, Zenon
  <2> QED
    BY <1>7, <2>1, Zenon
<1>12. Stamped(Headers(h), h, g, m[j].addr + BlockSize, n) = Headers(g)
  <2>1. PICK i \in DOMAIN g : g[i] = m[j]
    BY <1>7, Zenon
  <2>2. Headers(g) \cap (m[j].addr + BlockSize .. m[j].addr + BlockSize + n - 1) = {}
    BY <1>4, <1>8, <2>1, NoHeaderInside, Zenon
  <2> QED
    BY <1>7, <2>2, Zenon DEF Stamped
<1>13. Hands(h, l, g, m[j].addr + BlockSize, n)
  BY <1>4, <1>5, <1>6, <1>11, <1>12, Zenon DEF State, Hands
<1> QED
  BY <1>7, <1>13, Zenon

\* A list without two free neighbours.
LEMMA NoFreeNeighbours ==
    ASSUME NEW h, Ordered(h), Parted(h, 0), NEW k \in DOMAIN h
    PROVE  /\ \A p : Parted(h, p)
           /\ h[k].free /\ k > 1 => ~h[k - 1].free
           /\ h[k].free /\ k < Len(h) => ~h[k + 1].free
<1>1. k \in 1 .. Len(h) /\ Len(h) \in Nat
  BY OrderedFacts, Zenon
<1>2. \A i \in 1 .. Len(h) - 1 : ~(h[i].free /\ h[i + 1].free)
  <2>1. \A i \in 1 .. Len(h) - 1 : 0 \notin {i, i + 1}
    BY <1>1
  <2> QED
    BY <2>1, Zenon DEF Parted
<1>3. \A p : Parted(h, p)
  BY <1>2, Zenon DEF Parted
<1>4. k > 1 => k - 1 \in 1 .. Len(h) - 1 /\ k - 1 + 1 = k
  BY <1>1
<1>5. k < Len(h) => k \in 1 .. Len(h) - 1
  BY <1>1
<1> QED
  BY <1>2, <1>3, <1>4, <1>5, Zenon

\* An allocation from the free block k.
LEMMA Allocated ==
    ASSUME NEW h, NEW l, State(h, l), NEW k \in DOMAIN h, h[k].free, NEW n \in Nat,
           NEW m, NEW j, Fills(h, k, m, j, n), NEW g, Spliced(h, k, k, m, g)
    PROVE  Hands(h, l, g, m[j].addr + BlockSize, n)
<1>1. Ordered(h) /\ Parted(h, 0) /\ Multiples(h) /\ Owners(Used(h), l)
  BY Zenon DEF State
<1>2. /\ Parted(h, k) /\ (k > 1 => ~h[k - 1].free) /\ (k < Len(h) => ~h[k + 1].free)
  BY <1>1, NoFreeNeighbours, Zenon
<1>3. k > 1 => ~(h[k - 1].free /\ m[1].free)
  BY <1>2, Zenon
<1> QED
  BY <1>1, <1>2, <1>3, AllocatedNear, Zenon

-----------------------------------------------------------------------------
(***************************************************************************)
(* val_split as a splice.                                                  *)
(***************************************************************************)
\* The block k of h cut to n units, and the rest of it.
Cut(h, k, n) == [addr |-> h[k].addr, size |-> n, free |-> h[k].free]
\* The free block that val_split makes of the rest of block k.
Rest(h, k, n) == [addr |-> h[k].addr + BlockSize + n, size |-> h[k].size - n - BlockSize,
                  free |-> TRUE]

\* val_split, where it splits and where it does not.
LEMMA SplitSpliced ==
    ASSUME NEW h, Ordered(h), NEW k \in DOMAIN h, NEW n \in Nat
    PROVE  /\ h[k].size >= n + BlockSize + 1
                => /\ Cut(h, k, n) \in Block /\ Rest(h, k, n) \in Block
                   /\ Spliced(h, k, k, <<Cut(h, k, n), Rest(h, k, n)>>, Split(h, k, n))
           /\ ~(h[k].size >= n + BlockSize + 1) => Split(h, k, n) = h
<1>1. h \in Seq(Block) /\ k \in 1 .. Len(h) /\ k \in k .. Len(h) /\ h[k] \in Block
  BY OrderedFacts
<1>2. /\ h[k].addr \in Nat /\ h[k].size \in Nat /\ h[k].free \in BOOLEAN
      /\ h[k].addr + BlockSize + h[k].size <= HeapSize
  BY OrderedFacts, Zenon
<1>3. ASSUME h[k].size >= n + BlockSize + 1
      PROVE  Cut(h, k, n) \in Block /\ Rest(h, k, n) \in Block
  <2>1. h[k].addr \in Units /\ n \in Units /\ h[k].addr + BlockSize + n \in Units
        /\ h[k].size - n - BlockSize \in Units
    BY <1>2, <1>3, HeapAssumption DEF Units
  <2> QED
    BY <1>2, <2>1, Zenon DEF Block, Cut, Rest
<1>4. ASSUME h[k].size >= n + BlockSize + 1
      PROVE  Spliced(h, k, k, <<Cut(h, k, n), Rest(h, k, n)>>, Split(h, k, n))
  <2>1. PICK m : m = <<Cut(h, k, n), Rest(h, k, n)>>
    BY Zenon
  <2>2. m \in Seq(Block)
    BY <1>3, <1>4, <2>1
  <2>3. [h[k] EXCEPT !.size = n] = Cut(h, k, n)
    BY <1>1 DEF Block, Cut
  <2>4. Split(h, k, n) = SubSeq(h, 1, k - 1) \o m \o SubSeq(h, k + 1, Len(h))
    BY <1>4, <2>1, <2>3, Zenon DEF Split, Rest
  <2> QED
    BY <1>1, <2>1, <2>2, <2>4, Replaced, Zenon
<1>5. ASSUME ~(h[k].size >= n + BlockSize + 1) PROVE Split(h, k, n) = h
  BY <1>5, Zenon DEF Split
<1> QED
  BY <1>3, <1>4, <1>5, Zenon

\* The same with the fields of block k set afterwards.
LEMMA SplitThenSet ==
    ASSUME NEW h, Ordered(h), NEW k \in DOMAIN h, NEW m \in Seq(Block), NEW g,
           Spliced(h, k, k, m, g), Len(m) > 0, NEW b \in Block
    PROVE  Spliced(h, k, k, [m EXCEPT ![1] = b], [g EXCEPT ![k] = b])
<1>1. h \in Seq(Block) /\ k \in 1 .. Len(h) /\ k \in k .. Len(h) /\ 1 \in DOMAIN m /\ k - 1 + 1 = k
  BY OrderedFacts
<1>2. Spliced(h, k, k, [m EXCEPT ![1] = b], [g EXCEPT ![k - 1 + 1] = b])
  BY <1>1, Respliced, Zenon
<1> QED
  BY <1>1, <1>2, Zenon

\* One block, or two, in place of block k.
LEMMA OneForOne ==
    ASSUME NEW h, Ordered(h), NEW k \in DOMAIN h, NEW b \in Block
    PROVE  Spliced(h, k, k, <<b>>, [h EXCEPT ![k] = b])
<1>1. h \in Seq(Block) /\ k \in 1 .. Len(h) /\ h[k] \in Block
  BY OrderedFacts, Zenon
<1>2. Spliced(h, k, k, <<h[k]>>, h)
  BY <1>1, SplicedSelf, Zenon
<1>3. <<h[k]>> \in Seq(Block) /\ Len(<<h[k]>>) > 0
  BY <1>1
<1>4. [<<h[k]>> EXCEPT ![1] = b] = <<b>>
  OBVIOUS
<1>5. Spliced(h, k, k, [<<h[k]>> EXCEPT ![1] = b], [h EXCEPT ![k] = b])
  BY <1>2, <1>3, SplitThenSet, Zenon
<1> QED
  BY <1>4, <1>5, Zenon

\* val_split with its first part replaced.
LEMMA TwoForOne ==
    ASSUME NEW h, Ordered(h), NEW k \in DOMAIN h, NEW n \in Nat,
           h[k].size >= n + BlockSize + 1, NEW b \in Block
    PROVE  Spliced(h, k, k, <<b, Rest(h, k, n)>>, [Split(h, k, n) EXCEPT ![k] = b])
<1>1. PICK m : m = <<Cut(h, k, n), Rest(h, k, n)>>
  BY Zenon
<1>2. Cut(h, k, n) \in Block /\ Rest(h, k, n) \in Block /\ Spliced(h, k, k, m, Split(h, k, n))
  BY <1>1, SplitSpliced, Zenon
<1>3. m \in Seq(Block) /\ Len(m) > 0 /\ [m EXCEPT ![1] = b] = <<b, Rest(h, k, n)>>
  BY <1>1, <1>2
<1>4. Spliced(h, k, k, [m EXCEPT ![1] = b], [Split(h, k, n) EXCEPT ![k] = b])
  BY <1>2, <1>3, SplitThenSet, Zenon
<1> QED
  BY <1>3, <1>4, Zenon

-----------------------------------------------------------------------------
(***************************************************************************)
(* val_malloc: the block is split, and its first part handed out.          *)
(***************************************************************************)
\* Requests are for whole multiples of a header where there are aligned ones.
Sized(n) == AlignedRequests # {} => Multiple(n)

\* Multiples of a header add up.
LEMMA MultipleSum ==
    ASSUME NEW a \in Nat, NEW n \in Nat, Multiple(a), Multiple(n)
    PROVE  Multiple(a + n) /\ Multiple(a + BlockSize + n)
<1>1. PICK p \in Nat : a = p * BlockSize
  BY Zenon DEF Multiple
<1>2. PICK q \in Nat : n = q * BlockSize
  BY Zenon DEF Multiple
<1>3. BlockSize \in Nat
  BY HeapAssumption, Zenon
<1>4. p + q \in Nat /\ p + q + 1 \in Nat
  OBVIOUS
<1>5. a + n = (p + q) * BlockSize /\ a + BlockSize + n = (p + q + 1) * BlockSize
  BY <1>1, <1>2, <1>3
<1> QED
  BY <1>4, <1>5, Zenon DEF Multiple

\* Block k is handed out whole.
LEMMA OneFills ==
    ASSUME NEW h, Ordered(h), Multiples(h), NEW k \in DOMAIN h, NEW s \in Nat, s <= h[k].size,
           NEW n \in Nat, n <= s
    PROVE  LET b == [addr |-> h[k].addr, size |-> s, free |-> FALSE]
           IN  b \in Block /\ Fills(h, k, <<b>>, 1, n)
<1> DEFINE b == [addr |-> h[k].addr, size |-> s, free |-> FALSE]
<1>1. /\ h[k].addr \in Nat /\ h[k].size \in Nat
      /\ h[k].addr + BlockSize + h[k].size <= HeapSize
  BY OrderedFacts, Zenon
<1>2. b \in Block
  <2>1. h[k].addr \in Units /\ s \in Units
    BY <1>1, Room, Zenon
  <2> QED
    BY <2>1, Zenon DEF Block
<1>3. b.addr = h[k].addr /\ b.size = s /\ ~b.free
  BY Zenon
<1> HIDE DEF b
<1>4. PICK m : m = <<b>>
  BY Zenon
<1>5. m \in Seq(Block) /\ Len(m) = 1 /\ DOMAIN m = {1} /\ m[1] = b
  BY <1>2, <1>4
<1>6. End(b) <= End(h[k]) /\ End(b) <= HeapSize
  BY <1>1, <1>3, HeapAssumption DEF End
<1>7. Ordered(m)
  BY <1>5, <1>6 DEF Ordered
<1>8. Parted(m, 0)
  BY <1>5 DEF Parted
<1>9. Multiples(m)
  BY <1>3, <1>5, Zenon DEF Multiples
<1>10. h[k].addr <= b.addr
  BY <1>1, <1>3
<1>11. Fills(h, k, m, 1, n)
  BY <1>3, <1>5, <1>6, <1>7, <1>8, <1>9, <1>10 DEF Fills
<1> QED
  BY <1>2, <1>4, <1>11, Zenon DEF b

\* Block k is cut to what is handed out.
LEMMA TwoFills ==
    ASSUME NEW h, Ordered(h), Multiples(h), NEW k \in DOMAIN h, NEW n \in Nat,
           h[k].size >= n + BlockSize + 1, Sized(n)
    PROVE  LET b == [addr |-> h[k].addr, size |-> n, free |-> FALSE]
           IN  b \in Block /\ Fills(h, k, <<b, Rest(h, k, n)>>, 1, n)
<1> DEFINE b == [addr |-> h[k].addr, size |-> n, free |-> FALSE]
           r == Rest(h, k, n)
<1>1. /\ h[k].addr \in Nat /\ h[k].size \in Nat
      /\ h[k].addr + BlockSize + h[k].size <= HeapSize
  BY OrderedFacts, Zenon
<1>2. b \in Block
  <2>1. n <= h[k].size
    BY <1>1, HeapAssumption
  <2>2. h[k].addr \in Units /\ n \in Units
    BY <1>1, <2>1, Room, Zenon
  <2> QED
    BY <2>2, Zenon DEF Block
<1>3. r \in Block
  BY SplitSpliced, Zenon
<1>4. /\ b.addr = h[k].addr /\ b.size = n /\ ~b.free
      /\ r.addr = h[k].addr + BlockSize + n /\ r.size = h[k].size - n - BlockSize /\ r.free
  BY Zenon DEF Rest
<1> HIDE DEF b, r
<1>5. PICK m : m = <<b, r>>
  BY Zenon
<1>6. m \in Seq(Block) /\ Len(m) = 2 /\ DOMAIN m = {1, 2} /\ m[1] = b /\ m[2] = r
  BY <1>2, <1>3, <1>5
<1>7. /\ End(b) <= r.addr /\ End(b) <= End(h[k]) /\ End(r) <= End(h[k])
      /\ End(b) <= HeapSize /\ End(r) <= HeapSize
      /\ h[k].addr <= b.addr /\ h[k].addr <= r.addr
  BY <1>1, <1>4, HeapAssumption DEF End
<1>8. Ordered(m)
  BY <1>6, <1>7 DEF Ordered
<1>9. Parted(m, 0)
  BY <1>4, <1>6 DEF Parted
<1>10. Multiples(m)
  <2>1. SUFFICES ASSUME AlignedRequests # {} PROVE Multiple(b.addr) /\ Multiple(r.addr)
    BY <1>6, Zenon DEF Multiples
  <2> QED
    BY <1>1, <1>4, <2>1, MultipleSum, Zenon DEF Multiples, Sized
<1>11. Fills(h, k, m, 1, n)
  BY <1>4, <1>6, <1>7, <1>8, <1>9, <1>10 DEF Fills
<1> QED
  BY <1>2, <1>5, <1>11, Zenon DEF b, r

\* val_malloc from block k: split if the rest can hold a header, and marked used.
Taken(h, k, n) == [Split(h, k, n) EXCEPT ![k].free = FALSE]

\* The mark of a block set.
LEMMA SetFree ==
    ASSUME NEW b \in Block, NEW f
    PROVE  [b EXCEPT !.free = f] = [addr |-> b.addr, size |-> b.size, free |-> f]
BY DEF Block

\* The first part of a block that was split.
LEMMA SplitHead ==
    ASSUME NEW h, Ordered(h), NEW k \in DOMAIN h, NEW n \in Nat, h[k].size >= n + BlockSize + 1
    PROVE  Split(h, k, n) \in Seq(Block) /\ Split(h, k, n)[k] = Cut(h, k, n)
<1>1. PICK m : m = <<Cut(h, k, n), Rest(h, k, n)>>
  BY Zenon
<1>2. Spliced(h, k, k, m, Split(h, k, n))
  BY <1>1, SplitSpliced, Zenon
<1>3. 1 \in 1 .. Len(m) /\ k - 1 + 1 = k /\ m[1] = Cut(h, k, n)
  BY <1>1, OrderedFacts
<1>4. Split(h, k, n)[k - 1 + 1] = m[1]
  BY <1>2, <1>3, Zenon DEF Spliced
<1>5. Split(h, k, n) \in Seq(Block)
  BY <1>2, Zenon DEF Spliced
<1> QED
  BY <1>3, <1>4, <1>5, Zenon

\* Splitting a block and marking its first part used fills that block.
LEMMA TakenFills ==
    ASSUME NEW h, Ordered(h), Multiples(h), NEW k \in DOMAIN h, NEW n \in Nat,
           n <= h[k].size, Sized(n)
    PROVE  \E m : /\ Fills(h, k, m, 1, n) /\ Spliced(h, k, k, m, Taken(h, k, n))
                  /\ m[1].addr = h[k].addr
<1>1. h[k].size \in Nat /\ h[k] \in Block
  BY OrderedFacts, Zenon
<1>2. CASE h[k].size >= n + BlockSize + 1
  <2> DEFINE b == [addr |-> h[k].addr, size |-> n, free |-> FALSE]
  <2>1. b \in Block /\ Fills(h, k, <<b, Rest(h, k, n)>>, 1, n)
    BY <1>2, TwoFills, Zenon
  <2>2. Cut(h, k, n) \in Block
    BY <1>2, SplitSpliced, Zenon
  <2>3. Cut(h, k, n).addr = h[k].addr /\ Cut(h, k, n).size = n
    BY Zenon DEF Cut
  <2>4. [Cut(h, k, n) EXCEPT !.free = FALSE] = b
    BY <2>2, <2>3, SetFree, Zenon
  <2>6. <<b, Rest(h, k, n)>>[1].addr = h[k].addr
    BY Zenon
  <2> HIDE DEF b
  <2>5. Taken(h, k, n) = [Split(h, k, n) EXCEPT ![k] = b]
    <3>1. Split(h, k, n)[k] = Cut(h, k, n)
      BY <1>2, SplitHead, Zenon
    <3> QED
      BY <2>4, <3>1, Zenon DEF Taken
  <2>7. Spliced(h, k, k, <<b, Rest(h, k, n)>>, [Split(h, k, n) EXCEPT ![k] = b])
    BY <1>2, <2>1, TwoForOne, Zenon
  <2> QED
    BY <2>1, <2>5, <2>6, <2>7, Zenon
<1>3. CASE ~(h[k].size >= n + BlockSize + 1)
  <2> DEFINE b == [addr |-> h[k].addr, size |-> h[k].size, free |-> FALSE]
  <2>1. b \in Block /\ Fills(h, k, <<b>>, 1, n)
    BY <1>1, OneFills
  <2>2. Split(h, k, n) = h
    BY <1>3, SplitSpliced, Zenon
  <2>3. [h[k] EXCEPT !.free = FALSE] = b
    BY <1>1, SetFree, Zenon
  <2>4. Taken(h, k, n) = [h EXCEPT ![k] = b]
    BY <2>2, <2>3, Zenon DEF Taken
  <2>5. <<b>>[1].addr = h[k].addr
    BY Zenon
  <2> HIDE DEF b
  <2>6. Spliced(h, k, k, <<b>>, [h EXCEPT ![k] = b])
    BY <2>1, OneForOne, Zenon
  <2> QED
    BY <2>1, <2>4, <2>5, <2>6, Zenon
<1> QED
  BY <1>2, <1>3, Zenon

\* val_malloc from block k.
LEMMA Take ==
    ASSUME NEW h, NEW l, State(h, l), NEW k \in DOMAIN h, h[k].free, NEW n \in Nat,
           n <= h[k].size, Sized(n)
    PROVE  Hands(h, l, Taken(h, k, n), h[k].addr + BlockSize, n)
<1>1. Ordered(h) /\ Multiples(h)
  BY Zenon DEF State
<1>2. PICK m : /\ Fills(h, k, m, 1, n) /\ Spliced(h, k, k, m, Taken(h, k, n))
              /\ m[1].addr = h[k].addr
  BY <1>1, TakenFills, Zenon
<1>3. Hands(h, l, Taken(h, k, n), m[1].addr + BlockSize, n)
  BY <1>2, Allocated, Zenon
<1> QED
  BY <1>2, <1>3, Zenon

-----------------------------------------------------------------------------
(***************************************************************************)
(* val_coalesce as a splice.  Where the list has no free neighbours but    *)
(* at the block, it joins three blocks at most.                            *)
(***************************************************************************)
\* What val_coalesce joins when only block k may have free neighbours: block k
\* with the free block before it, the one after it, both or none.
First(h, k) == IF k > 1 /\ h[k - 1].free THEN k - 1 ELSE k
\* The last block that val_coalesce joins with block k.
Last(h, k) == IF k < Len(h) /\ h[k + 1].free THEN k + 1 ELSE k

\* What Min is when there is a least element.
LEMMA Least ==
    ASSUME NEW S, S \subseteq Int, NEW x \in S, \A y \in S : x <= y
    PROVE  Min(S) = x
<1>1. \A y \in S : (\A z \in S : y <= z) => y = x
  OBVIOUS
<1> QED
  BY <1>1, Zenon DEF Min

\* What Max is when there is a greatest element.
LEMMA Greatest ==
    ASSUME NEW S, S \subseteq Int, NEW x \in S, \A y \in S : x >= y
    PROVE  Max(S) = x
<1>1. \A y \in S : (\A z \in S : y >= z) => y = x
  OBVIOUS
<1> QED
  BY <1>1, Zenon DEF Max

\* The free blocks before block k are one at most.
LEMMA FirstIsMin ==
    ASSUME NEW h, Ordered(h), NEW k \in DOMAIN h, Parted(h, k)
    PROVE  Min({ j \in 1 .. k : \A m \in j .. k - 1 : h[m].free }) = First(h, k)
<1> DEFINE S == { j \in 1 .. k : \A m \in j .. k - 1 : h[m].free }
<1>1. Len(h) \in Nat /\ k \in 1 .. Len(h) /\ k \in Int
  BY OrderedFacts
<1>2. CASE k > 1 /\ h[k - 1].free
  <2>1. First(h, k) = k - 1
    BY <1>2, Zenon DEF First
  <2>2. k - 1 \in S
    <3>1. \A m \in k - 1 .. k - 1 : m = k - 1
      BY <1>1
    <3> QED
      BY <1>1, <1>2, <3>1
  <2>3. ASSUME NEW y \in S PROVE k - 1 <= y
    <3>1. SUFFICES ASSUME y < k - 1 PROVE FALSE
      BY <1>1
    <3>2. k - 2 \in y .. k - 1 /\ k - 2 \in 1 .. Len(h) - 1 /\ k - 2 + 1 = k - 1
          /\ k \notin {k - 2, k - 1}
      BY <1>1, <3>1
    <3>3. h[k - 2].free
      BY <3>2, Zenon
    <3> QED
      BY <1>2, <3>2, <3>3, Zenon DEF Parted
  <2>4. S \subseteq Int
    OBVIOUS
  <2> HIDE DEF S
  <2>5. Min(S) = k - 1
    BY <2>2, <2>3, <2>4, Least, Zenon
  <2> QED
    BY <2>1, <2>5, Zenon DEF S
<1>3. CASE ~(k > 1 /\ h[k - 1].free)
  <2>1. First(h, k) = k
    BY <1>3, Zenon DEF First
  <2>2. k \in S
    BY <1>1
  <2>3. ASSUME NEW y \in S PROVE k <= y
    <3>1. SUFFICES ASSUME y < k PROVE FALSE
      BY <1>1
    <3>2. k - 1 \in y .. k - 1 /\ k > 1
      BY <1>1, <3>1
    <3>3. h[k - 1].free
      BY <3>2, Zenon
    <3> QED
      BY <1>3, <3>2, <3>3, Zenon
  <2>4. S \subseteq Int
    OBVIOUS
  <2> HIDE DEF S
  <2>5. Min(S) = k
    BY <1>1, <2>2, <2>3, <2>4, Least, Zenon
  <2> QED
    BY <2>1, <2>5, Zenon DEF S
<1> QED
  BY <1>2, <1>3, Zenon

\* The free blocks after block k are one at most.
LEMMA LastIsMax ==
    ASSUME NEW h, Ordered(h), NEW k \in DOMAIN h, Parted(h, k)
    PROVE  Max({ j \in k .. Len(h) : \A m \in k + 1 .. j : h[m].free }) = Last(h, k)
<1> DEFINE S == { j \in k .. Len(h) : \A m \in k + 1 .. j : h[m].free }
<1>1. Len(h) \in Nat /\ k \in 1 .. Len(h) /\ k \in Int
  BY OrderedFacts
<1>2. CASE k < Len(h) /\ h[k + 1].free
  <2>1. Last(h, k) = k + 1
    BY <1>2, Zenon DEF Last
  <2>2. k + 1 \in S
    <3>1. \A m \in k + 1 .. k + 1 : m = k + 1
      BY <1>1
    <3> QED
      BY <1>1, <1>2, <3>1
  <2>3. ASSUME NEW y \in S PROVE k + 1 >= y
    <3>1. SUFFICES ASSUME y > k + 1 PROVE FALSE
      BY <1>1
    <3>2. k + 2 \in k + 1 .. y /\ k + 1 \in 1 .. Len(h) - 1 /\ k + 1 + 1 = k + 2
          /\ k \notin {k + 1, k + 1 + 1}
      BY <1>1, <3>1
    <3>3. h[k + 2].free
      BY <3>2, Zenon
    <3> QED
      BY <1>2, <3>2, <3>3, Zenon DEF Parted
  <2>4. S \subseteq Int
    OBVIOUS
  <2> HIDE DEF S
  <2>5. Max(S) = k + 1
    BY <2>2, <2>3, <2>4, Greatest, Zenon
  <2> QED
    BY <2>1, <2>5, Zenon DEF S
<1>3. CASE ~(k < Len(h) /\ h[k + 1].free)
  <2>1. Last(h, k) = k
    BY <1>3, Zenon DEF Last
  <2>2. k \in S
    BY <1>1
  <2>3. ASSUME NEW y \in S PROVE k >= y
    <3>1. SUFFICES ASSUME y > k PROVE FALSE
      BY <1>1
    <3>2. k + 1 \in k + 1 .. y /\ k < Len(h)
      BY <1>1, <3>1
    <3>3. h[k + 1].free
      BY <3>2, Zenon
    <3> QED
      BY <1>3, <3>2, <3>3, Zenon
  <2>4. S \subseteq Int
    OBVIOUS
  <2> HIDE DEF S
  <2>5. Max(S) = k
    BY <1>1, <2>2, <2>3, <2>4, Greatest, Zenon
  <2> QED
    BY <2>1, <2>5, Zenon DEF S
<1> QED
  BY <1>2, <1>3, Zenon

\* The blocks that val_coalesce joins.
LEMMA RunFacts ==
    ASSUME NEW h, Ordered(h), NEW k \in DOMAIN h, Parted(h, k)
    PROVE  /\ Run(h, k) = First(h, k) .. Last(h, k)
           /\ First(h, k) \in DOMAIN h /\ Last(h, k) \in First(h, k) .. Len(h)
           /\ k \in First(h, k) .. Last(h, k)
           /\ First(h, k) \in {k - 1, k} /\ Last(h, k) \in {k, k + 1}
           /\ Min(Run(h, k)) = First(h, k) /\ Max(Run(h, k)) = Last(h, k)
<1>1. Len(h) \in Nat /\ k \in 1 .. Len(h) /\ k \in Int /\ DOMAIN h = 1 .. Len(h)
  BY OrderedFacts
<1>2. Run(h, k) = First(h, k) .. Last(h, k)
  BY FirstIsMin, LastIsMax, Zenon DEF Run
<1>3. First(h, k) = k \/ (First(h, k) = k - 1 /\ k > 1)
  BY Zenon DEF First
<1>4. Last(h, k) = k \/ (Last(h, k) = k + 1 /\ k < Len(h))
  BY Zenon DEF Last
<1>5. /\ First(h, k) \in DOMAIN h /\ Last(h, k) \in First(h, k) .. Len(h)
      /\ k \in First(h, k) .. Last(h, k)
      /\ First(h, k) \in {k - 1, k} /\ Last(h, k) \in {k, k + 1}
  BY <1>1, <1>3, <1>4
<1>6. Min(First(h, k) .. Last(h, k)) = First(h, k)
  <2>1. PICK a, b : a = First(h, k) /\ b = Last(h, k)
    BY Zenon
  <2>2. a \in Int /\ b \in Int /\ a <= b
    BY <1>1, <1>5, <2>1
  <2>3. a .. b \subseteq Int /\ a \in a .. b /\ \A y \in a .. b : a <= y
    BY <2>2
  <2>4. Min(a .. b) = a
    BY <2>3, Least, Zenon
  <2> QED
    BY <2>1, <2>4, Zenon
<1>7. Max(First(h, k) .. Last(h, k)) = Last(h, k)
  <2>1. PICK a, b : a = First(h, k) /\ b = Last(h, k)
    BY Zenon
  <2>2. a \in Int /\ b \in Int /\ a <= b
    BY <1>1, <1>5, <2>1
  <2>3. a .. b \subseteq Int /\ b \in a .. b /\ \A y \in a .. b : b >= y
    BY <2>2
  <2>4. Max(a .. b) = b
    BY <2>3, Greatest, Zenon
  <2> QED
    BY <2>1, <2>4, Zenon
<1> QED
  BY <1>2, <1>5, <1>6, <1>7, Zenon

\* The sizes val_coalesce adds up, for up to three blocks.
LEMMA JoinedSizes ==
    ASSUME NEW h, NEW lo \in Int, NEW hi \in {lo, lo + 1, lo + 2}
    PROVE  /\ hi = lo => JoinedSize(h, lo, hi) = h[lo].size
           /\ hi = lo + 1 => JoinedSize(h, lo, hi) = h[lo].size + BlockSize + h[lo + 1].size
           /\ hi = lo + 2 => JoinedSize(h, lo, hi)
                               = h[lo].size + BlockSize + h[lo + 1].size
                                 + BlockSize + h[lo + 2].size
<1> DEFINE F(f) == f = [j \in lo .. hi |-> IF j = lo THEN h[lo].size
                                           ELSE f[j - 1] + BlockSize + h[j].size]
           f == CHOOSE f : F(f)
           w == [j \in lo .. hi |->
                   IF j = lo THEN h[lo].size
                   ELSE IF j = lo + 1 THEN h[lo].size + BlockSize + h[lo + 1].size
                   ELSE h[lo].size + BlockSize + h[lo + 1].size + BlockSize + h[lo + 2].size]
<1>1. JoinedSize(h, lo, hi) = f[hi]
  BY Zenon DEF JoinedSize
<1>2. F(w)
  <2>1. ASSUME NEW j \in lo .. hi
        PROVE  w[j] = IF j = lo THEN h[lo].size ELSE w[j - 1] + BlockSize + h[j].size
    <3>1. j = lo \/ j = lo + 1 \/ j = lo + 2
      OBVIOUS
    <3>2. CASE j = lo
      BY <3>2, Zenon
    <3>3. CASE j = lo + 1
      <4>1. j # lo /\ j - 1 = lo /\ lo \in lo .. hi
        BY <3>3
      <4> QED
        BY <3>3, <4>1, Zenon
    <3>4. CASE j = lo + 2
      <4>1. j # lo /\ j # lo + 1 /\ j - 1 = lo + 1 /\ lo + 1 # lo /\ lo + 1 \in lo .. hi
        BY <3>4
      <4> QED
        BY <3>4, <4>1, Zenon
    <3> QED
      BY <3>1, <3>2, <3>3, <3>4, Zenon
  <2>2. w = [j \in lo .. hi |-> w[j]]
    BY Zenon
  <2> HIDE DEF w
  <2> QED
    BY <2>1, <2>2, Zenon
<1> HIDE DEF w
<1>3. F(f)
  <2> HIDE DEF F
  <2> QED
    BY <1>2, Zenon
<1> HIDE DEF f
<1>4. ASSUME NEW j \in lo .. hi
      PROVE  f[j] = IF j = lo THEN h[lo].size ELSE f[j - 1] + BlockSize + h[j].size
  BY <1>3, Zenon
<1> HIDE DEF F
<1>5. CASE hi = lo
  <2>1. f[lo] = h[lo].size
    BY <1>4, <1>5
  <2> QED
    BY <1>1, <1>5, <2>1
<1>6. CASE hi = lo + 1
  <2>1. lo \in lo .. hi /\ lo + 1 \in lo .. hi /\ lo + 1 # lo /\ (lo + 1) - 1 = lo
    BY <1>6
  <2>2. f[lo] = h[lo].size /\ f[lo + 1] = f[lo] + BlockSize + h[lo + 1].size
    BY <1>4, <2>1, Zenon
  <2> QED
    BY <1>1, <1>6, <2>2
<1>7. CASE hi = lo + 2
  <2>1. /\ lo \in lo .. hi /\ lo + 1 \in lo .. hi /\ lo + 1 # lo /\ (lo + 1) - 1 = lo
        /\ lo + 2 \in lo .. hi /\ lo + 2 # lo /\ (lo + 2) - 1 = lo + 1
    BY <1>7
  <2>2. /\ f[lo] = h[lo].size /\ f[lo + 1] = f[lo] + BlockSize + h[lo + 1].size
        /\ f[lo + 2] = f[lo + 1] + BlockSize + h[lo + 2].size
    BY <1>4, <2>1, Zenon
  <2> QED
    BY <1>1, <1>7, <2>2, Zenon
<1> QED
  BY <1>5, <1>6, <1>7, Zenon

\* The block val_coalesce leaves.
Joined(h, k) ==
    [addr |-> h[First(h, k)].addr, size |-> JoinedSize(h, First(h, k), Last(h, k)),
     free |-> h[First(h, k)].free]

\* It holds what it is made of, and ends with the last of it.
LEMMA JoinBounds ==
    ASSUME NEW h, Ordered(h), NEW k \in DOMAIN h, Parted(h, k), NEW lo, lo = First(h, k),
           NEW hi, hi = Last(h, k), NEW s, s = JoinedSize(h, lo, hi)
    PROVE  /\ s \in Nat /\ h[lo].addr + BlockSize + s <= h[hi].addr + BlockSize + h[hi].size
           /\ h[k].size <= s
           /\ \A j \in {k - 1, k + 1} \cap (lo .. hi) : h[k].size + BlockSize + h[j].size <= s
<1>1. /\ lo \in DOMAIN h /\ hi \in DOMAIN h /\ k \in Int /\ k \in DOMAIN h
      /\ lo \in {k - 1, k} /\ hi \in {k, k + 1}
  BY RunFacts, OrderedFacts
<1>2. BlockSize \in Nat
  BY HeapAssumption, Zenon
<1>3. \A i \in DOMAIN h : h[i].addr \in Nat /\ h[i].size \in Nat
  BY OrderedFacts, Zenon
<1>4. \A i, j \in DOMAIN h : i < j => h[i].addr + BlockSize + h[i].size <= h[j].addr
  BY OrderedFacts, Zenon
<1>5. CASE lo = k /\ hi = k
  <2>1. s = h[k].size
    BY <1>1, <1>5, JoinedSizes
  <2>2. \A j \in {k - 1, k + 1} \cap (lo .. hi) : FALSE
    BY <1>1, <1>5
  <2> QED
    BY <1>1, <1>2, <1>3, <1>5, <2>1, <2>2
<1>6. CASE lo = k /\ hi = k + 1
  <2>1. s = h[k].size + BlockSize + h[k + 1].size
    BY <1>1, <1>6, JoinedSizes
  <2>2. \A j \in {k - 1, k + 1} \cap (lo .. hi) : j = k + 1
    BY <1>1, <1>6
  <2>3. /\ h[k].addr + BlockSize + h[k].size <= h[k + 1].addr
        /\ h[k].addr \in Nat /\ h[k].size \in Nat /\ h[k + 1].addr \in Nat /\ h[k + 1].size \in Nat
    BY <1>1, <1>3, <1>4, <1>6
  <2>4. /\ s \in Nat /\ h[k].addr + BlockSize + s <= h[k + 1].addr + BlockSize + h[k + 1].size
        /\ h[k].size <= s /\ h[k].size + BlockSize + h[k + 1].size <= s
    BY <1>2, <2>1, <2>3
  <2> QED
    BY <1>6, <2>2, <2>4, Zenon
<1>7. CASE lo = k - 1 /\ hi = k
  <2>1. s = h[k - 1].size + BlockSize + h[k].size
    <3>1. hi = lo + 1 /\ lo + 1 = k /\ lo \in Int
      BY <1>1, <1>7
    <3>2. s = h[lo].size + BlockSize + h[lo + 1].size
      BY <3>1, JoinedSizes
    <3> QED
      BY <1>7, <3>1, <3>2, Zenon
  <2>2. \A j \in {k - 1, k + 1} \cap (lo .. hi) : j = k - 1
    BY <1>1, <1>7
  <2>3. /\ h[k - 1].addr + BlockSize + h[k - 1].size <= h[k].addr
        /\ h[k].addr \in Nat /\ h[k].size \in Nat /\ h[k - 1].addr \in Nat /\ h[k - 1].size \in Nat
    BY <1>1, <1>3, <1>4, <1>7
  <2>4. /\ s \in Nat /\ h[k - 1].addr + BlockSize + s <= h[k].addr + BlockSize + h[k].size
        /\ h[k].size <= s /\ h[k].size + BlockSize + h[k - 1].size <= s
    BY <1>2, <2>1, <2>3
  <2> QED
    BY <1>7, <2>2, <2>4, Zenon
<1>8. CASE lo = k - 1 /\ hi = k + 1
  <2>1. s = h[k - 1].size + BlockSize + h[k].size + BlockSize + h[k + 1].size
    <3>1. hi = lo + 2 /\ lo + 1 = k /\ lo + 2 = k + 1 /\ lo \in Int
      BY <1>1, <1>8
    <3>2. s = h[lo].size + BlockSize + h[lo + 1].size + BlockSize + h[lo + 2].size
      BY <3>1, JoinedSizes
    <3> QED
      BY <1>8, <3>1, <3>2, Zenon
  <2>2. \A j \in {k - 1, k + 1} \cap (lo .. hi) : j = k - 1 \/ j = k + 1
    BY <1>1, <1>8, Zenon
  <2>3. /\ h[k - 1].addr + BlockSize + h[k - 1].size <= h[k].addr
        /\ h[k].addr + BlockSize + h[k].size <= h[k + 1].addr
        /\ h[k].addr \in Nat /\ h[k].size \in Nat /\ h[k - 1].addr \in Nat /\ h[k - 1].size \in Nat
        /\ h[k + 1].addr \in Nat /\ h[k + 1].size \in Nat
    BY <1>1, <1>3, <1>4, <1>8
  <2>4. /\ s \in Nat
        /\ h[k - 1].addr + BlockSize + s <= h[k + 1].addr + BlockSize + h[k + 1].size
        /\ h[k].size <= s /\ h[k].size + BlockSize + h[k - 1].size <= s
        /\ h[k].size + BlockSize + h[k + 1].size <= s
    BY <1>2, <2>1, <2>3
  <2> QED
    BY <1>8, <2>2, <2>4, Zenon
<1> QED
  BY <1>1, <1>5, <1>6, <1>7, <1>8, Zenon

\* val_coalesce puts the joined block in the place of what it joins.
LEMMA CoalesceSpliced ==
    ASSUME NEW h, Ordered(h), NEW k \in DOMAIN h, Parted(h, k)
    PROVE  /\ Joined(h, k) \in Block
           /\ Spliced(h, First(h, k), Last(h, k), <<Joined(h, k)>>, Coalesce(h, k))
           /\ End(Joined(h, k)) <= End(h[Last(h, k)])
<1>1. PICK lo, hi : lo = First(h, k) /\ hi = Last(h, k)
  BY Zenon
<1>2. /\ lo \in DOMAIN h /\ hi \in lo .. Len(h) /\ hi \in DOMAIN h
      /\ h \in Seq(Block) /\ lo \in 1 .. Len(h)
      /\ Min(Run(h, k)) = lo /\ Max(Run(h, k)) = hi
  BY <1>1, RunFacts, OrderedFacts
<1>3. /\ JoinedSize(h, lo, hi) \in Nat
      /\ h[lo].addr + BlockSize + JoinedSize(h, lo, hi) <= h[hi].addr + BlockSize + h[hi].size
  BY <1>1, JoinBounds, Zenon
<1>4. /\ h[lo] \in Block /\ h[lo].addr \in Nat /\ h[lo].free \in BOOLEAN
      /\ h[hi].addr + BlockSize + h[hi].size <= HeapSize
      /\ h[hi].addr \in Nat /\ h[hi].size \in Nat
  BY <1>2, OrderedFacts, Zenon
<1>5. h[lo].addr \in Units /\ JoinedSize(h, lo, hi) \in Units
  <2>1. h[lo].addr + BlockSize + JoinedSize(h, lo, hi) <= HeapSize
    BY <1>3, <1>4, HeapAssumption
  <2> QED
    BY <1>3, <1>4, <2>1, Room
<1>6. Joined(h, k) = [h[lo] EXCEPT !.size = JoinedSize(h, lo, hi)]
  BY <1>1, <1>4 DEF Joined, Block
<1>7. Joined(h, k) \in Block
  BY <1>1, <1>4, <1>5, Zenon DEF Joined, Block
<1>8. End(Joined(h, k)) <= End(h[hi])
  BY <1>1, <1>3, Zenon DEF Joined, End
<1>9. Coalesce(h, k)
        = SubSeq(h, 1, lo - 1) \o <<Joined(h, k)>> \o SubSeq(h, hi + 1, Len(h))
  BY <1>2, <1>6, Zenon DEF Coalesce
<1>10. PICK m : m = <<Joined(h, k)>>
  BY Zenon
<1>11. m \in Seq(Block)
  BY <1>7, <1>10
<1>12. Spliced(h, lo, hi, m, SubSeq(h, 1, lo - 1) \o m \o SubSeq(h, hi + 1, Len(h)))
  BY <1>2, <1>11, Replaced, Zenon
<1> QED
  BY <1>1, <1>7, <1>8, <1>9, <1>10, <1>12, Zenon

\* After it no free block has a free neighbour, and the list has lost the
\* headers that were marked invalid.
LEMMA CoalescedList ==
    ASSUME NEW h, Ordered(h), NEW k \in DOMAIN h, Parted(h, k)
    PROVE  /\ Ordered(Coalesce(h, k)) /\ Parted(Coalesce(h, k), 0)
           /\ Multiples(h) => Multiples(Coalesce(h, k))
           /\ Headers(Coalesce(h, k)) = Headers(h) \ Invalidated(h, k)
           /\ Used(Coalesce(h, k)) = (Used(h) \ { h[i] : i \in First(h, k) .. Last(h, k) })
                                        \cup Used(<<Joined(h, k)>>)
<1>1. PICK lo, hi, m, g : /\ lo = First(h, k) /\ hi = Last(h, k) /\ m = <<Joined(h, k)>>
                          /\ g = Coalesce(h, k)
  BY Zenon
<1>2. /\ lo \in DOMAIN h /\ hi \in lo .. Len(h) /\ k \in lo .. hi
      /\ Min(Run(h, k)) = lo /\ Run(h, k) = lo .. hi
      /\ lo \in {k - 1, k} /\ hi \in {k, k + 1}
  BY <1>1, RunFacts, Zenon
<1>3. Joined(h, k) \in Block /\ Spliced(h, lo, hi, m, g) /\ End(Joined(h, k)) <= End(h[hi])
  BY <1>1, CoalesceSpliced, Zenon
<1>4. m \in Seq(Block) /\ Len(m) = 1 /\ DOMAIN m = {1} /\ m[1] = Joined(h, k)
  BY <1>1, <1>3
<1>5. Joined(h, k).addr = h[lo].addr /\ Joined(h, k).free = h[lo].free
  BY <1>1, Zenon DEF Joined
<1>6. /\ h[lo].addr \in Nat /\ Len(h) \in Nat /\ DOMAIN h = 1 .. Len(h) /\ k \in Int
      /\ hi \in DOMAIN h
      /\ h[hi].addr + BlockSize + h[hi].size <= HeapSize
      /\ h[hi].addr \in Nat /\ h[hi].size \in Nat
      /\ lo .. hi \subseteq DOMAIN h
  BY <1>2, OrderedFacts
<1>7. Ordered(m)
  <2>1. Joined(h, k).addr \in Nat /\ Joined(h, k).size \in Nat
    BY <1>3, HeapAssumption DEF Block, Units
  <2>2. End(Joined(h, k)) <= HeapSize
    <3>1. End(h[hi]) \in Int /\ End(h[hi]) <= HeapSize
      BY <1>6, HeapAssumption DEF End
    <3>2. End(Joined(h, k)) \in Int
      BY <2>1, HeapAssumption DEF End
    <3> QED
      BY <1>3, <3>1, <3>2, HeapAssumption
  <2> QED
    BY <1>4, <2>2 DEF Ordered
<1>8. Ordered(g)
  <2>1. \A j \in DOMAIN m : h[lo].addr <= m[j].addr /\ End(m[j]) <= End(h[hi])
    BY <1>3, <1>4, <1>5, <1>6
  <2> QED
    BY <1>2, <1>3, <1>7, <2>1, SplicedOrdered, Zenon
<1>9. Parted(g, 0)
  <2>1. lo > 1 => ~h[lo - 1].free
    <3>1. CASE lo = k
      BY <1>1, <1>6, <3>1 DEF First
    <3>2. CASE lo = k - 1
      <4>1. h[k - 1].free
        BY <1>1, <1>6, <3>2 DEF First
      <4>2. lo > 1 => /\ lo - 1 \in 1 .. Len(h) - 1 /\ lo - 1 + 1 = k - 1
                      /\ k \notin {lo - 1, lo - 1 + 1}
        BY <1>2, <1>6, <3>2, SMTT(20)
      <4> QED
        BY <4>1, <4>2, Zenon DEF Parted
    <3> QED
      BY <1>2, <3>1, <3>2, Zenon
  <2>2. hi < Len(h) => ~h[hi + 1].free
    <3>1. CASE hi = k
      BY <1>1, <1>6, <3>1 DEF Last
    <3>2. CASE hi = k + 1
      <4>1. h[k + 1].free
        BY <1>1, <1>6, <3>2 DEF Last
      <4>2. hi < Len(h) => hi \in 1 .. Len(h) - 1 /\ hi = k + 1 /\ k \notin {hi, hi + 1}
        BY <1>2, <1>6, <3>2
      <4> QED
        BY <4>1, <4>2, Zenon DEF Parted
    <3> QED
      BY <1>2, <3>1, <3>2, Zenon
  <2>3. \A j \in 1 .. Len(m) - 1 : FALSE
    BY <1>4
  <2>4. Seams(h, lo, hi, m, 0)
    BY <2>1, <2>2, <2>3, Zenon DEF Seams
  <2>5. Len(m) > 0
    BY <1>4
  <2> QED
    BY <1>2, <1>3, <1>4, <2>4, <2>5, SplicedParted, Zenon
<1>10. Multiples(h) => Multiples(g)
  <2>1. SUFFICES ASSUME Multiples(h) PROVE Multiples(g)
    BY Zenon
  <2>2. Multiples(m)
    BY <1>2, <1>4, <1>5, <2>1, Zenon DEF Multiples
  <2> QED
    BY <1>2, <1>3, <1>4, <2>1, <2>2, SplicedMultiples, Zenon
<1>11. /\ Used(g) = (Used(h) \ { h[i] : i \in lo .. hi }) \cup Used(m)
       /\ Headers(g) = (Headers(h) \ { h[i].addr : i \in lo .. hi }) \cup Headers(m)
  <2>1. lo \in DOMAIN h /\ hi \in lo .. Len(h) /\ m \in Seq(Block) /\ Spliced(h, lo, hi, m, g)
    BY <1>2, <1>3, <1>4, Zenon
  <2> QED
    BY <2>1, SplicedSets
<1>12. Headers(m) = {h[lo].addr}
  BY <1>4, <1>5, Zenon DEF Headers
<1>13. Headers(g) = Headers(h) \ Invalidated(h, k)
  <2>1. Invalidated(h, k) = { h[i].addr : i \in (lo .. hi) \ {lo} }
    BY <1>2, Zenon DEF Invalidated
  <2>2. \A i, j \in DOMAIN h : i # j => h[i].addr # h[j].addr
    BY OrderedFacts, Zenon
  <2>3. \A i \in (lo .. hi) \ {lo} : h[i].addr # h[lo].addr
    BY <1>2, <1>6, <2>2, Zenon
  <2>4. h[lo].addr \in Headers(h)
    BY <1>2, Zenon DEF Headers
  <2>5. lo \in lo .. hi
    BY <1>2, <1>6
  <2> QED
    BY <1>11, <1>12, <2>1, <2>3, <2>4, <2>5, Zenon
<1>14. Used(Coalesce(h, k)) = (Used(h) \ { h[i] : i \in First(h, k) .. Last(h, k) })
                                 \cup Used(<<Joined(h, k)>>)
  BY <1>1, <1>11, Zenon
<1> QED
  BY <1>1, <1>8, <1>9, <1>10, <1>13, <1>14, Zenon

-----------------------------------------------------------------------------
(***************************************************************************)
(* val_free.                                                               *)
(***************************************************************************)
\* Joining free blocks changes nothing of what is in use.
LEMMA JoinFree ==
    ASSUME NEW h, Ordered(h), NEW k \in DOMAIN h, Parted(h, k), h[k].free
    PROVE  Used(Coalesce(h, k)) = Used(h) /\ Joined(h, k).free
<1>1. /\ First(h, k) \in {k - 1, k} /\ Last(h, k) \in {k, k + 1} /\ k \in Int
      /\ First(h, k) \in DOMAIN h
  BY RunFacts, OrderedFacts
<1>2. First(h, k) = k - 1 => h[k - 1].free
  BY <1>1, Zenon DEF First
<1>3. Last(h, k) = k + 1 => h[k + 1].free
  BY <1>1, Zenon DEF Last
<1>4. \A i \in First(h, k) .. Last(h, k) : h[i].free
  <2>1. \A i \in First(h, k) .. Last(h, k) :
           i = k \/ (i = k - 1 /\ First(h, k) = k - 1) \/ (i = k + 1 /\ Last(h, k) = k + 1)
    BY <1>1
  <2> QED
    BY <1>2, <1>3, <2>1, Zenon
<1>5. h[First(h, k)].free
  BY <1>1, <1>2, Zenon
<1>6. Joined(h, k).free
  BY <1>5, Zenon DEF Joined
<1>7. Used(<<Joined(h, k)>>) = {}
  <2>1. PICK m : m = <<Joined(h, k)>>
    BY Zenon
  <2>2. DOMAIN m = {1} /\ m[1] = Joined(h, k)
    BY <2>1
  <2>3. Used(m) = {}
    BY <1>6, <2>2, Zenon DEF Used
  <2> QED
    BY <2>1, <2>3, Zenon
<1>8. \A b \in Used(h) : ~b.free
  BY Zenon DEF Used
<1>9. Used(h) \ { h[i] : i \in First(h, k) .. Last(h, k) } = Used(h)
  BY <1>4, <1>8, Zenon
<1> QED
  BY <1>6, <1>7, <1>9, CoalescedList, SMTT(20)

\* A client gives up its block.
LEMMA OwnerGone ==
    ASSUME NEW U, NEW l, Owners(U, l), NEW c \in l, NEW b \in U, c.ptr = b.addr + BlockSize,
           \A u \in U : u.addr \in Nat, \A u \in U : u.addr = b.addr => u = b
    PROVE  Owners(U \ {b}, l \ {c})
<1>1. \A d \in l \ {c} :
         \E u \in U \ {b} : d.ptr = u.addr + BlockSize /\ d.size <= u.size
  <2> SUFFICES ASSUME NEW d \in l \ {c}
               PROVE  \E u \in U \ {b} : d.ptr = u.addr + BlockSize /\ d.size <= u.size
    BY Zenon
  <2>1. PICK u \in U : d.ptr = u.addr + BlockSize /\ d.size <= u.size
    BY Zenon DEF Owners
  <2>2. d.ptr # c.ptr
    BY Zenon DEF Owners
  <2> QED
    BY <2>1, <2>2, Zenon
<1>2. \A u \in U \ {b} : \E d \in l \ {c} : d.ptr = u.addr + BlockSize
  <2> SUFFICES ASSUME NEW u \in U \ {b}
               PROVE  \E d \in l \ {c} : d.ptr = u.addr + BlockSize
    BY Zenon
  <2>1. PICK d \in l : d.ptr = u.addr + BlockSize
    BY Zenon DEF Owners
  <2>2. u.addr # b.addr /\ u.addr \in Nat /\ b.addr \in Nat
    BY Zenon
  <2>3. u.addr + BlockSize # b.addr + BlockSize
    BY <2>2, HeapAssumption
  <2> QED
    BY <2>1, <2>3, Zenon
<1> QED
  BY <1>1, <1>2, Zenon DEF Owners

\* Block k marked free.
Freed(h, k) == [h EXCEPT ![k].free = TRUE]

\* What marking a block free does to the list: only its neighbours may have to be
\* joined with it.
LEMMA FreedFacts ==
    ASSUME NEW h, NEW l, State(h, l), NEW k \in DOMAIN h, ~h[k].free
    PROVE  /\ Ordered(Freed(h, k)) /\ Parted(Freed(h, k), k) /\ Multiples(Freed(h, k))
           /\ Len(Freed(h, k)) = Len(h) /\ k \in DOMAIN Freed(h, k) /\ Freed(h, k)[k].free
           /\ Used(Freed(h, k)) = Used(h) \ {h[k]} /\ Headers(Freed(h, k)) = Headers(h)
           /\ \A i \in DOMAIN h : i # k => Freed(h, k)[i] = h[i]
           /\ \A i \in DOMAIN h : /\ Freed(h, k)[i].addr = h[i].addr
                                  /\ Freed(h, k)[i].size = h[i].size
<1> DEFINE b == [addr |-> h[k].addr, size |-> h[k].size, free |-> TRUE]
           f == Freed(h, k)
<1>1. Ordered(h) /\ Parted(h, 0) /\ Multiples(h)
  BY Zenon DEF State
<1>2. /\ h \in Seq(Block) /\ k \in 1 .. Len(h) /\ Len(h) \in Nat /\ DOMAIN h = 1 .. Len(h)
      /\ h[k] \in Block /\ h[k].addr \in Nat /\ h[k].size \in Nat
      /\ h[k].addr + BlockSize + h[k].size <= HeapSize
  BY <1>1, OrderedFacts, Zenon
<1>3. b \in Block
  <2>1. h[k].addr \in Units /\ h[k].size \in Units
    BY <1>2, Room
  <2> QED
    BY <2>1, Zenon DEF Block
<1>4. [h[k] EXCEPT !.free = TRUE] = b
  BY <1>2, SetFree, Zenon
<1>5. b.addr = h[k].addr /\ b.size = h[k].size /\ b.free
  BY Zenon
<1> HIDE DEF b
<1>6. f = [h EXCEPT ![k] = b]
  BY <1>4, Zenon DEF Freed
<1>7. DOMAIN f = DOMAIN h /\ Len(f) = Len(h) /\ f \in Seq(Block)
  BY <1>2, <1>3, <1>6
<1>8. f[k] = b /\ \A i \in DOMAIN h : i # k => f[i] = h[i]
  BY <1>2, <1>6, Zenon
<1>9. Spliced(h, k, k, <<b>>, f)
  BY <1>1, <1>3, <1>6, OneForOne, Zenon
<1> HIDE DEF f
<1>10. \A i \in DOMAIN h : f[i].addr = h[i].addr /\ f[i].size = h[i].size
  BY <1>5, <1>8, Zenon
<1>11. PICK m : m = <<b>>
  BY Zenon
<1>12. m \in Seq(Block) /\ Len(m) = 1 /\ DOMAIN m = {1} /\ m[1] = b
  BY <1>3, <1>11
<1>13. Ordered(f)
  BY <1>1, <1>7, <1>10, Zenon DEF Ordered, End
<1>14. Parted(f, k)
  <2> SUFFICES ASSUME NEW i \in 1 .. Len(f) - 1, f[i].free, f[i + 1].free, k # i, k # i + 1
               PROVE  FALSE
    BY Zenon DEF Parted
  <2>1. i \in 1 .. Len(h) - 1 /\ i \in DOMAIN h /\ i + 1 \in DOMAIN h /\ 0 \notin {i, i + 1}
    BY <1>2, <1>7
  <2>2. h[i].free /\ h[i + 1].free
    BY <1>8, <2>1, Zenon
  <2> QED
    BY <1>1, <2>1, <2>2, Zenon DEF Parted
<1>15. Multiples(f)
  BY <1>1, <1>7, <1>10, Zenon DEF Multiples
<1>16. Used(f) = Used(h) \ {h[k]}
  <2>1. \A i \in DOMAIN h : i # k => h[i] # h[k]
    BY <1>1, OrderedFacts, Zenon
  <2>2. \A i \in DOMAIN f : ~f[i].free => i # k /\ i \in DOMAIN h /\ f[i] = h[i]
    BY <1>5, <1>7, <1>8, Zenon
  <2>3. \A i \in DOMAIN h : i # k => i \in DOMAIN f /\ f[i] = h[i]
    BY <1>7, <1>8, Zenon
  <2>4. \A u \in Used(f) : u \in Used(h) \ {h[k]}
    BY <2>1, <2>2, Zenon DEF Used
  <2>5. \A u \in Used(h) \ {h[k]} : u \in Used(f)
    BY <2>3, Zenon DEF Used
  <2> QED
    BY <2>4, <2>5, Zenon
<1>17. Headers(f) = Headers(h)
  BY <1>7, <1>10, Zenon DEF Headers
<1> QED
  BY <1>5, <1>7, <1>8, <1>10, <1>13, <1>14, <1>15, <1>16, <1>17, Zenon DEF f

\* val_free of the block of c.
LEMMA Released ==
    ASSUME NEW h, NEW l, State(h, l), NEW c \in l, NEW k \in DOMAIN h, ~h[k].free,
           c.ptr = h[k].addr + BlockSize
    PROVE  /\ State(Coalesce(Freed(h, k), k), l \ {c})
           /\ Headers(Coalesce(Freed(h, k), k)) = Headers(h) \ Invalidated(Freed(h, k), k)
<1>1. PICK f : f = Freed(h, k)
  BY Zenon
<1>2. /\ Ordered(f) /\ Parted(f, k) /\ Multiples(f) /\ k \in DOMAIN f /\ f[k].free
      /\ Used(f) = Used(h) \ {h[k]} /\ Headers(f) = Headers(h)
  BY <1>1, FreedFacts, Zenon
<1>3. /\ Ordered(Coalesce(f, k)) /\ Parted(Coalesce(f, k), 0) /\ Multiples(Coalesce(f, k))
      /\ Headers(Coalesce(f, k)) = Headers(f) \ Invalidated(f, k)
  BY <1>2, CoalescedList, Zenon
<1>4. Used(Coalesce(f, k)) = Used(h) \ {h[k]}
  BY <1>2, JoinFree, Zenon
<1>5. Ordered(h) /\ Owners(Used(h), l)
  BY Zenon DEF State
<1>6. h[k] \in Used(h) /\ \A u \in Used(h) : u.addr = h[k].addr => u = h[k]
  BY <1>5, OneBlock, Zenon
<1>7. \A u \in Used(h) : u.addr \in Nat
  BY <1>5, OrderedFacts, Zenon DEF Used
<1>8. Owners(Used(h) \ {h[k]}, l \ {c})
  BY <1>5, <1>6, <1>7, OwnerGone, Zenon
<1>9. State(Coalesce(f, k), l \ {c})
  BY <1>3, <1>4, <1>8, Zenon DEF State
<1> QED
  BY <1>1, <1>2, <1>3, <1>9, Zenon

-----------------------------------------------------------------------------
(***************************************************************************)
(* val_realloc.                                                            *)
(***************************************************************************)
\* The two parts of a block of s units at x that is cut after n.
LEMMA Halves ==
    ASSUME NEW x \in Nat, NEW s \in Nat, NEW n \in Nat, s >= n + BlockSize + 1,
           x + BlockSize + s <= HeapSize
    PROVE  /\ x <= x /\ x + BlockSize + n <= x + BlockSize + s
           /\ x <= x + BlockSize + n
           /\ x + BlockSize + n + BlockSize + (s - n - BlockSize) <= x + BlockSize + s
           /\ x + BlockSize + n <= HeapSize
           /\ x + BlockSize + n + BlockSize + (s - n - BlockSize) <= HeapSize
BY HeapAssumption

\* Two blocks in the place of one.
LEMMA SplicedTwo ==
    ASSUME NEW h \in Seq(Block), NEW k \in 1 .. Len(h), NEW m \in Seq(Block), Len(m) = 2,
           NEW f, Spliced(h, k, k, m, f)
    PROVE  /\ Len(f) = Len(h) + 1 /\ f[k] = m[1] /\ f[k + 1] = m[2]
           /\ k + 1 < Len(f) => f[k + 2] = h[k + 1]
<1>1. /\ Len(f) = k - 1 + 2 + Len(h) - k
      /\ \A i \in 1 .. 2 : f[k - 1 + i] = m[i]
      /\ \A i \in k + 2 .. Len(f) : f[i] = h[i - k - 2 + k + 1]
  BY Zenon DEF Spliced
<1>2. k \in Int /\ Len(h) \in Int
  OBVIOUS
<1>3. Len(f) = Len(h) + 1
  BY <1>1, <1>2
<1>4. f[k - 1 + 1] = m[1] /\ f[k - 1 + 2] = m[2]
  BY <1>1
<1>5. k - 1 + 1 = k /\ k - 1 + 2 = k + 1
  BY <1>2
<1>6. ASSUME k + 1 < Len(f) PROVE f[k + 2] = h[k + 1]
  <2>1. PICK i : i = k + 2
    BY Zenon
  <2>2. i \in k + 2 .. Len(f) /\ i - k - 2 + k + 1 = k + 1
    BY <1>2, <1>3, <1>6, <2>1, SMTT(20)
  <2> QED
    BY <1>1, <2>1, <2>2, Zenon
<1> QED
  BY <1>3, <1>4, <1>5, <1>6, Zenon

\* Cutting block k leaves no two free neighbours but at p.
Around(h, k, p) ==
    /\ h[k].free => p \in {k, k + 1}
    /\ k > 1 /\ h[k - 1].free /\ h[k].free => p \in {k - 1, k}
    /\ k < Len(h) /\ h[k + 1].free => p \in {k + 1, k + 2}

\* The list after val_split cut block k in two: what was in use is, and the
\* free neighbours are those around p.
LEMMA SplitParts ==
    ASSUME NEW h, Ordered(h), Multiples(h), NEW k \in DOMAIN h, Parted(h, k), NEW n \in Nat,
           h[k].size >= n + BlockSize + 1, Sized(n),
           NEW f, Spliced(h, k, k, <<Cut(h, k, n), Rest(h, k, n)>>, f), NEW p, Around(h, k, p)
    PROVE  /\ Ordered(f) /\ Multiples(f) /\ Parted(f, p) /\ Headers(h) \subseteq Headers(f)
           /\ Len(f) = Len(h) + 1 /\ f[k] = Cut(h, k, n) /\ f[k + 1] = Rest(h, k, n)
           /\ k + 1 < Len(f) => f[k + 2] = h[k + 1]
           /\ h[k].free => Used(f) = Used(h)
           /\ ~h[k].free => Used(f) = (Used(h) \ {h[k]}) \cup {f[k]}
<1>1. PICK a : a = Cut(h, k, n)
  BY Zenon
<1>2. PICK b : b = Rest(h, k, n)
  BY Zenon
<1>3. /\ h \in Seq(Block) /\ k \in 1 .. Len(h) /\ Len(h) \in Nat /\ DOMAIN h = 1 .. Len(h)
      /\ h[k] \in Block /\ h[k].addr \in Nat /\ h[k].size \in Nat
      /\ h[k].addr + BlockSize + h[k].size <= HeapSize /\ k .. k = {k} /\ k \in k .. Len(h)
  BY OrderedFacts
<1>4. a \in Block /\ b \in Block /\ Spliced(h, k, k, <<a, b>>, f)
  BY <1>1, <1>2, SplitSpliced, Zenon
<1>5. PICK m : m = <<a, b>>
  BY Zenon
<1>6. /\ m \in Seq(Block) /\ Len(m) = 2 /\ DOMAIN m = {1, 2} /\ m[1] = a /\ m[2] = b
  BY <1>4, <1>5
<1>7. Spliced(h, k, k, m, f)
  BY <1>4, <1>5, Zenon
<1>8. /\ a.addr = h[k].addr /\ a.size = n /\ (a.free <=> h[k].free)
      /\ b.addr = h[k].addr + BlockSize + n /\ b.size = h[k].size - n - BlockSize /\ b.free
  BY <1>1, <1>2, Zenon DEF Cut, Rest
<1>9. /\ h[k].addr <= a.addr /\ End(a) <= End(h[k]) /\ h[k].addr <= b.addr
      /\ End(b) <= End(h[k]) /\ End(a) <= b.addr
      /\ End(a) <= HeapSize /\ End(b) <= HeapSize
  <2>1. PICK x, s : x = h[k].addr /\ s = h[k].size
    BY Zenon
  <2>2. /\ x \in Nat /\ s \in Nat /\ s >= n + BlockSize + 1
        /\ x + BlockSize + s <= HeapSize
    BY <1>3, <2>1, Zenon
  <2>3. /\ End(a) = x + BlockSize + n /\ End(h[k]) = x + BlockSize + s
        /\ End(b) = x + BlockSize + n + BlockSize + (s - n - BlockSize)
        /\ a.addr = x /\ b.addr = x + BlockSize + n
    BY <1>8, <2>1, Zenon DEF End
  <2>4. x + BlockSize + n <= x + BlockSize + n
    BY <2>2, HeapAssumption
  <2> QED
    BY <2>1, <2>2, <2>3, <2>4, Halves
<1>10. \A i \in DOMAIN m : h[k].addr <= m[i].addr /\ End(m[i]) <= End(h[k])
  BY <1>6, <1>9, Zenon
<1>11. Ordered(m)
  <2>1. \A i \in DOMAIN m : End(m[i]) <= HeapSize
    BY <1>6, <1>9, Zenon
  <2>2. \A i, j \in DOMAIN m : i < j => End(m[i]) <= m[j].addr
    BY <1>6, <1>9
  <2> QED
    BY <1>6, <2>1, <2>2, Zenon DEF Ordered
<1>12. Multiples(m)
  <2>1. AlignedRequests # {} => Multiple(a.addr) /\ Multiple(b.addr)
    BY <1>3, <1>8, MultipleSum, Zenon DEF Multiples, Sized
  <2> QED
    BY <1>6, <2>1, Zenon DEF Multiples
<1>13. Ordered(f)
  BY <1>3, <1>7, <1>10, <1>11, SplicedOrdered, Zenon
<1>14. Multiples(f)
  BY <1>3, <1>6, <1>7, <1>12, SplicedMultiples, Zenon
<1>15. Parted(f, p)
  <2>1. Seams(h, k, k, m, p)
    BY <1>3, <1>6, <1>8, SMTT(20) DEF Seams, Around
  <2>2. Len(m) > 0 /\ k \in k .. k
    BY <1>3, <1>6
  <2> QED
    BY <1>3, <1>6, <1>7, <2>1, <2>2, SplicedParted, Zenon
<1>16. /\ Len(f) = Len(h) + 1 /\ f[k] = a /\ f[k + 1] = b
       /\ k + 1 < Len(f) => f[k + 2] = h[k + 1]
  <2> h \in Seq(Block) /\ k \in 1 .. Len(h) /\ m \in Seq(Block) /\ Len(m) = 2
    BY <1>3, <1>6, Zenon
  <2>1. /\ Len(f) = Len(h) + 1 /\ f[k] = m[1] /\ f[k + 1] = m[2]
        /\ k + 1 < Len(f) => f[k + 2] = h[k + 1]
    BY <1>7, SplicedTwo
  <2>2. m[1] = a /\ m[2] = b
    BY <1>6, Zenon
  <2> QED
    BY <2>1, <2>2, Zenon
<1>17. { h[i] : i \in k .. k } = {h[k]} /\ { h[i].addr : i \in k .. k } = {h[k].addr}
  BY <1>3, Zenon
<1>18. /\ Used(f) = (Used(h) \ {h[k]}) \cup Used(m)
       /\ Headers(f) = (Headers(h) \ {h[k].addr}) \cup Headers(m)
  <2> m \in Seq(Block) /\ k \in k .. Len(h)
    BY <1>3, <1>6, Zenon
  <2>1. /\ Used(f) = (Used(h) \ { h[i] : i \in k .. k }) \cup Used(m)
        /\ Headers(f) = (Headers(h) \ { h[i].addr : i \in k .. k }) \cup Headers(m)
    BY <1>7, SplicedSets
  <2> QED
    BY <1>17, <2>1, Zenon
<1>19. Headers(h) \subseteq Headers(f)
  <2>1. a.addr \in Headers(m)
    BY <1>6, Zenon DEF Headers
  <2> QED
    BY <1>8, <1>18, <2>1, Zenon
<1>20. h[k].free => Used(f) = Used(h)
  <2>1. h[k].free => Used(m) = {}
    BY <1>6, <1>8, Zenon DEF Used
  <2>2. h[k].free => h[k] \notin Used(h)
    BY Zenon DEF Used
  <2> QED
    BY <1>18, <2>1, <2>2, Zenon
<1>21. ~h[k].free => Used(f) = (Used(h) \ {h[k]}) \cup {f[k]}
  <2>1. ~h[k].free => Used(m) = {a}
    BY <1>6, <1>8, Zenon DEF Used
  <2> QED
    BY <1>16, <1>18, <2>1, Zenon
<1> QED
  BY <1>1, <1>2, <1>13, <1>14, <1>15, <1>16, <1>19, <1>20, <1>21, SMTT(20)

\* The list after val_split took the rest of the used block k off.
LEMMA SplitUsed ==
    ASSUME NEW h, Ordered(h), Parted(h, 0), Multiples(h), NEW k \in DOMAIN h, ~h[k].free,
           NEW n \in Nat, h[k].size >= n + BlockSize + 1, Sized(n),
           NEW f, Spliced(h, k, k, <<Cut(h, k, n), Rest(h, k, n)>>, f)
    PROVE  /\ Ordered(f) /\ Parted(f, k + 1) /\ Multiples(f) /\ Headers(h) \subseteq Headers(f)
           /\ k \in DOMAIN f /\ f[k].addr = h[k].addr /\ n <= f[k].size /\ ~f[k].free
           /\ Used(f) = (Used(h) \ {h[k]}) \cup {f[k]}
<1>1. Parted(h, k) /\ Around(h, k, k + 1)
  BY NoFreeNeighbours, Zenon DEF Around
<1>2. /\ Ordered(f) /\ Multiples(f) /\ Parted(f, k + 1) /\ Headers(h) \subseteq Headers(f)
      /\ Len(f) = Len(h) + 1 /\ f[k] = Cut(h, k, n)
      /\ Used(f) = (Used(h) \ {h[k]}) \cup {f[k]}
  BY <1>1, SplitParts, SMTT(20)
<1>3. k \in DOMAIN f
  <2>1. k \in 1 .. Len(h) /\ Len(h) \in Nat /\ DOMAIN f = 1 .. Len(f)
    BY <1>2, OrderedFacts, Zenon
  <2> QED
    BY <1>2, <2>1
<1>4. f[k].addr = h[k].addr /\ f[k].size = n /\ ~f[k].free
  BY <1>2 DEF Cut
<1> QED
  BY <1>2, <1>3, <1>4

\* The same when the rest may be too small for a block.
LEMMA SplitOff ==
    ASSUME NEW h, NEW l, State(h, l), NEW k \in DOMAIN h, ~h[k].free, NEW n \in Nat,
           n <= h[k].size, Sized(n), NEW f, f = Split(h, k, n)
    PROVE  /\ Ordered(f) /\ Parted(f, k + 1) /\ Multiples(f) /\ Headers(h) \subseteq Headers(f)
           /\ k \in DOMAIN f /\ f[k].addr = h[k].addr /\ n <= f[k].size /\ ~f[k].free
           /\ Used(f) = (Used(h) \ {h[k]}) \cup {f[k]}
<1>1. Ordered(h) /\ Parted(h, 0) /\ Multiples(h)
  BY Zenon DEF State
<1>2. CASE ~(h[k].size >= n + BlockSize + 1)
  <2>1. f = h
    BY <1>1, <1>2, SplitSpliced, Zenon
  <2>2. h[k] \in Used(h) /\ Parted(h, k + 1)
    BY <1>1, OneBlock, NoFreeNeighbours, Zenon
  <2> QED
    BY <1>1, <2>1, <2>2, Zenon
<1>3. CASE h[k].size >= n + BlockSize + 1
  <2>1. Spliced(h, k, k, <<Cut(h, k, n), Rest(h, k, n)>>, f)
    BY <1>1, <1>3, SplitSpliced, Zenon
  <2> QED
    BY <1>1, <1>3, <2>1, SplitUsed
<1> QED
  BY <1>2, <1>3, Zenon

\* A client's block is replaced by one at the same address, for n units.
LEMMA OwnerShrinks ==
    ASSUME NEW U, NEW l, Owners(U, l), NEW c \in l, NEW b \in U, c.ptr = b.addr + BlockSize,
           \A u \in U : u.addr \in Nat, \A u \in U : u.addr = b.addr => u = b,
           NEW a \in Block, a.addr = b.addr, a.addr + BlockSize \in Units,
           NEW n \in Units, n <= a.size
    PROVE  Owners((U \ {b}) \cup {a}, (l \ {c}) \cup {[c EXCEPT !.size = n]})
<1>1. Owners(U \ {b}, l \ {c})
  BY OwnerGone, Zenon
<1>2. /\ \A u \in U \ {b} : u.addr # a.addr /\ u.addr \in Nat
      /\ a.addr \in Nat
  BY Zenon
<1>3. Owners((U \ {b}) \cup {a}, (l \ {c}) \cup {[ptr |-> a.addr + BlockSize, size |-> n]})
  BY <1>1, <1>2, NewOwner, Zenon
<1>4. c \in [ptr : Units, size : Units]
  BY Zenon DEF Owners
<1>5. [c EXCEPT !.size = n] = [ptr |-> a.addr + BlockSize, size |-> n]
  BY <1>4
<1> QED
  BY <1>3, <1>5, Zenon

\* A block in use grows where it is.
LEMMA OwnerGrows ==
    ASSUME NEW U, NEW l, Owners(U, l), NEW b \in U, NEW a, a.addr = b.addr, b.size <= a.size,
           b.size \in Int, a.size \in Int
    PROVE  Owners((U \ {b}) \cup {a}, l)
<1>1. l \subseteq [ptr : Units, size : Units]
  BY Zenon DEF Owners
<1>2. \A d \in l : d.size \in Int
  BY <1>1, HeapAssumption DEF Units
<1>3. ASSUME NEW d \in l
      PROVE  \E u \in (U \ {b}) \cup {a} : d.ptr = u.addr + BlockSize /\ d.size <= u.size
  <2>1. PICK u \in U : d.ptr = u.addr + BlockSize /\ d.size <= u.size
    BY Zenon DEF Owners
  <2>2. CASE u = b
    BY <1>2, <2>1, <2>2
  <2> QED
    BY <2>1, <2>2, Zenon
<1>4. \A u \in (U \ {b}) \cup {a} : \E d \in l : d.ptr = u.addr + BlockSize
  BY Zenon DEF Owners
<1> QED
  BY <1>1, <1>3, <1>4, Zenon DEF Owners

\* Joining the free successor to a block in use.
LEMMA JoinUsed ==
    ASSUME NEW h, Ordered(h), NEW k \in DOMAIN h, Parted(h, k), ~h[k].free, First(h, k) = k
    PROVE  /\ Used(Coalesce(h, k)) = (Used(h) \ {h[k]}) \cup {Joined(h, k)}
           /\ Joined(h, k).addr = h[k].addr /\ h[k].size <= Joined(h, k).size
           /\ Joined(h, k).size \in Nat
<1>1. k \in Int /\ Last(h, k) \in {k, k + 1} /\ k \in k .. Last(h, k)
  BY RunFacts, OrderedFacts
<1>2. Last(h, k) = k + 1 => h[k + 1].free
  BY <1>1 DEF Last
<1>3. \A i \in k .. Last(h, k) : i = k \/ h[i].free
  <2>1. \A i \in k .. Last(h, k) : i = k \/ (i = k + 1 /\ Last(h, k) = k + 1)
    BY <1>1
  <2> QED
    BY <1>2, <2>1, Zenon
<1>4. \A b \in Used(h) : ~b.free
  BY Zenon DEF Used
<1>5. Used(h) \ { h[i] : i \in k .. Last(h, k) } = Used(h) \ {h[k]}
  BY <1>1, <1>3, <1>4
<1>6. ~Joined(h, k).free /\ Joined(h, k).addr = h[k].addr
  BY Zenon DEF Joined
<1>7. PICK m : m = <<Joined(h, k)>>
  BY Zenon
<1>8. DOMAIN m = {1} /\ m[1] = Joined(h, k)
  BY <1>7
<1>9. Used(m) = {Joined(h, k)}
  BY <1>6, <1>8, Zenon DEF Used
<1>10. PICK s : s = JoinedSize(h, First(h, k), Last(h, k))
  BY Zenon
<1>11. s \in Nat /\ h[k].size <= s
  BY <1>10, JoinBounds, Zenon
<1>12. Joined(h, k).size = s
  BY <1>10, Zenon DEF Joined
<1>13. Used(Coalesce(h, k)) = (Used(h) \ {h[k]}) \cup {Joined(h, k)}
  BY <1>5, <1>7, <1>9, CoalescedList, Zenon
<1> QED
  BY <1>6, <1>11, <1>12, <1>13, Zenon
=============================================================================
