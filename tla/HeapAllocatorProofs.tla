------------------------ MODULE HeapAllocatorProofs ------------------------
(***************************************************************************)
(* The heap keeps its structure, for every size of the heap and every      *)
(* sequence of requests: val_realloc and val_aligned_alloc on the list,    *)
(* the actions of HeapAllocator, and what follows for the clients.         *)
(***************************************************************************)
EXTENDS HeapListProofs

\* A client keeps its pointer, for n units.
Resized(c, n) == [c EXCEPT !.size = n]

\* val_realloc to less: the rest is joined with what follows it.
LEMMA Shrunk ==
    ASSUME NEW h, NEW l, State(h, l), NEW c \in l, NEW k \in DOMAIN h, ~h[k].free,
           c.ptr = h[k].addr + BlockSize, NEW n \in Nat, n <= h[k].size, Sized(n),
           NEW f, f = Split(h, k, n), k < Len(f)
    PROVE  /\ State(Coalesce(f, k + 1), (l \ {c}) \cup {Resized(c, n)})
           /\ Headers(Coalesce(f, k + 1))
                = (Headers(h) \cup (Headers(f) \ Headers(h))) \ Invalidated(f, k + 1)
<1> DEFINE d == (l \ {c}) \cup {Resized(c, n)}
<1>1. Ordered(h) /\ Owners(Used(h), l)
  BY Zenon DEF State
<1>2. /\ Ordered(f) /\ Parted(f, k + 1) /\ Multiples(f) /\ Headers(h) \subseteq Headers(f)
      /\ k \in DOMAIN f /\ f[k].addr = h[k].addr /\ n <= f[k].size /\ ~f[k].free
      /\ Used(f) = (Used(h) \ {h[k]}) \cup {f[k]}
  BY SplitOff
<1>3. /\ f[k] \in Block /\ f[k].addr \in Nat /\ f[k].size \in Nat
      /\ f[k].addr + BlockSize + f[k].size <= HeapSize
      /\ k \in Nat /\ Len(f) \in Nat /\ DOMAIN f = 1 .. Len(f)
  BY <1>2, OrderedFacts
<1>4. k + 1 \in DOMAIN f
  BY <1>2, <1>3
<1>5. First(f, k + 1) = k + 1
  <2>1. k + 1 - 1 = k
    BY <1>3
  <2> QED
    BY <1>2, <2>1 DEF First
<1>6. Owners(Used(f), d)
  <2>1. h[k] \in Used(h) /\ \A u \in Used(h) : u.addr = h[k].addr => u = h[k]
    BY <1>1, OneBlock, Zenon
  <2>2. \A u \in Used(h) : u.addr \in Nat
    BY <1>1, OrderedFacts, Zenon DEF Used
  <2>3. f[k].addr + BlockSize \in Units /\ n \in Units
    BY <1>2, <1>3, Room, Zenon
  <2>4. PICK U, b, a : U = Used(h) /\ b = h[k] /\ a = f[k]
    BY Zenon
  <2>5. Owners((U \ {b}) \cup {a}, (l \ {c}) \cup {Resized(c, n)})
    BY <1>1, <1>2, <1>3, <2>1, <2>2, <2>3, <2>4, OwnerShrinks, Zenon DEF Resized
  <2> QED
    BY <1>2, <2>4, <2>5, Zenon
<1> HIDE DEF d
<1>7. Owners(Used(Coalesce(f, k + 1)), d)
  <2>1. CASE f[k + 1].free
    BY <1>2, <1>4, <1>6, <2>1, JoinFree, Zenon
  <2>2. CASE ~f[k + 1].free
    <3>1. PICK a, b : a = Joined(f, k + 1) /\ b = f[k + 1]
      BY Zenon
    <3>2. /\ Used(Coalesce(f, k + 1)) = (Used(f) \ {b}) \cup {a}
          /\ a.addr = b.addr /\ b.size <= a.size /\ a.size \in Nat
      BY <1>2, <1>4, <1>5, <2>2, <3>1, JoinUsed
    <3>3. b \in Used(f) /\ b.size \in Nat
      BY <1>2, <1>4, <2>2, <3>1, OneBlock, OrderedFacts
    <3>4. b.size \in Int /\ a.size \in Int
      BY <3>2, <3>3
    <3> QED
      BY <1>6, <3>2, <3>3, <3>4, OwnerGrows
  <2> QED
    BY <2>1, <2>2
<1>8. /\ Ordered(Coalesce(f, k + 1)) /\ Parted(Coalesce(f, k + 1), 0)
      /\ Multiples(Coalesce(f, k + 1))
      /\ Headers(Coalesce(f, k + 1)) = Headers(f) \ Invalidated(f, k + 1)
  BY <1>2, <1>4, CoalescedList, Zenon
<1>9. Headers(h) \cup (Headers(f) \ Headers(h)) = Headers(f)
  BY <1>2, Zenon
<1>10. State(Coalesce(f, k + 1), d)
  BY <1>7, <1>8, Zenon DEF State
<1> QED
  BY <1>8, <1>9, <1>10 DEF d

\* The list f, cut after block k, with the rest joined to what follows.
Cuts(h, k, f, d) ==
    /\ State(Coalesce(f, k + 1), d)
    /\ Headers(Coalesce(f, k + 1))
         = (Headers(h) \cup (Headers(f) \ Headers(h))) \ Invalidated(f, k + 1)

\* The same, of any list that is that split.
LEMMA Shrinks ==
    ASSUME NEW h, NEW l, State(h, l), NEW c \in l, NEW k \in DOMAIN h, ~h[k].free,
           c.ptr = h[k].addr + BlockSize, NEW n \in Nat, n <= h[k].size, Sized(n)
    PROVE  \A f : f = Split(h, k, n) /\ k < Len(f) => Cuts(h, k, f, (l \ {c}) \cup {Resized(c, n)})
BY Shrunk DEF Cuts

\* val_coalesce joins the same blocks whether or not block k is in use.
LEMMA SameJoin ==
    ASSUME NEW h, NEW l, State(h, l), NEW k \in DOMAIN h, ~h[k].free, NEW f, f = Freed(h, k)
    PROVE  /\ First(f, k) = First(h, k) /\ Last(f, k) = Last(h, k)
           /\ Joined(f, k).addr = Joined(h, k).addr /\ Joined(f, k).size = Joined(h, k).size
           /\ Parted(h, k) /\ Invalidated(f, k) = Invalidated(h, k)
<1>1. Ordered(h) /\ Parted(h, 0)
  BY Zenon DEF State
<1>2. /\ Ordered(f) /\ Parted(f, k) /\ Len(f) = Len(h) /\ k \in DOMAIN f
      /\ \A i \in DOMAIN h : i # k => f[i] = h[i]
      /\ \A i \in DOMAIN h : f[i].addr = h[i].addr /\ f[i].size = h[i].size
  BY FreedFacts
<1>3. k \in Nat /\ k >= 1 /\ k <= Len(h) /\ Len(h) \in Nat /\ DOMAIN h = 1 .. Len(h)
  BY <1>1, OrderedFacts
<1>4. Parted(h, k)
  <2>1. \A i \in 1 .. Len(h) - 1 : 0 \notin {i, i + 1}
    BY <1>3
  <2> QED
    BY <1>1, <2>1, Zenon DEF Parted
<1>5. First(f, k) = First(h, k)
  <2>1. k > 1 => k - 1 \in DOMAIN h /\ k - 1 # k
    BY <1>3
  <2> QED
    BY <1>2, <2>1, Zenon DEF First
<1>6. Last(f, k) = Last(h, k)
  <2>1. k < Len(h) => k + 1 \in DOMAIN h /\ k + 1 # k
    BY <1>3
  <2> QED
    BY <1>2, <2>1, Zenon DEF Last
<1>7. PICK lo, hi : lo = First(h, k) /\ hi = Last(h, k)
  BY Zenon
<1>8. /\ lo \in Int /\ hi \in {lo, lo + 1, lo + 2}
      /\ \A i \in lo .. hi : i \in DOMAIN h
      /\ lo \in DOMAIN h
  <2>1. /\ lo \in DOMAIN h /\ hi \in lo .. Len(h) /\ lo \in {k - 1, k} /\ hi \in {k, k + 1}
    BY <1>1, <1>4, <1>7, RunFacts, Zenon
  <2> QED
    BY <1>3, <2>1, SMTT(20)
<1>9. JoinedSize(f, lo, hi) = JoinedSize(h, lo, hi)
  <2>1. /\ lo \in lo .. hi
        /\ hi = lo + 1 => lo + 1 \in lo .. hi
        /\ hi = lo + 2 => lo + 1 \in lo .. hi /\ lo + 2 \in lo .. hi
    BY <1>8
  <2>2. /\ f[lo].size = h[lo].size
        /\ hi = lo + 1 => f[lo + 1].size = h[lo + 1].size
        /\ hi = lo + 2 => f[lo + 1].size = h[lo + 1].size /\ f[lo + 2].size = h[lo + 2].size
    BY <1>2, <1>8, <2>1, Zenon
  <2>3. CASE hi = lo
    BY <1>8, <2>2, <2>3, JoinedSizes
  <2>4. CASE hi = lo + 1
    BY <1>8, <2>2, <2>4, JoinedSizes
  <2>5. CASE hi = lo + 2
    BY <1>8, <2>2, <2>5, JoinedSizes
  <2> QED
    BY <1>8, <2>3, <2>4, <2>5, Zenon
<1>10. Joined(f, k).addr = Joined(h, k).addr /\ Joined(f, k).size = Joined(h, k).size
  BY <1>2, <1>5, <1>6, <1>7, <1>8, <1>9, Zenon DEF Joined
<1>11. Invalidated(f, k) = Invalidated(h, k)
  <2>1. Run(f, k) = lo .. hi /\ Min(Run(f, k)) = lo
    BY <1>2, <1>5, <1>6, <1>7, RunFacts
  <2>2. Run(h, k) = lo .. hi /\ Min(Run(h, k)) = lo
    BY <1>1, <1>4, <1>7, RunFacts, Zenon
  <2>3. \A j \in (lo .. hi) \ {lo} : f[j].addr = h[j].addr
    BY <1>2, <1>8, Zenon
  <2> QED
    BY <2>1, <2>2, <2>3, Zenon DEF Invalidated
<1> QED
  BY <1>4, <1>5, <1>6, <1>10, <1>11, Zenon

\* The list after val_coalesce is the same but for the joined block whether or
\* not block k is in use.
LEMMA JoinedEither ==
    ASSUME NEW h, NEW l, State(h, l), NEW k \in DOMAIN h, ~h[k].free, NEW f, f = Freed(h, k),
           NEW lo, lo = First(h, k), NEW p, p = Coalesce(h, k), NEW q, q = Coalesce(f, k)
    PROVE  /\ lo \in DOMAIN p /\ lo \in DOMAIN q /\ Len(q) = Len(p) /\ Len(p) \in Nat
           /\ p[lo] = Joined(h, k) /\ q[lo] = Joined(f, k)
           /\ \A i \in 1 .. Len(p) : i # lo => q[i] = p[i]
<1>1. Ordered(h)
  BY Zenon DEF State
<1>2. /\ First(f, k) = lo /\ Last(f, k) = Last(h, k) /\ Parted(h, k)
  BY SameJoin, Zenon
<1>3. /\ Ordered(f) /\ Parted(f, k) /\ Len(f) = Len(h) /\ k \in DOMAIN f
      /\ \A i \in DOMAIN h : i # k => f[i] = h[i]
  BY FreedFacts
<1>4. PICK hi : hi = Last(h, k)
  BY Zenon
<1>5. /\ lo \in DOMAIN h /\ hi \in lo .. Len(h) /\ k \in lo .. hi
      /\ DOMAIN h = 1 .. Len(h) /\ Len(h) \in Nat
  BY <1>1, <1>2, <1>4, RunFacts, OrderedFacts, Zenon
<1>6. PICK a : a = <<Joined(h, k)>>
  BY Zenon
<1>7. PICK b : b = <<Joined(f, k)>>
  BY Zenon
<1>8. Spliced(h, lo, hi, a, p) /\ Joined(h, k) \in Block
  BY <1>1, <1>2, <1>4, <1>6, CoalesceSpliced
<1>9. Spliced(f, lo, hi, b, q) /\ Joined(f, k) \in Block
  BY <1>2, <1>3, <1>4, <1>7, CoalesceSpliced
<1>10. Len(a) = 1 /\ a[1] = Joined(h, k)
  BY <1>6, Zenon
<1>11. Len(b) = 1 /\ b[1] = Joined(f, k)
  BY <1>7, Zenon
<1>12. /\ p \in Seq(Block) /\ Len(p) = lo - 1 + 1 + Len(h) - hi
       /\ \A i \in 1 .. lo - 1 : p[i] = h[i]
       /\ \A i \in 1 .. 1 : p[lo - 1 + i] = a[i]
       /\ \A i \in lo + 1 .. Len(p) : p[i] = h[i - lo - 1 + hi + 1]
  BY <1>8, <1>10 DEF Spliced
<1>13. /\ q \in Seq(Block) /\ Len(q) = lo - 1 + 1 + Len(h) - hi
       /\ \A i \in 1 .. lo - 1 : q[i] = f[i]
       /\ \A i \in 1 .. 1 : q[lo - 1 + i] = b[i]
       /\ \A i \in lo + 1 .. Len(q) : q[i] = f[i - lo - 1 + hi + 1]
  BY <1>3, <1>9, <1>11 DEF Spliced
<1>14. 1 \in 1 .. 1 /\ lo - 1 + 1 = lo /\ lo \in 1 .. Len(p)
  BY <1>5, <1>12
<1>15. p[lo] = Joined(h, k) /\ q[lo] = Joined(f, k)
  BY <1>10, <1>11, <1>12, <1>13, <1>14
<1>16. DOMAIN p = 1 .. Len(p) /\ DOMAIN q = 1 .. Len(q) /\ Len(p) \in Nat
  BY <1>12, <1>13
<1>17. Len(q) = Len(p)
  BY <1>12, <1>13, Zenon
<1>18. ASSUME NEW i \in 1 .. Len(p), i # lo PROVE q[i] = p[i]
  <2>1. CASE i < lo
    <3>1. i \in 1 .. lo - 1 /\ i \in DOMAIN h /\ i # k
      BY <1>5, <1>18, <2>1
    <3> QED
      BY <1>3, <1>12, <1>13, <3>1
  <2>2. CASE i > lo
    <3>1. PICK j : j = i - lo - 1 + hi + 1
      BY Zenon
    <3>2. i \in lo + 1 .. Len(p) /\ j \in DOMAIN h /\ j # k
      BY <1>5, <1>12, <1>16, <1>18, <2>2, <3>1, SMTT(20)
    <3>3. p[i] = h[j] /\ q[i] = f[j]
      BY <1>12, <1>13, <1>17, <3>1, <3>2
    <3> QED
      BY <1>3, <3>2, <3>3, Zenon
  <2> QED
    BY <1>5, <1>18, <2>1, <2>2
<1> QED
  BY <1>14, <1>15, <1>16, <1>17, <1>18

\* val_realloc to more, in place: the block of c is given up, joined with its
\* free neighbours, and the joined block is taken.
LEMMA Grown ==
    ASSUME NEW h, NEW l, State(h, l), NEW c \in l, NEW k \in DOMAIN h, ~h[k].free,
           c.ptr = h[k].addr + BlockSize, NEW n \in Nat, Sized(n),
           NEW j \in {k - 1, k + 1} \cap DOMAIN h, h[j].free,
           n <= h[k].size + BlockSize + h[j].size,
           NEW lo, lo = Min(Run(h, k)), NEW p, p = Coalesce(h, k), NEW g, g = Taken(p, lo, n)
    PROVE  /\ State(g, (l \ {c}) \cup {[ptr |-> p[lo].addr + BlockSize, size |-> n]})
           /\ Stamped(Headers(h) \ Invalidated(h, k), p, g, p[lo].addr + BlockSize, n)
                = Headers(g)
<1>1. Ordered(h) /\ Multiples(h)
  BY Zenon DEF State
<1>2. PICK f : f = Freed(h, k)
  BY Zenon
<1>3. PICK q : q = Coalesce(f, k)
  BY Zenon
<1>4. /\ First(f, k) = First(h, k) /\ Last(f, k) = Last(h, k) /\ Parted(h, k)
      /\ Joined(f, k).addr = Joined(h, k).addr /\ Joined(f, k).size = Joined(h, k).size
      /\ Invalidated(f, k) = Invalidated(h, k)
  BY <1>2, SameJoin, Zenon
<1>5. /\ lo = First(h, k) /\ k \in Int /\ First(h, k) \in {k - 1, k} /\ Last(h, k) \in {k, k + 1}
      /\ DOMAIN h = 1 .. Len(h) /\ Len(h) \in Nat
  BY <1>1, <1>4, RunFacts, OrderedFacts
<1>6. /\ lo \in DOMAIN p /\ lo \in DOMAIN q /\ Len(q) = Len(p) /\ Len(p) \in Nat
      /\ p[lo] = Joined(h, k) /\ q[lo] = Joined(f, k)
      /\ \A i \in 1 .. Len(p) : i # lo => q[i] = p[i]
  BY <1>2, <1>3, <1>5, JoinedEither
<1>7. /\ Ordered(p) /\ Multiples(p) /\ Headers(p) = Headers(h) \ Invalidated(h, k)
  BY <1>1, <1>4, CoalescedList, Zenon
<1>8. /\ State(q, l \ {c}) /\ Headers(q) = Headers(h) \ Invalidated(h, k)
  BY <1>2, <1>3, <1>4, Released, Zenon
<1>9. q[lo].free
  <2>1. Ordered(f) /\ Parted(f, k) /\ k \in DOMAIN f /\ f[k].free
    BY <1>2, FreedFacts, Zenon
  <2> QED
    BY <1>6, <2>1, JoinFree, Zenon
<1>10. n <= p[lo].size
  <2>1. PICK s, hi : hi = Last(h, k) /\ s = JoinedSize(h, lo, hi)
    BY Zenon
  <2>2. j \in {k - 1, k + 1} \cap (lo .. hi)
    <3>1. j = k - 1 => lo = k - 1
      BY <1>5 DEF First
    <3>2. j = k + 1 => Last(h, k) = k + 1
      BY <1>5 DEF Last
    <3> QED
      BY <1>5, <2>1, <3>1, <3>2
  <2>3. s \in Nat /\ h[k].size + BlockSize + h[j].size <= s
    BY <1>1, <1>4, <1>5, <2>1, <2>2, JoinBounds
  <2>4. Joined(h, k).size = s
    BY <1>5, <2>1, Zenon DEF Joined
  <2>5. h[k].size \in Nat /\ h[j].size \in Nat
    BY <1>1, OrderedFacts, Zenon
  <2>6. n <= s
    BY <2>3, <2>5, HeapAssumption
  <2> QED
    BY <1>6, <2>4, <2>6, Zenon
<1>11. PICK m : /\ Fills(p, lo, m, 1, n) /\ Spliced(p, lo, lo, m, g)
                /\ m[1].addr = p[lo].addr
  BY <1>6, <1>7, <1>10, TakenFills
<1>12. q[lo].addr = p[lo].addr /\ q[lo].size = p[lo].size
  BY <1>4, <1>6, Zenon
<1>13. Fills(q, lo, m, 1, n)
  <2>1. End(q[lo]) = End(p[lo])
    BY <1>12, Zenon DEF End
  <2> QED
    BY <1>11, <1>12, <2>1, Zenon DEF Fills
<1>14. Spliced(q, lo, lo, m, g)
  <2>1. lo \in Int /\ Len(p) \in Int /\ Len(m) \in Int
    <3>1. Len(m) \in Nat
      BY <1>11, OrderedFacts, Zenon DEF Fills
    <3>2. DOMAIN p = 1 .. Len(p)
      BY <1>7, OrderedFacts, Zenon
    <3> QED
      BY <1>6, <3>1, <3>2
  <2>2. /\ \A i \in 1 .. lo - 1 : q[i] = p[i]
        /\ \A i \in lo + 1 .. Len(p) : q[i] = p[i]
    <3>1. lo \in 1 .. Len(p)
      BY <1>6, <1>7, OrderedFacts, Zenon
    <3> QED
      BY <1>6, <2>1, <3>1
  <2> QED
    BY <1>6, <1>11, <2>1, <2>2, IgnoredPart
<1>15. Hands(q, l \ {c}, g, p[lo].addr + BlockSize, n)
  <2>1. Hands(q, l \ {c}, g, m[1].addr + BlockSize, n)
    BY <1>6, <1>8, <1>9, <1>13, <1>14, Allocated
  <2> QED
    BY <1>11, <2>1, Zenon
<1>16. State(g, (l \ {c}) \cup {[ptr |-> p[lo].addr + BlockSize, size |-> n]})
  BY <1>15, Zenon DEF Hands
<1>17. Stamped(Headers(h) \ Invalidated(h, k), p, g, p[lo].addr + BlockSize, n) = Headers(g)
  BY <1>7, <1>8, <1>15, Zenon DEF Hands, Stamped
<1> QED
  BY <1>16, <1>17, Zenon

\* The block k of the list h is given up, which leaves d to the clients.
Returns(h, k, d) ==
    /\ State(Coalesce(Freed(h, k), k), d)
    /\ Headers(Coalesce(Freed(h, k), k)) = Headers(h) \ Invalidated(Freed(h, k), k)

\* val_free finds the block of the pointer it is given.
LEMMA GivenUp ==
    ASSUME NEW h, NEW l, State(h, l), NEW c \in l
    PROVE  \A k : k = IndexOf(h, c.ptr - BlockSize) => Returns(h, k, l \ {c})
<1>1. PICK i \in DOMAIN h : /\ ~h[i].free /\ c.ptr = h[i].addr + BlockSize
                            /\ IndexOf(h, c.ptr - BlockSize) = i
  BY BlockOf, Zenon
<1>2. /\ State(Coalesce(Freed(h, i), i), l \ {c})
      /\ Headers(Coalesce(Freed(h, i), i)) = Headers(h) \ Invalidated(Freed(h, i), i)
  BY <1>1, Released
<1>3. Returns(h, i, l \ {c})
  BY <1>2, Zenon DEF Returns
<1> QED
  BY <1>1, <1>3, Zenon

\* One of several pointers is given up.
LEMMA OtherGivenUp ==
    ASSUME NEW h, NEW l, NEW e, State(h, l \cup {e}), NEW c \in l, c # e
    PROVE  \A k : k = IndexOf(h, c.ptr - BlockSize) => Returns(h, k, (l \ {c}) \cup {e})
<1>1. PICK d : d = l \cup {e}
  BY Zenon
<1>2. c \in d /\ d \ {c} = (l \ {c}) \cup {e} /\ State(h, d)
  BY <1>1, Zenon
<1>3. \A k : k = IndexOf(h, c.ptr - BlockSize) => Returns(h, k, d \ {c})
  <2>1. c \in d /\ State(h, d)
    BY <1>2, Zenon
  <2> QED
    BY <2>1, GivenUp, Zenon
<1> QED
  BY <1>2, <1>3, Zenon

\* val_realloc to more, elsewhere: allocate, then free the old block.
LEMMA Moved ==
    ASSUME NEW h, NEW l, NEW g, NEW p, NEW n, Hands(h, l, g, p, n), NEW c \in l
    PROVE  /\ \A k : k = IndexOf(g, c.ptr - BlockSize)
                     => Returns(g, k, (l \ {c}) \cup {[ptr |-> p, size |-> n]})
           /\ Stamped(Headers(h), h, g, p, n) = Headers(g)
<1>1. PICK e : e = [ptr |-> p, size |-> n]
  BY Zenon
<1>2. State(g, l \cup {e})
  BY <1>1, Zenon DEF Hands
<1>3. c # e
  BY <1>1 DEF Hands
<1>4. \A k : k = IndexOf(g, c.ptr - BlockSize) => Returns(g, k, (l \ {c}) \cup {e})
  BY <1>2, <1>3, OtherGivenUp, Zenon
<1>5. Stamped(Headers(h), h, g, p, n) = Headers(g)
  BY Zenon DEF Hands
<1> QED
  BY <1>1, <1>4, <1>5, Zenon

-----------------------------------------------------------------------------
(***************************************************************************)
(* val_aligned_alloc.                                                      *)
(***************************************************************************)
\* The size of a block set.
LEMMA SetSize ==
    ASSUME NEW b \in Block, NEW n
    PROVE  [b EXCEPT !.size = n] = [addr |-> b.addr, size |-> n, free |-> b.free]
BY DEF Block

\* The mark of a block given by its parts set.
LEMMA SetMark ==
    ASSUME NEW a, NEW n, NEW e, NEW f
    PROVE  [[addr |-> a, size |-> n, free |-> e] EXCEPT !.free = f]
             = [addr |-> a, size |-> n, free |-> f]
OBVIOUS

\* Size and mark of one block set.
SetTo(g, b, n, f) == [g EXCEPT ![b].size = n, ![b].free = f]

\* A block put in the place of another.
Put(g, b, x) == [g EXCEPT ![b] = x]

\* Both at once put a block with that size and mark in its place.
LEMMA SetSizeFree ==
    ASSUME NEW g \in Seq(Block), NEW b \in DOMAIN g, NEW n, NEW f
    PROVE  SetTo(g, b, n, f) = Put(g, b, [addr |-> g[b].addr, size |-> n, free |-> f])
<1>1. g[b] \in Block
  OBVIOUS
<1>2. [[g[b] EXCEPT !.size = n] EXCEPT !.free = f] = [addr |-> g[b].addr, size |-> n, free |-> f]
  <2>1. [g[b] EXCEPT !.size = n] = [addr |-> g[b].addr, size |-> n, free |-> g[b].free]
    BY <1>1, SetSize, Zenon
  <2>2. [[addr |-> g[b].addr, size |-> n, free |-> g[b].free] EXCEPT !.free = f]
          = [addr |-> g[b].addr, size |-> n, free |-> f]
    BY SetMark
  <2> QED
    BY <2>1, <2>2, Zenon
<1>3. PICK x : x = [g[b] EXCEPT !.size = n]
  BY Zenon
<1>4. PICK y : y = [addr |-> g[b].addr, size |-> n, free |-> f]
  BY Zenon
<1>5. [x EXCEPT !.free = f] = y
  BY <1>2, <1>3, <1>4, Zenon
<1>6. PICK e : e = [g EXCEPT ![b] = x]
  BY Zenon
<1>7. [g EXCEPT ![b].size = n] = e
  BY <1>3, <1>6, Zenon
<1>8. e[b] = x
  BY <1>6, Zenon
<1>9. [e EXCEPT ![b].free = f] = [e EXCEPT ![b] = y]
  BY <1>5, <1>8, Zenon
<1>10. [e EXCEPT ![b] = y] = [g EXCEPT ![b] = y]
  BY <1>6, Zenon
<1> QED
  BY <1>4, <1>7, <1>9, <1>10, Zenon DEF SetTo, Put

\* The end of val_aligned_alloc: block b is cut to n units, and marked.
Aligned(h, b, n) ==
    [IF h[b].size > n + BlockSize + 1 THEN Split(h, b, n) ELSE h
        EXCEPT ![b].size = n, ![b].free = FALSE]

\* Cutting a block to n units and marking it fills the block, whether or not the
\* rest became a block of its own.
LEMMA AlignedFills ==
    ASSUME NEW h, Ordered(h), Multiples(h), NEW k \in DOMAIN h, NEW n \in Nat,
           n <= h[k].size, Sized(n)
    PROVE  \E m : /\ Fills(h, k, m, 1, n) /\ Spliced(h, k, k, m, Aligned(h, k, n))
                  /\ m[1].addr = h[k].addr
<1>1. h[k].size \in Nat /\ h[k] \in Block /\ h \in Seq(Block)
  BY OrderedFacts, Zenon
<1> DEFINE b == [addr |-> h[k].addr, size |-> n, free |-> FALSE]
<1>2. CASE h[k].size > n + BlockSize + 1
  <2>1. h[k].size >= n + BlockSize + 1
    BY <1>1, <1>2, HeapAssumption
  <2>2. b \in Block /\ Fills(h, k, <<b, Rest(h, k, n)>>, 1, n)
    BY <2>1, TwoFills, Zenon
  <2>3. <<b, Rest(h, k, n)>>[1].addr = h[k].addr
    BY Zenon
  <2>4. Split(h, k, n) \in Seq(Block) /\ Split(h, k, n)[k].addr = h[k].addr
        /\ k \in DOMAIN Split(h, k, n)
    <3>1. Split(h, k, n) \in Seq(Block) /\ Split(h, k, n)[k] = Cut(h, k, n)
      BY <2>1, SplitHead, Zenon
    <3>2. PICK m : m = <<Cut(h, k, n), Rest(h, k, n)>>
      BY Zenon
    <3>3. Cut(h, k, n) \in Block /\ Rest(h, k, n) \in Block /\ Spliced(h, k, k, m, Split(h, k, n))
      BY <2>1, <3>2, SplitSpliced, Zenon
    <3>4. m \in Seq(Block) /\ Len(m) = 2
      BY <3>2, <3>3
    <3>5. k \in 1 .. Len(h) /\ Len(h) \in Nat
      BY OrderedFacts, Zenon
    <3>6. Len(Split(h, k, n)) = Len(h) + 1
      BY <1>1, <3>3, <3>4, <3>5, SplicedTwo, SMTT(20)
    <3>7. DOMAIN Split(h, k, n) = 1 .. Len(Split(h, k, n))
      BY <3>1
    <3>8. Cut(h, k, n).addr = h[k].addr
      BY Zenon DEF Cut
    <3> QED
      BY <3>1, <3>5, <3>6, <3>7, <3>8, SMTT(20)
  <2>5. Aligned(h, k, n) = [Split(h, k, n) EXCEPT ![k] = b]
    <3>1. PICK g : g = Split(h, k, n)
      BY Zenon
    <3>2. Aligned(h, k, n) = [g EXCEPT ![k].size = n, ![k].free = FALSE]
      BY <1>2, <3>1, Zenon DEF Aligned
    <3>3. g \in Seq(Block) /\ g[k].addr = h[k].addr /\ k \in DOMAIN g
      BY <2>4, <3>1, Zenon
    <3>4. SetTo(g, k, n, FALSE) = Put(g, k, [addr |-> g[k].addr, size |-> n, free |-> FALSE])
      BY <3>3, SetSizeFree, Zenon
    <3> QED
      BY <3>1, <3>2, <3>3, <3>4 DEF SetTo, Put
  <2> HIDE DEF b
  <2>6. Spliced(h, k, k, <<b, Rest(h, k, n)>>, [Split(h, k, n) EXCEPT ![k] = b])
    BY <2>1, <2>2, TwoForOne, Zenon
  <2> QED
    BY <2>2, <2>3, <2>5, <2>6, Zenon
<1>3. CASE ~(h[k].size > n + BlockSize + 1)
  <2>1. b \in Block /\ Fills(h, k, <<b>>, 1, n)
    <3>1. n <= n
      OBVIOUS
    <3> QED
      BY <3>1, OneFills, Zenon
  <2>2. Aligned(h, k, n) = [h EXCEPT ![k] = b]
    <3>1. Aligned(h, k, n) = [h EXCEPT ![k].size = n, ![k].free = FALSE]
      BY <1>3, Zenon DEF Aligned
    <3>2. SetTo(h, k, n, FALSE) = Put(h, k, [addr |-> h[k].addr, size |-> n, free |-> FALSE])
      BY <1>1, SetSizeFree, Zenon
    <3> QED
      BY <3>1, <3>2, Zenon DEF SetTo, Put
  <2>3. <<b>>[1].addr = h[k].addr
    BY Zenon
  <2> HIDE DEF b
  <2>4. Spliced(h, k, k, <<b>>, [h EXCEPT ![k] = b])
    BY <2>1, OneForOne, Zenon
  <2> QED
    BY <2>1, <2>2, <2>3, <2>4, Zenon
<1> QED
  BY <1>2, <1>3, Zenon

\* The space before an aligned payload becomes a free block of s units.
LEMMA SplitFree ==
    ASSUME NEW h, NEW l, State(h, l), NEW k \in DOMAIN h, h[k].free, NEW s \in Nat,
           h[k].size >= s + BlockSize + 1, Sized(s),
           NEW f, Spliced(h, k, k, <<Cut(h, k, s), Rest(h, k, s)>>, f)
    PROVE  /\ Ordered(f) /\ Multiples(f) /\ Parted(f, k + 1) /\ Owners(Used(f), l)
           /\ Headers(h) \subseteq Headers(f) /\ k + 1 \in DOMAIN f
           /\ f[k + 1] = Rest(h, k, s)
           /\ k + 1 < Len(f) => ~f[k + 2].free
<1>1. Ordered(h) /\ Parted(h, 0) /\ Multiples(h) /\ Owners(Used(h), l)
  BY Zenon DEF State
<1>2. /\ Parted(h, k) /\ (k > 1 => ~h[k - 1].free) /\ (k < Len(h) => ~h[k + 1].free)
  BY <1>1, NoFreeNeighbours, Zenon
<1>3. Around(h, k, k + 1)
  BY <1>2, Zenon DEF Around
<1>4. /\ Ordered(f) /\ Multiples(f) /\ Parted(f, k + 1) /\ Headers(h) \subseteq Headers(f)
      /\ Len(f) = Len(h) + 1 /\ f[k + 1] = Rest(h, k, s)
      /\ k + 1 < Len(f) => f[k + 2] = h[k + 1]
      /\ Used(f) = Used(h)
  BY <1>1, <1>2, <1>3, SplitParts
<1>5. k \in 1 .. Len(h) /\ Len(h) \in Nat /\ DOMAIN f = 1 .. Len(f)
  BY <1>1, <1>4, OrderedFacts, Zenon
<1>6. k + 1 \in DOMAIN f /\ (k + 1 < Len(f) => k < Len(h))
  BY <1>4, <1>5
<1> QED
  BY <1>1, <1>2, <1>4, <1>6, Zenon

\* Rounding up to a multiple.
LEMMA AlignFacts ==
    ASSUME NEW a \in Nat, NEW A \in Nat \ {0}
    PROVE  /\ AlignTo(a, A) \in Nat /\ a <= AlignTo(a, A)
           /\ \E q \in Nat : AlignTo(a, A) = q * A
<1>1. PICK x : x = a + A - 1
  BY Zenon
<1>2. x \in Nat
  BY <1>1
<1>3. PICK q : q = x \div A
  BY Zenon
<1>4. q \in Nat /\ q * A <= x /\ x < q * A + A
  BY <1>2, <1>3
<1>5. q * A \in Nat
  BY <1>4
<1>6. AlignTo(a, A) = q * A
  BY <1>1, <1>3, Zenon DEF AlignTo
<1> QED
  BY <1>1, <1>4, <1>5, <1>6

\* Between two multiples of a header there is room for one or none.
LEMMA Gap ==
    ASSUME NEW t \in Int, t * BlockSize >= 0
    PROVE  /\ t >= 0 /\ (t = 0 \/ t * BlockSize >= BlockSize)
           /\ t > 0 => t - 1 \in Nat /\ t * BlockSize - BlockSize = (t - 1) * BlockSize
<1>1. BlockSize \in Nat /\ BlockSize > 0
  BY HeapAssumption
<1>2. CASE t < 0
  BY <1>1, <1>2
<1>3. CASE t = 0
  BY <1>1, <1>3
<1>4. CASE t > 0
  BY <1>1, <1>4
<1> QED
  BY <1>2, <1>3, <1>4

\* The space before an aligned payload: none, or a header at least.
LEMMA LeadFacts ==
    ASSUME NEW a \in Nat, Multiple(a), NEW A \in Nat \ {0}, Multiple(A),
           NEW p, p = AlignTo(a + BlockSize, A), NEW d, d = p - BlockSize - a
    PROVE  /\ p \in Nat /\ d \in Nat /\ (d = 0 \/ d >= BlockSize)
           /\ d >= BlockSize => Multiple(d - BlockSize)
<1>1. BlockSize \in Nat /\ a + BlockSize \in Nat
  BY HeapAssumption
<1>2. /\ p \in Nat /\ a + BlockSize <= p
      /\ \E q \in Nat : p = q * A
  BY <1>1, AlignFacts, Zenon
<1>3. PICK q \in Nat : p = q * A
  BY <1>2, Zenon
<1>4. PICK r \in Nat : A = r * BlockSize
  BY Zenon DEF Multiple
<1>5. PICK s \in Nat : a = s * BlockSize
  BY Zenon DEF Multiple
<1>6. PICK t : t = q * r - 1 - s
  BY Zenon
<1>7. t \in Int
  BY <1>6
<1>8. p = (q * r) * BlockSize
  BY <1>1, <1>3, <1>4
<1>9. d = t * BlockSize
  <2>1. PICK u \in Nat : u = q * r
    OBVIOUS
  <2>2. p = u * BlockSize /\ t = u - 1 - s
    BY <1>6, <1>8, <2>1, Zenon
  <2>3. d = u * BlockSize - BlockSize - s * BlockSize
    BY <1>5, <2>2, Zenon
  <2>4. u * BlockSize - BlockSize - s * BlockSize = (u - 1 - s) * BlockSize
    BY <1>1
  <2> QED
    BY <2>2, <2>3, <2>4, Zenon
<1>10. d \in Nat
  BY <1>1, <1>2
<1>11. /\ t = 0 \/ t * BlockSize >= BlockSize
       /\ t > 0 => t - 1 \in Nat /\ t * BlockSize - BlockSize = (t - 1) * BlockSize
       /\ t >= 0
  BY <1>7, <1>9, <1>10, Gap
<1>12. d = 0 \/ d >= BlockSize
  <2>1. t = 0 => t * BlockSize = 0
    BY <1>1
  <2> QED
    BY <1>9, <1>11, <2>1, Zenon
<1>13. d >= BlockSize => Multiple(d - BlockSize)
  <2>1. t = 0 => d = 0
    BY <1>1, <1>9
  <2>2. d >= BlockSize => t > 0
    BY <1>7, <1>11, <2>1, HeapAssumption
  <2> QED
    BY <1>9, <1>11, <2>2, Zenon DEF Multiple
<1> QED
  BY <1>2, <1>10, <1>12, <1>13

\* val_aligned_alloc from the free block k.
LEMMA AlignedHands ==
    ASSUME NEW h, NEW l, State(h, l), NEW k \in DOMAIN h, h[k].free, NEW n \in Nat \ {0},
           NEW A \in Nat \ {0}, Multiple(A), Multiple(n), AlignedRequests # {},
           NEW p, p = AlignTo(h[k].addr + BlockSize, A),
           h[k].size + BlockSize >= p + n - h[k].addr,
           NEW d, d = p - BlockSize - h[k].addr
    PROVE  /\ d >= BlockSize => Hands(h, l, Aligned(Split(h, k, d - BlockSize), k + 1, n), p, n)
           /\ ~(d >= BlockSize) => Hands(h, l, Aligned(h, k, n), p, n)
<1>1. Ordered(h) /\ Multiples(h)
  BY Zenon DEF State
<1>2. /\ h[k].addr \in Nat /\ h[k].size \in Nat /\ Multiple(h[k].addr) /\ BlockSize \in Nat \ {0}
  BY <1>1, OrderedFacts, HeapAssumption, Zenon DEF Multiples
<1>3. /\ p \in Nat /\ d \in Nat /\ (d = 0 \/ d >= BlockSize)
      /\ d >= BlockSize => Multiple(d - BlockSize)
  BY <1>2, LeadFacts, Zenon
<1>4. Sized(n)
  BY Zenon DEF Sized
<1>5. ASSUME ~(d >= BlockSize) PROVE Hands(h, l, Aligned(h, k, n), p, n)
  <2>1. p = h[k].addr + BlockSize /\ n <= h[k].size
    BY <1>2, <1>3, <1>5
  <2>2. PICK m : /\ Fills(h, k, m, 1, n) /\ Spliced(h, k, k, m, Aligned(h, k, n))
                 /\ m[1].addr = h[k].addr
    BY <1>1, <1>4, <2>1, AlignedFills
  <2>3. Hands(h, l, Aligned(h, k, n), m[1].addr + BlockSize, n)
    BY <2>2, Allocated, Zenon
  <2> QED
    BY <2>1, <2>2, <2>3, Zenon
<1>6. ASSUME d >= BlockSize
      PROVE  Hands(h, l, Aligned(Split(h, k, d - BlockSize), k + 1, n), p, n)
  <2>1. PICK s : s = d - BlockSize
    BY Zenon
  <2>2. s \in Nat /\ Sized(s) /\ h[k].size >= s + BlockSize + 1
    BY <1>2, <1>3, <1>6, <2>1 DEF Sized
  <2>3. PICK f : f = Split(h, k, s)
    BY Zenon
  <2>4. Spliced(h, k, k, <<Cut(h, k, s), Rest(h, k, s)>>, f)
    BY <1>1, <2>2, <2>3, SplitSpliced, Zenon
  <2>5. /\ Ordered(f) /\ Multiples(f) /\ Parted(f, k + 1) /\ Owners(Used(f), l)
        /\ Headers(h) \subseteq Headers(f) /\ k + 1 \in DOMAIN f
        /\ f[k + 1] = Rest(h, k, s)
        /\ k + 1 < Len(f) => ~f[k + 2].free
    BY <2>2, <2>4, SplitFree, Zenon
  <2>6. PICK i : i = k + 1
    BY Zenon
  <2>7. /\ f[i].addr = h[k].addr + BlockSize + s /\ f[i].size = h[k].size - s - BlockSize
        /\ f[i].free
    BY <2>5, <2>6 DEF Rest
  <2>8. f[i].addr + BlockSize = p /\ n <= f[i].size
    BY <1>2, <1>3, <2>1, <2>2, <2>7
  <2>9. PICK g : g = Aligned(f, i, n)
    BY Zenon
  <2>10. PICK m : Fills(f, i, m, 1, n) /\ Spliced(f, i, i, m, g) /\ m[1].addr = f[i].addr
    BY <1>4, <2>5, <2>6, <2>8, <2>9, AlignedFills
  <2>11. ~m[1].free
    BY <2>10, Zenon DEF Fills
  <2>12. i + 1 = k + 2
    <3>1. k \in Int
      BY <1>1, OrderedFacts
    <3> QED
      BY <2>6, <3>1
  <2>13. /\ Ordered(f) /\ Multiples(f) /\ Parted(f, i) /\ Owners(Used(f), l)
         /\ i \in DOMAIN f /\ (i < Len(f) => ~f[i + 1].free)
         /\ (i > 1 => ~(f[i - 1].free /\ m[1].free))
    BY <2>5, <2>6, <2>11, <2>12, Zenon
  <2>14. Hands(f, l, g, m[1].addr + BlockSize, n) /\ Headers(f) \subseteq Headers(g)
    BY <2>7, <2>10, <2>13, AllocatedNear
  <2>15. m[1].addr + BlockSize = p
    BY <2>8, <2>10, Zenon
  <2>16. Hands(f, l, g, p, n)
    BY <2>14, <2>15, Zenon
  <2>17. Stamped(Headers(h), h, g, p, n) = Stamped(Headers(f), f, g, p, n)
    BY <2>5, <2>14, Zenon DEF Stamped
  <2>18. Hands(h, l, g, p, n)
    BY <2>16, <2>17, Zenon DEF Hands
  <2> QED
    BY <2>1, <2>3, <2>6, <2>9, <2>18, Zenon
<1> QED
  BY <1>5, <1>6, Zenon

-----------------------------------------------------------------------------
(***************************************************************************)
(* The steps keep the invariant.                                           *)
(***************************************************************************)
\* A search along the list finds the first of the blocks that fit.
FirstFound == \A S \in SUBSET Nat : S # {} => Min(S) \in S

\* The sizes and alignments asked for are whole headers wherever aligned memory
\* is asked for, as for pages.
PageSized ==
    AlignedRequests # {}
        => /\ \A n \in MallocSizes \cup ReallocSizes : Multiple(n)
           /\ \A r \in AlignedRequests : Multiple(r[1])

\* The inductive invariant.
HeapInv == State(heap, live) /\ magic = Headers(heap) /\ fault \in BOOLEAN

\* Multiples of a multiple.
LEMMA MultipleTimes ==
    ASSUME NEW n \in Nat, NEW x \in Nat, Multiple(x)
    PROVE  Multiple(n * x)
<1>1. PICK q \in Nat : x = q * BlockSize
  BY Zenon DEF Multiple
<1>2. n * q \in Nat /\ BlockSize \in Nat
  BY HeapAssumption
<1>3. n * x = (n * q) * BlockSize
  BY <1>1, <1>2
<1> QED
  BY <1>2, <1>3, Zenon DEF Multiple

\* The sizes that are asked for.
LEMMA SizesAsked ==
    ASSUME PageSized
    PROVE  /\ \A n \in MallocSizes \cup ReallocSizes : n \in Nat /\ Sized(n)
           /\ \A i \in 1 .. MaxMembers, n \in MallocSizes : i * n \in Nat /\ Sized(i * n)
           /\ \A r \in AlignedRequests :
                 /\ r[1] \in Nat \ {0} /\ r[2] \in Nat \ {0}
                 /\ Multiple(r[1]) /\ Multiple(r[2])
<1>1. \A n \in MallocSizes \cup ReallocSizes : n \in Nat /\ Sized(n)
  BY HeapAssumption, Zenon DEF PageSized, Sized
<1>2. ASSUME NEW i \in 1 .. MaxMembers, NEW n \in MallocSizes
      PROVE  i * n \in Nat /\ Sized(i * n)
  <2>1. i \in Nat /\ n \in Nat /\ Sized(n)
    BY <1>1, HeapAssumption
  <2>2. i * n \in Nat
    BY <2>1
  <2> QED
    BY <2>1, <2>2, MultipleTimes, Zenon DEF Sized
<1>3. ASSUME NEW r \in AlignedRequests
      PROVE  /\ r[1] \in Nat \ {0} /\ r[2] \in Nat \ {0}
             /\ Multiple(r[1]) /\ Multiple(r[2])
  <2>1. r[1] \in Nat \ {0} /\ r[2] \in Nat \ {0} /\ r[2] % r[1] = 0 /\ Multiple(r[1])
    BY HeapAssumption, Zenon DEF PageSized
  <2>2. PICK x, y : x = r[1] /\ y = r[2]
    BY Zenon
  <2>3. x \in Nat \ {0} /\ y \in Nat \ {0} /\ y % x = 0 /\ Multiple(x)
    BY <2>1, <2>2, Zenon
  <2>4. y \div x \in Nat /\ y = (y \div x) * x
    BY <2>3
  <2>5. Multiple(y)
    BY <2>3, <2>4, MultipleTimes, Zenon
  <2> QED
    BY <2>1, <2>2, <2>5, Zenon
<1> QED
  BY <1>1, <1>2, <1>3, Zenon

\* One free block.
LEMMA InitHeap == Init => HeapInv
<1> SUFFICES ASSUME Init PROVE HeapInv
  BY Zenon
<1>1. PICK b : b = [addr |-> 0, size |-> HeapSize - BlockSize, free |-> TRUE]
  BY Zenon
<1>2. /\ heap = <<b>> /\ live = {} /\ magic = {0} /\ fault = FALSE
  BY <1>1, Zenon DEF Init
<1>3. b \in Block /\ b.addr = 0 /\ b.free /\ End(b) <= HeapSize
  BY <1>1, HeapAssumption DEF Block, Units, End
<1>4. heap \in Seq(Block) /\ Len(heap) = 1 /\ DOMAIN heap = {1} /\ heap[1] = b
  BY <1>2, <1>3
<1>5. Ordered(heap)
  BY <1>3, <1>4 DEF Ordered
<1>6. Parted(heap, 0)
  BY <1>4 DEF Parted
<1>7. Multiples(heap)
  <2>1. Multiple(0)
    <3>1. 0 \in Nat /\ 0 = 0 * BlockSize
      BY HeapAssumption
    <3> QED
      BY <3>1, Zenon DEF Multiple
  <2> QED
    BY <1>3, <1>4, <2>1, Zenon DEF Multiples
<1>8. Used(heap) = {}
  BY <1>3, <1>4, Zenon DEF Used
<1>9. Owners({}, live)
  BY <1>2, Zenon DEF Owners
<1>10. Headers(heap) = {0}
  BY <1>3, <1>4, Zenon DEF Headers
<1> QED
  BY <1>2, <1>5, <1>6, <1>7, <1>8, <1>9, <1>10, Zenon DEF HeapInv, State

\* The block an allocation takes.
LEMMA FitsIn ==
    ASSUME FirstFound, HeapInv, NEW n, Fitting(n) # {}
    PROVE  LET k == Min(Fitting(n))
           IN  k \in DOMAIN heap /\ heap[k].free /\ n <= heap[k].size
<1>1. Ordered(heap)
  BY Zenon DEF HeapInv, State
<1>2. \A k \in DOMAIN heap : k \in Nat
  BY <1>1, OrderedFacts
<1>3. Min(Fitting(n)) \in Fitting(n)
  <2>1. Fitting(n) \in SUBSET Nat
    BY <1>2, Zenon DEF Fitting
  <2> QED
    BY <2>1, Zenon DEF FirstFound
<1> QED
  BY <1>3, Zenon DEF Fitting

\* val_malloc and val_calloc.
LEMMA MallocInv ==
    ASSUME FirstFound, HeapInv, NEW n \in Nat, Sized(n), Malloc(n)
    PROVE  HeapInv'
<1>1. PICK k : k = Min(Fitting(n))
  BY Zenon
<1>2. PICK p : p = heap[k].addr + BlockSize
  BY Zenon
<1>3. /\ heap' = Taken(heap, k, n) /\ magic' = Stamped(magic, heap, heap', p, n)
      /\ live' = live \cup {[ptr |-> p, size |-> n]} /\ fault' = fault
      /\ Fitting(n) # {}
  BY <1>1, <1>2, Zenon DEF Malloc, Taken
<1>4. k \in DOMAIN heap /\ heap[k].free /\ n <= heap[k].size
  BY <1>1, <1>3, FitsIn
<1>5. State(heap, live) /\ magic = Headers(heap) /\ fault \in BOOLEAN
  BY Zenon DEF HeapInv
<1>6. Hands(heap, live, Taken(heap, k, n), p, n)
  BY <1>2, <1>4, <1>5, Take
<1>7. Hands(heap, live, heap', p, n)
  BY <1>3, <1>6, Zenon
<1>8. State(heap', live') /\ magic' = Headers(heap')
  BY <1>3, <1>5, <1>7, SMTT(20) DEF Hands
<1> QED
  BY <1>3, <1>5, <1>8 DEF HeapInv, Headers

\* val_free.
LEMMA FreeInv ==
    ASSUME HeapInv, NEW c \in live, Free(c)
    PROVE  HeapInv'
<1>1. PICK k : k = IndexOf(heap, c.ptr - BlockSize)
  BY Zenon
<1>2. /\ heap' = Coalesce(Freed(heap, k), k) /\ magic' = magic \ Invalidated(Freed(heap, k), k)
      /\ live' = live \ {c} /\ fault' = fault
  BY <1>1, Zenon DEF Free, Freed
<1>3. State(heap, live) /\ magic = Headers(heap) /\ fault \in BOOLEAN
  BY Zenon DEF HeapInv
<1>4. Returns(heap, k, live \ {c})
  BY <1>1, <1>3, GivenUp
<1>5. State(heap', live') /\ magic' = Headers(heap')
  BY <1>2, <1>3, <1>4, SMTT(20) DEF Returns
<1> QED
  BY <1>2, <1>3, <1>5 DEF HeapInv, Headers

\* val_aligned_alloc.
LEMMA AlignedAllocInv ==
    ASSUME FirstFound, HeapInv, NEW A \in Nat \ {0}, NEW n \in Nat \ {0},
           Multiple(A), Multiple(n), AlignedRequests # {}, AlignedAlloc(A, n)
    PROVE  HeapInv'
<1>1. PICK k : k = Min(FittingAligned(A, n))
  BY Zenon
<1>2. PICK p : p = AlignTo(heap[k].addr + BlockSize, A)
  BY Zenon
<1>3. PICK d : d = p - BlockSize - heap[k].addr
  BY Zenon
<1>4. /\ d >= BlockSize => heap' = Aligned(Split(heap, k, d - BlockSize), k + 1, n)
      /\ ~(d >= BlockSize) => heap' = Aligned(heap, k, n)
  BY <1>1, <1>2, <1>3, Zenon DEF AlignedAlloc, Aligned
<1>5. /\ magic' = Stamped(magic, heap, heap', p, n)
      /\ live' = live \cup {[ptr |-> p, size |-> n]} /\ fault' = fault
      /\ FittingAligned(A, n) # {}
  BY <1>1, <1>2, Zenon DEF AlignedAlloc
<1>6. State(heap, live) /\ magic = Headers(heap) /\ fault \in BOOLEAN /\ Ordered(heap)
  BY Zenon DEF HeapInv, State
<1>7. \A i \in DOMAIN heap : i \in Nat
  BY <1>6, OrderedFacts
<1>8. k \in FittingAligned(A, n)
  <2>1. FittingAligned(A, n) \in SUBSET Nat
    BY <1>7, Zenon DEF FittingAligned
  <2> QED
    BY <1>1, <1>5, <2>1, Zenon DEF FirstFound
<1>9. k \in DOMAIN heap /\ heap[k].free /\ heap[k].size + BlockSize >= p + n - heap[k].addr
  BY <1>2, <1>8, Zenon DEF FittingAligned
<1>10. /\ d >= BlockSize
            => Hands(heap, live, Aligned(Split(heap, k, d - BlockSize), k + 1, n), p, n)
       /\ ~(d >= BlockSize) => Hands(heap, live, Aligned(heap, k, n), p, n)
  BY <1>2, <1>3, <1>6, <1>9, AlignedHands, SMTT(20)
<1>11. Hands(heap, live, heap', p, n)
  BY <1>4, <1>10, Zenon
<1>12. State(heap', live') /\ magic' = Headers(heap')
  BY <1>5, <1>6, <1>11 DEF Hands
<1> QED
  BY <1>5, <1>6, <1>12 DEF HeapInv, Headers

\* val_realloc to less.
LEMMA ShrinkInv ==
    ASSUME HeapInv, NEW c \in live, NEW n \in Nat, Sized(n), ReallocShrink(c, n)
    PROVE  HeapInv'
<1>1. State(heap, live) /\ magic = Headers(heap) /\ fault \in BOOLEAN
  BY Zenon DEF HeapInv
<1>2. PICK k \in DOMAIN heap : /\ ~heap[k].free /\ c.ptr = heap[k].addr + BlockSize
                               /\ IndexOf(heap, c.ptr - BlockSize) = k
  BY <1>1, BlockOf, Zenon
<1>3. PICK f : f = Split(heap, k, n)
  BY Zenon
<1>4. /\ heap[k].size >= n
      /\ IF k < Len(f)
           THEN /\ heap' = Coalesce(f, k + 1)
                /\ magic' = (magic \cup (Headers(f) \ Headers(heap))) \ Invalidated(f, k + 1)
                /\ live' = (live \ {c}) \cup {Resized(c, n)}
                /\ UNCHANGED fault
           ELSE fault' = TRUE /\ UNCHANGED <<heap, magic, live>>
  BY <1>2, <1>3 DEF ReallocShrink, Resized
<1>5. CASE k < Len(f)
  <2>1. heap[k].size \in Nat /\ n <= heap[k].size
    <3>1. heap[k].size \in Nat
      BY <1>1, OrderedFacts, Zenon DEF State
    <3> QED
      BY <1>4, <3>1, Zenon
  <2>2. /\ State(Coalesce(f, k + 1), (live \ {c}) \cup {Resized(c, n)})
        /\ Headers(Coalesce(f, k + 1))
             = (Headers(heap) \cup (Headers(f) \ Headers(heap))) \ Invalidated(f, k + 1)
    <3>1. State(heap, live) /\ ~heap[k].free /\ c.ptr = heap[k].addr + BlockSize
      BY <1>1, <1>2, Zenon
    <3>2. n <= heap[k].size
      BY <2>1, Zenon
    <3>3. \A e : e = Split(heap, k, n) /\ k < Len(e)
                   => Cuts(heap, k, e, (live \ {c}) \cup {Resized(c, n)})
      BY <3>1, <3>2, Shrinks
    <3> QED
      BY <1>3, <1>5, <3>3, Zenon DEF Cuts
  <2>3. State(heap', live') /\ magic' = Headers(heap') /\ fault' = fault
    BY <1>1, <1>4, <1>5, <2>2, Zenon
  <2> QED
    BY <1>1, <2>3, Zenon DEF HeapInv, Headers
<1>6. CASE ~(k < Len(f))
  <2>1. fault' = TRUE /\ heap' = heap /\ magic' = magic /\ live' = live
    BY <1>4, <1>6, Zenon
  <2>2. State(heap', live') /\ magic' = Headers(heap')
    BY <1>1, <2>1, Zenon
  <2> QED
    BY <2>1, <2>2, Zenon DEF HeapInv, Headers
<1> QED
  BY <1>5, <1>6, Zenon

\* val_realloc to more, in place.
LEMMA InPlaceInv ==
    ASSUME HeapInv, NEW c \in live, NEW n \in Nat, Sized(n), ReallocInPlace(c, n)
    PROVE  HeapInv'
<1>1. State(heap, live) /\ magic = Headers(heap) /\ fault \in BOOLEAN
  BY Zenon DEF HeapInv
<1>2. PICK k \in DOMAIN heap : /\ ~heap[k].free /\ c.ptr = heap[k].addr + BlockSize
                               /\ IndexOf(heap, c.ptr - BlockSize) = k
  BY <1>1, BlockOf, Zenon
<1>3. PICK lo : lo = Min(Run(heap, k))
  BY Zenon
<1>4. PICK p : p = Coalesce(heap, k)
  BY Zenon
<1>5. /\ GrowsInPlace(k, n) /\ heap' = Taken(p, lo, n)
      /\ magic' = Stamped(magic \ Invalidated(heap, k), p, heap', p[lo].addr + BlockSize, n)
      /\ live' = (live \ {c}) \cup {[ptr |-> p[lo].addr + BlockSize, size |-> n]}
      /\ fault' = fault
  BY <1>2, <1>3, <1>4, Zenon DEF ReallocInPlace, Taken
<1>6. PICK j \in {k - 1, k + 1} \cap DOMAIN heap :
         heap[j].free /\ n <= heap[k].size + BlockSize + heap[j].size
  <2>1. PICK j \in {k - 1, k + 1} \cap DOMAIN heap :
           heap[j].free /\ heap[k].size + BlockSize + heap[j].size >= n
    BY <1>5, Zenon DEF GrowsInPlace
  <2>2. heap[k].size \in Nat /\ heap[j].size \in Nat /\ BlockSize \in Nat
    BY <1>1, OrderedFacts, HeapAssumption DEF State
  <2>3. n <= heap[k].size + BlockSize + heap[j].size
    BY <2>1, <2>2, Zenon
  <2> QED
    BY <2>1, <2>3, Zenon
<1>7. PICK g : g = Taken(p, lo, n)
  BY Zenon
<1>8. /\ State(g, (live \ {c}) \cup {[ptr |-> p[lo].addr + BlockSize, size |-> n]})
      /\ Stamped(Headers(heap) \ Invalidated(heap, k), p, g, p[lo].addr + BlockSize, n)
           = Headers(g)
  <2>1. State(heap, live) /\ ~heap[k].free /\ c.ptr = heap[k].addr + BlockSize
    BY <1>1, <1>2, Zenon
  <2> QED
    BY <1>3, <1>4, <1>6, <1>7, <2>1, Grown, SMTT(20)
<1>9. heap' = g
  BY <1>5, <1>7, SMTT(20)
<1>10. State(heap', live') /\ magic' = Headers(heap')
  BY <1>1, <1>5, <1>8, <1>9, SMTT(20)
<1> QED
  BY <1>1, <1>5, <1>10, SMTT(20) DEF HeapInv, Headers

\* val_realloc to more, elsewhere.
LEMMA MoveInv ==
    ASSUME FirstFound, HeapInv, NEW c \in live, NEW n \in Nat, Sized(n), ReallocMove(c, n)
    PROVE  HeapInv'
<1>1. State(heap, live) /\ magic = Headers(heap) /\ fault \in BOOLEAN
  BY Zenon DEF HeapInv
<1>2. PICK k : k = Min(Fitting(n))
  BY Zenon
<1>3. PICK p : p = heap[k].addr + BlockSize
  BY Zenon
<1>4. PICK g : g = Taken(heap, k, n)
  BY Zenon
<1>5. PICK o : o = IndexOf(g, c.ptr - BlockSize)
  BY Zenon
<1>6. /\ Fitting(n) # {} /\ heap' = Coalesce(Freed(g, o), o)
      /\ magic' = Stamped(magic, heap, g, p, n) \ Invalidated(Freed(g, o), o)
      /\ live' = (live \ {c}) \cup {[ptr |-> p, size |-> n]} /\ fault' = fault
  BY <1>2, <1>3, <1>4, <1>5, SMTT(20) DEF ReallocMove, Taken, Freed
<1>7. k \in DOMAIN heap /\ heap[k].free /\ n <= heap[k].size
  BY <1>2, <1>6, FitsIn
<1>8. Hands(heap, live, g, p, n)
  <2>1. Hands(heap, live, Taken(heap, k, n), heap[k].addr + BlockSize, n)
    BY <1>1, <1>7, Take, SMTT(20)
  <2> QED
    BY <1>3, <1>4, <2>1, SMTT(20)
<1>9. /\ \A i : i = IndexOf(g, c.ptr - BlockSize)
                  => Returns(g, i, (live \ {c}) \cup {[ptr |-> p, size |-> n]})
      /\ Stamped(Headers(heap), heap, g, p, n) = Headers(g)
  BY <1>8, Moved
<1>10. Returns(g, o, (live \ {c}) \cup {[ptr |-> p, size |-> n]})
  BY <1>5, <1>9, Zenon
<1>11. State(heap', live') /\ magic' = Headers(heap')
  BY <1>1, <1>6, <1>9, <1>10 DEF Returns
<1> QED
  BY <1>1, <1>6, <1>11 DEF HeapInv, Headers

-----------------------------------------------------------------------------
(***************************************************************************)
(* The invariant is kept, and what follows from it.                        *)
(***************************************************************************)
\* Every operation of the heap keeps the invariant.
LEMMA NextHeap == PageSized /\ FirstFound /\ HeapInv /\ [Next]_vars => HeapInv'
<1> SUFFICES ASSUME PageSized, FirstFound, HeapInv, [Next]_vars PROVE HeapInv'
  BY Zenon
<1>1. /\ \A n \in MallocSizes \cup ReallocSizes : n \in Nat /\ Sized(n)
      /\ \A i \in 1 .. MaxMembers, n \in MallocSizes : i * n \in Nat /\ Sized(i * n)
      /\ \A r \in AlignedRequests :
            /\ r[1] \in Nat \ {0} /\ r[2] \in Nat \ {0}
            /\ Multiple(r[1]) /\ Multiple(r[2])
  BY SizesAsked, Zenon
<1>2. ASSUME NEW n \in MallocSizes, Malloc(n) PROVE HeapInv'
  BY <1>1, <1>2, MallocInv, Zenon
<1>3. ASSUME NEW i \in 1 .. MaxMembers, NEW n \in MallocSizes, Calloc(i, n) PROVE HeapInv'
  <2>1. i * n \in Nat /\ Sized(i * n) /\ Malloc(i * n)
    BY <1>1, <1>3, Zenon DEF Calloc
  <2> QED
    BY <2>1, MallocInv, Zenon
<1>4. ASSUME NEW r \in AlignedRequests, AlignedAlloc(r[1], r[2]) PROVE HeapInv'
  BY <1>1, <1>4, AlignedAllocInv, Zenon
<1>5. ASSUME NEW c \in live, Free(c) PROVE HeapInv'
  BY <1>5, FreeInv, Zenon
<1>6. ASSUME NEW c \in live, NEW n \in ReallocSizes, Realloc(c, n) PROVE HeapInv'
  <2>1. n \in Nat /\ Sized(n)
    BY <1>1, Zenon
  <2>2. CASE ReallocShrink(c, n)
    BY <2>1, <2>2, ShrinkInv
  <2>3. CASE ReallocInPlace(c, n)
    BY <2>1, <2>3, InPlaceInv
  <2>4. CASE ReallocMove(c, n)
    BY <2>1, <2>4, MoveInv, SMTT(20)
  <2> QED
    BY <1>6, <2>2, <2>3, <2>4 DEF Realloc
<1>7. CASE UNCHANGED vars
  BY <1>7 DEF vars, HeapInv, State, Ordered, Parted, Multiples, Owners, Used, Headers
<1> QED
  BY <1>2, <1>3, <1>4, <1>5, <1>6, <1>7 DEF Next, Allocate

\* The types follow.
LEMMA HeapTyped == HeapInv => TypeOK
<1> SUFFICES ASSUME HeapInv PROVE TypeOK
  BY Zenon
<1>1. Ordered(heap) /\ Owners(Used(heap), live) /\ magic = Headers(heap) /\ fault \in BOOLEAN
  BY Zenon DEF HeapInv, State
<1>2. \A k \in DOMAIN heap : heap[k] \in Block
  BY <1>1, OrderedFacts, Zenon
<1>3. \A b \in Block : b.addr \in Units
  BY Zenon DEF Block
<1>4. magic \subseteq Units
  BY <1>1, <1>2, <1>3 DEF Headers
<1>5. live \subseteq [ptr : Units, size : Units]
  BY <1>1, Zenon DEF Owners
<1> QED
  BY <1>1, <1>2, <1>4, <1>5, Zenon DEF TypeOK

\* What blocks i and j of an ordered list keep apart.
LEMMA BlocksApart ==
    ASSUME NEW x \in Nat, NEW m \in Nat, NEW y \in Nat, NEW n \in Nat, NEW s \in Nat, NEW t \in Nat,
           m <= s, n <= t, x + BlockSize + s <= y
    PROVE  /\ (x + BlockSize .. x + BlockSize + m - 1)
                \cap (y + BlockSize .. y + BlockSize + n - 1) = {}
           /\ (x + BlockSize .. x + BlockSize + m - 1) \cap (y .. y + BlockSize - 1) = {}
           /\ (y + BlockSize .. y + BlockSize + n - 1) \cap (x .. x + BlockSize - 1) = {}
BY HeapAssumption

\* Blocks in address order, each with its header before its payload, keep apart
\* what their clients hold.
LEMMA HeapDisjoint == HeapInv => NoOverlap
<1> SUFFICES ASSUME HeapInv, NEW c \in live
             PROVE  /\ Region(c) \subseteq 0 .. HeapSize - 1
                    /\ \A d \in live \ {c} : Region(c) \cap Region(d) = {}
                    /\ \A a \in Headers(heap) : Region(c) \cap HeaderAt(a) = {}
  BY Zenon DEF NoOverlap
<1>1. State(heap, live) /\ Ordered(heap) /\ live \subseteq [ptr : Units, size : Units]
  BY Zenon DEF HeapInv, State, Owners
<1>2. \A d \in live : d.size \in Nat
  BY <1>1, HeapAssumption DEF Units
<1>3. PICK i \in DOMAIN heap : c.ptr = heap[i].addr + BlockSize /\ c.size <= heap[i].size
  BY <1>1, BlockOf, Zenon
<1>4. \A k \in DOMAIN heap : /\ heap[k].addr \in Nat /\ heap[k].size \in Nat /\ k \in Int
                             /\ heap[k].addr + BlockSize + heap[k].size <= HeapSize
  BY <1>1, OrderedFacts
<1>5. \A k, j \in DOMAIN heap : k < j => heap[k].addr + BlockSize + heap[k].size <= heap[j].addr
  BY <1>1, OrderedFacts, Zenon
<1>6. PICK x, m, s : x = heap[i].addr /\ m = c.size /\ s = heap[i].size
  BY Zenon
<1>7. x \in Nat /\ m \in Nat /\ s \in Nat /\ m <= s /\ x + BlockSize + s <= HeapSize
  BY <1>2, <1>3, <1>4, <1>6
<1>8. Region(c) = x + BlockSize .. x + BlockSize + m - 1
  BY <1>3, <1>6 DEF Region
<1>9. Region(c) \subseteq 0 .. HeapSize - 1
  BY <1>7, <1>8, HeapAssumption
<1>10. ASSUME NEW d \in live \ {c} PROVE Region(c) \cap Region(d) = {}
  <2>1. PICK j \in DOMAIN heap : d.ptr = heap[j].addr + BlockSize /\ d.size <= heap[j].size
    BY <1>1, BlockOf
  <2>2. d.ptr # c.ptr
    BY <1>1, Zenon DEF State, Owners
  <2>3. i # j
    BY <1>3, <2>1, <2>2
  <2>4. PICK y, n, t : y = heap[j].addr /\ n = d.size /\ t = heap[j].size
    BY Zenon
  <2>5. y \in Nat /\ n \in Nat /\ t \in Nat /\ n <= t
    BY <1>2, <1>4, <2>1, <2>4
  <2>6. Region(d) = y + BlockSize .. y + BlockSize + n - 1
    BY <2>1, <2>4, Zenon DEF Region
  <2>7. x + BlockSize + s <= y \/ y + BlockSize + t <= x
    BY <1>4, <1>5, <1>6, <2>3, <2>4, SMTT(20)
  <2>8. CASE x + BlockSize + s <= y
    BY <1>7, <1>8, <2>5, <2>6, <2>8, BlocksApart, Zenon
  <2>9. CASE y + BlockSize + t <= x
    BY <1>7, <1>8, <2>5, <2>6, <2>9, BlocksApart, Zenon
  <2> QED
    BY <2>7, <2>8, <2>9, SMTT(20)
<1>11. ASSUME NEW j \in DOMAIN heap PROVE Region(c) \cap HeaderAt(heap[j].addr) = {}
  <2>1. PICK y, t : y = heap[j].addr /\ t = heap[j].size
    BY Zenon
  <2>2. y \in Nat /\ t \in Nat /\ 0 \in Nat /\ 0 <= t /\ t <= t
    BY <1>4, <2>1
  <2>3. HeaderAt(heap[j].addr) = y .. y + BlockSize - 1
    BY <2>1, Zenon DEF HeaderAt
  <2>4. x = y \/ x + BlockSize + s <= y \/ y + BlockSize + t <= x
    BY <1>4, <1>5, <1>6, <2>1, SMTT(20)
  <2>5. CASE x = y
    BY <1>7, <1>8, <2>3, <2>5, HeapAssumption, SMTT(20)
  <2>6. CASE x + BlockSize + s <= y
    BY <1>7, <1>8, <2>2, <2>3, <2>6, BlocksApart, Zenon
  <2>7. CASE y + BlockSize + t <= x
    BY <1>7, <1>8, <2>2, <2>3, <2>7, BlocksApart, Zenon
  <2> QED
    BY <2>4, <2>5, <2>6, <2>7
<1>12. \A a \in Headers(heap) : Region(c) \cap HeaderAt(a) = {}
  BY <1>11, Zenon DEF Headers
<1> QED
  BY <1>9, <1>10, <1>12

\* The owners of the blocks in use are the clients, one for one.
LEMMA HeapPointers == HeapInv => PointersHaveBlocks
<1> SUFFICES ASSUME HeapInv PROVE PointersHaveBlocks
  BY Zenon
<1>1. State(heap, live) /\ Owners(Used(heap), live)
  BY Zenon DEF HeapInv, State
<1>2. ASSUME NEW c \in live
      PROVE  \E k \in { j \in DOMAIN heap : ~heap[j].free } :
                heap[k].addr + BlockSize = c.ptr /\ heap[k].size >= c.size
  <2>1. PICK k \in DOMAIN heap : /\ ~heap[k].free /\ c.ptr = heap[k].addr + BlockSize
                                 /\ c.size <= heap[k].size
    BY <1>1, BlockOf, SMTT(20)
  <2>2. c.size \in Int /\ heap[k].size \in Int
    BY <1>1, OrderedFacts, HeapAssumption DEF State, Owners, Units
  <2> QED
    BY <2>1, <2>2, Zenon
<1>3. ASSUME NEW k \in { j \in DOMAIN heap : ~heap[j].free }
      PROVE  \E c \in live : c.ptr = heap[k].addr + BlockSize
  BY <1>1, Zenon DEF Owners, Used
<1>4. { heap[k].addr + BlockSize : k \in { j \in DOMAIN heap : ~heap[j].free } }
        = { c.ptr : c \in live }
  <2>1. ASSUME NEW k \in { j \in DOMAIN heap : ~heap[j].free }
        PROVE  heap[k].addr + BlockSize \in { c.ptr : c \in live }
    BY <1>3, Zenon
  <2>2. ASSUME NEW c \in live
        PROVE  c.ptr \in { heap[k].addr + BlockSize : k \in { j \in DOMAIN heap : ~heap[j].free } }
    BY <1>2, Zenon
  <2> QED
    BY <2>1, <2>2, Zenon
<1> QED
  BY <1>2, <1>4 DEF PointersHaveBlocks

\* No two neighbours are free.
LEMMA HeapJoined == HeapInv => Coalesced
<1> SUFFICES ASSUME HeapInv PROVE Coalesced
  BY Zenon
<1>1. Ordered(heap) /\ Parted(heap, 0)
  BY Zenon DEF HeapInv, State
<1>2. \A i \in 1 .. Len(heap) - 1 : 0 \notin {i, i + 1}
  BY <1>1, OrderedFacts
<1> QED
  BY <1>1, <1>2 DEF Coalesced, Parted

-----------------------------------------------------------------------------
(***************************************************************************)
(* The theorems.                                                           *)
(***************************************************************************)
\* The natural numbers are well ordered.
INSTANCE WellFoundedInduction

LEMMA FirstFit == FirstFound
<1> SUFFICES ASSUME NEW S \in SUBSET Nat, S # {} PROVE Min(S) \in S
  BY Zenon DEF FirstFound
<1> DEFINE R == { ss \in Nat \X Nat : ss[1] < ss[2] }
<1>1. IsWellFoundedOn(R, Nat)
  BY NatLessThanWellFounded, Zenon DEF OpToRel
<1>2. PICK x \in S : \A y \in S : ~(<<y, x>> \in R)
  <2> HIDE DEF R
  <2> QED
    BY <1>1, WFMin, Zenon
<1>3. \A y \in S : x <= y
  <2> SUFFICES ASSUME NEW y \in S PROVE x <= y
    BY Zenon
  <2>1. x \in Nat /\ y \in Nat
    BY Zenon
  <2>2. y < x => <<y, x>> \in R
    BY <2>1, Zenon
  <2> QED
    BY <1>2, <2>1, <2>2
<1>4. S \subseteq Int
  OBVIOUS
<1>5. Min(S) = x
  BY <1>3, <1>4, Least, Zenon
<1> QED
  BY <1>5

(* The list is in address order without overlap and inside the buffer, no  *)
(* two neighbours are free, every block in use belongs to one client, under *)
(* the pointer behind its header, and the valid magic words are those of   *)
(* the headers in the list: val_malloc, val_calloc, val_aligned_alloc,     *)
(* val_free and val_realloc keep all of it, for every size of the heap and *)
(* of the requests.  Where aligned memory is asked for, requests are whole *)
(* headers, as pages are; without that the statement is false              *)
(* (val_aligned_alloc then may leave a pointer without a header).          *)
THEOREM HeapStructure == PageSized => (Spec => []HeapInv)
<1> SUFFICES ASSUME PageSized PROVE Spec => []HeapInv
  BY Zenon
<1>1. Init => HeapInv
  BY InitHeap, Zenon
<1>2. HeapInv /\ [Next]_vars => HeapInv'
  BY NextHeap, FirstFit
<1> QED
  BY <1>1, <1>2, PTL DEF Spec

(* Blocks and pointers stay inside the buffer.                             *)
THEOREM HeapTypes == PageSized => (Spec => []TypeOK)
<1> SUFFICES ASSUME PageSized PROVE Spec => []TypeOK
  BY Zenon
<1>1. Spec => []HeapInv
  BY HeapStructure, Zenon
<1> QED
  BY <1>1, HeapTyped, PTL

(* What val_malloc, val_calloc, val_aligned_alloc and val_realloc hand out *)
(* lies in the heap, overlaps no memory another client holds and no header *)
(* of the list.                                                            *)
THEOREM ClientsKeepApart == PageSized => (Spec => []NoOverlap)
<1> SUFFICES ASSUME PageSized PROVE Spec => []NoOverlap
  BY SMTT(20)
<1>1. Spec => []HeapInv
  BY HeapStructure, Zenon
<1> QED
  BY <1>1, HeapDisjoint, PTL

(* val_free and val_realloc find the block of every pointer a client holds, *)
(* and no block in use is lost by a split or a join.                       *)
THEOREM PointersKept == PageSized => (Spec => []PointersHaveBlocks)
<1> SUFFICES ASSUME PageSized PROVE Spec => []PointersHaveBlocks
  OBVIOUS
<1>1. Spec => []HeapInv
  BY HeapStructure, Zenon
<1> QED
  BY <1>1, HeapPointers, PTL

(* BLOCK_VALID_MAGIC is exactly in the headers of the list: val_coalesce   *)
(* invalidates each header it takes out, val_split marks each it puts in.  *)
THEOREM MagicKept == PageSized => (Spec => []MagicMatchesList)
<1> SUFFICES ASSUME PageSized PROVE Spec => []MagicMatchesList
  BY Zenon
<1>1. Spec => []HeapInv
  BY HeapStructure, Zenon
<1>2. HeapInv => MagicMatchesList
  BY SMTT(20) DEF HeapInv, MagicMatchesList
<1> QED
  BY <1>1, <1>2, PTL

(* val_free and val_realloc leave no two free neighbours unjoined.         *)
THEOREM FreeBlocksJoined == PageSized => (Spec => []Coalesced)
<1> SUFFICES ASSUME PageSized PROVE Spec => []Coalesced
  BY Zenon
<1>1. Spec => []HeapInv
  BY HeapStructure, Zenon
<1> QED
  BY <1>1, HeapJoined, PTL
=============================================================================
