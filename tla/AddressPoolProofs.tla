------------------------- MODULE AddressPoolProofs -------------------------
(***************************************************************************)
(* Proofs about AddressPool.  For any ranges of the file that do not       *)
(* overlap, any number of nodes and any sequence of provisionings,         *)
(* failures, disconnects, resets and restarts in which no block is         *)
(* released next to a free range, the pool and the blocks in use divide    *)
(* the addresses of the file, and the list of ranges implements the set of *)
(* AddressSpace.                                                           *)
(***************************************************************************)
EXTENDS AddressPool, WellFoundedInduction, TLAPS

\* Two ranges, a range and a block, two blocks, without a common address.
Separate(r, s) == r.max < s.min \/ s.max < r.min
Clear(r, b) == r.max < b.addr \/ b.addr + b.num <= r.min
Asunder(b, c) == b.addr + b.num <= c.addr \/ c.addr + c.num <= b.addr

\* Range r is part of range s.
Within(r, s) == s.min <= r.min /\ r.max <= s.max

Apart(p) == \A i, j \in DOMAIN p : i # j => Separate(p[i], p[j])

\* Address a is in the list p, in a block of H.
InPool(p, a) == \E i \in DOMAIN p : p[i].min <= a /\ a <= p[i].max
InBlocks(H, a) == \E b \in H : b.addr <= a /\ a < b.addr + b.num

\* The list p and the blocks of H divide the ranges of the file.
Divided(p, H) ==
  /\ Apart(p)
  /\ \A b \in H, i \in DOMAIN p : Clear(p[i], b)
  /\ \A b, c \in H : b # c => Asunder(b, c)
  /\ \A i \in DOMAIN p : \E j \in DOMAIN Ranges : Within(p[i], Ranges[j])
  /\ \A b \in H : \E j \in DOMAIN Ranges : Fits(Ranges[j], b)
  /\ \A a \in Nat : InPool(Ranges, a) => InPool(p, a) \/ InBlocks(H, a)

\* A block has one holder.
OneHolder ==
  /\ nodes \cap lost = {}
  /\ prov \notin nodes \cup lost

\* The database has no block across two ranges of the file.
DbFits == \A k \in DOMAIN db : \E j \in DOMAIN Ranges : Fits(Ranges[j], db[k])

\* A start has the nodes read so far and nothing else; they do not overlap.
SoFar(n) ==
  /\ nodes = {db[k] : k \in 1..n}
  /\ \A i, j \in 1..n : i # j => Asunder(db[i], db[j])

ReadSoFar == read < Len(db) => SoFar(read) /\ prov = None /\ lost = {}

\* Every node still to be read will get its block, if no two of the database
\* overlap.
StillFits ==
  up /\ Consistent =>
    \A k \in (read + 1)..Len(db) : \E i \in DOMAIN pool : Fits(pool[i], db[k])

RefusedRightly == ~up => ~Consistent /\ read < Len(db)

IInv ==
  /\ TypeOK /\ Divided(pool, Held)
  /\ OneHolder /\ DbFits /\ ReadSoFar /\ StillFits /\ RefusedRightly
-----------------------------------------------------------------------------
\* A set of natural numbers that is not empty has a least element.
LEMMA LeastExists ==
  ASSUME NEW I \in SUBSET Nat, I # {}
  PROVE  \E x \in I : \A y \in I : x <= y
<1> DEFINE R == OpToRel(<, Nat)
<1>1. IsWellFoundedOn(R, Nat)
  BY NatLessThanWellFounded
<1>2. \A x, y \in Nat : x < y => <<x, y>> \in R
  BY DEF OpToRel
<1> HIDE DEF R
<1>3. PICK x \in I : \A y \in I : ~ (<<y, x>> \in R)
  BY <1>1, WFMin
<1>4. \A y \in I : x <= y
  <2> SUFFICES ASSUME NEW y \in I PROVE x <= y
    OBVIOUS
  <2>1. x \in Nat /\ y \in Nat
    OBVIOUS
  <2>2. ~(y < x)
    BY <1>2, <1>3, <2>1
  <2> QED
    BY ONLY <2>1, <2>2
<1> QED
  BY <1>4

\* Where the list is searched, the index found is one of those searched for.
LEMMA MinFacts ==
  ASSUME NEW I \in SUBSET Nat, I # {}
  PROVE  Min(I) \in I
BY LeastExists DEF Min

\* match_address_range finds a range that is large enough, if there is one.
LEMMA FirstLargeFacts ==
  ASSUME NEW p \in Seq(RangeType), NEW num \in Nat, NEW i, i = FirstLarge(p, num)
  PROVE  IF i = 0 THEN \A k \in DOMAIN p : ~(p[k].max - p[k].min >= num - 1)
         ELSE i \in DOMAIN p /\ p[i].max - p[i].min >= num - 1
<1> DEFINE I == {k \in 1..Len(p) : p[k].max - p[k].min >= num - 1}
<1>1. i = IF I # {} THEN Min(I) ELSE 0
  BY DEF FirstLarge, SelectInSeq
<1>2. I \in SUBSET Nat /\ 0 \notin I /\ DOMAIN p = 1..Len(p)
  OBVIOUS
<1>3. I # {} => Min(I) \in I
  BY <1>2, MinFacts
<1> QED
  BY <1>1, <1>2, <1>3

\* g_list_insert_sorted finds a place.
LEMMA FirstAfterFacts ==
  ASSUME NEW p \in Seq(RangeType), NEW r, NEW i, i = FirstAfter(p, r)
  PROVE  IF i = 0 THEN \A k \in DOMAIN p : ~(range_cmp(r, p[k]) <= 0)
         ELSE i \in DOMAIN p /\ range_cmp(r, p[i]) <= 0
<1> DEFINE I == {k \in 1..Len(p) : range_cmp(r, p[k]) <= 0}
<1>1. i = IF I # {} THEN Min(I) ELSE 0
  BY DEF FirstAfter, SelectInSeq
<1>2. I \in SUBSET Nat /\ 0 \notin I /\ DOMAIN p = 1..Len(p)
  OBVIOUS
<1>3. I # {} => Min(I) \in I
  BY <1>2, MinFacts
<1> QED
  BY <1>1, <1>2, <1>3

\* net_release_address finds a range that joins, if there is one.
LEMMA FirstJoiningFacts ==
  ASSUME NEW p \in Seq(RangeType), NEW b, NEW i, i = FirstJoining(p, b)
  PROVE  IF i = 0 THEN \A k \in DOMAIN p : ~(Joins(p[k], b))
         ELSE i \in DOMAIN p /\ Joins(p[i], b)
<1> DEFINE I == {k \in 1..Len(p) : Joins(p[k], b)}
<1>1. i = IF I # {} THEN Min(I) ELSE 0
  BY DEF FirstJoining, SelectInSeq
<1>2. I \in SUBSET Nat /\ 0 \notin I /\ DOMAIN p = 1..Len(p)
  OBVIOUS
<1>3. I # {} => Min(I) \in I
  BY <1>2, MinFacts
<1> QED
  BY <1>1, <1>2, <1>3

\* net_reserve_address_range finds a range around the block, if there is one.
LEMMA FirstAroundFacts ==
  ASSUME NEW p \in Seq(RangeType), NEW b, NEW i, i = FirstAround(p, b)
  PROVE  IF i = 0 THEN \A k \in DOMAIN p : ~(Fits(p[k], b))
         ELSE i \in DOMAIN p /\ Fits(p[i], b)
<1> DEFINE I == {k \in 1..Len(p) : Fits(p[k], b)}
<1>1. i = IF I # {} THEN Min(I) ELSE 0
  BY DEF FirstAround, SelectInSeq
<1>2. I \in SUBSET Nat /\ 0 \notin I /\ DOMAIN p = 1..Len(p)
  OBVIOUS
<1>3. I # {} => Min(I) \in I
  BY <1>2, MinFacts
<1> QED
  BY <1>1, <1>2, <1>3

-----------------------------------------------------------------------------
(* Sequences. *)

\* t is s without its element i; t is s with e put in at i.
Without(s, i, t) ==
  /\ DOMAIN t = 1..(Len(s) - 1)
  /\ \A j \in DOMAIN t : t[j] = s[IF j < i THEN j ELSE j + 1]

With(s, i, e, t) ==
  /\ DOMAIN t = 1..(Len(s) + 1)
  /\ \A j \in DOMAIN t :
       t[j] = IF j < i THEN s[j] ELSE IF j = i THEN e ELSE s[j - 1]

LEMMA SecondPart ==
  ASSUME NEW T, NEW a \in Seq(T), NEW b \in Seq(T),
         NEW j \in 1..(Len(a) + Len(b)), j > Len(a)
  PROVE  (a \o b)[j] = b[j - Len(a)]
OBVIOUS

LEMMA Parts ==
  ASSUME NEW T, NEW s \in Seq(T), NEW i \in 1..(Len(s) + 1)
  PROVE  /\ SubSeq(s, 1, i - 1) \in Seq(T)
         /\ Len(SubSeq(s, 1, i - 1)) = i - 1
         /\ \A j \in 1..(i - 1) : SubSeq(s, 1, i - 1)[j] = s[j]
         /\ SubSeq(s, i, Len(s)) \in Seq(T)
         /\ Len(SubSeq(s, i, Len(s))) = Len(s) - i + 1
         /\ \A j \in 1..(Len(s) - i + 1) : SubSeq(s, i, Len(s))[j] = s[i + j - 1]
<1>1. i \in Nat /\ Len(s) \in Nat
  OBVIOUS
<1> QED
  BY <1>1

\* A sequence followed by another.
LEMMA Joined ==
  ASSUME NEW T, NEW a \in Seq(T), NEW b \in Seq(T)
  PROVE  /\ a \o b \in Seq(T)
         /\ Len(a) \in Nat /\ Len(b) \in Nat /\ Len(a \o b) = Len(a) + Len(b)
         /\ DOMAIN (a \o b) = 1..(Len(a) + Len(b))
         /\ \A j \in 1..Len(a) : (a \o b)[j] = a[j]
OBVIOUS

\* RemoveAt leaves one element out.
LEMMA RemoveFacts ==
  ASSUME NEW T, NEW s \in Seq(T), NEW i \in DOMAIN s
  PROVE  RemoveAt(s, i) \in Seq(T) /\ Without(s, i, RemoveAt(s, i))
<1> DEFINE a == SubSeq(s, 1, i - 1)
           b == SubSeq(s, i + 1, Len(s))
<1>1. i \in 1..Len(s) /\ Len(s) \in Nat /\ i \in 1..(Len(s) + 1) /\ i + 1 \in 1..(Len(s) + 1)
  OBVIOUS
<1>2. a \in Seq(T) /\ Len(a) = i - 1 /\ \A j \in 1..(i - 1) : a[j] = s[j]
  BY <1>1, Parts
<1>3. b \in Seq(T) /\ Len(b) = Len(s) - i /\ \A j \in 1..(Len(s) - i) : b[j] = s[i + j]
  BY <1>1
<1> HIDE DEF a, b
<1>4. Len(a \o b) = Len(s) - 1 /\ DOMAIN (a \o b) = 1..(Len(s) - 1)
  BY <1>1, <1>2, <1>3
<1>5. ASSUME NEW j \in 1..(Len(s) - 1)
      PROVE  (a \o b)[j] = s[IF j < i THEN j ELSE j + 1]
  <2>1. CASE j < i
    <3>1. j \in 1..Len(a) /\ j \in 1..(i - 1)
      BY <1>1, <1>2, <2>1
    <3>2. (a \o b)[j] = a[j]
      BY <1>2, <1>3, <3>1, Joined
    <3> QED
      BY <1>2, <2>1, <3>1, <3>2
  <2>2. CASE ~(j < i)
    <3>1. j - (i - 1) \in 1..(Len(s) - i)
      BY <1>1, <2>2
    <3>2. j \in 1..(Len(a) + Len(b)) /\ j > Len(a)
      <4>1. Len(a) + Len(b) = Len(s) - 1
        BY <1>1, <1>2, <1>3
      <4>2. j > i - 1
        BY <1>1, <2>2
      <4> QED
        BY <1>2, <4>1, <4>2
    <3>3. (a \o b)[j] = b[j - (i - 1)]
      <4>1. (a \o b)[j] = b[j - Len(a)]
        BY ONLY <1>2, <1>3, <3>2, SecondPart
      <4> QED
        BY <1>2, <4>1
    <3>4. i + (j - (i - 1)) = j + 1
      BY <1>1
    <3> QED
      BY <1>3, <2>2, <3>1, <3>3, <3>4
  <2> QED
    BY <2>1, <2>2
<1>6. a \o b \in Seq(T)
  BY <1>2, <1>3
<1> QED
  BY <1>4, <1>5, <1>6 DEF Without, RemoveAt, a, b

LEMMA AppendFacts ==
  ASSUME NEW T, NEW s \in Seq(T), NEW e \in T
  PROVE  Append(s, e) \in Seq(T) /\ With(s, Len(s) + 1, e, Append(s, e))
BY DEF With

LEMMA Single ==
  ASSUME NEW T, NEW e \in T
  PROVE  \E z \in Seq(T) : z = <<e>> /\ Len(z) = 1 /\ z[1] = e
<1>1. <<e>> \in Seq(T)
  OBVIOUS
<1>2. Len(<<e>>) = 1
  OBVIOUS
<1>3. <<e>>[1] = e
  OBVIOUS
<1> QED
  BY <1>1, <1>2, <1>3, Zenon

\* InsertAt puts one element in.
LEMMA InsertFacts ==
  ASSUME NEW T, NEW s \in Seq(T), NEW e \in T, NEW i \in DOMAIN s
  PROVE  InsertAt(s, i, e) \in Seq(T) /\ With(s, i, e, InsertAt(s, i, e))
<1> DEFINE a == SubSeq(s, 1, i - 1)
           b == SubSeq(s, i, Len(s))
<1>1. i \in 1..Len(s) /\ Len(s) \in Nat /\ i \in 1..(Len(s) + 1)
  OBVIOUS
<1>2. a \in Seq(T) /\ Len(a) = i - 1 /\ \A j \in 1..(i - 1) : a[j] = s[j]
  BY <1>1, Parts
<1>3. /\ b \in Seq(T) /\ Len(b) = Len(s) - i + 1
      /\ \A j \in 1..(Len(s) - i + 1) : b[j] = s[i + j - 1]
  BY <1>1, Parts
<1> HIDE DEF a, b
<1>4. PICK z \in Seq(T) : z = <<e>> /\ Len(z) = 1 /\ z[1] = e
  BY Single
<1> DEFINE c == a \o z
<1>5. c \in Seq(T) /\ Len(c) = i /\ c[i] = e /\ \A j \in 1..(i - 1) : c[j] = s[j]
  <2>1. /\ c \in Seq(T) /\ Len(c) = Len(a) + Len(z)
        /\ \A j \in 1..Len(a) : c[j] = a[j]
    BY <1>2, Joined
  <2>2. i \in 1..(Len(a) + Len(z)) /\ i > Len(a) /\ i - Len(a) = 1 /\ Len(a) + Len(z) = i
    BY <1>1, <1>2, <1>4
  <2>3. c[i] = z[i - Len(a)]
    BY <1>2, <2>2, SecondPart
  <2> HIDE DEF c
  <2> QED
    BY <1>2, <1>4, <2>1, <2>2, <2>3
<1> HIDE DEF c
<1>6. /\ c \o b \in Seq(T) /\ DOMAIN (c \o b) = 1..(Len(s) + 1)
      /\ \A j \in 1..i : (c \o b)[j] = c[j]
  <2>1. /\ c \o b \in Seq(T) /\ DOMAIN (c \o b) = 1..(Len(c) + Len(b))
        /\ \A j \in 1..Len(c) : (c \o b)[j] = c[j]
    BY <1>3, <1>5, Joined
  <2>2. Len(c) + Len(b) = Len(s) + 1
    BY <1>1, <1>3, <1>5
  <2> QED
    BY <1>5, <2>1, <2>2
<1>7. ASSUME NEW j \in 1..(Len(s) + 1)
      PROVE  (c \o b)[j] = IF j < i THEN s[j] ELSE IF j = i THEN e ELSE s[j - 1]
  <2>1. CASE j <= i
    <3>1. (c \o b)[j] = c[j]
      BY <1>1, <1>6, <2>1
    <3> QED
      BY <1>1, <1>5, <2>1, <3>1
  <2>2. CASE ~(j <= i)
    <3>1. j \in 1..(Len(c) + Len(b)) /\ j > Len(c)
      BY <1>1, <1>3, <1>5, <2>2
    <3>2. (c \o b)[j] = b[j - Len(c)]
      BY ONLY <1>3, <1>5, <3>1, SecondPart
    <3>3. j - i \in 1..(Len(s) - i + 1) /\ i + (j - i) - 1 = j - 1
      BY <1>1, <2>2
    <3>4. b[j - i] = s[j - 1]
      BY <1>3, <3>3
    <3> QED
      BY <1>1, <1>5, <2>2, <3>2, <3>4
  <2> QED
    BY <1>1, <2>1, <2>2
<1>8. InsertAt(s, i, e) = c \o b
  BY <1>4 DEF InsertAt, a, b, c
<1> QED
  BY <1>6, <1>7, <1>8 DEF With

-----------------------------------------------------------------------------
(* Lists of ranges. *)

\* q has the ranges of p and r; q has the ranges of p without the one at i.
Adds(p, r, q) ==
  /\ q \in Seq(RangeType)
  /\ \A j \in DOMAIN p : \E k \in DOMAIN q : q[k] = p[j]
  /\ \E k \in DOMAIN q : q[k] = r
  /\ \A k \in DOMAIN q : q[k] = r \/ \E j \in DOMAIN p : q[k] = p[j]
  /\ Apart(p) /\ (\A j \in DOMAIN p : Separate(p[j], r)) => Apart(q)

Drops(p, i, q) ==
  /\ q \in Seq(RangeType)
  /\ \A j \in DOMAIN p : j # i => \E k \in DOMAIN q : q[k] = p[j]
  /\ \A k \in DOMAIN q : \E j \in DOMAIN p : j # i /\ q[k] = p[j]
  /\ Apart(p) => Apart(q)

\* A list with one range put in has the ranges of before and that one.
LEMMA WithAdds ==
  ASSUME NEW p \in Seq(RangeType), NEW r \in RangeType, NEW q \in Seq(RangeType),
         NEW i \in 1..(Len(p) + 1), With(p, i, r, q)
  PROVE  Adds(p, r, q)
<1>1. /\ Len(p) \in Nat /\ DOMAIN p = 1..Len(p) /\ DOMAIN q = 1..(Len(p) + 1)
      /\ \A k \in DOMAIN q :
           q[k] = IF k < i THEN p[k] ELSE IF k = i THEN r ELSE p[k - 1]
  BY DEF With
<1>2. \A j \in DOMAIN p : \E k \in DOMAIN q : q[k] = p[j]
  <2> SUFFICES ASSUME NEW j \in DOMAIN p PROVE \E k \in DOMAIN q : q[k] = p[j]
    OBVIOUS
  <2>1. CASE j < i
    <3>1. j \in DOMAIN q
      BY <1>1
    <3> QED
      BY <1>1, <2>1, <3>1
  <2>2. CASE ~(j < i)
    <3>1. j + 1 \in DOMAIN q /\ ~(j + 1 < i) /\ j + 1 # i /\ (j + 1) - 1 = j
      BY <1>1, <2>2
    <3>2. q[j + 1] = p[(j + 1) - 1]
      BY <1>1, <3>1
    <3> QED
      BY <3>1, <3>2
  <2> QED
    BY <2>1, <2>2
<1>3. \E k \in DOMAIN q : q[k] = r
  <2>1. i \in DOMAIN q /\ ~(i < i)
    BY <1>1
  <2> QED
    BY <1>1, <2>1
<1>4. \A k \in DOMAIN q :
        \/ k = i /\ q[k] = r
        \/ k < i /\ k \in DOMAIN p /\ q[k] = p[k]
        \/ k > i /\ k - 1 \in DOMAIN p /\ q[k] = p[k - 1]
  BY <1>1
<1>5. ASSUME Apart(p), \A j \in DOMAIN p : Separate(p[j], r)
      PROVE  Apart(q)
  <2> SUFFICES ASSUME NEW k \in DOMAIN q, NEW m \in DOMAIN q, k # m
               PROVE  Separate(q[k], q[m])
    BY DEF Apart
  <2>0. \A a, b : Separate(a, b) <=> Separate(b, a)
    BY DEF Separate
  <2>1. CASE k = i
    <3>1. \E j \in DOMAIN p : q[m] = p[j]
      BY <1>1, <1>4, <2>1
    <3> QED
      BY <1>4, <1>5, <2>0, <2>1, <3>1
  <2>2. CASE m = i
    <3>1. \E j \in DOMAIN p : q[k] = p[j]
      BY <1>1, <1>4, <2>2
    <3> QED
      BY <1>4, <1>5, <2>2, <3>1
  <2>3. CASE k # i /\ m # i
    <3>1. \E j, l \in DOMAIN p : j # l /\ q[k] = p[j] /\ q[m] = p[l]
      <4> DEFINE at(n) == IF n < i THEN n ELSE n - 1
      <4>1. at(k) \in DOMAIN p /\ at(m) \in DOMAIN p /\ at(k) # at(m)
        BY <1>1, <2>3
      <4>2. q[k] = p[at(k)] /\ q[m] = p[at(m)]
        BY <1>1, <1>4, <2>3
      <4> QED
        BY <4>1, <4>2
    <3> QED
      BY <1>5, <3>1 DEF Apart
  <2> QED
    BY <2>1, <2>2, <2>3
<1>6. \A k \in DOMAIN q : q[k] = r \/ \E j \in DOMAIN p : q[k] = p[j]
  BY <1>4
<1> QED
  BY <1>2, <1>3, <1>5, <1>6 DEF Adds

\* A list with one range left out has the other ranges of before.
LEMMA WithoutDrops ==
  ASSUME NEW p \in Seq(RangeType), NEW q \in Seq(RangeType),
         NEW i \in DOMAIN p, Without(p, i, q)
  PROVE  Drops(p, i, q)
<1> DEFINE at(n) == IF n < i THEN n ELSE n + 1
<1>1. /\ Len(p) \in Nat /\ DOMAIN p = 1..Len(p) /\ DOMAIN q = 1..(Len(p) - 1)
      /\ \A k \in DOMAIN q : q[k] = p[at(k)]
  BY DEF Without
<1>2. \A k \in DOMAIN q : at(k) \in DOMAIN p /\ at(k) # i
  BY <1>1
<1>3. \A k, m \in DOMAIN q : k # m => at(k) # at(m)
  BY <1>1
<1>4. \A j \in DOMAIN p : j # i => \E k \in DOMAIN q : q[k] = p[j]
  <2> SUFFICES ASSUME NEW j \in DOMAIN p, j # i PROVE \E k \in DOMAIN q : q[k] = p[j]
    OBVIOUS
  <2>1. CASE j < i
    <3>1. j \in DOMAIN q /\ at(j) = j
      BY <1>1, <2>1
    <3> QED
      BY <1>1, <3>1
  <2>2. CASE j > i
    <3>1. j - 1 \in DOMAIN q /\ at(j - 1) = j
      BY <1>1, <2>2
    <3> QED
      BY <1>1, <3>1
  <2> QED
    BY <1>1, <2>1, <2>2
<1> HIDE DEF at
<1>5. \A k \in DOMAIN q : \E j \in DOMAIN p : j # i /\ q[k] = p[j]
  BY <1>1, <1>2
<1>6. Apart(p) => Apart(q)
  BY <1>1, <1>2, <1>3 DEF Apart
<1> QED
  BY <1>4, <1>5, <1>6 DEF Drops

\* InsertSorted adds one range, wherever it goes.
LEMMA SortedAdds ==
  ASSUME NEW p \in Seq(RangeType), NEW r \in RangeType
  PROVE  Adds(p, r, InsertSorted(p, r))
<1> DEFINE i == FirstAfter(p, r)
<1>1. i = 0 \/ i \in DOMAIN p
  BY FirstAfterFacts
<1>2. CASE i = 0
  <2>1. InsertSorted(p, r) = Append(p, r)
    BY <1>2 DEF InsertSorted
  <2>2. Len(p) + 1 \in 1..(Len(p) + 1)
    OBVIOUS
  <2> QED
    BY <2>1, <2>2, AppendFacts, WithAdds
<1>3. CASE i # 0
  <2> HIDE DEF i
  <2>1. InsertSorted(p, r) = InsertAt(p, i, r)
    BY <1>3 DEF InsertSorted, i
  <2>2. i \in DOMAIN p /\ i \in 1..(Len(p) + 1)
    BY <1>1, <1>3
  <2> QED
    BY <2>1, <2>2, InsertFacts, WithAdds
<1> QED
  BY <1>2, <1>3

LEMMA RemoveDrops ==
  ASSUME NEW p \in Seq(RangeType), NEW i \in DOMAIN p
  PROVE  Drops(p, i, RemoveAt(p, i))
BY RemoveFacts, WithoutDrops

LEMMA RangeFields ==
  ASSUME NEW r \in RangeType
  PROVE  r.min \in Nat /\ r.max \in Nat /\ r.min > 0 /\ r.min <= r.max
BY DEF RangeType

LEMMA SpanType ==
  ASSUME NEW a \in Nat \ {0}, NEW z \in Nat, a <= z
  PROVE  Span(a, z) \in RangeType /\ Span(a, z).min = a /\ Span(a, z).max = z
BY DEF Span, RangeType

LEMMA BlockFields ==
  ASSUME NEW b \in BlockType
  PROVE  b.addr \in Nat /\ b.num \in Nat /\ b.addr > 0 /\ b.num > 0
BY PoolAssumption DEF BlockType

\* Facts about numbers, for steps in which the numbers are fields.
LEMMA NatFacts ==
  /\ \A x, y \in Nat : (x < y => x <= y - 1) /\ (~(x < y) => x > y - 1)
  /\ \A x, y \in Nat : ~(x <= y) => x > y
  /\ \A x \in Nat : x <= x /\ (x > 0 => x - 1 \in Nat)
  /\ \A x, y \in Nat : x + y \in Nat
  /\ \A x, y, z \in Nat : x <= y => x <= y + z
  /\ \A x, y, z \in Nat : y > 0 /\ x + y - 1 <= z => x - 1 <= z
  /\ \A x, y, z, w \in Nat : x + y - 1 <= z /\ z < w => x + y <= w
  /\ \A x, y, z \in Nat : x <= y /\ y <= z => x <= z
  /\ \A x, y, z \in Nat : (x < y /\ y <= z) \/ (x <= y /\ y < z) => x < z
OBVIOUS

\* A part of a range is separate from what the range is separate from.
LEMMA WithinSeparate ==
  ASSUME NEW r, NEW s, NEW u,
         r.min \in Nat, r.max \in Nat, s.min \in Nat, s.max \in Nat,
         u.min \in Nat, u.max \in Nat, Separate(r, u), Within(s, u)
  PROVE  Separate(r, s) /\ Separate(s, r)
<1>1. u.min <= s.min /\ s.max <= u.max
  BY DEF Within
<1>2. r.max < u.min \/ u.max < r.min
  BY DEF Separate
<1>3. r.max < s.min \/ s.max < r.min
  BY <1>1, <1>2, NatFacts
<1> QED
  BY <1>3 DEF Separate

\* A block is clear of what a range around it is separate from.
LEMMA FitsClear ==
  ASSUME NEW r, NEW u, NEW b \in BlockType,
         r.min \in Nat, r.max \in Nat, u.min \in Nat, u.max \in Nat,
         Separate(r, u), Fits(u, b)
  PROVE  Clear(r, b)
<1>1. b.addr \in Nat /\ b.num \in Nat
  BY BlockFields
<1>2. u.min <= b.addr /\ b.addr + b.num - 1 <= u.max
  BY DEF Fits
<1>3. r.max < u.min \/ u.max < r.min
  BY DEF Separate
<1>4. r.max < b.addr \/ b.addr + b.num <= r.min
  BY <1>1, <1>2, <1>3, NatFacts
<1> QED
  BY <1>4 DEF Clear

\* InsertRest adds a range that is not empty.
LEMMA RestType ==
  ASSUME NEW p \in Seq(RangeType), NEW a \in Nat \ {0}, NEW z \in Nat
  PROVE  /\ InsertRest(p, Span(a, z)) \in Seq(RangeType)
         /\ a <= z => Adds(p, Span(a, z), InsertRest(p, Span(a, z)))
         /\ a > z => InsertRest(p, Span(a, z)) = p
<1>1. Span(a, z).min = a /\ Span(a, z).max = z
  BY DEF Span
<1>2. CASE a <= z
  <2>1. InsertRest(p, Span(a, z)) = InsertSorted(p, Span(a, z))
    BY <1>1, <1>2 DEF InsertRest
  <2>2. Adds(p, Span(a, z), InsertRest(p, Span(a, z)))
    BY <1>2, <2>1, SpanType, SortedAdds
  <2> QED
    BY <1>2, <2>2 DEF Adds
<1>3. CASE a > z
  BY <1>1, <1>3 DEF InsertRest
<1> QED
  BY <1>2, <1>3

-----------------------------------------------------------------------------
(* Taking a block out of the list. *)

\* q is p with block b cut out of its range i.
Carved(p, i, b, q) ==
  /\ q \in Seq(RangeType)
  /\ i \in DOMAIN p /\ Fits(p[i], b)
  /\ \A j \in DOMAIN p : j # i => \E k \in DOMAIN q : q[k] = p[j]
  /\ p[i].min < b.addr => \E k \in DOMAIN q : q[k] = Below(p[i], b)
  /\ b.addr + b.num <= p[i].max => \E k \in DOMAIN q : q[k] = Above(p[i], b)
  /\ \A k \in DOMAIN q :
       \/ \E j \in DOMAIN p : j # i /\ q[k] = p[j]
       \/ p[i].min < b.addr /\ q[k] = Below(p[i], b)
       \/ b.addr + b.num <= p[i].max /\ q[k] = Above(p[i], b)
  /\ Apart(p) => Apart(q)

\* The first range that is large enough loses its low end.
LEMMA ObtainCarves ==
  ASSUME NEW p \in Seq(RangeType), NEW num \in 1..MaxEle,
         net_obtain_address(p, num).addr # 0,
         NEW b, b = [addr |-> net_obtain_address(p, num).addr, num |-> num]
  PROVE  b \in BlockType /\ \E i \in DOMAIN p : Carved(p, i, b, net_obtain_address(p, num).pool)
<1> DEFINE i == FirstLarge(p, num)
           q == net_obtain_address(p, num).pool
<1>1. i \in DOMAIN p /\ p[i].max - p[i].min >= num - 1
  <2>1. i # 0
    BY DEF net_obtain_address
  <2>2. num \in Nat
    BY PoolAssumption
  <2> QED
    BY <2>1, <2>2, FirstLargeFacts
<1>2. /\ b.addr = p[i].min /\ b.num = num
      /\ q = IF p[i].min + num > p[i].max THEN RemoveAt(p, i)
             ELSE ReplaceAt(p, i, Span(p[i].min + num, p[i].max))
  <2>1. i # 0
    BY DEF net_obtain_address
  <2> QED
    BY <2>1 DEF net_obtain_address
<1> HIDE DEF i, q
<1>3. p[i] \in RangeType /\ DOMAIN p = 1..Len(p)
  BY <1>1
<1>4. /\ p[i].min \in Nat /\ p[i].max \in Nat /\ p[i].min > 0 /\ p[i].min <= p[i].max
      /\ num \in Nat /\ num > 0
  BY <1>3, RangeFields, PoolAssumption
<1>5. b \in BlockType
  BY <1>2, <1>4 DEF BlockType
<1>6. Fits(p[i], b) /\ ~(p[i].min < b.addr)
  BY <1>1, <1>2, <1>4 DEF Fits
<1>7. CASE p[i].min + num > p[i].max
  <2>1. Drops(p, i, q)
    BY <1>1, <1>2, <1>7, RemoveDrops
  <2>2. ~(b.addr + b.num <= p[i].max)
    BY <1>2, <1>4, <1>7
  <2>3. Carved(p, i, b, q)
    BY <1>1, <1>6, <2>1, <2>2 DEF Carved, Drops
  <2> QED
    BY <1>1, <1>5, <2>3 DEF q
<1>8. CASE ~(p[i].min + num > p[i].max)
  <2> DEFINE s == Span(p[i].min + num, p[i].max)
  <2>1. s \in RangeType /\ s.min = p[i].min + num /\ s.max = p[i].max
    BY <1>4, <1>8, SpanType
  <2>2. s = Above(p[i], b) /\ b.addr + b.num <= p[i].max
    BY <1>2, <1>4, <1>8 DEF Above
  <2> HIDE DEF s
  <2>3. q = [p EXCEPT ![i] = s]
    BY <1>2, <1>8 DEF ReplaceAt, s
  <2>4. q \in Seq(RangeType) /\ DOMAIN q = DOMAIN p /\ q[i] = s
        /\ \A j \in DOMAIN p : j # i => q[j] = p[j]
    BY <1>1, <2>1, <2>3
  <2>5. Within(s, p[i]) /\ s.min \in Nat /\ s.max \in Nat
    BY <1>4, <2>1 DEF Within
  <2>6. Apart(p) => Apart(q)
    <3> SUFFICES ASSUME Apart(p), NEW j \in DOMAIN q, NEW k \in DOMAIN q, j # k
                 PROVE  Separate(q[j], q[k])
      BY DEF Apart
    <3>1. Separate(p[j], p[k])
      BY <2>4 DEF Apart
    <3>2. p[j].min \in Nat /\ p[j].max \in Nat /\ p[k].min \in Nat /\ p[k].max \in Nat
      BY <2>4, RangeFields
    <3>5. CASE j = i
      <4>1. q[j] = s /\ q[k] = p[k] /\ Separate(p[k], p[i])
        BY <2>4, <3>1, <3>5 DEF Separate
      <4> QED
        BY <2>5, <3>2, <3>5, <4>1, WithinSeparate
    <3>6. CASE k = i
      <4>1. q[k] = s /\ q[j] = p[j] /\ Separate(p[j], p[i])
        BY <2>4, <3>1, <3>6 DEF Separate
      <4> QED
        BY <2>5, <3>2, <3>6, <4>1, WithinSeparate
    <3> QED
      BY <2>4, <3>1, <3>5, <3>6
  <2>7. Carved(p, i, b, q)
    BY <1>1, <1>6, <2>2, <2>4, <2>6 DEF Carved
  <2> QED
    BY <1>1, <1>5, <2>7 DEF q
<1> QED
  BY <1>7, <1>8

\* The first range around the block is replaced by what is left of it.
LEMMA ReserveCarves ==
  ASSUME NEW p \in Seq(RangeType), NEW b \in BlockType,
         net_reserve_address_range(p, b).ok
  PROVE  \E i \in DOMAIN p : Carved(p, i, b, net_reserve_address_range(p, b).pool)
<1> DEFINE i == FirstAround(p, b)
           lo == Below(p[i], b)
           hi == Above(p[i], b)
           p1 == RemoveAt(p, i)
           p2 == InsertRest(p1, lo)
           p3 == InsertRest(p2, hi)
<1>1. i # 0 /\ net_reserve_address_range(p, b).pool = p3
  BY DEF net_reserve_address_range
<1>2. i \in DOMAIN p /\ Fits(p[i], b)
  BY <1>1, FirstAroundFacts
<1> HIDE DEF i
<1>3. p[i] \in RangeType
  BY <1>2
<1>4. /\ p[i].min \in Nat /\ p[i].max \in Nat /\ p[i].min > 0
      /\ b.addr \in Nat /\ b.num \in Nat /\ b.num > 0 /\ b.addr > 0
      /\ p[i].min <= b.addr /\ b.addr + b.num - 1 <= p[i].max
  BY <1>2, <1>3, RangeFields, BlockFields DEF Fits
<1>5. /\ lo = Span(p[i].min, b.addr - 1) /\ hi = Span(b.addr + b.num, p[i].max)
      /\ lo.min = p[i].min /\ lo.max = b.addr - 1
      /\ hi.min = b.addr + b.num /\ hi.max = p[i].max
  BY DEF Below, Above, Span
<1>6. Drops(p, i, p1) /\ p1 \in Seq(RangeType)
  BY <1>2, RemoveDrops DEF Drops
<1> HIDE DEF lo, hi, p1
<1>7. /\ p2 \in Seq(RangeType)
      /\ p[i].min < b.addr => Adds(p1, lo, p2)
      /\ ~(p[i].min < b.addr) => p2 = p1
  <2>1. p[i].min \in Nat \ {0} /\ b.addr - 1 \in Nat
    BY <1>4
  <2>2. /\ InsertRest(p1, lo) \in Seq(RangeType)
        /\ p[i].min <= b.addr - 1 => Adds(p1, lo, InsertRest(p1, lo))
        /\ p[i].min > b.addr - 1 => InsertRest(p1, lo) = p1
    <3>1. lo = Span(p[i].min, b.addr - 1)
      BY <1>5
    <3> QED
      BY <1>6, <2>1, <3>1, RestType
  <2>3. /\ p[i].min < b.addr => p[i].min <= b.addr - 1
        /\ ~(p[i].min < b.addr) => p[i].min > b.addr - 1
    BY <1>4, NatFacts
  <2> QED
    BY <2>2, <2>3
<1> HIDE DEF p2
<1>8. /\ p3 \in Seq(RangeType)
      /\ b.addr + b.num <= p[i].max => Adds(p2, hi, p3)
      /\ ~(b.addr + b.num <= p[i].max) => p3 = p2
  <2>1. b.addr + b.num \in Nat \ {0} /\ p[i].max \in Nat
    BY <1>4
  <2>2. /\ InsertRest(p2, hi) \in Seq(RangeType)
        /\ b.addr + b.num <= p[i].max => Adds(p2, hi, InsertRest(p2, hi))
        /\ b.addr + b.num > p[i].max => InsertRest(p2, hi) = p2
    <3>1. hi = Span(b.addr + b.num, p[i].max)
      BY <1>5
    <3> QED
      BY <1>7, <2>1, <3>1, RestType
  <2>3. ~(b.addr + b.num <= p[i].max) => b.addr + b.num > p[i].max
    BY <2>1, NatFacts
  <2> QED
    BY <2>2, <2>3
<1> HIDE DEF p3
<1>9. \A j \in DOMAIN p : j # i => \E k \in DOMAIN p3 : p3[k] = p[j]
  <2>1. \A j \in DOMAIN p : j # i => \E k \in DOMAIN p1 : p1[k] = p[j]
    BY <1>6 DEF Drops
  <2>2. \A j \in DOMAIN p1 : \E k \in DOMAIN p2 : p2[k] = p1[j]
    BY <1>7 DEF Adds
  <2>3. \A j \in DOMAIN p2 : \E k \in DOMAIN p3 : p3[k] = p2[j]
    BY <1>8 DEF Adds
  <2> QED
    BY <2>1, <2>2, <2>3
<1>10. p[i].min < b.addr => \E k \in DOMAIN p3 : p3[k] = lo
  <2>1. p[i].min < b.addr => \E k \in DOMAIN p2 : p2[k] = lo
    BY <1>7 DEF Adds
  <2>2. \A j \in DOMAIN p2 : \E k \in DOMAIN p3 : p3[k] = p2[j]
    BY <1>8 DEF Adds
  <2> QED
    BY <2>1, <2>2
<1>11. b.addr + b.num <= p[i].max => \E k \in DOMAIN p3 : p3[k] = hi
  BY <1>8 DEF Adds
<1>12. \A k \in DOMAIN p2 :
         \/ \E j \in DOMAIN p : j # i /\ p2[k] = p[j]
         \/ p[i].min < b.addr /\ p2[k] = lo
  <2>1. \A k \in DOMAIN p1 : \E j \in DOMAIN p : j # i /\ p1[k] = p[j]
    BY <1>6 DEF Drops
  <2>2. \A k \in DOMAIN p2 :
          (\E j \in DOMAIN p1 : p2[k] = p1[j]) \/ (p[i].min < b.addr /\ p2[k] = lo)
    BY <1>7 DEF Adds
  <2> QED
    BY <2>1, <2>2
<1>13. \A k \in DOMAIN p3 :
         \/ \E j \in DOMAIN p : j # i /\ p3[k] = p[j]
         \/ p[i].min < b.addr /\ p3[k] = lo
         \/ b.addr + b.num <= p[i].max /\ p3[k] = hi
  <2>1. \A k \in DOMAIN p3 :
          (\E j \in DOMAIN p2 : p3[k] = p2[j])
          \/ (b.addr + b.num <= p[i].max /\ p3[k] = hi)
    BY <1>8 DEF Adds
  <2> QED
    BY <1>12, <2>1
<1>14. ASSUME Apart(p) PROVE Apart(p3)
  <2>0. \A j \in DOMAIN p : p[j].min \in Nat /\ p[j].max \in Nat
    BY RangeFields
  <2>1. Apart(p1)
    BY <1>6, <1>14 DEF Drops
  <2>2. \A j \in DOMAIN p : j # i =>
          /\ p[i].min < b.addr => Separate(p[j], lo)
          /\ b.addr + b.num <= p[i].max => Separate(p[j], hi)
    <3> SUFFICES ASSUME NEW j \in DOMAIN p, j # i
                 PROVE  Separate(p[j], lo) /\ Separate(p[j], hi)
      OBVIOUS
    <3>1. Separate(p[j], p[i])
      BY <1>2, <1>14 DEF Apart
    <3>2. p[j].min \in Nat /\ p[j].max \in Nat
      BY <2>0
    <3>3. Within(lo, p[i]) /\ lo.min \in Nat /\ lo.max \in Nat
      <4>1. b.addr - 1 \in Nat /\ p[i].min <= p[i].min
        BY <1>4, NatFacts
      <4>2. b.addr - 1 <= p[i].max
        BY <1>4, NatFacts
      <4> QED
        BY <1>4, <1>5, <4>1, <4>2 DEF Within
    <3>4. Within(hi, p[i]) /\ hi.min \in Nat /\ hi.max \in Nat
      <4>1. b.addr + b.num \in Nat /\ p[i].min <= b.addr + b.num /\ p[i].max <= p[i].max
        BY <1>4, NatFacts
      <4> QED
        BY <1>4, <1>5, <4>1 DEF Within
    <3>5. Separate(p[j], lo)
      BY <1>4, <3>1, <3>2, <3>3, WithinSeparate
    <3>6. Separate(p[j], hi)
      BY <1>4, <3>1, <3>2, <3>4, WithinSeparate
    <3> QED
      BY <3>5, <3>6
  <2>3. Apart(p2)
    <3>1. p[i].min < b.addr => \A k \in DOMAIN p1 : Separate(p1[k], lo)
      BY <1>6, <2>2 DEF Drops
    <3> QED
      BY <1>7, <2>1, <3>1 DEF Adds
  <2>4. b.addr + b.num <= p[i].max => \A k \in DOMAIN p2 : Separate(p2[k], hi)
    <3>1. Separate(lo, hi)
      BY <1>4, <1>5 DEF Separate
    <3> QED
      BY <1>12, <2>2, <3>1
  <2> QED
    BY <1>8, <2>3, <2>4 DEF Adds
<1>15. Carved(p, i, b, p3)
  BY <1>2, <1>8, <1>9, <1>10, <1>11, <1>13, <1>14 DEF Carved, lo, hi
<1> QED
  BY <1>1, <1>2, <1>15 DEF p3, p2, p1, lo, hi, i

-----------------------------------------------------------------------------
(* The ranges of the file, divided. *)

\* What is left of a range below and above a block.
LEMMA PartOf ==
  ASSUME NEW p \in Seq(RangeType), NEW i \in DOMAIN p, NEW b \in BlockType, Fits(p[i], b)
  PROVE  /\ p[i].min < b.addr =>
              /\ Below(p[i], b).min = p[i].min /\ Below(p[i], b).max = b.addr - 1
              /\ Within(Below(p[i], b), p[i]) /\ Clear(Below(p[i], b), b)
         /\ b.addr + b.num <= p[i].max =>
              /\ Above(p[i], b).min = b.addr + b.num /\ Above(p[i], b).max = p[i].max
              /\ Within(Above(p[i], b), p[i]) /\ Clear(Above(p[i], b), b)
<1>1. /\ p[i].min \in Nat /\ p[i].max \in Nat
      /\ b.addr \in Nat /\ b.num \in Nat /\ b.num > 0
  BY RangeFields, BlockFields
<1> QED
  BY <1>1 DEF Below, Above, Span, Within, Clear, Fits

\* After a block was cut out, every range is part of an earlier one and clear
\* of the block.
LEMMA CarvedParts ==
  ASSUME NEW p \in Seq(RangeType), NEW q, NEW i \in DOMAIN p, NEW b \in BlockType,
         Carved(p, i, b, q), Apart(p), NEW k \in DOMAIN q
  PROVE  Clear(q[k], b) /\ \E j \in DOMAIN p : Within(q[k], p[j])
<1>1. Fits(p[i], b)
  BY DEF Carved
<1>2. /\ p[i].min \in Nat /\ p[i].max \in Nat
      /\ b.addr \in Nat /\ b.num \in Nat /\ b.num > 0
  BY RangeFields, BlockFields
<1>3. ASSUME NEW j \in DOMAIN p, j # i, q[k] = p[j]
      PROVE  Clear(q[k], b) /\ Within(q[k], p[j])
  <2>1. Separate(p[j], p[i]) /\ p[j].min \in Nat /\ p[j].max \in Nat
    BY <1>3, RangeFields DEF Apart
  <2>2. Clear(p[j], b)
    BY <1>1, <1>2, <2>1, FitsClear
  <2>3. Within(p[j], p[j])
    BY <2>1 DEF Within
  <2> QED
    BY <1>3, <2>2, <2>3
<1>4. CASE p[i].min < b.addr /\ q[k] = Below(p[i], b)
  BY <1>1, <1>4, PartOf
<1>5. CASE b.addr + b.num <= p[i].max /\ q[k] = Above(p[i], b)
  BY <1>1, <1>5, PartOf
<1> QED
  BY <1>3, <1>4, <1>5 DEF Carved

\* No other address is lost.
LEMMA CarvedKeeps ==
  ASSUME NEW p \in Seq(RangeType), NEW q, NEW i \in DOMAIN p, NEW b \in BlockType,
         Carved(p, i, b, q), NEW a \in Nat, InPool(p, a),
         a < b.addr \/ b.addr + b.num <= a
  PROVE  InPool(q, a)
<1>1. Fits(p[i], b)
  BY DEF Carved
<1>2. /\ p[i].min \in Nat /\ p[i].max \in Nat
      /\ b.addr \in Nat /\ b.num \in Nat /\ b.num > 0
  BY RangeFields, BlockFields
<1>3. PICK j \in DOMAIN p : p[j].min <= a /\ a <= p[j].max
  BY DEF InPool
<1>4. CASE j # i
  BY <1>3, <1>4 DEF Carved, InPool
<1>5. CASE j = i /\ a < b.addr
  <2>1. p[i].min < b.addr
    BY <1>2, <1>3, <1>5
  <2>2. PICK k \in DOMAIN q : q[k] = Below(p[i], b)
    BY <2>1 DEF Carved
  <2>3. q[k].min = p[i].min /\ q[k].max = b.addr - 1
    BY <1>1, <2>1, <2>2, PartOf
  <2>4. q[k].min <= a /\ a <= q[k].max
    BY <1>2, <1>3, <1>5, <2>3
  <2> QED
    BY <2>4 DEF InPool
<1>6. CASE j = i /\ b.addr + b.num <= a
  <2>1. b.addr + b.num <= p[i].max
    BY <1>2, <1>3, <1>6
  <2>2. PICK k \in DOMAIN q : q[k] = Above(p[i], b)
    BY <2>1 DEF Carved
  <2>3. q[k].min = b.addr + b.num /\ q[k].max = p[i].max
    BY <1>1, <2>1, <2>2, PartOf
  <2>4. q[k].min <= a /\ a <= q[k].max
    BY <1>2, <1>3, <1>6, <2>3
  <2> QED
    BY <2>4 DEF InPool
<1> QED
  BY <1>4, <1>5, <1>6

\* A block that fitted and does not overlap still fits.
LEMMA CarvedFits ==
  ASSUME NEW p \in Seq(RangeType), NEW q, NEW i \in DOMAIN p, NEW b \in BlockType,
         Carved(p, i, b, q), NEW c \in BlockType, Asunder(b, c),
         \E j \in DOMAIN p : Fits(p[j], c)
  PROVE  \E k \in DOMAIN q : Fits(q[k], c)
<1>1. Fits(p[i], b)
  BY DEF Carved
<1>2. /\ p[i].min \in Nat /\ p[i].max \in Nat
      /\ b.addr \in Nat /\ b.num \in Nat /\ b.num > 0
      /\ c.addr \in Nat /\ c.num \in Nat /\ c.num > 0
  BY RangeFields, BlockFields
<1>3. PICK j \in DOMAIN p : Fits(p[j], c)
  OBVIOUS
<1>4. CASE j # i
  BY <1>3, <1>4 DEF Carved
<1>5. CASE j = i /\ b.addr + b.num <= c.addr
  <2>1. b.addr + b.num <= p[i].max
    BY <1>2, <1>3, <1>5 DEF Fits
  <2>2. PICK k \in DOMAIN q : q[k] = Above(p[i], b)
    BY <2>1 DEF Carved
  <2>3. q[k].min = b.addr + b.num /\ q[k].max = p[i].max
    BY <1>1, <2>1, <2>2, PartOf
  <2> QED
    BY <1>2, <1>3, <1>5, <2>3 DEF Fits
<1>6. CASE j = i /\ c.addr + c.num <= b.addr
  <2>1. p[i].min < b.addr
    BY <1>2, <1>3, <1>6 DEF Fits
  <2>2. PICK k \in DOMAIN q : q[k] = Below(p[i], b)
    BY <2>1 DEF Carved
  <2>3. q[k].min = p[i].min /\ q[k].max = b.addr - 1
    BY <1>1, <2>1, <2>2, PartOf
  <2> QED
    BY <1>2, <1>3, <1>6, <2>3 DEF Fits
<1> QED
  BY <1>4, <1>5, <1>6 DEF Asunder

\* A block cut out of the list joins the blocks in use.
LEMMA CarvedDivided ==
  ASSUME NEW p \in Seq(RangeType), NEW q, NEW i \in DOMAIN p, NEW b \in BlockType,
         Carved(p, i, b, q), NEW H \in SUBSET BlockType, Divided(p, H)
  PROVE  Divided(q, H \cup {b}) /\ \A c \in H : Asunder(b, c)
<1>1. Apart(p) /\ Fits(p[i], b) /\ q \in Seq(RangeType)
  BY DEF Divided, Carved
<1>2. \A k \in DOMAIN q : Clear(q[k], b) /\ \E j \in DOMAIN p : Within(q[k], p[j])
  BY <1>1, CarvedParts
<1>3. Apart(q)
  BY <1>1 DEF Carved
<1>4. /\ \A k \in DOMAIN q : q[k].min \in Nat /\ q[k].max \in Nat
      /\ \A j \in DOMAIN p : p[j].min \in Nat /\ p[j].max \in Nat
      /\ \A j \in DOMAIN Ranges : Ranges[j].min \in Nat /\ Ranges[j].max \in Nat
      /\ b.addr \in Nat /\ b.num \in Nat /\ b.num > 0
  BY <1>1, RangeFields, BlockFields, PoolAssumption
<1>5. \A c \in H : c.addr \in Nat /\ c.num \in Nat /\ c.num > 0
  BY BlockFields
<1>6. \A c \in H, k \in DOMAIN q : Clear(q[k], c)
  <2> SUFFICES ASSUME NEW c \in H, NEW k \in DOMAIN q PROVE Clear(q[k], c)
    OBVIOUS
  <2>1. PICK j \in DOMAIN p : Within(q[k], p[j])
    BY <1>2
  <2>2. Clear(p[j], c)
    BY DEF Divided
  <2> QED
    BY <1>4, <1>5, <2>1, <2>2 DEF Within, Clear
<1>7. \A c \in H : Asunder(b, c) /\ Asunder(c, b)
  <2> SUFFICES ASSUME NEW c \in H PROVE Asunder(b, c) /\ Asunder(c, b)
    OBVIOUS
  <2>1. Clear(p[i], c)
    BY DEF Divided
  <2> QED
    <3>0. /\ p[i].min <= b.addr /\ b.addr + b.num - 1 <= p[i].max
          /\ p[i].min \in Nat /\ p[i].max \in Nat /\ c.addr + c.num \in Nat
      BY <1>1, <1>4, <1>5 DEF Fits
    <3>1. CASE p[i].max < c.addr
      <4>1. b.addr + b.num <= c.addr
        BY <1>4, <1>5, <3>0, <3>1, NatFacts
      <4> QED
        BY <4>1 DEF Asunder
    <3>2. CASE c.addr + c.num <= p[i].min
      <4>1. c.addr + c.num <= b.addr
        BY <1>4, <3>0, <3>2, NatFacts
      <4> QED
        BY <4>1 DEF Asunder
    <3> QED
      BY <2>1, <3>1, <3>2 DEF Clear
<1>8. \A k \in DOMAIN q : \E j \in DOMAIN Ranges : Within(q[k], Ranges[j])
  <2> SUFFICES ASSUME NEW k \in DOMAIN q
               PROVE  \E j \in DOMAIN Ranges : Within(q[k], Ranges[j])
    OBVIOUS
  <2>1. PICK j \in DOMAIN p : Within(q[k], p[j])
    BY <1>2
  <2>2. PICK l \in DOMAIN Ranges : Within(p[j], Ranges[l])
    BY DEF Divided
  <2>3. Within(q[k], Ranges[l])
    BY <1>4, <2>1, <2>2 DEF Within
  <2> QED
    BY <2>3
<1>9. \E l \in DOMAIN Ranges : Fits(Ranges[l], b)
  <2>1. PICK l \in DOMAIN Ranges : Within(p[i], Ranges[l])
    BY DEF Divided
  <2>2. Fits(Ranges[l], b)
    BY <1>1, <1>4, <2>1 DEF Within, Fits
  <2> QED
    BY <2>2
<1>10. \A a \in Nat : InPool(Ranges, a) => InPool(q, a) \/ InBlocks(H \cup {b}, a)
  <2> SUFFICES ASSUME NEW a \in Nat, InPool(Ranges, a)
               PROVE  InPool(q, a) \/ InBlocks(H \cup {b}, a)
    OBVIOUS
  <2>1. InPool(p, a) \/ InBlocks(H, a)
    BY DEF Divided
  <2>2. CASE InBlocks(H, a)
    BY <2>2 DEF InBlocks
  <2>3. CASE InPool(p, a) /\ (a < b.addr \/ b.addr + b.num <= a)
    BY <2>3, CarvedKeeps
  <2>4. CASE b.addr <= a /\ a < b.addr + b.num
    BY <2>4 DEF InBlocks
  <2> QED
    BY <1>4, <2>1, <2>2, <2>3, <2>4
<1>11. \A c, d \in H \cup {b} : c # d => Asunder(c, d)
  BY <1>7 DEF Divided
<1>12. \A c \in H \cup {b} : \E j \in DOMAIN Ranges : Fits(Ranges[j], c)
  BY <1>9 DEF Divided
<1> QED
  BY <1>2, <1>3, <1>6, <1>7, <1>8, <1>10, <1>11, <1>12 DEF Divided

-----------------------------------------------------------------------------
(* Giving a block back. *)

LEMMA ReplaceType ==
  ASSUME NEW p \in Seq(RangeType), NEW i \in DOMAIN p, NEW r \in RangeType
  PROVE  ReplaceAt(p, i, r) \in Seq(RangeType)
BY DEF ReplaceAt

\* net_release_address makes no range that is empty or holds address 0.
LEMMA ReleaseType ==
  ASSUME NEW p \in Seq(RangeType), NEW b \in BlockType
  PROVE  net_release_address(p, b) \in Seq(RangeType)
<1> DEFINE i == FirstJoining(p, b)
<1>0. b.addr \in Nat \ {0} /\ b.num \in Nat /\ b.num > 0
  BY BlockFields
<1>1. i = 0 \/ (i \in DOMAIN p /\ Joins(p[i], b))
  BY FirstJoiningFacts
<1>2. CASE i = 0
  <2>1. Span(b.addr, b.addr + b.num - 1) \in RangeType
    BY <1>0, SpanType
  <2> QED
    BY <1>2, <2>1, SortedAdds DEF net_release_address, Adds
<1>3. CASE i # 0
  <2>1. i \in DOMAIN p /\ p[i] \in RangeType /\ Joins(p[i], b)
    BY <1>1, <1>3
  <2>2. p[i].min \in Nat /\ p[i].max \in Nat /\ p[i].min > 0 /\ p[i].min <= p[i].max
    BY <2>1, RangeFields
  <2>3. net_release_address(p, b) =
          IF JoinsAbove(p[i], b) THEN ReplaceAt(p, i, Span(b.addr, p[i].max))
          ELSE ReplaceAt(p, i, Span(p[i].min, b.addr + b.num + 1))
    BY <1>3 DEF net_release_address
  <2> HIDE DEF i
  <2>4. CASE JoinsAbove(p[i], b)
    <3>0. b.addr <= p[i].max
      BY <1>0, <2>2, <2>4 DEF JoinsAbove
    <3>1. Span(b.addr, p[i].max) \in RangeType
      BY <1>0, <2>2, <3>0, SpanType
    <3>2. net_release_address(p, b) = ReplaceAt(p, i, Span(b.addr, p[i].max))
      BY <2>3, <2>4
    <3> QED
      BY <2>1, <3>1, <3>2, ReplaceType
  <2>5. CASE ~JoinsAbove(p[i], b)
    <3>1. p[i].max = b.addr - 1
      BY <2>1, <2>5 DEF Joins, JoinsBelow
    <3>2. p[i].min \in Nat \ {0} /\ b.addr + b.num + 1 \in Nat /\ p[i].min <= b.addr + b.num + 1
      <4>1. p[i].min <= b.addr - 1
        BY <2>2, <3>1
      <4> QED
        BY ONLY <1>0, <2>2, <4>1
    <3>3. Span(p[i].min, b.addr + b.num + 1) \in RangeType
      <4>1. PICK z \in Nat : z = b.addr + b.num + 1
        BY <3>2
      <4> QED
        BY <3>2, <4>1, SpanType
    <3>4. net_release_address(p, b) = ReplaceAt(p, i, Span(p[i].min, b.addr + b.num + 1))
      BY <2>3, <2>5
    <3> QED
      BY <2>1, <3>3, <3>4, ReplaceType
  <2> QED
    BY <2>4, <2>5
<1> QED
  BY <1>2, <1>3

\* Without a range to join, a block given back leaves the blocks in use.
LEMMA ReleaseDivided ==
  ASSUME NEW p \in Seq(RangeType), NEW H \in SUBSET BlockType, Divided(p, H),
         NEW b \in H, \A i \in DOMAIN p : ~Joins(p[i], b)
  PROVE  Divided(net_release_address(p, b), H \ {b})
<1> DEFINE r == Span(b.addr, b.addr + b.num - 1)
           q == net_release_address(p, b)
<1>1. b.addr \in Nat \ {0} /\ b.num \in Nat /\ b.num > 0
  BY BlockFields
<1>2. r \in RangeType /\ r.min = b.addr /\ r.max = b.addr + b.num - 1
  BY <1>1, SpanType
<1>3. q = InsertSorted(p, r)
  <2>1. 0 \notin DOMAIN p
    OBVIOUS
  <2>2. FirstJoining(p, b) = 0
    BY <2>1, FirstJoiningFacts
  <2> QED
    BY <2>2 DEF net_release_address
<1>4. Adds(p, r, q)
  BY <1>2, <1>3, SortedAdds
<1> HIDE DEF r, q
<1>5. /\ \A j \in DOMAIN p : p[j].min \in Nat /\ p[j].max \in Nat
      /\ \A j \in DOMAIN Ranges : Ranges[j].min \in Nat /\ Ranges[j].max \in Nat
  BY RangeFields, PoolAssumption
<1>6. \A c \in H : c.addr \in Nat /\ c.num \in Nat /\ c.num > 0
  BY BlockFields
<1>7. \A j \in DOMAIN p : Separate(p[j], r)
  <2> SUFFICES ASSUME NEW j \in DOMAIN p PROVE Separate(p[j], r)
    OBVIOUS
  <2>1. Clear(p[j], b)
    BY DEF Divided
  <2> QED
    BY <1>1, <1>2, <1>5, <2>1 DEF Clear, Separate
<1>8. Apart(q)
  BY <1>4, <1>7 DEF Adds, Divided
<1>9. \A k \in DOMAIN q : q[k] = r \/ \E j \in DOMAIN p : q[k] = p[j]
  BY <1>4 DEF Adds
<1>10. \A c \in H \ {b}, k \in DOMAIN q : Clear(q[k], c)
  <2> SUFFICES ASSUME NEW c \in H \ {b}, NEW k \in DOMAIN q PROVE Clear(q[k], c)
    OBVIOUS
  <2>1. CASE q[k] = r
    <3>1. Asunder(b, c)
      BY DEF Divided
    <3> QED
      BY <1>1, <1>2, <1>6, <2>1, <3>1 DEF Asunder, Clear
  <2>2. CASE \E j \in DOMAIN p : q[k] = p[j]
    BY <2>2 DEF Divided
  <2> QED
    BY <1>9, <2>1, <2>2
<1>11. \A k \in DOMAIN q : \E j \in DOMAIN Ranges : Within(q[k], Ranges[j])
  <2> SUFFICES ASSUME NEW k \in DOMAIN q
               PROVE  \E j \in DOMAIN Ranges : Within(q[k], Ranges[j])
    OBVIOUS
  <2>1. CASE q[k] = r
    <3>1. PICK j \in DOMAIN Ranges : Fits(Ranges[j], b)
      BY DEF Divided
    <3>2. Within(r, Ranges[j])
      BY <1>1, <1>2, <1>5, <3>1 DEF Fits, Within
    <3> QED
      BY <2>1, <3>2
  <2>2. CASE \E j \in DOMAIN p : q[k] = p[j]
    BY <2>2 DEF Divided
  <2> QED
    BY <1>9, <2>1, <2>2
<1>12. \A a \in Nat : InPool(Ranges, a) => InPool(q, a) \/ InBlocks(H \ {b}, a)
  <2> SUFFICES ASSUME NEW a \in Nat, InPool(Ranges, a)
               PROVE  InPool(q, a) \/ InBlocks(H \ {b}, a)
    OBVIOUS
  <2>1. CASE InPool(p, a)
    BY <1>4, <2>1 DEF Adds, InPool
  <2>2. CASE InBlocks(H, a)
    <3>1. PICK c \in H : c.addr <= a /\ a < c.addr + c.num
      BY <2>2 DEF InBlocks
    <3>2. CASE c # b
      BY <3>1, <3>2 DEF InBlocks
    <3>3. CASE c = b
      <4>1. r.min <= a /\ a <= r.max
        BY <1>1, <1>2, <3>1, <3>3
      <4>2. \E k \in DOMAIN q : q[k] = r
        BY <1>4 DEF Adds
      <4> QED
        BY <4>1, <4>2 DEF InPool
    <3> QED
      BY <3>2, <3>3
  <2> QED
    BY <2>1, <2>2 DEF Divided
<1>13. /\ \A c, d \in H \ {b} : c # d => Asunder(c, d)
       /\ \A c \in H \ {b} : \E j \in DOMAIN Ranges : Fits(Ranges[j], c)
  BY DEF Divided
<1> QED
  BY <1>8, <1>10, <1>11, <1>12, <1>13 DEF Divided, q
-----------------------------------------------------------------------------
(* Types. *)

\* Nor does net_reserve_address_range.
LEMMA ReserveType ==
  ASSUME NEW p \in Seq(RangeType), NEW b \in BlockType
  PROVE  /\ net_reserve_address_range(p, b).pool \in Seq(RangeType)
         /\ net_reserve_address_range(p, b).ok \in BOOLEAN
<1>1. CASE FirstAround(p, b) = 0
  BY <1>1 DEF net_reserve_address_range
<1>2. CASE FirstAround(p, b) # 0
  <2>1. net_reserve_address_range(p, b).ok = TRUE
    BY <1>2 DEF net_reserve_address_range
  <2> QED
    BY <2>1, ReserveCarves DEF Carved
<1> QED
  BY <1>1, <1>2

LEMMA InitType == Init => TypeOK
BY PoolAssumption DEF Init, TypeOK

\* Every action keeps the types.
LEMMA StepType == TypeOK /\ [Next]_vars => TypeOK'
<1> SUFFICES ASSUME TypeOK, [Next]_vars PROVE TypeOK'
  OBVIOUS
<1>0. /\ pool \in Seq(RangeType) /\ lost \subseteq BlockType /\ nodes \subseteq BlockType
      /\ prov \in BlockType \cup {None} /\ db \in Seq(BlockType)
      /\ Len(db) \in Nat /\ DOMAIN db = 1..Len(db) /\ read \in 0..Len(db) /\ up \in BOOLEAN
  BY DEF TypeOK
<1>1. ASSUME NEW num \in 1..MaxEle, ProvCaps(num) PROVE TypeOK'
  <2> DEFINE got == net_obtain_address(pool, num)
             b == [addr |-> got.addr, num |-> num]
  <2>1. got.addr # 0 /\ pool' = got.pool /\ prov' = b
        /\ UNCHANGED <<lost, nodes, db, read, up>>
    BY <1>1 DEF ProvCaps
  <2>2. b \in BlockType /\ got.pool \in Seq(RangeType)
    BY <1>0, <2>1, ObtainCarves DEF Carved
  <2> QED
    BY <1>0, <2>1, <2>2 DEF TypeOK
<1>2. CASE ProvFails
  <2>1. pool' \in Seq(RangeType)
    BY <1>0, <1>2, ReleaseType DEF ProvFails
  <2> QED
    BY <1>0, <1>2, <2>1 DEF ProvFails, TypeOK
<1>3. CASE ProvCutOff
  BY <1>0, <1>3 DEF ProvCutOff, TypeOK
<1>4. CASE ProvDone
  <2>1. prov \in BlockType
    BY <1>0, <1>4 DEF ProvDone
  <2>2. db' \in Seq(BlockType) /\ Len(db') = Len(db) + 1 /\ read' \in 0..Len(db')
    BY <1>0, <1>4, <2>1 DEF ProvDone
  <2> QED
    BY <1>0, <1>4, <2>1, <2>2 DEF ProvDone, TypeOK
<1>5. ASSUME NEW b \in nodes, NodeReset(b) PROVE TypeOK'
  <2>1. pool' \in Seq(RangeType)
    BY <1>0, <1>5, ReleaseType DEF NodeReset
  <2> QED
    BY <1>0, <1>5, <2>1 DEF NodeReset, TypeOK
<1>6. CASE Restart
  BY <1>0, <1>6, PoolAssumption DEF Restart, TypeOK
<1>7. CASE parse_node
  <2> DEFINE b == db[read + 1]
             got == net_reserve_address_range(pool, b)
  <2>1. read + 1 \in DOMAIN db /\ read + 1 \in 0..Len(db)
    BY <1>0, <1>7 DEF parse_node
  <2>2. b \in BlockType
    BY <1>0, <2>1
  <2> HIDE DEF b
  <2>3. got.pool \in Seq(RangeType) /\ got.ok \in BOOLEAN
    BY <1>0, <2>2, ReserveType
  <2>4. /\ pool' = got.pool /\ up' = got.ok
        /\ nodes' = nodes \cup {b} \/ nodes' = nodes
        /\ read' = read + 1 \/ read' = read
        /\ UNCHANGED <<prov, lost, db>>
    BY <1>7 DEF parse_node, b
  <2> QED
    BY <1>0, <2>1, <2>2, <2>3, <2>4 DEF TypeOK
<1>8. CASE UNCHANGED vars
  BY <1>8 DEF vars, TypeOK
<1> QED
  BY <1>1, <1>2, <1>3, <1>4, <1>5, <1>6, <1>7, <1>8 DEF Next

(* Every variable keeps its type, and the list of ranges has no empty range  *)
(* and none that starts at 0, for every database and whatever is released    *)
(* next to a free range (net_obtain_address, net_release_address,            *)
(* net_reserve_address_range).                                               *)
THEOREM TypeCorrect == Spec => []TypeOK
BY InitType, StepType, PTL DEF Spec

-----------------------------------------------------------------------------
(* The inductive invariant. *)

LEMMA HeldType == TypeOK => Held \in SUBSET BlockType
BY DEF TypeOK, Held

\* Blocks apart by their ends are blocks without a common address.
LEMMA AsunderDisjoint ==
  ASSUME NEW b \in BlockType, NEW c \in BlockType
  PROVE  Asunder(b, c) <=> BlockAddresses(b) \cap BlockAddresses(c) = {}
<1>1. /\ b.addr \in Nat /\ b.num \in Nat /\ b.num > 0
      /\ c.addr \in Nat /\ c.num \in Nat /\ c.num > 0
  BY BlockFields
<1>2. ASSUME Asunder(b, c) PROVE BlockAddresses(b) \cap BlockAddresses(c) = {}
  BY <1>1, <1>2 DEF Asunder, BlockAddresses
<1>3. ASSUME ~Asunder(b, c) PROVE BlockAddresses(b) \cap BlockAddresses(c) # {}
  <2>1. CASE b.addr <= c.addr
    <3>1. c.addr \in BlockAddresses(b) /\ c.addr \in BlockAddresses(c)
      BY <1>1, <1>3, <2>1 DEF Asunder, BlockAddresses
    <3> QED
      BY <3>1
  <2>2. CASE c.addr <= b.addr
    <3>1. b.addr \in BlockAddresses(b) /\ b.addr \in BlockAddresses(c)
      BY <1>1, <1>3, <2>2 DEF Asunder, BlockAddresses
    <3> QED
      BY <3>1
  <2> QED
    BY <1>1, <2>1, <2>2
<1> QED
  BY <1>2, <1>3

\* The same for the database.
LEMMA ConsistentAsunder ==
  ASSUME db \in Seq(BlockType)
  PROVE  Consistent <=> \A i, j \in DOMAIN db : i # j => Asunder(db[i], db[j])
<1>1. \A i \in DOMAIN db : db[i] \in BlockType
  OBVIOUS
<1> QED
  BY <1>1, AsunderDisjoint DEF Consistent

\* With the database read, only the division of the addresses is left to show.
LEMMA RunningInv ==
  TypeOK /\ Running => ReadSoFar /\ StillFits /\ RefusedRightly
<1> SUFFICES ASSUME TypeOK, Running
             PROVE  ReadSoFar /\ StillFits /\ RefusedRightly
  OBVIOUS
<1>1. read = Len(db) /\ Len(db) \in Nat /\ up
  BY DEF TypeOK, Running
<1>2. (read + 1)..Len(db) = {} /\ ~(read < Len(db))
  BY <1>1
<1> QED
  BY <1>1, <1>2 DEF ReadSoFar, StillFits, RefusedRightly

\* The ranges of the file alone divide its addresses.
LEMMA FileDivided ==
  ASSUME Apart(Ranges)
  PROVE  Divided(Ranges, {})
<1>1. \A i \in DOMAIN Ranges : Ranges[i].min \in Nat /\ Ranges[i].max \in Nat
  BY PoolAssumption, RangeFields
<1>2. \A i \in DOMAIN Ranges : Within(Ranges[i], Ranges[i])
  BY <1>1 DEF Within
<1> QED
  BY <1>2 DEF Divided

LEMMA InitInv ==
  ASSUME Apart(Ranges), Init
  PROVE  IInv
<1>1. TypeOK
  BY InitType
<1>2. Held = {}
  BY DEF Init, Held
<1>3. Divided(pool, Held)
  BY <1>2, FileDivided DEF Init
<1>4. Running /\ OneHolder /\ DbFits
  BY DEF Init, Running, OneHolder, DbFits
<1> QED
  BY <1>1, <1>3, <1>4, RunningInv DEF IInv

\* The invariant, action by action: prov_data_ready takes a block,
LEMMA CapsInv ==
  ASSUME IInv, NEW num \in 1..MaxEle, ProvCaps(num)
  PROVE  IInv'
<1> DEFINE got == net_obtain_address(pool, num)
           b == [addr |-> got.addr, num |-> num]
<1>1. TypeOK /\ TypeOK' /\ Held \in SUBSET BlockType /\ Divided(pool, Held)
      /\ OneHolder /\ DbFits /\ pool \in Seq(RangeType)
  <2>1. TypeOK'
    BY StepType DEF IInv, Next
  <2> QED
    BY <2>1, HeldType DEF IInv, TypeOK
<1>2. /\ Running /\ prov = None /\ got.addr # 0 /\ pool' = got.pool /\ prov' = b
      /\ UNCHANGED <<lost, nodes, db, read, up>>
  BY DEF ProvCaps
<1>3. b \in BlockType /\ \E i \in DOMAIN pool : Carved(pool, i, b, got.pool)
  BY <1>1, <1>2, ObtainCarves
<1> HIDE DEF b, got
<1>4. Divided(got.pool, Held \cup {b}) /\ \A c \in Held : Asunder(b, c)
  BY <1>1, <1>3, CarvedDivided
<1>5. b \notin Held /\ b # None
  BY <1>3, <1>4, BlockFields, PoolAssumption DEF Asunder
<1>6. Held' = Held \cup {b}
  BY <1>2, <1>5 DEF Held
<1>7. Divided(pool, Held)'
  BY <1>2, <1>4, <1>6
<1>8. OneHolder' /\ DbFits'
  BY <1>1, <1>2, <1>5 DEF OneHolder, DbFits, Held
<1>9. (ReadSoFar /\ StillFits /\ RefusedRightly)'
  <2>1. Running'
    BY <1>2 DEF Running
  <2> QED
    BY <1>1, <2>1, RunningInv, PTL
<1> QED
  BY <1>1, <1>7, <1>8, <1>9 DEF IInv

\* What a step of the main loop has to show.
LEMMA LoopStep ==
  ASSUME IInv, Next, Running', Divided(pool', Held'), OneHolder', DbFits'
  PROVE  IInv'
<1>1. TypeOK'
  BY StepType DEF IInv
<1>2. (ReadSoFar /\ StillFits /\ RefusedRightly)'
  BY <1>1, RunningInv, PTL
<1>3. Divided(pool, Held)'
  OBVIOUS
<1> QED
  BY <1>1, <1>2, <1>3 DEF IInv

\* prov_complete with an error gives it back,
LEMMA FailsInv ==
  ASSUME IInv, "merge" \notin Env, ProvFails
  PROVE  IInv'
<1>1. /\ TypeOK /\ Held \in SUBSET BlockType /\ Divided(pool, Held)
      /\ OneHolder /\ DbFits /\ pool \in Seq(RangeType)
  BY HeldType DEF IInv, TypeOK
<1>2. /\ Running /\ prov # None /\ MayRelease(prov)
      /\ pool' = net_release_address(pool, prov) /\ prov' = None
      /\ UNCHANGED <<lost, nodes, db, read, up>>
  BY DEF ProvFails
<1>3. prov \in Held /\ Held' = Held \ {prov}
  BY <1>1, <1>2 DEF Held, OneHolder
<1>4. \A i \in DOMAIN pool : ~Joins(pool[i], prov)
  BY <1>2 DEF MayRelease
<1>5. Divided(pool', Held')
  BY <1>1, <1>2, <1>3, <1>4, ReleaseDivided
<1>6. None \notin nodes \cup lost
  BY <1>1, PoolAssumption DEF TypeOK
<1>7. Running' /\ OneHolder' /\ DbFits'
  BY <1>1, <1>2, <1>6 DEF Running, OneHolder, DbFits
<1> QED
  BY <1>5, <1>7, LoopStep DEF Next

\* a disconnect makes it lost,
LEMMA CutOffInv ==
  ASSUME IInv, ProvCutOff
  PROVE  IInv'
<1>1. TypeOK /\ Divided(pool, Held) /\ OneHolder /\ DbFits
  BY DEF IInv
<1>2. /\ Running /\ prov # None /\ lost' = lost \cup {prov} /\ prov' = None
      /\ UNCHANGED <<pool, nodes, db, read, up>>
  BY DEF ProvCutOff
<1>3. Held' = Held
  BY <1>2 DEF Held
<1>4. Divided(pool', Held')
  BY <1>1, <1>2, <1>3
<1>5. None \notin nodes \cup lost \cup {prov}
  BY <1>1, <1>2, PoolAssumption DEF TypeOK
<1>6. Running' /\ OneHolder' /\ DbFits'
  BY <1>1, <1>2, <1>5 DEF Running, OneHolder, DbFits
<1> QED
  BY <1>4, <1>6, LoopStep DEF Next

\* mesh_prov_done makes it a node's and appends it to the database,
LEMMA DoneInv ==
  ASSUME IInv, ProvDone
  PROVE  IInv'
<1>1. TypeOK /\ Divided(pool, Held) /\ OneHolder /\ DbFits
  BY DEF IInv
<1>2. /\ Running /\ prov # None /\ nodes' = nodes \cup {prov} /\ prov' = None
      /\ db' = Append(db, prov) /\ read' = read + 1 /\ UNCHANGED <<pool, lost, up>>
  BY DEF ProvDone
<1>3. Held' = Held /\ prov \in Held
  BY <1>2 DEF Held
<1>4. Divided(pool', Held')
  BY <1>1, <1>2, <1>3
<1>5. None \notin nodes \cup lost \cup {prov}
  BY <1>1, <1>2, PoolAssumption DEF TypeOK
<1>6. /\ db \in Seq(BlockType) /\ Len(db) \in Nat /\ DOMAIN db = 1..Len(db)
      /\ DOMAIN db' = 1..(Len(db) + 1) /\ Len(db') = Len(db) + 1
      /\ \A k \in DOMAIN db : db'[k] = db[k]
      /\ db'[Len(db) + 1] = prov
  BY <1>1, <1>2 DEF TypeOK
<1>7. DbFits'
  <2> SUFFICES ASSUME NEW k \in DOMAIN db'
               PROVE  \E j \in DOMAIN Ranges : Fits(Ranges[j], db'[k])
    BY DEF DbFits
  <2>1. CASE k \in DOMAIN db
    BY <1>1, <1>6, <2>1 DEF DbFits
  <2>2. CASE k = Len(db) + 1
    BY <1>1, <1>3, <1>6, <2>2 DEF Divided
  <2> QED
    BY <1>6, <2>1, <2>2
<1>8. Running' /\ OneHolder'
  BY <1>1, <1>2, <1>5, <1>6 DEF Running, OneHolder
<1> QED
  BY <1>4, <1>7, <1>8, LoopStep DEF Next

\* OP_NODE_RESET_STATUS gives a node's block back,
LEMMA ResetInv ==
  ASSUME IInv, "merge" \notin Env, NEW b \in nodes, NodeReset(b)
  PROVE  IInv'
<1>1. /\ TypeOK /\ Held \in SUBSET BlockType /\ Divided(pool, Held)
      /\ OneHolder /\ DbFits /\ pool \in Seq(RangeType)
  BY HeldType DEF IInv, TypeOK
<1>2. /\ Running /\ MayRelease(b)
      /\ pool' = net_release_address(pool, b) /\ nodes' = nodes \ {b}
      /\ UNCHANGED <<prov, lost, db, read, up>>
  BY DEF NodeReset
<1>3. b \in Held /\ Held' = Held \ {b}
  BY <1>1, <1>2 DEF Held, OneHolder
<1>4. \A i \in DOMAIN pool : ~Joins(pool[i], b)
  BY <1>2 DEF MayRelease
<1>5. Divided(pool', Held')
  BY <1>1, <1>2, <1>3, <1>4, ReleaseDivided
<1>6. Running' /\ OneHolder' /\ DbFits'
  BY <1>1, <1>2 DEF Running, OneHolder, DbFits
<1> QED
  BY <1>5, <1>6, LoopStep DEF Next

\* a start has the ranges of the file, whole,
LEMMA RestartInv ==
  ASSUME IInv, Apart(Ranges), Restart
  PROVE  IInv'
<1>1. TypeOK' /\ DbFits
  BY StepType DEF IInv, Next
<1>2. /\ up /\ pool' = Ranges /\ read' = 0 /\ prov' = None /\ lost' = {} /\ nodes' = {}
      /\ db' = db /\ up' = up
  BY DEF Restart
<1>3. Held' = {}
  BY <1>2 DEF Held
<1>4. Divided(pool, Held)'
  BY <1>2, <1>3, FileDivided
<1>5. OneHolder' /\ DbFits' /\ RefusedRightly'
  BY <1>1, <1>2 DEF OneHolder, DbFits, RefusedRightly
<1>6. ReadSoFar'
  BY <1>2 DEF ReadSoFar, SoFar
<1>7. StillFits'
  <2>1. db \in Seq(BlockType) /\ DOMAIN db = 1..Len(db) /\ (0 + 1)..Len(db) = 1..Len(db)
    BY <1>2 DEF IInv, TypeOK
  <2> QED
    BY <1>1, <1>2, <2>1 DEF StillFits, DbFits
<1> QED
  BY <1>1, <1>4, <1>5, <1>6, <1>7 DEF IInv

\* A node of the file gets its block.
LEMMA ParseFacts ==
  ASSUME IInv, parse_node, up'
  PROVE  /\ read + 1 \in DOMAIN db /\ db[read + 1] \in BlockType
         /\ read' = read + 1 /\ nodes' = nodes \cup {db[read + 1]}
         /\ nodes' = {db[k] : k \in 1..(read + 1)}
         /\ \A i, j \in 1..(read + 1) : i # j => Asunder(db[i], db[j])
         /\ prov = None /\ lost = {} /\ UNCHANGED <<prov, lost, db>>
         /\ Held' = nodes'
         /\ Divided(pool', Held')
         /\ \E i \in DOMAIN pool : Carved(pool, i, db[read + 1], pool')
<1> DEFINE b == db[read + 1]
           got == net_reserve_address_range(pool, b)
<1>1. /\ TypeOK /\ Held \in SUBSET BlockType /\ Divided(pool, Held) /\ ReadSoFar
      /\ pool \in Seq(RangeType)
  BY HeldType DEF IInv, TypeOK
<1>2. /\ up /\ read < Len(db) /\ pool' = got.pool /\ got.ok
      /\ nodes' = nodes \cup {b} /\ read' = read + 1 /\ UNCHANGED <<prov, lost, db>>
  BY DEF parse_node
<1>3. /\ read \in Nat /\ Len(db) \in Nat /\ DOMAIN db = 1..Len(db)
      /\ read + 1 \in DOMAIN db /\ b \in BlockType
      /\ \A k \in 1..read : k \in DOMAIN db
  BY <1>1, <1>2 DEF TypeOK
<1>4. SoFar(read) /\ prov = None /\ lost = {}
  BY <1>1, <1>2 DEF ReadSoFar
<1>5. Held = nodes
  BY <1>4 DEF Held
<1> HIDE DEF b, got
<1>6. \E i \in DOMAIN pool : Carved(pool, i, b, pool')
  BY <1>1, <1>2, <1>3, ReserveCarves DEF got
<1>7. Divided(pool', Held \cup {b}) /\ \A c \in Held : Asunder(b, c)
  BY <1>1, <1>3, <1>6, CarvedDivided
<1>8. Held' = nodes'
  BY <1>2, <1>4 DEF Held
<1>9. nodes' = {db[k] : k \in 1..(read + 1)}
  <2>1. nodes = {db[k] : k \in 1..read}
    BY <1>4 DEF SoFar
  <2>2. 1..(read + 1) = (1..read) \cup {read + 1}
    BY <1>3
  <2>3. {db[k] : k \in 1..(read + 1)} = {db[k] : k \in 1..read} \cup {db[read + 1]}
    BY <2>2
  <2> QED
    BY <1>2, <2>1, <2>3 DEF b
<1>10. \A i, j \in 1..(read + 1) : i # j => Asunder(db[i], db[j])
  <2> SUFFICES ASSUME NEW i \in 1..(read + 1), NEW j \in 1..(read + 1), i # j
               PROVE  Asunder(db[i], db[j])
    OBVIOUS
  <2>0. \A k \in 1..read : db[k] \in Held
    BY <1>4, <1>5 DEF SoFar
  <2>1. CASE i \in 1..read /\ j \in 1..read
    BY <1>4, <2>1 DEF SoFar
  <2>2. CASE i = read + 1 /\ j \in 1..read
    BY <1>7, <2>0, <2>2 DEF b
  <2>3. CASE i \in 1..read /\ j = read + 1
    <3>1. Asunder(b, db[i])
      BY <1>7, <2>0, <2>3
    <3> QED
      BY <2>3, <3>1 DEF Asunder, b
  <2> QED
    BY <1>3, <2>1, <2>2, <2>3
<1> QED
  BY <1>2, <1>3, <1>4, <1>5, <1>6, <1>7, <1>8, <1>9, <1>10 DEF b

\* and a node read gets its block; every later one still can.
LEMMA ParseInv ==
  ASSUME IInv, parse_node, up'
  PROVE  IInv'
<1> DEFINE b == db[read + 1]
<1>1. TypeOK' /\ TypeOK /\ DbFits /\ StillFits /\ up /\ pool \in Seq(RangeType)
      /\ db \in Seq(BlockType) /\ read \in Nat /\ Len(db) \in Nat /\ DOMAIN db = 1..Len(db)
  BY StepType DEF IInv, Next, parse_node, TypeOK
<1>2. OneHolder'
  BY <1>1, ParseFacts, PoolAssumption DEF OneHolder, TypeOK
<1>3. DbFits' /\ RefusedRightly'
  BY <1>1, ParseFacts DEF DbFits, RefusedRightly
<1>4. ReadSoFar'
  BY ParseFacts DEF ReadSoFar, SoFar
<1>5. StillFits'
  <2> SUFFICES ASSUME Consistent, NEW k \in (read + 2)..Len(db)
               PROVE  \E i \in DOMAIN pool' : Fits(pool'[i], db[k])
    <3>1. Consistent' <=> Consistent
      BY ParseFacts DEF Consistent
    <3>2. read' + 1 = read + 2 /\ db' = db
      BY <1>1, ParseFacts
    <3> QED
      BY <3>1, <3>2 DEF StillFits
  <2>1. k \in (read + 1)..Len(db) /\ k \in DOMAIN db /\ k # read + 1
    BY <1>1
  <2>2. \E i \in DOMAIN pool : Fits(pool[i], db[k])
    BY <1>1, <2>1 DEF StillFits
  <2>3. read + 1 \in DOMAIN db /\ db[read + 1] \in BlockType /\ db[k] \in BlockType
    BY <1>1, <2>1, ParseFacts
  <2>4. Asunder(db[read + 1], db[k])
    BY <1>1, <2>1, <2>3, ConsistentAsunder
  <2>5. PICK i \in DOMAIN pool : Carved(pool, i, db[read + 1], pool')
    BY ParseFacts
  <2> DEFINE b1 == db[read + 1]
             c == db[k]
  <2>6. /\ b1 \in BlockType /\ c \in BlockType /\ Asunder(b1, c)
        /\ Carved(pool, i, b1, pool') /\ \E j \in DOMAIN pool : Fits(pool[j], c)
    BY <2>2, <2>3, <2>4, <2>5
  <2> HIDE DEF b1, c
  <2>7. \E j \in DOMAIN pool' : Fits(pool'[j], c)
    BY <1>1, <2>6, CarvedFits
  <2> QED
    BY <2>7 DEF c
<1>6. Divided(pool, Held)'
  BY ParseFacts
<1> QED
  BY <1>1, <1>2, <1>3, <1>4, <1>5, <1>6 DEF IInv

\* A node of the file does not get its block: the database is inconsistent.
LEMMA RefuseInv ==
  ASSUME IInv, parse_node, ~up'
  PROVE  IInv'
<1> DEFINE b == db[read + 1]
           got == net_reserve_address_range(pool, b)
<1>1. TypeOK' /\ TypeOK /\ DbFits /\ StillFits /\ OneHolder /\ ReadSoFar
      /\ Divided(pool, Held) /\ pool \in Seq(RangeType)
      /\ db \in Seq(BlockType) /\ read \in Nat /\ Len(db) \in Nat
  BY StepType DEF IInv, Next, TypeOK
<1>2. /\ up /\ read < Len(db) /\ ~got.ok /\ pool' = got.pool
      /\ UNCHANGED <<nodes, read, prov, lost, db>>
  BY DEF parse_node
<1>3. FirstAround(pool, b) = 0 /\ pool' = pool
  BY <1>2 DEF net_reserve_address_range
<1>4. ~Consistent
  <2> SUFFICES ASSUME Consistent PROVE FALSE
    OBVIOUS
  <2>1. read + 1 \in (read + 1)..Len(db)
    BY <1>1, <1>2
  <2>2. \E i \in DOMAIN pool : Fits(pool[i], b)
    BY <1>1, <1>2, <2>1 DEF StillFits
  <2> HIDE DEF b
  <2> QED
    BY <1>1, <1>3, <2>2, FirstAroundFacts
<1>5. Held' = Held /\ ~Consistent'
  BY <1>2, <1>4 DEF Held, Consistent
<1>6. Divided(pool, Held)'
  BY <1>1, <1>3, <1>5
<1>7. (OneHolder /\ DbFits /\ ReadSoFar)'
  BY <1>1, <1>2 DEF OneHolder, DbFits, ReadSoFar, SoFar
<1>8. (StillFits /\ RefusedRightly)'
  BY <1>2, <1>5 DEF StillFits, RefusedRightly
<1> QED
  BY <1>1, <1>6, <1>7, <1>8 DEF IInv

LEMMA StepInv ==
  ASSUME Apart(Ranges), "merge" \notin Env, IInv, [Next]_vars
  PROVE  IInv'
<1>1. CASE UNCHANGED vars
  <2>1. TypeOK'
    BY StepType DEF IInv
  <2>2. Held' = Held
    BY <1>1 DEF vars, Held
  <2>3. Divided(pool, Held)'
    BY <1>1, <2>2 DEF IInv, vars
  <2>4. (OneHolder /\ DbFits /\ ReadSoFar /\ StillFits /\ RefusedRightly)'
    BY <1>1 DEF IInv, vars, OneHolder, DbFits, ReadSoFar, SoFar, StillFits,
                RefusedRightly, Consistent
  <2> QED
    BY <2>1, <2>3, <2>4 DEF IInv
<1>2. CASE Next
  BY <1>2, CapsInv, FailsInv, CutOffInv, DoneInv, ResetInv, RestartInv, ParseInv,
     RefuseInv DEF Next
<1> QED
  BY <1>1, <1>2

LEMMA Inductive ==
  ASSUME Apart(Ranges), "merge" \notin Env
  PROVE  Spec => []IInv
<1>1. Init => IInv
  BY InitInv
<1>2. IInv /\ [Next]_vars => IInv'
  BY StepInv
<1> QED
  BY <1>1, <1>2, PTL DEF Spec

-----------------------------------------------------------------------------
(* Sets of addresses. *)

\* An address is in the list, in a block.
LEMMA PoolMember ==
  ASSUME NEW p \in Seq(RangeType), NEW a
  PROVE  a \in PoolAddresses(p) <=> a \in Nat /\ InPool(p, a)
<1>1. \A i \in DOMAIN p : p[i].min \in Nat /\ p[i].max \in Nat
  BY RangeFields
<1>2. \A i \in DOMAIN p : a \in Covers(p[i]) <=> a \in Nat /\ p[i].min <= a /\ a <= p[i].max
  BY <1>1 DEF Covers
<1> QED
  BY <1>2 DEF PoolAddresses, InPool

LEMMA BlockMember ==
  ASSUME NEW b \in BlockType, NEW a
  PROVE  a \in BlockAddresses(b) <=> a \in Nat /\ b.addr <= a /\ a < b.addr + b.num
<1>1. b.addr \in Nat /\ b.num \in Nat
  BY BlockFields
<1> QED
  BY <1>1 DEF BlockAddresses

LEMMA CoverDisjoint ==
  ASSUME NEW r \in RangeType, NEW s \in RangeType, Separate(r, s)
  PROVE  Covers(r) \cap Covers(s) = {}
<1>1. r.min \in Nat /\ r.max \in Nat /\ s.min \in Nat /\ s.max \in Nat
  BY RangeFields
<1> QED
  BY <1>1 DEF Covers, Separate

LEMMA ClearDisjoint ==
  ASSUME NEW r \in RangeType, NEW b \in BlockType, Clear(r, b)
  PROVE  Covers(r) \cap BlockAddresses(b) = {} /\ BlockAddresses(b) \cap Covers(r) = {}
<1>1. r.min \in Nat /\ r.max \in Nat /\ b.addr \in Nat /\ b.num \in Nat
  BY RangeFields, BlockFields
<1> QED
  BY <1>1 DEF Covers, BlockAddresses, Clear

\* An address of the file is free or in use, and not both.
LEMMA DividedMember ==
  ASSUME NEW p \in Seq(RangeType), NEW H \in SUBSET BlockType, Divided(p, H), NEW a \in Nat
  PROVE  /\ InPool(Ranges, a) <=> InPool(p, a) \/ InBlocks(H, a)
         /\ ~(InPool(p, a) /\ InBlocks(H, a))
<1>0. /\ \A i \in DOMAIN p : p[i].min \in Nat /\ p[i].max \in Nat
      /\ \A j \in DOMAIN Ranges : Ranges[j].min \in Nat /\ Ranges[j].max \in Nat
      /\ \A b \in H : b.addr \in Nat /\ b.num \in Nat
  BY RangeFields, BlockFields, PoolAssumption
<1>1. ASSUME InPool(p, a) PROVE InPool(Ranges, a)
  <2>1. PICK i \in DOMAIN p : p[i].min <= a /\ a <= p[i].max
    BY <1>1 DEF InPool
  <2>2. PICK j \in DOMAIN Ranges : Within(p[i], Ranges[j])
    BY DEF Divided
  <2>3. Ranges[j].min <= a /\ a <= Ranges[j].max
    BY <1>0, <2>1, <2>2 DEF Within
  <2> QED
    BY <2>3 DEF InPool
<1>2. ASSUME InBlocks(H, a) PROVE InPool(Ranges, a)
  <2>1. PICK b \in H : b.addr <= a /\ a < b.addr + b.num
    BY <1>2 DEF InBlocks
  <2>2. PICK j \in DOMAIN Ranges : Fits(Ranges[j], b)
    BY DEF Divided
  <2>3. Ranges[j].min <= a /\ a <= Ranges[j].max
    BY <1>0, <2>1, <2>2 DEF Fits
  <2> QED
    BY <2>3 DEF InPool
<1>3. ASSUME InPool(p, a), InBlocks(H, a) PROVE FALSE
  <2>1. PICK i \in DOMAIN p : p[i].min <= a /\ a <= p[i].max
    BY <1>3 DEF InPool
  <2>2. PICK b \in H : b.addr <= a /\ a < b.addr + b.num
    BY <1>3 DEF InBlocks
  <2>3. Clear(p[i], b)
    BY DEF Divided
  <2> QED
    BY <1>0, <2>1, <2>2, <2>3 DEF Clear
<1> QED
  BY <1>1, <1>2, <1>3 DEF Divided

\* Ends of ranges and blocks, turned into sets of addresses.
LEMMA InvPartition == IInv => Partition
<1> SUFFICES ASSUME IInv PROVE Partition
  OBVIOUS
<1> DEFINE ranges == {<<"pool", i, Covers(pool[i])>> : i \in DOMAIN pool}
           blocks == {<<"held", b.addr, BlockAddresses(b)>> : b \in Held}
           parts == ranges \cup blocks
<1>1. /\ pool \in Seq(RangeType) /\ Held \in SUBSET BlockType /\ Divided(pool, Held)
      /\ \A i \in DOMAIN pool : pool[i] \in RangeType
  BY HeldType DEF IInv, TypeOK
<1>2. ASSUME NEW s \in parts, NEW t \in parts, s # t PROVE s[3] \cap t[3] = {}
  <2>1. CASE s \in ranges /\ t \in ranges
    <3>1. PICK i \in DOMAIN pool : s = <<"pool", i, Covers(pool[i])>>
      BY <2>1
    <3>2. PICK j \in DOMAIN pool : t = <<"pool", j, Covers(pool[j])>>
      BY <2>1
    <3>3. i # j /\ s[3] = Covers(pool[i]) /\ t[3] = Covers(pool[j])
      BY <1>2, <3>1, <3>2
    <3>4. Separate(pool[i], pool[j])
      BY <1>1, <3>3 DEF Divided, Apart
    <3> QED
      BY <1>1, <3>3, <3>4, CoverDisjoint
  <2>2. CASE s \in ranges /\ t \in blocks
    <3>1. PICK i \in DOMAIN pool : s = <<"pool", i, Covers(pool[i])>>
      BY <2>2
    <3>2. PICK b \in Held : t = <<"held", b.addr, BlockAddresses(b)>>
      BY <2>2
    <3>3. s[3] = Covers(pool[i]) /\ t[3] = BlockAddresses(b)
      BY <3>1, <3>2
    <3>4. Clear(pool[i], b)
      BY <1>1 DEF Divided
    <3> QED
      BY <1>1, <3>3, <3>4, ClearDisjoint
  <2>3. CASE s \in blocks /\ t \in ranges
    <3>1. PICK i \in DOMAIN pool : t = <<"pool", i, Covers(pool[i])>>
      BY <2>3
    <3>2. PICK b \in Held : s = <<"held", b.addr, BlockAddresses(b)>>
      BY <2>3
    <3>3. t[3] = Covers(pool[i]) /\ s[3] = BlockAddresses(b)
      BY <3>1, <3>2
    <3>4. Clear(pool[i], b)
      BY <1>1 DEF Divided
    <3> QED
      BY <1>1, <3>3, <3>4, ClearDisjoint
  <2>4. CASE s \in blocks /\ t \in blocks
    <3>1. PICK b \in Held : s = <<"held", b.addr, BlockAddresses(b)>>
      BY <2>4
    <3>2. PICK c \in Held : t = <<"held", c.addr, BlockAddresses(c)>>
      BY <2>4
    <3>3. b # c /\ s[3] = BlockAddresses(b) /\ t[3] = BlockAddresses(c)
      BY <1>2, <3>1, <3>2
    <3>4. Asunder(b, c)
      BY <1>1, <3>3 DEF Divided
    <3> QED
      BY <1>1, <3>3, <3>4, AsunderDisjoint
  <2> QED
    BY <2>1, <2>2, <2>3, <2>4
<1>3. UNION {s[3] : s \in parts} = AllocatedAddresses
  <2>1. \A a : a \in UNION {s[3] : s \in parts} <=>
                 \/ \E i \in DOMAIN pool : a \in Covers(pool[i])
                 \/ \E b \in Held : a \in BlockAddresses(b)
    <3> SUFFICES ASSUME NEW a
                 PROVE  a \in UNION {s[3] : s \in parts} <=>
                          \/ \E i \in DOMAIN pool : a \in Covers(pool[i])
                          \/ \E b \in Held : a \in BlockAddresses(b)
      OBVIOUS
    <3>1. ASSUME NEW s \in parts, a \in s[3]
          PROVE  \/ \E i \in DOMAIN pool : a \in Covers(pool[i])
                 \/ \E b \in Held : a \in BlockAddresses(b)
      <4>1. CASE s \in ranges
        BY <3>1, <4>1
      <4>2. CASE s \in blocks
        BY <3>1, <4>2
      <4> QED
        BY <4>1, <4>2
    <3>2. ASSUME NEW i \in DOMAIN pool, a \in Covers(pool[i])
          PROVE  \E s \in parts : a \in s[3]
      <4> DEFINE s == <<"pool", i, Covers(pool[i])>>
      <4>1. s \in parts
        OBVIOUS
      <4>2. s[3] = Covers(pool[i])
        OBVIOUS
      <4> QED
        BY <3>2, <4>1, <4>2
    <3>3. ASSUME NEW b \in Held, a \in BlockAddresses(b)
          PROVE  \E s \in parts : a \in s[3]
      <4> DEFINE s == <<"held", b.addr, BlockAddresses(b)>>
      <4>1. s \in parts
        OBVIOUS
      <4>2. s[3] = BlockAddresses(b)
        OBVIOUS
      <4> QED
        BY <3>3, <4>1, <4>2
    <3> HIDE DEF parts
    <3> QED
      BY <3>1, <3>2, <3>3
  <2> HIDE DEF parts
  <2>2. \A a : (\E i \in DOMAIN pool : a \in Covers(pool[i])) <=> a \in Nat /\ InPool(pool, a)
    <3>1. \A a : (\E i \in DOMAIN pool : a \in Covers(pool[i])) <=> a \in PoolAddresses(pool)
      BY DEF PoolAddresses
    <3> QED
      BY <1>1, <3>1, PoolMember
  <2>3. \A a : (\E b \in Held : a \in BlockAddresses(b)) <=> a \in Nat /\ InBlocks(Held, a)
    <3>1. \A b \in Held : \A a :
            a \in BlockAddresses(b) <=> a \in Nat /\ b.addr <= a /\ a < b.addr + b.num
      BY <1>1, BlockMember
    <3> QED
      BY <3>1 DEF InBlocks
  <2>4. \A a : a \in AllocatedAddresses <=> a \in Nat /\ InPool(Ranges, a)
    BY PoolAssumption, PoolMember DEF AllocatedAddresses
  <2>5. \A a \in Nat : InPool(Ranges, a) <=> InPool(pool, a) \/ InBlocks(Held, a)
    BY <1>1, DividedMember
  <2>6. \A a : a \in UNION {s[3] : s \in parts} <=> a \in AllocatedAddresses
    BY <2>1, <2>2, <2>3, <2>4, <2>5
  <2> QED
    BY <2>6
<1> QED
  BY <1>2, <1>3 DEF Partition

(* The ranges of the pool and the blocks of nodes, of the provisioning under *)
(* way and of those cut off divide the addresses of the file without overlap *)
(* and without loss, at every point also of a start, for any ranges of the   *)
(* file that do not overlap and any number of nodes, as long as no block is  *)
(* released next to a free range (net_release_address, prov_complete).       *)
THEOREM AddressesDivided ==
  ASSUME Apart(Ranges), "merge" \notin Env
  PROVE  Spec => []Partition
BY Inductive, InvPartition, PTL

-----------------------------------------------------------------------------
(* The list of ranges implements a set of addresses. *)

\* What is free is what no block of H has.
LEMMA FreeIsRest ==
  ASSUME NEW p \in Seq(RangeType), NEW H \in SUBSET BlockType, Divided(p, H)
  PROVE  /\ PoolAddresses(p) = AllocatedAddresses \ UNION {BlockAddresses(b) : b \in H}
         /\ \A b \in H : BlockAddresses(b) \subseteq AllocatedAddresses
<1>1. \A a : a \in PoolAddresses(p) <=> a \in Nat /\ InPool(p, a)
  BY PoolMember
<1>2. \A a : a \in AllocatedAddresses <=> a \in Nat /\ InPool(Ranges, a)
  BY PoolAssumption, PoolMember DEF AllocatedAddresses
<1>3. \A b \in H : \A a :
        a \in BlockAddresses(b) <=> a \in Nat /\ b.addr <= a /\ a < b.addr + b.num
  BY BlockMember
<1>4. \A a : a \in UNION {BlockAddresses(b) : b \in H} <=> a \in Nat /\ InBlocks(H, a)
  BY <1>3 DEF InBlocks
<1>5. \A a \in Nat : /\ InPool(Ranges, a) <=> InPool(p, a) \/ InBlocks(H, a)
                     /\ ~(InPool(p, a) /\ InBlocks(H, a))
  BY DividedMember
<1>6. PoolAddresses(p) = AllocatedAddresses \ UNION {BlockAddresses(b) : b \in H}
  <2> SUFFICES ASSUME NEW a
               PROVE  a \in PoolAddresses(p) <=>
                        a \in AllocatedAddresses /\ a \notin UNION {BlockAddresses(b) : b \in H}
    OBVIOUS
  <2> QED
    BY <1>1, <1>2, <1>4, <1>5
<1>7. ASSUME NEW b \in H, NEW a \in BlockAddresses(b) PROVE a \in AllocatedAddresses
  <2>1. a \in UNION {BlockAddresses(c) : c \in H}
    BY <1>7
  <2> QED
    BY <1>2, <1>4, <1>5, <2>1
<1> QED
  BY <1>6, <1>7

\* One more block in use: its addresses, and no others, are no longer free.
LEMMA OneMore ==
  ASSUME NEW p \in Seq(RangeType), NEW q \in Seq(RangeType),
         NEW H \in SUBSET BlockType, NEW b \in BlockType, b \notin H,
         Divided(p, H), Divided(q, H \cup {b})
  PROVE  /\ BlockAddresses(b) \subseteq PoolAddresses(p)
         /\ PoolAddresses(q) = PoolAddresses(p) \ BlockAddresses(b)
         /\ PoolAddresses(p) = PoolAddresses(q) \cup BlockAddresses(b)
         /\ b.addr \in AllocatedAddresses
<1> DEFINE U == UNION {BlockAddresses(c) : c \in H}
           V == UNION {BlockAddresses(c) : c \in H \cup {b}}
<1>1. V = U \cup BlockAddresses(b)
  OBVIOUS
<1>2. PoolAddresses(p) = AllocatedAddresses \ U
  BY FreeIsRest
<1>3. /\ PoolAddresses(q) = AllocatedAddresses \ V
      /\ BlockAddresses(b) \subseteq AllocatedAddresses
  <2>1. H \cup {b} \in SUBSET BlockType
    OBVIOUS
  <2> QED
    BY <2>1, FreeIsRest
<1>4. \A c \in H : BlockAddresses(b) \cap BlockAddresses(c) = {}
  <2> SUFFICES ASSUME NEW c \in H PROVE BlockAddresses(b) \cap BlockAddresses(c) = {}
    OBVIOUS
  <2>1. Asunder(b, c)
    BY DEF Divided
  <2> QED
    BY <2>1, AsunderDisjoint
<1>5. BlockAddresses(b) \cap U = {}
  BY <1>4
<1>6. b.addr \in BlockAddresses(b)
  BY BlockFields, BlockMember
<1> HIDE DEF U, V
<1> QED
  BY <1>1, <1>2, <1>3, <1>5, <1>6

\* The mapping's operators are the model's.
LEMMA SpaceNames ==
  /\ Space!Disjoint <=> Consistent
  /\ Space!Kept = Kept
  /\ \A b : Space!Block(b) = BlockAddresses(b)
BY DEF Space!Disjoint, Space!Kept, Space!Block, Consistent, Kept, BlockAddresses

\* A block is one AddressSpace may take, give back and keep.
LEMMA SpaceBlock ==
  ASSUME NEW b \in BlockType, b.addr \in AllocatedAddresses,
         Space!Take(b) \/ Space!Give(b) \/ Space!Keep(b)
  PROVE  Space!Next
<1>1. b.num \in 1..MaxEle /\ b = [addr |-> b.addr, num |-> b.num]
  BY DEF BlockType
<1> QED
  BY <1>1 DEF Space!Next

\* The main loop runs: what is free is the pool, what is taken is in use.
LEMMA RunningMaps == Running => FreeAddresses = PoolAddresses(pool) /\ TakenBlocks = Held
BY DEF FreeAddresses, TakenBlocks

LEMMA InvFacts ==
  IInv => /\ pool \in Seq(RangeType) /\ Held \in SUBSET BlockType /\ Divided(pool, Held)
          /\ OneHolder /\ db \in Seq(BlockType)
BY HeldType DEF IInv, TypeOK

\* prov_data_ready takes the block of a provisioning.
LEMMA CapsMaps ==
  ASSUME IInv, IInv', NEW num \in 1..MaxEle, ProvCaps(num)
  PROVE  Space!Next
<1> DEFINE b == prov'
<1>1. /\ pool \in Seq(RangeType) /\ Held \in SUBSET BlockType /\ Divided(pool, Held)
  BY InvFacts
<1>2. (/\ pool \in Seq(RangeType) /\ Held \in SUBSET BlockType /\ Divided(pool, Held)
       /\ OneHolder)'
  BY InvFacts, PTL
<1>3. /\ Running /\ prov = None /\ b = [addr |-> net_obtain_address(pool, num).addr, num |-> num]
      /\ UNCHANGED <<lost, nodes, db, read, up>>
  BY DEF ProvCaps
<1>4. b # None
  <2>1. net_obtain_address(pool, num).addr # 0
    BY DEF ProvCaps
  <2>2. b \in BlockType
    BY <1>1, <1>3, <2>1, ObtainCarves
  <2> QED
    BY <2>2, PoolAssumption
<1>5. b \notin Held /\ Held' = Held \cup {b}
  BY <1>2, <1>3, <1>4 DEF Held, OneHolder
<1>6. b \in BlockType
  BY <1>2, <1>5
<1> HIDE DEF b
<1>7. /\ BlockAddresses(b) \subseteq PoolAddresses(pool)
      /\ PoolAddresses(pool') = PoolAddresses(pool) \ BlockAddresses(b)
      /\ b.addr \in AllocatedAddresses
  BY <1>1, <1>2, <1>5, <1>6, OneMore
<1>8. FreeAddresses = PoolAddresses(pool) /\ TakenBlocks = Held
  BY <1>3, RunningMaps
<1>9. FreeAddresses' = PoolAddresses(pool') /\ TakenBlocks' = Held'
  <2>1. Running'
    BY <1>3 DEF Running
  <2> QED
    BY <2>1 DEF FreeAddresses, TakenBlocks
<1>10. Space!Take(b)
  BY <1>3, <1>5, <1>7, <1>8, <1>9, SpaceNames DEF Space!Take
<1> QED
  BY <1>6, <1>7, <1>10, SpaceBlock

\* A block in use goes back to the pool.
LEMMA ReleaseMaps ==
  ASSUME IInv, IInv', NEW b \in Held, Held' = Held \ {b}, Running, Running', db' = db
  PROVE  Space!Next
<1>1. pool \in Seq(RangeType) /\ Held \in SUBSET BlockType /\ Divided(pool, Held)
  BY InvFacts
<1>2. (pool \in Seq(RangeType) /\ Held \in SUBSET BlockType /\ Divided(pool, Held))'
  BY InvFacts, PTL
<1>3. b \in BlockType /\ b \notin Held' /\ Held = Held' \cup {b}
  BY <1>1
<1>4. /\ PoolAddresses(pool') = PoolAddresses(pool) \cup BlockAddresses(b)
      /\ b.addr \in AllocatedAddresses
  <2>1. Divided(pool, Held' \cup {b})
    BY <1>1, <1>3
  <2> QED
    BY <1>1, <1>2, <1>3, <2>1, OneMore
<1>5. FreeAddresses = PoolAddresses(pool) /\ TakenBlocks = Held
  BY RunningMaps
<1>6. FreeAddresses' = PoolAddresses(pool') /\ TakenBlocks' = Held'
  BY DEF FreeAddresses, TakenBlocks
<1>7. Space!Give(b)
  BY <1>4, <1>5, <1>6, SpaceNames DEF Space!Give
<1> QED
  BY <1>3, <1>4, <1>7, SpaceBlock

\* prov_complete with an error gives the block back.
LEMMA FailsMaps ==
  ASSUME IInv, IInv', ProvFails
  PROVE  Space!Next
<1>1. /\ Running /\ prov # None /\ prov' = None
      /\ UNCHANGED <<lost, nodes, db, read, up>>
  BY DEF ProvFails
<1>2. OneHolder
  BY InvFacts
<1>3. prov \in Held /\ Held' = Held \ {prov}
  BY <1>1, <1>2 DEF Held, OneHolder
<1>4. Running'
  BY <1>1 DEF Running
<1> QED
  BY <1>1, <1>3, <1>4, ReleaseMaps

\* OP_NODE_RESET_STATUS gives the block back.
LEMMA ResetMaps ==
  ASSUME IInv, IInv', NEW b \in nodes, NodeReset(b)
  PROVE  Space!Next
<1>1. /\ Running /\ nodes' = nodes \ {b}
      /\ UNCHANGED <<prov, lost, db, read, up>>
  BY DEF NodeReset
<1>2. OneHolder
  BY InvFacts
<1>3. b \in Held /\ Held' = Held \ {b}
  BY <1>1, <1>2 DEF Held, OneHolder
<1>4. Running'
  BY <1>1 DEF Running
<1> QED
  BY <1>1, <1>3, <1>4, ReleaseMaps

\* A disconnect leaves the block taken.
LEMMA CutOffMaps ==
  ASSUME IInv, ProvCutOff
  PROVE  UNCHANGED Space!vars
<1>1. /\ Running /\ prov # None /\ lost' = lost \cup {prov} /\ prov' = None
      /\ UNCHANGED <<pool, nodes, db, read, up>>
  BY DEF ProvCutOff
<1>2. Held' = Held
  BY <1>1 DEF Held
<1>3. Running'
  BY <1>1 DEF Running
<1> QED
  BY <1>1, <1>2, <1>3 DEF FreeAddresses, TakenBlocks, Space!vars

\* mesh_prov_done keeps the block of the new node.
LEMMA DoneMaps ==
  ASSUME IInv, IInv', ProvDone
  PROVE  Space!Next
<1>1. /\ Running /\ prov # None /\ nodes' = nodes \cup {prov} /\ prov' = None
      /\ db' = Append(db, prov) /\ read' = read + 1 /\ UNCHANGED <<pool, lost, up>>
  BY DEF ProvDone
<1>2. /\ pool \in Seq(RangeType) /\ Held \in SUBSET BlockType /\ Divided(pool, Held)
      /\ db \in Seq(BlockType)
  BY InvFacts
<1>3. prov \in Held /\ Held' = Held
  BY <1>1 DEF Held
<1>4. prov \in BlockType /\ prov.addr \in AllocatedAddresses
  <2>1. prov \in BlockType /\ BlockAddresses(prov) \subseteq AllocatedAddresses
    BY <1>2, <1>3, FreeIsRest
  <2>2. prov.addr \in BlockAddresses(prov)
    BY <2>1, BlockFields, BlockMember
  <2> QED
    BY <2>1, <2>2
<1>5. Running'
  <2>1. Len(Append(db, prov)) = Len(db) + 1
    BY <1>2, <1>4
  <2> QED
    BY <1>1, <2>1 DEF Running
<1>6. UNCHANGED <<FreeAddresses, TakenBlocks>> /\ TakenBlocks = Held
  BY <1>1, <1>3, <1>5 DEF FreeAddresses, TakenBlocks
<1>7. Space!Keep(prov)
  BY <1>1, <1>3, <1>6 DEF Space!Keep
<1> QED
  BY <1>4, <1>7, SpaceBlock

\* read_json_db has, or will have, what the database leaves free.
LEMMA RestartMaps ==
  ASSUME IInv, Restart
  PROVE  Space!Next
<1>1. /\ up /\ pool' = Ranges /\ read' = 0 /\ prov' = None /\ lost' = {} /\ nodes' = {}
      /\ db' = db /\ up' = up
  BY DEF Restart
<1>2. db \in Seq(BlockType) /\ DOMAIN db = 1..Len(db) /\ Len(db) \in Nat
  BY InvFacts
<1>3. (Consistent' <=> Consistent) /\ Kept' = Kept
  BY <1>1 DEF Consistent, Kept
<1>4. Held' = {}
  BY <1>1 DEF Held
<1>5. CASE Len(db) = 0
  <2>1. DOMAIN db = {}
    BY <1>2, <1>5
  <2>2. Consistent /\ Kept = {} /\ {db[i] : i \in DOMAIN db} = {}
    BY <2>1 DEF Consistent, Kept
  <2>3. Running'
    BY <1>1, <1>5 DEF Running
  <2>4. FreeAddresses' = AllocatedAddresses /\ TakenBlocks' = {}
    BY <1>1, <1>4, <2>3 DEF FreeAddresses, TakenBlocks, AllocatedAddresses
  <2>5. Space!Restart
    BY <1>1, <2>2, <2>4, SpaceNames DEF Space!Restart
  <2> QED
    BY <2>5 DEF Space!Next
<1>6. CASE Len(db) # 0 /\ Consistent
  <2>1. ~Running'
    BY <1>1, <1>6 DEF Running
  <2>2. FreeAddresses' = AllocatedAddresses \ Kept /\ TakenBlocks' = ToSet(db)
    BY <1>1, <1>3, <1>6, <2>1 DEF FreeAddresses, TakenBlocks
  <2>3. ToSet(db) = {db[i] : i \in DOMAIN db}
    BY DEF ToSet
  <2>4. Space!Restart
    BY <1>1, <1>6, <2>2, <2>3, SpaceNames DEF Space!Restart
  <2> QED
    BY <2>4 DEF Space!Next
<1>7. CASE Len(db) # 0 /\ ~Consistent
  <2>1. ~Running'
    BY <1>1, <1>7 DEF Running
  <2>2. FreeAddresses' = {} /\ TakenBlocks' = {}
    BY <1>1, <1>3, <1>7, <2>1 DEF FreeAddresses, TakenBlocks
  <2>3. Space!Refuse
    BY <1>1, <1>7, <2>2, SpaceNames DEF Space!Refuse
  <2> QED
    BY <2>3 DEF Space!Next
<1> QED
  BY <1>5, <1>6, <1>7

\* parse_node goes on with a start that is already counted as done.
LEMMA ParseMaps ==
  ASSUME IInv, IInv', parse_node
  PROVE  UNCHANGED Space!vars
<1>1. /\ up /\ read < Len(db) /\ db' = db
      /\ db \in Seq(BlockType) /\ read \in Nat /\ Len(db) \in Nat /\ DOMAIN db = 1..Len(db)
  BY DEF parse_node, IInv, TypeOK
<1>2. ~Running
  <2>1. read \in Nat /\ Len(db) \in Nat /\ read < Len(db)
    BY <1>1
  <2>2. read # Len(db)
    BY ONLY <2>1
  <2> QED
    BY <2>2 DEF Running
<1>3. (Consistent' <=> Consistent) /\ Kept' = Kept
  BY <1>1 DEF Consistent, Kept
<1>4. CASE ~up'
  <2>1. ~Consistent'
    BY <1>4 DEF IInv, RefusedRightly
  <2>2. ~Running'
    BY <1>4 DEF Running
  <2> QED
    BY <1>1, <1>2, <1>3, <2>1, <2>2 DEF FreeAddresses, TakenBlocks, Space!vars
<1>5. CASE up' /\ read + 1 # Len(db)
  <2>1. ~Running'
    BY <1>1, <1>5, ParseFacts DEF Running
  <2> QED
    BY <1>1, <1>2, <1>3, <1>5, <2>1 DEF FreeAddresses, TakenBlocks, Space!vars
<1>6. CASE up' /\ read + 1 = Len(db)
  <2>1. Running'
    BY <1>1, <1>6, ParseFacts DEF Running
  <2>2. Consistent
    <3>1. \A i, j \in DOMAIN db : i # j => Asunder(db[i], db[j])
      BY <1>1, <1>6, ParseFacts
    <3> QED
      BY <1>1, <3>1, ConsistentAsunder
  <2>3. Held' = {db[k] : k \in DOMAIN db}
    BY <1>1, <1>6, ParseFacts
  <2>4. (pool \in Seq(RangeType) /\ Held \in SUBSET BlockType /\ Divided(pool, Held))'
    BY InvFacts, PTL
  <2>5. PoolAddresses(pool') = AllocatedAddresses \ UNION {BlockAddresses(b) : b \in Held'}
    BY <2>4, FreeIsRest
  <2>6. UNION {BlockAddresses(b) : b \in Held'} = Kept
    BY <2>3 DEF Kept
  <2>7. ToSet(db) = Held'
    BY <2>3 DEF ToSet
  <2>8. FreeAddresses' = PoolAddresses(pool') /\ TakenBlocks' = Held'
    BY <2>1 DEF FreeAddresses, TakenBlocks
  <2>9. FreeAddresses = AllocatedAddresses \ Kept /\ TakenBlocks = ToSet(db)
    BY <1>1, <1>2, <2>2 DEF FreeAddresses, TakenBlocks
  <2> QED
    BY <1>1, <2>5, <2>6, <2>7, <2>8, <2>9 DEF Space!vars
<1> QED
  BY <1>4, <1>5, <1>6

\* Every step is one of AddressSpace or a stutter.
LEMMA StepMaps ==
  ASSUME IInv, IInv', [Next]_vars
  PROVE  [Space!Next]_(Space!vars)
<1>1. CASE UNCHANGED vars
  <2>1. Held' = Held /\ (Running' <=> Running) /\ (Consistent' <=> Consistent) /\ Kept' = Kept
    BY <1>1 DEF vars, Held, Running, Consistent, Kept
  <2>2. UNCHANGED Space!vars
    BY <1>1, <2>1 DEF vars, FreeAddresses, TakenBlocks, Space!vars
  <2> QED
    BY <2>2
<1>2. CASE Next
  BY <1>2, CapsMaps, FailsMaps, CutOffMaps, DoneMaps, ResetMaps, RestartMaps, ParseMaps
     DEF Next
<1> QED
  BY <1>1, <1>2

LEMMA InitMaps ==
  ASSUME Init
  PROVE  Space!Init
<1>1. Running /\ Held = {} /\ pool = Ranges /\ db = <<>>
  BY DEF Init, Running, Held
<1> QED
  BY <1>1 DEF Space!Init, FreeAddresses, TakenBlocks, AllocatedAddresses

(* Every operation on the list of ranges is one on the set of free addresses *)
(* of AddressSpace: a block is taken and given back whole, a start ends with *)
(* exactly the addresses no node of the database has, and it is refused only *)
(* when two nodes of the database claim one address (net_obtain_address,     *)
(* net_release_address, net_reserve_address_range, parse_node); for any      *)
(* ranges of the file that do not overlap and any number of nodes, as long   *)
(* as no block is released next to a free range.                             *)
THEOREM SpaceImplemented ==
  ASSUME Apart(Ranges), "merge" \notin Env
  PROVE  Spec => ImplementsAddressSpace
<1>1. Init => Space!Init
  BY InitMaps
<1>2. IInv /\ IInv' /\ [Next]_vars => [Space!Next]_(Space!vars)
  BY StepMaps
<1> QED
  BY <1>1, <1>2, Inductive, PTL DEF Spec, ImplementsAddressSpace, Space!Spec
=============================================================================
