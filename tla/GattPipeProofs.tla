-------------------------- MODULE GattPipeProofs --------------------------
(***************************************************************************)
(* Proofs about GattPipe, for packets, MTUs, queues and pipes of any size: *)
(* what was written to a link arrives whole and in order, and the packet   *)
(* that is being written is the head of the queue.                         *)
(***************************************************************************)
EXTENDS GattPipe, FiniteSetTheorems, SequenceTheorems, TLAPS

\* A session is on the last link, which has one at most; a pipe, or a call of
\* AcquireWrite, is of this link or an earlier one.
LinkInv ==
  /\ up => link > 0
  /\ proxy_in \in {None, link} /\ prov_in \in {None, link}
  /\ proxy_in # None => used /\ prov_in = None
  /\ prov_in # None => used
  /\ write_io # None => write_io <= link
  /\ \A a \in acquiring :
       /\ a.link <= link
       /\ a.link = link /\ ~a.queued => used /\ proxy_in = None

\* Packets that are due have room within the bound.
RoomInv == count + todo + (IF activity THEN unacked ELSE 0) <= MaxPkts

\* Writing takes a pipe; for the last link it is asked once and while it is not
\* open; a packet of the queue asks only for that link.
AcquireInv ==
  /\ job # None => write_io # None
  /\ \A a \in acquiring : a.link = link => write_io # link
  /\ \A a, b \in acquiring : a.link = link /\ b.link = link => a = b
  /\ ~hung => \A a \in acquiring : a.queued => a.link = link /\ proxy_in = link

\* Packets are numbered as they are made, and what is written to the link comes
\* after all that was.
IdInv ==
  /\ \A i \in DOMAIN pkt_out : pkt_out[i].id <= count
  /\ \A i, j \in DOMAIN pkt_out : i < j => pkt_out[i].id < pkt_out[j].id
  /\ \A i \in DOMAIN done : done[i].id <= count
  /\ job # None =>
       /\ job.pkt.id <= count
       /\ write_io = link => \A i \in DOMAIN done : done[i].id < job.pkt.id
  /\ \A a \in acquiring :
       /\ a.pkt.id <= count
       /\ a.link = link => \A i \in DOMAIN done : done[i].id < a.pkt.id

Start == {"FIRST", "COMPLETE"}
Cont == {"CONTINUE", "LAST"}

\* Bytes of a packet that pipe_write sends, and of those before what is left.
Body(p) == p.form.len - 1
Sent(j) == Body(j.pkt) - j.left

\* What is left of a packet.
JobInv ==
  job # None =>
    /\ job.left <= Body(job.pkt)
    /\ job.sar \in Start => job.left = Body(job.pkt)
    /\ Unfinished(job) => job.left > max_len

\* A fragment is a part of its packet: the first, or the last, if it says so.
FragmentOk(f) ==
  /\ f.from + f.size <= Body(f.pkt)
  /\ f.sar \in Start => f.from = 0
  /\ ~Unfinished(f) => f.from + f.size = Body(f.pkt)

WireInv == \A i \in DOMAIN wire : FragmentOk(wire[i])

\* What comes before byte `from' of packet p: a fragment f, or what the other
\* end holds.
Before(f, p, from) == Unfinished(f) /\ f.pkt = p /\ f.from + f.size = from
Holds(g, p, from) == g.type = p.form.type /\ g.pkt = p /\ g.size = from + 1

\* A fragment that continues a packet follows on it, also across the link.
ChainInv ==
  /\ \A i \in DOMAIN wire : i > 1 /\ wire[i].sar \in Cont =>
       Before(wire[i - 1], wire[i].pkt, wire[i].from)
  /\ wire # <<>> /\ wire[1].sar \in Cont => Holds(gatt, wire[1].pkt, wire[1].from)
  /\ up /\ job # None /\ write_io = link /\ job.sar \in Cont =>
       IF wire = <<>> THEN Holds(gatt, job.pkt, Sent(job))
       ELSE Before(wire[Len(wire)], job.pkt, Sent(job))

IInv ==
  /\ TypeOK /\ LinkInv /\ RoomInv /\ AcquireInv /\ IdInv /\ JobInv
  /\ WireInv /\ ChainInv /\ WrittenArrives /\ QueueInOrder
-----------------------------------------------------------------------------
(* Sequences. *)

LEMMA AppendElement ==
  ASSUME NEW S, NEW s \in Seq(S), NEW e \in S
  PROVE  /\ Append(s, e) \in Seq(S) /\ Len(Append(s, e)) = Len(s) + 1
         /\ DOMAIN Append(s, e) = DOMAIN s \cup {Len(s) + 1}
         /\ Len(s) + 1 \notin DOMAIN s /\ Append(s, e)[Len(s) + 1] = e
         /\ \A i \in DOMAIN s : Append(s, e)[i] = s[i] /\ i <= Len(s) /\ i \in Nat /\ i > 0
         /\ Len(s) \in Nat /\ Append(s, e) # <<>>
OBVIOUS

LEMMA TailElement ==
  ASSUME NEW S, NEW s \in Seq(S), s # <<>>
  PROVE  /\ Tail(s) \in Seq(S) /\ Head(s) = s[1] /\ 1 \in DOMAIN s /\ Len(s) \in Nat \ {0}
         /\ Len(Tail(s)) = Len(s) - 1
         /\ DOMAIN s = 1..Len(s) /\ DOMAIN Tail(s) = 1..(Len(s) - 1)
         /\ \A i \in DOMAIN Tail(s) : i + 1 \in DOMAIN s /\ Tail(s)[i] = s[i + 1]
OBVIOUS

LEMMA HeadAppend ==
  ASSUME NEW S, NEW s \in Seq(S), NEW e \in S
  PROVE  /\ s = <<>> => Head(Append(s, e)) = e
         /\ s # <<>> => Head(Append(s, e)) = Head(s)
OBVIOUS
-----------------------------------------------------------------------------
(* The fragments that end a packet, and what they stand for. *)

Lasts(w) == {i \in DOMAIN w : ~Unfinished(w[i])}
Upto(w, i) == {j \in Lasts(w) : j <= i}

Arrives(w, d, a) ==
  /\ Len(d) = Len(a) + Cardinality(Lasts(w))
  /\ \A i \in DOMAIN a : a[i] = d[i]
  /\ \A i \in Lasts(w) : w[i].pkt = d[Len(a) + Cardinality(Upto(w, i))]

LEMMA ArrivesDef ==
  /\ WrittenArrives <=> (up => Arrives(wire, done, arrived))
  /\ WrittenArrives' <=> (up' => Arrives(wire', done', arrived'))
BY DEF WrittenArrives, Arrives, Lasts, Upto

LEMMA LastsFinite ==
  ASSUME NEW S, NEW w \in Seq(S)
  PROVE  /\ IsFiniteSet(Lasts(w)) /\ Cardinality(Lasts(w)) \in Nat
         /\ \A i \in Int : /\ IsFiniteSet(Upto(w, i)) /\ Cardinality(Upto(w, i)) \in Nat
                           /\ Cardinality(Upto(w, i)) <= Cardinality(Lasts(w))
<1>1. IsFiniteSet(1..Len(w)) /\ DOMAIN w = 1..Len(w)
  BY FS_Interval, LenProperties
<1>2. IsFiniteSet(Lasts(w))
  BY <1>1, FS_Subset DEF Lasts
<1>3. \A i : Upto(w, i) \subseteq Lasts(w)
  BY DEF Upto
<1> QED
  BY <1>2, <1>3, FS_Subset, FS_CardinalityType

\* A last fragment has a number among them.
LEMMA UptoPositive ==
  ASSUME NEW S, NEW w \in Seq(S), NEW i \in Lasts(w)
  PROVE  Cardinality(Upto(w, i)) > 0
<1>1. i \in Int
  BY LenProperties DEF Lasts
<1>2. {i} \subseteq Upto(w, i)
  BY <1>1 DEF Upto
<1>3. IsFiniteSet(Upto(w, i)) /\ Cardinality(Upto(w, i)) \in Nat
  BY <1>1, LastsFinite
<1>4. Cardinality({i}) = 1
  BY FS_Singleton
<1>5. Cardinality({i}) <= Cardinality(Upto(w, i))
  BY <1>2, <1>3, FS_Subset
<1> QED
  BY <1>3, <1>4, <1>5

LEMMA ArrivesEmpty == Arrives(<<>>, <<>>, <<>>)
<1>1. Lasts(<<>>) = {}
  BY DEF Lasts
<1> QED
  BY <1>1, FS_EmptySet DEF Arrives

\* A fragment is written that does not end its packet.
LEMMA ArrivesMore ==
  ASSUME NEW S, NEW w \in Seq(S), NEW f \in S, NEW d, NEW a,
         Arrives(w, d, a), Unfinished(f)
  PROVE  Arrives(Append(w, f), d, a)
<1> DEFINE v == Append(w, f)
<1>1. /\ DOMAIN v = DOMAIN w \cup {Len(w) + 1} /\ v[Len(w) + 1] = f
      /\ \A i \in DOMAIN w : v[i] = w[i]
  BY AppendElement
<1> HIDE DEF v
<1>2. Lasts(v) = Lasts(w) /\ \A i \in Lasts(w) : v[i] = w[i]
  BY <1>1 DEF Lasts
<1>3. \A i : Upto(v, i) = Upto(w, i)
  BY <1>2 DEF Upto
<1>4. Arrives(v, d, a)
  BY <1>2, <1>3 DEF Arrives
<1> QED
  BY <1>4 DEF v

\* The last fragment of a packet is written, and the write is done.
LEMMA ArrivesDone ==
  ASSUME NEW S, NEW w \in Seq(S), NEW f \in S, NEW P, NEW d \in Seq(P), NEW Q, NEW a \in Seq(Q),
         Arrives(w, d, a), ~Unfinished(f), f.pkt \in P
  PROVE  Arrives(Append(w, f), Append(d, f.pkt), a)
<1> DEFINE v == Append(w, f)  c == Append(d, f.pkt)  n == Len(w) + 1
<1>1. /\ v \in Seq(S) /\ DOMAIN v = DOMAIN w \cup {n} /\ n \notin DOMAIN w /\ v[n] = f
      /\ \A i \in DOMAIN w : v[i] = w[i] /\ i < n
      /\ n \in Int /\ DOMAIN w \subseteq Int
  BY AppendElement
<1>2. /\ Len(c) = Len(d) + 1 /\ c[Len(d) + 1] = f.pkt /\ Len(d) \in Nat
      /\ \A i \in 1..Len(d) : c[i] = d[i]
  BY AppendElement, LenProperties
<1> HIDE DEF v, c, n
<1>3. Lasts(v) = Lasts(w) \cup {n} /\ n \notin Lasts(w) /\ Lasts(w) \subseteq DOMAIN w
  BY <1>1 DEF Lasts
<1>4. Cardinality(Lasts(v)) = Cardinality(Lasts(w)) + 1 /\ Cardinality(Lasts(w)) \in Nat
  BY <1>3, LastsFinite, FS_AddElement
<1>5. Len(a) \in Nat /\ DOMAIN a = 1..Len(a)
  BY LenProperties
<1>6. Len(d) = Len(a) + Cardinality(Lasts(w)) /\ Len(c) = Len(a) + Cardinality(Lasts(v))
  <2>1. Len(d) = Len(a) + Cardinality(Lasts(w))
    BY DEF Arrives
  <2> QED
    BY <1>2, <1>4, <1>5, <2>1
<1>7. \A i \in DOMAIN a : a[i] = c[i]
  <2>1. \A i \in DOMAIN a : a[i] = d[i] /\ i \in 1..Len(d)
    BY <1>2, <1>4, <1>5, <1>6 DEF Arrives
  <2> QED
    BY <1>2, <2>1
<1>8. ASSUME NEW i \in Lasts(v)
      PROVE  v[i].pkt = c[Len(a) + Cardinality(Upto(v, i))]
  <2>1. CASE i = n
    <3>1. Upto(v, n) = Lasts(v)
      BY <1>1, <1>3 DEF Upto
    <3>2. Len(a) + Cardinality(Upto(v, n)) = Len(d) + 1
      BY <1>2, <1>4, <1>5, <1>6, <3>1
    <3> QED
      BY <1>1, <1>2, <2>1, <3>2
  <2>2. CASE i \in Lasts(w)
    <3>1. Upto(v, i) = Upto(w, i) /\ i \in Int
      BY <1>1, <1>3, <2>2 DEF Upto
    <3>2. /\ Cardinality(Upto(w, i)) \in Nat /\ Cardinality(Upto(w, i)) > 0
          /\ Cardinality(Upto(w, i)) <= Cardinality(Lasts(w))
      BY <2>2, <3>1, LastsFinite, UptoPositive
    <3>3. Len(a) + Cardinality(Upto(w, i)) \in 1..Len(d)
      BY <1>4, <1>5, <1>6, <3>2
    <3>4. w[i].pkt = d[Len(a) + Cardinality(Upto(w, i))]
      BY <2>2 DEF Arrives
    <3> QED
      BY <1>1, <1>2, <1>3, <2>2, <3>1, <3>3, <3>4
  <2> QED
    BY <1>3, <2>1, <2>2
<1>9. Arrives(v, c, a)
  BY <1>6, <1>7, <1>8 DEF Arrives
<1> QED
  BY <1>9 DEF v, c

\* A set and the set of its successors have the same size.
LEMMA ShiftedSize ==
  ASSUME NEW T \in SUBSET Int, IsFiniteSet(T), NEW U, U = {i \in Int : i + 1 \in T}
  PROVE  Cardinality(U) = Cardinality(T)
<1> DEFINE g == [t \in T |-> t - 1]
<1>1. g \in [T -> U]
  OBVIOUS
<1>2. \A s, t \in T : g[s] = g[t] => s = t
  OBVIOUS
<1>3. \A u \in U : u + 1 \in T /\ g[u + 1] = u
  OBVIOUS
<1> HIDE DEF g
<1>4. g \in Bijection(T, U)
  BY <1>1, <1>2, <1>3 DEF Bijection, Injection, Surjection, IsInjective
<1> QED
  BY <1>4, FS_Bijection DEF ExistsBijection

\* The first fragment is read.
LEMMA LastsTail ==
  ASSUME NEW S, NEW w \in Seq(S), w # <<>>
  PROVE  LET v == Tail(w)
             n == IF Unfinished(w[1]) THEN 0 ELSE 1
         IN /\ Cardinality(Lasts(w)) = Cardinality(Lasts(v)) + n
            /\ \A i \in Lasts(v) : /\ i + 1 \in Lasts(w) /\ v[i] = w[i + 1]
                                   /\ Cardinality(Upto(w, i + 1)) = Cardinality(Upto(v, i)) + n
<1> DEFINE v == Tail(w)
           n == IF Unfinished(w[1]) THEN 0 ELSE 1
<1>1. /\ v \in Seq(S) /\ DOMAIN w = 1..Len(w) /\ DOMAIN v = 1..(Len(w) - 1)
      /\ \A i \in DOMAIN v : i + 1 \in DOMAIN w /\ v[i] = w[i + 1]
      /\ Len(w) \in Nat \ {0}
  BY TailElement
<1> HIDE DEF v
<1>2. Lasts(v) = {i \in Int : i + 1 \in Lasts(w) \ {1}}
  <2>1. \A i \in Lasts(v) : i \in Int /\ i + 1 \in Lasts(w) \ {1}
    BY <1>1 DEF Lasts
  <2>2. ASSUME NEW i \in Int, i + 1 \in Lasts(w) \ {1} PROVE i \in Lasts(v)
    <3>1. i \in DOMAIN v
      BY <1>1, <2>2 DEF Lasts
    <3> QED
      BY <1>1, <2>2, <3>1 DEF Lasts
  <2> QED
    BY <2>1, <2>2
<1>3. ASSUME NEW i \in Int
      PROVE  Upto(v, i) = {j \in Int : j + 1 \in Upto(w, i + 1) \ {1}}
  BY <1>2 DEF Upto
<1>4. Lasts(w) \subseteq Int /\ (1 \in Lasts(w) <=> ~Unfinished(w[1]))
  BY <1>1 DEF Lasts
<1>5. ASSUME NEW T \in SUBSET Int, IsFiniteSet(T), NEW U, U = {j \in Int : j + 1 \in T \ {1}}
      PROVE  Cardinality(T) = Cardinality(U) + (IF 1 \in T THEN 1 ELSE 0)
  <2>1. IsFiniteSet(T \ {1}) /\ Cardinality(T) \in Nat
        /\ Cardinality(T \ {1}) = IF 1 \in T THEN Cardinality(T) - 1 ELSE Cardinality(T)
    BY <1>5, FS_RemoveElement, FS_CardinalityType
  <2>2. T \ {1} \in SUBSET Int
    OBVIOUS
  <2>3. Cardinality(U) = Cardinality(T \ {1})
    BY <1>5, <2>1, <2>2, ShiftedSize
  <2> QED
    BY <2>1, <2>3
<1>6. Cardinality(Lasts(w)) = Cardinality(Lasts(v)) + n
  <2>1. IsFiniteSet(Lasts(w))
    BY LastsFinite
  <2>2. Cardinality(Lasts(w)) = Cardinality(Lasts(v)) + (IF 1 \in Lasts(w) THEN 1 ELSE 0)
    BY <1>2, <1>4, <1>5, <2>1
  <2> QED
    BY <1>4, <2>2
<1>7. ASSUME NEW i \in Lasts(v)
      PROVE  Cardinality(Upto(w, i + 1)) = Cardinality(Upto(v, i)) + n
  <2>1. i \in Int /\ i >= 1
    BY <1>1 DEF Lasts
  <2>2. Upto(w, i + 1) \in SUBSET Int /\ (1 \in Upto(w, i + 1) <=> 1 \in Lasts(w))
    BY <1>4, <2>1 DEF Upto
  <2>3. IsFiniteSet(Upto(w, i + 1))
    BY <2>1, LastsFinite
  <2>4. Upto(v, i) = {j \in Int : j + 1 \in Upto(w, i + 1) \ {1}}
    BY <1>3, <2>1
  <2>5. Cardinality(Upto(w, i + 1))
          = Cardinality(Upto(v, i)) + (IF 1 \in Upto(w, i + 1) THEN 1 ELSE 0)
    BY <1>5, <2>2, <2>3, <2>4
  <2> QED
    BY <1>4, <2>2, <2>5
<1>8. \A i \in Lasts(v) : i + 1 \in Lasts(w) /\ v[i] = w[i + 1]
  BY <1>1, <1>2 DEF Lasts
<1> QED
  BY <1>6, <1>7, <1>8 DEF v

LEMMA ArrivesSkipped ==
  ASSUME NEW S, NEW w \in Seq(S), w # <<>>, Unfinished(w[1]), NEW d, NEW a, Arrives(w, d, a)
  PROVE  Arrives(Tail(w), d, a)
<1> DEFINE v == Tail(w)
<1>1. /\ v \in Seq(S) /\ Lasts(v) \subseteq Int
  BY TailElement DEF Lasts
<1>2. /\ Cardinality(Lasts(w)) = Cardinality(Lasts(v)) + 0
      /\ \A i \in Lasts(v) : /\ i + 1 \in Lasts(w) /\ v[i] = w[i + 1]
                             /\ Cardinality(Upto(w, i + 1)) = Cardinality(Upto(v, i)) + 0
  BY LastsTail
<1> HIDE DEF v
<1>3. /\ Cardinality(Lasts(w)) = Cardinality(Lasts(v))
      /\ \A i \in Lasts(v) : Cardinality(Upto(w, i + 1)) = Cardinality(Upto(v, i))
  <2>1. Cardinality(Lasts(v)) \in Nat /\ \A i \in Lasts(v) : Cardinality(Upto(v, i)) \in Nat
    BY <1>1, LastsFinite
  <2> QED
    BY <1>2, <2>1
<1>4. Arrives(v, d, a)
  BY <1>2, <1>3 DEF Arrives
<1> QED
  BY <1>4 DEF v

LEMMA ArrivesRead ==
  ASSUME NEW S, NEW w \in Seq(S), w # <<>>, ~Unfinished(w[1]), NEW P, NEW d \in Seq(P),
         NEW Q, NEW a \in Seq(Q), w[1].pkt \in Q, Arrives(w, d, a)
  PROVE  Arrives(Tail(w), d, Append(a, w[1].pkt))
<1> DEFINE v == Tail(w)  b == Append(a, w[1].pkt)
<1>1. /\ v \in Seq(S) /\ Lasts(v) \subseteq Int /\ 1 \in Lasts(w)
      /\ DOMAIN w = 1..Len(w)
  BY TailElement DEF Lasts
<1>2. /\ Cardinality(Lasts(w)) = Cardinality(Lasts(v)) + 1
      /\ \A i \in Lasts(v) : /\ i + 1 \in Lasts(w) /\ v[i] = w[i + 1]
                             /\ Cardinality(Upto(w, i + 1)) = Cardinality(Upto(v, i)) + 1
  BY LastsTail
<1>3. /\ Len(b) = Len(a) + 1 /\ b[Len(a) + 1] = w[1].pkt /\ Len(a) \in Nat
      /\ DOMAIN b = DOMAIN a \cup {Len(a) + 1}
      /\ \A i \in DOMAIN a : b[i] = a[i]
  BY AppendElement
<1> HIDE DEF v, b
<1>4. Cardinality(Lasts(v)) \in Nat /\ \A i \in Lasts(v) : Cardinality(Upto(v, i)) \in Nat
  BY <1>1, LastsFinite
<1>5. Cardinality(Upto(w, 1)) = 1
  <2>1. Upto(w, 1) = {1}
    BY <1>1 DEF Upto, Lasts
  <2> QED
    BY <2>1, FS_Singleton
<1>6. w[1].pkt = d[Len(a) + 1]
  BY <1>1, <1>5 DEF Arrives
<1>7. \A i \in DOMAIN b : b[i] = d[i]
  BY <1>3, <1>6 DEF Arrives
<1>8. Len(d) = Len(b) + Cardinality(Lasts(v))
  <2>1. Len(d) = Len(a) + Cardinality(Lasts(w))
    BY DEF Arrives
  <2> QED
    BY <1>2, <1>3, <1>4, <2>1
<1>9. ASSUME NEW i \in Lasts(v)
      PROVE  v[i].pkt = d[Len(b) + Cardinality(Upto(v, i))]
  <2>1. w[i + 1].pkt = d[Len(a) + Cardinality(Upto(w, i + 1))]
    BY <1>2 DEF Arrives
  <2>2. Len(a) + Cardinality(Upto(w, i + 1)) = Len(b) + Cardinality(Upto(v, i))
    BY <1>2, <1>3, <1>4
  <2> QED
    BY <1>2, <2>1, <2>2
<1>10. Arrives(v, d, b)
  BY <1>7, <1>8, <1>9 DEF Arrives
<1> QED
  BY <1>10 DEF v, b
-----------------------------------------------------------------------------
(* Packets, writes and fragments. *)

LEMMA MaxLenType == ASSUME NEW mtu \in Mtus \cup {0} PROVE MaxLen(mtu) \in 0..255
BY GattAssumption DEF MaxLen, GATT_MTU

LEMMA PacketFacts ==
  ASSUME NEW p \in Packets
  PROVE  /\ Body(p) \in 1..(MAX_GATT_SIZE - 1) /\ p.form.len = Body(p) + 1
         /\ p.form.type \in Types /\ p.id \in 1..MaxPkts
<1>1. p.form \in NetForms \cup ProvForms /\ p.id \in 1..MaxPkts
  BY DEF Packets
<1>2. p.form.len \in 2..66 /\ p.form.type \in Types
  BY <1>1, GattAssumption DEF Types, MAX_GATT_SIZE
<1> QED
  BY <1>1, <1>2 DEF Body, MAX_GATT_SIZE

\* Job j is a write of p that has not begun.
Fresh(j, p, queued, max) ==
  /\ j \in Jobs /\ j # None /\ j.pkt = p /\ (j.queued <=> queued)
  /\ j.left = Body(p) /\ j.sar \in Start /\ (Unfinished(j) => j.left > max)

LEMMA NewJobOk ==
  ASSUME NEW p \in Packets, NEW queued \in BOOLEAN, NEW max \in 0..255
  PROVE  Fresh(NewJob(p, queued, max), p, queued, max)
<1> DEFINE j == NewJob(p, queued, max)
<1>1. Body(p) \in 0..(MAX_GATT_SIZE - 1)
  BY PacketFacts DEF MAX_GATT_SIZE
<1>2. j = [pkt |-> p, left |-> Body(p), sar |-> FirstKind(Body(p), max), queued |-> queued]
  BY DEF NewJob, Body
<1>3. /\ FirstKind(Body(p), max) \in Start /\ FirstKind(Body(p), max) \in SarKinds
      /\ FirstKind(Body(p), max) = "FIRST" => Body(p) > max
  BY DEF FirstKind, Start, SarKinds
<1> HIDE DEF j
<1>4. j \in Jobs
  BY <1>1, <1>2, <1>3 DEF Jobs
<1>5. j # None
  BY <1>4, NoneAssumption
<1>6. Unfinished(j) => j.left > max
  BY <1>2, <1>3 DEF Unfinished, Start
<1> QED
  BY <1>2, <1>3, <1>4, <1>5, <1>6 DEF Fresh, j

LEMMA JobFacts ==
  ASSUME TypeOK, job # None
  PROVE  /\ job \in Jobs /\ job.pkt \in Packets /\ job.left \in 0..65 /\ job.sar \in SarKinds
         /\ job.queued \in BOOLEAN /\ Body(job.pkt) \in 1..65 /\ max_len \in 0..255
<1>1. job \in Jobs
  BY DEF TypeOK
<1>2. /\ job.pkt \in Packets /\ job.left \in 0..65 /\ job.sar \in SarKinds
      /\ job.queued \in BOOLEAN
  BY <1>1 DEF Jobs, MAX_GATT_SIZE
<1>3. Body(job.pkt) \in 1..65
  BY <1>2, PacketFacts DEF MAX_GATT_SIZE
<1>4. max_len \in 0..255
  BY MaxLenType DEF max_len, TypeOK
<1> QED
  BY <1>1, <1>2, <1>3, <1>4

\* What a write in progress sends next.
LEMMA FragmentFacts ==
  ASSUME TypeOK, JobInv, job # None
  PROVE  LET f == Fragment(job)
         IN /\ f \in Fragments /\ f.pkt = job.pkt /\ f.sar = job.sar /\ f.from = Sent(job)
            /\ f.size = (IF Unfinished(job) THEN max_len ELSE job.left)
            /\ FragmentOk(f) /\ (Unfinished(f) <=> Unfinished(job))
<1> DEFINE f == Fragment(job)
<1>1. job \in Jobs /\ job.pkt \in Packets /\ job.left \in 0..65 /\ job.sar \in SarKinds
  BY JobFacts
<1>2. Body(job.pkt) \in 1..65 /\ max_len \in 0..255
  BY JobFacts
<1>3. f = [pkt |-> job.pkt, from |-> Sent(job), size |-> FragSize(job), sar |-> job.sar]
  BY DEF Fragment, Sent, Body
<1> HIDE DEF f
<1>4. f.pkt = job.pkt /\ f.from = Sent(job) /\ f.size = FragSize(job) /\ f.sar = job.sar
  BY <1>3
<1>5. Unfinished(f) <=> Unfinished(job)
  BY <1>4 DEF Unfinished
<1>6. /\ FragSize(job) \in 0..65 /\ Sent(job) \in 0..65
      /\ Sent(job) + FragSize(job) <= Body(job.pkt)
      /\ ~Unfinished(job) => Sent(job) + FragSize(job) = Body(job.pkt)
      /\ job.sar \in Start => Sent(job) = 0
  BY <1>1, <1>2 DEF JobInv, Sent, FragSize
<1>7. f \in Fragments
  BY <1>1, <1>3, <1>6 DEF Fragments, MAX_GATT_SIZE
<1>8. FragmentOk(f)
  BY <1>4, <1>5, <1>6 DEF FragmentOk
<1> QED
  BY <1>4, <1>5, <1>7, <1>8 DEF f, FragSize

LEMMA LessLeft ==
  ASSUME NEW body \in Int, NEW left \in Int, NEW max \in Nat
  PROVE  left <= body => left - max <= body
OBVIOUS

LEMMA NextJobFacts ==
  ASSUME TypeOK, JobInv, job # None, Unfinished(job)
  PROVE  LET j == NextJob(job)
         IN /\ j \in Jobs /\ j # None /\ j.pkt = job.pkt /\ (j.queued <=> job.queued)
            /\ j.sar \in Cont /\ j.left <= Body(j.pkt) /\ (Unfinished(j) => j.left > max_len)
            /\ Sent(j) = Sent(job) + max_len
<1> DEFINE j == NextJob(job)
<1>1. job \in Jobs /\ job.pkt \in Packets /\ job.left \in 0..65
  BY JobFacts
<1>2. Body(job.pkt) \in 1..65 /\ max_len \in 0..255
  BY JobFacts
<1>3. job.left > max_len /\ job.left <= Body(job.pkt)
  BY DEF JobInv
<1>4. /\ j \in Jobs /\ j.pkt = job.pkt /\ (j.queued <=> job.queued)
      /\ j.left = job.left - max_len /\ j.sar \in Cont
      /\ j.sar = "CONTINUE" => max_len < job.left - max_len
  <2> DEFINE left == job.left - max_len
             sar == IF max_len < left THEN "CONTINUE" ELSE "LAST"
  <2>1. j = [job EXCEPT !.left = left, !.sar = sar]
    BY DEF NextJob
  <2>2. left \in 0..(MAX_GATT_SIZE - 1) /\ sar \in SarKinds /\ sar \in Cont
        /\ (sar = "CONTINUE" => max_len < left)
    BY <1>1, <1>2, <1>3 DEF SarKinds, Cont, MAX_GATT_SIZE
  <2> HIDE DEF left, sar
  <2>3. /\ j \in Jobs /\ j.pkt = job.pkt /\ (j.queued <=> job.queued)
        /\ j.left = left /\ j.sar = sar
    BY <1>1, <2>1, <2>2 DEF Jobs
  <2> QED
    BY <2>2, <2>3 DEF left
<1> HIDE DEF j
<1>5. j # None
  BY <1>4, NoneAssumption
<1>6. Unfinished(j) => j.left > max_len
  BY <1>1, <1>2, <1>4 DEF Unfinished, Cont
<1>7. j.left <= Body(j.pkt) /\ Sent(j) = Sent(job) + max_len
  <2>1. Sent(j) = Body(job.pkt) - (job.left - max_len) /\ Sent(job) = Body(job.pkt) - job.left
    BY <1>4 DEF Sent
  <2>2. job.left - max_len <= Body(job.pkt)
    BY <1>1, <1>2, <1>3, LessLeft
  <2>3. Body(job.pkt) - (job.left - max_len) = (Body(job.pkt) - job.left) + max_len
    <3> DEFINE body == Body(job.pkt)  left == job.left  max == max_len
    <3>1. body \in Int /\ left \in Int /\ max \in Nat
      BY <1>1, <1>2
    <3> HIDE DEF body, left, max
    <3>2. body - (left - max) = (body - left) + max
      BY <3>1
    <3> QED
      BY <3>2 DEF body, left, max
  <2> QED
    BY <1>4, <2>1, <2>2, <2>3
<1> QED
  BY <1>4, <1>5, <1>6, <1>7 DEF j
-----------------------------------------------------------------------------
(* Fragments on the link. *)

\* A fragment f of the write in progress goes to the link.
LEMMA ChainSend ==
  ASSUME IInv, job # None, up, write_io = link, NEW f \in Fragments,
         wire' = Append(wire, f), f.pkt = job.pkt, f.sar = job.sar, f.from = Sent(job),
         FragmentOk(f), gatt' = gatt,
         UNCHANGED <<up, link, write_io>>,
         job' # None => job'.sar \in Start \/
           (/\ job'.sar \in Cont /\ job'.pkt = job.pkt
            /\ Sent(job') = Sent(job) + f.size /\ Unfinished(f))
  PROVE  WireInv' /\ ChainInv'
<1>1. /\ wire \in Seq(Fragments) /\ wire' \in Seq(Fragments) /\ wire' # <<>>
      /\ Len(wire') = Len(wire) + 1 /\ Len(wire) \in Nat
      /\ DOMAIN wire' = DOMAIN wire \cup {Len(wire) + 1} /\ wire'[Len(wire) + 1] = f
      /\ \A i \in DOMAIN wire : wire'[i] = wire[i] /\ i <= Len(wire) /\ i \in Nat /\ i > 0
      /\ DOMAIN wire = 1..Len(wire)
  BY AppendElement, LenProperties DEF IInv, TypeOK
<1>2. WireInv'
  BY <1>1 DEF IInv, WireInv
<1>3. ASSUME NEW i \in DOMAIN wire', i > 1, wire'[i].sar \in Cont
      PROVE  Before(wire'[i - 1], wire'[i].pkt, wire'[i].from)
  <2>1. CASE i \in DOMAIN wire
    <3>1. i - 1 \in DOMAIN wire
      BY <1>1, <1>3, <2>1
    <3> QED
      BY <1>1, <1>3, <2>1, <3>1 DEF IInv, ChainInv
  <2>2. CASE i = Len(wire) + 1
    <3>1. i - 1 \in DOMAIN wire /\ i - 1 = Len(wire) /\ wire # <<>>
      BY <1>1, <1>3, <2>2
    <3>2. Before(wire[Len(wire)], job.pkt, Sent(job))
      BY <1>1, <1>3, <2>2, <3>1 DEF IInv, ChainInv
    <3> QED
      BY <1>1, <2>2, <3>1, <3>2
  <2> QED
    BY <1>1, <2>1, <2>2
<1>4. ASSUME wire'[1].sar \in Cont
      PROVE  Holds(gatt', wire'[1].pkt, wire'[1].from)
  <2>1. CASE wire = <<>>
    <3>1. wire'[1] = f
      BY <1>1, <2>1
    <3> QED
      BY <1>4, <2>1, <3>1 DEF IInv, ChainInv
  <2>2. CASE wire # <<>>
    <3>1. 1 \in DOMAIN wire
      BY <1>1, <2>2, EmptySeq
    <3> QED
      BY <1>1, <1>4, <2>2, <3>1 DEF IInv, ChainInv
  <2> QED
    BY <2>1, <2>2
<1>5. ASSUME job' # None, job'.sar \in Cont
      PROVE  Before(wire'[Len(wire')], job'.pkt, Sent(job'))
  <2>1. job'.pkt = job.pkt /\ Sent(job') = Sent(job) + f.size /\ Unfinished(f)
    BY <1>5 DEF Cont, Start
  <2> QED
    BY <1>1, <2>1 DEF Before
<1>6. ChainInv'
  BY <1>1, <1>3, <1>4, <1>5 DEF ChainInv
<1> QED
  BY <1>2, <1>6

LEMMA ReadSums ==
  ASSUME NEW from \in 0..65, NEW size \in 0..65, NEW body \in 1..65, from + size <= body
  PROVE  /\ (from + 1) - 1 = from /\ (from + 1) + size = 1 + (from + size)
         /\ 1 + (from + size) <= 66 /\ 1 + (from + size) \in 0..66
         /\ from + size = body => 1 + (from + size) = body + 1
OBVIOUS

\* The other end reads the first fragment: it is a part of its packet that
\* follows on what is held, so it fits.
LEMMA ReadFacts ==
  ASSUME IInv, wire # <<>>
  PROVE  LET f == Head(wire)
             g == Restart(f)
             new == [g EXCEPT !.size = @ + f.size, !.pkt = Held(g, f)]
         IN /\ f = wire[1] /\ f \in Fragments /\ Fits(g, f)
            /\ new = [type |-> f.pkt.form.type, size |-> 1 + (f.from + f.size), pkt |-> f.pkt]
            /\ ~Unfinished(f) => new.size = f.pkt.form.len
            /\ 1 + (f.from + f.size) <= MAX_GATT_SIZE
<1> DEFINE f == Head(wire)
           g == Restart(f)
           new == [g EXCEPT !.size = @ + f.size, !.pkt = Held(g, f)]
<1>1. f = wire[1] /\ 1 \in DOMAIN wire /\ f \in Fragments
  BY TailElement DEF IInv, TypeOK
<1>2. FragmentOk(f) /\ (f.sar \in Cont => Holds(gatt, f.pkt, f.from))
  BY <1>1 DEF IInv, WireInv, ChainInv
<1> HIDE DEF f
<1>3. /\ f.pkt \in Packets /\ f.from \in 0..65 /\ f.size \in 0..65 /\ f.sar \in SarKinds
  BY <1>1 DEF Fragments, MAX_GATT_SIZE
<1>4. Body(f.pkt) \in 1..65 /\ f.pkt.form.len = Body(f.pkt) + 1
  BY <1>3, PacketFacts DEF MAX_GATT_SIZE
<1> DEFINE sum == 1 + (f.from + f.size)
<1>s. /\ (f.from + 1) - 1 = f.from /\ (f.from + 1) + f.size = sum
      /\ sum <= 66 /\ sum \in 0..66 /\ (~Unfinished(f) => sum = f.pkt.form.len)
  BY <1>2, <1>3, <1>4, ReadSums DEF FragmentOk
<1> HIDE DEF sum
<1>5. \/ g = [type |-> f.pkt.form.type, size |-> 1, pkt |-> None] /\ f.from = 0
      \/ g = [type |-> f.pkt.form.type, size |-> f.from + 1, pkt |-> f.pkt]
  <2>1. CASE f.sar \in Start
    BY <1>2, <2>1 DEF Restart, FragmentOk, Start
  <2>2. CASE f.sar \in Cont
    <3>1. gatt \in [type : Types \cup {GATT_TYPE_INVALID}, size : 0..MAX_GATT_SIZE,
                    pkt : Packets \cup {None, Mixed}]
      BY DEF IInv, TypeOK
    <3>2. gatt = [type |-> gatt.type, size |-> gatt.size, pkt |-> gatt.pkt]
      BY <3>1
    <3>3. g = gatt
      BY <2>2 DEF Restart, Cont
    <3> QED
      BY <1>2, <2>2, <3>2, <3>3 DEF Holds
  <2> QED
    BY <1>3, <2>1, <2>2 DEF SarKinds, Start, Cont
<1> HIDE DEF g, new
<1>6. g.type = f.pkt.form.type /\ g.size = f.from + 1 /\ Held(g, f) = f.pkt
  <2>1. CASE g = [type |-> f.pkt.form.type, size |-> 1, pkt |-> None] /\ f.from = 0
    BY <2>1 DEF Held
  <2>2. CASE g = [type |-> f.pkt.form.type, size |-> f.from + 1, pkt |-> f.pkt]
    <3>1. g.pkt = f.pkt /\ g.size = f.from + 1
      BY <2>2
    <3>2. g.size - 1 = f.from
      BY <1>s, <3>1
    <3> QED
      BY <2>2, <3>1, <3>2 DEF Held
  <2> QED
    BY <1>5, <2>1, <2>2
<1>7. new = [type |-> f.pkt.form.type, size |-> sum, pkt |-> f.pkt]
  <2>1. g.size + f.size = sum
    BY <1>s, <1>6
  <2>2. new = [g EXCEPT !.size = sum, !.pkt = f.pkt]
    BY <1>6, <2>1 DEF new
  <2>3. CASE g = [type |-> f.pkt.form.type, size |-> 1, pkt |-> None]
    BY <2>2, <2>3
  <2>4. CASE g = [type |-> f.pkt.form.type, size |-> f.from + 1, pkt |-> f.pkt]
    BY <2>2, <2>4
  <2> QED
    BY <1>5, <2>3, <2>4
<1>8. Fits(g, f)
  BY <1>s, <1>6 DEF Fits, MAX_GATT_SIZE
<1>9. new.size = sum
  BY <1>7
<1> QED
  BY <1>s, <1>1, <1>7, <1>8, <1>9 DEF f, g, new, sum, MAX_GATT_SIZE
-----------------------------------------------------------------------------
(* Steps that leave the link alone. *)

LEMMA LinkFacts ==
  ASSUME IInv
  PROVE  /\ link \in Nat /\ None # link /\ None \notin Links /\ (up => link \in Links)
         /\ count \in Nat /\ todo \in Nat /\ unacked \in Nat /\ MaxPkts \in Nat
         /\ None \notin Jobs /\ None \notin Packets
<1>1. MaxLinks \in Nat /\ MaxPkts \in Nat /\ None \notin Nat /\ Burst \in Nat
  BY GattAssumption
<1>2. /\ link \in 0..MaxLinks /\ (up => link > 0) /\ count \in 0..MaxPkts /\ todo \in Nat
      /\ unacked \in 0..Burst
  BY DEF IInv, TypeOK, LinkInv
<1> QED
  BY <1>1, <1>2, NoneAssumption DEF Links

\* The write goes on, ends, or is a new one.
LEMMA WireKept ==
  ASSUME IInv, UNCHANGED <<wire, gatt, arrived, done, up, link>>,
         \/ job' = job /\ (write_io' = write_io \/ job = None)
         \/ job' = None
         \/ job'.sar \in Start
  PROVE  WireInv' /\ ChainInv' /\ WrittenArrives'
<1>1. WireInv'
  BY DEF IInv, WireInv
<1>2. WrittenArrives'
  BY ArrivesDef DEF IInv
<1>3. ASSUME up, job' # None, write_io' = link, job'.sar \in Cont
      PROVE  job' = job /\ write_io = link
  BY <1>3 DEF Start, Cont
<1>4. ChainInv'
  BY <1>3 DEF IInv, ChainInv, Sent
<1> QED
  BY <1>1, <1>2, <1>4

\* The handlers of the network layer that only count segments.
LEMMA NetOnly ==
  ASSUME IInv, RoomInv',
         UNCHANGED <<session, pkt_out, pipe, wire, remote, done, count, failed, hung>>,
         unacked' \in 0..Burst, activity' \in BOOLEAN, todo' \in Nat
  PROVE  IInv'
<1> USE DEF session, pipe, remote
<1>1. TypeOK'
  BY DEF IInv, TypeOK
<1>2. LinkInv' /\ AcquireInv' /\ IdInv' /\ QueueInOrder'
  BY DEF IInv, LinkInv, AcquireInv, IdInv, QueueInOrder
<1>3. JobInv'
  BY DEF IInv, JobInv, max_len, Unfinished
<1>4. WireInv' /\ ChainInv' /\ WrittenArrives'
  BY WireKept
<1> QED
  BY <1>1, <1>2, <1>3, <1>4 DEF IInv

LEMMA SendStep ==
  ASSUME IInv, NEW n \in 1..Burst, net_access_layer_send(n)
  PROVE  IInv'
<1>1. Burst \in Nat /\ n \in Nat /\ n \in 0..Burst
  BY GattAssumption
<1>2. todo = 0 /\ count \in Nat /\ unacked \in 0..Burst /\ activity \in BOOLEAN
      /\ MaxPkts \in Nat
  BY GattAssumption DEF IInv, TypeOK, net_access_layer_send, Idle
<1>3. count + todo + n + (IF activity THEN unacked ELSE 0) <= MaxPkts /\ todo' = n
      /\ count' = count
  BY DEF net_access_layer_send, Room
<1>4. CASE n > 1
  <2>1. unacked' = n /\ activity' = FALSE
    BY <1>4 DEF net_access_layer_send, InFlight
  <2>2. RoomInv'
    BY <1>1, <1>2, <1>3, <2>1 DEF RoomInv
  <2> QED
    BY <1>1, <1>3, <2>1, <2>2, NetOnly DEF net_access_layer_send
<1>5. CASE ~(n > 1)
  <2>1. unacked' = unacked /\ activity' = activity
    BY <1>5 DEF net_access_layer_send, InFlight
  <2>2. RoomInv'
    BY <1>1, <1>2, <1>3, <2>1 DEF RoomInv
  <2> QED
    BY <1>1, <1>2, <1>3, <2>1, <2>2, NetOnly DEF net_access_layer_send
<1> QED
  BY <1>4, <1>5

\* Sending n segments again, now or later.
LEMMA RetryStep ==
  ASSUME IInv, NEW n \in 0..Burst, Idle, Room(n), Retry(n),
         UNCHANGED <<session, pkt_out, pipe, wire, remote, done, count, failed, hung>>
  PROVE  IInv'
<1>1. Burst \in Nat /\ n \in Nat
  BY GattAssumption
<1>2. todo = 0 /\ count \in Nat /\ unacked \in 0..Burst /\ activity \in BOOLEAN
      /\ MaxPkts \in Nat
  BY GattAssumption DEF IInv, TypeOK, Idle
<1>3. count + todo + n + (IF activity THEN unacked ELSE 0) <= MaxPkts /\ unacked' = n
      /\ count' = count
  BY DEF Room, Retry
<1>4. CASE pkt_out = <<>>
  <2>1. todo' = n /\ activity' = FALSE
    BY <1>4 DEF Retry
  <2>2. RoomInv'
    BY <1>1, <1>2, <1>3, <2>1 DEF RoomInv
  <2> QED
    BY <1>1, <1>3, <2>1, <2>2, NetOnly
<1>5. CASE pkt_out # <<>>
  <2>1. todo' = 0 /\ activity' = TRUE
    BY <1>5 DEF Retry
  <2>2. RoomInv'
    BY <1>1, <1>2, <1>3, <2>1 DEF RoomInv
  <2> QED
    BY <1>1, <1>3, <2>1, <2>2, NetOnly
<1> QED
  BY <1>4, <1>5

LEMMA TimerSteps ==
  ASSUME IInv, \/ sar_out_ack_timeout
               \/ \E n \in 0..(Burst - 1) : ack_rxed(n)
               \/ sar_out_msg_timeout
  PROVE  IInv'
<1>1. Burst \in Nat /\ unacked \in 0..Burst /\ todo \in Nat /\ count \in Nat /\ MaxPkts \in Nat
  BY GattAssumption DEF IInv, TypeOK
<1>2. ASSUME unacked' = 0, activity' = FALSE, todo' = todo,
             UNCHANGED <<session, pkt_out, pipe, wire, remote, done, count, failed, hung>>
      PROVE  IInv'
  <2>1. count' = count
    BY <1>2
  <2>2. RoomInv'
    BY <1>1, <1>2, <2>1 DEF IInv, RoomInv
  <2>3. unacked' \in 0..Burst /\ todo' \in Nat
    BY <1>1, <1>2
  <2>4. activity' \in BOOLEAN
    BY <1>2, Zenon
  <2> QED
    BY <1>2, <2>2, <2>3, <2>4, NetOnly
<1>3. CASE sar_out_ack_timeout
  BY <1>1, <1>3, RetryStep DEF sar_out_ack_timeout
<1>4. ASSUME NEW n \in 0..(Burst - 1), ack_rxed(n) PROVE IInv'
  <2>1. CASE n = 0
    BY <1>2, <1>4, <2>1 DEF ack_rxed
  <2>2. CASE n # 0
    <3>1. n \in 0..Burst
      BY <1>1
    <3> QED
      BY <1>4, <2>2, <3>1, RetryStep DEF ack_rxed
  <2> QED
    BY <2>1, <2>2
<1>5. CASE sar_out_msg_timeout
  BY <1>2, <1>5 DEF sar_out_msg_timeout
<1> QED
  BY <1>3, <1>4, <1>5
-----------------------------------------------------------------------------
(* Sessions, links and the pipe. *)

LEMMA SessionSteps ==
  ASSUME IInv, net_session_open \/ prov_open \/ net_session_close
  PROVE  IInv'
<1> USE DEF pipe, remote, net
<1>1. /\ job = None /\ ~hung /\ job' = job
      /\ UNCHANGED <<link, up, acquiring, write_io, write_mtu, wire, gatt, arrived, done, count,
                     pkt_out, todo>>
  BY DEF net_session_open, prov_open, net_session_close, Idle, flush_pkt_list
<1>2. link \in Nat /\ None # link /\ (up => link \in Links) /\ MaxPkts \in Nat
      /\ count \in Nat /\ todo \in Nat /\ unacked \in Nat
  BY LinkFacts
<1>3. WireInv' /\ ChainInv' /\ WrittenArrives'
  BY <1>1, WireKept
<1>4. IdInv' /\ JobInv'
  BY <1>1 DEF IInv, IdInv, JobInv
<1>5. hung' = FALSE => \A a \in acquiring : a.queued => pkt_out # <<>> /\ Head(pkt_out) = a.pkt
  BY <1>1 DEF IInv, QueueInOrder
<1>6. QueueInOrder'
  BY <1>1 DEF IInv, QueueInOrder
<1>7. CASE net_session_open
  <2>1. /\ up /\ ~used /\ used' = TRUE /\ proxy_in' = link /\ prov_in' = prov_in
        /\ UNCHANGED <<unacked, activity>> /\ hung' \in BOOLEAN /\ failed' \in BOOLEAN
    BY <1>7 DEF net_session_open, flush_pkt_list
  <2>2. proxy_in = None /\ prov_in = None
    BY <2>1 DEF IInv, LinkInv
  <2>3. \A a \in acquiring : ~a.queued /\ (a.link = link => a.queued)
    BY <1>1, <1>2, <2>1, <2>2 DEF IInv, LinkInv, AcquireInv
  <2>4. TypeOK'
    BY <1>1, <1>2, <2>1 DEF IInv, TypeOK
  <2>5. LinkInv'
    BY <1>1, <2>1, <2>2, <2>3 DEF IInv, LinkInv
  <2>6. RoomInv'
    BY <1>1, <2>1 DEF IInv, RoomInv
  <2>7. AcquireInv'
    BY <1>1, <2>1, <2>3 DEF IInv, AcquireInv
  <2> QED
    BY <1>3, <1>4, <1>6, <2>4, <2>5, <2>6, <2>7 DEF IInv
<1>8. CASE prov_open
  <2>1. /\ up /\ ~used /\ used' = TRUE /\ prov_in' = link
        /\ UNCHANGED <<unacked, activity, proxy_in, hung, failed>>
    BY <1>8 DEF prov_open
  <2>2. proxy_in = None /\ prov_in = None
    BY <2>1 DEF IInv, LinkInv
  <2>4. TypeOK'
    BY <1>1, <1>2, <2>1 DEF IInv, TypeOK
  <2>5. LinkInv'
    BY <1>1, <2>1, <2>2 DEF IInv, LinkInv
  <2>6. RoomInv'
    BY <1>1, <2>1 DEF IInv, RoomInv
  <2>7. AcquireInv'
    BY <1>1, <2>1 DEF IInv, AcquireInv
  <2> QED
    BY <1>3, <1>4, <1>6, <2>4, <2>5, <2>6, <2>7 DEF IInv
<1>9. CASE net_session_close
  <2>1. /\ proxy_in' = None /\ prov_in' = None /\ unacked' = 0 /\ activity' = FALSE
        /\ (hung' <=> pkt_out # <<>>) /\ hung' \in BOOLEAN /\ UNCHANGED <<used, failed>>
    BY <1>9 DEF net_session_close, flush_pkt_list
  <2>2. ~hung' => \A a \in acquiring : ~a.queued
    BY <1>1, <2>1 DEF IInv, QueueInOrder
  <2>3. unacked' \in 0..Burst
    BY <2>1, GattAssumption
  <2>4. TypeOK'
    <3>1. activity' \in BOOLEAN
      BY <2>1, Zenon
    <3> QED
      BY <1>1, <2>1, <2>3, <3>1 DEF IInv, TypeOK
  <2>5. LinkInv'
    BY <1>1, <2>1 DEF IInv, LinkInv
  <2>6. RoomInv'
    BY <1>1, <1>2, <2>1 DEF IInv, RoomInv
  <2>7. AcquireInv'
    BY <1>1, <2>1, <2>2 DEF IInv, AcquireInv
  <2> QED
    BY <1>3, <1>4, <1>6, <2>4, <2>5, <2>6, <2>7 DEF IInv
<1> QED
  BY <1>7, <1>8, <1>9

\* What belongs to earlier links is not of the new one.
LEMMA LinkUpStep ==
  ASSUME IInv, LinkUp
  PROVE  IInv'
<1> USE DEF pipe, net
<1>1. /\ ~up /\ link < MaxLinks /\ proxy_in = None /\ prov_in = None
      /\ link' = link + 1 /\ up' = TRUE /\ used' = FALSE
      /\ wire' = <<>> /\ arrived' = <<>> /\ done' = <<>>
      /\ UNCHANGED <<proxy_in, prov_in, pkt_out, unacked, activity, todo, job, acquiring,
                     write_io, write_mtu, gatt, count, failed, hung>>
  BY DEF LinkUp
<1>2. link \in Nat /\ None # link /\ None \notin Nat /\ MaxLinks \in Nat
  BY LinkFacts, GattAssumption
<1>3. /\ link' \in 0..MaxLinks /\ link' > 0 /\ None # link'
      /\ \A a \in acquiring : a.link <= link' /\ a.link # link'
      /\ write_io # None => write_io <= link' /\ write_io # link'
  <2>1. /\ \A a \in acquiring : a.link \in Int /\ a.link <= link
        /\ write_io # None => write_io \in Int /\ write_io <= link
    BY DEF IInv, LinkInv, TypeOK, Acquires, Links
  <2> QED
    BY <1>1, <1>2, <2>1
<1>4. TypeOK'
  <2>1. wire' \in Seq(Fragments) /\ arrived' \in Seq(Packets \cup {Mixed}) /\ done' \in Seq(Packets)
    BY <1>1, EmptySeq
  <2> QED
    BY <1>1, <1>3, <2>1 DEF IInv, TypeOK
<1>5. LinkInv'
  BY <1>1, <1>3 DEF IInv, LinkInv
<1>6. RoomInv'
  BY <1>1 DEF IInv, RoomInv
<1>7. ~hung => \A a \in acquiring : ~a.queued
  BY <1>1, <1>2 DEF IInv, AcquireInv
<1>8. AcquireInv'
  BY <1>1, <1>3, <1>7 DEF IInv, AcquireInv
<1>9. DOMAIN done' = {} /\ DOMAIN wire' = {} /\ Len(done') = 0
  BY <1>1
<1>10. IdInv'
  BY <1>1, <1>3, <1>9 DEF IInv, IdInv
<1>11. JobInv'
  BY <1>1 DEF IInv, JobInv, max_len, Unfinished
<1>12. WireInv'
  BY <1>9 DEF WireInv
<1>13. ChainInv'
  <2>1. job # None => write_io # None
    BY DEF IInv, AcquireInv
  <2> QED
    BY <1>1, <1>3, <1>9, <2>1 DEF ChainInv
<1>14. WrittenArrives'
  BY <1>1, ArrivesEmpty, ArrivesDef
<1>15. QueueInOrder'
  BY <1>1, <1>7, <1>9 DEF IInv, QueueInOrder
<1> QED
  BY <1>4, <1>5, <1>6, <1>8, <1>10, <1>11, <1>12, <1>13, <1>14, <1>15 DEF IInv

LEMMA LinkLostStep ==
  ASSUME IInv, LinkLost
  PROVE  IInv'
<1> USE DEF pipe, net, remote
<1>1. /\ up' = FALSE /\ wire' = <<>>
      /\ UNCHANGED <<link, used, proxy_in, prov_in, pkt_out, unacked, activity, todo, job,
                     acquiring, write_io, write_mtu, gatt, arrived, done, count, failed, hung>>
  BY DEF LinkLost
<1>2. TypeOK'
  <2>1. wire' \in Seq(Fragments)
    BY <1>1, EmptySeq
  <2> QED
    BY <1>1, <2>1 DEF IInv, TypeOK
<1>3. LinkInv' /\ RoomInv' /\ AcquireInv' /\ IdInv' /\ QueueInOrder'
  BY <1>1 DEF IInv, LinkInv, RoomInv, AcquireInv, IdInv, QueueInOrder
<1>4. JobInv'
  BY <1>1 DEF IInv, JobInv, max_len, Unfinished
<1>5. DOMAIN wire' = {}
  BY <1>1
<1>6. WireInv' /\ ChainInv'
  BY <1>1, <1>5 DEF WireInv, ChainInv
<1>7. WrittenArrives'
  BY <1>1, ArrivesDef
<1> QED
  BY <1>2, <1>3, <1>4, <1>6, <1>7 DEF IInv

LEMMA HupStep ==
  ASSUME IInv, pipe_hup
  PROVE  IInv'
<1> USE DEF net, remote, session
<1>1. /\ job = None /\ write_io' = None /\ write_mtu' = 0
      /\ UNCHANGED <<link, up, used, proxy_in, prov_in, pkt_out, unacked, activity, todo, job,
                     acquiring, wire, gatt, arrived, done, count, failed, hung>>
  BY DEF pipe_hup, Idle
<1>2. None # link
  BY LinkFacts
<1>3. TypeOK'
  BY <1>1 DEF IInv, TypeOK
<1>4. LinkInv' /\ RoomInv' /\ IdInv' /\ JobInv' /\ QueueInOrder'
  BY <1>1 DEF IInv, LinkInv, RoomInv, IdInv, JobInv, QueueInOrder
<1>5. AcquireInv'
  BY <1>1, <1>2 DEF IInv, AcquireInv
<1>6. WireInv' /\ ChainInv' /\ WrittenArrives'
  BY <1>1, WireKept
<1> QED
  BY <1>3, <1>4, <1>5, <1>6 DEF IInv

LEMMA AcquireStep ==
  ASSUME IInv, acquire_write_reply
  PROVE  IInv'
<1> USE DEF net, remote, session
<1>1. /\ job = None /\ ~hung
      /\ UNCHANGED <<link, up, used, proxy_in, prov_in, pkt_out, unacked, activity, todo,
                     wire, gatt, arrived, done, count, hung>>
  BY DEF acquire_write_reply, Idle
<1>2. PICK a \in acquiring :
        /\ acquiring' = acquiring \ {a}
        /\ \/ failed' = (failed \/ a.queued) /\ UNCHANGED <<job, write_io, write_mtu>>
           \/ \E mtu \in Mtus :
                /\ a.link = link
                /\ write_io' = a.link /\ write_mtu' = mtu
                /\ job' = NewJob(a.pkt, a.queued, MaxLen(mtu))
                /\ UNCHANGED failed
  BY DEF acquire_write_reply
<1>3. a \in Acquires /\ a.pkt \in Packets /\ a.link \in Links /\ a.queued \in BOOLEAN
  BY DEF IInv, TypeOK, Acquires
<1>4. acquiring' \subseteq acquiring
  BY <1>2
<1>5. RoomInv'
  BY <1>1 DEF IInv, RoomInv
<1>6. CASE failed' = (failed \/ a.queued) /\ UNCHANGED <<job, write_io, write_mtu>>
  <2>1. failed' \in BOOLEAN
    BY <1>3, <1>6, Zenon DEF IInv, TypeOK
  <2>2. TypeOK'
    BY <1>1, <1>4, <1>6, <2>1 DEF IInv, TypeOK
  <2>3. LinkInv' /\ AcquireInv' /\ IdInv' /\ JobInv' /\ QueueInOrder'
    BY <1>1, <1>4, <1>6 DEF IInv, LinkInv, AcquireInv, IdInv, JobInv, QueueInOrder
  <2>4. WireInv' /\ ChainInv' /\ WrittenArrives'
    BY <1>1, <1>6, WireKept
  <2> QED
    BY <1>5, <2>2, <2>3, <2>4 DEF IInv
<1>7. ASSUME NEW mtu \in Mtus, a.link = link, write_io' = a.link, write_mtu' = mtu,
             job' = NewJob(a.pkt, a.queued, MaxLen(mtu)), failed' = failed
      PROVE  IInv'
  <2>1. MaxLen(mtu) \in 0..255 /\ max_len' = MaxLen(mtu)
    BY <1>7, MaxLenType DEF max_len
  <2>2. /\ job' \in Jobs /\ job' # None /\ job'.pkt = a.pkt /\ (job'.queued <=> a.queued)
        /\ job'.left = Body(a.pkt) /\ job'.sar \in Start
        /\ (Unfinished(job') => job'.left > max_len')
    <3> DEFINE max == MaxLen(mtu)  q == a.queued
    <3>1. max \in 0..255 /\ max = max_len' /\ q \in BOOLEAN /\ job' = NewJob(a.pkt, q, max)
      BY <1>3, <1>7, <2>1
    <3> HIDE DEF max, q
    <3>2. Fresh(job', a.pkt, q, max)
      BY <1>3, <3>1, NewJobOk
    <3> QED
      BY <3>1, <3>2 DEF q, Fresh
  <2>3. \A b \in acquiring' : b.link # link
    BY <1>2, <1>7 DEF IInv, AcquireInv
  <2>4. link \in Nat /\ None # link /\ link \in Links
    BY <1>3, <1>7, LinkFacts
  <2>5. TypeOK'
    BY <1>1, <1>4, <1>7, <2>2, <2>4 DEF IInv, TypeOK
  <2>6. LinkInv'
    BY <1>1, <1>4, <1>7, <2>4 DEF IInv, LinkInv
  <2>7. AcquireInv'
    BY <1>1, <1>4, <1>7, <2>3, <2>4 DEF IInv, AcquireInv
  <2>8. IdInv'
    BY <1>1, <1>4, <1>7, <2>2, <2>3 DEF IInv, IdInv
  <2>9. JobInv'
    <3>1. Body(a.pkt) \in Int
      BY <1>3, PacketFacts
    <3> QED
      BY <2>2, <3>1 DEF JobInv
  <2>10. QueueInOrder'
    BY <1>1, <1>4, <2>2 DEF IInv, QueueInOrder
  <2>11. WireInv' /\ ChainInv' /\ WrittenArrives'
    BY <1>1, <2>2, WireKept
  <2> QED
    BY <1>5, <2>5, <2>6, <2>7, <2>8, <2>9, <2>10, <2>11 DEF IInv
<1> QED
  BY <1>2, <1>6, <1>7
-----------------------------------------------------------------------------
(* Packets that are made. *)

\* A new packet is written, or asks for the pipe, or fails: what mesh_gatt_write
\* leaves when nothing is being written and no call for the link is open.
LEMMA WriteFacts ==
  ASSUME IInv, NEW p \in Packets, NEW to \in {None, link}, NEW queued \in BOOLEAN,
         mesh_gatt_write(p, to, queued)
  PROVE  /\ \/ /\ write_io # None /\ job' \in Jobs /\ job' # None /\ job'.pkt = p
               /\ (job'.queued <=> queued) /\ job'.left = Body(p) /\ job'.sar \in Start
               /\ (Unfinished(job') => job'.left > max_len)
               /\ acquiring' = acquiring /\ failed' = failed
            \/ /\ write_io = None /\ job' = None /\ to = link /\ failed' = failed
               /\ acquiring' = acquiring \cup {[pkt |-> p, link |-> link, queued |-> queued]}
            \/ /\ write_io = None /\ job' = None /\ acquiring' = acquiring
         /\ failed' \in BOOLEAN
<1>1. failed \in BOOLEAN /\ max_len \in 0..255
  BY MaxLenType DEF IInv, TypeOK, max_len
<1>2. CASE write_io # None
  <2>1. job' = NewJob(p, queued, max_len) /\ acquiring' = acquiring /\ failed' = failed
    BY <1>2 DEF mesh_gatt_write
  <2>2. Fresh(job', p, queued, max_len)
    BY <1>1, <2>1, NewJobOk
  <2> QED
    BY <1>1, <1>2, <2>1, <2>2 DEF Fresh
<1>3. CASE write_io = None /\ to # None
  <2>1. /\ job' = None /\ to = link /\ failed' = failed
        /\ acquiring' = acquiring \cup {[pkt |-> p, link |-> to, queued |-> queued]}
    BY <1>3 DEF mesh_gatt_write
  <2> QED
    BY <1>1, <1>3, <2>1
<1>4. CASE write_io = None /\ to = None
  <2>1. job' = None /\ acquiring' = acquiring /\ failed' = (failed \/ queued)
    BY <1>4 DEF mesh_gatt_write
  <2>2. failed' \in BOOLEAN
    BY <1>1, <2>1, Zenon
  <2> QED
    BY <1>4, <2>1, <2>2
<1> QED
  BY <1>2, <1>3, <1>4

\* The step of a write that starts, for a packet newer than all on the link.
LEMMA WriteKeeps ==
  ASSUME IInv, NEW p \in Packets, NEW to \in {None, link}, NEW queued \in BOOLEAN,
         mesh_gatt_write(p, to, queued), ~hung,
         UNCHANGED <<link, up, used, proxy_in, prov_in, write_io, write_mtu, wire, gatt, arrived,
                     done, hung>>,
         to # None => link \in Links,
         count' \in Int, count <= count', p.id <= count',
         \A i \in DOMAIN done : done[i].id < p.id,
         \A a \in acquiring : ~a.queued,
         to = link => \A a \in acquiring : a.link # link,
         queued => to = proxy_in,
         to = link /\ ~queued => used /\ proxy_in = None,
         queued => pkt_out' # <<>> /\ Head(pkt_out') = p
  PROVE  /\ job' \in Jobs \cup {None} /\ acquiring' \subseteq Acquires /\ failed' \in BOOLEAN
         /\ LinkInv' /\ AcquireInv' /\ JobInv' /\ QueueInOrder'
         /\ WireInv' /\ ChainInv' /\ WrittenArrives'
         /\ job' # None =>
              /\ job'.pkt.id <= count'
              /\ \A i \in DOMAIN done' : done'[i].id < job'.pkt.id
         /\ \A a \in acquiring' :
              /\ a.pkt.id <= count'
              /\ a.link = link' => \A i \in DOMAIN done' : done'[i].id < a.pkt.id
<1> DEFINE new == [pkt |-> p, link |-> link, queued |-> queued]
<1>1. /\ link \in Nat /\ None # link
  BY LinkFacts
<1>2. /\ \/ /\ write_io # None /\ job' \in Jobs /\ job' # None /\ job'.pkt = p
            /\ (job'.queued <=> queued) /\ job'.left = Body(p) /\ job'.sar \in Start
            /\ (Unfinished(job') => job'.left > max_len)
            /\ acquiring' = acquiring /\ failed' = failed
         \/ /\ write_io = None /\ job' = None /\ to = link /\ failed' = failed
            /\ acquiring' = acquiring \cup {new}
         \/ /\ write_io = None /\ job' = None /\ acquiring' = acquiring
      /\ failed' \in BOOLEAN
  BY WriteFacts
<1>3. /\ new.pkt = p /\ new.link = link /\ (new.queued <=> queued)
      /\ (link \in Links => new \in Acquires)
  BY DEF Acquires
<1> HIDE DEF new
<1>4. WireInv' /\ ChainInv' /\ WrittenArrives'
  BY <1>2, WireKept
<1>5. \A a \in acquiring : a.pkt.id <= count'
  <2>1. \A a \in acquiring : a.pkt.id <= count /\ a.pkt.id \in Int
    BY PacketFacts DEF IInv, IdInv, TypeOK, Acquires
  <2>2. count \in Int
    BY LinkFacts
  <2> QED
    BY <2>1, <2>2
<1>6. \A i, j \in 1..Len(done) : i < j => done[i].id < done[j].id
  BY DEF IInv, QueueInOrder
<1>7. CASE write_io # None
  <2>1. /\ job' \in Jobs /\ job' # None /\ job'.pkt = p /\ (job'.queued <=> queued)
        /\ job'.left = Body(p) /\ job'.sar \in Start
        /\ (Unfinished(job') => job'.left > max_len)
        /\ acquiring' = acquiring /\ failed' = failed
    BY <1>2, <1>7
  <2>2. acquiring' \subseteq Acquires
    BY <2>1 DEF IInv, TypeOK
  <2>3. LinkInv'
    BY <2>1 DEF IInv, LinkInv
  <2>4. AcquireInv'
    BY <1>7, <2>1 DEF IInv, AcquireInv
  <2>5. JobInv'
    <3>1. Body(p) \in Int /\ max_len' = max_len
      BY PacketFacts DEF max_len
    <3> QED
      BY <2>1, <3>1 DEF JobInv
  <2>6. QueueInOrder'
    BY <1>6, <2>1 DEF QueueInOrder
  <2>7. \A a \in acquiring' : a.link = link => \A i \in DOMAIN done' : done'[i].id < a.pkt.id
    BY <2>1 DEF IInv, IdInv
  <2> QED
    BY <1>2, <1>4, <1>5, <2>1, <2>2, <2>3, <2>4, <2>5, <2>6, <2>7
<1>8. CASE write_io = None /\ acquiring' = acquiring /\ job' = None
  <2>1. acquiring' \subseteq Acquires
    BY <1>8 DEF IInv, TypeOK
  <2>2. LinkInv' /\ AcquireInv' /\ JobInv'
    BY <1>8 DEF IInv, LinkInv, AcquireInv, JobInv
  <2>3. QueueInOrder'
    BY <1>6, <1>8 DEF QueueInOrder
  <2>4. \A a \in acquiring' : a.link = link => \A i \in DOMAIN done' : done'[i].id < a.pkt.id
    BY <1>8 DEF IInv, IdInv
  <2> QED
    BY <1>2, <1>4, <1>5, <1>8, <2>1, <2>2, <2>3, <2>4
<1>9. CASE write_io = None /\ job' = None /\ to = link /\ acquiring' = acquiring \cup {new}
  <2>1. acquiring' \subseteq Acquires
    BY <1>1, <1>3, <1>9 DEF IInv, TypeOK
  <2>2. LinkInv'
    BY <1>1, <1>3, <1>9 DEF IInv, LinkInv
  <2>3. AcquireInv'
    <3>1. \A a \in acquiring' : a.link = link => a = new
      BY <1>9
    <3>2. \A a \in acquiring' : a.queued => a.link = link /\ proxy_in = link
      BY <1>3, <1>9
    <3> QED
      BY <1>1, <1>9, <3>1, <3>2 DEF AcquireInv
  <2>4. JobInv'
    BY <1>9 DEF JobInv
  <2>5. QueueInOrder'
    BY <1>3, <1>6, <1>9 DEF QueueInOrder
  <2>6. \A a \in acquiring' : a.link = link => \A i \in DOMAIN done' : done'[i].id < a.pkt.id
    BY <1>3, <1>9 DEF IInv, IdInv
  <2>7. \A a \in acquiring' : a.pkt.id <= count'
    BY <1>3, <1>5, <1>9
  <2> QED
    BY <1>2, <1>4, <1>9, <2>1, <2>2, <2>3, <2>4, <2>5, <2>6, <2>7
<1> QED
  BY <1>2, <1>7, <1>8, <1>9

\* The next packet is newer than all others.
LEMMA NewPacket ==
  ASSUME IInv, count + 1 <= MaxPkts, NEW form \in NetForms \cup ProvForms
  PROVE  LET p == [id |-> count + 1, form |-> form]
         IN /\ p \in Packets /\ p.id = count + 1
            /\ \A i \in DOMAIN done : done[i].id < count + 1
            /\ \A i \in DOMAIN pkt_out : pkt_out[i].id < count + 1
<1>1. count \in Nat /\ MaxPkts \in Nat
  BY LinkFacts
<1>2. count + 1 \in 1..MaxPkts
  BY <1>1
<1>3. [id |-> count + 1, form |-> form] \in Packets
  BY <1>2 DEF Packets
<1>4. ASSUME NEW s \in Seq(Packets), NEW i \in DOMAIN s, s[i].id <= count
      PROVE  s[i].id < count + 1
  <2>1. s[i] \in Packets
    BY LenProperties
  <2>2. s[i].id \in Int
    BY <2>1, PacketFacts
  <2> QED
    BY <1>1, <1>4, <2>2
<1>5. \A i \in DOMAIN done : done[i].id < count + 1
  <2>1. \A i \in DOMAIN done : done[i].id <= count
    BY DEF IInv, IdInv
  <2>2. done \in Seq(Packets)
    BY DEF IInv, TypeOK
  <2> QED
    BY <1>4, <2>1, <2>2
<1>6. \A i \in DOMAIN pkt_out : pkt_out[i].id < count + 1
  <2>1. \A i \in DOMAIN pkt_out : pkt_out[i].id <= count
    BY DEF IInv, IdInv
  <2>2. pkt_out \in Seq(Packets)
    BY DEF IInv, TypeOK
  <2> QED
    BY <1>4, <2>1, <2>2
<1> QED
  BY <1>3, <1>5, <1>6

LEMMA ProvSendStep ==
  ASSUME IInv, ProvSend
  PROVE  IInv'
<1> USE DEF net, remote, session
<1>1. /\ job = None /\ ~hung /\ todo = 0 /\ prov_in # None /\ count' = count + 1
      /\ \A a \in acquiring : a.link # prov_in
      /\ count + todo + 1 + (IF activity THEN unacked ELSE 0) <= MaxPkts
      /\ UNCHANGED <<link, up, used, proxy_in, prov_in, pkt_out, unacked, activity, todo,
                     write_io, write_mtu, wire, gatt, arrived, done, hung>>
  BY DEF ProvSend, Idle, Room
<1>2. /\ link \in Nat /\ None # link /\ count \in Nat /\ MaxPkts \in Nat /\ unacked \in Nat
  BY LinkFacts
<1>3. count + 1 <= MaxPkts /\ count' \in 0..MaxPkts
  <2>1. activity \in BOOLEAN
    BY DEF IInv, TypeOK
  <2> QED
    BY <1>1, <1>2, <2>1
<1>4. RoomInv'
  <2>1. activity \in BOOLEAN
    BY DEF IInv, TypeOK
  <2> QED
    BY <1>1, <1>2, <2>1 DEF RoomInv
<1>5. prov_in = link /\ proxy_in = None /\ used
  BY <1>1 DEF IInv, LinkInv
<1>6. link \in Links
  BY <1>1, <1>5 DEF IInv, TypeOK
<1>7. PICK form \in ProvForms : mesh_gatt_write([id |-> count + 1, form |-> form], prov_in, FALSE)
  BY DEF ProvSend
<1> DEFINE p == [id |-> count + 1, form |-> form]
<1>8. /\ p \in Packets /\ p.id = count + 1
      /\ \A i \in DOMAIN done : done[i].id < count + 1
      /\ \A i \in DOMAIN pkt_out : pkt_out[i].id < count + 1
  BY <1>3, NewPacket
<1>9. mesh_gatt_write(p, link, FALSE)
  BY <1>5, <1>7
<1> HIDE DEF p
<1>10. \A a \in acquiring : ~a.queued
  BY <1>1, <1>2, <1>5 DEF IInv, AcquireInv
<1>11. /\ job' \in Jobs \cup {None} /\ acquiring' \subseteq Acquires /\ failed' \in BOOLEAN
       /\ LinkInv' /\ AcquireInv' /\ JobInv' /\ QueueInOrder'
       /\ WireInv' /\ ChainInv' /\ WrittenArrives'
       /\ job' # None =>
            /\ job'.pkt.id <= count'
            /\ \A i \in DOMAIN done' : done'[i].id < job'.pkt.id
       /\ \A a \in acquiring' :
            /\ a.pkt.id <= count'
            /\ a.link = link' => \A i \in DOMAIN done' : done'[i].id < a.pkt.id
  <2>1. count' \in Int /\ count <= count' /\ p.id <= count'
    BY <1>1, <1>2, <1>8
  <2>2. \A i \in DOMAIN done : done[i].id < p.id
    BY <1>8
  <2>3. \A a \in acquiring : a.link # link
    BY <1>1, <1>5
  <2>4. p \in Packets /\ link \in {None, link} /\ FALSE \in BOOLEAN
    BY <1>8
  <2> QED
    BY <1>1, <1>5, <1>6, <1>9, <1>10, <2>1, <2>2, <2>3, <2>4, WriteKeeps
<1>12. TypeOK'
  BY <1>1, <1>3, <1>11 DEF IInv, TypeOK
<1>13. IdInv'
  <2>1. /\ \A i \in DOMAIN pkt_out : pkt_out[i].id <= count'
        /\ \A i \in DOMAIN done : done[i].id <= count'
    <3>1. /\ \A i \in DOMAIN pkt_out : pkt_out[i].id \in Int
          /\ \A i \in DOMAIN done : done[i].id \in Int
      <4>1. pkt_out \in Seq(Packets) /\ done \in Seq(Packets)
        BY DEF IInv, TypeOK
      <4>2. \A i \in DOMAIN pkt_out : pkt_out[i] \in Packets
        BY <4>1, LenProperties
      <4>3. \A i \in DOMAIN done : done[i] \in Packets
        BY <4>1, LenProperties
      <4> QED
        BY <4>2, <4>3, PacketFacts
    <3> QED
      BY <1>1, <1>2, <1>8, <3>1
  <2>2. \A i, j \in DOMAIN pkt_out : i < j => pkt_out[i].id < pkt_out[j].id
    BY DEF IInv, IdInv
  <2> QED
    BY <1>1, <1>11, <2>1, <2>2 DEF IdInv
<1> QED
  BY <1>4, <1>11, <1>12, <1>13 DEF IInv

\* The queue grows at its end.
LEMMA SendMeshStep ==
  ASSUME IInv, send_mesh_pkt
  PROVE  IInv'
<1> USE DEF remote, session
<1>1. /\ job = None /\ ~hung /\ todo > 0 /\ todo' = todo - 1 /\ count' = count + 1
      /\ UNCHANGED <<link, up, used, proxy_in, prov_in, unacked, activity,
                     write_io, write_mtu, wire, gatt, arrived, done, hung>>
  BY DEF send_mesh_pkt
<1>2. /\ link \in Nat /\ None # link /\ count \in Nat /\ MaxPkts \in Nat /\ unacked \in Nat
      /\ todo \in Nat /\ activity \in BOOLEAN
  BY LinkFacts DEF IInv, TypeOK
<1>3. count + 1 <= MaxPkts /\ count' \in 0..MaxPkts /\ todo' \in Nat
  BY <1>1, <1>2 DEF IInv, RoomInv
<1>4. RoomInv'
  BY <1>1, <1>2 DEF IInv, RoomInv
<1>5. PICK form \in NetForms :
        LET p == [id |-> count + 1, form |-> form]
        IN /\ pkt_out' = Queued(p)
           /\ IF WritesNow THEN mesh_gatt_write(p, proxy_in, TRUE)
              ELSE UNCHANGED <<job, acquiring, failed>>
  BY DEF send_mesh_pkt
<1> DEFINE p == [id |-> count + 1, form |-> form]
<1>6. /\ p \in Packets /\ p.id = count + 1
      /\ \A i \in DOMAIN done : done[i].id < count + 1
      /\ \A i \in DOMAIN pkt_out : pkt_out[i].id < count + 1
  BY <1>3, NewPacket
<1>7. /\ pkt_out' = Append(pkt_out, p)
      /\ IF WritesNow THEN mesh_gatt_write(p, proxy_in, TRUE)
         ELSE UNCHANGED <<job, acquiring, failed>>
  BY <1>5 DEF Queued
<1> HIDE DEF p
<1>8. /\ pkt_out \in Seq(Packets) /\ pkt_out' \in Seq(Packets) /\ pkt_out' # <<>>
      /\ DOMAIN pkt_out' = DOMAIN pkt_out \cup {Len(pkt_out) + 1} /\ Len(pkt_out) \in Nat
      /\ pkt_out'[Len(pkt_out) + 1] = p
      /\ \A i \in DOMAIN pkt_out : pkt_out'[i] = pkt_out[i] /\ i <= Len(pkt_out) /\ i \in Nat
      /\ pkt_out = <<>> => Head(pkt_out') = p
      /\ pkt_out # <<>> => Head(pkt_out') = Head(pkt_out)
  <2>1. pkt_out \in Seq(Packets)
    BY DEF IInv, TypeOK
  <2> QED
    BY <1>6, <1>7, <2>1, AppendElement, HeadAppend
<1>9. /\ \A i \in DOMAIN pkt_out : pkt_out[i].id \in Int
      /\ \A i \in DOMAIN done : done[i].id \in Int
  <2>1. pkt_out \in Seq(Packets) /\ done \in Seq(Packets)
    BY DEF IInv, TypeOK
  <2>2. \A i \in DOMAIN pkt_out : pkt_out[i] \in Packets
    BY <2>1, LenProperties
  <2>3. \A i \in DOMAIN done : done[i] \in Packets
    BY <2>1, LenProperties
  <2> QED
    BY <2>2, <2>3, PacketFacts
<1>10. /\ \A i \in DOMAIN pkt_out' : pkt_out'[i].id <= count'
       /\ \A i, j \in DOMAIN pkt_out' : i < j => pkt_out'[i].id < pkt_out'[j].id
       /\ \A i \in DOMAIN done : done[i].id <= count'
  <2>1. \A i, j \in DOMAIN pkt_out : i < j => pkt_out[i].id < pkt_out[j].id
    BY DEF IInv, IdInv
  <2>2. count + 1 \in Int /\ count + 1 <= count + 1
    BY <1>2
  <2>3. \A i \in DOMAIN pkt_out' : pkt_out'[i].id <= count'
    BY <1>1, <1>2, <1>6, <1>8, <1>9
  <2>4. \A i \in DOMAIN done : done[i].id <= count'
    BY <1>1, <1>2, <1>6, <1>9
  <2>5. ASSUME NEW i \in DOMAIN pkt_out', NEW j \in DOMAIN pkt_out', i < j
        PROVE  pkt_out'[i].id < pkt_out'[j].id
    <3>1. i \in DOMAIN pkt_out
      BY <1>8, <2>5
    <3> QED
      BY <1>6, <1>8, <2>1, <2>5, <3>1
  <2> QED
    BY <2>3, <2>4, <2>5
<1>11. CASE pkt_out = <<>>
  <2>1. mesh_gatt_write(p, proxy_in, TRUE)
    BY <1>7, <1>11 DEF WritesNow
  <2>2. proxy_in \in {None, link} /\ (proxy_in # None => link \in Links)
    BY DEF IInv, LinkInv, TypeOK
  <2>3. \A a \in acquiring : ~a.queued
    BY <1>1, <1>11 DEF IInv, QueueInOrder
  <2>4. proxy_in = link => \A a \in acquiring : a.link # link
    BY <1>2, <2>3 DEF IInv, LinkInv
  <2>5. count' \in Int /\ count <= count' /\ p.id <= count' /\ TRUE \in BOOLEAN
    BY <1>1, <1>2, <1>6
  <2>6. \A i \in DOMAIN done : done[i].id < p.id
    BY <1>6
  <2>7. pkt_out' # <<>> /\ Head(pkt_out') = p
    BY <1>8, <1>11
  <2>8. /\ job' \in Jobs \cup {None} /\ acquiring' \subseteq Acquires /\ failed' \in BOOLEAN
        /\ LinkInv' /\ AcquireInv' /\ JobInv' /\ QueueInOrder'
        /\ WireInv' /\ ChainInv' /\ WrittenArrives'
        /\ job' # None =>
             /\ job'.pkt.id <= count'
             /\ \A i \in DOMAIN done' : done'[i].id < job'.pkt.id
        /\ \A a \in acquiring' :
             /\ a.pkt.id <= count'
             /\ a.link = link' => \A i \in DOMAIN done' : done'[i].id < a.pkt.id
    BY <1>1, <1>6, <2>1, <2>2, <2>3, <2>4, <2>5, <2>6, <2>7, WriteKeeps
  <2>9. TypeOK'
    BY <1>1, <1>3, <1>8, <2>8 DEF IInv, TypeOK
  <2>10. IdInv'
    BY <1>1, <1>10, <2>8 DEF IdInv
  <2> QED
    BY <1>4, <2>8, <2>9, <2>10 DEF IInv
<1>12. CASE pkt_out # <<>>
  <2>1. UNCHANGED <<job, acquiring, failed>>
    BY <1>7, <1>12 DEF WritesNow
  <2>2. TypeOK'
    BY <1>1, <1>3, <1>8, <2>1 DEF IInv, TypeOK
  <2>3. LinkInv' /\ AcquireInv' /\ JobInv'
    BY <1>1, <2>1 DEF IInv, LinkInv, AcquireInv, JobInv
  <2>4. QueueInOrder'
    BY <1>1, <1>8, <1>12, <2>1 DEF IInv, QueueInOrder
  <2>5. \A a \in acquiring : a.pkt.id <= count'
    <3>1. \A a \in acquiring : a.pkt.id <= count /\ a.pkt.id \in Int
      BY PacketFacts DEF IInv, IdInv, TypeOK, Acquires
    <3> QED
      BY <1>1, <1>2, <3>1
  <2>6. IdInv'
    BY <1>1, <1>10, <2>1, <2>5 DEF IInv, IdInv
  <2>7. WireInv' /\ ChainInv' /\ WrittenArrives'
    BY <1>1, <2>1, WireKept
  <2> QED
    BY <1>4, <2>2, <2>3, <2>4, <2>6, <2>7 DEF IInv
<1> QED
  BY <1>11, <1>12
-----------------------------------------------------------------------------
(* The loop of pipe_write. *)

LEMMA WriteFailsStep ==
  ASSUME IInv, pipe_write, pipe_write_fails
  PROVE  IInv'
<1> USE DEF net, remote, session
<1>1. /\ job # None /\ job' = None /\ failed' = (failed \/ job.queued)
      /\ UNCHANGED <<link, up, used, proxy_in, prov_in, pkt_out, unacked, activity, todo,
                     acquiring, write_io, write_mtu, wire, gatt, arrived, done, count, hung>>
  BY DEF pipe_write, pipe_write_fails
<1>2. failed' \in BOOLEAN
  <2>1. failed \in BOOLEAN /\ job.queued \in BOOLEAN
    BY <1>1, JobFacts DEF IInv, TypeOK
  <2> QED
    BY <1>1, <2>1, Zenon
<1>3. TypeOK'
  BY <1>1, <1>2 DEF IInv, TypeOK
<1>4. LinkInv' /\ RoomInv' /\ AcquireInv' /\ IdInv' /\ JobInv' /\ QueueInOrder'
  BY <1>1 DEF IInv, LinkInv, RoomInv, AcquireInv, IdInv, JobInv, QueueInOrder
<1>5. WireInv' /\ ChainInv' /\ WrittenArrives'
  BY <1>1, WireKept
<1> QED
  BY <1>3, <1>4, <1>5 DEF IInv

\* A fragment after which the packet goes on.
LEMMA WriteMoreStep ==
  ASSUME IInv, pipe_write, pipe_write_sends, Unfinished(job)
  PROVE  IInv'
<1> USE DEF net, remote, session
<1>1. /\ job # None /\ ~hung /\ up /\ write_io = link /\ wire' = Append(wire, Fragment(job))
      /\ job' = NextJob(job)
      /\ UNCHANGED <<link, up, used, proxy_in, prov_in, pkt_out, unacked, activity, todo,
                     acquiring, write_io, write_mtu, gatt, arrived, done, count, failed, hung>>
  BY DEF pipe_write, pipe_write_sends
<1> DEFINE f == Fragment(job)
<1>2. /\ f \in Fragments /\ f.pkt = job.pkt /\ f.sar = job.sar /\ f.from = Sent(job)
      /\ f.size = max_len /\ FragmentOk(f) /\ Unfinished(f)
  BY <1>1, FragmentFacts DEF IInv
<1>3. wire' = Append(wire, f)
  BY <1>1
<1> HIDE DEF f
<1>4. /\ job' \in Jobs /\ job' # None /\ job'.pkt = job.pkt /\ (job'.queued <=> job.queued)
      /\ job'.sar \in Cont /\ job'.left <= Body(job'.pkt)
      /\ (Unfinished(job') => job'.left > max_len) /\ Sent(job') = Sent(job) + max_len
  BY <1>1, NextJobFacts DEF IInv
<1>5. wire \in Seq(Fragments) /\ wire' \in Seq(Fragments)
  BY <1>2, <1>3, AppendElement DEF IInv, TypeOK
<1>6. WireInv' /\ ChainInv'
  <2>1. Sent(job') = Sent(job) + f.size
    BY <1>2, <1>4
  <2> QED
    BY <1>1, <1>2, <1>3, <1>4, <2>1, ChainSend
<1>7. WrittenArrives'
  <2>1. Arrives(wire, done, arrived)
    BY <1>1, ArrivesDef DEF IInv
  <2>2. Arrives(wire', done, arrived)
    BY <1>2, <1>3, <1>5, <2>1, ArrivesMore
  <2> QED
    BY <1>1, <2>2, ArrivesDef
<1>8. TypeOK'
  BY <1>1, <1>4, <1>5 DEF IInv, TypeOK
<1>9. LinkInv' /\ RoomInv' /\ AcquireInv'
  BY <1>1 DEF IInv, LinkInv, RoomInv, AcquireInv
<1>10. IdInv'
  BY <1>1, <1>4 DEF IInv, IdInv
<1>11. JobInv'
  <2>1. max_len' = max_len
    BY <1>1 DEF max_len
  <2> QED
    BY <1>4, <2>1 DEF JobInv, Start, Cont
<1>12. QueueInOrder'
  BY <1>1, <1>4 DEF IInv, QueueInOrder
<1> QED
  BY <1>6, <1>7, <1>8, <1>9, <1>10, <1>11, <1>12 DEF IInv

\* The last fragment: what the queue and the next write then are.
LEMMA WriteLastFacts ==
  ASSUME IInv, pipe_write, pipe_write_sends, ~Unfinished(job)
  PROVE  /\ pkt_out' \in Seq(Packets) /\ unacked' \in 0..Burst /\ activity' \in BOOLEAN
         /\ todo' \in Nat /\ RoomInv' /\ UNCHANGED <<acquiring, failed>>
         /\ \A i \in DOMAIN pkt_out' : pkt_out'[i].id <= count
         /\ \A i, j \in DOMAIN pkt_out' : i < j => pkt_out'[i].id < pkt_out'[j].id
         /\ \/ job' = None
            \/ /\ Fresh(job', Head(pkt_out'), TRUE, max_len) /\ pkt_out' # <<>>
               /\ job.pkt.id < job'.pkt.id /\ job'.pkt.id <= count
<1> USE DEF net, session
<1>1. /\ job # None /\ ~hung /\ write_io = link /\ count' = count
      /\ IF job.queued THEN send_pkt_cmplt(job.pkt)
         ELSE job' = None /\ UNCHANGED <<net, acquiring, failed>>
  BY DEF pipe_write, pipe_write_sends
<1>2. /\ pkt_out \in Seq(Packets) /\ unacked \in 0..Burst /\ activity \in BOOLEAN /\ todo \in Nat
      /\ RoomInv
      /\ \A i \in DOMAIN pkt_out : pkt_out[i].id <= count
      /\ \A i, j \in DOMAIN pkt_out : i < j => pkt_out[i].id < pkt_out[j].id
  BY DEF IInv, TypeOK, IdInv
<1>3. CASE ~job.queued
  <2>1. job' = None /\ UNCHANGED <<pkt_out, unacked, activity, todo, acquiring, failed>>
    BY <1>1, <1>3
  <2>2. RoomInv'
    BY <1>1, <1>2, <2>1 DEF RoomInv
  <2> QED
    BY <1>2, <2>1, <2>2
<1>4. CASE job.queued
  <2>1. pkt_out # <<>> /\ Head(pkt_out) = job.pkt /\ send_pkt_cmplt(job.pkt)
    BY <1>1, <1>4 DEF IInv, QueueInOrder
  <2> DEFINE rest == Tail(pkt_out)
  <2>2. /\ pkt_out' = rest
        /\ IF rest = <<>>
           THEN AfterCmplt /\ job' = None /\ UNCHANGED <<acquiring, failed>>
           ELSE mesh_gatt_write(Head(rest), proxy_in, TRUE)
                /\ UNCHANGED <<unacked, activity, todo>>
    BY <2>1 DEF send_pkt_cmplt
  <2>3. /\ rest \in Seq(Packets) /\ Head(pkt_out) = pkt_out[1] /\ 1 \in DOMAIN pkt_out
        /\ \A i \in DOMAIN rest : i \in Int /\ i > 0 /\ i + 1 \in DOMAIN pkt_out
                                  /\ rest[i] = pkt_out[i + 1]
    BY <1>2, <2>1, TailElement
  <2> HIDE DEF rest
  <2>4. /\ \A i \in DOMAIN rest : rest[i].id <= count /\ job.pkt.id < rest[i].id
        /\ \A i, j \in DOMAIN rest : i < j => rest[i].id < rest[j].id
    <3>1. \A i \in DOMAIN rest : rest[i].id <= count
      BY <1>2, <2>3
    <3>2. ASSUME NEW i \in DOMAIN rest PROVE job.pkt.id < rest[i].id
      <4>1. 1 < i + 1 /\ i + 1 \in DOMAIN pkt_out /\ rest[i] = pkt_out[i + 1]
        BY <2>3
      <4> QED
        BY <1>2, <2>1, <2>3, <4>1
    <3>3. ASSUME NEW i \in DOMAIN rest, NEW j \in DOMAIN rest, i < j
          PROVE  rest[i].id < rest[j].id
      <4>1. /\ i + 1 < j + 1 /\ i + 1 \in DOMAIN pkt_out /\ j + 1 \in DOMAIN pkt_out
            /\ rest[i] = pkt_out[i + 1] /\ rest[j] = pkt_out[j + 1]
        BY <2>3, <3>3
      <4> QED
        BY <1>2, <4>1
    <3> QED
      BY <3>1, <3>2, <3>3
  <2>5. CASE rest = <<>>
    <3>1. AfterCmplt /\ job' = None /\ UNCHANGED <<acquiring, failed>>
      BY <2>2, <2>5
    <3>2. /\ unacked' = unacked /\ activity' = FALSE
          /\ todo' = IF activity THEN todo + unacked ELSE todo
      BY <3>1 DEF AfterCmplt
    <3>3. /\ count \in Nat /\ todo \in Nat /\ unacked \in Nat /\ MaxPkts \in Nat
          /\ activity \in BOOLEAN
      BY <1>2, LinkFacts
    <3>4. todo' \in Nat
      BY <3>2, <3>3
    <3>5. count + todo' <= MaxPkts
      BY <1>2, <3>2, <3>3 DEF RoomInv
    <3>6. RoomInv'
      BY <1>1, <3>2, <3>3, <3>4, <3>5 DEF RoomInv
    <3>7. activity' \in BOOLEAN
      BY <3>2, Zenon
    <3> QED
      BY <1>2, <2>2, <2>3, <2>4, <3>1, <3>2, <3>4, <3>6, <3>7
  <2>6. CASE rest # <<>>
    <3>1. /\ mesh_gatt_write(Head(rest), proxy_in, TRUE)
          /\ UNCHANGED <<unacked, activity, todo>>
      BY <2>2, <2>6
    <3>2. write_io # None /\ max_len \in 0..255
      BY <1>1, LinkFacts, JobFacts DEF IInv
    <3>3. job' = NewJob(Head(rest), TRUE, max_len) /\ UNCHANGED <<acquiring, failed>>
      BY <3>1, <3>2 DEF mesh_gatt_write
    <3>4. 1 \in DOMAIN rest /\ Head(rest) = rest[1] /\ rest[1] \in Packets
      BY <2>3, <2>6, TailElement, LenProperties
    <3>5. Fresh(job', Head(rest), TRUE, max_len)
      BY <3>2, <3>3, <3>4, NewJobOk
    <3>6. job'.pkt = rest[1]
      BY <3>4, <3>5 DEF Fresh
    <3>7. RoomInv'
      BY <1>1, <1>2, <3>1 DEF RoomInv
    <3> QED
      BY <1>2, <2>2, <2>3, <2>4, <2>6, <3>1, <3>3, <3>4, <3>5, <3>6, <3>7
  <2> QED
    BY <2>5, <2>6
<1> QED
  BY <1>3, <1>4

LEMMA WriteLastStep ==
  ASSUME IInv, pipe_write, pipe_write_sends, ~Unfinished(job)
  PROVE  IInv'
<1> USE DEF remote, session
<1>1. /\ job # None /\ ~hung /\ up /\ write_io = link /\ wire' = Append(wire, Fragment(job))
      /\ done' = Append(done, job.pkt)
      /\ UNCHANGED <<link, up, used, proxy_in, prov_in, write_io, write_mtu, gatt, arrived,
                     count, hung>>
  BY DEF pipe_write, pipe_write_sends
<1> DEFINE f == Fragment(job)
<1>2. /\ f \in Fragments /\ f.pkt = job.pkt /\ f.sar = job.sar /\ f.from = Sent(job)
      /\ FragmentOk(f) /\ ~Unfinished(f)
  BY <1>1, FragmentFacts DEF IInv
<1>3. wire' = Append(wire, f)
  BY <1>1
<1> HIDE DEF f
<1>4. /\ pkt_out' \in Seq(Packets) /\ unacked' \in 0..Burst /\ activity' \in BOOLEAN
      /\ todo' \in Nat /\ RoomInv' /\ UNCHANGED <<acquiring, failed>>
      /\ \A i \in DOMAIN pkt_out' : pkt_out'[i].id <= count
      /\ \A i, j \in DOMAIN pkt_out' : i < j => pkt_out'[i].id < pkt_out'[j].id
      /\ \/ job' = None
         \/ /\ Fresh(job', Head(pkt_out'), TRUE, max_len) /\ pkt_out' # <<>>
            /\ job.pkt.id < job'.pkt.id /\ job'.pkt.id <= count
  BY WriteLastFacts
<1>5. \/ job' = None
      \/ /\ job' \in Jobs /\ job' # None /\ job'.pkt = Head(pkt_out')
         /\ job'.left = Body(job'.pkt) /\ job'.sar \in Start
         /\ (Unfinished(job') => job'.left > max_len)
         /\ pkt_out' # <<>> /\ job.pkt.id < job'.pkt.id /\ job'.pkt.id <= count
  BY <1>4 DEF Fresh
<1>6. job.pkt \in Packets /\ job.pkt.id \in Int /\ job.pkt.id <= count
  BY <1>1, JobFacts, PacketFacts DEF IInv, IdInv
<1>7. /\ wire \in Seq(Fragments) /\ wire' \in Seq(Fragments)
      /\ done \in Seq(Packets) /\ done' \in Seq(Packets)
      /\ DOMAIN done' = DOMAIN done \cup {Len(done) + 1} /\ done'[Len(done) + 1] = job.pkt
      /\ \A i \in DOMAIN done : done'[i] = done[i] /\ i <= Len(done) /\ i \in Nat
      /\ Len(done) \in Nat /\ DOMAIN done' = 1..Len(done') /\ DOMAIN done = 1..Len(done)
  <2>1. wire \in Seq(Fragments) /\ done \in Seq(Packets)
    BY DEF IInv, TypeOK
  <2> QED
    BY <1>1, <1>2, <1>3, <1>6, <2>1, AppendElement, LenProperties
<1>8. WireInv' /\ ChainInv'
  <2>1. job' # None => job'.sar \in Start
    BY <1>5
  <2> QED
    BY <1>1, <1>2, <1>3, <2>1, ChainSend
<1>9. WrittenArrives'
  <2>1. Arrives(wire, done, arrived) /\ arrived \in Seq(Packets \cup {Mixed})
    BY <1>1, ArrivesDef DEF IInv, TypeOK
  <2>2. Arrives(wire', done', arrived)
    BY <1>1, <1>2, <1>3, <1>6, <1>7, <2>1, ArrivesDone
  <2> QED
    BY <1>1, <2>2, ArrivesDef
<1>10. TypeOK'
  BY <1>1, <1>4, <1>5, <1>7 DEF IInv, TypeOK
<1>11. LinkInv'
  BY <1>1, <1>4 DEF IInv, LinkInv
<1>12. AcquireInv'
  BY <1>1, <1>4 DEF IInv, AcquireInv
<1>13. \A a \in acquiring : a.link # link /\ ~a.queued
  BY <1>1 DEF IInv, AcquireInv
<1>14. \A i \in DOMAIN done : done[i].id < job.pkt.id /\ done[i].id \in Int
  <2>1. \A i \in DOMAIN done : done[i] \in Packets
    BY <1>7, LenProperties
  <2> QED
    BY <1>1, <2>1, PacketFacts DEF IInv, IdInv
<1>15. IdInv'
  <2>1. \A i \in DOMAIN done' : done'[i].id <= count
    BY <1>6, <1>7 DEF IInv, IdInv
  <2>2. job' # None => \A i \in DOMAIN done' : done'[i].id < job'.pkt.id
    <3>1. ASSUME job' # None PROVE job.pkt.id < job'.pkt.id /\ job'.pkt.id \in Int
      <4>1. job'.pkt \in Packets /\ job.pkt.id < job'.pkt.id
        BY <1>5, <3>1 DEF Jobs
      <4> QED
        BY <4>1, PacketFacts
    <3> QED
      BY <1>6, <1>7, <1>14, <3>1
  <2>3. \A a \in acquiring : a.pkt.id <= count
    BY DEF IInv, IdInv
  <2> QED
    BY <1>1, <1>4, <1>5, <1>13, <2>1, <2>2, <2>3 DEF IdInv
<1>16. JobInv'
  <2>1. max_len' = max_len
    BY <1>1 DEF max_len
  <2>2. job' \in Jobs => Body(job'.pkt) \in Int
    BY PacketFacts DEF Jobs
  <2> QED
    BY <1>5, <2>1, <2>2 DEF JobInv
<1>17. QueueInOrder'
  <2>1. ASSUME NEW i \in DOMAIN done', NEW j \in DOMAIN done', i < j
        PROVE  done'[i].id < done'[j].id
    <3>1. i \in DOMAIN done
      BY <1>7, <2>1
    <3>2. CASE j \in DOMAIN done
      BY <1>7, <2>1, <3>1, <3>2 DEF IInv, QueueInOrder
    <3>3. CASE j = Len(done) + 1
      BY <1>7, <1>14, <3>1, <3>3
    <3> QED
      BY <1>7, <3>2, <3>3
  <2>2. \A i, j \in 1..Len(done') : i < j => done'[i].id < done'[j].id
    BY <1>7, <2>1
  <2> QED
    BY <1>4, <1>5, <1>13, <2>2 DEF QueueInOrder
<1> QED
  BY <1>4, <1>8, <1>9, <1>10, <1>11, <1>12, <1>15, <1>16, <1>17 DEF IInv
-----------------------------------------------------------------------------
(* The other end of the link. *)

LEMMA HeldNext ==
  ASSUME NEW f \in Fragments, NEW g, NEW p, NEW from,
         g = [type |-> f.pkt.form.type, size |-> 1 + (f.from + f.size), pkt |-> f.pkt],
         Before(f, p, from)
  PROVE  Holds(g, p, from)
<1>1. f.from \in Int /\ f.size \in Int
  BY DEF Fragments, MAX_GATT_SIZE
<1>2. f.pkt = p /\ f.from + f.size = from
  BY DEF Before
<1>3. 1 + (f.from + f.size) = (f.from + f.size) + 1
  BY <1>1
<1> QED
  BY <1>2, <1>3 DEF Holds

LEMMA SarStep ==
  ASSUME IInv, mesh_gatt_sar
  PROVE  IInv'
<1> USE DEF net, pipe, session
<1> DEFINE f == Head(wire)
           g == Restart(f)
           new == [g EXCEPT !.size = @ + f.size, !.pkt = Held(g, f)]
           size == 1 + (f.from + f.size)
<1>1. /\ wire # <<>> /\ wire' = Tail(wire)
      /\ UNCHANGED <<link, up, used, proxy_in, prov_in, pkt_out, unacked, activity, todo, job,
                     acquiring, write_io, write_mtu, done, count, failed, hung>>
  BY DEF mesh_gatt_sar
<1>2. /\ f = wire[1] /\ f \in Fragments /\ Fits(g, f)
      /\ new = [type |-> f.pkt.form.type, size |-> size, pkt |-> f.pkt]
      /\ ~Unfinished(f) => new.size = f.pkt.form.len
      /\ size <= MAX_GATT_SIZE
  BY <1>1, ReadFacts
<1>3. /\ gatt' = new
      /\ arrived' = IF Unfinished(f) THEN arrived
                    ELSE Append(arrived, IF new.pkt # Mixed /\ new.size = f.pkt.form.len
                                         THEN new.pkt ELSE Mixed)
  BY <1>2 DEF mesh_gatt_sar
<1> HIDE DEF f, g, new, size
<1>4. f.pkt \in Packets /\ f.from \in 0..65 /\ f.size \in 0..65 /\ f.pkt # Mixed
  BY <1>2, NoneAssumption DEF Fragments, MAX_GATT_SIZE
<1>5. /\ gatt' = [type |-> f.pkt.form.type, size |-> size, pkt |-> f.pkt]
      /\ new.pkt = f.pkt
      /\ arrived' = IF Unfinished(f) THEN arrived ELSE Append(arrived, f.pkt)
  <2>1. new.pkt = f.pkt
    BY <1>2
  <2> QED
    BY <1>2, <1>3, <1>4, <2>1
<1>6. /\ wire \in Seq(Fragments) /\ wire' \in Seq(Fragments) /\ Len(wire) \in Nat \ {0}
      /\ Len(wire') = Len(wire) - 1 /\ DOMAIN wire = 1..Len(wire)
      /\ DOMAIN wire' = 1..(Len(wire) - 1)
      /\ \A i \in DOMAIN wire' : i + 1 \in DOMAIN wire /\ wire'[i] = wire[i + 1]
  <2>1. wire \in Seq(Fragments)
    BY DEF IInv, TypeOK
  <2> QED
    BY <1>1, <2>1, TailElement
<1>7. TypeOK'
  <2>1. arrived' \in Seq(Packets \cup {Mixed})
    <3>1. arrived \in Seq(Packets \cup {Mixed}) /\ f.pkt \in Packets \cup {Mixed}
      BY <1>4 DEF IInv, TypeOK
    <3> QED
      BY <1>5, <3>1, AppendElement
  <2>2. gatt' \in [type : Types \cup {GATT_TYPE_INVALID}, size : 0..MAX_GATT_SIZE,
                   pkt : Packets \cup {None, Mixed}]
    <3>1. f.pkt.form.type \in Types
      BY <1>4, PacketFacts
    <3>2. size \in 0..MAX_GATT_SIZE
      BY <1>2, <1>4 DEF size, MAX_GATT_SIZE
    <3> QED
      BY <1>4, <1>5, <3>1, <3>2
  <2> QED
    BY <1>1, <1>6, <2>1, <2>2 DEF IInv, TypeOK
<1>8. LinkInv' /\ RoomInv' /\ AcquireInv' /\ IdInv' /\ QueueInOrder'
  BY <1>1 DEF IInv, LinkInv, RoomInv, AcquireInv, IdInv, QueueInOrder
<1>9. JobInv'
  BY <1>1 DEF IInv, JobInv, max_len, Unfinished
<1>10. WireInv'
  BY <1>6 DEF IInv, WireInv
<1>11. \A p, from : Before(f, p, from) => Holds(gatt', p, from)
  BY <1>2, <1>5, HeldNext DEF size
<1>12. ChainInv'
  <2>1. ASSUME NEW i \in DOMAIN wire', i > 1, wire'[i].sar \in Cont
        PROVE  Before(wire'[i - 1], wire'[i].pkt, wire'[i].from)
    <3>1. /\ i + 1 \in DOMAIN wire /\ i + 1 > 1 /\ wire'[i] = wire[i + 1]
          /\ i - 1 \in DOMAIN wire' /\ (i - 1) + 1 = i /\ (i + 1) - 1 = i
      BY <1>6, <2>1
    <3>2. wire'[i - 1] = wire[i]
      BY <1>6, <3>1
    <3>3. Before(wire[(i + 1) - 1], wire[i + 1].pkt, wire[i + 1].from)
      BY <2>1, <3>1 DEF IInv, ChainInv
    <3> QED
      BY <3>1, <3>2, <3>3
  <2>2. ASSUME wire' # <<>>, wire'[1].sar \in Cont
        PROVE  Holds(gatt', wire'[1].pkt, wire'[1].from)
    <3>1. 1 \in DOMAIN wire' /\ 1 + 1 = 2 /\ 2 - 1 = 1
      BY <1>6, <2>2, EmptySeq
    <3>2. wire'[1] = wire[2] /\ 2 \in DOMAIN wire
      BY <1>6, <3>1
    <3>3. Before(wire[2 - 1], wire[2].pkt, wire[2].from)
      BY <2>2, <3>1, <3>2 DEF IInv, ChainInv
    <3> QED
      BY <1>2, <1>11, <3>1, <3>2, <3>3
  <2>3. ASSUME up, job # None, write_io = link, job.sar \in Cont
        PROVE  IF wire' = <<>> THEN Holds(gatt', job.pkt, Sent(job))
               ELSE Before(wire'[Len(wire')], job.pkt, Sent(job))
    <3>1. Before(wire[Len(wire)], job.pkt, Sent(job))
      BY <1>1, <2>3 DEF IInv, ChainInv
    <3>2. CASE wire' = <<>>
      <4>1. Len(wire') = 0
        BY <3>2
      <4>2. Len(wire) = 1
        BY <1>6, <4>1
      <4> QED
        BY <1>2, <1>11, <3>1, <3>2, <4>2
    <3>3. CASE wire' # <<>>
      <4>1. Len(wire') # 0
        BY <1>6, <3>3, EmptySeq
      <4>2. Len(wire') \in DOMAIN wire' /\ Len(wire') + 1 = Len(wire)
        BY <1>6, <4>1
      <4>3. wire'[Len(wire')] = wire[Len(wire)]
        BY <1>6, <4>2
      <4> QED
        BY <3>1, <3>3, <4>3
    <3> QED
      BY <3>2, <3>3
  <2>4. up' = up /\ job' = job /\ write_io' = write_io /\ link' = link /\ Sent(job') = Sent(job)
    BY <1>1
  <2> QED
    BY <2>1, <2>2, <2>3, <2>4 DEF ChainInv
<1>13. WrittenArrives'
  <2>1. SUFFICES ASSUME up PROVE Arrives(wire', done', arrived')
    BY <1>1, ArrivesDef
  <2>2. Arrives(wire, done, arrived)
    BY <2>1, ArrivesDef DEF IInv
  <2>3. CASE Unfinished(f)
    <3>1. Arrives(Tail(wire), done, arrived)
      BY <1>1, <1>2, <1>6, <2>2, <2>3, ArrivesSkipped
    <3> QED
      BY <1>1, <1>5, <2>3, <3>1
  <2>4. CASE ~Unfinished(f)
    <3>1. done \in Seq(Packets) /\ arrived \in Seq(Packets \cup {Mixed})
      BY DEF IInv, TypeOK
    <3>2. wire[1].pkt \in Packets \cup {Mixed} /\ ~Unfinished(wire[1])
      BY <1>2, <1>4, <2>4
    <3>3. Arrives(Tail(wire), done, Append(arrived, wire[1].pkt))
      BY <1>1, <1>6, <2>2, <3>1, <3>2, ArrivesRead
    <3> QED
      BY <1>1, <1>2, <1>5, <2>4, <3>3
  <2> QED
    BY <2>3, <2>4
<1> QED
  BY <1>7, <1>8, <1>9, <1>10, <1>12, <1>13 DEF IInv
-----------------------------------------------------------------------------
LEMMA InitHolds == Init => IInv
<1> SUFFICES ASSUME Init PROVE IInv
  OBVIOUS
<1> USE DEF Init
<1>1. TypeOK
  <2>1. 0 \in 0..MaxLinks /\ 0 \in 0..Burst /\ 0 \in 0..MaxPkts
    BY GattAssumption
  <2>2. gatt \in [type : Types \cup {GATT_TYPE_INVALID}, size : 0..MAX_GATT_SIZE,
                  pkt : Packets \cup {None, Mixed}]
    BY DEF Types, PROXY_NETWORK_PDU, MAX_GATT_SIZE
  <2>3. /\ pkt_out \in Seq(Packets) /\ wire \in Seq(Fragments) /\ done \in Seq(Packets)
        /\ arrived \in Seq(Packets \cup {Mixed})
    BY EmptySeq
  <2> QED
    BY <2>1, <2>2, <2>3 DEF TypeOK
<1>2. LinkInv /\ AcquireInv /\ JobInv
  BY DEF LinkInv, AcquireInv, JobInv
<1>3. RoomInv
  BY GattAssumption DEF RoomInv
<1>4. DOMAIN pkt_out = {} /\ DOMAIN done = {} /\ DOMAIN wire = {} /\ Len(done) = 0
  OBVIOUS
<1>5. IdInv /\ WireInv /\ ChainInv /\ QueueInOrder
  BY <1>4 DEF IdInv, WireInv, ChainInv, QueueInOrder
<1>6. WrittenArrives
  BY ArrivesDef
<1> QED
  BY <1>1, <1>2, <1>3, <1>5, <1>6 DEF IInv

LEMMA StepPreserves == IInv /\ [Next]_vars => IInv'
<1> SUFFICES ASSUME IInv, [Next]_vars PROVE IInv'
  OBVIOUS
<1>1. CASE pipe_write
  <2>1. pipe_write_sends \/ pipe_write_fails
    BY <1>1 DEF pipe_write
  <2> QED
    BY <1>1, <2>1, WriteFailsStep, WriteMoreStep, WriteLastStep
<1>2. CASE \E n \in 1..Burst : net_access_layer_send(n)
  BY <1>2, SendStep
<1>3. CASE \/ sar_out_ack_timeout
           \/ \E n \in 0..(Burst - 1) : ack_rxed(n)
           \/ sar_out_msg_timeout
  BY <1>3, TimerSteps
<1>4. CASE net_session_open \/ prov_open \/ net_session_close
  BY <1>4, SessionSteps
<1>5. CASE UNCHANGED vars
  <2>1. UNCHANGED <<session, pkt_out, pipe, wire, remote, done, count, failed, hung>>
        /\ UNCHANGED <<unacked, activity, todo>>
    BY <1>5 DEF vars, net
  <2>2. RoomInv'
    BY <2>1 DEF IInv, RoomInv
  <2>3. unacked' \in 0..Burst /\ activity' \in BOOLEAN /\ todo' \in Nat
    BY <2>1 DEF IInv, TypeOK
  <2> QED
    BY <2>1, <2>2, <2>3, NetOnly
<1> QED
  BY <1>1, <1>2, <1>3, <1>4, <1>5, SendMeshStep, HupStep, AcquireStep, ProvSendStep, LinkUpStep,
     LinkLostStep, SarStep DEF Next, MainLoop

LEMMA InvariantHolds == Spec => []IInv
<1>1. Init => IInv
  BY InitHolds
<1>2. IInv /\ [Next]_vars => IInv'
  BY StepPreserves
<1> QED
  BY <1>1, <1>2, PTL DEF Spec

(***************************************************************************)
(* Every variable keeps its type: what is left of a packet is never        *)
(* negative, and gatt_size stays within gatt_pkt, for every MTU.           *)
(***************************************************************************)
THEOREM TypeCorrect == Spec => []TypeOK
<1>1. IInv => TypeOK
  BY DEF IInv
<1> QED
  BY <1>1, InvariantHolds, PTL

(***************************************************************************)
(* The packet that is written, or waits for AcquireWrite, is the head of   *)
(* net.pkt_out, and packets go to a link in the order they were made.      *)
(***************************************************************************)
THEOREM QueueOrdered == Spec => []QueueInOrder
<1>1. IInv => QueueInOrder
  BY DEF IInv
<1> QED
  BY <1>1, InvariantHolds, PTL

(***************************************************************************)
(* What pipe_write reports as written, mesh_gatt_sar at the other end puts *)
(* together again: whole, once and in order, for packets of every length   *)
(* the code can make, every MTU, and whatever a lost link left behind.     *)
(***************************************************************************)
THEOREM WrittenIsRead == Spec => []WrittenArrives
<1>1. IInv => WrittenArrives
  BY DEF IInv
<1> QED
  BY <1>1, InvariantHolds, PTL
=============================================================================
