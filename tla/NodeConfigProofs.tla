-------------------------- MODULE NodeConfigProofs --------------------------
(***************************************************************************)
(* Proofs about NodeConfig, for any number of nodes, keys, models and      *)
(* messages: the program can always read its file again, reads from it     *)
(* what it has in memory, and agrees with the nodes when nothing is open.  *)
(***************************************************************************)
EXTENDS NodeConfig, TLAPS

Asked == KeyRequests \cup Requests

\* What a request carries, by its kind.
LEMMA RequestFields ==
  ASSUME NEW r \in Asked
  PROVE  /\ r.topic \in Topics
         /\ r.topic.what = "net" => r.topic.idx \in NetIdx
         /\ r.topic.what = "app" => r.topic.idx \in AppIdx
         /\ r.topic.what = "bind" => r.topic.model \in Models /\ r.topic.idx \in AppIdx
         /\ r.topic.what = "sub" => r.topic.model \in Models /\ r.topic.idx \in Groups
         /\ r.topic.what = "pub" => r.topic.model \in Models /\ r.val \in Pubs
         /\ r.topic.what = "ttl" => r.val[1] \in Ttls
<1> USE NodeConfigAssumption DEF Req, Topic, TtlTopic, Topics, Pubs, NoPub
<1>1. CASE r \in KeyRequests
  BY <1>1 DEF KeyRequests
<1>2. CASE r \in cmd_bind \cup cmd_sub_add
  BY <1>2 DEF cmd_bind, cmd_sub_add
<1>3. CASE r \in cmd_pub_set
  BY <1>3 DEF cmd_pub_set
<1>4. CASE r \in cmd_ttl_set
  BY <1>4 DEF cmd_ttl_set
<1>5. CASE r \in cmd_composition_get \cup cmd_node_reset
  BY <1>5 DEF cmd_composition_get, cmd_node_reset
<1> QED
  BY <1>1, <1>2, <1>3, <1>4, <1>5 DEF Asked, Requests

\* What an answer carries: the fields of its request.
LEMMA AnswerFields ==
  ASSUME NEW a \in Answers
  PROVE  /\ a.topic \in Topics /\ a.status \in Statuses
         /\ a.topic.what = "net" => a.topic.idx \in NetIdx
         /\ a.topic.what = "app" => a.topic.idx \in AppIdx
         /\ a.topic.what = "bind" => a.topic.model \in Models /\ a.topic.idx \in AppIdx
         /\ a.topic.what = "sub" => a.topic.model \in Models /\ a.topic.idx \in Groups
         /\ a.topic.what = "pub" => a.topic.model \in Models /\ a.val \in Pubs
         /\ a.topic.what = "ttl" => a.val[1] \in Ttls
<1>1. PICK r \in Asked, st \in Statuses : a = Ans(r, st, Echo(r))
  BY DEF Answers, Asked
<1>2. a.topic = r.topic /\ a.status = st /\ a.val = Echo(r)
  BY <1>1 DEF Ans
<1>3. r.topic.what # "comp" => a.val = r.val
  BY <1>2 DEF Echo
<1> QED
  BY <1>2, <1>3, RequestFields

\* Taking a message out of a sequence leaves one of the same messages.
LEMMA RemoveAtType ==
  ASSUME NEW S, NEW s \in Seq(S), NEW i \in DOMAIN s
  PROVE  RemoveAt(s, i) \in Seq(S)
<1>1. i \in 1..Len(s)
  OBVIOUS
<1>2. SubSeq(s, 1, i - 1) \in Seq(S) /\ SubSeq(s, i + 1, Len(s)) \in Seq(S)
  BY <1>1
<1> QED
  BY <1>2 DEF RemoveAt

\* A new node, its entry and the device are of their types.
LEMMA NewTypes ==
  NewNode \in Known /\ NewEntry \in Entries /\ NewDevice \in Known
<1>1. NewNode \in Known
  BY NodeConfigAssumption DEF NewNode, Known, NoPub, Pubs, PrimaryNet
<1>2. (CHOOSE t \in Ttls : TRUE) \in Ttls
  BY NodeConfigAssumption
<1>3. NewDevice \in Known
  BY <1>1, <1>2 DEF NewDevice, Known
<1>4. NewEntry \in Entries
  <2>1. <<>> \in Seq(AppIdx) /\ <<>> \in Seq(Groups)
    OBVIOUS
  <2> QED
    BY <2>1, NodeConfigAssumption DEF NewEntry, NewNode, Entries, NoPub, Pubs, PrimaryNet
<1> QED
  BY <1>1, <1>3, <1>4

\* What is read from an entry is a node.
LEMMA ReadType ==
  ASSUME NEW e \in Entries
  PROVE  /\ ReadNode(e) \in Known
         /\ ReadNet(e) = e.net
         /\ ReadApp(e) = {i \in e.app : Bound[i] \in e.net}
<1>1. ReadNet(e) = e.net
  BY IndicesReadBack DEF Entries, ReadNet
<1>2. {ReadIdx(j) : j \in e.app} = e.app
  BY IndicesReadBack DEF Entries
<1>3. ReadApp(e) = {i \in e.app : Bound[i] \in e.net}
  BY <1>1, <1>2 DEF ReadApp
<1>4. \A m \in Models : /\ ToSet(e.bind[m]) \subseteq AppIdx
                        /\ ToSet(e.sub[m]) \subseteq Groups
                        /\ WithoutPeriod(e.pub[m]) \in Pubs
  BY DEF Entries, ToSet, WithoutPeriod, Pubs
<1>5. ReadNode(e) \in Known
  BY <1>1, <1>3, <1>4 DEF ReadNode, Known, Entries
<1> QED
  BY <1>1, <1>3, <1>5
-----------------------------------------------------------------------------
(* A node in memory and its entry in the file. *)

\* The entry holds what the node in memory has; it may hold more application
\* keys.
Mirror(k, e) ==
  /\ k.net = e.net /\ k.app \subseteq e.app /\ k.comp = e.comp /\ k.ttl = e.ttl
  /\ \A m \in Models : /\ k.bind[m] = ToSet(e.bind[m])
                       /\ k.sub[m] = ToSet(e.sub[m])
                       /\ WithoutPeriod(k.pub[m]) = WithoutPeriod(e.pub[m])

\* The models of an entry can be read.
Sound(e) ==
  \A m \in Models :
    /\ IsInjective(e.bind[m]) /\ IsInjective(e.sub[m])
    /\ e.bind[m] # <<>> \/ e.sub[m] # <<>> \/ e.pub[m] # NoPub => e.comp

Pair(k, e) == k \in Known /\ e \in Entries /\ Mirror(k, e) /\ Sound(e)

\* Appending a number that is not there.
LEMMA AppendNew ==
  ASSUME NEW S, NEW s \in Seq(S), NEW i \in S, i \notin ToSet(s), IsInjective(s)
  PROVE  /\ Append(s, i) \in Seq(S) /\ IsInjective(Append(s, i))
         /\ ToSet(Append(s, i)) = ToSet(s) \cup {i}
<1>1. /\ Len(s) \in Nat /\ DOMAIN s = 1..Len(s)
      /\ DOMAIN Append(s, i) = 1..(Len(s) + 1)
      /\ \A j \in 1..Len(s) : Append(s, i)[j] = s[j]
      /\ Append(s, i)[Len(s) + 1] = i
  OBVIOUS
<1>2. IsInjective(Append(s, i))
  BY <1>1 DEF IsInjective, ToSet
<1>3. ToSet(Append(s, i)) = ToSet(s) \cup {i}
  BY <1>1 DEF ToSet
<1> QED
  BY <1>2, <1>3

\* A new node and its entry.
LEMMA NewPair == Pair(NewNode, NewEntry)
<1>1. NewNode \in Known /\ NewEntry \in Entries
  BY NewTypes
<1>2. Mirror(NewNode, NewEntry) /\ Sound(NewEntry)
  BY DEF Mirror, Sound, NewNode, NewEntry, ToSet, IsInjective, WithoutPeriod, NoPub
<1> QED
  BY <1>1, <1>2 DEF Pair

\* A start: the node that is read.
LEMMA ReadPair ==
  ASSUME NEW e \in Entries, Sound(e)
  PROVE  Pair(ReadNode(e), e)
<1>1. /\ ReadNode(e) \in Known /\ ReadNode(e).net = e.net
      /\ ReadNode(e).app \subseteq e.app
      /\ ReadNode(e).comp = e.comp /\ ReadNode(e).ttl = e.ttl
      /\ ReadNode(e).bind = [m \in Models |-> ToSet(e.bind[m])]
      /\ ReadNode(e).sub = [m \in Models |-> ToSet(e.sub[m])]
      /\ ReadNode(e).pub = [m \in Models |-> WithoutPeriod(e.pub[m])]
  BY ReadType DEF ReadNode, Entries
<1>2. \A m \in Models : WithoutPeriod(WithoutPeriod(e.pub[m])) = WithoutPeriod(e.pub[m])
  BY DEF WithoutPeriod
<1> QED
  BY <1>1, <1>2 DEF Pair, Mirror

\* The lists of keys are written whole.
LEMMA NetPair ==
  ASSUME NEW k, NEW e, Pair(k, e), NEW net \in SUBSET NetIdx
  PROVE  Pair([k EXCEPT !.net = net], [e EXCEPT !.net = net])
BY DEF Pair, Known, Entries, Mirror, Sound

LEMMA AppPair ==
  ASSUME NEW k, NEW e, Pair(k, e), NEW app \in SUBSET AppIdx
  PROVE  Pair([k EXCEPT !.app = app], [e EXCEPT !.app = app])
BY DEF Pair, Known, Entries, Mirror, Sound

LEMMA TtlPair ==
  ASSUME NEW k, NEW e, Pair(k, e), NEW ttl \in Ttls
  PROVE  Pair([k EXCEPT !.ttl = ttl], prov_db_node_set_ttl(e, ttl))
BY DEF Pair, Known, Entries, Mirror, Sound, prov_db_node_set_ttl

LEMMA CompPair ==
  ASSUME NEW k, NEW e, Pair(k, e), NEW lpn \in BOOLEAN
  PROVE  Pair(node_parse_composition(k, lpn), prov_db_add_node_composition(e, lpn))
BY DEF Pair, Known, Entries, Mirror, Sound, node_parse_composition,
       prov_db_add_node_composition

LEMMA BindPair ==
  ASSUME NEW k, NEW e, Pair(k, e), NEW m \in Models, NEW i \in AppIdx,
         k.comp, i \notin k.bind[m]
  PROVE  Pair([k EXCEPT !.bind[m] = @ \cup {i}], prov_db_add_binding(e, m, i))
<1>1. e.bind[m] \in Seq(AppIdx) /\ i \notin ToSet(e.bind[m]) /\ IsInjective(e.bind[m])
  BY DEF Pair, Entries, Mirror, Sound
<1>2. /\ Append(e.bind[m], i) \in Seq(AppIdx) /\ IsInjective(Append(e.bind[m], i))
      /\ ToSet(Append(e.bind[m], i)) = k.bind[m] \cup {i}
  BY <1>1, AppendNew DEF Pair, Mirror
<1> DEFINE b == [e EXCEPT !.bind[m] = Append(@, i)]
<1>3. b \in Entries /\ b.bind[m] = Append(e.bind[m], i)
      /\ \A o \in Models : o # m => b.bind[o] = e.bind[o]
  BY <1>2 DEF Pair, Entries
<1>4. b.comp /\ b.sub = e.sub /\ b.pub = e.pub /\ b.net = e.net /\ b.app = e.app
      /\ b.ttl = e.ttl /\ b.comp = e.comp
  BY DEF Pair, Entries, Mirror
<1>5. Sound(b)
  BY <1>2, <1>3, <1>4 DEF Pair, Sound
<1> DEFINE c == [k EXCEPT !.bind[m] = @ \cup {i}]
<1>6. c \in Known /\ c.bind[m] = k.bind[m] \cup {i}
      /\ \A o \in Models : o # m => c.bind[o] = k.bind[o]
  BY DEF Pair, Known
<1>7. c.comp = k.comp /\ c.sub = k.sub /\ c.pub = k.pub /\ c.net = k.net
      /\ c.app = k.app /\ c.ttl = k.ttl
  BY DEF Pair, Known
<1>8. Mirror(c, b)
  BY <1>2, <1>3, <1>4, <1>6, <1>7 DEF Pair, Mirror
<1> QED
  BY <1>3, <1>5, <1>6, <1>8 DEF Pair, prov_db_add_binding

LEMMA SubPair ==
  ASSUME NEW k, NEW e, Pair(k, e), NEW m \in Models, NEW i \in Groups,
         k.comp, i \notin k.sub[m]
  PROVE  Pair([k EXCEPT !.sub[m] = @ \cup {i}], prov_db_add_subscription(e, m, i))
<1>1. e.sub[m] \in Seq(Groups) /\ i \notin ToSet(e.sub[m]) /\ IsInjective(e.sub[m])
  BY DEF Pair, Entries, Mirror, Sound
<1>2. /\ Append(e.sub[m], i) \in Seq(Groups) /\ IsInjective(Append(e.sub[m], i))
      /\ ToSet(Append(e.sub[m], i)) = k.sub[m] \cup {i}
  BY <1>1, AppendNew DEF Pair, Mirror
<1> DEFINE b == [e EXCEPT !.sub[m] = Append(@, i)]
<1>3. b \in Entries /\ b.sub[m] = Append(e.sub[m], i)
      /\ \A o \in Models : o # m => b.sub[o] = e.sub[o]
  BY <1>2 DEF Pair, Entries
<1>4. b.comp /\ b.bind = e.bind /\ b.pub = e.pub /\ b.net = e.net /\ b.app = e.app
      /\ b.ttl = e.ttl /\ b.comp = e.comp
  BY DEF Pair, Entries, Mirror
<1>5. Sound(b)
  BY <1>2, <1>3, <1>4 DEF Pair, Sound
<1> DEFINE c == [k EXCEPT !.sub[m] = @ \cup {i}]
<1>6. c \in Known /\ c.sub[m] = k.sub[m] \cup {i}
      /\ \A o \in Models : o # m => c.sub[o] = k.sub[o]
  BY DEF Pair, Known
<1>7. c.comp = k.comp /\ c.bind = k.bind /\ c.pub = k.pub /\ c.net = k.net
      /\ c.app = k.app /\ c.ttl = k.ttl
  BY DEF Pair, Known
<1>8. Mirror(c, b)
  BY <1>2, <1>3, <1>4, <1>6, <1>7 DEF Pair, Mirror
<1> QED
  BY <1>3, <1>5, <1>6, <1>8 DEF Pair, prov_db_add_subscription

LEMMA PubPair ==
  ASSUME NEW k, NEW e, Pair(k, e), NEW m \in Models, NEW p \in Pubs, k.comp
  PROVE  Pair([k EXCEPT !.pub[m] = p], [e EXCEPT !.pub[m] = WithoutPeriod(p)])
<1>1. WithoutPeriod(p) \in Pubs /\ WithoutPeriod(WithoutPeriod(p)) = WithoutPeriod(p)
  BY DEF WithoutPeriod, Pubs
<1> DEFINE b == [e EXCEPT !.pub[m] = WithoutPeriod(p)]
<1>2. b \in Entries /\ b.pub[m] = WithoutPeriod(p)
      /\ \A o \in Models : o # m => b.pub[o] = e.pub[o]
  BY <1>1 DEF Pair, Entries
<1>3. b.comp /\ b.bind = e.bind /\ b.sub = e.sub /\ b.net = e.net /\ b.app = e.app
      /\ b.ttl = e.ttl /\ b.comp = e.comp
  BY DEF Pair, Entries, Mirror
<1>4. Sound(b)
  BY <1>2, <1>3 DEF Pair, Sound
<1> DEFINE c == [k EXCEPT !.pub[m] = p]
<1>5. c \in Known /\ c.pub[m] = p /\ \A o \in Models : o # m => c.pub[o] = k.pub[o]
  BY DEF Pair, Known
<1>6. c.comp = k.comp /\ c.bind = k.bind /\ c.sub = k.sub /\ c.net = k.net
      /\ c.app = k.app /\ c.ttl = k.ttl
  BY DEF Pair, Known
<1>7. Mirror(c, b)
  BY <1>1, <1>2, <1>3, <1>5, <1>6 DEF Pair, Mirror
<1> QED
  BY <1>2, <1>4, <1>5, <1>7 DEF Pair
-----------------------------------------------------------------------------
(* The inductive invariant: memory and file, and the messages. *)

MemInv ==
  /\ mem \in [Nodes -> Known \cup {None}]
  /\ db \in [Nodes -> Entries \cup {None}]
  /\ \A n \in Nodes : mem[n] # None => Pair(mem[n], db[n])
  /\ \A n \in Nodes : db[n] # None => Sound(db[n])

MsgInv ==
  /\ has \in [Nodes -> Known \cup {None}]
  /\ reqs \in [Nodes -> Seq(KeyRequests \cup Requests)]
  /\ stats \in [Nodes -> Seq(Answers)]
  /\ doubt \in [Nodes -> SUBSET Topics]

IInv == MemInv /\ MsgInv

\* One node and its entry change together.
LEMMA PairStep ==
  ASSUME MemInv, NEW n \in Nodes, NEW k, NEW e, Pair(k, e),
         mem' = [mem EXCEPT ![n] = k], db' = [db EXCEPT ![n] = e]
  PROVE  MemInv'
<1>1. k \in Known /\ e \in Entries /\ Sound(e)
  BY DEF Pair
<1>2. mem' \in [Nodes -> Known \cup {None}] /\ db' \in [Nodes -> Entries \cup {None}]
  BY <1>1 DEF MemInv
<1>3. \A o \in Nodes : /\ mem'[o] = IF o = n THEN k ELSE mem[o]
                       /\ db'[o] = IF o = n THEN e ELSE db[o]
  BY DEF MemInv
<1> QED
  BY <1>1, <1>2, <1>3 DEF MemInv

LEMMA MemSame ==
  ASSUME MemInv, UNCHANGED <<mem, db>>
  PROVE  MemInv'
BY DEF MemInv

\* What a step makes of node n in memory and in the file.
Changes(n) ==
  \/ UNCHANGED <<mem, db>>
  \/ mem' = [mem EXCEPT ![n] = None] /\ UNCHANGED db
  \/ \E k, e : Pair(k, e) /\ mem' = [mem EXCEPT ![n] = k] /\ db' = [db EXCEPT ![n] = e]

LEMMA ChangesStep ==
  ASSUME MemInv, NEW n \in Nodes, Changes(n)
  PROVE  /\ MemInv'
         /\ \A o \in Nodes \ {n} : mem'[o] = mem[o] /\ db'[o] = db[o]
         /\ db[n] # None => db'[n] # None
<1>1. CASE UNCHANGED <<mem, db>>
  BY <1>1, MemSame
<1>2. CASE mem' = [mem EXCEPT ![n] = None] /\ UNCHANGED db
  BY <1>2 DEF MemInv
<1>3. CASE \E k, e : Pair(k, e) /\ mem' = [mem EXCEPT ![n] = k] /\ db' = [db EXCEPT ![n] = e]
  <2>1. PICK k, e : Pair(k, e) /\ mem' = [mem EXCEPT ![n] = k] /\ db' = [db EXCEPT ![n] = e]
    BY <1>3
  <2>2. e # None
    BY <2>1, NoneAssumption DEF Pair
  <2>3. MemInv'
    BY <2>1, PairStep
  <2> QED
    BY <2>1, <2>2, <2>3 DEF MemInv
<1> QED
  BY <1>1, <1>2, <1>3 DEF Changes

LEMMA SaveNetStep ==
  ASSUME MemInv, NEW n \in Nodes, mem[n] # None, NEW net \in SUBSET NetIdx,
         SaveNet(n, net)
  PROVE  Changes(n)
<1>1. CASE net = mem[n].net
  BY <1>1 DEF SaveNet, Changes
<1>2. CASE net # mem[n].net
  <2>1. Pair([mem[n] EXCEPT !.net = net], [db[n] EXCEPT !.net = net])
    BY NetPair DEF MemInv
  <2>2. /\ mem' = [mem EXCEPT ![n] = [mem[n] EXCEPT !.net = net]]
        /\ db' = [db EXCEPT ![n] = [db[n] EXCEPT !.net = net]]
    BY <1>2 DEF SaveNet
  <2> QED
    BY <2>1, <2>2 DEF Changes
<1> QED
  BY <1>1, <1>2

LEMMA SaveAppStep ==
  ASSUME MemInv, NEW n \in Nodes, mem[n] # None, NEW app \in SUBSET AppIdx,
         SaveApp(n, app)
  PROVE  Changes(n)
<1>1. CASE app = mem[n].app
  BY <1>1 DEF SaveApp, Changes
<1>2. CASE app # mem[n].app
  <2>1. Pair([mem[n] EXCEPT !.app = app], [db[n] EXCEPT !.app = app])
    BY AppPair DEF MemInv
  <2>2. /\ mem' = [mem EXCEPT ![n] = [mem[n] EXCEPT !.app = app]]
        /\ db' = [db EXCEPT ![n] = [db[n] EXCEPT !.app = app]]
    BY <1>2 DEF SaveApp
  <2> QED
    BY <2>1, <2>2 DEF Changes
<1> QED
  BY <1>1, <1>2

\* The lists a command or a refusal makes are lists of keys.
LEMMA KeyLists ==
  ASSUME MemInv, NEW n \in Nodes, mem[n] # None
  PROVE  /\ \A i \in NetIdx, op \in {"add", "delete"} : NetKeys(n, i, op) \in SUBSET NetIdx
         /\ \A i \in AppIdx, op \in {"add", "delete"} : AppKeys(n, i, op) \in SUBSET AppIdx
<1>1. mem[n] \in Known
  BY DEF MemInv
<1> QED
  BY <1>1 DEF Known, NetKeys, AppKeys

\* The head of the answers.
LEMMA Received ==
  ASSUME IInv, NEW n \in Nodes, NEW what, Receives(n, what)
  PROVE  Rx(n) \in Answers /\ Rx(n).topic.what = what /\ MsgInv'
<1>1. stats[n] \in Seq(Answers) /\ stats[n] # <<>>
  BY DEF IInv, MsgInv, Receives
<1>2. Head(stats[n]) \in Answers /\ Tail(stats[n]) \in Seq(Answers)
  BY <1>1
<1>3. MsgInv'
  BY <1>2 DEF Receives, IInv, MsgInv
<1> QED
  BY <1>2, <1>3 DEF Receives, Rx

\* The answers that change keys.
LEMMA KeyAnswers ==
  ASSUME IInv, NEW n \in Nodes, OP_NETKEY_STATUS(n) \/ OP_APPKEY_STATUS(n)
  PROVE  Changes(n) /\ MsgInv'
<1>1. CASE OP_NETKEY_STATUS(n)
  <2>1. Rx(n).topic.idx \in NetIdx /\ MsgInv'
    BY <1>1, Received, AnswerFields DEF OP_NETKEY_STATUS
  <2>2. CASE UNCHANGED <<mem, db>>
    BY <2>1, <2>2 DEF Changes
  <2>3. CASE mem[n] # None /\ SaveNet(n, NetKeys(n, Rx(n).topic.idx, "delete"))
    <3>1. NetKeys(n, Rx(n).topic.idx, "delete") \in SUBSET NetIdx
      BY <2>1, <2>3, KeyLists DEF IInv
    <3> QED
      BY <2>1, <2>3, <3>1, SaveNetStep DEF IInv
  <2> QED
    BY <1>1, <2>2, <2>3 DEF OP_NETKEY_STATUS, Unknown
<1>2. CASE OP_APPKEY_STATUS(n)
  <2>1. Rx(n).topic.idx \in AppIdx /\ MsgInv'
    BY <1>2, Received, AnswerFields DEF OP_APPKEY_STATUS
  <2>2. CASE UNCHANGED <<mem, db>>
    BY <2>1, <2>2 DEF Changes
  <2>3. CASE mem[n] # None /\ SaveApp(n, AppKeys(n, Rx(n).topic.idx, "delete"))
    <3>1. AppKeys(n, Rx(n).topic.idx, "delete") \in SUBSET AppIdx
      BY <2>1, <2>3, KeyLists DEF IInv
    <3> QED
      BY <2>1, <2>3, <3>1, SaveAppStep DEF IInv
  <2> QED
    BY <1>2, <2>2, <2>3 DEF OP_APPKEY_STATUS, Unknown
<1> QED
  BY <1>1, <1>2

\* The answers about a model.
LEMMA ModelAnswers ==
  ASSUME IInv, NEW n \in Nodes,
         \/ OP_MODEL_APP_STATUS(n) \/ OP_CONFIG_MODEL_SUB_STATUS(n)
         \/ OP_CONFIG_MODEL_PUB_STATUS(n)
  PROVE  Changes(n) /\ MsgInv'
<1> DEFINE m == Rx(n).topic.model
           i == Rx(n).topic.idx
<1>1. CASE OP_MODEL_APP_STATUS(n)
  <2>1. m \in Models /\ i \in AppIdx /\ MsgInv'
    BY <1>1, Received, AnswerFields DEF OP_MODEL_APP_STATUS
  <2>2. CASE UNCHANGED <<mem, db>>
    BY <2>1, <2>2 DEF Changes
  <2>3. CASE /\ mem[n] # None /\ Adds(n, mem[n].bind[m], i)
             /\ mem' = [mem EXCEPT ![n].bind[m] = @ \cup {i}]
             /\ db' = [db EXCEPT ![n] = prov_db_add_binding(@, m, i)]
    <3>1. Pair(mem[n], db[n])
      BY <2>3 DEF IInv, MemInv
    <3>2. Pair([mem[n] EXCEPT !.bind[m] = @ \cup {i}], prov_db_add_binding(db[n], m, i))
      BY <2>1, <2>3, <3>1, BindPair DEF Adds
    <3>3. /\ mem' = [mem EXCEPT ![n] = [mem[n] EXCEPT !.bind[m] = @ \cup {i}]]
          /\ db' = [db EXCEPT ![n] = prov_db_add_binding(db[n], m, i)]
      BY <2>3
    <3> QED
      BY <2>1, <3>2, <3>3 DEF Changes
  <2> QED
    BY <1>1, <2>2, <2>3 DEF OP_MODEL_APP_STATUS, Unknown
<1>2. CASE OP_CONFIG_MODEL_SUB_STATUS(n)
  <2>1. m \in Models /\ i \in Groups /\ MsgInv'
    BY <1>2, Received, AnswerFields DEF OP_CONFIG_MODEL_SUB_STATUS
  <2>2. CASE UNCHANGED <<mem, db>>
    BY <2>1, <2>2 DEF Changes
  <2>3. CASE /\ mem[n] # None /\ Adds(n, mem[n].sub[m], i)
             /\ mem' = [mem EXCEPT ![n].sub[m] = @ \cup {i}]
             /\ db' = [db EXCEPT ![n] = prov_db_add_subscription(@, m, i)]
    <3>1. Pair(mem[n], db[n])
      BY <2>3 DEF IInv, MemInv
    <3>2. Pair([mem[n] EXCEPT !.sub[m] = @ \cup {i}], prov_db_add_subscription(db[n], m, i))
      BY <2>1, <2>3, <3>1, SubPair DEF Adds
    <3>3. /\ mem' = [mem EXCEPT ![n] = [mem[n] EXCEPT !.sub[m] = @ \cup {i}]]
          /\ db' = [db EXCEPT ![n] = prov_db_add_subscription(db[n], m, i)]
      BY <2>3
    <3> QED
      BY <2>1, <3>2, <3>3 DEF Changes
  <2> QED
    BY <1>2, <2>2, <2>3 DEF OP_CONFIG_MODEL_SUB_STATUS, Unknown
<1>3. CASE OP_CONFIG_MODEL_PUB_STATUS(n)
  <2>1. m \in Models /\ Rx(n).val \in Pubs /\ MsgInv'
    BY <1>3, Received, AnswerFields DEF OP_CONFIG_MODEL_PUB_STATUS
  <2>2. CASE UNCHANGED <<mem, db>>
    BY <2>1, <2>2 DEF Changes
  <2>3. CASE /\ mem[n] # None /\ mem[n].comp
             /\ mem' = [mem EXCEPT ![n].pub[m] = Rx(n).val]
             /\ db' = [db EXCEPT ![n].pub[m] = SavedPub(n, m)]
    <3>1. Pair(mem[n], db[n])
      BY <2>3 DEF IInv, MemInv
    <3>2. Pair([mem[n] EXCEPT !.pub[m] = Rx(n).val],
               [db[n] EXCEPT !.pub[m] = WithoutPeriod(Rx(n).val)])
      BY <2>1, <2>3, <3>1, PubPair
    <3>3. /\ mem' = [mem EXCEPT ![n] = [mem[n] EXCEPT !.pub[m] = Rx(n).val]]
          /\ db' = [db EXCEPT ![n] = [db[n] EXCEPT !.pub[m] = WithoutPeriod(Rx(n).val)]]
      BY <2>3 DEF SavedPub
    <3> QED
      BY <2>1, <3>2, <3>3 DEF Changes
  <2> QED
    BY <1>3, <2>2, <2>3 DEF OP_CONFIG_MODEL_PUB_STATUS, Unknown
<1> QED
  BY <1>1, <1>2, <1>3

\* The answers about a node.
LEMMA NodeStatus ==
  ASSUME IInv, NEW n \in Nodes,
         \/ OP_CONFIG_DEFAULT_TTL_STATUS(n) \/ OP_DEV_COMP_STATUS(n)
         \/ OP_NODE_RESET_STATUS(n)
  PROVE  Changes(n) /\ MsgInv'
<1>1. CASE OP_CONFIG_DEFAULT_TTL_STATUS(n)
  <2>1. Rx(n).val[1] \in Ttls /\ MsgInv'
    BY <1>1, Received, AnswerFields DEF OP_CONFIG_DEFAULT_TTL_STATUS
  <2>2. CASE UNCHANGED <<mem, db>>
    BY <2>1, <2>2 DEF Changes
  <2>3. CASE /\ mem[n] # None
             /\ mem' = [mem EXCEPT ![n].ttl = Rx(n).val[1]]
             /\ db' = [db EXCEPT ![n] = prov_db_node_set_ttl(@, Rx(n).val[1])]
    <3>1. Pair(mem[n], db[n])
      BY <2>3 DEF IInv, MemInv
    <3>2. Pair([mem[n] EXCEPT !.ttl = Rx(n).val[1]],
               prov_db_node_set_ttl(db[n], Rx(n).val[1]))
      BY <2>1, <3>1, TtlPair
    <3>3. /\ mem' = [mem EXCEPT ![n] = [mem[n] EXCEPT !.ttl = Rx(n).val[1]]]
          /\ db' = [db EXCEPT ![n] = prov_db_node_set_ttl(db[n], Rx(n).val[1])]
      BY <2>3
    <3> QED
      BY <2>1, <3>2, <3>3 DEF Changes
  <2> QED
    BY <1>1, <2>2, <2>3 DEF OP_CONFIG_DEFAULT_TTL_STATUS, Unknown
<1>2. CASE OP_DEV_COMP_STATUS(n)
  <2>1. MsgInv'
    BY <1>2, Received DEF OP_DEV_COMP_STATUS
  <2> DEFINE lpn == Rx(n).val[1] = 1
  <2>2. CASE UNCHANGED <<mem, db>>
    BY <2>1, <2>2 DEF Changes
  <2>3. CASE /\ mem[n] # None
             /\ mem' = [mem EXCEPT ![n] = node_parse_composition(@, lpn)]
             /\ db' = [db EXCEPT ![n] = prov_db_add_node_composition(@, lpn)]
    <3>1. Pair(mem[n], db[n])
      BY <2>3 DEF IInv, MemInv
    <3>2. lpn \in BOOLEAN
      OBVIOUS
    <3>3. Pair(node_parse_composition(mem[n], lpn),
               prov_db_add_node_composition(db[n], lpn))
      BY <3>1, <3>2, CompPair
    <3>4. /\ mem' = [mem EXCEPT ![n] = node_parse_composition(mem[n], lpn)]
          /\ db' = [db EXCEPT ![n] = prov_db_add_node_composition(db[n], lpn)]
      BY <2>3
    <3> QED
      BY <2>1, <3>3, <3>4 DEF Changes
  <2> QED
    BY <1>2, <2>2, <2>3 DEF OP_DEV_COMP_STATUS, Unknown
<1>3. CASE OP_NODE_RESET_STATUS(n)
  <2>1. MsgInv'
    BY <1>3, Received DEF OP_NODE_RESET_STATUS
  <2>2. CASE UNCHANGED <<mem, db>>
    BY <2>1, <2>2 DEF Changes
  <2>3. CASE mem' = [mem EXCEPT ![n] = None] /\ UNCHANGED db
    BY <2>1, <2>3 DEF Changes
  <2> QED
    BY <1>3, <2>2, <2>3 DEF OP_NODE_RESET_STATUS, Unknown
<1> QED
  BY <1>1, <1>2, <1>3

LEMMA AnswerStep ==
  ASSUME IInv, NEW n \in Nodes, client_msg_recvd(n)
  PROVE  Changes(n) /\ MsgInv'
BY KeyAnswers, ModelAnswers, NodeStatus DEF client_msg_recvd

\* A command adds one request.
LEMMA Sent ==
  ASSUME MsgInv, NEW n \in Nodes, NEW r \in Asked, config_send(n, r)
  PROVE  MsgInv'
<1>1. Append(reqs[n], r) \in Seq(KeyRequests \cup Requests)
  BY DEF MsgInv, Asked
<1> QED
  BY <1>1 DEF MsgInv, config_send

LEMMA CommandStep ==
  ASSUME IInv, NEW n \in Nodes, Command(n)
  PROVE  Changes(n) /\ MsgInv'
<1>1. ASSUME NEW i \in NetIdx, NEW op \in {"add", "delete"}, cmd_net_key(n, i, op)
      PROVE  Changes(n) /\ MsgInv'
  <2>1. Req(Topic("net", None, i), op, <<>>) \in Asked
    BY DEF Asked, KeyRequests
  <2>2. mem[n] # None /\ NetKeys(n, i, op) \in SUBSET NetIdx
    BY <1>1, KeyLists DEF IInv, cmd_net_key, config_send
  <2> QED
    BY <1>1, <2>1, <2>2, Sent, SaveNetStep DEF cmd_net_key, IInv
<1>2. ASSUME NEW i \in AppIdx, NEW op \in {"add", "delete"}, cmd_app_key(n, i, op)
      PROVE  Changes(n) /\ MsgInv'
  <2>1. Req(Topic("app", None, i), op, <<>>) \in Asked
    BY DEF Asked, KeyRequests
  <2>2. mem[n] # None /\ AppKeys(n, i, op) \in SUBSET AppIdx
    BY <1>2, KeyLists DEF IInv, cmd_app_key, config_send
  <2> QED
    BY <1>2, <2>1, <2>2, Sent, SaveAppStep DEF cmd_app_key, IInv
<1>3. ASSUME NEW r \in Requests, cmd_request(n, r)
      PROVE  Changes(n) /\ MsgInv'
  BY <1>3, Sent DEF cmd_request, IInv, Asked, Changes
<1> QED
  BY <1>1, <1>2, <1>3 DEF Command

\* What a node makes of a request: itself changed, or gone.
LEMMA Accepted ==
  ASSUME IInv, NEW n \in Nodes, reqs[n] # <<>>, NEW node \in Known \cup {None},
         NEW status \in Statuses, Accepts(n, node, status)
  PROVE  IInv'
<1>1. Head(reqs[n]) \in Asked /\ Tail(reqs[n]) \in Seq(KeyRequests \cup Requests)
  BY DEF IInv, MsgInv, Asked
<1>2. Ans(Head(reqs[n]), status, Echo(Head(reqs[n]))) \in Answers
  BY <1>1 DEF Answers, Asked
<1>3. Append(stats[n], Ans(Head(reqs[n]), status, Echo(Head(reqs[n])))) \in Seq(Answers)
  BY <1>2 DEF IInv, MsgInv
<1>4. MsgInv'
  BY <1>1, <1>3 DEF IInv, MsgInv, Accepts
<1> QED
  BY <1>4, MemSame DEF IInv, Accepts

LEMMA NodeStep ==
  ASSUME IInv, NEW n \in Nodes, NodeAnswers(n)
  PROVE  IInv'
<1> DEFINE r == Head(reqs[n])
           t == r.topic
           node == has[n]
<1>1. reqs[n] # <<>> /\ node \in Known /\ r \in Asked
  BY DEF NodeAnswers, IInv, MsgInv, Asked
<1> USE DEF Statuses
<1>2. CASE t.what = "net" /\ r.op = "add"
  <2>1. [node EXCEPT !.net = @ \cup {t.idx}] \in Known
    BY <1>1, <1>2, RequestFields DEF Known
  <2> QED
    BY <1>1, <1>2, <2>1, Accepted DEF NodeAnswers
<1>3. CASE t.what = "app" /\ r.op = "add"
  <2>1. [node EXCEPT !.app = @ \cup {t.idx}] \in Known
    BY <1>1, <1>3, RequestFields DEF Known
  <2> QED
    BY <1>1, <1>3, <2>1, Accepted DEF NodeAnswers
<1>4. CASE t.what = "app" /\ r.op = "delete"
  <2>1. [node EXCEPT !.app = @ \ {t.idx},
                     !.bind = [m \in Models |-> @[m] \ {t.idx}]] \in Known
    BY <1>1 DEF Known
  <2> QED
    BY <1>1, <1>4, <2>1, Accepted DEF NodeAnswers
<1>5. CASE t.what = "bind"
  <2>1. [node EXCEPT !.bind[t.model] = @ \cup {t.idx}] \in Known
    BY <1>1, <1>5, RequestFields DEF Known
  <2> QED
    BY <1>1, <1>5, <2>1, Accepted DEF NodeAnswers
<1>6. CASE t.what = "sub"
  <2>1. [node EXCEPT !.sub[t.model] = @ \cup {t.idx}] \in Known
    BY <1>1, <1>6, RequestFields DEF Known
  <2> QED
    BY <1>1, <1>6, <2>1, Accepted DEF NodeAnswers
<1>7. CASE t.what = "pub"
  <2>1. [node EXCEPT !.pub[t.model] = r.val] \in Known
    BY <1>1, <1>7, RequestFields DEF Known
  <2> QED
    BY <1>1, <1>7, <2>1, Accepted DEF NodeAnswers
<1>8. CASE t.what = "ttl"
  <2>1. [node EXCEPT !.ttl = r.val[1]] \in Known
    BY <1>1, <1>8, RequestFields DEF Known
  <2> QED
    BY <1>1, <1>8, <2>1, Accepted DEF NodeAnswers
<1>9. CASE t.what \in {"comp", "reset"}
  BY <1>1, <1>9, Accepted DEF NodeAnswers
<1>10. CASE t.what = "net" /\ r.op # "add"
  <2>1. reqs' = [reqs EXCEPT ![n] = Tail(@)] /\ UNCHANGED <<mem, db, has, stats, doubt>>
    BY <1>10 DEF NodeAnswers
  <2>2. Tail(reqs[n]) \in Seq(KeyRequests \cup Requests)
    BY <1>1 DEF IInv, MsgInv
  <2> QED
    BY <2>1, <2>2, MemSame DEF IInv, MsgInv
<1>11. CASE t.what = "app" /\ r.op \notin {"add", "delete"}
  <2>1. reqs' = [reqs EXCEPT ![n] = Tail(@)] /\ UNCHANGED <<mem, db, has, stats, doubt>>
    BY <1>11 DEF NodeAnswers
  <2>2. Tail(reqs[n]) \in Seq(KeyRequests \cup Requests)
    BY <1>1 DEF IInv, MsgInv
  <2> QED
    BY <2>1, <2>2, MemSame DEF IInv, MsgInv
<1>12. t.what \in {"net", "app", "bind", "sub", "pub", "ttl", "comp", "reset"}
  BY <1>1, RequestFields DEF Topics
<1> QED
  BY <1>2, <1>3, <1>4, <1>5, <1>6, <1>7, <1>8, <1>9, <1>10, <1>11, <1>12

LEMMA LoseStep ==
  ASSUME IInv, NEW n \in Nodes, Lose(n)
  PROVE  IInv'
<1>1. UNCHANGED <<mem, db, has>>
  BY DEF Lose
<1>2. ASSUME NEW i \in DOMAIN reqs[n],
             doubt' = [doubt EXCEPT ![n] = @ \cup Opens(reqs[n][i])],
             reqs' = [reqs EXCEPT ![n] = RemoveAt(@, i)], UNCHANGED stats
      PROVE  IInv'
  <2>1. reqs[n] \in Seq(Asked)
    BY DEF IInv, MsgInv, Asked
  <2>2. reqs[n][i] \in Asked /\ RemoveAt(reqs[n], i) \in Seq(Asked)
    BY <2>1, RemoveAtType
  <2>3. Opens(reqs[n][i]) \subseteq Topics
    BY <2>2, RequestFields DEF Opens
  <2> QED
    BY <1>1, <1>2, <2>2, <2>3, MemSame DEF IInv, MsgInv, Asked
<1>3. ASSUME NEW i \in DOMAIN stats[n],
             doubt' = [doubt EXCEPT ![n] = @ \cup Opens(stats[n][i])],
             stats' = [stats EXCEPT ![n] = RemoveAt(@, i)], UNCHANGED reqs
      PROVE  IInv'
  <2>1. stats[n] \in Seq(Answers)
    BY DEF IInv, MsgInv
  <2>2. stats[n][i] \in Answers /\ RemoveAt(stats[n], i) \in Seq(Answers)
    BY <2>1, RemoveAtType
  <2>3. Opens(stats[n][i]) \subseteq Topics
    BY <2>2, AnswerFields DEF Opens
  <2> QED
    BY <1>1, <1>3, <2>2, <2>3, MemSame DEF IInv, MsgInv
<1> QED
  BY <1>2, <1>3 DEF Lose

\* Provisioning and the start.
LEMMA ProgramStep ==
  ASSUME IInv, (\E n \in Nodes : mesh_prov_done(n)) \/ Restart
  PROVE  IInv'
<1>1. ASSUME NEW n \in Nodes, mesh_prov_done(n)
      PROVE  IInv'
  <2>1. MemInv'
    BY <1>1, NewPair, PairStep DEF mesh_prov_done, IInv
  <2>2. MsgInv'
    BY <1>1, NewTypes DEF mesh_prov_done, IInv, MsgInv
  <2> QED
    BY <2>1, <2>2 DEF IInv
<1>2. CASE Restart
  <2>1. \A n \in Nodes : db[n] # None => db[n] \in Entries /\ Pair(ReadNode(db[n]), db[n])
    BY ReadPair DEF IInv, MemInv
  <2>2. \A n \in Nodes : mem'[n] = IF db[n] = None THEN None ELSE ReadNode(db[n])
    BY <1>2 DEF Restart
  <2>3. mem' \in [Nodes -> Known \cup {None}]
    <3>1. \A n \in Nodes : db[n] # None => ReadNode(db[n]) \in Known
      BY <2>1 DEF Pair
    <3> QED
      BY <1>2, <3>1 DEF Restart
  <2>4. MemInv'
    BY <1>2, <2>1, <2>2, <2>3 DEF Restart, IInv, MemInv
  <2>5. MsgInv'
    BY <1>2 DEF Restart, IInv, MsgInv
  <2> QED
    BY <2>4, <2>5 DEF IInv
<1> QED
  BY <1>1, <1>2
-----------------------------------------------------------------------------
LEMMA InitEstablishes == Init => IInv
<1> SUFFICES ASSUME Init PROVE IInv
  OBVIOUS
<1>1. <<>> \in Seq(KeyRequests \cup Requests) /\ <<>> \in Seq(Answers)
  OBVIOUS
<1>2. TtlTopic \in Topics
  BY DEF TtlTopic, Topic, Topics
<1> QED
  BY <1>1, <1>2 DEF Init, IInv, MemInv, MsgInv

LEMMA StepPreserves ==
  ASSUME IInv, [Next]_vars
  PROVE  IInv'
<1>1. ASSUME NEW n \in Nodes, client_msg_recvd(n)
      PROVE  IInv'
  BY <1>1, AnswerStep, ChangesStep DEF IInv
<1>2. CASE UNCHANGED vars
  BY <1>2 DEF vars, IInv, MemInv, MsgInv
<1>3. ASSUME NEW n \in Nodes, Command(n)
      PROVE  IInv'
  BY <1>3, CommandStep, ChangesStep DEF IInv
<1> QED
  BY <1>1, <1>2, <1>3, ProgramStep, NodeStep, LoseStep DEF Next

-----------------------------------------------------------------------------
(* The application keys that the file has beyond memory, or without their    *)
(* net key, are keys whose net key was deleted.                              *)

Unbound(e) == {i \in e.app : Bound[i] \notin e.net}

OrphanInv ==
  /\ orphans \in [Nodes -> SUBSET AppIdx]
  /\ \A n \in Nodes : db[n] # None => Unbound(db[n]) \subseteq orphans[n]
  /\ \A n \in Nodes : mem[n] # None => db[n].app \ mem[n].app \subseteq orphans[n]

\* A step that leaves the keys of every node alone.
KeysSame(n) ==
  /\ UNCHANGED orphans
  /\ \A o \in Nodes \ {n} : mem'[o] = mem[o] /\ db'[o] = db[o]
  /\ db[n] = None => db'[n] = None
  /\ db[n] # None => db'[n].net = db[n].net /\ db'[n].app = db[n].app
  /\ mem'[n] # None => mem[n] # None /\ mem'[n].app = mem[n].app

LEMMA KeysSameStep ==
  ASSUME IInv, OrphanInv, NEW n \in Nodes, KeysSame(n)
  PROVE  OrphanInv'
<1>1. \A o \in Nodes : mem[o] # None => db[o] # None
  BY NoneAssumption DEF IInv, MemInv, Pair
<1>2. ASSUME NEW o \in Nodes, db'[o] # None PROVE Unbound(db'[o]) \subseteq orphans'[o]
  <2>1. db[o] # None /\ db'[o].net = db[o].net /\ db'[o].app = db[o].app
    BY <1>2 DEF KeysSame
  <2> QED
    BY <2>1 DEF OrphanInv, KeysSame, Unbound
<1>3. ASSUME NEW o \in Nodes, mem'[o] # None
      PROVE  db'[o].app \ mem'[o].app \subseteq orphans'[o]
  <2>1. mem[o] # None /\ mem'[o].app = mem[o].app /\ db'[o].app = db[o].app
    BY <1>1, <1>3 DEF KeysSame
  <2> QED
    BY <2>1 DEF OrphanInv, KeysSame
<1> QED
  BY <1>2, <1>3 DEF OrphanInv, KeysSame

\* A list of net keys is written: the keys it leaves without one are noted.
LEMMA SaveNetOrphans ==
  ASSUME IInv, OrphanInv, NEW n \in Nodes, mem[n] # None, NEW net \in SUBSET NetIdx,
         SaveNet(n, net)
  PROVE  OrphanInv'
<1>1. /\ mem[n] \in Known /\ db[n] \in Entries /\ db[n] # None
      /\ db[n].app \ mem[n].app \subseteq orphans[n]
  BY NoneAssumption DEF IInv, MemInv, Pair, OrphanInv
<1>2. CASE net = mem[n].net
  BY <1>2 DEF SaveNet, OrphanInv
<1>3. CASE net # mem[n].net
  <2> DEFINE new == {i \in mem[n].app : Bound[i] \notin net}
  <2>1. /\ mem' = [mem EXCEPT ![n] = [mem[n] EXCEPT !.net = net]]
        /\ db' = [db EXCEPT ![n] = [db[n] EXCEPT !.net = net]]
        /\ orphans' = [orphans EXCEPT ![n] = orphans[n] \cup new]
    BY <1>3 DEF SaveNet
  <2>2. /\ db'[n].net = net /\ db'[n].app = db[n].app /\ mem'[n].app = mem[n].app
        /\ \A o \in Nodes \ {n} : mem'[o] = mem[o] /\ db'[o] = db[o]
    BY <1>1, <2>1 DEF Known, Entries, IInv, MemInv
  <2>3. new \subseteq AppIdx
    BY <1>1 DEF Known
  <2>4. /\ orphans' \in [Nodes -> SUBSET AppIdx]
        /\ orphans'[n] = orphans[n] \cup new
        /\ \A o \in Nodes \ {n} : orphans'[o] = orphans[o]
    BY <2>1, <2>3 DEF OrphanInv
  <2>5. Unbound(db'[n]) \subseteq orphans'[n]
    BY <1>1, <2>2, <2>4 DEF Unbound
  <2>6. db'[n].app \ mem'[n].app \subseteq orphans'[n]
    BY <1>1, <2>2, <2>4
  <2> HIDE DEF new
  <2> QED
    BY <2>2, <2>4, <2>5, <2>6 DEF OrphanInv
<1> QED
  BY <1>2, <1>3

\* A list of application keys is written whole.
LEMMA SaveAppOrphans ==
  ASSUME IInv, OrphanInv, NEW n \in Nodes, mem[n] # None, NEW app \in SUBSET AppIdx,
         SaveApp(n, app)
  PROVE  OrphanInv'
<1>1. /\ mem[n] \in Known /\ db[n] \in Entries /\ db[n] # None
      /\ mem[n].net = db[n].net
  BY NoneAssumption DEF IInv, MemInv, Pair, Mirror
<1>2. CASE app = mem[n].app
  BY <1>2 DEF SaveApp, OrphanInv
<1>3. CASE app # mem[n].app
  <2> DEFINE new == {i \in app : Bound[i] \notin mem[n].net}
  <2>1. /\ mem' = [mem EXCEPT ![n] = [mem[n] EXCEPT !.app = app]]
        /\ db' = [db EXCEPT ![n] = [db[n] EXCEPT !.app = app]]
        /\ orphans' = [orphans EXCEPT ![n] = new]
    BY <1>3 DEF SaveApp
  <2>2. /\ db'[n].net = mem[n].net /\ db'[n].app = app /\ mem'[n].app = app
        /\ \A o \in Nodes \ {n} : mem'[o] = mem[o] /\ db'[o] = db[o]
    BY <1>1, <2>1 DEF Known, Entries, IInv, MemInv
  <2>3. /\ orphans' \in [Nodes -> SUBSET AppIdx] /\ orphans'[n] = new
        /\ \A o \in Nodes \ {n} : orphans'[o] = orphans[o]
    BY <2>1 DEF OrphanInv
  <2>4. Unbound(db'[n]) \subseteq orphans'[n]
    BY <2>2, <2>3 DEF Unbound
  <2>5. db'[n].app \ mem'[n].app \subseteq orphans'[n]
    BY <2>2
  <2> HIDE DEF new
  <2> QED
    BY <2>2, <2>3, <2>4, <2>5 DEF OrphanInv
<1> QED
  BY <1>2, <1>3

LEMMA CommandOrphans ==
  ASSUME IInv, OrphanInv, NEW n \in Nodes, Command(n)
  PROVE  OrphanInv'
<1>1. ASSUME NEW i \in NetIdx, NEW op \in {"add", "delete"}, cmd_net_key(n, i, op)
      PROVE  OrphanInv'
  <2>1. mem[n] # None /\ NetKeys(n, i, op) \in SUBSET NetIdx
    BY <1>1, KeyLists DEF IInv, cmd_net_key, config_send
  <2> QED
    BY <1>1, <2>1, SaveNetOrphans DEF cmd_net_key
<1>2. ASSUME NEW i \in AppIdx, NEW op \in {"add", "delete"}, cmd_app_key(n, i, op)
      PROVE  OrphanInv'
  <2>1. mem[n] # None /\ AppKeys(n, i, op) \in SUBSET AppIdx
    BY <1>2, KeyLists DEF IInv, cmd_app_key, config_send
  <2> QED
    BY <1>2, <2>1, SaveAppOrphans DEF cmd_app_key
<1>3. ASSUME NEW r \in Requests, cmd_request(n, r)
      PROVE  OrphanInv'
  BY <1>3 DEF cmd_request, OrphanInv
<1> QED
  BY <1>1, <1>2, <1>3 DEF Command

LEMMA AnswerOrphans ==
  ASSUME IInv, OrphanInv, NEW n \in Nodes, client_msg_recvd(n)
  PROVE  OrphanInv'
<1> DEFINE m == Rx(n).topic.model
           i == Rx(n).topic.idx
<1>1. mem[n] # None => mem[n] \in Known /\ db[n] \in Entries /\ db[n] # None
  BY NoneAssumption DEF IInv, MemInv, Pair
<1>2. CASE UNCHANGED <<mem, db, orphans>>
  BY <1>2 DEF OrphanInv
<1>3. ASSUME mem[n] # None, NEW k, NEW e, mem' = [mem EXCEPT ![n] = k],
             db' = [db EXCEPT ![n] = e], UNCHANGED orphans,
             e.net = db[n].net, e.app = db[n].app, k.app = mem[n].app
      PROVE  OrphanInv'
  <2>1. KeysSame(n)
    BY <1>1, <1>3 DEF KeysSame, IInv, MemInv
  <2> QED
    BY <2>1, KeysSameStep
<1>4. CASE OP_NETKEY_STATUS(n)
  <2>1. i \in NetIdx
    BY <1>4, Received, AnswerFields DEF OP_NETKEY_STATUS
  <2>2. CASE mem[n] # None /\ SaveNet(n, NetKeys(n, i, "delete"))
    <3>1. NetKeys(n, i, "delete") \in SUBSET NetIdx
      BY <2>1, <2>2, KeyLists DEF IInv
    <3> QED
      BY <2>2, <3>1, SaveNetOrphans
  <2> QED
    BY <1>2, <1>4, <2>2 DEF OP_NETKEY_STATUS, Unknown
<1>5. CASE OP_APPKEY_STATUS(n)
  <2>1. i \in AppIdx
    BY <1>5, Received, AnswerFields DEF OP_APPKEY_STATUS
  <2>2. CASE mem[n] # None /\ SaveApp(n, AppKeys(n, i, "delete"))
    <3>1. AppKeys(n, i, "delete") \in SUBSET AppIdx
      BY <2>1, <2>2, KeyLists DEF IInv
    <3> QED
      BY <2>2, <3>1, SaveAppOrphans
  <2> QED
    BY <1>2, <1>5, <2>2 DEF OP_APPKEY_STATUS, Unknown
<1>6. CASE OP_MODEL_APP_STATUS(n)
  <2>1. CASE /\ mem[n] # None /\ UNCHANGED orphans
             /\ mem' = [mem EXCEPT ![n].bind[m] = @ \cup {i}]
             /\ db' = [db EXCEPT ![n] = prov_db_add_binding(@, m, i)]
    <3> DEFINE k == [mem[n] EXCEPT !.bind[m] = @ \cup {i}]
               e == [db[n] EXCEPT !.bind[m] = Append(@, i)]
    <3>1. mem' = [mem EXCEPT ![n] = k] /\ db' = [db EXCEPT ![n] = e]
      BY <2>1 DEF prov_db_add_binding
    <3>2. e.net = db[n].net /\ e.app = db[n].app /\ k.app = mem[n].app
      BY <1>1, <2>1 DEF Known, Entries
    <3> HIDE DEF k, e
    <3> QED
      BY <1>3, <2>1, <3>1, <3>2
  <2> QED
    BY <1>2, <1>6, <2>1 DEF OP_MODEL_APP_STATUS, Unknown
<1>7. CASE OP_CONFIG_MODEL_SUB_STATUS(n)
  <2>1. CASE /\ mem[n] # None /\ UNCHANGED orphans
             /\ mem' = [mem EXCEPT ![n].sub[m] = @ \cup {i}]
             /\ db' = [db EXCEPT ![n] = prov_db_add_subscription(@, m, i)]
    <3> DEFINE k == [mem[n] EXCEPT !.sub[m] = @ \cup {i}]
               e == [db[n] EXCEPT !.sub[m] = Append(@, i)]
    <3>1. mem' = [mem EXCEPT ![n] = k] /\ db' = [db EXCEPT ![n] = e]
      BY <2>1 DEF prov_db_add_subscription
    <3>2. e.net = db[n].net /\ e.app = db[n].app /\ k.app = mem[n].app
      BY <1>1, <2>1 DEF Known, Entries
    <3> HIDE DEF k, e
    <3> QED
      BY <1>3, <2>1, <3>1, <3>2
  <2> QED
    BY <1>2, <1>7, <2>1 DEF OP_CONFIG_MODEL_SUB_STATUS, Unknown
<1>8. CASE OP_CONFIG_MODEL_PUB_STATUS(n)
  <2>1. CASE /\ mem[n] # None /\ UNCHANGED orphans
             /\ mem' = [mem EXCEPT ![n].pub[m] = Rx(n).val]
             /\ db' = [db EXCEPT ![n].pub[m] = SavedPub(n, m)]
    <3> DEFINE k == [mem[n] EXCEPT !.pub[m] = Rx(n).val]
               e == [db[n] EXCEPT !.pub[m] = SavedPub(n, m)]
    <3>1. mem' = [mem EXCEPT ![n] = k] /\ db' = [db EXCEPT ![n] = e]
      BY <2>1
    <3>2. e.net = db[n].net /\ e.app = db[n].app /\ k.app = mem[n].app
      BY <1>1, <2>1 DEF Known, Entries
    <3> HIDE DEF k, e
    <3> QED
      BY <1>3, <2>1, <3>1, <3>2
  <2> QED
    BY <1>2, <1>8, <2>1 DEF OP_CONFIG_MODEL_PUB_STATUS, Unknown
<1>9. CASE OP_CONFIG_DEFAULT_TTL_STATUS(n)
  <2>1. CASE /\ mem[n] # None /\ UNCHANGED orphans
             /\ mem' = [mem EXCEPT ![n].ttl = Rx(n).val[1]]
             /\ db' = [db EXCEPT ![n] = prov_db_node_set_ttl(@, Rx(n).val[1])]
    <3> DEFINE k == [mem[n] EXCEPT !.ttl = Rx(n).val[1]]
               e == [db[n] EXCEPT !.ttl = Rx(n).val[1]]
    <3>1. mem' = [mem EXCEPT ![n] = k] /\ db' = [db EXCEPT ![n] = e]
      BY <2>1 DEF prov_db_node_set_ttl
    <3>2. e.net = db[n].net /\ e.app = db[n].app /\ k.app = mem[n].app
      BY <1>1, <2>1 DEF Known, Entries
    <3> HIDE DEF k, e
    <3> QED
      BY <1>3, <2>1, <3>1, <3>2
  <2> QED
    BY <1>2, <1>9, <2>1 DEF OP_CONFIG_DEFAULT_TTL_STATUS, Unknown
<1>10. CASE OP_DEV_COMP_STATUS(n)
  <2> DEFINE lpn == Rx(n).val[1] = 1
  <2>1. CASE /\ mem[n] # None /\ UNCHANGED orphans
             /\ mem' = [mem EXCEPT ![n] = node_parse_composition(@, lpn)]
             /\ db' = [db EXCEPT ![n] = prov_db_add_node_composition(@, lpn)]
    <3> DEFINE k == [mem[n] EXCEPT !.comp = TRUE, !.lpn = lpn]
               e == [db[n] EXCEPT !.comp = TRUE, !.lpn = lpn]
    <3>1. mem' = [mem EXCEPT ![n] = k] /\ db' = [db EXCEPT ![n] = e]
      BY <2>1 DEF node_parse_composition, prov_db_add_node_composition
    <3>2. e.net = db[n].net /\ e.app = db[n].app /\ k.app = mem[n].app
      BY <1>1, <2>1 DEF Known, Entries
    <3> HIDE DEF k, e
    <3> QED
      BY <1>3, <2>1, <3>1, <3>2
  <2> QED
    BY <1>2, <1>10, <2>1 DEF OP_DEV_COMP_STATUS, Unknown
<1>11. CASE OP_NODE_RESET_STATUS(n)
  <2>1. CASE mem' = [mem EXCEPT ![n] = None] /\ UNCHANGED <<db, orphans>>
    BY <2>1 DEF OrphanInv, IInv, MemInv
  <2> QED
    BY <1>2, <1>11, <2>1 DEF OP_NODE_RESET_STATUS, Unknown
<1> QED
  BY <1>4, <1>5, <1>6, <1>7, <1>8, <1>9, <1>10, <1>11 DEF client_msg_recvd

LEMMA ProgramOrphans ==
  ASSUME IInv, OrphanInv, (\E n \in Nodes : mesh_prov_done(n)) \/ Restart
  PROVE  OrphanInv'
<1>1. ASSUME NEW n \in Nodes, mesh_prov_done(n) PROVE OrphanInv'
  <2>1. /\ mem' = [mem EXCEPT ![n] = NewNode] /\ db' = [db EXCEPT ![n] = NewEntry]
        /\ UNCHANGED orphans
    BY <1>1 DEF mesh_prov_done
  <2>2. NewEntry.app = {}
    BY DEF NewEntry, NewNode
  <2> QED
    BY <2>1, <2>2 DEF OrphanInv, IInv, MemInv, Unbound
<1>2. CASE Restart
  <2>1. UNCHANGED <<db, orphans>>
    BY <1>2 DEF Restart
  <2>2. ASSUME NEW n \in Nodes, mem'[n] # None
        PROVE  db'[n].app \ mem'[n].app \subseteq orphans'[n]
    <3>1. db[n] # None /\ mem'[n] = ReadNode(db[n])
      BY <1>2, <2>2 DEF Restart
    <3>2. db[n] \in Entries
      BY <3>1 DEF IInv, MemInv
    <3>3. ReadNode(db[n]).app = {i \in db[n].app : Bound[i] \in db[n].net}
      BY <3>2, ReadType DEF ReadNode, Entries
    <3> QED
      BY <2>1, <3>1, <3>3 DEF OrphanInv, Unbound
  <2> QED
    BY <2>1, <2>2 DEF OrphanInv
<1> QED
  BY <1>1, <1>2

LEMMA OrphansHold == Spec => [](IInv /\ OrphanInv)
<1>1. Init => IInv /\ OrphanInv
  <2> SUFFICES ASSUME Init PROVE OrphanInv
    BY InitEstablishes
  <2> QED
    BY DEF Init, OrphanInv
<1>2. IInv /\ OrphanInv /\ [Next]_vars => IInv' /\ OrphanInv'
  <2> SUFFICES ASSUME IInv, OrphanInv, [Next]_vars PROVE OrphanInv'
    BY StepPreserves
  <2>1. ASSUME UNCHANGED <<mem, db, orphans>> PROVE OrphanInv'
    BY <2>1 DEF OrphanInv
  <2>2. ASSUME NEW n \in Nodes, NodeAnswers(n) PROVE OrphanInv'
    BY <2>1, <2>2 DEF NodeAnswers, Accepts
  <2>3. ASSUME NEW n \in Nodes, Lose(n) PROVE OrphanInv'
    BY <2>1, <2>3 DEF Lose
  <2>4. CASE UNCHANGED vars
    BY <2>1, <2>4 DEF vars
  <2> QED
    BY <2>2, <2>3, <2>4, CommandOrphans, AnswerOrphans, ProgramOrphans DEF Next
<1> QED
  BY <1>1, <1>2, PTL DEF Spec

(* The type invariant, whatever the user does (Env): a node in memory has an *)
(* entry in the file, and an answer carries what its handler reads.          *)
THEOREM TypeCorrect == Spec => []TypeOK
<1>1. IInv /\ OrphanInv => TypeOK
  <2>1. ASSUME IInv, NEW n \in Nodes, mem[n] # None PROVE db[n] # None
    BY <2>1, NoneAssumption DEF IInv, MemInv, Pair
  <2> QED
    BY <2>1 DEF IInv, MemInv, MsgInv, OrphanInv, TypeOK
<1> QED
  BY <1>1, OrphansHold, PTL

(* A start at any moment brings back the node that memory holds (parse_node  *)
(* against every writer of the file), whatever the user does: all of its     *)
(* keys, no others but those whose net key was deleted under them, and the   *)
(* configuration of its models.  The low power feature is not part of it.    *)
THEOREM RestartsSame == Spec => []RestartSame
<1>1. IInv /\ OrphanInv => RestartSame
  <2> SUFFICES ASSUME IInv, OrphanInv, NEW n \in Nodes, mem[n] # None
               PROVE  /\ Kept(mem[n]).app \subseteq ReadNode(db[n]).app
                      /\ ReadNode(db[n]).app \ Kept(mem[n]).app \subseteq orphans[n]
                      /\ ReadNode(db[n]) =
                           [Kept(mem[n]) EXCEPT !.app = ReadNode(db[n]).app,
                                                !.lpn = ReadNode(db[n]).lpn]
    BY DEF RestartSame
  <2> DEFINE k == mem[n]
             e == db[n]
  <2>1. k \in Known /\ e \in Entries /\ Mirror(k, e)
    BY DEF IInv, MemInv, Pair
  <2>2. /\ ReadNode(e).net = e.net
        /\ ReadNode(e).app = {i \in e.app : Bound[i] \in e.net}
        /\ ReadNode(e).comp = e.comp /\ ReadNode(e).ttl = e.ttl
        /\ ReadNode(e).bind = [m \in Models |-> ToSet(e.bind[m])]
        /\ ReadNode(e).sub = [m \in Models |-> ToSet(e.sub[m])]
        /\ ReadNode(e).pub = [m \in Models |-> WithoutPeriod(e.pub[m])]
    BY <2>1, ReadType DEF ReadNode, Entries
  <2>3. Kept(k).app = {i \in k.app : Bound[i] \in k.net}
    BY <2>1 DEF Kept, Known
  <2>4. Kept(k).app \subseteq ReadNode(e).app
    BY <2>1, <2>2, <2>3 DEF Mirror
  <2>5. ReadNode(e).app \ Kept(k).app \subseteq orphans[n]
    <3>1. e.app \ k.app \subseteq orphans[n]
      BY DEF OrphanInv
    <3> QED
      BY <2>1, <2>2, <2>3, <3>1 DEF Mirror
  <2>6. ReadNode(e) \in Known
    BY <2>1, ReadType
  <2>7. /\ ReadNode(e).net = k.net /\ ReadNode(e).comp = k.comp
        /\ ReadNode(e).ttl = k.ttl /\ ReadNode(e).bind = k.bind
        /\ ReadNode(e).sub = k.sub
        /\ ReadNode(e).pub = [m \in Models |-> WithoutPeriod(k.pub[m])]
    BY <2>1, <2>2 DEF Mirror, Known
  <2>8. ReadNode(e) = [Kept(k) EXCEPT !.app = ReadNode(e).app, !.lpn = ReadNode(e).lpn]
    BY <2>1, <2>6, <2>7 DEF Kept, Known
  <2> QED
    BY <2>4, <2>5, <2>8
<1> QED
  BY <1>1, OrphansHold, PTL
-----------------------------------------------------------------------------
(* No entry loses its last net key, as long as none is deleted by command. *)

\* A node never refuses a key it has.
FairAnswers ==
  {a \in Answers : a.topic.what = "net" /\ a.topic.idx = PrimaryNet => a.status # "OTHER"}

\* A node, and so its entry, always has the primary net key.
NetInv ==
  /\ \A n \in Nodes : db[n] # None => PrimaryNet \in db[n].net
  /\ \A n \in Nodes : has[n] # None => PrimaryNet \in has[n].net
  /\ stats \in [Nodes -> Seq(FairAnswers)]

\* A command about a net key adds one.
LEMMA NetCommands ==
  ASSUME "netdel" \notin Env, IInv, NetInv, NEW n \in Nodes, Command(n)
  PROVE  NetInv'
<1>1. mem[n] # None /\ UNCHANGED <<has, stats>>
  BY DEF Command, cmd_net_key, cmd_app_key, cmd_request, config_send
<1>2. db[n] \in Entries /\ mem[n] \in Known /\ mem[n].net = db[n].net /\ db[n] # None
  BY <1>1, NoneAssumption DEF IInv, MemInv, Pair, Mirror
<1>3. \A o \in Nodes : db'[o] # None => PrimaryNet \in db'[o].net
  <2>1. ASSUME NEW i \in NetIdx, NEW op \in {"add", "delete"}, cmd_net_key(n, i, op)
        PROVE  \A o \in Nodes : db'[o] # None => PrimaryNet \in db'[o].net
    <3>1. NetKeys(n, i, op) = mem[n].net \cup {i}
      BY <2>1 DEF cmd_net_key, NetKeys
    <3>2. PrimaryNet \in NetKeys(n, i, op)
      BY <1>2, <3>1 DEF NetInv
    <3>3. CASE UNCHANGED db
      BY <3>3 DEF NetInv
    <3>4. CASE db' = [db EXCEPT ![n].net = NetKeys(n, i, op)]
      BY <1>2, <3>2, <3>4 DEF NetInv, IInv, MemInv, Entries
    <3> QED
      BY <2>1, <3>3, <3>4 DEF cmd_net_key, SaveNet
  <2>2. ASSUME NEW i \in AppIdx, NEW op \in {"add", "delete"}, cmd_app_key(n, i, op)
        PROVE  \A o \in Nodes : db'[o] # None => PrimaryNet \in db'[o].net
    <3>1. CASE UNCHANGED db
      BY <3>1 DEF NetInv
    <3>2. CASE db' = [db EXCEPT ![n].app = AppKeys(n, i, op)]
      BY <1>2, <3>2 DEF NetInv, IInv, MemInv, Entries
    <3> QED
      BY <2>2, <3>1, <3>2 DEF cmd_app_key, SaveApp
  <2>3. ASSUME NEW r \in Requests, cmd_request(n, r)
        PROVE  \A o \in Nodes : db'[o] # None => PrimaryNet \in db'[o].net
    BY <2>3 DEF cmd_request, NetInv
  <2> QED
    BY <2>1, <2>2, <2>3 DEF Command
<1> QED
  BY <1>1, <1>3 DEF NetInv

\* A refusal takes back another key than the primary one.
LEMMA NetReceived ==
  ASSUME IInv, NetInv, NEW n \in Nodes, client_msg_recvd(n)
  PROVE  NetInv'
<1>1. UNCHANGED has
  BY DEF client_msg_recvd, Receives, OP_NETKEY_STATUS, OP_APPKEY_STATUS,
         OP_MODEL_APP_STATUS, OP_CONFIG_MODEL_SUB_STATUS, OP_CONFIG_MODEL_PUB_STATUS,
         OP_CONFIG_DEFAULT_TTL_STATUS, OP_DEV_COMP_STATUS, OP_NODE_RESET_STATUS
<1>2. stats[n] # <<>> /\ stats' = [stats EXCEPT ![n] = Tail(@)]
  BY DEF client_msg_recvd, Receives, OP_NETKEY_STATUS, OP_APPKEY_STATUS,
         OP_MODEL_APP_STATUS, OP_CONFIG_MODEL_SUB_STATUS, OP_CONFIG_MODEL_PUB_STATUS,
         OP_CONFIG_DEFAULT_TTL_STATUS, OP_DEV_COMP_STATUS, OP_NODE_RESET_STATUS
<1>3. stats[n] \in Seq(FairAnswers)
  BY DEF NetInv
<1>4. Rx(n) \in FairAnswers /\ Tail(stats[n]) \in Seq(FairAnswers)
  BY <1>2, <1>3 DEF Rx
<1>5. stats' \in [Nodes -> Seq(FairAnswers)]
  BY <1>2, <1>4 DEF NetInv
<1>6. \A o \in Nodes : db'[o] # None => PrimaryNet \in db'[o].net
  <2>1. CASE UNCHANGED db
    BY <2>1 DEF NetInv
  <2>2. CASE /\ OP_NETKEY_STATUS(n) /\ mem[n] # None /\ Refused(n)
             /\ db' = [db EXCEPT ![n].net = NetKeys(n, Rx(n).topic.idx, "delete")]
    <3>1. Rx(n).topic.what = "net" /\ Rx(n).status \in Statuses
      BY <2>2, Received, AnswerFields DEF OP_NETKEY_STATUS
    <3>2. Rx(n).status = "OTHER"
      BY <2>2, <3>1 DEF Refused, Statuses
    <3>3. Rx(n).topic.idx # PrimaryNet
      BY <1>4, <3>1, <3>2 DEF FairAnswers
    <3>4. db[n] \in Entries /\ mem[n].net = db[n].net /\ db[n] # None
      BY <2>2, NoneAssumption DEF IInv, MemInv, Pair, Mirror
    <3>5. PrimaryNet \in NetKeys(n, Rx(n).topic.idx, "delete")
      BY <3>3, <3>4 DEF NetInv, NetKeys
    <3> QED
      BY <2>2, <3>4, <3>5 DEF NetInv, IInv, MemInv, Entries
  <2>3. CASE mem[n] # None /\ \E e : db' = [db EXCEPT ![n] = e] /\ e.net = db[n].net
    <3>1. db[n] # None
      BY <2>3, NoneAssumption DEF IInv, MemInv, Pair
    <3> QED
      BY <2>3, <3>1 DEF NetInv, IInv, MemInv
  <2>4. mem[n] # None => db[n] \in Entries
    BY DEF IInv, MemInv, Pair
  <2>5. CASE OP_NETKEY_STATUS(n)
    BY <2>1, <2>2, <2>5 DEF OP_NETKEY_STATUS, SaveNet, Unknown
  <2>6. CASE OP_APPKEY_STATUS(n)
    <3>1. CASE mem[n] # None /\ db' = [db EXCEPT ![n].app = AppKeys(n, Rx(n).topic.idx, "delete")]
      <4> DEFINE e == [db[n] EXCEPT !.app = AppKeys(n, Rx(n).topic.idx, "delete")]
      <4>1. db' = [db EXCEPT ![n] = e] /\ e.net = db[n].net
        BY <3>1, <2>4 DEF Entries
      <4> QED
        BY <2>3, <3>1, <4>1
    <3> QED
      BY <2>1, <2>6, <3>1 DEF OP_APPKEY_STATUS, SaveApp, Unknown
  <2>7. CASE OP_MODEL_APP_STATUS(n)
    <3> DEFINE e == prov_db_add_binding(db[n], Rx(n).topic.model, Rx(n).topic.idx)
    <3>1. CASE mem[n] # None /\ db' = [db EXCEPT ![n] = e]
      <4>1. e.net = db[n].net
        BY <3>1, <2>4 DEF Entries, prov_db_add_binding
      <4> QED
        BY <2>3, <3>1, <4>1
    <3> QED
      BY <2>1, <2>7, <3>1 DEF OP_MODEL_APP_STATUS, Unknown
  <2>8. CASE OP_CONFIG_MODEL_SUB_STATUS(n)
    <3> DEFINE e == prov_db_add_subscription(db[n], Rx(n).topic.model, Rx(n).topic.idx)
    <3>1. CASE mem[n] # None /\ db' = [db EXCEPT ![n] = e]
      <4>1. e.net = db[n].net
        BY <3>1, <2>4 DEF Entries, prov_db_add_subscription
      <4> QED
        BY <2>3, <3>1, <4>1
    <3> QED
      BY <2>1, <2>8, <3>1 DEF OP_CONFIG_MODEL_SUB_STATUS, Unknown
  <2>9. CASE OP_CONFIG_MODEL_PUB_STATUS(n)
    <3> DEFINE m == Rx(n).topic.model
               e == [db[n] EXCEPT !.pub[m] = SavedPub(n, m)]
    <3>1. CASE mem[n] # None /\ db' = [db EXCEPT ![n].pub[m] = SavedPub(n, m)]
      <4>1. db' = [db EXCEPT ![n] = e] /\ e.net = db[n].net
        BY <3>1, <2>4 DEF Entries
      <4> QED
        BY <2>3, <3>1, <4>1
    <3> QED
      BY <2>1, <2>9, <3>1 DEF OP_CONFIG_MODEL_PUB_STATUS, Unknown
  <2>10. CASE OP_CONFIG_DEFAULT_TTL_STATUS(n)
    <3> DEFINE e == prov_db_node_set_ttl(db[n], Rx(n).val[1])
    <3>1. CASE mem[n] # None /\ db' = [db EXCEPT ![n] = e]
      <4>1. e.net = db[n].net
        BY <3>1, <2>4 DEF Entries, prov_db_node_set_ttl
      <4> QED
        BY <2>3, <3>1, <4>1
    <3> QED
      BY <2>1, <2>10, <3>1 DEF OP_CONFIG_DEFAULT_TTL_STATUS, Unknown
  <2>11. CASE OP_DEV_COMP_STATUS(n)
    <3> DEFINE e == prov_db_add_node_composition(db[n], Rx(n).val[1] = 1)
    <3>1. CASE mem[n] # None /\ db' = [db EXCEPT ![n] = e]
      <4>1. e.net = db[n].net
        BY <3>1, <2>4 DEF Entries, prov_db_add_node_composition
      <4> QED
        BY <2>3, <3>1, <4>1
    <3> QED
      BY <2>1, <2>11, <3>1 DEF OP_DEV_COMP_STATUS, Unknown
  <2>12. CASE OP_NODE_RESET_STATUS(n)
    BY <2>1, <2>12 DEF OP_NODE_RESET_STATUS, Unknown
  <2> QED
    BY <2>5, <2>6, <2>7, <2>8, <2>9, <2>10, <2>11, <2>12 DEF client_msg_recvd
<1> QED
  BY <1>1, <1>5, <1>6 DEF NetInv

\* A node gives up no net key, and refuses none that it has.
LEMMA NetAnswers ==
  ASSUME IInv, NetInv, NEW n \in Nodes, NodeAnswers(n)
  PROVE  NetInv'
<1> DEFINE r == Head(reqs[n])
           t == r.topic
           node == has[n]
<1>1. reqs[n] # <<>> /\ node # None /\ node \in Known /\ r \in Asked
  BY DEF NodeAnswers, IInv, MsgInv, Asked
<1>2. UNCHANGED db
  BY DEF NodeAnswers, Accepts
<1>3. PrimaryNet \in node.net
  BY <1>1 DEF NetInv
<1>4. ASSUME NEW k, NEW status \in Statuses, Accepts(n, k, status),
             k # None => PrimaryNet \in k.net,
             t.what = "net" /\ t.idx = PrimaryNet => status # "OTHER"
      PROVE  NetInv'
  <2> DEFINE a == Ans(r, status, Echo(r))
  <2>1. a \in Answers /\ a.topic = t /\ a.status = status
    BY <1>1 DEF Answers, Asked, Ans
  <2>2. a \in FairAnswers
    BY <1>4, <2>1 DEF FairAnswers
  <2>3. Append(stats[n], a) \in Seq(FairAnswers)
    BY <2>2 DEF NetInv
  <2>4. stats' \in [Nodes -> Seq(FairAnswers)]
    BY <1>4, <2>3 DEF NetInv, Accepts
  <2>5. \A o \in Nodes : has'[o] # None => PrimaryNet \in has'[o].net
    BY <1>4 DEF NetInv, Accepts, IInv, MsgInv
  <2> QED
    BY <1>2, <2>4, <2>5 DEF NetInv
<1> USE DEF Statuses
<1>5. CASE t.what = "net" /\ r.op = "add"
  <2>1. PrimaryNet \in [node EXCEPT !.net = @ \cup {t.idx}].net
    BY <1>1, <1>3 DEF Known
  <2>2. CASE t.idx \in node.net
    BY <1>3, <1>4, <1>5, <2>2 DEF NodeAnswers
  <2>3. CASE t.idx \notin node.net
    BY <1>3, <1>4, <1>5, <2>1, <2>3 DEF NodeAnswers
  <2> QED
    BY <2>2, <2>3
<1>6. CASE t.what = "app" /\ r.op = "add"
  <2>1. PrimaryNet \in [node EXCEPT !.app = @ \cup {t.idx}].net
    BY <1>1, <1>3 DEF Known
  <2> QED
    BY <1>3, <1>4, <1>6, <2>1 DEF NodeAnswers
<1>7. CASE t.what = "app" /\ r.op = "delete"
  <2>1. PrimaryNet \in [node EXCEPT !.app = @ \ {t.idx},
                           !.bind = [m \in Models |-> @[m] \ {t.idx}]].net
    BY <1>1, <1>3 DEF Known
  <2> QED
    BY <1>4, <1>7, <2>1 DEF NodeAnswers
<1>8. CASE t.what = "bind"
  <2>1. PrimaryNet \in [node EXCEPT !.bind[t.model] = @ \cup {t.idx}].net
    BY <1>1, <1>3 DEF Known
  <2> QED
    BY <1>3, <1>4, <1>8, <2>1 DEF NodeAnswers
<1>9. CASE t.what = "sub"
  <2>1. PrimaryNet \in [node EXCEPT !.sub[t.model] = @ \cup {t.idx}].net
    BY <1>1, <1>3 DEF Known
  <2> QED
    BY <1>3, <1>4, <1>9, <2>1 DEF NodeAnswers
<1>10. CASE t.what = "pub"
  <2>1. PrimaryNet \in [node EXCEPT !.pub[t.model] = r.val].net
    BY <1>1, <1>3 DEF Known
  <2> QED
    BY <1>3, <1>4, <1>10, <2>1 DEF NodeAnswers
<1>11. CASE t.what = "ttl"
  <2>1. PrimaryNet \in [node EXCEPT !.ttl = r.val[1]].net
    BY <1>1, <1>3 DEF Known
  <2> QED
    BY <1>4, <1>11, <2>1 DEF NodeAnswers
<1>12. CASE t.what \in {"comp", "reset"}
  BY <1>3, <1>4, <1>12 DEF NodeAnswers
<1>13. CASE \/ t.what = "net" /\ r.op # "add"
            \/ t.what = "app" /\ r.op \notin {"add", "delete"}
  <2>1. UNCHANGED <<has, stats>>
    BY <1>13 DEF NodeAnswers
  <2> QED
    BY <1>2, <2>1 DEF NetInv
<1>14. t.what \in {"net", "app", "bind", "sub", "pub", "ttl", "comp", "reset"}
  BY <1>1, RequestFields DEF Topics
<1> QED
  BY <1>5, <1>6, <1>7, <1>8, <1>9, <1>10, <1>11, <1>12, <1>13, <1>14

LEMMA NetOthers ==
  ASSUME IInv, NetInv,
         \/ \E n \in Nodes : mesh_prov_done(n) \/ Lose(n)
         \/ Restart
         \/ UNCHANGED vars
  PROVE  NetInv'
<1>1. ASSUME NEW n \in Nodes, mesh_prov_done(n) PROVE NetInv'
  <2>1. PrimaryNet \in NewEntry.net /\ PrimaryNet \in NewDevice.net
    BY DEF NewEntry, NewDevice, NewNode
  <2> QED
    BY <1>1, <2>1 DEF mesh_prov_done, NetInv, IInv, MemInv, MsgInv
<1>2. ASSUME NEW n \in Nodes, Lose(n) PROVE NetInv'
  <2>1. UNCHANGED <<db, has>>
    BY <1>2 DEF Lose
  <2>2. \A i \in DOMAIN stats[n] : RemoveAt(stats[n], i) \in Seq(FairAnswers)
    BY RemoveAtType DEF NetInv
  <2>3. stats' \in [Nodes -> Seq(FairAnswers)]
    BY <1>2, <2>2 DEF Lose, NetInv
  <2> QED
    BY <2>1, <2>3 DEF NetInv
<1>3. CASE Restart \/ UNCHANGED vars
  BY <1>3 DEF Restart, vars, NetInv
<1> QED
  BY <1>1, <1>2, <1>3

(* As long as no net key is deleted by command, the next start can read the  *)
(* file, whatever was lost, refused or repeated before (parse_node, and the  *)
(* refusals that take keys back in client_msg_recvd).                        *)
THEOREM StartsPossible == ("netdel" \notin Env /\ Spec) => []StartPossible
<1> SUFFICES ASSUME "netdel" \notin Env PROVE Spec => []StartPossible
  OBVIOUS
<1>1. Init => IInv /\ NetInv
  <2> SUFFICES ASSUME Init PROVE NetInv
    BY InitEstablishes
  <2>1. <<>> \in Seq(FairAnswers)
    OBVIOUS
  <2> QED
    BY <2>1 DEF Init, NetInv
<1>2. IInv /\ NetInv /\ [Next]_vars => IInv' /\ NetInv'
  <2> SUFFICES ASSUME IInv, NetInv, [Next]_vars PROVE NetInv'
    BY StepPreserves
  <2> QED
    BY NetCommands, NetReceived, NetAnswers, NetOthers DEF Next
<1>3. IInv /\ NetInv => StartPossible
  BY DEF IInv, MemInv, NetInv, StartPossible, Readable, Sound
<1> QED
  BY <1>1, <1>2, <1>3, PTL DEF Spec
-----------------------------------------------------------------------------
(* The program and a node agree, when the commands are given in order. *)

\* A sequence of messages has one about each topic.
Once(s) == \A i, j \in DOMAIN s : s[i].topic = s[j].topic => i = j

\* What is known of program k and node h whatever is on its way: the program has
\* the net keys of the node, and an application key has its net key there.
Base(k, h) ==
  /\ h.net \subseteq k.net
  /\ \A i \in h.app \cup k.app : Bound[i] \in h.net
  /\ \A m \in Models : h.bind[m] \subseteq h.app /\ k.sub[m] \subseteq h.sub[m]

\* ... while request r is on its way, with d in doubt ...
ReqOk(k, h, d, r) ==
  LET t == r.topic
  IN /\ t.what = "net" => r.op = "add" /\ t.idx \in k.net
     /\ t.what = "app" => r.op \in {"add", "delete"}
     /\ t.what = "app" /\ r.op = "add" => t.idx \in k.app \/ Bound[t.idx] \notin h.net
     /\ t.what = "app" /\ r.op = "delete" => t.idx \notin k.app
     /\ t.what \in {"bind", "sub", "pub"} => k.comp
     /\ t.what = "pub" /\ t \notin d => Same(t, k, h)

\* ... while answer a is.
StatOk(k, h, d, a) ==
  LET t == a.topic
  IN /\ t.what # "reset"
     /\ t.what = "net" => (a.status # "OTHER" <=> t.idx \in h.net)
     /\ t.what = "app" => IF a.status = "OTHER" THEN t.idx \notin h.app
                          ELSE t.idx \in k.app <=> t.idx \in h.app
     /\ t.what \in {"bind", "sub", "pub"} => k.comp
     /\ t.what = "bind" /\ a.status # "SUCCESS" => t.idx \notin h.bind[t.model]
     /\ t.what = "sub" => (a.status = "SUCCESS" <=> t.idx \in h.sub[t.model])
     /\ t.what = "pub" =>
          IF a.status = "SUCCESS"
          THEN WithoutPeriod(h.pub[t.model]) = WithoutPeriod(a.val)
          ELSE t \notin d => Same(t, k, h)
     /\ t.what = "ttl" => h.ttl = a.val[1]

\* Messages R to the node and S from it.
Ok(k, h, d, R, S) ==
  /\ Base(k, h)
  /\ \A r \in R : ReqOk(k, h, d, r)
  /\ \A a \in S : StatOk(k, h, d, a)
  /\ \A r \in R, a \in S : r.topic # a.topic
  /\ \A t \in Settings :
       t \notin d /\ (\A x \in R \cup S : x.topic # t) => Same(t, k, h)

\* A request for an application key that the program could not take, for want of
\* the net key, comes before any request for this net key.
Late(k, s) ==
  \A i, j \in DOMAIN s :
    /\ s[i].topic.what = "app" /\ s[i].op = "add" /\ s[i].topic.idx \notin k.app
    /\ s[j].topic.what = "net" /\ s[j].topic.idx = Bound[s[i].topic.idx]
    => i < j

\* A node that was never provisioned, and one that has not been reset.
FreshInv ==
  \A n \in Nodes : db[n] = None =>
    /\ mem[n] = None /\ has[n] = None /\ reqs[n] = <<>> /\ stats[n] = <<>>
    /\ TtlTopic \in doubt[n]

NodeInv(n) ==
  /\ mem[n] # None /\ db[n] # None /\ db[n].app = mem[n].app
  /\ Once(reqs[n]) /\ Once(stats[n]) /\ Late(mem[n], reqs[n])
  /\ Ok(mem[n], has[n], doubt[n], ToSet(reqs[n]), ToSet(stats[n]))

AgreeInv == FreshInv /\ \A n \in Nodes : has[n] # None => NodeInv(n)
-----------------------------------------------------------------------------
(* Topics: a message about one leaves the others alone. *)

\* What the topic of a setting is made of.
Formed(t) ==
  /\ t \in Topics
  /\ t.what \in {"net", "app"} => t.model = None
  /\ t.what = "net" => t.idx \in NetIdx
  /\ t.what = "app" => t.idx \in AppIdx
  /\ t.what \in {"bind", "sub", "pub"} => t.model \in Models
  /\ t.what = "bind" => t.idx \in AppIdx
  /\ t.what = "sub" => t.idx \in Groups
  /\ t.what = "pub" => t.idx = 0
  /\ t.what = "ttl" => t = TtlTopic

LEMMA SettingForm ==
  ASSUME NEW t \in Settings
  PROVE  Formed(t)
<1> USE NodeConfigAssumption DEF Req, Topic, TtlTopic, Topics, Formed
<1>1. CASE t \in {Topic("net", None, i) : i \in NetIdx}
  BY <1>1
<1>2. CASE t \in {Topic("app", None, i) : i \in AppIdx}
  BY <1>2
<1>3. ASSUME NEW r \in Requests, t = r.topic PROVE Formed(t)
  <2>1. CASE r \in cmd_bind
    BY <1>3, <2>1 DEF cmd_bind
  <2>2. CASE r \in cmd_sub_add
    BY <1>3, <2>2 DEF cmd_sub_add
  <2>3. CASE r \in cmd_pub_set
    BY <1>3, <2>3 DEF cmd_pub_set
  <2>4. CASE r \in cmd_ttl_set
    BY <1>3, <2>4 DEF cmd_ttl_set
  <2>5. CASE r \in cmd_composition_get \cup cmd_node_reset
    BY <1>3, <2>5 DEF cmd_composition_get, cmd_node_reset
  <2> QED
    BY <2>1, <2>2, <2>3, <2>4, <2>5 DEF Requests
<1> QED
  BY <1>1, <1>2, <1>3 DEF Settings

\* Every message is about a setting.
LEMMA AskedSetting ==
  /\ \A r \in Asked : r.topic \in Settings
  /\ \A a \in Answers : a.topic \in Settings
<1>1. ASSUME NEW r \in Asked PROVE r.topic \in Settings
  <2>1. CASE r \in KeyRequests
    BY <2>1 DEF KeyRequests, Req, Settings
  <2>2. CASE r \in Requests
    BY <2>2 DEF Settings
  <2> QED
    BY <2>1, <2>2 DEF Asked
<1>2. ASSUME NEW a \in Answers PROVE a.topic \in Settings
  BY <1>1 DEF Answers, Asked, Ans
<1> QED
  BY <1>1, <1>2

LEMMA TopicsDiffer ==
  ASSUME NEW t \in Settings, NEW u \in Settings, t # u, t.what = u.what
  PROVE  /\ t.what \in {"net", "app"} => t.idx # u.idx
         /\ t.what \in {"bind", "sub"} => t.model # u.model \/ t.idx # u.idx
         /\ t.what = "pub" => t.model # u.model
         /\ t.what # "ttl"
<1>1. Formed(t) /\ Formed(u)
  BY SettingForm
<1>2. t.model # u.model \/ t.idx # u.idx
  BY <1>1 DEF Formed, Topics
<1> QED
  BY <1>1, <1>2 DEF Formed

\* Topic t is the same for program k and node h as for k2 and h2; a node may
\* lose a binding, and the program may gain one.
Keeps(t, k, h, k2, h2) ==
  /\ t.what = "net" => /\ t.idx \in k.net <=> t.idx \in k2.net
                       /\ t.idx \in h.net <=> t.idx \in h2.net
  /\ t.what = "app" => /\ t.idx \in k.app <=> t.idx \in k2.app
                       /\ t.idx \in h.app <=> t.idx \in h2.app
  /\ t.what = "bind" => /\ t.idx \in k.bind[t.model] => t.idx \in k2.bind[t.model]
                        /\ t.idx \in h2.bind[t.model] => t.idx \in h.bind[t.model]
  /\ t.what = "sub" => /\ t.idx \in k.sub[t.model] <=> t.idx \in k2.sub[t.model]
                       /\ t.idx \in h.sub[t.model] <=> t.idx \in h2.sub[t.model]
  /\ t.what = "pub" =>
       /\ WithoutPeriod(k.pub[t.model]) = WithoutPeriod(k2.pub[t.model])
       /\ WithoutPeriod(h.pub[t.model]) = WithoutPeriod(h2.pub[t.model])
  /\ t.what = "ttl" => k.ttl = k2.ttl /\ h.ttl = h2.ttl

\* The node has no new net key for request r to meet.
NoNewNet(h, h2, r) ==
  r.topic.what = "app" /\ Bound[r.topic.idx] \notin h.net => Bound[r.topic.idx] \notin h2.net

LEMMA SameKept ==
  ASSUME NEW t, NEW k, NEW h, NEW k2, NEW h2, Keeps(t, k, h, k2, h2), Same(t, k, h)
  PROVE  Same(t, k2, h2)
BY DEF Keeps, Same

LEMMA ReqKept ==
  ASSUME NEW r, NEW k, NEW h, NEW k2, NEW h2, Keeps(r.topic, k, h, k2, h2), NEW d, NEW d2,
         r.topic \in d => r.topic \in d2, k.comp => k2.comp,
         r.topic.what = "app" /\ r.op = "add" /\ r.topic.idx \notin k.app => NoNewNet(h, h2, r),
         ReqOk(k, h, d, r)
  PROVE  ReqOk(k2, h2, d2, r)
<1>1. Same(r.topic, k, h) => Same(r.topic, k2, h2)
  BY SameKept
<1> QED
  BY <1>1 DEF ReqOk, Keeps, NoNewNet

LEMMA StatKept ==
  ASSUME NEW a, NEW k, NEW h, NEW k2, NEW h2, Keeps(a.topic, k, h, k2, h2), NEW d, NEW d2,
         a.topic \in d => a.topic \in d2, k.comp => k2.comp, StatOk(k, h, d, a)
  PROVE  StatOk(k2, h2, d2, a)
<1>1. Same(a.topic, k, h) => Same(a.topic, k2, h2)
  BY SameKept
<1> QED
  BY <1>1 DEF StatOk, Keeps

\* Everything but topic u stays as it was ...
Elsewhere(u, k, h, k2, h2) == \A t \in Settings \ {u} : Keeps(t, k, h, k2, h2)
OthersStay(u, R, R2) == \A x \in R \cup R2 : x.topic # u => (x \in R <=> x \in R2)

\* ... and u is in order afterwards.
Here(u, k, h, d, R, S) ==
  /\ \A r \in R : r.topic = u => ReqOk(k, h, d, r)
  /\ \A a \in S : a.topic = u => StatOk(k, h, d, a)
  /\ \A r \in R, a \in S : ~(r.topic = u /\ a.topic = u)
  /\ u \notin d /\ (\A x \in R \cup S : x.topic # u) => Same(u, k, h)

\* What every step does to a node: it is about one topic.
LEMMA OkStep ==
  ASSUME NEW k, NEW h, NEW d, NEW R \in SUBSET Asked, NEW S \in SUBSET Answers,
         NEW k2, NEW h2, NEW d2, NEW R2 \in SUBSET Asked, NEW S2 \in SUBSET Answers,
         NEW u, Ok(k, h, d, R, S), Base(k2, h2), k.comp => k2.comp,
         Elsewhere(u, k, h, k2, h2), OthersStay(u, R, R2), OthersStay(u, S, S2),
         d \ {u} \subseteq d2, Here(u, k2, h2, d2, R2, S2),
         \A r \in R2 : r.topic # u /\ r.op = "add" /\ r.topic.idx \notin k.app => NoNewNet(h, h2, r)
  PROVE  Ok(k2, h2, d2, R2, S2)
<1>1. ASSUME NEW r \in R2 PROVE ReqOk(k2, h2, d2, r)
  <2>1. CASE r.topic = u
    BY <2>1 DEF Here
  <2>2. CASE r.topic # u
    <3>1. r \in R /\ r.topic \in Settings
      BY <2>2, AskedSetting DEF OthersStay
    <3>2. ReqOk(k, h, d, r) /\ Keeps(r.topic, k, h, k2, h2)
      BY <2>2, <3>1 DEF Ok, Elsewhere
    <3> QED
      BY <2>2, <3>2, ReqKept
  <2> QED
    BY <2>1, <2>2
<1>2. ASSUME NEW a \in S2 PROVE StatOk(k2, h2, d2, a)
  <2>1. CASE a.topic = u
    BY <2>1 DEF Here
  <2>2. CASE a.topic # u
    <3>1. a \in S /\ a.topic \in Settings
      BY <2>2, AskedSetting DEF OthersStay
    <3>2. StatOk(k, h, d, a) /\ Keeps(a.topic, k, h, k2, h2)
      BY <2>2, <3>1 DEF Ok, Elsewhere
    <3> QED
      BY <2>2, <3>2, StatKept
  <2> QED
    BY <2>1, <2>2
<1>3. ASSUME NEW r \in R2, NEW a \in S2, r.topic = a.topic PROVE FALSE
  <2>1. r.topic # u
    BY <1>3 DEF Here
  <2>2. r \in R /\ a \in S
    BY <1>3, <2>1 DEF OthersStay
  <2> QED
    BY <1>3, <2>2 DEF Ok
<1>4. ASSUME NEW t \in Settings, t \notin d2, \A x \in R2 \cup S2 : x.topic # t
      PROVE  Same(t, k2, h2)
  <2>1. CASE t = u
    BY <1>4, <2>1 DEF Here
  <2>2. CASE t # u
    <3>1. t \notin d /\ \A x \in R \cup S : x.topic # t
      BY <1>4, <2>2 DEF OthersStay
    <3>2. Same(t, k, h) /\ Keeps(t, k, h, k2, h2)
      BY <2>2, <3>1 DEF Ok, Elsewhere
    <3> QED
      BY <3>2, SameKept
  <2> QED
    BY <2>1, <2>2
<1> QED
  BY <1>1, <1>2, <1>3, <1>4 DEF Ok
-----------------------------------------------------------------------------
(* The sequences of messages. *)

LEMMA AppendMessage ==
  ASSUME NEW T, NEW s \in Seq(T), NEW x \in T, Once(s),
         \A y \in ToSet(s) : y.topic # x.topic
  PROVE  /\ Once(Append(s, x)) /\ ToSet(Append(s, x)) = ToSet(s) \cup {x}
         /\ OthersStay(x.topic, ToSet(s), ToSet(Append(s, x)))
<1>1. /\ Len(s) \in Nat /\ DOMAIN s = 1..Len(s)
      /\ DOMAIN Append(s, x) = 1..(Len(s) + 1)
      /\ \A j \in 1..Len(s) : Append(s, x)[j] = s[j]
      /\ Append(s, x)[Len(s) + 1] = x
  OBVIOUS
<1>2. Once(Append(s, x))
  BY <1>1 DEF Once, ToSet
<1>3. ToSet(Append(s, x)) = ToSet(s) \cup {x}
  BY <1>1 DEF ToSet
<1> QED
  BY <1>2, <1>3 DEF OthersStay

\* s2 is s without its message i.
Drops(s, i, s2) ==
  /\ DOMAIN s2 = 1..(Len(s) - 1)
  /\ \A j \in DOMAIN s2 : s2[j] = s[IF j < i THEN j ELSE j + 1]

LEMMA TailDrops ==
  ASSUME NEW T, NEW s \in Seq(T), s # <<>>
  PROVE  1 \in DOMAIN s /\ s[1] = Head(s) /\ Drops(s, 1, Tail(s))
<1>1. Len(s) \in Nat \ {0} /\ DOMAIN s = 1..Len(s)
  OBVIOUS
<1>2. DOMAIN Tail(s) = 1..(Len(s) - 1) /\ \A j \in 1..(Len(s) - 1) : Tail(s)[j] = s[j + 1]
  OBVIOUS
<1> QED
  BY <1>1, <1>2 DEF Drops

LEMMA ConcatSecond ==
  ASSUME NEW T, NEW a \in Seq(T), NEW b \in Seq(T), NEW j \in 1..(Len(a) + Len(b)), j > Len(a)
  PROVE  (a \o b)[j] = b[j - Len(a)]
OBVIOUS

LEMMA RemoveDrops ==
  ASSUME NEW T, NEW s \in Seq(T), NEW i \in DOMAIN s
  PROVE  Drops(s, i, RemoveAt(s, i))
<1> DEFINE a == SubSeq(s, 1, i - 1)
           b == SubSeq(s, i + 1, Len(s))
<1>1. i \in 1..Len(s) /\ Len(s) \in Nat
  OBVIOUS
<1>2. a \in Seq(T) /\ Len(a) = i - 1 /\ \A j \in 1..(i - 1) : a[j] = s[j]
  BY <1>1
<1>3. b \in Seq(T) /\ Len(b) = Len(s) - i /\ \A j \in 1..(Len(s) - i) : b[j] = s[i + j]
  BY <1>1
<1> HIDE DEF a, b
<1>4. Len(a \o b) = Len(s) - 1 /\ DOMAIN (a \o b) = 1..(Len(s) - 1)
  BY <1>1, <1>2, <1>3
<1>5. ASSUME NEW j \in 1..(Len(s) - 1)
      PROVE  (a \o b)[j] = s[IF j < i THEN j ELSE j + 1]
  <2>1. CASE j < i
    BY <1>1, <1>2, <1>3, <2>1
  <2>2. CASE ~(j < i)
    <3>3. j - (i - 1) \in 1..(Len(s) - i)
      BY <1>1, <2>2
    <3>4. j \in 1..(Len(a) + Len(b)) /\ j > Len(a)
      BY <1>1, <1>2, <1>3, <2>2
    <3>5. (a \o b)[j] = b[j - Len(a)]
      BY <1>2, <1>3, <3>4, ConcatSecond
    <3>1. (a \o b)[j] = b[j - (i - 1)]
      BY <1>2, <3>5
    <3>2. i + (j - (i - 1)) = j + 1
      BY <1>1
    <3> QED
      BY <1>3, <2>2, <3>1, <3>2, <3>3
  <2> QED
    BY <2>1, <2>2
<1> QED
  BY <1>4, <1>5 DEF Drops, RemoveAt, a, b

\* What is left without message x.
Left(s, x, s2) ==
  /\ Once(s2) /\ ToSet(s2) = ToSet(s) \ {x}
  /\ \A y \in ToSet(s2) : y.topic # x.topic
  /\ OthersStay(x.topic, ToSet(s), ToSet(s2))
  /\ \A k : Late(k, s) => Late(k, s2)

LEMMA DropMessage ==
  ASSUME NEW T, NEW s \in Seq(T), NEW i \in DOMAIN s, Once(s), NEW s2 \in Seq(T), Drops(s, i, s2)
  PROVE  Left(s, s[i], s2)
<1> DEFINE f(j) == IF j < i THEN j ELSE j + 1
<1>1. Len(s) \in Nat /\ DOMAIN s = 1..Len(s) /\ i \in 1..Len(s)
  OBVIOUS
<1>2. DOMAIN s2 = 1..(Len(s) - 1) /\ \A j \in DOMAIN s2 : s2[j] = s[f(j)]
  BY DEF Drops
<1>3. \A j \in DOMAIN s2 : f(j) \in DOMAIN s /\ f(j) # i
  BY <1>1, <1>2
<1>4. \A j, l \in DOMAIN s2 : (f(j) = f(l) => j = l) /\ (f(j) < f(l) => j < l)
  BY <1>1, <1>2
<1>5. \A j \in DOMAIN s : j # i => \E l \in DOMAIN s2 : f(l) = j
  <2>1. ASSUME NEW j \in DOMAIN s, j < i PROVE j \in DOMAIN s2 /\ f(j) = j
    BY <1>1, <1>2, <2>1
  <2>2. ASSUME NEW j \in DOMAIN s, j > i PROVE j - 1 \in DOMAIN s2 /\ f(j - 1) = j
    BY <1>1, <1>2, <2>2
  <2> HIDE DEF f
  <2> QED
    BY <2>1, <2>2, <1>1
<1> HIDE DEF f
<1>6. Once(s2)
  BY <1>2, <1>3, <1>4 DEF Once
<1>7. \A y \in ToSet(s2) : y.topic # s[i].topic
  BY <1>2, <1>3 DEF Once, ToSet
<1>8. ToSet(s2) = ToSet(s) \ {s[i]}
  <2>1. ToSet(s2) \subseteq ToSet(s)
    BY <1>2, <1>3 DEF ToSet
  <2>2. \A y \in ToSet(s) : y # s[i] => y \in ToSet(s2)
    BY <1>2, <1>5 DEF ToSet
  <2> QED
    BY <1>7, <2>1, <2>2
<1>9. ASSUME NEW k, Late(k, s) PROVE Late(k, s2)
  BY <1>2, <1>3, <1>4, <1>9 DEF Late
<1> QED
  BY <1>6, <1>7, <1>8, <1>9 DEF OthersStay, Left
-----------------------------------------------------------------------------
(* What one message does, for the sets of messages. *)

\* A command: request r leaves.
LEMMA OkSend ==
  ASSUME NEW k, NEW h, NEW d, NEW R \in SUBSET Asked, NEW S \in SUBSET Answers,
         NEW k2, NEW r \in Asked, Ok(k, h, d, R, S), Base(k2, h), k.comp => k2.comp,
         Elsewhere(r.topic, k, h, k2, h), ReqOk(k2, h, d, r),
         \A x \in R \cup S : x.topic # r.topic
  PROVE  Ok(k2, h, d, R \cup {r}, S)
<1> DEFINE R2 == R \cup {r}
<1>1. OthersStay(r.topic, R, R2) /\ OthersStay(r.topic, S, S)
  BY DEF OthersStay
<1>2. Here(r.topic, k2, h, d, R2, S)
  BY DEF Here
<1>3. \A x \in R2 : NoNewNet(h, h, x)
  BY DEF NoNewNet
<1>4. R2 \in SUBSET Asked /\ d \ {r.topic} \subseteq d
  OBVIOUS
<1> HIDE DEF R2
<1>5. Ok(k2, h, d, R2, S)
  BY <1>1, <1>2, <1>3, <1>4, OkStep
<1> QED
  BY <1>5 DEF R2

\* A node answers request r with a.
LEMMA OkAnswer ==
  ASSUME NEW k, NEW h, NEW d, NEW R \in SUBSET Asked, NEW S \in SUBSET Answers,
         NEW h2, NEW r \in R, NEW a \in Answers, Ok(k, h, d, R, S), Base(k, h2),
         a.topic = r.topic, Elsewhere(r.topic, k, h, k, h2), StatOk(k, h2, d, a),
         \A x \in R \ {r} : x.topic # r.topic,
         \A x \in R \ {r} : x.op = "add" /\ x.topic.idx \notin k.app => NoNewNet(h, h2, x)
  PROVE  Ok(k, h2, d, R \ {r}, S \cup {a})
<1> DEFINE R2 == R \ {r}
           S2 == S \cup {a}
<1>1. OthersStay(r.topic, R, R2) /\ OthersStay(r.topic, S, S2)
  BY DEF OthersStay
<1>2. \A x \in S : x.topic # r.topic
  BY DEF Ok
<1>3. Here(r.topic, k, h2, d, R2, S2)
  BY <1>2 DEF Here
<1>4. R2 \in SUBSET Asked /\ S2 \in SUBSET Answers /\ d \ {r.topic} \subseteq d
  OBVIOUS
<1>5. \A x \in R2 : x.topic # r.topic /\ x.op = "add" /\ x.topic.idx \notin k.app
                      => NoNewNet(h, h2, x)
  OBVIOUS
<1> HIDE DEF R2, S2
<1>6. Ok(k, h2, d, R2, S2)
  BY <1>1, <1>3, <1>4, <1>5, OkStep
<1> QED
  BY <1>6 DEF R2, S2

\* Answer a arrives.
LEMMA OkReceive ==
  ASSUME NEW k, NEW h, NEW d, NEW R \in SUBSET Asked, NEW S \in SUBSET Answers,
         NEW k2, NEW a \in S, Ok(k, h, d, R, S), Base(k2, h), k.comp => k2.comp,
         Elsewhere(a.topic, k, h, k2, h), \A x \in S \ {a} : x.topic # a.topic,
         NEW d2, d2 = d \ Settles(a), a.topic \notin d2 => Same(a.topic, k2, h)
  PROVE  Ok(k2, h, d2, R, S \ {a})
<1> DEFINE S2 == S \ {a}
<1>1. OthersStay(a.topic, R, R) /\ OthersStay(a.topic, S, S2)
  BY DEF OthersStay
<1>2. \A x \in R : x.topic # a.topic
  BY DEF Ok
<1>3. Here(a.topic, k2, h, d2, R, S2)
  BY <1>2 DEF Here
<1>4. S2 \in SUBSET Answers /\ d \ {a.topic} \subseteq d2
  BY DEF Settles
<1>5. \A x \in R : NoNewNet(h, h, x)
  BY DEF NoNewNet
<1> HIDE DEF S2
<1>6. Ok(k2, h, d2, R, S2)
  BY <1>1, <1>3, <1>4, <1>5, OkStep
<1> QED
  BY <1>6 DEF S2

LEMMA NothingElsewhere ==
  ASSUME NEW u, NEW k, NEW h
  PROVE  Elsewhere(u, k, h, k, h)
BY DEF Elsewhere, Keeps

\* Message x is lost.
LEMMA OkLose ==
  ASSUME NEW k, NEW h, NEW d, NEW R \in SUBSET Asked, NEW S \in SUBSET Answers,
         NEW x \in R \cup S, Ok(k, h, d, R, S), NEW R2 \in SUBSET R, NEW S2 \in SUBSET S,
         OthersStay(x.topic, R, R2), OthersStay(x.topic, S, S2),
         \A y \in R2 \cup S2 : y.topic # x.topic
  PROVE  Ok(k, h, d \cup Opens(x), R2, S2)
<1> DEFINE d2 == d \cup Opens(x)
<1>1. x.topic \notin d2 => Same(x.topic, k, h)
  BY DEF Opens, Same
<1>2. Here(x.topic, k, h, d2, R2, S2)
  BY <1>1 DEF Here
<1>3. R2 \in SUBSET Asked /\ S2 \in SUBSET Answers /\ d \ {x.topic} \subseteq d2
  OBVIOUS
<1>4. \A r \in R2 : NoNewNet(h, h, r)
  BY DEF NoNewNet
<1>5. Elsewhere(x.topic, k, h, k, h) /\ Base(k, h)
  BY NothingElsewhere DEF Ok
<1> HIDE DEF d2
<1>6. Ok(k, h, d2, R2, S2)
  BY <1>2, <1>3, <1>4, <1>5, OkStep
<1> QED
  BY <1>6 DEF d2

\* The program starts again and is as before.
LEMMA OkAlike ==
  ASSUME NEW k, NEW h, NEW d, NEW R \in SUBSET Asked, NEW S \in SUBSET Answers,
         NEW k2, Ok(k, h, d, R, S), Base(k2, h), k.comp => k2.comp,
         \A t \in Settings : Keeps(t, k, h, k2, h)
  PROVE  Ok(k2, h, d, R, S)
<1>1. ASSUME NEW t \in Settings, t \notin d, \A x \in R \cup S : x.topic # t
      PROVE  Same(t, k2, h)
  BY <1>1, SameKept DEF Ok
<1>2. \A r \in R : ReqOk(k2, h, d, r)
  <2> SUFFICES ASSUME NEW r \in R PROVE ReqOk(k2, h, d, r)
    OBVIOUS
  <2>1. Keeps(r.topic, k, h, k2, h) /\ ReqOk(k, h, d, r)
    BY AskedSetting DEF Ok
  <2>2. NoNewNet(h, h, r)
    BY DEF NoNewNet
  <2> QED
    BY <2>1, <2>2, ReqKept
<1>3. \A a \in S : StatOk(k2, h, d, a)
  <2> SUFFICES ASSUME NEW a \in S PROVE StatOk(k2, h, d, a)
    OBVIOUS
  <2>1. Keeps(a.topic, k, h, k2, h) /\ StatOk(k, h, d, a)
    BY AskedSetting DEF Ok
  <2> QED
    BY <2>1, StatKept
<1> QED
  BY <1>1, <1>2, <1>3 DEF Ok
-----------------------------------------------------------------------------
(* Changes of the program, or of a node, that touch one topic. *)

At(u, what, m, i) == u.what = what /\ u.model = m /\ u.idx = i

\* k2 differs from k at u only; bindings apart.
Only(u, k, k2) ==
  /\ \A i \in NetIdx : (i \in k.net <=> i \in k2.net) \/ At(u, "net", None, i)
  /\ \A i \in AppIdx : (i \in k.app <=> i \in k2.app) \/ At(u, "app", None, i)
  /\ \A m \in Models, i \in Groups :
       (i \in k.sub[m] <=> i \in k2.sub[m]) \/ At(u, "sub", m, i)
  /\ \A m \in Models : k.pub[m] = k2.pub[m] \/ At(u, "pub", m, 0)
  /\ k.ttl = k2.ttl \/ u = TtlTopic

\* The bindings of k, but for u, are those of k2.
Grows(u, k, k2) ==
  \A m \in Models, i \in AppIdx :
    i \in k.bind[m] => i \in k2.bind[m] \/ At(u, "bind", m, i)

LEMMA OnlyElsewhere ==
  ASSUME NEW u \in Settings, NEW k, NEW k2, NEW h, NEW h2,
         Only(u, k, k2), Grows(u, k, k2), Only(u, h, h2), Grows(u, h2, h)
  PROVE  Elsewhere(u, k, h, k2, h2)
<1> SUFFICES ASSUME NEW t \in Settings, t # u PROVE Keeps(t, k, h, k2, h2)
  BY DEF Elsewhere
<1>1. Formed(t) /\ Formed(u)
  BY SettingForm
<1>2. ~At(u, t.what, t.model, t.idx)
  BY <1>1 DEF At, Formed, Topics
<1>3. CASE t.what = "net"
  BY <1>1, <1>2, <1>3 DEF Formed, Only, Keeps
<1>4. CASE t.what = "app"
  BY <1>1, <1>2, <1>4 DEF Formed, Only, Keeps
<1>5. CASE t.what = "bind"
  BY <1>1, <1>2, <1>5 DEF Formed, Grows, Keeps
<1>6. CASE t.what = "sub"
  BY <1>1, <1>2, <1>6 DEF Formed, Only, Keeps
<1>7. CASE t.what = "pub"
  BY <1>1, <1>2, <1>7 DEF Formed, Only, Keeps
<1>8. CASE t.what = "ttl"
  BY <1>1, <1>2, <1>8 DEF Formed, Only, Keeps
<1>9. CASE t.what \in {"comp", "reset"}
  BY <1>9 DEF Keeps
<1> QED
  BY <1>1, <1>3, <1>4, <1>5, <1>6, <1>7, <1>8, <1>9 DEF Formed, Topics

\* Both, and both ways for the bindings.
Touches(u, k, k2) == Only(u, k, k2) /\ Grows(u, k, k2) /\ Grows(u, k2, k)

LEMMA NothingTouched ==
  ASSUME NEW u, NEW k
  PROVE  Touches(u, k, k)
BY DEF Touches, Only, Grows

LEMMA ProgramElsewhere ==
  ASSUME NEW u \in Settings, NEW k, NEW k2, NEW h, Touches(u, k, k2)
  PROVE  Elsewhere(u, k, h, k2, h)
BY NothingTouched, OnlyElsewhere DEF Touches

LEMMA NodeElsewhere ==
  ASSUME NEW u \in Settings, NEW k, NEW h, NEW h2, Touches(u, h, h2)
  PROVE  Elsewhere(u, k, h, k, h2)
BY NothingTouched, OnlyElsewhere DEF Touches

LEMMA NetTouched ==
  ASSUME NEW k \in Known, NEW u \in Settings, u.what = "net"
  PROVE  /\ Touches(u, k, [k EXCEPT !.net = @ \cup {u.idx}])
         /\ Touches(u, k, [k EXCEPT !.net = @ \ {u.idx}])
<1>1. Formed(u)
  BY SettingForm
<1> QED
  BY <1>1 DEF Formed, Known, Touches, Only, Grows, At

LEMMA AppTouched ==
  ASSUME NEW k \in Known, NEW u \in Settings, u.what = "app"
  PROVE  /\ Touches(u, k, [k EXCEPT !.app = @ \cup {u.idx}])
         /\ Touches(u, k, [k EXCEPT !.app = @ \ {u.idx}])
<1>1. Formed(u)
  BY SettingForm
<1> QED
  BY <1>1 DEF Formed, Known, Touches, Only, Grows, At

LEMMA BindTouched ==
  ASSUME NEW k \in Known, NEW u \in Settings, u.what = "bind"
  PROVE  Touches(u, k, [k EXCEPT !.bind[u.model] = @ \cup {u.idx}])
<1>1. Formed(u)
  BY SettingForm
<1> QED
  BY <1>1 DEF Formed, Known, Touches, Only, Grows, At

LEMMA SubTouched ==
  ASSUME NEW k \in Known, NEW u \in Settings, u.what = "sub"
  PROVE  Touches(u, k, [k EXCEPT !.sub[u.model] = @ \cup {u.idx}])
<1>1. Formed(u)
  BY SettingForm
<1> QED
  BY <1>1 DEF Formed, Known, Touches, Only, Grows, At

LEMMA PubTouched ==
  ASSUME NEW k \in Known, NEW u \in Settings, u.what = "pub", NEW p \in Pubs
  PROVE  Touches(u, k, [k EXCEPT !.pub[u.model] = p])
<1>1. Formed(u)
  BY SettingForm
<1> QED
  BY <1>1 DEF Formed, Known, Touches, Only, Grows, At

LEMMA TtlTouched ==
  ASSUME NEW k \in Known, NEW u \in Settings, u.what = "ttl", NEW v \in Ttls
  PROVE  Touches(u, k, [k EXCEPT !.ttl = v])
<1>1. Formed(u)
  BY SettingForm
<1> QED
  BY <1>1 DEF Formed, Known, Touches, Only, Grows, At

LEMMA CompTouched ==
  ASSUME NEW k \in Known, NEW u, NEW lpn \in BOOLEAN
  PROVE  Touches(u, k, node_parse_composition(k, lpn))
BY DEF node_parse_composition, Known, Touches, Only, Grows
-----------------------------------------------------------------------------
(* The steps of a node. *)

Alone(n) ==
  \A o \in Nodes \ {n} :
    /\ mem'[o] = mem[o] /\ db'[o] = db[o] /\ has'[o] = has[o]
    /\ reqs'[o] = reqs[o] /\ stats'[o] = stats[o] /\ doubt'[o] = doubt[o]

LEMMA OneNode ==
  ASSUME AgreeInv, NEW n \in Nodes, Alone(n), db'[n] # None, has'[n] # None => NodeInv(n)'
  PROVE  AgreeInv'
<1>1. FreshInv'
  BY DEF AgreeInv, FreshInv, Alone
<1>2. ASSUME NEW o \in Nodes, has'[o] # None, o # n PROVE NodeInv(o)'
  BY <1>2 DEF AgreeInv, NodeInv, Alone
<1> QED
  BY <1>1, <1>2 DEF AgreeInv

LEMMA NodeTypes ==
  ASSUME IInv, NEW n \in Nodes, NodeInv(n), has[n] # None
  PROVE  /\ mem[n] \in Known /\ has[n] \in Known /\ db[n] \in Entries
         /\ Mirror(mem[n], db[n])
         /\ reqs[n] \in Seq(Asked) /\ stats[n] \in Seq(Answers)
         /\ ToSet(reqs[n]) \in SUBSET Asked /\ ToSet(stats[n]) \in SUBSET Answers
<1>1. mem[n] \in Known /\ db[n] \in Entries /\ Mirror(mem[n], db[n])
  BY DEF NodeInv, IInv, MemInv, Pair
<1>2. has[n] \in Known /\ reqs[n] \in Seq(Asked) /\ stats[n] \in Seq(Answers)
  BY DEF IInv, MsgInv, Asked
<1> QED
  BY <1>1, <1>2 DEF ToSet

LEMMA LateAppend ==
  ASSUME NEW T, NEW s \in Seq(T), NEW k, NEW k2, NEW r \in T, Late(k, s),
         \A y \in ToSet(s) : y.topic.what = "app" /\ y.op = "add" /\ y.topic.idx \notin k2.app
                               => y.topic.idx \notin k.app,
         \/ r.topic.what # "app" \/ r.op # "add" \/ r.topic.idx \in k2.app
         \/ \A y \in ToSet(s) : ~(y.topic.what = "net" /\ y.topic.idx = Bound[r.topic.idx])
  PROVE  Late(k2, Append(s, r))
<1>1. /\ Len(s) \in Nat /\ DOMAIN s = 1..Len(s)
      /\ DOMAIN Append(s, r) = 1..(Len(s) + 1)
      /\ \A j \in 1..Len(s) : Append(s, r)[j] = s[j]
      /\ Append(s, r)[Len(s) + 1] = r
  OBVIOUS
<1> DEFINE s2 == Append(s, r)
<1> HIDE DEF s2
<1> SUFFICES ASSUME NEW i \in DOMAIN s2, NEW j \in DOMAIN s2,
                    s2[i].topic.what = "app", s2[i].op = "add", s2[i].topic.idx \notin k2.app,
                    s2[j].topic.what = "net", s2[j].topic.idx = Bound[s2[i].topic.idx]
             PROVE  i < j
  BY DEF Late, s2
<1>2. CASE i = Len(s) + 1
  <2>1. s2[i] = r /\ j \in DOMAIN s /\ s2[j] = s[j]
    BY <1>1, <1>2 DEF s2
  <2>2. s[j] \in ToSet(s)
    BY <2>1 DEF ToSet
  <2> QED
    BY <2>1, <2>2
<1>3. CASE i # Len(s) + 1 /\ j = Len(s) + 1
  BY <1>1, <1>3 DEF s2
<1>4. CASE i # Len(s) + 1 /\ j # Len(s) + 1
  <2>1. i \in DOMAIN s /\ j \in DOMAIN s /\ s2[i] = s[i] /\ s2[j] = s[j]
    BY <1>1, <1>4 DEF s2
  <2>2. s[i] \in ToSet(s)
    BY <2>1 DEF ToSet
  <2>3. s[i].topic.idx \notin k.app
    BY <2>1, <2>2
  <2> QED
    BY <2>1, <2>3 DEF Late
<1> QED
  BY <1>2, <1>3, <1>4

LEMMA NotAbout ==
  ASSUME NEW n \in Nodes, NEW t, ~About(n, t)
  PROVE  \A x \in ToSet(reqs[n]) \cup ToSet(stats[n]) : x.topic # t
BY DEF About, ToSet

\* A command, whatever it makes of the program.
LEMMA SendKeeps ==
  ASSUME IInv, "overlap" \notin Env, NEW n \in Nodes, has[n] # None, NodeInv(n),
         NEW r \in Asked, config_send(n, r), NEW k2, mem'[n] = k2, k2 # None,
         db'[n] # None, db'[n].app = k2.app, Base(k2, has[n]), mem[n].comp => k2.comp,
         Touches(r.topic, mem[n], k2), ReqOk(k2, has[n], doubt[n], r),
         \/ r.topic.what # "app" \/ r.op # "add" \/ r.topic.idx \in k2.app
         \/ \A y \in ToSet(reqs[n]) :
              ~(y.topic.what = "net" /\ y.topic.idx = Bound[r.topic.idx])
  PROVE  NodeInv(n)'
<1> DEFINE s == reqs[n]
           S == ToSet(stats[n])
           k == mem[n]
           h == has[n]
           d == doubt[n]
<1>1. /\ s \in Seq(Asked) /\ ToSet(s) \in SUBSET Asked /\ S \in SUBSET Answers
      /\ r.topic \in Settings
  BY NodeTypes, AskedSetting
<1>2. /\ Once(s) /\ Once(stats[n]) /\ Late(k, s) /\ Ok(k, h, d, ToSet(s), S)
  BY DEF NodeInv
<1>3. \A x \in ToSet(s) \cup S : x.topic # r.topic
  BY NotAbout DEF config_send
<1>4. Elsewhere(r.topic, k, h, k2, h)
  BY <1>1, ProgramElsewhere
<1>5. has'[n] = h /\ stats'[n] = stats[n] /\ doubt'[n] = d /\ reqs'[n] = Append(s, r)
  BY DEF config_send, IInv, MsgInv
<1>6. Late(k2, Append(s, r))
  <2>1. ASSUME NEW y \in ToSet(s), y.topic.what = "app", y.topic.idx \notin k2.app
        PROVE  y.topic.idx \notin k.app
    <3>1. y.topic \in Settings /\ y.topic # r.topic
      BY <1>1, <1>3, AskedSetting
    <3>2. Keeps(y.topic, k, h, k2, h)
      BY <1>4, <3>1 DEF Elsewhere
    <3> QED
      BY <2>1, <3>2 DEF Keeps
  <2> HIDE DEF k, s
  <2> QED
    BY <1>1, <1>2, <2>1, LateAppend DEF s
<1>7. Once(Append(s, r)) /\ ToSet(Append(s, r)) = ToSet(s) \cup {r}
  BY <1>1, <1>2, <1>3, AppendMessage
<1>8. Ok(k2, h, d, ToSet(s) \cup {r}, S)
  <2> HIDE DEF k, h, d, s, S
  <2> QED
    BY <1>1, <1>2, <1>3, <1>4, OkSend DEF k, h, d, s
<1> QED
  BY <1>2, <1>5, <1>6, <1>7, <1>8 DEF NodeInv

\* What is written when the lists of keys change, or stay.
LEMMA SavedNet ==
  ASSUME IInv, NEW n \in Nodes, mem[n] # None, NEW net, SaveNet(n, net)
  PROVE  /\ mem' = [mem EXCEPT ![n] = [mem[n] EXCEPT !.net = net]]
         /\ db' = [db EXCEPT ![n] = [db[n] EXCEPT !.net = net]]
<1>1. mem[n] \in Known /\ db[n] \in Entries /\ mem[n].net = db[n].net
  BY DEF IInv, MemInv, Pair, Mirror
<1>2. CASE net = mem[n].net
  <2>1. [mem[n] EXCEPT !.net = net] = mem[n] /\ [db[n] EXCEPT !.net = net] = db[n]
    BY <1>1, <1>2 DEF Known, Entries
  <2>2. UNCHANGED <<mem, db>>
    BY <1>2 DEF SaveNet
  <2> QED
    BY <2>1, <2>2 DEF IInv, MemInv
<1>3. CASE net # mem[n].net
  BY <1>3 DEF SaveNet
<1> QED
  BY <1>2, <1>3

LEMMA SavedApp ==
  ASSUME IInv, NEW n \in Nodes, mem[n] # None, mem[n].app = db[n].app, NEW app, SaveApp(n, app)
  PROVE  /\ mem' = [mem EXCEPT ![n] = [mem[n] EXCEPT !.app = app]]
         /\ db' = [db EXCEPT ![n] = [db[n] EXCEPT !.app = app]]
<1>1. mem[n] \in Known /\ db[n] \in Entries
  BY DEF IInv, MemInv, Pair, Mirror
<1>2. CASE app = mem[n].app
  <2>1. [mem[n] EXCEPT !.app = app] = mem[n] /\ [db[n] EXCEPT !.app = app] = db[n]
    BY <1>1, <1>2 DEF Known, Entries
  <2>2. UNCHANGED <<mem, db>>
    BY <1>2 DEF SaveApp
  <2> QED
    BY <2>1, <2>2 DEF IInv, MemInv
<1>3. CASE app # mem[n].app
  BY <1>3 DEF SaveApp
<1> QED
  BY <1>2, <1>3

LEMMA NetCommandAgrees ==
  ASSUME IInv, Env = {}, NEW n \in Nodes, has[n] # None, NodeInv(n),
         NEW i \in NetIdx, NEW op \in {"add", "delete"}, cmd_net_key(n, i, op)
  PROVE  NodeInv(n)'
<1> DEFINE r == Req(Topic("net", None, i), op, <<>>)
           k2 == [mem[n] EXCEPT !.net = @ \cup {i}]
           e2 == [db[n] EXCEPT !.net = mem[n].net \cup {i}]
<1>1. r \in Asked /\ r.topic.what = "net" /\ r.topic.idx = i /\ r.op = op /\ op = "add"
  BY DEF Asked, KeyRequests, Req, Topic, cmd_net_key
<1>2. mem[n] \in Known /\ has[n] \in Known /\ db[n] \in Entries /\ r.topic \in Settings
  BY <1>1, NodeTypes, AskedSetting
<1>3. mem[n] # None /\ db[n].app = mem[n].app /\ Base(mem[n], has[n])
  BY DEF NodeInv, Ok
<1>4. config_send(n, r) /\ SaveNet(n, mem[n].net \cup {i})
  BY <1>1 DEF cmd_net_key, NetKeys
<1>5. mem' = [mem EXCEPT ![n] = k2] /\ db' = [db EXCEPT ![n] = e2]
  BY <1>3, <1>4, SavedNet
<1>6. mem'[n] = k2 /\ db'[n] = e2
  BY <1>5 DEF IInv, MemInv
<1>7. /\ k2 \in Known /\ k2.app = mem[n].app /\ k2.sub = mem[n].sub /\ k2.comp = mem[n].comp
      /\ k2.net = mem[n].net \cup {i} /\ e2 \in Entries /\ e2.app = db[n].app
  BY <1>2 DEF Known, Entries
<1>8. k2 # None /\ e2 # None
  BY <1>7, NoneAssumption
<1>9. Touches(r.topic, mem[n], k2)
  BY <1>1, <1>2, NetTouched
<1> HIDE DEF r, k2, e2
<1>10. Base(k2, has[n])
  BY <1>3, <1>7 DEF Base
<1>11. ReqOk(k2, has[n], doubt[n], r)
  BY <1>1, <1>7 DEF ReqOk
<1> QED
  BY <1>1, <1>3, <1>4, <1>6, <1>7, <1>8, <1>9, <1>10, <1>11, SendKeeps

LEMMA AppCommandAgrees ==
  ASSUME IInv, Env = {}, NEW n \in Nodes, has[n] # None, NodeInv(n),
         NEW i \in AppIdx, NEW op \in {"add", "delete"}, cmd_app_key(n, i, op)
  PROVE  NodeInv(n)'
<1> DEFINE r == Req(Topic("app", None, i), op, <<>>)
           b == Topic("net", None, Bound[i])
           k2 == [mem[n] EXCEPT !.app = AppKeys(n, i, op)]
           e2 == [db[n] EXCEPT !.app = AppKeys(n, i, op)]
<1>1. r \in Asked /\ r.topic.what = "app" /\ r.topic.idx = i /\ r.op = op
  BY DEF Asked, KeyRequests, Req, Topic
<1>2. mem[n] \in Known /\ has[n] \in Known /\ db[n] \in Entries /\ r.topic \in Settings
  BY <1>1, NodeTypes, AskedSetting
<1>3. /\ mem[n] # None /\ db[n].app = mem[n].app /\ Base(mem[n], has[n])
      /\ Ok(mem[n], has[n], doubt[n], ToSet(reqs[n]), ToSet(stats[n]))
  BY DEF NodeInv, Ok
<1>4. config_send(n, r) /\ SaveApp(n, AppKeys(n, i, op)) /\ Settled(n, b)
  BY DEF cmd_app_key
<1>5. mem' = [mem EXCEPT ![n] = k2] /\ db' = [db EXCEPT ![n] = e2]
  BY <1>3, <1>4, SavedApp
<1>6. mem'[n] = k2 /\ db'[n] = e2
  BY <1>5 DEF IInv, MemInv
<1>7. AppKeys(n, i, op) \in SUBSET AppIdx
  BY <1>3, KeyLists DEF IInv
<1>8. /\ k2 \in Known /\ k2.app = AppKeys(n, i, op) /\ k2.sub = mem[n].sub
      /\ k2.comp = mem[n].comp /\ k2.net = mem[n].net
      /\ e2 \in Entries /\ e2.app = AppKeys(n, i, op)
  BY <1>2, <1>7 DEF Known, Entries
<1>9. k2 # None /\ e2 # None
  BY <1>8, NoneAssumption
<1>10. Touches(r.topic, mem[n], k2)
  <2>1. CASE AppKeys(n, i, op) = mem[n].app \cup {i}
    BY <1>1, <1>2, <2>1, AppTouched
  <2>2. CASE AppKeys(n, i, op) = mem[n].app \ {i}
    BY <1>1, <1>2, <2>2, AppTouched
  <2>3. CASE AppKeys(n, i, op) = mem[n].app
    <3>1. k2 = mem[n]
      BY <1>2, <2>3 DEF Known
    <3> HIDE DEF k2
    <3> QED
      BY <3>1, NothingTouched
  <2> QED
    BY <2>1, <2>2, <2>3 DEF AppKeys
<1>11. b \in Settings /\ b.what = "net" /\ b.idx = Bound[i] /\ Bound[i] \in NetIdx
  BY NodeConfigAssumption DEF Settings, Topic
<1>12. \A x \in ToSet(reqs[n]) \cup ToSet(stats[n]) : x.topic # b
  BY <1>4, NotAbout DEF Settled
<1>13. Same(b, mem[n], has[n])
  BY <1>3, <1>4, <1>11, <1>12 DEF Ok, Settled
<1>14. Bound[i] \in mem[n].net <=> Bound[i] \in has[n].net
  BY <1>11, <1>13 DEF Same
<1>15. \A y \in ToSet(reqs[n]) : ~(y.topic.what = "net" /\ y.topic.idx = Bound[r.topic.idx])
  <2> SUFFICES ASSUME NEW y \in ToSet(reqs[n]), y.topic.what = "net", y.topic.idx = Bound[i]
               PROVE  FALSE
    BY <1>1
  <2>1. y.topic \in Settings
    BY NodeTypes, AskedSetting
  <2>2. y.topic # b /\ b.what = y.topic.what /\ b.idx = y.topic.idx
    BY <1>11, <1>12
  <2> QED
    BY <1>11, <2>1, <2>2, TopicsDiffer
<1> HIDE DEF r, k2, e2, b
<1>16. Base(k2, has[n])
  BY <1>3, <1>8, <1>14 DEF Base, AppKeys
<1>17. ReqOk(k2, has[n], doubt[n], r)
  BY <1>1, <1>8, <1>14 DEF ReqOk, AppKeys
<1> QED
  BY <1>1, <1>3, <1>4, <1>6, <1>8, <1>9, <1>10, <1>15, <1>16, <1>17, SendKeeps

\* What the other commands ask.
LEMMA RequestKinds ==
  ASSUME NEW r \in Requests
  PROVE  /\ r.topic.what \notin {"net", "app"}
         /\ r.topic.what = "bind" => r \in cmd_bind
         /\ r.topic.what = "sub" => r \in cmd_sub_add
         /\ r.topic.what = "pub" => r \in cmd_pub_set
BY DEF Requests, cmd_bind, cmd_sub_add, cmd_pub_set, cmd_ttl_set, cmd_composition_get,
       cmd_node_reset, Req, Topic, TtlTopic

LEMMA RequestAgrees ==
  ASSUME IInv, Env = {}, NEW n \in Nodes, has[n] # None, NodeInv(n),
         NEW r \in Requests, cmd_request(n, r)
  PROVE  NodeInv(n)'
<1>1. r \in Asked /\ r.topic \in Settings
  BY AskedSetting DEF Asked
<1>2. /\ mem[n] # None /\ db[n] # None /\ db[n].app = mem[n].app /\ Base(mem[n], has[n])
      /\ Ok(mem[n], has[n], doubt[n], ToSet(reqs[n]), ToSet(stats[n]))
  BY DEF NodeInv, Ok
<1>3. config_send(n, r) /\ mem'[n] = mem[n] /\ db'[n] = db[n]
  BY DEF cmd_request
<1>4. r.topic.what \notin {"net", "app"}
  BY RequestKinds
<1>5. r.topic.what \in {"bind", "sub", "pub"} => mem[n].comp
  BY RequestKinds DEF cmd_request, verify_config_target
<1>6. \A x \in ToSet(reqs[n]) \cup ToSet(stats[n]) : x.topic # r.topic
  BY <1>3, NotAbout DEF config_send
<1>7. r.topic \notin doubt[n] => Same(r.topic, mem[n], has[n])
  BY <1>1, <1>2, <1>6 DEF Ok
<1>8. ReqOk(mem[n], has[n], doubt[n], r)
  BY <1>4, <1>5, <1>7 DEF ReqOk
<1> QED
  BY <1>1, <1>2, <1>3, <1>4, <1>8, NothingTouched, SendKeeps

LEMMA CommandAgrees ==
  ASSUME IInv, AgreeInv, Env = {}, NEW n \in Nodes, Command(n)
  PROVE  AgreeInv'
<1>1. mem[n] # None /\ UNCHANGED <<has, stats, doubt>>
  BY DEF Command, cmd_net_key, cmd_app_key, cmd_request, config_send
<1>2. /\ \A o \in Nodes \ {n} : mem'[o] = mem[o] /\ db'[o] = db[o]
      /\ db[n] # None => db'[n] # None
  BY CommandStep, ChangesStep DEF IInv
<1>3. \A o \in Nodes \ {n} : reqs'[o] = reqs[o]
  BY DEF Command, cmd_net_key, cmd_app_key, cmd_request, config_send, IInv, MsgInv
<1>4. Alone(n) /\ db'[n] # None
  BY <1>1, <1>2, <1>3 DEF Alone, AgreeInv, FreshInv
<1>5. ASSUME has'[n] # None PROVE NodeInv(n)'
  <2>1. has[n] # None /\ NodeInv(n)
    BY <1>1, <1>5 DEF AgreeInv
  <2> QED
    BY <2>1, NetCommandAgrees, AppCommandAgrees, RequestAgrees DEF Command
<1> QED
  BY <1>4, <1>5, OneNode

LEMMA LateKept ==
  ASSUME NEW s, NEW k, NEW k2, Late(k, s),
         \A y \in ToSet(s) : y.topic.what = "app" /\ y.topic.idx \notin k2.app
                               => y.topic.idx \notin k.app
  PROVE  Late(k2, s)
<1>1. \A i \in DOMAIN s : s[i] \in ToSet(s)
  BY DEF ToSet
<1> QED
  BY <1>1 DEF Late

\* An answer, whatever it makes of the program.
LEMMA ReceiveKeeps ==
  ASSUME IInv, NEW n \in Nodes, has[n] # None, NodeInv(n), NEW what, Receives(n, what),
         NEW k2, mem'[n] = k2, k2 # None, db'[n] # None, db'[n].app = k2.app,
         Base(k2, has[n]), mem[n].comp => k2.comp, Touches(Rx(n).topic, mem[n], k2),
         Rx(n).topic \notin doubt[n] \ Settles(Rx(n)) => Same(Rx(n).topic, k2, has[n])
  PROVE  NodeInv(n)'
<1> DEFINE s == stats[n]
           R == ToSet(reqs[n])
           S == ToSet(s)
           a == Rx(n)
           k == mem[n]
           h == has[n]
           d == doubt[n]
<1>1. s \in Seq(Answers) /\ s # <<>> /\ R \in SUBSET Asked /\ S \in SUBSET Answers
  BY NodeTypes DEF Receives
<1>2. /\ Once(s) /\ Once(reqs[n]) /\ Late(k, reqs[n]) /\ Ok(k, h, d, R, S)
  BY DEF NodeInv
<1>3. 1 \in DOMAIN s /\ s[1] = a /\ Drops(s, 1, Tail(s)) /\ Tail(s) \in Seq(Answers)
  BY <1>1, TailDrops DEF Rx
<1>4. a \in S /\ a.topic \in Settings
  BY <1>1, <1>3, AskedSetting DEF ToSet
<1>5. /\ Once(Tail(s)) /\ ToSet(Tail(s)) = S \ {a}
      /\ \A y \in S \ {a} : y.topic # a.topic
  <2> HIDE DEF s, a
  <2>1. Left(s, s[1], Tail(s))
    BY <1>1, <1>2, <1>3, DropMessage
  <2> QED
    BY <1>3, <2>1 DEF Left
<1>6. Elsewhere(a.topic, k, h, k2, h)
  BY <1>4, ProgramElsewhere
<1>7. /\ has'[n] = h /\ reqs'[n] = reqs[n] /\ stats'[n] = Tail(s)
      /\ doubt'[n] = d \ Settles(a)
  BY DEF Receives, Rx, IInv, MsgInv
<1>8. Late(k2, reqs[n])
  <2>1. ASSUME NEW y \in R, y.topic.what = "app", y.topic.idx \notin k2.app
        PROVE  y.topic.idx \notin k.app
    <3>1. y.topic \in Settings /\ y.topic # a.topic
      BY <1>1, <1>2, <1>4, AskedSetting DEF Ok
    <3>2. Keeps(y.topic, k, h, k2, h)
      BY <1>6, <3>1 DEF Elsewhere
    <3> QED
      BY <2>1, <3>2 DEF Keeps
  <2> QED
    BY <1>2, <2>1, LateKept
<1>9. Ok(k2, h, d \ Settles(a), R, S \ {a})
  <2> HIDE DEF k, h, d, s, S, R, a
  <2> QED
    BY <1>1, <1>2, <1>4, <1>5, <1>6, OkReceive DEF k, h, d, a
<1> QED
  BY <1>2, <1>5, <1>7, <1>8, <1>9 DEF NodeInv

\* What holds when an answer arrives.
LEMMA Arrives ==
  ASSUME IInv, NEW n \in Nodes, has[n] # None, NodeInv(n), NEW what, Receives(n, what)
  PROVE  /\ Rx(n) \in Answers /\ Rx(n).topic.what = what /\ Rx(n).topic \in Settings
         /\ StatOk(mem[n], has[n], doubt[n], Rx(n))
         /\ mem[n] # None /\ mem[n] \in Known /\ db[n] # None /\ db[n] \in Entries
         /\ has[n] \in Known /\ db[n].app = mem[n].app /\ Base(mem[n], has[n])
<1>1. Rx(n) \in Answers /\ Rx(n).topic.what = what
  BY Received
<1>2. Rx(n) \in ToSet(stats[n])
  <2>1. stats[n] \in Seq(Answers) /\ stats[n] # <<>>
    BY NodeTypes DEF Receives
  <2> QED
    BY <2>1, TailDrops DEF Rx, ToSet
<1>3. StatOk(mem[n], has[n], doubt[n], Rx(n)) /\ Base(mem[n], has[n])
  BY <1>2 DEF NodeInv, Ok
<1> QED
  BY <1>1, <1>3, AskedSetting, NodeTypes DEF NodeInv

\* An answer that changes nothing.
LEMMA NothingReceived ==
  ASSUME IInv, NEW n \in Nodes, has[n] # None, NodeInv(n), NEW what, Receives(n, what),
         UNCHANGED <<mem, db>>,
         Rx(n).topic \notin doubt[n] \ Settles(Rx(n)) => Same(Rx(n).topic, mem[n], has[n])
  PROVE  NodeInv(n)'
BY Arrives, NothingTouched, ReceiveKeeps

LEMMA NetAnswerAgrees ==
  ASSUME IInv, NEW n \in Nodes, has[n] # None, NodeInv(n), OP_NETKEY_STATUS(n)
  PROVE  NodeInv(n)'
<1> DEFINE u == Rx(n).topic
           k2 == [mem[n] EXCEPT !.net = @ \ {u.idx}]
           e2 == [db[n] EXCEPT !.net = mem[n].net \ {u.idx}]
<1>1. Receives(n, "net")
  BY DEF OP_NETKEY_STATUS
<1>2. /\ u \in Settings /\ u.what = "net" /\ StatOk(mem[n], has[n], doubt[n], Rx(n))
      /\ mem[n] # None /\ mem[n] \in Known /\ db[n] # None /\ db[n] \in Entries
      /\ db[n].app = mem[n].app /\ Base(mem[n], has[n]) /\ Rx(n).status \in Statuses
  BY <1>1, Arrives, AnswerFields
<1>3. CASE Refused(n)
  <2>1. SaveNet(n, mem[n].net \ {u.idx})
    BY <1>2, <1>3 DEF OP_NETKEY_STATUS, Unknown, NetKeys
  <2>2. mem' = [mem EXCEPT ![n] = k2] /\ db' = [db EXCEPT ![n] = e2]
    BY <1>2, <2>1, SavedNet
  <2>3. mem'[n] = k2 /\ db'[n] = e2
    BY <2>2 DEF IInv, MemInv
  <2>4. /\ k2 \in Known /\ k2.app = mem[n].app /\ k2.sub = mem[n].sub /\ k2.comp = mem[n].comp
        /\ k2.net = mem[n].net \ {u.idx} /\ e2 \in Entries /\ e2.app = db[n].app
    BY <1>2 DEF Known, Entries
  <2>5. k2 # None /\ e2 # None
    BY <2>4, NoneAssumption
  <2>6. Touches(u, mem[n], k2)
    BY <1>2, NetTouched
  <2> HIDE DEF k2, e2
  <2>7. u.idx \notin has[n].net
    BY <1>2, <1>3 DEF StatOk, Refused, Statuses
  <2>8. Base(k2, has[n]) /\ Same(u, k2, has[n])
    BY <1>2, <2>4, <2>7 DEF Base, Same
  <2> QED
    BY <1>1, <1>2, <2>3, <2>4, <2>5, <2>6, <2>8, ReceiveKeeps
<1>4. CASE ~Refused(n)
  <2>1. UNCHANGED <<mem, db>>
    BY <1>2, <1>4 DEF OP_NETKEY_STATUS, Unknown
  <2>2. u.idx \in has[n].net /\ u.idx \in mem[n].net
    BY <1>2, <1>4 DEF StatOk, Refused, Base
  <2>3. Same(u, mem[n], has[n])
    BY <1>2, <2>2 DEF Same
  <2> QED
    BY <1>1, <2>1, <2>3, NothingReceived
<1> QED
  BY <1>3, <1>4

LEMMA AppAnswerAgrees ==
  ASSUME IInv, NEW n \in Nodes, has[n] # None, NodeInv(n), OP_APPKEY_STATUS(n)
  PROVE  NodeInv(n)'
<1> DEFINE u == Rx(n).topic
           k2 == [mem[n] EXCEPT !.app = @ \ {u.idx}]
           e2 == [db[n] EXCEPT !.app = mem[n].app \ {u.idx}]
<1>1. Receives(n, "app")
  BY DEF OP_APPKEY_STATUS
<1>2. /\ u \in Settings /\ u.what = "app" /\ StatOk(mem[n], has[n], doubt[n], Rx(n))
      /\ mem[n] # None /\ mem[n] \in Known /\ db[n] # None /\ db[n] \in Entries
      /\ db[n].app = mem[n].app /\ Base(mem[n], has[n]) /\ Rx(n).status \in Statuses
  BY <1>1, Arrives, AnswerFields
<1>3. CASE Refused(n)
  <2>1. SaveApp(n, mem[n].app \ {u.idx})
    BY <1>2, <1>3 DEF OP_APPKEY_STATUS, Unknown, AppKeys
  <2>2. mem' = [mem EXCEPT ![n] = k2] /\ db' = [db EXCEPT ![n] = e2]
    BY <1>2, <2>1, SavedApp
  <2>3. mem'[n] = k2 /\ db'[n] = e2
    BY <2>2 DEF IInv, MemInv
  <2>4. /\ k2 \in Known /\ k2.net = mem[n].net /\ k2.sub = mem[n].sub /\ k2.comp = mem[n].comp
        /\ k2.app = mem[n].app \ {u.idx} /\ e2 \in Entries /\ e2.app = k2.app
    BY <1>2 DEF Known, Entries
  <2>5. k2 # None /\ e2 # None
    BY <2>4, NoneAssumption
  <2>6. Touches(u, mem[n], k2)
    BY <1>2, AppTouched
  <2> HIDE DEF k2, e2
  <2>7. u.idx \notin has[n].app
    BY <1>2, <1>3 DEF StatOk, Refused, Statuses
  <2>8. Base(k2, has[n]) /\ Same(u, k2, has[n])
    BY <1>2, <2>4, <2>7 DEF Base, Same
  <2> QED
    BY <1>1, <1>2, <2>3, <2>4, <2>5, <2>6, <2>8, ReceiveKeeps
<1>4. CASE ~Refused(n)
  <2>1. UNCHANGED <<mem, db>>
    BY <1>2, <1>4 DEF OP_APPKEY_STATUS, Unknown
  <2>2. u.idx \in has[n].app <=> u.idx \in mem[n].app
    BY <1>2, <1>4 DEF StatOk, Refused
  <2>3. Same(u, mem[n], has[n])
    BY <1>2, <2>2 DEF Same
  <2> QED
    BY <1>1, <2>1, <2>3, NothingReceived
<1> QED
  BY <1>3, <1>4

LEMMA BindAnswerAgrees ==
  ASSUME IInv, NEW n \in Nodes, has[n] # None, NodeInv(n), OP_MODEL_APP_STATUS(n)
  PROVE  NodeInv(n)'
<1> DEFINE u == Rx(n).topic
           m == Rx(n).topic.model
           i == Rx(n).topic.idx
           k2 == [mem[n] EXCEPT !.bind[m] = @ \cup {i}]
           e2 == prov_db_add_binding(db[n], m, i)
<1>1. Receives(n, "bind")
  BY DEF OP_MODEL_APP_STATUS
<1>2. /\ u \in Settings /\ u.what = "bind" /\ StatOk(mem[n], has[n], doubt[n], Rx(n))
      /\ mem[n] # None /\ mem[n] \in Known /\ db[n] # None /\ db[n] \in Entries
      /\ db[n].app = mem[n].app /\ Base(mem[n], has[n]) /\ m \in Models /\ i \in AppIdx
  BY <1>1, Arrives, AnswerFields
<1>3. CASE Rx(n).status = "SUCCESS" /\ Adds(n, mem[n].bind[m], i)
  <2>1. mem' = [mem EXCEPT ![n].bind[m] = @ \cup {i}] /\ db' = [db EXCEPT ![n] = e2]
    BY <1>2, <1>3 DEF OP_MODEL_APP_STATUS, Unknown
  <2>2. mem' = [mem EXCEPT ![n] = k2]
    BY <2>1
  <2>3. mem'[n] = k2 /\ db'[n] = e2
    BY <2>1, <2>2 DEF IInv, MemInv
  <2>4. /\ k2 \in Known /\ k2.net = mem[n].net /\ k2.app = mem[n].app /\ k2.sub = mem[n].sub
        /\ k2.comp = mem[n].comp /\ i \in k2.bind[m]
    BY <1>2 DEF Known
  <2>5. e2 \in Entries /\ e2.app = mem[n].app
    <3>1. Pair(mem[n], db[n])
      BY <1>2 DEF IInv, MemInv
    <3>2. Pair(k2, e2)
      BY <1>2, <1>3, <3>1, BindPair DEF Adds
    <3>3. e2.app = db[n].app
      BY <1>2 DEF prov_db_add_binding, Entries
    <3> QED
      BY <1>2, <3>2, <3>3 DEF Pair
  <2>6. k2 # None /\ e2 # None
    BY <2>4, <2>5, NoneAssumption
  <2>7. Touches(u, mem[n], k2)
    BY <1>2, BindTouched
  <2> HIDE DEF k2, e2
  <2>8. Base(k2, has[n]) /\ Same(u, k2, has[n])
    BY <1>2, <2>4 DEF Base, Same
  <2> QED
    BY <1>1, <1>2, <2>3, <2>4, <2>5, <2>6, <2>7, <2>8, ReceiveKeeps
<1>4. CASE ~(Rx(n).status = "SUCCESS" /\ Adds(n, mem[n].bind[m], i))
  <2>1. UNCHANGED <<mem, db>>
    BY <1>2, <1>4 DEF OP_MODEL_APP_STATUS, Unknown
  <2>2. i \in has[n].bind[m] => i \in mem[n].bind[m]
    BY <1>2, <1>4 DEF StatOk, Adds
  <2>3. Same(u, mem[n], has[n])
    BY <1>2, <2>2 DEF Same
  <2> QED
    BY <1>1, <2>1, <2>3, NothingReceived
<1> QED
  BY <1>3, <1>4

LEMMA SubAnswerAgrees ==
  ASSUME IInv, NEW n \in Nodes, has[n] # None, NodeInv(n), OP_CONFIG_MODEL_SUB_STATUS(n)
  PROVE  NodeInv(n)'
<1> DEFINE u == Rx(n).topic
           m == Rx(n).topic.model
           i == Rx(n).topic.idx
           k2 == [mem[n] EXCEPT !.sub[m] = @ \cup {i}]
           e2 == prov_db_add_subscription(db[n], m, i)
<1>1. Receives(n, "sub")
  BY DEF OP_CONFIG_MODEL_SUB_STATUS
<1>2. /\ u \in Settings /\ u.what = "sub" /\ StatOk(mem[n], has[n], doubt[n], Rx(n))
      /\ mem[n] # None /\ mem[n] \in Known /\ db[n] # None /\ db[n] \in Entries
      /\ db[n].app = mem[n].app /\ Base(mem[n], has[n]) /\ m \in Models /\ i \in Groups
  BY <1>1, Arrives, AnswerFields
<1>3. CASE Rx(n).status = "SUCCESS" /\ Adds(n, mem[n].sub[m], i)
  <2>1. mem' = [mem EXCEPT ![n].sub[m] = @ \cup {i}] /\ db' = [db EXCEPT ![n] = e2]
    BY <1>2, <1>3 DEF OP_CONFIG_MODEL_SUB_STATUS, Unknown
  <2>2. mem' = [mem EXCEPT ![n] = k2]
    BY <2>1
  <2>3. mem'[n] = k2 /\ db'[n] = e2
    BY <2>1, <2>2 DEF IInv, MemInv
  <2>4. /\ k2 \in Known /\ k2.net = mem[n].net /\ k2.app = mem[n].app
        /\ k2.comp = mem[n].comp /\ k2.sub[m] = mem[n].sub[m] \cup {i}
        /\ \A o \in Models : o # m => k2.sub[o] = mem[n].sub[o]
    BY <1>2 DEF Known
  <2>5. e2 \in Entries /\ e2.app = mem[n].app
    <3>1. Pair(mem[n], db[n])
      BY <1>2 DEF IInv, MemInv
    <3>2. Pair(k2, e2)
      BY <1>2, <1>3, <3>1, SubPair DEF Adds
    <3>3. e2.app = db[n].app
      BY <1>2 DEF prov_db_add_subscription, Entries
    <3> QED
      BY <1>2, <3>2, <3>3 DEF Pair
  <2>6. k2 # None /\ e2 # None
    BY <2>4, <2>5, NoneAssumption
  <2>7. Touches(u, mem[n], k2)
    BY <1>2, SubTouched
  <2>8. i \in has[n].sub[m]
    BY <1>2, <1>3 DEF StatOk
  <2> HIDE DEF k2, e2
  <2>9. Base(k2, has[n])
    BY <1>2, <2>4, <2>8 DEF Base
  <2>10. Same(u, k2, has[n])
    BY <1>2, <2>4, <2>8 DEF Same
  <2> QED
    BY <1>1, <1>2, <2>3, <2>4, <2>5, <2>6, <2>7, <2>9, <2>10, ReceiveKeeps
<1>4. CASE ~(Rx(n).status = "SUCCESS" /\ Adds(n, mem[n].sub[m], i))
  <2>1. UNCHANGED <<mem, db>>
    BY <1>2, <1>4 DEF OP_CONFIG_MODEL_SUB_STATUS, Unknown
  <2>2. i \in has[n].sub[m] <=> i \in mem[n].sub[m]
    BY <1>2, <1>4 DEF StatOk, Adds, Base
  <2>3. Same(u, mem[n], has[n])
    BY <1>2, <2>2 DEF Same
  <2> QED
    BY <1>1, <2>1, <2>3, NothingReceived
<1> QED
  BY <1>3, <1>4

LEMMA PubAnswerAgrees ==
  ASSUME IInv, NEW n \in Nodes, has[n] # None, NodeInv(n), OP_CONFIG_MODEL_PUB_STATUS(n)
  PROVE  NodeInv(n)'
<1> DEFINE u == Rx(n).topic
           m == Rx(n).topic.model
           p == Rx(n).val
           k2 == [mem[n] EXCEPT !.pub[m] = p]
           e2 == [db[n] EXCEPT !.pub[m] = WithoutPeriod(p)]
<1>1. Receives(n, "pub")
  BY DEF OP_CONFIG_MODEL_PUB_STATUS
<1>2. /\ u \in Settings /\ u.what = "pub" /\ StatOk(mem[n], has[n], doubt[n], Rx(n))
      /\ mem[n] # None /\ mem[n] \in Known /\ db[n] # None /\ db[n] \in Entries
      /\ db[n].app = mem[n].app /\ Base(mem[n], has[n]) /\ m \in Models /\ p \in Pubs
  BY <1>1, Arrives, AnswerFields
<1>3. mem[n].comp
  BY <1>2 DEF StatOk
<1>4. CASE Rx(n).status = "SUCCESS"
  <2>1. mem' = [mem EXCEPT ![n].pub[m] = p] /\ db' = [db EXCEPT ![n].pub[m] = WithoutPeriod(p)]
    BY <1>2, <1>3, <1>4 DEF OP_CONFIG_MODEL_PUB_STATUS, Unknown, SavedPub
  <2>2. mem' = [mem EXCEPT ![n] = k2] /\ db' = [db EXCEPT ![n] = e2]
    BY <2>1
  <2>3. mem'[n] = k2 /\ db'[n] = e2
    BY <2>2 DEF IInv, MemInv
  <2>4. /\ k2 \in Known /\ k2.net = mem[n].net /\ k2.app = mem[n].app /\ k2.sub = mem[n].sub
        /\ k2.comp = mem[n].comp /\ k2.pub[m] = p
    BY <1>2 DEF Known
  <2>5. e2 \in Entries /\ e2.app = mem[n].app
    <3>1. Pair(mem[n], db[n])
      BY <1>2 DEF IInv, MemInv
    <3>2. Pair(k2, e2)
      BY <1>2, <1>3, <3>1, PubPair
    <3>3. e2.app = db[n].app
      BY <1>2 DEF Entries
    <3> QED
      BY <1>2, <3>2, <3>3 DEF Pair
  <2>6. k2 # None /\ e2 # None
    BY <2>4, <2>5, NoneAssumption
  <2>7. Touches(u, mem[n], k2)
    BY <1>2, PubTouched
  <2>8. WithoutPeriod(has[n].pub[m]) = WithoutPeriod(p)
    BY <1>2, <1>4 DEF StatOk
  <2> HIDE DEF k2, e2
  <2>9. Base(k2, has[n]) /\ Same(u, k2, has[n])
    BY <1>2, <2>4, <2>8 DEF Base, Same
  <2> QED
    BY <1>1, <1>2, <2>3, <2>4, <2>5, <2>6, <2>7, <2>9, ReceiveKeeps
<1>5. CASE Rx(n).status # "SUCCESS"
  <2>1. UNCHANGED <<mem, db>>
    BY <1>2, <1>5 DEF OP_CONFIG_MODEL_PUB_STATUS, Unknown
  <2>2. u \notin doubt[n] => Same(u, mem[n], has[n])
    BY <1>2, <1>5 DEF StatOk
  <2>3. Settles(Rx(n)) = {}
    BY <1>2, <1>5 DEF Settles
  <2> QED
    BY <1>1, <2>1, <2>2, <2>3, NothingReceived
<1> QED
  BY <1>4, <1>5

LEMMA StatusAgrees ==
  ASSUME IInv, NEW n \in Nodes, has[n] # None, NodeInv(n),
         \/ OP_CONFIG_DEFAULT_TTL_STATUS(n) \/ OP_DEV_COMP_STATUS(n)
         \/ OP_NODE_RESET_STATUS(n)
  PROVE  NodeInv(n)'
<1> DEFINE u == Rx(n).topic
<1>1. CASE OP_CONFIG_DEFAULT_TTL_STATUS(n)
  <2> DEFINE v == Rx(n).val[1]
             k2 == [mem[n] EXCEPT !.ttl = v]
             e2 == prov_db_node_set_ttl(db[n], v)
  <2>1. Receives(n, "ttl")
    BY <1>1 DEF OP_CONFIG_DEFAULT_TTL_STATUS
  <2>2. /\ u \in Settings /\ u.what = "ttl" /\ StatOk(mem[n], has[n], doubt[n], Rx(n))
        /\ mem[n] # None /\ mem[n] \in Known /\ db[n] # None /\ db[n] \in Entries
        /\ db[n].app = mem[n].app /\ Base(mem[n], has[n]) /\ v \in Ttls
    BY <2>1, Arrives, AnswerFields
  <2>3. mem' = [mem EXCEPT ![n].ttl = v] /\ db' = [db EXCEPT ![n] = e2]
    BY <1>1, <2>2 DEF OP_CONFIG_DEFAULT_TTL_STATUS, Unknown
  <2>4. mem' = [mem EXCEPT ![n] = k2]
    BY <2>3
  <2>5. mem'[n] = k2 /\ db'[n] = e2
    BY <2>3, <2>4 DEF IInv, MemInv
  <2>6. /\ k2 \in Known /\ k2.net = mem[n].net /\ k2.app = mem[n].app /\ k2.sub = mem[n].sub
        /\ k2.comp = mem[n].comp /\ k2.ttl = v /\ e2 \in Entries /\ e2.app = db[n].app
    BY <2>2 DEF Known, Entries, prov_db_node_set_ttl
  <2>7. k2 # None /\ e2 # None
    BY <2>6, NoneAssumption
  <2>8. Touches(u, mem[n], k2)
    BY <2>2, TtlTouched
  <2>9. has[n].ttl = v
    BY <2>2 DEF StatOk
  <2> HIDE DEF k2, e2
  <2>10. Base(k2, has[n]) /\ Same(u, k2, has[n])
    BY <2>2, <2>6, <2>9 DEF Base, Same
  <2> QED
    BY <2>1, <2>2, <2>5, <2>6, <2>7, <2>8, <2>10, ReceiveKeeps
<1>2. CASE OP_DEV_COMP_STATUS(n)
  <2> DEFINE lpn == Rx(n).val[1] = 1
             k2 == node_parse_composition(mem[n], lpn)
             e2 == prov_db_add_node_composition(db[n], lpn)
  <2>1. Receives(n, "comp")
    BY <1>2 DEF OP_DEV_COMP_STATUS
  <2>2. /\ u \in Settings /\ u.what = "comp"
        /\ mem[n] # None /\ mem[n] \in Known /\ db[n] # None /\ db[n] \in Entries
        /\ db[n].app = mem[n].app /\ Base(mem[n], has[n])
    BY <2>1, Arrives
  <2>3. mem' = [mem EXCEPT ![n] = k2] /\ db' = [db EXCEPT ![n] = e2]
    BY <1>2, <2>2 DEF OP_DEV_COMP_STATUS, Unknown
  <2>4. mem'[n] = k2 /\ db'[n] = e2
    BY <2>3 DEF IInv, MemInv
  <2>5. lpn \in BOOLEAN
    OBVIOUS
  <2> HIDE DEF lpn
  <2>6. /\ k2 \in Known /\ k2.net = mem[n].net /\ k2.app = mem[n].app /\ k2.sub = mem[n].sub
        /\ k2.comp /\ e2 \in Entries /\ e2.app = db[n].app
    BY <2>2, <2>5 DEF Known, Entries, node_parse_composition, prov_db_add_node_composition
  <2>7. k2 # None /\ e2 # None
    BY <2>6, NoneAssumption
  <2>8. Touches(u, mem[n], k2)
    BY <2>2, <2>5, CompTouched
  <2> HIDE DEF k2, e2
  <2>9. Base(k2, has[n]) /\ Same(u, k2, has[n])
    BY <2>2, <2>6 DEF Base, Same
  <2> QED
    BY <2>1, <2>2, <2>4, <2>6, <2>7, <2>8, <2>9, ReceiveKeeps
<1>3. CASE OP_NODE_RESET_STATUS(n)
  <2>1. Receives(n, "reset")
    BY <1>3 DEF OP_NODE_RESET_STATUS
  <2> QED
    BY <2>1, Arrives DEF StatOk
<1> QED
  BY <1>1, <1>2, <1>3

LEMMA ReceiveAgrees ==
  ASSUME IInv, AgreeInv, NEW n \in Nodes, client_msg_recvd(n)
  PROVE  AgreeInv'
<1>1. PICK what : Receives(n, what)
  BY DEF client_msg_recvd, OP_NETKEY_STATUS, OP_APPKEY_STATUS, OP_MODEL_APP_STATUS,
         OP_CONFIG_MODEL_SUB_STATUS, OP_CONFIG_MODEL_PUB_STATUS,
         OP_CONFIG_DEFAULT_TTL_STATUS, OP_DEV_COMP_STATUS, OP_NODE_RESET_STATUS
<1>2. /\ \A o \in Nodes \ {n} : mem'[o] = mem[o] /\ db'[o] = db[o]
      /\ db[n] # None => db'[n] # None
  BY AnswerStep, ChangesStep DEF IInv
<1>3. UNCHANGED <<has, reqs>>
      /\ \A o \in Nodes \ {n} : stats'[o] = stats[o] /\ doubt'[o] = doubt[o]
  BY <1>1 DEF Receives, IInv, MsgInv
<1>4. Alone(n) /\ db'[n] # None
  <2>1. db[n] # None
    BY <1>1 DEF Receives, AgreeInv, FreshInv
  <2> QED
    BY <1>2, <1>3, <2>1 DEF Alone
<1>5. ASSUME has'[n] # None PROVE NodeInv(n)'
  <2>1. has[n] # None /\ NodeInv(n)
    BY <1>3, <1>5 DEF AgreeInv
  <2> QED
    BY <2>1, NetAnswerAgrees, AppAnswerAgrees, BindAnswerAgrees, SubAnswerAgrees,
       PubAnswerAgrees, StatusAgrees DEF client_msg_recvd
<1> QED
  BY <1>4, <1>5, OneNode
-----------------------------------------------------------------------------
(* The node. *)

\* An answer of the node, whatever it makes of the node.
LEMMA AnswerKeeps ==
  ASSUME IInv, NEW n \in Nodes, has[n] # None, NodeInv(n), reqs[n] # <<>>,
         NEW h2, NEW status \in Statuses, Accepts(n, h2, status), Base(mem[n], h2),
         Elsewhere(Head(reqs[n]).topic, mem[n], has[n], mem[n], h2),
         StatOk(mem[n], h2, doubt[n], Ans(Head(reqs[n]), status, Echo(Head(reqs[n])))),
         \A x \in ToSet(Tail(reqs[n])) :
           x.op = "add" /\ x.topic.idx \notin mem[n].app => NoNewNet(has[n], h2, x)
  PROVE  NodeInv(n)'
<1> DEFINE s == reqs[n]
           r == Head(s)
           R == ToSet(s)
           S == ToSet(stats[n])
           a == Ans(r, status, Echo(r))
           k == mem[n]
           h == has[n]
           d == doubt[n]
<1>1. /\ s \in Seq(Asked) /\ R \in SUBSET Asked /\ S \in SUBSET Answers
      /\ stats[n] \in Seq(Answers)
  BY NodeTypes
<1>2. /\ Once(s) /\ Once(stats[n]) /\ Late(k, s) /\ Ok(k, h, d, R, S)
  BY DEF NodeInv
<1>3. 1 \in DOMAIN s /\ s[1] = r /\ Drops(s, 1, Tail(s)) /\ Tail(s) \in Seq(Asked)
  BY <1>1, TailDrops
<1>4. Left(s, r, Tail(s))
  <2> HIDE DEF s, r
  <2>1. Left(s, s[1], Tail(s))
    BY <1>1, <1>2, <1>3, DropMessage
  <2> QED
    BY <1>3, <2>1
<1>5. r \in R /\ r \in Asked /\ a \in Answers /\ a.topic = r.topic
  <2>1. r \in R /\ r \in Asked
    BY <1>1, <1>3 DEF ToSet
  <2> HIDE DEF r, R
  <2> QED
    BY <2>1 DEF Answers, Asked, Ans
<1>6. /\ has'[n] = h2 /\ reqs'[n] = Tail(s) /\ stats'[n] = Append(stats[n], a)
      /\ mem'[n] = k /\ db'[n] = db[n] /\ doubt'[n] = d
  BY DEF Accepts, IInv, MsgInv
<1>7. \A y \in S : y.topic # a.topic
  BY <1>2, <1>5 DEF Ok
<1>8. Once(Append(stats[n], a)) /\ ToSet(Append(stats[n], a)) = S \cup {a}
  <2> HIDE DEF a
  <2> QED
    BY <1>1, <1>2, <1>5, <1>7, AppendMessage
<1>9. Once(Tail(s)) /\ ToSet(Tail(s)) = R \ {r} /\ Late(k, Tail(s))
  BY <1>2, <1>4 DEF Left
<1>10. \A x \in R \ {r} : x.topic # r.topic
  BY <1>4 DEF Left
<1>11. Ok(k, h2, d, R \ {r}, S \cup {a})
  <2> HIDE DEF k, h, d, s, S, R, r, a
  <2> QED
    BY <1>1, <1>2, <1>5, <1>9, <1>10, OkAnswer DEF k, h, d, a, r, s
<1> QED
  BY <1>2, <1>6, <1>8, <1>9, <1>11 DEF NodeInv

\* What holds when a request arrives.
LEMMA Asks ==
  ASSUME IInv, NEW n \in Nodes, has[n] # None, NodeInv(n), reqs[n] # <<>>
  PROVE  /\ Head(reqs[n]) \in Asked /\ Head(reqs[n]).topic \in Settings
         /\ ReqOk(mem[n], has[n], doubt[n], Head(reqs[n]))
         /\ mem[n] \in Known /\ has[n] \in Known /\ Base(mem[n], has[n])
<1>1. reqs[n] \in Seq(Asked)
  BY NodeTypes
<1>2. Head(reqs[n]) \in Asked /\ Head(reqs[n]) \in ToSet(reqs[n])
  BY <1>1, TailDrops DEF ToSet
<1>3. ReqOk(mem[n], has[n], doubt[n], Head(reqs[n])) /\ Base(mem[n], has[n])
  BY <1>2 DEF NodeInv, Ok
<1> QED
  BY <1>2, <1>3, AskedSetting, NodeTypes

\* An answer that touches one topic of the node, and no net key.
LEMMA AnswerTouches ==
  ASSUME IInv, NEW n \in Nodes, has[n] # None, NodeInv(n), reqs[n] # <<>>,
         NEW h2, NEW status \in Statuses, Accepts(n, h2, status), Base(mem[n], h2),
         Touches(Head(reqs[n]).topic, has[n], h2), h2.net = has[n].net,
         StatOk(mem[n], h2, doubt[n], Ans(Head(reqs[n]), status, Echo(Head(reqs[n]))))
  PROVE  NodeInv(n)'
<1>1. Elsewhere(Head(reqs[n]).topic, mem[n], has[n], mem[n], h2)
  BY Asks, NodeElsewhere
<1>2. \A x \in ToSet(Tail(reqs[n])) : NoNewNet(has[n], h2, x)
  BY DEF NoNewNet
<1> QED
  BY <1>1, <1>2, AnswerKeeps

\* An answer that changes nothing.
LEMMA AnswerNothing ==
  ASSUME IInv, NEW n \in Nodes, has[n] # None, NodeInv(n), reqs[n] # <<>>,
         NEW status \in Statuses, Accepts(n, has[n], status),
         StatOk(mem[n], has[n], doubt[n], Ans(Head(reqs[n]), status, Echo(Head(reqs[n]))))
  PROVE  NodeInv(n)'
BY Asks, NothingTouched, AnswerTouches

LEMMA NetAsked ==
  ASSUME IInv, NEW n \in Nodes, has[n] # None, NodeInv(n), NodeAnswers(n),
         Head(reqs[n]).topic.what = "net"
  PROVE  NodeInv(n)'
<1> DEFINE r == Head(reqs[n])
           u == r.topic
           h == has[n]
           k == mem[n]
           h2 == [h EXCEPT !.net = @ \cup {u.idx}]
           a(st) == Ans(r, st, Echo(r))
<1>1. reqs[n] # <<>>
  BY DEF NodeAnswers
<1>2. /\ r \in Asked /\ u \in Settings /\ ReqOk(k, h, doubt[n], r) /\ u.what = "net"
      /\ k \in Known /\ h \in Known /\ Base(k, h)
  BY <1>1, Asks
<1>3. r.op = "add" /\ u.idx \in k.net
  BY <1>2 DEF ReqOk
<1>4. \A st \in Statuses : a(st).topic = u /\ a(st).status = st
  BY DEF Ans
<1> HIDE DEF a
<1>5. CASE u.idx \in h.net
  <2>1. Accepts(n, h, "IDX_ALREADY_STORED")
    BY <1>2, <1>3, <1>5 DEF NodeAnswers
  <2>2. StatOk(k, h, doubt[n], a("IDX_ALREADY_STORED"))
    BY <1>2, <1>4, <1>5 DEF StatOk, Statuses
  <2> QED
    BY <1>1, <2>1, <2>2, AnswerNothing DEF Statuses, a
<1>6. CASE u.idx \notin h.net /\ Accepts(n, h, "OTHER")
  <2>1. StatOk(k, h, doubt[n], a("OTHER"))
    BY <1>2, <1>4, <1>6 DEF StatOk, Statuses
  <2> QED
    BY <1>1, <1>6, <2>1, AnswerNothing DEF Statuses, a
<1>7. CASE Accepts(n, h2, "SUCCESS")
  <2>1. /\ h2 \in Known /\ h2.net = h.net \cup {u.idx} /\ h2.app = h.app
        /\ h2.bind = h.bind /\ h2.sub = h.sub
    BY <1>2, RequestFields DEF Known
  <2>2. Elsewhere(u, k, h, k, h2)
    BY <1>2, NetTouched, NodeElsewhere
  <2> HIDE DEF h2
  <2>3. Base(k, h2)
    BY <1>2, <1>3, <2>1 DEF Base
  <2>4. StatOk(k, h2, doubt[n], a("SUCCESS"))
    BY <1>2, <1>4, <2>1 DEF StatOk, Statuses
  <2>5. ASSUME NEW x \in ToSet(Tail(reqs[n])), x.op = "add", x.topic.idx \notin k.app
        PROVE  NoNewNet(h, h2, x)
    <3>1. /\ reqs[n] \in Seq(Asked) /\ 1 \in DOMAIN reqs[n] /\ reqs[n][1] = r
          /\ Drops(reqs[n], 1, Tail(reqs[n]))
      BY <1>1, NodeTypes, TailDrops
    <3>2. PICK j \in DOMAIN reqs[n] : x = reqs[n][j]
      BY <3>1 DEF Drops, ToSet
    <3>3. Late(k, reqs[n])
      BY DEF NodeInv
    <3>4. x.topic.what = "app" => Bound[x.topic.idx] # u.idx
      BY <1>2, <2>5, <3>1, <3>2, <3>3 DEF Late
    <3> QED
      BY <2>1, <3>4 DEF NoNewNet
  <2> QED
    BY <1>1, <1>7, <2>2, <2>3, <2>4, <2>5, AnswerKeeps DEF Statuses, a
<1> QED
  BY <1>2, <1>3, <1>5, <1>6, <1>7 DEF NodeAnswers

LEMMA AppAsked ==
  ASSUME IInv, NEW n \in Nodes, has[n] # None, NodeInv(n), NodeAnswers(n),
         Head(reqs[n]).topic.what = "app"
  PROVE  NodeInv(n)'
<1> DEFINE r == Head(reqs[n])
           u == r.topic
           h == has[n]
           k == mem[n]
           h2 == [h EXCEPT !.app = @ \cup {u.idx}]
           h3 == [h EXCEPT !.app = @ \ {u.idx}, !.bind = [m \in Models |-> @[m] \ {u.idx}]]
           a(st) == Ans(r, st, Echo(r))
<1>1. reqs[n] # <<>>
  BY DEF NodeAnswers
<1>2. /\ r \in Asked /\ u \in Settings /\ ReqOk(k, h, doubt[n], r) /\ u.what = "app"
      /\ k \in Known /\ h \in Known /\ Base(k, h)
  BY <1>1, Asks
<1>3. \A st \in Statuses : a(st).topic = u /\ a(st).status = st
  BY DEF Ans
<1> HIDE DEF a
<1>4. CASE r.op = "add" /\ u.idx \in h.app
  <2>1. Accepts(n, h, "IDX_ALREADY_STORED")
    BY <1>2, <1>4 DEF NodeAnswers
  <2>2. u.idx \in k.app
    BY <1>2, <1>4 DEF ReqOk, Base
  <2>3. StatOk(k, h, doubt[n], a("IDX_ALREADY_STORED"))
    BY <1>2, <1>3, <1>4, <2>2 DEF StatOk, Statuses
  <2> QED
    BY <1>1, <2>1, <2>3, AnswerNothing DEF Statuses, a
<1>5. CASE r.op = "add" /\ u.idx \notin h.app /\ Accepts(n, h, "OTHER")
  <2>1. StatOk(k, h, doubt[n], a("OTHER"))
    BY <1>2, <1>3, <1>5 DEF StatOk, Statuses
  <2> QED
    BY <1>1, <1>5, <2>1, AnswerNothing DEF Statuses, a
<1>6. CASE r.op = "add" /\ Bound[u.idx] \in h.net /\ Accepts(n, h2, "SUCCESS")
  <2>1. /\ h2 \in Known /\ h2.app = h.app \cup {u.idx} /\ h2.net = h.net
        /\ h2.bind = h.bind /\ h2.sub = h.sub
    BY <1>2, RequestFields DEF Known
  <2>2. Touches(u, h, h2)
    BY <1>2, AppTouched
  <2>3. u.idx \in k.app
    BY <1>2, <1>6 DEF ReqOk
  <2> HIDE DEF h2
  <2>4. Base(k, h2)
    BY <1>2, <1>6, <2>1 DEF Base
  <2>5. StatOk(k, h2, doubt[n], a("SUCCESS"))
    BY <1>2, <1>3, <2>1, <2>3 DEF StatOk, Statuses
  <2> QED
    BY <1>1, <1>6, <2>1, <2>2, <2>4, <2>5, AnswerTouches DEF Statuses, a
<1>7. CASE r.op = "delete"
  <2>1. Accepts(n, h3, "SUCCESS")
    BY <1>2, <1>7 DEF NodeAnswers
  <2>2. /\ h3 \in Known /\ h3.app = h.app \ {u.idx} /\ h3.net = h.net
        /\ \A m \in Models : h3.bind[m] = h.bind[m] \ {u.idx}
        /\ h3.sub = h.sub /\ h3.pub = h.pub /\ h3.ttl = h.ttl
    BY <1>2 DEF Known
  <2>3. u.idx \notin k.app
    BY <1>2, <1>7 DEF ReqOk
  <2> HIDE DEF h3
  <2>4. Only(u, h, h3) /\ Grows(u, h3, h) /\ Only(u, k, k) /\ Grows(u, k, k)
    <3>1. Formed(u)
      BY <1>2, SettingForm
    <3> QED
      BY <1>2, <2>2, <3>1 DEF Formed, Only, Grows, At
  <2>5. Elsewhere(u, k, h, k, h3)
    BY <1>2, <2>4, OnlyElsewhere
  <2>6. Base(k, h3)
    BY <1>2, <2>2 DEF Base
  <2>7. StatOk(k, h3, doubt[n], a("SUCCESS"))
    BY <1>2, <1>3, <2>2, <2>3 DEF StatOk, Statuses
  <2>8. \A x \in ToSet(Tail(reqs[n])) : NoNewNet(h, h3, x)
    BY <2>2 DEF NoNewNet
  <2> QED
    BY <1>1, <2>1, <2>5, <2>6, <2>7, <2>8, AnswerKeeps DEF Statuses, a
<1>8. r.op \in {"add", "delete"}
  BY <1>2 DEF ReqOk
<1> QED
  BY <1>2, <1>4, <1>5, <1>6, <1>7, <1>8 DEF NodeAnswers

LEMMA BindAsked ==
  ASSUME IInv, NEW n \in Nodes, has[n] # None, NodeInv(n), NodeAnswers(n),
         Head(reqs[n]).topic.what = "bind"
  PROVE  NodeInv(n)'
<1> DEFINE r == Head(reqs[n])
           u == r.topic
           h == has[n]
           k == mem[n]
           h2 == [h EXCEPT !.bind[u.model] = @ \cup {u.idx}]
           a(st) == Ans(r, st, Echo(r))
<1>1. reqs[n] # <<>>
  BY DEF NodeAnswers
<1>2. /\ r \in Asked /\ u \in Settings /\ ReqOk(k, h, doubt[n], r) /\ u.what = "bind"
      /\ k \in Known /\ h \in Known /\ Base(k, h) /\ u.model \in Models /\ u.idx \in AppIdx
  BY <1>1, Asks, RequestFields
<1>3. \A st \in Statuses : a(st).topic = u /\ a(st).status = st
  BY DEF Ans
<1>4. k.comp
  BY <1>2 DEF ReqOk
<1> HIDE DEF a
<1>5. CASE u.idx \notin h.app
  <2>1. Accepts(n, h, "OTHER")
    BY <1>2, <1>5 DEF NodeAnswers
  <2>2. u.idx \notin h.bind[u.model]
    BY <1>2, <1>5 DEF Base
  <2>3. StatOk(k, h, doubt[n], a("OTHER"))
    BY <1>2, <1>3, <1>4, <2>2 DEF StatOk, Statuses
  <2> QED
    BY <1>1, <2>1, <2>3, AnswerNothing DEF Statuses, a
<1>6. CASE u.idx \in h.app
  <2>1. Accepts(n, h2, "SUCCESS")
    BY <1>2, <1>6 DEF NodeAnswers
  <2>2. /\ h2 \in Known /\ h2.app = h.app /\ h2.net = h.net /\ h2.sub = h.sub
        /\ h2.bind[u.model] = h.bind[u.model] \cup {u.idx}
        /\ \A m \in Models : m # u.model => h2.bind[m] = h.bind[m]
    BY <1>2 DEF Known
  <2>3. Touches(u, h, h2)
    BY <1>2, BindTouched
  <2> HIDE DEF h2
  <2>4. Base(k, h2)
    BY <1>2, <1>6, <2>2 DEF Base
  <2>5. StatOk(k, h2, doubt[n], a("SUCCESS"))
    BY <1>2, <1>3, <1>4 DEF StatOk, Statuses
  <2> QED
    BY <1>1, <2>1, <2>2, <2>3, <2>4, <2>5, AnswerTouches DEF Statuses, a
<1> QED
  BY <1>5, <1>6

LEMMA SubAsked ==
  ASSUME IInv, NEW n \in Nodes, has[n] # None, NodeInv(n), NodeAnswers(n),
         Head(reqs[n]).topic.what = "sub"
  PROVE  NodeInv(n)'
<1> DEFINE r == Head(reqs[n])
           u == r.topic
           h == has[n]
           k == mem[n]
           h2 == [h EXCEPT !.sub[u.model] = @ \cup {u.idx}]
           a(st) == Ans(r, st, Echo(r))
<1>1. reqs[n] # <<>>
  BY DEF NodeAnswers
<1>2. /\ r \in Asked /\ u \in Settings /\ ReqOk(k, h, doubt[n], r) /\ u.what = "sub"
      /\ k \in Known /\ h \in Known /\ Base(k, h) /\ u.model \in Models /\ u.idx \in Groups
  BY <1>1, Asks, RequestFields
<1>3. \A st \in Statuses : a(st).topic = u /\ a(st).status = st
  BY DEF Ans
<1>4. k.comp
  BY <1>2 DEF ReqOk
<1> HIDE DEF a
<1>5. CASE u.idx \in h.sub[u.model]
  <2>1. Accepts(n, h, "SUCCESS")
    BY <1>2, <1>5 DEF NodeAnswers
  <2>2. StatOk(k, h, doubt[n], a("SUCCESS"))
    BY <1>2, <1>3, <1>4, <1>5 DEF StatOk, Statuses
  <2> QED
    BY <1>1, <2>1, <2>2, AnswerNothing DEF Statuses, a
<1>6. CASE u.idx \notin h.sub[u.model] /\ Accepts(n, h, "OTHER")
  <2>1. StatOk(k, h, doubt[n], a("OTHER"))
    BY <1>2, <1>3, <1>4, <1>6 DEF StatOk, Statuses
  <2> QED
    BY <1>1, <1>6, <2>1, AnswerNothing DEF Statuses, a
<1>7. CASE Accepts(n, h2, "SUCCESS")
  <2>1. /\ h2 \in Known /\ h2.app = h.app /\ h2.net = h.net /\ h2.bind = h.bind
        /\ h2.sub[u.model] = h.sub[u.model] \cup {u.idx}
        /\ \A m \in Models : m # u.model => h2.sub[m] = h.sub[m]
    BY <1>2 DEF Known
  <2>2. Touches(u, h, h2)
    BY <1>2, SubTouched
  <2> HIDE DEF h2
  <2>3. Base(k, h2)
    BY <1>2, <2>1 DEF Base
  <2>4. StatOk(k, h2, doubt[n], a("SUCCESS"))
    BY <1>2, <1>3, <1>4, <2>1 DEF StatOk, Statuses
  <2> QED
    BY <1>1, <1>7, <2>1, <2>2, <2>3, <2>4, AnswerTouches DEF Statuses, a
<1> QED
  BY <1>2, <1>5, <1>6, <1>7 DEF NodeAnswers

LEMMA PubAsked ==
  ASSUME IInv, NEW n \in Nodes, has[n] # None, NodeInv(n), NodeAnswers(n),
         Head(reqs[n]).topic.what = "pub"
  PROVE  NodeInv(n)'
<1> DEFINE r == Head(reqs[n])
           u == r.topic
           h == has[n]
           k == mem[n]
           h2 == [h EXCEPT !.pub[u.model] = r.val]
           a(st) == Ans(r, st, Echo(r))
<1>1. reqs[n] # <<>>
  BY DEF NodeAnswers
<1>2. /\ r \in Asked /\ u \in Settings /\ ReqOk(k, h, doubt[n], r) /\ u.what = "pub"
      /\ k \in Known /\ h \in Known /\ Base(k, h) /\ u.model \in Models /\ r.val \in Pubs
  BY <1>1, Asks, RequestFields
<1>3. \A st \in Statuses : a(st).topic = u /\ a(st).status = st /\ a(st).val = r.val
  BY <1>2 DEF Ans, Echo
<1>4. k.comp /\ (u \notin doubt[n] => Same(u, k, h))
  BY <1>2 DEF ReqOk
<1> HIDE DEF a
<1>5. CASE Accepts(n, h, "OTHER")
  <2>1. StatOk(k, h, doubt[n], a("OTHER"))
    BY <1>2, <1>3, <1>4 DEF StatOk, Statuses
  <2> QED
    BY <1>1, <1>5, <2>1, AnswerNothing DEF Statuses, a
<1>6. CASE Accepts(n, h2, "SUCCESS")
  <2>1. /\ h2 \in Known /\ h2.app = h.app /\ h2.net = h.net /\ h2.bind = h.bind
        /\ h2.sub = h.sub /\ h2.pub[u.model] = r.val
    BY <1>2 DEF Known
  <2>2. Touches(u, h, h2)
    BY <1>2, PubTouched
  <2> HIDE DEF h2
  <2>3. Base(k, h2)
    BY <1>2, <2>1 DEF Base
  <2>4. StatOk(k, h2, doubt[n], a("SUCCESS"))
    BY <1>2, <1>3, <1>4, <2>1 DEF StatOk, Statuses
  <2> QED
    BY <1>1, <1>6, <2>1, <2>2, <2>3, <2>4, AnswerTouches DEF Statuses, a
<1> QED
  BY <1>2, <1>5, <1>6 DEF NodeAnswers

LEMMA StateAsked ==
  ASSUME IInv, NEW n \in Nodes, has[n] # None, NodeInv(n), NodeAnswers(n),
         Head(reqs[n]).topic.what \in {"ttl", "comp"}
  PROVE  NodeInv(n)'
<1> DEFINE r == Head(reqs[n])
           u == r.topic
           h == has[n]
           k == mem[n]
           h2 == [h EXCEPT !.ttl = r.val[1]]
           a(st) == Ans(r, st, Echo(r))
<1>1. reqs[n] # <<>>
  BY DEF NodeAnswers
<1>2. /\ r \in Asked /\ u \in Settings /\ k \in Known /\ h \in Known /\ Base(k, h)
      /\ u.what = "ttl" => r.val[1] \in Ttls
  BY <1>1, Asks, RequestFields
<1>3. a("SUCCESS").topic = u /\ (u.what = "ttl" => a("SUCCESS").val = r.val)
  BY DEF Ans, Echo
<1> HIDE DEF a
<1>4. CASE u.what = "comp"
  <2>1. Accepts(n, h, "SUCCESS")
    BY <1>4 DEF NodeAnswers
  <2>2. StatOk(k, h, doubt[n], a("SUCCESS"))
    BY <1>3, <1>4 DEF StatOk
  <2> QED
    BY <1>1, <2>1, <2>2, AnswerNothing DEF Statuses, a
<1>5. CASE u.what = "ttl"
  <2>1. Accepts(n, h2, "SUCCESS")
    BY <1>5 DEF NodeAnswers
  <2>2. /\ h2 \in Known /\ h2.app = h.app /\ h2.net = h.net /\ h2.bind = h.bind
        /\ h2.sub = h.sub /\ h2.ttl = r.val[1]
    BY <1>2, <1>5 DEF Known
  <2>3. Touches(u, h, h2)
    BY <1>2, <1>5, TtlTouched
  <2> HIDE DEF h2
  <2>4. Base(k, h2)
    BY <1>2, <2>2 DEF Base
  <2>5. StatOk(k, h2, doubt[n], a("SUCCESS"))
    BY <1>3, <1>5, <2>2 DEF StatOk
  <2> QED
    BY <1>1, <2>1, <2>2, <2>3, <2>4, <2>5, AnswerTouches DEF Statuses, a
<1> QED
  BY <1>4, <1>5

LEMMA NodeAgrees ==
  ASSUME IInv, AgreeInv, NEW n \in Nodes, NodeAnswers(n)
  PROVE  AgreeInv'
<1>1. has[n] # None /\ NodeInv(n) /\ reqs[n] # <<>>
  BY DEF NodeAnswers, AgreeInv
<1>2. UNCHANGED <<mem, db, doubt>>
  BY DEF NodeAnswers, Accepts
<1>3. \A o \in Nodes \ {n} : has'[o] = has[o] /\ reqs'[o] = reqs[o] /\ stats'[o] = stats[o]
  BY DEF NodeAnswers, Accepts, IInv, MsgInv
<1>4. Alone(n) /\ db'[n] # None
  BY <1>1, <1>2, <1>3 DEF Alone, NodeInv
<1>5. ASSUME has'[n] # None PROVE NodeInv(n)'
  <2>1. Head(reqs[n]).topic.what # "reset"
    <3> SUFFICES ASSUME Head(reqs[n]).topic.what = "reset" PROVE FALSE
      OBVIOUS
    <3>1. Accepts(n, None, "SUCCESS")
      BY DEF NodeAnswers
    <3> QED
      BY <1>5, <3>1 DEF Accepts, IInv, MsgInv
  <2>2. Head(reqs[n]).topic.what \in
          {"net", "app", "bind", "sub", "pub", "ttl", "comp", "reset"}
    BY <1>1, Asks, RequestFields DEF Topics
  <2> QED
    BY <1>1, <2>1, <2>2, NetAsked, AppAsked, BindAsked, SubAsked, PubAsked, StateAsked
<1> QED
  BY <1>4, <1>5, OneNode
-----------------------------------------------------------------------------
(* A lost message, provisioning and a start. *)

LEMMA LoseAgrees ==
  ASSUME IInv, AgreeInv, NEW n \in Nodes, Lose(n)
  PROVE  AgreeInv'
<1>1. UNCHANGED <<mem, db, has>>
  BY DEF Lose
<1>2. \A o \in Nodes \ {n} : reqs'[o] = reqs[o] /\ stats'[o] = stats[o] /\ doubt'[o] = doubt[o]
  BY DEF Lose, IInv, MsgInv
<1>3. Alone(n) /\ db'[n] # None
  <2>1. reqs[n] # <<>> \/ stats[n] # <<>>
    BY DEF Lose
  <2> QED
    BY <1>1, <1>2, <2>1 DEF Alone, AgreeInv, FreshInv
<1>4. ASSUME has'[n] # None PROVE NodeInv(n)'
  <2> DEFINE k == mem[n]
             h == has[n]
             d == doubt[n]
             R == ToSet(reqs[n])
             S == ToSet(stats[n])
  <2>1. has[n] # None /\ NodeInv(n)
    BY <1>1, <1>4 DEF AgreeInv
  <2>2. /\ reqs[n] \in Seq(Asked) /\ stats[n] \in Seq(Answers)
        /\ R \in SUBSET Asked /\ S \in SUBSET Answers
    BY <2>1, NodeTypes
  <2>3. /\ Once(reqs[n]) /\ Once(stats[n]) /\ Late(k, reqs[n]) /\ Ok(k, h, d, R, S)
    BY <2>1 DEF NodeInv
  <2>4. ASSUME NEW i \in DOMAIN reqs[n],
               doubt' = [doubt EXCEPT ![n] = @ \cup Opens(reqs[n][i])],
               reqs' = [reqs EXCEPT ![n] = RemoveAt(@, i)], UNCHANGED stats
        PROVE  NodeInv(n)'
    <3> DEFINE s2 == RemoveAt(reqs[n], i)
               x == reqs[n][i]
    <3>1. s2 \in Seq(Asked) /\ Drops(reqs[n], i, s2)
      BY <2>2, RemoveAtType, RemoveDrops
    <3>2. Left(reqs[n], x, s2) /\ x \in R
      <4> HIDE DEF s2
      <4> QED
        BY <2>2, <2>3, <3>1, DropMessage DEF ToSet
    <3>3. doubt'[n] = d \cup Opens(x) /\ reqs'[n] = s2 /\ stats'[n] = stats[n]
      BY <2>4 DEF IInv, MsgInv
    <3> HIDE DEF s2, x
    <3>4. /\ ToSet(s2) \in SUBSET R /\ OthersStay(x.topic, R, ToSet(s2))
          /\ \A y \in ToSet(s2) : y.topic # x.topic
      BY <3>2 DEF Left
    <3>5. OthersStay(x.topic, S, S) /\ \A y \in S : y.topic # x.topic
      BY <2>3, <3>2 DEF OthersStay, Ok
    <3>6. Ok(k, h, d \cup Opens(x), ToSet(s2), S)
      <4> HIDE DEF k, h, d, R, S
      <4> QED
        BY <2>2, <2>3, <3>2, <3>4, <3>5, OkLose
    <3>7. Once(s2) /\ Late(k, s2)
      BY <2>3, <3>2 DEF Left
    <3> QED
      BY <1>1, <2>1, <2>3, <3>3, <3>6, <3>7 DEF NodeInv
  <2>5. ASSUME NEW i \in DOMAIN stats[n],
               doubt' = [doubt EXCEPT ![n] = @ \cup Opens(stats[n][i])],
               stats' = [stats EXCEPT ![n] = RemoveAt(@, i)], UNCHANGED reqs
        PROVE  NodeInv(n)'
    <3> DEFINE s2 == RemoveAt(stats[n], i)
               x == stats[n][i]
    <3>1. s2 \in Seq(Answers) /\ Drops(stats[n], i, s2)
      BY <2>2, RemoveAtType, RemoveDrops
    <3>2. Left(stats[n], x, s2) /\ x \in S
      <4> HIDE DEF s2
      <4> QED
        BY <2>2, <2>3, <3>1, DropMessage DEF ToSet
    <3>3. doubt'[n] = d \cup Opens(x) /\ stats'[n] = s2 /\ reqs'[n] = reqs[n]
      BY <2>5 DEF IInv, MsgInv
    <3> HIDE DEF s2, x
    <3>4. /\ ToSet(s2) \in SUBSET S /\ OthersStay(x.topic, S, ToSet(s2))
          /\ \A y \in ToSet(s2) : y.topic # x.topic
      BY <3>2 DEF Left
    <3>5. OthersStay(x.topic, R, R) /\ \A y \in R : y.topic # x.topic
      BY <2>3, <3>2 DEF OthersStay, Ok
    <3>6. Ok(k, h, d \cup Opens(x), R, ToSet(s2))
      <4> HIDE DEF k, h, d, R, S
      <4> QED
        BY <2>2, <2>3, <3>2, <3>4, <3>5, OkLose
    <3>7. Once(s2)
      BY <3>2 DEF Left
    <3> QED
      BY <1>1, <2>1, <2>3, <3>3, <3>6, <3>7 DEF NodeInv
  <2> QED
    BY <2>4, <2>5 DEF Lose
<1> QED
  BY <1>3, <1>4, OneNode

\* A new node has what the program knows of it, but for the TTL.
LEMMA ProvisionAgrees ==
  ASSUME IInv, AgreeInv, NEW n \in Nodes, mesh_prov_done(n)
  PROVE  AgreeInv'
<1>1. /\ mem'[n] = NewNode /\ db'[n] = NewEntry /\ has'[n] = NewDevice
      /\ UNCHANGED <<reqs, stats, doubt>>
  BY DEF mesh_prov_done, IInv, MemInv, MsgInv
<1>2. Alone(n)
  BY DEF mesh_prov_done, Alone, IInv, MemInv, MsgInv
<1>3. NewNode # None /\ NewEntry # None /\ NewEntry.app = NewNode.app
  BY NewTypes, NoneAssumption DEF NewEntry, NewNode
<1>4. reqs[n] = <<>> /\ stats[n] = <<>> /\ TtlTopic \in doubt[n]
  BY DEF mesh_prov_done, AgreeInv, FreshInv
<1>5. Once(<<>>) /\ Late(NewNode, <<>>) /\ ToSet(<<>>) = {}
  BY DEF Once, Late, ToSet
<1>6. /\ NewDevice.net = NewNode.net /\ NewDevice.app = {} /\ NewNode.app = {}
      /\ NewDevice.bind = NewNode.bind /\ NewDevice.sub = NewNode.sub
      /\ NewDevice.pub = NewNode.pub /\ \A m \in Models : NewNode.bind[m] = {}
  BY DEF NewDevice, NewNode
<1>7. Base(NewNode, NewDevice)
  BY <1>6 DEF Base
<1>8. ASSUME NEW t \in Settings, t \notin doubt[n] PROVE Same(t, NewNode, NewDevice)
  <2>1. Formed(t) /\ t # TtlTopic
    BY <1>4, <1>8, SettingForm
  <2> QED
    BY <1>6, <2>1 DEF Formed, Same
<1>9. Ok(NewNode, NewDevice, doubt[n], {}, {})
  BY <1>7, <1>8 DEF Ok
<1>10. NodeInv(n)'
  BY <1>1, <1>3, <1>4, <1>5, <1>9 DEF NodeInv
<1> QED
  BY <1>1, <1>2, <1>3, <1>10, OneNode

\* What is read is what was known, the period of a publication apart.
LEMMA RestartAgrees ==
  ASSUME IInv, AgreeInv, Restart
  PROVE  AgreeInv'
<1>1. /\ UNCHANGED <<db, has, reqs, stats, doubt>>
      /\ \A n \in Nodes : mem'[n] = IF db[n] = None THEN None ELSE ReadNode(db[n])
  BY DEF Restart
<1>2. FreshInv'
  BY <1>1 DEF AgreeInv, FreshInv
<1>3. ASSUME NEW n \in Nodes, has'[n] # None PROVE NodeInv(n)'
  <2> DEFINE k == mem[n]
             e == db[n]
             k2 == ReadNode(e)
             h == has[n]
             R == ToSet(reqs[n])
             S == ToSet(stats[n])
  <2>1. has[n] # None /\ NodeInv(n)
    BY <1>1, <1>3 DEF AgreeInv
  <2>2. /\ k \in Known /\ e \in Entries /\ Mirror(k, e)
        /\ R \in SUBSET Asked /\ S \in SUBSET Answers
    BY <2>1, NodeTypes
  <2>3. /\ e # None /\ e.app = k.app /\ Once(reqs[n]) /\ Once(stats[n])
        /\ Late(k, reqs[n]) /\ Ok(k, h, doubt[n], R, S) /\ Base(k, h)
    BY <2>1 DEF NodeInv, Ok
  <2>4. /\ k2 \in Known /\ k2.net = e.net
        /\ k2.app = {i \in e.app : Bound[i] \in e.net}
        /\ k2.comp = e.comp /\ k2.ttl = e.ttl
        /\ k2.bind = [m \in Models |-> ToSet(e.bind[m])]
        /\ k2.sub = [m \in Models |-> ToSet(e.sub[m])]
        /\ k2.pub = [m \in Models |-> WithoutPeriod(e.pub[m])]
    BY <2>2, ReadType DEF ReadNode, Entries
  <2>5. mem'[n] = k2 /\ k2 # None
    BY <1>1, <2>3, <2>4, NoneAssumption
  <2> HIDE DEF k2
  <2>6. k2.app = k.app
    BY <2>2, <2>3, <2>4 DEF Mirror, Base
  <2>7. /\ k2.net = k.net /\ k2.comp = k.comp /\ k2.ttl = k.ttl
        /\ \A m \in Models : /\ k2.bind[m] = k.bind[m] /\ k2.sub[m] = k.sub[m]
                             /\ k2.pub[m] = WithoutPeriod(e.pub[m])
    BY <2>2, <2>4 DEF Mirror
  <2>8. \A m \in Models : WithoutPeriod(k2.pub[m]) = WithoutPeriod(k.pub[m])
    BY <2>2, <2>7 DEF Mirror, WithoutPeriod
  <2>9. Base(k2, h)
    BY <2>3, <2>6, <2>7 DEF Base
  <2>10. ASSUME NEW t \in Settings PROVE Keeps(t, k, h, k2, h)
    <3>1. Formed(t)
      BY SettingForm
    <3> QED
      BY <2>6, <2>7, <2>8, <3>1 DEF Keeps, Formed
  <2>11. Ok(k2, h, doubt[n], R, S)
    <3> HIDE DEF k, h, R, S
    <3> QED
      BY <2>2, <2>3, <2>7, <2>9, <2>10, OkAlike
  <2>12. Late(k2, reqs[n])
    BY <2>3, <2>6, LateKept
  <2> QED
    BY <1>1, <2>3, <2>5, <2>6, <2>11, <2>12 DEF NodeInv
<1> QED
  BY <1>2, <1>3 DEF AgreeInv

(* When commands are given in order (none about a thing whose answer is on   *)
(* its way, no net key deleted, no subscription before the composition), the *)
(* program and each node agree on every setting that no message is about and *)
(* no loss left open: cmd_net_key and cmd_app_key change the node in memory  *)
(* before the answer, and client_msg_recvd takes back what was refused.      *)
THEOREM NodesAgree == (Env = {} /\ Spec) => []Agreed
<1> SUFFICES ASSUME Env = {} PROVE Spec => []Agreed
  OBVIOUS
<1>1. Init => IInv /\ AgreeInv
  <2> SUFFICES ASSUME Init PROVE AgreeInv
    BY InitEstablishes
  <2> QED
    BY DEF Init, AgreeInv, FreshInv
<1>2. IInv /\ AgreeInv /\ [Next]_vars => IInv' /\ AgreeInv'
  <2> SUFFICES ASSUME IInv, AgreeInv, [Next]_vars PROVE AgreeInv'
    BY StepPreserves
  <2>1. CASE UNCHANGED vars
    BY <2>1 DEF vars, AgreeInv, FreshInv, NodeInv
  <2> QED
    BY <2>1, CommandAgrees, ReceiveAgrees, NodeAgrees, LoseAgrees, ProvisionAgrees,
       RestartAgrees DEF Next
<1>3. IInv /\ AgreeInv => Agreed
  <2> SUFFICES ASSUME IInv, AgreeInv, NEW n \in Nodes, NEW t \in Settings,
                      has[n] # None, Settled(n, t)
               PROVE  Same(t, mem[n], has[n])
    BY DEF Agreed
  <2>1. Ok(mem[n], has[n], doubt[n], ToSet(reqs[n]), ToSet(stats[n]))
    BY DEF AgreeInv, NodeInv
  <2>2. t \notin doubt[n] /\ \A x \in ToSet(reqs[n]) \cup ToSet(stats[n]) : x.topic # t
    BY NotAbout DEF Settled
  <2> QED
    BY <2>1, <2>2 DEF Ok
<1> QED
  BY <1>1, <1>2, <1>3, PTL DEF Spec
=============================================================================
