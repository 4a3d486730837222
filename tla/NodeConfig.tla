------------------------------ MODULE NodeConfig ------------------------------
(***************************************************************************)
(* The configuration of provisioned nodes in blueZ/mesh: the nodes in      *)
(* memory (node.c), the provisioning database (prov-db.c) and the          *)
(* configuration client (config-client.c), whose commands change what the  *)
(* program believes of a node before the node has answered.                *)
(*                                                                         *)
(* Requests and answers of a node keep their order, since a later sequence *)
(* number makes an earlier one a replay, and may be lost.  An element and  *)
(* a model of it are one model.  Lists that refuse a second copy are sets; *)
(* the arrays of the file are sequences where reading refuses a copy.      *)
(***************************************************************************)
EXTENDS Integers, Sequences, FiniteSets, SequencesExt

CONSTANTS
  Nodes,    \* provisioned nodes, by address
  NetIdx,   \* indices of the net keys of the network
  AppIdx,   \* indices of its application keys
  Bound,    \* Bound[i]: the net key of application key i
  Models,
  Groups,   \* addresses to subscribe or publish to
  Ttls,
  None,
  MaxReqs,  \* bound: requests and answers of a node on their way
  MaxDoubt, \* bound: what lost messages leave open of a node
  Env       \* what the user may do beyond the orderly case

(***************************************************************************)
(* "overlap": a command is given while an earlier one about the same thing *)
(* is not answered, or about an application key before its net key is      *)
(* settled; "netdel": a net key is deleted; "blind": a node is subscribed  *)
(* before its composition is known.                                        *)
(***************************************************************************)
Hazards == {"overlap", "netdel", "blind"}

\* put_uint16 writes an index as four hexadecimal digits.
Digits(i) == <<(i \div 4096) % 16, (i \div 256) % 16, (i \div 16) % 16, i % 16>>

\* json_object_get_int reads them as a decimal number, up to the first letter.
ReadIdx(i) ==
  LET d == Digits(i)
      n == CHOOSE k \in 0..4 : /\ \A j \in 1..k : d[j] < 10
                               /\ k < 4 => d[k + 1] >= 10
  IN CASE n = 0 -> 0
       [] n = 1 -> d[1]
       [] n = 2 -> 10 * d[1] + d[2]
       [] n = 3 -> 100 * d[1] + 10 * d[2] + d[3]
       [] n = 4 -> 1000 * d[1] + 100 * d[2] + 10 * d[3] + d[4]

PrimaryNet == 0  \* NET_IDX_PRIMARY

ASSUME NodeConfigAssumption ==
  /\ NetIdx \subseteq Nat /\ AppIdx \subseteq Nat
  /\ PrimaryNet \in NetIdx
  /\ Bound \in [AppIdx -> NetIdx]
  /\ Groups \subseteq Nat \ {0} /\ Ttls \subseteq 1..127 /\ Ttls # {}
  /\ None \notin Nodes \cup Models
  /\ MaxReqs \in Nat /\ MaxDoubt \in Nat
  /\ Env \subseteq Hazards

\* Indices that are written and read alike.
ASSUME IndicesReadBack == \A i \in NetIdx \cup AppIdx : ReadIdx(i) = i

VARIABLES
  mem,    \* mem[n]: what the program knows of node n
  db,     \* db[n]: what the file says of it
  has,    \* has[n]: what the node itself has
  reqs,   \* reqs[n]: requests on their way to the node
  stats,  \* stats[n]: answers on their way back
  doubt,  \* history: doubt[n]: what a lost message left open
  orphans \* history: orphans[n]: application keys of the node whose net key was
          \* deleted, since its list of application keys last changed

vars == <<mem, db, has, reqs, stats, doubt, orphans>>

\* A publication: its address and its period.
Pubs == ({0} \cup Groups) \X {0, 1}
NoPub == <<0, 0>>
WithoutPeriod(p) == <<p[1], 0>>

Known ==
  [net : SUBSET NetIdx, app : SUBSET AppIdx, comp : BOOLEAN, lpn : BOOLEAN,
   bind : [Models -> SUBSET AppIdx], sub : [Models -> SUBSET Groups],
   pub : [Models -> Pubs], ttl : {0} \cup Ttls]

\* The file keeps bindings and subscriptions in arrays.
Entries ==
  [net : SUBSET NetIdx, app : SUBSET AppIdx, comp : BOOLEAN, lpn : BOOLEAN,
   bind : [Models -> Seq(AppIdx)], sub : [Models -> Seq(Groups)],
   pub : [Models -> Pubs], ttl : {0} \cup Ttls]

ASSUME NoneAssumption == None \notin Known /\ None \notin Entries

\* A request, or what an answer is about: which kind, which model, which index
\* or address.
Topics ==
  [what : {"net", "app", "bind", "sub", "pub", "ttl", "comp", "reset"},
   model : Models \cup {None}, idx : Nat]
Topic(what, model, idx) == [what |-> what, model |-> model, idx |-> idx]
TtlTopic == Topic("ttl", None, 0)

\* op: add, delete, set or get; val: the numbers that follow (the fields of a
\* publication, a TTL, the low power feature); status: the answer.
Req(t, op, val) == [topic |-> t, op |-> op, val |-> val]
Ans(r, status, val) ==
  [topic |-> r.topic, op |-> r.op, val |-> val, status |-> status]
Statuses == {"SUCCESS", "IDX_ALREADY_STORED", "OTHER"}

NewNode ==
  [net |-> {PrimaryNet}, app |-> {}, comp |-> FALSE, lpn |-> FALSE,
   bind |-> [m \in Models |-> {}], sub |-> [m \in Models |-> {}],
   pub |-> [m \in Models |-> NoPub], ttl |-> 0]
NewDevice == [NewNode EXCEPT !.ttl = CHOOSE t \in Ttls : TRUE]
NewEntry == [NewNode EXCEPT !.bind = [m \in Models |-> <<>>],
                            !.sub = [m \in Models |-> <<>>]]

\* Requests and answers there may be.
KeyRequests ==
  {Req(Topic("net", None, i), op, <<>>) : i \in NetIdx, op \in {"add", "delete"}}
  \cup {Req(Topic("app", None, i), op, <<>>) : i \in AppIdx, op \in {"add", "delete"}}

\* The requests of the commands that wait for the answer.
cmd_bind == {Req(Topic("bind", m, i), "add", <<>>) : m \in Models, i \in AppIdx}
cmd_sub_add == {Req(Topic("sub", m, g), "add", <<>>) : m \in Models, g \in Groups}
cmd_pub_set ==
  {Req(Topic("pub", m, 0), "set", p) :
     m \in Models, p \in {NoPub} \cup Groups \X {1}}
cmd_ttl_set == {Req(TtlTopic, "set", <<t>>) : t \in Ttls}
cmd_composition_get == {Req(Topic("comp", None, 0), "get", <<>>)}
cmd_node_reset == {Req(Topic("reset", None, 0), "set", <<>>)}
Requests ==
  cmd_bind \cup cmd_sub_add \cup cmd_pub_set \cup cmd_ttl_set
  \cup cmd_composition_get \cup cmd_node_reset

\* An answer repeats the request; a node of the model is a low power node.
Echo(r) == IF r.topic.what = "comp" THEN <<1>> ELSE r.val
Answers ==
  {Ans(r, st, Echo(r)) : r \in KeyRequests \cup Requests, st \in Statuses}

(* Every variable keeps its type, a node in memory is in the file (once      *)
(* prov_db_add_new_node has run for it), and an answer carries the fields    *)
(* that its handler reads.                                                   *)
TypeOK ==
  /\ mem \in [Nodes -> Known \cup {None}]
  /\ db \in [Nodes -> Entries \cup {None}]
  /\ has \in [Nodes -> Known \cup {None}]
  /\ reqs \in [Nodes -> Seq(KeyRequests \cup Requests)]
  /\ stats \in [Nodes -> Seq(Answers)]
  /\ doubt \in [Nodes -> SUBSET Topics]
  /\ orphans \in [Nodes -> SUBSET AppIdx]
  /\ \A n \in Nodes : mem[n] # None => db[n] # None

Init ==
  /\ mem = [n \in Nodes |-> None] /\ db = mem /\ has = mem
  /\ reqs = [n \in Nodes |-> <<>>] /\ stats = reqs
  /\ doubt = [n \in Nodes |-> {TtlTopic}]
  /\ orphans = [n \in Nodes |-> {}]
-----------------------------------------------------------------------------
(* Provisioning, and the start of the program. *)

\* Mutant of mesh_prov_done: the node is not written to the file.
mesh_prov_done_unsaved(n) ==
  /\ db[n] = None /\ mem[n] = None
  /\ mem' = [mem EXCEPT ![n] = NewNode]
  /\ has' = [has EXCEPT ![n] = NewDevice]
  /\ UNCHANGED <<db, reqs, stats, doubt, orphans>>

\* prov_complete has given the node the primary net key; the node itself has
\* some default TTL.
mesh_prov_done(n) ==
  /\ db[n] = None
  /\ mem' = [mem EXCEPT ![n] = NewNode]
  /\ db' = [db EXCEPT ![n] = NewEntry]
  /\ has' = [has EXCEPT ![n] = NewDevice]
  /\ UNCHANGED <<reqs, stats, doubt, orphans>>

\* parse_node refuses an entry without a net key, a copy in an array of a model,
\* and a model that the composition does not name.
Readable(e) ==
  /\ e.net # {}
  /\ \A m \in Models :
       /\ IsInjective(e.bind[m]) /\ IsInjective(e.sub[m])
       /\ e.bind[m] # <<>> \/ e.sub[m] # <<>> \/ e.pub[m] # NoPub => e.comp

\* parse_node_keys: an application key needs its net key.
ReadNet(e) == {ReadIdx(i) : i \in e.net}
ReadApp(e) == {i \in {ReadIdx(j) : j \in e.app} : Bound[i] \in ReadNet(e)}

\* What is read: the low power feature, written as "lpn", is looked for under the
\* name "lowPower" and so is never found; of a publication only the required
\* fields are kept.
ReadNode(e) ==
  [e EXCEPT
     !.net = ReadNet(e), !.app = ReadApp(e), !.lpn = FALSE,
     !.bind = [m \in Models |-> ToSet(e.bind[m])],
     !.sub = [m \in Models |-> ToSet(e.sub[m])],
     !.pub = [m \in Models |-> WithoutPeriod(e.pub[m])]]

\* The program ends and starts again; it does not start with an entry it cannot
\* read.
Restart ==
  /\ \A n \in Nodes : db[n] # None => Readable(db[n])
  /\ mem' = [n \in Nodes |-> IF db[n] = None THEN None ELSE ReadNode(db[n])]
  /\ UNCHANGED <<db, has, reqs, stats, doubt, orphans>>
-----------------------------------------------------------------------------
(* The commands of the configuration client. *)

About(n, t) ==
  \/ \E i \in DOMAIN reqs[n] : reqs[n][i].topic = t
  \/ \E i \in DOMAIN stats[n] : stats[n][i].topic = t

Settled(n, t) == ~About(n, t) /\ t \notin doubt[n]

\* config_send: the request leaves.
config_send(n, r) ==
  /\ mem[n] # None
  /\ Len(reqs[n]) + Len(stats[n]) < MaxReqs
  /\ ~About(n, r.topic) \/ "overlap" \in Env
  /\ reqs' = [reqs EXCEPT ![n] = Append(@, r)]
  /\ UNCHANGED <<has, stats, doubt>>

\* node_net_key_add and node_net_key_delete; the application keys stay.
NetKeys(n, i, op) ==
  IF op = "add" THEN mem[n].net \cup {i} ELSE mem[n].net \ {i}

\* node_app_key_add needs the net key; node_app_key_delete.
AppKeys(n, i, op) ==
  IF op = "delete" THEN mem[n].app \ {i}
  ELSE IF Bound[i] \in mem[n].net THEN mem[n].app \cup {i} ELSE mem[n].app

\* Mutant of SaveApp: a deleted key stays in the file.
SaveApp_kept(n, app) ==
  IF app = mem[n].app THEN UNCHANGED <<mem, db, orphans>>
  ELSE /\ mem' = [mem EXCEPT ![n].app = app]
       /\ db' = [db EXCEPT ![n].app = @ \cup app]
       /\ orphans' = [orphans EXCEPT ![n] = {i \in app : Bound[i] \notin mem[n].net}]

\* prov_db_node_keys writes the whole list of a node, when it changed.
SaveNet(n, net) ==
  IF net = mem[n].net THEN UNCHANGED <<mem, db, orphans>>
  ELSE /\ mem' = [mem EXCEPT ![n].net = net]
       /\ db' = [db EXCEPT ![n].net = net]
       /\ orphans' = [orphans EXCEPT
                        ![n] = @ \cup {i \in mem[n].app : Bound[i] \notin net}]
SaveApp(n, app) ==
  IF app = mem[n].app THEN UNCHANGED <<mem, db, orphans>>
  ELSE /\ mem' = [mem EXCEPT ![n].app = app]
       /\ db' = [db EXCEPT ![n].app = app]
       /\ orphans' = [orphans EXCEPT ![n] = {i \in app : Bound[i] \notin mem[n].net}]

\* The index is left out of a request to delete.
cmd_net_key(n, i, op) ==
  /\ op = "add" \/ "netdel" \in Env
  /\ config_send(n, Req(Topic("net", None, i), op, <<>>))
  /\ SaveNet(n, NetKeys(n, i, op))

cmd_app_key(n, i, op) ==
  /\ Settled(n, Topic("net", None, Bound[i])) \/ "overlap" \in Env
  /\ config_send(n, Req(Topic("app", None, i), op, <<>>))
  /\ SaveApp(n, AppKeys(n, i, op))

\* Some commands need the composition.
verify_config_target(n, r) == r \in cmd_bind \cup cmd_pub_set => mem[n].comp

\* They change nothing before the answer.
cmd_request(n, r) ==
  /\ config_send(n, r)
  /\ verify_config_target(n, r)
  /\ r \in cmd_sub_add => mem[n].comp \/ "blind" \in Env
  /\ UNCHANGED <<mem, db, orphans>>
-----------------------------------------------------------------------------
(* The answers: client_msg_recvd, by opcode. *)

\* What is known again after an answer: a refused publication leaves open which
\* one the node has.
Settles(a) ==
  IF a.topic.what = "pub" /\ a.status # "SUCCESS" THEN {} ELSE {a.topic}

Receives(n, what) ==
  /\ stats[n] # <<>> /\ Head(stats[n]).topic.what = what
  /\ stats' = [stats EXCEPT ![n] = Tail(@)]
  /\ doubt' = [doubt EXCEPT ![n] = @ \ Settles(Head(stats[n]))]
  /\ UNCHANGED <<has, reqs>>
Rx(n) == Head(stats[n])

\* An answer of an unknown node is dropped.
Unknown(n) == mem[n] = None /\ UNCHANGED <<mem, db, orphans>>

\* Mutant of Refused: only success is success.
RefusedStored(n) == Rx(n).status # "SUCCESS"

Refused(n) == Rx(n).status \notin {"SUCCESS", "IDX_ALREADY_STORED"}

OP_NETKEY_STATUS(n) ==
  /\ Receives(n, "net")
  /\ \/ Unknown(n)
     \/ /\ mem[n] # None
        /\ IF Refused(n) THEN SaveNet(n, NetKeys(n, Rx(n).topic.idx, "delete"))
           ELSE UNCHANGED <<mem, db, orphans>>

OP_APPKEY_STATUS(n) ==
  /\ Receives(n, "app")
  /\ \/ Unknown(n)
     \/ /\ mem[n] # None
        /\ IF Refused(n) THEN SaveApp(n, AppKeys(n, Rx(n).topic.idx, "delete"))
           ELSE UNCHANGED <<mem, db, orphans>>

\* Mutant of Adds: a second copy is taken.
Adds_again(n, list, i) == mem[n].comp

\* node_add_binding, node_add_subscription: the model is known and has it not.
Adds(n, list, i) == mem[n].comp /\ i \notin list

\* The entry of a model takes one more number at its end.
prov_db_add_binding(e, m, i) == [e EXCEPT !.bind[m] = Append(@, i)]
prov_db_add_subscription(e, m, i) == [e EXCEPT !.sub[m] = Append(@, i)]

OP_MODEL_APP_STATUS(n) ==
  LET m == Rx(n).topic.model  i == Rx(n).topic.idx
  IN /\ Receives(n, "bind")
     /\ \/ Unknown(n)
        \/ /\ mem[n] # None
           /\ IF Rx(n).status = "SUCCESS" /\ Adds(n, mem[n].bind[m], i)
              THEN /\ mem' = [mem EXCEPT ![n].bind[m] = @ \cup {i}]
                   /\ db' = [db EXCEPT ![n] = prov_db_add_binding(@, m, i)]
                   /\ UNCHANGED orphans
              ELSE UNCHANGED <<mem, db, orphans>>

OP_CONFIG_MODEL_SUB_STATUS(n) ==
  LET m == Rx(n).topic.model  i == Rx(n).topic.idx
  IN /\ Receives(n, "sub")
     /\ \/ Unknown(n)
        \/ /\ mem[n] # None
           /\ IF Rx(n).status = "SUCCESS" /\ Adds(n, mem[n].sub[m], i)
              THEN /\ mem' = [mem EXCEPT ![n].sub[m] = @ \cup {i}]
                   /\ db' = [db EXCEPT ![n] = prov_db_add_subscription(@, m, i)]
                   /\ UNCHANGED orphans
              ELSE UNCHANGED <<mem, db, orphans>>

\* Only the required fields are written.
SavedPub(n, m) == WithoutPeriod(Rx(n).val)

OP_CONFIG_MODEL_PUB_STATUS(n) ==
  LET m == Rx(n).topic.model
  IN /\ Receives(n, "pub")
     /\ \/ Unknown(n)
        \/ /\ mem[n] # None
           /\ IF Rx(n).status = "SUCCESS" /\ mem[n].comp
              THEN /\ mem' = [mem EXCEPT ![n].pub[m] = Rx(n).val]
                   /\ db' = [db EXCEPT ![n].pub[m] = SavedPub(n, m)]
                   /\ UNCHANGED orphans
              ELSE UNCHANGED <<mem, db, orphans>>

prov_db_node_set_ttl(e, ttl) == [e EXCEPT !.ttl = ttl]

OP_CONFIG_DEFAULT_TTL_STATUS(n) ==
  /\ Receives(n, "ttl")
  /\ \/ Unknown(n)
     \/ /\ mem[n] # None
        /\ mem' = [mem EXCEPT ![n].ttl = Rx(n).val[1]]
        /\ db' = [db EXCEPT ![n] = prov_db_node_set_ttl(@, Rx(n).val[1])]
        /\ UNCHANGED orphans

\* The models of the elements become known; a second composition replaces the
\* first and keeps the models.
node_parse_composition(k, lpn) == [k EXCEPT !.comp = TRUE, !.lpn = lpn]
prov_db_add_node_composition(e, lpn) == [e EXCEPT !.comp = TRUE, !.lpn = lpn]

OP_DEV_COMP_STATUS(n) ==
  /\ Receives(n, "comp")
  /\ \/ Unknown(n)
     \/ /\ mem[n] # None
        /\ mem' = [mem EXCEPT ![n] = node_parse_composition(@, Rx(n).val[1] = 1)]
        /\ db' = [db EXCEPT ![n] = prov_db_add_node_composition(@, Rx(n).val[1] = 1)]
        /\ UNCHANGED orphans

\* The node is freed; the file keeps it.
OP_NODE_RESET_STATUS(n) ==
  /\ Receives(n, "reset")
  /\ \/ Unknown(n)
     \/ mem[n] # None /\ mem' = [mem EXCEPT ![n] = None] /\ UNCHANGED <<db, orphans>>

client_msg_recvd(n) ==
  \/ OP_NETKEY_STATUS(n) \/ OP_APPKEY_STATUS(n) \/ OP_MODEL_APP_STATUS(n)
  \/ OP_CONFIG_MODEL_SUB_STATUS(n) \/ OP_CONFIG_MODEL_PUB_STATUS(n)
  \/ OP_CONFIG_DEFAULT_TTL_STATUS(n) \/ OP_DEV_COMP_STATUS(n)
  \/ OP_NODE_RESET_STATUS(n)
-----------------------------------------------------------------------------
(* The nodes, and the network between. *)

\* The node becomes node and answers.
Accepts(n, node, status) ==
  /\ has' = [has EXCEPT ![n] = node]
  /\ reqs' = [reqs EXCEPT ![n] = Tail(@)]
  /\ stats' = [stats EXCEPT
                 ![n] = Append(@, Ans(Head(reqs[n]), status, Echo(Head(reqs[n]))))]
  /\ UNCHANGED <<mem, db, doubt, orphans>>

\* A node may refuse for want of room whatever it could do.
NodeAnswers(n) ==
  LET r == Head(reqs[n])  t == r.topic  node == has[n]
  IN /\ reqs[n] # <<>> /\ node # None
     /\ CASE t.what = "net" /\ r.op = "add" ->
               IF t.idx \in node.net THEN Accepts(n, node, "IDX_ALREADY_STORED")
               ELSE \/ Accepts(n, [node EXCEPT !.net = @ \cup {t.idx}], "SUCCESS")
                    \/ Accepts(n, node, "OTHER")
          [] t.what = "app" /\ r.op = "add" ->
               IF t.idx \in node.app THEN Accepts(n, node, "IDX_ALREADY_STORED")
               ELSE \/ /\ Bound[t.idx] \in node.net
                       /\ Accepts(n, [node EXCEPT !.app = @ \cup {t.idx}], "SUCCESS")
                    \/ Accepts(n, node, "OTHER")
          [] t.what = "app" /\ r.op = "delete" ->
               Accepts(n, [node EXCEPT !.app = @ \ {t.idx},
                             !.bind = [m \in Models |-> @[m] \ {t.idx}]], "SUCCESS")
          [] t.what = "bind" ->
               IF t.idx \in node.app
               THEN Accepts(n, [node EXCEPT !.bind[t.model] = @ \cup {t.idx}], "SUCCESS")
               ELSE Accepts(n, node, "OTHER")
          [] t.what = "sub" ->
               IF t.idx \in node.sub[t.model] THEN Accepts(n, node, "SUCCESS")
               ELSE \/ Accepts(n, [node EXCEPT !.sub[t.model] = @ \cup {t.idx}], "SUCCESS")
                    \/ Accepts(n, node, "OTHER")
          [] t.what = "pub" ->
               \/ Accepts(n, [node EXCEPT !.pub[t.model] = r.val], "SUCCESS")
               \/ Accepts(n, node, "OTHER")
          [] t.what = "ttl" -> Accepts(n, [node EXCEPT !.ttl = r.val[1]], "SUCCESS")
          [] t.what = "comp" -> Accepts(n, node, "SUCCESS")
          [] t.what = "reset" -> Accepts(n, None, "SUCCESS")
          \* A request to delete a net key lacks its index and is ignored.
          [] OTHER -> /\ reqs' = [reqs EXCEPT ![n] = Tail(@)]
                      /\ UNCHANGED <<mem, db, has, stats, doubt, orphans>>

\* What a lost message leaves open.
Opens(r) == IF r.topic.what \in {"comp", "reset"} THEN {} ELSE {r.topic}

\* A message is lost, or finds no node.
Lose(n) ==
  /\ \/ \E i \in DOMAIN reqs[n] :
          /\ doubt' = [doubt EXCEPT ![n] = @ \cup Opens(reqs[n][i])]
          /\ reqs' = [reqs EXCEPT ![n] = RemoveAt(@, i)]
          /\ UNCHANGED stats
     \/ \E i \in DOMAIN stats[n] :
          /\ doubt' = [doubt EXCEPT ![n] = @ \cup Opens(stats[n][i])]
          /\ stats' = [stats EXCEPT ![n] = RemoveAt(@, i)]
          /\ UNCHANGED reqs
  /\ Cardinality(doubt'[n]) <= MaxDoubt
  /\ UNCHANGED <<mem, db, has, orphans>>
-----------------------------------------------------------------------------
Command(n) ==
  \/ \E i \in NetIdx, op \in {"add", "delete"} : cmd_net_key(n, i, op)
  \/ \E i \in AppIdx, op \in {"add", "delete"} : cmd_app_key(n, i, op)
  \/ \E r \in Requests : cmd_request(n, r)

Next ==
  \/ \E n \in Nodes : mesh_prov_done(n)
  \/ Restart
  \/ \E n \in Nodes : Command(n)
  \/ \E n \in Nodes : client_msg_recvd(n)
  \/ \E n \in Nodes : NodeAnswers(n)
  \/ \E n \in Nodes : Lose(n)

Spec == Init /\ [][Next]_vars
-----------------------------------------------------------------------------
(* Whatever happened, the next start can read every entry of the file: no    *)
(* entry without a net key, no copy in an array, no configuration of a model *)
(* that is not in the composition (parse_node and the handlers that write).  *)
StartPossible == \A n \in Nodes : db[n] # None => Readable(db[n])

\* What the file keeps of a node by design: not the timing of a publication, and
\* no application key without its net key.
Kept(k) ==
  [k EXCEPT !.app = {i \in @ : Bound[i] \in k.net},
            !.pub = [m \in Models |-> WithoutPeriod(k.pub[m])]]

(* A start at any moment brings back the node that memory holds: no command, *)
(* answer or refusal changes one without the other (prov_db_node_keys,       *)
(* prov_db_add_binding and the other writers against parse_node).  Nothing   *)
(* is missing, and no application key is too many but one whose net key was  *)
(* deleted under it, since node_net_key_delete leaves it in the file: a key  *)
(* deleted by itself never comes back.  The low power feature is left out:   *)
(* it does not come back (FeaturesKept).                                     *)
RestartSame ==
  \A n \in Nodes : mem[n] # None =>
    LET read == ReadNode(db[n])  kept == Kept(mem[n])
    IN /\ kept.app \subseteq read.app
       /\ read.app \ kept.app \subseteq orphans[n]
       /\ read = [kept EXCEPT !.app = read.app, !.lpn = read.lpn]

(* A start also brings back the low power feature of a node.  No run lists   *)
(* this, for it does not hold: prov_db_add_node_composition writes the       *)
(* feature as "lpn" and parse_composition reads "lowPower", so that after a  *)
(* start every node is believed to be no low power node.                     *)
FeaturesKept == \A n \in Nodes : mem[n] # None => ReadNode(db[n]).lpn = mem[n].lpn

Same(t, k, h) ==
  CASE t.what = "net" -> t.idx \in k.net <=> t.idx \in h.net
    [] t.what = "app" -> t.idx \in k.app <=> t.idx \in h.app
    [] t.what = "bind" -> t.idx \in h.bind[t.model] => t.idx \in k.bind[t.model]
    [] t.what = "sub" -> t.idx \in k.sub[t.model] <=> t.idx \in h.sub[t.model]
    [] t.what = "pub" ->
         WithoutPeriod(k.pub[t.model]) = WithoutPeriod(h.pub[t.model])
    [] t.what = "ttl" -> k.ttl = h.ttl
    [] OTHER -> TRUE

Settings ==
  {Topic("net", None, i) : i \in NetIdx}
  \cup {Topic("app", None, i) : i \in AppIdx}
  \cup {r.topic : r \in Requests}

(* The program and a node agree on every key, subscription and publication   *)
(* that no message is on its way about, unless the last one about it was     *)
(* lost: an answer, also a refusal, always brings them together again        *)
(* (cmd_net_key and cmd_app_key, which do not wait, and client_msg_recvd).   *)
(* Of bindings, the program knows every one that the node has; it may still  *)
(* list one that the node dropped with its application key, since            *)
(* node_app_key_delete removes no binding (the TODO at node.c:317).          *)
Agreed ==
  \A n \in Nodes : \A t \in Settings :
    mem[n] # None /\ has[n] # None /\ Settled(n, t) => Same(t, mem[n], has[n])
=============================================================================
