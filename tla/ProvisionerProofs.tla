------------------------- MODULE ProvisionerProofs -------------------------
(***************************************************************************)
(* Proofs about Provisioner, for any number of devices and addresses and   *)
(* any capabilities: an attempt that ends well ends well on both sides, no *)
(* address block is lost or given twice, and, if attempts do not end while *)
(* a prompt is open, no answer of the user goes to a freed node.           *)
(***************************************************************************)
EXTENDS Provisioner, FiniteSetTheorems, SequenceTheorems, TLAPS

\* An attempt belongs to a node that waits for it, and the connected device has
\* one; without a connection nothing is on its way.
ConnInv ==
  /\ \A d \in Dev : prov[d] # None => node[d] = "new"
  /\ conn # None => prov[conn] # None
  /\ conn = None => toDev = <<>> /\ toProv = <<>>

\* A block is taken with the capabilities, once.
AddrInv == \A d \in Dev : prov[d] # None => (prov[d].addr <=> prov[d].state # "INVITE")

\* The word that ends an attempt well is on its way only when the device has the
\* provisioning data.
DataInv ==
  conn # None =>
    \A i \in DOMAIN toProv : toProv[i].op = "COMPLETE" => dev[conn].st = "provisioned"

\* The device uses the method of START, which is that of the attempt.
MethodInv ==
  /\ \A d \in Dev : dev[d].st = "idle" => dev[d].method # "input"
  /\ conn # None =>
       /\ \A i \in DOMAIN toDev : toDev[i].op = "START" =>
            toDev[i].arg.method = prov[conn].method /\ prov[conn].state # "INVITE"
       /\ dev[conn].method = "input" =>
            prov[conn].method = "input" /\ prov[conn].state # "INVITE"
       /\ \A i \in DOMAIN toProv : toProv[i].op = "INP_CMPLT" => dev[conn].method = "input"

\* A prompt whose answer goes to an attempt, and whose node is not freed, has
\* an attempt that waits for it.
PromptInv ==
  agent # None /\ agent.kind # "output" /\ ~agent.stale =>
    LET p == prov[agent.for]
    IN /\ p # None
       /\ agent.kind = "pubkey" => p.state = "START"
       /\ agent.kind = "oob" => p.state = "PUB_KEY" /\ p.method \in {"static", "output"}

IInv ==
  /\ TypeOK /\ ConnInv /\ AddrInv /\ DataInv /\ MethodInv /\ PromptInv
  /\ CompletedAgree /\ AddressesAccounted
-----------------------------------------------------------------------------
(* The accounts. *)

Done == {d \in Dev : node[d] = "provisioned"}
Holding == {d \in Dev : prov[d] # None /\ prov[d].addr}

LEMMA Finite ==
  /\ IsFiniteSet(Done) /\ Cardinality(Done) \in Nat
  /\ IsFiniteSet(Holding) /\ Cardinality(Holding) \in Nat
<1>1. IsFiniteSet(Dev) /\ Done \subseteq Dev /\ Holding \subseteq Dev
  BY ProvAssumption DEF Done, Holding
<1> QED
  BY <1>1, FS_Subset, FS_CardinalityType

\* What an unknown change of the accounts has to show.
LEMMA Accounts ==
  AddressesAccounted <=> avail + lost + Cardinality(Done) + Cardinality(Holding) = MaxAddr
BY DEF AddressesAccounted, Done, Holding

\* The block of an attempt goes back to the pool or is lost, is taken, or stays
\* with the node; or no block changes hands: n blocks are free or lost, those of
\* D are with nodes and those of H with attempts.
LEMMA Balance ==
  ASSUME NEW D, IsFiniteSet(D), NEW H, IsFiniteSet(H), NEW d,
         NEW n \in Int, NEW D2, NEW H2, NEW m \in Int,
         \/ D2 = D /\ d \in H /\ H2 = H \ {d} /\ m = n + 1
         \/ D2 = D /\ d \notin H /\ H2 = H \cup {d} /\ m = n - 1
         \/ d \notin D /\ D2 = D \cup {d} /\ d \in H /\ H2 = H \ {d} /\ m = n
         \/ D2 = D /\ H2 = H /\ m = n
  PROVE  m + Cardinality(D2) + Cardinality(H2) = n + Cardinality(D) + Cardinality(H)
<1>1. Cardinality(D) \in Nat /\ Cardinality(H) \in Nat
  BY FS_CardinalityType
<1>2. Cardinality(H \ {d}) = IF d \in H THEN Cardinality(H) - 1 ELSE Cardinality(H)
  BY FS_RemoveElement
<1>3. Cardinality(H \cup {d}) = IF d \in H THEN Cardinality(H) ELSE Cardinality(H) + 1
  BY FS_AddElement
<1>4. Cardinality(D \cup {d}) = IF d \in D THEN Cardinality(D) ELSE Cardinality(D) + 1
  BY FS_AddElement
<1> QED
  BY <1>1, <1>2, <1>3, <1>4

LEMMA AccountsStep ==
  ASSUME AddressesAccounted, TypeOK, NEW d \in Dev,
         avail' \in Int, lost' \in Int,
         \/ /\ Done' = Done /\ d \in Holding /\ Holding' = Holding \ {d}
            /\ avail' + lost' = avail + lost + 1
         \/ /\ Done' = Done /\ d \notin Holding /\ Holding' = Holding \cup {d}
            /\ avail' + lost' = (avail + lost) - 1
         \/ /\ d \notin Done /\ Done' = Done \cup {d}
            /\ d \in Holding /\ Holding' = Holding \ {d}
            /\ avail' + lost' = avail + lost
         \/ /\ Done' = Done /\ Holding' = Holding /\ avail' + lost' = avail + lost
  PROVE  AddressesAccounted'
<1>1. avail + lost \in Int /\ avail' + lost' \in Int
  BY DEF TypeOK
<1>2. avail' + lost' + Cardinality(Done') + Cardinality(Holding')
        = avail + lost + Cardinality(Done) + Cardinality(Holding)
  BY <1>1, Finite, Balance
<1> QED
  BY <1>2 DEF AddressesAccounted, Done, Holding

\* The pool and the lost blocks stay within their bounds.
LEMMA AccountsBound ==
  ASSUME AddressesAccounted', avail' \in Nat, lost' \in Nat
  PROVE  avail' \in 0..MaxAddr /\ lost' \in 0..MaxAddr
<1>1. /\ IsFiniteSet(Done') /\ IsFiniteSet(Holding')
  <2>1. IsFiniteSet(Dev) /\ Done' \subseteq Dev /\ Holding' \subseteq Dev
    BY ProvAssumption DEF Done, Holding
  <2> QED
    BY <2>1, FS_Subset
<1>2. Cardinality(Done') \in Nat /\ Cardinality(Holding') \in Nat
  BY <1>1, FS_CardinalityType
<1>3. avail' + lost' + Cardinality(Done') + Cardinality(Holding') = MaxAddr
  BY DEF AddressesAccounted, Done, Holding
<1> QED
  BY <1>2, <1>3, ProvAssumption
-----------------------------------------------------------------------------
(* The end of an attempt. *)

\* What is known of a connected device and its attempt.
LEMMA Connected ==
  ASSUME IInv, NEW d \in Dev, conn = d
  PROVE  /\ prov[d] \in Provs /\ prov[d] # None /\ node[d] = "new" /\ conn # None
         /\ dev[d] \in DevTypes
<1>1. conn # None
  BY ProvAssumption
<1> QED
  BY <1>1 DEF IInv, TypeOK, ConnInv

\* A device keeps the provisioning data when its link goes, and nothing else.
LEMMA AfterLink ==
  ASSUME TypeOK, NEW d \in Dev, dev' = DevAfterLink(d)
  PROVE  /\ dev' \in [Dev -> DevTypes]
         /\ \A e \in Dev : e # d => dev'[e] = dev[e]
         /\ dev'[d] = IF dev[d].st = "provisioned" THEN dev[d] ELSE IdleDev
<1>1. IdleDev \in DevTypes
  BY DEF IdleDev, DevTypes, DevStates, Methods
<1> QED
  BY <1>1 DEF DevAfterLink, TypeOK

LEMMA AfterFree ==
  ASSUME TypeOK, NEW d \in Dev, agent' = AgentAfterFree(d)
  PROVE  /\ agent' \in Prompts \cup {None}
         /\ agent' # None /\ ~agent'.stale => agent' = agent /\ agent.for # d
<1>1. CASE agent # None /\ agent.for = d
  <2>1. agent \in Prompts
    BY <1>1 DEF TypeOK
  <2>2. agent' = [agent EXCEPT !.stale = TRUE]
    BY <1>1 DEF AgentAfterFree
  <2> QED
    BY <2>1, <2>2 DEF Prompts
<1>2. CASE ~(agent # None /\ agent.for = d)
  BY <1>2 DEF AgentAfterFree, TypeOK
<1> QED
  BY <1>1, <1>2

LEMMA EmptyTypes == <<>> \in Seq(ToDevice) /\ <<>> \in Seq(ToProvisioner)
OBVIOUS

LEMMA FailStep ==
  ASSUME IInv, NEW d \in Dev, conn = d, Fail(d, prov[d])
  PROVE  IInv'
<1>1. /\ prov[d] \in Provs /\ node[d] = "new" /\ prov[d] # None
      /\ prov' = [prov EXCEPT ![d] = None] /\ node' = [node EXCEPT ![d] = "none"]
      /\ conn' = None /\ toDev' = <<>> /\ toProv' = <<>> /\ lost' = lost
      /\ avail' = avail + (IF prov[d].addr THEN 1 ELSE 0)
      /\ TypeOK
  BY Connected DEF Fail, Released, IInv
<1>2. AddressesAccounted'
  <2>1. avail' \in Int /\ lost' \in Int
    BY <1>1 DEF TypeOK
  <2>2. Done' = Done /\ Holding' = Holding \ {d} /\ (d \in Holding <=> prov[d].addr)
    BY <1>1 DEF TypeOK, Done, Holding
  <2>3. \/ prov[d].addr /\ avail' + lost' = avail + lost + 1
        \/ ~prov[d].addr /\ avail' + lost' = avail + lost
    BY <1>1 DEF TypeOK, Provs
  <2>4. CASE prov[d].addr
    BY <1>1, <2>1, <2>2, <2>3, <2>4, AccountsStep DEF IInv
  <2>5. CASE ~prov[d].addr
    BY <1>1, <2>1, <2>2, <2>3, <2>5, AccountsStep DEF IInv
  <2> QED
    BY <2>4, <2>5
<1>3. TypeOK'
  <2>1. avail' \in Nat /\ lost' \in Nat
    BY <1>1 DEF TypeOK, Provs
  <2>2. avail' \in 0..MaxAddr /\ lost' \in 0..MaxAddr
    BY <1>2, <2>1, AccountsBound
  <2>3. agent' \in Prompts \cup {None} /\ dev' \in [Dev -> DevTypes]
    BY <1>1, AfterFree, AfterLink DEF Fail
  <2> QED
    BY <1>1, <2>2, <2>3, EmptyTypes DEF TypeOK
<1>4. ConnInv' /\ AddrInv' /\ DataInv'
  BY <1>1 DEF IInv, ConnInv, AddrInv, DataInv, TypeOK
<1>5. MethodInv' /\ CompletedAgree'
  <2>1. /\ \A e \in Dev : e # d => dev'[e] = dev[e]
        /\ dev'[d] = IF dev[d].st = "provisioned" THEN dev[d] ELSE IdleDev
    BY <1>1, AfterLink DEF Fail
  <2>2. MethodInv'
    BY <1>1, <2>1 DEF IInv, MethodInv, IdleDev
  <2>3. CompletedAgree'
    BY <1>1, <2>1 DEF IInv, CompletedAgree, TypeOK
  <2> QED
    BY <2>2, <2>3
<1>6. PromptInv'
  BY <1>1, AfterFree DEF IInv, PromptInv, Fail, TypeOK
<1> QED
  BY <1>2, <1>3, <1>4, <1>5, <1>6 DEF IInv

LEMMA SucceedStep ==
  ASSUME IInv, NEW d \in Dev, conn = d, Succeed(d),
         prov[d].state = "DATA", dev[d].st = "provisioned"
  PROVE  IInv'
<1>1. /\ prov[d] \in Provs /\ node[d] = "new" /\ prov[d] # None
      /\ prov' = [prov EXCEPT ![d] = None] /\ node' = [node EXCEPT ![d] = "provisioned"]
      /\ conn' = None /\ toDev' = <<>> /\ toProv' = <<>>
      /\ UNCHANGED <<agent, avail, lost>> /\ TypeOK
  BY Connected DEF Succeed, IInv
<1>2. AddressesAccounted'
  <2>1. avail' \in Int /\ lost' \in Int /\ avail' + lost' = avail + lost
    BY <1>1 DEF TypeOK
  <2>2. /\ d \notin Done /\ Done' = Done \cup {d}
        /\ d \in Holding /\ Holding' = Holding \ {d}
    BY <1>1 DEF TypeOK, Done, Holding, IInv, AddrInv
  <2> QED
    BY <1>1, <2>1, <2>2, AccountsStep DEF IInv
<1>3. /\ dev' \in [Dev -> DevTypes]
      /\ \A e \in Dev : e # d => dev'[e] = dev[e]
      /\ dev'[d] = dev[d]
  BY <1>1, AfterLink DEF Succeed
<1>4. TypeOK'
  BY <1>1, <1>3, EmptyTypes DEF TypeOK
<1>5. ConnInv' /\ AddrInv' /\ DataInv'
  BY <1>1 DEF IInv, ConnInv, AddrInv, DataInv, TypeOK
<1>6. MethodInv' /\ CompletedAgree'
  BY <1>1, <1>3 DEF IInv, MethodInv, CompletedAgree, TypeOK
<1>7. PromptInv'
  BY <1>1 DEF IInv, PromptInv, TypeOK, Prompts
<1> QED
  BY <1>2, <1>4, <1>5, <1>6, <1>7 DEF IInv
-----------------------------------------------------------------------------
(* The attempt goes on. *)

\* An element of a concatenation is one of its parts.
LEMMA ConcatElement ==
  ASSUME NEW S, NEW s \in Seq(S), NEW t \in Seq(S), NEW i \in DOMAIN (s \o t)
  PROVE  /\ Len(s \o t) = Len(s) + Len(t)
         /\ \/ i \in DOMAIN s /\ i <= Len(s) /\ (s \o t)[i] = s[i]
            \/ i - Len(s) \in DOMAIN t /\ (s \o t)[i] = t[i - Len(s)]
OBVIOUS

LEMMA TailElement ==
  ASSUME NEW S, NEW s \in Seq(S), s # <<>>
  PROVE  /\ Tail(s) \in Seq(S) /\ Head(s) = s[1] /\ 1 \in DOMAIN s
         /\ Len(Tail(s)) = Len(s) - 1
         /\ \A i \in DOMAIN Tail(s) : i + 1 \in DOMAIN s /\ Tail(s)[i] = s[i + 1]
OBVIOUS

LEMMA OneTail ==
  ASSUME NEW S, NEW s \in Seq(S), Len(s) = 1
  PROVE  Tail(s) = <<>>
<1>1. Tail(s) \in Seq(S) /\ Len(Tail(s)) = 0
  OBVIOUS
<1> QED
  BY <1>1, EmptySeq

LEMMA ProceedStep ==
  ASSUME IInv, NEW d \in Dev, conn = d, toProv # <<>>,
         NEW p \in Provs, NEW pdus \in Seq(ToDevice), NEW a \in Prompts \cup {None},
         NEW av \in Nat, Proceed(d, p, pdus, a, av),
         \/ prov[d].addr = p.addr /\ av = avail
         \/ ~prov[d].addr /\ p.addr /\ av = avail - 1,
         p.addr, p.state # "INVITE",
         p.method = prov[d].method \/ prov[d].state = "INVITE",
         \A i \in DOMAIN pdus : pdus[i].op = "START" => pdus[i].arg.method = p.method,
         PromptInv'
  PROVE  IInv'
<1>1. /\ prov[d] \in Provs /\ node[d] = "new" /\ prov[d] # None /\ conn # None
      /\ p # None /\ dev[d] \in DevTypes
      /\ prov' = [prov EXCEPT ![d] = p] /\ toDev' = toDev \o pdus
      /\ toProv' = Tail(toProv) /\ agent' = a /\ avail' = av
      /\ UNCHANGED <<node, conn, lost, dev>> /\ TypeOK
  BY Connected, NoneAssumption DEF Proceed, IInv
<1>2. AddressesAccounted'
  <2>1. avail' \in Int /\ lost' \in Int /\ avail \in Int /\ lost \in Int
    BY <1>1 DEF TypeOK
  <2>2. Done' = Done
    BY <1>1 DEF TypeOK, Done
  <2>3. CASE prov[d].addr = p.addr /\ av = avail
    <3>1. Holding' = Holding
      BY <1>1, <2>3 DEF TypeOK, Holding
    <3> QED
      BY <1>1, <2>1, <2>2, <2>3, <3>1, AccountsStep DEF IInv
  <2>4. CASE ~prov[d].addr /\ p.addr /\ av = avail - 1
    <3>1. d \notin Holding /\ Holding' = Holding \cup {d}
      BY <1>1, <2>4 DEF TypeOK, Holding
    <3>2. avail' + lost' = (avail + lost) - 1
      BY <1>1, <2>1, <2>4
    <3> QED
      BY <1>1, <2>1, <2>2, <3>1, <3>2, AccountsStep DEF IInv
  <2> QED
    BY <2>3, <2>4
<1>3. /\ toDev \in Seq(ToDevice) /\ toDev' \in Seq(ToDevice)
      /\ toProv \in Seq(ToProvisioner) /\ toProv' \in Seq(ToProvisioner)
  BY <1>1, TailElement DEF TypeOK
<1>4. TypeOK'
  <2>1. avail' \in 0..MaxAddr /\ lost' \in 0..MaxAddr
    BY <1>1, <1>2, AccountsBound DEF TypeOK
  <2> QED
    BY <1>1, <1>3, <2>1 DEF TypeOK
<1>5. ConnInv' /\ AddrInv'
  BY <1>1 DEF IInv, ConnInv, AddrInv, TypeOK
<1>6. \A i \in DOMAIN toProv' : \E j \in DOMAIN toProv : toProv'[i] = toProv[j]
  BY <1>1, <1>3, TailElement
<1>7. prov'[conn'] = p /\ conn' = d /\ dev'[conn'] = dev[conn]
  BY <1>1 DEF TypeOK
<1>8. DataInv'
  BY <1>1, <1>6, <1>7 DEF IInv, DataInv
<1>9. MethodInv'
  <2>1. ASSUME NEW i \in DOMAIN toDev', toDev'[i].op = "START"
        PROVE  toDev'[i].arg.method = p.method /\ p.state # "INVITE"
    <3>1. i \in DOMAIN toDev /\ toDev[i].op = "START" => toDev[i].arg.method = p.method
      BY <1>1 DEF IInv, MethodInv
    <3> QED
      BY <1>1, <1>3, <2>1, <3>1, ConcatElement
  <2>2. dev[d].method = "input" => p.method = "input" /\ p.state # "INVITE"
    BY <1>1 DEF IInv, MethodInv
  <2> QED
    BY <1>1, <1>6, <1>7, <2>1, <2>2 DEF IInv, MethodInv
<1>10. CompletedAgree'
  BY <1>1 DEF IInv, CompletedAgree
<1> QED
  BY <1>2, <1>4, <1>5, <1>8, <1>9, <1>10 DEF IInv

\* What prov_calc_ecdh goes on with.
LEMMA EcdhResult ==
  ASSUME TypeOK, NEW d \in Dev, NEW p \in Provs
  PROVE  LET e == prov_calc_ecdh(d, p)
         IN /\ e.p \in Provs /\ e.pdus \in Seq(ToDevice) /\ e.ag \in Prompts \cup {None}
            /\ e.p.method = p.method /\ e.p.addr = p.addr
            /\ e.p.state \in {p.state, "CONFIRM"}
            /\ e.p.state # p.state => p.method = "none"
            /\ e.pdus = <<>> \/ e.pdus = <<PDU("CONFIRM", None)>>
            /\ \/ e.ag = agent
               \/ /\ agent = None /\ e.ag.for = d
                  /\ e.ag.kind = "output" \/
                     (e.ag.kind = "oob" /\ p.method \in {"static", "output"})
<1>1. <<>> \in Seq(ToDevice) /\ <<PDU("CONFIRM", None)>> \in Seq(ToDevice)
  BY DEF PDU, ToDevice
<1>2. \A kind \in {"oob", "output"} :
         /\ Request(kind, d) \in Prompts \cup {None}
         /\ Request(kind, d) = agent \/
              (agent = None /\ Request(kind, d).for = d /\ Request(kind, d).kind = kind)
  BY ProvAssumption DEF Request, Waiting, Prompts, TypeOK
<1>3. CASE p.method = "none"
  BY <1>1, <1>3 DEF prov_calc_ecdh, Provs, States, TypeOK
<1>4. CASE p.method \in {"static", "output"}
  BY <1>1, <1>2, <1>4 DEF prov_calc_ecdh, Provs
<1>5. CASE p.method = "input"
  BY <1>1, <1>2, <1>5 DEF prov_calc_ecdh, Provs, Values
<1> QED
  BY <1>3, <1>4, <1>5 DEF Provs, Methods
-----------------------------------------------------------------------------
(* prov_data_ready. *)

\* What the PDU at the head may be, and what is known of the attempt.
LEMMA RxFacts ==
  ASSUME IInv, NEW d \in Dev, conn = d, toProv # <<>>
  PROVE  /\ Rx \in ToProvisioner /\ Rx = toProv[1] /\ 1 \in DOMAIN toProv
         /\ Rx.op \in {"FAILED", "BAD", "INVITE"} => Rx.arg = ERR
         /\ Rx.op = "CAPS" => Rx.arg \in Caps
         /\ prov[d] \in Provs /\ prov[d] # None /\ node[d] = "new" /\ conn # None
         /\ prov[d].addr <=> prov[d].state # "INVITE"
<1>1. /\ Rx = toProv[1] /\ 1 \in DOMAIN toProv /\ Rx \in ToProvisioner
  BY TailElement DEF IInv, TypeOK, Rx
<1>2. /\ Rx.op \in {"FAILED", "BAD", "INVITE"} => Rx.arg = ERR
      /\ Rx.op = "CAPS" => Rx.arg \in Caps
  BY <1>1 DEF ToProvisioner
<1>3. prov[d].addr <=> prov[d].state # "INVITE"
  BY Connected DEF IInv, AddrInv
<1> QED
  BY <1>1, <1>2, <1>3, Connected

\* A live prompt of d is only there in two states; other prompts do not care.
LEMMA PromptKept ==
  ASSUME IInv, NEW d \in Dev, NEW p \in Provs, prov' = [prov EXCEPT ![d] = p],
         agent' = agent,
         \/ prov[d] = None \/ prov[d].state \notin {"START", "PUB_KEY"}
         \/ p.state = prov[d].state /\ p.method = prov[d].method
         \/ /\ prov[d].state = "PUB_KEY" /\ prov[d].method \notin {"static", "output"}
  PROVE  PromptInv'
<1>1. p # None
  BY NoneAssumption
<1> QED
  BY <1>1 DEF IInv, PromptInv, TypeOK, Prompts

LEMMA CapsStep == ASSUME IInv, NEW d \in Dev, RxCaps(d) PROVE IInv'
<1> DEFINE c == Rx.arg
           q == [prov[d] EXCEPT !.pub = c.pub, !.method = AuthMethod(c), !.addr = TRUE]
           start == PDU("START", [pub |-> q.pub, method |-> q.method])
<1>1. /\ conn = d /\ toProv # <<>> /\ prov[d].state = "INVITE"
  BY DEF RxCaps, Ready
<1>2. CASE prov_complete(d, ERR)
  BY <1>1, <1>2, FailStep DEF prov_complete, ERR
<1>3. CASE ~prov_complete(d, ERR)
  <2>1. /\ Rx.op = "CAPS" /\ avail # 0
        /\ IF c.pub
           THEN Proceed(d, [q EXCEPT !.state = "START"], <<start>>,
                        Request("pubkey", d), avail - 1)
           ELSE Proceed(d, [q EXCEPT !.state = "PUB_KEY"],
                        <<start, PDU("PUB_KEY", None)>>, agent, avail - 1)
    BY <1>3 DEF RxCaps
  <2>2. c \in CapsType /\ avail - 1 \in Nat /\ prov[d] \in Provs /\ ~prov[d].addr
        /\ prov[d] # None
    <3>1. avail - 1 \in Nat
      BY <2>1 DEF IInv, TypeOK
    <3>2. Rx.arg \in Caps /\ prov[d] \in Provs /\ prov[d] # None
      BY <1>1, <2>1, RxFacts
    <3>3. ~prov[d].addr
      BY <1>1, RxFacts
    <3> QED
      BY <3>1, <3>2, <3>3, ProvAssumption
  <2>3. AuthMethod(c) \in Methods
    BY DEF AuthMethod, Methods
  <2>4. /\ q \in Provs /\ q.addr /\ start \in ToDevice
        /\ start.op = "START" /\ start.arg.method = q.method
        /\ PDU("PUB_KEY", None) \in ToDevice /\ PDU("PUB_KEY", None).op = "PUB_KEY"
    BY <2>2, <2>3 DEF Provs, CapsType, ToDevice, PDU
  <2> HIDE DEF q, start
  <2>5. CASE c.pub
    <3> DEFINE p == [q EXCEPT !.state = "START"]  pdus == <<start>>
    <3>1. p \in Provs /\ p.state = "START" /\ p.addr /\ p.method = q.method
      BY <2>4 DEF Provs, States
    <3>2. Request("pubkey", d) \in Prompts \cup {None}
      BY ProvAssumption DEF Request, Waiting, Prompts, IInv, TypeOK
    <3>3. Proceed(d, p, pdus, Request("pubkey", d), avail - 1)
      BY <2>1, <2>5
    <3>5. pdus \in Seq(ToDevice) /\ DOMAIN pdus = {1} /\ pdus[1] = start
      BY <2>4
    <3> HIDE DEF p, pdus
    <3>6. PromptInv'
      <4>1. prov' = [prov EXCEPT ![d] = p] /\ agent' = Request("pubkey", d)
        BY <3>3 DEF Proceed
      <4>2. CASE agent = None
        <5>1. prov'[d] = p /\ p # None /\ agent'.for = d /\ agent'.kind = "pubkey"
          BY <3>1, <4>1, <4>2, NoneAssumption DEF Request, Waiting, IInv, TypeOK
        <5> QED
          BY <3>1, <5>1 DEF PromptInv
      <4>3. CASE agent # None
        BY <1>1, <3>1, <4>1, <4>3, PromptKept DEF Request
      <4> QED
        BY <4>2, <4>3
    <3> QED
      BY <1>1, <2>2, <2>4, <3>1, <3>2, <3>3, <3>5, <3>6, ProceedStep
  <2>6. CASE ~c.pub
    <3> DEFINE p == [q EXCEPT !.state = "PUB_KEY"]
               pdus == <<start, PDU("PUB_KEY", None)>>
    <3>1. p \in Provs /\ p.state = "PUB_KEY" /\ p.addr /\ p.method = q.method
      BY <2>4 DEF Provs, States
    <3>2. agent \in Prompts \cup {None}
      BY DEF IInv, TypeOK
    <3>3. Proceed(d, p, pdus, agent, avail - 1)
      BY <2>1, <2>6
    <3>4. /\ pdus \in Seq(ToDevice) /\ DOMAIN pdus = {1, 2}
          /\ pdus[1] = start /\ pdus[2] = PDU("PUB_KEY", None)
      BY <2>4
    <3> HIDE DEF p, pdus
    <3>5. PromptInv'
      BY <1>1, <3>1, <3>3, PromptKept DEF Proceed
    <3> QED
      BY <1>1, <2>2, <2>4, <3>1, <3>2, <3>3, <3>4, <3>5, ProceedStep
  <2> QED
    BY <2>5, <2>6
<1> QED
  BY <1>2, <1>3

LEMMA PubKeyStep == ASSUME IInv, NEW d \in Dev, RxPubKey(d) PROVE IInv'
<1>1. /\ conn = d /\ toProv # <<>> /\ prov[d].state = "PUB_KEY"
  BY DEF RxPubKey, Ready
<1>2. /\ prov[d] \in Provs /\ prov[d] # None /\ prov[d].addr /\ avail \in Nat
  <2>1. avail \in Nat
    BY DEF IInv, TypeOK
  <2> QED
    BY <1>1, <2>1, RxFacts
<1>3. CASE prov_complete(d, ERR)
  BY <1>1, <1>3, FailStep DEF prov_complete, ERR
<1>4. CASE Rx.op = "PUB_KEY" /\ ~prov[d].pub
  <2> DEFINE e == prov_calc_ecdh(d, prov[d])
  <2>1. Proceed(d, e.p, e.pdus, e.ag, avail)
    BY <1>4 DEF RxPubKey
  <2>2. /\ e.p \in Provs /\ e.pdus \in Seq(ToDevice) /\ e.ag \in Prompts \cup {None}
        /\ e.p.method = prov[d].method /\ e.p.addr = prov[d].addr
        /\ e.p.state \in {"PUB_KEY", "CONFIRM"}
        /\ e.p.state # "PUB_KEY" => prov[d].method = "none"
        /\ e.pdus = <<>> \/ e.pdus = <<PDU("CONFIRM", None)>>
        /\ \/ e.ag = agent
           \/ /\ agent = None /\ e.ag.for = d
              /\ e.ag.kind = "output" \/
                 (e.ag.kind = "oob" /\ prov[d].method \in {"static", "output"})
    BY <1>1, <1>2, EcdhResult DEF IInv
  <2> HIDE DEF e
  <2>3. \A i \in DOMAIN e.pdus : e.pdus[i].op = "CONFIRM"
    BY <2>2 DEF PDU
  <2>4. PromptInv'
    <3>1. prov' = [prov EXCEPT ![d] = e.p] /\ agent' = e.ag
      BY <2>1 DEF Proceed
    <3>2. CASE e.ag = agent
      BY <1>1, <1>2, <2>2, <3>1, <3>2, PromptKept
    <3>3. CASE agent = None /\ e.ag.for = d /\ (e.ag.kind = "output" \/
                 (e.ag.kind = "oob" /\ prov[d].method \in {"static", "output"}))
      <4>1. prov'[d] = e.p /\ e.p # None
        BY <2>2, <3>1, NoneAssumption DEF IInv, TypeOK
      <4> QED
        BY <2>2, <3>1, <3>3, <4>1 DEF PromptInv
    <3> QED
      BY <2>2, <3>2, <3>3
  <2> QED
    BY <1>1, <1>2, <2>1, <2>2, <2>3, <2>4, ProceedStep
<1>5. CASE ~(Rx.op = "PUB_KEY" /\ ~prov[d].pub) /\ Rx.op = "INP_CMPLT"
  <2> DEFINE p == [prov[d] EXCEPT !.state = "CONFIRM"]
             pdus == <<PDU("CONFIRM", None)>>
             a == IF agent # None /\ agent.kind = "output" THEN None ELSE agent
  <2>1. Proceed(d, p, pdus, a, avail)
    BY <1>5 DEF RxPubKey
  <2>2. p \in Provs /\ p.addr /\ p.state = "CONFIRM" /\ p.method = prov[d].method
    BY <1>2 DEF Provs, States
  <2>3. pdus \in Seq(ToDevice) /\ \A i \in DOMAIN pdus : pdus[i].op = "CONFIRM"
    BY DEF PDU, ToDevice
  <2>4. a \in Prompts \cup {None}
    BY DEF IInv, TypeOK
  <2>5. prov[d].method = "input"
    BY <1>1, <1>5, RxFacts DEF IInv, MethodInv
  <2>6. prov' = [prov EXCEPT ![d] = p] /\ agent' = a
    BY <2>1 DEF Proceed
  <2> HIDE DEF p, pdus
  <2>7. PromptInv'
    <3>1. CASE agent' = None
      BY <3>1 DEF PromptInv
    <3>2. CASE agent' # None
      BY <1>1, <2>2, <2>5, <2>6, <3>2, PromptKept
    <3> QED
      BY <3>1, <3>2
  <2> QED
    BY <1>1, <1>2, <2>1, <2>2, <2>3, <2>4, <2>7, ProceedStep
<1> QED
  BY <1>3, <1>4, <1>5 DEF RxPubKey

LEMMA ConfirmStep == ASSUME IInv, NEW d \in Dev, RxConfirm(d) \/ RxRandom(d) PROVE IInv'
<1>1. /\ conn = d /\ toProv # <<>>
      /\ prov[d].state = "CONFIRM" \/ prov[d].state = "RANDOM"
  BY DEF RxConfirm, RxRandom, Ready
<1>2. prov[d] \in Provs /\ prov[d] # None /\ prov[d].addr /\ avail \in Nat
  <2>1. avail \in Nat
    BY DEF IInv, TypeOK
  <2> QED
    BY <1>1, <2>1, RxFacts
<1>3. CASE prov_complete(d, ERR)
  BY <1>1, <1>3, FailStep DEF prov_complete, ERR
<1>4. ASSUME NEW state \in {"RANDOM", "DATA"}, NEW pdu \in ToDevice,
             Proceed(d, [prov[d] EXCEPT !.state = state], <<pdu>>, agent, avail),
             pdu.op = state
      PROVE  IInv'
  <2> DEFINE p == [prov[d] EXCEPT !.state = state]  pdus == <<pdu>>
  <2>1. p \in Provs /\ p.addr /\ p.state = state /\ p.method = prov[d].method
    BY <1>2 DEF Provs, States
  <2>2. pdus \in Seq(ToDevice) /\ DOMAIN pdus = {1} /\ Len(pdus) = 1 /\ pdus[1] = pdu
    OBVIOUS
  <2>3. Proceed(d, p, pdus, agent, avail) /\ agent \in Prompts \cup {None}
    BY <1>4 DEF IInv, TypeOK
  <2> HIDE DEF p, pdus
  <2>4. PromptInv'
    BY <1>1, <2>1, <2>3, PromptKept DEF Proceed
  <2>5. \A i \in DOMAIN pdus :
          /\ pdus[i].op = "DATA" => i = Len(pdus) /\ p.state = "DATA"
          /\ pdus[i].op = "START" => pdus[i].arg.method = p.method
    BY <1>4, <2>1, <2>2
  <2>6. p.state # "INVITE" /\ prov[d].state # "DATA"
    BY <1>1, <2>1
  <2> QED
    BY <1>1, <1>2, <2>1, <2>2, <2>3, <2>4, <2>5, <2>6, ProceedStep
<1>5. PDU("RANDOM", prov[d].oob) \in ToDevice /\ PDU("DATA", None) \in ToDevice
  BY <1>2 DEF PDU, ToDevice, Provs
<1> QED
  BY <1>3, <1>4, <1>5 DEF RxConfirm, RxRandom, PDU

LEMMA EndStep ==
  ASSUME IInv, NEW d \in Dev, RxInvalid(d) \/ RxFailed(d) \/ RxStart(d) \/ RxComplete(d)
  PROVE  IInv'
<1>1. conn = d /\ toProv # <<>>
  BY DEF RxInvalid, RxFailed, RxStart, RxComplete, Ready
<1>2. CASE prov_complete(d, ERR)
  BY <1>1, <1>2, FailStep DEF prov_complete, ERR
<1>3. CASE RxFailed(d)
  BY <1>1, <1>2, <1>3, RxFacts DEF RxFailed
<1>4. CASE RxComplete(d) /\ Rx.op = "COMPLETE"
  <2>1. Succeed(d) /\ prov[d].state = "DATA"
    BY <1>4 DEF RxComplete, Ready, prov_complete
  <2>2. dev[d].st = "provisioned"
    BY <1>1, <1>4, RxFacts DEF IInv, DataInv
  <2> QED
    BY <1>1, <2>1, <2>2, SucceedStep
<1> QED
  BY <1>2, <1>3, <1>4 DEF RxInvalid, RxStart, RxComplete
-----------------------------------------------------------------------------
(* The user. *)

LEMMA AnsweredStep ==
  ASSUME IInv, NEW d \in Dev, NEW e, Answered(d, e), e.p \in Provs, e.pdus \in Seq(ToDevice),
         prov[d] # None, prov[d].state \in {"START", "PUB_KEY"},
         e.p.state \in {"PUB_KEY", "CONFIRM"}, e.p.addr = prov[d].addr,
         e.p.method = prov[d].method, conn = None => e.pdus = <<>>,
         \A i \in DOMAIN e.pdus : e.pdus[i].op # "START"
  PROVE  IInv'
<1> DEFINE p == e.p
<1>1. /\ prov[d] \in Provs /\ p # None /\ prov' = [prov EXCEPT ![d] = p]
      /\ toDev' = toDev \o e.pdus /\ agent' = None /\ toDev \in Seq(ToDevice)
      /\ UNCHANGED <<node, conn, avail, lost, toProv, dev>> /\ TypeOK
  BY NoneAssumption DEF Answered, IInv, TypeOK
<1> HIDE DEF p
<1>2. AddressesAccounted'
  <2>1. Done' = Done /\ Holding' = Holding
    BY <1>1 DEF TypeOK, Done, Holding, p
  <2>2. avail' \in Int /\ lost' \in Int /\ avail' + lost' = avail + lost
    BY <1>1 DEF TypeOK
  <2> QED
    BY <1>1, <2>1, <2>2, AccountsStep DEF IInv
<1>3. TypeOK'
  <2>1. toDev' \in Seq(ToDevice)
    BY <1>1 DEF TypeOK
  <2> QED
    BY <1>1, <2>1 DEF TypeOK, p
<1>4. AddrInv'
  BY <1>1 DEF IInv, AddrInv, TypeOK, p
<1>5. ConnInv'
  <2>1. conn = None => toDev' = <<>>
    BY <1>1, ProvAssumption DEF IInv, ConnInv
  <2> QED
    BY <1>1, <2>1 DEF IInv, ConnInv, TypeOK
<1>6. DataInv' /\ MethodInv'
  <2>1. DataInv'
    BY <1>1 DEF IInv, DataInv
  <2>2. \A i \in DOMAIN toDev' : toDev'[i].op = "START" =>
          i \in DOMAIN toDev /\ toDev'[i] = toDev[i]
    BY <1>1, ConcatElement
  <2>3. conn # None =>
          /\ prov'[conn].method = prov[conn].method
          /\ prov[conn].state # "INVITE" => prov'[conn].state # "INVITE"
    BY <1>1 DEF TypeOK, p
  <2>4. MethodInv'
    BY <1>1, <2>2, <2>3 DEF IInv, MethodInv
  <2> QED
    BY <2>1, <2>4
<1>7. CompletedAgree' /\ PromptInv'
  BY <1>1 DEF IInv, CompletedAgree, PromptInv
<1> QED
  BY <1>2, <1>3, <1>4, <1>5, <1>6, <1>7 DEF IInv

\* A step that leaves everything but the pending request alone.
LEMMA AgentOnly ==
  ASSUME IInv, UNCHANGED <<node, prov, conn, avail, lost, toDev, toProv, dev>>,
         agent' \in Prompts \cup {None}, PromptInv'
  PROVE  IInv'
<1>1. TypeOK' /\ ConnInv' /\ AddrInv' /\ CompletedAgree' /\ AddressesAccounted'
  BY DEF IInv, TypeOK, ConnInv, AddrInv, CompletedAgree, AddressesAccounted
<1>2. DataInv' /\ MethodInv'
  BY DEF IInv, DataInv, MethodInv
<1> QED
  BY <1>1, <1>2 DEF IInv

LEMMA ResponseStep ==
  ASSUME IInv, NEW value \in {"good", "wrong"}, AgentResponse(value)
  PROVE  IInv'
<1> DEFINE d == agent.for
<1>1. agent \in Prompts /\ agent # None /\ d \in Dev
  BY DEF AgentResponse, IInv, TypeOK, Prompts
<1>2. CASE agent.kind = "output"
  <2>1. agent' = None /\ UNCHANGED <<node, prov, conn, avail, lost, toDev, toProv, dev>>
    BY <1>2 DEF AgentResponse
  <2> QED
    BY <2>1, AgentOnly DEF PromptInv
<1>3. CASE agent.kind # "output"
  <2>1. /\ ~agent.stale /\ prov[d] # None /\ prov[d] \in Provs
        /\ agent.kind = "pubkey" => prov[d].state = "START"
        /\ agent.kind = "oob" => prov[d].state = "PUB_KEY"
    BY <1>1, <1>3 DEF AgentResponse, IInv, PromptInv, TypeOK
  <2>2. CASE agent.kind = "pubkey"
    <3> DEFINE q == [prov[d] EXCEPT !.state = "PUB_KEY"]
               f == prov_calc_ecdh(d, q)
               e == [f EXCEPT !.pdus = <<PDU("PUB_KEY", None)>> \o @]
               none == [p |-> q, pdus |-> <<>>]
    <3>1. (conn # None /\ Answered(d, e)) \/ Answered(d, none)
      BY <1>3, <2>2 DEF AgentResponse, prov_oob_pub_key, PipeOpen
    <3>2. q \in Provs /\ q.state = "PUB_KEY" /\ q.method = prov[d].method /\ q.addr = prov[d].addr
      BY <2>1 DEF Provs, States
    <3> HIDE DEF q
    <3>6. /\ none.p = q /\ none.pdus = <<>> /\ none.pdus \in Seq(ToDevice)
          /\ \A i \in DOMAIN none.pdus : none.pdus[i].op # "START"
      OBVIOUS
    <3> HIDE DEF none
    <3>7. CASE Answered(d, none)
      BY <1>1, <2>1, <2>2, <3>2, <3>6, <3>7, AnsweredStep
    <3>3. /\ f.p \in Provs /\ f.p.method = q.method /\ f.p.addr = q.addr
          /\ f.p.state \in {"PUB_KEY", "CONFIRM"}
          /\ f.pdus = <<>> \/ f.pdus = <<PDU("CONFIRM", None)>>
      BY <1>1, <3>2, EcdhResult DEF IInv
    <3>4. e.p = f.p /\ e.pdus = <<PDU("PUB_KEY", None)>> \o f.pdus
      BY <3>2 DEF prov_calc_ecdh, Provs, Methods
    <3> HIDE DEF f, e
    <3>5. /\ e.pdus \in Seq(ToDevice)
          /\ \A i \in DOMAIN e.pdus : e.pdus[i].op # "START"
      <4> DEFINE s == <<PDU("PUB_KEY", None)>>
      <4>1. s \in Seq(ToDevice) /\ \A i \in DOMAIN s : s[i].op = "PUB_KEY"
        BY DEF PDU, ToDevice
      <4>2. f.pdus \in Seq(ToDevice) /\ \A i \in DOMAIN f.pdus : f.pdus[i].op = "CONFIRM"
        <5>1. CASE f.pdus = <<>>
          BY <5>1
        <5>2. CASE f.pdus = <<PDU("CONFIRM", None)>>
          BY <5>2 DEF PDU, ToDevice
        <5> QED
          BY <3>3, <5>1, <5>2
      <4> HIDE DEF s
      <4>3. e.pdus = s \o f.pdus /\ e.pdus \in Seq(ToDevice)
        BY <3>4, <4>1, <4>2 DEF s
      <4> QED
        BY <4>1, <4>2, <4>3, ConcatElement
    <3>8. CASE conn # None /\ Answered(d, e)
      BY <1>1, <2>1, <2>2, <3>2, <3>3, <3>4, <3>5, <3>8, AnsweredStep
    <3> QED
      BY <3>1, <3>7, <3>8
  <2>3. CASE agent.kind = "oob"
    <3> DEFINE e == [p    |-> [prov[d] EXCEPT !.state = "CONFIRM", !.oob = value],
                     pdus |-> <<PDU("CONFIRM", None)>>]
               none == [e EXCEPT !.pdus = <<>>]
    <3>1. (conn # None /\ Answered(d, e)) \/ Answered(d, none)
      BY <1>3, <2>3 DEF AgentResponse, prov_out_oob_done, PipeOpen
    <3>2. /\ e.p \in Provs /\ e.p.state = "CONFIRM" /\ e.p.addr = prov[d].addr
          /\ e.p.method = prov[d].method
      BY <2>1 DEF Provs, States, Values
    <3>3. /\ e.pdus \in Seq(ToDevice)
          /\ \A i \in DOMAIN e.pdus : e.pdus[i].op # "START"
      BY DEF PDU, ToDevice
    <3>4. /\ none.p = e.p /\ none.pdus = <<>> /\ none.pdus \in Seq(ToDevice)
          /\ \A i \in DOMAIN none.pdus : none.pdus[i].op # "START"
      OBVIOUS
    <3> HIDE DEF e, none
    <3>5. CASE conn # None /\ Answered(d, e)
      BY <1>1, <2>1, <2>3, <3>2, <3>3, <3>5, AnsweredStep
    <3>6. CASE Answered(d, none)
      BY <1>1, <2>1, <2>3, <3>2, <3>4, <3>6, AnsweredStep
    <3> QED
      BY <3>1, <3>5, <3>6
  <2> QED
    BY <1>1, <1>3, <2>2, <2>3 DEF Prompts
<1> QED
  BY <1>2, <1>3

LEMMA TypoStep == ASSUME IInv, AgentTypo PROVE IInv'
<1>1. agent \in Prompts /\ agent' = [agent EXCEPT !.open = FALSE]
  BY DEF AgentTypo, IInv, TypeOK
<1>2. /\ agent' \in Prompts /\ agent'.for = agent.for /\ agent'.kind = agent.kind
      /\ agent'.stale = agent.stale
  BY <1>1 DEF Prompts
<1>3. PromptInv'
  BY <1>2 DEF IInv, PromptInv, AgentTypo
<1> QED
  BY <1>2, <1>3, AgentOnly DEF AgentTypo
-----------------------------------------------------------------------------
(* Attempts that start or are cut off, and the device. *)

LEMMA DiscoverStep == ASSUME IInv, NEW d \in Dev, Discover(d) PROVE IInv'
<1>1. /\ node[d] = "none" /\ node' = [node EXCEPT ![d] = "new"]
      /\ UNCHANGED <<prov, conn, agent, avail, lost, toDev, toProv, dev>> /\ TypeOK
  BY DEF Discover, IInv
<1>2. TypeOK' /\ ConnInv' /\ AddrInv' /\ CompletedAgree'
  BY <1>1 DEF IInv, TypeOK, ConnInv, AddrInv, CompletedAgree
<1>3. AddressesAccounted'
  <2>1. Done' = Done /\ Holding' = Holding
    BY <1>1 DEF TypeOK, Done, Holding
  <2>2. avail' \in Int /\ lost' \in Int /\ avail' + lost' = avail + lost
    BY <1>1 DEF TypeOK
  <2> QED
    BY <1>1, <2>1, <2>2, AccountsStep DEF IInv
<1>4. DataInv' /\ MethodInv' /\ PromptInv'
  BY <1>1 DEF IInv, DataInv, MethodInv, PromptInv
<1> QED
  BY <1>2, <1>3, <1>4 DEF IInv

LEMMA OpenStep == ASSUME IInv, NEW d \in Dev, prov_open(d) PROVE IInv'
<1>1. /\ conn = None /\ node[d] = "new" /\ dev[d].st = "idle" /\ TypeOK
      /\ toDev = <<>> /\ toProv = <<>> /\ UNCHANGED <<avail, toProv, dev>>
  BY DEF prov_open, IInv, ConnInv
<1>2. CASE prov[d] # None
  <2>1. /\ node' = [node EXCEPT ![d] = "none"] /\ prov' = [prov EXCEPT ![d] = None]
        /\ lost' = lost + (IF prov[d].addr THEN 1 ELSE 0)
        /\ agent' = AgentAfterFree(d) /\ UNCHANGED <<conn, toDev>> /\ prov[d] \in Provs
    BY <1>2 DEF prov_open, Released, IInv, TypeOK
  <2>2. AddressesAccounted'
    <3>1. avail' \in Int /\ lost' \in Int
      BY <1>1, <2>1 DEF TypeOK
    <3>2. Done' = Done /\ Holding' = Holding \ {d} /\ (d \in Holding <=> prov[d].addr)
      BY <1>1, <1>2, <2>1 DEF TypeOK, Done, Holding
    <3>3. \/ prov[d].addr /\ avail' + lost' = avail + lost + 1
          \/ ~prov[d].addr /\ avail' + lost' = avail + lost
      BY <1>1, <2>1 DEF TypeOK, Provs
    <3>4. CASE prov[d].addr
      BY <1>1, <3>1, <3>2, <3>3, <3>4, AccountsStep DEF IInv
    <3>5. CASE ~prov[d].addr
      BY <1>1, <3>1, <3>2, <3>3, <3>5, AccountsStep DEF IInv
    <3> QED
      BY <3>4, <3>5
  <2>3. TypeOK'
    <3>1. avail' \in Nat /\ lost' \in Nat
      BY <1>1, <2>1 DEF TypeOK, Provs
    <3>2. avail' \in 0..MaxAddr /\ lost' \in 0..MaxAddr
      BY <2>2, <3>1, AccountsBound
    <3>3. agent' \in Prompts \cup {None}
      BY <1>1, <2>1, AfterFree
    <3> QED
      BY <1>1, <2>1, <3>2, <3>3 DEF TypeOK
  <2>4. ConnInv' /\ AddrInv' /\ DataInv' /\ MethodInv' /\ CompletedAgree'
    BY <1>1, <2>1 DEF IInv, TypeOK, ConnInv, AddrInv, DataInv, MethodInv, CompletedAgree
  <2>5. PromptInv'
    BY <1>1, <2>1, AfterFree DEF IInv, PromptInv, TypeOK
  <2> QED
    BY <2>2, <2>3, <2>4, <2>5 DEF IInv
<1>3. CASE prov[d] = None
  <2>1. /\ prov' = [prov EXCEPT ![d] = NewProv] /\ conn' = d
        /\ toDev' = <<PDU("INVITE", None)>> /\ UNCHANGED <<node, lost, agent>>
    BY <1>3 DEF prov_open
  <2>2. NewProv \in Provs /\ NewProv # None /\ ~NewProv.addr /\ NewProv.state = "INVITE"
    <3>1. NewProv \in Provs /\ ~NewProv.addr /\ NewProv.state = "INVITE"
      BY DEF NewProv, Provs, States, Methods, Values
    <3> QED
      BY <3>1, NoneAssumption
  <2>3. /\ toDev' \in Seq(ToDevice) /\ \A i \in DOMAIN toDev' : toDev'[i].op = "INVITE"
    BY <2>1 DEF PDU, ToDevice
  <2>4. TypeOK' /\ ConnInv' /\ AddrInv' /\ CompletedAgree'
    <3>1. TypeOK'
      BY <1>1, <2>1, <2>2, <2>3 DEF TypeOK
    <3> QED
      BY <1>1, <2>1, <2>2, <3>1, ProvAssumption DEF IInv, TypeOK, ConnInv, AddrInv, CompletedAgree
  <2>5. AddressesAccounted'
    <3>1. Done' = Done /\ Holding' = Holding
      BY <1>1, <1>3, <2>1, <2>2 DEF TypeOK, Done, Holding
    <3>2. avail' \in Int /\ lost' \in Int /\ avail' + lost' = avail + lost
      BY <1>1, <2>1 DEF TypeOK
    <3> QED
      BY <1>1, <3>1, <3>2, AccountsStep DEF IInv
  <2>6. DataInv' /\ MethodInv'
    <3>1. dev'[conn'] = dev[d] /\ dev[d].method # "input"
      BY <1>1, <2>1 DEF IInv, MethodInv
    <3> QED
      BY <1>1, <2>1, <2>3, <3>1 DEF IInv, DataInv, MethodInv
  <2>7. PromptInv'
    BY <1>1, <1>3, <2>1, <2>2, PromptKept
  <2> QED
    BY <2>4, <2>5, <2>6, <2>7 DEF IInv
<1> QED
  BY <1>2, <1>3

LEMMA CutOffStep == ASSUME IInv, Disconnected PROVE IInv'
<1>1. /\ conn \in Dev /\ conn' = None /\ toDev' = <<>> /\ toProv' = <<>>
      /\ dev' = DevAfterLink(conn) /\ UNCHANGED <<node, prov, agent, avail, lost>> /\ TypeOK
  BY DEF Disconnected, IInv, TypeOK
<1>2. /\ dev' \in [Dev -> DevTypes]
      /\ \A e \in Dev : dev'[e] = dev[e] \/ (dev[e].st # "provisioned" /\ dev'[e] = IdleDev)
  BY <1>1, AfterLink
<1>3. TypeOK' /\ ConnInv' /\ AddrInv'
  BY <1>1, <1>2, EmptyTypes DEF IInv, TypeOK, ConnInv, AddrInv
<1>4. CompletedAgree' /\ DataInv' /\ MethodInv'
  BY <1>1, <1>2 DEF IInv, CompletedAgree, DataInv, MethodInv, IdleDev
<1>5. AddressesAccounted' /\ PromptInv'
  BY <1>1 DEF IInv, AddressesAccounted, PromptInv
<1> QED
  BY <1>3, <1>4, <1>5 DEF IInv

\* The device becomes st and writes pdus; it may have read the first PDU.
LEMMA DeviceStep ==
  ASSUME IInv, NEW d \in Dev, conn = d, NEW st \in DevTypes, NEW pdus \in Seq(ToProvisioner),
         dev' = [dev EXCEPT ![d] = st], toProv' = toProv \o pdus,
         UNCHANGED <<node, prov, conn, agent, avail, lost>>,
         \/ toDev' = toDev
         \/ toDev # <<>> /\ toDev' = Tail(toDev),
         st.st # "idle", dev[d].st # "provisioned",
         \/ st.method = dev[d].method
         \/ toDev # <<>> /\ Received.op = "START" /\ st.method = Received.arg.method,
         \A i \in DOMAIN pdus :
           /\ pdus[i].op = "COMPLETE" => st.st = "provisioned"
           /\ pdus[i].op = "INP_CMPLT" => st.method = "input"
  PROVE  IInv'
<1>1. /\ TypeOK /\ conn # None /\ node[d] = "new" /\ dev'[d] = st
      /\ toDev \in Seq(ToDevice) /\ toProv \in Seq(ToProvisioner)
      /\ \A e \in Dev : e # d => dev'[e] = dev[e]
  BY Connected DEF IInv, TypeOK
<1>2. /\ toDev' \in Seq(ToDevice)
      /\ \A i \in DOMAIN toDev' : \E j \in DOMAIN toDev : toDev'[i] = toDev[j]
  <2>1. CASE toDev' = toDev
    BY <1>1, <2>1
  <2>2. CASE toDev # <<>> /\ toDev' = Tail(toDev)
    BY <1>1, <2>2, TailElement
  <2> QED
    BY <2>1, <2>2
<1>3. \A i \in DOMAIN toProv' :
        \/ i \in DOMAIN toProv /\ toProv'[i] = toProv[i]
        \/ \E j \in DOMAIN pdus : toProv'[i] = pdus[j]
  BY <1>1, ConcatElement
<1>4. TypeOK' /\ ConnInv' /\ AddrInv' /\ CompletedAgree'
  <2>1. TypeOK'
    BY <1>1, <1>2 DEF TypeOK
  <2> QED
    BY <1>1, <2>1 DEF IInv, ConnInv, AddrInv, CompletedAgree
<1>5. toDev # <<>> => Received = toDev[1] /\ 1 \in DOMAIN toDev
  BY <1>1, TailElement DEF Received
<1>6. DataInv'
  BY <1>1, <1>3 DEF IInv, DataInv
<1>7. MethodInv'
  <2>1. st.method = "input" => prov[d].method = "input" /\ prov[d].state # "INVITE"
    BY <1>1, <1>5 DEF IInv, MethodInv
  <2>2. dev[d].method = "input" => st.method = "input"
    BY <1>1, <1>5 DEF IInv, MethodInv
  <2>3. \A i \in DOMAIN toProv' : toProv'[i].op = "INP_CMPLT" => st.method = "input"
    BY <1>1, <1>3, <2>2 DEF IInv, MethodInv
  <2>4. \A i \in DOMAIN toDev' : toDev'[i].op = "START" =>
          toDev'[i].arg.method = prov[d].method /\ prov[d].state # "INVITE"
    BY <1>1, <1>2 DEF IInv, MethodInv
  <2> QED
    BY <1>1, <2>1, <2>3, <2>4 DEF IInv, MethodInv
<1>8. AddressesAccounted' /\ PromptInv'
  BY DEF IInv, AddressesAccounted, PromptInv
<1> QED
  BY <1>4, <1>6, <1>7, <1>8 DEF IInv

\* What a device may write.
LEMMA DevicePdus ==
  /\ \A op \in {"PUB_KEY", "INP_CMPLT", "CONFIRM", "RANDOM", "COMPLETE"} :
       PDU(op, None) \in ToProvisioner /\ PDU(op, None).op = op
  /\ \A op \in {"FAILED", "BAD", "INVITE"} :
       PDU(op, ERR) \in ToProvisioner /\ PDU(op, ERR).op = op
  /\ \A c \in Caps : PDU("CAPS", c) \in ToProvisioner /\ PDU("CAPS", c).op = "CAPS"
BY DEF PDU, ToProvisioner

LEMMA OnePdu ==
  ASSUME NEW x \in ToProvisioner
  PROVE  /\ <<x>> \in Seq(ToProvisioner)
         /\ \A i \in DOMAIN <<x>> : <<x>>[i] = x
OBVIOUS

LEMMA AppendOne ==
  ASSUME NEW S, NEW s \in Seq(S), NEW x \in S
  PROVE  Append(s, x) = s \o <<x>>
OBVIOUS

\* A device that reads the first PDU and answers with one, or not at all.
LEMMA ReplyStep ==
  ASSUME IInv, NEW d \in Dev, conn = d, toDev # <<>>, dev[d].st # "provisioned",
         NEW st \in DevTypes, NEW pdus, Reply(d, st, pdus),
         pdus = <<>> \/ \E x \in ToProvisioner :
                           /\ pdus = <<x>> /\ x.op # "INP_CMPLT"
                           /\ x.op = "COMPLETE" => st.st = "provisioned",
         st.st # "idle",
         \/ st.method = dev[d].method
         \/ Received.op = "START" /\ st.method = Received.arg.method
  PROVE  IInv'
<1>2. pdus \in Seq(ToProvisioner) /\ \A i \in DOMAIN pdus :
        /\ pdus[i].op = "COMPLETE" => st.st = "provisioned"
        /\ pdus[i].op = "INP_CMPLT" => st.method = "input"
  <2>1. CASE pdus = <<>>
    BY <2>1
  <2>2. ASSUME NEW x \in ToProvisioner, pdus = <<x>>, x.op # "INP_CMPLT",
               x.op = "COMPLETE" => st.st = "provisioned"
        PROVE  <1>2!1
    BY <2>2, OnePdu
  <2> QED
    BY <2>1, <2>2, OnePdu
<1>3. /\ dev' = [dev EXCEPT ![d] = st] /\ toProv' = toProv \o pdus
      /\ UNCHANGED <<node, prov, conn, agent, avail, lost>> /\ toDev' = Tail(toDev)
  BY DEF Reply
<1> QED
  BY <1>2, <1>3, DeviceStep

LEMMA DeviceRxStep == ASSUME IInv, NEW d \in Dev, DeviceRx(d) PROVE IInv'
<1>1. /\ conn = d /\ toDev # <<>> /\ dev[d].st # "provisioned" /\ dev[d] \in DevTypes
      /\ toDev \in Seq(ToDevice)
  BY Connected DEF DeviceRx, IInv, TypeOK
<1>2. Received \in ToDevice
  BY <1>1, TailElement DEF Received
<1> DEFINE To(s) == [dev[d] EXCEPT !.st = s]
<1>3. \A s \in DevStates : To(s) \in DevTypes /\ To(s).st = s /\ To(s).method = dev[d].method
  BY <1>1 DEF DevTypes
<1> HIDE DEF To
<1>4. CASE Received.op = "INVITE"
  <2>1. PICK c \in Caps : Reply(d, To("invited"), <<PDU("CAPS", c)>>)
    BY <1>4 DEF DeviceRx, To
  <2> QED
    BY <1>1, <1>3, <2>1, DevicePdus, ReplyStep DEF DevStates
<1>5. CASE Received.op = "START"
  <2> DEFINE st == [st |-> "started", pub |-> Received.arg.pub, method |-> Received.arg.method]
  <2>1. Reply(d, st, <<>>)
    BY <1>5 DEF DeviceRx
  <2>2. st \in DevTypes /\ st.st = "started" /\ st.method = Received.arg.method
    BY <1>2, <1>5 DEF ToDevice, DevTypes, DevStates
  <2> HIDE DEF st
  <2> QED
    BY <1>1, <1>5, <2>1, <2>2, ReplyStep
<1>6. CASE Received.op = "PUB_KEY"
  <2>1. \/ Reply(d, To("keyed"), <<>>)
        \/ Reply(d, To("keyed"), <<PDU("PUB_KEY", None)>>)
    BY <1>6 DEF DeviceRx, To
  <2> QED
    BY <1>1, <1>3, <2>1, DevicePdus, ReplyStep DEF DevStates
<1>7. CASE Received.op = "CONFIRM"
  <2>1. Reply(d, To("confirmed"), <<PDU("CONFIRM", None)>>)
    BY <1>7 DEF DeviceRx, To
  <2> QED
    BY <1>1, <1>3, <2>1, DevicePdus, ReplyStep DEF DevStates
<1>8. CASE Received.op = "RANDOM"
  <2>1. \/ Reply(d, To("failed"), <<PDU("FAILED", ERR)>>)
        \/ Reply(d, To("checked"), <<PDU("RANDOM", None)>>)
    BY <1>8 DEF DeviceRx, To
  <2> QED
    BY <1>1, <1>3, <2>1, DevicePdus, ReplyStep DEF DevStates
<1>9. CASE Received.op = "DATA"
  <2>1. Reply(d, To("provisioned"), <<PDU("COMPLETE", None)>>)
    BY <1>9 DEF DeviceRx, To
  <2> QED
    BY <1>1, <1>3, <1>9, <2>1, DevicePdus, ReplyStep DEF DevStates
<1> QED
  BY <1>4, <1>5, <1>6, <1>7, <1>8, <1>9 DEF DeviceRx

\* The device writes one PDU without reading any.
LEMMA UnaskedStep ==
  ASSUME IInv, NEW d \in Dev, conn = d, NEW st \in DevTypes, NEW x \in ToProvisioner,
         dev[d].st # "provisioned", st.st \in {"entered", "failed"}, st.method = dev[d].method,
         x.op # "COMPLETE", x.op = "INP_CMPLT" => dev[d].method = "input",
         dev' = [dev EXCEPT ![d] = st], toProv' = toProv \o <<x>>, toDev' = toDev,
         UNCHANGED <<node, prov, conn, agent, avail, lost>>
  PROVE  IInv'
<1>1. /\ <<x>> \in Seq(ToProvisioner)
      /\ \A i \in DOMAIN <<x>> :
           /\ <<x>>[i].op = "COMPLETE" => st.st = "provisioned"
           /\ <<x>>[i].op = "INP_CMPLT" => st.method = "input"
  BY OnePdu
<1> QED
  BY <1>1, DeviceStep

\* The device as it is but for st.
LEMMA DeviceBecomes ==
  ASSUME IInv, NEW d \in Dev, conn = d, NEW s \in DevStates
  PROVE  LET st == [dev[d] EXCEPT !.st = s]
         IN /\ [dev EXCEPT ![d].st = s] = [dev EXCEPT ![d] = st]
            /\ st \in DevTypes /\ st.st = s /\ st.method = dev[d].method
BY Connected DEF DevTypes

LEMMA InputStep == ASSUME IInv, NEW d \in Dev, DeviceInput(d) PROVE IInv'
<1> DEFINE x == PDU("INP_CMPLT", None)
           st == [dev[d] EXCEPT !.st = "entered"]
<1>1. x \in ToProvisioner /\ x.op = "INP_CMPLT"
  BY DevicePdus
<1>2. /\ conn = d /\ dev[d].st = "keyed" /\ dev[d].method = "input"
      /\ dev' = [dev EXCEPT ![d].st = "entered"] /\ toProv' = Append(toProv, x)
      /\ UNCHANGED <<node, prov, conn, agent, avail, lost>> /\ toDev' = toDev
  BY DEF DeviceInput
<1>3. /\ dev' = [dev EXCEPT ![d] = st]
      /\ st \in DevTypes /\ st.st = "entered" /\ st.method = dev[d].method
  BY <1>2, DeviceBecomes DEF DevStates
<1>4. toProv' = toProv \o <<x>>
  BY <1>1, <1>2, AppendOne DEF IInv, TypeOK
<1> HIDE DEF x, st
<1> QED
  BY <1>1, <1>2, <1>3, <1>4, UnaskedStep

LEMMA GivesUpStep == ASSUME IInv, NEW d \in Dev, DeviceFails(d) PROVE IInv'
<1>1. PICK op \in {"FAILED", "BAD", "INVITE"} : toProv' = Append(toProv, PDU(op, ERR))
  BY DEF DeviceFails
<1> DEFINE x == PDU(op, ERR)
           st == [dev[d] EXCEPT !.st = "failed"]
<1>2. x \in ToProvisioner /\ x.op = op
  BY DevicePdus
<1>3. /\ conn = d /\ dev[d].st # "provisioned" /\ dev' = [dev EXCEPT ![d].st = "failed"]
      /\ UNCHANGED <<node, prov, conn, agent, avail, lost>> /\ toDev' = toDev
  BY DEF DeviceFails
<1>4. /\ dev' = [dev EXCEPT ![d] = st]
      /\ st \in DevTypes /\ st.st = "failed" /\ st.method = dev[d].method
  BY <1>3, DeviceBecomes DEF DevStates
<1>5. toProv' = toProv \o <<x>>
  BY <1>1, <1>2, AppendOne DEF IInv, TypeOK
<1> HIDE DEF x, st
<1> QED
  BY <1>2, <1>3, <1>4, <1>5, UnaskedStep
-----------------------------------------------------------------------------
(* The invariant. *)

LEMMA Initially == Init => IInv
<1> SUFFICES ASSUME Init PROVE IInv
  OBVIOUS
<1>1. TypeOK
  <2>1. IdleDev \in DevTypes
    BY DEF IdleDev, DevTypes, DevStates, Methods
  <2> QED
    BY <2>1, EmptyTypes, ProvAssumption DEF Init, TypeOK
<1>2. ConnInv /\ AddrInv /\ DataInv /\ MethodInv /\ PromptInv /\ CompletedAgree
  BY DEF Init, ConnInv, AddrInv, DataInv, MethodInv, PromptInv, CompletedAgree, IdleDev
<1>3. AddressesAccounted
  <2>1. Done = {} /\ Holding = {}
    BY DEF Init, Done, Holding
  <2>2. Cardinality(Done) = 0 /\ Cardinality(Holding) = 0
    BY <2>1, FS_EmptySet
  <2> QED
    BY <2>2, Accounts, ProvAssumption DEF Init
<1> QED
  BY <1>1, <1>2, <1>3 DEF IInv

LEMMA StepPreserves == IInv /\ [Next]_vars => IInv'
<1> SUFFICES ASSUME IInv, [Next]_vars PROVE IInv'
  OBVIOUS
<1>1. ASSUME NEW d \in Dev, Discover(d) PROVE IInv'
  BY <1>1, DiscoverStep
<1>2. ASSUME NEW d \in Dev, prov_open(d) PROVE IInv'
  BY <1>2, OpenStep
<1>3. ASSUME NEW d \in Dev, prov_data_ready(d) PROVE IInv'
  BY <1>3, CapsStep, PubKeyStep, ConfirmStep, EndStep DEF prov_data_ready
<1>4. ASSUME NEW d \in Dev, DeviceRx(d) \/ DeviceInput(d) \/ DeviceFails(d) PROVE IInv'
  BY <1>4, DeviceRxStep, InputStep, GivesUpStep
<1>5. ASSUME NEW value \in {"good", "wrong"}, AgentResponse(value) PROVE IInv'
  BY <1>5, ResponseStep
<1>6. CASE AgentTypo
  BY <1>6, TypoStep
<1>7. CASE Disconnected
  BY <1>7, CutOffStep
<1>8. CASE UNCHANGED vars
  <2>1. TypeOK' /\ ConnInv' /\ AddrInv' /\ CompletedAgree' /\ AddressesAccounted'
    BY <1>8 DEF vars, IInv, TypeOK, ConnInv, AddrInv, CompletedAgree, AddressesAccounted
  <2>2. DataInv' /\ MethodInv' /\ PromptInv'
    BY <1>8 DEF vars, IInv, DataInv, MethodInv, PromptInv
  <2> QED
    BY <2>1, <2>2 DEF IInv
<1> QED
  BY <1>1, <1>2, <1>3, <1>4, <1>5, <1>6, <1>7, <1>8 DEF Next

LEMMA InvariantHolds == Spec => []IInv
BY Initially, StepPreserves, PTL DEF Spec

(* The provisioner, its prompts, its address blocks, the PDUs under way and  *)
(* the devices keep their types: prov_complete gets the status 0 from nothing *)
(* a device reports as a failure.                                            *)
THEOREM TypeCorrect == Spec => []TypeOK
<1>1. IInv => TypeOK
  BY DEF IInv
<1> QED
  BY <1>1, InvariantHolds, PTL

(* prov_complete stores a node as provisioned only if its device has the     *)
(* provisioning data, through failures, prompts and disconnects in any order *)
(* and on any number of devices.                                             *)
THEOREM CompletedAgreeing == Spec => []CompletedAgree
<1>1. IInv => CompletedAgree
  BY DEF IInv
<1> QED
  BY <1>1, InvariantHolds, PTL

(* Every block that prov_get_device_caps takes is with the attempt, with the *)
(* node it became, back in the pool exactly once (prov_complete), or lost to *)
(* an attempt that a disconnect cut off.                                     *)
THEOREM AddressesKept == Spec => []AddressesAccounted
<1>1. IInv => AddressesAccounted
  BY DEF IInv
<1> QED
  BY <1>1, InvariantHolds, PTL
-----------------------------------------------------------------------------
(* Prompts, when no attempt ends while one is open. *)

\* The two sides take turns: the device has read everything when it speaks, or
\* it has given up.
TurnInv ==
  conn # None =>
    /\ Len(toProv) <= 1
    /\ toProv # <<>> => toDev = <<>> \/ dev[conn].st = "failed"
    /\ dev[conn].st = "failed" =>
         \A i \in DOMAIN toProv : toProv[i].op \in {"FAILED", "BAD", "INVITE"}

\* Of what the device has to read only the last is answered.
LastInv ==
  conn # None =>
    \A i \in DOMAIN toDev : toDev[i].op # "START" =>
      \/ i = Len(toDev)
      \/ toDev[i].op = "PUB_KEY" /\ prov[conn].pub /\ prov[conn].method = "none"

\* The device learns from START whether it sends its public key.
PubInv ==
  conn # None =>
    /\ \A i \in DOMAIN toDev : toDev[i].op = "START" => (toDev[i].arg.pub <=> prov[conn].pub)
    /\ prov[conn].state # "INVITE" =>
         \/ toDev # <<>> /\ toDev[1].op = "START"
         \/ dev[conn].pub <=> prov[conn].pub

\* Our public key is written before the device has it, and before there is an
\* OOB value.
KeyInv ==
  /\ \A d \in Dev : prov[d] # None =>
       /\ prov[d].state \in {"INVITE", "START"} => prov[d].oob = "none"
       /\ prov[d].state = "START" => prov[d].pub
  /\ conn # None =>
       /\ dev[conn].st = "keyed" => prov[conn].state \notin {"INVITE", "START"}
       /\ \A i \in DOMAIN toDev : toDev[i].op = "PUB_KEY" =>
            /\ prov[conn].state \notin {"INVITE", "START"}
            /\ prov[conn].pub \/ prov[conn].oob = "none"

\* The user may enter our number only when both sides wait for it.
InputInv ==
  conn # None /\ dev[conn].st = "keyed" /\ dev[conn].method = "input"
  /\ prov[conn].oob = "good" => toProv = <<>> /\ toDev = <<>>

\* While a prompt is open nothing comes that could end its attempt.
AskInv ==
  agent # None /\ agent.kind # "output" =>
    /\ ~agent.stale /\ conn = agent.for
    /\ toProv = <<>>
    /\ \A i \in DOMAIN toDev : toDev[i].op = "START"

OrderInv == TurnInv /\ LastInv /\ PubInv /\ KeyInv /\ InputInv /\ AskInv

\* An answer of a device that has not given up: it is the only one, the device
\* has read everything, and no prompt waits.
LEMMA OurTurn ==
  ASSUME IInv, OrderInv, NEW d \in Dev, conn = d, toProv # <<>>
  PROVE  /\ Tail(toProv) = <<>>
         /\ agent = None \/ agent.kind = "output"
         /\ Rx.op \notin {"FAILED", "BAD", "INVITE"} => toDev = <<>> /\ dev[d].st # "failed"
<1>1. conn # None /\ Rx = toProv[1] /\ 1 \in DOMAIN toProv
  BY RxFacts
<1>2. Len(toProv) = 1 /\ Tail(toProv) = <<>>
  <2>1. Len(toProv) <= 1 /\ toProv \in Seq(ToProvisioner)
    BY <1>1 DEF OrderInv, TurnInv, IInv, TypeOK
  <2>2. Len(toProv) = 1
    <3> DEFINE n == Len(toProv)
    <3>1. n \in Nat /\ n # 0 /\ n <= 1
      BY <2>1, EmptySeq, LenProperties
    <3> HIDE DEF n
    <3>2. n = 1
      BY <3>1
    <3> QED
      BY <3>2 DEF n
  <2> QED
    BY <2>1, <2>2, OneTail
<1>3. Rx.op \notin {"FAILED", "BAD", "INVITE"} => toDev = <<>> /\ dev[d].st # "failed"
  BY <1>1 DEF OrderInv, TurnInv
<1>4. agent = None \/ agent.kind = "output"
  BY DEF OrderInv, AskInv
<1> QED
  BY <1>2, <1>3, <1>4

LEMMA OrderEnd ==
  ASSUME IInv, OrderInv, NEW d \in Dev, conn = d, toProv # <<>>,
         Fail(d, prov[d]) \/ Succeed(d)
  PROVE  OrderInv'
<1>1. /\ conn' = None /\ toDev' = <<>> /\ toProv' = <<>>
      /\ prov' = [prov EXCEPT ![d] = None]
      /\ agent' = agent \/ agent' = AgentAfterFree(d)
  BY DEF Fail, Succeed
<1>2. agent' = None \/ agent'.kind = "output"
  <2>1. agent \in Prompts \cup {None} /\ (agent = None \/ agent.kind = "output")
    BY OurTurn DEF IInv, TypeOK
  <2> QED
    BY <1>1, <2>1 DEF AgentAfterFree, Prompts
<1>3. KeyInv'
  BY <1>1 DEF OrderInv, KeyInv, IInv, TypeOK
<1> QED
  BY <1>1, <1>2, <1>3 DEF OrderInv, TurnInv, LastInv, PubInv, InputInv, AskInv

LEMMA OrderProceed ==
  ASSUME IInv, OrderInv, NEW d \in Dev, conn = d, toProv # <<>>, toDev = <<>>,
         dev[d].st # "failed", NEW p \in Provs, NEW pdus \in Seq(ToDevice),
         NEW a, NEW av, Proceed(d, p, pdus, a, av),
         \A i \in DOMAIN pdus :
           /\ pdus[i].op # "START" => i = Len(pdus)
           /\ pdus[i].op = "START" => (pdus[i].arg.pub <=> p.pub)
           /\ pdus[i].op = "PUB_KEY" => p.state # "START" /\ p.oob = "none",
         p.state # "INVITE", p.state = "START" => p.oob = "none" /\ p.pub,
         \/ pdus # <<>> /\ pdus[1].op = "START"
         \/ prov[d].state # "INVITE" /\ (prov[d].pub <=> p.pub),
         dev[d].st = "keyed" =>
           p.state # "START" /\ (dev[d].method = "input" /\ p.oob = "good" => pdus = <<>>),
         a # None /\ a.kind # "output" =>
           ~a.stale /\ a.for = d /\ \A i \in DOMAIN pdus : pdus[i].op = "START"
  PROVE  OrderInv'
<1>1. /\ conn # None /\ conn' = d /\ toProv' = <<>> /\ toDev' = pdus /\ agent' = a
      /\ prov' = [prov EXCEPT ![d] = p] /\ dev' = dev /\ prov'[d] = p /\ prov[d] # None
      /\ p # None
  BY OurTurn, Connected, NoneAssumption DEF Proceed, IInv, TypeOK
<1>2. TurnInv' /\ LastInv' /\ InputInv' /\ AskInv'
  BY <1>1 DEF TurnInv, LastInv, InputInv, AskInv
<1>3. PubInv'
  <2>1. prov[d].state # "INVITE" => (dev[d].pub <=> prov[d].pub)
    BY <1>1 DEF OrderInv, PubInv
  <2> QED
    BY <1>1, <2>1 DEF PubInv
<1>4. KeyInv'
  <2>1. \A e \in Dev : e # d => prov'[e] = prov[e]
    BY <1>1 DEF IInv, TypeOK
  <2> QED
    BY <1>1, <2>1 DEF OrderInv, KeyInv
<1> QED
  BY <1>2, <1>3, <1>4 DEF OrderInv

LEMMA OrderCaps == ASSUME IInv, OrderInv, NEW d \in Dev, RxCaps(d) PROVE OrderInv'
<1> DEFINE c == Rx.arg
           q == [prov[d] EXCEPT !.pub = c.pub, !.method = AuthMethod(c), !.addr = TRUE]
           start == PDU("START", [pub |-> q.pub, method |-> q.method])
<1>1. /\ conn = d /\ toProv # <<>> /\ prov[d].state = "INVITE"
  BY DEF RxCaps, Ready
<1>2. CASE prov_complete(d, ERR)
  BY <1>1, <1>2, OrderEnd DEF prov_complete, ERR
<1>3. CASE ~prov_complete(d, ERR)
  <2>1. /\ Rx.op = "CAPS"
        /\ IF c.pub
           THEN Proceed(d, [q EXCEPT !.state = "START"], <<start>>,
                        Request("pubkey", d), avail - 1)
           ELSE Proceed(d, [q EXCEPT !.state = "PUB_KEY"],
                        <<start, PDU("PUB_KEY", None)>>, agent, avail - 1)
    BY <1>3 DEF RxCaps
  <2>2. c \in CapsType /\ prov[d] \in Provs /\ prov[d] # None /\ conn # None
    BY <1>1, <2>1, RxFacts, ProvAssumption
  <2>3. /\ toDev = <<>> /\ dev[d].st # "failed" /\ dev[d].st # "keyed"
        /\ prov[d].oob = "none" /\ (agent = None \/ agent.kind = "output")
    <3>1. dev[d].st # "keyed" /\ prov[d].oob = "none"
      BY <1>1, <2>2 DEF OrderInv, KeyInv
    <3> QED
      BY <1>1, <2>1, <3>1, OurTurn
  <2>4. AuthMethod(c) \in Methods
    BY DEF AuthMethod, Methods
  <2>5. /\ q \in Provs /\ q.oob = "none" /\ (q.pub <=> c.pub) /\ start \in ToDevice
        /\ start.op = "START" /\ (start.arg.pub <=> q.pub)
        /\ PDU("PUB_KEY", None) \in ToDevice /\ PDU("PUB_KEY", None).op = "PUB_KEY"
    BY <2>2, <2>3, <2>4 DEF Provs, CapsType, ToDevice, PDU
  <2> HIDE DEF q, start
  <2>6. CASE c.pub
    <3> DEFINE p == [q EXCEPT !.state = "START"]  pdus == <<start>>  a == Request("pubkey", d)
    <3>1. p \in Provs /\ p.state = "START" /\ p.oob = "none" /\ (p.pub <=> q.pub)
      BY <2>5 DEF Provs, States
    <3>2. a # None /\ a.kind # "output" => ~a.stale /\ a.for = d
      BY <2>3 DEF Request, Waiting
    <3>3. Proceed(d, p, pdus, a, avail - 1)
      BY <2>1, <2>6
    <3>4. pdus \in Seq(ToDevice) /\ DOMAIN pdus = {1} /\ pdus[1] = start /\ pdus # <<>>
      BY <2>5
    <3> HIDE DEF p, pdus, a
    <3> QED
      BY <1>1, <2>3, <2>5, <2>6, <3>1, <3>2, <3>3, <3>4, OrderProceed
  <2>7. CASE ~c.pub
    <3> DEFINE p == [q EXCEPT !.state = "PUB_KEY"]
               pdus == <<start, PDU("PUB_KEY", None)>>
    <3>1. p \in Provs /\ p.state = "PUB_KEY" /\ p.oob = "none" /\ (p.pub <=> q.pub)
      BY <2>5 DEF Provs, States
    <3>2. Proceed(d, p, pdus, agent, avail - 1)
      BY <2>1, <2>7
    <3>3. /\ pdus \in Seq(ToDevice) /\ DOMAIN pdus = {1, 2} /\ Len(pdus) = 2 /\ pdus # <<>>
          /\ pdus[1] = start /\ pdus[2] = PDU("PUB_KEY", None)
      BY <2>5
    <3> HIDE DEF p, pdus
    <3>4. \A i \in DOMAIN pdus :
            /\ pdus[i].op # "START" => i = Len(pdus)
            /\ pdus[i].op = "START" => (pdus[i].arg.pub <=> p.pub)
            /\ pdus[i].op = "PUB_KEY" => p.state # "START" /\ p.oob = "none"
      BY <2>5, <3>1, <3>3
    <3> QED
      BY <1>1, <2>3, <2>5, <3>1, <3>2, <3>3, <3>4, OrderProceed
  <2> QED
    BY <2>6, <2>7
<1> QED
  BY <1>2, <1>3

LEMMA OrderPubKey == ASSUME IInv, OrderInv, NEW d \in Dev, RxPubKey(d) PROVE OrderInv'
<1>1. /\ conn = d /\ toProv # <<>> /\ prov[d].state = "PUB_KEY"
  BY DEF RxPubKey, Ready
<1>2. CASE prov_complete(d, ERR)
  BY <1>1, <1>2, OrderEnd DEF prov_complete, ERR
<1>3. CASE ~prov_complete(d, ERR)
  <2>1. Rx.op \in {"PUB_KEY", "INP_CMPLT"} /\ conn # None
    BY <1>1, <1>3, RxFacts DEF RxPubKey
  <2>2. /\ toDev = <<>> /\ dev[d].st # "failed" /\ (agent = None \/ agent.kind = "output")
        /\ prov[d] \in Provs
    BY <1>1, <2>1, OurTurn, RxFacts
  <2>3. CASE Rx.op = "PUB_KEY" /\ ~prov[d].pub
    <3> DEFINE e == prov_calc_ecdh(d, prov[d])
    <3>1. Proceed(d, e.p, e.pdus, e.ag, avail)
      BY <2>3 DEF RxPubKey
    <3>2. /\ e.p \in Provs /\ e.pdus \in Seq(ToDevice)
          /\ e.p.state \in {"PUB_KEY", "CONFIRM"}
          /\ e.pdus = <<>> \/ e.pdus = <<PDU("CONFIRM", None)>>
      BY <1>1, <2>2, EcdhResult DEF IInv
    <3>3. /\ e.p.pub <=> prov[d].pub
          /\ e.pdus # <<>> => e.p.oob = prov[d].oob /\ e.ag = agent
          /\ e.ag # None /\ e.ag.kind # "output" => ~e.ag.stale /\ e.ag.for = d
      BY <2>2 DEF prov_calc_ecdh, Provs, Methods, Request, Waiting
    <3> HIDE DEF e
    <3>4. \A i \in DOMAIN e.pdus : e.pdus[i].op = "CONFIRM" /\ i = Len(e.pdus) /\ e.pdus # <<>>
      <4>1. CASE e.pdus = <<>>
        BY <4>1
      <4>2. CASE e.pdus = <<PDU("CONFIRM", None)>>
        BY <4>2 DEF PDU
      <4> QED
        BY <3>2, <4>1, <4>2
    <3>5. e.ag # None /\ e.ag.kind # "output" => \A i \in DOMAIN e.pdus : e.pdus[i].op = "START"
      BY <2>2, <3>3, <3>4
    <3>6. dev[d].st = "keyed" /\ dev[d].method = "input" /\ e.p.oob = "good" => e.pdus = <<>>
      BY <1>1, <2>1, <3>3 DEF OrderInv, InputInv
    <3> QED
      BY <1>1, <2>2, <3>1, <3>2, <3>3, <3>4, <3>5, <3>6, OrderProceed
  <2>4. CASE ~(Rx.op = "PUB_KEY" /\ ~prov[d].pub)
    <3> DEFINE p == [prov[d] EXCEPT !.state = "CONFIRM"]
               pdus == <<PDU("CONFIRM", None)>>
               a == IF agent # None /\ agent.kind = "output" THEN None ELSE agent
    <3>1. Proceed(d, p, pdus, a, avail)
      BY <1>3, <2>4 DEF RxPubKey
    <3>2. /\ p \in Provs /\ p.state = "CONFIRM" /\ p.oob = prov[d].oob
          /\ p.pub <=> prov[d].pub
      BY <2>2 DEF Provs, States
    <3>3. pdus \in Seq(ToDevice) /\ DOMAIN pdus = {1} /\ Len(pdus) = 1 /\ pdus[1].op = "CONFIRM"
      BY DEF PDU, ToDevice
    <3>4. a = None
      BY <2>2
    <3>5. ~(dev[d].st = "keyed" /\ dev[d].method = "input" /\ p.oob = "good")
      BY <1>1, <2>1, <3>2 DEF OrderInv, InputInv
    <3> HIDE DEF p, pdus, a
    <3> QED
      BY <1>1, <2>2, <3>1, <3>2, <3>3, <3>4, <3>5, OrderProceed
  <2> QED
    BY <2>3, <2>4
<1> QED
  BY <1>2, <1>3

LEMMA OrderConfirm ==
  ASSUME IInv, OrderInv, NEW d \in Dev, RxConfirm(d) \/ RxRandom(d)
  PROVE  OrderInv'
<1>1. /\ conn = d /\ toProv # <<>> /\ prov[d].state \in {"CONFIRM", "RANDOM"}
  BY DEF RxConfirm, RxRandom, Ready
<1>2. CASE prov_complete(d, ERR)
  BY <1>1, <1>2, OrderEnd DEF prov_complete, ERR
<1>3. ASSUME NEW state \in {"RANDOM", "DATA"}, NEW pdu \in ToDevice,
             Proceed(d, [prov[d] EXCEPT !.state = state], <<pdu>>, agent, avail),
             pdu.op = state, Rx.op \in {"CONFIRM", "RANDOM"}
      PROVE  OrderInv'
  <2> DEFINE p == [prov[d] EXCEPT !.state = state]  pdus == <<pdu>>
  <2>1. /\ toDev = <<>> /\ dev[d].st # "failed" /\ (agent = None \/ agent.kind = "output")
        /\ prov[d] \in Provs /\ conn # None
    BY <1>1, <1>3, OurTurn, RxFacts
  <2>2. p \in Provs /\ p.state = state /\ p.oob = prov[d].oob /\ (p.pub <=> prov[d].pub)
    BY <2>1 DEF Provs, States
  <2>3. pdus \in Seq(ToDevice) /\ DOMAIN pdus = {1} /\ Len(pdus) = 1 /\ pdus[1] = pdu
    OBVIOUS
  <2>4. Proceed(d, p, pdus, agent, avail)
    BY <1>3
  <2>5. ~(dev[d].st = "keyed" /\ dev[d].method = "input" /\ p.oob = "good")
    BY <1>1, <2>1, <2>2 DEF OrderInv, InputInv
  <2> HIDE DEF p, pdus
  <2> QED
    BY <1>1, <1>3, <2>1, <2>2, <2>3, <2>4, <2>5, OrderProceed
<1>4. PDU("RANDOM", prov[d].oob) \in ToDevice /\ PDU("DATA", None) \in ToDevice
  BY <1>1, RxFacts DEF PDU, ToDevice, Provs
<1> QED
  BY <1>2, <1>3, <1>4 DEF RxConfirm, RxRandom, PDU

LEMMA OrderOver ==
  ASSUME IInv, OrderInv, NEW d \in Dev,
         RxInvalid(d) \/ RxFailed(d) \/ RxStart(d) \/ RxComplete(d)
  PROVE  OrderInv'
<1>1. conn = d /\ toProv # <<>>
  BY DEF RxInvalid, RxFailed, RxStart, RxComplete, Ready
<1>2. \E status \in {0, ERR} : prov_complete(d, status)
  BY <1>1, RxFacts DEF RxInvalid, RxFailed, RxStart, RxComplete
<1> QED
  BY <1>1, <1>2, OrderEnd DEF prov_complete

LEMMA OrderOpen == ASSUME IInv, OrderInv, NEW d \in Dev, prov_open(d) PROVE OrderInv'
<1>1. /\ conn = None /\ dev[d].st = "idle" /\ toDev = <<>> /\ toProv = <<>>
      /\ UNCHANGED <<toProv, dev>> /\ TypeOK
  BY DEF prov_open, IInv, ConnInv
<1>2. agent \in Prompts \cup {None} /\ (agent = None \/ agent.kind = "output")
  BY <1>1, ProvAssumption DEF OrderInv, AskInv, TypeOK, Prompts
<1>3. CASE prov[d] # None
  <2>1. /\ prov' = [prov EXCEPT ![d] = None] /\ agent' = AgentAfterFree(d)
        /\ UNCHANGED <<conn, toDev>>
    BY <1>3 DEF prov_open
  <2>2. agent' = None \/ agent'.kind = "output"
    BY <1>2, <2>1 DEF AgentAfterFree, Prompts
  <2>3. KeyInv'
    BY <1>1, <2>1 DEF OrderInv, KeyInv, TypeOK
  <2> QED
    BY <1>1, <2>1, <2>2, <2>3 DEF OrderInv, TurnInv, LastInv, PubInv, InputInv, AskInv
<1>4. CASE prov[d] = None
  <2>1. /\ prov' = [prov EXCEPT ![d] = NewProv] /\ conn' = d /\ agent' = agent
        /\ toDev' = <<PDU("INVITE", None)>>
    BY <1>4 DEF prov_open
  <2>2. DOMAIN toDev' = {1} /\ Len(toDev') = 1 /\ toDev'[1].op = "INVITE" /\ toProv' = <<>>
    BY <1>1, <2>1 DEF PDU
  <2>3. prov'[d] = NewProv /\ NewProv.state = "INVITE" /\ NewProv.oob = "none"
    BY <1>1, <2>1 DEF TypeOK, NewProv
  <2>4. KeyInv'
    BY <1>1, <2>1, <2>2, <2>3 DEF OrderInv, KeyInv, TypeOK
  <2>5. TurnInv' /\ LastInv' /\ PubInv' /\ InputInv' /\ AskInv'
    BY <1>1, <1>2, <2>1, <2>2, <2>3 DEF TurnInv, LastInv, PubInv, InputInv, AskInv
  <2> QED
    BY <2>4, <2>5 DEF OrderInv
<1> QED
  BY <1>3, <1>4

LEMMA OrderCutOff ==
  ASSUME IInv, OrderInv, Disconnected, "promptfail" \notin Env
  PROVE  OrderInv'
<1>1. conn' = None /\ agent' = None /\ prov' = prov /\ toDev' = <<>> /\ toProv' = <<>>
  BY DEF Disconnected, MayEnd
<1> QED
  BY <1>1 DEF OrderInv, TurnInv, LastInv, PubInv, KeyInv, InputInv, AskInv

\* Steps that the order does not see.
LEMMA OrderSame ==
  ASSUME OrderInv, UNCHANGED <<prov, conn, toDev, toProv, dev>>,
         \/ agent' = agent \/ agent' = None
         \/ /\ agent' # None /\ agent # None /\ agent'.kind = agent.kind
            /\ agent'.stale = agent.stale /\ agent'.for = agent.for
  PROVE  OrderInv'
<1>1. TurnInv' /\ LastInv' /\ PubInv' /\ KeyInv' /\ InputInv'
  BY DEF OrderInv, TurnInv, LastInv, PubInv, KeyInv, InputInv
<1>2. AskInv'
  BY DEF OrderInv, AskInv
<1> QED
  BY <1>1, <1>2 DEF OrderInv

\* An answer of the user: the device has nothing to read but START.
LEMMA OrderAnswered ==
  ASSUME IInv, OrderInv, NEW d \in Dev, NEW e, Answered(d, e),
         agent # None, agent.kind # "output", agent.for = d,
         e.p \in Provs, e.pdus \in Seq(ToDevice), e.p.state \notin {"INVITE", "START"},
         e.p.pub <=> prov[d].pub, prov[d].state # "INVITE",
         \A i \in DOMAIN e.pdus :
           /\ e.pdus[i].op # "START"
           /\ i = Len(e.pdus) \/
                (e.pdus[i].op = "PUB_KEY" /\ e.p.pub /\ e.p.method = "none")
           /\ e.pdus[i].op = "PUB_KEY" => e.p.pub,
         ~(dev[d].st = "keyed" /\ dev[d].method = "input" /\ e.p.oob = "good")
  PROVE  OrderInv'
<1> DEFINE p == e.p  pdus == e.pdus
<1>1. /\ conn = d /\ conn # None /\ toProv = <<>> /\ toDev \in Seq(ToDevice) /\ TypeOK
      /\ \A i \in DOMAIN toDev : toDev[i].op = "START"
  BY ProvAssumption DEF OrderInv, AskInv, IInv, TypeOK
<1>2. /\ prov' = [prov EXCEPT ![d] = p] /\ prov'[d] = p /\ toDev' = toDev \o pdus
      /\ agent' = None /\ UNCHANGED <<conn, toProv, dev>>
  BY <1>1 DEF Answered, TypeOK
<1> HIDE DEF p, pdus
<1>3. \A i \in DOMAIN toDev' :
        \/ i \in DOMAIN toDev /\ toDev'[i] = toDev[i] /\ toDev'[i].op = "START"
        \/ \E j \in DOMAIN pdus : toDev'[i] = pdus[j] /\ (j = Len(pdus) => i = Len(toDev'))
  BY <1>1, <1>2, ConcatElement DEF pdus
<1>4. LastInv'
  BY <1>1, <1>2, <1>3 DEF LastInv, p, pdus
<1>5. PubInv'
  <2>1. \A i \in DOMAIN toDev : toDev[i].arg.pub <=> prov[d].pub
    BY <1>1 DEF OrderInv, PubInv
  <2>2. \A i \in DOMAIN toDev' : toDev'[i].op = "START" => (toDev'[i].arg.pub <=> p.pub)
    BY <1>3, <2>1 DEF p, pdus
  <2>3. toDev # <<>> /\ toDev[1].op = "START" => toDev' # <<>> /\ toDev'[1].op = "START"
    <3>1. toDev # <<>> => 1 \in DOMAIN toDev /\ 1 \in DOMAIN toDev' /\ toDev'[1] = toDev[1]
      BY <1>1, <1>2, EmptySeq, LenProperties DEF pdus
    <3> QED
      BY <3>1
  <2>4. (toDev # <<>> /\ toDev[1].op = "START") \/ (dev[d].pub <=> prov[d].pub)
    BY <1>1 DEF OrderInv, PubInv
  <2> QED
    BY <1>1, <1>2, <2>2, <2>3, <2>4 DEF PubInv, p
<1>6. KeyInv'
  <2>1. \A c \in Dev : c # d => prov'[c] = prov[c]
    BY <1>1, <1>2 DEF TypeOK
  <2>2. \A i \in DOMAIN toDev' : toDev'[i].op = "PUB_KEY" => p.pub
    BY <1>3 DEF p, pdus
  <2> QED
    BY <1>1, <1>2, <2>1, <2>2 DEF OrderInv, KeyInv, p
<1>7. TurnInv' /\ InputInv' /\ AskInv'
  BY <1>1, <1>2 DEF TurnInv, InputInv, AskInv, p
<1> QED
  BY <1>4, <1>5, <1>6, <1>7 DEF OrderInv

LEMMA OrderResponse ==
  ASSUME IInv, OrderInv, NEW value \in {"good", "wrong"}, AgentResponse(value)
  PROVE  OrderInv'
<1> DEFINE d == agent.for
<1>1. agent \in Prompts /\ agent # None /\ d \in Dev
  BY DEF AgentResponse, IInv, TypeOK, Prompts
<1>2. CASE agent.kind = "output"
  <2>1. agent' = None /\ UNCHANGED <<prov, conn, toDev, toProv, dev>>
    BY <1>2 DEF AgentResponse
  <2> QED
    BY <2>1, OrderSame
<1>3. CASE agent.kind # "output"
  <2>1. /\ ~agent.stale /\ prov[d] # None /\ prov[d] \in Provs /\ conn = d /\ conn # None
        /\ agent.kind = "pubkey" => prov[d].state = "START"
        /\ agent.kind = "oob" => prov[d].state = "PUB_KEY" /\ prov[d].method # "input"
    BY <1>1, <1>3, ProvAssumption DEF AgentResponse, IInv, PromptInv, TypeOK, OrderInv, AskInv
  <2>2. CASE agent.kind = "pubkey"
    <3> DEFINE q == [prov[d] EXCEPT !.state = "PUB_KEY"]
               f == prov_calc_ecdh(d, q)
               e == [f EXCEPT !.pdus = <<PDU("PUB_KEY", None)>> \o @]
    <3>1. Answered(d, e)
      BY <1>3, <2>1, <2>2 DEF AgentResponse, prov_oob_pub_key, PipeShut
    <3>2. /\ prov[d].pub /\ dev[d].st # "keyed"
      BY <1>1, <2>1, <2>2 DEF OrderInv, KeyInv
    <3>3. q \in Provs /\ q.state = "PUB_KEY" /\ q.pub
      BY <2>1, <3>2 DEF Provs, States
    <3> HIDE DEF q
    <3>4. /\ f.p \in Provs /\ f.p.method = q.method /\ f.p.state \in {"PUB_KEY", "CONFIRM"}
          /\ f.pdus = <<>> \/ f.pdus = <<PDU("CONFIRM", None)>>
      BY <1>1, <3>3, EcdhResult DEF IInv
    <3>5. f.p.pub /\ (f.pdus # <<>> => f.p.method = "none")
      BY <3>3 DEF prov_calc_ecdh, Provs, Methods
    <3>6. e.p = f.p /\ e.pdus = <<PDU("PUB_KEY", None)>> \o f.pdus
      BY <3>3 DEF prov_calc_ecdh, Provs, Methods
    <3> HIDE DEF f, e
    <3>7. /\ e.pdus \in Seq(ToDevice)
          /\ \A i \in DOMAIN e.pdus :
               /\ e.pdus[i].op # "START"
               /\ i = Len(e.pdus) \/ (e.pdus[i].op = "PUB_KEY" /\ e.p.method = "none")
      <4> DEFINE x == PDU("PUB_KEY", None)  y == PDU("CONFIRM", None)
      <4>1. x \in ToDevice /\ x.op = "PUB_KEY" /\ y \in ToDevice /\ y.op = "CONFIRM"
        BY DEF PDU, ToDevice
      <4> HIDE DEF x, y
      <4>2. CASE f.pdus = <<>>
        <5>1. e.pdus = <<x>>
          BY <3>6, <4>1, <4>2 DEF x
        <5> QED
          BY <4>1, <5>1
      <4>3. CASE f.pdus = <<y>>
        <5>1. /\ <<x>> \in Seq(ToDevice) /\ Len(<<x>>) = 1 /\ DOMAIN <<x>> = {1} /\ <<x>>[1] = x
              /\ <<y>> \in Seq(ToDevice) /\ Len(<<y>>) = 1 /\ DOMAIN <<y>> = {1} /\ <<y>>[1] = y
          BY <4>1
        <5>2. e.p.method = "none" /\ e.pdus = <<x>> \o <<y>>
          BY <3>5, <3>6, <4>3 DEF x
        <5> DEFINE s == <<x>>  t == <<y>>
        <5> HIDE DEF s, t
        <5>3. /\ s \in Seq(ToDevice) /\ Len(s) = 1 /\ DOMAIN s = {1} /\ s[1].op = "PUB_KEY"
              /\ t \in Seq(ToDevice) /\ Len(t) = 1 /\ DOMAIN t = {1} /\ t[1].op = "CONFIRM"
              /\ e.pdus = s \o t
          BY <4>1, <5>1, <5>2 DEF s, t
        <5>4. e.pdus \in Seq(ToDevice) /\ DOMAIN e.pdus \subseteq Int
          BY <5>3
        <5> QED
          BY <5>2, <5>3, <5>4, ConcatElement
      <4> QED
        BY <3>4, <4>2, <4>3 DEF y
    <3> QED
      BY <1>1, <1>3, <2>1, <2>2, <3>1, <3>2, <3>4, <3>5, <3>6, <3>7, OrderAnswered
  <2>3. CASE agent.kind = "oob"
    <3> DEFINE e == [p    |-> [prov[d] EXCEPT !.state = "CONFIRM", !.oob = value],
                     pdus |-> <<PDU("CONFIRM", None)>>]
    <3>1. Answered(d, e)
      BY <1>3, <2>1, <2>3 DEF AgentResponse, prov_out_oob_done, PipeShut
    <3>2. e.p \in Provs /\ e.p.state = "CONFIRM" /\ (e.p.pub <=> prov[d].pub)
      BY <2>1 DEF Provs, States, Values
    <3>3. /\ e.pdus \in Seq(ToDevice)
          /\ \A i \in DOMAIN e.pdus : e.pdus[i].op = "CONFIRM" /\ i = Len(e.pdus)
      BY DEF PDU, ToDevice
    <3>4. dev[d].method # "input"
      BY <2>1, <2>3 DEF IInv, MethodInv
    <3> HIDE DEF e
    <3> QED
      BY <1>1, <1>3, <2>1, <2>3, <3>1, <3>2, <3>3, <3>4, OrderAnswered
  <2> QED
    BY <1>1, <1>3, <2>2, <2>3 DEF Prompts
<1> QED
  BY <1>2, <1>3

\* The device reads its first PDU, and answers only if there is no other.
LEMMA OrderReply ==
  ASSUME IInv, OrderInv, NEW d \in Dev, conn = d, toDev # <<>>, dev[d].st # "failed",
         NEW st \in DevTypes, NEW pdus, Reply(d, st, pdus),
         \/ pdus = <<>> /\ st.st # "failed"
         \/ /\ Received.op # "START" /\ Len(toDev) = 1
            /\ \E x \in ToProvisioner :
                 pdus = <<x>> /\ (st.st = "failed" => x.op \in {"FAILED", "BAD", "INVITE"}),
         \/ Received.op # "START" /\ (st.pub <=> dev[d].pub)
         \/ Received.op = "START" /\ (st.pub <=> Received.arg.pub),
         st.st = "keyed" =>
           /\ prov[d].state \notin {"INVITE", "START"}
           /\ st.method = "input" /\ prov[d].oob = "good" => pdus = <<>> /\ Len(toDev) = 1
  PROVE  OrderInv'
<1>1. /\ conn # None /\ toProv = <<>> /\ toDev \in Seq(ToDevice) /\ TypeOK
      /\ Received = toDev[1] /\ 1 \in DOMAIN toDev
  BY Connected, TailElement DEF OrderInv, TurnInv, IInv, TypeOK, Received
<1>2. /\ toDev' = Tail(toDev) /\ toProv' = <<>> \o pdus /\ dev'[d] = st
      /\ UNCHANGED <<prov, conn, agent>>
  BY <1>1 DEF Reply, TypeOK
<1>3. /\ toProv' = pdus /\ Len(pdus) <= 1
      /\ pdus # <<>> => toDev' = <<>>
      /\ st.st = "failed" => \A i \in DOMAIN pdus : pdus[i].op \in {"FAILED", "BAD", "INVITE"}
  <2>1. CASE pdus = <<>> /\ st.st # "failed"
    BY <1>2, <2>1
  <2>2. ASSUME NEW x \in ToProvisioner, pdus = <<x>>, Len(toDev) = 1,
               st.st = "failed" => x.op \in {"FAILED", "BAD", "INVITE"}
        PROVE  <1>3!1 /\ <1>3!2 /\ <1>3!3
    <3>1. toDev' = <<>>
      BY <1>1, <1>2, <2>2, OneTail
    <3> QED
      BY <1>2, <2>2, <3>1, OnePdu
  <2> QED
    BY <2>1, <2>2
<1>4. /\ \A i \in DOMAIN toDev' : i + 1 \in DOMAIN toDev /\ toDev'[i] = toDev[i + 1]
      /\ Len(toDev') = Len(toDev) - 1
  BY <1>1, <1>2, TailElement
<1>5. TurnInv'
  BY <1>2, <1>3 DEF TurnInv
<1>6. LastInv'
  <2>1. Len(toDev) \in Nat /\ DOMAIN toDev' \subseteq Nat
    BY <1>1, <1>2, TailElement, LenProperties
  <2> QED
    BY <1>1, <1>2, <1>4, <2>1 DEF OrderInv, LastInv
<1>7. PubInv'
  <2>1. prov[d].state # "INVITE" => (st.pub <=> prov[d].pub)
    BY <1>1 DEF OrderInv, PubInv
  <2> QED
    BY <1>1, <1>2, <1>4, <2>1 DEF OrderInv, PubInv
<1>8. KeyInv'
  BY <1>1, <1>2, <1>4 DEF OrderInv, KeyInv
<1>9. InputInv'
  <2>1. Len(toDev) = 1 => toDev' = <<>>
    BY <1>1, <1>2, OneTail
  <2> QED
    BY <1>1, <1>2, <1>3, <2>1 DEF InputInv
<1>10. AskInv'
  <2>1. agent # None /\ agent.kind # "output" => pdus = <<>>
    BY <1>1 DEF OrderInv, AskInv
  <2> QED
    BY <1>1, <1>2, <1>3, <1>4, <2>1 DEF OrderInv, AskInv
<1> QED
  BY <1>5, <1>6, <1>7, <1>8, <1>9, <1>10 DEF OrderInv

LEMMA OrderDeviceRx == ASSUME IInv, OrderInv, NEW d \in Dev, DeviceRx(d) PROVE OrderInv'
<1>1. /\ conn = d /\ toDev # <<>> /\ dev[d].st # "failed" /\ dev[d] \in DevTypes
      /\ toDev \in Seq(ToDevice) /\ conn # None
  BY Connected DEF DeviceRx, IInv, TypeOK
<1>2. Received \in ToDevice /\ Received = toDev[1] /\ 1 \in DOMAIN toDev
  BY <1>1, TailElement DEF Received
<1> DEFINE To(s) == [dev[d] EXCEPT !.st = s]
<1>3. \A s \in DevStates : /\ To(s) \in DevTypes /\ To(s).st = s
                            /\ To(s).method = dev[d].method /\ (To(s).pub <=> dev[d].pub)
  BY <1>1 DEF DevTypes
<1> HIDE DEF To
<1>4. Received.op \notin {"START", "PUB_KEY"} => Len(toDev) = 1
  BY <1>1, <1>2 DEF OrderInv, LastInv
<1>5. ASSUME NEW s \in {"invited", "confirmed", "checked", "failed", "provisioned"},
             NEW x \in ToProvisioner, Reply(d, To(s), <<x>>),
             Received.op \notin {"START", "PUB_KEY"},
             s = "failed" => x.op = "FAILED"
      PROVE  OrderInv'
  <2>1. /\ To(s) \in DevTypes /\ To(s).st = s /\ (To(s).pub <=> dev[d].pub) /\ s # "keyed"
    BY <1>3 DEF DevStates
  <2> QED
    BY <1>1, <1>4, <1>5, <2>1, OrderReply
<1>6. CASE Received.op = "START"
  <2> DEFINE st == [st |-> "started", pub |-> Received.arg.pub, method |-> Received.arg.method]
  <2>1. Reply(d, st, <<>>)
    BY <1>6 DEF DeviceRx
  <2>2. st \in DevTypes /\ st.st = "started" /\ (st.pub <=> Received.arg.pub)
    BY <1>2, <1>6 DEF ToDevice, DevTypes, DevStates
  <2> HIDE DEF st
  <2> QED
    BY <1>1, <1>6, <2>1, <2>2, OrderReply
<1>7. CASE Received.op = "PUB_KEY"
  <2> DEFINE st == To("keyed")
  <2>1. /\ st \in DevTypes /\ st.st = "keyed" /\ st.method = dev[d].method
        /\ st.pub <=> dev[d].pub
    BY <1>3 DEF DevStates
  <2>2. /\ prov[d].state \notin {"INVITE", "START"}
        /\ prov[d].pub \/ prov[d].oob = "none"
        /\ Len(toDev) = 1 \/ (prov[d].pub /\ prov[d].method = "none")
    BY <1>1, <1>2, <1>7 DEF OrderInv, KeyInv, LastInv
  <2>3. dev[d].pub <=> prov[d].pub
    BY <1>1, <1>2, <1>7, <2>2 DEF OrderInv, PubInv
  <2>4. dev[d].method = "input" => prov[d].method = "input"
    BY <1>1 DEF IInv, MethodInv
  <2> HIDE DEF st
  <2>5. CASE dev[d].pub
    <3>1. Reply(d, st, <<>>)
      BY <1>7, <2>5 DEF DeviceRx, st, To
    <3> QED
      BY <1>1, <1>7, <2>1, <2>2, <2>3, <2>4, <3>1, OrderReply
  <2>6. CASE ~dev[d].pub
    <3> DEFINE x == PDU("PUB_KEY", None)
    <3>1. Reply(d, st, <<x>>)
      BY <1>7, <2>6 DEF DeviceRx, st, To
    <3>2. x \in ToProvisioner
      BY DevicePdus
    <3> HIDE DEF x
    <3>3. ~(st.method = "input" /\ prov[d].oob = "good") /\ Len(toDev) = 1
      BY <2>2, <2>3, <2>6
    <3> QED
      BY <1>1, <1>7, <2>1, <2>2, <3>1, <3>2, <3>3, OrderReply
  <2> QED
    BY <2>5, <2>6
<1>8. CASE Received.op \notin {"START", "PUB_KEY"}
  <2>1. \/ \E c \in Caps : Reply(d, To("invited"), <<PDU("CAPS", c)>>)
        \/ Reply(d, To("confirmed"), <<PDU("CONFIRM", None)>>)
        \/ Reply(d, To("failed"), <<PDU("FAILED", ERR)>>)
        \/ Reply(d, To("checked"), <<PDU("RANDOM", None)>>)
        \/ Reply(d, To("provisioned"), <<PDU("COMPLETE", None)>>)
    BY <1>8 DEF DeviceRx, To
  <2> QED
    BY <1>5, <1>8, <2>1, DevicePdus
<1> QED
  BY <1>6, <1>7, <1>8

\* The device speaks without being asked: there is nothing it has not read, or
\* it gives up.
LEMMA OrderUnasked ==
  ASSUME IInv, OrderInv, NEW d \in Dev, conn = d, toProv = <<>>,
         NEW st \in DevTypes, NEW x \in ToProvisioner, st.pub <=> dev[d].pub,
         \/ st.st = "entered" /\ toDev = <<>>
         \/ st.st = "failed" /\ x.op \in {"FAILED", "BAD", "INVITE"},
         agent = None \/ agent.kind = "output",
         dev' = [dev EXCEPT ![d] = st], toProv' = Append(toProv, x),
         UNCHANGED <<prov, conn, agent, toDev>>
  PROVE  OrderInv'
<1>1. conn # None /\ toProv' = <<x>> /\ dev'[d] = st /\ TypeOK
  BY Connected DEF IInv, TypeOK
<1>2. DOMAIN toProv' = {1} /\ Len(toProv') = 1 /\ toProv'[1] = x
  BY <1>1
<1>3. TurnInv' /\ InputInv' /\ AskInv'
  BY <1>1, <1>2 DEF TurnInv, InputInv, AskInv
<1>4. LastInv' /\ PubInv' /\ KeyInv'
  BY <1>1 DEF OrderInv, LastInv, PubInv, KeyInv
<1> QED
  BY <1>3, <1>4 DEF OrderInv

LEMMA OrderInput == ASSUME IInv, OrderInv, NEW d \in Dev, DeviceInput(d) PROVE OrderInv'
<1> DEFINE x == PDU("INP_CMPLT", None)
           st == [dev[d] EXCEPT !.st = "entered"]
<1>1. /\ conn = d /\ conn # None /\ dev[d].st = "keyed" /\ dev[d].method = "input"
      /\ prov[d].oob = "good" /\ dev' = [dev EXCEPT ![d].st = "entered"]
      /\ toProv' = Append(toProv, x) /\ UNCHANGED <<prov, conn, agent, toDev>>
  BY ProvAssumption DEF DeviceInput
<1>2. x \in ToProvisioner /\ dev' = [dev EXCEPT ![d] = st] /\ st \in DevTypes
  BY <1>1, DeviceBecomes, DevicePdus DEF DevStates
<1>3. st.st = "entered" /\ (st.pub <=> dev[d].pub)
  BY <1>1, Connected DEF DevTypes
<1>4. toProv = <<>> /\ toDev = <<>>
  BY <1>1 DEF OrderInv, InputInv
<1>5. agent = None \/ agent.kind = "output"
  <2>1. prov[d].state \notin {"INVITE", "START"} /\ prov[d].method = "input"
    BY <1>1 DEF OrderInv, KeyInv, IInv, MethodInv
  <2> QED
    BY <1>1, <2>1 DEF OrderInv, AskInv, IInv, PromptInv, TypeOK, Prompts
<1> HIDE DEF x, st
<1> QED
  BY <1>1, <1>2, <1>3, <1>4, <1>5, OrderUnasked

LEMMA OrderGivesUp ==
  ASSUME IInv, OrderInv, NEW d \in Dev, DeviceFails(d), "promptfail" \notin Env
  PROVE  OrderInv'
<1>1. PICK op \in {"FAILED", "BAD", "INVITE"} : toProv' = Append(toProv, PDU(op, ERR))
  BY DEF DeviceFails
<1> DEFINE x == PDU(op, ERR)
           st == [dev[d] EXCEPT !.st = "failed"]
<1>2. /\ conn = d /\ agent = None /\ toProv = <<>> /\ dev' = [dev EXCEPT ![d].st = "failed"]
      /\ UNCHANGED <<prov, conn, agent, toDev>>
  BY DEF DeviceFails, MayEnd
<1>3. x \in ToProvisioner /\ x.op = op /\ dev' = [dev EXCEPT ![d] = st] /\ st \in DevTypes
  BY <1>2, DeviceBecomes, DevicePdus DEF DevStates
<1>4. st.st = "failed" /\ (st.pub <=> dev[d].pub)
  BY <1>2, Connected DEF DevTypes
<1>5. toProv' = Append(toProv, x)
  BY <1>1
<1> HIDE DEF x, st
<1> QED
  BY <1>2, <1>3, <1>4, <1>5, OrderUnasked

LEMMA OrderInitially == Init => OrderInv
BY DEF Init, OrderInv, TurnInv, LastInv, PubInv, KeyInv, InputInv, AskInv

LEMMA OrderPreserved ==
  ASSUME "promptfail" \notin Env
  PROVE  IInv /\ OrderInv /\ [Next]_vars => OrderInv'
<1> SUFFICES ASSUME IInv, OrderInv, [Next]_vars PROVE OrderInv'
  OBVIOUS
<1>1. ASSUME NEW d \in Dev, Discover(d) PROVE OrderInv'
  BY <1>1, OrderSame DEF Discover
<1>2. ASSUME NEW d \in Dev, prov_open(d) PROVE OrderInv'
  BY <1>2, OrderOpen
<1>3. ASSUME NEW d \in Dev, prov_data_ready(d) PROVE OrderInv'
  BY <1>3, OrderCaps, OrderPubKey, OrderConfirm, OrderOver DEF prov_data_ready
<1>4. ASSUME NEW d \in Dev, DeviceRx(d) \/ DeviceInput(d) \/ DeviceFails(d) PROVE OrderInv'
  BY <1>4, OrderDeviceRx, OrderInput, OrderGivesUp
<1>5. ASSUME NEW value \in {"good", "wrong"}, AgentResponse(value) PROVE OrderInv'
  BY <1>5, OrderResponse
<1>6. CASE AgentTypo
  <2>1. agent \in Prompts /\ agent # None /\ agent' = [agent EXCEPT !.open = FALSE]
    BY <1>6 DEF AgentTypo, IInv, TypeOK
  <2>2. /\ agent' # None /\ agent'.kind = agent.kind /\ agent'.stale = agent.stale
        /\ agent'.for = agent.for
    <3>1. agent' \in Prompts
      BY <2>1 DEF Prompts
    <3> QED
      BY <2>1, <3>1, NoneAssumption DEF Prompts
  <2> QED
    BY <1>6, <2>1, <2>2, OrderSame DEF AgentTypo
<1>7. CASE Disconnected
  BY <1>7, OrderCutOff
<1>8. CASE UNCHANGED vars
  BY <1>8, OrderSame DEF vars
<1> QED
  BY <1>1, <1>2, <1>3, <1>4, <1>5, <1>6, <1>7, <1>8 DEF Next

(* If no attempt ends while a prompt is open, an answer of the user always   *)
(* reaches a node that exists and an attempt that waits for it: the callback *)
(* that agent.c holds (prov_oob_pub_key, prov_out_oob_done) never runs on    *)
(* freed memory, whatever the devices report and the user types.             *)
THEOREM PromptsLive ==
  ASSUME "promptfail" \notin Env
  PROVE  Spec => []PromptLive
<1>1. IInv /\ OrderInv => PromptLive
  BY DEF IInv, TypeOK, Prompts, PromptInv, OrderInv, AskInv, PromptLive
<1>2. Init => OrderInv
  BY OrderInitially
<1>3. IInv /\ OrderInv /\ [Next]_vars => OrderInv'
  BY OrderPreserved
<1> QED
  BY <1>1, <1>2, <1>3, InvariantHolds, PTL DEF Spec
=============================================================================
