---------------------------- MODULE Provisioner ----------------------------
(***************************************************************************)
(* Provisioning: the protocol machine of blueZ/mesh/prov.c, the prompts of *)
(* agent.c that it waits for, and the part of main.c that starts and ends  *)
(* an attempt, against devices that follow the Mesh Profile and may give   *)
(* up or disconnect.  Connecting, resolving services and starting the      *)
(* notifications is one step here.  The write pipe is open once the device *)
(* has answered the invitation, so the completion callbacks of the writes  *)
(* after it run inside the handler that writes.                            *)
(***************************************************************************)
EXTENDS Integers, Sequences, FiniteSets

CONSTANTS
  Dev,        \* devices
  None,       \* nothing
  Caps,       \* capabilities a device may report
  SecLevel,   \* prov_sec_level: "LOW", "MED" or "HIGH"
  Shell,      \* bt_shell is initialised, so that a prompt can be answered
  MaxAddr,    \* bound: address blocks in the pool
  Env         \* "promptfail": an attempt may end while a prompt is open;
              \* "typo": the user may enter what the prompt cannot parse

(***************************************************************************)
(* pub: the device's public key is passed out of band; static: static OOB; *)
(* out, inp: OOB sizes; valid: "no" for values refused before an address   *)
(* is taken, "late" for an authentication size refused after.              *)
(***************************************************************************)
CapsType == [pub : BOOLEAN, static : BOOLEAN, out : Nat, inp : Nat,
             valid : {"yes", "no", "late"}]

ASSUME ProvAssumption ==
  /\ Caps \subseteq CapsType
  /\ SecLevel \in {"LOW", "MED", "HIGH"}
  /\ Shell \in BOOLEAN
  /\ MaxAddr \in Nat
  /\ Env \subseteq {"promptfail", "typo"}
  /\ None \notin Dev /\ IsFiniteSet(Dev)

VARIABLES
  node,    \* the mesh_node of a device: "none", "new" or "provisioned"
  prov,    \* node->prov: the attempt's data
  conn,    \* the connected device
  agent,   \* agent.c's pending_request
  avail,   \* address blocks in the pool
  lost,    \* address blocks nobody will release
  toDev,   \* PDUs written to the connected device
  toProv,  \* PDUs notified by the connected device
  dev      \* the device's own state

vars == <<node, prov, conn, agent, avail, lost, toDev, toProv, dev>>

States == {"INVITE", "START", "PUB_KEY", "CONFIRM", "RANDOM", "DATA"}
Methods == {"none", "static", "output", "input"}
Values == {"none", "good", "wrong"}     \* what was entered at a prompt

NewProv == [state |-> "INVITE", pub |-> FALSE, method |-> "none",
            oob |-> "none", addr |-> FALSE]

IdleDev == [st |-> "idle", pub |-> FALSE, method |-> "none"]

\* A PDU and the part of its contents that the receiver decides on.
PDU(op, arg) == [op |-> op, arg |-> arg]

ERR == 1      \* PROV_ERR_INVALID_PDU, and any other status but 0

\* An attempt, a pending request and a device.
Provs == [state : States, pub : BOOLEAN, method : Methods, oob : Values, addr : BOOLEAN]
Prompts == [kind : {"pubkey", "oob", "output"}, for : Dev, open : BOOLEAN, stale : BOOLEAN]
DevStates == {"idle", "invited", "started", "keyed", "entered", "confirmed", "checked",
              "failed", "provisioned"}
DevTypes == [st : DevStates, pub : BOOLEAN, method : Methods]

\* What the two sides write.
ToDevice ==
  [op : {"INVITE", "PUB_KEY", "CONFIRM", "DATA"}, arg : {None}]
  \cup [op : {"START"}, arg : [pub : BOOLEAN, method : Methods]]
  \cup [op : {"RANDOM"}, arg : Values]
ToProvisioner ==
  [op : {"PUB_KEY", "INP_CMPLT", "CONFIRM", "RANDOM", "COMPLETE"}, arg : {None}]
  \cup [op : {"CAPS"}, arg : Caps]
  \cup [op : {"FAILED", "BAD", "INVITE"}, arg : {ERR}]
\* No error code of the Mesh Profile is 0.  prov_data_ready does not look: it
\* hands the code of a PROV_FAILED to prov_complete, which takes 0 for success.

ASSUME NoneAssumption == None \notin Provs /\ None \notin Prompts

(* Every variable keeps its type; in particular, a device reports a failure  *)
(* with an error code, never with the status that prov_complete takes for    *)
(* success.                                                                  *)
TypeOK ==
  /\ node \in [Dev -> {"none", "new", "provisioned"}]
  /\ prov \in [Dev -> Provs \cup {None}]
  /\ conn \in Dev \cup {None}
  /\ agent \in Prompts \cup {None}
  /\ avail \in 0..MaxAddr /\ lost \in 0..MaxAddr
  /\ toDev \in Seq(ToDevice) /\ toProv \in Seq(ToProvisioner)
  /\ dev \in [Dev -> DevTypes]
-----------------------------------------------------------------------------
(* Parts of the handlers. *)

\* A pending request: open while its prompt is on the screen (which takes an
\* initialised bt_shell, and mesh_init initialises none), stale once its node
\* is freed.
Waiting(kind, d) == [kind |-> kind, for |-> d, open |-> Shell, stale |-> FALSE]

\* agent_input_request, agent_output_request: refused while one is pending, and
\* nobody looks at the result.
Request(kind, d) == IF agent = None THEN Waiting(kind, d) ELSE agent

\* A prompt keeps the address of its node when the node is freed.
AgentAfterFree(d) ==
  IF agent # None /\ agent.for = d THEN [agent EXCEPT !.stale = TRUE] ELSE agent

DevAfterLink(d) == [dev EXCEPT ![d] = IF @.st = "provisioned" THEN @ ELSE IdleDev]

\* Mutant of Released: the block is forgotten.
ReleasedNever(p) == 0

\* Mutant of Released: a block goes back that was never taken.
ReleasedAlways(p) == 1

\* The blocks a failed attempt gives back.
Released(p) == IF p.addr THEN 1 ELSE 0

\* prov_complete's error case, and mesh_prov_done: the node is freed and the
\* device disconnected.
Fail(d, p) ==
  /\ prov' = [prov EXCEPT ![d] = None]
  /\ node' = [node EXCEPT ![d] = "none"]
  /\ avail' = avail + Released(p)
  /\ agent' = AgentAfterFree(d)
  /\ conn' = None
  /\ toDev' = <<>> /\ toProv' = <<>>
  /\ dev' = DevAfterLink(d)
  /\ UNCHANGED lost

\* prov_complete's other case, and mesh_prov_done: address and keys go to the node, the node to
\* the database, and the device is disconnected.
Succeed(d) ==
  /\ prov' = [prov EXCEPT ![d] = None]
  /\ node' = [node EXCEPT ![d] = "provisioned"]
  /\ conn' = None
  /\ toDev' = <<>> /\ toProv' = <<>>
  /\ dev' = DevAfterLink(d)
  /\ UNCHANGED <<agent, avail, lost>>

\* prov_complete with the status of the caller.
prov_complete(d, status) == IF status = 0 THEN Succeed(d) ELSE Fail(d, prov[d])

\* The PDU at the head is consumed, the attempt goes on with p and writes pdus.
Proceed(d, p, pdus, a, av) ==
  /\ prov' = [prov EXCEPT ![d] = p]
  /\ toDev' = toDev \o pdus
  /\ toProv' = Tail(toProv)
  /\ agent' = a
  /\ avail' = av
  /\ UNCHANGED <<node, conn, lost, dev>>

\* Mutant of prov_calc_ecdh: no confirmation without OOB.
prov_calc_ecdh_silent(d, p) ==
  [p |-> p, pdus |-> <<>>,
   ag |-> IF p.method = "none" THEN agent ELSE Request("oob", d)]

\* The public keys are known: what prov_calc_ecdh writes, asks and waits for.
prov_calc_ecdh(d, p) ==
  CASE p.method = "none" ->
         [p |-> [p EXCEPT !.state = "CONFIRM"], pdus |-> <<PDU("CONFIRM", None)>>,
          ag |-> agent]
    [] p.method \in {"static", "output"} ->
         [p |-> p, pdus |-> <<>>, ag |-> Request("oob", d)]
    [] p.method = "input" ->
         [p |-> [p EXCEPT !.oob = "good"], pdus |-> <<>>, ag |-> Request("output", d)]

SecurityOk(c) ==
  /\ SecLevel = "HIGH" => c.pub \/ c.static
  /\ SecLevel = "MED" => c.pub \/ c.static \/ c.inp # 0 \/ c.out # 0

\* The authentication method of START.
AuthMethod(c) ==
  IF c.static THEN "static" ELSE IF c.out > c.inp THEN "output"
  ELSE IF c.inp > 0 THEN "input" ELSE "none"
-----------------------------------------------------------------------------
(* Attempts. *)

\* update_device_info, node_create_new: the device advertises itself.
Discover(d) ==
  /\ node[d] = "none" /\ dev[d].st = "idle"
  /\ node' = [node EXCEPT ![d] = "new"]
  /\ UNCHANGED <<prov, conn, agent, avail, lost, toDev, toProv, dev>>

\* cmd_start_prov up to notify_prov_out_cb.  An attempt that a disconnect cut
\* off is still there: prov_open fails and the node is freed, its attempt
\* with it.
prov_open(d) ==
  /\ conn = None /\ node[d] = "new" /\ dev[d].st = "idle"
  /\ IF prov[d] # None
     THEN /\ node' = [node EXCEPT ![d] = "none"]
          /\ prov' = [prov EXCEPT ![d] = None]
          /\ lost' = lost + Released(prov[d])
          /\ agent' = AgentAfterFree(d)
          /\ UNCHANGED <<conn, toDev>>
     ELSE /\ prov' = [prov EXCEPT ![d] = NewProv]
          /\ conn' = d
          /\ toDev' = <<PDU("INVITE", None)>>
          /\ UNCHANGED <<node, lost, agent>>
  /\ UNCHANGED <<avail, toProv, dev>>

\* In the orderly case an attempt ends early only with no prompt open and none
\* about to open.
MayEnd == "promptfail" \in Env \/ (agent = None /\ toProv = <<>>)

\* The link goes down: nothing completes the attempt.
Disconnected ==
  /\ conn # None /\ MayEnd
  /\ conn' = None
  /\ toDev' = <<>> /\ toProv' = <<>>
  /\ dev' = DevAfterLink(conn)
  /\ UNCHANGED <<node, prov, agent, avail, lost>>
-----------------------------------------------------------------------------
(* prov_data_ready: first the length and PROV_FAILED, then by the state of    *)
(* the attempt.                                                              *)

Rx == Head(toProv)
RxInvalid(d) == conn = d /\ toProv # <<>> /\ Rx.op = "BAD" /\ prov_complete(d, ERR)

RxFailed(d) == conn = d /\ toProv # <<>> /\ Rx.op = "FAILED" /\ prov_complete(d, Rx.arg)

Ready(d, state) ==
  /\ conn = d /\ toProv # <<>>
  /\ Rx.op \notin {"BAD", "FAILED"}
  /\ prov[d].state = state

\* Capabilities: the checks, the address, START, and then our public key or
\* the prompt for the device's.  An authentication size out of range is found
\* when the address is taken: it goes back at once.
RxCaps(d) ==
  LET c == Rx.arg
      p == [prov[d] EXCEPT !.pub = c.pub, !.method = AuthMethod(c), !.addr = TRUE]
      start == PDU("START", [pub |-> p.pub, method |-> p.method])
  IN /\ Ready(d, "INVITE")
     /\ IF Rx.op # "CAPS" THEN prov_complete(d, ERR)
        ELSE IF c.valid # "yes" \/ ~SecurityOk(c) \/ avail = 0
        THEN prov_complete(d, ERR)
        ELSE IF c.pub
        THEN Proceed(d, [p EXCEPT !.state = "START"], <<start>>,
                     Request("pubkey", d), avail - 1)
        ELSE Proceed(d, [p EXCEPT !.state = "PUB_KEY"],
                     <<start, PDU("PUB_KEY", None)>>, agent, avail - 1)

\* Nothing is expected before our public key is written.
RxStart(d) == Ready(d, "START") /\ prov_complete(d, ERR)

\* The device's public key, or its word that the user entered our number.
RxPubKey(d) ==
  /\ Ready(d, "PUB_KEY")
  /\ IF Rx.op = "PUB_KEY" /\ ~prov[d].pub
     THEN LET e == prov_calc_ecdh(d, prov[d])
          IN Proceed(d, e.p, e.pdus, e.ag, avail)
     ELSE IF Rx.op = "INP_CMPLT"
     THEN Proceed(d, [prov[d] EXCEPT !.state = "CONFIRM"], <<PDU("CONFIRM", None)>>,
                  IF agent # None /\ agent.kind = "output" THEN None ELSE agent, avail)
     ELSE prov_complete(d, ERR)

RxConfirm(d) ==
  /\ Ready(d, "CONFIRM")
  /\ IF Rx.op # "CONFIRM" THEN prov_complete(d, ERR)
     ELSE Proceed(d, [prov[d] EXCEPT !.state = "RANDOM"],
                  <<PDU("RANDOM", prov[d].oob)>>, agent, avail)

\* The device's confirmation matches ours: both used the same OOB value.
Validated(p) == p.method = "none" \/ p.oob = "good"

RxRandom(d) ==
  /\ Ready(d, "RANDOM")
  /\ IF Rx.op # "RANDOM" \/ ~Validated(prov[d]) THEN prov_complete(d, ERR)
     ELSE Proceed(d, [prov[d] EXCEPT !.state = "DATA"], <<PDU("DATA", None)>>, agent, avail)

\* Mutant of RxComplete: any answer to the data ends the attempt well.
RxCompleteAny(d) == Ready(d, "DATA") /\ prov_complete(d, 0)

RxComplete(d) ==
  /\ Ready(d, "DATA")
  /\ prov_complete(d, IF Rx.op = "COMPLETE" THEN 0 ELSE ERR)
-----------------------------------------------------------------------------
(* The user at a prompt (response_hexadecimal, response_decimal,             *)
(* response_ascii, response_output).                                         *)

\* mesh_gatt_write has one write_io, that of the connected device: what a late
\* answer writes for another attempt goes to that device as well.
PipeOpen == conn # None

\* Without it AcquireWrite is called for a device that is gone: nothing is
\* written and no callback runs.  The pipe comes with the answer to the
\* AcquireWrite of the invitation.
PipeShut(d) == conn # d /\ (conn # None => dev[conn].st = "idle")

\* Mutant of Answered: the request is not reset.
Answered_kept(d, e) ==
  /\ prov' = [prov EXCEPT ![d] = e.p]
  /\ toDev' = toDev \o e.pdus
  /\ UNCHANGED <<agent, node, conn, avail, lost, toProv, dev>>

\* The callback of a prompt runs before pending_request is reset: a prompt the
\* callback asks for is refused, and then the old one is reset.
Answered(d, e) ==
  /\ prov' = [prov EXCEPT ![d] = e.p]
  /\ toDev' = toDev \o e.pdus
  /\ agent' = None
  /\ UNCHANGED <<node, conn, avail, lost, toProv, dev>>

\* prov_oob_pub_key: our public key is written, then prov_calc_ecdh.
prov_oob_pub_key(d) ==
  LET p == [prov[d] EXCEPT !.state = "PUB_KEY"]
      e == prov_calc_ecdh(d, p)
  IN \/ PipeOpen /\ Answered(d, [e EXCEPT !.pdus = <<PDU("PUB_KEY", None)>> \o @])
     \/ PipeShut(d) /\ Answered(d, [p |-> p, pdus |-> <<>>])

\* prov_out_oob_done, for a value of a legal length: it is stored and our
\* confirmation written.
prov_out_oob_done(d, value) ==
  LET p == [prov[d] EXCEPT !.state = "CONFIRM", !.oob = value]
  IN \/ PipeOpen /\ Answered(d, [p |-> p, pdus |-> <<PDU("CONFIRM", None)>>])
     \/ PipeShut(d) /\ Answered(d, [p |-> p, pdus |-> <<>>])

\* The answer to a prompt.  An answer for a freed node would run on freed
\* memory: it is not a step here, PromptLive says when it could happen.
AgentResponse(value) ==
  LET d == agent.for
  IN /\ agent # None /\ agent.open
     /\ agent.kind = "output" \/ ~agent.stale
     /\ IF agent.kind = "output"
        THEN agent' = None /\
             UNCHANGED <<node, prov, conn, avail, lost, toDev, toProv, dev>>
        ELSE IF agent.kind = "pubkey" THEN prov_oob_pub_key(d)
        ELSE prov_out_oob_done(d, value)

\* An answer of the wrong form: the prompt is gone, the request stays.
AgentTypo ==
  /\ "typo" \in Env
  /\ agent # None /\ agent.open /\ agent.kind # "output"
  /\ agent' = [agent EXCEPT !.open = FALSE]
  /\ UNCHANGED <<node, prov, conn, avail, lost, toDev, toProv, dev>>
-----------------------------------------------------------------------------
(* The device (the Mesh Profile's side of the protocol). *)

Received == Head(toDev)

Reply(d, st, pdus) ==
  /\ dev' = [dev EXCEPT ![d] = st]
  /\ toDev' = Tail(toDev)
  /\ toProv' = toProv \o pdus
  /\ UNCHANGED <<node, prov, conn, agent, avail, lost>>

\* A device that finds another OOB value in our confirmation fails the
\* attempt, or leaves that to the provisioner.  A PDU out of its turn it takes
\* for what it is, or it gives up (DeviceFails); once it has failed or is
\* provisioned it reads no more.
DeviceRx(d) ==
  /\ conn = d /\ toDev # <<>> /\ dev[d].st \notin {"failed", "provisioned"}
  /\ \/ /\ Received.op = "INVITE"
        /\ \E c \in Caps : Reply(d, [dev[d] EXCEPT !.st = "invited"], <<PDU("CAPS", c)>>)
     \/ /\ Received.op = "START"
        /\ Reply(d, [st |-> "started", pub |-> Received.arg.pub,
                     method |-> Received.arg.method], <<>>)
     \/ /\ Received.op = "PUB_KEY"
        /\ Reply(d, [dev[d] EXCEPT !.st = "keyed"],
                 IF dev[d].pub THEN <<>> ELSE <<PDU("PUB_KEY", None)>>)
     \/ /\ Received.op = "CONFIRM"
        /\ Reply(d, [dev[d] EXCEPT !.st = "confirmed"], <<PDU("CONFIRM", None)>>)
     \/ /\ Received.op = "RANDOM"
        /\ \/ /\ dev[d].method # "none" /\ Received.arg # "good"
              /\ Reply(d, [dev[d] EXCEPT !.st = "failed"], <<PDU("FAILED", ERR)>>)
           \/ Reply(d, [dev[d] EXCEPT !.st = "checked"], <<PDU("RANDOM", None)>>)
     \/ /\ Received.op = "DATA"
        /\ Reply(d, [dev[d] EXCEPT !.st = "provisioned"], <<PDU("COMPLETE", None)>>)

\* The user enters our number on the device.
DeviceInput(d) ==
  /\ conn = d /\ dev[d].st = "keyed" /\ dev[d].method = "input"
  /\ prov[d].oob = "good"
  /\ dev' = [dev EXCEPT ![d].st = "entered"]
  /\ toProv' = Append(toProv, PDU("INP_CMPLT", None))
  /\ UNCHANGED <<node, prov, conn, agent, avail, lost, toDev>>

\* The device gives up with an error code, or sends what is not a PDU of the
\* protocol, or a PDU that no state expects.
DeviceFails(d) ==
  /\ conn = d /\ dev[d].st \notin {"idle", "failed", "provisioned"} /\ MayEnd
  /\ dev' = [dev EXCEPT ![d].st = "failed"]
  /\ \E op \in {"FAILED", "BAD", "INVITE"} : toProv' = Append(toProv, PDU(op, ERR))
  /\ UNCHANGED <<node, prov, conn, agent, avail, lost, toDev>>
-----------------------------------------------------------------------------
Init ==
  /\ node = [d \in Dev |-> "none"]
  /\ prov = [d \in Dev |-> None]
  /\ conn = None
  /\ agent = None
  /\ avail = MaxAddr /\ lost = 0
  /\ toDev = <<>> /\ toProv = <<>>
  /\ dev = [d \in Dev |-> IdleDev]

prov_data_ready(d) ==
  \/ RxInvalid(d) \/ RxFailed(d) \/ RxCaps(d) \/ RxStart(d) \/ RxPubKey(d)
  \/ RxConfirm(d) \/ RxRandom(d) \/ RxComplete(d)

Next ==
  \/ \E d \in Dev : \/ Discover(d) \/ prov_open(d)
                    \/ prov_data_ready(d)
                    \/ DeviceRx(d) \/ DeviceInput(d) \/ DeviceFails(d)
  \/ \E value \in {"good", "wrong"} : AgentResponse(value)
  \/ AgentTypo
  \/ Disconnected

Spec == Init /\ [][Next]_vars

\* The main loop handles what arrives, the device answers, the user does too.
FairSpec ==
  /\ Spec
  /\ \A d \in Dev : /\ WF_vars(prov_data_ready(d))
                    /\ WF_vars(DeviceRx(d) \/ DeviceInput(d))
  /\ WF_vars(\E value \in {"good", "wrong"} : AgentResponse(value))
-----------------------------------------------------------------------------
(* A node counts as provisioned only when its device took the provisioning   *)
(* data, whatever failures, prompts and disconnects came in between.         *)
CompletedAgree ==
  \A d \in Dev : node[d] = "provisioned" => dev[d].st = "provisioned"

(* Every address block is in the pool, with a provisioned node, with an      *)
(* attempt, or lost to an attempt that a disconnect cut off: a failed one    *)
(* gives its block back exactly once.                                        *)
AddressesAccounted ==
  avail + lost
    + Cardinality({d \in Dev : node[d] = "provisioned"})
    + Cardinality({d \in Dev : prov[d] # None /\ prov[d].addr}) = MaxAddr

(* A prompt whose answer goes to an attempt belongs to a node that exists    *)
(* and an attempt that waits for just this answer: the callbacks of agent.c  *)
(* never run on a freed node.                                                *)
PromptLive ==
  agent # None /\ agent.kind # "output" =>
    /\ ~agent.stale
    /\ prov[agent.for] # None
    /\ prov[agent.for].state = (IF agent.kind = "pubkey" THEN "START" ELSE "PUB_KEY")

(* An attempt ends: with an error, with a provisioned node, or with a        *)
(* disconnect; it never waits forever.                                       *)
AttemptEnds == \A d \in Dev : conn = d ~> conn # d
=============================================================================
