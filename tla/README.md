# A verification project for meshctl_GUI

meshctl_GUI is the Bluetooth mesh provisioner `meshctl` of BlueZ
(`src/blueZ/mesh/`), built as a JNI library (`src/jni/`) and driven by a Swing
window (`src/meshgui/`).  The modules here model the parts of it in which the
order of events matters: what happens when processes end, threads interleave and
the mesh network loses, repeats and reorders packets.  TLC checks them on small
instances, TLAPS proves the central ones for all values of their constants.

## 1. The system

| component | state | operations | what makes it correct |
|---|---|---|---|
| IV index and sequence numbers (`net.c`, `prov-db.c`) | `net.iv_index`, `iv_update`, `iv_upd_state`, `seq_num`, `seq_num_reserved`; two JSON files | beacons, `get_next_seq`, sends, retransmissions, file writes, `mesh_init` | no (IV index, sequence number) pair encrypts two packets, also after a process that ended at any point |
| segmentation and reassembly (`net.c`) | `net.msg_out`, `net.sar_in`, their timers | `net_access_layer_send`, `seg_rxed`, `ack_rxed`, four timeouts, session close | acknowledged means received; delivery once and in order; retransmission gets through |
| address pool (`net.c`, `prov.c`, `prov-db.c`, `config-client.c`) | `net.address_pool`, blocks of attempts and nodes, the database | obtain, release, reserve, add; node reset; start | pool and blocks in use divide the allocated addresses |
| provisioning (`prov.c`, `agent.c`, `main.c`) | `node->prov`, `pending_request`, `connection` | `prov_open`, `prov_data_ready`, prompts and answers, `prov_complete`, disconnect | both sides agree; attempts end; addresses come back |
| event bridge (`Home.c`, `main.c`, `Home.java`) | one slot, `eventEmpty`, `eventFull`, `exitEventLoop`; the device list; the window's list | `sendEventToJava` (two threads), `eventCallback`, the exit handshake, discovery handlers, `cmd_start_prov` | no event lost, doubled or reordered; nobody hangs; closing the window ends the threads |
| replay protection (`node.c`, `prov-db.c`) | `iv_index`, `seq_number` per node, in memory and in the database | `node_local_data_handler`, the record, a start | a message is handled once and never after a newer one; no new one is refused |
| GATT pipe and packet queue (`gatt.c`, `net.c`) | `net.pkt_out`, `write_io`, `write_mtu`, `gatt_pkt` | `send_mesh_pkt`, `send_pkt_cmplt`, AcquireWrite, `pipe_write`, `pipe_hup`, `mesh_gatt_sar` | packets leave whole and in order; the queue drains |
| sessions (`main.c`, `gatt.c`) | `connection`, `net.proxy_in`, `discover_mesh`, `mesh_devices`, `notify_io` | `cmd_start_prov`, connect, resolve, notify, disconnect, removal, `mesh_prov_done` | the chosen device is provisioned; a session is on a live connection; no link is forgotten |
| node configuration (`node.c`, `prov-db.c`, `config-client.c`) | keys, bindings, subscriptions, publications, TTL and composition of each node, in memory and in `prov_db.json` | the `cmd_*` requests, the status handlers, node reset, a start | the file can be read and says what memory says; an answer brings program and node together |
| key lists (`net.c`), `config-server.c`, model clients (`*-model.c`), `crypto.c`, `util.c`, window layout | data | | not interleaved |

The parts interact through the one main loop thread (D-Bus callbacks, timers),
through `prov_db.json` and `local_node.json`, and, across threads, through the
event bridge: the Swing thread calls `cmd_start_prov` while the main loop runs,
and a third thread sits in `eventCallback`.  What is hard here: a process that
ends between two file writes; beacons and acknowledgements that come late; an
attempt cut off by a disconnect; a single pending prompt; three threads around a
one-slot buffer; calls to bluetoothd whose replies and signals come in any order; a
link that goes away between two fragments; requests whose answers never come.  `PROJECT.json` lists these hazards at the line where they bite.

## 2. The modules

Every module keeps the names of the source.  A constant `Env` lists what the
environment may do beyond the orderly case; the passing runs say which of it they
exclude, and section 5 what happens if it is let in.  Definitions marked "Mutant
of" are plausible mistakes that each property is shown to catch.

* **SeqIv** - one action per handler of `net.c` that touches the IV index or the
  counter.  A handler is interrupted only by the end of the process, so its
  packets and its three file writes are steps of a `job`: `process_beacon`
  changes memory, then `prov_file_write` rewrites the local file, the database
  and the reserved number in that order; `get_next_seq` renews the reserve and
  writes it before `send_seg` uses the number.  `Stop` and `StopInWrite` end the
  process anywhere; `prov_db_read` starts it from the files.  `sent` and `reused`
  are history.  `NetworkAdvance` is the mesh network itself.
* **Sar** - a sender and a receiver of the same code.  A sequence number is its
  13-bit window and a position in it, all that `calc_seqAuth` depends on.
  Segments and acknowledgements are sets that lose and keep copies.
  **MessageService** is its abstract specification: messages are delivered at most
  once and in their order, and reported as received only after delivery;
  `ImplementsMessageService` is the refinement.
* **AddressPool** - the pool as the list of ranges the code keeps, with
  `net_obtain_address`, `net_release_address` and `net_reserve_address_range` as
  operators and the handlers that call them as actions.  A start takes the ranges
  of the file (`Restart`) and then reserves the block of one node after the other
  (`parse_node`; `read` counts them); the first node that cannot have its block
  ends it.  A process may end at any point of a start.  **AddressSpace** is its
  abstract specification: a set of addresses; `ImplementsAddressSpace` is the
  refinement.  It counts a start as done when it begins: from then on the free
  addresses are those no node of the database has (`FreeAddresses`), and reading
  the nodes has to end with exactly these in the pool, or with a refusal of a
  database in which two nodes claim one address.
* **Provisioner** - `prov_data_ready` by state, `prov_complete`, the prompts of
  `agent.c` (one pending request, reset after its callback), disconnects; the
  device is the Mesh Profile's side of the protocol and may fail at any step.  An
  answer that comes late writes to whichever device is connected then, since
  `mesh_gatt_write` has one `write_io` (`PipeOpen`), or to none (`PipeShut`).
  Cryptography is reduced to whether both sides used the same OOB value.
* **EventBridge** - a step is a piece of code between two operations on shared
  state, for the main loop, the Swing thread and the callback thread; the
  discovery handlers that produce events, and the window's pairing of names and
  UUIDs.
* **MeshNumbers** - the bounds on IV index and sequence numbers that SeqIv and
  Replay share.
* **Replay** - the comparison as the code makes it: the high part is the IV index
  in the eight bits that `iv_index << 24` keeps, the recorded sequence number is
  ORed into the message's side.  A message that reaches a model is recorded in
  memory and, in a second step, in the database; `Crash` lets the process end
  between the two.
* **GattPipe** - the way of a packet out: the queue of `net.c`, the write pipe of
  `gatt.c` and `mesh_gatt_sar` at the other end of the link.  A handler that sends
  several packets leaves `todo` calls of `send_seg`; a write in progress is a `job`
  that sends one fragment per step, since `pipe_write` calls `send_pkt_cmplt`,
  which calls `pipe_write` again.  `max_len` keeps its eight bits.  Of the bytes
  the receiver holds the model keeps whether they are the beginning of one packet.
* **Session** - `main.c` from `cmd_start_prov` to the first beacon of the proxy
  session.  Every D-Bus call is a message to bluetoothd, whose replies and signals
  come back in a queue (`Daemon`, external); the handlers are the reply callbacks
  and `property_changed`.  `prov_open` takes any node that has no attempt, whatever
  became of it since the subscription was asked for, and may fail in
  `mesh_gatt_write`.  `upset` is history: what went wrong on the way
  ("switch", "divert", "fault"), so that the liveness property can name its
  exceptions.
* **NodeConfig** - what the program believes of a node (`mem`), what the file says
  (`db`), what the node has (`has`), and the requests and answers between them.
  Each command changes memory and file when it is sent or when it is answered,
  as the code does; the file keeps its arrays, since a second copy in one makes it
  unreadable.  Key indices are written in hexadecimal and read as decimal numbers
  (`ReadIdx`).  `orphans` is history: the application keys of a node whose net key
  was deleted under them.  Memory drops them, the file does not, so they come back
  with a start; `RestartSame` allows these and no others.  `Agreed` compares
  bindings one way only, as the program stores a binding but never drops one
  (`node.c:317`).  In this program the menu that called the commands is gone: only
  `config_client_get_composition` and the status handlers run, so the module is
  about the code a window with a configuration page would use.

`MC*` modules hold the small sets for TLC; `*Proofs` hold theorems.

## 3. What the runs check

| run | bounds | shows |
|---|---|---|
| `seqiv` | one destination, IV index to 2 (five epochs), reserve 3, margin 1, bursts of 2, five numbers per IV index | `NonceUnique`, `RestartSafe`, `InFlightIvCurrent`, `ResetOnlyOnNewIv`, `TxIvMonotone`; the reserve is renewed several times within one IV index, and a stop is possible at every step |
| `provisioner` | two devices, two address blocks, seven sets of capabilities, security level MED, unparsable answers and failures with a prompt open | `CompletedAgree`, `AddressesAccounted` |
| `provisioner_live` | the same devices, level LOW, at most one prompt per attempt, no failure while a prompt is open | `PromptLive`, `AttemptEnds` |
| `addresspool` | ranges 2-5 and 9-10, blocks of 1 to 3, three nodes in the database, node resets, no block released next to a free range | `Partition`, `ImplementsAddressSpace` (a start refuses only a database that names an address twice) |
| `sar` | two messages of two segments, two windows | `AckSound`, `AckedDelivered`, `Progress`, `ImplementsMessageService`; the invariants also hold for messages of two and three segments |
| `eventbridge` | two devices, two discovery sessions, five events | `NothingLost`, `GuiReturns`, `Ends` |
| `replay` | two nodes, IV indexes 1 and 2, two numbers each, three deliveries | `IvNeverBack`, `NoFalseAlarm` |
| `gattpipe` | MTU 23 and 277 (fragments of 19 and of 17 bytes), packets of one, two and four fragments, four packets, a socket of three fragments, two links | `WrittenArrives`, `QueueInOrder`, `Drains`, `Resends` |
| `session` | two devices, three starts, three messages of bluetoothd under way | `ProvisionsChosen`, `SessionOnConnection`, `QuietAgrees`, `ProvisionedJoins`; the invariants also hold for three devices and four starts |
| `nodeconfig` | a node, two net keys, an application key, a model, a group, two requests under way, two losses open | `StartPossible`, `RestartSame`, `Agreed`; no deadlock |

Two runs expect a violation of what the code says of itself: `seqiv_stale` (an
old beacon resets the counter under an IV index already used) and `replay_repeat`
(a repeated message is handled again: `node.c:535` ORs the recorded number into
the wrong side).  `findings` in `PROJECT.json` quotes the lines.

Why the bounds are enough: every case in the code is a comparison of neighbours
(next number and reserve, segment and the ones above it, range and adjoining
block, record and message, fragment and rest of a packet), and each bound leaves room for both sides of each
comparison, and for one more round after the interesting one (a third epoch, a
second message, a restart after a failure).

Deadlock is not checked where the bounds or the system let it stop: all messages
sent, a database that cannot be read, a window closed, every device provisioned,
all starts made.

**Fairness.** `provisioner_live`: weak fairness of the main loop, of the device
and of the user who answers a prompt; none for the user who starts an attempt.
`eventbridge`: weak fairness of each thread, which the scheduler gives.  Events are
bounded, so the run does not speak of a main loop that sends without end and
always takes the semaphore before the Swing thread does; POSIX semaphores promise
no order among waiters.
`sar`: the 2 s and 5 s timers repeat (weak), and a packet sent again and
again arrives (strong fairness of a segment's and of the full acknowledgement's
arrival): the assumption every retransmission rests on.
`gattpipe`: a handler of the main loop runs to its end, D-Bus answers every call
(with an error after its timeout), the other end reads its socket; links, sends
and timers need not happen.
`session`: the main loop handles what is queued, bluetoothd answers, services of a
connected device are resolved, an attempt ends one way or the other, a provisioned
device advertises as a proxy and beacons.

## 4. What is proved

All theorems are checked by TLAPS to the last leaf.

* **MeshNumbersProofs**, about SeqIv (assuming `Env = {}`): `TypeCorrect`, `NoncesUnique`,
  `RestartsSafe`, `InFlightCurrent`, `TxIvNeverBack`, `ResetsOnNewIv`, for every
  reserve, margin, limit, burst and set of destinations.  `NonceUnique` alone is
  not inductive: a pair could be repeated from memory, from the files or from a
  message in flight.  `IInv` says that memory and files are never ahead of the
  network (`BehindAir`), that a connected node is at most one epoch behind
  (`NearAir`), what each number of outstanding writes means for the files
  (`DiskOk`), that every message in flight has the transmit IV index
  (`FlightOk`), and that all pairs used are below the next one memory would use
  (`SentBelowMemory`) and below what a start would load (`RestartSafe`).
  About Replay (assuming `IvFits`: the network starts at IV index 1 or later and
  stays below the wrap of `iv_index << 24`, and no process ends inside a
  handler): `ReplayTypeCorrect`, `OldIvRefused` and `AlarmsJustified`.  The
  invariant adds that the database follows memory (`DatabaseFollows`), that the
  recorded IV index is the highest handled (`RecordHighest`) and that a record is
  that of a message handled (`RecordEarned`).
* **AddressPoolProofs**: `TypeCorrect` for any ranges and whatever `Env`;
  `AddressesDivided` and `SpaceImplemented` for any number of ranges, nodes and
  elements, assuming `Apart(Ranges)` (the ranges of the file do not overlap; the
  code does not check it, and an address in two ranges would be handed out twice)
  and `"merge" \notin Env` (section 5 says what a merge does).  Node resets are
  included.  The provers do not reason about the sets of addresses in `Partition`:
  `Divided` is the same in terms of the ends of ranges and blocks, with every range
  and block within one range of the file, and `OneHolder` says that a block is a
  node's, lost, or an attempt's, so that giving it back leaves no second holder.
  The refinement also needs what a start relies on.  `DbFits`: the database names
  only blocks within one range of the file; `ReadSoFar`: a start has exactly the
  nodes read so far, and they do not overlap; `StillFits`: if no two nodes of the
  database overlap, every node still to be read fits into a range of the pool;
  `RefusedRightly`: a database is refused only if two of its nodes overlap.
  Obtaining and reserving a block are one idea in the proof, `Carved`: a range is
  replaced by what is left of it below and above the block.  The lemmas on it say
  that the parts are clear of the block and within the old range (`CarvedParts`),
  that no other address is lost (`CarvedKeeps`), that a block that fitted and does
  not overlap still fits (`CarvedFits`), and that the division is kept
  (`CarvedDivided`); `ReleaseDivided` is the way back.  Under them are facts about
  the list: what deleting, replacing and sorted insertion do to its ranges.
  `SpaceImplemented` maps each action: a block is taken, given back or kept,
  `Restart` is a start or a refusal, a disconnect and every `parse_node` stutter,
  the last one because `Divided` leaves in the pool what the nodes read do not
  have.
* **EventBridgeProofs**: `TypeCorrect` and `EventsKept` for any number of devices
  and events, whatever `Env`.  The two semaphores and the three threads share one
  token (`OneToken`); an event is in the slot only while the token is between the
  producer and the callback thread (`SlotGuarded`); the exit handshake finds the
  slot empty (`Ending`).
* **SarProofs** (assuming `Env = {}`): `TypeCorrect`, `AcksSound`,
  `AckedAreDelivered` and `ServiceImplemented`, for messages of any number and length.
  `ServiceImplemented` is the refinement: each action maps to one of MessageService
  or to a stutter, which rests on the invariant before and after the step (a
  delivery is of a message newer than all before, `DeliveredInOrder`; a report is
  of a delivered one).
  That acknowledged segments have arrived is not inductive: an acknowledgement on
  its way may arrive later, and the reassembly it speaks of may be replaced.
  `AckInv` extends the claim to every acknowledgement of the message in flight
  that the network still holds; `RecvInv` says that the receiver's structure is of
  one message, is complete exactly when that message was delivered, and that no
  later one was; `AuthInv` that numbers rise with the messages and that every
  segment yields the number its message was encrypted with; `FreshInv` that a
  receiver that has forgotten everything meets only newer messages.
* **NodeConfigProofs**: `TypeCorrect` and `RestartsSame` for any nodes, keys, models
  and addresses and whatever `Env` (`OrphanInv`: an application
  key that the file lists and memory does not, or that the file lists without its net
  key, is an orphan); `StartsPossible` as long as no net key is
  deleted; `NodesAgree` for `Env = {}`.  The invariant pairs what memory holds with
  the entry of the file: the entry lists exactly what memory has, without copies
  (`Pair`), and the messages under way have their types; for `StartsPossible`, the
  primary net key is never refused by a node (`NetInv`), so `netKeys` is never
  emptied.
  That program and node agree when nothing is under way says nothing about the
  states in between, so `AgreeInv` says what each request and each answer on its way
  means: a request to add a key finds the key in memory (`ReqOk`), an answer tells
  what the node has (`StatOk`), there is one message about a topic (`Once`), and a
  topic nobody speaks of is the same on both sides (`Ok`).  Two facts that no
  single message shows are needed as well: memory has every net key of the node
  and every application key has its net key there (`Base`), and a request for an
  application key that memory could not take comes before any request for its net
  key (`Late`); otherwise the node would accept what the program did not store.
  Each step is about one topic, and one lemma (`OkStep`) carries everything else
  over.
* **ProvisionerProofs**: `TypeCorrect`, `CompletedAgreeing` and `AddressesKept` for any
  number of devices, blocks and capabilities and whatever `Env`; `PromptsLive` if
  `"promptfail" \notin Env`.  That a stored node has its data needs `DataInv` (COMPLETE is
  on its way only when the device has the data)
  and `MethodInv` (both sides use the method of START); the accounts need `AddrInv`
  (a block is taken with the capabilities) and `ConnInv` (no connection, no PDU).
  `PromptsLive` needs the order of the protocol, `OrderInv`: the sides take turns
  (`TurnInv`), only the last PDU a device has to read is answered (`LastInv`), so
  nothing that could end the attempt comes while its prompt is open (`AskInv`).
* **GattPipeProofs**: `TypeCorrect`, `QueueOrdered` and `WrittenIsRead` for every MTU
  from 23 to 517, every packet length, burst, pipe size and number of links.
  `JobInv`, `WireInv` and `ChainInv` say where a packet is when it is cut: the job knows
  how much is left, a fragment follows on the one before it or on what the
  receiver holds, and none is longer than the packet; `IdInv` that packets are
  numbered as they are made; `AcquireInv` and `LinkInv` that a pipe, a call of
  AcquireWrite and a session belong to one link, so that nothing of an old link
  reaches a new one.
* **SessionProofs**: `TypeCorrect` whatever `Env` (in particular every call, also after
  a failure, is about a device); `ChosenProvisioned`,
  `SessionsConnected` and `QuietAgreement` for `Env = {}`, for any number of devices,
  starts and messages under way.  The three say little of the states in between:
  `SInv` says what every message on its way means.  A message that moves the program
  on (`Token`: a connect, a subscription, the disconnect after a provisioning) is the
  only one (`OneToken`), and the stages no message shows - services not known yet,
  a provisioning or a session, the search for the node - exclude it and one another
  (`StageInv`).  The signals of bluetoothd tell which links there are only by their
  order (`OrderInv`: a link that was raised is there or its loss comes later, and
  Resolved is the last word on a link; `RemovedInv`: a device that is dropped was
  disconnected before).  `DialInv`, `SubInv`, `EndInv`, `WorkInv` and `LookInv` say
  which device each stage is about; the calls of an old connection still under way
  after a switch do no harm because notifications are never stopped on the device a
  stage is about (`StopInv`).  A link that ends in any stage, lost or disconnected, is
  one lemma (`DownStep`).  That the node of an attempt is still there and not
  provisioned needs `NewInv`: it is so of every subscription on its way, and services
  that make a provisioning are reported only of a device that is not a member.

Every invariant, action property and refinement of the passing runs is a theorem
above.  Only model-checked: the liveness properties, since fairness and `ENABLED`
are out of TLAPS's reach.

## 5. What lies outside the passing runs

The switches below are in the modules; letting them in breaks the named property,
which is how each was found.

| module | setting | effect |
|---|---|---|
| SeqIv | `Env = {"recovery"}` | a connected node misses an epoch while a message is in flight: `NonceUnique` fails |
| Sar | `Env = {"wrap"}` | the sequence number passes a multiple of 2^13 within a message: `AckedDelivered` fails (`calc_seqAuth`) |
| Sar | `Env = {"staleack"}` | an acknowledgement of the message before counts for the one in flight, since `ack_rxed` does not look at `seq0` (`net.c:1347`): `AckedDelivered` fails |
| Sar | `Env = {"late"}` or `{"reconnect"}` | the receiver forgets a message whose segments are still under way: it may be delivered twice, and `ImplementsMessageService` fails |
| AddressPool | `Env = {"merge"}` | a block released below a free range's end widens it by two addresses too many (`net.c:791`): `Partition` fails |
| GattPipe | `Mtus` with 260 | `max_len` is 0 in eight bits, `pipe_write` sends empty fragments for ever: `Drains` fails |
| GattPipe | require `~hung` | `net_session_close` or `net_session_open` with a packet in the queue: `flush_pkt_list` does not return (`net.c:1171`) |
| GattPipe | require `~failed` | a write that fails, a refused AcquireWrite, or a send without a session leaves the packet at the head of the queue, and nothing sends it again |
| Session | `Env <- Impatient` | a second `cmd_start_prov` while Connect is pending: `ProvisionsChosen`, `SessionOnConnection` and `QuietAgrees` fail.  The window could not even tell from `session_open`: after a switch it stays set while the next device is connected, and with three devices a start in that moment breaks `ProvisionsChosen` (so `MayStart` asks for the type as well) |
| Session | `Env <- Unplugged` | `device_removed` and `adapter_removed` forget the connection without `net_session_close`; the next `net_session_open` is refused and its result ignored (`main.c:914`): `SessionOnConnection` and `QuietAgrees` fail |
| Session | `MayStart` | without `"restart"` a start takes place only when no call and no message is under way and either no device is connected or a session is open; that also rules out a second start on a device left connected by a failed subscription |
| Session | a failed subscription | the link stays up, nothing uses it and nothing ends it (`main.c:836`); `QuietAgrees` asks only that the program remembers it |
| Session | a start while a session is open (`"switch"` in `upset`) | Connected = false of the old device clears the new connection (`main.c:1220`): provisioning never starts and the link stays; the properties except it by name |
| NodeConfig | `Env <- Overlap` | a second command about the same thing before the first is answered: `Agreed` fails |
| NodeConfig | `Env <- NetDel` | the last net key of a node deleted: `netKeys` is gone from the file and the program does not start (`prov-db.c:1003`), `StartPossible` fails; the request lacks the index (`config-client.c:511`), `Agreed` fails |
| NodeConfig | `Env <- Blind` | a subscription before the composition is known is not stored: `Agreed` fails |
| NodeConfig | check `FeaturesKept` | the low power feature is lost at every start: `prov-db.c:700` writes `"lpn"`, `prov-db.c:1348` reads `"lowPower"` (the repository's `prov_db.json` has the one name, its `local_node.json` the other); `RestartSame` excepts it by name |
| NodeConfig | key indices from 10 on | `IndicesReadBack` fails: the file has hexadecimal digits, the reader takes them as decimal |
| Provisioner | `Caps <- TwoPrompts` | out of band public key and static OOB: the second prompt is refused because the first is still pending (`agent.c:80`), `AttemptEnds` fails |
| Provisioner | `Shell = FALSE`, `Caps <- StaticOnly` | `bt_shell` is never initialised under the window, a prompt cannot be answered, `AttemptEnds` fails |
| Provisioner | `Env` with `"promptfail"` | a prompt outlives its attempt: `PromptLive` fails |
| Provisioner | a FAILED with status 0 | `prov_data_ready` hands the status of a PROV_FAILED to `prov_complete` (`prov.c:445`), which takes 0 for success: the node is stored though its device gave up.  No error code of the Mesh Profile is 0, so the device of the model sends none; `CompletedAgree` would fail with it |
| EventBridge | check `NamesMatch` | the UUID is sent before the name (`main.c:694`), the window pairs it with the name before |
| EventBridge | check `ShownOncePerSession` | `cmd_start_prov` drops the list in mid-session (`main.c:1850`) |
| Replay | `FirstIv = 0` | the first message of a new node is (0, 0) and is called a replay: `NoFalseAlarm` fails |
| AddressPool | `Env = {"reset"}`, a start after two nodes shared an address | the database is refused (`Refuse` in AddressSpace; `config-client.c:360`) |

Memory that is used after it was freed (`stringBuff` before the handshake, device
entries in `cmd_start_prov`, an attempt after `prov_complete`) is not a state of
the models; the hazards name the lines.

## 6. Not modelled, and the plan

Not modelled: `crypto.c` (bytes in, bytes out), `util.c`, the model clients (they
format messages; the native methods behind the light controls only print), the
Swing layout, D-Bus and the vendored rest of BlueZ.  The key lists of `net.c` are
filled once, when the database is read: `keys_net_key_delete` and the update of a
key have no caller, so their refresh phases never change in this program; nor do
the destinations of the proxy filter (`net_dest_ref` has no caller).
`config-server.c` sets the TTL and a publication of the local node.

Next:

1. Session composed with GattPipe: the write pipe that outlives its session.
