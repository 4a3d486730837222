------------------------------- MODULE Session -------------------------------
(***************************************************************************)
(* Connections in blueZ/mesh/main.c: the struct `connection', the D-Bus    *)
(* calls that connect, subscribe and disconnect, and their replies and     *)
(* signals, which bluetoothd sends in one order and the main loop handles  *)
(* one by one.  cmd_start_prov runs on the window's thread, taken to fall  *)
(* between two handlers; after a device is provisioned the program looks   *)
(* for it as a proxy and opens a network session there.                    *)
(*                                                                         *)
(* A device, its node, its UUID and its characteristics have one name.     *)
(***************************************************************************)
EXTENDS Integers, Sequences, SequencesExt

CONSTANTS
  Devices,
  None,
  MaxStarts,  \* bound: calls of cmd_start_prov
  MaxBus,     \* bound: messages on their way from bluetoothd
  Env         \* what the world may do beyond the orderly case

(***************************************************************************)
(* "restart": cmd_start_prov is called while a call or a message is under  *)
(* way, or while a device is connected and has no session: it is being     *)
(* set up or provisioned, or its subscription failed, which main.c leaves  *)
(* connected; "removed": a connected device disappears from D-Bus (the     *)
(* adapter is unplugged) without the signal that it disconnected.          *)
(***************************************************************************)
Hazards == {"restart", "removed"}

ASSUME SessionAssumption ==
  /\ None \notin Devices
  /\ MaxStarts \in Nat /\ MaxBus \in Nat
  /\ Env \subseteq Hazards

VARIABLES
  connection,     \* the struct
  proxy_in,       \* net.proxy_in
  first,          \* net.iv_upd_state is IV_UPD_INIT: no beacon in this session
  discover_mesh,  \* looking for the node just provisioned
  mesh_devices,   \* devices the adapter lists
  node,           \* what is known of the node of a device
  prov,           \* prov[n]: the device the attempt of node n is made with
  notify_io,      \* the device whose notification pipe is open
  calls,          \* D-Bus calls bluetoothd has not answered
  bus,            \* messages of bluetoothd not handled yet
  up,             \* bluetoothd: devices with a link
  chars,          \* bluetoothd: the service a device offers on its link
  notifying,      \* bluetoothd: devices whose notifications are passed on
  invited,        \* devices in the middle of a provisioning on their link
  member,         \* devices that took part in a completed provisioning
  starts,         \* calls of cmd_start_prov so far
  upset           \* history: what came between a start and its session

net == <<proxy_in, first>>
attempts == <<node, prov>>
daemon == <<up, chars, notifying, invited, member>>
links == <<up, chars, notifying, invited>>
vars == <<connection, net, discover_mesh, mesh_devices, attempts, notify_io,
          calls, bus, daemon, starts, upset>>

Maybe == Devices \cup {None}
ConnTypes == {"NETWORK", "IDENTITY", "PROVISION", "INVALID"}
Connections ==
  [device : Maybe, data_in : Maybe, data_out : Maybe, session_open : BOOLEAN,
   dev_uuid : Maybe, unicast : Maybe, type : ConnTypes]

\* memset of the struct, and CONN_TYPE_INVALID.
Zero ==
  [device |-> None, data_in |-> None, data_out |-> None, session_open |-> FALSE,
   dev_uuid |-> None, unicast |-> None, type |-> "INVALID"]

\* A call, a reply or a signal: what, about which device, for which node, and
\* how it ended.
Msg(what, dev, n, how) == [what |-> what, dev |-> dev, n |-> n, how |-> how]
Msgs ==
  [what : {"Connect", "Disconnect", "StopNotify", "NotifyProv", "NotifyProxy",
           "Connected", "Disconnected", "Resolved", "Removed"},
   dev : Devices, n : Maybe, how : {"call", "ok", "pipe", "error", "signal"}]

(* Every variable keeps its type; a call to bluetoothd is always about some  *)
(* device, also when nothing is connected (the test in disconnect).          *)
TypeOK ==
  /\ connection \in Connections
  /\ proxy_in \in Maybe /\ first \in BOOLEAN /\ discover_mesh \in BOOLEAN
  /\ mesh_devices \subseteq Devices
  /\ node \in [Devices -> {"none", "new", "provisioned"}]
  /\ prov \in [Devices -> Maybe]
  /\ notify_io \in Maybe
  /\ calls \in Seq(Msgs) /\ bus \in Seq(Msgs)
  /\ up \subseteq Devices /\ chars \in [Devices -> {"none", "prov", "proxy"}]
  /\ notifying \subseteq Devices /\ invited \subseteq Devices
  /\ member \subseteq Devices /\ starts \in 0..MaxStarts
  /\ upset \subseteq {"switch", "divert", "fault"}

Init ==
  /\ connection = [Zero EXCEPT !.type = "NETWORK"]
  /\ proxy_in = None /\ first = FALSE /\ discover_mesh = FALSE
  /\ mesh_devices = {} /\ node = [d \in Devices |-> "none"]
  /\ prov = [d \in Devices |-> None]
  /\ notify_io = None
  /\ calls = <<>> /\ bus = <<>>
  /\ up = {} /\ chars = [d \in Devices |-> "none"]
  /\ notifying = {} /\ invited = {} /\ member = {}
  /\ starts = 0 /\ upset = {}
-----------------------------------------------------------------------------
(* What the handlers are made of. *)

net_session_close(data_in) == proxy_in' = IF proxy_in = data_in THEN None ELSE proxy_in

\* Mutant of DisconnectCall: connection.device is not tested.
DisconnectCall_untested(dev, n) == <<Msg("Disconnect", dev, n, "call")>>

\* disconnect: there may be nothing to disconnect.
DisconnectCall(dev, n) ==
  IF dev = None THEN <<>> ELSE <<Msg("Disconnect", dev, n, "call")>>

\* disconnect_device: the session is closed, notifications are stopped (at once
\* if they come through the pipe io) ...
disconnect_device(c, io) ==
  /\ net_session_close(c.data_in)
  /\ notify_io' = IF c.data_out # None THEN None ELSE io
  /\ notifying' = IF c.data_out # None THEN notifying \ {io} ELSE notifying

\* ... and then the link.  n is the node for prov_disconn_reply, None for no
\* reply.
disconnect_calls(c, n, io) ==
  IF c.data_out # None /\ io = None
  THEN <<Msg("StopNotify", c.data_out, n, "call")>>
  ELSE DisconnectCall(c.device, n)

node_free(n) ==
  /\ node' = [node EXCEPT ![n] = "none"]
  /\ prov' = [prov EXCEPT ![n] = None]
-----------------------------------------------------------------------------
(* The window's thread. *)

Quiet == calls = <<>> /\ bus = <<>>

\* In the orderly case nothing is being connected and no attempt is under way.
\* session_open does not tell: it stays set while the next device is connected.
MayStart ==
  \/ "restart" \in Env
  \/ /\ Quiet
     /\ \/ connection.device = None
        \/ connection.session_open /\ connection.type # "PROVISION"

\* cmd_start_prov: disconnect whatever is there, find the device, connect it.
\* The type is left alone when the device is not found.
cmd_start_prov(d) ==
  LET found == node[d] = "new" /\ d \in mesh_devices
      c == [connection EXCEPT !.dev_uuid = IF node[d] = "new" /\ ~found THEN None ELSE d]
      old == disconnect_calls(connection, None, notify_io)
  IN /\ starts < MaxStarts /\ MayStart
     /\ starts' = starts + 1
     /\ upset' = upset \cup (IF connection.device # None THEN {"switch"} ELSE {})
                        \cup (IF discover_mesh THEN {"divert"} ELSE {})
     /\ disconnect_device(connection, notify_io)
     /\ connection' = IF found THEN [c EXCEPT !.type = "PROVISION"] ELSE c
     /\ calls' = calls \o old \o (IF found THEN <<Msg("Connect", d, None, "call")>> ELSE <<>>)
     /\ mesh_devices' = IF found THEN {} ELSE mesh_devices
     /\ UNCHANGED <<first, discover_mesh, attempts, bus, up, chars, invited, member>>
-----------------------------------------------------------------------------
(* The handlers of the main loop. *)

Rx == Head(bus)
Handles(what) == bus # <<>> /\ Rx.what = what /\ bus' = Tail(bus)

\* An advertisement of a device that is not provisioned.
update_device_info_prov(d) ==
  /\ d \notin member /\ d \notin mesh_devices
  /\ mesh_devices' = mesh_devices \cup {d}
  /\ node' = IF node[d] = "none" THEN [node EXCEPT ![d] = "new"] ELSE node
  /\ UNCHANGED <<connection, net, discover_mesh, prov, notify_io, calls, bus,
                 daemon, starts, upset>>

\* parse_mesh_service_data: an advertisement with the identity of the node of d
\* is the one looked for.
Identifies(d) == connection.type = "IDENTITY" /\ connection.unicast = d

\* The identity advertisement of the node the program looks for.
update_device_info_proxy(d) ==
  /\ d \in member /\ discover_mesh /\ Identifies(d)
  /\ discover_mesh' = FALSE
  /\ mesh_devices' = {}
  /\ calls' = Append(calls, Msg("Connect", d, None, "call"))
  /\ UNCHANGED <<connection, net, attempts, notify_io, bus, daemon, starts, upset>>

\* Mutant of connect_reply: the error is not looked at.
connect_reply_noerror ==
  /\ Handles("Connect")
  /\ connection' = [connection EXCEPT !.device = Rx.dev]
  /\ UNCHANGED <<net, discover_mesh, mesh_devices, attempts, notify_io, calls,
                 daemon, starts, upset>>

connect_reply ==
  /\ Handles("Connect")
  /\ connection' = IF Rx.how = "error" THEN Zero ELSE [connection EXCEPT !.device = Rx.dev]
  /\ UNCHANGED <<net, discover_mesh, mesh_devices, attempts, notify_io, calls,
                 daemon, starts, upset>>

property_changed_Connected ==
  /\ Handles("Connected")
  /\ connection' = IF connection.device = None THEN [connection EXCEPT !.device = Rx.dev]
                   ELSE connection
  /\ UNCHANGED <<net, discover_mesh, mesh_devices, attempts, notify_io, calls,
                 daemon, starts, upset>>

\* Mutant of property_changed_Disconnected: the session is not closed.
property_changed_Disconnected_open ==
  /\ Handles("Disconnected")
  /\ connection' = IF connection.device = Rx.dev THEN Zero ELSE connection
  /\ UNCHANGED <<net, discover_mesh, mesh_devices, attempts, notify_io, calls,
                 daemon, starts, upset>>

property_changed_Disconnected ==
  /\ Handles("Disconnected")
  /\ IF connection.device = Rx.dev
     THEN net_session_close(connection.data_in) /\ connection' = Zero
     ELSE UNCHANGED <<proxy_in, connection>>
  /\ UNCHANGED <<first, discover_mesh, mesh_devices, attempts, notify_io, calls,
                 daemon, starts, upset>>

\* The characteristic of a service on the connected device, if it is there.
get_characteristic(service) ==
  IF connection.device # None /\ chars[connection.device] = service
  THEN connection.device ELSE None

\* mesh_session_setup: the service that the type of the connection asks for.
SetupService ==
  CASE connection.type = "PROVISION" -> "prov"
    [] connection.type = "INVALID"   -> "none"
    [] OTHER                         -> "proxy"

\* Mutant of SetupNode: any node that waits to be provisioned.
SetupNode_first ==
  LET waiting == {n \in Devices : node[n] = "new"}
  IN IF waiting = {} THEN None ELSE CHOOSE n \in waiting : TRUE

\* The node of the UUID that cmd_start_prov left.
SetupNode ==
  IF connection.dev_uuid # None /\ node[connection.dev_uuid] # "none"
  THEN connection.dev_uuid ELSE None

\* ServicesResolved of any device sets up the one that is connected.
mesh_session_setup ==
  LET char == get_characteristic(SetupService)
      what == IF SetupService = "prov" THEN "NotifyProv" ELSE "NotifyProxy"
  IN /\ Handles("Resolved")
     /\ IF SetupService = "none" THEN UNCHANGED <<connection, calls>>
        ELSE IF char = None
        THEN connection' = [connection EXCEPT !.data_in = None] /\ UNCHANGED calls
        ELSE /\ connection' = [connection EXCEPT !.data_in = char, !.data_out = char]
             /\ calls' = Append(calls, Msg(what, char, SetupNode, "call"))
     /\ UNCHANGED <<net, discover_mesh, mesh_devices, attempts, notify_io,
                    daemon, starts, upset>>

\* acquire_notify_reply and notify_reply: a pipe replaces the one there is.
NotifyIo == IF Rx.how = "pipe" THEN Rx.dev ELSE notify_io

\* prov_open takes the node whatever became of it, unless it has an attempt, left
\* by a disconnect; and mesh_gatt_write may fail.  Then the node is freed and the
\* device disconnected.
prov_open_fails(n) ==
  /\ node_free(n)
  /\ disconnect_device(connection, NotifyIo)
  /\ calls' = calls \o disconnect_calls(connection, None, NotifyIo)
  /\ UNCHANGED invited

prov_open(n) ==
  /\ prov[n] = None
  /\ prov' = [prov EXCEPT ![n] = connection.data_in]
  /\ notify_io' = NotifyIo
  /\ invited' = invited \cup ({connection.data_in} \cap up)
  /\ UNCHANGED <<proxy_in, node, calls, notifying>>

notify_prov_out_cb ==
  /\ Handles("NotifyProv")
  /\ IF \/ Rx.how = "error" \/ connection.type # "PROVISION"
        \/ connection.data_in = None \/ Rx.n = None
     THEN /\ notify_io' = NotifyIo
          /\ UNCHANGED <<proxy_in, attempts, calls, notifying, invited>>
     ELSE prov_open(Rx.n) \/ prov_open_fails(Rx.n)
  /\ UNCHANGED <<connection, first, discover_mesh, mesh_devices, up, chars, member,
                 starts, upset>>

OpensSession ==
  /\ Rx.how # "error"
  /\ connection.type \in {"IDENTITY", "NETWORK"}
  /\ connection.data_in # None

\* net_session_open refuses while an earlier session is not closed; its result
\* is not looked at.
notify_proxy_out_cb ==
  /\ Handles("NotifyProxy")
  /\ notify_io' = NotifyIo
  /\ IF OpensSession
     THEN /\ proxy_in' = IF proxy_in = None THEN connection.data_in ELSE proxy_in
          /\ first' = (proxy_in = None \/ first)
          /\ connection' = [connection EXCEPT !.session_open = TRUE]
     ELSE UNCHANGED <<net, connection>>
  /\ UNCHANGED <<discover_mesh, mesh_devices, attempts, calls, daemon, starts, upset>>

\* The link closes the pipe.
pipe_hup ==
  /\ notify_io # None /\ notify_io \notin notifying
  /\ notify_io' = None
  /\ UNCHANGED <<connection, net, discover_mesh, mesh_devices, attempts, calls,
                 bus, daemon, starts, upset>>

\* disc_notify_cb, on any answer to StopNotify.
disc_notify_cb ==
  /\ Handles("StopNotify")
  /\ calls' = calls \o DisconnectCall(connection.device, Rx.n)
  /\ UNCHANGED <<connection, net, discover_mesh, mesh_devices, attempts, notify_io,
                 daemon, starts, upset>>

\* Mutant of prov_disconn_reply: the struct is cleared last.
prov_disconn_reply_cleared ==
  /\ Handles("Disconnect")
  /\ IF Rx.how = "error" \/ Rx.n = None THEN UNCHANGED <<connection, discover_mesh>>
     ELSE connection' = Zero /\ discover_mesh' = TRUE
  /\ UNCHANGED <<net, mesh_devices, attempts, notify_io, calls, daemon, starts, upset>>

\* The reply to Disconnect; after a provisioning the node is looked for.
prov_disconn_reply ==
  /\ Handles("Disconnect")
  /\ IF Rx.how = "error" \/ Rx.n = None THEN UNCHANGED <<connection, discover_mesh>>
     ELSE /\ connection' = [Zero EXCEPT !.type = "IDENTITY", !.unicast = Rx.n]
          /\ discover_mesh' = TRUE
  /\ UNCHANGED <<net, mesh_devices, attempts, notify_io, calls, daemon, starts, upset>>

\* device_removed: the session is not closed.  The list loses its first entry.
device_removed ==
  /\ Handles("Removed")
  /\ \/ mesh_devices = {} /\ UNCHANGED mesh_devices
     \/ \E d \in mesh_devices : mesh_devices' = mesh_devices \ {d}
  /\ connection' = IF connection.device = Rx.dev THEN Zero ELSE connection
  /\ UNCHANGED <<net, discover_mesh, attempts, notify_io, calls, daemon, starts, upset>>

\* mesh_prov_done: the device answers through its notifications.
mesh_prov_done(n, status) ==
  /\ prov[n] \in invited \cap notifying
  /\ disconnect_device(connection, notify_io)
  /\ calls' = calls \o disconnect_calls(connection, IF status = 0 THEN n ELSE None, notify_io)
  /\ IF status = 0
     THEN /\ node' = [node EXCEPT ![n] = "provisioned"]
          /\ prov' = [prov EXCEPT ![n] = None]
          /\ member' = member \cup {prov[n]}
     ELSE node_free(n) /\ UNCHANGED member
  /\ invited' = invited \ {prov[n]}
  /\ UNCHANGED <<connection, first, discover_mesh, mesh_devices, bus, up, chars,
                 starts, upset>>

\* The first beacon of a session sets the filter and reports the session open.
beacon_update ==
  /\ first /\ \E d \in notifying : chars[d] = "proxy"
  /\ first' = FALSE
  /\ UNCHANGED <<connection, proxy_in, discover_mesh, mesh_devices, attempts, notify_io,
                 calls, bus, daemon, starts, upset>>
-----------------------------------------------------------------------------
(* bluetoothd: answers calls in any order, and reports links. *)

\* A call that fails leaves its mark in the history.
Answers(i, msgs) ==
  /\ Len(bus) + Len(msgs) <= MaxBus
  /\ bus' = bus \o msgs
  /\ upset' = IF msgs[1].how = "error" THEN upset \cup {"fault"} ELSE upset
  /\ calls' = RemoveAt(calls, i)
  /\ UNCHANGED <<connection, net, discover_mesh, mesh_devices, attempts, notify_io,
                 member, starts>>

Reply(call, how) == [call EXCEPT !.how = how]
Signal(what, d) == Msg(what, d, None, "signal")

Down(d) ==
  /\ up' = up \ {d} /\ chars' = [chars EXCEPT ![d] = "none"]
  /\ notifying' = notifying \ {d} /\ invited' = invited \ {d}

ConnectDone(i) ==
  LET c == calls[i]
  IN /\ c.what = "Connect"
     /\ \/ /\ c.dev \in up
           /\ Answers(i, <<Reply(c, "ok")>>)
           /\ UNCHANGED links
        \/ /\ c.dev \notin up
           /\ Answers(i, <<Reply(c, "error")>>)
           /\ UNCHANGED links
        \/ /\ c.dev \notin up
           /\ \/ Answers(i, <<Reply(c, "ok"), Signal("Connected", c.dev)>>)
              \/ Answers(i, <<Signal("Connected", c.dev), Reply(c, "ok")>>)
           /\ up' = up \cup {c.dev} /\ UNCHANGED <<chars, notifying, invited>>

DisconnectDone(i) ==
  LET c == calls[i]
  IN /\ c.what = "Disconnect"
     /\ \/ /\ c.dev \notin up
           /\ Answers(i, <<Reply(c, "error")>>)
           /\ UNCHANGED links
        \/ /\ c.dev \in up
           /\ \/ Answers(i, <<Reply(c, "ok"), Signal("Disconnected", c.dev)>>)
              \/ Answers(i, <<Signal("Disconnected", c.dev), Reply(c, "ok")>>)
           /\ Down(c.dev)

NotifyDone(i) ==
  LET c == calls[i]
  IN /\ c.what \in {"NotifyProv", "NotifyProxy", "StopNotify"}
     /\ \E how \in IF c.dev \in up THEN {"pipe", "ok", "error"} ELSE {"error"} :
          /\ c.what = "StopNotify" => how # "pipe"
          /\ Answers(i, <<Reply(c, how)>>)
          /\ notifying' = IF c.what = "StopNotify" THEN notifying \ {c.dev}
                          ELSE IF how # "error" THEN notifying \cup {c.dev} ELSE notifying
     /\ UNCHANGED <<up, chars, invited>>

Reports(msg) ==
  /\ Len(bus) < MaxBus
  /\ bus' = Append(bus, msg)
  /\ UNCHANGED <<connection, net, discover_mesh, mesh_devices, attempts, notify_io,
                 calls, member, starts>>

ServicesResolved(d) ==
  /\ d \in up /\ chars[d] = "none"
  /\ chars' = [chars EXCEPT ![d] = IF d \in member THEN "proxy" ELSE "prov"]
  /\ Reports(Signal("Resolved", d))
  /\ UNCHANGED <<up, notifying, invited, upset>>

LinkLost(d) ==
  /\ d \in up
  /\ Down(d)
  /\ \E what \in {"Disconnected"} \cup (IF "removed" \in Env THEN {"Removed"} ELSE {}) :
       Reports(Signal(what, d))
  /\ upset' = upset \cup {"fault"}

\* A device that is not connected, and is not heard any more, is dropped.
Forgotten(d) ==
  /\ d \in mesh_devices /\ d \notin up
  /\ \A i \in DOMAIN bus : bus[i].what # "Removed"
  /\ Reports(Signal("Removed", d))
  /\ UNCHANGED <<links, upset>>
-----------------------------------------------------------------------------
Handler ==
  \/ connect_reply \/ property_changed_Connected \/ property_changed_Disconnected
  \/ mesh_session_setup \/ notify_prov_out_cb \/ notify_proxy_out_cb
  \/ disc_notify_cb \/ prov_disconn_reply \/ device_removed

Daemon(i) == ConnectDone(i) \/ DisconnectDone(i) \/ NotifyDone(i)

Next ==
  \/ \E d \in Devices : cmd_start_prov(d)
  \/ Handler \/ pipe_hup
  \/ \E d \in Devices : update_device_info_prov(d) \/ update_device_info_proxy(d)
  \/ \E n \in Devices, status \in {0, 1} : mesh_prov_done(n, status)
  \/ beacon_update
  \/ \E i \in DOMAIN calls : Daemon(i)
  \/ \E d \in Devices : ServicesResolved(d)
  \/ \E d \in Devices : LinkLost(d) \/ Forgotten(d)

Spec == Init /\ [][Next]_vars

\* The main loop handles what arrives, bluetoothd answers every call and resolves
\* the services of every link, an attempt ends, and a node advertises itself and
\* sends beacons.
FairSpec ==
  /\ Spec
  /\ WF_vars(Handler)
  /\ WF_vars(calls # <<>> /\ Daemon(1))
  /\ \A d \in Devices :
       /\ WF_vars(ServicesResolved(d)) /\ WF_vars(update_device_info_proxy(d))
       /\ WF_vars(\E status \in {0, 1} : mesh_prov_done(d, status))
  /\ WF_vars(beacon_update) /\ WF_vars(pipe_hup)
-----------------------------------------------------------------------------
(* The device an attempt provisions is the one its node stands for: the UUID *)
(* kept by cmd_start_prov, the connection that BlueZ reports and the node     *)
(* that mesh_session_setup passes to notify_prov_out_cb name one device.  And *)
(* the node, which was looked up before the subscription was answered, is     *)
(* still there and not provisioned, though prov_open does not ask.            *)
ProvisionsChosen ==
  \A n \in Devices : prov[n] # None => prov[n] = n /\ node[n] = "new"

(* net.proxy_in, set by net_session_open, is the characteristic of the        *)
(* connected device: no path (a lost link, a switch, a disconnect before its  *)
(* reply) leaves a session on a connection that is gone.  And                 *)
(* connection.session_open tells the truth: net_session_open, whose result    *)
(* notify_proxy_out_cb ignores, was not refused, unless a device was started  *)
(* while another was connected.                                               *)
SessionOnConnection ==
  /\ proxy_in # None => connection.device = proxy_in /\ connection.data_in = proxy_in
  /\ connection.session_open /\ "switch" \notin upset => proxy_in = connection.data_in

(* When nothing is under way the program and bluetoothd agree: the connected  *)
(* device has a link, the session's notifications arrive, a device in the     *)
(* middle of a provisioning is the connected one (connect_reply,              *)
(* property_changed and the replies come in any order), and a device with a   *)
(* link is the one that the program remembers, whatever disconnect_device,    *)
(* disc_notify_cb and property_changed met, unless a device was started while *)
(* another was connected.  The link may be of no use: a failed subscription   *)
(* leaves it as it is (notify_prov_out_cb).                                   *)
QuietAgrees ==
  Quiet =>
    /\ connection.device \in up \cup {None}
    /\ proxy_in \in notifying \cup {None}
    /\ invited \subseteq {connection.device}
    /\ "switch" \notin upset => up \subseteq {connection.device}

(* A device that was provisioned is disconnected, found again as a proxy,     *)
(* connected, and its session is open with the first beacon seen, unless a    *)
(* call failed, a link was lost or the user started another device meanwhile  *)
(* (mesh_prov_done to beacon_update, through every order of replies and       *)
(* signals).                                                                  *)
ProvisionedJoins ==
  \A d \in Devices : d \in member ~> upset # {} \/ (proxy_in = d /\ ~first)
=============================================================================
