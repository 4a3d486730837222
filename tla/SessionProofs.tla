--------------------------- MODULE SessionProofs ---------------------------
(***************************************************************************)
(* Proofs about Session, for any number of devices, starts and messages on *)
(* their way: the types whatever the world does, and in the orderly case   *)
(* (Env = {}) that a device is provisioned as the node it stands for, that *)
(* a session is on the connection there is, and that the program and       *)
(* bluetoothd agree when nothing is under way.                             *)
(***************************************************************************)
EXTENDS Session, TLAPS

Called == ToSet(calls)
Told == ToSet(bus)

\* A message that moves the program on: the call or the reply of a connect, of a
\* subscription, or of the disconnect after a provisioning.
Token(m) ==
  \/ m.what \in {"Connect", "NotifyProv", "NotifyProxy"}
  \/ m.what \in {"StopNotify", "Disconnect"} /\ m.n # None

\* There is at most one, sent once.
OnceIn(s) == \A i, j \in DOMAIN s : Token(s[i]) /\ Token(s[j]) => i = j
Free(s) == \A m \in ToSet(s) : ~Token(m)
OneToken == OnceIn(calls) /\ OnceIn(bus) /\ (Free(calls) \/ Free(bus))

\* What a message says of device d.
Ok(m, d) == m.what = "Connect" /\ m.how = "ok" /\ m.dev = d
Raises(m, d) == Ok(m, d) \/ (m.what = "Connected" /\ m.dev = d)
Lost(m, d) == m.what = "Disconnected" /\ m.dev = d
Early(m) == m.what \in {"Connected", "Resolved"}

\* The stages of a connection that no token shows: the link is there and the
\* services are not known yet; the device is being provisioned, or has a session
\* (which may have been closed); the node is looked for.
Fresh(d) == d \in up /\ chars[d] = "none"
Joining == (\E d \in Devices : Fresh(d)) \/ \E m \in Told : Early(m)
Opened == connection.session_open /\ connection.type # "PROVISION"
Working == invited # {} \/ Opened
Looking == discover_mesh /\ connection.type = "IDENTITY"

\* There is one stage at a time; a link may be seen before the reply to Connect.
StageInv ==
  /\ Working => Free(calls) /\ Free(bus) /\ ~Joining /\ ~Looking
  /\ Looking => Free(calls) /\ Free(bus) /\ ~Joining
  /\ Joining => Free(calls) /\ \A m \in Told : Token(m) => Ok(m, m.dev)

\* The order of bluetoothd's messages tells which links there are.
OrderInv ==
  /\ \A d \in Devices, i \in DOMAIN bus : Raises(bus[i], d) =>
       d \in up \/ \E j \in DOMAIN bus : i < j /\ Lost(bus[j], d)
  /\ \A d \in up, i \in DOMAIN bus : Lost(bus[i], d) =>
       \E k \in DOMAIN bus : i < k /\ Ok(bus[k], d)
  /\ \A i, j \in DOMAIN bus : Early(bus[i]) /\ j < i /\ Lost(bus[j], bus[i].dev) =>
       \E k \in DOMAIN bus : j < k /\ Ok(bus[k], bus[i].dev)
  /\ \A i, k \in DOMAIN bus :
       bus[i].what = "Resolved" /\ (Early(bus[k]) \/ bus[k].what = "Connect") => k <= i

\* A device that is dropped was disconnected before.
RemovedInv ==
  \A i \in DOMAIN bus : bus[i].what = "Removed" =>
    /\ connection.device = bus[i].dev => \E j \in DOMAIN bus : j < i /\ Lost(bus[j], bus[i].dev)
    /\ \A k \in DOMAIN bus : k < i /\ Raises(bus[k], bus[i].dev) =>
         \E j \in DOMAIN bus : k < j /\ j < i /\ Lost(bus[j], bus[i].dev)

\* A device that joins is the one connected, or about to be.
Owner(d) ==
  \/ \E m \in Told : Ok(m, d)
  \/ connection.device = d /\ \A m \in Told : m.what # "Connect"

JoinInv ==
  /\ \A d \in Devices : Fresh(d) => Owner(d) /\ \A m \in Told : m.what # "Resolved"
  /\ \A m \in Told : Early(m) => Owner(m.dev)

Dialled == \E m \in Called \cup Told : m.what = "Connect"

ConnInv ==
  /\ connection.device = None =>
       ~connection.session_open /\ connection.data_in = None /\ connection.data_out = None
  /\ connection.device # None =>
       connection.device \in up \/ \E m \in Told : Lost(m, connection.device)
  /\ Opened => connection.device \in member /\ connection.data_out = connection.device
  /\ connection.session_open /\ "switch" \notin upset =>
       proxy_in # None /\ proxy_in = connection.data_in
  /\ connection.type = "PROVISION" =>
       connection.device \in {None, connection.dev_uuid} \/ Dialled

\* Only a node of the network has a link that the program forgot.
DevInv ==
  /\ \A d \in Devices : chars[d] = "proxy" => d \in member
  /\ \A d \in member : node[d] # "new"
  /\ \A d \in up : (d \notin member \/ "switch" \notin upset) =>
       connection.device = d \/ \E m \in Told : Ok(m, d)

DialInv ==
  /\ \A m \in Called \cup Told : m.what = "Connect" =>
       /\ connection.device \in member \cup {None, m.dev}
       /\ "switch" \notin upset => connection.device \in {None, m.dev}
       /\ m.how # "ok" => connection.device # m.dev
       /\ connection.type = "PROVISION" => connection.dev_uuid = m.dev
  /\ \A m \in Called : m.what = "Connect" => m.how = "call" /\ m.dev \notin up
  /\ \A m \in Told : m.what = "Connect" => m.how \in {"ok", "error"}

Subscribes(m) == m.what \in {"NotifyProv", "NotifyProxy"}

SubInv ==
  /\ \A m \in Called \cup Told : Subscribes(m) =>
       /\ m.what = "NotifyProv" => m.n \in {None, m.dev}
       /\ m.what = "NotifyProxy" => m.dev \in member
       /\ connection.data_in # None =>
            /\ connection.device = m.dev /\ connection.data_in = m.dev
            /\ connection.data_out = m.dev
            /\ (m.what = "NotifyProv") <=> (connection.type = "PROVISION")
  /\ \A m \in Told : Subscribes(m) /\ m.how # "error" /\ connection.data_in # None =>
       m.dev \in notifying \/ \E l \in Told : Lost(l, m.dev)

WorkInv ==
  /\ invited # {} =>
       /\ invited = {connection.device} /\ invited \subseteq up
       /\ connection.type = "PROVISION"
       /\ connection.data_in = connection.device /\ connection.data_out = connection.device
  /\ proxy_in # None =>
       /\ Opened /\ connection.device = proxy_in /\ connection.data_in = proxy_in
       /\ proxy_in \in notifying \/ \E m \in Told : Lost(m, proxy_in)

Ends(m) == m.what \in {"StopNotify", "Disconnect"} /\ m.n # None

EndInv ==
  /\ \A m \in Called \cup Told : Ends(m) => connection.device \in {None, m.n} /\ m.dev = m.n
  /\ \A m \in Told : Ends(m) /\ m.what = "Disconnect" /\ m.how # "error" => m.n \notin up

LookInv == Looking => connection.device = None /\ connection.unicast \in Devices \ up

\* The device a stage is about; its notifications are not to be stopped.
Subject(d) ==
  \/ \E m \in Called \cup Told : Token(m) /\ m.dev = d
  \/ Fresh(d) \/ \E m \in Told : Early(m) /\ m.dev = d
  \/ d \in invited \/ proxy_in = d
  \/ Looking /\ connection.unicast = d

StopInv == \A m \in Called : m.what = "StopNotify" /\ m.n = None => ~Subject(m.dev)

\* An attempt is made with the device of its node.
Chosen == \A n \in Devices : prov[n] \in {None, n}

SInv ==
  /\ TypeOK /\ OneToken /\ StageInv /\ OrderInv /\ RemovedInv /\ JoinInv /\ ConnInv
  /\ DevInv /\ DialInv /\ SubInv /\ WorkInv /\ EndInv /\ LookInv /\ StopInv
  /\ Chosen
-----------------------------------------------------------------------------
(* Sequences. *)

\* s2 is s without its element i.
Without(s, i, s2) ==
  /\ DOMAIN s2 = 1..(Len(s) - 1)
  /\ \A j \in DOMAIN s2 : s2[j] = s[IF j < i THEN j ELSE j + 1]

LEMMA SecondPart ==
  ASSUME NEW T, NEW a \in Seq(T), NEW b \in Seq(T), NEW j \in 1..(Len(a) + Len(b)), j > Len(a)
  PROVE  (a \o b)[j] = b[j - Len(a)]
OBVIOUS

LEMMA WithoutFacts ==
  ASSUME NEW T, NEW s \in Seq(T), NEW i \in DOMAIN s
  PROVE  RemoveAt(s, i) \in Seq(T) /\ Without(s, i, RemoveAt(s, i))
<1> DEFINE a == SubSeq(s, 1, i - 1)
           b == SubSeq(s, i + 1, Len(s))
<1>1. i \in 1..Len(s) /\ Len(s) \in Nat
  OBVIOUS
<1>2. a \in Seq(T) /\ Len(a) = i - 1 /\ \A j \in 1..(i - 1) : a[j] = s[j]
  BY <1>1
<1>3. b \in Seq(T) /\ Len(b) = Len(s) - i /\ \A j \in 1..(Len(s) - i) : b[j] = s[i + j]
  BY <1>1
<1> HIDE DEF a, b
<1>4. Len(a \o b) = Len(s) - 1 /\ DOMAIN (a \o b) = 1..(Len(s) - 1)
  BY <1>1, <1>2, <1>3
<1>5. ASSUME NEW j \in 1..(Len(s) - 1)
      PROVE  (a \o b)[j] = s[IF j < i THEN j ELSE j + 1]
  <2>1. CASE j < i
    BY <1>1, <1>2, <1>3, <2>1
  <2>2. CASE ~(j < i)
    <3>1. j - (i - 1) \in 1..(Len(s) - i)
      BY <1>1, <2>2
    <3>2. j \in 1..(Len(a) + Len(b)) /\ j > Len(a)
      BY <1>1, <1>2, <1>3, <2>2
    <3>3. (a \o b)[j] = b[j - (i - 1)]
      <4>1. (a \o b)[j] = b[j - Len(a)]
        BY ONLY <1>2, <1>3, <3>2, SecondPart
      <4> QED
        BY <1>2, <4>1
    <3>4. i + (j - (i - 1)) = j + 1
      BY <1>1
    <3> QED
      BY <1>3, <2>2, <3>1, <3>3, <3>4
  <2> QED
    BY <2>1, <2>2
<1>6. a \o b \in Seq(T)
  BY <1>2, <1>3
<1> QED
  BY <1>4, <1>5, <1>6 DEF Without, RemoveAt, a, b

\* What is added to a sequence comes after what was there.
LEMMA Added ==
  ASSUME NEW T, NEW a \in Seq(T), NEW b \in Seq(T)
  PROVE  /\ a \o b \in Seq(T) /\ Len(a) \in Nat /\ Len(a \o b) = Len(a) + Len(b)
         /\ \A i \in DOMAIN a : i \in 1..Len(a) /\ i \in DOMAIN (a \o b) /\ (a \o b)[i] = a[i]
         /\ \A i \in DOMAIN b : Len(a) + i \in DOMAIN (a \o b) /\ (a \o b)[Len(a) + i] = b[i]
         /\ \A i \in DOMAIN (a \o b) :
              i \in DOMAIN a \/ (i - Len(a) \in DOMAIN b /\ i > Len(a) /\ (a \o b)[i] = b[i - Len(a)])
<1>1. \A i \in DOMAIN b : (a \o b)[Len(a) + i] = b[i]
  <2> SUFFICES ASSUME NEW i \in DOMAIN b PROVE (a \o b)[Len(a) + i] = b[i]
    OBVIOUS
  <2>1. Len(a) + i \in 1..(Len(a) + Len(b)) /\ Len(a) + i > Len(a) /\ Len(a) + i - Len(a) = i
    OBVIOUS
  <2> QED
    BY <2>1, SecondPart
<1>2. \A i \in DOMAIN (a \o b) :
        i \in DOMAIN a \/ (i - Len(a) \in DOMAIN b /\ i > Len(a) /\ (a \o b)[i] = b[i - Len(a)])
  <2> SUFFICES ASSUME NEW i \in DOMAIN (a \o b), i \notin DOMAIN a
               PROVE  i - Len(a) \in DOMAIN b /\ i > Len(a) /\ (a \o b)[i] = b[i - Len(a)]
    OBVIOUS
  <2>1. i \in 1..(Len(a) + Len(b)) /\ i > Len(a) /\ i - Len(a) \in DOMAIN b
    OBVIOUS
  <2> QED
    BY <2>1, SecondPart
<1> QED
  BY <1>1, <1>2

\* The rest of a sequence is one place further to the front.
LEMMA Shifted ==
  ASSUME NEW T, NEW s \in Seq(T), s # <<>>
  PROVE  /\ Tail(s) \in Seq(T) /\ Head(s) = s[1] /\ Head(s) \in T /\ 1 \in DOMAIN s
         /\ \A i \in DOMAIN Tail(s) : i \in Nat \ {0} /\ i + 1 \in DOMAIN s /\ Tail(s)[i] = s[i + 1]
         /\ \A i \in DOMAIN s : i = 1 \/ (i \in Nat /\ i > 1 /\ i - 1 \in DOMAIN Tail(s)
                                          /\ Tail(s)[i - 1] = s[i])
OBVIOUS
-----------------------------------------------------------------------------
(* Types. *)

LEMMA MsgFields ==
  ASSUME NEW m \in Msgs
  PROVE  /\ m.dev \in Devices /\ m.n \in Maybe
         /\ m.what \in {"Connect", "Disconnect", "StopNotify", "NotifyProv", "NotifyProxy",
                        "Connected", "Disconnected", "Resolved", "Removed"}
         /\ m.how \in {"call", "ok", "pipe", "error", "signal"}
BY DEF Msgs

\* A call, a reply or a signal is about a device.
LEMMA MsgType ==
  ASSUME NEW d \in Devices, NEW n \in Maybe
  PROVE  /\ \A what \in {"Connect", "Disconnect", "StopNotify", "NotifyProv", "NotifyProxy"} :
              Msg(what, d, n, "call") \in Msgs
         /\ \A what \in {"Connected", "Disconnected", "Resolved", "Removed"} :
              Signal(what, d) \in Msgs
         /\ \A c \in Msgs : \A how \in {"ok", "pipe", "error"} : Reply(c, how) \in Msgs
BY DEF Msg, Signal, Reply, Msgs, Maybe

LEMMA ConnType ==
  ASSUME NEW c \in Connections
  PROVE  /\ c.device \in Maybe /\ c.data_in \in Maybe /\ c.data_out \in Maybe
         /\ c.dev_uuid \in Maybe /\ c.unicast \in Maybe /\ c.type \in ConnTypes
         /\ c.session_open \in BOOLEAN /\ Zero \in Connections
BY DEF Connections, Maybe, ConnTypes, Zero

\* What disconnect and disconnect_device call.
LEMMA CallTypes ==
  ASSUME NEW c \in Connections, NEW n \in Maybe, NEW io
  PROVE  /\ DisconnectCall(c.device, n) \in Seq(Msgs) /\ Len(DisconnectCall(c.device, n)) <= 1
         /\ disconnect_calls(c, n, io) \in Seq(Msgs) /\ Len(disconnect_calls(c, n, io)) <= 1
<1>1. \A d \in Maybe : DisconnectCall(d, n) \in Seq(Msgs) /\ Len(DisconnectCall(d, n)) <= 1
  BY MsgType DEF DisconnectCall, Maybe
<1>2. c.data_out # None => Msg("StopNotify", c.data_out, n, "call") \in Msgs
  BY ConnType, MsgType DEF Maybe
<1> QED
  BY <1>1, <1>2, ConnType DEF disconnect_calls

LEMMA InitTypes == Init => TypeOK
<1> SUFFICES ASSUME Init PROVE TypeOK
  OBVIOUS
<1>1. connection \in Connections
  BY ConnType DEF Init, Zero, Connections, Maybe, ConnTypes
<1>2. calls \in Seq(Msgs) /\ bus \in Seq(Msgs)
  BY DEF Init
<1>3. starts \in 0..MaxStarts
  BY SessionAssumption DEF Init
<1>4. /\ node \in [Devices -> {"none", "new", "provisioned"}] /\ prov \in [Devices -> Maybe]
      /\ chars \in [Devices -> {"none", "prov", "proxy"}]
  BY DEF Init, Maybe
<1> QED
  BY <1>1, <1>2, <1>3, <1>4 DEF Init, TypeOK, Maybe

LEMMA RxType ==
  ASSUME TypeOK, bus # <<>>
  PROVE  /\ Rx \in Msgs /\ Rx.dev \in Devices /\ Rx.n \in Maybe /\ Tail(bus) \in Seq(Msgs)
         /\ connection \in Connections
<1>1. Rx \in Msgs /\ Tail(bus) \in Seq(Msgs) /\ connection \in Connections
  BY DEF TypeOK, Rx
<1> QED
  BY <1>1, MsgFields

LEMMA StartTypes ==
  ASSUME TypeOK, NEW d \in Devices, cmd_start_prov(d) PROVE TypeOK'
<1> DEFINE connect == IF node[d] = "new" /\ d \in mesh_devices
                      THEN <<Msg("Connect", d, None, "call")>> ELSE <<>>
<1>1. connection \in Connections
  BY DEF TypeOK
<1>2. disconnect_calls(connection, None, notify_io) \in Seq(Msgs) /\ connect \in Seq(Msgs)
  BY <1>1, CallTypes, MsgType DEF Maybe
<1>3. calls' \in Seq(Msgs)
  BY <1>2 DEF cmd_start_prov, TypeOK
<1>4. connection' \in Connections
  BY <1>1 DEF cmd_start_prov, Connections, Maybe, ConnTypes
<1>5. starts' \in 0..MaxStarts
  BY SessionAssumption DEF cmd_start_prov, TypeOK
<1> QED
  BY <1>3, <1>4, <1>5
  DEF cmd_start_prov, disconnect_device, net_session_close, TypeOK, attempts, Maybe

LEMMA HandlerTypes ==
  ASSUME TypeOK, Handler PROVE TypeOK'
<1>1. /\ Rx \in Msgs /\ Rx.dev \in Devices /\ Rx.n \in Maybe /\ bus' \in Seq(Msgs)
      /\ connection \in Connections /\ calls \in Seq(Msgs)
  BY RxType DEF TypeOK, Handler, Handles, connect_reply, property_changed_Connected,
     property_changed_Disconnected, mesh_session_setup, notify_prov_out_cb,
     notify_proxy_out_cb, disc_notify_cb, prov_disconn_reply, device_removed
<1>2. Zero \in Connections /\ [connection EXCEPT !.device = Rx.dev] \in Connections
  BY <1>1, ConnType DEF Connections, Maybe
<1> USE DEF TypeOK, net, attempts, daemon
<1>3. CASE connect_reply
  BY <1>1, <1>2, <1>3 DEF connect_reply
<1>4. CASE property_changed_Connected
  BY <1>1, <1>2, <1>4 DEF property_changed_Connected
<1>5. CASE property_changed_Disconnected
  BY <1>1, <1>2, <1>5 DEF property_changed_Disconnected, net_session_close, Maybe
<1>6. CASE mesh_session_setup
  <2>1. SetupNode \in Maybe /\ \A s \in {"none", "prov", "proxy"} : get_characteristic(s) \in Maybe
    BY <1>1, ConnType DEF SetupNode, get_characteristic, Maybe
  <2>2. SetupService \in {"none", "prov", "proxy"}
    BY <1>1, ConnType DEF SetupService, ConnTypes
  <2> DEFINE char == get_characteristic(SetupService)
             what == IF SetupService = "prov" THEN "NotifyProv" ELSE "NotifyProxy"
  <2>3. char \in Maybe
    BY <2>1, <2>2
  <2>4. char # None => Msg(what, char, SetupNode, "call") \in Msgs
    BY <2>1, <2>3, MsgType DEF Maybe
  <2>5. connection' \in Connections
    <3>1. \/ connection' = connection
          \/ connection' = [connection EXCEPT !.data_in = None]
          \/ connection' = [connection EXCEPT !.data_in = char, !.data_out = char]
      BY <1>6 DEF mesh_session_setup
    <3> HIDE DEF char
    <3>2. None \in Maybe
      BY DEF Maybe
    <3> QED
      BY ONLY <1>1, <2>3, <3>1, <3>2 DEF Connections
  <2>6. calls' \in Seq(Msgs)
    <3>1. calls' = calls \/ (char # None /\ calls' = Append(calls, Msg(what, char, SetupNode, "call")))
      BY <1>6, <2>3 DEF mesh_session_setup
    <3> QED
      BY ONLY <1>1, <2>4, <3>1
  <2> QED
    BY <1>1, <1>6, <2>5, <2>6 DEF mesh_session_setup
<1>7. CASE notify_prov_out_cb
  <2>5. disconnect_calls(connection, None, NotifyIo) \in Seq(Msgs)
    BY <1>1, CallTypes DEF Maybe
  <2>6. calls' = calls \/ calls' = calls \o disconnect_calls(connection, None, NotifyIo)
    BY <1>7 DEF notify_prov_out_cb, prov_open, prov_open_fails
  <2>1. calls' \in Seq(Msgs)
    BY ONLY <1>1, <2>5, <2>6, Added
  <2>2. connection.data_in \in Maybe /\ NotifyIo \in Maybe
    BY <1>1, ConnType DEF NotifyIo, Maybe
  <2>3. /\ node' \in [Devices -> {"none", "new", "provisioned"}] /\ prov' \in [Devices -> Maybe]
    BY <1>1, <1>7, <2>2 DEF notify_prov_out_cb, prov_open, prov_open_fails, node_free, Maybe
  <2>4. notify_io' \in Maybe /\ notifying' \subseteq Devices /\ invited' \subseteq Devices
        /\ proxy_in' \in Maybe
    BY <1>7, <2>2 DEF notify_prov_out_cb, prov_open, prov_open_fails, disconnect_device,
                      net_session_close, Maybe
  <2> QED
    BY <1>1, <1>7, <2>1, <2>3, <2>4 DEF notify_prov_out_cb
<1>8. CASE notify_proxy_out_cb
  <2>1. connection.data_in \in Maybe /\ NotifyIo \in Maybe
    BY <1>1, ConnType DEF NotifyIo, Maybe
  <2>2. connection' \in Connections /\ first' \in BOOLEAN
    <3>1. connection' = connection \/ connection' = [connection EXCEPT !.session_open = TRUE]
      BY <1>8 DEF notify_proxy_out_cb
    <3>2. connection' \in Connections
      BY ONLY <1>1, <3>1 DEF Connections
    <3>3. first' \in BOOLEAN
      BY <1>8 DEF notify_proxy_out_cb
    <3> QED
      BY <3>2, <3>3
  <2> QED
    BY <1>1, <1>8, <2>1, <2>2 DEF notify_proxy_out_cb
<1>9. CASE disc_notify_cb
  <2>1. calls' \in Seq(Msgs)
    <3>1. DisconnectCall(connection.device, Rx.n) \in Seq(Msgs)
      BY ONLY <1>1, CallTypes
    <3>2. calls' = calls \o DisconnectCall(connection.device, Rx.n)
      BY <1>9 DEF disc_notify_cb
    <3> QED
      BY ONLY <1>1, <3>1, <3>2, Added
  <2> QED
    BY <1>1, <1>9, <2>1 DEF disc_notify_cb
<1>10. CASE prov_disconn_reply
  <2>1. connection' \in Connections
    <3>1. [Zero EXCEPT !.type = "IDENTITY", !.unicast = Rx.n] \in Connections
      BY <1>1 DEF Zero, Connections, ConnTypes, Maybe
    <3> QED
      BY <1>1, <1>10, <3>1 DEF prov_disconn_reply
  <2> QED
    BY <1>1, <1>10, <2>1 DEF prov_disconn_reply
<1>11. CASE device_removed
  BY <1>1, <1>2, <1>11 DEF device_removed
<1> QED
  BY <1>3, <1>4, <1>5, <1>6, <1>7, <1>8, <1>9, <1>10, <1>11 DEF Handler

LEMMA ProgramTypes ==
  ASSUME TypeOK,
         \/ pipe_hup \/ beacon_update
         \/ \E d \in Devices : update_device_info_prov(d) \/ update_device_info_proxy(d)
         \/ \E n \in Devices, status \in {0, 1} : mesh_prov_done(n, status)
  PROVE  TypeOK'
<1> USE DEF TypeOK, net, attempts, daemon
<1>1. CASE pipe_hup
  BY <1>1 DEF pipe_hup, Maybe
<1>2. CASE beacon_update
  BY <1>2 DEF beacon_update
<1>3. ASSUME NEW d \in Devices, update_device_info_prov(d) PROVE TypeOK'
  BY <1>3 DEF update_device_info_prov
<1>4. ASSUME NEW d \in Devices, update_device_info_proxy(d) PROVE TypeOK'
  <2>1. Msg("Connect", d, None, "call") \in Msgs
    BY MsgType DEF Maybe
  <2> QED
    <3>1. calls' \in Seq(Msgs)
      BY <1>4, <2>1 DEF update_device_info_proxy
    <3> QED
      BY <1>4, <3>1 DEF update_device_info_proxy
<1>5. ASSUME NEW n \in Devices, NEW status \in {0, 1}, mesh_prov_done(n, status) PROVE TypeOK'
  <2>1. calls' \in Seq(Msgs)
    <3> DEFINE k == IF status = 0 THEN n ELSE None
    <3>1. k \in Maybe /\ calls \in Seq(Msgs) /\ connection \in Connections
      BY DEF Maybe
    <3>2. calls' = calls \o disconnect_calls(connection, k, notify_io)
      BY <1>5 DEF mesh_prov_done
    <3> HIDE DEF k
    <3>3. disconnect_calls(connection, k, notify_io) \in Seq(Msgs)
      BY ONLY <3>1, CallTypes
    <3> QED
      BY ONLY <3>1, <3>2, <3>3, Added
  <2>2. /\ node' \in [Devices -> {"none", "new", "provisioned"}] /\ prov' \in [Devices -> Maybe]
    <3>1. /\ node' = [node EXCEPT ![n] = IF status = 0 THEN "provisioned" ELSE "none"]
          /\ prov' = [prov EXCEPT ![n] = None]
      BY <1>5 DEF mesh_prov_done, node_free
    <3>2. /\ node \in [Devices -> {"none", "new", "provisioned"}] /\ prov \in [Devices -> Maybe]
      OBVIOUS
    <3> QED
      BY ONLY <3>1, <3>2, n \in Devices DEF Maybe
  <2>3. member' \subseteq Devices /\ notify_io' \in Maybe /\ notifying' \subseteq Devices
        /\ proxy_in' \in Maybe
    BY <1>5 DEF mesh_prov_done, disconnect_device, net_session_close, Maybe
  <2> QED
    BY <1>5, <2>1, <2>2, <2>3 DEF mesh_prov_done
<1> QED
  BY <1>1, <1>2, <1>3, <1>4, <1>5

\* bluetoothd's answers and reports.
LEMMA AnswerTypes ==
  ASSUME TypeOK, NEW i \in DOMAIN calls, NEW msgs \in Seq(Msgs), Answers(i, msgs)
  PROVE  /\ calls' \in Seq(Msgs) /\ bus' \in Seq(Msgs)
         /\ upset' \subseteq {"switch", "divert", "fault"}
<1>1. calls' \in Seq(Msgs)
  BY WithoutFacts DEF Answers, TypeOK
<1> QED
  BY <1>1 DEF Answers, TypeOK

LEMMA DaemonTypes ==
  ASSUME TypeOK, NEW i \in DOMAIN calls, Daemon(i) PROVE TypeOK'
<1> DEFINE c == calls[i]
<1>1. c \in Msgs /\ c.dev \in Devices
  BY MsgFields DEF TypeOK
<1>2. /\ \A how \in {"ok", "pipe", "error"} : <<Reply(c, how)>> \in Seq(Msgs)
      /\ \A what \in {"Connected", "Disconnected"} :
           /\ <<Reply(c, "ok"), Signal(what, c.dev)>> \in Seq(Msgs)
           /\ <<Signal(what, c.dev), Reply(c, "ok")>> \in Seq(Msgs)
  BY <1>1, MsgType DEF Maybe
<1>3. \E msgs \in Seq(Msgs) : Answers(i, msgs)
  BY <1>1, <1>2 DEF Daemon, ConnectDone, DisconnectDone, NotifyDone
<1>4. /\ calls' \in Seq(Msgs) /\ bus' \in Seq(Msgs)
      /\ upset' \subseteq {"switch", "divert", "fault"}
  BY <1>3, AnswerTypes
<1>5. /\ up' \subseteq Devices /\ chars' \in [Devices -> {"none", "prov", "proxy"}]
      /\ notifying' \subseteq Devices /\ invited' \subseteq Devices
  BY <1>1 DEF Daemon, ConnectDone, DisconnectDone, NotifyDone, Down, links, TypeOK
<1> QED
  BY <1>3, <1>4, <1>5 DEF Answers, TypeOK, net, attempts

LEMMA ReportTypes ==
  ASSUME TypeOK, NEW d \in Devices, ServicesResolved(d) \/ LinkLost(d) \/ Forgotten(d)
  PROVE  TypeOK'
<1>1. \A what \in {"Connected", "Disconnected", "Resolved", "Removed"} : Signal(what, d) \in Msgs
  BY MsgType DEF Maybe
<1>2. \E msg \in Msgs : Reports(msg)
  BY <1>1 DEF ServicesResolved, LinkLost, Forgotten
<1>3. bus' \in Seq(Msgs)
  BY <1>2 DEF Reports, TypeOK
<1>4. /\ up' \subseteq Devices /\ chars' \in [Devices -> {"none", "prov", "proxy"}]
      /\ notifying' \subseteq Devices /\ invited' \subseteq Devices
      /\ upset' \subseteq {"switch", "divert", "fault"}
  BY DEF ServicesResolved, LinkLost, Forgotten, Down, links, TypeOK
<1> QED
  BY <1>2, <1>3, <1>4 DEF Reports, TypeOK, net, attempts

LEMMA TypesStep == TypeOK /\ [Next]_vars => TypeOK'
<1> SUFFICES ASSUME TypeOK, [Next]_vars PROVE TypeOK'
  OBVIOUS
<1>1. CASE UNCHANGED vars
  BY <1>1 DEF vars, net, attempts, daemon, TypeOK
<1>2. CASE Next
  BY <1>2, StartTypes, HandlerTypes, ProgramTypes, DaemonTypes, ReportTypes DEF Next
<1> QED
  BY <1>1, <1>2

(* Every variable of the connections keeps its type, and every call and      *)
(* message is about some device, for any devices and whatever the world does *)
(* (the test in disconnect, and the handlers of main.c that lead to it).     *)
THEOREM TypeCorrect == Spec => []TypeOK
BY InitTypes, TypesStep, PTL DEF Spec
-----------------------------------------------------------------------------
(* Messages that are handled, sent and answered. *)

LEMMA HandledMsgs ==
  ASSUME NEW s \in Seq(Msgs), s # <<>>, OnceIn(s)
  PROVE  /\ OnceIn(Tail(s)) /\ Head(s) \in ToSet(s)
         /\ ToSet(Tail(s)) \subseteq ToSet(s) /\ ToSet(s) \subseteq ToSet(Tail(s)) \cup {Head(s)}
         /\ Token(Head(s)) => Free(Tail(s))
         /\ Free(s) => Free(Tail(s))
<1>1. /\ Tail(s) \in Seq(Msgs) /\ Head(s) = s[1] /\ 1 \in DOMAIN s
      /\ \A i \in DOMAIN Tail(s) : i \in Nat \ {0} /\ i + 1 \in DOMAIN s /\ Tail(s)[i] = s[i + 1]
      /\ \A i \in DOMAIN s : i = 1 \/ (i \in Nat /\ i > 1 /\ i - 1 \in DOMAIN Tail(s)
                                       /\ Tail(s)[i - 1] = s[i])
  BY Shifted
<1> DEFINE r == Tail(s)
           h == Head(s)
<1> HIDE DEF r, h
<1>2. /\ h = s[1] /\ 1 \in DOMAIN s
      /\ \A i \in DOMAIN r : i \in Nat \ {0} /\ i + 1 \in DOMAIN s /\ r[i] = s[i + 1]
      /\ \A i \in DOMAIN s : i = 1 \/ (i \in Nat /\ i > 1 /\ i - 1 \in DOMAIN r /\ r[i - 1] = s[i])
  BY <1>1 DEF r, h
<1>3. OnceIn(r)
  <2> SUFFICES ASSUME NEW i \in DOMAIN r, NEW j \in DOMAIN r, Token(r[i]), Token(r[j])
               PROVE  i = j
    BY DEF OnceIn
  <2>1. i + 1 = j + 1
    BY <1>2 DEF OnceIn
  <2> QED
    BY <1>2, <2>1
<1>4. h \in ToSet(s) /\ ToSet(r) \subseteq ToSet(s) /\ ToSet(s) \subseteq ToSet(r) \cup {h}
  BY <1>2 DEF ToSet
<1>5. Token(h) => Free(r)
  <2> SUFFICES ASSUME Token(h), NEW i \in DOMAIN r, Token(r[i]) PROVE FALSE
    BY DEF Free, ToSet
  <2>1. i + 1 = 1
    BY <1>2 DEF OnceIn
  <2> QED
    BY <1>2, <2>1
<1>6. Free(s) => Free(r)
  BY <1>4 DEF Free
<1> QED
  BY <1>3, <1>4, <1>5, <1>6 DEF r, h

LEMMA AddedMsgs ==
  ASSUME NEW s \in Seq(Msgs), NEW t \in Seq(Msgs)
  PROVE  /\ s \o t \in Seq(Msgs) /\ ToSet(s \o t) = ToSet(s) \cup ToSet(t)
         /\ Free(s) /\ OnceIn(t) => OnceIn(s \o t)
         /\ OnceIn(s) /\ Free(t) => OnceIn(s \o t)
<1> DEFINE u == s \o t
<1>1. /\ s \o t \in Seq(Msgs) /\ Len(s) \in Nat
      /\ \A i \in DOMAIN s : i \in 1..Len(s) /\ i \in DOMAIN (s \o t) /\ (s \o t)[i] = s[i]
      /\ \A i \in DOMAIN t : Len(s) + i \in DOMAIN (s \o t) /\ (s \o t)[Len(s) + i] = t[i]
      /\ \A i \in DOMAIN (s \o t) :
           i \in DOMAIN s \/ (i - Len(s) \in DOMAIN t /\ i > Len(s) /\ (s \o t)[i] = t[i - Len(s)])
      /\ DOMAIN (s \o t) \subseteq Nat
  BY Added
<1> HIDE DEF u
<1>2. /\ u \in Seq(Msgs) /\ Len(s) \in Nat
      /\ \A i \in DOMAIN s : i \in 1..Len(s) /\ i \in DOMAIN u /\ u[i] = s[i]
      /\ \A i \in DOMAIN t : Len(s) + i \in DOMAIN u /\ u[Len(s) + i] = t[i]
      /\ \A i \in DOMAIN u :
           i \in DOMAIN s \/ (i - Len(s) \in DOMAIN t /\ i > Len(s) /\ u[i] = t[i - Len(s)])
      /\ DOMAIN u \subseteq Nat
  BY <1>1 DEF u
<1>3. ToSet(u) = ToSet(s) \cup ToSet(t)
  BY <1>2 DEF ToSet
<1>4. Free(s) /\ OnceIn(t) => OnceIn(u)
  <2> SUFFICES ASSUME Free(s), OnceIn(t), NEW i \in DOMAIN u, NEW j \in DOMAIN u,
                      Token(u[i]), Token(u[j])
               PROVE  i = j
    BY DEF OnceIn
  <2>1. i \notin DOMAIN s /\ j \notin DOMAIN s
    BY <1>2 DEF Free, ToSet
  <2>2. i - Len(s) = j - Len(s)
    BY <1>2, <2>1 DEF OnceIn
  <2> QED
    BY <1>2, <2>2
<1>5. OnceIn(s) /\ Free(t) => OnceIn(u)
  BY <1>2 DEF OnceIn, Free, ToSet
<1> QED
  BY <1>2, <1>3, <1>4, <1>5 DEF u

LEMMA AnsweredMsgs ==
  ASSUME NEW s \in Seq(Msgs), NEW i \in DOMAIN s, OnceIn(s)
  PROVE  LET r == RemoveAt(s, i)
         IN /\ OnceIn(r) /\ s[i] \in ToSet(s)
            /\ ToSet(r) \subseteq ToSet(s) /\ ToSet(s) \subseteq ToSet(r) \cup {s[i]}
            /\ Token(s[i]) => Free(r)
            /\ Free(s) => Free(r)
<1> DEFINE r == RemoveAt(s, i)
           at(j) == IF j < i THEN j ELSE j + 1
<1>1. Without(s, i, RemoveAt(s, i)) /\ i \in 1..Len(s) /\ Len(s) \in Nat /\ DOMAIN s = 1..Len(s)
  BY WithoutFacts
<1> HIDE DEF r
<1>2. /\ DOMAIN r = 1..(Len(s) - 1) /\ \A j \in DOMAIN r : r[j] = s[at(j)]
      /\ i \in 1..Len(s) /\ Len(s) \in Nat /\ DOMAIN s = 1..Len(s)
  BY <1>1 DEF r, Without
<1>3. /\ \A j \in DOMAIN r : at(j) \in DOMAIN s /\ at(j) # i
      /\ \A j, k \in DOMAIN r : at(j) = at(k) => j = k
      /\ \A k \in DOMAIN s : k = i \/ \E j \in DOMAIN r : at(j) = k
  <2>1. /\ \A j \in DOMAIN r : at(j) \in DOMAIN s /\ at(j) # i
        /\ \A j, k \in DOMAIN r : at(j) = at(k) => j = k
    BY <1>2
  <2>2. ASSUME NEW k \in DOMAIN s, k # i PROVE \E j \in DOMAIN r : at(j) = k
    <3>1. CASE k < i
      <4>1. k \in DOMAIN r /\ at(k) = k
        BY <1>2, <3>1
      <4> QED
        BY <4>1
    <3>2. CASE ~(k < i)
      <4>1. k - 1 \in DOMAIN r /\ at(k - 1) = k
        BY <1>2, <2>2, <3>2
      <4> QED
        BY <4>1
    <3> QED
      BY <3>1, <3>2
  <2> QED
    BY <2>1, <2>2
<1> HIDE DEF at
<1>4. OnceIn(r)
  BY <1>2, <1>3 DEF OnceIn
<1>5. s[i] \in ToSet(s) /\ ToSet(r) \subseteq ToSet(s) /\ ToSet(s) \subseteq ToSet(r) \cup {s[i]}
  BY <1>2, <1>3 DEF ToSet
<1>6. Token(s[i]) => Free(r)
  <2> SUFFICES ASSUME Token(s[i]), NEW j \in DOMAIN r, Token(r[j]) PROVE FALSE
    BY DEF Free, ToSet
  <2> QED
    BY <1>2, <1>3 DEF OnceIn
<1>7. Free(s) => Free(r)
  BY <1>5 DEF Free
<1> QED
  BY <1>4, <1>5, <1>6, <1>7 DEF r

\* What a handler calls or the daemon says at once.
LEMMA FewMsgs ==
  /\ ToSet(<<>>) = {} /\ Free(<<>>) /\ OnceIn(<<>>)
  /\ \A a : ToSet(<<a>>) = {a} /\ OnceIn(<<a>>)
  /\ \A a, b : ToSet(<<a, b>>) = {a, b} /\ (~Token(a) \/ ~Token(b) => OnceIn(<<a, b>>))
<1>1. ToSet(<<>>) = {} /\ Free(<<>>) /\ OnceIn(<<>>)
  BY DEF ToSet, Free, OnceIn
<1>2. ASSUME NEW a PROVE ToSet(<<a>>) = {a} /\ OnceIn(<<a>>)
  <2>1. DOMAIN <<a>> = {1} /\ <<a>>[1] = a
    OBVIOUS
  <2> QED
    BY <2>1 DEF ToSet, OnceIn
<1>3. ASSUME NEW a, NEW b
      PROVE  ToSet(<<a, b>>) = {a, b} /\ (~Token(a) \/ ~Token(b) => OnceIn(<<a, b>>))
  <2>1. DOMAIN <<a, b>> = {1, 2} /\ <<a, b>>[1] = a /\ <<a, b>>[2] = b
    OBVIOUS
  <2> DEFINE s == <<a, b>>
  <2> HIDE DEF s
  <2>2. DOMAIN s = {1, 2} /\ s[1] = a /\ s[2] = b
    BY <2>1 DEF s
  <2>3. ToSet(s) = {a, b} /\ (~Token(a) \/ ~Token(b) => OnceIn(s))
    BY <2>2 DEF ToSet, OnceIn
  <2> QED
    BY <2>3 DEF s
<1> QED
  BY <1>1, <1>2, <1>3
-----------------------------------------------------------------------------
(* The order of messages. *)

LEMMA BusShifted ==
  ASSUME TypeOK, bus # <<>>, bus' = Tail(bus)
  PROVE  /\ Rx = bus[1] /\ 1 \in DOMAIN bus /\ Rx \in Msgs
         /\ \A i \in DOMAIN bus' : i \in Nat /\ i > 0 /\ i + 1 \in DOMAIN bus /\ bus'[i] = bus[i + 1]
         /\ \A i \in DOMAIN bus : i \in Nat /\ i > 0
         /\ \A i \in DOMAIN bus : i = 1 \/ (i > 1 /\ i - 1 \in DOMAIN bus' /\ bus'[i - 1] = bus[i])
<1>1. bus \in Seq(Msgs)
  BY DEF TypeOK
<1>2. \A i \in DOMAIN bus : i \in Nat /\ i > 0
  BY <1>1
<1> QED
  BY <1>1, <1>2, Shifted DEF Rx

LEMMA OrderTail ==
  ASSUME TypeOK, OrderInv, bus # <<>>, bus' = Tail(bus), up' = up
  PROVE  OrderInv'
<1>1. /\ \A i \in DOMAIN bus' : i \in Nat /\ i > 0 /\ i + 1 \in DOMAIN bus /\ bus'[i] = bus[i + 1]
      /\ \A i \in DOMAIN bus : i \in Nat /\ i > 0
      /\ \A i \in DOMAIN bus : i = 1 \/ (i > 1 /\ i - 1 \in DOMAIN bus' /\ bus'[i - 1] = bus[i])
  BY BusShifted
<1>2. \A i \in DOMAIN bus', j \in DOMAIN bus : i + 1 < j =>
        j - 1 \in DOMAIN bus' /\ i < j - 1 /\ bus'[j - 1] = bus[j]
  BY <1>1
<1>3. ASSUME NEW d \in Devices, NEW i \in DOMAIN bus', Raises(bus'[i], d), d \notin up'
      PROVE  \E j \in DOMAIN bus' : i < j /\ Lost(bus'[j], d)
  <2>1. PICK j \in DOMAIN bus : i + 1 < j /\ Lost(bus[j], d)
    BY <1>1, <1>3 DEF OrderInv
  <2> QED
    BY <1>2, <2>1
<1>4. ASSUME NEW d \in up', NEW i \in DOMAIN bus', Lost(bus'[i], d)
      PROVE  \E k \in DOMAIN bus' : i < k /\ Ok(bus'[k], d)
  <2>1. PICK j \in DOMAIN bus : i + 1 < j /\ Ok(bus[j], d)
    BY <1>1, <1>4 DEF OrderInv
  <2> QED
    BY <1>2, <2>1
<1>5. ASSUME NEW i \in DOMAIN bus', NEW j \in DOMAIN bus', Early(bus'[i]), j < i,
             Lost(bus'[j], bus'[i].dev)
      PROVE  \E k \in DOMAIN bus' : j < k /\ Ok(bus'[k], bus'[i].dev)
  <2>1. /\ i + 1 \in DOMAIN bus /\ j + 1 \in DOMAIN bus /\ bus'[i] = bus[i + 1]
        /\ bus'[j] = bus[j + 1] /\ j + 1 < i + 1
    BY <1>1, <1>5
  <2>2. PICK k \in DOMAIN bus : j + 1 < k /\ Ok(bus[k], bus[i + 1].dev)
    BY <1>5, <2>1 DEF OrderInv
  <2> QED
    BY <1>2, <2>1, <2>2
<1>6. ASSUME NEW i \in DOMAIN bus', NEW k \in DOMAIN bus', bus'[i].what = "Resolved",
             Early(bus'[k]) \/ bus'[k].what = "Connect"
      PROVE  k <= i
  <2>1. k + 1 <= i + 1
    BY <1>1, <1>6 DEF OrderInv
  <2> QED
    BY <1>1, <2>1
<1> QED
  BY <1>3, <1>4, <1>5, <1>6 DEF OrderInv

\* A handler leaves the connection, clears it, or makes it that of the message.
LEMMA RemovedTail ==
  ASSUME TypeOK, RemovedInv, bus # <<>>, bus' = Tail(bus),
         \/ connection'.device = connection.device /\ ~Lost(Rx, connection.device)
         \/ connection'.device = None
         \/ connection'.device = Rx.dev /\ Raises(Rx, Rx.dev)
  PROVE  RemovedInv'
<1>1. /\ Rx = bus[1] /\ 1 \in DOMAIN bus /\ Rx \in Msgs
      /\ \A i \in DOMAIN bus' : i \in Nat /\ i > 0 /\ i + 1 \in DOMAIN bus /\ bus'[i] = bus[i + 1]
      /\ \A i \in DOMAIN bus : i \in Nat /\ i > 0
      /\ \A i \in DOMAIN bus : i = 1 \/ (i > 1 /\ i - 1 \in DOMAIN bus' /\ bus'[i - 1] = bus[i])
  BY BusShifted
<1> SUFFICES ASSUME NEW i \in DOMAIN bus', bus'[i].what = "Removed"
             PROVE  /\ connection'.device = bus'[i].dev =>
                         \E j \in DOMAIN bus' : j < i /\ Lost(bus'[j], bus'[i].dev)
                    /\ \A k \in DOMAIN bus' : k < i /\ Raises(bus'[k], bus'[i].dev) =>
                         \E j \in DOMAIN bus' : k < j /\ j < i /\ Lost(bus'[j], bus'[i].dev)
  BY DEF RemovedInv
<1> DEFINE d == bus'[i].dev
<1>2. i + 1 \in DOMAIN bus /\ bus'[i] = bus[i + 1] /\ i \in Nat /\ i > 0 /\ d \in Devices
  <2>1. bus[i + 1] \in Msgs
    BY <1>1 DEF TypeOK
  <2> QED
    BY <1>1, <2>1, MsgFields
<1>3. \A k \in DOMAIN bus : k < i + 1 /\ Raises(bus[k], d) =>
        \E j \in DOMAIN bus : k < j /\ j < i + 1 /\ Lost(bus[j], d)
  BY <1>2 DEF RemovedInv
<1>4. ASSUME NEW j \in DOMAIN bus, j > 1, j < i + 1, Lost(bus[j], d)
      PROVE  j - 1 \in DOMAIN bus' /\ j - 1 < i /\ Lost(bus'[j - 1], d)
  BY <1>1, <1>2, <1>4
<1>5. ASSUME connection'.device = d PROVE \E j \in DOMAIN bus' : j < i /\ Lost(bus'[j], d)
  <2>1. CASE connection'.device = connection.device /\ ~Lost(Rx, connection.device)
    <3>1. PICK j \in DOMAIN bus : j < i + 1 /\ Lost(bus[j], d)
      BY <1>2, <1>5, <2>1 DEF RemovedInv
    <3>2. j > 1
      BY <1>1, <1>5, <2>1, <3>1
    <3> QED
      BY <1>4, <3>1, <3>2
  <2>2. CASE connection'.device = None
    BY <1>2, <1>5, <2>2, SessionAssumption
  <2>3. CASE connection'.device = Rx.dev /\ Raises(Rx, Rx.dev)
    <3>1. PICK j \in DOMAIN bus : 1 < j /\ j < i + 1 /\ Lost(bus[j], d)
      BY <1>1, <1>2, <1>3, <1>5, <2>3
    <3> QED
      BY <1>1, <1>4, <3>1
  <2> QED
    BY <2>1, <2>2, <2>3
<1>6. ASSUME NEW k \in DOMAIN bus', k < i, Raises(bus'[k], d)
      PROVE  \E j \in DOMAIN bus' : k < j /\ j < i /\ Lost(bus'[j], d)
  <2>1. k + 1 \in DOMAIN bus /\ k + 1 < i + 1 /\ Raises(bus[k + 1], d) /\ k > 0 /\ k \in Nat
    BY <1>1, <1>2, <1>6
  <2>2. PICK j \in DOMAIN bus : k + 1 < j /\ j < i + 1 /\ Lost(bus[j], d)
    BY <1>3, <2>1
  <2>3. j > 1 /\ j - 1 \in DOMAIN bus' /\ j - 1 < i /\ Lost(bus'[j - 1], d) /\ k < j - 1
    BY <1>1, <1>4, <2>1, <2>2
  <2> QED
    BY <2>3
<1> QED
  BY <1>5, <1>6

LEMMA BusAdded ==
  ASSUME TypeOK, NEW u \in Seq(Msgs), bus' = bus \o u
  PROVE  /\ Len(bus) \in Nat /\ DOMAIN bus' \subseteq Nat
         /\ \A i \in DOMAIN bus : i \in Nat /\ i <= Len(bus) /\ i \in DOMAIN bus' /\ bus'[i] = bus[i]
         /\ \A m \in ToSet(u) : \E i \in DOMAIN bus' : i > Len(bus) /\ bus'[i] = m
         /\ \A i \in DOMAIN bus' : i \in DOMAIN bus \/ (i > Len(bus) /\ bus'[i] \in ToSet(u))
         /\ DOMAIN bus' = 1..(Len(bus) + Len(u)) /\ ToSet(u) \subseteq Msgs
<1>1. bus \in Seq(Msgs)
  BY DEF TypeOK
<1>2. /\ Len(bus) \in Nat
      /\ \A i \in DOMAIN bus : i \in 1..Len(bus) /\ i \in DOMAIN bus' /\ bus'[i] = bus[i]
      /\ \A i \in DOMAIN u : Len(bus) + i \in DOMAIN bus' /\ bus'[Len(bus) + i] = u[i]
      /\ \A i \in DOMAIN bus' :
           i \in DOMAIN bus \/ (i - Len(bus) \in DOMAIN u /\ i > Len(bus) /\ bus'[i] = u[i - Len(bus)])
  BY <1>1, Added
<1>3. bus' \in Seq(Msgs)
  BY <1>1, Added
<1>4. DOMAIN bus' \subseteq Nat
  BY <1>3
<1>7. DOMAIN bus' = 1..(Len(bus) + Len(u)) /\ ToSet(u) \subseteq Msgs
  BY <1>1, <1>3, Added DEF ToSet
<1>5. \A i \in DOMAIN bus : i \in Nat /\ i <= Len(bus)
  BY <1>2
<1>6. \A m \in ToSet(u) : \E i \in DOMAIN bus' : i > Len(bus) /\ bus'[i] = m
  <2> SUFFICES ASSUME NEW k \in DOMAIN u
               PROVE  \E i \in DOMAIN bus' : i > Len(bus) /\ bus'[i] = u[k]
    BY DEF ToSet
  <2>1. Len(bus) + k > Len(bus)
    BY <1>2
  <2> QED
    BY <1>2, <2>1
<1> QED
  BY <1>2, <1>4, <1>5, <1>6, <1>7 DEF ToSet

\* bluetoothd reports every change of a link, and tells of devices with a link.
LEMMA OrderAdd ==
  ASSUME TypeOK, OrderInv, NEW u \in Seq(Msgs), bus' = bus \o u,
         \A d \in up \ up' : \E m \in ToSet(u) : Lost(m, d),
         \A d \in up' \ up : \E m \in ToSet(u) : Ok(m, d),
         \A m \in ToSet(u) : /\ \A d \in Devices : Raises(m, d) => d \in up'
                             /\ \A d \in Devices : Lost(m, d) => d \notin up'
                             /\ Early(m) => m.dev \in up',
         (\E m \in ToSet(u) : Early(m) \/ m.what = "Connect") =>
           \A m \in Told : m.what # "Resolved",
         \A m \in ToSet(u) : m.what = "Resolved" => Len(u) = 1,
         up \subseteq Devices, up' \subseteq Devices
  PROVE  OrderInv'
<1>1. /\ Len(bus) \in Nat /\ DOMAIN bus' \subseteq Nat
      /\ \A i \in DOMAIN bus : i \in Nat /\ i <= Len(bus) /\ i \in DOMAIN bus' /\ bus'[i] = bus[i]
      /\ \A m \in ToSet(u) : \E i \in DOMAIN bus' : i > Len(bus) /\ bus'[i] = m
      /\ \A i \in DOMAIN bus' : i \in DOMAIN bus \/ (i > Len(bus) /\ bus'[i] \in ToSet(u))
  BY BusAdded
<1>2. ASSUME NEW d \in Devices, NEW i \in DOMAIN bus', Raises(bus'[i], d), d \notin up'
      PROVE  \E j \in DOMAIN bus' : i < j /\ Lost(bus'[j], d)
  <2>1. i \in DOMAIN bus /\ bus'[i] = bus[i]
    BY <1>1, <1>2
  <2>2. CASE d \in up
    <3>1. PICK m \in ToSet(u) : Lost(m, d)
      BY <1>2, <2>2
    <3>2. PICK j \in DOMAIN bus' : j > Len(bus) /\ bus'[j] = m
      BY <1>1
    <3>3. i < j
      BY <1>1, <2>1, <3>2
    <3> QED
      BY <3>1, <3>2, <3>3
  <2>3. CASE d \notin up
    <3>1. PICK j \in DOMAIN bus : i < j /\ Lost(bus[j], d)
      BY <1>2, <2>1, <2>3 DEF OrderInv
    <3> QED
      BY <1>1, <3>1
  <2> QED
    BY <2>2, <2>3
<1>3. ASSUME NEW d \in up', NEW i \in DOMAIN bus', Lost(bus'[i], d)
      PROVE  \E k \in DOMAIN bus' : i < k /\ Ok(bus'[k], d)
  <2>1. i \in DOMAIN bus /\ bus'[i] = bus[i] /\ d \in Devices
    BY <1>1, <1>3
  <2>2. CASE d \in up
    <3>1. PICK j \in DOMAIN bus : i < j /\ Ok(bus[j], d)
      BY <1>3, <2>1, <2>2 DEF OrderInv
    <3> QED
      BY <1>1, <3>1
  <2>3. CASE d \notin up
    <3>1. PICK m \in ToSet(u) : Ok(m, d)
      BY <2>3
    <3>2. PICK j \in DOMAIN bus' : j > Len(bus) /\ bus'[j] = m
      BY <1>1
    <3>3. i < j
      BY <1>1, <2>1, <3>2
    <3> QED
      BY <3>1, <3>2, <3>3
  <2> QED
    BY <2>2, <2>3
<1>4. ASSUME NEW i \in DOMAIN bus', NEW j \in DOMAIN bus', Early(bus'[i]), j < i,
             Lost(bus'[j], bus'[i].dev)
      PROVE  \E k \in DOMAIN bus' : j < k /\ Ok(bus'[k], bus'[i].dev)
  <2>1. CASE i \in DOMAIN bus
    <3>1. j \in DOMAIN bus
      BY <1>1, <1>4, <2>1
    <3>2. bus'[i] = bus[i] /\ bus'[j] = bus[j]
      BY <1>1, <2>1, <3>1
    <3>3. PICK k \in DOMAIN bus : j < k /\ Ok(bus[k], bus[i].dev)
      BY <1>4, <2>1, <3>1, <3>2 DEF OrderInv
    <3> QED
      BY <1>1, <3>2, <3>3
  <2>2. CASE i \notin DOMAIN bus
    BY <1>1, <1>3, <1>4, <2>2
  <2> QED
    BY <2>1, <2>2
<1>5. ASSUME NEW i \in DOMAIN bus', NEW k \in DOMAIN bus', bus'[i].what = "Resolved",
             Early(bus'[k]) \/ bus'[k].what = "Connect"
      PROVE  k <= i
  <2>1. CASE i \in DOMAIN bus
    <3>1. bus'[i] = bus[i] /\ bus[i] \in Told
      BY <1>1, <2>1 DEF Told, ToSet
    <3>2. k \in DOMAIN bus /\ bus'[k] = bus[k]
      BY <1>1, <1>5, <3>1
    <3> QED
      BY <1>5, <2>1, <3>1, <3>2 DEF OrderInv
  <2>2. CASE i \notin DOMAIN bus
    <3>1. bus'[i] \in ToSet(u) /\ i > Len(bus)
      BY <1>1, <2>2
    <3>2. Len(u) = 1
      BY <1>5, <3>1
    <3>3. DOMAIN bus' = 1..(Len(bus) + 1)
      BY <3>2, BusAdded
    <3> QED
      BY <1>1, <3>1, <3>3
  <2> QED
    BY <2>1, <2>2
<1> QED
  BY <1>2, <1>3, <1>4, <1>5 DEF OrderInv

LEMMA RemovedAdd ==
  ASSUME TypeOK, RemovedInv, OrderInv, ConnInv, NEW u \in Seq(Msgs), bus' = bus \o u,
         connection' = connection,
         \A m \in ToSet(u) : m.what = "Removed" => m.dev \notin up /\ Len(u) = 1
  PROVE  RemovedInv'
<1>1. /\ Len(bus) \in Nat /\ DOMAIN bus' \subseteq Nat
      /\ \A i \in DOMAIN bus : i \in Nat /\ i <= Len(bus) /\ i \in DOMAIN bus' /\ bus'[i] = bus[i]
      /\ \A m \in ToSet(u) : \E i \in DOMAIN bus' : i > Len(bus) /\ bus'[i] = m
      /\ \A i \in DOMAIN bus' : i \in DOMAIN bus \/ (i > Len(bus) /\ bus'[i] \in ToSet(u))
  BY BusAdded
<1> SUFFICES ASSUME NEW i \in DOMAIN bus', bus'[i].what = "Removed"
             PROVE  /\ connection.device = bus'[i].dev =>
                         \E j \in DOMAIN bus' : j < i /\ Lost(bus'[j], bus'[i].dev)
                    /\ \A k \in DOMAIN bus' : k < i /\ Raises(bus'[k], bus'[i].dev) =>
                         \E j \in DOMAIN bus' : k < j /\ j < i /\ Lost(bus'[j], bus'[i].dev)
  BY DEF RemovedInv
<1>2. CASE i \in DOMAIN bus
  <2>1. bus'[i] = bus[i] /\ \A k \in DOMAIN bus' : k < i => k \in DOMAIN bus
    BY <1>1, <1>2
  <2> QED
    BY <1>1, <1>2, <2>1 DEF RemovedInv
<1>3. CASE i \notin DOMAIN bus
  <2>1. bus'[i] \in ToSet(u) /\ i > Len(bus)
    BY <1>1, <1>3
  <2>2. Len(u) = 1 /\ bus'[i].dev \notin up
    BY <2>1
  <2>3. DOMAIN bus' = 1..(Len(bus) + 1) /\ bus'[i] \in Msgs
    BY <2>1, <2>2, BusAdded
  <2> DEFINE d == bus'[i].dev
  <2>4. d \in Devices /\ d # None
    BY <2>3, MsgFields, SessionAssumption
  <2>5. \A k \in DOMAIN bus' : k < i => k \in DOMAIN bus /\ bus'[k] = bus[k]
    BY <1>1, <2>1, <2>3 DEF TypeOK
  <2>6. \A j \in DOMAIN bus : j \in DOMAIN bus' /\ j < i /\ bus'[j] = bus[j]
    BY <1>1, <2>1
  <2>7. ASSUME connection.device = d PROVE \E j \in DOMAIN bus' : j < i /\ Lost(bus'[j], d)
    <3>1. \E m \in Told : Lost(m, d)
      BY <2>2, <2>4, <2>7 DEF ConnInv
    <3> QED
      BY <2>6, <3>1 DEF Told, ToSet
  <2>8. ASSUME NEW k \in DOMAIN bus', k < i, Raises(bus'[k], d)
        PROVE  \E j \in DOMAIN bus' : k < j /\ j < i /\ Lost(bus'[j], d)
    <3>1. \E j \in DOMAIN bus : k < j /\ Lost(bus[j], d)
      BY <2>2, <2>4, <2>5, <2>8 DEF OrderInv
    <3> QED
      BY <2>6, <3>1
  <2> QED
    BY <2>7, <2>8
<1> QED
  BY <1>2, <1>3
-----------------------------------------------------------------------------
(* Handlers. *)

LEMMA HandleFacts ==
  ASSUME SInv, bus # <<>>, bus' = Tail(bus)
  PROVE  /\ Rx \in Told /\ Rx \in Msgs /\ Rx.dev \in Devices /\ Rx.n \in Maybe /\ Rx.dev # None
         /\ Told' \subseteq Told /\ Told \subseteq Told' \cup {Rx}
         /\ OnceIn(bus') /\ (Free(bus) => Free(bus'))
         /\ Token(Rx) => Free(bus') /\ Free(calls)
<1>1. TypeOK /\ OneToken /\ bus \in Seq(Msgs) /\ OnceIn(bus)
  BY DEF SInv, TypeOK, OneToken
<1>2. Rx \in Told /\ Told' \subseteq Told /\ Told \subseteq Told' \cup {Rx}
  BY <1>1, HandledMsgs DEF Told, Rx
<1>3. OnceIn(bus') /\ (Free(bus) => Free(bus')) /\ (Token(Rx) => Free(bus'))
  BY <1>1, HandledMsgs DEF Rx
<1>4. Token(Rx) => Free(calls)
  BY <1>1, <1>2 DEF OneToken, Free, Told
<1> QED
  BY <1>1, <1>2, <1>3, <1>4, RxType, SessionAssumption

\* A message that changes nothing, or makes the program disconnect a device.
LEMMA DropStep ==
  ASSUME SInv, TypeOK', bus # <<>>, bus' = Tail(bus),
         NEW t \in Seq(Msgs), calls' = calls \o t,
         \A m \in ToSet(t) : ~Token(m) /\ m.what = "Disconnect",
         UNCHANGED <<connection, proxy_in, discover_mesh, node, prov, up, chars, notifying,
                     invited, member, upset>>,
         Rx.what # "Connect", ~Lost(Rx, connection.device)
  PROVE  SInv'
<1>1. /\ Rx \in Told /\ Rx \in Msgs /\ Rx.dev \in Devices /\ Rx.n \in Maybe
      /\ Told' \subseteq Told /\ Told \subseteq Told' \cup {Rx}
      /\ OnceIn(bus') /\ (Free(bus) => Free(bus'))
  BY HandleFacts
<1>2. calls \in Seq(Msgs) /\ OnceIn(calls) /\ Free(t)
  BY DEF SInv, TypeOK, OneToken, Free
<1>3. /\ Called' = Called \cup ToSet(t) /\ OnceIn(calls')
      /\ Free(calls) => Free(calls')
  BY <1>2, AddedMsgs DEF Called, Free
<1>4. OneToken'
  BY <1>1, <1>3 DEF SInv, OneToken
<1>5. Joining' => Joining
  BY <1>1 DEF Joining, Fresh
<1>6. StageInv'
  BY <1>1, <1>3, <1>5 DEF SInv, StageInv, Working, Opened, Looking
<1>7. OrderInv' /\ RemovedInv'
  BY OrderTail, RemovedTail DEF SInv
<1>8. \A d \in Devices : Owner(d) => Owner(d)'
  BY <1>1 DEF Owner, Ok
<1>9. JoinInv'
  <2>1. \A d \in Devices : Fresh(d)' => Fresh(d)
    BY DEF Fresh
  <2>2. \A m \in Told : m.dev \in Devices
    BY MsgFields DEF SInv, TypeOK, Told, ToSet
  <2> QED
    BY <1>1, <1>8, <2>1, <2>2 DEF SInv, JoinInv
<1>10. ConnInv'
  BY <1>1, <1>3 DEF SInv, ConnInv, Lost, Opened, Dialled
<1>11. DevInv'
  BY <1>1 DEF SInv, DevInv, Ok
<1>12. DialInv'
  BY <1>1, <1>3 DEF SInv, DialInv
<1>13. SubInv'
  BY <1>1, <1>3 DEF SInv, SubInv, Lost, Subscribes
<1>14. WorkInv'
  BY <1>1 DEF SInv, WorkInv, Lost, Opened
<1>15. EndInv' /\ LookInv'
  BY <1>1, <1>3 DEF SInv, EndInv, Ends, Token, LookInv, Looking
<1>16. StopInv'
  <2>1. \A d \in Devices : Subject(d)' => Subject(d)
    BY <1>1, <1>3 DEF Subject, Fresh, Looking
  <2>2. \A m \in Called : m.dev \in Devices
    BY MsgFields DEF SInv, TypeOK, Called, ToSet
  <2> QED
    BY <1>3, <2>1, <2>2 DEF SInv, StopInv
<1>17. Chosen'
  BY DEF SInv, Chosen
<1> QED
  BY <1>4, <1>6, <1>7, <1>9, <1>10, <1>11, <1>12, <1>13, <1>14, <1>15, <1>16, <1>17 DEF SInv

\* Two tokens are one, and the parts of the invariant that say nothing without one.
LEMMA TokenUnique ==
  ASSUME OneToken
  PROVE  /\ \A m, k \in Told : Token(m) /\ Token(k) => m = k
         /\ \A m, k \in Called : Token(m) /\ Token(k) => m = k
         /\ \A m \in Called, k \in Told : ~(Token(m) /\ Token(k))
BY DEF OneToken, OnceIn, Free, Called, Told, ToSet

LEMMA NoTokenParts ==
  ASSUME Free(calls), Free(bus)
  PROVE  OneToken /\ DialInv /\ SubInv /\ EndInv
<1>1. \A m \in Called \cup Told : ~Token(m)
  BY DEF Free, Called, Told
<1>2. OneToken
  BY DEF OneToken, Free, OnceIn, ToSet
<1> QED
  BY <1>1, <1>2 DEF DialInv, SubInv, EndInv, Subscribes, Ends, Token

LEMMA Idle ==
  ASSUME SInv
  PROVE  /\ ~Working => invited = {} /\ proxy_in = None
         /\ \A m \in Called \cup Told : Token(m) => ~Working /\ ~Looking
         /\ \A m \in Called \cup Told : m \in Msgs /\ m.dev \in Devices
BY MsgFields DEF SInv, TypeOK, Working, WorkInv, StageInv, Free, Called, Told, ToSet

LEMMA ConnectReplyStep ==
  ASSUME SInv, TypeOK', connect_reply
  PROVE  SInv'
<1>1. /\ bus # <<>> /\ bus' = Tail(bus) /\ Rx.what = "Connect"
      /\ UNCHANGED <<proxy_in, discover_mesh, node, prov, calls, up, chars, notifying,
                     invited, member, upset>>
  BY DEF connect_reply, Handles, net, attempts, daemon
<1>2. /\ Rx \in Told /\ Rx \in Msgs /\ Rx.dev \in Devices /\ Rx.dev # None
      /\ Told' \subseteq Told /\ Told \subseteq Told' \cup {Rx}
      /\ Free(bus') /\ Free(calls) /\ Token(Rx)
  BY <1>1, HandleFacts DEF Token
<1>3. ~Working /\ ~Looking /\ invited = {} /\ proxy_in = None
  BY <1>2, Idle
<1>4. Free(calls') /\ Called' = Called
  BY <1>1, <1>2 DEF Called
<1>5. OneToken' /\ DialInv' /\ SubInv' /\ EndInv'
  <2>1. (Free(calls) /\ Free(bus))' => (OneToken /\ DialInv /\ SubInv /\ EndInv)'
    BY NoTokenParts, PTL
  <2> QED
    BY <1>2, <1>4, <2>1
<1>6. OrderInv' /\ Chosen'
  BY <1>1, OrderTail DEF SInv, Chosen
<1>7. \A m \in Told' : ~Token(m) /\ m.what # "Connect"
  BY <1>2 DEF Free, Told, Token
<1>8. Joining' => Joining
  BY <1>1, <1>2 DEF Joining, Fresh
<1>9. CASE Rx.how = "error"
  <2>1. /\ connection'.device = None /\ connection'.data_in = None /\ connection'.data_out = None
        /\ ~connection'.session_open /\ connection'.type = "INVALID"
    BY <1>9 DEF connect_reply, Zero
  <2>2. ~Joining
    BY <1>2, <1>9 DEF SInv, StageInv, Ok
  <2>3. ~Working' /\ ~Looking' /\ ~Joining' /\ ~Opened'
    BY <1>1, <1>3, <1>8, <2>1, <2>2 DEF Working, Opened, Looking
  <2>4. RemovedInv'
    BY <1>1, <2>1, RemovedTail DEF SInv
  <2>5. StageInv' /\ LookInv' /\ JoinInv'
    BY <2>3 DEF StageInv, LookInv, JoinInv, Joining
  <2>6. ConnInv'
    BY <2>1, <2>3 DEF ConnInv
  <2>7. DevInv'
    <3>1. ASSUME NEW d \in up, d \notin member \/ "switch" \notin upset PROVE FALSE
      <4>1. connection.device = d \/ \E m \in Told : Ok(m, d)
        BY <3>1 DEF SInv, DevInv
      <4>2. ~ \E m \in Told : Ok(m, d)
        BY <1>2, <1>7, <1>9 DEF Ok
      <4>3. d # None
        BY SessionAssumption DEF SInv, TypeOK
      <4> QED
        BY <1>1, <1>2, <1>9, <3>1, <4>1, <4>2, <4>3 DEF SInv, DialInv
    <3> QED
      BY <1>1, <3>1 DEF SInv, DevInv
  <2>8. WorkInv'
    BY <1>1, <1>3 DEF WorkInv
  <2>9. StopInv'
    BY <1>1, <1>2, <1>3, <1>4, <2>3 DEF SInv, StopInv, Subject, Joining, Fresh
  <2> QED
    BY <1>5, <1>6, <2>4, <2>5, <2>6, <2>7, <2>8, <2>9 DEF SInv
<1>10. CASE Rx.how # "error"
  <2>0. connection' = [connection EXCEPT !.device = Rx.dev] /\ connection \in Connections
    BY <1>10 DEF connect_reply, SInv, TypeOK
  <2>1. /\ connection'.device = Rx.dev /\ connection'.data_in = connection.data_in
        /\ connection'.data_out = connection.data_out
        /\ connection'.session_open = connection.session_open
        /\ connection'.type = connection.type /\ connection'.dev_uuid = connection.dev_uuid
        /\ connection'.unicast = connection.unicast
    BY <2>0 DEF Connections
  <2>2. Ok(Rx, Rx.dev)
    BY <1>1, <1>2, <1>10 DEF SInv, DialInv, Ok
  <2>3. ~Working' /\ ~Looking' /\ ~Opened' /\ ~Opened
    BY <1>1, <1>3, <2>1 DEF Working, Opened, Looking
  <2>4. RemovedInv'
    BY <1>1, <2>1, <2>2, RemovedTail DEF SInv, Raises
  <2>5. StageInv' /\ LookInv'
    BY <1>2, <1>4, <1>7, <2>3 DEF StageInv, LookInv
  <2>6. \A d \in Devices : Owner(d) => Owner(d)'
    <3> SUFFICES ASSUME NEW d \in Devices, Owner(d) PROVE Owner(d)'
      OBVIOUS
    <3>1. \E m \in Told : Ok(m, d)
      BY <1>1, <1>2 DEF Owner
    <3>2. d = Rx.dev
      BY <1>2, <1>7, <3>1 DEF Ok
    <3> QED
      BY <1>7, <2>1, <3>2 DEF Owner
  <2>7. JoinInv'
    BY <1>1, <1>2, <2>6, Idle DEF SInv, JoinInv, Fresh
  <2>8. ConnInv'
    <3>1. Rx.dev \in up \/ \E j \in DOMAIN bus : 1 < j /\ Lost(bus[j], Rx.dev)
      BY <1>1, <1>2, <2>2, BusShifted DEF SInv, OrderInv, Raises
    <3>2. Rx.dev \in up \/ \E m \in Told' : Lost(m, Rx.dev)
      BY <1>1, <1>2, <3>1 DEF Lost, Told, ToSet
    <3>3. ~(connection.session_open /\ "switch" \notin upset)
      BY <1>3 DEF SInv, ConnInv
    <3>4. connection.type = "PROVISION" => connection.dev_uuid = Rx.dev
      BY <1>1, <1>2 DEF SInv, DialInv
    <3> QED
      BY <1>1, <1>2, <2>1, <2>3, <3>2, <3>3, <3>4 DEF ConnInv
  <2>9. DevInv'
    <3>1. ASSUME NEW d \in up, d \notin member \/ "switch" \notin upset PROVE d = Rx.dev
      <4>1. connection.device = d \/ \E m \in Told : Ok(m, d)
        BY <3>1 DEF SInv, DevInv
      <4>2. \A m \in Told : Ok(m, d) => d = Rx.dev
        BY <1>2, <1>7 DEF Ok
      <4>3. d # None
        BY SessionAssumption DEF SInv, TypeOK
      <4> QED
        BY <1>1, <1>2, <3>1, <4>1, <4>2, <4>3 DEF SInv, DialInv
    <3> QED
      BY <1>1, <2>1, <3>1 DEF SInv, DevInv
  <2>10. WorkInv'
    BY <1>1, <1>3 DEF WorkInv
  <2>11. StopInv'
    <3>1. \A d \in Devices : Subject(d)' => Subject(d)
      BY <1>1, <1>2, <1>4, <2>3 DEF Subject, Fresh
    <3> QED
      BY <1>4, <3>1, Idle DEF SInv, StopInv
  <2> QED
    BY <1>5, <1>6, <2>4, <2>5, <2>7, <2>8, <2>9, <2>10, <2>11 DEF SInv
<1> QED
  BY <1>9, <1>10

LEMMA ConnectedStep ==
  ASSUME SInv, TypeOK', property_changed_Connected
  PROVE  SInv'
<1>1. /\ bus # <<>> /\ bus' = Tail(bus) /\ Rx.what = "Connected"
      /\ UNCHANGED <<proxy_in, discover_mesh, node, prov, calls, up, chars, notifying,
                     invited, member, upset>>
  BY DEF property_changed_Connected, Handles, net, attempts, daemon
<1>2. /\ Rx \in Told /\ Rx \in Msgs /\ Rx.dev \in Devices /\ Rx.dev # None
      /\ Told' \subseteq Told /\ Told \subseteq Told' \cup {Rx}
      /\ OnceIn(bus') /\ (Free(bus) => Free(bus'))
  BY <1>1, HandleFacts
<1>3. CASE connection.device # None
  <2>1. connection' = connection /\ calls' = calls \o <<>> /\ <<>> \in Seq(Msgs) /\ ToSet(<<>>) = {}
    BY <1>1, <1>3, FewMsgs DEF property_changed_Connected, SInv, TypeOK
  <2>2. Rx.what # "Connect" /\ ~Lost(Rx, connection.device)
    BY <1>1 DEF Lost
  <2> QED
    BY <1>1, <2>1, <2>2, DropStep
<1>4. CASE connection.device = None
  <2>0. connection' = [connection EXCEPT !.device = Rx.dev] /\ connection \in Connections
    BY <1>4 DEF property_changed_Connected, SInv, TypeOK
  <2>1. /\ connection'.device = Rx.dev /\ connection'.data_in = connection.data_in
        /\ connection'.data_out = connection.data_out
        /\ connection'.session_open = connection.session_open
        /\ connection'.type = connection.type /\ connection'.dev_uuid = connection.dev_uuid
        /\ connection'.unicast = connection.unicast
    BY <2>0 DEF Connections
  <2>2. Joining /\ Early(Rx)
    BY <1>1, <1>2 DEF Joining, Early
  <2>3. PICK r \in Told : Ok(r, Rx.dev)
    BY <1>2, <1>4, <2>2 DEF SInv, JoinInv, Owner
  <2>4. r \in Told' /\ Token(r)
    BY <1>1, <1>2, <2>3 DEF Ok, Token
  <2>5. \A m \in Called \cup Told : Token(m) => m = r
    BY <2>2, <2>4, <1>2, TokenUnique DEF SInv, StageInv, Free, Called
  <2>6. ~Working /\ ~Looking /\ invited = {} /\ proxy_in = None /\ ~Opened
    BY <2>2, Idle DEF SInv, StageInv, Working
  <2>7. ~Working' /\ ~Looking' /\ ~Opened'
    BY <1>1, <2>1, <2>6 DEF Working, Opened, Looking
  <2>8. Called' = Called /\ Free(calls) /\ Free(calls') /\ OneToken'
    BY <1>1, <1>2, <2>2 DEF Called, SInv, StageInv, OneToken
  <2>9. StageInv' /\ LookInv'
    BY <1>2, <2>2, <2>7, <2>8 DEF SInv, StageInv, LookInv
  <2>10. OrderInv' /\ Chosen'
    BY <1>1, OrderTail DEF SInv, Chosen
  <2>11. RemovedInv'
    BY <1>1, <2>1, RemovedTail DEF SInv, Raises
  <2>12. \A d \in Devices : Owner(d) => Owner(d)'
    BY <1>1, <1>2, <1>4, SessionAssumption DEF Owner, Ok
  <2>13. JoinInv'
    BY <1>1, <1>2, <2>12, Idle DEF SInv, JoinInv, Fresh
  <2>14. ConnInv'
    <3>1. Rx.dev \in up \/ \E j \in DOMAIN bus : 1 < j /\ Lost(bus[j], Rx.dev)
      BY <1>1, <1>2, BusShifted DEF SInv, OrderInv, Raises
    <3>2. Rx.dev \in up \/ \E m \in Told' : Lost(m, Rx.dev)
      BY <1>1, <1>2, <3>1 DEF Lost, Told, ToSet
    <3>3. ~connection.session_open
      BY <1>4 DEF SInv, ConnInv
    <3>4. Dialled'
      BY <2>3, <2>4 DEF Dialled, Ok
    <3> QED
      BY <1>1, <1>2, <2>1, <2>7, <3>2, <3>3, <3>4 DEF ConnInv
  <2>15. DevInv'
    BY <1>1, <1>2, <1>4, SessionAssumption DEF SInv, TypeOK, DevInv, Ok
  <2>16. DialInv'
    BY <1>1, <1>2, <1>4, <2>1, <2>3, <2>5, <2>8 DEF SInv, DialInv, Ok, Token
  <2>17. SubInv' /\ EndInv'
    BY <1>2, <2>3, <2>5, <2>8 DEF SubInv, EndInv, Subscribes, Ends, Ok, Token
  <2>18. WorkInv'
    BY <1>1, <2>6 DEF WorkInv
  <2>19. StopInv'
    <3>1. \A d \in Devices : Subject(d)' => Subject(d)
      BY <1>1, <1>2, <2>7, <2>8 DEF Subject, Fresh
    <3> QED
      BY <2>8, <3>1, Idle DEF SInv, StopInv
  <2> QED
    BY <2>8, <2>9, <2>10, <2>11, <2>13, <2>14, <2>15, <2>16, <2>17, <2>18, <2>19 DEF SInv
<1> QED
  BY <1>3, <1>4

LEMMA DisconnectedStep ==
  ASSUME SInv, TypeOK', property_changed_Disconnected
  PROVE  SInv'
<1>1. /\ bus # <<>> /\ bus' = Tail(bus) /\ Rx.what = "Disconnected"
      /\ UNCHANGED <<discover_mesh, node, prov, calls, up, chars, notifying,
                     invited, member, upset>>
  BY DEF property_changed_Disconnected, Handles, net, attempts, daemon
<1>2. /\ Rx \in Told /\ Rx \in Msgs /\ Rx.dev \in Devices /\ Rx.dev # None
      /\ Told' \subseteq Told /\ Told \subseteq Told' \cup {Rx}
      /\ OnceIn(bus') /\ (Free(bus) => Free(bus'))
  BY <1>1, HandleFacts
<1>3. CASE connection.device # Rx.dev
  <2>1. connection' = connection /\ calls' = calls \o <<>> /\ <<>> \in Seq(Msgs) /\ ToSet(<<>>) = {}
        /\ proxy_in' = proxy_in
    BY <1>1, <1>3, FewMsgs DEF property_changed_Disconnected, SInv, TypeOK
  <2>2. Rx.what # "Connect" /\ ~Lost(Rx, connection.device)
    BY <1>1, <1>3 DEF Lost
  <2> QED
    BY <1>1, <2>1, <2>2, DropStep
<1>4. CASE connection.device = Rx.dev
  <2>1. /\ connection'.device = None /\ connection'.data_in = None /\ connection'.data_out = None
        /\ ~connection'.session_open /\ connection'.type = "INVALID"
    BY <1>4 DEF property_changed_Disconnected, Zero
  <2>2. Rx.dev \in up => \E m \in Told : Ok(m, Rx.dev)
    <3>1. Lost(bus[1], Rx.dev) /\ 1 \in DOMAIN bus
      BY <1>1, BusShifted DEF SInv, Lost
    <3> QED
      BY <3>1 DEF SInv, OrderInv, Told, ToSet
  <2>3. proxy_in' = None
    BY <1>4 DEF property_changed_Disconnected, net_session_close, SInv, WorkInv
  <2>4. invited = {}
    <3> SUFFICES ASSUME invited # {} PROVE FALSE
      OBVIOUS
    <3>1. Rx.dev \in up /\ Free(bus)
      BY <1>4 DEF SInv, WorkInv, StageInv, Working
    <3> QED
      BY <2>2, <3>1 DEF Free, Told, Ok, Token
  <2>5. ~Working' /\ ~Opened' /\ ~Looking'
    BY <1>1, <2>1, <2>4 DEF Working, Opened, Looking
  <2>6. Joining' => Joining
    BY <1>1, <1>2 DEF Joining, Fresh
  <2>7. OneToken' /\ Called' = Called
    BY <1>1, <1>2 DEF SInv, OneToken, Called
  <2>8. StageInv' /\ LookInv'
    BY <1>1, <1>2, <2>5, <2>6, <2>7 DEF SInv, StageInv, LookInv
  <2>9. OrderInv' /\ Chosen'
    BY <1>1, OrderTail DEF SInv, Chosen
  <2>10. RemovedInv'
    BY <1>1, <2>1, RemovedTail DEF SInv
  <2>11. \A d \in Devices : (\E m \in Told : Ok(m, d)) => Owner(d)'
    BY <1>1, <1>2 DEF Owner, Ok
  <2>12. JoinInv'
    <3>1. ASSUME NEW d \in Devices, Fresh(d)'
          PROVE  Owner(d)' /\ \A m \in Told' : m.what # "Resolved"
      <4>1. Fresh(d) /\ d \in up
        BY <1>1, <3>1 DEF Fresh
      <4>2. Owner(d) /\ \A m \in Told : m.what # "Resolved"
        BY <4>1 DEF SInv, JoinInv
      <4>3. \E m \in Told : Ok(m, d)
        BY <1>4, <2>2, <4>1, <4>2 DEF Owner
      <4> QED
        BY <1>2, <2>11, <4>2, <4>3
    <3>2. ASSUME NEW m \in Told', Early(m) PROVE Owner(m.dev)'
      <4>1. m \in Told /\ m.dev \in Devices
        BY <1>2, Idle
      <4>2. Owner(m.dev)
        BY <3>2, <4>1 DEF SInv, JoinInv
      <4>3. CASE m.dev = Rx.dev
        <5>1. PICK i \in DOMAIN bus' : bus'[i] = m
          BY DEF Told, ToSet
        <5>2. i + 1 \in DOMAIN bus /\ bus[i + 1] = m /\ 1 < i + 1 /\ 1 \in DOMAIN bus /\ bus[1] = Rx
          BY <1>1, <5>1, BusShifted DEF SInv
        <5>3. \E k \in DOMAIN bus : 1 < k /\ Ok(bus[k], m.dev)
          BY <1>1, <3>2, <4>3, <5>2 DEF SInv, OrderInv, Lost
        <5>4. \E k \in Told : Ok(k, m.dev)
          BY <5>3 DEF Told, ToSet
        <5> QED
          BY <2>11, <4>1, <5>4
      <4>4. CASE m.dev # Rx.dev
        BY <1>4, <2>11, <4>1, <4>2, <4>4 DEF Owner
      <4> QED
        BY <4>3, <4>4
    <3> QED
      BY <3>1, <3>2 DEF JoinInv
  <2>13. ConnInv'
    BY <2>1, <2>5 DEF ConnInv
  <2>14. DevInv'
    <3>1. ASSUME NEW d \in up, d \notin member \/ "switch" \notin upset
          PROVE  \E m \in Told' : Ok(m, d)
      <4>1. \E m \in Told : Ok(m, d)
        BY <1>4, <2>2, <3>1 DEF SInv, DevInv
      <4> QED
        BY <1>1, <1>2, <4>1 DEF Ok
    <3> QED
      BY <1>1, <3>1 DEF SInv, DevInv
  <2>15. DialInv'
    <3>1. \A m \in Called \cup Told : m.dev # None
      BY Idle, SessionAssumption
    <3> QED
      BY <1>1, <1>2, <2>1, <2>7, <3>1 DEF SInv, DialInv
  <2>16. SubInv' /\ EndInv'
    BY <1>1, <1>2, <2>1, <2>7 DEF SInv, SubInv, EndInv, Subscribes, Ends
  <2>17. WorkInv'
    BY <1>1, <2>3, <2>4 DEF WorkInv
  <2>18. StopInv'
    <3>1. \A d \in Devices : Subject(d)' => Subject(d)
      BY <1>1, <1>2, <2>3, <2>5, <2>7, SessionAssumption DEF Subject, Fresh
    <3> QED
      BY <2>7, <3>1, Idle DEF SInv, StopInv
  <2> QED
    BY <2>7, <2>8, <2>9, <2>10, <2>12, <2>13, <2>14, <2>15, <2>16, <2>17, <2>18 DEF SInv
<1> QED
  BY <1>3, <1>4

\* Services are resolved on the connected device, and nothing else is under way.
LEMMA ResolvedFacts ==
  ASSUME SInv, bus # <<>>, bus' = Tail(bus), Rx.what = "Resolved", up' = up, chars' = chars
  PROVE  /\ connection.device = Rx.dev /\ Free(calls) /\ Free(bus) /\ ~Joining'
         /\ ~Working /\ ~Looking /\ ~Opened /\ invited = {} /\ proxy_in = None
         /\ connection.type = "PROVISION" => connection.dev_uuid = Rx.dev
<1>1. /\ Rx \in Told /\ Rx.dev \in Devices /\ Rx.dev # None
      /\ Told' \subseteq Told /\ Told \subseteq Told' \cup {Rx}
  BY HandleFacts
<1>2. Joining /\ Early(Rx)
  BY <1>1 DEF Joining, Early
<1>3. /\ Rx = bus[1] /\ 1 \in DOMAIN bus
      /\ \A i \in DOMAIN bus : i \in Nat /\ i > 0
      /\ \A i \in DOMAIN bus' : i \in Nat /\ i > 0 /\ i + 1 \in DOMAIN bus /\ bus'[i] = bus[i + 1]
  BY BusShifted DEF SInv
<1>4. \A k \in DOMAIN bus : Early(bus[k]) \/ bus[k].what = "Connect" => k = 1
  BY <1>3 DEF SInv, OrderInv
<1>5. \A m \in Told : m.what # "Connect"
  BY <1>3, <1>4 DEF Told, ToSet
<1>6. \A m \in Told' : ~Early(m)
  BY <1>3, <1>4 DEF Told, ToSet
<1>7. ~Joining'
  BY <1>1, <1>6 DEF SInv, JoinInv, Joining, Fresh
<1>8. Free(calls) /\ Free(bus)
  BY <1>2, <1>5 DEF SInv, StageInv, Ok, Free, Told
<1>9. connection.device = Rx.dev
  BY <1>1, <1>2, <1>5 DEF SInv, JoinInv, Owner, Ok
<1>10. ~Working /\ ~Looking /\ ~Opened /\ invited = {} /\ proxy_in = None
  BY <1>2, Idle DEF SInv, StageInv, Working
<1>11. ~Dialled
  BY <1>5, <1>8 DEF Dialled, Free, Called, Token
<1>12. connection.type = "PROVISION" => connection.dev_uuid = Rx.dev
  BY <1>1, <1>9, <1>11 DEF SInv, ConnInv
<1> QED
  BY <1>7, <1>8, <1>9, <1>10, <1>12

LEMMA SetupStep ==
  ASSUME SInv, TypeOK', mesh_session_setup
  PROVE  SInv'
<1>1. /\ bus # <<>> /\ bus' = Tail(bus) /\ Rx.what = "Resolved"
      /\ UNCHANGED <<proxy_in, discover_mesh, node, prov, up, chars, notifying,
                     invited, member, upset>>
  BY DEF mesh_session_setup, Handles, net, attempts, daemon
<1>2. /\ Rx \in Told /\ Rx \in Msgs /\ Rx.dev \in Devices /\ Rx.dev # None
      /\ Told' \subseteq Told /\ Told \subseteq Told' \cup {Rx}
      /\ OnceIn(bus') /\ (Free(bus) => Free(bus'))
  BY <1>1, HandleFacts
<1>3. /\ connection.device = Rx.dev /\ Free(calls) /\ Free(bus) /\ ~Joining'
      /\ ~Working /\ ~Looking /\ ~Opened /\ invited = {} /\ proxy_in = None
      /\ connection.type = "PROVISION" => connection.dev_uuid = Rx.dev
  BY <1>1, ResolvedFacts
<1> DEFINE char == get_characteristic(SetupService)
           what == IF SetupService = "prov" THEN "NotifyProv" ELSE "NotifyProxy"
           call == Msg(what, char, SetupNode, "call")
<1>4. CASE SetupService = "none"
  <2>1. connection' = connection /\ calls' = calls \o <<>> /\ <<>> \in Seq(Msgs) /\ ToSet(<<>>) = {}
    BY <1>1, <1>4, FewMsgs DEF mesh_session_setup, SInv, TypeOK
  <2>2. Rx.what # "Connect" /\ ~Lost(Rx, connection.device)
    BY <1>1 DEF Lost
  <2> QED
    BY <1>1, <2>1, <2>2, DropStep
<1>5. CASE SetupService # "none"
  <2>1. connection \in Connections /\ calls \in Seq(Msgs)
    BY DEF SInv, TypeOK
  <2>2. char \in {None, Rx.dev} /\ (char # None => chars[Rx.dev] = SetupService)
    BY <1>3 DEF get_characteristic
  <2>3. /\ connection'.device = Rx.dev /\ connection'.data_in = char
        /\ char # None => connection'.data_out = char
        /\ connection'.session_open = connection.session_open
        /\ connection'.type = connection.type /\ connection'.dev_uuid = connection.dev_uuid
        /\ connection'.unicast = connection.unicast
    BY <1>3, <1>5, <2>1 DEF mesh_session_setup, Connections
  <2>4. /\ char = None => Called' = Called /\ Free(calls') /\ OnceIn(calls')
        /\ char # None => Called' = Called \cup {call} /\ OnceIn(calls')
    <3>1. char = None => calls' = calls
      BY <1>5 DEF mesh_session_setup
    <3>2. char # None => calls' = Append(calls, call)
      BY <1>5 DEF mesh_session_setup
    <3>3. SetupNode \in Maybe
      BY <2>1, ConnType DEF SetupNode, Maybe
    <3>4. char # None => call \in Msgs
      BY <1>2, <2>2, <3>3, MsgType
    <3>5. char # None => <<call>> \in Seq(Msgs) /\ calls' = calls \o <<call>>
      BY <2>1, <3>2, <3>4
    <3>6. ToSet(<<call>>) = {call} /\ OnceIn(<<call>>)
      BY FewMsgs
    <3>7. char # None => ToSet(calls') = ToSet(calls) \cup {call} /\ OnceIn(calls')
      BY <1>3, <2>1, <3>5, <3>6, AddedMsgs
    <3> QED
      BY <1>3, <3>1, <3>7 DEF Called, SInv, OneToken
  <2>5. /\ call.what = what /\ call.dev = char /\ call.n = SetupNode /\ call.how = "call"
        /\ what \in {"NotifyProv", "NotifyProxy"}
        /\ what = "NotifyProv" <=> connection.type = "PROVISION"
    BY <1>5 DEF Msg, SetupService
  <2>6. SetupNode \in {None, connection.dev_uuid}
    BY DEF SetupNode
  <2> HIDE DEF call, what, char
  <2>7. \A m \in Called \cup Told : ~Token(m)
    BY <1>3 DEF Free, Called, Told
  <2>8. ~Working' /\ ~Looking' /\ ~Opened'
    BY <1>1, <1>3, <2>3 DEF Working, Opened, Looking
  <2>9. OneToken'
    BY <1>2, <1>3, <2>4 DEF OneToken
  <2>10. StageInv' /\ LookInv' /\ JoinInv'
    BY <1>3, <2>8 DEF StageInv, LookInv, JoinInv, Joining
  <2>11. OrderInv' /\ Chosen'
    BY <1>1, OrderTail DEF SInv, Chosen
  <2>12. RemovedInv'
    BY <1>1, <1>3, <2>3, RemovedTail DEF SInv, Lost
  <2>13. ConnInv'
    <3>1. ~(connection.session_open /\ "switch" \notin upset)
      BY <1>3 DEF SInv, ConnInv
    <3>2. Rx.dev \in up \/ \E m \in Told' : Lost(m, Rx.dev)
      BY <1>1, <1>2, <1>3 DEF SInv, ConnInv, Lost
    <3> QED
      BY <1>1, <1>2, <1>3, <2>3, <2>8, <3>1, <3>2 DEF ConnInv
  <2>14. DevInv'
    BY <1>1, <1>2, <1>3, <2>3 DEF SInv, DevInv, Ok
  <2>15. DialInv' /\ EndInv'
    BY <1>2, <2>4, <2>5, <2>7 DEF DialInv, EndInv, Ends, Token
  <2>16. SubInv'
    <3>1. ASSUME NEW m \in Called' \cup Told', Subscribes(m) PROVE m = call /\ char # None
      BY <1>2, <2>4, <2>7, <3>1 DEF Subscribes, Token
    <3>2. \A m \in Told' : ~Subscribes(m)
      BY <1>2, <2>7 DEF Subscribes, Token
    <3>3. char # None /\ what = "NotifyProxy" => Rx.dev \in member
      BY <1>2, <1>5, <2>2, <2>5 DEF SInv, DevInv, SetupService
    <3> QED
      BY <1>1, <1>3, <2>2, <2>3, <2>5, <2>6, <3>1, <3>2, <3>3 DEF SubInv
  <2>17. WorkInv'
    BY <1>1, <1>3 DEF WorkInv
  <2>18. StopInv'
    <3>1. \A d \in Devices : Subject(d)' => Subject(d)
      <4>1. Subject(Rx.dev)
        BY <1>1, <1>2 DEF Subject, Early
      <4> QED
        BY <1>1, <1>2, <2>2, <2>4, <2>5, <2>8, <4>1 DEF Subject, Fresh
    <3>2. \A m \in Called' : m.what = "StopNotify" => m \in Called
      BY <2>4, <2>5
    <3> QED
      BY <3>1, <3>2, Idle DEF SInv, StopInv
  <2> QED
    BY <2>9, <2>10, <2>11, <2>12, <2>13, <2>14, <2>15, <2>16, <2>17, <2>18 DEF SInv
<1> QED
  BY <1>4, <1>5

\* The reply to a subscription or to a disconnect is all that is under way.
LEMMA ReplyFacts ==
  ASSUME SInv, bus # <<>>, bus' = Tail(bus), Token(Rx), Rx.what # "Connect",
         up' = up, chars' = chars
  PROVE  /\ Free(bus') /\ Free(calls) /\ ~Joining /\ ~Joining' /\ ~Dialled
         /\ ~Working /\ ~Looking /\ ~Opened /\ invited = {} /\ proxy_in = None
         /\ \A m \in Called \cup Told' : ~Token(m)
<1>1. /\ Rx \in Told /\ Told' \subseteq Told /\ Told \subseteq Told' \cup {Rx}
      /\ Free(bus') /\ Free(calls)
  BY HandleFacts
<1>2. \A m \in Called \cup Told' : ~Token(m)
  BY <1>1 DEF Free, Called, Told
<1>3. ~Dialled
  BY <1>1, <1>2 DEF Dialled, Token
<1>4. ~Joining
  BY <1>1 DEF SInv, StageInv, Ok
<1>5. ~Joining'
  BY <1>1, <1>4 DEF Joining, Fresh
<1>6. ~Working /\ ~Looking /\ ~Opened /\ invited = {} /\ proxy_in = None
  BY <1>1, Idle DEF Working
<1> QED
  BY <1>1, <1>2, <1>3, <1>4, <1>5, <1>6

\* What disconnect_device calls: one message, about the device or its data_out.
LEMMA DisconnectMsgs ==
  ASSUME NEW c \in Connections, NEW n \in Maybe, NEW io,
         NEW m \in ToSet(disconnect_calls(c, n, io))
  PROVE  /\ m.n = n /\ m.how = "call" /\ m \in Msgs
         /\ \/ m.what = "StopNotify" /\ m.dev = c.data_out /\ c.data_out # None
            \/ m.what = "Disconnect" /\ m.dev = c.device /\ c.device # None
<1>1. m \in Msgs
  BY CallTypes DEF ToSet
<1>2. \A d : m \in ToSet(DisconnectCall(d, n)) => d # None /\ m = Msg("Disconnect", d, n, "call")
  BY FewMsgs DEF DisconnectCall
<1>3. \/ m \in ToSet(DisconnectCall(c.device, n))
      \/ c.data_out # None /\ m \in ToSet(<<Msg("StopNotify", c.data_out, n, "call")>>)
  BY DEF disconnect_calls
<1>4. \/ c.device # None /\ m = Msg("Disconnect", c.device, n, "call")
      \/ c.data_out # None /\ m = Msg("StopNotify", c.data_out, n, "call")
  BY <1>2, <1>3, FewMsgs
<1> QED
  BY <1>1, <1>4 DEF Msg

LEMMA NotifyProvStep ==
  ASSUME SInv, TypeOK', notify_prov_out_cb
  PROVE  SInv'
<1>1. /\ bus # <<>> /\ bus' = Tail(bus) /\ Rx.what = "NotifyProv" /\ Token(Rx)
      /\ UNCHANGED <<connection, discover_mesh, up, chars, member, upset>>
  BY DEF notify_prov_out_cb, Handles, Token
<1>2. /\ Rx \in Told /\ Rx \in Msgs /\ Rx.dev \in Devices /\ Rx.dev # None /\ Rx.n \in Maybe
      /\ Told' \subseteq Told /\ Told \subseteq Told' \cup {Rx}
  BY <1>1, HandleFacts
<1>3. /\ Free(bus') /\ Free(calls) /\ ~Joining /\ ~Joining' /\ ~Dialled
      /\ ~Working /\ ~Looking /\ ~Opened /\ invited = {} /\ proxy_in = None
      /\ \A m \in Called \cup Told' : ~Token(m)
  BY <1>1, ReplyFacts
<1> DEFINE ignored == \/ Rx.how = "error" \/ connection.type # "PROVISION"
                      \/ connection.data_in = None \/ Rx.n = None
<1>4. CASE ignored
  <2>1. UNCHANGED <<proxy_in, node, prov, calls, notifying, invited>>
    BY <1>4 DEF notify_prov_out_cb, attempts
  <2>2. calls' = calls \o <<>> /\ <<>> \in Seq(Msgs) /\ ToSet(<<>>) = {}
    BY <2>1, FewMsgs DEF SInv, TypeOK
  <2>3. Rx.what # "Connect" /\ ~Lost(Rx, connection.device)
    BY <1>1 DEF Lost
  <2> QED
    BY <1>1, <2>1, <2>2, <2>3, DropStep
<1>5. CASE ~ignored
  <2>1. /\ connection.device = Rx.dev /\ connection.data_in = Rx.dev /\ connection.data_out = Rx.dev
        /\ Rx.n = Rx.dev /\ connection.type = "PROVISION" /\ Rx.n \in Devices
    BY <1>1, <1>2, <1>5 DEF SInv, SubInv, Subscribes
  <2>2. proxy_in' = None
    BY <1>3, <1>5 DEF notify_prov_out_cb, prov_open, prov_open_fails, disconnect_device,
                      net_session_close
  <2>3. ~Opened' /\ ~Looking'
    BY <1>1, <1>3, <2>1 DEF Opened, Looking
  <2>4. OrderInv' /\ RemovedInv'
    BY <1>1, OrderTail, RemovedTail DEF SInv, Lost
  <2>5. JoinInv' /\ LookInv'
    BY <1>3, <2>3 DEF JoinInv, Joining, LookInv
  <2>6. ConnInv'
    <3>1. ~(connection.session_open /\ "switch" \notin upset)
      BY <1>3 DEF SInv, ConnInv
    <3>2. connection.device \in up \/ \E m \in Told' : Lost(m, connection.device)
      BY <1>1, <1>2, <2>1 DEF SInv, ConnInv, Lost
    <3>3. connection.device = connection.dev_uuid
      BY <1>2, <1>3, <2>1 DEF SInv, ConnInv
    <3> QED
      BY <1>1, <1>2, <2>1, <2>3, <3>1, <3>2, <3>3 DEF ConnInv
  <2>7. ASSUME Free(calls') PROVE OneToken' /\ DialInv' /\ SubInv' /\ EndInv' /\ StageInv'
    <3>1. (Free(calls) /\ Free(bus))' => (OneToken /\ DialInv /\ SubInv /\ EndInv)'
      BY NoTokenParts, PTL
    <3> QED
      BY <1>3, <2>3, <2>7, <3>1 DEF StageInv
  <2>8. CASE prov_open(Rx.n)
    <3>1. /\ prov' = [prov EXCEPT ![Rx.n] = connection.data_in]
          /\ invited' = invited \cup ({connection.data_in} \cap up)
          /\ UNCHANGED <<node, calls, notifying>>
      BY <2>8 DEF prov_open
    <3>2. Free(calls') /\ Called' = Called
      BY <1>3, <3>1 DEF Called
    <3>3. Chosen'
      BY <2>1, <3>1 DEF SInv, TypeOK, Chosen
    <3>4. WorkInv'
      BY <1>1, <1>3, <2>1, <2>2, <3>1 DEF WorkInv
    <3>5. DevInv'
      BY <1>1, <1>2, <3>1 DEF SInv, DevInv, Ok
    <3>6. StopInv'
      <4>1. Subject(Rx.dev)
        BY <1>1, <1>2 DEF Subject
      <4>2. \A d \in Devices : Subject(d)' => Subject(d)
        BY <1>1, <1>2, <1>3, <2>1, <2>2, <2>3, <3>1, <3>2, <4>1, SessionAssumption
        DEF Subject, Fresh
      <4> QED
        BY <3>2, <4>2, Idle DEF SInv, StopInv
    <3> QED
      BY <2>4, <2>5, <2>6, <2>7, <3>2, <3>3, <3>4, <3>5, <3>6 DEF SInv
  <2>9. CASE prov_open_fails(Rx.n)
    <3>1. /\ node_free(Rx.n) /\ calls' = calls \o disconnect_calls(connection, None, NotifyIo)
          /\ invited' = invited
      BY <2>9 DEF prov_open_fails
    <3>2. connection \in Connections /\ calls \in Seq(Msgs) /\ None \in Maybe
      BY DEF SInv, TypeOK, Maybe
    <3>3. Called' = Called \cup ToSet(disconnect_calls(connection, None, NotifyIo))
      BY <3>1, <3>2, CallTypes, AddedMsgs DEF Called
    <3>4. \A m \in ToSet(disconnect_calls(connection, None, NotifyIo)) : ~Token(m)
      BY <3>2, DisconnectMsgs DEF Token
    <3>5. Free(calls')
      BY <1>3, <3>3, <3>4 DEF Free, Called
    <3>6. Chosen'
      BY <2>1, <3>1 DEF SInv, TypeOK, Chosen, node_free
    <3>7. WorkInv'
      BY <1>3, <2>2, <3>1 DEF WorkInv
    <3>8. DevInv'
      BY <1>1, <1>2, <2>1, <3>1 DEF SInv, TypeOK, DevInv, Ok, node_free
    <3>9. StopInv'
      <4>1. \A m \in Called' \cup Told' : ~Token(m)
        BY <1>3, <3>3, <3>4
      <4>2. \A d \in Devices : ~Subject(d)'
        BY <1>3, <2>2, <2>3, <3>1, <4>1, SessionAssumption DEF Subject, Joining
      <4>3. \A m \in Called' : m.dev \in Devices
        BY <3>2, <3>3, DisconnectMsgs, MsgFields, Idle
      <4> QED
        BY <4>2, <4>3 DEF StopInv
    <3> QED
      BY <2>4, <2>5, <2>6, <2>7, <3>5, <3>6, <3>7, <3>8, <3>9 DEF SInv
  <2> QED
    BY <1>5, <2>8, <2>9 DEF notify_prov_out_cb
<1> QED
  BY <1>4, <1>5

LEMMA NotifyProxyStep ==
  ASSUME SInv, TypeOK', notify_proxy_out_cb
  PROVE  SInv'
<1>1. /\ bus # <<>> /\ bus' = Tail(bus) /\ Rx.what = "NotifyProxy" /\ Token(Rx)
      /\ UNCHANGED <<discover_mesh, node, prov, calls, up, chars, notifying, invited, member, upset>>
  BY DEF notify_proxy_out_cb, Handles, Token, attempts, daemon
<1>2. /\ Rx \in Told /\ Rx \in Msgs /\ Rx.dev \in Devices /\ Rx.dev # None /\ Rx.n \in Maybe
      /\ Told' \subseteq Told /\ Told \subseteq Told' \cup {Rx}
  BY <1>1, HandleFacts
<1>3. /\ Free(bus') /\ Free(calls) /\ ~Joining /\ ~Joining' /\ ~Dialled
      /\ ~Working /\ ~Looking /\ ~Opened /\ invited = {} /\ proxy_in = None
      /\ \A m \in Called \cup Told' : ~Token(m)
  BY <1>1, ReplyFacts
<1>4. CASE ~OpensSession
  <2>1. UNCHANGED <<proxy_in, connection>>
    BY <1>4 DEF notify_proxy_out_cb, net
  <2>2. calls' = calls \o <<>> /\ <<>> \in Seq(Msgs) /\ ToSet(<<>>) = {}
    BY <1>1, FewMsgs DEF SInv, TypeOK
  <2>3. Rx.what # "Connect" /\ ~Lost(Rx, connection.device)
    BY <1>1 DEF Lost
  <2> QED
    BY <1>1, <2>1, <2>2, <2>3, DropStep
<1>5. CASE OpensSession
  <2>1. /\ connection.device = Rx.dev /\ connection.data_in = Rx.dev /\ connection.data_out = Rx.dev
        /\ Rx.dev \in member /\ Rx.how # "error"
        /\ connection.type \in {"IDENTITY", "NETWORK"}
    BY <1>1, <1>2, <1>5 DEF SInv, SubInv, Subscribes, OpensSession
  <2>2. connection' = [connection EXCEPT !.session_open = TRUE] /\ connection \in Connections
        /\ proxy_in' = Rx.dev
    BY <1>3, <1>5, <2>1 DEF notify_proxy_out_cb, SInv, TypeOK
  <2>3. /\ connection'.device = Rx.dev /\ connection'.data_in = Rx.dev
        /\ connection'.data_out = Rx.dev /\ connection'.session_open
        /\ connection'.type = connection.type /\ connection'.type # "PROVISION"
        /\ connection'.dev_uuid = connection.dev_uuid /\ connection'.unicast = connection.unicast
    BY <2>1, <2>2 DEF Connections
  <2>4. Opened' /\ ~Looking'
    BY <1>1, <1>3, <2>3 DEF Opened, Looking
  <2>5. OrderInv' /\ Chosen'
    BY <1>1, OrderTail DEF SInv, Chosen
  <2>6. RemovedInv'
    BY <1>1, <2>1, <2>3, RemovedTail DEF SInv, Lost
  <2>7. Free(calls') /\ Called' = Called
    BY <1>1, <1>3 DEF Called
  <2>8. OneToken' /\ DialInv' /\ SubInv' /\ EndInv'
    <3>1. (Free(calls) /\ Free(bus))' => (OneToken /\ DialInv /\ SubInv /\ EndInv)'
      BY NoTokenParts, PTL
    <3> QED
      BY <1>3, <2>7, <3>1
  <2>9. StageInv' /\ JoinInv' /\ LookInv'
    BY <1>3, <2>4, <2>7 DEF StageInv, JoinInv, Joining, LookInv
  <2>10. ConnInv'
    <3>1. Rx.dev \in up \/ \E m \in Told' : Lost(m, Rx.dev)
      BY <1>1, <1>2, <2>1 DEF SInv, ConnInv, Lost
    <3> QED
      BY <1>1, <1>2, <2>1, <2>2, <2>3, <3>1 DEF ConnInv
  <2>11. DevInv'
    BY <1>1, <1>2, <2>1, <2>3 DEF SInv, DevInv, Ok
  <2>12. WorkInv'
    <3>1. Rx.dev \in notifying \/ \E m \in Told' : Lost(m, Rx.dev)
      BY <1>1, <1>2, <2>1 DEF SInv, SubInv, Subscribes, Lost
    <3> QED
      BY <1>1, <1>3, <2>2, <2>3, <2>4, <3>1 DEF WorkInv
  <2>13. StopInv'
    <3>1. Subject(Rx.dev)
      BY <1>1, <1>2 DEF Subject
    <3>2. \A d \in Devices : Subject(d)' => Subject(d)
      BY <1>1, <1>2, <1>3, <2>2, <2>4, <2>7, <3>1 DEF Subject, Fresh
    <3> QED
      BY <2>7, <3>2, Idle DEF SInv, StopInv
  <2> QED
    BY <2>5, <2>6, <2>8, <2>9, <2>10, <2>11, <2>12, <2>13 DEF SInv
<1> QED
  BY <1>4, <1>5

LEMMA StopReplyStep ==
  ASSUME SInv, TypeOK', disc_notify_cb
  PROVE  SInv'
<1> DEFINE t == DisconnectCall(connection.device, Rx.n)
<1>1. /\ bus # <<>> /\ bus' = Tail(bus) /\ Rx.what = "StopNotify" /\ calls' = calls \o t
      /\ UNCHANGED <<connection, proxy_in, discover_mesh, node, prov, up, chars, notifying,
                     invited, member, upset>>
  BY DEF disc_notify_cb, Handles, net, attempts, daemon
<1>2. /\ Rx \in Told /\ Rx \in Msgs /\ Rx.dev \in Devices /\ Rx.dev # None /\ Rx.n \in Maybe
      /\ Told' \subseteq Told /\ Told \subseteq Told' \cup {Rx}
  BY <1>1, HandleFacts
<1>3. connection \in Connections /\ calls \in Seq(Msgs) /\ t \in Seq(Msgs)
  BY <1>2, CallTypes DEF SInv, TypeOK
<1>4. CASE Rx.n = None \/ connection.device = None
  <2>1. \A m \in ToSet(t) : m.what = "Disconnect" /\ m.n = Rx.n /\ connection.device # None
    BY FewMsgs DEF DisconnectCall, Msg
  <2>2. \A m \in ToSet(t) : ~Token(m) /\ m.what = "Disconnect"
    BY <1>4, <2>1 DEF Token
  <2>3. Rx.what # "Connect" /\ ~Lost(Rx, connection.device)
    BY <1>1 DEF Lost
  <2> HIDE DEF t
  <2> QED
    BY <1>1, <1>3, <2>2, <2>3, DropStep
<1>5. CASE Rx.n # None /\ connection.device # None
  <2> DEFINE call == Msg("Disconnect", Rx.n, Rx.n, "call")
  <2>1. Token(Rx) /\ connection.device = Rx.n /\ Rx.dev = Rx.n
    BY <1>1, <1>2, <1>5 DEF Token, SInv, EndInv, Ends
  <2>2. /\ Free(bus') /\ Free(calls) /\ ~Joining /\ ~Joining' /\ ~Dialled
        /\ ~Working /\ ~Looking /\ ~Opened /\ invited = {} /\ proxy_in = None
        /\ \A m \in Called \cup Told' : ~Token(m)
    BY <1>1, <2>1, ReplyFacts
  <2>3. t = <<call>>
    BY <1>5, <2>1 DEF DisconnectCall
  <2>4. /\ call.what = "Disconnect" /\ call.dev = Rx.n /\ call.n = Rx.n /\ call.how = "call"
    BY DEF Msg
  <2>5. Called' = Called \cup {call} /\ OnceIn(calls')
    BY <1>1, <1>3, <2>2, <2>3, AddedMsgs, FewMsgs DEF Called
  <2> HIDE DEF call, t
  <2>6. ~Working' /\ ~Looking' /\ ~Opened'
    BY <1>1, <2>2 DEF Working, Opened, Looking
  <2>7. OneToken'
    BY <2>2, <2>5 DEF OneToken, Free, OnceIn, ToSet
  <2>8. StageInv' /\ JoinInv' /\ LookInv'
    BY <2>2, <2>6 DEF StageInv, JoinInv, Joining, LookInv
  <2>9. OrderInv' /\ RemovedInv' /\ Chosen'
    BY <1>1, OrderTail, RemovedTail DEF SInv, Lost, Chosen
  <2>10. ConnInv'
    <3>1. Dialled' => Dialled
      BY <1>2, <2>4, <2>5 DEF Dialled
    <3> QED
      BY <1>1, <1>2, <2>2, <2>6, <3>1 DEF SInv, ConnInv, Lost
  <2>11. DevInv'
    BY <1>1, <1>2 DEF SInv, DevInv, Ok
  <2>12. DialInv' /\ SubInv'
    BY <2>2, <2>4, <2>5 DEF DialInv, SubInv, Subscribes, Token
  <2>13. EndInv'
    BY <1>1, <1>2, <2>1, <2>2, <2>4, <2>5 DEF EndInv, Ends, Token
  <2>14. WorkInv'
    BY <1>1, <2>2 DEF WorkInv
  <2>15. StopInv'
    <3>1. Subject(Rx.n)
      BY <1>2, <2>1 DEF Subject
    <3>2. \A d \in Devices : Subject(d)' => Subject(d)
      BY <1>1, <1>2, <2>4, <2>5, <2>6, <3>1 DEF Subject, Fresh
    <3> QED
      BY <2>4, <2>5, <3>2, Idle DEF SInv, StopInv
  <2> QED
    BY <2>7, <2>8, <2>9, <2>10, <2>11, <2>12, <2>13, <2>14, <2>15 DEF SInv
<1> QED
  BY <1>4, <1>5

LEMMA DisconnectReplyStep ==
  ASSUME SInv, TypeOK', prov_disconn_reply
  PROVE  SInv'
<1>1. /\ bus # <<>> /\ bus' = Tail(bus) /\ Rx.what = "Disconnect"
      /\ UNCHANGED <<proxy_in, node, prov, calls, up, chars, notifying, invited, member, upset>>
  BY DEF prov_disconn_reply, Handles, net, attempts, daemon
<1>2. /\ Rx \in Told /\ Rx \in Msgs /\ Rx.dev \in Devices /\ Rx.dev # None /\ Rx.n \in Maybe
      /\ Told' \subseteq Told /\ Told \subseteq Told' \cup {Rx}
  BY <1>1, HandleFacts
<1>3. CASE Rx.how = "error" \/ Rx.n = None
  <2>1. UNCHANGED <<discover_mesh, connection>>
    BY <1>3 DEF prov_disconn_reply
  <2>2. calls' = calls \o <<>> /\ <<>> \in Seq(Msgs) /\ ToSet(<<>>) = {}
    BY <1>1, FewMsgs DEF SInv, TypeOK
  <2>3. Rx.what # "Connect" /\ ~Lost(Rx, connection.device)
    BY <1>1 DEF Lost
  <2> QED
    BY <1>1, <2>1, <2>2, <2>3, DropStep
<1>4. CASE ~(Rx.how = "error" \/ Rx.n = None)
  <2>1. /\ Token(Rx) /\ connection.device \in {None, Rx.n} /\ Rx.dev = Rx.n /\ Rx.n \notin up
    BY <1>1, <1>2, <1>4 DEF Token, SInv, EndInv, Ends
  <2>2. /\ Free(bus') /\ Free(calls) /\ ~Joining /\ ~Joining' /\ ~Dialled
        /\ ~Working /\ ~Looking /\ ~Opened /\ invited = {} /\ proxy_in = None
        /\ \A m \in Called \cup Told' : ~Token(m)
    BY <1>1, <2>1, ReplyFacts
  <2>3. /\ connection'.device = None /\ connection'.data_in = None /\ connection'.data_out = None
        /\ ~connection'.session_open /\ connection'.type = "IDENTITY"
        /\ connection'.unicast = Rx.n
    BY <1>4 DEF prov_disconn_reply, Zero
  <2>4. ~Opened' /\ ~Working'
    BY <1>1, <2>2, <2>3 DEF Opened, Working
  <2>5. Free(calls') /\ Called' = Called
    BY <1>1, <2>2 DEF Called
  <2>6. OneToken' /\ DialInv' /\ SubInv' /\ EndInv'
    <3>1. (Free(calls) /\ Free(bus))' => (OneToken /\ DialInv /\ SubInv /\ EndInv)'
      BY NoTokenParts, PTL
    <3> QED
      BY <2>2, <2>5, <3>1
  <2>7. StageInv' /\ JoinInv'
    BY <2>2, <2>4, <2>5 DEF StageInv, JoinInv, Joining
  <2>8. LookInv'
    BY <1>1, <1>2, <2>1, <2>3 DEF LookInv
  <2>9. OrderInv' /\ RemovedInv' /\ Chosen'
    BY <1>1, <2>3, OrderTail, RemovedTail DEF SInv, Chosen
  <2>10. ConnInv'
    BY <2>3, <2>4 DEF ConnInv
  <2>11. DevInv'
    <3>1. ASSUME NEW d \in up, d \notin member \/ "switch" \notin upset PROVE FALSE
      <4>1. connection.device = d \/ \E m \in Told : Ok(m, d)
        BY <3>1 DEF SInv, DevInv
      <4>2. \A m \in Told : ~Ok(m, d)
        BY <1>1, <1>2, <2>2 DEF Ok, Token
      <4>3. d # None
        BY SessionAssumption DEF SInv, TypeOK
      <4> QED
        BY <2>1, <4>1, <4>2, <4>3
    <3> QED
      BY <1>1, <3>1 DEF SInv, DevInv
  <2>12. WorkInv'
    BY <1>1, <2>2 DEF WorkInv
  <2>13. StopInv'
    <3>1. Subject(Rx.n)
      BY <1>2, <2>1 DEF Subject
    <3>2. \A d \in Devices : Subject(d)' => Subject(d)
      BY <1>1, <1>2, <2>3, <2>5, <3>1 DEF Subject, Fresh
    <3> QED
      BY <2>5, <3>2, Idle DEF SInv, StopInv
  <2> QED
    BY <2>6, <2>7, <2>8, <2>9, <2>10, <2>11, <2>12, <2>13 DEF SInv
<1> QED
  BY <1>3, <1>4

\* What bluetoothd drops is not the connected device.
LEMMA RemovedStep ==
  ASSUME SInv, TypeOK', device_removed
  PROVE  SInv'
<1>1. /\ bus # <<>> /\ bus' = Tail(bus) /\ Rx.what = "Removed"
      /\ UNCHANGED <<proxy_in, discover_mesh, node, prov, calls, up, chars, notifying,
                     invited, member, upset>>
  BY DEF device_removed, Handles, net, attempts, daemon
<1>2. connection.device # Rx.dev
  <2>1. Rx = bus[1] /\ 1 \in DOMAIN bus /\ \A i \in DOMAIN bus : i \in Nat /\ i > 0
    BY <1>1, BusShifted DEF SInv
  <2> QED
    BY <1>1, <2>1 DEF SInv, RemovedInv
<1>3. connection' = connection /\ calls' = calls \o <<>> /\ <<>> \in Seq(Msgs) /\ ToSet(<<>>) = {}
  BY <1>1, <1>2, FewMsgs DEF device_removed, SInv, TypeOK
<1>4. Rx.what # "Connect" /\ ~Lost(Rx, connection.device)
  BY <1>1 DEF Lost
<1> QED
  BY <1>1, <1>3, <1>4, DropStep

LEMMA HandlerStep ==
  ASSUME SInv, TypeOK', Handler PROVE SInv'
BY ConnectReplyStep, ConnectedStep, DisconnectedStep, SetupStep, NotifyProvStep,
   NotifyProxyStep, StopReplyStep, DisconnectReplyStep, RemovedStep DEF Handler
-----------------------------------------------------------------------------
(* The window's thread, advertisements, and the end of a provisioning. *)

LEMMA StartStep ==
  ASSUME SInv, TypeOK', Env = {}, NEW d \in Devices, cmd_start_prov(d)
  PROVE  SInv'
<1> DEFINE found == node[d] = "new" /\ d \in mesh_devices
           old == disconnect_calls(connection, None, notify_io)
           connect == Msg("Connect", d, None, "call")
           new == IF found THEN <<connect>> ELSE <<>>
<1>1. /\ UNCHANGED <<discover_mesh, node, prov, bus, up, chars, invited, member>>
      /\ upset \subseteq upset' /\ (connection.device # None => "switch" \in upset')
      /\ calls' = (calls \o old) \o new
  BY DEF cmd_start_prov, attempts
<1>2. /\ calls = <<>> /\ bus = <<>> /\ bus' = <<>>
      /\ connection.device = None \/ Opened
  BY <1>1 DEF cmd_start_prov, MayStart, Quiet, Opened
<1>3. connection \in Connections /\ None \in Maybe /\ invited \subseteq Devices /\ d # None
      /\ up \subseteq Devices /\ proxy_in \in Maybe
  BY SessionAssumption DEF SInv, TypeOK, Maybe
<1>4. Called = {} /\ Told = {} /\ Told' = {} /\ Free(bus') /\ OnceIn(bus')
  BY <1>2, FewMsgs DEF Called, Told
<1>5. invited = {}
  BY <1>2, <1>3, SessionAssumption DEF SInv, WorkInv, Opened
<1>6. ~Joining /\ ~Joining'
  <2>1. ~Joining
    <3>1. CASE connection.device = None
      BY <1>4, <3>1, SessionAssumption DEF SInv, JoinInv, Joining, Owner
    <3>2. CASE Opened
      BY <3>2 DEF SInv, StageInv, Working
    <3> QED
      BY <1>2, <3>1, <3>2
  <2> QED
    BY <1>1, <1>4, <2>1 DEF Joining, Fresh
<1>7. proxy_in' = None
  BY DEF cmd_start_prov, disconnect_device, net_session_close, SInv, WorkInv
<1>8. /\ connection'.device = connection.device /\ connection'.data_in = connection.data_in
      /\ connection'.data_out = connection.data_out
      /\ connection'.session_open = connection.session_open
      /\ connection'.unicast = connection.unicast
      /\ found => connection'.type = "PROVISION" /\ connection'.dev_uuid = d
      /\ ~found => connection'.type = connection.type
  BY <1>3 DEF cmd_start_prov, Connections
<1>9. /\ connect.what = "Connect" /\ connect.dev = d /\ connect.n = None /\ connect.how = "call"
      /\ connect \in Msgs
  BY <1>3, MsgType DEF Msg
<1>10. \A m \in ToSet(old) :
         /\ ~Token(m) /\ m.n = None /\ m.what \in {"StopNotify", "Disconnect"} /\ m.dev \in Devices
         /\ m.what = "StopNotify" => m.dev = connection.data_out /\ connection.data_out # None
  BY <1>3, DisconnectMsgs, MsgFields DEF Token
<1>11. /\ Called' = ToSet(old) \cup ToSet(new) /\ OnceIn(calls')
       /\ ~found => Free(calls')
  <2>1. old \in Seq(Msgs) /\ new \in Seq(Msgs) /\ calls \in Seq(Msgs) /\ OnceIn(new)
    BY <1>3, <1>9, CallTypes, FewMsgs DEF SInv, TypeOK
  <2> HIDE DEF new, old
  <2>2. /\ calls \o old \in Seq(Msgs) /\ ToSet(calls \o old) = ToSet(old)
    <3>1. calls \o old \in Seq(Msgs) /\ ToSet(calls \o old) = ToSet(calls) \cup ToSet(old)
      BY <2>1, AddedMsgs
    <3> QED
      BY <1>4, <3>1 DEF Called
  <2>3. Free(calls \o old)
    BY <1>10, <2>2 DEF Free
  <2>4. ToSet(calls') = ToSet(old) \cup ToSet(new) /\ OnceIn(calls')
    BY <1>1, <2>1, <2>2, <2>3, AddedMsgs
  <2>5. ~found => ToSet(new) = {}
    BY FewMsgs DEF new
  <2> QED
    BY <1>10, <2>4, <2>5 DEF Called, Free
<1>12. ToSet(new) = IF found THEN {connect} ELSE {}
  BY FewMsgs
<1> HIDE DEF new, old, connect
<1>13. OneToken'
  BY <1>4, <1>11 DEF OneToken
<1>14. (Opened' => ~found /\ Opened) /\ (Looking' => ~found /\ Looking)
  BY <1>1, <1>8 DEF Opened, Looking
<1>15. StageInv' /\ JoinInv'
  BY <1>1, <1>4, <1>5, <1>6, <1>11, <1>14 DEF SInv, StageInv, Working, JoinInv, Joining
<1>16. OrderInv' /\ RemovedInv'
  BY <1>2 DEF OrderInv, RemovedInv
<1>17. found => d \notin member /\ d \notin up /\ d # connection.device
  <2>1. found => d \notin member
    BY DEF SInv, DevInv
  <2>2. d # connection.device \/ d \in member
    BY <1>2, <1>3 DEF SInv, ConnInv
  <2> QED
    BY <1>4, <2>1, <2>2 DEF SInv, DevInv
<1>18. ConnInv'
  <2>1. connection.session_open => connection.device # None
    BY DEF SInv, ConnInv
  <2>2. found => Dialled'
    BY <1>9, <1>11, <1>12 DEF Dialled
  <2>3. connection.type = "PROVISION" => connection.device = None
    BY <1>2 DEF Opened
  <2>4. Opened' => connection'.device \in member' /\ connection'.data_out = connection'.device
    BY <1>1, <1>8, <1>14 DEF SInv, ConnInv
  <2>5. connection'.device # None => connection'.device \in up'
    BY <1>1, <1>4, <1>8 DEF SInv, ConnInv
  <2>6. connection'.device = None =>
          ~connection'.session_open /\ connection'.data_in = None /\ connection'.data_out = None
    BY <1>8 DEF SInv, ConnInv
  <2>7. ~(connection'.session_open /\ "switch" \notin upset')
    BY <1>1, <1>8, <2>1
  <2>8. connection'.type = "PROVISION" =>
          connection'.device \in {None, connection'.dev_uuid} \/ Dialled'
    BY <1>8, <2>2, <2>3
  <2> QED
    BY <2>4, <2>5, <2>6, <2>7, <2>8 DEF ConnInv
<1>19. DevInv'
  BY <1>1, <1>4, <1>8 DEF SInv, DevInv
<1>20. DialInv'
  <2>1. \A m \in Called' \cup Told' : m.what = "Connect" => m = connect /\ found /\ m \in Called'
    BY <1>4, <1>10, <1>11, <1>12
  <2>2. connection.device \in member \cup {None} /\ ("switch" \notin upset' => connection.device = None)
    BY <1>1, <1>2 DEF SInv, ConnInv
  <2> QED
    BY <1>1, <1>4, <1>8, <1>9, <1>17, <2>1, <2>2 DEF DialInv
<1>21. SubInv' /\ EndInv'
  BY <1>4, <1>9, <1>10, <1>11, <1>12 DEF SubInv, EndInv, Subscribes, Ends
<1>22. WorkInv'
  BY <1>1, <1>5, <1>7 DEF WorkInv
<1>23. LookInv'
  BY <1>1, <1>8, <1>14 DEF SInv, LookInv
<1>24. StopInv'
  <2> SUFFICES ASSUME NEW m \in Called', m.what = "StopNotify", m.n = None, Subject(m.dev)'
               PROVE  FALSE
    BY DEF StopInv
  <2>1. m \in ToSet(old) /\ m.dev = connection.data_out /\ connection.data_out # None
        /\ m.dev \in Devices
    BY <1>9, <1>10, <1>11, <1>12
  <2>2. Opened
    BY <1>2, <2>1 DEF SInv, ConnInv
  <2>3. m.dev \in member
    BY <2>1, <2>2 DEF SInv, ConnInv
  <2>4. ~Looking'
    BY <1>14, <2>2 DEF SInv, StageInv, Working
  <2>5. \A k \in Called' \cup Told' : Token(k) => k.dev = d /\ found
    BY <1>4, <1>9, <1>10, <1>11, <1>12
  <2>6. m.dev # None
    BY <2>1
  <2> QED
    BY <1>1, <1>4, <1>5, <1>6, <1>7, <1>17, <2>1, <2>3, <2>4, <2>5, <2>6 DEF Subject, Joining
<1>25. Chosen'
  BY <1>1 DEF SInv, Chosen
<1> QED
  BY <1>13, <1>15, <1>16, <1>18, <1>19, <1>20, <1>21, <1>22, <1>23, <1>24, <1>25 DEF SInv

\* Only what is known of a node changes.
LEMMA FrameStep ==
  ASSUME SInv, TypeOK', \A d \in member : node'[d] # "new",
         UNCHANGED <<connection, proxy_in, discover_mesh, prov, calls, bus, up, chars, notifying,
                     invited, member, upset>>
  PROVE  SInv'
<1>1. Called' = Called /\ Told' = Told
  BY DEF Called, Told
<1>2. (Joining' <=> Joining) /\ (Opened' <=> Opened) /\ (Working' <=> Working)
      /\ (Looking' <=> Looking) /\ (Dialled' <=> Dialled)
  BY <1>1 DEF Joining, Fresh, Opened, Working, Looking, Dialled
<1>3. OneToken' /\ StageInv' /\ LookInv'
  BY <1>1, <1>2 DEF SInv, OneToken, StageInv, LookInv
<1>4. OrderInv' /\ RemovedInv' /\ Chosen'
  BY DEF SInv, OrderInv, RemovedInv, Chosen
<1>5. JoinInv' /\ ConnInv'
  BY <1>1, <1>2 DEF SInv, JoinInv, ConnInv, Owner, Fresh
<1>6. DevInv' /\ DialInv' /\ SubInv' /\ EndInv' /\ WorkInv'
  BY <1>1, <1>2 DEF SInv, DevInv, DialInv, SubInv, EndInv, WorkInv
<1>7. StopInv'
  BY <1>1, <1>2 DEF SInv, StopInv, Subject, Fresh
<1> QED
  BY <1>3, <1>4, <1>5, <1>6, <1>7 DEF SInv

LEMMA QuietStep ==
  ASSUME SInv, TypeOK',
         pipe_hup \/ beacon_update \/ \E d \in Devices : update_device_info_prov(d)
  PROVE  SInv'
<1>1. /\ UNCHANGED <<connection, proxy_in, discover_mesh, prov, calls, bus, up, chars, notifying,
                     invited, member, upset>>
      /\ \A e \in member : node'[e] = node[e]
  BY DEF pipe_hup, beacon_update, update_device_info_prov, net, attempts, daemon, SInv, TypeOK
<1> QED
  BY <1>1, FrameStep DEF SInv, DevInv

\* The node looked for is found: it is connected.
LEMMA FoundStep ==
  ASSUME SInv, TypeOK', NEW d \in Devices, update_device_info_proxy(d)
  PROVE  SInv'
<1> DEFINE connect == Msg("Connect", d, None, "call")
<1>1. /\ UNCHANGED <<connection, proxy_in, node, prov, bus, up, chars, notifying,
                     invited, member, upset>>
      /\ ~Looking' /\ calls' = Append(calls, connect)
      /\ Looking /\ connection.unicast = d /\ connection.type = "IDENTITY"
  BY DEF update_device_info_proxy, Identifies, net, attempts, daemon, Looking
<1>2. /\ connect.what = "Connect" /\ connect.dev = d /\ connect.n = None /\ connect.how = "call"
      /\ connect \in Msgs
  BY MsgType DEF Msg, Maybe
<1> HIDE DEF connect
<1>3. /\ Free(calls) /\ Free(bus) /\ ~Joining /\ ~Working /\ connection.device = None
      /\ d \notin up /\ invited = {} /\ proxy_in = None
  BY <1>1, Idle DEF SInv, StageInv, LookInv
<1>4. calls \in Seq(Msgs) /\ <<connect>> \in Seq(Msgs) /\ calls' = calls \o <<connect>>
  BY <1>1, <1>2 DEF SInv, TypeOK
<1>5. Called' = Called \cup {connect} /\ OnceIn(calls') /\ Told' = Told
  <2>1. ToSet(<<connect>>) = {connect} /\ OnceIn(<<connect>>)
    BY FewMsgs
  <2>2. ToSet(calls') = ToSet(calls) \cup ToSet(<<connect>>) /\ OnceIn(calls')
    BY ONLY <1>3, <1>4, <2>1, AddedMsgs
  <2> QED
    BY <1>1, <2>1, <2>2 DEF Called, Told
<1>6. ~Joining' /\ ~Opened' /\ ~Working' /\ ~Opened
  BY <1>1, <1>3, <1>5 DEF Joining, Fresh, Opened, Working
<1>7. OneToken' /\ StageInv' /\ JoinInv' /\ LookInv'
  <2>1. Free(bus') /\ OnceIn(bus')
    BY <1>1, <1>3 DEF SInv, OneToken
  <2> QED
    BY <1>1, <1>5, <1>6, <2>1 DEF OneToken, StageInv, JoinInv, LookInv, Joining
<1>8. OrderInv' /\ RemovedInv' /\ Chosen'
  BY <1>1 DEF SInv, OrderInv, RemovedInv, Chosen
<1>9. ConnInv' /\ DevInv' /\ WorkInv'
  BY <1>1, <1>3, <1>5, <1>6 DEF SInv, ConnInv, DevInv, WorkInv
<1>10. \A m \in Called \cup Told : ~Token(m)
  BY <1>3 DEF Free, Called, Told
<1>11. \A m \in Called' \cup Told' : Token(m) => m = connect
  BY <1>5, <1>10
<1>12. DialInv' /\ SubInv' /\ EndInv'
  <2>1. connect \notin Told' /\ d # None
    BY <1>2, <1>5, <1>10, SessionAssumption DEF Token
  <2>2. \A m \in Called' \cup Told' : m.what = "Connect" => m = connect
    BY <1>11 DEF Token
  <2>3. \A m \in Called' \cup Told' : ~Subscribes(m) /\ ~Ends(m)
    BY <1>2, <1>11 DEF Token, Subscribes, Ends
  <2> QED
    BY <1>1, <1>2, <1>3, <2>1, <2>2, <2>3 DEF DialInv, SubInv, EndInv
<1>13. StopInv'
  <2>1. \A e : Subject(e)' => Subject(e)
    BY <1>1, <1>2, <1>5, <1>11 DEF Subject, Fresh
  <2> QED
    BY <1>2, <1>5, <2>1 DEF SInv, StopInv
<1> QED
  BY <1>7, <1>8, <1>9, <1>12, <1>13 DEF SInv

\* A provisioning ends: its device is the connected one, and is disconnected.
LEMMA DoneStep ==
  ASSUME SInv, TypeOK', NEW n \in Devices, NEW status \in {0, 1}, mesh_prov_done(n, status)
  PROVE  SInv'
<1> DEFINE k == IF status = 0 THEN n ELSE None
           t == disconnect_calls(connection, k, notify_io)
<1>1. /\ UNCHANGED <<connection, discover_mesh, bus, up, chars, upset>>
      /\ prov[n] \in invited /\ disconnect_device(connection, notify_io) /\ calls' = calls \o t
      /\ invited' = invited \ {prov[n]}
  BY DEF mesh_prov_done
<1>2. /\ connection \in Connections /\ k \in Maybe /\ invited \subseteq Devices /\ n # None
      /\ up \subseteq Devices /\ calls \in Seq(Msgs) /\ proxy_in \in Maybe
  BY SessionAssumption DEF SInv, TypeOK, Maybe
<1>3. /\ prov[n] = n /\ invited = {n} /\ connection.device = n /\ n \in up
      /\ connection.type = "PROVISION" /\ connection.data_in = n /\ connection.data_out = n
  <2>1. prov[n] = n
    BY <1>1, <1>2, SessionAssumption DEF SInv, Chosen
  <2> QED
    BY <1>1, <2>1 DEF SInv, WorkInv
<1>4. /\ Free(calls) /\ Free(bus) /\ ~Joining /\ ~Looking /\ ~Opened /\ proxy_in = None
  BY <1>3 DEF SInv, StageInv, Working, Opened, WorkInv
<1>5. invited' = {} /\ proxy_in' = None /\ Told' = Told
  BY <1>1, <1>3, <1>4 DEF disconnect_device, net_session_close, Told
<1>6. ~Joining' /\ ~Looking' /\ ~Opened' /\ ~Working'
  BY <1>1, <1>4, <1>5 DEF Joining, Fresh, Looking, Opened, Working
<1>7. \A m \in ToSet(t) : /\ m \in Msgs /\ m.dev = n /\ m.n = k /\ m.how = "call"
                          /\ m.what \in {"StopNotify", "Disconnect"}
  BY <1>2, <1>3, DisconnectMsgs
<1>8. t \in Seq(Msgs) /\ OnceIn(t)
  <2>1. t \in Seq(Msgs) /\ Len(t) <= 1
    BY <1>2, CallTypes
  <2> QED
    BY <2>1 DEF OnceIn
<1> HIDE DEF t, k
<1>9. Called' = Called \cup ToSet(t) /\ OnceIn(calls')
  BY <1>1, <1>2, <1>4, <1>8, AddedMsgs DEF Called
<1>10. \A m \in Called \cup Told : ~Token(m)
  BY <1>4 DEF Free, Called, Told
<1>11. \A m \in Called' \cup Told' : Token(m) => m \in ToSet(t) /\ k # None
  BY <1>5, <1>7, <1>9, <1>10 DEF Token
<1>12. OneToken' /\ StageInv' /\ JoinInv' /\ LookInv'
  <2>1. Free(bus') /\ OnceIn(bus')
    BY <1>1, <1>4 DEF SInv, OneToken
  <2> QED
    BY <1>6, <1>9, <2>1 DEF OneToken, StageInv, JoinInv, LookInv, Joining
<1>13. OrderInv' /\ RemovedInv'
  BY <1>1 DEF SInv, OrderInv, RemovedInv
<1>14. node' = [node EXCEPT ![n] = IF status = 0 THEN "provisioned" ELSE "none"]
       /\ prov' = [prov EXCEPT ![n] = None] /\ member \subseteq member' /\ member' \subseteq member \cup {n}
  BY <1>3 DEF mesh_prov_done, node_free
<1>15. Chosen'
  BY <1>14 DEF SInv, TypeOK, Chosen
<1>16. ConnInv'
  <2>1. ~Dialled
    BY <1>10 DEF Dialled, Token
  <2>2. connection.device = connection.dev_uuid
    BY <1>2, <1>3, <2>1 DEF SInv, ConnInv
  <2>3. ~(connection.session_open /\ "switch" \notin upset)
    BY <1>4 DEF SInv, ConnInv
  <2> QED
    BY <1>1, <1>2, <1>3, <1>6, <2>2, <2>3 DEF ConnInv
<1>17. DevInv'
  <2>1. \A d \in member' : node'[d] # "new"
    BY <1>14 DEF SInv, DevInv, TypeOK
  <2> QED
    BY <1>1, <1>3, <1>5, <1>14, <2>1 DEF SInv, DevInv
<1>18. WorkInv'
  BY <1>5 DEF WorkInv
<1>19. DialInv' /\ SubInv' /\ EndInv'
  <2>1. \A m \in Called' \cup Told' : m.what # "Connect" /\ ~Subscribes(m)
    BY <1>7, <1>11 DEF Token, Subscribes
  <2>2. \A m \in Called' \cup Told' : Ends(m) => m \in ToSet(t) /\ m.n = n /\ m.dev = n /\ m \notin Told
    <3>1. \A m : Ends(m) => Token(m)
      BY DEF Ends, Token
    <3>2. k # None => k = n
      BY DEF k
    <3> QED
      BY <1>7, <1>10, <1>11, <3>1, <3>2
  <2> QED
    BY <1>1, <1>3, <1>5, <2>1, <2>2 DEF DialInv, SubInv, EndInv
<1>20. StopInv'
  <2> SUFFICES ASSUME NEW m \in Called', m.what = "StopNotify", m.n = None, Subject(m.dev)'
               PROVE  FALSE
    BY DEF StopInv
  <2>1. \E x \in ToSet(t) : Token(x) /\ x.dev = m.dev
    <3>1. m.dev # None /\ m.dev \in Devices
      BY <1>2, <1>7, <1>9, Idle, SessionAssumption, MsgFields
    <3> QED
      BY <1>5, <1>6, <1>7, <1>11, <3>1 DEF Subject, Joining
  <2>2. k # None /\ m.dev = n
    BY <1>7, <2>1 DEF Token
  <2>3. m \in Called
    BY <1>7, <1>9, <2>2
  <2> QED
    BY <1>3, <2>2, <2>3 DEF SInv, StopInv, Subject
<1> QED
  BY <1>12, <1>13, <1>15, <1>16, <1>17, <1>18, <1>19, <1>20 DEF SInv
-----------------------------------------------------------------------------
(* bluetoothd answers a call. *)

LEMMA AnswerFacts ==
  ASSUME SInv, NEW i \in DOMAIN calls, NEW msgs \in Seq(Msgs), OnceIn(msgs), Answers(i, msgs),
         ~Token(calls[i]) => \A m \in ToSet(msgs) : ~Token(m)
  PROVE  /\ UNCHANGED <<connection, proxy_in, discover_mesh, node, prov, member>>
         /\ bus' = bus \o msgs /\ Told' = Told \cup ToSet(msgs)
         /\ Called' \subseteq Called /\ Called \subseteq Called' \cup {calls[i]}
         /\ calls[i] \in Called /\ calls[i] \in Msgs /\ calls[i].dev \in Devices
         /\ Token(calls[i]) => Free(calls') /\ Free(bus)
         /\ OneToken'
         /\ ("switch" \in upset') <=> ("switch" \in upset)
<1>1. /\ UNCHANGED <<connection, proxy_in, discover_mesh, node, prov, member>>
      /\ bus' = bus \o msgs /\ calls' = RemoveAt(calls, i)
      /\ ("switch" \in upset') <=> ("switch" \in upset)
  BY DEF Answers, net, attempts
<1>2. calls \in Seq(Msgs) /\ bus \in Seq(Msgs) /\ OneToken
  BY DEF SInv, TypeOK
<1>3. Told' = Told \cup ToSet(msgs) /\ (Free(bus) => OnceIn(bus'))
      /\ (Free(msgs) /\ OnceIn(bus) => OnceIn(bus'))
  BY <1>1, <1>2, AddedMsgs DEF Told
<1>4. /\ OnceIn(calls') /\ calls[i] \in Called
      /\ Called' \subseteq Called /\ Called \subseteq Called' \cup {calls[i]}
      /\ Token(calls[i]) => Free(calls')
      /\ Free(calls) => Free(calls')
  BY <1>1, <1>2, AnsweredMsgs DEF Called, OneToken
<1>5. calls[i] \in Msgs /\ calls[i].dev \in Devices
  BY <1>2, MsgFields
<1>6. Token(calls[i]) => Free(bus)
  BY <1>2, <1>4 DEF OneToken, Free, Called
<1>7. OneToken'
  <2>1. CASE Token(calls[i])
    BY <1>3, <1>4, <1>6, <2>1 DEF OneToken
  <2>2. CASE ~Token(calls[i])
    <3>1. Free(msgs)
      BY <2>2 DEF Free
    <3>2. Free(bus) => Free(bus')
      BY <1>3, <3>1 DEF Free, Told
    <3> QED
      BY <1>2, <1>3, <1>4, <3>1, <3>2 DEF OneToken
  <2> QED
    BY <2>1, <2>2
<1> QED
  BY <1>1, <1>3, <1>4, <1>5, <1>6, <1>7

\* The reply to Connect, with or without the link and its signal.
LEMMA ConnectAnswer ==
  ASSUME SInv, TypeOK', NEW i \in DOMAIN calls, NEW msgs \in Seq(Msgs), Answers(i, msgs),
         calls[i].what = "Connect", NEW how \in {"ok", "error"},
         ToSet(msgs) = IF how = "ok" THEN {Reply(calls[i], "ok"), Signal("Connected", calls[i].dev)}
                       ELSE {Reply(calls[i], "error")},
         OnceIn(msgs), up' = IF how = "ok" THEN up \cup {calls[i].dev} ELSE up,
         UNCHANGED <<chars, notifying, invited>>,
         \A m \in ToSet(msgs) : m.what # "Resolved"
  PROVE  SInv'
<1> DEFINE c == calls[i]
           r == Reply(c, how)
           s == Signal("Connected", c.dev)
<1>1. Token(c) /\ c.what = "Connect"
  BY DEF Token
<1>2. /\ UNCHANGED <<connection, proxy_in, discover_mesh, node, prov, member>>
      /\ bus' = bus \o msgs /\ Told' = Told \cup ToSet(msgs)
      /\ Called' \subseteq Called /\ Called \subseteq Called' \cup {c}
      /\ c \in Called /\ c \in Msgs /\ c.dev \in Devices
      /\ Free(calls') /\ Free(bus) /\ OneToken'
      /\ ("switch" \in upset') <=> ("switch" \in upset)
  BY <1>1, AnswerFacts
<1>3. /\ r.what = "Connect" /\ r.dev = c.dev /\ r.n = c.n /\ r.how = how /\ r \in ToSet(msgs)
      /\ s.what = "Connected" /\ s.dev = c.dev /\ s.n = None
      /\ \A m \in ToSet(msgs) : m = r \/ (m = s /\ how = "ok")
      /\ how = "ok" => s \in ToSet(msgs)
  BY <1>1, <1>2 DEF Reply, Signal, Msg, Msgs
<1> HIDE DEF c, r, s
<1>4. /\ ~Working /\ ~Looking /\ ~Joining /\ invited = {} /\ proxy_in = None /\ ~Opened
      /\ c.dev \notin up /\ up \subseteq Devices /\ up' \subseteq Devices
  <2>1. ~Working /\ ~Looking /\ invited = {} /\ proxy_in = None
    BY <1>1, <1>2, Idle
  <2>2. ~Free(calls)
    BY <1>1, <1>2 DEF Free, Called
  <2> QED
    BY <1>1, <1>2, <2>1, <2>2 DEF SInv, StageInv, Working, DialInv, TypeOK, c
<1>5. \A m \in Called' \cup Told : ~Token(m)
  BY <1>2 DEF Free, Called, Told
<1>6. \A m \in Called' \cup Told' : Token(m) => m = r /\ m \in Told'
  BY <1>2, <1>3, <1>5 DEF Token
<1>7. \A m \in Told' : Early(m) => m = s /\ how = "ok"
  BY <1>2, <1>3, <1>4 DEF Early, Joining
<1>8. \A d \in Devices : Fresh(d)' => d = c.dev /\ how = "ok"
  BY <1>4 DEF Fresh, Joining, c
<1>9. r \in Told' /\ (how = "ok" => Ok(r, c.dev) /\ Ok(r, r.dev))
  BY <1>2, <1>3 DEF Ok
<1>10. StageInv'
  <2>1. ~Working' /\ ~Looking'
    BY <1>2, <1>4 DEF Working, Opened, Looking
  <2>2. Joining' => how = "ok"
    BY <1>7, <1>8 DEF Joining
  <2> QED
    BY <1>2, <1>6, <1>9, <2>1, <2>2 DEF StageInv
<1>11. OrderInv'
  <2>1. \A d \in up \ up' : \E m \in ToSet(msgs) : Lost(m, d)
    OBVIOUS
  <2>2. \A d \in up' \ up : \E m \in ToSet(msgs) : Ok(m, d)
    BY <1>3, <1>9 DEF c
  <2>3. ASSUME NEW m \in ToSet(msgs)
        PROVE  /\ \A d \in Devices : Raises(m, d) => d \in up'
               /\ \A d \in Devices : Lost(m, d) => d \notin up'
               /\ Early(m) => m.dev \in up'
    BY <1>3 DEF Raises, Ok, Lost, Early, c
  <2>4. \A m \in Told : m.what # "Resolved"
    BY <1>4 DEF Joining, Early
  <2> QED
    BY <1>2, <1>4, <2>1, <2>2, <2>3, <2>4, OrderAdd DEF SInv
<1>12. RemovedInv'
  BY <1>2, <1>3, RemovedAdd DEF SInv
<1>13. JoinInv'
  <2>1. \A d : d = c.dev /\ how = "ok" => Owner(d)'
    BY <1>9 DEF Owner
  <2>2. \A m \in Told' : m.what # "Resolved"
    BY <1>3, <1>7 DEF Early
  <2> QED
    BY <1>3, <1>7, <1>8, <2>1, <2>2 DEF JoinInv
<1>14. ConnInv'
  <2>1. Dialled'
    BY <1>3, <1>9 DEF Dialled
  <2> QED
    BY <1>2, <1>4, <2>1 DEF SInv, ConnInv, Opened
<1>15. DevInv'
  BY <1>2, <1>9 DEF SInv, DevInv, c
<1>16. DialInv' /\ SubInv' /\ EndInv'
  <2>1. \A m \in Called' \cup Told' : m.what = "Connect" => m = r
    BY <1>6 DEF Token
  <2>2. \A m \in Called' : m.what # "Connect"
    BY <1>5 DEF Token
  <2>3. \A m \in Called' \cup Told' : ~Subscribes(m) /\ ~Ends(m)
    BY <1>3, <1>6 DEF Token, Subscribes, Ends
  <2>4. c \in Called \cup Told /\ c.how # "ok"
    BY <1>1, <1>2 DEF SInv, DialInv
  <2> QED
    BY <1>1, <1>2, <1>3, <2>1, <2>2, <2>3, <2>4 DEF SInv, DialInv, SubInv, EndInv
<1>17. WorkInv' /\ LookInv' /\ Chosen'
  BY <1>2, <1>4 DEF WorkInv, LookInv, Looking, SInv, Chosen
<1>18. StopInv'
  <2>1. Subject(c.dev)
    BY <1>1, <1>2 DEF Subject
  <2>2. ASSUME NEW d \in Devices, Subject(d)' PROVE Subject(d)
    <3>1. CASE d = c.dev
      BY <2>1, <3>1
    <3>2. CASE d # c.dev
      <4>1. \A m \in Called' \cup Told' : Token(m) => m.dev # d
        BY <1>3, <1>6, <3>2
      <4>2. ~Fresh(d)' /\ \A m \in Told' : Early(m) => m.dev # d
        BY <1>3, <1>7, <1>8, <3>2
      <4> QED
        BY <1>2, <1>4, <2>2, <4>1, <4>2 DEF Subject, Looking
    <3> QED
      BY <3>1, <3>2
  <2> QED
    BY <1>2, <2>2, Idle DEF SInv, StopInv
<1> QED
  BY <1>2, <1>10, <1>11, <1>12, <1>13, <1>14, <1>15, <1>16, <1>17, <1>18 DEF SInv

\* A link ends, whatever the program is in the middle of.
LEMMA DownStep ==
  ASSUME SInv, TypeOK', NEW d \in up, Down(d), NEW u \in Seq(Msgs), bus' = bus \o u,
         UNCHANGED <<connection, proxy_in, discover_mesh, node, prov, member>>,
         ("switch" \in upset') <=> ("switch" \in upset),
         Called' \subseteq Called, OneToken',
         \A m \in Called : m.what = "Connect" => m \in Called',
         \E m \in ToSet(u) : Lost(m, d),
         \A m \in ToSet(u) :
           \/ Lost(m, d)
           \/ /\ m.what = "Disconnect" /\ m.dev = d
              /\ Token(m) => \E c \in Called : Ends(c) /\ c.n = m.n /\ c.dev = d
  PROVE  SInv'
<1>1. /\ up' = up \ {d} /\ notifying' = notifying \ {d} /\ invited' = invited \ {d}
      /\ up \subseteq Devices /\ invited \subseteq Devices /\ d \in Devices
      /\ \A e \in Devices : (e # d => chars'[e] = chars[e]) /\ (e = d => chars'[e] = "none")
  BY DEF Down, SInv, TypeOK
<1>2. Told' = Told \cup ToSet(u) /\ bus \in Seq(Msgs)
  BY AddedMsgs DEF SInv, TypeOK, Told
<1>3. \A m \in ToSet(u) : ~Early(m) /\ ~Subscribes(m)
        /\ m.what \notin {"Connect", "Resolved", "Removed"}
        /\ (Lost(m, d) => ~Token(m) /\ ~Ends(m)) /\ (Token(m) => Ends(m)) /\ (Ends(m) => Token(m))
  BY DEF Early, Subscribes, Lost, Token, Ends
<1>4. \A e \in Devices : Fresh(e)' => Fresh(e) /\ e # d
  BY <1>1 DEF Fresh
<1>5. \A m \in Told' : Early(m) => m \in Told
  BY <1>2, <1>3
<1>6. (Joining' => Joining) /\ (Opened' <=> Opened) /\ (Working' => Working)
      /\ (Looking' <=> Looking) /\ (Dialled => Dialled')
  BY <1>1, <1>2, <1>4, <1>5 DEF Joining, Opened, Working, Looking, Dialled
<1>7. ASSUME Free(calls) PROVE Free(calls') /\ \A m \in ToSet(u) : ~Token(m)
  <2>1. \A c \in Called : ~Ends(c)
    BY <1>7 DEF Free, Called, Ends, Token
  <2> QED
    BY <1>3, <1>7, <2>1 DEF Free, Called
<1>8. StageInv'
  <2>1. Free(calls) /\ Free(bus) => Free(calls') /\ Free(bus')
    BY <1>2, <1>7 DEF Free, Told
  <2> QED
    BY <1>2, <1>6, <1>7, <2>1 DEF SInv, StageInv
<1>9. OrderInv'
  <2>1. ASSUME NEW m \in ToSet(u)
        PROVE  /\ \A e \in Devices : Raises(m, e) => e \in up'
               /\ \A e \in Devices : Lost(m, e) => e \notin up'
               /\ Early(m) => m.dev \in up'
    BY <1>1, <1>3 DEF Raises, Ok, Lost, Early
  <2>2. up' \subseteq Devices /\ (\A e \in up \ up' : \E m \in ToSet(u) : Lost(m, e))
        /\ up' \ up = {}
    BY <1>1
  <2> QED
    BY <1>1, <1>3, <2>1, <2>2, OrderAdd DEF SInv
<1>10. RemovedInv'
  BY <1>3, RemovedAdd DEF SInv
<1>11. JoinInv'
  <2>1. \A e : Owner(e) => Owner(e)'
    BY <1>2, <1>3 DEF Owner
  <2> QED
    BY <1>2, <1>3, <1>4, <1>5, <2>1 DEF SInv, JoinInv
<1>12. ConnInv'
  <2>1. connection.device # None =>
          connection.device \in up' \/ \E m \in Told' : Lost(m, connection.device)
    BY <1>1, <1>2 DEF SInv, ConnInv
  <2> QED
    BY <1>6, <2>1 DEF SInv, ConnInv
<1>13. DevInv'
  BY <1>1, <1>2 DEF SInv, DevInv
<1>14. DialInv'
  BY <1>1, <1>2, <1>3 DEF SInv, DialInv
<1>15. SubInv'
  <2>1. \A m \in Called' \cup Told' : Subscribes(m) => m \in Called \cup Told
    BY <1>2, <1>3
  <2>2. \A m \in Told' : Subscribes(m) => m \in Told
    BY <1>2, <1>3
  <2>3. \A e : (e \in notifying \/ \E l \in Told : Lost(l, e)) =>
               (e \in notifying' \/ \E l \in Told' : Lost(l, e))
    BY <1>1, <1>2
  <2> QED
    BY <2>1, <2>2, <2>3 DEF SInv, SubInv
<1>16. WorkInv'
  <2>1. \A e : (e \in notifying \/ \E l \in Told : Lost(l, e)) =>
               (e \in notifying' \/ \E l \in Told' : Lost(l, e))
    BY <1>1, <1>2
  <2>2. invited' # {} => invited' = invited /\ invited # {} /\ d \notin invited
    BY <1>1 DEF SInv, WorkInv
  <2> QED
    BY <1>1, <1>6, <2>1, <2>2 DEF SInv, WorkInv
<1>17. EndInv'
  <2>1. ASSUME NEW m \in ToSet(u), Ends(m)
        PROVE  connection.device \in {None, m.n} /\ m.dev = m.n /\ m.n \notin up'
    <3>1. m.dev = d /\ \E c \in Called : Ends(c) /\ c.n = m.n /\ c.dev = d
      BY <1>3, <2>1
    <3>2. PICK c \in Called : Ends(c) /\ c.n = m.n /\ c.dev = d
      BY <3>1
    <3>3. connection.device \in {None, m.n} /\ c.dev = m.n
      BY <3>2 DEF SInv, EndInv
    <3> QED
      BY <1>1, <3>1, <3>2, <3>3
  <2> QED
    BY <1>1, <1>2, <2>1 DEF SInv, EndInv
<1>18. LookInv' /\ Chosen'
  BY <1>1, <1>6 DEF SInv, LookInv, Chosen
<1>19. StopInv'
  <2>1. \A e \in Devices : Subject(e)' => Subject(e)
    <3>1. \A m \in ToSet(u) : Token(m) => m.dev = d /\ Subject(d)
      <4>1. \A c : Ends(c) => Token(c)
        BY DEF Ends, Token
      <4> QED
        BY <1>3, <4>1 DEF Subject
    <3>2. \A e \in Devices : \A m \in Called' \cup Told' : Token(m) /\ m.dev = e => Subject(e)
      BY <1>2, <3>1 DEF Subject
    <3>3. \A e \in Devices : \A m \in Told' : Early(m) /\ m.dev = e => Subject(e)
      BY <1>5 DEF Subject
    <3>4. \A e \in Devices : e \in invited' => Subject(e)
      BY <1>1 DEF Subject
    <3>5. \A e \in Devices : Fresh(e)' => Subject(e)
      BY <1>4 DEF Subject
    <3>6. \A e \in Devices : proxy_in' = e \/ (Looking' /\ connection'.unicast = e) => Subject(e)
      BY <1>6 DEF Subject
    <3> QED
      BY <3>2, <3>3, <3>4, <3>5, <3>6 DEF Subject
  <2> QED
    BY <2>1, Idle DEF SInv, StopInv
<1> QED
  BY <1>8, <1>9, <1>10, <1>11, <1>12, <1>13, <1>14, <1>15, <1>16, <1>17, <1>18, <1>19 DEF SInv

\* Any other reply leaves the links; only a device that no stage is about, or that
\* is to be disconnected, loses its notifications.
LEMMA OtherReply ==
  ASSUME SInv, TypeOK', NEW i \in DOMAIN calls, NEW how \in {"ok", "pipe", "error"},
         Answers(i, <<Reply(calls[i], how)>>), UNCHANGED <<up, chars, invited>>,
         calls[i].what \in {"NotifyProv", "NotifyProxy", "StopNotify", "Disconnect"},
         calls[i].what = "Disconnect" => how = "error",
         notifying' = IF calls[i].what = "StopNotify" THEN notifying \ {calls[i].dev}
                      ELSE IF how # "error" THEN notifying \cup {calls[i].dev} ELSE notifying
  PROVE  SInv'
<1> DEFINE c == calls[i]
           r == Reply(c, how)
<1>1. c \in Msgs /\ r \in Msgs /\ <<r>> \in Seq(Msgs)
  <2>1. c \in Msgs
    BY DEF SInv, TypeOK
  <2> QED
    BY <2>1 DEF Reply, Msgs
<1>2. /\ r.what = c.what /\ r.dev = c.dev /\ r.n = c.n /\ r.how = how
      /\ OnceIn(<<r>>) /\ ToSet(<<r>>) = {r}
      /\ (Token(r) <=> Token(c)) /\ (Ends(r) <=> Ends(c)) /\ (Subscribes(r) <=> Subscribes(c))
  <2>1. /\ r.what = c.what /\ r.dev = c.dev /\ r.n = c.n /\ r.how = how
    BY <1>1 DEF Reply, Msgs
  <2> QED
    BY <2>1, FewMsgs DEF Token, Ends, Subscribes
<1>3. /\ UNCHANGED <<connection, proxy_in, discover_mesh, node, prov, member>>
      /\ bus' = bus \o <<r>> /\ Told' = Told \cup {r}
      /\ Called' \subseteq Called /\ Called \subseteq Called' \cup {c}
      /\ c \in Called /\ c.dev \in Devices
      /\ Token(c) => Free(calls') /\ Free(bus)
      /\ OneToken' /\ (("switch" \in upset') <=> ("switch" \in upset))
  BY <1>1, <1>2, AnswerFacts
<1>4. /\ c.what \in {"NotifyProv", "NotifyProxy", "StopNotify", "Disconnect"}
      /\ c.what = "Disconnect" => how = "error"
      /\ c.what = "StopNotify" => notifying' = notifying \ {c.dev}
      /\ c.what # "StopNotify" => notifying \subseteq notifying'
      /\ Subscribes(c) /\ how # "error" => c.dev \in notifying'
  BY DEF Subscribes
<1> HIDE DEF c, r
<1>5. /\ ~Early(r) /\ \A e : ~Raises(r, e) /\ ~Lost(r, e) /\ ~Ok(r, e)
      /\ r.what \notin {"Connect", "Resolved", "Removed"}
  BY <1>2, <1>4 DEF Early, Raises, Ok, Lost
<1>6. (Joining' <=> Joining) /\ (Opened' <=> Opened) /\ (Working' <=> Working)
      /\ (Looking' <=> Looking) /\ (Dialled => Dialled')
  BY <1>3, <1>4, <1>5 DEF Joining, Fresh, Opened, Working, Looking, Dialled
<1>7. ASSUME Free(calls) PROVE Free(calls') /\ ~Token(c)
  BY <1>3, <1>7 DEF Free, Called
<1>8. StageInv'
  <2>1. Free(calls) /\ Free(bus) => Free(calls') /\ Free(bus')
    BY <1>2, <1>3, <1>7 DEF Free, Told
  <2> QED
    BY <1>2, <1>3, <1>6, <1>7, <2>1 DEF SInv, StageInv
<1>9. OrderInv'
  <2>1. \A m \in ToSet(<<r>>) :
          /\ \A e \in Devices : Raises(m, e) => e \in up'
          /\ \A e \in Devices : Lost(m, e) => e \notin up'
          /\ Early(m) => m.dev \in up'
    BY <1>2, <1>5
  <2>2. up \subseteq Devices /\ up' \subseteq Devices /\ up \ up' = {} /\ up' \ up = {}
    BY DEF SInv, TypeOK
  <2>3. \A m \in ToSet(<<r>>) : ~Early(m) /\ m.what # "Connect" /\ m.what # "Resolved"
    BY <1>2, <1>5
  <2> QED
    BY <1>1, <1>3, <2>1, <2>2, <2>3, OrderAdd DEF SInv
<1>10. RemovedInv'
  BY <1>1, <1>2, <1>3, <1>5, RemovedAdd DEF SInv
<1>11. JoinInv'
  <2>1. \A e : Owner(e) => Owner(e)'
    BY <1>3, <1>5 DEF Owner
  <2> QED
    BY <1>3, <1>5, <2>1 DEF SInv, JoinInv, Fresh
<1>12. ConnInv'
  BY <1>3, <1>6 DEF SInv, ConnInv
<1>13. DevInv'
  BY <1>3 DEF SInv, DevInv
<1>14. DialInv'
  BY <1>3, <1>5 DEF SInv, DialInv
<1>15. ASSUME NEW e \in Devices, Subject(e), ~(c.what = "StopNotify" /\ Token(c)), e \in notifying
       PROVE  e \in notifying'
  <2>1. c.what = "StopNotify" => c.n = None
    BY <1>15 DEF Token
  <2> QED
    BY <1>3, <1>4, <1>15, <2>1 DEF SInv, StopInv
<1>16. SubInv'
  <2>1. ASSUME NEW m \in Told', Subscribes(m), m.how # "error", connection.data_in # None
        PROVE  m.dev \in notifying' \/ \E l \in Told' : Lost(l, m.dev)
    <3>1. CASE m \in Told
      <4>1. m.dev \in notifying \/ \E l \in Told : Lost(l, m.dev)
        BY <2>1, <3>1 DEF SInv, SubInv
      <4>2. Token(m) /\ m.dev \in Devices
        BY <2>1, <3>1, Idle DEF Subscribes, Token
      <4>3. ~Token(c)
        BY <1>3, <3>1, <4>2 DEF Free, Told
      <4> QED
        BY <1>3, <1>15, <3>1, <4>1, <4>2, <4>3 DEF Subject
    <3>2. CASE m = r
      BY <1>2, <1>4, <2>1, <3>2
    <3> QED
      BY <1>3, <3>1, <3>2
  <2>2. ASSUME NEW m \in Called' \cup Told', Subscribes(m)
        PROVE  /\ m.what = "NotifyProv" => m.n \in {None, m.dev}
               /\ m.what = "NotifyProxy" => m.dev \in member
               /\ connection.data_in # None =>
                    /\ connection.device = m.dev /\ connection.data_in = m.dev
                    /\ connection.data_out = m.dev
                    /\ (m.what = "NotifyProv") <=> (connection.type = "PROVISION")
    <3>1. CASE m \in Called \cup Told
      BY <2>2, <3>1 DEF SInv, SubInv
    <3>2. CASE m = r
      <4>1. c \in Called \cup Told /\ Subscribes(c)
        BY <1>2, <1>3, <2>2, <3>2
      <4> QED
        BY <1>2, <3>2, <4>1 DEF SInv, SubInv
    <3> QED
      BY <1>3, <3>1, <3>2
  <2> QED
    BY <1>3, <2>1, <2>2 DEF SubInv
<1>17. WorkInv'
  <2>1. ASSUME proxy_in # None PROVE proxy_in \in notifying' \/ \E m \in Told' : Lost(m, proxy_in)
    <3>1. proxy_in \in notifying \/ \E m \in Told : Lost(m, proxy_in)
      BY <2>1 DEF SInv, WorkInv
    <3>2. Working /\ proxy_in \in Devices
      BY <2>1 DEF SInv, WorkInv, Working, TypeOK, Maybe
    <3>3. ~Token(c)
      BY <1>3, <3>2, Idle
    <3> QED
      BY <1>3, <1>15, <3>1, <3>2, <3>3 DEF Subject
  <2> QED
    BY <1>3, <1>6, <2>1 DEF SInv, WorkInv
<1>18. EndInv'
  <2>1. ASSUME NEW m \in Called' \cup Told', Ends(m)
        PROVE  connection.device \in {None, m.n} /\ m.dev = m.n
    <3>1. CASE m \in Called \cup Told
      BY <2>1, <3>1 DEF SInv, EndInv
    <3>2. CASE m = r
      BY <1>2, <1>3, <2>1, <3>2 DEF SInv, EndInv
    <3> QED
      BY <1>3, <3>1, <3>2
  <2>2. r.what = "Disconnect" => r.how = "error"
    BY <1>2, <1>4
  <2> QED
    BY <1>3, <2>1, <2>2 DEF SInv, EndInv
<1>19. LookInv' /\ Chosen'
  BY <1>3, <1>6 DEF SInv, LookInv, Chosen
<1>20. StopInv'
  <2>1. ASSUME NEW e \in Devices, Subject(e)' PROVE Subject(e)
    <3>1. ASSUME NEW m \in Called' \cup Told', Token(m), m.dev = e PROVE Subject(e)
      BY <1>2, <1>3, <3>1 DEF Subject
    <3>2. \A m \in Told' : Early(m) => m \in Told
      BY <1>3, <1>5
    <3> QED
      BY <1>3, <1>6, <2>1, <3>1, <3>2 DEF Subject, Fresh
  <2> QED
    BY <1>3, <2>1, Idle DEF SInv, StopInv
<1> QED
  BY <1>3, <1>8, <1>9, <1>10, <1>11, <1>12, <1>13, <1>14, <1>16, <1>17, <1>18, <1>19, <1>20
  DEF SInv

\* A reply and a signal, in either order.
LEMMA TwoMsgs ==
  ASSUME NEW a \in Msgs, NEW b \in Msgs, ~Token(b), NEW u, u \in {<<a, b>>, <<b, a>>}
  PROVE  u \in Seq(Msgs) /\ ToSet(u) = {a, b} /\ OnceIn(u)
<1>1. CASE u = <<a, b>>
  <2>1. <<a, b>> \in Seq(Msgs)
    OBVIOUS
  <2>2. ToSet(<<a, b>>) = {a, b} /\ OnceIn(<<a, b>>)
    BY FewMsgs
  <2> QED
    BY <1>1, <2>1, <2>2
<1>2. CASE u = <<b, a>>
  <2>1. <<b, a>> \in Seq(Msgs)
    OBVIOUS
  <2>2. ToSet(<<b, a>>) = {b, a} /\ OnceIn(<<b, a>>) /\ {b, a} = {a, b}
    BY FewMsgs
  <2> QED
    BY <1>2, <2>1, <2>2
<1> QED
  BY <1>1, <1>2

LEMMA ConnectStep ==
  ASSUME SInv, TypeOK', NEW i \in DOMAIN calls, ConnectDone(i)
  PROVE  SInv'
<1> DEFINE c == calls[i]
           s == Signal("Connected", c.dev)
<1>1. c \in Msgs /\ c.dev \in Devices /\ c.what = "Connect" /\ c \in Called
  BY MsgFields, AnsweredMsgs DEF ConnectDone, SInv, TypeOK, Called, OneToken
<1>2. c.dev \notin up
  BY <1>1 DEF SInv, DialInv
<1>3. \A how \in {"ok", "error"} : Reply(c, how) \in Msgs /\ Reply(c, how).what = "Connect"
  BY <1>1 DEF Reply, Msgs
<1>4. s \in Msgs /\ s.what = "Connected" /\ ~Token(s)
  BY <1>1, MsgType DEF Signal, Msg, Maybe, Token
<1>5. CASE Answers(i, <<Reply(c, "error")>>) /\ UNCHANGED links
  <2> DEFINE u == <<Reply(c, "error")>>
  <2>1. u \in Seq(Msgs) /\ ToSet(u) = {Reply(c, "error")} /\ OnceIn(u)
    BY <1>3, FewMsgs
  <2>2. \A m \in ToSet(u) : m.what # "Resolved"
    BY <1>3, <2>1
  <2>3. Answers(i, u) /\ UNCHANGED <<up, chars, notifying, invited>>
    BY <1>5 DEF links
  <2> HIDE DEF u
  <2> QED
    BY <1>1, <2>1, <2>2, <2>3, ConnectAnswer
<1>6. ASSUME NEW u, u \in {<<Reply(c, "ok"), s>>, <<s, Reply(c, "ok")>>}, Answers(i, u),
             up' = up \cup {c.dev}, UNCHANGED <<chars, notifying, invited>>
      PROVE  SInv'
  <2>1. u \in Seq(Msgs) /\ ToSet(u) = {Reply(c, "ok"), s} /\ OnceIn(u)
    BY <1>3, <1>4, <1>6, TwoMsgs
  <2>2. \A m \in ToSet(u) : m.what # "Resolved"
    BY <1>3, <1>4, <2>1
  <2> QED
    BY <1>1, <1>6, <2>1, <2>2, ConnectAnswer
<1> QED
  BY <1>2, <1>5, <1>6 DEF ConnectDone

LEMMA DisconnectStep ==
  ASSUME SInv, TypeOK', NEW i \in DOMAIN calls, DisconnectDone(i)
  PROVE  SInv'
<1> DEFINE c == calls[i]
           r == Reply(c, "ok")
           s == Signal("Disconnected", c.dev)
<1>1. c \in Msgs /\ c.dev \in Devices /\ c.what = "Disconnect"
  BY MsgFields DEF DisconnectDone, SInv, TypeOK
<1>2. CASE Answers(i, <<Reply(c, "error")>>) /\ UNCHANGED links
  BY <1>1, <1>2, OtherReply DEF links
<1>3. ASSUME NEW u, u \in {<<r, s>>, <<s, r>>}, Answers(i, u), c.dev \in up, Down(c.dev)
      PROVE  SInv'
  <2>1. /\ r \in Msgs /\ r.what = "Disconnect" /\ r.dev = c.dev /\ r.n = c.n
        /\ s \in Msgs /\ s.what = "Disconnected" /\ s.dev = c.dev
    BY <1>1, MsgType DEF Reply, Signal, Msg, Msgs, Maybe
  <2>2. /\ Lost(s, c.dev) /\ ~Token(s) /\ (Token(r) <=> Token(c)) /\ (Token(c) <=> Ends(c))
    BY <1>1, <2>1 DEF Lost, Token, Ends
  <2>3. u \in Seq(Msgs) /\ ToSet(u) = {r, s} /\ OnceIn(u)
    BY <1>3, <2>1, <2>2, TwoMsgs
  <2>4. /\ UNCHANGED <<connection, proxy_in, discover_mesh, node, prov, member>>
        /\ bus' = bus \o u
        /\ Called' \subseteq Called /\ Called \subseteq Called' \cup {c}
        /\ c \in Called /\ OneToken' /\ (("switch" \in upset') <=> ("switch" \in upset))
    BY <1>3, <2>2, <2>3, AnswerFacts
  <2>5. \A m \in Called : m.what = "Connect" => m \in Called'
    BY <1>1, <2>4
  <2>6. \A m \in ToSet(u) :
          \/ Lost(m, c.dev)
          \/ /\ m.what = "Disconnect" /\ m.dev = c.dev
             /\ Token(m) => \E e \in Called : Ends(e) /\ e.n = m.n /\ e.dev = c.dev
    BY <2>1, <2>2, <2>3, <2>4
  <2>7. \E m \in ToSet(u) : Lost(m, c.dev)
    BY <2>2, <2>3
  <2> QED
    BY <1>3, <2>3, <2>4, <2>5, <2>6, <2>7, DownStep
<1> QED
  BY <1>2, <1>3 DEF DisconnectDone

LEMMA DaemonStep ==
  ASSUME SInv, TypeOK', NEW i \in DOMAIN calls, Daemon(i)
  PROVE  SInv'
<1>1. CASE NotifyDone(i)
  <2>1. PICK how \in IF calls[i].dev \in up THEN {"pipe", "ok", "error"} ELSE {"error"} :
          /\ Answers(i, <<Reply(calls[i], how)>>)
          /\ notifying' = IF calls[i].what = "StopNotify" THEN notifying \ {calls[i].dev}
                          ELSE IF how # "error" THEN notifying \cup {calls[i].dev} ELSE notifying
    BY <1>1 DEF NotifyDone
  <2>2. /\ calls[i].what \in {"NotifyProv", "NotifyProxy", "StopNotify"} /\ how \in {"ok", "pipe", "error"}
        /\ UNCHANGED <<up, chars, invited>>
    BY <1>1 DEF NotifyDone
  <2> QED
    BY <2>1, <2>2, OtherReply
<1> QED
  BY <1>1, ConnectStep, DisconnectStep DEF Daemon
-----------------------------------------------------------------------------
(* bluetoothd reports a link. *)

LEMMA ReportFacts ==
  ASSUME SInv, NEW m \in Msgs, Reports(m)
  PROVE  /\ UNCHANGED <<connection, proxy_in, discover_mesh, node, prov, calls, member>>
         /\ bus' = bus \o <<m>> /\ <<m>> \in Seq(Msgs) /\ ToSet(<<m>>) = {m} /\ Len(<<m>>) = 1
         /\ Told' = Told \cup {m} /\ Called' = Called /\ OnceIn(bus) /\ OnceIn(<<m>>)
         /\ ~Token(m) => OneToken'
<1>1. /\ UNCHANGED <<connection, proxy_in, discover_mesh, node, prov, calls, member>>
      /\ bus' = Append(bus, m) /\ bus \in Seq(Msgs) /\ OneToken
  BY DEF Reports, net, attempts, SInv, TypeOK
<1>2. bus' = bus \o <<m>> /\ <<m>> \in Seq(Msgs) /\ ToSet(<<m>>) = {m} /\ OnceIn(<<m>>)
      /\ Len(<<m>>) = 1
  BY <1>1, FewMsgs
<1>3. Told' = Told \cup {m} /\ Called' = Called /\ (Free(<<m>>) /\ OnceIn(bus) => OnceIn(bus'))
  BY <1>1, <1>2, AddedMsgs DEF Told, Called
<1>4. ~Token(m) => OneToken'
  <2> SUFFICES ASSUME ~Token(m) PROVE OneToken'
    OBVIOUS
  <2>1. Free(<<m>>) /\ (Free(bus) => Free(bus'))
    BY <1>2, <1>3 DEF Free, Told
  <2> QED
    BY <1>1, <1>3, <2>1 DEF OneToken
<1> QED
  BY <1>1, <1>2, <1>3, <1>4 DEF OneToken

\* The services of a link are known; it was the only one they were not known of.
LEMMA ResolvedStep ==
  ASSUME SInv, TypeOK', NEW d \in Devices, ServicesResolved(d)
  PROVE  SInv'
<1> DEFINE s == Signal("Resolved", d)
<1>1. /\ Fresh(d) /\ Reports(s) /\ UNCHANGED <<up, notifying, invited, upset>>
      /\ chars' = [chars EXCEPT ![d] = IF d \in member THEN "proxy" ELSE "prov"]
  BY DEF ServicesResolved, Fresh
<1>2. s \in Msgs /\ s.what = "Resolved" /\ s.dev = d
  BY MsgType DEF Signal, Msg, Maybe
<1> HIDE DEF s
<1>3. /\ UNCHANGED <<connection, proxy_in, discover_mesh, node, prov, calls, member>>
      /\ bus' = bus \o <<s>> /\ <<s>> \in Seq(Msgs) /\ ToSet(<<s>>) = {s} /\ Len(<<s>>) = 1
      /\ Told' = Told \cup {s} /\ Called' = Called /\ OneToken'
  BY <1>1, <1>2, ReportFacts DEF Token
<1>4. /\ Joining /\ ~Working /\ ~Looking /\ Owner(d) /\ \A m \in Told : m.what # "Resolved"
  BY <1>1 DEF Joining, SInv, StageInv, JoinInv
<1>5. /\ Early(s) /\ ~Token(s) /\ \A e : ~Raises(s, e) /\ ~Lost(s, e)
      /\ s.what \notin {"Connect", "Removed"} /\ ~Subscribes(s) /\ ~Ends(s)
  BY <1>2 DEF Early, Token, Raises, Ok, Lost, Subscribes, Ends
<1>6. \A e \in Devices : ~Fresh(e)'
  <2> SUFFICES ASSUME NEW e \in Devices, Fresh(e)' PROVE FALSE
    OBVIOUS
  <2>1. Fresh(e) /\ e # d
    BY <1>1 DEF Fresh, SInv, TypeOK
  <2>2. Owner(e)
    BY <2>1 DEF SInv, JoinInv
  <2>3. \A m, k \in Told : Ok(m, d) /\ Ok(k, e) => m = k
    BY TokenUnique DEF Ok, Token, SInv
  <2> QED
    BY <1>4, <2>1, <2>2, <2>3 DEF Owner, Ok
<1>7. (Opened' <=> Opened) /\ ~Working' /\ ~Looking' /\ (Dialled <=> Dialled') /\ ~Opened
      /\ invited = {} /\ proxy_in = None
  BY <1>1, <1>3, <1>4, <1>5, Idle DEF Opened, Working, Looking, Dialled
<1>8. StageInv'
  <2>1. Free(calls) /\ \A m \in Told : Token(m) => Ok(m, m.dev)
    BY <1>4 DEF SInv, StageInv
  <2> QED
    BY <1>3, <1>5, <1>7, <2>1 DEF StageInv
<1>9. OrderInv'
  <2>1. up \subseteq Devices /\ up' \subseteq Devices /\ d \in up'
    BY <1>1 DEF SInv, TypeOK, Fresh
  <2> QED
    BY <1>1, <1>2, <1>3, <1>4, <1>5, <2>1, OrderAdd DEF SInv
<1>10. RemovedInv'
  BY <1>3, <1>5, RemovedAdd DEF SInv
<1>11. JoinInv'
  <2>1. \A e : Owner(e) => Owner(e)'
    BY <1>3, <1>5 DEF Owner
  <2> QED
    BY <1>2, <1>3, <1>4, <1>6, <2>1 DEF SInv, JoinInv
<1>12. ConnInv'
  BY <1>1, <1>3, <1>7 DEF SInv, ConnInv
<1>13. DevInv'
  BY <1>1, <1>3 DEF SInv, DevInv, TypeOK
<1>14. DialInv'
  BY <1>1, <1>3, <1>5 DEF SInv, DialInv
<1>15. SubInv' /\ EndInv'
  BY <1>1, <1>3, <1>5 DEF SInv, SubInv, EndInv
<1>16. WorkInv' /\ LookInv' /\ Chosen'
  BY <1>1, <1>3, <1>7 DEF WorkInv, LookInv, SInv, Chosen
<1>17. StopInv'
  <2>1. Subject(d)
    BY <1>1 DEF Subject
  <2>2. ASSUME NEW e \in Devices, Subject(e)' PROVE Subject(e)
    BY <1>1, <1>2, <1>3, <1>5, <1>6, <1>7, <2>1, <2>2 DEF Subject
  <2> QED
    BY <1>3, <2>2, Idle DEF SInv, StopInv
<1> QED
  BY <1>3, <1>8, <1>9, <1>10, <1>11, <1>12, <1>13, <1>14, <1>15, <1>16, <1>17 DEF SInv

\* In the orderly case a lost link is told by the signal Disconnected.
LEMMA LostStep ==
  ASSUME SInv, TypeOK', Env = {}, NEW d \in Devices, LinkLost(d)
  PROVE  SInv'
<1> DEFINE s == Signal("Disconnected", d)
<1>1. d \in up /\ Down(d) /\ Reports(s) /\ (("switch" \in upset') <=> ("switch" \in upset))
  BY DEF LinkLost
<1>2. s \in Msgs /\ s.what = "Disconnected" /\ s.dev = d
  BY MsgType DEF Signal, Msg, Maybe
<1> HIDE DEF s
<1>3. Lost(s, d) /\ ~Token(s)
  BY <1>2 DEF Lost, Token
<1>4. /\ UNCHANGED <<connection, proxy_in, discover_mesh, node, prov, calls, member>>
      /\ bus' = bus \o <<s>> /\ <<s>> \in Seq(Msgs) /\ ToSet(<<s>>) = {s}
      /\ Called' = Called /\ OneToken'
  BY <1>1, <1>2, <1>3, ReportFacts
<1> DEFINE u == <<s>>
<1>5. u \in Seq(Msgs) /\ bus' = bus \o u /\ ToSet(u) = {s}
  BY <1>4
<1> HIDE DEF u
<1> QED
  BY <1>1, <1>3, <1>4, <1>5, DownStep

\* A device without a link is dropped.
LEMMA ForgottenStep ==
  ASSUME SInv, TypeOK', NEW d \in Devices, Forgotten(d)
  PROVE  SInv'
<1> DEFINE s == Signal("Removed", d)
<1>1. d \notin up /\ Reports(s) /\ UNCHANGED <<up, chars, notifying, invited, upset>>
  BY DEF Forgotten, links
<1>2. s \in Msgs /\ s.what = "Removed" /\ s.dev = d
  BY MsgType DEF Signal, Msg, Maybe
<1> HIDE DEF s
<1>3. /\ ~Early(s) /\ ~Token(s) /\ \A e : ~Raises(s, e) /\ ~Lost(s, e) /\ ~Ok(s, e)
      /\ s.what \notin {"Connect", "Resolved"} /\ ~Subscribes(s) /\ ~Ends(s)
  BY <1>2 DEF Early, Token, Raises, Ok, Lost, Subscribes, Ends
<1>4. /\ UNCHANGED <<connection, proxy_in, discover_mesh, node, prov, calls, member>>
      /\ bus' = bus \o <<s>> /\ <<s>> \in Seq(Msgs) /\ ToSet(<<s>>) = {s} /\ Len(<<s>>) = 1
      /\ Told' = Told \cup {s} /\ Called' = Called /\ OneToken'
  BY <1>1, <1>2, <1>3, ReportFacts
<1>5. (Joining' <=> Joining) /\ (Opened' <=> Opened) /\ (Working' <=> Working)
      /\ (Looking' <=> Looking) /\ (Dialled <=> Dialled')
  BY <1>1, <1>3, <1>4 DEF Joining, Fresh, Opened, Working, Looking, Dialled
<1>6. StageInv'
  <2>1. (Free(bus) => Free(bus')) /\ (Free(calls) => Free(calls'))
    BY <1>3, <1>4 DEF Free, Told
  <2> QED
    BY <1>3, <1>4, <1>5, <2>1 DEF SInv, StageInv
<1>7. OrderInv'
  <2>1. up \subseteq Devices /\ up' \subseteq Devices
    BY DEF SInv, TypeOK
  <2> QED
    BY <1>1, <1>2, <1>3, <1>4, <2>1, OrderAdd DEF SInv
<1>8. RemovedInv'
  BY <1>1, <1>2, <1>4, RemovedAdd DEF SInv
<1>9. JoinInv'
  <2>1. \A e : Owner(e) => Owner(e)'
    BY <1>3, <1>4 DEF Owner
  <2> QED
    BY <1>1, <1>3, <1>4, <2>1 DEF SInv, JoinInv, Fresh
<1>10. ConnInv' /\ DevInv'
  BY <1>1, <1>4, <1>5 DEF SInv, ConnInv, DevInv
<1>11. DialInv' /\ SubInv' /\ EndInv'
  BY <1>1, <1>3, <1>4 DEF SInv, DialInv, SubInv, EndInv
<1>12. WorkInv' /\ LookInv' /\ Chosen'
  BY <1>1, <1>4, <1>5 DEF SInv, WorkInv, LookInv, Chosen
<1>13. StopInv'
  <2>1. \A e : Subject(e)' => Subject(e)
    BY <1>1, <1>3, <1>4, <1>5 DEF Subject, Fresh
  <2> QED
    BY <1>4, <2>1 DEF SInv, StopInv
<1> QED
  BY <1>4, <1>6, <1>7, <1>8, <1>9, <1>10, <1>11, <1>12, <1>13 DEF SInv
-----------------------------------------------------------------------------
(* The orderly case. *)

LEMMA InitInv == Init => SInv
<1> SUFFICES ASSUME Init PROVE SInv
  OBVIOUS
<1>1. TypeOK /\ Called = {} /\ Told = {} /\ Free(calls) /\ Free(bus)
  BY InitTypes, FewMsgs DEF Init, Called, Told
<1>2. /\ connection.device = None /\ connection.data_in = None /\ connection.data_out = None
      /\ ~connection.session_open /\ connection.type = "NETWORK"
  BY DEF Init, Zero
<1>3. ~Joining /\ ~Opened /\ ~Working /\ ~Looking
  BY <1>1, <1>2 DEF Init, Joining, Fresh, Opened, Working, Looking
<1>4. OneToken /\ DialInv /\ SubInv /\ EndInv
  BY <1>1, NoTokenParts
<1>5. OrderInv /\ RemovedInv
  BY DEF Init, OrderInv, RemovedInv
<1>6. StageInv /\ JoinInv /\ ConnInv /\ WorkInv /\ LookInv
  BY <1>1, <1>2, <1>3 DEF Init, StageInv, JoinInv, Joining, ConnInv, WorkInv, LookInv
<1>7. DevInv /\ StopInv /\ Chosen
  BY <1>1 DEF Init, DevInv, StopInv, Chosen
<1> QED
  BY <1>1, <1>4, <1>5, <1>6, <1>7 DEF SInv

LEMMA InvStep == Env = {} /\ SInv /\ [Next]_vars => SInv'
<1> SUFFICES ASSUME Env = {}, SInv, [Next]_vars PROVE SInv'
  OBVIOUS
<1>1. TypeOK'
  BY TypesStep DEF SInv
<1>2. CASE UNCHANGED vars
  <2>1. UNCHANGED <<connection, proxy_in, discover_mesh, node, prov, calls, bus, up, chars,
                    notifying, invited, member, upset>>
    BY <1>2 DEF vars, net, attempts, daemon
  <2> QED
    BY <1>1, <2>1, FrameStep DEF SInv, DevInv
<1>3. CASE Next
  BY <1>1, <1>3, StartStep, HandlerStep, QuietStep, FoundStep, DoneStep, DaemonStep, ResolvedStep,
     LostStep, ForgottenStep DEF Next
<1> QED
  BY <1>2, <1>3

LEMMA Orderly == Env = {} /\ Spec => []SInv
<1>1. CASE Env = {}
  <2>1. SInv /\ [Next]_vars => SInv'
    BY <1>1, InvStep
  <2> QED
    BY <2>1, InitInv, PTL DEF Spec
<1>2. CASE Env # {}
  BY <1>2
<1> QED
  BY <1>1, <1>2
-----------------------------------------------------------------------------
(* The node of an attempt is still there, and not provisioned. *)

NewInv ==
  /\ \A n \in Devices : prov[n] # None => node[n] = "new"
  /\ \A n \in Devices : node[n] = "provisioned" => n \in member
  /\ \A m \in Called \cup Told : m.what = "NotifyProv" /\ m.n # None => node[m.n] = "new"
  /\ \A m \in Told : m.what = "Resolved" /\ chars[m.dev] = "prov" => m.dev \notin member

\* A step that changes no node, subscribes to nothing and resolves no services.
Unrelated ==
  /\ UNCHANGED <<node, prov, member>>
  /\ \A m \in Called' \cup Told' : m.what = "NotifyProv" =>
       \E o \in Called \cup Told : o.what = "NotifyProv" /\ o.n = m.n
  /\ \A m \in Told' : m.what = "Resolved" => m \in Told
  /\ \A d \in Devices : chars'[d] \in {chars[d], "none"}

LEMMA UnrelatedStep ==
  ASSUME SInv, NewInv, Unrelated PROVE NewInv'
<1>1. \A m \in Told : m.dev \in Devices
  BY MsgFields DEF SInv, TypeOK, Told, ToSet
<1>2. \A m \in Told' : m.what = "Resolved" /\ chars'[m.dev] = "prov" => m.dev \notin member'
  BY <1>1 DEF NewInv, Unrelated
<1> QED
  BY <1>2 DEF NewInv, Unrelated

\* Calls that only disconnect.
LEMMA DisconnectsAdded ==
  ASSUME SInv, NEW t \in Seq(Msgs), calls' = calls \o t,
         \A m \in ToSet(t) : m.what # "NotifyProv"
  PROVE  \A m \in Called' : m.what = "NotifyProv" => m \in Called
<1>1. Called' = Called \cup ToSet(t)
  BY AddedMsgs DEF SInv, TypeOK, Called
<1> QED
  BY <1>1

LEMMA NewStart ==
  ASSUME SInv, NewInv, NEW d \in Devices, cmd_start_prov(d) PROVE NewInv'
<1> DEFINE old == disconnect_calls(connection, None, notify_io)
           connect == IF node[d] = "new" /\ d \in mesh_devices
                      THEN <<Msg("Connect", d, None, "call")>> ELSE <<>>
<1>1. connection \in Connections /\ calls \in Seq(Msgs) /\ None \in Maybe
  BY DEF SInv, TypeOK, Maybe
<1>2. old \in Seq(Msgs) /\ \A m \in ToSet(old) : m.what # "NotifyProv"
  BY <1>1, CallTypes, DisconnectMsgs
<1>3. connect \in Seq(Msgs) /\ \A m \in ToSet(connect) : m.what # "NotifyProv"
  <2> DEFINE m == Msg("Connect", d, None, "call")
  <2>1. m \in Msgs /\ m.what # "NotifyProv"
    BY <1>1, MsgType DEF Msg
  <2>2. connect = <<m>> \/ connect = <<>>
    OBVIOUS
  <2> HIDE DEF m, connect
  <2>3. CASE connect = <<m>>
    <3>1. <<m>> \in Seq(Msgs)
      BY <2>1
    <3> QED
      BY <2>1, <2>3, <3>1, FewMsgs, Zenon
  <2>4. CASE connect = <<>>
    <3>1. <<>> \in Seq(Msgs)
      OBVIOUS
    <3> QED
      BY <2>4, <3>1, FewMsgs, Zenon
  <2> QED
    BY <2>2, <2>3, <2>4
<1>4. calls' = (calls \o old) \o connect
  BY DEF cmd_start_prov
<1> HIDE DEF old, connect
<1>5. ToSet((calls \o old) \o connect) = Called \cup ToSet(old) \cup ToSet(connect)
  <2>1. calls \o old \in Seq(Msgs) /\ ToSet(calls \o old) = Called \cup ToSet(old)
    BY <1>1, <1>2, AddedMsgs DEF Called
  <2> HIDE DEF Called
  <2> DEFINE s == calls \o old
  <2>2. s \in Seq(Msgs) /\ ToSet(s) = Called \cup ToSet(old)
    BY <2>1
  <2> HIDE DEF s
  <2>3. ToSet(s \o connect) = ToSet(s) \cup ToSet(connect)
    BY <1>3, <2>2, AddedMsgs
  <2> QED
    BY <2>2, <2>3 DEF s
<1>6. \A m \in Called' : m.what = "NotifyProv" => m \in Called
  BY <1>2, <1>3, <1>4, <1>5 DEF Called
<1>7. UNCHANGED <<node, prov, member, bus, chars>>
  BY DEF cmd_start_prov, attempts
<1>8. Unrelated
  BY <1>6, <1>7 DEF Unrelated, Told
<1> QED
  BY <1>8, UnrelatedStep

LEMMA NewSetup ==
  ASSUME SInv, NewInv, mesh_session_setup PROVE NewInv'
<1>1. /\ bus # <<>> /\ bus' = Tail(bus) /\ Rx.what = "Resolved"
      /\ UNCHANGED <<node, prov, member, up, chars>>
  BY DEF mesh_session_setup, Handles, attempts, daemon
<1>2. /\ Rx \in Told /\ Rx.dev \in Devices /\ Told' \subseteq Told
  BY <1>1, HandleFacts
<1>3. /\ connection.device = Rx.dev
      /\ connection.type = "PROVISION" => connection.dev_uuid = Rx.dev
  BY <1>1, ResolvedFacts
<1> DEFINE char == get_characteristic(SetupService)
           what == IF SetupService = "prov" THEN "NotifyProv" ELSE "NotifyProxy"
           call == Msg(what, char, SetupNode, "call")
<1>4. SetupNode \in Maybe /\ char \in Maybe
  BY ConnType DEF SInv, TypeOK, SetupNode, get_characteristic, Maybe
<1>5. UNCHANGED calls \/ (char # None /\ calls' = Append(calls, call))
  BY DEF mesh_session_setup
<1>6. CASE UNCHANGED calls
  <2>1. Unrelated
    BY <1>1, <1>2, <1>6 DEF Unrelated, Called
  <2> QED
    BY <2>1, UnrelatedStep
<1>7. CASE char # None /\ calls' = Append(calls, call)
  <2>1. call \in Msgs /\ call.what = what /\ call.n = SetupNode
    BY <1>4, <1>7, MsgType DEF Maybe, Msg
  <2>2. SetupService = "prov" /\ SetupNode # None => node[SetupNode] = "new"
    <3> SUFFICES ASSUME SetupService = "prov", SetupNode # None PROVE node[SetupNode] = "new"
      OBVIOUS
    <3>1. connection.type = "PROVISION"
      BY DEF SetupService
    <3>2. SetupNode = Rx.dev /\ node[Rx.dev] # "none"
      BY <1>3, <3>1 DEF SetupNode
    <3>3. chars[Rx.dev] = "prov"
      BY <1>3, <1>7 DEF get_characteristic
    <3>4. Rx.dev \notin member
      BY <1>1, <1>2, <3>3 DEF NewInv
    <3>5. node[Rx.dev] \in {"none", "new", "provisioned"}
      BY <1>2 DEF SInv, TypeOK
    <3> QED
      BY <1>2, <3>2, <3>4, <3>5 DEF NewInv
  <2> HIDE DEF call, char
  <2>3. Called' = Called \cup {call}
    <3>1. calls' = calls \o <<call>> /\ <<call>> \in Seq(Msgs) /\ ToSet(<<call>>) = {call}
      BY <1>7, <2>1, FewMsgs DEF SInv, TypeOK
    <3> QED
      BY <3>1, AddedMsgs DEF SInv, TypeOK, Called
  <2>4. call.what = "NotifyProv" => SetupService = "prov"
    BY <2>1
  <2> QED
    BY <1>1, <1>2, <2>1, <2>2, <2>3, <2>4 DEF NewInv
<1> QED
  BY <1>5, <1>6, <1>7

LEMMA NewNotify ==
  ASSUME SInv, NewInv, notify_prov_out_cb PROVE NewInv'
<1>1. /\ bus # <<>> /\ bus' = Tail(bus) /\ Rx.what = "NotifyProv" /\ Token(Rx)
      /\ UNCHANGED <<up, chars, member>>
  BY DEF notify_prov_out_cb, Handles, Token
<1>2. Rx \in Told /\ Rx.n \in Maybe /\ Told' \subseteq Told
  BY <1>1, HandleFacts
<1>3. \A m \in Called \cup Told' : m.what # "NotifyProv"
  BY <1>1, ReplyFacts DEF Token
<1>4. /\ node \in [Devices -> {"none", "new", "provisioned"}] /\ prov \in [Devices -> Maybe]
      /\ connection \in Connections /\ None \in Maybe
  BY DEF SInv, TypeOK, Maybe
<1>5. CASE UNCHANGED <<node, prov, calls>>
  <2>1. Unrelated
    BY <1>1, <1>2, <1>5 DEF Unrelated, Called
  <2> QED
    BY <2>1, UnrelatedStep
<1>6. CASE Rx.n # None /\ prov_open(Rx.n)
  <2>1. Rx.n \in Devices /\ node[Rx.n] = "new"
    BY <1>1, <1>2, <1>6 DEF NewInv, Maybe
  <2>2. prov' = [prov EXCEPT ![Rx.n] = connection.data_in] /\ UNCHANGED <<node, calls>>
    BY <1>6 DEF prov_open
  <2> QED
    BY <1>1, <1>2, <1>3, <1>4, <2>1, <2>2 DEF NewInv, Called
<1>7. CASE Rx.n # None /\ prov_open_fails(Rx.n)
  <2> DEFINE t == disconnect_calls(connection, None, NotifyIo)
  <2>1. Rx.n \in Devices /\ node_free(Rx.n) /\ calls' = calls \o t
    BY <1>2, <1>7 DEF prov_open_fails, Maybe
  <2>2. t \in Seq(Msgs) /\ \A m \in ToSet(t) : m.what # "NotifyProv"
    BY <1>4, CallTypes, DisconnectMsgs
  <2> HIDE DEF t
  <2>3. \A m \in Called' \cup Told' : m.what # "NotifyProv"
    BY <1>3, <2>1, <2>2, DisconnectsAdded
  <2> QED
    BY <1>1, <1>2, <1>4, <2>1, <2>3 DEF NewInv, node_free
<1> QED
  BY <1>5, <1>6, <1>7 DEF notify_prov_out_cb, attempts

\* The other handlers subscribe to nothing.
LEMMA NewHandler ==
  ASSUME SInv, NewInv, Handler PROVE NewInv'
<1>1. CASE mesh_session_setup \/ notify_prov_out_cb
  BY <1>1, NewSetup, NewNotify
<1>2. CASE \/ connect_reply \/ property_changed_Connected \/ property_changed_Disconnected
           \/ notify_proxy_out_cb \/ prov_disconn_reply \/ device_removed
  <2>1. /\ bus # <<>> /\ bus' = Tail(bus)
        /\ UNCHANGED <<calls, node, prov, member, chars>>
    BY <1>2 DEF Handles, connect_reply, property_changed_Connected,
       property_changed_Disconnected, notify_proxy_out_cb, prov_disconn_reply,
       device_removed, attempts, daemon
  <2>2. Told' \subseteq Told /\ Called' = Called
    BY <2>1, HandleFacts DEF Called
  <2>3. Unrelated
    BY <2>1, <2>2 DEF Unrelated
  <2> QED
    BY <2>3, UnrelatedStep
<1>3. CASE disc_notify_cb
  <2> DEFINE t == DisconnectCall(connection.device, Rx.n)
  <2>1. /\ bus # <<>> /\ bus' = Tail(bus) /\ calls' = calls \o t
        /\ UNCHANGED <<node, prov, member, chars>>
    BY <1>3 DEF Handles, disc_notify_cb, attempts, daemon
  <2>2. Told' \subseteq Told /\ Rx.n \in Maybe
    BY <2>1, HandleFacts
  <2>3. t \in Seq(Msgs)
    BY <2>2, CallTypes DEF SInv, TypeOK
  <2>4. \A m \in ToSet(t) : m.what # "NotifyProv"
    BY FewMsgs DEF DisconnectCall, Msg
  <2> HIDE DEF t
  <2>5. \A m \in Called' : m.what = "NotifyProv" => m \in Called
    BY <2>1, <2>3, <2>4, DisconnectsAdded
  <2>6. Unrelated
    BY <2>1, <2>2, <2>5 DEF Unrelated
  <2> QED
    BY <2>6, UnrelatedStep
<1> QED
  BY <1>1, <1>2, <1>3 DEF Handler

LEMMA NewDone ==
  ASSUME SInv, NewInv, NEW n \in Devices, NEW status \in {0, 1}, mesh_prov_done(n, status)
  PROVE  NewInv'
<1> DEFINE k == IF status = 0 THEN n ELSE None
           t == disconnect_calls(connection, k, notify_io)
<1>1. prov[n] \in invited /\ calls' = calls \o t /\ UNCHANGED <<bus, chars>>
  BY DEF mesh_prov_done
<1>2. /\ connection \in Connections /\ k \in Maybe /\ invited \subseteq Devices
      /\ node \in [Devices -> {"none", "new", "provisioned"}] /\ prov \in [Devices -> Maybe]
  BY DEF SInv, TypeOK, Maybe
<1>3. prov[n] = n
  BY <1>1, <1>2, SessionAssumption DEF SInv, Chosen
<1>4. Free(calls) /\ Free(bus) /\ ~Joining
  BY <1>1 DEF SInv, StageInv, Working
<1>5. t \in Seq(Msgs) /\ \A m \in ToSet(t) : m.what # "NotifyProv"
  BY <1>2, CallTypes, DisconnectMsgs
<1> HIDE DEF t, k
<1>6. \A m \in Called' \cup Told' : m.what # "NotifyProv"
  BY <1>1, <1>4, <1>5, DisconnectsAdded DEF Free, Token, Called, Told
<1>7. \A m \in Told' : m.what # "Resolved"
  BY <1>1, <1>4 DEF Joining, Early, Told
<1>8. /\ node' = [node EXCEPT ![n] = IF status = 0 THEN "provisioned" ELSE "none"]
      /\ prov' = [prov EXCEPT ![n] = None]
      /\ member' = IF status = 0 THEN member \cup {n} ELSE member
  BY <1>3 DEF mesh_prov_done, node_free
<1> QED
  BY <1>2, <1>6, <1>7, <1>8 DEF NewInv

\* The other steps of the program.
LEMMA NewOthers ==
  ASSUME SInv, NewInv,
         \/ pipe_hup \/ beacon_update \/ UNCHANGED vars
         \/ \E d \in Devices : update_device_info_prov(d) \/ update_device_info_proxy(d)
  PROVE  NewInv'
<1>1. CASE pipe_hup \/ beacon_update \/ UNCHANGED vars
  <2>1. UNCHANGED <<node, prov, member, chars, calls, bus>>
    BY <1>1 DEF pipe_hup, beacon_update, vars, attempts, daemon
  <2>2. Unrelated
    BY <2>1 DEF Unrelated, Called, Told
  <2> QED
    BY <2>2, UnrelatedStep
<1>2. ASSUME NEW d \in Devices, update_device_info_prov(d) PROVE NewInv'
  <2>1. /\ node' = IF node[d] = "none" THEN [node EXCEPT ![d] = "new"] ELSE node
        /\ UNCHANGED <<prov, member, chars, calls, bus>>
    BY <1>2 DEF update_device_info_prov, daemon
  <2>2. /\ node \in [Devices -> {"none", "new", "provisioned"}]
        /\ \A m \in Called \cup Told : m.n \in Maybe
    BY MsgFields DEF SInv, TypeOK, Called, Told, ToSet
  <2> QED
    BY <2>1, <2>2 DEF NewInv, Called, Told, Maybe
<1>3. ASSUME NEW d \in Devices, update_device_info_proxy(d) PROVE NewInv'
  <2> DEFINE t == <<Msg("Connect", d, None, "call")>>
  <2>1. Msg("Connect", d, None, "call") \in Msgs
    BY MsgType DEF Maybe
  <2>2. calls' = calls \o t /\ t \in Seq(Msgs)
    BY <1>3, <2>1 DEF update_device_info_proxy, SInv, TypeOK
  <2>3. \A m \in ToSet(t) : m.what # "NotifyProv"
    BY FewMsgs DEF Msg
  <2> HIDE DEF t
  <2>4. UNCHANGED <<node, prov, member, chars, bus>>
    BY <1>3 DEF update_device_info_proxy, attempts, daemon
  <2>5. Unrelated
    BY <2>2, <2>3, <2>4, DisconnectsAdded DEF Unrelated, Told
  <2> QED
    BY <2>5, UnrelatedStep
<1> QED
  BY <1>1, <1>2, <1>3

LEMMA NewDaemon ==
  ASSUME SInv, NewInv, NEW i \in DOMAIN calls, Daemon(i) PROVE NewInv'
<1> DEFINE c == calls[i]
<1>1. c \in Msgs /\ c \in Called /\ c.dev \in Devices
  BY MsgFields DEF SInv, TypeOK, Called, ToSet
<1>2. \A how \in {"ok", "pipe", "error"} :
        Reply(c, how) \in Msgs /\ Reply(c, how).what = c.what /\ Reply(c, how).n = c.n
  BY <1>1, MsgType DEF Reply, Msgs, Maybe
<1>3. \A what \in {"Connected", "Disconnected"} :
        Signal(what, c.dev) \in Msgs /\ Signal(what, c.dev).what = what
  BY <1>1, MsgType DEF Signal, Msg, Maybe
<1> DEFINE Forms(how, what) ==
             {<<Reply(c, how)>>, <<Reply(c, how), Signal(what, c.dev)>>,
              <<Signal(what, c.dev), Reply(c, how)>>}
<1>4. c.what # "Resolved" /\ \E how \in {"ok", "pipe", "error"},
        what \in {"Connected", "Disconnected"} : \E msgs \in Forms(how, what) : Answers(i, msgs)
  <2>1. ASSUME NEW how \in {"ok", "pipe", "error"}, Answers(i, <<Reply(c, how)>>)
        PROVE  \E what \in {"Connected", "Disconnected"} :
                 \E msgs \in Forms(how, what) : Answers(i, msgs)
    BY <2>1
  <2>2. CASE NotifyDone(i)
    BY <2>1, <2>2 DEF NotifyDone
  <2>3. CASE ConnectDone(i)
    BY <2>1, <2>3 DEF ConnectDone
  <2>4. CASE DisconnectDone(i)
    BY <2>1, <2>4 DEF DisconnectDone
  <2> QED
    BY <2>2, <2>3, <2>4 DEF Daemon
<1>5. PICK how \in {"ok", "pipe", "error"}, what \in {"Connected", "Disconnected"} :
        \E msgs \in Forms(how, what) : Answers(i, msgs)
  BY <1>4
<1>6. PICK msgs \in Forms(how, what) : Answers(i, msgs)
  BY <1>5
<1>7. msgs \in Seq(Msgs) /\ ToSet(msgs) \subseteq {Reply(c, how), Signal(what, c.dev)}
  <2> DEFINE a == Reply(c, how)
             b == Signal(what, c.dev)
  <2>1. a \in Msgs /\ b \in Msgs /\ msgs \in {<<a>>, <<a, b>>, <<b, a>>}
    BY <1>2, <1>3, <1>6
  <2> HIDE DEF a, b
  <2>2. msgs \in Seq(Msgs) /\ ToSet(msgs) \subseteq {a, b}
    <3>1. <<a>> \in Seq(Msgs) /\ <<a, b>> \in Seq(Msgs) /\ <<b, a>> \in Seq(Msgs)
      BY ONLY <2>1
    <3>2. msgs = <<a>> \/ msgs = <<a, b>> \/ msgs = <<b, a>>
      BY ONLY <2>1
    <3>3. ToSet(<<a>>) = {a} /\ ToSet(<<a, b>>) = {a, b} /\ ToSet(<<b, a>>) = {b, a}
      BY ONLY FewMsgs, Zenon
    <3> QED
      BY ONLY <3>1, <3>2, <3>3
  <2> QED
    BY <2>2 DEF a, b
<1>8. /\ Told' = Told \cup ToSet(msgs) /\ UNCHANGED <<node, prov, member>>
      /\ Called' \subseteq Called
  <2>1. calls' = RemoveAt(calls, i) /\ bus' = bus \o msgs
    BY <1>6 DEF Answers
  <2>2. ToSet(RemoveAt(calls, i)) \subseteq ToSet(calls)
    BY AnsweredMsgs DEF SInv, TypeOK, OneToken
  <2> QED
    BY <1>6, <1>7, <2>1, <2>2, AddedMsgs DEF SInv, TypeOK, Called, Told, Answers, attempts
<1>9. \A d \in Devices : chars'[d] \in {chars[d], "none"}
  BY <1>1 DEF Daemon, ConnectDone, DisconnectDone, NotifyDone, Down, links, SInv, TypeOK
<1>10. Unrelated
  BY <1>1, <1>2, <1>3, <1>4, <1>7, <1>8, <1>9 DEF Unrelated
<1> QED
  BY <1>10, UnrelatedStep

LEMMA NewReport ==
  ASSUME SInv, NewInv, NEW d \in Devices, ServicesResolved(d) \/ LinkLost(d) \/ Forgotten(d)
  PROVE  NewInv'
<1>1. \A what \in {"Disconnected", "Resolved", "Removed"} :
        Signal(what, d) \in Msgs /\ Signal(what, d).what = what /\ Signal(what, d).dev = d
  BY MsgType DEF Signal, Msg, Maybe
<1>2. CASE ServicesResolved(d)
  <2> DEFINE s == Signal("Resolved", d)
  <2>1. Reports(s) /\ chars' = [chars EXCEPT ![d] = IF d \in member THEN "proxy" ELSE "prov"]
    BY <1>2 DEF ServicesResolved
  <2>2. /\ UNCHANGED <<node, prov, member>> /\ Told' = Told \cup {s} /\ Called' = Called
    BY <1>1, <2>1, ReportFacts
  <2>3. \A m \in Told : m.dev \in Devices
    BY MsgFields DEF SInv, TypeOK, Told, ToSet
  <2> HIDE DEF s
  <2>4. s.what = "Resolved" /\ s.dev = d
    BY <1>1 DEF s
  <2> QED
    BY <2>1, <2>2, <2>3, <2>4 DEF NewInv, SInv, TypeOK
<1>3. CASE LinkLost(d) \/ Forgotten(d)
  <2>1. PICK what \in {"Disconnected", "Removed"} : Reports(Signal(what, d))
    BY <1>3 DEF LinkLost, Forgotten
  <2>2. /\ UNCHANGED <<node, prov, member>> /\ Told' = Told \cup {Signal(what, d)}
        /\ Called' = Called
    BY <1>1, <2>1, ReportFacts
  <2>3. \A o \in Devices : chars'[o] \in {chars[o], "none"}
    BY <1>3 DEF LinkLost, Forgotten, Down, links, SInv, TypeOK
  <2>4. Unrelated
    BY <1>1, <2>2, <2>3 DEF Unrelated
  <2> QED
    BY <2>4, UnrelatedStep
<1> QED
  BY <1>2, <1>3

LEMMA NewStep ==
  ASSUME SInv, NewInv, [Next]_vars PROVE NewInv'
BY NewStart, NewHandler, NewDone, NewOthers, NewDaemon, NewReport DEF Next

(* In the orderly case an attempt provisions the device that its node stands  *)
(* for: dev_uuid of cmd_start_prov, the device of connect_reply or            *)
(* property_changed and the node of notify_prov_out_cb are one, for any       *)
(* number of devices and starts; and the node is there and not provisioned.   *)
THEOREM ChosenProvisioned == Env = {} /\ Spec => []ProvisionsChosen
<1>1. CASE Env = {}
  <2>1. SInv /\ NewInv => ProvisionsChosen
    BY DEF SInv, Chosen, NewInv, ProvisionsChosen
  <2>2. Init => SInv /\ NewInv
    <3> SUFFICES ASSUME Init PROVE NewInv
      BY InitInv
    <3>1. Called = {} /\ Told = {}
      BY FewMsgs DEF Init, Called, Told
    <3> QED
      BY <3>1 DEF Init, NewInv
  <2>3. SInv /\ NewInv /\ [Next]_vars => SInv' /\ NewInv'
    BY <1>1, InvStep, NewStep
  <2> QED
    BY <2>1, <2>2, <2>3, PTL DEF Spec
<1>2. CASE Env # {}
  BY <1>2
<1> QED
  BY <1>1, <1>2

(* In the orderly case net.proxy_in is the characteristic of the connected    *)
(* device, and session_open of a session that was not switched is true: no    *)
(* order of replies, lost links and switches leaves a session behind.         *)
THEOREM SessionsConnected == Env = {} /\ Spec => []SessionOnConnection
<1>1. SInv => SessionOnConnection
  BY DEF SInv, WorkInv, ConnInv, SessionOnConnection
<1> QED
  BY <1>1, Orderly, PTL

(* In the orderly case, when no call and no message is under way, the program *)
(* and bluetoothd agree on the link, the notifications and the provisioning   *)
(* of the connected device, and no link is forgotten without a switch.        *)
THEOREM QuietAgreement == Env = {} /\ Spec => []QuietAgrees
<1>1. SInv => QuietAgrees
  <2> SUFFICES ASSUME SInv, Quiet PROVE QuietAgrees
    BY DEF QuietAgrees
  <2>1. Told = {}
    BY FewMsgs DEF Quiet, Told
  <2>2. connection.device \in up \cup {None}
    BY <2>1 DEF SInv, ConnInv
  <2>3. proxy_in \in notifying \cup {None} /\ invited \subseteq {connection.device}
    BY <2>1 DEF SInv, WorkInv
  <2>4. "switch" \notin upset => up \subseteq {connection.device}
    BY <2>1 DEF SInv, DevInv
  <2> QED
    BY <2>2, <2>3, <2>4 DEF QuietAgrees
<1> QED
  BY <1>1, Orderly, PTL
=============================================================================
