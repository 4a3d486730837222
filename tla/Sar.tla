-------------------------------- MODULE Sar --------------------------------
(***************************************************************************)
(* Segmentation and reassembly in blueZ/mesh/net.c: a node sends segmented *)
(* messages to a unicast destination, and a node running the same code     *)
(* reassembles and acknowledges them, over a mesh network that loses,      *)
(* duplicates and reorders packets.                                        *)
(*                                                                         *)
(* A sequence number is kept as its window (the bits above the 13 that a   *)
(* segment carries as SEQ0) and the position of a message in its window:   *)
(* what calc_seqAuth computes depends on nothing else.  The sender's GATT  *)
(* write pipe is open, so its packet queue is empty between two handlers.  *)
(***************************************************************************)
EXTENDS Integers, Sequences, FiniteSets

CONSTANTS
  SegN,    \* SegN[m]: the number of the last segment of message m
  None,    \* no message being sent or reassembled
  MaxWin,  \* bound: windows of the sequence number
  Env      \* what the network may do beyond the orderly case

(***************************************************************************)
(* "staleack": an acknowledgement of an earlier message still reaches the  *)
(* sender; "wrap": the sequence number enters a new window while segments  *)
(* of a message are being sent; "late": packets outlive the 60 s timers;   *)
(* "reconnect": the receiver changes its proxy in the middle of a message. *)
(***************************************************************************)
Hazards == {"staleack", "wrap", "late", "reconnect"}

Msgs == DOMAIN SegN
Segments(m) == 0..SegN[m]

ASSUME SarAssumption ==
  /\ Msgs = 1..Len(SegN)
  /\ \A m \in Msgs : SegN[m] \in Nat \ {0}
  /\ MaxWin \in Nat
  /\ None \notin Msgs
  /\ Env \subseteq Hazards

AllSegments == UNION {Segments(m) : m \in Msgs}

\* struct mesh_sar_msg of the sender and of the receiver, and the packets.
OutMsgs == [msg : Msgs, ack : SUBSET AllSegments]
InMsgs ==
  [auth : Nat, segN : Nat, active : BOOLEAN,
   got : UNION {[D -> Msgs] : D \in SUBSET AllSegments}]
SegPdus == [msg : Msgs, segO : AllSegments, win : 0..MaxWin]
AckPdus == [msg : Msgs, ack : SUBSET AllSegments]

ASSUME NoneAssumption == None \notin OutMsgs /\ None \notin InMsgs

VARIABLES
  win,       \* sender: window of net.seq_num
  low,       \* sender: next free position in the window
  count,     \* sender: messages sent so far
  out,       \* sender: the message of net.msg_out and its acknowledged segments
  auth,      \* history: the seqAuth each message was encrypted with
  acked,     \* history: messages ended by a full acknowledgement
  segs,      \* network: segments on their way to the receiver
  acks,      \* network: acknowledgements on their way to the sender
  sar_in,    \* receiver: the message being reassembled
  delivered  \* receiver: messages handed to the access layer

sender == <<win, low, count, out, auth, acked>>
receiver == <<sar_in, delivered>>
vars == <<sender, segs, acks, receiver>>

SEQ0_MOD == Len(SegN) + 1
SeqAuth(w, l) == w * SEQ0_MOD + l

(* Every variable keeps its type; no packet is of a message not sent yet or  *)
(* names a segment its message does not have.                                *)
TypeOK ==
  /\ win \in 0..MaxWin
  /\ low \in 0..(SEQ0_MOD - 1)
  /\ count \in 0..Len(SegN)
  /\ out \in OutMsgs \cup {None}
  /\ out # None => out.ack \subseteq Segments(out.msg)
  /\ auth \in [Msgs -> Nat]
  /\ acked \subseteq 1..count
  /\ segs \subseteq SegPdus
  /\ \A s \in segs : s.msg \in 1..count /\ s.segO \in Segments(s.msg)
  /\ acks \subseteq AckPdus
  /\ \A a \in acks : a.msg \in 1..count /\ a.ack \subseteq Segments(a.msg)
  /\ sar_in \in InMsgs \cup {None}
  /\ sar_in # None => DOMAIN sar_in.got \subseteq 0..sar_in.segN
  /\ delivered \in Seq(Msgs)
-----------------------------------------------------------------------------
(* The sender. *)

\* send_seg for some segments: each has a number of the current window.
Sent(m, which) == {[msg |-> m, segO |-> k, win |-> win] : k \in which}

\* A new message replaces the one in flight to the same destination.
net_access_layer_send ==
  LET m == count + 1
  IN /\ m \in Msgs
     /\ count' = m
     /\ auth' = [auth EXCEPT ![m] = SeqAuth(win, low)]
     /\ low' = low + 1
     /\ out' = [msg |-> m, ack |-> {}]
     /\ segs' = segs \cup Sent(m, Segments(m))
     /\ UNCHANGED <<win, acked, acks, receiver>>

\* Mutant of resend_segs: the last segment is left out.
resend_segs_short(o) == Sent(o.msg, (Segments(o.msg) \ {SegN[o.msg]}) \ o.ack)

\* The segments not acknowledged yet.
resend_segs(o) == Sent(o.msg, Segments(o.msg) \ o.ack)

\* Every 2 s.
sar_out_ack_timeout ==
  /\ out # None
  /\ segs' = segs \cup resend_segs(out)
  /\ UNCHANGED <<sender, acks, receiver>>

\* Mutant of full_ack: one segment too few.
full_ack_short(m) == 0..(SegN[m] - 1)

\* 0xffffffff >> (31 - segN), as a set of segments.
full_ack(m) == Segments(m)

\* An acknowledgement: SEQ0 in it is not looked at.
ack_rxed(a) ==
  /\ IF out = None THEN UNCHANGED <<sender, segs>>
     ELSE LET ack == out.ack \cup (a.ack \cap full_ack(out.msg))
          IN IF ack = full_ack(out.msg)
             THEN /\ acked' = acked \cup {out.msg}
                  /\ out' = None
                  /\ UNCHANGED <<win, low, count, auth, segs>>
             ELSE /\ out' = [out EXCEPT !.ack = ack]
                  /\ segs' = segs \cup resend_segs([out EXCEPT !.ack = ack])
                  /\ UNCHANGED <<win, low, count, auth, acked>>
  /\ UNCHANGED receiver

\* After 60 s, or when the sender's session closes.
sar_out_msg_timeout ==
  /\ out # None
  /\ out' = None
  /\ UNCHANGED <<win, low, count, auth, acked, segs, acks, receiver>>

\* Other traffic moves the sequence number into its next window.
NextWindow ==
  /\ win < MaxWin
  /\ out = None \/ "wrap" \in Env
  /\ win' = win + 1
  /\ low' = 0
  /\ UNCHANGED <<count, out, auth, acked, segs, acks, receiver>>
-----------------------------------------------------------------------------
(* The receiver. *)

\* The segment's own sequence number with SEQ0 in place of its low bits.
calc_seqAuth(s) == SeqAuth(s.win, auth[s.msg] % SEQ0_MOD)

NewSar(s) == [auth |-> calc_seqAuth(s), segN |-> SegN[s.msg], got |-> <<>>,
              active |-> FALSE]

\* Mutant of Reassembly: whatever arrives goes into the structure there is.
Reassembly_sticky(s) == IF sar_in # None THEN sar_in ELSE NewSar(s)

\* The structure that takes the segment: the one there is, or a new one when
\* the segment is newer or disagrees on the number of segments.
Reassembly(s) ==
  IF /\ sar_in # None
     /\ sar_in.auth = calc_seqAuth(s) /\ sar_in.segN = SegN[s.msg]
  THEN sar_in ELSE NewSar(s)

\* Mutant of Stale: an older segment starts its message again.
StaleNever(s) == FALSE

\* A segment older than the message being reassembled is ignored.
Stale(s) == sar_in # None /\ sar_in.auth > calc_seqAuth(s)

\* The access layer can decrypt it: one message, and the seqAuth it was
\* encrypted with.
Decrypts(r, m) == (\A k \in DOMAIN r.got : r.got[k] = m) /\ r.auth = auth[m]

\* Mutant of AckOf: one bit too far to the left.
AckOf_shifted(r, m) == [msg |-> m, ack |-> {k + 1 : k \in DOMAIN r.got}]

AckOf(r, m) == [msg |-> m, ack |-> DOMAIN r.got]

\* An acknowledgement is sent when a new segment fills everything above it, or
\* completes the message.
seg_rxed_acks(s, r, got) ==
  IF s.segO \notin DOMAIN r.got /\ (s.segO..r.segN) \subseteq DOMAIN got
  THEN {AckOf([r EXCEPT !.got = got], s.msg)} ELSE {}

seg_rxed(s) ==
  /\ IF Stale(s) THEN UNCHANGED <<receiver, acks>>
     ELSE LET r    == Reassembly(s)
              got  == [k \in DOMAIN r.got \cup {s.segO} |->
                         IF k = s.segO THEN s.msg ELSE r.got[k]]
              full == DOMAIN got = 0..r.segN /\ DOMAIN r.got # 0..r.segN
              ack  == seg_rxed_acks(s, r, got)
              new  == [r EXCEPT !.got = got, !.active = (ack = {})]
          IN /\ sar_in' = new
             /\ acks' = acks \cup ack
             /\ delivered' = IF full /\ Decrypts(new, s.msg)
                             THEN Append(delivered, s.msg) ELSE delivered
  /\ UNCHANGED sender

\* The message of a reassembly, as the acknowledgement's SEQ0 names it.
MsgOf(r) == CHOOSE m \in 1..count : \E k \in DOMAIN r.got : r.got[k] = m

\* Every 5 s: acknowledge again if something came in or is missing.
sar_in_ack_timeout ==
  /\ sar_in # None
  /\ sar_in.active \/ DOMAIN sar_in.got # 0..sar_in.segN
  /\ acks' = acks \cup {AckOf(sar_in, MsgOf(sar_in))}
  /\ sar_in' = [sar_in EXCEPT !.active = FALSE]
  /\ UNCHANGED <<sender, segs, delivered>>

\* After 60 s.  In the orderly case the sender's timer, started before, is over
\* and the network has dropped what was sent.
sar_in_msg_timeout ==
  /\ sar_in # None
  /\ "late" \in Env \/ (segs = {} /\ out = None)
  /\ sar_in' = None
  /\ UNCHANGED <<sender, segs, acks, delivered>>

\* The receiver's session closes; what its proxy still had is lost.
net_session_close ==
  /\ sar_in # None
  /\ "reconnect" \in Env \/ out = None
  /\ sar_in' = None
  /\ segs' = {}
  /\ UNCHANGED <<sender, acks, delivered>>
-----------------------------------------------------------------------------
(* The network. *)

\* A segment reaches the receiver; a copy of it may stay behind.
SegArrives(m, k) ==
  \E s \in segs, keep \in BOOLEAN :
    /\ s.msg = m /\ s.segO = k
    /\ segs' = IF keep THEN segs ELSE segs \ {s}
    /\ seg_rxed(s)

AckArrives(m, ack) ==
  LET a == [msg |-> m, ack |-> ack]
  IN /\ a \in acks
     /\ out # None /\ "staleack" \notin Env => out.msg = m
     /\ \E keep \in BOOLEAN : acks' = IF keep THEN acks ELSE acks \ {a}
     /\ ack_rxed(a)

Lose ==
  \/ \E s \in segs : segs' = segs \ {s} /\ UNCHANGED <<sender, acks, receiver>>
  \/ \E a \in acks : acks' = acks \ {a} /\ UNCHANGED <<sender, segs, receiver>>
-----------------------------------------------------------------------------
Init ==
  /\ win = 0 /\ low = 0 /\ count = 0
  /\ out = None
  /\ auth = [m \in Msgs |-> 0]
  /\ acked = {}
  /\ segs = {} /\ acks = {}
  /\ sar_in = None
  /\ delivered = <<>>

Next ==
  \/ net_access_layer_send \/ sar_out_ack_timeout \/ sar_out_msg_timeout
  \/ NextWindow
  \/ sar_in_ack_timeout \/ sar_in_msg_timeout \/ net_session_close
  \/ \E m \in Msgs : \E k \in Segments(m) : SegArrives(m, k)
  \/ \E m \in Msgs : \E ack \in SUBSET Segments(m) : AckArrives(m, ack)
  \/ Lose

Spec == Init /\ [][Next]_vars

\* The repeating timers fire, and a packet sent again and again arrives.
Fairness ==
  /\ WF_vars(sar_out_ack_timeout)
  /\ WF_vars(sar_in_ack_timeout)
  /\ \A m \in Msgs :
       /\ \A k \in Segments(m) : SF_vars(SegArrives(m, k))
       /\ SF_vars(AckArrives(m, Segments(m)))

FairSpec == Spec /\ Fairness
-----------------------------------------------------------------------------
(* A segment the sender counts as acknowledged is one the receiver has had:  *)
(* it is in the reassembly of that very message, or the message has been     *)
(* delivered, so it is right never to send it again.                         *)
AckSound ==
  out # None /\ out.ack # {} =>
    \/ \E i \in DOMAIN delivered : delivered[i] = out.msg
    \/ /\ sar_in # None
       /\ out.ack \subseteq DOMAIN sar_in.got
       /\ \A k \in DOMAIN sar_in.got : sar_in.got[k] = out.msg

(* "Outbound message 100% received by remote node": a message that ends with *)
(* a full acknowledgement has been handed to the receiver's access layer.    *)
AckedDelivered == \A m \in acked : \E i \in DOMAIN delivered : delivered[i] = m

(* The two ends together are a MessageService: no message is delivered twice *)
(* or after a later one, whatever is duplicated or overtaken on the way      *)
(* (seg_rxed), and none is reported as received that was not delivered       *)
(* (ack_rxed).                                                               *)
Service == INSTANCE MessageService WITH
  Number <- Len(SegN),
  sent <- count,
  inFlight <- IF out = None THEN None ELSE out.msg,
  received <- acked

ImplementsMessageService == Service!Spec

(* A message is acknowledged in full, unless its 60 s are over or another    *)
(* message takes its place: retransmission gets it through any finite run of *)
(* losses.                                                                   *)
Progress ==
  \A m \in Msgs :
    (out # None /\ out.msg = m) ~> (m \in acked \/ out = None \/ out.msg # m)
=============================================================================
