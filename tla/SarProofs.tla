------------------------------ MODULE SarProofs ------------------------------
(***************************************************************************)
(* Proofs about Sar in the orderly case (Env = {}), for messages of any    *)
(* number and length: what the sender takes for acknowledged has arrived,  *)
(* and messages are delivered once and in their order.                     *)
(***************************************************************************)
EXTENDS Sar, TLAPS

\* The receiver's access layer has had message m.
Has(m) == \E i \in DOMAIN delivered : delivered[i] = m

\* Numbers rise with the messages, and every segment carries the number its
\* message was encrypted with, since no window ends in the middle of one.
AuthInv ==
  /\ \A m \in 1..count : auth[m] < SeqAuth(win, low)
  /\ \A m, n \in 1..count : m < n => auth[m] < auth[n]
  /\ \A s \in segs : calc_seqAuth(s) = auth[s.msg]
  /\ low <= count
  /\ out # None => /\ out.msg = count
                   /\ SeqAuth(win, auth[out.msg] % SEQ0_MOD) = auth[out.msg]

\* The reassembly r is of message m, and is complete once m was delivered.
Reassembles(r, m) ==
  /\ r.auth = auth[m] /\ r.segN = SegN[m]
  /\ DOMAIN r.got \subseteq Segments(m) /\ DOMAIN r.got # {}
  /\ \A k \in DOMAIN r.got : r.got[k] = m
  /\ Has(m) <=> DOMAIN r.got = Segments(m)
  /\ \A i \in DOMAIN delivered : delivered[i] <= m

RecvInv == sar_in # None => \E m \in 1..count : Reassembles(sar_in, m)

\* A receiver that has forgotten everything meets only newer messages.
FreshInv ==
  /\ \A i \in DOMAIN delivered : delivered[i] <= count
  /\ sar_in = None =>
       \A i \in DOMAIN delivered :
         /\ \A s \in segs : delivered[i] < s.msg
         /\ out # None => delivered[i] < out.msg

\* The segments of the message in flight that ack names have arrived.
Arrived(ack) ==
  ack # {} => \/ Has(out.msg)
              \/ /\ sar_in # None /\ ack \subseteq DOMAIN sar_in.got
                 /\ \A k \in DOMAIN sar_in.got : sar_in.got[k] = out.msg

AckInv ==
  out # None => /\ Arrived(out.ack)
                /\ \A a \in acks : a.msg = out.msg => Arrived(a.ack)

\* No message is delivered twice, and none after a later one.
DeliveredInOrder ==
  \A i, j \in DOMAIN delivered : i < j => delivered[i] < delivered[j]

IInv ==
  /\ TypeOK /\ AuthInv /\ RecvInv /\ FreshInv /\ AckInv
  /\ AckedDelivered /\ DeliveredInOrder
-----------------------------------------------------------------------------
LEMMA Positive == SEQ0_MOD \in Nat \ {0} /\ Len(SegN) \in Nat /\ Msgs = 1..Len(SegN)
  /\ \A m \in Msgs : SegN[m] \in Nat \ {0}
<1>1. Msgs = 1..Len(SegN)
  BY SarAssumption
<1>2. Len(SegN) \in Nat
  BY SarAssumption DEF Msgs
<1> QED
  BY <1>1, <1>2, SarAssumption DEF SEQ0_MOD

\* The low bits of a number are its position in the window.
LEMMA LowBits ==
  ASSUME NEW n \in Nat \ {0}, NEW w \in Nat, NEW l \in 0..(n - 1)
  PROVE  (w * n + l) % n = l
<1> DEFINE q == (w * n + l) \div n
           r == (w * n + l) % n
<1>1. w * n \in Nat
  OBVIOUS
<1>2. w * n + l \in Nat
  BY <1>1
<1>3. q \in Int /\ r \in 0..(n - 1) /\ w * n + l = n * q + r
  BY <1>2
<1>4. q = w
  <2>1. ~(q > w)
    <3> SUFFICES ASSUME q > w PROVE FALSE
      OBVIOUS
    <3>1. PICK d \in Nat : q = w + 1 + d
      <4>1. q - w - 1 \in Nat /\ q = w + 1 + (q - w - 1)
        BY <1>3
      <4> QED
        BY <4>1
    <3>2. n * q = n * w + n + n * d
      BY <3>1
    <3>3. n * d \in Nat /\ n * w \in Nat /\ n * w = w * n
      BY <3>1
    <3> QED
      BY <1>1, <1>3, <3>2, <3>3
  <2>2. ~(q < w)
    <3> SUFFICES ASSUME q < w PROVE FALSE
      OBVIOUS
    <3>1. PICK d \in Nat : w = q + 1 + d
      <4>1. w - q - 1 \in Nat /\ w = q + 1 + (w - q - 1)
        BY <1>3
      <4> QED
        BY <4>1
    <3>2. n * w = n * q + n + n * d
      BY <1>3, <3>1
    <3>3. n * d \in Nat /\ n * q \in Int /\ n * w = w * n
      BY <1>3, <3>1
    <3> QED
      BY <1>1, <1>3, <3>2, <3>3
  <2> QED
    BY <1>3, <2>1, <2>2
<1>5. n * q = w * n
  BY <1>4
<1> QED
  BY <1>1, <1>3, <1>5

\* Numbers of the same window, and of the next.
LEMMA Numbers ==
  ASSUME NEW w \in Nat, NEW l \in 0..(SEQ0_MOD - 1)
  PROVE  /\ SeqAuth(w, l) \in Nat
         /\ SeqAuth(w, l) % SEQ0_MOD = l
         /\ SeqAuth(w, l + 1) \in Nat /\ SeqAuth(w, l) < SeqAuth(w, l + 1)
         /\ SeqAuth(w + 1, 0) \in Nat /\ SeqAuth(w, l) < SeqAuth(w + 1, 0)
<1>1. w * SEQ0_MOD \in Nat /\ (w + 1) * SEQ0_MOD = w * SEQ0_MOD + SEQ0_MOD
  BY Positive
<1>2. (w * SEQ0_MOD + l) % SEQ0_MOD = l
  BY Positive, LowBits
<1> QED
  BY <1>1, <1>2, Positive DEF SeqAuth

LEMMA InitEstablishes == Init => IInv
<1> SUFFICES ASSUME Init PROVE IInv
  OBVIOUS
<1>1. TypeOK
  BY Positive, SarAssumption DEF Init, TypeOK
<1>2. AuthInv /\ RecvInv /\ FreshInv /\ AckInv /\ AckedDelivered /\ DeliveredInOrder
  BY DEF Init, AuthInv, RecvInv, FreshInv, AckInv, AckedDelivered, DeliveredInOrder
<1> QED
  BY <1>1, <1>2 DEF IInv
-----------------------------------------------------------------------------
(* The sender. *)

\* The packets of send_seg.
LEMMA SentPdus ==
  ASSUME win \in 0..MaxWin, NEW m \in Msgs, NEW which \in SUBSET Segments(m),
         NEW s \in Sent(m, which)
  PROVE  s \in SegPdus /\ s.msg = m /\ s.segO \in which /\ s.win = win
<1>1. PICK k \in which : s = [msg |-> m, segO |-> k, win |-> win]
  BY DEF Sent
<1>2. k \in AllSegments
  BY DEF AllSegments
<1> QED
  BY <1>1, <1>2 DEF SegPdus

\* More acknowledged and more packets of the message in flight.
LEMMA MoreSegments ==
  ASSUME IInv, out # None, NEW which \in SUBSET Segments(out.msg),
         out' \in OutMsgs, out'.msg = out.msg, out'.ack \subseteq Segments(out.msg),
         Arrived(out'.ack), acks' \subseteq acks,
         segs' = segs \cup Sent(out.msg, which),
         UNCHANGED <<win, low, count, auth, acked, receiver>>
  PROVE  IInv'
<1>1. out.msg \in Msgs /\ out.msg = count /\ count \in 1..count /\ out' # None
  BY Positive, NoneAssumption DEF IInv, TypeOK, AuthInv, OutMsgs
<1>2. \A s \in Sent(out.msg, which) :
        s \in SegPdus /\ s.msg = out.msg /\ s.segO \in Segments(out.msg) /\ s.win = win
  BY <1>1, SentPdus DEF IInv, TypeOK
<1>3. TypeOK'
  BY <1>1, <1>2 DEF IInv, TypeOK, receiver
<1>4. AuthInv'
  BY <1>1, <1>2 DEF IInv, AuthInv, calc_seqAuth
<1>5. (RecvInv /\ AckedDelivered /\ DeliveredInOrder)'
  BY DEF IInv, RecvInv, AckedDelivered, DeliveredInOrder, receiver, Has, Reassembles
<1>6. FreshInv'
  BY <1>2 DEF IInv, FreshInv, receiver
<1>7. AckInv'
  BY DEF IInv, AckInv, receiver, Arrived, Has
<1> QED
  BY <1>3, <1>4, <1>5, <1>6, <1>7 DEF IInv

\* Packets are lost.
LEMMA FewerPackets ==
  ASSUME IInv, segs' \subseteq segs, acks' \subseteq acks, UNCHANGED <<sender, receiver>>
  PROVE  IInv'
<1>1. UNCHANGED <<win, low, count, out, auth, acked, sar_in, delivered>>
  BY DEF sender, receiver
<1>2. TypeOK'
  BY <1>1 DEF IInv, TypeOK
<1>3. AuthInv'
  BY <1>1 DEF IInv, AuthInv, calc_seqAuth
<1>4. (RecvInv /\ AckedDelivered /\ DeliveredInOrder)'
  BY <1>1 DEF IInv, RecvInv, AckedDelivered, DeliveredInOrder, Has, Reassembles
<1>5. FreshInv'
  BY <1>1 DEF IInv, FreshInv
<1>6. AckInv'
  BY <1>1 DEF IInv, AckInv, Arrived, Has
<1> QED
  BY <1>2, <1>3, <1>4, <1>5, <1>6 DEF IInv

LEMMA SendStep ==
  ASSUME IInv, net_access_layer_send
  PROVE  IInv'
<1> DEFINE m == count + 1
<1>1. m \in Msgs /\ count \in Nat /\ m \in 1..Len(SegN) /\ m \in Nat
  BY Positive DEF net_access_layer_send, IInv, TypeOK
<1>2. /\ count' = m /\ auth' = [auth EXCEPT ![m] = SeqAuth(win, low)] /\ low' = low + 1
      /\ out' = [msg |-> m, ack |-> {}] /\ segs' = segs \cup Sent(m, Segments(m))
      /\ UNCHANGED <<win, acked, acks, sar_in, delivered>>
  BY DEF net_access_layer_send, receiver
<1>3. win \in Nat /\ low \in 0..(SEQ0_MOD - 1) /\ low <= count /\ auth \in [Msgs -> Nat]
      /\ win \in 0..MaxWin
  BY SarAssumption DEF IInv, TypeOK, AuthInv
<1>4. /\ SeqAuth(win, low) \in Nat /\ SeqAuth(win, low) % SEQ0_MOD = low
      /\ SeqAuth(win, low) < SeqAuth(win, low + 1) /\ SeqAuth(win, low + 1) \in Nat
  BY <1>3, Numbers
<1>5. \A n \in 1..count : n \in Msgs /\ auth'[n] = auth[n] /\ auth[n] \in Nat
  BY <1>1, <1>2, <1>3, Positive
<1>6. auth'[m] = SeqAuth(win, low)
  BY <1>1, <1>2, <1>3
<1>7. \A s \in Sent(m, Segments(m)) :
        s \in SegPdus /\ s.msg = m /\ s.segO \in Segments(m) /\ s.win = win
  BY <1>1, <1>3, SentPdus
<1>8. out' \in OutMsgs /\ out' # None /\ out'.msg = m /\ out'.ack = {}
  BY <1>1, <1>2, NoneAssumption DEF OutMsgs
<1>9. TypeOK'
  <2>1. win' \in 0..MaxWin /\ low' \in 0..(SEQ0_MOD - 1) /\ count' \in 0..Len(SegN)
    BY <1>1, <1>2, <1>3, Positive DEF SEQ0_MOD
  <2>2. auth' \in [Msgs -> Nat]
    BY <1>1, <1>2, <1>3, <1>4
  <2>3. segs' \subseteq SegPdus /\ \A s \in segs' : s.msg \in 1..count' /\ s.segO \in Segments(s.msg)
    BY <1>1, <1>2, <1>7 DEF IInv, TypeOK
  <2>4. acked' \subseteq 1..count' /\ \A a \in acks' : a.msg \in 1..count'
    BY <1>1, <1>2 DEF IInv, TypeOK
  <2> QED
    BY <1>2, <1>8, <2>1, <2>2, <2>3, <2>4 DEF IInv, TypeOK
<1>10. AuthInv'
  <2>1. \A n \in 1..count' : auth'[n] < SeqAuth(win', low')
    <3>1. \A n \in 1..count' : n \in 1..count \/ n = m
      BY <1>1, <1>2
    <3>2. \A n \in 1..count : auth[n] < SeqAuth(win, low)
      BY DEF IInv, AuthInv
    <3> QED
      BY <1>2, <1>4, <1>5, <1>6, <3>1, <3>2
  <2>2. \A n, o \in 1..count' : n < o => auth'[n] < auth'[o]
    <3> SUFFICES ASSUME NEW n \in 1..count', NEW o \in 1..count', n < o
                 PROVE  auth'[n] < auth'[o]
      OBVIOUS
    <3>1. n \in 1..count /\ (o \in 1..count \/ o = m)
      BY <1>1, <1>2
    <3>2. auth[n] < SeqAuth(win, low) /\ (o \in 1..count => auth[n] < auth[o])
      BY <3>1 DEF IInv, AuthInv
    <3> QED
      BY <1>5, <1>6, <3>1, <3>2
  <2>3. \A s \in segs' : calc_seqAuth(s)' = auth'[s.msg]
    <3>1. ASSUME NEW s \in segs PROVE calc_seqAuth(s)' = auth'[s.msg]
      <4>1. auth'[s.msg] = auth[s.msg]
        BY <1>5 DEF IInv, TypeOK
      <4> QED
        BY <4>1 DEF IInv, AuthInv, calc_seqAuth
    <3>2. ASSUME NEW s \in Sent(m, Segments(m)) PROVE calc_seqAuth(s)' = auth'[s.msg]
      BY <1>4, <1>6, <1>7 DEF calc_seqAuth
    <3> QED
      BY <1>2, <3>1, <3>2
  <2>4. SeqAuth(win', auth'[out'.msg] % SEQ0_MOD) = auth'[out'.msg]
    BY <1>2, <1>4, <1>6, <1>8
  <2> QED
    BY <1>1, <1>2, <1>3, <1>8, <2>1, <2>2, <2>3, <2>4 DEF AuthInv
<1>11. RecvInv'
  <2> SUFFICES ASSUME sar_in' # None PROVE \E n \in 1..count' : Reassembles(sar_in, n)'
    BY <1>2 DEF RecvInv
  <2>1. PICK n \in 1..count : Reassembles(sar_in, n)
    BY <1>2 DEF IInv, RecvInv
  <2>2. Reassembles(sar_in, n)'
    BY <1>2, <1>5, <2>1 DEF Reassembles, Has
  <2> QED
    BY <1>1, <1>2, <2>2
<1>12. FreshInv'
  <2>1. \A i \in DOMAIN delivered : delivered[i] <= m /\ delivered[i] < m
    BY <1>1, Positive DEF IInv, FreshInv, TypeOK
  <2>2. sar_in = None => \A i \in DOMAIN delivered : \A s \in segs' : delivered[i] < s.msg
    BY <1>2, <1>7, <2>1 DEF IInv, FreshInv
  <2> QED
    BY <1>2, <1>8, <2>1, <2>2 DEF FreshInv
<1>13. AckInv'
  <2>1. \A a \in acks' : a.msg # m
    BY <1>1, <1>2 DEF IInv, TypeOK
  <2> QED
    BY <1>8, <2>1 DEF AckInv, Arrived
<1>14. (AckedDelivered /\ DeliveredInOrder)'
  BY <1>2 DEF IInv, AckedDelivered, DeliveredInOrder
<1> QED
  BY <1>9, <1>10, <1>11, <1>12, <1>13, <1>14 DEF IInv

LEMMA ResendStep ==
  ASSUME IInv, sar_out_ack_timeout
  PROVE  IInv'
<1>1. out # None /\ segs' = segs \cup Sent(out.msg, Segments(out.msg) \ out.ack)
      /\ UNCHANGED <<win, low, count, out, auth, acked, acks, receiver>>
  BY DEF sar_out_ack_timeout, resend_segs, sender
<1>2. out \in OutMsgs /\ out.ack \subseteq Segments(out.msg) /\ Arrived(out.ack)
  BY <1>1 DEF IInv, TypeOK, AckInv
<1> QED
  BY <1>1, <1>2, MoreSegments

\* The message in flight is given up.
LEMMA GiveUpStep ==
  ASSUME IInv, sar_out_msg_timeout
  PROVE  IInv'
<1>1. out' = None /\ UNCHANGED <<win, low, count, auth, acked, segs, acks, sar_in, delivered>>
  BY DEF sar_out_msg_timeout, receiver
<1>2. (TypeOK /\ AuthInv)'
  BY <1>1 DEF IInv, TypeOK, AuthInv, calc_seqAuth
<1>3. (RecvInv /\ FreshInv /\ AckInv)'
  BY <1>1 DEF IInv, RecvInv, FreshInv, AckInv, Reassembles, Has
<1>4. (AckedDelivered /\ DeliveredInOrder)'
  BY <1>1 DEF IInv, AckedDelivered, DeliveredInOrder
<1> QED
  BY <1>2, <1>3, <1>4 DEF IInv

\* A window ends between two messages.
LEMMA WindowStep ==
  ASSUME IInv, Env = {}, NextWindow
  PROVE  IInv'
<1>1. /\ out = None /\ win < MaxWin /\ win' = win + 1 /\ low' = 0
      /\ UNCHANGED <<count, out, auth, acked, segs, acks, sar_in, delivered>>
  BY DEF NextWindow, receiver
<1>2. win \in Nat /\ low \in 0..(SEQ0_MOD - 1) /\ count \in Nat /\ MaxWin \in Nat
      /\ win \in 0..MaxWin /\ auth \in [Msgs -> Nat]
  BY SarAssumption, Positive DEF IInv, TypeOK
<1>3. SeqAuth(win, low) < SeqAuth(win', low') /\ SeqAuth(win, low) \in Nat
      /\ SeqAuth(win', low') \in Nat
  BY <1>1, <1>2, Numbers
<1>4. TypeOK'
  BY <1>1, <1>2, Positive DEF IInv, TypeOK
<1>5. AuthInv'
  <2>1. \A m \in 1..count : auth[m] \in Nat /\ auth[m] < SeqAuth(win, low)
    BY <1>2, Positive DEF IInv, AuthInv, TypeOK
  <2> QED
    BY <1>1, <1>2, <1>3, <2>1 DEF IInv, AuthInv, calc_seqAuth
<1>6. (RecvInv /\ FreshInv /\ AckInv)'
  BY <1>1 DEF IInv, RecvInv, FreshInv, AckInv, Reassembles, Has
<1>7. (AckedDelivered /\ DeliveredInOrder)'
  BY <1>1 DEF IInv, AckedDelivered, DeliveredInOrder
<1> QED
  BY <1>4, <1>5, <1>6, <1>7 DEF IInv

\* An acknowledgement of the message in flight.
LEMMA AckStep ==
  ASSUME IInv, Env = {}, NEW m \in Msgs, NEW ack \in SUBSET Segments(m),
         AckArrives(m, ack)
  PROVE  IInv'
<1> DEFINE a == [msg |-> m, ack |-> ack]
           all == out.ack \cup (ack \cap full_ack(out.msg))
<1>1. /\ a \in acks /\ acks' \subseteq acks /\ (out # None => out.msg = m)
      /\ ack_rxed(a) /\ UNCHANGED receiver
  BY DEF AckArrives, ack_rxed
<1>2. CASE out = None
  BY <1>1, <1>2, FewerPackets DEF ack_rxed
<1>3. CASE out # None
  <2>1. out \in OutMsgs /\ out.msg = m /\ out.ack \subseteq Segments(m)
    BY <1>1, <1>3 DEF IInv, TypeOK
  <2>2. all = out.ack \cup ack /\ all \subseteq Segments(m)
    BY <2>1 DEF full_ack
  <2>3. Arrived(out.ack) /\ Arrived(ack)
    BY <1>1, <1>3, <2>1 DEF IInv, AckInv
  <2>4. Arrived(all)
    BY <2>2, <2>3 DEF Arrived
  <2>5. CASE all = Segments(m)
    <3>1. acked' = acked \cup {m} /\ out' = None /\ UNCHANGED <<win, low, count, auth, segs>>
      BY <1>1, <1>3, <2>1, <2>5 DEF ack_rxed, full_ack
    <3>2. 0 \in Segments(m)
      BY Positive DEF Segments
    <3>3. Has(m)
      <4> SUFFICES ASSUME ~Has(m) PROVE FALSE
        OBVIOUS
      <4>1. /\ sar_in # None /\ Segments(m) \subseteq DOMAIN sar_in.got
            /\ \A k \in DOMAIN sar_in.got : sar_in.got[k] = m
        BY <2>1, <2>4, <2>5, <3>2 DEF Arrived
      <4>2. PICK n \in 1..count : Reassembles(sar_in, n)
        BY <4>1 DEF IInv, RecvInv
      <4>3. n = m
        BY <4>1, <4>2 DEF Reassembles
      <4> QED
        BY <4>1, <4>2, <4>3 DEF Reassembles
    <3>4. m \in 1..count
      BY <1>1 DEF IInv, TypeOK
    <3>5. TypeOK'
      BY <1>1, <3>1, <3>4 DEF IInv, TypeOK, receiver
    <3>6. AuthInv'
      BY <3>1 DEF IInv, AuthInv, calc_seqAuth
    <3>7. (RecvInv /\ DeliveredInOrder)'
      BY <1>1, <3>1 DEF IInv, RecvInv, DeliveredInOrder, Has, Reassembles, receiver
    <3>8. (FreshInv /\ AckInv)'
      BY <1>1, <3>1 DEF IInv, FreshInv, AckInv, receiver
    <3>9. AckedDelivered'
      BY <1>1, <3>1, <3>3 DEF IInv, AckedDelivered, Has, receiver
    <3> QED
      BY <3>5, <3>6, <3>7, <3>8, <3>9 DEF IInv
  <2>6. CASE all # Segments(m)
    <3> DEFINE o == [out EXCEPT !.ack = all]
    <3>1. out' = o /\ segs' = segs \cup resend_segs(o)
          /\ UNCHANGED <<win, low, count, auth, acked>>
      BY <1>1, <1>3, <2>1, <2>6 DEF ack_rxed, full_ack
    <3>2. o.msg = m /\ o.ack = all
      BY <2>1 DEF OutMsgs
    <3>3. o \in OutMsgs
      BY <2>1, <2>2 DEF OutMsgs, AllSegments
    <3>4. segs' = segs \cup Sent(m, Segments(m) \ all)
      BY <3>1, <3>2 DEF resend_segs
    <3> HIDE DEF o, all
    <3> QED
      BY <1>1, <1>3, <2>1, <2>2, <2>4, <3>1, <3>2, <3>3, <3>4, MoreSegments
  <2> QED
    BY <2>5, <2>6
<1> QED
  BY <1>2, <1>3
-----------------------------------------------------------------------------
(* The receiver. *)

\* The 5 s timer acknowledges the message being reassembled.
LEMMA AckTimerStep ==
  ASSUME IInv, sar_in_ack_timeout
  PROVE  IInv'
<1> DEFINE a == AckOf(sar_in, MsgOf(sar_in))
<1>1. /\ sar_in # None /\ acks' = acks \cup {a}
      /\ sar_in' = [sar_in EXCEPT !.active = FALSE]
      /\ UNCHANGED <<win, low, count, out, auth, acked, segs, delivered>>
  BY DEF sar_in_ack_timeout, sender
<1>2. sar_in \in InMsgs
  BY <1>1 DEF IInv, TypeOK
<1>3. /\ sar_in' \in InMsgs /\ sar_in' # None
      /\ sar_in'.auth = sar_in.auth /\ sar_in'.segN = sar_in.segN
      /\ sar_in'.got = sar_in.got
  BY <1>1, <1>2, NoneAssumption DEF InMsgs
<1>4. PICK n \in 1..count : Reassembles(sar_in, n)
  BY <1>1 DEF IInv, RecvInv
<1>5. MsgOf(sar_in) = n
  BY <1>4 DEF MsgOf, Reassembles
<1>6. a.msg = n /\ a.ack = DOMAIN sar_in.got /\ a = [msg |-> n, ack |-> DOMAIN sar_in.got]
  BY <1>5 DEF AckOf
<1>7. n \in Msgs
  BY Positive DEF IInv, TypeOK
<1>8. a.ack \subseteq Segments(n) /\ a \in AckPdus
  BY <1>4, <1>6, <1>7 DEF Reassembles, AckPdus, AllSegments
<1> HIDE DEF a
<1>9. TypeOK'
  BY <1>1, <1>3, <1>6, <1>8 DEF IInv, TypeOK
<1>10. AuthInv'
  BY <1>1 DEF IInv, AuthInv, calc_seqAuth
<1>11. RecvInv'
  BY <1>1, <1>3, <1>4 DEF RecvInv, Reassembles, Has
<1>12. (FreshInv /\ AckedDelivered /\ DeliveredInOrder)'
  BY <1>1, <1>3 DEF IInv, FreshInv, AckedDelivered, DeliveredInOrder
<1>13. AckInv'
  <2> SUFFICES ASSUME out # None
               PROVE  Arrived(out.ack)'
                      /\ \A b \in acks' : b.msg = out.msg => Arrived(b.ack)'
    BY <1>1 DEF AckInv
  <2>1. Arrived(out.ack)' /\ \A b \in acks : b.msg = out.msg => Arrived(b.ack)'
    BY <1>1, <1>3 DEF IInv, AckInv, Arrived, Has
  <2>2. ASSUME NEW b, b = a, b.msg = out.msg PROVE Arrived(b.ack)'
    <3>1. b.ack = DOMAIN sar_in'.got /\ \A k \in DOMAIN sar_in'.got : sar_in'.got[k] = out'.msg
      BY <1>1, <1>3, <1>4, <1>6, <2>2 DEF Reassembles
    <3> QED
      BY <1>3, <3>1 DEF Arrived
  <2> QED
    BY <1>1, <2>1, <2>2
<1> QED
  BY <1>9, <1>10, <1>11, <1>12, <1>13 DEF IInv

\* The receiver forgets when nothing of the message is left.
LEMMA ForgetStep ==
  ASSUME IInv, Env = {}, sar_in_msg_timeout \/ net_session_close
  PROVE  IInv'
<1>1. /\ out = None /\ sar_in' = None /\ segs' = {}
      /\ UNCHANGED <<win, low, count, out, auth, acked, acks, delivered>>
  BY DEF sar_in_msg_timeout, net_session_close, sender
<1>2. TypeOK'
  BY <1>1 DEF IInv, TypeOK
<1>3. AuthInv'
  BY <1>1 DEF IInv, AuthInv
<1>4. (RecvInv /\ FreshInv /\ AckInv /\ AckedDelivered /\ DeliveredInOrder)'
  BY <1>1 DEF IInv, RecvInv, FreshInv, AckInv, AckedDelivered, DeliveredInOrder
<1> QED
  BY <1>2, <1>3, <1>4 DEF IInv

LEMMA AppendFacts ==
  ASSUME NEW S, NEW q \in Seq(S), NEW e \in S
  PROVE  /\ Append(q, e) \in Seq(S) /\ Len(q) \in Nat
         /\ DOMAIN q = 1..Len(q) /\ DOMAIN Append(q, e) = 1..(Len(q) + 1)
         /\ \A i \in DOMAIN q : Append(q, e)[i] = q[i]
         /\ Append(q, e)[Len(q) + 1] = e
OBVIOUS

\* The reassembly r is of the message of segment s, if of any, and what the
\* sender has heard of that message is in it.
Accepts(s, r) ==
  /\ r \in InMsgs /\ r.auth = auth[s.msg] /\ r.segN = SegN[s.msg]
  /\ DOMAIN r.got \subseteq Segments(s.msg)
  /\ \A k \in DOMAIN r.got : r.got[k] = s.msg
  /\ Has(s.msg) <=> DOMAIN r.got = Segments(s.msg)
  /\ \A i \in DOMAIN delivered : delivered[i] <= s.msg
  /\ \A S : out # None /\ Arrived(S) /\ S # {} /\ ~Has(out.msg) =>
              out.msg = s.msg /\ S \subseteq DOMAIN r.got

\* seg_rxed puts s into r.
Takes(s, r, got, ack) ==
  /\ got = [k \in DOMAIN r.got \cup {s.segO} |->
              IF k = s.segO THEN s.msg ELSE r.got[k]]
  /\ ack \subseteq {AckOf([r EXCEPT !.got = got], s.msg)}
  /\ sar_in' = [r EXCEPT !.got = got, !.active = (ack = {})]
  /\ acks' = acks \cup ack
  /\ delivered' = IF /\ DOMAIN got = 0..r.segN /\ DOMAIN r.got # 0..r.segN
                     /\ Decrypts([r EXCEPT !.got = got, !.active = (ack = {})], s.msg)
                  THEN Append(delivered, s.msg) ELSE delivered

\* The message is delivered when its reassembly becomes complete.
LEMMA TakeStep ==
  ASSUME IInv, NEW s \in segs, NEW r, NEW got, NEW ack,
         Accepts(s, r), Takes(s, r, got, ack), segs' \subseteq segs, UNCHANGED sender
  PROVE  IInv'
<1>1. UNCHANGED <<win, low, count, out, auth, acked>>
  BY DEF sender
<1>2. s.msg \in 1..count /\ s.msg \in Msgs /\ s.segO \in Segments(s.msg) /\ s.msg \in Nat
      /\ count \in Nat
  BY Positive DEF IInv, TypeOK
<1>3. /\ DOMAIN got = DOMAIN r.got \cup {s.segO}
      /\ DOMAIN got \subseteq Segments(s.msg) /\ DOMAIN got # {}
      /\ \A k \in DOMAIN got : got[k] = s.msg
  BY <1>2 DEF Accepts, Takes
<1>4. got \in UNION {[D -> Msgs] : D \in SUBSET AllSegments}
  <2>1. DOMAIN got \in SUBSET AllSegments
    BY <1>2, <1>3 DEF AllSegments
  <2>2. got \in [DOMAIN got -> Msgs]
    BY <1>2, <1>3 DEF Takes
  <2> QED
    BY <2>1, <2>2
<1> DEFINE new == [r EXCEPT !.got = got, !.active = (ack = {})]
<1>5. /\ sar_in' \in InMsgs /\ sar_in' # None
      /\ sar_in'.auth = auth[s.msg] /\ sar_in'.segN = SegN[s.msg] /\ sar_in'.got = got
  <2>1. r \in InMsgs /\ r.auth = auth[s.msg] /\ r.segN = SegN[s.msg] /\ sar_in' = new
    BY DEF Accepts, Takes
  <2>2. new \in InMsgs /\ new.auth = r.auth /\ new.segN = r.segN /\ new.got = got
    BY <1>4, <2>1 DEF InMsgs
  <2> QED
    BY <2>1, <2>2, NoneAssumption
<1>6. \A a \in ack : a \in AckPdus /\ a.msg = s.msg /\ a.ack = DOMAIN got
  <2>1. r \in InMsgs /\ ack \subseteq {AckOf([r EXCEPT !.got = got], s.msg)}
    BY DEF Accepts, Takes
  <2>2. [r EXCEPT !.got = got].got = got
    BY <2>1 DEF InMsgs
  <2>3. AckOf([r EXCEPT !.got = got], s.msg) = [msg |-> s.msg, ack |-> DOMAIN got]
    BY <2>2 DEF AckOf
  <2>4. DOMAIN got \subseteq AllSegments
    BY <1>2, <1>3 DEF AllSegments
  <2>5. [msg |-> s.msg, ack |-> DOMAIN got] \in AckPdus
    BY <1>2, <2>4 DEF AckPdus
  <2> QED
    BY <2>1, <2>3, <2>5
<1> DEFINE full == DOMAIN got = Segments(s.msg) /\ DOMAIN r.got # Segments(s.msg)
<1>7. delivered' = IF full THEN Append(delivered, s.msg) ELSE delivered
  <2>1. Decrypts(new, s.msg) /\ r.segN = SegN[s.msg]
    BY <1>3, <1>5 DEF Decrypts, Accepts, Takes
  <2> QED
    BY <2>1 DEF Segments, Takes
<1>8. delivered \in Seq(Msgs) /\ Len(delivered) \in Nat /\ DOMAIN delivered = 1..Len(delivered)
      /\ \A i \in DOMAIN delivered : delivered[i] \in Nat
  BY Positive DEF IInv, TypeOK
<1>9. /\ delivered' \in Seq(Msgs)
      /\ \A i \in DOMAIN delivered : i \in DOMAIN delivered' /\ delivered'[i] = delivered[i]
      /\ \A i \in DOMAIN delivered' :
           i \in DOMAIN delivered
             \/ (full /\ delivered'[i] = s.msg /\ i = Len(delivered) + 1)
      /\ full => /\ Len(delivered) + 1 \in DOMAIN delivered'
                 /\ delivered'[Len(delivered) + 1] = s.msg
  <2> HIDE DEF full
  <2>1. CASE full
    <3> DEFINE d == Append(delivered, s.msg)
    <3>1. /\ d \in Seq(Msgs) /\ DOMAIN d = 1..(Len(delivered) + 1)
          /\ \A i \in DOMAIN delivered : d[i] = delivered[i]
          /\ d[Len(delivered) + 1] = s.msg
      BY <1>2, <1>8, AppendFacts
    <3>2. delivered' = d
      BY <1>7, <2>1
    <3> HIDE DEF d
    <3> QED
      BY <1>8, <2>1, <3>1, <3>2
  <2>2. CASE ~full
    BY <1>7, <1>8, <2>2
  <2> QED
    BY <2>1, <2>2
<1>a. /\ \A i \in DOMAIN delivered : delivered[i] <= s.msg
      /\ Has(s.msg) <=> DOMAIN r.got = Segments(s.msg)
      /\ \A S : out # None /\ Arrived(S) /\ S # {} /\ ~Has(out.msg) =>
                  out.msg = s.msg /\ S \subseteq DOMAIN r.got
      /\ acks' = acks \cup ack
  BY DEF Accepts, Takes
<1> HIDE DEF full, new
<1>10. TypeOK'
  <2>1. segs' \subseteq SegPdus /\ \A t \in segs' : t.msg \in 1..count /\ t.segO \in Segments(t.msg)
    BY DEF IInv, TypeOK
  <2>2. acks' \subseteq AckPdus /\ \A a \in acks' : a.msg \in 1..count /\ a.ack \subseteq Segments(a.msg)
    BY <1>2, <1>3, <1>6, <1>a DEF IInv, TypeOK
  <2>3. DOMAIN sar_in'.got \subseteq 0..sar_in'.segN
    BY <1>3, <1>5 DEF Segments
  <2> QED
    BY <1>1, <1>5, <1>9, <2>1, <2>2, <2>3 DEF IInv, TypeOK
<1>11. AuthInv'
  BY <1>1 DEF IInv, AuthInv, calc_seqAuth
<1>12. \A m : Has(m) => Has(m)'
  BY <1>9 DEF Has
<1>13. \A i \in DOMAIN delivered' : delivered'[i] <= s.msg
  BY <1>2, <1>9, <1>a
<1>14. RecvInv'
  <2>1. Has(s.msg)' <=> DOMAIN got = Segments(s.msg)
    BY <1>2, <1>3, <1>9, <1>a DEF Has, full
  <2>2. \E m \in 1..count' : Reassembles(sar_in, m)'
    BY <1>1, <1>2, <1>3, <1>5, <1>13, <2>1 DEF Reassembles, Has
  <2> QED
    BY <2>2 DEF RecvInv
<1>15. FreshInv'
  BY <1>1, <1>2, <1>5, <1>8, <1>9, <1>13 DEF IInv, FreshInv
<1>16. AckInv'
  <2> SUFFICES ASSUME out # None
               PROVE  Arrived(out.ack)'
                      /\ \A b \in acks' : b.msg = out.msg => Arrived(b.ack)'
    BY <1>1 DEF AckInv
  <2>1. ASSUME NEW b, Arrived(b) PROVE Arrived(b)'
    <3>1. CASE b = {} \/ Has(out.msg)
      BY <1>1, <1>12, <3>1 DEF Arrived, Has
    <3>2. CASE b # {} /\ ~Has(out.msg)
      <4>1. out.msg = s.msg /\ b \subseteq DOMAIN r.got
        BY <1>a, <2>1, <3>2
      <4> QED
        BY <1>1, <1>3, <1>5, <4>1 DEF Arrived
    <3> QED
      BY <3>1, <3>2
  <2>2. ASSUME NEW b \in ack, b.msg = out.msg PROVE Arrived(b.ack)'
    BY <1>1, <1>3, <1>5, <1>6, <2>2 DEF Arrived
  <2>3. Arrived(out.ack)'
    <3>1. PICK b : b = out.ack
      OBVIOUS
    <3>2. Arrived(b)'
      BY <2>1, <3>1 DEF IInv, AckInv
    <3> QED
      BY <1>1, <3>1, <3>2 DEF Arrived
  <2>4. \A b \in acks : b.msg = out.msg => Arrived(b.ack)'
    <3> SUFFICES ASSUME NEW b \in acks, b.msg = out.msg PROVE Arrived(b.ack)'
      OBVIOUS
    <3>1. Arrived(b.ack)
      BY DEF IInv, AckInv
    <3> QED
      BY <2>1, <3>1
  <2> QED
    BY <1>a, <2>2, <2>3, <2>4
<1>17. AckedDelivered'
  BY <1>1, <1>9 DEF IInv, AckedDelivered
<1>18. DeliveredInOrder'
  <2> SUFFICES ASSUME NEW i \in DOMAIN delivered', NEW j \in DOMAIN delivered', i < j
               PROVE  delivered'[i] < delivered'[j]
    BY DEF DeliveredInOrder
  <2>1. CASE j \in DOMAIN delivered
    <3>1. i \in DOMAIN delivered
      BY <1>8, <1>9, <2>1
    <3> QED
      BY <1>9, <2>1, <3>1 DEF IInv, DeliveredInOrder
  <2>2. CASE j \notin DOMAIN delivered
    <3>1. full /\ delivered'[j] = s.msg /\ j = Len(delivered) + 1
      BY <1>9, <2>2
    <3>2. i \in DOMAIN delivered
      BY <1>8, <1>9, <3>1
    <3>3. delivered[i] # s.msg /\ delivered[i] <= s.msg
      BY <1>a, <3>1, <3>2 DEF full, Has
    <3> QED
      BY <1>2, <1>8, <1>9, <3>1, <3>2, <3>3
  <2> QED
    BY <2>1, <2>2
<1> QED
  BY <1>10, <1>11, <1>14, <1>15, <1>16, <1>17, <1>18 DEF IInv

\* A segment is stale, of the message being reassembled, or of a newer one.
LEMMA SegStep ==
  ASSUME IInv, NEW m \in Msgs, NEW k0 \in Segments(m), SegArrives(m, k0)
  PROVE  IInv'
<1>1. PICK s \in segs : segs' \subseteq segs /\ seg_rxed(s)
  BY DEF SegArrives
<1>2. UNCHANGED sender
  BY <1>1 DEF seg_rxed
<1>3. /\ calc_seqAuth(s) = auth[s.msg] /\ s.msg \in 1..count /\ s.msg \in Msgs
      /\ s.msg \in Nat /\ count \in Nat /\ auth \in [Msgs -> Nat] /\ 1..count \subseteq Msgs
  BY Positive DEF IInv, AuthInv, TypeOK
<1>4. CASE Stale(s)
  BY <1>1, <1>2, <1>4, FewerPackets DEF seg_rxed
<1>5. CASE ~Stale(s)
  <2> DEFINE r == Reassembly(s)
             got == [k \in DOMAIN r.got \cup {s.segO} |->
                       IF k = s.segO THEN s.msg ELSE r.got[k]]
             ack == seg_rxed_acks(s, r, got)
  <2>1. Takes(s, r, got, ack)
    <3>1. ack \subseteq {AckOf([r EXCEPT !.got = got], s.msg)}
      BY DEF seg_rxed_acks
    <3>2. /\ sar_in' = [r EXCEPT !.got = got, !.active = (ack = {})]
          /\ acks' = acks \cup ack
          /\ delivered' = IF /\ DOMAIN got = 0..r.segN /\ DOMAIN r.got # 0..r.segN
                             /\ Decrypts([r EXCEPT !.got = got, !.active = (ack = {})], s.msg)
                          THEN Append(delivered, s.msg) ELSE delivered
      BY <1>1, <1>5 DEF seg_rxed
    <3> QED
      BY <3>1, <3>2 DEF Takes
  <2>2. Accepts(s, r)
    <3>1. CASE sar_in # None /\ sar_in.auth = calc_seqAuth(s) /\ sar_in.segN = SegN[s.msg]
      <4>1. r = sar_in /\ sar_in \in InMsgs
        BY <3>1 DEF Reassembly, IInv, TypeOK
      <4>2. PICK n \in 1..count : Reassembles(sar_in, n)
        BY <3>1 DEF IInv, RecvInv
      <4>3. n = s.msg
        <5>1. auth[n] = auth[s.msg] /\ auth[n] \in Nat
          BY <1>3, <3>1, <4>2 DEF Reassembles
        <5>2. (n < s.msg => auth[n] < auth[s.msg]) /\ (s.msg < n => auth[s.msg] < auth[n])
          BY <1>3 DEF IInv, AuthInv
        <5> QED
          BY <1>3, <5>1, <5>2
      <4>4. ASSUME NEW S, out # None, Arrived(S), S # {}, ~Has(out.msg)
            PROVE  out.msg = s.msg /\ S \subseteq DOMAIN sar_in.got
        BY <4>2, <4>3, <4>4 DEF Arrived, Reassembles
      <4> HIDE DEF r
      <4> QED
        BY <4>1, <4>2, <4>3, <4>4 DEF Accepts, Reassembles
    <3>2. CASE ~(sar_in # None /\ sar_in.auth = calc_seqAuth(s) /\ sar_in.segN = SegN[s.msg])
      <4>1. r = NewSar(s)
        BY <3>2 DEF Reassembly
      <4>2. r = [auth |-> auth[s.msg], segN |-> SegN[s.msg], got |-> <<>>, active |-> FALSE]
        BY <1>3, <4>1 DEF NewSar
      <4>3. DOMAIN r.got = {} /\ r.auth = auth[s.msg] /\ r.segN = SegN[s.msg]
        BY <4>2
      <4>4. r \in InMsgs
        <5>1. auth[s.msg] \in Nat /\ SegN[s.msg] \in Nat
          BY <1>3, Positive
        <5>2. <<>> \in [{} -> Msgs]
          OBVIOUS
        <5>3. <<>> \in UNION {[D -> Msgs] : D \in SUBSET AllSegments}
          BY <5>2
        <5>4. [auth |-> auth[s.msg], segN |-> SegN[s.msg], got |-> <<>>, active |-> FALSE]
                \in InMsgs
          BY <5>1, <5>3 DEF InMsgs
        <5> HIDE DEF r
        <5> QED
          BY <4>2, <5>4
      <4>5. (\A i \in DOMAIN delivered : delivered[i] < s.msg) /\
            (sar_in # None => \E n \in 1..count : n < s.msg /\ Reassembles(sar_in, n))
        <5>1. CASE sar_in = None
          BY <5>1 DEF IInv, FreshInv
        <5>2. CASE sar_in # None
          <6>1. PICK n \in 1..count : Reassembles(sar_in, n)
            BY <5>2 DEF IInv, RecvInv
          <6>2. n # s.msg /\ sar_in.auth = auth[n] /\ auth[n] \in Nat /\ auth[s.msg] \in Nat
            BY <1>3, <3>2, <5>2, <6>1 DEF Reassembles
          <6>3. ~(auth[s.msg] < auth[n])
            BY <1>3, <1>5, <5>2, <6>2 DEF Stale
          <6>4. s.msg < n => auth[s.msg] < auth[n]
            BY <1>3 DEF IInv, AuthInv
          <6>5. n < s.msg
            BY <1>3, <6>2, <6>3, <6>4
          <6>6. \A i \in DOMAIN delivered : delivered[i] <= n /\ delivered[i] \in Nat
            BY <6>1, Positive DEF Reassembles, IInv, TypeOK
          <6> QED
            BY <1>3, <6>1, <6>5, <6>6
        <5> QED
          BY <5>1, <5>2
      <4>6. ~Has(s.msg) /\ \A i \in DOMAIN delivered : delivered[i] <= s.msg
        <5>1. \A i \in DOMAIN delivered : delivered[i] \in Nat
          BY Positive DEF IInv, TypeOK
        <5> QED
          BY <1>3, <4>5, <5>1 DEF Has
      <4>7. ASSUME NEW S, out # None, Arrived(S), S # {}, ~Has(out.msg) PROVE FALSE
        <5>1. /\ sar_in # None /\ S \subseteq DOMAIN sar_in.got
              /\ \A k \in DOMAIN sar_in.got : sar_in.got[k] = out.msg
          BY <4>7 DEF Arrived
        <5>2. PICK n \in 1..count : n < s.msg /\ Reassembles(sar_in, n)
          BY <4>5, <5>1
        <5>3. n = count
          BY <4>7, <5>1, <5>2 DEF Reassembles, IInv, AuthInv
        <5> QED
          BY <1>3, <5>2, <5>3
      <4>8. DOMAIN r.got # Segments(s.msg)
        BY <1>3, <4>3, Positive DEF Segments
      <4> HIDE DEF r
      <4> QED
        BY <4>3, <4>4, <4>6, <4>7, <4>8 DEF Accepts
    <3> QED
      BY <3>1, <3>2
  <2> HIDE DEF r, got, ack
  <2> QED
    BY <1>1, <1>2, <2>1, <2>2, TakeStep
<1> QED
  BY <1>4, <1>5
-----------------------------------------------------------------------------
LEMMA NextPreserves ==
  ASSUME IInv, Env = {}, [Next]_vars
  PROVE  IInv'
<1>1. CASE Lose
  BY <1>1, FewerPackets DEF Lose
<1>2. CASE UNCHANGED vars
  BY <1>2, FewerPackets DEF vars
<1> QED
  BY <1>1, <1>2, SendStep, ResendStep, GiveUpStep, WindowStep, AckTimerStep, ForgetStep,
     SegStep, AckStep DEF Next

\* The orderly network keeps the inductive invariant.
LEMMA Invariance == ASSUME Env = {} PROVE Spec => []IInv
<1>1. IInv /\ [Next]_vars => IInv'
  BY NextPreserves
<1> QED
  BY <1>1, InitEstablishes, PTL DEF Spec

(* Every variable keeps its type, and no packet names a message not sent or a *)
(* segment its message does not have, for messages of any number and length.  *)
THEOREM TypeCorrect == ASSUME Env = {} PROVE Spec => []TypeOK
<1>1. IInv => TypeOK
  BY DEF IInv
<1> QED
  BY <1>1, Invariance, PTL

(* Whatever is lost, duplicated or reordered, a segment that ack_rxed marks as *)
(* acknowledged, and that resend_segs leaves out, has reached the receiver.    *)
THEOREM AcksSound == ASSUME Env = {} PROVE Spec => []AckSound
<1>1. IInv => AckSound
  BY DEF IInv, AckInv, Arrived, AckSound, Has
<1> QED
  BY <1>1, Invariance, PTL

(* A message that ack_rxed ends as completely received was handed to the access *)
(* layer of its destination.                                                    *)
THEOREM AckedAreDelivered == ASSUME Env = {} PROVE Spec => []AckedDelivered
<1>1. IInv => AckedDelivered
  BY DEF IInv
<1> QED
  BY <1>1, Invariance, PTL

-----------------------------------------------------------------------------
(* The refinement of MessageService. *)

\* A segment that arrives delivers nothing, or a message newer than all before.
LEMMA SegRefines ==
  ASSUME IInv, IInv', NEW m \in Msgs, NEW k \in Segments(m), SegArrives(m, k)
  PROVE  Service!Deliver \/ UNCHANGED Service!vars
<1>1. PICK s \in segs : seg_rxed(s)
  BY DEF SegArrives
<1>2. UNCHANGED <<count, out, acked>>
  BY <1>1 DEF seg_rxed, sender
<1>3. delivered' = delivered \/ delivered' = Append(delivered, s.msg)
  BY <1>1 DEF seg_rxed, receiver
<1>4. CASE delivered' = delivered
  BY <1>2, <1>4 DEF Service!vars
<1>5. CASE delivered' = Append(delivered, s.msg)
  <2>1. s.msg \in 1..count /\ s.msg \in Msgs /\ delivered \in Seq(Msgs)
    BY Positive DEF IInv, TypeOK
  <2>2. /\ Len(delivered) \in Nat /\ DOMAIN delivered = 1..Len(delivered)
        /\ DOMAIN delivered' = 1..(Len(delivered) + 1)
        /\ \A i \in DOMAIN delivered : delivered'[i] = delivered[i]
        /\ delivered'[Len(delivered) + 1] = s.msg
    BY <1>5, <2>1, AppendFacts
  <2>3. ASSUME NEW i \in DOMAIN delivered PROVE delivered[i] < s.msg
    <3>1. /\ i \in DOMAIN delivered' /\ Len(delivered) + 1 \in DOMAIN delivered'
          /\ i < Len(delivered) + 1
      BY <2>2
    <3>2. delivered'[i] < delivered'[Len(delivered) + 1]
      BY <3>1 DEF IInv, DeliveredInOrder
    <3> QED
      BY <2>2, <3>2
  <2> QED
    BY <1>2, <1>5, <2>1, <2>3 DEF Service!Deliver
<1> QED
  BY <1>3, <1>4, <1>5

\* An acknowledgement that arrives reports nothing, or a delivered message.
LEMMA AckRefines ==
  ASSUME IInv, IInv', NEW m \in Msgs, NEW ack \in SUBSET Segments(m), AckArrives(m, ack)
  PROVE  Service!Report \/ UNCHANGED Service!vars
<1>1. /\ UNCHANGED <<count, delivered>>
      /\ \/ UNCHANGED <<out, acked>>
         \/ out # None /\ out' = None /\ acked' = acked \cup {out.msg}
         \/ /\ out # None /\ UNCHANGED acked
            /\ out' = [out EXCEPT !.ack = out.ack \cup (ack \cap full_ack(out.msg))]
  BY DEF AckArrives, ack_rxed, receiver, sender
<1>2. CASE UNCHANGED <<out, acked>>
  BY <1>1, <1>2 DEF Service!vars
<1>3. CASE out # None /\ out' = None /\ acked' = acked \cup {out.msg}
  <2>1. \E i \in DOMAIN delivered : delivered[i] = out.msg
    BY <1>1, <1>3 DEF IInv, AckedDelivered
  <2>2. out.msg # None
    BY <1>3, SarAssumption DEF IInv, TypeOK, OutMsgs
  <2> QED
    BY <1>1, <1>3, <2>1, <2>2 DEF Service!Report
<1>4. CASE /\ out # None /\ UNCHANGED acked
           /\ out' = [out EXCEPT !.ack = out.ack \cup (ack \cap full_ack(out.msg))]
  <2>1. out \in OutMsgs
    BY <1>4 DEF IInv, TypeOK
  <2>2. out.ack \cup (ack \cap full_ack(out.msg)) \in SUBSET AllSegments
    BY <2>1 DEF OutMsgs, AllSegments
  <2>3. out' \in OutMsgs /\ out'.msg = out.msg
    BY <1>4, <2>1, <2>2 DEF OutMsgs
  <2>4. out' # None
    BY <2>3, NoneAssumption
  <2> QED
    BY <1>1, <1>4, <2>3, <2>4 DEF Service!vars
<1> QED
  BY <1>1, <1>2, <1>3, <1>4

\* Every step of Sar is one of the service, or none.
LEMMA StepRefines ==
  ASSUME IInv, IInv', Env = {}, [Next]_vars
  PROVE  [Service!Next]_(Service!vars)
<1>1. CASE net_access_layer_send
  <2>1. /\ count + 1 \in 1..Len(SegN) /\ count \in Nat /\ count' = count + 1
        /\ out' = [msg |-> count + 1, ack |-> {}] /\ UNCHANGED <<acked, delivered>>
    BY <1>1, Positive DEF net_access_layer_send, receiver, IInv, TypeOK
  <2>2. out' \in OutMsgs /\ out' # None /\ out'.msg = count + 1
    BY <2>1, Positive, NoneAssumption DEF OutMsgs
  <2>3. Service!Send
    BY <2>1, <2>2, Positive DEF Service!Send
  <2> QED
    BY <2>3 DEF Service!Next
<1>2. CASE sar_out_msg_timeout
  <2>1. out # None /\ out' = None /\ UNCHANGED <<count, acked, delivered>>
    BY <1>2 DEF sar_out_msg_timeout, receiver
  <2>2. out.msg # None
    BY <2>1, SarAssumption DEF IInv, TypeOK, OutMsgs
  <2>3. Service!GiveUp
    BY <2>1, <2>2 DEF Service!GiveUp
  <2> QED
    BY <2>3 DEF Service!Next
<1>3. CASE \/ sar_out_ack_timeout \/ NextWindow \/ sar_in_ack_timeout
           \/ sar_in_msg_timeout \/ net_session_close \/ Lose \/ UNCHANGED vars
  <2>1. UNCHANGED <<count, out, acked, delivered>>
    BY <1>3 DEF sar_out_ack_timeout, NextWindow, sar_in_ack_timeout, sar_in_msg_timeout,
                net_session_close, Lose, vars, sender, receiver
  <2> QED
    BY <2>1 DEF Service!vars
<1>4. CASE \E m \in Msgs : \E k \in Segments(m) : SegArrives(m, k)
  BY <1>4, SegRefines DEF Service!Next
<1>5. CASE \E m \in Msgs : \E ack \in SUBSET Segments(m) : AckArrives(m, ack)
  BY <1>5, AckRefines DEF Service!Next
<1> QED
  BY <1>1, <1>2, <1>3, <1>4, <1>5 DEF Next

(* Sender and receiver implement MessageService: over any orderly network    *)
(* seg_rxed delivers a message at most once and never after a later one, and *)
(* ack_rxed reports only what was delivered.                                 *)
THEOREM ServiceImplemented == ASSUME Env = {} PROVE Spec => ImplementsMessageService
<1>1. Init => Service!Init
  BY DEF Init, Service!Init
<1>2. IInv /\ IInv' /\ [Next]_vars => [Service!Next]_(Service!vars)
  BY StepRefines
<1> QED
  BY <1>1, <1>2, Invariance, PTL DEF Spec, ImplementsMessageService, Service!Spec
=============================================================================
