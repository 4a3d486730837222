------------------------- MODULE EventBridgeProofs -------------------------
(***************************************************************************)
(* Proofs about EventBridge: the two semaphores pass one token round, so   *)
(* at most one thread has the slot, and nothing put into it is lost.       *)
(***************************************************************************)
EXTENDS EventBridge, TLAPS

One(b) == IF b THEN 1 ELSE 0

\* A thread has the token between its sem_wait and its sem_post.
HasToken(t) == prod[t].pc \in {"fill", "post"}

Late == stage \in {"freed", "closing", "flagged", "ended"}

Tokens ==
  eventEmpty + eventFull + One(HasToken("main")) + One(HasToken("gui"))
    + One(cb \in {"handle", "post"}) + One(stage \in {"closing", "flagged"})

\* Once the semaphores are initialised there is one token; before, none, and
\* nobody has asked for it.
OneToken ==
  IF stage = "start"
  THEN /\ eventEmpty = 0 /\ eventFull = 0
       /\ \A t \in Producers : prod[t].pc = "idle"
       /\ cb \in {"new", "wait"} /\ slot = None /\ ~quit /\ held = None
  ELSE Tokens = 1

\* An event is in the slot only while the token is between the producer that
\* wrote it and the callback thread that takes it.
SlotGuarded ==
  slot # None => \/ prod["main"].pc = "post" \/ prod["gui"].pc = "post"
                 \/ eventFull = 1 \/ cb = "handle"

\* When the main loop has ended no producer is left, and the exit flag comes
\* with an empty slot.
Ending ==
  /\ quit => prod["gui"].pc = "idle"
  /\ Late => quit /\ held = None /\ prod["main"].pc = "idle"
  /\ exitEventLoop => slot = None /\ stage \in {"flagged", "ended"}

IInv == TypeOK /\ OneToken /\ SlotGuarded /\ Ending /\ NothingLost
-----------------------------------------------------------------------------
Pcs == {"idle", "wait", "fill", "post"}

\* The two facts of TypeOK about the producers.
ProdOk(p) ==
  /\ p \in [Producers -> [pc : Pcs, todo : Seq(Events)]]
  /\ \A t \in Producers : p[t].pc = "idle" <=> p[t].todo = <<>>

\* A producer that gets events to send is idle or waits.
LEMMA SendingOk ==
  ASSUME NEW es \in Seq(Events)
  PROVE  /\ Sending(es) \in [pc : Pcs, todo : Seq(Events)]
         /\ Sending(es).pc \in {"idle", "wait"}
         /\ Sending(es).pc = "idle" <=> Sending(es).todo = <<>>
<1>1. CASE es = <<>>
  BY <1>1 DEF Sending, Idle, Pcs
<1>2. CASE es # <<>>
  BY <1>2 DEF Sending, Pcs
<1> QED
  BY <1>1, <1>2

\* Replacing the state of one producer by a good one keeps ProdOk.
LEMMA ProdUpdate ==
  ASSUME NEW p, ProdOk(p), NEW t \in Producers,
         NEW r \in [pc : Pcs, todo : Seq(Events)],
         r.pc = "idle" <=> r.todo = <<>>
  PROVE  /\ ProdOk([p EXCEPT ![t] = r])
         /\ [p EXCEPT ![t] = r][t] = r
         /\ \A u \in Producers \ {t} : [p EXCEPT ![t] = r][u] = p[u]
<1> DEFINE q == [p EXCEPT ![t] = r]
<1>1. q[t] = r /\ \A u \in Producers \ {t} : q[u] = p[u]
  BY DEF ProdOk
<1>2. q \in [Producers -> [pc : Pcs, todo : Seq(Events)]]
  BY DEF ProdOk
<1>3. ASSUME NEW u \in Producers PROVE q[u].pc = "idle" <=> q[u].todo = <<>>
  <2>1. CASE u = t
    BY <2>1, <1>1
  <2>2. CASE u # t
    BY <2>2, <1>1 DEF ProdOk
  <2> QED
    BY <2>1, <2>2
<1> QED
  BY <1>1, <1>2, <1>3 DEF ProdOk

\* The inductive invariant holds initially.
LEMMA InitInv == Init => IInv
<1> SUFFICES ASSUME Init PROVE IInv
  OBVIOUS
<1>1. ProdOk(prod)
  <2>1. prod \in [Producers -> [pc : Pcs, todo : Seq(Events)]]
    BY DEF Init, Idle, Pcs
  <2>2. \A t \in Producers : prod[t].pc = "idle" /\ prod[t].todo = <<>>
    BY DEF Init, Idle
  <2> QED
    BY <2>1, <2>2 DEF ProdOk
<1>2. TypeOK
  <2>1. asleep \in BOOLEAN /\ exitEventLoop \in BOOLEAN /\ quit \in BOOLEAN
    BY DEF Init
  <2>2. /\ stage \in {"start", "running", "freed", "closing", "flagged", "ended"}
        /\ cb \in {"new", "wait", "handle", "post", "test", "done"}
        /\ eventEmpty \in Nat /\ eventFull \in Nat
        /\ slot \in Events \cup {None}
        /\ sent \in Seq(Events) /\ delivered \in Seq(Events)
        /\ held \in [dev : Dev, listed : BOOLEAN] \cup {None}
    BY DEF Init
  <2> QED
    BY <1>1, <2>1, <2>2, Zenon DEF TypeOK, ProdOk, Pcs
<1>3. OneToken /\ SlotGuarded /\ Ending /\ NothingLost
  BY DEF Init, OneToken, SlotGuarded, Ending, NothingLost, Idle, Late
<1> QED
  BY <1>2, <1>3 DEF IInv
\* The types that do not concern the producers.
Plain ==
  /\ stage \in {"start", "running", "freed", "closing", "flagged", "ended"}
  /\ cb \in {"new", "wait", "handle", "post", "test", "done"}
  /\ eventEmpty \in Nat /\ eventFull \in Nat
  /\ slot \in Events \cup {None}
  /\ sent \in Seq(Events) /\ delivered \in Seq(Events)
  /\ held \in [dev : Dev, listed : BOOLEAN] \cup {None}

Flags == asleep \in BOOLEAN /\ exitEventLoop \in BOOLEAN /\ quit \in BOOLEAN

LEMMA TypeParts == TypeOK <=> ProdOk(prod) /\ Plain /\ Flags
BY Zenon DEF TypeOK, ProdOk, Pcs, Plain, Flags

LEMMA TypePartsNext == TypeOK' <=> ProdOk(prod') /\ Plain' /\ Flags'
BY Zenon DEF TypeOK, ProdOk, Pcs, Plain, Flags

\* What the invariant says of the producers, one at a time.
LEMMA ProdPcs ==
  ASSUME ProdOk(prod)
  PROVE  /\ prod["main"].pc \in Pcs /\ prod["gui"].pc \in Pcs
         /\ \A t \in Producers : t = "main" \/ t = "gui"
BY DEF ProdOk, Producers

\* The steps that leave the producers alone.
LEMMA QuietStep ==
  ASSUME IInv,
         \/ SemInit \/ endMainloop \/ mesh_init_end \/ eventCallback \/ Discovering
  PROVE  IInv'
<1>1. ProdOk(prod) /\ Plain /\ Flags
  BY TypeParts DEF IInv
<1>2. OneToken /\ SlotGuarded /\ Ending /\ NothingLost
  BY DEF IInv
<1>3. prod["main"].pc \in Pcs /\ prod["gui"].pc \in Pcs
  BY <1>1, ProdPcs
<1>4. ASSUME prod' = prod, Plain', Flags', OneToken', SlotGuarded', Ending', NothingLost'
      PROVE  IInv'
  BY <1>1, <1>4, TypePartsNext DEF IInv
<1>5. CASE SemInit
  <2>1. prod' = prod /\ Plain'
    BY <1>1, <1>5 DEF SemInit, Plain, sems, history, devices, java, bridge
  <2>2. Flags'
    BY <1>1, <1>5, Zenon DEF SemInit, Flags, sems, history, devices, java, bridge
  <2>3. OneToken' /\ SlotGuarded' /\ Ending' /\ NothingLost'
    BY <1>1, <1>2, <1>3, <1>5 DEF SemInit, sems, history, devices, java, bridge,
       OneToken, SlotGuarded, Ending, NothingLost, Tokens, HasToken, One, Late, Plain, Pcs, Producers
  <2> QED
    BY <2>1, <2>2, <2>3, <1>4
<1>6. CASE endMainloop
  <2>1. prod' = prod /\ Plain'
    BY <1>1, <1>6 DEF endMainloop, Idle, Plain, sems, history, devices, java, bridge
  <2>2. Flags'
    BY <1>1, <1>6, Zenon DEF endMainloop, Idle, Flags, sems, history, devices, java, bridge
  <2>3. OneToken' /\ SlotGuarded' /\ Ending' /\ NothingLost'
    BY <1>1, <1>2, <1>3, <1>6 DEF endMainloop, Idle, sems, history, devices, java, bridge,
       OneToken, SlotGuarded, Ending, NothingLost, Tokens, HasToken, One, Late, Plain, Pcs, Producers
  <2> QED
    BY <2>1, <2>2, <2>3, <1>4
<1>7. CASE FreeBuffer
  <2>1. prod' = prod /\ Plain'
    BY <1>1, <1>7 DEF FreeBuffer, Idle, Plain, sems, history, devices, java, bridge
  <2>2. Flags'
    BY <1>1, <1>7, Zenon DEF FreeBuffer, Idle, Flags, sems, history, devices, java, bridge
  <2>3. OneToken' /\ SlotGuarded' /\ Ending' /\ NothingLost'
    BY <1>1, <1>2, <1>3, <1>7 DEF FreeBuffer, Idle, sems, history, devices, java, bridge,
       OneToken, SlotGuarded, Ending, NothingLost, Tokens, HasToken, One, Late, Plain, Pcs, Producers
  <2> QED
    BY <2>1, <2>2, <2>3, <1>4
<1>8. CASE CloseWait
  <2>1. prod' = prod /\ Plain'
    BY <1>1, <1>8 DEF CloseWait, Plain, sems, history, devices, java, bridge
  <2>2. Flags'
    BY <1>1, <1>8, Zenon DEF CloseWait, Flags, sems, history, devices, java, bridge
  <2>3. OneToken' /\ SlotGuarded' /\ Ending' /\ NothingLost'
    BY <1>1, <1>2, <1>3, <1>8 DEF CloseWait, sems, history, devices, java, bridge,
       OneToken, SlotGuarded, Ending, NothingLost, Tokens, HasToken, One, Late, Plain, Pcs, Producers
  <2> QED
    BY <2>1, <2>2, <2>3, <1>4
<1>9. CASE CloseFlag
  <2>1. prod' = prod /\ Plain'
    BY <1>1, <1>9 DEF CloseFlag, Plain, sems, history, devices, java, bridge
  <2>2. Flags'
    BY <1>1, <1>9, Zenon DEF CloseFlag, Flags, sems, history, devices, java, bridge
  <2>3. OneToken' /\ SlotGuarded' /\ Ending' /\ NothingLost'
    BY <1>1, <1>2, <1>3, <1>9 DEF CloseFlag, sems, history, devices, java, bridge,
       OneToken, SlotGuarded, Ending, NothingLost, Tokens, HasToken, One, Late, Plain, Pcs, Producers
  <2> QED
    BY <2>1, <2>2, <2>3, <1>4
<1>10. CASE ClosePost
  <2>1. prod' = prod /\ Plain'
    BY <1>1, <1>10 DEF ClosePost, Plain, sems, history, devices, java, bridge
  <2>2. Flags'
    BY <1>1, <1>10, Zenon DEF ClosePost, Flags, sems, history, devices, java, bridge
  <2>3. OneToken' /\ SlotGuarded' /\ Ending' /\ NothingLost'
    BY <1>1, <1>2, <1>3, <1>10 DEF ClosePost, sems, history, devices, java, bridge,
       OneToken, SlotGuarded, Ending, NothingLost, Tokens, HasToken, One, Late, Plain, Pcs, Producers
  <2> QED
    BY <2>1, <2>2, <2>3, <1>4
<1>11. CASE EventStart
  <2>1. prod' = prod /\ Plain'
    BY <1>1, <1>11 DEF EventStart, Plain, sems, history, devices, java, bridge
  <2>2. Flags'
    BY <1>1, <1>11, Zenon DEF EventStart, Flags, sems, history, devices, java, bridge
  <2>3. OneToken' /\ SlotGuarded' /\ Ending' /\ NothingLost'
    BY <1>1, <1>2, <1>3, <1>11 DEF EventStart, sems, history, devices, java, bridge,
       OneToken, SlotGuarded, Ending, NothingLost, Tokens, HasToken, One, Late, Plain, Pcs, Producers
  <2> QED
    BY <2>1, <2>2, <2>3, <1>4
<1>12. CASE EventWait
  <2>1. prod' = prod /\ Plain'
    BY <1>1, <1>12 DEF EventWait, Plain, sems, history, devices, java, bridge
  <2>2. Flags'
    BY <1>1, <1>12, Zenon DEF EventWait, Flags, sems, history, devices, java, bridge
  <2>3. OneToken' /\ SlotGuarded' /\ Ending' /\ NothingLost'
    BY <1>1, <1>2, <1>3, <1>12 DEF EventWait, sems, history, devices, java, bridge,
       OneToken, SlotGuarded, Ending, NothingLost, Tokens, HasToken, One, Late, Plain, Pcs, Producers
  <2> QED
    BY <2>1, <2>2, <2>3, <1>4
<1>13. CASE EventHandle
  <2>1. prod' = prod /\ Plain'
    BY <1>1, <1>13 DEF EventHandle, discoverUnprovisionedCallback, Plain, sems, history, devices, java, bridge
  <2>2. Flags'
    BY <1>1, <1>13, Zenon DEF EventHandle, discoverUnprovisionedCallback, Flags, sems, history, devices, java, bridge
  <2>3. OneToken' /\ SlotGuarded' /\ Ending' /\ NothingLost'
    BY <1>1, <1>2, <1>3, <1>13 DEF EventHandle, discoverUnprovisionedCallback, sems, history, devices, java, bridge,
       OneToken, SlotGuarded, Ending, NothingLost, Tokens, HasToken, One, Late, Plain, Pcs, Producers
  <2> QED
    BY <2>1, <2>2, <2>3, <1>4
<1>14. CASE EventPost
  <2>1. prod' = prod /\ Plain'
    BY <1>1, <1>14 DEF EventPost, Plain, sems, history, devices, java, bridge
  <2>2. Flags'
    BY <1>1, <1>14, Zenon DEF EventPost, Flags, sems, history, devices, java, bridge
  <2>3. OneToken' /\ SlotGuarded' /\ Ending' /\ NothingLost'
    BY <1>1, <1>2, <1>3, <1>14 DEF EventPost, sems, history, devices, java, bridge,
       OneToken, SlotGuarded, Ending, NothingLost, Tokens, HasToken, One, Late, Plain, Pcs, Producers
  <2> QED
    BY <2>1, <2>2, <2>3, <1>4
<1>15. CASE EventTest
  <2>1. prod' = prod /\ Plain'
    BY <1>1, <1>15 DEF EventTest, Plain, sems, history, devices, java, bridge
  <2>2. Flags'
    BY <1>1, <1>15, Zenon DEF EventTest, Flags, sems, history, devices, java, bridge
  <2>3. OneToken' /\ SlotGuarded' /\ Ending' /\ NothingLost'
    BY <1>1, <1>2, <1>3, <1>15 DEF EventTest, sems, history, devices, java, bridge,
       OneToken, SlotGuarded, Ending, NothingLost, Tokens, HasToken, One, Late, Plain, Pcs, Producers
  <2> QED
    BY <2>1, <2>2, <2>3, <1>4
<1>16. CASE Discovering
  <2>1. prod' = prod /\ Plain'
    BY <1>1, <1>16 DEF Discovering, Looping, Plain, sems, history, devices, java, bridge
  <2>2. Flags'
    BY <1>1, <1>16, Zenon DEF Discovering, Looping, Flags, sems, history, devices, java, bridge
  <2>3. OneToken' /\ SlotGuarded' /\ Ending' /\ NothingLost'
    BY <1>1, <1>2, <1>3, <1>16 DEF Discovering, Looping, sems, history, devices, java, bridge,
       OneToken, SlotGuarded, Ending, NothingLost, Tokens, HasToken, One, Late, Plain, Pcs, Producers
  <2> QED
    BY <2>1, <2>2, <2>3, <1>4
<1> QED
  BY <1>5, <1>6, <1>7, <1>8, <1>9, <1>10, <1>11, <1>12, <1>13, <1>14, <1>15, <1>16
     DEF mesh_init_end, eventCallback

\* Every step of a producer changes its state as ProdUpdate says.
LEMMA ProducerStep ==
  ASSUME IInv, NEW t \in Producers, sendEventToJava(t)
  PROVE  IInv'
<1>1. ProdOk(prod) /\ Plain /\ Flags
  BY TypeParts DEF IInv
<1>2. OneToken /\ SlotGuarded /\ Ending /\ NothingLost
  BY DEF IInv
<1>3. /\ prod["main"].pc \in Pcs /\ prod["gui"].pc \in Pcs
      /\ t = "main" \/ t = "gui"
  BY <1>1, ProdPcs
<1>4. prod[t] \in [pc : Pcs, todo : Seq(Events)]
  BY <1>1 DEF ProdOk
<1>5. Flags'
  BY <1>1, Zenon DEF sendEventToJava, SendWait, SendFill, SendPost, Flags
<1>6. ASSUME ProdOk(prod'), Plain', OneToken', SlotGuarded', Ending', NothingLost'
      PROVE  IInv'
  BY <1>5, <1>6, TypePartsNext DEF IInv
<1>7. ASSUME NEW pc \in {"fill", "post"}, prod[t].pc # "idle",
             prod' = [prod EXCEPT ![t].pc = pc]
      PROVE  /\ ProdOk(prod') /\ prod'[t].pc = pc
             /\ \A u \in Producers \ {t} : prod'[u] = prod[u]
  <2> DEFINE r == [prod[t] EXCEPT !.pc = pc]
  <2>1. r \in [pc : Pcs, todo : Seq(Events)] /\ r.pc = pc /\ r.todo = prod[t].todo
    BY <1>4 DEF Pcs
  <2>2. prod' = [prod EXCEPT ![t] = r]
    BY <1>7
  <2>3. prod[t].todo # <<>>
    BY <1>1, <1>7 DEF ProdOk
  <2>4. r.pc # "idle" /\ r.todo # <<>>
    BY <2>1, <2>3
  <2>5. r.pc = "idle" <=> r.todo = <<>>
    BY <2>4
  <2>6. /\ ProdOk([prod EXCEPT ![t] = r]) /\ [prod EXCEPT ![t] = r][t] = r
        /\ \A u \in Producers \ {t} : [prod EXCEPT ![t] = r][u] = prod[u]
    <3> HIDE DEF r
    <3> QED
      BY <1>1, <2>1, <2>5, ProdUpdate
  <2> QED
    BY <2>1, <2>2, <2>6
<1>8. CASE SendWait(t)
  <2>1. prod[t].pc = "wait" /\ prod' = [prod EXCEPT ![t].pc = "fill"]
    BY <1>8 DEF SendWait
  <2>2. /\ ProdOk(prod') /\ prod'[t].pc = "fill"
        /\ \A u \in Producers \ {t} : prod'[u] = prod[u]
    BY <2>1, <1>7
  <2>3. Plain'
    BY <1>1, <1>8 DEF SendWait, Plain, sems, history, devices, java, bridge
  <2>4. OneToken' /\ SlotGuarded' /\ Ending' /\ NothingLost'
    BY <1>1, <1>2, <1>3, <1>8, <2>1, <2>2 DEF SendWait, sems, history, devices, java, bridge,
       OneToken, SlotGuarded, Ending, NothingLost, Tokens, HasToken, One, Late, Plain, Pcs, Producers
  <2> QED
    BY <2>2, <2>3, <2>4, <1>6
<1>9. CASE SendFill(t)
  <2>1. prod[t].pc = "fill" /\ prod' = [prod EXCEPT ![t].pc = "post"]
    BY <1>9 DEF SendFill
  <2>2. /\ ProdOk(prod') /\ prod'[t].pc = "post"
        /\ \A u \in Producers \ {t} : prod'[u] = prod[u]
    BY <2>1, <1>7
  <2>3. prod[t].todo \in Seq(Events) /\ prod[t].todo # <<>>
    BY <1>1, <1>4, <2>1 DEF ProdOk
  <2>4. Head(prod[t].todo) \in Events
    BY <2>3
  <2>5. Plain'
    BY <1>1, <1>9, <2>4 DEF SendFill, Plain, sems, history, devices, java, bridge
  <2>6. slot = None
    BY <1>1, <1>2, <1>3, <2>1 DEF OneToken, SlotGuarded, Ending, NothingLost, Tokens, HasToken, One, Late, Plain, Pcs, Producers
  <2>7. NothingLost'
    BY <1>2, <1>9, <2>4, <2>6, NoneAssumption DEF SendFill, NothingLost
  <2>8. OneToken' /\ SlotGuarded' /\ Ending'
    BY <1>1, <1>2, <1>3, <1>9, <2>1, <2>2 DEF SendFill, sems, history, devices, java, bridge,
       OneToken, SlotGuarded, Ending, NothingLost, Tokens, HasToken, One, Late, Plain, Pcs, Producers
  <2> QED
    BY <2>2, <2>5, <2>7, <2>8, <1>6
<1>10. CASE SendPost(t)
  <2> DEFINE r == Sending(Tail(prod[t].todo))
  <2>1. prod[t].pc = "post" /\ prod' = [prod EXCEPT ![t] = r]
    BY <1>10 DEF SendPost
  <2>2. prod[t].todo \in Seq(Events) /\ prod[t].todo # <<>>
    BY <1>1, <1>4, <2>1 DEF ProdOk
  <2>3. Tail(prod[t].todo) \in Seq(Events)
    BY <2>2
  <2>4. /\ r \in [pc : Pcs, todo : Seq(Events)] /\ r.pc \in {"idle", "wait"}
        /\ r.pc = "idle" <=> r.todo = <<>>
    BY <2>3, SendingOk
  <2>5. /\ ProdOk(prod') /\ prod'[t] = r
        /\ \A u \in Producers \ {t} : prod'[u] = prod[u]
    <3>1. /\ ProdOk([prod EXCEPT ![t] = r]) /\ [prod EXCEPT ![t] = r][t] = r
          /\ \A u \in Producers \ {t} : [prod EXCEPT ![t] = r][u] = prod[u]
      <4> HIDE DEF r
      <4> QED
        BY <1>1, <2>4, ProdUpdate
    <3> QED
      BY <2>1, <3>1, Zenon
  <2>6. prod'[t].pc \in {"idle", "wait"}
    BY <2>4, <2>5
  <2>7. Plain'
    BY <1>1, <1>10 DEF SendPost, Plain, sems, history, devices, java, bridge
  <2>8. OneToken' /\ SlotGuarded' /\ Ending' /\ NothingLost'
    BY <1>1, <1>2, <1>3, <1>10, <2>1, <2>5, <2>6 DEF SendPost, sems, history, devices, java, bridge,
       OneToken, SlotGuarded, Ending, NothingLost, Tokens, HasToken, One, Late, Plain, Pcs, Producers
  <2> QED
    BY <2>5, <2>7, <2>8, <1>6
<1> QED
  BY <1>8, <1>9, <1>10 DEF sendEventToJava

\* The handlers give an idle producer events to send; the semaphores and the
\* slot stay.
LEMMA HandlerStep ==
  ASSUME IInv, NEW d \in Dev,
         \/ update_device_info(d) \/ update_device_info_entry
         \/ device_removed(d) \/ cmd_start_prov(d)
  PROVE  IInv'
<1>1. ProdOk(prod) /\ Plain /\ Flags
  BY TypeParts DEF IInv
<1>2. OneToken /\ SlotGuarded /\ Ending /\ NothingLost
  BY DEF IInv
<1>3. prod["main"].pc \in Pcs /\ prod["gui"].pc \in Pcs
  BY <1>1, ProdPcs
<1>4. Flags'
  BY <1>1, Zenon DEF update_device_info, update_device_info_entry, device_removed,
     cmd_start_prov, Flags
<1>5. \A key \in Keys, e \in Dev : Event(key, e) \in Events
  BY DEF Event, Events
<1>6. /\ \A key \in Keys, e \in Dev : <<Event(key, e)>> \in Seq(Events)
      /\ <<>> \in Seq(Events)
  BY <1>5
<1>7. ASSUME NEW t \in Producers, NEW es \in Seq(Events), prod[t] = Idle,
             prod' = [prod EXCEPT ![t] = Sending(es)]
      PROVE  /\ ProdOk(prod') /\ prod[t].pc = "idle"
             /\ prod'[t].pc \in {"idle", "wait"}
             /\ \A u \in Producers \ {t} : prod'[u] = prod[u]
  <2>1. /\ Sending(es) \in [pc : Pcs, todo : Seq(Events)]
        /\ Sending(es).pc \in {"idle", "wait"}
        /\ Sending(es).pc = "idle" <=> Sending(es).todo = <<>>
    BY SendingOk
  <2>2. /\ ProdOk(prod') /\ prod'[t] = Sending(es)
        /\ \A u \in Producers \ {t} : prod'[u] = prod[u]
    <3> DEFINE r == Sending(es)
    <3>1. /\ ProdOk([prod EXCEPT ![t] = r]) /\ [prod EXCEPT ![t] = r][t] = r
          /\ \A u \in Producers \ {t} : [prod EXCEPT ![t] = r][u] = prod[u]
      <4>1. r \in [pc : Pcs, todo : Seq(Events)] /\ (r.pc = "idle" <=> r.todo = <<>>)
        BY <2>1
      <4> HIDE DEF r
      <4> QED
        BY <1>1, <4>1, ProdUpdate
    <3> QED
      BY <1>7, <3>1, Zenon
  <2>3. prod[t].pc = "idle"
    BY <1>7 DEF Idle
  <2> QED
    BY <2>1, <2>2, <2>3
<1>8. ASSUME ProdOk(prod'), Plain', OneToken', SlotGuarded', Ending', NothingLost'
      PROVE  IInv'
  BY <1>4, <1>8, TypePartsNext DEF IInv
<1>9. "main" \in Producers /\ "gui" \in Producers /\ "main" # "gui"
  BY DEF Producers
<1>10. CASE update_device_info(d)
  <2> DEFINE es == IF Shows(d) THEN <<Event("UUID", d)>> ELSE <<>>
  <2>1. prod["main"] = Idle /\ prod' = [prod EXCEPT !["main"] = Sending(es)]
    BY <1>10 DEF update_device_info, Looping
  <2>2. es \in Seq(Events)
    BY <1>6 DEF Keys
  <2>3. /\ ProdOk(prod') /\ prod["main"].pc = "idle"
        /\ prod'["main"].pc \in {"idle", "wait"}
        /\ \A u \in Producers \ {"main"} : prod'[u] = prod[u]
    BY <1>7, <1>9, <2>1, <2>2
  <2>0. held' \in [dev : Dev, listed : BOOLEAN]
    <3>1. Listed(d) \in BOOLEAN
      BY Zenon DEF Listed
    <3>2. held' = [dev |-> d, listed |-> Listed(d)]
      BY <1>10 DEF update_device_info
    <3> HIDE DEF Listed
    <3> QED
      BY <3>1, <3>2
  <2>4. Plain'
    BY <1>1, <1>10, <2>0 DEF update_device_info, Looping, Plain, sems, history, devices, java, bridge
  <2>5. OneToken' /\ SlotGuarded' /\ Ending' /\ NothingLost'
    BY <1>1, <1>2, <1>3, <1>10, <2>3 DEF update_device_info, Looping, sems, history, devices, java, bridge,
       OneToken, SlotGuarded, Ending, NothingLost, Tokens, HasToken, One, Late, Plain, Pcs, Producers
  <2> QED
    BY <2>3, <2>4, <2>5, <1>8
<1>11. CASE device_removed(d)
  <2> DEFINE es == <<Event("NAME", d)>>
  <2>1. prod["main"] = Idle /\ prod' = [prod EXCEPT !["main"] = Sending(es)]
    BY <1>11 DEF device_removed, Looping
  <2>2. es \in Seq(Events)
    BY <1>6 DEF Keys
  <2>3. /\ ProdOk(prod') /\ prod["main"].pc = "idle"
        /\ prod'["main"].pc \in {"idle", "wait"}
        /\ \A u \in Producers \ {"main"} : prod'[u] = prod[u]
    BY <1>7, <1>9, <2>1, <2>2
  <2>4. Plain'
    BY <1>1, <1>11 DEF device_removed, Looping, Plain, sems, history, devices, java, bridge
  <2>5. OneToken' /\ SlotGuarded' /\ Ending' /\ NothingLost'
    BY <1>1, <1>2, <1>3, <1>11, <2>3 DEF device_removed, Looping, sems, history, devices, java, bridge,
       OneToken, SlotGuarded, Ending, NothingLost, Tokens, HasToken, One, Late, Plain, Pcs, Producers
  <2> QED
    BY <2>3, <2>4, <2>5, <1>8
<1>12. CASE cmd_start_prov(d)
  <2> DEFINE es == <<Event("NAME", d)>>
  <2>1. prod["gui"] = Idle /\ prod' = [prod EXCEPT !["gui"] = Sending(es)]
    BY <1>12 DEF cmd_start_prov
  <2>2. es \in Seq(Events)
    BY <1>6 DEF Keys
  <2>3. /\ ProdOk(prod') /\ prod["gui"].pc = "idle"
        /\ prod'["gui"].pc \in {"idle", "wait"}
        /\ \A u \in Producers \ {"gui"} : prod'[u] = prod[u]
    BY <1>7, <1>9, <2>1, <2>2
  <2>4. Plain'
    BY <1>1, <1>12 DEF cmd_start_prov, Plain, sems, history, devices, java, bridge
  <2>5. OneToken' /\ SlotGuarded' /\ Ending' /\ NothingLost'
    BY <1>1, <1>2, <1>3, <1>12, <2>3 DEF cmd_start_prov, sems, history, devices, java, bridge,
       OneToken, SlotGuarded, Ending, NothingLost, Tokens, HasToken, One, Late, Plain, Pcs, Producers
  <2> QED
    BY <2>3, <2>4, <2>5, <1>8
<1>13. CASE update_device_info_entry
  <2>0. held # None /\ held' = None /\ prod["main"] = Idle /\ held.dev \in Dev
    BY <1>1, <1>13 DEF update_device_info_entry, Plain
  <2>1. Plain'
    BY <1>1, <1>13 DEF update_device_info_entry, Plain, sems, history, devices, java, bridge
  <2>2. CASE prod' = prod
    <3>1. OneToken' /\ SlotGuarded' /\ Ending' /\ NothingLost'
      BY <1>1, <1>2, <1>3, <1>13, <2>0, <2>2 DEF update_device_info_entry, sems, history, devices, java, bridge,
         OneToken, SlotGuarded, Ending, NothingLost, Tokens, HasToken, One, Late, Plain, Pcs, Producers
    <3> QED
      BY <1>1, <2>1, <2>2, <3>1, <1>8
  <2>3. CASE prod' = [prod EXCEPT !["main"] = Sending(<<Event("NAME", held.dev)>>)]
    <3>1. <<Event("NAME", held.dev)>> \in Seq(Events)
      BY <1>6, <2>0 DEF Keys
    <3>2. /\ ProdOk(prod') /\ prod["main"].pc = "idle"
          /\ prod'["main"].pc \in {"idle", "wait"}
          /\ \A u \in Producers \ {"main"} : prod'[u] = prod[u]
      BY <1>7, <1>9, <2>0, <2>3, <3>1
    <3>3. OneToken' /\ SlotGuarded' /\ Ending' /\ NothingLost'
      BY <1>1, <1>2, <1>3, <1>13, <2>0, <3>2 DEF update_device_info_entry, sems, history, devices, java, bridge,
         OneToken, SlotGuarded, Ending, NothingLost, Tokens, HasToken, One, Late, Plain, Pcs, Producers
    <3> QED
      BY <2>1, <3>2, <3>3, <1>8
  <2> QED
    BY <1>13, <2>2, <2>3 DEF update_device_info_entry
<1> QED
  BY <1>10, <1>11, <1>12, <1>13

\* update_device_info_entry has no parameter: it needs no device to exist.
LEMMA EntryStep ==
  ASSUME IInv, update_device_info_entry
  PROVE  IInv'
<1>1. held.dev \in Dev
  BY DEF IInv, TypeOK, update_device_info_entry
<1> QED
  BY <1>1, HandlerStep

\* The invariant survives every step.
LEMMA StepInv == IInv /\ [Next]_vars => IInv'
<1> SUFFICES ASSUME IInv, [Next]_vars PROVE IInv'
  OBVIOUS
<1>1. CASE SemInit \/ endMainloop \/ mesh_init_end \/ eventCallback \/ Discovering
  BY <1>1, QuietStep
<1>2. ASSUME NEW t \in Producers, sendEventToJava(t) PROVE IInv'
  BY <1>2, ProducerStep
<1>3. CASE update_device_info_entry
  BY <1>3, EntryStep
<1>4. ASSUME NEW d \in Dev,
             update_device_info(d) \/ device_removed(d) \/ cmd_start_prov(d)
      PROVE  IInv'
  BY <1>4, HandlerStep
<1>5. CASE UNCHANGED vars
  BY <1>5 DEF vars, sems, history, devices, java, bridge, IInv, TypeOK, OneToken, SlotGuarded, Ending,
     NothingLost, Tokens, HasToken, One, Late
<1> QED
  BY <1>1, <1>2, <1>3, <1>4, <1>5 DEF Next

(* Every variable of the bridge keeps its type, for any devices and bounds:  *)
(* in particular no semaphore value is ever negative (sem_wait waits).       *)
THEOREM TypeCorrect == Spec => []TypeOK
<1>1. IInv => TypeOK
  BY DEF IInv
<1> QED
  BY <1>1, InitInv, StepInv, PTL DEF Spec

(* The main loop and the Swing thread share the one-slot buffer of           *)
(* sendEventToJava without losing, repeating or reordering an event, for any *)
(* set of devices and any number of events.                                  *)
THEOREM EventsKept == Spec => []NothingLost
<1>1. IInv => NothingLost
  BY DEF IInv
<1> QED
  BY <1>1, InitInv, StepInv, PTL DEF Spec
=============================================================================
