---------------------------- MODULE EventBridge ----------------------------
(***************************************************************************)
(* The bridge from the C main loop to the Java window: the one-slot buffer *)
(* of jni/Home.c and blueZ/mesh/main.c with its two semaphores, the two    *)
(* threads that put events into it (the main loop, and the Swing thread    *)
(* inside cmd_start_prov), the callback thread that takes them out, and    *)
(* the handlers of main.c that produce them while devices are discovered.  *)
(*                                                                         *)
(* A step is a piece of code between two operations on shared state; the   *)
(* writes that eventLock protects are one step.                            *)
(***************************************************************************)
EXTENDS Integers, Sequences

CONSTANTS
  Dev,        \* devices, by their UUID
  None,       \* nothing
  MaxEvents,  \* bound: events produced
  MaxScans,   \* bound: discovery sessions
  Env         \* what the threads may do beyond the orderly case

(***************************************************************************)
(* "startrace": the callback thread waits on a semaphore that mesh_init    *)
(* has not initialised yet; "quitbusy": the main loop ends while an event  *)
(* is in the bridge, or before the callback thread runs; "devrace": the    *)
(* user starts a provisioning while a handler holds an entry of the device *)
(* list.                                                                   *)
(***************************************************************************)
Hazards == {"startrace", "quitbusy", "devrace"}

ASSUME BridgeAssumption ==
  /\ MaxEvents \in Nat
  /\ MaxScans \in Nat
  /\ Env \subseteq Hazards

Producers == {"main", "gui"}
Keys == {"NAME", "UUID"}
Events == [key : Keys, dev : Dev]

ASSUME NoneAssumption == None \notin Dev /\ None \notin Events

VARIABLES
  stage,        \* how far mesh_init is
  prod,         \* per producer: the step in sendEventToJava, and its events
  cb,           \* the step of eventCallback
  eventEmpty, eventFull,   \* values of the semaphores
  asleep,       \* the callback thread sleeps on a semaphore that forgot it
  slot,         \* javaEvent and stringBuff; None when the buffer is zeroed
  exitEventLoop,
  quit,         \* the window asked the main loop to end
  sent, delivered,         \* history: events put in, events called back
  discovering, scans,
  mesh_devices, \* default_ctrl->mesh_devices
  held,         \* the device a handler works on, and its entry if it has one
  deviceNameCallback, unprovisioned,   \* Java: the last name, the window's list
  shown, seen   \* history of the session: times shown, devices heard

sems == <<eventEmpty, eventFull>>
bridge == <<stage, prod, cb, sems, asleep, slot, exitEventLoop, quit>>
history == <<sent, delivered, shown, seen>>
devices == <<discovering, scans, mesh_devices, held>>
java == <<deviceNameCallback, unprovisioned>>
vars == <<bridge, history, devices, java>>

Idle == [pc |-> "idle", todo |-> <<>>]

Event(key, d) == [key |-> key, dev |-> d]

\* A producer with events to send.
Sending(events) == IF events = <<>> THEN Idle ELSE [pc |-> "wait", todo |-> events]

(* Every variable keeps its type.                                            *)
TypeOK ==
  /\ stage \in {"start", "running", "freed", "closing", "flagged", "ended"}
  /\ prod \in [Producers -> [pc : {"idle", "wait", "fill", "post"}, todo : Seq(Events)]]
  /\ \A t \in Producers : prod[t].pc = "idle" <=> prod[t].todo = <<>>
  /\ cb \in {"new", "wait", "handle", "post", "test", "done"}
  /\ eventEmpty \in Nat /\ eventFull \in Nat
  /\ asleep \in BOOLEAN /\ exitEventLoop \in BOOLEAN /\ quit \in BOOLEAN
  /\ slot \in Events \cup {None}
  /\ sent \in Seq(Events) /\ delivered \in Seq(Events)
  /\ held \in [dev : Dev, listed : BOOLEAN] \cup {None}
-----------------------------------------------------------------------------
(* The life of mesh_init. *)

\* The main loop is between two handlers.
Looping == stage = "running" /\ ~quit /\ prod["main"] = Idle /\ held = None

\* sem_init.  A thread that sleeps on eventFull is no longer counted as a
\* waiter: the next sem_post does not wake it.
SemInit ==
  /\ stage = "start"
  /\ stage' = "running"
  /\ eventEmpty' = 1 /\ eventFull' = 0
  /\ asleep' = (cb = "wait")
  /\ UNCHANGED <<prod, cb, slot, exitEventLoop, quit, history, devices, java>>

\* windowClosing, endMainloop.
endMainloop ==
  /\ stage = "running" /\ ~quit
  /\ prod["gui"] = Idle
  /\ quit' = TRUE
  /\ UNCHANGED <<stage, prod, cb, sems, asleep, slot, exitEventLoop, history, devices, java>>

\* mainloop_run returns: stringBuff is freed.  In the orderly case the callback
\* thread is done with it.
FreeBuffer ==
  /\ stage = "running" /\ quit
  /\ prod["main"] = Idle /\ held = None
  /\ "quitbusy" \in Env \/ (slot = None /\ cb \notin {"new", "handle"})
  /\ stage' = "freed"
  /\ UNCHANGED <<prod, cb, sems, asleep, slot, exitEventLoop, quit, history, devices, java>>

\* The exit handshake, a step per line: sem_wait, the flag, sem_post; then the
\* semaphores are destroyed.
CloseWait ==
  /\ stage = "freed" /\ eventEmpty > 0
  /\ stage' = "closing"
  /\ eventEmpty' = eventEmpty - 1
  /\ UNCHANGED <<prod, cb, eventFull, asleep, slot, exitEventLoop, quit, history, devices, java>>

CloseFlag ==
  /\ stage = "closing"
  /\ stage' = "flagged"
  /\ exitEventLoop' = TRUE
  /\ UNCHANGED <<prod, cb, sems, asleep, slot, quit, history, devices, java>>

\* Mutant of ClosePost: the callback thread is not woken.
ClosePost_missing ==
  /\ stage = "flagged"
  /\ stage' = "ended"
  /\ UNCHANGED <<prod, cb, sems, asleep, slot, exitEventLoop, quit, history, devices, java>>

ClosePost ==
  /\ stage = "flagged"
  /\ stage' = "ended"
  /\ eventFull' = eventFull + 1
  /\ UNCHANGED <<prod, cb, eventEmpty, asleep, slot, exitEventLoop, quit, history, devices, java>>
-----------------------------------------------------------------------------
(* sendEventToJava, for each of the two threads that call it. *)

\* Mutant of SendWait: the slot is not waited for.
SendWait_nowait(t) ==
  /\ prod[t].pc = "wait"
  /\ prod' = [prod EXCEPT ![t].pc = "fill"]
  /\ UNCHANGED <<stage, cb, sems, asleep, slot, exitEventLoop, quit, history, devices, java>>

SendWait(t) ==
  /\ prod[t].pc = "wait" /\ eventEmpty > 0
  /\ eventEmpty' = eventEmpty - 1
  /\ prod' = [prod EXCEPT ![t].pc = "fill"]
  /\ UNCHANGED <<stage, cb, eventFull, asleep, slot, exitEventLoop, quit, history, devices, java>>

SendFill(t) ==
  /\ prod[t].pc = "fill"
  /\ slot' = Head(prod[t].todo)
  /\ sent' = Append(sent, Head(prod[t].todo))
  /\ prod' = [prod EXCEPT ![t].pc = "post"]
  /\ UNCHANGED <<stage, cb, sems, asleep, exitEventLoop, quit, delivered, shown, seen,
                 devices, java>>

SendPost(t) ==
  /\ prod[t].pc = "post"
  /\ eventFull' = eventFull + 1
  /\ prod' = [prod EXCEPT ![t] = Sending(Tail(@.todo))]
  /\ UNCHANGED <<stage, cb, eventEmpty, asleep, slot, exitEventLoop, quit, history, devices, java>>
-----------------------------------------------------------------------------
(* eventCallback: the callback thread. *)

EventStart ==
  /\ cb = "new"
  /\ "startrace" \in Env \/ stage # "start"
  /\ cb' = "wait"
  /\ exitEventLoop' = FALSE
  /\ UNCHANGED <<stage, prod, sems, asleep, slot, quit, history, devices, java>>

\* Mutant of EventWait: the thread does not wait.
EventWait_nowait ==
  /\ cb = "wait"
  /\ eventFull' = eventFull - 1
  /\ cb' = "handle"
  /\ UNCHANGED <<stage, prod, eventEmpty, asleep, slot, exitEventLoop, quit, history, devices, java>>

EventWait ==
  /\ cb = "wait" /\ eventFull > 0 /\ ~asleep
  /\ eventFull' = eventFull - 1
  /\ cb' = "handle"
  /\ UNCHANGED <<stage, prod, eventEmpty, asleep, slot, exitEventLoop, quit, history, devices, java>>

\* discoverUnprovisionedCallback: a UUID makes a device of the list, with the
\* name that came last.
discoverUnprovisionedCallback(e) ==
  IF e.key = "NAME"
  THEN deviceNameCallback' = e.dev /\ UNCHANGED unprovisioned
  ELSE /\ unprovisioned' = Append(unprovisioned, [uuid |-> e.dev, name |-> deviceNameCallback])
       /\ UNCHANGED deviceNameCallback

\* Under eventLock: the event is called back and the buffer zeroed.
EventHandle ==
  /\ cb = "handle"
  /\ cb' = "post"
  /\ IF exitEventLoop \/ slot = None THEN UNCHANGED <<slot, delivered, java>>
     ELSE /\ discoverUnprovisionedCallback(slot)
          /\ delivered' = Append(delivered, slot)
          /\ slot' = None
  /\ UNCHANGED <<stage, prod, sems, asleep, exitEventLoop, quit, sent, shown, seen, devices>>

\* Mutant of EventPost: the slot is not handed back.
EventPost_missing ==
  /\ cb = "post"
  /\ cb' = "test"
  /\ UNCHANGED <<stage, prod, sems, asleep, slot, exitEventLoop, quit, history, devices, java>>

EventPost ==
  /\ cb = "post"
  /\ eventEmpty' = eventEmpty + 1
  /\ cb' = "test"
  /\ UNCHANGED <<stage, prod, eventFull, asleep, slot, exitEventLoop, quit, history, devices, java>>

\* while (!exitEventLoop), read without the lock.
EventTest ==
  /\ cb = "test"
  /\ cb' = IF exitEventLoop THEN "done" ELSE "wait"
  /\ UNCHANGED <<stage, prod, sems, asleep, slot, exitEventLoop, quit, history, devices, java>>
-----------------------------------------------------------------------------
(* The handlers of the main loop, and cmd_start_prov in the Swing thread. *)

\* The bound on events: no handler starts that could exceed it.
Room == Len(sent) + Len(prod["main"].todo) + Len(prod["gui"].todo) + 2 <= MaxEvents

Listed(d) == \E i \in DOMAIN mesh_devices : mesh_devices[i].dev = d
Hidden(d) == \E i \in DOMAIN mesh_devices : mesh_devices[i] = [dev |-> d, hide |-> TRUE]

\* The adapter's property Discovering changes: a session begins or ends.
Discovering ==
  /\ Looping
  /\ ~discovering => scans < MaxScans
  /\ discovering' = ~discovering
  /\ scans' = IF discovering THEN scans ELSE scans + 1
  /\ shown' = [d \in Dev |-> 0]
  /\ seen' = {}
  /\ UNCHANGED <<bridge, sent, delivered, mesh_devices, held, java>>

\* print_prov_service is called.
Shows(d) == discovering /\ ~Hidden(d)

\* A device is heard.  First part: its UUID is sent.
update_device_info(d) ==
  /\ Looping /\ Room
  /\ held' = [dev |-> d, listed |-> Listed(d)]
  /\ prod' = [prod EXCEPT !["main"] =
                Sending(IF Shows(d) THEN <<Event("UUID", d)>> ELSE <<>>)]
  /\ shown' = IF Shows(d) THEN [shown EXCEPT ![d] = @ + 1] ELSE shown
  /\ seen' = IF discovering THEN seen \cup {d} ELSE seen
  /\ UNCHANGED <<stage, cb, sems, asleep, slot, exitEventLoop, quit, sent, delivered,
                 discovering, scans, mesh_devices, java>>

\* Second part: the entry is updated, or made and the name sent.
update_device_info_entry ==
  LET d == held.dev
  IN /\ held # None /\ prod["main"] = Idle
     /\ held' = None
     /\ IF held.listed
        THEN /\ mesh_devices' = [i \in DOMAIN mesh_devices |->
                                   IF mesh_devices[i].dev = d
                                   THEN [dev |-> d, hide |-> discovering]
                                   ELSE mesh_devices[i]]
             /\ UNCHANGED prod
        ELSE /\ mesh_devices' = Append(mesh_devices, [dev |-> d, hide |-> discovering])
             /\ prod' = [prod EXCEPT !["main"] = Sending(<<Event("NAME", d)>>)]
     /\ UNCHANGED <<stage, cb, sems, asleep, slot, exitEventLoop, quit, history,
                    discovering, scans, java>>

\* find_device_by_proxy compares an entry's proxy with itself: it is the first
\* entry that goes, whichever device was removed.
device_removed(d) ==
  /\ Looping /\ Room
  /\ mesh_devices' = IF mesh_devices = <<>> THEN <<>> ELSE Tail(mesh_devices)
  /\ prod' = [prod EXCEPT !["main"] = Sending(<<Event("NAME", d)>>)]
  /\ UNCHANGED <<stage, cb, sems, asleep, slot, exitEventLoop, quit, history,
                 discovering, scans, held, java>>

\* The user picks a device of the window's list.  Its entry must still be
\* there; the list of devices is dropped and the device's name sent.
cmd_start_prov(d) ==
  /\ stage = "running" /\ ~quit /\ prod["gui"] = Idle /\ Room
  /\ \E i \in DOMAIN unprovisioned : unprovisioned[i].uuid = d
  /\ Listed(d)
  /\ (held # None /\ held.listed) => "devrace" \in Env
  /\ mesh_devices' = <<>>
  /\ prod' = [prod EXCEPT !["gui"] = Sending(<<Event("NAME", d)>>)]
  /\ UNCHANGED <<stage, cb, sems, asleep, slot, exitEventLoop, quit, history,
                 discovering, scans, held, java>>
-----------------------------------------------------------------------------
Init ==
  /\ stage = "start" /\ cb = "new"
  /\ prod = [t \in Producers |-> Idle]
  /\ eventEmpty = 0 /\ eventFull = 0        \* static storage
  /\ asleep = FALSE
  /\ slot = None
  /\ exitEventLoop = FALSE /\ quit = FALSE
  /\ sent = <<>> /\ delivered = <<>>
  /\ discovering = FALSE /\ scans = 0
  /\ mesh_devices = <<>> /\ held = None
  /\ deviceNameCallback = None /\ unprovisioned = <<>>
  /\ shown = [d \in Dev |-> 0] /\ seen = {}

sendEventToJava(t) == SendWait(t) \/ SendFill(t) \/ SendPost(t)

eventCallback == EventStart \/ EventWait \/ EventHandle \/ EventPost \/ EventTest

mesh_init_end == FreeBuffer \/ CloseWait \/ CloseFlag \/ ClosePost

Next ==
  \/ SemInit \/ endMainloop \/ mesh_init_end
  \/ \E t \in Producers : sendEventToJava(t)
  \/ eventCallback
  \/ Discovering \/ update_device_info_entry
  \/ \E d \in Dev : update_device_info(d) \/ device_removed(d) \/ cmd_start_prov(d)

Spec == Init /\ [][Next]_vars

\* Each thread runs on; nobody has to start a handler or close the window.
FairSpec ==
  /\ Spec
  /\ WF_vars(SemInit) /\ WF_vars(mesh_init_end)
  /\ WF_vars(update_device_info_entry)
  /\ \A t \in Producers : WF_vars(sendEventToJava(t))
  /\ WF_vars(eventCallback)
-----------------------------------------------------------------------------
(* With two threads writing the slot and one emptying it, nothing is lost,   *)
(* repeated or reordered: what was called back, then what is in the slot, is *)
(* what was put in.                                                          *)
NothingLost ==
  sent = (IF slot = None THEN delivered ELSE Append(delivered, slot))

(* The Swing thread never hangs in sendEventToJava: an event it sends is     *)
(* taken.                                                                    *)
GuiReturns == prod["gui"].pc # "idle" ~> prod["gui"].pc = "idle"

(* Closing the window ends the main loop thread and the callback thread.     *)
Ends == quit ~> (stage = "ended" /\ cb = "done")

(* "Created Device with name ... and uuid ...": an entry of the window's     *)
(* list has the name and the UUID of one device.                             *)
NamesMatch ==
  \A i \in DOMAIN unprovisioned : unprovisioned[i].name = unprovisioned[i].uuid

(* "Display provisioning service once per discovery session": a device heard *)
(* in a session is shown in it exactly once.                                 *)
ShownOncePerSession == \A d \in seen : shown[d] = 1
=============================================================================
