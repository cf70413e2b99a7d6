------------------------------- MODULE IoEvent -------------------------------
(***************************************************************************)
(* The ioeventfd fast path of DeviceManager (device_manager.cc 176-259).  *)
(*                                                                         *)
(* A device thread registers an IoEvent: it creates an eventfd and binds   *)
(* it to an address in KVM (one unlocked stretch, 176-202), asks the I/O   *)
(* thread to poll the fd (204-212), and inserts the event into ioevents_   *)
(* under mutex_ (214-216).  It later unregisters it by pointer (223-244):  *)
(* StopPolling, then under mutex_ deassign, erase and delete; or by key    *)
(* (246-259): find the event under mutex_, unlock, and unregister it.      *)
(*                                                                         *)
(* The guest's writes at a bound address are absorbed by KVM and add to    *)
(* the eventfd counter; the I/O thread's callback reads the counter (which *)
(* drains it) and dispatches one HandleMmio / HandleIo for the datamatch.  *)
(*                                                                         *)
(* The IoEvent objects a run may create are the model values Events; the  *)
(* (device, type, address) each is created for is Key[e].  absorbed,       *)
(* covered and handled are history counters: guest writes absorbed for e,  *)
(* those accounted for by the last drain, and those a finished dispatch    *)
(* accounted for.                                                          *)
(***************************************************************************)
EXTENDS Naturals, FiniteSets

CONSTANTS
  Threads,    \* device threads (vCPUs) that register and unregister events
  Events,     \* IoEvent objects a run may allocate with new
  Key,        \* Key[e]: the (device, type, address) e is registered for
  MaxWrites,  \* guest writes in a run
  NoEvent     \* a model value: no event

ASSUME NoEvent \notin Events

Keys == {Key[e] : e \in Events}

VARIABLES
  allocated,  \* events created by new (and their eventfd)
  deleted,    \* events freed by delete
  fdopen,     \* events whose eventfd is open
  kbound,     \* events whose fd KVM has bound with KVM_IOEVENTFD
  polled,     \* events whose fd the I/O thread polls
  ioevents,   \* ioevents_
  held,       \* events whose pointer a device keeps for UnregisterIoEvent(event)
  count,      \* count[e]: the eventfd counter
  pc, ev,     \* device thread program counter and the event it works on
  io_pc, io_ev, \* I/O thread: "poll", or "dispatch" inside e's callback
  writes, absorbed, covered, handled

vars == <<allocated, deleted, fdopen, kbound, polled, ioevents, held, count,
          pc, ev, io_pc, io_ev, writes, absorbed, covered, handled>>

-----------------------------------------------------------------------------
Live == allocated \ deleted

Goto(t, from, to) ==
  /\ pc[t] = from
  /\ pc' = [pc EXCEPT ![t] = to]

Init ==
  /\ allocated = {} /\ deleted = {} /\ fdopen = {}
  /\ kbound = {} /\ polled = {} /\ ioevents = {} /\ held = {}
  /\ count = [e \in Events |-> 0]
  /\ pc = [t \in Threads |-> "idle"]
  /\ ev = [t \in Threads |-> NoEvent]
  /\ io_pc = "poll" /\ io_ev = NoEvent
  /\ writes = 0
  /\ absorbed = [e \in Events |-> 0]
  /\ covered = [e \in Events |-> 0]
  /\ handled = [e \in Events |-> 0]

(* RegisterIoEvent up to the KVM_IOEVENTFD assign: new IoEvent, eventfd,  *)
(* ioctl.  A device registers a key it has no live event for (KVM would   *)
(* refuse a second identical binding and the code panics).                *)
RegisterIoEvent(t, e) ==
  /\ e \notin allocated
  /\ \A x \in Live : Key[x] # Key[e]
  /\ Goto(t, "idle", "reg_poll")
  /\ ev' = [ev EXCEPT ![t] = e]
  /\ allocated' = allocated \cup {e}
  /\ fdopen' = fdopen \cup {e}
  /\ kbound' = kbound \cup {e}
  /\ UNCHANGED <<deleted, polled, ioevents, held, count, io_pc, io_ev,
                 writes, absorbed, covered, handled>>

(* Mutant: the StartPolling call left out. *)
StartPollingSkipped(t) ==
  /\ Goto(t, "reg_poll", "reg_insert")
  /\ UNCHANGED <<allocated, deleted, fdopen, kbound, polled, ioevents, held,
                 count, ev, io_pc, io_ev, writes, absorbed, covered, handled>>

(* io()->StartPolling(event->fd, EPOLLIN, callback). *)
StartPolling(t) ==
  /\ Goto(t, "reg_poll", "reg_insert")
  /\ polled' = polled \cup {ev[t]}
  /\ UNCHANGED <<allocated, deleted, fdopen, kbound, ioevents, held, count,
                 ev, io_pc, io_ev, writes, absorbed, covered, handled>>

(* Under mutex_: ioevents_.insert(event); the pointer is returned. *)
RegisterInsert(t) ==
  /\ Goto(t, "reg_insert", "idle")
  /\ ioevents' = ioevents \cup {ev[t]}
  /\ held' = held \cup {ev[t]}
  /\ ev' = [ev EXCEPT ![t] = NoEvent]
  /\ UNCHANGED <<allocated, deleted, fdopen, kbound, polled, count, io_pc,
                 io_ev, writes, absorbed, covered, handled>>

(* A device calls UnregisterIoEvent(event) with a pointer it holds. *)
UnregisterIoEvent(t, e) ==
  /\ e \in held
  /\ Goto(t, "idle", "unreg_stop")
  /\ ev' = [ev EXCEPT ![t] = e]
  /\ held' = held \ {e}
  /\ UNCHANGED <<allocated, deleted, fdopen, kbound, polled, ioevents, count,
                 io_pc, io_ev, writes, absorbed, covered, handled>>

(* UnregisterIoEvent(device, type, address): find_if over ioevents_ under  *)
(* mutex_, then unlock.  On a miss it returns; on a hit it goes on with    *)
(* the pointer it found, outside the lock.                                 *)
UnregisterIoEventByKey(t, k) ==
  LET found == {x \in ioevents : Key[x] = k}
  IN  /\ pc[t] = "idle"
      /\ \/ /\ found = {}
            /\ UNCHANGED vars
         \/ \E e \in found :
              /\ pc' = [pc EXCEPT ![t] = "unreg_stop"]
              /\ ev' = [ev EXCEPT ![t] = e]
              /\ held' = held \ {e}
              /\ UNCHANGED <<allocated, deleted, fdopen, kbound, polled,
                             ioevents, count, io_pc, io_ev, writes, absorbed,
                             covered, handled>>

(* Mutant: StopPolling returns while the callback for the fd still runs. *)
UnregStopNoDrain(t) ==
  /\ Goto(t, "unreg_stop", "unreg_lock")
  /\ polled' = polled \ {ev[t]}
  /\ UNCHANGED <<allocated, deleted, fdopen, kbound, ioevents, held, count,
                 ev, io_pc, io_ev, writes, absorbed, covered, handled>>

(* io()->StopPolling(event->fd), first and without mutex_.  The I/O thread *)
(* contract assumed here: StopPolling returns only once no callback for    *)
(* the fd is running.                                                      *)
UnregStop(t) ==
  /\ ~(io_pc = "dispatch" /\ io_ev = ev[t])
  /\ UnregStopNoDrain(t)

(* Mutant: ioevents_.erase left out; the set keeps a freed pointer. *)
UnregDeleteNoErase(t) ==
  /\ Goto(t, "unreg_lock", "idle")
  /\ kbound' = kbound \ {ev[t]}
  /\ deleted' = deleted \cup {ev[t]}
  /\ ev' = [ev EXCEPT ![t] = NoEvent]
  /\ UNCHANGED <<allocated, fdopen, polled, ioevents, held, count, io_pc,
                 io_ev, writes, absorbed, covered, handled>>

(* Under mutex_: KVM_IOEVENTFD deassign, ioevents_.erase, delete event.   *)
(* The fd is not closed.                                                   *)
UnregDelete(t) ==
  /\ Goto(t, "unreg_lock", "idle")
  /\ kbound' = kbound \ {ev[t]}
  /\ ioevents' = ioevents \ {ev[t]}
  /\ deleted' = deleted \cup {ev[t]}
  /\ ev' = [ev EXCEPT ![t] = NoEvent]
  /\ UNCHANGED <<allocated, fdopen, polled, held, count, io_pc, io_ev,
                 writes, absorbed, covered, handled>>

(* A guest write at key k: absorbed by KVM and signalled on the bound     *)
(* event's fd, or, with no binding, an ordinary exit (not tracked here).  *)
GuestWrite(k) ==
  LET b == {x \in kbound : Key[x] = k}
  IN  /\ writes < MaxWrites
      /\ writes' = writes + 1
      /\ \/ /\ b = {}
            /\ UNCHANGED <<count, absorbed>>
         \/ \E e \in b :
              /\ count' = [count EXCEPT ![e] = @ + 1]
              /\ absorbed' = [absorbed EXCEPT ![e] = @ + 1]
      /\ UNCHANGED <<allocated, deleted, fdopen, kbound, polled, ioevents,
                     held, pc, ev, io_pc, io_ev, covered, handled>>

(* The callback starts on a readable fd: read(event->fd) drains the counter. *)
IoWake(e) ==
  /\ io_pc = "poll"
  /\ e \in polled
  /\ count[e] > 0
  /\ io_pc' = "dispatch"
  /\ io_ev' = e
  /\ count' = [count EXCEPT ![e] = 0]
  /\ covered' = [covered EXCEPT ![e] = absorbed[e]]
  /\ UNCHANGED <<allocated, deleted, fdopen, kbound, polled, ioevents, held,
                 pc, ev, writes, absorbed, handled>>

(* The callback reads event->type, address and datamatch and calls        *)
(* HandleMmio or HandleIo; then the I/O thread polls again.               *)
CallbackDispatch ==
  /\ io_pc = "dispatch"
  /\ io_pc' = "poll"
  /\ io_ev' = NoEvent
  /\ handled' = [handled EXCEPT ![io_ev] = covered[io_ev]]
  /\ UNCHANGED <<allocated, deleted, fdopen, kbound, polled, ioevents, held,
                 count, pc, ev, writes, absorbed, covered>>

ThreadStep(t) ==
  StartPolling(t) \/ RegisterInsert(t) \/ UnregStop(t) \/ UnregDelete(t)

IoThreadStep == (\E e \in Events : IoWake(e)) \/ CallbackDispatch

Next ==
  \/ \E t \in Threads :
       \/ \E e \in Events : RegisterIoEvent(t, e) \/ UnregisterIoEvent(t, e)
       \/ \E k \in Keys : UnregisterIoEventByKey(t, k)
       \/ ThreadStep(t)
  \/ \E k \in Keys : GuestWrite(k)
  \/ IoThreadStep

(* Threads run their code to its end, and the I/O thread's epoll loop     *)
(* serves every readable fd; the guest and the devices need not act.      *)
Fairness ==
  /\ \A t \in Threads : WF_vars(ThreadStep(t))
  /\ WF_vars(IoThreadStep)

Spec == Init /\ [][Next]_vars /\ Fairness

-----------------------------------------------------------------------------
TypeOK ==
  /\ deleted \subseteq allocated /\ fdopen \subseteq allocated
  /\ kbound \cup polled \cup held \subseteq allocated
  /\ ioevents \subseteq Live
  /\ count \in [Events -> 0..MaxWrites]
  /\ pc \in [Threads -> {"idle", "reg_poll", "reg_insert", "unreg_stop", "unreg_lock"}]
  /\ io_pc \in {"poll", "dispatch"}
  /\ writes \in 0..MaxWrites

(* No thread dereferences a deleted IoEvent: neither an unregistering     *)
(* thread about to read event->fd or deassign and delete it, nor the I/O  *)
(* thread inside the event's callback.                                    *)
NoUseAfterFree ==
  /\ \A t \in Threads : pc[t] \in {"unreg_stop", "unreg_lock"} => ev[t] \notin deleted
  /\ io_pc = "dispatch" => io_ev \notin deleted

(* Every guest write KVM absorbed into an eventfd is eventually handed to *)
(* the device by a callback dispatch that drained it, unless the event is *)
(* torn down first: the level-triggered poll and the read-then-dispatch   *)
(* order lose no write that lands during a callback.                      *)
AbsorbedWritesHandled ==
  \A e \in Events, n \in 1..MaxWrites :
    (absorbed[e] >= n) ~> (handled[e] >= n \/ e \in deleted)

(* UnregisterIoEvent closes the event's fd (spec 4.4, and the round-trip  *)
(* law "RegisterIoEvent then UnregisterIoEvent closes the fd"): no fd of  *)
(* a deleted event stays open.                                            *)
EventFdsClosed == \A e \in deleted : e \notin fdopen

=============================================================================
