----------------------------- MODULE IoDispatch -----------------------------
(***************************************************************************)
(* The I/O handler tables of DeviceManager and the dispatch fast path      *)
(* (device_manager.cc 135-174, 261-363).                                   *)
(*                                                                         *)
(* pio_handlers_ and mmio_handlers_ are io_handlers["PIO"] and             *)
(* io_handlers["MMIO"].  Devices add and remove handlers for the           *)
(* resources they claim (RegisterIoHandler / UnregisterIoHandler, from     *)
(* Connect, Disconnect or a BAR change, on any thread).  A vCPU worker     *)
(* that traps calls HandleIo or HandleMmio: under mutex_ it scans the      *)
(* table, moves a hit found at index 3 or later to the front, and unlocks; *)
(* then, unlocked, it calls the device's Read or Write count times (once   *)
(* for MMIO), or on a miss fills a PIO buffer with 0xFF.                   *)
(*                                                                         *)
(* buffer[v] is the data area of vCPU v's access, one element per string   *)
(* I/O iteration: "stale" (what the area held before), "guest" (what the   *)
(* guest wrote), "dev" (filled by a device Read) or "ones" (0xFF bytes).   *)
(***************************************************************************)
EXTENDS Integers, Sequences, SequencesExt, FiniteSets

CONSTANTS
  Vcpus,      \* vCPU workers
  Resources,  \* IoResources of all devices
  ResType,    \* ResType[r] \in {"PIO", "MMIO"}
  Base,       \* Base[r]: resource->base
  Length,     \* Length[r]: resource->length
  Owner,      \* Owner[r]: the device whose io_resources() holds r
  Addrs,      \* ports and MMIO addresses the guest accesses
  MaxCount,   \* largest string-I/O count a PIO exit carries (KVM's io.count
              \* is at least 1; the ioeventfd callback passes 1)
  Idle, Unhandled  \* model values: call[v].resource when v is in no access / missed

Kinds == {"PIO", "MMIO"}

ASSUME \A r \in Resources : ResType[r] \in Kinds
ASSUME \A r \in Resources : Length[r] > 0

VARIABLES
  io_handlers, \* io_handlers[k]: the deque of [resource, device] for kind k
  enabled,     \* resources whose device has registered them (resource->enabled)
  pc,          \* pc[v] \in {"idle", "device", "unhandled"}
  call,        \* call[v]: the access v is handling
  buffer       \* buffer[v]: the access's data area, one element per iteration

vars == <<io_handlers, enabled, pc, call, buffer>>

-----------------------------------------------------------------------------
Covers(r, kind, a) ==
  /\ ResType[r] = kind
  /\ a >= Base[r]
  /\ a < Base[r] + Length[r]

(* The lookup loop: index of the first handler covering a, 0 if none. *)
Lookup(kind, a) == SelectInSeq(io_handlers[kind], LAMBDA h : Covers(h.resource, kind, a))

(* Mutant of MoveToFront: the copy pushed to the front and the original  *)
(* left in place.                                                        *)
MoveToFrontNoErase(s, i) ==
  IF i - 1 >= 3 THEN <<s[i]>> \o s ELSE s

(* "if (it_count >= 3) push_front, then erase" with a 1-based index i. *)
MoveToFront(s, i) ==
  IF i - 1 >= 3 THEN <<s[i]>> \o RemoveAt(s, i) ELSE s

NoCall == [kind |-> "PIO", addr |-> 0, write |-> FALSE, resource |-> Idle,
           count |-> 0, left |-> 0]

Init ==
  /\ io_handlers = [k \in Kinds |-> <<>>]
  /\ enabled = {}
  /\ pc = [v \in Vcpus |-> "idle"]
  /\ call = [v \in Vcpus |-> NoCall]
  /\ buffer = [v \in Vcpus |-> <<>>]

(* RegisterIoHandler(device, resource): append under mutex_.  A device   *)
(* registers a resource it has not registered.                           *)
RegisterIoHandler(d, r) ==
  /\ r \notin enabled
  /\ io_handlers' = [io_handlers EXCEPT ![ResType[r]] =
                       Append(@, [resource |-> r, device |-> d])]
  /\ enabled' = enabled \cup {r}
  /\ UNCHANGED <<pc, call, buffer>>

(* UnregisterIoHandler(device, resource): erase the first handler of the *)
(* same device whose resource has the same base.                         *)
UnregisterIoHandler(d, r) ==
  LET s == io_handlers[ResType[r]]
      i == SelectInSeq(s, LAMBDA h : h.device = d /\ Base[h.resource] = Base[r])
  IN  /\ r \in enabled
      /\ io_handlers' = [io_handlers EXCEPT ![ResType[r]] =
                           IF i = 0 THEN s ELSE RemoveAt(s, i)]
      /\ enabled' = enabled \ {r}
      /\ UNCHANGED <<pc, call, buffer>>

(* A trap enters HandleIo (kind "PIO", count iterations) or HandleMmio    *)
(* (kind "MMIO", one): the scan under mutex_ finds a handler, promotes it *)
(* and unlocks.                                                           *)
HandleHit(v, kind, a, write, count) ==
  LET i == Lookup(kind, a)
  IN  /\ pc[v] = "idle"
      /\ i # 0
      /\ io_handlers' = [io_handlers EXCEPT ![kind] = MoveToFront(@, i)]
      /\ pc' = [pc EXCEPT ![v] = "device"]
      /\ call' = [call EXCEPT ![v] =
                   [kind |-> kind, addr |-> a, write |-> write,
                    resource |-> io_handlers[kind][i].resource,
                    count |-> count, left |-> count]]
      /\ buffer' = [buffer EXCEPT ![v] =
                     [k \in 1..count |-> IF write THEN "guest" ELSE "stale"]]
      /\ UNCHANGED enabled

(* The scan finds no handler and unlocks. *)
HandleMiss(v, kind, a, write, count) ==
  /\ pc[v] = "idle"
  /\ Lookup(kind, a) = 0
  /\ pc' = [pc EXCEPT ![v] = "unhandled"]
  /\ call' = [call EXCEPT ![v] =
               [kind |-> kind, addr |-> a, write |-> write, resource |-> Unhandled,
                count |-> count, left |-> 0]]
  /\ buffer' = [buffer EXCEPT ![v] =
                 [k \in 1..count |-> IF write THEN "guest" ELSE "stale"]]
  /\ UNCHANGED <<io_handlers, enabled>>

(* Mutant: the loop runs with "i <= count", one iteration too many. *)
DeviceAccessOneMore(v) ==
  LET k == call[v].count - call[v].left + 1
  IN  /\ pc[v] = "device"
      /\ call[v].left >= 0
      /\ call' = [call EXCEPT ![v].left = @ - 1]
      /\ buffer' = [buffer EXCEPT ![v] =
                     IF call[v].write \/ k > Len(@) THEN @ ELSE [@ EXCEPT ![k] = "dev"]]
      /\ UNCHANGED <<io_handlers, enabled, pc>>

(* One iteration of the unlocked loop: device->Read or device->Write at   *)
(* ptr, then ptr += size.                                                 *)
DeviceAccess(v) ==
  LET k == call[v].count - call[v].left + 1
  IN  /\ pc[v] = "device"
      /\ call[v].left > 0
      /\ call' = [call EXCEPT ![v].left = @ - 1]
      /\ buffer' = [buffer EXCEPT ![v] =
                     IF call[v].write THEN @ ELSE [@ EXCEPT ![k] = "dev"]]
      /\ UNCHANGED <<io_handlers, enabled, pc>>

(* The loop is done; the slow-access log is skipped; return to the vCPU. *)
HandleReturn(v) ==
  /\ pc[v] = "device"
  /\ call[v].left = 0
  /\ pc' = [pc EXCEPT ![v] = "idle"]
  /\ UNCHANGED <<io_handlers, enabled, call, buffer>>

(* HandleIo miss: memset(data, 0xFF, size), one element of the area. *)
UnhandledIo(v) ==
  /\ pc[v] = "unhandled"
  /\ call[v].kind = "PIO"
  /\ pc' = [pc EXCEPT ![v] = "idle"]
  /\ buffer' = [buffer EXCEPT ![v][1] = "ones"]
  /\ UNCHANGED <<io_handlers, enabled, call>>

(* HandleMmio miss: the access is dropped. *)
UnhandledMmio(v) ==
  /\ pc[v] = "unhandled"
  /\ call[v].kind = "MMIO"
  /\ pc' = [pc EXCEPT ![v] = "idle"]
  /\ UNCHANGED <<io_handlers, enabled, call, buffer>>

Next ==
  \/ \E r \in Resources :
       \/ RegisterIoHandler(Owner[r], r)
       \/ UnregisterIoHandler(Owner[r], r)
  \/ \E v \in Vcpus, a \in Addrs, write \in BOOLEAN :
       \/ \E count \in 1..MaxCount :
            HandleHit(v, "PIO", a, write, count) \/ HandleMiss(v, "PIO", a, write, count)
       \/ HandleHit(v, "MMIO", a, write, 1) \/ HandleMiss(v, "MMIO", a, write, 1)
  \/ \E v \in Vcpus :
       \/ DeviceAccess(v)
       \/ HandleReturn(v)
       \/ UnhandledIo(v)
       \/ UnhandledMmio(v)

Spec == Init /\ [][Next]_vars

-----------------------------------------------------------------------------
TypeOK ==
  /\ io_handlers \in [Kinds -> Seq([resource : Resources, device : Range(Owner)])]
  /\ enabled \subseteq Resources
  /\ pc \in [Vcpus -> {"idle", "device", "unhandled"}]
  /\ \A v \in Vcpus : call[v].left \in 0..call[v].count
  /\ buffer \in [Vcpus -> Seq({"stale", "guest", "dev", "ones"})]

(* Every handler in a table belongs to a resource its owning device has   *)
(* registered and not unregistered, in the table of that resource's kind, *)
(* and no (device, resource) is in a table twice -- whatever the order of *)
(* registrations, unregistrations and move-to-front promotions by several *)
(* vCPUs (the spec's invariant 1 and the IoHandler uniqueness rule).      *)
HandlersMatchRegistered ==
  \A k \in Kinds :
    LET s == io_handlers[k]
    IN  /\ \A i, j \in DOMAIN s : i # j => s[i] # s[j]
        /\ {h.resource : h \in ToSet(s)} = {r \in enabled : ResType[r] = k}
        /\ \A h \in ToSet(s) : h.device = Owner[h.resource]

(* A PIO read that no handler claims returns all-ones in every byte the   *)
(* guest asked for (spec 4.2 and 7: "reads return all-ones"), including   *)
(* every iteration of a string read (INS with count > 1).                 *)
UnhandledPioReadAllOnes ==
  \A v \in Vcpus :
    (pc[v] = "idle" /\ call[v].kind = "PIO" /\ ~call[v].write
       /\ call[v].resource = Unhandled)
      => \A k \in DOMAIN buffer[v] : buffer[v][k] = "ones"

(* A device's Read or Write for a resource runs only while that resource  *)
(* is registered: once UnregisterIoHandler has returned, no vCPU is still *)
(* inside the device for it.                                              *)
NoAccessAfterUnregister ==
  \A v \in Vcpus :
    (pc[v] = "device" /\ call[v].left > 0) => call[v].resource \in enabled

=============================================================================
