----------------------------- MODULE GsiRouting -----------------------------
(***************************************************************************)
(* The GSI routing mirror of DeviceManager (device_manager.cc 397-513).    *)
(*                                                                         *)
(* KVM cannot report its routing table, so the manager keeps a copy,       *)
(* gsi_routing_table_, and pushes the whole copy with KVM_SET_GSI_ROUTING  *)
(* after every change.  AddMsiRoute and UpdateMsiRoute are called by       *)
(* device code on the thread that trapped (a vCPU worker), so several of   *)
(* them may run at once.  Each critical section under mutex_ is one step;  *)
(* the code between them, which runs unlocked, is split where it reads or  *)
(* writes shared state:                                                    *)
(*   AddMsiRoute:  read next_gsi_ | write next_gsi_ | lock, push_back |    *)
(*                 UpdateGsiRoutingTable | KVM_IRQFD                        *)
(*   UpdateMsiRoute: lock, find, erase or modify, KVM_IRQFD | Update...     *)
(*   UpdateGsiRoutingTable: size the stack buffer from size() | lock, copy  *)
(*                 size() entries | KVM_SET_GSI_ROUTING                     *)
(* The state reached by the constructor's SetupGsiRoutingTable, which runs *)
(* before any vCPU, is the initial state.                                  *)
(***************************************************************************)
EXTENDS Integers, Sequences, SequencesExt, FiniteSets, TLC

CONSTANTS
  Threads,    \* threads whose devices call AddMsiRoute / UpdateMsiRoute
  MsiAddrs,   \* non-zero MSI addresses devices program
  MsiData,    \* MSI data values devices program
  TriggerFd,  \* TriggerFd[t]: the eventfd thread t's device passes
  NoFd,       \* trigger_fd == -1
  MaxGsi      \* AddMsiRoute is not called once next_gsi_ reaches MaxGsi

ASSUME 0 \notin MsiAddrs /\ MaxGsi >= 24
ASSUME TriggerFd \in [Threads -> Int] /\ NoFd \notin Range(TriggerFd)

VARIABLES
  gsi_routing_table, \* gsi_routing_table_, the in-process mirror
  next_gsi,          \* next_gsi_
  kernel_routes,     \* the table KVM accepted last with KVM_SET_GSI_ROUTING
  kernel_irqfds,     \* <<fd, gsi>> pairs bound with KVM_IRQFD
  pc,                \* pc[t]: where thread t is in its call
  op,                \* op[t]: "add" or "update", the call UpdateGsiRoutingTable returns to
  arg,               \* arg[t]: gsi, address, data and trigger_fd of the call
  loaded,            \* loaded[t]: next_gsi_ as read by "next_gsi_++"
  buf_size,          \* buf_size[t]: entries the stack buffer was sized for
  snapshot,          \* snapshot[t]: the entries copied into that buffer
  owned              \* owned[t]: <<gsi, fd>> routes thread t's device holds

vars == <<gsi_routing_table, next_gsi, kernel_routes, kernel_irqfds,
          pc, op, arg, loaded, buf_size, snapshot, owned>>

-----------------------------------------------------------------------------
(* kvm_irq_routing_entry: u is <<irqchip, pin>> or <<address, data>>.      *)
IrqchipEntry(g, chip, pin) == [gsi |-> g, type |-> "IRQCHIP", u |-> <<chip, pin>>]
MsiEntry(g, a, d) == [gsi |-> g, type |-> "MSI", u |-> <<a, d>>]

(* <<0, 1, ..., n - 1>>, the values of a C loop counter. *)
Iota(n) == [k \in 1..n |-> k - 1]

(* Mutant: the master PIC loop without its "i != 2" test. *)
MasterPicAll == [k \in DOMAIN Iota(8) |-> IrqchipEntry(Iota(8)[k], 0, Iota(8)[k])]

MasterPic ==
  LET is == SelectSeq(Iota(8), LAMBDA i : i # 2)
  IN  [k \in DOMAIN is |-> IrqchipEntry(is[k], 0, is[k])]

SlavePic == [k \in DOMAIN Iota(8) |-> IrqchipEntry(8 + Iota(8)[k], 1, Iota(8)[k])]

IoapicPin(i) == IF i = 0 THEN 2 ELSE i

Ioapic ==
  LET is == SelectSeq(Iota(24), LAMBDA i : i # 2)
  IN  [k \in DOMAIN is |-> IrqchipEntry(is[k], 2, IoapicPin(is[k]))]

SetupGsiRoutingTable == MasterPic \o SlavePic \o Ioapic

(* The trigger_fd != -1 test around each KVM_IRQFD call. *)
Irqfd(fd, g) == IF fd = NoFd THEN {} ELSE {<<fd, g>>}

(* KVM_IRQFD assign returns -EBUSY when the eventfd is already bound to  *)
(* any GSI; the code answers with MV_PANIC, which aborts the process.    *)
IrqfdAssignFails(fd) == fd # NoFd /\ \E p \in kernel_irqfds : p[1] = fd

(* A thread has hit an MV_PANIC: the process is gone. *)
Aborted == \E t \in Threads : pc[t] = "panicked"

(* std::find_if on the gsi field: the first entry, 0 if none. *)
FindGsi(g) == SelectInSeq(gsi_routing_table, LAMBDA e : e.gsi = g)

Call(t, from, to) ==
  /\ pc[t] = from
  /\ pc' = [pc EXCEPT ![t] = to]

NoArg == [gsi |-> 0, addr |-> 0, data |-> 0, fd |-> NoFd]

(***************************************************************************)
(* Mutants: forms of the actions below that a plausible slip in the C++    *)
(* would produce.  Each is used in place of the named action to show the   *)
(* property it breaks is sensitive to that code.                           *)
(***************************************************************************)
(* next_gsi_ written back without the increment. *)
AddStoreNoIncrement(t) ==
  /\ Call(t, "add_store", "add_append")
  /\ next_gsi' = loaded[t]
  /\ arg' = [arg EXCEPT ![t].gsi = loaded[t]]
  /\ UNCHANGED <<gsi_routing_table, kernel_routes, kernel_irqfds, op, loaded,
                 buf_size, snapshot, owned>>

(* The address == 0 branch rewrites the entry instead of erasing it, and *)
(* the irqfd is left bound.                                              *)
UpdateMsiRouteRemoveInPlace(t, r) ==
  LET g == r[1]  fd == r[2]  i == FindGsi(g)
  IN  /\ i # 0
      /\ Call(t, "idle", "upd_size")
      /\ gsi_routing_table' = [gsi_routing_table EXCEPT ![i].u = <<0, 0>>]
      /\ op' = [op EXCEPT ![t] = "update"]
      /\ arg' = [arg EXCEPT ![t] = [gsi |-> g, addr |-> 0, data |-> 0, fd |-> fd]]
      /\ owned' = [owned EXCEPT ![t] = @ \ {r}]
      /\ UNCHANGED <<next_gsi, kernel_routes, kernel_irqfds, loaded, buf_size, snapshot>>

(* The irqfd is not deassigned before the route is erased. *)
UpdateMsiRouteRemoveKeepIrqfd(t, r) ==
  LET g == r[1]  fd == r[2]  i == FindGsi(g)
  IN  /\ i # 0
      /\ Call(t, "idle", "upd_size")
      /\ gsi_routing_table' = RemoveAt(gsi_routing_table, i)
      /\ op' = [op EXCEPT ![t] = "update"]
      /\ arg' = [arg EXCEPT ![t] = [gsi |-> g, addr |-> 0, data |-> 0, fd |-> fd]]
      /\ owned' = [owned EXCEPT ![t] = @ \ {r}]
      /\ UNCHANGED <<next_gsi, kernel_routes, kernel_irqfds, loaded, buf_size, snapshot>>

(* The modify branch returns without calling UpdateGsiRoutingTable. *)
UpdateMsiRouteModifyNoPush(t, r, a, d) ==
  LET g == r[1]  fd == r[2]  i == FindGsi(g)
  IN  /\ i # 0
      /\ Call(t, "idle", "idle")
      /\ gsi_routing_table' = [gsi_routing_table EXCEPT ![i].u = <<a, d>>]
      /\ kernel_irqfds' = kernel_irqfds \cup Irqfd(fd, g)
      /\ UNCHANGED <<next_gsi, kernel_routes, op, arg, loaded, buf_size, snapshot, owned>>

(* The stack buffer sized for one entry fewer than the table holds. *)
UpdSizeOneShort(t) ==
  /\ Call(t, "upd_size", "upd_copy")
  /\ buf_size' = [buf_size EXCEPT ![t] = Len(gsi_routing_table) - 1]
  /\ UNCHANGED <<gsi_routing_table, next_gsi, kernel_routes, kernel_irqfds,
                 op, arg, loaded, snapshot, owned>>

-----------------------------------------------------------------------------
Init ==
  /\ gsi_routing_table = SetupGsiRoutingTable
  /\ next_gsi = 24
  /\ kernel_routes = SetupGsiRoutingTable
  /\ kernel_irqfds = {}
  /\ pc = [t \in Threads |-> "idle"]
  /\ op = [t \in Threads |-> "add"]
  /\ arg = [t \in Threads |-> NoArg]
  /\ loaded = [t \in Threads |-> 0]
  /\ buf_size = [t \in Threads |-> 0]
  /\ snapshot = [t \in Threads |-> <<>>]
  /\ owned = [t \in Threads |-> {}]

(* AddMsiRoute entry: the load half of the unlocked "next_gsi_++". *)
AddMsiRoute(t, a, d, fd) ==
  /\ next_gsi < MaxGsi
  /\ Call(t, "idle", "add_store")
  /\ op' = [op EXCEPT ![t] = "add"]
  /\ arg' = [arg EXCEPT ![t] = [gsi |-> 0, addr |-> a, data |-> d, fd |-> fd]]
  /\ loaded' = [loaded EXCEPT ![t] = next_gsi]
  /\ UNCHANGED <<gsi_routing_table, next_gsi, kernel_routes, kernel_irqfds,
                 buf_size, snapshot, owned>>

(* The store half of "next_gsi_++": gsi is the value loaded. *)
AddStore(t) ==
  /\ Call(t, "add_store", "add_append")
  /\ next_gsi' = loaded[t] + 1
  /\ arg' = [arg EXCEPT ![t].gsi = loaded[t]]
  /\ UNCHANGED <<gsi_routing_table, kernel_routes, kernel_irqfds, op, loaded,
                 buf_size, snapshot, owned>>

(* Under mutex_: gsi_routing_table_.push_back(entry). *)
AddAppend(t) ==
  /\ Call(t, "add_append", "upd_size")
  /\ gsi_routing_table' =
       Append(gsi_routing_table, MsiEntry(arg[t].gsi, arg[t].addr, arg[t].data))
  /\ UNCHANGED <<next_gsi, kernel_routes, kernel_irqfds, op, arg, loaded,
                 buf_size, snapshot, owned>>

(* After UpdateGsiRoutingTable: bind trigger_fd to gsi, return gsi; or   *)
(* the bind fails and the process aborts.                               *)
AddIrqfd(t) ==
  \/ /\ ~IrqfdAssignFails(arg[t].fd)
     /\ Call(t, "add_irqfd", "idle")
     /\ kernel_irqfds' = kernel_irqfds \cup Irqfd(arg[t].fd, arg[t].gsi)
     /\ owned' = [owned EXCEPT ![t] = @ \cup {<<arg[t].gsi, arg[t].fd>>}]
     /\ UNCHANGED <<gsi_routing_table, next_gsi, kernel_routes, op, arg, loaded,
                    buf_size, snapshot>>
  \/ /\ IrqfdAssignFails(arg[t].fd)
     /\ Call(t, "add_irqfd", "panicked")
     /\ UNCHANGED <<gsi_routing_table, next_gsi, kernel_routes, kernel_irqfds, op,
                    arg, loaded, buf_size, snapshot, owned>>

(* UpdateMsiRoute(gsi, 0, data, fd) under mutex_: deassign the irqfd,    *)
(* erase the entry.  The device passes a gsi it holds, so find_if finds  *)
(* it; the MV_PANIC on a missing gsi is not reached.                     *)
UpdateMsiRouteRemove(t, r) ==
  LET g == r[1]  fd == r[2]  i == FindGsi(g)
  IN  /\ i # 0
      /\ Call(t, "idle", "upd_size")
      /\ kernel_irqfds' = kernel_irqfds \ Irqfd(fd, g)
      /\ gsi_routing_table' = RemoveAt(gsi_routing_table, i)
      /\ op' = [op EXCEPT ![t] = "update"]
      /\ arg' = [arg EXCEPT ![t] = [gsi |-> g, addr |-> 0, data |-> 0, fd |-> fd]]
      /\ owned' = [owned EXCEPT ![t] = @ \ {r}]
      /\ UNCHANGED <<next_gsi, kernel_routes, loaded, buf_size, snapshot>>

(* UpdateMsiRoute(gsi, address != 0, data, fd) under mutex_: rewrite the *)
(* entry's address and data in place and assign the irqfd again.  KVM    *)
(* refuses an eventfd it already has bound, so a device that passes the  *)
(* trigger_fd it bound in AddMsiRoute aborts the process here.            *)
UpdateMsiRouteModify(t, r, a, d) ==
  LET g == r[1]  fd == r[2]  i == FindGsi(g)
  IN  /\ i # 0
      /\ gsi_routing_table' = [gsi_routing_table EXCEPT ![i].u = <<a, d>>]
      /\ \/ /\ ~IrqfdAssignFails(fd)
            /\ Call(t, "idle", "upd_size")
            /\ kernel_irqfds' = kernel_irqfds \cup Irqfd(fd, g)
            /\ op' = [op EXCEPT ![t] = "update"]
            /\ arg' = [arg EXCEPT ![t] = [gsi |-> g, addr |-> a, data |-> d, fd |-> fd]]
         \/ /\ IrqfdAssignFails(fd)
            /\ Call(t, "idle", "panicked")
            /\ UNCHANGED <<kernel_irqfds, op, arg>>
      /\ UNCHANGED <<next_gsi, kernel_routes, loaded, buf_size, snapshot, owned>>

(* UpdateGsiRoutingTable: "uint8_t buffer[... * gsi_routing_table_.size()]" *)
(* is evaluated before mutex_ is taken.                                     *)
UpdSize(t) ==
  /\ Call(t, "upd_size", "upd_copy")
  /\ buf_size' = [buf_size EXCEPT ![t] = Len(gsi_routing_table)]
  /\ UNCHANGED <<gsi_routing_table, next_gsi, kernel_routes, kernel_irqfds,
                 op, arg, loaded, snapshot, owned>>

(* Under mutex_: table->nr = size(); std::copy of every entry. *)
UpdCopy(t) ==
  /\ Call(t, "upd_copy", "upd_push")
  /\ snapshot' = [snapshot EXCEPT ![t] = gsi_routing_table]
  /\ UNCHANGED <<gsi_routing_table, next_gsi, kernel_routes, kernel_irqfds,
                 op, arg, loaded, buf_size, owned>>

(* Unlocked: ioctl(KVM_SET_GSI_ROUTING) replaces KVM's whole table, then  *)
(* the caller continues: AddMsiRoute binds its irqfd, UpdateMsiRoute ends. *)
UpdPush(t) ==
  /\ Call(t, "upd_push", [add |-> "add_irqfd", update |-> "idle"][op[t]])
  /\ kernel_routes' = snapshot[t]
  /\ UNCHANGED <<gsi_routing_table, next_gsi, kernel_irqfds, op, arg, loaded,
                 buf_size, snapshot, owned>>

Next ==
  ~Aborted /\ \E t \in Threads :
    \/ \E a \in MsiAddrs, d \in MsiData, fd \in {NoFd, TriggerFd[t]} :
         AddMsiRoute(t, a, d, fd)
    \/ AddStore(t)
    \/ AddAppend(t)
    \/ AddIrqfd(t)
    \/ \E r \in owned[t] : UpdateMsiRouteRemove(t, r)
    \/ \E r \in owned[t], a \in MsiAddrs, d \in MsiData : UpdateMsiRouteModify(t, r, a, d)
    \/ UpdSize(t)
    \/ UpdCopy(t)
    \/ UpdPush(t)

Spec == Init /\ [][Next]_vars

-----------------------------------------------------------------------------
TypeOK ==
  /\ gsi_routing_table \in Seq([gsi : 0..MaxGsi, type : {"IRQCHIP"}, u : (0..2) \X (0..23)]
                               \cup [gsi : 24..MaxGsi, type : {"MSI"}, u : MsiAddrs \X MsiData])
  /\ next_gsi \in 24..MaxGsi
  /\ kernel_irqfds \subseteq Range(TriggerFd) \X (24..MaxGsi)
  /\ pc \in [Threads -> {"idle", "add_store", "add_append", "add_irqfd",
                         "upd_size", "upd_copy", "upd_push", "panicked"}]
  /\ op \in [Threads -> {"add", "update"}]

(* The legacy routes SetupGsiRoutingTable installs (7 master PIC lines,   *)
(* no GSI 2; 8 slave PIC lines; 23 IOAPIC pins with GSI 0 on pin 2) stay   *)
(* in place, each exactly once, both in the mirror and in KVM, through any *)
(* sequence of AddMsiRoute and UpdateMsiRoute calls: MSI work never        *)
(* erases, rewrites or duplicates an IRQCHIP route.                       *)
RefInitialTable ==
  {IrqchipEntry(g, 0, g) : g \in (0..7) \ {2}}
  \cup {IrqchipEntry(8 + p, 1, p) : p \in 0..7}
  \cup {IrqchipEntry(0, 2, 2)}
  \cup {IrqchipEntry(g, 2, g) : g \in (1..23) \ {2}}

IrqchipPart(s) == SelectSeq(s, LAMBDA e : e.type = "IRQCHIP")

InitialTableCorrect ==
  \A s \in {gsi_routing_table, kernel_routes} :
    /\ Len(IrqchipPart(s)) = 38
    /\ ToSet(IrqchipPart(s)) = RefInitialTable

(* The spec's data model: "the gsi field is unique across the table".     *)
SpecGsiUnique ==
  \A i, j \in DOMAIN gsi_routing_table :
    i # j => gsi_routing_table[i].gsi # gsi_routing_table[j].gsi

(* An MSI route allocated by AddMsiRoute shares its GSI with no other     *)
(* entry, so UpdateMsiRoute's find_if and KVM both address that route     *)
(* alone.  Broken if two AddMsiRoute calls read next_gsi_ before either    *)
(* writes it back.                                                         *)
MsiGsiUnique ==
  \A i, j \in DOMAIN gsi_routing_table :
    (i # j /\ gsi_routing_table[i].type = "MSI")
      => gsi_routing_table[i].gsi # gsi_routing_table[j].gsi

(* When no AddMsiRoute / UpdateMsiRoute is in progress, the table KVM      *)
(* accepted last equals the mirror (the spec's invariant 2): a push from   *)
(* UpdateGsiRoutingTable never leaves an older copy in the kernel.         *)
KernelInSyncWhenIdle ==
  (\A t \in Threads : pc[t] = "idle") => kernel_routes = gsi_routing_table

(* UpdateGsiRoutingTable never copies more entries into its stack buffer   *)
(* than the size() it read before taking mutex_.                           *)
SnapshotFitsBuffer ==
  \A t \in Threads : pc[t] = "upd_push" => Len(snapshot[t]) <= buf_size[t]

(* The kernel's routing table and irqfds change as MsiRouting allows: one  *)
(* route at a time, a fresh GSI per new route, an irqfd bound only to a    *)
(* routed GSI and no route removed under a bound irqfd.                    *)
Routing == INSTANCE MsiRouting WITH
  routes <- ToSet(kernel_routes),
  irqfds <- kernel_irqfds,
  InitialRoutes <- ToSet(SetupGsiRoutingTable),
  MsiTargets <- MsiAddrs \X MsiData,
  Fds <- Range(TriggerFd),
  Gsis <- 24..(MaxGsi - 1)

RoutingRefinement == Routing!Spec

=============================================================================
