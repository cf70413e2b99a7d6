------------------------------- MODULE Machine -------------------------------
(***************************************************************************)
(* The Machine lifecycle (src/mvisor/core/machine.cc) with the workers it  *)
(* owns: the main thread constructs the machine, Run starts the vCPU       *)
(* threads and then the I/O thread, and once Quit has cleared valid_ the   *)
(* destructor joins the vCPUs and deletes the device manager, the memory   *)
(* manager and the I/O thread, in that order.  Device code on a vCPU may   *)
(* call Quit (guest power-off) or Reset (guest reset), and uses a RawImage *)
(* whose requests the I/O thread completes.                                *)
(*                                                                         *)
(* The vCPU loop and IoThread are not in these sources; they follow the    *)
(* spec's contracts (section 5): a vCPU leaves KVM_RUN on a trap or on a   *)
(* kick, and runs while valid_; the I/O thread's loop serves fds and       *)
(* completions until it is asked to stop, and Stop returns once it has.    *)
(***************************************************************************)
EXTENDS Naturals, FiniteSets, Sequences

CONSTANTS
  Vcpus,        \* vCPU threads (num_vcpus_)
  Reqs,         \* RawImage request slots
  Devices,      \* the configured devices below system-root
  ConnectOrder, \* the order root_->Connect() reaches them (a sequence)
  DevfnConfigs, \* the (bus, devfn) each configuration gives the devices
  NoPci         \* devfn of a device that is not a PciDevice

ASSUME ConnectOrder \in Seq(Devices)
ASSUME \A c \in DevfnConfigs : DOMAIN c = Devices

VARIABLES
  mpc,       \* main thread: constructor, Run, destructor
  valid,     \* valid_
  vpc,       \* vpc[v]: where vCPU thread v is
  kicked,    \* kicked[v]: a Kick not yet consumed by leaving KVM_RUN
  sched,     \* sched[v]: a vcpu->Reset scheduled by Machine::Reset
  iopc,      \* I/O thread: "new", "running", "callback", "stopped"
  stop_req,  \* IoThread::Stop has been asked
  gone,      \* objects the destructor has deleted
  quits,     \* calls of Quit that passed its valid_ test
  registered, \* registered_devices_
  devfn,      \* devfn[d]: the configured PCI coordinates of d, or NoPci
  img, fd, req, cb, calls, readonly

Img == INSTANCE RawImage

reg_vars == <<registered, devfn>>

vars == <<registered, devfn, mpc, valid, vpc, kicked, sched, iopc, stop_req,
          gone, quits, img, fd, req, cb, calls, readonly>>

machine_vars == <<registered, devfn, mpc, valid, vpc, kicked, sched, iopc,
                  stop_req, gone, quits>>

-----------------------------------------------------------------------------
(* vCPU threads inside device manager or device code. *)
InManager == {"device", "quit_check", "quit_set", "quit_kick", "quit_stop",
              "quit_join", "reset_bios", "reset_devices", "reset_sched"}

Step(v, from, to) ==
  /\ vpc[v] = from
  /\ vpc' = [vpc EXCEPT ![v] = to]

Init ==
  /\ mpc = "init"
  /\ valid = TRUE
  /\ vpc = [v \in Vcpus |-> "created"]
  /\ kicked = [v \in Vcpus |-> FALSE]
  /\ sched = [v \in Vcpus |-> FALSE]
  /\ iopc = "new"
  /\ stop_req = FALSE
  /\ gone = {}
  /\ quits = 0
  /\ registered = {}
  /\ devfn \in DevfnConfigs
  /\ Img!Init

(* Machine::Machine: configuration, KVM, memory manager, BIOS, arch setup, *)
(* vCPU objects, the I/O thread object, then new DeviceManager, which     *)
(* sets up the GSI table and calls root_->Connect().  The disk image is    *)
(* opened with the configured devices.  A configuration that fails to    *)
(* load, a KVM API mismatch, a missing system-root or disk file is        *)
(* MV_PANIC, which aborts the process before any thread is started.       *)
Construct ==
  /\ mpc = "init"
  /\ \/ /\ mpc' = "connect"
        /\ \E ro \in BOOLEAN : Img!Initialize(ro)
     \/ /\ mpc' = "panicked"
        /\ UNCHANGED <<img, fd, req, cb, calls, readonly>>
  /\ UNCHANGED <<reg_vars, valid, vpc, kicked, sched, iopc, stop_req, gone, quits>>

(* LookupPciDevice(bus, devfn): the registered PCI devices at those       *)
(* coordinates; the loop returns the first, only whether one exists       *)
(* matters to RegisterDevice.                                              *)
LookupPciDevice(f) == {e \in registered : devfn[e] = f}

(* RegisterDevice: a PciDevice whose coordinates are taken is MV_PANIC,   *)
(* which aborts the process; otherwise insert into registered_devices_.   *)
(* No lock is taken.                                                      *)
RegisterDevice(d) ==
  \/ /\ devfn[d] # NoPci
     /\ LookupPciDevice(devfn[d]) # {}
     /\ mpc' = "panicked"
     /\ UNCHANGED registered
  \/ /\ devfn[d] = NoPci \/ LookupPciDevice(devfn[d]) = {}
     /\ registered' = registered \cup {d}
     /\ UNCHANGED mpc

UnregisterDevice(d) == registered' = registered \ {d}

(* root_->Connect(): each device in turn registers itself (and its I/O     *)
(* handlers, which IoDispatch models).                                     *)
DmConnect ==
  /\ mpc = "connect"
  /\ Cardinality(registered) < Len(ConnectOrder)
  /\ RegisterDevice(ConnectOrder[Cardinality(registered) + 1])
  /\ UNCHANGED <<devfn, valid, vpc, kicked, sched, iopc, stop_req, gone, quits,
                 img, fd, req, cb, calls, readonly>>

(* Connect has returned: ResetDevices() resets every registered device;   *)
(* the constructor is done.                                               *)
DmResetDevices ==
  /\ mpc = "connect"
  /\ Cardinality(registered) = Len(ConnectOrder)
  /\ mpc' = "built"
  /\ UNCHANGED <<reg_vars, valid, vpc, kicked, sched, iopc, stop_req, gone, quits,
                 img, fd, req, cb, calls, readonly>>

(* Run: vcpu->Start() for every vCPU ... *)
RunVcpus ==
  /\ mpc = "built"
  /\ mpc' = "vcpus_started"
  /\ vpc' = [v \in Vcpus |-> "loop"]
  /\ UNCHANGED <<reg_vars, valid, kicked, sched, iopc, stop_req, gone, quits, img, fd,
                 req, cb, calls, readonly>>

(* ... then io_thread_->Start(). *)
RunIo ==
  /\ mpc = "vcpus_started"
  /\ mpc' = "running"
  /\ iopc' = "running"
  /\ UNCHANGED <<reg_vars, valid, vpc, kicked, sched, stop_req, gone, quits, img, fd,
                 req, cb, calls, readonly>>

(* Mutant: the destructor skips joining the vCPU threads. *)
DtorStartNoJoin ==
  /\ mpc = "running"
  /\ ~valid
  /\ mpc' = "delete_dm"
  /\ UNCHANGED <<reg_vars, valid, vpc, kicked, sched, iopc, stop_req, gone, quits,
                 img, fd, req, cb, calls, readonly>>

(* The machine is deleted once valid_ is false: ~Machine sets valid_ =   *)
(* false and deletes (joins) every vCPU.                                 *)
DtorStart ==
  /\ mpc = "running"
  /\ ~valid
  /\ mpc' = "join_vcpus"
  /\ UNCHANGED <<reg_vars, valid, vpc, kicked, sched, iopc, stop_req, gone, quits,
                 img, fd, req, cb, calls, readonly>>

DtorJoinVcpus ==
  /\ mpc = "join_vcpus"
  /\ \A v \in Vcpus : vpc[v] = "exited"
  /\ mpc' = "delete_dm"
  /\ gone' = gone \cup {"vcpus"}
  /\ UNCHANGED <<reg_vars, valid, vpc, kicked, sched, iopc, stop_req, quits,
                 img, fd, req, cb, calls, readonly>>

(* delete device_manager_: ~DeviceManager calls root_->Disconnect(), and  *)
(* each device unregisters itself.                                        *)
DmDisconnect ==
  /\ mpc = "delete_dm"
  /\ \E d \in registered : UnregisterDevice(d)
  /\ UNCHANGED <<devfn, mpc, valid, vpc, kicked, sched, iopc, stop_req, gone, quits,
                 img, fd, req, cb, calls, readonly>>

(* The device manager, then the memory manager, is freed. *)
DtorManagers ==
  /\ mpc = "delete_dm"
  /\ registered = {}
  /\ mpc' = "delete_io"
  /\ gone' = gone \cup {"device_manager", "memory_manager"}
  /\ UNCHANGED <<reg_vars, valid, vpc, kicked, sched, iopc, stop_req, quits,
                 img, fd, req, cb, calls, readonly>>

(* delete io_thread_, which joins the I/O thread; then the configured     *)
(* objects, the KVM fds and the BIOS buffers.                             *)
DtorIoThread ==
  /\ mpc = "delete_io"
  /\ iopc \in {"new", "stopped"}
  /\ mpc' = "done"
  /\ gone' = gone \cup {"io_thread", "objects"}
  /\ UNCHANGED <<reg_vars, valid, vpc, kicked, sched, iopc, stop_req, quits,
                 img, fd, req, cb, calls, readonly>>

-----------------------------------------------------------------------------
(* The vCPU loop: back from an exit, run a scheduled reset, and enter     *)
(* KVM_RUN again while valid_, or leave the thread.                       *)
VcpuLoop(v) ==
  /\ vpc[v] = "loop"
  /\ vpc' = [vpc EXCEPT ![v] = IF valid THEN "guest" ELSE "exited"]
  /\ sched' = [sched EXCEPT ![v] = FALSE]
  /\ UNCHANGED <<reg_vars, mpc, valid, kicked, iopc, stop_req, gone, quits,
                 img, fd, req, cb, calls, readonly>>

(* The guest traps to the device code, or halts; neither need happen. *)
GuestExit(v) ==
  /\ \/ Step(v, "guest", "device")
     \/ Step(v, "guest", "halt")
  /\ UNCHANGED <<reg_vars, mpc, valid, kicked, sched, iopc, stop_req, gone, quits,
                 img, fd, req, cb, calls, readonly>>

(* A kick makes KVM_RUN return. *)
KickExit(v) ==
  /\ vpc[v] \in {"guest", "halt"}
  /\ kicked[v]
  /\ vpc' = [vpc EXCEPT ![v] = "loop"]
  /\ kicked' = [kicked EXCEPT ![v] = FALSE]
  /\ UNCHANGED <<reg_vars, mpc, valid, sched, iopc, stop_req, gone, quits,
                 img, fd, req, cb, calls, readonly>>

DeviceReturn(v) ==
  /\ Step(v, "device", "loop")
  /\ UNCHANGED <<reg_vars, mpc, valid, kicked, sched, iopc, stop_req, gone, quits,
                 img, fd, req, cb, calls, readonly>>

(* Device code calls machine->Quit() or machine->Reset(); the device     *)
(* call returns to the vCPU loop when that call returns.                  *)
DeviceCalls(v) ==
  /\ \/ Step(v, "device", "quit_check")
     \/ Step(v, "device", "reset_bios")
  /\ UNCHANGED <<reg_vars, mpc, valid, kicked, sched, iopc, stop_req, gone, quits,
                 img, fd, req, cb, calls, readonly>>

(* Device code uses its disk image. *)
DeviceImage(v) ==
  /\ vpc[v] = "device"
  /\ \/ \E r \in Reqs : Img!Read(r) \/ Img!Write(r) \/ Img!Flush(r)
     \/ Img!Destroy
  /\ UNCHANGED machine_vars

(* Quit: "if (!valid_) return;" *)
QuitCheck(v) ==
  /\ vpc[v] = "quit_check"
  /\ vpc' = [vpc EXCEPT ![v] = IF valid THEN "quit_set" ELSE "loop"]
  /\ UNCHANGED <<reg_vars, mpc, valid, kicked, sched, iopc, stop_req, gone, quits,
                 img, fd, req, cb, calls, readonly>>

(* "valid_ = false;" *)
QuitSet(v) ==
  /\ Step(v, "quit_set", "quit_kick")
  /\ valid' = FALSE
  /\ quits' = quits + 1
  /\ UNCHANGED <<reg_vars, mpc, kicked, sched, iopc, stop_req, gone,
                 img, fd, req, cb, calls, readonly>>

(* Mutant: the vCPUs are not kicked. *)
QuitNoKick(v) ==
  /\ Step(v, "quit_kick", "quit_stop")
  /\ UNCHANGED <<reg_vars, mpc, valid, kicked, sched, iopc, stop_req, gone, quits,
                 img, fd, req, cb, calls, readonly>>

(* "for (auto vcpu: vcpus_) vcpu->Kick();" *)
QuitKick(v) ==
  /\ Step(v, "quit_kick", "quit_stop")
  /\ kicked' = [w \in Vcpus |-> TRUE]
  /\ UNCHANGED <<reg_vars, mpc, valid, sched, iopc, stop_req, gone, quits,
                 img, fd, req, cb, calls, readonly>>

(* "io_thread_->Stop();": ask the loop to stop, then wait for it. *)
QuitStop(v) ==
  /\ Step(v, "quit_stop", "quit_join")
  /\ stop_req' = TRUE
  /\ UNCHANGED <<reg_vars, mpc, valid, kicked, sched, iopc, gone, quits,
                 img, fd, req, cb, calls, readonly>>

QuitJoin(v) ==
  /\ iopc \in {"new", "stopped"}
  /\ Step(v, "quit_join", "loop")
  /\ UNCHANGED <<reg_vars, mpc, valid, kicked, sched, iopc, stop_req, gone, quits,
                 img, fd, req, cb, calls, readonly>>

(* Reset: memcpy the BIOS backup, device_manager_->ResetDevices(), then   *)
(* vcpu->Schedule(vcpu->Reset()) for every vCPU.                          *)
ResetBios(v) ==
  /\ Step(v, "reset_bios", "reset_devices")
  /\ UNCHANGED <<reg_vars, mpc, valid, kicked, sched, iopc, stop_req, gone, quits,
                 img, fd, req, cb, calls, readonly>>

ResetDevices(v) ==
  /\ Step(v, "reset_devices", "reset_sched")
  /\ UNCHANGED <<reg_vars, mpc, valid, kicked, sched, iopc, stop_req, gone, quits,
                 img, fd, req, cb, calls, readonly>>

ResetSchedule(v) ==
  /\ Step(v, "reset_sched", "loop")
  /\ sched' = [w \in Vcpus |-> TRUE]
  /\ UNCHANGED <<reg_vars, mpc, valid, kicked, iopc, stop_req, gone, quits,
                 img, fd, req, cb, calls, readonly>>

-----------------------------------------------------------------------------
(* The I/O thread loop checks the stop flag, then serves a readable       *)
(* ioeventfd with its callback into the device manager ...                *)
IoCallback ==
  /\ iopc = "running"
  /\ ~stop_req
  /\ iopc' = "callback"
  /\ UNCHANGED <<reg_vars, mpc, valid, vpc, kicked, sched, stop_req, gone, quits,
                 img, fd, req, cb, calls, readonly>>

(* ... or a completed disk request, whose callback it runs. *)
IoComplete(r) ==
  /\ iopc = "running"
  /\ ~stop_req
  /\ Img!Complete(r)
  /\ UNCHANGED machine_vars

IoCallbackDone ==
  /\ iopc = "callback"
  /\ iopc' = "running"
  /\ UNCHANGED <<reg_vars, mpc, valid, vpc, kicked, sched, stop_req, gone, quits,
                 img, fd, req, cb, calls, readonly>>

IoStopped ==
  /\ iopc = "running"
  /\ stop_req
  /\ iopc' = "stopped"
  /\ UNCHANGED <<reg_vars, mpc, valid, vpc, kicked, sched, stop_req, gone, quits,
                 img, fd, req, cb, calls, readonly>>

(* The process exits after the destructor, or after a panic. *)
Exited ==
  /\ mpc \in {"done", "panicked"}
  /\ UNCHANGED vars

MainStep ==
  Construct \/ DmConnect \/ DmResetDevices \/ DmDisconnect \/ RunVcpus \/ RunIo \/ DtorStart \/ DtorJoinVcpus
  \/ DtorManagers \/ DtorIoThread

VcpuStep(v) ==
  VcpuLoop(v) \/ KickExit(v) \/ DeviceReturn(v) \/ QuitCheck(v) \/ QuitSet(v)
  \/ QuitKick(v) \/ QuitStop(v) \/ QuitJoin(v) \/ ResetBios(v)
  \/ ResetDevices(v) \/ ResetSchedule(v)

IoStep == IoCallback \/ IoCallbackDone \/ IoStopped \/ \E r \in Reqs : IoComplete(r)

Next ==
  \/ MainStep
  \/ \E v \in Vcpus : VcpuStep(v) \/ GuestExit(v) \/ DeviceCalls(v) \/ DeviceImage(v)
  \/ IoStep
  \/ Exited

(* Threads are scheduled: the main thread, every vCPU's userspace code    *)
(* and the I/O thread's loop make progress.  A completion stays ready     *)
(* until it is served, and each epoll_wait returns every ready fd, so one  *)
(* that is ready whenever the loop is idle is served (strong fairness):   *)
(* ioeventfd callbacks cannot starve it.  What the guest and device    *)
(* code choose to do (trap, halt, quit, reset, use the image) need not    *)
(* happen; a vCPU returning from device code does.                        *)
Fairness ==
  /\ WF_vars(MainStep)
  /\ \A v \in Vcpus : WF_vars(VcpuStep(v))
  /\ WF_vars(IoStep)
  /\ \A r \in Reqs : SF_vars(IoComplete(r))

Spec == Init /\ [][Next]_vars /\ Fairness

-----------------------------------------------------------------------------
TypeOK ==
  /\ mpc \in {"init", "connect", "panicked", "built", "vcpus_started", "running", "join_vcpus",
              "delete_dm", "delete_io", "done"}
  /\ valid \in BOOLEAN
  /\ vpc \in [Vcpus -> InManager \cup {"created", "loop", "guest", "halt", "exited"}]
  /\ kicked \in [Vcpus -> BOOLEAN] /\ sched \in [Vcpus -> BOOLEAN]
  /\ iopc \in {"new", "running", "callback", "stopped"}
  /\ gone \subseteq {"vcpus", "device_manager", "memory_manager", "io_thread", "objects"}
  /\ quits \in 0..Cardinality(Vcpus)
  /\ registered \subseteq Devices
  /\ Img!TypeOK

(* Once the destructor has deleted the device manager (and the memory     *)
(* manager), no vCPU is inside device or manager code and the I/O thread  *)
(* is not inside a callback into it: Quit's kick and Stop, and the joins, *)
(* end every worker first.                                                *)
NoUseAfterDestroy ==
  "device_manager" \in gone =>
    /\ \A v \in Vcpus : vpc[v] \notin InManager
    /\ iopc # "callback"

(* Once valid_ is cleared, the machine is torn down: every vCPU leaves    *)
(* KVM_RUN (even a halted one, through the kick), the I/O thread stops,   *)
(* and the destructor runs to its end.                                    *)
QuitTearsDown == (~valid) ~> (mpc = "done")

(* No callback queued with the I/O thread refers to a freed RawImage: the *)
(* destructor's Flush callback reads this->fd_ when the fsync completes.  *)
ImageNoUseAfterFree == Img!ImageNoUseAfterFree

(* Quit is idempotent (spec 4.5): the kick-and-stop sequence runs once    *)
(* however many threads call it.                                          *)
QuitOnce == quits <= 1

=============================================================================
