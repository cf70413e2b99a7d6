# TLA+ models of the mvisor device manager

These modules model the concurrent core of mvisor's `DeviceManager`
(`src/mvisor/core/device_manager.cc`), the `Machine` lifecycle
(`src/mvisor/core/machine.cc`) and the raw disk image
(`src/mvisor/images/raw.cc`).
`PROJECT.json` lists the following for every part:

- the modules that model it;
- the source lines behind every definition (`map`);
- the runs, the mutants that show each property can fail, the findings, and the hazards.

## The system

`Machine` creates these in order:

1. the KVM VM;
2. the memory manager;
3. the vCPUs;
4. the `IoThread` (an epoll loop with an io_uring);
5. the `DeviceManager`. Its constructor builds the GSI routing table, then
   `Connect`s every device, then `Reset`s every device.

At run time several threads call into the device manager:

- **vCPU threads** trap on PIO and MMIO and call `HandleIo` / `HandleMmio`.
  Devices that program MSI (from a vCPU's config-space write) call
  `AddMsiRoute` / `UpdateMsiRoute`.
- **The I/O thread** runs ioeventfd callbacks. Each callback calls
  `HandleIo` / `HandleMmio` with the datamatch value.
- **Any thread** may add or remove handlers through
  `RegisterIoHandler` / `UnregisterIoHandler` when a device (re)connects or
  moves a BAR.

All of this shares one `std::recursive_mutex mutex_`. The code does not hold it
everywhere:

- `next_gsi_++` runs outside the lock.
- The routing-table push to KVM runs after the unlock.
- Every device `Read` / `Write` runs after the unlock.

### Inventory

| component | state | operations | modelled by |
|---|---|---|---|
| GSI routing mirror | `gsi_routing_table_`, `next_gsi_`, KVM's routing table, KVM irqfd bindings | SetupGsiRoutingTable, AddMsiRoute, UpdateMsiRoute, UpdateGsiRoutingTable | `GsiRouting` (refines `MsiRouting`) |
| I/O handler tables | `pio_handlers_`, `mmio_handlers_` (deques with move-to-front), `IoResource.enabled` | RegisterIoHandler, UnregisterIoHandler, HandleIo, HandleMmio | `IoDispatch` |
| I/O events | `ioevents_`, KVM ioeventfds, eventfd counters, I/O thread poll set | RegisterIoEvent, UnregisterIoEvent (both overloads), poll callback | `IoEvent` |
| device registry | `registered_devices_` | RegisterDevice (PCI devfn conflict), UnregisterDevice, ResetDevices, the DeviceManager constructor and destructor | `Machine` (read-only lookups and logging not modelled) |
| interrupts | none (ioctl only) | SetIrq, SignalMsi | not modelled: stateless |
| machine lifecycle | `valid_`, vCPUs, I/O thread, device manager | constructor, Run, Quit, Reset, destructor | `Machine` (read-only lookups not modelled) |
| raw image | `fd_`, `readonly_`, queued requests | Initialize, Read, Write, Flush, destructor, completion | `RawImage`, composed into `Machine` |

The memory manager, `IoThread`, `Vcpu`, configuration and the device
implementations are not in the sources modelled here. The models use only
their contracts from `spec.md`.

## Modules

**`MsiRouting`** is the abstract promise about KVM's interrupt routing:

- routes are added, modified and removed one at a time;
- an irqfd is bound only to a GSI with an MSI route;
- an MSI route is removed only when no irqfd is bound to it.

**`GsiRouting`** models the mirror and KVM side by side. Every thread `t`
has a program counter `pc[t]`, and each action is one atomic stretch of the
code:

- **`AddMsiRoute`** loads `next_gsi_` (line 452, unlocked).
- **`AddStore`** stores `next_gsi_ + 1`.
- **`AddAppend`** does the `push_back` under the lock (464-466).
- **`UpdSize`** sizes the stack VLA from `size()` before the lock (399).
- **`UpdCopy`** copies under the lock (402-406).
- **`UpdPush`** issues `KVM_SET_GSI_ROUTING` unlocked (408).
- **`AddIrqfd`** binds `KVM_IRQFD` (469-474).
- KVM refuses (`-EBUSY`) to assign an eventfd it already has bound to any
  GSI, and the code answers with `MV_PANIC` (`IrqfdAssignFails`). This is
  what a second `AddMsiRoute` with the same fd does. It is also what
  `UpdateMsiRouteModify` does when it re-assigns the fd that `AddMsiRoute`
  bound (503-507). A thread that hits it is `panicked`, `Aborted` disables
  every step, and `MC_GsiRouting`'s `Halted` lets the model stop there.
- **`UpdateMsiRouteRemove`** and **`UpdateMsiRouteModify`** are the locked
  part of `UpdateMsiRoute` (480-510). Each includes its irqfd ioctl, and each
  is followed by the same three `Upd*` steps.

Callers only update GSIs they obtained (`owned`), as the MSI-X code does.
`SetupGsiRoutingTable` is the initial table. `MC_GsiRouting` adds an
`Exhausted` stutter step: once `next_gsi` reaches `MaxGsi` and nothing is left
to do, the bound does not show up as a deadlock.

**`IoDispatch`** models the two deques as sequences of
`[resource, device]`:

- **`RegisterIoHandler`** / **`UnregisterIoHandler`** are the whole locked
  functions. Unregister removes the first entry with the same device and
  base, as the code does.
- **`HandleHit`** is the locked scan of `HandleIo` / `HandleMmio`, including
  the move-to-front of a hit at index 3 or more.
- **`HandleMiss`** is the scan that finds nothing.
- **`DeviceAccess`** is one unlocked iteration of the `count` loop.
- **`HandleReturn`** ends the call after the loop.
- **`UnhandledIo`** is the `memset(data, 0xFF, size)` of a PIO miss.
- **`UnhandledMmio`** drops an MMIO miss.

`buffer[v]` holds the state of each string-I/O element.

**`IoEvent`** models the ioeventfd fast path (176-259). Each `IoEvent`
object a run may create is a model value in `Events`. The
(device, type, address) it is created for is `Key[e]`. The state is a set
per fact:

- `allocated` / `deleted`: events created by `new` and freed by `delete`;
- `fdopen`: eventfds that are open;
- `kbound`: KVM ioeventfd bindings;
- `polled`: the I/O thread's poll set;
- `ioevents`: `ioevents_`.

Each eventfd also has a counter, `count[e]`.

A device thread's steps are:

- **`RegisterIoEvent`**: `new`, `eventfd` and the assign ioctl, all
  unlocked (176-202).
- **`StartPolling`** (204-212).
- **`RegisterInsert`**: the insert under `mutex_` (214-216).
- **`UnregisterIoEvent`**: the by-pointer call (223).
- **`UnregisterIoEventByKey`**: the locked `find_if`, then the unlock, with
  an early return on a miss (246-257).
- **`UnregStop`**: `StopPolling` (224).
- **`UnregDelete`**: deassign, erase and delete under `mutex_`, with no
  `close` (226-243).

The I/O thread has two steps:

- **`IoWake`**: the callback's `read`, which drains the counter.
- **`CallbackDispatch`**: the `HandleMmio` / `HandleIo` call.

**`GuestWrite`** is KVM absorbing a guest write into the bound event's
counter, or an ordinary exit when no event is bound. The history counters
`absorbed`, `covered` and `handled` record which writes a finished dispatch
accounted for.

`IoThread` is not in these sources. Its `StopPolling` is assumed to return
only when no callback for that fd is running. This is the contract spec
section 9 asks for.

**`RawImage`** models one image. `img` is its lifetime (new, open,
deleted), `fd` is `fd_`, and each request slot `r` in `Reqs` has a state
(`req[r]`: free, queued with the I/O thread, done), a callback (`cb[r]`:
the device's or the destructor's close lambda) and a count of callback runs
(`calls[r]`):

- **`Initialize`** opens the file read-only or read-write (48-63).
- **`Read`** queues the read (65-68).
- **`Write`** / **`Flush`** answer `callback(0)` at once when read-only
  (**`AnswerNow`**), and otherwise queue the request (**`Submit`**) (70-86).
- **`Destroy`** is `~RawImage`: an open image is flushed with a lambda that
  closes `fd_`. Read-only, it runs at once. Otherwise it is queued and the
  object is freed (40-46).
- **`Complete`** is the I/O thread running a queued callback. The close
  lambda reads `this->fd_` from the freed object. That is undefined, so the
  fd is closed or not, nondeterministically.

**`Machine`** composes `RawImage` (`Img == INSTANCE RawImage`, same
variables) with the machine's threads:

- the **main thread** (`mpc`): `Construct` (37-60), or its `MV_PANIC`
  (configuration, KVM version, system-root, disk file), then the
  `DeviceManager` constructor. **`DmConnect`** is one device's
  `RegisterDevice` during `root_->Connect()`, in the tree order
  `ConnectOrder`. A PCI device whose devfn is already registered
  (`LookupPciDevice`) is `MV_PANIC`, and the process ends (`panicked`).
  **`DmResetDevices`** is the `ResetDevices()` call that follows. Then come
  `RunVcpus` and `RunIo`
  (177-183), then, once `valid_` is false, the destructor: `DtorStart`,
  `DtorJoinVcpus` (joins every vCPU, 64-70), `DmDisconnect` (the
  `~DeviceManager` `Disconnect`, where each device calls
  `UnregisterDevice`), `DtorManagers` (72-73) and `DtorIoThread` (74-89,
  joins the I/O thread);
- each **vCPU** (`vpc[v]`): enters the guest while `valid_`, exits to device
  code or halts, leaves KVM_RUN on a kick (`kicked[v]` persists until
  consumed), and in device code uses the image or calls `Quit` or `Reset`.
  `Quit` is four steps (test 187-188, clear 189, kick 191-193, stop 194), and
  the stop waits for the I/O thread. `Reset` is the BIOS copy, `ResetDevices`
  and scheduling a reset on every vCPU (200-212);
- the **I/O thread** (`iopc`): while not asked to stop, it runs an ioeventfd
  callback (`IoCallback`, `IoCallbackDone`) or completes a disk request
  (`IoComplete`). Once asked, it stops.

The vCPU loop and `IoThread` are not in these sources. Their steps follow the
spec (sections 4.5, 5 and 9), and the map marks them `spec_modelled`.
`registered` is `registered_devices_`. `devfn` is the PCI coordinates the
configuration gives each device; `Init` picks one of `DevfnConfigs`.
`gone` records what the destructor has deleted. `quits` counts the calls of
`Quit` that passed its test.

## Runs

| run | expect | what it shows |
|---|---|---|
| `gsi_single` | pass | One thread, `MaxGsi` 27 (three MSI routes), two addresses. The initial table is the 38 entries the code builds. MSI GSIs are unique. KVM equals the mirror whenever every call has returned. KVM's routing refines `MsiRouting`: irqfd bound after the route is pushed, deassigned before the route is erased. Re-assigning a bound eventfd aborts, and the run reaches that. 2.9k states. (`SnapshotFitsBuffer` holds trivially with one thread, so only `gsi_race_vla` checks it.) |
| `gsi_race_dup` | violation | Two vCPUs interleave `next_gsi_++` and both get GSI 24. |
| `gsi_race_push` | violation | Two `UpdateGsiRoutingTable` pushes are reordered after the unlock. KVM keeps the older table. |
| `gsi_race_vla` | violation | A `push_back` between sizing and copying overflows the stack buffer. |
| `dispatch_tables` | pass | Four overlapping PIO resources of two devices, plus an MMIO one. Registration, unregistration and promotions in any order keep each registered resource exactly once in the right table. 14.4k states. |
| `ioevent_live` | pass | One device thread registers and unregisters two doorbells, one of them twice, against the I/O thread and 3 guest writes. No freed `IoEvent` is dereferenced. Every write KVM absorbed is eventually dispatched to the device, unless its event is deleted first (`AbsorbedWritesHandled`, checked under the fairness below). 9.8k states. |
| `ioevent_double_unreg` | violation | Two threads unregister the same event. The by-key overload finds it under the lock, unlocks, and the event stays in `ioevents_` until deleted, so the second unregister uses a freed `IoEvent`. |
| `ioevent_fd_leak` | violation | `UnregisterIoEvent` deletes the event without closing its eventfd. The spec says it closes the fd. |
| `dispatch_unhandled_ins` | violation | An `INS` with count 2 from an unclaimed port gets 0xFF only in element 1. |
| `machine_life` | pass | Two device configurations, one of which aborts in `RegisterDevice` on a devfn conflict. Two vCPUs that trap, halt, quit, reset and use a disk image with two request slots, against the I/O thread and the destructor. The device manager is never deleted while a vCPU or the I/O thread is inside it (`NoUseAfterDestroy`). This holds even when a vCPU quits before `Run` has started the I/O thread. Once `valid_` is false the destructor always finishes (`QuitTearsDown`). 112k states, about 25 s. |
| `machine_quit_twice` | violation | Two vCPUs call `Quit` at once. Both pass the unlocked `valid_` test, so both kick and stop. The spec says `Quit` is idempotent. |
| `machine_image_uaf` | violation | Deleting a writable `RawImage` queues an fsync whose callback reads `fd_` of the freed object. |

Further notes, not runs:

- The spec gives the IOAPIC GSIs as 0 and 3-23. The code also routes GSI 1
  to IOAPIC pin 1. `InitialTableCorrect` states what the code builds.
- The spec's data model says a GSI is unique across the routing table, but
  the initial table routes GSIs 0-15 to a PIC and to the IOAPIC.
  `SpecGsiUnique` (in `GsiRouting`) states the spec's rule, and it fails on
  the initial table. No run keeps it.
- `HandleIo` / `HandleMmio` release `mutex_` before calling the device, so a
  vCPU can still call a device's `Read`/`Write` after `UnregisterIoHandler`
  for that resource returned. `NoAccessAfterUnregister` (in `IoDispatch`)
  states the stricter lifetime, and it fails. The spec says nothing either
  way, so no run keeps it. The device and resource pointers are copied
  before the unlock (271-273), so the deleted `IoHandler` is not read.
- Some properties were dropped because they held by the shape of the
  model, or repeated another property:
  - an abstract dispatcher that `IoDispatch` refined: its lookup used the
    same `Covers` as the model's, and its handler set repeated
    `HandlersMatchRegistered`;
  - "each image callback runs at most once": it restates the if/else of
    `Write` / `Flush`;
  - "the registry changes only while no worker runs": the main thread's
    order already gives that;
  - "every queued request completes": this follows from fairness and the
    single `io_thread_->Start()`.

### Bounds

- **GSI.** `MaxGsi` 27 allows three MSI routes in one run. That is enough to
  promote, modify and remove with the others present. The race runs use two
  threads and two routes, which is the least that can interleave.
- **Dispatch.** Four PIO resources are needed so that a hit reaches index 3
  and move-to-front happens. Two of them share base 0 with different owners,
  which exercises unregister's device-and-base match. `MaxCount` 2 covers
  string I/O; counts start at 1, because KVM's `io.count` and the
  ioeventfd callback never pass 0. One vCPU suffices for the table properties, because the tables
  change only under the lock. The violation runs need only one PIO and one
  MMIO resource. A two-vCPU `dispatch_tables` does not finish in five
  minutes (460k states after 4.5 minutes); the second vCPU adds only
  another unlocked device loop, which the registering actions already
  interleave with.

- **Machine.** Two vCPUs are the least for one to quit or reset while the
  other runs, halts or is in device code. Two devices, connected in order,
  cover both outcomes of `RegisterDevice`: a non-PCI device, a free devfn,
  and a taken one. Two request slots let a device
  request and the destructor's flush be queued together. The violation runs
  need only the vCPUs and the one slot they use.

- **IoEvent.** Three event objects share two keys, so one doorbell is
  registered, unregistered and registered again. There are 3 guest writes,
  so writes can land before polling starts, during a callback, and after
  `StopPolling`. The race run needs two threads and one event.

### Fairness

`IoEvent`'s `Spec` assumes weak fairness of two things:

- each device thread's continuation steps (`ThreadStep`), because an OS
  thread that has entered `RegisterIoEvent` or `UnregisterIoEvent` runs it to
  the end;
- the I/O thread's loop (`IoThreadStep`), because the I/O worker blocks in
  epoll and is woken by any readable fd (spec section 5).

`Machine`'s `Spec` assumes weak fairness of three things:

- the main thread;
- each vCPU's own steps, because a thread in `Quit`, `Reset`, the vCPU loop
  or returning from device code runs on;
- the I/O thread's loop.

It assumes strong fairness of each disk completion (`IoComplete(r)`). A
completion stays ready until it is served, and `epoll_wait` returns every
ready fd, so ioeventfd callbacks cannot starve it. Weak fairness would not
do: the completion is disabled while a callback runs.

Nothing is assumed of the guest or of a device starting a new call. The
other modules check safety only.

## Plan for later work

Every operation of `device_manager.cc`, `machine.cc` and `raw.cc` that
changes state is an action of a module. What remains depends on code that
is not in these sources:

- `Quit` called from the I/O thread (an ioeventfd callback), where `Stop`
  runs on the thread it stops. This needs `IoThread`'s code.
- Composing `IoDispatch`'s tables into `Machine`. The handlers a device
  removes in `Disconnect` are chosen by device code, so the composition
  would add state without a property it could check against these sources.
  `NoUseAfterDestroy` already keeps every worker out of the device manager
  once it is deleted.

## Not modelled

- **Data values.** Device data, MSI address and data values, and formatting
  are abstracted to small sets.
- **`memory_manager()->Map`** for MMIO regions. It belongs to another
  component. `UnregisterIoHandler` never unmaps the region that
  `RegisterIoHandler` mapped (device_manager.cc:145, 165). A hazard entry
  records the leak, but the regions are not state of `IoDispatch`.
- **Interrupt injection.** `SetIrq` and `SignalMsi` are one ioctl each,
  and they abort on failure. They change no state of this code.
- **Where disk images are destroyed.** Device code decides this, and it is
  not in these sources. `Machine` lets device code destroy the image while
  the machine runs. It does not model a destruction from the destructor's
  `objects_` loop (machine.cc:77). That loop runs after the device manager
  and the I/O thread are deleted, and `~RawImage` reaches both through
  `device_->manager()->io()`. Nor does it check the read-only destructor
  closing `fd_` while a read is still queued (raw.cc:81). Both are hazard
  entries.
- **Debug logging and timing.**
- **Undefined behaviour of `push_front` followed by `erase(it)`.**
  `push_front` may invalidate `it` (device_manager.cc:276-277). The model
  takes the intended result. A hazard entry records this.
- **Read-only lookups and logging.** `LookupObjectByName`,
  `LookupObjectByClass`, `LookupObjects`, `LookupDeviceByName` and
  `PrintDevices` only read the configured objects or the registry. No
  property tells their results apart.
- **Guest memory.** `Reset`'s BIOS `memcpy` runs while the other vCPUs still
  execute guest code until they take their scheduled reset. A guest write
  to the BIOS shadow in that window would survive the reset. Guest memory is
  not state of these models, so no property covers this race.
- **KVM, BIOS and architecture setup** in the constructor are one step. They
  run before any other thread exists.
- **A host-initiated `Quit`**, from outside device code. `Machine` lets
  vCPUs call it, which is the path that races with running vCPUs.
