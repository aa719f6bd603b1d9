# Formal models of the NNT Linux driver

TLA+ models of the kernel drivers in this repository, the configurations with
which TLC checks them, and proofs that TLAPS checks. Line numbers are those of
the sources at the modelled commit.

## 1. The system

Four kernel modules give user space tools (MFT, mstflint) access to NVIDIA
network devices. Three are character drivers over one shared library,
`nnt_driver/`, each with its own copy of the list of `nnt_device` structures:

* `mst_pciconf` (`mst_backward_compatibility/mst_pciconf/`), access through
  configuration space;
* `mst_pci` (`mst_backward_compatibility/mst_pci/`), access through a BAR;
* `mstflint_access` (`mstflint/mst_main.c`), which also creates its device nodes.

The fourth, `mst_ppc_pci_reset`, resets PowerPC devices while it is loaded.

| Component | State | Operations | Talks to |
|---|---|---|---|
| VSEC semaphore (`nnt_pci_conf_access.c` 9-85) | a register of the device; the locals of each thread | `lock_vsec_semaphore`, `get_semaphore_ticket`, `clear_vsec_semaphore` | every client of the device: other threads, the other kernel modules, user space tools, firmware |
| Gateway transactions (`nnt_pci_conf_access.c` 90-331) | control, address and data registers | `read_pciconf`, `write_pciconf`, `read_dword`, `set_address_space`, `wait_on_flag` | run under the semaphore, called by the ioctls |
| Access without a VSEC (`nnt_pci_conf_access_no_vsec.c`) | address and data register, `wo_address` | `read_pciconf_no_vsec`, `write_pciconf_no_vsec`, `is_wo_gw` | no semaphore; only the mutex of one module's `nnt_device` |
| Device creation (`nnt_device.c` 166-498, `nnt_pci_conf_access.c` 334-430) | the list, `device_type`, `vsec_capability_mask`, `access` callbacks | `create_nnt_devices`, `create_devices`, `check_if_vsec_supported`, `init_pciconf` | probes through the semaphore; chooses the callbacks of all later calls |
| Report of parameters (`nnt_ioctl.c` 80-106, `nnt_pci_conf_access.c` 168-200) | the flags `address_space` | `get_nnt_device_parameters`, `check_address_space_support` | probes through the semaphore as well |
| Entry points (`mst_pciconf_bc.c`, `mst_pci_bc.c`, `mst_main.c`; `nnt_device.c` 17-93, 520-548, 588-625) | `file->private_data`, `device_minor_number`, `device_enabled`, the mutex of each `nnt_device` | open, ioctl, read, write, mmap, release; INIT and STOP | lock, look the device up, work, unlock |
| DMA pages (`nnt_dma.c`, `nnt_ioctl.c` 14-46) | `page_list` and `dma_address_list` of a device, pins and mappings in the kernel | GET, RELEASE | under the device mutex |
| ConnectX slots (`nnt_ioctl.c` 109-139, `mst_main.c` 351-383, the releases) | `connectx_wa_slot_p1`, `connectx_wa_slots`: of the device, not of the file | request, release at close | under the device mutex, except the check in `mst_release`; INIT moves the file away from its slot |
| VPD (`nnt_ioctl.c` 142-230) | the VPD flag and data register of the function | `vpd_read`, `vpd_write` | under the mutex of one module's `nnt_device`; nothing orders two modules |
| Legacy buffers (`mst_pciconf_bc.c` 52-129, `mst_pci_bc.c` 47-150) | `buffer_bc` of a device, a static buffer per minor, `f_pos` of a file | read, write | INIT empties a buffer or moves the file |
| BAR (`mst_pci_bc.c` 159-197, 239-299) | `bar_address`, `bar_size` of a device | INIT, `PCI_PARAMS`, mmap | any file's INIT chooses for all |
| PPC reset (`mst_ppc_pci_reset.c`) | the list, counts, `reset_was_done` | probe, remove, `pci_devices_reset` | the PCI core |
| Load and unload (`mst_main.c` 405-462, `mst_pciconf_bc.c` 578-608, `mst_pci_bc.c` 387-417, `nnt_device.c` 316-570) | class, region or major number, nodes, character devices, the list | the init and exit functions, `destroy_nnt_devices` | device creation; users reach a device before its load has ended |
| Device ids (`nnt_device.c` 212-313) | none | `is_pciconf_device`, `is_pcicr_device` and what they rest on | decide which devices are created |

What is hard here is concurrency: a semaphore in hardware shared with
programs the driver does not control, a mutex found through a pointer that an
ioctl may change, structures per device that files share. Beside it: timeouts
and devices that never answer, errors that look like success, and lists kept
across calls. There are no tests in the repository. `PROJECT.json` lists each
hazard at its line with the properties that cover it.

What makes each component correct:

* semaphore: only one transaction at a time; a holder that dies does not lock
  the device for ever; a thread never believes it holds what it does not;
* gateway: what is reported as transferred was transferred, nothing else is
  stored, a transaction ends;
* creation: a device is accessed by the means it supports, and all clients
  agree on them;
* entry points: lock, work and unlock are on one device, every path unlocks;
* DMA: each address given to the user maps its page, and a release frees all;
* slots: a slot has one owner and does not outlive it; buffers: what is read
  was written, within bounds; BAR: a file maps the one it chose;
* VPD: data is that of the address asked for, and a call ends;
* reset: with every device found, saved before and responding after;
* load and unload: nothing is left behind, nothing is destroyed that was not
  made or is in use, no call comes before its callback.

## 2. Modules

| Module | Models | State and actions |
|---|---|---|
| `RevocableLock` | what the semaphore promises | `holders`, `revoked`, `losers`; `Acquire`, `Release`, `Lose`, `Withdraw` |
| `VsecSemaphore` | the semaphore | `ticket`, `retries` are the locals `counter`, `retries`; each action is one config access or the return it leads to. `failed` are threads whose lock returned an error: they go to `clear` as the code does |
| `DwordMemory` | what read and write callbacks promise, with a VSEC or without | `mem`, `transfer`, the transaction the promise holds for; `Begin`, `ReadDword`, `StoreDword`, `CountDword`, `End`, and `Disturb` for what happens while there is no promise |
| `RwOperation` | `struct nnt_rw_operation`, of which the two transaction loops go through `data[]` | operators: `Count` is how many dwords begin within the user's `size`, `Fits` says that they have places in `data[]` |
| `VsecGateway` | the transactions; extends `VsecSemaphore` and `RwOperation` | a body runs while a client is in "cs". `stage` is the place in the body, `word` is `counter / 4`, `hw` the registers; `DeviceAnswers` is the device. A loop that leaves `data[]` reads or writes the handler's stack (`smashed`), and may not come back ("dead") |
| `IoctlDispatch` | entry points | `private`, `minor`, `enabled`, `holder` (the mutexes), `mapping` (the lock of the address space, which mmap comes with); one action per read of `private_data`, one for a page fault of a copy. `driver` says which of the three drivers it is |
| `DeviceAccess` | creation, probing and the access without a VSEC; extends `VsecSemaphore` and `RwOperation` | a client is one kernel module's `nnt_device` for the function. `phase` is the place in `create_devices`, `type` stands for `device_type` and the callbacks, `gw` for the two registers. `Params` and `FinishParams` are the report of parameters, whose probe shares its steps with that of `init_pciconf`. `Window` maps it to `DwordMemory` |
| `PpcReset` | the hot reset | `entry` is `pci_device` of each list member; one action per device and loop |
| `DmaPages` | GET, RELEASE and close | `phase` is the place in the two loops; `first`, `round`, `counter` are `total_pinned`, `pinned_pages`, `page_mapped_counter`; lists hold the page itself in place of its address. `Release(u, n)` is RELEASE of any number `n` of pages by anyone at any time |
| `FileBinding` | which device a file of one node is bound to | `private`, `enabled`; `BindOnOpen`, `Rebind` (INIT), `Disable` (STOP), `Unbind` (the last close) |
| `ConnectxSlots` | the slots; extends `FileBinding` | `slot` is `connectx_wa_slot_p1`, `slots` the mask; `Ask`, `AskAgain`, `Free` |
| `LegacyBuffers` | read and write; extends `FileBinding` | `used` is `buffer_used` of a device, of `None` for the static buffer; `pos` is `f_pos`. A call under the mutex is one action, one on the static buffer several |
| `BarWindow` | the BAR; extends `FileBinding` | `bar` is `bar_address` with `bar_size`; `ChooseBar`, `ForgetBar`, `ChooseInVain` are the outcomes of INIT, `Map` is mmap |
| `FileSessions` | composes the three: open, INIT, STOP and close act on all of them | one action per file operation of each driver |
| `Vpd` | `vpd_read`, `vpd_write` | `flag`, `data` are the registers, `pending` what the device has not answered; one action per register access |
| `DeviceIds` | the predicates on device ids | operators, on an unsigned short |
| `DriverLoad` | init, exit, creation and destruction of the list; extends `DeviceIds` | `bus` is what `pci_get_device` walks over, `list` is `nnt_device_list`; `locks`, `nodes`, `cdevs`, `ready` say how far each device has come; one action per call that may fail. "oops" is a call of a user that meets what is not there, "stuck" an init or exit function that does |
| `...Proofs` | theorems of the module of that name | section 5 |
| `NntIoctlProofs` | theorems of `Vpd` and `DmaPages` | section 5 |
| `MC...` | the instances TLC checks | |

A "wrong variant" in a module is an operator no specification uses: the bug a
property is meant to catch, put in place of the operator below it to see
whether the property notices.

History variables record what the code does not: `robbed` (a holder whose
semaphore was cleared by another), `alone` (a transaction that has had the
registers to itself), `gaveUp` (a flag that never came), `smashed` (a read has
written behind `data[]`), `misused` (a RELEASE
of pages that were not got), `abused`, `excused`,
`denied`, `short`, `overlapped`, `leaked`, `lost`, `taker`, `told`, `void`,
`adrift`, `written`, `holed`, `raced`, `chosen`, `overruled`, `mapped`,
`clean`, `plugged`, `bogus`, `freedOpen`. They are what the properties speak of
or except, so each property names the circumstances in which the code's
promise fails.

The main abstractions:

* A ticket is an opaque value that differs from those in use: 32 bits do not
  wrap within an attempt. A dword offset is a small number, and addresses
  above `MaxAddr` are those of more than 30 bits.
* `READ4` and `WRITE4` of `mst_pciconf_bc.c` leave `address_space`
  uninitialised. The requests of the instance leave the space free; every
  request names one of its own.
* In `VsecGateway` and `DeviceAccess` what lies behind `data[]` is any value
  to a write. To a read it is the handler's frame: the handler then returns or
  not. Which of its locals are hit is not modelled.
* In `IoctlDispatch` the work under the lock is one step but for a page fault:
  the mutex makes it so, and the other modules look inside it. The threads are
  of one process, so its address space has one lock, of which only its use by
  mmap and by a fault matters. The history ends once INIT is used
  on a file that another thread is in a call on, or fails on a file that was
  bound: from there a call may unlock a mutex it does not hold, and the kernel
  leaves open what happens.
* In `DeviceAccess` a call comes only when creation is done, and one thread at
  a time works on an `nnt_device` (its mutex). VSEC transactions are one step
  that selects a space, and do not write the addresses that the accesses
  without a VSEC use. That the address/data window ignores or honours bit 0 is
  what the two orders in `write_no_vsec` and the `| 0x1` of `read_no_vsec`
  imply of the two kinds of device.
* `PpcReset` takes probes one after another, as for one bus without
  asynchronous probing.
* In `DmaPages` every GET asks for `Total` pages, at most the 8 that
  `page_address_array` has places for: past it the code writes over kernel
  memory (`nnt_dma.c:28`). RELEASE may be of any number; of more than the lists
  have it is taken to oops, where the code reads behind them. Memory that was
  freed is not reused: reading it gives `Wild`.
* In `FileSessions` a file runs one call at a time, and a call under the mutex
  is one step, as `IoctlDispatch` shows of such files. `pread` and `pwrite`,
  which do not move a file, are left out. The shift by a slot of 0 minus one,
  which C leaves open, is taken as clearing no bit of the mask. What
  a write stores is which cells it fills.
* In `Vpd` the device answers its requests in any order and at any time, or
  gives the register to another module's request first.
* In `DriverLoad` a device is its place in the list, and names are left out.
  The model ends at an oops, of a user's call or of the init or exit function.
  A `class_create` that fails gives an error pointer: the kernels with the
  class_create of two arguments that the code calls read through it in
  `device_destroy`, and `class_destroy` ignores it. A call on a file of a
  module that is gone may oops, and a close may still be lucky.

## 3. Runs

| Run | Instance | States | Checks |
|---|---|---|---|
| `vsec_semaphore` | 2 threads, 4 tickets, 1 retry, 2 failing accesses | thousands | exclusion with its exception, no stale acquire, only losers rob, refinement of `RevocableLock`, some attempt ends, a leak is recovered |
| `vsec_gateway` | 2 threads, 3 ioctls, 2 dwords, sizes that fit `data[]` and not, 1 failing access, 1 poll, symmetric | 1.0 million | only the size leaves `data[]`, integrity, what a positive result means, bodies end, refinement of `DwordMemory` |
| `gateway_length` | the same | | violated: a length returned means data transferred |
| `ioctl_dispatch` | 2 threads, 2 files on one minor, 2 devices, all drivers | 0.15 million | work under the right lock, only the holder unlocks, nothing stays locked, calls return unless an mmap and a page fault block each other |
| `device_access` | 2 `nnt_device`s of one function (one of `mstflint_access`, one of `mst_pciconf`), 3 spaces probed and 2 reported, 4 devices, 2 calls with a VSEC and 3 without, 1 failing access of the semaphore and 1 other failure | 1.2 million | demotion and denial have a cause, mask and flags are right, accesses without a VSEC are right when alone, and implement `DwordMemory` |
| `ppc_reset` | 3 listed devices in 2 slots, 1 not listed, 1 failure, 1 removal | 8 thousand | saved before reset, all found, polled, left in reset only by an error, probe returns |
| `ppc_unpolled` | 2 cards of one model | | violated: every device is waited for |
| `dma_pages` | 2 users, buffers of 3 pages that share one, 3 GETs, 1 failure, RELEASEs of 0 to 4 pages | 3.6 million | answers map pages, only pages of users that are gone or that a release left out stay pinned, no oops without a cause |
| `dma_rounds` | no failures | | violated: every page is answered |
| `file_sessions` | 2 files, 2 devices, all drivers, 3 slots, a buffer of 2 bytes, 3 BARs of which one is empty, symmetric in the files | 0.8 million | slots have one owner and do not outlive it, number and mask agree, reads return what was written, mmap maps what was chosen |
| `vpd` | 2 kernel modules, 2 addresses, 2 values | 0.4 million | a call that returns 0 has transferred its data, calls end |
| `driver_load` | 3 functions (a ConnectX-5, a Quantum, one not served) in any order, all drivers, any failure | 9 thousand | nothing is left behind, minors are reserved, what a failed load or `class_create` destroys wrongly and no other, which calls find no callback |

Why the bounds suffice. Two threads are enough to rob and be robbed, and the
case of a third needs a robber robbed in turn, which the proofs cover for any
number. Tickets are as many as can be in use, and one more per thread. One
retry or poll reaches both "again" and "no more"; two dwords distinguish the
first, on which the count is 0, from a later one; three pages make rounds of
1+1+1, 1+2 and 2+1. A `size` of 5 bytes only begins its second dword, one of 8
with a `data[]` of one dword leaves it; a RELEASE of 0 to 4 pages is of none,
of fewer, of as many and of more than the 3 that were got. Two failures in
`vsec_semaphore` let a clear fail and the thread that recovers fail too;
elsewhere one failure reaches each error path. The calls of `device_access` are
a report on each side where there is a VSEC, and an INIT and an access beside
another access where there is none. Where there is one an access only selects
its space, and the requests differ in what may happen when it ends; the
constraint `WithVsecUnfit` keeps the one whose size does not fit, to which all
of it may happen.

In `file_sessions` a behaviour mixes INIT, STOP, open and close with one of
slots, transfers and mmap (`MCWorkloads`). These are fields of their own of a
device and a file, and no action reads those of two, so a mix of them reaches
no new state of either. Two devices are what INIT can move a file between;
transfers use one, beside the static buffer. Three slots and a device that has
one leave the search two more to find. A buffer of two bytes has a beginning,
an end and a gap. `FSTypeOK` is checked because it is where the buffer ends.

Type invariants that a theorem proves and no hazard is about (`TypeOK` of
`VsecSemaphore`, `IoctlDispatch` and `PpcReset`, `GwTypeOK`, `VpdTypeOK`,
`DmaTypeOK`, `DATypeOK`, `LoadTypeOK`) are not listed in the runs; each can be
added to its configuration and holds there. Neither is `LegacyOverruns` of
`DeviceAccessProofs`, which says of the loops without a VSEC what
`OnlySizeOverruns` says of those of the gateway and is proved. Neither is
`OnlyAskedIsStored` of `VsecGateway`, which `RefinesDwordMemory` contains:
while the promise holds for a transaction, the memory changes by `StoreDword`
alone.

Deadlock is not checked where the model really stops: when the bound on calls,
GETs or removals is used up, at an oops, after an abuse of INIT, where an mmap
and a page fault wait for each other. It is checked
in `vsec_semaphore`.

### What the violated properties show

* `error = counter` is 0 for the first dword, and the handler answers with the
  full length (`nnt_pci_conf_access.c:266`, `mst_pciconf_bc.c:350`).
* The second of two devices of one model is not waited for
  (`mst_ppc_pci_reset.c:50`).
* A buffer pinned in several rounds is answered wrongly (`nnt_dma.c:18`, 96).

What else the code does that its author may not have meant is in the
exceptions of the properties that hold, each with its history variable: a
thread that failed to lock clears the semaphore of the one that holds it
(`robbed`); the buffer read of `mst_main.c` has no `break` at line 166
(`Rerun`); STOP leaves bound files at work (`Disable`); a close gives the slot
of another file back, and a second request is answered from the stack
(`void`); INIT leaves a slot behind (`adrift`), a gap in the buffer (`holed`)
and other files with a BAR they did not choose (`overruled`); a VPD answer
comes after its timeout (`clean`); a load of an MFT module that fails leaves
its major number registered (`NothingLeftBehind`); a failed load of
`mst_main.c` deletes character devices that were never added (`bogus`) and
frees devices and code under open files (`freedOpen`); a `class_create` that
failed is noticed only by the `device_destroy` of the unload, which reads
through its error pointer (`DestroyIsClean`); and calls may come before the
callbacks (`CallsFindCallbacks`). The user's `size` is not compared with
`data[]` (`OnlySizeOverruns`, `Reliant`, `Trusted`), and `total_pages` of a
RELEASE with nothing (`misused`). A transaction that fails before its loop
returns a positive PCIBIOS code, which a caller cannot tell from a byte count
(`ErrorCountsTransferred`). And an mmap of `mst_pci`, which has the address
space locked and waits for the mutex of a device, waits for ever if a call of
the same process that holds the mutex meets a page fault when it copies to or
from the user (`Knotted`): TLC finds both orders of the two locks, and
`CallsReturn` that there is no other deadlock.

## 4. Fairness

* `VsecSemaphore!FairSpec`: a thread inside the driver takes its next step.
  The code runs in process context with no lock on this path but the bounded
  retries, so the scheduler gives it that. Nothing obliges a thread to start,
  or a config access to fail or not to. One thread may starve (a lost race does
  not count as a retry), so only progress of some thread is claimed.
* `IoctlDispatch!FairSpec`: the same, and strong fairness of `Acquire` and
  `PageIn`: a kernel mutex, and the lock of an address space, hands over to its
  waiters. A body ends because transactions do (`BodyDescends`).
* `PpcReset!FairSpec`: the probing thread goes on. No device need recover.
* `Vpd!FairSpec`: a thread inside the driver goes on, and the device answers
  what it was asked. No timeout is obliged to expire, since `nnt_vpd.timeout`
  is not initialised and may be weeks.
* The others check safety only and assume no fairness.

`BodyDescends` is the termination of a transaction as an action property:
every step of a body decreases a bounded count, so it needs no fairness and
counts on no answer from the device.

## 5. Theorems

All hold for every value of the constants, under the assumptions named in the
modules: tickets differ from zero and the bounds are naturals
(`FreeAssumption`, `BoundsAssumption`); there are values, `MaxAddr` and the
bounds are naturals, the errors of config space accesses are positive, the
requests have their types, and those that are no buffer commands are of one
dword (`GatewayAssumption`); each file has a minor number and `None` is no
thread, file, device or minor (`DispatchAssumption`); the lists of spaces to
probe are not empty, the required spaces are among them, and a model says
whether it has a VSEC (`AccessAssumption`; the size and the offset of a request
are free); no device has the id that one reads which does not respond, and the
bounds are naturals (`PpcAssumption`); a buffer has pages, and the null pointer
and what is read from freed memory are none of them (`DmaAssumption`); `None`
is no file, device or BAR, there is a slot, and a buffer has a size
(`BindingAssumption`, `SlotAssumption`, `BufferAssumption`, `BarAssumption`,
`WorkloadAssumption`); the functions are finitely many and have device ids of
16 bits (`LoadAssumption`). `Vpd` needs no assumption. TLC evaluates all of
them on the instances of section 3.

* `VsecSemaphoreProofs`. Exclusion is not inductive: it needs that a thread
  that was not robbed has its ticket in the semaphore (`OwnTicketWhileHeld`),
  which needs that tickets are unique (`TicketsUnique`), that a claim can only
  enter a free semaphore, and that a thread that polls never has a claim of
  its own there (`NoStaleClaim`), without which "continue" could end the loop.
  From `IInv` follow `TypeCorrect`, `Exclusion`, `NoStale`, `LosersRob` and,
  action by action, `Refinement` of `RevocableLock`.
* `VsecGatewayProofs`. Every step of the gateway is a step of the semaphore or
  leaves it alone (`GatewayUsesSemaphore`), so exclusion holds of it
  (`GatewayExclusion`). The invariant `GwInv` adds two parts for each client.
  `Local` is what its own variables say at each stage, whoever else is there;
  from it follow the types (`GatewayTypes`, in which a count is within the
  user's size), that only such a size leads behind `data[]`
  (`OverrunsAreAsked`), what a positive result means (`ErrorsCount`) and the
  termination argument (`Descends`), since each step of a body leads to a lower
  stage, poll or dword. `Sole` is what the registers hold for a client that has
  been alone since it locked and was answered in time: its space from the
  moment it selected it, the dword it is at while the device is busy
  (`InFlight`), and from the answer on the dword the device has served
  (`Served`), so that the places of the dwords counted agree with the buffer
  (`Agrees`). `InFlight` is what makes it inductive: without it a device that
  answers late could store anywhere. Hence `TransfersAreIntact`,
  `OnlyAskedStored` and, step by step, `GatewayIsMemory`: the transaction of
  the one client in `Reliant` (alone, answered, of a size that fits) is that of
  `DwordMemory`, the answer of the device its `StoreDword`, the flag a writer
  sees its `CountDword`, the data register a reader fetches its `ReadDword`.
  The promise ends when a second client holds or a flag does not come.
* `IoctlDispatchProofs`. `IInv` says that the three reads of `private_data` in
  a call agree (`Steady`), because no other call on the same file changes it
  (`Apart`), and that mutexes are held exactly between lock and unlock
  (`Held`). It gives `TypeCorrect`, `LockedWork`, `NothingLeftLocked` and
  `HolderUnlocks`.
* `DeviceAccessProofs`. Probing uses the semaphore protocol
  (`AccessUsesSemaphore`: failures outside the semaphore have a count of their
  own, so that each step is a step of `VsecSemaphore` or leaves it alone). The
  mask, the flags, the demotion and the denial are right (`RealSupport`,
  `CausedDemotion`, `CausedDenial`) because a probe that was not excused reads
  the status of the space it selected (`Selected`), and has put in the mask, or
  in the flags, what it has learnt so far (`Learning`), and only a thread in
  the middle of the probe can be at one (`Place`). What is known of one
  `nnt_device` survives the steps of the others (`OthersKnown`), which may only
  excuse it. Accesses without a VSEC have the invariant `LegacyInv`: whoever is
  in `alone` is the only one in the middle of an access or of `is_wo_gw`
  (`Sole`), has its registers set and its callbacks chosen (`Use`), and finds
  between the two register accesses of a dword what the first one left
  (`Between`), in both orders; so the dwords counted are right (`Right`), which
  is `LegacyAccessIntact`. That only the user's size leads behind `data[]`
  follows from the types alone (`OverrunsAreAsked`). With the types
  (`TypesInvariance`, `AccessTypes`) this gives `LegacyIsMemory`: the access of
  the one in `Trusted` is a transaction of `DwordMemory`, whose step is the
  second register access of each dword (`SecondRegister`) while the first is a
  stutter (`FirstRegister`). An `nnt_device` that does not use the registers
  leaves them alone (`RegistersKept`), and one that begins to ends the promise.
* `PpcResetProofs`. `Progress` says what each loop of `pci_devices_reset`
  leaves to the next: after the first, every entry is a device that is saved
  (`Saved`). `Counted` says that the count is the number of positions whose
  device is there, so that it reaches the length of the list only with all of
  them (`Complete`), which counts positions with the theorems on finite sets.
  `InReset` says that a slot in reset is one the loops have passed
  (`LeftInReset`), and `Waited` where the id that the poll holds comes from
  (`Polled`).
* `FileSessionsProofs`. The slots, the BAR and the buffers share only the
  bindings (`AlwaysBound`), so each has an inductive invariant of its own.
  Slots: a device has the first slot or none (`FirstSlotOnly`), because the
  search is made only when the number is 0 and the mask is then empty, and an
  answer that is not void names the slot of its taker (`AnswersStand`); from
  these `SlotsExclusive`, `NoSlotOrphaned` and `MasksAgree`. BAR: a choice that
  is not overruled is the BAR of the device the file is still bound to
  (`ChoiceStands`), hence `ChosenBarMapped`. Buffers: under the mutex
  `buffer_used` is exact (`Exact`); of the static buffer a cell that is written
  lies below it or below the position of a write still on its way
  (`StaticExact`), hence `BuffersExact`.
* `NntIoctlProofs`. VPD: a call that has had the registers to itself is the
  only one with a request pending, so the flag it waits for answers it and
  nobody else (`Undisturbed`), hence `Transferred`. DMA: `DmaInv` says which
  places of the user's buffer are pinned and mapped at each point of the two
  loops (`PinnedPlaces`, `MappedPlaces`), that the lists hold the pages of
  those places (`Listed`, and for a buffer pinned at once the answer too,
  `AtOnce`), and that, as long as no GET failed or overlapped another and no
  RELEASE was misused, each pin and each mapping of a page is for one of these
  places, for a user that has gone or for one that left it out of its release
  (`Accounted`). The lists never name a page more often than the kernel
  holds it, whatever failed or was misused (`Backed`), so that the counts stay
  natural numbers and within their bound (`Bounded`, `DmaTypes`). Counting
  places rests on the theorems on finite sets. From `DmaInv` follow
  `AnswersAreMapped`, `ReleasesFree` and `OopsesAreCaused`.
* `DriverLoadProofs`. Devices are made in the order of the list, each with its
  mutex before its character device and that before its callbacks (`InOrder`);
  the numbers are there from `alloc_chrdev_region` to the end (`Numbered`);
  what was destroyed wrongly was destroyed by a load that failed, from the
  device it was making on (`Destroyed`); and a file is open on a device that
  there is, or on one that a failed load has freed (`Bound`). It gives
  `NothingLeft`, `MinorsReserved`, `CleanDestruction` and, step by step,
  `CallbacksFound`. `LoadTypes` adds that the bus has each function once, so
  that its length, and with it every number counted or handed out, is bounded
  by how many functions there are (`Limits`). `PcicrIsPciconf` and
  `LivefishHasNoMemory` are about all device ids: a device of `mst_pci` is one
  of `mst_pciconf` as well, and the exception for devices in recovery excludes
  nothing.

Only model-checked: the properties that need fairness (`SomeAttemptEnds`,
`LeakRecovered`, `CallsReturn`, `ProbeReturns`, `VpdCallsEnd`), since liveness
is out of the prover's reach. Every other property of a passing run is the
statement of a theorem.

## 6. Plan

Done, in this order: the semaphore with its abstract lock, the gateway on top
of it, the dispatch, creation and access, DMA pages, the reset; then the file
sessions (slots, buffers, BAR), VPD, load and unload, the report of
parameters, and the proofs of all of these; then the integrity of transfers
with and without a VSEC, the accounting of DMA pages, the abstract memory that
both kinds of access implement, and the types of all modules. Left:

1. Files with several calls at once in `FileSessions`, on top of the step by
   step calls of `IoctlDispatch`.
2. The termination of `pci_devices_reset` as an action property, as
   `BodyDescends` is that of a transaction: a bound on the steps of a probe
   that needs no fairness and can be proved.
3. An abstract specification of the slots, one owner for each, that
   `FileSessions` implements as long as no answer is void.

## 7. Not modelled

* The memory callbacks (`nnt_memory_access.c`): byte order and I/O, and nothing
  calls them in the drivers built here.
* The ioctls that only copy what is known of a device to user space
  (`PCI_PARAMS`, `PCICONF_DMA_PROPS`, the rest of `MST_PARAMS`).
* The names of device files (`nnt_device.c` 116-144): no property is about one.
  The debug line at `nnt_device.c:494`, which reads the id through
  a pointer that is null by then if dynamic debug is on.
* Lifetime of `struct pci_dev`: the references that `pci_get_slot` takes, and a
  function that is unplugged while a device points to it.
* `nnt_linux_driver_main.c` (in no Makefile, and it does not compile against
  the rest), packaging and scripts.
* Permission checks on the mode of a file return before any state is touched.
