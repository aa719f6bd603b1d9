--------------------------- MODULE IoctlDispatch ---------------------------
(***************************************************************************)
(* How the entry points of a character device find their nnt_device and    *)
(* take its mutex: open, ioctl, read and write of mst_pciconf_bc.c and     *)
(* mst_pci_bc.c, mmap of the latter, open, ioctl and release of mst_main.c,*)
(* over                                                                    *)
(* set_private_data_open, set_private_data_bc, get_nnt_device,             *)
(* mutex_lock_nnt and mutex_unlock_nnt of nnt_driver/nnt_device.c.         *)
(*                                                                         *)
(* file->private_data is read afresh by each of these helpers, and INIT    *)
(* changes it without holding a lock, so the device a call locks, the one  *)
(* it works on and the one it unlocks may differ.  The history variable    *)
(* "abused" records the uses of INIT after which they can.                 *)
(*                                                                         *)
(* The threads are of one process: mmap comes with the lock of its address *)
(* space, which a copy to or from the user takes when it meets a page that *)
(* is not there.                                                           *)
(***************************************************************************)
CONSTANTS
  Threads,
  Files,      \* open file structures; several threads may share one
  Devices,    \* entries of nnt_device_list
  Minors,
  MinorOf,    \* the minor number of each file's inode
  None,
  Drivers     \* subset of "pciconf", "pci" and "mstflint"

ASSUME DispatchAssumption ==
  /\ MinorOf \in [Files -> Minors]
  /\ None \notin Devices \cup Threads \cup Files \cup Minors

VARIABLES
  driver,    \* the kernel module whose file operations these are
  open,      \* the open files
  private,   \* private_data of each file
  minor,     \* device_minor_number
  enabled,   \* the devices with device_enabled
  holder,    \* who locked each device's mutex
  pc, cmd, file,
  want,      \* the device whose mutex a thread is about to take
  dev,       \* the local nnt_device of the entry point
  mapping,   \* who has the address space locked, for its mmap
  abused     \* history: INIT on a file in use, or a failed one on a bound file

vars == <<driver, open, private, minor, enabled, holder, pc, cmd, file, want, dev, mapping,
          abused>>
devVars == <<driver, minor, enabled>>

IsMft == driver # "mstflint"

Calls == {"ioctl", "INIT", "STOP", "readwrite", "mmap", "release"}

\* The calls that get their device before they lock it, and those that copy
\* to or from the user under the lock.
GetFirst == {"readwrite", "mmap"}
Copying == {"ioctl", "readwrite"}

\* The calls of the driver's file operations that take the lock.
Offered ==
  {"ioctl"} \cup (IF IsMft THEN {"INIT", "STOP", "readwrite"} ELSE {})
            \cup (IF driver = "pciconf" THEN {} ELSE {"release"})
            \cup (IF driver = "pci" THEN {"mmap"} ELSE {})

Steps == {"idle", "bind", "fetch", "lock", "wait", "get", "body", "fault", "unlock"}

TypeOK ==
  /\ driver \in Drivers
  /\ open \subseteq Files
  /\ private \in [Files -> Devices \cup {None}]
  /\ minor \in [Devices -> Minors \cup {None}]
  /\ enabled \subseteq Devices
  /\ holder \in [Devices -> Threads \cup {None}]
  /\ pc \in [Threads -> Steps]
  /\ cmd \in [Threads -> Calls \cup {None}]
  /\ file \in [Threads -> Files \cup {None}]
  /\ want \in [Threads -> Devices \cup {None}]
  /\ dev \in [Threads -> Devices \cup {None}]
  /\ mapping \in Threads \cup {None}
  /\ abused \in BOOLEAN
  /\ \A t \in Threads :
       /\ pc[t] = "wait" => want[t] # None
       /\ pc[t] \in {"body", "fault"} => dev[t] # None

\* create_device_file: only mst_main.c numbers and enables its devices.
Init ==
  /\ driver \in Drivers
  /\ open = {}
  /\ private = [f \in Files |-> None]
  /\ IF IsMft
     THEN minor = [d \in Devices |-> None] /\ enabled = {}
     ELSE /\ minor \in [Devices -> Minors] /\ enabled = Devices
          /\ \A d, e \in Devices : d # e => minor[d] # minor[e]
  /\ holder = [d \in Devices |-> None]
  /\ pc = [t \in Threads |-> "idle"]
  /\ cmd = [t \in Threads |-> None]
  /\ file = [t \in Threads |-> None]
  /\ want = [t \in Threads |-> None]
  /\ dev = [t \in Threads |-> None]
  /\ mapping = None
  /\ abused = FALSE

InUse(f) == \E t \in Threads : pc[t] # "idle" /\ file[t] = f

\* Nothing is said of what follows an abuse, and the model ends there.
At(t, step) == pc[t] = step /\ ~abused

Goto(t, step) == pc' = [pc EXCEPT ![t] = step]

\* The entry point returns, and its locals are gone.
Return(t) ==
  /\ Goto(t, "idle")
  /\ cmd' = [cmd EXCEPT ![t] = None]
  /\ file' = [file EXCEPT ![t] = None]
  /\ want' = [want EXCEPT ![t] = None]
  /\ dev' = [dev EXCEPT ![t] = None]
  /\ mapping' = IF mapping = t THEN None ELSE mapping

\* It returns at once, or goes on at step.
ReturnUnless(t, goesOn, step) ==
  \/ goesOn /\ Goto(t, step) /\ UNCHANGED <<cmd, file, want, dev, mapping>>
  \/ ~goesOn /\ Return(t)

----------------------------------------------------------------------------
(* open and close *)

\* set_private_data_open: the enabled device that has this minor, if any.
\* Several may, and the first on the list is taken.
Open(f) ==
  /\ f \notin open /\ ~abused
  /\ open' = open \cup {f}
  /\ LET found == {d \in enabled : minor[d] = MinorOf[f]} IN
       \/ found = {} /\ UNCHANGED private
       \/ \E d \in found : private' = [private EXCEPT ![f] = d]
  /\ UNCHANGED <<devVars, holder, pc, cmd, file, want, dev, mapping, abused>>

\* The last reference to the file goes.  The release of mst_main.c, and that
\* of mst_pci_bc.c for a device that has a ConnectX slot, lock the device
\* first (a call, below).
Close(f) ==
  /\ f \in open /\ ~abused
  /\ ~InUse(f)
  /\ IsMft
  /\ open' = open \ {f}
  /\ private' = [private EXCEPT ![f] = None]
  /\ UNCHANGED <<devVars, holder, pc, cmd, file, want, dev, mapping, abused>>

----------------------------------------------------------------------------
(* The calls *)

\* INIT of one thread while another is in a call on the same file.
Collides(f, k) ==
  \E u \in Threads : pc[u] # "idle" /\ file[u] = f /\ "INIT" \in {k, cmd[u]}

FirstStep == [INIT |-> "bind", readwrite |-> "fetch", mmap |-> "fetch", ioctl |-> "lock",
              STOP |-> "lock", release |-> "lock"]

Enter(t, f, k) ==
  /\ At(t, "idle") /\ f \in open
  /\ k = "release" => ~InUse(f) /\ (driver = "pci" => private[f] # None)
  /\ k = "mmap" => mapping = None
  /\ \A u \in Threads : pc[u] # "idle" /\ file[u] = f => cmd[u] # "release"
  /\ cmd' = [cmd EXCEPT ![t] = k]
  /\ file' = [file EXCEPT ![t] = f]
  /\ mapping' = IF k = "mmap" THEN t ELSE mapping
  /\ Goto(t, FirstStep[k])
  /\ abused' = (abused \/ Collides(f, k))
  /\ UNCHANGED <<open, private, devVars, holder, want, dev>>

Private(t) == private[file[t]]

\* set_private_data_bc takes no lock.  It gives the device the file's minor
\* and enables it.
Bind(t) ==
  /\ At(t, "bind")
  /\ \E d \in Devices :
       /\ minor' = [minor EXCEPT ![d] = MinorOf[file[t]]]
       /\ enabled' = enabled \cup {d}
       /\ private' = [private EXCEPT ![file[t]] = d]
  /\ Goto(t, "lock")
  /\ UNCHANGED <<driver, open, holder, cmd, file, want, dev, mapping, abused>>

\* A bad pointer, a bus or slot that is gone, or no such device.  The error
\* path of mst_pciconf_bc.c is the common one, which unlocks; mst_pci_bc.c
\* returns.
BindFails(t) ==
  /\ At(t, "bind")
  /\ ReturnUnless(t, driver = "pciconf", "unlock")
  /\ abused' = (abused \/ (driver = "pciconf" /\ Private(t) # None))
  /\ UNCHANGED <<open, private, devVars, holder>>

\* read, write and mmap get the device before they lock.  Without one, read
\* and write return, and mmap goes to its error path.
Fetch(t) ==
  /\ At(t, "fetch")
  /\ \/ /\ Private(t) # None
        /\ dev' = [dev EXCEPT ![t] = Private(t)]
        /\ Goto(t, "lock")
        /\ UNCHANGED <<cmd, file, want, mapping>>
     \/ Private(t) = None /\ ReturnUnless(t, cmd[t] = "mmap", "unlock")
  /\ UNCHANGED <<open, private, devVars, holder, abused>>

\* mutex_lock_nnt of a file without a device is an error, and the error path
\* unlocks (mst_pci_bc.c returns 0 instead).  mmap does not look at it.
LockUnbound(t) ==
  /\ At(t, "lock")
  /\ Private(t) = None
  /\ ReturnUnless(t, driver # "pci" \/ cmd[t] \in {"INIT", "mmap"},
                  IF cmd[t] = "mmap" THEN "body" ELSE "unlock")
  /\ UNCHANGED <<open, private, devVars, holder, abused>>

\* Wrong variant: a file without a device is not an error.
LockUnchecked(t) ==
  /\ At(t, "lock")
  /\ want' = [want EXCEPT ![t] = Private(t)]
  /\ Goto(t, "wait")
  /\ UNCHANGED <<open, private, devVars, holder, cmd, file, dev, mapping, abused>>

\* mutex_lock_nnt reads the device, and waits for its mutex.
LockBound(t) ==
  /\ At(t, "lock")
  /\ Private(t) # None
  /\ want' = [want EXCEPT ![t] = Private(t)]
  /\ Goto(t, "wait")
  /\ UNCHANGED <<open, private, devVars, holder, cmd, file, dev, mapping, abused>>

\* Wrong variant: a lock that may be interrupted, its result not looked at.
AcquireInterrupted(t) ==
  /\ At(t, "wait")
  /\ holder' = IF holder[want[t]] = None THEN [holder EXCEPT ![want[t]] = t] ELSE holder
  /\ Goto(t, IF cmd[t] \in GetFirst THEN "body" ELSE "get")
  /\ UNCHANGED <<open, private, devVars, cmd, file, want, dev, mapping, abused>>

\* mutex_lock returns.
Acquire(t) ==
  /\ At(t, "wait")
  /\ holder[want[t]] = None
  /\ holder' = [holder EXCEPT ![want[t]] = t]
  /\ Goto(t, IF cmd[t] \in GetFirst THEN "body" ELSE "get")
  /\ UNCHANGED <<open, private, devVars, cmd, file, want, dev, mapping, abused>>

\* Wrong variant: the device is looked up by the minor number again.
GetAnother(t) ==
  /\ At(t, "get")
  /\ \E d \in {e \in Devices : minor[e] = MinorOf[file[t]]} : dev' = [dev EXCEPT ![t] = d]
  /\ Goto(t, IF Private(t) = None THEN "unlock" ELSE "body")
  /\ UNCHANGED <<open, private, devVars, holder, cmd, file, want, mapping, abused>>

\* get_nnt_device, under the lock.
Get(t) ==
  /\ At(t, "get")
  /\ dev' = [dev EXCEPT ![t] = Private(t)]
  /\ Goto(t, IF Private(t) = None THEN "unlock" ELSE "body")
  /\ UNCHANGED <<open, private, devVars, holder, cmd, file, want, mapping, abused>>

\* The work on dev[t].  STOP disables the device, unless the walk over the
\* list meets a bus or slot that is gone.
Body(t) ==
  /\ At(t, "body")
  /\ \/ cmd[t] = "STOP" /\ enabled' = enabled \ {dev[t]}
     \/ UNCHANGED enabled
  /\ Goto(t, "unlock")
  /\ UNCHANGED <<driver, open, private, minor, holder, cmd, file, want, dev, mapping, abused>>

\* A copy to or from the user, under the mutex, meets a page that is not
\* there: the fault waits for the address space.
Fault(t) ==
  /\ At(t, "body") /\ cmd[t] \in Copying
  /\ Goto(t, "fault")
  /\ UNCHANGED <<open, private, devVars, holder, cmd, file, want, dev, mapping, abused>>

PageIn(t) ==
  /\ At(t, "fault")
  /\ mapping = None
  /\ Goto(t, "unlock")
  /\ UNCHANGED <<open, private, devVars, holder, cmd, file, want, dev, mapping, abused>>

\* Wrong variant: the error paths return without unlocking.
UnlockForgotten(t) ==
  /\ At(t, "unlock")
  /\ Return(t)
  /\ UNCHANGED <<open, private, devVars, holder, abused>>

\* mutex_unlock_nnt: whatever the file's device is now, and whoever locked
\* it.  A release also ends the file.
Unlock(t) ==
  /\ At(t, "unlock")
  /\ holder' = IF Private(t) = None THEN holder ELSE [holder EXCEPT ![Private(t)] = None]
  /\ IF cmd[t] = "release"
     THEN open' = open \ {file[t]} /\ private' = [private EXCEPT ![file[t]] = None]
     ELSE UNCHANGED <<open, private>>
  /\ Return(t)
  /\ UNCHANGED <<devVars, abused>>

Progress(t) ==
  \/ Bind(t) \/ BindFails(t) \/ Fetch(t) \/ LockUnbound(t) \/ LockBound(t)
  \/ Get(t) \/ Body(t) \/ Fault(t) \/ Unlock(t)

Next ==
  \/ \E f \in Files : Open(f) \/ Close(f)
  \/ \E t \in Threads :
       \/ \E f \in Files, k \in Offered : Enter(t, f, k)
       \/ Progress(t)
       \/ Acquire(t) \/ PageIn(t)

Spec == Init /\ [][Next]_vars

\* A thread in the driver runs on, and a kernel mutex, or an address space,
\* that is freed again and again is handed to each thread that waits for it.
FairSpec ==
  Spec /\ \A t \in Threads : WF_vars(Progress(t)) /\ SF_vars(Acquire(t)) /\ SF_vars(PageIn(t))

----------------------------------------------------------------------------
(* Properties *)

\* Until INIT is abused, a thread at work on a device has that device's
\* mutex: the lock and the local pointer, two separate reads of
\* private_data, agree.  So no two threads work on one device.
WorksUnderItsLock ==
  \A t \in Threads : pc[t] \in {"body", "fault"} /\ ~abused => holder[dev[t]] = t

\* Until INIT is abused, only the thread that locked a mutex unlocks it.
OnlyHolderUnlocks ==
  [][\A d \in Devices, t \in Threads :
       holder[d] = t /\ holder'[d] # t /\ ~abused => pc[t] = "unlock" /\ pc'[t] = "idle"]_vars

\* Until INIT is abused, no call leaves a mutex locked behind it, on any of
\* its error paths.
NoLockLeftBehind ==
  \A d \in Devices, t \in Threads : holder[d] = t /\ ~abused =>
    pc[t] \in {"get", "body", "fault", "unlock"}

\* A thread that has locked a device waits for its address space, which is
\* locked by an mmap that waits for the device.
Knotted ==
  \E t, u \in Threads :
    pc[t] = "fault" /\ mapping = u /\ pc[u] = "wait" /\ holder[want[u]] = t

\* Every call returns, unless INIT is abused, or an mmap and a page fault of
\* the same process wait for each other: this is the only deadlock, though
\* the calls contend for the mutexes of the devices and an address space.
CallsReturn ==
  <>abused \/ <>Knotted \/ \A t \in Threads : pc[t] # "idle" ~> pc[t] = "idle"
============================================================================
