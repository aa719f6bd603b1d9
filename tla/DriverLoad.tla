----------------------------- MODULE DriverLoad ----------------------------
(***************************************************************************)
(* Loading and unloading the kernel modules: the init and exit functions   *)
(* of mst_main.c, mst_pciconf_bc.c and mst_pci_bc.c over                   *)
(* create_nnt_devices, create_devices, create_device_file and              *)
(* destroy_nnt_devices of nnt_device.c, while functions are hot-plugged    *)
(* and users open and call devices that are already visible.               *)
(*                                                                         *)
(* mst_main.c has a node, a minor number and a cdev for each device; the   *)
(* MFT modules register one major number, and INIT finds a device in the   *)
(* list.  An nnt_device is its place in the list here.                     *)
(***************************************************************************)
EXTENDS DeviceIds, Sequences, FiniteSets

CONSTANTS
  Functions,   \* PCI functions of the vendor
  Id,          \* the device id of each
  Kinds        \* subset of "mstflint", "mst_pciconf" and "mst_pci"

ASSUME LoadAssumption == IsFiniteSet(Functions) /\ Id \in [Functions -> Ids]

VARIABLES
  kind,
  bus,       \* the functions, in the order pci_get_device gives them
  pc,
  counted,   \* contiguous_device_numbers
  region,    \* the minor numbers 0..counted-1 are reserved
  class,     \* class_driver: "none", "made", or an error pointer
  chrdev,    \* register_chrdev has succeeded
  scanned,   \* how much of the bus the search for devices has seen
  list,      \* nnt_device_list: the function of each nnt_device
  minor,     \* the next minor number
  error,
  locks, nodes, cdevs, ready,  \* the devices with an initialised mutex, a
             \* device node, an added cdev, and their access callbacks
  opened,    \* the devices with an open file
  plugged,   \* history: a function came after they were counted
  bogus,     \* history: the devices whose cdev was deleted but never added
  freedOpen  \* history: an nnt_device was freed under an open file

kernelVars == <<region, class, chrdev>>
deviceVars == <<locks, nodes, cdevs, ready>>
history == <<plugged, bogus, freedOpen>>
vars == <<kind, bus, pc, counted, kernelVars, scanned, list, minor, error, deviceVars, opened,
          history>>

IsMft == kind # "mstflint"
Devices == DOMAIN list
Loading == {"count", "region", "class", "scan", "file", "wire", "undo"}
Gone == {"failed", "unloaded"}

\* The kernel has stopped a user's call, or the init or exit function itself.
Stopped == {"oops", "stuck"}

LoadTypeOK ==
  /\ kind \in Kinds
  /\ \A i \in DOMAIN bus : bus[i] \in Functions
  /\ pc \in Loading \cup Gone \cup Stopped \cup {"loaded"}
  /\ counted \in 0..Cardinality(Functions)
  /\ region \in BOOLEAN /\ class \in {"none", "made", "bad"} /\ chrdev \in BOOLEAN
  /\ scanned \in 0..Len(bus) /\ minor \in 0..Len(bus)
  /\ Len(list) <= scanned
  /\ error \in BOOLEAN
  /\ locks \cup nodes \cup cdevs \cup ready \subseteq Devices
  /\ opened \cup bogus \subseteq 1..Cardinality(Functions)
  /\ plugged \in BOOLEAN /\ freedOpen \in BOOLEAN

Init ==
  /\ kind \in Kinds
  /\ bus \in UNION {{s \in [1..n -> Functions] : \A i, j \in 1..n : i # j => s[i] # s[j]} :
                      n \in 0..Cardinality(Functions)}
  /\ pc = IF kind = "mstflint" THEN "count" ELSE "region"
  /\ counted = 0 /\ region = FALSE /\ class = "none" /\ chrdev = FALSE
  /\ scanned = 0 /\ list = <<>> /\ minor = 0 /\ error = FALSE
  /\ locks = {} /\ nodes = {} /\ cdevs = {} /\ ready = {}
  /\ opened = {}
  /\ plugged = FALSE /\ bogus = {} /\ freedOpen = FALSE

Plug(f) ==
  /\ \A i \in DOMAIN bus : bus[i] # f
  /\ pc \in Loading
  /\ bus' = Append(bus, f)
  /\ plugged' = (plugged \/ pc # "count")
  /\ UNCHANGED <<kind, pc, counted, kernelVars, scanned, list, minor, error, deviceVars, opened,
                 bogus, freedOpen>>

----------------------------------------------------------------------------
(* The numbers *)

\* Wrong variant: the walk over the bus leaves its first device out.
AmountShort == Len(bus) - 1

\* get_amount_of_nvidia_devices
Amount == Len(bus)

\* contiguous_device_numbers.  With none the load ends, in success.
Count ==
  /\ pc = "count"
  /\ counted' = Amount
  /\ pc' = IF counted' = 0 THEN "loaded" ELSE "region"
  /\ UNCHANGED <<kind, bus, kernelVars, scanned, list, minor, error, deviceVars, opened, history>>

\* alloc_chrdev_region: after a failure what is unregistered is the region of
\* number 0, which is none.
Region ==
  /\ pc = "region" /\ ~IsMft
  /\ \/ region' = TRUE /\ pc' = "class" /\ UNCHANGED error
     \/ pc' = "failed" /\ error' = TRUE /\ UNCHANGED region
  /\ UNCHANGED <<kind, bus, counted, class, chrdev, scanned, list, minor, deviceVars, opened,
                 history>>

\* class_create fails with an error pointer, which is not NULL.
Class ==
  /\ pc = "class"
  /\ class' \in {"made", "bad"}
  /\ pc' = "scan"
  /\ UNCHANGED <<kind, bus, counted, region, chrdev, scanned, list, minor, error, deviceVars,
                 opened, history>>

\* register_chrdev: the error is overwritten by what comes next.
Register ==
  /\ pc = "region" /\ IsMft
  /\ chrdev' \in BOOLEAN
  /\ pc' = "scan"
  /\ UNCHANGED <<kind, bus, counted, region, class, scanned, list, minor, error, deviceVars,
                 opened, history>>

----------------------------------------------------------------------------
(* The devices *)

Served(f) == IF kind = "mst_pci" THEN IsPcicr(Id[f]) ELSE IsPciconf(Id[f])

\* Where a load that fails goes on: the init functions of the MFT modules
\* return.
Failed == IF IsMft THEN "failed" ELSE "undo"

\* create_nnt_device for each function that pci_get_device returns.
Scan ==
  /\ pc = "scan" /\ scanned < Len(bus)
  /\ scanned' = scanned + 1
  /\ LET f == bus[scanned'] IN
       \/ /\ list' = IF Served(f) THEN Append(list, f) ELSE list
          /\ UNCHANGED <<pc, error>>
       \/ Served(f) /\ pc' = Failed /\ error' = TRUE /\ UNCHANGED list
  /\ UNCHANGED <<kind, bus, counted, kernelVars, minor, deviceVars, opened, history>>

\* Whether the list is walked to its end: create_nnt_devices returns the error
\* of create_devices.
EndOrNext(m, e) ==
  IF m < Len(list) THEN "file" ELSE IF e THEN Failed ELSE "loaded"

Scanned ==
  /\ pc = "scan" /\ scanned = Len(bus)
  /\ pc' = EndOrNext(0, FALSE)
  /\ UNCHANGED <<kind, bus, counted, kernelVars, scanned, list, minor, error, deviceVars, opened,
                 history>>

Current == minor + 1

\* create_device_file.  device_create does not return NULL when it fails, as
\* it does without a class; cdev_add may fail too.
DeviceFile ==
  /\ pc = "file"
  /\ locks' = locks \cup {Current}
  /\ \/ IsMft /\ pc' = "wire" /\ UNCHANGED <<nodes, cdevs, error>>
     \/ /\ ~IsMft
        /\ \/ class = "made" /\ nodes' = nodes \cup {Current}
           \/ UNCHANGED nodes
        /\ \/ cdevs' = cdevs \cup {Current} /\ pc' = "wire" /\ UNCHANGED error
           \/ pc' = "undo" /\ error' = TRUE /\ UNCHANGED cdevs
  /\ UNCHANGED <<kind, bus, counted, kernelVars, scanned, list, minor, ready, opened, history>>

\* Wrong variant: the callbacks of a memory device are left out.
WiredPciconf(d) == IF kind = "mst_pci" THEN {} ELSE {d}

\* The access callbacks are set, whatever the type of the device.
Wired(d) == {d}

\* The rest of create_devices for a device: the callbacks, the probe of the
\* VSEC, whose error ends the walk, and for mst_main.c access.init, whose
\* error the next device overwrites.
Wire ==
  /\ pc = "wire"
  /\ ready' = ready \cup Wired(Current)
  /\ \/ /\ kind # "mst_pci"
        /\ pc' = Failed /\ error' = TRUE
        /\ UNCHANGED minor
     \/ \E e \in (IF IsMft THEN {FALSE} ELSE BOOLEAN) :
          /\ error' = e
          /\ minor' = minor + 1
          /\ pc' = EndOrNext(minor', error')
  /\ UNCHANGED <<kind, bus, counted, kernelVars, scanned, list, locks, nodes, cdevs, opened,
                 history>>

----------------------------------------------------------------------------
(* The end *)

\* destroy_nnt_devices: every entry of the list is freed, and mst_main.c
\* deletes its cdev, also one that was never added.
Destroy ==
  /\ list' = <<>>
  /\ locks' = {} /\ nodes' = {} /\ cdevs' = {} /\ ready' = {}
  /\ bogus' = IF IsMft THEN bogus ELSE bogus \cup (Devices \ cdevs)
  /\ freedOpen' = (freedOpen \/ opened # {})
  /\ UNCHANGED plugged

\* device_destroy looks for the node in the class, which may be an error
\* pointer: the kernels with this class_create read through it.
BadPointer == ~IsMft /\ class = "bad" /\ list # <<>>

\* Between the cdev_del of the first entry and its list_del.
DestroyOops ==
  /\ BadPointer
  /\ pc' = "stuck"
  /\ cdevs' = cdevs \ {1} /\ bogus' = bogus \cup ({1} \ cdevs)
  /\ UNCHANGED <<kernelVars, list, locks, nodes, ready, plugged, freedOpen>>

\* Wrong variant: the region stays.
ReleaseClassOnly == class' = "none" /\ UNCHANGED <<region, chrdev>>

ReleaseNumbers == class' = "none" /\ region' = FALSE /\ chrdev' = FALSE

DestroyAll(end) == ~BadPointer /\ Destroy /\ ReleaseNumbers /\ pc' = end

\* The goto chain of mst_main.c.
Undo ==
  /\ pc = "undo"
  /\ DestroyAll("failed") \/ DestroyOops
  /\ UNCHANGED <<kind, bus, counted, scanned, minor, error, opened>>

\* Wrong variant: the file operations name no owner.
HeldByNone == FALSE

\* The file operations name their module: an open file holds it.
Held == opened # {}

\* The exit functions.
Unload ==
  /\ pc = "loaded" /\ ~Held
  /\ DestroyAll("unloaded") \/ DestroyOops
  /\ UNCHANGED <<kind, bus, counted, scanned, minor, error, opened>>

----------------------------------------------------------------------------
(* Users, from the moment a device can be reached *)

\* The devices that a user's open, and for MFT INIT, can bind a file to.
Reachable == IF IsMft THEN (IF chrdev THEN Devices ELSE {}) ELSE cdevs

\* open, and for MFT INIT, which locks the device and calls access.init.
Open(d) ==
  /\ d \in Reachable \ opened /\ pc \notin Stopped
  /\ opened' = opened \cup {d}
  /\ pc' = IF IsMft /\ (pc = "failed" \/ d \notin locks \cap ready) THEN "oops" ELSE pc
  /\ UNCHANGED <<kind, bus, counted, kernelVars, scanned, list, minor, error, deviceVars, history>>

\* An ioctl that accesses the device, where its callbacks are missing, or its
\* nnt_device or the code of the module has been freed: a load that fails
\* frees the module whoever holds it.
Access(d) ==
  /\ d \in opened /\ pc \notin Stopped
  /\ pc = "failed" \/ d \notin ready
  /\ pc' = "oops"
  /\ UNCHANGED <<kind, bus, counted, kernelVars, scanned, list, minor, error, deviceVars, opened,
                 history>>

\* The release handler, which may still be there to be run after it was freed.
Close(d) ==
  /\ d \in opened /\ pc \notin Stopped
  /\ \/ pc' = pc /\ opened' = opened \ {d}
     \/ pc = "failed" /\ pc' = "oops" /\ UNCHANGED opened
  /\ UNCHANGED <<kind, bus, counted, kernelVars, scanned, list, minor, error, deviceVars, history>>

Load == Count \/ Region \/ Class \/ Register \/ Scan \/ Scanned \/ DeviceFile \/ Wire \/ Undo

Next ==
  \/ Load \/ Unload
  \/ \E f \in Functions : Plug(f)
  \/ \E d \in 1..Cardinality(Functions) : Open(d) \/ Access(d) \/ Close(d)

Spec == Init /\ [][Next]_vars

----------------------------------------------------------------------------
(* Properties *)

\* A module that is gone, because its load failed or it was unloaded, has
\* left nothing in the kernel: no region, class, node, cdev or nnt_device, in
\* whatever step it failed.  Except an MFT module whose load failed: its
\* major number stays registered, with its list.
NothingLeftBehind ==
  pc \in Gone /\ ~(IsMft /\ pc = "failed") =>
    /\ ~region /\ class = "none" /\ ~chrdev
    /\ nodes = {} /\ cdevs = {} /\ list = <<>>

\* A cdev has a minor number of the region that was allocated, unless a
\* function was plugged in after they were counted.
MinorsAreReserved == cdevs # {} => region /\ (plugged \/ \A d \in cdevs : d <= counted)

\* A call finds the mutex and the callbacks of its device, and the code of
\* its module.  With mst_main.c there are two exceptions: a call on the
\* device that the load is just making, whose cdev comes before its
\* callbacks, and one on a file that a load had let in before it failed.
\* With the MFT modules it is every call until the load has ended, and after
\* it has failed.
CallsFindCallbacks ==
  [][pc' = "oops" => \/ IsMft /\ pc \in Loading \cup {"failed"}
                     \/ pc = "wire" /\ Current \in opened
                     \/ pc = "failed" /\ freedOpen]_vars

\* What is destroyed has been made, and nobody has it open.  A load that
\* fails breaks both: it deletes the cdevs of devices it had not come to or
\* was just making, and frees devices under open files.  A class_create that
\* failed breaks the destruction itself, which stops at the first device,
\* even after a load that succeeded.
DestroyIsClean ==
  /\ \A d \in bogus : error /\ d > minor
  /\ freedOpen => error
  /\ pc = "stuck" => class = "bad"
============================================================================
