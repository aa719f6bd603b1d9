---------------------------- MODULE FileBinding ----------------------------
(***************************************************************************)
(* Which nnt_device each open file of one device node is bound to.         *)
(* IoctlDispatch shows, step by step, that a call works under the mutex of *)
(* the device it uses.  The modules built on this one take a call on a     *)
(* bound file as one step, for files that run one call at a time.          *)
(***************************************************************************)
CONSTANTS
  Files,
  Devices,
  None,
  Drivers,     \* subset of "pciconf", "pci" and "mstflint"
  Workloads    \* what the users of a run do: calls, devices and bars

ASSUME BindingAssumption == None \notin Devices \cup Files

VARIABLES
  driver,    \* the kernel module whose file operations these are
  users,     \* the workload
  open,
  private,   \* private_data of each file, None for a null pointer
  enabled    \* the devices with device_enabled

bindVars == <<driver, users, open, private, enabled>>

IsMft == driver # "mstflint"

BindTypeOK ==
  /\ driver \in Drivers
  /\ users \in Workloads
  /\ open \subseteq Files
  /\ private \in [Files -> Devices \cup {None}]
  /\ enabled \subseteq Devices

BindInit ==
  /\ driver \in Drivers
  /\ users \in Workloads
  /\ open = {}
  /\ private = [f \in Files |-> None]
  /\ enabled = IF IsMft THEN {} ELSE Devices

\* set_private_data_open.  MFT has one node: a device that INIT gave its
\* minor is bound if it is enabled.  MSTFlint has a node for each device.
BindOnOpen(f) ==
  /\ f \notin open
  /\ open' = open \cup {f}
  /\ \/ enabled = {} /\ UNCHANGED private
     \/ \E d \in enabled : private' = [private EXCEPT ![f] = d]
  /\ UNCHANGED <<driver, users, enabled>>

\* set_private_data_bc, when it finds the device.
Rebind(f, d) ==
  /\ f \in open
  /\ private' = [private EXCEPT ![f] = d]
  /\ enabled' = enabled \cup {d}
  /\ UNCHANGED <<driver, users, open>>

\* destroy_nnt_device_bc: only later opens see it.
Disable(d) ==
  /\ enabled' = enabled \ {d}
  /\ UNCHANGED <<driver, users, open, private>>

\* The last reference to the file is gone.
Unbind(f) ==
  /\ f \in open
  /\ open' = open \ {f}
  /\ private' = [private EXCEPT ![f] = None]
  /\ UNCHANGED <<driver, users, enabled>>
============================================================================
