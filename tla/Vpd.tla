-------------------------------- MODULE Vpd --------------------------------
(***************************************************************************)
(* vpd_read and vpd_write of nnt_driver/nnt_ioctl.c, called from the       *)
(* VPD_READ4 and VPD_WRITE4 cases of mst_pciconf_bc.c and mst_main.c.      *)
(*                                                                         *)
(* The VPD capability of a PCI function is an address register with a flag *)
(* and a data register.  A kernel module runs one call at a time on its    *)
(* nnt_device; two modules that serve the same function share nothing but  *)
(* these registers.  nnt_vpd.timeout is not set before it is tested: the   *)
(* poll is as long as the stack says, and may end at any time or never.    *)
(***************************************************************************)
CONSTANTS
  Clients,     \* kernel modules with an nnt_device for the function
  Addresses,
  Values

VARIABLES
  store,     \* the VPD of the device
  flag,      \* the F bit of the address register
  data,      \* the data register
  pending,   \* the requests the device has not answered: it may still do so
             \* when a later one has been made
  pc, op, address,
  value,     \* nnt_vpd.data
  clean      \* history: no client has touched the registers since this call
             \* began, and no earlier request was pending then

deviceVars == <<store, flag, data, pending>>
callVars == <<op, address, value>>
vars == <<deviceVars, pc, callVars, clean>>

Ops == {"read", "write"}

VpdTypeOK ==
  /\ store \in [Addresses -> Values]
  /\ flag \in BOOLEAN /\ data \in Values
  /\ pending \subseteq Ops \X Addresses
  /\ pc \in [Clients -> {"idle", "data", "address", "poll", "fetch", "done"}]
  /\ op \in [Clients -> Ops] /\ address \in [Clients -> Addresses]
  /\ value \in [Clients -> Values]
  /\ clean \in [Clients -> BOOLEAN]

Init ==
  /\ store \in [Addresses -> Values]
  /\ flag = FALSE /\ data \in Values
  /\ pending = {}
  /\ pc = [c \in Clients |-> "idle"]
  /\ op = [c \in Clients |-> "read"]
  /\ address \in [Clients -> Addresses] /\ value \in [Clients -> Values]
  /\ clean = [c \in Clients |-> FALSE]

Goto(c, step) == pc' = [pc EXCEPT ![c] = step]

\* A register access by c: nobody else is alone any more.
Touch(c) == clean' = [d \in Clients |-> clean[d] /\ d = c]

----------------------------------------------------------------------------

\* VPD_READ4 and VPD_WRITE4, past the checks of the capability and the copy
\* from user space.
Call(c) ==
  /\ pc[c] = "idle"
  /\ \E k \in Ops, a \in Addresses, v \in Values :
       /\ op' = [op EXCEPT ![c] = k]
       /\ address' = [address EXCEPT ![c] = a]
       /\ value' = [value EXCEPT ![c] = v]
       /\ Goto(c, IF k = "read" THEN "address" ELSE "data")
  /\ clean' = [clean EXCEPT ![c] = pending = {}]
  /\ UNCHANGED deviceVars

WriteData(c) ==
  /\ pc[c] = "data"
  /\ data' = value[c]
  /\ Touch(c)
  /\ Goto(c, "address")
  /\ UNCHANGED <<store, flag, pending, callVars>>

\* Wrong variant: the flag is left as it is.
FlagKept(c) == flag

\* The flag that asks for a write, or clears that of the last read.
FlagAsked(c) == op[c] = "write"

WriteAddress(c) ==
  /\ pc[c] = "address"
  /\ flag' = FlagAsked(c)
  /\ pending' = pending \cup {<<op[c], address[c]>>}
  /\ Touch(c)
  /\ Goto(c, "poll")
  /\ UNCHANGED <<store, data, callVars>>

\* Wrong variant: both calls wait for the flag to be set.
AnsweredIfSet(c) == flag

Answered(c) == flag = (op[c] = "read")

Poll(c) ==
  /\ pc[c] = "poll"
  /\ IF Answered(c)
     THEN Goto(c, IF op[c] = "read" THEN "fetch" ELSE "done")
     ELSE UNCHANGED pc
  /\ UNCHANGED <<deviceVars, callVars, clean>>

\* -ETIMEDOUT, even before the first look at the flag.
Expire(c) ==
  /\ pc[c] = "poll"
  /\ Goto(c, "idle")
  /\ UNCHANGED <<deviceVars, callVars, clean>>

Fetch(c) ==
  /\ pc[c] = "fetch"
  /\ value' = [value EXCEPT ![c] = data]
  /\ Goto(c, "done")
  /\ UNCHANGED <<deviceVars, op, address, clean>>

\* The configuration space access fails, and so does the call.
AccessFails(c) ==
  /\ pc[c] \in {"data", "address", "poll", "fetch"}
  /\ Goto(c, "idle")
  /\ UNCHANGED <<deviceVars, callVars, clean>>

\* 0, and the data of a read, to the user.
Return(c) ==
  /\ pc[c] = "done"
  /\ Goto(c, "idle")
  /\ UNCHANGED <<deviceVars, callVars, clean>>

----------------------------------------------------------------------------
(* The device answers, in its time and in any order *)

Answer ==
  \E r \in pending :
    /\ pending' = pending \ {r}
    /\ IF r[1] = "read"
       THEN data' = store[r[2]] /\ flag' = TRUE /\ UNCHANGED store
       ELSE store' = [store EXCEPT ![r[2]] = data] /\ flag' = FALSE /\ UNCHANGED data
    /\ UNCHANGED <<pc, callVars, clean>>

Step(c) == WriteData(c) \/ WriteAddress(c) \/ Poll(c) \/ Fetch(c) \/ Return(c)

Next ==
  \/ \E c \in Clients : Call(c) \/ Step(c) \/ Expire(c) \/ AccessFails(c)
  \/ Answer

Spec == Init /\ [][Next]_vars

\* A thread in the driver runs on, and the device answers.  No timeout is
\* obliged to run out.
FairSpec == Spec /\ (\A c \in Clients : WF_vars(Step(c))) /\ WF_vars(Answer)

----------------------------------------------------------------------------
(* Properties *)

\* A call that returns 0 has read what the VPD holds at its address, or
\* stored its value there, if no other client touched the registers meanwhile
\* and the answer to no earlier request, given up by its caller, was still to
\* come.
VpdIsTransferred == \A c \in Clients : pc[c] = "done" /\ clean[c] => store[address[c]] = value[c]

\* A call ends although the length of its timeout is not known, because the
\* device answers it: unless another client's request comes between.
VpdCallsEnd == \A c \in Clients : pc[c] # "idle" /\ clean[c] ~> pc[c] = "idle" \/ ~clean[c]
============================================================================
