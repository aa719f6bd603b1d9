---------------------------- MODULE DeviceAccess ----------------------------
(***************************************************************************)
(* How an nnt_device gets its access callbacks, and what the callbacks of  *)
(* a device without a usable VSEC do: create_devices and                   *)
(* check_if_vsec_supported of nnt_driver/nnt_device.c, init_pciconf of     *)
(* nnt_pci_conf_access.c, and all of nnt_pci_conf_access_no_vsec.c; and    *)
(* the ioctl that reports the parameters of a device, which asks for       *)
(* address spaces of its own (check_address_space_support).                *)
(*                                                                         *)
(* There is one PCI function.  A client of the module VsecSemaphore, which *)
(* this module extends, is here an nnt_device for it: each kernel module   *)
(* has one of its own, with a mutex of its own, so one thread at a time    *)
(* works on each and no mutex orders two of them.  The first call on an    *)
(* nnt_device comes once its module is loaded.  The gateway transactions   *)
(* of the module VsecGateway are here one step that selects a space.       *)
(*                                                                         *)
(* The device is external.  Without a VSEC there are an address and a data *)
(* register.  On most devices the data register is a window on the address *)
(* last written; on a "write only" one, writing the address starts a read  *)
(* into the data register (bit 0 set) or a write of what is in it.         *)
(***************************************************************************)
EXTENDS VsecSemaphore, RwOperation, FiniteSets

CONSTANTS
  Models,     \* what the device may be: [vsec, supported, wo]
  ProbeOrder, \* the spaces init_vsec_capability_mask asks for, in order
  Required,   \* those check_vsec_minimum_support insists on
  FlagOrder,  \* the spaces check_address_space_support asks for, in order
  Alloc,      \* the nnt_devices of mstflint_access: is_alloc_chrdev_region
  MaxAddr, Values, InitialMem,
  Requests,   \* accesses: [op, addr, size, data], with the user's size in
              \* bytes, and data[] with one entry per dword
  MaxErrors,  \* bound on the failures outside the semaphore
  MaxCalls    \* bound on the ioctls, of a device with a VSEC and of one without

Addrs == 0..MaxAddr
Spaces == {ProbeOrder[k] : k \in DOMAIN ProbeOrder}

ASSUME AccessAssumption ==
  /\ ProbeOrder \in Seq(Spaces) /\ ProbeOrder # <<>>
  /\ Required \subseteq Spaces
  /\ FlagOrder \in Seq(Spaces) /\ FlagOrder # <<>>
  /\ Alloc \subseteq Clients
  /\ \A m \in Models : m.vsec \in BOOLEAN
  /\ MaxErrors \in Nat /\ MaxCalls \in [BOOLEAN -> Nat]
  /\ MaxAddr \in Nat /\ InitialMem \in [Addrs -> Values]
  /\ \A r \in Requests : /\ r.op \in {"read", "write"} /\ r.data \in Seq(Values)
                         /\ r.addr \in Nat /\ r.size \in Int

VARIABLES
  model,     \* the device
  type,      \* device_type, which is also the choice of callbacks
  phase,     \* how far create_devices has come with the nnt_device
  mask,      \* vsec_capability_mask
  flags,     \* address_space, which the report of parameters sets
  fully,     \* those with vsec_fully_supported
  regs,      \* those whose address_register and data_register are set
  wo,        \* those with wo_address
  enabled,   \* those that a file can reach
  job, at,   \* what the nnt_device is used for, and where that is
  word,      \* spaces probed or dwords transferred
  buf,       \* the operation's data[]
  smashed,   \* those whose handler's stack was written behind data[]
  space,     \* the space selected in the control register
  gw,        \* the address and data registers: [addr, data]
  mem,
  calls, errors,
  excused,   \* history: those whose probing was cut short or upset
  denied,    \* history: those reported to have no VSEC
  alone      \* history: those that have had gw to themselves in their access

learntVars == <<mask, flags, denied>>
devVars == <<type, phase, learntVars, fully, regs, wo, enabled>>
jobVars == <<job, at, word, buf, smashed>>
hwVars == <<space, gw, mem>>
daVars == <<vars, model, devVars, jobVars, hwVars, calls, errors, excused, alone>>

NoJob == [op |-> "none", size |-> 0, data |-> <<>>]
InitJob == [op |-> "init", size |-> 0, data |-> <<>>]
ParamsJob == [op |-> "params", size |-> 0, data |-> <<>>]
Probes == {InitJob, ParamsJob}
Legacy == {"address", "data", "id", "readback"}
Initialized == "initialized"
Other == MaxAddr + 1   \* NNT_DEVICE_ID_OFFSET, and where there is no memory

\* The spaces that the probe of c asks for.
Order(c) == IF job[c] = ParamsJob THEN FlagOrder ELSE ProbeOrder

DATypeOK ==
  /\ model \in Models
  /\ type \in [Clients -> {"PCICONF", "NO_VSEC"}]
  /\ phase \in [Clients -> {"absent", "check", "second", "ready", "failed"}]
  /\ mask \in [Clients -> SUBSET (Spaces \cup {Initialized})]
  /\ flags \in [Clients -> SUBSET Spaces] /\ denied \subseteq Clients
  /\ fully \subseteq Clients /\ regs \subseteq Clients /\ wo \subseteq Clients
  /\ enabled \subseteq Clients
  /\ job \in [Clients -> Requests \cup Probes \cup {NoJob}]
  /\ at \in [Clients -> Legacy \cup {"none", "space", "status", "gateway", "done", "dead"}]
  /\ smashed \subseteq Clients
  /\ \A c \in Clients :
       /\ word[c] \in 0..(IF job[c] \in Probes THEN Len(Order(c)) ELSE Count(job[c]))
       /\ at[c] \in {"space", "status"} => word[c] < Len(Order(c))
       /\ at[c] \in {"address", "data"} => word[c] < Count(job[c])
       /\ buf[c] \in [DOMAIN job[c].data -> Values]
  /\ space \in Spaces
  /\ gw \in [addr : Addrs \cup {Other}, data : Values]
  /\ mem \in [Addrs -> Values]
  /\ calls \in 0..MaxCalls[model.vsec] /\ errors \in 0..MaxErrors
  /\ excused \subseteq Clients /\ alone \subseteq Clients

DAInit ==
  /\ Init
  /\ model \in Models
  /\ type = [c \in Clients |-> "PCICONF"]
  /\ phase = [c \in Clients |-> "absent"]
  /\ mask = [c \in Clients |-> {}] /\ flags = [c \in Clients |-> {}] /\ denied = {}
  /\ fully = {} /\ regs = {} /\ wo = {} /\ enabled = {}
  /\ job = [c \in Clients |-> NoJob] /\ at = [c \in Clients |-> "none"]
  /\ word = [c \in Clients |-> 0] /\ buf = [c \in Clients |-> <<>>] /\ smashed = {}
  /\ space \in Spaces /\ mem = InitialMem
  /\ gw = [addr |-> Other, data |-> CHOOSE v \in Values : TRUE]
  /\ calls = 0 /\ errors = 0 /\ excused = {} /\ alone = {}

Go(c, step) == at' = [at EXCEPT ![c] = step]

Idle(c) == pc[c] = "idle" /\ job[c] = NoJob

\* The nnt_device is used for r, from step on.
StartJob(c, r, step) ==
  /\ job' = [job EXCEPT ![c] = r]
  /\ buf' = [buf EXCEPT ![c] = r.data]
  /\ Go(c, step)
  /\ UNCHANGED <<word, smashed>>

EndJob(c) ==
  /\ job' = [job EXCEPT ![c] = NoJob]
  /\ buf' = [buf EXCEPT ![c] = <<>>]
  /\ word' = [word EXCEPT ![c] = 0]
  /\ smashed' = smashed \ {c}
  /\ Go(c, "none")

\* Back in the handler of an access: or not, if its frame has been written
\* over.
BackInHandler(c) ==
  \/ EndJob(c)
  \/ c \in smashed /\ Go(c, "dead") /\ UNCHANGED <<job, word, buf, smashed>>

\* A config access fails, or a call of the kernel.
Error == errors < MaxErrors /\ errors' = errors + 1

----------------------------------------------------------------------------
(* create_devices *)

\* mst_main.c calls access.init once more at the end of the loop's body, and
\* enables the device at its start.
Checked(c) == IF c \in Alloc THEN "second" ELSE "ready"

\* A device without the capability is NO_VSEC; one with it is checked.
FindCapability(c) ==
  /\ phase[c] = "absent"
  /\ IF model.vsec
     THEN phase' = [phase EXCEPT ![c] = "check"] /\ UNCHANGED type
     ELSE phase' = [phase EXCEPT ![c] = Checked(c)] /\ type' = [type EXCEPT ![c] = "NO_VSEC"]
  /\ enabled' = IF c \in Alloc THEN enabled \cup {c} ELSE enabled
  /\ UNCHANGED <<vars, model, learntVars, fully, regs, wo, jobVars, hwVars, calls, excused, errors>>

\* device_create or cdev_add of mst_main.c fails: the module is not loaded.
CreateFails(c) ==
  /\ phase[c] = "absent" /\ c \in Alloc
  /\ Error
  /\ phase' = [phase EXCEPT ![c] = "failed"]
  /\ UNCHANGED <<vars, model, type, learntVars, fully, regs, wo, enabled, jobVars, hwVars, calls,
                 excused>>

\* The first INIT ioctl, which only the MFT modules have, enables the device
\* before it locks it: other files reach it before access.init has run.
Bind(c) ==
  /\ phase[c] = "ready" /\ c \notin enabled
  /\ enabled' = enabled \cup {c}
  /\ UNCHANGED <<vars, model, type, phase, learntVars, fully, regs, wo, jobVars, hwVars, calls,
                 excused, errors>>

\* An ioctl on a device that is loaded.
AccessCalled(c) ==
  /\ Idle(c) /\ phase[c] = "ready" /\ c \in enabled
  /\ calls < MaxCalls[model.vsec] /\ calls' = calls + 1

\* access.init is called by create_devices or by INIT.
InitCalled(c) ==
  \/ phase[c] \in {"check", "second"} /\ UNCHANGED calls
  \/ /\ phase[c] = "ready" /\ c \in enabled \ Alloc
     /\ calls < MaxCalls[model.vsec] /\ calls' = calls + 1

\* create_devices is done with the device, once access.init has returned.
AfterInit(c) == IF phase[c] = "check" THEN Checked(c) ELSE "ready"

----------------------------------------------------------------------------
(* init_pciconf *)

InitPciconf(c) ==
  /\ Idle(c) /\ type[c] = "PCICONF"
  /\ InitCalled(c)
  /\ Begin(c)
  /\ StartJob(c, InitJob, "space")
  /\ UNCHANGED <<model, devVars, hwVars, excused, errors>>

Probing(c, step) == pc[c] = "cs" /\ job[c] \in Probes /\ at[c] = step

AllProbed(c, n) == n = Len(Order(c))

\* set_address_space writes the control register.  It is upset if another
\* nnt_device writes there before it has read the status.
ProbeSpace(c) ==
  /\ Probing(c, "space")
  /\ space' = Order(c)[word[c] + 1]
  /\ excused' = excused \cup {d \in Clients \ {c} : Probing(d, "status")}
  /\ Go(c, "status")
  /\ UNCHANGED <<vars, model, devVars, job, word, buf, smashed, gw, mem, calls, errors>>

\* The next space, or the last one is done.
NextSpace(c) ==
  /\ word' = [word EXCEPT ![c] = @ + 1]
  /\ Go(c, IF AllProbed(c, word'[c]) THEN "done" ELSE "space")

\* The mask gets the probed space, and at the end that it is initialized; the
\* flags just the space.
Learnt(c, status) ==
  LET learnt == IF status THEN {Order(c)[word[c] + 1]} ELSE {}
  IN IF job[c] = ParamsJob
     THEN flags' = [flags EXCEPT ![c] = @ \cup learnt] /\ UNCHANGED mask
     ELSE /\ mask' = [mask EXCEPT ![c] =
                       @ \cup learnt
                         \cup (IF AllProbed(c, word[c] + 1) THEN {Initialized} ELSE {})]
          /\ UNCHANGED flags

\* Wrong variant: the status is not looked at.
ProbeStatusIgnored(c) ==
  /\ Probing(c, "status")
  /\ Learnt(c, TRUE)
  /\ NextSpace(c)
  /\ UNCHANGED <<vars, model, type, phase, denied, fully, regs, wo, enabled, job, buf, smashed,
                 hwVars,
                 calls, excused, errors>>

\* ... and reads the status of the space that is in it now.
ProbeStatus(c) ==
  /\ Probing(c, "status")
  /\ Learnt(c, space \in model.supported)
  /\ NextSpace(c)
  /\ UNCHANGED <<vars, model, type, phase, denied, fully, regs, wo, enabled, job, buf, smashed,
                 hwVars,
                 calls, excused, errors>>

\* A config access fails: the space counts as not supported, and the loop
\* goes on.
ProbeFails(c) ==
  /\ Probing(c, "space") \/ Probing(c, "status")
  /\ Error
  /\ Learnt(c, FALSE)
  /\ NextSpace(c)
  /\ excused' = excused \cup {c}
  /\ UNCHANGED <<vars, model, type, phase, denied, fully, regs, wo, enabled, job, buf, smashed,
                 hwVars,
                 calls>>

\* Wrong variant: every space that is asked for is required.
MinimumSupportAll(m) == Spaces \cup {Initialized} \subseteq m

\* check_vsec_minimum_support.
MinimumSupport(m) == Required \cup {Initialized} \subseteq m

\* clear_vsec_semaphore; init_vsec_capability_mask returns 0 even if it did
\* not lock.  In create_devices, check_if_vsec_supported then makes a device
\* NO_VSEC that is not fully supported.
FinishInit(c) ==
  /\ job[c] = InitJob
  /\ Clear(c) \/ ClearError(c)
  /\ fully' = IF MinimumSupport(mask[c]) THEN fully \cup {c} ELSE fully
  /\ type' = IF phase[c] = "check" /\ c \notin fully' THEN [type EXCEPT ![c] = "NO_VSEC"] ELSE type
  /\ phase' = [phase EXCEPT ![c] = AfterInit(c)]
  /\ excused' = IF c \in failed THEN excused \cup {c} ELSE excused
  /\ EndJob(c)
  /\ UNCHANGED <<model, learntVars, regs, wo, enabled, hwVars, calls, errors>>

----------------------------------------------------------------------------
(* The parameters of a device *)

\* get_nnt_device_parameters.  Of a device without the capability nothing is
\* asked.
Params(c) ==
  /\ AccessCalled(c)
  /\ model.vsec
  /\ Begin(c)
  /\ StartJob(c, ParamsJob, "space")
  /\ UNCHANGED <<model, devVars, hwVars, excused, errors>>

\* Wrong variant: a report goes by the last space alone.
DeniedByLast(c) == FlagOrder[Len(FlagOrder)] \notin flags[c]

\* The report is that there is no VSEC: none of the spaces is flagged.
Denied(c) == flags[c] = {}

\* check_address_space_support returns 0 even if it did not lock.
FinishParams(c) ==
  /\ job[c] = ParamsJob
  /\ Clear(c) \/ ClearError(c)
  /\ denied' = IF Denied(c) THEN denied \cup {c} ELSE denied
  /\ excused' = IF c \in failed THEN excused \cup {c} ELSE excused
  /\ EndJob(c)
  /\ UNCHANGED <<model, type, phase, mask, flags, fully, regs, wo, enabled, hwVars, calls, errors>>

----------------------------------------------------------------------------
(* Access with a VSEC, seen from outside *)

Access(c) ==
  /\ type[c] = "PCICONF"
  /\ \E r \in Requests : AccessCalled(c) /\ StartJob(c, r, "gateway")
  /\ Begin(c)
  /\ UNCHANGED <<model, devVars, hwVars, excused, errors>>

\* read_pciconf and write_pciconf select their space, and may not come back
\* from behind data[].
UseGateway(c) ==
  /\ pc[c] = "cs" /\ at[c] = "gateway"
  /\ space' \in Spaces
  /\ excused' = excused \cup {d \in Clients \ {c} : Probing(d, "status")}
  /\ \/ Go(c, "done")
     \/ ~Fits(job[c]) /\ Go(c, "dead")
  /\ smashed' = IF job[c].op = "read" /\ ~Fits(job[c]) THEN smashed \cup {c} ELSE smashed
  /\ UNCHANGED <<vars, model, devVars, job, word, buf, gw, mem, calls, errors>>

FinishAccess(c) ==
  /\ job[c] \in Requests
  /\ Clear(c) \/ ClearError(c)
  /\ BackInHandler(c)
  /\ UNCHANGED <<model, devVars, hwVars, calls, excused, errors>>

LockStep(c) ==
  /\ \/ PollTimeout(c) \/ PollTaken(c) \/ PollFree(c) \/ ConfigError(c)
     \/ ReadCounter(c) \/ WriteTicket(c) \/ ReadBack(c)
     \/ Leave(c) /\ at[c] = "done"
  /\ UNCHANGED <<model, devVars, jobVars, hwVars, calls, excused, errors>>

----------------------------------------------------------------------------
(* Access without a VSEC *)

\* What the device does with a write to each register, if it is the register
\* that is written: one whose offset is not set is in the read-only start of
\* config space.
AddressWritten(c, a, read) ==
  IF c \notin regs THEN UNCHANGED <<gw, mem>>
  ELSE IF ~model.wo \/ a = Other THEN gw' = [gw EXCEPT !.addr = a] /\ UNCHANGED mem
  ELSE IF read THEN gw' = [addr |-> a, data |-> mem[a]] /\ UNCHANGED mem
  ELSE gw' = [gw EXCEPT !.addr = a] /\ mem' = [mem EXCEPT ![a] = gw.data]

DataWritten(c, v) ==
  IF c \notin regs THEN UNCHANGED <<gw, mem>>
  ELSE IF ~model.wo /\ gw.addr # Other
       THEN mem' = [mem EXCEPT ![gw.addr] = v] /\ UNCHANGED gw
       ELSE gw' = [gw EXCEPT !.data = v] /\ UNCHANGED mem

\* What reading the data register may give.
DataRead(c) ==
  IF c \notin regs \/ gw.addr = Other THEN Values
  ELSE IF model.wo THEN {gw.data}
  ELSE {mem[gw.addr]}

InitLegacy(c) ==
  /\ Idle(c) /\ type[c] = "NO_VSEC"
  /\ InitCalled(c)
  /\ regs' = regs \cup {c}
  /\ StartJob(c, InitJob, "id")
  /\ UNCHANGED <<vars, model, type, phase, learntVars, fully, wo, enabled, hwVars, excused, errors>>

\* is_wo_gw.
WriteId(c) ==
  /\ at[c] = "id"
  /\ AddressWritten(c, Other, FALSE)
  /\ Go(c, "readback")
  /\ UNCHANGED <<vars, model, devVars, job, word, buf, smashed, space, calls, excused, errors>>

\* A write-only gateway does not give the address back.  An error of config
\* space is no 0 either, so it makes a gateway write-only as well.
Judge(c, writeOnly) ==
  /\ wo' = IF writeOnly THEN wo \cup {c} ELSE wo \ {c}
  /\ phase' = [phase EXCEPT ![c] = AfterInit(c)]
  /\ EndJob(c)
  /\ UNCHANGED <<model, type, learntVars, fully, regs, enabled, hwVars, calls, excused>>

ReadIdBack(c) == at[c] = "readback" /\ Judge(c, model.wo) /\ UNCHANGED <<vars, errors>>

IdFails(c) == at[c] \in {"id", "readback"} /\ Error /\ Judge(c, TRUE) /\ UNCHANGED vars

\* Wrong variant: the same order for every gateway.
FirstAddress(c, r) == "address"

\* The register that is accessed first: a write through a write-only gateway
\* puts the data in place before the address.
First(c, r) == IF r.op = "write" /\ c \in wo THEN "data" ELSE "address"

\* The loop, with n dwords of r done: the next dword, or the end.
Loop(c, r, n) == IF n < Count(r) THEN First(c, r) ELSE "done"

LegacyAccess(c) ==
  /\ type[c] = "NO_VSEC"
  /\ \E r \in Requests : AccessCalled(c) /\ StartJob(c, r, Loop(c, r, 0))
  /\ UNCHANGED <<vars, model, devVars, hwVars, excused, errors>>

\* After the second register of a dword.
NextDword(c) ==
  /\ word' = [word EXCEPT ![c] = @ + 1]
  /\ Go(c, Loop(c, job[c], word'[c]))

\* The address of the dword that the loop is at; there may be no memory.
Target(c) ==
  LET a == job[c].addr + word[c]
  IN IF a \in Addrs THEN a ELSE Other

\* Wrong variant: the address of a read is not marked as such.
WriteAddressUnmarked(c) ==
  /\ at[c] = "address"
  /\ AddressWritten(c, Target(c), FALSE)
  /\ IF First(c, job[c]) = "address" THEN Go(c, "data") /\ UNCHANGED word ELSE NextDword(c)
  /\ UNCHANGED <<vars, model, devVars, job, buf, smashed, space, calls, excused, errors>>

WriteAddress(c) ==
  /\ at[c] = "address"
  /\ AddressWritten(c, Target(c), job[c].op = "read" /\ c \in wo)
  /\ IF First(c, job[c]) = "address" THEN Go(c, "data") /\ UNCHANGED word ELSE NextDword(c)
  /\ UNCHANGED <<vars, model, devVars, job, buf, smashed, space, calls, excused, errors>>

\* The dword the loop is at has no place in data[].
Past(c) == BehindData(job[c], word[c])

\* What data[] holds for it: behind the end, whatever is there.
Sent(c) == IF Past(c) THEN Values ELSE {job[c].data[word[c] + 1]}

\* What is read behind the end of data[] lands in the handler's stack.
Receive(c, v) ==
  IF Past(c)
  THEN smashed' = smashed \cup {c} /\ UNCHANGED buf
  ELSE buf' = [buf EXCEPT ![c][word[c] + 1] = v] /\ UNCHANGED smashed

AccessData(c) ==
  /\ at[c] = "data"
  /\ IF job[c].op = "write"
     THEN (\E v \in Sent(c) : DataWritten(c, v)) /\ UNCHANGED <<buf, smashed>>
     ELSE (\E v \in DataRead(c) : Receive(c, v)) /\ UNCHANGED <<gw, mem>>
  /\ IF First(c, job[c]) = "data" THEN Go(c, "address") /\ UNCHANGED word ELSE NextDword(c)
  /\ UNCHANGED <<vars, model, devVars, job, space, calls, excused, errors>>

\* Behind the end of data[] the stack ends somewhere: the thread dies.
RunOff(c) ==
  /\ at[c] = "data" /\ Past(c)
  /\ Go(c, "dead")
  /\ UNCHANGED <<vars, model, devVars, job, word, buf, smashed, hwVars, calls, excused, errors>>

\* A config access fails, and the byte count so far is the error: 0 for the
\* first dword.
AccessFails(c) ==
  /\ at[c] \in {"address", "data"}
  /\ Error
  /\ Go(c, "done")
  /\ UNCHANGED <<vars, model, devVars, job, word, buf, smashed, hwVars, calls, excused>>

LegacyDone(c) ==
  /\ at[c] = "done" /\ pc[c] = "idle"
  /\ BackInHandler(c)
  /\ UNCHANGED <<vars, model, devVars, hwVars, calls, excused, errors>>

----------------------------------------------------------------------------

UsesRegisters(c) == pc[c] = "idle" /\ job[c] # NoJob /\ at[c] # "dead"

StillAlone ==
  {c \in Clients : /\ UsesRegisters(c)'
                   /\ \A d \in Clients \ {c} : ~UsesRegisters(d)'
                   /\ UsesRegisters(c) => c \in alone}

DAStep(c) ==
  \/ FindCapability(c) \/ CreateFails(c) \/ Bind(c)
  \/ InitPciconf(c) \/ ProbeSpace(c) \/ ProbeStatus(c) \/ ProbeFails(c) \/ FinishInit(c)
  \/ Params(c) \/ FinishParams(c)
  \/ Access(c) \/ UseGateway(c) \/ FinishAccess(c) \/ LockStep(c)
  \/ InitLegacy(c) \/ WriteId(c) \/ ReadIdBack(c) \/ IdFails(c)
  \/ LegacyAccess(c) \/ WriteAddress(c) \/ AccessData(c) \/ RunOff(c)
  \/ AccessFails(c) \/ LegacyDone(c)

DANext == (\E c \in Clients : DAStep(c)) /\ alone' = StillAlone

DASpec == DAInit /\ [][DANext]_daVars

----------------------------------------------------------------------------
(* Properties *)

\* A device that supports the three required spaces keeps its VSEC, however
\* another kernel module's initialisation interleaves with this one's, unless
\* a config access failed, the semaphore could not be locked, or a robbed
\* transaction wrote the control register between a probe and its status.
DemotedForCause ==
  \A c \in Clients :
    type[c] = "NO_VSEC" /\ model.vsec /\ Required \subseteq model.supported => c \in excused

\* No space gets into the capability mask or among the flags that the device
\* does not support, unless a robbed transaction wrote the control register
\* between.
SupportIsReal ==
  \A c \in Clients \ excused :
    mask[c] \subseteq model.supported \cup {Initialized} /\ flags[c] \subseteq model.supported

\* No tool is told that a device with one of the spaces has no VSEC, unless a
\* config access failed, the semaphore could not be locked, which
\* check_address_space_support tells nobody, or a probe was upset.
DeniedForCause ==
  \A c \in denied :
    {FlagOrder[k] : k \in DOMAIN FlagOrder} \cap model.supported # {} => c \in excused

\* A request whose dwords have their places in data[] and in the memory.
Inside(r) == Fits(r) /\ r.addr + Count(r) <= MaxAddr + 1

\* The accesses without a VSEC that their callers may trust: the nnt_device
\* has had the registers to itself, INIT or the loading of mst_main.c has
\* run is_wo_gw before, which did not take an error for a write-only gateway,
\* and the user's size and offset stay inside, which nothing checks.
Trusted ==
  {c \in alone : /\ job[c] \in Requests /\ Inside(job[c])
                 /\ c \in regs \/ c \in Alloc
                 /\ c \in wo <=> model.wo}

\* Through the address and data registers, the dwords counted as transferred
\* by an access that may be trusted are right.
LegacyIntact ==
  \A c \in Trusted : \A k \in 1..word[c] :
    mem[job[c].addr + k - 1] =
      IF job[c].op = "write" THEN job[c].data[k] ELSE buf[c][k]

\* Request r, with n dwords done and those read in b, as a transaction of
\* DwordMemory, whose one space is that behind the registers.
TransferOf(r, n, b) ==
  [kind |-> r.op, space |-> "window", addr |-> r.addr, data |-> r.data, word |-> n, buf |-> b]

Transfer(c) == TransferOf(job[c], word[c], buf[c])

\* The memory promised to the ioctl handlers (module DwordMemory), in either
\* order of the registers: of an access that may be trusted.
Window == INSTANCE DwordMemory WITH
            Spaces <- {"window"},
            InitialMem <- [s \in {"window"} |-> InitialMem],
            mem <- [s \in {"window"} |-> mem],
            transfer <- IF Trusted = {} THEN [kind |-> "none"]
                        ELSE Transfer(CHOOSE c \in Trusted : TRUE)

LegacyRefinesMemory == Window!Spec
=============================================================================
