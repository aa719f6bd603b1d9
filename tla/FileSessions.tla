--------------------------- MODULE FileSessions ----------------------------
(***************************************************************************)
(* What the open files of one device node leave in the devices they are    *)
(* bound to: ConnectX slots, scratch buffers and the choice of a BAR, of   *)
(* mst_pciconf_bc.c, mst_pci_bc.c or mst_main.c.  open, INIT and release   *)
(* act on all of them at once, so a call that is right for one may pull    *)
(* the ground from under another.                                          *)
(*                                                                         *)
(* A file runs one call at a time.  A call on a bound file is one step     *)
(* (IoctlDispatch); those without the lock have several.                   *)
(***************************************************************************)
EXTENDS ConnectxSlots, LegacyBuffers, BarWindow

ASSUME WorkloadAssumption ==
  \A w \in Workloads : w.devices \subseteq Devices /\ w.bars \subseteq Bars

vars == <<bindVars, slotVars, bufferVars, barVars>>

\* The calls of the users, besides open, INIT, STOP and close.
Does(call) == call \in users.calls

\* The transfer lengths that read and write are called with.
Lengths == 1..BufferSize

FSTypeOK == BindTypeOK /\ SlotTypeOK /\ BufferTypeOK /\ BarTypeOK

Init == BindInit /\ SlotInit /\ BufferInit /\ BarInit

----------------------------------------------------------------------------

Open(f) ==
  /\ BindOnOpen(f)
  /\ Rewind(f)
  /\ UNCHANGED <<slotVars, barVars>>

\* INIT of mst_pciconf_bc.c.  That of the device itself, which may fail, is
\* in DeviceAccess; what was done here stays.
InitPciconf(f, d) ==
  /\ driver = "pciconf" /\ Idle(f)
  /\ Rebind(f, d)
  /\ Truncate(f, d)
  /\ UNCHANGED <<slotVars, barVars>>

\* INIT of mst_pci_bc.c.
InitPci(f, d, b) ==
  /\ driver = "pci" /\ Idle(f)
  /\ Rebind(f, d)
  /\ LeaveSlots(f, d)
  /\ Empty(d)
  /\ ChooseBar(f, d, b)
  /\ UNCHANGED <<pos, mode, pc, raced>>

\* Bus or slot are gone, or there is no such BAR: an error, with the file
\* bound already.
InitPciFails(f, d) ==
  /\ driver = "pci" /\ Idle(f)
  /\ Rebind(f, d)
  /\ LeaveSlots(f, d)
  /\ ForgetBar(f)
  /\ UNCHANGED bufferVars

\* set_private_data_bc does not find the device, or comes on its way to one
\* that is gone: INIT returns 0.
InitPciInVain(f, d, b) ==
  /\ driver = "pci" /\ Idle(f)
  /\ ChooseInVain(f, d, b)
  /\ UNCHANGED <<bindVars, slotVars, bufferVars>>

Stop(f) ==
  /\ IsMft /\ Idle(f) /\ private[f] # None
  /\ Disable(private[f])
  /\ UNCHANGED <<slotVars, bufferVars, barVars>>

CallInit(f) ==
  \E d \in users.devices :
    \/ InitPciconf(f, d)
    \/ InitPciFails(f, d)
    \/ \E b \in users.bars : InitPci(f, d, b) \/ InitPciInVain(f, d, b)

----------------------------------------------------------------------------

AskSlot(f) ==
  /\ Does("slot") /\ driver # "pciconf" /\ Idle(f) /\ private[f] # None
  /\ AskAgain(f, private[f]) \/ Ask(f, private[f])
  /\ UNCHANGED <<bindVars, bufferVars, barVars>>

\* Transfers on a device's buffer, in both MFT drivers, and on the static one.
Transfer(f) ==
  /\ Does("transfer")
  /\ \E n \in Lengths :
       \/ IsMft /\ (WriteBound(f, n) \/ ReadBound(f, n))
       \/ driver = "pci" /\ (StaticWrite(f, n) \/ StaticRead(f, n))
  /\ UNCHANGED <<bindVars, slotVars, barVars>>

Mmap(f) ==
  /\ Does("mmap") /\ driver = "pci" /\ Idle(f)
  /\ Map(f)
  /\ UNCHANGED <<bindVars, slotVars, bufferVars>>

----------------------------------------------------------------------------
(* close *)

\* Wrong variant: release frees the slot only of a file that was told one.
HasSlotToFree(f) == told[f] # None

\* The release of mst_pci_bc.c looks at the slot before it locks.
SlotSeen(f) == private[f] # None /\ slot[private[f]] # 0

\* No release handler, or one that finds nothing to give back.
CloseAtOnce(f) ==
  /\ Idle(f)
  /\ \/ driver = "pciconf"
     \/ driver = "pci" /\ ~SlotSeen(f)
     \/ driver = "mstflint" /\ private[f] = None
  /\ Unbind(f)
  /\ Forget(f)
  /\ ForgetBar(f)
  /\ UNCHANGED bufferVars

Release(f) ==
  /\ driver = "pci" /\ Idle(f)
  /\ SlotSeen(f)
  /\ Goto(f, "release")
  /\ UNCHANGED <<bindVars, slotVars, barVars, used, pos, mode, written, holed, raced>>

\* Under the lock.
ReleaseSlot(f) ==
  /\ \/ driver = "pci" /\ pc[f] = "release"
     \/ driver = "mstflint" /\ Idle(f) /\ private[f] # None
  /\ Free(f, private[f])
  /\ Unbind(f)
  /\ ForgetBar(f)
  /\ Goto(f, "idle")
  /\ UNCHANGED <<used, pos, mode, written, holed, raced>>

----------------------------------------------------------------------------

Next ==
  \E f \in Files :
    \/ Open(f) \/ CallInit(f) \/ Stop(f)
    \/ AskSlot(f) \/ Transfer(f) \/ Mmap(f)
    \/ CloseAtOnce(f) \/ Release(f) \/ ReleaseSlot(f)

Spec == Init /\ [][Next]_vars
============================================================================
