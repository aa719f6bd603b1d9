------------------------------ MODULE PpcReset ------------------------------
(***************************************************************************)
(* The hot reset of the devices named in the module parameter pci_dev, as  *)
(* mst_backward_compatibility/mst_ppc/mst_ppc_pci_reset.c runs it from the *)
(* probe of the device that completes the list.                            *)
(*                                                                         *)
(* The driver core is external: it probes one device at a time, any device *)
(* of the id table whether listed or not, and probes a device again after  *)
(* its removal or its failed probe.  Devices that went down in a reset come *)
(* back when they like, or never.                                          *)
(***************************************************************************)
EXTENDS Integers, Sequences, FiniteSets

CONSTANTS
  Devs,        \* devices of the id table pciconf_devices
  Requested,   \* sequence of the devices named in pci_dev
  Id,          \* the PCI device id of each
  Slot,        \* the slot each is a function of
  Function0,   \* those with PCI_FUNC 0
  None,
  MaxPolls,    \* NNT_MAXIMUM_POLLING_NUMBER
  MaxFaults,   \* bound on the calls of the PCI core that fail
  MaxRemovals  \* bound on the removals

\* What a device that does not respond reads as.
Unknown == "ffff"

ASSUME PpcAssumption ==
  /\ None \notin Devs
  /\ Requested \in Seq(Devs)
  /\ Function0 \subseteq Devs
  /\ \A d \in Devs : Id[d] # Unknown
  /\ {MaxPolls, MaxFaults, MaxRemovals} \subseteq Nat

VARIABLES
  entry,     \* pci_device of each member of nnt_device_list
  found,     \* number_of_found_pci_device
  done,      \* reset_was_done
  probed,    \* the device being probed
  pc, i,     \* which loop of pci_devices_reset, and where it is in the list
  id, polls, \* device_id and polling_counter of wait_for_response
  bound,     \* devices whose probe succeeded
  saved,     \* devices whose configuration space is saved
  asserted,  \* slots held in reset
  down,      \* devices that do not respond
  faults, removals,
  lost       \* history: a device was removed, or its probe failed

listVars == <<entry, found>>
loopVars == <<pc, i>>
waitVars == <<id, polls>>
hwVars == <<asserted, down>>
boundVars == <<faults, removals>>
vars == <<listVars, done, probed, loopVars, waitVars, bound, saved, hwVars, boundVars, lost>>

Positions == 1..Len(Requested)
Loops == {"save", "assert", "deassert", "wait", "restore"}

TypeOK ==
  /\ entry \in [Positions -> Devs \cup {None}]
  /\ found \in Nat
  /\ done \in BOOLEAN
  /\ probed \in Devs \cup {None}
  /\ pc \in Loops \cup {"idle", "oops"}
  /\ i \in 1..(Len(Requested) + 1)
  /\ id \in {Id[d] : d \in Devs} \cup {Unknown}
  /\ polls \in 0..(MaxPolls + 1)
  /\ bound \subseteq Devs /\ saved \subseteq Devs
  /\ asserted \subseteq {Slot[d] : d \in Devs} /\ down \subseteq Devs
  /\ faults \in 0..MaxFaults /\ removals \in 0..MaxRemovals
  /\ lost \in BOOLEAN

\* parse_pci_devices_string.
Init ==
  /\ entry = [j \in Positions |-> None]
  /\ found = 0
  /\ done = FALSE
  /\ probed = None
  /\ pc = "idle" /\ i = 1
  /\ id = Unknown /\ polls = 0
  /\ bound = {} /\ saved = {}
  /\ asserted = {} /\ down = {}
  /\ faults = 0 /\ removals = 0
  /\ lost = FALSE

----------------------------------------------------------------------------
(* Probe and removal *)

Matches(d) == {j \in Positions : Requested[j] = d}

\* init_pci_device calls pci_devices_reset, which returns at once when the
\* reset was done.
AllFound(n) == n = Len(Requested) /\ ~done

\* Wrong variant: every probe counts, listed or not.
CountAll(d) == found + 1

\* A device counts once for each time its name is in the list, at every
\* probe.
Count(d) == found + Cardinality(Matches(d))

Probe(d) ==
  /\ pc = "idle" /\ d \notin bound
  /\ entry' = [j \in Positions |-> IF j \in Matches(d) THEN d ELSE entry[j]]
  /\ found' = Count(d)
  /\ \/ /\ AllFound(found')
        /\ probed' = d /\ pc' = "save" /\ i' = 1
        /\ UNCHANGED bound
     \/ /\ ~AllFound(found')
        /\ bound' = bound \cup {d}
        /\ UNCHANGED <<probed, loopVars>>
  /\ UNCHANGED <<done, waitVars, saved, hwVars, boundVars, lost>>

\* remove_pci_device leaves the list as it is, pointer and count.  The
\* device may go during a reset that another's probe runs.
Remove(d) ==
  /\ d \in bound /\ removals < MaxRemovals
  /\ bound' = bound \ {d}
  /\ removals' = removals + 1
  /\ lost' = TRUE
  /\ UNCHANGED <<listVars, done, probed, loopVars, waitVars, saved, hwVars, faults>>

\* pci_devices_reset ends, and the probe with it.
EndProbe(success) ==
  /\ pc' = "idle" /\ i' = 1 /\ probed' = None
  /\ id' = Unknown /\ polls' = 0
  /\ bound' = IF success THEN bound \cup {probed} ELSE bound
  /\ lost' = (lost \/ ~success)

----------------------------------------------------------------------------
(* pci_devices_reset *)

At(loop) == pc = loop /\ i <= Len(Requested)

Current == entry[i]

\* The loop over the list goes on, or the next one begins.
Advance(next) ==
  IF i < Len(Requested) THEN i' = i + 1 /\ UNCHANGED pc ELSE i' = 1 /\ pc' = next

\* pci_enable_device of an entry whose device was never found.
Oops ==
  /\ At("save") /\ Current = None
  /\ pc' = "oops"
  /\ UNCHANGED <<listVars, done, probed, i, waitVars, bound, saved, hwVars, boundVars, lost>>

\* Wrong variant: the first device is not saved.
SaveSkipsFirst ==
  /\ At("save") /\ Current # None
  /\ saved' = IF i = 1 THEN saved ELSE saved \cup {Current}
  /\ Advance("assert")
  /\ UNCHANGED <<listVars, done, probed, waitVars, bound, hwVars, boundVars, lost>>

Save ==
  /\ At("save") /\ Current # None
  /\ saved' = saved \cup {Current}
  /\ Advance("assert")
  /\ UNCHANGED <<listVars, done, probed, waitVars, bound, hwVars, boundVars, lost>>

\* The reset of function 0 takes all the functions of its slot down.
AssertReset ==
  /\ At("assert")
  /\ IF Current \in Function0
     THEN /\ asserted' = asserted \cup {Slot[Current]}
          /\ down' = down \cup {d \in Devs : Slot[d] = Slot[Current]}
     ELSE UNCHANGED hwVars
  /\ Advance("deassert")
  /\ UNCHANGED <<listVars, done, probed, waitVars, bound, saved, boundVars, lost>>

\* Wrong variant: only the device that completed the list is let go.
DeassertProbed ==
  /\ At("deassert")
  /\ asserted' = IF Current \in Function0 THEN asserted \ {Slot[probed]} ELSE asserted
  /\ Advance("wait")
  /\ UNCHANGED <<listVars, done, probed, waitVars, bound, saved, down, boundVars, lost>>

DeassertReset ==
  /\ At("deassert")
  /\ asserted' = IF Current \in Function0 THEN asserted \ {Slot[Current]} ELSE asserted
  /\ Advance("wait")
  /\ UNCHANGED <<listVars, done, probed, waitVars, bound, saved, down, boundVars, lost>>

\* pci_enable_device, pci_save_state or pci_set_pcie_reset_state fails, and
\* the probe returns the error.
CallFails ==
  /\ \/ At("save") /\ Current # None
     \/ At("assert") /\ Current \in Function0
     \/ At("deassert") /\ Current \in Function0
  /\ faults < MaxFaults
  /\ faults' = faults + 1
  /\ EndProbe(FALSE)
  /\ UNCHANGED <<listVars, done, saved, hwVars, removals>>

\* wait_for_response has seen the id of the current device, of this one or
\* of one before it.
Seen ==
  /\ At("wait") /\ id = Id[Current]
  /\ Advance("restore")
  /\ UNCHANGED <<listVars, done, probed, waitVars, bound, saved, hwVars, boundVars, lost>>

IdRead == IF Current \in down THEN Unknown ELSE Id[Current]

\* Wrong variant: polling_counter is not incremented.
PollUncounted ==
  /\ At("wait") /\ id # Id[Current] /\ polls <= MaxPolls
  /\ id' = IdRead
  /\ UNCHANGED <<listVars, done, probed, loopVars, polls, bound, saved, hwVars, boundVars, lost>>

Poll ==
  /\ At("wait") /\ id # Id[Current] /\ polls <= MaxPolls
  /\ id' = IdRead
  /\ polls' = polls + 1
  /\ UNCHANGED <<listVars, done, probed, loopVars, bound, saved, hwVars, boundVars, lost>>

\* Wrong variant: the next device's turn.
GiveUpOnOne ==
  /\ At("wait") /\ id # Id[Current] /\ polls > MaxPolls
  /\ Advance("restore")
  /\ UNCHANGED <<listVars, done, probed, waitVars, bound, saved, hwVars, boundVars, lost>>

\* The counter is checked after the read, whatever that read.
GiveUp ==
  /\ At("wait") /\ id # Id[Current] /\ polls > MaxPolls
  /\ EndProbe(FALSE)
  /\ UNCHANGED <<listVars, done, saved, hwVars, boundVars>>

\* pci_restore_state of every device; then the reset was done.
Restore ==
  /\ At("restore")
  /\ saved' = saved \ {Current}
  /\ IF i < Len(Requested)
     THEN i' = i + 1 /\ UNCHANGED <<done, pc, probed, waitVars, bound, lost>>
     ELSE EndProbe(TRUE) /\ done' = TRUE
  /\ UNCHANGED <<listVars, hwVars, boundVars>>

\* A device whose slot has been let go responds again.
Recover(d) ==
  /\ d \in down /\ Slot[d] \notin asserted
  /\ down' = down \ {d}
  /\ UNCHANGED <<listVars, done, probed, loopVars, waitVars, bound, saved, asserted, boundVars,
                 lost>>

----------------------------------------------------------------------------

ResetStep == Oops \/ Save \/ AssertReset \/ DeassertReset \/ Seen \/ Poll \/ GiveUp \/ Restore

Next ==
  \/ \E d \in Devs : Probe(d) \/ Remove(d) \/ Recover(d)
  \/ ResetStep
  \/ CallFails

Spec == Init /\ [][Next]_vars

\* The thread that probes runs on.  No device is obliged to recover.
FairSpec == Spec /\ WF_vars(ResetStep)

----------------------------------------------------------------------------
(* Properties *)

\* While a slot is in reset, and until the devices are waited for, each
\* listed device has its configuration space saved.
SavedBeforeReset ==
  pc \in {"assert", "deassert", "wait"} =>
    \A j \in Positions : entry[j] \in down => entry[j] \in saved

\* A reset that runs has found every device of the list, and all of them
\* are bound or being probed, unless a device was removed or its probe
\* failed before (the count and the pointer outlive both).
AllFoundAtReset ==
  pc # "idle" /\ ~lost =>
    \A j \in Positions : entry[j] \in bound \cup {probed}

\* A device whose id differs from that of the device before it in the list
\* responds by the time configuration space is restored.
PolledBeforeRestore ==
  pc = "restore" => \A j \in Positions :
    j = 1 \/ Id[entry[j]] # Id[entry[j - 1]] => entry[j] \notin down

\* Only a reset that failed leaves a slot in reset behind it.
InResetOnlyAfterError == pc = "idle" /\ asserted # {} => faults > 0

\* The probe that resets the devices returns (or oopses), even if the
\* devices never respond again.
ProbeReturns == pc # "idle" ~> pc \in {"idle", "oops"}

\* "Wait for the device to response to PCI configuration cycles." before
\* "Restore PCI configuration space for all PCI devices.": no device is
\* restored that does not respond.
WaitedForAll == pc = "restore" => \A j \in Positions : entry[j] \notin down
============================================================================
