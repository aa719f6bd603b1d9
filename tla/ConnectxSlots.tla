--------------------------- MODULE ConnectxSlots ---------------------------
(***************************************************************************)
(* The ConnectX workaround slots: PCI_CONNECTX_WA of mst_main.c,           *)
(* CONNECTX_WA of mst_pci_bc.c over pci_connectx_wa of nnt_ioctl.c, and    *)
(* what the two release handlers do to a slot.                             *)
(*                                                                         *)
(* The device remembers a slot, but not which file asked for it.  Which    *)
(* one that was is history here (taker, told), and so are the ways in      *)
(* which an answer becomes void: another file's close gave the slot back,  *)
(* or the answer was never set.                                            *)
(***************************************************************************)
EXTENDS FileBinding, Naturals

CONSTANTS
  SlotCount,   \* CONNECTX_WA_SIZE
  Garbage      \* what an answer that is not set may be

ASSUME SlotAssumption == SlotCount \in Nat \ {0} /\ Garbage \subseteq 0..SlotCount

VARIABLES
  slot,     \* connectx_wa_slot_p1 of each device, 0 for none
  slots,    \* connectx_wa_slots: the bits set in mst_main.c's mask
  taker,    \* history: the file that took the device's slot
  told,     \* history: the last answer to each file, the device and the slot
  void,     \* history: the files whose answer is not, or no longer, worth anything
  adrift    \* history: the devices whose taker was bound to another one since

slotVars == <<slot, slots, taker, told, void, adrift>>

SlotTypeOK ==
  /\ slot \in [Devices -> 0..(SlotCount + 1)]
  /\ slots \in [Devices -> SUBSET (1..SlotCount)]
  /\ taker \in [Devices -> Files \cup {None}]
  /\ told \in [Files -> (Devices \X (0..SlotCount)) \cup {None}]
  /\ void \subseteq Files
  /\ adrift \subseteq Devices

SlotInit ==
  /\ slot = [d \in Devices |-> 0]
  /\ slots = [d \in Devices |-> {}]
  /\ taker = [d \in Devices |-> None]
  /\ told = [f \in Files |-> None]
  /\ void = {}
  /\ adrift = {}

----------------------------------------------------------------------------

\* ffs of the complement: the first slot whose bit is not set.
FirstUnset(mask) == CHOOSE n \in 1..(SlotCount + 1) : n \notin mask /\ 1..(n - 1) \subseteq mask

\* The device has a slot already.  mst_main.c refuses, and nothing changes.
\* pci_connectx_wa returns 0 and leaves the answer as it was on the stack of
\* its caller, which copies it to user space.
AskAgain(f, d) ==
  /\ slot[d] # 0 /\ driver = "pci"
  /\ \E n \in Garbage : told' = [told EXCEPT ![f] = <<d, n>>]
  /\ void' = void \cup {f}
  /\ UNCHANGED <<slot, slots, taker, adrift>>

\* Wrong variant: whether the device has a slot already is not looked at.
AskAnyway(f, d) ==
  /\ slot' = [slot EXCEPT ![d] = 1]
  /\ told' = [told EXCEPT ![f] = <<d, 1>>]
  /\ void' = void \ {f}
  /\ UNCHANGED <<slots, taker, adrift>>

\* The first slot that is not taken is, and its number is copied to user
\* space, which may fail with the slot taken.  The mask of pci_connectx_wa is
\* connectx_wa_slot_p1 itself, 0 here: its slot is always the first.
Ask(f, d) ==
  LET n == FirstUnset(slots[d])
  IN /\ slot[d] = 0
     /\ slot' = [slot EXCEPT ![d] = n]
     /\ IF n > SlotCount
        THEN UNCHANGED <<slots, taker, told, void>>
        ELSE /\ slots' = IF driver = "mstflint" THEN [slots EXCEPT ![d] = @ \cup {n}] ELSE slots
             /\ taker' = [taker EXCEPT ![d] = f]
             /\ \/ told' = [told EXCEPT ![f] = <<d, n>>] /\ void' = void \ {f}
                \/ UNCHANGED <<told, void>>
     /\ UNCHANGED adrift

\* The answers that become void when file f frees the device's slot.
Robbed(f, d) == {g \in Files \ {f} : told[g] = <<d, slot[d]>>}

\* Wrong variant: the number is reset, but not the bit of the mask.
FreeNumberOnly(f, d) ==
  /\ slot' = [slot EXCEPT ![d] = 0]
  /\ taker' = [taker EXCEPT ![d] = None]
  /\ adrift' = adrift \ {d}
  /\ told' = [told EXCEPT ![f] = None]
  /\ void' = (void \cup Robbed(f, d)) \ {f}
  /\ UNCHANGED slots

\* The release of both drivers: the device's slot is free, whichever file
\* took it.  With no slot the bit to clear is that of a shift by -1, which is
\* none of the mask's.
Free(f, d) ==
  /\ slot' = [slot EXCEPT ![d] = 0]
  /\ slots' = [slots EXCEPT ![d] = @ \ {slot[d]}]
  /\ taker' = [taker EXCEPT ![d] = None]
  /\ adrift' = adrift \ {d}
  /\ told' = [told EXCEPT ![f] = None]
  /\ void' = (void \cup Robbed(f, d)) \ {f}

\* A file goes and leaves the slots alone.
Forget(f) ==
  /\ told' = [told EXCEPT ![f] = None]
  /\ void' = void \ {f}
  /\ UNCHANGED <<slot, slots, taker, adrift>>

\* INIT binds a file to device d: a slot it took elsewhere stays behind.
LeaveSlots(f, d) ==
  /\ adrift' = adrift \cup {e \in Devices \ {d} : taker[e] = f}
  /\ UNCHANGED <<slot, slots, taker, told, void>>

----------------------------------------------------------------------------
(* Properties *)

\* Two open files were told the same slot of one device only if one of the
\* answers is void: another file's close gave the slot back under its taker,
\* or a request that found a slot was answered from the stack.
SlotIsExclusive ==
  \A f, g \in open : f # g /\ told[f] # None /\ told[f] = told[g] => {f, g} \cap void # {}

\* A slot never outlives the file that took it, unless INIT has bound that
\* file to another device: the release of mst_pci_bc.c looks at the slot
\* before it locks, and both free the slot of the device bound by then.
NoOrphanSlot ==
  \A d \in Devices :
    slot[d] # 0 /\ d \notin adrift => taker[d] \in open /\ private[taker[d]] = d

\* The number and the mask of mst_main.c, set and cleared in different calls,
\* agree: the search of a device without a slot always finds the first one,
\* and connectx_wa_slot_p1 is never a number past the last slot.
MaskAgrees ==
  \A d \in Devices : slot[d] <= SlotCount /\ (driver = "mstflint" => slots[d] = {slot[d]} \ {0})
============================================================================
