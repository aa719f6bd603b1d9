----------------------------- MODULE BarWindow -----------------------------
(***************************************************************************)
(* The BAR of a device that mst_pci_bc.c maps: INIT of any file chooses it *)
(* for all files of the device, PCI_PARAMS reports it and mmap maps it.    *)
(***************************************************************************)
EXTENDS FileBinding

CONSTANTS
  Bars,
  EmptyBars   \* those whose size, in the 32 bits of bar_size, is 0

ASSUME BarAssumption == EmptyBars \subseteq Bars /\ None \notin Bars

VARIABLES
  bar,       \* bar_address and bar_size of each device, None before INIT
  chosen,    \* history: the device and BAR of each file's last INIT that returned 0
  overruled, \* history: files whose choice does not stand
  mapped     \* history: what the file's last mmap since then has mapped

barVars == <<bar, chosen, overruled, mapped>>

BarTypeOK ==
  /\ bar \in [Devices -> Bars \cup {None}]
  /\ chosen \in [Files -> (Devices \X Bars) \cup {None}]
  /\ overruled \subseteq Files
  /\ mapped \in [Files -> (Devices \X Bars) \cup {None}]

BarInit ==
  /\ bar = [d \in Devices |-> None]
  /\ chosen = [f \in Files |-> None]
  /\ overruled = {}
  /\ mapped = [f \in Files |-> None]

\* INIT has set the BAR of device d for file f, and for every other file.
ChooseBar(f, d, b) ==
  /\ bar' = [bar EXCEPT ![d] = b]
  /\ chosen' = [chosen EXCEPT ![f] = <<d, b>>]
  /\ mapped' = [mapped EXCEPT ![f] = None]
  /\ overruled' = (overruled \cup {g \in Files \ {f} : chosen[g] \in {d} \X (Bars \ {b})}) \ {f}

\* Wrong variant: an INIT that fails has set the BAR.
ForgetBarLate(f) ==
  /\ \E b \in Bars : bar' = [d \in Devices |-> b]
  /\ chosen' = [chosen EXCEPT ![f] = None]
  /\ mapped' = [mapped EXCEPT ![f] = None]
  /\ overruled' = overruled \ {f}

\* INIT fails once the file is bound, or the file is gone: no choice is left.
ForgetBar(f) ==
  /\ chosen' = [chosen EXCEPT ![f] = None]
  /\ mapped' = [mapped EXCEPT ![f] = None]
  /\ overruled' = overruled \ {f}
  /\ UNCHANGED bar

\* INIT of a device that is not found returns 0 all the same.
ChooseInVain(f, d, b) ==
  /\ chosen' = [chosen EXCEPT ![f] = <<d, b>>]
  /\ mapped' = [mapped EXCEPT ![f] = None]
  /\ overruled' = overruled \cup {f}
  /\ UNCHANGED bar

\* mmap: a range inside the BAR, if it has any.
Map(f) ==
  /\ private[f] # None
  /\ bar[private[f]] \in Bars \ EmptyBars
  /\ mapped' = [mapped EXCEPT ![f] = <<private[f], bar[private[f]]>>]
  /\ UNCHANGED <<bar, chosen, overruled>>

\* A file that chose a BAR maps that one, unless another file's INIT chose
\* another for the same device since, or its own INIT returned 0 and bound
\* nothing; calls that fail disturb no one.
MapsChosenBar ==
  \A f \in open \ overruled : chosen[f] # None /\ mapped[f] # None => mapped[f] = chosen[f]
============================================================================
