----------------------------- MODULE DeviceIds -----------------------------
(***************************************************************************)
(* The predicates of nnt_device.c on the PCI device id, which decide what  *)
(* kinds of nnt_device a function is given.  A device id is an unsigned    *)
(* short.                                                                  *)
(***************************************************************************)
EXTENDS Integers

Ids == 0..65535

\* check_pci_id_range
InRange(id, first) == first <= id /\ id <= first + 100

IsConnectx(id) == InRange(id, 4099)
IsConnectx3(id) == id \in {4099, 4103}
IsBluefield(id) == InRange(id, 41682)
IsPcieSwitch(id) == InRange(id, 6518)
IsQuantum(id) == InRange(id, 54000)
IsSpectrum(id) == id = 52100 \/ InRange(id, 53100)
IsSwitchIb(id) == id \in {52000, 53000}
IsGb100(id) == InRange(id, 10496)

\* A device in recovery: from CONNECTX3_LIVEFISH_ID up to CONNECTX3_PCI_ID.
IsLivefish(id) == 502 <= id /\ id < 4099

IsNic(id) == IsConnectx(id) \/ IsBluefield(id)

IsSwitch(id) ==
  IsPcieSwitch(id) \/ IsQuantum(id) \/ IsSpectrum(id) \/ IsSwitchIb(id) \/ IsGb100(id)

\* The difference is passed as an unsigned short, and wraps.
Shifted(id) == IF id < 4000 THEN id + 61536 ELSE id - 4000

IsToolspf(id) == IsNic(Shifted(id)) \/ IsSwitch(Shifted(id))

IsPciconf(id) == IsNic(id) \/ IsToolspf(id) \/ IsLivefish(id) \/ IsSwitch(id)

IsPcicr(id) == (IsSwitch(id) \/ IsToolspf(id) \/ IsConnectx3(id)) /\ ~IsLivefish(id)
============================================================================
