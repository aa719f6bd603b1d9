---------------------------- MODULE RwOperation ----------------------------
(***************************************************************************)
(* struct nnt_rw_operation: the size that user space gives, in bytes, and  *)
(* data[], which the loops of nnt_pci_conf_access.c and of                 *)
(* nnt_pci_conf_access_no_vsec.c go through by dwords.  Nothing compares   *)
(* the two.                                                                *)
(***************************************************************************)
EXTENDS Integers, Sequences

\* The dwords that the loop goes through: those that begin within the size,
\* an int.
Count(r) == IF r.size <= 0 THEN 0 ELSE (r.size + 3) \div 4

\* The loop stays within data[].
Fits(r) == Count(r) <= Len(r.data)

\* A dword that the loop is at, after w others, has no place in data[].
BehindData(r, w) == w >= Len(r.data)
=============================================================================
