---------------------------- MODULE MCDriverLoad ---------------------------
(* The instance of DriverLoad that TLC checks.                             *)
EXTENDS DriverLoad, TLC

CONSTANTS connectx5, quantum, other

\* A device of mst_pciconf alone, one of both MFT modules, and one that is
\* counted and served by none.
MCId == (connectx5 :> 4119) @@ (quantum :> 54000) @@ (other :> 61442)
============================================================================
