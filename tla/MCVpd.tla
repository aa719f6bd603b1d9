------------------------------- MODULE MCVpd -------------------------------
(* The instance of Vpd that TLC checks.                                    *)
EXTENDS Vpd, TLC
============================================================================
