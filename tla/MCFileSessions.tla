--------------------------- MODULE MCFileSessions --------------------------
(* The instance of FileSessions that TLC checks.                           *)
EXTENDS FileSessions, TLC

CONSTANTS d1, d2, b1, b2, b3

\* Slots, buffers and BARs are fields of their own of a device and meet only
\* in open, INIT and close, so users who mix two of these calls reach nothing
\* new; those who transfer use one device and the static buffer.
MCWorkloads ==
  { [calls |-> {"slot"}, devices |-> {d1, d2}, bars |-> {b1}],
    [calls |-> {"transfer"}, devices |-> {d1}, bars |-> {b1}],
    [calls |-> {"mmap"}, devices |-> {d1, d2}, bars |-> {b1, b2, b3}] }

FilesAlike == Permutations(Files)
============================================================================
