--------------------------- MODULE MCDeviceAccess ---------------------------
(* The instance of DeviceAccess that TLC checks. *)
EXTENDS DeviceAccess, TLC

CONSTANTS i1, i2

\* The required spaces are all supported, or one is not; or there is no VSEC
\* and the gateway is of either kind.
Model(v, s, w) == [vsec |-> v, supported |-> s, wo |-> w]
MCModels ==
  { Model(TRUE, {"cr", "semaphore"}, FALSE), Model(TRUE, {"cr", "mac"}, TRUE),
    Model(FALSE, {}, FALSE), Model(FALSE, {}, TRUE) }
MCProbeOrder == <<"cr", "semaphore", "mac">>
MCFlagOrder == <<"cr", "semaphore">>
MCMaxCalls == [vsec \in BOOLEAN |-> IF vsec THEN 2 ELSE 3]
MCInitialMem == [a \in 0..MaxAddr |-> a]

\* A read and a write of the whole memory, the read with a size that only
\* begins its second dword; and a read of more dwords than data[] has places
\* and the device has memory for.
Request(op, a, n, d) == [op |-> op, addr |-> a, size |-> n, data |-> d]
MCRequests ==
  { Request("read", 0, 5, <<1, 0>>), Request("write", 0, 8, <<1, 0>>),
    Request("read", 1, 8, <<1>>) }

\* With a VSEC an access only selects its space, so the requests differ in no
\* more than what may happen when one ends: all of it does for one that does
\* not fit.
WithVsecUnfit == model.vsec => \A c \in Clients : job[c] \in Requests => ~Fits(job[c])

\* Tickets are not told apart.
Symmetry == Permutations(Tickets)
=============================================================================
