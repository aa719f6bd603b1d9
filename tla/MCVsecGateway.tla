--------------------------- MODULE MCVsecGateway ---------------------------
(* The instance of VsecGateway that TLC checks. *)
EXTENDS VsecGateway, TLC

\* A space that is supported and one that is not, with contents that tell
\* their dwords apart.
MCSpaces == {"cr", "none"}
MCSupported == {"cr"}
MCInitialMem == [s \in MCSpaces |-> [a \in 0..MaxAddr |-> IF s = "cr" THEN a ELSE 1 - a]]

Request(cmd, s, a, n, d) == [cmd |-> cmd, space |-> s, addr |-> a, size |-> n, data |-> d]

\* A read of two dwords, the second of which the size only begins; a write
\* whose second dword is out of reach; a write to the space that is not
\* supported; and a read and a write of more dwords than data[] has.
MCRequests ==
  { Request("READ4_BUFFER", "cr", 0, 5, <<1, 0>>),
    Request("WRITE4_BUFFER", "cr", MaxAddr, 8, <<0, 0>>),
    Request("WRITE4", "none", 0, 4, <<1>>),
    Request("READ_DWORD", "cr", 0, 4, <<0>>),
    Request("READ4_BUFFER", "cr", 0, 8, <<1>>),
    Request("WRITE4_BUFFER", "cr", 0, 8, <<1>>) }

\* PCIBIOS_DEVICE_NOT_FOUND.
MCPciErrors == {134}

\* Neither threads nor tickets are told apart.
Symmetry == Permutations(Clients) \cup Permutations(Tickets)
============================================================================
