---------------------------- MODULE DwordMemory ----------------------------
(***************************************************************************)
(* What the read and write callbacks of an nnt_device promise to the ioctl *)
(* handlers, whether it has a VSEC (read_pciconf, write_pciconf and        *)
(* read_dword) or not (read_pciconf_no_vsec, write_pciconf_no_vsec), seen  *)
(* without registers, flags or polls: the device is a memory of dwords,    *)
(* and a transaction goes through its dwords in order, each of which it    *)
(* reads from the memory, or finds there after it has been stored.         *)
(*                                                                         *)
(* The promise holds for one transaction at a time, and may end before the *)
(* transaction does: when another one gets at the registers, or the device *)
(* does not answer in time.  What is stored while it holds for no          *)
(* transaction is left open.                                               *)
(***************************************************************************)
EXTENDS Integers, Sequences

CONSTANTS Spaces, Addrs, Values, InitialMem

VARIABLES
  mem,       \* the address spaces
  transfer   \* the transaction that the promise holds for: [kind, space,
             \* addr, data, word, buf], with the dwords to write in data, those
             \* read in buf and the number of those done in word

vars == <<mem, transfer>>

NoTransfer == [kind |-> "none"]

Transfers ==
  [kind : {"read", "write", "elsewhere"}, space : Spaces, addr : Nat,
   data : Seq(Values), word : Nat, buf : Seq(Values)]

TypeOK ==
  /\ mem \in [Spaces -> [Addrs -> Values]]
  /\ transfer \in Transfers \cup {NoTransfer}

Init == mem = InitialMem /\ transfer = NoTransfer

\* The transaction has its next dword to do, in the memory.
Doing(kind) ==
  /\ transfer.kind = kind
  /\ transfer.word < Len(transfer.data)
  /\ transfer.addr + transfer.word \in Addrs

Held == mem[transfer.space][transfer.addr + transfer.word]

\* Transaction t, with n dwords done; with b read.
Counted(t, n) == [t EXCEPT !.word = n]
Filled(t, b) == [t EXCEPT !.buf = b]

Begin ==
  /\ transfer = NoTransfer
  /\ transfer' \in Transfers /\ transfer'.word = 0
  /\ UNCHANGED mem

ReadDword ==
  /\ Doing("read")
  /\ transfer' =
       Counted(Filled(transfer, [transfer.buf EXCEPT ![transfer.word + 1] = Held]),
               transfer.word + 1)
  /\ UNCHANGED mem

\* It may count the dword at once, or look whether it is there.
StoreDword ==
  /\ Doing("write")
  /\ mem' = [mem EXCEPT ![transfer.space][transfer.addr + transfer.word] =
                          transfer.data[transfer.word + 1]]
  /\ transfer' \in {transfer, Counted(transfer, transfer.word + 1)}

CountDword ==
  /\ Doing("write")
  /\ Held = transfer.data[transfer.word + 1]
  /\ transfer' = Counted(transfer, transfer.word + 1)
  /\ UNCHANGED mem

\* read_dword reads config space, which is no part of the memory.
ReadElsewhere ==
  /\ transfer.kind = "elsewhere" /\ transfer.word = 0
  /\ \E v \in Values : transfer' = Counted(Filled(transfer, <<v>>), 1)
  /\ UNCHANGED mem

\* The transaction, or the promise, ends.
End == transfer' = NoTransfer /\ UNCHANGED mem

\* There is no promise.
Disturb ==
  /\ transfer = NoTransfer
  /\ mem' \in [Spaces -> [Addrs -> Values]]
  /\ UNCHANGED transfer

Next ==
  \/ Begin \/ ReadDword \/ StoreDword \/ CountDword \/ ReadElsewhere \/ End
  \/ Disturb

Spec == Init /\ [][Next]_vars
=============================================================================
