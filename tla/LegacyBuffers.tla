--------------------------- MODULE LegacyBuffers ---------------------------
(***************************************************************************)
(* read and write of mst_pciconf_bc.c and mst_pci_bc.c: a scratch buffer   *)
(* of each device, and in mst_pci_bc.c a static one for the files of a     *)
(* minor number that are bound to no device, which is used with no lock.   *)
(* A file's position is its own, and INIT empties a buffer under the       *)
(* positions of all.                                                       *)
(***************************************************************************)
EXTENDS FileBinding, Integers, FiniteSetsExt

CONSTANT BufferSize    \* MST_BC_BUFFER_SIZE

ASSUME BufferAssumption == BufferSize \in Nat \ {0}

VARIABLES
  used,     \* buffer_used of each device, of None for the static buffer
  pos,      \* f_pos of each file
  mode,     \* O_APPEND, O_TRUNC or O_WRONLY, or neither, in f_flags
  pc,       \* where a call on the static buffer, or a release, is
  written,  \* history: the cells written since the buffer was emptied
  holed,    \* history: the buffers written to past buffer_used since then
  raced     \* history: two writes to the static buffer overlapped

bufferVars == <<used, pos, mode, pc, written, holed, raced>>

Buffers == Devices \cup {None}
Modes == {"append", "trunc", "plain"}
CallSteps == {"idle", "read", "compare", "raise", "release"}

BufferTypeOK ==
  /\ used \in [Buffers -> 0..BufferSize]
  /\ pos \in [Files -> 0..BufferSize]
  /\ mode \in [Files -> Modes]
  /\ pc \in [Files -> CallSteps]
  /\ written \in [Buffers -> SUBSET (0..(BufferSize - 1))]
  /\ holed \subseteq Buffers
  /\ raced \in BOOLEAN

BufferInit ==
  /\ used = [b \in Buffers |-> 0]
  /\ pos = [f \in Files |-> 0]
  /\ mode = [f \in Files |-> "plain"]
  /\ pc = [f \in Files |-> "idle"]
  /\ written = [b \in Buffers |-> {}]
  /\ holed = {}
  /\ raced = FALSE

Idle(f) == f \in open /\ pc[f] = "idle"

Goto(f, step) == pc' = [pc EXCEPT ![f] = step]

\* A file opened anew.  Only INIT of mst_pciconf_bc.c looks at the flags.
Rewind(f) ==
  /\ pos' = [pos EXCEPT ![f] = 0]
  /\ \E m \in (IF driver = "pciconf" THEN Modes ELSE {"plain"}) : mode' = [mode EXCEPT ![f] = m]
  /\ UNCHANGED <<used, pc, written, holed, raced>>

Empty(d) ==
  /\ used' = [used EXCEPT ![d] = 0]
  /\ written' = [written EXCEPT ![d] = {}]
  /\ holed' = holed \ {d}

\* INIT of mst_pciconf_bc.c moves the file to the end, or empties the buffer
\* and leaves the position.
Truncate(f, d) ==
  /\ CASE mode[f] = "append" ->
              pos' = [pos EXCEPT ![f] = used[d]] /\ UNCHANGED <<used, written, holed>>
       [] mode[f] = "trunc"  -> Empty(d) /\ UNCHANGED pos
       [] mode[f] = "plain"  -> UNCHANGED <<used, pos, written, holed>>
  /\ UNCHANGED <<mode, pc, raced>>

\* Wrong variant: a write is not cut off at the end of the buffer.
RoomUncut(f, n) == pos[f]..(pos[f] + n - 1)

\* The cells a write of n bytes at f_pos fills.
Room(f, n) == pos[f]..(Min({pos[f] + n, BufferSize}) - 1)

\* Wrong variant: buffer_used follows every write, also those before its end.
UsedFollows(b, end) == end

\* buffer_used after a write that ended at end.
UsedAfter(b, end) == Max({used[b], end})

\* write, under the device's mutex.  At the end of the buffer it returns 0; a
\* copy from user space that fails changes no state.
WriteBound(f, n) ==
  /\ Idle(f) /\ private[f] # None /\ pos[f] < BufferSize
  /\ LET b == private[f]
         end == pos[f] + Cardinality(Room(f, n))
     IN /\ pos' = [pos EXCEPT ![f] = end]
        /\ used' = [used EXCEPT ![b] = UsedAfter(b, end)]
        /\ written' = [written EXCEPT ![b] = @ \cup Room(f, n)]
        /\ holed' = IF pos[f] > used[b] THEN holed \cup {b} ELSE holed
  /\ UNCHANGED <<mode, pc, raced>>

\* read, under the device's mutex.
ReadBound(f, n) ==
  /\ Idle(f) /\ private[f] # None /\ pos[f] < used[private[f]]
  /\ pos' = [pos EXCEPT ![f] = Min({@ + n, used[private[f]]})]
  /\ UNCHANGED <<used, mode, pc, written, holed, raced>>

----------------------------------------------------------------------------
(* The static buffer: mst_pci_bc.c takes no lock *)

Writing(f) == pc[f] \in {"compare", "raise"}

\* The data is copied, and the position moves on.
CopyIn(f, n) ==
  /\ Idle(f) /\ private[f] = None /\ pos[f] < BufferSize
  /\ pos' = [pos EXCEPT ![f] = @ + Cardinality(Room(f, n))]
  /\ written' = [written EXCEPT ![None] = @ \cup Room(f, n)]
  /\ holed' = IF pos[f] > used[None] THEN holed \cup {None} ELSE holed
  /\ raced' = (raced \/ \E g \in Files : Writing(g))
  /\ Goto(f, "compare")
  /\ UNCHANGED <<used, mode>>

\* buffer_used is compared with the new position in one step ...
Compare(f) ==
  /\ pc[f] = "compare"
  /\ Goto(f, IF used[None] < pos[f] THEN "raise" ELSE "idle")
  /\ UNCHANGED <<used, pos, mode, written, holed, raced>>

\* ... and set to it in another.
Raise(f) ==
  /\ pc[f] = "raise"
  /\ used' = [used EXCEPT ![None] = pos[f]]
  /\ Goto(f, "idle")
  /\ UNCHANGED <<pos, mode, written, holed, raced>>

LookIn(f) ==
  /\ Idle(f) /\ private[f] = None /\ pos[f] < used[None]
  /\ Goto(f, "read")
  /\ UNCHANGED <<used, pos, mode, written, holed, raced>>

\* The length is cut down to what buffer_used is by now.  A negative one is a
\* size beyond the address space, and the copy fails.
CopyOut(f, n) ==
  /\ pc[f] = "read"
  /\ pos' = [pos EXCEPT ![f] = Max({@, Min({@ + n, used[None]})})]
  /\ Goto(f, "idle")
  /\ UNCHANGED <<used, mode, written, holed, raced>>

StaticWrite(f, n) == CopyIn(f, n) \/ Compare(f) \/ Raise(f)

StaticRead(f, n) == LookIn(f) \/ CopyOut(f, n)

----------------------------------------------------------------------------
(* Properties *)

Below(n) == 0..(n - 1)

\* buffer_used covers what was written since the buffer was emptied, in calls
\* that have returned, unless two writes to the static buffer overlapped: the
\* slower one then sets buffer_used back.  And what a read may return was
\* written since then, unless a write went past buffer_used: INIT empties the
\* buffer and leaves every file's position, its own included, where it was.
BufferIsWhatWasWritten ==
  \A b \in Buffers :
    /\ (b = None => ~raced /\ ~\E f \in Files : Writing(f)) => written[b] \subseteq Below(used[b])
    /\ b \notin holed => Below(used[b]) \subseteq written[b]
============================================================================
