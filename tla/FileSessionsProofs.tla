------------------------- MODULE FileSessionsProofs ------------------------
(***************************************************************************)
(* Proofs about the slots, the BAR and the buffers of FileSessions, for    *)
(* any files, devices, workloads and sizes.  The three parts share no      *)
(* variable but those of FileBinding, so each has an inductive invariant   *)
(* of its own.                                                             *)
(***************************************************************************)
EXTENDS FileSessions, FiniteSetTheorems, TLAPS

\* A call of several steps runs on an open file of mst_pci_bc.c: release on a
\* bound one, and a transfer on one that is not.
Calls ==
  /\ pc \in [Files -> CallSteps]
  /\ \A f \in Files :
       /\ pc[f] # "idle" => f \in open /\ driver = "pci"
       /\ pc[f] = "release" => private[f] # None
       /\ pc[f] \in {"read", "compare", "raise"} => private[f] = None

Bound == BindTypeOK /\ Calls

LEMMA BoundInit == Init => Bound
  BY DEF Init, BindInit, BindTypeOK, Bound, Calls, BufferInit, CallSteps

LEMMA BoundNext == Bound /\ [Next]_vars => Bound'
<1> SUFFICES ASSUME Bound, [Next]_vars PROVE Bound'
  OBVIOUS
<1> USE BindingAssumption DEF Bound, BindTypeOK, Calls, CallSteps, bindVars, Goto
<1>1. CASE UNCHANGED vars
  BY <1>1 DEF vars, bufferVars
<1>2. ASSUME NEW f \in Files, Open(f) PROVE Bound'
  BY <1>2 DEF Open, BindOnOpen, Rewind
<1>3. ASSUME NEW f \in Files, CallInit(f) PROVE Bound'
  <2>1. CASE \E d \in users.devices, b \in users.bars : InitPciInVain(f, d, b)
    BY <2>1 DEF InitPciInVain, bufferVars
  <2>2. ASSUME NEW d \in users.devices,
               \/ InitPciconf(f, d) \/ InitPciFails(f, d)
               \/ \E b \in users.bars : InitPci(f, d, b)
        PROVE  Bound'
    <3>1. d \in Devices /\ Idle(f) /\ Rebind(f, d) /\ pc' = pc
      BY <2>2, WorkloadAssumption DEF InitPciconf, InitPciFails, InitPci, Truncate, bufferVars
    <3> QED
      BY <3>1 DEF Rebind, Idle
  <2> QED
    BY <1>3, <2>1, <2>2 DEF CallInit
<1>4. ASSUME NEW f \in Files, Stop(f) PROVE Bound'
  BY <1>4 DEF Stop, Disable, bufferVars
<1>5. ASSUME NEW f \in Files, AskSlot(f) \/ Mmap(f) PROVE Bound'
  BY <1>5 DEF AskSlot, Mmap, bufferVars
<1>6. ASSUME NEW f \in Files, Transfer(f) PROVE Bound'
  BY <1>6 DEF Transfer, WriteBound, ReadBound, StaticWrite, CopyIn, Compare, Raise, StaticRead,
     LookIn, CopyOut, Idle
<1>7. ASSUME NEW f \in Files, Release(f) PROVE Bound'
  BY <1>7 DEF Release, SlotSeen, Idle
<1>8. ASSUME NEW f \in Files, CloseAtOnce(f) \/ ReleaseSlot(f) PROVE Bound'
  BY <1>8 DEF CloseAtOnce, ReleaseSlot, Unbind, Idle, bufferVars
<1> QED
  BY <1>1, <1>2, <1>3, <1>4, <1>5, <1>6, <1>7, <1>8 DEF Next

\* The bindings of open, INIT and close have their types, and a call of several
\* steps runs on an open file of mst_pci_bc.c whose binding it rests on.
THEOREM AlwaysBound == Spec => []Bound
  BY BoundInit, BoundNext, PTL DEF Spec

----------------------------------------------------------------------------
(* The slots *)

\* A device has the first slot or none, and only mst_main.c keeps a mask.
FirstSlotOnly ==
  \A d \in Devices :
    /\ slot[d] \in {0, 1}
    /\ slots[d] = IF driver = "mstflint" THEN {slot[d]} \ {0} ELSE {}
    /\ driver = "pciconf" => slot[d] = 0

\* An answer that is not void names the slot of its device, and its file is
\* the one that took it.
AnswersStand ==
  \A f \in Files : told[f] # None /\ f \notin void =>
    \E d \in Devices : slot[d] # 0 /\ told[f] = <<d, slot[d]>> /\ taker[d] = f

SlotInv == SlotTypeOK /\ FirstSlotOnly /\ AnswersStand /\ NoOrphanSlot

LEMMA FirstIsOne == FirstUnset({}) = 1
<1>1. 1 \in 1..(SlotCount + 1) /\ 1 \notin {} /\ 1..(1 - 1) \subseteq {}
  BY SlotAssumption
<1>2. ASSUME NEW n \in 1..(SlotCount + 1), n \notin {} /\ 1..(n - 1) \subseteq {} PROVE n = 1
  BY <1>2, SlotAssumption
<1> QED
  BY <1>1, <1>2 DEF FirstUnset

LEMMA SlotInit0 == Init => SlotInv
  BY SlotAssumption DEF Init, BindInit, SlotInit, SlotInv, SlotTypeOK, FirstSlotOnly,
     AnswersStand, NoOrphanSlot

\* A device without a slot gives its first one.
LEMMA AskTakesFirst ==
  ASSUME SlotInv, NEW f \in Files, NEW d \in Devices, Ask(f, d)
  PROVE  /\ slot[d] = 0
         /\ slot' = [slot EXCEPT ![d] = 1]
         /\ slots' = IF driver = "mstflint" THEN [slots EXCEPT ![d] = {1}] ELSE slots
         /\ taker' = [taker EXCEPT ![d] = f]
         /\ \/ told' = [told EXCEPT ![f] = <<d, 1>>] /\ void' = void \ {f}
            \/ UNCHANGED <<told, void>>
         /\ UNCHANGED adrift
<1>1. slots[d] = {}
  BY DEF Ask, SlotInv, FirstSlotOnly
<1>2. FirstUnset(slots[d]) = 1 /\ ~(1 > SlotCount)
  BY <1>1, FirstIsOne, SlotAssumption
<1>3. driver = "mstflint" => [slots EXCEPT ![d] = @ \cup {1}] = [slots EXCEPT ![d] = {1}]
  BY <1>1 DEF SlotInv, SlotTypeOK
<1> QED
  BY <1>2, <1>3 DEF Ask

LEMMA SlotInvNext == Bound /\ SlotInv /\ [Next]_vars => SlotInv'
<1> SUFFICES ASSUME Bound, SlotInv, [Next]_vars PROVE SlotInv'
  OBVIOUS
<1> USE BindingAssumption, SlotAssumption DEF Bound, BindTypeOK, SlotInv, SlotTypeOK,
        FirstSlotOnly, AnswersStand, NoOrphanSlot
<1>1. CASE UNCHANGED vars
  BY <1>1 DEF vars, bindVars, slotVars
<1>2. ASSUME NEW f \in Files, Open(f) PROVE SlotInv'
  BY <1>2 DEF Open, BindOnOpen, slotVars
<1>3. ASSUME NEW f \in Files, CallInit(f) PROVE SlotInv'
  <2>1. CASE \E d \in users.devices : InitPciconf(f, d)
    BY <1>3, <2>1 DEF InitPciconf, Rebind, slotVars
  <2>2. CASE \E d \in users.devices :
               InitPciFails(f, d) \/ \E b \in users.bars : InitPci(f, d, b)
    <3>1. PICK d \in Devices :
            /\ f \in open /\ private' = [private EXCEPT ![f] = d]
            /\ UNCHANGED <<driver, open>> /\ LeaveSlots(f, d)
      BY <2>2, WorkloadAssumption DEF InitPci, InitPciFails, Rebind
    <3>2. SlotTypeOK' /\ FirstSlotOnly' /\ AnswersStand'
      BY <3>1 DEF LeaveSlots
    <3>3. NoOrphanSlot'
      BY <3>1 DEF LeaveSlots
    <3> QED
      BY <3>2, <3>3
  <2>3. CASE \E d \in users.devices, b \in users.bars : InitPciInVain(f, d, b)
    BY <1>3, <2>3 DEF InitPciInVain, slotVars, bindVars
  <2> QED
    BY <1>3, <2>1, <2>2, <2>3 DEF CallInit
<1>4. ASSUME NEW f \in Files, Stop(f) PROVE SlotInv'
  BY <1>4 DEF Stop, Disable, slotVars
<1>5. ASSUME NEW f \in Files, AskSlot(f) PROVE SlotInv'
  <2> DEFINE d == private[f]
  <2>1. d \in Devices /\ driver # "pciconf" /\ f \in open /\ UNCHANGED bindVars
    BY <1>5 DEF AskSlot, Idle
  <2>2. CASE AskAgain(f, d)
    <3>1. PICK n \in Garbage : told' = [told EXCEPT ![f] = <<d, n>>]
      BY <2>2 DEF AskAgain
    <3>2. <<d, n>> \in Devices \X (0..SlotCount)
      BY <2>1, SlotAssumption
    <3>3. SlotTypeOK' /\ FirstSlotOnly' /\ NoOrphanSlot'
      BY <2>1, <2>2, <3>1, <3>2 DEF AskAgain, bindVars
    <3>4. AnswersStand'
      BY <2>2, <3>1 DEF AskAgain
    <3> QED
      BY <3>3, <3>4
  <2>3. CASE Ask(f, d)
    <3> HIDE DEF d
    <3>1. /\ slot[d] = 0
          /\ slot' = [slot EXCEPT ![d] = 1]
          /\ slots' = IF driver = "mstflint" THEN [slots EXCEPT ![d] = {1}] ELSE slots
          /\ taker' = [taker EXCEPT ![d] = f]
          /\ UNCHANGED adrift
      BY <2>1, <2>3, AskTakesFirst
    <3>2. \/ told' = [told EXCEPT ![f] = <<d, 1>>] /\ void' = void \ {f}
          \/ UNCHANGED <<told, void>>
      BY <2>1, <2>3, AskTakesFirst
    <3>3. SlotTypeOK'
      BY <2>1, <3>1, <3>2
    <3>4. FirstSlotOnly'
      <4> SUFFICES ASSUME NEW e \in Devices
                   PROVE  /\ slot'[e] \in {0, 1}
                          /\ slots'[e] = IF driver = "mstflint" THEN {slot'[e]} \ {0} ELSE {}
        BY <2>1 DEF bindVars
      <4>1. CASE e # d
        BY <2>1, <3>1, <4>1
      <4>2. CASE e = d /\ driver = "mstflint"
        BY <2>1, <3>1, <4>2
      <4>3. CASE e = d /\ driver # "mstflint"
        BY <2>1, <3>1, <4>3
      <4> QED
        BY <4>1, <4>2, <4>3
    <3>5. NoOrphanSlot'
      BY <2>1, <3>1 DEF bindVars, d
    <3>6. AnswersStand'
      <4> SUFFICES ASSUME NEW g \in Files, told'[g] # None, g \notin void'
                   PROVE  \E e \in Devices : /\ slot'[e] # 0 /\ told'[g] = <<e, slot'[e]>>
                                             /\ taker'[e] = g
        OBVIOUS
      <4>1. CASE g = f /\ told' = [told EXCEPT ![f] = <<d, 1>>]
        BY <2>1, <3>1, <4>1
      <4>2. CASE told'[g] = told[g] /\ g \notin void
        BY <2>1, <3>1, <4>2
      <4> QED
        BY <3>2, <4>1, <4>2
    <3> QED
      BY <3>3, <3>4, <3>5, <3>6
  <2> QED
    BY <1>5, <2>2, <2>3 DEF AskSlot
<1>6. ASSUME NEW f \in Files, Transfer(f) \/ Mmap(f) \/ Release(f) PROVE SlotInv'
  BY <1>6 DEF Transfer, Mmap, Release, slotVars, bindVars
<1>7. ASSUME NEW f \in Files, CloseAtOnce(f) PROVE SlotInv'
  BY <1>7 DEF CloseAtOnce, SlotSeen, Unbind, Forget
<1>8. ASSUME NEW f \in Files, ReleaseSlot(f) PROVE SlotInv'
  <2> DEFINE d == private[f]
  <2>1. d \in Devices /\ f \in open /\ Free(f, d) /\ Unbind(f)
    BY <1>8 DEF ReleaseSlot, Calls, Idle
  <2>2. SlotTypeOK'
    <3>1. Robbed(f, d) \subseteq Files
      BY DEF Robbed
    <3> QED
      BY <2>1, <3>1 DEF Free
  <2>3. FirstSlotOnly'
    BY <2>1 DEF Free, Unbind
  <2>4. NoOrphanSlot'
    BY <2>1 DEF Free, Unbind
  <2>5. AnswersStand'
    <3> HIDE DEF d
    <3> SUFFICES ASSUME NEW g \in Files, told'[g] # None, g \notin void'
                 PROVE  \E e \in Devices : /\ slot'[e] # 0 /\ told'[g] = <<e, slot'[e]>>
                                           /\ taker'[e] = g
      OBVIOUS
    <3>1. g # f /\ g \notin Robbed(f, d) /\ told[g] = told'[g] /\ g \notin void
      BY <2>1 DEF Free
    <3>2. PICK e \in Devices : slot[e] # 0 /\ told[g] = <<e, slot[e]>> /\ taker[e] = g
      BY <3>1
    <3>3. e # d
      BY <3>1, <3>2 DEF Robbed
    <3> QED
      BY <2>1, <3>1, <3>2, <3>3 DEF Free
  <2> QED
    BY <2>2, <2>3, <2>4, <2>5
<1> QED
  BY <1>1, <1>2, <1>3, <1>4, <1>5, <1>6, <1>7, <1>8 DEF Next

\* The inductive invariant of the slots holds in every reachable state.
THEOREM SlotInvariance == Spec => []SlotInv
  BY SlotInit0, SlotInvNext, AlwaysBound, PTL DEF Spec

\* connectx_wa_slot_p1 and connectx_wa_slots of mst_main.c agree: the search
\* for a slot never fails.
THEOREM MasksAgree == Spec => []MaskAgrees
<1>1. SlotInv => MaskAgrees
  <2> SUFFICES ASSUME SlotInv, NEW d \in Devices
               PROVE  /\ slot[d] <= SlotCount
                      /\ driver = "mstflint" => slots[d] = {slot[d]} \ {0}
    BY DEF MaskAgrees
  <2>1. slot[d] \in {0, 1} /\ (driver = "mstflint" => slots[d] = {slot[d]} \ {0})
    BY DEF SlotInv, FirstSlotOnly
  <2> QED
    BY <2>1, SlotAssumption
<1> QED
  BY <1>1, SlotInvariance, PTL

\* A slot does not outlive its file, unless INIT has bound it elsewhere.
THEOREM NoSlotOrphaned == Spec => []NoOrphanSlot
<1>1. SlotInv => NoOrphanSlot
  BY DEF SlotInv
<1> QED
  BY <1>1, SlotInvariance, PTL

\* Two files are told the same slot only if one of the answers is void.
THEOREM SlotsExclusive == Spec => []SlotIsExclusive
<1>1. Bound /\ SlotInv => SlotIsExclusive
  BY DEF Bound, BindTypeOK, SlotInv, AnswersStand, SlotIsExclusive
<1> QED
  BY <1>1, AlwaysBound, SlotInvariance, PTL

----------------------------------------------------------------------------
(* The BAR *)

\* A choice that is not overruled is that of the device the file is bound to.
ChoiceStands(f) ==
  \E d \in Devices, b \in Bars :
    /\ chosen[f] = <<d, b>> /\ private[f] = d /\ bar[d] = b
    /\ mapped[f] \in {None, <<d, b>>}

\* Only open files of mst_pci_bc.c choose.
BarInv ==
  /\ BarTypeOK
  /\ \A f \in Files : chosen[f] # None =>
       f \in open /\ driver = "pci" /\ (f \in overruled \/ ChoiceStands(f))

LEMMA BarInvInit == Init => BarInv
  BY DEF Init, BarInit, BarInv, BarTypeOK

\* A file that keeps its choice, its binding and its BAR keeps them standing.
LEMMA StandsOn ==
  ASSUME NEW f \in Files, ChoiceStands(f),
         chosen'[f] = chosen[f], mapped'[f] = mapped[f], private'[f] = private[f],
         bar' = bar
  PROVE  ChoiceStands(f)'
  BY DEF ChoiceStands

LEMMA BarInvNext == Bound /\ BarInv /\ [Next]_vars => BarInv'
<1> SUFFICES ASSUME Bound, BarInv, [Next]_vars PROVE BarInv'
  OBVIOUS
<1> USE BindingAssumption, BarAssumption DEF Bound, BindTypeOK, BarInv, BarTypeOK
<1>1. CASE UNCHANGED vars
  BY <1>1, StandsOn DEF vars, bindVars, barVars
<1>2. ASSUME NEW f \in Files, Open(f) PROVE BarInv'
  BY <1>2, StandsOn DEF Open, BindOnOpen, barVars
<1>3. ASSUME NEW f \in Files, CallInit(f) PROVE BarInv'
  <2>1. PICK d \in Devices :
          \/ InitPciconf(f, d)
          \/ InitPciFails(f, d)
          \/ \E b \in users.bars : InitPci(f, d, b) \/ InitPciInVain(f, d, b)
    BY <1>3, WorkloadAssumption DEF CallInit
  <2>2. CASE InitPciconf(f, d)
    BY <2>2 DEF InitPciconf, Rebind, barVars
  <2>3. CASE InitPciFails(f, d)
    BY <2>3, StandsOn DEF InitPciFails, Rebind, ForgetBar
  <2>4. ASSUME NEW b \in Bars, InitPciInVain(f, d, b) PROVE BarInv'
    BY <2>4, StandsOn DEF InitPciInVain, ChooseInVain, Idle, bindVars
  <2>5. ASSUME NEW b \in Bars, InitPci(f, d, b) PROVE BarInv'
    <3>1. /\ driver = "pci" /\ f \in open /\ UNCHANGED <<driver, open>>
          /\ private' = [private EXCEPT ![f] = d]
          /\ bar' = [bar EXCEPT ![d] = b]
          /\ chosen' = [chosen EXCEPT ![f] = <<d, b>>]
          /\ mapped' = [mapped EXCEPT ![f] = None]
      BY <2>5 DEF InitPci, Rebind, ChooseBar
    <3>2. overruled' =
            (overruled \cup {g \in Files \ {f} : chosen[g] \in {d} \X (Bars \ {b})}) \ {f}
      BY <2>5 DEF InitPci, ChooseBar
    <3>3. ChoiceStands(f)'
      BY <3>1 DEF ChoiceStands
    <3>4. ASSUME NEW g \in Files \ {f}, chosen[g] # None, g \notin overruled'
          PROVE  ChoiceStands(g)'
      <4>1. PICK e \in Devices, c \in Bars :
              /\ chosen[g] = <<e, c>> /\ private[g] = e /\ bar[e] = c
              /\ mapped[g] \in {None, <<e, c>>}
        BY <3>2, <3>4 DEF ChoiceStands
      <4>2. e = d => c = b
        BY <3>2, <3>4, <4>1
      <4>3. bar'[e] = c
        BY <3>1, <4>1, <4>2
      <4> QED
        BY <3>1, <4>1, <4>3 DEF ChoiceStands
    <3> QED
      BY <3>1, <3>2, <3>3, <3>4
  <2> QED
    BY <2>1, <2>2, <2>3, <2>4, <2>5, WorkloadAssumption
<1>4. ASSUME NEW f \in Files, Stop(f) PROVE BarInv'
  BY <1>4, StandsOn DEF Stop, Disable, barVars
<1>5. ASSUME NEW f \in Files, AskSlot(f) \/ Transfer(f) \/ Release(f) PROVE BarInv'
  BY <1>5, StandsOn DEF AskSlot, Transfer, Release, bindVars, barVars
<1>6. ASSUME NEW f \in Files, Mmap(f) PROVE BarInv'
  <2>1. UNCHANGED <<bindVars, bar, chosen, overruled>>
    BY <1>6 DEF Mmap, Map
  <2>2. mapped' = [mapped EXCEPT ![f] = <<private[f], bar[private[f]]>>]
    BY <1>6 DEF Mmap, Map
  <2>3. ASSUME NEW g \in Files, ChoiceStands(g) PROVE ChoiceStands(g)'
    BY <2>1, <2>2, <2>3 DEF ChoiceStands, bindVars
  <2>4. <<private[f], bar[private[f]]>> \in Devices \X Bars
    BY <1>6 DEF Mmap, Map
  <2> QED
    BY <2>1, <2>2, <2>3, <2>4 DEF bindVars
<1>7. ASSUME NEW f \in Files, CloseAtOnce(f) \/ ReleaseSlot(f) PROVE BarInv'
  BY <1>7, StandsOn DEF CloseAtOnce, ReleaseSlot, Unbind, ForgetBar
<1> QED
  BY <1>1, <1>2, <1>3, <1>4, <1>5, <1>6, <1>7 DEF Next

\* mmap maps the BAR its file chose with INIT, unless the choice is
\* overruled by another file's or has bound nothing.
THEOREM ChosenBarMapped == Spec => []MapsChosenBar
<1>1. Spec => []BarInv
  BY BarInvInit, BarInvNext, AlwaysBound, PTL DEF Spec
<1>2. Bound /\ BarInv => MapsChosenBar
  <2> SUFFICES ASSUME Bound, BarInv, NEW f \in Files, f \notin overruled,
                      chosen[f] # None, mapped[f] # None
               PROVE  mapped[f] = chosen[f]
    BY DEF MapsChosenBar, Bound, BindTypeOK
  <2> QED
    BY DEF BarInv, BarTypeOK, ChoiceStands
<1> QED
  BY <1>1, <1>2, AlwaysBound, PTL

----------------------------------------------------------------------------
(* The buffers *)

LEMMA MinOf == \A a, b \in Int : Min({a, b}) = IF a <= b THEN a ELSE b
  BY DEF Min

LEMMA MaxOf == \A a, b \in Int : Max({a, b}) = IF a >= b THEN a ELSE b
  BY DEF Max

\* A write of n bytes ends at the end of what it asked for, or of the buffer.
LEMMA RoomEnds ==
  ASSUME BufferTypeOK, NEW f \in Files, NEW n \in Lengths, pos[f] < BufferSize
  PROVE  \E end \in 1..BufferSize :
           /\ pos[f] < end /\ pos[f] + Cardinality(Room(f, n)) = end
           /\ Room(f, n) = pos[f]..(end - 1)
           /\ \A b \in Buffers : UsedAfter(b, end) = IF used[b] >= end THEN used[b] ELSE end
<1> DEFINE end == IF pos[f] + n <= BufferSize THEN pos[f] + n ELSE BufferSize
<1>1. pos[f] \in Nat /\ n \in Nat \ {0} /\ BufferSize \in Nat
  BY BufferAssumption DEF BufferTypeOK, Lengths
<1>2. Min({pos[f] + n, BufferSize}) = end
  BY <1>1, MinOf
<1>3. end \in 1..BufferSize /\ pos[f] < end
  BY <1>1
<1>4. Room(f, n) = pos[f]..(end - 1)
  BY <1>2 DEF Room
<1>5. Cardinality(pos[f]..(end - 1)) = end - pos[f]
  <2> HIDE DEF end
  <2>1. pos[f] \in Int /\ end - 1 \in Int /\ ~(pos[f] > end - 1)
    BY <1>1, <1>3
  <2>2. Cardinality(pos[f]..(end - 1)) = (end - 1) - pos[f] + 1
    BY <2>1, FS_Interval
  <2> QED
    BY <1>1, <1>3, <2>2
<1>6. ASSUME NEW b \in Buffers PROVE UsedAfter(b, end) = IF used[b] >= end THEN used[b] ELSE end
  <2> HIDE DEF end
  <2>1. used[b] \in Int /\ end \in Int
    BY <1>3 DEF BufferTypeOK
  <2> QED
    BY <2>1, MaxOf DEF UsedAfter
<1> HIDE DEF end
<1> QED
  BY <1>1, <1>3, <1>4, <1>5, <1>6

\* A buffer that is used under a mutex.
Exact(b) ==
  /\ written[b] \subseteq Below(used[b])
  /\ b \notin holed => Below(used[b]) \subseteq written[b]

\* The static buffer, where a write is not done until buffer_used is raised.
StaticExact ==
  /\ ~raced =>
       /\ \A f, g \in Files : Writing(f) /\ Writing(g) => f = g
       /\ \A f \in Files : pc[f] = "raise" => used[None] < pos[f]
       /\ \A k \in written[None] :
            k < used[None] \/ \E f \in Files : Writing(f) /\ k < pos[f]
  /\ None \notin holed =>
       /\ Below(used[None]) \subseteq written[None]
       /\ \A f \in Files : Writing(f) => Below(pos[f]) \subseteq written[None]

BufferInv == BufferTypeOK /\ (\A b \in Devices : Exact(b)) /\ StaticExact

LEMMA BufferInvInit == Init => BufferInv
<1> SUFFICES ASSUME Init PROVE BufferInv
  OBVIOUS
<1> USE DEF Init, BufferInit
<1>1. BufferTypeOK
  <2>1. 0 \in 0..BufferSize
    BY BufferAssumption
  <2>2. used \in [Buffers -> 0..BufferSize] /\ pos \in [Files -> 0..BufferSize]
    BY <2>1
  <2>3. mode \in [Files -> Modes] /\ pc \in [Files -> CallSteps]
    BY DEF Modes, CallSteps
  <2>4. written \in [Buffers -> SUBSET (0..(BufferSize - 1))]
    OBVIOUS
  <2> QED
    BY <2>2, <2>3, <2>4 DEF BufferTypeOK
<1>2. \A b \in Buffers : used[b] = 0 /\ written[b] = {} /\ Below(used[b]) = {}
  BY DEF Below
<1>3. \A b \in Devices : Exact(b)
  BY <1>2 DEF Exact, Buffers
<1>4. StaticExact
  BY <1>2 DEF StaticExact, Writing, Buffers
<1> QED
  BY <1>1, <1>3, <1>4 DEF BufferInv

\* Nothing the static buffer's calls look at changes.
LEMMA StaticStays ==
  ASSUME StaticExact,
         used'[None] = used[None], written'[None] = written[None],
         None \in holed' <=> None \in holed, raced' = raced,
         \A f \in Files : (Writing(f)' <=> Writing(f)) /\ (pc'[f] = "raise" <=> pc[f] = "raise"),
         \A f \in Files : Writing(f) \/ pc[f] = "raise" => pos'[f] = pos[f]
  PROVE  StaticExact'
  BY DEF StaticExact, Below

LEMMA WriteBoundExact ==
  ASSUME Bound, BufferInv, NEW f \in Files, NEW n \in Lengths, WriteBound(f, n)
  PROVE  BufferInv'
<1> DEFINE b == private[f]
<1>1. b \in Devices /\ b # None /\ pc[f] = "idle" /\ pos[f] < BufferSize
  BY DEF WriteBound, Idle, Bound, BindTypeOK
<1>2. PICK end \in 1..BufferSize :
        /\ pos[f] < end /\ pos[f] + Cardinality(Room(f, n)) = end
        /\ Room(f, n) = pos[f]..(end - 1)
        /\ \A c \in Buffers : UsedAfter(c, end) = IF used[c] >= end THEN used[c] ELSE end
  BY <1>1, RoomEnds DEF BufferInv
<1>3. /\ pos' = [pos EXCEPT ![f] = end]
      /\ used' = [used EXCEPT ![b] = IF used[b] >= end THEN used[b] ELSE end]
      /\ written' = [written EXCEPT ![b] = @ \cup (pos[f]..(end - 1))]
      /\ holed' = IF pos[f] > used[b] THEN holed \cup {b} ELSE holed
      /\ UNCHANGED <<mode, pc, raced>>
  BY <1>1, <1>2 DEF WriteBound, Buffers
<1> HIDE DEF b
<1>4. BufferTypeOK'
  <2> USE DEF BufferInv, BufferTypeOK, Buffers
  <2>1. pos[f]..(end - 1) \subseteq 0..(BufferSize - 1)
    BY <1>2, BufferAssumption
  <2>2. end \in 0..BufferSize
    OBVIOUS
  <2>3. (IF used[b] >= end THEN used[b] ELSE end) \in 0..BufferSize
    BY <1>1, <2>2
  <2>4. used' \in [Buffers -> 0..BufferSize] /\ pos' \in [Files -> 0..BufferSize]
    BY <1>3, <2>2, <2>3
  <2>5. written' \in [Buffers -> SUBSET (0..(BufferSize - 1))]
    BY <1>1, <1>3, <2>1
  <2> QED
    BY <1>1, <1>3, <2>4, <2>5
<1>5. ASSUME NEW c \in Devices PROVE Exact(c)'
  <2>1. CASE c # b
    BY <1>1, <1>3, <1>5, <2>1 DEF BufferInv, BufferTypeOK, Buffers, Exact
  <2>2. CASE c = b
    <3>1. /\ used'[b] = IF used[b] >= end THEN used[b] ELSE end
          /\ written'[b] = written[b] \cup (pos[f]..(end - 1))
      BY <1>1, <1>3 DEF BufferInv, BufferTypeOK, Buffers
    <3>2. used[b] \in Nat /\ pos[f] \in Nat
      BY <1>1 DEF BufferInv, BufferTypeOK, Buffers
    <3>3. written'[b] \subseteq Below(used'[b])
      BY <1>1, <3>1, <3>2 DEF BufferInv, Exact, Below
    <3>4. b \notin holed' => Below(used'[b]) \subseteq written'[b]
      BY <1>1, <1>3, <3>1, <3>2 DEF BufferInv, Exact, Below
    <3> QED
      BY <2>2, <3>3, <3>4 DEF Exact
  <2> QED
    BY <2>1, <2>2
<1>6. StaticExact'
  BY <1>1, <1>3, BindingAssumption, StaticStays DEF BufferInv, BufferTypeOK, Buffers, Writing
<1> QED
  BY <1>4, <1>5, <1>6 DEF BufferInv

LEMMA CopyInExact ==
  ASSUME Bound, BufferInv, NEW f \in Files, NEW n \in Lengths, CopyIn(f, n)
  PROVE  BufferInv'
<1>1. pc[f] = "idle" /\ pos[f] < BufferSize /\ None \in Buffers
  BY DEF CopyIn, Idle, Buffers
<1>2. PICK end \in 1..BufferSize :
        /\ pos[f] < end /\ pos[f] + Cardinality(Room(f, n)) = end
        /\ Room(f, n) = pos[f]..(end - 1)
  BY <1>1, RoomEnds DEF BufferInv
<1>3. /\ pos' = [pos EXCEPT ![f] = end]
      /\ written' = [written EXCEPT ![None] = @ \cup (pos[f]..(end - 1))]
      /\ holed' = IF pos[f] > used[None] THEN holed \cup {None} ELSE holed
      /\ raced' = (raced \/ \E g \in Files : Writing(g))
      /\ pc' = [pc EXCEPT ![f] = "compare"]
      /\ UNCHANGED <<used, mode>>
  BY <1>2 DEF CopyIn, Goto
<1>4. BufferTypeOK'
  <2> USE DEF BufferInv, BufferTypeOK
  <2>1. pos[f]..(end - 1) \subseteq 0..(BufferSize - 1) /\ end \in 0..BufferSize
    BY <1>2, BufferAssumption
  <2>2. written' \in [Buffers -> SUBSET (0..(BufferSize - 1))]
    BY <1>1, <1>3, <2>1
  <2>3. pos' \in [Files -> 0..BufferSize] /\ pc' \in [Files -> CallSteps]
    BY <1>3, <2>1 DEF CallSteps
  <2>4. holed' \subseteq Buffers /\ raced' \in BOOLEAN
    BY <1>1, <1>3
  <2> QED
    BY <1>3, <2>2, <2>3, <2>4
<1>5. ASSUME NEW c \in Devices PROVE Exact(c)'
  BY <1>3, <1>5, BindingAssumption DEF BufferInv, BufferTypeOK, Buffers, Exact
<1>6. StaticExact'
  <2>1. used[None] \in Nat /\ pos[f] \in Nat
    BY <1>1 DEF BufferInv, BufferTypeOK
  <2>2. /\ used'[None] = used[None] /\ pos'[f] = end
        /\ written'[None] = written[None] \cup (pos[f]..(end - 1))
    BY <1>1, <1>3 DEF BufferInv, BufferTypeOK
  <2>3. pc'[f] = "compare" /\ Writing(f)'
    BY <1>3 DEF BufferInv, BufferTypeOK, Writing
  <2>4. ASSUME NEW g \in Files, g # f
        PROVE  pos'[g] = pos[g] /\ pc'[g] = pc[g] /\ (Writing(g)' <=> Writing(g))
    BY <1>3, <2>4 DEF BufferInv, BufferTypeOK, Writing
  <2>5. ASSUME ~raced'
        PROVE  /\ \A g, h \in Files : Writing(g)' /\ Writing(h)' => g = h
               /\ \A g \in Files : pc'[g] = "raise" => used'[None] < pos'[g]
               /\ \A k \in written'[None] :
                    k < used'[None] \/ \E g \in Files : Writing(g)' /\ k < pos'[g]
    <3>1. ~raced /\ ~\E g \in Files : Writing(g)
      BY <1>3, <2>5 DEF BufferInv, BufferTypeOK
    <3>2. \A g \in Files : Writing(g)' => g = f
      BY <2>4, <3>1
    <3>3. \A g \in Files : pc'[g] # "raise"
      BY <2>3, <2>4, <3>1 DEF Writing
    <3>4. ASSUME NEW k \in written'[None] PROVE k < used'[None] \/ k < pos'[f]
      BY <1>2, <2>1, <2>2, <3>1, <3>4 DEF BufferInv, StaticExact
    <3> QED
      BY <2>3, <3>2, <3>3, <3>4
  <2>6. ASSUME None \notin holed'
        PROVE  /\ Below(used'[None]) \subseteq written'[None]
               /\ \A g \in Files : Writing(g)' => Below(pos'[g]) \subseteq written'[None]
    <3>1. None \notin holed /\ pos[f] <= used[None]
      BY <1>3, <2>1, <2>6
    <3>2. Below(used[None]) \subseteq written[None]
      BY <3>1 DEF BufferInv, StaticExact
    <3>3. Below(end) \subseteq written'[None]
      BY <2>1, <2>2, <3>1, <3>2 DEF Below
    <3>4. ASSUME NEW g \in Files, Writing(g)' PROVE Below(pos'[g]) \subseteq written'[None]
      BY <2>2, <2>4, <3>1, <3>3, <3>4 DEF BufferInv, StaticExact
    <3> QED
      BY <2>2, <3>2, <3>4
  <2> QED
    BY <2>5, <2>6 DEF StaticExact
<1> QED
  BY <1>4, <1>5, <1>6 DEF BufferInv

LEMMA CompareExact ==
  ASSUME Bound, BufferInv, NEW f \in Files, Compare(f)
  PROVE  BufferInv'
<1>1. /\ pc[f] = "compare" /\ UNCHANGED <<used, pos, mode, written, holed, raced>>
      /\ pc' = [pc EXCEPT ![f] = IF used[None] < pos[f] THEN "raise" ELSE "idle"]
  BY DEF Compare, Goto
<1>2. BufferTypeOK'
  BY <1>1 DEF BufferInv, BufferTypeOK, CallSteps
<1>3. \A c \in Devices : Exact(c)'
  BY <1>1 DEF BufferInv, Exact
<1>4. used[None] \in Nat /\ pos \in [Files -> Nat]
  BY DEF BufferInv, BufferTypeOK, Buffers
<1>5. \A g \in Files : Writing(g)' => Writing(g)
  BY <1>1 DEF BufferInv, BufferTypeOK, Writing
<1>6. \A g \in Files : pc'[g] = "raise" => pc[g] = "raise" \/ used[None] < pos[g]
  BY <1>1 DEF BufferInv, BufferTypeOK
<1>7. ASSUME NEW k \in written[None], NEW g \in Files, ~raced, Writing(g), k < pos[g]
      PROVE  k < used[None] \/ \E h \in Files : Writing(h)' /\ k < pos[h]
  <2>1. g = f
    BY <1>1, <1>7 DEF BufferInv, StaticExact, Writing
  <2>2. CASE used[None] < pos[f]
    BY <1>1, <1>7, <2>1, <2>2 DEF BufferInv, BufferTypeOK, Writing
  <2>3. CASE ~(used[None] < pos[f])
    <3>1. k \in Int
      BY DEF BufferInv, BufferTypeOK, Buffers
    <3> QED
      BY <1>4, <1>7, <2>1, <2>3, <3>1
  <2> QED
    BY <2>2, <2>3
<1>8. StaticExact'
  BY <1>1, <1>5, <1>6, <1>7 DEF BufferInv, StaticExact, Below
<1> QED
  BY <1>2, <1>3, <1>8 DEF BufferInv

LEMMA RaiseExact ==
  ASSUME Bound, BufferInv, NEW f \in Files, Raise(f)
  PROVE  BufferInv'
<1>1. /\ pc[f] = "raise" /\ UNCHANGED <<pos, mode, written, holed, raced>>
      /\ pc' = [pc EXCEPT ![f] = "idle"] /\ used' = [used EXCEPT ![None] = pos[f]]
  BY DEF Raise, Goto
<1>2. BufferTypeOK'
  BY <1>1 DEF BufferInv, BufferTypeOK, CallSteps
<1>3. \A c \in Devices : Exact(c)'
  BY <1>1, BindingAssumption DEF BufferInv, BufferTypeOK, Buffers, Exact
<1>4. used[None] \in Nat /\ pos \in [Files -> Nat] /\ used'[None] = pos[f]
  BY <1>1 DEF BufferInv, BufferTypeOK, Buffers
<1>5. \A g \in Files : Writing(g)' <=> Writing(g) /\ g # f
  BY <1>1 DEF BufferInv, BufferTypeOK, Writing
<1>6. Writing(f)
  BY <1>1 DEF Writing
<1>7. ASSUME ~raced
      PROVE  /\ \A g \in Files : ~Writing(g)'
             /\ \A k \in written[None] : k < pos[f]
  <2>1. used[None] < pos[f] /\ \A g \in Files : Writing(g) => g = f
    BY <1>1, <1>6, <1>7 DEF BufferInv, StaticExact
  <2>2. ASSUME NEW k \in written[None] PROVE k \in Int /\ k < pos[f]
    <3>1. k \in Int
      BY DEF BufferInv, BufferTypeOK, Buffers
    <3>2. k < used[None] \/ k < pos[f]
      BY <1>7, <2>1, <2>2 DEF BufferInv, StaticExact
    <3> QED
      BY <1>4, <2>1, <3>1, <3>2
  <2> QED
    BY <1>5, <2>1, <2>2
<1>8. None \notin holed => Below(pos[f]) \subseteq written[None]
  BY <1>6 DEF BufferInv, StaticExact
<1>9. StaticExact'
  <2>1. \A g \in Files : pc'[g] = "raise" => Writing(g)'
    BY DEF Writing
  <2> QED
    BY <1>1, <1>4, <1>5, <1>7, <1>8, <2>1 DEF BufferInv, StaticExact
<1> QED
  BY <1>2, <1>3, <1>9 DEF BufferInv

\* A step that changes no buffer, and moves only files that are in no call.
LEMMA PositionsOnly ==
  ASSUME BufferInv, UNCHANGED <<used, written, holed, raced>>,
         pos' \in [Files -> 0..BufferSize], mode' \in [Files -> Modes],
         pc' \in [Files -> CallSteps],
         \A g \in Files : (Writing(g)' <=> Writing(g)) /\ (pc'[g] = "raise" <=> pc[g] = "raise"),
         \A g \in Files : Writing(g) => pos'[g] = pos[g]
  PROVE  BufferInv'
<1>1. BufferTypeOK'
  BY DEF BufferInv, BufferTypeOK
<1>2. \A c \in Devices : Exact(c)'
  BY DEF BufferInv, Exact
<1>3. StaticExact'
  <2>1. \A g \in Files : pc[g] = "raise" => Writing(g)
    BY DEF Writing
  <2> QED
    BY <2>1, StaticStays DEF BufferInv
<1> QED
  BY <1>1, <1>2, <1>3 DEF BufferInv

\* INIT empties a device's buffer.
LEMMA EmptyExact ==
  ASSUME BufferInv, NEW d \in Devices, Empty(d), UNCHANGED <<pos, mode, pc, raced>>
  PROVE  BufferInv'
<1>1. BufferTypeOK'
  <2>1. 0 \in 0..BufferSize
    BY BufferAssumption
  <2> QED
    BY <2>1 DEF BufferInv, BufferTypeOK, Empty
<1>2. ASSUME NEW c \in Devices PROVE Exact(c)'
  <2>1. CASE c = d
    <3>1. used'[d] = 0 /\ written'[d] = {}
      BY DEF BufferInv, BufferTypeOK, Buffers, Empty
    <3> QED
      BY <2>1, <3>1 DEF Exact, Below
  <2>2. CASE c # d
    BY <2>2 DEF BufferInv, BufferTypeOK, Buffers, Empty, Exact
  <2> QED
    BY <2>1, <2>2
<1>3. StaticExact'
  BY BindingAssumption, StaticStays DEF BufferInv, BufferTypeOK, Buffers, Empty, Writing
<1> QED
  BY <1>1, <1>2, <1>3 DEF BufferInv

LEMMA ReadsMoveOnly ==
  ASSUME Bound, BufferInv, NEW f \in Files, NEW n \in Lengths,
         ReadBound(f, n) \/ LookIn(f) \/ CopyOut(f, n)
  PROVE  BufferInv'
<1> USE DEF BufferInv, BufferTypeOK
<1>1. /\ pos[f] \in 0..BufferSize /\ BufferSize \in Nat /\ n \in Nat \ {0}
      /\ \A b \in Buffers : used[b] \in 0..BufferSize
  BY BufferAssumption DEF Lengths
<1>2. CASE ReadBound(f, n)
  <2>1. private[f] \in Buffers
    BY DEF Bound, BindTypeOK, Buffers
  <2>2. Min({pos[f] + n, used[private[f]]}) \in 0..BufferSize
    BY <1>1, <2>1, MinOf
  <2>3. /\ pos' \in [Files -> 0..BufferSize] /\ pc[f] = "idle"
        /\ \A g \in Files \ {f} : pos'[g] = pos[g]
    BY <1>2, <2>2 DEF ReadBound, Idle
  <2> QED
    BY <1>2, <2>3, PositionsOnly DEF ReadBound, Writing
<1>3. CASE LookIn(f)
  BY <1>3, PositionsOnly DEF LookIn, Idle, Goto, Writing, CallSteps
<1>4. CASE CopyOut(f, n)
  <2>1. None \in Buffers /\ Min({pos[f] + n, used[None]}) \in Int
    BY <1>1, MinOf DEF Buffers
  <2>2. Max({pos[f], Min({pos[f] + n, used[None]})}) \in 0..BufferSize
    <3> DEFINE most == Min({pos[f] + n, used[None]})
    <3>1. most <= used[None]
      BY <1>1, <2>1, MinOf
    <3>2. most \in Int /\ most <= BufferSize
      BY <1>1, <2>1, <3>1
    <3> HIDE DEF most
    <3>3. Max({pos[f], most}) = IF pos[f] >= most THEN pos[f] ELSE most
      BY <1>1, <3>2, MaxOf
    <3>4. Max({pos[f], most}) \in 0..BufferSize
      BY <1>1, <3>2, <3>3
    <3> QED
      BY <3>4 DEF most
  <2>3. /\ pos' \in [Files -> 0..BufferSize] /\ pc[f] = "read"
        /\ \A g \in Files \ {f} : pos'[g] = pos[g]
    BY <1>4, <2>2 DEF CopyOut
  <2> QED
    BY <1>4, <2>3, PositionsOnly DEF CopyOut, Goto, Writing, CallSteps
<1> QED
  BY <1>2, <1>3, <1>4

LEMMA TruncateExact ==
  ASSUME BufferInv, NEW f \in Files, NEW d \in Devices, pc[f] = "idle", Truncate(f, d)
  PROVE  BufferInv'
<1>1. CASE mode[f] = "append"
  <2>1. used[d] \in 0..BufferSize /\ pos' = [pos EXCEPT ![f] = used[d]]
    BY <1>1 DEF Truncate, BufferInv, BufferTypeOK, Buffers
  <2>2. UNCHANGED <<used, written, holed, mode, pc, raced>>
    BY <1>1 DEF Truncate
  <2>3. pos' \in [Files -> 0..BufferSize] /\ \A g \in Files \ {f} : pos'[g] = pos[g]
    BY <2>1 DEF BufferInv, BufferTypeOK
  <2> QED
    BY <2>2, <2>3, PositionsOnly DEF BufferInv, BufferTypeOK, Writing
<1>2. CASE mode[f] = "trunc"
  BY <1>2, EmptyExact DEF Truncate
<1>3. CASE mode[f] = "plain"
  BY <1>3, PositionsOnly DEF Truncate, BufferInv, BufferTypeOK, Writing
<1> QED
  BY <1>1, <1>2, <1>3 DEF BufferInv, BufferTypeOK, Modes

LEMMA Untouched == BufferInv /\ UNCHANGED bufferVars => BufferInv'
  BY PositionsOnly DEF bufferVars, Writing, BufferInv, BufferTypeOK

LEMMA BufferInvNext == Bound /\ BufferInv /\ [Next]_vars => BufferInv'
<1> SUFFICES ASSUME Bound, BufferInv, [Next]_vars PROVE BufferInv'
  OBVIOUS
<1>1. CASE UNCHANGED vars
  BY <1>1, Untouched DEF vars
<1>2. ASSUME NEW f \in Files, Open(f) PROVE BufferInv'
  <2>1. pc[f] = "idle"
    BY <1>2 DEF Open, BindOnOpen, Bound, Calls
  <2>2. pos' \in [Files -> 0..BufferSize] /\ mode' \in [Files -> Modes]
    BY <1>2, BufferAssumption DEF Open, Rewind, BufferInv, BufferTypeOK, Modes
  <2>3. UNCHANGED <<used, pc, written, holed, raced>> /\ \A g \in Files \ {f} : pos'[g] = pos[g]
    BY <1>2 DEF Open, Rewind, BufferInv, BufferTypeOK
  <2> QED
    BY <2>1, <2>2, <2>3, PositionsOnly DEF BufferInv, BufferTypeOK, Writing
<1>3. ASSUME NEW f \in Files, CallInit(f) PROVE BufferInv'
  <2>1. PICK d \in Devices :
          \/ InitPciconf(f, d)
          \/ InitPciFails(f, d)
          \/ \E b \in users.bars : InitPci(f, d, b) \/ InitPciInVain(f, d, b)
    BY <1>3, WorkloadAssumption DEF CallInit, Bound, BindTypeOK
  <2>2. CASE InitPciconf(f, d)
    BY <2>2, TruncateExact DEF InitPciconf, Idle
  <2>3. CASE \E b \in users.bars : InitPci(f, d, b)
    BY <2>3, EmptyExact DEF InitPci
  <2> QED
    BY <2>1, <2>2, <2>3, Untouched DEF InitPciFails, InitPciInVain
<1>4. ASSUME NEW f \in Files, Stop(f) \/ AskSlot(f) \/ Mmap(f) PROVE BufferInv'
  BY <1>4, Untouched DEF Stop, AskSlot, Mmap
<1>5. ASSUME NEW f \in Files, Transfer(f) PROVE BufferInv'
  BY <1>5, WriteBoundExact, CopyInExact, CompareExact, RaiseExact, ReadsMoveOnly
     DEF Transfer, StaticWrite, StaticRead
<1>6. ASSUME NEW f \in Files, CloseAtOnce(f) PROVE BufferInv'
  BY <1>6, Untouched DEF CloseAtOnce
<1>7. ASSUME NEW f \in Files, Release(f) \/ ReleaseSlot(f) PROVE BufferInv'
  <2>1. UNCHANGED <<used, pos, mode, written, holed, raced>> /\ pc[f] \in {"idle", "release"}
    BY <1>7 DEF Release, ReleaseSlot, Idle
  <2>2. pc' = [pc EXCEPT ![f] = "release"] \/ pc' = [pc EXCEPT ![f] = "idle"]
    BY <1>7 DEF Release, ReleaseSlot, Goto
  <2> QED
    BY <2>1, <2>2, PositionsOnly DEF BufferInv, BufferTypeOK, CallSteps, Writing
<1> QED
  BY <1>1, <1>2, <1>3, <1>4, <1>5, <1>6, <1>7 DEF Next

\* The inductive invariant of the buffers holds in every reachable state.
THEOREM BufferInvariance == Spec => []BufferInv
  BY BufferInvInit, BufferInvNext, AlwaysBound, PTL DEF Spec

\* buffer_used covers the writes that have returned, and reads return what
\* was written, but for overlapping static writes and writes past the end.
THEOREM BuffersExact == Spec => []BufferIsWhatWasWritten
<1>1. BufferInv => BufferIsWhatWasWritten
  <2> SUFFICES ASSUME BufferInv, NEW b \in Buffers
               PROVE  /\ (b = None => ~raced /\ ~\E f \in Files : Writing(f))
                           => written[b] \subseteq Below(used[b])
                      /\ b \notin holed => Below(used[b]) \subseteq written[b]
    BY DEF BufferIsWhatWasWritten
  <2>1. CASE b \in Devices
    BY <2>1, BindingAssumption DEF BufferInv, Exact
  <2>2. CASE b = None
    <3>1. written[None] \subseteq Nat /\ used[None] \in Nat
      BY DEF BufferInv, BufferTypeOK, Buffers
    <3> QED
      BY <2>2, <3>1 DEF BufferInv, StaticExact, Below
  <2> QED
    BY <2>1, <2>2 DEF Buffers
<1> QED
  BY <1>1, BufferInvariance, PTL

\* Type correctness of the sessions.
THEOREM TypeCorrect == Spec => []FSTypeOK
<1>1. Bound /\ SlotInv /\ BarInv /\ BufferInv => FSTypeOK
  BY DEF Bound, SlotInv, BarInv, BufferInv, FSTypeOK
<1>2. Spec => []BarInv
  BY BarInvInit, BarInvNext, AlwaysBound, PTL DEF Spec
<1> QED
  BY <1>1, <1>2, AlwaysBound, SlotInvariance, BufferInvariance, PTL
============================================================================
