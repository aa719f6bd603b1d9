--------------------------- MODULE PpcResetProofs ---------------------------
(***************************************************************************)
(* The safety properties of PpcReset, for any devices, list, slots and     *)
(* bounds.                                                                 *)
(***************************************************************************)
EXTENDS PpcReset, FiniteSetTheorems, TLAPS

Resetting == {"assert", "deassert", "wait", "restore"}

\* What each loop of pci_devices_reset leaves to the next.
Progress ==
  /\ pc \in Loops \cup {"oops"} => probed \in Devs
  /\ pc = "idle" => probed = None
  /\ pc = "save" => \A j \in Positions : j < i => entry[j] \in Devs \cap saved
  /\ pc \in Resetting => \A j \in Positions : entry[j] \in Devs
  /\ pc \in {"assert", "deassert", "wait"} => \A j \in Positions : entry[j] \in saved

\* The slots that a list of positions takes down.
SlotsOf(J) == {Slot[entry[j]] : j \in {k \in J : entry[k] \in Function0}}

\* The slots in reset are those the loops have passed and not let go, as long
\* as no call failed.
InReset ==
  faults = 0 =>
    asserted \subseteq CASE pc = "assert"   -> SlotsOf({j \in Positions : j < i})
                         [] pc = "deassert" -> SlotsOf({j \in Positions : j >= i})
                         [] OTHER           -> {}

Responding(j) == j = 1 \/ Id[entry[j]] # Id[entry[j - 1]] => entry[j] \notin down

\* What wait_for_response has read, and whom it has seen.
Waited ==
  /\ pc \notin {"wait", "restore"} => id = Unknown
  /\ pc = "wait" =>
       /\ \A j \in Positions : j < i => Responding(j)
       /\ \/ id = Unknown
          \/ i \in Positions /\ id = Id[entry[i]] /\ entry[i] \notin down
          \/ i > 1 /\ id = Id[entry[i - 1]]
  /\ pc = "restore" => \A j \in Positions : Responding(j)

FoundPositions == {j \in Positions : Requested[j] \in bound \cup {probed}}

\* The count is that of the entries found, until a device goes.
Counted ==
  ~lost =>
    /\ found = Cardinality(FoundPositions)
    /\ \A j \in FoundPositions : entry[j] = Requested[j]
    /\ pc # "idle" => found = Len(Requested)

----------------------------------------------------------------------------

LEMMA PositionFacts ==
  /\ Len(Requested) \in Nat
  /\ \A j \in Positions : Requested[j] \in Devs
  /\ IsFiniteSet(Positions) /\ Cardinality(Positions) = Len(Requested)
  /\ \A J \in SUBSET Positions : IsFiniteSet(J) /\ Cardinality(J) \in Nat
<1>1. Len(Requested) \in Nat /\ \A j \in Positions : Requested[j] \in Devs
  BY PpcAssumption DEF Positions
<1>2. IsFiniteSet(Positions) /\ Cardinality(Positions) = Len(Requested)
  BY <1>1, FS_Interval DEF Positions
<1>3. \A J \in SUBSET Positions : IsFiniteSet(J) /\ Cardinality(J) \in Nat
  BY <1>2, FS_Subset, FS_CardinalityType
<1> QED
  BY <1>1, <1>2, <1>3

IInv == TypeOK /\ Progress /\ InReset /\ Waited /\ Counted

LEMMA InitIInv == Init => IInv
<1> SUFFICES ASSUME Init PROVE IInv
  OBVIOUS
<1>1. TypeOK
  <2>1. MaxPolls \in Nat /\ MaxFaults \in Nat /\ MaxRemovals \in Nat
    BY PpcAssumption
  <2>2. id \in {Id[d] : d \in Devs} \cup {Unknown} /\ entry \in [Positions -> Devs \cup {None}]
    BY DEF Init
  <2>3. found \in Nat /\ i \in 1..(Len(Requested) + 1) /\ polls \in 0..(MaxPolls + 1)
        /\ faults \in 0..MaxFaults /\ removals \in 0..MaxRemovals
    BY <2>1, PositionFacts DEF Init
  <2>4. bound \subseteq Devs /\ saved \subseteq Devs /\ down \subseteq Devs
        /\ asserted \subseteq {Slot[d] : d \in Devs} /\ done \in BOOLEAN /\ lost \in BOOLEAN
        /\ probed \in Devs \cup {None} /\ pc \in Loops \cup {"idle", "oops"}
    BY DEF Init
  <2> QED
    BY <2>2, <2>3, <2>4 DEF TypeOK
<1>2. Progress /\ InReset /\ Waited
  BY DEF Init, Progress, InReset, Waited, Loops, Resetting
<1>3. FoundPositions = {}
  BY PositionFacts, PpcAssumption DEF Init, FoundPositions
<1>4. Counted
  BY <1>3, FS_EmptySet DEF Init, Counted
<1> QED
  BY <1>1, <1>2, <1>4 DEF IInv

LEMMA TypeNext == TypeOK /\ Progress /\ [Next]_vars => TypeOK'
<1> SUFFICES ASSUME TypeOK, Progress, [Next]_vars PROVE TypeOK'
  OBVIOUS
<1> USE PositionFacts, PpcAssumption DEF TypeOK, Loops, listVars, loopVars, waitVars, hwVars,
    boundVars
<1>1. ASSUME NEW d \in Devs, Probe(d) PROVE TypeOK'
  <2>1. Count(d) \in Nat
    BY DEF Count, Matches
  <2>2. entry' \in [Positions -> Devs \cup {None}]
    BY <1>1 DEF Probe
  <2>3. i' \in 1..(Len(Requested) + 1)
    BY <1>1 DEF Probe
  <2> QED
    BY <1>1, <2>1, <2>2, <2>3 DEF Probe
<1>2. ASSUME NEW d \in Devs, Remove(d) PROVE TypeOK'
  BY <1>2 DEF Remove
<1>3. ASSUME NEW d \in Devs, Recover(d) PROVE TypeOK'
  BY <1>3 DEF Recover
<1>4. CASE Oops
  BY <1>4 DEF Oops
<1>5. ASSUME At(pc) PROVE i \in Positions /\ Current \in Devs \cup {None}
  BY <1>5 DEF At, Current, Positions
<1>6. CASE Save
  BY <1>5, <1>6 DEF Save, Advance, At
<1>7. ASSUME Current \in Function0 PROVE Slot[Current] \in {Slot[d] : d \in Devs}
  BY <1>7
<1>8. CASE AssertReset
  <2>1. asserted' \subseteq {Slot[d] : d \in Devs} /\ down' \subseteq Devs
    BY <1>7, <1>8 DEF AssertReset
  <2> QED
    BY <1>8, <2>1 DEF AssertReset, Advance, At
<1>9. CASE DeassertReset
  <2>1. asserted' \subseteq {Slot[d] : d \in Devs}
    BY <1>9 DEF DeassertReset
  <2> QED
    BY <1>9, <2>1 DEF DeassertReset, Advance, At
<1>10. CASE CallFails
  BY <1>10 DEF CallFails, EndProbe
<1>11. CASE Seen
  BY <1>11 DEF Seen, Advance, At
<1>12. CASE Poll
  <2>1. Current \in Devs
    BY <1>5, <1>12 DEF Poll, At, Progress, Resetting, Current
  <2> QED
    BY <1>12, <2>1 DEF Poll, IdRead
<1>13. CASE GiveUp
  BY <1>13 DEF GiveUp, EndProbe
<1>14. CASE Restore
  <2>1. probed \in Devs
    BY <1>14 DEF Restore, At, Progress
  <2>2. CASE i < Len(Requested)
    BY <1>14, <2>2 DEF Restore, At
  <2>3. CASE ~(i < Len(Requested))
    BY <1>14, <2>1, <2>3 DEF Restore, EndProbe
  <2> QED
    BY <2>2, <2>3
<1>15. CASE UNCHANGED vars
  BY <1>15 DEF vars
<1> QED
  BY <1>1, <1>2, <1>3, <1>4, <1>6, <1>8, <1>9, <1>10, <1>11, <1>12, <1>13, <1>14, <1>15
  DEF Next, ResetStep

\* While a reset runs nobody but the driver core's removals and the devices
\* that recover interfere with it.
LEMMA ProgressNext == TypeOK /\ Progress /\ [Next]_vars => Progress'
<1> SUFFICES ASSUME TypeOK, Progress, [Next]_vars PROVE Progress'
  OBVIOUS
<1> USE PositionFacts, PpcAssumption DEF TypeOK, Progress, Loops, Resetting, listVars, loopVars,
    waitVars, hwVars, boundVars
<1>1. ASSUME NEW d \in Devs, Probe(d) PROVE Progress'
  BY <1>1 DEF Probe, Positions
<1>2. ASSUME NEW d \in Devs, Remove(d) \/ Recover(d) PROVE Progress'
  BY <1>2 DEF Remove, Recover
<1>3. CASE Oops
  BY <1>3 DEF Oops, At
<1>4. CASE Save
  <2>1. i \in Positions /\ entry[i] \in Devs /\ saved' = saved \cup {entry[i]} /\ pc = "save"
        /\ UNCHANGED <<entry, probed>>
    BY <1>4 DEF Save, At, Current, Positions
  <2>2. \A j \in Positions : j <= i => entry[j] \in Devs \cap saved'
    BY <2>1 DEF Positions
  <2>3. CASE i < Len(Requested)
    BY <1>4, <2>1, <2>2, <2>3 DEF Save, Advance, Positions
  <2>4. CASE ~(i < Len(Requested))
    <3>1. \A j \in Positions : entry[j] \in Devs /\ entry[j] \in saved'
      BY <2>2, <2>4 DEF Positions
    <3> QED
      BY <1>4, <2>1, <2>4, <3>1 DEF Save, Advance
  <2> QED
    BY <2>3, <2>4
<1>5. CASE AssertReset
  BY <1>5 DEF AssertReset, Advance, At
<1>6. CASE DeassertReset
  BY <1>6 DEF DeassertReset, Advance, At
<1>7. CASE CallFails
  BY <1>7 DEF CallFails, EndProbe
<1>8. CASE Seen
  BY <1>8 DEF Seen, Advance, At
<1>9. CASE Poll
  BY <1>9 DEF Poll
<1>10. CASE GiveUp
  BY <1>10 DEF GiveUp, EndProbe
<1>11. CASE Restore
  BY <1>11 DEF Restore, EndProbe, At
<1>12. CASE UNCHANGED vars
  BY <1>12 DEF vars
<1> QED
  BY <1>1, <1>2, <1>3, <1>4, <1>5, <1>6, <1>7, <1>8, <1>9, <1>10, <1>11, <1>12
  DEF Next, ResetStep

\* The loop that takes the slots down and the one that lets them go walk the
\* same list.
LEMMA InResetNext == TypeOK /\ Progress /\ InReset /\ [Next]_vars => InReset'
<1> SUFFICES ASSUME TypeOK, Progress, InReset, [Next]_vars, faults' = 0 PROVE InReset'
  BY DEF InReset
<1> USE PositionFacts, PpcAssumption DEF listVars, loopVars, waitVars, hwVars, boundVars
<1>1. ASSUME NEW d \in Devs, Probe(d) PROVE InReset'
  BY <1>1 DEF Probe, InReset
<1>2. ASSUME NEW d \in Devs, Remove(d) \/ Recover(d) PROVE InReset'
  BY <1>2 DEF Remove, Recover, InReset, SlotsOf
<1>3. CASE Oops
  BY <1>3 DEF Oops, At, InReset
<1>4. CASE Save
  BY <1>4 DEF Save, Advance, At, InReset
<1>5. CASE AssertReset
  <2>1. i \in Positions /\ pc = "assert" /\ entry' = entry /\ faults = 0
    BY <1>5 DEF AssertReset, At, TypeOK, Positions
  <2>2. asserted \subseteq SlotsOf({j \in Positions : j < i})
    BY <2>1 DEF InReset
  <2>3. asserted' \subseteq SlotsOf({j \in Positions : j <= i})
    BY <1>5, <2>1, <2>2 DEF AssertReset, SlotsOf, Current, Positions
  <2>4. CASE i < Len(Requested)
    <3>1. {j \in Positions : j < i'} = {j \in Positions : j <= i} /\ pc' = "assert"
      BY <1>5, <2>1, <2>4 DEF AssertReset, Advance, Positions
    <3> QED
      BY <2>1, <2>3, <3>1 DEF InReset, SlotsOf
  <2>5. CASE ~(i < Len(Requested))
    <3>1. {j \in Positions : j <= i} = {j \in Positions : j >= i'} /\ pc' = "deassert"
      BY <1>5, <2>1, <2>5 DEF AssertReset, Advance, Positions
    <3> QED
      BY <2>1, <2>3, <3>1 DEF InReset, SlotsOf
  <2> QED
    BY <2>4, <2>5
<1>6. CASE DeassertReset
  <2>1. i \in Positions /\ pc = "deassert" /\ entry' = entry /\ faults = 0
    BY <1>6 DEF DeassertReset, At, TypeOK, Positions
  <2>2. asserted \subseteq SlotsOf({j \in Positions : j >= i})
    BY <2>1 DEF InReset
  <2>3. asserted' \subseteq SlotsOf({j \in Positions : j > i})
    BY <1>6, <2>1, <2>2 DEF DeassertReset, SlotsOf, Current, Positions
  <2>4. CASE i < Len(Requested)
    <3>1. {j \in Positions : j > i} = {j \in Positions : j >= i'} /\ pc' = "deassert"
      BY <1>6, <2>1, <2>4 DEF DeassertReset, Advance, Positions
    <3> QED
      BY <2>1, <2>3, <3>1 DEF InReset, SlotsOf
  <2>5. CASE ~(i < Len(Requested))
    <3>1. {j \in Positions : j > i} = {} /\ pc' = "wait"
      BY <1>6, <2>1, <2>5 DEF DeassertReset, Advance, Positions
    <3>2. asserted' = {}
      BY <2>3, <3>1 DEF SlotsOf
    <3> QED
      BY <3>1, <3>2 DEF InReset
  <2> QED
    BY <2>4, <2>5
<1>7. CASE CallFails
  BY <1>7 DEF CallFails, TypeOK
<1>8. CASE Seen
  BY <1>8 DEF Seen, Advance, At, InReset
<1>9. CASE Poll
  BY <1>9 DEF Poll, At, InReset
<1>10. CASE GiveUp
  BY <1>10 DEF GiveUp, EndProbe, At, InReset
<1>11. CASE Restore
  BY <1>11 DEF Restore, EndProbe, At, InReset
<1>12. CASE UNCHANGED vars
  BY <1>12 DEF vars, InReset, SlotsOf
<1> QED
  BY <1>1, <1>2, <1>3, <1>4, <1>5, <1>6, <1>7, <1>8, <1>9, <1>10, <1>11, <1>12
  DEF Next, ResetStep

\* A device that the wait loop passed on its own id responded, and nothing
\* takes it down again.
LEMMA WaitedNext == TypeOK /\ Progress /\ Waited /\ [Next]_vars => Waited'
<1> SUFFICES ASSUME TypeOK, Progress, Waited, [Next]_vars PROVE Waited'
  OBVIOUS
<1> USE PositionFacts, PpcAssumption DEF listVars, loopVars, waitVars, hwVars, boundVars
<1>1. ASSUME NEW d \in Devs, Probe(d) PROVE Waited'
  BY <1>1 DEF Probe, Waited
<1>2. ASSUME NEW d \in Devs, Remove(d) \/ Recover(d) PROVE Waited'
  <2>1. down' \subseteq down /\ UNCHANGED <<entry, pc, i, id>>
    BY <1>2 DEF Remove, Recover
  <2> QED
    BY <2>1 DEF Waited, Responding
<1>3. CASE Oops
  BY <1>3 DEF Oops, At, Waited
<1>4. CASE Save
  BY <1>4 DEF Save, Advance, At, Waited
<1>5. CASE AssertReset
  BY <1>5 DEF AssertReset, Advance, At, Waited
<1>6. CASE DeassertReset
  <2>1. pc' = "wait" => i' = 1
    BY <1>6 DEF DeassertReset, Advance, At
  <2>2. id' = Unknown /\ pc' \in {"deassert", "wait"}
    BY <1>6 DEF DeassertReset, Advance, At, Waited
  <2> QED
    BY <2>1, <2>2 DEF Waited, Positions
<1>7. CASE CallFails
  BY <1>7 DEF CallFails, EndProbe, Waited
<1>8. CASE Seen
  <2>1. i \in Positions /\ pc = "wait" /\ id = Id[entry[i]] /\ UNCHANGED <<entry, id, down>>
    BY <1>8 DEF Seen, At, Current, TypeOK, Positions
  <2>2. entry[i] \in Devs
    BY <2>1 DEF Progress, Resetting
  <2>3. Responding(i)
    BY <2>1, <2>2 DEF Waited, Responding
  <2>4. \A j \in Positions : j <= i => Responding(j)
    BY <2>1, <2>3 DEF Waited, Positions
  <2>5. \A j \in Positions : Responding(j) => Responding(j)'
    BY <2>1 DEF Responding
  <2>6. CASE i < Len(Requested)
    <3>1. i' = i + 1 /\ pc' = "wait" /\ i' > 1 /\ i' - 1 = i
      BY <1>8, <2>1, <2>6 DEF Seen, Advance, Positions
    <3> QED
      BY <2>1, <2>4, <2>5, <3>1 DEF Waited, Positions
  <2>7. CASE ~(i < Len(Requested))
    <3>1. pc' = "restore" /\ \A j \in Positions : j <= i
      BY <1>8, <2>1, <2>7 DEF Seen, Advance, Positions
    <3> QED
      BY <2>4, <2>5, <3>1 DEF Waited
  <2> QED
    BY <2>6, <2>7
<1>9. CASE Poll
  <2>1. i \in Positions /\ pc = "wait" /\ UNCHANGED <<entry, pc, i, down>> /\ id' = IdRead
    BY <1>9 DEF Poll, At, TypeOK, Positions
  <2>2. id' = Unknown \/ (id' = Id[entry[i]] /\ entry[i] \notin down)
    <3>1. CASE entry[i] \in down
      BY <2>1, <3>1 DEF IdRead, Current
    <3>2. CASE entry[i] \notin down
      BY <2>1, <3>2 DEF IdRead, Current
    <3> QED
      BY <3>1, <3>2
  <2> QED
    BY <2>1, <2>2 DEF Waited, Responding
<1>10. CASE GiveUp
  BY <1>10 DEF GiveUp, EndProbe, Waited
<1>11. CASE Restore
  <2>1. pc = "restore" /\ UNCHANGED <<entry, down>>
    BY <1>11 DEF Restore, At
  <2>2. pc' = "restore" \/ (pc' = "idle" /\ id' = Unknown)
    <3>1. CASE i < Len(Requested)
      BY <1>11, <2>1, <3>1 DEF Restore
    <3>2. CASE ~(i < Len(Requested))
      BY <1>11, <3>2 DEF Restore, EndProbe
    <3> QED
      BY <3>1, <3>2
  <2> QED
    BY <2>1, <2>2 DEF Waited, Responding
<1>12. CASE UNCHANGED vars
  BY <1>12 DEF vars, Waited, Responding
<1> QED
  BY <1>1, <1>2, <1>3, <1>4, <1>5, <1>6, <1>7, <1>8, <1>9, <1>10, <1>11, <1>12
  DEF Next, ResetStep

\* Until one goes, each device is counted once for each time it is listed.
LEMMA CountedNext == TypeOK /\ Progress /\ Counted /\ [Next]_vars => Counted'
<1> SUFFICES ASSUME TypeOK, Progress, Counted, [Next]_vars, ~lost' PROVE Counted'
  BY DEF Counted
<1> USE PositionFacts, PpcAssumption DEF listVars, loopVars, waitVars, hwVars, boundVars
<1>1. ASSUME NEW d \in Devs, Probe(d) PROVE Counted'
  <2>1. ~lost /\ probed = None /\ pc = "idle" /\ d \notin bound
        /\ (bound \cup {probed})' \subseteq bound \cup {probed, d}
        /\ bound \cup {d} \subseteq (bound \cup {probed})'
    BY <1>1 DEF Probe, Progress
  <2>2. FoundPositions' = FoundPositions \cup Matches(d) /\ FoundPositions \cap Matches(d) = {}
    BY <2>1 DEF FoundPositions, Matches
  <2>3. IsFiniteSet(FoundPositions) /\ IsFiniteSet(Matches(d))
    BY DEF FoundPositions, Matches
  <2>4. Cardinality(FoundPositions')
          = Cardinality(FoundPositions) + Cardinality(Matches(d)) - Cardinality({})
    BY <2>2, <2>3, FS_Union
  <2>5. Cardinality(FoundPositions) \in Nat /\ Cardinality(Matches(d)) \in Nat
    BY DEF FoundPositions, Matches
  <2>6. found' = Cardinality(FoundPositions')
    BY <1>1, <2>1, <2>4, <2>5, FS_EmptySet DEF Counted, Probe, Count
  <2>7. \A j \in FoundPositions' : entry'[j] = Requested[j]
    BY <1>1, <2>1, <2>2 DEF Probe, Counted, FoundPositions, Matches
  <2>8. pc' # "idle" => found' = Len(Requested)
    BY <1>1, <2>1 DEF Probe, AllFound
  <2> QED
    BY <2>6, <2>7, <2>8 DEF Counted
<1>2. ASSUME UNCHANGED <<listVars, bound, probed, lost>>, pc' # "idle" => pc # "idle"
      PROVE  Counted'
  BY <1>2 DEF Counted, FoundPositions
<1>3. ASSUME NEW d \in Devs, Remove(d) PROVE Counted'
  BY <1>3 DEF Remove
<1>4. ASSUME NEW d \in Devs, Recover(d) PROVE Counted'
  BY <1>2, <1>4 DEF Recover
<1>5. CASE Oops
  BY <1>2, <1>5 DEF Oops, At
<1>6. CASE Save
  BY <1>2, <1>6 DEF Save, At
<1>7. CASE AssertReset
  BY <1>2, <1>7 DEF AssertReset, At
<1>8. CASE DeassertReset
  BY <1>2, <1>8 DEF DeassertReset, At
<1>9. CASE CallFails
  BY <1>9 DEF CallFails, EndProbe, TypeOK
<1>10. CASE Seen
  BY <1>2, <1>10 DEF Seen, At
<1>11. CASE Poll
  BY <1>2, <1>11 DEF Poll, At
<1>12. CASE GiveUp
  BY <1>12 DEF GiveUp, EndProbe, TypeOK
<1>13. CASE Restore
  <2>1. CASE i < Len(Requested)
    BY <1>2, <1>13, <2>1 DEF Restore, At
  <2>2. CASE ~(i < Len(Requested))
    <3>1. ~lost /\ UNCHANGED listVars /\ bound' = bound \cup {probed} /\ probed' = None
          /\ pc' = "idle"
      BY <1>13, <2>2 DEF Restore, EndProbe, TypeOK
    <3>2. FoundPositions' = FoundPositions
      BY <3>1 DEF FoundPositions
    <3> QED
      BY <3>1, <3>2 DEF Counted
  <2> QED
    BY <2>1, <2>2
<1>14. CASE UNCHANGED vars
  BY <1>2, <1>14 DEF vars
<1> QED
  BY <1>1, <1>3, <1>4, <1>5, <1>6, <1>7, <1>8, <1>9, <1>10, <1>11, <1>12, <1>13, <1>14
  DEF Next, ResetStep

----------------------------------------------------------------------------

\* Types, and the four parts, hold in every reachable state.
THEOREM Invariance == Spec => []IInv
<1>1. IInv /\ [Next]_vars => IInv'
  BY TypeNext, ProgressNext, InResetNext, WaitedNext, CountedNext DEF IInv
<1> QED
  BY InitIInv, <1>1, PTL DEF Spec

\* Every variable keeps its type.
THEOREM TypeCorrect == Spec => []TypeOK
<1>1. IInv => TypeOK
  BY DEF IInv
<1> QED
  BY <1>1, Invariance, PTL

\* What a slot in reset takes down has been saved: the loop that saves ends
\* before the loop that resets begins.
THEOREM Saved == Spec => []SavedBeforeReset
<1>1. IInv => SavedBeforeReset
  BY DEF IInv, Progress, SavedBeforeReset
<1> QED
  BY <1>1, Invariance, PTL

\* A reset begins only when each name of the list has its device, as long as
\* no device has gone.
THEOREM Complete == Spec => []AllFoundAtReset
<1>1. ASSUME IInv, pc # "idle", ~lost PROVE \A j \in Positions : entry[j] \in bound \cup {probed}
  <2>1. FoundPositions \in SUBSET Positions /\ Cardinality(FoundPositions) = Cardinality(Positions)
    BY <1>1, PositionFacts DEF IInv, Counted, FoundPositions
  <2>2. FoundPositions = Positions
    BY <2>1, PositionFacts, FS_Subset
  <2> QED
    BY <1>1, <2>2 DEF IInv, Counted, FoundPositions
<1>2. IInv => AllFoundAtReset
  BY <1>1 DEF AllFoundAtReset
<1> QED
  BY <1>2, Invariance, PTL

\* A device restored without having been polled follows one of its own id.
THEOREM Polled == Spec => []PolledBeforeRestore
<1>1. IInv => PolledBeforeRestore
  BY DEF IInv, Waited, Responding, PolledBeforeRestore
<1> QED
  BY <1>1, Invariance, PTL

\* A slot stays in reset only after a call of the PCI core has failed.
THEOREM LeftInReset == Spec => []InResetOnlyAfterError
<1>1. IInv => InResetOnlyAfterError
  BY PpcAssumption DEF IInv, InReset, InResetOnlyAfterError, TypeOK
<1> QED
  BY <1>1, Invariance, PTL
============================================================================
