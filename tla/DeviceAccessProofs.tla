------------------------ MODULE DeviceAccessProofs ------------------------
(***************************************************************************)
(* Proofs about the probing of DeviceAccess and about the access without a *)
(* VSEC, for any number of kernel modules, any spaces, any memory and any  *)
(* device.                                                                 *)
(*                                                                         *)
(* A probe that nobody upset reads the status of the space it selected     *)
(* (Selected), and the mask, or for a report of parameters the flags, hold *)
(* what it has learnt so far (Learning).                                   *)
(*                                                                         *)
(* An access that has the registers to itself (Sole) finds, between its    *)
(* two steps for a dword, what the first of them has left (Between), and   *)
(* the dwords it has counted agree with the memory (Right).                *)
(***************************************************************************)
EXTENDS DeviceAccess, VsecSemaphoreProofs

\* The variables the proofs are about are functions on the nnt_devices.
Shapes ==
  /\ type = [c \in Clients |-> type[c]]
  /\ phase = [c \in Clients |-> phase[c]]
  /\ mask = [c \in Clients |-> mask[c]]
  /\ flags = [c \in Clients |-> flags[c]]
  /\ job = [c \in Clients |-> job[c]]
  /\ at = [c \in Clients |-> at[c]]
  /\ word \in [Clients -> Nat]
  /\ denied \subseteq Clients

\* Where an nnt_device is in its probe, and that its count starts at 0.
Place(c) ==
  /\ job[c] = NoJob => word[c] = 0 /\ at[c] = "none"
  /\ at[c] \in {"space", "status"} =>
       job[c] \in Probes /\ pc[c] # "idle" /\ word[c] < Len(Order(c))
  /\ job[c] = ParamsJob => pc[c] # "idle"
  /\ job[c] \in Probes /\ pc[c] # "idle" =>
       /\ at[c] \in {"space", "status", "done"}
       /\ Trying(c) => at[c] = "space"
       /\ at[c] = "done" => word[c] = Len(Order(c))
       /\ pc[c] = "clear" /\ c \notin failed => at[c] = "done"

Selected(c) ==
  c \notin excused /\ Probing(c, "status") => space = Order(c)[word[c] + 1]

Holdings(c) == IF job[c] = ParamsJob THEN flags[c] ELSE mask[c]

Learning(c) ==
  c \notin excused /\ job[c] \in Probes /\ pc[c] # "idle" =>
    /\ \A k \in 1..word[c] : Order(c)[k] \in model.supported => Order(c)[k] \in Holdings(c)
    /\ job[c] = InitJob /\ at[c] = "done" => Initialized \in mask[c]

RealOf(c) ==
  c \notin excused =>
    mask[c] \subseteq model.supported \cup {Initialized} /\ flags[c] \subseteq model.supported

CauseOf(c) ==
  type[c] = "NO_VSEC" /\ model.vsec /\ Required \subseteq model.supported => c \in excused

DenialOf(c) ==
  c \in denied /\ {FlagOrder[k] : k \in DOMAIN FlagOrder} \cap model.supported # {} => c \in excused

Known(c) ==
  Place(c) /\ Selected(c) /\ Learning(c) /\ RealOf(c) /\ CauseOf(c) /\ DenialOf(c)

AllKnown == \A c \in Clients : Known(c)

DAInv == IInv /\ Shapes /\ AllKnown

----------------------------------------------------------------------------
(* The semaphore *)

\* These steps of an nnt_device leave the semaphore alone.
LEMMA AloneStep ==
  ASSUME NEW c \in Clients,
         \/ FindCapability(c) \/ CreateFails(c) \/ Bind(c)
         \/ ProbeSpace(c) \/ ProbeStatus(c) \/ ProbeFails(c) \/ UseGateway(c)
         \/ InitLegacy(c) \/ WriteId(c) \/ ReadIdBack(c) \/ IdFails(c)
         \/ LegacyAccess(c) \/ WriteAddress(c) \/ AccessData(c) \/ RunOff(c)
         \/ AccessFails(c) \/ LegacyDone(c)
  PROVE  UNCHANGED vars
BY DEF FindCapability, CreateFails, Bind, ProbeSpace, ProbeStatus, ProbeFails, UseGateway,
   InitLegacy, WriteId, ReadIdBack, IdFails, LegacyAccess, WriteAddress, AccessData,
   RunOff, AccessFails, LegacyDone

\* A step of an nnt_device is a step of the semaphore or leaves it alone.
LEMMA AccessStep == [DANext]_daVars => [Next]_vars
<1> SUFFICES ASSUME [DANext]_daVars PROVE [Next]_vars
  OBVIOUS
<1>1. ASSUME NEW c \in Clients, InitPciconf(c) \/ Access(c) \/ Params(c) PROVE Next
  BY <1>1 DEF InitPciconf, Access, Params, Next
<1>2. ASSUME NEW c \in Clients, LockStep(c) PROVE Next
  BY <1>2 DEF LockStep, Next, Progress
<1>3. ASSUME NEW c \in Clients, FinishInit(c) \/ FinishAccess(c) \/ FinishParams(c) PROVE Next
  BY <1>3 DEF FinishInit, FinishAccess, FinishParams, Next, Progress
<1>4. CASE UNCHANGED daVars
  BY <1>4 DEF daVars
<1>5. CASE DANext
  <2>1. PICK c \in Clients : DAStep(c)
    BY <1>5 DEF DANext
  <2> QED
    BY <2>1, <1>1, <1>2, <1>3, AloneStep DEF DAStep
<1> QED
  BY <1>4, <1>5

\* The probing and the accesses of any number of kernel modules use the
\* semaphore as VsecSemaphore says, so its theorems hold of them.
THEOREM AccessUsesSemaphore == DASpec => Spec
<1>1. DAInit => Init
  BY DEF DAInit
<1> QED
  BY <1>1, AccessStep, PTL DEF DASpec, Spec

----------------------------------------------------------------------------
(* The probing *)

\* An initialisation is no access, and an nnt_device that is used for
\* something is not idle.
LEMMA Jobs ==
  /\ InitJob # NoJob /\ ParamsJob # NoJob /\ ParamsJob # InitJob
  /\ \A r \in Requests : r # InitJob /\ r # NoJob /\ r # ParamsJob
BY AccessAssumption DEF InitJob, NoJob, ParamsJob

\* There is something to probe.
LEMMA SomeSpace ==
  /\ Len(ProbeOrder) \in Nat /\ Len(ProbeOrder) > 0
  /\ Len(FlagOrder) \in Nat /\ Len(FlagOrder) > 0
BY AccessAssumption

\* A step of one nnt_device moves no other in the semaphore.
LEMMA OthersInSemaphore ==
  ASSUME TypeOK, NEW c \in Clients, NEW d \in Clients \ {c}, DAStep(c)
  PROVE  pc'[d] = pc[d] /\ (d \in failed' <=> d \in failed)
<1> USE DEF TypeOK, Goto
<1>1. CASE InitPciconf(c) \/ Access(c) \/ Params(c)
  BY <1>1 DEF InitPciconf, Access, Params, Begin
<1>2. CASE FinishInit(c) \/ FinishAccess(c) \/ FinishParams(c)
  BY <1>2 DEF FinishInit, FinishAccess, FinishParams, Clear, ClearError, Return
<1>3. CASE LockStep(c)
  BY <1>3 DEF LockStep, PollTimeout, PollTaken, PollFree, ConfigError, ReadCounter, WriteTicket,
     ReadBack, Leave
<1>4. CASE UNCHANGED vars
  BY <1>4 DEF vars
<1> QED
  BY <1>1, <1>2, <1>3, <1>4, AloneStep DEF DAStep

\* ... and changes nothing that belongs to another, but may upset its probe.
LEMMA OthersInDevice ==
  ASSUME Shapes, NEW c \in Clients, NEW d \in Clients \ {c}, DAStep(c)
  PROVE  /\ type'[d] = type[d] /\ mask'[d] = mask[d] /\ flags'[d] = flags[d]
         /\ (d \in denied' <=> d \in denied)
         /\ job'[d] = job[d] /\ at'[d] = at[d] /\ word'[d] = word[d]
         /\ model' = model /\ excused \subseteq excused'
         /\ space' = space \/ (Probing(d, "status") => d \in excused')
<1> USE DEF Shapes, devVars, learntVars, jobVars, hwVars, Go
<1>1. CASE FindCapability(c) \/ CreateFails(c) \/ Bind(c)
  <2>1. /\ UNCHANGED <<vars, model, learntVars, jobVars, hwVars, excused>>
        /\ type' = type \/ (~model.vsec /\ \E x : type' = [type EXCEPT ![c] = x])
    BY <1>1 DEF FindCapability, CreateFails, Bind
  <2> QED
    BY <2>1
<1>2. CASE InitPciconf(c) \/ InitLegacy(c)
  BY <1>2 DEF InitPciconf, InitLegacy, StartJob
<1>3. CASE ProbeSpace(c) \/ UseGateway(c)
  BY <1>3 DEF ProbeSpace, UseGateway
<1>4. CASE ProbeStatus(c) \/ ProbeFails(c)
  BY <1>4 DEF ProbeStatus, ProbeFails, Learnt, NextSpace
<1>5. CASE FinishInit(c) \/ FinishAccess(c) \/ FinishParams(c)
  BY <1>5 DEF FinishInit, FinishAccess, FinishParams, BackInHandler, EndJob
<1>6. CASE Access(c) \/ LegacyAccess(c) \/ Params(c)
  BY <1>6 DEF Access, LegacyAccess, Params, StartJob
<1>7. CASE LockStep(c)
  BY <1>7 DEF LockStep
<1>8. CASE WriteId(c) \/ AccessFails(c) \/ RunOff(c)
  BY <1>8 DEF WriteId, AccessFails, RunOff
<1>9. CASE ReadIdBack(c) \/ IdFails(c) \/ LegacyDone(c)
  BY <1>9 DEF ReadIdBack, IdFails, LegacyDone, Judge, BackInHandler, EndJob
<1>10. CASE WriteAddress(c) \/ AccessData(c)
  BY <1>10 DEF WriteAddress, AccessData, NextDword
<1> QED
  BY <1>1, <1>2, <1>3, <1>4, <1>5, <1>6, <1>7, <1>8, <1>9, <1>10 DEF DAStep

\* So what is known of one nnt_device survives the steps of the others.
LEMMA OthersKnown ==
  ASSUME TypeOK, Shapes, NEW c \in Clients, NEW d \in Clients \ {c}, DAStep(c), Known(d)
  PROVE  Known(d)'
BY OthersInSemaphore, OthersInDevice
   DEF Known, Place, Trying, Selected, Learning, Holdings, RealOf, CauseOf, DenialOf, Probing, Order

\* The probes of an nnt_device tell it about its own space only: the steps
\* of probing itself.
LEMMA ProbeKnown ==
  ASSUME TypeOK, Shapes, NEW c \in Clients, Known(c),
         ProbeSpace(c) \/ ProbeStatus(c) \/ ProbeFails(c)
  PROVE  Known(c)'
<1> USE DEF Shapes, Known
<1>1. CASE ProbeSpace(c)
  BY <1>1, SomeSpace DEF ProbeSpace, Go, Probing, Place, Trying, Selected, Learning, Holdings, RealOf,
     CauseOf, DenialOf, Order, devVars, learntVars, vars
<1>2. ASSUME NEW status \in BOOLEAN, Learnt(c, status), NextSpace(c),
             pc[c] = "cs", at[c] \in {"space", "status"},
             UNCHANGED <<vars, model, type, denied, job, space>>, excused \subseteq excused',
             c \notin excused' => status = (Order(c)[word[c] + 1] \in model.supported)
      PROVE  Known(c)'
  <2> DEFINE n == word[c] + 1
  <2>1. job[c] \in Probes /\ pc[c] # "idle" /\ word[c] < Len(Order(c)) /\ word[c] \in Nat
    BY <1>2 DEF Place
  <2>2. Order(c)' = Order(c) /\ Len(Order(c)) \in Nat /\ job' = job /\ pc' = pc
    BY <1>2, SomeSpace DEF Order, vars
  <2>3. word'[c] = n /\ at'[c] = IF n = Len(Order(c)) THEN "done" ELSE "space"
    BY <1>2, <2>2 DEF NextSpace, Go, AllProbed
  <2>4. /\ Holdings(c)' = Holdings(c) \cup (IF status THEN {Order(c)[n]} ELSE {})
                     \cup (IF job[c] = InitJob /\ n = Len(Order(c)) THEN {Initialized} ELSE {})
        /\ job[c] = ParamsJob => mask'[c] = mask[c]
        /\ job[c] = InitJob => flags'[c] = flags[c]
    BY <1>2, <2>1, <2>2, Jobs DEF Learnt, AllProbed, Holdings, Probes
  <2>5. Place(c)'
    BY <1>2, <2>1, <2>2, <2>3, Jobs DEF Place, Trying, Probes, vars
  <2>6. Selected(c)'
    BY <2>3 DEF Selected, Probing
  <2>7. Learning(c)'
    <3> SUFFICES ASSUME c \notin excused'
                 PROVE  /\ \A k \in 1..n : Order(c)[k] \in model.supported => Order(c)[k] \in Holdings(c)'
                        /\ job[c] = InitJob /\ at'[c] = "done" => Initialized \in Holdings(c)'
      BY <1>2, <2>2, <2>3, Jobs DEF Learning, Holdings
    <3>1. c \notin excused
      BY <1>2
    <3>2. \A k \in 1..word[c] : Order(c)[k] \in model.supported => Order(c)[k] \in Holdings(c)
      BY <2>1, <3>1 DEF Learning
    <3>3. \A k \in 1..n : k \in 1..word[c] \/ k = n
      BY <2>1
    <3>4. Order(c)[n] \in model.supported => Order(c)[n] \in Holdings(c)'
      BY <1>2, <2>4, <3>1
    <3> QED
      BY <2>3, <2>4, <3>2, <3>3, <3>4
  <2>8. RealOf(c)'
    <3> SUFFICES ASSUME c \notin excused'
                 PROVE  mask'[c] \subseteq model.supported \cup {Initialized}
                        /\ flags'[c] \subseteq model.supported
      BY <1>2 DEF RealOf
    <3>1. mask[c] \subseteq model.supported \cup {Initialized} /\ flags[c] \subseteq model.supported
      BY <1>2 DEF RealOf
    <3>2. status => Order(c)[n] \in model.supported
      BY <1>2
    <3>3. CASE job[c] = InitJob
      BY <2>2, <2>4, <3>1, <3>2, <3>3, Jobs DEF Holdings
    <3>4. CASE job[c] = ParamsJob
      BY <2>2, <2>4, <3>1, <3>2, <3>4, Jobs DEF Holdings
    <3> QED
      BY <2>1, <3>3, <3>4 DEF Probes
  <2>9. CauseOf(c)' /\ DenialOf(c)'
    BY <1>2 DEF CauseOf, DenialOf
  <2> QED
    BY <2>5, <2>6, <2>7, <2>8, <2>9
<1>3. CASE ProbeStatus(c)
  <2> DEFINE status == space \in model.supported
  <2>1. /\ status \in BOOLEAN /\ Learnt(c, status) /\ NextSpace(c)
        /\ pc[c] = "cs" /\ at[c] \in {"space", "status"}
        /\ UNCHANGED <<vars, model, type, denied, job, space>> /\ excused \subseteq excused'
    BY <1>3 DEF ProbeStatus, Probing, hwVars
  <2>2. c \notin excused' => status = (Order(c)[word[c] + 1] \in model.supported)
    BY <1>3 DEF ProbeStatus, Selected
  <2> HIDE DEF status
  <2> QED
    BY <1>2, <2>1, <2>2
<1>4. CASE ProbeFails(c)
  <2>1. /\ c \in excused' /\ excused \subseteq excused' /\ Learnt(c, FALSE) /\ NextSpace(c)
        /\ pc[c] = "cs" /\ at[c] \in {"space", "status"}
        /\ UNCHANGED <<vars, model, type, denied, job, space>>
    BY <1>4 DEF ProbeFails, Probing, hwVars
  <2> QED
    BY <1>2, <2>1
<1> QED
  BY <1>1, <1>3, <1>4

\* The end of an initialisation: an nnt_device that was not upset and whose
\* lock did not fail has probed every space, so it is only demoted if a
\* required one is not supported.
LEMMA FinishKnown ==
  ASSUME IInv, Shapes, NEW c \in Clients, Known(c), FinishInit(c)
  PROVE  Known(c)'
<1> USE DEF Shapes
<1>1. /\ job[c] = InitJob /\ pc[c] = "clear" /\ pc'[c] = "idle"
      /\ job'[c] = NoJob /\ word'[c] = 0 /\ at'[c] = "none"
      /\ UNCHANGED <<model, mask, flags, denied, space>>
  BY DEF FinishInit, Clear, ClearError, Return, Goto, BackInHandler, EndJob, Go, IInv, TypeOK, hwVars, learntVars
<1>2. excused \subseteq excused' /\ (c \in failed => c \in excused')
  BY DEF FinishInit
<1>3. Place(c)' /\ Selected(c)' /\ Learning(c)' /\ RealOf(c)' /\ DenialOf(c)'
  BY <1>1, <1>2, Jobs DEF Known, Place, Trying, Selected, Learning, RealOf, DenialOf, Probing, Probes
<1>4. CauseOf(c)'
  <2> SUFFICES ASSUME type'[c] = "NO_VSEC", model.vsec, Required \subseteq model.supported,
                      c \notin excused'
               PROVE  FALSE
    BY <1>1 DEF CauseOf
  <2>1. type[c] # "NO_VSEC"
    BY <1>2 DEF Known, CauseOf
  <2>2. ~MinimumSupport(mask[c])
    BY <2>1 DEF FinishInit
  <2>3. at[c] = "done" /\ word[c] = Len(ProbeOrder)
    BY <1>1, <1>2, Jobs DEF Known, Place, Order, Probes
  <2>4. /\ \A k \in 1..word[c] : ProbeOrder[k] \in model.supported => ProbeOrder[k] \in mask[c]
        /\ Initialized \in mask[c]
    BY <1>1, <1>2, <2>3, Jobs DEF Known, Learning, Holdings, Order, Probes
  <2>5. \A s \in Required : s \in mask[c]
    <3> SUFFICES ASSUME NEW s \in Required PROVE s \in mask[c]
      OBVIOUS
    <3>1. PICK k \in DOMAIN ProbeOrder : s = ProbeOrder[k]
      BY AccessAssumption DEF Spaces
    <3>2. k \in 1..Len(ProbeOrder)
      BY AccessAssumption
    <3> QED
      BY <2>3, <2>4, <3>1, <3>2
  <2> QED
    BY <2>2, <2>4, <2>5 DEF MinimumSupport
<1> QED
  BY <1>3, <1>4 DEF Known

\* The end of a report: an nnt_device that was not upset and whose lock did
\* not fail has flagged each space of the three that the device supports.
LEMMA ReportKnown ==
  ASSUME IInv, Shapes, NEW c \in Clients, Known(c), FinishParams(c)
  PROVE  Known(c)'
<1> USE DEF Shapes
<1>1. /\ job[c] = ParamsJob /\ pc[c] = "clear" /\ pc'[c] = "idle"
      /\ job'[c] = NoJob /\ word'[c] = 0 /\ at'[c] = "none"
      /\ UNCHANGED <<model, type, mask, flags, space>>
  BY DEF FinishParams, Clear, ClearError, Return, Goto, BackInHandler, EndJob, Go, IInv, TypeOK, hwVars
<1>2. excused \subseteq excused' /\ (c \in failed => c \in excused')
  BY DEF FinishParams
<1>3. Place(c)' /\ Selected(c)' /\ Learning(c)' /\ RealOf(c)' /\ CauseOf(c)'
  BY <1>1, <1>2, Jobs DEF Known, Place, Trying, Selected, Learning, RealOf, CauseOf, Probing, Probes
<1>4. DenialOf(c)'
  <2> SUFFICES ASSUME c \in denied', c \notin excused',
                      NEW k \in DOMAIN FlagOrder, FlagOrder[k] \in model.supported
               PROVE  FALSE
    BY <1>1 DEF DenialOf
  <2>1. c \notin denied
    BY <1>2 DEF Known, DenialOf
  <2>2. flags[c] = {}
    BY <2>1 DEF FinishParams, Denied
  <2>3. word[c] = Len(FlagOrder)
    BY <1>1, <1>2 DEF Known, Place, Order, Probes
  <2>4. k \in 1..Len(FlagOrder)
    BY AccessAssumption
  <2>5. FlagOrder[k] \in flags[c]
    BY <1>1, <1>2, <2>3, <2>4 DEF Known, Learning, Holdings, Order, Probes
  <2> QED
    BY <2>2, <2>5
<1> QED
  BY <1>3, <1>4 DEF Known

\* No other step of an nnt_device makes it NO_VSEC if it has a VSEC, or
\* touches its mask.
LEMMA OtherStepsKnown ==
  ASSUME IInv, Shapes, NEW c \in Clients, Known(c), DAStep(c),
         ~ProbeSpace(c), ~ProbeStatus(c), ~ProbeFails(c), ~FinishInit(c), ~FinishParams(c)
  PROVE  Known(c)'
<1> USE Jobs, SomeSpace
    DEF Shapes, IInv, TypeOK, devVars, learntVars, jobVars, hwVars, vars, Go, Goto,
        Trying, Known, Place, Selected, Learning, Holdings, RealOf, CauseOf, DenialOf, Probing, Probes,
        Order
<1>1. CASE FindCapability(c) \/ CreateFails(c) \/ Bind(c)
  <2>1. /\ UNCHANGED <<vars, model, learntVars, jobVars, hwVars, excused>>
        /\ type' = type \/ (~model.vsec /\ \E x : type' = [type EXCEPT ![c] = x])
    BY <1>1 DEF FindCapability, CreateFails, Bind
  <2> QED
    BY <2>1
<1>2. CASE InitPciconf(c)
  BY <1>2 DEF InitPciconf, Begin, StartJob, Idle
<1>3. CASE Access(c) \/ Params(c)
  BY <1>3 DEF Access, Params, Begin, StartJob, AccessCalled, Idle
<1>4. CASE UseGateway(c)
  BY <1>4 DEF UseGateway
<1>5. CASE FinishAccess(c)
  BY <1>5 DEF FinishAccess, Clear, ClearError, Return, BackInHandler, EndJob
<1>6. CASE LockStep(c)
  <2>1. CASE Leave(c) /\ at[c] = "done"
    BY <1>6, <2>1 DEF LockStep, Leave
  <2>2. CASE ~(Leave(c) /\ at[c] = "done")
    <3>1. /\ Trying(c) /\ pc'[c] # "idle" /\ UNCHANGED <<model, devVars, jobVars, hwVars, excused>>
          /\ pc'[c] = "clear" => c \in failed'
      BY <1>6, <2>2 DEF LockStep, PollTimeout, PollTaken, PollFree, ConfigError, ReadCounter,
         WriteTicket, ReadBack
    <3> QED
      BY <3>1
  <2> QED
    BY <2>1, <2>2
<1>7. CASE InitLegacy(c)
  BY <1>7 DEF InitLegacy, StartJob, Idle
<1>8. CASE LegacyAccess(c)
  BY <1>8 DEF LegacyAccess, StartJob, AccessCalled, Idle, Loop, First
<1>9. CASE WriteId(c) \/ AccessFails(c) \/ RunOff(c)
  BY <1>9 DEF WriteId, AccessFails, RunOff
<1>10. CASE ReadIdBack(c) \/ IdFails(c) \/ LegacyDone(c)
  BY <1>10 DEF ReadIdBack, IdFails, LegacyDone, Judge, BackInHandler, EndJob
<1>11. CASE WriteAddress(c) \/ AccessData(c)
  BY <1>11 DEF WriteAddress, AccessData, NextDword, Loop, First
<1> QED
  BY <1>1, <1>2, <1>3, <1>4, <1>5, <1>6, <1>7, <1>8, <1>9, <1>10, <1>11 DEF DAStep

\* Functions stay functions.
LEMMA ShapesStep == Shapes /\ [DANext]_daVars => Shapes'
<1> SUFFICES ASSUME Shapes, [DANext]_daVars PROVE Shapes'
  OBVIOUS
<1> USE DEF Shapes, devVars, learntVars, jobVars, Go
<1>1. ASSUME NEW c \in Clients, FindCapability(c) \/ CreateFails(c) \/ Bind(c) PROVE Shapes'
  BY <1>1 DEF FindCapability, CreateFails, Bind
<1>2. ASSUME NEW c \in Clients, InitPciconf(c) \/ InitLegacy(c) PROVE Shapes'
  BY <1>2 DEF InitPciconf, InitLegacy, StartJob
<1>3. ASSUME NEW c \in Clients, ProbeSpace(c) \/ UseGateway(c) PROVE Shapes'
  BY <1>3 DEF ProbeSpace, UseGateway
<1>4. ASSUME NEW c \in Clients, ProbeStatus(c) \/ ProbeFails(c) PROVE Shapes'
  BY <1>4 DEF ProbeStatus, ProbeFails, Learnt, NextSpace
<1>5. ASSUME NEW c \in Clients, FinishInit(c) \/ FinishAccess(c) \/ FinishParams(c) PROVE Shapes'
  <2>1. /\ BackInHandler(c) \/ EndJob(c)
        /\ UNCHANGED <<mask, flags>>
        /\ type' = type \/ (\E x : type' = [type EXCEPT ![c] = x])
        /\ phase' = phase \/ (\E x : phase' = [phase EXCEPT ![c] = x])
        /\ denied' = denied \/ denied' = denied \cup {c}
    BY <1>5 DEF FinishInit, FinishAccess, FinishParams
  <2>2. word' \in [Clients -> Nat]
    BY <2>1 DEF BackInHandler, EndJob
  <2> QED
    BY <2>1, <2>2 DEF BackInHandler, EndJob
<1>6. ASSUME NEW c \in Clients, Access(c) \/ LegacyAccess(c) \/ Params(c) PROVE Shapes'
  BY <1>6 DEF Access, LegacyAccess, Params, StartJob
<1>7. ASSUME NEW c \in Clients, LockStep(c) PROVE Shapes'
  BY <1>7 DEF LockStep
<1>8. ASSUME NEW c \in Clients, WriteId(c) \/ AccessFails(c) \/ RunOff(c) PROVE Shapes'
  BY <1>8 DEF WriteId, AccessFails, RunOff
<1>9. ASSUME NEW c \in Clients, ReadIdBack(c) \/ IdFails(c) \/ LegacyDone(c) PROVE Shapes'
  <2>1. /\ BackInHandler(c) \/ EndJob(c)
        /\ UNCHANGED <<type, mask, flags, denied>>
        /\ phase' = phase \/ (\E x : phase' = [phase EXCEPT ![c] = x])
    BY <1>9 DEF ReadIdBack, IdFails, LegacyDone, Judge
  <2>2. word' \in [Clients -> Nat]
    BY <2>1 DEF BackInHandler, EndJob
  <2> QED
    BY <2>1, <2>2 DEF BackInHandler, EndJob
<1>10. ASSUME NEW c \in Clients, WriteAddress(c) \/ AccessData(c) PROVE Shapes'
  <2>1. /\ UNCHANGED <<type, phase, mask, flags, denied, job>> /\ \E s : at' = [at EXCEPT ![c] = s]
        /\ word' = word \/ word' = [word EXCEPT ![c] = @ + 1]
    BY <1>10 DEF WriteAddress, AccessData, NextDword
  <2>2. word' \in [Clients -> Nat]
    BY <2>1
  <2> QED
    BY <2>1, <2>2
<1>11. CASE UNCHANGED daVars
  BY <1>11 DEF daVars
<1> QED
  BY <1>1, <1>2, <1>3, <1>4, <1>5, <1>6, <1>7, <1>8, <1>9, <1>10, <1>11 DEF DANext, DAStep

\* The inductive invariant holds initially, ...
LEMMA ProbingInit == DAInit => DAInv
<1> SUFFICES ASSUME DAInit PROVE DAInv
  OBVIOUS
<1>1. IInv
  BY InitInv DEF DAInit
<1>2. Shapes
  BY DEF DAInit, Shapes
<1>3. \A c \in Clients : Known(c)
  BY Jobs DEF DAInit, Init, Known, Place, Trying, Selected, Learning, RealOf, CauseOf, DenialOf,
     Probing, Probes
<1> QED
  BY <1>1, <1>2, <1>3 DEF DAInv, AllKnown

\* ... and every step keeps it.
LEMMA ProbingStep == DAInv /\ [DANext]_daVars => DAInv'
<1> SUFFICES ASSUME DAInv, [DANext]_daVars PROVE DAInv'
  OBVIOUS
<1>1. IInv /\ TypeOK /\ Shapes /\ \A d \in Clients : Known(d)
  BY DEF DAInv, IInv, AllKnown
<1>2. IInv' /\ Shapes'
  BY <1>1, AccessStep, StepInv, ShapesStep
<1>3. ASSUME NEW c \in Clients, DAStep(c), NEW d \in Clients PROVE Known(d)'
  <2>1. CASE d # c
    BY <1>1, <1>3, <2>1, OthersKnown
  <2>2. CASE d = c
    BY <1>1, <1>3, <2>2, ProbeKnown, FinishKnown, ReportKnown, OtherStepsKnown
  <2> QED
    BY <2>1, <2>2
<1>4. CASE UNCHANGED daVars
  BY <1>1, <1>2, <1>4
     DEF daVars, vars, devVars, learntVars, jobVars, hwVars, DAInv, AllKnown, Known, Place, Trying,
         Selected, Learning, Holdings, RealOf, CauseOf, DenialOf, Probing, Order
<1> QED
  BY <1>2, <1>3, <1>4 DEF DANext, DAInv, AllKnown

\* The inductive invariant holds throughout.
THEOREM ProbingInvariance == DASpec => []DAInv
BY ProbingInit, ProbingStep, PTL DEF DASpec

\* However many kernel modules initialise the device at once, none believes
\* in a space the device does not support, unless a robbed transaction wrote
\* the control register between a probe's write and its read.
THEOREM RealSupport == DASpec => []SupportIsReal
<1>1. DAInv => SupportIsReal
  BY DEF DAInv, AllKnown, Known, RealOf, SupportIsReal
<1> QED
  BY ProbingInvariance, <1>1, PTL

\* ... and none gives up the VSEC of a device that has the required spaces,
\* without one of the causes DemotedForCause names.
THEOREM CausedDemotion == DASpec => []DemotedForCause
<1>1. DAInv => DemotedForCause
  BY DEF DAInv, AllKnown, Known, CauseOf, DemotedForCause
<1> QED
  BY ProbingInvariance, <1>1, PTL

\* ... and none reports that such a device has no VSEC, if one of the spaces
\* that are asked for is there, without one of those causes.
THEOREM CausedDenial == DASpec => []DeniedForCause
<1>1. DAInv => DeniedForCause
  BY DEF DAInv, Shapes, AllKnown, Known, DenialOf, DeniedForCause
<1> QED
  BY ProbingInvariance, <1>1, PTL

----------------------------------------------------------------------------
(* The address and data registers *)

\* The loop counts up, and data[] is a sequence of values.
LEMMA Counting ==
  ASSUME NEW r \in Requests
  PROVE  /\ Count(r) \in Nat /\ Len(r.data) \in Nat /\ DOMAIN r.data = 1..Len(r.data)
         /\ r.data \in Seq(Values) /\ r.op \in {"read", "write"} /\ r.addr \in Nat
<1>1. r.size \in Int /\ r.data \in Seq(Values) /\ r.op \in {"read", "write"} /\ r.addr \in Nat
  BY AccessAssumption
<1>2. Count(r) \in Nat
  BY <1>1 DEF Count
<1> QED
  BY <1>1, <1>2

\* No other use of an nnt_device runs through data[].
LEMMA NothingToCount ==
  /\ Count(NoJob) = 0 /\ Fits(NoJob)
  /\ \A r \in Probes : Count(r) = 0 /\ Fits(r)
BY DEF Count, Fits, Probes, NoJob, InitJob, ParamsJob

\* A dword behind data[] is one of a request that does not fit.
LEMMA BehindOverruns ==
  ASSUME NEW r \in Requests, NEW n \in Nat, n < Count(r)
  PROVE  /\ BehindData(r, n) => ~Fits(r)
         /\ ~BehindData(r, n) => n < Len(r.data) /\ n + 1 \in DOMAIN r.data
BY Counting DEF BehindData, Fits

\* The registers and the memory are what they are said to be, and so are the
\* operations' buffers.
Stores ==
  /\ buf = [c \in Clients |-> buf[c]]
  /\ gw = [addr |-> gw.addr, data |-> gw.data]
  /\ mem = [a \in Addrs |-> mem[a]]
  /\ smashed \subseteq Clients

\* Where an nnt_device is in its use of the registers, and that a kernel
\* module of mstflint_access has run is_wo_gw before its first access.
Use(c) ==
  /\ phase[c] = "absent" => job[c] = NoJob
  /\ at[c] \in Legacy => pc[c] = "idle" /\ job[c] # NoJob
  /\ at[c] \in {"id", "readback"} => job[c] = InitJob /\ c \in regs
  /\ at[c] \in {"address", "data"} => job[c] \in Requests /\ word[c] < Count(job[c])
  /\ c \in smashed => ~Fits(job[c])
  /\ job[c] \in Requests => DOMAIN buf[c] = DOMAIN job[c].data
  /\ job[c] = InitJob /\ pc[c] # "idle" => type[c] = "PCICONF"
  /\ job[c] \in Requests /\ UsesRegisters(c) => type[c] = "NO_VSEC" /\ phase[c] = "ready"
  /\ c \in Alloc /\ type[c] = "NO_VSEC" /\ phase[c] = "ready" => c \in regs

\* Those that have had the registers to themselves have them to themselves.
Sole(c) ==
  c \in alone =>
    UsesRegisters(c) /\ \A d \in Clients \ {c} : ~UsesRegisters(d)

Right(c, k) ==
  mem[job[c].addr + k - 1] = IF job[c].op = "write" THEN job[c].data[k] ELSE buf[c][k]

\* An access that has the registers to itself finds in the second register's
\* step what the first one's has left.
Between(c) ==
  /\ at[c] = "data" /\ First(c, job[c]) = "address" =>
       /\ gw.addr = job[c].addr + word[c]
       /\ model.wo => gw.data = mem[gw.addr]
  /\ at[c] = "address" /\ First(c, job[c]) = "data" => gw.data = job[c].data[word[c] + 1]

Intact(c) ==
  /\ c \in alone /\ job[c] \in Requests /\ Inside(job[c]) /\ c \in regs
  /\ c \in wo <=> model.wo
  =>
    (\A k \in 1..word[c] : Right(c, k)) /\ Between(c)

Legal(c) == Use(c) /\ Sole(c) /\ Intact(c)

LegacyInv == DAInv /\ Stores /\ alone \subseteq Clients /\ \A c \in Clients : Legal(c)

\* Functions stay functions here, too.
LEMMA StoresStep == Stores /\ [DANext]_daVars => Stores'
<1> SUFFICES ASSUME Stores, [DANext]_daVars PROVE Stores'
  OBVIOUS
<1> USE DEF Stores, jobVars, hwVars
<1>1. ASSUME NEW c \in Clients, FindCapability(c) \/ CreateFails(c) \/ Bind(c) PROVE Stores'
  BY <1>1 DEF FindCapability, CreateFails, Bind
<1>2. ASSUME NEW c \in Clients, InitPciconf(c) \/ InitLegacy(c) PROVE Stores'
  BY <1>2 DEF InitPciconf, InitLegacy, StartJob
<1>3. ASSUME NEW c \in Clients, ProbeSpace(c) \/ UseGateway(c) PROVE Stores'
  BY <1>3 DEF ProbeSpace, UseGateway
<1>4. ASSUME NEW c \in Clients, ProbeStatus(c) \/ ProbeFails(c) PROVE Stores'
  BY <1>4 DEF ProbeStatus, ProbeFails
<1>5. ASSUME NEW c \in Clients, FinishInit(c) \/ FinishAccess(c) \/ FinishParams(c) PROVE Stores'
  BY <1>5 DEF FinishInit, FinishAccess, FinishParams, BackInHandler, EndJob
<1>6. ASSUME NEW c \in Clients, Access(c) \/ LegacyAccess(c) \/ Params(c) PROVE Stores'
  BY <1>6 DEF Access, LegacyAccess, Params, StartJob
<1>7. ASSUME NEW c \in Clients, LockStep(c) \/ AccessFails(c) \/ RunOff(c) PROVE Stores'
  BY <1>7 DEF LockStep, AccessFails, RunOff
<1>8. ASSUME NEW c \in Clients, ReadIdBack(c) \/ IdFails(c) \/ LegacyDone(c) PROVE Stores'
  BY <1>8 DEF ReadIdBack, IdFails, LegacyDone, Judge, BackInHandler, EndJob
<1>9. ASSUME NEW c \in Clients, NEW a, NEW read, AddressWritten(c, a, read), UNCHANGED <<buf, smashed>>
      PROVE  Stores'
  BY <1>9 DEF AddressWritten
<1>10. ASSUME NEW c \in Clients, WriteId(c) \/ WriteAddress(c) PROVE Stores'
  BY <1>9, <1>10 DEF WriteId, WriteAddress
<1>11. ASSUME NEW c \in Clients, AccessData(c) PROVE Stores'
  <2>1. CASE job[c].op = "write"
    BY <1>11, <2>1 DEF AccessData, DataWritten
  <2>2. CASE job[c].op # "write"
    BY <1>11, <2>2 DEF AccessData, Receive
  <2> QED
    BY <2>1, <2>2
<1>12. CASE UNCHANGED daVars
  BY <1>12 DEF daVars
<1> QED
  BY <1>1, <1>2, <1>3, <1>4, <1>5, <1>6, <1>7, <1>8, <1>10, <1>11, <1>12 DEF DANext, DAStep

\* A step of one nnt_device leaves the offsets, the kind of gateway and the
\* operation of another alone.
LEMMA OthersInAccess ==
  ASSUME Shapes, Stores, NEW c \in Clients, NEW d \in Clients \ {c}, DAStep(c)
  PROVE  /\ phase'[d] = phase[d] /\ buf'[d] = buf[d]
         /\ (d \in regs' <=> d \in regs) /\ (d \in wo' <=> d \in wo)
         /\ (d \in smashed' <=> d \in smashed)
<1> USE DEF Shapes, Stores, devVars, jobVars
<1>1. CASE FindCapability(c) \/ CreateFails(c) \/ Bind(c)
  BY <1>1 DEF FindCapability, CreateFails, Bind
<1>2. CASE InitPciconf(c) \/ InitLegacy(c)
  BY <1>2 DEF InitPciconf, InitLegacy, StartJob
<1>3. CASE ProbeSpace(c) \/ UseGateway(c)
  BY <1>3 DEF ProbeSpace, UseGateway
<1>4. CASE ProbeStatus(c) \/ ProbeFails(c)
  BY <1>4 DEF ProbeStatus, ProbeFails
<1>5. CASE FinishInit(c) \/ FinishAccess(c) \/ FinishParams(c)
  BY <1>5 DEF FinishInit, FinishAccess, FinishParams, BackInHandler, EndJob
<1>6. CASE Access(c) \/ LegacyAccess(c) \/ Params(c)
  BY <1>6 DEF Access, LegacyAccess, Params, StartJob
<1>7. CASE LockStep(c) \/ AccessFails(c) \/ RunOff(c)
  BY <1>7 DEF LockStep, AccessFails, RunOff
<1>8. CASE ReadIdBack(c) \/ IdFails(c) \/ LegacyDone(c)
  BY <1>8 DEF ReadIdBack, IdFails, LegacyDone, Judge, BackInHandler, EndJob
<1>9. CASE WriteId(c) \/ WriteAddress(c)
  BY <1>9 DEF WriteId, WriteAddress
<1>10. CASE AccessData(c)
  BY <1>10 DEF AccessData, Receive
<1> QED
  BY <1>1, <1>2, <1>3, <1>4, <1>5, <1>6, <1>7, <1>8, <1>9, <1>10 DEF DAStep

\* So what is known of its use of the registers survives.
LEMMA OthersUse ==
  ASSUME TypeOK, Shapes, Stores, NEW c \in Clients, NEW d \in Clients \ {c}, DAStep(c), Use(d)
  PROVE  Use(d)'
<1>1. /\ pc'[d] = pc[d] /\ type'[d] = type[d] /\ phase'[d] = phase[d]
      /\ job'[d] = job[d] /\ at'[d] = at[d] /\ word'[d] = word[d] /\ buf'[d] = buf[d]
      /\ (d \in regs' <=> d \in regs) /\ (d \in smashed' <=> d \in smashed)
  BY OthersInSemaphore, OthersInDevice, OthersInAccess
<1> QED
  BY <1>1 DEF Use, UsesRegisters

\* After a dword the loop goes on with the next one, if there is one.
LEMMA LoopGoesOn ==
  ASSUME Shapes, NEW c \in Clients, NextDword(c)
  PROVE  /\ word' = [word EXCEPT ![c] = @ + 1] /\ word'[c] = word[c] + 1
         /\ \/ at'[c] = "done"
            \/ word'[c] < Count(job[c]) /\ at'[c] = First(c, job[c])
         /\ First(c, job[c]) \in {"address", "data"}
<1>1. word' = [word EXCEPT ![c] = @ + 1] /\ at' = [at EXCEPT ![c] = Loop(c, job[c], word'[c])]
  BY DEF NextDword, Go
<1>2. word'[c] = word[c] + 1 /\ at'[c] = Loop(c, job[c], word'[c])
  BY <1>1 DEF Shapes
<1>3. CASE word'[c] < Count(job[c])
  BY <1>1, <1>2, <1>3 DEF Loop, First
<1>4. CASE ~(word'[c] < Count(job[c]))
  BY <1>1, <1>2, <1>4 DEF Loop, First
<1> QED
  BY <1>3, <1>4

\* ... and its own steps keep it.  The steps of the probing and of the
\* semaphore are on no register.
LEMMA OwnUse ==
  ASSUME IInv, Shapes, Stores, NEW c \in Clients, Known(c), Use(c), DAStep(c)
  PROVE  Use(c)'
<1> USE Jobs, NothingToCount
    DEF Shapes, Stores, IInv, TypeOK, devVars, learntVars, jobVars, vars, Go, Goto, Use, Legacy,
        UsesRegisters
<1>1. CASE FindCapability(c)
  BY <1>1 DEF FindCapability, Checked
<1>2. CASE CreateFails(c) \/ Bind(c)
  BY <1>2 DEF CreateFails, Bind
<1>3. CASE InitPciconf(c)
  BY <1>3 DEF InitPciconf, InitCalled, Begin, StartJob, Idle
<1>4. CASE ProbeSpace(c) \/ UseGateway(c)
  BY <1>4 DEF ProbeSpace, UseGateway, Probing, Probes
<1>5. CASE ProbeStatus(c) \/ ProbeFails(c)
  <2>1. /\ job[c] \in Probes /\ pc[c] = "cs" /\ at'[c] \notin Legacy
        /\ UNCHANGED <<vars, type, phase, job, buf, smashed, regs>>
    BY <1>5 DEF ProbeStatus, ProbeFails, Probing, NextSpace
  <2> QED
    BY <2>1 DEF Probes
<1>6. CASE FinishInit(c)
  <2>1. /\ job[c] = InitJob /\ pc[c] = "clear" /\ phase' = [phase EXCEPT ![c] = AfterInit(c)]
        /\ job'[c] = NoJob /\ at'[c] = "none" /\ c \notin smashed' /\ UNCHANGED regs
        /\ type'[c] = type[c] \/ phase[c] = "check"
    BY <1>6 DEF FinishInit, Clear, ClearError, BackInHandler, EndJob
  <2> QED
    BY <2>1 DEF AfterInit, Checked
<1>7. CASE FinishAccess(c) \/ FinishParams(c)
  <2>1. UNCHANGED <<type, phase, regs>> /\ (EndJob(c) \/ BackInHandler(c))
    BY <1>7 DEF FinishAccess, FinishParams
  <2>2. CASE EndJob(c)
    <3>1. job'[c] = NoJob /\ at'[c] = "none" /\ c \notin smashed'
      BY <2>2 DEF EndJob
    <3> QED
      BY <2>1, <3>1
  <2>3. CASE ~EndJob(c)
    <3>1. at'[c] = "dead" /\ UNCHANGED <<job, word, buf, smashed>> /\ job[c] \in Requests
      BY <1>7, <2>1, <2>3 DEF BackInHandler, FinishParams, FinishAccess
    <3> QED
      BY <2>1, <3>1
  <2> QED
    BY <2>2, <2>3
<1>8. CASE Access(c) \/ Params(c)
  <2>1. /\ pc'[c] = "poll" /\ at'[c] \notin Legacy /\ job'[c] \in Requests \cup {ParamsJob}
        /\ buf'[c] = job'[c].data /\ phase[c] = "ready" /\ c \notin smashed'
        /\ UNCHANGED <<type, phase, regs>>
    BY <1>8 DEF Access, Params, AccessCalled, Begin, StartJob, Idle
  <2> QED
    BY <2>1
<1>9. CASE LockStep(c)
  <2>1. /\ pc[c] # "idle" /\ pc'[c] # "idle" /\ UNCHANGED <<type, phase, jobVars, regs>>
    BY <1>9 DEF LockStep, PollTimeout, PollTaken, PollFree, ConfigError, ReadCounter, WriteTicket,
       ReadBack, Leave, Trying
  <2> QED
    BY <2>1
<1>10. CASE InitLegacy(c)
  BY <1>10 DEF InitLegacy, InitCalled, StartJob, Idle
<1>11. CASE WriteId(c) \/ AccessFails(c) \/ RunOff(c)
  BY <1>11 DEF WriteId, AccessFails, RunOff
<1>12. CASE ReadIdBack(c) \/ IdFails(c)
  <2>1. /\ at[c] \in {"id", "readback"} /\ job'[c] = NoJob /\ at'[c] = "none" /\ c \notin smashed'
        /\ UNCHANGED <<type, regs>> /\ phase' = [phase EXCEPT ![c] = AfterInit(c)]
    BY <1>12 DEF ReadIdBack, IdFails, Judge, BackInHandler, EndJob
  <2> QED
    BY <2>1 DEF AfterInit, Checked
<1>13. CASE LegacyDone(c)
  BY <1>13 DEF LegacyDone, BackInHandler, EndJob
<1>14. CASE LegacyAccess(c)
  <2>1. PICK r \in Requests : AccessCalled(c) /\ StartJob(c, r, Loop(c, r, 0))
    BY <1>14 DEF LegacyAccess
  <2>2. /\ pc[c] = "idle" /\ word[c] = 0 /\ phase[c] = "ready" /\ type[c] = "NO_VSEC"
        /\ c \notin smashed /\ UNCHANGED <<vars, type, phase, word, smashed, regs>>
    BY <1>14, <2>1 DEF LegacyAccess, AccessCalled, StartJob, Idle, Known, Place
  <2>3. job'[c] = r /\ buf'[c] = r.data /\ at'[c] = Loop(c, r, 0)
    BY <2>1 DEF StartJob
  <2> QED
    BY <2>2, <2>3 DEF Loop, First
<1>15. CASE WriteAddress(c) \/ AccessData(c)
  <2>1. /\ job[c] \in Requests /\ pc[c] = "idle" /\ word[c] \in Nat /\ word[c] < Count(job[c])
        /\ type[c] = "NO_VSEC" /\ phase[c] = "ready" /\ DOMAIN buf[c] = DOMAIN job[c].data
        /\ UNCHANGED <<vars, type, phase, job, regs>>
    BY <1>15 DEF WriteAddress, AccessData
  <2>2. \/ UNCHANGED smashed
        \/ smashed' = smashed \cup {c} /\ BehindData(job[c], word[c])
    BY <1>15 DEF WriteAddress, AccessData, Receive, Past
  <2>3. DOMAIN buf'[c] = DOMAIN buf[c]
    BY <1>15 DEF WriteAddress, AccessData, Receive
  <2>4. c \in smashed' => ~Fits(job[c])
    BY <2>1, <2>2, BehindOverruns
  <2>5. \/ word'[c] = word[c] /\ at'[c] \in {"address", "data"}
        \/ NextDword(c)
    BY <1>15 DEF WriteAddress, AccessData
  <2>6. CASE NextDword(c)
    BY <2>1, <2>3, <2>4, <2>6, LoopGoesOn
  <2> QED
    BY <2>1, <2>3, <2>4, <2>5, <2>6
<1> QED
  BY <1>1, <1>2, <1>3, <1>4, <1>5, <1>6, <1>7, <1>8, <1>9, <1>10, <1>11, <1>12, <1>13, <1>14, <1>15
     DEF DAStep

\* Having the registers to oneself is what StillAlone says.
LEMMA SoleStep ==
  ASSUME DANext
  PROVE  alone' \subseteq Clients /\ \A c \in Clients : Sole(c)'
BY DEF DANext, StillAlone, Sole

\* An nnt_device that does not use the registers leaves them and the memory
\* alone.
LEMMA RegistersKept ==
  ASSUME NEW c \in Clients, Use(c), ~UsesRegisters(c), DAStep(c)
  PROVE  UNCHANGED <<gw, mem>>
<1>1. at[c] \notin Legacy
  BY DEF Use, UsesRegisters, Legacy
<1>2. ~WriteId(c) /\ ~WriteAddress(c) /\ ~AccessData(c) /\ ~RunOff(c)
  BY <1>1 DEF WriteId, WriteAddress, AccessData, RunOff, Legacy
<1> USE DEF hwVars
<1>3. CASE FindCapability(c) \/ CreateFails(c) \/ Bind(c)
  BY <1>3 DEF FindCapability, CreateFails, Bind
<1>4. CASE InitPciconf(c) \/ ProbeSpace(c) \/ ProbeStatus(c) \/ ProbeFails(c)
  BY <1>4 DEF InitPciconf, ProbeSpace, ProbeStatus, ProbeFails
<1>5. CASE FinishInit(c) \/ Params(c) \/ FinishParams(c) \/ Access(c)
  BY <1>5 DEF FinishInit, Params, FinishParams, Access
<1>6. CASE UseGateway(c) \/ FinishAccess(c) \/ LockStep(c) \/ InitLegacy(c)
  BY <1>6 DEF UseGateway, FinishAccess, LockStep, InitLegacy
<1>7. CASE ReadIdBack(c) \/ IdFails(c) \/ LegacyAccess(c) \/ AccessFails(c) \/ LegacyDone(c)
  BY <1>7 DEF ReadIdBack, IdFails, LegacyAccess, AccessFails, LegacyDone, Judge
<1> QED
  BY <1>2, <1>3, <1>4, <1>5, <1>6, <1>7 DEF DAStep

\* While an nnt_device has the registers to itself, the steps of the others
\* leave them alone, and so its access intact.
LEMMA OthersIntact ==
  ASSUME TypeOK, Shapes, Stores, NEW c \in Clients, NEW d \in Clients \ {c}, DAStep(c),
         Use(c), Legal(d), alone' = StillAlone
  PROVE  Intact(d)'
<1>1. /\ pc'[d] = pc[d] /\ job'[d] = job[d] /\ at'[d] = at[d] /\ word'[d] = word[d]
      /\ buf'[d] = buf[d] /\ (d \in regs' <=> d \in regs) /\ (d \in wo' <=> d \in wo)
      /\ model' = model
  BY OthersInSemaphore, OthersInDevice, OthersInAccess
<1> SUFFICES ASSUME d \in alone' PROVE Intact(d)'
  BY DEF Intact
<1>2. UsesRegisters(d)
  BY <1>1 DEF StillAlone, UsesRegisters
<1>3. d \in alone
  BY <1>2 DEF StillAlone
<1>4. ~UsesRegisters(c)
  BY <1>3 DEF Legal, Sole
<1>5. UNCHANGED <<gw, mem>>
  BY <1>4, RegistersKept
<1> QED
  BY <1>1, <1>3, <1>5 DEF Legal, Intact, Right, Between, First

\* A dword of a request that stays inside is at an address of its own, which
\* the device has.
LEMMA RequestAddress ==
  ASSUME NEW r \in Requests, Inside(r), NEW n \in Nat, n < Count(r)
  PROVE  /\ r.addr \in Nat /\ r.addr + n \in Addrs /\ r.addr + n # Other
         /\ \A k \in 1..n : r.addr + k - 1 \in Addrs /\ r.addr + k - 1 # r.addr + n
         /\ n + 1 \in DOMAIN r.data /\ ~BehindData(r, n)
<1>1. /\ Count(r) \in Nat /\ r.addr \in Nat /\ MaxAddr \in Nat /\ Fits(r)
      /\ r.addr + Count(r) <= MaxAddr + 1
  BY Counting, AccessAssumption DEF Inside
<1>2. n + 1 \in DOMAIN r.data /\ ~BehindData(r, n)
  BY <1>1, BehindOverruns
<1> QED
  BY <1>1, <1>2 DEF Addrs, Other

\* What a step of an access on a register starts from, ...
Accessing(c, n, a) ==
  /\ n = word[c] /\ n \in Nat /\ a = job[c].addr + n /\ a = Target(c) /\ ~Past(c)
  /\ job[c] \in Requests /\ c \in regs /\ (c \in wo <=> model.wo)
  /\ a \in Addrs /\ a # Other
  /\ \A k \in 1..n : job[c].addr + k - 1 \in Addrs /\ job[c].addr + k - 1 # a
  /\ job[c].op \in {"read", "write"}
  /\ (\A k \in 1..n : Right(c, k)) /\ Between(c)

LEMMA AccessStarts ==
  ASSUME Shapes, NEW c \in Clients, Use(c), Intact(c), alone' = StillAlone,
         c \in alone', job[c] \in Requests, Inside(job[c]), c \in regs, c \in wo <=> model.wo,
         at[c] \in {"address", "data"}
  PROVE  Accessing(c, word[c], job[c].addr + word[c]) /\ word[c] + 1 \in DOMAIN job[c].data
<1>1. c \in alone
  BY DEF StillAlone, UsesRegisters, Use, Legacy
<1>2. word[c] \in Nat /\ word[c] < Count(job[c])
  BY DEF Shapes, Use
<1>3. /\ job[c].addr + word[c] \in Addrs /\ job[c].addr + word[c] # Other
      /\ \A k \in 1..word[c] : /\ job[c].addr + k - 1 \in Addrs
                               /\ job[c].addr + k - 1 # job[c].addr + word[c]
      /\ word[c] + 1 \in DOMAIN job[c].data /\ ~BehindData(job[c], word[c])
      /\ job[c].op \in {"read", "write"}
  BY <1>2, RequestAddress, Counting
<1>4. job[c].addr + word[c] = Target(c) /\ ~Past(c)
  BY <1>3 DEF Target, Past
<1>5. (\A k \in 1..word[c] : Right(c, k)) /\ Between(c)
  BY <1>1 DEF Intact
<1> QED
  BY <1>2, <1>3, <1>4, <1>5 DEF Accessing

\* ... and what it has done when it counts a dword.
LEMMA DwordCounted ==
  ASSUME Shapes, NEW c \in Clients, NEW n, NEW a, Accessing(c, n, a),
         NextDword(c), UNCHANGED <<model, job, wo, regs>>,
         \A k \in 1..n : mem'[job[c].addr + k - 1] = mem[job[c].addr + k - 1] /\ buf'[c][k] = buf[c][k],
         mem'[a] = IF job[c].op = "write" THEN job[c].data[n + 1] ELSE buf'[c][n + 1]
  PROVE  Intact(c)'
<1>1. word'[c] = n + 1 /\ (at'[c] = "done" \/ at'[c] = First(c, job[c]))
  BY LoopGoesOn DEF Accessing
<1>2. First(c, job[c])' = First(c, job[c])
  BY DEF First
<1>3. Between(c)'
  BY <1>1, <1>2 DEF Between
<1>4. \A k \in 1..(n + 1) : k \in 1..n \/ k = n + 1
  BY DEF Accessing
<1>5. job[c].addr + (n + 1) - 1 = a
  <2>1. job[c].addr \in Nat /\ n \in Nat /\ a = job[c].addr + n
    BY AccessAssumption DEF Accessing
  <2> QED
    BY <2>1
<1>6. \A k \in 1..n : Right(c, k)'
  BY DEF Accessing, Right
<1>7. Right(c, n + 1)'
  BY <1>5 DEF Right
<1>8. \A k \in 1..word'[c] : Right(c, k)'
  BY <1>1, <1>4, <1>6, <1>7
<1> QED
  BY <1>3, <1>8 DEF Intact

LEMMA WriteAddressIntact ==
  ASSUME Shapes, Stores, NEW c \in Clients, NEW n, NEW a, Accessing(c, n, a), WriteAddress(c)
  PROVE  Intact(c)'
<1>1. /\ at[c] = "address" /\ AddressWritten(c, a, job[c].op = "read" /\ c \in wo)
      /\ UNCHANGED <<model, wo, regs, job, buf>>
  BY DEF WriteAddress, Accessing, devVars
<1>2. CASE First(c, job[c]) = "address"
  <2>1. word' = word /\ at'[c] = "data" /\ (job[c].op = "read" \/ ~model.wo)
    BY <1>2 DEF WriteAddress, Go, Shapes, First, Accessing
  <2>2. mem' = mem /\ gw'.addr = a /\ (model.wo => gw'.data = mem[a])
    BY <1>1, <2>1 DEF AddressWritten, Accessing, Stores
  <2>3. Between(c)'
    BY <1>1, <2>1, <2>2 DEF Between, Accessing
  <2>4. \A k \in 1..word'[c] : Right(c, k)'
    BY <1>1, <2>1, <2>2 DEF Right, Accessing
  <2> QED
    BY <2>3, <2>4 DEF Intact
<1>3. CASE First(c, job[c]) # "address"
  <2>1. job[c].op = "write" /\ model.wo /\ NextDword(c) /\ First(c, job[c]) = "data"
    BY <1>3 DEF WriteAddress, First, Accessing
  <2>2. mem' = [mem EXCEPT ![a] = gw.data]
    BY <1>1, <2>1 DEF AddressWritten, Accessing
  <2>3. gw.data = job[c].data[n + 1]
    BY <1>1, <2>1 DEF Between, Accessing
  <2>4. mem'[a] = job[c].data[n + 1]
    BY <2>2, <2>3 DEF Stores, Accessing
  <2>5. \A k \in 1..n : mem'[job[c].addr + k - 1] = mem[job[c].addr + k - 1]
    BY <2>2 DEF Stores, Accessing
  <2> QED
    BY <1>1, <2>1, <2>4, <2>5, DwordCounted
<1> QED
  BY <1>2, <1>3

\* The data register is accessed for the dword the loop is at.
LEMMA DataAccessed ==
  ASSUME NEW c \in Clients, NEW n, NEW a, Accessing(c, n, a), AccessData(c)
  PROVE  /\ job[c].op = "write" => DataWritten(c, job[c].data[n + 1]) /\ buf' = buf
         /\ job[c].op # "write" =>
              mem' = mem /\ \E v \in DataRead(c) : buf' = [buf EXCEPT ![c][n + 1] = v]
<1>1. ~Past(c) /\ n = word[c]
  BY DEF Accessing
<1>2. Sent(c) = {job[c].data[n + 1]}
  BY <1>1 DEF Sent
<1>3. \A v : Receive(c, v) => buf' = [buf EXCEPT ![c][n + 1] = v]
  BY <1>1 DEF Receive
<1> QED
  BY <1>2, <1>3 DEF AccessData

LEMMA AccessDataIntact ==
  ASSUME Shapes, Stores, NEW c \in Clients, NEW n, NEW a, Accessing(c, n, a), AccessData(c),
         n + 1 \in DOMAIN buf[c]
  PROVE  Intact(c)'
<1>1. at[c] = "data" /\ UNCHANGED <<model, wo, regs, job>> /\ n \in Nat
  BY DEF AccessData, Accessing, devVars
<1>2. CASE First(c, job[c]) = "data"
  <2>1. word' = word /\ at'[c] = "address" /\ job[c].op = "write" /\ model.wo
    BY <1>2 DEF AccessData, Go, Shapes, First, Accessing
  <2>2. mem' = mem /\ gw'.data = job[c].data[n + 1] /\ buf' = buf
    BY <2>1, DataAccessed DEF DataWritten, Accessing, Stores
  <2>3. Between(c)'
    BY <1>1, <2>1, <2>2 DEF Between, Accessing
  <2>4. \A k \in 1..word'[c] : Right(c, k)'
    BY <1>1, <2>1, <2>2 DEF Right, Accessing
  <2> QED
    BY <2>3, <2>4 DEF Intact
<1>3. CASE First(c, job[c]) # "data"
  <2>1. /\ NextDword(c) /\ First(c, job[c]) = "address"
        /\ gw.addr = a /\ (model.wo => gw.data = mem[a])
    BY <1>1, <1>3 DEF AccessData, First, Between, Accessing
  <2>2. CASE job[c].op = "write"
    <3>1. ~model.wo /\ mem' = [mem EXCEPT ![a] = job[c].data[n + 1]] /\ buf' = buf
      BY <2>1, <2>2, DataAccessed DEF First, DataWritten, Accessing
    <3>2. mem'[a] = job[c].data[n + 1]
      BY <3>1 DEF Stores, Accessing
    <3>3. \A k \in 1..n : mem'[job[c].addr + k - 1] = mem[job[c].addr + k - 1]
      BY <3>1 DEF Stores, Accessing
    <3> QED
      BY <1>1, <2>1, <2>2, <3>1, <3>2, <3>3, DwordCounted
  <2>3. CASE job[c].op # "write"
    <3>1. PICK v \in DataRead(c) : buf' = [buf EXCEPT ![c][n + 1] = v]
      BY <2>3, DataAccessed
    <3>2. v = mem[a] /\ mem' = mem
      BY <2>1, <2>3, DataAccessed DEF DataRead, Accessing
    <3>3. buf'[c][n + 1] = v /\ \A k \in 1..n : buf'[c][k] = buf[c][k]
      BY <1>1, <3>1 DEF Stores
    <3> QED
      BY <1>1, <2>1, <2>3, <3>2, <3>3, DwordCounted
  <2> QED
    BY <2>2, <2>3
<1> QED
  BY <1>2, <1>3

\* Every step of an nnt_device keeps its own access intact.
LEMMA OwnIntact ==
  ASSUME IInv, Shapes, Stores, NEW c \in Clients, Known(c), Use(c), Intact(c), DAStep(c),
         alone' = StillAlone
  PROVE  Intact(c)'
<1> SUFFICES ASSUME c \in alone', job'[c] \in Requests, Inside(job'[c]), c \in regs',
                    (c \in wo' <=> model'.wo)
             PROVE  Intact(c)'
  BY DEF Intact
<1>1. pc'[c] = "idle" /\ at'[c] # "dead"
  BY DEF StillAlone, UsesRegisters
<1> USE Jobs DEF Shapes, Stores, IInv, TypeOK, devVars, jobVars, hwVars, vars, Go, Goto
<1>2. CASE FindCapability(c) \/ CreateFails(c)
  BY <1>2 DEF FindCapability, CreateFails, Use
<1>3. CASE Bind(c)
  <2>1. UNCHANGED <<vars, model, regs, wo, jobVars, hwVars>>
    BY <1>3 DEF Bind
  <2>2. c \in alone
    BY <1>1, <2>1 DEF StillAlone, UsesRegisters
  <2> QED
    BY <2>1, <2>2 DEF Intact, Right, Between, First
<1>4. CASE InitPciconf(c) \/ Params(c) \/ Access(c)
  BY <1>1, <1>4 DEF InitPciconf, Params, Access, Begin
<1>5. CASE ProbeSpace(c) \/ ProbeStatus(c) \/ ProbeFails(c) \/ UseGateway(c)
  BY <1>1, <1>5 DEF ProbeSpace, ProbeStatus, ProbeFails, UseGateway, Probing
<1>6. CASE LockStep(c)
  BY <1>1, <1>6 DEF LockStep, PollTimeout, PollTaken, PollFree, ConfigError, ReadCounter,
     WriteTicket, ReadBack, Leave, Trying
<1>7. CASE FinishInit(c) \/ FinishAccess(c) \/ FinishParams(c)
  BY <1>1, <1>7 DEF FinishInit, FinishAccess, FinishParams, BackInHandler, EndJob
<1>8. CASE ReadIdBack(c) \/ IdFails(c) \/ LegacyDone(c) \/ RunOff(c)
  BY <1>1, <1>8 DEF ReadIdBack, IdFails, LegacyDone, Judge, BackInHandler, EndJob, RunOff
<1>9. CASE InitLegacy(c)
  BY <1>9 DEF InitLegacy, StartJob
<1>10. CASE WriteId(c)
  BY <1>10 DEF WriteId, Use
<1>11. CASE LegacyAccess(c)
  <2>1. PICK r \in Requests : AccessCalled(c) /\ StartJob(c, r, Loop(c, r, 0))
    BY <1>11 DEF LegacyAccess
  <2>2. word'[c] = 0 /\ job'[c] = r /\ at'[c] = Loop(c, r, 0) /\ wo' = wo
    BY <1>11, <2>1 DEF LegacyAccess, AccessCalled, StartJob, Idle, Known, Place
  <2>3. First(c, job[c])' = First(c, r)
    BY <2>2 DEF First
  <2>4. at'[c] = "done" \/ at'[c] = First(c, r)
    BY <2>2 DEF Loop
  <2> QED
    BY <2>2, <2>3, <2>4 DEF Intact, Between
<1>12. CASE WriteAddress(c) \/ AccessData(c)
  <2>1. at[c] \in {"address", "data"} /\ UNCHANGED <<model, job, regs, wo>>
    BY <1>12 DEF WriteAddress, AccessData
  <2>2. Accessing(c, word[c], job[c].addr + word[c]) /\ word[c] + 1 \in DOMAIN job[c].data
    BY <2>1, AccessStarts
  <2>3. word[c] + 1 \in DOMAIN buf[c]
    BY <2>2 DEF Use, Accessing
  <2> QED
    BY <1>12, <2>2, <2>3, WriteAddressIntact, AccessDataIntact
<1>13. CASE AccessFails(c)
  <2>1. /\ at[c] \in {"address", "data"} /\ at'[c] = "done"
        /\ UNCHANGED <<vars, model, regs, wo, job, word, buf, hwVars>>
    BY <1>13 DEF AccessFails
  <2>2. c \in alone
    BY <1>1, <2>1 DEF StillAlone, UsesRegisters
  <2> QED
    BY <2>1, <2>2 DEF Intact, Right, Between
<1> QED
  BY <1>2, <1>3, <1>4, <1>5, <1>6, <1>7, <1>8, <1>9, <1>10, <1>11, <1>12, <1>13 DEF DAStep

\* The inductive invariant holds initially, ...
LEMMA LegacyInit == DAInit => LegacyInv
<1> SUFFICES ASSUME DAInit PROVE LegacyInv
  OBVIOUS
<1>1. DAInv
  BY ProbingInit
<1>2. Stores
  <2>1. mem = [a \in Addrs |-> mem[a]]
    BY AccessAssumption DEF DAInit
  <2> QED
    BY <2>1 DEF DAInit, Stores
<1>3. ASSUME NEW c \in Clients PROVE Use(c) /\ Sole(c) /\ Intact(c)
  BY <1>3, Jobs DEF DAInit, Use, Sole, Intact, Legacy, UsesRegisters
<1> QED
  BY <1>1, <1>2, <1>3 DEF LegacyInv, Legal, DAInit

\* ... and every step keeps it.
LEMMA LegacyStep == LegacyInv /\ [DANext]_daVars => LegacyInv'
<1> SUFFICES ASSUME LegacyInv, [DANext]_daVars PROVE LegacyInv'
  OBVIOUS
<1>1. IInv /\ TypeOK /\ Shapes /\ Stores /\ \A d \in Clients : Known(d) /\ Legal(d)
  BY DEF LegacyInv, DAInv, IInv, AllKnown
<1>2. DAInv' /\ Stores'
  BY ProbingStep, StoresStep DEF LegacyInv
<1>3. CASE DANext
  <2>1. PICK c \in Clients : DAStep(c)
    BY <1>3 DEF DANext
  <2>2. alone' = StillAlone
    BY <1>3 DEF DANext
  <2>3. alone' \subseteq Clients /\ \A d \in Clients : Sole(d)'
    BY <1>3, SoleStep
  <2>4. ASSUME NEW d \in Clients PROVE Use(d)' /\ Intact(d)'
    <3>1. CASE d # c
      BY <1>1, <2>1, <2>2, <3>1, OthersUse, OthersIntact DEF Legal
    <3>2. CASE d = c
      BY <1>1, <2>1, <2>2, <3>2, OwnUse, OwnIntact DEF Legal
    <3> QED
      BY <3>1, <3>2
  <2> QED
    BY <1>2, <2>3, <2>4 DEF LegacyInv, Legal
<1>4. CASE UNCHANGED daVars
  <2>1. UNCHANGED <<pc, model, type, phase, regs, wo, job, at, word, buf, smashed, gw, mem, alone>>
    BY <1>4 DEF daVars, vars, devVars, jobVars, hwVars
  <2>2. \A d \in Clients : Use(d)' /\ Sole(d)'
    BY <1>1, <2>1 DEF Legal, Use, Sole, UsesRegisters
  <2>3. \A d \in Clients : Intact(d)'
    BY <1>1, <2>1 DEF Legal, Intact, Right, Between, First
  <2> QED
    BY <1>2, <2>1, <2>2, <2>3 DEF LegacyInv, Legal
<1> QED
  BY <1>3, <1>4

\* The inductive invariant holds throughout.
THEOREM LegacyInvariance == DASpec => []LegacyInv
BY LegacyInit, LegacyStep, PTL DEF DASpec

\* Through the address and data registers, an access that has them to itself
\* transfers every dword it counts, on either kind of gateway, whatever other
\* accesses, initialisations and failures there were before it, if is_wo_gw
\* has told the gateway's kind and the request stays inside its data[] and the
\* memory.
THEOREM LegacyAccessIntact == DASpec => []LegacyIntact
<1>1. LegacyInv => LegacyIntact
  <2> SUFFICES ASSUME LegacyInv, NEW c \in alone, job[c] \in Requests, Inside(job[c]),
                      c \in regs \/ c \in Alloc, c \in wo <=> model.wo
               PROVE  \A k \in 1..word[c] : Right(c, k)
    BY DEF LegacyIntact, Trusted, Right
  <2>1. c \in Clients /\ Legal(c)
    BY DEF LegacyInv
  <2>2. c \in regs
    BY <2>1 DEF Legal, Use, Sole, UsesRegisters
  <2> QED
    BY <2>1, <2>2 DEF Legal, Intact
<1> QED
  BY LegacyInvariance, <1>1, PTL

----------------------------------------------------------------------------
(* Types *)

DeviceTyped ==
  /\ model \in Models
  /\ type \in [Clients -> {"PCICONF", "NO_VSEC"}]
  /\ phase \in [Clients -> {"absent", "check", "second", "ready", "failed"}]
  /\ mask \in [Clients -> SUBSET (Spaces \cup {Initialized})]
  /\ flags \in [Clients -> SUBSET Spaces] /\ denied \subseteq Clients
  /\ fully \subseteq Clients /\ regs \subseteq Clients /\ wo \subseteq Clients
  /\ enabled \subseteq Clients
  /\ space \in Spaces /\ excused \subseteq Clients

StoreTyped ==
  gw \in [addr : Addrs \cup {Other}, data : Values] /\ mem \in [Addrs -> Values]

CountTyped == calls \in 0..MaxCalls[model.vsec] /\ errors \in 0..MaxErrors

JobTyped(c) ==
  /\ job[c] \in Requests \cup Probes \cup {NoJob}
  /\ at[c] \in Legacy \cup {"none", "space", "status", "gateway", "done", "dead"}
  /\ word[c] \in 0..(IF job[c] \in Probes THEN Len(Order(c)) ELSE Count(job[c]))
  /\ at[c] \in {"space", "status"} => word[c] < Len(Order(c))
  /\ at[c] \in {"address", "data"} => word[c] < Count(job[c])
  /\ buf[c] \in [DOMAIN job[c].data -> Values]

TypeInv ==
  LegacyInv /\ DeviceTyped /\ StoreTyped /\ CountTyped /\ \A c \in Clients : JobTyped(c)

\* The spaces of a probe.
LEMMA OrderTyped ==
  ASSUME NEW c \in Clients
  PROVE  /\ Len(Order(c)) \in Nat /\ Len(Order(c)) > 0
         /\ \A n \in Nat : n < Len(Order(c)) => Order(c)[n + 1] \in Spaces
<1>1. Order(c) \in Seq(Spaces)
  BY AccessAssumption DEF Order
<1> QED
  BY <1>1, SomeSpace DEF Order

\* What a job starts with, and leaves behind.
LEMMA JobStarts ==
  ASSUME Shapes, Stores, NEW c \in Clients, Known(c), Idle(c),
         NEW r \in Requests \cup Probes, NEW step, StartJob(c, r, step)
  PROVE  /\ job'[c] = r /\ at'[c] = step /\ word'[c] = 0
         /\ buf'[c] \in [DOMAIN job'[c].data -> Values]
<1>1. job'[c] = r /\ at'[c] = step /\ word'[c] = 0 /\ buf'[c] = r.data
  BY DEF StartJob, Go, Shapes, Stores, Idle, Known, Place
<1>2. CASE r \in Requests
  <2>1. r.data \in Seq(Values)
    BY <1>2, AccessAssumption
  <2>2. r.data \in [DOMAIN r.data -> Values]
    BY <2>1
  <2> QED
    BY <1>1, <2>2
<1>3. CASE r \in Probes
  <2>1. r.data = <<>>
    BY <1>3 DEF Probes, InitJob, ParamsJob
  <2> QED
    BY <1>1, <2>1
<1> QED
  BY <1>1, <1>2, <1>3

LEMMA JobEnds ==
  ASSUME Shapes, Stores, NEW c \in Clients, EndJob(c)
  PROVE  JobTyped(c)'
<1>1. job'[c] = NoJob /\ at'[c] = "none" /\ word'[c] = 0 /\ buf'[c] = <<>>
  BY DEF BackInHandler, EndJob, Go, Shapes, Stores
<1>2. NoJob \notin Probes /\ NoJob.data = <<>>
  BY DEF NoJob, Probes, InitJob, ParamsJob
<1> QED
  BY <1>1, <1>2, NothingToCount DEF JobTyped, Legacy

\* ... or does not, if the thread dies.
LEMMA JobDies ==
  ASSUME Shapes, NEW c \in Clients, Go(c, "dead"), UNCHANGED <<job, word, buf>>, JobTyped(c)
  PROVE  JobTyped(c)'
<1>1. at'[c] = "dead" /\ Order(c)' = Order(c)
  BY DEF Go, Shapes, Order
<1> QED
  BY <1>1 DEF JobTyped, Legacy

\* The loop over the dwords stays within the size asked for.
LEMMA LoopTyped ==
  ASSUME Shapes, NEW c \in Clients, Use(c), JobTyped(c), at[c] \in {"address", "data"},
         UNCHANGED job, buf'[c] \in [DOMAIN job[c].data -> Values],
         \/ word' = word /\ at'[c] \in {"address", "data"}
         \/ NextDword(c)
  PROVE  JobTyped(c)'
<1>1. /\ job[c] \in Requests /\ job[c] \notin Probes /\ word[c] \in Nat
      /\ word[c] < Count(job[c]) /\ Count(job[c]) \in Nat
  BY Jobs, Counting DEF Shapes, Use, Probes
<1>2. CASE word' = word /\ at'[c] \in {"address", "data"}
  BY <1>1, <1>2 DEF JobTyped, Legacy
<1>3. CASE NextDword(c)
  <2>1. /\ word'[c] = word[c] + 1
        /\ at'[c] = "done" \/ (at'[c] \in {"address", "data"} /\ word'[c] < Count(job[c]))
    BY <1>3, LoopGoesOn
  <2>2. word'[c] \in 0..Count(job[c])
    BY <1>1, <2>1
  <2> QED
    BY <1>1, <2>1, <2>2 DEF JobTyped, Legacy
<1> QED
  BY <1>2, <1>3

LEMMA OwnJobTyped ==
  ASSUME IInv, Shapes, Stores, StoreTyped, NEW c \in Clients, Known(c), Use(c), JobTyped(c), DAStep(c)
  PROVE  JobTyped(c)'
<1> USE DEF jobVars
<1>1. CASE FindCapability(c) \/ CreateFails(c) \/ Bind(c)
  BY <1>1 DEF FindCapability, CreateFails, Bind, JobTyped, Order
<1>2. CASE InitPciconf(c) \/ Params(c)
  <2>1. PICK r \in Probes : StartJob(c, r, "space") /\ Idle(c)
    BY <1>2 DEF InitPciconf, Params, AccessCalled, Probes
  <2>2. job'[c] = r /\ at'[c] = "space" /\ word'[c] = 0 /\ buf'[c] \in [DOMAIN job'[c].data -> Values]
    BY <2>1, JobStarts
  <2>3. Len(Order(c)') \in Nat /\ Len(Order(c)') > 0
    BY SomeSpace DEF Order
  <2> QED
    BY <2>2, <2>3 DEF JobTyped, Legacy
<1>3. CASE InitLegacy(c)
  <2>1. StartJob(c, InitJob, "id") /\ Idle(c) /\ InitJob \in Probes
    BY <1>3 DEF InitLegacy, Probes
  <2>2. job'[c] = InitJob /\ at'[c] = "id" /\ word'[c] = 0 /\ buf'[c] \in [DOMAIN job'[c].data -> Values]
    BY <2>1, JobStarts
  <2>3. Len(Order(c)') \in Nat
    BY SomeSpace DEF Order
  <2> QED
    BY <2>1, <2>2, <2>3 DEF JobTyped, Legacy
<1>4. CASE Access(c) \/ LegacyAccess(c)
  <2>1. PICK r \in Requests : Idle(c) /\ (StartJob(c, r, "gateway") \/ StartJob(c, r, Loop(c, r, 0)))
    BY <1>4 DEF Access, LegacyAccess, AccessCalled
  <2>2. job'[c] = r /\ word'[c] = 0 /\ buf'[c] \in [DOMAIN job'[c].data -> Values]
    BY <2>1, JobStarts
  <2>3. at'[c] = "gateway" \/ at'[c] = Loop(c, r, 0)
    BY <2>1, JobStarts
  <2>4. Count(r) \in Nat /\ r \notin Probes
    BY Jobs, Counting DEF Probes
  <2>5. at'[c] \in {"gateway", "done"} \/ (at'[c] \in {"address", "data"} /\ 0 < Count(r))
    BY <2>3 DEF Loop, First
  <2> QED
    BY <2>2, <2>4, <2>5 DEF JobTyped, Legacy
<1>5. CASE FinishInit(c) \/ FinishParams(c) \/ FinishAccess(c) \/ ReadIdBack(c) \/ IdFails(c) \/ LegacyDone(c)
  <2>1. EndJob(c) \/ BackInHandler(c)
    BY <1>5 DEF FinishInit, FinishParams, FinishAccess, ReadIdBack, IdFails, LegacyDone, Judge
  <2> QED
    BY <2>1, JobEnds, JobDies DEF BackInHandler
<1>6. CASE ProbeSpace(c) \/ UseGateway(c) \/ WriteId(c) \/ AccessFails(c) \/ RunOff(c)
  <2>1. /\ UNCHANGED <<job, word, buf>> /\ at'[c] \in {"status", "done", "readback", "dead"}
        /\ at'[c] = "status" => word[c] < Len(Order(c))
    BY <1>6 DEF ProbeSpace, UseGateway, WriteId, AccessFails, RunOff, Go, Shapes, Probing, JobTyped
  <2>2. Order(c)' = Order(c)
    BY <2>1 DEF Order
  <2> QED
    BY <2>1, <2>2 DEF JobTyped, Legacy
<1>7. CASE ProbeStatus(c) \/ ProbeFails(c)
  <2>1. /\ job[c] \in Probes /\ at[c] \in {"space", "status"} /\ UNCHANGED <<job, buf>>
        /\ NextSpace(c)
    BY <1>7 DEF ProbeStatus, ProbeFails, Probing
  <2>2. /\ word'[c] = word[c] + 1
        /\ at'[c] = IF word'[c] = Len(Order(c)) THEN "done" ELSE "space"
    BY <2>1 DEF NextSpace, AllProbed, Go, Shapes, Order
  <2>3. Order(c)' = Order(c) /\ Len(Order(c)) \in Nat /\ word[c] \in Nat /\ word[c] < Len(Order(c))
    BY <2>1, OrderTyped DEF Order, JobTyped, Shapes
  <2>4. word'[c] \in 0..Len(Order(c)) /\ (at'[c] = "space" => word'[c] < Len(Order(c)))
    BY <2>2, <2>3
  <2> QED
    BY <2>1, <2>2, <2>3, <2>4 DEF JobTyped, Legacy
<1>8. CASE LockStep(c)
  BY <1>8 DEF LockStep, JobTyped, Order
<1>9. CASE WriteAddress(c)
  <2>1. /\ at[c] = "address" /\ UNCHANGED <<job, buf>>
        /\ (word' = word /\ at'[c] = "data") \/ NextDword(c)
    BY <1>9 DEF WriteAddress, Go, Shapes
  <2> QED
    BY <2>1, LoopTyped DEF JobTyped
<1>10. CASE AccessData(c)
  <2>1. /\ at[c] = "data" /\ UNCHANGED job
        /\ (word' = word /\ at'[c] = "address") \/ NextDword(c)
    BY <1>10 DEF AccessData, Go, Shapes
  <2>2. DataRead(c) \subseteq Values
    BY DEF DataRead, StoreTyped
  <2>3. buf'[c] \in [DOMAIN job[c].data -> Values]
    <3>1. CASE buf' = buf
      BY <3>1 DEF JobTyped
    <3>2. CASE \E v \in DataRead(c) : buf' = [buf EXCEPT ![c][word[c] + 1] = v]
      <4>1. PICK v \in Values : buf'[c] = [buf[c] EXCEPT ![word[c] + 1] = v]
        BY <2>2, <3>2 DEF Stores
      <4> QED
        BY <4>1 DEF JobTyped
    <3>3. (\E v \in DataRead(c) : Receive(c, v)) \/ buf' = buf
      BY <1>10 DEF AccessData
    <3> QED
      BY <3>1, <3>2, <3>3 DEF Receive
  <2> QED
    BY <2>1, <2>3, LoopTyped
<1> QED
  BY <1>1, <1>2, <1>3, <1>4, <1>5, <1>6, <1>7, <1>8, <1>9, <1>10 DEF DAStep

\* The registers and the memory hold values of theirs.
LEMMA StoreTypedStep ==
  ASSUME Shapes, StoreTyped, NEW c \in Clients, Use(c), JobTyped(c), DAStep(c)
  PROVE  StoreTyped'
<1> USE DEF StoreTyped, hwVars
<1>1. CASE FindCapability(c) \/ CreateFails(c) \/ Bind(c)
  BY <1>1 DEF FindCapability, CreateFails, Bind
<1>2. CASE InitPciconf(c) \/ ProbeSpace(c) \/ ProbeStatus(c) \/ ProbeFails(c) \/ FinishInit(c)
  BY <1>2 DEF InitPciconf, ProbeSpace, ProbeStatus, ProbeFails, FinishInit
<1>3. CASE Params(c) \/ FinishParams(c) \/ Access(c) \/ UseGateway(c) \/ FinishAccess(c) \/ LockStep(c)
  BY <1>3 DEF Params, FinishParams, Access, UseGateway, FinishAccess, LockStep
<1>4. CASE InitLegacy(c) \/ ReadIdBack(c) \/ IdFails(c) \/ LegacyAccess(c) \/ RunOff(c)
           \/ AccessFails(c) \/ LegacyDone(c)
  BY <1>4 DEF InitLegacy, ReadIdBack, IdFails, LegacyAccess, RunOff, AccessFails, LegacyDone, Judge
<1>5. ASSUME NEW a \in Addrs \cup {Other}, NEW read \in BOOLEAN, AddressWritten(c, a, read)
      PROVE  StoreTyped'
  BY <1>5 DEF AddressWritten
<1>6. CASE WriteId(c)
  BY <1>5, <1>6 DEF WriteId
<1>7. CASE WriteAddress(c)
  <2>1. Target(c) \in Addrs \cup {Other}
    BY DEF Target
  <2>2. AddressWritten(c, Target(c), job[c].op = "read" /\ c \in wo)
    BY <1>7 DEF WriteAddress
  <2> QED
    BY <1>5, <2>1, <2>2
<1>8. CASE AccessData(c)
  <2>1. job[c] \in Requests /\ word[c] < Count(job[c]) /\ word[c] \in Nat
    BY <1>8 DEF AccessData, Use, Shapes
  <2>2. Sent(c) \subseteq Values
    <3>1. CASE Past(c)
      BY <3>1 DEF Sent
    <3>2. CASE ~Past(c)
      <4>1. word[c] + 1 \in DOMAIN job[c].data /\ job[c].data \in Seq(Values)
        BY <2>1, <3>2, BehindOverruns, Counting DEF Past
      <4>2. job[c].data[word[c] + 1] \in Values
        BY <4>1
      <4> QED
        BY <3>2, <4>2 DEF Sent
    <3> QED
      BY <3>1, <3>2
  <2>3. ASSUME NEW v \in Values, DataWritten(c, v) PROVE StoreTyped'
    BY <2>3 DEF DataWritten
  <2>4. CASE UNCHANGED <<gw, mem>>
    BY <2>4
  <2> QED
    BY <1>8, <2>2, <2>3, <2>4 DEF AccessData
<1> QED
  BY <1>1, <1>2, <1>3, <1>4, <1>6, <1>7, <1>8 DEF DAStep

LEMMA CountTypedStep ==
  ASSUME DeviceTyped, CountTyped, NEW c \in Clients, DAStep(c)
  PROVE  CountTyped'
<1> USE DEF CountTyped
<1>1. /\ model' = model
      /\ calls' = calls \/ (calls < MaxCalls[model.vsec] /\ calls' = calls + 1)
      /\ errors' = errors \/ (errors < MaxErrors /\ errors' = errors + 1)
  <2>1. CASE FindCapability(c) \/ CreateFails(c) \/ Bind(c)
    BY <2>1 DEF FindCapability, CreateFails, Bind, Error
  <2>2. CASE InitPciconf(c) \/ ProbeSpace(c) \/ ProbeStatus(c) \/ ProbeFails(c) \/ FinishInit(c)
    BY <2>2 DEF InitPciconf, InitCalled, ProbeSpace, ProbeStatus, ProbeFails, FinishInit, Error
  <2>3. CASE Params(c) \/ FinishParams(c) \/ Access(c) \/ UseGateway(c) \/ FinishAccess(c) \/ LockStep(c)
    BY <2>3 DEF Params, FinishParams, Access, UseGateway, FinishAccess, LockStep, AccessCalled
  <2>4. CASE InitLegacy(c) \/ ReadIdBack(c) \/ IdFails(c) \/ LegacyAccess(c) \/ AccessFails(c)
             \/ LegacyDone(c)
    BY <2>4 DEF InitLegacy, InitCalled, ReadIdBack, IdFails, LegacyAccess, AccessCalled, AccessFails,
       LegacyDone, Judge, Error
  <2>5. CASE WriteId(c) \/ WriteAddress(c) \/ AccessData(c) \/ RunOff(c)
    BY <2>5 DEF WriteId, WriteAddress, AccessData, RunOff
  <2> QED
    BY <2>1, <2>2, <2>3, <2>4, <2>5 DEF DAStep
<1>2. MaxCalls[model.vsec] \in Nat /\ MaxErrors \in Nat
  BY AccessAssumption DEF DeviceTyped
<1> QED
  BY <1>1, <1>2

\* What the creation and the probing of an nnt_device set.
LEMMA DeviceTypedStep ==
  ASSUME Shapes, DeviceTyped, NEW c \in Clients, Known(c), JobTyped(c), DAStep(c)
  PROVE  DeviceTyped'
<1> USE DEF DeviceTyped, devVars, learntVars
<1>1. CASE FindCapability(c) \/ CreateFails(c) \/ Bind(c)
  <2>1. UNCHANGED <<model, learntVars, fully, regs, wo, hwVars, excused>>
    BY <1>1 DEF FindCapability, CreateFails, Bind
  <2>2. phase' \in [Clients -> {"absent", "check", "second", "ready", "failed"}]
    BY <1>1 DEF FindCapability, CreateFails, Bind, Checked
  <2>3. type' \in [Clients -> {"PCICONF", "NO_VSEC"}] /\ enabled' \subseteq Clients
    BY <1>1 DEF FindCapability, CreateFails, Bind
  <2> QED
    BY <2>1, <2>2, <2>3 DEF hwVars
<1>2. CASE InitPciconf(c) \/ Params(c) \/ Access(c) \/ FinishAccess(c) \/ LockStep(c)
  BY <1>2 DEF InitPciconf, Params, Access, FinishAccess, LockStep, hwVars
<1>3. CASE ProbeSpace(c)
  <2>1. job[c] \in Probes /\ at[c] = "space" /\ word[c] < Len(Order(c)) /\ word[c] \in Nat
    BY <1>3 DEF ProbeSpace, Probing, JobTyped, Shapes
  <2>2. space' \in Spaces
    BY <1>3, <2>1, OrderTyped DEF ProbeSpace
  <2> QED
    BY <1>3, <2>2 DEF ProbeSpace
<1>4. CASE UseGateway(c)
  BY <1>4 DEF UseGateway
<1>5. CASE ProbeStatus(c) \/ ProbeFails(c)
  <2>1. job[c] \in Probes /\ at[c] \in {"space", "status"} /\ word[c] < Len(Order(c)) /\ word[c] \in Nat
    BY <1>5 DEF ProbeStatus, ProbeFails, Probing, JobTyped, Shapes
  <2>2. Order(c)[word[c] + 1] \in Spaces
    BY <2>1, OrderTyped
  <2>3. PICK status \in BOOLEAN : Learnt(c, status)
    <3>1. (space \in model.supported) \in BOOLEAN
      OBVIOUS
    <3>2. ProbeStatus(c) => Learnt(c, space \in model.supported)
      BY DEF ProbeStatus
    <3>3. ProbeFails(c) => Learnt(c, FALSE)
      BY DEF ProbeFails
    <3> HIDE DEF DeviceTyped, devVars, learntVars
    <3> QED
      BY <1>5, <3>1, <3>2, <3>3
  <2>4. mask' \in [Clients -> SUBSET (Spaces \cup {Initialized})] /\ flags' \in [Clients -> SUBSET Spaces]
    BY <2>2, <2>3 DEF Learnt
  <2>5. UNCHANGED <<model, type, phase, denied, fully, regs, wo, enabled, space>>
        /\ excused' \subseteq Clients
    BY <1>5 DEF ProbeStatus, ProbeFails, hwVars
  <2> QED
    BY <2>4, <2>5
<1>6. CASE FinishInit(c)
  <2>1. UNCHANGED <<model, learntVars, regs, wo, enabled, space>>
    BY <1>6 DEF FinishInit, hwVars
  <2>2. fully' \subseteq Clients /\ excused' \subseteq Clients
    BY <1>6 DEF FinishInit
  <2>3. type' \in [Clients -> {"PCICONF", "NO_VSEC"}]
    BY <1>6 DEF FinishInit
  <2>4. phase' \in [Clients -> {"absent", "check", "second", "ready", "failed"}]
    BY <1>6 DEF FinishInit, AfterInit, Checked
  <2> QED
    BY <2>1, <2>2, <2>3, <2>4
<1>7. CASE FinishParams(c)
  BY <1>7 DEF FinishParams, hwVars
<1>8. CASE InitLegacy(c)
  BY <1>8 DEF InitLegacy, hwVars
<1>9. CASE ReadIdBack(c) \/ IdFails(c)
  <2>1. PICK writeOnly \in BOOLEAN : Judge(c, writeOnly)
    <3>1. CASE ReadIdBack(c)
      <4>1. Judge(c, model.wo)
        BY <3>1 DEF ReadIdBack
      <4>2. Judge(c, model.wo = TRUE) \/ Judge(c, FALSE)
        BY <4>1 DEF Judge
      <4> QED
        BY <4>2
    <3>2. CASE IdFails(c)
      BY <3>2 DEF IdFails
    <3> QED
      BY <1>9, <3>1, <3>2
  <2>2. phase' \in [Clients -> {"absent", "check", "second", "ready", "failed"}]
    BY <2>1 DEF Judge, AfterInit, Checked
  <2> QED
    BY <2>1, <2>2 DEF Judge, hwVars
<1>10. CASE LegacyAccess(c) \/ LegacyDone(c) \/ AccessFails(c)
  BY <1>10 DEF LegacyAccess, LegacyDone, AccessFails, hwVars
<1>11. CASE WriteId(c) \/ WriteAddress(c) \/ AccessData(c) \/ RunOff(c)
  BY <1>11 DEF WriteId, WriteAddress, AccessData, RunOff, hwVars
<1> QED
  BY <1>1, <1>2, <1>3, <1>4, <1>5, <1>6, <1>7, <1>8, <1>9, <1>10, <1>11 DEF DAStep

LEMMA TypesInit == DAInit => TypeInv
<1> SUFFICES ASSUME DAInit PROVE TypeInv
  OBVIOUS
<1>1. LegacyInv
  BY LegacyInit
<1>2. DeviceTyped
  BY DEF DAInit, DeviceTyped
<1>3. 0 \in Addrs /\ Values # {}
  BY AccessAssumption DEF Addrs
<1>4. StoreTyped
  BY <1>3, AccessAssumption DEF DAInit, StoreTyped
<1>5. CountTyped
  <2>1. MaxCalls[model.vsec] \in Nat /\ MaxErrors \in Nat
    BY <1>2, AccessAssumption DEF DeviceTyped
  <2> QED
    BY <2>1 DEF DAInit, CountTyped
<1>6. ASSUME NEW c \in Clients PROVE JobTyped(c)
  <2>1. job[c] = NoJob /\ at[c] = "none" /\ word[c] = 0 /\ buf[c] = <<>>
    BY DEF DAInit
  <2>2. NoJob \notin Probes /\ NoJob.data = <<>>
    BY DEF NoJob, Probes, InitJob, ParamsJob
  <2> QED
    BY <2>1, <2>2, NothingToCount DEF JobTyped, Legacy
<1> QED
  BY <1>1, <1>2, <1>4, <1>5, <1>6 DEF TypeInv

LEMMA TypesStep == TypeInv /\ [DANext]_daVars => TypeInv'
<1> SUFFICES ASSUME TypeInv, [DANext]_daVars PROVE TypeInv'
  OBVIOUS
<1>1. /\ LegacyInv /\ IInv /\ Shapes /\ Stores /\ \A d \in Clients : Known(d) /\ Use(d)
      /\ DeviceTyped /\ StoreTyped /\ CountTyped /\ \A d \in Clients : JobTyped(d)
  BY DEF TypeInv, LegacyInv, DAInv, AllKnown, Legal
<1>2. LegacyInv'
  BY <1>1, LegacyStep
<1>3. CASE DANext
  <2>1. PICK c \in Clients : DAStep(c)
    BY <1>3 DEF DANext
  <2>2. StoreTyped' /\ CountTyped' /\ DeviceTyped'
    BY <1>1, <2>1, StoreTypedStep, CountTypedStep, DeviceTypedStep
  <2>3. ASSUME NEW d \in Clients PROVE JobTyped(d)'
    <3>1. CASE d = c
      BY <1>1, <2>1, <3>1, OwnJobTyped
    <3>2. CASE d # c
      <4>1. job'[d] = job[d] /\ at'[d] = at[d] /\ word'[d] = word[d] /\ buf'[d] = buf[d]
        BY <1>1, <2>1, <3>2, OthersInDevice, OthersInAccess
      <4> QED
        BY <1>1, <4>1 DEF JobTyped, Order
    <3> QED
      BY <3>1, <3>2
  <2> QED
    BY <1>2, <2>2, <2>3 DEF TypeInv
<1>4. CASE UNCHANGED daVars
  BY <1>1, <1>2, <1>4
     DEF daVars, devVars, learntVars, jobVars, hwVars, TypeInv, DeviceTyped, StoreTyped, CountTyped,
         JobTyped, Order
<1> QED
  BY <1>3, <1>4

\* Types hold throughout, whatever sizes and offsets the users give: the count
\* of an access stays within the size asked for, though not within data[], a
\* probe within its list of spaces, data[] keeps its length, and the registers
\* and the memory hold what they can hold.
THEOREM TypesInvariance == DASpec => []TypeInv
BY TypesInit, TypesStep, PTL DEF DASpec

\* What the loops of nnt_pci_conf_access_no_vsec.c, and those behind a VSEC,
\* do to the stack behind data[] they do for a request alone whose size does
\* not fit: none that fits reaches behind data[], whatever the others do.
LegacyOverruns ==
  \A c \in Clients :
    c \in smashed \/ (at[c] \in {"address", "data"} /\ Past(c)) => ~Fits(job[c])

THEOREM OverrunsAreAsked == DASpec => []LegacyOverruns
<1>1. LegacyInv => LegacyOverruns
  <2> SUFFICES ASSUME LegacyInv, NEW c \in Clients,
                      c \in smashed \/ (at[c] \in {"address", "data"} /\ Past(c))
               PROVE  ~Fits(job[c])
    BY DEF LegacyOverruns
  <2>1. Use(c) /\ Shapes
    BY DEF LegacyInv, DAInv, Legal
  <2>2. CASE c \in smashed
    BY <2>1, <2>2 DEF Use
  <2>3. CASE at[c] \in {"address", "data"} /\ Past(c)
    <3>1. job[c] \in Requests /\ word[c] \in Nat /\ word[c] < Count(job[c])
      BY <2>1, <2>3 DEF Use, Shapes
    <3> QED
      BY <2>3, <3>1, BehindOverruns DEF Past
  <2> QED
    BY <2>2, <2>3
<1> QED
  BY LegacyInvariance, <1>1, PTL

THEOREM AccessTypes == DASpec => []DATypeOK
<1>1. TypeInv => DATypeOK
  <2> SUFFICES ASSUME TypeInv PROVE DATypeOK
    OBVIOUS
  <2>1. Shapes /\ alone \subseteq Clients /\ (\A c \in Clients : JobTyped(c))
        /\ job = [c \in Clients |-> job[c]] /\ at = [c \in Clients |-> at[c]]
        /\ smashed \subseteq Clients
    BY DEF TypeInv, LegacyInv, DAInv, Shapes, Stores
  <2>2. DeviceTyped /\ StoreTyped /\ CountTyped
    BY DEF TypeInv
  <2>3. job \in [Clients -> Requests \cup Probes \cup {NoJob}]
    BY <2>1 DEF JobTyped
  <2>4. at \in [Clients -> Legacy \cup {"none", "space", "status", "gateway", "done", "dead"}]
    BY <2>1 DEF JobTyped
  <2> QED
    BY <2>1, <2>2, <2>3, <2>4 DEF DATypeOK, JobTyped, DeviceTyped, StoreTyped, CountTyped
<1> QED
  BY <1>1, TypesInvariance, PTL

----------------------------------------------------------------------------
(* The memory that is promised *)

Promised == IF Trusted = {} THEN [kind |-> "none"] ELSE Transfer(CHOOSE c \in Trusted : TRUE)

WindowMem == [s \in {"window"} |-> mem]

\* Who is trusted is the only one to use the registers.
LEMMA TrustedIsOne ==
  ASSUME LegacyInv, NEW c \in Trusted
  PROVE  /\ c \in Clients /\ Trusted = {c} /\ c \in alone /\ Promised = Transfer(c)
         /\ job[c] \in Requests /\ Inside(job[c]) /\ c \in regs /\ (c \in wo <=> model.wo)
         /\ UsesRegisters(c) /\ \A d \in Clients \ {c} : ~UsesRegisters(d)
<1>1. c \in Clients /\ c \in alone /\ job[c] \in Requests /\ (c \in wo <=> model.wo)
      /\ c \in regs \cup Alloc /\ Inside(job[c])
  BY DEF LegacyInv, Trusted
<1>2. UsesRegisters(c) /\ \A d \in Clients \ {c} : ~UsesRegisters(d)
  BY <1>1 DEF LegacyInv, Legal, Sole
<1>3. \A d \in Trusted : d \in Clients /\ UsesRegisters(d)
  BY DEF LegacyInv, Trusted, Legal, Sole
<1>4. Trusted = {c}
  BY <1>2, <1>3
<1>5. c \in regs
  BY <1>1, <1>2 DEF LegacyInv, Legal, Use, UsesRegisters
<1> QED
  BY <1>1, <1>2, <1>4, <1>5 DEF Promised

\* In the middle of an access without a VSEC an nnt_device goes on with it,
\* ends it, dies in it, or is bound to a file.
LEMMA AccessGoesOn ==
  ASSUME IInv, NEW c \in Clients, Use(c), UsesRegisters(c), job[c] \in Requests, DAStep(c)
  PROVE  Bind(c) \/ WriteAddress(c) \/ AccessData(c) \/ RunOff(c) \/ AccessFails(c) \/ LegacyDone(c)
<1> USE Jobs DEF Use, UsesRegisters, Legacy
<1>1. ~FindCapability(c) /\ ~CreateFails(c)
  BY DEF FindCapability, CreateFails
<1>2. ~InitPciconf(c) /\ ~Params(c) /\ ~Access(c) /\ ~InitLegacy(c) /\ ~LegacyAccess(c)
  BY DEF InitPciconf, Params, Access, AccessCalled, InitLegacy, LegacyAccess, Idle
<1>3. ~ProbeSpace(c) /\ ~ProbeStatus(c) /\ ~ProbeFails(c) /\ ~UseGateway(c)
  BY DEF ProbeSpace, ProbeStatus, ProbeFails, UseGateway, Probing
<1>4. ~FinishInit(c) /\ ~FinishParams(c) /\ ~FinishAccess(c)
  BY DEF FinishInit, FinishParams, FinishAccess, Clear, ClearError
<1>5. ~LockStep(c)
  BY DEF LockStep, PollTimeout, PollTaken, PollFree, ConfigError, ReadCounter, WriteTicket, ReadBack,
     Leave, Trying
<1>6. ~WriteId(c) /\ ~ReadIdBack(c) /\ ~IdFails(c)
  BY DEF WriteId, ReadIdBack, IdFails
<1> QED
  BY <1>1, <1>2, <1>3, <1>4, <1>5, <1>6 DEF DAStep

\* ... and one that does not use the registers begins with LegacyAccess.
LEMMA AccessBegins ==
  ASSUME IInv, Shapes, NEW c \in Clients, Use(c), ~UsesRegisters(c), UsesRegisters(c)',
         job'[c] \in Requests, DAStep(c)
  PROVE  LegacyAccess(c)
<1> USE Jobs DEF Shapes, IInv, TypeOK, Use, UsesRegisters, Legacy, jobVars, vars, Go, Goto
<1>1. ~FindCapability(c) /\ ~CreateFails(c) /\ ~Bind(c)
  BY DEF FindCapability, CreateFails, Bind
<1>2. ~InitPciconf(c) /\ ~Params(c) /\ ~Access(c)
  BY DEF InitPciconf, Params, Access, Begin
<1>3. ~ProbeSpace(c) /\ ~ProbeStatus(c) /\ ~ProbeFails(c) /\ ~UseGateway(c)
  BY DEF ProbeSpace, ProbeStatus, ProbeFails, UseGateway, Probing
<1>4. ~FinishInit(c) /\ ~FinishParams(c) /\ ~FinishAccess(c) /\ ~ReadIdBack(c) /\ ~IdFails(c)
      /\ ~LegacyDone(c)
  BY DEF FinishInit, FinishParams, FinishAccess, ReadIdBack, IdFails, Judge, LegacyDone, BackInHandler, EndJob
<1>5. ~LockStep(c)
  BY DEF LockStep, PollTimeout, PollTaken, PollFree, ConfigError, ReadCounter, WriteTicket, ReadBack,
     Leave, Trying
<1>6. ~InitLegacy(c)
  BY DEF InitLegacy, StartJob
<1>7. ~WriteId(c) /\ ~WriteAddress(c) /\ ~AccessData(c) /\ ~RunOff(c) /\ ~AccessFails(c)
  BY DEF WriteId, WriteAddress, AccessData, RunOff, AccessFails
<1> QED
  BY <1>1, <1>2, <1>3, <1>4, <1>5, <1>6, <1>7 DEF DAStep

\* What goes on using the registers is not over.
LEMMA NotOver ==
  ASSUME Shapes, NEW c \in Clients, UsesRegisters(c)'
  PROVE  ~LegacyDone(c) /\ ~RunOff(c)
<1>1. job'[c] # NoJob /\ at'[c] # "dead"
  BY DEF UsesRegisters
<1>2. ~EndJob(c) /\ ~Go(c, "dead")
  BY <1>1 DEF EndJob, Go, Shapes
<1> QED
  BY <1>2 DEF LegacyDone, BackInHandler, RunOff

\* A job ends before the next one starts.
LEMMA JobChanges ==
  ASSUME Shapes, NEW c \in Clients, job[c] # NoJob, job'[c] # job[c], DAStep(c)
  PROVE  job'[c] = NoJob
<1> USE DEF Shapes, jobVars
<1>1. ~FindCapability(c) /\ ~CreateFails(c) /\ ~Bind(c) /\ ~LockStep(c)
  BY DEF FindCapability, CreateFails, Bind, LockStep
<1>2. ~InitPciconf(c) /\ ~Params(c) /\ ~Access(c) /\ ~InitLegacy(c) /\ ~LegacyAccess(c)
  BY DEF InitPciconf, Params, Access, AccessCalled, InitLegacy, LegacyAccess, Idle
<1>3. ~ProbeSpace(c) /\ ~ProbeStatus(c) /\ ~ProbeFails(c) /\ ~UseGateway(c)
  BY DEF ProbeSpace, ProbeStatus, ProbeFails, UseGateway
<1>4. ~WriteId(c) /\ ~WriteAddress(c) /\ ~AccessData(c) /\ ~RunOff(c) /\ ~AccessFails(c)
  BY DEF WriteId, WriteAddress, AccessData, RunOff, AccessFails
<1>5. CASE FinishInit(c) \/ FinishParams(c) \/ FinishAccess(c) \/ ReadIdBack(c) \/ IdFails(c)
           \/ LegacyDone(c)
  BY <1>5 DEF FinishInit, FinishParams, FinishAccess, ReadIdBack, IdFails, Judge, LegacyDone, BackInHandler, EndJob
<1> QED
  BY <1>1, <1>2, <1>3, <1>4, <1>5 DEF DAStep

\* A step on a register is none of a dead thread.
LEMMA DwordStep ==
  ASSUME Shapes, NEW c \in Clients, WriteAddress(c) \/ AccessData(c)
  PROVE  at'[c] # "dead"
<1>1. NextDword(c) \/ Go(c, "address") \/ Go(c, "data")
  BY DEF WriteAddress, AccessData
<1>2. NextDword(c) => at'[c] # "dead"
  BY LoopGoesOn
<1> QED
  BY <1>1, <1>2 DEF Go, Shapes

\* The promise begins with the access.
LEMMA TrustBegins ==
  ASSUME TypeInv, DANext, NEW c \in Trusted', c \notin Trusted
  PROVE  Trusted = {} /\ UNCHANGED mem /\ word'[c] = 0
<1>1. /\ LegacyInv /\ IInv /\ TypeOK /\ Shapes /\ Stores
      /\ \A d \in Clients : Known(d) /\ Use(d)
  BY DEF TypeInv, LegacyInv, DAInv, AllKnown, Legal, IInv
<1>2. /\ c \in Clients /\ c \in alone' /\ UsesRegisters(c)' /\ (UsesRegisters(c) => c \in alone)
      /\ job'[c] \in Requests /\ Inside(job'[c]) /\ c \in regs' \cup Alloc /\ (c \in wo' <=> model'.wo)
      /\ \A d \in Clients \ {c} : ~UsesRegisters(d)'
  BY DEF Trusted, DANext, StillAlone
<1>3. PICK e \in Clients : DAStep(e)
  BY DEF DANext
<1>4. ASSUME NEW d \in Clients, d # e
      PROVE  (UsesRegisters(d)' <=> UsesRegisters(d)) /\ job'[d] = job[d]
             /\ (d \in regs' <=> d \in regs) /\ (d \in wo' <=> d \in wo) /\ model' = model
  BY <1>1, <1>3, <1>4, OthersInSemaphore, OthersInDevice, OthersInAccess DEF UsesRegisters
<1>5. c = e
  <2> SUFFICES ASSUME c # e PROVE FALSE
    OBVIOUS
  <2> QED
    BY <1>2, <1>4 DEF Trusted
<1>6. ~UsesRegisters(c)
  <2> SUFFICES ASSUME UsesRegisters(c) PROVE FALSE
    OBVIOUS
  <2>1. UNCHANGED <<regs, wo, model, job>>
    <3>1. CASE job[c] \in Requests
      <4>1. Bind(c) \/ WriteAddress(c) \/ AccessData(c) \/ RunOff(c) \/ AccessFails(c) \/ LegacyDone(c)
        BY <1>1, <1>2, <1>3, <1>5, <3>1, AccessGoesOn
      <4>2. ~LegacyDone(c) /\ ~RunOff(c)
        BY <1>1, <1>2, NotOver
      <4> QED
        BY <4>1, <4>2 DEF Bind, WriteAddress, AccessData, AccessFails, devVars, jobVars
    <3>2. CASE job[c] \notin Requests
      <4>1. job'[c] # job[c] /\ job[c] # NoJob /\ pc[c] = "idle"
        BY <1>2, <3>2 DEF UsesRegisters
      <4>2. job'[c] = NoJob
        BY <1>1, <1>3, <1>5, <4>1, JobChanges
      <4> QED
        BY <1>2, <4>2, Jobs
    <3> QED
      BY <3>1, <3>2
  <2> QED
    BY <1>2, <2>1 DEF Trusted
<1>7. LegacyAccess(c)
  BY <1>1, <1>2, <1>3, <1>5, <1>6, AccessBegins
<1>8. UNCHANGED mem /\ word'[c] = 0
  <2>1. word[c] = 0
    <3>1. job[c] = NoJob
      BY <1>7 DEF LegacyAccess, AccessCalled, Idle
    <3>2. Place(c)
      BY <1>1, <1>2 DEF Known
    <3> QED
      BY <3>1, <3>2 DEF Place
  <2>2. UNCHANGED <<mem, word>>
    BY <1>7 DEF LegacyAccess, StartJob, hwVars
  <2> QED
    BY <2>1, <2>2
<1>9. Trusted = {}
  <2> SUFFICES ASSUME NEW d \in Trusted PROVE FALSE
    OBVIOUS
  <2>1. d \in Clients /\ d # c /\ UsesRegisters(d)
    BY <1>1, <1>6, TrustedIsOne
  <2> QED
    BY <1>2, <1>4, <1>5, <2>1
<1> QED
  BY <1>8, <1>9

\* What an access runs is a transaction of the memory, ...
LEMMA TransferTyped ==
  ASSUME NEW r \in Requests, NEW n \in 0..Len(r.data), NEW b \in [DOMAIN r.data -> Values]
  PROVE  TransferOf(r, n, b) \in Window!Transfers
<1>1. /\ r.op \in {"read", "write"} /\ r.data \in Seq(Values) /\ r.addr \in Nat
      /\ Len(r.data) \in Nat /\ DOMAIN r.data = 1..Len(r.data) /\ n \in Nat
  BY AccessAssumption
<1>2. b \in Seq(Values)
  BY <1>1
<1> QED
  BY <1>1, <1>2 DEF TransferOf, Window!Transfers

\* ... of which a step changes the count and the buffer.
LEMMA TransferCounted ==
  ASSUME NEW r, NEW n, NEW b, NEW m
  PROVE  /\ TransferOf(r, n, b).word = n
         /\ Window!Counted(TransferOf(r, n, b), m) = TransferOf(r, m, b)
<1>1. TransferOf(r, n, b).word = n
  BY DEF TransferOf
<1>2. Window!Counted(TransferOf(r, n, b), m) = TransferOf(r, m, b)
  BY DEF TransferOf, Window!Counted
<1> QED
  BY <1>1, <1>2

LEMMA TransferFilled ==
  ASSUME NEW r, NEW n, NEW b, NEW b2
  PROVE  Window!Filled(TransferOf(r, n, b), b2) = TransferOf(r, n, b2)
BY DEF TransferOf, Window!Filled

LEMMA TransferFields ==
  ASSUME NEW c
  PROVE  /\ Transfer(c).kind = job[c].op /\ Transfer(c).space = "window"
         /\ Transfer(c).addr = job[c].addr /\ Transfer(c).data = job[c].data
         /\ Transfer(c).word = word[c] /\ Transfer(c).buf = buf[c]
BY DEF Transfer, TransferOf

\* What the steps of the memory do to the transaction, and what they ask for.
AtDword(c, kind) ==
  /\ job[c].op = kind /\ word[c] < Len(job[c].data) /\ job[c].addr + word[c] \in Addrs

Reads(c) ==
  /\ AtDword(c, "read") /\ UNCHANGED mem
  /\ Transfer(c)' =
       Window!Counted(
         Window!Filled(Transfer(c),
                       [buf[c] EXCEPT ![word[c] + 1] = mem[job[c].addr + word[c]]]),
         word[c] + 1)

Writes(c) ==
  /\ AtDword(c, "write")
  /\ mem' = [mem EXCEPT ![job[c].addr + word[c]] = job[c].data[word[c] + 1]]
  /\ Transfer(c)' = Window!Counted(Transfer(c), word[c] + 1)

\* The first register of a dword changes nothing that is promised, ...
LEMMA FirstRegister ==
  ASSUME Shapes, Stores, NEW c \in Clients, NEW n, NEW a, Accessing(c, n, a),
         \/ WriteAddress(c) /\ First(c, job[c]) = "address"
         \/ AccessData(c) /\ First(c, job[c]) = "data"
  PROVE  Transfer(c)' = Transfer(c) /\ UNCHANGED mem
<1>1. CASE WriteAddress(c) /\ First(c, job[c]) = "address"
  <2>1. UNCHANGED <<job, word, buf>> /\ (job[c].op = "read" \/ ~model.wo)
    BY <1>1 DEF WriteAddress, First, Accessing
  <2>2. AddressWritten(c, a, job[c].op = "read" /\ c \in wo)
    BY <1>1 DEF WriteAddress, Accessing
  <2>3. UNCHANGED mem
    BY <2>1, <2>2 DEF AddressWritten, Accessing
  <2> QED
    BY <2>1, <2>3 DEF Transfer
<1>2. CASE AccessData(c) /\ First(c, job[c]) = "data"
  <2>1. UNCHANGED <<job, word>> /\ job[c].op = "write" /\ model.wo
    BY <1>2 DEF AccessData, First, Accessing
  <2>2. UNCHANGED <<mem, buf>>
    BY <1>2, <2>1, DataAccessed DEF DataWritten, Accessing
  <2> QED
    BY <2>1, <2>2 DEF Transfer
<1> QED
  BY <1>1, <1>2

\* ... and the second one reads the dword from the memory or writes it there.
LEMMA SecondRegister ==
  ASSUME Shapes, Stores, NEW c \in Clients, NEW n, NEW a, Accessing(c, n, a),
         word[c] < Len(job[c].data),
         \/ WriteAddress(c) /\ First(c, job[c]) # "address"
         \/ AccessData(c) /\ First(c, job[c]) # "data"
  PROVE  Reads(c) \/ Writes(c)
<1>1. n = word[c] /\ a = job[c].addr + word[c] /\ AtDword(c, job[c].op)
      /\ job[c].op \in {"read", "write"}
  BY DEF Accessing, AtDword
<1>2. NextDword(c) /\ UNCHANGED job
  BY DEF WriteAddress, AccessData
<1>3. word'[c] = word[c] + 1
  BY <1>2 DEF NextDword, Shapes
<1>4. CASE WriteAddress(c) /\ First(c, job[c]) # "address"
  <2>1. /\ job[c].op = "write" /\ model.wo /\ UNCHANGED buf
        /\ at[c] = "address" /\ First(c, job[c]) = "data"
        /\ AddressWritten(c, a, job[c].op = "read" /\ c \in wo)
    BY <1>4 DEF WriteAddress, First, Accessing
  <2>2. mem' = [mem EXCEPT ![a] = gw.data]
    BY <2>1 DEF AddressWritten, Accessing
  <2>3. gw.data = job[c].data[n + 1]
    BY <1>1, <2>1 DEF Between, Accessing
  <2>4. Transfer(c)' = Window!Counted(Transfer(c), word[c] + 1)
    <3>1. Transfer(c)' = TransferOf(job[c], word[c] + 1, buf[c])
      BY <1>2, <1>3, <2>1 DEF Transfer
    <3> QED
      BY <3>1, TransferCounted DEF Transfer
  <2> QED
    BY <1>1, <2>1, <2>2, <2>3, <2>4 DEF Writes
<1>5. CASE AccessData(c) /\ First(c, job[c]) # "data"
  <2>1. /\ at[c] = "data" /\ First(c, job[c]) = "address"
        /\ gw.addr = a /\ (model.wo => gw.data = mem[a]) /\ a # Other
    BY <1>1, <1>5 DEF AccessData, First, Between, Accessing
  <2>2. CASE job[c].op = "write"
    <3>1. ~model.wo /\ mem' = [mem EXCEPT ![a] = job[c].data[n + 1]] /\ UNCHANGED buf
      BY <1>5, <2>1, <2>2, DataAccessed DEF First, DataWritten, Accessing
    <3>2. Transfer(c)' = Window!Counted(Transfer(c), word[c] + 1)
      <4>1. Transfer(c)' = TransferOf(job[c], word[c] + 1, buf[c])
        BY <1>2, <1>3, <3>1 DEF Transfer
      <4> QED
        BY <4>1, TransferCounted DEF Transfer
    <3> QED
      BY <1>1, <2>2, <3>1, <3>2 DEF Writes
  <2>3. CASE job[c].op # "write"
    <3>1. PICK v \in DataRead(c) : buf' = [buf EXCEPT ![c][n + 1] = v]
      BY <1>5, <2>3, DataAccessed
    <3>2. v = mem[a] /\ UNCHANGED mem
      BY <1>5, <2>1, <2>3, DataAccessed DEF DataRead, Accessing
    <3>3. buf'[c] = [buf[c] EXCEPT ![word[c] + 1] = mem[job[c].addr + word[c]]]
      BY <1>1, <3>1, <3>2 DEF Stores
    <3> DEFINE b == [buf[c] EXCEPT ![word[c] + 1] = mem[job[c].addr + word[c]]]
    <3>4. Transfer(c)' = Window!Counted(Window!Filled(Transfer(c), b), word[c] + 1)
      <4> HIDE DEF b
      <4>1. Transfer(c)' = TransferOf(job[c], word[c] + 1, b)
        BY <1>2, <1>3, <3>3 DEF Transfer, b
      <4>2. Window!Filled(Transfer(c), b) = TransferOf(job[c], word[c], b)
        BY TransferFilled DEF Transfer
      <4> QED
        BY <4>1, <4>2, TransferCounted
    <3> QED
      BY <1>1, <2>3, <3>2, <3>4 DEF Reads
  <2> QED
    BY <2>2, <2>3
<1> QED
  BY <1>4, <1>5

\* Every step is one of the memory or leaves it alone.
LEMMA WindowStep ==
  ASSUME TypeInv, TypeInv', DANext
  PROVE  \/ Promised' = Promised /\ UNCHANGED mem
         \/ Promised = [kind |-> "none"] /\ Promised' \in Window!Transfers /\ Promised'.word = 0
            /\ UNCHANGED mem
         \/ \E c \in Clients : Promised = Transfer(c) /\ Promised' = Transfer(c)'
              /\ (Reads(c) \/ Writes(c))
         \/ Promised' = [kind |-> "none"] /\ UNCHANGED mem
         \/ Promised = [kind |-> "none"] /\ Promised' = Promised /\ mem' \in [Addrs -> Values]
<1>1. /\ LegacyInv /\ IInv /\ TypeOK /\ Shapes /\ Stores
      /\ \A d \in Clients : Known(d) /\ Use(d) /\ Intact(d)
  BY DEF TypeInv, LegacyInv, DAInv, AllKnown, Legal, IInv
<1>2. ASSUME NEW c \in Trusted'
      PROVE  /\ c \in Clients /\ Trusted' = {c} /\ Promised' = Transfer(c)' /\ JobTyped(c)'
             /\ job'[c] \in Requests /\ c \in regs' /\ (c \in wo' <=> model'.wo)
             /\ c \in alone' /\ UsesRegisters(c)'
  <2>1. \A d \in Trusted' : d \in Clients /\ d \in alone' /\ job'[d] \in Requests
                            /\ (d \in wo' <=> model'.wo) /\ d \in regs' \cup Alloc
    BY DEF TypeInv, LegacyInv, Trusted
  <2>2. \A d \in Trusted' : UsesRegisters(d)' /\ \A e \in Clients \ {d} : ~UsesRegisters(e)'
    BY <2>1 DEF TypeInv, LegacyInv, Legal, Sole
  <2>3. Trusted' = {c}
    BY <2>1, <2>2
  <2>4. c \in regs' /\ JobTyped(c)'
    BY <2>1, <2>2 DEF TypeInv, LegacyInv, Legal, Use, UsesRegisters
  <2>5. Promised' = Transfer(c)'
    BY <2>3 DEF Promised
  <2> QED
    BY <2>1, <2>2, <2>3, <2>4, <2>5
<1>3. Trusted = {} => Promised = [kind |-> "none"]
  BY DEF Promised
<1>4. Trusted' = {} => Promised' = [kind |-> "none"]
  BY DEF Promised
<1>5. CASE Trusted = {} /\ Trusted' = {}
  <2>1. mem' \in [Addrs -> Values]
    BY DEF TypeInv, StoreTyped
  <2> QED
    BY <1>3, <1>4, <1>5, <2>1
<1>6. ASSUME NEW c \in Trusted', c \notin Trusted
      PROVE  /\ Trusted = {} /\ Promised' \in Window!Transfers /\ Promised'.word = 0
             /\ UNCHANGED mem
  <2>1. Trusted = {} /\ UNCHANGED mem /\ word'[c] = 0
    BY <1>6, TrustBegins
  <2>2. Transfer(c)' \in Window!Transfers
    <3>1. /\ job'[c] \in Requests /\ word'[c] \in 0..Len(job'[c].data)
          /\ buf'[c] \in [DOMAIN job'[c].data -> Values]
      <4>1. JobTyped(c)' /\ job'[c] \in Requests /\ job'[c] \notin Probes
        BY <1>2, Jobs DEF Probes
      <4>2. Len(job'[c].data) \in Nat
        BY <4>1, Counting
      <4> QED
        BY <2>1, <4>1, <4>2 DEF JobTyped
    <3> QED
      BY <3>1, TransferTyped DEF Transfer
  <2>3. Transfer(c)'.word = 0
    BY <2>1 DEF Transfer, TransferOf
  <2> QED
    BY <1>2, <2>1, <2>2, <2>3
<1>7. ASSUME NEW c \in Trusted, c \in Trusted'
      PROVE  \/ Promised' = Promised /\ UNCHANGED mem
             \/ Promised = Transfer(c) /\ Promised' = Transfer(c)' /\ (Reads(c) \/ Writes(c))
  <2>1. /\ c \in Clients /\ Promised = Transfer(c) /\ job[c] \in Requests /\ Inside(job[c])
        /\ c \in regs
        /\ (c \in wo <=> model.wo) /\ UsesRegisters(c)
        /\ \A d \in Clients \ {c} : ~UsesRegisters(d)
    BY <1>1, TrustedIsOne
  <2>2. Promised' = Transfer(c)' /\ c \in alone' /\ UsesRegisters(c)'
    BY <1>2, <1>7
  <2>3. PICK e \in Clients : DAStep(e)
    BY DEF DANext
  <2>4. CASE e # c
    <3>1. job'[c] = job[c] /\ word'[c] = word[c] /\ buf'[c] = buf[c]
      BY <1>1, <2>1, <2>3, <2>4, OthersInDevice, OthersInAccess
    <3>2. UNCHANGED mem
      BY <1>1, <2>1, <2>3, <2>4, RegistersKept
    <3> QED
      BY <2>1, <2>2, <3>1, <3>2 DEF Transfer
  <2>5. CASE e = c
    <3>1. Bind(c) \/ WriteAddress(c) \/ AccessData(c) \/ RunOff(c) \/ AccessFails(c) \/ LegacyDone(c)
      BY <1>1, <2>1, <2>3, <2>5, AccessGoesOn
    <3>2. CASE Bind(c) \/ AccessFails(c)
      <4>1. UNCHANGED <<job, word, buf, mem>>
        BY <3>2 DEF Bind, AccessFails, jobVars, hwVars
      <4> QED
        BY <2>1, <2>2, <4>1 DEF Transfer
    <3>3. ~LegacyDone(c) /\ ~RunOff(c)
      BY <1>1, <2>1, <2>2, NotOver
    <3>4. CASE WriteAddress(c) \/ AccessData(c)
      <4>1. at[c] \in {"address", "data"}
        BY <3>4 DEF WriteAddress, AccessData
      <4>2. Accessing(c, word[c], job[c].addr + word[c])
        <5>1. Use(c) /\ Intact(c) /\ alone' = StillAlone
          BY <1>1, <2>1 DEF DANext
        <5> QED
          BY <1>1, <2>1, <2>2, <4>1, <5>1, AccessStarts
      <4>3. word[c] < Len(job[c].data)
        <5>1. word[c] \in Nat /\ word[c] < Count(job[c])
          BY <1>1, <2>1, <4>1 DEF Use, Shapes
        <5> QED
          BY <2>1, <5>1, RequestAddress, BehindOverruns
      <4> QED
        BY <1>1, <2>1, <2>2, <3>4, <4>2, <4>3, FirstRegister, SecondRegister
    <3> QED
      BY <3>1, <3>2, <3>3, <3>4
  <2> QED
    BY <2>4, <2>5
<1>8. ASSUME NEW c \in Trusted, c \notin Trusted', Trusted' = {}
      PROVE  UNCHANGED mem
  <2>1. /\ c \in Clients /\ job[c] \in Requests /\ Inside(job[c]) /\ c \in regs
        /\ (c \in wo <=> model.wo) /\ UsesRegisters(c) /\ c \in alone
        /\ \A d \in Clients \ {c} : ~UsesRegisters(d)
    BY <1>1, TrustedIsOne
  <2>2. PICK e \in Clients : DAStep(e)
    BY DEF DANext
  <2>3. CASE e # c
    BY <1>1, <2>1, <2>2, <2>3, RegistersKept
  <2>4. CASE e = c
    <3>1. Bind(c) \/ WriteAddress(c) \/ AccessData(c) \/ RunOff(c) \/ AccessFails(c) \/ LegacyDone(c)
      BY <1>1, <2>1, <2>2, <2>4, AccessGoesOn
    <3>2. CASE Bind(c) \/ AccessFails(c) \/ LegacyDone(c) \/ RunOff(c)
      BY <3>2 DEF Bind, AccessFails, LegacyDone, RunOff, hwVars
    <3>3. CASE WriteAddress(c) \/ AccessData(c)
      <4>1. UNCHANGED <<pc, job, regs, wo, model>>
        BY <3>3 DEF WriteAddress, AccessData, vars, devVars
      <4>2. \A d \in Clients : UsesRegisters(d)' <=> UsesRegisters(d)
        <5>1. at[c] # "dead" /\ at'[c] # "dead"
          BY <1>1, <2>1, <3>3, DwordStep DEF WriteAddress, AccessData
        <5>2. \A d \in Clients \ {c} : at'[d] = at[d]
          BY <1>1, <2>1, <2>2, <2>4, OthersInDevice
        <5> QED
          BY <4>1, <5>1, <5>2 DEF UsesRegisters
      <4>3. c \in alone'
        BY <2>1, <4>2 DEF DANext, StillAlone
      <4>4. c \in Trusted'
        BY <2>1, <4>1, <4>3 DEF Trusted
      <4> QED
        BY <1>8, <4>4
    <3> QED
      BY <3>1, <3>2, <3>3
  <2> QED
    BY <2>3, <2>4
<1>9. CASE Trusted' # {}
  <2>1. PICK c : c \in Trusted'
    BY <1>9
  <2>2. CASE c \in Trusted
    BY <1>1, <1>7, <2>1, <2>2, TrustedIsOne
  <2>3. CASE c \notin Trusted
    BY <1>3, <1>6, <2>1, <2>3
  <2> QED
    BY <2>2, <2>3
<1>10. CASE Trusted' = {} /\ Trusted # {}
  BY <1>4, <1>8, <1>10
<1> QED
  BY <1>5, <1>9, <1>10

\* The steps of the promised transaction are steps of the memory.
LEMMA WindowReads ==
  ASSUME NEW c \in Clients, Promised = Transfer(c), Promised' = Transfer(c)', Reads(c)
  PROVE  Window!ReadDword
<1>1. /\ Promised.kind = "read" /\ Promised.space = "window" /\ Promised.addr = job[c].addr
      /\ Promised.data = job[c].data /\ Promised.word = word[c] /\ Promised.buf = buf[c]
  BY TransferFields DEF Reads, AtDword
<1>2. WindowMem["window"][Promised.addr + Promised.word] = mem[job[c].addr + word[c]]
  BY <1>1 DEF WindowMem
<1>3. WindowMem' = WindowMem
  BY DEF WindowMem, Reads
<1>4. Promised' =
        Window!Counted(
          Window!Filled(Promised,
            [Promised.buf EXCEPT ![Promised.word + 1] =
               WindowMem[Promised.space][Promised.addr + Promised.word]]),
          Promised.word + 1)
  BY <1>1, <1>2 DEF Reads
<1>5. Promised.word < Len(Promised.data) /\ Promised.addr + Promised.word \in Addrs
  BY <1>1 DEF Reads, AtDword
<1> QED
  BY <1>1, <1>3, <1>4, <1>5 DEF Window!ReadDword, Window!Doing, Window!Held, Promised, WindowMem

LEMMA WindowWrites ==
  ASSUME NEW c \in Clients, Promised = Transfer(c), Promised' = Transfer(c)', Writes(c)
  PROVE  Window!StoreDword
<1>1. /\ Promised.kind = "write" /\ Promised.space = "window" /\ Promised.addr = job[c].addr
      /\ Promised.data = job[c].data /\ Promised.word = word[c]
  BY TransferFields DEF Writes, AtDword
<1>2. WindowMem' = [WindowMem EXCEPT !["window"][Promised.addr + Promised.word] =
                                       Promised.data[Promised.word + 1]]
  <2> DEFINE m == [mem EXCEPT ![job[c].addr + word[c]] = job[c].data[word[c] + 1]]
  <2>1. mem' = m
    BY DEF Writes
  <2>2. WindowMem' = [s \in {"window"} |-> m]
    BY <2>1 DEF WindowMem
  <2>3. WindowMem["window"] = mem
    BY DEF WindowMem
  <2>4. [WindowMem EXCEPT !["window"] =
            [WindowMem["window"] EXCEPT ![job[c].addr + word[c]] = job[c].data[word[c] + 1]]] =
          [s \in {"window"} |-> m]
    BY <2>3 DEF WindowMem
  <2> QED
    BY <1>1, <2>2, <2>4
<1>3. Promised' = Window!Counted(Promised, Promised.word + 1)
  BY <1>1 DEF Writes
<1>4. Promised.word < Len(Promised.data) /\ Promised.addr + Promised.word \in Addrs
  BY <1>1 DEF Writes, AtDword
<1> QED
  BY <1>1, <1>2, <1>3, <1>4 DEF Window!StoreDword, Window!Doing, Promised, WindowMem

\* In either order of the registers, and whatever other nnt_devices do, an
\* access without a VSEC that may be trusted is one of a plain memory of
\* dwords (module DwordMemory): for any devices, any requests and any number
\* of kernel modules.
THEOREM LegacyIsMemory == DASpec => LegacyRefinesMemory
<1>1. DAInit => Window!Init
  <2> SUFFICES ASSUME DAInit PROVE Window!Init
    OBVIOUS
  <2>1. Trusted = {} /\ mem = InitialMem
    BY DEF DAInit, Trusted
  <2> QED
    BY <2>1 DEF Window!Init, Window!NoTransfer
<1>2. TypeInv /\ TypeInv' /\ [DANext]_daVars => [Window!Next]_(Window!vars)
  <2> SUFFICES ASSUME TypeInv, TypeInv', [DANext]_daVars PROVE [Window!Next]_(Window!vars)
    OBVIOUS
  <2>1. CASE UNCHANGED daVars
    <3>1. UNCHANGED <<WindowMem, Promised>>
      BY <2>1 DEF daVars, devVars, jobVars, hwVars, Promised, WindowMem, Trusted, Transfer
    <3> QED
      BY <3>1 DEF Window!vars, Promised, WindowMem
  <2>2. CASE DANext
    <3>1. CASE Promised' = Promised /\ UNCHANGED mem
      BY <3>1 DEF Window!vars, Promised
    <3>2. CASE /\ Promised = [kind |-> "none"] /\ Promised' \in Window!Transfers
               /\ Promised'.word = 0 /\ UNCHANGED mem
      <4>1. Window!Begin
        BY <3>2 DEF Window!Begin, Window!NoTransfer, Promised
      <4> QED
        BY <4>1 DEF Window!Next
    <3>3. ASSUME NEW c \in Clients, Promised = Transfer(c), Promised' = Transfer(c)',
                 Reads(c) \/ Writes(c)
          PROVE  Window!Next
      BY <3>3, WindowReads, WindowWrites DEF Window!Next
    <3>4. CASE Promised' = [kind |-> "none"] /\ UNCHANGED mem
      <4>1. Window!End
        BY <3>4 DEF Window!End, Window!NoTransfer, Promised
      <4> QED
        BY <4>1 DEF Window!Next
    <3>5. CASE Promised = [kind |-> "none"] /\ Promised' = Promised /\ mem' \in [Addrs -> Values]
      <4>1. WindowMem' \in [{"window"} -> [Addrs -> Values]]
        BY <3>5 DEF WindowMem
      <4>2. Window!Disturb
        BY <3>5, <4>1 DEF Window!Disturb, Window!NoTransfer, Promised, WindowMem
      <4> QED
        BY <4>2 DEF Window!Next
    <3> QED
      BY <2>2, <3>1, <3>2, <3>3, <3>4, <3>5, WindowStep
  <2> QED
    BY <2>1, <2>2
<1> QED
  BY <1>1, <1>2, TypesInvariance, PTL DEF DASpec, LegacyRefinesMemory, Window!Spec
=============================================================================
