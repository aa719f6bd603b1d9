-------------------------- MODULE DriverLoadProofs -------------------------
(***************************************************************************)
(* The safety properties of DriverLoad for any number of functions, in any *)
(* order on the bus and plugged in at any time, and what the predicates on *)
(* device ids decide for every id.                                         *)
(***************************************************************************)
EXTENDS DriverLoad, FiniteSetTheorems, TLAPS

Steps == Loading \cup Gone \cup Stopped \cup {"loaded"}

Types ==
  /\ kind \in Kinds
  /\ bus \in Seq(Functions) /\ list \in Seq(Functions)
  /\ pc \in Steps
  /\ counted \in Nat /\ scanned \in Nat /\ minor \in Nat
  /\ Len(list) <= scanned /\ scanned <= Len(bus)

\* Before there is a number, and once a module is gone, there is nothing.
Empty == ~region /\ class = "none" /\ ~chrdev /\ nodes = {} /\ cdevs = {} /\ list = <<>>

Nothing == pc \in {"count", "region"} \/ (pc \in Gone /\ ~(IsMft /\ pc = "failed")) => Empty

\* Devices are made one after another, each with its mutex and its cdev
\* before its callbacks.
Made == IF pc = "wire" THEN minor + 1 ELSE minor

InOrder ==
  /\ pc \in {"count", "region", "class"} => list = <<>>
  /\ pc \in {"count", "region", "class", "scan"} => minor = 0
  /\ pc \in {"file", "wire"} => minor < Len(list)
  /\ pc = "loaded" => minor = Len(list)
  /\ pc \in (Loading \ {"undo"}) \cup {"loaded"} =>
       /\ locks = 1..Made /\ ready = 1..minor
       /\ cdevs = IF IsMft THEN {} ELSE 1..Made
  /\ pc = "undo" => ~IsMft /\ 1..minor \subseteq cdevs /\ cdevs \subseteq ready
  /\ cdevs \subseteq 1..Len(list)

\* Who has a cdev has a region, for as many minor numbers as were counted.
Numbered ==
  /\ ~IsMft /\ pc \in {"class", "scan", "file", "wire", "undo"} => region
  /\ cdevs # {} => region /\ ~IsMft
  /\ pc # "count" => plugged \/ IsMft \/ counted = Len(bus)

\* Whatever was destroyed wrongly was destroyed at the end, of a load that
\* failed, before it came to be made.
Destroyed ==
  /\ pc = "undo" => error
  /\ bogus # {} \/ freedOpen => error /\ pc \in Gone \cup Stopped
  /\ \A d \in bogus : d \in Nat /\ d > minor
  /\ pc = "stuck" => class = "bad"

\* A file is open on a device that there is, or on one that was freed.
Bound ==
  /\ pc \in Loading \cup {"loaded"} => opened \subseteq (IF IsMft THEN Devices ELSE cdevs)
  /\ pc = "unloaded" => opened = {}
  /\ pc = "failed" /\ ~IsMft => opened = {} \/ freedOpen

IInv == Types /\ Nothing /\ InOrder /\ Numbered /\ Destroyed /\ Bound

----------------------------------------------------------------------------

LEMMA InitInv == Init => IInv
<1> SUFFICES ASSUME Init PROVE IInv
  OBVIOUS
<1>1. bus \in Seq(Functions)
  BY DEF Init
<1>2. Types
  BY <1>1 DEF Init, Types, Steps, Loading
<1>3. 1..0 = {}
  OBVIOUS
<1>4. Nothing /\ Destroyed /\ Bound
  BY DEF Init, Nothing, Empty, Destroyed, Bound, Loading, Gone
<1>5. InOrder
  BY <1>3 DEF Init, InOrder, Made, Loading
<1>6. Numbered
  BY DEF Init, Numbered, IsMft
<1> QED
  BY <1>2, <1>4, <1>5, <1>6 DEF IInv

----------------------------------------------------------------------------
(* One lemma for each part of Next.  Names of steps are strings, which     *)
(* Steps, Loading and Gone list.                                           *)

LEMMA NumbersInv ==
  ASSUME IInv, Count \/ Region \/ Class \/ Register
  PROVE  IInv'
<1> USE DEF IInv, Types, Nothing, Empty, InOrder, Made, Numbered, Destroyed, Bound, Steps, Loading, Gone,
        Stopped, Devices, deviceVars, kernelVars, history, IsMft
<1>1. CASE Count
  BY <1>1 DEF Count, Amount
<1>2. CASE Region
  BY <1>2 DEF Region
<1>3. CASE Class
  BY <1>3 DEF Class
<1>4. CASE Register
  BY <1>4 DEF Register
<1> QED
  BY <1>1, <1>2, <1>3, <1>4

LEMMA PlugInv ==
  ASSUME IInv, NEW f \in Functions, Plug(f)
  PROVE  IInv'
<1> USE DEF IInv, Loading, Gone, Stopped, Devices, deviceVars, kernelVars, Plug
<1>1. bus' \in Seq(Functions) /\ Len(bus') = Len(bus) + 1
  BY DEF Types
<1>2. Types'
  BY <1>1 DEF Types
<1>3. Nothing' /\ Destroyed' /\ Bound'
  BY DEF Nothing, Empty, Destroyed, Bound, IsMft
<1>4. InOrder'
  BY DEF InOrder, Made, IsMft
<1>5. Numbered'
  BY DEF Numbered, IsMft
<1> QED
  BY <1>2, <1>3, <1>4, <1>5

LEMMA ScanInv ==
  ASSUME IInv, Scan \/ Scanned
  PROVE  IInv'
<1> USE DEF IInv, Types, Nothing, Empty, InOrder, Made, Numbered, Destroyed, Bound, Steps, Loading, Gone,
        Stopped, Devices, deviceVars, kernelVars, history, IsMft
<1>1. CASE Scan
  <2>1. Types'
    BY <1>1 DEF Scan, Failed
  <2>2. Nothing'
    BY <1>1 DEF Scan, Failed
  <2>3. InOrder'
    <3>1. /\ pc = "scan" /\ minor' = minor /\ minor = 0 /\ Len(list) <= Len(list')
          /\ UNCHANGED <<kind, locks, nodes, cdevs, ready>> /\ pc' \in {"scan", "undo", "failed"}
      BY <1>1 DEF Scan, Failed
    <3>2. cdevs = {} /\ locks = {} /\ ready = {}
      BY <3>1
    <3>3. 1..minor = {}
      BY <3>1
    <3>4. pc' = "undo" => ~IsMft
      BY <1>1 DEF Scan, Failed
    <3> QED
      BY <3>1, <3>2, <3>3, <3>4
  <2>4. Numbered'
    BY <1>1 DEF Scan, Failed
  <2>5. Destroyed'
    BY <1>1 DEF Scan, Failed
  <2>6. Bound'
    <3>1. /\ pc = "scan" /\ pc' \in {"scan", "undo", "failed"} /\ IsMft' = IsMft
          /\ pc' = "failed" => IsMft
          /\ UNCHANGED <<cdevs, opened>> /\ Len(list) <= Len(list')
      BY <1>1 DEF Scan, Failed
    <3>2. Devices \subseteq Devices'
      BY <3>1
    <3> QED
      BY <3>1, <3>2
  <2> QED
    BY <2>1, <2>2, <2>3, <2>4, <2>5, <2>6 DEF IInv
<1>2. CASE Scanned
  BY <1>2 DEF Scanned, EndOrNext
<1> QED
  BY <1>1, <1>2

LEMMA MakeInv ==
  ASSUME IInv, DeviceFile \/ Wire
  PROVE  IInv'
<1> USE DEF IInv, Types, Nothing, Empty, InOrder, Made, Numbered, Destroyed, Bound, Steps, Loading, Gone,
        Stopped, Devices, deviceVars, kernelVars, history, IsMft, Current
<1>1. \A n \in Nat : (1..n) \cup {n + 1} = 1..(n + 1)
  OBVIOUS
<1>2. CASE DeviceFile
  <2>1. Types'
    BY <1>1, <1>2 DEF DeviceFile
  <2>2. Nothing'
    BY <1>1, <1>2 DEF DeviceFile
  <2>3. InOrder'
    <3>1. /\ pc = "file" /\ locks' = locks \cup {minor + 1}
          /\ UNCHANGED <<kind, list, minor, ready>> /\ pc' \in {"wire", "undo"}
      BY <1>2 DEF DeviceFile
    <3>2. cdevs' = IF ~IsMft /\ pc' = "wire" THEN cdevs \cup {minor + 1} ELSE cdevs
      BY <1>2 DEF DeviceFile
    <3>3. minor \in Nat /\ minor < Len(list) /\ Len(list) \in Nat
      BY <3>1
    <3>4. locks' = 1..(minor + 1) /\ cdevs' \subseteq 1..(minor + 1)
      BY <1>1, <3>1, <3>2, <3>3
    <3>5. pc' = "wire" => cdevs' = IF IsMft THEN {} ELSE 1..(minor + 1)
      BY <1>1, <3>1, <3>2, <3>3
    <3>6. pc' = "undo" => ~IsMft' /\ cdevs' = 1..minor /\ ready' = 1..minor
      BY <1>2, <3>1, <3>2 DEF DeviceFile
    <3> QED
      BY <3>1, <3>3, <3>4, <3>5, <3>6
  <2>4. Numbered'
    BY <1>1, <1>2 DEF DeviceFile
  <2>5. Destroyed'
    BY <1>1, <1>2 DEF DeviceFile
  <2>6. Bound'
    <3>1. /\ pc = "file" /\ pc' \in {"wire", "undo"} /\ IsMft' = IsMft
          /\ cdevs \subseteq cdevs' /\ UNCHANGED <<list, opened>>
      BY <1>2 DEF DeviceFile
    <3> QED
      BY <3>1
  <2> QED
    BY <2>1, <2>2, <2>3, <2>4, <2>5, <2>6 DEF IInv
<1>3. CASE Wire
  <2>1. Types'
    <3>1. /\ UNCHANGED <<kind, bus, list, counted, scanned>> /\ minor' \in {minor, minor + 1}
          /\ pc' \in {"file", "loaded", "failed", "undo"}
      BY <1>3 DEF Wire, Failed, EndOrNext
    <3> QED
      BY <3>1
  <2>2. Nothing'
    BY <1>1, <1>3 DEF Wire, Wired, Failed, EndOrNext
  <2>3. InOrder'
    <3>1. /\ pc = "wire" /\ ready' = ready \cup {minor + 1}
          /\ UNCHANGED <<kind, list, locks, cdevs>>
      BY <1>3 DEF Wire, Wired
    <3>2. \/ pc' \in {"failed", "undo"}
          \/ /\ minor' = minor + 1
             /\ \/ pc' = "file" /\ minor' < Len(list)
                \/ pc' = "loaded" /\ ~(minor' < Len(list))
      <4>1. CASE pc' = Failed
        BY <4>1 DEF Failed
      <4>2. CASE minor' = minor + 1 /\ pc' = EndOrNext(minor', error')
        BY <4>2 DEF Failed, EndOrNext
      <4> QED
        BY <1>3, <4>1, <4>2 DEF Wire
    <3>3. minor \in Nat /\ minor < Len(list) /\ Len(list) \in Nat
      BY <3>1
    <3>4. ready' = 1..(minor + 1)
      BY <1>1, <3>1, <3>3
    <3>5. pc' = "undo" => ~IsMft /\ cdevs = 1..(minor + 1) /\ minor' \in {minor, minor + 1}
      BY <1>3, <3>1 DEF Wire, Failed, EndOrNext
    <3> QED
      BY <3>1, <3>2, <3>3, <3>4, <3>5
  <2>4. Numbered'
    BY <1>1, <1>3 DEF Wire, Wired, Failed, EndOrNext
  <2>5. Destroyed'
    <3>1. /\ pc = "wire" /\ UNCHANGED <<class, bogus, freedOpen>>
          /\ pc' \in {"file", "loaded", "failed", "undo"}
          /\ pc' = "undo" => error'
      BY <1>3 DEF Wire, Failed, EndOrNext
    <3> QED
      BY <3>1
  <2>6. Bound'
    <3>1. /\ pc = "wire" /\ pc' \in {"file", "loaded", "failed", "undo"} /\ IsMft' = IsMft
          /\ pc' = "failed" => IsMft
          /\ UNCHANGED <<list, cdevs, opened>>
      BY <1>3 DEF Wire, Failed, EndOrNext
    <3> QED
      BY <3>1
  <2> QED
    BY <2>1, <2>2, <2>3, <2>4, <2>5, <2>6 DEF IInv
<1> QED
  BY <1>2, <1>3

\* Before destroy_nnt_devices, the devices without a cdev are those that the
\* walk had not finished.
LEMMA Unmade ==
  ASSUME IInv, ~IsMft, pc \in {"undo", "loaded"}
  PROVE  /\ \A d \in Devices \ cdevs : d \in Nat /\ d > minor /\ error
         /\ pc = "loaded" => Devices = cdevs
<1>1. list \in Seq(Functions) /\ Devices = 1..Len(list) /\ Len(list) \in Nat /\ minor \in Nat
  BY DEF IInv, Types, Devices
<1>2. CASE pc = "loaded"
  BY <1>1, <1>2 DEF IInv, InOrder, Made
<1>3. CASE pc = "undo"
  BY <1>1, <1>3 DEF IInv, InOrder, Destroyed
<1> QED
  BY <1>2, <1>3

LEMMA EndInv ==
  ASSUME IInv, Undo \/ Unload
  PROVE  IInv'
<1> USE DEF Steps, Loading, Gone, Stopped, deviceVars, kernelVars, history, IsMft, Held
<1>1. /\ UNCHANGED <<kind, bus, counted, scanned, minor, error, opened>>
      /\ \/ pc = "undo" /\ (DestroyAll("failed") \/ DestroyOops)
         \/ pc = "loaded" /\ opened = {} /\ (DestroyAll("unloaded") \/ DestroyOops)
  BY DEF Undo, Unload
<1>2. Types /\ Nothing /\ InOrder /\ Numbered /\ Destroyed /\ Bound
  BY DEF IInv
<1>3. pc = "undo" => ~IsMft /\ error
  BY <1>2 DEF InOrder, Destroyed
<1>4. CASE DestroyOops
  <2>1. /\ pc' = "stuck" /\ ~IsMft /\ class = "bad" /\ list # <<>> /\ cdevs' = cdevs \ {1}
        /\ bogus' = bogus \cup ({1} \ cdevs)
        /\ UNCHANGED <<kernelVars, list, locks, nodes, ready, plugged, freedOpen>>
    BY <1>4 DEF DestroyOops, BadPointer
  <2>2. bogus = {} /\ ~freedOpen
    BY <1>1, <1>2 DEF Destroyed
  <2>3. 1 \in Devices
    BY <1>2, <2>1 DEF Types, Devices
  <2>4. \A d \in bogus' : d \in Nat /\ d > minor /\ error
    BY <1>1, <2>1, <2>2, <2>3, Unmade
  <2>5. Types' /\ Nothing' /\ InOrder' /\ Bound'
    BY <1>1, <1>2, <2>1 DEF Types, Nothing, Empty, InOrder, Made, Bound
  <2>6. Numbered'
    BY <1>1, <1>2, <2>1 DEF Numbered
  <2>7. Destroyed'
    BY <1>1, <2>1, <2>2, <2>4 DEF Destroyed
  <2> QED
    BY <2>5, <2>6, <2>7 DEF IInv
<1>5. CASE ~DestroyOops
  <2>1. /\ list' = <<>> /\ locks' = {} /\ nodes' = {} /\ cdevs' = {} /\ ready' = {}
        /\ class' = "none" /\ ~region' /\ ~chrdev' /\ plugged' = plugged
        /\ freedOpen' = (freedOpen \/ opened # {})
        /\ bogus' = IF IsMft THEN bogus ELSE bogus \cup (Devices \ cdevs)
        /\ \/ pc = "undo" /\ pc' = "failed"
           \/ pc = "loaded" /\ pc' = "unloaded" /\ opened = {}
    BY <1>1, <1>5 DEF DestroyAll, Destroy, ReleaseNumbers
  <2>2. bogus = {} /\ ~freedOpen
    BY <1>1, <1>2 DEF Destroyed
  <2>3. \A d \in bogus' : d \in Nat /\ d > minor /\ error
    BY <1>1, <2>1, <2>2, Unmade
  <2>4. bogus' # {} \/ freedOpen' => error
    BY <1>3, <2>1, <2>2, <2>3
  <2>5. Types' /\ Nothing' /\ InOrder'
    BY <1>1, <1>2, <2>1 DEF Types, Nothing, Empty, InOrder, Made
  <2>6. Numbered' /\ Bound'
    BY <1>1, <1>2, <2>1 DEF Numbered, Bound
  <2>7. Destroyed'
    BY <1>1, <2>1, <2>3, <2>4 DEF Destroyed
  <2> QED
    BY <2>5, <2>6, <2>7 DEF IInv
<1> QED
  BY <1>4, <1>5

LEMMA UserInv ==
  ASSUME IInv, NEW d, Open(d) \/ Access(d) \/ Close(d)
  PROVE  IInv'
<1> USE DEF Loading, Gone, Stopped, deviceVars, kernelVars, history, IsMft
<1>1. /\ UNCHANGED <<kind, bus, counted, kernelVars, scanned, list, minor, error, deviceVars, history>>
      /\ pc \notin Stopped /\ (pc' = pc \/ pc' = "oops")
  BY DEF Open, Access, Close
<1>2. \/ opened' \subseteq opened
      \/ d \in Reachable /\ opened' = opened \cup {d}
  BY DEF Open, Access, Close
<1>3. Types /\ Nothing /\ InOrder /\ Numbered /\ Destroyed /\ Bound
  BY DEF IInv
<1>4. Types' /\ Nothing' /\ InOrder'
  BY <1>1, <1>3 DEF Types, Steps, Nothing, Empty, InOrder, Made
<1>5. pc = "count" => opened = {} /\ Reachable = {}
  BY <1>3 DEF Nothing, Empty, Bound, Reachable, Devices
<1>6. pc' = "oops" => pc # "count"
  <2>1. Open(d) => d \in Reachable
    BY DEF Open
  <2>2. Access(d) \/ Close(d) => d \in opened
    BY DEF Access, Close
  <2> QED
    BY <1>5, <2>1, <2>2
<1>7. Numbered'
  BY <1>1, <1>3, <1>6 DEF Numbered
<1>8. Destroyed'
  BY <1>1, <1>3 DEF Destroyed, Steps
<1>9. Bound'
  <2>1. pc \in {"failed", "unloaded"} /\ ~(IsMft /\ pc = "failed") => Reachable = {}
    BY <1>3 DEF Nothing, Empty, Reachable, Devices
  <2>2. Reachable \subseteq (IF IsMft THEN Devices ELSE cdevs)
    BY DEF Reachable
  <2> QED
    BY <1>1, <1>2, <1>3, <2>1, <2>2 DEF Bound, Devices
<1> QED
  BY <1>4, <1>7, <1>8, <1>9 DEF IInv

LEMMA NextInv == IInv /\ [Next]_vars => IInv'
<1> SUFFICES ASSUME IInv, [Next]_vars PROVE IInv'
  OBVIOUS
<1>1. CASE UNCHANGED vars
  BY <1>1 DEF vars, IInv, Types, Nothing, Empty, InOrder, Made, Numbered, Destroyed, Bound, Devices,
     deviceVars, kernelVars, history, IsMft
<1> QED
  BY <1>1, NumbersInv, PlugInv, ScanInv, MakeInv, EndInv, UserInv DEF Next, Load

\* The inductive invariant of loading and unloading.
THEOREM Invariance == Spec => []IInv
  BY InitInv, NextInv, PTL DEF Spec

\* Load and unload leave nothing behind, in whatever step a load fails.
THEOREM NothingLeft == Spec => []NothingLeftBehind
<1>1. IInv => NothingLeftBehind
  BY DEF IInv, Nothing, Empty, NothingLeftBehind
<1> QED
  BY <1>1, Invariance, PTL

\* A cdev has a reserved minor number, unless functions were plugged in.
THEOREM MinorsReserved == Spec => []MinorsAreReserved
<1>1. IInv => MinorsAreReserved
  <2> SUFFICES ASSUME IInv, NEW e \in cdevs, ~plugged
               PROVE  region /\ e <= counted
    BY DEF IInv, Numbered, MinorsAreReserved
  <2>1. region /\ ~IsMft /\ e \in 1..Len(list)
    BY DEF IInv, Numbered, InOrder
  <2>2. counted = Len(bus)
    BY <2>1 DEF IInv, Numbered, InOrder, Nothing, Empty
  <2>3. Len(list) \in Nat /\ scanned \in Nat /\ Len(bus) \in Nat
    BY DEF IInv, Types
  <2> QED
    BY <2>1, <2>2, <2>3 DEF IInv, Types
<1> QED
  BY <1>1, Invariance, PTL

\* What is deleted and was never added belongs to a device that a failing
\* load had not finished; what is freed under an open file, to a failing load;
\* and a destruction that does not end had no class.
THEOREM CleanDestruction == Spec => []DestroyIsClean
<1>1. IInv => DestroyIsClean
  BY DEF IInv, Destroyed, DestroyIsClean
<1> QED
  BY <1>1, Invariance, PTL

\* Before destruction every device with a cdev and no callbacks is the one
\* that is being made.
LEMMA Unready ==
  ASSUME IInv, pc \notin Stopped, pc # "failed", NEW d \in opened, d \notin ready
  PROVE  \/ IsMft /\ pc \in Loading
         \/ pc = "wire" /\ d = Current
<1> USE DEF Loading, Gone, Stopped
<1>1. Types /\ Nothing /\ InOrder /\ Bound
  BY DEF IInv
<1>2. pc \in Loading \cup {"loaded"} /\ d \in (IF IsMft THEN Devices ELSE cdevs)
  BY <1>1 DEF Types, Steps, Bound
<1>3. minor \in Nat /\ Len(list) \in Nat /\ Devices = 1..Len(list)
  BY <1>1 DEF Types, Devices
<1>4. CASE pc = "loaded"
  <2>1. minor = Len(list) /\ ready = 1..minor /\ cdevs \subseteq 1..Len(list)
    BY <1>1, <1>4 DEF InOrder
  <2> QED
    BY <1>2, <1>3, <2>1
<1>5. CASE pc \in Loading /\ ~IsMft
  <2>1. pc # "undo"
    BY <1>1, <1>2, <1>5 DEF InOrder
  <2>2. cdevs = 1..Made /\ ready = 1..minor
    BY <1>1, <1>5, <2>1 DEF InOrder
  <2> QED
    BY <1>2, <1>3, <1>5, <2>2 DEF Made, Current
<1> QED
  BY <1>2, <1>4, <1>5

\* A call that finds no callbacks or no code is made on the device that is
\* being made, or after a load that failed with the file open; with an MFT
\* module, until the load has ended and after it has failed.
THEOREM CallbacksFound == Spec => CallsFindCallbacks
<1>1. ASSUME IInv, [Next]_vars
      PROVE  [pc' = "oops" => \/ IsMft /\ pc \in Loading \cup {"failed"}
                              \/ pc = "wire" /\ Current \in opened
                              \/ pc = "failed" /\ freedOpen]_vars
  <2> SUFFICES ASSUME ~UNCHANGED vars, pc' = "oops", ~(IsMft /\ pc \in Loading \cup {"failed"})
               PROVE  \/ pc = "wire" /\ Current \in opened
                      \/ pc = "failed" /\ freedOpen
    OBVIOUS
  <2> USE <1>1
  <2>1. pc \notin Stopped
    BY DEF Next, Load, Count, Region, Class, Register, Scan, Scanned, DeviceFile, Wire, Undo,
       Unload, Plug, Open, Access, Close, Loading, Stopped
  <2>2. PICK d : Open(d) \/ Access(d) \/ Close(d)
    BY DEF Next, Load, Count, Region, Class, Register, Scan, Scanned, DeviceFile, Wire, Undo,
       Unload, DestroyAll, DestroyOops, Plug, Loading, Failed, EndOrNext
  <2>3. CASE pc = "failed"
    <3>1. ~IsMft
      BY <2>3
    <3>2. Reachable = {}
      BY <2>3, <3>1 DEF IInv, Nothing, Empty, Gone, Reachable
    <3>3. d \in opened
      BY <2>2, <3>2 DEF Open, Access, Close
    <3> QED
      BY <2>3, <3>1, <3>3 DEF IInv, Bound
  <2>4. CASE pc # "failed" /\ Access(d)
    <3>1. d \in opened /\ d \notin ready
      BY <2>4 DEF Access
    <3> QED
      BY <2>1, <2>4, <3>1, Unready
  <2>5. CASE pc # "failed" /\ Close(d)
    BY <2>1, <2>5 DEF Close, Stopped
  <2>6. CASE pc # "failed" /\ Open(d)
    <3>1. IsMft /\ d \notin locks \cap ready /\ d \in Devices
      BY <2>1, <2>6 DEF Open, Stopped, Reachable
    <3>2. pc \in {"loaded", "unloaded"}
      BY <2>1, <2>6, <3>1 DEF IInv, Types, Steps, Gone
    <3>3. pc = "loaded"
      BY <3>1, <3>2 DEF IInv, Nothing, Empty, Gone, Devices
    <3>4. Len(list) \in Nat /\ Devices = 1..Len(list)
      BY DEF IInv, Types, Devices
    <3> QED
      BY <3>1, <3>3, <3>4 DEF IInv, InOrder, Made
  <2> QED
    BY <2>2, <2>3, <2>4, <2>5, <2>6
<1> QED
  BY <1>1, Invariance, PTL DEF Spec, CallsFindCallbacks

----------------------------------------------------------------------------
(* Types *)

\* The walks stay on the bus, which has each function once, and what is made
\* belongs to an entry of the list.
Limits ==
  /\ \A i, j \in DOMAIN bus : i # j => bus[i] # bus[j]
  /\ counted <= Len(bus) /\ minor <= Len(bus)
  /\ region \in BOOLEAN /\ class \in {"none", "made", "bad"} /\ chrdev \in BOOLEAN
  /\ error \in BOOLEAN
  /\ opened \cup bogus \subseteq 1..Len(bus)
  /\ plugged \in BOOLEAN /\ freedOpen \in BOOLEAN
  /\ locks \cup nodes \cup cdevs \cup ready \subseteq Devices

LEMMA LimitsInit == Init => Limits
<1> SUFFICES ASSUME Init PROVE Limits
  OBVIOUS
<1>1. PICK n \in 0..Cardinality(Functions) :
        bus \in {s \in [1..n -> Functions] : \A i, j \in 1..n : i # j => s[i] # s[j]}
  BY DEF Init
<1>2. n \in Nat
  BY FS_CardinalityType, LoadAssumption
<1>3. bus \in [1..n -> Functions] /\ \A i, j \in 1..n : i # j => bus[i] # bus[j]
  BY <1>1
<1>4. Len(bus) = n /\ DOMAIN bus = 1..n
  BY <1>2, <1>3
<1>5. counted <= Len(bus) /\ minor <= Len(bus)
  BY <1>2, <1>4 DEF Init
<1> QED
  BY <1>3, <1>4, <1>5 DEF Init, Limits, Devices

LEMMA PlugLimits ==
  ASSUME IInv, Limits, NEW f \in Functions, Plug(f)
  PROVE  Limits'
<1> USE DEF Plug, deviceVars, kernelVars
<1>1. bus \in Seq(Functions) /\ counted \in Nat /\ minor \in Nat
  BY DEF IInv, Types
<1>2. /\ Len(bus') = Len(bus) + 1 /\ DOMAIN bus = 1..Len(bus) /\ DOMAIN bus' = 1..(Len(bus) + 1)
      /\ \A i \in 1..Len(bus) : bus'[i] = bus[i]
      /\ bus'[Len(bus) + 1] = f /\ Len(bus) \in Nat
  BY <1>1
<1>3. \A i, j \in DOMAIN bus' : i # j => bus'[i] # bus'[j]
  BY <1>2 DEF Limits
<1>4. counted' <= Len(bus') /\ minor' <= Len(bus')
  BY <1>1, <1>2 DEF Limits
<1> QED
  BY <1>3, <1>4 DEF Limits, Devices

LEMMA DevicesOnBus ==
  ASSUME IInv
  PROVE  Devices \subseteq 1..Len(bus)
<1>1. Devices = 1..Len(list) /\ Len(list) \in Nat /\ Len(bus) \in Nat /\ Len(list) <= Len(bus)
  BY DEF IInv, Types, Devices
<1> QED
  BY <1>1

LEMMA DestroyLimits ==
  ASSUME IInv, Limits, Undo \/ Unload
  PROVE  Limits'
<1> USE DEF kernelVars
<1>1. /\ UNCHANGED <<bus, counted, minor, error, opened>>
      /\ DestroyAll("failed") \/ DestroyAll("unloaded") \/ DestroyOops
  BY DEF Undo, Unload
<1>2. /\ freedOpen' \in BOOLEAN /\ plugged' = plugged /\ region' \in BOOLEAN /\ chrdev' \in BOOLEAN
      /\ class' \in {"none", "made", "bad"}
  BY <1>1 DEF DestroyAll, Destroy, DestroyOops, ReleaseNumbers, Limits
<1>3. locks' \cup nodes' \cup cdevs' \cup ready' \subseteq Devices'
  BY <1>1 DEF DestroyAll, Destroy, DestroyOops, Limits, Devices
<1>4. bogus' \subseteq bogus \cup Devices
  <2>1. list # <<>> => 1 \in Devices
    BY DEF IInv, Types, Devices
  <2> QED
    BY <1>1, <2>1 DEF DestroyAll, Destroy, DestroyOops, BadPointer
<1> QED
  BY <1>1, <1>2, <1>3, <1>4, DevicesOnBus DEF Limits

LEMMA LoadLimits ==
  ASSUME IInv, Limits, Load
  PROVE  Limits'
<1> USE DEF Limits, Devices, deviceVars, kernelVars, history
<1>1. bus \in Seq(Functions) /\ list \in Seq(Functions) /\ Len(bus) \in Nat /\ Len(list) \in Nat
      /\ counted \in Nat /\ minor \in Nat /\ scanned \in Nat
      /\ Len(list) <= scanned /\ scanned <= Len(bus) /\ DOMAIN list = 1..Len(list)
  BY DEF IInv, Types
<1>2. CASE Count
  BY <1>1, <1>2 DEF Count, Amount
<1>3. CASE Region \/ Class \/ Register \/ Scanned
  BY <1>3 DEF Region, Class, Register, Scanned
<1>4. CASE Scan
  <2>1. UNCHANGED <<bus, counted, region, class, chrdev, minor, locks, nodes, cdevs, ready, plugged,
                    bogus, freedOpen, opened>> /\ error' \in BOOLEAN
    BY <1>4 DEF Scan
  <2>2. Devices \subseteq Devices'
    <3>1. bus[scanned + 1] \in Functions
      BY <1>1, <1>4 DEF Scan
    <3>2. list' = list \/ list' = Append(list, bus[scanned + 1])
      BY <1>4 DEF Scan
    <3>3. DOMAIN Append(list, bus[scanned + 1]) = 1..(Len(list) + 1)
      BY <1>1, <3>1
    <3> QED
      BY <1>1, <3>2, <3>3
  <2> QED
    BY <2>1, <2>2
<1>5. CASE DeviceFile \/ Wire
  <2>1. pc \in {"file", "wire"} => minor < Len(list)
    BY DEF IInv, InOrder
  <2>2. pc \in {"file", "wire"}
    BY <1>5 DEF DeviceFile, Wire
  <2>3. Current \in Devices
    BY <1>1, <2>1, <2>2 DEF Current
  <2>4. CASE DeviceFile
    BY <2>3, <2>4 DEF DeviceFile
  <2>5. CASE Wire
    <3>1. minor' <= Len(bus)
      <4>1. minor' = minor \/ minor' = minor + 1
        BY <2>5 DEF Wire
      <4> QED
        BY <1>1, <2>1, <2>2, <4>1
    <3>2. error' \in BOOLEAN
      BY <2>5 DEF Wire
    <3> QED
      BY <2>3, <2>5, <3>1, <3>2 DEF Wire, Wired
  <2> QED
    BY <1>5, <2>4, <2>5
<1>6. CASE Undo
  BY <1>6, DestroyLimits
<1> QED
  BY <1>2, <1>3, <1>4, <1>5, <1>6 DEF Load

LEMMA LimitsStep == IInv /\ Limits /\ [Next]_vars => Limits'
<1> SUFFICES ASSUME IInv, Limits, [Next]_vars PROVE Limits'
  OBVIOUS
<1>1. CASE UNCHANGED vars
  BY <1>1 DEF vars, Limits, Devices, deviceVars, kernelVars, history
<1>2. CASE Unload
  BY <1>2, DestroyLimits
<1>3. ASSUME NEW d, Open(d) \/ Access(d) \/ Close(d) PROVE Limits'
  <2>1. Devices \subseteq 1..Len(bus) /\ cdevs \subseteq Devices
    BY DevicesOnBus DEF Limits
  <2> QED
    BY <1>3, <2>1 DEF Open, Access, Close, Reachable, Limits, Devices, deviceVars, kernelVars, history
<1> QED
  BY <1>1, <1>2, <1>3, PlugLimits, LoadLimits DEF Next

\* Type correctness of loading and unloading: no number is handed out, and no
\* device made, beyond the functions there are, however late they are plugged
\* in.
THEOREM LoadTypes == Spec => []LoadTypeOK
<1>1. IInv /\ Limits => LoadTypeOK
  <2> SUFFICES ASSUME IInv, Limits PROVE LoadTypeOK
    OBVIOUS
  <2>1. bus \in Seq(Functions) /\ Len(bus) \in Nat /\ DOMAIN bus = 1..Len(bus)
        /\ counted \in Nat /\ scanned \in Nat /\ minor \in Nat
    BY DEF IInv, Types
  <2>2. Cardinality(1..Len(bus)) = Len(bus) /\ IsFiniteSet(1..Len(bus))
    BY <2>1, FS_Interval
  <2>3. bus \in Injection(1..Len(bus), Functions)
    BY <2>1 DEF Limits, Injection, IsInjective
  <2>4. Len(bus) <= Cardinality(Functions)
    BY <2>2, <2>3, FS_Injection, LoadAssumption
  <2>5. Cardinality(Functions) \in Nat
    BY FS_CardinalityType, LoadAssumption
  <2>6. /\ counted \in 0..Cardinality(Functions)
        /\ scanned \in 0..Len(bus) /\ minor \in 0..Len(bus)
    BY <2>1, <2>4, <2>5 DEF Limits, IInv, Types
  <2>7. 1..Len(bus) \subseteq 1..Cardinality(Functions)
    BY <2>1, <2>4, <2>5
  <2> QED
    BY <2>1, <2>6, <2>7 DEF LoadTypeOK, Limits, IInv, Types, Steps
<1> QED
  BY <1>1, LimitsInit, LimitsStep, Invariance, PTL DEF Spec

----------------------------------------------------------------------------
(* Device ids *)

\* Every function that mst_pci serves is served by mst_pciconf as well, so a
\* device of the one always has the other's beside it.
THEOREM PcicrIsPciconf == \A id \in Ids : IsPcicr(id) => IsPciconf(id)
<1> SUFFICES ASSUME NEW id \in Ids, IsPcicr(id) PROVE IsPciconf(id)
  OBVIOUS
<1>1. IsConnectx3(id) => IsNic(id)
  BY DEF IsConnectx3, IsNic, IsConnectx, InRange
<1> QED
  BY <1>1 DEF IsPcicr, IsPciconf

\* A device in recovery never has its memory served: is_livefish_device
\* leaves out of is_pcicr_device only ids that nothing else in it takes.
THEOREM LivefishHasNoMemory ==
  \A id \in Ids : IsLivefish(id) => ~(IsSwitch(id) \/ IsToolspf(id) \/ IsConnectx3(id))
<1> SUFFICES ASSUME NEW id \in Ids, IsLivefish(id)
             PROVE  ~IsSwitch(id) /\ ~IsToolspf(id) /\ ~IsConnectx3(id)
  OBVIOUS
<1>1. id \in Int /\ 502 <= id /\ id < 4099
  BY DEF Ids, IsLivefish
<1>2. ~IsSwitch(id) /\ ~IsConnectx3(id)
  BY <1>1 DEF IsSwitch, IsPcieSwitch, IsQuantum, IsSpectrum, IsSwitchIb, IsGb100, IsConnectx3,
     InRange
<1> DEFINE n == Shifted(id)
<1>3. n \in Int /\ (n <= 98 \/ 62038 <= n)
  BY <1>1 DEF Shifted
<1> HIDE DEF n
<1>4. ~IsNic(n) /\ ~IsSwitch(n)
  BY <1>3 DEF IsNic, IsConnectx, IsBluefield, IsSwitch, IsPcieSwitch, IsQuantum, IsSpectrum,
     IsSwitchIb, IsGb100, InRange
<1>5. ~IsToolspf(id)
  BY <1>4 DEF IsToolspf, n
<1> QED
  BY <1>2, <1>5
============================================================================
