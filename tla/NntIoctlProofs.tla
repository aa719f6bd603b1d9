--------------------------- MODULE NntIoctlProofs ---------------------------
(***************************************************************************)
(* Proofs about the services of nnt_driver/nnt_ioctl.c.                    *)
(*                                                                         *)
(* Vital Product Data, for any clients, addresses and values.  A call that *)
(* has had the registers to itself is the only one with a request pending, *)
(* so the flag it waits for answers it and nobody else.                    *)
(*                                                                         *)
(* DMA pages, for any users, buffers of any size and any number of GETs.   *)
(* The pins and mappings of the kernel are accounted for place by place of *)
(* the buffer in hand and, once its user has gone, in leaked.              *)
(***************************************************************************)
EXTENDS Vpd, DmaPages, FiniteSetTheorems, TLAPS

----------------------------------------------------------------------------
(* Vital Product Data *)

\* What a call that is clean knows of the registers at each of its steps.
Undisturbed(c) ==
  /\ pc[c] \in {"data", "address", "fetch", "done"} => pending = {}
  /\ pc[c] = "data" => op[c] = "write"
  /\ pc[c] = "address" /\ op[c] = "write" => data = value[c]
  /\ pc[c] = "poll" =>
       /\ pending \subseteq {<<op[c], address[c]>>}
       /\ op[c] = "write" => data = value[c]
       /\ Answered(c) => pending = {} /\ store[address[c]] = data
  /\ pc[c] = "fetch" => op[c] = "read" /\ store[address[c]] = data
  /\ pc[c] = "done" => store[address[c]] = value[c]

VpdInv == VpdTypeOK /\ \A c \in Clients : clean[c] => Undisturbed(c)

LEMMA VpdTypeInit == Init => VpdTypeOK
  BY DEF Init, VpdTypeOK, Ops

\* Type correctness is inductive by itself.
LEMMA VpdTypeNext == VpdTypeOK /\ [Next]_vars => VpdTypeOK'
<1> SUFFICES ASSUME VpdTypeOK, [Next]_vars PROVE VpdTypeOK'
  OBVIOUS
<1> USE DEF VpdTypeOK, Ops, Goto, Touch, deviceVars, callVars
<1>1. ASSUME NEW c \in Clients, Call(c) PROVE VpdTypeOK'
  BY <1>1 DEF Call
<1>2. ASSUME NEW c \in Clients, WriteData(c) PROVE VpdTypeOK'
  BY <1>2 DEF WriteData
<1>3. ASSUME NEW c \in Clients, WriteAddress(c) PROVE VpdTypeOK'
  BY <1>3 DEF WriteAddress, FlagAsked
<1>4. ASSUME NEW c \in Clients, Poll(c) PROVE VpdTypeOK'
  BY <1>4 DEF Poll
<1>5. ASSUME NEW c \in Clients, Fetch(c) PROVE VpdTypeOK'
  BY <1>5 DEF Fetch
<1>6. ASSUME NEW c \in Clients, Return(c) \/ Expire(c) \/ AccessFails(c) PROVE VpdTypeOK'
  BY <1>6 DEF Return, Expire, AccessFails
<1>7. CASE Answer
  <2>1. PICK r \in pending : Answer!(r)
    BY <1>7 DEF Answer
  <2>2. r[1] \in Ops /\ r[2] \in Addresses
    BY <2>1
  <2>3. CASE r[1] = "read"
    BY <2>1, <2>2, <2>3
  <2>4. CASE r[1] = "write"
    BY <2>1, <2>2, <2>4
  <2> QED
    BY <2>2, <2>3, <2>4
<1>8. CASE UNCHANGED vars
  BY <1>8 DEF vars
<1> QED
  BY <1>1, <1>2, <1>3, <1>4, <1>5, <1>6, <1>7, <1>8 DEF Next, Step

\* Only its own steps change what a client asks for.
LEMMA OwnCall ==
  ASSUME NEW c \in Clients, NEW d \in Clients, VpdTypeOK, c # d,
         Call(d) \/ Step(d) \/ Expire(d) \/ AccessFails(d)
  PROVE  pc'[c] = pc[c] /\ op'[c] = op[c] /\ address'[c] = address[c] /\ value'[c] = value[c]
  BY DEF VpdTypeOK, Call, Step, WriteData, WriteAddress, Poll, Fetch, Return, Expire, AccessFails,
         Goto, callVars

\* A step of another client changes the registers only by a touch, after
\* which c is not clean.
LEMMA OthersTouch ==
  ASSUME NEW c \in Clients, NEW d \in Clients, VpdTypeOK, c # d, clean'[c],
         Call(d) \/ Step(d) \/ Expire(d) \/ AccessFails(d)
  PROVE  clean[c] /\ UNCHANGED deviceVars
<1>1. CASE Call(d)
  BY <1>1 DEF VpdTypeOK, Call
<1>2. CASE WriteData(d) \/ WriteAddress(d)
  BY <1>2 DEF WriteData, WriteAddress, Touch
<1>3. CASE Poll(d) \/ Fetch(d) \/ Return(d) \/ Expire(d) \/ AccessFails(d)
  BY <1>3 DEF Poll, Fetch, Return, Expire, AccessFails, deviceVars
<1> QED
  BY <1>1, <1>2, <1>3 DEF Step

LEMMA UndisturbedNext ==
  ASSUME VpdInv, [Next]_vars, NEW c \in Clients, clean'[c]
  PROVE  Undisturbed(c)'
<1> USE DEF VpdInv
<1>1. CASE Call(c)
  BY <1>1 DEF VpdTypeOK, Call, Goto, Undisturbed, deviceVars, Ops
<1>2. CASE WriteData(c)
  BY <1>2 DEF VpdTypeOK, WriteData, Goto, Touch, Undisturbed, callVars
<1>3. CASE WriteAddress(c)
  BY <1>3 DEF VpdTypeOK, WriteAddress, FlagAsked, Answered, Goto, Touch, Undisturbed, callVars, Ops
<1>4. CASE Poll(c)
  BY <1>4 DEF VpdTypeOK, Poll, Answered, Goto, Undisturbed, callVars, deviceVars, Ops
<1>5. CASE Fetch(c)
  BY <1>5 DEF VpdTypeOK, Fetch, Goto, Undisturbed, deviceVars
<1>6. CASE Return(c) \/ Expire(c) \/ AccessFails(c)
  BY <1>6 DEF VpdTypeOK, Return, Expire, AccessFails, Goto, Undisturbed
<1>7. ASSUME NEW d \in Clients, d # c, Call(d) \/ Step(d) \/ Expire(d) \/ AccessFails(d)
      PROVE  Undisturbed(c)'
  BY <1>7, OwnCall, OthersTouch DEF Undisturbed, Answered, deviceVars
<1>8. CASE Answer
  <2>1. PICK r \in pending : Answer!(r)
    BY <1>8 DEF Answer
  <2>2. clean[c] /\ Undisturbed(c)
    BY <2>1
  <2>3. CASE pc[c] # "poll"
    BY <2>1, <2>2, <2>3 DEF VpdTypeOK, Undisturbed, callVars
  <2>4. CASE pc[c] = "poll"
    <3>1. r = <<op[c], address[c]>> /\ pending' = {}
      BY <2>1, <2>2, <2>4 DEF Undisturbed
    <3>2. r[1] = op[c] /\ r[2] = address[c]
      BY <3>1
    <3>3. UNCHANGED <<pc, op, address, value>>
      BY <2>1 DEF callVars
    <3>4. CASE op[c] = "read"
      BY <2>1, <2>2, <2>4, <3>1, <3>2, <3>3, <3>4 DEF Undisturbed, Answered
    <3>5. CASE op[c] = "write"
      BY <2>1, <2>2, <2>4, <3>1, <3>2, <3>3, <3>5 DEF VpdTypeOK, Undisturbed, Answered
    <3> QED
      BY <3>4, <3>5 DEF VpdTypeOK, Ops
  <2> QED
    BY <2>3, <2>4
<1>9. CASE UNCHANGED vars
  BY <1>9 DEF vars, deviceVars, callVars, Undisturbed, Answered
<1> QED
  BY <1>1, <1>2, <1>3, <1>4, <1>5, <1>6, <1>7, <1>8, <1>9 DEF Next, Step

\* The inductive invariant holds in every reachable state of vpd_read and
\* vpd_write.
THEOREM VpdInvariance == Spec => []VpdInv
<1>1. Init => VpdInv
  BY VpdTypeInit DEF Init, VpdInv
<1>2. VpdInv /\ [Next]_vars => VpdInv'
  BY VpdTypeNext, UndisturbedNext DEF VpdInv
<1> QED
  BY <1>1, <1>2, PTL DEF Spec

\* VPD_READ4 and VPD_WRITE4 that return 0 have transferred the data of their
\* own address, unless another module or a late answer came between.
THEOREM Transferred == Spec => []VpdIsTransferred
<1>1. VpdInv => VpdIsTransferred
  BY DEF VpdInv, Undisturbed, VpdIsTransferred
<1> QED
  BY <1>1, VpdInvariance, PTL

\* Type correctness of the VPD calls.
THEOREM VpdTypeCorrect == Spec => []VpdTypeOK
<1>1. VpdInv => VpdTypeOK
  BY DEF VpdInv
<1> QED
  BY <1>1, VpdInvariance, PTL

----------------------------------------------------------------------------
(* DMA pages: the invariant *)

\* No GET has failed, none has replaced the lists of another, and no RELEASE
\* was without a GET or for more pages than its own.
Clean == failures = 0 /\ ~overlapped /\ ~misused

\* A GET is under way, with the lists its own.
Busy == phase \in {"pin", "map", "reply"}

\* The places of the user's buffer whose page is pinned for it, ...
PinnedPlaces ==
  CASE phase \in {"pin", "map"} -> 0..(first + round - 1)
    [] phase = "reply" -> Index
    [] OTHER -> IF owes = {} THEN {} ELSE Index

\* ... and, in a GET of one round, those whose page is mapped.
MappedPlaces ==
  CASE phase = "pin" -> {}
    [] phase = "map" -> 0..(counter - 1)
    [] phase = "reply" -> Index
    [] OTHER -> IF owes = {} THEN {} ELSE Index

\* A GET pins and maps no page more than Total times.
Bounded ==
  /\ phase = "pin" => round = 0
  /\ \A p \in Pages : pinned[p] <= gets * Total /\ mapped[p] <= gets * Total
  /\ phase \in {"pin", "map"} =>
       /\ gets > 0
       /\ \A p \in Pages : /\ pinned[p] <= (gets - 1) * Total + (first + round)
                           /\ mapped[p] <= (gets - 1) * Total + counter

\* What a list holds the kernel has pinned, and mapped: a release takes
\* neither below zero.
Backed ==
  \A p \in Pages :
    /\ pageList # NoList => Count(pageList, Index, p) <= pinned[p]
    /\ addrList # NoList => Count(addrList, Index, p) <= mapped[p]

\* In a GET of one round the loop of pins is over when that of mappings begins.
AtOnce ==
  ~short =>
    /\ phase = "pin" => first = 0 /\ counter = 0
    /\ phase = "map" => first = 0 /\ round = Total
    /\ Busy => \A k \in MappedPlaces : answer[k] = Buffer[user][k]

\* The lists hold the pages of the user whose GET they are from.
Listed ==
  Busy \/ Clean =>
    /\ Busy \/ owes # {} => pageList # NoList
    /\ phase \in {"map", "reply"} \/ (~Busy /\ owes # {}) => addrList # NoList
    /\ \A k \in PinnedPlaces : pageList[k] = Buffer[user][k]
    /\ ~short => \A k \in MappedPlaces : addrList[k] = Buffer[user][k]

\* Each pin and mapping is for a place of that buffer or for a user that has
\* gone.
Accounted ==
  Clean =>
    /\ phase # "oops"
    /\ owes \subseteq {user} /\ (Busy => owes = {})
    /\ \A p \in Pages :
         /\ pinned[p] = leaked[p] + Count(Buffer[user], PinnedPlaces, p)
         /\ ~short => mapped[p] = leaked[p] + Count(Buffer[user], MappedPlaces, p)

\* The inductive invariant.
DmaInv == DmaTypeOK /\ Bounded /\ Backed /\ AtOnce /\ Listed /\ Accounted

USE DmaAssumption

----------------------------------------------------------------------------
(* Counting places *)

\* The places of a list are finitely many.
LEMMA Places ==
  ASSUME NEW S \in SUBSET Index
  PROVE  IsFiniteSet(S) /\ Cardinality(S) \in Nat
<1>1. IsFiniteSet(Index)
  BY FS_Interval DEF Index
<1> QED
  BY <1>1, FS_Subset, FS_CardinalityType

LEMMA CountType ==
  ASSUME NEW f, NEW K \in SUBSET Index, NEW p
  PROVE  Count(f, K, p) \in Nat
<1>1. {k \in K : f[k] = p} \in SUBSET Index
  OBVIOUS
<1> QED
  BY <1>1, Places DEF Count

\* In no place there is none, and in the places of a page one at least.
LEMMA CountNone == ASSUME NEW f, NEW p PROVE Count(f, {}, p) = 0
<1>1. {k \in {} : f[k] = p} = {}
  OBVIOUS
<1> QED
  BY <1>1, FS_EmptySet DEF Count

LEMMA CountAbsent ==
  ASSUME NEW f, NEW K \in SUBSET Index, NEW p, \A k \in K : f[k] # p
  PROVE  Count(f, K, p) = 0
<1>1. {k \in K : f[k] = p} = {}
  OBVIOUS
<1> QED
  BY <1>1, FS_EmptySet DEF Count

LEMMA CountSome ==
  ASSUME NEW f, NEW K \in SUBSET Index, NEW k \in K
  PROVE  Count(f, K, f[k]) > 0
<1> DEFINE S == {j \in K : f[j] = f[k]}
<1>1. IsFiniteSet(S) /\ Cardinality(S) \in Nat
  <2>1. S \in SUBSET Index
    OBVIOUS
  <2> HIDE DEF S
  <2> QED
    BY <2>1, Places
<1>2. S # {}
  OBVIOUS
<1>3. Cardinality(S) # 0
  BY <1>1, <1>2, FS_EmptySet
<1> QED
  BY <1>1, <1>3 DEF Count

\* Lists that agree count the same.
LEMMA CountSame ==
  ASSUME NEW f, NEW g, NEW K, NEW p, \A k \in K : f[k] = g[k]
  PROVE  Count(f, K, p) = Count(g, K, p)
<1>1. {k \in K : f[k] = p} = {k \in K : g[k] = p}
  OBVIOUS
<1> QED
  BY <1>1 DEF Count

\* The counts of disjoint places add up.
LEMMA CountSplit ==
  ASSUME NEW f, NEW K \in SUBSET Index, NEW L \in SUBSET Index, K \cap L = {}, NEW p
  PROVE  Count(f, K \cup L, p) = Count(f, K, p) + Count(f, L, p)
<1> DEFINE S == {k \in K : f[k] = p}
           T == {k \in L : f[k] = p}
<1>1. IsFiniteSet(S) /\ IsFiniteSet(T) /\ Cardinality(S) \in Nat /\ Cardinality(T) \in Nat
  <2>1. S \in SUBSET Index /\ T \in SUBSET Index
    OBVIOUS
  <2> HIDE DEF S, T
  <2> QED
    BY <2>1, Places
<1>2. {k \in K \cup L : f[k] = p} = S \cup T /\ S \cap T = {}
  OBVIOUS
<1>3. Cardinality(S \cup T) = Cardinality(S) + Cardinality(T) - Cardinality(S \cap T)
  BY <1>1, FS_Union
<1>4. Cardinality(S \cap T) = 0
  BY <1>2, FS_EmptySet
<1> HIDE DEF S, T
<1>5. Cardinality(S \cup T) = Cardinality(S) + Cardinality(T)
  BY <1>1, <1>3, <1>4
<1> QED
  BY <1>2, <1>5 DEF Count, S, T

\* One place counts once, for its own page.
LEMMA CountOne ==
  ASSUME NEW f, NEW k \in Index, NEW p
  PROVE  Count(f, {k}, p) = IF f[k] = p THEN 1 ELSE 0
<1>1. IsFiniteSet({}) /\ Cardinality({}) = 0
  BY FS_EmptySet
<1>2. Cardinality({k}) = 1
  <2>1. {} \cup {k} = {k} /\ k \notin {}
    OBVIOUS
  <2>2. Cardinality({} \cup {k}) = Cardinality({}) + 1
    BY <1>1, <2>1, FS_AddElement
  <2> QED
    BY <1>1, <2>1, <2>2
<1>3. {j \in {k} : f[j] = p} = IF f[k] = p THEN {k} ELSE {}
  OBVIOUS
<1> QED
  BY <1>1, <1>2, <1>3 DEF Count

\* No page is in more places than there are.
LEMMA CountBound ==
  ASSUME NEW f, NEW a \in Nat, NEW n \in Nat, a + n <= Total, NEW p
  PROVE  Count(f, a..(a + n - 1), p) <= n
<1>1. IsFiniteSet(a..(a + n - 1)) /\ Cardinality(a..(a + n - 1)) = n
  BY FS_Interval
<1>2. {k \in a..(a + n - 1) : f[k] = p} \in SUBSET (a..(a + n - 1))
  OBVIOUS
<1> QED
  BY <1>1, <1>2, FS_Subset DEF Count

----------------------------------------------------------------------------
(* The steps *)

\* As many pages as gets GETs pin are within the bound.
LEMMA Products ==
  ASSUME NEW g \in Nat
  PROVE  /\ g * Total \in Nat
         /\ (g + 1) * Total = g * Total + Total
         /\ g > 0 => g * Total = (g - 1) * Total + Total /\ (g - 1) * Total \in Nat
<1>1. ASSUME NEW k \in Nat, NEW m \in Nat PROVE k * m \in Nat
  OBVIOUS
<1>2. ASSUME NEW k \in Int, NEW m \in Int PROVE (k + 1) * m = k * m + m
  OBVIOUS
<1>3. g * Total \in Nat /\ (g + 1) * Total = g * Total + Total
  BY <1>1, <1>2
<1>4. ASSUME g > 0 PROVE g * Total = (g - 1) * Total + Total /\ (g - 1) * Total \in Nat
  <2>1. g - 1 \in Nat /\ (g - 1) + 1 = g
    BY <1>4
  <2>2. ((g - 1) + 1) * Total = (g - 1) * Total + Total
    BY <1>2, <2>1
  <2> QED
    BY <1>1, <2>1, <2>2
<1> QED
  BY <1>3, <1>4

LEMMA WithinBound ==
  ASSUME NEW g \in 0..MaxGets, NEW f \in [Pages -> Nat], \A p \in Pages : f[p] <= g * Total
  PROVE  f \in [Pages -> 0..(MaxGets * Total)]
<1>1. ASSUME NEW a \in Nat, NEW b \in Nat, a <= b, NEW m \in Nat PROVE a * m <= b * m
  <2>1. (b - a) * m = b * m - a * m /\ a * m \in Int /\ b * m \in Int
    OBVIOUS
  <2>2. \A x, y \in Nat : x * y \in Nat
    OBVIOUS
  <2>3. b - a \in Nat
    BY <1>1
  <2>4. (b - a) * m \in Nat
    BY <1>1, <2>2, <2>3
  <2> QED
    BY <2>1, <2>4
<1>2. g * Total <= MaxGets * Total
  BY <1>1
<1>3. g * Total \in Nat /\ MaxGets * Total \in Nat
  BY Products
<1>4. \A p \in Pages : f[p] \in 0..(MaxGets * Total)
  BY <1>2, <1>3
<1> QED
  BY <1>4

\* What every step uses of the invariant.
LEMMA DmaFacts ==
  ASSUME DmaTypeOK
  PROVE  /\ first \in 0..Total /\ round \in 0..Total /\ counter \in 0..Total
         /\ first + round <= Total
         /\ pinned \in [Pages -> Nat] /\ mapped \in [Pages -> Nat]
         /\ gets \in Nat /\ failures \in Nat
         /\ pageList # NoList => pageList \in [Index -> Pages \cup {Null, Wild}]
         /\ addrList # NoList => addrList \in [Index -> Pages \cup {Null, Wild}]
BY DEF DmaTypeOK, Lists, Index

\* An allocated list is not a NULL pointer.
LEMMA Allocated ==
  ASSUME NEW f, DOMAIN f = Index
  PROVE  f # NoList
<1>1. 0 \in Index
  BY DEF Index
<1> QED
  BY <1>1 DEF NoList

\* A list just allocated holds no page, nor does one that is freed.
LEMMA EmptyLists ==
  /\ Fresh \in [Index -> Pages \cup {Null, Wild}] /\ Fresh # NoList
  /\ Freed \in [Index -> Pages \cup {Null, Wild}] /\ Freed # NoList
  /\ \A p \in Pages : Count(Fresh, Index, p) = 0 /\ Count(Freed, Index, p) = 0
<1>1. \A p \in Pages : p # Null /\ p # Wild
  OBVIOUS
<1> USE DEF Fresh, Freed
<1>2. Fresh # NoList /\ Freed # NoList
  BY Allocated
<1>3. ASSUME NEW p \in Pages PROVE Count(Fresh, Index, p) = 0 /\ Count(Freed, Index, p) = 0
  <2>1. \A k \in Index : Fresh[k] # p /\ Freed[k] # p
    BY <1>1
  <2> HIDE DEF Fresh, Freed
  <2> QED
    BY <2>1, CountAbsent
<1> QED
  BY <1>2, <1>3

\* The pages of a buffer are pages.
LEMMA BufferPages ==
  ASSUME NEW u \in Users, NEW k \in Index
  PROVE  Buffer[u][k] \in Pages /\ Buffer[u][k] \notin {Null, Wild}
BY DEF Pages

LEMMA DmaInitInv == DmaInit => DmaInv
<1> SUFFICES ASSUME DmaInit PROVE DmaInv
  OBVIOUS
<1> USE DEF DmaInit
<1>1. gets * Total = 0 /\ 0 \in 0..MaxGets * Total
  BY Products
<1>2. DmaTypeOK
  <2>1. Fresh \in [Index -> Pages \cup {Null, Wild}] /\ 0 \in Index
    BY EmptyLists DEF Index
  <2>2. pinned \in [Pages -> 0..MaxGets * Total] /\ mapped \in [Pages -> 0..MaxGets * Total]
    BY <1>1
  <2>3. leaked \in [Pages -> Nat] /\ NoList \in Lists
    BY DEF Lists
  <2>4. short \in BOOLEAN /\ overlapped \in BOOLEAN /\ misused \in BOOLEAN /\ phase \in {"idle", "pin", "map", "reply", "oops"}
    OBVIOUS
  <2>5. /\ first \in Index \cup {Total} /\ round \in 0..Total /\ counter \in 0..Total
        /\ first + round <= Total /\ gets \in 0..MaxGets /\ failures \in 0..MaxFailures
    BY <2>1
  <2> QED
    BY <2>1, <2>2, <2>3, <2>4, <2>5 DEF DmaTypeOK
<1>3. Bounded
  BY <1>1 DEF Bounded
<1>4. Backed
  BY DEF Backed
<1>5. AtOnce
  BY DEF AtOnce, Busy
<1>6. PinnedPlaces = {} /\ MappedPlaces = {}
  BY DEF PinnedPlaces, MappedPlaces
<1>7. Listed
  BY <1>6 DEF Listed, Busy
<1>8. Accounted
  BY <1>6, CountNone DEF Accounted, Busy
<1> QED
  BY <1>2, <1>3, <1>4, <1>5, <1>7, <1>8 DEF DmaInv

\* A new GET.
LEMMA GetStep ==
  ASSUME DmaInv, NEW u \in Users, Get(u)
  PROVE  DmaInv'
<1> USE DEF kernel
<1>f. DmaTypeOK /\ Bounded /\ Backed /\ Listed /\ Accounted
  BY DEF DmaInv
<1>g. /\ gets \in Nat /\ gets < MaxGets /\ gets' = gets + 1
      /\ gets * Total \in Nat /\ gets' * Total = gets * Total + Total
      /\ pinned \in [Pages -> Nat] /\ mapped \in [Pages -> Nat]
  BY <1>f, DmaFacts, Products DEF Get
<1>1. /\ phase' = "pin" /\ user' = u /\ first' = 0 /\ round' = 0 /\ counter' = 0
      /\ answer' = Fresh /\ pageList' = Fresh
      /\ UNCHANGED <<addrList, pinned, mapped, owes, failures, short, misused, leaked>>
      /\ overlapped' = (overlapped \/ owes # {}) /\ phase = "idle"
  BY DEF Get
<1>2. Bounded'
  BY <1>f, <1>g, <1>1 DEF Bounded
<1>3. DmaTypeOK'
  <2>1. 0 \in Index /\ Fresh \in Lists
    BY EmptyLists DEF Index, Lists
  <2>2. overlapped' \in BOOLEAN
    BY <1>f, <1>1 DEF DmaTypeOK
  <2> QED
    BY <1>f, <1>g, <1>1, <2>1, <2>2, EmptyLists DEF DmaTypeOK
<1>4. Backed'
  BY <1>f, <1>g, <1>1, EmptyLists DEF Backed
<1>5. PinnedPlaces' = {} /\ MappedPlaces' = {}
  BY <1>1 DEF PinnedPlaces, MappedPlaces
<1>6. AtOnce'
  BY <1>1, <1>5 DEF AtOnce
<1>7. Listed'
  BY <1>1, <1>5, EmptyLists DEF Listed, Busy
<1>8. Accounted'
  <2> SUFFICES ASSUME Clean' PROVE Accounted'
    BY DEF Accounted
  <2>1. Clean /\ owes = {}
    BY <1>1 DEF Clean, DmaTypeOK
  <2>2. PinnedPlaces = {} /\ MappedPlaces = {}
    BY <1>1, <2>1 DEF PinnedPlaces, MappedPlaces
  <2>3. \A p \in Pages : /\ pinned[p] = leaked[p] + Count(Buffer[user], {}, p)
                         /\ ~short => mapped[p] = leaked[p] + Count(Buffer[user], {}, p)
    BY <1>f, <2>1, <2>2 DEF Accounted
  <2>4. \A p \in Pages : Count(Buffer[user], {}, p) = 0 /\ Count(Buffer[u], {}, p) = 0
    BY CountNone
  <2> QED
    BY <1>1, <1>5, <2>1, <2>3, <2>4 DEF Accounted, Busy
<1> QED
  BY <1>2, <1>3, <1>4, <1>6, <1>7, <1>8 DEF DmaInv

\* A call that ends in a failure leaves no GET under way and none clean.
LEMMA FailedStep ==
  ASSUME DmaTypeOK', Bounded', Backed', phase' = "idle", failures' > 0
  PROVE  DmaInv'
<1>1. ~Busy' /\ ~Clean'
  BY DEF Busy, Clean
<1> QED
  BY <1>1 DEF DmaInv, AtOnce, Listed, Accounted

\* What failing does to the counter of failures.
LEMMA Failing ==
  ASSUME DmaTypeOK, Fail
  PROVE  failures' > 0 /\ failures' \in 0..MaxFailures
BY DEF DmaTypeOK, Fail

LEMMA GetRefusedStep ==
  ASSUME DmaInv, NEW u \in Users, GetRefused(u)
  PROVE  DmaInv'
<1>f. DmaTypeOK /\ Bounded /\ Backed
  BY DEF DmaInv
<1>g. /\ gets \in Nat /\ gets < MaxGets /\ gets' = gets + 1
      /\ gets * Total \in Nat /\ gets' * Total = gets * Total + Total
      /\ pinned \in [Pages -> Nat] /\ mapped \in [Pages -> Nat]
  BY <1>f, DmaFacts, Products DEF GetRefused
<1>1. /\ phase' = "idle" /\ user' = u /\ owes' = owes \cup {u}
      /\ pageList' = pageList \/ pageList' = NoList
      /\ UNCHANGED <<addrList, pinned, mapped, first, round, counter, answer, short, misused, leaked>>
      /\ overlapped' = (overlapped \/ owes # {})
  BY DEF GetRefused, kernel, loop
<1>2. failures' > 0 /\ failures' \in 0..MaxFailures
  BY <1>f, Failing DEF GetRefused
<1>3. Bounded'
  BY <1>f, <1>g, <1>1 DEF Bounded
<1>4. DmaTypeOK'
  <2>1. overlapped' \in BOOLEAN /\ pageList' \in Lists
    BY <1>f, <1>1 DEF DmaTypeOK, Lists
  <2> QED
    BY <1>f, <1>g, <1>1, <1>2, <2>1 DEF DmaTypeOK
<1>5. Backed'
  BY <1>f, <1>1 DEF Backed
<1> QED
  BY <1>1, <1>2, <1>3, <1>4, <1>5, FailedStep

\* The ioctl returns without a change to the lists.
LEMMA GivingUp ==
  ASSUME DmaInv, Fail, phase' = "idle", owes' \subseteq Users,
         UNCHANGED <<lists, kernel, user, loop, answer, gets, short, overlapped, misused, leaked>>
  PROVE  DmaInv'
<1>f. DmaTypeOK /\ Bounded /\ Backed
  BY DEF DmaInv
<1>2. failures' > 0 /\ failures' \in 0..MaxFailures
  BY <1>f, Failing
<1> USE DEF lists, kernel, loop
<1>3. Bounded' /\ Backed'
  BY <1>f DEF Bounded, Backed
<1>4. DmaTypeOK'
  BY <1>f, <1>2 DEF DmaTypeOK
<1> QED
  BY <1>2, <1>3, <1>4, FailedStep

LEMMA PinNoneStep ==
  ASSUME DmaInv, PinNone
  PROVE  DmaInv'
<1>f. DmaTypeOK /\ Bounded /\ Backed
  BY DEF DmaInv
<1>g. pinned \in [Pages -> Nat] /\ mapped \in [Pages -> Nat]
  BY <1>f, DmaFacts
<1>1. /\ phase' = "idle" /\ owes' = owes \cup {user} /\ pageList' = Freed /\ addrList' = Fresh
      /\ UNCHANGED <<pinned, mapped, user, first, round, counter, answer, gets, short, overlapped, misused, leaked>>
  BY DEF PinNone, ReturnZero, kernel, loop
<1>2. failures' > 0 /\ failures' \in 0..MaxFailures
  BY <1>f, Failing DEF PinNone
<1>3. Bounded'
  BY <1>f, <1>1 DEF Bounded
<1>4. Backed'
  BY <1>g, <1>1, EmptyLists DEF Backed
<1>5. DmaTypeOK'
  BY <1>f, <1>1, <1>2, EmptyLists DEF DmaTypeOK, Lists
<1> QED
  BY <1>1, <1>2, <1>3, <1>4, <1>5, FailedStep

\* A call of get_user_pages_fast: the places of the round are the list's, and
\* counted.
LEMMA PinNextStep ==
  ASSUME DmaInv, Mapping, PinNext, UNCHANGED <<user, first, gets>>
  PROVE  /\ round' \in 1..(Total - first)
         /\ short' = (short \/ round' < Total - first)
         /\ pageList' \in [Index -> Pages \cup {Null, Wild}]
         /\ \A k \in 0..(first + round' - 1) : pageList'[k] = Buffer[user][k]
         /\ pinned' \in [Pages -> 0..(MaxGets * Total)]
         /\ \A p \in Pages :
              /\ pinned'[p] <= (gets - 1) * Total + (first + round')
              /\ pinned'[p] <= gets * Total
              /\ Count(pageList', Index, p) <= pinned'[p]
              /\ Clean => pinned'[p] = leaked[p] + Count(Buffer[user], 0..(first + round' - 1), p)
<1>f. DmaTypeOK /\ Bounded /\ Backed /\ Listed /\ Accounted
  BY DEF DmaInv
<1>g. /\ first \in 0..Total /\ first < Total /\ gets \in Nat /\ gets \in 0..MaxGets /\ phase = "pin"
      /\ round = 0 /\ user \in Users /\ pinned \in [Pages -> Nat]
      /\ pageList \in [Index -> Pages \cup {Null, Wild}] /\ pageList # NoList
      /\ \A k \in 0..(first - 1) : pageList[k] = Buffer[user][k]
  <2>1. phase = "pin" /\ Busy /\ first < Total /\ round = 0
    BY <1>f DEF Mapping, Busy, Bounded
  <2>2. PinnedPlaces = 0..(first - 1)
    BY <2>1, <1>f, DmaFacts DEF PinnedPlaces
  <2> QED
    BY <2>1, <2>2, <1>f, DmaFacts DEF Listed, DmaTypeOK
<1>1. PICK n \in 1..(Total - first) :
        /\ round' = n
        /\ short' = (short \/ n < Total - first)
        /\ pageList' = [k \in Index |-> IF k \in first..(first + n - 1) THEN Buffer[user][k]
                                        ELSE pageList[k]]
        /\ pinned' = [p \in Pages |->
                        pinned[p] + Count(Buffer[user], first..(first + n - 1), p)]
  BY DEF PinNext
<1> DEFINE now == first..(first + n - 1)
           before == 0..(first - 1)
           rest == Index \ now
<1>2. /\ now \subseteq Index /\ before \subseteq Index /\ rest \subseteq Index
      /\ now \cup rest = Index /\ now \cap rest = {}
      /\ before \cup now = 0..(first + n - 1) /\ before \cap now = {}
      /\ n \in Nat /\ first + n <= Total
  BY <1>g DEF Index
<1>3. pageList' \in [Index -> Pages \cup {Null, Wild}]
  BY <1>1, <1>g, BufferPages
<1>4. /\ \A k \in now : pageList'[k] = Buffer[user][k]
      /\ \A k \in rest : pageList'[k] = pageList[k]
  BY <1>1, <1>2
<1>5. \A k \in 0..(first + n - 1) : pageList'[k] = Buffer[user][k]
  <2>1. \A k \in before : k \in rest
    BY <1>2
  <2> HIDE DEF now, before, rest
  <2> QED
    BY <1>2, <1>4, <2>1, <1>g DEF before
<1>6. ASSUME NEW p \in Pages
      PROVE  /\ pinned'[p] = pinned[p] + Count(Buffer[user], now, p)
             /\ Count(Buffer[user], now, p) \in Nat
             /\ Count(Buffer[user], now, p) <= n
             /\ Count(pageList', Index, p) <= pinned'[p]
             /\ Clean => pinned'[p] = leaked[p] + Count(Buffer[user], 0..(first + n - 1), p)
  <2>1. pinned'[p] = pinned[p] + Count(Buffer[user], now, p)
    BY <1>1
  <2>2. Count(Buffer[user], now, p) <= n
    <3>1. first \in Nat /\ n \in Nat /\ first + n <= Total
      BY <1>2, <1>g
    <3> QED
      BY <3>1, CountBound
  <2> HIDE DEF now, before, rest
  <2>3. /\ Count(Buffer[user], now, p) \in Nat /\ Count(pageList, rest, p) \in Nat
        /\ Count(pageList, now, p) \in Nat
    BY <1>2, CountType
  <2>4. Count(pageList', Index, p) = Count(pageList', now, p) + Count(pageList', rest, p)
    BY <1>2, CountSplit
  <2>5. Count(pageList', now, p) = Count(Buffer[user], now, p)
    BY <1>4, CountSame
  <2>6. Count(pageList', rest, p) = Count(pageList, rest, p)
    BY <1>4, CountSame
  <2>7. Count(pageList, Index, p) = Count(pageList, now, p) + Count(pageList, rest, p)
    BY <1>2, CountSplit
  <2>8. Count(pageList, Index, p) <= pinned[p] /\ pinned[p] \in Nat
    BY <1>f, <1>g DEF Backed
  <2>9. Count(pageList', Index, p) <= pinned'[p]
    BY <2>1, <2>3, <2>4, <2>5, <2>6, <2>7, <2>8
  <2>10. ASSUME Clean
         PROVE  pinned'[p] = leaked[p] + Count(Buffer[user], 0..(first + n - 1), p)
    <3>1. PinnedPlaces = before
      BY <1>g DEF PinnedPlaces, before
    <3>2. pinned[p] = leaked[p] + Count(Buffer[user], before, p)
      BY <1>f, <2>10, <3>1 DEF Accounted
    <3>3. Count(Buffer[user], before \cup now, p)
            = Count(Buffer[user], before, p) + Count(Buffer[user], now, p)
      BY <1>2, CountSplit
    <3>4. Count(Buffer[user], before, p) \in Nat /\ leaked[p] \in Nat
      BY <1>2, <1>f, CountType DEF DmaTypeOK
    <3>5. Count(Buffer[user], 0..(first + n - 1), p) = Count(Buffer[user], before \cup now, p)
      BY <1>2
    <3> QED
      BY <2>1, <2>3, <3>2, <3>3, <3>4, <3>5
  <2> QED
    BY <2>1, <2>2, <2>3, <2>9, <2>10
<1>7. ASSUME NEW p \in Pages
      PROVE  pinned'[p] <= (gets - 1) * Total + (first + n) /\ pinned'[p] <= gets * Total
             /\ pinned'[p] \in Nat
  <2>1. pinned[p] <= (gets - 1) * Total + (first + 0) /\ gets > 0 /\ pinned[p] \in Nat
    BY <1>f, <1>g DEF Bounded
  <2>2. gets * Total = (gets - 1) * Total + Total /\ (gets - 1) * Total \in Nat
    BY <1>g, <2>1, Products
  <2> QED
    BY <1>2, <1>6, <1>g, <2>1, <2>2
<1>8. pinned' \in [Pages -> Nat]
  BY <1>1, <1>7
<1>9. pinned' \in [Pages -> 0..(MaxGets * Total)]
  BY <1>7, <1>8, <1>g, WithinBound
<1> QED
  BY <1>1, <1>3, <1>5, <1>6, <1>7, <1>9

\* The types, bounds and backing of a round.
LEMMA RoundHeld ==
  ASSUME DmaInv, Mapping, PinNext, addrList' \in {Fresh, NoList}, phase' \in {"map", "idle"},
         failures' \in 0..MaxFailures, owes' \subseteq Users,
         UNCHANGED <<mapped, user, first, counter, answer, gets, overlapped, misused, leaked>>
  PROVE  DmaTypeOK' /\ Bounded' /\ Backed'
<1>f. DmaTypeOK /\ Bounded /\ Backed
  BY DEF DmaInv
<1>g. /\ first \in 0..Total /\ mapped \in [Pages -> Nat] /\ phase = "pin" /\ round = 0
  BY <1>f, DmaFacts DEF Mapping, Bounded
<1>1. /\ round' \in 1..(Total - first)
      /\ short' = (short \/ round' < Total - first)
      /\ pageList' \in [Index -> Pages \cup {Null, Wild}]
      /\ pinned' \in [Pages -> 0..(MaxGets * Total)]
      /\ \A p \in Pages : /\ pinned'[p] <= (gets - 1) * Total + (first + round')
                          /\ pinned'[p] <= gets * Total
                          /\ Count(pageList', Index, p) <= pinned'[p]
  BY PinNextStep
<1>2. Bounded'
  BY <1>f, <1>g, <1>1 DEF Bounded
<1>3. Backed'
  BY <1>g, <1>1, EmptyLists DEF Backed
<1>4. DmaTypeOK'
  <2>1. pageList' \in Lists /\ addrList' \in Lists
    BY <1>1, EmptyLists DEF Lists
  <2>2. short' \in BOOLEAN
    BY <1>f, <1>1 DEF DmaTypeOK
  <2>3. round' \in 0..Total /\ first' + round' <= Total
    <3>1. round' \in 1..(Total - first) /\ first' = first
      BY <1>1
    <3>2. \A a \in 0..Total : \A b \in 1..(Total - a) : b \in 0..Total /\ a + b <= Total
      OBVIOUS
    <3> QED
      BY <1>g, <3>1, <3>2
  <2> QED
    BY <1>f, <1>1, <2>1, <2>2, <2>3 DEF DmaTypeOK
<1> QED
  BY <1>2, <1>3, <1>4

LEMMA AddressListFailsStep ==
  ASSUME DmaInv, AddressListFails
  PROVE  DmaInv'
<1>1. DmaTypeOK
  BY DEF DmaInv
<1>2. failures' > 0 /\ failures' \in 0..MaxFailures
  BY <1>1, Failing DEF AddressListFails
<1>3. phase' = "idle" /\ owes' \subseteq Users
  BY <1>1 DEF AddressListFails, ReturnZero, DmaTypeOK
<1>4. DmaTypeOK' /\ Bounded' /\ Backed'
  BY <1>2, <1>3, RoundHeld DEF AddressListFails
<1> QED
  BY <1>2, <1>3, <1>4, FailedStep

LEMMA PinStep ==
  ASSUME DmaInv, Pin
  PROVE  DmaInv'
<1>f. DmaTypeOK /\ Bounded /\ AtOnce /\ Listed /\ Accounted
  BY DEF DmaInv
<1>1. /\ Mapping /\ PinNext /\ addrList' = Fresh /\ phase' = "map" /\ phase = "pin"
      /\ UNCHANGED <<mapped, user, first, counter, answer, owes, gets, failures, overlapped, misused, leaked>>
  BY DEF Pin, Mapping
<1>2. DmaTypeOK' /\ Bounded' /\ Backed'
  BY <1>1, <1>f, RoundHeld DEF DmaTypeOK
<1>3. /\ round' \in 1..(Total - first)
      /\ short' = (short \/ round' < Total - first)
      /\ \A k \in 0..(first + round' - 1) : pageList'[k] = Buffer[user][k]
      /\ pageList' \in [Index -> Pages \cup {Null, Wild}]
      /\ \A p \in Pages : Clean =>
           pinned'[p] = leaked[p] + Count(Buffer[user], 0..(first + round' - 1), p)
  BY <1>1, PinNextStep
<1>4. ASSUME ~short' PROVE ~short /\ first = 0 /\ counter = 0 /\ round' = Total /\ MappedPlaces' = {}
  <2>1. ~short /\ ~(round' < Total - first)
    BY <1>3, <1>4
  <2>2. first = 0 /\ counter = 0
    BY <1>1, <1>f, <2>1 DEF AtOnce
  <2>3. round' = Total
    BY <1>3, <2>1, <2>2
  <2>4. MappedPlaces' = {}
    BY <1>1, <2>2 DEF MappedPlaces
  <2> QED
    BY <2>1, <2>2, <2>3, <2>4
<1>5. AtOnce'
  BY <1>1, <1>4 DEF AtOnce
<1>6. PinnedPlaces' = 0..(first + round' - 1)
  BY <1>1 DEF PinnedPlaces
<1>7. Listed'
  <2>1. pageList' # NoList /\ addrList' # NoList
    BY <1>1, <1>3, EmptyLists, Allocated
  <2> QED
    BY <1>1, <1>3, <1>4, <1>6, <2>1 DEF Listed, Busy
<1>8. Accounted'
  <2> SUFFICES ASSUME Clean' PROVE Accounted'
    BY DEF Accounted
  <2>1. Clean /\ owes = {}
    BY <1>1, <1>f DEF Clean, Accounted, Busy
  <2>2. ASSUME NEW p \in Pages, ~short'
        PROVE  mapped'[p] = leaked'[p] + Count(Buffer[user]', MappedPlaces', p)
    <3>1. mapped[p] = leaked[p] + Count(Buffer[user], MappedPlaces, p)
      BY <1>f, <1>4, <2>1, <2>2 DEF Accounted
    <3>2. MappedPlaces = {}
      BY <1>1 DEF MappedPlaces
    <3> QED
      BY <1>1, <1>4, <2>2, <3>1, <3>2
  <2>3. ASSUME NEW p \in Pages
        PROVE  pinned'[p] = leaked'[p] + Count(Buffer[user]', PinnedPlaces', p)
    BY <1>1, <1>3, <1>6, <2>1
  <2> QED
    BY <1>1, <2>1, <2>2, <2>3 DEF Accounted, Busy
<1> QED
  BY <1>2, <1>5, <1>7, <1>8 DEF DmaInv

LEMMA MapStep ==
  ASSUME DmaInv, Map
  PROVE  DmaInv'
<1>f. DmaTypeOK /\ Bounded /\ Backed /\ AtOnce /\ Listed /\ Accounted
  BY DEF DmaInv
<1> DEFINE j == first + counter
           page == PageToMap
<1>1. /\ phase = "map" /\ counter < round /\ phase' = "map" /\ counter' = counter + 1
      /\ addrList' = [addrList EXCEPT ![j] = page] /\ answer' = [answer EXCEPT ![j] = page]
      /\ mapped' = [p \in Pages |-> IF p = page THEN mapped[p] + 1 ELSE mapped[p]]
      /\ UNCHANGED <<pageList, pinned, user, first, round, owes, gets, failures, short, overlapped, misused, leaked>>
  BY DEF Map, history
<1>2. /\ first \in 0..Total /\ round \in 0..Total /\ counter \in 0..Total /\ first + round <= Total
      /\ gets \in Nat /\ gets \in 0..MaxGets /\ pinned \in [Pages -> Nat] /\ mapped \in [Pages -> Nat]
      /\ addrList \in [Index -> Pages \cup {Null, Wild}] /\ addrList # NoList
      /\ pageList \in [Index -> Pages \cup {Null, Wild}] /\ pageList # NoList
      /\ answer \in [Index -> Pages \cup {Null, Wild}]
  BY <1>1, <1>f, DmaFacts DEF Listed, Busy, DmaTypeOK
<1>3. j \in Index /\ counter \in Index /\ counter + 1 \in 0..Total
  BY <1>1, <1>2 DEF Index
<1>4. page \in Pages \cup {Null, Wild}
  <2>1. first + first + counter \in Nat
    BY <1>2
  <2>2. first + first + counter < Total => first + first + counter \in Index
    BY <2>1 DEF Index
  <2> QED
    BY <1>2, <2>2 DEF PageToMap
<1> HIDE DEF page, j
<1>5. /\ addrList' \in [Index -> Pages \cup {Null, Wild}] /\ addrList' # NoList
      /\ answer' \in [Index -> Pages \cup {Null, Wild}]
      /\ addrList'[j] = page /\ answer'[j] = page
      /\ \A k \in Index \ {j} : addrList'[k] = addrList[k] /\ answer'[k] = answer[k]
  <2>1. /\ addrList' \in [Index -> Pages \cup {Null, Wild}]
        /\ answer' \in [Index -> Pages \cup {Null, Wild}]
    BY <1>1, <1>2, <1>3, <1>4
  <2>2. addrList' # NoList
    BY <2>1, Allocated
  <2> QED
    BY <1>1, <1>2, <1>3, <2>1, <2>2
<1>6. mapped' \in [Pages -> Nat] /\ \A p \in Pages : mapped'[p] <= mapped[p] + 1
  BY <1>1, <1>2
<1>7. Bounded'
  <2>1. /\ gets > 0
        /\ \A p \in Pages : mapped[p] <= (gets - 1) * Total + counter
    BY <1>1, <1>f DEF Bounded
  <2>2. gets * Total = (gets - 1) * Total + Total /\ (gets - 1) * Total \in Nat
    BY <1>2, <2>1, Products
  <2>3. ASSUME NEW p \in Pages
        PROVE  mapped'[p] <= (gets - 1) * Total + (counter + 1) /\ mapped'[p] <= gets * Total
    BY <1>2, <1>3, <1>6, <2>1, <2>2
  <2> QED
    BY <1>1, <1>f, <2>3 DEF Bounded
<1>8. DmaTypeOK'
  <2>1. mapped' \in [Pages -> 0..(MaxGets * Total)]
    BY <1>1, <1>2, <1>6, <1>7, WithinBound DEF Bounded
  <2>2. addrList' \in Lists
    BY <1>5 DEF Lists
  <2> QED
    BY <1>1, <1>f, <1>3, <1>5, <2>1, <2>2 DEF DmaTypeOK
<1>9. Backed'
  <2>1. ASSUME NEW p \in Pages PROVE Count(addrList', Index, p) <= mapped'[p]
    <3> DEFINE rest == Index \ {j}
    <3>1. rest \subseteq Index /\ {j} \subseteq Index /\ rest \cap {j} = {} /\ rest \cup {j} = Index
      BY <1>3
    <3> HIDE DEF rest
    <3>2. /\ Count(addrList', Index, p) = Count(addrList', rest, p) + Count(addrList', {j}, p)
          /\ Count(addrList, Index, p) = Count(addrList, rest, p) + Count(addrList, {j}, p)
      BY <3>1, CountSplit
    <3>3. Count(addrList', rest, p) = Count(addrList, rest, p)
      BY <1>5, CountSame DEF rest
    <3>4. Count(addrList', {j}, p) = IF page = p THEN 1 ELSE 0
      BY <1>3, <1>5, CountOne
    <3>5. Count(addrList, rest, p) \in Nat /\ Count(addrList, {j}, p) \in Nat
      BY <3>1, CountType
    <3>6. Count(addrList, Index, p) <= mapped[p] /\ mapped[p] \in Nat
      BY <1>f, <1>2 DEF Backed
    <3>7. mapped'[p] = IF page = p THEN mapped[p] + 1 ELSE mapped[p]
      BY <1>1
    <3> QED
      BY <3>2, <3>3, <3>4, <3>5, <3>6, <3>7
  <2> QED
    BY <1>1, <1>f, <2>1 DEF Backed
<1>10. PinnedPlaces' = PinnedPlaces /\ PinnedPlaces = 0..(first + round - 1)
  BY <1>1 DEF PinnedPlaces
<1>11. ASSUME ~short
       PROVE  /\ first = 0 /\ j = counter /\ page = Buffer[user][counter]
              /\ MappedPlaces = 0..(counter - 1) /\ MappedPlaces' = MappedPlaces \cup {counter}
              /\ counter \notin MappedPlaces /\ MappedPlaces \subseteq Index \ {j}
  <2>1. first = 0 /\ round = Total /\ j = counter
    BY <1>1, <1>f, <1>2, <1>11 DEF AtOnce, j
  <2>2. page = pageList[counter]
    BY <1>2, <1>3, <2>1 DEF page, PageToMap, Index
  <2>3. pageList[counter] = Buffer[user][counter]
    BY <1>1, <1>3, <1>f, <1>10, <2>1 DEF Listed, Busy, Index
  <2>4. MappedPlaces = 0..(counter - 1) /\ MappedPlaces' = 0..((counter + 1) - 1)
    BY <1>1 DEF MappedPlaces
  <2>5. /\ 0..((counter + 1) - 1) = 0..(counter - 1) \cup {counter} /\ counter \notin 0..(counter - 1)
        /\ 0..(counter - 1) \subseteq Index \ {counter}
    BY <1>2, <1>3 DEF Index
  <2> QED
    BY <2>1, <2>2, <2>3, <2>4, <2>5
<1>12. AtOnce' /\ Listed'
  <2>1. ASSUME ~short, NEW k \in MappedPlaces'
        PROVE  answer'[k] = Buffer[user][k] /\ addrList'[k] = Buffer[user][k]
    <3>1. CASE k = counter
      BY <1>5, <1>11, <2>1, <3>1
    <3>2. CASE k \in MappedPlaces
      <4>1. answer[k] = Buffer[user][k] /\ addrList[k] = Buffer[user][k]
        BY <1>1, <1>f, <2>1, <3>2 DEF AtOnce, Listed, Busy
      <4>2. k \in Index \ {j}
        BY <1>11, <2>1, <3>2
      <4> QED
        BY <1>5, <4>1, <4>2
    <3> QED
      BY <1>11, <2>1, <3>1, <3>2
  <2>2. AtOnce'
    BY <1>1, <1>f, <2>1 DEF AtOnce
  <2>3. Listed'
    BY <1>1, <1>2, <1>5, <1>f, <1>10, <2>1 DEF Listed, Busy
  <2> QED
    BY <2>2, <2>3
<1>13. Accounted'
  <2> SUFFICES ASSUME Clean' PROVE Accounted'
    BY DEF Accounted
  <2>1. Clean /\ owes = {}
    BY <1>1, <1>f DEF Clean, Accounted, Busy
  <2>2. ASSUME NEW p \in Pages, ~short
        PROVE  mapped'[p] = leaked[p] + Count(Buffer[user], MappedPlaces', p)
    <3>1. MappedPlaces \subseteq Index /\ {counter} \subseteq Index /\ MappedPlaces \cap {counter} = {}
      BY <1>3, <1>11, <2>2
    <3>2. Count(Buffer[user], MappedPlaces', p)
            = Count(Buffer[user], MappedPlaces, p) + Count(Buffer[user], {counter}, p)
      <4>1. Count(Buffer[user], MappedPlaces \cup {counter}, p)
              = Count(Buffer[user], MappedPlaces, p) + Count(Buffer[user], {counter}, p)
        BY <3>1, CountSplit
      <4> QED
        BY <1>11, <2>2, <4>1
    <3>3. Count(Buffer[user], {counter}, p) = IF page = p THEN 1 ELSE 0
      BY <1>3, <1>11, <2>2, CountOne
    <3>4. mapped[p] = leaked[p] + Count(Buffer[user], MappedPlaces, p)
      BY <1>f, <2>1, <2>2 DEF Accounted
    <3>5. mapped'[p] = IF page = p THEN mapped[p] + 1 ELSE mapped[p]
      BY <1>1
    <3>6. leaked[p] \in Nat /\ Count(Buffer[user], MappedPlaces, p) \in Nat
      BY <1>f, <3>1, CountType DEF DmaTypeOK
    <3> QED
      BY <3>2, <3>3, <3>4, <3>5, <3>6
  <2> QED
    BY <1>1, <1>10, <1>f, <2>1, <2>2 DEF Accounted, Busy
<1> QED
  BY <1>7, <1>8, <1>9, <1>12, <1>13 DEF DmaInv

LEMMA EndRoundStep ==
  ASSUME DmaInv, EndRound
  PROVE  DmaInv'
<1>f. DmaTypeOK /\ Bounded /\ Backed /\ AtOnce /\ Listed /\ Accounted
  BY DEF DmaInv
<1>1. /\ phase = "map" /\ counter >= round /\ first' = first + round /\ round' = 0
      /\ phase' = IF first' = Total THEN "reply" ELSE "pin"
      /\ UNCHANGED <<pageList, addrList, pinned, mapped, user, counter, answer, owes, gets,
                     failures, short, overlapped, misused, leaked>>
  BY DEF EndRound, lists, kernel, history
<1>2. /\ first \in 0..Total /\ round \in 0..Total /\ counter \in 0..Total /\ first + round <= Total
      /\ first' \in 0..Total /\ gets \in Nat
      /\ pinned \in [Pages -> Nat] /\ mapped \in [Pages -> Nat]
  BY <1>1, <1>f, DmaFacts
<1>3. Bounded'
  BY <1>1, <1>2, <1>f DEF Bounded
<1>4. DmaTypeOK'
  <2>1. first' \in Index \cup {Total} /\ first' + round' <= Total
    BY <1>1, <1>2 DEF Index
  <2> QED
    BY <1>1, <1>f, <2>1 DEF DmaTypeOK
<1>5. Backed'
  BY <1>1, <1>f DEF Backed
<1>6. PinnedPlaces' = PinnedPlaces
  <2>1. PinnedPlaces = 0..(first' - 1)
    <3>1. PinnedPlaces = 0..(first + round - 1)
      BY <1>1 DEF PinnedPlaces
    <3> QED
      BY <1>1, <1>2, <3>1
  <2>2. CASE first' = Total
    <3>1. phase' = "reply" /\ PinnedPlaces = Index
      BY <1>1, <2>1, <2>2 DEF Index
    <3> QED
      BY <3>1 DEF PinnedPlaces, Index
  <2>3. CASE first' # Total
    <3>1. PinnedPlaces' = 0..(first' + 0 - 1) /\ first' + 0 - 1 = first' - 1
      BY <1>1, <1>2, <2>3 DEF PinnedPlaces
    <3> QED
      BY <2>1, <3>1
  <2> QED
    BY <2>2, <2>3
<1>7. ASSUME ~short PROVE phase' = "reply" /\ MappedPlaces' = MappedPlaces
  <2>1. first = 0 /\ round = Total
    BY <1>1, <1>f, <1>7 DEF AtOnce
  <2>2. first' = Total /\ counter = Total
    BY <1>1, <1>2, <2>1
  <2> QED
    BY <1>1, <2>2 DEF MappedPlaces, Index
<1>8. AtOnce'
  BY <1>1, <1>7, <1>f DEF AtOnce, Busy
<1>9. Listed'
  BY <1>1, <1>6, <1>7, <1>f DEF Listed, Busy
<1>10. Accounted'
  BY <1>1, <1>6, <1>7, <1>f DEF Accounted, Busy, Clean
<1> QED
  BY <1>3, <1>4, <1>5, <1>8, <1>9, <1>10 DEF DmaInv

LEMMA ReplyStep ==
  ASSUME DmaInv, Reply
  PROVE  DmaInv'
<1>f. DmaTypeOK /\ Bounded /\ Backed /\ AtOnce /\ Listed /\ Accounted
  BY DEF DmaInv
<1>1. /\ phase = "reply" /\ phase' = "idle" /\ owes' = owes \cup {user}
      /\ UNCHANGED <<pageList, addrList, pinned, mapped, user, first, round, counter, answer, gets,
                     failures, short, overlapped, misused, leaked>>
  BY DEF Reply, ReturnZero, lists, kernel, loop, history
<1>2. DmaTypeOK' /\ Bounded' /\ Backed'
  BY <1>1, <1>f DEF DmaTypeOK, Bounded, Backed
<1>3. /\ PinnedPlaces = Index /\ MappedPlaces = Index
      /\ PinnedPlaces' = Index /\ MappedPlaces' = Index
  <2>1. owes' # {}
    BY <1>1
  <2> QED
    BY <1>1, <2>1 DEF PinnedPlaces, MappedPlaces, Index
<1>4. AtOnce' /\ Listed' /\ Accounted'
  BY <1>1, <1>3, <1>f DEF AtOnce, Listed, Accounted, Busy, Clean
<1> QED
  BY <1>2, <1>4 DEF DmaInv

\* A clean user that releases or closes is the one of the last GET.
LEMMA CleanOwner ==
  ASSUME DmaInv, phase = "idle", NEW u \in owes, Clean
  PROVE  /\ u = user /\ owes \ {u} = {}
         /\ PinnedPlaces = Index /\ MappedPlaces = Index
<1>1. Accounted /\ ~Busy
  BY DEF DmaInv, Busy
<1>2. u = user /\ owes \ {u} = {}
  BY <1>1 DEF Accounted
<1>3. owes # {}
  OBVIOUS
<1> QED
  BY <1>2, <1>3 DEF PinnedPlaces, MappedPlaces

\* A RELEASE of the first n places of a list leaves the rest of it, counted.
LEMMA CountRest ==
  ASSUME NEW f, NEW n \in 0..Total, NEW p
  PROVE  /\ 0..(n - 1) \subseteq Index /\ n..(Total - 1) \subseteq Index
         /\ Count(f, 0..(n - 1), p) \in Nat /\ Count(f, n..(Total - 1), p) \in Nat
         /\ Count(f, Index, p) = Count(f, 0..(n - 1), p) + Count(f, n..(Total - 1), p)
<1> DEFINE K == 0..(n - 1)
           L == n..(Total - 1)
<1>1. K \subseteq Index /\ L \subseteq Index /\ K \cap L = {} /\ K \cup L = Index
  BY DEF Index
<1> HIDE DEF K, L
<1>2. Count(f, K, p) \in Nat /\ Count(f, L, p) \in Nat
  BY <1>1, CountType
<1>3. Count(f, K \cup L, p) = Count(f, K, p) + Count(f, L, p)
  BY <1>1, CountSplit
<1> QED
  BY <1>1, <1>2, <1>3 DEF K, L

\* What a RELEASE takes from the list it takes from the count of the kernel.
LEMMA Taken ==
  ASSUME NEW f, NEW n \in 0..Total, NEW p, NEW had \in Nat, NEW bound \in Nat,
         Count(f, Index, p) <= had, had <= bound
  PROVE  /\ had - Count(f, 0..(n - 1), p) \in Nat
         /\ had - Count(f, 0..(n - 1), p) <= bound
         /\ Count(f, n..(Total - 1), p) <= had - Count(f, 0..(n - 1), p)
<1>1. /\ Count(f, 0..(n - 1), p) \in Nat /\ Count(f, n..(Total - 1), p) \in Nat
      /\ Count(f, Index, p) = Count(f, 0..(n - 1), p) + Count(f, n..(Total - 1), p)
  BY CountRest
<1> QED
  BY <1>1

\* RELEASE, of no page or of the first ones of the lists.
LEMMA ReleaseStep ==
  ASSUME DmaInv, NEW u \in Users, NEW n \in 0..(Total + 1), Release(u, n)
  PROVE  DmaInv'
<1>f. DmaTypeOK /\ Bounded /\ Backed /\ Listed /\ Accounted
  BY DEF DmaInv
<1>1. /\ phase = "idle" /\ phase' = "idle" /\ owes' = owes \ {u} /\ pageList' = NoList
      /\ n > 0 => pageList # NoList /\ addrList # NoList /\ n <= Total
      /\ addrList' = [k \in DOMAIN addrList |-> IF k < n THEN Null ELSE addrList[k]]
      /\ pinned' = [p \in Pages |-> pinned[p] - Count(pageList, 0..(n - 1), p)]
      /\ mapped' = [p \in Pages |-> mapped[p] - Count(addrList, 0..(n - 1), p)]
      /\ leaked' = IF u \in owes
                   THEN [p \in Pages |-> leaked[p] + Count(Buffer[u], n..(Total - 1), p)]
                   ELSE leaked
      /\ misused' = (misused \/ u \notin owes \/ n > Total)
      /\ UNCHANGED <<user, first, round, counter, answer, gets, failures, short, overlapped>>
  BY DEF Release, Unpinned, Usable, Misuse, loop
<1>2. /\ gets \in Nat /\ gets \in 0..MaxGets /\ gets * Total \in Nat
      /\ pinned \in [Pages -> Nat] /\ mapped \in [Pages -> Nat]
      /\ n \in 0..Total /\ n \in Nat
  BY <1>f, <1>1, DmaFacts, Products DEF DmaTypeOK
<1>3. ASSUME NEW p \in Pages
      PROVE  /\ pinned'[p] \in Nat /\ pinned'[p] <= gets * Total
             /\ mapped'[p] \in Nat /\ mapped'[p] <= gets * Total
             /\ addrList # NoList => Count(addrList, n..(Total - 1), p) <= mapped'[p]
  <2>1. pinned[p] <= gets * Total /\ mapped[p] <= gets * Total
    BY <1>f DEF Bounded
  <2>2. /\ pinned'[p] = pinned[p] - Count(pageList, 0..(n - 1), p)
        /\ mapped'[p] = mapped[p] - Count(addrList, 0..(n - 1), p)
    BY <1>1
  <2>3. CASE n = 0
    <3>1. 0..(n - 1) = {} /\ n..(Total - 1) = Index
      BY <2>3 DEF Index
    <3>2. Count(pageList, {}, p) = 0 /\ Count(addrList, {}, p) = 0
      BY CountNone
    <3>3. addrList # NoList => Count(addrList, Index, p) <= mapped[p]
      BY <1>f DEF Backed
    <3> QED
      BY <1>2, <2>1, <2>2, <3>1, <3>2, <3>3
  <2>4. CASE n # 0
    <3>1. Count(pageList, Index, p) <= pinned[p] /\ Count(addrList, Index, p) <= mapped[p]
      BY <1>1, <1>2, <1>f, <2>4 DEF Backed
    <3> QED
      BY <1>2, <2>1, <2>2, <3>1, Taken
  <2> QED
    BY <2>3, <2>4
<1>4. Bounded'
  BY <1>1, <1>3 DEF Bounded
<1>5. addrList' \in Lists /\ (addrList' # NoList => addrList # NoList)
  <2>1. CASE addrList = NoList
    <3>1. addrList' = NoList
      BY <1>1, <2>1 DEF NoList
    <3> QED
      BY <2>1, <3>1 DEF Lists
  <2>2. CASE addrList # NoList
    <3>1. addrList \in [Index -> Pages \cup {Null, Wild}]
      BY <1>f, <2>2, DmaFacts
    <3>2. addrList' \in [Index -> Pages \cup {Null, Wild}]
      BY <1>1, <3>1
    <3> QED
      BY <2>2, <3>2 DEF Lists
  <2> QED
    BY <2>1, <2>2
<1>6. DmaTypeOK'
  <2>1. pinned' \in [Pages -> Nat] /\ mapped' \in [Pages -> Nat]
    BY <1>1, <1>3
  <2>2. pinned' \in [Pages -> 0..(MaxGets * Total)] /\ mapped' \in [Pages -> 0..(MaxGets * Total)]
    BY <1>2, <1>3, <2>1, WithinBound
  <2>3. leaked' \in [Pages -> Nat]
    <3>1. \A p \in Pages : Count(Buffer[u], n..(Total - 1), p) \in Nat /\ leaked[p] \in Nat
      BY <1>2, <1>f, CountRest DEF DmaTypeOK
    <3>2. \A p \in Pages : leaked[p] + Count(Buffer[u], n..(Total - 1), p) \in Nat
      BY <3>1
    <3> QED
      BY <1>1, <1>f, <3>2 DEF DmaTypeOK
  <2>4. pageList' \in Lists /\ misused' \in BOOLEAN /\ owes' \subseteq Users
    BY <1>1, <1>f DEF DmaTypeOK, Lists
  <2> QED
    BY <1>1, <1>f, <1>5, <2>2, <2>3, <2>4 DEF DmaTypeOK
<1>7. Backed'
  <2>1. ASSUME NEW p \in Pages, addrList' # NoList
        PROVE  Count(addrList', Index, p) <= mapped'[p]
    <3>1. addrList # NoList /\ addrList \in [Index -> Pages \cup {Null, Wild}]
      BY <1>5, <1>f, <2>1, DmaFacts
    <3>2. addrList' = [k \in Index |-> IF k < n THEN Null ELSE addrList[k]]
      BY <1>1, <3>1
    <3>3. \A k \in 0..(n - 1) : k \in Index /\ addrList'[k] # p
      BY <1>2, <3>2 DEF Index
    <3>4. \A k \in n..(Total - 1) : addrList'[k] = addrList[k]
      BY <1>2, <3>2 DEF Index
    <3>5. 0..(n - 1) \subseteq Index
      BY <3>3
    <3>6. Count(addrList', 0..(n - 1), p) = 0
      BY <3>3, <3>5, CountAbsent
    <3>7. Count(addrList', n..(Total - 1), p) = Count(addrList, n..(Total - 1), p)
      BY <3>4, CountSame
    <3>8. Count(addrList', Index, p)
            = Count(addrList', 0..(n - 1), p) + Count(addrList', n..(Total - 1), p)
      BY <1>2, CountRest
    <3>9. Count(addrList, n..(Total - 1), p) \in Nat
      BY <1>2, CountRest
    <3> QED
      BY <1>3, <3>1, <3>6, <3>7, <3>8, <3>9
  <2> QED
    BY <1>1, <2>1 DEF Backed
<1>8. AtOnce'
  BY <1>1 DEF AtOnce, Busy
<1>9. ASSUME Clean'
      PROVE  /\ Clean /\ u \in owes /\ u = user /\ owes' = {}
             /\ PinnedPlaces' = {} /\ MappedPlaces' = {}
             /\ \A k \in Index : pageList[k] = Buffer[user][k]
             /\ ~short => \A k \in Index : addrList[k] = Buffer[user][k]
             /\ \A p \in Pages :
                  /\ pinned[p] = leaked[p] + Count(Buffer[user], Index, p)
                  /\ ~short => mapped[p] = leaked[p] + Count(Buffer[user], Index, p)
  <2>1. Clean /\ u \in owes
    BY <1>1, <1>9 DEF Clean
  <2>2. u = user /\ owes' = {} /\ PinnedPlaces = Index /\ MappedPlaces = Index
    BY <1>1, <2>1, CleanOwner
  <2>3. PinnedPlaces' = {} /\ MappedPlaces' = {}
    BY <1>1, <2>2 DEF PinnedPlaces, MappedPlaces
  <2> QED
    BY <1>f, <2>1, <2>2, <2>3 DEF Listed, Accounted
<1>10. Listed'
  BY <1>1, <1>9 DEF Listed, Busy
<1>11. Accounted'
  <2> SUFFICES ASSUME Clean' PROVE Accounted'
    BY DEF Accounted
  <2>1. ASSUME NEW p \in Pages PROVE pinned'[p] = leaked'[p] /\ (~short => mapped'[p] = leaked'[p])
    <3>1. 0..(n - 1) \subseteq Index
      BY <1>2, CountRest
    <3>2. Count(pageList, 0..(n - 1), p) = Count(Buffer[user], 0..(n - 1), p)
      BY <1>9, <3>1, CountSame
    <3>3. ~short => Count(addrList, 0..(n - 1), p) = Count(Buffer[user], 0..(n - 1), p)
      BY <1>9, <3>1, CountSame
    <3>4. /\ Count(Buffer[user], 0..(n - 1), p) \in Nat
          /\ Count(Buffer[user], n..(Total - 1), p) \in Nat
          /\ Count(Buffer[user], Index, p)
               = Count(Buffer[user], 0..(n - 1), p) + Count(Buffer[user], n..(Total - 1), p)
      BY <1>2, CountRest
    <3>5. leaked[p] \in Nat /\ leaked'[p] = leaked[p] + Count(Buffer[user], n..(Total - 1), p)
      BY <1>1, <1>9, <1>f DEF DmaTypeOK
    <3>6. /\ pinned'[p] = pinned[p] - Count(pageList, 0..(n - 1), p)
          /\ mapped'[p] = mapped[p] - Count(addrList, 0..(n - 1), p)
      BY <1>1
    <3> QED
      BY <1>9, <3>2, <3>3, <3>4, <3>5, <3>6
  <2>2. \A p \in Pages : Count(Buffer[user], {}, p) = 0 /\ leaked'[p] \in Nat
    BY <1>6, CountNone DEF DmaTypeOK
  <2>3. ASSUME NEW p \in Pages
        PROVE  /\ pinned'[p] = leaked'[p] + Count(Buffer[user]', PinnedPlaces', p)
               /\ ~short' => mapped'[p] = leaked'[p] + Count(Buffer[user]', MappedPlaces', p)
    <3>1. /\ Count(Buffer[user]', PinnedPlaces', p) = 0 /\ Count(Buffer[user]', MappedPlaces', p) = 0
          /\ short' = short
      BY <1>1, <1>9, <2>2
    <3> QED
      BY <2>1, <2>2, <3>1
  <2> QED
    BY <1>1, <1>9, <2>3 DEF Accounted, Busy
<1> QED
  BY <1>4, <1>6, <1>7, <1>8, <1>10, <1>11 DEF DmaInv

\* A RELEASE of no more pages than its own GET's finds its lists.
LEMMA ReleaseOopsStep ==
  ASSUME DmaInv, NEW u \in Users, NEW n \in 0..(Total + 1), ReleaseOops(u, n)
  PROVE  DmaInv'
<1>f. DmaTypeOK /\ Bounded /\ Backed /\ Listed /\ Accounted
  BY DEF DmaInv
<1>1. /\ phase = "idle" /\ phase' = "oops" /\ ~Usable(n)
      /\ misused' = (misused \/ u \notin owes \/ n > Total)
      /\ UNCHANGED <<pageList, addrList, pinned, mapped, user, first, round, counter, answer, owes, gets,
                     failures, short, overlapped, leaked>>
  BY DEF ReleaseOops, Misuse, lists, kernel, loop
<1>2. DmaTypeOK' /\ Bounded' /\ Backed'
  BY <1>1, <1>f DEF DmaTypeOK, Bounded, Backed
<1>3. ~Clean'
  <2> SUFFICES ASSUME Clean' PROVE FALSE
    OBVIOUS
  <2>1. Clean /\ u \in owes /\ n <= Total
    <3>1. failures' = 0 /\ ~overlapped' /\ ~misused' /\ ~(misused \/ u \notin owes \/ n > Total)
      BY <1>1 DEF Clean
    <3>2. Total \in Nat /\ n \in Int
      BY DmaAssumption DEF DmaAssumption
    <3> QED
      BY <1>1, <3>1, <3>2 DEF Clean
  <2>2. PinnedPlaces = Index /\ owes # {} /\ ~Busy
    BY <1>1, <2>1, CleanOwner DEF Busy
  <2>3. /\ pageList # NoList /\ addrList # NoList
        /\ \A k \in Index : pageList[k] = Buffer[user][k]
    BY <1>f, <2>1, <2>2 DEF Listed
  <2>4. \A k \in Index : pageList[k] \notin {Null, Wild}
    BY <1>f, <2>3, BufferPages DEF DmaTypeOK
  <2>5. 0..(n - 1) \subseteq Index
    BY <2>1, CountRest
  <2> QED
    BY <1>1, <2>1, <2>3, <2>4, <2>5 DEF Usable
<1>4. ~Busy'
  BY <1>1 DEF Busy
<1> QED
  BY <1>1, <1>2, <1>3, <1>4 DEF DmaInv, AtOnce, Listed, Accounted

LEMMA CloseStep ==
  ASSUME DmaInv, NEW u \in Users, Close(u)
  PROVE  DmaInv'
<1>f. DmaTypeOK /\ Bounded /\ Backed /\ Listed /\ Accounted
  BY DEF DmaInv
<1>1. /\ phase = "idle" /\ u \in owes /\ phase' = "idle" /\ owes' = owes \ {u}
      /\ leaked' = [p \in Pages |-> leaked[p] + Count(Buffer[u], Index, p)]
      /\ UNCHANGED <<pageList, addrList, pinned, mapped, user, first, round, counter, answer, gets,
                     failures, short, overlapped, misused>>
  BY DEF Close, lists, kernel, loop
<1>2. DmaTypeOK'
  <2>1. \A p \in Pages : leaked'[p] \in Nat
    BY <1>1, <1>f, CountType DEF DmaTypeOK
  <2>2. leaked' \in [Pages -> Nat]
    BY <1>1, <2>1
  <2> QED
    BY <1>1, <1>f, <2>2 DEF DmaTypeOK
<1>3. Bounded' /\ Backed'
  BY <1>1, <1>f DEF Bounded, Backed
<1>4. AtOnce'
  BY <1>1 DEF AtOnce, Busy
<1>5. ASSUME Clean'
      PROVE  /\ Clean /\ u = user /\ owes' = {} /\ PinnedPlaces' = {} /\ MappedPlaces' = {}
             /\ PinnedPlaces = Index /\ MappedPlaces = Index
  <2>1. Clean
    BY <1>1, <1>5 DEF Clean
  <2>2. u = user /\ owes' = {} /\ PinnedPlaces = Index /\ MappedPlaces = Index
    BY <1>1, <2>1, CleanOwner
  <2> QED
    BY <1>1, <2>1, <2>2 DEF PinnedPlaces, MappedPlaces
<1>6. Listed'
  BY <1>1, <1>5 DEF Listed, Busy
<1>7. Accounted'
  <2> SUFFICES ASSUME Clean' PROVE Accounted'
    BY DEF Accounted
  <2>1. ASSUME NEW p \in Pages PROVE pinned[p] = leaked'[p] /\ (~short => mapped[p] = leaked'[p])
    BY <1>1, <1>5, <1>f, <2>1 DEF Accounted
  <2>2. \A p \in Pages : Count(Buffer[user], {}, p) = 0 /\ leaked'[p] \in Nat
    BY <1>2, CountNone DEF DmaTypeOK
  <2> QED
    BY <1>1, <1>5, <2>1, <2>2 DEF Accounted, Busy
<1> QED
  BY <1>2, <1>3, <1>4, <1>6, <1>7 DEF DmaInv

LEMMA DmaStepInv == DmaInv /\ [DmaNext]_dmaVars => DmaInv'
<1> SUFFICES ASSUME DmaInv, [DmaNext]_dmaVars PROVE DmaInv'
  OBVIOUS
<1>1. CASE MapFails
  <2>1. owes' \subseteq Users
    BY <1>1 DEF MapFails, ReturnZero, DmaInv, DmaTypeOK
  <2> QED
    BY <1>1, <2>1, GivingUp DEF MapFails, ReturnZero
<1>2. CASE ReplyFails
  <2>1. owes' \subseteq Users
    BY <1>2 DEF ReplyFails, DmaInv, DmaTypeOK
  <2> QED
    BY <1>2, <2>1, GivingUp DEF ReplyFails
<1>3. CASE UNCHANGED dmaVars
  BY <1>3 DEF dmaVars, lists, kernel, loop, history, DmaInv, DmaTypeOK, Bounded, Backed, AtOnce, Listed,
     Accounted, Busy, Clean, PinnedPlaces, MappedPlaces
<1> QED
  BY <1>1, <1>2, <1>3, GetStep, GetRefusedStep, PinStep, PinNoneStep, AddressListFailsStep, MapStep,
     EndRoundStep, ReplyStep, ReleaseStep, ReleaseOopsStep, CloseStep DEF DmaNext

----------------------------------------------------------------------------
(* What it says *)

\* The inductive invariant holds in every reachable state of GET, RELEASE and
\* close.
THEOREM DmaInvariance == DmaSpec => []DmaInv
BY DmaInitInv, DmaStepInv, PTL DEF DmaSpec

\* The lists hold pages, and no page is pinned or mapped less than never or
\* more often than the GETs asked for.
THEOREM DmaTypes == DmaSpec => []DmaTypeOK
<1>1. DmaInv => DmaTypeOK
  BY DEF DmaInv
<1> QED
  BY <1>1, DmaInvariance, PTL

\* Each address map_dma_pages answers a buffer pinned at once with maps the
\* page at its place, which is pinned.
THEOREM AnswersAreMapped == DmaSpec => []AnsweredIsMapped
<1>1. DmaInv => AnsweredIsMapped
  <2> SUFFICES ASSUME DmaInv, phase = "reply", ~short, NEW k \in Index
               PROVE  /\ answer[k] = Buffer[user][k] /\ pinned[Buffer[user][k]] > 0
                      /\ mapped[Buffer[user][k]] > 0
    BY DEF AnsweredIsMapped
  <2>1. Busy /\ PinnedPlaces = Index /\ MappedPlaces = Index
    BY DEF Busy, PinnedPlaces, MappedPlaces
  <2>2. /\ answer[k] = Buffer[user][k] /\ pageList # NoList /\ addrList # NoList
        /\ pageList[k] = Buffer[user][k] /\ addrList[k] = Buffer[user][k]
    BY <2>1 DEF DmaInv, AtOnce, Listed
  <2>3. Buffer[user][k] \in Pages /\ pinned \in [Pages -> Nat] /\ mapped \in [Pages -> Nat]
    BY BufferPages, DmaFacts DEF DmaInv, DmaTypeOK
  <2>4. Count(pageList, Index, pageList[k]) > 0 /\ Count(addrList, Index, addrList[k]) > 0
    BY CountSome
  <2>5. /\ Count(pageList, Index, pageList[k]) \in Nat /\ Count(addrList, Index, addrList[k]) \in Nat
    BY CountType
  <2>6. /\ Count(pageList, Index, pageList[k]) <= pinned[Buffer[user][k]]
        /\ Count(addrList, Index, addrList[k]) <= mapped[Buffer[user][k]]
    BY <2>2, <2>3 DEF DmaInv, Backed
  <2> QED
    BY <2>2, <2>3, <2>4, <2>5, <2>6
<1> QED
  BY <1>1, DmaInvariance, PTL

\* What stays pinned after every RELEASE is what users that have gone left
\* behind, and the pages that the others did not name in theirs.
THEOREM ReleasesFree == DmaSpec => []ReleasedIsFree
<1>1. DmaInv => ReleasedIsFree
  <2> SUFFICES ASSUME DmaInv, phase = "idle", owes = {}, failures = 0, ~overlapped, ~misused,
                      NEW p \in Pages
               PROVE  pinned[p] = leaked[p] /\ (mapped[p] = leaked[p] \/ short)
    BY DEF ReleasedIsFree
  <2>1. Clean /\ PinnedPlaces = {} /\ MappedPlaces = {}
    BY DEF Clean, PinnedPlaces, MappedPlaces
  <2>2. Count(Buffer[user], {}, p) = 0 /\ leaked[p] \in Nat
    BY CountNone DEF DmaInv, DmaTypeOK
  <2> QED
    BY <2>1, <2>2 DEF DmaInv, Accounted
<1> QED
  BY <1>1, DmaInvariance, PTL

\* release_dma_pages, whatever a user asks of it and whenever, walks into
\* lists or pages that are not there only after a GET failed or replaced the
\* lists of another, or in or after a RELEASE that had no GET left to release
\* or asked for more pages than its own.
THEOREM OopsesAreCaused == DmaSpec => []OopsOnlyAfterMisuse
<1>1. DmaInv => OopsOnlyAfterMisuse
  <2> SUFFICES ASSUME DmaInv, phase = "oops", ~(failures > 0), ~overlapped, ~misused PROVE FALSE
    BY DEF OopsOnlyAfterMisuse
  <2>1. failures = 0
    BY DmaFacts DEF DmaInv
  <2> QED
    BY <2>1 DEF DmaInv, Accounted, Clean
<1> QED
  BY <1>1, DmaInvariance, PTL
=============================================================================
