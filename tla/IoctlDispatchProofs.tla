------------------------ MODULE IoctlDispatchProofs ------------------------
(***************************************************************************)
(* Proofs of the safety properties of IoctlDispatch for any number of      *)
(* threads, files, devices and minor numbers, and any of the drivers.      *)
(*                                                                         *)
(* A thread reads its file's private_data up to three times: to lock, to   *)
(* get the device, and to unlock.  IInv says that, until INIT is abused,   *)
(* the three reads give one device (Steady), because nobody else changes   *)
(* the file of a thread that is in a call (Apart).                         *)
(***************************************************************************)
EXTENDS IoctlDispatch, TLAPS

Busy(t) == pc[t] # "idle"

\* A thread in a call has an open file, and is where its command takes it.
InCall ==
  \A t \in Threads : Busy(t) =>
    /\ file[t] \in open
    /\ cmd[t] \in Calls
    /\ pc[t] = "bind" => cmd[t] = "INIT"
    /\ pc[t] = "fetch" => cmd[t] \in GetFirst
    /\ pc[t] = "get" => cmd[t] \notin GetFirst

\* Threads that share a file run neither INIT nor release on it.
Apart ==
  \A t, u \in Threads : t # u /\ Busy(t) /\ Busy(u) /\ file[t] = file[u] =>
    cmd[t] \notin {"INIT", "release"}

\* Whatever a thread has read of its file's private_data is still so.
Steady ==
  \A t \in Threads :
    /\ pc[t] = "wait" => want[t] # None /\ want[t] = Private(t)
    /\ pc[t] \in {"get", "body", "fault"} => Private(t) # None
    /\ pc[t] \in {"body", "fault"} => dev[t] = Private(t)
    /\ cmd[t] \in GetFirst /\ pc[t] \in {"lock", "wait"} =>
         dev[t] # None /\ dev[t] = Private(t)

\* The holder of a mutex is past mutex_lock_nnt, and a thread there holds
\* the mutex of its file's device.
Held ==
  \A t \in Threads :
    /\ \A d \in Devices : holder[d] = t => pc[t] \in {"get", "body", "fault", "unlock"} /\ Private(t) = d
    /\ pc[t] \in {"get", "body", "fault", "unlock"} /\ Private(t) # None => holder[Private(t)] = t

Safe == InCall /\ Apart /\ Steady /\ Held

IInv == TypeOK /\ (abused \/ Safe)

----------------------------------------------------------------------------

LEMMA InitInv == Init => IInv
  <1> SUFFICES ASSUME Init PROVE IInv
    OBVIOUS
  <1> USE DispatchAssumption DEF Init, Busy
  <1>1. TypeOK
    BY DEF TypeOK, Steps, devVars
  <1>2. InCall /\ Apart /\ Steady
    BY DEF InCall, Apart, Steady
  <1>3. Held
    BY DEF Held
  <1> QED
    BY <1>1, <1>2, <1>3 DEF IInv, Safe

\* Each action keeps the types.  Unlock and Fetch need the file of the
\* thread to be one.
LEMMA TypeStep ==
  ASSUME TypeOK, Safe, Next
  PROVE  TypeOK'
  <1> USE DispatchAssumption DEF TypeOK, Steps, Calls, GetFirst
  <1>1. ASSUME NEW f \in Files, Open(f) PROVE TypeOK'
    BY <1>1 DEF Open, devVars
  <1>2. ASSUME NEW f \in Files, Close(f) PROVE TypeOK'
    BY <1>2 DEF Close, devVars
  <1>3. ASSUME NEW t \in Threads, NEW f \in Files, NEW k \in Offered, Enter(t, f, k) PROVE TypeOK'
    <2>1. k \in Calls
      BY DEF Offered
    <2>2. FirstStep[k] \in Steps \ {"wait", "body", "fault"}
      BY <2>1 DEF FirstStep
    <2> QED
      BY <1>3, <2>1, <2>2 DEF Enter, At, Goto, devVars, Collides
  <1>4. ASSUME NEW t \in Threads, Progress(t) \/ Acquire(t) \/ PageIn(t) PROVE TypeOK'
    <2>0. pc[t] # "idle"
      BY <1>4 DEF Progress, Acquire, Bind, BindFails, Fetch, LockUnbound, LockBound, Get, Body,
                  Fault, PageIn, Unlock, At
    <2>1. file[t] \in Files /\ Private(t) \in Devices \cup {None}
      BY <2>0 DEF Safe, InCall, Busy, Private
    <2>2. CASE Bind(t)
      BY <2>1, <2>2 DEF Bind, At, Goto
    <2>3. CASE BindFails(t)
      BY <2>1, <2>3 DEF BindFails, At, Goto, ReturnUnless, Return, devVars
    <2>4. CASE Fetch(t)
      BY <2>1, <2>4 DEF Fetch, At, Goto, ReturnUnless, Return, devVars
    <2>5. CASE LockUnbound(t)
      <3>1. cmd[t] # "mmap"
        BY <2>5 DEF LockUnbound, At, Safe, Steady
      <3> QED
        BY <2>1, <2>5, <3>1 DEF LockUnbound, At, Goto, ReturnUnless, Return, devVars
    <2>6. CASE LockBound(t)
      BY <2>1, <2>6 DEF LockBound, At, Goto, devVars
    <2>7. CASE Acquire(t)
      <3>1. cmd[t] \in GetFirst => dev[t] # None
        BY <2>7 DEF Acquire, At, Safe, Steady
      <3> QED
        BY <2>7, <3>1 DEF Acquire, At, Goto, devVars
    <2>8. CASE Get(t)
      BY <2>1, <2>8 DEF Get, At, Goto, devVars
    <2>9. CASE Body(t)
      BY <2>9 DEF Body, At, Goto
    <2>10. CASE Fault(t)
      BY <2>10 DEF Fault, At, Goto, devVars
    <2>11. CASE PageIn(t)
      BY <2>11 DEF PageIn, At, Goto, devVars
    <2>12. CASE Unlock(t)
      <3>1. private' \in [Files -> Devices \cup {None}] /\ open' \subseteq Files
        BY <2>1, <2>12 DEF Unlock
      <3>2. holder' \in [Devices -> Threads \cup {None}]
        BY <2>1, <2>12 DEF Unlock
      <3> QED
        BY <2>12, <3>1, <3>2 DEF Unlock, At, Return, Goto, devVars
    <2> QED
      BY <1>4, <2>2, <2>3, <2>4, <2>5, <2>6, <2>7, <2>8, <2>9, <2>10, <2>11, <2>12 DEF Progress
  <1> QED
    BY <1>1, <1>2, <1>3, <1>4 DEF Next

\* Only threads in no call, or in a call on another file, stand beside one
\* that changes its file.
LEMMA OthersApart ==
  ASSUME InCall, Apart, NEW t \in Threads, Busy(t), cmd[t] \in {"INIT", "release"},
         NEW u \in Threads, u # t, Busy(u)
  PROVE  file[u] # file[t]
  BY DEF Apart

\* Opening or closing a file disturbs no thread in a call.
LEMMA FileStep ==
  ASSUME TypeOK, Safe, NEW f \in Files, Open(f) \/ Close(f)
  PROVE  Safe'
  <1>1. UNCHANGED <<holder, pc, cmd, file, want, dev>>
    BY DEF Open, Close
  <1>2. \A t \in Threads : Busy(t) => file[t] # f
    BY DEF Open, Close, Safe, InCall, InUse, Busy
  <1>3. \A t \in Threads : Busy(t) => file[t] \in open' /\ private'[file[t]] = private[file[t]]
    BY <1>2 DEF Open, Close, Safe, InCall, TypeOK
  <1>4. InCall' /\ Apart'
    BY <1>1, <1>3 DEF Safe, InCall, Apart, Busy
  <1>5. Steady'
    BY <1>1, <1>3 DEF Safe, Steady, Busy, Private
  <1>6. Held'
    BY <1>1, <1>3 DEF Safe, Held, Busy, Private
  <1> QED
    BY <1>4, <1>5, <1>6 DEF Safe

\* A call that begins does not collide, or INIT is abused.
LEMMA EnterStep ==
  ASSUME TypeOK, Safe, NEW t \in Threads, NEW f \in Files, NEW k \in Offered, Enter(t, f, k),
         ~abused'
  PROVE  Safe'
  <1>1. k \in Calls
    BY DEF Offered, Calls
  <1>2. /\ ~Busy(t) /\ f \in open /\ ~Collides(f, k)
        /\ \A u \in Threads : pc[u] # "idle" /\ file[u] = f =>
             cmd[u] # "release" /\ k # "release"
    BY DEF Enter, At, Busy, InUse
  <1>3. /\ cmd' = [cmd EXCEPT ![t] = k] /\ file' = [file EXCEPT ![t] = f]
        /\ pc' = [pc EXCEPT ![t] = FirstStep[k]]
        /\ UNCHANGED <<open, private, holder, want, dev>>
    BY DEF Enter, Goto
  <1>4. /\ FirstStep[k] \in {"bind", "fetch", "lock"}
        /\ FirstStep[k] = "bind" => k = "INIT"
        /\ FirstStep[k] = "fetch" <=> k \in GetFirst
    BY <1>1 DEF FirstStep, Calls, GetFirst
  <1>5. InCall'
    BY <1>1, <1>2, <1>3, <1>4 DEF Safe, InCall, Busy, TypeOK
  <1>6. Apart'
    BY <1>2, <1>3 DEF Safe, Apart, Busy, Collides, TypeOK
  <1>7. Steady'
    BY <1>3, <1>4 DEF Safe, Steady, Private, TypeOK
  <1>8. Held'
    BY <1>2, <1>3, <1>4 DEF Safe, Held, Busy, Private, TypeOK
  <1> QED
    BY <1>5, <1>6, <1>7, <1>8 DEF Safe

\* A step of a call, one case for each action.
LEMMA CallStep ==
  ASSUME TypeOK, Safe, NEW t \in Threads, Progress(t) \/ Acquire(t) \/ PageIn(t), ~abused'
  PROVE  Safe'
  <1> USE DispatchAssumption
  <1>0. Busy(t)
    BY DEF Progress, Acquire, Bind, BindFails, Fetch, LockUnbound, LockBound, Get, Body, Fault, PageIn,
           Unlock, At, Busy
  <1>1. file[t] \in Files /\ file[t] \in open /\ Private(t) \in Devices \cup {None}
    BY <1>0 DEF Safe, InCall, Private, TypeOK
  <1>2. CASE Bind(t)
    <2>1. cmd[t] = "INIT" /\ pc[t] = "bind"
      BY <1>2 DEF Bind, At, Safe, InCall, Busy
    <2>2. \A u \in Threads \ {t} : Busy(u) => private'[file[u]] = private[file[u]]
      BY <1>0, <1>2, <2>1, OthersApart DEF Bind, Safe, TypeOK, InCall, Busy
    <2>3. /\ pc' = [pc EXCEPT ![t] = "lock"]
          /\ UNCHANGED <<open, holder, cmd, file, want, dev>>
      BY <1>2 DEF Bind, Goto
    <2>4. InCall' /\ Apart'
      BY <2>1, <2>3 DEF Safe, InCall, Apart, Busy, TypeOK
    <2>5. Steady'
      BY <2>1, <2>2, <2>3 DEF GetFirst, Safe, Steady, Busy, Private, TypeOK
    <2>6. Held'
      BY <2>1, <2>2, <2>3 DEF Safe, Held, Busy, Private, TypeOK
    <2> QED
      BY <2>4, <2>5, <2>6 DEF Safe
  <1>3. ASSUME pc[t] \notin {"get", "body", "fault", "unlock"}, Return(t),
               UNCHANGED <<open, private, holder>>
        PROVE  Safe'
    BY <1>3 DEF Return, Goto, Safe, InCall, Apart, Steady, Held, Busy, Private, TypeOK
  <1>4. ASSUME pc[t] \notin {"get", "body", "fault", "unlock"}, Private(t) = None, Goto(t, "unlock"),
               UNCHANGED <<open, private, holder, cmd, file, want, dev>>
        PROVE  Safe'
    BY <1>0, <1>4 DEF Goto, Safe, InCall, Apart, Steady, Held, Busy, Private, TypeOK
  <1>5. CASE BindFails(t)
    BY <1>3, <1>4, <1>5 DEF BindFails, At, ReturnUnless
  <1>6. CASE LockUnbound(t)
    <2>1. cmd[t] # "mmap"
      BY <1>6 DEF LockUnbound, At, GetFirst, Safe, Steady
    <2> QED
      BY <1>3, <1>4, <1>6, <2>1 DEF LockUnbound, At, ReturnUnless
  <1>7. CASE Fetch(t)
    <2>1. CASE Private(t) = None
      BY <1>3, <1>4, <1>7, <2>1 DEF Fetch, At, ReturnUnless
    <2>2. CASE Private(t) # None
      BY <1>0, <1>1, <1>7, <2>2
         DEF Fetch, At, Goto, Safe, InCall, Apart, Steady, Held, Busy, Private, TypeOK
    <2> QED
      BY <2>1, <2>2
  <1>8. CASE LockBound(t)
    BY <1>0, <1>1, <1>8 DEF LockBound, At, Goto, Safe, InCall, Apart, Steady, Held, Busy, Private, TypeOK
  <1>9. CASE Acquire(t)
    <2>1. want[t] # None /\ want[t] = Private(t) /\ pc[t] = "wait" /\ holder[want[t]] = None
      BY <1>9 DEF Acquire, At, Safe, Steady
    <2>2. /\ holder' = [holder EXCEPT ![want[t]] = t]
          /\ pc' = [pc EXCEPT ![t] = IF cmd[t] \in GetFirst THEN "body" ELSE "get"]
          /\ UNCHANGED <<open, private, cmd, file, want, dev>>
      BY <1>9 DEF Acquire, Goto
    <2>3. InCall' /\ Apart'
      BY <1>0, <2>2 DEF Safe, InCall, Apart, Busy, TypeOK
    <2>4. Steady'
      BY <2>1, <2>2 DEF Safe, Steady, Private, TypeOK
    <2>5. Held'
      BY <1>1, <2>1, <2>2 DEF Safe, Held, Private, TypeOK
    <2> QED
      BY <2>3, <2>4, <2>5 DEF Safe
  <1>10. CASE Get(t)
    BY <1>0, <1>1, <1>10 DEF Get, At, Goto, Safe, InCall, Apart, Steady, Held, Busy, Private, TypeOK
  <1>11. CASE Body(t)
    BY <1>0, <1>1, <1>11 DEF Body, At, Goto, Safe, InCall, Apart, Steady, Held, Busy, Private, TypeOK
  <1>12. CASE Fault(t) \/ PageIn(t)
    <2>1. /\ \/ pc[t] = "body" /\ Goto(t, "fault")
             \/ pc[t] = "fault" /\ Goto(t, "unlock")
          /\ UNCHANGED <<open, private, holder, cmd, file, want, dev>>
      BY <1>12 DEF Fault, PageIn, At
    <2> QED
      BY <1>0, <1>1, <2>1 DEF Goto, Safe, InCall, Apart, Steady, Held, Busy, Private, TypeOK
  <1>13. CASE Unlock(t)
    <2>1. pc[t] = "unlock" /\ (Private(t) # None => holder[Private(t)] = t)
      BY <1>13 DEF Unlock, At, Safe, Held
    <2>2. \A u \in Threads \ {t} : Busy(u) =>
            file[u] \in open' /\ private'[file[u]] = private[file[u]]
      BY <1>0, <1>13, OthersApart DEF Unlock, Safe, InCall, Apart, Busy, TypeOK
    <2>3. Return(t)
      BY <1>13 DEF Unlock
    <2>4. \A d \in Devices : holder'[d] = IF d = Private(t) THEN None ELSE holder[d]
      BY <1>1, <1>13 DEF Unlock, TypeOK
    <2>5. InCall' /\ Apart'
      BY <2>2, <2>3 DEF Return, Goto, Safe, InCall, Apart, Busy, TypeOK
    <2>6. Steady'
      BY <2>2, <2>3 DEF Return, Goto, Safe, Steady, Busy, Private, TypeOK
    <2>7. Held'
      <3>1. ASSUME NEW u \in Threads, u # t PROVE
              /\ \A d \in Devices : holder'[d] = u =>
                   pc'[u] \in {"get", "body", "fault", "unlock"} /\ Private(u)' = d
              /\ pc'[u] \in {"get", "body", "fault", "unlock"} /\ Private(u)' # None =>
                   holder'[Private(u)'] = u
        <4>1. pc'[u] = pc[u] /\ file'[u] = file[u]
          BY <2>3, <3>1 DEF Return, Goto, TypeOK
        <4>2. Busy(u) => Private(u)' = Private(u) /\ Private(u) \in Devices \cup {None}
          BY <2>2, <3>1, <4>1 DEF Private, Safe, InCall, TypeOK
        <4> QED
          BY <2>1, <2>4, <3>1, <4>1, <4>2 DEF Safe, Held, Busy
      <3>2. \A d \in Devices : holder'[d] # t
        BY <2>4 DEF Safe, Held
      <3>3. pc'[t] = "idle"
        BY <2>3 DEF Return, Goto, TypeOK
      <3> QED
        BY <3>1, <3>2, <3>3 DEF Held
    <2> QED
      BY <2>5, <2>6, <2>7 DEF Safe
  <1> QED
    BY <1>2, <1>5, <1>6, <1>7, <1>8, <1>9, <1>10, <1>11, <1>13, <1>12 DEF Progress

LEMMA StepInv == IInv /\ [Next]_vars => IInv'
  <1> SUFFICES ASSUME IInv, [Next]_vars PROVE IInv'
    OBVIOUS
  <1>1. CASE UNCHANGED vars
    BY <1>1 DEF IInv, TypeOK, Safe, InCall, Apart, Steady, Held, Busy, Private, vars
  <1>2. CASE Next
    <2>1. ~abused
      BY <1>2 DEF Next, Open, Close, Enter, Progress, Acquire, Bind, BindFails, Fetch,
                  LockUnbound, LockBound, Get, Body, Fault, PageIn, Unlock, At
    <2>2. TypeOK /\ Safe
      BY <2>1 DEF IInv
    <2>3. TypeOK'
      BY <1>2, <2>2, TypeStep
    <2>4. ASSUME ~abused' PROVE Safe'
      BY <1>2, <2>2, <2>4, FileStep, EnterStep, CallStep DEF Next
    <2> QED
      BY <2>3, <2>4 DEF IInv
  <1> QED
    BY <1>1, <1>2

\* IInv is an invariant of every driver.
THEOREM Invariance == Spec => []IInv
  BY InitInv, StepInv, PTL DEF Spec

\* The types, and with them: no thread waits for or works on a NULL device.
THEOREM TypeCorrect == Spec => []TypeOK
  <1>1. IInv => TypeOK
    BY DEF IInv
  <1> QED
    BY <1>1, Invariance, PTL

\* The device a thread works on is the one whose mutex it has locked.
THEOREM LockedWork == Spec => []WorksUnderItsLock
  <1>1. IInv => WorksUnderItsLock
    BY DEF IInv, Safe, Steady, Held, WorksUnderItsLock
  <1> QED
    BY <1>1, Invariance, PTL

\* Every path out of a call, errors included, unlocks what the call locked.
THEOREM NothingLeftLocked == Spec => []NoLockLeftBehind
  <1>1. IInv => NoLockLeftBehind
    BY DEF IInv, Safe, Held, NoLockLeftBehind
  <1> QED
    BY <1>1, Invariance, PTL

\* A mutex is only unlocked by its holder.
THEOREM HolderUnlocks == Spec => OnlyHolderUnlocks
  <1> DEFINE Step == \A d \in Devices, t \in Threads :
        holder[d] = t /\ holder'[d] # t /\ ~abused => pc[t] = "unlock" /\ pc'[t] = "idle"
  <1>1. IInv /\ [Next]_vars => [Step]_vars
    <2> SUFFICES ASSUME IInv, Next, NEW d \in Devices, NEW t \in Threads,
                        holder[d] = t, holder'[d] # t, ~abused
                 PROVE  pc[t] = "unlock" /\ pc'[t] = "idle"
      BY DEF vars
    <2> USE DispatchAssumption
    <2>1. PICK u \in Threads : Acquire(u) \/ Unlock(u)
      BY DEF Next, Progress, Open, Close, Enter, Bind, BindFails, Fetch, LockUnbound, LockBound,
             Get, Body, Fault, PageIn
    <2>2. ~Acquire(u)
      <3> SUFFICES ASSUME Acquire(u) PROVE FALSE
        OBVIOUS
      <3>1. want[u] \in Devices /\ holder[want[u]] = None
        BY DEF Acquire, At, IInv, TypeOK
      <3> QED
        BY <3>1 DEF Acquire, IInv, TypeOK
    <2>3. holder[d] = u
      <3>1. pc[u] = "unlock" /\ d = Private(u)
        BY <2>1, <2>2 DEF Unlock, At, IInv, TypeOK
      <3> QED
        BY <3>1 DEF IInv, Safe, Held
    <2> QED
      BY <2>1, <2>2, <2>3 DEF Unlock, At, Return, Goto, IInv, TypeOK
  <1> QED
    BY <1>1, Invariance, PTL DEF Spec, OnlyHolderUnlocks
============================================================================
