----------------------- MODULE VsecSemaphoreProofs -----------------------
(***************************************************************************)
(* Proofs about VsecSemaphore for any set of clients, any set of tickets   *)
(* and any bounds on retries and faults.                                   *)
(***************************************************************************)
EXTENDS VsecSemaphore, TLAPS

\* A drawn ticket belongs to one thread: the counter register never hands
\* out one that is still in use.
TicketsUnique ==
  \A c, d \in Clients : c # d /\ ticket[c] # Free => ticket[c] # ticket[d]

\* A thread that has drawn a ticket still has it.
TicketDrawn ==
  \A c \in Clients : pc[c] \in {"claim", "check"} \/ Holding(c) => ticket[c] # Free

\* Between attempts a thread has no ticket; only a thread about to clear has
\* failed, and only a holder has been robbed.
Bookkeeping ==
  /\ \A c \in Clients : pc[c] = "idle" => ticket[c] = Free
  /\ \A c \in failed : pc[c] = "clear"
  /\ \A c \in robbed : Holding(c)

\* Until it writes it again a thread that polls or draws has no claim of its
\* own in the semaphore, not even that of an earlier round of the loop.
NoStaleClaim ==
  \A c \in Clients :
    pc[c] \in {"poll", "ticket", "claim"} /\ ticket[c] # Free => sem # ticket[c]

\* The inductive invariant.
Facts ==
  TicketsUnique /\ TicketDrawn /\ Bookkeeping /\ NoStaleClaim /\ OwnTicketWhileHeld

IInv == TypeOK /\ Facts

USE FreeAssumption, BoundsAssumption

\* The invariant holds initially.
LEMMA InitInv == Init => IInv
BY DEF Init, IInv, Facts, TypeOK, Steps, Bookkeeping, TicketsUnique, TicketDrawn, NoStaleClaim,
       OwnTicketWhileHeld, Holders, Holding

\* TypeOK is inductive by itself.
LEMMA TypeStep == TypeOK /\ [Next]_vars => TypeOK'
<1> SUFFICES ASSUME TypeOK, [Next]_vars PROVE TypeOK'
  OBVIOUS
<1> USE DEF TypeOK, Steps, Goto
<1>1. ASSUME NEW c \in Clients, Begin(c) PROVE TypeOK'
  BY <1>1 DEF Begin
<1>2. ASSUME NEW c \in Clients, PollTimeout(c) PROVE TypeOK'
  BY <1>2 DEF PollTimeout
<1>3. ASSUME NEW c \in Clients, PollTaken(c) PROVE TypeOK'
  BY <1>3 DEF PollTaken, RetriesLeft
<1>4. ASSUME NEW c \in Clients, PollFree(c) PROVE TypeOK'
  BY <1>4 DEF PollFree
<1>5. ASSUME NEW c \in Clients, ReadCounter(c) PROVE TypeOK'
  BY <1>5 DEF ReadCounter
<1>6. ASSUME NEW c \in Clients, WriteTicket(c) PROVE TypeOK'
  BY <1>6 DEF WriteTicket, SemaphoreAfter
<1>7. ASSUME NEW c \in Clients, ReadBack(c) PROVE TypeOK'
  BY <1>7 DEF ReadBack
<1>8. ASSUME NEW c \in Clients, ConfigError(c) PROVE TypeOK'
  BY <1>8 DEF ConfigError
<1>9. ASSUME NEW c \in Clients, Leave(c) PROVE TypeOK'
  BY <1>9 DEF Leave
<1>10. ASSUME NEW c \in Clients, Clear(c) PROVE TypeOK'
  BY <1>10 DEF Clear, Return, Victims, Holders
<1>11. ASSUME NEW c \in Clients, ClearError(c) PROVE TypeOK'
  BY <1>11 DEF ClearError, Return
<1>12. ASSUME NEW c \in Clients, BodyError(c) PROVE TypeOK'
  BY <1>12 DEF BodyError
<1>13. CASE UNCHANGED vars
  BY <1>13 DEF vars
<1> QED
  BY <1>1, <1>2, <1>3, <1>4, <1>5, <1>6, <1>7, <1>8, <1>9, <1>10, <1>11, <1>12, <1>13
     DEF Next, Progress

\* Every step keeps the invariant.  The interesting steps are ReadCounter
\* (a fresh ticket), WriteTicket (the semaphore changes only when it is
\* free, so no holder that was not robbed is there), ReadBack (a holder is
\* made only with its ticket in the semaphore) and Clear (whoever loses the
\* semaphore is recorded as robbed).
LEMMA StepInv == IInv /\ [Next]_vars => IInv'
<1> SUFFICES ASSUME IInv, [Next]_vars PROVE IInv'
  OBVIOUS
<1>t. TypeOK /\ TypeOK'
  BY TypeStep DEF IInv
<1>f. Facts
  BY DEF IInv
<1>q. SUFFICES Facts'
  BY <1>t, <1>q DEF IInv
<1> USE <1>t, <1>f DEF TypeOK, Steps, Goto, Facts, TicketsUnique, Bookkeeping, TicketDrawn, NoStaleClaim,
        OwnTicketWhileHeld, Holders, Holding
<1>1. ASSUME NEW c \in Clients, Begin(c) PROVE Facts'
  BY <1>1 DEF Begin
<1>2. ASSUME NEW c \in Clients, PollTimeout(c) PROVE Facts'
  BY <1>2 DEF PollTimeout
<1>3. ASSUME NEW c \in Clients, PollTaken(c) PROVE Facts'
  BY <1>3 DEF PollTaken
<1>4. ASSUME NEW c \in Clients, PollFree(c) PROVE Facts'
  BY <1>4 DEF PollFree
<1>5. ASSUME NEW c \in Clients, ReadCounter(c) PROVE Facts'
  BY <1>5 DEF ReadCounter, TicketsInUse
<1>6. ASSUME NEW c \in Clients, WriteTicket(c) PROVE Facts'
  BY <1>6 DEF WriteTicket, SemaphoreAfter
<1>7. ASSUME NEW c \in Clients, ReadBack(c) PROVE Facts'
  BY <1>7 DEF ReadBack
<1>8. ASSUME NEW c \in Clients, ConfigError(c) PROVE Facts'
  BY <1>8 DEF ConfigError, Trying
<1>9. ASSUME NEW c \in Clients, Leave(c) PROVE Facts'
  BY <1>9 DEF Leave
<1>10. ASSUME NEW c \in Clients, Clear(c) PROVE Facts'
  BY <1>10, SMTT(60) DEF Clear, Return, Victims
<1>11. ASSUME NEW c \in Clients, ClearError(c) PROVE Facts'
  BY <1>11 DEF ClearError, Return
<1>12. ASSUME NEW c \in Clients, BodyError(c) PROVE Facts'
  BY <1>12 DEF BodyError
<1>13. CASE UNCHANGED vars
  BY <1>13 DEF vars
<1> QED
  BY <1>1, <1>2, <1>3, <1>4, <1>5, <1>6, <1>7, <1>8, <1>9, <1>10, <1>11, <1>12, <1>13
     DEF Next, Progress

\* The invariant holds throughout.
THEOREM Invariance == Spec => []IInv
<1>1. Init => IInv
  BY InitInv
<1>2. IInv /\ [Next]_vars => IInv'
  BY StepInv
<1> QED
  BY <1>1, <1>2, PTL DEF Spec

\* Types, for any number of clients.
THEOREM TypeCorrect == Spec => []TypeOK
<1>1. IInv => TypeOK
  BY DEF IInv
<1> QED
  BY Invariance, <1>1, PTL

\* Two holders that were never robbed would both have their ticket, and
\* tickets are unique, in the one semaphore.
THEOREM Exclusion == Spec => []MutualExclusion
<1>1. IInv => MutualExclusion
  <2> SUFFICES ASSUME IInv, NEW c \in Holders, NEW d \in Holders, c # d,
                      c \notin robbed, d \notin robbed
               PROVE  FALSE
    BY DEF MutualExclusion
  <2>1. c \in Clients /\ d \in Clients /\ Holding(c)
    BY DEF Holders
  <2>2. sem = ticket[c] /\ sem = ticket[d]
    BY DEF IInv, Facts, OwnTicketWhileHeld
  <2>3. ticket[c] # Free
    BY <2>1 DEF IInv, Facts, TicketDrawn
  <2> QED
    BY <2>1, <2>2, <2>3 DEF IInv, Facts, TicketsUnique
<1> QED
  BY Invariance, <1>1, PTL

\* A thread still polling holds no ticket that could be in the semaphore, so
\* the re-evaluated loop condition is true.
THEOREM NoStale == Spec => NoStaleAcquire
<1> DEFINE Step == \A c \in Clients : pc[c] = "poll" => pc'[c] # "cs"
<1>1. IInv /\ [Next]_vars => [Step]_vars
  <2> SUFFICES ASSUME IInv, Next, NEW c \in Clients, pc[c] = "poll"
               PROVE  pc'[c] # "cs"
    OBVIOUS
  <2>1. ticket[c] # Free => sem # ticket[c]
    BY DEF IInv, Facts, NoStaleClaim
  <2>2. PICK d \in Clients : Begin(d) \/ Progress(d) \/ ConfigError(d)
                            \/ BodyError(d) \/ ClearError(d)
    BY DEF Next
  <2>3. pc \in [Clients -> Steps]
    BY DEF IInv, TypeOK
  <2>4. CASE d # c
    <3>1. \E s \in Steps : pc' = [pc EXCEPT ![d] = s]
      BY <2>2 DEF Begin, Progress, PollTimeout, PollTaken, PollFree, ReadCounter,
         WriteTicket, ReadBack, ConfigError, BodyError, Leave, Clear, ClearError, Return,
         Goto, Steps
    <3> QED
      BY <2>3, <2>4, <3>1
  <2>5. CASE d = c
    BY <2>1, <2>2, <2>3, <2>5 DEF Begin, Progress, PollTimeout, PollTaken, PollFree,
       ReadCounter, WriteTicket, ReadBack, ConfigError, BodyError, Leave, Clear, ClearError,
       Return, Goto
  <2> QED
    BY <2>4, <2>5
<1> QED
  BY Invariance, <1>1, PTL DEF Spec, NoStaleAcquire

\* A holder that was not robbed has its ticket in the semaphore, so when it
\* clears, nobody else's ticket is there to be lost.
THEOREM LosersRob == Spec => OnlyLosersRob
<1> DEFINE Step == \A d \in robbed' \ robbed : \E c \in Clients \ {d} :
                     pc[c] = "clear" /\ (c \in failed \/ c \in robbed)
<1>1. IInv /\ [Next]_vars => [Step]_vars
  <2> SUFFICES ASSUME IInv, Next, NEW d \in robbed' \ robbed
               PROVE  \E c \in Clients \ {d} :
                         pc[c] = "clear" /\ (c \in failed \/ c \in robbed)
    OBVIOUS
  <2>1. PICK c \in Clients : Clear(c)
    BY DEF Next, Progress, Begin, PollTimeout, PollTaken, PollFree, ReadCounter,
       WriteTicket, ReadBack, ConfigError, BodyError, Leave, ClearError
  <2>2. pc[c] = "clear" /\ d \in Holders /\ d # c /\ ticket[d] = sem
    BY <2>1 DEF Clear, Victims
  <2>3. ticket[d] # Free /\ d \in Clients
    BY <2>2 DEF IInv, Facts, TicketDrawn, Holders
  <2>4. ASSUME c \notin failed, c \notin robbed PROVE FALSE
    <3>1. sem = ticket[c]
      BY <2>2, <2>4 DEF IInv, Facts, OwnTicketWhileHeld, Holders, Holding
    <3> QED
      BY <2>2, <2>3, <3>1 DEF IInv, Facts, TicketsUnique
  <2> QED
    BY <2>2, <2>4
<1> QED
  BY Invariance, <1>1, PTL DEF Spec, OnlyLosersRob


----------------------------------------------------------------------------
(* The semaphore implements the revocable lock. *)

Losers == {c \in Clients : pc[c] = "clear" /\ c \in failed}

\* The steps of a client that neither lock nor leave are invisible.
LEMMA Invisible ==
  ASSUME IInv, NEW c \in Clients,
         Begin(c) \/ PollFree(c) \/ ReadCounter(c) \/ WriteTicket(c) \/ Leave(c) \/ BodyError(c)
  PROVE  UNCHANGED <<Holders, robbed, Losers>>
<1> USE DEF IInv, TypeOK, Facts, Bookkeeping, Holders, Holding, Losers, Goto, Steps
<1>1. CASE Begin(c)
  BY <1>1 DEF Begin
<1>2. CASE PollFree(c)
  BY <1>2 DEF PollFree
<1>3. CASE ReadCounter(c)
  BY <1>3 DEF ReadCounter
<1>4. CASE WriteTicket(c)
  BY <1>4 DEF WriteTicket
<1>5. CASE Leave(c)
  BY <1>5 DEF Leave
<1>6. CASE BodyError(c)
  BY <1>6 DEF BodyError
<1> QED
  BY <1>1, <1>2, <1>3, <1>4, <1>5, <1>6

\* A client that finds its ticket in the semaphore is the only holder left
\* with one.
LEMMA AcquireMaps ==
  ASSUME IInv, NEW c \in Clients, ReadBack(c), sem = ticket[c]
  PROVE  Lock!Acquire(c)
<1>1. pc[c] = "check" /\ pc' = [pc EXCEPT ![c] = "cs"] /\ UNCHANGED <<failed, robbed>>
  BY DEF ReadBack, Goto
<1>2. c \notin Holders \cup Losers
  BY <1>1 DEF Holders, Holding, Losers
<1>3. Holders \subseteq robbed
  <2> SUFFICES ASSUME NEW d \in Holders, d \notin robbed PROVE FALSE
    OBVIOUS
  <2>1. sem = ticket[d] /\ ticket[c] # Free /\ d # c /\ d \in Clients
    BY <1>1, <1>2 DEF IInv, Facts, OwnTicketWhileHeld, TicketDrawn, Holders
  <2> QED
    BY <2>1 DEF IInv, Facts, TicketsUnique
<1>4. Holders' = Holders \cup {c} /\ Losers' = Losers
  BY <1>1 DEF IInv, TypeOK, Facts, Bookkeeping, Holders, Holding, Losers
<1> QED
  BY <1>1, <1>2, <1>3, <1>4 DEF Lock!Acquire, Losers

\* A failed attempt becomes a loser.
LEMMA LoseMaps ==
  ASSUME IInv, NEW c \in Clients, PollTimeout(c) \/ ConfigError(c)
  PROVE  Lock!Lose(c)
<1>1. /\ Trying(c) /\ pc' = [pc EXCEPT ![c] = "clear"]
      /\ failed' = failed \cup {c} /\ robbed' = robbed
  BY DEF PollTimeout, ConfigError, Trying, Goto
<1>2. c \notin Holders \cup Losers
  BY <1>1 DEF Holders, Holding, Losers, Trying
<1>3. Holders' = Holders /\ Losers' = Losers \cup {c}
  BY <1>1 DEF IInv, TypeOK, Facts, Bookkeeping, Holders, Holding, Losers, Trying
<1> QED
  BY <1>1, <1>2, <1>3 DEF Lock!Lose, Losers

\* A clear, whether or not its write succeeds: a loser withdraws and may
\* revoke every holder, a holder releases and, if it was robbed, may revoke.
LEMMA ClearMaps ==
  ASSUME IInv, NEW c \in Clients, Clear(c) \/ ClearError(c)
  PROVE  Lock!Withdraw(c) \/ Lock!Release(c)
<1>1. pc[c] = "clear" /\ pc' = [pc EXCEPT ![c] = "idle"] /\ failed' = failed \ {c}
  BY DEF Clear, ClearError, Return, Goto
<1>2. Holders' = Holders \ {c} /\ Losers' = Losers \ {c}
  BY <1>1 DEF IInv, TypeOK, Facts, Bookkeeping, Holders, Holding, Losers
<1>3. robbed \subseteq Holders
  BY DEF IInv, TypeOK, Facts, Bookkeeping, Holders
<1>4. \A d \in Holders : d \notin robbed => ticket[d] = sem
  BY DEF IInv, Facts, OwnTicketWhileHeld
<1>5. robbed' = robbed \ {c} \/ robbed' = Holders \ {c}
  <2>1. CASE ClearError(c)
    BY <2>1 DEF ClearError
  <2>2. CASE Clear(c)
    BY <2>2, <1>3, <1>4 DEF Clear, Victims
  <2> QED
    BY <2>1, <2>2
<1>6. CASE c \in failed
  <2>1. c \notin Holders /\ c \notin robbed /\ c \in Losers
    BY <1>1, <1>3, <1>6 DEF Holders, Holding, Losers
  <2> QED
    BY <1>2, <1>5, <2>1 DEF Lock!Withdraw, Losers
<1>7. CASE c \notin failed
  <2>1. c \in Holders /\ c \notin Losers
    BY <1>1, <1>7 DEF Holders, Holding, Losers
  <2>2. CASE c \in robbed
    BY <1>2, <1>5, <2>1, <2>2 DEF Lock!Release, Losers
  <2>3. CASE c \notin robbed
    <3>1. Holders \ {c} \subseteq robbed
      <4> SUFFICES ASSUME NEW d \in Holders, d # c, d \notin robbed PROVE FALSE
        OBVIOUS
      <4>1. ticket[d] = sem /\ ticket[c] = sem /\ ticket[c] # Free /\ d \in Clients
        BY <1>4, <2>1, <2>3 DEF IInv, Facts, TicketDrawn, Holders
      <4> QED
        BY <4>1 DEF IInv, Facts, TicketsUnique
    <3>2. robbed' = robbed \ {c}
      BY <1>3, <1>5, <2>3, <3>1
    <3> QED
      BY <1>2, <2>1, <3>2 DEF Lock!Release, Losers
  <2> QED
    BY <2>2, <2>3
<1> QED
  BY <1>6, <1>7

\* The ticket protocol implements the revocable lock: what a transaction may
\* rely on is exactly what RevocableLock says, for any number of clients.
THEOREM Refinement == Spec => RefinesRevocableLock
<1>1. Init => Lock!Init
  BY DEF Init, Lock!Init, Holders, Holding
<1>2. IInv /\ [Next]_vars => [Lock!Next]_(Lock!vars)
  <2> SUFFICES ASSUME IInv, [Next]_vars PROVE [Lock!Next]_(Lock!vars)
    OBVIOUS
  <2>v. UNCHANGED <<Holders, robbed, Losers>> => UNCHANGED Lock!vars
    BY DEF Lock!vars, Losers
  <2>1. ASSUME NEW c \in Clients,
               Begin(c) \/ PollFree(c) \/ ReadCounter(c) \/ WriteTicket(c) \/ Leave(c) \/ BodyError(c)
        PROVE  UNCHANGED Lock!vars
    BY <2>1, <2>v, Invisible
  <2>2. ASSUME NEW c \in Clients, PollTaken(c) PROVE UNCHANGED Lock!vars
    <3>1. pc[c] = "poll" /\ sem # Free /\ (ticket[c] # Free => sem # ticket[c])
      BY <2>2 DEF PollTaken, IInv, Facts, NoStaleClaim
    <3>2. pc' = [pc EXCEPT ![c] = "poll"] /\ UNCHANGED <<failed, robbed>>
      BY <2>2, <3>1 DEF PollTaken, Goto
    <3>3. pc' = pc
      BY <3>1, <3>2 DEF IInv, TypeOK
    <3> QED
      BY <3>2, <3>3, <2>v DEF Holders, Holding, Losers
  <2>3. ASSUME NEW c \in Clients, ReadBack(c) PROVE [Lock!Next]_(Lock!vars)
    <3>1. CASE sem = ticket[c]
      BY <2>3, <3>1, AcquireMaps DEF Lock!Next
    <3>2. CASE sem # ticket[c]
      BY <2>3, <3>2, <2>v DEF ReadBack, Goto, IInv, TypeOK, Holders, Holding, Losers
    <3> QED
      BY <3>1, <3>2
  <2>4. ASSUME NEW c \in Clients, PollTimeout(c) \/ ConfigError(c) PROVE Lock!Next
    BY <2>4, LoseMaps DEF Lock!Next
  <2>5. ASSUME NEW c \in Clients, Clear(c) \/ ClearError(c) PROVE Lock!Next
    BY <2>5, ClearMaps DEF Lock!Next
  <2>6. CASE UNCHANGED vars
    BY <2>6, <2>v DEF vars, Holders, Holding, Losers
  <2> QED
    BY <2>1, <2>2, <2>3, <2>4, <2>5, <2>6 DEF Next, Progress
<1> QED
  BY Invariance, <1>1, <1>2, PTL DEF Spec, RefinesRevocableLock, Lock!Spec

=============================================================================
