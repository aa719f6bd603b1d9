--------------------------- MODULE VsecSemaphore ---------------------------
(***************************************************************************)
(* The ticket semaphore in the vendor specific capability (VSEC) of a      *)
(* device, as lock_vsec_semaphore, get_semaphore_ticket and                *)
(* clear_vsec_semaphore in nnt_driver/nnt_pci_conf_access.c use it.        *)
(*                                                                         *)
(* The clients are the threads that enter read_pciconf, write_pciconf or   *)
(* read_dword of one device: any number of them, in either kernel module   *)
(* and in user space tools, so no kernel mutex orders them.  Every step is *)
(* one config space access.  The bodies that run between lock and clear    *)
(* are the module VsecGateway; here they are the state "cs".               *)
(*                                                                         *)
(* The hardware is external.  The counter register hands out tickets that  *)
(* differ from every ticket still in use (32 bits, so it does not wrap     *)
(* within an attempt); the semaphore takes a ticket only while it is free, *)
(* and writing zero frees it whoever wrote.                                *)
(***************************************************************************)
EXTENDS Integers

CONSTANTS
  Clients,      \* threads that use the semaphore of this device
  Tickets,      \* the nonzero values of the counter register
  Free,         \* the value zero
  MaxRetries,   \* SEMAPHORE_MAX_RETRIES
  MaxFaults     \* bound on the config space accesses that fail

ASSUME FreeAssumption == Free \notin Tickets
ASSUME BoundsAssumption == MaxRetries \in Nat /\ MaxFaults \in Nat

VARIABLES
  sem,       \* the semaphore register
  pc,        \* where each client is in lock / body / clear
  ticket,    \* each client's local "counter" in lock_vsec_semaphore
  retries,   \* each client's local "retries"
  failed,    \* clients whose lock_vsec_semaphore returned an error
  robbed,    \* history: holders whose semaphore another client cleared
  faults     \* number of failed config accesses so far

vars == <<sem, pc, ticket, retries, failed, robbed, faults>>

Steps == {"idle", "poll", "ticket", "claim", "check", "cs", "clear"}

TypeOK ==
  /\ sem \in Tickets \cup {Free}
  /\ pc \in [Clients -> Steps]
  /\ ticket \in [Clients -> Tickets \cup {Free}]
  /\ retries \in [Clients -> 0..(MaxRetries + 1)]
  /\ failed \subseteq Clients
  /\ robbed \subseteq Clients
  /\ faults \in 0..MaxFaults

Init ==
  /\ sem = Free
  /\ pc = [c \in Clients |-> "idle"]
  /\ ticket = [c \in Clients |-> Free]
  /\ retries = [c \in Clients |-> 0]
  /\ failed = {}
  /\ robbed = {}
  /\ faults = 0

\* Inside lock_vsec_semaphore.
Trying(c) == pc[c] \in {"poll", "ticket", "claim", "check"}

\* lock_vsec_semaphore returned 0 and the clear has not been written yet.
Holding(c) == pc[c] = "cs" \/ (pc[c] = "clear" /\ c \notin failed)

Holders == {c \in Clients : Holding(c)}

----------------------------------------------------------------------------
(* lock_vsec_semaphore *)

Goto(c, step) == pc' = [pc EXCEPT ![c] = step]

RetriesLeft(c) == retries[c] <= MaxRetries

Begin(c) ==
  /\ pc[c] = "idle"
  /\ Goto(c, "poll")
  /\ retries' = [retries EXCEPT ![c] = 0]
  /\ UNCHANGED <<sem, ticket, failed, robbed, faults>>

\* Wrong variant: returns at once instead of through ReturnOnFinished.
PollTimeoutKeeps(c) ==
  /\ pc[c] = "poll"
  /\ ~RetriesLeft(c)
  /\ Goto(c, "idle")
  /\ UNCHANGED <<sem, ticket, retries, failed, robbed, faults>>

\* The retries are used up: -EINVAL, and the caller goes on to clear.
PollTimeout(c) ==
  /\ pc[c] = "poll"
  /\ ~RetriesLeft(c)
  /\ Goto(c, "clear")
  /\ failed' = failed \cup {c}
  /\ UNCHANGED <<sem, ticket, retries, robbed, faults>>

\* Wrong variant: retries is not incremented.
PollTakenUncounted(c) ==
  /\ pc[c] = "poll"
  /\ RetriesLeft(c)
  /\ sem # Free
  /\ UNCHANGED vars

\* Wrong variant: "break" for "continue".
PollTakenBreaks(c) ==
  /\ pc[c] = "poll"
  /\ RetriesLeft(c)
  /\ sem # Free
  /\ Goto(c, "cs")
  /\ UNCHANGED <<sem, ticket, retries, failed, robbed, faults>>

\* The semaphore is taken.  "continue" evaluates the loop's condition, so
\* the attempt would end here if the ticket of an earlier, lost claim were
\* in the semaphore.
PollTaken(c) ==
  /\ pc[c] = "poll"
  /\ RetriesLeft(c)
  /\ sem # Free
  /\ retries' = [retries EXCEPT ![c] = @ + 1]
  /\ Goto(c, IF ticket[c] = sem THEN "cs" ELSE "poll")
  /\ UNCHANGED <<sem, ticket, failed, robbed, faults>>

PollFree(c) ==
  /\ pc[c] = "poll"
  /\ RetriesLeft(c)
  /\ sem = Free
  /\ Goto(c, "ticket")
  /\ UNCHANGED <<sem, ticket, retries, failed, robbed, faults>>

TicketsInUse == {ticket[d] : d \in Clients} \cup {sem}

ReadCounter(c) ==
  /\ pc[c] = "ticket"
  /\ \E t \in Tickets \ TicketsInUse : ticket' = [ticket EXCEPT ![c] = t]
  /\ Goto(c, "claim")
  /\ UNCHANGED <<sem, retries, failed, robbed, faults>>

\* What the semaphore register does with a ticket written to it.
SemaphoreAfter(t) == IF sem = Free THEN t ELSE sem

WriteTicket(c) ==
  /\ pc[c] = "claim"
  /\ sem' = SemaphoreAfter(ticket[c])
  /\ Goto(c, "check")
  /\ UNCHANGED <<ticket, retries, failed, robbed, faults>>

\* Wrong variant: the value read back is not compared with the ticket.
ReadBackUnchecked(c) ==
  /\ pc[c] = "check"
  /\ Goto(c, "cs")
  /\ UNCHANGED <<sem, ticket, retries, failed, robbed, faults>>

\* A claim that lost goes round again, and does not count as a retry.
ReadBack(c) ==
  /\ pc[c] = "check"
  /\ Goto(c, IF sem = ticket[c] THEN "cs" ELSE "poll")
  /\ UNCHANGED <<sem, ticket, retries, failed, robbed, faults>>

\* CHECK_PCI_READ_ERROR and CHECK_PCI_WRITE_ERROR leave the function.
ConfigError(c) ==
  /\ Trying(c)
  /\ faults < MaxFaults
  /\ pc[c] = "poll" => RetriesLeft(c)
  /\ faults' = faults + 1
  /\ Goto(c, "clear")
  /\ failed' = failed \cup {c}
  /\ UNCHANGED <<sem, ticket, retries, robbed>>

----------------------------------------------------------------------------
(* The callers: body, then ReturnOnFinished, which every path reaches *)

Leave(c) ==
  /\ pc[c] = "cs"
  /\ Goto(c, "clear")
  /\ UNCHANGED <<sem, ticket, retries, failed, robbed, faults>>

\* A config space access of the body fails, and the body is cut short.
BodyError(c) ==
  /\ pc[c] = "cs"
  /\ faults < MaxFaults
  /\ faults' = faults + 1
  /\ Goto(c, "clear")
  /\ UNCHANGED <<sem, ticket, retries, failed, robbed>>

\* The client is done with its attempt and the ticket it drew.
Return(c) ==
  /\ Goto(c, "idle")
  /\ ticket' = [ticket EXCEPT ![c] = Free]
  /\ retries' = [retries EXCEPT ![c] = 0]
  /\ failed' = failed \ {c}

\* The others whose ticket the semaphore holds when c clears it.
Victims(c) == {d \in Holders \ {c} : ticket[d] = sem}

Clear(c) ==
  /\ pc[c] = "clear"
  /\ sem' = Free
  /\ robbed' = (robbed \cup Victims(c)) \ {c}
  /\ Return(c)
  /\ UNCHANGED faults

\* The write of zero fails: its error is not looked at.
ClearError(c) ==
  /\ pc[c] = "clear"
  /\ faults < MaxFaults
  /\ faults' = faults + 1
  /\ robbed' = robbed \ {c}
  /\ Return(c)
  /\ UNCHANGED sem

----------------------------------------------------------------------------

\* The steps a running client goes on to take by itself.
Progress(c) ==
  \/ PollTimeout(c) \/ PollTaken(c) \/ PollFree(c)
  \/ ReadCounter(c) \/ WriteTicket(c) \/ ReadBack(c)
  \/ Leave(c) \/ Clear(c)

Next == \E c \in Clients :
  \/ Begin(c)
  \/ Progress(c)
  \/ ConfigError(c)
  \/ BodyError(c)
  \/ ClearError(c)

Spec == Init /\ [][Next]_vars

\* A kernel thread inside the driver is scheduled again; nothing obliges a
\* thread to enter it.
Fairness == \A c \in Clients : WF_vars(Progress(c))

FairSpec == Spec /\ Fairness

----------------------------------------------------------------------------
(* Properties *)

\* Two threads are inside a gateway transaction at once only after one of
\* them lost its semaphore to somebody else's clear (read_pciconf,
\* write_pciconf and read_dword clear even when they did not lock).
MutualExclusion ==
  \A c, d \in Holders : c # d => c \in robbed \/ d \in robbed

\* A thread that has not been robbed finds its own ticket in the semaphore
\* throughout its transaction, so its clear frees its own claim.
OwnTicketWhileHeld ==
  \A c \in Holders : c \notin robbed => sem = ticket[c]

\* The "continue" of the retry loop re-evaluates "counter != lock_value"
\* with the ticket of an earlier claim; it never ends the loop by mistake:
\* a transaction begins only by the read back of a fresh claim.
NoStaleAcquire ==
  [][\A c \in Clients : pc[c] = "poll" => pc'[c] # "cs"]_vars

\* Only the clear of a thread whose own attempt failed, or that was itself
\* robbed, breaks another thread's lock.
OnlyLosersRob ==
  [][\A d \in robbed' \ robbed : \E c \in Clients \ {d} :
        pc[c] = "clear" /\ (c \in failed \/ c \in robbed)]_vars

\* The lock promised to the transactions (module RevocableLock).
Lock == INSTANCE RevocableLock WITH
          holders <- Holders,
          revoked <- robbed,
          losers  <- {c \in Clients : pc[c] = "clear" /\ c \in failed}

RefinesRevocableLock == Lock!Spec

\* Whenever a thread is inside lock_vsec_semaphore, some thread's attempt
\* goes on to end: the threads cannot all spin for ever, whatever they write
\* over each other.  (One thread alone can: a lost race is not counted as a
\* retry, so others may keep winning, or keep clearing its claim.)
SomeAttemptEnds ==
  (\E c \in Clients : Trying(c)) ~> (\E d \in Clients : pc[d] \in {"cs", "clear"})

\* The semaphore holds a ticket nobody will clear.
Leaked == sem # Free /\ \A c \in Clients : ticket[c] # sem

\* A semaphore left taken by a clear that failed does not lock the device
\* up for ever: a thread that tries to lock it times out and clears it.
LeakRecovered ==
  \A c \in Clients :
    (Leaked /\ Trying(c) /\ faults = MaxFaults) ~> sem = Free
============================================================================
