--------------------------- MODULE RevocableLock ---------------------------
(***************************************************************************)
(* What the VSEC semaphore promises to the code that brackets a gateway    *)
(* transaction with lock_vsec_semaphore and clear_vsec_semaphore, seen     *)
(* without config space, tickets or retries.                               *)
(*                                                                         *)
(* It is weaker than a mutex.  A client whose attempt to lock failed still *)
(* clears the semaphore on its way out, and that revokes the lock of the   *)
(* client that holds it.  A client may lock as soon as every holder left   *)
(* has been revoked; a client that locked and was never revoked never      *)
(* revokes anyone.                                                         *)
(***************************************************************************)
CONSTANT Clients

VARIABLES
  holders,   \* clients that locked and have not yet cleared
  revoked,   \* the holders whose semaphore another client cleared
  losers     \* clients whose attempt failed and that have not yet cleared

vars == <<holders, revoked, losers>>

TypeOK ==
  /\ holders \subseteq Clients
  /\ revoked \subseteq holders
  /\ losers \subseteq Clients \ holders

Init ==
  /\ holders = {}
  /\ revoked = {}
  /\ losers = {}

\* The lock is free once every remaining holder has been revoked.
Acquire(c) ==
  /\ c \notin holders \cup losers
  /\ holders \subseteq revoked
  /\ holders' = holders \cup {c}
  /\ UNCHANGED <<revoked, losers>>

\* A holder leaves.  Only one that was itself revoked can revoke the others.
Release(c) ==
  /\ c \in holders
  /\ holders' = holders \ {c}
  /\ \/ revoked' = revoked \ {c}
     \/ c \in revoked /\ revoked' = holders \ {c}
  /\ UNCHANGED losers

Lose(c) ==
  /\ c \notin holders \cup losers
  /\ losers' = losers \cup {c}
  /\ UNCHANGED <<holders, revoked>>

\* A loser leaves; the clear it owes, unless lost, revokes every holder.
Withdraw(c) ==
  /\ c \in losers
  /\ losers' = losers \ {c}
  /\ revoked' \in {revoked, holders}
  /\ UNCHANGED holders

Next == \E c \in Clients : Acquire(c) \/ Release(c) \/ Lose(c) \/ Withdraw(c)

Spec == Init /\ [][Next]_vars

\* At most one holder has not been revoked.
AtMostOneOwner ==
  \A c, d \in holders \ revoked : c = d
============================================================================
