-------------------------- MODULE MCVsecSemaphore --------------------------
(* The instance of VsecSemaphore that TLC checks. *)
EXTENDS VsecSemaphore, TLC

\* Threads are interchangeable, and so are ticket values: no definition of
\* VsecSemaphore compares them but for equality.  Only for runs without
\* liveness.
Symmetry == Permutations(Clients) \cup Permutations(Tickets)
============================================================================
