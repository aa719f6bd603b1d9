----------------------------- MODULE MCDmaPages -----------------------------
(* The instance of DmaPages that TLC checks. *)
EXTENDS DmaPages, TLC

CONSTANTS u1, u2

\* Two buffers that share a page; one of them holds a page twice.
MCBuffer == (u1 :> [k \in Index |-> <<"a", "b", "c">>[k + 1]])
         @@ (u2 :> [k \in Index |-> <<"c", "d", "d">>[k + 1]])
=============================================================================
