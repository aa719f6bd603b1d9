----------------------------- MODULE MCPpcReset -----------------------------
(* The instance of PpcReset that TLC checks. *)
EXTENDS PpcReset, TLC

CONSTANTS a0, a1, b0, x0

\* Two functions of one card, a card of another model, and a second card of
\* the first model.
MCId == (a0 :> "cx5") @@ (a1 :> "cx5") @@ (b0 :> "cx6") @@ (x0 :> "cx5")
MCSlot == (a0 :> "a") @@ (a1 :> "a") @@ (b0 :> "b") @@ (x0 :> "x")

\* Three listed devices, the last of which shows in wait_for_response whether
\* it is polled; x0 is probed too, and not listed.
MCRequested == <<a0, a1, b0>>

\* Two cards of one model.
MCSameModel == <<a0, x0>>
============================================================================
