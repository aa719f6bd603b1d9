-------------------------- MODULE MCIoctlDispatch --------------------------
(* The instance of IoctlDispatch that TLC checks. *)
EXTENDS IoctlDispatch, TLC

CONSTANTS f1, f2, m1

\* Two files on one minor number: both may end up on one device, and INIT
\* can give two devices that number.
MCMinorOf == (f1 :> m1) @@ (f2 :> m1)
============================================================================
