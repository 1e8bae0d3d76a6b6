----------------------------- MODULE MCEventLoop ------------------------------
(* The event loop for TLC: descriptors are model values. *)
EXTENDS EventLoop
===============================================================================
