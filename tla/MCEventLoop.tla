---------------------------- MODULE MCEventLoop ----------------------------
(* The event loop of webserv with few addresses, for TLC. *)
EXTENDS EventLoop, TLC

\* Addresses are interchangeable, where no liveness is checked.
Addresses == Permutations(Ctx)

=============================================================================
