---------------------------- MODULE MCIpcSystem ----------------------------
(* Instantiation of IpcSystem for TLC. *)
EXTENDS IpcSystem

MCServices == {"svcA", "svcB"}

=============================================================================
