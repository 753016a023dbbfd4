--------------------------- MODULE MCPopRootClient ---------------------------
(* Instantiation of PopRootClient for TLC. *)
EXTENDS PopRootClient

MCServices == {"svcA", "svcB"}
MCPopService == "svcA"

=============================================================================
