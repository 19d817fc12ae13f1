--------------------------- MODULE MCRegisterPipe ---------------------------
(* The instance: see the cfg for its bounds. *)
EXTENDS RegisterPipe
=============================================================================
