------------------------------ MODULE MCRekey -------------------------------
(* Constants only: every bound is given in the configuration.               *)
EXTENDS Rekey
=============================================================================
