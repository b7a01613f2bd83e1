-------------------------- MODULE MCExceptionSla --------------------------
(* Instances of ExceptionSla for TLC. *)
EXTENDS ExceptionSla, TLC
CONSTANTS e1, e2
===========================================================================
