----------------------------- MODULE MCFlapWire -----------------------------
(* FlapWire on small instances. *)
EXTENDS FlapWire

CONSTANTS t1, t2
=============================================================================
