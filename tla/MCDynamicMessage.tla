-------------------------- MODULE MCDynamicMessage --------------------------
(***************************************************************************)
(* Instances of DynamicMessage: two connections that send the same keys    *)
(* for one or two messages again and again, with one lock object more than *)
(* is in use at a time, so that the object of a message changes.           *)
(***************************************************************************)
EXTENDS DynamicMessage
=============================================================================
