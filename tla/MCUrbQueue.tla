----------------------------- MODULE MCUrbQueue -----------------------------
(***************************************************************************)
(* UrbQueue with a URB of each direction, whose handlers run on two CPUs.  *)
(***************************************************************************)
EXTENDS UrbQueue
=============================================================================
