-------------------------- MODULE MCStreamSession --------------------------
(***************************************************************************)
(* StreamSession on small instances.  Applications are interchangeable.    *)
(***************************************************************************)
EXTENDS StreamSession, TLC

AppSymmetry == Permutations(Apps)
=============================================================================
