----------------------------- MODULE Registers -----------------------------
(***************************************************************************)
(* What the models of the unit's registers have in common.                 *)
(***************************************************************************)
EXTENDS Integers

\* A register that lost its value, or whose last write failed: a transfer that
\* timed out may have been executed.  No register has this value.
Unknown == -1000

\* The same for a register modelled as the set of its bits.
UnknownBits == {"unknown"}
=============================================================================
