----------------------------- MODULE MCPcmRing -----------------------------
(***************************************************************************)
(* PcmRing on small rings.  LongMod stands for 2^32 or 2^64: a multiple of *)
(* every buffer where the wrap of hw_ptr is not the question, and a number *)
(* that the buffer does not divide where it is.                            *)
(***************************************************************************)
EXTENDS PcmRing

\* Playback: two periods and a bit, whole URBs that do not divide the period;
\* three periods of one URB each.
\* Capture: IN URBs of any length up to three quarters of a period, or to a
\* whole one with exactly two periods in the buffer.
MCRings == {[direction |-> "playback", buffer |-> 9, period |-> 4, urb |-> 3],
            [direction |-> "playback", buffer |-> 12, period |-> 4, urb |-> 4],
            [direction |-> "capture", buffer |-> 9, period |-> 4, urb |-> 3],
            [direction |-> "capture", buffer |-> 8, period |-> 4, urb |-> 4]}

\* A buffer that does not divide 2^BITS_PER_LONG.
MCOddRing == {[direction |-> "capture", buffer |-> 12, period |-> 4, urb |-> 4]}
=============================================================================
