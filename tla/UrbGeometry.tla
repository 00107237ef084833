---------------------------- MODULE UrbGeometry ----------------------------
(***************************************************************************)
(* The arithmetic that sizes a streaming session: which USB speed a sample *)
(* rate needs, how many frames one URB carries, how many URBs are in       *)
(* flight, and the shortest period the other direction may then use.       *)
(*                                                                         *)
(* The functions are pure.  They read three module parameters, constants   *)
(* here, which probe() has clamped before any of these functions runs.     *)
(***************************************************************************)
EXTENDS Integers

CONSTANTS
    FramesPerUrb,  \* chip->frames_per_urb: the largest URB, in frames
    UrbFramesMin,  \* chip->urb_frames_min: the smallest URB, in frames
    NUrbs,         \* chip->nurbs: the most URBs in flight per direction
    UrbSplit       \* urb_split: 1 never, 2 (and above) always, 0 (and below)
                   \* decides by the period

\* What babyface_probe()'s clamps leave of the module parameters.
ASSUME GeometryAssumption ==
    /\ FramesPerUrb \in 8..1024 /\ FramesPerUrb % 8 = 0
    /\ UrbFramesMin \in 8..1024 /\ UrbFramesMin % 8 = 0
    /\ UrbFramesMin <= FramesPerUrb
    /\ NUrbs \in 2..16
    /\ UrbSplit \in 0..2

----------------------------------------------------------------------------
\* The rate table.  The alternate setting is the speed: alt 1/2/3 carries
\* x1/x2/x4 rates in packets of 8/16/32 frames of 56/40/32 bytes.

BfRates == {32000, 44100, 48000, 64000, 88200, 96000, 128000, 176400, 192000}

BfAlt(rate) == IF rate <= 48000 THEN 1 ELSE IF rate <= 96000 THEN 2 ELSE 3

BfFrameBytes(rate) == CASE BfAlt(rate) = 1 -> 56
                        [] BfAlt(rate) = 2 -> 40
                        [] BfAlt(rate) = 3 -> 32

MinFpu(rate) == CASE BfAlt(rate) = 1 -> 8
                  [] BfAlt(rate) = 2 -> 16
                  [] BfAlt(rate) = 3 -> 32

----------------------------------------------------------------------------
\* The kernel's integer helpers.

RoundDown(x, m) == (x \div m) * m
RoundUp(x, m) == ((x + m - 1) \div m) * m
DivRoundUp(x, m) == (x + m - 1) \div m
Clamp(x, lo, hi) == IF x < lo THEN lo ELSE IF x > hi THEN hi ELSE x

----------------------------------------------------------------------------
\* Largest and smallest URB of a rate: whole packets between the parameters.
UrbHi(rate) == RoundDown(FramesPerUrb, MinFpu(rate))
UrbLo(rate) == RoundUp(IF UrbFramesMin > MinFpu(rate)
                       THEN UrbFramesMin ELSE MinFpu(rate), MinFpu(rate))

\* Does the session split its period into two URBs?
BfSplitPeriod(rate, period) ==
    \/ UrbSplit = 2
    \/ /\ UrbSplit = 0
       /\ period \in 128..256
       /\ (period \div 2) * 750 >= rate

\* Mutant: half of an odd number of packets, not rounded.
BfUrbFramesOddHalf(rate, period) ==
    LET whole == RoundDown(period \div DivRoundUp(period, UrbHi(rate)), MinFpu(rate))
        urb   == Clamp(IF BfSplitPeriod(rate, period) THEN whole \div 2 ELSE whole,
                       UrbLo(rate), UrbHi(rate))
    IN  IF UrbHi(rate) = 0 \/ UrbLo(rate) > UrbHi(rate) \/ urb > period THEN 0 ELSE urb

\* Mutant: a URB below the minimum refuses the period.
BfUrbFramesRefuses(rate, period) ==
    LET whole == RoundDown(period \div DivRoundUp(period, UrbHi(rate)), MinFpu(rate))
    IN  IF UrbHi(rate) = 0 \/ whole < UrbLo(rate) THEN 0 ELSE whole

\* The URB size for a rate and a period; 0 when no whole packet fits.
BfUrbFrames(rate, period) ==
    LET pkt   == MinFpu(rate)
        hi    == UrbHi(rate)
        lo    == UrbLo(rate)
        whole == RoundDown(period \div DivRoundUp(period, hi), pkt)
        half  == RoundDown(whole \div 2, pkt)
        urb   == Clamp(IF BfSplitPeriod(rate, period) THEN half ELSE whole,
                       lo, hi)
    IN  IF hi = 0 \/ lo > hi \/ period < pkt \/ urb > period THEN 0 ELSE urb

\* Mutant: a URB begun counts as one more that fits.
UrbCountRoundsUp(rate, period, urb) == Clamp(2 * DivRoundUp(period, urb), 2, NUrbs)

\* The URBs in flight that hw_params chooses for a period of URBs of size urb.
UrbCount(rate, period, urb) ==
    LET n == 2 * (period \div urb)
    IN  Clamp(IF BfSplitPeriod(rate, period) THEN n - 1 ELSE n, 2, NUrbs)

\* The shortest period that still spans half the queue of a session.
BfSessionPeriod(urb, n) == urb * DivRoundUp(n, 2)

\* The fixed delay inside the device, in frames, and what runtime->delay adds
\* to it: the OUT URBs still queued behind the one being played, or the
\* frames recorded since the last IN completion (moved, at most one URB).
BfDeviceDelay(stream, rate) ==
    IF stream = "playback"
    THEN CASE BfAlt(rate) = 1 -> 40 [] BfAlt(rate) = 2 -> 72 [] BfAlt(rate) = 3 -> 136
    ELSE CASE BfAlt(rate) = 1 -> 16 [] BfAlt(rate) = 2 -> 24 [] BfAlt(rate) = 3 -> 38

\* Mutant: the time since the last completion is not capped at one URB.
BfDelayUncapped(stream, rate, urb, inflight, elapsed) ==
    IF stream = "playback" /\ inflight < 2 THEN 0
    ELSE (inflight - 1) * urb - elapsed + BfDeviceDelay(stream, rate)

BfDelay(stream, rate, urb, inflight, elapsed) ==
    LET moved == IF elapsed > urb THEN urb ELSE elapsed
    IN  CASE stream = "capture" -> moved + BfDeviceDelay(stream, rate)
          [] stream = "playback" /\ inflight < 2 -> 0
          [] stream = "playback" /\ inflight >= 2 ->
                (inflight - 1) * urb - moved + BfDeviceDelay(stream, rate)

----------------------------------------------------------------------------
\* What a session relies on, for one rate and one period.

\* A URB is a whole number of the device's packets (a shorter buffer babbles),
\* within the two parameters, and no longer than the period: a completion
\* crosses at most one period boundary.
UrbIsWhole(rate, period) ==
    LET urb == BfUrbFrames(rate, period)
    IN  urb # 0 => /\ urb % MinFpu(rate) = 0
                   /\ urb \in UrbLo(rate)..UrbHi(rate)
                   /\ urb <= period

\* The session a period gets is one that this period fits, so the direction
\* that chose the geometry always passes its own prepare(); and two of its
\* periods cover the queue, so no buffer (at least two periods) is queued
\* beyond its end.
QueueFits(rate, period) ==
    LET urb == BfUrbFrames(rate, period)
        n   == UrbCount(rate, period, urb)
    IN  urb # 0 => /\ BfSessionPeriod(urb, n) <= period
                   /\ urb * n <= 2 * period
                   /\ n \in 2..NUrbs

\* A period that a rate refuses is refused because not even one packet, or
\* not the smallest URB, fits in it; every longer period is served.
RefusedOnlyIfTooShort(rate, period) ==
    BfUrbFrames(rate, period) = 0
        <=> UrbLo(rate) > UrbHi(rate) \/ period < UrbLo(rate)

\* Words of 4 bytes that probe() allocates for one frame: a capture frame of
\* the lowest speed has the most.  (Mutant: the playback frame's.)
BfWordsPerFramePlayback == 12
BfWordsPerFrame == 14

\* A URB of frames of the rate's size never exceeds the buffer that probe()
\* allocated for it: frames_per_urb frames of BF_WORDS_PER_FRAME words.
UrbFitsBuffer(rate, period) ==
    BfUrbFrames(rate, period) * BfFrameBytes(rate)
        <= FramesPerUrb * BfWordsPerFrame * 4

\* The reported delay is never negative (the code computes it in unsigned
\* arithmetic), whatever was elapsed and however many URBs are left, and
\* never more than the queue plus the converters.
DelayIsBounded(rate, period) ==
    LET urb == BfUrbFrames(rate, period)
        n   == UrbCount(rate, period, urb)
    IN  urb # 0 => \A inflight \in 0..n, elapsed \in {0, urb - 1, urb, 2 * urb} :
            BfDelay("playback", rate, urb, inflight, elapsed)
                \in 0..((n - 1) * urb + BfDeviceDelay("playback", rate))
=============================================================================
