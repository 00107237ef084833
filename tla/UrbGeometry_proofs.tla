------------------------- MODULE UrbGeometry_proofs -------------------------
(***************************************************************************)
(* What the URB arithmetic guarantees for every value of the parameters,   *)
(* every rate and every period.                                            *)
(***************************************************************************)
EXTENDS UrbGeometry, TLAPS

\* Integer division by a positive number.
LEMMA Division ==
    ASSUME NEW x \in Nat, NEW m \in Nat \ {0}
    PROVE  /\ x \div m \in Nat
           /\ (x \div m) * m <= x
           /\ x < (x \div m) * m + m
  OBVIOUS

\* A part is no longer than the whole.
LEMMA PartIsNoLonger ==
    ASSUME NEW x \in Nat, NEW m \in Nat \ {0}
    PROVE  x \div m \in Nat /\ x \div m <= x
  <1>1. x \div m \in Nat /\ (x \div m) * m <= x
    BY Division
  <1>2. \A q \in Nat : q <= q * m
    OBVIOUS
  <1> QED  BY <1>1, <1>2

\* rounddown(): the largest multiple that does not exceed.
LEMMA RoundDownIsMultiple ==
    ASSUME NEW x \in Nat, NEW m \in {8, 16, 32}
    PROVE  /\ RoundDown(x, m) \in Nat
           /\ RoundDown(x, m) <= x
           /\ x - m < RoundDown(x, m)
           /\ RoundDown(x, m) % m = 0
  BY DEF RoundDown

\* roundup(): the smallest multiple that is not below.
LEMMA RoundUpIsMultiple ==
    ASSUME NEW x \in Nat, NEW m \in {8, 16, 32}
    PROVE  /\ RoundUp(x, m) \in Nat
           /\ RoundUp(x, m) >= x
           /\ RoundUp(x, m) % m = 0
  BY DEF RoundUp

\* DIV_ROUND_UP(): the fewest parts of size m.
LEMMA DivRoundUpCovers ==
    ASSUME NEW x \in Nat \ {0}, NEW m \in Nat \ {0}
    PROVE  /\ DivRoundUp(x, m) \in Nat \ {0}
           /\ DivRoundUp(x, m) * m >= x
  <1>1. x + m - 1 \in Nat
    OBVIOUS
  <1> QED  BY <1>1, Division DEF DivRoundUp

\* The packet sizes of the three speeds.
LEMMA PacketSizes ==
    ASSUME NEW rate \in BfRates
    PROVE  MinFpu(rate) \in {8, 16, 32}
  BY DEF BfRates, MinFpu, BfAlt

\* The bounds of a URB are whole packets, and the lower one is positive.
LEMMA UrbBounds ==
    ASSUME NEW rate \in BfRates
    PROVE  /\ UrbHi(rate) \in Nat /\ UrbHi(rate) % MinFpu(rate) = 0
           /\ UrbLo(rate) \in Nat /\ UrbLo(rate) % MinFpu(rate) = 0
           /\ UrbLo(rate) >= MinFpu(rate)
           /\ UrbHi(rate) <= FramesPerUrb
  <1> DEFINE pkt == MinFpu(rate)
             smallest == IF UrbFramesMin > pkt THEN UrbFramesMin ELSE pkt
  <1>1. pkt \in {8, 16, 32}
    BY PacketSizes
  <1>2. FramesPerUrb \in Nat /\ smallest \in Nat /\ smallest >= pkt
    BY <1>1, GeometryAssumption
  <1>3. UrbHi(rate) = RoundDown(FramesPerUrb, pkt)
    BY DEF UrbHi
  <1>4. UrbLo(rate) = RoundUp(smallest, pkt)
    BY DEF UrbLo
  <1> HIDE DEF pkt, smallest
  <1>5. /\ UrbHi(rate) \in Nat /\ UrbHi(rate) % pkt = 0
        /\ UrbHi(rate) <= FramesPerUrb
    <2>1. /\ RoundDown(FramesPerUrb, pkt) \in Nat
          /\ RoundDown(FramesPerUrb, pkt) <= FramesPerUrb
          /\ RoundDown(FramesPerUrb, pkt) % pkt = 0
      BY ONLY <1>1, <1>2, RoundDownIsMultiple
    <2> QED  BY ONLY <2>1, <1>3
  <1>6. UrbLo(rate) \in Nat /\ UrbLo(rate) % pkt = 0 /\ UrbLo(rate) >= pkt
    <2>1. /\ RoundUp(smallest, pkt) \in Nat
          /\ RoundUp(smallest, pkt) >= smallest
          /\ RoundUp(smallest, pkt) % pkt = 0
      BY ONLY <1>1, <1>2, RoundUpIsMultiple
    <2>2. UrbLo(rate) >= pkt
      BY ONLY <1>1, <1>2, <1>4, <2>1
    <2> QED  BY ONLY <2>1, <2>2, <1>4
  <1> QED
    BY <1>5, <1>6 DEF pkt

\* bf_urb_frames() answers with a number of frames, and a URB it does not
\* refuse is whole packets, within the parameters, and at most the period.
THEOREM WholeUrb ==
    ASSUME NEW rate \in BfRates, NEW period \in Nat \ {0}
    PROVE  /\ BfUrbFrames(rate, period) \in Nat
           /\ UrbIsWhole(rate, period)
  <1> DEFINE pkt   == MinFpu(rate)
             hi    == UrbHi(rate)
             lo    == UrbLo(rate)
             parts == DivRoundUp(period, hi)
             whole == RoundDown(period \div parts, pkt)
             half  == RoundDown(whole \div 2, pkt)
             asked == IF BfSplitPeriod(rate, period) THEN half ELSE whole
             urb   == Clamp(asked, lo, hi)
  <1>1. pkt \in {8, 16, 32} /\ hi \in Nat /\ lo \in Nat
        /\ hi % pkt = 0 /\ lo % pkt = 0
    BY PacketSizes, UrbBounds
  <1>2. CASE hi = 0 \/ lo > hi \/ period < pkt \/ urb > period
    <2>1. BfUrbFrames(rate, period) = 0
      BY <1>2 DEF BfUrbFrames
    <2> QED  BY <2>1 DEF UrbIsWhole
  <1>3. CASE ~(hi = 0 \/ lo > hi \/ period < pkt \/ urb > period)
    <2>1. parts \in Nat \ {0}
      BY <1>1, <1>3, DivRoundUpCovers
    <2>2. period \div parts \in Nat
      BY <2>1, Division
    <2>3. whole \in Nat /\ whole % pkt = 0
      BY <1>1, <2>2, RoundDownIsMultiple
    <2>4. half \in Nat /\ half % pkt = 0
      <3> HIDE DEF whole, pkt
      <3>1. whole \div 2 \in Nat
        BY <2>3, Division
      <3> QED  BY <1>1, <3>1, RoundDownIsMultiple
    <2>5. asked \in Nat /\ asked % pkt = 0
      BY <2>3, <2>4
    <2>6. urb \in lo..hi /\ urb % pkt = 0
      BY <1>1, <1>3, <2>5 DEF Clamp
    <2>7. BfUrbFrames(rate, period) = urb
      BY <1>3 DEF BfUrbFrames
    <2> QED  BY <1>1, <1>3, <2>6, <2>7 DEF UrbIsWhole
  <1> QED  BY <1>2, <1>3

\* hw_params: the queue chosen for a period is at least two URBs and at most
\* the parameter, the session period it makes is one the period fits, and two
\* periods cover it.
THEOREM QueueFitsItsPeriod ==
    ASSUME NEW rate \in BfRates, NEW period \in Nat \ {0}
    PROVE  QueueFits(rate, period)
  <1> DEFINE urb == BfUrbFrames(rate, period)
             q   == period \div urb
             n   == UrbCount(rate, period, urb)
  <1> SUFFICES ASSUME urb # 0
               PROVE  /\ BfSessionPeriod(urb, n) <= period
                      /\ urb * n <= 2 * period
                      /\ n \in 2..NUrbs
    BY DEF QueueFits
  <1>1. urb \in Nat \ {0} /\ urb <= period
    BY WholeUrb DEF UrbIsWhole
  <1>2. q \in Nat /\ q * urb <= period
    BY <1>1, Division
  <1>3. q >= 1
    <2>1. period < q * urb + urb
      BY <1>1, Division
    <2> HIDE DEF q, urb
    <2>2. CASE q = 0
      <3>1. q * urb = 0
        BY <1>1, <2>2
      <3> QED  BY <1>1, <2>1, <3>1
    <2> QED  BY <1>2, <2>2
  <1>4. n \in 2..NUrbs /\ n <= 2 * q
    BY <1>2, <1>3, GeometryAssumption DEF UrbCount, Clamp
  <1>5. DivRoundUp(n, 2) \in Nat /\ DivRoundUp(n, 2) <= q
    BY <1>2, <1>4, GeometryAssumption DEF DivRoundUp
  <1>6. urb * DivRoundUp(n, 2) <= urb * q
    BY <1>1, <1>2, <1>5
  <1>7. urb * n <= urb * (2 * q)
    BY <1>1, <1>2, <1>4, GeometryAssumption
  <1>8. q * urb = urb * q /\ urb * (2 * q) = 2 * (q * urb)
    BY <1>1, <1>2
  <1>9. BfSessionPeriod(urb, n) = urb * DivRoundUp(n, 2)
    BY DEF BfSessionPeriod
  <1> HIDE DEF q, urb, n
  <1>10. /\ q * urb \in Int /\ urb * DivRoundUp(n, 2) \in Int
         /\ urb * n \in Int
    BY <1>1, <1>2, <1>4, <1>5, GeometryAssumption
  <1> QED
    BY <1>1, <1>2, <1>4, <1>6, <1>7, <1>8, <1>9, <1>10

\* A period is refused exactly when not even the smallest URB fits in it, or
\* the parameters leave the rate no URB at all: the clamp to the smallest URB
\* never turns away a period that has room for one.
THEOREM OnlyTooShortIsRefused ==
    ASSUME NEW rate \in BfRates, NEW period \in Nat \ {0}
    PROVE  RefusedOnlyIfTooShort(rate, period)
  <1> DEFINE pkt   == MinFpu(rate)
             hi    == UrbHi(rate)
             lo    == UrbLo(rate)
             parts == DivRoundUp(period, hi)
             whole == RoundDown(period \div parts, pkt)
             half  == RoundDown(whole \div 2, pkt)
             asked == IF BfSplitPeriod(rate, period) THEN half ELSE whole
             urb   == Clamp(asked, lo, hi)
  <1>1. pkt \in {8, 16, 32} /\ hi \in Nat /\ lo \in Nat /\ lo >= pkt
    BY PacketSizes, UrbBounds
  <1>2. BfUrbFrames(rate, period)
          = IF hi = 0 \/ lo > hi \/ period < pkt \/ urb > period THEN 0 ELSE urb
    BY DEF BfUrbFrames
  <1>3. CASE lo > hi
    <2>1. BfUrbFrames(rate, period) = 0
      BY <1>2, <1>3
    <2> QED  BY <1>3, <2>1 DEF RefusedOnlyIfTooShort
  <1>4. CASE lo <= hi
    <2>1. hi # 0
      BY <1>1, <1>4
    <2>2. parts \in Nat \ {0}
      BY <1>1, <2>1, DivRoundUpCovers
    <2>3. period \div parts \in Nat /\ period \div parts <= period
      BY <2>2, PartIsNoLonger
    <2>4. whole \in Nat /\ whole <= period
      <3> HIDE DEF parts, pkt
      <3>1. whole \in Nat /\ whole <= period \div parts
        BY <1>1, <2>3, RoundDownIsMultiple
      <3> QED  BY <2>3, <3>1
    <2>5. half \in Nat /\ half <= whole
      <3> HIDE DEF whole, pkt
      <3>1. whole \div 2 \in Nat /\ whole \div 2 <= whole
        BY <2>4
      <3>2. half \in Nat /\ half <= whole \div 2
        BY <1>1, <3>1, RoundDownIsMultiple
      <3> QED  BY <2>4, <3>1, <3>2
    <2>6. asked \in Nat /\ asked <= period
      <3> HIDE DEF whole, half
      <3> QED  BY <2>4, <2>5
    <2> HIDE DEF asked, lo, hi, pkt
    <2>7. urb \in lo..hi /\ (urb > period <=> lo > period)
      BY <1>1, <1>4, <2>6 DEF Clamp
    <2> HIDE DEF urb
    <2>8. BfUrbFrames(rate, period) = 0 <=> period < lo
      BY <1>1, <1>2, <1>4, <2>1, <2>7
    <2> QED  BY <1>1, <1>4, <2>8 DEF RefusedOnlyIfTooShort, lo, hi
  <1> QED  BY <1>1, <1>3, <1>4

\* Every URB fits the DMA buffer that probe() allocated for it.
THEOREM BufferHoldsUrb ==
    ASSUME NEW rate \in BfRates, NEW period \in Nat \ {0}
    PROVE  UrbFitsBuffer(rate, period)
  <1> DEFINE urb == BfUrbFrames(rate, period)
  <1>1. urb \in Nat /\ urb <= FramesPerUrb
    <2>1. UrbHi(rate) \in Nat /\ UrbLo(rate) \in Nat /\ UrbHi(rate) <= FramesPerUrb
      BY UrbBounds
    <2>2. BfUrbFrames(rate, period) \in Nat /\ UrbIsWhole(rate, period)
      BY WholeUrb
    <2> QED  BY <2>1, <2>2, GeometryAssumption DEF UrbIsWhole
  <1>2. BfFrameBytes(rate) \in {56, 40, 32}
    BY DEF BfFrameBytes, BfAlt, BfRates
  <1> HIDE DEF urb
  <1>3. urb * BfFrameBytes(rate) <= FramesPerUrb * 56
    BY <1>1, <1>2, GeometryAssumption
  <1> QED  BY <1>3, GeometryAssumption DEF UrbFitsBuffer, BfWordsPerFrame, urb

\* A product grows with its factors.
LEMMA ProductGrows ==
    ASSUME NEW a \in Nat, NEW b \in Nat, NEW u \in Nat, a <= b
    PROVE  /\ a * u \in Nat /\ b * u \in Nat
           /\ a * u <= b * u
  OBVIOUS

\* bf_delay(): for any count of URBs in flight up to those submitted, and any
\* time since the last completion, the unsigned arithmetic does not wrap, and
\* the delay is at most the queue and the converters.
THEOREM DelayNeverWraps ==
    ASSUME NEW rate \in BfRates, NEW urb \in Nat \ {0}, NEW n \in Nat \ {0},
           NEW inflight \in 0..n, NEW elapsed \in Nat
    PROVE  BfDelay("playback", rate, urb, inflight, elapsed)
             \in 0..((n - 1) * urb + BfDeviceDelay("playback", rate))
  <1> DEFINE moved == IF elapsed > urb THEN urb ELSE elapsed
             dev   == BfDeviceDelay("playback", rate)
  <1>1. dev \in Nat
    BY DEF BfDeviceDelay, BfAlt, BfRates
  <1>2. moved \in 0..urb
    OBVIOUS
  <1>3. (n - 1) * urb \in Nat
    BY ProductGrows
  <1>4. CASE inflight < 2
    <2>1. BfDelay("playback", rate, urb, inflight, elapsed) = 0
      BY <1>4 DEF BfDelay
    <2> QED  BY <1>1, <1>3, <2>1
  <1>5. CASE inflight >= 2
    <2>1. BfDelay("playback", rate, urb, inflight, elapsed)
            = (inflight - 1) * urb - moved + dev
      BY <1>5 DEF BfDelay
    <2>2. /\ (inflight - 1) * urb \in Nat
          /\ (inflight - 1) * urb <= (n - 1) * urb
      BY <1>5, ProductGrows
    <2>3. 1 * urb <= (inflight - 1) * urb
      BY <1>5, ProductGrows
    <2> HIDE DEF moved, dev
    <2>4. (inflight - 1) * urb - moved + dev \in 0..((n - 1) * urb + dev)
      BY <1>1, <1>2, <1>3, <2>2, <2>3
    <2> QED  BY <2>1, <2>4 DEF dev
  <1> QED  BY <1>4, <1>5

\* So it is for the queue that hw_params chooses.
THEOREM DelayStaysBounded ==
    ASSUME NEW rate \in BfRates, NEW period \in Nat \ {0}
    PROVE  DelayIsBounded(rate, period)
  <1> DEFINE urb == BfUrbFrames(rate, period)
             n   == UrbCount(rate, period, urb)
  <1> SUFFICES ASSUME urb # 0, NEW inflight \in 0..n,
                      NEW elapsed \in {0, urb - 1, urb, 2 * urb}
               PROVE  BfDelay("playback", rate, urb, inflight, elapsed)
                        \in 0..((n - 1) * urb + BfDeviceDelay("playback", rate))
    BY DEF DelayIsBounded
  <1>1. urb \in Nat \ {0}
    BY WholeUrb
  <1>2. n \in Nat \ {0}
    BY QueueFitsItsPeriod, GeometryAssumption DEF QueueFits
  <1> HIDE DEF urb, n
  <1>3. elapsed \in Nat
    BY <1>1
  <1> QED  BY <1>1, <1>2, <1>3, DelayNeverWraps
=============================================================================
