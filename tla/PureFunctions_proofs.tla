------------------------ MODULE PureFunctions_proofs ------------------------
(***************************************************************************)
(* What the sweeps of MCPureFunctions show for their values, proved for    *)
(* every value: the geometry for all parameters, rates and periods, from   *)
(* the theorems of UrbGeometry_proofs; the curves for every crosspoint     *)
(* value and every master step, octave by octave and segment by segment;   *)
(* the table of controls for every long that an application may put and    *)
(* for every width of an int, and its names and registers by the kinds of  *)
(* control and the blocks they write to.                                   *)
(***************************************************************************)
EXTENDS MCPureFunctions, FiniteSetTheorems, WellFoundedInduction, TLAPS

\* The theorems of UrbGeometry_proofs, about one choice of the parameters.
GP == INSTANCE UrbGeometry_proofs WITH
        FramesPerUrb <- fixed.fpu, UrbFramesMin <- fixed.fmin,
        NUrbs <- fixed.nurbs, UrbSplit <- fixed.split

\* The choices a sweep of the geometry starts from.
Choices == {f \in [fpu : MaxUrbs, fmin : MinUrbs, nurbs : Counts,
                   split : 0..2, rate : G!BfRates] : f.fmin <= f.fpu}

\* What a behaviour of a sweep holds fixed, and what it steps.
SweepInv ==
    /\ what = "geometry" => fixed \in Choices /\ x \in Nat \ {0}
    /\ what = "fader" => x \in Nat /\ x <= FaderTop
    /\ what = "master" => x \in Nat /\ x <= StepMax
    /\ what = "control" => fixed \in Controls

\* The last point of the fader curve.
LEMMA FaderTopIs == FaderTop = 11585
  BY DEF FaderTop, Curve

\* Every step keeps that.
LEMMA SweepInvariant == Spec => []SweepInv
  <1>1. Init => SweepInv
    BY FaderTopIs DEF Init, SweepInv, Choices, StepMax
  <1>2. SweepInv /\ [Next]_vars => SweepInv'
    <2> SUFFICES ASSUME SweepInv, [Next]_vars PROVE SweepInv'
      OBVIOUS
    <2>1. CASE Lengthen
      BY <2>1 DEF SweepInv, Lengthen, Step
    <2>2. CASE RaiseFader
      BY <2>2, FaderTopIs DEF SweepInv, RaiseFader, Step
    <2>3. CASE RaiseMaster
      BY <2>3 DEF SweepInv, RaiseMaster, Step, StepMax
    <2>4. CASE Put
      BY <2>4 DEF SweepInv, Put
    <2>5. CASE UNCHANGED vars
      BY <2>5 DEF SweepInv, vars
    <2> QED  BY <2>1, <2>2, <2>3, <2>4, <2>5 DEF Next
  <1> QED  BY <1>1, <1>2, PTL DEF Spec

\* A choice is what probe()'s clamps may leave.
LEMMA ChoiceIsProbed ==
    ASSUME fixed \in Choices
    PROVE  GP!GeometryAssumption /\ fixed.rate \in GP!BfRates
  <1>1. /\ fixed.fpu \in MaxUrbs /\ fixed.fmin \in MinUrbs
        /\ fixed.nurbs \in Counts /\ fixed.split \in 0..2
        /\ fixed.rate \in G!BfRates /\ fixed.fmin <= fixed.fpu
    BY DEF Choices
  <1>2. /\ fixed.fpu \in 8..1024 /\ fixed.fpu % 8 = 0
        /\ fixed.fmin \in 8..1024 /\ fixed.fmin % 8 = 0
        /\ fixed.nurbs \in 2..16
    <2>1. /\ fixed.fpu \in {n \in 8..1024 : n % 8 = 0}
          /\ fixed.fmin \in {n \in 8..1024 : n % 8 = 0}
          /\ fixed.nurbs \in 2..16
      <3>1. /\ \A n \in MaxUrbs : n \in {k \in 8..1024 : k % 8 = 0}
            /\ \A n \in MinUrbs : n \in {k \in 8..1024 : k % 8 = 0}
            /\ \A n \in Counts : n \in 2..16
        BY SweepAssumption
      <3> QED  BY <1>1, <3>1
    <2> QED  BY <2>1
  <1> QED  BY <1>1, <1>2 DEF GP!GeometryAssumption, GP!BfRates, G!BfRates

\* The sweep and the theorems speak of the same functions.
LEMMA SameFunctions ==
    ASSUME NEW rate, NEW period
    PROVE  /\ GP!MinFpu(rate) = G!MinFpu(rate)
           /\ GP!UrbHi(rate) = G!UrbHi(rate) /\ GP!UrbLo(rate) = G!UrbLo(rate)
           /\ GP!BfFrameBytes(rate) = G!BfFrameBytes(rate)
           /\ GP!BfUrbFrames(rate, period) = G!BfUrbFrames(rate, period)
           /\ \A urb : GP!UrbCount(rate, period, urb) = G!UrbCount(rate, period, urb)
  <1>1. GP!MinFpu(rate) = G!MinFpu(rate)
    BY DEF GP!MinFpu, G!MinFpu, GP!BfAlt, G!BfAlt
  <1>2. GP!BfFrameBytes(rate) = G!BfFrameBytes(rate)
    BY DEF GP!BfFrameBytes, G!BfFrameBytes, GP!BfAlt, G!BfAlt
  <1>3. \A a, m : /\ GP!RoundDown(a, m) = G!RoundDown(a, m)
                  /\ GP!RoundUp(a, m) = G!RoundUp(a, m)
                  /\ GP!DivRoundUp(a, m) = G!DivRoundUp(a, m)
    BY DEF GP!RoundDown, G!RoundDown, GP!RoundUp, G!RoundUp, GP!DivRoundUp,
           G!DivRoundUp
  <1>4. \A a, lo, hi : GP!Clamp(a, lo, hi) = G!Clamp(a, lo, hi)
    BY DEF GP!Clamp, G!Clamp
  <1>5. GP!BfSplitPeriod(rate, period) <=> G!BfSplitPeriod(rate, period)
    BY DEF GP!BfSplitPeriod, G!BfSplitPeriod
  <1>6. GP!UrbHi(rate) = G!UrbHi(rate)
    BY <1>1, <1>3 DEF GP!UrbHi, G!UrbHi
  <1>7. GP!UrbLo(rate) = G!UrbLo(rate)
    BY <1>1, <1>3 DEF GP!UrbLo, G!UrbLo
  <1>8. GP!BfUrbFrames(rate, period) = G!BfUrbFrames(rate, period)
    BY <1>1, <1>3, <1>4, <1>5, <1>6, <1>7 DEF GP!BfUrbFrames, G!BfUrbFrames
  <1>9. \A urb : GP!UrbCount(rate, period, urb) = G!UrbCount(rate, period, urb)
    BY <1>4, <1>5 DEF GP!UrbCount, G!UrbCount
  <1> QED  BY <1>1, <1>2, <1>6, <1>7, <1>8, <1>9

\* Every URB is whole packets within the parameters, no longer than its period
\* and inside its DMA buffer, and only a period too short for the smallest URB
\* is refused.
THEOREM UrbsAreWhole == Spec => []WholeUrbs
  <1>1. SweepInv => WholeUrbs
    <2> SUFFICES ASSUME SweepInv, what = "geometry"
                 PROVE  /\ G!UrbIsWhole(fixed.rate, x)
                        /\ G!UrbFitsBuffer(fixed.rate, x)
                        /\ G!RefusedOnlyIfTooShort(fixed.rate, x)
      BY DEF WholeUrbs
    <2>1. GP!GeometryAssumption /\ fixed.rate \in GP!BfRates /\ x \in Nat \ {0}
      BY ChoiceIsProbed DEF SweepInv
    <2>2. /\ GP!UrbIsWhole(fixed.rate, x) /\ GP!UrbFitsBuffer(fixed.rate, x)
          /\ GP!RefusedOnlyIfTooShort(fixed.rate, x)
      <3>1. GP!UrbIsWhole(fixed.rate, x)
        BY <2>1, GP!WholeUrb
      <3>2. GP!UrbFitsBuffer(fixed.rate, x)
        BY <2>1, GP!BufferHoldsUrb
      <3>3. GP!RefusedOnlyIfTooShort(fixed.rate, x)
        BY <2>1, GP!OnlyTooShortIsRefused
      <3> QED  BY <3>1, <3>2, <3>3
    <2>3. G!UrbIsWhole(fixed.rate, x)
      BY <2>2, SameFunctions DEF GP!UrbIsWhole, G!UrbIsWhole
    <2>4. G!UrbFitsBuffer(fixed.rate, x)
      BY <2>2, SameFunctions
         DEF GP!UrbFitsBuffer, G!UrbFitsBuffer, GP!BfWordsPerFrame, G!BfWordsPerFrame
    <2>5. G!RefusedOnlyIfTooShort(fixed.rate, x)
      BY <2>2, SameFunctions DEF GP!RefusedOnlyIfTooShort, G!RefusedOnlyIfTooShort
    <2> QED  BY <2>3, <2>4, <2>5
  <1> QED  BY <1>1, SweepInvariant, PTL

\* The queue that hw_params chooses fits the period it was chosen for.
THEOREM QueuesFit == Spec => []QueueFitsPeriod
  <1>1. SweepInv => QueueFitsPeriod
    <2> SUFFICES ASSUME SweepInv, what = "geometry"
                 PROVE  G!QueueFits(fixed.rate, x)
      BY DEF QueueFitsPeriod
    <2>1. GP!GeometryAssumption /\ fixed.rate \in GP!BfRates /\ x \in Nat \ {0}
      BY ChoiceIsProbed DEF SweepInv
    <2>2. GP!QueueFits(fixed.rate, x)
      BY <2>1, GP!QueueFitsItsPeriod
    <2>3. \A urb, n : GP!BfSessionPeriod(urb, n) = G!BfSessionPeriod(urb, n)
      BY DEF GP!BfSessionPeriod, G!BfSessionPeriod, GP!DivRoundUp, G!DivRoundUp
    <2> QED  BY <2>2, <2>3, SameFunctions DEF GP!QueueFits, G!QueueFits
  <1> QED  BY <1>1, SweepInvariant, PTL

\* The unsigned arithmetic of the delay does not wrap.
THEOREM DelaysAreBounded == Spec => []DelayBounded
  <1>1. SweepInv => DelayBounded
    <2> SUFFICES ASSUME SweepInv, what = "geometry"
                 PROVE  G!DelayIsBounded(fixed.rate, x)
      BY DEF DelayBounded
    <2>1. GP!GeometryAssumption /\ fixed.rate \in GP!BfRates /\ x \in Nat \ {0}
      BY ChoiceIsProbed DEF SweepInv
    <2>2. GP!DelayIsBounded(fixed.rate, x)
      BY <2>1, GP!DelayStaysBounded
    <2>3. \A s, r : GP!BfDeviceDelay(s, r) = G!BfDeviceDelay(s, r)
      BY DEF GP!BfDeviceDelay, G!BfDeviceDelay, GP!BfAlt, G!BfAlt
    <2>4. \A r, u, e : \A i \in Int :
             GP!BfDelay("playback", r, u, i, e) = G!BfDelay("playback", r, u, i, e)
      BY <2>3 DEF GP!BfDelay, G!BfDelay
    <2> QED
      BY <2>2, <2>3, <2>4, SameFunctions DEF GP!DelayIsBounded, G!DelayIsBounded
  <1> QED  BY <1>1, SweepInvariant, PTL

----------------------------------------------------------------------------
\* The parts of bf_master_16bit(): a power of two, and a twelfth of an octave.
Power(n) == 2^n
Part(r) == Twelfth[1 + r]
InOctave(v) == v \in Nat /\ 4096 <= v /\ v <= 7732

\* The powers of two that the shifts of the master scale come to.
LEMMA Powers ==
    /\ Power(0) = 1 /\ Power(1) = 2 /\ Power(2) = 4 /\ Power(3) = 8
    /\ Power(4) = 16 /\ Power(5) = 32 /\ Power(6) = 64 /\ Power(7) = 128
    /\ Power(8) = 256 /\ Power(9) = 512 /\ Power(10) = 1024 /\ Power(11) = 2048
    /\ Power(12) = 4096 /\ Power(13) = 8192 /\ Power(14) = 16384 /\ Power(15) = 32768
  BY DEF Power

\* What a rounded shift to the right divides by, and adds before it does.
LEMMA Shifts ==
    ASSUME NEW n \in 1..15
    PROVE  /\ Power(n) \in Nat \ {0} /\ Power(n - 1) \in Nat \ {0}
           /\ Power(n) = 2 * Power(n - 1)
           /\ n <= 8 => Power(n) <= 256
           /\ n = 9 => Power(n) = 512
  <1>1. CASE n \in {1, 2, 3, 4}
    BY <1>1, Powers
  <1>2. CASE n \in {5, 6, 7, 8}
    BY <1>2, Powers
  <1>3. CASE n \in {9, 10, 11, 12}
    BY <1>3, Powers
  <1>4. CASE n \in {13, 14, 15}
    BY <1>4, Powers
  <1> QED  BY <1>1, <1>2, <1>3, <1>4

\* A quotient, as a bound on the dividend from both sides.
LEMMA Quotient ==
    ASSUME NEW a \in Nat, NEW p \in Nat \ {0}
    PROVE  a \div p \in Nat /\ (a \div p) * p <= a /\ a < (a \div p) * p + p
  OBVIOUS

\* A quotient does not fall when the dividend rises, and rises with it when
\* that rises by the divisor.
LEMMA QuotientRises ==
    ASSUME NEW a \in Nat, NEW b \in Nat, NEW p \in Nat \ {0}, a <= b
    PROVE  /\ a \div p \in Nat /\ b \div p \in Nat /\ a \div p <= b \div p
           /\ a + p <= b => a \div p < b \div p
           /\ p <= a => 1 <= a \div p
           /\ b <= 16384 * p => b \div p <= 16384
  <1> DEFINE q == a \div p
             r == b \div p
  <1>1. q \in Nat /\ r \in Nat /\ q * p <= a /\ a < q * p + p
        /\ r * p <= b /\ b < r * p + p
    OBVIOUS
  <1> HIDE DEF q, r
  <1>2. \A s, t \in Nat : s <= t => s * p <= t * p
    OBVIOUS
  <1>3. \A s \in Nat : (s + 1) * p = s * p + p
    OBVIOUS
  <1>4. q <= r
    BY <1>1, <1>2, <1>3
  <1>5. a + p <= b => q < r
    BY <1>1, <1>2, <1>3
  <1>6. p <= a => 1 <= q
    BY <1>1
  <1>7. b <= 16384 * p => r <= 16384
    BY <1>1, <1>2, <1>3
  <1> QED  BY <1>1, <1>4, <1>5, <1>6, <1>7 DEF q, r

\* The twelfths of an octave rise, and so do their differences.
LEMMA PartsRise ==
    ASSUME NEW r \in 0..11
    PROVE  /\ InOctave(Part(r))
           /\ r # 11 => Part(r) + 244 <= Part(r + 1)
           /\ r # 11 /\ r >= 8 => Part(r) + 387 <= Part(r + 1)
  BY DEF Twelfth, Part, InOctave

\* The ends of an octave.
LEMMA Octave == Part(0) = 4096 /\ Part(11) = 7732
  BY DEF Twelfth, Part

\* The 16-bit scale in terms of those parts.
LEMMA MasterIs ==
    ASSUME NEW h, NEW k, NEW r, h \div 12 = k, h % 12 = r
    PROVE  Master16(h) = Clip(IF k >= 0 THEN 2 * Part(r) * Power(k)
                              ELSE (2 * Part(r) + Power(-k - 1)) \div Power(-k), 1, 16384)
  BY DEF Master16, Part, Power

\* A step below 0 dB: n octaves down and r twelfths up.
LEMMA OctavesDown ==
    ASSUME NEW n \in 1..15, NEW r \in 0..11, NEW h, h = r - 12 * n
    PROVE  Master16(h) = Clip((2 * Part(r) + Power(n - 1)) \div Power(n), 1, 16384)
  <1> DEFINE k == -n
  <1>1. h \div 12 = k /\ h % 12 = r
    OBVIOUS
  <1>2. -k - 1 = n - 1 /\ -k = n /\ ~(k >= 0)
    OBVIOUS
  <1> HIDE DEF k
  <1>3. Master16(h) = Clip(IF k >= 0 THEN 2 * Part(r) * Power(k)
                           ELSE (2 * Part(r) + Power(-k - 1)) \div Power(-k), 1, 16384)
    BY <1>1, MasterIs
  <1> QED  BY <1>2, <1>3

\* ... within an octave the scale rises, and on every step from -50 dB on ...
LEMMA RisesInOctave ==
    ASSUME NEW n \in 1..15, NEW r \in 0..10, NEW h, h = r - 12 * n
    PROVE  /\ Master16(h) <= Master16(h + 1)
           /\ h >= -100 => Master16(h) < Master16(h + 1)
  <1> DEFINE p == Power(n)
             s == Power(n - 1)
             t == Part(r)
             u == Part(r + 1)
             a == 2 * t + s
             b == 2 * u + s
  <1>1. Master16(h) = Clip(a \div p, 1, 16384)
    BY OctavesDown
  <1>2. Master16(h + 1) = Clip(b \div p, 1, 16384)
    <2>1. r + 1 \in 0..11 /\ h + 1 = (r + 1) - 12 * n
      OBVIOUS
    <2> QED  BY <2>1, OctavesDown
  <1>3. /\ InOctave(t) /\ InOctave(u)
        /\ t + 244 <= u
        /\ r >= 8 => t + 387 <= u
    <2>1. r + 1 \in 0..11 /\ r \in 0..11 /\ r # 11
      OBVIOUS
    <2> QED  BY <2>1, PartsRise
  <1>4. /\ p \in Nat \ {0} /\ s \in Nat \ {0} /\ p = 2 * s
        /\ n <= 8 => p <= 256
        /\ n = 9 => p = 512
    BY Shifts
  <1> HIDE DEF p, s, t, u
  <1>5. /\ a \in Nat /\ b \in Nat /\ a <= b /\ b <= 16384 * p
        /\ h >= -100 => p <= a /\ a + p <= b
    <2>1. a \in Nat /\ b \in Nat /\ a <= b /\ b <= 16384 * p
      BY <1>3, <1>4 DEF InOctave
    <2>2. ASSUME h >= -100 PROVE p <= a /\ a + p <= b
      <3>1. n <= 8 \/ (n = 9 /\ r >= 8)
        BY <2>2
      <3> QED  BY <1>3, <1>4, <3>1 DEF InOctave
    <2> QED  BY <2>1, <2>2
  <1> HIDE DEF a, b
  <1>6. /\ a \div p \in Nat /\ b \div p \in Nat /\ a \div p <= b \div p
        /\ a + p <= b => a \div p < b \div p
        /\ p <= a => 1 <= a \div p
        /\ b \div p <= 16384
    BY <1>4, <1>5, QuotientRises
  <1> DEFINE v == a \div p
             w == b \div p
  <1> HIDE DEF v, w
  <1>7. Master16(h) = Clip(v, 1, 16384) /\ Master16(h + 1) = Clip(w, 1, 16384)
        /\ v \in Nat /\ w \in Nat /\ v <= w /\ w <= 16384
        /\ (h >= -100 => v < w /\ 1 <= v)
    BY <1>1, <1>2, <1>5, <1>6 DEF v, w
  <1> QED  BY <1>7 DEF Clip

\* 0 dB.
LEMMA Unity == Master16(0) = 8192
  <1>1. 0 \div 12 = 0 /\ 0 % 12 = 0
    OBVIOUS
  <1>2. Master16(0) = Clip(IF 0 >= 0 THEN 2 * Part(0) * Power(0)
                           ELSE (2 * Part(0) + Power(-0 - 1)) \div Power(-0), 1, 16384)
    BY <1>1, MasterIs
  <1>3. 2 * Part(0) * Power(0) = 8192
    BY Octave, Powers
  <1> QED  BY <1>2, <1>3 DEF Clip

\* ... and from the last step of an octave to the first of the next.
LEMMA RisesToOctave ==
    ASSUME NEW n \in 1..15, NEW h, h = 11 - 12 * n
    PROVE  /\ Master16(h) <= Master16(h + 1)
           /\ h >= -100 => Master16(h) < Master16(h + 1)
  <1>1. Master16(h) = Clip((15464 + Power(n - 1)) \div Power(n), 1, 16384)
    <2>1. Master16(h) = Clip((2 * Part(11) + Power(n - 1)) \div Power(n), 1, 16384)
      BY OctavesDown
    <2>2. 2 * Part(11) = 15464
      BY Octave
    <2> QED  BY <2>1, <2>2
  <1>2. CASE n = 1
    <2>1. h + 1 = 0 /\ n - 1 = 0
      BY <1>2
    <2>2. Master16(h) = 7732
      <3>1. Master16(h) = Clip((15464 + 1) \div 2, 1, 16384)
        BY <1>1, <1>2, <2>1, Powers
      <3> QED  BY <3>1 DEF Clip
    <2> QED  BY <2>1, <2>2, Unity
  <1>3. CASE n # 1
    <2>1. Master16(h + 1) = Clip((8192 + Power(n - 2)) \div Power(n - 1), 1, 16384)
      <3> DEFINE m == n - 1
      <3>1. m \in 1..15 /\ h + 1 = 0 - 12 * m /\ m - 1 = n - 2
        BY <1>3
      <3> HIDE DEF m
      <3>2. Master16(h + 1) = Clip((2 * Part(0) + Power(m - 1)) \div Power(m), 1, 16384)
        BY <3>1, OctavesDown
      <3>3. 2 * Part(0) = 8192
        BY Octave
      <3> QED  BY <3>1, <3>2, <3>3 DEF m
    <2> DEFINE s == Power(n - 2)
               v == (15464 + 2 * s) \div (4 * s)
               w == (8192 + s) \div (2 * s)
    <2>2. s \in Nat \ {0} /\ Power(n - 1) = 2 * s /\ Power(n) = 4 * s
          /\ s <= 8192 /\ (n <= 9 => s <= 128)
      <3>1. CASE n \in {2, 3, 4, 5, 6}
        BY <3>1, Powers
      <3>2. CASE n \in {7, 8, 9, 10, 11}
        BY <3>2, Powers
      <3>3. CASE n \in {12, 13, 14, 15}
        BY <3>3, Powers
      <3> QED  BY <1>3, <3>1, <3>2, <3>3
    <2>3. Master16(h) = Clip(v, 1, 16384) /\ Master16(h + 1) = Clip(w, 1, 16384)
      BY <1>1, <2>1, <2>2
    <2> HIDE DEF s
    <2>4. w = (16384 + 2 * s) \div (4 * s)
      <3> DEFINE q == (8192 + s) \div (2 * s)
                 z == (16384 + 2 * s) \div (4 * s)
      <3>1. q \in Nat /\ z \in Nat
            /\ q * (2 * s) <= 8192 + s /\ 8192 + s < q * (2 * s) + 2 * s
            /\ z * (4 * s) <= 16384 + 2 * s /\ 16384 + 2 * s < z * (4 * s) + 4 * s
        <4> DEFINE c == 8192 + s
                   e == 16384 + 2 * s
                   f == 2 * s
                   g == 4 * s
        <4>1. f \in Nat \ {0} /\ g \in Nat \ {0} /\ c \in Nat /\ e \in Nat
          BY <2>2
        <4> HIDE DEF c, e, f, g
        <4>2. c \div f \in Nat /\ (c \div f) * f <= c /\ c < (c \div f) * f + f
          BY <4>1, Quotient
        <4>3. e \div g \in Nat /\ (e \div g) * g <= e /\ e < (e \div g) * g + g
          BY <4>1, Quotient
        <4> QED  BY <4>2, <4>3 DEF c, e, f, g
      <3> HIDE DEF q, z
      <3>2. q * (4 * s) = 2 * (q * (2 * s))
        BY <2>2, <3>1
      <3>3. \A i, j \in Nat : i + 1 <= j => i * (4 * s) + 4 * s <= j * (4 * s)
        <4>1. \A i, j \in Nat : i + 1 <= j => (i + 1) * (4 * s) <= j * (4 * s)
          BY <2>2
        <4>2. \A i \in Nat : (i + 1) * (4 * s) = i * (4 * s) + 4 * s
          BY <2>2
        <4> QED  BY <4>1, <4>2
      <3>4. q = z
        <4>1. q * (4 * s) \in Nat /\ z * (4 * s) \in Nat /\ q * (2 * s) \in Nat
          BY <2>2, <3>1
        <4> QED  BY <2>2, <3>1, <3>2, <3>3, <4>1
      <3> QED  BY <3>4 DEF q, z
    <2>5. /\ v \in Nat /\ w \in Nat /\ v <= w /\ w <= 16384
          /\ n <= 9 => 1 <= v /\ v < w
      <3> DEFINE a == 15464 + 2 * s
                 b == 16384 + 2 * s
                 p == 4 * s
      <3>1. a \in Nat /\ b \in Nat /\ p \in Nat \ {0} /\ a <= b /\ b <= 16384 * p
            /\ (n <= 9 => a + p <= b /\ p <= a)
        BY <2>2
      <3>2. w = b \div p /\ v = a \div p
        BY <2>4
      <3> HIDE DEF a, b, p, v, w
      <3> QED  BY <3>1, <3>2, QuotientRises
    <2>6. h >= -100 => n <= 9
      OBVIOUS
    <2> HIDE DEF v, w
    <2> QED  BY <2>3, <2>5, <2>6 DEF Clip
  <1> QED  BY <1>2, <1>3

\* Above 0 dB too.
LEMMA RisesAboveUnity ==
    ASSUME NEW h \in 0..11
    PROVE  Master16(h) \in Nat /\ Master16(h + 1) \in Nat /\ Master16(h) < Master16(h + 1)
  <1>1. \A g \in 0..11 : Master16(g) = 2 * Part(g)
    <2> TAKE g \in 0..11
    <2>1. g \div 12 = 0 /\ g % 12 = g
      OBVIOUS
    <2>2. Master16(g) = Clip(IF 0 >= 0 THEN 2 * Part(g) * Power(0)
                           ELSE (2 * Part(g) + Power(-0 - 1)) \div Power(-0), 1, 16384)
      BY <2>1, MasterIs
    <2>3. InOctave(Part(g))
      BY PartsRise
    <2>4. 2 * Part(g) * Power(0) = 2 * Part(g)
      BY <2>3, Powers DEF InOctave
    <2> DEFINE v == 2 * Part(g)
    <2>5. Master16(g) = Clip(v, 1, 16384) /\ v \in Nat /\ 8192 <= v /\ v <= 15464
      BY <2>2, <2>3, <2>4 DEF InOctave
    <2> QED  BY <2>5 DEF Clip
  <1>2. Master16(12) = 16384
    <2>1. 12 \div 12 = 1 /\ 12 % 12 = 0
      OBVIOUS
    <2>2. Master16(12) = Clip(IF 1 >= 0 THEN 2 * Part(0) * Power(1)
                           ELSE (2 * Part(0) + Power(-1 - 1)) \div Power(-1), 1, 16384)
      BY <2>1, MasterIs
    <2>3. 2 * Part(0) * Power(1) = 16384
      BY Octave, Powers
    <2> QED  BY <2>2, <2>3 DEF Clip
  <1>3. CASE h = 11
    BY <1>1, <1>2, <1>3, Octave
  <1>4. CASE h # 11
    <2>1. h + 1 \in 0..11
      BY <1>4
    <2>2. InOctave(Part(h)) /\ Part(h) + 244 <= Part(h + 1)
      BY <1>4, PartsRise
    <2>3. InOctave(Part(h + 1))
      BY <2>1, PartsRise
    <2>4. Master16(h) = 2 * Part(h) /\ Master16(h + 1) = 2 * Part(h + 1)
      BY <1>1, <2>1
    <2> QED  BY <2>2, <2>3, <2>4 DEF InOctave
  <1> QED  BY <1>3, <1>4

\* The master scale rises from step to step, from -50 dB on with each.
LEMMA MasterRises ==
    ASSUME NEW h \in -180..11
    PROVE  /\ Master16(h) <= Master16(h + 1)
           /\ h >= -100 => Master16(h) < Master16(h + 1)
  <1>1. CASE h >= 0
    <2>1. h \in 0..11
      BY <1>1
    <2> QED  BY <2>1, RisesAboveUnity
  <1>2. CASE h < 0
    <2> DEFINE n == -(h \div 12)
               r == h % 12
    <2>1. n \in 1..15 /\ r \in 0..11 /\ h = r - 12 * n
      BY <1>2
    <2> HIDE DEF n, r
    <2>2. CASE r = 11
      BY <2>1, <2>2, RisesToOctave
    <2>3. CASE r # 11
      <3>1. r \in 0..10
        BY <2>1, <2>3
      <3> QED  BY <2>1, <3>1, RisesInOctave
    <2> QED  BY <2>2, <2>3
  <1> QED  BY <1>1, <1>2

----------------------------------------------------------------------------
\* A point of the fader curve, and the level half a decibel above it.
Point(i) == Curve[i]
Half(i) == Point(i) + (Point(i + 1) - Point(i) + 1) \div 2

\* The ends of the curve and its length.
LEMMA CurveEnds ==
    Point(1) = 3 /\ Point(69) = 11585 /\ Len(Curve) = 69 /\ FaderTop = 11585
                   /\ Top = 12
  BY DEF Point, Curve, FaderTop, Top, First

\* The points of the curve rise.
LEMMA PointsRise ==
    ASSUME NEW i \in 1..68
    PROVE  /\ Point(i) \in Nat /\ Point(i + 1) \in Nat /\ 3 <= Point(i)
           /\ Point(i) < Point(i + 1)
  <1>1. CASE i \in 1..23
    BY <1>1 DEF Point, Curve
  <1>2. CASE i \in 24..46
    BY <1>2 DEF Point, Curve
  <1>3. CASE i \in 47..68
    BY <1>3 DEF Point, Curve
  <1> QED  BY <1>1, <1>2, <1>3

\* Every level between the ends of the curve is in one of its segments.
LEMMA SegmentExists ==
    ASSUME NEW raw \in Nat, raw <= FaderTop
    PROVE  \E i \in 1..68 : raw <= Point(i + 1) /\ (i = 1 \/ Point(i) < raw)
  <1> DEFINE B == {i \in 1..68 : raw <= Point(i + 1)}
             T == {0..k : k \in B}
  <1>1. 68 \in B
    BY CurveEnds
  <1>2. T \subseteq FiniteSubsetsOf(Nat) /\ T # {}
    <2>1. \A k \in Nat : 0..k \in FiniteSubsetsOf(Nat)
      BY FS_Interval DEF FiniteSubsetsOf
    <2>2. B \subseteq Nat
      OBVIOUS
    <2> HIDE DEF B
    <2> QED  BY <1>1, <2>1, <2>2
  <1>3. PICK low \in T : \A y \in T : ~(<<y, low>> \in StrictSubsetOrdering(Nat))
    <2> HIDE DEF T
    <2> QED BY <1>2, FS_StrictSubsetOrderingWellFounded, WFMin
  <1>4. PICK m \in B : low = 0..m
    OBVIOUS
  <1>5. ASSUME m # 1, raw <= Point(m) PROVE FALSE
    <2>1. m - 1 \in B
      BY <1>4, <1>5
    <2>2. 0..(m - 1) \in T
      BY <2>1
    <2>3. <<0..(m - 1), 0..m>> \in StrictSubsetOrdering(Nat)
      <3>1. 0..(m - 1) \subseteq 0..m /\ m \in 0..m /\ m \notin 0..(m - 1)
        BY <1>4
      <3>2. 0..(m - 1) # 0..m
        BY <3>1
      <3>3. 0..m \subseteq Nat /\ 0..(m - 1) \subseteq Nat
        BY <1>4
      <3> QED  BY <3>1, <3>2, <3>3 DEF StrictSubsetOrdering
    <2> QED  BY <1>3, <1>4, <2>2, <2>3
  <1>6. m \in 1..68 /\ raw <= Point(m + 1)
    BY <1>4
  <1>7. m = 1 \/ Point(m) < raw
    <2>1. m # 1 => Point(m) \in Nat
      BY <1>6, PointsRise
    <2> QED  BY <1>5, <2>1
  <1> QED  BY <1>6, <1>7

\* The level in half decibels of a crosspoint value: that of the point below it
\* in the curve, and t more, t the nearest integer to its place between the points.
Place(raw, i, t) ==
    LET d == Point(i + 1) - Point(i)
        a == 2 * (raw - Point(i)) + d \div 2
    IN  /\ Point(i) <= raw /\ raw <= Point(i + 1)
        /\ i = 1 \/ Point(i) < raw
        /\ t * d <= a /\ a < (t + 1) * d
        /\ RawToDb2(raw) = 2 * i - 126 + t

\* A level within the curve is interpolated on the segment that is found.
LEMMA LevelIs ==
    ASSUME NEW raw, ~(raw < Curve[1]), ~(raw > FaderTop)
    PROVE  RawToDb2(raw) =
              LET i == CHOOSE i \in 1..(Len(Curve) - 1) :
                          raw <= Curve[i + 1] /\ (i = 1 \/ Curve[i] < raw)
              IN  Interpolate(raw, Curve[i], Curve[i + 1] - Curve[i], First + 2 * (i - 1), 2)
  BY DEF RawToDb2

\* Every value within the curve has such a place.
LEMMA RawIsPlaced ==
    ASSUME NEW raw \in Nat, 3 <= raw, raw <= FaderTop
    PROVE  \E i \in 1..68, t \in 0..2 : Place(raw, i, t)
  <1> DEFINE i == CHOOSE i \in 1..(Len(Curve) - 1) :
                     raw <= Curve[i + 1] /\ (i = 1 \/ Curve[i] < raw)
  <1>1. i \in 1..68 /\ raw <= Curve[i + 1] /\ (i = 1 \/ Curve[i] < raw)
    <2>1. \E j \in 1..68 : raw <= Curve[j + 1] /\ (j = 1 \/ Curve[j] < raw)
      BY SegmentExists DEF Point
    <2>2. Len(Curve) - 1 = 68
      BY CurveEnds
    <2> QED  BY <2>1, <2>2
  <1>2. RawToDb2(raw) = Interpolate(raw, Curve[i], Curve[i + 1] - Curve[i],
                                    First + 2 * (i - 1), 2)
    <2>1. ~(raw < Curve[1]) /\ ~(raw > FaderTop)
      BY CurveEnds DEF Point
    <2> QED  BY <2>1, LevelIs
  <1> HIDE DEF i
  <1> DEFINE d == Point(i + 1) - Point(i)
             a == 2 * (raw - Point(i)) + d \div 2
             t == a \div d
  <1>3. /\ Point(i) \in Nat /\ Point(i + 1) \in Nat /\ 3 <= Point(i)
        /\ Point(i) < Point(i + 1)
    BY <1>1, PointsRise
  <1>4. raw <= Point(i + 1) /\ (i = 1 \/ Point(i) < raw)
    BY <1>1 DEF Point
  <1>5. Point(i) <= raw
    BY <1>3, <1>4, CurveEnds
  <1>6. d \in Nat \ {0} /\ a \in Nat /\ a < 3 * d
    <2>1. d \in Nat \ {0} /\ d \div 2 < d
      BY <1>3
    <2> QED  BY <1>3, <1>4, <1>5, <2>1
  <1>7. RawToDb2(raw) = 2 * i - 126 + t
    <2>1. RawToDb2(raw) = First + 2 * (i - 1) + ((raw - Point(i)) * 2 + d \div 2) \div d
      BY <1>2 DEF Interpolate, Point
    <2>2. (raw - Point(i)) * 2 + d \div 2 = a
      BY <1>3
    <2>3. t \in Int
      BY <1>6
    <2> HIDE DEF a, d
    <2>4. RawToDb2(raw) = First + 2 * (i - 1) + t
      BY <2>1, <2>2
    <2> HIDE DEF t
    <2> QED  BY <1>1, <2>3, <2>4 DEF First
  <1> HIDE DEF a, d
  <1>8. t \in 0..2 /\ t * d <= a /\ a < (t + 1) * d
    <2>1. t \in Nat /\ t * d <= a /\ a < t * d + d
      BY <1>6, Quotient
    <2> HIDE DEF t
    <2>2. (t + 1) * d = t * d + d
      BY <1>6, <2>1
    <2>3. t >= 3 => 3 * d <= t * d
      BY <1>6, <2>1
    <2> QED  BY <1>6, <2>1, <2>2, <2>3
  <1> HIDE DEF t
  <1>9. Place(raw, i, t)
    BY <1>4, <1>5, <1>7, <1>8 DEF Place, a, d
  <1> QED  BY <1>1, <1>8, <1>9

\* The value of a level on a point of the curve.
LEMMA LevelOnPoint ==
    ASSUME NEW i \in 1..69
    PROVE  Db2ToRaw(2 * i - 126) = Point(i)
  <1>1. CASE i = 69
    BY <1>1, CurveEnds DEF Db2ToRaw, First
  <1>2. CASE i # 69
    <2> DEFINE db2 == 2 * i - 126
    <2>1. i \in 1..68 /\ ~(db2 < First) /\ ~(db2 >= Top)
          /\ 1 + (db2 - First) \div 2 = i /\ First + 2 * (i - 1) = db2
      BY <1>2, CurveEnds DEF First
    <2>2. db2 \in Int
      OBVIOUS
    <2>3. Db2ToRaw(db2) = Interpolate(db2, db2, 2, Curve[i], Curve[i + 1] - Curve[i])
      <3> HIDE DEF db2
      <3> QED  BY <2>1 DEF Db2ToRaw
    <2>4. Point(i) \in Nat /\ Point(i + 1) \in Nat
      BY <2>1, PointsRise
    <2>5. Interpolate(db2, db2, 2, Point(i), Point(i + 1) - Point(i)) = Point(i)
      <3> HIDE DEF db2
      <3> DEFINE d == Point(i + 1) - Point(i)
      <3>1. (db2 - db2) * d + 2 \div 2 = 1 /\ 1 \div 2 = 0
        BY <2>2, <2>4
      <3> QED  BY <2>4, <3>1 DEF Interpolate
    <2> QED  BY <2>3, <2>5 DEF Point
  <1> QED  BY <1>1, <1>2

\* Half a decibel lies between two points, nearer neither.
LEMMA LevelBetween ==
    ASSUME NEW i \in 1..68
    PROVE  Db2ToRaw(2 * i - 125) = Half(i)
  <1> DEFINE db2 == 2 * i - 125
  <1>1. ~(db2 < First) /\ ~(db2 >= Top)
        /\ 1 + (db2 - First) \div 2 = i /\ First + 2 * (i - 1) = db2 - 1
    BY CurveEnds DEF First
  <1>2. db2 \in Int
    OBVIOUS
  <1> HIDE DEF db2
  <1>3. Db2ToRaw(db2) = Interpolate(db2, db2 - 1, 2, Curve[i], Curve[i + 1] - Curve[i])
    BY <1>1 DEF Db2ToRaw
  <1>4. Point(i) \in Nat /\ Point(i + 1) \in Nat
    BY PointsRise
  <1>5. Interpolate(db2, db2 - 1, 2, Point(i), Point(i + 1) - Point(i)) = Half(i)
    <2> DEFINE d == Point(i + 1) - Point(i)
    <2>1. (db2 - (db2 - 1)) * d + 2 \div 2 = d + 1
      <3>1. db2 - (db2 - 1) = 1 /\ d \in Int
        BY <1>2, <1>4
      <3> HIDE DEF d
      <3> QED  BY <3>1
    <2> QED  BY <2>1 DEF Interpolate, Half
  <1> QED  BY <1>3, <1>5 DEF Point, db2

\* Below the curve everything is off.
LEMMA LevelBelow ==
    ASSUME NEW db2 \in Int, db2 < First
    PROVE  Db2ToRaw(db2) = 0
  BY DEF Db2ToRaw

\* The value of half a decibel is between its points.
LEMMA HalfIsBetween ==
    ASSUME NEW i \in 1..68
    PROVE  /\ Half(i) \in Nat /\ Point(i) < Half(i) /\ Half(i) <= Point(i + 1)
           /\ 2 * Half(i) >= Point(i) + Point(i + 1)
           /\ 2 * Half(i) <= Point(i) + Point(i + 1) + 1
  BY PointsRise DEF Half

\* What clicks make of a value whose level is in the range of the wheel.
LEMMA ClicksFrom ==
    ASSUME NEW raw, NEW level \in Int, NEW n \in {-2, -1, 1, 2},
           -124 <= level, level <= 12, Seeded(raw) = level
    PROVE  AfterClicks(raw, n) = Db2ToRaw(IF level + n > 12 THEN 12 ELSE level + n)
  BY CurveEnds DEF AfterClicks, Clicked, Clip, Inf

\* The wheel goes where it is turned, from any value of a crosspoint.
KeepsDirection(raw) ==
    /\ AfterClicks(raw, 1) >= raw /\ AfterClicks(raw, -1) <= raw
    /\ raw < FaderTop => AfterClicks(raw, 2) > raw
    /\ raw > 0 => AfterClicks(raw, -2) < raw

\* Values below the curve, whose level counts as its first ...
LEMMA BelowTheCurve ==
    ASSUME NEW raw \in Nat, raw < 3
    PROVE  Seeded(raw) = -124 /\ KeepsDirection(raw)
  <1>1. Seeded(raw) = -124
    BY CurveEnds DEF Seeded, RawToDb2, Inf, First, Point
  <1>2. AfterClicks(raw, 1) = Db2ToRaw(-123) /\ AfterClicks(raw, -1) = Db2ToRaw(-125)
        /\ AfterClicks(raw, 2) = Db2ToRaw(-122) /\ AfterClicks(raw, -2) = Db2ToRaw(-126)
    <2>1. \A n \in {-2, -1, 1, 2} : AfterClicks(raw, n) = Db2ToRaw(-124 + n)
      BY <1>1, ClicksFrom
    <2> QED  BY <2>1
  <1>3. Db2ToRaw(-125) = 0 /\ Db2ToRaw(-126) = 0
    BY LevelBelow DEF First
  <1>4. Db2ToRaw(-123) = Half(1)
    <2>1. 2 * 1 - 125 = -123 /\ 1 \in 1..68
      OBVIOUS
    <2> QED  BY <2>1, LevelBetween
  <1>5. Db2ToRaw(-122) = Point(2)
    <2>1. 2 * 2 - 126 = -122 /\ 2 \in 1..69
      OBVIOUS
    <2> QED  BY <2>1, LevelOnPoint
  <1>6. Half(1) \in Nat /\ 3 < Half(1) /\ Point(2) \in Nat /\ 3 < Point(2)
    <2>1. 1 \in 1..68 /\ 1 + 1 = 2
      OBVIOUS
    <2> QED  BY <2>1, HalfIsBetween, PointsRise, CurveEnds
  <1> QED  BY <1>1, <1>2, <1>3, <1>4, <1>5, <1>6 DEF KeepsDirection

\* The levels near a place in the curve.
LEMMA LevelsNear ==
    ASSUME NEW i \in 1..68
    PROVE  /\ Db2ToRaw(2 * i - 126) = Point(i)
           /\ Db2ToRaw(2 * i - 125) = Half(i)
           /\ Db2ToRaw(2 * i - 124) = Point(i + 1)
           /\ Db2ToRaw(2 * i - 127) \in Nat /\ Db2ToRaw(2 * i - 127) <= Point(i)
           /\ Db2ToRaw(2 * i - 128) \in Nat /\ Db2ToRaw(2 * i - 128) < Point(i)
           /\ i # 68 => /\ Db2ToRaw(2 * i - 123) \in Nat /\ Db2ToRaw(2 * i - 123) > Point(i + 1)
                        /\ Db2ToRaw(2 * i - 122) \in Nat /\ Db2ToRaw(2 * i - 122) > Point(i + 1)
  <1>1. Db2ToRaw(2 * i - 126) = Point(i) /\ Db2ToRaw(2 * i - 125) = Half(i)
    <2>1. i \in 1..69
      OBVIOUS
    <2> QED  BY <2>1, LevelOnPoint, LevelBetween
  <1>2. Db2ToRaw(2 * i - 124) = Point(i + 1)
    <2>1. i + 1 \in 1..69 /\ 2 * (i + 1) - 126 = 2 * i - 124
      OBVIOUS
    <2> QED  BY <2>1, LevelOnPoint
  <1>3. Point(i) \in Nat /\ 3 <= Point(i)
    BY PointsRise
  <1>4. /\ Db2ToRaw(2 * i - 127) \in Nat /\ Db2ToRaw(2 * i - 127) <= Point(i)
        /\ Db2ToRaw(2 * i - 128) \in Nat /\ Db2ToRaw(2 * i - 128) < Point(i)
    <2>1. CASE i = 1
      <3>1. Db2ToRaw(-125) = 0 /\ Db2ToRaw(-126) = 0
        BY LevelBelow DEF First
      <3>2. 2 * i - 127 = -125 /\ 2 * i - 128 = -126
        BY <2>1
      <3> QED  BY <1>3, <3>1, <3>2
    <2>2. CASE i # 1
      <3> DEFINE j == i - 1
      <3>1. j \in 1..68 /\ j \in 1..69 /\ 2 * j - 125 = 2 * i - 127 /\ 2 * j - 126 = 2 * i - 128
            /\ j + 1 = i
        BY <2>2
      <3> HIDE DEF j
      <3>2. Db2ToRaw(2 * j - 125) = Half(j) /\ Db2ToRaw(2 * j - 126) = Point(j)
        BY <3>1, LevelBetween, LevelOnPoint
      <3>3. Half(j) \in Nat /\ Half(j) <= Point(j + 1) /\ Point(j) \in Nat /\ Point(j) < Point(j + 1)
        BY <3>1, HalfIsBetween, PointsRise
      <3> QED  BY <3>1, <3>2, <3>3
    <2> QED  BY <2>1, <2>2
  <1>5. ASSUME i # 68
        PROVE  /\ Db2ToRaw(2 * i - 123) \in Nat /\ Db2ToRaw(2 * i - 123) > Point(i + 1)
               /\ Db2ToRaw(2 * i - 122) \in Nat /\ Db2ToRaw(2 * i - 122) > Point(i + 1)
    <2> DEFINE j == i + 1
    <2>1. j \in 1..68 /\ 2 * j - 125 = 2 * i - 123 /\ j + 1 \in 1..69
          /\ 2 * (j + 1) - 126 = 2 * i - 122
      BY <1>5
    <2> HIDE DEF j
    <2>2. Db2ToRaw(2 * j - 125) = Half(j) /\ Db2ToRaw(2 * (j + 1) - 126) = Point(j + 1)
      BY <2>1, LevelBetween, LevelOnPoint
    <2>3. Half(j) \in Nat /\ Point(j) < Half(j) /\ Point(j) \in Nat
          /\ Point(j + 1) \in Nat /\ Point(j) < Point(j + 1)
      BY <2>1, HalfIsBetween, PointsRise
    <2> QED  BY <2>1, <2>2, <2>3 DEF j
  <1> QED  BY <1>1, <1>2, <1>4, <1>5

\* ... and those within: below, at or above half a decibel of their place.
LEMMA OnTheCurve ==
    ASSUME NEW raw \in Nat, 3 <= raw, raw <= FaderTop
    PROVE  /\ Seeded(raw) \in Int /\ -124 <= Seeded(raw) /\ Seeded(raw) <= 12
           /\ KeepsDirection(raw)
  <1>1. PICK i \in 1..68, t \in 0..2 : Place(raw, i, t)
    BY RawIsPlaced
  <1> DEFINE level == 2 * i - 126 + t
             d == Point(i + 1) - Point(i)
  <1>2. level \in Int /\ -124 <= level /\ level <= 12
    OBVIOUS
  <1>3. Seeded(raw) = level
    BY <1>1, <1>2 DEF Seeded, Place, First
  <1> DEFINE After(n) == Db2ToRaw(IF level + n > 12 THEN 12 ELSE level + n)
  <1>4. /\ AfterClicks(raw, 1) = After(1) /\ AfterClicks(raw, -1) = After(-1)
        /\ AfterClicks(raw, 2) = After(2) /\ AfterClicks(raw, -2) = After(-2)
    BY <1>2, <1>3, ClicksFrom
  <1>5. /\ Point(i) \in Nat /\ Point(i + 1) \in Nat /\ 3 <= Point(i)
        /\ Point(i) < Point(i + 1)
        /\ Half(i) \in Nat /\ Point(i) < Half(i) /\ Half(i) <= Point(i + 1)
        /\ 2 * Half(i) >= Point(i) + Point(i + 1)
        /\ 2 * Half(i) <= Point(i) + Point(i + 1) + 1
    BY PointsRise, HalfIsBetween
  <1>6. /\ Point(i) <= raw /\ raw <= Point(i + 1) /\ (i = 1 \/ Point(i) < raw)
        /\ t * d <= 2 * (raw - Point(i)) + d \div 2
        /\ 2 * (raw - Point(i)) + d \div 2 < (t + 1) * d
    BY <1>1 DEF Place
  <1>6a. Point(i) <= raw /\ raw <= Point(i + 1) /\ (i = 1 \/ Point(i) < raw)
    BY <1>6
  <1>7. d \in Nat \ {0} /\ d \div 2 \in Nat /\ d \div 2 < d
    BY <1>5
  <1> DEFINE h == d \div 2
  <1> HIDE DEF h
  <1>8. i = 68 => Point(i + 1) = FaderTop /\ FaderTop = 11585
    BY CurveEnds
  <1>9. ASSUME t = 0 PROVE KeepsDirection(raw)
    <2>1. After(1) = Half(i) /\ After(2) = Point(i + 1)
          /\ After(-1) \in Nat /\ After(-1) <= Point(i)
          /\ After(-2) \in Nat /\ After(-2) < Point(i)
      <3>1. level + 1 = 2 * i - 125 /\ level + 2 = 2 * i - 124
            /\ level + -1 = 2 * i - 127 /\ level + -2 = 2 * i - 128
            /\ ~(level + 2 > 12)
        BY <1>9
      <3> QED  BY <1>2, <3>1, LevelsNear
    <2>2. 2 * raw < Point(i) + Point(i + 1)
      BY <1>5, <1>6, <1>7, <1>9 DEF h
    <2> HIDE DEF After
    <2> QED  BY <1>4, <1>5, <1>6a, <2>1, <2>2 DEF KeepsDirection
  <1>10. ASSUME t = 1 PROVE KeepsDirection(raw)
    <2>1. After(1) = Point(i + 1) /\ After(-1) = Point(i)
          /\ After(-2) \in Nat /\ After(-2) <= Point(i) /\ (i = 1 => After(-2) < Point(i))
          /\ (i # 68 => After(2) \in Nat /\ After(2) > Point(i + 1))
          /\ (i = 68 => After(2) = Point(i + 1))
      <3>1. level + 1 = 2 * i - 124 /\ level + 2 = 2 * i - 123
            /\ level + -1 = 2 * i - 126 /\ level + -2 = 2 * i - 127
            /\ ~(level + 1 > 12) /\ (i # 68 => ~(level + 2 > 12))
            /\ (i = 68 => level + 2 > 12 /\ 12 = 2 * i - 124)
        BY <1>10
      <3>2. i = 1 => Db2ToRaw(2 * i - 127) = 0
        <4>1. i = 1 => 2 * i - 127 < First /\ 2 * i - 127 \in Int
          BY DEF First
        <4> QED  BY <4>1, LevelBelow
      <3> QED  BY <1>2, <1>5, <3>1, <3>2, LevelsNear
    <2>2. raw < Point(i + 1)
      BY <1>5, <1>6, <1>7, <1>10 DEF h
    <2> HIDE DEF After
    <2> QED  BY <1>4, <1>5, <1>6a, <2>1, <2>2 DEF KeepsDirection
  <1>11. ASSUME t = 2 PROVE KeepsDirection(raw)
    <2>1. After(-1) = Half(i) /\ After(-2) = Point(i)
          /\ (i # 68 => After(1) \in Nat /\ After(1) > Point(i + 1)
                        /\ After(2) \in Nat /\ After(2) > Point(i + 1))
          /\ (i = 68 => After(1) = Point(i + 1) /\ After(2) = Point(i + 1))
      <3>1. level + 1 = 2 * i - 123 /\ level + 2 = 2 * i - 122
            /\ level + -1 = 2 * i - 125 /\ level + -2 = 2 * i - 126
            /\ (i # 68 => ~(level + 1 > 12) /\ ~(level + 2 > 12))
            /\ (i = 68 => level + 1 > 12 /\ level + 2 > 12 /\ 12 = 2 * i - 124)
        BY <1>11
      <3> QED  BY <1>2, <3>1, LevelsNear
    <2>2. Point(i) < raw /\ Half(i) <= raw
      BY <1>5, <1>6, <1>7, <1>11 DEF h
    <2> HIDE DEF After
    <2> QED  BY <1>4, <1>5, <1>6a, <1>8, <2>1, <2>2 DEF KeepsDirection
  <1> QED  BY <1>2, <1>3, <1>9, <1>10, <1>11

----------------------------------------------------------------------------
\* The points of the level shown while MIX is on, and the slope between two.
ShownAt(i) == DisplayPoints[i][1]
Shown(i) == DisplayPoints[i][2]
Between(i, db2) == Interpolate(db2, ShownAt(i), ShownAt(i + 1) - ShownAt(i),
                               Shown(i), Shown(i + 1) - Shown(i))

\* The captured points.
LEMMA DisplayTable ==
    /\ ShownAt(1) = -124 /\ ShownAt(2) = -108 /\ ShownAt(3) = -96 /\ ShownAt(4) = -85
    /\ ShownAt(5) = -70 /\ ShownAt(6) = -57 /\ ShownAt(7) = -15 /\ ShownAt(8) = -13
    /\ ShownAt(9) = -9
    /\ Shown(1) = 0 /\ Shown(2) = 1 /\ Shown(3) = 2 /\ Shown(4) = 3 /\ Shown(5) = 4
    /\ Shown(6) = 5 /\ Shown(7) = 10 /\ Shown(8) = 11 /\ Shown(9) = 12
  BY DEF ShownAt, Shown, DisplayPoints

\* A level is on one slope.
LEMMA SlopesOneByOne ==
    ASSUME NEW i \in 1..8, NEW j \in 1..8, NEW db2 \in Int,
           ShownAt(i) < db2, db2 <= ShownAt(i + 1),
           ShownAt(j) < db2, db2 <= ShownAt(j + 1)
    PROVE  i = j
  <1> DEFINE Low(k) == \/ k = 1 /\ db2 \in -123..-108
                       \/ k = 2 /\ -108 < db2 /\ db2 <= -96
                       \/ k = 3 /\ -96 < db2 /\ db2 <= -85
                       \/ k = 4 /\ -85 < db2 /\ db2 <= -70
                       \/ k = 5 /\ -70 < db2 /\ db2 <= -57
                       \/ k = 6 /\ -57 < db2 /\ db2 <= -15
                       \/ k = 7 /\ -15 < db2 /\ db2 <= -13
                       \/ k = 8 /\ -13 < db2 /\ db2 <= -9
  <1>1. Low(i)
    BY DisplayTable
  <1>2. Low(j)
    BY DisplayTable
  <1> QED  BY <1>1, <1>2

\* The level shown is that of the slope it is on.
LEMMA DisplayOnSlope ==
    ASSUME NEW i \in 1..8, NEW db2 \in Int, ShownAt(i) < db2, db2 <= ShownAt(i + 1)
    PROVE  MixDisplay(db2) = Between(i, db2)
  <1> DEFINE On(k) == DisplayPoints[k][1] < db2 /\ db2 <= DisplayPoints[k + 1][1]
             j == CHOOSE k \in 1..8 : On(k)
  <1>1. j \in 1..8 /\ On(j)
    <2>1. On(i)
      BY DEF ShownAt
    <2> QED  BY <2>1
  <1>2. ~(db2 <= -124) /\ ~(db2 > -9)
    BY DisplayTable
  <1>3. MixDisplay(db2) = Interpolate(db2, DisplayPoints[j][1],
              DisplayPoints[j + 1][1] - DisplayPoints[j][1],
              DisplayPoints[j][2], DisplayPoints[j + 1][2] - DisplayPoints[j][2])
    BY <1>2 DEF MixDisplay
  <1> HIDE DEF j
  <1>4. i = j
    BY <1>1, SlopesOneByOne DEF ShownAt
  <1> QED  BY <1>3, <1>4 DEF Between, Shown, ShownAt

\* On a slope the level shown does not fall, and stays within its ends.
LEMMA SlopeRises ==
    ASSUME NEW i \in 1..8, NEW db2 \in Int, ShownAt(i) < db2, db2 <= ShownAt(i + 1)
    PROVE  /\ Between(i, db2) \in Int /\ Shown(i) <= Between(i, db2)
           /\ Between(i, db2) <= Shown(i + 1)
           /\ Between(i, db2) <= Between(i, db2 + 1)
  <1>1. CASE i = 1
    BY <1>1, DisplayTable DEF Between, Interpolate
  <1>2. CASE i = 2
    BY <1>2, DisplayTable DEF Between, Interpolate
  <1>3. CASE i = 3
    BY <1>3, DisplayTable DEF Between, Interpolate
  <1>4. CASE i = 4
    BY <1>4, DisplayTable DEF Between, Interpolate
  <1>5. CASE i = 5
    BY <1>5, DisplayTable DEF Between, Interpolate
  <1>6. CASE i = 6
    BY <1>6, DisplayTable DEF Between, Interpolate
  <1>7. CASE i = 7
    BY <1>7, DisplayTable DEF Between, Interpolate
  <1>8. CASE i = 8
    BY <1>8, DisplayTable DEF Between, Interpolate
  <1> QED  BY <1>1, <1>2, <1>3, <1>4, <1>5, <1>6, <1>7, <1>8

\* The level shown does not fall when the level rises, from slope to slope.
LEMMA DisplayRises ==
    ASSUME NEW db2 \in Int, -124 <= db2
    PROVE  MixDisplay(db2) <= MixDisplay(db2 + 1)
  <1>1. CASE db2 = -124
    <2>1. MixDisplay(-124) = 0
      BY DEF MixDisplay
    <2>2. MixDisplay(-123) = Between(1, -123) /\ Between(1, -123) \in Int
          /\ Shown(1) <= Between(1, -123)
      <3>1. 1 \in 1..8 /\ -123 \in Int /\ ShownAt(1) < -123 /\ -123 <= ShownAt(1 + 1)
        BY DisplayTable
      <3> QED  BY <3>1, DisplayOnSlope, SlopeRises
    <2> QED  BY <1>1, <2>1, <2>2, DisplayTable
  <1>2. CASE -124 < db2 /\ db2 <= -9
    <2>1. PICK i \in 1..8 : ShownAt(i) < db2 /\ db2 <= ShownAt(i + 1)
      <3>1. \/ -124 < db2 /\ db2 <= -108
            \/ -108 < db2 /\ db2 <= -96
            \/ -96 < db2 /\ db2 <= -85
            \/ -85 < db2 /\ db2 <= -70
            \/ -70 < db2 /\ db2 <= -57
            \/ -57 < db2 /\ db2 <= -15
            \/ -15 < db2 /\ db2 <= -13
            \/ -13 < db2 /\ db2 <= -9
        BY <1>2
      <3> QED  BY <3>1, DisplayTable
    <2>2. MixDisplay(db2) = Between(i, db2) /\ Between(i, db2) \in Int
          /\ Between(i, db2) <= Shown(i + 1) /\ Between(i, db2) <= Between(i, db2 + 1)
      BY <2>1, DisplayOnSlope, SlopeRises
    <2>3. CASE db2 + 1 <= ShownAt(i + 1)
      <3>1. ShownAt(i) \in Int /\ ShownAt(i) < db2 + 1
        BY <2>1, DisplayTable
      <3>2. MixDisplay(db2 + 1) = Between(i, db2 + 1)
        BY <2>3, <3>1, DisplayOnSlope
      <3> QED  BY <2>2, <3>2
    <2>4. CASE db2 = ShownAt(i + 1) /\ i # 8
      <3> DEFINE j == i + 1
      <3>1. j \in 1..8 /\ ShownAt(j) < db2 + 1 /\ db2 + 1 <= ShownAt(j + 1)
        BY <2>4, DisplayTable
      <3>2. MixDisplay(db2 + 1) = Between(j, db2 + 1) /\ Between(j, db2 + 1) \in Int
            /\ Shown(j) <= Between(j, db2 + 1) /\ Shown(j) \in Int
        <4> HIDE DEF j
        <4> QED  BY <3>1, DisplayOnSlope, SlopeRises, DisplayTable
      <3> QED  BY <2>2, <3>2
    <2>5. CASE db2 = ShownAt(i + 1) /\ i = 8
      <3>1. db2 = -9 /\ Shown(i + 1) = 12
        BY <2>5, DisplayTable
      <3>2. MixDisplay(-8) = 12
        BY DEF MixDisplay, Clip
      <3> QED  BY <2>2, <3>1, <3>2
    <2>6. ShownAt(i + 1) \in Int
      BY DisplayTable
    <2> QED  BY <2>1, <2>3, <2>4, <2>5, <2>6
  <1>3. CASE -9 < db2
    BY <1>3 DEF MixDisplay, Clip
  <1> QED  BY <1>1, <1>2, <1>3

\* ... so it does not fall on a click up, nor rise on a click down.
LEMMA DisplayFollowsClick ==
    ASSUME NEW raw, Seeded(raw) \in Int, -124 <= Seeded(raw), Seeded(raw) <= 12
    PROVE  /\ MixDisplay(Clicked(raw, 1)) >= MixDisplay(Seeded(raw))
           /\ MixDisplay(Clicked(raw, -1)) <= MixDisplay(Seeded(raw))
  <1> DEFINE s == Seeded(raw)
  <1>1. /\ Clicked(raw, 1) = IF s + 1 > 12 THEN 12 ELSE s + 1
        /\ Clicked(raw, -1) = s - 1
    BY CurveEnds DEF Clicked, Clip, Inf
  <1>2. MixDisplay(s) <= MixDisplay(s + 1)
    BY DisplayRises
  <1>3. MixDisplay(Clicked(raw, 1)) >= MixDisplay(s)
    <2>1. CASE s = 12
      <3>1. MixDisplay(12) \in Int
        BY DEF MixDisplay, Clip
      <3> QED  BY <1>1, <2>1, <3>1
    <2>2. CASE s # 12
      <3>1. Clicked(raw, 1) = s + 1
        BY <1>1, <2>2
      <3> QED  BY <1>2, <3>1
    <2> QED  BY <2>1, <2>2
  <1>4. MixDisplay(s - 1) <= MixDisplay(s)
    <2>1. CASE s = -124
      <3>1. MixDisplay(-125) = 0 /\ MixDisplay(-124) = 0
        BY DEF MixDisplay
      <3> QED  BY <2>1, <3>1
    <2>2. CASE s # -124
      <3> DEFINE t == s - 1
      <3>1. t \in Int /\ -124 <= t /\ t + 1 = s
        BY <2>2
      <3> HIDE DEF t
      <3>2. MixDisplay(t) <= MixDisplay(t + 1)
        BY <3>1, DisplayRises
      <3> QED  BY <3>1, <3>2 DEF t
    <2> QED  BY <2>1, <2>2
  <1> QED  BY <1>1, <1>3, <1>4

\* The first step that is not mute.
LEMMA FirstStep == Master16(-180) = 1
  <1>1. -180 = 0 - 12 * 15 /\ 15 - 1 = 14 /\ 2 * Part(0) = 8192
    BY Octave
  <1>2. Master16(-180) = Clip((8192 + Power(14)) \div Power(15), 1, 16384)
    <2>1. \A h : h = 0 - 12 * 15 =>
             Master16(h) = Clip((2 * Part(0) + Power(15 - 1)) \div Power(15), 1, 16384)
      BY OctavesDown
    <2> QED  BY <1>1, <2>1
  <1> QED  BY <1>2, Powers DEF Clip

\* The wheel goes where it is turned from every value of a crosspoint, and the
\* master scale rises with its steps.
THEOREM ClicksKeepDirection == Spec => []ClickKeepsDirection
  <1>1. SweepInv => ClickKeepsDirection
    <2> SUFFICES ASSUME SweepInv PROVE ClickKeepsDirection
      OBVIOUS
    <2>1. ASSUME what = "fader"
          PROVE  /\ KeepsDirection(x)
                 /\ MixDisplay(Clicked(x, 1)) >= MixDisplay(Seeded(x))
                 /\ MixDisplay(Clicked(x, -1)) <= MixDisplay(Seeded(x))
      <3>1. x \in Nat /\ x <= FaderTop
        BY <2>1 DEF SweepInv
      <3>2. /\ KeepsDirection(x)
            /\ Seeded(x) \in Int /\ -124 <= Seeded(x) /\ Seeded(x) <= 12
        <4>1. CASE x < 3
          BY <3>1, <4>1, BelowTheCurve
        <4>2. CASE 3 <= x
          BY <3>1, <4>2, OnTheCurve
        <4> QED  BY <3>1, <4>1, <4>2
      <3> QED  BY <3>2, DisplayFollowsClick
    <2>2. ASSUME what = "master", x > 0
          PROVE  /\ MasterReg8(x) >= MasterReg8(x - 1)
                 /\ MasterReg16(x) >= MasterReg16(x - 1)
                 /\ x > 81 => MasterReg16(x) > MasterReg16(x - 1)
      <3>1. x \in Nat /\ 0 < x /\ x <= 193
        BY <2>2 DEF SweepInv, StepMax
      <3>2. MasterReg8(x) >= MasterReg8(x - 1)
        BY <3>1 DEF MasterReg8, Clip, Step0dB
      <3>3. CASE x = 1
        <4>1. MasterReg16(1) = 1 /\ MasterReg16(0) = 0
          BY FirstStep DEF MasterReg16, Step0dB
        <4> QED  BY <3>2, <3>3, <4>1
      <3>4. CASE x > 1
        <4> DEFINE h == x - 182
        <4>1. h \in -180..11 /\ h + 1 = x - 181 /\ h = (x - 1) - 181 /\ (x > 81 => h >= -100)
          BY <3>1, <3>4
        <4>2. MasterReg16(x) = Master16(h + 1) /\ MasterReg16(x - 1) = Master16(h)
          BY <3>1, <3>4, <4>1 DEF MasterReg16, Step0dB
        <4>3. Master16(h) <= Master16(h + 1) /\ (h >= -100 => Master16(h) < Master16(h + 1))
          BY <4>1, MasterRises
        <4> HIDE DEF h
        <4> QED  BY <3>2, <4>1, <4>2, <4>3
      <3> QED  BY <3>1, <3>3, <3>4
    <2> QED  BY <2>1, <2>2 DEF ClickKeepsDirection, KeepsDirection
  <1> QED  BY <1>1, SweepInvariant, PTL

----------------------------------------------------------------------------
\* The kinds of controls, and what their private values are.
LEMMA Kinds ==
    ASSUME NEW c \in Controls
    PROVE  \/ c[1] = "fader" /\ c[2] \in 0..83
           \/ c[1] \in {"master", "mute", "split", "loopback"} /\ c[2] \in 0..5
           \/ c[1] \in {"phase", "trim", "gain"} /\ c[2] \in 0..3
           \/ c[1] \in {"48V", "pad"} /\ c[2] \in 0..1
           \/ c[1] \in {"ref", "pitch", "an12", "clock", "optical", "link",
                        "ms", "dim", "width", "fx"} /\ c[2] = 0
           \/ c[1] = "selection" /\ c[2] \in 0..2
           \/ c[1] = "eq" /\ EqParam(c) \in 0..14
  <1>1. CASE c \in FaderControls \cup MasterControls \cup StripControls
    BY <1>1 DEF FaderControls, MasterControls, StripControls
  <1>2. CASE c \in PreampControls \cup FlagControls \cup SelectionControls
    BY <1>2 DEF PreampControls, FlagControls, SelectionControls
  <1>3. CASE c \in EqControls
    <2>1. PICK strip \in 0..3, param \in 0..14 : c = <<"eq", 256 * strip + param>>
      BY <1>3 DEF EqControls
    <2>2. EqParam(c) = param
      BY <2>1 DEF EqParam
    <2> QED  BY <2>1, <2>2
  <1> QED  BY <1>1, <1>2, <1>3 DEF Controls

\* A value that put() takes is cached whole: nothing is lost to sixteen bits.
LEMMA NotNarrowed ==
    ASSUME NEW v \in Nat, v < 65536
    PROVE  U16(v) = v
  BY DEF U16

\* A control of sixteen bits takes 0..top and reads back what it took.
LEMMA WordRestores ==
    ASSUME NEW v \in Int, NEW top \in Nat, top < 65536
    PROVE  /\ CheckedFirst(v, top) <=> 0 <= v /\ v <= top
           /\ CheckedFirst(v, top) => U16(v) = v
  BY NotNarrowed DEF CheckedFirst

\* The remainder of a number below two divisors.
LEMMA OnceRound ==
    ASSUME NEW n \in Nat \ {0}, NEW w \in Nat, w < 2 * n
    PROVE  w % n = IF w < n THEN w ELSE w - n
  <1>1. CASE w < n
    <2>1. w \div n = 0
      BY <1>1, SMTT(30)
    <2> QED  BY <1>1, <2>1
  <1>2. CASE n <= w
    <2>1. w \div n = 1
      BY <1>2, SMTT(30)
    <2>2. w % n = w - n * (w \div n)
      BY SMTT(30)
    <2> QED  BY <1>2, <2>1, <2>2
  <1> QED  BY <1>1, <1>2

\* An int keeps its value, and any other long becomes an int.
LEMMA Narrowed ==
    ASSUME NEW v \in Int
    PROVE  /\ S32(v) \in Int
           /\ -IntHalf <= v /\ v < IntHalf => S32(v) = v
  <1> DEFINE size == 2 * IntHalf
             w == v + IntHalf
  <1>1. IntHalf \in Nat /\ size \in Nat \ {0} /\ w \in Int /\ S32(v) = (w % size) - IntHalf
    BY IntAssumption DEF S32
  <1>2. w % size \in Int
    <2> HIDE DEF size, w
    <2> QED  BY <1>1
  <1>3. w \in Nat /\ w < size => w % size = w
    <2> HIDE DEF size, w
    <2>1. w < size /\ w \in Nat => w < 2 * size
      BY <1>1
    <2> QED  BY <1>1, <2>1, OnceRound
  <1>4. -IntHalf <= v /\ v < IntHalf => w \in Nat /\ w < size /\ w - IntHalf = v
    BY <1>1
  <1> QED  BY <1>1, <1>2, <1>3, <1>4

\* An item that the equaliser takes is what it is as an int.
LEMMA ItemNarrowed ==
    ASSUME NEW v \in Int, Item(v), S32(v) >= 0
    PROVE  S32(v) = v
  <1> DEFINE size == 2 * IntHalf
             w == v + IntHalf
  <1>1. IntHalf \in Nat /\ 0 <= v /\ v < size
    BY IntAssumption DEF Item
  <1>2. CASE v < IntHalf
    BY <1>1, <1>2, Narrowed
  <1>3. CASE v >= IntHalf
    <2>1. size \in Nat \ {0} /\ w \in Nat /\ w < 2 * size /\ ~(w < size)
          /\ (w - size) - IntHalf < 0
      BY <1>1, <1>3
    <2>2. S32(v) = (w % size) - IntHalf
      BY DEF S32
    <2> HIDE DEF size, w
    <2>3. w % size = w - size
      BY <2>1, OnceRound
    <2>4. S32(v) < 0
      BY <2>1, <2>2, <2>3
    <2> QED  BY <2>4, Narrowed
  <1> QED  BY <1>1, <1>2, <1>3

\* The equaliser's parameters take what is declared once it is an int ...
LEMMA EqTakesDeclared ==
    ASSUME NEW param \in 0..14, NEW v \in Int
    PROVE  EqTakes(param, v) <=> EqInfo(param)[1] <= S32(v) /\ S32(v) <= EqInfo(param)[2]
  <1> S32(v) \in Int
    BY Narrowed
  <1>1. CASE param \in {4, 5, 6, 13}
    <2>1. /\ param # 0 /\ param \notin {1, 2, 3, 14}
          /\ param \notin 7..9 /\ param \notin 10..12
      BY <1>1
    <2> QED  BY <1>1, <2>1 DEF EqTakes, EqInfo
  <1>2. CASE param \in 7..9
    <2>1. /\ param # 0 /\ param \notin {1, 2, 3, 14}
          /\ param \notin {4, 5, 6, 13} /\ param \notin 10..12
      BY <1>2
    <2>2. EqInfo(param) = <<5, 1000>>
      BY <1>2, <2>1 DEF EqInfo
    <2>3. EqTakes(param, v) <=> S32(v) >= 5 /\ S32(v) <= 1000
      <3>1. CASE param = 7
        BY <3>1 DEF EqTakes
      <3>2. CASE param = 8
        BY <3>2 DEF EqTakes
      <3>3. CASE param = 9
        BY <3>3 DEF EqTakes
      <3> QED  BY <1>2, <3>1, <3>2, <3>3
    <2> QED  BY <2>2, <2>3
  <1>3. CASE param \in 10..12
    <2>1. /\ param # 0 /\ param \notin {1, 2, 3, 14}
          /\ param \notin {4, 5, 6, 13} /\ param \notin 7..9
      BY <1>3
    <2>2. EqInfo(param) = <<-240, 240>>
      BY <1>3, <2>1 DEF EqInfo
    <2>3. EqTakes(param, v) <=> S32(v) >= -240 /\ S32(v) <= 240
      <3>1. CASE param = 10
        BY <3>1 DEF EqTakes
      <3>2. CASE param = 11
        BY <3>2 DEF EqTakes
      <3>3. CASE param = 12
        BY <3>3 DEF EqTakes
      <3> QED  BY <1>3, <3>1, <3>2, <3>3
    <2> QED  BY <2>2, <2>3
  <1>4. CASE param \in {1, 2, 3, 14}
    <2>1. /\ param # 0 /\ param \notin {4, 5, 6, 13}
          /\ param \notin 7..9 /\ param \notin 10..12
      BY <1>4
    <2> QED  BY <1>4, <2>1 DEF EqTakes, EqInfo
  <1>5. CASE param = 0
    BY <1>5 DEF EqTakes, EqInfo
  <1> QED  BY <1>1, <1>2, <1>3, <1>4, <1>5

\* ... and read it back, the slope among them, which is cached in dB.
LEMMA EqRestores ==
    ASSUME NEW c, c[1] = "eq", EqParam(c) \in 0..14, NEW v \in Int,
           Enumerated(c) => Item(v)
    PROVE  Restores(c, v)
  <1> DEFINE param == EqParam(c)
  <1>1. param \in 0..14 /\ (param \in {1, 2, 3, 14} => Item(v))
    BY DEF Enumerated
  <1>2. Info(c) = EqInfo(param) /\ Takes(c, v) = EqTakes(param, v)
        /\ Read(c, Cached(c, v)) = EqRead(param, EqCached(param, v))
    BY DEF Info, Takes, Read, Cached
  <1>3. Checked(c, v) = IF param \in {1, 2, 3, 14} THEN v ELSE S32(v)
    BY DEF Checked, Narrows, Enumerated
  <1> HIDE DEF param
  <1>4. S32(v) \in Int
    BY Narrowed
  <1>5. EqTakes(param, v) => EqRead(param, EqCached(param, v)) = S32(v)
    <2>1. CASE param = 14
      <3>1. EqTakes(param, v) => S32(v) \in {0, 1, 2, 3}
        BY <1>4, <2>1 DEF EqTakes
      <3> QED  BY <2>1, <3>1 DEF EqRead, EqCached
    <2>2. CASE param # 14
      BY <2>2 DEF EqRead, EqCached
    <2> QED  BY <2>1, <2>2
  <1>6. /\ EqInfo(param)[1] \in Int /\ EqInfo(param)[2] \in Int
        /\ -IntHalf <= EqInfo(param)[1] /\ EqInfo(param)[2] < IntHalf
        /\ param \in {1, 2, 3, 14} => EqInfo(param)[1] = 0
    BY <1>1, IntAssumption DEF EqInfo
  <1>7. EqInfo(param)[1] <= v /\ v <= EqInfo(param)[2] => S32(v) = v
    BY <1>6, IntAssumption, Narrowed
  <1>8. EqTakes(param, v) => Checked(c, v) = S32(v)
    BY <1>1, <1>3, <1>4, <1>6, ItemNarrowed, EqTakesDeclared
  <1> QED
    BY <1>1, <1>2, <1>4, <1>5, <1>6, <1>7, <1>8, EqTakesDeclared DEF Restores, Declared

\* A control takes what its info() declares and, but for switches, no other
\* value than one that it declares when it checks it; it reads back what it
\* has checked.
LEMMA AnyValueRestores ==
    ASSUME NEW c \in Controls, NEW v \in Int, Enumerated(c) => Item(v)
    PROVE  Restores(c, v)
  <1> S32(v) \in Int /\ (-32768 <= v /\ v < 32768 => S32(v) = v)
    BY Narrowed, IntAssumption
  <1>1. CASE c[1] = "eq"
    BY <1>1, Kinds, EqRestores
  <1>2. CASE c[1] = "fader"
    BY <1>2, FaderTopIs, WordRestores
       DEF Restores, Declared, Checked, Narrows, Info, FaderInfo, Takes, Read, Cached
  <1>3. CASE c[1] = "master"
    BY <1>3, WordRestores
       DEF Restores, Declared, Checked, Narrows, Info, MasterInfo, StepMax, Takes, Read, Cached
  <1>4. CASE c[1] = "fx"
    BY <1>4, WordRestores
       DEF Restores, Declared, Checked, Narrows, Info, FxInfo, Takes, Read, Cached
  <1>5. CASE c[1] = "trim"
    BY <1>5 DEF Restores, Declared, Checked, Narrows, Info, TrimInfo, Takes, Read, Cached
  <1>6. CASE c[1] = "gain"
    BY <1>6 DEF Restores, Declared, Checked, Narrows, Info, GainInfo, Takes, Read, Cached
  <1>7. CASE c[1] = "pitch"
    BY <1>7 DEF Restores, Declared, Checked, Narrows, Info, PitchInfo, Takes, Read, Cached
  <1>8. CASE c[1] = "width"
    BY <1>8 DEF Restores, Declared, Checked, Narrows, Info, WidthInfo, Takes, Read, Cached
  <1>9. CASE c[1] = "ref"
    BY <1>9 DEF Restores, Declared, Checked, Narrows, Info, Enumerated, Item,
       RefInfo, Takes, Read, Cached
  <1>10. CASE c[1] = "clock"
    BY <1>10 DEF Restores, Declared, Checked, Narrows, Info, Enumerated, Item,
       ClockInfo, Takes, Read, Cached
  <1>11. CASE c[1] = "optical"
    BY <1>11 DEF Restores, Declared, Checked, Narrows, Info, Enumerated, Item,
       OpticalInfo, Takes, Read, Cached
  <1>12. CASE c[1] = "selection"
    BY <1>12 DEF Restores, Declared, Checked, Narrows, Info, Enumerated, Item,
       SelectionInfo, SelectionRead, Takes, Read, Cached
  <1>13. CASE /\ c[1] \in {"mute", "split", "loopback", "phase", "48V", "pad", "an12",
                          "link", "ms", "dim"}
            /\ c[1] \notin {"fader", "master", "fx", "trim", "gain", "pitch",
                             "width", "ref", "clock", "optical", "selection", "eq"}
    <2>1. Info(c) = SwitchInfo /\ Read(c, Cached(c, v)) = IF v = 0 THEN 0 ELSE 1
      BY <1>13 DEF Info, Read, Cached
    <2>2. Takes(c, v)
      BY <1>13 DEF Takes
    <2> QED  BY <2>1, <2>2 DEF Restores, Declared, SwitchInfo
  <1> QED
    BY Kinds, <1>1, <1>2, <1>3, <1>4, <1>5, <1>6, <1>7, <1>8, <1>9, <1>10,
       <1>11, <1>12, <1>13

\* What a probe leaves is declared too.
LEMMA DefaultDeclared ==
    ASSUME NEW c \in Controls
    PROVE  /\ Read(c, Default(c)) \in Int
           /\ Declared(c, Read(c, Default(c)))
           /\ Enumerated(c) => Item(Read(c, Default(c)))
  <1> USE DEF Declared, Info, Read, Default
  <1>1. CASE c[1] = "eq"
    <2>1. EqParam(c) \in 0..14
      BY <1>1, Kinds
    <2> QED
      BY <1>1, <2>1, IntAssumption DEF EqInfo, EqRead, EqDefault, Enumerated, Item
  <1>2. CASE c[1] = "fader"
    BY <1>2, FaderTopIs DEF FaderInfo, Enumerated
  <1>3. CASE c[1] \in {"master", "mute", "selection", "trim", "gain", "pitch",
                       "width", "ref", "clock", "optical", "fx"}
    BY <1>3, Kinds, IntAssumption
       DEF MasterInfo, StepMax, MasterDefault, Step0dB, SwitchInfo, SelectionInfo,
           SelectionRead, TrimInfo, GainInfo, PitchInfo, WidthInfo, RefInfo,
           ClockInfo, OpticalInfo, FxInfo, Enumerated, Item
  <1>4. CASE c[1] \in {"split", "loopback", "phase", "48V", "pad", "an12",
                       "link", "ms", "dim"}
    BY <1>4 DEF SwitchInfo, Enumerated
  <1> QED  BY <1>1, <1>2, <1>3, <1>4, Kinds

\* What info() declares is a pair of numbers, so that all tries are numbers.
LEMMA InfoIsNumbers ==
    ASSUME NEW c \in Controls
    PROVE  Info(c)[1] \in Int /\ Info(c)[2] \in Int
  <1> USE DEF Info
  <1>1. CASE c[1] = "eq"
    <2>1. EqParam(c) \in 0..14
      BY <1>1, Kinds
    <2> QED
      BY <1>1, <2>1 DEF EqInfo
  <1>2. CASE c[1] # "eq"
    BY <1>2, FaderTopIs
       DEF FaderInfo, MasterInfo, StepMax, SwitchInfo, SelectionInfo, TrimInfo,
           GainInfo, PitchInfo, WidthInfo, RefInfo, ClockInfo, OpticalInfo, FxInfo
  <1> QED  BY <1>1, <1>2

\* What is put is a number, and for an enumeration an item.
LEMMA TriesAreNumbers ==
    ASSUME NEW c \in Controls, NEW v \in Tries(c)
    PROVE  v \in Int /\ (Enumerated(c) => Item(v))
  <1> DEFINE low == Info(c)[1]
             high == Info(c)[2]
  <1>1. low \in Int /\ high \in Int
    BY InfoIsNumbers
  <1>2. Enumerated(c) => Item(v)
    BY DEF Tries
  <1>3. v \in {low - 1, low, low + 1, (low + high) \div 2, high - 1, high, high + 1,
               65536 + low, 65536 + high, low - 65536, IntHalf + low,
               2 * IntHalf + low, 2 * IntHalf + high + 1, high - 2 * IntHalf, 2, 3, 4}
    BY DEF Tries
  <1> HIDE DEF low, high
  <1>4. (low + high) \div 2 \in Int /\ IntHalf \in Nat
    BY <1>1, IntAssumption
  <1> QED  BY <1>1, <1>2, <1>3, <1>4

\* What alsactl has stored is restored, after any put that is taken and from
\* what a probe leaves.  Longs are of any size, and an int of any width that C
\* allows: what trim, gain and the equaliser take when a long does not fit an
\* int is a declared value too.
THEOREM StoresRestore == Spec => []StoreRestores
  <1> DEFINE Numbers == what = "control" => /\ fixed \in Controls /\ x \in Int
                                            /\ Enumerated(fixed) => Item(x)
  <1>1. Init => Numbers
    BY DefaultDeclared DEF Init
  <1>2. Numbers /\ [Next]_vars => Numbers'
    <2> SUFFICES ASSUME Numbers, [Next]_vars, what' = "control" PROVE Numbers'
      OBVIOUS
    <2>1. CASE Put
      <3>1. what = "control" /\ x' \in Tries(fixed) /\ UNCHANGED fixed
        BY <2>1 DEF Put
      <3>2. x' \in Int /\ (Enumerated(fixed) => Item(x'))
        BY <3>1, TriesAreNumbers
      <3> QED  BY <3>1, <3>2
    <2>2. CASE UNCHANGED vars
      BY <2>2 DEF vars
    <2>3. CASE Lengthen \/ RaiseFader \/ RaiseMaster
      BY <2>3 DEF Lengthen, RaiseFader, RaiseMaster, Step
    <2> QED  BY <2>1, <2>2, <2>3 DEF Next
  <1>3. Numbers => StoreRestores
    BY AnyValueRestores, DefaultDeclared DEF StoreRestores
  <1> QED  BY <1>1, <1>2, <1>3, PTL DEF Spec
----------------------------------------------------------------------------
\* A control is its kind and its private value.
LEMMA ControlIsPair ==
    ASSUME NEW c \in Controls
    PROVE  c = <<c[1], c[2]>>
  BY DEF Controls, FaderControls, MasterControls, StripControls, PreampControls,
         FlagControls, SelectionControls, EqControls

\* The strip and the parameter of an equaliser's control.
LEMMA EqParts ==
    ASSUME NEW c \in Controls, c[1] = "eq"
    PROVE  /\ c[2] \div 256 \in 0..3 /\ EqParam(c) \in 0..14
           /\ c[2] = 256 * (c[2] \div 256) + EqParam(c)
  <1>1. c \in EqControls
    BY DEF Controls, FaderControls, MasterControls, StripControls, PreampControls,
           FlagControls, SelectionControls
  <1>2. PICK strip \in 0..3, param \in 0..14 : c = <<"eq", 256 * strip + param>>
    BY <1>1 DEF EqControls
  <1> QED  BY <1>2 DEF EqParam

----------------------------------------------------------------------------
\* Names: what follows the name tells the kinds apart, but for faders and
\* masters; their index and the name do.
OtherKinds == {"phase", "trim", "split", "loopback", "gain", "48V", "pad", "ref", "pitch",
               "an12", "clock", "optical", "link", "ms", "dim", "width", "fx", "selection"}

\* What a name tells of a control.
LEMMA KindsByName ==
    ASSUME NEW c \in Controls
    PROVE  \/ c[1] = "fader" /\ c[2] \in 0..83
              /\ Id(c)[1] = SourceName[1 + FaderSrc(c)]
              /\ Id(c)[2] = "Playback Volume" /\ Id(c)[4] = c[2]
           \/ c[1] = "master" /\ c[2] \in 0..5 /\ Id(c)[1] = OutName[1 + c[2]]
              /\ Id(c)[2] = "Playback Volume" /\ Id(c)[4] = c[2]
           \/ c[1] = "mute" /\ c[2] \in 0..5
              /\ Id(c)[2] = "Playback Switch" /\ Id(c)[4] = c[2]
           \/ c[1] = "eq" /\ Id(c)[1] = SourceName[1 + c[2] \div 256]
              /\ Id(c)[2] = "EQ" /\ Id(c)[3] = EqParam(c)
           \/ c[1] \in OtherKinds /\ Id(c)[2] = c[1] /\ Id(c)[4] = c[2]
  <1>1. CASE c[1] = "fader"
    <2>1. c[2] \in 0..83
      BY <1>1, Kinds
    <2>3. Id(c)[1] = SourceName[1 + FaderSrc(c)] /\ Id(c)[2] = "Playback Volume"
          /\ Id(c)[4] = c[2]
      BY <1>1 DEF Id, FaderId
    <2> QED  BY <1>1, <2>1, <2>3
  <1>2. CASE c[1] \in {"master", "mute"}
    BY <1>2, Kinds DEF Id
  <1>3. CASE c[1] = "eq"
    BY <1>3 DEF Id
  <1>4. CASE c[1] \in {"phase", "trim"}
    BY <1>4 DEF Id, OtherKinds
  <1>5. CASE c[1] = "split"
    BY <1>5 DEF Id, OtherKinds
  <1>6. CASE c[1] \in OtherKinds \ {"phase", "trim", "split"}
    <2>1. c[1] \notin {"fader", "master", "mute", "phase", "trim", "split", "eq"}
      BY <1>6 DEF OtherKinds
    <2>3. Id(c)[2] = c[1] /\ Id(c)[4] = c[2]
      BY <2>1 DEF Id
    <2> QED  BY <1>6, <2>3
  <1>7. c[1] \in OtherKinds \cup {"fader", "master", "mute", "eq"}
    BY Kinds DEF OtherKinds
  <1> QED  BY <1>1, <1>2, <1>3, <1>4, <1>5, <1>6, <1>7

\* Sources and outputs of one index have different names.
LEMMA NamesDiffer ==
    /\ \A i \in 0..5 : SourceName[1 + (i % 14)] # OutName[1 + i]
    /\ \A i, j \in 0..3 : SourceName[1 + i] = SourceName[1 + j] => i = j
  <1>1. \A i \in 0..5 : i % 14 = i
    OBVIOUS
  <1>2. \A i \in 0..5 : SourceName[1 + i] # OutName[1 + i]
    BY DEF SourceName, OutName
  <1>3. \A i, j \in 0..3 : SourceName[1 + i] = SourceName[1 + j] => i = j
    BY DEF SourceName
  <1> QED  BY <1>1, <1>2, <1>3

\* Two controls of one name and index are one.
LEMMA OneOfEachName ==
    ASSUME NEW c \in Controls, NEW d \in Controls, Id(c) = Id(d)
    PROVE  c = d
  <1> DEFINE suffix == Id(c)[2]
  <1>1. c = <<c[1], c[2]>> /\ d = <<d[1], d[2]>>
    BY ControlIsPair
  <1>2. /\ Id(c)[1] = Id(d)[1] /\ Id(c)[2] = Id(d)[2]
        /\ Id(c)[3] = Id(d)[3] /\ Id(c)[4] = Id(d)[4]
    OBVIOUS
  <1>3. c[1] = "eq" <=> d[1] = "eq"
    <2>1. \A e \in Controls : e[1] = "eq" <=> Id(e)[2] = "EQ"
      BY KindsByName DEF OtherKinds
    <2> QED  BY <1>2, <2>1
  <1>4. CASE c[1] = "eq" /\ d[1] = "eq"
    <2>1. /\ SourceName[1 + c[2] \div 256] = SourceName[1 + d[2] \div 256]
          /\ EqParam(c) = EqParam(d)
      <3>1. ASSUME NEW e \in Controls, e[1] = "eq"
            PROVE  Id(e)[1] = SourceName[1 + e[2] \div 256] /\ Id(e)[3] = EqParam(e)
        BY <3>1 DEF Id
      <3>2. Id(c)[1] = SourceName[1 + c[2] \div 256] /\ Id(c)[3] = EqParam(c)
        BY <1>4, <3>1
      <3>3. Id(d)[1] = SourceName[1 + d[2] \div 256] /\ Id(d)[3] = EqParam(d)
        BY <1>4, <3>1
      <3> QED  BY <1>2, <3>2, <3>3
    <2>2. c[2] \div 256 = d[2] \div 256
      BY <1>4, <2>1, EqParts, NamesDiffer
    <2>3. c[2] = d[2]
      BY <1>4, <2>1, <2>2, EqParts
    <2> QED  BY <1>1, <1>4, <2>3
  <1>5. CASE c[1] # "eq" /\ d[1] # "eq"
    <2>1. c[2] = d[2]
      BY <1>2, <1>5, KindsByName
    <2>2. c[1] = d[1] \/ {c[1], d[1]} = {"fader", "master"}
      BY <1>2, <1>5, KindsByName DEF OtherKinds
    <2>3. ~(c[1] = "fader" /\ d[1] = "master") /\ ~(c[1] = "master" /\ d[1] = "fader")
      <3>1. ASSUME NEW e \in Controls, NEW f \in Controls, e[1] = "fader", f[1] = "master",
                   e[2] = f[2], Id(e)[1] = Id(f)[1]
            PROVE  FALSE
        <4>1. /\ Id(e)[1] = SourceName[1 + FaderSrc(e)]
              /\ f[2] \in 0..5 /\ Id(f)[1] = OutName[1 + f[2]]
          BY <3>1, KindsByName DEF OtherKinds
        <4>2. FaderSrc(e) = f[2] % 14
          BY <3>1 DEF FaderSrc
        <4> QED  BY <3>1, <4>1, <4>2, NamesDiffer
      <3> QED  BY <1>2, <2>1, <3>1
    <2> QED  BY <1>1, <2>1, <2>2, <2>3
  <1> QED  BY <1>3, <1>4, <1>5

----------------------------------------------------------------------------
\* Registers: what each kind of control writes.  The controls that overlay one
\* another stay on the registers of the outputs' blocks, six of 52, that are no
\* crossing of a stereo source.
Crossing(k) == k \in {5, 7, 9, 11, 13, 15, 17, 19, 21, 23}
                \/ k - 26 \in {4, 6, 8, 10, 12, 14, 16, 18, 20, 22}
\* The registers of the outputs' blocks but the crossings of stereo sources.
OnBlock(r) == /\ r[1] = "crosspoint"
              /\ \E out \in 0..5, k \in 0..49 : r[2] = 52 * out + k /\ ~Crossing(k)

\* Where in its output's block a source's side is.
Offset(src, side) == SourceOffset(src, side) + IF side = "l" THEN 0 ELSE 26

\* Two sources have offsets of their own, that are no crossings.
LEMMA OffsetsApart ==
    ASSUME NEW src \in 0..13, NEW side \in {"l", "r"}
    PROVE  /\ Offset(src, side) \in 0..49 /\ ~Crossing(Offset(src, side))
           /\ \A other \in 0..13, also \in {"l", "r"} :
                 Offset(other, also) = Offset(src, side) => other = src
  <1>1. \A s \in 0..13, d \in {"l", "r"} :
           Offset(s, d) = IF d = "l" THEN IF s < 4 THEN s ELSE 2 * s - 4
                          ELSE IF s < 4 THEN s + 26 ELSE 2 * s + 23
    BY DEF Offset, SourceOffset
  <1>2. Offset(src, side) \in 0..49
    BY <1>1
  <1>3. \A other \in 0..13, also \in {"l", "r"} :
           Offset(other, also) = Offset(src, side) => other = src
    BY <1>1
  <1>4. ~Crossing(Offset(src, side))
    <2>1. CASE side = "l"
      BY <1>1, <2>1 DEF Crossing
    <2>2. CASE side = "r"
      BY <1>1, <2>2 DEF Crossing
    <2> QED  BY <2>1, <2>2
  <1> QED  BY <1>2, <1>3, <1>4

\* A crosspoint's address is its block's and its offset.
LEMMA CrosspointIs ==
    ASSUME NEW out \in 0..5, NEW src \in 0..13, NEW side \in {"l", "r"}
    PROVE  /\ CrosspointReg(out, src, side) = <<"crosspoint", 52 * out + Offset(src, side)>>
           /\ OnBlock(CrosspointReg(out, src, side))
  <1>1. SourceOffset(src, side) \in Int
    BY DEF SourceOffset
  <1>2. CrosspointReg(out, src, side) = <<"crosspoint", 52 * out + Offset(src, side)>>
    BY <1>1 DEF CrosspointReg, Offset
  <1>3. Offset(src, side) \in 0..49 /\ ~Crossing(Offset(src, side))
    BY OffsetsApart
  <1> QED  BY <1>2, <1>3 DEF OnBlock

\* Blocks do not overlap.
LEMMA BlocksApart ==
    ASSUME NEW o \in 0..5, NEW p \in 0..5, NEW k \in 0..51, NEW l \in 0..51,
           52 * o + k = 52 * p + l
    PROVE  o = p /\ k = l
  OBVIOUS

\* What overlays writes is in the blocks.
LEMMA OverlaysOnBlocks ==
    ASSUME NEW c \in Controls, c[1] \in Overlays, NEW r \in Registers(c)
    PROVE  OnBlock(r)
  <1>1. CASE c[1] = "fader"
    <2>1. c[2] \in 0..83
      BY <1>1, Kinds
    <2>2. FaderOut(c) \in 0..5 /\ FaderSrc(c) \in 0..13
      BY <2>1 DEF FaderOut, FaderSrc
    <2>3. PICK side \in {"l", "r"} : r = CrosspointReg(FaderOut(c), FaderSrc(c), side)
      BY <1>1 DEF Registers, FaderRegs
    <2> QED  BY <2>2, <2>3, CrosspointIs
  <1>2. CASE c[1] = "phase"
    <2>1. c[2] \in 0..13
      BY <1>2, Kinds
    <2>2. PICK out \in 0..5 : r = CrosspointReg(out, c[2], "l")
      BY <1>2 DEF Registers, PhaseRegs
    <2> QED  BY <2>1, <2>2, CrosspointIs
  <1>3. CASE c[1] = "split"
    <2>1. 8 + c[2] \in 0..13
      BY <1>3, Kinds
    <2>2. PICK side \in {"l", "r"} : r = CrosspointReg(0, 8 + c[2], side)
      BY <1>3 DEF Registers, SplitRegs
    <2> QED  BY <2>1, <2>2, CrosspointIs
  <1>4. CASE c[1] = "trim"
    <2>1. c[2] \in 0..3
      BY <1>4, Kinds
    <2>2. 2 * (c[2] \div 2) \in 0..13 /\ 2 * (c[2] \div 2) + 1 \in 0..13
      BY <2>1
    <2>3. PICK src \in {2 * (c[2] \div 2), 2 * (c[2] \div 2) + 1}, side \in {"l", "r"} :
             r = CrosspointReg(0, src, side)
      BY <1>4 DEF Registers, TrimRegs
    <2> QED  BY <2>2, <2>3, CrosspointIs
  <1>5. CASE c[1] \in {"ms", "width"}
    <2>1. PICK out \in 0..1, k \in {0, 1, 26, 27} : r = <<"crosspoint", 52 * out + k>>
      <3>1. CASE c[1] = "ms"
        BY <3>1 DEF Registers, MsRegs
      <3>2. CASE c[1] = "width"
        BY <3>2 DEF Registers, WidthRegs
      <3> QED  BY <1>5, <3>1, <3>2
    <2>2. ~Crossing(k) /\ k \in 0..49
      BY DEF Crossing
    <2> QED  BY <2>1, <2>2 DEF OnBlock
  <1> QED  BY <1>1, <1>2, <1>3, <1>4, <1>5 DEF Overlays

\* An output's four masters.
OnMaster(r, out) == /\ out \in 0..5
                    /\ \/ r[1] = "gain" /\ r[2] \in {4 + 2 * out, 5 + 2 * out}
                       \/ r[1] = "crosspoint" /\ r[2] \in {992 + 2 * out, 993 + 2 * out}

\* Masters write only their output's.
LEMMA MastersAreOn ==
    ASSUME NEW out \in 0..5, NEW r \in MasterRegs(out)
    PROVE  OnMaster(r, out)
  BY DEF MasterRegs, OnMaster

\* What each other kind of control writes.
LEMMA OtherRegisters ==
    ASSUME NEW c \in Controls, c[1] \notin Overlays, NEW r \in Registers(c)
    PROVE  \/ c[1] = "fx" /\ r[1] = "crosspoint" /\ r[2] \in {312, 339}
           \/ c[1] \in {"master", "mute"} /\ OnMaster(r, c[2])
           \/ c[1] = "dim" /\ c[2] = 0
              /\ (OnMaster(r, 1) \/ (r[1] = "preamp" /\ r[2] = 8192))
           \/ c[1] = "gain" /\ r[1] = "gain" /\ r[2] = c[2] /\ c[2] \in 0..3
           \/ c[1] \in {"48V", "pad", "ref", "an12", "link"}
              /\ (r[1] = "commit" \/ (r[1] = "preamp" /\ r[2] \in {63, 4096}))
           \/ c[1] \in {"clock", "optical", "pitch"} /\ r[1] \in {"keepalive", "dds"}
           \/ c[1] = "loopback" /\ r[1] = "loopback"
           \/ c[1] = "eq" /\ r[1] = "eq" /\ r[2] = c[2] \div 256
  <1>1. CASE c[1] = "fx"
    BY <1>1 DEF Registers, FxRegs
  <1>2. CASE c[1] \in {"master", "mute"}
    <2>1. c[2] \in 0..5 /\ r \in MasterRegs(c[2])
      BY <1>2, Kinds DEF Registers
    <2> QED  BY <1>2, <2>1, MastersAreOn
  <1>3. CASE c[1] = "dim"
    <2>1. c[2] = 0 /\ (r \in MasterRegs(1) \/ r = <<"preamp", 8192>>)
      BY <1>3, Kinds DEF Registers
    <2> QED  BY <1>3, <2>1, MastersAreOn
  <1>4. CASE c[1] = "gain"
    BY <1>4, Kinds DEF Registers
  <1>5. CASE c[1] \in {"48V", "pad", "ref", "an12", "link"}
    BY <1>5 DEF Registers, PreampRegs
  <1>6. CASE c[1] \in {"clock", "optical"}
    BY <1>6 DEF Registers, SettingsRegs
  <1>7. CASE c[1] = "pitch"
    BY <1>7 DEF Registers, SettingsRegs
  <1>8. CASE c[1] = "loopback"
    BY <1>8 DEF Registers, LoopbackRegs
  <1>9. CASE c[1] = "eq"
    BY <1>9 DEF Registers
  <1>10. CASE c[1] = "selection"
    BY <1>10 DEF Registers
  <1>11. c[1] \in {"fx", "master", "mute", "dim", "gain", "48V", "pad", "ref", "an12", "link",
                   "clock", "optical", "pitch", "loopback", "eq", "selection"}
    BY Kinds DEF Overlays
  <1> QED  BY <1>1, <1>2, <1>3, <1>4, <1>5, <1>6, <1>7, <1>8, <1>9, <1>10, <1>11

\* No other control writes where the overlays do ...
LEMMA BlocksAreOverlays ==
    ASSUME NEW c \in Controls, c[1] \notin Overlays, NEW r \in Registers(c)
    PROVE  ~OnBlock(r)
  <1>1. OnBlock(r) => r[1] = "crosspoint" /\ r[2] \in Int /\ 0 <= r[2] /\ r[2] < 312
    BY DEF OnBlock
  <1>2. r[1] = "crosspoint" => r[2] >= 312
    BY OtherRegisters DEF OnMaster
  <1> QED  BY <1>1, <1>2

\* ... and two faders write registers of their own.
LEMMA FadersApart ==
    ASSUME NEW c \in Controls, NEW d \in Controls, c[1] = "fader", d[1] = "fader",
           NEW r \in Registers(c) \cap Registers(d)
    PROVE  c = d
  <1> DEFINE o == FaderOut(c)
             p == FaderOut(d)
             s == FaderSrc(c)
             t == FaderSrc(d)
  <1>1. c[2] \in 0..83 /\ d[2] \in 0..83
    BY Kinds
  <1>2. /\ o \in 0..5 /\ s \in 0..13 /\ c[2] = 14 * o + s
        /\ p \in 0..5 /\ t \in 0..13 /\ d[2] = 14 * p + t
    BY <1>1 DEF FaderOut, FaderSrc
  <1>3. PICK a \in {"l", "r"} : r = CrosspointReg(o, s, a)
    BY DEF Registers, FaderRegs
  <1>4. PICK b \in {"l", "r"} : r = CrosspointReg(p, t, b)
    BY DEF Registers, FaderRegs
  <1> HIDE DEF o, p, s, t
  <1>5. r = <<"crosspoint", 52 * o + Offset(s, a)>> /\ r = <<"crosspoint", 52 * p + Offset(t, b)>>
    <2>1. r = <<"crosspoint", 52 * o + Offset(s, a)>>
      BY <1>2, <1>3, CrosspointIs
    <2>2. r = <<"crosspoint", 52 * p + Offset(t, b)>>
      BY <1>2, <1>4, CrosspointIs
    <2> QED  BY <2>1, <2>2
  <1>6. Offset(s, a) \in 0..49 /\ Offset(t, b) \in 0..49
    BY <1>2, OffsetsApart
  <1>7. o = p /\ Offset(s, a) = Offset(t, b)
    <2> DEFINE k == Offset(s, a)
               l == Offset(t, b)
    <2>1. k \in 0..51 /\ l \in 0..51 /\ o \in 0..5 /\ p \in 0..5
      BY <1>2, <1>6
    <2>2. 52 * o + k = 52 * p + l
      BY <1>5
    <2> HIDE DEF k, l
    <2>3. o = p /\ k = l
      BY <2>1, <2>2, BlocksApart
    <2> QED  BY <2>3 DEF k, l
  <1>8. s = t
    BY <1>2, <1>7, OffsetsApart
  <1> QED  BY <1>2, <1>7, <1>8, ControlIsPair

\* Controls that write one register are meant to.
LEMMA SharedOnPurpose ==
    ASSUME NEW c \in Controls, NEW d \in Controls, c # d,
           NEW r \in Registers(c) \cap Registers(d)
    PROVE  Shares(c, d)
  <1>1. c[1] \in Overlays <=> d[1] \in Overlays
    BY OverlaysOnBlocks, BlocksAreOverlays
  <1>2. CASE c[1] \in Overlays /\ d[1] \in Overlays
    <2>1. ~(c[1] = "fader" /\ d[1] = "fader")
      BY FadersApart
    <2>2. {c[1], d[1]} # {"fader"}
      BY <2>1
    <2> QED  BY <1>2, <2>2 DEF Shares
  <1>3. CASE c[1] \notin Overlays /\ d[1] \notin Overlays
    <2>1. c = <<c[1], c[2]>> /\ d = <<d[1], d[2]>>
      BY ControlIsPair
    <2>2. CASE c[1] \in {"master", "mute"}
      <3>1. OnMaster(r, c[2])
        BY <1>3, <2>2, OtherRegisters
      <3>2. \/ d[1] \in {"master", "mute"} /\ OnMaster(r, d[2])
            \/ d[1] = "dim" /\ OnMaster(r, 1)
        BY <1>3, <3>1, OtherRegisters DEF OnMaster
      <3>3. \/ d[1] \in {"master", "mute"} /\ c[2] = d[2]
            \/ d[1] = "dim" /\ c[2] = 1
        BY <3>1, <3>2 DEF OnMaster
      <3> QED  BY <2>2, <3>3 DEF Shares
    <2>3. CASE c[1] = "dim"
      <3>1. CASE OnMaster(r, 1)
        <4>1. \/ d[1] \in {"master", "mute"} /\ OnMaster(r, d[2])
              \/ d[1] = "dim"
          BY <1>3, <3>1, OtherRegisters DEF OnMaster
        <4>2. d[1] \in {"master", "mute"} => d[2] = 1
          BY <3>1, <4>1 DEF OnMaster
        <4>3. d[1] # "dim"
          BY <2>1, <2>3, Kinds
        <4> QED  BY <2>3, <4>1, <4>2, <4>3 DEF Shares
      <3>2. CASE r[1] = "preamp" /\ r[2] = 8192
        <4>1. d[1] = "dim"
          BY <1>3, <3>2, OtherRegisters DEF OnMaster
        <4> QED  BY <2>1, <2>3, <4>1, Kinds
      <3> QED  BY <1>3, <2>3, <3>1, <3>2, OtherRegisters
    <2>4. CASE c[1] = "fx"
      <3>1. r[1] = "crosspoint" /\ r[2] \in {312, 339}
        BY <1>3, <2>4, OtherRegisters
      <3>2. d[1] = "fx"
        BY <1>3, <3>1, OtherRegisters DEF OnMaster
      <3> QED  BY <2>1, <2>4, <3>2, Kinds
    <2>5. CASE c[1] = "gain"
      <3>1. r[1] = "gain" /\ r[2] = c[2] /\ c[2] \in 0..3
        BY <1>3, <2>5, OtherRegisters
      <3>2. d[1] = "gain" /\ r[2] = d[2]
        BY <1>3, <3>1, OtherRegisters DEF OnMaster
      <3> QED  BY <2>1, <2>5, <3>1, <3>2
    <2>6. CASE c[1] \in {"48V", "pad", "ref", "an12", "link"}
      <3>1. r[1] = "commit" \/ (r[1] = "preamp" /\ r[2] \in {63, 4096})
        BY <1>3, <2>6, OtherRegisters
      <3>2. d[1] \in {"48V", "pad", "ref", "an12", "link"}
        BY <1>3, <3>1, OtherRegisters DEF OnMaster
      <3> QED  BY <2>6, <3>2 DEF Shares, Families
    <2>7. CASE c[1] \in {"clock", "optical", "pitch"}
      <3>1. r[1] \in {"keepalive", "dds"}
        BY <1>3, <2>7, OtherRegisters
      <3>2. d[1] \in {"clock", "optical", "pitch"}
        BY <1>3, <3>1, OtherRegisters DEF OnMaster
      <3> QED  BY <2>7, <3>2 DEF Shares, Families
    <2>8. CASE c[1] = "loopback"
      <3>1. r[1] = "loopback"
        BY <1>3, <2>8, OtherRegisters
      <3>2. d[1] = "loopback"
        BY <1>3, <3>1, OtherRegisters DEF OnMaster
      <3> QED  BY <2>8, <3>2 DEF Shares, Families
    <2>9. CASE c[1] = "eq"
      <3>1. r[1] = "eq" /\ r[2] = c[2] \div 256
        BY <1>3, <2>9, OtherRegisters
      <3>2. d[1] = "eq" /\ r[2] = d[2] \div 256
        BY <1>3, <3>1, OtherRegisters DEF OnMaster
      <3> QED  BY <2>9, <3>1, <3>2 DEF Shares
    <2> QED  BY <1>3, <2>2, <2>3, <2>4, <2>5, <2>6, <2>7, <2>8, <2>9, OtherRegisters
  <1> QED  BY <1>1, <1>2, <1>3

\* The crossings that a cold init clears are nobody's.
LEMMA CrossingsAreFree ==
    ASSUME NEW c \in Controls, NEW out \in 0..5
    PROVE  CrossRegs(out) \cap Registers(c) = {}
  <1> SUFFICES ASSUME NEW r \in Registers(c), r \in CrossRegs(out) PROVE FALSE
    OBVIOUS
  <1>1. PICK k \in 5..48 : r = <<"crosspoint", 52 * out + k>> /\ Crossing(k)
    <2>1. CASE r \in {<<"crosspoint", 52 * out + k>> : k \in {5, 7, 9, 11, 13, 15, 17, 19, 21, 23}}
      BY <2>1 DEF Crossing
    <2>2. CASE r \in {<<"crosspoint", 52 * out + 26 + k>> :
                          k \in {4, 6, 8, 10, 12, 14, 16, 18, 20, 22}}
      <3>1. PICK k \in {4, 6, 8, 10, 12, 14, 16, 18, 20, 22} :
               r = <<"crosspoint", 52 * out + 26 + k>>
        BY <2>2
      <3>2. 26 + k \in 5..48 /\ Crossing(26 + k) /\ 52 * out + 26 + k = 52 * out + (26 + k)
        BY DEF Crossing
      <3> QED  BY <3>1, <3>2
    <2> QED  BY <2>1, <2>2 DEF CrossRegs
  <1>2. ~OnBlock(r)
    <2> SUFFICES ASSUME NEW o \in 0..5, NEW l \in 0..49, r[2] = 52 * o + l
                 PROVE  Crossing(l)
      BY DEF OnBlock
    <2>1. 52 * o + l = 52 * out + k
      BY <1>1
    <2>2. l = k
      BY <2>1
    <2> QED  BY <1>1, <2>2
  <1>3. c[1] \notin Overlays
    BY <1>2, OverlaysOnBlocks
  <1>4. r[1] = "crosspoint" /\ r[2] \in Int /\ r[2] < 312
    BY <1>1
  <1> QED  BY <1>3, <1>4, OtherRegisters DEF OnMaster

\* Every control has a name and registers of its own, but for what is shared
\* on purpose, and no register is written that a cold init or the panel owns.
THEOREM RegistersAreOwned == Spec => []OwnRegisters
  <1>1. SweepInv => OwnRegisters
    <2> SUFFICES ASSUME fixed \in Controls
                 PROVE
        /\ \A d \in Controls \ {fixed} :
              /\ Id(d) # Id(fixed)
              /\ Registers(d) \cap Registers(fixed) # {} => Shares(fixed, d)
        /\ \A out \in 0..5 : CrossRegs(out) \cap Registers(fixed) = {}
        /\ fixed[1] = "ms" => Registers(fixed) = FaderRegs(0, 1) \cup FaderRegs(1, 1)
        /\ fixed[1] = "width" =>
              Registers(fixed) = UNION {FaderRegs(o, s) : o \in {0, 1}, s \in {0, 1}}
        /\ PanelGainRegs \cap Registers(fixed) # {} =>
              fixed[1] \in {"master", "mute"} /\ fixed[2] \in {3, 4}
      BY DEF SweepInv, OwnRegisters
    <2>1. ASSUME NEW d \in Controls \ {fixed}
          PROVE  /\ Id(d) # Id(fixed)
                 /\ Registers(d) \cap Registers(fixed) # {} => Shares(fixed, d)
      BY OneOfEachName, SharedOnPurpose
    <2>2. \A out \in 0..5 : CrossRegs(out) \cap Registers(fixed) = {}
      BY CrossingsAreFree
    <2>3. \A o \in {0, 1}, s \in {0, 1} :
             FaderRegs(o, s) = {<<"crosspoint", 52 * o + s>>, <<"crosspoint", 52 * o + s + 26>>}
      BY DEF FaderRegs, CrosspointReg, SourceOffset
    <2>4. fixed[1] = "ms" => Registers(fixed) = FaderRegs(0, 1) \cup FaderRegs(1, 1)
      BY <2>3 DEF Registers, MsRegs
    <2>5. fixed[1] = "width" =>
              Registers(fixed) = UNION {FaderRegs(o, s) : o \in {0, 1}, s \in {0, 1}}
      BY <2>3 DEF Registers, WidthRegs
    <2>6. ASSUME NEW r \in PanelGainRegs \cap Registers(fixed)
          PROVE  fixed[1] \in {"master", "mute"} /\ fixed[2] \in {3, 4}
      <3>1. r[1] = "gain" /\ r[2] \in 10..13
        BY DEF PanelGainRegs
      <3>2. fixed[1] \notin Overlays
        BY <3>1, OverlaysOnBlocks DEF OnBlock
      <3>3. fixed[1] \in {"master", "mute"} /\ OnMaster(r, fixed[2])
        BY <3>1, <3>2, OtherRegisters DEF OnMaster
      <3> QED  BY <3>1, <3>3 DEF OnMaster
    <2> QED  BY <2>1, <2>2, <2>4, <2>5, <2>6
  <1> QED  BY <1>1, SweepInvariant, PTL
=============================================================================
