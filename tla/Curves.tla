------------------------------- MODULE Curves -------------------------------
(***************************************************************************)
(* The level arithmetic: the master scale, the crosspoint fader curve that *)
(* the MIX wheel walks, and the level it shows while it does.  Decibels    *)
(* are counted in halves (db2) and results are what the registers get.     *)
(***************************************************************************)
EXTENDS Integers, Sequences

Clip(x, low, high) == IF x < low THEN low ELSE IF x > high THEN high ELSE x

\* 2^(n/12) in Q12, from n = 0.
Twelfth == << 4096, 4340, 4598, 4871, 5161, 5468, 5793, 6137, 6502, 6889, 7298, 7732 >>

\* Mutant: below 0 dB the twelfths are taken from the wrong end.
Master16Mirrored(half_db) ==
    LET k == half_db \div 12
        v == 2 * Twelfth[12 - (half_db % 12)]
    IN  Clip(IF k >= 0 THEN v * 2^k ELSE (v + 2^(-k - 1)) \div 2^(-k), 1, 16384)

\* bf_master_16bit(): 0x2000 * 2^(half_db/12), rounded, within 1..0x4000.
Master16(half_db) ==
    LET k == half_db \div 12
        v == 2 * Twelfth[1 + (half_db % 12)]
    IN  Clip(IF k >= 0 THEN v * 2^k ELSE (v + 2^(-k - 1)) \div 2^(-k), 1, 16384)

StepMax == 193    \* BF_MASTER_STEP_MAX, +6 dB
Step0dB == 181    \* BF_MASTER_STEP_0DB

\* The two registers of a master control's step; step 0 is mute.
MasterReg8(step) == IF step = 0 THEN 59 ELSE Clip(step - Step0dB + 243, 115, 255)
MasterReg16(step) == IF step = 0 THEN 0 ELSE Master16(step - Step0dB)

----------------------------------------------------------------------------
\* bf_fader_curve[]: the raw values from -62 dB to +6 dB, 1 dB apart.
Curve == << 3, 4, 5, 6, 7, 8, 9, 10, 11, 13, 14, 16, 18, 20, 23, 25, 29, 32,
            36, 41, 46, 51, 58, 65, 73, 81, 91, 103, 115, 129, 145, 163, 183,
            205, 230, 258, 290, 325, 365, 410, 460, 516, 579, 650, 729, 818,
            918, 1030, 1155, 1296, 1455, 1632, 1831, 2055, 2306, 2587, 2903,
            3257, 3655, 4100, 4601, 5162, 5792, 6499, 7292, 8182, 9180, 10301,
            11585 >>

First == -124
Top == First + 2 * (Len(Curve) - 1)
Inf == -130       \* BF_FADER_DB2_INF
FaderTop == Curve[Len(Curve)]

\* The nearest integer to y0 + (x - x0) * dy / dx, halves upwards.
Interpolate(x, x0, dx, y0, dy) == y0 + ((x - x0) * dy + dx \div 2) \div dx

RawToDb2(raw) ==
    IF raw < Curve[1] THEN Inf
    ELSE IF raw > FaderTop THEN Top
    ELSE LET i == CHOOSE i \in 1..(Len(Curve) - 1) :
                     raw <= Curve[i + 1] /\ (i = 1 \/ Curve[i] < raw)
         IN  Interpolate(raw, Curve[i], Curve[i + 1] - Curve[i], First + 2 * (i - 1), 2)

\* Mutant: half a decibel is rounded down to the point below.
Db2ToRawDown(db2) ==
    IF db2 < First THEN 0
    ELSE Curve[1 + (Clip(db2, First, Top) - First) \div 2]

Db2ToRaw(db2) ==
    IF db2 < First THEN 0
    ELSE IF db2 >= Top THEN FaderTop
    ELSE LET i == 1 + (db2 - First) \div 2
         IN  Interpolate(db2, First + 2 * (i - 1), 2, Curve[i], Curve[i + 1] - Curve[i])

\* bf_mix_display(): the captured points, and the last slope above them.
DisplayPoints ==
    << <<-124, 0>>, <<-108, 1>>, <<-96, 2>>, <<-85, 3>>, <<-70, 4>>, <<-57, 5>>,
       <<-15, 10>>, <<-13, 11>>, <<-9, 12>> >>

MixDisplay(db2) ==
    IF db2 <= -124 THEN 0
    ELSE IF db2 > -9 THEN 12 + Clip((db2 + 9) \div 4, 0, 12)
    ELSE LET i == CHOOSE i \in 1..8 : DisplayPoints[i][1] < db2 /\ db2 <= DisplayPoints[i + 1][1]
             p == DisplayPoints[i]
             q == DisplayPoints[i + 1]
         IN  Interpolate(db2, p[1], q[1] - p[1], p[2], q[2] - p[2])

\* The wheel's level of a crosspoint, and what clicks make of it.
Seeded(raw) == IF RawToDb2(raw) < First THEN First ELSE RawToDb2(raw)
Clicked(raw, clicks) == Clip(Seeded(raw) + clicks, Inf, Top)
AfterClicks(raw, clicks) == Db2ToRaw(Clicked(raw, clicks))
=============================================================================
