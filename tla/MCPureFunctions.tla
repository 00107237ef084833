-------------------------- MODULE MCPureFunctions --------------------------
(***************************************************************************)
(* Sweeps the pure parts.  A behaviour is about one of them: the geometry  *)
(* of one choice of parameters and rate, whose steps lengthen the period;  *)
(* the crosspoint values and the master steps, whose steps raise the       *)
(* level; or one control, whose steps put a value on it.                   *)
(***************************************************************************)
EXTENDS ControlMap

CONSTANTS
    MaxUrbs,    \* values of frames_per_urb to try
    MinUrbs,    \* values of urb_frames_min to try
    Counts,     \* values of nurbs to try
    MaxPeriod   \* the last period, in frames

\* The parameters as probe() leaves them.
ASSUME SweepAssumption ==
    /\ MaxUrbs \cup MinUrbs \subseteq {n \in 8..1024 : n % 8 = 0}
    /\ Counts \subseteq 2..16

VARIABLES
    what,   \* which sweep
    fixed,  \* what it holds fixed: the parameters, or the control
    x       \* what it steps: the period, the raw level, the step or the value

vars == <<what, fixed, x>>

G == INSTANCE UrbGeometry WITH
        FramesPerUrb <- fixed.fpu, UrbFramesMin <- fixed.fmin,
        NUrbs <- fixed.nurbs, UrbSplit <- fixed.split

\* The values put on a control: about its limits, and those that sixteen bits
\* or an int hold as values inside.
Tries(c) ==
    LET low == Info(c)[1]
        high == Info(c)[2]
    IN  {v \in {low - 1, low, low + 1, (low + high) \div 2, high - 1, high, high + 1,
                65536 + low, 65536 + high, low - 65536, IntHalf + low,
                2 * IntHalf + low, 2 * IntHalf + high + 1, high - 2 * IntHalf, 2, 3, 4} :
            Enumerated(c) => Item(v)}

Init ==
    \/ /\ what = "geometry" /\ x = 1
       /\ fixed \in [fpu : MaxUrbs, fmin : MinUrbs, nurbs : Counts,
                     split : 0..2, rate : G!BfRates]
       /\ fixed.fmin <= fixed.fpu
    \/ what = "fader" /\ x = 0 /\ fixed = <<>>
    \/ what = "master" /\ x = 0 /\ fixed = <<>>
    \/ what = "control" /\ fixed \in Controls /\ x = Read(fixed, Default(fixed))

Step(sweep, last) == what = sweep /\ x < last /\ x' = x + 1 /\ UNCHANGED <<what, fixed>>

Lengthen == Step("geometry", MaxPeriod)
RaiseFader == Step("fader", FaderTop)
RaiseMaster == Step("master", StepMax)
Put == what = "control" /\ x' \in Tries(fixed) /\ UNCHANGED <<what, fixed>>

Next == Lengthen \/ RaiseFader \/ RaiseMaster \/ Put

Spec == Init /\ [][Next]_vars

----------------------------------------------------------------------------
\* bf_urb_frames(): whole packets, within the parameters, at most a period, and
\* within the DMA buffer that probe() allocated; only a period too short for
\* the smallest URB is refused.
WholeUrbs ==
    what = "geometry" => /\ G!UrbIsWhole(fixed.rate, x)
                         /\ G!UrbFitsBuffer(fixed.rate, x)
                         /\ G!RefusedOnlyIfTooShort(fixed.rate, x)

\* hw_params(): the chosen queue fits the period and the buffer it serves.
QueueFitsPeriod == what = "geometry" => G!QueueFits(fixed.rate, x)

\* bf_delay(): no unsigned wrap, and at most the queue plus the converters.
DelayBounded == what = "geometry" => G!DelayIsBounded(fixed.rate, x)

\* The wheel goes where it is turned, from every level that an application may
\* have left: a click up never lowers the crosspoint nor the level shown, a
\* click down never raises them, two clicks always move it; the master
\* scale rises with its steps, from -50 dB on with each of them.
ClickKeepsDirection ==
    /\ what = "fader" =>
          /\ AfterClicks(x, 1) >= x /\ AfterClicks(x, -1) <= x
          /\ x < FaderTop => AfterClicks(x, 2) > x
          /\ x > 0 => AfterClicks(x, -2) < x
          /\ MixDisplay(Clicked(x, 1)) >= MixDisplay(Seeded(x))
          /\ MixDisplay(Clicked(x, -1)) <= MixDisplay(Seeded(x))
    /\ what = "master" /\ x > 0 =>
          /\ MasterReg8(x) >= MasterReg8(x - 1)
          /\ MasterReg16(x) >= MasterReg16(x - 1)
          /\ x > 81 => MasterReg16(x) > MasterReg16(x - 1)

\* What is left of a long when put() checks it.
Narrows(c) == c[1] \in {"trim", "gain"} \/ (c[1] = "eq" /\ ~Enumerated(c))
Checked(c, v) == IF Narrows(c) THEN S32(v) ELSE v

\* A control takes what its info() declares and reads it back as it was put.
\* Of what it does not declare it takes only a switch's, which is on for
\* anything, and in trim, gain and the equaliser's numbers a long whose low
\* bits are a declared int, which it reads back.  Whatever it takes, it reads
\* back as a value that it declares.
Restores(c, v) ==
    /\ Declared(c, v) => Takes(c, v) /\ Read(c, Cached(c, v)) = v
    /\ Takes(c, v) => /\ Declared(c, Read(c, Cached(c, v)))
                      /\ \/ Info(c) = SwitchInfo
                         \/ Declared(c, Checked(c, v)) /\ Read(c, Cached(c, v)) = Checked(c, v)

\* What alsactl has stored can be restored, from what a probe leaves as from
\* any put, values that sixteen bits or an int would hold wrapped among them.
StoreRestores ==
    what = "control" => /\ Declared(fixed, Read(fixed, Default(fixed)))
                        /\ Restores(fixed, x)

\* Every control is found by a name and index of its own, or the card would
\* not register, and writes registers of its own, but where sharing is meant.
\* The addresses that MS and width have as numbers are those of the
\* crosspoints they overlay; the cross registers cleared at a cold init are
\* nobody's; and the panel's gain registers meet no control's but the 8-bit
\* masters of ADAT3/4 and ADAT5/6, whose levels are the 16-bit ones.
OwnRegisters ==
    what = "control" /\ x = Read(fixed, Default(fixed)) =>
        /\ \A d \in Controls \ {fixed} :
              /\ Id(d) # Id(fixed)
              /\ Registers(d) \cap Registers(fixed) # {} => Shares(fixed, d)
        /\ \A out \in 0..5 : CrossRegs(out) \cap Registers(fixed) = {}
        /\ fixed[1] = "ms" => Registers(fixed) = FaderRegs(0, 1) \cup FaderRegs(1, 1)
        /\ fixed[1] = "width" =>
              Registers(fixed) = UNION {FaderRegs(o, s) : o \in {0, 1}, s \in {0, 1}}
        /\ PanelGainRegs \cap Registers(fixed) # {} =>
              fixed[1] \in {"master", "mute"} /\ fixed[2] \in {3, 4}
=============================================================================
