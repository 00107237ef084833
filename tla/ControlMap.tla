----------------------------- MODULE ControlMap -----------------------------
(***************************************************************************)
(* The table of the card's writable controls: by what name and index each  *)
(* is found, what info() declares, what put() takes and get() gives back,  *)
(* and which registers of the unit a put writes.                           *)
(*                                                                         *)
(* A control is <<kind, i>>, i its private_value; it is found by its name, *)
(* the name's suffix, a number in it and its index; a register is          *)
(* <<request, wIndex>>, without the rotating bits 14 and 15.               *)
(***************************************************************************)
EXTENDS Curves

\* The least value of an int is -IntHalf: 2^31 in the driver's builds.  What C
\* promises of any int is enough for the properties.
CONSTANT IntHalf
ASSUME IntAssumption == IntHalf \in Nat /\ IntHalf >= 32768

\* bf_sources[]: the names, and the offsets of each side in a block.
SourceName == << "AN1", "AN2", "AN3", "AN4", "AS1/2", "ADAT3/4", "ADAT5/6", "ADAT7/8",
                 "PB1", "PB2", "PB3", "PB4", "PB5", "PB6" >>
OutName == << "AN1/2", "PH3/4", "AS1/2", "ADAT3/4", "ADAT5/6", "ADAT7/8" >>

SourceOffset(src, side) ==
    IF src < 4 THEN src ELSE 2 * (src - 4) + 4 + IF side = "l" THEN 0 ELSE 1

----------------------------------------------------------------------------
\* The controls that each create function adds.
FaderControls  == {"fader"} \X (0..83)
MasterControls == {"master", "mute"} \X (0..5)
StripControls  == ({"phase", "trim"} \X (0..3)) \cup ({"split"} \X (0..5))
PreampControls == ({"48V", "pad"} \X (0..1)) \cup {<<"ref", 0>>} \cup ({"gain"} \X (0..3))
FlagControls   == ({"loopback"} \X (0..5))
                  \cup ({"pitch", "an12", "clock", "optical", "link", "ms", "dim",
                         "width", "fx"} \X {0})
SelectionControls == {"selection"} \X (0..2)
EqControls     == {"eq"} \X {256 * strip + param : strip \in 0..3, param \in 0..14}

Controls == UNION {FaderControls, MasterControls, StripControls, PreampControls,
                   FlagControls, SelectionControls, EqControls}

\* A fader's output and source, an EQ control's strip and parameter.
FaderOut(c) == c[2] \div 14
FaderSrc(c) == c[2] % 14
EqParam(c) == c[2] % 256

\* Mutant: the index of a fader is its source's.
FaderIdBySource(c) == << SourceName[1 + FaderSrc(c)], "Playback Volume", 0, FaderSrc(c) >>

\* Name, suffix, number and index.  Sources and outputs share names: only the
\* index tells the master of AS1/2 from the faders of the source AS1/2.
FaderId(c) == << SourceName[1 + FaderSrc(c)], "Playback Volume", 0, c[2] >>

Id(c) ==
    CASE c[1] = "fader" -> FaderId(c)
      [] c[1] = "master" -> << OutName[1 + c[2]], "Playback Volume", 0, c[2] >>
      [] c[1] = "mute" -> << OutName[1 + c[2]], "Playback Switch", 0, c[2] >>
      [] c[1] \in {"phase", "trim"} -> << SourceName[1 + c[2]], c[1], 0, c[2] >>
      [] c[1] = "split" -> << SourceName[9 + c[2]], c[1], 0, c[2] >>
      [] c[1] = "eq" -> << SourceName[1 + c[2] \div 256], "EQ", EqParam(c), 0 >>
      [] OTHER -> << "", c[1], 0, c[2] >>

----------------------------------------------------------------------------
\* info(): the least and the greatest value each kind declares.
FaderInfo  == <<0, FaderTop>>
MasterInfo == <<0, StepMax>>
SwitchInfo == <<0, 1>>
TrimInfo   == <<-65, 6>>
GainInfo(mic) == <<0, IF mic < 2 THEN 65 ELSE 9>>
RefInfo    == <<0, 2>>
ClockInfo  == <<0, 1>>
OpticalInfo == <<0, 1>>
PitchInfo  == <<-50, 50>>
WidthInfo  == <<-100, 100>>
FxInfo     == <<0, 4096>>
SelectionInfo == <<0, 4>>

EqInfo(param) ==
    CASE param = 0 -> <<0, 1>>
      [] param \in {1, 2, 3, 14} -> <<0, 3>>
      [] param \in 7..9 -> <<5, 1000>>
      [] param \in 10..12 -> <<-240, 240>>
      [] param \in {4, 5, 6, 13} -> <<0, 20000>>

Info(c) ==
    CASE c[1] = "fader" -> FaderInfo
      [] c[1] = "master" -> MasterInfo
      [] c[1] = "trim" -> TrimInfo
      [] c[1] = "gain" -> GainInfo(c[2])
      [] c[1] = "ref" -> RefInfo
      [] c[1] = "clock" -> ClockInfo
      [] c[1] = "optical" -> OpticalInfo
      [] c[1] = "pitch" -> PitchInfo
      [] c[1] = "width" -> WidthInfo
      [] c[1] = "fx" -> FxInfo
      [] c[1] = "selection" -> SelectionInfo
      [] c[1] = "eq" -> EqInfo(EqParam(c))
      [] OTHER -> SwitchInfo

Declared(c, v) == Info(c)[1] <= v /\ v <= Info(c)[2]

----------------------------------------------------------------------------
\* put(): what passes its checks, and what it then caches.  ALSA hands over a
\* long, which may be anything and wider than an int, or an item of an
\* enumeration, an unsigned int.
U16(v) == v % 65536
S32(v) == ((v + IntHalf) % (2 * IntHalf)) - IntHalf

\* Mutant: the value is narrowed first and checked afterwards.
NarrowedFirst(v, top) == U16(v) <= top

CheckedFirst(v, top) == v >= 0 /\ v <= top

\* The long is narrowed before the checks, as the trim's and the gain's are.
EqTakes(param, v) ==
    CASE param = 0 -> S32(v) >= 0 /\ S32(v) <= 1
      [] param \in {1, 2, 3, 14} -> S32(v) >= 0 /\ S32(v) <= 3
      [] param \in {4, 5, 6, 13} -> S32(v) >= 0 /\ S32(v) <= 20000
      [] param \in 7..9 -> S32(v) >= 5 /\ S32(v) <= 1000
      [] param \in 10..12 -> S32(v) >= -240 /\ S32(v) <= 240

Takes(c, v) ==
    CASE c[1] = "fader" -> CheckedFirst(v, FaderTop)
      [] c[1] = "master" -> CheckedFirst(v, StepMax)
      [] c[1] = "fx" -> CheckedFirst(v, 4096)
      [] c[1] = "trim" -> ~(S32(v) < -65 \/ S32(v) > 6)
      [] c[1] = "gain" -> ~(S32(v) < 0 \/ S32(v) > IF c[2] < 2 THEN 65 ELSE 9)
      [] c[1] = "pitch" -> ~(v < -50 \/ v > 50)
      [] c[1] = "width" -> ~(v < -100 \/ v > 100)
      [] c[1] = "ref" -> v <= 2
      [] c[1] \in {"clock", "optical"} -> v <= 1
      [] c[1] = "selection" -> v <= 4
      [] c[1] = "eq" -> EqTakes(EqParam(c), v)
      [] OTHER -> TRUE

EqCached(param, v) == IF param = 14 THEN 6 * (S32(v) + 1) ELSE S32(v)

Cached(c, v) ==
    CASE c[1] \in {"fader", "master", "fx"} -> U16(v)
      [] c[1] = "selection" -> IF v < 4 THEN v ELSE -1
      [] c[1] = "eq" -> EqCached(EqParam(c), v)
      [] c[1] \in {"trim", "gain", "pitch", "width"} -> S32(v)
      [] c[1] \in {"ref", "clock", "optical"} -> v
      [] OTHER -> IF v = 0 THEN 0 ELSE 1

\* Items of enumerations are unsigned.
Enumerated(c) ==
    \/ c[1] \in {"ref", "clock", "optical", "selection"}
    \/ c[1] = "eq" /\ EqParam(c) \in {1, 2, 3, 14}

\* What ALSA can hand over as an item.
Item(v) == v >= 0 /\ v < 2 * IntHalf

----------------------------------------------------------------------------
\* get(), from what is cached.

\* Mutant: the slope is read in decibels.
EqReadDb(param, v) == v

EqRead(param, v) ==
    IF param # 14 THEN v
    ELSE IF v >= 24 THEN 3 ELSE IF v >= 18 THEN 2 ELSE IF v >= 12 THEN 1 ELSE 0

SelectionRead(v) == IF v >= 0 THEN v ELSE 4

Read(c, v) ==
    CASE c[1] = "eq" -> EqRead(EqParam(c), v)
      [] c[1] = "selection" -> SelectionRead(v)
      [] OTHER -> v

\* What a probe caches, before anything is put.
\* (Mutant: the Q of a band is 0 until it is put.)
EqDefaultZero(param) == IF param = 14 THEN 6 ELSE 0

EqDefault(param) == CASE param \in 7..9 -> 100 [] param = 14 -> 6 [] OTHER -> 0

MasterDefault(out) == IF out < 2 THEN Step0dB - 40 ELSE Step0dB

Default(c) ==
    CASE c[1] = "fader" -> IF FaderSrc(c) < 8 THEN 0 ELSE 5792
      [] c[1] = "master" -> MasterDefault(c[2])
      [] c[1] = "mute" -> 1
      [] c[1] = "selection" -> -1
      [] c[1] = "eq" -> EqDefault(EqParam(c))
      [] OTHER -> 0

----------------------------------------------------------------------------
\* The registers that a put writes.
CrosspointReg(out, src, side) ==
    << "crosspoint", 52 * out + SourceOffset(src, side) + IF side = "l" THEN 0 ELSE 26 >>

FaderRegs(out, src) == {CrosspointReg(out, src, side) : side \in {"l", "r"}}

\* bf_crosspoint_clear_cross() of an output's block; not a control's.
CrossRegs(out) ==
    {<<"crosspoint", 52 * out + k>> : k \in {5, 7, 9, 11, 13, 15, 17, 19, 21, 23}}
    \cup {<<"crosspoint", 52 * out + 26 + k>> : k \in {4, 6, 8, 10, 12, 14, 16, 18, 20, 22}}

MasterRegs(out) == ({"gain"} \X {4 + 2 * out, 5 + 2 * out})
                   \cup ({"crosspoint"} \X {992 + 2 * out, 993 + 2 * out})

PhaseRegs(mic) == {CrosspointReg(out, mic, "l") : out \in 0..5}

SplitRegs(pb) == {CrosspointReg(0, 8 + pb, side) : side \in {"l", "r"}}

TrimRegs(mic) ==
    LET base == 2 * (mic \div 2)
    IN  {CrosspointReg(0, src, side) : src \in {base, base + 1}, side \in {"l", "r"}}

\* Mutant: the second output written is not the phones.
MsRegsThird == {"crosspoint"} \X {1, 27, 105, 131}

\* The addresses that bf_ms_put() and bf_width_apply() have as numbers.
MsRegs == {"crosspoint"} \X {1, 27, 53, 79}
WidthRegs == {"crosspoint"} \X {0, 26, 1, 27, 52, 78, 53, 79}

FxRegs == {"crosspoint"} \X {312, 339}

\* bf_loopback_write_map()
LoopbackRegs == {"loopback"} \X (0..29)

\* The two words of the preamp request, each with its commit.
PreampRegs(word) == {<<"preamp", word>>, <<"commit", 0>>}
SettingsRegs == {<<"keepalive", 1487>>}

Registers(c) ==
    CASE c[1] = "fader" -> FaderRegs(FaderOut(c), FaderSrc(c))
      [] c[1] \in {"master", "mute"} -> MasterRegs(c[2])
      [] c[1] = "phase" -> PhaseRegs(c[2])
      [] c[1] = "split" -> SplitRegs(c[2])
      [] c[1] = "trim" -> TrimRegs(c[2])
      [] c[1] = "ms" -> MsRegs
      [] c[1] = "width" -> WidthRegs
      [] c[1] = "fx" -> FxRegs
      [] c[1] = "gain" -> {<<"gain", c[2]>>}
      [] c[1] \in {"48V", "pad", "ref"} -> PreampRegs(63)
      [] c[1] \in {"an12", "link"} -> PreampRegs(4096)
      [] c[1] \in {"clock", "optical"} -> SettingsRegs
      [] c[1] = "pitch" -> SettingsRegs \cup ({"dds"} \X (0..3))
      [] c[1] = "dim" -> MasterRegs(1) \cup {<<"preamp", 8192>>}
      [] c[1] = "loopback" -> LoopbackRegs
      [] c[1] = "eq" -> {<<"eq", c[2] \div 256>>}
      [] c[1] = "selection" -> {}

\* The wheel writes the gains of IN mode, and the levels to show in MIX, here.
PanelGainRegs == {"gain"} \X (10..13)

----------------------------------------------------------------------------
\* The controls that share a register because each is composed from all that
\* are cached, or written over another on purpose; the other modules are about
\* those.  No others may.
Overlays == {"fader", "phase", "split", "trim", "ms", "width"}
Families == {{"48V", "pad", "ref", "an12", "link"}, {"clock", "optical", "pitch"},
             {"loopback"}}

Shares(c, d) ==
    \/ c[1] \in Overlays /\ d[1] \in Overlays /\ {c[1], d[1]} # {"fader"}
    \/ \E f \in Families : c[1] \in f /\ d[1] \in f
    \/ c[1] \in {"master", "mute"} /\ d[1] \in {"master", "mute"} /\ c[2] = d[2]
    \/ {c[1], d[1]} \in {{"dim", "master"}, {"dim", "mute"}} /\ 1 \in {c[2], d[2]}
    \/ c[1] = "eq" /\ d[1] = "eq" /\ c[2] \div 256 = d[2] \div 256
=============================================================================
