--------------------------- MODULE Surface_proofs ---------------------------
(***************************************************************************)
(* The controls and their registers stay in step, for every set of         *)
(* outputs, inputs, strips, values and groups of controls, over failed     *)
(* transfers, rate changes, suspends and resumes.                          *)
(***************************************************************************)
EXTENDS Surface, TLAPS

\* The mixer's cache is typed, and its registers are functions.  What values
\* they hold is NothingStale's.
MixerShape ==
    /\ xpoint \in [Outs -> [Srcs -> [Sides -> 0..FaderTop]]]
    /\ phase \in [Mics -> BOOLEAN] /\ split \in [Pbs -> BOOLEAN]
    /\ ms_proc \in BOOLEAN
    /\ trim \in [Mics -> -65..6]
    /\ loopback \in [Outs -> BOOLEAN]

\* A pair of inputs has one trim: a resume sends the first channel's to both.
TrimPairs == \A mic \in Mics : trim[mic] = trim[Sibling(mic)]

MixerInv == MixerShape /\ TrimPairs /\ NothingStale

PreampsInv == PreampsTypeOK /\ SharedWords

\* Strips are records of these fields, and a low cut is a number.
Fields == {"on", "slope", "cut", "type", "q", "gain"}
IsStrip(e) == DOMAIN e = Fields /\ e.cut \in Int

EqShape == /\ DOMAIN eq = Strips /\ DOMAIN dsp = Strips
           /\ \A s \in Strips : IsStrip(eq[s])

EqInv == EqShape /\ EqFollows

SurfaceInv == use \in Uses /\ MixerInv /\ PreampsInv /\ EqInv

----------------------------------------------------------------------------
\* Preamps

\* The byte of a gain.
LEMMA GainRawByte ==
    ASSUME NEW mic \in Channels, NEW db \in 0..65
    PROVE  GainRaw(mic, db) \in 0..255
  <1>1. mic \in Int
    BY PreampsAssumption
  <1> QED BY <1>1 DEF GainRaw

\* Boost or not, the commit is one of two values.
LEMMA CommitValues == \A level : Commit(level) \in {0, 3}
  BY DEF Commit

LEMMA PreampsInitHolds == PreampsInit => PreampsInv
  BY DEF PreampsInit, PreampsInv, PreampsTypeOK, SharedWords, PreampBits, RefLevels,
         Routing, Settings

\* A switch leaves the ref level's bit alone.
LEMMA SwitchKeeps ==
    ASSUME PreampsInv, NEW bit \in Switches, NEW ok \in BOOLEAN, SwitchPut(bit, ok)
    PROVE  PreampsInv'
  <1> DEFINE bits == IF bit \in preamp THEN preamp \ {bit} ELSE preamp \cup {bit}
  <1>1. /\ bits \subseteq PreampBits
        /\ "REF" \in bits <=> "REF" \in preamp
    BY DEF PreampsInv, PreampsTypeOK, Switches
  <1>2. CASE ok
    <2>1. preamp_reg' = bits /\ commit_reg' = Commit(ref_level) /\ preamp' = bits
      BY <1>2 DEF SwitchPut, StateWrite
    <2> HIDE DEF bits
    <2> QED BY <1>1, <2>1, CommitValues
            DEF SwitchPut, PreampsInv, PreampsTypeOK, SharedWords, Commit
  <1>3. CASE ~ok
    BY <1>3 DEF SwitchPut, StateWrite, PreampsInv, PreampsTypeOK, SharedWords
  <1> QED BY <1>2, <1>3

\* A ref level sets its bit and its commit together.
LEMMA RefLevelKeeps ==
    ASSUME PreampsInv, NEW level \in RefLevels, NEW ok \in BOOLEAN, RefLevelPut(level, ok)
    PROVE  PreampsInv'
  <1> DEFINE bits == IF level = "+4dBu" THEN preamp \cup {"REF"} ELSE preamp \ {"REF"}
  <1>1. /\ bits \subseteq PreampBits
        /\ "REF" \in bits <=> level = "+4dBu"
    BY DEF PreampsInv, PreampsTypeOK, PreampBits
  <1>2. CASE ok
    <2>1. /\ preamp_reg' = bits /\ commit_reg' = Commit(level) /\ preamp' = bits
          /\ ref_level' = level
      BY <1>2 DEF RefLevelPut, StateWrite
    <2> HIDE DEF bits
    <2> QED BY <1>1, <2>1, CommitValues
            DEF RefLevelPut, PreampsInv, PreampsTypeOK, SharedWords, Commit
  <1>3. CASE ~ok
    BY <1>3 DEF RefLevelPut, StateWrite, PreampsInv, PreampsTypeOK, SharedWords
  <1> QED BY <1>2, <1>3

LEMMA GainKeeps ==
    ASSUME PreampsInv, NEW mic \in Channels, NEW db \in Gains[mic], NEW ok \in BOOLEAN,
           GainPut(mic, db, ok)
    PROVE  PreampsInv'
  <1>1. db \in 0..65
    BY PreampsAssumption DEF GainMaxDb
  <1>2. GainRaw(mic, db) \in 0..255
    BY <1>1, GainRawByte
  <1>3. gain' \in [Channels -> 0..65]
    BY <1>1 DEF GainPut, PreampsInv, PreampsTypeOK
  <1>4. gain_reg' \in [Channels -> 0..255 \cup {Unknown}]
    BY <1>2 DEF GainPut, PreampsInv, PreampsTypeOK
  <1>5. \A m \in Channels : gain_reg'[m] \in {GainRaw(m, gain'[m]), Unknown}
    <2> TAKE m \in Channels
    <2>1. CASE m = mic /\ ok
      BY <2>1 DEF GainPut, PreampsInv, PreampsTypeOK
    <2>2. CASE m = mic /\ ~ok
      BY <2>2 DEF GainPut, PreampsInv, PreampsTypeOK
    <2>3. CASE m # mic
      <3>1. gain_reg'[m] = gain_reg[m] /\ gain'[m] = gain[m]
        BY <2>3 DEF GainPut, PreampsInv, PreampsTypeOK
      <3> QED BY <3>1 DEF PreampsInv, SharedWords
    <2> QED BY <2>1, <2>2, <2>3
  <1> QED BY <1>3, <1>4, <1>5 DEF GainPut, PreampsInv, PreampsTypeOK, SharedWords

\* A flag of one word is in no other.
LEMMA ToggledKeeps ==
    ASSUME PreampsInv, NEW flag \in Routing \cup Settings
    PROVE  /\ Toggled(flag) \subseteq Routing \cup Settings
           /\ flag \in Routing => Toggled(flag) \cap Settings = flags \cap Settings
           /\ flag \in Settings => Toggled(flag) \cap Routing = flags \cap Routing
  BY DEF Toggled, PreampsInv, PreampsTypeOK, Routing, Settings

LEMMA RoutingKeeps ==
    ASSUME PreampsInv, NEW flag \in Routing, NEW ok \in BOOLEAN, RoutingPut(flag, ok)
    PROVE  PreampsInv'
  <1>1. CASE ok
    BY <1>1, ToggledKeeps, CommitValues
       DEF RoutingPut, Word, PreampsInv, PreampsTypeOK, SharedWords, Commit
  <1>2. CASE ~ok
    BY <1>2 DEF RoutingPut, PreampsInv, PreampsTypeOK, SharedWords
  <1> QED BY <1>1, <1>2

LEMMA SettingsKeeps ==
    ASSUME PreampsInv, NEW flag \in Settings, NEW ok \in BOOLEAN, SettingsPut(flag, ok)
    PROVE  PreampsInv'
  <1>1. CASE ok
    BY <1>1, ToggledKeeps DEF SettingsPut, Word, PreampsInv, PreampsTypeOK, SharedWords
  <1>2. CASE ~ok
    BY <1>2 DEF SettingsPut, PreampsInv, PreampsTypeOK, SharedWords
  <1> QED BY <1>1, <1>2

LEMMA PitchKeeps ==
    ASSUME PreampsInv, NEW p \in Pitches, NEW ok \in BOOLEAN, PitchPut(p, ok)
    PROVE  PreampsInv'
  BY PreampsAssumption DEF PitchPut, Word, PreampsInv, PreampsTypeOK, SharedWords

LEMMA ClockKeeps ==
    ASSUME PreampsInv, NEW ok \in BOOLEAN, ClockWritten(ok)
    PROVE  PreampsInv'
  BY DEF ClockWritten, Word, PreampsInv, PreampsTypeOK, SharedWords, preamps_cache

LEMMA PreampsLostKeeps ==
    ASSUME PreampsInv, PreampsLost
    PROVE  PreampsInv'
  BY DEF PreampsLost, PreampsInv, PreampsTypeOK, SharedWords, preamps_cache

LEMMA PreampsRestoredKeeps ==
    ASSUME PreampsInv, PreampsRestored
    PROVE  PreampsInv'
  <1>1. \A mic \in Channels : GainRaw(mic, gain[mic]) \in 0..255
    BY GainRawByte DEF PreampsInv, PreampsTypeOK
  <1>2. UNCHANGED <<preamp, ref_level, gain, flags, pitch>>
    BY DEF PreampsRestored, preamps_cache
  <1>3. gain_reg' \in [Channels -> 0..255 \cup {Unknown}]
    BY <1>1 DEF PreampsRestored
  <1>4. \A mic \in Channels : gain_reg'[mic] = GainRaw(mic, gain'[mic])
    BY <1>2 DEF PreampsRestored
  <1> QED BY <1>2, <1>3, <1>4, CommitValues
          DEF PreampsRestored, Word, PreampsInv, PreampsTypeOK, SharedWords, Commit

\* Every put on a preamp.
LEMMA PutPreampsKeeps ==
    ASSUME PreampsInv, NEW kind, NEW ok \in BOOLEAN, PutPreamps(kind, ok)
    PROVE  PreampsInv'
  BY SwitchKeeps, RefLevelKeeps, GainKeeps, RoutingKeeps, SettingsKeeps, PitchKeeps
     DEF PutPreamps
----------------------------------------------------------------------------
\* Eq

\* One put keeps a strip a strip.
LEMMA OnePutIsStrip ==
    ASSUME NEW e, IsStrip(e), NEW f \in OnePut(e)
    PROVE  IsStrip(f)
  <1>1. CASE f \in {[e EXCEPT !.on = ~@]}
    BY <1>1 DEF IsStrip, Fields
  <1>2. CASE \E b \in Bands, t \in BandTypes : f = [e EXCEPT !.type[b] = t]
    BY <1>2 DEF IsStrip, Fields
  <1>3. CASE \E b \in Bands, q \in BandQs : f = [e EXCEPT !.q[b] = q]
    BY <1>3 DEF IsStrip, Fields
  <1>4. CASE \E b \in Bands, g \in BandGains : f = [e EXCEPT !.gain[b] = g]
    BY <1>4 DEF IsStrip, Fields
  <1>5. CASE \E n \in Cuts : f = [e EXCEPT !.cut = n]
    <2>1. PICK n \in Cuts : f = [e EXCEPT !.cut = n]
      BY <1>5
    <2>2. n \in Int
      BY EqAssumption
    <2> QED BY <2>1, <2>2 DEF IsStrip, Fields
  <1>6. CASE \E n \in Slopes : f = [e EXCEPT !.slope = n]
    BY <1>6 DEF IsStrip, Fields
  <1> QED BY <1>1, <1>2, <1>3, <1>4, <1>5, <1>6 DEF OnePut

\* No slope goes out without a low cut.
LEMMA NoCutNoSlope ==
    ASSUME NEW e, IsStrip(e), NEW rate
    PROVE  Block(e, rate).cut = CutOff => Block(e, rate).slope = 0
  <1>1. CASE e.on /\ e.cut > 0
    <2>1. CutWord(e) = << e.cut, e.slope >>
      BY <1>1 DEF CutWord, IsStrip
    <2>2. Block(e, rate).cut = CutWord(e)
      BY <1>1 DEF Block
    <2>3. << e.cut, e.slope >> # << >>
      OBVIOUS
    <2> QED BY <2>1, <2>2, <2>3 DEF CutOff
  <1>2. CASE ~(e.on /\ e.cut > 0)
    BY <1>2 DEF Block
  <1> QED BY <1>1, <1>2

\* A block that was computed anew is right.
LEMMA BlocksAreRight ==
    ASSUME EqShape', \A s \in Strips : dsp'[s] \in {Block(eq'[s], eq_rate'), NoBlock}
    PROVE  EqFollows'
  <1> SUFFICES ASSUME NEW s \in Strips, dsp'[s] # NoBlock
               PROVE  /\ dsp'[s] = Block(eq'[s], eq_rate')
                      /\ dsp'[s].cut = CutOff => dsp'[s].slope = 0
    BY DEF EqFollows
  <1>1. dsp'[s] = Block(eq'[s], eq_rate')
    OBVIOUS
  <1>2. Block(eq'[s], eq_rate').cut = CutOff => Block(eq'[s], eq_rate').slope = 0
    BY NoCutNoSlope DEF EqShape
  <1> QED BY <1>1, <1>2

LEMMA EqInitHolds == EqInit => EqInv
  <1> SUFFICES ASSUME EqInit PROVE EqInv
    OBVIOUS
  <1>1. IsStrip(Strip0)
    BY DEF Strip0, IsStrip, Fields
  <1> QED BY <1>1 DEF EqInit, EqInv, EqShape, EqFollows

LEMMA EqPutKeeps ==
    ASSUME EqInv, NEW s \in Strips, NEW e \in OnePut(eq[s]), NEW ok \in BOOLEAN, EqPut(s, e, ok)
    PROVE  EqInv'
  <1>1. EqShape
    BY DEF EqInv
  <1>2. IsStrip(e)
    BY <1>1, OnePutIsStrip DEF EqShape
  <1>3. /\ DOMAIN eq' = Strips /\ DOMAIN dsp' = Strips /\ eq_rate' = eq_rate
        /\ eq'[s] = e /\ dsp'[s] \in {Block(e, eq_rate), NoBlock}
        /\ \A t \in Strips : t # s => eq'[t] = eq[t] /\ dsp'[t] = dsp[t]
    BY <1>1 DEF EqPut, EqShape
  <1>4. \A t \in Strips : dsp'[t] \in {Block(eq'[t], eq_rate'), NoBlock}
    <2> TAKE t \in Strips
    <2>1. CASE t = s
      BY <1>3, <2>1
    <2>2. CASE t # s
      <3>1. dsp[t] \in {Block(eq[t], eq_rate), NoBlock}
        BY DEF EqInv, EqFollows
      <3> QED BY <1>3, <2>2, <3>1
    <2> QED BY <2>1, <2>2
  <1>5. EqShape'
    BY <1>1, <1>2, <1>3 DEF EqShape
  <1>6. EqFollows'
    BY <1>4, <1>5, BlocksAreRight
  <1> QED BY <1>5, <1>6 DEF EqInv

\* What every re-upload leaves, at whatever rate.
LEMMA ReuploadKeeps ==
    ASSUME EqInv, NEW rate, NEW failing, Reupload(rate, failing), eq' = eq, eq_rate' = rate
    PROVE  EqInv'
  <1>1. EqShape'
    BY DEF Reupload, EqInv, EqShape
  <1>2. \A s \in Strips : dsp'[s] \in {Block(eq'[s], eq_rate'), NoBlock}
    BY DEF Reupload
  <1>3. EqFollows'
    BY <1>1, <1>2, BlocksAreRight
  <1> QED BY <1>1, <1>3 DEF EqInv

LEMMA EqLostKeeps ==
    ASSUME EqInv, EqLost
    PROVE  EqInv'
  <1>1. EqShape'
    BY DEF EqLost, EqInv, EqShape
  <1>2. EqFollows'
    BY DEF EqLost, EqFollows
  <1> QED BY <1>1, <1>2 DEF EqInv

----------------------------------------------------------------------------
\* Mixer

\* What a register may hold, one case per control.
Explained(x, o, s, c) ==
    \/ x = xpoint[o][s][c]
    \/ s \in Mics /\ c = L /\ phase[s] /\ x = Negated(xpoint[o][s][L])
    \/ s >= PB1 /\ o = 0 /\ split[s - PB1] /\ x = IF c = L THEN Master0dB ELSE 0
    \/ s = 1 /\ o \in {0, 1} /\ ms_proc /\ x = 0
    \/ s \in Mics /\ o = 0 /\ x = Master16(2 * trim[s])
    \/ s \in {0, 1} /\ o \in {0, 1} /\ x = WidthRegs(width)[<<o, s, c>>]

LEMMA ExplainedNow ==
    ASSUME NEW x, NEW o, NEW s, NEW c
    PROVE  x \in Explains(o, s, c) <=> Explained(x, o, s, c)
  BY DEF Explains, Explained

LEMMA ExplainedNext ==
    ASSUME NEW x, NEW o, NEW s, NEW c
    PROVE  x \in Explains(o, s, c)' <=> Explained(x, o, s, c)'
  BY DEF Explains, Explained

\* The parts of a register's name.
LEMMA SlotParts ==
    ASSUME NEW r \in Slots
    PROVE  /\ r[1] \in Outs /\ r[2] \in Srcs /\ r[3] \in Sides
           /\ r = <<r[1], r[2], r[3]>>
  BY DEF Slots

\* Sources are numbers, inputs below the playback channels.
LEMMA SourceNumbers ==
    /\ \A s \in Srcs : s \in 0..13 /\ (s \in Mics <=> s < PB1)
    /\ \A s \in Srcs : s >= PB1 => s - PB1 \in Pbs
    /\ \A o \in Outs : o \in 0..5
    /\ \A mic \in Mics : mic \in 0..3 /\ Sibling(mic) \in Mics /\ Sibling(Sibling(mic)) = mic
    /\ {0, 1} \subseteq Outs /\ {0, 1} \subseteq Mics
  BY MixerAssumption DEF Srcs, PB1, Sibling

\* A put whose own registers come to hold what a control explains, and that
\* takes no explanation from the others, leaves nothing stale.
LEMMA WriteExplained ==
    ASSUME SlotsExplained, NEW regs, NEW ok \in BOOLEAN, Write(regs, ok),
           \A r \in Slots \ DOMAIN regs :
               \A x : Explained(x, r[1], r[2], r[3]) => Explained(x, r[1], r[2], r[3])',
           ok => \A r \in Slots \cap DOMAIN regs :
                     \A x : x = regs[r] => Explained(x, r[1], r[2], r[3])'
    PROVE  SlotsExplained'
  <1> SUFFICES ASSUME NEW r \in Slots, slot'[r] # Unknown
               PROVE  slot'[r] \in Explains(r[1], r[2], r[3])'
    BY DEF SlotsExplained
  <1>1. CASE r \in DOMAIN regs
    <2>1. ok /\ slot'[r] = regs[r]
      BY <1>1 DEF Write
    <2> QED BY <1>1, <2>1, ExplainedNext
  <1>2. CASE r \notin DOMAIN regs
    <2>1. slot'[r] = slot[r]
      BY <1>2 DEF Write
    <2>2. slot[r] \in Explains(r[1], r[2], r[3])
      BY <2>1 DEF SlotsExplained
    <2> QED BY <1>2, <2>1, <2>2, ExplainedNow, ExplainedNext
  <1> QED BY <1>1, <1>2

\* The strips as they were have the registers as they were.
LEMMA SlotsKept ==
    ASSUME SlotsExplained, UNCHANGED <<xpoint, phase, split, ms_proc, trim, width, slot>>
    PROVE  SlotsExplained'
  <1> SUFFICES ASSUME NEW r \in Slots
               PROVE  slot'[r] \in Explains(r[1], r[2], r[3])' \cup {Unknown}
    BY DEF SlotsExplained
  <1>1. \A x : Explained(x, r[1], r[2], r[3]) => Explained(x, r[1], r[2], r[3])'
    BY DEF Explained, WidthRegs
  <1>2. slot'[r] \in Explains(r[1], r[2], r[3]) \cup {Unknown}
    BY DEF SlotsExplained
  <1> QED BY <1>1, <1>2, ExplainedNow, ExplainedNext

\* The registers other than the faders', left alone.
LEMMA LoopbackKept ==
    ASSUME OneLoopback, UNCHANGED <<fx_send, loopback, fx_reg, loop_map>>
    PROVE  OneLoopback'
  BY DEF OneLoopback

LEMMA XpointKeeps ==
    ASSUME MixerInv, NEW f \in Faders, NEW v \in Levels, NEW ok \in BOOLEAN,
           XpointPut(f[1], f[2], v, ok)
    PROVE  MixerInv'
  <1> DEFINE o == f[1]
             s == f[2]
  <1>1. o \in Outs /\ s \in Srcs /\ v \in [Sides -> 0..FaderTop]
    BY MixerAssumption
  <1>2. UNCHANGED <<phase, split, ms_proc, trim, width, fx_send, loopback, fx_reg, loop_map>>
    BY DEF XpointPut
  <1>3. /\ xpoint' \in [Outs -> [Srcs -> [Sides -> 0..FaderTop]]]
        /\ \A p \in Outs, t \in Srcs : <<p, t>> # <<o, s>> => xpoint'[p][t] = xpoint[p][t]
        /\ ok => xpoint'[o][s] = v
        /\ ~ok => xpoint' = xpoint
    BY <1>1 DEF XpointPut, MixerInv, MixerShape
  <1>4. \A r \in Slots \ DOMAIN FaderRegs(o, s, v) :
            \A x : Explained(x, r[1], r[2], r[3]) => Explained(x, r[1], r[2], r[3])'
    <2> TAKE r \in Slots \ DOMAIN FaderRegs(o, s, v)
    <2>1. r[1] \in Outs /\ r[2] \in Srcs /\ <<r[1], r[2]>> # <<o, s>>
      BY SlotParts DEF FaderRegs
    <2>2. xpoint'[r[1]][r[2]] = xpoint[r[1]][r[2]]
      BY <1>3, <2>1
    <2> QED BY <1>2, <2>2 DEF Explained, WidthRegs
  <1>5. ok => \A r \in Slots \cap DOMAIN FaderRegs(o, s, v) :
                  \A x : x = FaderRegs(o, s, v)[r] => Explained(x, r[1], r[2], r[3])'
    BY <1>3, SlotParts DEF Explained, FaderRegs
  <1>6. SlotsExplained'
    BY <1>4, <1>5, WriteExplained DEF XpointPut, MixerInv, NothingStale
  <1> QED BY <1>2, <1>3, <1>6, LoopbackKept
          DEF MixerInv, MixerShape, TrimPairs, NothingStale

LEMMA PhaseKeeps ==
    ASSUME MixerInv, NEW mic \in Mics, NEW ok \in BOOLEAN, PhasePut(mic, ok)
    PROVE  MixerInv'
  <1> DEFINE regs == PhaseRegs(mic, ~phase[mic])
  <1>1. UNCHANGED <<xpoint, split, ms_proc, trim, width, fx_send, loopback, fx_reg, loop_map>>
    BY DEF PhasePut
  <1>2. /\ phase' \in [Mics -> BOOLEAN]
        /\ \A m \in Mics : m # mic => phase'[m] = phase[m]
        /\ ok => (phase'[mic] <=> ~phase[mic])
        /\ ~ok => phase' = phase
    BY DEF PhasePut, MixerInv, MixerShape
  <1>3. \A r \in Slots \ DOMAIN regs :
            \A x : Explained(x, r[1], r[2], r[3]) => Explained(x, r[1], r[2], r[3])'
    <2> TAKE r \in Slots \ DOMAIN regs
    <2>1. ~(r[2] = mic /\ r[3] = L)
      BY SlotParts DEF PhaseRegs
    <2> QED BY <1>1, <1>2, <2>1 DEF Explained, WidthRegs
  <1>4. ok => \A r \in Slots \cap DOMAIN regs :
                  \A x : x = regs[r] => Explained(x, r[1], r[2], r[3])'
    <2> SUFFICES ASSUME ok, NEW r \in Slots \cap DOMAIN regs, NEW x, x = regs[r]
                 PROVE  Explained(x, r[1], r[2], r[3])'
      OBVIOUS
    <2>1. /\ r[2] = mic /\ r[3] = L
          /\ regs[r] = IF ~phase[mic] THEN Negated(xpoint[r[1]][mic][L])
                       ELSE xpoint[r[1]][mic][L]
      BY DEF PhaseRegs
    <2> QED BY <1>1, <1>2, <2>1 DEF Explained, Negated
  <1>5. Write(regs, ok)
    BY DEF PhasePut
  <1> HIDE DEF regs
  <1>6. SlotsExplained'
    BY <1>3, <1>4, <1>5, WriteExplained DEF MixerInv, NothingStale
  <1> QED BY <1>1, <1>2, <1>6, LoopbackKept
          DEF MixerInv, MixerShape, TrimPairs, NothingStale

LEMMA SplitKeeps ==
    ASSUME MixerInv, NEW pb \in Pbs, NEW ok \in BOOLEAN, SplitPut(pb, ok)
    PROVE  MixerInv'
  <1> DEFINE regs == SplitRegs(pb, ~split[pb])
  <1>1. UNCHANGED <<xpoint, phase, ms_proc, trim, width, fx_send, loopback, fx_reg, loop_map>>
    BY DEF SplitPut
  <1>2. /\ split' \in [Pbs -> BOOLEAN]
        /\ \A p \in Pbs : p # pb => split'[p] = split[p]
        /\ ok => (split'[pb] <=> ~split[pb])
        /\ ~ok => split' = split
    BY DEF SplitPut, MixerInv, MixerShape
  <1>3. pb \in Int
    BY MixerAssumption
  <1>4. \A r \in Slots \ DOMAIN regs :
            \A x : Explained(x, r[1], r[2], r[3]) => Explained(x, r[1], r[2], r[3])'
    <2> TAKE r \in Slots \ DOMAIN regs
    <2>1. r[2] >= PB1 /\ r[1] = 0 => r[2] - PB1 \in Pbs /\ r[2] - PB1 # pb
      BY <1>3, SlotParts, SourceNumbers DEF SplitRegs, PB1
    <2> QED BY <1>1, <1>2, <2>1 DEF Explained, WidthRegs
  <1>5. ok => \A r \in Slots \cap DOMAIN regs :
                  \A x : x = regs[r] => Explained(x, r[1], r[2], r[3])'
    <2> SUFFICES ASSUME ok, NEW r \in Slots \cap DOMAIN regs, NEW x, x = regs[r]
                 PROVE  Explained(x, r[1], r[2], r[3])'
      OBVIOUS
    <2>1. /\ r[1] = 0 /\ r[2] = PB1 + pb
          /\ regs[r] = IF ~split[pb] THEN IF r[3] = L THEN Master0dB ELSE 0
                       ELSE xpoint[0][PB1 + pb][r[3]]
      BY DEF SplitRegs
    <2>2. r[2] >= PB1 /\ r[2] - PB1 = pb
      BY <1>3, <2>1, MixerAssumption DEF PB1
    <2> QED BY <1>1, <1>2, <2>1, <2>2 DEF Explained
  <1>6. Write(regs, ok)
    BY DEF SplitPut
  <1> HIDE DEF regs
  <1>7. SlotsExplained'
    BY <1>4, <1>5, <1>6, WriteExplained DEF MixerInv, NothingStale
  <1> QED BY <1>1, <1>2, <1>7, LoopbackKept
          DEF MixerInv, MixerShape, TrimPairs, NothingStale

LEMMA MsKeeps ==
    ASSUME MixerInv, NEW ok \in BOOLEAN, MsPut(ok)
    PROVE  MixerInv'
  <1> DEFINE regs == MsRegs(~ms_proc)
  <1>1. UNCHANGED <<xpoint, phase, split, trim, width, fx_send, loopback, fx_reg, loop_map>>
    BY DEF MsPut
  <1>2. /\ ms_proc' \in BOOLEAN
        /\ ok => (ms_proc' <=> ~ms_proc)
        /\ ~ok => ms_proc' = ms_proc
    BY DEF MsPut, MixerInv, MixerShape
  <1>3. \A r \in Slots \ DOMAIN regs :
            \A x : Explained(x, r[1], r[2], r[3]) => Explained(x, r[1], r[2], r[3])'
    <2> TAKE r \in Slots \ DOMAIN regs
    <2>1. ~(r[2] = 1 /\ r[1] \in {0, 1})
      BY SlotParts DEF MsRegs
    <2> QED BY <1>1, <2>1 DEF Explained, WidthRegs
  <1>4. ok => \A r \in Slots \cap DOMAIN regs :
                  \A x : x = regs[r] => Explained(x, r[1], r[2], r[3])'
    <2> SUFFICES ASSUME ok, NEW r \in Slots \cap DOMAIN regs, NEW x, x = regs[r]
                 PROVE  Explained(x, r[1], r[2], r[3])'
      OBVIOUS
    <2>1. /\ r[1] \in {0, 1} /\ r[2] = 1
          /\ regs[r] = IF ~ms_proc THEN 0 ELSE xpoint[r[1]][1][r[3]]
      BY DEF MsRegs
    <2> QED BY <1>1, <1>2, <2>1 DEF Explained, MixerInv, MixerShape
  <1>5. Write(regs, ok)
    BY DEF MsPut
  <1> HIDE DEF regs
  <1>6. SlotsExplained'
    BY <1>3, <1>4, <1>5, WriteExplained DEF MixerInv, NothingStale
  <1> QED BY <1>1, <1>2, <1>6, LoopbackKept
          DEF MixerInv, MixerShape, TrimPairs, NothingStale

LEMMA TrimKeeps ==
    ASSUME MixerInv, NEW mic \in Mics, NEW db \in Trims, NEW ok \in BOOLEAN,
           TrimPut(mic, db, ok)
    PROVE  MixerInv'
  <1> DEFINE regs == TrimRegs(mic, db)
             pair == {mic, Sibling(mic)}
  <1>1. UNCHANGED <<xpoint, phase, split, ms_proc, width, fx_send, loopback, fx_reg, loop_map>>
    BY DEF TrimPut
  <1>2. /\ trim' \in [Mics -> -65..6]
        /\ \A m \in Mics \ pair : trim'[m] = trim[m]
        /\ ok => \A m \in pair : trim'[m] = db
        /\ ~ok => trim' = trim
    BY MixerAssumption, SourceNumbers DEF TrimPut, MixerInv, MixerShape
  <1>3. TrimPairs'
    <2>1. \A m \in Mics : m \in pair <=> Sibling(m) \in pair
      BY SourceNumbers
    <2>2. CASE ok
      BY <1>2, <2>1, <2>2, SourceNumbers DEF TrimPairs, MixerInv
    <2>3. CASE ~ok
      BY <1>2, <2>3 DEF TrimPairs, MixerInv
    <2> QED BY <2>2, <2>3
  <1>4. \A r \in Slots \ DOMAIN regs :
            \A x : Explained(x, r[1], r[2], r[3]) => Explained(x, r[1], r[2], r[3])'
    <2> TAKE r \in Slots \ DOMAIN regs
    <2>1. r[1] = 0 => r[2] \notin pair
      BY SlotParts DEF TrimRegs
    <2> QED BY <1>1, <1>2, <2>1 DEF Explained, WidthRegs
  <1>5. ok => \A r \in Slots \cap DOMAIN regs :
                  \A x : x = regs[r] => Explained(x, r[1], r[2], r[3])'
    <2> SUFFICES ASSUME ok, NEW r \in Slots \cap DOMAIN regs, NEW x, x = regs[r]
                 PROVE  Explained(x, r[1], r[2], r[3])'
      OBVIOUS
    <2>1. r[1] = 0 /\ r[2] \in pair /\ regs[r] = Master16(2 * db)
      BY DEF TrimRegs
    <2>2. r[2] \in Mics
      BY <2>1, SourceNumbers
    <2> QED BY <1>2, <2>1, <2>2 DEF Explained
  <1>6. Write(regs, ok)
    BY DEF TrimPut
  <1> HIDE DEF regs
  <1>7. SlotsExplained'
    BY <1>4, <1>5, <1>6, WriteExplained DEF MixerInv, NothingStale
  <1> QED BY <1>1, <1>2, <1>3, <1>7, LoopbackKept DEF MixerInv, MixerShape, NothingStale

LEMMA WidthKeeps ==
    ASSUME MixerInv, NEW w, NEW ok \in BOOLEAN, WidthPut(w, ok)
    PROVE  MixerInv'
  <1> DEFINE regs == WidthRegs(w)
  <1>1. UNCHANGED <<xpoint, phase, split, ms_proc, trim, fx_send, loopback, fx_reg, loop_map>>
    BY DEF WidthPut
  <1>2. /\ ok => width' = w
        /\ ~ok => width' = width
    BY DEF WidthPut
  <1>3. \A r \in Slots \ DOMAIN regs :
            \A x : Explained(x, r[1], r[2], r[3]) => Explained(x, r[1], r[2], r[3])'
    <2> TAKE r \in Slots \ DOMAIN regs
    <2>1. ~(r[1] \in {0, 1} /\ r[2] \in {0, 1})
      BY SlotParts DEF WidthRegs
    <2> QED BY <1>1, <2>1 DEF Explained
  <1>4. ok => \A r \in Slots \cap DOMAIN regs :
                  \A x : x = regs[r] => Explained(x, r[1], r[2], r[3])'
    <2> SUFFICES ASSUME ok, NEW r \in Slots \cap DOMAIN regs, NEW x, x = regs[r]
                 PROVE  Explained(x, r[1], r[2], r[3])'
      OBVIOUS
    <2>1. r[1] \in {0, 1} /\ r[2] \in {0, 1} /\ r = <<r[1], r[2], r[3]>>
      BY DEF WidthRegs
    <2>2. WidthRegs(width)' = regs
      BY <1>2
    <2> QED BY <2>1, <2>2 DEF Explained
  <1>5. Write(regs, ok)
    BY DEF WidthPut
  <1> HIDE DEF regs
  <1>6. SlotsExplained'
    BY <1>3, <1>4, <1>5, WriteExplained DEF MixerInv, NothingStale
  <1> QED BY <1>1, <1>6, LoopbackKept DEF MixerInv, MixerShape, TrimPairs, NothingStale

LEMMA FxSendKeeps ==
    ASSUME MixerInv, NEW v, NEW ok \in BOOLEAN, FxSendPut(v, ok)
    PROVE  MixerInv'
  <1>1. UNCHANGED <<xpoint, phase, split, ms_proc, trim, width, loopback, slot, loop_map>>
    BY DEF FxSendPut, strips
  <1>2. SlotsExplained'
    BY <1>1, SlotsKept DEF MixerInv, NothingStale
  <1>3. \A c \in Sides : fx_reg'[c] \in {fx_send', Unknown}
    BY DEF FxSendPut
  <1> QED BY <1>1, <1>2, <1>3
          DEF MixerInv, MixerShape, TrimPairs, NothingStale, OneLoopback

LEMMA LoopbackKeeps ==
    ASSUME MixerInv, NEW out \in Outs, NEW ok \in BOOLEAN, LoopbackPut(out, ok)
    PROVE  MixerInv'
  <1> DEFINE map == LoopMap(out, ~loopback[out])
  <1>1. UNCHANGED <<xpoint, phase, split, ms_proc, trim, width, fx_send, slot, fx_reg>>
    BY DEF LoopbackPut, strips
  <1>2. SlotsExplained'
    BY <1>1, SlotsKept DEF MixerInv, NothingStale
  <1>3. \A o \in Outs : map[o] = IF ~loopback[out] /\ o = out THEN 1 ELSE 0
    BY DEF LoopMap
  <1>4. /\ loop_map' = IF ok THEN map ELSE [o \in Outs |-> Unknown]
        /\ loopback' = IF ok THEN [o \in Outs |-> map[o] = 1] ELSE loopback
    BY DEF LoopbackPut
  <1> HIDE DEF map
  <1>5. CASE ok
    <2>1. \A o \in Outs : map[o] \in {0, 1}
      BY <1>3
    <2>2. /\ loopback' \in [Outs -> BOOLEAN]
          /\ \A o \in Outs : loopback'[o] <=> map[o] = 1
          /\ \A o \in Outs : loop_map'[o] = map[o]
      BY <1>4, <1>5, <2>1
    <2>3. OneLoopback'
      BY <1>1, <1>3, <2>1, <2>2 DEF MixerInv, NothingStale, OneLoopback
    <2> QED BY <1>1, <1>2, <2>2, <2>3 DEF MixerInv, MixerShape, TrimPairs, NothingStale
  <1>6. CASE ~ok
    <2>1. loopback' = loopback /\ \A o \in Outs : loop_map'[o] = Unknown
      BY <1>4, <1>6
    <2> QED BY <1>1, <1>2, <2>1
            DEF MixerInv, MixerShape, TrimPairs, NothingStale, OneLoopback
  <1> QED BY <1>5, <1>6

LEMMA PutMixerKeeps ==
    ASSUME MixerInv, NEW kind, NEW ok \in BOOLEAN, PutMixer(kind, ok)
    PROVE  MixerInv'
  BY XpointKeeps, PhaseKeeps, SplitKeeps, MsKeeps, TrimKeeps, WidthKeeps, FxSendKeeps,
     LoopbackKeeps DEF PutMixer

LEMMA MixerInitHolds == MixerInit => MixerInv
  <1> SUFFICES ASSUME MixerInit PROVE MixerInv
    OBVIOUS
  <1>1. FaderTop \in Nat /\ Fader0dB \in 0..FaderTop
    BY DEF FaderTop, Curve, Fader0dB
  <1>2. \A s \in Srcs : DefaultFader(s) \in [Sides -> 0..FaderTop]
    BY <1>1, SourceNumbers DEF DefaultFader, PB1
  <1>3. MixerShape
    <2>1. xpoint \in [Outs -> [Srcs -> [Sides -> 0..FaderTop]]]
      BY <1>2 DEF MixerInit
    <2>2. trim \in [Mics -> -65..6]
      BY DEF MixerInit
    <2> QED BY <2>1, <2>2 DEF MixerInit, MixerShape
  <1>4. TrimPairs
    BY SourceNumbers DEF MixerInit, TrimPairs
  <1>5. SlotsExplained
    <2> SUFFICES ASSUME NEW r \in Slots
                 PROVE  slot[r] = xpoint[r[1]][r[2]][r[3]]
      BY DEF SlotsExplained, Explains
    <2> QED BY SlotParts DEF MixerInit
  <1>6. OneLoopback
    BY DEF MixerInit, OneLoopback
  <1> QED BY <1>3, <1>4, <1>5, <1>6 DEF MixerInv, NothingStale

LEMMA MixerLostKeeps ==
    ASSUME MixerInv, MixerLost
    PROVE  MixerInv'
  <1>1. UNCHANGED <<xpoint, phase, split, ms_proc, trim, width, fx_send, loopback>>
    BY DEF MixerLost, mixer_cache, strips
  <1> QED BY <1>1 DEF MixerLost, MixerInv, MixerShape, TrimPairs, NothingStale,
                      SlotsExplained, OneLoopback

\* What a resume writes last on a register is explained by the control that
\* wrote it.
LEMMA RestoredIsExplained ==
    ASSUME MixerInv, NEW r \in Slots
    PROVE  Explained(RestoredSlots[r], r[1], r[2], r[3])
  <1> DEFINE faders == [q \in Slots |-> xpoint[q[1]][q[2]][q[3]]]
             wide   == Over(IF width # 0 THEN WidthRegs(width) ELSE Nothing, faders)
             sided  == Over(IF ms_proc THEN MsRegs(TRUE) ELSE Nothing, wide)
             phased == [q \in Slots |->
                           IF q[2] \in Mics /\ q[3] = L /\ phase[q[2]]
                           THEN Negated(xpoint[q[1]][q[2]][L]) ELSE sided[q]]
             parted == [q \in Slots |->
                           IF q[1] = 0 /\ q[2] >= PB1 /\ split[q[2] - PB1]
                           THEN SplitRegs(q[2] - PB1, TRUE)[q] ELSE phased[q]]
             E(x) == Explained(x, r[1], r[2], r[3])
  <1>1. RestoredSlots[r] =
            IF r[1] = 0 /\ r[2] \in Mics /\ trim[2 * (r[2] \div 2)] # 0
            THEN Master16(2 * trim[2 * (r[2] \div 2)]) ELSE parted[r]
    BY DEF RestoredSlots
  <1>2. E(faders[r])
    BY DEF Explained
  <1>3. E(wide[r])
    <2>1. CASE width # 0 /\ r \in DOMAIN WidthRegs(width)
      <3>1. wide[r] = WidthRegs(width)[r]
        BY <2>1 DEF Over
      <3>2. r[1] \in {0, 1} /\ r[2] \in {0, 1} /\ r = <<r[1], r[2], r[3]>>
        BY <2>1 DEF WidthRegs
      <3> QED BY <3>1, <3>2 DEF Explained
    <2>2. CASE ~(width # 0 /\ r \in DOMAIN WidthRegs(width))
      <3>1. wide[r] = faders[r]
        BY <2>2 DEF Over, Nothing
      <3> HIDE DEF faders, wide, E
      <3> QED BY <3>1, <1>2
    <2> QED BY <2>1, <2>2
  <1> HIDE DEF faders, wide
  <1>4. E(sided[r])
    <2>1. CASE ms_proc /\ r \in DOMAIN MsRegs(TRUE)
      <3>1. sided[r] = MsRegs(TRUE)[r]
        BY <2>1 DEF Over
      <3>2. r[1] \in {0, 1} /\ r[2] = 1 /\ MsRegs(TRUE)[r] = 0
        BY <2>1 DEF MsRegs
      <3> QED BY <2>1, <3>1, <3>2 DEF Explained
    <2>2. CASE ~(ms_proc /\ r \in DOMAIN MsRegs(TRUE))
      <3>1. sided[r] = wide[r]
        BY <2>2 DEF Over, Nothing
      <3> HIDE DEF sided, E
      <3> QED BY <3>1, <1>3
    <2> QED BY <2>1, <2>2
  <1> HIDE DEF sided
  <1>5. E(phased[r])
    <2>1. CASE r[2] \in Mics /\ r[3] = L /\ phase[r[2]]
      BY <2>1 DEF Explained
    <2>2. CASE ~(r[2] \in Mics /\ r[3] = L /\ phase[r[2]])
      <3>1. phased[r] = sided[r]
        BY <2>2
      <3> HIDE DEF phased, E
      <3> QED BY <3>1, <1>4
    <2> QED BY <2>1, <2>2
  <1> HIDE DEF phased
  <1>6. E(parted[r])
    <2>1. CASE r[1] = 0 /\ r[2] >= PB1 /\ split[r[2] - PB1]
      <3>1. parted[r] = SplitRegs(r[2] - PB1, TRUE)[r]
        BY <2>1
      <3>2. PB1 + (r[2] - PB1) = r[2]
        BY SlotParts, SourceNumbers DEF PB1
      <3>3. r \in {0} \X {PB1 + (r[2] - PB1)} \X Sides
        BY <2>1, <3>2, SlotParts
      <3>4. SplitRegs(r[2] - PB1, TRUE)[r] = IF r[3] = L THEN Master0dB ELSE 0
        BY <3>3 DEF SplitRegs
      <3> QED BY <2>1, <3>1, <3>4 DEF Explained
    <2>2. CASE ~(r[1] = 0 /\ r[2] >= PB1 /\ split[r[2] - PB1])
      <3>1. parted[r] = phased[r]
        BY <2>2
      <3> HIDE DEF parted, E
      <3> QED BY <3>1, <1>5
    <2> QED BY <2>1, <2>2
  <1> HIDE DEF parted
  <1>7. CASE r[1] = 0 /\ r[2] \in Mics /\ trim[2 * (r[2] \div 2)] # 0
    <2>1. 2 * (r[2] \div 2) \in {r[2], Sibling(r[2])}
      BY <1>7, SourceNumbers DEF Sibling
    <2>2. trim[2 * (r[2] \div 2)] = trim[r[2]]
      BY <1>7, <2>1 DEF MixerInv, TrimPairs
    <2> QED BY <1>1, <1>7, <2>2 DEF Explained
  <1>8. CASE ~(r[1] = 0 /\ r[2] \in Mics /\ trim[2 * (r[2] \div 2)] # 0)
    <2>1. RestoredSlots[r] = parted[r]
      BY <1>1, <1>8
    <2> HIDE DEF E
    <2>2. E(RestoredSlots[r])
      BY <2>1, <1>6
    <2> QED BY <2>2 DEF E
  <1> QED BY <1>7, <1>8

LEMMA MixerRestoredKeeps ==
    ASSUME MixerInv, MixerRestored
    PROVE  MixerInv'
  <1>1. UNCHANGED <<xpoint, phase, split, ms_proc, trim, width, fx_send, loopback>>
    BY DEF MixerRestored, mixer_cache, strips
  <1>2. SlotsExplained'
    <2> SUFFICES ASSUME NEW r \in Slots
                 PROVE  slot'[r] \in Explains(r[1], r[2], r[3])'
      BY DEF SlotsExplained
    <2>1. slot'[r] \in Explains(r[1], r[2], r[3])
      BY RestoredIsExplained, ExplainedNow DEF MixerRestored
    <2> QED BY <1>1, <2>1 DEF Explains, WidthRegs
  <1>3. OneLoopback'
    <2>1. \A o, p \in Outs : loopback[o] /\ loopback[p] => o = p
      BY DEF MixerInv, NothingStale, OneLoopback
    <2>2. \A o \in Outs : o <= o
      BY SourceNumbers
    <2>3. \A o \in Outs : loop_map'[o] = IF loopback[o] THEN 1 ELSE 0
      BY <2>1, <2>2 DEF MixerRestored
    <2>4. \A c \in Sides : fx_reg'[c] = fx_send
      BY DEF MixerRestored
    <2> QED BY <1>1, <2>1, <2>3, <2>4 DEF OneLoopback
  <1> QED BY <1>1, <1>2, <1>3 DEF MixerInv, MixerShape, TrimPairs, NothingStale

----------------------------------------------------------------------------
\* The whole

\* What does not change stays in step.
LEMMA UntouchedKeeps ==
    /\ MixerInv /\ UNCHANGED mixer => MixerInv'
    /\ PreampsInv /\ UNCHANGED preamps => PreampsInv'
    /\ EqInv /\ UNCHANGED eqs => EqInv'
  <1>1. MixerInv /\ UNCHANGED mixer => MixerInv'
    BY SlotsKept, LoopbackKept DEF mixer, mixer_cache, mixer_wire, strips, MixerInv,
       MixerShape, TrimPairs, NothingStale
  <1>2. PreampsInv /\ UNCHANGED preamps => PreampsInv'
    BY DEF preamps, preamps_cache, preamps_wire, PreampsInv, PreampsTypeOK, SharedWords
  <1>3. EqInv /\ UNCHANGED eqs => EqInv'
    <2> SUFFICES ASSUME EqInv, UNCHANGED eqs PROVE EqInv'
      OBVIOUS
    <2>1. eq' = eq /\ eq_rate' = eq_rate /\ dsp' = dsp
      BY DEF eqs
    <2>2. EqShape'
      BY <2>1 DEF EqInv, EqShape
    <2>3. EqFollows'
      BY <2>1 DEF EqInv, EqFollows
    <2> QED BY <2>2, <2>3 DEF EqInv
  <1> QED BY <1>1, <1>2, <1>3

LEMMA InitHolds == Init => SurfaceInv
  BY MixerInitHolds, PreampsInitHolds, EqInitHolds DEF Init, SurfaceInv

LEMMA StepKeeps == SurfaceInv /\ [Next]_vars => SurfaceInv'
  <1> SUFFICES ASSUME SurfaceInv, [Next]_vars
               PROVE  SurfaceInv'
    OBVIOUS
  <1> USE DEF SurfaceInv
  <1>1. ASSUME NEW kind, NEW ok \in BOOLEAN, Put(kind, ok)
        PROVE  MixerInv' /\ PreampsInv' /\ EqInv'
    <2>1. CASE PutMixer(kind, ok) /\ UNCHANGED <<preamps, eqs>>
      BY <2>1, PutMixerKeeps, UntouchedKeeps
    <2>2. CASE PutPreamps(kind, ok) /\ UNCHANGED <<mixer, eqs>>
      BY <2>2, PutPreampsKeeps, UntouchedKeeps
    <2>3. CASE PutEq(kind, ok) /\ UNCHANGED <<mixer, preamps>>
      BY <2>3, EqPutKeeps, UntouchedKeeps DEF PutEq
    <2> QED BY <1>1, <2>1, <2>2, <2>3 DEF Put
  <1>2. ASSUME RateSet
        PROVE  MixerInv' /\ PreampsInv' /\ EqInv'
    <2>1. PICK ok \in Outcomes, rate \in EqRates,
               failing \in IF "fail" \in Events THEN SUBSET Strips ELSE {{}} :
              /\ ClockWritten(ok)
              /\ EqRateChange(rate, failing) \/ UNCHANGED eqs
      BY <1>2 DEF RateSet
    <2>2. ok \in BOOLEAN
      BY DEF Outcomes
    <2>3. EqInv'
      BY <2>1, ReuploadKeeps, UntouchedKeeps DEF EqRateChange
    <2> QED BY <1>2, <2>1, <2>2, <2>3, ClockKeeps, UntouchedKeeps DEF RateSet
  <1>3. ASSUME Suspend
        PROVE  MixerInv' /\ PreampsInv' /\ EqInv'
    BY <1>3, MixerLostKeeps, PreampsLostKeeps, EqLostKeeps DEF Suspend
  <1>4. ASSUME Resume
        PROVE  MixerInv' /\ PreampsInv' /\ EqInv'
    <2>1. PICK failing : EqRestored(failing)
      BY <1>4 DEF Resume
    <2>2. EqInv'
      BY <2>1, ReuploadKeeps DEF EqRestored
    <2> QED BY <1>4, <2>2, MixerRestoredKeeps, PreampsRestoredKeeps DEF Resume
  <1>5. ASSUME ResumeFails
        PROVE  MixerInv' /\ PreampsInv' /\ EqInv'
    BY <1>5, UntouchedKeeps DEF ResumeFails
  <1>6. ASSUME UNCHANGED vars
        PROVE  SurfaceInv'
    BY <1>6, UntouchedKeeps DEF vars
  <1>7. CASE Next
    <2>1. UNCHANGED use
      BY <1>7 DEF Next
    <2> QED BY <1>1, <1>2, <1>3, <1>4, <1>5, <1>7, <2>1 DEF Next, Outcomes
  <1> QED BY <1>6, <1>7

\* The registers and the controls stay in step.
THEOREM SurfaceStaysInStep == Spec => []SurfaceInv
  BY InitHolds, StepKeeps, PTL DEF Spec

\* No crosspoint register, FX send or loopback map is left stale.
THEOREM NothingGoesStale == Spec => []NothingStale
  <1>1. SurfaceInv => NothingStale
    BY DEF SurfaceInv, MixerInv
  <1> QED BY <1>1, SurfaceStaysInStep, PTL

\* The words that controls share hold all their flags.
THEOREM WordsStayShared == Spec => []SharedWords
  <1>1. SurfaceInv => SharedWords
    BY DEF SurfaceInv, PreampsInv
  <1> QED BY <1>1, SurfaceStaysInStep, PTL

\* Every block the unit is known to have is right for the rate.
THEOREM EqAlwaysFollows == Spec => []EqFollows
  <1>1. SurfaceInv => EqFollows
    BY DEF SurfaceInv, EqInv
  <1> QED BY <1>1, SurfaceStaysInStep, PTL

\* A put that fails changes no control but the equaliser's.
LEMMA FailedPutKeeps ==
    ASSUME SurfaceInv, [Next]_vars, ~call'.ok
    PROVE  UNCHANGED <<mixer_cache, preamps_cache>>
  <1>1. ASSUME NEW kind, NEW ok \in BOOLEAN, Put(kind, ok)
        PROVE  UNCHANGED <<mixer_cache, preamps_cache>>
    <2>1. ~ok
      BY <1>1 DEF Put
    <2>2. CASE PutMixer(kind, ok) /\ UNCHANGED <<preamps, eqs>>
      BY <2>1, <2>2 DEF PutMixer, XpointPut, PhasePut, SplitPut, MsPut, TrimPut, WidthPut,
         FxSendPut, LoopbackPut, mixer_cache, strips, preamps, SurfaceInv, MixerInv, MixerShape
    <2>3. CASE PutPreamps(kind, ok) /\ UNCHANGED <<mixer, eqs>>
      BY <2>1, <2>3 DEF PutPreamps, SwitchPut, RefLevelPut, GainPut, RoutingPut, SettingsPut,
         PitchPut, preamps_cache, mixer
    <2>4. CASE PutEq(kind, ok) /\ UNCHANGED <<mixer, preamps>>
      BY <2>4 DEF mixer, preamps
    <2> QED BY <1>1, <2>2, <2>3, <2>4 DEF Put
  <1>2. CASE RateSet \/ Suspend \/ Resume \/ ResumeFails
    BY <1>2 DEF RateSet, Suspend, Resume, ResumeFails, NoCall
  <1>3. CASE UNCHANGED vars
    BY <1>3 DEF vars, mixer, preamps
  <1> QED BY <1>1, <1>2, <1>3 DEF Next, Outcomes

THEOREM FailuresKeepControls == Spec => FailureKeepsControls
  <1>1. SurfaceInv /\ [Next]_vars =>
            [~call'.ok => UNCHANGED <<mixer_cache, preamps_cache>>]_vars
    BY FailedPutKeeps
  <1> QED BY <1>1, SurfaceStaysInStep, PTL DEF Spec, FailureKeepsControls
=============================================================================
