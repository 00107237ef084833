------------------------------- MODULE Mixer -------------------------------
(***************************************************************************)
(* The crosspoint registers and the controls that share them.  A register  *)
(* is one side of one source in one output's block.  The fader is its own  *)
(* control; phase, split, MS, trim and width write over it and leave the   *)
(* cached fader alone, each in blocks of its own choice.  Loopback and the *)
(* FX send have registers of their own.                                    *)
(*                                                                         *)
(* chip->mutex makes each put one action.  Register values are the bytes   *)
(* the code sends, without the rotating flag bits of wIndex.               *)
(***************************************************************************)
EXTENDS Registers, Curves

CONSTANTS
    Outs,     \* the output pairs, 0 is AN1/2; at least 0 and 1 are there
    Mics,     \* the analog inputs, 0..3, in pairs
    Pbs,      \* the playback pairs, 0..5
    Faders,   \* the crosspoints <<out, src>> that applications move ...
    Levels,   \* ... and the values, left and right, they put
    Trims,    \* the trims put, in dB
    Widths    \* the widths put, -100..100

Sides == {1, 2}
L == 1
R == 2
PB1 == 8                         \* BF_SRC_PB1
Srcs == Mics \cup {PB1 + pb : pb \in Pbs}
Sibling(mic) == IF mic % 2 = 0 THEN mic + 1 ELSE mic - 1

Fader0dB == 5792                 \* BF_FADER_0DB
Master0dB == 8192                \* BF_MASTER_0DB

ASSUME MixerAssumption ==
    /\ {0, 1} \subseteq Outs /\ Outs \subseteq 0..5
    /\ {0, 1} \subseteq Mics /\ Mics \subseteq 0..3
    /\ \A mic \in Mics : Sibling(mic) \in Mics
    /\ Pbs \subseteq 0..5
    /\ Faders \subseteq Outs \X Srcs
    /\ Levels \subseteq [Sides -> 0..FaderTop]
    /\ Trims \subseteq -65..6
    /\ Widths \subseteq -100..100

Slots == Outs \X Srcs \X Sides
Words == 0..65535

VARIABLES
    xpoint,    \* chip->xpoint[][][]
    phase,     \* chip->phase[]
    split,     \* chip->split[]
    ms_proc,   \* chip->ms_proc
    trim,      \* chip->trim[], in dB
    width,     \* chip->width
    fx_send,   \* chip->fx_send
    loopback,  \* chip->loopback[]
    slot,      \* the crosspoint registers
    fx_reg,    \* the FX send's two registers
    loop_map   \* the loopback map, one entry per output pair

strips      == <<xpoint, phase, split, ms_proc, trim, width>>
mixer_cache == <<strips, fx_send, loopback>>
mixer_wire  == <<slot, fx_reg, loop_map>>
mixer       == <<mixer_cache, mixer_wire>>

----------------------------------------------------------------------------
Negated(v) == 65535 - v

\* The level of a width w on the side it leans to; the other has the rest.
WidthLevel(w) == ((8192 * (100 + w)) \div 2 + 50) \div 100

----------------------------------------------------------------------------
\* What each control writes: registers and their values.
FaderRegs(o, s, v) == [r \in {o} \X {s} \X Sides |-> v[r[3]]]

PhaseRegs(mic, on) ==
    [r \in Outs \X {mic} \X {L} |->
        IF on THEN Negated(xpoint[r[1]][mic][L]) ELSE xpoint[r[1]][mic][L]]

\* Mutant: joining a pair again writes a fixed level.
SplitRegsFixed(pb, on) ==
    [r \in {0} \X {PB1 + pb} \X Sides |->
        IF on THEN IF r[3] = L THEN Master0dB ELSE 0 ELSE 4096]

SplitRegs(pb, on) ==
    [r \in {0} \X {PB1 + pb} \X Sides |->
        IF on THEN IF r[3] = L THEN Master0dB ELSE 0
        ELSE xpoint[0][PB1 + pb][r[3]]]

\* The side signal, AN2, in the blocks of AN1/2 and the phones.
MsRegs(on) == [r \in {0, 1} \X {1} \X Sides |->
                  IF on THEN 0 ELSE xpoint[r[1]][1][r[3]]]

TrimRegs(mic, db) == [r \in {0} \X {mic, Sibling(mic)} \X Sides |-> Master16(2 * db)]

WidthRegs(w) == [r \in {0, 1} \X {0, 1} \X Sides |->
                    IF (r[2] = 0) = (r[3] = L) THEN WidthLevel(w)
                    ELSE Master0dB - WidthLevel(w)]

\* The writes of a put stop at the first that fails: which of its registers
\* the unit then has is left open.
Write(regs, ok) ==
    slot' = [r \in Slots |-> IF r \notin DOMAIN regs THEN slot[r]
                             ELSE IF ok THEN regs[r] ELSE Unknown]

----------------------------------------------------------------------------
\* After probe: the playback channels feed every output, the inputs none.
DefaultFader(s) == [c \in Sides |-> IF s < PB1 THEN 0 ELSE Fader0dB]

MixerInit ==
    /\ xpoint = [o \in Outs |-> [s \in Srcs |-> DefaultFader(s)]]
    /\ phase = [mic \in Mics |-> FALSE]
    /\ split = [pb \in Pbs |-> FALSE]
    /\ ms_proc = FALSE
    /\ trim = [mic \in Mics |-> 0]
    /\ width = 0 /\ fx_send = 0
    /\ loopback = [o \in Outs |-> FALSE]
    /\ slot = [r \in Slots |-> DefaultFader(r[2])[r[3]]]
    /\ fx_reg = [c \in Sides |-> 0]
    /\ loop_map = [o \in Outs |-> 0]

----------------------------------------------------------------------------
\* The controls.  A put of the value cached returns at once; one whose writes
\* fail (ok is FALSE) leaves the cache as it was.
XpointPut(o, s, v, ok) ==
    /\ xpoint[o][s] # v
    /\ Write(FaderRegs(o, s, v), ok)
    /\ xpoint' = IF ok THEN [xpoint EXCEPT ![o][s] = v] ELSE xpoint
    /\ UNCHANGED <<phase, split, ms_proc, trim, width, fx_send, loopback,
                   fx_reg, loop_map>>

PhasePut(mic, ok) ==
    /\ Write(PhaseRegs(mic, ~phase[mic]), ok)
    /\ phase' = IF ok THEN [phase EXCEPT ![mic] = ~@] ELSE phase
    /\ UNCHANGED <<xpoint, split, ms_proc, trim, width, fx_send, loopback,
                   fx_reg, loop_map>>

SplitPut(pb, ok) ==
    /\ Write(SplitRegs(pb, ~split[pb]), ok)
    /\ split' = IF ok THEN [split EXCEPT ![pb] = ~@] ELSE split
    /\ UNCHANGED <<xpoint, phase, ms_proc, trim, width, fx_send, loopback,
                   fx_reg, loop_map>>

MsPut(ok) ==
    /\ Write(MsRegs(~ms_proc), ok)
    /\ ms_proc' = (ms_proc # ok)
    /\ UNCHANGED <<xpoint, phase, split, trim, width, fx_send, loopback,
                   fx_reg, loop_map>>

\* Mutant: the other channel of the pair keeps its cached trim.
TrimPutAlone(mic, db, ok) ==
    /\ trim[mic] # db
    /\ Write(TrimRegs(mic, db), ok)
    /\ trim' = IF ok THEN [trim EXCEPT ![mic] = db] ELSE trim
    /\ UNCHANGED <<xpoint, phase, split, ms_proc, width, fx_send, loopback,
                   fx_reg, loop_map>>

\* The pair has one trim, and the sibling's control is told.
TrimPut(mic, db, ok) ==
    /\ trim[mic] # db
    /\ Write(TrimRegs(mic, db), ok)
    /\ trim' = IF ok THEN [trim EXCEPT ![mic] = db, ![Sibling(mic)] = db] ELSE trim
    /\ UNCHANGED <<xpoint, phase, split, ms_proc, width, fx_send, loopback,
                   fx_reg, loop_map>>

WidthPut(w, ok) ==
    /\ width # w
    /\ Write(WidthRegs(w), ok)
    /\ width' = IF ok THEN w ELSE width
    /\ UNCHANGED <<xpoint, phase, split, ms_proc, trim, fx_send, loopback,
                   fx_reg, loop_map>>

FxSendPut(v, ok) ==
    /\ fx_send # v
    /\ fx_reg' = [c \in Sides |-> IF ok THEN v ELSE Unknown]
    /\ fx_send' = IF ok THEN v ELSE fx_send
    /\ UNCHANGED <<strips, loopback, slot, loop_map>>

\* bf_loopback_write_map(): every channel is written, one pair at most is on.
LoopMap(out, on) == [o \in Outs |-> IF on /\ o = out THEN 1 ELSE 0]

\* Mutant: the pair that was on keeps its cached switch.
LoopbackPutAlone(out, ok) ==
    /\ loop_map' = IF ok THEN LoopMap(out, ~loopback[out]) ELSE [o \in Outs |-> Unknown]
    /\ loopback' = IF ok THEN [loopback EXCEPT ![out] = ~@] ELSE loopback
    /\ UNCHANGED <<strips, fx_send, slot, fx_reg>>

LoopbackPut(out, ok) ==
    LET map == LoopMap(out, ~loopback[out])
    IN /\ loop_map' = IF ok THEN map ELSE [o \in Outs |-> Unknown]
       /\ loopback' = IF ok THEN [o \in Outs |-> map[o] = 1] ELSE loopback
       /\ UNCHANGED <<strips, fx_send, slot, fx_reg>>

----------------------------------------------------------------------------
\* What a resume leaves: the faders, and over them, in this order, the width
\* if there is one, MS, phase, splits and the trims that are not 0.
Over(regs, below) == [r \in Slots |-> IF r \in DOMAIN regs THEN regs[r] ELSE below[r]]

Nothing == [r \in {} |-> 0]

RestoredSlots ==
    LET faders == [r \in Slots |-> xpoint[r[1]][r[2]][r[3]]]
        wide   == Over(IF width # 0 THEN WidthRegs(width) ELSE Nothing, faders)
        sided  == Over(IF ms_proc THEN MsRegs(TRUE) ELSE Nothing, wide)
        phased == [r \in Slots |->
                      IF r[2] \in Mics /\ r[3] = L /\ phase[r[2]]
                      THEN Negated(xpoint[r[1]][r[2]][L]) ELSE sided[r]]
        parted == [r \in Slots |->
                      IF r[1] = 0 /\ r[2] >= PB1 /\ split[r[2] - PB1]
                      THEN SplitRegs(r[2] - PB1, TRUE)[r] ELSE phased[r]]
    IN  [r \in Slots |->
            IF r[1] = 0 /\ r[2] \in Mics /\ trim[2 * (r[2] \div 2)] # 0
            THEN Master16(2 * trim[2 * (r[2] \div 2)]) ELSE parted[r]]

MixerLost ==
    /\ slot' = [r \in Slots |-> Unknown]
    /\ fx_reg' = [c \in Sides |-> Unknown]
    /\ loop_map' = [o \in Outs |-> Unknown]
    /\ UNCHANGED mixer_cache

MixerRestored ==
    /\ slot' = RestoredSlots
    /\ fx_reg' = [c \in Sides |-> fx_send]
    /\ loop_map' = [o \in Outs |->
          IF loopback[o] /\ \A p \in Outs : loopback[p] => o <= p THEN 1 ELSE 0]
    /\ UNCHANGED mixer_cache

----------------------------------------------------------------------------
MixerTypeOK ==
    /\ xpoint \in [Outs -> [Srcs -> [Sides -> 0..FaderTop]]]
    /\ phase \in [Mics -> BOOLEAN] /\ split \in [Pbs -> BOOLEAN]
    /\ ms_proc \in BOOLEAN
    /\ trim \in [Mics -> -65..6] /\ width \in -100..100
    /\ fx_send \in 0..4096
    /\ loopback \in [Outs -> BOOLEAN]
    /\ slot \in [Slots -> Words \cup {Unknown}]
    /\ fx_reg \in [Sides -> 0..4096 \cup {Unknown}]
    /\ loop_map \in [Outs -> {0, 1, Unknown}]

\* The values that a register may hold by what the controls now read.  Trim
\* and width have no off: their last value stays until something else writes.
Explains(o, s, c) ==
    {xpoint[o][s][c]}
    \cup (IF s \in Mics /\ c = L /\ phase[s] THEN {Negated(xpoint[o][s][L])} ELSE {})
    \cup (IF s >= PB1 /\ o = 0 /\ split[s - PB1] THEN {IF c = L THEN Master0dB ELSE 0} ELSE {})
    \cup (IF s = 1 /\ o \in {0, 1} /\ ms_proc THEN {0} ELSE {})
    \cup (IF s \in Mics /\ o = 0 THEN {Master16(2 * trim[s])} ELSE {})
    \cup (IF s \in {0, 1} /\ o \in {0, 1} THEN {WidthRegs(width)[<<o, s, c>>]} ELSE {})

\* Every crosspoint register holds one of them.
SlotsExplained ==
    \A r \in Slots : slot[r] \in Explains(r[1], r[2], r[3]) \cup {Unknown}

\* At most one output is looped back, in the cache as in the unit.
OneLoopback ==
    /\ \A o, p \in Outs : loopback[o] /\ loopback[p] => o = p
    /\ \A o \in Outs : loop_map[o] \in {IF loopback[o] THEN 1 ELSE 0, Unknown}
    /\ \A c \in Sides : fx_reg[c] \in {fx_send, Unknown}

\* No register is left with a stale value, whatever the order in which the
\* faders, the features over them, failed writes and resumes came: neither an
\* old fader, nor an old trim or width, nor what a feature that is off wrote,
\* nor a second output looped back.
NothingStale == SlotsExplained /\ OneLoopback
=============================================================================
