------------------------------ MODULE Preamps ------------------------------
(***************************************************************************)
(* The input preamps and the switches that share a register or a commit:   *)
(* 48 V, pad and ref level in one byte, AN 1>2 and link in another, both   *)
(* taken by the unit at the commit that follows, whose value says Boost;   *)
(* clock source and optical format in the settings word, which the rate    *)
(* and the pitch rewrite as well.                                          *)
(***************************************************************************)
EXTENDS Registers

CONSTANTS
    Channels,  \* the analog inputs, 0..3
    Gains,     \* the gains put on each, in dB
    Pitches    \* the pitches put, in 0.1 %

RefLevels == {"+4dBu", "-10dBV", "Boost"}
PreampBits == {"48V1", "48V2", "PAD1", "PAD2", "REF"}   \* REF: BF_PREAMP_REF_4DBU
Switches == PreampBits \ {"REF"}

\* bf_gain_max_db()
GainMaxDb(mic) == IF mic < 2 THEN 65 ELSE 9

ASSUME PreampsAssumption ==
    /\ Channels \subseteq 0..3
    /\ Gains \in [Channels -> SUBSET Int]
    /\ \A mic \in Channels : Gains[mic] \subseteq 0..GainMaxDb(mic)
    /\ Pitches \subseteq -50..50

VARIABLES
    preamp,         \* chip->preamp, as a set of bits
    ref_level,      \* chip->ref_level
    gain,           \* chip->gain[]
    flags,          \* chip->an12, ->linked, ->clock_optical, ->optical_spdif
    pitch,          \* chip->pitch
    preamp_reg,     \* the preamp byte
    flag_reg,       \* the AN 1>2 and link bits
    commit_reg,     \* what the last commit said
    gain_reg,       \* the gain registers
    settings_reg,   \* the settings word
    pitch_reg       \* the varispeed quad, by its pitch

preamps_cache == <<preamp, ref_level, gain, flags, pitch>>
preamps_wire  == <<preamp_reg, flag_reg, commit_reg, gain_reg, settings_reg, pitch_reg>>
preamps       == <<preamps_cache, preamps_wire>>

----------------------------------------------------------------------------
\* bf_gain_raw(): 3 dB steps in bits 0-4 and the rest in bits 5-7, or 0.5 dB
\* steps for the instrument inputs.
GainRaw(mic, db) ==
    LET coarse == IF db \div 3 > 20 THEN 20 ELSE db \div 3
    IN  IF mic >= 2 THEN 2 * db ELSE 32 * (db - 3 * coarse) + coarse

\* Mutant: only the put that engages it commits Boost.
CommitPlain(level) == 0

Commit(level) == IF level = "Boost" THEN 3 ELSE 0

\* The flags of each shared register.
Routing == {"AN12", "LINK"}
Settings == {"OPTICAL", "SPDIF"}

\* Mutant: a flag that came later is not in the settings word.
WordOfOld(set, on) == on \cap (set \ {"SPDIF"})

\* A word is composed from all the flags of its register.
Word(set, on) == on \cap set

----------------------------------------------------------------------------
\* After probe the cache follows the readback of the preamp byte, whose gains
\* nothing reads back; Boost cannot be recovered.
PreampsInit ==
    /\ preamp \in {{}, {"REF"}, {"REF", "48V1"}}
    /\ ref_level = IF "REF" \in preamp THEN "+4dBu" ELSE "-10dBV"
    /\ gain = [mic \in Channels |-> 0]
    /\ flags = {} /\ pitch = 0
    /\ preamp_reg = preamp /\ flag_reg = {}
    /\ commit_reg = 0
    /\ gain_reg = [mic \in Channels |-> Unknown]
    /\ settings_reg = {} /\ pitch_reg = 0

----------------------------------------------------------------------------
\* bf_preamp_state_write(): the byte, and the commit.  A transfer that fails
\* may have been executed, and the one after it is not tried.
StateWrite(bits, level, ok) ==
    IF ok THEN preamp_reg' = bits /\ commit_reg' = Commit(level)
          ELSE preamp_reg' = UnknownBits /\ commit_reg' = Unknown

\* Mutant: a byte that the unit may not have taken stays in the cache.
SwitchPutKept(bit, ok) ==
    LET bits == IF bit \in preamp THEN preamp \ {bit} ELSE preamp \cup {bit}
    IN /\ StateWrite(bits, ref_level, ok)
       /\ preamp' = bits
       /\ UNCHANGED <<ref_level, gain, flags, pitch, flag_reg, gain_reg,
                      settings_reg, pitch_reg>>

\* 48 V and pad.
SwitchPut(bit, ok) ==
    LET bits == IF bit \in preamp THEN preamp \ {bit} ELSE preamp \cup {bit}
    IN /\ StateWrite(bits, ref_level, ok)
       /\ preamp' = IF ok THEN bits ELSE preamp
       /\ UNCHANGED <<ref_level, gain, flags, pitch, flag_reg, gain_reg,
                      settings_reg, pitch_reg>>

RefLevelPut(level, ok) ==
    LET bits == IF level = "+4dBu" THEN preamp \cup {"REF"} ELSE preamp \ {"REF"}
    IN /\ level # ref_level
       /\ StateWrite(bits, level, ok)
       /\ preamp' = IF ok THEN bits ELSE preamp
       /\ ref_level' = IF ok THEN level ELSE ref_level
       /\ UNCHANGED <<gain, flags, pitch, flag_reg, gain_reg, settings_reg, pitch_reg>>

GainPut(mic, db, ok) ==
    /\ gain[mic] # db
    /\ gain_reg' = [gain_reg EXCEPT ![mic] = IF ok THEN GainRaw(mic, db) ELSE Unknown]
    /\ gain' = IF ok THEN [gain EXCEPT ![mic] = db] ELSE gain
    /\ UNCHANGED <<preamp, ref_level, flags, pitch, preamp_reg, flag_reg,
                   commit_reg, settings_reg, pitch_reg>>

Toggled(flag) == IF flag \in flags THEN flags \ {flag} ELSE flags \cup {flag}

\* AN 1>2 and link: the word of both, and the commit, which must not end Boost.
RoutingPut(flag, ok) ==
    /\ IF ok THEN /\ flag_reg' = Word(Routing, Toggled(flag))
                  /\ commit_reg' = Commit(ref_level)
             ELSE flag_reg' = UnknownBits /\ commit_reg' = Unknown
    /\ flags' = IF ok THEN Toggled(flag) ELSE flags
    /\ UNCHANGED <<preamp, ref_level, gain, pitch, preamp_reg, gain_reg,
                   settings_reg, pitch_reg>>

\* Clock source and optical format: one word, from all that is cached.
SettingsPut(flag, ok) ==
    /\ settings_reg' = IF ok THEN Word(Settings, Toggled(flag)) ELSE UnknownBits
    /\ flags' = IF ok THEN Toggled(flag) ELSE flags
    /\ UNCHANGED <<preamp, ref_level, gain, pitch, preamp_reg, flag_reg,
                   commit_reg, gain_reg, pitch_reg>>

\* The quad of the pitch, and the settings word that makes it apply.
PitchPut(p, ok) ==
    /\ p # pitch
    /\ pitch_reg' = IF ok THEN p ELSE Unknown
    /\ settings_reg' = IF ok THEN Word(Settings, flags) ELSE UnknownBits
    /\ pitch' = IF ok THEN p ELSE pitch
    /\ UNCHANGED <<preamp, ref_level, gain, flags, preamp_reg, flag_reg,
                   commit_reg, gain_reg>>

\* bf_clock_write(), by a hw_params at another rate: the settings word again.
ClockWritten(ok) ==
    /\ settings_reg' = IF ok THEN Word(Settings, flags) ELSE UnknownBits
    /\ UNCHANGED <<preamps_cache, preamp_reg, flag_reg, commit_reg, gain_reg, pitch_reg>>

----------------------------------------------------------------------------
PreampsLost ==
    /\ preamp_reg' = UnknownBits /\ flag_reg' = UnknownBits
    /\ commit_reg' = Unknown
    /\ gain_reg' = [mic \in Channels |-> Unknown]
    /\ settings_reg' = UnknownBits /\ pitch_reg' = Unknown
    /\ UNCHANGED preamps_cache

\* Mutant: the last of the state replayed is the cold init's own commit.
PreampsRestoredPlain ==
    /\ preamp_reg' = preamp /\ flag_reg' = Word(Routing, flags)
    /\ commit_reg' = 0
    /\ gain_reg' = [mic \in Channels |-> GainRaw(mic, gain[mic])]
    /\ settings_reg' = Word(Settings, flags) /\ pitch_reg' = pitch
    /\ UNCHANGED preamps_cache

\* A resume replays the byte and the gains, rate and pitch with the settings
\* word, then the routing flags; each word is followed by its commit.
PreampsRestored ==
    /\ preamp_reg' = preamp /\ flag_reg' = Word(Routing, flags)
    /\ commit_reg' = Commit(ref_level)
    /\ gain_reg' = [mic \in Channels |-> GainRaw(mic, gain[mic])]
    /\ settings_reg' = Word(Settings, flags) /\ pitch_reg' = pitch
    /\ UNCHANGED preamps_cache

----------------------------------------------------------------------------
PreampsTypeOK ==
    /\ preamp \subseteq PreampBits /\ ref_level \in RefLevels
    /\ gain \in [Channels -> 0..65]
    /\ flags \subseteq Routing \cup Settings
    /\ pitch \in -50..50
    /\ preamp_reg \in (SUBSET PreampBits) \cup {UnknownBits}
    /\ flag_reg \in (SUBSET Routing) \cup {UnknownBits}
    /\ commit_reg \in {0, 3, Unknown}
    /\ gain_reg \in [Channels -> 0..255 \cup {Unknown}]
    /\ settings_reg \in (SUBSET Settings) \cup {UnknownBits}
    /\ pitch_reg \in -50..50 \cup {Unknown}

\* Unless its last write failed, a shared register is composed from everything
\* the controls read, whichever of them wrote it last: no put clears a
\* neighbour's bit, and no commit but a ref level's own ends Boost.
SharedWords ==
    /\ preamp_reg \in {preamp, UnknownBits}
    /\ ("REF" \in preamp) = (ref_level = "+4dBu")
    /\ flag_reg \in {flags \cap Routing, UnknownBits}
    /\ commit_reg \in {IF ref_level = "Boost" THEN 3 ELSE 0, Unknown}
    /\ settings_reg \in {flags \cap Settings, UnknownBits}
    /\ pitch_reg \in {pitch, Unknown}
    /\ \A mic \in Channels : gain_reg[mic] \in {GainRaw(mic, gain[mic]), Unknown}
=============================================================================
