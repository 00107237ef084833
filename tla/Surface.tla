------------------------------ MODULE Surface ------------------------------
(***************************************************************************)
(* The controls of the card on one device: Mixer, Preamps and Eq under the *)
(* rate of the session, suspends, resumes that replay them all, and        *)
(* transfers that fail.  The output masters are in Outputs.                *)
(***************************************************************************)
EXTENDS Mixer, Preamps, Eq

CONSTANTS
    Uses,    \* what applications do: the sets of kinds of control they move
    Events   \* what this instance allows

\* fail: transfers fail; power: the unit suspends; rate: hw_params sets a rate.
AllEvents == {"fail", "power", "rate"}

\* The groups of controls, one name for each kind.
Kinds == {"xpoint", "phase", "split", "ms", "trim", "width", "fx", "loopback",
          "switch", "ref", "gain", "routing", "settings", "pitch", "eq"}

ASSUME SurfaceAssumption ==
    /\ Uses \subseteq SUBSET Kinds
    /\ Events \subseteq AllEvents

VARIABLES
    use,     \* one of Uses, the same all along
    power,   \* the unit is on, or suspended
    call     \* the last put: its kind, and whether it went through

vars == <<mixer, preamps, eqs, use, power, call>>

NoCall == [kind |-> "none", ok |-> TRUE]
Outcomes == IF "fail" \in Events THEN BOOLEAN ELSE {TRUE}

Init ==
    /\ MixerInit /\ PreampsInit /\ EqInit
    /\ use \in Uses
    /\ power = "on" /\ call = NoCall

----------------------------------------------------------------------------
\* The puts, by the module their registers are in.
PutMixer(kind, ok) ==
    \/ kind = "xpoint" /\ \E f \in Faders, v \in Levels : XpointPut(f[1], f[2], v, ok)
    \/ kind = "phase" /\ \E mic \in Mics : PhasePut(mic, ok)
    \/ kind = "split" /\ \E pb \in Pbs : SplitPut(pb, ok)
    \/ kind = "ms" /\ MsPut(ok)
    \/ kind = "trim" /\ \E mic \in Mics, db \in Trims : TrimPut(mic, db, ok)
    \/ kind = "width" /\ \E w \in Widths : WidthPut(w, ok)
    \/ kind = "fx" /\ \E v \in {0, 4096} : FxSendPut(v, ok)
    \/ kind = "loopback" /\ \E o \in Outs : LoopbackPut(o, ok)

PutPreamps(kind, ok) ==
    \/ kind = "switch" /\ \E bit \in Switches : SwitchPut(bit, ok)
    \/ kind = "ref" /\ \E level \in RefLevels : RefLevelPut(level, ok)
    \/ kind = "gain" /\ \E mic \in Channels : \E db \in Gains[mic] : GainPut(mic, db, ok)
    \/ kind = "routing" /\ \E flag \in Routing : RoutingPut(flag, ok)
    \/ kind = "settings" /\ \E flag \in Settings : SettingsPut(flag, ok)
    \/ kind = "pitch" /\ \E p \in Pitches : PitchPut(p, ok)

PutEq(kind, ok) ==
    kind = "eq" /\ \E s \in Strips : \E e \in OnePut(eq[s]) : EqPut(s, e, ok)

\* The ALSA core keeps applications from the controls of a suspended card.
Put(kind, ok) ==
    /\ power # "asleep"
    /\ \/ PutMixer(kind, ok) /\ UNCHANGED <<preamps, eqs>>
       \/ PutPreamps(kind, ok) /\ UNCHANGED <<mixer, eqs>>
       \/ PutEq(kind, ok) /\ UNCHANGED <<mixer, preamps>>
    /\ call' = [kind |-> kind, ok |-> ok]
    /\ UNCHANGED power

----------------------------------------------------------------------------
\* hw_params at another rate: the settings word, then, with the interface at
\* the new rate, the blocks.  A set_interface that fails ends it in between.
RateSet ==
    /\ power # "asleep" /\ "rate" \in Events
    /\ \E ok \in Outcomes, rate \in EqRates,
          failing \in IF "fail" \in Events THEN SUBSET Strips ELSE {{}} :
        /\ ClockWritten(ok)
        /\ \/ ok /\ EqRateChange(rate, failing)
           \/ "fail" \in Events /\ UNCHANGED eqs
    /\ call' = NoCall
    /\ UNCHANGED <<mixer, power>>

Suspend ==
    /\ power # "asleep" /\ "power" \in Events
    /\ power' = "asleep" /\ call' = NoCall
    /\ MixerLost /\ PreampsLost /\ EqLost

\* Cold init, then everything cached in the order restore_state(),
\* state_apply_flags() and eq_reupload() send it; only the last goes on after
\* a transfer that fails.
Resume ==
    /\ power = "asleep"
    /\ power' = "on" /\ call' = NoCall
    /\ MixerRestored /\ PreampsRestored
    /\ \E failing \in IF "fail" \in Events THEN SUBSET Strips ELSE {{}} : EqRestored(failing)

\* A resume that fails ends there: what came after it is not replayed.  What
\* came before is taken for lost as well.
ResumeFails ==
    /\ power = "asleep" /\ "fail" \in Events
    /\ power' = "on" /\ call' = NoCall
    /\ UNCHANGED <<mixer, preamps, eqs>>

Next == /\ \/ \E kind \in use, ok \in Outcomes : Put(kind, ok)
           \/ RateSet \/ Suspend \/ Resume \/ ResumeFails
        /\ UNCHANGED use

Spec == Init /\ [][Next]_vars

----------------------------------------------------------------------------
TypeOK ==
    /\ MixerTypeOK /\ PreampsTypeOK /\ EqTypeOK
    /\ use \in Uses /\ power \in {"on", "asleep"}
    /\ call \in [kind : Kinds \cup {"none"}, ok : BOOLEAN]

\* A put that fails leaves every control as it was, so that what applications
\* read stays what they set before and the same put, tried again, is sent
\* again.  The equaliser's puts do not: see EqPut.
FailureKeepsControls ==
    [][~call'.ok => UNCHANGED <<mixer_cache, preamps_cache>>]_vars
=============================================================================
