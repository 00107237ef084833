--------------------------------- MODULE Eq ---------------------------------
(***************************************************************************)
(* The DSP equaliser of the analog inputs.  A strip's parameters are the   *)
(* controls; from them and the rate come the words of the block that an    *)
(* upload sends to the strip's two channels.                               *)
(*                                                                         *)
(* The fixed-point arithmetic of bf_eq_band_words() is abstracted: the     *)
(* words of a band are the parameters they are computed from, the rate     *)
(* included, where the band does anything, and the identity elsewhere.     *)
(***************************************************************************)
EXTENDS Registers

CONSTANTS
    Strips,     \* the strips, 0..3
    Bands,      \* the bands of each, 1..n, of which there are three
    BandTypes,  \* the types put: 0 off, 1 bell, 2 and 3 shelves
    BandQs,     \* the Qs put, x 100
    BandGains,  \* the gains put, dB x 10
    Cuts,       \* the low cut frequencies put, 0 is off
    EqRates     \* the sample rates

Slopes == {6, 12, 18, 24}

\* bf_eq_put() takes the ranges of bf_eq_info().
ASSUME EqAssumption ==
    /\ Strips \subseteq 0..3 /\ Bands \subseteq 1..3
    /\ BandTypes \subseteq 0..3
    /\ BandQs \subseteq 5..1000 /\ BandGains \subseteq -240..240
    /\ Cuts \subseteq 0..20000
    /\ EqRates \subseteq Nat \ {0}

VARIABLES
    eq,       \* chip->eq[]: what the controls read
    eq_rate,  \* chip->rate
    dsp       \* the blocks the unit has for each strip, alike but for the channel

eqs == <<eq, eq_rate, dsp>>

Identity == << >>
Flat == 1       \* the shared scale 1.0
CutOff == << >> \* BF_EQ_LC_OFF

----------------------------------------------------------------------------
\* bf_eq_band_words(), without c4.
BandWords(e, b, rate) ==
    IF e.type[b] = 0 \/ e.gain[b] = 0 \/ e.q[b] <= 0 THEN Identity
    ELSE << e.type[b], e.q[b], e.gain[b], rate >>

\* The scale of the block is the last active band's c4; 1.0 without a Q.
Scale(e, rate) ==
    LET active == {b \in Bands : e.type[b] # 0 /\ e.gain[b] # 0}
    IN  IF active = {} THEN Flat
        ELSE LET b == CHOOSE b \in active : \A c \in active : c <= b
             IN  IF BandWords(e, b, rate) = Identity THEN Flat
                 ELSE BandWords(e, b, rate)

\* bf_eq_lc_freq_raw(), bf_eq_lc_slope_byte()
CutWord(e) == IF e.cut <= 0 THEN CutOff ELSE << e.cut, e.slope >>
SlopeByte(slope) == 2^(slope \div 6) - 1

\* Mutant: the slope is sent with the low cut off.
BlockStaleSlope(e, rate) ==
    [slope |-> IF e.on THEN SlopeByte(e.slope) ELSE 0,
     bands |-> [b \in Bands |-> IF e.on THEN BandWords(e, b, rate) ELSE Identity],
     scale |-> IF e.on THEN Scale(e, rate) ELSE Flat,
     cut   |-> IF e.on THEN CutWord(e) ELSE CutOff]

\* bf_eq_update_strip(), bf_eq_write_strip(): all is computed again; a strip
\* that is off is flat, and the slope is sent only with a low cut.
Block(e, rate) ==
    [slope |-> IF e.on /\ e.cut > 0 THEN SlopeByte(e.slope) ELSE 0,
     bands |-> [b \in Bands |-> IF e.on THEN BandWords(e, b, rate) ELSE Identity],
     scale |-> IF e.on THEN Scale(e, rate) ELSE Flat,
     cut   |-> IF e.on THEN CutWord(e) ELSE CutOff]

\* A strip whose blocks are not known, or differ: an upload has failed, or a
\* new unit has had none.
NoBlock == << >>

Strip0 == [on |-> FALSE, slope |-> 6, cut |-> 0,
           type |-> [b \in Bands |-> 0], q |-> [b \in Bands |-> 100],
           gain |-> [b \in Bands |-> 0]]

\* bf_eq_defaults(); nothing is uploaded at a probe.
EqInit ==
    /\ eq = [s \in Strips |-> Strip0]
    /\ eq_rate \in EqRates
    /\ dsp = [s \in Strips |-> NoBlock]

----------------------------------------------------------------------------
\* bf_eq_put(): the new parameter is cached and all is uploaded again.  When
\* the upload fails it stays cached.
EqPut(s, e, ok) ==
    /\ e # eq[s]
    /\ eq' = [eq EXCEPT ![s] = e]
    /\ dsp' = [dsp EXCEPT ![s] = IF ok THEN Block(e, eq_rate) ELSE NoBlock]
    /\ UNCHANGED eq_rate

\* The strips one put away from e.
OnePut(e) ==
    {[e EXCEPT !.on = ~@]}
    \cup {[e EXCEPT !.type[b] = t] : b \in Bands, t \in BandTypes}
    \cup {[e EXCEPT !.q[b] = q] : b \in Bands, q \in BandQs}
    \cup {[e EXCEPT !.gain[b] = g] : b \in Bands, g \in BandGains}
    \cup {[e EXCEPT !.cut = f] : f \in Cuts}
    \cup {[e EXCEPT !.slope = n] : n \in Slopes}

\* Mutant: after the first upload that fails the others keep their blocks.
ReuploadStops(rate, failing) ==
    dsp' = [s \in Strips |->
        IF \E f \in failing : f <= s THEN IF s \in failing THEN NoBlock ELSE dsp[s]
        ELSE Block(eq[s], rate)]

\* bf_eq_reupload() goes on after an upload that fails.
Reupload(rate, failing) ==
    dsp' = [s \in Strips |-> IF s \in failing THEN NoBlock ELSE Block(eq[s], rate)]

\* A hw_params that has re-pointed the interface to another rate.
EqRateChange(rate, failing) ==
    /\ rate # eq_rate
    /\ eq_rate' = rate
    /\ Reupload(rate, failing)
    /\ UNCHANGED eq

EqLost == dsp' = [s \in Strips |-> NoBlock] /\ UNCHANGED <<eq, eq_rate>>

EqRestored(failing) == Reupload(eq_rate, failing) /\ UNCHANGED <<eq, eq_rate>>

----------------------------------------------------------------------------
EqTypeOK ==
    /\ eq \in [Strips -> [on : BOOLEAN, slope : Slopes, cut : 0..20000,
                         type : [Bands -> 0..3], q : [Bands -> 5..1000],
                         gain : [Bands -> -240..240]]]
    /\ eq_rate \in EqRates
    /\ DOMAIN dsp = Strips

\* Unless its last upload failed, the unit filters each strip by what the
\* controls read, computed for the rate it runs at, also after the rate has
\* changed under a strip nobody touched; and a slope never goes out without a
\* low cut, with which the unit would cut at a frequency of its own.
EqFollows ==
    \A s \in Strips : dsp[s] # NoBlock =>
        /\ dsp[s] = Block(eq[s], eq_rate)
        /\ dsp[s].cut = CutOff => dsp[s].slope = 0
=============================================================================
