----------------------------- MODULE MCSurface -----------------------------
(***************************************************************************)
(* Surface for TLC.  A behaviour moves controls that share registers with  *)
(* one another, three features over the faders at a time.                  *)
(***************************************************************************)
EXTENDS Surface

Pair(left, right) == [c \in Sides |-> IF c = L THEN left ELSE right]

MCFaders == {<<0, 1>>, <<1, 1>>, <<0, 8>>}
MCLevels == {Pair(4096, 2048)}
MCTrims  == {-6, 0}
MCWidths == {0, 50}
MCGains  == [mic \in {0, 2} |-> IF mic = 0 THEN {0, 65} ELSE {0, 9}]
MCPitches == {0, 10}
MCBandGains == {0, -30}

MCUses == { {"xpoint", "ms", "width"}, {"xpoint", "phase"}, {"xpoint", "trim"},
            {"xpoint", "split"}, {"trim", "width"}, {"phase", "ms", "trim"},
            {"fx", "loopback"}, {"gain", "ref"}, {"switch", "ref", "routing"},
            {"settings", "pitch"}, {"eq"} }

\* The rate counts where the settings word or the equaliser does, the playback
\* fader where the split does; the strips but the first have one band and no
\* cut, the preamps one channel.
MCInit == /\ Init
          /\ use \notin {{"eq"}, {"settings", "pitch"}} => eq_rate = 48000
          /\ "switch" \notin use => preamp = {}

MCNext == /\ Next
          /\ preamp' \cap {"48V2", "PAD2"} = {}
          /\ "split" \notin use => xpoint'[0][PB1] = xpoint[0][PB1]
          /\ IF "eq" \in use
             THEN /\ eq'[0].slope # 6 => eq'[0].slope = 24 /\ eq'[0].gain[2] = 0
                  /\ \A s \in Strips \ {0} :
                        eq'[s] = [Strip0 EXCEPT !.on = eq'[s].on, !.gain[1] = eq'[s].gain[1],
                                                !.type[1] = eq'[s].type[1]]
             ELSE \A s \in Strips : (dsp'[s] = NoBlock) = (dsp'[0] = NoBlock)
          /\ use \notin {{"eq"}, {"settings", "pitch"}} => UNCHANGED eq_rate

MCSpec == MCInit /\ [][MCNext]_vars
=============================================================================
