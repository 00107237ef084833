------------------------------ MODULE MCPanel ------------------------------
(***************************************************************************)
(* Panel for TLC: short scales, and in each behaviour a few of the gestures *)
(***************************************************************************)
EXTENDS Panel

MCGainMax == [m \in 0..3 |-> 1]
MCMixInf == -2
MCMixTop == 1
MCClicks == {1, -1}
MCAppFaders == {<<1, 0>>, <<1, 1>>}
MCUses == { {"select", "in", "out", "reload"}, {"select", "in", "sleep", "set"},
            {"select", "in", "gain"}, {"select", "in", "out", "set", "mix"},
            {"select", "in", "mix", "fade"}, {"select", "out", "mix", "fade"},
            {"select", "mix", "fade", "app"}, {"select", "mix", "fade", "sleep"},
            {"mix", "gain", "fade", "select"} }

\* What nothing reads again before it is written is not told apart: the last
\* store but on the way to a boot's restore (a shutdown stores first, and after
\* a re-probe what alsactl restores is not taken), the level of the MIX wheel
\* while MIX is off, and the wheel's count of another mode.
MCView == <<use, unit_side, life, fresh, reprobe, torestore, panel_seen, followed,
            panel_mix, panel_saw_fader, audio, meant,
            IF life = "down" \/ (torestore # {} /\ ~reprobe) THEN stored ELSE << >>,
            IF panel_mix THEN panel_mix_db2 ELSE 0,
            IF unit.mode = panel_prev.mode THEN panel_prev
                                           ELSE [panel_prev EXCEPT !.wheel = 0]>>
=============================================================================
