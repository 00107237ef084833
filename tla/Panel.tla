------------------------------- MODULE Panel -------------------------------
(***************************************************************************)
(* The front panel.  The unit tells, in one readback, the mode, the IN and *)
(* OUT positions, the button that flashes and the low bits of the wheel's  *)
(* count.  It does not tell which channels SELECT has chosen, so the       *)
(* driver follows the presses it sees, and SET, the IN wheel and the MIX   *)
(* wheel act on what it has followed.                                      *)
(*                                                                         *)
(* Poll is the whole of bf_panel_tick(), whose reads and writes of the     *)
(* shared fields are one step here; the OUT wheel is in Outputs.  What the *)
(* unit does by itself is external, from the driver's comments.            *)
(***************************************************************************)
EXTENDS Integers

CONSTANTS
    Pairs,      \* the IN pairs, of 1 (Ch 1/2), 2 (Ch 3/4) and 3 (Opt)
    OutPairs,   \* the OUT positions, of 1..3
    GainMax,    \* the highest gain of each analog input
    MixInf,     \* BF_FADER_DB2_INF: a muted crosspoint
    MixFirst,   \* the lowest level of the fader curve
    MixTop,     \* the highest
    WheelSize,  \* the counts of the wheel that the readback tells apart: 16
    Clicks,     \* how far the wheel is turned in a poll interval
    AppFaders,  \* the crosspoints <<out, src>> that applications move
    Uses,       \* what users and applications do: sets of AllUses
    Hasty       \* where they are quicker than the driver expects

\* gain and fade: turning the wheel in IN and OUT mode, and in fader mode.
AllUses == {"select", "in", "out", "set", "mix", "gain", "fade", "app", "sleep", "reload"}

\* app: an application moves a fader while MIX is on.  blind: SELECT is pressed
\* before the driver has seen the IN position, which shows in IN mode only.
AllHasty == {"app", "blind"}

Mics == DOMAIN GainMax
Srcs == Mics \cup {4}
Levels == {MixInf} \cup MixFirst..MixTop

\* A crosspoint has a left and a right side.
Faders == [l : Levels, r : Levels]
BothAt(level) == [l |-> level, r |-> level]

ASSUME PanelAssumption ==
    /\ 1 \in Pairs /\ Pairs \subseteq 1..3
    /\ 1 \in OutPairs /\ OutPairs \subseteq 1..3
    /\ {0, 1} \subseteq Mics /\ Mics \subseteq 0..3
    /\ 2 \in Pairs => {2, 3} \subseteq Mics
    /\ GainMax \in [Mics -> Nat]
    /\ MixInf \in Int /\ MixFirst \in Int /\ MixTop \in Int
    /\ MixInf < MixFirst /\ MixFirst <= MixTop
    /\ WheelSize \in Nat /\ WheelSize > 2
    /\ Clicks \subseteq Int /\ \A d \in Clicks : 2 * d < WheelSize /\ -2 * d < WheelSize
    /\ AppFaders \subseteq OutPairs \X (Mics \cup {4})
    /\ Uses \subseteq SUBSET AllUses
    /\ Hasty \subseteq AllHasty

Buttons == {"SELECT", "SET", "MIX", "IN", "OUT"}
Modes == {"in", "out", "fader"}

VARIABLES
    use,       \* one of Uses, the same all along
    unit,      \* the unit: what it shows, and what SELECT has chosen
    late,      \* the mode that a host write has asked for and that is not shown yet
    life,      \* the driver: running, asleep, unbound, or down with its host
    fresh,     \* since the start, less than 3 s
    reprobe,   \* chip->reprobe
    stored,    \* the selections of the last alsactl store
    torestore, \* the pairs that alsactl has yet to restore

    panel_seen, panel_in, panel_out, panel_sel, panel_select_armed,
    panel_mix, panel_saw_fader, panel_mix_db2, panel_prev,
    phantom, gain, xpoint,

    meant      \* what the user meant: phantom power, the gains and MIX

unit_side == <<unit, late>>
host      == <<life, fresh, reprobe, stored, torestore>>
followed  == <<panel_in, panel_out, panel_sel, panel_select_armed>>
mixing    == <<panel_mix, panel_saw_fader, panel_mix_db2>>
audio     == <<phantom, gain, xpoint>>
vars == <<use, unit_side, host, panel_seen, followed, mixing, panel_prev, audio, meant>>

----------------------------------------------------------------------------
\* A selection: left, right, both, none; -1 where it is not known.
Left == 0
Right == 1
Both == 2
None == 3
NotKnown == -1

\* The channels chosen, as offsets in the pair.
Chosen(sel) == CASE sel = Left -> {0} [] sel = Right -> {1} [] sel = Both -> {0, 1}
               [] OTHER -> {}

Base(pair) == IF pair = 2 THEN 2 ELSE 0
ChosenMics(pair, sel) == IF pair = 3 THEN {} ELSE {Base(pair) + i : i \in Chosen(sel)}

\* The sources the MIX wheel moves, and the one it starts from.
MixTargets(pair, sel) == IF pair = 3 THEN {4} ELSE ChosenMics(pair, sel)
MixRef(pair, sel) == IF pair = 3 THEN 4 ELSE Base(pair) + IF sel = Right THEN 1 ELSE 0

Clamp(x, low, high) == IF x < low THEN low ELSE IF x > high THEN high ELSE x
Higher(x, y) == IF x > y THEN x ELSE y

\* bf_fader_db2_to_raw(): below the curve is mute.
Level(db2) == IF db2 < MixFirst THEN MixInf ELSE db2

\* bf_panel_mix_seed(): from the crosspoint's left side, or the first point
\* above mute.
Seed(levels, out, pair, sel) == Higher(levels[out][MixRef(pair, sel)].l, MixFirst)

\* The step between two counts, the shorter way round.
Delta(now, before) ==
    LET d == now - before
    IN  IF 2 * d > WheelSize THEN d - WheelSize
        ELSE IF 2 * d < -WheelSize THEN d + WheelSize ELSE d

\* SET: one channel is toggled; two are aligned.
SetPhantom(on, mics) ==
    CASE mics = {} -> on
      [] mics = {0, 1} -> IF on = {0, 1} THEN {} ELSE {0, 1}
      [] OTHER -> (on \ mics) \cup (mics \ on)

Turned(gains, mics, d) ==
    [m \in Mics |-> IF m \in mics THEN Clamp(gains[m] + d, 0, GainMax[m]) ELSE gains[m]]

----------------------------------------------------------------------------
\* What a poll reads.
Read(u) == [flash |-> u.flash, mode |-> u.mode, wheel |-> u.wheel]
Nothing == [flash |-> "none", mode |-> "in", wheel |-> 0]

Init ==
    /\ use \in Uses
    /\ unit \in [mode : {"in", "out"}, in : {1}, out : {1},
                 sel : [Pairs -> {Left, None}], lit : {FALSE}, flash : {"none"}, wheel : {0}]
    /\ late = "none"
    /\ life = "running" /\ fresh = TRUE /\ reprobe = FALSE
    /\ stored = [p \in Pairs |-> NotKnown] /\ torestore = {}
    /\ panel_seen = FALSE /\ panel_in = 0 /\ panel_out = 0
    /\ panel_sel = [p \in Pairs |-> NotKnown] /\ panel_select_armed = FALSE
    /\ panel_mix = FALSE /\ panel_saw_fader = FALSE /\ panel_mix_db2 = 0
    /\ panel_prev = Nothing
    /\ phantom = {} /\ gain = [m \in Mics |-> 0]
    /\ xpoint = [o \in OutPairs |-> [s \in Srcs |-> BothAt(MixInf)]]
    /\ meant = [phantom |-> phantom, gain |-> gain, mix |-> FALSE]

----------------------------------------------------------------------------
\* The first poll after a start.
FirstPoll ==
    /\ panel_seen' = TRUE /\ panel_prev' = Read(unit)
    /\ panel_in' = IF unit.mode = "in" THEN unit.in ELSE panel_in
    /\ panel_out' = unit.out
    /\ panel_mix' = (unit.mode = "fader") /\ panel_saw_fader' = (unit.mode = "fader")
    /\ UNCHANGED <<unit_side, panel_sel, panel_select_armed, panel_mix_db2, audio>>

Pressed(button) == unit.flash = button /\ panel_prev.flash # button

SelOf(sels, pair) == IF pair \in Pairs THEN sels[pair] ELSE NotKnown

\* The IN position shows in IN mode only; another pair disarms SELECT.
InNow == IF unit.mode = "in" THEN unit.in ELSE panel_in
ArmedNow == panel_select_armed /\ InNow = panel_in

\* The wheel's step, in the mode of the poll before.
Wheel == IF unit.mode = panel_prev.mode THEN Delta(unit.wheel, panel_prev.wheel) ELSE 0

\* Mutant: the wheel acts on what this poll has found selected.
GainNowLate ==
    IF panel_mix \/ unit.mode # "in" THEN gain
    ELSE Turned(gain, ChosenMics(unit.in, SelOf(panel_sel, unit.in)), Wheel)

\* The wheel acts on the selection of the poll before.
GainNow ==
    IF panel_mix \/ unit.mode # "in" THEN gain
    ELSE Turned(gain, ChosenMics(panel_in, SelOf(panel_sel, panel_in)), Wheel)

Db2Now == IF panel_mix /\ Wheel # 0 THEN Clamp(panel_mix_db2 + Wheel, MixInf, MixTop)
          ELSE panel_mix_db2

\* The wheel has one level, for both sides of every source it moves.
XpointNow ==
    IF ~panel_mix \/ Wheel = 0 THEN xpoint
    ELSE [xpoint EXCEPT ![panel_out] = [s \in Srcs |->
             IF s \in MixTargets(panel_in, SelOf(panel_sel, panel_in)) THEN BothAt(Level(Db2Now))
             ELSE @[s]]]

\* Mutant: the step of a SELECT press is not held back after an IN switch.
SelNowAlways ==
    IF Pressed("SELECT") /\ SelOf(panel_sel, InNow) # NotKnown
    THEN [panel_sel EXCEPT ![InNow] = (@ + 1) % 4] ELSE panel_sel

\* A SELECT press that the selection is shown for steps it.
SelNow ==
    IF Pressed("SELECT") /\ SelOf(panel_sel, InNow) # NotKnown /\ ArmedNow
    THEN [panel_sel EXCEPT ![InNow] = (@ + 1) % 4] ELSE panel_sel

\* Mutant: SET acts on every poll that sees it flash.
PhantomNowHeld ==
    IF unit.flash = "SET" /\ ~panel_mix /\ InNow = 1
    THEN SetPhantom(phantom, ChosenMics(1, SelNow[1])) ELSE phantom

PhantomNow ==
    IF Pressed("SET") /\ ~panel_mix /\ InNow = 1
    THEN SetPhantom(phantom, ChosenMics(1, SelNow[1])) ELSE phantom

\* MIX begins and ends by a press; it also ends when the unit, seen in fader
\* mode since, has left it.
MixBegins == Pressed("MIX") /\ ~panel_mix
LeftByUnit == panel_mix /\ panel_saw_fader /\ unit.mode # "fader" /\ unit.flash # "MIX"

\* Mutant: fader mode need not have been seen.
MixEndsAtOnce ==
    /\ panel_mix
    /\ Pressed("MIX") \/ (unit.mode # "fader" /\ unit.flash # "MIX")

MixEnds == (panel_mix /\ Pressed("MIX")) \/ LeftByUnit

\* Mutant: the level is that of the selection MIX began with.
SeedsAtBegin == MixBegins

\* bf_panel_mix_seed(), where MIX begins and where SELECT steps in it.
Seeds == MixBegins \/ (panel_mix /\ SelNow # panel_sel)

NextPoll ==
    /\ gain' = GainNow /\ xpoint' = XpointNow /\ phantom' = PhantomNow
    /\ panel_in' = InNow /\ panel_out' = unit.out
    /\ panel_sel' = SelNow
    /\ panel_select_armed' =
          (ArmedNow \/ (Pressed("SELECT") /\ SelOf(panel_sel, InNow) # NotKnown))
    /\ panel_mix_db2' = IF Seeds THEN Seed(XpointNow, unit.out, InNow, SelOf(SelNow, InNow))
                        ELSE Db2Now
    /\ panel_mix' = (MixBegins \/ (panel_mix /\ ~MixEnds))
    /\ panel_saw_fader' = (panel_mix' /\ (panel_saw_fader \/ unit.mode = "fader"))
    /\ late' = IF MixEnds THEN "leave" ELSE IF MixBegins THEN "fader" ELSE late
    /\ panel_prev' = Read(unit)
    /\ UNCHANGED <<unit, panel_seen>>

\* bf_panel_tick()
Poll ==
    /\ life = "running"
    /\ IF panel_seen THEN NextPoll ELSE FirstPoll
    /\ UNCHANGED <<use, host, meant>>

----------------------------------------------------------------------------
\* The user waits: for the driver to have seen the mode and the last button,
\* for the flash to end and for MIX to begin or end.
Polled == panel_seen /\ panel_prev.mode = unit.mode /\ panel_prev.flash = unit.flash
          /\ panel_out = unit.out /\ (unit.mode = "in" => panel_in = unit.in)
Ready == IF life = "running" THEN Polled /\ unit.flash = "none" /\ late = "none" /\ torestore = {}
         ELSE life = "unbound" /\ unit.flash = "none"
WheelPolled == life = "running" => panel_prev.wheel = unit.wheel

NextOf(n, all) == IF \E m \in all : m > n
                  THEN CHOOSE m \in all : m > n /\ \A k \in all : k > n => m <= k
                  ELSE CHOOSE m \in all : \A k \in all : m <= k

\* SELECT shows the selection, and steps it when it shows.
PressSelect ==
    /\ "select" \in use /\ Ready
    /\ life = "running" /\ panel_in = 0 => "blind" \in Hasty
    /\ unit' = [unit EXCEPT !.flash = "SELECT", !.lit = TRUE,
                            !.sel[unit.in] = IF unit.lit THEN (@ + 1) % 4 ELSE @]
    /\ UNCHANGED <<use, late, host, panel_seen, followed, mixing, panel_prev, audio, meant>>

\* IN and OUT choose the mode, or the next position in it.  The wheel's count
\* is another one in each mode.
PressMode(mode, button) ==
    /\ Ready
    /\ LET field == IF mode = "in" THEN unit.in ELSE unit.out
           next == NextOf(field, IF mode = "in" THEN Pairs ELSE OutPairs)
           pos == IF unit.mode = mode THEN next ELSE field
       IN /\ unit.mode # mode => WheelPolled
          /\ \E w \in IF unit.mode = mode THEN {unit.wheel} ELSE {0, 1} :
                unit' = IF mode = "in"
                        THEN [unit EXCEPT !.flash = button, !.mode = mode, !.wheel = w,
                                          !.in = pos, !.lit = @ /\ pos = unit.in]
                        ELSE [unit EXCEPT !.flash = button, !.mode = mode, !.wheel = w,
                                          !.out = pos]
    /\ meant' = [meant EXCEPT !.mix = FALSE]
    /\ UNCHANGED <<use, late, host, panel_seen, followed, mixing, panel_prev, audio>>

PressIn == "in" \in use /\ PressMode("in", "IN")
PressOut == "out" \in use /\ PressMode("out", "OUT")

\* SET ends fader mode; else the user means the channels that are chosen, and
\* gets them where the selection is known.
PressSet ==
    /\ "set" \in use /\ Ready /\ WheelPolled /\ life = "running"
    /\ unit' = [unit EXCEPT !.flash = "SET", !.mode = IF @ = "fader" THEN "in" ELSE @]
    /\ meant' = IF unit.mode = "fader" THEN [meant EXCEPT !.mix = FALSE]
                ELSE IF unit.in # 1 \/ panel_in # 1 \/ panel_sel[1] = NotKnown THEN meant
                ELSE [meant EXCEPT !.phantom = SetPhantom(@, ChosenMics(1, unit.sel[1]))]
    /\ UNCHANGED <<use, late, host, panel_seen, followed, mixing, panel_prev, audio>>

PressMix ==
    /\ "mix" \in use /\ Ready /\ WheelPolled /\ life = "running"
    /\ unit' = [unit EXCEPT !.flash = "MIX"]
    /\ meant' = [meant EXCEPT !.mix = ~@]
    /\ UNCHANGED <<use, late, host, panel_seen, followed, mixing, panel_prev, audio>>

\* A flash lasts for several polls.
Release ==
    /\ unit.flash # "none" /\ (life = "running" => Polled)
    /\ unit' = [unit EXCEPT !.flash = "none"]
    /\ UNCHANGED <<use, late, host, panel_seen, followed, mixing, panel_prev, audio, meant>>

\* The mode the host has asked for shows some polls later.
ShowMode ==
    /\ late # "none" /\ late' = "none"
    /\ \E w \in {0, 1} :
          unit' = CASE late = "fader" /\ unit.mode # "fader" ->
                           [unit EXCEPT !.mode = "fader", !.wheel = w]
                    [] late = "leave" /\ unit.mode = "fader" ->
                           [unit EXCEPT !.mode = "in", !.wheel = w]
                    [] OTHER -> unit
    /\ UNCHANGED <<use, host, panel_seen, followed, mixing, panel_prev, audio, meant>>

\* In IN mode the user means the gains of the channels chosen.
Turn ==
    /\ (IF unit.mode = "fader" THEN "fade" ELSE "gain") \in use /\ life = "running" /\ torestore = {}
    /\ Polled /\ late = "none" /\ WheelPolled
    /\ \E d \in Clicks :
        /\ unit' = [unit EXCEPT !.wheel = (@ + d + WheelSize) % WheelSize]
        /\ meant' = IF unit.mode # "in" \/ panel_sel[unit.in] = NotKnown THEN meant
                    ELSE [meant EXCEPT !.gain =
                             Turned(@, ChosenMics(unit.in, unit.sel[unit.in]), d)]
    /\ UNCHANGED <<use, late, host, panel_seen, followed, mixing, panel_prev, audio>>

----------------------------------------------------------------------------
\* bf_panel_select_put(), by alsactl after a probe or by a user at other times.
\* Mutant: what alsactl restores is taken after any probe.
SelectPutAny(pair, sel, restore) ==
    /\ panel_sel' = [panel_sel EXCEPT ![pair] = sel]
    /\ panel_select_armed' =
          (panel_select_armed \/ (pair = panel_in /\ ~restore /\ sel # NotKnown))
    /\ panel_mix_db2' =
          IF panel_mix /\ pair = panel_in /\ sel # panel_sel[pair]
          THEN Seed(xpoint, panel_out, pair, sel) ELSE panel_mix_db2

SelectPut(pair, sel, restore) ==
    IF restore /\ reprobe THEN UNCHANGED <<panel_sel, panel_select_armed, panel_mix_db2>>
    ELSE /\ panel_sel' = [panel_sel EXCEPT ![pair] = sel]
         /\ panel_select_armed' =
               (panel_select_armed \/ (pair = panel_in /\ ~restore /\ sel # NotKnown))
         /\ panel_mix_db2' =
               IF panel_mix /\ pair = panel_in /\ sel # panel_sel[pair]
               THEN Seed(xpoint, panel_out, pair, sel) ELSE panel_mix_db2

Restore ==
    /\ life = "running" /\ fresh
    /\ \E pair \in torestore :
        /\ SelectPut(pair, stored[pair], TRUE)
        /\ torestore' = torestore \ {pair}
    /\ UNCHANGED <<use, unit_side, life, fresh, reprobe, stored, panel_seen, panel_in,
                   panel_out, panel_mix, panel_saw_fader, panel_prev, audio, meant>>

\* The user tells the driver what the LEDs show, once alsactl is done.
Tell ==
    /\ "select" \in use /\ life = "running" /\ ~fresh
    /\ Ready /\ WheelPolled /\ unit.lit /\ panel_in = unit.in
    /\ SelectPut(unit.in, unit.sel[unit.in], FALSE)
    /\ UNCHANGED <<use, unit_side, host, panel_seen, panel_in, panel_out, panel_mix,
                   panel_saw_fader, panel_prev, audio, meant>>

FreshEnds ==
    /\ life = "running" /\ fresh /\ torestore = {} /\ panel_seen
    /\ fresh' = FALSE
    /\ UNCHANGED <<use, unit_side, life, reprobe, stored, torestore, panel_seen, followed,
                   mixing, panel_prev, audio, meant>>

\* An application moves a fader, each side where it likes.
AppPut ==
    /\ "app" \in use /\ life = "running"
    /\ "app" \in Hasty \/ ~panel_mix
    /\ \E f \in AppFaders, left, right \in {MixInf, MixTop} :
        xpoint' = [xpoint EXCEPT ![f[1]][f[2]] = [l |-> left, r |-> right]]
    /\ UNCHANGED <<use, unit_side, host, panel_seen, followed, mixing, panel_prev,
                   phantom, gain, meant>>

----------------------------------------------------------------------------
Settled == Ready /\ WheelPolled

\* babyface_panel_stop() at a suspend, an unbind or a shutdown, whose store
\* is the one that alsactl has after the boot.  A unit without power leaves
\* fader mode; a driver that is unbound is not while MIX is on.
Stop ==
    /\ life = "running" /\ Settled
    /\ \/ "sleep" \in use /\ life' = "asleep" /\ UNCHANGED stored
       \/ "reload" \in use /\ life' = "unbound" /\ unit.mode # "fader" /\ UNCHANGED stored
       \/ "reload" \in use /\ life' = "down" /\ stored' = panel_sel
    /\ unit' = [unit EXCEPT !.mode = IF @ = "fader" THEN "in" ELSE @]
    /\ meant' = [meant EXCEPT !.mix = FALSE]
    /\ UNCHANGED <<use, late, fresh, reprobe, torestore, panel_seen, followed, mixing,
                   panel_prev, audio>>

\* babyface_panel_start() at a resume.  The unit has been without power, but
\* keeps its selections.
Wake ==
    /\ life = "asleep" /\ life' = "running"
    /\ fresh' = TRUE
    /\ panel_seen' = FALSE /\ panel_select_armed' = FALSE
    /\ unit' = [unit EXCEPT !.lit = FALSE]
    /\ UNCHANGED <<use, late, reprobe, stored, torestore, panel_in, panel_out, panel_sel,
                   mixing, panel_prev, audio, meant>>

\* A probe: of a unit seen before, or the first after a boot.
Start ==
    /\ life \in {"unbound", "down"} /\ life' = "running"
    /\ unit.flash = "none"
    /\ fresh' = TRUE /\ reprobe' = (life = "unbound") /\ torestore' = Pairs
    /\ panel_seen' = FALSE /\ panel_in' = 0 /\ panel_out' = 0
    /\ panel_sel' = [p \in Pairs |-> NotKnown] /\ panel_select_armed' = FALSE
    /\ panel_mix' = FALSE /\ panel_saw_fader' = FALSE /\ panel_mix_db2' = 0
    /\ panel_prev' = Nothing
    /\ gain' = [m \in Mics |-> 0]
    /\ xpoint' = [o \in OutPairs |-> [s \in Srcs |-> BothAt(MixInf)]]
    /\ meant' = [meant EXCEPT !.gain = [m \in Mics |-> 0]]
    /\ unit' = IF life = "down" THEN [unit EXCEPT !.lit = FALSE] ELSE unit
    /\ UNCHANGED <<use, late, stored, phantom>>

Next ==
    \/ Poll
    \/ PressSelect \/ PressIn \/ PressOut \/ PressSet \/ PressMix \/ Release
    \/ ShowMode \/ Turn
    \/ Restore \/ Tell \/ FreshEnds \/ AppPut
    \/ Stop \/ Wake \/ Start

Spec == Init /\ [][Next]_vars

----------------------------------------------------------------------------
TypeOK ==
    /\ use \in Uses
    /\ unit \in [mode : Modes, in : Pairs, out : OutPairs, sel : [Pairs -> 0..3],
                 lit : BOOLEAN, flash : Buttons \cup {"none"}, wheel : 0..WheelSize - 1]
    /\ late \in {"none", "fader", "leave"}
    /\ life \in {"running", "asleep", "unbound", "down"}
    /\ fresh \in BOOLEAN /\ reprobe \in BOOLEAN
    /\ stored \in [Pairs -> -1..3] /\ torestore \subseteq Pairs
    /\ panel_seen \in BOOLEAN
    /\ panel_in \in Pairs \cup {0} /\ panel_out \in OutPairs \cup {0}
    /\ panel_sel \in [Pairs -> -1..3] /\ panel_select_armed \in BOOLEAN
    /\ panel_mix \in BOOLEAN /\ panel_saw_fader \in BOOLEAN
    /\ panel_mix_db2 \in Int
    /\ panel_prev \in [mode : Modes, flash : Buttons \cup {"none"}, wheel : 0..WheelSize - 1]
    /\ phantom \subseteq {0, 1} /\ gain \in [Mics -> Nat]
    /\ xpoint \in [OutPairs -> [Srcs -> Faders]]
    /\ meant \in [phantom : SUBSET {0, 1}, gain : [Mics -> Nat], mix : BOOLEAN]

\* Once the presses are polled, the selection that the driver follows is the
\* one the unit has, for the pair shown and for those that were left, and it
\* knows whether the next press steps it: over IN switches, suspends, boots
\* and re-probes after which the unit was pressed on.  Else SET and the
\* wheels act on a channel that is not the lit one.
SelectionAgrees ==
    (life = "running" /\ Polled /\ torestore = {}) =>
        /\ \A p \in Pairs : panel_sel[p] # NotKnown => panel_sel[p] = unit.sel[p]
        /\ panel_in = unit.in /\ panel_sel[unit.in] # NotKnown
             => panel_select_armed = unit.lit

\* 48 V is on where the user's SET presses have put it, each taken once and
\* for the channels then chosen.
PhantomAsMeant ==
    (life = "running" /\ Polled) => phantom = meant.phantom

\* A click in IN mode changes the gains of the channels then chosen, also one
\* that a SELECT or IN press follows before the next poll.  (One that an OUT,
\* SET or MIX press follows so soon is not in the model: where the mode has
\* changed the driver counts no click.)
GainAsMeant ==
    (life = "running" /\ Polled /\ WheelPolled) => gain = meant.gain

\* When the unit and the driver have settled both are in fader mode just when
\* MIX was pressed for it: it neither ends before it began, on a readback from
\* before the unit took the request, nor stays on when the unit has left it.
MixAgrees ==
    (life = "running" /\ Ready) =>
        panel_mix = meant.mix /\ (unit.mode = "fader") = meant.mix

\* A click of the MIX wheel moves the left side of the first channel chosen by
\* one step from where it is, whatever SELECT, OUT and MIX itself have chosen
\* since the last click, and what else is chosen, its right side and the other
\* channel of the pair, to the same level: what was in step with it stays so,
\* what an application had put elsewhere is aligned, by whatever that takes.
ClickIsOneStep ==
    life = "running" /\ panel_seen /\ panel_prev' # panel_prev =>
        \A o \in OutPairs, s \in Srcs : xpoint'[o][s] # xpoint[o][s] =>
            LET from == xpoint[o][MixRef(panel_in, SelOf(panel_sel, panel_in))].l
            IN  from # MixInf =>
                    xpoint'[o][s] = BothAt(Level(Clamp(from + Wheel, MixInf, MixTop)))

MixClickIsOneStep == [][ClickIsOneStep]_vars

\* What the comment on bf_panel_mix_wheel() says: a click is half a decibel on
\* the channels chosen, so each side that it moves goes one step from where
\* that side is.
EachSideOneStep ==
    life = "running" /\ panel_seen /\ panel_prev' # panel_prev =>
        \A o \in OutPairs, s \in Srcs, side \in {"l", "r"} :
            LET from == xpoint[o][s][side]
                to == xpoint'[o][s][side]
            IN  to # from /\ from # MixInf => to = Level(Clamp(from + Wheel, MixInf, MixTop))

ClickMovesEachSide == [][EachSideOneStep]_vars
=============================================================================
