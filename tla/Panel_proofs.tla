---------------------------- MODULE Panel_proofs ----------------------------
(***************************************************************************)
(* Proofs about the front panel, for any curves, ranges and wheel: what    *)
(* the driver follows is what the unit has, and what the user meant is     *)
(* done, once the unit and the driver have settled.                        *)
(*                                                                         *)
(* The properties speak of settled states.  Between them a press, a turn   *)
(* or a request for a mode is on its way, and the inductive invariant      *)
(* says of each what the next poll will make of it: SelNow, PhantomNow and *)
(* GainNow, which are what a poll finds, already agree with the unit and   *)
(* with the user before it is taken.                                       *)
(***************************************************************************)
EXTENDS Panel, TLAPS

\* The polls go on.
Watching == life = "running" /\ panel_seen

\* A press that the next poll will see.
Pending == unit.flash # "none" /\ panel_prev.flash # unit.flash

----------------------------------------------------------------------------
\* Nobody touches the unit until the driver has seen it and alsactl is done.
Untouched ==
    /\ life # "running" => late = "none" /\ unit.mode # "fader" /\ ~meant.mix
    /\ life \in {"asleep", "down"} => unit.flash = "none"
    /\ life = "running" /\ ~panel_seen =>
          late = "none" /\ unit.mode # "fader" /\ ~meant.mix /\ unit.flash = "none"
    /\ life = "running" /\ torestore # {} => ~panel_mix
    /\ Watching /\ torestore # {} =>
          /\ unit.flash = "none"
          /\ unit.mode = panel_prev.mode => unit.wheel = panel_prev.wheel
    /\ life = "asleep" => torestore = {}

\* One press at a time, and none while the unit has a mode to show.
OneAtATime ==
    Watching =>
        /\ unit.flash = panel_prev.flash \/ unit.flash = "none" \/ panel_prev.flash = "none"
        /\ late # "none" =>
              ~Pending /\ (unit.mode = panel_prev.mode => unit.wheel = panel_prev.wheel)

\* MIX has begun: fader mode is asked for, or shows and was not polled yet.
MixBegan ==
    Watching /\ panel_mix /\ ~panel_saw_fader =>
        /\ meant.mix /\ ~Pending /\ panel_prev.mode # "fader"
        /\ IF unit.mode = "fader" THEN late = "none" ELSE late = "fader"

\* MIX is on: it was pressed again, or another button has ended it, just when
\* the user means that.
MixSeen ==
    Watching /\ panel_mix /\ panel_saw_fader =>
        /\ late = "none" /\ panel_prev.mode = "fader"
        /\ IF unit.mode = "fader" THEN meant.mix <=> ~Pressed("MIX")
           ELSE ~meant.mix /\ Pending /\ unit.flash # "MIX"

\* MIX is off: fader mode shows only where the driver has asked the unit to
\* leave it.
MixOff ==
    Watching /\ ~panel_mix =>
        /\ ~panel_saw_fader
        /\ (meant.mix <=> Pressed("MIX")) /\ late # "fader"
        /\ unit.mode = "fader" => late = "leave" /\ panel_prev.mode = "fader"

MixInv == Untouched /\ OneAtATime /\ MixBegan /\ MixSeen /\ MixOff

\* The position followed: none yet, the unit's, or one that an IN press has left.
PositionFollowed ==
    /\ life \in {"asleep", "running"} =>
          panel_in \in {0, unit.in} \/ (panel_seen /\ unit.mode = "in" /\ Pressed("IN"))
    /\ Watching /\ late = "fader" /\ unit.mode = "in" => panel_in = unit.in
    /\ Watching /\ panel_mix => panel_out = unit.out

\* A selection that is known, after the poll to come, is the unit's; so is what
\* alsactl has stored, until it has restored it.
SelFollowed ==
    /\ life = "asleep" \/ (life = "running" /\ ~panel_seen) =>
          \A p \in Pairs : panel_sel[p] # NotKnown => panel_sel[p] = unit.sel[p]
    /\ Watching => \A p \in Pairs : SelNow[p] # NotKnown => SelNow[p] = unit.sel[p]
    /\ life = "down" \/ (life = "running" /\ ~reprobe /\ torestore # {}) =>
          \A p \in Pairs : stored[p] # NotKnown => stored[p] = unit.sel[p]

AllUnknown == \A p \in Pairs : panel_sel[p] = NotKnown

\* No selection shows, or none is known, until a poll has seen IN mode.
Dark ==
    /\ life = "running" /\ (~panel_seen \/ panel_in = 0 \/ torestore # {}) =>
          ~unit.lit \/ (reprobe /\ AllUnknown)
    /\ life = "running" /\ (~panel_seen \/ torestore # {}) => ~panel_select_armed

\* The driver knows whether the next SELECT press steps or shows.
ArmedFollowed ==
    Watching /\ InNow = unit.in /\ SelOf(panel_sel, InNow) # NotKnown =>
        (unit.lit <=> ArmedNow \/ Pressed("SELECT"))

SelInv == SelFollowed /\ Dark /\ ArmedFollowed

\* What the user meant is what the next poll makes of phantom power and gains.
PhantomFollowed ==
    meant.phantom = IF Watching THEN PhantomNow ELSE phantom

GainFollowed ==
    meant.gain = IF Watching THEN GainNow ELSE gain

\* A wheel that was not turned changes no gain.
InRange == \A m \in Mics : gain[m] <= GainMax[m]

GainInv == InRange /\ GainFollowed

\* The sources of the MIX wheel, and the fader whose left side it starts from.
Targets == MixTargets(panel_in, SelOf(panel_sel, panel_in))
From == xpoint[panel_out][MixRef(panel_in, SelOf(panel_sel, panel_in))].l

\* The level of the MIX wheel is that of its crosspoint.
LevelFollowed ==
    Watching /\ panel_mix /\ Targets # {} => (From # MixInf => panel_mix_db2 = From)

\* The inductive invariant: MIX and the position hold in whatever way the unit
\* is used, the rest where the user waits for what the driver needs.
IInv ==
    /\ TypeOK /\ MixInv /\ PositionFollowed /\ InRange
    /\ "blind" \notin Hasty => SelInv /\ PhantomFollowed /\ GainFollowed
    /\ "app" \notin Hasty => LevelFollowed

----------------------------------------------------------------------------
\* The types of the records, and what an action leaves alone.
UnitSet == [mode : Modes, in : Pairs, out : OutPairs, sel : [Pairs -> 0..3],
            lit : BOOLEAN, flash : Buttons \cup {"none"}, wheel : 0..WheelSize - 1]
ReadSet == [mode : Modes, flash : Buttons \cup {"none"}, wheel : 0..WheelSize - 1]
MeantSet == [phantom : SUBSET {0, 1}, gain : [Mics -> Nat], mix : BOOLEAN]

HostStays == UNCHANGED <<life, fresh, reprobe, stored, torestore>>
DriverStays == UNCHANGED <<panel_seen, panel_in, panel_out, panel_sel, panel_select_armed,
                           panel_mix, panel_saw_fader, panel_mix_db2, panel_prev>>
AudioStays == UNCHANGED <<phantom, gain, xpoint>>

----------------------------------------------------------------------------
\* The fields of the records.
LEMMA Fields ==
    ASSUME TypeOK
    PROVE  /\ unit \in UnitSet /\ panel_prev \in ReadSet /\ meant \in MeantSet
           /\ unit.mode \in Modes /\ unit.in \in Pairs /\ unit.out \in OutPairs
           /\ unit.sel \in [Pairs -> 0..3] /\ unit.lit \in BOOLEAN
           /\ unit.flash \in Buttons \cup {"none"} /\ unit.wheel \in 0..(WheelSize - 1)
           /\ panel_prev.mode \in Modes /\ panel_prev.flash \in Buttons \cup {"none"}
           /\ panel_prev.wheel \in 0..(WheelSize - 1)
           /\ meant.phantom \in SUBSET {0, 1} /\ meant.gain \in [Mics -> Nat]
           /\ meant.mix \in BOOLEAN
  <1>1. unit \in UnitSet /\ panel_prev \in ReadSet /\ meant \in MeantSet
    BY DEF TypeOK, UnitSet, ReadSet, MeantSet
  <1>2. /\ unit.mode \in Modes /\ unit.in \in Pairs /\ unit.out \in OutPairs
        /\ unit.sel \in [Pairs -> 0..3] /\ unit.lit \in BOOLEAN
        /\ unit.flash \in Buttons \cup {"none"} /\ unit.wheel \in 0..(WheelSize - 1)
    BY <1>1 DEF UnitSet
  <1>3. /\ panel_prev.mode \in Modes /\ panel_prev.flash \in Buttons \cup {"none"}
        /\ panel_prev.wheel \in 0..(WheelSize - 1)
    BY <1>1 DEF ReadSet
  <1>4. /\ meant.phantom \in SUBSET {0, 1} /\ meant.gain \in [Mics -> Nat]
        /\ meant.mix \in BOOLEAN
    BY <1>1 DEF MeantSet
  <1> QED  BY <1>1, <1>2, <1>3, <1>4

\* IN and OUT stay among the positions.
LEMMA NextPosition ==
    ASSUME NEW all \in SUBSET (1..3), NEW n \in all
    PROVE  NextOf(n, all) \in all
  <1>1. CASE \E m \in all : m > n
    <2>1. \E m \in all : m > n /\ \A k \in all : k > n => m <= k
      <3>1. PICK m \in all : m > n
        BY <1>1
      <3>2. CASE n + 1 \in all
        BY <3>2
      <3>3. CASE n + 1 \notin all
        BY <3>1, <3>3
      <3> QED  BY <3>2, <3>3
    <2> QED  BY <1>1, <2>1 DEF NextOf
  <1>2. CASE ~\E m \in all : m > n
    <2>1. \E m \in all : \A k \in all : m <= k
      <3>1. CASE 1 \in all
        BY <3>1
      <3>2. CASE 1 \notin all /\ 2 \in all
        BY <3>2
      <3>3. CASE 1 \notin all /\ 2 \notin all
        BY <3>3
      <3> QED  BY <3>1, <3>2, <3>3
    <2> QED  BY <1>2, <2>1 DEF NextOf
  <1> QED  BY <1>1, <1>2

----------------------------------------------------------------------------
\* What each gesture does to the unit.
LEMMA PressSelectDoes ==
    ASSUME TypeOK, PressSelect
    PROVE  /\ Ready /\ (life = "running" /\ panel_in = 0 => "blind" \in Hasty)
           /\ late' = late /\ meant' = meant /\ use' = use
           /\ HostStays /\ DriverStays /\ AudioStays
           /\ unit'.mode = unit.mode /\ unit'.in = unit.in /\ unit'.out = unit.out
           /\ unit'.wheel = unit.wheel /\ unit'.flash = "SELECT" /\ unit'.lit = TRUE
           /\ unit'.sel = (IF unit.lit THEN [unit.sel EXCEPT ![unit.in] = (@ + 1) % 4] ELSE unit.sel)
           /\ unit' \in UnitSet
  <1>1. unit' = [unit EXCEPT !.flash = "SELECT", !.lit = TRUE,
                             !.sel[unit.in] = IF unit.lit THEN (@ + 1) % 4 ELSE @]
    BY DEF PressSelect
  <1>2. /\ Ready /\ (life = "running" /\ panel_in = 0 => "blind" \in Hasty)
        /\ late' = late /\ meant' = meant /\ use' = use
        /\ HostStays /\ DriverStays /\ AudioStays
    BY DEF PressSelect, HostStays, DriverStays, AudioStays, host, followed, mixing, audio
  <1>3. /\ unit'.mode = unit.mode /\ unit'.in = unit.in /\ unit'.out = unit.out
        /\ unit'.wheel = unit.wheel /\ unit'.flash = "SELECT" /\ unit'.lit = TRUE
        /\ unit'.sel = (IF unit.lit THEN [unit.sel EXCEPT ![unit.in] = (@ + 1) % 4] ELSE unit.sel)
    BY <1>1, Fields DEF UnitSet
  <1>4. unit' \in UnitSet
    <2>1. PICK s \in [Pairs -> 0..3] :
             s = (IF unit.lit THEN [unit.sel EXCEPT ![unit.in] = (@ + 1) % 4] ELSE unit.sel)
      <3>1. (unit.sel[unit.in] + 1) % 4 \in 0..3
        BY Fields
      <3> QED  BY <3>1, Fields
    <2>2. unit' = [unit EXCEPT !.flash = "SELECT", !.lit = TRUE, !.sel = s]
      BY <1>1, <2>1, Fields DEF UnitSet
    <2>3. "SELECT" \in Buttons
      BY DEF Buttons
    <2> QED  BY <2>1, <2>2, <2>3, Fields DEF UnitSet
  <1> QED  BY <1>2, <1>3, <1>4

LEMMA PressInDoes ==
    ASSUME TypeOK, PressIn
    PROVE  /\ Ready /\ (unit.mode # "in" => WheelPolled)
           /\ late' = late /\ use' = use
           /\ HostStays /\ DriverStays /\ AudioStays
           /\ unit'.mode = "in" /\ unit'.out = unit.out /\ unit'.sel = unit.sel
           /\ unit'.flash = "IN"
           /\ (unit.mode = "in" => unit'.wheel = unit.wheel)
           /\ (unit.mode # "in" => unit'.in = unit.in)
           /\ (unit'.lit <=> (unit.lit /\ unit'.in = unit.in))
           /\ unit' \in UnitSet
           /\ meant'.mix = FALSE /\ meant'.gain = meant.gain
           /\ meant'.phantom = meant.phantom /\ meant' \in MeantSet
  <1> DEFINE pos == IF unit.mode = "in" THEN NextOf(unit.in, Pairs) ELSE unit.in
  <1>1. /\ Ready /\ (unit.mode # "in" => WheelPolled)
        /\ late' = late /\ use' = use /\ meant' = [meant EXCEPT !.mix = FALSE]
        /\ HostStays /\ DriverStays /\ AudioStays
    BY DEF PressIn, PressMode, HostStays, DriverStays, AudioStays, host, followed, mixing, audio
  <1>2. PICK w \in IF unit.mode = "in" THEN {unit.wheel} ELSE {0, 1} :
           unit' = [unit EXCEPT !.flash = "IN", !.mode = "in", !.wheel = w,
                                !.in = pos, !.lit = @ /\ pos = unit.in]
    BY DEF PressIn, PressMode
  <1>3. pos \in Pairs
    BY NextPosition, Fields, PanelAssumption
  <1>4. w \in 0..(WheelSize - 1)
    BY <1>2, Fields, PanelAssumption
  <1>5. "IN" \in Buttons /\ "in" \in Modes
    BY DEF Buttons, Modes
  <1> HIDE DEF pos
  <1>6. /\ unit'.mode = "in" /\ unit'.out = unit.out /\ unit'.sel = unit.sel
        /\ unit'.flash = "IN" /\ unit'.wheel = w /\ unit'.in = pos
        /\ (unit'.lit <=> (unit.lit /\ pos = unit.in))
    BY <1>2, Fields DEF UnitSet
  <1>7. unit' \in UnitSet
    <2>1. PICK l \in BOOLEAN : l <=> (unit.lit /\ pos = unit.in)
      OBVIOUS
    <2>2. unit' = [unit EXCEPT !.flash = "IN", !.mode = "in", !.wheel = w,
                                !.in = pos, !.lit = l]
      BY <1>2, <2>1, Fields DEF UnitSet
    <2> QED  BY <1>3, <1>4, <1>5, <2>2, Fields DEF UnitSet
  <1>8. (unit.mode # "in" => pos = unit.in) /\ (unit.mode = "in" => w = unit.wheel)
    BY <1>2 DEF pos
  <1>9. /\ meant'.mix = FALSE /\ meant'.gain = meant.gain
        /\ meant'.phantom = meant.phantom /\ meant' \in MeantSet
    BY <1>1, Fields DEF MeantSet
  <1> QED  BY <1>1, <1>6, <1>7, <1>8, <1>9

LEMMA PressOutDoes ==
    ASSUME TypeOK, PressOut
    PROVE  /\ Ready /\ (unit.mode # "out" => WheelPolled)
           /\ late' = late /\ use' = use
           /\ HostStays /\ DriverStays /\ AudioStays
           /\ unit'.mode = "out" /\ unit'.in = unit.in /\ unit'.sel = unit.sel
           /\ unit'.flash = "OUT" /\ unit'.lit = unit.lit
           /\ (unit.mode = "out" => unit'.wheel = unit.wheel)
           /\ (unit.mode # "out" => unit'.out = unit.out)
           /\ unit' \in UnitSet
           /\ meant'.mix = FALSE /\ meant'.gain = meant.gain
           /\ meant'.phantom = meant.phantom /\ meant' \in MeantSet
  <1> DEFINE pos == IF unit.mode = "out" THEN NextOf(unit.out, OutPairs) ELSE unit.out
  <1>1. /\ Ready /\ (unit.mode # "out" => WheelPolled)
        /\ late' = late /\ use' = use /\ meant' = [meant EXCEPT !.mix = FALSE]
        /\ HostStays /\ DriverStays /\ AudioStays
    BY DEF PressOut, PressMode, HostStays, DriverStays, AudioStays, host, followed, mixing, audio
  <1>2. PICK w \in IF unit.mode = "out" THEN {unit.wheel} ELSE {0, 1} :
           unit' = [unit EXCEPT !.flash = "OUT", !.mode = "out", !.wheel = w, !.out = pos]
    BY DEF PressOut, PressMode
  <1>3. pos \in OutPairs
    BY NextPosition, Fields, PanelAssumption
  <1>4. w \in 0..(WheelSize - 1)
    BY <1>2, Fields, PanelAssumption
  <1>5. "OUT" \in Buttons /\ "out" \in Modes
    BY DEF Buttons, Modes
  <1> HIDE DEF pos
  <1>6. /\ unit'.mode = "out" /\ unit'.in = unit.in /\ unit'.sel = unit.sel
        /\ unit'.flash = "OUT" /\ unit'.wheel = w /\ unit'.out = pos /\ unit'.lit = unit.lit
    BY <1>2, Fields DEF UnitSet
  <1>7. unit' \in UnitSet
    BY <1>2, <1>3, <1>4, <1>5, Fields DEF UnitSet
  <1>8. (unit.mode # "out" => pos = unit.out) /\ (unit.mode = "out" => w = unit.wheel)
    BY <1>2 DEF pos
  <1>9. /\ meant'.mix = FALSE /\ meant'.gain = meant.gain
        /\ meant'.phantom = meant.phantom /\ meant' \in MeantSet
    BY <1>1, Fields DEF MeantSet
  <1> QED  BY <1>1, <1>6, <1>7, <1>8, <1>9

LEMMA PressSetDoes ==
    ASSUME TypeOK, PressSet
    PROVE  /\ Ready /\ WheelPolled /\ life = "running"
           /\ late' = late /\ use' = use
           /\ HostStays /\ DriverStays /\ AudioStays
           /\ unit'.mode = (IF unit.mode = "fader" THEN "in" ELSE unit.mode)
           /\ unit'.in = unit.in /\ unit'.out = unit.out /\ unit'.sel = unit.sel
           /\ unit'.flash = "SET" /\ unit'.lit = unit.lit /\ unit'.wheel = unit.wheel
           /\ unit' \in UnitSet
           /\ meant'.gain = meant.gain /\ meant' \in MeantSet
           /\ meant'.mix = (IF unit.mode = "fader" THEN FALSE ELSE meant.mix)
           /\ meant'.phantom = IF unit.mode = "fader" \/ unit.in # 1 \/ panel_in # 1
                                  \/ panel_sel[1] = NotKnown
                               THEN meant.phantom
                               ELSE SetPhantom(meant.phantom, ChosenMics(1, unit.sel[1]))
  <1>1. /\ Ready /\ WheelPolled /\ life = "running" /\ late' = late /\ use' = use
        /\ HostStays /\ DriverStays /\ AudioStays
    BY DEF PressSet, HostStays, DriverStays, AudioStays, host, followed, mixing, audio
  <1>2. unit' = [unit EXCEPT !.flash = "SET", !.mode = IF @ = "fader" THEN "in" ELSE @]
    BY DEF PressSet
  <1>3. "SET" \in Buttons /\ "in" \in Modes
    BY DEF Buttons, Modes
  <1>4. /\ unit'.mode = (IF unit.mode = "fader" THEN "in" ELSE unit.mode)
        /\ unit'.in = unit.in /\ unit'.out = unit.out /\ unit'.sel = unit.sel
        /\ unit'.flash = "SET" /\ unit'.lit = unit.lit /\ unit'.wheel = unit.wheel
        /\ unit' \in UnitSet
    BY <1>2, <1>3, Fields DEF UnitSet
  <1>5. SetPhantom(meant.phantom, ChosenMics(1, unit.sel[1])) \subseteq {0, 1}
    <2>1. ChosenMics(1, unit.sel[1]) \subseteq {0, 1}
      BY DEF ChosenMics, Chosen, Base
    <2> QED  BY <2>1, Fields DEF SetPhantom
  <1>6. CASE unit.mode = "fader"
    <2>1. meant' = [meant EXCEPT !.mix = FALSE]
      BY <1>6 DEF PressSet
    <2> QED  BY <1>1, <1>4, <1>6, <2>1, Fields DEF MeantSet
  <1>7. CASE unit.mode # "fader" /\ (unit.in # 1 \/ panel_in # 1 \/ panel_sel[1] = NotKnown)
    <2>1. meant' = meant
      BY <1>7 DEF PressSet
    <2> QED  BY <1>1, <1>4, <1>7, <2>1, Fields
  <1>8. CASE ~(unit.mode = "fader" \/ unit.in # 1 \/ panel_in # 1 \/ panel_sel[1] = NotKnown)
    <2>1. meant' = [meant EXCEPT !.phantom = SetPhantom(@, ChosenMics(1, unit.sel[1]))]
      BY <1>8 DEF PressSet
    <2> QED  BY <1>1, <1>4, <1>5, <1>8, <2>1, Fields DEF MeantSet
  <1> QED  BY <1>6, <1>7, <1>8

LEMMA PressMixDoes ==
    ASSUME TypeOK, PressMix
    PROVE  /\ Ready /\ WheelPolled /\ life = "running"
           /\ late' = late /\ use' = use
           /\ HostStays /\ DriverStays /\ AudioStays
           /\ unit'.mode = unit.mode /\ unit'.in = unit.in /\ unit'.out = unit.out
           /\ unit'.sel = unit.sel /\ unit'.flash = "MIX" /\ unit'.lit = unit.lit
           /\ unit'.wheel = unit.wheel /\ unit' \in UnitSet
           /\ meant'.gain = meant.gain /\ meant'.phantom = meant.phantom
           /\ (meant'.mix <=> ~meant.mix) /\ meant' \in MeantSet
  <1>1. /\ Ready /\ WheelPolled /\ life = "running" /\ late' = late /\ use' = use
        /\ HostStays /\ DriverStays /\ AudioStays
    BY DEF PressMix, HostStays, DriverStays, AudioStays, host, followed, mixing, audio
  <1>2. unit' = [unit EXCEPT !.flash = "MIX"] /\ "MIX" \in Buttons
    BY DEF PressMix, Buttons
  <1>3. /\ unit'.mode = unit.mode /\ unit'.in = unit.in /\ unit'.out = unit.out
        /\ unit'.sel = unit.sel /\ unit'.flash = "MIX" /\ unit'.lit = unit.lit
        /\ unit'.wheel = unit.wheel /\ unit' \in UnitSet
    BY <1>2, Fields DEF UnitSet
  <1>4. /\ meant'.gain = meant.gain /\ meant'.phantom = meant.phantom
        /\ (meant'.mix <=> ~meant.mix) /\ meant' \in MeantSet
    <2>1. meant' = [meant EXCEPT !.mix = ~@]
      BY DEF PressMix
    <2>2. PICK b \in BOOLEAN : b <=> ~meant.mix
      OBVIOUS
    <2>3. meant' = [meant EXCEPT !.mix = b]
      BY <2>1, <2>2, Fields DEF MeantSet
    <2> QED  BY <2>2, <2>3, Fields DEF MeantSet
  <1> QED  BY <1>1, <1>3, <1>4

LEMMA ReleaseDoes ==
    ASSUME TypeOK, Release
    PROVE  /\ unit.flash # "none" /\ (life = "running" => Polled)
           /\ late' = late /\ use' = use /\ meant' = meant
           /\ HostStays /\ DriverStays /\ AudioStays
           /\ unit'.mode = unit.mode /\ unit'.in = unit.in /\ unit'.out = unit.out
           /\ unit'.sel = unit.sel /\ unit'.flash = "none" /\ unit'.lit = unit.lit
           /\ unit'.wheel = unit.wheel /\ unit' \in UnitSet
  <1>1. /\ unit.flash # "none" /\ (life = "running" => Polled)
        /\ late' = late /\ use' = use /\ meant' = meant
        /\ HostStays /\ DriverStays /\ AudioStays
    BY DEF Release, HostStays, DriverStays, AudioStays, host, followed, mixing, audio
  <1>2. unit' = [unit EXCEPT !.flash = "none"]
    BY DEF Release
  <1>3. /\ unit'.mode = unit.mode /\ unit'.in = unit.in /\ unit'.out = unit.out
        /\ unit'.sel = unit.sel /\ unit'.flash = "none" /\ unit'.lit = unit.lit
        /\ unit'.wheel = unit.wheel /\ unit' \in UnitSet
    BY <1>2, Fields DEF UnitSet
  <1> QED  BY <1>1, <1>3

LEMMA ShowModeDoes ==
    ASSUME TypeOK, ShowMode
    PROVE  /\ late # "none" /\ late' = "none" /\ use' = use /\ meant' = meant
           /\ HostStays /\ DriverStays /\ AudioStays
           /\ unit'.mode = (IF late = "fader" THEN "fader"
                            ELSE IF unit.mode = "fader" THEN "in" ELSE unit.mode)
           /\ unit'.in = unit.in /\ unit'.out = unit.out /\ unit'.sel = unit.sel
           /\ unit'.flash = unit.flash /\ unit'.lit = unit.lit
           /\ (unit'.mode = unit.mode => unit'.wheel = unit.wheel)
           /\ unit' \in UnitSet
  <1>1. /\ late # "none" /\ late' = "none" /\ use' = use /\ meant' = meant
        /\ HostStays /\ DriverStays /\ AudioStays
    BY DEF ShowMode, HostStays, DriverStays, AudioStays, host, followed, mixing, audio
  <1>2. late \in {"fader", "leave"}
    BY <1>1 DEF TypeOK
  <1>3. PICK w \in {0, 1} :
          unit' = CASE late = "fader" /\ unit.mode # "fader" ->
                           [unit EXCEPT !.mode = "fader", !.wheel = w]
                    [] late = "leave" /\ unit.mode = "fader" ->
                           [unit EXCEPT !.mode = "in", !.wheel = w]
                    [] OTHER -> unit
    BY DEF ShowMode
  <1>4. w \in 0..(WheelSize - 1) /\ "in" \in Modes /\ "fader" \in Modes
    BY PanelAssumption DEF Modes
  <1>5. CASE late = "fader" /\ unit.mode # "fader"
    <2>1. unit' = [unit EXCEPT !.mode = "fader", !.wheel = w]
      BY <1>3, <1>5
    <2> QED  BY <1>1, <1>4, <1>5, <2>1, Fields DEF UnitSet
  <1>6. CASE late = "leave" /\ unit.mode = "fader"
    <2>1. unit' = [unit EXCEPT !.mode = "in", !.wheel = w]
      BY <1>3, <1>6
    <2> QED  BY <1>1, <1>4, <1>6, <2>1, Fields DEF UnitSet
  <1>7. CASE ~(late = "fader" /\ unit.mode # "fader") /\ ~(late = "leave" /\ unit.mode = "fader")
    <2>1. unit' = unit
      BY <1>3, <1>7
    <2> QED  BY <1>1, <1>2, <1>7, <2>1, Fields
  <1> QED  BY <1>5, <1>6, <1>7

----------------------------------------------------------------------------
\* A gain stays a gain, and in its range.
LEMMA TurnedType ==
    ASSUME NEW gains \in [Mics -> Nat], NEW mics, NEW d \in Int
    PROVE  /\ Turned(gains, mics, d) \in [Mics -> Nat]
           /\ \A m \in Mics : gains[m] <= GainMax[m] =>
                 Turned(gains, mics, d)[m] <= GainMax[m]
  <1>1. ASSUME NEW m \in Mics
        PROVE  /\ Clamp(gains[m] + d, 0, GainMax[m]) \in Nat
               /\ Clamp(gains[m] + d, 0, GainMax[m]) <= GainMax[m]
    <2>1. gains[m] \in Nat /\ GainMax[m] \in Nat
      BY PanelAssumption
    <2> QED  BY <2>1 DEF Clamp
  <1> QED  BY <1>1 DEF Turned

----------------------------------------------------------------------------
LEMMA TurnDoes ==
    ASSUME TypeOK, Turn
    PROVE  /\ life = "running" /\ torestore = {} /\ Polled /\ late = "none" /\ WheelPolled
           /\ late' = late /\ use' = use
           /\ HostStays /\ DriverStays /\ AudioStays
           /\ unit'.mode = unit.mode /\ unit'.in = unit.in /\ unit'.out = unit.out
           /\ unit'.sel = unit.sel /\ unit'.flash = unit.flash /\ unit'.lit = unit.lit
           /\ unit' \in UnitSet
           /\ meant'.phantom = meant.phantom /\ meant'.mix = meant.mix
           /\ meant'.gain \in [Mics -> Nat] /\ meant' \in MeantSet
           /\ \E d \in Clicks :
                 /\ unit'.wheel = (unit.wheel + d + WheelSize) % WheelSize
                 /\ meant'.gain =
                       IF unit.mode # "in" \/ panel_sel[unit.in] = NotKnown THEN meant.gain
                       ELSE Turned(meant.gain, ChosenMics(unit.in, unit.sel[unit.in]), d)
  <1>1. /\ life = "running" /\ torestore = {} /\ Polled /\ late = "none" /\ WheelPolled
        /\ late' = late /\ use' = use
        /\ HostStays /\ DriverStays /\ AudioStays
    BY DEF Turn, HostStays, DriverStays, AudioStays, host, followed, mixing, audio
  <1>2. PICK d \in Clicks :
        /\ unit' = [unit EXCEPT !.wheel = (@ + d + WheelSize) % WheelSize]
        /\ meant' = IF unit.mode # "in" \/ panel_sel[unit.in] = NotKnown THEN meant
                    ELSE [meant EXCEPT !.gain =
                             Turned(@, ChosenMics(unit.in, unit.sel[unit.in]), d)]
    BY DEF Turn
  <1>3. d \in Int /\ WheelSize \in Nat /\ WheelSize > 2 /\ unit.wheel \in Int
    BY PanelAssumption, Fields
  <1>4. (unit.wheel + d + WheelSize) % WheelSize \in 0..(WheelSize - 1)
    BY <1>3
  <1>5. PICK w \in 0..(WheelSize - 1) : w = (unit.wheel + d + WheelSize) % WheelSize
    BY <1>4
  <1>6. unit' = [unit EXCEPT !.wheel = w]
    BY <1>2, <1>5, Fields DEF UnitSet
  <1>7. /\ unit'.mode = unit.mode /\ unit'.in = unit.in /\ unit'.out = unit.out
        /\ unit'.sel = unit.sel /\ unit'.flash = unit.flash /\ unit'.lit = unit.lit
        /\ unit'.wheel = w /\ unit' \in UnitSet
    BY <1>6, Fields DEF UnitSet
  <1>8. Turned(meant.gain, ChosenMics(unit.in, unit.sel[unit.in]), d) \in [Mics -> Nat]
    BY <1>3, Fields, TurnedType
  <1>9. CASE unit.mode # "in" \/ panel_sel[unit.in] = NotKnown
    BY <1>1, <1>2, <1>5, <1>7, <1>9, Fields
  <1>10. CASE ~(unit.mode # "in" \/ panel_sel[unit.in] = NotKnown)
    <2>1. meant' = [meant EXCEPT !.gain =
                       Turned(@, ChosenMics(unit.in, unit.sel[unit.in]), d)]
      BY <1>2, <1>10
    <2>2. PICK g \in [Mics -> Nat] :
             g = Turned(meant.gain, ChosenMics(unit.in, unit.sel[unit.in]), d)
      BY <1>8
    <2>3. meant' = [meant EXCEPT !.gain = g]
      BY <2>1, <2>2, Fields DEF MeantSet
    <2>4. /\ meant'.phantom = meant.phantom /\ meant'.mix = meant.mix
          /\ meant'.gain = g /\ meant' \in MeantSet
      BY <2>3, Fields DEF MeantSet
    <2> QED  BY <1>1, <1>2, <1>5, <1>7, <1>10, <2>2, <2>4
  <1> QED  BY <1>9, <1>10

----------------------------------------------------------------------------
\* The values that a poll finds.
LEMMA WheelType ==
    ASSUME TypeOK
    PROVE  Wheel \in Int
  <1>1. WheelSize \in Int /\ unit.wheel \in Int /\ panel_prev.wheel \in Int
    BY PanelAssumption, Fields
  <1>2. Delta(unit.wheel, panel_prev.wheel) \in Int
    BY <1>1 DEF Delta
  <1> QED  BY <1>2 DEF Wheel

LEMMA InNowType ==
    ASSUME TypeOK
    PROVE  InNow \in Pairs \cup {0}
  BY Fields DEF InNow, TypeOK

LEMMA SelNowType ==
    ASSUME TypeOK
    PROVE  SelNow \in [Pairs -> -1..3]
  <1>1. panel_sel \in [Pairs -> -1..3]
    BY DEF TypeOK
  <1>2. CASE SelNow = panel_sel
    BY <1>1, <1>2
  <1>3. CASE SelNow # panel_sel
    <2>1. SelNow = [panel_sel EXCEPT ![InNow] = (@ + 1) % 4]
      BY <1>3 DEF SelNow
    <2>2. SelOf(panel_sel, InNow) # NotKnown
      BY <1>3 DEF SelNow
    <2>3. InNow \in Pairs
      BY <2>2 DEF SelOf
    <2>4. (panel_sel[InNow] + 1) % 4 \in -1..3
      BY <1>1, <2>3
    <2> QED  BY <1>1, <2>1, <2>3, <2>4
  <1> QED  BY <1>2, <1>3

LEMMA PhantomNowType ==
    ASSUME TypeOK
    PROVE  PhantomNow \in SUBSET {0, 1}
  <1>1. ChosenMics(1, SelNow[1]) \subseteq {0, 1}
    BY DEF ChosenMics, Chosen, Base
  <1>2. phantom \subseteq {0, 1}
    BY DEF TypeOK
  <1>3. SetPhantom(phantom, ChosenMics(1, SelNow[1])) \subseteq {0, 1}
    BY <1>1, <1>2 DEF SetPhantom
  <1> QED  BY <1>2, <1>3 DEF PhantomNow

LEMMA GainNowType ==
    ASSUME TypeOK
    PROVE  GainNow \in [Mics -> Nat]
  <1>1. gain \in [Mics -> Nat]
    BY DEF TypeOK
  <1> QED  BY <1>1, TurnedType, WheelType DEF GainNow

LEMMA Db2NowType ==
    ASSUME TypeOK
    PROVE  Db2Now \in Int
  <1>1. panel_mix_db2 \in Int /\ MixInf \in Int /\ MixTop \in Int
    BY PanelAssumption DEF TypeOK
  <1>2. Clamp(panel_mix_db2 + Wheel, MixInf, MixTop) \in Int
    BY <1>1, WheelType DEF Clamp
  <1> QED  BY <1>1, <1>2 DEF Db2Now

\* A level of the MIX wheel that is not of the curve is mute.
LEMMA LevelType ==
    ASSUME TypeOK
    PROVE  \A x \in Int : Level(Clamp(x, MixInf, MixTop)) \in Levels
  BY PanelAssumption DEF Level, Clamp, Levels

\* A fader with both sides at a level, and the left side of any.
LEMMA FaderSides ==
    /\ \A level \in Levels : BothAt(level) \in Faders /\ BothAt(level).l = level
    /\ \A fader \in Faders : fader.l \in Levels
  BY DEF BothAt, Faders

LEMMA XpointNowType ==
    ASSUME TypeOK
    PROVE  XpointNow \in [OutPairs -> [Srcs -> Faders]]
  <1>1. xpoint \in [OutPairs -> [Srcs -> Faders]]
    BY DEF TypeOK
  <1>2. CASE ~panel_mix \/ Wheel = 0
    BY <1>1, <1>2 DEF XpointNow
  <1>3. CASE panel_mix /\ Wheel # 0
    <2>1. panel_mix_db2 + Wheel \in Int
      BY WheelType DEF TypeOK
    <2>2. PICK fader \in Faders : fader = BothAt(Level(Db2Now))
      BY <1>3, <2>1, LevelType, FaderSides DEF Db2Now
    <2> DEFINE row == [s \in Srcs |->
                          IF s \in MixTargets(panel_in, SelOf(panel_sel, panel_in))
                          THEN fader ELSE xpoint[panel_out][s]]
    <2>3. CASE panel_out \in OutPairs
      <3>1. row \in [Srcs -> Faders]
        BY <1>1, <2>2, <2>3
      <3>2. XpointNow = [xpoint EXCEPT ![panel_out] = row]
        BY <1>1, <1>3, <2>2, <2>3 DEF XpointNow
      <3> HIDE DEF row
      <3> QED  BY <1>1, <2>3, <3>1, <3>2
    <2>4. CASE panel_out \notin OutPairs
      BY <1>1, <1>3, <2>4 DEF XpointNow
    <2> QED  BY <2>3, <2>4
  <1> QED  BY <1>2, <1>3

\* The point of the curve that MIX starts from.
LEMMA SeedType ==
    ASSUME NEW levels \in [OutPairs -> [Srcs -> Faders]], NEW out \in OutPairs,
           NEW pair \in Pairs \cup {0}, NEW sel
    PROVE  Seed(levels, out, pair, sel) \in Int
  <1>1. MixRef(pair, sel) \in Srcs
    BY PanelAssumption DEF MixRef, Base, Srcs
  <1>2. levels[out][MixRef(pair, sel)] \in Faders
    BY <1>1
  <1>3. levels[out][MixRef(pair, sel)].l \in Int
    BY <1>2, FaderSides, PanelAssumption DEF Levels
  <1> QED  BY <1>3, PanelAssumption DEF Seed, Higher

----------------------------------------------------------------------------
\* What the driver does.
LEMMA FirstPollDoes ==
    ASSUME TypeOK, Poll, ~panel_seen
    PROVE  /\ life = "running" /\ HostStays /\ AudioStays
           /\ unit' = unit /\ late' = late /\ meant' = meant /\ use' = use
           /\ panel_seen' = TRUE
           /\ panel_in' = (IF unit.mode = "in" THEN unit.in ELSE panel_in)
           /\ panel_out' = unit.out
           /\ (panel_mix' <=> unit.mode = "fader") /\ (panel_saw_fader' <=> unit.mode = "fader")
           /\ panel_sel' = panel_sel /\ panel_select_armed' = panel_select_armed
           /\ panel_mix_db2' = panel_mix_db2
           /\ panel_prev' \in ReadSet
           /\ panel_prev'.mode = unit.mode /\ panel_prev'.flash = unit.flash
           /\ panel_prev'.wheel = unit.wheel
           /\ panel_mix' \in BOOLEAN /\ panel_saw_fader' \in BOOLEAN
  <1>1. /\ life = "running" /\ HostStays /\ AudioStays
        /\ unit' = unit /\ late' = late /\ meant' = meant /\ use' = use
        /\ panel_seen' = TRUE
        /\ panel_in' = (IF unit.mode = "in" THEN unit.in ELSE panel_in)
        /\ panel_out' = unit.out
        /\ panel_sel' = panel_sel /\ panel_select_armed' = panel_select_armed
        /\ panel_mix_db2' = panel_mix_db2
    BY DEF Poll, FirstPoll, HostStays, AudioStays, unit_side, host, audio
  <1>2. /\ panel_mix' = (unit.mode = "fader") /\ panel_saw_fader' = (unit.mode = "fader")
        /\ panel_prev' = Read(unit)
    BY DEF Poll, FirstPoll
  <1>3. /\ panel_prev' \in ReadSet
        /\ panel_prev'.mode = unit.mode /\ panel_prev'.flash = unit.flash
        /\ panel_prev'.wheel = unit.wheel
    BY <1>2, Fields DEF Read, ReadSet
  <1> QED  BY <1>1, <1>2, <1>3

LEMMA NextPollDoes ==
    ASSUME TypeOK, Poll, panel_seen
    PROVE  /\ life = "running" /\ HostStays
           /\ unit' = unit /\ meant' = meant /\ use' = use /\ panel_seen' = panel_seen
           /\ gain' = GainNow /\ xpoint' = XpointNow /\ phantom' = PhantomNow
           /\ panel_in' = InNow /\ panel_out' = unit.out /\ panel_sel' = SelNow
           /\ (panel_select_armed' <=>
                  ArmedNow \/ (Pressed("SELECT") /\ SelOf(panel_sel, InNow) # NotKnown))
           /\ panel_mix_db2' =
                 (IF Seeds THEN Seed(XpointNow, unit.out, InNow, SelOf(SelNow, InNow)) ELSE Db2Now)
           /\ (panel_mix' <=> MixBegins \/ (panel_mix /\ ~MixEnds))
           /\ (panel_saw_fader' <=> panel_mix' /\ (panel_saw_fader \/ unit.mode = "fader"))
           /\ late' = (IF MixEnds THEN "leave" ELSE IF MixBegins THEN "fader" ELSE late)
           /\ panel_prev' \in ReadSet
           /\ panel_prev'.mode = unit.mode /\ panel_prev'.flash = unit.flash
           /\ panel_prev'.wheel = unit.wheel
           /\ panel_mix' \in BOOLEAN /\ panel_saw_fader' \in BOOLEAN
           /\ panel_select_armed' \in BOOLEAN
  <1>1. /\ life = "running" /\ HostStays
        /\ unit' = unit /\ meant' = meant /\ use' = use /\ panel_seen' = panel_seen
        /\ gain' = GainNow /\ xpoint' = XpointNow /\ phantom' = PhantomNow
        /\ panel_in' = InNow /\ panel_out' = unit.out /\ panel_sel' = SelNow
    BY DEF Poll, NextPoll, HostStays, host
  <1>2. /\ panel_select_armed' =
              (ArmedNow \/ (Pressed("SELECT") /\ SelOf(panel_sel, InNow) # NotKnown))
        /\ panel_mix_db2' =
              (IF Seeds THEN Seed(XpointNow, unit.out, InNow, SelOf(SelNow, InNow)) ELSE Db2Now)
        /\ panel_mix' = (MixBegins \/ (panel_mix /\ ~MixEnds))
        /\ panel_saw_fader' = (panel_mix' /\ (panel_saw_fader \/ unit.mode = "fader"))
        /\ late' = (IF MixEnds THEN "leave" ELSE IF MixBegins THEN "fader" ELSE late)
    BY DEF Poll, NextPoll
  <1>3. /\ panel_prev' \in ReadSet
        /\ panel_prev'.mode = unit.mode /\ panel_prev'.flash = unit.flash
        /\ panel_prev'.wheel = unit.wheel
    BY Fields DEF Poll, NextPoll, Read, ReadSet
  <1>4. /\ panel_mix' \in BOOLEAN /\ panel_saw_fader' \in BOOLEAN
        /\ panel_select_armed' \in BOOLEAN
    BY <1>2
  <1> QED  BY <1>1, <1>2, <1>3, <1>4

\* What SelectPut() leaves alone, and what it may change.
LEMMA SelectPutDoes ==
    ASSUME TypeOK, NEW pair \in Pairs, NEW sel \in -1..3, NEW restore \in BOOLEAN,
           SelectPut(pair, sel, restore)
    PROVE  /\ panel_sel' \in [Pairs -> -1..3] /\ panel_select_armed' \in BOOLEAN
           /\ (restore /\ reprobe =>
                  /\ panel_sel' = panel_sel /\ panel_select_armed' = panel_select_armed
                  /\ panel_mix_db2' = panel_mix_db2)
           /\ (~(restore /\ reprobe) =>
                  /\ panel_sel' = [panel_sel EXCEPT ![pair] = sel]
                  /\ (panel_select_armed' <=>
                         panel_select_armed \/ (pair = panel_in /\ ~restore /\ sel # NotKnown))
                  /\ panel_mix_db2' = IF panel_mix /\ pair = panel_in /\ sel # panel_sel[pair]
                                      THEN Seed(xpoint, panel_out, pair, sel)
                                      ELSE panel_mix_db2)
  <1>1. CASE restore /\ reprobe
    BY <1>1 DEF SelectPut, TypeOK
  <1>2. CASE ~(restore /\ reprobe)
    <2>1. /\ panel_sel' = [panel_sel EXCEPT ![pair] = sel]
          /\ panel_select_armed' =
                (panel_select_armed \/ (pair = panel_in /\ ~restore /\ sel # NotKnown))
          /\ panel_mix_db2' = IF panel_mix /\ pair = panel_in /\ sel # panel_sel[pair]
                              THEN Seed(xpoint, panel_out, pair, sel)
                              ELSE panel_mix_db2
      BY <1>2, Zenon DEF SelectPut
    <2>2. panel_sel \in [Pairs -> -1..3] /\ panel_select_armed \in BOOLEAN
      BY DEF TypeOK
    <2>3. panel_sel' \in [Pairs -> -1..3]
      BY ONLY <2>1, <2>2, pair \in Pairs, sel \in -1..3
    <2>4. panel_select_armed' \in BOOLEAN
      BY ONLY <2>1, <2>2
    <2> QED  BY ONLY <1>2, <2>1, <2>3, <2>4
  <1> QED  BY <1>1, <1>2

LEMMA RestoreDoes ==
    ASSUME TypeOK, Restore
    PROVE  /\ life = "running" /\ fresh
           /\ UNCHANGED <<use, unit, late, life, fresh, reprobe, stored, panel_seen, panel_in,
                          panel_out, panel_mix, panel_saw_fader, panel_prev, meant>>
           /\ AudioStays
           /\ panel_sel' \in [Pairs -> -1..3] /\ panel_select_armed' \in BOOLEAN
           /\ \E pair \in torestore :
                 /\ torestore' = torestore \ {pair} /\ pair \in Pairs
                 /\ SelectPut(pair, stored[pair], TRUE)
                 /\ panel_sel' = (IF reprobe THEN panel_sel
                                  ELSE [panel_sel EXCEPT ![pair] = stored[pair]])
                 /\ (panel_select_armed' <=> panel_select_armed)
                 /\ (~panel_mix => panel_mix_db2' = panel_mix_db2)
  <1>1. PICK pair \in torestore :
             SelectPut(pair, stored[pair], TRUE) /\ torestore' = torestore \ {pair}
    BY DEF Restore
  <1>2. pair \in Pairs /\ stored[pair] \in -1..3
    BY <1>1 DEF TypeOK
  <1>3. /\ life = "running" /\ fresh
        /\ UNCHANGED <<use, unit, late, life, fresh, reprobe, stored, panel_seen, panel_in,
                       panel_out, panel_mix, panel_saw_fader, panel_prev, meant>>
        /\ AudioStays
    BY DEF Restore, unit_side, audio, AudioStays
  <1>4. CASE reprobe
    BY <1>1, <1>2, <1>3, <1>4, SelectPutDoes
  <1>5. CASE ~reprobe
    BY <1>1, <1>2, <1>3, <1>5, SelectPutDoes
  <1> QED  BY <1>4, <1>5

LEMMA TellDoes ==
    ASSUME TypeOK, Tell
    PROVE  /\ life = "running" /\ ~fresh /\ Ready /\ WheelPolled /\ unit.lit
           /\ panel_in = unit.in
           /\ UNCHANGED <<use, unit, late, panel_seen, panel_in, panel_out, panel_mix,
                          panel_saw_fader, panel_prev, meant>>
           /\ HostStays /\ AudioStays
           /\ panel_sel' \in [Pairs -> -1..3] /\ panel_select_armed' \in BOOLEAN
           /\ panel_select_armed'
           /\ panel_sel' = [panel_sel EXCEPT ![panel_in] = unit.sel[panel_in]]
           /\ panel_mix_db2' = IF panel_mix /\ panel_sel' # panel_sel
                               THEN Seed(xpoint, panel_out, panel_in, unit.sel[panel_in])
                               ELSE panel_mix_db2
  <1>1. /\ life = "running" /\ ~fresh /\ Ready /\ WheelPolled /\ unit.lit
        /\ panel_in = unit.in /\ SelectPut(unit.in, unit.sel[unit.in], FALSE)
        /\ UNCHANGED <<use, unit, late, panel_seen, panel_in, panel_out, panel_mix,
                       panel_saw_fader, panel_prev, meant>>
        /\ HostStays /\ AudioStays
    BY DEF Tell, unit_side, host, audio, HostStays, AudioStays
  <1>2. panel_in \in Pairs /\ unit.sel[panel_in] \in 0..3
    BY <1>1, Fields
  <1>3. /\ panel_sel' \in [Pairs -> -1..3] /\ panel_select_armed' \in BOOLEAN
        /\ panel_sel' = [panel_sel EXCEPT ![panel_in] = unit.sel[panel_in]]
        /\ panel_select_armed'
        /\ panel_mix_db2' =
              IF panel_mix /\ unit.sel[panel_in] # panel_sel[panel_in]
              THEN Seed(xpoint, panel_out, panel_in, unit.sel[panel_in]) ELSE panel_mix_db2
    <2>1. PICK chosen \in 0..3 : chosen = unit.sel[panel_in]
      BY <1>2
    <2>2. SelectPut(panel_in, chosen, FALSE)
      BY ONLY <1>1, <2>1
    <2>3. chosen \in -1..3 /\ chosen # NotKnown
      BY <2>1 DEF NotKnown
    <2> QED  BY <1>2, <2>1, <2>2, <2>3, SelectPutDoes
  <1>4. panel_sel' # panel_sel <=> unit.sel[panel_in] # panel_sel[panel_in]
    BY <1>2, <1>3 DEF TypeOK
  <1> QED  BY <1>1, <1>3, <1>4

LEMMA FreshEndsDoes ==
    ASSUME TypeOK, FreshEnds
    PROVE  /\ life = "running" /\ torestore = {} /\ panel_seen /\ fresh' = FALSE
           /\ UNCHANGED <<use, unit, late, life, reprobe, stored, torestore, meant>>
           /\ DriverStays /\ AudioStays
  BY DEF FreshEnds, unit_side, followed, mixing, audio, DriverStays, AudioStays

LEMMA AppPutDoes ==
    ASSUME TypeOK, AppPut
    PROVE  /\ life = "running" /\ ("app" \in Hasty \/ ~panel_mix)
           /\ UNCHANGED <<use, unit, late, meant, phantom, gain>>
           /\ HostStays /\ DriverStays
           /\ xpoint' \in [OutPairs -> [Srcs -> Faders]]
  <1>1. /\ life = "running" /\ ("app" \in Hasty \/ ~panel_mix)
        /\ UNCHANGED <<use, unit, late, meant, phantom, gain>>
        /\ HostStays /\ DriverStays
    BY DEF AppPut, unit_side, host, followed, mixing, HostStays, DriverStays
  <1>2. PICK f \in AppFaders, left, right \in {MixInf, MixTop} :
             xpoint' = [xpoint EXCEPT ![f[1]][f[2]] = [l |-> left, r |-> right]]
    BY DEF AppPut
  <1>3. f[1] \in OutPairs /\ f[2] \in Srcs
    BY PanelAssumption DEF Srcs, Mics
  <1>4. PICK fader \in Faders : fader = [l |-> left, r |-> right]
    <2>1. left \in Levels /\ right \in Levels
      BY PanelAssumption DEF Levels
    <2> QED  BY <2>1 DEF Faders
  <1>5. xpoint \in [OutPairs -> [Srcs -> Faders]]
    BY DEF TypeOK
  <1>6. [xpoint[f[1]] EXCEPT ![f[2]] = fader] \in [Srcs -> Faders]
    BY <1>3, <1>4, <1>5
  <1>7. xpoint' = [xpoint EXCEPT ![f[1]] = [xpoint[f[1]] EXCEPT ![f[2]] = fader]]
    BY <1>2, <1>3, <1>4, <1>5
  <1> QED  BY <1>1, <1>3, <1>5, <1>6, <1>7

LEMMA StopDoes ==
    ASSUME TypeOK, Stop
    PROVE  /\ life = "running" /\ Ready /\ WheelPolled
           /\ life' \in {"asleep", "unbound", "down"}
           /\ stored' = (IF life' = "down" THEN panel_sel ELSE stored)
           /\ unit'.mode # "fader" /\ (unit.mode # "fader" => unit'.mode = unit.mode)
           /\ unit'.in = unit.in /\ unit'.out = unit.out /\ unit'.sel = unit.sel
           /\ unit'.flash = unit.flash /\ unit'.lit = unit.lit
           /\ unit'.wheel = unit.wheel /\ unit' \in UnitSet
           /\ meant'.phantom = meant.phantom /\ meant'.gain = meant.gain
           /\ meant'.mix = FALSE /\ meant' \in MeantSet
           /\ UNCHANGED <<use, late, fresh, reprobe, torestore>>
           /\ DriverStays /\ AudioStays
  <1>1. /\ life = "running" /\ Ready /\ WheelPolled
        /\ life' \in {"asleep", "unbound", "down"}
        /\ stored' = (IF life' = "down" THEN panel_sel ELSE stored)
        /\ UNCHANGED <<use, late, fresh, reprobe, torestore>>
        /\ DriverStays /\ AudioStays
    BY DEF Stop, Settled, followed, mixing, audio, DriverStays, AudioStays
  <1>2. PICK m \in Modes : m = IF unit.mode = "fader" THEN "in" ELSE unit.mode
    BY Fields DEF Modes
  <1>3. unit' = [unit EXCEPT !.mode = m]
    BY <1>2, Fields DEF Stop, UnitSet
  <1>4. meant' = [meant EXCEPT !.mix = FALSE]
    BY DEF Stop
  <1>5. /\ unit'.mode # "fader" /\ (unit.mode # "fader" => unit'.mode = unit.mode)
        /\ unit'.in = unit.in /\ unit'.out = unit.out /\ unit'.sel = unit.sel
        /\ unit'.flash = unit.flash /\ unit'.lit = unit.lit
        /\ unit'.wheel = unit.wheel /\ unit' \in UnitSet
    BY <1>2, <1>3, Fields DEF UnitSet
  <1>6. /\ meant'.phantom = meant.phantom /\ meant'.gain = meant.gain
        /\ meant'.mix = FALSE /\ meant' \in MeantSet
    BY <1>4, Fields DEF MeantSet
  <1> QED  BY <1>1, <1>5, <1>6

LEMMA WakeDoes ==
    ASSUME TypeOK, Wake
    PROVE  /\ life = "asleep" /\ life' = "running" /\ fresh' = TRUE
           /\ panel_seen' = FALSE /\ panel_select_armed' = FALSE
           /\ unit'.mode = unit.mode /\ unit'.in = unit.in /\ unit'.out = unit.out
           /\ unit'.sel = unit.sel /\ unit'.flash = unit.flash /\ unit'.lit = FALSE
           /\ unit'.wheel = unit.wheel /\ unit' \in UnitSet
           /\ UNCHANGED <<use, late, reprobe, stored, torestore, panel_in, panel_out, panel_sel,
                          panel_mix, panel_saw_fader, panel_mix_db2, panel_prev, meant>>
           /\ AudioStays
  <1>1. /\ life = "asleep" /\ life' = "running" /\ fresh' = TRUE
        /\ panel_seen' = FALSE /\ panel_select_armed' = FALSE
        /\ UNCHANGED <<use, late, reprobe, stored, torestore, panel_in, panel_out, panel_sel,
                       panel_mix, panel_saw_fader, panel_mix_db2, panel_prev, meant>>
        /\ AudioStays
    BY DEF Wake, mixing, audio, AudioStays
  <1>2. unit' = [unit EXCEPT !.lit = FALSE]
    BY DEF Wake
  <1> QED  BY <1>1, <1>2, Fields DEF UnitSet

LEMMA StartDoes ==
    ASSUME TypeOK, Start
    PROVE  /\ life \in {"unbound", "down"} /\ life' = "running" /\ unit.flash = "none"
           /\ fresh' = TRUE /\ (reprobe' <=> life = "unbound") /\ reprobe' \in BOOLEAN
           /\ torestore' = Pairs
           /\ panel_seen' = FALSE /\ panel_in' = 0 /\ panel_out' = 0
           /\ panel_sel' = [p \in Pairs |-> NotKnown] /\ panel_select_armed' = FALSE
           /\ panel_mix' = FALSE /\ panel_saw_fader' = FALSE /\ panel_mix_db2' = 0
           /\ panel_prev' = Nothing
           /\ gain' = [m \in Mics |-> 0]
           /\ xpoint' = [o \in OutPairs |-> [s \in Srcs |-> BothAt(MixInf)]]
           /\ unit'.mode = unit.mode /\ unit'.in = unit.in /\ unit'.out = unit.out
           /\ unit'.sel = unit.sel /\ unit'.flash = unit.flash
           /\ unit'.lit = (IF life = "down" THEN FALSE ELSE unit.lit)
           /\ unit'.wheel = unit.wheel /\ unit' \in UnitSet
           /\ meant'.gain = [m \in Mics |-> 0] /\ meant'.phantom = meant.phantom
           /\ meant'.mix = meant.mix /\ meant' \in MeantSet
           /\ UNCHANGED <<use, late, stored, phantom>>
  <1>1. /\ life \in {"unbound", "down"} /\ life' = "running" /\ unit.flash = "none"
        /\ fresh' = TRUE /\ (reprobe' <=> life = "unbound") /\ reprobe' \in BOOLEAN
        /\ torestore' = Pairs
        /\ panel_seen' = FALSE /\ panel_in' = 0 /\ panel_out' = 0
        /\ panel_sel' = [p \in Pairs |-> NotKnown] /\ panel_select_armed' = FALSE
        /\ panel_mix' = FALSE /\ panel_saw_fader' = FALSE /\ panel_mix_db2' = 0
        /\ panel_prev' = Nothing
        /\ gain' = [m \in Mics |-> 0]
        /\ xpoint' = [o \in OutPairs |-> [s \in Srcs |-> BothAt(MixInf)]]
        /\ UNCHANGED <<use, late, stored, phantom>>
    BY DEF Start
  <1>2. unit' = (IF life = "down" THEN [unit EXCEPT !.lit = FALSE] ELSE unit)
    BY DEF Start
  <1>3. /\ unit'.mode = unit.mode /\ unit'.in = unit.in /\ unit'.out = unit.out
        /\ unit'.sel = unit.sel /\ unit'.flash = unit.flash
        /\ unit'.lit = (IF life = "down" THEN FALSE ELSE unit.lit)
        /\ unit'.wheel = unit.wheel /\ unit' \in UnitSet
    BY <1>2, Fields DEF UnitSet
  <1>4. PICK g \in [Mics -> Nat] : g = [m \in Mics |-> 0]
    OBVIOUS
  <1>5. meant' = [meant EXCEPT !.gain = g]
    BY <1>4 DEF Start
  <1>6. /\ meant'.gain = g /\ meant'.phantom = meant.phantom
        /\ meant'.mix = meant.mix /\ meant' \in MeantSet
    BY <1>5, Fields DEF MeantSet
  <1> QED  BY <1>1, <1>3, <1>4, <1>6

----------------------------------------------------------------------------
\* A unit, a driver and a user of the right types.
Typed ==
    /\ use \in Uses /\ unit \in UnitSet /\ late \in {"none", "fader", "leave"}
    /\ life \in {"running", "asleep", "unbound", "down"}
    /\ fresh \in BOOLEAN /\ reprobe \in BOOLEAN /\ stored \in [Pairs -> -1..3]
    /\ torestore \subseteq Pairs /\ panel_seen \in BOOLEAN
    /\ panel_in \in Pairs \cup {0} /\ panel_out \in OutPairs \cup {0}
    /\ panel_sel \in [Pairs -> -1..3] /\ panel_select_armed \in BOOLEAN
    /\ panel_mix \in BOOLEAN /\ panel_saw_fader \in BOOLEAN /\ panel_mix_db2 \in Int
    /\ panel_prev \in ReadSet /\ phantom \subseteq {0, 1} /\ gain \in [Mics -> Nat]
    /\ xpoint \in [OutPairs -> [Srcs -> Faders]] /\ meant \in MeantSet

LEMMA TypedIsTypeOK ==
    (TypeOK <=> Typed) /\ (Typed' => TypeOK')
  BY DEF Typed, TypeOK, UnitSet, ReadSet, MeantSet

\* What the user and the unit do to each other leaves the rest typed.
LEMMA UnitTypes ==
    ASSUME Typed, HostStays, DriverStays, AudioStays, use' = use,
           unit' \in UnitSet, late' \in {"none", "fader", "leave"}, meant' \in MeantSet
    PROVE  Typed'
  <1>1. /\ use' \in Uses /\ unit' \in UnitSet /\ late' \in {"none", "fader", "leave"}
        /\ meant' \in MeantSet
    BY DEF Typed
  <1>2. /\ life' \in {"running", "asleep", "unbound", "down"}
        /\ fresh' \in BOOLEAN /\ reprobe' \in BOOLEAN /\ stored' \in [Pairs -> -1..3]
        /\ torestore' \subseteq Pairs
    BY DEF Typed, HostStays
  <1>3. /\ panel_seen' \in BOOLEAN
        /\ panel_in' \in Pairs \cup {0} /\ panel_out' \in OutPairs \cup {0}
        /\ panel_sel' \in [Pairs -> -1..3] /\ panel_select_armed' \in BOOLEAN
        /\ panel_mix' \in BOOLEAN /\ panel_saw_fader' \in BOOLEAN /\ panel_mix_db2' \in Int
        /\ panel_prev' \in ReadSet
    BY DEF Typed, DriverStays
  <1>4. /\ phantom' \subseteq {0, 1} /\ gain' \in [Mics -> Nat]
        /\ xpoint' \in [OutPairs -> [Srcs -> Faders]]
    BY DEF Typed, AudioStays
  <1> QED  BY <1>1, <1>2, <1>3, <1>4 DEF Typed

LEMMA TypesStep ==
    ASSUME TypeOK, Untouched, [Next]_vars
    PROVE  TypeOK'
  <1>0. Typed
    BY TypedIsTypeOK
  <1> SUFFICES Typed'
    BY TypedIsTypeOK
  <1>1. CASE PressSelect
    <2>1. meant \in MeantSet /\ late \in {"none", "fader", "leave"}
      BY <1>0 DEF Typed
    <2> QED  BY <1>0, <1>1, <2>1, PressSelectDoes, UnitTypes
  <1>2. CASE PressIn
    BY <1>0, <1>2, PressInDoes DEF Typed, HostStays, DriverStays, AudioStays
  <1>3. CASE PressOut
    BY <1>0, <1>3, PressOutDoes DEF Typed, HostStays, DriverStays, AudioStays
  <1>4. CASE PressSet
    BY <1>0, <1>4, PressSetDoes DEF Typed, HostStays, DriverStays, AudioStays
  <1>5. CASE PressMix
    BY <1>0, <1>5, PressMixDoes DEF Typed, HostStays, DriverStays, AudioStays
  <1>6. CASE Release
    <2>1. meant \in MeantSet /\ late \in {"none", "fader", "leave"}
      BY <1>0 DEF Typed
    <2> QED  BY <1>0, <1>6, <2>1, ReleaseDoes, UnitTypes
  <1>7. CASE ShowMode
    BY <1>0, <1>7, ShowModeDoes DEF Typed, HostStays, DriverStays, AudioStays
  <1>8. CASE Turn
    BY <1>0, <1>8, TurnDoes DEF Typed, HostStays, DriverStays, AudioStays
  <1>9. CASE Poll /\ ~panel_seen
    BY <1>0, <1>9, FirstPollDoes, Fields DEF Typed, HostStays, DriverStays, AudioStays
  <1>10. CASE Poll /\ panel_seen
    <2>1. panel_mix_db2' \in Int
      <3>1. Seed(XpointNow, unit.out, InNow, SelOf(SelNow, InNow)) \in Int
        BY SeedType, XpointNowType, InNowType, Fields
      <3> QED  BY <1>0, <1>10, <3>1, Db2NowType, NextPollDoes
    <2> QED  BY <1>0, <1>10, <2>1, NextPollDoes, Fields, InNowType, SelNowType, PhantomNowType,
                GainNowType, XpointNowType DEF Typed, HostStays, DriverStays, AudioStays
  <1>11. CASE Restore
    <2>1. panel_mix_db2' = panel_mix_db2
      BY <1>0, <1>11, RestoreDoes DEF Untouched
    <2> QED  BY <1>0, <1>11, <2>1, RestoreDoes DEF Typed, HostStays, DriverStays, AudioStays
  <1>12. CASE Tell
    <2>1. panel_mix_db2' \in Int
      <3>1. panel_out \in OutPairs /\ panel_in \in Pairs
        BY <1>0, <1>12, TellDoes, Fields DEF Ready, Polled
      <3>2. Seed(xpoint, panel_out, panel_in, unit.sel[panel_in]) \in Int
        BY <3>1, SeedType DEF TypeOK
      <3> QED  BY <1>0, <1>12, <3>2, TellDoes DEF TypeOK
    <2> QED  BY <1>0, <1>12, <2>1, TellDoes DEF Typed, HostStays, DriverStays, AudioStays
  <1>13. CASE FreshEnds
    BY <1>0, <1>13, FreshEndsDoes DEF Typed, HostStays, DriverStays, AudioStays
  <1>14. CASE AppPut
    BY <1>0, <1>14, AppPutDoes DEF Typed, HostStays, DriverStays, AudioStays
  <1>15. CASE Stop
    <2>1. life' \in {"asleep", "unbound", "down"} /\ DriverStays /\ AudioStays
          /\ UNCHANGED <<use, late, fresh, reprobe, torestore>>
          /\ unit' \in UnitSet /\ meant' \in MeantSet
      BY <1>0, <1>15, StopDoes
    <2>2. stored' \in [Pairs -> -1..3]
      BY <1>0, <1>15, StopDoes DEF Typed
    <2>3. /\ use' \in Uses /\ unit' \in UnitSet /\ late' \in {"none", "fader", "leave"}
          /\ fresh' \in BOOLEAN /\ reprobe' \in BOOLEAN /\ torestore' \subseteq Pairs
          /\ meant' \in MeantSet
      BY <1>0, <2>1 DEF Typed
    <2> QED  BY <1>0, <2>1, <2>2, <2>3 DEF Typed, DriverStays, AudioStays
  <1>16. CASE Wake
    BY <1>0, <1>16, WakeDoes DEF Typed, HostStays, DriverStays, AudioStays
  <1>17. CASE Start
    <2>1. panel_prev' \in ReadSet
      BY <1>0, <1>17, StartDoes, PanelAssumption DEF Nothing, ReadSet, Modes
    <2>2. panel_sel' \in [Pairs -> -1..3] /\ gain' \in [Mics -> Nat]
      BY <1>0, <1>17, StartDoes DEF NotKnown
    <2>3. xpoint' \in [OutPairs -> [Srcs -> Faders]]
      <3>1. BothAt(MixInf) \in Faders
        BY FaderSides DEF Levels
      <3> QED  BY <1>0, <1>17, <3>1, StartDoes
    <2>4. /\ panel_in' \in Pairs \cup {0} /\ panel_out' \in OutPairs \cup {0}
          /\ panel_mix_db2' \in Int /\ meant' \in MeantSet /\ unit' \in UnitSet
          /\ panel_seen' \in BOOLEAN /\ panel_select_armed' \in BOOLEAN
          /\ panel_mix' \in BOOLEAN /\ panel_saw_fader' \in BOOLEAN
      BY <1>17, StartDoes
    <2>5. /\ use' \in Uses /\ late' \in {"none", "fader", "leave"}
          /\ life' \in {"running", "asleep", "unbound", "down"}
          /\ fresh' \in BOOLEAN /\ reprobe' \in BOOLEAN /\ stored' \in [Pairs -> -1..3]
          /\ torestore' \subseteq Pairs /\ phantom' \subseteq {0, 1}
      BY <1>0, <1>17, StartDoes DEF Typed
    <2> QED  BY <2>1, <2>2, <2>3, <2>4, <2>5 DEF Typed
  <1>18. CASE UNCHANGED vars
    BY <1>0, <1>18 DEF vars, Typed, unit_side, host, followed, mixing, audio
  <1> QED
    BY <1>1, <1>2, <1>3, <1>4, <1>5, <1>6, <1>7, <1>8, <1>9, <1>10, <1>11, <1>12, <1>13, <1>14, <1>15, <1>16, <1>17, <1>18 DEF Next

----------------------------------------------------------------------------
\* Where the user may press a button, nothing is under way.
LEMMA ReadyRunning ==
    ASSUME TypeOK, MixInv, Ready, life = "running"
    PROVE  /\ panel_seen /\ Watching /\ unit.flash = "none" /\ panel_prev.flash = "none"
           /\ panel_prev.mode = unit.mode /\ panel_out = unit.out
           /\ (unit.mode = "in" => panel_in = unit.in)
           /\ late = "none" /\ torestore = {}
           /\ (panel_mix <=> meant.mix) /\ (panel_mix <=> unit.mode = "fader")
           /\ (panel_mix => panel_saw_fader)
  <1>1. /\ panel_seen /\ Watching /\ unit.flash = "none" /\ panel_prev.flash = "none"
        /\ panel_prev.mode = unit.mode /\ panel_out = unit.out
        /\ (unit.mode = "in" => panel_in = unit.in)
        /\ late = "none" /\ torestore = {}
    BY DEF Ready, Polled, Watching
  <1>2. CASE ~panel_mix
    BY <1>1, <1>2, Fields DEF MixInv, MixOff, Pressed
  <1>3. CASE panel_mix /\ ~panel_saw_fader
    BY <1>1, <1>3, Fields DEF MixInv, MixBegan
  <1>4. CASE panel_mix /\ panel_saw_fader
    BY <1>1, <1>4, Fields DEF MixInv, MixSeen, Pressed, Pending
  <1> QED  BY <1>1, <1>2, <1>3, <1>4

LEMMA ReadyUnbound ==
    ASSUME TypeOK, MixInv, Ready, life # "running"
    PROVE  /\ life = "unbound" /\ unit.flash = "none" /\ late = "none"
           /\ unit.mode # "fader" /\ ~meant.mix
  BY DEF Ready, MixInv, Untouched

LEMMA MixStep ==
    ASSUME TypeOK, TypeOK', MixInv, [Next]_vars
    PROVE  MixInv'
  <1>1. CASE PressSelect
    <2>1. Untouched'
      BY <1>1, PressSelectDoes, ReadyRunning, ReadyUnbound, Fields DEF MixInv, Untouched,
         Watching, Pending, Pressed, HostStays, DriverStays
    <2>2. OneAtATime'
      BY <1>1, PressSelectDoes, ReadyRunning, ReadyUnbound, Fields DEF MixInv, OneAtATime,
         Watching, Pending, Pressed, HostStays, DriverStays
    <2>3. MixBegan'
      BY <1>1, PressSelectDoes, ReadyRunning, ReadyUnbound, Fields DEF MixInv, MixBegan,
         Watching, Pending, Pressed, HostStays, DriverStays
    <2>4. MixSeen'
      BY <1>1, PressSelectDoes, ReadyRunning, ReadyUnbound, Fields DEF MixInv, MixSeen,
         Watching, Pending, Pressed, HostStays, DriverStays
    <2>5. MixOff'
      BY <1>1, PressSelectDoes, ReadyRunning, ReadyUnbound, Fields DEF MixInv, MixOff,
         Watching, Pending, Pressed, HostStays, DriverStays
    <2> QED  BY <2>1, <2>2, <2>3, <2>4, <2>5 DEF MixInv
  <1>2. CASE PressIn
    <2>1. Untouched'
      <3>1. CASE life = "running"
        BY <1>2, <3>1, PressInDoes, ReadyRunning DEF Untouched, Watching, HostStays,
           DriverStays
      <3>2. CASE life # "running"
        BY <1>2, <3>2, PressInDoes, ReadyUnbound DEF Untouched, Watching, HostStays,
           DriverStays
      <3> QED  BY <3>1, <3>2
    <2>2. OneAtATime'
      BY <1>2, PressInDoes, ReadyRunning, ReadyUnbound, Fields DEF MixInv, OneAtATime,
         Watching, Pending, Pressed, HostStays, DriverStays
    <2>3. MixBegan'
      BY <1>2, PressInDoes, ReadyRunning, ReadyUnbound, Fields DEF MixInv, MixBegan,
         Watching, Pending, Pressed, HostStays, DriverStays
    <2>4. MixSeen'
      BY <1>2, PressInDoes, ReadyRunning, ReadyUnbound, Fields DEF MixInv, MixSeen, Watching,
         Pending, Pressed, HostStays, DriverStays
    <2>5. MixOff'
      BY <1>2, PressInDoes, ReadyRunning, ReadyUnbound, Fields DEF MixInv, MixOff, Watching,
         Pending, Pressed, HostStays, DriverStays
    <2> QED  BY <2>1, <2>2, <2>3, <2>4, <2>5 DEF MixInv
  <1>3. CASE PressOut
    <2>1. Untouched'
      <3>1. CASE life = "running"
        BY <1>3, <3>1, PressOutDoes, ReadyRunning DEF Untouched, Watching, HostStays,
           DriverStays
      <3>2. CASE life # "running"
        BY <1>3, <3>2, PressOutDoes, ReadyUnbound DEF Untouched, Watching, HostStays,
           DriverStays
      <3> QED  BY <3>1, <3>2
    <2>2. OneAtATime'
      BY <1>3, PressOutDoes, ReadyRunning, ReadyUnbound, Fields DEF MixInv, OneAtATime,
         Watching, Pending, Pressed, HostStays, DriverStays
    <2>3. MixBegan'
      BY <1>3, PressOutDoes, ReadyRunning, ReadyUnbound, Fields DEF MixInv, MixBegan,
         Watching, Pending, Pressed, HostStays, DriverStays
    <2>4. MixSeen'
      BY <1>3, PressOutDoes, ReadyRunning, ReadyUnbound, Fields DEF MixInv, MixSeen,
         Watching, Pending, Pressed, HostStays, DriverStays
    <2>5. MixOff'
      BY <1>3, PressOutDoes, ReadyRunning, ReadyUnbound, Fields DEF MixInv, MixOff, Watching,
         Pending, Pressed, HostStays, DriverStays
    <2> QED  BY <2>1, <2>2, <2>3, <2>4, <2>5 DEF MixInv
  <1>4. CASE PressSet
    <2>1. Untouched'
      BY <1>4, PressSetDoes, ReadyRunning, ReadyUnbound, Fields DEF MixInv, Untouched,
         Watching, Pending, Pressed, HostStays, DriverStays
    <2>2. OneAtATime'
      BY <1>4, PressSetDoes, ReadyRunning, ReadyUnbound, Fields DEF MixInv, OneAtATime,
         Watching, Pending, Pressed, HostStays, DriverStays
    <2>3. MixBegan'
      BY <1>4, PressSetDoes, ReadyRunning, ReadyUnbound, Fields DEF MixInv, MixBegan,
         Watching, Pending, Pressed, HostStays, DriverStays
    <2>4. MixSeen'
      BY <1>4, PressSetDoes, ReadyRunning, ReadyUnbound, Fields DEF MixInv, MixSeen,
         Watching, Pending, Pressed, HostStays, DriverStays
    <2>5. MixOff'
      BY <1>4, PressSetDoes, ReadyRunning, ReadyUnbound, Fields DEF MixInv, MixOff, Watching,
         Pending, Pressed, HostStays, DriverStays
    <2> QED  BY <2>1, <2>2, <2>3, <2>4, <2>5 DEF MixInv
  <1>5. CASE PressMix
    <2>1. Untouched'
      BY <1>5, PressMixDoes, ReadyRunning, ReadyUnbound, Fields DEF MixInv, Untouched,
         Watching, Pending, Pressed, HostStays, DriverStays
    <2>2. OneAtATime'
      BY <1>5, PressMixDoes, ReadyRunning, ReadyUnbound, Fields DEF MixInv, OneAtATime,
         Watching, Pending, Pressed, HostStays, DriverStays
    <2>3. MixBegan'
      BY <1>5, PressMixDoes, ReadyRunning, ReadyUnbound, Fields DEF MixInv, MixBegan,
         Watching, Pending, Pressed, HostStays, DriverStays
    <2>4. MixSeen'
      BY <1>5, PressMixDoes, ReadyRunning, ReadyUnbound, Fields DEF MixInv, MixSeen,
         Watching, Pending, Pressed, HostStays, DriverStays
    <2>5. MixOff'
      BY <1>5, PressMixDoes, ReadyRunning, ReadyUnbound, Fields DEF MixInv, MixOff, Watching,
         Pending, Pressed, HostStays, DriverStays
    <2> QED  BY <2>1, <2>2, <2>3, <2>4, <2>5 DEF MixInv
  <1>6. CASE Release
    <2>1. Untouched'
      BY <1>6, ReleaseDoes, Fields DEF MixInv, Untouched, Watching, Pending, Pressed,
         HostStays, DriverStays, Polled
    <2>2. OneAtATime'
      BY <1>6, ReleaseDoes, Fields DEF MixInv, OneAtATime, Watching, Pending, Pressed,
         HostStays, DriverStays, Polled
    <2>3. MixBegan'
      BY <1>6, ReleaseDoes, Fields DEF MixInv, MixBegan, Watching, Pending, Pressed,
         HostStays, DriverStays, Polled
    <2>4. MixSeen'
      BY <1>6, ReleaseDoes, Fields DEF MixInv, MixSeen, Watching, Pending, Pressed,
         HostStays, DriverStays, Polled
    <2>5. MixOff'
      BY <1>6, ReleaseDoes, Fields DEF MixInv, MixOff, Watching, Pending, Pressed, HostStays,
         DriverStays, Polled
    <2> QED  BY <2>1, <2>2, <2>3, <2>4, <2>5 DEF MixInv
  <1>7. CASE ShowMode
    <2>1. Untouched'
      BY <1>7, ShowModeDoes, Fields DEF MixInv, Untouched, OneAtATime, MixBegan, MixSeen,
         MixOff, Watching, Pending, Pressed, HostStays, DriverStays
    <2>2. OneAtATime'
      BY <1>7, ShowModeDoes, Fields DEF MixInv, Untouched, OneAtATime, MixBegan, MixSeen,
         MixOff, Watching, Pending, Pressed, HostStays, DriverStays
    <2>3. MixBegan'
      BY <1>7, ShowModeDoes, Fields DEF MixInv, Untouched, OneAtATime, MixBegan, MixSeen,
         MixOff, Watching, Pending, Pressed, HostStays, DriverStays
    <2>4. MixSeen'
      BY <1>7, ShowModeDoes, Fields DEF MixInv, Untouched, OneAtATime, MixBegan, MixSeen,
         MixOff, Watching, Pending, Pressed, HostStays, DriverStays
    <2>5. MixOff'
      BY <1>7, ShowModeDoes, Fields DEF MixInv, Untouched, OneAtATime, MixBegan, MixSeen,
         MixOff, Watching, Pending, Pressed, HostStays, DriverStays
    <2> QED  BY <2>1, <2>2, <2>3, <2>4, <2>5 DEF MixInv
  <1>8. CASE Turn
    <2>1. Untouched'
      BY <1>8, TurnDoes, Fields DEF MixInv, Untouched, Watching, Pending, Pressed, HostStays,
         DriverStays, Polled, WheelPolled
    <2>2. OneAtATime'
      BY <1>8, TurnDoes, Fields DEF MixInv, OneAtATime, Watching, Pending, Pressed,
         HostStays, DriverStays, Polled, WheelPolled
    <2>3. MixBegan'
      BY <1>8, TurnDoes, Fields DEF MixInv, MixBegan, Watching, Pending, Pressed, HostStays,
         DriverStays, Polled, WheelPolled
    <2>4. MixSeen'
      BY <1>8, TurnDoes, Fields DEF MixInv, MixSeen, Watching, Pending, Pressed, HostStays,
         DriverStays, Polled, WheelPolled
    <2>5. MixOff'
      BY <1>8, TurnDoes, Fields DEF MixInv, MixOff, Watching, Pending, Pressed, HostStays,
         DriverStays, Polled, WheelPolled
    <2> QED  BY <2>1, <2>2, <2>3, <2>4, <2>5 DEF MixInv
  <1>9. CASE Poll /\ ~panel_seen
    <2>1. Untouched'
      BY <1>9, FirstPollDoes, Fields DEF MixInv, Untouched, OneAtATime, MixBegan, MixSeen,
         MixOff, Watching, Pending, Pressed, HostStays
    <2>2. OneAtATime'
      BY <1>9, FirstPollDoes, Fields DEF MixInv, Untouched, OneAtATime, MixBegan, MixSeen,
         MixOff, Watching, Pending, Pressed, HostStays
    <2>3. MixBegan'
      BY <1>9, FirstPollDoes, Fields DEF MixInv, Untouched, OneAtATime, MixBegan, MixSeen,
         MixOff, Watching, Pending, Pressed, HostStays
    <2>4. MixSeen'
      BY <1>9, FirstPollDoes, Fields DEF MixInv, Untouched, OneAtATime, MixBegan, MixSeen,
         MixOff, Watching, Pending, Pressed, HostStays
    <2>5. MixOff'
      BY <1>9, FirstPollDoes, Fields DEF MixInv, Untouched, OneAtATime, MixBegan, MixSeen,
         MixOff, Watching, Pending, Pressed, HostStays
    <2> QED  BY <2>1, <2>2, <2>3, <2>4, <2>5 DEF MixInv
  <1>10. CASE Poll /\ panel_seen
    <2>1. Untouched'
      BY <1>10, NextPollDoes, Fields DEF MixInv, Untouched, OneAtATime, MixBegan, MixSeen,
         MixOff, Watching, Pending, Pressed, HostStays, MixBegins, MixEnds, LeftByUnit
    <2>2. OneAtATime'
      BY <1>10, NextPollDoes, Fields DEF MixInv, Untouched, OneAtATime, MixBegan, MixSeen,
         MixOff, Watching, Pending, Pressed, HostStays, MixBegins, MixEnds, LeftByUnit
    <2>3. MixBegan'
      BY <1>10, NextPollDoes, Fields DEF MixInv, Untouched, OneAtATime, MixBegan, MixSeen,
         MixOff, Watching, Pending, Pressed, HostStays, MixBegins, MixEnds, LeftByUnit
    <2>4. MixSeen'
      <3>1. CASE ~panel_mix
        BY <1>10, <3>1, NextPollDoes, Fields DEF MixInv, OneAtATime, MixSeen, Watching,
           Pending, Pressed, HostStays, MixBegins, MixEnds, LeftByUnit, MixOff
      <3>2. CASE panel_mix /\ ~panel_saw_fader
        BY <1>10, <3>2, NextPollDoes, Fields DEF MixInv, OneAtATime, MixSeen, Watching,
           Pending, Pressed, HostStays, MixBegins, MixEnds, LeftByUnit, MixBegan
      <3>3. CASE panel_mix /\ panel_saw_fader
        BY <1>10, <3>3, NextPollDoes, Fields DEF MixInv, OneAtATime, MixSeen, Watching,
           Pending, Pressed, HostStays, MixBegins, MixEnds, LeftByUnit
      <3> QED  BY <3>1, <3>2, <3>3
    <2>5. MixOff'
      <3>1. CASE ~panel_mix
        BY <1>10, <3>1, NextPollDoes, Fields DEF MixInv, OneAtATime, MixOff, Watching,
           Pending, Pressed, HostStays, MixBegins, MixEnds, LeftByUnit
      <3>2. CASE panel_mix /\ ~panel_saw_fader
        BY <1>10, <3>2, NextPollDoes, Fields DEF MixInv, OneAtATime, MixOff, Watching,
           Pending, Pressed, HostStays, MixBegins, MixEnds, LeftByUnit, MixBegan
      <3>3. CASE panel_mix /\ panel_saw_fader
        BY <1>10, <3>3, NextPollDoes, Fields DEF MixInv, OneAtATime, MixOff, Watching,
           Pending, Pressed, HostStays, MixBegins, MixEnds, LeftByUnit, MixSeen
      <3> QED  BY <3>1, <3>2, <3>3
    <2> QED  BY <2>1, <2>2, <2>3, <2>4, <2>5 DEF MixInv
  <1>11. CASE Restore
    <2>1. Untouched'
      <3>1. torestore # {} /\ life = "running" /\ life' = "running"
        BY <1>11, RestoreDoes
      <3> QED  BY <1>11, <3>1, RestoreDoes DEF MixInv, Untouched, Watching
    <2>2. OneAtATime'
      BY <1>11, RestoreDoes, Fields DEF MixInv, OneAtATime, Watching, Pending, Pressed,
         HostStays, DriverStays
    <2>3. MixBegan'
      BY <1>11, RestoreDoes, Fields DEF MixInv, MixBegan, Watching, Pending, Pressed,
         HostStays, DriverStays
    <2>4. MixSeen'
      BY <1>11, RestoreDoes, Fields DEF MixInv, MixSeen, Watching, Pending, Pressed,
         HostStays, DriverStays
    <2>5. MixOff'
      BY <1>11, RestoreDoes, Fields DEF MixInv, MixOff, Watching, Pending, Pressed,
         HostStays, DriverStays
    <2> QED  BY <2>1, <2>2, <2>3, <2>4, <2>5 DEF MixInv
  <1>12. CASE Tell
    <2>1. Untouched'
      BY <1>12, TellDoes, ReadyRunning, Fields DEF MixInv, Untouched, Watching, Pending,
         Pressed, HostStays, DriverStays
    <2>2. OneAtATime'
      BY <1>12, TellDoes, ReadyRunning, Fields DEF MixInv, OneAtATime, Watching, Pending,
         Pressed, HostStays, DriverStays
    <2>3. MixBegan'
      BY <1>12, TellDoes, ReadyRunning, Fields DEF MixInv, MixBegan, Watching, Pending,
         Pressed, HostStays, DriverStays
    <2>4. MixSeen'
      BY <1>12, TellDoes, ReadyRunning, Fields DEF MixInv, MixSeen, Watching, Pending,
         Pressed, HostStays, DriverStays
    <2>5. MixOff'
      BY <1>12, TellDoes, ReadyRunning, Fields DEF MixInv, MixOff, Watching, Pending,
         Pressed, HostStays, DriverStays
    <2> QED  BY <2>1, <2>2, <2>3, <2>4, <2>5 DEF MixInv
  <1>13. CASE FreshEnds
    <2>1. Untouched'
      BY <1>13, FreshEndsDoes, Fields DEF MixInv, Untouched, Watching, Pending, Pressed,
         HostStays, DriverStays
    <2>2. OneAtATime'
      BY <1>13, FreshEndsDoes, Fields DEF MixInv, OneAtATime, Watching, Pending, Pressed,
         HostStays, DriverStays
    <2>3. MixBegan'
      BY <1>13, FreshEndsDoes, Fields DEF MixInv, MixBegan, Watching, Pending, Pressed,
         HostStays, DriverStays
    <2>4. MixSeen'
      BY <1>13, FreshEndsDoes, Fields DEF MixInv, MixSeen, Watching, Pending, Pressed,
         HostStays, DriverStays
    <2>5. MixOff'
      BY <1>13, FreshEndsDoes, Fields DEF MixInv, MixOff, Watching, Pending, Pressed,
         HostStays, DriverStays
    <2> QED  BY <2>1, <2>2, <2>3, <2>4, <2>5 DEF MixInv
  <1>14. CASE AppPut
    <2>1. Untouched'
      BY <1>14, AppPutDoes, Fields DEF MixInv, Untouched, Watching, Pending, Pressed,
         HostStays, DriverStays
    <2>2. OneAtATime'
      BY <1>14, AppPutDoes, Fields DEF MixInv, OneAtATime, Watching, Pending, Pressed,
         HostStays, DriverStays
    <2>3. MixBegan'
      BY <1>14, AppPutDoes, Fields DEF MixInv, MixBegan, Watching, Pending, Pressed,
         HostStays, DriverStays
    <2>4. MixSeen'
      BY <1>14, AppPutDoes, Fields DEF MixInv, MixSeen, Watching, Pending, Pressed,
         HostStays, DriverStays
    <2>5. MixOff'
      BY <1>14, AppPutDoes, Fields DEF MixInv, MixOff, Watching, Pending, Pressed, HostStays,
         DriverStays
    <2> QED  BY <2>1, <2>2, <2>3, <2>4, <2>5 DEF MixInv
  <1>15. CASE Stop
    <2>1. Untouched'
      BY <1>15, StopDoes, ReadyRunning DEF MixInv, Untouched, Watching, DriverStays
    <2> QED  BY <1>15, StopDoes, <2>1 DEF MixInv, OneAtATime, MixBegan, MixSeen, MixOff,
       Watching
  <1>16. CASE Wake
    <2>1. Untouched'
      BY <1>16, WakeDoes DEF MixInv, Untouched, Watching
    <2> QED  BY <1>16, WakeDoes, <2>1 DEF MixInv, OneAtATime, MixBegan, MixSeen, MixOff,
       Watching
  <1>17. CASE Start
    <2>1. Untouched'
      BY <1>17, StartDoes DEF MixInv, Untouched, Watching
    <2> QED  BY <1>17, StartDoes, <2>1 DEF MixInv, OneAtATime, MixBegan, MixSeen, MixOff,
       Watching
  <1>18. CASE UNCHANGED vars
    BY <1>18 DEF vars, MixInv, Untouched, OneAtATime, MixBegan, MixSeen, MixOff, Watching,
       Pending, Pressed, unit_side, host, followed, mixing
  <1> QED
    BY <1>1, <1>2, <1>3, <1>4, <1>5, <1>6, <1>7, <1>8, <1>9, <1>10, <1>11, <1>12, <1>13,
       <1>14, <1>15, <1>16, <1>17, <1>18 DEF Next

----------------------------------------------------------------------------
\* While nothing is pressed, a poll finds what the driver has.
LEMMA StillFinds ==
    /\ ~Pressed("SELECT") => SelNow = panel_sel
    /\ (~Pressed("SELECT"))' => SelNow' = panel_sel'
    /\ ~Pressed("SET") => PhantomNow = phantom
    /\ (~Pressed("SET"))' => PhantomNow' = phantom'
  BY DEF SelNow, PhantomNow, Pressed


LEMMA PositionStep ==
    ASSUME TypeOK, MixInv, PositionFollowed, [Next]_vars
    PROVE  PositionFollowed'
  <1>1. CASE PressSelect
    BY <1>1, PressSelectDoes, ReadyRunning, ReadyUnbound, Fields DEF PositionFollowed,
       Watching, Pressed, MixInv, Untouched, OneAtATime, Pending, DriverStays, HostStays
  <1>2. CASE PressIn
    BY <1>2, PressInDoes, ReadyRunning, ReadyUnbound, Fields DEF PositionFollowed, Watching,
       Pressed, MixInv, Untouched, OneAtATime, Pending, DriverStays, HostStays
  <1>3. CASE PressOut
    BY <1>3, PressOutDoes, ReadyRunning, ReadyUnbound, Fields DEF PositionFollowed, Watching,
       Pressed, MixInv, Untouched, OneAtATime, Pending, DriverStays, HostStays
  <1>4. CASE PressSet
    BY <1>4, PressSetDoes, ReadyRunning, ReadyUnbound, Fields DEF PositionFollowed, Watching,
       Pressed, MixInv, Untouched, OneAtATime, Pending, DriverStays, HostStays
  <1>5. CASE PressMix
    BY <1>5, PressMixDoes, ReadyRunning, ReadyUnbound, Fields DEF PositionFollowed, Watching,
       Pressed, MixInv, Untouched, OneAtATime, Pending, DriverStays, HostStays
  <1>6. CASE Release
    BY <1>6, ReleaseDoes, Fields DEF PositionFollowed, Watching, Pressed, MixInv, Untouched,
       OneAtATime, Pending, Polled, DriverStays, HostStays
  <1>7. CASE ShowMode
    BY <1>7, ShowModeDoes, Fields DEF PositionFollowed, Watching, Pressed, MixInv, Untouched,
       OneAtATime, Pending, DriverStays, HostStays
  <1>8. CASE Turn
    BY <1>8, TurnDoes, Fields DEF PositionFollowed, Watching, Pressed, MixInv, Untouched,
       OneAtATime, Pending, Polled, DriverStays, HostStays
  <1>9. CASE Poll /\ ~panel_seen
    BY <1>9, FirstPollDoes, Fields DEF PositionFollowed, Watching, Pressed, MixInv,
       Untouched, OneAtATime, Pending, HostStays
  <1>10. CASE Poll /\ panel_seen
    BY <1>10, NextPollDoes, Fields DEF PositionFollowed, Watching, Pressed, MixInv,
       Untouched, OneAtATime, Pending, HostStays, InNow, MixBegins, MixEnds
  <1>11. CASE Restore
    BY <1>11, RestoreDoes, Fields DEF PositionFollowed, Watching, Pressed, MixInv, Untouched,
       OneAtATime, Pending
  <1>12. CASE Tell
    BY <1>12, TellDoes, ReadyRunning, Fields DEF PositionFollowed, Watching, Pressed, MixInv,
       Untouched, OneAtATime, Pending, HostStays
  <1>13. CASE FreshEnds
    BY <1>13, FreshEndsDoes, Fields DEF PositionFollowed, Watching, Pressed, MixInv,
       Untouched, OneAtATime, Pending, DriverStays
  <1>14. CASE AppPut
    BY <1>14, AppPutDoes, Fields DEF PositionFollowed, Watching, Pressed, MixInv, Untouched,
       OneAtATime, Pending, DriverStays, HostStays
  <1>15. CASE Stop
    BY <1>15, StopDoes, ReadyRunning, Fields DEF PositionFollowed, Watching, Pressed, MixInv,
       Untouched, OneAtATime, Pending, DriverStays
  <1>16. CASE Wake
    BY <1>16, WakeDoes, Fields DEF PositionFollowed, Watching, Pressed, MixInv, Untouched,
       OneAtATime, Pending
  <1>17. CASE Start
    BY <1>17, StartDoes, Fields DEF PositionFollowed, Watching, Pressed, MixInv, Untouched,
       OneAtATime, Pending
  <1>18. CASE UNCHANGED vars
    BY <1>18 DEF vars, unit_side, host, followed, mixing, audio, PositionFollowed, Watching,
       Pressed
  <1> QED
    BY <1>1, <1>2, <1>3, <1>4, <1>5, <1>6, <1>7, <1>8, <1>9, <1>10, <1>11, <1>12, <1>13,
       <1>14, <1>15, <1>16, <1>17, <1>18 DEF Next

----------------------------------------------------------------------------
\* A poll learns no selection.
LEMMA UnknownStays ==
    ASSUME TypeOK
    PROVE  /\ \A p \in Pairs : panel_sel[p] = NotKnown <=> SelNow[p] = NotKnown
           /\ AllUnknown => SelNow = panel_sel
  <1>1. panel_sel \in [Pairs -> -1..3]
    BY DEF TypeOK
  <1>2. CASE SelNow = panel_sel
    BY <1>2
  <1>3. CASE SelNow # panel_sel
    <2>1. /\ SelNow = [panel_sel EXCEPT ![InNow] = (@ + 1) % 4]
          /\ SelOf(panel_sel, InNow) # NotKnown
      BY <1>3 DEF SelNow
    <2>2. InNow \in Pairs /\ panel_sel[InNow] # NotKnown
      BY <2>1 DEF SelOf
    <2>3. (panel_sel[InNow] + 1) % 4 # NotKnown
      BY <1>1, <2>2 DEF NotKnown
    <2> QED  BY <1>1, <2>1, <2>2, <2>3 DEF AllUnknown
  <1> QED  BY <1>2, <1>3

\* Nothing is followed, and so nothing can go wrong, where no polls go on.
LEMMA Unfollowed ==
    (life' = "unbound") => SelInv'
  BY DEF SelInv, SelFollowed, Dark, ArmedFollowed, Watching


LEMMA SelStep ==
    ASSUME TypeOK, MixInv, PositionFollowed, SelInv, "blind" \notin Hasty, [Next]_vars
    PROVE  SelInv'
  <1>1. CASE PressSelect
    <2>1. CASE life # "running"
      BY <1>1, <2>1, PressSelectDoes, ReadyUnbound, Unfollowed DEF HostStays
    <2>2. CASE life = "running"
      <3>1. /\ panel_in = unit.in /\ InNow = unit.in /\ InNow' = unit.in /\ unit.in \in Pairs
            /\ panel_in' = panel_in /\ panel_sel' = panel_sel
            /\ (panel_select_armed' <=> panel_select_armed) /\ Watching
        BY <1>1, <2>2, PressSelectDoes, ReadyRunning, Fields
           DEF PositionFollowed, Pressed, InNow, DriverStays
      <3>2. SelNow = panel_sel /\ ~Pressed("SELECT") /\ Pressed("SELECT")'
        BY <1>1, <2>2, PressSelectDoes, ReadyRunning, StillFinds DEF Pressed, DriverStays
      <3>3. \A p \in Pairs : panel_sel[p] # NotKnown => panel_sel[p] = unit.sel[p]
        BY <3>1, <3>2 DEF SelInv, SelFollowed
      <3>4. panel_sel[unit.in] # NotKnown => (unit.lit <=> panel_select_armed)
        BY <3>1, <3>2, Fields DEF SelInv, ArmedFollowed, ArmedNow, SelOf
      <3>5. SelNow' = IF panel_sel[unit.in] # NotKnown /\ panel_select_armed
                      THEN [panel_sel EXCEPT ![unit.in] = (@ + 1) % 4] ELSE panel_sel
        BY <3>1, <3>2 DEF SelNow, ArmedNow, SelOf
      <3>6. SelFollowed'
        <4>1. panel_sel \in [Pairs -> -1..3] /\ unit.sel \in [Pairs -> 0..3]
          BY Fields DEF TypeOK
        <4>2. \A p \in Pairs : SelNow'[p] # NotKnown => SelNow'[p] = unit'.sel[p]
          BY <1>1, <3>1, <3>3, <3>4, <3>5, <4>1, PressSelectDoes
        <4>3. torestore' = {} /\ life' = "running" /\ panel_seen'
          BY <1>1, <2>2, PressSelectDoes, ReadyRunning DEF HostStays, DriverStays
        <4> QED  BY <4>2, <4>3 DEF SelFollowed
      <3>7. Dark'
        BY <1>1, <2>2, <3>1, PressSelectDoes, ReadyRunning, PanelAssumption
           DEF Dark, HostStays, DriverStays
      <3>8. ArmedFollowed'
        BY <1>1, <3>2, PressSelectDoes DEF ArmedFollowed
      <3> QED  BY <3>6, <3>7, <3>8 DEF SelInv
    <2> QED  BY <2>1, <2>2
  <1>2. CASE PressIn
    <2>1. CASE life # "running"
      BY <1>2, <2>1, PressInDoes, ReadyUnbound, Unfollowed DEF HostStays
    <2>2. CASE life = "running"
      <3>1. panel_sel' = panel_sel /\ SelNow = panel_sel
        BY <1>2, <2>2, PressInDoes, ReadyRunning, StillFinds DEF Pressed, DriverStays
      <3>2. SelNow' = panel_sel'
        BY <1>2, <2>2, PressInDoes, ReadyRunning, StillFinds DEF Pressed, DriverStays
      <3>3. SelFollowed'
        BY <1>2, <2>2, <3>1, <3>2, PressInDoes, ReadyRunning DEF SelInv, SelFollowed,
           Watching, HostStays, DriverStays
      <3>4. Dark'
        BY <1>2, <2>2, <3>1, PressInDoes, ReadyRunning, Fields DEF SelInv, Dark, AllUnknown,
           HostStays, DriverStays
      <3>5. ArmedFollowed'
        BY <1>2, <2>2, <3>1, PressInDoes, ReadyRunning, Fields DEF SelInv, SelFollowed, Dark,
           ArmedFollowed, Watching, InNow, ArmedNow, SelOf, AllUnknown, PositionFollowed,
           Pressed, HostStays, DriverStays
      <3> QED  BY <3>3, <3>4, <3>5 DEF SelInv
    <2> QED  BY <2>1, <2>2
  <1>3. CASE PressOut
    <2>1. CASE life # "running"
      BY <1>3, <2>1, PressOutDoes, ReadyUnbound, Unfollowed DEF HostStays
    <2>2. CASE life = "running"
      <3>1. panel_sel' = panel_sel /\ SelNow = panel_sel
        BY <1>3, <2>2, PressOutDoes, ReadyRunning, StillFinds DEF Pressed, DriverStays
      <3>2. SelNow' = panel_sel'
        BY <1>3, <2>2, PressOutDoes, ReadyRunning, StillFinds DEF Pressed, DriverStays
      <3>3. SelFollowed'
        BY <1>3, <2>2, <3>1, <3>2, PressOutDoes, ReadyRunning DEF SelInv, SelFollowed,
           Watching, HostStays, DriverStays
      <3>4. Dark'
        BY <1>3, <2>2, <3>1, PressOutDoes, ReadyRunning, Fields DEF SelInv, Dark, AllUnknown,
           HostStays, DriverStays
      <3>5. ArmedFollowed'
        BY <1>3, <2>2, <3>1, PressOutDoes, ReadyRunning, Fields DEF SelInv, SelFollowed,
           Dark, ArmedFollowed, Watching, InNow, ArmedNow, SelOf, AllUnknown,
           PositionFollowed, Pressed, HostStays, DriverStays
      <3> QED  BY <3>3, <3>4, <3>5 DEF SelInv
    <2> QED  BY <2>1, <2>2
  <1>4. CASE PressSet
    <2>1. CASE life # "running"
      BY <1>4, <2>1, PressSetDoes, ReadyUnbound, Unfollowed DEF HostStays
    <2>2. CASE life = "running"
      <3>1. panel_sel' = panel_sel /\ SelNow = panel_sel
        BY <1>4, <2>2, PressSetDoes, ReadyRunning, StillFinds DEF Pressed, DriverStays
      <3>2. SelNow' = panel_sel'
        BY <1>4, <2>2, PressSetDoes, ReadyRunning, StillFinds DEF Pressed, DriverStays
      <3>3. SelFollowed'
        BY <1>4, <2>2, <3>1, <3>2, PressSetDoes, ReadyRunning DEF SelInv, SelFollowed,
           Watching, HostStays, DriverStays
      <3>4. Dark'
        BY <1>4, <2>2, <3>1, PressSetDoes, ReadyRunning, Fields DEF SelInv, Dark, AllUnknown,
           HostStays, DriverStays
      <3>5. ArmedFollowed'
        BY <1>4, <2>2, <3>1, PressSetDoes, ReadyRunning, Fields DEF SelInv, SelFollowed,
           Dark, ArmedFollowed, Watching, InNow, ArmedNow, SelOf, AllUnknown,
           PositionFollowed, Pressed, HostStays, DriverStays
      <3> QED  BY <3>3, <3>4, <3>5 DEF SelInv
    <2> QED  BY <2>1, <2>2
  <1>5. CASE PressMix
    <2>1. CASE life # "running"
      BY <1>5, <2>1, PressMixDoes, ReadyUnbound, Unfollowed DEF HostStays
    <2>2. CASE life = "running"
      <3>1. panel_sel' = panel_sel /\ SelNow = panel_sel
        BY <1>5, <2>2, PressMixDoes, ReadyRunning, StillFinds DEF Pressed, DriverStays
      <3>2. SelNow' = panel_sel'
        BY <1>5, <2>2, PressMixDoes, ReadyRunning, StillFinds DEF Pressed, DriverStays
      <3>3. SelFollowed'
        BY <1>5, <2>2, <3>1, <3>2, PressMixDoes, ReadyRunning DEF SelInv, SelFollowed,
           Watching, HostStays, DriverStays
      <3>4. Dark'
        BY <1>5, <2>2, <3>1, PressMixDoes, ReadyRunning, Fields DEF SelInv, Dark, AllUnknown,
           HostStays, DriverStays
      <3>5. ArmedFollowed'
        BY <1>5, <2>2, <3>1, PressMixDoes, ReadyRunning, Fields DEF SelInv, SelFollowed,
           Dark, ArmedFollowed, Watching, InNow, ArmedNow, SelOf, AllUnknown,
           PositionFollowed, Pressed, HostStays, DriverStays
      <3> QED  BY <3>3, <3>4, <3>5 DEF SelInv
    <2> QED  BY <2>1, <2>2
  <1>6. CASE Release
    <2>1. CASE life # "running"
      BY <1>6, <2>1, ReleaseDoes, Unfollowed DEF MixInv, Untouched, TypeOK, HostStays
    <2>2. CASE life = "running"
      <3>1. panel_sel' = panel_sel /\ SelNow = panel_sel /\ SelNow' = panel_sel'
        BY <1>6, <2>2, ReleaseDoes, StillFinds DEF Pressed, Polled, DriverStays
      <3>2. SelFollowed'
        BY <1>6, <2>2, <3>1, ReleaseDoes DEF SelInv, SelFollowed, Watching, HostStays,
           DriverStays
      <3>3. Dark'
        BY <1>6, <2>2, <3>1, ReleaseDoes DEF SelInv, Dark, AllUnknown, HostStays, DriverStays
      <3>4. ArmedFollowed'
        BY <1>6, <2>2, <3>1, ReleaseDoes DEF SelInv, SelFollowed, Dark, ArmedFollowed,
           Watching, InNow, ArmedNow, SelOf, AllUnknown, PositionFollowed, Pressed,
           HostStays, DriverStays, Polled
      <3> QED  BY <3>2, <3>3, <3>4 DEF SelInv
    <2> QED  BY <2>1, <2>2
  <1>7. CASE ShowMode
    <2>1. Watching /\ ~Pending
      BY <1>7, ShowModeDoes DEF MixInv, Untouched, OneAtATime, Watching
    <2>2. panel_sel' = panel_sel /\ SelNow = panel_sel /\ SelNow' = panel_sel'
      BY <1>7, <2>1, ShowModeDoes, StillFinds DEF Pressed, Pending, DriverStays
    <2>3. SelFollowed'
      BY <1>7, <2>1, <2>2, ShowModeDoes DEF SelInv, SelFollowed, Watching, HostStays,
         DriverStays
    <2>4. Dark'
      BY <1>7, <2>1, <2>2, ShowModeDoes DEF SelInv, Dark, AllUnknown, HostStays, DriverStays
    <2>5. ArmedFollowed'
      BY <1>7, <2>1, <2>2, ShowModeDoes, Fields DEF SelInv, SelFollowed, Dark, ArmedFollowed,
         Watching, InNow, ArmedNow, SelOf, AllUnknown, PositionFollowed, Pressed, Pending,
         HostStays, DriverStays
    <2> QED  BY <2>3, <2>4, <2>5 DEF SelInv
  <1>8. CASE Turn
    <2>1. panel_sel' = panel_sel /\ SelNow = panel_sel /\ SelNow' = panel_sel'
      BY <1>8, TurnDoes, StillFinds DEF Pressed, Polled, DriverStays
    <2>2. SelFollowed'
      BY <1>8, <2>1, TurnDoes DEF SelInv, SelFollowed, Watching, HostStays, DriverStays
    <2>3. Dark'
      BY <1>8, <2>1, TurnDoes DEF SelInv, Dark, AllUnknown, HostStays, DriverStays
    <2>4. ArmedFollowed'
      <3>1. InNow' = InNow /\ ArmedNow' = ArmedNow /\ Watching' = Watching
        BY <1>8, TurnDoes DEF InNow, ArmedNow, Watching, HostStays, DriverStays
      <3>2. SelOf(panel_sel', InNow') = SelOf(panel_sel, InNow)
        BY <2>1, <3>1
      <3>3. Pressed("SELECT")' = Pressed("SELECT") /\ unit'.in = unit.in /\ unit'.lit = unit.lit
        BY <1>8, TurnDoes DEF Pressed, DriverStays
      <3>4. ArmedFollowed
        BY DEF SelInv
      <3> HIDE DEF InNow, ArmedNow, Watching, SelOf
      <3> QED  BY <3>1, <3>2, <3>3, <3>4 DEF ArmedFollowed
    <2> QED  BY <2>2, <2>3, <2>4 DEF SelInv
  <1>9. CASE Poll /\ ~panel_seen
    <2>1. SelNow' = panel_sel' /\ ~Pressed("SELECT")'
      BY <1>9, FirstPollDoes, Fields, StillFinds DEF Pressed
    <2>2. SelFollowed'
      BY <1>9, <2>1, FirstPollDoes DEF SelInv, SelFollowed, Watching, HostStays
    <2>3. Dark'
      BY <1>9, FirstPollDoes DEF SelInv, Dark, AllUnknown, HostStays
    <2>4. ArmedFollowed'
      BY <1>9, <2>1, FirstPollDoes DEF SelInv, Dark, AllUnknown, ArmedFollowed, ArmedNow,
         SelOf
    <2> QED  BY <2>2, <2>3, <2>4 DEF SelInv
  <1>10. CASE Poll /\ panel_seen
    <2>1. SelNow' = panel_sel' /\ ~Pressed("SELECT")'
      BY <1>10, NextPollDoes, Fields, StillFinds DEF Pressed
    <2>2. SelFollowed'
      BY <1>10, <2>1, NextPollDoes DEF SelInv, SelFollowed, Watching, HostStays
    <2>3. Dark'
      <3>1. panel_in' = 0 => panel_in = 0 /\ unit.mode # "in"
        BY <1>10, NextPollDoes, Fields, PanelAssumption DEF InNow
      <3>2. AllUnknown => AllUnknown'
        BY <1>10, NextPollDoes, UnknownStays DEF AllUnknown
      <3>3. torestore # {} => ~panel_select_armed /\ ~Pressed("SELECT")
        BY <1>10, NextPollDoes DEF SelInv, Dark, MixInv, Untouched, Watching, Pressed
      <3> QED  BY <1>10, <3>1, <3>2, <3>3, NextPollDoes DEF SelInv, Dark, HostStays, ArmedNow
    <2>4. ArmedFollowed'
      <3>1. InNow' = InNow /\ panel_in' = InNow
        BY <1>10, NextPollDoes DEF InNow
      <3>2. SelOf(SelNow, InNow) # NotKnown <=> SelOf(panel_sel, InNow) # NotKnown
        BY UnknownStays DEF SelOf
      <3> QED
        BY <1>10, <2>1, <3>1, <3>2, NextPollDoes DEF SelInv, ArmedFollowed, ArmedNow, Watching
    <2> QED  BY <2>2, <2>3, <2>4 DEF SelInv
  <1>11. CASE Restore
    <2>1. torestore # {} /\ life = "running" /\ life' = "running" /\ (panel_seen <=> panel_seen')
      <3>1. torestore # {}
        BY <1>11, RestoreDoes
      <3>2. life = "running" /\ life' = life /\ panel_seen' = panel_seen
        BY <1>11, RestoreDoes
      <3> QED  BY <3>1, <3>2
    <2>2. ~panel_select_armed /\ ~panel_select_armed'
      BY <1>11, <2>1, RestoreDoes DEF SelInv, Dark
    <2>3. panel_seen => SelNow = panel_sel /\ SelNow' = panel_sel' /\ ~Pressed("SELECT")'
      BY <1>11, <2>1, RestoreDoes, StillFinds DEF MixInv, Untouched, Watching, Pressed
    <2>4. \A p \in Pairs : panel_sel[p] # NotKnown => panel_sel[p] = unit.sel[p]
      BY <2>1, <2>3 DEF SelInv, SelFollowed, Watching, TypeOK
    <2>5. \A p \in Pairs : panel_sel'[p] # NotKnown => panel_sel'[p] = unit'.sel[p]
      <3>1. CASE reprobe
        BY <1>11, <2>4, <3>1, RestoreDoes
      <3>2. CASE ~reprobe
        <4>1. \A p \in Pairs : stored[p] # NotKnown => stored[p] = unit.sel[p]
          BY <2>1, <3>2 DEF SelInv, SelFollowed
        <4>2. PICK pair \in Pairs : panel_sel' = [panel_sel EXCEPT ![pair] = stored[pair]]
          BY <1>11, <3>2, RestoreDoes
        <4>3. unit' = unit /\ panel_sel \in [Pairs -> -1..3]
          BY <1>11, RestoreDoes DEF TypeOK
        <4> QED  BY <2>4, <4>1, <4>2, <4>3
      <3> QED  BY <3>1, <3>2
    <2>6. SelFollowed'
      BY <1>11, <2>1, <2>3, <2>5, RestoreDoes DEF SelInv, SelFollowed, Watching
    <2>7. Dark'
      <3>1. ~unit.lit \/ (reprobe /\ AllUnknown)
        BY <2>1 DEF SelInv, Dark
      <3> QED  BY <1>11, <2>2, <3>1, RestoreDoes DEF Dark, AllUnknown
    <2>8. ArmedFollowed'
      <3>1. ~unit.lit \/ (reprobe /\ AllUnknown)
        BY <2>1 DEF SelInv, Dark
      <3>2. SelOf(panel_sel', InNow') # NotKnown /\ reprobe => ~AllUnknown
        BY <1>11, RestoreDoes DEF SelOf, AllUnknown
      <3>3. SelOf(panel_sel', InNow') # NotKnown => ~unit'.lit
        BY <1>11, <3>1, <3>2, RestoreDoes, Fields
      <3>4. ~ArmedNow' /\ (panel_seen' => ~Pressed("SELECT")')
        BY <2>1, <2>2, <2>3 DEF ArmedNow
      <3>5. unit'.lit \in BOOLEAN
        BY <1>11, RestoreDoes, Fields
      <3> QED  BY <3>3, <3>4, <3>5 DEF ArmedFollowed, Watching
    <2> QED  BY <2>6, <2>7, <2>8 DEF SelInv
  <1>12. CASE Tell
    <2>1. /\ SelNow = panel_sel /\ SelNow' = panel_sel' /\ panel_in = unit.in /\ unit.in \in Pairs
          /\ Watching
      BY <1>12, TellDoes, ReadyRunning, StillFinds, Fields DEF Pressed
    <2>2. SelFollowed'
      <3>1. \A p \in Pairs : panel_sel[p] # NotKnown => panel_sel[p] = unit.sel[p]
        BY <2>1 DEF SelInv, SelFollowed
      <3>2. \A p \in Pairs : panel_sel'[p] # NotKnown => panel_sel'[p] = unit'.sel[p]
        BY <1>12, <2>1, <3>1, TellDoes DEF TypeOK
      <3>3. torestore' = {} /\ life' = "running" /\ panel_seen'
        BY <1>12, <2>1, TellDoes, ReadyRunning DEF HostStays
      <3> QED  BY <2>1, <3>2, <3>3 DEF SelFollowed
    <2>3. Dark'
      BY <1>12, <2>1, TellDoes, ReadyRunning, PanelAssumption DEF Dark, HostStays
    <2>4. ArmedFollowed'
      <3>1. InNow' = panel_in' /\ panel_select_armed'
        BY <1>12, <2>1, TellDoes, ReadyRunning DEF InNow
      <3> QED  BY <1>12, <3>1, TellDoes, Fields DEF ArmedFollowed, ArmedNow
    <2> QED  BY <2>2, <2>3, <2>4 DEF SelInv
  <1>13. CASE FreshEnds
    <2>1. panel_sel' = panel_sel /\ SelNow' = SelNow
      BY <1>13, FreshEndsDoes DEF SelNow, Pressed, InNow, ArmedNow, DriverStays
    <2>2. SelFollowed'
      BY <1>13, <2>1, FreshEndsDoes DEF SelInv, SelFollowed, Watching, HostStays, DriverStays
    <2>3. Dark'
      BY <1>13, <2>1, FreshEndsDoes DEF SelInv, Dark, AllUnknown, HostStays, DriverStays
    <2>4. ArmedFollowed'
      BY <1>13, <2>1, FreshEndsDoes DEF SelInv, ArmedFollowed, ArmedNow, InNow, Pressed,
         Watching, HostStays, DriverStays
    <2> QED  BY <2>2, <2>3, <2>4 DEF SelInv
  <1>14. CASE AppPut
    <2>1. panel_sel' = panel_sel /\ SelNow' = SelNow
      BY <1>14, AppPutDoes DEF SelNow, Pressed, InNow, ArmedNow, DriverStays
    <2>2. SelFollowed'
      BY <1>14, <2>1, AppPutDoes DEF SelInv, SelFollowed, Watching, HostStays, DriverStays
    <2>3. Dark'
      BY <1>14, <2>1, AppPutDoes DEF SelInv, Dark, AllUnknown, HostStays, DriverStays
    <2>4. ArmedFollowed'
      BY <1>14, <2>1, AppPutDoes DEF SelInv, ArmedFollowed, ArmedNow, InNow, Pressed,
         Watching, HostStays, DriverStays
    <2> QED  BY <2>2, <2>3, <2>4 DEF SelInv
  <1>15. CASE Stop
    <2>1. SelNow = panel_sel /\ panel_sel' = panel_sel /\ Watching /\ torestore = {}
      BY <1>15, StopDoes, ReadyRunning, StillFinds DEF Pressed, DriverStays
    <2> QED
      BY <1>15, <2>1, StopDoes DEF SelInv, SelFollowed, Dark, ArmedFollowed, Watching
  <1>16. CASE Wake
    <2>1. torestore' = {} /\ ~panel_seen'
      BY <1>16, WakeDoes DEF MixInv, Untouched
    <2> QED
      BY <1>16, <2>1, WakeDoes DEF SelInv, SelFollowed, Dark, ArmedFollowed, Watching
  <1>17. CASE Start
    <2>1. ~panel_seen' /\ AllUnknown'
      BY <1>17, StartDoes DEF AllUnknown
    <2>2. SelFollowed'
      BY <1>17, <2>1, StartDoes DEF SelInv, SelFollowed, Watching, AllUnknown
    <2>3. Dark'
      BY <1>17, <2>1, StartDoes DEF Dark
    <2>4. ArmedFollowed'
      BY <2>1 DEF ArmedFollowed, Watching
    <2> QED  BY <2>2, <2>3, <2>4 DEF SelInv
  <1>18. CASE UNCHANGED vars
    <2>1. SelNow' = SelNow
      BY <1>18 DEF vars, unit_side, host, followed, mixing, audio, SelNow, Pressed, InNow,
         ArmedNow
    <2> QED  BY <1>18, <2>1 DEF vars, unit_side, host, followed, mixing, audio, SelInv,
       SelFollowed, Dark, ArmedFollowed, AllUnknown,
                ArmedNow, InNow, Pressed, Watching
  <1> QED
    BY <1>1, <1>2, <1>3, <1>4, <1>5, <1>6, <1>7, <1>8, <1>9, <1>10, <1>11, <1>12, <1>13,
       <1>14, <1>15, <1>16, <1>17, <1>18 DEF Next

----------------------------------------------------------------------------
\* Phantom power.

LEMMA PhantomStep ==
    ASSUME TypeOK, MixInv, PositionFollowed, SelInv, PhantomFollowed, [Next]_vars
    PROVE  PhantomFollowed'
  <1>1. CASE PressSelect
    <2>1. phantom' = phantom /\ meant'.phantom = meant.phantom
      BY <1>1, PressSelectDoes DEF AudioStays
    <2>2. Watching => PhantomNow = phantom
      BY <1>1, PressSelectDoes, ReadyRunning, StillFinds DEF Pressed, Watching
    <2>3. Watching' => PhantomNow' = phantom'
      BY <1>1, PressSelectDoes, StillFinds DEF Pressed
    <2> QED  BY <2>1, <2>2, <2>3 DEF PhantomFollowed
  <1>2. CASE PressIn
    <2>1. phantom' = phantom /\ meant'.phantom = meant.phantom
      BY <1>2, PressInDoes DEF AudioStays
    <2>2. Watching => PhantomNow = phantom
      BY <1>2, PressInDoes, ReadyRunning, StillFinds DEF Pressed, Watching
    <2>3. Watching' => PhantomNow' = phantom'
      BY <1>2, PressInDoes, StillFinds DEF Pressed
    <2> QED  BY <2>1, <2>2, <2>3 DEF PhantomFollowed
  <1>3. CASE PressOut
    <2>1. phantom' = phantom /\ meant'.phantom = meant.phantom
      BY <1>3, PressOutDoes DEF AudioStays
    <2>2. Watching => PhantomNow = phantom
      BY <1>3, PressOutDoes, ReadyRunning, StillFinds DEF Pressed, Watching
    <2>3. Watching' => PhantomNow' = phantom'
      BY <1>3, PressOutDoes, StillFinds DEF Pressed
    <2> QED  BY <2>1, <2>2, <2>3 DEF PhantomFollowed
  <1>4. CASE PressSet
    <2>1. /\ PhantomNow = phantom /\ SelNow = panel_sel /\ Watching /\ Watching'
          /\ phantom' = phantom /\ panel_in' = panel_in /\ panel_mix' = panel_mix
          /\ (panel_mix <=> unit.mode = "fader") /\ (unit.mode = "in" => panel_in = unit.in)
      BY <1>4, PressSetDoes, ReadyRunning, StillFinds
         DEF Pressed, Watching, HostStays, DriverStays, AudioStays
    <2>2. SelNow' = panel_sel /\ Pressed("SET")'
      <3>1. ~Pressed("SELECT")' /\ Pressed("SET")' /\ panel_sel' = panel_sel
        BY <1>4, PressSetDoes, ReadyRunning DEF Pressed, DriverStays
      <3> QED  BY <3>1, StillFinds
    <2>3. meant.phantom = phantom
      BY <2>1 DEF PhantomFollowed
    <2>4. PhantomNow' = IF ~panel_mix' /\ InNow' = 1
                        THEN SetPhantom(phantom, ChosenMics(1, panel_sel[1])) ELSE phantom
      BY <2>1, <2>2 DEF PhantomNow
    <2>5. CASE unit.mode = "fader"
      BY <1>4, <2>1, <2>3, <2>4, <2>5, PressSetDoes DEF PhantomFollowed
    <2>6. CASE unit.mode # "fader"
      <3>1. InNow' = panel_in
        BY <1>4, <2>1, <2>6, PressSetDoes DEF InNow
      <3>2. panel_in = 1 => unit.in = 1
        BY <1>4, <2>1, PressSetDoes, ReadyRunning DEF PositionFollowed, Pressed, Watching
      <3>3. panel_sel[1] # NotKnown => panel_sel[1] = unit.sel[1]
        BY <2>1, PanelAssumption DEF SelInv, SelFollowed
      <3>4. panel_sel[1] = NotKnown => SetPhantom(phantom, ChosenMics(1,
         panel_sel[1])) = phantom
        BY DEF SetPhantom, ChosenMics, Chosen, NotKnown, Left, Right, Both
      <3> QED
        BY <1>4, <2>1, <2>3, <2>4, <2>6, <3>1, <3>2, <3>3, <3>4,
           PressSetDoes DEF PhantomFollowed
    <2> QED  BY <2>5, <2>6
  <1>5. CASE PressMix
    <2>1. phantom' = phantom /\ meant'.phantom = meant.phantom
      BY <1>5, PressMixDoes DEF AudioStays
    <2>2. Watching => PhantomNow = phantom
      BY <1>5, PressMixDoes, ReadyRunning, StillFinds DEF Pressed, Watching
    <2>3. Watching' => PhantomNow' = phantom'
      BY <1>5, PressMixDoes, StillFinds DEF Pressed
    <2> QED  BY <2>1, <2>2, <2>3 DEF PhantomFollowed
  <1>6. CASE Release
    <2>1. phantom' = phantom /\ meant'.phantom = meant.phantom
      BY <1>6, ReleaseDoes DEF AudioStays
    <2>2. Watching => PhantomNow = phantom
      BY <1>6, ReleaseDoes, StillFinds DEF Pressed, Polled, Watching
    <2>3. Watching' => PhantomNow' = phantom'
      BY <1>6, ReleaseDoes, StillFinds DEF Pressed
    <2> QED  BY <2>1, <2>2, <2>3 DEF PhantomFollowed
  <1>7. CASE ShowMode
    <2>1. phantom' = phantom /\ meant'.phantom = meant.phantom
      BY <1>7, ShowModeDoes DEF AudioStays
    <2>2. Watching => PhantomNow = phantom
      BY <1>7, ShowModeDoes, StillFinds DEF Pressed, MixInv, OneAtATime, Pending
    <2>3. Watching' => PhantomNow' = phantom'
      BY <1>7, ShowModeDoes, StillFinds DEF Pressed, MixInv, OneAtATime, Pending, Watching,
         HostStays, DriverStays
    <2> QED  BY <2>1, <2>2, <2>3 DEF PhantomFollowed
  <1>8. CASE Turn
    <2>1. phantom' = phantom /\ meant'.phantom = meant.phantom
      BY <1>8, TurnDoes DEF AudioStays
    <2>2. Watching => PhantomNow = phantom
      BY <1>8, TurnDoes, StillFinds DEF Pressed, Polled
    <2>3. Watching' => PhantomNow' = phantom'
      BY <1>8, TurnDoes, StillFinds DEF Pressed, Polled, DriverStays
    <2> QED  BY <2>1, <2>2, <2>3 DEF PhantomFollowed
  <1>9. CASE Poll /\ ~panel_seen
    <2>1. phantom' = phantom /\ meant'.phantom = meant.phantom
      BY <1>9, FirstPollDoes DEF AudioStays
    <2>2. Watching => PhantomNow = phantom
      BY <1>9 DEF Watching
    <2>3. Watching' => PhantomNow' = phantom'
      BY <1>9, FirstPollDoes, StillFinds, Fields DEF Pressed
    <2> QED  BY <2>1, <2>2, <2>3 DEF PhantomFollowed
  <1>10. CASE Poll /\ panel_seen
    <2>1. PhantomNow' = phantom' /\ phantom' = PhantomNow /\ meant' = meant
      BY <1>10, NextPollDoes, StillFinds, Fields DEF Pressed
    <2> QED  BY <1>10, <2>1, NextPollDoes DEF PhantomFollowed, Watching
  <1>11. CASE Restore
    <2>1. phantom' = phantom /\ meant'.phantom = meant.phantom
      BY <1>11, RestoreDoes DEF AudioStays
    <2>2. Watching => PhantomNow = phantom
      <3>1. torestore # {}
        BY <1>11, RestoreDoes
      <3> QED  BY <3>1, StillFinds DEF Pressed, MixInv, Untouched, Watching
    <2>3. Watching' => PhantomNow' = phantom'
      <3>1. torestore # {} /\ unit' = unit /\ panel_prev' = panel_prev
        BY <1>11, RestoreDoes
      <3>2. life' = life /\ panel_seen' = panel_seen
        BY <1>11, RestoreDoes
      <3> QED  BY <3>1, <3>2, StillFinds DEF Pressed, MixInv, Untouched, Watching
    <2> QED  BY <2>1, <2>2, <2>3 DEF PhantomFollowed
  <1>12. CASE Tell
    <2>1. phantom' = phantom /\ meant'.phantom = meant.phantom
      BY <1>12, TellDoes DEF AudioStays
    <2>2. Watching => PhantomNow = phantom
      BY <1>12, TellDoes, ReadyRunning, StillFinds DEF Pressed
    <2>3. Watching' => PhantomNow' = phantom'
      BY <1>12, TellDoes, ReadyRunning, StillFinds DEF Pressed
    <2> QED  BY <2>1, <2>2, <2>3 DEF PhantomFollowed
  <1>13. CASE FreshEnds
    <2>1. phantom' = phantom /\ meant' = meant /\ PhantomNow' = PhantomNow
      BY <1>13, FreshEndsDoes DEF PhantomNow, SelNow, Pressed, InNow, ArmedNow, AudioStays,
         DriverStays
    <2>2. Watching' <=> Watching
      BY <1>13, FreshEndsDoes DEF Watching, HostStays, DriverStays
    <2> QED  BY <2>1, <2>2 DEF PhantomFollowed
  <1>14. CASE AppPut
    <2>1. phantom' = phantom /\ meant' = meant /\ PhantomNow' = PhantomNow
      BY <1>14, AppPutDoes DEF PhantomNow, SelNow, Pressed, InNow, ArmedNow, AudioStays,
         DriverStays
    <2>2. Watching' <=> Watching
      BY <1>14, AppPutDoes DEF Watching, HostStays, DriverStays
    <2> QED  BY <2>1, <2>2 DEF PhantomFollowed
  <1>15. CASE Stop
    <2>1. phantom' = phantom /\ meant'.phantom = meant.phantom
      BY <1>15, StopDoes DEF AudioStays
    <2>2. Watching => PhantomNow = phantom
      BY <1>15, StopDoes, ReadyRunning, StillFinds DEF Pressed
    <2>3. Watching' => PhantomNow' = phantom'
      BY <1>15, StopDoes DEF Watching
    <2> QED  BY <2>1, <2>2, <2>3 DEF PhantomFollowed
  <1>16. CASE Wake
    <2>1. phantom' = phantom /\ meant'.phantom = meant.phantom
      BY <1>16, WakeDoes DEF AudioStays
    <2>2. Watching => PhantomNow = phantom
      BY <1>16, WakeDoes DEF Watching
    <2>3. Watching' => PhantomNow' = phantom'
      BY <1>16, WakeDoes DEF Watching
    <2> QED  BY <2>1, <2>2, <2>3 DEF PhantomFollowed
  <1>17. CASE Start
    <2>1. phantom' = phantom /\ meant'.phantom = meant.phantom
      BY <1>17, StartDoes DEF AudioStays
    <2>2. Watching => PhantomNow = phantom
      BY <1>17, StartDoes DEF Watching
    <2>3. Watching' => PhantomNow' = phantom'
      BY <1>17, StartDoes DEF Watching
    <2> QED  BY <2>1, <2>2, <2>3 DEF PhantomFollowed
  <1>18. CASE UNCHANGED vars
    <2>1. PhantomNow' = PhantomNow
      BY <1>18 DEF vars, unit_side, host, followed, mixing, audio, PhantomNow, SelNow,
         Pressed, InNow, ArmedNow
    <2> QED  BY <1>18, <2>1 DEF vars, unit_side, host, followed, mixing, audio,
       PhantomFollowed, Watching
  <1> QED
    BY <1>1, <1>2, <1>3, <1>4, <1>5, <1>6, <1>7, <1>8, <1>9, <1>10, <1>11, <1>12, <1>13,
       <1>14, <1>15, <1>16, <1>17, <1>18 DEF Next

----------------------------------------------------------------------------
\* A quotient and a remainder are determined by x = n * q + r.
LEMMA RemainderIsUnique ==
    ASSUME NEW n \in Nat \ {0}, NEW q \in Int, NEW r \in 0..(n - 1),
           NEW x \in Int, x = n * q + r
    PROVE  x % n = r
  <1>1. x \div n = q
    BY SMTT(30)
  <1> QED  BY SMTT(30)

\* The readback tells by how far the wheel was turned.
LEMMA DeltaOfTurn ==
    ASSUME NEW w \in 0..(WheelSize - 1), NEW d \in Clicks
    PROVE  Delta((w + d + WheelSize) % WheelSize, w) = d
  <1>1. /\ WheelSize \in Nat \ {0} /\ d \in Int /\ w \in Int
        /\ 2 * d < WheelSize /\ -WheelSize < 2 * d
    BY PanelAssumption
  <1>2. CASE w + d < 0
    <2>1. (w + d + WheelSize) % WheelSize = w + d + WheelSize
      BY <1>1, <1>2, RemainderIsUnique,
         w + d + WheelSize = WheelSize * 0 + (w + d + WheelSize)
    <2> QED  BY <1>1, <2>1 DEF Delta
  <1>3. CASE 0 <= w + d /\ w + d < WheelSize
    <2>1. (w + d + WheelSize) % WheelSize = w + d
      BY <1>1, <1>3, RemainderIsUnique, w + d + WheelSize = WheelSize * 1 + (w + d)
    <2> QED  BY <1>1, <2>1 DEF Delta
  <1>4. CASE WheelSize <= w + d
    <2>1. (w + d + WheelSize) % WheelSize = w + d - WheelSize
      BY <1>1, <1>4, RemainderIsUnique,
         w + d + WheelSize = WheelSize * 2 + (w + d - WheelSize)
    <2> QED  BY <1>1, <2>1 DEF Delta
  <1> QED  BY <1>1, <1>2, <1>3, <1>4

\* A wheel that was not turned, in any mode.
LEMMA NoStep ==
    /\ TypeOK /\ (unit.mode = panel_prev.mode => unit.wheel = panel_prev.wheel) => Wheel = 0
    /\ TypeOK' /\ (unit.mode = panel_prev.mode => unit.wheel = panel_prev.wheel)' => Wheel' = 0
  <1>1. \A w \in 0..(WheelSize - 1) : Delta(w, w) = 0
    BY PanelAssumption DEF Delta
  <1>2. /\ TypeOK => unit.wheel \in 0..(WheelSize - 1)
        /\ TypeOK' => unit'.wheel \in 0..(WheelSize - 1)
    BY DEF TypeOK
  <1> QED  BY <1>1, <1>2 DEF Wheel

\* Turning by nothing, or turning nothing.
LEMMA NoTurn ==
    ASSUME NEW gains \in [Mics -> Nat], \A m \in Mics : gains[m] <= GainMax[m],
           NEW mics, NEW d \in Int, d = 0 \/ mics = {}
    PROVE  Turned(gains, mics, d) = gains
  <1>1. ASSUME NEW m \in Mics
        PROVE  (IF m \in mics THEN Clamp(gains[m] + d, 0,
           GainMax[m]) ELSE gains[m]) = gains[m]
    <2>1. gains[m] \in Nat /\ GainMax[m] \in Nat /\ gains[m] <= GainMax[m]
      BY PanelAssumption
    <2> QED  BY <2>1 DEF Clamp
  <1> QED  BY <1>1 DEF Turned

LEMMA GainFinds ==
    /\ TypeOK /\ InRange /\ (panel_mix \/ unit.mode # "in" \/ Wheel = 0) => GainNow = gain
    /\ TypeOK' /\ InRange' /\ (panel_mix \/ unit.mode # "in" \/ Wheel = 0)' => GainNow' = gain'
  <1>1. TypeOK => gain \in [Mics -> Nat]
    BY DEF TypeOK
  <1>2. TypeOK' => gain' \in [Mics -> Nat]
    BY DEF TypeOK
  <1>3. TypeOK /\ InRange /\ Wheel = 0 =>
            Turned(gain, ChosenMics(panel_in, SelOf(panel_sel, panel_in)), Wheel) = gain
    BY <1>1, NoTurn DEF InRange
  <1>4. TypeOK' /\ InRange' /\ Wheel' = 0 =>
            Turned(gain', ChosenMics(panel_in', SelOf(panel_sel', panel_in')), Wheel') = gain'
    BY <1>2, NoTurn DEF InRange
  <1> QED  BY <1>3, <1>4 DEF GainNow

LEMMA InRangeStep ==
    ASSUME TypeOK, InRange, [Next]_vars
    PROVE  InRange'
  <1>1. CASE gain' = gain
    BY <1>1 DEF InRange
  <1>2. CASE Poll /\ panel_seen
    <2>1. gain' = GainNow
      BY <1>2, NextPollDoes
    <2>2. gain \in [Mics -> Nat]
      BY DEF TypeOK
    <2> QED  BY <2>1, <2>2, TurnedType, WheelType DEF InRange, GainNow
  <1>3. CASE Start
    BY <1>3, StartDoes, PanelAssumption DEF InRange
  <1>4. CASE Poll /\ ~panel_seen
    BY <1>1, <1>4, FirstPollDoes DEF AudioStays
  <1>5. CASE PressSelect \/ PressIn \/ PressOut \/ PressSet \/ PressMix \/ Release \/ ShowMode \/ Turn
    BY <1>1, <1>5, PressSelectDoes, PressInDoes, PressOutDoes, PressSetDoes, PressMixDoes,
       ReleaseDoes, ShowModeDoes, TurnDoes
       DEF AudioStays
  <1>6. CASE Restore \/ Tell \/ FreshEnds \/ Stop \/ Wake
    BY <1>1, <1>6, RestoreDoes, TellDoes, FreshEndsDoes, StopDoes, WakeDoes DEF AudioStays
  <1>7. CASE AppPut
    <2>1. gain' = gain
      BY <1>7, AppPutDoes
    <2> QED  BY <1>1, <2>1
  <1>8. CASE UNCHANGED vars
    BY <1>1, <1>8 DEF vars, audio
  <1> QED  BY <1>2, <1>3, <1>4, <1>5, <1>6, <1>7, <1>8 DEF Next

LEMMA GainStep ==
    ASSUME TypeOK, TypeOK', MixInv, SelInv, GainInv, InRange', [Next]_vars
    PROVE  GainFollowed'
  <1>1. CASE PressSelect
    <2>1. gain' = gain /\ meant'.gain = meant.gain
      BY <1>1, PressSelectDoes DEF AudioStays
    <2>2. GainNow' = GainNow /\ (Watching' <=> Watching)
      BY <1>1, PressSelectDoes DEF GainNow, Wheel, AudioStays, HostStays, DriverStays,
         Watching
    <2> QED  BY <2>1, <2>2 DEF GainInv, GainFollowed
  <1>2. CASE PressIn
    <2>1. gain' = gain /\ meant'.gain = meant.gain
      BY <1>2, PressInDoes DEF AudioStays
    <2>2. Watching' => Watching /\ Ready /\ life = "running"
      BY <1>2, PressInDoes DEF Watching, HostStays, DriverStays
    <2>3. Watching => Watching'
      BY <1>2, PressInDoes DEF Watching, HostStays, DriverStays
    <2>4. CASE unit.mode = "in"
      <3>1. GainNow' = GainNow
        BY <1>2, <2>4, PressInDoes DEF GainNow, Wheel, AudioStays, DriverStays
      <3> QED  BY <2>1, <2>2, <2>3, <3>1 DEF GainInv, GainFollowed
    <2>5. CASE unit.mode # "in"
      <3>1. Watching => GainNow = gain
        BY <1>2, <2>5, PressInDoes, NoStep, GainFinds DEF GainInv, WheelPolled, Watching
      <3>2. Watching' => GainNow' = gain'
        <4>1. Watching' => Wheel' = 0
          BY <1>2, <2>2, <2>5, PressInDoes, ReadyRunning DEF Wheel, DriverStays
        <4> QED  BY <4>1, GainFinds
      <3> QED  BY <2>1, <2>2, <2>3, <3>1, <3>2 DEF GainInv, GainFollowed
    <2> QED  BY <2>4, <2>5
  <1>3. CASE PressOut
    <2>1. gain' = gain /\ meant'.gain = meant.gain
      BY <1>3, PressOutDoes DEF AudioStays
    <2>2. Watching' => Watching /\ Ready /\ life = "running"
      BY <1>3, PressOutDoes DEF Watching, HostStays, DriverStays
    <2>3. Watching => Watching'
      BY <1>3, PressOutDoes DEF Watching, HostStays, DriverStays
    <2>4. CASE unit.mode = "out"
      <3>1. GainNow' = GainNow
        BY <1>3, <2>4, PressOutDoes DEF GainNow, Wheel, AudioStays, DriverStays
      <3> QED  BY <2>1, <2>2, <2>3, <3>1 DEF GainInv, GainFollowed
    <2>5. CASE unit.mode # "out"
      <3>1. Watching => GainNow = gain
        BY <1>3, <2>5, PressOutDoes, NoStep, GainFinds DEF GainInv, WheelPolled, Watching
      <3>2. Watching' => GainNow' = gain'
        BY <1>3, PressOutDoes, GainFinds
      <3> QED  BY <2>1, <2>2, <2>3, <3>1, <3>2 DEF GainInv, GainFollowed
    <2> QED  BY <2>4, <2>5
  <1>4. CASE PressSet
    <2>1. gain' = gain /\ meant'.gain = meant.gain
      BY <1>4, PressSetDoes DEF AudioStays
    <2>2. Watching => GainNow = gain
      BY <1>4, PressSetDoes, NoStep, GainFinds DEF GainInv, WheelPolled
    <2>3. Watching' => GainNow' = gain'
      <3>1. CASE unit.mode = "fader"
        <4>1. panel_mix'
          BY <1>4, <3>1, PressSetDoes, ReadyRunning DEF DriverStays
        <4> QED  BY <4>1, GainFinds
      <3>2. CASE unit.mode # "fader"
        <4>1. unit'.wheel = panel_prev'.wheel
          BY <1>4, <3>2, PressSetDoes, ReadyRunning DEF WheelPolled, DriverStays
        <4> QED  BY <4>1, NoStep, GainFinds
      <3> QED  BY <3>1, <3>2
    <2> QED  BY <2>1, <2>2, <2>3 DEF GainInv, GainFollowed
  <1>5. CASE PressMix
    <2>1. gain' = gain /\ meant'.gain = meant.gain
      BY <1>5, PressMixDoes DEF AudioStays
    <2>2. GainNow' = GainNow /\ (Watching' <=> Watching)
      BY <1>5, PressMixDoes DEF GainNow, Wheel, AudioStays, HostStays, DriverStays, Watching
    <2> QED  BY <2>1, <2>2 DEF GainInv, GainFollowed
  <1>6. CASE Release
    <2>1. gain' = gain /\ meant'.gain = meant.gain
      BY <1>6, ReleaseDoes DEF AudioStays
    <2>2. GainNow' = GainNow /\ (Watching' <=> Watching)
      BY <1>6, ReleaseDoes DEF GainNow, Wheel, AudioStays, HostStays, DriverStays, Watching
    <2> QED  BY <2>1, <2>2 DEF GainInv, GainFollowed
  <1>7. CASE ShowMode
    <2>1. gain' = gain /\ meant'.gain = meant.gain
      BY <1>7, ShowModeDoes DEF AudioStays
    <2>2. Watching => GainNow = gain
      <3>1. CASE unit.mode = panel_prev.mode
        <4>1. Watching => unit.wheel = panel_prev.wheel
          BY <1>7, <3>1, ShowModeDoes DEF MixInv, OneAtATime
        <4> QED  BY <4>1, NoStep, GainFinds DEF GainInv
      <3>2. CASE unit.mode # panel_prev.mode
        BY <3>2, NoStep, GainFinds DEF GainInv
      <3> QED  BY <3>1, <3>2
    <2>3. Watching' => GainNow' = gain'
      <3>1. CASE unit'.mode = unit.mode
        <4>1. Watching' => (unit.mode = panel_prev.mode => unit.wheel = panel_prev.wheel)'
          BY <1>7, <3>1, ShowModeDoes DEF MixInv, OneAtATime, Watching, HostStays, DriverStays
        <4> QED  BY <4>1, NoStep, GainFinds
      <3>2. CASE unit'.mode # unit.mode /\ late = "fader"
        BY <1>7, <3>2, ShowModeDoes, GainFinds
      <3>3. CASE unit'.mode # unit.mode /\ late # "fader"
        <4>1. unit.mode = "fader" /\ unit'.mode = "in"
          BY <1>7, <3>3, ShowModeDoes
        <4>2. Watching' => panel_mix' \/ panel_prev'.mode = "fader"
          BY <1>7, <4>1, ShowModeDoes DEF MixInv, MixOff, Watching, HostStays, DriverStays
        <4>3. panel_prev'.mode = "fader" => Wheel' = 0
          BY <4>1 DEF Wheel
        <4> QED  BY <4>2, <4>3, GainFinds
      <3> QED  BY <3>1, <3>2, <3>3
    <2> QED  BY <2>1, <2>2, <2>3 DEF GainInv, GainFollowed
  <1>8. CASE Turn
    <2>1. PICK d \in Clicks :
             /\ unit'.wheel = (unit.wheel + d + WheelSize) % WheelSize
             /\ meant'.gain =
                   IF unit.mode # "in" \/ panel_sel[unit.in] = NotKnown THEN meant.gain
                   ELSE Turned(meant.gain, ChosenMics(unit.in, unit.sel[unit.in]), d)
      BY <1>8, TurnDoes
    <2>2. /\ Watching /\ Watching' /\ gain' = gain /\ unit'.mode = unit.mode
          /\ panel_mix' = panel_mix /\ panel_in' = panel_in /\ panel_sel' = panel_sel
      BY <1>8, TurnDoes DEF Watching, Polled, AudioStays, HostStays, DriverStays
    <2>3. GainNow = gain /\ meant.gain = gain
      BY <1>8, <2>2, TurnDoes, NoStep, GainFinds DEF GainInv, GainFollowed, WheelPolled
    <2>4. CASE unit.mode # "in"
      BY <2>1, <2>2, <2>3, <2>4, GainFinds DEF GainFollowed
    <2>5. CASE unit.mode = "in"
      <3>1. panel_in = unit.in /\ SelNow = panel_sel /\ ~panel_mix /\ unit.in \in Pairs
        BY <1>8, <2>2, <2>5, TurnDoes, StillFinds, Fields
           DEF Pressed, Polled, Pending, MixInv, MixBegan, MixSeen
      <3>2. Wheel' = d
        BY <1>8, <2>1, <2>5, TurnDoes, DeltaOfTurn, Fields DEF Wheel, Polled, WheelPolled,
           DriverStays
      <3>3. GainNow' = Turned(gain, ChosenMics(unit.in, panel_sel[unit.in]), d)
        BY <2>2, <2>5, <3>1, <3>2 DEF GainNow, SelOf
      <3>4. panel_sel[unit.in] # NotKnown => panel_sel[unit.in] = unit.sel[unit.in]
        BY <2>2, <3>1 DEF SelInv, SelFollowed
      <3>5. panel_sel[unit.in] = NotKnown => GainNow' = gain
        <4>1. ChosenMics(unit.in, NotKnown) = {}
          BY DEF ChosenMics, Chosen, NotKnown, Left, Right, Both
        <4>2. gain \in [Mics -> Nat] /\ d \in Int
          BY PanelAssumption DEF TypeOK
        <4> QED  BY <3>3, <4>1, <4>2, NoTurn DEF GainInv, InRange
      <3> QED  BY <2>1, <2>2, <2>3, <2>5, <3>3, <3>4, <3>5 DEF GainFollowed
    <2> QED  BY <2>4, <2>5
  <1>9. CASE Poll /\ ~panel_seen
    <2>1. gain' = gain /\ meant'.gain = meant.gain
      BY <1>9, FirstPollDoes DEF AudioStays
    <2>2. Watching => GainNow = gain
      BY <1>9 DEF Watching
    <2>3. Watching' => GainNow' = gain'
      BY <1>9, FirstPollDoes, NoStep, GainFinds
    <2> QED  BY <2>1, <2>2, <2>3 DEF GainInv, GainFollowed
  <1>10. CASE Poll /\ panel_seen
    <2>1. GainNow' = gain' /\ gain' = GainNow /\ meant' = meant
      BY <1>10, NextPollDoes, NoStep, GainFinds
    <2> QED  BY <1>10, <2>1, NextPollDoes DEF GainInv, GainFollowed, Watching
  <1>11. CASE Restore
    <2>1. torestore # {}
      BY <1>11, RestoreDoes
    <2>2. /\ gain' = gain /\ meant' = meant /\ unit' = unit /\ panel_prev' = panel_prev
          /\ (Watching' <=> Watching)
      BY <1>11, RestoreDoes DEF AudioStays, Watching
    <2>3. Watching => (unit.mode = panel_prev.mode => unit.wheel = panel_prev.wheel)
      BY <2>1 DEF MixInv, Untouched, Watching
    <2>4. Watching => GainNow = gain
      BY <2>3, NoStep, GainFinds DEF GainInv
    <2>5. Watching' => GainNow' = gain'
      BY <2>2, <2>3, NoStep, GainFinds
    <2> QED  BY <2>2, <2>4, <2>5 DEF GainInv, GainFollowed
  <1>12. CASE Tell
    <2>1. gain' = gain /\ meant'.gain = meant.gain
      BY <1>12, TellDoes DEF AudioStays
    <2>2. Watching => GainNow = gain
      BY <1>12, TellDoes, NoStep, GainFinds DEF GainInv, WheelPolled
    <2>3. Watching' => GainNow' = gain'
      BY <1>12, TellDoes, NoStep, GainFinds DEF WheelPolled
    <2> QED  BY <2>1, <2>2, <2>3 DEF GainInv, GainFollowed
  <1>13. CASE FreshEnds
    <2>1. gain' = gain /\ meant' = meant /\ GainNow' = GainNow
      BY <1>13, FreshEndsDoes DEF GainNow, Wheel, AudioStays, DriverStays
    <2>2. Watching' <=> Watching
      BY <1>13, FreshEndsDoes DEF Watching, HostStays, DriverStays
    <2> QED  BY <2>1, <2>2 DEF GainInv, GainFollowed
  <1>14. CASE AppPut
    <2>1. gain' = gain /\ meant' = meant /\ GainNow' = GainNow
      BY <1>14, AppPutDoes DEF GainNow, Wheel, AudioStays, DriverStays
    <2>2. Watching' <=> Watching
      BY <1>14, AppPutDoes DEF Watching, HostStays, DriverStays
    <2> QED  BY <2>1, <2>2 DEF GainInv, GainFollowed
  <1>15. CASE Stop
    <2>1. gain' = gain /\ meant'.gain = meant.gain
      BY <1>15, StopDoes DEF AudioStays
    <2>2. Watching => GainNow = gain
      BY <1>15, StopDoes, NoStep, GainFinds DEF GainInv, WheelPolled
    <2>3. Watching' => GainNow' = gain'
      BY <1>15, StopDoes DEF Watching
    <2> QED  BY <2>1, <2>2, <2>3 DEF GainInv, GainFollowed
  <1>16. CASE Wake
    <2>1. gain' = gain /\ meant'.gain = meant.gain
      BY <1>16, WakeDoes DEF AudioStays
    <2>2. Watching => GainNow = gain
      BY <1>16, WakeDoes DEF Watching
    <2>3. Watching' => GainNow' = gain'
      BY <1>16, WakeDoes DEF Watching
    <2> QED  BY <2>1, <2>2, <2>3 DEF GainInv, GainFollowed
  <1>17. CASE Start
    BY <1>17, StartDoes DEF GainFollowed, Watching
  <1>18. CASE UNCHANGED vars
    <2>1. GainNow' = GainNow
      BY <1>18 DEF vars, unit_side, host, followed, mixing, audio, GainNow, Wheel
    <2> QED  BY <1>18, <2>1 DEF vars, unit_side, host, followed, mixing, audio, GainInv,
       GainFollowed, Watching
  <1> QED
    BY <1>1, <1>2, <1>3, <1>4, <1>5, <1>6, <1>7, <1>8, <1>9, <1>10, <1>11, <1>12, <1>13,
       <1>14, <1>15, <1>16, <1>17, <1>18 DEF Next

----------------------------------------------------------------------------
\* The wheel moves the crosspoint that it starts from.
LEMMA RefIsTarget ==
    ASSUME NEW pair, NEW sel, MixTargets(pair, sel) # {}
    PROVE  MixRef(pair, sel) \in MixTargets(pair, sel)
  <1>1. CASE pair = 3
    BY <1>1 DEF MixTargets, MixRef
  <1>2. CASE pair # 3
    <2>1. Chosen(sel) # {}
      BY <1>2 DEF MixTargets, ChosenMics
    <2>2. (IF sel = Right THEN 1 ELSE 0) \in Chosen(sel)
      BY <2>1 DEF Chosen, Left, Right, Both
    <2> QED  BY <1>2, <2>2 DEF MixTargets, MixRef, ChosenMics
  <1> QED  BY <1>1, <1>2

\* Taken from a crosspoint that is not muted, the level is the crosspoint's.
LEMMA SeedIsLevel ==
    ASSUME NEW levels \in [OutPairs -> [Srcs -> Faders]], NEW out \in OutPairs,
           NEW pair \in Pairs \cup {0}, NEW sel, levels[out][MixRef(pair, sel)].l # MixInf
    PROVE  Seed(levels, out, pair, sel) = levels[out][MixRef(pair, sel)].l
  <1>1. MixRef(pair, sel) \in Srcs
    BY PanelAssumption DEF MixRef, Base, Srcs
  <1>2. levels[out][MixRef(pair, sel)].l \in Levels
    BY <1>1, FaderSides
  <1>3. levels[out][MixRef(pair, sel)].l \in MixFirst..MixTop
    BY <1>2 DEF Levels
  <1> QED  BY <1>3, PanelAssumption DEF Seed, Higher

\* While MIX stays on, the positions do not change.
LEMMA MixStays ==
    ASSUME TypeOK, MixInv, PositionFollowed, Watching, panel_mix, ~MixEnds
    PROVE  InNow = panel_in /\ panel_out = unit.out /\ panel_out \in OutPairs
  <1>1. panel_out = unit.out /\ panel_out \in OutPairs
    BY Fields DEF PositionFollowed
  <1>2. CASE panel_saw_fader
    <2>1. unit.mode = "fader"
      BY <1>2 DEF MixEnds, LeftByUnit, MixInv, MixSeen
    <2> QED  BY <1>1, <2>1 DEF InNow
  <1>3. CASE ~panel_saw_fader
    BY <1>1, <1>3 DEF MixInv, MixBegan, PositionFollowed, InNow
  <1> QED  BY <1>2, <1>3

\* Where the wheel moves a crosspoint.
LEMMA MovedTo ==
    ASSUME TypeOK, NEW o \in OutPairs, NEW s \in Srcs
    PROVE  /\ panel_mix /\ Wheel # 0 /\ o = panel_out /\ s \in Targets =>
                 XpointNow[o][s] = BothAt(Level(Db2Now))
           /\ XpointNow[o][s] # xpoint[o][s] =>
                 panel_mix /\ Wheel # 0 /\ o = panel_out /\ s \in Targets
  <1>1. xpoint \in [OutPairs -> [Srcs -> Faders]]
    BY DEF TypeOK
  <1>2. CASE ~panel_mix \/ Wheel = 0
    BY <1>2 DEF XpointNow
  <1>3. CASE panel_mix /\ Wheel # 0
    <2> DEFINE row == [t \in Srcs |->
                          IF t \in Targets THEN BothAt(Level(Db2Now)) ELSE xpoint[panel_out][t]]
    <2>1. XpointNow = [xpoint EXCEPT ![panel_out] =
                          [t \in Srcs |-> IF t \in Targets THEN BothAt(Level(Db2Now)) ELSE @[t]]]
      BY <1>3 DEF XpointNow, Targets
    <2>2. CASE o = panel_out
      <3>1. XpointNow[o] = row
        BY <1>1, <2>1, <2>2
      <3>2. XpointNow[o][s] = IF s \in Targets THEN BothAt(Level(Db2Now)) ELSE xpoint[o][s]
        BY <2>2, <3>1
      <3> QED  BY <1>3, <2>2, <3>2
    <2>3. CASE o # panel_out
      <3>1. XpointNow[o] = xpoint[o]
        BY <1>1, <2>1, <2>3
      <3> QED  BY <2>3, <3>1
    <2> QED  BY <2>2, <2>3
  <1> QED  BY <1>2, <1>3

LEMMA LevelStep ==
    ASSUME TypeOK, MixInv, PositionFollowed, LevelFollowed, "app" \notin Hasty, [Next]_vars
    PROVE  LevelFollowed'
  <1>1. CASE PressSelect
    BY <1>1, PressSelectDoes DEF LevelFollowed, Targets, From, Watching, HostStays,
       DriverStays, AudioStays
  <1>2. CASE PressIn
    BY <1>2, PressInDoes DEF LevelFollowed, Targets, From, Watching, HostStays, DriverStays,
       AudioStays
  <1>3. CASE PressOut
    BY <1>3, PressOutDoes DEF LevelFollowed, Targets, From, Watching, HostStays, DriverStays,
       AudioStays
  <1>4. CASE PressSet
    BY <1>4, PressSetDoes DEF LevelFollowed, Targets, From, Watching, HostStays, DriverStays,
       AudioStays
  <1>5. CASE PressMix
    BY <1>5, PressMixDoes DEF LevelFollowed, Targets, From, Watching, HostStays, DriverStays,
       AudioStays
  <1>6. CASE Release
    BY <1>6, ReleaseDoes DEF LevelFollowed, Targets, From, Watching, HostStays, DriverStays,
       AudioStays
  <1>7. CASE ShowMode
    BY <1>7, ShowModeDoes DEF LevelFollowed, Targets, From, Watching, HostStays, DriverStays,
       AudioStays
  <1>8. CASE Turn
    BY <1>8, TurnDoes DEF LevelFollowed, Targets, From, Watching, HostStays, DriverStays,
       AudioStays
  <1>9. CASE Poll /\ ~panel_seen
    BY <1>9, FirstPollDoes, Fields DEF LevelFollowed, MixInv, Untouched
  <1>10. CASE Poll /\ panel_seen
    <2> SUFFICES ASSUME panel_mix', Targets' # {}, From' # MixInf
                 PROVE  panel_mix_db2' = From'
      BY DEF LevelFollowed, Targets, From
    <2>1. /\ xpoint' = XpointNow /\ panel_out' = unit.out /\ panel_in' = InNow
          /\ panel_sel' = SelNow /\ Watching
      BY <1>10, NextPollDoes DEF Watching
    <2>2. From' = XpointNow[unit.out][MixRef(InNow, SelOf(SelNow, InNow))].l
      BY <2>1 DEF From
    <2>3. CASE Seeds
      <3>1. panel_mix_db2' = Seed(XpointNow, unit.out, InNow, SelOf(SelNow, InNow))
        BY <1>10, <2>3, NextPollDoes
      <3> QED  BY <2>2, <3>1, SeedIsLevel, XpointNowType, InNowType, Fields
    <2>4. CASE ~Seeds
      <3>1. panel_mix /\ ~MixEnds /\ SelNow = panel_sel /\ panel_mix_db2' = Db2Now
        BY <1>10, <2>4, NextPollDoes DEF Seeds
      <3>2. InNow = panel_in /\ panel_out = unit.out /\ panel_out \in OutPairs
        BY <2>1, <3>1, MixStays
      <3>3. From' = XpointNow[panel_out][MixRef(panel_in, SelOf(panel_sel, panel_in))].l
        BY <2>2, <3>1, <3>2
      <3>4. Targets # {}
        BY <2>1, <3>1, <3>2 DEF Targets
      <3>5. CASE Wheel = 0
        <4>1. XpointNow = xpoint /\ Db2Now = panel_mix_db2
          BY <3>5 DEF XpointNow, Db2Now
        <4>2. From' = From
          BY <3>3, <4>1 DEF From
        <4> QED  BY <2>1, <3>1, <3>4, <4>1, <4>2 DEF LevelFollowed, Targets, From
      <3>6. CASE Wheel # 0
        <4>1. PICK s \in Srcs : s = MixRef(panel_in, SelOf(panel_sel,
           panel_in)) /\ s \in Targets
          <5>1. panel_in \in Pairs \cup {0}
            BY DEF TypeOK
          <5>2. MixRef(panel_in, SelOf(panel_sel, panel_in)) \in Srcs
            BY <5>1, PanelAssumption DEF MixRef, Base, Srcs
          <5> QED  BY <3>4, <5>2, RefIsTarget DEF Targets
        <4>2. From' = Level(Db2Now)
          BY <3>1, <3>2, <3>3, <3>6, <4>1, MovedTo DEF BothAt
        <4>3. Level(Db2Now) # MixInf => Level(Db2Now) = Db2Now
          BY DEF Level
        <4> QED  BY <3>1, <4>2, <4>3
      <3> QED  BY <3>5, <3>6
    <2> QED  BY <2>3, <2>4
  <1>11. CASE Restore
    <2>1. torestore # {} /\ life = "running"
      BY <1>11, RestoreDoes
    <2>2. ~panel_mix /\ panel_mix' = panel_mix
      BY <1>11, <2>1, RestoreDoes DEF MixInv, Untouched
    <2> QED  BY <2>2 DEF LevelFollowed
  <1>12. CASE Tell
    <2> SUFFICES ASSUME panel_mix', Targets' # {}, From' # MixInf
                 PROVE  panel_mix_db2' = From'
      BY DEF LevelFollowed, Targets, From
    <2>1. /\ panel_mix /\ Watching /\ xpoint' = xpoint /\ panel_out' = panel_out
          /\ panel_in' = panel_in /\ panel_out \in OutPairs /\ panel_in \in Pairs
      BY <1>12, TellDoes, ReadyRunning, Fields DEF AudioStays
    <2>2. CASE panel_sel' = panel_sel
      <3>1. panel_mix_db2' = panel_mix_db2
        BY <1>12, <2>2, TellDoes
      <3>2. Targets' = Targets /\ From' = From
        BY <2>1, <2>2 DEF Targets, From
      <3> QED  BY <2>1, <3>1, <3>2 DEF LevelFollowed, Targets, From
    <2>3. CASE panel_sel' # panel_sel
      <3>1. panel_mix_db2' = Seed(xpoint, panel_out, panel_in, unit.sel[panel_in])
        BY <1>12, <2>1, <2>3, TellDoes
      <3>2. SelOf(panel_sel', panel_in') = unit.sel[panel_in]
        BY <1>12, <2>1, TellDoes DEF SelOf, TypeOK
      <3>3. From' = xpoint[panel_out][MixRef(panel_in, unit.sel[panel_in])].l
        BY <2>1, <3>2 DEF From
      <3>4. xpoint \in [OutPairs -> [Srcs -> Faders]]
        BY DEF TypeOK
      <3> QED  BY <2>1, <3>1, <3>3, <3>4, SeedIsLevel
    <2> QED  BY <2>2, <2>3
  <1>13. CASE FreshEnds
    BY <1>13, FreshEndsDoes DEF LevelFollowed, Targets, From, Watching, HostStays,
       DriverStays, AudioStays
  <1>14. CASE AppPut
    BY <1>14, AppPutDoes DEF LevelFollowed, DriverStays
  <1>15. CASE Stop
    BY <1>15, StopDoes DEF LevelFollowed, Watching
  <1>16. CASE Wake
    BY <1>16, WakeDoes DEF LevelFollowed, Watching
  <1>17. CASE Start
    BY <1>17, StartDoes DEF LevelFollowed, Watching
  <1>18. CASE UNCHANGED vars
    BY <1>18 DEF vars, unit_side, host, followed, mixing, audio, LevelFollowed, Targets,
       From, Watching
  <1> QED
    BY <1>1, <1>2, <1>3, <1>4, <1>5, <1>6, <1>7, <1>8, <1>9, <1>10, <1>11, <1>12, <1>13,
       <1>14, <1>15, <1>16, <1>17, <1>18 DEF Next

----------------------------------------------------------------------------
LEMMA StartsRight ==
    Init => IInv
  <1> SUFFICES ASSUME Init
               PROVE  IInv
    OBVIOUS
  <1>1. PICK u \in [mode : {"in", "out"}, in : {1}, out : {1},
                    sel : [Pairs -> {Left, None}], lit : {FALSE}, flash : {"none"}, wheel : {0}] :
             unit = u
    BY DEF Init
  <1>2. /\ unit.mode \in {"in", "out"} /\ unit.in = 1 /\ unit.out = 1
        /\ unit.sel \in [Pairs -> {Left, None}] /\ unit.lit = FALSE
        /\ unit.flash = "none" /\ unit.wheel = 0
        /\ unit = [mode |-> unit.mode, in |-> 1, out |-> 1, sel |-> unit.sel,
                   lit |-> FALSE, flash |-> "none", wheel |-> 0]
    BY <1>1
  <1>3. TypeOK
    <2>1. unit \in UnitSet
      <3>1. unit.sel \in [Pairs -> 0..3]
        BY <1>2 DEF Left, None
      <3>2. PICK m \in Modes, sel \in [Pairs -> 0..3] : m = unit.mode /\ sel = unit.sel
        BY <1>2, <3>1 DEF Modes
      <3>3. unit = [mode |-> m, in |-> 1, out |-> 1, sel |-> sel,
                    lit |-> FALSE, flash |-> "none", wheel |-> 0]
        BY <1>2, <3>2
      <3>4. 0 \in 0..(WheelSize - 1) /\ 1 \in Pairs /\ 1 \in OutPairs
        BY PanelAssumption
      <3> QED  BY <3>2, <3>3, <3>4 DEF UnitSet
    <2>2. panel_prev \in ReadSet
      BY PanelAssumption DEF Init, Nothing, ReadSet, Modes
    <2>3. gain \in [Mics -> Nat] /\ phantom = {}
      BY DEF Init
    <2>4. meant = [phantom |-> phantom, gain |-> gain, mix |-> FALSE]
      BY DEF Init
    <2>5. meant \in MeantSet
      BY <2>3, <2>4 DEF MeantSet
    <2>6. xpoint \in [OutPairs -> [Srcs -> Faders]]
      <3>1. BothAt(MixInf) \in Faders
        BY FaderSides DEF Levels
      <3> QED  BY <3>1 DEF Init
    <2>7. panel_sel \in [Pairs -> -1..3] /\ stored \in [Pairs -> -1..3]
      BY DEF Init, NotKnown
    <2>8. /\ use \in Uses /\ late = "none" /\ life = "running" /\ fresh = TRUE /\ reprobe = FALSE
          /\ torestore = {} /\ panel_seen = FALSE /\ panel_in = 0 /\ panel_out = 0
          /\ panel_select_armed = FALSE /\ panel_mix = FALSE /\ panel_saw_fader = FALSE
          /\ panel_mix_db2 = 0
      BY DEF Init
    <2>9. Typed
      <3>1. /\ panel_in \in Pairs \cup {0} /\ panel_out \in OutPairs \cup {0}
            /\ panel_mix_db2 \in Int /\ phantom \subseteq {0, 1} /\ torestore \subseteq Pairs
        BY <2>3, <2>8
      <3>2. /\ late \in {"none", "fader", "leave"}
            /\ life \in {"running", "asleep", "unbound", "down"}
            /\ fresh \in BOOLEAN /\ reprobe \in BOOLEAN /\ panel_seen \in BOOLEAN
            /\ panel_select_armed \in BOOLEAN /\ panel_mix \in BOOLEAN
            /\ panel_saw_fader \in BOOLEAN
        BY <2>8
      <3> QED  BY <2>1, <2>2, <2>3, <2>5, <2>6, <2>7, <2>8, <3>1, <3>2 DEF Typed
    <2> QED  BY <2>9, TypedIsTypeOK
  <1>4. /\ late = "none" /\ life = "running" /\ torestore = {} /\ panel_seen = FALSE
        /\ panel_in = 0 /\ panel_mix = FALSE /\ panel_select_armed = FALSE
        /\ panel_sel = [p \in Pairs |-> NotKnown] /\ gain = [m \in Mics |-> 0]
        /\ meant.phantom = phantom /\ meant.gain = gain /\ meant.mix = FALSE
    BY DEF Init
  <1>5. MixInv
    BY <1>2, <1>4 DEF MixInv, Untouched, OneAtATime, MixBegan, MixSeen, MixOff, Watching
  <1>6. PositionFollowed /\ LevelFollowed /\ PhantomFollowed /\ GainFollowed
    BY <1>4 DEF PositionFollowed, LevelFollowed, PhantomFollowed, GainFollowed, Watching
  <1>7. InRange
    BY <1>4, PanelAssumption DEF InRange
  <1>8. SelInv
    BY <1>2, <1>4 DEF SelInv, SelFollowed, Dark, ArmedFollowed, Watching
  <1> QED  BY <1>3, <1>5, <1>6, <1>7, <1>8 DEF IInv

LEMMA Invariance ==
    Spec => []IInv
  <1>1. IInv /\ [Next]_vars => IInv'
    <2> SUFFICES ASSUME IInv, [Next]_vars
                 PROVE  IInv'
      OBVIOUS
    <2>1. TypeOK' /\ InRange'
      BY TypesStep, InRangeStep DEF IInv, MixInv
    <2>2. MixInv' /\ PositionFollowed'
      BY <2>1, MixStep, PositionStep DEF IInv
    <2>3. CASE "blind" \notin Hasty
      <3>1. SelInv' /\ PhantomFollowed'
        BY <2>3, SelStep, PhantomStep DEF IInv
      <3>2. GainFollowed'
        BY <2>1, <2>3, GainStep DEF IInv, GainInv
      <3>3. "app" \notin Hasty => LevelFollowed'
        BY LevelStep DEF IInv
      <3> QED  BY <2>1, <2>2, <3>1, <3>2, <3>3 DEF IInv
    <2>4. CASE "blind" \in Hasty
      <3>1. "app" \notin Hasty => LevelFollowed'
        BY LevelStep DEF IInv
      <3> QED  BY <2>1, <2>2, <2>4, <3>1 DEF IInv
    <2> QED  BY <2>3, <2>4
  <1> QED  BY StartsRight, <1>1, PTL DEF Spec

----------------------------------------------------------------------------
\* The unit, the driver and what the user meant keep their types.
THEOREM PanelTypes ==
    Spec => []TypeOK
  <1>1. IInv => TypeOK
    BY DEF IInv
  <1> QED  BY Invariance, <1>1, PTL

\* In whatever order the presses, the readbacks and the unit's answers to the
\* driver's requests come, and over suspends and re-probes: once settled, unit
\* and driver are both in fader mode just when MIX was pressed for it.
THEOREM MixTogether ==
    Spec => []MixAgrees
  <1>1. IInv => MixAgrees
    <2> SUFFICES ASSUME IInv, life = "running", Ready
                 PROVE  panel_mix = meant.mix /\ (unit.mode = "fader") = meant.mix
      BY DEF MixAgrees
    <2>1. (panel_mix <=> meant.mix) /\ (panel_mix <=> unit.mode = "fader")
      BY ReadyRunning DEF IInv
    <2>2. panel_mix \in BOOLEAN /\ meant.mix \in BOOLEAN
      BY Fields DEF IInv, TypeOK
    <2> QED  BY <2>1, <2>2
  <1> QED  BY Invariance, <1>1, PTL

\* A user who presses SELECT where the driver has seen the IN position has the
\* selection followed: over IN switches, suspends, boots and re-probes.
THEOREM SelectFollowed ==
    ASSUME "blind" \notin Hasty
    PROVE  Spec => []SelectionAgrees
  <1>1. IInv => SelectionAgrees
    <2> SUFFICES ASSUME IInv, life = "running", Polled, torestore = {}
                 PROVE  /\ \A p \in Pairs : panel_sel[p] # NotKnown => panel_sel[p] = unit.sel[p]
                        /\ panel_in = unit.in /\ panel_sel[unit.in] # NotKnown
                              => panel_select_armed = unit.lit
      BY DEF SelectionAgrees
    <2>1. TypeOK /\ SelInv
      BY DEF IInv
    <2>2. Watching /\ SelNow = panel_sel /\ ~Pressed("SELECT")
      BY StillFinds DEF Watching, Polled, Pressed
    <2>3. \A p \in Pairs : panel_sel[p] # NotKnown => panel_sel[p] = unit.sel[p]
      BY <2>1, <2>2 DEF SelInv, SelFollowed
    <2>4. ASSUME panel_in = unit.in, panel_sel[unit.in] # NotKnown
          PROVE  panel_select_armed = unit.lit
      <3>1. InNow = unit.in /\ InNow = panel_in /\ unit.in \in Pairs
        BY <2>1, <2>4, Fields DEF InNow
      <3>2. panel_select_armed <=> unit.lit
        BY <2>1, <2>2, <2>4, <3>1 DEF SelInv, ArmedFollowed, ArmedNow, SelOf
      <3>3. panel_select_armed \in BOOLEAN /\ unit.lit \in BOOLEAN
        BY <2>1, Fields DEF TypeOK
      <3> QED  BY <3>2, <3>3
    <2> QED  BY <2>3, <2>4
  <1> QED  BY Invariance, <1>1, PTL

\* 48 V is on where the SET presses have put it.
THEOREM PhantomFollowsSet ==
    ASSUME "blind" \notin Hasty
    PROVE  Spec => []PhantomAsMeant
  <1>1. IInv => PhantomAsMeant
    <2> SUFFICES ASSUME IInv, life = "running", Polled
                 PROVE  phantom = meant.phantom
      BY DEF PhantomAsMeant
    <2>1. Watching /\ PhantomNow = phantom
      BY StillFinds DEF Watching, Polled, Pressed
    <2> QED  BY <2>1 DEF IInv, PhantomFollowed
  <1> QED  BY Invariance, <1>1, PTL

\* No click of the wheel is lost or given to another channel.
THEOREM GainFollowsWheel ==
    ASSUME "blind" \notin Hasty
    PROVE  Spec => []GainAsMeant
  <1>1. IInv => GainAsMeant
    <2> SUFFICES ASSUME IInv, life = "running", Polled, WheelPolled
                 PROVE  gain = meant.gain
      BY DEF GainAsMeant
    <2>1. Watching /\ GainNow = gain
      BY NoStep, GainFinds DEF IInv, Watching, Polled, WheelPolled
    <2> QED  BY <2>1 DEF IInv, GainFollowed
  <1> QED  BY Invariance, <1>1, PTL

\* A click of the MIX wheel takes both sides of the faders chosen one step from
\* where the left side of the first of them is, as long as no application moves
\* a fader while MIX is on.
THEOREM ClickMovesOneStep ==
    ASSUME "app" \notin Hasty
    PROVE  Spec => MixClickIsOneStep
  <1>1. IInv /\ [Next]_vars => [ClickIsOneStep]_vars
    <2> SUFFICES ASSUME IInv, [Next]_vars, life = "running", panel_seen,
                        panel_prev' # panel_prev, NEW o \in OutPairs, NEW s \in Srcs,
                        xpoint'[o][s] # xpoint[o][s],
                        xpoint[o][MixRef(panel_in, SelOf(panel_sel, panel_in))].l # MixInf
                 PROVE  xpoint'[o][s] = BothAt(Level(Clamp(
                            xpoint[o][MixRef(panel_in, SelOf(panel_sel, panel_in))].l + Wheel,
                            MixInf, MixTop)))
      BY DEF ClickIsOneStep
    <2>1. Poll
      <3>1. TypeOK
        BY DEF IInv
      <3>2. ~(PressSelect \/ PressIn \/ PressOut \/ PressSet \/ PressMix \/ Release \/ ShowMode
              \/ Turn \/ FreshEnds \/ AppPut \/ Stop)
        BY <3>1, PressSelectDoes, PressInDoes, PressOutDoes, PressSetDoes, PressMixDoes,
           ReleaseDoes, ShowModeDoes, TurnDoes, FreshEndsDoes, AppPutDoes, StopDoes
           DEF DriverStays
      <3>3. ~(Restore \/ Tell \/ Wake \/ Start \/ UNCHANGED vars)
        BY <3>1, RestoreDoes, TellDoes, WakeDoes, StartDoes DEF vars
      <3> QED  BY <3>2, <3>3 DEF Next
    <2>2. xpoint' = XpointNow /\ Watching
      BY <2>1, NextPollDoes DEF IInv, Watching
    <2>3. /\ panel_mix /\ Wheel # 0 /\ o = panel_out /\ s \in Targets
          /\ XpointNow[o][s] = BothAt(Level(Db2Now))
      BY <2>2, MovedTo DEF IInv
    <2>4. panel_mix_db2 = From
      BY <2>2, <2>3 DEF IInv, LevelFollowed, Targets, From
    <2> QED  BY <2>2, <2>3, <2>4 DEF Db2Now, From
  <1> QED  BY Invariance, <1>1, PTL DEF Spec, MixClickIsOneStep
=============================================================================
