------------------------------ MODULE Outputs ------------------------------
(***************************************************************************)
(* The output masters: what the driver has cached of them, the four        *)
(* registers of each output, and everybody that moves them: the volume,    *)
(* mute and DIM controls, the front panel's OUT wheel, read by a poll, and *)
(* the firmware, which moves the analog level by itself while the wheel    *)
(* turns.  A resume writes it all back.                                    *)
(*                                                                         *)
(* chip->mutex makes each put, and each part of a poll between two of its  *)
(* sections, one action.  Levels are the control's steps: 0 is mute, and   *)
(* step s is s - Step0 half decibels, as the wheel counts.  What DIM and   *)
(* the defaults write for -20 dB is taken for that step's own value.       *)
(***************************************************************************)
EXTENDS Integers, FiniteSets, Sequences

CONSTANTS
    Outs,       \* output pairs: 0 is AN1/2, 1 the phones; at least these are there
    StepMax,    \* BF_MASTER_STEP_MAX
    Step0,      \* BF_MASTER_STEP_0DB
    StepDim,    \* BF_MASTER_STEP_MINUS20, where DIM puts the phones
    Step8Min,   \* the step of BF_MASTER_8_MIN, the lowest the 8-bit takes
    WheelZones, \* lower ends of the zones of the wheel's step, in half-dB ...
    WheelSteps, \* ... and the step in each, and below all
    Levels,     \* the volumes applications set on each, left and right
    MaxClicks,  \* clicks the user turns between two polls, at most
    LowestHdb,  \* bound: how far below the floor a side's own level is followed
    Events,     \* what else this instance allows
    Hasty       \* what a user may do sooner than the driver can follow

Phones == 1
Sides == {1, 2}
Steps == 0..StepMax

\* fail: control transfers fail; dim: DIM is switched; balance: the wheel is
\* turned with SELECT held; press: OUT is pressed; power: the unit suspends,
\* and a resume may fail.
AllEvents == {"fail", "dim", "balance", "press", "power"}

\* second: turns an output while another one's resync is due; switch: turns,
\* or presses OUT, before a poll has seen what came before; start: turns
\* before the first poll after a resume.
AllHasty == {"second", "switch", "start"}

ASSUME OutputsAssumption ==
    /\ Phones \in Outs /\ Outs \subseteq 0..5
    /\ Step0 \in Nat \ {0} /\ StepMax \in Nat /\ Step0 =< StepMax
    /\ StepDim \in 1..Step0 /\ Step8Min \in 1..Step0
    /\ WheelZones \in Seq(Int) /\ WheelSteps \in Seq(Nat \ {0})
    /\ Len(WheelSteps) = Len(WheelZones) + 1
    /\ \A i \in 1..Len(WheelSteps) : 2 * WheelSteps[i] < StepMax
    /\ Levels \in [Outs -> SUBSET [Sides -> Steps]]
    /\ MaxClicks \in Nat /\ LowestHdb \in Int
    /\ Events \subseteq AllEvents
    /\ Hasty \subseteq AllHasty

\* The outputs OUT selects, bf_panel_out_pair().
Pairs == Outs \cap 0..2

Moved == -1     \* an 8-bit register where the firmware's wheel has left it
Unknown == -2   \* a register that lost its value, or whose last write failed
NoOut == -1     \* the selection of no poll
NoStep == -1    \* panel_master_last of an output the wheel has not moved

VARIABLES
    master,     \* chip->master[][], in steps
    muted,      \* chip->muted[]
    dim,        \* chip->dim
    dim_saved,  \* chip->dim_saved[]
    wire,       \* each output's registers: 8-bit L, R and 16-bit L, R
    sel,        \* the unit's OUT selection
    clicks,     \* its wheel, counted from the last readback
    panel_out,  \* the OUT selection as last polled, an output pair
    last, hdb,  \* chip->panel_master_last[][], chip->panel_out_hdb[][]
    wheel_out,  \* chip->panel_out_wheel_out
    resync,     \* chip->panel_out_resync
    tick,       \* the poll in progress
    panel       \* the poll: stopped, started, or past its first readback

cache  == <<master, muted, dim, dim_saved>>
user   == <<sel, clicks>>
wheel  == <<last, hdb, wheel_out, resync>>
poll   == <<panel_out, tick, panel>>
vars == <<cache, wire, user, wheel, poll>>

----------------------------------------------------------------------------
\* What the registers of an output are to hold.
Reg8(step) == IF step = 0 \/ step >= Step8Min THEN step ELSE Step8Min

Out8(m, d, step)  == IF m THEN 0 ELSE IF d THEN StepDim ELSE Reg8(step)
Out16(m, d, step) == IF m THEN 0 ELSE IF d THEN StepDim ELSE step

Regs(m, d, s) == << Out8(m, d, s[1]), Out8(m, d, s[2]),
                    Out16(m, d, s[1]), Out16(m, d, s[2]) >>

Dimmed(o, d) == d /\ o = Phones

\* The registers of an output numbered in W are written, and those in Lost
\* of them fail: a failed transfer may have been executed.
Write(o, regs, W, Lost) ==
    /\ Lost # {} => "fail" \in Events
    /\ wire' = [wire EXCEPT ![o] = [i \in 1..4 |-> IF i \in Lost THEN Unknown
                                                 ELSE IF i \in W THEN regs[i]
                                                 ELSE wire[o][i]]]

\* The writes of a put go out in order and stop at the first that fails: which
\* of them the unit then has is left open.
WritesAll(o, regs) == Write(o, regs, 1..4, {})
WritesSome(o, regs) == Write(o, regs, {}, 1..4)

\* The poll does not look at the result of its writes.  Nothing depends on
\* which of them failed, so all of them do, or none.
WritesBlindly(o, regs, W) == \E Lost \in {{}, W} : Write(o, regs, W, Lost)

\* Mutant: DIM goes back to where it began.
SetMasterOnly(o, s) ==
    /\ master' = [master EXCEPT ![o] = s]
    /\ UNCHANGED dim_saved

\* A master of the phones that changes under DIM is where DIM goes back to.
SetMaster(o, s) ==
    /\ master' = [master EXCEPT ![o] = s]
    /\ dim_saved' = IF Dimmed(o, dim) THEN s ELSE dim_saved

Running == panel # "asleep"

Idle == [at |-> "idle", delta |-> 0, out |-> NoOut, held |-> FALSE]

Default(o) == [ch \in Sides |-> IF o < 2 THEN StepDim ELSE Step0]

Init ==
    /\ master = [o \in Outs |-> Default(o)]
    /\ muted = [o \in Outs |-> FALSE]
    /\ dim = FALSE /\ dim_saved = [ch \in Sides |-> 0]
    /\ wire = [o \in Outs |-> Regs(FALSE, FALSE, Default(o))]
    /\ sel \in Pairs /\ clicks = 0
    /\ panel_out = 0
    /\ last = [o \in Outs |-> [ch \in Sides |-> NoStep]]
    /\ hdb = [o \in Outs |-> [ch \in Sides |-> 0]]
    /\ wheel_out = 0 /\ resync = FALSE
    /\ tick = Idle
    /\ panel = "started"

----------------------------------------------------------------------------
\* The controls.  A put of the value cached returns at once.
MasterPut(o, s) ==
    LET regs == Regs(muted[o], Dimmed(o, dim), s)
    IN /\ Running
       /\ master[o] # s
       /\ \/ WritesAll(o, regs) /\ SetMaster(o, s)
          \/ WritesSome(o, regs) /\ UNCHANGED <<master, dim_saved>>
       /\ UNCHANGED <<muted, dim, user, wheel, poll>>

MutePut(o) ==
    LET regs == Regs(~muted[o], Dimmed(o, dim), master[o])
    IN /\ Running
       /\ \/ WritesAll(o, regs) /\ muted' = [muted EXCEPT ![o] = ~@]
          \/ WritesSome(o, regs) /\ UNCHANGED muted
       /\ UNCHANGED <<master, dim, dim_saved, user, wheel, poll>>

\* bf_dim_apply(): engaging remembers the master even if a write then fails.
\* The flag's write comes after the four of the phones.
DimPut ==
    LET on == ~dim
        s == IF on THEN master[Phones] ELSE dim_saved
        regs == Regs(muted[Phones], on, s)
    IN /\ Running /\ "dim" \in Events
       /\ dim_saved' = IF on THEN master[Phones] ELSE dim_saved
       /\ \/ WritesAll(Phones, regs) /\ dim' = on
          \/ WritesSome(Phones, regs) /\ UNCHANGED dim
       /\ UNCHANGED <<master, muted, user, wheel, poll>>

----------------------------------------------------------------------------
\* The user at the unit, and its firmware.
PressOut(o) ==
    /\ Running /\ o # sel /\ "press" \in Events
    /\ "switch" \in Hasty \/ clicks = 0 \/ panel = "stopped"
    /\ sel' = o
    /\ UNCHANGED <<cache, wire, clicks, wheel, poll>>

\* A click counts, and moves the analog level of the selected output.  It goes
\* the way of the clicks not yet polled.
Click(dir) ==
    /\ Running
    /\ clicks * dir >= 0 /\ clicks + dir \in -MaxClicks..MaxClicks
    /\ "second" \in Hasty \/ ~resync \/ wheel_out = sel
    /\ "switch" \in Hasty \/ (panel_out = sel /\ tick.out \in {sel, NoOut})
    /\ "start" \in Hasty \/ panel # "started"
    /\ clicks' = clicks + dir
    /\ wire' = [wire EXCEPT ![sel] = [@ EXCEPT ![1] = Moved, ![2] = Moved]]
    /\ UNCHANGED <<cache, sel, wheel, poll>>

----------------------------------------------------------------------------
\* The wheel's arithmetic, in half decibels.
Floor == 1 - Step0
Mute == Floor - 1
ToStep(db) == IF db < Floor THEN 0 ELSE db + Step0
ToDb(step) == IF step = 0 THEN Mute ELSE step - Step0

Louder(db) == IF db[1] >= db[2] THEN db[1] ELSE db[2]
AtLeast(x, y) == IF x >= y THEN x ELSE y
Abs(x) == IF x < 0 THEN -x ELSE x

OutWheelStep(half_db) ==
    WheelSteps[1 + Cardinality({i \in 1..Len(WheelZones) : half_db < WheelZones[i]})]

\* Mutant: a muted side comes back without its offset.
OutWheelLevelPlain(o, ch) == ToDb(master[o][ch])

\* The wheel's own count of a side, while the master is still the wheel's.
OutWheelLevel(o, ch) ==
    IF master[o][ch] = last[o][ch] THEN hdb[o][ch] ELSE ToDb(master[o][ch])

\* Mutant: nothing stops the wheel at the top.
OutWheelShiftPastTop(louder, step) ==
    IF louder < Floor THEN IF step < 0 THEN 0 ELSE Floor - louder + step
    ELSE IF louder + step < Floor THEN Mute - louder
    ELSE step

\* How far one click moves both sides.
OutWheelShift(louder, step) ==
    IF louder < Floor THEN IF step < 0 THEN 0 ELSE Floor - louder + step
    ELSE IF louder + step < Floor THEN Mute - louder
    ELSE IF louder + step > StepMax - Step0 THEN StepMax - Step0 - louder
    ELSE step

\* n clicks in a direction, the first fast or not, the rest fast.
OutWheelClicks(start, n, dir, fast) ==
    LET Shift(db, i) ==
            OutWheelShift(Louder(db),
                          dir * OutWheelStep(AtLeast(Louder(db), Floor))
                              * (IF fast \/ i > 1 THEN 2 ELSE 1))
        db[i \in 0..n] ==
            IF i = 0 THEN start
            ELSE [ch \in Sides |-> db[i - 1][ch] + Shift(db[i - 1], i)]
    IN db[n]

\* hold-SELECT: the louder side stays, the other moves by the distance's step.
BalanceClicks(db, delta) ==
    LET lim == Louder(db) - Mute
        bal[i \in 0..Abs(delta)] ==
            IF i = 0 THEN db[2] - db[1]
            ELSE bal[i - 1] + (IF delta > 0 THEN 1 ELSE -1)
                                * OutWheelStep(-Abs(bal[i - 1]))
        raw == bal[Abs(delta)]
        b == IF raw > lim THEN lim ELSE IF raw < -lim THEN -lim ELSE raw
    IN << IF b > 0 THEN Louder(db) - b ELSE Louder(db),
          IF b < 0 THEN Louder(db) + b ELSE Louder(db) >>

----------------------------------------------------------------------------
\* The poll: a readback, the wheel, the resync, the selections.  The first
\* one after a start only takes the state.
PollFirst ==
    /\ panel = "started"
    /\ panel' = "seen" /\ panel_out' = sel /\ clicks' = 0
    /\ UNCHANGED <<cache, wire, sel, wheel, tick>>

Poll(held) ==
    /\ panel = "seen" /\ tick.at = "idle"
    /\ held => "balance" \in Events /\ clicks # 0
    /\ tick' = [at |-> IF clicks = 0 THEN "resync" ELSE "wheel", delta |-> clicks, out |-> sel, held |-> held]
    /\ clicks' = 0
    /\ UNCHANGED <<cache, wire, sel, wheel, panel_out, panel>>

ThenResync == tick' = [tick EXCEPT !.at = "resync", !.delta = 0, !.held = FALSE]

\* Mutant: the firmware is left to move a muted output.
RemuteNot == UNCHANGED wire

\* A muted output ignores the wheel: the mute goes back over the firmware.
Remute == WritesBlindly(panel_out, Regs(TRUE, FALSE, << 0, 0 >>), {1, 2})

WheelMuted ==
    /\ tick.at = "wheel" /\ muted[panel_out]
    /\ Remute
    /\ ThenResync
    /\ UNCHANGED <<cache, user, wheel, panel_out, panel>>

\* While the wheel turns only the 16-bit registers are written.  A click is
\* taken to be fast, or not, by its distance from the one before.
OutWheel ==
    LET o == panel_out
        db == << OutWheelLevel(o, 1), OutWheelLevel(o, 2) >>
    IN /\ tick.at = "wheel" /\ ~tick.held /\ ~muted[o]
       /\ \E fast \in BOOLEAN :
             LET to == OutWheelClicks(db, Abs(tick.delta),
                                      IF tick.delta > 0 THEN 1 ELSE -1, fast)
                 s == << ToStep(to[1]), ToStep(to[2]) >>
             IN /\ fast => wheel_out = o
                /\ \A ch \in Sides : to[ch] >= LowestHdb
                /\ WritesBlindly(o, Regs(FALSE, Dimmed(o, dim), s), {3, 4})
                /\ SetMaster(o, s)
                /\ last' = [last EXCEPT ![o] = s]
                /\ hdb' = [hdb EXCEPT ![o] = << to[1], to[2] >>]
       /\ wheel_out' = o /\ resync' = TRUE
       /\ ThenResync
       /\ UNCHANGED <<muted, dim, user, panel_out, panel>>

BalanceWheel ==
    LET o == panel_out
        db == << ToDb(master[o][1]), ToDb(master[o][2]) >>
        to == BalanceClicks(db, tick.delta)
        s == << ToStep(to[1]), ToStep(to[2]) >>
    IN /\ tick.at = "wheel" /\ tick.held /\ ~muted[o]
       /\ IF Louder(db) < Floor
          THEN UNCHANGED <<master, dim_saved, wire>>
          ELSE /\ WritesBlindly(o, Regs(FALSE, Dimmed(o, dim), s), 1..4)
               /\ SetMaster(o, s)
       /\ ThenResync
       /\ UNCHANGED <<muted, dim, user, wheel, panel_out, panel>>

\* Mutant: the resync writes what the wheel last wrote, whatever came since.
WheelHasMasterAlways(o) == \A ch \in Sides : hdb[o][ch] >= Step8Min - Step0

\* Is the master still the wheel's, at levels the 8-bit takes?
WheelHasMaster(o) ==
    /\ master[o] = last[o]
    /\ \A ch \in Sides : hdb[o][ch] >= Step8Min - Step0

\* Then the rest of the poll: the resync, if BF_OUT_WHEEL_RESYNC_MS have passed
\* since the last click, and the selection read back.
PollEnds ==
    /\ tick.at = "resync"
    /\ \/ /\ resync /\ resync' = FALSE
          /\ IF WheelHasMaster(wheel_out) /\ ~muted[wheel_out]
             THEN WritesBlindly(wheel_out,
                      Regs(FALSE, Dimmed(wheel_out, dim), last[wheel_out]), 1..4)
             ELSE UNCHANGED wire
       \/ UNCHANGED <<resync, wire>>
    /\ panel_out' = tick.out
    /\ tick' = Idle
    /\ UNCHANGED <<cache, user, last, hdb, wheel_out, panel>>

----------------------------------------------------------------------------
\* suspend() waits for the poll; the unit loses its registers.
Suspend ==
    /\ Running /\ tick.at = "idle" /\ "power" \in Events
    /\ panel' = "asleep"
    /\ wire' = [o \in Outs |-> [i \in 1..4 |-> Unknown]]
    /\ UNCHANGED <<cache, user, wheel, panel_out, tick>>

\* What a resume leaves on an output: the masters, and DIM over them.
Restored(o) == Regs(muted[o], Dimmed(o, dim), master[o])

Resume ==
    /\ panel = "asleep"
    /\ wire' = [o \in Outs |-> Restored(o)]
    /\ dim_saved' = IF dim THEN master[Phones] ELSE dim_saved
    /\ panel' = "started" /\ clicks' = 0
    /\ last' = [o \in Outs |-> [ch \in Sides |-> NoStep]]
    /\ UNCHANGED <<master, muted, dim, sel, hdb, wheel_out, resync,
                   panel_out, tick>>

\* A resume that fails stops where it is, and the poll is not started.
ResumeFails ==
    /\ panel = "asleep"
    /\ panel' = "stopped"
    /\ UNCHANGED <<cache, wire, user, wheel, panel_out, tick>>

----------------------------------------------------------------------------
Controls == \/ \E o \in Outs : \/ \E s \in Levels[o] : MasterPut(o, s)
                               \/ MutePut(o)
            \/ DimPut

Unit == \/ \E o \in Pairs : PressOut(o)
        \/ \E dir \in {-1, 1} : Click(dir)

Panel == \/ PollFirst \/ \E held \in BOOLEAN : Poll(held)
         \/ WheelMuted \/ OutWheel \/ BalanceWheel \/ PollEnds

Power == Suspend \/ Resume \/ ResumeFails

Next == Controls \/ Unit \/ Panel \/ Power

Spec == Init /\ [][Next]_vars

----------------------------------------------------------------------------
TypeOK ==
    /\ master \in [Outs -> [Sides -> Steps]]
    /\ muted \in [Outs -> BOOLEAN] /\ dim \in BOOLEAN
    /\ dim_saved \in [Sides -> Steps]
    /\ wire \in [Outs -> [1..4 -> Steps \cup {Moved, Unknown}]]
    /\ sel \in Outs /\ clicks \in Int
    /\ panel_out \in Outs \cup {0} /\ wheel_out \in Outs \cup {0}
    /\ last \in [Outs -> [Sides -> Steps \cup {NoStep}]]
    /\ hdb \in [Outs -> [Sides -> Int]]
    /\ resync \in BOOLEAN
    /\ tick \in [at : {"idle", "wheel", "resync"}, delta : Int, out : Outs \cup {NoOut},
                 held : BOOLEAN]
    /\ panel \in {"stopped", "started", "seen", "asleep"}

\* Unless its last write has failed, a 16-bit register is what the controls
\* read: the volume, or mute, or DIM, whichever of put, wheel, balance, resync
\* or resume came last, and in whatever order DIM and the volume changed.
DigitalFollows ==
    \A o \in Outs, ch \in Sides : Running =>
        wire[o][2 + ch] \in {Out16(muted[o], Dimmed(o, dim), master[o][ch]), Unknown}

\* The driver has still to look at a turn of the output, or to resync it.
Owed(o) == \/ sel = o /\ clicks # 0
           \/ panel_out = o /\ tick.at = "wheel"
           \/ wheel_out = o /\ resync

\* Once nothing is owed, and while the poll runs, the firmware's own level has
\* been taken back: the analog level is what the controls read, and a muted
\* output is silent.  An output with a side below what the 8-bit register takes
\* is left to the firmware, unless it is muted.
AnalogSettles ==
    \A o \in Outs, ch \in Sides : panel \in {"started", "seen"} /\ ~Owed(o) =>
        \/ wire[o][ch] \in {Out8(muted[o], Dimmed(o, dim), master[o][ch]), Unknown}
        \/ ~muted[o] /\ \E c \in Sides : master[o][c] < Step8Min

\* The OUT wheel keeps the balance, also of a side that is muted on the way:
\* as the level rises again it comes back.
BalanceKept ==
    [][\A o \in Outs :
          master[o] = last[o] /\ hdb'[o] # hdb[o] =>
              hdb'[o][1] - hdb'[o][2] = hdb[o][1] - hdb[o][2]]_vars
=============================================================================
