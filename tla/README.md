# Babyface Pro driver: TLA+ models, checks and proofs

The repository holds `snd-usb-babyface-pro`, an ALSA driver for the RME
Babyface Pro in its proprietary USB mode. This directory models the driver,
checks the models with TLC and proves the main results with TLAPS.

Source lines below are of `src/tools/kernel/babyfacepro.c` unless said otherwise;
`ctl` is `babyfacepro-ctl.c`, `h` is `babyfacepro.h`.

## 1. Inventory

| Component | State | Operations | Hard behaviour |
|---|---|---|---|
| USB session and PCM operations (752-1440, 1793-1910) | `rate`, `urb_frames`, `urbs_active`, `session_dir`, `streaming`, `stream_users`, `stream_setup[]`, `owner[]`, `stream_stopped`, `shutdown`, `urb_err` | open, close, hw_params, hw_free, prepare, trigger, stream_start, stream_kill, pcm_stop_both, stream_work, disconnect, suspend, resume | trigger START runs without `chip->mutex`; the two directions share one clock and one URB geometry; stream_work, disconnect and suspend end sessions others use; every vendor write can fail |
| URBs and completion handlers (578-768) | URBs, `urb_err`, `out_inflight`, `in_done`, `subs[]` (RCU) | complete_in, complete_out, urb_error, urb_ok, urb_resubmit_failed, out_lost | handlers on several CPUs; atomics without a lock; a handler against kill, start, close |
| URB geometry and delay (40-71, 955-1017, 1254-1265, 1374-1425) | module parameters | bf_urb_frames, bf_split_period, bf_session_period, bf_delay | rounding to packets, unsigned arithmetic |
| PCM ring (481-577, 626-659, 1335-1338, 1427-1436) | `hw_ptr[]`, `prev_period[]` | the two copies, period_elapsed, pointer | the core infers the position modulo the buffer; a report after the stream lock is gone; wrap of a long counter |
| Output masters, mutes, DIM (ctl 300-700) | `master[][]`, `muted[]`, dim, `panel_out_*` | the puts; the poll's OUT wheel, resync | the unit moves its own level; the readback arrives later; a resync of 150 ms ago |
| Crosspoints and features over them (ctl 36-300, 700-1060, 1693-1980) | `xpoint[][][]`, phase, split, MS, trim, width, FX send, loopback | the puts, each under `chip->mutex` | one register, several controls; half-written puts; the order in which a resume replays |
| Preamps, routing flags, settings word (ctl 1132-1640; 76-266) | `preamp`, `ref_level`, `gain[]`, flags, `pitch` | the puts, settings_write, clock_write, pitch_write | words shared by several controls; a commit whose value ends another control's state |
| Hardware EQ (ctl 3360-3946) | bands, strips | bf_eq_put, update_strip, reupload | the rate changes what a block must hold; uploads that fail one by one |
| Table of the controls (ctl, the `_info`, `_get`, `_put` and create functions) | none of its own | snd_kcontrol_new fields, what info() declares and put() takes | two controls of one name; a value info() declares that put() refuses, so that alsactl cannot restore it |
| Front panel (ctl 2093-3198) | `panel_sel[]`, `panel_mix`, armed and seen flags, restore window | panel_tick, the wheels, SELECT, SET, MIX, start and stop | a poller that sees states, not events; selections that nothing reads back |
| Cold init, restore, resume (76-468, 1860-1910) | `bf_seen_keys[]`, every cached control | cold_init, restore_state, state_apply_flags, resume | a restore that fails in the middle |
| Probe, teardown (1471-1835) | allocations, card | probe, private_free | allocation failures |

How they interact: applications call the PCM operations and the control puts
through the ALSA core, which serialises the operations of one substream. The
host controller calls the completion handlers; they move audio through the ring
and schedule `stream_work`. `chip->mutex` serialises the PCM operations,
`stream_work`, the control puts, most of the panel poll, and most of
disconnect, suspend and resume. The handlers and trigger START hold no mutex:
they see `->streaming`, the RCU pointers `subs[]`, the atomic `urb_err` and what
`chip->lock` and the stream lock guard. A new rate goes from hw_params to the
settings word and to the equaliser; a resume replays every control.

What makes each component correct is stated as its properties in section 4.

## 2. Modules

| Module | Models | Composed with |
|---|---|---|
| `UrbGeometry` | the pure arithmetic of URBs; parameters as CONSTANTS with probe()'s clamps as the assumption | extended by `StreamSession` |
| `UrbContract` | what the URBs of a session and the rest of the driver promise each other: when they move, that a failure has its work asked for and is forgotten only when all is drained | extended by `SessionContract`; implemented by `UrbQueue` and, in `SessionContract`, by `StreamSession` |
| `SessionContract` | what the session promises, abstractly: whose the clock is, when the device may start, and of its URBs `UrbContract` | implemented by `StreamSession` |
| `StreamSession` | session and PCM operations | uses `UrbGeometry`'s sizes; sees the URBs as "in flight or not" |
| `UrbQueue` | the URBs and handlers of one session | the inside of `StreamSession`'s `UrbsFail`, `Kill`/`Reap` and `StartSubmit`; the two meet in `UrbContract` |
| `PcmRing` | one substream's ring | the inside of `StreamSession`'s RUNNING; assumes what `RingIsFed` gives: a period holds a URB, two periods all URBs |
| `Outputs` | the output masters, mutes and DIM, the OUT wheel, resync, suspend and resume | shares only `chip->mutex` with the session |
| `Curves` | master scale, fader curve, the level the MIX wheel shows | extended by `Mixer` and `ControlMap` |
| `Registers` | what a register holds whose write failed | extended by the three below |
| `Mixer` | crosspoints, phase, split, MS, trim, width, FX send, loopback | |
| `Preamps` | 48 V, pad, ref level, gains, AN 1>2, link, clock source, optical format, pitch | |
| `Eq` | the equaliser's parameters and blocks | |
| `Surface` | `Mixer`, `Preamps` and `Eq` on one device, with rates, suspends, resumes and failures | |
| `Panel` | the unit's buttons and wheel, the poll, the selections' puts, alsactl, stop and start | |
| `ControlMap` | name, index, info, put's checks, defaults and registers of every writable control | the table behind `Mixer`, `Preamps`, `Eq`, `Outputs` and `Panel` |
| `MC*` | the instances TLC checks; `MCPureFunctions` sweeps `UrbGeometry`, `Curves` and `ControlMap` | |
| `*_proofs` | theorems and proofs of the module of that name; `PureFunctions_proofs` those of `MCPureFunctions` | |

### StreamSession and the code

`chip->mutex` is `holder`; a holder's work is cut into steps (`job`, `at`), one
per state that a party without the mutex could observe. For hw_params at
another rate that is: checks (`HwParams`, or `RefuseParams` for its three early
returns), `Kill`, `Reap`, `StopPlayback`, `StopCapture`, `SetInterface`, then
one of the five `Geometry...` outcomes and `CountUser`. prepare is `Prepare`
when the session runs, else `PrepareStarts`, `StartTrigger` (after the gap),
`StartLive`, `StartSubmit`, `StartArm`; every step may fail into `Kill`.
`Reaped` is what follows a kill, by who killed. trigger START is two steps,
`Start` (the test of `->streaming`) and `StartDone` (the test of rate and
period), because a kill may come between; the stream lock held across them is
the state STARTING, for which pcm_stop_both waits.

Substream states are the ALSA core's; what call a state permits is external and
noted as such in the map, as is the core's hw_free after a refused hw_params.
close()'s wait in flush_work is the guard of `Flush`: CLOSING is a close that has
got past it, and `WaitsEnd` is about what follows. That work which is queued ends
says the same of the wait, as long as it is not queued again and again.
An application makes one call at a time on a substream. Rates and periods are
those of a few applications; the bytes of frames are left out. EQ re-upload and
what resume writes change no session state.

`Contract` maps this to `SessionContract`: the clients are `stream_setup[]`,
`live` is `->streaming`, `moving` the URBs in flight, `fatal`, `pending` and
`worker` the failed count and the work it schedules, `gone` the flag that
disconnect sets, `rested` the gap, which a kill that still reaps its URBs has not
had yet. There is no mutex, no substream state, no failure in the contract; a hw_params at another
rate is `End`, `Drain`, `Retune` and `JoinResized` or `Join`, with whatever
others do in between.

### UrbQueue and the code

Each URB has a program counter (`ust`), so each atomic access of a handler is an
action: `urb_ok` is a read and a compare-and-swap loop, `urb_error` an
increment, `urb_resubmit_failed` a set. usb_kill_urb is `KillBegins` (reject and
unlink) and `KillEnds` (after the handler). Two reductions: `schedule_work` and
the `bf_out_lost` that follows it are one action, and an OUT URB that completes
with an error counts as not sent. Left out: URBs that retire with -ENODEV or
-ESHUTDOWN before disconnect() has begun; disconnect() kills the session either
way.

`Contract` maps this to `UrbContract`: URBs move from the first one submitted
until none is queued or in a handler, `fatal` is the count at its limit, and work
is pending from the moment a handler has decided to schedule it. `StreamSession`
implements the same contract with a failure as one step and the URBs as in
flight or not. Each of the two thus keeps what follows from the contract alone
(`Watched`, `ForgottenDrained`); that a step of `StreamSession` is exactly some
steps of `UrbQueue` is not claimed.

### PcmRing and the code

`Copy` is a completion handler under the stream lock, `Elapsed` its
snd_pcm_period_elapsed after the lock. The core is external: it derives its
position from `pointer()` modulo the buffer (`Look`), stops the substream when
the whole ring is the application's, and wakes a sleeper that has a period. Its
time-based guess of a missed wrap is left out: the driver should not need it.
Ghost variables (`turn`, `lag`, `late`) record what really happened to each
slot. Handlers of one endpoint run one at a time, as the host controller gives
URBs back.

### Outputs and the code

`master`, `muted`, `dim`, `dim_saved` are the cache, `wire` the four registers
of each output: the 8-bit pair is the analog level, the 16-bit pair the digital
one. A put (`MasterPut`, `MutePut`, `DimPut`) is one action, all of its writes
and the cache: it holds the mutex throughout. A poll is cut where it leaves the
mutex: `Poll` (the readback), one of `WheelMuted`, `OutWheel` and
`BalanceWheel`, `PollEnds` (the resync and the selection read back); puts come
in between. The unit is external: `Click` counts and moves the analog level by
the firmware's own hand (`Moved`), `PressOut` selects. Whether a click was
fast, and whether 150 ms have passed before a resync, are left open. A failed
write leaves the register `Unknown`, since a transfer that timed out may have
been executed. `Hasty` names what a user may do sooner than the driver follows;
the runs leave it empty (see the hazards in PROJECT.json: with any of its
members `AnalogSettles` fails).

### Surface and the code

`chip->mutex` is held throughout a put, so each put is one action: the writes,
then the cache when all of them went through (`ok`), and `Unknown` in the
registers when one failed, since a transfer that timed out may have been
executed and those after it were not tried. `Mixer`'s `slot` is one register of
an output's block; faders, phase, split, MS, trim and width write over one
another there, as in the code, and leave `xpoint[][][]` alone. `Preamps` keeps
words as sets of flags; `Word`, `Commit` and `GainRaw` are how the code composes
them, from the cache. `Eq` keeps a block per strip as the parameters it is
computed from, rate included; the biquad arithmetic is left out. `Surface` adds
`RateSet` (what a hw_params at another rate writes of the settings word and the
equaliser), `Suspend`, `Resume` (`RestoredSlots` is restore_state()'s and
state_apply_flags()'s order of writing) and `ResumeFails`. The ALSA core, which
is external, keeps puts off a suspended card.

### Panel and the code

`Poll` is the whole of `bf_panel_tick()`, from one readback; each field it sets
has an operator (`SelNow`, `GainNow`, `PhantomNow`, `Seeds`...). `SelectPut` is
`bf_panel_select_put()`, which alsactl calls in the first three seconds
(`Restore`) and a user later (`Tell`); `Stop`, `Wake` and `Start` are
panel_stop() and panel_start() at a suspend, a shutdown or an unbind, a resume
and a probe. The unit is external, from what the driver's comments and docs say
of it: a button flashes for several polls (`Release`), SELECT steps only once it
shows (`lit`), a mode that the host asked for shows later (`ShowMode`). `meant`
is a ghost: what the user's presses and clicks ask for. The user waits for the
flash to end and for the poll (`Ready`, `WheelPolled`); between two polls he may
turn the wheel once and press once. A crosspoint has its two sides; the wheel
has the one level `panel_mix_db2`, seeded from a left side (`Seed`) and written
to both sides of all it moves (`BothAt`), while an application sets each side
(`AppPut`). `Hasty` names two things that wait besides: with "app" applications
move faders while MIX is on (finding 3), with "blind" the user presses SELECT
before the driver has seen the IN position (the note after the findings).

### Curves, ControlMap and the code

Both are pure. `Curves` computes with the driver's integers and rounding.
A control of `ControlMap` is a kind and its private_value; `Info`, `Default`,
`Takes`, `Cached` and `Read` are info(), the state after probe, put()'s checks,
what put() caches and get() of it; `Id` and `Registers` are its name and index
and the requests and indices that its put writes. A put gets a `long`; faders,
masters, FX send, pitch and width check it and then narrow it (`CheckedFirst`,
ctl 1425-1430, 1880-1888), trim, gain and the equaliser narrow it to an `int` and
check that (`S32`, with the constant `IntHalf` for the width of an int).

## 3. Runs, bounds and fairness

| Run | Instance | Shows |
|---|---|---|
| geometry | frames_per_urb 8, 24, 40, 256; minimum 8, 24, 32; 2, 3, 8 URBs; all nine rates, every split, periods 1..300; all raw levels; all 197 controls, from their defaults, with puts at, inside and beyond their limits and an int's | every rounding and clamp fires; the split window 128..256 is inside; `ClickKeepsDirection`, `StoreRestores`, `OwnRegisters` |
| session_core | 2 applications, rates 48000 and 176400, periods 40 and 128; interface, trigger and URB failures | `RunningFits`, `WholePackets`, `NoForeignStop`, `RateHeld` |
| session_faults | 2 applications, both rates, period 128; every failure, unplug and suspend | accounting, unplug, suspend (`SessionHasUser`, `QuietWhenAway`); `KeepsContract`, the refinement |
| session_failed_start | 1 application, arm failure | violation: finding 1 |
| session_liveness | 1 application, both directions; URB failures, unplug and suspend | `RunningIsServed`; failures, disconnect, close, suspend end; blocked applications wake |
| queue | 1 URB of each direction, limit 2, every event | two handlers and the session at every atomic access; a lost URB stops the session; `KeepsUrbContract`, the refinement |
| ring | four rings: buffer 9 or 12 with period 4 for playback, 9 or 8 for capture, URBs of 1 to 4 frames | URB does not divide the period, nor the period the buffer; exactly two periods; sleepers wake |
| ring_wraps | buffer 12, `LongMod` 32 | violation: finding 2 |
| outputs | two scenes: the phones alone with DIM, balance and suspends; AN1/2 and the phones, OUT pressed, writes fail | `DigitalFollows`, `AnalogSettles`, `BalanceKept` |
| surface | 2 outputs, 2 inputs, 1 playback pair; 2 strips of 2 bands; 2 rates; in each behaviour one of eleven groups of controls that share registers | `NothingStale`, `SharedWords`, `EqFollows`, `FailureKeepsControls` |
| panel | 2 IN pairs, 2 OUT positions, gains of 0 and 1, MIX levels mute, 0, 1; in each behaviour one of nine groups of gestures | `SelectionAgrees`, `PhantomAsMeant`, `GainAsMeant`, `MixAgrees`, `MixClickIsOneStep` |
| panel_mix_jump | the same; applications set the two sides of a fader apart before MIX | violation: finding 3 |

Why the bounds are enough. Two applications and two directions are all the
driver distinguishes (`owner[]` is compared, never ordered). The two rates have
different packet sizes; of the two periods one fits the other's session and one
does not, in both orders. 40 frames fit no URB at the high rate's smallest size,
so refusal happens. `BF_URB_ERR_STOP` is 3 in the code (h 86); two with two
URBs has an error per URB and the count reaching the limit, and the handlers
compare the count with the limit only. Counters are bounded by the code itself
(`stream_users`, `out_inflight`, `urb_err`), except `hw_ptr`, which wraps at
`LongMod`: in the run ring that is a multiple of every buffer, so that the wrap
is not the question there. In `Outputs` three steps have one at the top, one at
0 dB and one below what the 8-bit register takes (`Step8Min` 2), and mute below
them; `MaxClicks` is the clicks of one poll, `LowestHdb` the lowest count that a
turn from the top to mute gives a side that was muted by balance; `Levels` what
applications set. In `Surface` the two outputs are those that MS and width
write, with the phases, trims and faders of the two inputs under them; controls
that share no register are in no group together, since no property relates them.
`IntHalf` is 2^31 in the driver's builds and 2^28 in the run, since TLC's own
integers have 32 bits: the sweep puts longs on both sides of `IntHalf` and of
`2 * IntHalf`; the theorem holds for any width that C allows an int.
In `Panel` a gain of two values clamps at both ends; the MIX scale has the mute,
the first point above it and the top; the wheel has four counts so that both
ways round occur, and wraps.

Two runs have a VIEW (`MCView` in `MCOutputs` and `MCPanel`) that leaves out state
which nothing reads before it is written again: where DIM goes back to while DIM is
off, the last store of the selections except on the way to its restore, the level of
the MIX wheel while MIX is off, the wheel's count of another mode.

Fairness. The holder of the mutex moves (transfers time out after a second,
kills end, msleep ends): WF. Waiters for the mutex get it, since a kernel mutex
hands off: SF. Work that is queued runs. The core's hw_free after a refused
hw_params and the rest of a close come. Handlers run to their end. In
`PcmRing` the URBs of a live session keep completing. Nothing is assumed of
applications, of the device or of the bus.

CHECK_DEADLOCK is FALSE for the sweep, which ends at its last input, and for
`Surface` and `Panel`, where everything is an application's or a user's choice:
a behaviour whose group of gestures has none left, after a shutdown for example,
stops. `StreamSession` stutters explicitly in `Gone`, when the card is gone and
nobody has it open.

## 4. Properties

Session: `RunningFits`, `RunningHasSession`, `RunningIsServed`, `WholePackets`,
`SessionHasUser`, `QuietWhenAway`; what a step may never do:
`NoForeignStop`, `RateHeld`; `KeepsContract`; liveness: `FailureStops`,
`BlockedWakes`, `WaitsEnd`.
Queue: `InflightIsExact`, `NoUseAfterClose`, `NoReplay`, `RetiresWhenStopped`,
`KeepsUrbContract`, `LostUrbStops`. Pure parts: `WholeUrbs`, `QueueFitsPeriod`, `DelayBounded`,
`ClickKeepsDirection`, `StoreRestores`, `OwnRegisters`. Ring:
`CoreKeepsUp`, `AvailIsReal`, `LateIsCaught`, `PointerMovesOn`, `SleeperWakes`.
Outputs: `DigitalFollows`, `AnalogSettles`, `BalanceKept`. Surface:
`NothingStale`, `SharedWords`, `EqFollows`, `FailureKeepsControls`. Panel:
`SelectionAgrees`, `PhantomAsMeant`, `GainAsMeant`, `MixAgrees`,
`MixClickIsOneStep`, and in panel_mix_jump `ClickMovesEachSide`.
Proved, and in no passing run: `RunningHasSession` (under its condition),
`NoStrayUrbs`, `RingIsFed`, `SleepLosesNothing`, `Watched` of both models and
`ForgottenDrained` of the queue.
Each is explained above its definition, and each that a passing run checks has a mutant of the code (an
operator next to the definition it replaces) that breaks it.

### Findings

1. A start that fails once the session is live (a URB submission, the arm
   write) does not stop the substreams (910-914), although
   `docs/REVIEW-WORKQUEUE-AUDIT.md:38-41` says it does. A START of the other
   direction that came in between stays RUNNING without a session. So
   `RunningHasSession` is proved for starts that do not fail so late, as is the
   stronger `RunningIsServed`, which a run checks; its violation otherwise is the
   run session_failed_start.
2. When `hw_ptr` wraps, `hw_ptr % buffer_size` jumps unless the buffer is a
   power of two: with 32-bit longs after 6.2 hours at 192 kHz (run ring_wraps).
3. The MIX wheel has one level for both sides of all the faders it moves. It is
   taken from the left side of the first channel's (ctl 2228) when MIX begins and
   when SELECT moves, and a click writes it everywhere (ctl 2285-2292), although
   the comment at ctl 2242-2243 says "one wheel click in fader mode = +/-0.5 dB on
   the SELECT-chosen channel(s)". A fader that an application has muted on the
   left and not on the right loses its right side at one click down (run
   panel_mix_jump). So does the second channel of "both" if it was elsewhere, and
   a fader that an application moves while MIX is on jumps back to where it was
   (with "app" in `Hasty` the run panel fails `MixClickIsOneStep`). What a click
   does keep is `MixClickIsOneStep`: everything chosen goes to one step from that
   left side.

Close to a finding: the comments at ctl 374 and 573 say "Check before narrowing",
and trim, gain and the equaliser do not (ctl 1012, 1284, 3791). Where a long has
64 bits, 2^32 is then taken as 0 dB, though info() does not declare it. Nothing
undeclared is cached, and what is cached is restored: `StoreRestores` says that,
and that only these three kinds and switches take what they do not declare.

A note on what the panel's runs leave out. The IN position shows in IN mode
only, and the driver takes up a pair's restored selection when it has seen it
(ctl 2771-2777, 2840-2850). After a boot in OUT mode SELECT presses are
therefore not counted (ctl 2866-2868), and the selection that alsactl restored
is then wrong, although `babyface-pro.rst:186-188` says that it is wrong only if
it was changed while the driver was not running. The assumption that a user
first lets the driver see the position (`Hasty` without "blind") came out of the
proof of `SelectionAgrees`, which without it is not inductive.

Two more things are left out there. A click that an OUT, SET or MIX press follows
before the next poll is not made: where the mode has changed the driver counts no
click (ctl 2797-2814). A driver is not unbound while MIX is on, so that the first
poll never finds the unit in fader mode (ctl 2781-2782); there the driver takes
MIX as on, with a level of 0 dB that was not seeded. A suspend or a shutdown in
MIX is in the run: the unit without power leaves the mode, and the driver the
MIX that it had when its first poll comes.

## 5. Proofs

`UrbGeometry_proofs` proves `WholeUrb` and `QueueFitsItsPeriod` for every rate,
period and parameters, under `GeometryAssumption` (the clamps of probe()), from
lemmas on rounding. The division lemmas are the only nonlinear steps. In the same
way `OnlyTooShortIsRefused`, `BufferHoldsUrb`, `DelayNeverWraps` (for any count in
flight and any time since the last completion) and `DelayStaysBounded`.

`PureFunctions_proofs` proves of the sweeps what TLC finds for their values.
`UrbsAreWhole`, `QueuesFit` and `DelaysAreBounded` cite the theorems above
through an INSTANCE of `UrbGeometry_proofs`, for any set of parameters within
probe()'s clamps (`SweepAssumption`) and for every period. `StoresRestore` goes
through the kinds of control: `AnyValueRestores` is about every long, and every
item of an enumeration, that an application may put. What narrowing does to it
are the lemmas `Narrowed` and `ItemNarrowed`: nothing to what fits an int, and no
item becomes another that is declared. That an int has sixteen bits or more is
all that the assumption on `IntHalf` says.

`ClicksKeepDirection` is about the curves. The master scale is a twelfth of an
octave shifted by whole octaves and rounded: within an octave it rises because
the twelfths are further apart than the divisor from -50 dB on (`RisesInOctave`),
and from one octave to the next because the last twelfth stays as far below the
next octave's first (`RisesToOctave`). On the fader curve every raw
value has a place, a segment and the half decibel nearest to it (`RawIsPlaced`,
whose segment exists because a finite set of candidates has a least); a click
then goes to the segment's middle or ends, and `OnTheCurve` compares those with
the value for each of the three places. The level shown is piecewise linear and
does not fall where two slopes meet (`DisplayRises`).

`RegistersAreOwned` is about the table of controls. Names tell the kinds apart
(`KindsByName`) but for faders and masters, which the source's or output's name
does. Of registers, what overlays one another on purpose stays inside the six
outputs' blocks of 52 (`OverlaysOnBlocks`), off the crossings of stereo sources;
everything else stays outside them (`OtherRegisters`, `BlocksAreOverlays`), and
two faders never meet (`FadersApart`: blocks and offsets are apart).

`StreamSession_proofs` proves, for every number of applications and every set
of rates and periods, the inductive invariant `TypeOK /\ SessionInv`
(`SessionInvariant`), and from it `TypeCorrect`, `RateStaysHeld` and
`NoForeignStops`. The parts of `SessionInv` say who may hold the mutex for
which job at which step (`LockDiscipline`), what `->streaming` is at each step
(`FlagFollows`), that `stream_users` counts the set-up substreams
(`UsersFollow`), that a retune or resize under way is nobody else's clock
(`ClockIsOurs`), and how unplug and suspend bear on the substreams
(`OutsideFollows`). `RateHeld` alone is not inductive: between hw_params' check
and its SET_INTERFACE the mutex is held for many steps, and one must know that
nobody is set up meanwhile, which is `ClockIsOurs` with `LockDiscipline`.

With `NoLateFailure` (finding 1) the invariant extends by `IdleIsQuiet`: without
a session nothing runs, except between a kill and the stop of both substreams.
From it follow `RunningFitsSession` and `RunningSessions`.

Its second half adds, whatever fails, `StopsFollow` and `GeometryFollows`, both
inductive on top of the invariant above, and from them `UrbsDoNotStray`,
`PacketsStayWhole`, `SessionsHaveUsers` and `AwayIsQuiet`. `StopsFollow` has to
say more than its properties: that past a disconnect's kill nobody is in the
middle of a kill or of a start, that a suspended system has no call of a
direction in progress and is not being unplugged, and that a session without a
user is one which the last hw_free is about to stop. `GeometryFollows` names the
one interval in which the URBs are not whole packets of the rate: between
SET_INTERFACE and the geometry that the same hw_params chooses, without a
session.

`DriverKeepsContract` is the refinement, for any number of applications and
whatever fails. The initial state maps to one of the contract's; each action
maps to one of its actions or leaves the contract's variables alone
(`ContractStep`, one case per action; `ContractStutters`). It needs
`ContractFollows` as well: that the gap is over from the trigger to the moment
the session is live, since nobody stops one meanwhile, and that a direction not
set up or let go of is no client. The guards of the contract then come from the
invariants: that a retune or a resize is at the wish of one to whom all clients
belong from `ClockIsOurs`, that the session is drained by then from
`StopsFollow`, that it starts with whole packets from `GeometryFollows`, that a
failure is forgotten only by work that finds all drained from `StopsFollow` too.
From the contract alone comes `FailuresAreWatched`, the safety half of
`FailureStops`: a live session whose URBs have failed has its work asked for or at
work, or the device is gone.

`RunningIsAlwaysServed` (`RunningIsServed`) is the safety half of `BlockedWakes`: a
running substream without URBs in flight has a start about to send them, or a stop
on its way to it. It needs `ServeFollows`: a live session's URBs are out from the
submission to the end of a kill, so only a start's own failure kills without a
stop, and that is what `NoLateFailure` leaves out. `RingsAreFed` discharges what
`PcmRing` assumes of its ring, that a period holds a URB and two periods all of
them, from `RunningFits` and `GeometryInRange`.

`UrbQueue_proofs` proves `QueueInv` (`QueueInvariant`) for any number of URBs in
each direction and any error limit; the run has one of each. It gives
`InflightStaysExact`, `CloseWaits`, `NothingReplayed`, `HandlersRetire`,
`StartsAreClean` and `LostUrbsAreNoticed`. `PhasesFollow` says which URBs are the
driver's own while a start or a kill goes through them; `BufferFollows` where a
buffer may hold audio that has been sent; `LimitHolds` that the count, once a
handler has seen it at the limit, stays there until the session is stopped: the
handler that clears compares with what it read, and that was below the limit.

`QueueKeepsContract` is its refinement of `UrbContract`, one case per atomic
access. Most handlers' steps are stutters; the ones that count are the increment
that reaches the limit and the failed resubmission (`Fail`, with the work decided
but not yet queued), the last URB to retire, in a handler or in a kill (`Drain`),
and the reset in stream_work (`WorkEnds`, which
`PhasesFollow` and `LimitHolds` let happen only with everything back). From the
contract alone follow `FailuresStayCounted` and `FailuresAreWatched`.

`Outputs_proofs` proves `DigitalFollows` (`DigitalLevels`) for every scale of
steps and zones, every failure and the hastiest user. It needs three more parts:
`DimReturns` (under DIM, `dim_saved` is the phones' master, or switching DIM off
would write an old volume), `AsleepHoldsNothing` (so that a resume that fails
leaves no stale register) and `PollAwake` (a suspend waits for the poll). What
the wheel computes does not matter to it, so its recursive functions stay folded.

They matter to the other three. `OutputTypes` and `BalanceStays` (`BalanceKept`)
follow what the wheel computes click by click, for any number of clicks of a
poll and any scale: `SetInduction` is induction stated with a set of numbers in
place of a predicate, from the least element of a well-founded set, so that it
takes no operator; `Recursion` says that the function which a step defines from
its predecessor exists, which unfolds `OutWheelClicks` and `BalanceClicks`.
`AnalogLevels` (`AnalogSettles`) holds for a user no quicker than the driver
(`Hasty` empty: without it TLC finds a violation). Its invariant `SettleInv`
adds `Settled` (the registers are right, or the wheel's turn or a resync is
still owed, or the level is below what 8 bits hold) and `OneTurn` (the turn that
is owed and the resync are of one output).

`PcmRing_proofs` proves `CoreKeepsUp`, `AvailIsReal`, `LateIsCaught` and
`PointerMovesOn` for every ring that hw_params lets through. The hypothesis
`[]WrapsEvenly` is that `hw_ptr` has not come to its wrap at `LongMod`, or that
the buffer divides `LongMod`; finding 2 is what happens otherwise. The invariant
unrolls the ring from the application's position: the `avail + lag` slots ahead
of it are the application's, the others the device's (`TurnInStep`), and the
pointer is `lag` ahead of what the core has seen (`PointerInStep`). The heart is
`LagBounded`: between two reports `lag` is at most `hw_ptr % Period`, or a URB
more while the handler that crossed the boundary has still to report, so the
core never has a whole buffer to make up for. Division by a size that is not
constant is confined to the lemmas at its head. `SleepersLoseNothing` is a
consequence about the application: while it sleeps the core offers it less than a
period, until a report is due the device has done less than a period more, and
two periods fit the ring, so the device is on none of its frames.

`Panel_proofs` proves all five panel properties, for any positions, curves, gain
ranges and wheel: `MixTogether` without a hypothesis, `SelectFollowed`,
`PhantomFollowsSet` and `GainFollowsWheel` for a user who is not "blind",
`ClickMovesOneStep` where no application moves a fader while MIX is on, about
both sides: `LevelFollowed` is the strengthening, that the wheel's level is the
left side it started from unless that is muted. The
properties speak of settled states. The invariant speaks of what the next poll
will make of any state: a press, a turn or a mode on its way is already in
`SelNow`, `PhantomNow` and `GainNow`, and these agree with the unit
(`SelFollowed`) and with the user (`PhantomFollowed`, `GainFollowed`). `MixInv`
orders the presses, the requests for a mode and what the driver has seen of
them; `Dark` and `ArmedFollowed` say when the selection shows and that the
driver knows it.

`Surface_proofs` proves `NothingGoesStale`, `WordsStayShared`, `EqAlwaysFollows`
and `FailuresKeepControls` for every set of outputs, inputs, strips, values and
groups of controls. `SurfaceInv` has a part for each of the three components, and
no put of one touches another's (`SurfaceStaysInStep`). The mixer's needs one
strengthening, `TrimPairs`: the two channels of a pair have one trim, because a
resume sends the first channel's to both. Its argument is one lemma,
`WriteExplained`: after a put that leaves its own registers as the controls
explain them, and changes what no other register depends on, nothing is stale.
What the curves compute is not used, so they stay folded.

Each part has a step lemma with one case per action.

Every invariant and action property that a passing run checks is the property of
a theorem. Only model-checked: liveness (`FailureStops`, `BlockedWakes`,
`WaitsEnd`, `LostUrbStops`, `SleeperWakes`), which is beyond this prover, though
the safety halves named above are proved.

## 6. Not modelled

- probe()'s allocations and private_free(): a straight line. The state that a probe
  leaves is the initial state of the modules.
- The panel's read-only events (last button, wheel count, DIM presses), the
  levels shown on the input meters while MIX is on, the plain reads of single fields between the
  poll and a put, and the poll's changing period: a SELECT press is
  taken for held after ten polls, however long they are (ctl 2827).
- The layout of audio frames, the biquad arithmetic, the words of the
  varispeed quad, logging.
- The kernel test programs, which exercise a real card, the capture and analysis
  tools, and packaging, whose patches are generated copies of the driver.
- Hazards that no property covers are in PROJECT.json, each with its reason:
  a user quicker than the resync, a failed EQ put that stays cached, the hold in polls.
