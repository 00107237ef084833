------------------------------ MODULE PcmRing ------------------------------
(***************************************************************************)
(* The ring buffer of one substream between the application and the URB    *)
(* handlers: the driver's hw_ptr, which grows by a URB at a time, the      *)
(* period wake-ups, and the position the ALSA core derives from pointer(). *)
(*                                                                         *)
(* A handler copies under the stream lock and calls period_elapsed after   *)
(* leaving it, so the application may stop, prepare and start again in     *)
(* between.  The handlers of one endpoint run one at a time, in order: the *)
(* host controller gives back an endpoint's URBs that way.                 *)
(*                                                                         *)
(* The core is external.  It sees only pos = hw_ptr % buffer_size, takes a *)
(* position behind the last one for a wrap, and stops the substream once   *)
(* the whole ring is the application's.  Its fallback by elapsed time is   *)
(* left out: the driver must not need it.                                  *)
(***************************************************************************)
EXTENDS Integers

CONSTANTS
    Rings,       \* the set-ups of a substream that hw_params lets through
    Chunks,      \* how many frames the application moves at a time
    LongMod      \* 2^BITS_PER_LONG, where hw_ptr wraps

\* open() and hw_params(): a period holds a URB, a buffer two periods.
ASSUME RingAssumption ==
    /\ LongMod \in Nat
    /\ Rings \subseteq [direction : {"playback", "capture"},
                        buffer : Nat, period : Nat, urb : Nat \ {0}]
    /\ \A r \in Rings : /\ r.urb <= r.period /\ 2 * r.period <= r.buffer
                        /\ r.buffer < LongMod
    /\ Chunks \subseteq Nat \ {0}

VARIABLES
    ring,         \* what hw_params set up: it stays as long as the substream does
    state,        \* the substream's state
    hw_ptr,       \* chip->hw_ptr[]
    prev_period,  \* chip->prev_period[]
    elapse,       \* a handler that crossed a period has still to say so
    core_pos,     \* where the core last saw the device
    app_pos,      \* the application's position
    avail,        \* frames the core offers the application
    asleep,       \* the application waits for a period of them
    turn,         \* who is to use each slot next: the device or the application
    lag,          \* frames moved since the core last looked, up to Buffer
    late          \* frames the device moved on the application's slots, up to Buffer

Direction == ring.direction
Buffer    == ring.buffer    \* runtime->buffer_size
Period    == ring.period    \* runtime->period_size
Urb       == ring.urb       \* the frames of one URB
Slots     == 0..(Buffer - 1)

device == <<hw_ptr, prev_period>>
core   == <<core_pos, app_pos, avail, asleep>>
ghosts == <<turn, lag, late>>
vars   == <<ring, state, device, elapse, core, ghosts>>

\* An empty playback ring, and an empty capture ring.
Empty == /\ core_pos' = 0 /\ app_pos' = 0
         /\ avail' = IF Direction = "playback" THEN Buffer ELSE 0
         /\ turn' = [s \in Slots |-> IF Direction = "playback" THEN "app" ELSE "device"]
         /\ lag' = 0 /\ late' = 0
         /\ UNCHANGED asleep

Init ==
    /\ ring \in Rings
    /\ state = "setup" /\ elapse = FALSE /\ asleep = FALSE
    /\ hw_ptr = 0 /\ prev_period = 0
    /\ core_pos = 0 /\ app_pos = 0
    /\ avail = IF Direction = "playback" THEN Buffer ELSE 0
    /\ turn = [s \in Slots |-> IF Direction = "playback" THEN "app" ELSE "device"]
    /\ lag = 0 /\ late = 0

----------------------------------------------------------------------------
\* Mutant: the period count is left over from the last run.
ResetPointerOnly == hw_ptr' = 0 /\ UNCHANGED prev_period

\* prepare and trigger START begin the ring again.
Reset == hw_ptr' = 0 /\ prev_period' = 0

Prepare ==
    /\ state \in {"setup", "prepared", "xrun"} /\ ~asleep
    /\ state' = "prepared"
    /\ Reset /\ Empty
    /\ UNCHANGED elapse

\* The core starts a playback substream only once something is written.
Start ==
    /\ state = "prepared" /\ (Direction = "playback" => avail < Buffer)
    /\ state' = "running"
    /\ Reset
    /\ UNCHANGED <<elapse, core, ghosts>>

Drop ==
    /\ state \in {"prepared", "running", "xrun"} /\ ~asleep
    /\ state' = "setup"
    /\ UNCHANGED <<device, elapse, core, ghosts>>

----------------------------------------------------------------------------
SlotsFrom(first, n) == {(first + i) % Buffer : i \in 0..(n - 1)}

\* Mutant: a period boundary inside a URB is not one.
CrossesExactly(next) == next % Period = 0

\* Mutant: the count is compared before hw_ptr moves.
CrossesStale(next) == hw_ptr \div Period # prev_period

\* Does moving on to next cross a period boundary?
Crosses(next) == next \div Period # prev_period

\* Mutant: hw_ptr moves by a whole URB, whatever the URB carried.
MovedByUrb(frames) == (hw_ptr + Urb) % LongMod

\* Mutant: an underrun holds hw_ptr where the application has written to.
MovedByWritten(frames) ==
    IF \E s \in SlotsFrom(hw_ptr % Buffer, frames) : turn[s] = "app"
    THEN hw_ptr ELSE (hw_ptr + frames) % LongMod

MovedBy(frames) == (hw_ptr + frames) % LongMod

UpToBuffer(n) == IF n <= Buffer THEN n ELSE Buffer

\* A handler copies the frames of a URB and moves hw_ptr past them.
Copy(frames) ==
    LET touched == SlotsFrom(hw_ptr % Buffer, frames)
        next    == MovedBy(frames)
    IN  /\ state = "running" /\ ~elapse
        /\ hw_ptr' = next
        /\ prev_period' = next \div Period
        /\ elapse' = Crosses(next)
        /\ turn' = [s \in Slots |-> IF s \in touched THEN "app" ELSE turn[s]]
        /\ lag' = UpToBuffer(lag + frames)
        /\ late' = IF \E s \in touched : turn[s] = "app" THEN UpToBuffer(late + frames) ELSE late
        /\ UNCHANGED <<state, core>>

\* An OUT URB is refilled whole; an IN URB carries what the device sent.
CopyUrb == \E frames \in 1..Urb :
               (Direction = "playback" => frames = Urb) /\ Copy(frames)

----------------------------------------------------------------------------
\* pointer()
Pointer == hw_ptr % Buffer

\* The core looks at the pointer: it stops a substream that is late, and
\* wakes an application that has a period to move, or none to wait for.
Look(moved) ==
    /\ core_pos' = Pointer
    /\ lag' = lag - moved
    /\ state' = IF avail + moved >= Buffer THEN "xrun" ELSE state
    /\ asleep' = (asleep /\ avail + moved < Period)
    /\ UNCHANGED <<device, late>>

Moved == (Pointer - core_pos) % Buffer

\* snd_pcm_period_elapsed()
Elapsed ==
    /\ elapse /\ elapse' = FALSE
    /\ IF state = "running"
       THEN Look(Moved) /\ avail' = avail + Moved /\ UNCHANGED <<app_pos, turn>>
       ELSE UNCHANGED <<state, device, core, ghosts>>

\* The application moves n frames (or, with 0, asks for the position): in a
\* running substream the core looks first.
Access(n) ==
    /\ state = "running" /\ ~asleep
    /\ Look(Moved)
    /\ LET got == IF avail + Moved < Buffer /\ n <= avail + Moved THEN n ELSE 0
       IN  /\ turn' = [s \in Slots |-> IF s \in SlotsFrom(app_pos, got) THEN "device"
                                                                   ELSE turn[s]]
           /\ app_pos' = (app_pos + got) % Buffer
           /\ avail' = avail + Moved - got
    /\ UNCHANGED elapse

\* A playback ring may be filled before START.
Fill(n) ==
    /\ state = "prepared" /\ n <= avail
    /\ turn' = [s \in Slots |-> IF s \in SlotsFrom(app_pos, n) THEN "device" ELSE turn[s]]
    /\ app_pos' = (app_pos + n) % Buffer
    /\ avail' = avail - n
    /\ UNCHANGED <<state, device, elapse, core_pos, asleep, lag, late>>

\* The application waits for a period.
Sleep ==
    /\ state = "running" /\ ~asleep /\ avail < Period
    /\ asleep' = TRUE
    /\ UNCHANGED <<state, device, elapse, core_pos, app_pos, avail, ghosts>>

Next == /\ \/ Prepare \/ Start \/ Drop
           \/ CopyUrb \/ Elapsed \/ Sleep
           \/ \E n \in Chunks \cup {0} : Access(n) \/ Fill(n)
        /\ UNCHANGED ring

Spec == Init /\ [][Next]_vars

\* The session's URBs keep completing, and a handler runs to its end.
FairSpec == Spec /\ WF_vars(CopyUrb /\ UNCHANGED ring)
                 /\ WF_vars(Elapsed /\ UNCHANGED ring)

----------------------------------------------------------------------------
\* Types.
TypeOK ==
    /\ ring \in Rings
    /\ state \in {"setup", "prepared", "running", "xrun"}
    /\ hw_ptr \in 0..(LongMod - 1) /\ prev_period \in 0..(LongMod \div Period)
    /\ elapse \in BOOLEAN
    /\ core_pos \in Slots /\ app_pos \in Slots
    /\ avail \in 0..(Buffer + 2 * Period) /\ asleep \in BOOLEAN
    /\ turn \in [Slots -> {"app", "device"}]
    /\ lag \in 0..(Buffer - 1) /\ late \in 0..(2 * Period)

\* The core is told often enough never to take a ring that has gone round for
\* one that has stood still: not even with two periods in the buffer, and not
\* across a stop and a new start while a handler is about to report.
CoreKeepsUp ==
    state = "running" => lag < IF elapse THEN Period + Urb ELSE Period

\* Every frame the core offers is the application's: it writes over nothing
\* the device has yet to play, and reads nothing the device has yet to record.
AvailIsReal ==
    state = "running" => \A s \in SlotsFrom(app_pos, avail) : turn[s] = "app"

\* An application that is late is stopped within a period: the device plays
\* old frames, or records over unread ones, for no longer.
LateIsCaught == state = "running" /\ ~elapse => late < Period

\* pointer() moves on by what the device moved, as a DMA engine's would,
\* however long the stream runs.
PointerMovesOn == state = "running" => Pointer = (core_pos + lag) % Buffer

\* An application that sleeps until a period is free, or recorded, is woken,
\* also when it is late: nobody but the handlers looks at the ring meanwhile.
SleeperWakes == asleep ~> ~asleep

\* And it loses nothing by it: while an application sleeps in a running substream
\* less than a period is offered to it, and the device is on none of its frames,
\* until the handler whose report wakes it is on its way.
SleepLosesNothing ==
    asleep => state = "running" /\ avail < Period /\ (late = 0 \/ elapse)
=============================================================================
