--------------------------- MODULE StreamSession ---------------------------
(***************************************************************************)
(* The USB session of the Babyface Pro and the two PCM substreams that     *)
(* share it.  hw_params makes a substream a user of the session, prepare   *)
(* starts it, trigger START only lets the URB handlers move audio, and the *)
(* last hw_free stops it.  Beside the callers of the PCM operations run    *)
(* the work that stops a session whose URBs fail, disconnect() and         *)
(* suspend()/resume().                                                     *)
(*                                                                         *)
(* chip->mutex serialises all of them except trigger START, which runs     *)
(* under the substream's stream lock alone, and disconnect()'s first       *)
(* write.  So a holder of the mutex moves in steps here, one per state     *)
(* that START, a URB handler or disconnect() could observe.                *)
(*                                                                         *)
(* The ALSA core is external: which operation a substream state permits,   *)
(* and what state an operation leaves, are modelled from the states the    *)
(* driver relies on.  An application makes one call at a time on a         *)
(* substream.                                                              *)
(***************************************************************************)
EXTENDS UrbGeometry, FiniteSets

CONSTANTS
    Apps,     \* the processes that open substreams
    NoApp,    \* owner[] of a closed direction (0 in the code)
    Rates,    \* the rates applications ask for
    Periods,  \* the period sizes applications ask for, in frames
    Events    \* the failures and outside events this instance allows

Dirs == {"playback", "capture"}
Other(d) == IF d = "playback" THEN "capture" ELSE "playback"

Params == [rate : Rates, period : Periods]
NoParams == [rate |-> 0, period |-> 0]

\* interface: SET_INTERFACE fails; trigger: a vendor write before the session
\* is live; submit, arm: a URB submission or the arm write, once it is live;
\* urb: URBs that complete with errors, or cannot be resubmitted; unplug: the
\* device is disconnected; suspend: the system is suspended.
AllEvents == {"interface", "trigger", "submit", "arm", "urb", "unplug", "suspend"}

ASSUME SessionAssumption ==
    /\ NoApp \notin Apps
    /\ Rates \subseteq BfRates
    /\ Periods \subseteq Nat \ {0}
    /\ Events \subseteq AllEvents

\* The core's substream states.  Three more stand for a call in progress:
\* STARTING, START past its test of ->streaming, holding the stream lock;
\* FAILED, hw_params refused, and the core's hw_free still to come;
\* CLOSING, past close()'s flush_work.
PcmStates == {"CLOSED", "OPEN", "SETUP", "PREPARED", "RUNNING", "XRUN",
              "SUSPENDED", "DISCONNECTED", "STARTING", "FAILED", "CLOSING"}

Holders == Dirs \cup {"work", "disc", "pm"}
Free == "free"

\* What a holder of the mutex is in the middle of ...
Jobs == {"retune", "resize", "hw_free", "start", "work", "disconnect", "suspend"}
\* ... and the step it is at.
Steps == {"kill", "reap", "stop_playback", "stop_capture",
          "set_interface", "geometry", "geometry_new_rate", "resize",
          "gap", "live", "submit", "arm"}
None == "none"

VARIABLES
    pcm,           \* the state of each substream
    rt,            \* runtime->rate and ->period_size of each substream
    owner,         \* chip->owner[]
    stream_setup,  \* chip->stream_setup[]
    stream_users,  \* chip->stream_users
    rate,          \* chip->rate (with it alt and frame_bytes)
    urb_frames,    \* chip->urb_frames
    urbs_active,   \* chip->urbs_active
    session_dir,   \* chip->session_dir
    streaming,     \* chip->streaming
    urbs,          \* are URBs in flight
    rested,        \* have BF_SESSION_GAP_MS passed since stream_stopped
    fatal,         \* chip->urb_err has reached BF_URB_ERR_STOP
    pending,       \* stream_work is queued
    worker,        \* stream_work: idle, or waiting for or holding the mutex
    shutdown,      \* chip->shutdown
    disc,          \* how far disconnect() is
    pm,            \* how far a system suspend is
    holder,        \* who holds chip->mutex
    job, at,       \* what the holder does, and its next step
    req            \* the parameters of the hw_params in progress

session  == <<rate, urb_frames, urbs_active, session_dir>>
users    == <<owner, stream_setup, stream_users>>
usb      == <<streaming, urbs, rested>>
work     == <<fatal, pending, worker>>
outside  == <<shutdown, disc, pm>>
critical == <<holder, job, at, req>>
vars == <<pcm, rt, session, users, usb, work, outside, critical>>

----------------------------------------------------------------------------
SessionPeriod == BfSessionPeriod(urb_frames, urbs_active)

Fits(p) == p.rate = rate /\ p.period >= SessionPeriod

\* Mutant: only a running substream of the other application is protected.
OtherRuns(d) == pcm[Other(d)] = "RUNNING" /\ owner[Other(d)] # owner[d]

\* The other direction is set up by another application.
OtherHoldsClock(d) == /\ stream_setup[Other(d)]
                      /\ owner[Other(d)] # owner[d]

\* Mutant: a new rate alone does not choose a geometry.
ChoosesByPeriod(d, newRate) == \/ ~stream_setup[Other(d)]
                               \/ session_dir = d
                               \/ req.period < SessionPeriod

\* Does this direction choose the session's geometry?
Chooses(d, newRate) == \/ newRate
                       \/ ~stream_setup[Other(d)]
                       \/ session_dir = d
                       \/ req.period < SessionPeriod

\* A user task is outside any other call of its substream, and not frozen.
Calls(d) == pm = "awake" /\ holder # d

SetState(d, s) == pcm' = [pcm EXCEPT ![d] = IF @ = "DISCONNECTED" THEN @ ELSE s]

Acquire(h, j, step) == /\ holder = Free
                       /\ holder' = h /\ job' = j /\ at' = step
Release == /\ holder' = Free /\ job' = None /\ at' = None
           /\ req' = NoParams
Goto(step) == at' = step /\ UNCHANGED <<holder, job, req>>

\* A substream as stop_both() leaves it.
Stopped(d, s) == IF pcm[d] = "RUNNING" THEN s ELSE pcm[d]

Init ==
    /\ pcm = [d \in Dirs |-> "CLOSED"]
    /\ rt = [d \in Dirs |-> NoParams]
    /\ owner = [d \in Dirs |-> NoApp]
    /\ stream_setup = [d \in Dirs |-> FALSE]
    /\ stream_users = 0
    /\ rate = 48000
    /\ urb_frames = FramesPerUrb
    /\ urbs_active = NUrbs
    /\ session_dir = "playback"
    /\ streaming = FALSE /\ urbs = FALSE /\ rested = TRUE
    /\ fatal = FALSE /\ pending = FALSE /\ worker = "idle"
    /\ shutdown = FALSE /\ disc = "present" /\ pm = "awake"
    /\ holder = Free /\ job = None /\ at = None /\ req = NoParams

----------------------------------------------------------------------------
\* open: the process that opens a direction owns it.
Open(d, a) ==
    /\ Calls(d) /\ holder = Free
    /\ disc # "gone" /\ pcm[d] = "CLOSED"
    /\ owner' = [owner EXCEPT ![d] = a]
    /\ SetState(d, "OPEN")
    /\ UNCHANGED <<rt, session, stream_setup, stream_users, usb, work, outside,
                   critical>>

\* close waits out stream_work first ...
Flush(d) ==
    /\ Calls(d)
    /\ pcm[d] = "OPEN" \/ (pcm[d] = "DISCONNECTED" /\ ~stream_setup[d])
    /\ ~pending /\ worker = "idle"
    /\ pcm' = [pcm EXCEPT ![d] = "CLOSING"]
    /\ UNCHANGED <<rt, session, users, usb, work, outside, critical>>

\* ... and then lets go of the direction.
Close(d) ==
    /\ pcm[d] = "CLOSING" /\ holder = Free
    /\ owner' = [owner EXCEPT ![d] = NoApp]
    /\ rt' = [rt EXCEPT ![d] = NoParams]
    /\ SetState(d, "CLOSED")
    /\ UNCHANGED <<session, stream_setup, stream_users, usb, work, outside,
                   critical>>

----------------------------------------------------------------------------
\* hw_params.  The parameters are any an application may have refined to
\* before: the rules of open() hold only at the time it asked.

MayNegotiate(d) == Calls(d) /\ pcm[d] \in {"OPEN", "SETUP", "PREPARED"}

\* No URB fits, the card is going away, or the other application's rate.
RefuseParams(d, p) ==
    /\ MayNegotiate(d) /\ holder = Free
    /\ \/ BfUrbFrames(p.rate, p.period) = 0
       \/ shutdown
       \/ p.rate # rate /\ OtherHoldsClock(d)
    /\ SetState(d, "FAILED")
    /\ UNCHANGED <<rt, session, users, usb, work, outside, critical>>

\* Mutant: the rate changes whoever is set up.
HwParamsAnyway(d, p) ==
    /\ MayNegotiate(d)
    /\ BfUrbFrames(p.rate, p.period) # 0
    /\ ~shutdown
    /\ Acquire(d, "retune", IF p.rate = rate THEN "geometry"
                            ELSE IF streaming THEN "kill" ELSE "set_interface")
    /\ req' = p
    /\ UNCHANGED <<pcm, rt, session, users, usb, work, outside>>

\* Past those checks: a new rate stops the session first.
HwParams(d, p) ==
    /\ MayNegotiate(d)
    /\ BfUrbFrames(p.rate, p.period) # 0
    /\ ~shutdown
    /\ p.rate # rate => ~OtherHoldsClock(d)
    /\ Acquire(d, "retune", IF p.rate = rate THEN "geometry"
                            ELSE IF streaming THEN "kill" ELSE "set_interface")
    /\ req' = p
    /\ UNCHANGED <<pcm, rt, session, users, usb, work, outside>>

\* SET_INTERFACE to the speed of the new rate, which may fail.
SetInterface ==
    /\ at = "set_interface"
    /\ \/ /\ rate' = req.rate
          /\ Goto("geometry_new_rate")
          /\ UNCHANGED pcm
       \/ /\ "interface" \in Events
          /\ SetState(holder, "FAILED")
          /\ Release
          /\ UNCHANGED rate
    /\ UNCHANGED <<rt, urb_frames, urbs_active, session_dir, users, usb, work,
                   outside>>

\* Mutant: every hw_params counts, a repeated one too.
CountUserAgain ==
    /\ stream_setup' = [stream_setup EXCEPT ![holder] = TRUE]
    /\ stream_users' = stream_users + 1
    /\ rt' = [rt EXCEPT ![holder] = req]
    /\ SetState(holder, "SETUP")
    /\ Release

\* The end of a successful hw_params: count the substream once.
CountUser ==
    /\ stream_setup' = [stream_setup EXCEPT ![holder] = TRUE]
    /\ stream_users' = IF stream_setup[holder] THEN stream_users
                                               ELSE stream_users + 1
    /\ rt' = [rt EXCEPT ![holder] = req]
    /\ SetState(holder, "SETUP")
    /\ Release

NewUrb == BfUrbFrames(req.rate, req.period)
NewCount == UrbCount(req.rate, req.period, NewUrb)
SameGeometry == urb_frames = NewUrb /\ urbs_active = NewCount

\* Another application's session is too long for this period.
GeometryRefused ==
    /\ at = "geometry"
    /\ OtherHoldsClock(holder)
    /\ req.period < SessionPeriod
    /\ SetState(holder, "FAILED")
    /\ Release
    /\ UNCHANGED <<rt, session, users, usb, work, outside>>

\* The geometry stays: it is another application's, or it is the other
\* direction's choice and this period spans it.
GeometryKept ==
    /\ at \in {"geometry", "geometry_new_rate"}
    /\ IF OtherHoldsClock(holder)
       THEN req.period >= SessionPeriod
       ELSE ~Chooses(holder, at = "geometry_new_rate")
    /\ CountUser
    /\ UNCHANGED <<session, owner, usb, work, outside>>

\* This direction chooses, and the choice is what the session already has.
GeometryConfirmed ==
    /\ at \in {"geometry", "geometry_new_rate"}
    /\ ~OtherHoldsClock(holder)
    /\ Chooses(holder, at = "geometry_new_rate")
    /\ SameGeometry
    /\ session_dir' = holder
    /\ CountUser
    /\ UNCHANGED <<rate, urb_frames, urbs_active, owner, usb, work, outside>>

\* This direction chooses another geometry: a running session stops first.
GeometryChanged ==
    /\ at \in {"geometry", "geometry_new_rate"}
    /\ ~OtherHoldsClock(holder)
    /\ Chooses(holder, at = "geometry_new_rate")
    /\ ~SameGeometry
    /\ at' = IF streaming THEN "kill" ELSE "resize"
    /\ job' = "resize"
    /\ UNCHANGED <<pcm, rt, session, users, usb, work, outside, holder, req>>

Resize ==
    /\ at = "resize"
    /\ urb_frames' = NewUrb
    /\ urbs_active' = NewCount
    /\ session_dir' = holder
    /\ CountUser
    /\ UNCHANGED <<rate, owner, usb, work, outside>>

----------------------------------------------------------------------------
\* hw_free, by the application, on release, or by the core after a refused
\* hw_params.  The last user stops the session.
MayFree(d) ==
    \/ Calls(d) /\ pcm[d] \in {"SETUP", "PREPARED"}
    \/ Calls(d) /\ pcm[d] = "DISCONNECTED" /\ stream_setup[d]
    \/ pcm[d] = "FAILED" /\ holder # d

\* Mutant: a refused hw_params was never counted, and is discounted.
HwFreeUncounted(d) ==
    /\ MayFree(d) /\ holder = Free
    /\ stream_setup' = [stream_setup EXCEPT ![d] = FALSE]
    /\ stream_users' = stream_users - 1
    /\ IF stream_users = 1 /\ streaming
       THEN Acquire(d, "hw_free", "kill") /\ UNCHANGED <<pcm, req>>
       ELSE SetState(d, "OPEN") /\ UNCHANGED critical
    /\ UNCHANGED <<rt, session, owner, usb, work, outside>>

HwFree(d) ==
    /\ MayFree(d) /\ holder = Free
    /\ stream_setup' = [stream_setup EXCEPT ![d] = FALSE]
    /\ stream_users' = IF stream_setup[d] THEN stream_users - 1 ELSE stream_users
    /\ IF stream_setup[d] /\ stream_users = 1 /\ streaming
       THEN Acquire(d, "hw_free", "kill") /\ UNCHANGED <<pcm, req>>
       ELSE SetState(d, "OPEN") /\ UNCHANGED critical
    /\ UNCHANGED <<rt, session, owner, usb, work, outside>>

----------------------------------------------------------------------------
\* Mutant: a prepare that waited for the mutex does not look at ->shutdown.
MayPrepareShutDown(d) ==
    /\ Calls(d)
    /\ pcm[d] \in {"SETUP", "PREPARED", "XRUN", "SUSPENDED"}
    /\ Fits(rt[d])

\* prepare.  A refused prepare (shutdown, or a rate or geometry the other
\* direction has changed since) changes nothing.
MayPrepare(d) ==
    /\ Calls(d)
    /\ pcm[d] \in {"SETUP", "PREPARED", "XRUN", "SUSPENDED"}
    /\ ~shutdown
    /\ Fits(rt[d])

\* The session runs: nothing to do for the hardware.
Prepare(d) ==
    /\ MayPrepare(d) /\ holder = Free
    /\ streaming
    /\ SetState(d, "PREPARED")
    /\ UNCHANGED <<rt, session, users, usb, work, outside, critical>>

\* It does not: start it.
PrepareStarts(d) ==
    /\ MayPrepare(d)
    /\ ~streaming
    /\ Acquire(d, "start", "gap")
    /\ UNCHANGED <<pcm, rt, session, users, usb, work, outside, req>>

\* Mutant: no gap.
StartTriggerAtOnce ==
    /\ at = "gap"
    /\ \/ Goto("live")
       \/ "trigger" \in Events /\ Goto("kill")
    /\ UNCHANGED <<pcm, rt, session, users, usb, work, outside>>

\* Past the gap since the last stop, the clock and the trigger pair.
StartTrigger ==
    /\ at = "gap" /\ rested
    /\ \/ Goto("live")
       \/ "trigger" \in Events /\ Goto("kill")
    /\ UNCHANGED <<pcm, rt, session, users, usb, work, outside>>

\* The session is marked live before its first URB goes out.
StartLive ==
    /\ at = "live"
    /\ fatal' = FALSE
    /\ streaming' = TRUE
    /\ Goto("submit")
    /\ UNCHANGED <<pcm, rt, session, users, urbs, rested, pending, worker, outside>>

\* The URBs go out, all of them or some.
StartSubmit ==
    /\ at = "submit"
    /\ urbs' = TRUE
    /\ \/ Goto("arm")
       \/ "submit" \in Events /\ Goto("kill")
    /\ UNCHANGED <<pcm, rt, session, users, streaming, rested, work, outside>>

StartArm ==
    /\ at = "arm"
    /\ \/ SetState(holder, "PREPARED") /\ Release
       \/ "arm" \in Events /\ Goto("kill") /\ UNCHANGED pcm
    /\ UNCHANGED <<rt, session, users, usb, work, outside>>

----------------------------------------------------------------------------
\* trigger.  START reads ->streaming, then the rate and the geometry, under
\* the stream lock and without the mutex.
Start(d) ==
    /\ Calls(d) /\ pcm[d] = "PREPARED"
    /\ streaming
    /\ SetState(d, "STARTING")
    /\ UNCHANGED <<rt, session, users, usb, work, outside, critical>>

\* Mutant: START trusts the prepare before it.
StartDoneUnchecked(d) ==
    /\ pcm[d] = "STARTING"
    /\ SetState(d, "RUNNING")
    /\ UNCHANGED <<rt, session, users, usb, work, outside, critical>>

StartDone(d) ==
    /\ pcm[d] = "STARTING"
    /\ SetState(d, IF Fits(rt[d]) THEN "RUNNING" ELSE "PREPARED")
    /\ UNCHANGED <<rt, session, users, usb, work, outside, critical>>

\* STOP: the session does not notice.
Drop(d) ==
    /\ Calls(d)
    /\ pcm[d] \in {"RUNNING", "PREPARED", "XRUN", "SUSPENDED"}
    /\ SetState(d, "SETUP")
    /\ UNCHANGED <<rt, session, users, usb, work, outside, critical>>

\* The application is late: a URB handler's period_elapsed stops it.
Xrun(d) ==
    /\ pcm[d] = "RUNNING" /\ urbs
    /\ SetState(d, "XRUN")
    /\ UNCHANGED <<rt, session, users, usb, work, outside, critical>>

----------------------------------------------------------------------------
\* stream_kill() clears ->streaming first ...
Kill ==
    /\ at = "kill"
    /\ streaming' = FALSE
    /\ Goto("reap")
    /\ UNCHANGED <<pcm, rt, session, users, urbs, rested, work, outside>>

\* Mutant: disconnect() and suspend() wait for the work with the mutex held.
ReapedHeld ==
    /\ IF job \in {"disconnect", "suspend"}
       THEN at' = None /\ UNCHANGED <<pcm, holder, job, req>>
       ELSE /\ IF job \in {"retune", "resize", "work"} THEN Goto("stop_playback")
                                                       ELSE Release
            /\ IF job = "hw_free" THEN SetState(holder, "OPEN") ELSE UNCHANGED pcm
    /\ disc' = IF job = "disconnect" THEN "killed" ELSE disc
    /\ pm' = IF job = "suspend" THEN "killed" ELSE pm

\* ... then waits out the URBs and stamps stream_stopped.  What follows
\* depends on who killed the session.
Reaped ==
    \/ /\ job \in {"retune", "resize", "work"}
       /\ Goto("stop_playback") /\ UNCHANGED <<pcm, disc, pm>>
    \/ /\ job = "hw_free"
       /\ SetState(holder, "OPEN") /\ Release /\ UNCHANGED <<disc, pm>>
    \/ /\ job = "start"
       /\ Release /\ UNCHANGED <<pcm, disc, pm>>
    \/ /\ job = "disconnect"
       /\ disc' = "killed" /\ Release /\ UNCHANGED <<pcm, pm>>
    \/ /\ job = "suspend"
       /\ pm' = "killed" /\ Release /\ UNCHANGED <<pcm, disc>>

Reap ==
    /\ at = "reap"
    /\ urbs' = FALSE
    /\ rested' = FALSE
    /\ Reaped
    /\ UNCHANGED <<rt, session, users, streaming, work, shutdown>>

\* Mutant: the playback substream is forgotten.
StopPlaybackForgotten ==
    /\ at = "stop_playback"
    /\ Goto("stop_capture")
    /\ UNCHANGED <<pcm, rt, session, users, usb, work, outside>>

\* pcm_stop_both(XRUN), one substream at a time under its stream lock.
StopPlayback ==
    /\ at = "stop_playback" /\ pcm["playback"] # "STARTING"
    /\ SetState("playback", Stopped("playback", "XRUN"))
    /\ Goto("stop_capture")
    /\ UNCHANGED <<rt, session, users, usb, work, outside>>

StopCapture ==
    /\ at = "stop_capture" /\ pcm["capture"] # "STARTING"
    /\ SetState("capture", Stopped("capture", "XRUN"))
    /\ \/ job = "retune" /\ Goto("set_interface") /\ UNCHANGED work
       \/ job = "resize" /\ Goto("resize") /\ UNCHANGED work
       \/ /\ job = "work"
          /\ fatal' = FALSE /\ worker' = "idle"
          /\ Release
          /\ UNCHANGED pending
    /\ UNCHANGED <<rt, session, users, usb, outside>>

\* BF_SESSION_GAP_MS pass.
Rest ==
    /\ ~rested /\ rested' = TRUE
    /\ UNCHANGED <<pcm, rt, session, users, streaming, urbs, work, outside, critical>>

----------------------------------------------------------------------------
\* Mutant: the failure is counted and the work is not queued.
UrbsFailUnseen ==
    /\ "urb" \in Events /\ urbs
    /\ fatal' = TRUE
    /\ UNCHANGED <<pcm, rt, session, users, usb, pending, worker, outside, critical>>

\* A run of URB errors, or a URB that cannot be resubmitted.
UrbsFail ==
    /\ "urb" \in Events /\ urbs
    /\ fatal' = TRUE /\ pending' = TRUE
    /\ UNCHANGED <<pcm, rt, session, users, usb, worker, outside, critical>>

\* stream_work runs in a worker: it leaves the queue, takes the mutex, and
\* stops a session that has failed.
WorkBegins ==
    /\ pending /\ worker = "idle"
    /\ pending' = FALSE /\ worker' = "running"
    /\ UNCHANGED <<pcm, rt, session, users, usb, fatal, outside, critical>>

StreamWork ==
    /\ worker = "running" /\ holder = Free
    /\ IF ~shutdown /\ fatal
       THEN /\ Acquire("work", "work", IF streaming THEN "kill" ELSE "stop_playback")
            /\ UNCHANGED <<worker, req>>
       ELSE worker' = "idle" /\ UNCHANGED critical
    /\ UNCHANGED <<pcm, rt, session, users, usb, fatal, pending, outside>>

----------------------------------------------------------------------------
\* disconnect: ->shutdown without the mutex, the session under it, then the
\* work, the substreams and the card.
Disconnect ==
    /\ "unplug" \in Events
    /\ disc = "present" /\ pm = "awake"
    /\ disc' = "flagged" /\ shutdown' = TRUE
    /\ UNCHANGED <<pcm, rt, session, users, usb, work, pm, critical>>

DisconnectKills ==
    /\ disc = "flagged" /\ holder = Free
    /\ IF streaming
       THEN Acquire("disc", "disconnect", "kill") /\ UNCHANGED <<disc, req>>
       ELSE disc' = "killed" /\ UNCHANGED critical
    /\ UNCHANGED <<pcm, rt, session, users, usb, work, shutdown, pm>>

DisconnectCancels ==
    /\ disc = "killed" /\ worker = "idle"
    /\ pending' = FALSE
    /\ disc' = "stop_playback"
    /\ UNCHANGED <<pcm, rt, session, users, usb, fatal, worker, shutdown, pm, critical>>

DisconnectStops(d) ==
    /\ disc = (IF d = "playback" THEN "stop_playback" ELSE "stop_capture")
    /\ pcm[d] # "STARTING"
    /\ SetState(d, Stopped(d, "DISCONNECTED"))
    /\ disc' = IF d = "playback" THEN "stop_capture" ELSE "stopped"
    /\ UNCHANGED <<rt, session, users, usb, work, shutdown, pm, critical>>

\* snd_card_disconnect: every open substream, and no new open.
CardDisconnects ==
    /\ disc = "stopped" /\ \A d \in Dirs : pcm[d] # "STARTING"
    /\ pcm' = [d \in Dirs |-> IF pcm[d] \in {"CLOSED", "CLOSING"}
                              THEN pcm[d] ELSE "DISCONNECTED"]
    /\ disc' = "gone"
    /\ UNCHANGED <<rt, session, users, usb, work, shutdown, pm, critical>>

----------------------------------------------------------------------------
\* A system suspend begins once the user tasks are frozen, outside any call.
Suspend ==
    /\ "suspend" \in Events
    /\ pm = "awake" /\ disc = "present"
    /\ holder \notin Dirs
    /\ \A d \in Dirs : pcm[d] \notin {"STARTING", "FAILED", "CLOSING"}
    /\ pm' = "frozen"
    /\ pcm' = [d \in Dirs |-> IF pcm[d] \in {"RUNNING", "PREPARED", "XRUN"}
                              THEN "SUSPENDED" ELSE pcm[d]]
    /\ UNCHANGED <<rt, session, users, usb, work, shutdown, disc, critical>>

SuspendKills ==
    /\ pm = "frozen" /\ holder = Free
    /\ IF streaming
       THEN Acquire("pm", "suspend", "kill") /\ UNCHANGED <<pm, req>>
       ELSE pm' = "killed" /\ UNCHANGED critical
    /\ UNCHANGED <<pcm, rt, session, users, usb, work, shutdown, disc>>

\* Mutant: the system sleeps with the work queued.
SuspendCancelsNothing ==
    /\ pm = "killed"
    /\ pm' = "asleep"
    /\ UNCHANGED <<pcm, rt, session, users, usb, work, shutdown, disc, critical>>

SuspendCancels ==
    /\ pm = "killed" /\ worker = "idle"
    /\ pending' = FALSE
    /\ pm' = "asleep"
    /\ UNCHANGED <<pcm, rt, session, users, usb, fatal, worker, shutdown, disc, critical>>

\* resume re-points the interface and re-initialises the device under the
\* mutex; of the session's own state it changes nothing.
Resume ==
    /\ pm = "asleep" /\ holder = Free
    /\ pm' = "awake"
    /\ UNCHANGED <<pcm, rt, session, users, usb, work, shutdown, disc, critical>>

\* The card is gone and nobody has it open: the system may stop here.
Gone ==
    /\ disc = "gone" /\ \A d \in Dirs : pcm[d] = "CLOSED"
    /\ UNCHANGED vars

----------------------------------------------------------------------------
\* The steps of whoever holds the mutex.
HolderStep ==
    \/ SetInterface \/ GeometryRefused \/ GeometryKept \/ GeometryConfirmed
    \/ GeometryChanged \/ Resize
    \/ StartTrigger \/ StartLive \/ StartSubmit \/ StartArm
    \/ Kill \/ Reap \/ StopPlayback \/ StopCapture

Caller(d) ==
    \/ \E a \in Apps : Open(d, a)
    \/ \E p \in Params : RefuseParams(d, p) \/ HwParams(d, p)
    \/ Flush(d) \/ Close(d) \/ HwFree(d)
    \/ Prepare(d) \/ PrepareStarts(d)
    \/ Start(d) \/ StartDone(d) \/ Drop(d) \/ Xrun(d)

Worker == WorkBegins \/ StreamWork

Unplug == \/ Disconnect \/ DisconnectKills \/ DisconnectCancels
          \/ \E d \in Dirs : DisconnectStops(d)
          \/ CardDisconnects

Power == Suspend \/ SuspendKills \/ SuspendCancels \/ Resume

Next == \/ HolderStep
        \/ \E d \in Dirs : Caller(d)
        \/ UrbsFail \/ Worker
        \/ Unplug \/ Power
        \/ Rest \/ Gone

Spec == Init /\ [][Next]_vars

\* Fairness.  The holder of the mutex is in the kernel: every transfer times
\* out, a kill waits for handlers that end, msleep ends.  The mutex is handed
\* to waiters, hence strong fairness for those that wait for it.  The core
\* calls hw_free after a refused hw_params, and close goes on after its flush.
\* Nothing is assumed of applications, of the device or of the bus.
Fairness ==
    /\ WF_vars(HolderStep)
    /\ WF_vars(Rest)
    /\ WF_vars(WorkBegins) /\ SF_vars(StreamWork)
    /\ \A d \in Dirs : /\ WF_vars(StartDone(d))
                       /\ SF_vars(pcm[d] = "FAILED" /\ HwFree(d))
                       /\ SF_vars(Close(d))
    /\ SF_vars(DisconnectKills) /\ WF_vars(DisconnectCancels)
    /\ \A d \in Dirs : WF_vars(DisconnectStops(d))
    /\ WF_vars(CardDisconnects)
    /\ SF_vars(SuspendKills) /\ WF_vars(SuspendCancels)

FairSpec == Spec /\ Fairness

----------------------------------------------------------------------------
\* Types: the flags, and the rest of the state.
FlagTypes ==
    /\ stream_setup \in [Dirs -> BOOLEAN]
    /\ streaming \in BOOLEAN /\ urbs \in BOOLEAN /\ rested \in BOOLEAN
    /\ fatal \in BOOLEAN /\ pending \in BOOLEAN /\ shutdown \in BOOLEAN

DataTypes ==
    /\ pcm \in [Dirs -> PcmStates]
    /\ rt \in [Dirs -> Params \cup {NoParams}]
    /\ owner \in [Dirs -> Apps \cup {NoApp}]
    /\ rate \in Rates \cup {48000}
    /\ urb_frames \in Nat /\ urbs_active \in Nat
    /\ session_dir \in Dirs
    /\ worker \in {"idle", "running"}
    /\ disc \in {"present", "flagged", "killed", "stop_playback",
                 "stop_capture", "stopped", "gone"}
    /\ pm \in {"awake", "frozen", "killed", "asleep"}
    /\ holder \in Holders \cup {Free}
    /\ job \in Jobs \cup {None} /\ at \in Steps \cup {None}
    /\ req \in Params \cup {NoParams}

TypeOK == FlagTypes /\ DataTypes /\ stream_users \in 0..2

\* A substream whose audio the URB handlers move has the device's rate and a
\* period that spans the session's: otherwise a completion wraps its ring or
\* plays it at another pitch.  hw_params of the other direction, START without
\* the mutex and a restart by either side may all disturb it.
RunningFits == \A d \in Dirs : pcm[d] = "RUNNING" => Fits(rt[d])

\* While nobody holds the mutex, a running substream has a session: no
\* application is left blocked on a session that is gone.  disconnect() kills
\* before it stops the substreams, so it is exempt until it has.
RunningHasSession ==
    holder = Free /\ disc \in {"present", "flagged", "gone"}
        => \A d \in Dirs : pcm[d] = "RUNNING" => streaming

\* A substream that runs and has no URB in flight, so that no handler will ever
\* wake its application, is somebody's concern: a start that is about to send
\* them, or a stop that is on its way to it.  A start that fails with the session
\* live, a second kill, a START let through in between could all forget it.
StopAhead(d) == at = "stop_playback" \/ (at = "stop_capture" /\ d = "capture")
UnplugAhead(d) == \/ disc \in {"killed", "stop_playback"}
                  \/ disc = "stop_capture" /\ d = "capture"

RunningIsServed ==
    \A d \in Dirs : pcm[d] = "RUNNING" /\ ~urbs
        => at = "submit" \/ StopAhead(d) \/ UnplugAhead(d)

\* What PcmRing takes for granted of the ring of a running substream: its period
\* holds a URB, and two of its periods all that are in flight, whoever chose
\* the URBs.
RingIsFed ==
    \A d \in Dirs : pcm[d] = "RUNNING"
        => /\ urb_frames \in 1..rt[d].period
           /\ urb_frames * urbs_active <= 2 * rt[d].period

\* A live session's URBs are whole packets of its rate: the direction that did
\* not choose the URBs may have changed the rate, and a URB that ends inside a
\* packet babbles.
WholePackets == streaming => urb_frames % MinFpu(rate) = 0

\* A live session is somebody's: stream_users counts the substreams that are
\* set up, and once the mutex is free the last one released has stopped it.
SessionHasUser ==
    /\ stream_users = Cardinality({d \in Dirs : stream_setup[d]})
    /\ streaming /\ holder = Free => stream_users > 0

\* No URB is in flight without ->streaming, outside the kill itself: nothing
\* completes into buffers the next session fills.
NoStrayUrbs == urbs => streaming \/ at = "reap"

\* Past its kill, disconnect() sees no session again, and past the card's
\* disconnection no substream runs.
GoneIsQuiet ==
    /\ disc \notin {"present", "flagged"} => ~streaming /\ ~urbs
    /\ disc = "gone" => \A d \in Dirs : pcm[d] \notin {"RUNNING", "STARTING"}

\* A suspended system has no URB, no work and no running substream.
AsleepIsQuiet ==
    pm = "asleep" => /\ ~streaming /\ ~urbs /\ ~pending /\ worker = "idle"
                     /\ \A d \in Dirs : pcm[d] # "RUNNING"

\* What is away is quiet: a device that is gone, and a system that sleeps.
QuietWhenAway == GoneIsQuiet /\ AsleepIsQuiet

\* An application's hw_params never stops another application's stream: only
\* its owner's calls, a URB error, an unplug or its own lateness does.
NoForeignStop ==
    [][\A d \in Dirs :
          (/\ pcm[d] = "RUNNING" /\ pcm'[d] = "XRUN"
           /\ holder \in Dirs)
              => owner[d] = owner[holder] \/ Xrun(d)]_vars

\* The rate never changes under another application that is set up, even when
\* the two refined their parameters at the same time.
RateHeld ==
    [][rate' # rate => \A d \in Dirs : stream_setup[d] => owner[d] = owner[holder]]_vars

\* What applications and the device are promised, in the terms of the driver.
Contract == INSTANCE SessionContract WITH
    Sides <- Dirs, Owners <- Apps \cup {NoApp}, Clocks <- Rates \cup {48000},
    Packet <- MinFpu,
    clients <- {d \in Dirs : stream_setup[d]}, clock <- rate, urb <- urb_frames,
    live <- streaming, moving <- urbs, rested <- rested /\ at # "reap",
    worker <- worker = "running", gone <- shutdown

\* Every step of the driver, however its operations interleave and fail, is one
\* that the contract allows: no rate or geometry changes under somebody's stream,
\* no trigger comes sooner than the gap after a stop (the outputs come up
\* silent), no URB is a part of a packet, no owner changes under a client, no
\* failure of the URBs is forgotten and its work not done while they move.
KeepsContract == Contract!Spec

\* A session whose URBs have failed is stopped: none stays up on a queue that
\* has lost URBs.
FailureStops == (fatal /\ streaming) ~> ~streaming

\* An application whose substream runs without URBs is woken with an error, or
\* the URBs of a session that is starting come: it never stays blocked.
BlockedWakes == \A d \in Dirs :
    (pcm[d] = "RUNNING" /\ ~urbs) ~> (pcm[d] # "RUNNING" \/ urbs)

\* Who waits for stream_work or for the mutex does not wait for ever:
\* disconnect() ends, with open clients and whatever stream_work was doing,
\* and so do a close in progress and a suspend.
WaitsEnd ==
    /\ shutdown ~> disc = "gone"
    /\ \A d \in Dirs : pcm[d] = "CLOSING" ~> pcm[d] = "CLOSED"
    /\ pm = "frozen" ~> pm = "asleep"

----------------------------------------------------------------------------
\* Why the safety properties hold: an inductive invariant, in parts.

\* Who holds the mutex for which job, and at which of its steps; hw_params
\* keeps parameters for which a URB exists.
Negotiates == req \in Params /\ BfUrbFrames(req.rate, req.period) # 0

LockDiscipline ==
    \/ holder = Free /\ job = None /\ at = None
    \/ /\ holder \in Dirs /\ job = "retune" /\ Negotiates
       /\ at \in {"kill", "reap", "stop_playback", "stop_capture",
                  "set_interface", "geometry", "geometry_new_rate"}
    \/ /\ holder \in Dirs /\ job = "resize" /\ Negotiates
       /\ at \in {"kill", "reap", "stop_playback", "stop_capture", "resize"}
    \/ holder \in Dirs /\ job = "hw_free" /\ at \in {"kill", "reap"}
    \/ /\ holder \in Dirs /\ job = "start"
       /\ at \in {"gap", "live", "submit", "arm", "kill", "reap"}
    \/ /\ holder = "work" /\ job = "work" /\ worker = "running"
       /\ at \in {"kill", "reap", "stop_playback", "stop_capture"}
    \/ holder = "disc" /\ job = "disconnect" /\ disc = "flagged" /\ at \in {"kill", "reap"}
    \/ holder = "pm" /\ job = "suspend" /\ pm = "frozen" /\ at \in {"kill", "reap"}

\* Between a kill and the next start the flag is clear; during the start's
\* last steps it is set.
FlagFollows ==
    /\ at \in {"reap", "stop_playback", "stop_capture", "set_interface",
               "geometry_new_rate", "resize", "gap", "live"} => ~streaming
    /\ at \in {"submit", "arm"} => streaming

\* A substream past hw_params is a user of the session, except while its own
\* hw_free runs; so is one whose prepare starts the session; one inside a call
\* is not running.
UsersFollow ==
    /\ stream_users = (IF stream_setup["playback"] THEN 1 ELSE 0)
                      + (IF stream_setup["capture"] THEN 1 ELSE 0)
    /\ job = "hw_free" => \A d \in Dirs : ~stream_setup[d]
    /\ job = "start" => stream_setup[holder]
    /\ \A d \in Dirs :
          pcm[d] \in {"SETUP", "PREPARED", "STARTING", "RUNNING", "XRUN", "SUSPENDED"}
              => stream_setup[d] \/ (holder = d /\ job = "hw_free")
    /\ \A d \in Dirs :
          holder = d => pcm[d] \notin {"STARTING", "RUNNING", "CLOSED", "CLOSING"}

\* A hw_params that changes the rate or the geometry does not change them
\* under another application.
ClockIsOurs ==
    job = "resize" \/ (job = "retune" /\ at # "geometry") => ~OtherHoldsClock(holder)

Active(d) == pcm[d] \in {"STARTING", "RUNNING"}

\* ->shutdown is set from disconnect()'s first step; frozen tasks are not in a
\* START, and a card that is gone has no substream that could run.
OutsideFollows ==
    /\ shutdown <=> disc # "present"
    /\ pm # "awake" => \A d \in Dirs : pcm[d] # "STARTING" /\ pcm[d] # "RUNNING"
    /\ disc = "gone" => \A d \in Dirs :
          pcm[d] \in {"CLOSED", "CLOSING", "DISCONNECTED"}

\* Without a session no substream is running, except on the way from a kill
\* to the stop of both, and on disconnect()'s.
IdleIsQuiet ==
    /\ holder = Free /\ ~streaming /\ disc \in {"present", "flagged"}
          => \A d \in Dirs : ~Active(d)
    /\ at \in {"set_interface", "geometry_new_rate", "resize", "gap", "live"}
          => \A d \in Dirs : ~Active(d)
    /\ at = "geometry" /\ ~streaming => \A d \in Dirs : ~Active(d)
    /\ at = "stop_capture" => ~Active("playback")
    /\ job = "start" /\ at \in {"kill", "reap"}
          => ~streaming /\ \A d \in Dirs : ~Active(d)

\* What a stop leaves, whoever stops: no URB in flight, no session without a
\* user but the one the last hw_free is about to stop, and none past the kill
\* of a disconnect or of a suspend.
StopsFollow ==
    /\ NoStrayUrbs
    /\ streaming => stream_users # 0 \/ job = "hw_free"
    /\ disc \notin {"present", "flagged"}
          => ~streaming /\ job # "start" /\ at \notin {"kill", "reap"}
    /\ pm # "awake" => /\ disc = "present" /\ holder \notin Dirs
                       /\ \A d \in Dirs : pcm[d] # "FAILED"
    /\ pm \in {"killed", "asleep"} => ~streaming
    /\ pm = "asleep" => ~pending /\ worker = "idle"

\* The URBs are whole packets of the rate, except between a new rate and the
\* geometry that hw_params then chooses for it.
GeometryFollows ==
    /\ job = "resize" \/ at \in {"geometry", "geometry_new_rate"} => req.rate = rate
    /\ \/ job = "resize" \/ at = "geometry_new_rate"
       \/ urb_frames % MinFpu(rate) = 0
    /\ WholePackets

\* What the contract needs besides: the gap is over from the trigger to the
\* session, since nobody stops one meanwhile, and a direction that an
\* application has not set up, or has let go of, is no client.
ContractFollows ==
    /\ at = "live" => rested
    /\ \A d \in Dirs :
          pcm[d] \in {"CLOSED", "OPEN", "CLOSING"} => ~stream_setup[d]

\* URBs are in flight from the start's submission to the end of the kill; and a
\* card past disconnect()'s kill has no holder of the mutex that could start a
\* substream which disconnect() has stopped.
ServeFollows ==
    /\ streaming /\ ~urbs => at = "submit"
    /\ at \in {"kill", "reap"} /\ job # "start" => urbs
    /\ disc \notin {"present", "flagged"} => holder = Free
    /\ disc \in {"stop_capture", "stopped"} => ~Active("playback")
    /\ disc = "stopped" => ~Active("capture")

\* The URBs are some frames, and as many as nurbs allows.
GeometryInRange == urb_frames \in Nat \ {0} /\ urbs_active \in 2..NUrbs

\* The parts that hold whatever fails, and the one that needs a start not to
\* fail once the session is live.
SessionInv == LockDiscipline /\ FlagFollows /\ UsersFollow /\ ClockIsOurs
              /\ OutsideFollows
QuietInv == IdleIsQuiet /\ RunningFits

NoLateFailure == Events \cap {"submit", "arm"} = {}
=============================================================================
