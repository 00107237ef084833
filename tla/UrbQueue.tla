------------------------------ MODULE UrbQueue ------------------------------
(***************************************************************************)
(* The URBs of one session at work: the completion handlers of both        *)
(* directions, which may run on several CPUs at once, against the start    *)
(* and the kill of the session, the work that ends a failing one, and the  *)
(* close of a substream while the other direction keeps the session.       *)
(*                                                                         *)
(* A handler moves one atomic access at a time: the error count is only    *)
(* ever read, incremented, compared and set by separate instructions.      *)
(* StreamSession sees all this as URBs that are in flight or not, and as   *)
(* failures that queue the work.                                           *)
(***************************************************************************)
EXTENDS Integers, FiniteSets

CONSTANTS
    InUrbs, OutUrbs,  \* the active URBs of each direction
    UrbErrStop,       \* BF_URB_ERR_STOP
    Events            \* the failures this instance allows

\* error: a URB completes with an error; resubmit, submit: a handler's or the
\* start's usb_submit_urb fails; close: substreams close under the session.
AllEvents == {"error", "resubmit", "submit", "close"}

NoUrb == "none"

ASSUME QueueAssumption ==
    /\ IsFiniteSet(InUrbs) /\ IsFiniteSet(OutUrbs)
    /\ InUrbs \cap OutUrbs = {} /\ OutUrbs # {}
    /\ NoUrb \notin InUrbs \cup OutUrbs
    /\ UrbErrStop \in Nat \ {0}
    /\ Events \subseteq AllEvents

Urbs == InUrbs \cup OutUrbs
Dirs == {"playback", "capture"}
Dir(u) == IF u \in OutUrbs THEN "playback" ELSE "capture"

\* Where a URB is: with the driver, with the host controller, or in its
\* completion handler, at the handler's next step.
UrbStates == {"idle", "flight", "good", "clear", "deref", "copy", "bad",
              "test", "submit", "broken", "schedule", "schedule_lost"}

VARIABLES
    ust,           \* where each URB is
    seen,          \* the error count a handler has read
    held,          \* the handlers inside their RCU section with a substream
    buf,           \* what an OUT URB carries: audio, silence, or sent audio
    urb_err,       \* chip->urb_err
    out_inflight,  \* chip->out_inflight
    streaming,     \* chip->streaming
    subs,          \* chip->subs[]: set, cleared (close waits), or freed
    running,       \* snd_pcm_running() of each substream
    holder,        \* what chip->mutex is held for: start, kill, abort or work
    todo,          \* the URBs the holder has still to submit or to kill
    killing,       \* the URB in usb_kill_urb, which rejects a submission
    pending,       \* stream_work is queued
    worker         \* stream_work is running (waiting for the mutex)

handler == <<ust, seen, held, buf>>
counts  == <<urb_err, out_inflight>>
pcms    == <<subs, running>>
mutex   == <<holder, todo, killing>>
work    == <<pending, worker>>
vars == <<ust, seen, held, buf, counts, streaming, pcms, mutex, work>>

Init ==
    /\ ust = [u \in Urbs |-> "idle"]
    /\ seen = [u \in Urbs |-> 0]
    /\ held = {}
    /\ buf = [u \in OutUrbs |-> "silence"]
    /\ urb_err = 0 /\ out_inflight = 0
    /\ streaming = FALSE
    /\ subs = [d \in Dirs |-> "set"]
    /\ running = [d \in Dirs |-> FALSE]
    /\ holder = "free" /\ todo = {} /\ killing = NoUrb
    /\ pending = FALSE /\ worker = FALSE

At(u, step) == ust[u] = step
Goto(u, step) == ust' = [ust EXCEPT ![u] = step]

\* bf_out_lost()
Lost(u) == out_inflight' = IF u \in OutUrbs /\ out_inflight > 0
                           THEN out_inflight - 1 ELSE out_inflight

----------------------------------------------------------------------------
\* The host controller completes a URB.
Complete(u) ==
    /\ At(u, "flight")
    /\ \/ /\ Goto(u, "good")
          /\ buf' = [v \in OutUrbs |-> IF v = u THEN "sent" ELSE buf[v]]
       \/ /\ "error" \in Events
          /\ Goto(u, "bad")
          /\ UNCHANGED buf
    /\ UNCHANGED <<seen, held, counts, streaming, pcms, mutex, work>>

\* Mutant: no limit.
CountErrorForever(u) ==
    /\ At(u, "bad")
    /\ urb_err' = urb_err + 1
    /\ Goto(u, "test")
    /\ UNCHANGED <<seen, held, buf, out_inflight, streaming, pcms, mutex, work>>

\* urb_error(): count it, and at the limit queue the work and retire.
CountError(u) ==
    /\ At(u, "bad")
    /\ urb_err' = urb_err + 1
    /\ Goto(u, IF urb_err + 1 < UrbErrStop THEN "test" ELSE "schedule_lost")
    /\ UNCHANGED <<seen, held, buf, out_inflight, streaming, pcms, mutex, work>>

\* urb_ok(): read the count ...
ReadErrors(u) ==
    /\ At(u, "good")
    /\ seen' = [seen EXCEPT ![u] = urb_err]
    /\ Goto(u, "clear")
    /\ UNCHANGED <<held, buf, counts, streaming, pcms, mutex, work>>

\* Mutant: a good completion clears a count that has reached the limit.
ClearErrorsAlways(u) ==
    /\ At(u, "clear")
    /\ urb_err' = 0
    /\ Goto(u, "deref")
    /\ seen' = [seen EXCEPT ![u] = 0]
    /\ UNCHANGED <<held, buf, out_inflight, streaming, pcms, mutex, work>>

\* ... and clear it, unless it is zero or at the limit, or has changed.
ClearErrors(u) ==
    /\ At(u, "clear")
    /\ IF seen[u] = 0 \/ seen[u] >= UrbErrStop
       THEN Goto(u, "deref") /\ UNCHANGED <<seen, urb_err>>
       ELSE IF urb_err = seen[u]
            THEN /\ urb_err' = 0
                 /\ Goto(u, "deref")
                 /\ seen' = [seen EXCEPT ![u] = 0]
            ELSE seen' = [seen EXCEPT ![u] = urb_err] /\ UNCHANGED <<ust, urb_err>>
    /\ UNCHANGED <<held, buf, out_inflight, streaming, pcms, mutex, work>>

\* Enter the RCU section and read the substream pointer.
Dereference(u) ==
    /\ At(u, "deref")
    /\ held' = IF subs[Dir(u)] = "set" THEN held \cup {u} ELSE held
    /\ seen' = [seen EXCEPT ![u] = 0]
    /\ Goto(u, "copy")
    /\ UNCHANGED <<buf, counts, streaming, pcms, mutex, work>>

\* Mutant: nothing to copy, nothing written.
CopyOrKeep(u) ==
    /\ At(u, "copy")
    /\ buf' = [v \in OutUrbs |->
                  IF v = u /\ u \in held /\ running[Dir(u)] THEN "audio" ELSE buf[v]]
    /\ held' = held \ {u}
    /\ Goto(u, "test")
    /\ UNCHANGED <<seen, counts, streaming, pcms, mutex, work>>

\* Copy if the substream runs, fill with silence otherwise, leave the section.
Copy(u) ==
    /\ At(u, "copy")
    /\ buf' = [v \in OutUrbs |->
                  IF v # u THEN buf[v]
                  ELSE IF u \in held /\ running[Dir(u)] THEN "audio" ELSE "silence"]
    /\ held' = held \ {u}
    /\ Goto(u, "test")
    /\ UNCHANGED <<seen, counts, streaming, pcms, mutex, work>>

\* Mutant: a handler resubmits and leaves it to the kill to catch the URB.
TestNothing(u) ==
    /\ At(u, "test")
    /\ Goto(u, "submit")
    /\ UNCHANGED <<seen, held, buf, counts, streaming, pcms, mutex, work>>

\* The session is being stopped: retire.
TestStreaming(u) ==
    /\ At(u, "test")
    /\ Goto(u, IF streaming THEN "submit" ELSE "idle")
    /\ UNCHANGED <<seen, held, buf, counts, streaming, pcms, mutex, work>>

\* usb_submit_urb() fails while the URB is being killed, or for its own reasons.
Resubmit(u) ==
    /\ At(u, "submit")
    /\ \/ /\ killing # u
          /\ Goto(u, "flight")
          /\ UNCHANGED out_inflight
       \/ /\ killing = u \/ "resubmit" \in Events
          /\ Goto(u, "broken")
          /\ Lost(u)
    /\ UNCHANGED <<seen, held, buf, urb_err, streaming, pcms, mutex, work>>

\* urb_resubmit_failed()
FailResubmit(u) ==
    /\ At(u, "broken")
    /\ urb_err' = UrbErrStop
    /\ Goto(u, "schedule")
    /\ UNCHANGED <<seen, held, buf, out_inflight, streaming, pcms, mutex, work>>

\* Mutant: a URB retired by errors stays in the delay.
ScheduleStillCounted(u) ==
    /\ ust[u] \in {"schedule", "schedule_lost"}
    /\ pending' = TRUE
    /\ Goto(u, "idle")
    /\ UNCHANGED <<seen, held, buf, counts, streaming, pcms, mutex, worker>>

Schedule(u) ==
    /\ ust[u] \in {"schedule", "schedule_lost"}
    /\ pending' = TRUE
    /\ IF At(u, "schedule_lost") THEN Lost(u) ELSE UNCHANGED out_inflight
    /\ Goto(u, "idle")
    /\ UNCHANGED <<seen, held, buf, urb_err, streaming, pcms, mutex, worker>>

----------------------------------------------------------------------------
\* stream_start(): clean buffers, a fresh count, the flag, then the URBs.
Start ==
    /\ holder = "free" /\ ~streaming
    /\ holder' = "start" /\ todo' = Urbs
    /\ buf' = [u \in OutUrbs |-> "silence"]
    /\ urb_err' = 0
    /\ out_inflight' = Cardinality(OutUrbs)
    /\ streaming' = TRUE
    /\ UNCHANGED <<ust, seen, held, pcms, killing, work>>

StartSubmits(u) ==
    /\ holder = "start" /\ u \in todo
    /\ \/ /\ Goto(u, "flight")
          /\ todo' = todo \ {u}
          /\ holder' = IF todo = {u} THEN "free" ELSE "start"
          /\ UNCHANGED streaming
       \/ /\ "submit" \in Events
          /\ streaming' = FALSE
          /\ todo' = Urbs /\ holder' = "abort"
          /\ UNCHANGED ust
    /\ UNCHANGED <<seen, held, buf, counts, pcms, killing, work>>

Killers == {"kill", "abort", "work"}

\* stream_kill(), by a caller that wants the session gone: the flag first ...
Kill ==
    /\ holder = "free" /\ streaming
    /\ holder' = "kill" /\ todo' = Urbs
    /\ streaming' = FALSE
    /\ UNCHANGED <<handler, counts, pcms, killing, work>>

\* ... then usb_kill_urb() on each URB: it rejects submissions and unlinks ...
KillBegins(u) ==
    /\ holder \in Killers /\ u \in todo /\ killing = NoUrb
    /\ killing' = u
    /\ ust' = [ust EXCEPT ![u] = IF @ = "flight" THEN "idle" ELSE @]
    /\ UNCHANGED <<seen, held, buf, counts, streaming, pcms, holder, todo, work>>

\* Mutant: the kill does not wait for the handler.
KillEndsAtOnce(u) ==
    /\ killing = u
    /\ killing' = NoUrb
    /\ todo' = todo \ {u}
    /\ IF todo = {u} /\ holder # "work"
       THEN /\ holder' = "free"
            /\ running' = IF holder = "kill" THEN [d \in Dirs |-> FALSE] ELSE running
       ELSE UNCHANGED <<holder, running>>
    /\ UNCHANGED <<handler, counts, streaming, subs, work>>

\* ... and returns once the handler has.  A killer other than a start that
\* failed has no running substream (hw_free) or stops both (pcm_stop_both).
KillEnds(u) ==
    /\ killing = u /\ At(u, "idle")
    /\ killing' = NoUrb
    /\ todo' = todo \ {u}
    /\ IF todo = {u} /\ holder # "work"
       THEN /\ holder' = "free"
            /\ running' = IF holder = "kill" THEN [d \in Dirs |-> FALSE] ELSE running
       ELSE UNCHANGED <<holder, running>>
    /\ UNCHANGED <<handler, counts, streaming, subs, work>>

----------------------------------------------------------------------------
WorkBegins ==
    /\ pending /\ ~worker
    /\ pending' = FALSE /\ worker' = TRUE
    /\ UNCHANGED <<handler, counts, streaming, pcms, mutex>>

\* stream_work: kill a session that has reached the limit ...
StreamWork ==
    /\ worker /\ holder = "free"
    /\ IF urb_err >= UrbErrStop
       THEN /\ holder' = "work"
            /\ todo' = IF streaming THEN Urbs ELSE {}
            /\ streaming' = FALSE
            /\ UNCHANGED worker
       ELSE worker' = FALSE /\ UNCHANGED <<streaming, holder, todo>>
    /\ UNCHANGED <<handler, counts, pcms, killing, pending>>

\* ... stop both substreams, and clear the count.
WorkEnds ==
    /\ holder = "work" /\ todo = {}
    /\ running' = [d \in Dirs |-> FALSE]
    /\ urb_err' = 0
    /\ holder' = "free" /\ worker' = FALSE
    /\ UNCHANGED <<handler, out_inflight, streaming, subs, todo, killing, pending>>

----------------------------------------------------------------------------
\* trigger START and STOP decide whether handlers copy.
Run(d) ==
    /\ subs[d] = "set" /\ ~running[d] /\ streaming
    /\ running' = [running EXCEPT ![d] = TRUE]
    /\ UNCHANGED <<handler, counts, streaming, subs, mutex, work>>

Halt(d) ==
    /\ running[d]
    /\ running' = [running EXCEPT ![d] = FALSE]
    /\ UNCHANGED <<handler, counts, streaming, subs, mutex, work>>

\* close(): clear the pointer ...
Detach(d) ==
    /\ "close" \in Events
    /\ subs[d] = "set" /\ ~running[d]
    /\ subs' = [subs EXCEPT ![d] = "cleared"]
    /\ UNCHANGED <<handler, counts, streaming, running, mutex, work>>

\* Mutant: no synchronize_rcu().
FreeAtOnce(d) ==
    /\ subs[d] = "cleared"
    /\ subs' = [subs EXCEPT ![d] = "freed"]
    /\ UNCHANGED <<handler, counts, streaming, running, mutex, work>>

\* ... and wait for the handlers that may have read it, before the core
\* frees the runtime.
Free(d) ==
    /\ subs[d] = "cleared"
    /\ \A u \in held : Dir(u) # d
    /\ subs' = [subs EXCEPT ![d] = "freed"]
    /\ UNCHANGED <<handler, counts, streaming, running, mutex, work>>

Reopen(d) ==
    /\ subs[d] = "freed"
    /\ subs' = [subs EXCEPT ![d] = "set"]
    /\ UNCHANGED <<handler, counts, streaming, running, mutex, work>>

----------------------------------------------------------------------------
Handler(u) ==
    \/ CountError(u) \/ ReadErrors(u) \/ ClearErrors(u) \/ Dereference(u)
    \/ Copy(u) \/ TestStreaming(u) \/ Resubmit(u) \/ FailResubmit(u) \/ Schedule(u)

Session == \/ Start \/ Kill
           \/ \E u \in Urbs : StartSubmits(u) \/ KillBegins(u) \/ KillEnds(u)

Worker == WorkBegins \/ StreamWork \/ WorkEnds

Next == \/ \E u \in Urbs : Complete(u) \/ Handler(u)
        \/ Session \/ Worker
        \/ \E d \in Dirs : Run(d) \/ Halt(d) \/ Detach(d) \/ Free(d) \/ Reopen(d)

Spec == Init /\ [][Next]_vars

\* Handlers run to their end, and so does a holder of the mutex, which is
\* handed to the work when it waits.
Fairness ==
    /\ \A u \in Urbs : /\ WF_vars(Handler(u))
                       /\ WF_vars(KillBegins(u)) /\ WF_vars(KillEnds(u))
                       /\ WF_vars(StartSubmits(u))
    /\ WF_vars(WorkBegins) /\ SF_vars(StreamWork) /\ WF_vars(WorkEnds)

FairSpec == Spec /\ Fairness

----------------------------------------------------------------------------
TypeOK ==
    /\ ust \in [Urbs -> UrbStates]
    /\ seen \in [Urbs -> 0..(UrbErrStop + Cardinality(Urbs))]
    /\ held \subseteq Urbs
    /\ buf \in [OutUrbs -> {"audio", "silence", "sent"}]
    /\ urb_err \in 0..(UrbErrStop + Cardinality(Urbs))
    /\ out_inflight \in 0..Cardinality(OutUrbs)
    /\ streaming \in BOOLEAN
    /\ subs \in [Dirs -> {"set", "cleared", "freed"}]
    /\ running \in [Dirs -> BOOLEAN]
    /\ holder \in {"free", "start"} \cup Killers
    /\ todo \subseteq Urbs /\ killing \in Urbs \cup {NoUrb}
    /\ pending \in BOOLEAN /\ worker \in BOOLEAN

\* The URBs that have left the queue of a live session.
Missing == IF holder = "start" THEN {u \in Urbs \ todo : At(u, "idle")}
                               ELSE {u \in Urbs : At(u, "idle")}

\* A live session that has lost a URB has its error count at the limit, and
\* somebody still to act on it: no good completion on another CPU, and no
\* failure counted at the same time, leaves it running on a shorter queue.
LostUrbIsNoticed ==
    streaming /\ Missing # {}
        => /\ urb_err >= UrbErrStop
           /\ pending \/ worker \/ \E u \in Urbs : At(u, "schedule")

\* out_inflight, from which the reported delay is computed, counts the OUT
\* URBs of a live session that are in the queue or will return to it.
InflightIsExact ==
    streaming => out_inflight =
        Cardinality({u \in OutUrbs : \/ holder = "start" /\ u \in todo
                                     \/ ust[u] \notin {"idle", "broken", "schedule"}})

\* No handler uses a substream whose close() has returned.
NoUseAfterClose == \A u \in held : subs[Dir(u)] # "freed"

\* The start fills and submits URBs that nobody else has: the kill before it
\* waited for every handler.
StartIsClean == holder = "start" => \A u \in todo : At(u, "idle")

\* No OUT URB goes back to the device with the audio it has already sent.
NoReplay == \A u \in OutUrbs : At(u, "flight") => buf[u] # "sent"

\* While a session is being killed no handler goes on to resubmit: a URB that
\* completes meanwhile retires, and is not counted as a stream error.
RetiresWhenStopped ==
    [][\A u \in Urbs :
          holder \in Killers /\ ust'[u] = "submit" => ust[u] = "submit"]_vars

\* A session that has lost a URB is stopped, although handlers keep clearing
\* the count and callers keep taking the mutex.
LostUrbStops == (streaming /\ Missing # {}) ~> ~streaming

\* What the rest of the driver is promised of the URBs, in terms of the queue.
\* The work is as good as asked for when the handler that has counted the last
\* failure is on its way to ask.
Moving == \/ streaming /\ todo # Urbs
          \/ \E u \in Urbs : ~At(u, "idle")
Failing == \E u \in Urbs : ust[u] \in {"schedule", "schedule_lost"}

Contract == INSTANCE UrbContract WITH
    live <- streaming, moving <- Moving, fatal <- urb_err >= UrbErrStop,
    pending <- pending \/ Failing, gone <- FALSE

\* Handlers on several CPUs, the start, the kill and the work, one atomic access
\* at a time, do what StreamSession takes them to do in a step each: a session
\* begins when no handler of the last is left, a failure that reaches the limit
\* has its work queued, and the count is reset only when all URBs are back.
KeepsUrbContract == Contract!UrbSpec

----------------------------------------------------------------------------
\* Why the safety properties hold: an inductive invariant, in parts, that
\* stays inductive for every number of URBs.

QueueShape ==
    /\ ust \in [Urbs -> UrbStates] /\ seen \in [Urbs -> Nat]
    /\ held \subseteq Urbs
    /\ buf \in [OutUrbs -> {"audio", "silence", "sent"}]
    /\ urb_err \in Nat /\ out_inflight \in Nat
    /\ subs \in [Dirs -> {"set", "cleared", "freed"}]
    /\ running \in [Dirs -> BOOLEAN]
    /\ holder \in {"free", "start"} \cup Killers
    /\ todo \subseteq Urbs /\ killing \in Urbs \cup {NoUrb}
    /\ streaming \in BOOLEAN /\ pending \in BOOLEAN /\ worker \in BOOLEAN

\* A start runs with the flag set and a kill with it clear; URBs the start has
\* not reached, and those the kill has passed, are the driver's own.
PhasesFollow ==
    /\ holder = "start" => streaming
    /\ holder \in Killers => ~streaming
    /\ holder = "free" => todo = {}
    /\ holder = "work" => worker
    /\ killing # NoUrb => holder \in Killers /\ killing \in todo
    /\ holder = "start" => \A u \in todo : At(u, "idle")
    /\ ~streaming => \A u \in Urbs \ todo : At(u, "idle")

\* The audio a URB has sent is in it until its handler has filled it again.
BufferFollows ==
    \A u \in OutUrbs : buf[u] = "sent" => ust[u] \in {"good", "clear", "deref", "copy"}

\* From the completion that reaches the limit on, the count stays there until
\* the session is stopped, and the work is queued or running by the time the
\* URB is gone.
LimitHolds ==
    /\ streaming /\ (\E u \in Urbs : ust[u] \in {"schedule", "schedule_lost"})
          => urb_err >= UrbErrStop
    /\ streaming /\ Missing # {}
          => urb_err >= UrbErrStop /\ (pending \/ worker)

QueueInv == QueueShape /\ PhasesFollow /\ BufferFollows /\ LimitHolds
            /\ NoUseAfterClose /\ InflightIsExact
=============================================================================
