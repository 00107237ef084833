------------------------ MODULE StreamSession_proofs ------------------------
(***************************************************************************)
(* Proofs about StreamSession, for every set of applications, rates and    *)
(* periods, every value of the module parameters, and every choice of      *)
(* events unless a theorem says which it excludes.                         *)
(***************************************************************************)
EXTENDS StreamSession, UrbGeometry_proofs, FiniteSetTheorems

\* What an hw_params asks for is a rate and a period of the URB arithmetic,
\* and the URB and the count it gets are numbers.
LEMMA ParamsAreFrames ==
    ASSUME NEW p \in Params
    PROVE  /\ p.rate \in Rates /\ p.rate \in BfRates /\ p.rate \in Nat
           /\ p.period \in Periods /\ p.period \in Nat \ {0}
           /\ BfUrbFrames(p.rate, p.period) \in Nat
  <1>1. /\ p.rate \in Rates /\ p.rate \in BfRates
        /\ p.period \in Periods /\ p.period \in Nat \ {0}
    BY SessionAssumption DEF Params
  <1>2. p.rate \in Nat
    BY <1>1 DEF BfRates
  <1> QED  BY <1>1, <1>2, WholeUrb

LEMMA CountIsNat ==
    ASSUME NEW p \in Params, BfUrbFrames(p.rate, p.period) # 0
    PROVE  UrbCount(p.rate, p.period, BfUrbFrames(p.rate, p.period)) \in Nat
  <1>1. p.rate \in BfRates /\ p.period \in Nat \ {0}
    BY ParamsAreFrames
  <1> QED  BY <1>1, QueueFitsItsPeriod, GeometryAssumption DEF QueueFits

----------------------------------------------------------------------------

\* What a step needs to know of the jobs that share its code.
LEMMA KillingJobs ==
    LockDiscipline =>
        /\ job = "hw_free" => holder \in Dirs
        /\ job = "disconnect" => disc = "flagged"
        /\ job = "suspend" => pm = "frozen"
  BY DEF LockDiscipline, None

\* hw_params runs for a direction, with parameters it has kept.
LEMMA NegotiatingHolder ==
    LockDiscipline /\ at \in {"set_interface", "geometry", "geometry_new_rate", "resize"}
        => holder \in Dirs /\ job \in {"retune", "resize"} /\ Negotiates
  BY DEF LockDiscipline, None

LEMMA SetStateType ==
    ASSUME NEW d, NEW s \in PcmStates, pcm \in [Dirs -> PcmStates], SetState(d, s)
    PROVE  pcm' \in [Dirs -> PcmStates]
  BY DEF SetState

\* What the end of hw_params does to the types.
LEMMA CountUserTypes ==
    ASSUME DataTypes, CountUser, holder \in Dirs, req \in Params
    PROVE  /\ pcm' \in [Dirs -> PcmStates]
           /\ rt' \in [Dirs -> Params \cup {NoParams}]
           /\ holder' = Free /\ job' = None /\ at' = None /\ req' = NoParams
  <1>1. pcm' \in [Dirs -> PcmStates]
    BY SetStateType DEF CountUser, DataTypes, PcmStates
  <1>2. rt' \in [Dirs -> Params \cup {NoParams}]
    BY DEF CountUser, DataTypes
  <1> QED  BY <1>1, <1>2 DEF CountUser, Release

\* A free mutex has no job.
LEMMA FreeMutex == LockDiscipline /\ holder = Free => job = None /\ at = None
  BY DEF LockDiscipline, Free, None, Dirs

\* prepare runs for a direction too.
LEMMA StartingHolder ==
    LockDiscipline /\ at = "arm" => holder \in Dirs /\ job = "start"
  BY DEF LockDiscipline, None

\* Every step keeps the flags Boolean.
LEMMA FlagTypesStep ==
    FlagTypes /\ LockDiscipline /\ [Next]_vars => FlagTypes'
  <1> SUFFICES ASSUME FlagTypes /\ LockDiscipline, [Next]_vars PROVE FlagTypes'
    OBVIOUS
  <1> USE DEF vars, session, users, usb, work, outside, critical, FlagTypes
  <1>1. ASSUME SetInterface PROVE FlagTypes'
    BY <1>1 DEF SetInterface, Goto, SetState, Release
  <1>2. ASSUME GeometryRefused PROVE FlagTypes'
    BY <1>2 DEF GeometryRefused, SetState, Release
  <1>3. ASSUME GeometryKept PROVE FlagTypes'
    BY <1>3 DEF GeometryKept, CountUser, SetState, Release
  <1>4. ASSUME GeometryConfirmed PROVE FlagTypes'
    BY <1>4 DEF GeometryConfirmed, CountUser, SetState, Release
  <1>5. ASSUME GeometryChanged PROVE FlagTypes'
    BY <1>5 DEF GeometryChanged
  <1>6. ASSUME Resize PROVE FlagTypes'
    BY <1>6 DEF Resize, CountUser, SetState, Release
  <1>7. ASSUME StartTrigger PROVE FlagTypes'
    BY <1>7 DEF StartTrigger, Goto
  <1>8. ASSUME StartLive PROVE FlagTypes'
    BY <1>8 DEF StartLive, Goto
  <1>9. ASSUME StartSubmit PROVE FlagTypes'
    BY <1>9 DEF StartSubmit, Goto
  <1>10. ASSUME StartArm PROVE FlagTypes'
    BY <1>10 DEF StartArm, Goto, SetState, Release
  <1>11. ASSUME Kill PROVE FlagTypes'
    BY <1>11 DEF Kill, Goto
  <1>12. ASSUME Reap PROVE FlagTypes'
    <2>1. UNCHANGED <<users, streaming, work, shutdown>> /\ urbs' = FALSE /\ rested' = FALSE
      BY <1>12 DEF Reap
    <2> QED  BY <2>1
  <1>13. ASSUME StopPlayback PROVE FlagTypes'
    BY <1>13 DEF StopPlayback, SetState, Stopped, Goto
  <1>14. ASSUME StopCapture PROVE FlagTypes'
    <2>2. UNCHANGED <<users, usb, outside>>
      BY <1>14 DEF StopCapture
    <2>3. UNCHANGED pending /\ fatal' \in {fatal, FALSE}
      BY <1>14 DEF StopCapture
    <2> QED  BY <2>2, <2>3
  <1>15. ASSUME NEW d \in Dirs, NEW a \in Apps, Open(d, a) PROVE FlagTypes'
    BY <1>15 DEF Open, Calls, SetState
  <1>16. ASSUME NEW d \in Dirs, NEW p \in Params, RefuseParams(d, p) PROVE
           FlagTypes'
    BY <1>16 DEF RefuseParams, SetState, MayNegotiate, Calls
  <1>17. ASSUME NEW d \in Dirs, NEW p \in Params, HwParams(d, p) PROVE
           FlagTypes'
    BY <1>17 DEF HwParams, Acquire, MayNegotiate, Calls
  <1>18. ASSUME NEW d \in Dirs, Flush(d) PROVE FlagTypes'
    BY <1>18 DEF Flush, Calls
  <1>19. ASSUME NEW d \in Dirs, Close(d) PROVE FlagTypes'
    BY <1>19 DEF Close, SetState
  <1>20. ASSUME NEW d \in Dirs, HwFree(d) PROVE FlagTypes'
    BY <1>20 DEF HwFree, Acquire, SetState, MayFree, Calls
  <1>21. ASSUME NEW d \in Dirs, Prepare(d) PROVE FlagTypes'
    BY <1>21 DEF Prepare, SetState, MayPrepare, Calls
  <1>22. ASSUME NEW d \in Dirs, PrepareStarts(d) PROVE FlagTypes'
    BY <1>22 DEF PrepareStarts, Acquire, MayPrepare, Calls
  <1>23. ASSUME NEW d \in Dirs, Start(d) PROVE FlagTypes'
    BY <1>23 DEF Start, Calls, SetState
  <1>24. ASSUME NEW d \in Dirs, StartDone(d) PROVE FlagTypes'
    BY <1>24 DEF StartDone, SetState
  <1>25. ASSUME NEW d \in Dirs, Drop(d) PROVE FlagTypes'
    BY <1>25 DEF Drop, SetState, Calls
  <1>26. ASSUME NEW d \in Dirs, Xrun(d) PROVE FlagTypes'
    BY <1>26 DEF Xrun, SetState
  <1>27. ASSUME UrbsFail PROVE FlagTypes'
    BY <1>27 DEF UrbsFail
  <1>28. ASSUME WorkBegins PROVE FlagTypes'
    BY <1>28 DEF WorkBegins
  <1>29. ASSUME StreamWork PROVE FlagTypes'
    BY <1>29 DEF StreamWork
  <1>30. ASSUME Disconnect PROVE FlagTypes'
    BY <1>30 DEF Disconnect
  <1>31. ASSUME DisconnectKills PROVE FlagTypes'
    BY <1>31 DEF DisconnectKills, Acquire
  <1>32. ASSUME DisconnectCancels PROVE FlagTypes'
    BY <1>32 DEF DisconnectCancels
  <1>33. ASSUME NEW d \in Dirs, DisconnectStops(d) PROVE FlagTypes'
    BY <1>33 DEF DisconnectStops, SetState, Stopped
  <1>34. ASSUME CardDisconnects PROVE FlagTypes'
    BY <1>34 DEF CardDisconnects
  <1>35. ASSUME Suspend PROVE FlagTypes'
    BY <1>35 DEF Suspend
  <1>36. ASSUME SuspendKills PROVE FlagTypes'
    BY <1>36 DEF SuspendKills, Acquire
  <1>37. ASSUME SuspendCancels PROVE FlagTypes'
    BY <1>37 DEF SuspendCancels
  <1>38. ASSUME Resume PROVE FlagTypes'
    BY <1>38 DEF Resume
  <1>39. ASSUME Rest PROVE FlagTypes'
    BY <1>39 DEF Rest
  <1>40. ASSUME Gone PROVE FlagTypes'
    BY <1>40 DEF Gone
  <1>41. ASSUME UNCHANGED vars PROVE FlagTypes'
    BY <1>41
  <1> HIDE DEF vars, session, users, usb, work, outside, critical, FlagTypes
  <1> QED
    BY <1>1, <1>2, <1>3, <1>4, <1>5, <1>6, <1>7, <1>8, <1>9, <1>10, <1>11,
       <1>12, <1>13, <1>14, <1>15, <1>16, <1>17, <1>18, <1>19, <1>20, <1>21,
       <1>22, <1>23, <1>24, <1>25, <1>26, <1>27, <1>28, <1>29, <1>30, <1>31,
       <1>32, <1>33, <1>34, <1>35, <1>36, <1>37, <1>38, <1>39, <1>40, <1>41
       DEF Next, HolderStep, Caller, Worker, Unplug, Power

\* ... and the rest of the state typed.
LEMMA DataTypesStep ==
    DataTypes /\ LockDiscipline /\ [Next]_vars => DataTypes'
  <1> SUFFICES ASSUME DataTypes /\ LockDiscipline, [Next]_vars PROVE DataTypes'
    OBVIOUS
  <1> USE DEF vars, session, users, usb, work, outside, critical, DataTypes,
       Free, None, Holders, Jobs, Steps
  <1>1. ASSUME SetInterface PROVE DataTypes'
    <2>1. holder \in Dirs /\ req \in Params
      BY <1>1, NegotiatingHolder DEF SetInterface, Negotiates
    <2>2. rate' \in Rates \cup {48000}
      BY <1>1, <2>1, ParamsAreFrames DEF SetInterface
    <2>3. pcm' \in [Dirs -> PcmStates]
      BY <1>1, SetStateType DEF SetInterface, PcmStates
    <2> QED
      BY <1>1, <2>2, <2>3 DEF SetInterface, Goto, Release
  <1>2. ASSUME GeometryRefused PROVE DataTypes'
    <2>1. pcm' \in [Dirs -> PcmStates]
      BY <1>2, SetStateType DEF GeometryRefused, PcmStates
    <2> QED  BY <1>2, <2>1 DEF GeometryRefused, Release
  <1>3. ASSUME GeometryKept PROVE DataTypes'
    <2>1. CountUser /\ UNCHANGED <<session, owner, usb, work, outside>>
      BY <1>3 DEF GeometryKept
    <2>2. holder \in Dirs /\ req \in Params
      BY <1>3, NegotiatingHolder DEF GeometryKept, Negotiates
    <2> QED  BY <2>1, <2>2, CountUserTypes
  <1>4. ASSUME GeometryConfirmed PROVE DataTypes'
    <2>1. /\ CountUser /\ session_dir' = holder
          /\ UNCHANGED <<rate, urb_frames, urbs_active, owner, usb, work, outside>>
      BY <1>4 DEF GeometryConfirmed
    <2>2. holder \in Dirs /\ req \in Params
      BY <1>4, NegotiatingHolder DEF GeometryConfirmed, Negotiates
    <2> QED  BY <2>1, <2>2, CountUserTypes
  <1>5. ASSUME GeometryChanged PROVE DataTypes'
    BY <1>5 DEF GeometryChanged
  <1>6. ASSUME Resize PROVE DataTypes'
    <2>1. /\ CountUser /\ session_dir' = holder
          /\ urb_frames' = NewUrb /\ urbs_active' = NewCount
          /\ UNCHANGED <<rate, owner, usb, work, outside>>
      BY <1>6 DEF Resize
    <2>2. holder \in Dirs /\ req \in Params /\ NewUrb # 0
      BY <1>6, NegotiatingHolder DEF Resize, Negotiates, NewUrb
    <2>3. NewUrb \in Nat /\ NewCount \in Nat
      BY <2>2, ParamsAreFrames, CountIsNat DEF NewUrb, NewCount
    <2> QED  BY <2>1, <2>2, <2>3, CountUserTypes
  <1>7. ASSUME StartTrigger PROVE DataTypes'
    BY <1>7 DEF StartTrigger, Goto
  <1>8. ASSUME StartLive PROVE DataTypes'
    BY <1>8 DEF StartLive, Goto
  <1>9. ASSUME StartSubmit PROVE DataTypes'
    BY <1>9 DEF StartSubmit, Goto
  <1>10. ASSUME StartArm PROVE DataTypes'
    BY <1>10 DEF StartArm, PcmStates, Goto, SetState, Release
  <1>11. ASSUME Kill PROVE DataTypes'
    BY <1>11 DEF Kill, Goto
  <1>12. ASSUME Reap PROVE DataTypes'
    <2>2. UNCHANGED <<rt, session, users, work>>
      BY <1>12 DEF Reap
    <2>3. pcm' \in [Dirs -> PcmStates]
      BY <1>12, SetStateType DEF Reap, Reaped, PcmStates
    <2>4. disc' \in {disc, "killed"} /\ pm' \in {pm, "killed"}
      BY <1>12 DEF Reap, Reaped
    <2>5. \/ at' = "stop_playback" /\ UNCHANGED <<holder, job, req>>
          \/ holder' = Free /\ job' = None /\ at' = None /\ req' = NoParams
      BY <1>12 DEF Reap, Reaped, Goto, Release
    <2> QED  BY <2>2, <2>3, <2>4, <2>5
  <1>13. ASSUME StopPlayback PROVE DataTypes'
    <2>1. pcm' \in [Dirs -> PcmStates]
      BY <1>13, SetStateType DEF StopPlayback, Stopped, PcmStates, Dirs
    <2> QED  BY <1>13, <2>1 DEF StopPlayback, Goto
  <1>14. ASSUME StopCapture PROVE DataTypes'
    <2>2. pcm' \in [Dirs -> PcmStates]
      BY <1>14, SetStateType DEF StopCapture, Stopped, PcmStates, Dirs
    <2>3. worker' \in {worker, "idle"} /\ UNCHANGED <<rt, session, users, disc, pm>>
      BY <1>14 DEF StopCapture
    <2>4. \/ at' \in {"set_interface", "resize"} /\ UNCHANGED <<holder, job, req>>
          \/ holder' = Free /\ job' = None /\ at' = None /\ req' = NoParams
      BY <1>14 DEF StopCapture, Goto, Release
    <2> QED  BY <2>2, <2>3, <2>4
  <1>15. ASSUME NEW d \in Dirs, NEW a \in Apps, Open(d, a) PROVE DataTypes'
    BY <1>15 DEF Open, PcmStates, Calls, SetState
  <1>16. ASSUME NEW d \in Dirs, NEW p \in Params, RefuseParams(d, p) PROVE
           DataTypes'
    <2>1. SetState(d, "FAILED")
      BY <1>16 DEF RefuseParams
    <2>2. pcm' \in [Dirs -> PcmStates]
      BY <2>1, SetStateType DEF PcmStates
    <2> QED  BY <1>16, <2>2 DEF RefuseParams
  <1>17. ASSUME NEW d \in Dirs, NEW p \in Params, HwParams(d, p) PROVE
           DataTypes'
    BY <1>17 DEF HwParams, Acquire, MayNegotiate, Calls
  <1>18. ASSUME NEW d \in Dirs, Flush(d) PROVE DataTypes'
    BY <1>18 DEF Flush, PcmStates, Calls
  <1>19. ASSUME NEW d \in Dirs, Close(d) PROVE DataTypes'
    BY <1>19 DEF Close, PcmStates, SetState
  <1>20. ASSUME NEW d \in Dirs, HwFree(d) PROVE DataTypes'
    BY <1>20 DEF HwFree, PcmStates, Acquire, SetState, MayFree, Calls
  <1>21. ASSUME NEW d \in Dirs, Prepare(d) PROVE DataTypes'
    BY <1>21 DEF Prepare, PcmStates, SetState, MayPrepare, Calls
  <1>22. ASSUME NEW d \in Dirs, PrepareStarts(d) PROVE DataTypes'
    BY <1>22 DEF PrepareStarts, Acquire, MayPrepare, Calls
  <1>23. ASSUME NEW d \in Dirs, Start(d) PROVE DataTypes'
    BY <1>23 DEF Start, PcmStates, Calls, SetState
  <1>24. ASSUME NEW d \in Dirs, StartDone(d) PROVE DataTypes'
    BY <1>24 DEF StartDone, PcmStates, SetState
  <1>25. ASSUME NEW d \in Dirs, Drop(d) PROVE DataTypes'
    BY <1>25 DEF Drop, PcmStates, SetState, Calls
  <1>26. ASSUME NEW d \in Dirs, Xrun(d) PROVE DataTypes'
    BY <1>26 DEF Xrun, PcmStates, SetState
  <1>27. ASSUME UrbsFail PROVE DataTypes'
    BY <1>27 DEF UrbsFail
  <1>28. ASSUME WorkBegins PROVE DataTypes'
    BY <1>28 DEF WorkBegins
  <1>29. ASSUME StreamWork PROVE DataTypes'
    BY <1>29 DEF StreamWork, Acquire
  <1>30. ASSUME Disconnect PROVE DataTypes'
    BY <1>30 DEF Disconnect
  <1>31. ASSUME DisconnectKills PROVE DataTypes'
    BY <1>31 DEF DisconnectKills, Acquire
  <1>32. ASSUME DisconnectCancels PROVE DataTypes'
    BY <1>32 DEF DisconnectCancels
  <1>33. ASSUME NEW d \in Dirs, DisconnectStops(d) PROVE DataTypes'
    BY <1>33 DEF DisconnectStops, PcmStates, SetState, Stopped
  <1>34. ASSUME CardDisconnects PROVE DataTypes'
    BY <1>34 DEF CardDisconnects, PcmStates
  <1>35. ASSUME Suspend PROVE DataTypes'
    BY <1>35 DEF Suspend, PcmStates
  <1>36. ASSUME SuspendKills PROVE DataTypes'
    BY <1>36 DEF SuspendKills, Acquire
  <1>37. ASSUME SuspendCancels PROVE DataTypes'
    BY <1>37 DEF SuspendCancels
  <1>38. ASSUME Resume PROVE DataTypes'
    BY <1>38 DEF Resume
  <1>39. ASSUME Rest PROVE DataTypes'
    BY <1>39 DEF Rest
  <1>40. ASSUME Gone PROVE DataTypes'
    BY <1>40 DEF Gone
  <1>41. ASSUME UNCHANGED vars PROVE DataTypes'
    BY <1>41
  <1> HIDE DEF vars, session, users, usb, work, outside, critical, DataTypes,
       Free, None, Holders, Jobs, Steps
  <1> QED
    BY <1>1, <1>2, <1>3, <1>4, <1>5, <1>6, <1>7, <1>8, <1>9, <1>10, <1>11,
       <1>12, <1>13, <1>14, <1>15, <1>16, <1>17, <1>18, <1>19, <1>20, <1>21,
       <1>22, <1>23, <1>24, <1>25, <1>26, <1>27, <1>28, <1>29, <1>30, <1>31,
       <1>32, <1>33, <1>34, <1>35, <1>36, <1>37, <1>38, <1>39, <1>40, <1>41
       DEF Next, HolderStep, Caller, Worker, Unplug, Power
\* The mutex: every step leaves it with the call that owns its next step.
LEMMA LockDisciplineStep ==
    LockDiscipline /\ [Next]_vars => LockDiscipline'
  <1> SUFFICES ASSUME LockDiscipline, [Next]_vars PROVE LockDiscipline'
    OBVIOUS
  <1> USE DEF vars, session, users, usb, work, outside, critical,
       LockDiscipline, Negotiates, Free, None
  <1>1. ASSUME SetInterface PROVE LockDiscipline'
    BY <1>1 DEF SetInterface, Goto, SetState, Release
  <1>2. ASSUME GeometryRefused PROVE LockDiscipline'
    BY <1>2 DEF GeometryRefused, SetState, Release
  <1>3. ASSUME GeometryKept PROVE LockDiscipline'
    BY <1>3 DEF GeometryKept, CountUser, SetState, Release
  <1>4. ASSUME GeometryConfirmed PROVE LockDiscipline'
    BY <1>4 DEF GeometryConfirmed, CountUser, SetState, Release
  <1>5. ASSUME GeometryChanged PROVE LockDiscipline'
    BY <1>5 DEF GeometryChanged
  <1>6. ASSUME Resize PROVE LockDiscipline'
    BY <1>6 DEF Resize, CountUser, SetState, Release
  <1>7. ASSUME StartTrigger PROVE LockDiscipline'
    BY <1>7 DEF StartTrigger, Goto
  <1>8. ASSUME StartLive PROVE LockDiscipline'
    BY <1>8 DEF StartLive, Goto
  <1>9. ASSUME StartSubmit PROVE LockDiscipline'
    BY <1>9 DEF StartSubmit, Goto
  <1>10. ASSUME StartArm PROVE LockDiscipline'
    BY <1>10 DEF StartArm, Goto, SetState, Release
  <1>11. ASSUME Kill PROVE LockDiscipline'
    BY <1>11 DEF Kill, Goto
  <1>12. ASSUME Reap PROVE LockDiscipline'
    BY <1>12 DEF Reap, Reaped, Goto, SetState, Release
  <1>13. ASSUME StopPlayback PROVE LockDiscipline'
    BY <1>13 DEF StopPlayback, SetState, Stopped, Goto
  <1>14. ASSUME StopCapture PROVE LockDiscipline'
    BY <1>14 DEF StopCapture, SetState, Stopped, Goto, Release
  <1>15. ASSUME NEW d \in Dirs, NEW a \in Apps, Open(d, a) PROVE
           LockDiscipline'
    BY <1>15 DEF Open, Calls, SetState
  <1>16. ASSUME NEW d \in Dirs, NEW p \in Params, RefuseParams(d, p) PROVE
           LockDiscipline'
    BY <1>16 DEF RefuseParams, SetState, MayNegotiate, Calls
  <1>17. ASSUME NEW d \in Dirs, NEW p \in Params, HwParams(d, p) PROVE
           LockDiscipline'
    BY <1>17 DEF HwParams, Acquire, MayNegotiate, Calls
  <1>18. ASSUME NEW d \in Dirs, Flush(d) PROVE LockDiscipline'
    BY <1>18 DEF Flush, Calls
  <1>19. ASSUME NEW d \in Dirs, Close(d) PROVE LockDiscipline'
    BY <1>19 DEF Close, SetState
  <1>20. ASSUME NEW d \in Dirs, HwFree(d) PROVE LockDiscipline'
    BY <1>20 DEF HwFree, Acquire, SetState, MayFree, Calls
  <1>21. ASSUME NEW d \in Dirs, Prepare(d) PROVE LockDiscipline'
    BY <1>21 DEF Prepare, SetState, MayPrepare, Calls
  <1>22. ASSUME NEW d \in Dirs, PrepareStarts(d) PROVE LockDiscipline'
    BY <1>22 DEF PrepareStarts, Acquire, MayPrepare, Calls
  <1>23. ASSUME NEW d \in Dirs, Start(d) PROVE LockDiscipline'
    BY <1>23 DEF Start, Calls, SetState
  <1>24. ASSUME NEW d \in Dirs, StartDone(d) PROVE LockDiscipline'
    BY <1>24 DEF StartDone, SetState
  <1>25. ASSUME NEW d \in Dirs, Drop(d) PROVE LockDiscipline'
    BY <1>25 DEF Drop, SetState, Calls
  <1>26. ASSUME NEW d \in Dirs, Xrun(d) PROVE LockDiscipline'
    BY <1>26 DEF Xrun, SetState
  <1>27. ASSUME UrbsFail PROVE LockDiscipline'
    BY <1>27 DEF UrbsFail
  <1>28. ASSUME WorkBegins PROVE LockDiscipline'
    BY <1>28 DEF WorkBegins
  <1>29. ASSUME StreamWork PROVE LockDiscipline'
    BY <1>29 DEF StreamWork, Acquire
  <1>30. ASSUME Disconnect PROVE LockDiscipline'
    BY <1>30 DEF Disconnect
  <1>31. ASSUME DisconnectKills PROVE LockDiscipline'
    BY <1>31 DEF DisconnectKills, Acquire
  <1>32. ASSUME DisconnectCancels PROVE LockDiscipline'
    BY <1>32 DEF DisconnectCancels
  <1>33. ASSUME NEW d \in Dirs, DisconnectStops(d) PROVE LockDiscipline'
    BY <1>33 DEF DisconnectStops, SetState, Stopped
  <1>34. ASSUME CardDisconnects PROVE LockDiscipline'
    BY <1>34 DEF CardDisconnects
  <1>35. ASSUME Suspend PROVE LockDiscipline'
    BY <1>35 DEF Suspend
  <1>36. ASSUME SuspendKills PROVE LockDiscipline'
    BY <1>36 DEF SuspendKills, Acquire
  <1>37. ASSUME SuspendCancels PROVE LockDiscipline'
    BY <1>37 DEF SuspendCancels
  <1>38. ASSUME Resume PROVE LockDiscipline'
    BY <1>38 DEF Resume
  <1>39. ASSUME Rest PROVE LockDiscipline'
    BY <1>39 DEF Rest
  <1>40. ASSUME Gone PROVE LockDiscipline'
    BY <1>40 DEF Gone
  <1>41. ASSUME UNCHANGED vars PROVE LockDiscipline'
    BY <1>41
  <1> HIDE DEF vars, session, users, usb, work, outside, critical,
       LockDiscipline, Negotiates, Free, None
  <1> QED
    BY <1>1, <1>2, <1>3, <1>4, <1>5, <1>6, <1>7, <1>8, <1>9, <1>10, <1>11,
       <1>12, <1>13, <1>14, <1>15, <1>16, <1>17, <1>18, <1>19, <1>20, <1>21,
       <1>22, <1>23, <1>24, <1>25, <1>26, <1>27, <1>28, <1>29, <1>30, <1>31,
       <1>32, <1>33, <1>34, <1>35, <1>36, <1>37, <1>38, <1>39, <1>40, <1>41
       DEF Next, HolderStep, Caller, Worker, Unplug, Power

\* ->streaming through a kill and a start.
LEMMA FlagFollowsStep ==
    FlagTypes /\ LockDiscipline /\ FlagFollows /\ [Next]_vars => FlagFollows'
  <1> SUFFICES ASSUME FlagTypes /\ LockDiscipline /\ FlagFollows, [Next]_vars PROVE FlagFollows'
    OBVIOUS
  <1> USE DEF vars, session, users, usb, work, outside, critical, FlagFollows,
       None, Free
  <1>1. ASSUME SetInterface PROVE FlagFollows'
    BY <1>1 DEF SetInterface, Goto, SetState, Release
  <1>2. ASSUME GeometryRefused PROVE FlagFollows'
    BY <1>2 DEF GeometryRefused, SetState, Release
  <1>3. ASSUME GeometryKept PROVE FlagFollows'
    BY <1>3 DEF GeometryKept, CountUser, SetState, Release
  <1>4. ASSUME GeometryConfirmed PROVE FlagFollows'
    BY <1>4 DEF GeometryConfirmed, CountUser, SetState, Release
  <1>5. ASSUME GeometryChanged PROVE FlagFollows'
    BY <1>5 DEF GeometryChanged
  <1>6. ASSUME Resize PROVE FlagFollows'
    BY <1>6 DEF Resize, CountUser, SetState, Release
  <1>7. ASSUME StartTrigger PROVE FlagFollows'
    BY <1>7 DEF StartTrigger, Goto
  <1>8. ASSUME StartLive PROVE FlagFollows'
    BY <1>8 DEF StartLive, Goto
  <1>9. ASSUME StartSubmit PROVE FlagFollows'
    BY <1>9 DEF StartSubmit, Goto
  <1>10. ASSUME StartArm PROVE FlagFollows'
    BY <1>10 DEF StartArm, Goto, SetState, Release
  <1>11. ASSUME Kill PROVE FlagFollows'
    BY <1>11 DEF Kill, Goto
  <1>12. ASSUME Reap PROVE FlagFollows'
    BY <1>12 DEF Reap, Reaped, Goto, SetState, Release
  <1>13. ASSUME StopPlayback PROVE FlagFollows'
    BY <1>13 DEF StopPlayback, SetState, Stopped, Goto
  <1>14. ASSUME StopCapture PROVE FlagFollows'
    BY <1>14 DEF StopCapture, SetState, Stopped, Goto, Release
  <1>15. ASSUME NEW d \in Dirs, NEW a \in Apps, Open(d, a) PROVE FlagFollows'
    BY <1>15 DEF Open, Calls, SetState
  <1>16. ASSUME NEW d \in Dirs, NEW p \in Params, RefuseParams(d, p) PROVE
           FlagFollows'
    BY <1>16 DEF RefuseParams, SetState, MayNegotiate, Calls
  <1>17. ASSUME NEW d \in Dirs, NEW p \in Params, HwParams(d, p) PROVE
           FlagFollows'
    BY <1>17 DEF HwParams, Acquire, MayNegotiate, Calls
  <1>18. ASSUME NEW d \in Dirs, Flush(d) PROVE FlagFollows'
    BY <1>18 DEF Flush, Calls
  <1>19. ASSUME NEW d \in Dirs, Close(d) PROVE FlagFollows'
    BY <1>19 DEF Close, SetState
  <1>20. ASSUME NEW d \in Dirs, HwFree(d) PROVE FlagFollows'
    BY <1>20 DEF HwFree, Acquire, SetState, MayFree, Calls
  <1>21. ASSUME NEW d \in Dirs, Prepare(d) PROVE FlagFollows'
    BY <1>21 DEF Prepare, SetState, MayPrepare, Calls
  <1>22. ASSUME NEW d \in Dirs, PrepareStarts(d) PROVE FlagFollows'
    BY <1>22 DEF PrepareStarts, Acquire, MayPrepare, Calls
  <1>23. ASSUME NEW d \in Dirs, Start(d) PROVE FlagFollows'
    BY <1>23 DEF Start, Calls, SetState
  <1>24. ASSUME NEW d \in Dirs, StartDone(d) PROVE FlagFollows'
    BY <1>24 DEF StartDone, SetState
  <1>25. ASSUME NEW d \in Dirs, Drop(d) PROVE FlagFollows'
    BY <1>25 DEF Drop, SetState, Calls
  <1>26. ASSUME NEW d \in Dirs, Xrun(d) PROVE FlagFollows'
    BY <1>26 DEF Xrun, SetState
  <1>27. ASSUME UrbsFail PROVE FlagFollows'
    BY <1>27 DEF UrbsFail
  <1>28. ASSUME WorkBegins PROVE FlagFollows'
    BY <1>28 DEF WorkBegins
  <1>29. ASSUME StreamWork PROVE FlagFollows'
    BY <1>29 DEF StreamWork, Acquire
  <1>30. ASSUME Disconnect PROVE FlagFollows'
    BY <1>30 DEF Disconnect
  <1>31. ASSUME DisconnectKills PROVE FlagFollows'
    BY <1>31 DEF DisconnectKills, Acquire
  <1>32. ASSUME DisconnectCancels PROVE FlagFollows'
    BY <1>32 DEF DisconnectCancels
  <1>33. ASSUME NEW d \in Dirs, DisconnectStops(d) PROVE FlagFollows'
    BY <1>33 DEF DisconnectStops, SetState, Stopped
  <1>34. ASSUME CardDisconnects PROVE FlagFollows'
    BY <1>34 DEF CardDisconnects
  <1>35. ASSUME Suspend PROVE FlagFollows'
    BY <1>35 DEF Suspend
  <1>36. ASSUME SuspendKills PROVE FlagFollows'
    BY <1>36 DEF SuspendKills, Acquire
  <1>37. ASSUME SuspendCancels PROVE FlagFollows'
    BY <1>37 DEF SuspendCancels
  <1>38. ASSUME Resume PROVE FlagFollows'
    BY <1>38 DEF Resume
  <1>39. ASSUME Rest PROVE FlagFollows'
    BY <1>39 DEF Rest
  <1>40. ASSUME Gone PROVE FlagFollows'
    BY <1>40 DEF Gone
  <1>41. ASSUME UNCHANGED vars PROVE FlagFollows'
    BY <1>41
  <1> HIDE DEF vars, session, users, usb, work, outside, critical,
       FlagFollows, None, Free
  <1> QED
    BY <1>1, <1>2, <1>3, <1>4, <1>5, <1>6, <1>7, <1>8, <1>9, <1>10, <1>11,
       <1>12, <1>13, <1>14, <1>15, <1>16, <1>17, <1>18, <1>19, <1>20, <1>21,
       <1>22, <1>23, <1>24, <1>25, <1>26, <1>27, <1>28, <1>29, <1>30, <1>31,
       <1>32, <1>33, <1>34, <1>35, <1>36, <1>37, <1>38, <1>39, <1>40, <1>41
       DEF Next, HolderStep, Caller, Worker, Unplug, Power

\* Who is set up is who is counted.
LEMMA UsersFollowStep ==
    TypeOK /\ LockDiscipline /\ UsersFollow /\ [Next]_vars => UsersFollow'
  <1> SUFFICES ASSUME TypeOK /\ LockDiscipline /\ UsersFollow, [Next]_vars PROVE UsersFollow'
    OBVIOUS
  <1> USE DEF vars, session, users, usb, work, outside, critical, TypeOK,
       DataTypes, FlagTypes, UsersFollow, None, Free, Dirs
  <1>1. ASSUME SetInterface PROVE UsersFollow'
    BY <1>1, NegotiatingHolder DEF SetInterface, Goto, SetState, Release
  <1>2. ASSUME GeometryRefused PROVE UsersFollow'
    BY <1>2, NegotiatingHolder DEF GeometryRefused, SetState, Release
  <1>3. ASSUME GeometryKept PROVE UsersFollow'
    BY <1>3, NegotiatingHolder DEF GeometryKept, CountUser, SetState, Release
  <1>4. ASSUME GeometryConfirmed PROVE UsersFollow'
    BY <1>4, NegotiatingHolder DEF GeometryConfirmed, CountUser, SetState,
       Release
  <1>5. ASSUME GeometryChanged PROVE UsersFollow'
    BY <1>5, NegotiatingHolder DEF GeometryChanged
  <1>6. ASSUME Resize PROVE UsersFollow'
    BY <1>6, NegotiatingHolder DEF Resize, CountUser, SetState, Release
  <1>7. ASSUME StartTrigger PROVE UsersFollow'
    BY <1>7 DEF StartTrigger, Goto
  <1>8. ASSUME StartLive PROVE UsersFollow'
    BY <1>8 DEF StartLive, Goto
  <1>9. ASSUME StartSubmit PROVE UsersFollow'
    BY <1>9 DEF StartSubmit, Goto
  <1>10. ASSUME StartArm PROVE UsersFollow'
    BY <1>10, StartingHolder DEF StartArm, Goto, SetState, Release
  <1>11. ASSUME Kill PROVE UsersFollow'
    BY <1>11 DEF Kill, Goto
  <1>12. ASSUME Reap PROVE UsersFollow'
    BY <1>12 DEF Reap, Reaped, Goto, SetState, Release
  <1>13. ASSUME StopPlayback PROVE UsersFollow'
    BY <1>13 DEF StopPlayback, SetState, Stopped, Goto
  <1>14. ASSUME StopCapture PROVE UsersFollow'
    BY <1>14 DEF StopCapture, SetState, Stopped, Goto, Release
  <1>15. ASSUME NEW d \in Dirs, NEW a \in Apps, Open(d, a) PROVE UsersFollow'
    BY <1>15 DEF Open, Calls, SetState
  <1>16. ASSUME NEW d \in Dirs, NEW p \in Params, RefuseParams(d, p) PROVE
           UsersFollow'
    BY <1>16 DEF RefuseParams, SetState, MayNegotiate, Calls
  <1>17. ASSUME NEW d \in Dirs, NEW p \in Params, HwParams(d, p) PROVE
           UsersFollow'
    BY <1>17 DEF HwParams, Acquire, MayNegotiate, Calls
  <1>18. ASSUME NEW d \in Dirs, Flush(d) PROVE UsersFollow'
    BY <1>18 DEF Flush, Calls
  <1>19. ASSUME NEW d \in Dirs, Close(d) PROVE UsersFollow'
    BY <1>19 DEF Close, SetState
  <1>20. ASSUME NEW d \in Dirs, HwFree(d) PROVE UsersFollow'
    BY <1>20 DEF HwFree, Acquire, SetState, MayFree, Calls
  <1>21. ASSUME NEW d \in Dirs, Prepare(d) PROVE UsersFollow'
    BY <1>21 DEF Prepare, SetState, MayPrepare, Calls
  <1>22. ASSUME NEW d \in Dirs, PrepareStarts(d) PROVE UsersFollow'
    BY <1>22 DEF PrepareStarts, Acquire, MayPrepare, Calls
  <1>23. ASSUME NEW d \in Dirs, Start(d) PROVE UsersFollow'
    BY <1>23 DEF Start, Calls, SetState
  <1>24. ASSUME NEW d \in Dirs, StartDone(d) PROVE UsersFollow'
    BY <1>24 DEF StartDone, SetState
  <1>25. ASSUME NEW d \in Dirs, Drop(d) PROVE UsersFollow'
    BY <1>25 DEF Drop, SetState, Calls
  <1>26. ASSUME NEW d \in Dirs, Xrun(d) PROVE UsersFollow'
    BY <1>26 DEF Xrun, SetState
  <1>27. ASSUME UrbsFail PROVE UsersFollow'
    BY <1>27 DEF UrbsFail
  <1>28. ASSUME WorkBegins PROVE UsersFollow'
    BY <1>28 DEF WorkBegins
  <1>29. ASSUME StreamWork PROVE UsersFollow'
    BY <1>29 DEF StreamWork, Acquire
  <1>30. ASSUME Disconnect PROVE UsersFollow'
    BY <1>30 DEF Disconnect
  <1>31. ASSUME DisconnectKills PROVE UsersFollow'
    BY <1>31 DEF DisconnectKills, Acquire
  <1>32. ASSUME DisconnectCancels PROVE UsersFollow'
    BY <1>32 DEF DisconnectCancels
  <1>33. ASSUME NEW d \in Dirs, DisconnectStops(d) PROVE UsersFollow'
    BY <1>33 DEF DisconnectStops, SetState, Stopped
  <1>34. ASSUME CardDisconnects PROVE UsersFollow'
    BY <1>34 DEF CardDisconnects
  <1>35. ASSUME Suspend PROVE UsersFollow'
    BY <1>35 DEF Suspend
  <1>36. ASSUME SuspendKills PROVE UsersFollow'
    BY <1>36 DEF SuspendKills, Acquire
  <1>37. ASSUME SuspendCancels PROVE UsersFollow'
    BY <1>37 DEF SuspendCancels
  <1>38. ASSUME Resume PROVE UsersFollow'
    BY <1>38 DEF Resume
  <1>39. ASSUME Rest PROVE UsersFollow'
    BY <1>39 DEF Rest
  <1>40. ASSUME Gone PROVE UsersFollow'
    BY <1>40 DEF Gone
  <1>41. ASSUME UNCHANGED vars PROVE UsersFollow'
    BY <1>41
  <1> HIDE DEF vars, session, users, usb, work, outside, critical, TypeOK,
       DataTypes, FlagTypes, UsersFollow, None, Free, Dirs
  <1> QED
    BY <1>1, <1>2, <1>3, <1>4, <1>5, <1>6, <1>7, <1>8, <1>9, <1>10, <1>11,
       <1>12, <1>13, <1>14, <1>15, <1>16, <1>17, <1>18, <1>19, <1>20, <1>21,
       <1>22, <1>23, <1>24, <1>25, <1>26, <1>27, <1>28, <1>29, <1>30, <1>31,
       <1>32, <1>33, <1>34, <1>35, <1>36, <1>37, <1>38, <1>39, <1>40, <1>41
       DEF Next, HolderStep, Caller, Worker, Unplug, Power

\* No other application is set up while hw_params retunes the session.
LEMMA ClockIsOursStep ==
    TypeOK /\ LockDiscipline /\ UsersFollow /\ ClockIsOurs /\ [Next]_vars => ClockIsOurs'
  <1> SUFFICES ASSUME TypeOK /\ LockDiscipline /\ UsersFollow /\ ClockIsOurs, [Next]_vars PROVE ClockIsOurs'
    OBVIOUS
  <1> USE DEF vars, session, users, usb, work, outside, critical, TypeOK,
       DataTypes, FlagTypes, ClockIsOurs, OtherHoldsClock, Other, None, Free,
       Dirs
  <1>1. ASSUME SetInterface PROVE ClockIsOurs'
    BY <1>1 DEF SetInterface, Goto, SetState, Release
  <1>2. ASSUME GeometryRefused PROVE ClockIsOurs'
    BY <1>2 DEF GeometryRefused, SetState, Release
  <1>3. ASSUME GeometryKept PROVE ClockIsOurs'
    BY <1>3 DEF GeometryKept, CountUser, SetState, Release
  <1>4. ASSUME GeometryConfirmed PROVE ClockIsOurs'
    BY <1>4 DEF GeometryConfirmed, CountUser, SetState, Release
  <1>5. ASSUME GeometryChanged PROVE ClockIsOurs'
    BY <1>5 DEF GeometryChanged
  <1>6. ASSUME Resize PROVE ClockIsOurs'
    BY <1>6 DEF Resize, CountUser, SetState, Release
  <1>7. ASSUME StartTrigger PROVE ClockIsOurs'
    BY <1>7 DEF StartTrigger, Goto
  <1>8. ASSUME StartLive PROVE ClockIsOurs'
    BY <1>8 DEF StartLive, Goto
  <1>9. ASSUME StartSubmit PROVE ClockIsOurs'
    BY <1>9 DEF StartSubmit, Goto
  <1>10. ASSUME StartArm PROVE ClockIsOurs'
    BY <1>10 DEF StartArm, Goto, SetState, Release
  <1>11. ASSUME Kill PROVE ClockIsOurs'
    BY <1>11 DEF Kill, Goto
  <1>12. ASSUME Reap PROVE ClockIsOurs'
    BY <1>12 DEF Reap, Reaped, Goto, SetState, Release
  <1>13. ASSUME StopPlayback PROVE ClockIsOurs'
    BY <1>13 DEF StopPlayback, SetState, Stopped, Goto
  <1>14. ASSUME StopCapture PROVE ClockIsOurs'
    BY <1>14 DEF StopCapture, SetState, Stopped, Goto, Release
  <1>15. ASSUME NEW d \in Dirs, NEW a \in Apps, Open(d, a) PROVE ClockIsOurs'
    BY <1>15, FreeMutex DEF Open, Calls, SetState
  <1>16. ASSUME NEW d \in Dirs, NEW p \in Params, RefuseParams(d, p) PROVE
           ClockIsOurs'
    BY <1>16 DEF RefuseParams, SetState, MayNegotiate, Calls
  <1>17. ASSUME NEW d \in Dirs, NEW p \in Params, HwParams(d, p) PROVE
           ClockIsOurs'
    BY <1>17 DEF HwParams, Acquire, MayNegotiate, Calls
  <1>18. ASSUME NEW d \in Dirs, Flush(d) PROVE ClockIsOurs'
    BY <1>18 DEF Flush, Calls
  <1>19. ASSUME NEW d \in Dirs, Close(d) PROVE ClockIsOurs'
    BY <1>19, FreeMutex DEF Close, SetState
  <1>20. ASSUME NEW d \in Dirs, HwFree(d) PROVE ClockIsOurs'
    BY <1>20 DEF HwFree, Acquire, SetState, MayFree, Calls
  <1>21. ASSUME NEW d \in Dirs, Prepare(d) PROVE ClockIsOurs'
    BY <1>21 DEF Prepare, SetState, MayPrepare, Calls
  <1>22. ASSUME NEW d \in Dirs, PrepareStarts(d) PROVE ClockIsOurs'
    BY <1>22 DEF PrepareStarts, Acquire, MayPrepare, Calls
  <1>23. ASSUME NEW d \in Dirs, Start(d) PROVE ClockIsOurs'
    BY <1>23 DEF Start, Calls, SetState
  <1>24. ASSUME NEW d \in Dirs, StartDone(d) PROVE ClockIsOurs'
    BY <1>24 DEF StartDone, SetState
  <1>25. ASSUME NEW d \in Dirs, Drop(d) PROVE ClockIsOurs'
    BY <1>25 DEF Drop, SetState, Calls
  <1>26. ASSUME NEW d \in Dirs, Xrun(d) PROVE ClockIsOurs'
    BY <1>26 DEF Xrun, SetState
  <1>27. ASSUME UrbsFail PROVE ClockIsOurs'
    BY <1>27 DEF UrbsFail
  <1>28. ASSUME WorkBegins PROVE ClockIsOurs'
    BY <1>28 DEF WorkBegins
  <1>29. ASSUME StreamWork PROVE ClockIsOurs'
    BY <1>29 DEF StreamWork, Acquire
  <1>30. ASSUME Disconnect PROVE ClockIsOurs'
    BY <1>30 DEF Disconnect
  <1>31. ASSUME DisconnectKills PROVE ClockIsOurs'
    BY <1>31 DEF DisconnectKills, Acquire
  <1>32. ASSUME DisconnectCancels PROVE ClockIsOurs'
    BY <1>32 DEF DisconnectCancels
  <1>33. ASSUME NEW d \in Dirs, DisconnectStops(d) PROVE ClockIsOurs'
    BY <1>33 DEF DisconnectStops, SetState, Stopped
  <1>34. ASSUME CardDisconnects PROVE ClockIsOurs'
    BY <1>34 DEF CardDisconnects
  <1>35. ASSUME Suspend PROVE ClockIsOurs'
    BY <1>35 DEF Suspend
  <1>36. ASSUME SuspendKills PROVE ClockIsOurs'
    BY <1>36 DEF SuspendKills, Acquire
  <1>37. ASSUME SuspendCancels PROVE ClockIsOurs'
    BY <1>37 DEF SuspendCancels
  <1>38. ASSUME Resume PROVE ClockIsOurs'
    BY <1>38 DEF Resume
  <1>39. ASSUME Rest PROVE ClockIsOurs'
    BY <1>39 DEF Rest
  <1>40. ASSUME Gone PROVE ClockIsOurs'
    BY <1>40 DEF Gone
  <1>41. ASSUME UNCHANGED vars PROVE ClockIsOurs'
    BY <1>41
  <1> HIDE DEF vars, session, users, usb, work, outside, critical, TypeOK,
       DataTypes, FlagTypes, ClockIsOurs, OtherHoldsClock, Other, None, Free,
       Dirs
  <1> QED
    BY <1>1, <1>2, <1>3, <1>4, <1>5, <1>6, <1>7, <1>8, <1>9, <1>10, <1>11,
       <1>12, <1>13, <1>14, <1>15, <1>16, <1>17, <1>18, <1>19, <1>20, <1>21,
       <1>22, <1>23, <1>24, <1>25, <1>26, <1>27, <1>28, <1>29, <1>30, <1>31,
       <1>32, <1>33, <1>34, <1>35, <1>36, <1>37, <1>38, <1>39, <1>40, <1>41
       DEF Next, HolderStep, Caller, Worker, Unplug, Power

\* Unplug and suspend.
LEMMA OutsideFollowsStep ==
    TypeOK /\ LockDiscipline /\ UsersFollow /\ OutsideFollows /\ [Next]_vars => OutsideFollows'
  <1> SUFFICES ASSUME TypeOK /\ LockDiscipline /\ UsersFollow /\ OutsideFollows, [Next]_vars PROVE OutsideFollows'
    OBVIOUS
  <1> USE DEF vars, session, users, usb, work, outside, critical, TypeOK,
       DataTypes, FlagTypes, OutsideFollows, UsersFollow, None, Free, Dirs
  <1>1. ASSUME SetInterface PROVE OutsideFollows'
    BY <1>1, NegotiatingHolder DEF SetInterface, Goto, SetState, Release
  <1>2. ASSUME GeometryRefused PROVE OutsideFollows'
    BY <1>2, NegotiatingHolder DEF GeometryRefused, SetState, Release
  <1>3. ASSUME GeometryKept PROVE OutsideFollows'
    BY <1>3, NegotiatingHolder DEF GeometryKept, CountUser, SetState, Release
  <1>4. ASSUME GeometryConfirmed PROVE OutsideFollows'
    BY <1>4, NegotiatingHolder DEF GeometryConfirmed, CountUser, SetState,
       Release
  <1>5. ASSUME GeometryChanged PROVE OutsideFollows'
    BY <1>5 DEF GeometryChanged
  <1>6. ASSUME Resize PROVE OutsideFollows'
    BY <1>6, NegotiatingHolder DEF Resize, CountUser, SetState, Release
  <1>7. ASSUME StartTrigger PROVE OutsideFollows'
    BY <1>7 DEF StartTrigger, Goto
  <1>8. ASSUME StartLive PROVE OutsideFollows'
    BY <1>8 DEF StartLive, Goto
  <1>9. ASSUME StartSubmit PROVE OutsideFollows'
    BY <1>9 DEF StartSubmit, Goto
  <1>10. ASSUME StartArm PROVE OutsideFollows'
    BY <1>10, StartingHolder DEF StartArm, Goto, SetState, Release
  <1>11. ASSUME Kill PROVE OutsideFollows'
    BY <1>11 DEF Kill, Goto
  <1>12. ASSUME Reap PROVE OutsideFollows'
    BY <1>12, KillingJobs DEF Reap, Reaped, Goto, SetState, Release
  <1>13. ASSUME StopPlayback PROVE OutsideFollows'
    BY <1>13 DEF StopPlayback, SetState, Stopped, Goto
  <1>14. ASSUME StopCapture PROVE OutsideFollows'
    BY <1>14 DEF StopCapture, SetState, Stopped, Goto, Release
  <1>15. ASSUME NEW d \in Dirs, NEW a \in Apps, Open(d, a) PROVE
           OutsideFollows'
    BY <1>15 DEF Open, Calls, SetState
  <1>16. ASSUME NEW d \in Dirs, NEW p \in Params, RefuseParams(d, p) PROVE
           OutsideFollows'
    BY <1>16 DEF RefuseParams, SetState, MayNegotiate, Calls
  <1>17. ASSUME NEW d \in Dirs, NEW p \in Params, HwParams(d, p) PROVE
           OutsideFollows'
    BY <1>17 DEF HwParams, Acquire, MayNegotiate, Calls
  <1>18. ASSUME NEW d \in Dirs, Flush(d) PROVE OutsideFollows'
    BY <1>18 DEF Flush, Calls
  <1>19. ASSUME NEW d \in Dirs, Close(d) PROVE OutsideFollows'
    BY <1>19 DEF Close, SetState
  <1>20. ASSUME NEW d \in Dirs, HwFree(d) PROVE OutsideFollows'
    BY <1>20 DEF HwFree, Acquire, SetState, MayFree, Calls
  <1>21. ASSUME NEW d \in Dirs, Prepare(d) PROVE OutsideFollows'
    BY <1>21 DEF Prepare, SetState, MayPrepare, Calls
  <1>22. ASSUME NEW d \in Dirs, PrepareStarts(d) PROVE OutsideFollows'
    BY <1>22 DEF PrepareStarts, Acquire, MayPrepare, Calls
  <1>23. ASSUME NEW d \in Dirs, Start(d) PROVE OutsideFollows'
    BY <1>23 DEF Start, Calls, SetState
  <1>24. ASSUME NEW d \in Dirs, StartDone(d) PROVE OutsideFollows'
    BY <1>24 DEF StartDone, SetState
  <1>25. ASSUME NEW d \in Dirs, Drop(d) PROVE OutsideFollows'
    BY <1>25 DEF Drop, SetState, Calls
  <1>26. ASSUME NEW d \in Dirs, Xrun(d) PROVE OutsideFollows'
    BY <1>26 DEF Xrun, SetState
  <1>27. ASSUME UrbsFail PROVE OutsideFollows'
    BY <1>27 DEF UrbsFail
  <1>28. ASSUME WorkBegins PROVE OutsideFollows'
    BY <1>28 DEF WorkBegins
  <1>29. ASSUME StreamWork PROVE OutsideFollows'
    BY <1>29 DEF StreamWork, Acquire
  <1>30. ASSUME Disconnect PROVE OutsideFollows'
    BY <1>30 DEF Disconnect
  <1>31. ASSUME DisconnectKills PROVE OutsideFollows'
    BY <1>31 DEF DisconnectKills, Acquire
  <1>32. ASSUME DisconnectCancels PROVE OutsideFollows'
    BY <1>32 DEF DisconnectCancels
  <1>33. ASSUME NEW d \in Dirs, DisconnectStops(d) PROVE OutsideFollows'
    BY <1>33 DEF DisconnectStops, SetState, Stopped
  <1>34. ASSUME CardDisconnects PROVE OutsideFollows'
    BY <1>34 DEF CardDisconnects
  <1>35. ASSUME Suspend PROVE OutsideFollows'
    BY <1>35 DEF Suspend
  <1>36. ASSUME SuspendKills PROVE OutsideFollows'
    BY <1>36 DEF SuspendKills, Acquire
  <1>37. ASSUME SuspendCancels PROVE OutsideFollows'
    BY <1>37 DEF SuspendCancels
  <1>38. ASSUME Resume PROVE OutsideFollows'
    BY <1>38 DEF Resume
  <1>39. ASSUME Rest PROVE OutsideFollows'
    BY <1>39 DEF Rest
  <1>40. ASSUME Gone PROVE OutsideFollows'
    BY <1>40 DEF Gone
  <1>41. ASSUME UNCHANGED vars PROVE OutsideFollows'
    BY <1>41
  <1> HIDE DEF vars, session, users, usb, work, outside, critical, TypeOK,
       DataTypes, FlagTypes, OutsideFollows, UsersFollow, None, Free, Dirs
  <1> QED
    BY <1>1, <1>2, <1>3, <1>4, <1>5, <1>6, <1>7, <1>8, <1>9, <1>10, <1>11,
       <1>12, <1>13, <1>14, <1>15, <1>16, <1>17, <1>18, <1>19, <1>20, <1>21,
       <1>22, <1>23, <1>24, <1>25, <1>26, <1>27, <1>28, <1>29, <1>30, <1>31,
       <1>32, <1>33, <1>34, <1>35, <1>36, <1>37, <1>38, <1>39, <1>40, <1>41
       DEF Next, HolderStep, Caller, Worker, Unplug, Power

\* The initial state.
LEMMA InitInv == Init => TypeOK /\ SessionInv
  <1> SUFFICES ASSUME Init PROVE TypeOK /\ SessionInv
    OBVIOUS
  <1> USE DEF Init, Free, None
  <1>1. FlagTypes
    <2>1. stream_setup \in [Dirs -> BOOLEAN]
      OBVIOUS
    <2>2. /\ streaming = FALSE /\ urbs = FALSE /\ rested = TRUE
          /\ fatal = FALSE /\ pending = FALSE /\ shutdown = FALSE
      OBVIOUS
    <2> HIDE DEF Init
    <2> QED  BY <2>1, <2>2 DEF FlagTypes
  <1>2. DataTypes
    <2>1. pcm \in [Dirs -> PcmStates]
      BY DEF PcmStates
    <2>2. /\ rt \in [Dirs -> Params \cup {NoParams}]
          /\ owner \in [Dirs -> Apps \cup {NoApp}]
          /\ session_dir \in Dirs /\ req \in Params \cup {NoParams}
      BY DEF Dirs
    <2>3. urb_frames \in Nat /\ urbs_active \in Nat
      BY GeometryAssumption
    <2>4. rate \in Rates \cup {48000}
      OBVIOUS
    <2> QED  BY <2>1, <2>2, <2>3, <2>4 DEF DataTypes, Holders, Jobs, Steps
  <1>3. LockDiscipline /\ FlagFollows /\ ClockIsOurs
    BY DEF LockDiscipline, FlagFollows, ClockIsOurs
  <1>4. UsersFollow
    BY DEF UsersFollow, Dirs
  <1>5. OutsideFollows
    BY DEF OutsideFollows
  <1> QED  BY <1>1, <1>2, <1>3, <1>4, <1>5 DEF TypeOK, SessionInv

\* The types, and who holds what for which call, in every reachable state,
\* whatever fails and whoever interleaves: the ground the other theorems stand
\* on.
THEOREM SessionInvariant == Spec => [](TypeOK /\ SessionInv)
  <1>1. (FlagTypes /\ UsersFollow)' => (stream_users \in 0..2)'
    BY DEF FlagTypes, UsersFollow, Dirs
  <1>2. TypeOK /\ SessionInv /\ [Next]_vars =>
          (FlagTypes /\ DataTypes /\ SessionInv)'
    BY FlagTypesStep, DataTypesStep, LockDisciplineStep, FlagFollowsStep,
       UsersFollowStep, ClockIsOursStep, OutsideFollowsStep DEF TypeOK, SessionInv
  <1>3. TypeOK /\ SessionInv /\ [Next]_vars => (TypeOK /\ SessionInv)'
    BY <1>1, <1>2 DEF TypeOK, SessionInv
  <1> QED  BY InitInv, <1>3, PTL DEF Spec

\* Every variable keeps its type.
THEOREM TypeCorrect == Spec => []TypeOK
  BY SessionInvariant, PTL

----------------------------------------------------------------------------
\* Only SetInterface changes the rate.
LEMMA RateChanges == [Next]_vars /\ rate' # rate => SetInterface
  BY DEF Next, HolderStep, Caller, Worker, Unplug, Power, GeometryRefused,
     GeometryKept, GeometryConfirmed, GeometryChanged, Resize, StartTrigger,
     StartLive, StartSubmit, StartArm, Kill, Reap, StopPlayback, StopCapture,
     Open, RefuseParams, HwParams, Flush, Close, HwFree, Prepare,
     PrepareStarts, Start, StartDone, Drop, Xrun, UrbsFail, WorkBegins,
     StreamWork, Disconnect, DisconnectKills, DisconnectCancels,
     DisconnectStops, CardDisconnects, Suspend, SuspendKills, SuspendCancels,
     Resume, Rest, Gone, vars, session

\* The rate never changes under another application that is set up: RateHeld,
\* for every number of applications and whatever fails.  The check that
\* hw_params made under the mutex still holds when SET_INTERFACE is through.
THEOREM RateStaysHeld == Spec => RateHeld
  <1>1. TypeOK /\ SessionInv /\ [Next]_vars =>
          [rate' # rate => \A d \in Dirs : stream_setup[d] => owner[d] = owner[holder]]_vars
    <2> SUFFICES ASSUME SessionInv, SetInterface, NEW d \in Dirs, stream_setup[d]
                 PROVE  owner[d] = owner[holder]
      BY RateChanges
    <2>1. holder \in Dirs /\ job \in {"retune", "resize"} /\ at = "set_interface"
      BY NegotiatingHolder DEF SessionInv, SetInterface
    <2>2. ~OtherHoldsClock(holder)
      BY <2>1 DEF SessionInv, ClockIsOurs
    <2> QED  BY <2>1, <2>2 DEF OtherHoldsClock, Other, Dirs
  <1> QED  BY SessionInvariant, <1>1, PTL DEF Spec, RateHeld

\* A running substream is stopped with an XRUN by its own lateness or by
\* pcm_stop_both(), nothing else.
LEMMA XrunSteps ==
    ASSUME pcm \in [Dirs -> PcmStates], [Next]_vars, NEW d \in Dirs,
           pcm[d] = "RUNNING", pcm'[d] = "XRUN"
    PROVE  Xrun(d) \/ StopPlayback \/ StopCapture
  <1>1. ASSUME NEW e \in Dirs, Xrun(e) PROVE Xrun(d)
    BY <1>1 DEF Xrun, SetState
  <1> QED  BY <1>1 DEF Next, HolderStep, Caller, Worker, Unplug, Power,
     SetInterface, GeometryRefused, GeometryKept, GeometryConfirmed,
     GeometryChanged, Resize, CountUser, StartTrigger, StartLive, StartSubmit,
     StartArm, Kill, Reap, Reaped, Open, RefuseParams, HwParams, Flush, Close,
     HwFree, Prepare, PrepareStarts, Start, StartDone, Drop, UrbsFail,
     WorkBegins, StreamWork, Disconnect, DisconnectKills, DisconnectCancels,
     DisconnectStops, CardDisconnects, Suspend, SuspendKills, SuspendCancels,
     Resume, Rest, Gone, SetState, Stopped, vars

\* No hw_params stops another application's stream: NoForeignStop, for every
\* number of applications and whatever fails.
THEOREM NoForeignStops == Spec => NoForeignStop
  <1>1. TypeOK /\ SessionInv /\ [Next]_vars =>
          [\A d \in Dirs : (/\ pcm[d] = "RUNNING" /\ pcm'[d] = "XRUN"
                            /\ holder \in Dirs)
              => owner[d] = owner[holder] \/ Xrun(d)]_vars
    <2> SUFFICES ASSUME TypeOK, SessionInv, [Next]_vars, NEW d \in Dirs,
                        pcm[d] = "RUNNING", pcm'[d] = "XRUN", holder \in Dirs,
                        StopPlayback \/ StopCapture
                 PROVE  owner[d] = owner[holder]
      BY XrunSteps DEF TypeOK, DataTypes
    <2>1. at \in {"stop_playback", "stop_capture"}
      BY DEF StopPlayback, StopCapture
    <2>2. job \in {"retune", "resize"}
      BY <2>1 DEF SessionInv, LockDiscipline, None, Dirs
    <2>3. ~OtherHoldsClock(holder)
      BY <2>1, <2>2 DEF SessionInv, ClockIsOurs
    <2>4. d = Other(holder) /\ stream_setup[d]
      BY <2>2 DEF SessionInv, UsersFollow, Other, Dirs
    <2> QED  BY <2>3, <2>4 DEF OtherHoldsClock
  <1> QED  BY SessionInvariant, <1>1, PTL DEF Spec, NoForeignStop

----------------------------------------------------------------------------
\* Where no session runs, no substream does: the step that a start failing
\* with the session live would break.
LEMMA IdleIsQuietStep ==
    TypeOK /\ SessionInv /\ NoLateFailure /\ IdleIsQuiet /\ [Next]_vars => IdleIsQuiet'
  <1> SUFFICES ASSUME TypeOK /\ SessionInv /\ NoLateFailure /\ IdleIsQuiet, [Next]_vars PROVE IdleIsQuiet'
    OBVIOUS
  <1> USE DEF vars, session, users, usb, work, outside, critical, TypeOK,
       DataTypes, FlagTypes, SessionInv, FlagFollows, UsersFollow,
       OutsideFollows, IdleIsQuiet, Active, NoLateFailure, None, Free, Dirs
  <1>1. ASSUME SetInterface PROVE IdleIsQuiet'
    BY <1>1, NegotiatingHolder DEF SetInterface, Goto, SetState, Release
  <1>2. ASSUME GeometryRefused PROVE IdleIsQuiet'
    BY <1>2, NegotiatingHolder DEF GeometryRefused, SetState, Release
  <1>3. ASSUME GeometryKept PROVE IdleIsQuiet'
    BY <1>3, NegotiatingHolder DEF GeometryKept, CountUser, SetState, Release
  <1>4. ASSUME GeometryConfirmed PROVE IdleIsQuiet'
    BY <1>4, NegotiatingHolder DEF GeometryConfirmed, CountUser, SetState,
       Release
  <1>5. ASSUME GeometryChanged PROVE IdleIsQuiet'
    BY <1>5 DEF GeometryChanged
  <1>6. ASSUME Resize PROVE IdleIsQuiet'
    BY <1>6, NegotiatingHolder DEF Resize, CountUser, SetState, Release
  <1>7. ASSUME StartTrigger PROVE IdleIsQuiet'
    BY <1>7 DEF StartTrigger, Goto
  <1>8. ASSUME StartLive PROVE IdleIsQuiet'
    BY <1>8 DEF StartLive, Goto
  <1>9. ASSUME StartSubmit PROVE IdleIsQuiet'
    BY <1>9 DEF StartSubmit, Goto
  <1>10. ASSUME StartArm PROVE IdleIsQuiet'
    BY <1>10, StartingHolder DEF StartArm, Goto, SetState, Release
  <1>11. ASSUME Kill PROVE IdleIsQuiet'
    BY <1>11, FreeMutex DEF Kill, Goto
  <1>12. ASSUME Reap PROVE IdleIsQuiet'
    BY <1>12, KillingJobs DEF Reap, Reaped, Goto, SetState, Release
  <1>13. ASSUME StopPlayback PROVE IdleIsQuiet'
    BY <1>13 DEF StopPlayback, SetState, Stopped, Goto
  <1>14. ASSUME StopCapture PROVE IdleIsQuiet'
    BY <1>14 DEF StopCapture, SetState, Stopped, Goto, Release
  <1>15. ASSUME NEW d \in Dirs, NEW a \in Apps, Open(d, a) PROVE IdleIsQuiet'
    BY <1>15 DEF Open, Calls, SetState
  <1>16. ASSUME NEW d \in Dirs, NEW p \in Params, RefuseParams(d, p) PROVE
           IdleIsQuiet'
    BY <1>16 DEF RefuseParams, SetState, MayNegotiate, Calls
  <1>17. ASSUME NEW d \in Dirs, NEW p \in Params, HwParams(d, p) PROVE
           IdleIsQuiet'
    BY <1>17 DEF HwParams, Acquire, MayNegotiate, Calls
  <1>18. ASSUME NEW d \in Dirs, Flush(d) PROVE IdleIsQuiet'
    BY <1>18 DEF Flush, Calls
  <1>19. ASSUME NEW d \in Dirs, Close(d) PROVE IdleIsQuiet'
    BY <1>19 DEF Close, SetState
  <1>20. ASSUME NEW d \in Dirs, HwFree(d) PROVE IdleIsQuiet'
    BY <1>20 DEF HwFree, Acquire, SetState, MayFree, Calls
  <1>21. ASSUME NEW d \in Dirs, Prepare(d) PROVE IdleIsQuiet'
    BY <1>21 DEF Prepare, SetState, MayPrepare, Calls
  <1>22. ASSUME NEW d \in Dirs, PrepareStarts(d) PROVE IdleIsQuiet'
    BY <1>22 DEF PrepareStarts, Acquire, MayPrepare, Calls
  <1>23. ASSUME NEW d \in Dirs, Start(d) PROVE IdleIsQuiet'
    BY <1>23 DEF Start, Calls, SetState
  <1>24. ASSUME NEW d \in Dirs, StartDone(d) PROVE IdleIsQuiet'
    BY <1>24 DEF StartDone, SetState
  <1>25. ASSUME NEW d \in Dirs, Drop(d) PROVE IdleIsQuiet'
    BY <1>25 DEF Drop, SetState, Calls
  <1>26. ASSUME NEW d \in Dirs, Xrun(d) PROVE IdleIsQuiet'
    BY <1>26 DEF Xrun, SetState
  <1>27. ASSUME UrbsFail PROVE IdleIsQuiet'
    BY <1>27 DEF UrbsFail
  <1>28. ASSUME WorkBegins PROVE IdleIsQuiet'
    BY <1>28 DEF WorkBegins
  <1>29. ASSUME StreamWork PROVE IdleIsQuiet'
    BY <1>29 DEF StreamWork, Acquire
  <1>30. ASSUME Disconnect PROVE IdleIsQuiet'
    BY <1>30 DEF Disconnect
  <1>31. ASSUME DisconnectKills PROVE IdleIsQuiet'
    BY <1>31 DEF DisconnectKills, Acquire
  <1>32. ASSUME DisconnectCancels PROVE IdleIsQuiet'
    BY <1>32 DEF DisconnectCancels
  <1>33. ASSUME NEW d \in Dirs, DisconnectStops(d) PROVE IdleIsQuiet'
    BY <1>33 DEF DisconnectStops, SetState, Stopped
  <1>34. ASSUME CardDisconnects PROVE IdleIsQuiet'
    BY <1>34 DEF CardDisconnects
  <1>35. ASSUME Suspend PROVE IdleIsQuiet'
    BY <1>35 DEF Suspend
  <1>36. ASSUME SuspendKills PROVE IdleIsQuiet'
    BY <1>36 DEF SuspendKills, Acquire
  <1>37. ASSUME SuspendCancels PROVE IdleIsQuiet'
    BY <1>37 DEF SuspendCancels
  <1>38. ASSUME Resume PROVE IdleIsQuiet'
    BY <1>38 DEF Resume
  <1>39. ASSUME Rest PROVE IdleIsQuiet'
    BY <1>39 DEF Rest
  <1>40. ASSUME Gone PROVE IdleIsQuiet'
    BY <1>40 DEF Gone
  <1>41. ASSUME UNCHANGED vars PROVE IdleIsQuiet'
    BY <1>41
  <1> HIDE DEF vars, session, users, usb, work, outside, critical, TypeOK,
       DataTypes, FlagTypes, SessionInv, FlagFollows, UsersFollow,
       OutsideFollows, IdleIsQuiet, Active, NoLateFailure, None, Free, Dirs
  <1> QED
    BY <1>1, <1>2, <1>3, <1>4, <1>5, <1>6, <1>7, <1>8, <1>9, <1>10, <1>11,
       <1>12, <1>13, <1>14, <1>15, <1>16, <1>17, <1>18, <1>19, <1>20, <1>21,
       <1>22, <1>23, <1>24, <1>25, <1>26, <1>27, <1>28, <1>29, <1>30, <1>31,
       <1>32, <1>33, <1>34, <1>35, <1>36, <1>37, <1>38, <1>39, <1>40, <1>41
       DEF Next, HolderStep, Caller, Worker, Unplug, Power

\* What is asked of the session by a substream is in its own parameters and
\* the session's: nothing else moves Fits.
LEMMA FitsKept ==
    ASSUME NEW d \in Dirs, UNCHANGED <<rate, urb_frames, urbs_active>>,
           rt'[d] = rt[d], Fits(rt[d])
    PROVE  Fits(rt[d])'
  BY DEF Fits, SessionPeriod

\* A step that leaves the geometry alone and lets no substream begin to run,
\* but by START's own check, keeps RunningFits.
LEMMA RunningFitsKept ==
    ASSUME RunningFits, UNCHANGED <<rate, urb_frames, urbs_active>>,
           \A d \in Dirs : pcm'[d] = "RUNNING" =>
                rt'[d] = rt[d] /\ (pcm[d] = "RUNNING" \/ Fits(rt[d]))
    PROVE  RunningFits'
  BY FitsKept DEF RunningFits

\* A running substream keeps its fit.
LEMMA RunningFitsStep ==
    TypeOK /\ SessionInv /\ IdleIsQuiet /\ RunningFits /\ [Next]_vars => RunningFits'
  <1> SUFFICES ASSUME TypeOK /\ SessionInv /\ IdleIsQuiet /\ RunningFits, [Next]_vars PROVE RunningFits'
    OBVIOUS
  <1> USE DEF vars, session, users, usb, work, outside, critical, TypeOK,
       DataTypes, FlagTypes, SessionInv, FlagFollows, UsersFollow,
       OutsideFollows, Free, None, Dirs, IdleIsQuiet, Active
  <1>1. ASSUME SetInterface PROVE RunningFits'
    <2>1. \A d \in Dirs : pcm'[d] # "RUNNING"
      BY <1>1, NegotiatingHolder DEF SetInterface, SetState, Goto, Release
    <2> QED  BY <2>1 DEF RunningFits
  <1>2. ASSUME GeometryRefused PROVE RunningFits'
    BY <1>2, RunningFitsKept, NegotiatingHolder DEF GeometryRefused, SetState,
       Release
  <1>3. ASSUME GeometryKept PROVE RunningFits'
    BY <1>3, RunningFitsKept, NegotiatingHolder DEF GeometryKept, CountUser,
       SetState, Release
  <1>4. ASSUME GeometryConfirmed PROVE RunningFits'
    BY <1>4, RunningFitsKept, NegotiatingHolder DEF GeometryConfirmed,
       CountUser, SetState, Release
  <1>5. ASSUME GeometryChanged PROVE RunningFits'
    BY <1>5, RunningFitsKept DEF GeometryChanged
  <1>6. ASSUME Resize PROVE RunningFits'
    <2>1. \A d \in Dirs : pcm'[d] # "RUNNING"
      BY <1>6, NegotiatingHolder DEF Resize, CountUser, SetState, Goto, Release
    <2> QED  BY <2>1 DEF RunningFits
  <1>7. ASSUME StartTrigger PROVE RunningFits'
    BY <1>7, RunningFitsKept DEF StartTrigger, Goto
  <1>8. ASSUME StartLive PROVE RunningFits'
    BY <1>8, RunningFitsKept DEF StartLive, Goto
  <1>9. ASSUME StartSubmit PROVE RunningFits'
    BY <1>9, RunningFitsKept DEF StartSubmit, Goto
  <1>10. ASSUME StartArm PROVE RunningFits'
    BY <1>10, RunningFitsKept, StartingHolder DEF StartArm, Goto, SetState,
       Release
  <1>11. ASSUME Kill PROVE RunningFits'
    BY <1>11, RunningFitsKept DEF Kill, Goto
  <1>12. ASSUME Reap PROVE RunningFits'
    BY <1>12, RunningFitsKept DEF Reap, Reaped, Goto, SetState, Release
  <1>13. ASSUME StopPlayback PROVE RunningFits'
    BY <1>13, RunningFitsKept DEF StopPlayback, SetState, Stopped, Goto
  <1>14. ASSUME StopCapture PROVE RunningFits'
    BY <1>14, RunningFitsKept DEF StopCapture, SetState, Stopped, Goto,
       Release
  <1>15. ASSUME NEW d \in Dirs, NEW a \in Apps, Open(d, a) PROVE RunningFits'
    BY <1>15, RunningFitsKept DEF Open, Calls, SetState
  <1>16. ASSUME NEW d \in Dirs, NEW p \in Params, RefuseParams(d, p) PROVE
           RunningFits'
    BY <1>16, RunningFitsKept DEF RefuseParams, SetState, MayNegotiate, Calls
  <1>17. ASSUME NEW d \in Dirs, NEW p \in Params, HwParams(d, p) PROVE
           RunningFits'
    BY <1>17, RunningFitsKept DEF HwParams, Acquire, MayNegotiate, Calls
  <1>18. ASSUME NEW d \in Dirs, Flush(d) PROVE RunningFits'
    BY <1>18, RunningFitsKept DEF Flush, Calls
  <1>19. ASSUME NEW d \in Dirs, Close(d) PROVE RunningFits'
    BY <1>19, RunningFitsKept DEF Close, SetState
  <1>20. ASSUME NEW d \in Dirs, HwFree(d) PROVE RunningFits'
    BY <1>20, RunningFitsKept DEF HwFree, Acquire, SetState, MayFree, Calls
  <1>21. ASSUME NEW d \in Dirs, Prepare(d) PROVE RunningFits'
    BY <1>21, RunningFitsKept DEF Prepare, SetState, MayPrepare, Calls
  <1>22. ASSUME NEW d \in Dirs, PrepareStarts(d) PROVE RunningFits'
    BY <1>22, RunningFitsKept DEF PrepareStarts, Acquire, MayPrepare, Calls
  <1>23. ASSUME NEW d \in Dirs, Start(d) PROVE RunningFits'
    BY <1>23, RunningFitsKept DEF Start, Calls, SetState
  <1>24. ASSUME NEW d \in Dirs, StartDone(d) PROVE RunningFits'
    BY <1>24, RunningFitsKept DEF StartDone, SetState
  <1>25. ASSUME NEW d \in Dirs, Drop(d) PROVE RunningFits'
    BY <1>25, RunningFitsKept DEF Drop, SetState, Calls
  <1>26. ASSUME NEW d \in Dirs, Xrun(d) PROVE RunningFits'
    BY <1>26, RunningFitsKept DEF Xrun, SetState
  <1>27. ASSUME UrbsFail PROVE RunningFits'
    BY <1>27, RunningFitsKept DEF UrbsFail
  <1>28. ASSUME WorkBegins PROVE RunningFits'
    BY <1>28, RunningFitsKept DEF WorkBegins
  <1>29. ASSUME StreamWork PROVE RunningFits'
    BY <1>29, RunningFitsKept DEF StreamWork, Acquire
  <1>30. ASSUME Disconnect PROVE RunningFits'
    BY <1>30, RunningFitsKept DEF Disconnect
  <1>31. ASSUME DisconnectKills PROVE RunningFits'
    BY <1>31, RunningFitsKept DEF DisconnectKills, Acquire
  <1>32. ASSUME DisconnectCancels PROVE RunningFits'
    BY <1>32, RunningFitsKept DEF DisconnectCancels
  <1>33. ASSUME NEW d \in Dirs, DisconnectStops(d) PROVE RunningFits'
    BY <1>33, RunningFitsKept DEF DisconnectStops, SetState, Stopped
  <1>34. ASSUME CardDisconnects PROVE RunningFits'
    BY <1>34, RunningFitsKept DEF CardDisconnects
  <1>35. ASSUME Suspend PROVE RunningFits'
    BY <1>35, RunningFitsKept DEF Suspend
  <1>36. ASSUME SuspendKills PROVE RunningFits'
    BY <1>36, RunningFitsKept DEF SuspendKills, Acquire
  <1>37. ASSUME SuspendCancels PROVE RunningFits'
    BY <1>37, RunningFitsKept DEF SuspendCancels
  <1>38. ASSUME Resume PROVE RunningFits'
    BY <1>38, RunningFitsKept DEF Resume
  <1>39. ASSUME Rest PROVE RunningFits'
    BY <1>39, RunningFitsKept DEF Rest
  <1>40. ASSUME Gone PROVE RunningFits'
    BY <1>40, RunningFitsKept DEF Gone
  <1>41. ASSUME UNCHANGED vars PROVE RunningFits'
    BY <1>41, RunningFitsKept
  <1> HIDE DEF vars, session, users, usb, work, outside, critical, TypeOK,
       DataTypes, FlagTypes, SessionInv, FlagFollows, UsersFollow,
       OutsideFollows, Free, None, Dirs, IdleIsQuiet, Active
  <1> QED
    BY <1>1, <1>2, <1>3, <1>4, <1>5, <1>6, <1>7, <1>8, <1>9, <1>10, <1>11,
       <1>12, <1>13, <1>14, <1>15, <1>16, <1>17, <1>18, <1>19, <1>20, <1>21,
       <1>22, <1>23, <1>24, <1>25, <1>26, <1>27, <1>28, <1>29, <1>30, <1>31,
       <1>32, <1>33, <1>34, <1>35, <1>36, <1>37, <1>38, <1>39, <1>40, <1>41
       DEF Next, HolderStep, Caller, Worker, Unplug, Power

LEMMA InitQuiet == Init => QuietInv
  BY DEF Init, QuietInv, IdleIsQuiet, RunningFits, Active, None

\* If no start fails once the session is live: without a session nothing runs,
\* and what runs fits the session.
THEOREM QuietInvariant ==
    ASSUME NoLateFailure
    PROVE  Spec => []QuietInv
  <1>1. TypeOK /\ SessionInv /\ QuietInv /\ [Next]_vars => QuietInv'
    BY NoLateFailure, IdleIsQuietStep, RunningFitsStep DEF QuietInv
  <1> QED  BY InitQuiet, SessionInvariant, <1>1, PTL DEF Spec

\* A substream whose audio the URB handlers move has the device's rate and a
\* period that spans the session's.
THEOREM RunningFitsSession ==
    ASSUME NoLateFailure
    PROVE  Spec => []RunningFits
  <1>1. QuietInv => RunningFits
    BY DEF QuietInv
  <1> QED  BY QuietInvariant, <1>1, PTL

\* No application is left running on a session that is gone.  The run
\* SessionFailedStart shows that the assumption is needed.
THEOREM RunningSessions ==
    ASSUME NoLateFailure
    PROVE  Spec => []RunningHasSession
  <1>1. SessionInv /\ QuietInv => RunningHasSession
    BY DEF SessionInv, QuietInv, IdleIsQuiet, OutsideFollows, RunningHasSession, Active
  <1> QED  BY SessionInvariant, QuietInvariant, <1>1, PTL

----------------------------------------------------------------------------
(***************************************************************************)
(* What a stop of the session leaves behind, and what a start relies on,   *)
(* whatever fails: StopsFollow and GeometryFollows are inductive on top of *)
(* the invariant above.  From all of them, and from what ContractFollows   *)
(* adds, the driver implements SessionContract.                            *)
(***************************************************************************)

\* What the steps of a start and of a double stop know of their job.
LEMMA StartingSteps ==
    LockDiscipline /\ at \in {"gap", "live", "submit", "arm"}
        => holder \in Dirs /\ job = "start"
  BY DEF LockDiscipline, None

LEMMA StoppingJobs ==
    LockDiscipline /\ at \in {"stop_playback", "stop_capture"}
        => /\ job \in {"retune", "resize", "work"}
           /\ job \in {"retune", "resize"} <=> holder \in Dirs
  BY DEF LockDiscipline, None, Dirs

LEMMA NegotiatingJob ==
    LockDiscipline => /\ at \in {"set_interface", "geometry", "geometry_new_rate"}
                             => holder \in Dirs /\ job = "retune" /\ Negotiates
                      /\ at = "resize"
                             => holder \in Dirs /\ job = "resize" /\ Negotiates
  BY DEF LockDiscipline, None

\* Who is at work on a stop while the system sleeps.
LEMMA WorkHolder ==
    LockDiscipline /\ at = "reap"
        => \/ holder \in Dirs
           \/ holder = "work" /\ worker = "running"
           \/ holder = "disc" /\ disc = "flagged"
           \/ holder = "pm" /\ pm = "frozen"
  BY DEF LockDiscipline, None

\* Stops and starts: each step leaves behind what StopsFollow says.
LEMMA StopsFollowStep ==
    TypeOK /\ SessionInv /\ StopsFollow /\ [Next]_vars => StopsFollow'
  <1> SUFFICES ASSUME TypeOK /\ SessionInv /\ StopsFollow, [Next]_vars
               PROVE  StopsFollow'
    OBVIOUS
  <1> USE DEF vars, session, users, usb, work, outside, critical, TypeOK,
     FlagTypes, DataTypes, SessionInv, FlagFollows, UsersFollow,
     OutsideFollows, StopsFollow, NoStrayUrbs, None, Free, Dirs
  <1>1. ASSUME SetInterface PROVE StopsFollow'
    BY <1>1, NegotiatingJob DEF SetInterface, Goto, SetState, Release
  <1>2. ASSUME GeometryRefused PROVE StopsFollow'
    BY <1>2, NegotiatingJob DEF GeometryRefused, SetState, Release
  <1>3. ASSUME GeometryKept PROVE StopsFollow'
    BY <1>3, NegotiatingJob DEF GeometryKept, CountUser, Release
  <1>4. ASSUME GeometryConfirmed PROVE StopsFollow'
    BY <1>4, NegotiatingJob DEF GeometryConfirmed, CountUser, SetState, Release
  <1>5. ASSUME GeometryChanged PROVE StopsFollow'
    BY <1>5, NegotiatingJob DEF GeometryChanged
  <1>6. ASSUME Resize PROVE StopsFollow'
    BY <1>6, NegotiatingJob DEF Resize, CountUser, SetState, Release
  <1>7. ASSUME StartTrigger PROVE StopsFollow'
    BY <1>7, StartingSteps DEF StartTrigger, Goto
  <1>8. ASSUME StartLive PROVE StopsFollow'
    BY <1>8, StartingSteps DEF StartLive, Goto
  <1>9. ASSUME StartSubmit PROVE StopsFollow'
    BY <1>9, StartingSteps DEF StartSubmit, Goto
  <1>10. ASSUME StartArm PROVE StopsFollow'
    BY <1>10, StartingHolder DEF StartArm, Goto, SetState, Release
  <1>11. ASSUME Kill PROVE StopsFollow'
    BY <1>11 DEF Kill, Goto
  <1>12. ASSUME Reap PROVE StopsFollow'
    BY <1>12, KillingJobs DEF Reap, Reaped, Goto, SetState, Release
  <1>13. ASSUME StopPlayback \/ StopCapture PROVE StopsFollow'
    BY <1>13, StoppingJobs DEF StopPlayback, StopCapture, SetState, Stopped,
       Goto, Release
  <1>14. ASSUME NEW d \in Dirs, NEW a \in Apps, Open(d, a) PROVE StopsFollow'
    BY <1>14 DEF Open, Calls, SetState
  <1>15. ASSUME NEW d \in Dirs, NEW p \in Params, RefuseParams(d, p) PROVE
     StopsFollow'
    BY <1>15 DEF RefuseParams, SetState, MayNegotiate, Calls
  <1>16. ASSUME NEW d \in Dirs, NEW p \in Params, HwParams(d, p) PROVE
     StopsFollow'
    BY <1>16, FreeMutex DEF HwParams, Acquire, MayNegotiate, Calls
  <1>17. ASSUME NEW d \in Dirs, Flush(d) \/ Close(d) PROVE StopsFollow'
    BY <1>17 DEF Flush, Close, SetState
  <1>18. ASSUME NEW d \in Dirs, HwFree(d) PROVE StopsFollow'
    BY <1>18, FreeMutex DEF HwFree, Acquire, SetState, MayFree, Calls
  <1>19. ASSUME NEW d \in Dirs, Prepare(d) PROVE StopsFollow'
    BY <1>19 DEF Prepare, SetState
  <1>20. ASSUME NEW d \in Dirs, PrepareStarts(d) PROVE StopsFollow'
    BY <1>20, FreeMutex DEF PrepareStarts, Acquire, MayPrepare, Calls
  <1>21. ASSUME NEW d \in Dirs, Start(d) \/ StartDone(d) \/ Drop(d) \/ Xrun(d)
     PROVE StopsFollow'
    BY <1>21 DEF Start, StartDone, Drop, Xrun, SetState
  <1>22. ASSUME UrbsFail PROVE StopsFollow'
    BY <1>22, WorkHolder DEF UrbsFail
  <1>23. ASSUME WorkBegins PROVE StopsFollow'
    BY <1>23 DEF WorkBegins
  <1>24. ASSUME StreamWork PROVE StopsFollow'
    BY <1>24, FreeMutex DEF StreamWork, Acquire
  <1>25. ASSUME Disconnect PROVE StopsFollow'
    BY <1>25 DEF Disconnect
  <1>26. ASSUME DisconnectKills PROVE StopsFollow'
    BY <1>26, FreeMutex DEF DisconnectKills, Acquire
  <1>27. ASSUME DisconnectCancels PROVE StopsFollow'
    BY <1>27 DEF DisconnectCancels
  <1>28. ASSUME NEW d \in Dirs, DisconnectStops(d) PROVE StopsFollow'
    BY <1>28 DEF DisconnectStops, SetState, Stopped
  <1>29. ASSUME CardDisconnects PROVE StopsFollow'
    BY <1>29 DEF CardDisconnects
  <1>30. ASSUME Suspend PROVE StopsFollow'
    BY <1>30 DEF Suspend
  <1>31. ASSUME SuspendKills PROVE StopsFollow'
    BY <1>31, FreeMutex DEF SuspendKills, Acquire
  <1>32. ASSUME SuspendCancels \/ Resume PROVE StopsFollow'
    BY <1>32 DEF SuspendCancels, Resume
  <1>33. ASSUME Rest \/ Gone \/ UNCHANGED vars PROVE StopsFollow'
    BY <1>33 DEF Rest, Gone
  <1> HIDE DEF vars, session, users, usb, work, outside, critical, TypeOK,
     FlagTypes, DataTypes, SessionInv, FlagFollows, UsersFollow,
     OutsideFollows, StopsFollow, NoStrayUrbs, None, Free, Dirs
  <1> QED
    BY <1>1, <1>2, <1>3, <1>4, <1>5, <1>6, <1>7, <1>8, <1>9, <1>10, <1>11,
       <1>12, <1>13, <1>14, <1>15, <1>16, <1>17, <1>18, <1>19, <1>20, <1>21,
       <1>22, <1>23, <1>24, <1>25, <1>26, <1>27, <1>28, <1>29, <1>30, <1>31,
       <1>32, <1>33
       DEF Next, HolderStep, Caller, Worker, Unplug, Power

\* The URB that hw_params chooses is whole packets of the rate it asks for.
LEMMA NewUrbIsWhole == Negotiates => NewUrb % MinFpu(req.rate) = 0
  BY ParamsAreFrames, WholeUrb DEF Negotiates, NewUrb, UrbIsWhole

\* The rate and the URBs: each step leaves them whole, or on the way there.
LEMMA GeometryFollowsStep ==
    TypeOK /\ SessionInv /\ GeometryFollows /\ [Next]_vars => GeometryFollows'
  <1> SUFFICES ASSUME TypeOK /\ SessionInv /\ GeometryFollows, [Next]_vars
               PROVE  GeometryFollows'
    OBVIOUS
  <1> USE DEF vars, session, users, usb, work, outside, critical, TypeOK,
     FlagTypes, DataTypes, SessionInv, FlagFollows, GeometryFollows,
     WholePackets, None, Free
  <1>1. ASSUME SetInterface PROVE GeometryFollows'
    BY <1>1, NegotiatingJob DEF SetInterface, Goto, SetState, Release
  <1>2. ASSUME GeometryRefused PROVE GeometryFollows'
    BY <1>2, NegotiatingJob DEF GeometryRefused, SetState, Release
  <1>3. ASSUME GeometryKept PROVE GeometryFollows'
    <2>1. at = "geometry"
      BY <1>3, NegotiatingJob DEF GeometryKept, Chooses, ClockIsOurs
    <2> QED  BY <1>3, <2>1, NegotiatingJob DEF GeometryKept, CountUser, Release
  <1>4. ASSUME GeometryConfirmed PROVE GeometryFollows'
    <2>1. urb_frames % MinFpu(rate) = 0
      BY <1>4, NegotiatingJob, NewUrbIsWhole DEF GeometryConfirmed, SameGeometry
    <2> QED  BY <1>4, <2>1 DEF GeometryConfirmed, CountUser, Release
  <1>5. ASSUME GeometryChanged PROVE GeometryFollows'
    BY <1>5, NegotiatingJob DEF GeometryChanged
  <1>6. ASSUME Resize PROVE GeometryFollows'
    <2>1. urb_frames' % MinFpu(rate') = 0
      BY <1>6, NegotiatingJob, NewUrbIsWhole DEF Resize
    <2> QED  BY <1>6, <2>1 DEF Resize, CountUser, Release
  <1>7. ASSUME StartTrigger PROVE GeometryFollows'
    BY <1>7, StartingSteps DEF StartTrigger, Goto
  <1>8. ASSUME StartLive PROVE GeometryFollows'
    BY <1>8, StartingSteps DEF StartLive, Goto
  <1>9. ASSUME StartSubmit PROVE GeometryFollows'
    BY <1>9, StartingSteps DEF StartSubmit, Goto
  <1>10. ASSUME StartArm PROVE GeometryFollows'
    BY <1>10, StartingHolder DEF StartArm, Goto, SetState, Release
  <1>11. ASSUME Kill PROVE GeometryFollows'
    BY <1>11 DEF Kill, Goto
  <1>12. ASSUME Reap PROVE GeometryFollows'
    BY <1>12, KillingJobs DEF Reap, Reaped, Goto, SetState, Release
  <1>13. ASSUME StopPlayback \/ StopCapture PROVE GeometryFollows'
    BY <1>13, StoppingJobs DEF StopPlayback, StopCapture, SetState, Stopped,
       Goto, Release
  <1>14. ASSUME NEW d \in Dirs, NEW a \in Apps, Open(d, a) PROVE
     GeometryFollows'
    BY <1>14 DEF Open, Calls, SetState
  <1>15. ASSUME NEW d \in Dirs, NEW p \in Params, RefuseParams(d, p) PROVE
     GeometryFollows'
    BY <1>15 DEF RefuseParams, SetState, MayNegotiate, Calls
  <1>16. ASSUME NEW d \in Dirs, NEW p \in Params, HwParams(d, p) PROVE
     GeometryFollows'
    BY <1>16, FreeMutex DEF HwParams, Acquire, MayNegotiate, Calls
  <1>17. ASSUME NEW d \in Dirs, Flush(d) \/ Close(d) PROVE GeometryFollows'
    BY <1>17 DEF Flush, Close, SetState
  <1>18. ASSUME NEW d \in Dirs, HwFree(d) PROVE GeometryFollows'
    BY <1>18, FreeMutex DEF HwFree, Acquire, SetState, MayFree, Calls
  <1>19. ASSUME NEW d \in Dirs, Prepare(d) PROVE GeometryFollows'
    BY <1>19 DEF Prepare, SetState
  <1>20. ASSUME NEW d \in Dirs, PrepareStarts(d) PROVE GeometryFollows'
    BY <1>20, FreeMutex DEF PrepareStarts, Acquire, MayPrepare, Calls
  <1>21. ASSUME NEW d \in Dirs, Start(d) \/ StartDone(d) \/ Drop(d) \/ Xrun(d)
     PROVE GeometryFollows'
    BY <1>21 DEF Start, StartDone, Drop, Xrun, SetState
  <1>22. ASSUME UrbsFail PROVE GeometryFollows'
    BY <1>22, WorkHolder DEF UrbsFail
  <1>23. ASSUME WorkBegins PROVE GeometryFollows'
    BY <1>23 DEF WorkBegins
  <1>24. ASSUME StreamWork PROVE GeometryFollows'
    BY <1>24, FreeMutex DEF StreamWork, Acquire
  <1>25. ASSUME Disconnect PROVE GeometryFollows'
    BY <1>25 DEF Disconnect
  <1>26. ASSUME DisconnectKills PROVE GeometryFollows'
    BY <1>26, FreeMutex DEF DisconnectKills, Acquire
  <1>27. ASSUME DisconnectCancels PROVE GeometryFollows'
    BY <1>27 DEF DisconnectCancels
  <1>28. ASSUME NEW d \in Dirs, DisconnectStops(d) PROVE GeometryFollows'
    BY <1>28 DEF DisconnectStops, SetState, Stopped
  <1>29. ASSUME CardDisconnects PROVE GeometryFollows'
    BY <1>29 DEF CardDisconnects
  <1>30. ASSUME Suspend PROVE GeometryFollows'
    BY <1>30 DEF Suspend
  <1>31. ASSUME SuspendKills PROVE GeometryFollows'
    BY <1>31, FreeMutex DEF SuspendKills, Acquire
  <1>32. ASSUME SuspendCancels \/ Resume PROVE GeometryFollows'
    BY <1>32 DEF SuspendCancels, Resume
  <1>33. ASSUME Rest \/ Gone \/ UNCHANGED vars PROVE GeometryFollows'
    BY <1>33 DEF Rest, Gone
  <1> HIDE DEF vars, session, users, usb, work, outside, critical, TypeOK,
     FlagTypes, DataTypes, SessionInv, FlagFollows, GeometryFollows,
     WholePackets, None, Free
  <1> QED
    BY <1>1, <1>2, <1>3, <1>4, <1>5, <1>6, <1>7, <1>8, <1>9, <1>10, <1>11,
       <1>12, <1>13, <1>14, <1>15, <1>16, <1>17, <1>18, <1>19, <1>20, <1>21,
       <1>22, <1>23, <1>24, <1>25, <1>26, <1>27, <1>28, <1>29, <1>30, <1>31,
       <1>32, <1>33
       DEF Next, HolderStep, Caller, Worker, Unplug, Power

----------------------------------------------------------------------------
\* A new device has no session, and probe() has made its URBs whole packets.
LEMMA InitStops == Init => StopsFollow /\ GeometryFollows
  <1> SUFFICES ASSUME Init PROVE StopsFollow /\ GeometryFollows
    OBVIOUS
  <1>1. StopsFollow
    BY DEF Init, StopsFollow, NoStrayUrbs, None, Free, Dirs
  <1>2. urb_frames % MinFpu(rate) = 0
    BY GeometryAssumption DEF Init, MinFpu, BfAlt
  <1> QED  BY <1>1, <1>2 DEF Init, GeometryFollows, WholePackets, None

\* Whatever fails: what stops leave, and that the URBs are whole packets.
THEOREM StopsInvariant == Spec => [](StopsFollow /\ GeometryFollows)
  <1>1. /\ TypeOK /\ SessionInv /\ StopsFollow /\ GeometryFollows
        /\ [Next]_vars
        => (StopsFollow /\ GeometryFollows)'
    BY StopsFollowStep, GeometryFollowsStep
  <1> QED  BY InitStops, SessionInvariant, <1>1, PTL DEF Spec

\* No URB is in flight without a session, outside the kill itself.
THEOREM UrbsDoNotStray == Spec => []NoStrayUrbs
  <1>1. StopsFollow => NoStrayUrbs
    BY DEF StopsFollow
  <1> QED  BY <1>1, StopsInvariant, PTL

\* A live session's URBs are whole packets of its rate, through every rate and
\* geometry that hw_params of two applications choose.
THEOREM PacketsStayWhole == Spec => []WholePackets
  <1>1. GeometryFollows => WholePackets
    BY DEF GeometryFollows
  <1> QED  BY <1>1, StopsInvariant, PTL

\* The two terms that stream_users counts are the substreams set up.
LEMMA CountOfUsers ==
    ASSUME FlagTypes
    PROVE  Cardinality({d \in Dirs : stream_setup[d]})
             = (IF stream_setup["playback"] THEN 1 ELSE 0)
               + (IF stream_setup["capture"] THEN 1 ELSE 0)
  <1> DEFINE S == {d \in Dirs : stream_setup[d]}
  <1> HIDE DEF S
  <1>1. CASE stream_setup["playback"] /\ stream_setup["capture"]
    <2>1. S = {"playback"} \cup {"capture"}
      BY <1>1 DEF S, Dirs
    <2>2. "capture" \notin {"playback"} /\ IsFiniteSet({"playback"})
          /\ Cardinality({"playback"}) = 1
      BY FS_Singleton
    <2>3. Cardinality(S) = 1 + 1
      BY <2>1, <2>2, FS_AddElement
    <2> QED  BY <1>1, <2>3 DEF S
  <1>2. CASE stream_setup["playback"] /\ ~stream_setup["capture"]
    <2>1. S = {"playback"}
      BY <1>2 DEF S, Dirs
    <2>2. Cardinality(S) = 1
      BY <2>1, FS_Singleton
    <2> QED  BY <1>2, <2>2 DEF S
  <1>3. CASE ~stream_setup["playback"] /\ stream_setup["capture"]
    <2>1. S = {"capture"}
      BY <1>3 DEF S, Dirs
    <2>2. Cardinality(S) = 1
      BY <2>1, FS_Singleton
    <2> QED  BY <1>3, <2>2 DEF S
  <1>4. CASE ~stream_setup["playback"] /\ ~stream_setup["capture"]
    <2>1. S = {}
      BY <1>4 DEF S, Dirs
    <2>2. Cardinality(S) = 0
      BY <2>1, FS_EmptySet
    <2> QED  BY <1>4, <2>2 DEF S
  <1> QED  BY <1>1, <1>2, <1>3, <1>4

\* stream_users counts the substreams that are set up, and once the mutex is
\* free the last one released has stopped the session.
THEOREM SessionsHaveUsers == Spec => []SessionHasUser
  <1>1. TypeOK /\ SessionInv /\ StopsFollow => SessionHasUser
    <2> SUFFICES ASSUME TypeOK, SessionInv, StopsFollow PROVE SessionHasUser
      OBVIOUS
    <2>1. stream_users = Cardinality({d \in Dirs : stream_setup[d]})
      BY CountOfUsers DEF TypeOK, SessionInv, UsersFollow
    <2>2. holder = Free => job = None
      BY FreeMutex DEF SessionInv
    <2>3. streaming /\ holder = Free => stream_users # 0
      BY <2>2 DEF StopsFollow, None
    <2> QED  BY <2>1, <2>3 DEF SessionHasUser, TypeOK
  <1> QED  BY <1>1, SessionInvariant, StopsInvariant, PTL

\* A device that is gone, and a system that sleeps, has no session, no URB, no
\* running substream; a system that sleeps has no work queued or running.
THEOREM AwayIsQuiet == Spec => []QuietWhenAway
  <1>1. TypeOK /\ SessionInv /\ StopsFollow => QuietWhenAway
    <2> SUFFICES ASSUME TypeOK, SessionInv, StopsFollow PROVE QuietWhenAway
      OBVIOUS
    <2>1. at = "reap" => disc \in {"present", "flagged"}
      BY WorkHolder DEF SessionInv, StopsFollow, None
    <2>2. pm = "asleep" => at # "reap"
      BY WorkHolder DEF SessionInv, StopsFollow, None
    <2>3. GoneIsQuiet
      BY <2>1 DEF GoneIsQuiet, StopsFollow, NoStrayUrbs, SessionInv, OutsideFollows
    <2>4. AsleepIsQuiet
      BY <2>2 DEF AsleepIsQuiet, StopsFollow, NoStrayUrbs, SessionInv, OutsideFollows
    <2> QED  BY <2>3, <2>4 DEF QuietWhenAway
  <1> QED  BY <1>1, SessionInvariant, StopsInvariant, PTL

----------------------------------------------------------------------------
\* The gap and the clients: each step keeps what the contract needs of them.
LEMMA ContractFollowsStep ==
    TypeOK /\ SessionInv /\ ContractFollows /\ [Next]_vars => ContractFollows'
  <1> SUFFICES ASSUME TypeOK /\ SessionInv /\ ContractFollows, [Next]_vars
               PROVE  ContractFollows'
    OBVIOUS
  <1> USE DEF vars, session, users, usb, work, outside, critical, TypeOK,
     FlagTypes, DataTypes, SessionInv, FlagFollows, UsersFollow,
     OutsideFollows, ContractFollows, None, Free, Dirs
  <1>1. ASSUME SetInterface PROVE ContractFollows'
    BY <1>1, NegotiatingJob DEF SetInterface, Goto, SetState, Release
  <1>2. ASSUME GeometryRefused PROVE ContractFollows'
    BY <1>2, NegotiatingJob DEF GeometryRefused, SetState, Release
  <1>3. ASSUME GeometryKept PROVE ContractFollows'
    BY <1>3, NegotiatingJob DEF GeometryKept, CountUser, SetState, Release
  <1>4. ASSUME GeometryConfirmed PROVE ContractFollows'
    BY <1>4, NegotiatingJob DEF GeometryConfirmed, CountUser, SetState, Release
  <1>5. ASSUME GeometryChanged PROVE ContractFollows'
    BY <1>5, NegotiatingJob DEF GeometryChanged
  <1>6. ASSUME Resize PROVE ContractFollows'
    BY <1>6, NegotiatingJob DEF Resize, CountUser, SetState, Release
  <1>7. ASSUME StartTrigger PROVE ContractFollows'
    BY <1>7, StartingSteps DEF StartTrigger, Goto
  <1>8. ASSUME StartLive PROVE ContractFollows'
    BY <1>8, StartingSteps DEF StartLive, Goto
  <1>9. ASSUME StartSubmit PROVE ContractFollows'
    BY <1>9, StartingSteps DEF StartSubmit, Goto
  <1>10. ASSUME StartArm PROVE ContractFollows'
    BY <1>10, StartingHolder DEF StartArm, Goto, SetState, Release
  <1>11. ASSUME Kill PROVE ContractFollows'
    BY <1>11 DEF Kill, Goto
  <1>12. ASSUME Reap PROVE ContractFollows'
    BY <1>12, KillingJobs DEF Reap, Reaped, Goto, SetState, Release
  <1>13. ASSUME StopPlayback \/ StopCapture PROVE ContractFollows'
    BY <1>13 DEF StopPlayback, StopCapture, SetState, Stopped,
       Goto, Release
  <1>14. ASSUME NEW d \in Dirs, NEW a \in Apps, Open(d, a) PROVE ContractFollows'
    BY <1>14 DEF Open, Calls, SetState
  <1>15. ASSUME NEW d \in Dirs, NEW p \in Params, RefuseParams(d, p) PROVE
     ContractFollows'
    BY <1>15 DEF RefuseParams, SetState, MayNegotiate, Calls
  <1>16. ASSUME NEW d \in Dirs, NEW p \in Params, HwParams(d, p) PROVE
     ContractFollows'
    BY <1>16, FreeMutex DEF HwParams, Acquire, MayNegotiate, Calls
  <1>17. ASSUME NEW d \in Dirs, Flush(d) \/ Close(d) PROVE ContractFollows'
    BY <1>17 DEF Flush, Close, SetState
  <1>18. ASSUME NEW d \in Dirs, HwFree(d) PROVE ContractFollows'
    BY <1>18, FreeMutex DEF HwFree, Acquire, SetState, MayFree, Calls
  <1>19. ASSUME NEW d \in Dirs, Prepare(d) PROVE ContractFollows'
    BY <1>19 DEF Prepare, SetState
  <1>20. ASSUME NEW d \in Dirs, PrepareStarts(d) PROVE ContractFollows'
    BY <1>20, FreeMutex DEF PrepareStarts, Acquire, MayPrepare, Calls
  <1>21. ASSUME NEW d \in Dirs, Start(d) \/ StartDone(d) \/ Drop(d) \/ Xrun(d)
     PROVE ContractFollows'
    BY <1>21 DEF Start, StartDone, Drop, Xrun, SetState
  <1>22. ASSUME UrbsFail PROVE ContractFollows'
    BY <1>22, WorkHolder DEF UrbsFail
  <1>23. ASSUME WorkBegins PROVE ContractFollows'
    BY <1>23 DEF WorkBegins
  <1>24. ASSUME StreamWork PROVE ContractFollows'
    BY <1>24, FreeMutex DEF StreamWork, Acquire
  <1>25. ASSUME Disconnect PROVE ContractFollows'
    BY <1>25 DEF Disconnect
  <1>26. ASSUME DisconnectKills PROVE ContractFollows'
    BY <1>26, FreeMutex DEF DisconnectKills, Acquire
  <1>27. ASSUME DisconnectCancels PROVE ContractFollows'
    BY <1>27 DEF DisconnectCancels
  <1>28. ASSUME NEW d \in Dirs, DisconnectStops(d) PROVE ContractFollows'
    BY <1>28 DEF DisconnectStops, SetState, Stopped
  <1>29. ASSUME CardDisconnects PROVE ContractFollows'
    BY <1>29 DEF CardDisconnects
  <1>30. ASSUME Suspend PROVE ContractFollows'
    BY <1>30 DEF Suspend
  <1>31. ASSUME SuspendKills PROVE ContractFollows'
    BY <1>31, FreeMutex DEF SuspendKills, Acquire
  <1>32. ASSUME SuspendCancels \/ Resume PROVE ContractFollows'
    BY <1>32 DEF SuspendCancels, Resume
  <1>33. ASSUME Rest \/ Gone \/ UNCHANGED vars PROVE ContractFollows'
    BY <1>33 DEF Rest, Gone
  <1> HIDE DEF vars, session, users, usb, work, outside, critical, TypeOK,
     FlagTypes, DataTypes, SessionInv, FlagFollows, UsersFollow,
     OutsideFollows, ContractFollows, None, Free, Dirs
  <1> QED
    BY <1>1, <1>2, <1>3, <1>4, <1>5, <1>6, <1>7, <1>8, <1>9, <1>10, <1>11,
       <1>12, <1>13, <1>14, <1>15, <1>16, <1>17, <1>18, <1>19, <1>20, <1>21,
       <1>22, <1>23, <1>24, <1>25, <1>26, <1>27, <1>28, <1>29, <1>30, <1>31,
       <1>32, <1>33
       DEF Next, HolderStep, Caller, Worker, Unplug, Power


LEMMA InitContract == Init => ContractFollows /\ Contract!Init
  <1> SUFFICES ASSUME Init PROVE ContractFollows /\ Contract!Init
    OBVIOUS
  <1>1. ContractFollows
    BY DEF Init, ContractFollows, None, Dirs
  <1>2. urb_frames % MinFpu(rate) = 0 /\ urb_frames \in Nat
    BY GeometryAssumption DEF Init, MinFpu, BfAlt
  <1>3. {d \in Dirs : stream_setup[d]} = {}
    BY DEF Init
  <1>4. owner \in [Dirs -> Apps \cup {NoApp}]
    BY DEF Init
  <1> QED  BY <1>1, <1>2, <1>3, <1>4
           DEF Init, None, Contract!Init, Contract!UrbInit, Contract!Whole

----------------------------------------------------------------------------
\* A step that touches nothing the contract speaks of is a stutter of it.
LEMMA ContractStutters ==
    ASSUME UNCHANGED <<owner, stream_setup, rate, urb_frames, streaming, urbs,
                       rested, fatal, pending, worker, shutdown>>,
           (at' = "reap") = (at = "reap")
    PROVE  UNCHANGED Contract!vars
  <1>1. (rested' /\ at' # "reap") = (rested /\ at # "reap")
    OBVIOUS
  <1> QED  BY <1>1 DEF Contract!vars, Contract!shape, Contract!urbVars

\* Steps of the clients leave the URBs and their work alone, and the gap.
LEMMA UrbsAside ==
    ASSUME UNCHANGED <<usb, work, shutdown>>, (at' = "reap") = (at = "reap")
    PROVE  /\ UNCHANGED Contract!urbVars
           /\ (rested' /\ at' # "reap") = (rested /\ at # "reap")
  <1>1. (rested' /\ at' # "reap") = (rested /\ at # "reap")
    BY DEF usb
  <1> QED  BY <1>1 DEF usb, work, Contract!urbVars

\* Steps of the URBs and of the work leave the clients and the clock alone.
LEMMA ClientsAside ==
    ASSUME UNCHANGED <<owner, stream_setup, rate, urb_frames, rested>>,
           (at' = "reap") = (at = "reap")
    PROVE  /\ UNCHANGED Contract!shape
           /\ (rested' /\ at' # "reap") = (rested /\ at # "reap")
  <1>1. (rested' /\ at' # "reap") = (rested /\ at # "reap")
    OBVIOUS
  <1> QED  BY <1>1 DEF Contract!shape

\* The end of a successful hw_params makes its direction a client, once.
LEMMA CountedIsClient ==
    ASSUME FlagTypes, CountUser, holder \in Dirs
    PROVE  {d \in Dirs : stream_setup[d]}'
             = {d \in Dirs : stream_setup[d]} \cup {holder}
  <1>1. stream_setup' = [stream_setup EXCEPT ![holder] = TRUE]
    BY DEF CountUser
  <1> QED  BY <1>1 DEF FlagTypes

\* hw_free makes its direction no client.
LEMMA FreedIsNone ==
    ASSUME FlagTypes, NEW d \in Dirs, HwFree(d)
    PROVE  {e \in Dirs : stream_setup[e]}'
             = {e \in Dirs : stream_setup[e]} \ {d}
  <1>1. stream_setup' = [stream_setup EXCEPT ![d] = FALSE]
    BY DEF HwFree
  <1> QED  BY <1>1 DEF FlagTypes

\* When the other direction is nobody else's, every client is one's own.
LEMMA ClientsAreOurs ==
    ASSUME NEW d \in Dirs, ~OtherHoldsClock(d)
    PROVE  \A e \in {f \in Dirs : stream_setup[f]} : owner[e] = owner[d]
  BY DEF OtherHoldsClock, Other, Dirs

\* Nothing is live and nothing in flight while a stopped session is changed.
LEMMA ChangesAreDrained ==
    ASSUME SessionInv, StopsFollow,
           at \in {"set_interface", "resize", "live"}
    PROVE  Contract!Drained
  <1>1. ~streaming
    BY DEF SessionInv, FlagFollows
  <1>2. ~urbs
    BY <1>1 DEF StopsFollow, NoStrayUrbs
  <1> QED  BY <1>1, <1>2 DEF Contract!Drained

LEMMA ContractStep ==
    /\ TypeOK /\ SessionInv /\ StopsFollow /\ GeometryFollows
    /\ ContractFollows /\ [Next]_vars
    => [Contract!Next]_(Contract!vars)
  <1> SUFFICES ASSUME TypeOK, SessionInv, StopsFollow, GeometryFollows,
                      ContractFollows, [Next]_vars
               PROVE  [Contract!Next]_(Contract!vars)
    OBVIOUS
  <1> USE DEF session, users, usb, work, outside, critical
  <1>a. FlagTypes /\ DataTypes /\ LockDiscipline /\ ClockIsOurs
    BY DEF TypeOK, SessionInv
  <1>b. holder = Free => at = None /\ at # "reap"
    BY <1>a, FreeMutex DEF None
  <1>1. ASSUME SetInterface PROVE [Contract!Next]_(Contract!vars)
    <2>a. (at' = "reap") = (at = "reap")
      BY <1>1 DEF SetInterface, Goto, Release, None
    <2>1. holder \in Dirs /\ job = "retune" /\ Negotiates
      BY <1>1, <1>a, NegotiatingJob DEF SetInterface
    <2>2. CASE rate' = req.rate
      <3>1. \A e \in {f \in Dirs : stream_setup[f]} : owner[e] = owner[holder]
        BY <1>1, <1>a, <2>1, ClientsAreOurs DEF ClockIsOurs, SetInterface
      <3>2. req.rate \in Rates
        BY <2>1, ParamsAreFrames DEF Negotiates
      <3>3. PICK d \in Dirs : d = holder
        BY <2>1
      <3>4. Contract!Retune(d)
        BY <1>1, <2>a, <2>2, <3>1, <3>2, <3>3, UrbsAside, ChangesAreDrained
           DEF SetInterface, Contract!Retune, Contract!BelongsTo
      <3> QED  BY <3>4 DEF Contract!Next
    <2>3. CASE UNCHANGED rate
      BY <1>1, <2>a, <2>3, ContractStutters DEF SetInterface
    <2> QED  BY <1>1, <2>2, <2>3 DEF SetInterface
  <1>2. ASSUME GeometryRefused PROVE [Contract!Next]_(Contract!vars)
    <2>1. (at' = "reap") = (at = "reap")
      BY <1>2 DEF GeometryRefused, Release, None
    <2> QED  BY <1>2, <2>1, ContractStutters DEF GeometryRefused
  <1>3. ASSUME GeometryKept PROVE [Contract!Next]_(Contract!vars)
    <2>1. PICK d \in Dirs : d = holder
      BY <1>3, <1>a, NegotiatingJob DEF GeometryKept
    <2>2. at = "geometry"
      BY <1>3, <1>a, NegotiatingJob DEF GeometryKept, Chooses, ClockIsOurs
    <2>3. urb_frames % MinFpu(rate) = 0
      BY <1>a, <2>2, NegotiatingJob DEF GeometryFollows
    <2>4. /\ CountUser /\ UNCHANGED <<session, owner, usb, work, shutdown>>
          /\ (at' = "reap") = (at = "reap")
      BY <1>3 DEF GeometryKept, CountUser, Release, None
    <2>5. Contract!Join(d)
      BY <1>a, <2>1, <2>3, <2>4, CountedIsClient, UrbsAside
         DEF Contract!Join, Contract!Whole
    <2> QED  BY <2>5 DEF Contract!Next
  <1>4. ASSUME GeometryConfirmed PROVE [Contract!Next]_(Contract!vars)
    <2>1. PICK d \in Dirs : d = holder
      BY <1>4, <1>a, NegotiatingJob DEF GeometryConfirmed
    <2>2. urb_frames % MinFpu(rate) = 0
      BY <1>4, <1>a, NegotiatingJob, NewUrbIsWhole
         DEF GeometryConfirmed, SameGeometry, GeometryFollows
    <2>3. /\ CountUser
          /\ UNCHANGED <<rate, urb_frames, owner, usb, work, shutdown>>
          /\ (at' = "reap") = (at = "reap")
      BY <1>4 DEF GeometryConfirmed, CountUser, Release, None
    <2>4. Contract!Join(d)
      BY <1>a, <2>1, <2>2, <2>3, CountedIsClient, UrbsAside
         DEF Contract!Join, Contract!Whole
    <2> QED  BY <2>4 DEF Contract!Next
  <1>5. ASSUME GeometryChanged PROVE [Contract!Next]_(Contract!vars)
    <2>1. (at' = "reap") = (at = "reap")
      BY <1>5 DEF GeometryChanged
    <2> QED  BY <1>5, <2>1, ContractStutters DEF GeometryChanged
  <1>6. ASSUME Resize PROVE [Contract!Next]_(Contract!vars)
    <2>1. holder \in Dirs /\ job = "resize" /\ Negotiates
      BY <1>6, <1>a, NegotiatingJob DEF Resize
    <2>2. \A e \in {f \in Dirs : stream_setup[f]} : owner[e] = owner[holder]
      BY <1>a, <2>1, ClientsAreOurs DEF ClockIsOurs
    <2>3. /\ CountUser /\ UNCHANGED <<rate, owner, usb, work, shutdown>>
          /\ urb_frames' = NewUrb
          /\ (at' = "reap") = (at = "reap")
      BY <1>6 DEF Resize, CountUser, Release, None
    <2>4. urb_frames' % MinFpu(rate') = 0 /\ urb_frames' \in Nat
      BY <2>1, <2>3, NewUrbIsWhole, ParamsAreFrames
         DEF GeometryFollows, Negotiates, NewUrb
    <2>5. Contract!Drained
      BY <1>6, ChangesAreDrained DEF Resize
    <2>6. PICK d \in Dirs : d = holder
      BY <2>1
    <2>7. Contract!JoinResized(d)
      BY <1>a, <2>1, <2>6, <2>2, <2>3, <2>4, <2>5, CountedIsClient, UrbsAside
         DEF Contract!JoinResized, Contract!BelongsTo, Contract!Whole
    <2> QED  BY <2>7 DEF Contract!Next
  <1>7. ASSUME StartTrigger PROVE [Contract!Next]_(Contract!vars)
    <2>1. (at' = "reap") = (at = "reap")
      BY <1>7 DEF StartTrigger, Goto
    <2> QED  BY <1>7, <2>1, ContractStutters DEF StartTrigger
  <1>8. ASSUME StartLive PROVE [Contract!Next]_(Contract!vars)
    <2>1. holder \in Dirs /\ job = "start" /\ at = "live"
      BY <1>8, <1>a, StartingSteps DEF StartLive
    <2>2. holder \in {d \in Dirs : stream_setup[d]}
      BY <2>1 DEF SessionInv, UsersFollow
    <2>3. urb_frames % MinFpu(rate) = 0
      BY <2>1 DEF GeometryFollows
    <2>4. Contract!Drained /\ rested
      BY <2>1, ChangesAreDrained DEF ContractFollows
    <2>5. Contract!GoLive
      BY <1>8, <2>4 DEF StartLive, Contract!GoLive
    <2>6. /\ UNCHANGED Contract!shape
          /\ (rested' /\ at' # "reap") = (rested /\ at # "reap")
      BY <1>8, ClientsAside DEF StartLive, Goto
    <2>7. Contract!Begin
      BY <2>1, <2>2, <2>3, <2>4, <2>5, <2>6 DEF Contract!Begin, Contract!Whole
    <2> QED  BY <2>7 DEF Contract!Next
  <1>9. ASSUME StartSubmit PROVE [Contract!Next]_(Contract!vars)
    <2>1. streaming
      BY <1>9 DEF StartSubmit, SessionInv, FlagFollows
    <2>2. Contract!Send
      BY <1>9, <2>1 DEF StartSubmit, Contract!Send
    <2>3. /\ UNCHANGED Contract!shape
          /\ (rested' /\ at' # "reap") = (rested /\ at # "reap")
      BY <1>9, ClientsAside DEF StartSubmit, Goto
    <2>4. Contract!Carry
      BY <2>2, <2>3 DEF Contract!Carry
    <2> QED  BY <2>4 DEF Contract!Next
  <1>10. ASSUME StartArm PROVE [Contract!Next]_(Contract!vars)
    <2>1. (at' = "reap") = (at = "reap")
      BY <1>10 DEF StartArm, Goto, Release, None
    <2> QED  BY <1>10, <2>1, ContractStutters DEF StartArm
  <1>11. ASSUME Kill PROVE [Contract!Next]_(Contract!vars)
    <2>1. /\ streaming' = FALSE /\ (rested' /\ at' # "reap") = FALSE
          /\ UNCHANGED <<urbs, work, shutdown>> /\ UNCHANGED Contract!shape
      BY <1>11 DEF Kill, Goto, Contract!shape
    <2>2. CASE streaming
      <3>1. Contract!End
        BY <2>1, <2>2 DEF Contract!End
      <3>2. Contract!Stop
        BY <2>1, <3>1 DEF Contract!Stop
      <3> QED  BY <3>2 DEF Contract!Next
    <2>3. CASE ~streaming
      <3>1. ~urbs
        BY <1>11, <2>3 DEF Kill, StopsFollow, NoStrayUrbs
      <3>2. Contract!Drain
        BY <1>a, <2>1, <2>3, <3>1 DEF FlagTypes, Contract!Drain
      <3>3. Contract!Stop
        BY <2>1, <3>2 DEF Contract!Stop
      <3> QED  BY <3>3 DEF Contract!Next
    <2> QED  BY <2>2, <2>3
  <1>12. ASSUME Reap PROVE [Contract!Next]_(Contract!vars)
    <2>1. ~streaming
      BY <1>12 DEF Reap, SessionInv, FlagFollows
    <2>2. Contract!Drain
      BY <1>12, <2>1 DEF Reap, Contract!Drain
    <2>3. Contract!Stop
      BY <1>12, <2>2 DEF Reap, Contract!Stop, Contract!shape
    <2> QED  BY <2>3 DEF Contract!Next
  <1>13. ASSUME StopPlayback PROVE [Contract!Next]_(Contract!vars)
    <2>1. (at' = "reap") = (at = "reap")
      BY <1>13 DEF StopPlayback, Goto
    <2> QED  BY <1>13, <2>1, ContractStutters DEF StopPlayback
  <1>24. ASSUME StopCapture PROVE [Contract!Next]_(Contract!vars)
    <2>1. (at' = "reap") = (at = "reap")
      BY <1>24 DEF StopCapture, Goto, Release, None
    <2>2. CASE UNCHANGED work
      BY <1>24, <2>1, <2>2, ContractStutters DEF StopCapture
    <2>3. CASE /\ job = "work" /\ fatal' = FALSE /\ worker' = "idle"
               /\ UNCHANGED pending
      <3>1. ~streaming /\ ~urbs
        BY <1>24 DEF StopCapture, SessionInv, FlagFollows, StopsFollow, NoStrayUrbs
      <3>2. worker = "running"
        BY <1>a, <2>3 DEF LockDiscipline, None
      <3>3. Contract!WorkEnds
        BY <1>24, <2>3, <3>1, <3>2
           DEF StopCapture, Contract!WorkEnds, Contract!Drained
      <3>4. Contract!Carry
        BY <1>24, <2>1, <3>3, ClientsAside DEF StopCapture, Contract!Carry
      <3> QED  BY <3>4 DEF Contract!Next
    <2> QED  BY <1>24, <2>2, <2>3 DEF StopCapture
  <1>14. ASSUME NEW d \in Dirs, NEW a \in Apps, Open(d, a)
         PROVE  [Contract!Next]_(Contract!vars)
    <2>1. d \notin {e \in Dirs : stream_setup[e]}
      BY <1>14 DEF Open, ContractFollows
    <2>2. Contract!Take(d, a)
      BY <1>14, <2>1, UrbsAside DEF Open, Contract!Take
    <2> QED  BY <2>2 DEF Contract!Next
  <1>15. ASSUME NEW d \in Dirs, Close(d)
         PROVE  [Contract!Next]_(Contract!vars)
    <2>1. d \notin {e \in Dirs : stream_setup[e]}
      BY <1>15 DEF Close, ContractFollows
    <2>2. Contract!Take(d, NoApp)
      BY <1>15, <2>1, UrbsAside DEF Close, Contract!Take
    <2> QED  BY <2>2 DEF Contract!Next
  <1>16. ASSUME NEW d \in Dirs, HwFree(d)
         PROVE  [Contract!Next]_(Contract!vars)
    <2>a. (at' = "reap") = (at = "reap")
      BY <1>16, <1>b DEF HwFree, Acquire
    <2>1. CASE stream_setup[d]
      <3>1. Contract!Quit(d)
        BY <1>16, <1>a, <2>a, <2>1, FreedIsNone, UrbsAside
           DEF HwFree, Contract!Quit
      <3> QED  BY <3>1 DEF Contract!Next
    <2>2. CASE ~stream_setup[d]
      <3>1. UNCHANGED stream_setup
        BY <1>16, <1>a, <2>2 DEF HwFree, FlagTypes
      <3> QED  BY <1>16, <2>a, <3>1, ContractStutters DEF HwFree
    <2> QED  BY <2>1, <2>2
  <1>17. ASSUME NEW d \in Dirs, NEW p \in Params,
                RefuseParams(d, p) \/ HwParams(d, p)
         PROVE  [Contract!Next]_(Contract!vars)
    <2>1. (at' = "reap") = (at = "reap")
      BY <1>17, <1>b DEF RefuseParams, HwParams, Acquire
    <2> QED  BY <1>17, <2>1, ContractStutters DEF RefuseParams, HwParams
  <1>18. ASSUME NEW d \in Dirs,
                \/ Flush(d) \/ Prepare(d) \/ PrepareStarts(d)
                \/ Start(d) \/ StartDone(d) \/ Drop(d) \/ Xrun(d)
         PROVE  [Contract!Next]_(Contract!vars)
    <2>1. (at' = "reap") = (at = "reap")
      BY <1>18, <1>b DEF Flush, Prepare, PrepareStarts, Acquire, Start,
         StartDone, Drop, Xrun
    <2> QED  BY <1>18, <2>1, ContractStutters
       DEF Flush, Prepare, PrepareStarts, Start, StartDone, Drop, Xrun
  <1>19. ASSUME UrbsFail PROVE [Contract!Next]_(Contract!vars)
    <2>1. Contract!Fail
      BY <1>19 DEF UrbsFail, Contract!Fail
    <2>2. Contract!Carry
      BY <1>19, <2>1, ClientsAside DEF UrbsFail, Contract!Carry
    <2> QED  BY <2>2 DEF Contract!Next
  <1>25. ASSUME WorkBegins PROVE [Contract!Next]_(Contract!vars)
    <2>1. Contract!WorkBegins
      BY <1>25 DEF WorkBegins, Contract!WorkBegins
    <2>2. Contract!Carry
      BY <1>25, <2>1, ClientsAside DEF WorkBegins, Contract!Carry
    <2> QED  BY <2>2 DEF Contract!Next
  <1>26. ASSUME StreamWork PROVE [Contract!Next]_(Contract!vars)
    <2>1. (at' = "reap") = (at = "reap")
      BY <1>26, <1>b DEF StreamWork, Acquire
    <2>2. CASE ~shutdown /\ fatal
      BY <1>26, <2>1, <2>2, ContractStutters DEF StreamWork
    <2>3. CASE ~(~shutdown /\ fatal)
      <3>1. Contract!WorkIdles
        BY <1>26, <2>3 DEF StreamWork, Contract!WorkIdles
      <3>2. Contract!Carry
        BY <1>26, <2>1, <3>1, ClientsAside DEF StreamWork, Contract!Carry
      <3> QED  BY <3>2 DEF Contract!Next
    <2> QED  BY <2>2, <2>3
  <1>20. ASSUME Unplug PROVE [Contract!Next]_(Contract!vars)
    <2>1. CASE Disconnect
      <3>1. Contract!Leave
        BY <2>1 DEF Disconnect, Contract!Leave
      <3>2. Contract!Carry
        BY <2>1, <3>1, ClientsAside DEF Disconnect, Contract!Carry
      <3> QED  BY <3>2 DEF Contract!Next
    <2>2. CASE DisconnectKills
      <3>1. (at' = "reap") = (at = "reap")
        BY <2>2, <1>b DEF DisconnectKills, Acquire
      <3> QED  BY <2>2, <3>1, ContractStutters DEF DisconnectKills
    <2>3. CASE DisconnectCancels
      <3>1. ~streaming /\ at # "reap" /\ ~urbs
        BY <2>3 DEF DisconnectCancels, StopsFollow, NoStrayUrbs
      <3>2. Contract!Cancel
        BY <2>3, <3>1 DEF DisconnectCancels, Contract!Cancel, Contract!Drained
      <3>3. Contract!Carry
        BY <2>3, <3>2, ClientsAside DEF DisconnectCancels, Contract!Carry
      <3> QED  BY <3>3 DEF Contract!Next
    <2>4. CASE (\E d \in Dirs : DisconnectStops(d)) \/ CardDisconnects
      BY <2>4, ContractStutters DEF DisconnectStops, CardDisconnects
    <2> QED  BY <1>20, <2>1, <2>2, <2>3, <2>4 DEF Unplug
  <1>21. ASSUME Power PROVE [Contract!Next]_(Contract!vars)
    <2>1. CASE Suspend \/ SuspendKills \/ Resume
      <3>1. (at' = "reap") = (at = "reap")
        BY <2>1, <1>b DEF Suspend, SuspendKills, Resume, Acquire
      <3> QED  BY <2>1, <3>1, ContractStutters DEF Suspend, SuspendKills, Resume
    <2>2. CASE SuspendCancels
      <3>1. at # "reap"
        BY <2>2, <1>a, WorkHolder DEF SuspendCancels, StopsFollow
      <3>2. ~streaming /\ ~urbs
        BY <2>2, <3>1 DEF SuspendCancels, StopsFollow, NoStrayUrbs
      <3>3. Contract!Cancel
        BY <2>2, <3>2 DEF SuspendCancels, Contract!Cancel, Contract!Drained
      <3>4. Contract!Carry
        BY <2>2, <3>3, ClientsAside DEF SuspendCancels, Contract!Carry
      <3> QED  BY <3>4 DEF Contract!Next
    <2> QED  BY <1>21, <2>1, <2>2 DEF Power
  <1>22. ASSUME Rest PROVE [Contract!Next]_(Contract!vars)
    <2>1. UNCHANGED Contract!shape /\ UNCHANGED Contract!urbVars /\ at' = at
      BY <1>22 DEF Rest, Contract!shape, Contract!urbVars
    <2>2. CASE at = "reap"
      <3>1. (rested' /\ at' # "reap") = (rested /\ at # "reap")
        BY <2>1, <2>2
      <3> QED  BY <2>1, <3>1 DEF Contract!vars
    <2>3. CASE at # "reap"
      <3>1. Contract!Rest
        BY <1>22, <2>1, <2>3 DEF Rest, Contract!Rest
      <3> QED  BY <3>1 DEF Contract!Next
    <2> QED  BY <2>2, <2>3
  <1>23. ASSUME Gone \/ UNCHANGED vars PROVE [Contract!Next]_(Contract!vars)
    BY <1>23, ContractStutters DEF Gone, vars
  <1> QED
    BY <1>1, <1>2, <1>3, <1>4, <1>5, <1>6, <1>7, <1>8, <1>9, <1>10, <1>11,
       <1>12, <1>13, <1>14, <1>15, <1>16, <1>17, <1>18, <1>19, <1>20, <1>21,
       <1>22, <1>23, <1>24, <1>25, <1>26
       DEF Next, HolderStep, Caller, Worker

\* The driver implements the contract: whatever fails, in whatever order its
\* operations interleave, each of its steps is one that applications and the
\* device were promised, or is invisible to them.
THEOREM DriverKeepsContract == Spec => KeepsContract
  <1>1. /\ TypeOK /\ SessionInv /\ StopsFollow /\ GeometryFollows
        /\ ContractFollows /\ [Next]_vars
        => ContractFollows'
    BY ContractFollowsStep
  <1> QED
    BY InitContract, SessionInvariant, StopsInvariant, <1>1, ContractStep, PTL
       DEF Spec, KeepsContract, Contract!Spec

\* The part of the contract that the queue of URBs implements.
THEOREM DriverKeepsUrbContract == Spec => Contract!UrbSpec
  <1>1. Contract!Init => Contract!UrbInit
    BY DEF Contract!Init
  <1>2. [Contract!Next]_(Contract!vars) => [Contract!UrbNext]_(Contract!urbVars)
    BY DEF Contract!Next, Contract!vars, Contract!UrbNext, Contract!Take,
       Contract!Join, Contract!JoinResized, Contract!Quit, Contract!Retune,
       Contract!Begin, Contract!Stop, Contract!Rest, Contract!Carry
  <1> QED
    BY DriverKeepsContract, <1>1, <1>2, PTL
       DEF KeepsContract, Contract!Spec, Contract!UrbSpec

\* A live session whose URBs have failed has stream_work queued or running, or is
\* being disconnected: no cancellation, restart or second failure loses it.
THEOREM FailuresAreWatched == Spec => []Contract!Watched
  <1>1. Contract!UrbInit => Contract!Watched
    BY DEF Contract!UrbInit, Contract!Watched
  <1>2. Contract!Watched /\ [Contract!UrbNext]_(Contract!urbVars)
        => Contract!Watched'
    BY DEF Contract!Watched, Contract!Drained, Contract!UrbNext,
       Contract!urbVars, Contract!GoLive, Contract!Send,
       Contract!Fail, Contract!End, Contract!Drain, Contract!WorkBegins,
       Contract!WorkIdles, Contract!WorkEnds, Contract!Cancel, Contract!Leave
  <1> QED  BY DriverKeepsUrbContract, <1>1, <1>2, PTL DEF Contract!UrbSpec

----------------------------------------------------------------------------
\* Who is to serve or to stop a substream that runs: each step keeps it.
LEMMA ServeFollowsStep ==
    TypeOK /\ SessionInv /\ StopsFollow /\ ServeFollows /\ [Next]_vars
        => ServeFollows'
  <1> SUFFICES ASSUME TypeOK /\ SessionInv /\ StopsFollow /\ ServeFollows,
                      [Next]_vars
               PROVE  ServeFollows'
    OBVIOUS
  <1> USE DEF vars, session, users, usb, work, outside, critical, TypeOK,
     FlagTypes, DataTypes, SessionInv, FlagFollows, UsersFollow,
     OutsideFollows, StopsFollow, ServeFollows, NoStrayUrbs, Active, None,
     Free, Dirs
  <1>1. ASSUME SetInterface PROVE ServeFollows'
    BY <1>1, NegotiatingJob DEF SetInterface, Goto, SetState, Release
  <1>2. ASSUME GeometryRefused PROVE ServeFollows'
    BY <1>2, NegotiatingJob DEF GeometryRefused, SetState, Release
  <1>3. ASSUME GeometryKept PROVE ServeFollows'
    BY <1>3, NegotiatingJob DEF GeometryKept, CountUser, Release
  <1>4. ASSUME GeometryConfirmed PROVE ServeFollows'
    BY <1>4, NegotiatingJob DEF GeometryConfirmed, CountUser, SetState, Release
  <1>5. ASSUME GeometryChanged PROVE ServeFollows'
    BY <1>5, NegotiatingJob DEF GeometryChanged
  <1>6. ASSUME Resize PROVE ServeFollows'
    BY <1>6, NegotiatingJob DEF Resize, CountUser, SetState, Release
  <1>7. ASSUME StartTrigger PROVE ServeFollows'
    BY <1>7, StartingSteps DEF StartTrigger, Goto
  <1>8. ASSUME StartLive PROVE ServeFollows'
    BY <1>8, StartingSteps DEF StartLive, Goto
  <1>9. ASSUME StartSubmit PROVE ServeFollows'
    BY <1>9, StartingSteps DEF StartSubmit, Goto
  <1>10. ASSUME StartArm PROVE ServeFollows'
    BY <1>10, StartingHolder DEF StartArm, Goto, SetState, Release
  <1>11. ASSUME Kill PROVE ServeFollows'
    BY <1>11 DEF Kill, Goto
  <1>12. ASSUME Reap PROVE ServeFollows'
    BY <1>12, KillingJobs DEF Reap, Reaped, Goto, SetState, Release
  <1>13. ASSUME StopPlayback \/ StopCapture PROVE ServeFollows'
    BY <1>13, StoppingJobs DEF StopPlayback, StopCapture, SetState, Stopped,
       Goto, Release
  <1>14. ASSUME NEW d \in Dirs, NEW a \in Apps, Open(d, a) PROVE ServeFollows'
    BY <1>14 DEF Open, Calls, SetState
  <1>15. ASSUME NEW d \in Dirs, NEW p \in Params, RefuseParams(d, p) PROVE
     ServeFollows'
    BY <1>15 DEF RefuseParams, SetState, MayNegotiate, Calls
  <1>16. ASSUME NEW d \in Dirs, NEW p \in Params, HwParams(d, p) PROVE
     ServeFollows'
    BY <1>16, FreeMutex DEF HwParams, Acquire, MayNegotiate, Calls
  <1>17. ASSUME NEW d \in Dirs, Flush(d) \/ Close(d) PROVE ServeFollows'
    BY <1>17 DEF Flush, Close, SetState
  <1>18. ASSUME NEW d \in Dirs, HwFree(d) PROVE ServeFollows'
    BY <1>18, FreeMutex DEF HwFree, Acquire, SetState, MayFree, Calls
  <1>19. ASSUME NEW d \in Dirs, Prepare(d) PROVE ServeFollows'
    BY <1>19 DEF Prepare, SetState
  <1>20. ASSUME NEW d \in Dirs, PrepareStarts(d) PROVE ServeFollows'
    BY <1>20, FreeMutex DEF PrepareStarts, Acquire, MayPrepare, Calls
  <1>21. ASSUME NEW d \in Dirs, Start(d) \/ StartDone(d) \/ Drop(d) \/ Xrun(d)
     PROVE ServeFollows'
    BY <1>21 DEF Start, StartDone, Drop, Xrun, SetState
  <1>22. ASSUME UrbsFail PROVE ServeFollows'
    BY <1>22, WorkHolder DEF UrbsFail
  <1>23. ASSUME WorkBegins PROVE ServeFollows'
    BY <1>23 DEF WorkBegins
  <1>24. ASSUME StreamWork PROVE ServeFollows'
    BY <1>24, FreeMutex DEF StreamWork, Acquire
  <1>25. ASSUME Disconnect PROVE ServeFollows'
    BY <1>25 DEF Disconnect
  <1>26. ASSUME DisconnectKills PROVE ServeFollows'
    BY <1>26, FreeMutex DEF DisconnectKills, Acquire
  <1>27. ASSUME DisconnectCancels PROVE ServeFollows'
    BY <1>27 DEF DisconnectCancels
  <1>28. ASSUME NEW d \in Dirs, DisconnectStops(d) PROVE ServeFollows'
    BY <1>28 DEF DisconnectStops, SetState, Stopped
  <1>29. ASSUME CardDisconnects PROVE ServeFollows'
    BY <1>29 DEF CardDisconnects
  <1>30. ASSUME Suspend PROVE ServeFollows'
    BY <1>30 DEF Suspend
  <1>31. ASSUME SuspendKills PROVE ServeFollows'
    BY <1>31, FreeMutex DEF SuspendKills, Acquire
  <1>32. ASSUME SuspendCancels \/ Resume PROVE ServeFollows'
    BY <1>32 DEF SuspendCancels, Resume
  <1>33. ASSUME Rest \/ Gone \/ UNCHANGED vars PROVE ServeFollows'
    BY <1>33 DEF Rest, Gone
  <1> HIDE DEF vars, session, users, usb, work, outside, critical, TypeOK,
     FlagTypes, DataTypes, SessionInv, FlagFollows, UsersFollow,
     OutsideFollows, StopsFollow, ServeFollows, NoStrayUrbs, Active, None,
     Free, Dirs
  <1> QED
    BY <1>1, <1>2, <1>3, <1>4, <1>5, <1>6, <1>7, <1>8, <1>9, <1>10, <1>11,
       <1>12, <1>13, <1>14, <1>15, <1>16, <1>17, <1>18, <1>19, <1>20, <1>21,
       <1>22, <1>23, <1>24, <1>25, <1>26, <1>27, <1>28, <1>29, <1>30, <1>31,
       <1>32, <1>33
       DEF Next, HolderStep, Caller, Worker, Unplug, Power

LEMMA InitServe == Init => ServeFollows /\ GeometryInRange
  <1>1. FramesPerUrb \in Nat \ {0} /\ NUrbs \in 2..NUrbs
    BY GeometryAssumption
  <1> QED  BY <1>1 DEF Init, ServeFollows, GeometryInRange, Active, None

\* The URBs that hw_params chooses are some frames, and a queue of them.
LEMMA NewGeometryInRange ==
    Negotiates => NewUrb \in Nat \ {0} /\ NewCount \in 2..NUrbs
  <1> SUFFICES ASSUME Negotiates PROVE NewUrb \in Nat \ {0} /\ NewCount \in 2..NUrbs
    OBVIOUS
  <1> QED  BY ParamsAreFrames, CountIsNat, GeometryAssumption
           DEF Negotiates, NewUrb, NewCount, UrbCount, Clamp

\* Only a resize changes the geometry.
LEMMA GeometryInRangeStep ==
    TypeOK /\ SessionInv /\ GeometryInRange /\ [Next]_vars => GeometryInRange'
  <1> SUFFICES ASSUME TypeOK /\ SessionInv /\ GeometryInRange, [Next]_vars
               PROVE  GeometryInRange'
    OBVIOUS
  <1>1. ASSUME Resize PROVE GeometryInRange'
    BY <1>1, NegotiatingJob, NewGeometryInRange
       DEF Resize, SessionInv, GeometryInRange
  <1>2. ASSUME UNCHANGED <<urb_frames, urbs_active>> PROVE GeometryInRange'
    BY <1>2 DEF GeometryInRange
  <1>3. Resize \/ UNCHANGED <<urb_frames, urbs_active>>
    BY DEF Next, HolderStep, Caller, Worker, Unplug, Power, vars, session,
       SetInterface, GeometryRefused, GeometryKept, GeometryConfirmed,
       GeometryChanged, StartTrigger, StartLive, StartSubmit, StartArm, Kill,
       Reap, StopPlayback, StopCapture, Open, RefuseParams, HwParams, Flush,
       Close, HwFree, Prepare, PrepareStarts, Start, StartDone, Drop, Xrun,
       UrbsFail, WorkBegins, StreamWork, Disconnect, DisconnectKills,
       DisconnectCancels, DisconnectStops, CardDisconnects, Suspend,
       SuspendKills, SuspendCancels, Resume, Rest, Gone
  <1> QED  BY <1>1, <1>2, <1>3

LEMMA ServeInvariant == Spec => [](ServeFollows /\ GeometryInRange)
  <1>1. /\ TypeOK /\ SessionInv /\ StopsFollow
        /\ ServeFollows /\ GeometryInRange /\ [Next]_vars
        => (ServeFollows /\ GeometryInRange)'
    BY ServeFollowsStep, GeometryInRangeStep
  <1> QED  BY InitServe, SessionInvariant, StopsInvariant, <1>1, PTL DEF Spec

\* No application is left running on a session without URBs in flight but on the
\* way to their submission or to its own stop: with the fairness of the kernel,
\* what BlockedWakes promises.
THEOREM RunningIsAlwaysServed ==
    ASSUME NoLateFailure
    PROVE  Spec => []RunningIsServed
  <1>1. TypeOK /\ SessionInv /\ QuietInv /\ StopsFollow /\ ServeFollows
        => RunningIsServed
    <2> SUFFICES ASSUME TypeOK, SessionInv, QuietInv, StopsFollow, ServeFollows,
                        NEW d \in Dirs, pcm[d] = "RUNNING", ~urbs,
                        at # "submit", ~StopAhead(d), ~UnplugAhead(d)
                 PROVE  FALSE
      BY DEF RunningIsServed
    <2>1. ~streaming /\ Active(d)
      BY DEF TypeOK, FlagTypes, ServeFollows, Active
    <2>2. CASE holder = Free
      <3>1. disc \in {"present", "flagged"}
        BY <2>1 DEF TypeOK, DataTypes, UnplugAhead, ServeFollows, SessionInv,
           OutsideFollows, Dirs
      <3> QED  BY <2>1, <2>2, <3>1 DEF QuietInv, IdleIsQuiet
    <2>3. CASE holder # Free
      <3>1. /\ job = "start" \/ at \notin {"kill", "reap"}
            /\ at \notin {"submit", "arm", "stop_playback"}
            /\ at = "stop_capture" => d = "playback"
        BY <2>1 DEF ServeFollows, SessionInv, FlagFollows, StopAhead, Dirs
      <3> QED  BY <2>1, <2>3, <3>1
               DEF SessionInv, LockDiscipline, QuietInv, IdleIsQuiet, None
    <2> QED  BY <2>2, <2>3
  <1> QED
    BY SessionInvariant, QuietInvariant, StopsInvariant, ServeInvariant, <1>1,
       PTL

\* Half of a queue that spans half a period's worth of URBs, doubled.
LEMMA QueueSpans ==
    ASSUME NEW u \in Nat, NEW n \in Nat, NEW p \in Nat,
           p >= BfSessionPeriod(u, n)
    PROVE  u * n <= 2 * p
  <1>1. n <= 2 * DivRoundUp(n, 2) /\ DivRoundUp(n, 2) \in Nat
    BY DEF DivRoundUp
  <1>2. u * n <= u * (2 * DivRoundUp(n, 2))
    BY <1>1
  <1>3. u * (2 * DivRoundUp(n, 2)) = 2 * (u * DivRoundUp(n, 2))
    BY <1>1
  <1> QED  BY <1>1, <1>2, <1>3 DEF BfSessionPeriod

\* The ring of a running substream is one that PcmRing assumes: what is proved
\* there of one substream holds in a session that two share.
THEOREM RingsAreFed ==
    ASSUME NoLateFailure
    PROVE  Spec => []RingIsFed
  <1>1. TypeOK /\ GeometryInRange /\ RunningFits => RingIsFed
    <2> SUFFICES ASSUME TypeOK, GeometryInRange, RunningFits,
                        NEW d \in Dirs, pcm[d] = "RUNNING"
                 PROVE  /\ urb_frames \in 1..rt[d].period
                        /\ urb_frames * urbs_active <= 2 * rt[d].period
      BY DEF RingIsFed
    <2>1. /\ urb_frames \in Nat \ {0} /\ urbs_active \in Nat
          /\ urbs_active >= 2
      BY GeometryAssumption DEF GeometryInRange
    <2>2. rt[d].period \in Nat
      <3>1. rt[d] \in Params \/ rt[d] = NoParams
        BY DEF TypeOK, DataTypes
      <3> QED  BY <3>1, ParamsAreFrames DEF NoParams
    <2>3. rt[d].period >= BfSessionPeriod(urb_frames, urbs_active)
      BY DEF RunningFits, Fits, SessionPeriod
    <2>4. DivRoundUp(urbs_active, 2) \in Nat \ {0}
      BY <2>1 DEF DivRoundUp
    <2>5. urb_frames <= BfSessionPeriod(urb_frames, urbs_active)
      BY <2>1, <2>4 DEF BfSessionPeriod
    <2>6. BfSessionPeriod(urb_frames, urbs_active) \in Nat
      BY <2>1, <2>4 DEF BfSessionPeriod
    <2> QED  BY <2>1, <2>2, <2>3, <2>5, <2>6, QueueSpans
  <1> QED
    BY SessionInvariant, RunningFitsSession, ServeInvariant, <1>1, PTL
=============================================================================
