--------------------------- MODULE UrbQueue_proofs ---------------------------
(***************************************************************************)
(* The safety of the URB queue, proved for every number of URBs in each    *)
(* direction, every error limit and every choice of failures: QueueInv is  *)
(* inductive.  The run checks one URB of each direction.                   *)
(***************************************************************************)
EXTENDS UrbQueue, FiniteSetTheorems, TLAPS

\* The OUT URBs that are in the queue or will return to it.
Counted == {u \in OutUrbs : \/ holder = "start" /\ u \in todo
                            \/ ust[u] \notin {"idle", "broken", "schedule"}}

LEMMA CountedIsFinite == IsFiniteSet(Counted) /\ Cardinality(Counted) \in Nat
  <1>1. Counted \subseteq OutUrbs
    BY DEF Counted
  <1> QED  BY <1>1, QueueAssumption, FS_Subset, FS_CardinalityType

LEMMA OutUrbsCount == Cardinality(OutUrbs) \in Nat
  BY QueueAssumption, FS_CardinalityType

\* One URB leaves the queue, and is discounted.
LEMMA OneLess ==
    ASSUME InflightIsExact, streaming, NEW u \in Counted,
           Counted' = Counted \ {u}, Lost(u)
    PROVE  out_inflight' = Cardinality(Counted')
  <1>1. Cardinality(Counted \ {u}) = Cardinality(Counted) - 1
    BY CountedIsFinite, FS_RemoveElement
  <1>2. out_inflight = Cardinality(Counted) /\ u \in OutUrbs
    BY DEF InflightIsExact, Counted
  <1>3. Cardinality(Counted \ {u}) \in Nat
    BY CountedIsFinite, FS_RemoveElement, FS_CardinalityType
  <1> QED  BY <1>1, <1>2, <1>3, CountedIsFinite DEF Lost

\* Types.
LEMMA QueueShapeStep ==
    QueueShape /\ [Next]_vars => QueueShape'
  <1> SUFFICES ASSUME QueueShape, [Next]_vars PROVE QueueShape'
    OBVIOUS
  <1> USE DEF vars, handler, counts, pcms, mutex, work, QueueShape, UrbStates,
     Killers, Dirs
  <1>1. ASSUME NEW u \in Urbs, Complete(u) PROVE QueueShape'
    BY <1>1 DEF Complete, Goto, At, Lost
  <1>2. ASSUME NEW u \in Urbs, CountError(u) PROVE QueueShape'
    BY <1>2, QueueAssumption DEF CountError, Goto, At, Lost
  <1>3. ASSUME NEW u \in Urbs, ReadErrors(u) PROVE QueueShape'
    BY <1>3 DEF ReadErrors, Goto, At, Lost
  <1>4. ASSUME NEW u \in Urbs, ClearErrors(u) PROVE QueueShape'
    BY <1>4 DEF ClearErrors, Goto, At, Lost
  <1>5. ASSUME NEW u \in Urbs, Dereference(u) PROVE QueueShape'
    BY <1>5 DEF Dereference, Goto, At, Lost
  <1>6. ASSUME NEW u \in Urbs, Copy(u) PROVE QueueShape'
    BY <1>6 DEF Copy, Goto, At, Lost
  <1>7. ASSUME NEW u \in Urbs, TestStreaming(u) PROVE QueueShape'
    BY <1>7 DEF TestStreaming, Goto, At, Lost
  <1>8. ASSUME NEW u \in Urbs, Resubmit(u) PROVE QueueShape'
    BY <1>8 DEF Resubmit, Goto, At, Lost
  <1>9. ASSUME NEW u \in Urbs, FailResubmit(u) PROVE QueueShape'
    BY <1>9, QueueAssumption DEF FailResubmit, Goto, At, Lost
  <1>10. ASSUME NEW u \in Urbs, Schedule(u) PROVE QueueShape'
    BY <1>10 DEF Schedule, Goto, At, Lost
  <1>11. ASSUME Start PROVE QueueShape'
    BY <1>11, OutUrbsCount DEF Start, Lost
  <1>12. ASSUME NEW u \in Urbs, StartSubmits(u) PROVE QueueShape'
    BY <1>12 DEF StartSubmits, Goto, At, Lost
  <1>13. ASSUME Kill PROVE QueueShape'
    BY <1>13 DEF Kill, Lost
  <1>14. ASSUME NEW u \in Urbs, KillBegins(u) PROVE QueueShape'
    BY <1>14 DEF KillBegins, At, Lost
  <1>15. ASSUME NEW u \in Urbs, KillEnds(u) PROVE QueueShape'
    BY <1>15 DEF KillEnds, At, Lost
  <1>16. ASSUME WorkBegins PROVE QueueShape'
    BY <1>16 DEF WorkBegins, Lost
  <1>17. ASSUME StreamWork PROVE QueueShape'
    BY <1>17 DEF StreamWork, Lost
  <1>18. ASSUME WorkEnds PROVE QueueShape'
    BY <1>18 DEF WorkEnds, Lost
  <1>19. ASSUME NEW d \in Dirs, Run(d) \/ Halt(d) PROVE QueueShape'
    <2>1. CASE Run(d)
      BY <2>1 DEF Run
    <2>2. CASE Halt(d)
      BY <2>2 DEF Halt
    <2> QED  BY <1>19, <2>1, <2>2
  <1>20. ASSUME NEW d \in Dirs, Detach(d) \/ Free(d) \/ Reopen(d) PROVE
     QueueShape'
    BY <1>20 DEF Detach, Free, Reopen, Lost
  <1>21. ASSUME UNCHANGED vars PROVE QueueShape'
    BY <1>21
  <1> HIDE DEF vars, handler, counts, pcms, mutex, work, QueueShape, UrbStates,
     Killers, Dirs
  <1> QED
    BY <1>1, <1>2, <1>3, <1>4, <1>5, <1>6, <1>7, <1>8, <1>9, <1>10, <1>11,
       <1>12, <1>13, <1>14, <1>15, <1>16, <1>17, <1>18, <1>19, <1>20, <1>21
       DEF Next, Handler, Session, Worker

\* Starts and kills: where the URBs and the flag are meanwhile.
LEMMA PhasesFollowStep ==
    QueueShape /\ PhasesFollow /\ [Next]_vars => PhasesFollow'
  <1> SUFFICES ASSUME QueueShape /\ PhasesFollow, [Next]_vars PROVE PhasesFollow'
    OBVIOUS
  <1> USE DEF vars, handler, counts, pcms, mutex, work, QueueShape,
     PhasesFollow, Killers, At, Urbs
  <1>1. ASSUME NEW u \in Urbs, Complete(u) PROVE PhasesFollow'
    BY <1>1 DEF Complete, Goto, At
  <1>2. ASSUME NEW u \in Urbs, CountError(u) PROVE PhasesFollow'
    BY <1>2 DEF CountError, Goto, At
  <1>3. ASSUME NEW u \in Urbs, ReadErrors(u) PROVE PhasesFollow'
    BY <1>3 DEF ReadErrors, Goto, At
  <1>4. ASSUME NEW u \in Urbs, ClearErrors(u) PROVE PhasesFollow'
    BY <1>4 DEF ClearErrors, Goto, At
  <1>5. ASSUME NEW u \in Urbs, Dereference(u) PROVE PhasesFollow'
    BY <1>5 DEF Dereference, Goto, At
  <1>6. ASSUME NEW u \in Urbs, Copy(u) PROVE PhasesFollow'
    BY <1>6 DEF Copy, Goto, At
  <1>7. ASSUME NEW u \in Urbs, TestStreaming(u) PROVE PhasesFollow'
    BY <1>7 DEF TestStreaming, Goto, At
  <1>8. ASSUME NEW u \in Urbs, Resubmit(u) PROVE PhasesFollow'
    BY <1>8 DEF Resubmit, Goto, At
  <1>9. ASSUME NEW u \in Urbs, FailResubmit(u) PROVE PhasesFollow'
    BY <1>9 DEF FailResubmit, Goto, At
  <1>10. ASSUME NEW u \in Urbs, Schedule(u) PROVE PhasesFollow'
    BY <1>10 DEF Schedule, Goto, At
  <1>11. ASSUME Start PROVE PhasesFollow'
    BY <1>11 DEF Start
  <1>12. ASSUME NEW u \in Urbs, StartSubmits(u) PROVE PhasesFollow'
    <2>1. CASE streaming' = FALSE /\ todo' = Urbs /\ holder' = "abort" /\ UNCHANGED ust
      BY <1>12, <2>1 DEF StartSubmits
    <2>2. CASE /\ ust' = [ust EXCEPT ![u] = "flight"] /\ todo' = todo \ {u}
               /\ UNCHANGED streaming
      <3>1. CASE todo = {u}
        BY <1>12, <2>2, <3>1 DEF StartSubmits
      <3>2. CASE todo # {u}
        BY <1>12, <2>2, <3>2 DEF StartSubmits
      <3> QED  BY <3>1, <3>2
    <2> QED  BY <1>12, <2>1, <2>2 DEF StartSubmits, Goto
  <1>13. ASSUME Kill PROVE PhasesFollow'
    BY <1>13 DEF Kill
  <1>14. ASSUME NEW u \in Urbs, KillBegins(u) PROVE PhasesFollow'
    BY <1>14, QueueAssumption DEF KillBegins, At
  <1>15. ASSUME NEW u \in Urbs, KillEnds(u) PROVE PhasesFollow'
    BY <1>15, QueueAssumption DEF KillEnds, At
  <1>16. ASSUME WorkBegins PROVE PhasesFollow'
    BY <1>16 DEF WorkBegins
  <1>17. ASSUME StreamWork PROVE PhasesFollow'
    BY <1>17 DEF StreamWork
  <1>18. ASSUME WorkEnds PROVE PhasesFollow'
    BY <1>18 DEF WorkEnds
  <1>19. ASSUME NEW d \in Dirs, Run(d) \/ Halt(d) PROVE PhasesFollow'
    BY <1>19 DEF Run, Halt
  <1>20. ASSUME NEW d \in Dirs, Detach(d) \/ Free(d) \/ Reopen(d) PROVE
     PhasesFollow'
    BY <1>20 DEF Detach, Free, Reopen
  <1>21. ASSUME UNCHANGED vars PROVE PhasesFollow'
    BY <1>21
  <1> HIDE DEF vars, handler, counts, pcms, mutex, work, QueueShape,
     PhasesFollow, Killers, At, Urbs
  <1> QED
    BY <1>1, <1>2, <1>3, <1>4, <1>5, <1>6, <1>7, <1>8, <1>9, <1>10, <1>11,
       <1>12, <1>13, <1>14, <1>15, <1>16, <1>17, <1>18, <1>19, <1>20, <1>21
       DEF Next, Handler, Session, Worker

\* The URB that the start submits next is with the driver.
LEMMA StartIsIdle ==
    PhasesFollow /\ holder = "start" => \A u \in todo : ust[u] = "idle"
  BY DEF PhasesFollow, At

LEMMA DirOfUrb == \A u : Dir(u) \in Dirs
  BY DEF Dir, Dirs

\* What the OUT buffers carry.
LEMMA BufferFollowsStep ==
    QueueShape /\ PhasesFollow /\ BufferFollows /\ [Next]_vars => BufferFollows'
  <1> SUFFICES ASSUME QueueShape /\ PhasesFollow /\ BufferFollows, [Next]_vars PROVE BufferFollows'
    OBVIOUS
  <1> USE DEF vars, handler, counts, pcms, mutex, work, QueueShape,
     BufferFollows, Urbs
  <1>1. ASSUME NEW u \in Urbs, Complete(u) PROVE BufferFollows'
    BY <1>1 DEF Complete, Goto, At
  <1>2. ASSUME NEW u \in Urbs, CountError(u) PROVE BufferFollows'
    BY <1>2 DEF CountError, Goto, At
  <1>3. ASSUME NEW u \in Urbs, ReadErrors(u) PROVE BufferFollows'
    BY <1>3 DEF ReadErrors, Goto, At
  <1>4. ASSUME NEW u \in Urbs, ClearErrors(u) PROVE BufferFollows'
    BY <1>4 DEF ClearErrors, Goto, At
  <1>5. ASSUME NEW u \in Urbs, Dereference(u) PROVE BufferFollows'
    BY <1>5 DEF Dereference, Goto, At
  <1>6. ASSUME NEW u \in Urbs, Copy(u) PROVE BufferFollows'
    BY <1>6 DEF Copy, Goto, At
  <1>7. ASSUME NEW u \in Urbs, TestStreaming(u) PROVE BufferFollows'
    BY <1>7 DEF TestStreaming, Goto, At
  <1>8. ASSUME NEW u \in Urbs, Resubmit(u) PROVE BufferFollows'
    BY <1>8 DEF Resubmit, Goto, At
  <1>9. ASSUME NEW u \in Urbs, FailResubmit(u) PROVE BufferFollows'
    BY <1>9 DEF FailResubmit, Goto, At
  <1>10. ASSUME NEW u \in Urbs, Schedule(u) PROVE BufferFollows'
    BY <1>10 DEF Schedule, Goto, At
  <1>11. ASSUME Start PROVE BufferFollows'
    BY <1>11 DEF Start
  <1>12. ASSUME NEW u \in Urbs, StartSubmits(u) PROVE BufferFollows'
    BY <1>12, StartIsIdle DEF StartSubmits, Goto, At
  <1>13. ASSUME Kill PROVE BufferFollows'
    BY <1>13 DEF Kill
  <1>14. ASSUME NEW u \in Urbs, KillBegins(u) PROVE BufferFollows'
    BY <1>14 DEF KillBegins, At
  <1>15. ASSUME NEW u \in Urbs, KillEnds(u) PROVE BufferFollows'
    BY <1>15 DEF KillEnds, At
  <1>16. ASSUME WorkBegins PROVE BufferFollows'
    BY <1>16 DEF WorkBegins
  <1>17. ASSUME StreamWork PROVE BufferFollows'
    BY <1>17 DEF StreamWork
  <1>18. ASSUME WorkEnds PROVE BufferFollows'
    BY <1>18 DEF WorkEnds
  <1>19. ASSUME NEW d \in Dirs, Run(d) \/ Halt(d) PROVE BufferFollows'
    BY <1>19 DEF Run, Halt
  <1>20. ASSUME NEW d \in Dirs, Detach(d) \/ Free(d) \/ Reopen(d) PROVE
     BufferFollows'
    BY <1>20 DEF Detach, Free, Reopen
  <1>21. ASSUME UNCHANGED vars PROVE BufferFollows'
    BY <1>21
  <1> HIDE DEF vars, handler, counts, pcms, mutex, work, QueueShape,
     BufferFollows, Urbs
  <1> QED
    BY <1>1, <1>2, <1>3, <1>4, <1>5, <1>6, <1>7, <1>8, <1>9, <1>10, <1>11,
       <1>12, <1>13, <1>14, <1>15, <1>16, <1>17, <1>18, <1>19, <1>20, <1>21
       DEF Next, Handler, Session, Worker

\* close() and the handlers.
LEMMA NoUseAfterCloseStep ==
    QueueShape /\ NoUseAfterClose /\ [Next]_vars => NoUseAfterClose'
  <1> SUFFICES ASSUME QueueShape /\ NoUseAfterClose, [Next]_vars PROVE NoUseAfterClose'
    OBVIOUS
  <1> USE DEF vars, handler, counts, pcms, mutex, work, QueueShape,
     NoUseAfterClose, Dirs
  <1>1. ASSUME NEW u \in Urbs, Complete(u) PROVE NoUseAfterClose'
    BY <1>1 DEF Complete, Goto, At
  <1>2. ASSUME NEW u \in Urbs, CountError(u) PROVE NoUseAfterClose'
    BY <1>2 DEF CountError, Goto, At
  <1>3. ASSUME NEW u \in Urbs, ReadErrors(u) PROVE NoUseAfterClose'
    BY <1>3 DEF ReadErrors, Goto, At
  <1>4. ASSUME NEW u \in Urbs, ClearErrors(u) PROVE NoUseAfterClose'
    BY <1>4 DEF ClearErrors, Goto, At
  <1>5. ASSUME NEW u \in Urbs, Dereference(u) PROVE NoUseAfterClose'
    BY <1>5, DirOfUrb DEF Dereference, Goto, At
  <1>6. ASSUME NEW u \in Urbs, Copy(u) PROVE NoUseAfterClose'
    BY <1>6 DEF Copy, Goto, At
  <1>7. ASSUME NEW u \in Urbs, TestStreaming(u) PROVE NoUseAfterClose'
    BY <1>7 DEF TestStreaming, Goto, At
  <1>8. ASSUME NEW u \in Urbs, Resubmit(u) PROVE NoUseAfterClose'
    BY <1>8 DEF Resubmit, Goto, At
  <1>9. ASSUME NEW u \in Urbs, FailResubmit(u) PROVE NoUseAfterClose'
    BY <1>9 DEF FailResubmit, Goto, At
  <1>10. ASSUME NEW u \in Urbs, Schedule(u) PROVE NoUseAfterClose'
    BY <1>10 DEF Schedule, Goto, At
  <1>11. ASSUME Start PROVE NoUseAfterClose'
    BY <1>11 DEF Start
  <1>12. ASSUME NEW u \in Urbs, StartSubmits(u) PROVE NoUseAfterClose'
    BY <1>12 DEF StartSubmits, Goto, At
  <1>13. ASSUME Kill PROVE NoUseAfterClose'
    BY <1>13 DEF Kill
  <1>14. ASSUME NEW u \in Urbs, KillBegins(u) PROVE NoUseAfterClose'
    BY <1>14 DEF KillBegins, At
  <1>15. ASSUME NEW u \in Urbs, KillEnds(u) PROVE NoUseAfterClose'
    BY <1>15 DEF KillEnds, At
  <1>16. ASSUME WorkBegins PROVE NoUseAfterClose'
    BY <1>16 DEF WorkBegins
  <1>17. ASSUME StreamWork PROVE NoUseAfterClose'
    BY <1>17 DEF StreamWork
  <1>18. ASSUME WorkEnds PROVE NoUseAfterClose'
    BY <1>18 DEF WorkEnds
  <1>19. ASSUME NEW d \in Dirs, Run(d) \/ Halt(d) PROVE NoUseAfterClose'
    BY <1>19 DEF Run, Halt
  <1>20. ASSUME NEW d \in Dirs, Detach(d) \/ Free(d) \/ Reopen(d) PROVE
     NoUseAfterClose'
    BY <1>20, DirOfUrb DEF Detach, Free, Reopen
  <1>21. ASSUME UNCHANGED vars PROVE NoUseAfterClose'
    BY <1>21
  <1> HIDE DEF vars, handler, counts, pcms, mutex, work, QueueShape,
     NoUseAfterClose, Dirs
  <1> QED
    BY <1>1, <1>2, <1>3, <1>4, <1>5, <1>6, <1>7, <1>8, <1>9, <1>10, <1>11,
       <1>12, <1>13, <1>14, <1>15, <1>16, <1>17, <1>18, <1>19, <1>20, <1>21
       DEF Next, Handler, Session, Worker

\* The error count at its limit, and the work.
LEMMA LimitHoldsStep ==
    QueueShape /\ PhasesFollow /\ LimitHolds /\ [Next]_vars => LimitHolds'
  <1> SUFFICES ASSUME QueueShape /\ PhasesFollow /\ LimitHolds, [Next]_vars PROVE LimitHolds'
    OBVIOUS
  <1> USE DEF vars, handler, counts, pcms, mutex, work, QueueShape,
     PhasesFollow, LimitHolds, Missing, Killers, At
  <1>1. ASSUME NEW u \in Urbs, Complete(u) PROVE LimitHolds'
    BY <1>1 DEF Complete, Goto, At
  <1>2. ASSUME NEW u \in Urbs, CountError(u) PROVE LimitHolds'
    BY <1>2, QueueAssumption DEF CountError, Goto, At
  <1>3. ASSUME NEW u \in Urbs, ReadErrors(u) PROVE LimitHolds'
    BY <1>3 DEF ReadErrors, Goto, At
  <1>4. ASSUME NEW u \in Urbs, ClearErrors(u) PROVE LimitHolds'
    BY <1>4 DEF ClearErrors, Goto, At
  <1>5. ASSUME NEW u \in Urbs, Dereference(u) PROVE LimitHolds'
    BY <1>5 DEF Dereference, Goto, At
  <1>6. ASSUME NEW u \in Urbs, Copy(u) PROVE LimitHolds'
    BY <1>6 DEF Copy, Goto, At
  <1>7. ASSUME NEW u \in Urbs, TestStreaming(u) PROVE LimitHolds'
    BY <1>7 DEF TestStreaming, Goto, At
  <1>8. ASSUME NEW u \in Urbs, Resubmit(u) PROVE LimitHolds'
    BY <1>8 DEF Resubmit, Goto, At
  <1>9. ASSUME NEW u \in Urbs, FailResubmit(u) PROVE LimitHolds'
    BY <1>9, QueueAssumption DEF FailResubmit, Goto, At
  <1>10. ASSUME NEW u \in Urbs, Schedule(u) PROVE LimitHolds'
    BY <1>10 DEF Schedule, Goto, At
  <1>11. ASSUME Start PROVE LimitHolds'
    BY <1>11 DEF Start
  <1>12. ASSUME NEW u \in Urbs, StartSubmits(u) PROVE LimitHolds'
    <2>1. CASE streaming' = FALSE /\ todo' = Urbs /\ holder' = "abort" /\ UNCHANGED ust
      BY <1>12, <2>1 DEF StartSubmits
    <2>2. CASE /\ ust' = [ust EXCEPT ![u] = "flight"] /\ todo' = todo \ {u}
               /\ UNCHANGED streaming
      <3>1. CASE todo = {u}
        BY <1>12, <2>2, <3>1 DEF StartSubmits
      <3>2. CASE todo # {u}
        BY <1>12, <2>2, <3>2 DEF StartSubmits
      <3> QED  BY <3>1, <3>2
    <2> QED  BY <1>12, <2>1, <2>2 DEF StartSubmits, Goto
  <1>13. ASSUME Kill PROVE LimitHolds'
    BY <1>13 DEF Kill
  <1>14. ASSUME NEW u \in Urbs, KillBegins(u) PROVE LimitHolds'
    BY <1>14 DEF KillBegins, At
  <1>15. ASSUME NEW u \in Urbs, KillEnds(u) PROVE LimitHolds'
    <2>1. ~streaming'
      BY <1>15, QueueAssumption DEF KillEnds, Urbs
    <2> QED  BY <2>1
  <1>16. ASSUME WorkBegins PROVE LimitHolds'
    BY <1>16 DEF WorkBegins
  <1>17. ASSUME StreamWork PROVE LimitHolds'
    BY <1>17 DEF StreamWork
  <1>18. ASSUME WorkEnds PROVE LimitHolds'
    BY <1>18 DEF WorkEnds
  <1>19. ASSUME NEW d \in Dirs, Run(d) \/ Halt(d) PROVE LimitHolds'
    BY <1>19 DEF Run, Halt
  <1>20. ASSUME NEW d \in Dirs, Detach(d) \/ Free(d) \/ Reopen(d) PROVE
     LimitHolds'
    BY <1>20 DEF Detach, Free, Reopen
  <1>21. ASSUME UNCHANGED vars PROVE LimitHolds'
    BY <1>21
  <1> HIDE DEF vars, handler, counts, pcms, mutex, work, QueueShape,
     PhasesFollow, LimitHolds, Missing, Killers, At
  <1> QED
    BY <1>1, <1>2, <1>3, <1>4, <1>5, <1>6, <1>7, <1>8, <1>9, <1>10, <1>11,
       <1>12, <1>13, <1>14, <1>15, <1>16, <1>17, <1>18, <1>19, <1>20, <1>21
       DEF Next, Handler, Session, Worker

\* The property, in terms of the set.
LEMMA Rephrased ==
    /\ InflightIsExact <=> (streaming => out_inflight = Cardinality(Counted))
    /\ InflightIsExact' <=> (streaming' => out_inflight' = Cardinality(Counted'))
  BY DEF InflightIsExact, Counted

\* out_inflight through every handler, start and kill.
LEMMA InflightIsExactStep ==
    QueueShape /\ PhasesFollow /\ InflightIsExact /\ [Next]_vars => InflightIsExact'
  <1> SUFFICES ASSUME QueueShape /\ PhasesFollow /\ InflightIsExact, [Next]_vars PROVE InflightIsExact'
    OBVIOUS
  <1> USE DEF vars, handler, counts, pcms, mutex, work, QueueShape,
     PhasesFollow, Killers, At, Urbs
  <1>1. ASSUME NEW u \in Urbs, Complete(u) PROVE InflightIsExact'
    <2>1. Counted' = Counted
      BY <1>1 DEF Counted, Complete, Goto, At
    <2> QED  BY <1>1, <2>1, Rephrased DEF Complete, Goto, At
  <1>2. ASSUME NEW u \in Urbs, CountError(u) PROVE InflightIsExact'
    <2>1. Counted' = Counted
      BY <1>2 DEF Counted, CountError, Goto, At
    <2> QED  BY <1>2, <2>1, Rephrased DEF CountError, Goto, At
  <1>3. ASSUME NEW u \in Urbs, ReadErrors(u) PROVE InflightIsExact'
    <2>1. Counted' = Counted
      BY <1>3 DEF Counted, ReadErrors, Goto, At
    <2> QED  BY <1>3, <2>1, Rephrased DEF ReadErrors, Goto, At
  <1>4. ASSUME NEW u \in Urbs, ClearErrors(u) PROVE InflightIsExact'
    <2>1. Counted' = Counted
      BY <1>4 DEF Counted, ClearErrors, Goto, At
    <2> QED  BY <1>4, <2>1, Rephrased DEF ClearErrors, Goto, At
  <1>5. ASSUME NEW u \in Urbs, Dereference(u) PROVE InflightIsExact'
    <2>1. Counted' = Counted
      BY <1>5 DEF Counted, Dereference, Goto, At
    <2> QED  BY <1>5, <2>1, Rephrased DEF Dereference, Goto, At
  <1>6. ASSUME NEW u \in Urbs, Copy(u) PROVE InflightIsExact'
    <2>1. Counted' = Counted
      BY <1>6 DEF Counted, Copy, Goto, At
    <2> QED  BY <1>6, <2>1, Rephrased DEF Copy, Goto, At
  <1>7. ASSUME NEW u \in Urbs, TestStreaming(u) PROVE InflightIsExact'
    <2>1. CASE streaming
      <3>1. Counted' = Counted
        BY <1>7, <2>1 DEF Counted, TestStreaming, Goto, At
      <3> QED  BY <1>7, <3>1, Rephrased DEF TestStreaming
    <2>2. CASE ~streaming
      BY <1>7, <2>2, Rephrased DEF TestStreaming
    <2> QED  BY <2>1, <2>2
  <1>8. ASSUME NEW u \in Urbs, Resubmit(u) PROVE InflightIsExact'
    <2>1. CASE ~streaming
      BY <1>8, <2>1, Rephrased DEF Resubmit
    <2>2. CASE streaming /\ u \in OutUrbs /\ ust' = [ust EXCEPT ![u] = "broken"]
                        /\ Lost(u)
      <3>1. holder = "start" => u \notin todo
        BY <1>8 DEF Resubmit, At
      <3>2. u \in Counted /\ Counted' = Counted \ {u}
        BY <1>8, <2>2, <3>1 DEF Counted, Resubmit, At
      <3> QED  BY <2>2, <3>2, OneLess, Rephrased
    <2>3. CASE streaming /\ (u \notin OutUrbs \/ ust' = [ust EXCEPT ![u] = "flight"])
      <3>1. Counted' = Counted
        BY <1>8, <2>3 DEF Counted, Resubmit, Goto, At
      <3>2. out_inflight' = out_inflight
        BY <1>8, <2>3 DEF Resubmit, Lost, Goto, At
      <3> QED  BY <1>8, <3>1, <3>2, Rephrased DEF Resubmit
    <2> QED  BY <1>8, <2>1, <2>2, <2>3 DEF Resubmit, Goto
  <1>9. ASSUME NEW u \in Urbs, FailResubmit(u) PROVE InflightIsExact'
    <2>1. Counted' = Counted
      BY <1>9 DEF Counted, FailResubmit, Goto, At
    <2> QED  BY <1>9, <2>1, Rephrased DEF FailResubmit, Goto, At
  <1>10. ASSUME NEW u \in Urbs, Schedule(u) PROVE InflightIsExact'
    <2>1. CASE ~streaming
      BY <1>10, <2>1, Rephrased DEF Schedule
    <2>2. CASE streaming /\ u \in OutUrbs /\ At(u, "schedule_lost")
      <3>1. Lost(u) /\ ust' = [ust EXCEPT ![u] = "idle"]
        BY <1>10, <2>2 DEF Schedule, Goto
      <3>2. holder = "start" => u \notin todo
        BY <1>10 DEF Schedule, At
      <3>3. u \in Counted /\ Counted' = Counted \ {u}
        BY <1>10, <2>2, <3>1, <3>2 DEF Counted, Schedule, At
      <3> QED  BY <2>2, <3>1, <3>3, OneLess, Rephrased
    <2>3. CASE streaming /\ (u \notin OutUrbs \/ At(u, "schedule"))
      <3>1. Counted' = Counted
        BY <1>10, <2>3 DEF Counted, Schedule, Goto, At
      <3>2. out_inflight' = out_inflight
        BY <1>10, <2>3 DEF Schedule, Lost, Goto, At
      <3> QED  BY <1>10, <3>1, <3>2, Rephrased DEF Schedule
    <2> QED  BY <1>10, <2>1, <2>2, <2>3 DEF Schedule, At
  <1>11. ASSUME Start PROVE InflightIsExact'
    <2>1. Counted' = OutUrbs
      BY <1>11 DEF Counted, Start, Urbs
    <2> QED  BY <1>11, <2>1, Rephrased DEF Start
  <1>12. ASSUME NEW u \in Urbs, StartSubmits(u) PROVE InflightIsExact'
    <2>1. CASE ~streaming'
      BY <2>1, Rephrased
    <2>2. CASE streaming'
      <3>1. Counted' = Counted
        BY <1>12, <2>2 DEF Counted, StartSubmits, Goto, At
      <3> QED  BY <1>12, <2>2, <3>1, Rephrased DEF StartSubmits
    <2> QED  BY <2>1, <2>2
  <1>13. ASSUME Kill PROVE InflightIsExact'
    BY <1>13, Rephrased DEF Kill
  <1>14. ASSUME NEW u \in Urbs, KillBegins(u) PROVE InflightIsExact'
    <2>1. ~streaming'
      BY <1>14 DEF KillBegins
    <2> QED  BY <2>1, Rephrased
  <1>15. ASSUME NEW u \in Urbs, KillEnds(u) PROVE InflightIsExact'
    <2>1. ~streaming'
      BY <1>15, QueueAssumption DEF KillEnds
    <2> QED  BY <2>1, Rephrased
  <1>16. ASSUME WorkBegins PROVE InflightIsExact'
    <2>1. Counted' = Counted
      BY <1>16 DEF Counted, WorkBegins
    <2> QED  BY <1>16, <2>1, Rephrased DEF WorkBegins
  <1>17. ASSUME StreamWork PROVE InflightIsExact'
    <2>1. CASE ~streaming'
      BY <2>1, Rephrased
    <2>2. CASE streaming'
      <3>1. Counted' = Counted
        BY <1>17, <2>2 DEF Counted, StreamWork
      <3> QED  BY <1>17, <2>2, <3>1, Rephrased DEF StreamWork
    <2> QED  BY <2>1, <2>2
  <1>18. ASSUME WorkEnds PROVE InflightIsExact'
    <2>1. ~streaming'
      BY <1>18 DEF WorkEnds
    <2> QED  BY <2>1, Rephrased
  <1>19. ASSUME NEW d \in Dirs, Run(d) \/ Halt(d) PROVE InflightIsExact'
    <2>1. Counted' = Counted
      BY <1>19 DEF Counted, Run, Halt
    <2> QED  BY <1>19, <2>1, Rephrased DEF Run, Halt
  <1>20. ASSUME NEW d \in Dirs, Detach(d) \/ Free(d) \/ Reopen(d) PROVE
     InflightIsExact'
    <2>1. Counted' = Counted
      BY <1>20 DEF Counted, Detach, Free, Reopen
    <2> QED  BY <1>20, <2>1, Rephrased DEF Detach, Free, Reopen
  <1>21. ASSUME UNCHANGED vars PROVE InflightIsExact'
    <2>1. Counted' = Counted
      BY <1>21 DEF Counted
    <2> QED  BY <1>21, <2>1, Rephrased
  <1> HIDE DEF vars, handler, counts, pcms, mutex, work, QueueShape,
     PhasesFollow, Killers, At, Urbs
  <1> QED
    BY <1>1, <1>2, <1>3, <1>4, <1>5, <1>6, <1>7, <1>8, <1>9, <1>10, <1>11,
       <1>12, <1>13, <1>14, <1>15, <1>16, <1>17, <1>18, <1>19, <1>20, <1>21
       DEF Next, Handler, Session, Worker

----------------------------------------------------------------------------
LEMMA InitQueue == Init => QueueInv
  <1> SUFFICES ASSUME Init PROVE QueueInv
    OBVIOUS
  <1> USE DEF Init
  <1>1. QueueShape
    BY DEF QueueShape, UrbStates, Killers
  <1>2. PhasesFollow /\ BufferFollows /\ LimitHolds
    BY DEF PhasesFollow, BufferFollows, LimitHolds, Killers, At
  <1>3. NoUseAfterClose /\ InflightIsExact
    BY DEF NoUseAfterClose, InflightIsExact
  <1> QED  BY <1>1, <1>2, <1>3 DEF QueueInv

\* The invariant of the queue: types, phases of start and kill, buffers, the
\* error count, close() and the count of OUT URBs.
THEOREM QueueInvariant == Spec => []QueueInv
  <1>1. QueueInv /\ [Next]_vars => QueueInv'
    BY QueueShapeStep, PhasesFollowStep, BufferFollowsStep, LimitHoldsStep,
       NoUseAfterCloseStep, InflightIsExactStep DEF QueueInv
  <1> QED  BY InitQueue, <1>1, PTL DEF Spec

\* out_inflight, from which bf_delay() computes, is exact in a live session.
THEOREM InflightStaysExact == Spec => []InflightIsExact
  <1>1. QueueInv => InflightIsExact
    BY DEF QueueInv
  <1> QED  BY <1>1, QueueInvariant, PTL

\* No handler uses a substream whose close() has returned.
THEOREM CloseWaits == Spec => []NoUseAfterClose
  <1>1. QueueInv => NoUseAfterClose
    BY DEF QueueInv
  <1> QED  BY <1>1, QueueInvariant, PTL

\* No OUT URB goes back to the device with the audio it has already sent.
THEOREM NothingReplayed == Spec => []NoReplay
  <1>1. QueueInv => NoReplay
    BY DEF QueueInv, BufferFollows, NoReplay, At
  <1> QED  BY <1>1, QueueInvariant, PTL

\* The URBs that a start fills and submits are nobody else's.
THEOREM StartsAreClean == Spec => []StartIsClean
  <1>1. QueueInv => StartIsClean
    BY DEF QueueInv, PhasesFollow, StartIsClean
  <1> QED  BY <1>1, QueueInvariant, PTL

\* A live session that has lost a URB has its count at the limit and the work
\* on its way, whatever the other handlers count and clear meanwhile.
THEOREM LostUrbsAreNoticed == Spec => []LostUrbIsNoticed
  <1>1. QueueInv => LostUrbIsNoticed
    BY DEF QueueInv, LimitHolds, LostUrbIsNoticed
  <1> QED  BY <1>1, QueueInvariant, PTL

\* While a session is being killed no handler goes on to resubmit.
THEOREM HandlersRetire == Spec => RetiresWhenStopped
  <1> DEFINE Retires == \A u \in Urbs :
          holder \in Killers /\ ust'[u] = "submit" => ust[u] = "submit"
  <1>1. QueueInv /\ [Next]_vars => Retires
    <2> SUFFICES ASSUME QueueInv, [Next]_vars, holder \in Killers,
                        NEW v \in Urbs, ust'[v] = "submit"
                 PROVE  ust[v] = "submit"
      OBVIOUS
    <2> USE DEF QueueInv, QueueShape, Goto, At
    <2>1. ~streaming
      BY DEF PhasesFollow
    <2>2. ASSUME NEW u \in Urbs, Complete(u) \/ Handler(u)
          PROVE  ust[v] = "submit"
      BY <2>1, <2>2 DEF Complete, Handler, CountError, ReadErrors, ClearErrors,
         Dereference, Copy, TestStreaming, Resubmit, FailResubmit, Schedule
    <2>3. ASSUME Session PROVE ust[v] = "submit"
      BY <2>3 DEF Session, Start, Kill, StartSubmits, KillBegins, KillEnds,
         handler, Killers
    <2>4. ASSUME Worker \/ UNCHANGED vars PROVE ust[v] = "submit"
      BY <2>4 DEF Worker, WorkBegins, StreamWork, WorkEnds, handler, vars
    <2>5. ASSUME NEW d \in Dirs,
                 Run(d) \/ Halt(d) \/ Detach(d) \/ Free(d) \/ Reopen(d)
          PROVE  ust[v] = "submit"
      BY <2>5 DEF Run, Halt, Detach, Free, Reopen, handler
    <2> QED  BY <2>2, <2>3, <2>4, <2>5 DEF Next
  <1> QED  BY <1>1, QueueInvariant, PTL DEF Spec, RetiresWhenStopped

----------------------------------------------------------------------------
\* The queue keeps UrbContract.

Asks == {"schedule", "schedule_lost"}

\* A URB that goes on in its handler, or to the host, moves before and after.
LEMMA GoesOn ==
    ASSUME QueueShape, NEW u \in Urbs, NEW step, step # "idle",
           ~At(u, "idle"), Goto(u, step)
    PROVE  Moving = TRUE /\ Moving' = TRUE
  BY DEF QueueShape, Moving, At, Goto

\* A URB on the way to ask for the work, before or after a step of it.
LEMMA AsksAsBefore ==
    ASSUME QueueShape, NEW u \in Urbs, NEW step, Goto(u, step),
           ust[u] \notin Asks, step \notin Asks
    PROVE  Failing' = Failing
  BY DEF QueueShape, Failing, Goto, Asks

\* What the contract does not see.
LEMMA QueueStutters ==
    ASSUME UNCHANGED <<streaming, worker, pending>>,
           (urb_err' >= UrbErrStop) = (urb_err >= UrbErrStop),
           Moving' = Moving, Failing' = Failing
    PROVE  UNCHANGED Contract!urbVars
  BY DEF Contract!urbVars

\* URBs where they were, under the same flag: nothing has moved.
LEMMA NothingMoves ==
    ASSUME UNCHANGED <<ust, streaming, todo>>
    PROVE  Moving' = Moving /\ Failing' = Failing
  BY DEF Moving, Failing, At

\* While nothing streams what moves is what has not come back.
LEMMA MovesUnlive ==
    ASSUME ~streaming
    PROVE  Moving = (\E u \in Urbs : ~At(u, "idle"))
  BY DEF Moving

\* A URB that comes back to the driver: a session that has ended may be
\* drained by it, a live one misses it.
LEMMA ComesBack ==
    ASSUME QueueShape, PhasesFollow, NEW u \in Urbs, ~At(u, "idle"),
           Goto(u, "idle"), UNCHANGED <<streaming, todo>>
    PROVE  /\ streaming => Moving = TRUE /\ Moving' = TRUE
           /\ ~streaming => Moving' \in {Moving, FALSE}
  <1>1. ASSUME streaming PROVE u \notin todo
    BY <1>1 DEF QueueShape, PhasesFollow, Killers, At
  <1>2. ASSUME streaming PROVE todo # Urbs
    BY <1>1, <1>2
  <1>3. ASSUME ~streaming PROVE Moving = TRUE
    BY DEF Moving
  <1> QED  BY <1>2, <1>3 DEF Moving

LEMMA QueueContractStep ==
    QueueInv /\ [Next]_vars => [Contract!UrbNext]_(Contract!urbVars)
  <1> SUFFICES ASSUME QueueInv, [Next]_vars
               PROVE  [Contract!UrbNext]_(Contract!urbVars)
    OBVIOUS
  <1> USE DEF handler, counts, pcms, mutex, work
  <1>a. QueueShape /\ PhasesFollow
    BY DEF QueueInv
  <1>b. urb_err \in Nat /\ UrbErrStop \in Nat \ {0}
    BY <1>a, QueueAssumption DEF QueueShape
  <1>1. ASSUME NEW u \in Urbs, Complete(u) PROVE [Contract!UrbNext]_(Contract!urbVars)
    <2>1. \/ Goto(u, "good") \/ Goto(u, "bad")
      BY <1>1 DEF Complete
    <2>2. ust[u] = "flight"
      BY <1>1 DEF Complete, At
    <2>3. Moving' = Moving /\ Failing' = Failing
      BY <1>a, <2>1, <2>2, GoesOn, AsksAsBefore DEF At, Asks
    <2> QED  BY <1>1, <2>3, QueueStutters DEF Complete
  <1>2. ASSUME NEW u \in Urbs, CountError(u) PROVE [Contract!UrbNext]_(Contract!urbVars)
    <2>1. ust[u] = "bad" /\ urb_err' = urb_err + 1
      BY <1>2 DEF CountError, At
    <2>2. CASE urb_err + 1 < UrbErrStop
      <3>1. Goto(u, "test")
        BY <1>2, <2>2 DEF CountError
      <3>2. Moving' = Moving /\ Failing' = Failing
        BY <1>a, <2>1, <3>1, GoesOn, AsksAsBefore DEF At, Asks
      <3>3. (urb_err' >= UrbErrStop) = (urb_err >= UrbErrStop)
        BY <1>b, <2>1, <2>2
      <3> QED  BY <1>2, <3>2, <3>3, QueueStutters DEF CountError
    <2>3. CASE ~(urb_err + 1 < UrbErrStop)
      <3>1. Goto(u, "schedule_lost")
        BY <1>2, <2>3 DEF CountError
      <3>2. Moving = TRUE /\ Moving' = TRUE
        BY <1>a, <2>1, <3>1, GoesOn DEF At
      <3>3. (pending \/ Failing)' = TRUE
        BY <1>a, <3>1 DEF QueueShape, Failing, Goto
      <3>4. (urb_err' >= UrbErrStop) = TRUE
        BY <1>b, <2>1, <2>3
      <3>5. Contract!Fail
        BY <1>2, <3>2, <3>3, <3>4 DEF CountError, Contract!Fail
      <3> QED  BY <3>5 DEF Contract!UrbNext
    <2> QED  BY <2>2, <2>3
  <1>3. ASSUME NEW u \in Urbs, ReadErrors(u) PROVE [Contract!UrbNext]_(Contract!urbVars)
    <2>1. ust[u] = "good" /\ Goto(u, "clear")
      BY <1>3 DEF ReadErrors, At
    <2>2. Moving' = Moving /\ Failing' = Failing
      BY <1>a, <2>1, GoesOn, AsksAsBefore DEF At, Asks
    <2> QED  BY <1>3, <2>2, QueueStutters DEF ReadErrors
  <1>4. ASSUME NEW u \in Urbs, ClearErrors(u) PROVE [Contract!UrbNext]_(Contract!urbVars)
    <2>1. ust[u] = "clear" /\ (Goto(u, "deref") \/ UNCHANGED ust)
      BY <1>4 DEF ClearErrors, At
    <2>2. Moving' = Moving /\ Failing' = Failing
      BY <1>4, <1>a, <2>1, GoesOn, AsksAsBefore, NothingMoves
         DEF ClearErrors, At, Asks
    <2>3. (urb_err' >= UrbErrStop) = (urb_err >= UrbErrStop)
      BY <1>4, <1>a, <1>b DEF ClearErrors, QueueShape
    <2> QED  BY <1>4, <2>2, <2>3, QueueStutters DEF ClearErrors
  <1>5. ASSUME NEW u \in Urbs, Dereference(u) PROVE [Contract!UrbNext]_(Contract!urbVars)
    <2>1. ust[u] = "deref" /\ Goto(u, "copy")
      BY <1>5 DEF Dereference, At
    <2>2. Moving' = Moving /\ Failing' = Failing
      BY <1>a, <2>1, GoesOn, AsksAsBefore DEF At, Asks
    <2> QED  BY <1>5, <2>2, QueueStutters DEF Dereference
  <1>6. ASSUME NEW u \in Urbs, Copy(u) PROVE [Contract!UrbNext]_(Contract!urbVars)
    <2>1. ust[u] = "copy" /\ Goto(u, "test")
      BY <1>6 DEF Copy, At
    <2>2. Moving' = Moving /\ Failing' = Failing
      BY <1>a, <2>1, GoesOn, AsksAsBefore DEF At, Asks
    <2> QED  BY <1>6, <2>2, QueueStutters DEF Copy
  <1>7. ASSUME NEW u \in Urbs, TestStreaming(u) PROVE [Contract!UrbNext]_(Contract!urbVars)
    <2>1. ust[u] = "test"
      BY <1>7 DEF TestStreaming, At
    <2>2. CASE streaming
      <3>1. Goto(u, "submit")
        BY <1>7, <2>2 DEF TestStreaming
      <3>2. Moving' = Moving /\ Failing' = Failing
        BY <1>a, <2>1, <3>1, GoesOn, AsksAsBefore DEF At, Asks
      <3> QED  BY <1>7, <3>2, QueueStutters DEF TestStreaming
    <2>3. CASE ~streaming
      <3>1. Goto(u, "idle")
        BY <1>7, <2>3 DEF TestStreaming
      <3>2. Moving' \in {Moving, FALSE}
        BY <1>7, <1>a, <2>1, <2>3, <3>1, ComesBack DEF TestStreaming, At
      <3>3. Failing' = Failing
        BY <1>a, <2>1, <3>1, AsksAsBefore DEF Asks
      <3>4. CASE Moving' = Moving
        BY <1>7, <3>3, <3>4, QueueStutters DEF TestStreaming
      <3>5. CASE Moving' = FALSE
        <4>1. Contract!Drain
          BY <1>7, <2>3, <3>3, <3>5 DEF TestStreaming, Contract!Drain
        <4> QED  BY <4>1 DEF Contract!UrbNext
      <3> QED  BY <3>2, <3>4, <3>5
    <2> QED  BY <2>2, <2>3
  <1>8. ASSUME NEW u \in Urbs, Resubmit(u) PROVE [Contract!UrbNext]_(Contract!urbVars)
    <2>1. ust[u] = "submit" /\ (Goto(u, "flight") \/ Goto(u, "broken"))
      BY <1>8 DEF Resubmit, At
    <2>2. Moving' = Moving /\ Failing' = Failing
      BY <1>a, <2>1, GoesOn, AsksAsBefore DEF At, Asks
    <2> QED  BY <1>8, <2>2, QueueStutters DEF Resubmit
  <1>9. ASSUME NEW u \in Urbs, FailResubmit(u) PROVE [Contract!UrbNext]_(Contract!urbVars)
    <2>1. ust[u] = "broken" /\ Goto(u, "schedule") /\ urb_err' = UrbErrStop
      BY <1>9 DEF FailResubmit, At
    <2>2. Moving = TRUE /\ Moving' = TRUE
      BY <1>a, <2>1, GoesOn DEF At
    <2>3. (pending \/ Failing)' = TRUE
      BY <1>a, <2>1 DEF QueueShape, Failing, Goto
    <2>4. (urb_err' >= UrbErrStop) = TRUE
      BY <1>b, <2>1
    <2>5. Contract!Fail
      BY <1>9, <2>2, <2>3, <2>4 DEF FailResubmit, Contract!Fail
    <2> QED  BY <2>5 DEF Contract!UrbNext
  <1>10. ASSUME NEW u \in Urbs, Schedule(u) PROVE [Contract!UrbNext]_(Contract!urbVars)
    <2>1. ust[u] \in Asks /\ Goto(u, "idle") /\ pending'
      BY <1>10 DEF Schedule, Asks
    <2>2. (pending \/ Failing) = TRUE /\ (pending \/ Failing)' = TRUE
      BY <2>1 DEF Failing, Asks
    <2>3. UNCHANGED <<streaming, todo, worker, urb_err>>
      BY <1>10 DEF Schedule
    <2>4. ~At(u, "idle")
      BY <2>1 DEF At, Asks
    <2>5. CASE Moving' = Moving
      BY <2>2, <2>3, <2>5 DEF Contract!urbVars
    <2>6. CASE Moving' # Moving
      <3>1. ~streaming /\ Moving' = FALSE
        BY <1>a, <2>1, <2>3, <2>4, <2>6, ComesBack
      <3>2. Contract!Drain
        BY <2>2, <2>3, <3>1 DEF Contract!Drain
      <3> QED  BY <3>2 DEF Contract!UrbNext
    <2> QED  BY <2>5, <2>6
  <1>11. ASSUME Start PROVE [Contract!UrbNext]_(Contract!urbVars)
    <2>1. todo = {} /\ ~streaming
      BY <1>11, <1>a DEF Start, PhasesFollow
    <2>2. \A u \in Urbs : At(u, "idle")
      BY <1>a, <2>1 DEF PhasesFollow
    <2>3. Moving = FALSE /\ Moving' = FALSE /\ Failing' = Failing
      BY <1>11, <2>1, <2>2 DEF Start, Moving, Failing, At
    <2>4. (urb_err' >= UrbErrStop) = FALSE
      BY <1>11, <1>b DEF Start
    <2>5. Contract!GoLive
      BY <1>11, <2>1, <2>3, <2>4
         DEF Start, Contract!GoLive, Contract!Drained
    <2> QED  BY <2>5 DEF Contract!UrbNext
  <1>12. ASSUME NEW u \in Urbs, StartSubmits(u)
         PROVE  [Contract!UrbNext]_(Contract!urbVars)
    <2>1. streaming /\ ust[u] = "idle" /\ u \in todo
      BY <1>12, <1>a DEF StartSubmits, PhasesFollow, At
    <2>2. CASE Goto(u, "flight") /\ todo' = todo \ {u} /\ UNCHANGED streaming
      <3>1. Moving' = TRUE
        BY <2>1, <2>2 DEF Moving
      <3>2. Failing' = Failing
        BY <1>a, <2>1, <2>2, AsksAsBefore DEF Asks
      <3>3. Contract!Send
        BY <1>12, <2>1, <2>2, <3>1, <3>2 DEF StartSubmits, Contract!Send
      <3> QED  BY <3>3 DEF Contract!UrbNext
    <2>3. CASE streaming' = FALSE /\ todo' = Urbs /\ UNCHANGED ust
      <3>1. Failing' = Failing
        BY <2>3 DEF Failing
      <3>2. Moving' = (\E v \in Urbs : ~At(v, "idle"))
        BY <2>3 DEF Moving, At
      <3>3. Moving' \in {Moving, FALSE}
        BY <3>2 DEF Moving
      <3>4. Contract!End
        BY <1>12, <2>1, <2>3, <3>1, <3>3 DEF StartSubmits, Contract!End
      <3> QED  BY <3>4 DEF Contract!UrbNext
    <2> QED  BY <1>12, <2>2, <2>3 DEF StartSubmits
  <1>13. ASSUME streaming, streaming' = FALSE,
                UNCHANGED <<ust, urb_err, work>>
         PROVE  [Contract!UrbNext]_(Contract!urbVars)
    <2>1. Failing' = Failing
      BY <1>13 DEF Failing
    <2>2. Moving' = (\E v \in Urbs : ~At(v, "idle"))
      BY <1>13 DEF Moving, At
    <2>3. Moving' \in {Moving, FALSE}
      BY <2>2 DEF Moving
    <2>4. Contract!End
      BY <1>13, <2>1, <2>3 DEF Contract!End
    <2> QED  BY <2>4 DEF Contract!UrbNext
  <1>14. ASSUME NEW u \in Urbs, KillBegins(u)
         PROVE  [Contract!UrbNext]_(Contract!urbVars)
    <2>1. ~streaming /\ ~streaming'
      BY <1>14, <1>a DEF KillBegins, PhasesFollow
    <2>2. ust' = [ust EXCEPT ![u] = IF @ = "flight" THEN "idle" ELSE @]
      BY <1>14 DEF KillBegins
    <2>3. Failing' = Failing
      BY <1>a, <2>2 DEF QueueShape, Failing
    <2>4. Moving = (\E v \in Urbs : ust[v] # "idle")
          /\ Moving' = (\E v \in Urbs : ust'[v] # "idle")
      BY <2>1 DEF Moving, At
    <2>5. Moving' \in {Moving, FALSE}
      BY <1>a, <2>2, <2>4 DEF QueueShape
    <2>6. CASE Moving' = Moving
      BY <1>14, <2>3, <2>6, QueueStutters DEF KillBegins
    <2>7. CASE Moving' = FALSE
      <3>1. Contract!Drain
        BY <1>14, <2>1, <2>3, <2>7 DEF KillBegins, Contract!Drain
      <3> QED  BY <3>1 DEF Contract!UrbNext
    <2> QED  BY <2>5, <2>6, <2>7
  <1>15. ASSUME NEW u \in Urbs, KillEnds(u)
         PROVE  [Contract!UrbNext]_(Contract!urbVars)
    <2>1. ~streaming
      BY <1>15, <1>a, QueueAssumption DEF KillEnds, PhasesFollow, Urbs
    <2>2. UNCHANGED <<ust, streaming, urb_err, work>>
      BY <1>15 DEF KillEnds
    <2>3. Moving' = Moving /\ Failing' = Failing
      BY <2>1, <2>2 DEF Moving, Failing, At
    <2> QED  BY <2>2, <2>3, QueueStutters
  <1>16. ASSUME WorkBegins PROVE [Contract!UrbNext]_(Contract!urbVars)
    <2>1. UNCHANGED <<ust, streaming, todo, urb_err>>
      BY <1>16 DEF WorkBegins
    <2>2. Moving' = Moving /\ Failing' = Failing
      BY <2>1, NothingMoves
    <2>3. Failing => Moving
      BY DEF Failing, Moving, At
    <2>4. (pending \/ Failing)' \in {FALSE, Moving}
      BY <1>16, <2>2, <2>3 DEF WorkBegins
    <2>5. Contract!WorkBegins
      BY <1>16, <2>1, <2>2, <2>4 DEF WorkBegins, Contract!WorkBegins
    <2> QED  BY <2>5 DEF Contract!UrbNext
  <1>17. ASSUME StreamWork PROVE [Contract!UrbNext]_(Contract!urbVars)
    <2>1. CASE urb_err >= UrbErrStop /\ streaming
      BY <1>17, <2>1, <1>13 DEF StreamWork
    <2>2. CASE urb_err >= UrbErrStop /\ ~streaming
      <3>1. UNCHANGED <<ust, streaming, urb_err, work>>
        BY <1>17, <1>a, <2>2 DEF StreamWork, QueueShape
      <3>2. Moving' = Moving /\ Failing' = Failing
        BY <2>2, <3>1 DEF Moving, Failing, At
      <3> QED  BY <3>1, <3>2, QueueStutters
    <2>3. CASE ~(urb_err >= UrbErrStop)
      <3>1. /\ worker /\ worker' = FALSE
            /\ UNCHANGED <<ust, streaming, todo, urb_err, pending>>
        BY <1>17, <2>3 DEF StreamWork
      <3>2. Moving' = Moving /\ Failing' = Failing
        BY <3>1, NothingMoves
      <3>3. Contract!WorkIdles
        BY <2>3, <3>1, <3>2 DEF Contract!WorkIdles
      <3> QED  BY <3>3 DEF Contract!UrbNext
    <2> QED  BY <2>1, <2>2, <2>3
  <1>18. ASSUME WorkEnds PROVE [Contract!UrbNext]_(Contract!urbVars)
    <2>1. ~streaming /\ worker /\ \A u \in Urbs : At(u, "idle")
      BY <1>18, <1>a DEF WorkEnds, PhasesFollow, Killers
    <2>2. UNCHANGED <<ust, streaming, todo, pending>> /\ worker' = FALSE
      BY <1>18 DEF WorkEnds
    <2>3. Moving = FALSE /\ Moving' = Moving /\ Failing' = Failing
      BY <2>1, <2>2, NothingMoves DEF Moving
    <2>4. (urb_err' >= UrbErrStop) = FALSE
      BY <1>18, <1>b DEF WorkEnds
    <2>5. Contract!WorkEnds
      BY <2>1, <2>2, <2>3, <2>4 DEF Contract!WorkEnds, Contract!Drained
    <2> QED  BY <2>5 DEF Contract!UrbNext
  <1>19. ASSUME UNCHANGED <<ust, urb_err, streaming, todo, work>>
         PROVE  [Contract!UrbNext]_(Contract!urbVars)
    BY <1>19, NothingMoves, QueueStutters
  <1>20. ASSUME Kill PROVE [Contract!UrbNext]_(Contract!urbVars)
    BY <1>20, <1>13 DEF Kill
  <1>21. ASSUME NEW d \in Dirs,
                Run(d) \/ Halt(d) \/ Detach(d) \/ Free(d) \/ Reopen(d)
         PROVE  [Contract!UrbNext]_(Contract!urbVars)
    BY <1>21, <1>19 DEF Run, Halt, Detach, Free, Reopen
  <1>22. ASSUME UNCHANGED vars PROVE [Contract!UrbNext]_(Contract!urbVars)
    BY <1>22, <1>19 DEF vars
  <1> QED
    BY <1>1, <1>2, <1>3, <1>4, <1>5, <1>6, <1>7, <1>8, <1>9, <1>10, <1>11,
       <1>12, <1>14, <1>15, <1>16, <1>17, <1>18, <1>20, <1>21, <1>22
       DEF Next, Handler, Session, Worker

LEMMA QueueContractInit == Init => Contract!UrbInit
  <1> SUFFICES ASSUME Init PROVE Contract!UrbInit
    OBVIOUS
  <1>1. Moving = FALSE /\ (pending \/ Failing) = FALSE
    BY DEF Init, Moving, Failing, At
  <1>2. (urb_err >= UrbErrStop) = FALSE
    BY QueueAssumption DEF Init
  <1> QED  BY <1>1, <1>2 DEF Init, Contract!UrbInit

\* The queue implements what StreamSession relies on: handlers, start, kill and
\* work, interleaved at every atomic access, look from outside like URBs that
\* are in flight or not and failures that come with their work.
THEOREM QueueKeepsContract == Spec => KeepsUrbContract
  <1> QED
    BY QueueContractInit, QueueInvariant, QueueContractStep, PTL
       DEF Spec, KeepsUrbContract, Contract!UrbSpec

\* No error count at its limit is reset, by a completion of another URB, a start
\* or the work, before every URB is back from a session that has ended.
THEOREM FailuresStayCounted == Spec => Contract!ForgottenDrained
  <1>1. [Contract!UrbNext]_(Contract!urbVars)
        => [(urb_err >= UrbErrStop) /\ ~(urb_err >= UrbErrStop)'
              => Contract!Drained]_(Contract!urbVars)
    BY DEF Contract!UrbNext, Contract!urbVars, Contract!GoLive, Contract!Send,
       Contract!Fail, Contract!End, Contract!Drain, Contract!WorkBegins,
       Contract!WorkIdles, Contract!WorkEnds, Contract!Cancel, Contract!Leave
  <1> QED
    BY QueueInvariant, QueueContractStep, <1>1, PTL
       DEF Spec, Contract!ForgottenDrained

\* A live session whose count is at the limit has the work queued or running, or
\* a handler on its way to queue it: no failure goes unnoticed.
THEOREM FailuresAreWatched == Spec => []Contract!Watched
  <1>1. Contract!UrbInit => Contract!Watched
    BY DEF Contract!UrbInit, Contract!Watched
  <1>2. Contract!Watched /\ [Contract!UrbNext]_(Contract!urbVars)
        => Contract!Watched'
    BY DEF Contract!Watched, Contract!Drained, Contract!UrbNext,
       Contract!urbVars, Contract!GoLive, Contract!Send,
       Contract!Fail, Contract!End, Contract!Drain, Contract!WorkBegins,
       Contract!WorkIdles, Contract!WorkEnds, Contract!Cancel, Contract!Leave
  <1> QED
    BY QueueContractInit, QueueInvariant, QueueContractStep, <1>1, <1>2, PTL
       DEF Spec
=============================================================================
