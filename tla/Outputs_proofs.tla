--------------------------- MODULE Outputs_proofs ---------------------------
(***************************************************************************)
(* The outputs, whatever the wheel's zones, the levels and the failures:   *)
(* the digital registers follow the controls, the wheel stays on the scale *)
(* and keeps the balance, and the analog registers settle.                 *)
(***************************************************************************)
EXTENDS Outputs, FiniteSetTheorems, WellFoundedInduction, TLAPS

Digital == {3, 4}

\* The shape of the state, as far as a write depends on it.
Shape ==
    /\ DOMAIN master = Outs
    /\ muted \in [Outs -> BOOLEAN] /\ dim \in BOOLEAN
    /\ DOMAIN wire = Outs
    /\ \A o \in Outs : DOMAIN wire[o] = 1..4

\* DIM, switched off, goes back to the volume that the control reads.
DimReturns == dim => dim_saved = master[Phones]

\* A unit asleep holds nothing, so a resume that fails leaves nothing wrong.
AsleepHoldsNothing ==
    panel = "asleep" => \A o \in Outs, i \in Digital : wire[o][i] = Unknown

\* A suspend waits for the poll.
PollAwake == tick.at # "idle" => Running

Inv == Shape /\ DimReturns /\ AsleepHoldsNothing /\ PollAwake /\ DigitalFollows

\* The digital registers of output o are to hold s, under mute m and DIM d.
Holds(f, o, m, d, s) ==
    \A ch \in Sides : f[o][2 + ch] \in {Out16(m, Dimmed(o, d), s[ch]), Unknown}

----------------------------------------------------------------------------
\* The invariant says of each output what Holds says.
LEMMA FollowsIsHolds ==
    DigitalFollows <=> \A o \in Outs : Running => Holds(wire, o, muted[o], dim, master[o])
  BY DEF DigitalFollows, Holds

\* A write changes no other output, and if it takes in the digital registers
\* they hold what was written.
LEMMA WriteDigital ==
    ASSUME Shape, NEW o, NEW m, NEW d, NEW s, NEW W, NEW Lost,
           Digital \subseteq W \cup Lost,
           Write(o, Regs(m, Dimmed(o, d), s), W, Lost)
    PROVE  /\ DOMAIN wire' = Outs
           /\ \A p \in Outs : DOMAIN wire'[p] = 1..4
           /\ \A p \in Outs : p # o => wire'[p] = wire[p]
           /\ o \in Outs => Holds(wire', o, m, d, s)
  <1> DEFINE regs == Regs(m, Dimmed(o, d), s)
             new == [i \in 1..4 |-> IF i \in Lost THEN Unknown
                                    ELSE IF i \in W THEN regs[i] ELSE wire[o][i]]
  <1>1. wire' = [wire EXCEPT ![o] = new]
    BY DEF Write
  <1>2. DOMAIN new = 1..4
    OBVIOUS
  <1>3. /\ regs[3] = Out16(m, Dimmed(o, d), s[1])
        /\ regs[4] = Out16(m, Dimmed(o, d), s[2])
    BY DEF Regs
  <1>4. /\ new[3] \in {regs[3], Unknown}
        /\ new[4] \in {regs[4], Unknown}
    BY DEF Digital
  <1> HIDE DEF new, regs
  <1>5. /\ DOMAIN wire' = Outs
        /\ \A p \in Outs : DOMAIN wire'[p] = 1..4
        /\ \A p \in Outs : p # o => wire'[p] = wire[p]
        /\ o \in Outs => wire'[o] = new
    BY <1>1, <1>2 DEF Shape
  <1>6. o \in Outs => Holds(wire', o, m, d, s)
    BY <1>3, <1>4, <1>5 DEF Holds, Sides
  <1> QED BY <1>5, <1>6

\* A write of the analog registers leaves the digital ones.
LEMMA WriteAnalog ==
    ASSUME Shape, NEW o, NEW regs, NEW Lost, Lost \in {{}, {1, 2}},
           Write(o, regs, {1, 2}, Lost)
    PROVE  /\ DOMAIN wire' = Outs
           /\ \A p \in Outs : DOMAIN wire'[p] = 1..4
           /\ \A p \in Outs, i \in Digital : wire'[p][i] = wire[p][i]
  <1> DEFINE new == [i \in 1..4 |-> IF i \in Lost THEN Unknown
                                    ELSE IF i \in {1, 2} THEN regs[i] ELSE wire[o][i]]
  <1>1. wire' = [wire EXCEPT ![o] = new]
    BY DEF Write
  <1>2. DOMAIN new = 1..4 /\ \A i \in Digital : new[i] = wire[o][i]
    BY DEF Digital
  <1> HIDE DEF new
  <1> QED BY <1>1, <1>2 DEF Shape

\* A master that changes is where DIM goes back to.
LEMMA SetMasterKeeps ==
    ASSUME Shape, DimReturns, NEW o, NEW s, SetMaster(o, s), dim' = dim
    PROVE  /\ DOMAIN master' = Outs
           /\ \A p \in Outs : master'[p] = IF p = o THEN s ELSE master[p]
           /\ DimReturns'
  <1>1. /\ DOMAIN master' = Outs
        /\ \A p \in Outs : master'[p] = IF p = o THEN s ELSE master[p]
    BY DEF SetMaster, Shape
  <1>2. Phones \in Outs
    BY OutputsAssumption
  <1>3. DimReturns'
    BY <1>1, <1>2 DEF DimReturns, SetMaster, Dimmed, Shape
  <1> QED BY <1>1, <1>3

\* Any action that writes an output's digital registers for the master it sets.
LEMMA WriteAndSet ==
    ASSUME Inv, NEW o, NEW m, NEW s, NEW W, NEW Lost,
           o \in Outs => m = muted[o],
           Digital \subseteq W \cup Lost,
           Write(o, Regs(m, Dimmed(o, dim), s), W, Lost),
           SetMaster(o, s), UNCHANGED <<muted, dim, panel>>, Running
    PROVE  Inv'
  <1>1. /\ DOMAIN wire' = Outs
        /\ \A p \in Outs : DOMAIN wire'[p] = 1..4
        /\ \A p \in Outs : p # o => wire'[p] = wire[p]
        /\ o \in Outs => Holds(wire', o, m, dim, s)
    BY WriteDigital DEF Inv
  <1>2. /\ DOMAIN master' = Outs
        /\ \A p \in Outs : master'[p] = IF p = o THEN s ELSE master[p]
        /\ DimReturns'
    BY SetMasterKeeps DEF Inv
  <1>3. Shape'
    BY <1>1, <1>2 DEF Inv, Shape
  <1>4. AsleepHoldsNothing' /\ PollAwake'
    BY DEF AsleepHoldsNothing, PollAwake, Running
  <1>5. DigitalFollows'
    <2> SUFFICES ASSUME NEW p \in Outs, NEW ch \in Sides
                 PROVE  wire'[p][2 + ch]
                          \in {Out16(muted[p], Dimmed(p, dim), master'[p][ch]), Unknown}
      BY DEF DigitalFollows, Dimmed, Out16
    <2>1. CASE p = o
      BY <1>1, <1>2, <2>1 DEF Holds
    <2>2. CASE p # o
      BY <1>1, <1>2, <2>2 DEF Inv, DigitalFollows
    <2> QED BY <2>1, <2>2
  <1> QED BY <1>2, <1>3, <1>4, <1>5 DEF Inv

\* A write whose outcome is unknown disturbs nothing.
LEMMA WriteFails ==
    ASSUME Inv, NEW o, NEW regs, WritesSome(o, regs),
           UNCHANGED <<master, muted, dim, panel>>, Running
    PROVE  Shape' /\ AsleepHoldsNothing' /\ PollAwake' /\ DigitalFollows'
  <1> DEFINE new == [i \in 1..4 |-> IF i \in 1..4 THEN Unknown
                                    ELSE IF i \in {} THEN regs[i] ELSE wire[o][i]]
  <1>1. wire' = [wire EXCEPT ![o] = new]
    BY DEF WritesSome, Write
  <1>2. DOMAIN new = 1..4 /\ new[3] = Unknown /\ new[4] = Unknown
    OBVIOUS
  <1> HIDE DEF new
  <1>3. /\ DOMAIN wire' = Outs
        /\ \A p \in Outs : DOMAIN wire'[p] = 1..4
        /\ \A p \in Outs : wire'[p] = IF p = o THEN new ELSE wire[p]
    BY <1>1, <1>2 DEF Inv, Shape
  <1>4. Shape' /\ AsleepHoldsNothing' /\ PollAwake'
    BY <1>3 DEF Inv, Shape, AsleepHoldsNothing, PollAwake, Running
  <1>5. DigitalFollows'
    BY <1>2, <1>3 DEF Inv, DigitalFollows, Dimmed, Out16, Sides, Running
  <1> QED BY <1>4, <1>5

\* An action that leaves the digital registers and the controls alone.
LEMMA DigitalLeftAlone ==
    ASSUME Inv, UNCHANGED <<master, muted, dim, dim_saved>>,
           DOMAIN wire' = Outs, \A p \in Outs : DOMAIN wire'[p] = 1..4,
           \A p \in Outs, i \in Digital : wire'[p][i] = wire[p][i],
           Running' => Running \/ panel = "asleep",
           panel' = "asleep" => panel = "asleep",
           PollAwake'
    PROVE  Inv'
  <1>1. Shape' /\ DimReturns' /\ AsleepHoldsNothing'
    BY DEF Inv, Shape, DimReturns, AsleepHoldsNothing
  <1>2. DigitalFollows'
    <2> SUFFICES ASSUME NEW p \in Outs, NEW ch \in Sides, Running'
                 PROVE  wire'[p][2 + ch]
                          \in {Out16(muted[p], Dimmed(p, dim), master[p][ch]), Unknown}
      BY DEF DigitalFollows, Dimmed, Out16
    <2>1. 2 + ch \in Digital
      BY DEF Sides, Digital
    <2>2. CASE Running
      BY <2>1, <2>2 DEF Inv, DigitalFollows
    <2>3. CASE panel = "asleep"
      BY <2>1, <2>3 DEF Inv, AsleepHoldsNothing
    <2> QED BY <2>2, <2>3
  <1> QED BY <1>1, <1>2 DEF Inv

----------------------------------------------------------------------------
\* The invariant holds at first ...
LEMMA InvInit == Init => Inv
  <1> SUFFICES ASSUME Init PROVE Inv
    OBVIOUS
  <1>1. \A m, d, t : DOMAIN Regs(m, d, t) = 1..4
    BY DEF Regs
  <1>2. Shape
    BY <1>1 DEF Init, Shape
  <1>3. DimReturns /\ AsleepHoldsNothing /\ PollAwake
    BY DEF Init, DimReturns, AsleepHoldsNothing, PollAwake, Running
  <1>4. DigitalFollows
    BY DEF Init, DigitalFollows, Regs, Dimmed, Out16, Sides
  <1> QED BY <1>2, <1>3, <1>4 DEF Inv

\* ... and is kept by the puts, ...
LEMMA PutsKeep ==
    ASSUME Inv, Controls
    PROVE  Inv'
  <1> USE DEF user, wheel, poll
  <1>1. ASSUME NEW o \in Outs, NEW s, MasterPut(o, s) PROVE Inv'
    <2>1. CASE WritesAll(o, Regs(muted[o], Dimmed(o, dim), s)) /\ SetMaster(o, s)
      BY <1>1, <2>1, WriteAndSet DEF MasterPut, WritesAll, Digital
    <2>2. CASE /\ WritesSome(o, Regs(muted[o], Dimmed(o, dim), s))
               /\ UNCHANGED <<master, dim_saved>>
      BY <1>1, <2>2, WriteFails DEF MasterPut, Inv, DimReturns
    <2> QED BY <1>1, <2>1, <2>2 DEF MasterPut
  <1>2. ASSUME NEW o \in Outs, MutePut(o) PROVE Inv'
    <2> DEFINE regs == Regs(~muted[o], Dimmed(o, dim), master[o])
    <2>1. CASE WritesAll(o, regs) /\ muted' = [muted EXCEPT ![o] = ~@]
      <3>1. /\ DOMAIN wire' = Outs
            /\ \A p \in Outs : DOMAIN wire'[p] = 1..4
            /\ \A p \in Outs : p # o => wire'[p] = wire[p]
            /\ Holds(wire', o, ~muted[o], dim, master[o])
        BY <2>1, WriteDigital DEF Inv, WritesAll, Digital
      <3>2. /\ muted' \in [Outs -> BOOLEAN]
            /\ \A p \in Outs : muted'[p] = IF p = o THEN ~muted[o] ELSE muted[p]
        BY <2>1 DEF Inv, Shape
      <3>3. Shape' /\ DimReturns' /\ AsleepHoldsNothing' /\ PollAwake'
        BY <1>2, <3>1, <3>2
           DEF MutePut, Inv, Shape, DimReturns, AsleepHoldsNothing, PollAwake, Running
      <3>4. DigitalFollows'
        <4> SUFFICES ASSUME NEW p \in Outs, NEW ch \in Sides
                     PROVE  wire'[p][2 + ch]
                              \in {Out16(muted'[p], Dimmed(p, dim), master[p][ch]), Unknown}
          BY <1>2 DEF MutePut, DigitalFollows, Dimmed, Out16
        <4>1. CASE p = o
          BY <3>1, <3>2, <4>1 DEF Holds
        <4>2. CASE p # o
          BY <1>2, <3>1, <3>2, <4>2 DEF MutePut, Inv, DigitalFollows
        <4> QED BY <4>1, <4>2
      <3> QED BY <3>3, <3>4 DEF Inv
    <2>2. CASE WritesSome(o, regs) /\ UNCHANGED muted
      BY <1>2, <2>2, WriteFails DEF MutePut, Inv, DimReturns
    <2> QED BY <1>2, <2>1, <2>2 DEF MutePut
  <1>3. ASSUME DimPut PROVE Inv'
    <2> DEFINE on == ~dim
               s == IF on THEN master[Phones] ELSE dim_saved
               regs == Regs(muted[Phones], on, s)
    <2>1. s = master[Phones] /\ (on => dim_saved' = master[Phones])
      BY <1>3 DEF DimPut, Inv, DimReturns
    <2>2. Phones \in Outs /\ Dimmed(Phones, on) = on
      BY OutputsAssumption DEF Dimmed, Inv, Shape
    <2>3. CASE WritesAll(Phones, regs) /\ dim' = on
      <3>1. /\ DOMAIN wire' = Outs
            /\ \A p \in Outs : DOMAIN wire'[p] = 1..4
            /\ \A p \in Outs : p # Phones => wire'[p] = wire[p]
            /\ Holds(wire', Phones, muted[Phones], on, master[Phones])
        BY <2>1, <2>2, <2>3, WriteDigital DEF Inv, WritesAll, Digital
      <3>2. Shape' /\ DimReturns' /\ AsleepHoldsNothing' /\ PollAwake'
        BY <1>3, <2>1, <2>3, <3>1
           DEF DimPut, Inv, Shape, DimReturns, AsleepHoldsNothing, PollAwake, Running
      <3>3. DigitalFollows'
        <4> SUFFICES ASSUME NEW p \in Outs, NEW ch \in Sides
                     PROVE  wire'[p][2 + ch]
                              \in {Out16(muted[p], Dimmed(p, on), master[p][ch]), Unknown}
          BY <1>3, <2>3 DEF DimPut, DigitalFollows, Dimmed, Out16
        <4>1. CASE p = Phones
          BY <3>1, <4>1 DEF Holds
        <4>2. CASE p # Phones
          <5>1. Out16(muted[p], Dimmed(p, on), master[p][ch])
                  = Out16(muted[p], Dimmed(p, dim), master[p][ch])
            BY <4>2 DEF Out16, Dimmed
          <5> QED BY <1>3, <3>1, <4>2, <5>1 DEF DimPut, Inv, DigitalFollows
        <4> QED BY <4>1, <4>2
      <3> QED BY <3>2, <3>3 DEF Inv
    <2>4. CASE WritesSome(Phones, regs) /\ UNCHANGED dim
      <3>1. Shape' /\ AsleepHoldsNothing' /\ PollAwake' /\ DigitalFollows'
        BY <1>3, <2>4, WriteFails DEF DimPut
      <3>2. DimReturns'
        BY <1>3, <2>1, <2>4 DEF DimPut, Inv, DimReturns
      <3> QED BY <3>1, <3>2 DEF Inv
    <2> QED BY <1>3, <2>3, <2>4 DEF DimPut
  <1> QED BY <1>1, <1>2, <1>3 DEF Controls

\* ... by the user and the firmware, ...
LEMMA UnitKeeps ==
    ASSUME Inv, Unit
    PROVE  Inv'
  <1> USE DEF cache, wheel, poll
  <1>1. ASSUME NEW o \in Outs, PressOut(o) PROVE Inv'
    BY <1>1, DigitalLeftAlone DEF PressOut, Inv, Shape, PollAwake, Running
  <1>2. ASSUME NEW dir, Click(dir) PROVE Inv'
    <2> DEFINE new == [wire[sel] EXCEPT ![1] = Moved, ![2] = Moved]
    <2>1. wire' = [wire EXCEPT ![sel] = new]
      BY <1>2 DEF Click
    <2>2. /\ DOMAIN new = DOMAIN wire[sel]
          /\ sel \in Outs => \A i \in Digital : new[i] = wire[sel][i]
      BY DEF Inv, Shape, Digital
    <2> HIDE DEF new
    <2>3. /\ DOMAIN wire' = Outs
          /\ \A p \in Outs : DOMAIN wire'[p] = 1..4
          /\ \A p \in Outs, i \in Digital : wire'[p][i] = wire[p][i]
      BY <2>1, <2>2 DEF Inv, Shape
    <2> QED BY <1>2, <2>3, DigitalLeftAlone DEF Click, Inv, PollAwake, Running
  <1> QED BY <1>1, <1>2 DEF Unit, Pairs

\* ... by the poll, ...
LEMMA PanelKeeps ==
    ASSUME Inv, Panel
    PROVE  Inv'
  <1> USE DEF cache, user, wheel, poll
  <1>1. ASSUME PollFirst PROVE Inv'
    BY <1>1, DigitalLeftAlone DEF PollFirst, Inv, Shape, PollAwake, Running
  <1>2. ASSUME NEW held \in BOOLEAN, Poll(held) PROVE Inv'
    BY <1>2, DigitalLeftAlone DEF Poll, Inv, Shape, PollAwake, Running
  <1>3. ASSUME WheelMuted PROVE Inv'
    <2>1. PICK Lost \in {{}, {1, 2}} :
              Write(panel_out, Regs(TRUE, FALSE, << 0, 0 >>), {1, 2}, Lost)
      BY <1>3 DEF WheelMuted, Remute, WritesBlindly
    <2>2. /\ DOMAIN wire' = Outs
          /\ \A p \in Outs : DOMAIN wire'[p] = 1..4
          /\ \A p \in Outs, i \in Digital : wire'[p][i] = wire[p][i]
      BY <2>1, WriteAnalog DEF Inv
    <2> QED BY <1>3, <2>2, DigitalLeftAlone
       DEF WheelMuted, ThenResync, Inv, PollAwake, Running
  <1>4. ASSUME OutWheel PROVE Inv'
    <2> DEFINE o == panel_out
               db == << OutWheelLevel(o, 1), OutWheelLevel(o, 2) >>
               to(fast) == OutWheelClicks(db, Abs(tick.delta),
                                          IF tick.delta > 0 THEN 1 ELSE -1, fast)
               s(fast) == << ToStep(to(fast)[1]), ToStep(to(fast)[2]) >>
    <2>1. PICK fast \in BOOLEAN :
              /\ WritesBlindly(o, Regs(FALSE, Dimmed(o, dim), s(fast)), {3, 4})
              /\ SetMaster(o, s(fast))
      BY <1>4 DEF OutWheel
    <2>2. PICK Lost \in {{}, {3, 4}} :
              Write(o, Regs(FALSE, Dimmed(o, dim), s(fast)), {3, 4}, Lost)
      BY <2>1 DEF WritesBlindly
    <2>3. /\ o \in Outs => FALSE = muted[o]
          /\ UNCHANGED <<muted, dim, panel>> /\ Running
      BY <1>4 DEF OutWheel, Inv, Shape, PollAwake, Running
    <2> HIDE DEF s
    <2> QED BY <2>1, <2>2, <2>3, WriteAndSet DEF Digital
  <1>5. ASSUME BalanceWheel PROVE Inv'
    <2> DEFINE o == panel_out
               db == << ToDb(master[o][1]), ToDb(master[o][2]) >>
               to == BalanceClicks(db, tick.delta)
               s == << ToStep(to[1]), ToStep(to[2]) >>
    <2>1. /\ o \in Outs => FALSE = muted[o]
          /\ UNCHANGED <<muted, dim, panel>> /\ Running
          /\ PollAwake'
      BY <1>5 DEF BalanceWheel, ThenResync, Inv, Shape, PollAwake, Running
    <2>2. CASE UNCHANGED <<master, dim_saved, wire>>
      BY <2>1, <2>2, DigitalLeftAlone DEF Inv, Shape, Running
    <2>3. CASE /\ WritesBlindly(o, Regs(FALSE, Dimmed(o, dim), s), 1..4)
               /\ SetMaster(o, s)
      <3> HIDE DEF s
      <3>1. PICK Lost \in {{}, 1..4} :
                Write(o, Regs(FALSE, Dimmed(o, dim), s), 1..4, Lost)
        BY <2>3 DEF WritesBlindly
      <3>2. Digital \subseteq (1..4) \cup Lost
        BY DEF Digital
      <3> QED BY <2>1, <2>3, <3>1, <3>2, WriteAndSet
    <2> QED BY <1>5, <2>2, <2>3 DEF BalanceWheel
  <1>6. ASSUME PollEnds PROVE Inv'
    <2> DEFINE regs == Regs(FALSE, Dimmed(wheel_out, dim), last[wheel_out])
    <2>1. /\ UNCHANGED <<master, muted, dim, dim_saved, panel>>
          /\ PollAwake' /\ Running
      BY <1>6 DEF PollEnds, Idle, Inv, PollAwake, Running
    <2>2. CASE UNCHANGED wire
      BY <2>1, <2>2, DigitalLeftAlone DEF Inv, Shape, Running
    <2>3. CASE /\ WheelHasMaster(wheel_out) /\ ~muted[wheel_out]
               /\ WritesBlindly(wheel_out, regs, 1..4)
      <3>1. PICK Lost \in {{}, 1..4} : Write(wheel_out, regs, 1..4, Lost)
        BY <2>3 DEF WritesBlindly
      <3>2. /\ DOMAIN wire' = Outs
            /\ \A p \in Outs : DOMAIN wire'[p] = 1..4
            /\ \A p \in Outs : p # wheel_out => wire'[p] = wire[p]
            /\ wheel_out \in Outs =>
                  Holds(wire', wheel_out, FALSE, dim, last[wheel_out])
        <4>1. Digital \subseteq (1..4) \cup Lost
          BY DEF Digital
        <4> QED BY <3>1, <4>1, WriteDigital DEF Inv
      <3>3. wheel_out \in Outs =>
               muted[wheel_out] = FALSE /\ last[wheel_out] = master[wheel_out]
        BY <2>3 DEF WheelHasMaster, Inv, Shape
      <3>4. Shape' /\ DimReturns' /\ AsleepHoldsNothing'
        BY <2>1, <3>2 DEF Inv, Shape, DimReturns, AsleepHoldsNothing, Running
      <3>5. DigitalFollows'
        <4> SUFFICES ASSUME NEW p \in Outs, NEW ch \in Sides, Running
                     PROVE  wire'[p][2 + ch]
                              \in {Out16(muted[p], Dimmed(p, dim), master[p][ch]), Unknown}
          BY <2>1 DEF DigitalFollows, Dimmed, Out16, Running
        <4>1. CASE p = wheel_out
          BY <3>2, <3>3, <4>1 DEF Holds
        <4>2. CASE p # wheel_out
          BY <3>2, <4>2 DEF Inv, DigitalFollows
        <4> QED BY <4>1, <4>2
      <3> QED BY <2>1, <3>4, <3>5 DEF Inv
    <2> QED BY <1>6, <2>2, <2>3 DEF PollEnds
  <1> QED BY <1>1, <1>2, <1>3, <1>4, <1>5, <1>6 DEF Panel

\* ... and by a suspend and a resume, also one that fails.
LEMMA PowerKeeps ==
    ASSUME Inv, Power
    PROVE  Inv'
  <1> USE DEF cache, user, wheel
  <1>1. ASSUME Suspend PROVE Inv'
    BY <1>1 DEF Suspend, Inv, Shape, DimReturns, AsleepHoldsNothing, PollAwake,
                DigitalFollows, Running, Digital
  <1>2. ASSUME Resume PROVE Inv'
    <2>1. \A m, d, t : DOMAIN Regs(m, d, t) = 1..4
      BY DEF Regs
    <2>2. Shape'
      BY <1>2, <2>1 DEF Resume, Restored, Inv, Shape
    <2>3. DimReturns' /\ AsleepHoldsNothing' /\ PollAwake'
      BY <1>2 DEF Resume, Inv, DimReturns, AsleepHoldsNothing, PollAwake, Running
    <2>4. DigitalFollows'
      BY <1>2 DEF Resume, Restored, Regs, DigitalFollows, Dimmed, Out16, Sides
    <2> QED BY <2>2, <2>3, <2>4 DEF Inv
  <1>3. ASSUME ResumeFails PROVE Inv'
    BY <1>3, DigitalLeftAlone DEF ResumeFails, Inv, Shape, PollAwake, Running
  <1> QED BY <1>1, <1>2, <1>3 DEF Power

----------------------------------------------------------------------------
\* The invariant holds throughout.
THEOREM OutputsInvariant == Spec => []Inv
  <1>1. Init => Inv
    BY InvInit
  <1>2. Inv /\ [Next]_vars => Inv'
    <2>1. Inv /\ Next => Inv'
      BY PutsKeep, UnitKeeps, PanelKeeps, PowerKeeps DEF Next
    <2>2. Inv /\ UNCHANGED vars => Inv'
      BY DEF vars, cache, user, wheel, poll, Inv, Shape, DimReturns,
             AsleepHoldsNothing, PollAwake, DigitalFollows, Dimmed, Out16, Running
    <2> QED BY <2>1, <2>2
  <1> QED BY <1>1, <1>2, PTL DEF Spec

\* Unless a write has failed, the digital level of an output is what its
\* controls read, through every interleaving of bf_master_put, bf_mute_put,
\* bf_dim_put, the OUT wheel, the balance, the resync and resume.
THEOREM DigitalLevels == Spec => []DigitalFollows
  <1>1. Inv => DigitalFollows
    BY DEF Inv
  <1> QED BY <1>1, OutputsInvariant, PTL

----------------------------------------------------------------------------
\* Induction, in terms of a set of numbers: the lemmas about what recursive
\* functions compute rest on it.
LEMMA SetInduction ==
    ASSUME NEW S \in SUBSET Nat, 0 \in S, \A n \in S : n + 1 \in S
    PROVE  S = Nat
  <1> SUFFICES ASSUME Nat \ S # {} PROVE FALSE
    OBVIOUS
  <1> DEFINE T == {0..k : k \in Nat \ S}
  <1>1. \A k \in Nat : 0..k \in FiniteSubsetsOf(Nat)
    BY FS_Interval DEF FiniteSubsetsOf
  <1>1a. T \subseteq FiniteSubsetsOf(Nat) /\ T # {}
    BY <1>1
  <1>2. PICK x \in T : \A y \in T : ~(<<y, x>> \in StrictSubsetOrdering(Nat))
    <2> HIDE DEF T
    <2> QED BY <1>1a, FS_StrictSubsetOrderingWellFounded, WFMin
  <1>3. PICK m \in Nat \ S : x = 0..m
    OBVIOUS
  <1>4. m # 0 /\ m - 1 \in Nat /\ m - 1 + 1 = m
    OBVIOUS
  <1>5. m - 1 \notin S
    BY <1>4
  <1>6. 0..(m - 1) \in T
    BY <1>4, <1>5
  <1>7. <<0..(m - 1), 0..m>> \in StrictSubsetOrdering(Nat)
    <2>1. 0..(m-1) \subseteq 0..m /\ m \in 0..m /\ m \notin 0..(m-1)
      BY <1>4
    <2>2. 0..(m-1) # 0..m
      BY <2>1
    <2> QED BY <2>1, <2>2, <1>4, <1>1 DEF StrictSubsetOrdering
  <1> QED BY <1>2, <1>3, <1>6, <1>7

\* f goes from a in n steps.
Iterates(f, A, a, n, step) ==
    f \in [0..n -> A] /\ f[0] = a /\ \A i \in 1..n : f[i] = step[i][f[i - 1]]

\* A function that each argument defines from its predecessor exists.
LEMMA Recursion ==
    ASSUME NEW A, NEW a \in A, NEW n \in Nat, NEW step \in [Nat -> [A -> A]]
    PROVE  \E f : Iterates(f, A, a, n, step)
  <1> DEFINE Upto(k) == \E f : Iterates(f, A, a, k, step)
             S == {k \in Nat : Upto(k)}
  <1>1. 0 \in S
    <2> DEFINE f == [i \in 0..0 |-> a]
    <2>1. f \in [0..0 -> A] /\ f[0] = a
      OBVIOUS
    <2>2. \A i \in 1..0 : f[i] = step[i][f[i - 1]]
      OBVIOUS
    <2> HIDE DEF f
    <2>3. Iterates(f, A, a, 0, step)
      BY <2>1, <2>2 DEF Iterates
    <2> QED BY <2>3
  <1>2. ASSUME NEW k \in S PROVE k + 1 \in S
    <2>0. k \in Nat /\ k + 1 \in Nat
      OBVIOUS
    <2>1. PICK f : Iterates(f, A, a, k, step)
      OBVIOUS
    <2>1a. f \in [0..k -> A] /\ f[0] = a /\ \A i \in 1..k : f[i] = step[i][f[i - 1]]
      BY <2>1 DEF Iterates
    <2> HIDE DEF S
    <2> DEFINE g == [i \in 0..(k + 1) |-> IF i = k + 1 THEN step[k + 1][f[k]] ELSE f[i]]
    <2>2. step[k + 1][f[k]] \in A
      BY <2>0, <2>1a
    <2>3. g \in [0..(k + 1) -> A]
      BY <2>0, <2>1a, <2>2
    <2>4. g[k + 1] = step[k + 1][f[k]] /\ \A i \in 0..k : g[i] = f[i]
      BY <2>0
    <2> HIDE DEF g
    <2>5. \A i \in 1..(k + 1) : g[i] = step[i][g[i - 1]]
      <3> SUFFICES ASSUME NEW i \in 1..(k + 1) PROVE g[i] = step[i][g[i - 1]]
        OBVIOUS
      <3>1. CASE i = k + 1
        BY <2>0, <2>4, <3>1
      <3>2. CASE i \in 1..k
        BY <2>0, <2>1a, <2>4, <3>2
      <3> QED BY <2>0, <3>1, <3>2
    <2>6. g[0] = a
      BY <2>0, <2>1a, <2>4
    <2>7. Iterates(g, A, a, k + 1, step)
      BY <2>3, <2>5, <2>6 DEF Iterates
    <2> QED BY <2>0, <2>7 DEF S
  <1>3. S = Nat
    <2> HIDE DEF S
    <2>1. S \in SUBSET Nat
      BY DEF S
    <2> QED BY <1>1, <1>2, <2>1, SetInduction
  <1> QED BY <1>3

\* The step of a zone, doubled when the wheel turns fast, fits the scale.
LEMMA WheelStep ==
    ASSUME NEW h
    PROVE  OutWheelStep(h) \in Nat \ {0} /\ 2 * OutWheelStep(h) < StepMax
  <1> DEFINE n == Len(WheelZones)
             B == {i \in 1..n : h < WheelZones[i]}
  <1>1. n \in Nat /\ Len(WheelSteps) = n + 1
    BY OutputsAssumption
  <1>2. IsFiniteSet(1..n) /\ Cardinality(1..n) = n
    <2> HIDE DEF n
    <2>1. /\ IsFiniteSet(1..n)
          /\ Cardinality(1..n) = IF 1 > n THEN 0 ELSE n - 1 + 1
      <3>1. 1 \in Int /\ n \in Int
        BY <1>1
      <3> QED BY <3>1, FS_Interval, Zenon
    <2> QED BY <1>1, <2>1
  <1>3. Cardinality(B) \in Nat /\ Cardinality(B) =< n
    <2>1. B \subseteq 1..n
      OBVIOUS
    <2> HIDE DEF B, n
    <2> QED BY <1>1, <1>2, <2>1, FS_Subset, FS_CardinalityType
  <1> DEFINE j == 1 + Cardinality(B)
  <1>4. j \in 1..Len(WheelSteps)
    <2> HIDE DEF B
    <2> QED BY <1>1, <1>3
  <1>5. OutWheelStep(h) = WheelSteps[j]
    BY DEF OutWheelStep
  <1> HIDE DEF j
  <1>6. WheelSteps[j] \in Nat \ {0} /\ 2 * WheelSteps[j] < StepMax
    BY <1>4, OutputsAssumption
  <1> QED BY <1>5, <1>6

\* The wheel's levels, of both sides.
Balanced(db) == /\ db \in [Sides -> Int]
                /\ Louder(db) =< StepMax - Step0

\* One click moves both sides alike, and no louder than the scale.
LEMMA OneClick ==
    ASSUME NEW db, Balanced(db), NEW x \in Int, x < StepMax
    PROVE  LET shift == OutWheelShift(Louder(db), x)
           IN  /\ shift \in Int
               /\ Balanced([ch \in Sides |-> db[ch] + shift])
  <1> DEFINE shift == OutWheelShift(Louder(db), x)
             new == [ch \in Sides |-> db[ch] + shift]
  <1>1. db[1] \in Int /\ db[2] \in Int /\ Louder(db) \in Int
    BY DEF Balanced, Sides, Louder
  <1>2. Step0 \in Nat \ {0} /\ StepMax \in Nat /\ Step0 =< StepMax
    BY OutputsAssumption
  <1>3. shift \in Int /\ Louder(db) + shift =< StepMax - Step0
    <2>1. Louder(db) =< StepMax - Step0
      BY DEF Balanced
    <2> DEFINE l == Louder(db)
    <2> HIDE DEF l
    <2>2. l \in Int /\ l =< StepMax - Step0
      BY <1>1, <2>1 DEF l
    <2>3. OutWheelShift(l, x) \in Int /\ l + OutWheelShift(l, x) =< StepMax - Step0
      BY <1>2, <2>2 DEF OutWheelShift, Floor, Mute
    <2> QED BY <2>3 DEF l
  <1> HIDE DEF shift
  <1>4. new[1] = db[1] + shift /\ new[2] = db[2] + shift
    BY DEF Sides
  <1>5. new \in [Sides -> Int]
    BY <1>1, <1>3 DEF Balanced
  <1> HIDE DEF new
  <1>6. Louder(new) = Louder(db) + shift
    BY <1>1, <1>3, <1>4 DEF Louder
  <1>7. Balanced(new)
    BY <1>3, <1>5, <1>6 DEF Balanced
  <1> QED BY <1>3, <1>7 DEF new, shift

\* Any number of clicks keeps the balance, and the scale.
LEMMA Clicks ==
    ASSUME NEW start, Balanced(start), NEW n \in Nat, NEW dir \in {-1, 1},
           NEW fast \in BOOLEAN
    PROVE  LET to == OutWheelClicks(start, n, dir, fast)
           IN  Balanced(to) /\ to[1] - to[2] = start[1] - start[2]
  <1> DEFINE Shift(x, i) ==
                OutWheelShift(Louder(x),
                              dir * OutWheelStep(AtLeast(Louder(x), Floor))
                                  * (IF fast \/ i > 1 THEN 2 ELSE 1))
             A == {x \in [Sides -> Int] : /\ Balanced(x)
                                          /\ x[1] - x[2] = start[1] - start[2]}
             Moved1(i, x) == [ch \in Sides |-> x[ch] + Shift(x, i)]
             step == [i \in Nat |-> [x \in A |-> Moved1(i, x)]]
             IsIt(f) == f = [i \in 0..n |-> IF i = 0 THEN start
                                ELSE [ch \in Sides |-> f[i - 1][ch] + Shift(f[i - 1], i)]]
             db == CHOOSE f : IsIt(f)
  <1>1. OutWheelClicks(start, n, dir, fast) = db[n]
    BY DEF OutWheelClicks
  <1>2. start \in A
    BY DEF Balanced
  <1>3. ASSUME NEW i \in Nat, NEW x \in A PROVE Moved1(i, x) \in A
    <2> DEFINE z == OutWheelStep(AtLeast(Louder(x), Floor))
               y == dir * z * (IF fast \/ i > 1 THEN 2 ELSE 1)
    <2>1. z \in Nat \ {0} /\ 2 * z < StepMax
      BY WheelStep
    <2> HIDE DEF z
    <2>2. y \in Int /\ y < StepMax
      <3>1. PICK k \in {1, 2} : k = (IF fast \/ i > 1 THEN 2 ELSE 1)
        OBVIOUS
      <3>2. y = dir * z * k
        BY <3>1
      <3>3. StepMax \in Nat
        BY OutputsAssumption
      <3> HIDE DEF y
      <3> QED  BY ONLY <2>1, <3>2, <3>3, k \in {1, 2}, dir \in {-1, 1}
    <2>3. Shift(x, i) = OutWheelShift(Louder(x), y)
      BY DEF z
    <2> HIDE DEF y, Shift
    <2>4. Shift(x, i) \in Int /\ Balanced(Moved1(i, x))
      BY <2>2, <2>3, OneClick
    <2> DEFINE m == Moved1(i, x)
    <2>5. m[1] = x[1] + Shift(x, i) /\ m[2] = x[2] + Shift(x, i)
      BY DEF Sides
    <2>6. x[1] \in Int /\ x[2] \in Int /\ x[1] - x[2] = start[1] - start[2]
      BY DEF Sides
    <2>7. start[1] \in Int /\ start[2] \in Int
      BY DEF Balanced, Sides
    <2>8. m[1] - m[2] = start[1] - start[2]
      <3> HIDE DEF m, Moved1
      <3> QED BY <2>4, <2>5, <2>6, <2>7
    <2> QED BY <2>4, <2>8 DEF Balanced
  <1>4. step \in [Nat -> [A -> A]]
    BY <1>3
  <1>5. PICK f : Iterates(f, A, start, n, step)
    <2> HIDE DEF A, step
    <2> QED BY <1>2, <1>4, Recursion
  <1>6. IsIt(f)
    <2>0. /\ f \in [0..n -> A] /\ f[0] = start
          /\ \A i \in 1..n : f[i] = step[i][f[i - 1]]
      <3> HIDE DEF A, step
      <3> QED BY <1>5 DEF Iterates
    <2>1. ASSUME NEW i \in 1..n PROVE f[i] = Moved1(i, f[i - 1])
      <3>1. i \in Nat /\ f[i - 1] \in A
        <4> HIDE DEF A, step
        <4> QED BY <2>0
      <3>2. step[i][f[i - 1]] = Moved1(i, f[i - 1])
        <4> HIDE DEF Moved1, A
        <4> QED BY <3>1
      <3> HIDE DEF A, step, Moved1
      <3> QED BY <2>0, <3>2
    <2>2. f = [i \in 0..n |-> f[i]]
      <3> HIDE DEF A
      <3> QED BY <2>0
    <2>3. \A i \in 0..n :
             f[i] = IF i = 0 THEN start
                    ELSE [ch \in Sides |-> f[i - 1][ch] + Shift(f[i - 1], i)]
      <3> SUFFICES ASSUME NEW i \in 0..n
                   PROVE  f[i] = IF i = 0 THEN start ELSE Moved1(i, f[i - 1])
        OBVIOUS
      <3> HIDE DEF A, step, Moved1
      <3> QED BY <2>0, <2>1
    <2> HIDE DEF A, step, Shift
    <2> QED BY <2>2, <2>3
  <1>7. IsIt(db)
    <2> HIDE DEF IsIt
    <2> QED BY <1>6
  <1>8. db[n] \in A
    <2>1. ASSUME NEW k \in 0..n, db[k] \in A, k < n PROVE db[k + 1] \in A
      <3> DEFINE y == db[k]
      <3>1. db[k + 1] = Moved1(k + 1, y)
        <4>1. k + 1 \in 0..n /\ k + 1 # 0 /\ k + 1 - 1 = k
          BY <2>1
        <4>2. \A i \in 0..n : db[i] = IF i = 0 THEN start ELSE Moved1(i, db[i - 1])
          <5> HIDE DEF db, Shift
          <5> QED BY <1>7
        <4> HIDE DEF db, Moved1
        <4> QED BY <4>1, <4>2
      <3>2. k + 1 \in Nat /\ y \in A
        <4> HIDE DEF db, A
        <4> QED BY <2>1
      <3> HIDE DEF db, Moved1, A
      <3> QED BY <1>3, <3>1, <3>2
    <2> DEFINE S == {k \in Nat : k =< n => db[k] \in A}
    <2>2. 0 \in S
      <3>1. 0 \in 0..n
        OBVIOUS
      <3>2. db[0] = start
        <4> HIDE DEF db, Shift
        <4> QED BY <1>7, <3>1
      <3> HIDE DEF db, A
      <3> QED BY <1>2, <3>2
    <2>3. \A k \in S : k + 1 \in S
      <3> HIDE DEF db, A
      <3> QED BY <2>1
    <2>4. S \in SUBSET Nat
      OBVIOUS
    <2>5. S = Nat
      <3> HIDE DEF S
      <3> QED BY <2>2, <2>3, <2>4, SetInduction
    <2> HIDE DEF db, A
    <2> QED BY <2>5
  <1> QED BY <1>1, <1>8

\* Holding SELECT never moves a side above the louder one, nor below mute.
LEMMA BalanceBounds ==
    ASSUME NEW db, Balanced(db), Louder(db) >= Floor, NEW delta \in Int
    PROVE  LET to == BalanceClicks(db, delta)
           IN  \A ch \in Sides : to[ch] \in Mute..Louder(db)
  <1> DEFINE n == Abs(delta)
             sign == IF delta > 0 THEN 1 ELSE -1
             Next1(x) == x + sign * OutWheelStep(-Abs(x))
             step == [i \in Nat |-> [x \in Int |-> Next1(x)]]
             IsIt(f) == f = [i \in 0..Abs(delta) |->
                               IF i = 0 THEN db[2] - db[1]
                               ELSE f[i - 1] + (IF delta > 0 THEN 1 ELSE -1)
                                                 * OutWheelStep(-Abs(f[i - 1]))]
             bal == CHOOSE f : IsIt(f)
             raw == bal[Abs(delta)]
  <1>1. db[1] \in Int /\ db[2] \in Int
    BY DEF Balanced, Sides
  <1>2. n \in Nat /\ sign \in Int
    BY DEF Abs
  <1>3. ASSUME NEW x \in Int PROVE Next1(x) \in Int
    <2> DEFINE z == OutWheelStep(-Abs(x))
    <2>1. z \in Nat
      BY WheelStep
    <2>2. sign * z \in Int
      <3> HIDE DEF z
      <3> QED BY <2>1
    <2>3. Next1(x) = x + sign * z
      OBVIOUS
    <2> HIDE DEF z, sign, Next1
    <2> QED BY <2>2, <2>3
  <1>4. step \in [Nat -> [Int -> Int]]
    BY <1>3
  <1>5. db[2] - db[1] \in Int
    BY <1>1
  <1>6. PICK f : Iterates(f, Int, db[2] - db[1], n, step)
    <2> HIDE DEF n, step
    <2> QED BY <1>2, <1>4, <1>5, Recursion
  <1>7. /\ f \in [0..n -> Int] /\ f[0] = db[2] - db[1]
        /\ \A i \in 1..n : f[i] = step[i][f[i - 1]]
    <2> HIDE DEF n, step
    <2> QED BY <1>6 DEF Iterates
  <1>8. IsIt(f)
    <2>1. f = [i \in 0..n |-> f[i]]
      <3> HIDE DEF n
      <3> QED BY <1>7
    <2>2. \A i \in 0..n : f[i] = IF i = 0 THEN db[2] - db[1] ELSE Next1(f[i - 1])
      <3> SUFFICES ASSUME NEW i \in 0..n
                   PROVE  f[i] = IF i = 0 THEN db[2] - db[1] ELSE Next1(f[i - 1])
        OBVIOUS
      <3>1. i # 0 => i \in 1..n /\ i \in Nat /\ f[i - 1] \in Int
        <4> HIDE DEF n, step
        <4> QED BY <1>2, <1>7
      <3>2. i # 0 => step[i][f[i - 1]] = Next1(f[i - 1])
        <4> HIDE DEF n, Next1
        <4> QED BY <3>1
      <3> HIDE DEF n, step, Next1
      <3> QED BY <1>7, <3>1, <3>2
    <2> HIDE DEF n
    <2> QED BY <2>1, <2>2 DEF n
  <1>9. IsIt(bal)
    <2> HIDE DEF IsIt
    <2> QED BY <1>8
  <1>10. raw \in Int
    <2>1. \A i \in 0..n : bal[i] = IF i = 0 THEN db[2] - db[1] ELSE Next1(bal[i - 1])
      <3> HIDE DEF bal
      <3> QED BY <1>9
    <2> DEFINE S == {k \in Nat : k =< n => bal[k] \in Int}
    <2> HIDE DEF bal, n, Next1
    <2>2. 0 \in S
      BY <1>2, <1>5, <2>1
    <2>3. ASSUME NEW k \in S PROVE k + 1 \in S
      <3>1. k + 1 =< n => bal[k] \in Int /\ bal[k + 1] = Next1(bal[k])
        <4>1. k + 1 =< n => k =< n /\ k + 1 \in 0..n /\ k + 1 # 0 /\ k + 1 - 1 = k
          BY <1>2
        <4> QED BY <2>1, <4>1
      <3> QED BY <1>3, <3>1
    <2>4. S = Nat
      <3>1. S \in SUBSET Nat
        OBVIOUS
      <3> HIDE DEF S
      <3> QED BY <2>2, <2>3, <3>1, SetInduction
    <2>5. bal[n] \in Int
      BY <1>2, <2>4
    <2> QED BY <2>5 DEF n
  <1> DEFINE lim == Louder(db) - Mute
             b == IF raw > lim THEN lim ELSE IF raw < -lim THEN -lim ELSE raw
             to == << IF b > 0 THEN Louder(db) - b ELSE Louder(db),
                      IF b < 0 THEN Louder(db) + b ELSE Louder(db) >>
  <1>11. BalanceClicks(db, delta) = to
    BY DEF BalanceClicks
  <1>12. to[1] \in Mute..Louder(db) /\ to[2] \in Mute..Louder(db)
    <2> HIDE DEF raw
    <2>1. Louder(db) \in Int /\ Mute \in Int /\ Louder(db) - Mute \in Nat
      BY <1>1, OutputsAssumption DEF Louder, Mute, Floor
    <2> QED BY <1>10, <2>1
  <1> HIDE DEF to
  <1> QED BY <1>11, <1>12 DEF Sides

----------------------------------------------------------------------------
\* The types, by who keeps them; what a poll in progress has read; and the
\* wheel's own count, which its steps come from.
Ticks == [at : {"idle", "wheel", "resync"}, delta : Int, out : Outs \cup {NoOut},
          held : BOOLEAN]
Values == Steps \cup {Moved, Unknown}

ControlTypes == /\ master \in [Outs -> [Sides -> Steps]]
                /\ muted \in [Outs -> BOOLEAN] /\ dim \in BOOLEAN
                /\ dim_saved \in [Sides -> Steps]
WireTypes == wire \in [Outs -> [1..4 -> Values]]
UserTypes == sel \in Outs /\ clicks \in Int
WheelTypes == /\ last \in [Outs -> [Sides -> Steps \cup {NoStep}]]
              /\ hdb \in [Outs -> [Sides -> Int]]
              /\ wheel_out \in Outs \cup {0} /\ resync \in BOOLEAN
PollTypes == /\ panel_out \in Outs \cup {0} /\ tick \in Ticks
             /\ panel \in {"stopped", "started", "seen", "asleep"}

PollReads == tick.at = "idle" <=> tick.out = NoOut

WheelCounts == \A o \in Outs, ch \in Sides :
                  last[o][ch] # NoStep => last[o][ch] = ToStep(hdb[o][ch])

TypeInv == /\ ControlTypes /\ WireTypes /\ UserTypes /\ WheelTypes /\ PollTypes
           /\ PollReads /\ WheelCounts

\* The parts are the type invariant.
LEMMA TypesAreParts ==
    TypeOK <=> ControlTypes /\ WireTypes /\ UserTypes /\ WheelTypes /\ PollTypes
  BY DEF TypeOK, ControlTypes, WireTypes, UserTypes, WheelTypes, PollTypes, Ticks, Values

\* A pair is what a function of the two sides is.
LEMMA Pair ==
    ASSUME NEW T, NEW a \in T, NEW b \in T
    PROVE  << a, b >> \in [Sides -> T]
  <1>1. 1..2 = {1, 2}
    OBVIOUS
  <1> QED BY <1>1 DEF Sides

\* What is written to registers is a step of the scale.
LEMMA RegsTypes ==
    ASSUME NEW m, NEW d, NEW s \in [Sides -> Steps]
    PROVE  \A i \in 1..4 : Regs(m, d, s)[i] \in Steps
  <1>1. 0 \in Steps /\ StepDim \in Steps /\ Step8Min \in Steps
    BY OutputsAssumption DEF Steps
  <1>2. s[1] \in Steps /\ s[2] \in Steps
    BY DEF Sides
  <1>3. \A x \in Steps : Out8(m, d, x) \in Steps /\ Out16(m, d, x) \in Steps
    BY <1>1 DEF Out8, Out16, Reg8
  <1> QED BY <1>2, <1>3 DEF Regs

\* A write of steps keeps the registers' types.
LEMMA WriteTypes ==
    ASSUME WireTypes, NEW o, NEW regs, NEW W, NEW Lost,
           o \in Outs => \A i \in 1..4 : regs[i] \in Steps,
           Write(o, regs, W, Lost)
    PROVE  WireTypes'
  <1> DEFINE new == [i \in 1..4 |-> IF i \in Lost THEN Unknown
                                    ELSE IF i \in W THEN regs[i] ELSE wire[o][i]]
  <1>1. wire' = [wire EXCEPT ![o] = new]
    BY DEF Write
  <1>2. o \in Outs => new \in [1..4 -> Values]
    BY DEF WireTypes, Values
  <1> HIDE DEF new
  <1> QED BY <1>1, <1>2 DEF WireTypes

\* A level of the wheel is a step of the scale, ...
LEMMA ToStepTypes ==
    ASSUME NEW x \in Int, x =< StepMax - Step0
    PROVE  ToStep(x) \in Steps
  BY OutputsAssumption DEF ToStep, Floor, Steps

\* ... and a step a level.
LEMMA ToDbTypes ==
    ASSUME NEW x \in Steps
    PROVE  ToDb(x) \in Int /\ ToDb(x) =< StepMax - Step0
  BY OutputsAssumption DEF ToDb, Mute, Floor, Steps

\* A master that is set is set to steps.
LEMMA SetTypes ==
    ASSUME ControlTypes, NEW o, NEW s, o \in Outs => s \in [Sides -> Steps],
           SetMaster(o, s), UNCHANGED <<muted, dim>>
    PROVE  ControlTypes'
  <1>1. Dimmed(o, dim) => o \in Outs
    BY OutputsAssumption DEF Dimmed
  <1>2. dim_saved' \in [Sides -> Steps]
    BY <1>1 DEF SetMaster, ControlTypes
  <1>3. master' \in [Outs -> [Sides -> Steps]]
    BY DEF SetMaster, ControlTypes
  <1> QED BY <1>2, <1>3 DEF ControlTypes

\* The wheel reaches level `to` on output o.
TurnsTo(o, to) ==
    LET s == << ToStep(to[1]), ToStep(to[2]) >>
    IN /\ Balanced(to)
       /\ master[o] = last[o] => to[1] - to[2] = hdb[o][1] - hdb[o][2]
       /\ WritesBlindly(o, Regs(FALSE, Dimmed(o, dim), s), {3, 4})
       /\ SetMaster(o, s)
       /\ last' = [last EXCEPT ![o] = s]
       /\ hdb' = [hdb EXCEPT ![o] = << to[1], to[2] >>]

\* The levels that a turn starts from fit the scale.
LEMMA LevelsFit ==
    ASSUME TypeInv, NEW o \in Outs
    PROVE  Balanced(<< OutWheelLevel(o, 1), OutWheelLevel(o, 2) >>)
  <1>1. ASSUME NEW ch \in Sides
        PROVE  OutWheelLevel(o, ch) \in Int /\ OutWheelLevel(o, ch) =< StepMax - Step0
    <2>1. master[o][ch] \in Steps /\ hdb[o][ch] \in Int
      BY DEF TypeInv, ControlTypes, WheelTypes
    <2>2. CASE master[o][ch] = last[o][ch]
      <3>1. NoStep \notin Steps
        BY DEF NoStep, Steps
      <3>2. master[o][ch] = ToStep(hdb[o][ch])
        BY <2>1, <2>2, <3>1 DEF TypeInv, WheelCounts
      <3>3. hdb[o][ch] =< StepMax - Step0
        BY <2>1, <3>2, OutputsAssumption DEF ToStep, Floor, Steps
      <3> QED BY <2>1, <2>2, <3>3 DEF OutWheelLevel
    <2>3. CASE master[o][ch] # last[o][ch]
      BY <2>1, <2>3, ToDbTypes DEF OutWheelLevel
    <2> QED BY <2>2, <2>3
  <1> DEFINE a == OutWheelLevel(o, 1)
             b == OutWheelLevel(o, 2)
  <1>2. a \in Int /\ b \in Int /\ a =< StepMax - Step0 /\ b =< StepMax - Step0
    BY <1>1 DEF Sides
  <1> HIDE DEF a, b
  <1>3. << a, b >> \in [Sides -> Int]
    BY <1>2, Pair
  <1>4. Louder(<< a, b >>) =< StepMax - Step0
    BY <1>2 DEF Louder
  <1> QED BY <1>3, <1>4 DEF Balanced, a, b

\* What a turn of the OUT wheel does.
LEMMA OutWheelTurns ==
    ASSUME TypeInv, OutWheel, panel_out \in Outs
    PROVE  \E to : TurnsTo(panel_out, to)
  <1> DEFINE o == panel_out
             db == << OutWheelLevel(o, 1), OutWheelLevel(o, 2) >>
             dir == IF tick.delta > 0 THEN 1 ELSE -1
             to(fast) == OutWheelClicks(db, Abs(tick.delta), dir, fast)
             s(fast) == << ToStep(to(fast)[1]), ToStep(to(fast)[2]) >>
  <1>1. PICK fast \in BOOLEAN :
            /\ WritesBlindly(o, Regs(FALSE, Dimmed(o, dim), s(fast)), {3, 4})
            /\ SetMaster(o, s(fast))
            /\ last' = [last EXCEPT ![o] = s(fast)]
            /\ hdb' = [hdb EXCEPT ![o] = << to(fast)[1], to(fast)[2] >>]
    BY DEF OutWheel
  <1>2. Balanced(db)
    BY LevelsFit
  <1>3. Abs(tick.delta) \in Nat /\ dir \in {-1, 1}
    BY DEF TypeInv, PollTypes, Ticks, Abs
  <1>4. master[o] = last[o] => db[1] = hdb[o][1] /\ db[2] = hdb[o][2]
    BY DEF OutWheelLevel
  <1>5. Balanced(to(fast)) /\ to(fast)[1] - to(fast)[2] = db[1] - db[2]
    <2> HIDE DEF db, dir
    <2> QED BY <1>2, <1>3, Clicks
  <1> HIDE DEF db, dir, to
  <1>6. TurnsTo(o, to(fast))
    BY <1>1, <1>4, <1>5 DEF TurnsTo
  <1> QED BY <1>6

\* The values a turn leaves are steps.
LEMMA TurnTypes ==
    ASSUME NEW to, Balanced(to)
    PROVE  /\ << ToStep(to[1]), ToStep(to[2]) >> \in [Sides -> Steps]
           /\ << to[1], to[2] >> \in [Sides -> Int]
  <1>1. to[1] \in Int /\ to[2] \in Int
    BY DEF Balanced, Sides
  <1>2. to[1] =< StepMax - Step0 /\ to[2] =< StepMax - Step0
    BY <1>1, OutputsAssumption DEF Balanced, Louder
  <1>3. ToStep(to[1]) \in Steps /\ ToStep(to[2]) \in Steps
    BY <1>1, <1>2, ToStepTypes
  <1> QED BY <1>1, <1>3, Pair

\* The types hold at first ...
LEMMA TypesInit == Init => TypeInv
  <1> SUFFICES ASSUME Init PROVE TypeInv
    OBVIOUS
  <1>1. \A o \in Outs : Default(o) \in [Sides -> Steps]
    BY OutputsAssumption DEF Default, Steps
  <1>2. \A o \in Outs : Regs(FALSE, FALSE, Default(o)) \in [1..4 -> Values]
    <2> SUFFICES ASSUME NEW o \in Outs
                 PROVE  Regs(FALSE, FALSE, Default(o)) \in [1..4 -> Values]
      OBVIOUS
    <2> DEFINE regs == Regs(FALSE, FALSE, Default(o))
    <2>1. \A i \in 1..4 : regs[i] \in Values
      BY <1>1, RegsTypes DEF Values
    <2>2. regs = [i \in 1..4 |-> regs[i]]
      BY DEF Regs
    <2> HIDE DEF regs
    <2> QED BY <2>1, <2>2 DEF regs
  <1>3. ControlTypes
    <2>1. 0 \in Steps
      BY OutputsAssumption DEF Steps
    <2> QED BY <1>1, <2>1 DEF Init, ControlTypes
  <1>4. WireTypes
    BY <1>2 DEF Init, WireTypes
  <1>5. UserTypes /\ WheelTypes /\ WheelCounts
    <2>1. UserTypes
      BY DEF Init, UserTypes, Pairs
    <2>2. \A o \in Outs, ch \in Sides : last[o][ch] = NoStep /\ hdb[o][ch] = 0
      BY DEF Init
    <2>3. WheelTypes
      <3>1. [ch \in Sides |-> NoStep] \in [Sides -> Steps \cup {NoStep}]
        OBVIOUS
      <3>2. [ch \in Sides |-> 0] \in [Sides -> Int]
        OBVIOUS
      <3> QED BY <3>1, <3>2 DEF Init, WheelTypes
    <2> QED BY <2>1, <2>2, <2>3 DEF WheelCounts
  <1>6. PollTypes /\ PollReads
    BY DEF Init, PollTypes, PollReads, Idle, Ticks
  <1> QED BY <1>3, <1>4, <1>5, <1>6 DEF TypeInv

\* ... and are kept by the puts, ...
LEMMA PutsKeepTypes ==
    ASSUME TypeInv, Controls
    PROVE  TypeInv'
  <1>1. UNCHANGED <<user, wheel, poll>>
    BY DEF Controls, MasterPut, MutePut, DimPut
  <1>2. /\ UserTypes' /\ WheelTypes' /\ PollTypes' /\ PollReads' /\ WheelCounts'
    BY <1>1 DEF TypeInv, UserTypes, WheelTypes, PollTypes, PollReads, WheelCounts,
                user, wheel, poll
  <1>3. ASSUME NEW o \in Outs, NEW s \in Levels[o], MasterPut(o, s)
        PROVE  ControlTypes' /\ WireTypes'
    <2>1. s \in [Sides -> Steps]
      BY OutputsAssumption
    <2>2. \A i \in 1..4 : Regs(muted[o], Dimmed(o, dim), s)[i] \in Steps
      BY <2>1, RegsTypes
    <2>3. WireTypes'
      BY <1>3, <2>2, WriteTypes DEF MasterPut, WritesAll, WritesSome, TypeInv
    <2>4. CASE SetMaster(o, s)
      BY <1>3, <2>1, <2>3, <2>4, SetTypes DEF MasterPut, TypeInv
    <2>5. CASE UNCHANGED <<master, dim_saved>>
      BY <1>3, <2>3, <2>5 DEF MasterPut, TypeInv, ControlTypes
    <2> QED BY <1>3, <2>4, <2>5 DEF MasterPut
  <1>4. ASSUME NEW o \in Outs, MutePut(o)
        PROVE  ControlTypes' /\ WireTypes'
    <2>1. \A i \in 1..4 : Regs(~muted[o], Dimmed(o, dim), master[o])[i] \in Steps
      BY RegsTypes DEF TypeInv, ControlTypes
    <2>2. WireTypes'
      BY <1>4, <2>1, WriteTypes DEF MutePut, WritesAll, WritesSome, TypeInv
    <2>3. ControlTypes'
      BY <1>4 DEF MutePut, TypeInv, ControlTypes
    <2> QED BY <2>2, <2>3
  <1>5. ASSUME DimPut PROVE ControlTypes' /\ WireTypes'
    <2> DEFINE on == ~dim
               s == IF on THEN master[Phones] ELSE dim_saved
    <2>1. s \in [Sides -> Steps] /\ Phones \in Outs
      BY OutputsAssumption DEF TypeInv, ControlTypes
    <2> HIDE DEF s
    <2>2. \A i \in 1..4 : Regs(muted[Phones], on, s)[i] \in Steps
      BY <2>1, RegsTypes
    <2>3. WireTypes'
      BY <1>5, <2>2, WriteTypes DEF DimPut, WritesAll, WritesSome, TypeInv, s
    <2>4. ControlTypes'
      BY <1>5, <2>1 DEF DimPut, TypeInv, ControlTypes
    <2> QED BY <2>3, <2>4
  <1> QED BY <1>2, <1>3, <1>4, <1>5 DEF Controls, TypeInv

\* ... by the user and the firmware, ...
LEMMA UnitKeepsTypes ==
    ASSUME TypeInv, Unit
    PROVE  TypeInv'
  <1>1. UNCHANGED <<cache, wheel, poll>>
    BY DEF Unit, PressOut, Click
  <1>2. /\ ControlTypes' /\ WheelTypes' /\ PollTypes' /\ PollReads' /\ WheelCounts'
    BY <1>1 DEF TypeInv, ControlTypes, WheelTypes, PollTypes, PollReads, WheelCounts,
                cache, wheel, poll
  <1>3. ASSUME NEW o \in Pairs, PressOut(o) PROVE WireTypes' /\ UserTypes'
    BY <1>3 DEF PressOut, TypeInv, WireTypes, UserTypes, Pairs
  <1>4. ASSUME NEW dir \in {-1, 1}, Click(dir) PROVE WireTypes' /\ UserTypes'
    <2>1. UserTypes'
      BY <1>4 DEF Click, TypeInv, UserTypes
    <2> DEFINE new == [wire[sel] EXCEPT ![1] = Moved, ![2] = Moved]
    <2>2. wire' = [wire EXCEPT ![sel] = new]
      BY <1>4 DEF Click
    <2>3. new \in [1..4 -> Values]
      BY DEF TypeInv, WireTypes, UserTypes, Values
    <2> HIDE DEF new
    <2>4. WireTypes'
      BY <2>2, <2>3 DEF TypeInv, WireTypes
    <2> QED BY <2>1, <2>4
  <1> QED BY <1>2, <1>3, <1>4 DEF Unit, TypeInv

\* A write of an output's four registers, or some, for the master it has.
LEMMA WritesTypes ==
    ASSUME WireTypes, NEW o, NEW m, NEW d, NEW s, NEW W,
           o \in Outs => s \in [Sides -> Steps],
           WritesBlindly(o, Regs(m, d, s), W)
    PROVE  WireTypes'
  <1>1. PICK Lost \in {{}, W} : Write(o, Regs(m, d, s), W, Lost)
    BY DEF WritesBlindly
  <1>2. o \in Outs => \A i \in 1..4 : Regs(m, d, s)[i] \in Steps
    BY RegsTypes
  <1> QED BY <1>1, <1>2, WriteTypes

\* What is left of the poll once the wheel is dealt with.
LEMMA ThenResyncTypes ==
    ASSUME TypeInv, tick.at = "wheel", ThenResync, UNCHANGED <<panel_out, panel>>
    PROVE  PollTypes' /\ PollReads' /\ tick'.out = tick.out /\ tick'.at = "resync"
  <1>1. tick \in Ticks /\ tick' = [tick EXCEPT !.at = "resync", !.delta = 0, !.held = FALSE]
    BY DEF TypeInv, PollTypes, ThenResync
  <1>2. tick' \in Ticks /\ tick'.out = tick.out /\ tick'.at = "resync"
    <2>1. PICK a \in {"idle", "wheel", "resync"}, d \in Int, x \in Outs \cup {NoOut},
               h \in BOOLEAN : tick = [at |-> a, delta |-> d, out |-> x, held |-> h]
      BY <1>1 DEF Ticks
    <2>2. tick' = [at |-> "resync", delta |-> 0, out |-> x, held |-> FALSE]
      BY <1>1, <2>1
    <2> QED BY <2>1, <2>2 DEF Ticks
  <1>3. PollTypes'
    BY <1>2 DEF TypeInv, PollTypes
  <1>4. PollReads'
    BY <1>2 DEF TypeInv, PollReads
  <1> QED BY <1>2, <1>3, <1>4

\* ... by the poll, ...
LEMMA PollKeepsTypes ==
    ASSUME TypeInv, Panel
    PROVE  TypeInv'
  <1> USE DEF TypeInv
  <1>1. ASSUME PollFirst \/ \E held \in BOOLEAN : Poll(held) PROVE TypeInv'
    <2>1. UNCHANGED <<cache, wire, sel, wheel>> /\ clicks' = 0
      BY <1>1 DEF PollFirst, Poll
    <2>2. /\ ControlTypes' /\ WireTypes' /\ UserTypes' /\ WheelTypes' /\ WheelCounts'
      BY <2>1 DEF ControlTypes, WireTypes, UserTypes, WheelTypes, WheelCounts, cache, wheel
    <2>3. CASE PollFirst
      BY <2>2, <2>3 DEF PollFirst, PollTypes, PollReads, UserTypes
    <2>4. ASSUME NEW held \in BOOLEAN, Poll(held) PROVE PollTypes' /\ PollReads'
      <3>1. sel # NoOut /\ sel \in Outs
        BY OutputsAssumption DEF UserTypes, NoOut
      <3> QED BY <2>4, <3>1 DEF Poll, PollTypes, PollReads, UserTypes, Ticks
    <2> QED BY <1>1, <2>2, <2>3, <2>4
  <1>2. ASSUME WheelMuted PROVE TypeInv'
    <2>1. ControlTypes' /\ UserTypes' /\ WheelTypes' /\ WheelCounts'
      BY <1>2 DEF WheelMuted, ControlTypes, UserTypes, WheelTypes, WheelCounts,
                  cache, user, wheel
    <2>2. << 0, 0 >> \in [Sides -> Steps]
      <3>1. 0 \in Steps
        BY OutputsAssumption DEF Steps
      <3> QED BY <3>1, Pair
    <2>3. WireTypes'
      BY <1>2, <2>2, WritesTypes DEF WheelMuted, Remute
    <2>4. PollTypes' /\ PollReads'
      BY <1>2, ThenResyncTypes DEF WheelMuted
    <2> QED BY <2>1, <2>3, <2>4
  <1>3. ASSUME OutWheel PROVE TypeInv'
    <2>1. UserTypes' /\ PollTypes' /\ PollReads'
      BY <1>3, ThenResyncTypes DEF OutWheel, UserTypes, user
    <2>2. wheel_out' \in Outs \cup {0} /\ resync' \in BOOLEAN
      BY <1>3 DEF OutWheel, PollTypes
    <2>3. CASE panel_out \in Outs
      <3> DEFINE o == panel_out
      <3>1. PICK to : TurnsTo(o, to)
        BY <1>3, <2>3, OutWheelTurns
      <3> DEFINE s == << ToStep(to[1]), ToStep(to[2]) >>
      <3>2. s \in [Sides -> Steps] /\ << to[1], to[2] >> \in [Sides -> Int]
        BY <3>1, TurnTypes DEF TurnsTo
      <3>3. UNCHANGED <<muted, dim>>
        BY <1>3 DEF OutWheel
      <3>4. ControlTypes'
        BY <3>1, <3>2, <3>3, SetTypes DEF TurnsTo
      <3>5. WireTypes'
        BY <3>1, <3>2, WritesTypes DEF TurnsTo
      <3>6. last' = [last EXCEPT ![o] = s] /\ hdb' = [hdb EXCEPT ![o] = << to[1], to[2] >>]
        BY <3>1 DEF TurnsTo
      <3>7. s[1] = ToStep(to[1]) /\ s[2] = ToStep(to[2])
        OBVIOUS
      <3> HIDE DEF s
      <3>8. WheelTypes'
        BY <2>2, <3>2, <3>6 DEF WheelTypes
      <3>9. WheelCounts'
        <4> SUFFICES ASSUME NEW p \in Outs, NEW ch \in Sides, last'[p][ch] # NoStep
                     PROVE  last'[p][ch] = ToStep(hdb'[p][ch])
          BY DEF WheelCounts, ToStep
        <4>1. CASE p = o
          <5>1. last'[p] = s /\ hdb'[p] = << to[1], to[2] >>
            BY <3>6, <4>1 DEF WheelTypes
          <5> QED BY <3>7, <5>1 DEF Sides
        <4>2. CASE p # o
          BY <3>6, <4>2 DEF WheelTypes, WheelCounts
        <4> QED BY <4>1, <4>2
      <3> QED BY <2>1, <3>4, <3>5, <3>8, <3>9
    <2>4. CASE panel_out \notin Outs
      <3>1. PICK s : /\ WritesBlindly(panel_out, Regs(FALSE, Dimmed(panel_out, dim), s), {3, 4})
                     /\ SetMaster(panel_out, s)
        BY <1>3 DEF OutWheel
      <3>2. WireTypes'
        BY <2>4, <3>1, WritesTypes
      <3>3. UNCHANGED <<muted, dim>>
        BY <1>3 DEF OutWheel
      <3>4. ControlTypes'
        BY <2>4, <3>1, <3>3, SetTypes
      <3>5. last' = last /\ hdb' = hdb
        BY <1>3, <2>4 DEF OutWheel, WheelTypes
      <3>6. WheelTypes' /\ WheelCounts'
        BY <2>2, <3>5 DEF WheelTypes, WheelCounts
      <3> QED BY <2>1, <3>2, <3>4, <3>6
    <2> QED BY <2>3, <2>4
  <1>4. ASSUME BalanceWheel PROVE TypeInv'
    <2> DEFINE o == panel_out
               db == << ToDb(master[o][1]), ToDb(master[o][2]) >>
               to == BalanceClicks(db, tick.delta)
               s == << ToStep(to[1]), ToStep(to[2]) >>
    <2>1. UserTypes' /\ PollTypes' /\ PollReads' /\ WheelTypes' /\ WheelCounts'
      BY <1>4, ThenResyncTypes DEF BalanceWheel, UserTypes, user, WheelTypes, WheelCounts, wheel
    <2>2. CASE UNCHANGED <<master, dim_saved, wire>>
      <3>1. ControlTypes' /\ WireTypes'
        BY <1>4, <2>2 DEF BalanceWheel, ControlTypes, WireTypes
      <3> QED BY <2>1, <3>1
    <2>3. CASE /\ ~(Louder(db) < Floor)
               /\ WritesBlindly(o, Regs(FALSE, Dimmed(o, dim), s), 1..4)
               /\ SetMaster(o, s)
      <3>1. o \in Outs => s \in [Sides -> Steps]
        <4> SUFFICES ASSUME o \in Outs PROVE s \in [Sides -> Steps]
          OBVIOUS
        <4>1. master[o][1] \in Steps /\ master[o][2] \in Steps
          BY DEF ControlTypes, Sides
        <4> DEFINE a == ToDb(master[o][1])
                   b == ToDb(master[o][2])
        <4>2. /\ a \in Int /\ a =< StepMax - Step0
              /\ b \in Int /\ b =< StepMax - Step0
          BY <4>1, ToDbTypes
        <4> HIDE DEF a, b
        <4>3. << a, b >> \in [Sides -> Int]
          BY <4>2, Pair
        <4>4. /\ Louder(<< a, b >>) \in Int
              /\ Louder(<< a, b >>) =< StepMax - Step0
          BY <4>2 DEF Louder
        <4>5. Balanced(db) /\ Louder(db) >= Floor
          <5>1. db = << a, b >>
            BY DEF a, b
          <5>2. Floor \in Int
            BY OutputsAssumption DEF Floor
          <5> DEFINE l == Louder(db)
          <5>3. ~(l < Floor) /\ l \in Int /\ l =< StepMax - Step0
            BY <2>3, <4>4, <5>1
          <5>4. l >= Floor
            <6> HIDE DEF l
            <6> QED BY <5>2, <5>3
          <5> HIDE DEF db
          <5> QED BY <4>3, <4>4, <5>1, <5>4 DEF Balanced
        <4>6. tick.delta \in Int
          BY DEF PollTypes, Ticks
        <4>7. \A ch \in Sides : to[ch] \in Mute..Louder(db)
          <5> HIDE DEF db
          <5> QED BY <4>5, <4>6, BalanceBounds
        <4> HIDE DEF to
        <4>8. /\ to[1] \in Int /\ to[1] =< StepMax - Step0
              /\ to[2] \in Int /\ to[2] =< StepMax - Step0
          <5>1. to[1] \in Mute..Louder(db) /\ to[2] \in Mute..Louder(db)
            BY <4>7 DEF Sides
          <5>2. Louder(db) \in Int /\ Louder(db) =< StepMax - Step0
            BY <4>4 DEF a, b
          <5> HIDE DEF db
          <5> QED BY <5>1, <5>2, OutputsAssumption DEF Mute, Floor
        <4>9. ToStep(to[1]) \in Steps /\ ToStep(to[2]) \in Steps
          BY <4>8, ToStepTypes
        <4> QED BY <4>9, Pair
      <3> HIDE DEF s
      <3>2. WireTypes'
        BY <2>3, <3>1, WritesTypes
      <3>3. UNCHANGED <<muted, dim>>
        BY <1>4 DEF BalanceWheel
      <3>4. ControlTypes'
        BY <2>3, <3>1, <3>3, SetTypes
      <3> QED BY <2>1, <3>2, <3>4
    <2> QED BY <1>4, <2>2, <2>3 DEF BalanceWheel
  <1>5. ASSUME PollEnds PROVE TypeInv'
    <2>1. ControlTypes' /\ UserTypes'
      BY <1>5 DEF PollEnds, ControlTypes, UserTypes, cache, user
    <2>2. WheelTypes' /\ WheelCounts'
      BY <1>5 DEF PollEnds, WheelTypes, WheelCounts
    <2>3. PollTypes' /\ PollReads'
      BY <1>5 DEF PollEnds, PollTypes, PollReads, Ticks, Idle
    <2>4. WireTypes'
      <3>1. CASE UNCHANGED wire
        BY <3>1 DEF WireTypes
      <3>2. CASE /\ WheelHasMaster(wheel_out)
                 /\ WritesBlindly(wheel_out,
                        Regs(FALSE, Dimmed(wheel_out, dim), last[wheel_out]), 1..4)
        <4>1. wheel_out \in Outs => last[wheel_out] \in [Sides -> Steps]
          BY <3>2 DEF WheelHasMaster, ControlTypes
        <4> QED BY <3>2, <4>1, WritesTypes
      <3> QED BY <1>5, <3>1, <3>2 DEF PollEnds
    <2> QED BY <2>1, <2>2, <2>3, <2>4
  <1> QED BY <1>1, <1>2, <1>3, <1>4, <1>5 DEF Panel

\* ... and by a suspend and a resume.
LEMMA PowerKeepsTypes ==
    ASSUME TypeInv, Power
    PROVE  TypeInv'
  <1> USE DEF TypeInv
  <1>1. ASSUME Suspend \/ ResumeFails PROVE TypeInv'
    <2>1. UNCHANGED <<cache, user, wheel, panel_out, tick>> /\ panel' \in {"asleep", "stopped"}
      BY <1>1 DEF Suspend, ResumeFails
    <2>2. /\ ControlTypes' /\ UserTypes' /\ WheelTypes' /\ WheelCounts'
          /\ PollTypes' /\ PollReads'
      BY <2>1 DEF ControlTypes, UserTypes, WheelTypes, WheelCounts, PollTypes, PollReads,
                  cache, user, wheel
    <2>3. WireTypes'
      BY <1>1 DEF Suspend, ResumeFails, WireTypes, Values
    <2> QED BY <2>2, <2>3
  <1>2. ASSUME Resume PROVE TypeInv'
    <2>1. ControlTypes'
      BY <1>2, OutputsAssumption DEF Resume, ControlTypes
    <2>2. \A o \in Outs : Restored(o) \in [1..4 -> Values]
      <3> SUFFICES ASSUME NEW o \in Outs PROVE Restored(o) \in [1..4 -> Values]
        OBVIOUS
      <3> DEFINE regs == Regs(muted[o], Dimmed(o, dim), master[o])
      <3>1. \A i \in 1..4 : regs[i] \in Values
        BY RegsTypes DEF Values, ControlTypes
      <3>2. regs = [i \in 1..4 |-> regs[i]]
        BY DEF Regs
      <3> HIDE DEF regs
      <3>3. regs \in [1..4 -> Values]
        BY <3>1, <3>2
      <3> QED BY <3>3 DEF regs, Restored
    <2>3. WireTypes'
      BY <1>2, <2>2 DEF Resume, WireTypes
    <2>4. UserTypes' /\ WheelTypes' /\ WheelCounts'
      BY <1>2 DEF Resume, UserTypes, WheelTypes, WheelCounts
    <2>5. PollTypes' /\ PollReads'
      BY <1>2 DEF Resume, PollTypes, PollReads
    <2> QED BY <2>1, <2>3, <2>4, <2>5
  <1> QED BY <1>1, <1>2 DEF Power

\* The types, and the wheel's own count, hold throughout.
THEOREM TypesInvariant == Spec => []TypeInv
  <1>1. TypeInv /\ [Next]_vars => TypeInv'
    <2>1. TypeInv /\ Next => TypeInv'
      BY PutsKeepTypes, UnitKeepsTypes, PollKeepsTypes, PowerKeepsTypes DEF Next
    <2>2. TypeInv /\ UNCHANGED vars => TypeInv'
      BY DEF vars, cache, user, wheel, poll, TypeInv, ControlTypes, WireTypes, UserTypes,
             WheelTypes, PollTypes, PollReads, WheelCounts
    <2> QED BY <2>1, <2>2
  <1> QED BY <1>1, TypesInit, PTL DEF Spec

----------------------------------------------------------------------------
\* The state keeps its types: the wheel and its balance never leave the scale,
\* however far they are turned.
THEOREM OutputTypes == Spec => []TypeOK
  <1>1. TypeInv => TypeOK
    BY TypesAreParts DEF TypeInv
  <1> QED BY <1>1, TypesInvariant, PTL

\* bf_panel_out_wheel() keeps the distance of the two sides through any number
\* of clicks, slow and fast, at the top and into mute, and so brings a side
\* back as far below the other as it was.
THEOREM BalanceStays == Spec => BalanceKept
  <1> DEFINE Kept == \A o \in Outs :
                        master[o] = last[o] /\ hdb'[o] # hdb[o] =>
                            hdb'[o][1] - hdb'[o][2] = hdb[o][1] - hdb[o][2]
  <1>1. ASSUME TypeInv, [Next]_vars PROVE Kept
    <2>1. CASE OutWheel
      <3> SUFFICES ASSUME NEW o \in Outs, master[o] = last[o], hdb'[o] # hdb[o]
                   PROVE  hdb'[o][1] - hdb'[o][2] = hdb[o][1] - hdb[o][2]
        OBVIOUS
      <3>1. \E f : hdb' = [hdb EXCEPT ![panel_out] = f]
        BY <2>1 DEF OutWheel
      <3>2. o = panel_out
        BY <1>1, <3>1 DEF TypeInv, WheelTypes
      <3>3. PICK to : TurnsTo(panel_out, to)
        BY <1>1, <2>1, <3>2, OutWheelTurns
      <3>4. hdb'[o] = << to[1], to[2] >> /\ to[1] - to[2] = hdb[o][1] - hdb[o][2]
        BY <1>1, <3>2, <3>3 DEF TurnsTo, TypeInv, WheelTypes
      <3> QED BY <3>4
    <2>2. CASE UNCHANGED hdb
      BY <2>2
    <2> QED BY <1>1, <2>1, <2>2
       DEF Next, Controls, MasterPut, MutePut, DimPut, Unit, PressOut, Click, Panel,
           PollFirst, Poll, WheelMuted, BalanceWheel, PollEnds, Power, Suspend, Resume,
           ResumeFails, vars, wheel
  <1>2. TypeInv /\ [Next]_vars => [Kept]_vars
    BY <1>1
  <1> QED BY <1>2, TypesInvariant, PTL DEF Spec, BalanceKept

----------------------------------------------------------------------------
\* The analog registers, for a user who is no quicker than the driver.

\* They are what the controls read, or of unknown value.
Good(o) == \A ch \in Sides :
    wire[o][ch] \in {Out8(muted[o], Dimmed(o, dim), master[o][ch]), Unknown}

\* A side is below what an 8-bit register takes.
Low(o) == ~muted[o] /\ \E c \in Sides : master[o][c] < Step8Min

\* The driver has still to look at a turn of the output.
Turned(o) == \/ sel = o /\ clicks # 0
             \/ panel_out = o /\ tick.at = "wheel"

\* The resync will write the output.
ResyncDue(o) == resync /\ wheel_out = o /\ ~muted[o] /\ master[o] = last[o]

Polled == panel \in {"started", "seen"}

Settled == \A o \in Outs : Polled => Good(o) \/ Low(o) \/ Turned(o) \/ ResyncDue(o)

\* Turns are of the output that the poll knows, and that any resync is for.
OneTurn ==
    /\ panel # "seen" => tick.at = "idle"
    /\ panel = "started" => clicks = 0
    /\ panel = "seen" /\ clicks # 0 =>
          /\ panel_out = sel /\ tick.out \in {sel, NoOut}
          /\ resync => wheel_out = sel
    /\ tick.at = "wheel" /\ resync => wheel_out = panel_out

SettleInv == Inv /\ TypeInv /\ Settled /\ OneTurn

\* A write that takes in the analog registers makes them good.
LEMMA WriteGood ==
    ASSUME WireTypes, NEW o \in Outs, NEW m, NEW d, NEW s, NEW W, NEW Lost,
           {1, 2} \subseteq W \cup Lost,
           Write(o, Regs(m, Dimmed(o, d), s), W, Lost)
    PROVE  \A ch \in Sides : wire'[o][ch] \in {Out8(m, Dimmed(o, d), s[ch]), Unknown}
  <1> DEFINE regs == Regs(m, Dimmed(o, d), s)
             new == [i \in 1..4 |-> IF i \in Lost THEN Unknown
                                    ELSE IF i \in W THEN regs[i] ELSE wire[o][i]]
  <1>1. wire' = [wire EXCEPT ![o] = new]
    BY DEF Write
  <1>2. /\ regs[1] = Out8(m, Dimmed(o, d), s[1])
        /\ regs[2] = Out8(m, Dimmed(o, d), s[2])
    BY DEF Regs
  <1>3. new[1] \in {regs[1], Unknown} /\ new[2] \in {regs[2], Unknown}
    OBVIOUS
  <1> HIDE DEF new, regs
  <1>4. wire'[o] = new
    BY <1>1 DEF WireTypes
  <1> QED BY <1>2, <1>3, <1>4 DEF Sides

\* A write reaches no other output.
LEMMA WriteOthers ==
    ASSUME WireTypes, NEW o, NEW regs, NEW W, NEW Lost, Write(o, regs, W, Lost)
    PROVE  \A p \in Outs : p # o => wire'[p] = wire[p]
  BY DEF Write, WireTypes

\* An output whose registers and controls stay is as settled as it was, unless
\* the driver's debt to it ends.
LEMMA StaysSettled ==
    ASSUME Settled, NEW o \in Outs, Polled, wire'[o] = wire[o],
           muted'[o] = muted[o], Dimmed(o, dim') = Dimmed(o, dim),
           master'[o] = master[o],
           Turned(o) => Turned(o)', ResyncDue(o) => ResyncDue(o)'
    PROVE  Good(o)' \/ Low(o)' \/ Turned(o)' \/ ResyncDue(o)'
  <1>1. Good(o) => Good(o)'
    BY DEF Good
  <1>2. Low(o) => Low(o)'
    BY DEF Low
  <1> QED BY <1>1, <1>2 DEF Settled


\* A write that fails altogether leaves the registers unknown, which is good.
LEMMA LostGood ==
    ASSUME WireTypes, NEW o \in Outs, NEW regs, WritesSome(o, regs)
    PROVE  Good(o)'
  <1> DEFINE new == [i \in 1..4 |-> IF i \in 1..4 THEN Unknown
                                    ELSE IF i \in {} THEN regs[i] ELSE wire[o][i]]
  <1>1. wire' = [wire EXCEPT ![o] = new]
    BY DEF WritesSome, Write
  <1>2. new[1] = Unknown /\ new[2] = Unknown
    OBVIOUS
  <1> HIDE DEF new
  <1>3. wire'[o] = new
    BY <1>1 DEF WireTypes
  <1> QED BY <1>2, <1>3 DEF Good, Sides

\* A step that is about one output settles it, and leaves the others.
LEMMA OneSettles ==
    ASSUME Settled, NEW p, Polled' => Polled,
           p \in Outs => Good(p)' \/ Low(p)' \/ Turned(p)' \/ ResyncDue(p)',
           \A o \in Outs : o # p =>
              /\ wire'[o] = wire[o] /\ muted'[o] = muted[o] /\ master'[o] = master[o]
              /\ Dimmed(o, dim') = Dimmed(o, dim)
              /\ Turned(o) => Turned(o)'
              /\ ResyncDue(o) => ResyncDue(o)'
    PROVE  Settled'
  <1> SUFFICES ASSUME NEW o \in Outs, Polled'
               PROVE  Good(o)' \/ Low(o)' \/ Turned(o)' \/ ResyncDue(o)'
    BY DEF Settled
  <1>1. CASE o = p
    BY <1>1
  <1>2. CASE o # p
    BY <1>2, StaysSettled
  <1> QED BY <1>1, <1>2

\* The puts write what they change, ...
LEMMA PutsSettle ==
    ASSUME SettleInv, Controls
    PROVE  SettleInv'
  <1>0. Inv' /\ TypeInv'
    BY PutsKeep, PutsKeepTypes DEF SettleInv
  <1>1. UNCHANGED <<user, wheel, poll>>
    BY DEF Controls, MasterPut, MutePut, DimPut
  <1>2. OneTurn'
    BY <1>1 DEF SettleInv, OneTurn, user, wheel, poll
  <1>3. \A o \in Outs : Turned(o) => Turned(o)'
    BY <1>1 DEF Turned, user, poll
  <1>4. /\ Polled' => Polled
        /\ WireTypes /\ ControlTypes /\ Settled
    BY <1>1 DEF Polled, poll, SettleInv, TypeInv
  <1>5. ASSUME NEW o \in Outs, muted'[o] = muted[o], master'[o] = master[o]
        PROVE  ResyncDue(o) => ResyncDue(o)'
    BY <1>1, <1>5 DEF ResyncDue, wheel
  <1>6. ASSUME NEW p \in Outs, NEW s \in Levels[p], MasterPut(p, s) PROVE Settled'
    <2> DEFINE regs == Regs(muted[p], Dimmed(p, dim), s)
    <2>1. UNCHANGED <<muted, dim>>
      BY <1>6 DEF MasterPut
    <2>2. \A o \in Outs : o # p => wire'[o] = wire[o] /\ master'[o] = master[o]
      BY <1>4, <1>6, WriteOthers DEF MasterPut, WritesAll, WritesSome, SetMaster, ControlTypes
    <2>3. ASSUME WritesAll(p, regs), SetMaster(p, s) PROVE Good(p)'
      <3>1. \A ch \in Sides : wire'[p][ch] \in {Out8(muted[p], Dimmed(p, dim), s[ch]), Unknown}
        BY <1>4, <2>3, WriteGood DEF WritesAll
      <3>2. master'[p] = s
        BY <1>4, <2>3 DEF SetMaster, ControlTypes
      <3> QED BY <2>1, <3>1, <3>2 DEF Good
    <2>4. ASSUME WritesSome(p, regs) PROVE Good(p)'
      BY <1>4, <2>4, LostGood
    <2>5. Good(p)'
      BY <1>6, <2>3, <2>4 DEF MasterPut
    <2> QED BY <1>3, <1>4, <1>5, <2>1, <2>2, <2>5, OneSettles
  <1>7. ASSUME NEW p \in Outs, MutePut(p) PROVE Settled'
    <2> DEFINE regs == Regs(~muted[p], Dimmed(p, dim), master[p])
    <2>1. UNCHANGED <<master, dim>>
      BY <1>7 DEF MutePut
    <2>2. \A o \in Outs : o # p => wire'[o] = wire[o] /\ muted'[o] = muted[o]
      BY <1>4, <1>7, WriteOthers DEF MutePut, WritesAll, WritesSome, ControlTypes
    <2>3. ASSUME WritesAll(p, regs), muted' = [muted EXCEPT ![p] = ~@] PROVE Good(p)'
      <3>1. \A ch \in Sides :
               wire'[p][ch] \in {Out8(~muted[p], Dimmed(p, dim), master[p][ch]), Unknown}
        BY <1>4, <2>3, WriteGood DEF WritesAll
      <3>2. muted'[p] = ~muted[p]
        BY <1>4, <2>3 DEF ControlTypes
      <3> QED BY <2>1, <3>1, <3>2 DEF Good
    <2>4. ASSUME WritesSome(p, regs) PROVE Good(p)'
      BY <1>4, <2>4, LostGood
    <2>5. Good(p)'
      BY <1>7, <2>3, <2>4 DEF MutePut
    <2> QED BY <1>3, <1>4, <1>5, <2>1, <2>2, <2>5, OneSettles
  <1>8. ASSUME DimPut, DimReturns PROVE Settled'
    <2> DEFINE on == ~dim
               s == IF on THEN master[Phones] ELSE dim_saved
               regs == Regs(muted[Phones], on, s)
    <2>0. Phones \in Outs /\ s = master[Phones] /\ Dimmed(Phones, on) = on
      BY <1>4, <1>8, OutputsAssumption DEF DimReturns, Dimmed, ControlTypes
    <2>1. UNCHANGED <<master, muted>>
      BY <1>8 DEF DimPut
    <2>2. \A o \in Outs : o # Phones =>
             wire'[o] = wire[o] /\ Dimmed(o, dim') = Dimmed(o, dim)
      BY <1>4, <1>8, WriteOthers DEF DimPut, WritesAll, WritesSome, Dimmed
    <2>3. ASSUME WritesAll(Phones, regs), dim' = on PROVE Good(Phones)'
      <3>1. \A ch \in Sides :
               wire'[Phones][ch] \in {Out8(muted[Phones], Dimmed(Phones, on), s[ch]), Unknown}
        <4> HIDE DEF on, s
        <4> QED BY <1>4, <2>0, <2>3, WriteGood DEF WritesAll
      <3> QED BY <2>0, <2>1, <2>3, <3>1 DEF Good
    <2>4. ASSUME WritesSome(Phones, regs) PROVE Good(Phones)'
      BY <1>4, <2>0, <2>4, LostGood
    <2>5. Good(Phones)'
      BY <1>8, <2>3, <2>4 DEF DimPut
    <2> QED BY <1>3, <1>4, <1>5, <2>1, <2>2, <2>5, OneSettles
  <1>9. Settled'
    BY <1>6, <1>7, <1>8 DEF Controls, SettleInv, Inv
  <1> QED BY <1>0, <1>2, <1>9 DEF SettleInv

\* ... the firmware's moves are turns still to be polled, ...
LEMMA UnitSettles ==
    ASSUME SettleInv, Unit, Hasty = {}
    PROVE  SettleInv'
  <1>0. Inv' /\ TypeInv'
    BY UnitKeeps, UnitKeepsTypes DEF SettleInv
  <1>1. UNCHANGED <<cache, wheel, poll>>
    BY DEF Unit, PressOut, Click
  <1>2. Settled /\ OneTurn /\ UserTypes /\ WireTypes /\ (Polled' => Polled)
    BY <1>1 DEF SettleInv, TypeInv, Polled, poll
  <1>3. ASSUME NEW o \in Pairs, PressOut(o) PROVE Settled' /\ OneTurn'
    <2>1. /\ clicks' = clicks /\ wire' = wire /\ panel # "asleep"
          /\ clicks = 0 \/ panel = "stopped"
      BY <1>3 DEF PressOut, Running
    <2>2. OneTurn'
      BY <1>1, <1>2, <2>1 DEF OneTurn, wheel, poll
    <2>3. Settled'
      BY <1>1, <1>2, <2>1
         DEF Settled, Polled, Good, Low, Turned, ResyncDue, cache, wheel, poll
    <2> QED BY <2>2, <2>3
  <1>4. ASSUME NEW dir \in {-1, 1}, Click(dir) PROVE Settled' /\ OneTurn'
    <2>1. /\ sel' = sel /\ clicks' # 0
          /\ ~resync \/ wheel_out = sel
          /\ panel_out = sel /\ tick.out \in {sel, NoOut}
          /\ panel # "started"
      BY <1>2, <1>4 DEF Click, UserTypes
    <2>2. OneTurn'
      BY <1>1, <1>2, <2>1 DEF OneTurn, wheel, poll
    <2>3. \A o \in Outs : o # sel => wire'[o] = wire[o]
      BY <1>2, <1>4 DEF Click, WireTypes
    <2>4. \A o \in Outs : (Turned(o) => Turned(o)') /\ (ResyncDue(o) => ResyncDue(o)')
      BY <1>1, <2>1 DEF Turned, ResyncDue, cache, wheel, poll
    <2>5. Turned(sel)'
      BY <2>1 DEF Turned
    <2>6. ASSUME NEW o \in Outs, Polled'
          PROVE  Good(o)' \/ Low(o)' \/ Turned(o)' \/ ResyncDue(o)'
      <3>1. CASE o = sel
        BY <2>1, <3>1 DEF Turned
      <3>2. CASE o # sel
        BY <1>1, <1>2, <2>3, <2>4, <2>6, <3>2, StaysSettled DEF cache
      <3> QED BY <3>1, <3>2
    <2> QED BY <2>2, <2>6 DEF Settled
  <1> QED BY <1>0, <1>3, <1>4 DEF Unit, SettleInv

\* A write of the poll, whether it fails or not, reaches no other output and
\* makes what it takes in good.
LEMMA BlindGood ==
    ASSUME WireTypes, NEW o, NEW m, NEW d, NEW s, NEW W,
           WritesBlindly(o, Regs(m, Dimmed(o, d), s), W)
    PROVE  /\ \A p \in Outs : p # o => wire'[p] = wire[p]
           /\ o \in Outs /\ {1, 2} \subseteq W =>
                 \A ch \in Sides :
                    wire'[o][ch] \in {Out8(m, Dimmed(o, d), s[ch]), Unknown}
  <1>1. PICK Lost \in {{}, W} : Write(o, Regs(m, Dimmed(o, d), s), W, Lost)
    BY DEF WritesBlindly
  <1>2. {1, 2} \subseteq W => {1, 2} \subseteq W \cup Lost
    OBVIOUS
  <1>3. \A p \in Outs : p # o => wire'[p] = wire[p]
    BY <1>1, WriteOthers
  <1> QED BY <1>1, <1>2, <1>3, WriteGood

\* A master whose sides are all below the wheel's floor is low.
LEMMA SilentIsLow ==
    ASSUME ControlTypes, NEW o \in Outs, ~muted[o],
           Louder(<< ToDb(master[o][1]), ToDb(master[o][2]) >>) < Floor
    PROVE  Low(o)
  <1>1. master[o][1] \in Steps
    BY DEF ControlTypes, Sides
  <1>2. master[o][2] \in Steps
    BY DEF ControlTypes, Sides
  <1> DEFINE a == ToDb(master[o][1])
             b == ToDb(master[o][2])
  <1>3. a \in Int /\ b \in Int
    BY <1>1, <1>2, ToDbTypes
  <1> HIDE DEF b
  <1>4. a < Floor
    <2> HIDE DEF a
    <2>1. Louder(<< a, b >>) < Floor
      BY DEF a, b
    <2> QED BY <1>3, <2>1, OutputsAssumption DEF Louder, Floor
  <1>5. master[o][1] = 0
    <2>1. CASE master[o][1] # 0
      <3>1. a = master[o][1] - Step0
        BY <2>1 DEF a, ToDb
      <3>2. master[o][1] >= 1
        BY <1>1, <2>1 DEF Steps
      <3>3. FALSE
        BY ONLY <1>1, <1>4, <3>1, <3>2, OutputsAssumption DEF Floor, Steps
      <3> QED  BY <3>3
    <2> QED  BY <2>1
  <1>6. master[o][1] < Step8Min
    BY <1>5, OutputsAssumption
  <1> QED BY <1>6 DEF Low, Sides

\* A master that is the wheel's, and that the resync leaves alone, is low.
LEMMA BelowIsLow ==
    ASSUME TypeInv, NEW o \in Outs, ~muted[o], master[o] = last[o], ~WheelHasMaster(o)
    PROVE  Low(o)
  <1>1. PICK ch \in Sides : ~(hdb[o][ch] >= Step8Min - Step0)
    BY DEF WheelHasMaster
  <1>2. hdb[o][ch] \in Int /\ master[o][ch] \in Steps
    BY DEF TypeInv, WheelTypes, ControlTypes
  <1>3. master[o][ch] # NoStep
    BY <1>2 DEF Steps, NoStep
  <1>4. master[o][ch] = ToStep(hdb[o][ch])
    BY <1>3 DEF TypeInv, WheelCounts
  <1>5. master[o][ch] < Step8Min
    BY <1>1, <1>2, <1>4, OutputsAssumption DEF ToStep, Floor
  <1> QED BY <1>5 DEF Low

\* ... the poll takes each turn to the registers or to the resync, ...
LEMMA PollSettles ==
    ASSUME SettleInv, Panel
    PROVE  SettleInv'
  <1>0. Inv' /\ TypeInv'
    BY PanelKeeps, PollKeepsTypes DEF SettleInv
  <1>1. /\ Settled /\ OneTurn /\ UserTypes /\ WireTypes /\ ControlTypes /\ WheelTypes
        /\ PollTypes /\ PollReads /\ TypeInv
    BY DEF SettleInv, TypeInv
  <1>2. ASSUME PollFirst PROVE Settled' /\ OneTurn'
    <2>1. /\ UNCHANGED <<cache, wire, sel, wheel, tick>> /\ panel = "started"
          /\ panel' = "seen" /\ clicks' = 0 /\ clicks = 0 /\ tick.at = "idle"
      BY <1>1, <1>2 DEF PollFirst, OneTurn
    <2>2. OneTurn'
      BY <2>1 DEF OneTurn
    <2>3. Settled'
      BY <1>1, <2>1 DEF Settled, Polled, Good, Low, Turned, ResyncDue, cache, wheel
    <2> QED BY <2>2, <2>3
  <1>3. ASSUME NEW held \in BOOLEAN, Poll(held) PROVE Settled' /\ OneTurn'
    <2>1. /\ UNCHANGED <<cache, wire, sel, wheel, panel_out, panel>> /\ panel = "seen"
          /\ tick.at = "idle" /\ clicks' = 0
          /\ tick'.at = IF clicks = 0 THEN "resync" ELSE "wheel"
      BY <1>3 DEF Poll
    <2>2. OneTurn'
      BY <1>1, <2>1 DEF OneTurn, wheel
    <2>3. Settled'
      BY <1>1, <2>1 DEF Settled, Polled, Good, Low, Turned, ResyncDue, cache, wheel, OneTurn
    <2> QED BY <2>2, <2>3
  <1>4. ASSUME tick.at = "wheel", ThenResync, UNCHANGED <<sel, clicks, panel_out, panel>>
        PROVE  /\ tick'.at = "resync" /\ tick'.out = tick.out /\ panel = "seen"
               /\ panel' = "seen" /\ (Polled' => Polled)
               /\ \A o \in Outs : o # panel_out /\ Turned(o) => Turned(o)'
    <2>1. tick'.at = "resync" /\ tick'.out = tick.out
      BY <1>1, <1>4, ThenResyncTypes
    <2> QED BY <1>1, <1>4, <2>1 DEF OneTurn, Turned, Polled
  <1>5. ASSUME WheelMuted PROVE Settled' /\ OneTurn'
    <2> DEFINE p == panel_out
    <2>1. /\ UNCHANGED <<cache, user, wheel, panel_out, panel>> /\ tick.at = "wheel"
          /\ muted[p] /\ ThenResync
          /\ WritesBlindly(p, Regs(TRUE, FALSE, << 0, 0 >>), {1, 2})
      BY <1>5 DEF WheelMuted, Remute
    <2>2. /\ tick'.at = "resync" /\ tick'.out = tick.out /\ panel = "seen"
          /\ panel' = "seen" /\ (Polled' => Polled)
          /\ \A o \in Outs : o # p /\ Turned(o) => Turned(o)'
      BY <1>4, <2>1 DEF user
    <2>3. OneTurn'
      BY <1>1, <2>1, <2>2 DEF OneTurn, user, wheel
    <2>4. Regs(TRUE, FALSE, << 0, 0 >>) = Regs(TRUE, Dimmed(p, FALSE), << 0, 0 >>)
      BY DEF Regs, Out8, Out16, Dimmed
    <2>5. WritesBlindly(p, Regs(TRUE, Dimmed(p, FALSE), << 0, 0 >>), {1, 2})
      BY <2>1, <2>4
    <2>6. /\ \A o \in Outs : o # p => wire'[o] = wire[o]
          /\ p \in Outs => \A ch \in Sides :
               wire'[p][ch] \in {Out8(TRUE, Dimmed(p, FALSE), << 0, 0 >>[ch]), Unknown}
      BY <1>1, <2>5, BlindGood
    <2>7. p \in Outs => Good(p)'
      BY <2>1, <2>6 DEF Good, Out8, cache
    <2>8. \A o \in Outs : ResyncDue(o) => ResyncDue(o)'
      BY <2>1 DEF ResyncDue, cache, wheel
    <2>9. Settled'
      BY <1>1, <2>1, <2>2, <2>6, <2>7, <2>8, OneSettles DEF cache
    <2> QED BY <2>3, <2>9
  <1>6. ASSUME OutWheel PROVE Settled' /\ OneTurn'
    <2> DEFINE p == panel_out
    <2>1. /\ UNCHANGED <<muted, dim, user, panel_out, panel>> /\ tick.at = "wheel"
          /\ ~muted[p] /\ ThenResync /\ wheel_out' = p /\ resync' = TRUE
      BY <1>6 DEF OutWheel
    <2>2. /\ tick'.at = "resync" /\ tick'.out = tick.out /\ panel = "seen"
          /\ panel' = "seen" /\ (Polled' => Polled)
          /\ \A o \in Outs : o # p /\ Turned(o) => Turned(o)'
      BY <1>4, <2>1 DEF user
    <2>3. OneTurn'
      BY <1>1, <2>1, <2>2 DEF OneTurn, user
    <2>4. PICK s : /\ WritesBlindly(p, Regs(FALSE, Dimmed(p, dim), s), {3, 4})
                   /\ SetMaster(p, s)
                   /\ last' = [last EXCEPT ![p] = s]
      BY <1>6 DEF OutWheel
    <2>5. p \in Outs => ResyncDue(p)'
      BY <1>1, <2>1, <2>4 DEF ResyncDue, SetMaster, ControlTypes, WheelTypes
    <2>6. \A o \in Outs : o # p => wire'[o] = wire[o] /\ master'[o] = master[o]
      <3>1. \A o \in Outs : o # p => wire'[o] = wire[o]
        BY <1>1, <2>4, BlindGood
      <3> QED BY <1>1, <2>4, <3>1 DEF SetMaster, ControlTypes
    <2>7. \A o \in Outs : o # p => ~ResyncDue(o)
      BY <1>1, <2>1 DEF ResyncDue, OneTurn
    <2>8. Settled'
      BY <1>1, <2>1, <2>2, <2>5, <2>6, <2>7, OneSettles
    <2> QED BY <2>3, <2>8
  <1>7. ASSUME BalanceWheel PROVE Settled' /\ OneTurn'
    <2> DEFINE p == panel_out
               db == << ToDb(master[p][1]), ToDb(master[p][2]) >>
               to == BalanceClicks(db, tick.delta)
               s == << ToStep(to[1]), ToStep(to[2]) >>
    <2>1. /\ UNCHANGED <<muted, dim, user, wheel, panel_out, panel>> /\ tick.at = "wheel"
          /\ ~muted[p] /\ ThenResync
      BY <1>7 DEF BalanceWheel
    <2>2. /\ tick'.at = "resync" /\ tick'.out = tick.out /\ panel = "seen"
          /\ panel' = "seen" /\ (Polled' => Polled)
          /\ \A o \in Outs : o # p /\ Turned(o) => Turned(o)'
      BY <1>4, <2>1 DEF user
    <2>3. OneTurn'
      BY <1>1, <2>1, <2>2 DEF OneTurn, user, wheel
    <2>4. CASE Louder(db) < Floor /\ UNCHANGED <<master, dim_saved, wire>>
      <3>1. p \in Outs => Low(p)'
        <4>1. p \in Outs => Low(p)
          BY <1>1, <2>1, <2>4, SilentIsLow
        <4> QED BY <2>1, <2>4, <4>1 DEF Low
      <3>2. \A o \in Outs : ResyncDue(o) => ResyncDue(o)'
        BY <2>1, <2>4 DEF ResyncDue, wheel
      <3>3. Settled'
        BY <1>1, <2>1, <2>2, <2>4, <3>1, <3>2, OneSettles
      <3> QED BY <2>3, <3>3
    <2>5. CASE /\ WritesBlindly(p, Regs(FALSE, Dimmed(p, dim), s), 1..4)
               /\ SetMaster(p, s)
      <3> HIDE DEF s
      <3>1. p \in Outs => Good(p)'
        <4>1. {1, 2} \subseteq 1..4
          OBVIOUS
        <4>2. p \in Outs => \A ch \in Sides :
                 wire'[p][ch] \in {Out8(FALSE, Dimmed(p, dim), s[ch]), Unknown}
          BY <1>1, <2>5, <4>1, BlindGood
        <4>3. p \in Outs => master'[p] = s /\ muted[p] = FALSE
          BY <1>1, <2>1, <2>5 DEF SetMaster, ControlTypes
        <4> QED BY <2>1, <4>2, <4>3 DEF Good
      <3>2. \A o \in Outs : o # p => wire'[o] = wire[o] /\ master'[o] = master[o]
        <4>1. \A o \in Outs : o # p => wire'[o] = wire[o]
          BY <1>1, <2>5, BlindGood
        <4> QED BY <1>1, <2>5, <4>1 DEF SetMaster, ControlTypes
      <3>3. \A o \in Outs : o # p /\ ResyncDue(o) => ResyncDue(o)'
        BY <2>1, <3>2 DEF ResyncDue, wheel
      <3>4. Settled'
        BY <1>1, <2>1, <2>2, <3>1, <3>2, <3>3, OneSettles
      <3> QED BY <2>3, <3>4
    <2> QED BY <1>7, <2>4, <2>5 DEF BalanceWheel
  <1>8. ASSUME PollEnds PROVE Settled' /\ OneTurn'
    <2> DEFINE p == wheel_out
               regs == Regs(FALSE, Dimmed(p, dim), last[p])
    <2>1. /\ UNCHANGED <<cache, user, last, hdb, wheel_out, panel>> /\ tick.at = "resync"
          /\ panel_out' = tick.out /\ tick'.at = "idle" /\ tick'.out = NoOut
      BY <1>8 DEF PollEnds, Idle
    <2>2. panel = "seen" /\ (Polled' => Polled) /\ tick.out # NoOut
      BY <1>1, <2>1 DEF OneTurn, PollReads, Polled
    <2>3. resync' => resync
      BY <1>8 DEF PollEnds
    <2>4. OneTurn'
      BY <1>1, <2>1, <2>2, <2>3 DEF OneTurn, user
    <2>5. \A o \in Outs : Turned(o) => Turned(o)'
      BY <2>1 DEF Turned, user
    <2>6. \A o \in Outs : o # p => ~ResyncDue(o)
      BY DEF ResyncDue
    <2>7. CASE UNCHANGED <<resync, wire>>
      <3>1. \A o \in Outs : ResyncDue(o) => ResyncDue(o)'
        BY <2>1, <2>7 DEF ResyncDue, cache
      <3>2. \A o \in Outs : Good(o)' \/ Low(o)' \/ Turned(o)' \/ ResyncDue(o)' \/ ~Polled'
        BY <1>1, <2>1, <2>2, <2>5, <2>7, <3>1, StaysSettled DEF cache
      <3> QED BY <2>4, <3>2 DEF Settled
    <2>8. CASE /\ WheelHasMaster(p) /\ ~muted[p]
               /\ WritesBlindly(p, regs, 1..4)
      <3>1. p \in Outs => Good(p)'
        <4>1. {1, 2} \subseteq 1..4
          OBVIOUS
        <4>2. p \in Outs => \A ch \in Sides :
                 wire'[p][ch] \in {Out8(FALSE, Dimmed(p, dim), last[p][ch]), Unknown}
          BY <1>1, <2>8, <4>1, BlindGood
        <4>3. p \in Outs => master[p] = last[p] /\ muted[p] = FALSE
          BY <1>1, <2>8 DEF WheelHasMaster, ControlTypes
        <4> QED BY <2>1, <4>2, <4>3 DEF Good, cache
      <3>2. \A o \in Outs : o # p => wire'[o] = wire[o]
        BY <1>1, <2>8, BlindGood
      <3>3. Settled'
        BY <1>1, <2>1, <2>2, <2>5, <2>6, <3>1, <3>2, OneSettles DEF cache
      <3> QED BY <2>4, <3>3
    <2>9. CASE /\ ~(WheelHasMaster(p) /\ ~muted[p]) /\ UNCHANGED wire
      <3>1. ASSUME NEW o \in Outs, Polled'
            PROVE  Good(o)' \/ Low(o)' \/ Turned(o)' \/ ResyncDue(o)'
        <4>1. CASE ResyncDue(o)
          <5>1. Low(o)
            BY <1>1, <2>9, <4>1, BelowIsLow DEF ResyncDue
          <5> QED BY <2>1, <5>1 DEF Low, cache
        <4>2. CASE ~ResyncDue(o)
          BY <1>1, <2>1, <2>2, <2>5, <2>9, <3>1, <4>2, StaysSettled DEF cache
        <4> QED BY <4>1, <4>2
      <3> QED BY <2>4, <3>1 DEF Settled
    <2> QED BY <1>8, <2>7, <2>8, <2>9 DEF PollEnds
  <1> QED BY <1>0, <1>2, <1>3, <1>5, <1>6, <1>7, <1>8 DEF Panel, SettleInv

\* ... and a resume writes everything.
LEMMA PowerSettles ==
    ASSUME SettleInv, Power
    PROVE  SettleInv'
  <1>0. Inv' /\ TypeInv'
    BY PowerKeeps, PowerKeepsTypes DEF SettleInv
  <1>1. ASSUME Suspend \/ ResumeFails PROVE Settled' /\ OneTurn'
    <2>1. /\ panel' \in {"asleep", "stopped"} /\ tick.at = "idle" /\ tick' = tick
      BY <1>1 DEF Suspend, ResumeFails, SettleInv, OneTurn
    <2> QED BY <2>1 DEF Settled, Polled, OneTurn
  <1>2. ASSUME Resume PROVE Settled' /\ OneTurn'
    <2>1. /\ panel' = "started" /\ clicks' = 0 /\ tick.at = "idle" /\ tick' = tick
      BY <1>2 DEF Resume, SettleInv, OneTurn
    <2>2. OneTurn'
      BY <2>1 DEF OneTurn
    <2>3. \A o \in Outs, ch \in Sides :
             wire'[o][ch] = Out8(muted[o], Dimmed(o, dim), master[o][ch])
      BY <1>2 DEF Resume, Restored, Regs, Sides
    <2>4. \A o \in Outs : Good(o)'
      BY <1>2, <2>3 DEF Good, Resume
    <2> QED BY <2>2, <2>4 DEF Settled
  <1> QED BY <1>0, <1>1, <1>2 DEF Power, SettleInv

\* With a user who is no quicker than the driver, an output that nothing is owed
\* is at the level that its controls read, on the analog side as well: through
\* bf_panel_out_wheel(), the balance, the mute's rewrite, bf_panel_out_resync()
\* when it comes, puts in between, DIM, failed writes, suspends and resumes.
THEOREM AnalogLevels ==
    ASSUME Hasty = {}
    PROVE  Spec => []AnalogSettles
  <1>1. Init => SettleInv
    <2> SUFFICES ASSUME Init PROVE SettleInv
      OBVIOUS
    <2>1. Inv /\ TypeInv
      BY InvInit, TypesInit
    <2>2. \A o \in Outs : Good(o)
      <3> SUFFICES ASSUME NEW o \in Outs, NEW ch \in Sides
                   PROVE  wire[o][ch] = Out8(muted[o], Dimmed(o, dim), master[o][ch])
        BY DEF Good
      <3>1. muted[o] = FALSE /\ Dimmed(o, dim) = FALSE /\ master[o] = Default(o)
        BY DEF Init, Dimmed
      <3>2. wire[o] = Regs(FALSE, FALSE, Default(o))
        BY DEF Init
      <3>3. /\ Regs(FALSE, FALSE, Default(o))[1] = Out8(FALSE, FALSE, Default(o)[1])
            /\ Regs(FALSE, FALSE, Default(o))[2] = Out8(FALSE, FALSE, Default(o)[2])
        BY DEF Regs
      <3>4. ch = 1 \/ ch = 2
        BY DEF Sides
      <3>5. wire[o][ch] = Out8(FALSE, FALSE, master[o][ch])
        BY <3>1, <3>2, <3>3, <3>4
      <3>6. Out8(muted[o], Dimmed(o, dim), master[o][ch]) = Out8(FALSE, FALSE, master[o][ch])
        BY <3>1 DEF Out8
      <3> QED BY <3>5, <3>6
    <2>3. OneTurn
      BY DEF Init, OneTurn, Idle
    <2> QED BY <2>1, <2>2, <2>3 DEF SettleInv, Settled
  <1>2. SettleInv /\ [Next]_vars => SettleInv'
    <2>1. SettleInv /\ Next => SettleInv'
      BY PutsSettle, UnitSettles, PollSettles, PowerSettles DEF Next
    <2>2. SettleInv /\ UNCHANGED vars => SettleInv'
      <3> SUFFICES ASSUME SettleInv, UNCHANGED vars PROVE SettleInv'
        OBVIOUS
      <3>1. Inv'
        BY DEF SettleInv, Inv, vars, cache, user, wheel, poll, Shape, DimReturns,
               AsleepHoldsNothing, PollAwake, DigitalFollows, Dimmed, Out16, Running
      <3>2. TypeInv'
        BY DEF SettleInv, vars, cache, user, wheel, poll, TypeInv, ControlTypes, WireTypes,
               UserTypes, WheelTypes, PollTypes, PollReads, WheelCounts
      <3>3. Settled' /\ OneTurn'
        BY DEF SettleInv, vars, cache, user, wheel, poll, Settled, OneTurn, Polled, Good,
               Low, Turned, ResyncDue
      <3> QED BY <3>1, <3>2, <3>3 DEF SettleInv
    <2> QED BY <2>1, <2>2
  <1>3. SettleInv => AnalogSettles
    BY DEF SettleInv, Settled, AnalogSettles, Polled, Owed, Good, Low, Turned, ResyncDue
  <1> QED BY <1>1, <1>2, <1>3, PTL DEF Spec
=============================================================================
