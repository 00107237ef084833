--------------------------- MODULE PcmRing_proofs ---------------------------
(***************************************************************************)
(* The ring keeps the core, the application and the device in step, for    *)
(* every ring that hw_params lets through and every size of access.        *)
(*                                                                         *)
(* The invariant unrolls the ring from the application's position: the     *)
(* avail + lag slots ahead of it are the application's, the others the     *)
(* device's, and the device is about to use the first of the others.  That *)
(* lag cannot grow past a period is the period count's doing: between two  *)
(* reports lag is at most hw_ptr % Period, and the handler that takes      *)
(* hw_ptr over a boundary moves no more frames before it has reported.     *)
(*                                                                         *)
(* Every theorem is about a hw_ptr that is not about to wrap at            *)
(* 2^BITS_PER_LONG, or that wraps between two rounds of the ring: finding  *)
(* PointerMovesOn shows what happens otherwise.                            *)
(***************************************************************************)
EXTENDS PcmRing, TLAPS

\* Quotient and remainder of a division.
LEMMA Division ==
    ASSUME NEW n \in Nat \ {0}, NEW x \in Int
    PROVE  \E q \in Int, r \in 0..(n - 1) :
               x = n * q + r /\ q = x \div n /\ r = x % n
  <1> DEFINE q == x \div n
             r == x % n
  <1>1. q \in Int /\ r \in 0..(n - 1)
    OBVIOUS
  <1>2. r = x - n * q
    BY Z3
  <1> HIDE DEF q, r
  <1>3. x = n * q + r
    BY <1>1, <1>2
  <1>4. q = x \div n /\ r = x % n
    BY DEF q, r
  <1> QED  BY <1>1, <1>3, <1>4, Zenon

\* They are determined by x = n * q + r.
LEMMA DivisionIsUnique ==
    ASSUME NEW n \in Nat \ {0}, NEW q \in Int, NEW r \in 0..(n - 1),
           NEW x \in Int, x = n * q + r
    PROVE  x % n = r /\ x \div n = q
  <1>1. x \div n = q
    BY SMTT(30)
  <1>2. x % n = r
    BY SMTT(30)
  <1> QED  BY <1>1, <1>2

\* Less than a round below zero, or less than two above.
LEMMA RemainderOnceRound ==
    ASSUME NEW n \in Nat \ {0}, NEW x \in (-n)..(2 * n - 1)
    PROVE  x % n = IF x < 0 THEN x + n ELSE IF x < n THEN x ELSE x - n
  <1>1. CASE x < 0
    BY <1>1, DivisionIsUnique, x = n * (-1) + (x + n)
  <1>2. CASE 0 <= x /\ x < n
    BY <1>2, DivisionIsUnique, x = n * 0 + x
  <1>3. CASE n <= x
    BY <1>3, DivisionIsUnique, x = n * 1 + (x - n)
  <1> QED  BY <1>1, <1>2, <1>3

\* Multiplication distributes.
LEMMA ProductOverSum ==
    ASSUME NEW n \in Int, NEW a \in Int, NEW b \in Int
    PROVE  n * (a + b) = n * a + n * b /\ n * (a - b) = n * a - n * b
  OBVIOUS

\* Taking whole rounds away leaves the remainder.
LEMMA WholeRounds ==
    ASSUME NEW n \in Nat \ {0}, NEW m \in Nat, m % n = 0, NEW x \in Nat
    PROVE  (x - m) % n = x % n
  <1>1. PICK k \in Int, z \in 0..(n - 1) : m = n * k + z /\ k = m \div n /\ z = m % n
    BY Division
  <1>2. PICK q \in Int, r \in 0..(n - 1) : x = n * q + r /\ q = x \div n /\ r = x % n
    BY Division
  <1>3. m = n * k
    BY ONLY <1>1, m % n = 0, n \in Nat
  <1>4. x - m = n * (q - k) + r
    BY ONLY <1>2, <1>3, ProductOverSum, n \in Nat
  <1>5. x - m \in Int
    OBVIOUS
  <1>6. PICK d \in Int : d = q - k
    OBVIOUS
  <1>7. PICK y \in Int : y = x - m
    BY <1>5
  <1>8. y = n * d + r
    BY ONLY <1>4, <1>6, <1>7
  <1>9. y % n = r
    BY ONLY <1>8, DivisionIsUnique, n \in Nat \ {0}, r \in 0..(n - 1), d \in Int, y \in Int
  <1> QED  BY ONLY <1>2, <1>7, <1>9

\* A step of f from x is a step of f from x's remainder.
LEMMA RemainderOfStep ==
    ASSUME NEW n \in Nat \ {0}, NEW x \in Nat, NEW f \in 0..n
    PROVE  (x + f) % n = IF (x % n) + f < n THEN (x % n) + f ELSE (x % n) + f - n
  <1>1. PICK q \in Int, r \in 0..(n - 1) : x = n * q + r /\ q = x \div n /\ r = x % n
    BY Division
  <1> DEFINE y == x + f
  <1>2. y \in Int
    OBVIOUS
  <1>3. CASE r + f < n
    <2>1. y = n * q + (r + f)
      BY ONLY <1>1, n \in Nat, f \in 0..n
    <2>2. y % n = r + f
      <3> HIDE DEF y
      <3> QED  BY ONLY <1>2, <1>3, <2>1, DivisionIsUnique, n \in Nat \ {0},
                       r \in 0..(n - 1), f \in 0..n
    <2> QED  BY ONLY <1>1, <1>3, <2>2
  <1>4. CASE r + f >= n
    <2>1. y = n * (q + 1) + (r + f - n)
      BY ONLY <1>1, n \in Nat, f \in 0..n, ProductOverSum, n * 1 = n
    <2>2. y % n = r + f - n
      <3> HIDE DEF y
      <3>1. PICK p \in Int : p = q + 1
        OBVIOUS
      <3>2. PICK t \in 0..(n - 1) : t = r + f - n
        BY <1>4
      <3>3. y = n * p + t
        BY ONLY <2>1, <3>1, <3>2
      <3>4. y % n = t
        BY ONLY <1>2, <3>3, DivisionIsUnique, n \in Nat \ {0}, t \in 0..(n - 1), p \in Int
      <3> QED  BY ONLY <3>2, <3>4
    <2> QED  BY ONLY <1>1, <1>4, <2>2, n \in Nat, f \in 0..n, r \in 0..(n - 1)
  <1>5. r + f < n \/ r + f >= n
    BY ONLY n \in Nat, f \in 0..n, r \in 0..(n - 1)
  <1> QED  BY ONLY <1>3, <1>4, <1>5

\* A step that stays within a period moves the remainder by the step.
LEMMA RemainderWithin ==
    ASSUME NEW n \in Nat \ {0}, NEW x \in Nat, NEW f \in Nat, (x + f) \div n = x \div n
    PROVE  (x + f) % n = (x % n) + f
  <1>1. PICK q \in Int, r \in 0..(n - 1) : x = n * q + r /\ q = x \div n /\ r = x % n
    BY Division
  <1>2. PICK p \in Int, t \in 0..(n - 1) :
            x + f = n * p + t /\ p = (x + f) \div n /\ t = (x + f) % n
    BY Division
  <1>3. p = q
    BY ONLY <1>1, <1>2, (x + f) \div n = x \div n
  <1>4. t = r + f
    <2>1. PICK z \in Int : z = n * q
      OBVIOUS
    <2>2. x = z + r /\ x + f = z + t
      BY ONLY <1>1, <1>2, <1>3, <2>1
    <2> QED  BY ONLY <2>2, x \in Nat, f \in Nat, n \in Nat, z \in Int,
                     r \in 0..(n - 1), t \in 0..(n - 1)
  <1> QED  BY ONLY <1>1, <1>2, <1>4

\* Quotients grow with what is divided.
LEMMA QuotientMonotone ==
    ASSUME NEW n \in Nat \ {0}, NEW x \in Nat, NEW y \in Nat, x <= y
    PROVE  x \div n \in Nat /\ x \div n <= y \div n
  OBVIOUS

\* Only what is below the divisor has none.
LEMMA QuotientBelow ==
    ASSUME NEW n \in Nat \ {0}, NEW x \in Nat
    PROVE  x \div n = 0 <=> x < n
  OBVIOUS

----------------------------------------------------------------------------
\* A number below two buffers, taken round the ring.
Wrapped(n) == IF n < Buffer THEN n ELSE n - Buffer

\* How many slots s is ahead of slot first.
Ahead(first, s) == IF s >= first THEN s - first ELSE s - first + Buffer

\* hw_ptr is not about to wrap, or wraps between two rounds of the ring.
WrapsEvenly == LongMod % Buffer = 0 \/ hw_ptr + Urb < LongMod

\* prev_period is the period that hw_ptr is in.
PeriodCount == prev_period = hw_ptr \div Period

\* What START finds: nothing has moved since the ring was emptied.
Ready ==
    state = "prepared" =>
        /\ hw_ptr = 0 /\ core_pos = 0 /\ lag = 0 /\ late = 0
        /\ avail <= Buffer /\ (Direction = "capture" => avail < Buffer)

\* The core trails the device by lag, and the application by avail.
PointerInStep ==
    state \in {"prepared", "running"} =>
        /\ Pointer = Wrapped(core_pos + lag)
        /\ core_pos = Wrapped(app_pos + avail)

\* The slots that have come back to the application, told or not, are those
\* less than avail + lag ahead of it.
TurnInStep ==
    state \in {"prepared", "running"} =>
        \A s \in Slots : turn[s] = "app" <=> Ahead(app_pos, s) < avail + lag

\* What the core has not seen was moved in the device's current period, but
\* for the URB that crossed into it.
LagBounded ==
    state = "running" =>
        /\ avail < Buffer
        /\ IF elapse THEN lag < Period + Urb ELSE lag <= hw_ptr % Period

\* The device was on the application's slots only since the core last looked.
LateBounded ==
    state = "running" => late <= lag /\ (late > 0 => avail + lag >= Buffer)

IInv == /\ TypeOK /\ PeriodCount /\ Ready /\ PointerInStep
        /\ TurnInStep /\ LagBounded /\ LateBounded

\* What RingAssumption says of the ring in use.
LEMMA RingFacts ==
    ASSUME TypeOK
    PROVE  /\ Buffer \in Nat \ {0} /\ Period \in Nat \ {0} /\ Urb \in Nat \ {0}
           /\ Urb <= Period /\ 2 * Period <= Buffer
           /\ LongMod \in Nat /\ Buffer < LongMod
           /\ Direction \in {"playback", "capture"}
           /\ Slots = 0..(Buffer - 1)
  <1>1. ring \in Rings
    BY DEF TypeOK
  <1>2. /\ ring.buffer \in Nat /\ ring.period \in Nat /\ ring.urb \in Nat \ {0}
        /\ ring.direction \in {"playback", "capture"}
    BY <1>1, RingAssumption
  <1>3. /\ ring.urb <= ring.period /\ 2 * ring.period <= ring.buffer
        /\ ring.buffer < LongMod /\ LongMod \in Nat
    BY <1>1, RingAssumption
  <1> QED  BY <1>2, <1>3 DEF Buffer, Period, Urb, Direction, Slots

\* The sizes are the ring's.
LEMMA SameRing ==
    ASSUME ring' = ring
    PROVE  /\ Buffer' = Buffer /\ Period' = Period /\ Urb' = Urb
           /\ Direction' = Direction /\ Slots' = Slots
  BY DEF Buffer, Period, Urb, Direction, Slots

\* A number below two buffers is wrapped by %.
LEMMA WrapsOnce ==
    ASSUME TypeOK, NEW x \in 0..(2 * Buffer - 1)
    PROVE  x % Buffer = Wrapped(x)
  <1>1. Buffer \in Nat \ {0} /\ x \in (-Buffer)..(2 * Buffer - 1)
    BY RingFacts
  <1>2. x % Buffer = IF x < 0 THEN x + Buffer ELSE IF x < Buffer THEN x ELSE x - Buffer
    BY ONLY <1>1, RemainderOnceRound
  <1> QED  BY <1>2 DEF Wrapped

\* The slots from first on are those less than n ahead of it.
LEMMA SlotsAhead ==
    ASSUME TypeOK, NEW first \in Slots, NEW n \in 0..Buffer, NEW s \in Slots
    PROVE  s \in SlotsFrom(first, n) <=> Ahead(first, s) < n
  <1>1. Buffer \in Nat \ {0} /\ Slots = 0..(Buffer - 1)
    BY RingFacts
  <1>2. ASSUME NEW i \in 0..(n - 1)
        PROVE  (first + i) % Buffer = Wrapped(first + i)
    <2>1. first + i \in 0..(2 * Buffer - 1)
      BY <1>1
    <2> QED  BY <2>1, WrapsOnce
  <1>3. s \in SlotsFrom(first, n) <=> \E i \in 0..(n - 1) : Wrapped(first + i) = s
    BY <1>2 DEF SlotsFrom
  <1>4. ASSUME NEW i \in 0..(n - 1), Wrapped(first + i) = s
        PROVE  Ahead(first, s) < n
    BY <1>1, <1>4 DEF Wrapped, Ahead
  <1>5. ASSUME Ahead(first, s) < n
        PROVE  \E i \in 0..(n - 1) : Wrapped(first + i) = s
    <2>1. Ahead(first, s) \in 0..(n - 1) /\ Wrapped(first + Ahead(first, s)) = s
      BY <1>1, <1>5 DEF Wrapped, Ahead
    <2> QED  BY <2>1
  <1> QED  BY <1>3, <1>4, <1>5

\* The ring starts in step.
LEMMA StartsInStep == Init => IInv
  <1> SUFFICES ASSUME Init PROVE IInv
    OBVIOUS
  <1>1. /\ ring \in Rings /\ ring.buffer \in Nat /\ ring.period \in Nat
        /\ ring.urb \in Nat \ {0} /\ ring.urb <= ring.period
        /\ 2 * ring.period <= ring.buffer /\ ring.buffer < LongMod /\ LongMod \in Nat
    BY RingAssumption DEF Init
  <1>2. 0 \in 0..(LongMod \div Period) /\ 0 \div Period = 0
    <2>1. Period \in Nat \ {0}
      BY <1>1 DEF Period
    <2> QED  BY <1>1, <2>1, QuotientMonotone, QuotientBelow
  <1>3. TypeOK
    <2>1. /\ hw_ptr \in 0..(LongMod - 1) /\ avail \in 0..(Buffer + 2 * Period)
          /\ core_pos \in Slots /\ app_pos \in Slots
          /\ lag \in 0..(Buffer - 1) /\ late \in 0..(2 * Period)
      BY <1>1 DEF Init, Slots, Buffer, Period
    <2>2. turn \in [Slots -> {"app", "device"}]
      BY DEF Init
    <2> QED  BY <1>2, <2>1, <2>2 DEF Init, TypeOK
  <1> QED  BY <1>2, <1>3 DEF Init, IInv, PeriodCount, Ready, PointerInStep, TurnInStep,
                             LagBounded, LateBounded

----------------------------------------------------------------------------
\* What the core makes of the pointer: it sees all the device has moved.
LEMMA CoreSeesAll ==
    ASSUME IInv, state = "running"
    PROVE  /\ Moved = lag /\ lag \in 0..(Buffer - 1) /\ Pointer \in Slots
           /\ lag < Period + Urb
  <1>1. /\ Buffer \in Nat \ {0} /\ Period \in Nat \ {0} /\ Urb \in Nat \ {0}
        /\ Urb <= Period /\ 2 * Period <= Buffer /\ Slots = 0..(Buffer - 1)
    BY RingFacts DEF IInv
  <1>2. lag \in 0..(Buffer - 1) /\ core_pos \in Slots /\ hw_ptr \in Int
    BY <1>1 DEF IInv, TypeOK
  <1>3. Pointer = Wrapped(core_pos + lag)
    BY DEF IInv, PointerInStep
  <1>4. Pointer \in Slots
    BY <1>1, <1>2, <1>3 DEF Wrapped
  <1>5. (Pointer - core_pos) % Buffer = lag
    <2>1. Pointer - core_pos \in (-Buffer)..(2 * Buffer - 1)
      BY <1>1, <1>2, <1>4
    <2>2. (Pointer - core_pos) % Buffer
            = IF Pointer - core_pos < 0 THEN Pointer - core_pos + Buffer
              ELSE IF Pointer - core_pos < Buffer THEN Pointer - core_pos
              ELSE Pointer - core_pos - Buffer
      BY ONLY <1>1, <2>1, RemainderOnceRound
    <2> HIDE DEF Pointer
    <2> QED  BY ONLY <1>1, <1>2, <1>3, <2>2 DEF Wrapped
  <1>6. lag < Period + Urb
    <2>1. hw_ptr % Period \in 0..(Period - 1)
      BY <1>1, <1>2
    <2> QED  BY <1>1, <1>2, <2>1 DEF IInv, LagBounded
  <1> QED  BY <1>2, <1>4, <1>5, <1>6 DEF Moved

\* prepare empties the ring and sets the device back to its start.
LEMMA PrepareKeepsStep ==
    ASSUME IInv, ring' = ring, Prepare
    PROVE  IInv'
  <1>1. /\ Buffer \in Nat \ {0} /\ Period \in Nat \ {0} /\ 2 * Period <= Buffer
        /\ LongMod \in Nat /\ Buffer < LongMod /\ Slots = 0..(Buffer - 1)
        /\ Direction \in {"playback", "capture"}
    BY RingFacts DEF IInv
  <1>2. /\ Buffer' = Buffer /\ Period' = Period /\ Urb' = Urb
        /\ Direction' = Direction /\ Slots' = Slots
    BY SameRing
  <1>3. /\ state' = "prepared" /\ hw_ptr' = 0 /\ prev_period' = 0
        /\ core_pos' = 0 /\ app_pos' = 0 /\ lag' = 0 /\ late' = 0
        /\ avail' = (IF Direction = "playback" THEN Buffer ELSE 0)
        /\ turn' = [s \in Slots |-> IF Direction = "playback" THEN "app" ELSE "device"]
        /\ UNCHANGED <<elapse, asleep>>
    BY DEF Prepare, Reset, Empty
  <1>4. 0 \in 0..(LongMod \div Period) /\ 0 \div Period = 0
    BY <1>1, QuotientMonotone, QuotientBelow
  <1>5. 0 % Buffer = 0
    BY ONLY <1>1, RemainderOnceRound, 0 \in (-Buffer)..(2 * Buffer - 1)
  <1>6. TypeOK'
    <2>1. /\ hw_ptr' \in 0..(LongMod - 1) /\ avail' \in 0..(Buffer + 2 * Period)
          /\ core_pos' \in Slots /\ app_pos' \in Slots
          /\ lag' \in 0..(Buffer - 1) /\ late' \in 0..(2 * Period)
      BY <1>1, <1>3
    <2>2. turn' \in [Slots -> {"app", "device"}]
      BY <1>3
    <2> QED  BY <1>2, <1>3, <1>4, <2>1, <2>2 DEF IInv, TypeOK
  <1>7. PeriodCount' /\ Ready' /\ LagBounded' /\ LateBounded'
    BY <1>1, <1>2, <1>3, <1>4 DEF PeriodCount, Ready, LagBounded, LateBounded
  <1>8. PointerInStep'
    BY <1>1, <1>2, <1>3, <1>5 DEF PointerInStep, Pointer, Wrapped
  <1>9. TurnInStep'
    BY <1>1, <1>2, <1>3 DEF TurnInStep, Ahead
  <1> QED  BY <1>6, <1>7, <1>8, <1>9 DEF IInv

\* START finds the ring as prepare and the writes before it left it.
LEMMA StartKeepsStep ==
    ASSUME IInv, ring' = ring, Start
    PROVE  IInv'
  <1>1. /\ Buffer \in Nat \ {0} /\ Period \in Nat \ {0} /\ 2 * Period <= Buffer
        /\ LongMod \in Nat /\ Buffer < LongMod /\ Slots = 0..(Buffer - 1)
        /\ Direction \in {"playback", "capture"} /\ Urb \in Nat \ {0}
    BY RingFacts DEF IInv
  <1>2. /\ Buffer' = Buffer /\ Period' = Period /\ Urb' = Urb
        /\ Direction' = Direction /\ Slots' = Slots
    BY SameRing
  <1>3. /\ state = "prepared" /\ state' = "running" /\ hw_ptr' = 0 /\ prev_period' = 0
        /\ (Direction = "playback" => avail < Buffer)
        /\ UNCHANGED <<elapse, core_pos, app_pos, avail, asleep, turn, lag, late>>
    BY DEF Start, Reset, core, ghosts
  <1>4. hw_ptr = 0 /\ core_pos = 0 /\ lag = 0 /\ late = 0 /\ avail < Buffer
    BY <1>1, <1>3 DEF IInv, Ready
  <1>5. 0 \in 0..(LongMod \div Period) /\ 0 \div Period = 0
    BY <1>1, QuotientMonotone, QuotientBelow
  <1>6. TypeOK'
    BY <1>1, <1>2, <1>3, <1>5 DEF IInv, TypeOK
  <1>7. PeriodCount' /\ Ready' /\ LateBounded'
    BY <1>2, <1>3, <1>4, <1>5 DEF PeriodCount, Ready, LateBounded
  <1>8. PointerInStep' /\ TurnInStep'
    BY <1>2, <1>3, <1>4 DEF IInv, PointerInStep, TurnInStep, Pointer, Wrapped, Ahead
  <1>9. LagBounded'
    <2>1. hw_ptr' % Period \in 0..(Period - 1)
      BY <1>1, <1>3
    <2> QED  BY <1>1, <1>2, <1>3, <1>4, <2>1 DEF LagBounded
  <1> QED  BY <1>6, <1>7, <1>8, <1>9 DEF IInv

\* A stopped ring promises nothing until it is prepared again.
LEMMA DropKeepsStep ==
    ASSUME IInv, ring' = ring, Drop
    PROVE  IInv'
  <1>1. Buffer' = Buffer /\ Period' = Period /\ Slots' = Slots
    BY SameRing
  <1>2. /\ state' = "setup"
        /\ UNCHANGED <<hw_ptr, prev_period, elapse>>
        /\ UNCHANGED <<core_pos, app_pos, avail, asleep, turn, lag, late>>
    BY DEF Drop, device, core, ghosts
  <1> QED  BY <1>1, <1>2 DEF IInv, TypeOK, PeriodCount, Ready, PointerInStep, TurnInStep,
                             LagBounded, LateBounded

\* Falling asleep moves nothing.
LEMMA SleepKeepsStep ==
    ASSUME IInv, ring' = ring, Sleep
    PROVE  IInv'
  <1>1. /\ Buffer' = Buffer /\ Period' = Period /\ Urb' = Urb
        /\ Direction' = Direction /\ Slots' = Slots
    BY SameRing
  <1>2. /\ state = "running" /\ asleep' = TRUE
        /\ UNCHANGED <<state, hw_ptr, prev_period, elapse>>
        /\ UNCHANGED <<core_pos, app_pos, avail, turn, lag, late>>
    BY DEF Sleep, device, ghosts
  <1> QED  BY <1>1, <1>2 DEF IInv, TypeOK, PeriodCount, Ready, PointerInStep, TurnInStep,
                             LagBounded, LateBounded, Pointer, Wrapped, Ahead

\* Slots written before START are the device's.
LEMMA FillKeepsStep ==
    ASSUME IInv, ring' = ring, NEW n \in Nat, Fill(n)
    PROVE  IInv'
  <1>1. /\ Buffer \in Nat \ {0} /\ Period \in Nat \ {0} /\ Slots = 0..(Buffer - 1)
        /\ Direction \in {"playback", "capture"}
    BY RingFacts DEF IInv
  <1>2. /\ Buffer' = Buffer /\ Period' = Period /\ Urb' = Urb
        /\ Direction' = Direction /\ Slots' = Slots
    BY SameRing
  <1>3. /\ state = "prepared" /\ state' = "prepared" /\ n <= avail
        /\ turn' = [s \in Slots |-> IF s \in SlotsFrom(app_pos, n) THEN "device" ELSE turn[s]]
        /\ app_pos' = (app_pos + n) % Buffer /\ avail' = avail - n
        /\ UNCHANGED <<hw_ptr, prev_period, elapse, core_pos, asleep, lag, late>>
    BY DEF Fill, device
  <1>4. /\ hw_ptr = 0 /\ core_pos = 0 /\ lag = 0 /\ late = 0 /\ avail <= Buffer
        /\ (Direction = "capture" => avail < Buffer)
    BY <1>3 DEF IInv, Ready
  <1>5. /\ app_pos \in Slots /\ avail \in 0..(Buffer + 2 * Period)
        /\ turn \in [Slots -> {"app", "device"}]
    BY DEF IInv, TypeOK
  <1>6. app_pos' = Wrapped(app_pos + n)
    <2>1. app_pos + n \in 0..(2 * Buffer - 1)
      BY <1>1, <1>3, <1>4, <1>5
    <2> QED  BY <1>3, <2>1, WrapsOnce DEF IInv
  <1>7. \A s \in Slots : s \in SlotsFrom(app_pos, n) <=> Ahead(app_pos, s) < n
    BY <1>1, <1>3, <1>4, <1>5, SlotsAhead DEF IInv
  <1>8. turn' \in [Slots -> {"app", "device"}] /\ app_pos' \in Slots /\ avail' \in 0..Buffer
    BY <1>1, <1>3, <1>4, <1>5, <1>6 DEF Wrapped
  <1>9. TypeOK'
    BY <1>1, <1>2, <1>3, <1>8 DEF IInv, TypeOK
  <1>10. PeriodCount' /\ Ready' /\ LagBounded' /\ LateBounded'
    BY <1>1, <1>2, <1>3, <1>4, <1>5 DEF IInv, PeriodCount, Ready, LagBounded, LateBounded
  <1>11. PointerInStep'
    BY <1>1, <1>2, <1>3, <1>4, <1>5, <1>6 DEF IInv, PointerInStep, Pointer, Wrapped
  <1>12. TurnInStep'
    <2> SUFFICES ASSUME NEW s \in Slots
                 PROVE  turn'[s] = "app" <=> Ahead(app_pos', s) < avail'
      BY <1>2, <1>3, <1>4, <1>8 DEF TurnInStep, Ahead
    <2>1. turn[s] = "app" <=> Ahead(app_pos, s) < avail
      BY <1>3, <1>4, <1>5 DEF IInv, TurnInStep
    <2>2. turn'[s] = IF Ahead(app_pos, s) < n THEN "device" ELSE turn[s]
      BY <1>3, <1>7
    <2> QED  BY <1>1, <1>3, <1>4, <1>5, <1>6, <2>1, <2>2 DEF Ahead, Wrapped
  <1> QED  BY <1>9, <1>10, <1>11, <1>12 DEF IInv

\* What a look at the pointer leaves behind, whoever takes it.
LEMMA LookKeepsStep ==
    ASSUME IInv, ring' = ring, state = "running", Look(Moved),
           NEW got \in Nat, got = 0 \/ (avail + Moved < Buffer /\ got <= avail + Moved),
           app_pos' = (app_pos + got) % Buffer,
           avail' = avail + Moved - got,
           turn' = [s \in Slots |-> IF s \in SlotsFrom(app_pos, got) THEN "device" ELSE turn[s]],
           elapse' \in BOOLEAN
    PROVE  IInv'
  <1>1. /\ Buffer \in Nat \ {0} /\ Period \in Nat \ {0} /\ Urb \in Nat \ {0}
        /\ Urb <= Period /\ 2 * Period <= Buffer /\ Slots = 0..(Buffer - 1)
    BY RingFacts DEF IInv
  <1>2. /\ Buffer' = Buffer /\ Period' = Period /\ Urb' = Urb
        /\ Direction' = Direction /\ Slots' = Slots
    BY SameRing
  <1>3. /\ Moved = lag /\ lag \in 0..(Buffer - 1) /\ Pointer \in Slots
        /\ lag < Period + Urb
    BY CoreSeesAll
  <1>4. /\ core_pos' = Pointer /\ lag' = 0
        /\ state' = (IF avail + lag >= Buffer THEN "xrun" ELSE state)
        /\ asleep' = (asleep /\ avail + lag < Period)
        /\ UNCHANGED <<hw_ptr, prev_period, late>>
    BY <1>3 DEF Look, device
  <1>5. /\ app_pos \in Slots /\ core_pos \in Slots /\ avail \in 0..(Buffer - 1)
        /\ late \in 0..(2 * Period) /\ turn \in [Slots -> {"app", "device"}]
    BY <1>1 DEF IInv, TypeOK, LagBounded
  <1>6. got \in 0..Buffer /\ got <= avail + lag /\ (got > 0 => avail + lag < Buffer)
    BY <1>1, <1>3, <1>5
  <1>7. app_pos' = Wrapped(app_pos + got) /\ app_pos' \in Slots
    <2>1. app_pos + got \in 0..(2 * Buffer - 1)
      BY <1>1, <1>5, <1>6
    <2>2. app_pos' = Wrapped(app_pos + got)
      BY <2>1, WrapsOnce DEF IInv
    <2> QED  BY <1>1, <2>1, <2>2 DEF Wrapped
  <1>8. \A s \in Slots : s \in SlotsFrom(app_pos, got) <=> Ahead(app_pos, s) < got
    BY <1>5, <1>6, SlotsAhead DEF IInv
  <1>9. /\ turn' \in [Slots -> {"app", "device"}]
        /\ avail' = avail + lag - got /\ avail' \in 0..(Buffer + 2 * Period)
    BY <1>1, <1>3, <1>5, <1>6
  <1>10. /\ Pointer = Wrapped(core_pos + lag) /\ core_pos = Wrapped(app_pos + avail)
    BY DEF IInv, PointerInStep
  <1>11. Pointer' = Pointer
    BY <1>2, <1>4 DEF Pointer
  <1>12. state' = "running" => avail + lag < Buffer /\ state' = state
    BY <1>1, <1>3, <1>4, <1>5
  <1>13. TypeOK'
    <2>1. state' \in {"setup", "prepared", "running", "xrun"} /\ asleep' \in BOOLEAN
      BY <1>4 DEF IInv, TypeOK
    <2>2. 0 \in 0..(Buffer - 1)
      BY <1>1
    <2> QED  BY <1>2, <1>3, <1>4, <1>7, <1>9, <2>1, <2>2 DEF IInv, TypeOK
  <1>14. state' # "prepared"
    BY <1>4
  <1>15. PeriodCount' /\ Ready'
    BY <1>2, <1>4, <1>14 DEF IInv, PeriodCount, Ready
  <1>16. PointerInStep'
    <2> SUFFICES ASSUME state' = "running"
                 PROVE  Pointer = Wrapped(Pointer + 0) /\ Pointer = Wrapped(app_pos' + avail')
      BY <1>2, <1>4, <1>11, <1>14 DEF PointerInStep, Wrapped
    <2>1. Pointer = Wrapped(Pointer + 0)
      BY <1>1, <1>3 DEF Wrapped
    <2>2. Pointer = Wrapped(app_pos + (avail + lag))
      BY <1>1, <1>3, <1>5, <1>10, <1>12 DEF Wrapped
    <2>3. CASE app_pos + got < Buffer
      <3>1. app_pos' + avail' = app_pos + (avail + lag)
        BY <1>1, <1>3, <1>5, <1>6, <1>7, <1>9, <2>3 DEF Wrapped
      <3> QED  BY <2>1, <2>2, <3>1
    <2>4. CASE app_pos + got >= Buffer
      <3>1. app_pos' + avail' = app_pos + (avail + lag) - Buffer
        BY <1>1, <1>3, <1>5, <1>6, <1>7, <1>9, <2>4 DEF Wrapped
      <3>2. app_pos + (avail + lag) \in Buffer..(2 * Buffer - 1)
        BY <1>1, <1>3, <1>5, <1>6, <1>12, <2>4
      <3>3. Wrapped(app_pos' + avail') = app_pos + (avail + lag) - Buffer
        BY <1>1, <1>3, <1>5, <3>1, <3>2 DEF Wrapped
      <3>4. Pointer = app_pos + (avail + lag) - Buffer
        BY <1>1, <1>3, <1>5, <2>2, <3>2 DEF Wrapped
      <3> QED  BY <2>1, <3>3, <3>4
    <2> QED  BY <1>1, <1>5, <1>6, <2>3, <2>4
  <1>17. TurnInStep'
    <2> SUFFICES ASSUME state' = "running", NEW s \in Slots
                 PROVE  turn'[s] = "app" <=> Ahead(app_pos', s) < avail'
      BY <1>1, <1>2, <1>4, <1>9, <1>14 DEF TurnInStep, Ahead
    <2>1. turn[s] = "app" <=> Ahead(app_pos, s) < avail + lag
      BY DEF IInv, TurnInStep
    <2>2. turn'[s] = IF Ahead(app_pos, s) < got THEN "device" ELSE turn[s]
      BY <1>8
    <2> QED  BY <1>1, <1>3, <1>5, <1>6, <1>7, <1>9, <1>12, <2>1, <2>2 DEF Ahead, Wrapped
  <1>18. LagBounded'
    <2>1. hw_ptr' % Period' \in 0..(Period' - 1)
      BY <1>1, <1>2, <1>4 DEF IInv, TypeOK
    <2> QED  BY <1>1, <1>2, <1>3, <1>4, <1>5, <1>6, <1>9, <1>12, <2>1 DEF LagBounded
  <1>19. LateBounded'
    <2>1. late <= lag /\ (late > 0 => avail + lag >= Buffer)
      BY DEF IInv, LateBounded
    <2> QED  BY <1>1, <1>3, <1>4, <1>5, <1>12, <2>1 DEF LateBounded
  <1> QED  BY <1>13, <1>15, <1>16, <1>17, <1>18, <1>19 DEF IInv

\* Where a copy of a URB's frames leaves hw_ptr, round the ring and in its period.
LEMMA PointerAfterCopy ==
    ASSUME IInv, WrapsEvenly, NEW frames \in 1..Urb
    PROVE  /\ MovedBy(frames) \in 0..(LongMod - 1)
           /\ MovedBy(frames) % Buffer = Wrapped((hw_ptr % Buffer) + frames)
           /\ ~Crosses(MovedBy(frames)) => MovedBy(frames) % Period = (hw_ptr % Period) + frames
  <1>1. /\ Buffer \in Nat \ {0} /\ Period \in Nat \ {0} /\ Urb \in Nat \ {0}
        /\ Urb <= Period /\ 2 * Period <= Buffer
        /\ LongMod \in Nat /\ Buffer < LongMod
    BY RingFacts DEF IInv
  <1>2. hw_ptr \in 0..(LongMod - 1) /\ prev_period = hw_ptr \div Period
    BY DEF IInv, TypeOK, PeriodCount
  <1>3. PICK sum \in Nat : sum = hw_ptr + frames
    BY <1>1, <1>2
  <1>4. MovedBy(frames) = IF sum < LongMod THEN sum ELSE sum - LongMod
    <2>1. LongMod \in Nat \ {0} /\ sum \in (-LongMod)..(2 * LongMod - 1) /\ sum >= 0
      BY <1>1, <1>2, <1>3
    <2>2. sum % LongMod = IF sum < 0 THEN sum + LongMod
                          ELSE IF sum < LongMod THEN sum ELSE sum - LongMod
      BY ONLY <2>1, RemainderOnceRound
    <2> QED  BY <1>3, <2>1, <2>2 DEF MovedBy
  <1>5. MovedBy(frames) \in 0..(LongMod - 1)
    BY <1>1, <1>2, <1>3, <1>4
  <1>6. MovedBy(frames) % Buffer = sum % Buffer
    <2>1. CASE sum < LongMod
      BY <1>4, <2>1
    <2>2. CASE sum >= LongMod
      <3>1. LongMod % Buffer = 0
        BY <1>1, <1>2, <1>3, <2>2 DEF WrapsEvenly
      <3>2. (sum - LongMod) % Buffer = sum % Buffer
        BY ONLY <1>1, <3>1, sum \in Nat, WholeRounds
      <3>3. MovedBy(frames) = sum - LongMod
        BY <1>1, <1>4, <2>2
      <3> QED  BY <3>2, <3>3
    <2> QED  BY <1>1, <2>1, <2>2
  <1>7. sum % Buffer = Wrapped((hw_ptr % Buffer) + frames)
    <2>1. hw_ptr \in Nat /\ frames \in 0..Buffer
      BY <1>1, <1>2
    <2>2. (hw_ptr + frames) % Buffer = IF (hw_ptr % Buffer) + frames < Buffer
                                        THEN (hw_ptr % Buffer) + frames
                                        ELSE (hw_ptr % Buffer) + frames - Buffer
      BY ONLY <1>1, <2>1, RemainderOfStep
    <2>3. (hw_ptr + frames) % Buffer = Wrapped((hw_ptr % Buffer) + frames)
      <3> DEFINE old == hw_ptr % Buffer
                 new == (hw_ptr + frames) % Buffer
      <3>1. old \in Int /\ new \in Int
        BY <1>1, <1>2
      <3>2. new = IF old + frames < Buffer THEN old + frames ELSE old + frames - Buffer
        BY ONLY <2>2, Zenon
      <3> HIDE DEF old, new
      <3>3. new = Wrapped(old + frames)
        BY <1>1, <1>3, <1>5, <3>1, <3>2 DEF Wrapped
      <3> QED  BY ONLY <3>3, Zenon DEF old, new
    <2>4. sum % Buffer = (hw_ptr + frames) % Buffer
      BY ONLY <1>3, Zenon
    <2> QED  BY ONLY <2>3, <2>4, Zenon
  <1>8. ASSUME ~Crosses(MovedBy(frames))
        PROVE  MovedBy(frames) % Period = (hw_ptr % Period) + frames
    <2>1. MovedBy(frames) \div Period = hw_ptr \div Period
      BY <1>2, <1>8 DEF Crosses
    <2>2. CASE sum < LongMod
      <3>1. hw_ptr \in Nat /\ frames \in Nat /\ (hw_ptr + frames) \div Period = hw_ptr \div Period
        BY <1>1, <1>2, <1>3, <1>4, <2>1, <2>2
      <3>2. (hw_ptr + frames) % Period = (hw_ptr % Period) + frames
        BY ONLY <1>1, <3>1, RemainderWithin
      <3> QED  BY <1>3, <1>4, <2>2, <3>2
    <2>3. CASE sum >= LongMod
      <3>1. /\ MovedBy(frames) < Period /\ MovedBy(frames) \in Nat
           /\ hw_ptr >= Period /\ hw_ptr \in Nat
        BY <1>1, <1>2, <1>3, <1>4, <2>3
      <3>2. MovedBy(frames) \div Period = 0 /\ hw_ptr \div Period # 0
        BY <1>1, <3>1, QuotientBelow
      <3> QED  BY <2>1, <3>2
    <2> QED  BY <1>1, <2>2, <2>3
  <1> QED  BY <1>5, <1>6, <1>7, <1>8

\* A handler takes the slots that the device is due, and hw_ptr past them.
LEMMA CopyKeepsStep ==
    ASSUME IInv, WrapsEvenly, ring' = ring, NEW frames \in 1..Urb, Copy(frames)
    PROVE  IInv'
  <1> DEFINE touched == SlotsFrom(Pointer, frames)
             next    == MovedBy(frames)
  <1>1. /\ Buffer \in Nat \ {0} /\ Period \in Nat \ {0} /\ Urb \in Nat \ {0}
        /\ Urb <= Period /\ 2 * Period <= Buffer /\ Slots = 0..(Buffer - 1)
        /\ LongMod \in Nat
    BY RingFacts DEF IInv
  <1>2. /\ Buffer' = Buffer /\ Period' = Period /\ Urb' = Urb
        /\ Direction' = Direction /\ Slots' = Slots
    BY SameRing
  <1>3. /\ state = "running" /\ ~elapse /\ state' = "running"
        /\ hw_ptr' = next /\ prev_period' = next \div Period
        /\ elapse' = Crosses(next)
        /\ turn' = [s \in Slots |-> IF s \in touched THEN "app" ELSE turn[s]]
        /\ lag' = UpToBuffer(lag + frames)
        /\ late' = (IF \E s \in touched : turn[s] = "app" THEN UpToBuffer(late + frames) ELSE late)
        /\ UNCHANGED <<core_pos, app_pos, avail, asleep>>
    BY DEF Copy, core, Pointer
  <1>4. /\ next \in 0..(LongMod - 1)
        /\ next % Buffer = Wrapped(Pointer + frames)
        /\ ~Crosses(next) => next % Period = (hw_ptr % Period) + frames
    BY PointerAfterCopy DEF Pointer
  <1>5. /\ Pointer \in Slots /\ lag \in 0..(Buffer - 1)
    BY <1>3, CoreSeesAll
  <1>6. /\ Pointer = Wrapped(core_pos + lag) /\ core_pos = Wrapped(app_pos + avail)
        /\ lag <= hw_ptr % Period /\ avail < Buffer
        /\ late <= lag /\ (late > 0 => avail + lag >= Buffer)
    BY <1>3 DEF IInv, PointerInStep, LagBounded, LateBounded
  <1>7. /\ core_pos \in Slots /\ app_pos \in Slots /\ avail \in 0..(Buffer - 1)
        /\ late \in 0..(2 * Period) /\ turn \in [Slots -> {"app", "device"}]
    BY <1>1, <1>6 DEF IInv, TypeOK
  <1>8. hw_ptr % Period \in 0..(Period - 1)
    BY <1>1 DEF IInv, TypeOK
  <1>9. \A s \in Slots : s \in touched <=> Ahead(Pointer, s) < frames
    BY <1>1, <1>5, SlotsAhead DEF IInv
  <1>10. touched \subseteq Slots
    BY <1>1, <1>5 DEF SlotsFrom
  <1>11. Pointer' = Wrapped(Pointer + frames)
    BY <1>2, <1>3, <1>4 DEF Pointer
  <1> HIDE DEF touched, next
  <1>12. lag' = lag + frames /\ lag' < Period + Urb /\ lag' \in 0..(Buffer - 1)
    BY <1>1, <1>3, <1>5, <1>6, <1>8 DEF UpToBuffer
  <1>13. Crosses(next) \in BOOLEAN
    BY DEF Crosses
  <1>14. \A s \in Slots : turn[s] = "app" <=> Ahead(app_pos, s) < avail + lag
    BY <1>3 DEF IInv, TurnInStep
  <1>15. /\ late' \in 0..(2 * Period) /\ late' <= lag'
         /\ late' > 0 => avail + lag' >= Buffer
    <2>1. CASE \E s \in touched : turn[s] = "app"
      <3>1. PICK s \in Slots : s \in touched /\ turn[s] = "app"
        BY <1>10, <2>1
      <3>2. avail + lag + frames > Buffer
        <4>1. Ahead(Pointer, s) < frames /\ Ahead(app_pos, s) < avail + lag
          BY <1>9, <1>14, <3>1
        <4> QED  BY <1>1, <1>5, <1>6, <1>7, <4>1 DEF Ahead, Wrapped
      <3>3. late' = UpToBuffer(late + frames)
        BY <1>3, <2>1
      <3> QED  BY <1>1, <1>5, <1>6, <1>7, <1>8, <1>12, <3>2, <3>3 DEF UpToBuffer
    <2>2. CASE ~\E s \in touched : turn[s] = "app"
      <3>1. late' = late
        BY <1>3, <2>2
      <3>2. lag <= lag'
        BY <1>1, <1>5, <1>12
      <3> QED  BY ONLY <1>1, <1>5, <1>6, <1>7, <1>12, <3>1, <3>2
    <2> QED  BY <2>1, <2>2
  <1>16. next \div Period \in 0..(LongMod \div Period)
    <2>1. next \in Nat /\ next <= LongMod
      BY <1>1, <1>4
    <2> QED  BY <1>1, <2>1, QuotientMonotone
  <1>17. turn' \in [Slots -> {"app", "device"}]
    BY <1>3, <1>7
  <1>18. TypeOK'
    BY <1>2, <1>3, <1>4, <1>12, <1>13, <1>15, <1>16, <1>17 DEF IInv, TypeOK
  <1>19. PeriodCount' /\ Ready' /\ LateBounded'
    BY <1>2, <1>3, <1>15 DEF PeriodCount, Ready, LateBounded
  <1>20. PointerInStep'
    <2>1. Wrapped(Pointer + frames) = Wrapped(core_pos + lag + frames)
      BY <1>1, <1>5, <1>6, <1>7, <1>12 DEF Wrapped
    <2>2. core_pos + lag + frames = core_pos + lag'
      BY <1>1, <1>5, <1>7, <1>12
    <2>3. Pointer' = Wrapped(core_pos' + lag')
      BY <1>3, <1>11, <2>1, <2>2
    <2> QED  BY <1>2, <1>3, <1>6, <2>3 DEF PointerInStep, Wrapped
  <1>21. TurnInStep'
    <2> SUFFICES ASSUME NEW s \in Slots
                 PROVE  turn'[s] = "app" <=> Ahead(app_pos, s) < avail + lag + frames
      BY <1>1, <1>2, <1>3, <1>5, <1>7, <1>12 DEF TurnInStep, Ahead
    <2>1. turn'[s] = IF Ahead(Pointer, s) < frames THEN "app" ELSE turn[s]
      BY <1>3, <1>9
    <2> QED  BY <1>1, <1>5, <1>6, <1>7, <1>14, <2>1 DEF Ahead, Wrapped
  <1>22. LagBounded'
    <2>1. ASSUME ~elapse'  PROVE lag' <= hw_ptr' % Period
      <3>1. hw_ptr' % Period = (hw_ptr % Period) + frames
        BY <1>3, <1>4, <2>1
      <3> QED  BY <1>1, <1>5, <1>6, <1>8, <1>12, <3>1
    <2> QED  BY <1>2, <1>3, <1>6, <1>12, <2>1 DEF LagBounded
  <1> QED  BY <1>18, <1>19, <1>20, <1>21, <1>22 DEF IInv

\* The application moves frames after a look.
LEMMA AccessKeepsStep ==
    ASSUME IInv, ring' = ring, NEW n \in Nat, Access(n)
    PROVE  IInv'
  <1> DEFINE got == IF avail + Moved < Buffer /\ n <= avail + Moved THEN n ELSE 0
  <1>1. /\ state = "running" /\ Look(Moved) /\ UNCHANGED elapse
        /\ turn' = [s \in Slots |-> IF s \in SlotsFrom(app_pos, got) THEN "device" ELSE turn[s]]
        /\ app_pos' = (app_pos + got) % Buffer /\ avail' = avail + Moved - got
    BY DEF Access
  <1>2. got \in Nat /\ (got = 0 \/ (avail + Moved < Buffer /\ got <= avail + Moved))
    OBVIOUS
  <1>3. elapse' \in BOOLEAN
    BY <1>1 DEF IInv, TypeOK
  <1> HIDE DEF got
  <1> QED  BY <1>1, <1>2, <1>3, LookKeepsStep

\* snd_pcm_period_elapsed() is a look after which nothing is moved.
LEMMA ElapsedKeepsStep ==
    ASSUME IInv, ring' = ring, Elapsed
    PROVE  IInv'
  <1>1. /\ Buffer \in Nat \ {0} /\ Period \in Nat \ {0} /\ Slots = 0..(Buffer - 1)
    BY RingFacts DEF IInv
  <1>2. CASE state = "running"
    <2>1. /\ Look(Moved) /\ avail' = avail + Moved /\ UNCHANGED <<app_pos, turn>>
          /\ elapse' = FALSE
      BY <1>2 DEF Elapsed
    <2>2. /\ Moved \in 0..(Buffer - 1)
      BY <1>2, CoreSeesAll
    <2>3. /\ app_pos \in Slots /\ avail \in 0..(Buffer + 2 * Period)
          /\ turn \in [Slots -> {"app", "device"}]
      BY DEF IInv, TypeOK
    <2>4. app_pos' = (app_pos + 0) % Buffer
      <3>1. app_pos + 0 \in 0..(2 * Buffer - 1)
        BY <1>1, <2>3
      <3>2. (app_pos + 0) % Buffer = Wrapped(app_pos + 0)
        BY <3>1, WrapsOnce DEF IInv
      <3>3. Wrapped(app_pos + 0) = app_pos
        BY <1>1, <2>3 DEF Wrapped
      <3> QED  BY <2>1, <3>2, <3>3
    <2>5. avail' = avail + Moved - 0
      BY <1>1, <2>1, <2>2, <2>3
    <2>6. \A s \in Slots : s \notin SlotsFrom(app_pos, 0)
      BY DEF SlotsFrom
    <2>7. turn' = [s \in Slots |-> IF s \in SlotsFrom(app_pos, 0) THEN "device" ELSE turn[s]]
      BY <2>1, <2>3, <2>6
    <2> QED  BY <1>2, <2>1, <2>4, <2>5, <2>7, LookKeepsStep
  <1>3. CASE state # "running"
    <2>1. /\ Buffer' = Buffer /\ Period' = Period /\ Urb' = Urb
          /\ Direction' = Direction /\ Slots' = Slots
      BY SameRing
    <2>2. /\ elapse' = FALSE
          /\ UNCHANGED <<state, hw_ptr, prev_period>>
          /\ UNCHANGED <<core_pos, app_pos, avail, asleep, turn, lag, late>>
      BY <1>3 DEF Elapsed, device, core, ghosts
    <2> QED  BY <1>3, <2>1, <2>2 DEF IInv, TypeOK, PeriodCount, Ready, PointerInStep, TurnInStep,
                                   LagBounded, LateBounded, Pointer, Wrapped, Ahead
  <1> QED  BY <1>2, <1>3

----------------------------------------------------------------------------
\* So the ring stays in step, whoever moves.
LEMMA StepKeepsStep == IInv /\ WrapsEvenly /\ [Next]_vars => IInv'
  <1> SUFFICES ASSUME IInv, WrapsEvenly, [Next]_vars
               PROVE  IInv'
    OBVIOUS
  <1>1. CASE UNCHANGED vars
    BY <1>1 DEF vars, device, core, ghosts, IInv, TypeOK, PeriodCount, Ready, PointerInStep,
                TurnInStep, LagBounded, LateBounded, Pointer, Wrapped, Ahead, Buffer, Period,
                Urb, Slots, Direction
  <1>2. ASSUME ring' = ring, CopyUrb  PROVE IInv'
    BY <1>2, CopyKeepsStep DEF CopyUrb
  <1>3. ASSUME ring' = ring, NEW n \in Chunks \cup {0}, Access(n) \/ Fill(n)  PROVE IInv'
    <2>1. n \in Nat
      BY RingAssumption
    <2> QED  BY <1>3, <2>1, AccessKeepsStep, FillKeepsStep
  <1> QED
    BY <1>1, <1>2, <1>3, PrepareKeepsStep, StartKeepsStep, DropKeepsStep, ElapsedKeepsStep,
       SleepKeepsStep DEF Next

\* And is in step in every state.
LEMMA Invariance == Spec /\ []WrapsEvenly => []IInv
  BY StartsInStep, StepKeepsStep, PTL DEF Spec

\* The types: the bounds of avail and late are the ones a late look leaves.
THEOREM RingTypes == Spec /\ []WrapsEvenly => []TypeOK
  <1>1. IInv => TypeOK
    BY DEF IInv
  <1> QED  BY <1>1, Invariance, PTL

\* bf_urb_complete() and bf_cap_complete() report often enough: the core never
\* has a whole ring to make up for, for it has less than a period, or one and a
\* URB while a handler is about to report.
THEOREM CoreIsTold == Spec /\ []WrapsEvenly => []CoreKeepsUp
  <1>1. IInv => CoreKeepsUp
    <2> SUFFICES ASSUME IInv, state = "running", ~elapse
                 PROVE  lag < Period
      BY DEF IInv, LagBounded, CoreKeepsUp
    <2>1. Period \in Nat \ {0}
      BY RingFacts DEF IInv
    <2>2. hw_ptr % Period \in 0..(Period - 1) /\ lag \in Int
      BY <2>1 DEF IInv, TypeOK
    <2> QED  BY <2>1, <2>2 DEF IInv, LagBounded
  <1> QED  BY <1>1, Invariance, PTL

\* What pointer() makes the core offer has been played, or recorded.
THEOREM OfferedIsReal == Spec /\ []WrapsEvenly => []AvailIsReal
  <1>1. IInv => AvailIsReal
    <2> SUFFICES ASSUME IInv, state = "running", NEW s \in SlotsFrom(app_pos, avail)
                 PROVE  turn[s] = "app"
      BY DEF AvailIsReal
    <2>1. /\ Buffer \in Nat \ {0} /\ Slots = 0..(Buffer - 1) /\ Period \in Nat \ {0}
      BY RingFacts DEF IInv
    <2>2. /\ app_pos \in Slots /\ avail \in 0..Buffer /\ lag \in 0..(Buffer - 1)
      BY <2>1 DEF IInv, TypeOK, LagBounded
    <2>3. s \in Slots
      BY <2>1, <2>2 DEF SlotsFrom
    <2>4. Ahead(app_pos, s) < avail
      BY <2>2, <2>3, SlotsAhead DEF IInv
    <2>5. Ahead(app_pos, s) \in Int
      BY <2>1, <2>2, <2>3 DEF Ahead
    <2>6. Ahead(app_pos, s) < avail + lag
      BY <2>1, <2>2, <2>4, <2>5
    <2> QED  BY <2>3, <2>6 DEF IInv, TurnInStep
  <1> QED  BY <1>1, Invariance, PTL

\* The device is less than a period on the slots of an application that is
\* late: the next report stops the substream.
THEOREM LateIsStopped == Spec /\ []WrapsEvenly => []LateIsCaught
  <1>1. IInv => LateIsCaught
    <2> SUFFICES ASSUME IInv, state = "running", ~elapse
                 PROVE  late < Period
      BY DEF LateIsCaught
    <2>1. Period \in Nat \ {0}
      BY RingFacts DEF IInv
    <2>2. hw_ptr % Period \in 0..(Period - 1) /\ lag \in Int /\ late \in Int
      BY <2>1 DEF IInv, TypeOK
    <2> QED  BY <2>1, <2>2 DEF IInv, LagBounded, LateBounded
  <1> QED  BY <1>1, Invariance, PTL

\* pointer() stays level with the frames that the handlers moved, through every
\* stop, start and period.
THEOREM PointerFollowsDevice == Spec /\ []WrapsEvenly => []PointerMovesOn
  <1>1. IInv => PointerMovesOn
    <2> SUFFICES ASSUME IInv, state = "running"
                 PROVE  Pointer = (core_pos + lag) % Buffer
      BY DEF PointerMovesOn
    <2>1. /\ Buffer \in Nat \ {0} /\ Slots = 0..(Buffer - 1) /\ Period \in Nat \ {0}
      BY RingFacts DEF IInv
    <2>2. core_pos + lag \in 0..(2 * Buffer - 1)
      BY <2>1 DEF IInv, TypeOK
    <2> QED  BY <2>2, WrapsOnce DEF IInv, PointerInStep
  <1> QED  BY <1>1, Invariance, PTL

\* Who falls asleep does so in a running substream with less than a period
\* offered, and every look that leaves it asleep leaves it so.
LEMMA SleepersWait ==
    Spec /\ []WrapsEvenly => [](asleep => state = "running" /\ avail < Period)
  <1> DEFINE Waits == asleep => state = "running" /\ avail < Period
  <1>1. Init => Waits
    BY DEF Init
  <1>2. IInv /\ Waits /\ [Next]_vars => Waits'
    <2> SUFFICES ASSUME IInv, Waits, [Next]_vars, asleep'
                 PROVE  state' = "running" /\ avail' < Period'
      OBVIOUS
    <2>1. CASE UNCHANGED vars
      BY <2>1 DEF vars, core, Period
    <2>2. CASE Next
      <3>1. Period' = Period /\ 2 * Period <= Buffer /\ Period \in Nat \ {0}
            /\ Buffer \in Nat
        BY <2>2, RingFacts, SameRing DEF Next, IInv
      <3>2. CASE Prepare \/ Start \/ Drop
        BY <3>1, <3>2 DEF Prepare, Empty, Start, Drop, core
      <3>3. CASE CopyUrb \/ Sleep
        BY <3>1, <3>3 DEF CopyUrb, Copy, Sleep, core
      <3>4. CASE Elapsed
        <4>1. CASE state = "running"
          <5>1. Moved \in Nat /\ avail \in Nat
            BY <4>1, CoreSeesAll DEF IInv, TypeOK
          <5>2. Look(Moved) /\ avail' = avail + Moved
            BY <3>4, <4>1 DEF Elapsed
          <5>3. asleep /\ avail + Moved < Period
            BY <5>2 DEF Look
          <5>4. ~(avail + Moved >= Buffer)
            BY <3>1, <5>1, <5>3
          <5>5. state' = "running"
            BY <4>1, <5>2, <5>4 DEF Look
          <5> QED  BY <3>1, <5>2, <5>3, <5>5
        <4>2. CASE state # "running"
          BY <3>1, <3>4, <4>2 DEF Elapsed, core
        <4> QED  BY <4>1, <4>2
      <3>5. ASSUME NEW n \in Chunks \cup {0}, Access(n) \/ Fill(n)
            PROVE  state' = "running" /\ avail' < Period'
        BY <3>5 DEF Access, Fill, Look
      <3> QED  BY <2>2, <3>2, <3>3, <3>4, <3>5 DEF Next
    <2> QED  BY <2>1, <2>2
  <1> QED  BY <1>1, <1>2, Invariance, PTL DEF Spec

\* An application that waits for a period in poll() or read() loses no frame to
\* the device before the handler that wakes it is due to report.
THEOREM SleepersLoseNothing == Spec /\ []WrapsEvenly => []SleepLosesNothing
  <1>1. IInv /\ (asleep => state = "running" /\ avail < Period) => SleepLosesNothing
    <2> SUFFICES ASSUME IInv, asleep, state = "running", avail < Period, ~elapse
                 PROVE  late = 0
      BY DEF SleepLosesNothing
    <2>1. /\ Period \in Nat \ {0} /\ Buffer \in Nat /\ 2 * Period <= Buffer
      BY RingFacts DEF IInv
    <2>2. lag < Period
      <3>1. hw_ptr % Period \in 0..(Period - 1) /\ lag \in Int
        BY <2>1 DEF IInv, TypeOK
      <3> QED  BY <2>1, <3>1 DEF IInv, LagBounded
    <2>3. avail \in Int /\ lag \in Int /\ late \in Nat
      BY <2>1 DEF IInv, TypeOK
    <2> QED  BY <2>1, <2>2, <2>3 DEF IInv, LateBounded
  <1> QED  BY <1>1, SleepersWait, Invariance, PTL
=============================================================================
