--------------------------- MODULE DifficultyProofs ---------------------------
(***************************************************************************)
(* How many waves a game can have met at any age, and how many planes there *)
(* can be, for frames of every length.                                      *)
(***************************************************************************)
EXTENDS Difficulty, TLAPS

\* Every wave of this game but the first was paid for by the time since the
\* wave before; nextSpawn is what is left of it.
FirstMinutePaid ==
  mCurrentGameTime <= Minute1 /\ waves > 0
    => 40 * (waves - 1) + nextSpawn <= mCurrentGameTime

\* The first minute pays for 16 waves, and the next two start from there.
SecondMinutePaid ==
  mCurrentGameTime <= Minute2 /\ waves >= 16
    => 30 * (waves - 16) + nextSpawn <= mCurrentGameTime - Minute1

ThirdMinutePaid ==
  mCurrentGameTime <= Minute3 /\ waves >= 36
    => 20 * (waves - 36) + nextSpawn <= mCurrentGameTime - Minute2

\* Until the third minute every plane of the game came with one of its waves.
FleetIsOfWaves ==
  mGameStart /\ mCurrentGameTime <= Minute3 => fleet <= Pair * waves

Inv ==
  /\ TypeOK
  /\ FirstMinutePaid /\ SecondMinutePaid /\ ThirdMinutePaid
  /\ FleetIsOfWaves
  /\ FleetBounded

-----------------------------------------------------------------------------

USE DEF Minute1, Minute2, Minute3, MenuInterval, MenuCap, LateCap, Pair, Full

\* The second minute pays for the waves up to the 36th as the third would.
LEMMA SecondPaysForThird ==
  ASSUME NEW w \in Nat, NEW s \in Nat, NEW t \in Nat, w >= 36,
         30 * (w - 16) + s <= t - Minute1
  PROVE  20 * (w - 36) + s <= t - Minute2
OBVIOUS

\* A frame of the menu leaves the game's own timer and waves alone.
LEMMA MenuFrameKeepsInv ==
  ASSUME Inv, NEW dt \in Nat, MenuFrame(dt)
  PROVE  Inv'
BY DEF Inv, TypeOK, FirstMinutePaid, SecondMinutePaid, ThirdMinutePaid,
       FleetIsOfWaves, FleetBounded, MenuFrame, UpTo

\* A new game owes nothing: it has no wave and no plane.
LEMMA ResetGameKeepsInv ==
  ASSUME Inv, ResetGame
  PROVE  Inv'
BY DEF Inv, TypeOK, FirstMinutePaid, SecondMinutePaid, ThirdMinutePaid,
       FleetIsOfWaves, FleetBounded, ResetGame

\* A frame of the game: with no wave the timer gains what the game's age
\* gains, and with a wave it gives up more than the interval.
LEMMA GameFrameKeepsInv ==
  ASSUME Inv, NEW dt \in Nat, NEW d \in Nat, GameFrame(dt, d)
  PROVE  Inv'
<1> DEFINE t   == mCurrentGameTime + dt
           e   == nextSpawn + dt
           due == Due(t, e)
<1> USE DEF Inv, TypeOK
<1>1. /\ t \in Nat /\ e \in Nat
      /\ t >= mCurrentGameTime
  OBVIOUS
<1>2. /\ mCurrentGameTime' = UpTo(Minute3, t)
      /\ nextSpawn' = IF due THEN 0 ELSE UpTo(40, e)
      /\ waves' = IF due /\ t <= Minute3 THEN waves + 1 ELSE waves
      /\ fleet' = fleet + (IF due THEN WaveSize(t) ELSE 0) - d
      /\ d <= fleet
      /\ mGameStart /\ mGameStart' \in BOOLEAN
      /\ menuNextSpawn' = menuNextSpawn
      /\ tick' = 1 - tick
  BY DEF GameFrame, Timer, AfterWave, Erase
<1>3. due => e > Interval(t) /\ (t > Minute3 => fleet < LateCap)
  BY DEF Due
<1> HIDE DEF due
<1>4. nextSpawn' <= e /\ (due => nextSpawn' = 0)
  BY <1>1, <1>2 DEF UpTo
<1>5. TypeOK'
  BY <1>1, <1>2 DEF UpTo, WaveSize
<1>6. mCurrentGameTime' <= Minute3 => mCurrentGameTime' = t /\ t <= Minute3
  BY <1>1, <1>2 DEF UpTo
<1>7. FirstMinutePaid'
  BY <1>1, <1>2, <1>3, <1>4, <1>5, <1>6 DEF FirstMinutePaid, Interval
<1>8. SecondMinutePaid'
  <2> SUFFICES ASSUME mCurrentGameTime' <= Minute2, waves' >= 16
               PROVE  30 * (waves' - 16) + nextSpawn' <= t - Minute1
    <3>1. mCurrentGameTime' <= Minute2 => mCurrentGameTime' = t
      BY <1>5, <1>6
    <3> QED
      BY <3>1 DEF SecondMinutePaid
  <2>1. t <= Minute2
    BY <1>5, <1>6
  <2>2. CASE t <= Minute1
    BY <1>1, <1>2, <1>3, <1>4, <2>2 DEF FirstMinutePaid, Interval
  <2>3. CASE t > Minute1 /\ waves < 16
    BY <1>1, <1>2, <1>4, <2>3
  <2>4. CASE t > Minute1 /\ waves >= 16
    <3>1. 30 * (waves - 16) + nextSpawn <= mCurrentGameTime - Minute1
      BY <1>1, <2>1, <2>4 DEF SecondMinutePaid
    <3>2. due => e > 30
      BY <1>3, <2>1, <2>4 DEF Interval
    <3> QED
      BY <1>1, <1>2, <1>4, <3>1, <3>2
  <2> QED
    BY <1>1, <2>2, <2>3, <2>4
<1>9. ThirdMinutePaid'
  <2> SUFFICES ASSUME mCurrentGameTime' <= Minute3, waves' >= 36
               PROVE  20 * (waves' - 36) + nextSpawn' <= t - Minute2
    <3>1. mCurrentGameTime' <= Minute3 => mCurrentGameTime' = t
      BY <1>5, <1>6
    <3> QED
      BY <3>1 DEF ThirdMinutePaid
  <2>1. t <= Minute3
    BY <1>5, <1>6
  <2>2. CASE t <= Minute2
    <3> DEFINE w == waves'
               s == nextSpawn'
               u == mCurrentGameTime'
    <3>1. w \in Nat /\ s \in Nat /\ u \in Nat
      BY <1>5
    <3>2. u = t /\ w >= 36 /\ u <= Minute2
      BY <1>6, <2>2
    <3>3. u <= Minute2 /\ w >= 16 => 30 * (w - 16) + s <= u - Minute1
      BY <1>8 DEF SecondMinutePaid
    <3> HIDE DEF w, s, u, t
    <3>4. 30 * (w - 16) + s <= u - Minute1
      BY <3>1, <3>2, <3>3
    <3>5. 20 * (w - 36) + s <= u - Minute2
      BY <3>1, <3>2, <3>4, SecondPaysForThird
    <3> QED
      BY <3>2, <3>5 DEF w, s
  <2>3. CASE t > Minute2 /\ waves < 36
    BY <1>1, <1>2, <1>4, <2>3
  <2>4. CASE t > Minute2 /\ waves >= 36
    <3>1. 20 * (waves - 36) + nextSpawn <= mCurrentGameTime - Minute2
      BY <1>1, <2>1, <2>4 DEF ThirdMinutePaid
    <3>2. due => e > 20
      BY <1>3, <2>4 DEF Interval
    <3> QED
      BY <1>1, <1>2, <1>4, <3>1, <3>2
  <2> QED
    BY <1>1, <2>2, <2>3, <2>4
<1>10. FleetIsOfWaves'
  BY <1>1, <1>2, <1>6 DEF FleetIsOfWaves, WaveSize
<1>11. FleetBounded'
  <2>1. CASE t <= Minute3
    BY <1>1, <1>2, <1>5, <1>9, <1>10, <2>1
       DEF FleetIsOfWaves, ThirdMinutePaid, FleetBounded, UpTo, WaveSize
  <2>2. CASE t > Minute3
    BY <1>1, <1>2, <1>3, <2>2 DEF FleetBounded, WaveSize
  <2> QED
    BY <1>1, <2>1, <2>2
<1> QED
  BY <1>5, <1>7, <1>8, <1>9, <1>10, <1>11

\* Inv holds of every behaviour.
LEMMA InvHolds == Spec => []Inv
<1>1. Init => Inv
  <2> SUFFICES ASSUME Init
               PROVE  Inv
    OBVIOUS
  <2>1. TypeOK
    <3>1. mGameStart \in BOOLEAN
      BY DEF Init
    <3>2. /\ mCurrentGameTime = 0 /\ menuNextSpawn = 0 /\ nextSpawn = 0
          /\ fleet = 0 /\ waves = 0 /\ tick = 0
      BY DEF Init
    <3> QED
      BY <3>1, <3>2 DEF TypeOK
  <2>2. FirstMinutePaid /\ SecondMinutePaid /\ ThirdMinutePaid
    BY DEF Init, FirstMinutePaid, SecondMinutePaid, ThirdMinutePaid
  <2>3. FleetIsOfWaves /\ FleetBounded
    BY DEF Init, FleetIsOfWaves, FleetBounded
  <2> QED
    BY <2>1, <2>2, <2>3 DEF Inv
<1>2. Inv /\ [Next]_vars => Inv'
  <2> SUFFICES ASSUME Inv, [Next]_vars
               PROVE  Inv'
    OBVIOUS
  <2>1. CASE Frame
    BY <2>1, MenuFrameKeepsInv, GameFrameKeepsInv, DifficultyAssumption DEF Frame
  <2>2. CASE ResetGame
    BY <2>2, ResetGameKeepsInv
  <2>3. CASE UNCHANGED vars
    BY <2>3 DEF vars, Inv, TypeOK, FirstMinutePaid, SecondMinutePaid,
                ThirdMinutePaid, FleetIsOfWaves, FleetBounded
  <2> QED
    BY <2>1, <2>2, <2>3 DEF Next
<1> QED
  BY <1>1, <1>2, PTL DEF Spec

\* The timers, the age of the game and the number of planes keep their ranges.
THEOREM TypeIsOK == Spec => []TypeOK
<1>1. Inv => TypeOK
  BY DEF Inv
<1> QED
  BY <1>1, InvHolds, PTL

\* updateDifficulty never sends more waves than the game's age has paid for,
\* although its timer survives resets, whatever the frames take.
THEOREM WavesArePaced == Spec => []WavesPaced
<1>1. Inv => WavesPaced
  BY DEF Inv, TypeOK, FirstMinutePaid, SecondMinutePaid, ThirdMinutePaid, WavesPaced
<1> QED
  BY <1>1, InvHolds, PTL

\* gVehicles never holds more than 132 planes, for every length of the frames
\* and however few planes are shot.
THEOREM FleetIsBounded == Spec => []FleetBounded
<1>1. Inv => FleetBounded
  BY DEF Inv
<1> QED
  BY <1>1, InvHolds, PTL

-----------------------------------------------------------------------------
(* The attack goes on                                                       *)

\* Over a game with an empty sky every frame either brings planes or adds the
\* whole of its time to a timer that has not reached the interval of that age.
SkyFills ==
  [][mGameStart /\ fleet = 0 /\ tick' # tick =>
       \/ fleet' > 0
       \/ \E dt \in Elapsed : /\ nextSpawn' = nextSpawn + dt
                              /\ nextSpawn' <= Interval(mCurrentGameTime')]_vars

LEMMA FrameFillsSky ==
  ASSUME TypeOK, mGameStart, fleet = 0, NEW dt \in Elapsed, NEW d \in Downed,
         GameFrame(dt, d)
  PROVE  \/ fleet' > 0
         \/ /\ nextSpawn' = nextSpawn + dt
            /\ nextSpawn' <= Interval(mCurrentGameTime')
<1> DEFINE t == mCurrentGameTime + dt
           e == nextSpawn + dt
<1>1. dt \in Nat /\ d \in Nat /\ t \in Nat /\ e \in Nat
  BY DifficultyAssumption DEF TypeOK
<1>2. /\ mCurrentGameTime' = UpTo(Minute3, t)
      /\ nextSpawn' = IF Due(t, e) THEN 0 ELSE UpTo(40, e)
      /\ fleet' = fleet + (IF Due(t, e) THEN WaveSize(t) ELSE 0) - d
      /\ d <= fleet
  BY DEF GameFrame, Timer, AfterWave, Erase
<1>3. CASE Due(t, e)
  BY <1>1, <1>2, <1>3 DEF WaveSize
<1>4. CASE ~Due(t, e)
  <2>1. e <= Interval(t)
    BY <1>1, <1>4 DEF Due, Interval
  <2>2. Interval(t) <= 40
    BY DEF Interval
  <2>3. Interval(mCurrentGameTime') = Interval(t)
    BY <1>1, <1>2 DEF Interval, UpTo
  <2>4. nextSpawn' = e
    BY <1>1, <1>2, <1>4, <2>1, <2>2 DEF UpTo, Interval
  <2> QED
    BY <2>1, <2>3, <2>4
<1> QED
  BY <1>3, <1>4

\* updateDifficulty holds waves back only for their interval and, in the last
\* branch, for planes that are there: the safety half of PlayerIsAttacked.
THEOREM SkyAlwaysFills == Spec => SkyFills
<1> DEFINE Fills ==
      mGameStart /\ fleet = 0 /\ tick' # tick =>
        \/ fleet' > 0
        \/ \E dt \in Elapsed : /\ nextSpawn' = nextSpawn + dt
                               /\ nextSpawn' <= Interval(mCurrentGameTime')
<1>1. TypeOK /\ [Next]_vars => [Fills]_vars
  <2> SUFFICES ASSUME TypeOK, Next, mGameStart, fleet = 0
               PROVE  Fills
    OBVIOUS
  <2>1. PICK dt \in Elapsed : \E d \in Downed : GameFrame(dt, d)
    BY DEF Next, Frame, MenuFrame, ResetGame
  <2> QED
    BY <2>1, FrameFillsSky
<1> QED
  BY <1>1, TypeIsOK, PTL DEF Spec, SkyFills

\* The lower bound to WavesPaced, with frames of at most D: after each wave the
\* next is no later than its interval, 40, and the frame that notices it; and
\* the timer a game inherits is at most 41.
WavesKeepUp(D) ==
  mCurrentGameTime <= Minute3 => mCurrentGameTime <= (41 + D) * waves + nextSpawn

\* The step, with the products named.
LEMMA FrameKeepsUp ==
  ASSUME NEW D \in Nat, TypeOK, WavesKeepUp(D), NEW dt \in Nat, dt <= D,
         NEW d \in Nat, GameFrame(dt, d)
  PROVE  WavesKeepUp(D)'
<1> DEFINE t  == mCurrentGameTime + dt
           e  == nextSpawn + dt
           p  == (41 + D) * waves
           p1 == (41 + D) * waves'
<1>1. t \in Nat /\ e \in Nat /\ waves \in Nat /\ mCurrentGameTime \in Nat
      /\ nextSpawn \in 0 .. 41
  BY DEF TypeOK
<1>2. /\ mCurrentGameTime' = UpTo(Minute3, t)
      /\ nextSpawn' = IF Due(t, e) THEN 0 ELSE UpTo(40, e)
      /\ waves' = IF Due(t, e) /\ t <= Minute3 THEN waves + 1 ELSE waves
  BY DEF GameFrame, Timer, AfterWave
<1> SUFFICES ASSUME mCurrentGameTime' <= Minute3
             PROVE  mCurrentGameTime' <= p1 + nextSpawn'
  BY DEF WavesKeepUp
<1>3. mCurrentGameTime' = t /\ t <= Minute3 /\ mCurrentGameTime <= Minute3
  BY <1>1, <1>2 DEF UpTo
<1>4. p \in Nat /\ mCurrentGameTime <= p + nextSpawn
  BY <1>1, <1>3 DEF WavesKeepUp
<1>5. CASE Due(t, e)
  <2>1. nextSpawn' = 0 /\ waves' = waves + 1
    BY <1>2, <1>3, <1>5
  <2>2. p1 = p + 41 + D
    BY <1>1, <2>1
  <2> HIDE DEF p, p1
  <2> QED
    BY <1>1, <1>3, <1>4, <2>1, <2>2
<1>6. CASE ~Due(t, e)
  <2>1. e <= 40
    BY <1>1, <1>3, <1>6 DEF Due, Interval
  <2>2. nextSpawn' = e /\ p1 = p
    BY <1>1, <1>2, <1>6, <2>1 DEF UpTo
  <2> HIDE DEF p, p1
  <2> QED
    BY <1>1, <1>3, <1>4, <2>2
<1> QED
  BY <1>5, <1>6

LEMMA ResetKeepsUp ==
  ASSUME NEW D \in Nat, TypeOK, ResetGame
  PROVE  WavesKeepUp(D)'
<1>1. mCurrentGameTime' = 0 /\ waves' = 0
  BY DEF ResetGame
<1>2. nextSpawn' \in Nat
  BY DEF ResetGame, TypeOK
<1>3. (41 + D) * waves' = 0
  BY <1>1
<1>4. (41 + D) * waves' + nextSpawn' = nextSpawn'
  BY <1>2, <1>3
<1>5. mCurrentGameTime' <= nextSpawn'
  BY <1>1, <1>2
<1> QED
  BY <1>4, <1>5 DEF WavesKeepUp

\* For frames of at most D, and whatever timer the game before left, the waves
\* of the first three minutes of a game do not fall behind its age by more than
\* WavesKeepUp says: no reset and no branch of updateDifficulty loses one.
THEOREM WavesAlwaysKeepUp ==
  ASSUME NEW D \in Nat, \A dt \in Elapsed : dt <= D
  PROVE  Spec => []WavesKeepUp(D)
<1>1. Init => WavesKeepUp(D)
  <2> SUFFICES ASSUME Init PROVE 0 <= (41 + D) * 0 + 0
    BY DEF Init, WavesKeepUp
  <2> QED
    OBVIOUS
<1>2. TypeOK /\ WavesKeepUp(D) /\ [Next]_vars => WavesKeepUp(D)'
  <2> SUFFICES ASSUME TypeOK, WavesKeepUp(D), [Next]_vars
               PROVE  WavesKeepUp(D)'
    OBVIOUS
  <2>1. ASSUME NEW dt \in Elapsed, MenuFrame(dt)
        PROVE  WavesKeepUp(D)'
    BY <2>1 DEF MenuFrame, WavesKeepUp
  <2>2. ASSUME NEW dt \in Elapsed, NEW d \in Downed, GameFrame(dt, d)
        PROVE  WavesKeepUp(D)'
    BY <2>2, FrameKeepsUp, DifficultyAssumption
  <2>3. CASE ResetGame
    BY <2>3, ResetKeepsUp
  <2>4. CASE UNCHANGED vars
    BY <2>4 DEF vars, WavesKeepUp
  <2> QED
    BY <2>1, <2>2, <2>3, <2>4 DEF Next, Frame
<1> QED
  BY <1>1, <1>2, TypeIsOK, PTL DEF Spec
==============================================================================
