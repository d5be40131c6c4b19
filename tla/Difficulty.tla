------------------------------ MODULE Difficulty ------------------------------
(***************************************************************************)
(* When planes come: the timers of updateMenuScene and updateDifficulty in  *)
(* src/BaseCommand/src/BaseCommandFrameListener.cpp, which Battle leaves    *)
(* out, with the number of planes in the place of gVehicles.  Times are in  *)
(* tenths of a second.  The two timers are function-local statics, each     *)
(* called nextSpawn in the code: no reset of the game sets them back.       *)
(***************************************************************************)
EXTENDS Integers

CONSTANTS
  Elapsed,  \* the values of timeSinceLastFrame
  Downed    \* bound: how many planes updateEnemies may erase in one frame

ASSUME DifficultyAssumption == Elapsed \subseteq Nat /\ Downed \subseteq Nat

VARIABLES
  mGameStart,
  mCurrentGameTime,
  menuNextSpawn,  \* nextSpawn of updateMenuScene
  nextSpawn,      \* nextSpawn of updateDifficulty
  fleet,          \* gVehicles.size()
  waves,          \* history: the waves in the first three minutes of this game
  tick            \* 0 or 1 in turn: no frame leaves the state as it was, so that
                  \* fairness asks for frames and not for some change

vars ==
  <<mGameStart, mCurrentGameTime, menuNextSpawn, nextSpawn, fleet, waves, tick>>

-----------------------------------------------------------------------------

Pair == 2  \* spawnPlane and spawnBomber
Full == 5  \* the same and the three planes of spawnPursuitOn

MenuInterval == 10
MenuCap == 12
LateCap == 50

\* The ages of a game at which the attack gets denser.
Minute1 == 600
Minute2 == 1200
Minute3 == 1800

\* How long a game of age t waits after a wave before the next.
Interval(t) == IF t > Minute2 THEN 20 ELSE IF t > Minute1 THEN 30 ELSE 40

\* A time that is only compared stops at the first value above its bound.
UpTo(bound, t) == IF t > bound THEN bound + 1 ELSE t

\* mCurrentGameTime has no value before the first game, and no reader.
Init ==
  /\ mGameStart = FALSE
  /\ mCurrentGameTime = 0
  /\ menuNextSpawn = 0 /\ nextSpawn = 0
  /\ fleet = 0 /\ waves = 0 /\ tick = 0

\* updateMenuScene: the planes fly past, none is erased.
MenuFrame(dt) ==
  LET elapsed == menuNextSpawn + dt
      due     == elapsed > MenuInterval /\ fleet < MenuCap
  IN  /\ ~mGameStart
      /\ menuNextSpawn' = IF due THEN 0 ELSE UpTo(MenuInterval, elapsed)
      /\ fleet' = IF due THEN fleet + Full ELSE fleet
      /\ tick' = 1 - tick
      /\ UNCHANGED <<mGameStart, mCurrentGameTime, nextSpawn, waves>>

\* Whether updateDifficulty spawns a wave in a game of age t, elapsed after
\* the last one: of its four branches only the last looks at the fleet.
Due(t, elapsed) ==
  /\ elapsed > Interval(t)
  /\ t > Minute3 => fleet < LateCap

WaveSize(t) == IF t > Minute3 THEN Full ELSE Pair

\* Mutant: a timer that is no static, and forgets the frames before.
TimerLocal(dt) == dt

\* The timer counts the frames since the last wave, of whatever game.
Timer(dt) == nextSpawn + dt

\* Mutant: the timer runs on after a wave.
AfterWaveRunsOn(t, elapsed) == UpTo(40, elapsed)

\* Only a wave sets the timer back: held back by the cap it runs on.
AfterWave(t, elapsed) == IF Due(t, elapsed) THEN 0 ELSE UpTo(40, elapsed)

\* Mutant: planes of the wave just spawned are erased with those shot before.
EraseAny(d, spawned) == fleet' = fleet + spawned - d

\* updateEnemies erases planes shot down in a frame before this one.
Erase(d, spawned) == d <= fleet /\ fleet' = fleet + spawned - d

\* updateGameScene, at the end of which the last house may have fallen.
GameFrame(dt, d) ==
  LET t       == mCurrentGameTime + dt
      due     == Due(t, Timer(dt))
  IN  /\ mGameStart
      /\ mCurrentGameTime' = UpTo(Minute3, t)
      /\ nextSpawn' = AfterWave(t, Timer(dt))
      /\ waves' = IF due /\ t <= Minute3 THEN waves + 1 ELSE waves
      /\ Erase(d, IF due THEN WaveSize(t) ELSE 0)
      /\ mGameStart' \in BOOLEAN
      /\ tick' = 1 - tick
      /\ UNCHANGED menuNextSpawn

\* Mutant: clearVehicles is not called.
ResetGameKeepsPlanes ==
  /\ ~mGameStart
  /\ mGameStart' = TRUE
  /\ mCurrentGameTime' = 0 /\ waves' = 0
  /\ UNCHANGED <<menuNextSpawn, nextSpawn, fleet, tick>>

\* ResetGame clears the planes, and neither timer.
ResetGame ==
  /\ ~mGameStart
  /\ mGameStart' = TRUE
  /\ mCurrentGameTime' = 0 /\ fleet' = 0 /\ waves' = 0
  /\ UNCHANGED <<menuNextSpawn, nextSpawn, tick>>

Frame == \E dt \in Elapsed :
           \/ MenuFrame(dt)
           \/ \E d \in Downed : GameFrame(dt, d)

Next == Frame \/ ResetGame

Spec == Init /\ [][Next]_vars

\* Frames go on for as long as the program runs.
FairSpec == Spec /\ WF_vars(Frame)

-----------------------------------------------------------------------------

TypeOK ==
  /\ mGameStart \in BOOLEAN
  /\ mCurrentGameTime \in 0 .. Minute3 + 1
  /\ menuNextSpawn \in 0 .. MenuInterval + 1
  /\ nextSpawn \in 0 .. 41
  /\ fleet \in Nat /\ waves \in Nat /\ tick \in {0, 1}

\* The time of the game pays for its waves: 4 s each in the first minute, 3 in
\* the second, 2 in the third.  The timer a game inherits from the one before
\* buys one wave and no more.
WavesPaced ==
  LET t == mCurrentGameTime
  IN  /\ t <= Minute1 => 40 * (waves - 1) <= t
      /\ t <= Minute2 /\ waves > 16 => 30 * (waves - 16) <= t - Minute1
      /\ t <= Minute3 /\ waves > 36 => 20 * (waves - 36) <= t - Minute2

\* gVehicles stays within what the intervals allow in three minutes, although
\* updateDifficulty puts no cap on it until then, and although planes stay in
\* the menu after a game is lost.
FleetBounded == fleet <= 132

\* A game goes on being played against somebody: a sky without planes does not
\* last, whatever the timers were when the game began.
PlayerIsAttacked == mGameStart /\ fleet = 0 ~> fleet > 0 \/ ~mGameStart
==============================================================================
