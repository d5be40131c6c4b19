---------------------------- MODULE SessionProofs ----------------------------
(***************************************************************************)
(* A session is a battle: every step of Session is a step of Battle or      *)
(* leaves its variables alone, so that what BattleProofs shows holds of the *)
(* program with its fades and buttons; and a covered screen is uncovered    *)
(* again, however the two times of a fade out drift apart.                  *)
(***************************************************************************)
EXTENDS Session, BattleProofs

-----------------------------------------------------------------------------
(* No game is reset while it runs                                           *)

\* handleStart does not ask whether a game runs.  It need not: during a game
\* the start button is not under the cursor or not on the screen, so that
\* mDoFade is raised, and stays raised, only outside a game.
StartInv ==
  /\ mDoFade => ~mGameStart /\ game < MaxGames
  /\ mGameStart /\ guiSheet = "MainMenu" /\ menuVisible => cursor # "start"

LEMMA InitStart == SessionInit => StartInv
BY DEF SessionInit, Init, StartInv

\* updateGameScene and updateMenuScene can end a game, not start one.
LEMMA SceneKeepsStart ==
  ASSUME SceneStep
  PROVE  /\ mGameStart' => mGameStart
         /\ UNCHANGED <<game, menuVisible>>
         /\ guiSheet' = "MainMenu" => guiSheet = "MainMenu"
         /\ Next
<1> USE DEF gui, ghosts
<1>1. CASE UpdateMenuScene
  BY <1>1 DEF UpdateMenuScene, GameOver, Next
<1>2. CASE UpdateDifficulty
  BY <1>2 DEF UpdateDifficulty, Next
<1>3. CASE \E v \in Vehicle : RemoveVehicle(v) \/ UpdateVehicle(v) \/ BulletHits(v)
  BY <1>3, SceneStep DEF RemoveVehicle, UpdateVehicle, BulletHits, Next
<1>4. CASE \E m \in Missile : MissileFlies(m) \/ MissileLands(m)
  BY <1>4, SceneStep DEF MissileFlies, MissileLands, CreateHole, GameOver, Next
<1>5. CASE VehicleDone \/ EnemiesDone \/ BulletLost \/ BulletFlies \/ BulletsDone
  BY <1>5, SceneStep
     DEF VehicleDone, EnemiesDone, BulletLost, BulletFlies, BulletsDone, Next
<1> QED
  BY <1>1, <1>2, <1>3, <1>4, <1>5 DEF SceneStep

LEMMA StepStart ==
  ASSUME StartInv, [SessionNext]_allVars
  PROVE  StartInv' /\ [Next]_battleVars
<1> USE DEF StartInv
<1>1. CASE SceneStep /\ UNCHANGED sessionVars
  BY <1>1, SceneKeepsStart DEF sessionVars, fadeVars
<1>2. ASSUME NEW dt \in Elapsed, BeginGame(dt)
      PROVE  StartInv' /\ [Next]_battleVars
  <2>1. StartGame
    BY <1>2 DEF BeginGame, StartGame
  <2> QED
    BY <1>2, <2>1 DEF BeginGame, ResetGame, Next
<1>3. ASSUME NEW dt \in Elapsed, KeepFading(dt)
      PROVE  StartInv' /\ [Next]_battleVars
  BY <1>3 DEF KeepFading, NoReset, Next, gui, ghosts
<1>4. CASE MoveMouse
  BY <1>4 DEF MoveMouse, battleVars, fadeVars, gui, ghosts
<1>5. CASE HandleStart
  BY <1>5 DEF HandleStart, MenuButton, battleVars, gui, ghosts
<1>6. CASE HandleQuit
  BY <1>6 DEF HandleQuit, battleVars, fadeVars, gui, ghosts
<1>7. CASE ClickReturn
  BY <1>7 DEF ClickReturn, HandleReturn, sessionVars, fadeVars, ghosts, Next,
              InputStep
<1>8. CASE ClickSend
  BY <1>8 DEF ClickSend, HandleSend, sessionVars, fadeVars, ghosts, Next,
              InputStep
<1>9. CASE Fire
  <2>1. PICK b \in Bullet \ Range(mBullets) : Shoot(b)
    BY <1>9 DEF Fire
  <2> QED
    BY <1>9, <2>1 DEF Fire, Shoot, sessionVars, fadeVars, gui, ghosts, Next,
                      InputStep
<1>10. CASE EndFrame
  BY <1>10 DEF EndFrame, NextFrame, sessionVars, fadeVars, gui, ghosts, Next
<1>11. CASE \E escape \in BOOLEAN : StopRendering(escape)
  BY <1>11 DEF StopRendering, battleVars, fadeVars, gui, ghosts
<1>12. CASE UNCHANGED allVars
  BY <1>12 DEF allVars, battleVars, sessionVars, fadeVars, gui, ghosts
<1> QED
  BY <1>1, <1>2, <1>3, <1>4, <1>5, <1>6, <1>7, <1>8, <1>9, <1>10, <1>11, <1>12
     DEF SessionNext

\* For any fade times, frame times and numbers of everything, and with F5 or
\* without, a run of the program is a run of Battle: in particular ResetGame
\* is only called outside a game.
THEOREM SessionImplementsBattle == SessionSpec => ImplementsBattle
<1>1. SessionInit => Init
  BY DEF SessionInit
<1>2. StartInv /\ [SessionNext]_allVars => StartInv'
  BY StepStart
<1>3. StartInv /\ [SessionNext]_allVars => [Next]_battleVars
  BY StepStart
<1> QED
  BY <1>1, <1>2, <1>3, InitStart, PTL DEF SessionSpec, ImplementsBattle, Spec

\* So a session has the safety properties of Battle.
THEOREM SessionIsSafe ==
  SessionSpec => []( /\ BillboardsAligned /\ IteratorsValid
                     /\ MissileNodesOwned /\ SomeHouseStands /\ KillsCovered )
BY SessionImplementsBattle, BillboardsAlwaysAligned, IteratorsAlwaysValid,
   MissileNodesAlwaysOwned, HouseAlwaysStands, KillsAlwaysCovered, PTL
   DEF ImplementsBattle

-----------------------------------------------------------------------------
(* The screen is not left covered                                           *)

\* A fade out is for a start, and while a start is pending the screen is covered
\* and nothing uncovers it, whether the fade out still runs or has come to its
\* end before fadeInTime passed FADEOUT_TIME.
FadesOutForStart ==
  /\ fader.op = "OUT" => mDoFade
  /\ mDoFade => fader.overlay /\ fader.op # "IN"

\* Neither the time of the fade out nor fadeInTime is part of it: which of them
\* passes FADEOUT_TIME first is a matter of rounding.
FadeInv ==
  /\ fadeInTime \in Nat /\ mDoFade \in BOOLEAN
  /\ fader.op \in {"NONE", "IN", "OUT"}
  /\ fader.cur \in Int
  /\ FadesOutForStart
  /\ NeverLeftCovered

\* The counter of frameStarted is saturated by what the model asks of it.
LEMMA CountedTime ==
  ASSUME fadeInTime \in Nat, NEW dt \in Nat, CountFade(dt)
  PROVE  fadeInTime' \in 0..FADEOUT_TIME + 1
<1>1. PICK t \in Rounded(dt) : fadeInTime' = Counted(fadeInTime + t)
  BY DEF CountFade
<1>2. t \in Nat
  BY SessionAssumption DEF Rounded
<1> QED
  BY <1>1, <1>2, SessionAssumption DEF Counted

LEMMA InitFade == SessionInit => FadeInv
<1> SUFFICES ASSUME SessionInit PROVE FadeInv
  OBVIOUS
<1>1. fader.op = "NONE" /\ fader.cur = 0
  BY DEF SessionInit, F!NewFader
<1>2. fader.overlay = FALSE
  BY DEF SessionInit, F!NewFader
<1>3. NeverLeftCovered
  BY <1>2 DEF NeverLeftCovered
<1>4. fadeInTime = 0 /\ ~mDoFade
  BY DEF SessionInit
<1>5. mDoFade \in BOOLEAN
  BY DEF SessionInit
<1>6. FadesOutForStart
  BY <1>1, <1>4 DEF FadesOutForStart
<1> QED
  BY <1>1, <1>3, <1>4, <1>5, <1>6 DEF FadeInv

\* The steps that end a frame and the start button alone touch the fade.
LEMMA FadeOrNot ==
  [SessionNext]_allVars =>
    \/ \E dt \in Elapsed : BeginGame(dt) \/ KeepFading(dt)
    \/ HandleStart
    \/ UNCHANGED fadeVars
BY DEF SessionNext, allVars, sessionVars, MoveMouse, HandleQuit, ClickReturn,
       ClickSend, Fire, EndFrame, StopRendering

LEMMA StepFade == FadeInv /\ [SessionNext]_allVars => FadeInv'
<1> SUFFICES ASSUME FadeInv, [SessionNext]_allVars PROVE FadeInv'
  OBVIOUS
<1> USE SessionAssumption DEF FadeInv, FadesOutForStart, NeverLeftCovered
<1>1. ASSUME NEW dt \in Elapsed, BeginGame(dt)
      PROVE  FadeInv'
  <2> DEFINE f == F!StartFadeIn(fader, FADEIN_TIME)
  <2>1. f.op = "IN" /\ f.cur \in Int
    BY DEF F!StartFadeIn, F!Normalised
  <2>2. fader' = F!FadeInStep(f, dt)
    BY <1>1, <2>1 DEF BeginGame, F!Fade
  <2>3. /\ fader'.op = IF f.cur - dt < 0 THEN "NONE" ELSE "IN"
        /\ fader'.cur = f.cur - dt
        /\ fader'.overlay = (f.cur - dt >= 0)
    BY <2>2 DEF F!FadeInStep
  <2>4. mDoFade' = FALSE /\ fadeInTime' \in Nat
    BY <1>1, CountedTime DEF BeginGame
  <2>5. fader'.op = "NONE" => ~(f.cur - dt >= 0)
    BY <2>1, <2>3
  <2>6. NeverLeftCovered'
    BY <2>3, <2>5, Zenon DEF NeverLeftCovered
  <2>7. fader'.op \in {"NONE", "IN"} /\ fader'.cur \in Int
    BY <2>1, <2>3
  <2> QED
    BY <2>4, <2>6, <2>7
<1>2. ASSUME NEW dt \in Elapsed, KeepFading(dt)
      PROVE  FadeInv'
  <2>1. fadeInTime' \in Nat /\ mDoFade' = mDoFade
    BY <1>2, CountedTime DEF KeepFading
  <2>2. CASE fader.op = "NONE"
    BY <1>2, <2>1, <2>2 DEF KeepFading, F!Fade
  <2>3. CASE fader.op = "IN"
    <3>1. fader' = F!FadeInStep(fader, dt)
      BY <1>2, <2>3 DEF KeepFading, F!Fade
    <3>2. /\ fader'.op = IF fader.cur - dt < 0 THEN "NONE" ELSE "IN"
          /\ fader'.cur = fader.cur - dt
          /\ fader'.overlay = (fader.cur - dt >= 0)
      BY <3>1 DEF F!FadeInStep
    <3>3. fader'.op = "NONE" => ~(fader.cur - dt >= 0)
      BY <3>2
    <3>4. NeverLeftCovered'
      BY <3>2, <3>3, Zenon DEF NeverLeftCovered
    <3>5. fader'.op \in {"NONE", "IN"} /\ fader'.cur \in Int
      BY <3>2
    <3>6. ~mDoFade
      BY <2>3
    <3> QED
      BY <2>1, <3>4, <3>5, <3>6
  <2>4. CASE fader.op = "OUT"
    <3>1. fader' = F!FadeOutStep(fader, dt)
      BY <1>2, <2>4 DEF KeepFading, F!Fade
    <3>2. /\ fader'.op = IF fader.cur + dt > fader.total THEN "NONE" ELSE "OUT"
          /\ fader'.cur = fader.cur + dt
      BY <3>1 DEF F!FadeOutStep
    <3>3. fader'.overlay = fader.overlay
      BY <3>1 DEF F!FadeOutStep
    <3>4. mDoFade /\ fader.overlay
      BY <2>4
    <3>5. fader'.op \in {"NONE", "OUT"} /\ fader'.cur \in Int
      BY <3>2
    <3> QED
      BY <2>1, <3>3, <3>4, <3>5
  <2> QED
    BY <2>2, <2>3, <2>4
<1>3. CASE HandleStart
  <2>1. CASE mDoFade
    BY <1>3, <2>1 DEF HandleStart
  <2>2. CASE ~mDoFade
    <3>1. mDoFade' = TRUE /\ fader' = F!StartFadeOut(fader, FADEOUT_TIME)
          /\ fadeInTime' = fadeInTime
      BY <1>3, <2>2 DEF HandleStart
    <3>2. fader'.op = "OUT" /\ fader'.cur = 0 /\ fader'.overlay = TRUE
      BY <3>1 DEF F!StartFadeOut
    <3> QED
      BY <3>1, <3>2
  <2> QED
    BY <2>1, <2>2
<1>4. CASE UNCHANGED fadeVars
  BY <1>4 DEF fadeVars
<1> QED
  BY <1>1, <1>2, <1>3, <1>4, FadeOrNot

\* Whatever the fade and frame times, and whichever of the float fadeInTime and
\* the double _current_dur passes the time of the fade out first, the overlay is
\* on the screen only while a fade runs or a game is still to begin, which fades
\* in (BaseCommandFrameListener.cpp 203-218, Fader.cpp 63-95).
THEOREM ScreenNeverLeftCovered == SessionSpec => []NeverLeftCovered
<1>1. FadeInv => NeverLeftCovered
  BY DEF FadeInv
<1> QED
  BY <1>1, InitFade, StepFade, PTL DEF SessionSpec
-----------------------------------------------------------------------------
(* The types of a session                                                   *)

\* A fader as Fader.cpp keeps it: the time of a fade that runs is within its
\* duration, so that the texture can be given its opacity, which is at most 1.
FadeOK(f) ==
  /\ f \in [op : {"NONE", "IN", "OUT"}, cur : Int, total : Nat \ {0},
            tex : [num : Nat, den : Nat \ {0}], overlay : BOOLEAN]
  /\ f.op # "NONE" => f.cur \in 0..f.total
  /\ f.tex.num <= f.tex.den

LEMMA FadeInStarts ==
  ASSUME NEW f, FadeOK(f)
  PROVE  LET g == F!StartFadeIn(f, FADEIN_TIME) IN FadeOK(g) /\ g.op = "IN"
BY SessionAssumption DEF FadeOK, F!StartFadeIn, F!Normalised

LEMMA FadeOutStarts ==
  ASSUME NEW f, FadeOK(f)
  PROVE  FadeOK(F!StartFadeOut(f, FADEOUT_TIME))
BY SessionAssumption DEF FadeOK, F!StartFadeOut, F!Normalised

\* Fader::fade ends a fade with the frame that takes it out of its duration.
LEMMA FadeStays ==
  ASSUME NEW f, FadeOK(f), NEW dt \in Nat
  PROVE  FadeOK(F!Fade(f, dt))
<1> USE DEF FadeOK
<1> DEFINE T == [num |-> f.cur, den |-> f.total]
<1>1. CASE f.op = "NONE"
  BY <1>1 DEF F!Fade
<1>2. CASE f.op = "IN"
  <2> DEFINE g == F!FadeInStep(f, dt)
  <2>1. f.cur \in 0..f.total /\ f.total \in Nat \ {0}
    BY <1>2
  <2>2. T \in [num : Nat, den : Nat \ {0}]
    BY <2>1
  <2>3. (f.cur - dt >= 0) \in BOOLEAN
    BY <2>1
  <2>4. g = [op |-> IF f.cur - dt < 0 THEN "NONE" ELSE "IN",
             total |-> f.total, cur |-> f.cur - dt, tex |-> T,
             overlay |-> f.cur - dt >= 0]
    BY DEF F!FadeInStep
  <2>5. g \in [op : {"NONE", "IN", "OUT"}, cur : Int, total : Nat \ {0},
               tex : [num : Nat, den : Nat \ {0}], overlay : BOOLEAN]
    BY <2>1, <2>2, <2>3, <2>4
  <2>6. (g.op # "NONE" => g.cur \in 0..g.total) /\ g.tex.num <= g.tex.den
    BY <2>1, <2>4
  <2> QED
    BY <1>2, <2>5, <2>6 DEF F!Fade
<1>3. CASE f.op = "OUT"
  <2> DEFINE g == F!FadeOutStep(f, dt)
  <2>1. f.cur \in 0..f.total /\ f.total \in Nat \ {0}
    BY <1>3
  <2>2. T \in [num : Nat, den : Nat \ {0}]
    BY <2>1
  <2>3. f.overlay \in BOOLEAN
    OBVIOUS
  <2>4. g = [op |-> IF f.cur + dt > f.total THEN "NONE" ELSE "OUT",
             total |-> f.total, cur |-> f.cur + dt, tex |-> T,
             overlay |-> f.overlay]
    BY DEF F!FadeOutStep
  <2>5. g \in [op : {"NONE", "IN", "OUT"}, cur : Int, total : Nat \ {0},
               tex : [num : Nat, den : Nat \ {0}], overlay : BOOLEAN]
    BY <2>1, <2>2, <2>3, <2>4
  <2>6. (g.op # "NONE" => g.cur \in 0..g.total) /\ g.tex.num <= g.tex.den
    BY <2>1, <2>4
  <2> QED
    BY <1>3, <2>5, <2>6 DEF F!Fade
<1> QED
  BY <1>1, <1>2, <1>3

\* The variables that Session adds to those of Battle.
OwnTypes ==
  /\ mDoFade \in BOOLEAN /\ mQuitting \in BOOLEAN /\ running \in BOOLEAN
  /\ fadeInTime \in 0..FADEOUT_TIME + 1
  /\ FadeOK(fader)
  /\ cursor \in {"start", "quit", "send", "return", "centre"}

LEMMA InitOwnTypes == SessionInit => OwnTypes
<1> SUFFICES ASSUME SessionInit
             PROVE  OwnTypes
  OBVIOUS
<1>1. FadeOK(fader)
  <2>1. [num |-> 0, den |-> FADEIN_TIME] \in [num : Nat, den : Nat \ {0}]
    BY SessionAssumption
  <2> QED
    BY <2>1, SessionAssumption DEF SessionInit, F!NewFader, FadeOK
<1>2. fadeInTime \in 0..FADEOUT_TIME + 1
  BY SessionAssumption DEF SessionInit
<1> QED
  BY <1>1, <1>2 DEF SessionInit, OwnTypes

LEMMA StepOwnTypes == OwnTypes /\ [SessionNext]_allVars => OwnTypes'
<1> SUFFICES ASSUME OwnTypes, [SessionNext]_allVars
             PROVE  OwnTypes'
  OBVIOUS
<1>1. ASSUME NEW dt \in Elapsed, BeginGame(dt)
      PROVE  OwnTypes'
  <2>1. dt \in Nat /\ fadeInTime \in Nat
    BY SessionAssumption DEF OwnTypes
  <2>2. FadeOK(fader')
    BY <1>1, <2>1, FadeInStarts, FadeStays DEF BeginGame, OwnTypes
  <2>3. fadeInTime' \in 0..FADEOUT_TIME + 1
    BY <1>1, <2>1, CountedTime DEF BeginGame
  <2> QED
    BY <1>1, <2>2, <2>3 DEF BeginGame, OwnTypes
<1>2. ASSUME NEW dt \in Elapsed, KeepFading(dt)
      PROVE  OwnTypes'
  <2>1. dt \in Nat /\ fadeInTime \in Nat
    BY SessionAssumption DEF OwnTypes
  <2>2. FadeOK(fader')
    BY <1>2, <2>1, FadeStays DEF KeepFading, OwnTypes
  <2>3. fadeInTime' \in 0..FADEOUT_TIME + 1
    BY <1>2, <2>1, CountedTime DEF KeepFading, OwnTypes
  <2> QED
    BY <1>2, <2>2, <2>3 DEF KeepFading, OwnTypes
<1>3. CASE HandleStart
  <2>1. CASE mDoFade
    BY <1>3, <2>1 DEF HandleStart, OwnTypes
  <2>2. CASE ~mDoFade
    BY <1>3, <2>2, FadeOutStarts DEF HandleStart, OwnTypes
  <2> QED
    BY <2>1, <2>2
<1>4. CASE MoveMouse
  BY <1>4 DEF MoveMouse, OwnTypes, fadeVars
<1>5. CASE HandleQuit
  BY <1>5 DEF HandleQuit, OwnTypes, fadeVars
<1>6. CASE \E escape \in BOOLEAN : StopRendering(escape)
  BY <1>6 DEF StopRendering, OwnTypes, fadeVars
<1>7. CASE UNCHANGED sessionVars
  BY <1>7 DEF sessionVars, fadeVars, OwnTypes
<1>8. UNCHANGED allVars => UNCHANGED sessionVars
  BY DEF allVars
<1> QED
  BY <1>1, <1>2, <1>3, <1>4, <1>5, <1>6, <1>7, <1>8
     DEF SessionNext, ClickReturn, ClickSend, Fire, EndFrame

\* The variables of the scene and those of the frames, the fade and the mouse
\* keep their types through every interleaving of frames and clicks.
THEOREM SessionTypeIsOK == SessionSpec => []SessionTypeOK
<1>1. TypeOK /\ OwnTypes => SessionTypeOK
  BY DEF OwnTypes, SessionTypeOK, FadeOK, F!TypeOK
<1>2. SessionSpec => []TypeOK
  BY SessionImplementsBattle, BattleTypeIsOK, PTL DEF ImplementsBattle
<1>3. SessionSpec => []OwnTypes
  BY InitOwnTypes, StepOwnTypes, PTL DEF SessionSpec
<1> QED
  BY <1>1, <1>2, <1>3, PTL

-----------------------------------------------------------------------------
(* What a click on start and a click on quit lead to, step by step          *)

\* No frame runs once quit was clicked or rendering has ended.
QuitInv == mQuitting \/ ~running => pc = "input"

\* At the end of frameStarted comes the test of the fade out, and nothing else.
LEMMA FadeComesLast ==
  ASSUME SessionNext, pc = "fade"
  PROVE  \E dt \in Elapsed : BeginGame(dt) \/ KeepFading(dt)
BY DEF SessionNext, SceneStep, UpdateMenuScene, UpdateDifficulty, RemoveVehicle,
       UpdateVehicle, BulletHits, MissileFlies, MissileLands, VehicleDone,
       EnemiesDone, BulletLost, BulletFlies, BulletsDone, MoveMouse, HandleStart,
       HandleQuit, MenuButton, ClickReturn, HandleReturn, ClickSend, HandleSend,
       Fire, Shoot, EndFrame, NextFrame, StopRendering

\* No part of frameStarted runs while events are delivered.
LEMMA NoSceneInInput == SceneStep => pc # "input"
BY DEF SceneStep, UpdateMenuScene, UpdateDifficulty, RemoveVehicle, UpdateVehicle,
       BulletHits, MissileFlies, MissileLands, VehicleDone, EnemiesDone,
       BulletLost, BulletFlies, BulletsDone

\* Once quit is clicked it stays clicked and no frame begins, and once rendering
\* has ended nothing happens any more.
QuitIsObeyed ==
  [][running /\ (mQuitting => mQuitting' /\ pc' = "input")]_allVars

LEMMA StepQuit ==
  ASSUME QuitInv, SessionNext
  PROVE  /\ QuitInv'
         /\ running
         /\ mQuitting => mQuitting' /\ pc' = "input"
<1> USE DEF QuitInv
<1>1. CASE SceneStep /\ UNCHANGED sessionVars
  BY <1>1, NoSceneInInput DEF sessionVars
<1>2. CASE \E dt \in Elapsed : BeginGame(dt) \/ KeepFading(dt)
  BY <1>2 DEF BeginGame, KeepFading, NoReset
<1>3. CASE MoveMouse
  BY <1>3 DEF MoveMouse, battleVars
<1>4. CASE HandleStart
  BY <1>4 DEF HandleStart, MenuButton, battleVars
<1>5. CASE HandleQuit
  BY <1>5 DEF HandleQuit, MenuButton, battleVars
<1>6. CASE ClickReturn \/ ClickSend
  BY <1>6 DEF ClickReturn, ClickSend, HandleReturn, HandleSend, sessionVars
<1>7. CASE Fire
  BY <1>7 DEF Fire, Shoot, sessionVars
<1>8. CASE EndFrame
  BY <1>8 DEF EndFrame, NextFrame, sessionVars
<1>9. CASE \E escape \in BOOLEAN : StopRendering(escape)
  BY <1>9 DEF StopRendering, battleVars
<1> QED
  BY <1>1, <1>2, <1>3, <1>4, <1>5, <1>6, <1>7, <1>8, <1>9 DEF SessionNext

\* handleQuit only raises a flag that the end of the frame reads; no handler
\* and no frame takes it back (BaseCommandFrameListener.cpp 816-820).
THEOREM QuitIsAlwaysObeyed == SessionSpec => QuitIsObeyed
<1>1. SessionInit => QuitInv
  BY DEF SessionInit, QuitInv
<1>2. QuitInv /\ [SessionNext]_allVars => QuitInv'
  <2>1. QuitInv /\ UNCHANGED allVars => QuitInv'
    BY DEF QuitInv, allVars, battleVars, sessionVars
  <2> QED
    BY <2>1, StepQuit
<1>3. QuitInv /\ [SessionNext]_allVars
        => [running /\ (mQuitting => mQuitting' /\ pc' = "input")]_allVars
  BY StepQuit
<1> QED
  BY <1>1, <1>2, <1>3, PTL DEF SessionSpec, QuitIsObeyed

\* Fader::startFadeOut is called for a start and for nothing else; from the
\* click to the beginning of the game the screen stays covered and no fade in
\* runs, also when Fader::fade has ended the fade out and frameStarted does not
\* yet find fadeInTime above FADEOUT_TIME.
THEOREM AlwaysFadesOutForStart == SessionSpec => []FadesOutForStart
<1>1. FadeInv => FadesOutForStart
  BY DEF FadeInv
<1> QED
  BY <1>1, InitFade, StepFade, PTL DEF SessionSpec

\* Whatever is clicked and however the frames go, a pending start stays pending
\* and no game runs until the one it was clicked for begins; the frames between
\* add their time to fadeInTime, as floats round it, up to FADEOUT_TIME, and
\* nothing takes any away.
StartIsCounted ==
  [][mDoFade =>
       \/ /\ mDoFade' /\ ~mGameStart'
          /\ IF pc = "fade"
             THEN \E dt \in Elapsed : \E t \in Rounded(dt) :
                    fadeInTime' = fadeInTime + t /\ fadeInTime' <= FADEOUT_TIME
             ELSE fadeInTime' = fadeInTime
       \/ mGameStart' /\ game' = game + 1]_allVars

\* What is not the end of a frame leaves a pending start as it is.
LEMMA StartIsKept ==
  ASSUME StartInv, SessionNext, mDoFade, pc # "fade"
  PROVE  mDoFade' /\ ~mGameStart' /\ fadeInTime' = fadeInTime
<1>1. ~mGameStart
  BY DEF StartInv
<1>2. CASE SceneStep /\ UNCHANGED sessionVars
  BY <1>1, <1>2, SceneKeepsStart DEF sessionVars, fadeVars
<1>3. CASE UNCHANGED <<mDoFade, mGameStart, fadeInTime>>
  BY <1>1, <1>3
<1>4. CASE MoveMouse \/ HandleQuit
  BY <1>3, <1>4 DEF MoveMouse, HandleQuit, battleVars, fadeVars
<1>5. CASE HandleStart
  BY <1>1, <1>5 DEF HandleStart, battleVars
<1>9. CASE ClickReturn \/ ClickSend
  BY <1>3, <1>9 DEF ClickReturn, ClickSend, HandleReturn, HandleSend, sessionVars,
                    fadeVars
<1>6. CASE Fire
  <2>1. PICK b \in Bullet \ Range(mBullets) : Shoot(b)
    BY <1>6 DEF Fire
  <2> QED
    BY <1>1, <1>6, <2>1 DEF Fire, Shoot, sessionVars, fadeVars
<1>7. CASE EndFrame
  BY <1>1, <1>7 DEF EndFrame, NextFrame, sessionVars, fadeVars
<1>8. CASE \E escape \in BOOLEAN : StopRendering(escape)
  BY <1>1, <1>8 DEF StopRendering, battleVars, fadeVars
<1> QED
  BY <1>2, <1>4, <1>5, <1>6, <1>7, <1>8, <1>9
     DEF SessionNext, BeginGame, KeepFading

\* The block of frameStarted that counts the fade out (lines 203-218), against
\* every handler: the safety half of StartLeadsToGame.
THEOREM StartIsAlwaysCounted == SessionSpec => StartIsCounted
<1> DEFINE Counts ==
      mDoFade =>
        \/ /\ mDoFade' /\ ~mGameStart'
           /\ IF pc = "fade"
              THEN \E dt \in Elapsed : \E t \in Rounded(dt) :
                     fadeInTime' = fadeInTime + t /\ fadeInTime' <= FADEOUT_TIME
              ELSE fadeInTime' = fadeInTime
        \/ mGameStart' /\ game' = game + 1
<1>1. StartInv /\ FadeInv /\ SessionNext => Counts
  <2> SUFFICES ASSUME StartInv, FadeInv, SessionNext, mDoFade
               PROVE  Counts
    OBVIOUS
  <2>1. CASE pc # "fade"
    BY <2>1, StartIsKept
  <2>2. CASE pc = "fade"
    <3>1. PICK dt \in Elapsed : BeginGame(dt) \/ KeepFading(dt)
      BY <2>2, FadeComesLast
    <3>2. CASE BeginGame(dt)
      BY <3>2 DEF BeginGame, ResetGame
    <3>3. CASE KeepFading(dt)
      <4>1. fadeInTime \in Nat /\ dt \in Nat /\ ~mGameStart
        BY SessionAssumption DEF FadeInv, StartInv
      <4>2. CountFade(dt) /\ ~(fadeInTime' > FADEOUT_TIME)
        BY <3>3 DEF KeepFading, FadeOutOver
      <4>3. PICK t \in Rounded(dt) : fadeInTime' = Counted(fadeInTime + t)
        BY <4>2 DEF CountFade
      <4>4. t \in Nat
        BY <4>1, SessionAssumption DEF Rounded
      <4>5. fadeInTime' = fadeInTime + t /\ fadeInTime' <= FADEOUT_TIME
        BY <4>1, <4>2, <4>3, <4>4, SessionAssumption DEF Counted
      <4>6. mDoFade' /\ ~mGameStart'
        BY <3>3, <4>1 DEF KeepFading, NoReset
      <4> QED
        BY <2>2, <4>5, <4>6
    <3> QED
      BY <3>1, <3>2, <3>3
  <2> QED
    BY <2>1, <2>2
<1>2. StartInv /\ FadeInv /\ [SessionNext]_allVars => [Counts]_allVars
  BY <1>1
<1>3. StartInv /\ [SessionNext]_allVars => StartInv'
  BY StepStart
<1> QED
  BY <1>2, <1>3, InitStart, InitFade, StepFade, PTL
     DEF SessionSpec, StartIsCounted

\* Between two ends of frame nothing touches a fade in but a start, which covers
\* the screen again; and each end of frame takes its time off the fade and
\* hides the overlay in the frame that takes the fade below zero.
CoverIsLifted ==
  [][fader.op = "IN" =>
       IF pc # "fade" THEN fader' = fader \/ (mDoFade' /\ fader'.op = "OUT")
       ELSE \E dt \in Elapsed : /\ fader'.cur = fader.cur - dt
                                /\ fader'.op = "IN" <=> fader'.cur >= 0
                                /\ fader'.overlay <=> fader'.op = "IN"]_allVars

\* Fader::fade (Fader.cpp), as frameStarted calls it: the safety half of
\* CoverGoesAway.
THEOREM CoverIsAlwaysLifted == SessionSpec => CoverIsLifted
<1> DEFINE Lifts ==
      fader.op = "IN" =>
        IF pc # "fade" THEN fader' = fader \/ (mDoFade' /\ fader'.op = "OUT")
        ELSE \E dt \in Elapsed : /\ fader'.cur = fader.cur - dt
                                 /\ fader'.op = "IN" <=> fader'.cur >= 0
                                 /\ fader'.overlay <=> fader'.op = "IN"
<1>1. FadeInv /\ SessionNext => Lifts
  <2> SUFFICES ASSUME FadeInv, SessionNext, fader.op = "IN"
               PROVE  Lifts
    OBVIOUS
  <2>1. ~mDoFade
    BY DEF FadeInv, FadesOutForStart
  <2>2. CASE pc # "fade"
    <3>1. CASE HandleStart
      BY <2>1, <2>2, <3>1 DEF HandleStart, F!StartFadeOut
    <3>2. CASE UNCHANGED fadeVars
      BY <2>2, <3>2 DEF fadeVars
    <3> QED
      BY <2>2, <3>1, <3>2, FadeOrNot DEF BeginGame, KeepFading
  <2>3. CASE pc = "fade"
    <3>1. PICK dt \in Elapsed : KeepFading(dt)
      BY <2>1, <2>3, FadeComesLast DEF BeginGame
    <3>2. fader' = F!FadeInStep(fader, dt)
      BY <3>1 DEF KeepFading, F!Fade
    <3>3. /\ fader'.op = IF fader.cur - dt < 0 THEN "NONE" ELSE "IN"
          /\ fader'.cur = fader.cur - dt
          /\ fader'.overlay = (fader.cur - dt >= 0)
      BY <3>2 DEF F!FadeInStep
    <3>4. fader.cur \in Int /\ dt \in Nat
      BY SessionAssumption DEF FadeInv
    <3>5. fader'.op = "IN" <=> fader.cur - dt >= 0
      BY <3>3, <3>4
    <3>6. fader'.overlay <=> fader'.op = "IN"
      BY <3>3, <3>5, Zenon
    <3> QED
      BY <2>3, <3>3, <3>5, <3>6
  <2> QED
    BY <2>2, <2>3
<1>2. FadeInv /\ [SessionNext]_allVars => [Lifts]_allVars
  BY <1>1
<1> QED
  BY <1>2, InitFade, StepFade, PTL DEF SessionSpec, CoverIsLifted

\* The texture of the overlay is given an opacity between 0 and 1, whatever the
\* frame times and whenever start is clicked (Fader::fade).
THEOREM SessionOpacityLegal == SessionSpec => []F!OpacityLegal
<1>1. OwnTypes => F!OpacityLegal
  BY DEF OwnTypes, FadeOK, F!OpacityLegal
<1> QED
  BY <1>1, InitOwnTypes, StepOwnTypes, PTL DEF SessionSpec

\* Each frame of a session ends after the loops of updateEnemies and
\* updateBullets have run their counted number of times, and each game begins
\* with a clean scene: the fades and buttons change neither.
THEOREM SessionFramesShrink ==
  ASSUME IsFiniteSet(Vehicle), IsFiniteSet(Missile)
  PROVE  SessionSpec => FrameShrinks /\ NewGameIsClean
BY SessionImplementsBattle, FramesShrink, NewGamesAreClean, PTL
   DEF ImplementsBattle
==============================================================================
