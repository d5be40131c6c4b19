----------------------------- MODULE PlayerProofs -----------------------------
(***************************************************************************)
(* What a player who does not press F5 may rely on, proved of Session for   *)
(* all values of the constants: no button in a game, no game behind the     *)
(* GameOver sheet, scores that are those of the game and sent once; and     *)
(* that Session implements GameFlow.                                        *)
(***************************************************************************)
EXTENDS SessionProofs

-----------------------------------------------------------------------------
(* Sheets and games                                                         *)

InLoops == pc \in {"enemies", "missiles", "bullets"}

\* The GameOver sheet appears only out of a game that runs, the start button is
\* only clicked in the main menu, and no loop of a game runs while the screen
\* fades out: so ResetGame, which does not look at the sheet, finds the menu.
MenuInv ==
  /\ GameHasNoButtons /\ GameOverMeansLost /\ ScoreCoversText
  /\ mDoFade => guiSheet = "MainMenu" /\ ~mGameStart /\ ~InLoops
  /\ InLoops => mGameStart \/ guiSheet = "GameOver"

LEMMA InitMenu == SessionInit => MenuInv
BY DEF SessionInit, Init, MenuInv, InLoops, GameHasNoButtons, GameOverMeansLost,
       ScoreCoversText

\* createHole: the last house ends the game, now or again.
LEMMA LandsKeepsMenu ==
  ASSUME TypeOK, MenuInv, NEW m \in Missile, MissileLands(m), UNCHANGED mDoFade
  PROVE  MenuInv'
<1> USE DEF MenuInv, InLoops, GameHasNoButtons, GameOverMeansLost, ScoreCoversText
<1>1. /\ pc = "missiles" /\ pc' = pc
      /\ mKillCount' = mKillCount /\ mBulletCount' = mBulletCount
      /\ mKillCount \in Int
  BY DEF MissileLands, stats, TypeOK
<1>2. CASE UNCHANGED <<deadHouses, mGameStart, gui>>
  BY <1>1, <1>2 DEF gui
<1>3. ASSUME NEW hit \in SUBSET (House \ deadHouses), CreateHole(hit)
      PROVE  MenuInv'
  <2>1. CASE deadHouses' = House
    <3>1. /\ guiSheet' = "GameOver" /\ info' = Stats /\ mGameStart' = FALSE
      BY <1>3, <2>1 DEF CreateHole, GameOver
    <3>2. info'.kills = mKillCount /\ info'.fires = mBulletCount
      BY <3>1 DEF Stats
    <3> QED
      BY <1>1, <2>1, <3>1, <3>2
  <2>2. CASE deadHouses' # House
    <3>1. UNCHANGED <<mGameStart, guiSheet, menuVisible, info>> /\ deadHouses # House
      BY <1>3, <2>2 DEF CreateHole, gui
    <3> QED
      BY <1>1, <3>1
  <2> QED
    BY <2>1, <2>2
<1> QED
  BY <1>2, <1>3 DEF MissileLands

LEMMA SceneKeepsMenu ==
  ASSUME DebugKey = FALSE, TypeOK, MenuInv, SceneStep, UNCHANGED mDoFade
  PROVE  MenuInv'
<1> USE DEF MenuInv, InLoops, GameHasNoButtons, GameOverMeansLost,
            ScoreCoversText, gui, stats
<1>1. CASE UpdateMenuScene
  BY <1>1 DEF UpdateMenuScene
<1>2. CASE UpdateDifficulty
  BY <1>2 DEF UpdateDifficulty
<1>3. ASSUME NEW v \in Vehicle, RemoveVehicle(v) \/ UpdateVehicle(v)
      PROVE  MenuInv'
  BY <1>3 DEF RemoveVehicle, UpdateVehicle
<1>4. ASSUME NEW v \in Vehicle, BulletHits(v) PROVE MenuInv'
  <2>1. /\ pc = "bullets" /\ pc' = pc
        /\ UNCHANGED <<mBulletCount, mGameStart, gui, deadHouses>>
        /\ mKillCount' = mKillCount + 1
    BY <1>4 DEF BulletHits
  <2>2. mKillCount \in Int /\ info.kills \in Int
    BY DEF TypeOK
  <2> QED
    BY <2>1, <2>2
<1>5. ASSUME NEW m \in Missile, MissileFlies(m) PROVE MenuInv'
  BY <1>5 DEF MissileFlies
<1>6. ASSUME NEW m \in Missile, MissileLands(m) PROVE MenuInv'
  BY <1>6, LandsKeepsMenu
<1>7. CASE VehicleDone \/ EnemiesDone \/ BulletLost \/ BulletFlies \/ BulletsDone
  BY <1>7 DEF VehicleDone, EnemiesDone, BulletLost, BulletFlies, BulletsDone
<1> QED
  BY <1>1, <1>2, <1>3, <1>4, <1>5, <1>6, <1>7 DEF SceneStep

LEMMA StepMenu ==
  ASSUME DebugKey = FALSE, TypeOK, MenuInv, [SessionNext]_allVars
  PROVE  MenuInv'
<1> USE DEF MenuInv, InLoops, GameHasNoButtons, GameOverMeansLost,
            ScoreCoversText, gui, stats
<1>1. CASE SceneStep /\ UNCHANGED sessionVars
  BY <1>1, SceneKeepsMenu DEF sessionVars, fadeVars
<1>2. ASSUME NEW dt \in Elapsed, BeginGame(dt) PROVE MenuInv'
  BY <1>2 DEF BeginGame, ResetGame
<1>3. ASSUME NEW dt \in Elapsed, KeepFading(dt) PROVE MenuInv'
  BY <1>3 DEF KeepFading, NoReset
<1>4. CASE MoveMouse \/ HandleQuit
  BY <1>4 DEF MoveMouse, HandleQuit, battleVars, fadeVars
<1>5. CASE HandleStart
  BY <1>5 DEF HandleStart, MenuButton, battleVars
<1>6. CASE ClickReturn
  BY <1>6 DEF ClickReturn, HandleReturn, sessionVars, fadeVars
<1>7. CASE ClickSend
  BY <1>7 DEF ClickSend, HandleSend, sessionVars, fadeVars
<1>8. CASE Fire
  <2>1. PICK b \in Bullet \ Range(mBullets) : Shoot(b)
    BY <1>8 DEF Fire
  <2> QED
    BY <1>8, <2>1 DEF Fire, Shoot, sessionVars, fadeVars
<1>9. CASE EndFrame
  BY <1>9 DEF EndFrame, NextFrame, sessionVars, fadeVars
<1>10. CASE \E escape \in BOOLEAN : StopRendering(escape)
  BY <1>10 DEF StopRendering, battleVars, fadeVars
<1>11. CASE UNCHANGED allVars
  BY <1>11 DEF allVars, battleVars, sessionVars, fadeVars
<1> QED
  BY <1>1, <1>2, <1>3, <1>4, <1>5, <1>6, <1>7, <1>8, <1>9, <1>10, <1>11
     DEF SessionNext

LEMMA SessionTypes == SessionSpec => []TypeOK
BY SessionImplementsBattle, BattleTypeIsOK, PTL DEF ImplementsBattle

LEMMA MenuInvariant ==
  ASSUME DebugKey = FALSE
  PROVE  SessionSpec => []MenuInv
<1>1. TypeOK /\ MenuInv /\ [SessionNext]_allVars => MenuInv'
  BY StepMenu
<1> QED
  BY <1>1, InitMenu, SessionTypes, PTL DEF SessionSpec

\* What the player shoots at is never a button of handleSend, handleReturn or
\* handleStart.
THEOREM NoButtonsInAGame ==
  ASSUME DebugKey = FALSE
  PROVE  SessionSpec => []GameHasNoButtons
<1>1. MenuInv => GameHasNoButtons
  BY DEF MenuInv
<1> QED
  BY <1>1, MenuInvariant, PTL

\* gameOver is called for the last house only, and ResetGame not while its
\* sheet is shown.
THEOREM GameOverAlwaysMeansLost ==
  ASSUME DebugKey = FALSE
  PROVE  SessionSpec => []GameOverMeansLost
<1>1. MenuInv => GameOverMeansLost
  BY DEF MenuInv
<1> QED
  BY <1>1, MenuInvariant, PTL

\* What handleSend stores is at least what gameOver showed.
THEOREM ScoreAlwaysCoversText ==
  ASSUME DebugKey = FALSE
  PROVE  SessionSpec => []ScoreCoversText
<1>1. MenuInv => ScoreCoversText
  BY DEF MenuInv
<1> QED
  BY <1>1, MenuInvariant, PTL

-----------------------------------------------------------------------------
(* The table of scores                                                      *)

Submitted == \E k \in 1..Len(scores) : scores[k].game = game

\* A game that runs or is being looked at has not been submitted; the rows are
\* those of games up to this one.
RowInv ==
  /\ OneRowPerGame
  /\ \A k \in 1..Len(scores) : scores[k].game \in 1..game
  /\ guiSheet = "GameOver" \/ mGameStart => game > 0 /\ ~Submitted

LEMMA InitRows == SessionInit => RowInv
BY DEF SessionInit, Init, RowInv, OneRowPerGame

\* handleSend inserts the first row of its game and shows the menu.
LEMMA SendKeepsRows ==
  ASSUME TypeOK, MenuInv, RowInv, HandleSend
  PROVE  RowInv'
<1> USE DEF RowInv, OneRowPerGame, Submitted
<1>1. /\ guiSheet = "GameOver" /\ guiSheet' = "MainMenu"
      /\ mGameStart' = mGameStart /\ ~mGameStart /\ game' = game
  BY DEF HandleSend, MenuInv, GameOverMeansLost, ghosts
<1>2. CASE UNCHANGED scores
  BY <1>1, <1>2
<1>3. CASE scores' = Append(scores, Row)
  <2>1. Row.game = game
    BY DEF Row
  <2>2. scores \in Seq(Rows) /\ game \in Nat /\ mKillCount \in Int /\ mBulletCount \in Int
    BY DEF TypeOK
  <2>3. Row \in Rows
    BY <2>2 DEF Row, Rows
  <2> HIDE DEF OneRowPerGame, Submitted
  <2>4. /\ Len(scores) \in Nat /\ Len(scores') = Len(scores) + 1
        /\ \A k \in 1..Len(scores) : scores'[k] = scores[k]
        /\ scores'[Len(scores) + 1] = Row
    BY <1>3, <2>2, <2>3, AppendProperties, LenProperties
  <2>5. \A k \in 1..Len(scores') : k \in 1..Len(scores) \/ k = Len(scores) + 1
    BY <2>4
  <2>6. game > 0 /\ \A k \in 1..Len(scores) : scores[k].game # game
    BY <1>1 DEF Submitted
  <2>7. \A k \in 1..Len(scores') : scores'[k].game \in 1..game
    BY <2>1, <2>2, <2>4, <2>5, <2>6
  <2>8. OneRowPerGame'
    BY <2>1, <2>2, <2>4, <2>5, <2>6, <2>7 DEF OneRowPerGame
  <2> QED
    BY <1>1, <2>7, <2>8
<1> QED
  BY <1>2, <1>3 DEF HandleSend

LEMMA SceneKeepsRows ==
  ASSUME DebugKey = FALSE, MenuInv, SceneStep
  PROVE  /\ UNCHANGED <<scores, game>>
         /\ guiSheet' = "GameOver" \/ mGameStart' => guiSheet = "GameOver" \/ mGameStart
<1> USE DEF gui, ghosts
<1>1. CASE UpdateMenuScene
  BY <1>1 DEF UpdateMenuScene
<1>2. CASE UpdateDifficulty
  BY <1>2 DEF UpdateDifficulty
<1>3. CASE \E v \in Vehicle : RemoveVehicle(v) \/ UpdateVehicle(v) \/ BulletHits(v)
  BY <1>3 DEF RemoveVehicle, UpdateVehicle, BulletHits
<1>4. CASE \E m \in Missile : MissileFlies(m) \/ MissileLands(m)
  BY <1>4 DEF MissileFlies, MissileLands, CreateHole, GameOver, MenuInv, InLoops
<1>5. CASE VehicleDone \/ EnemiesDone \/ BulletLost \/ BulletFlies \/ BulletsDone
  BY <1>5 DEF VehicleDone, EnemiesDone, BulletLost, BulletFlies, BulletsDone
<1> QED
  BY <1>1, <1>2, <1>3, <1>4, <1>5 DEF SceneStep

LEMMA StepRows ==
  ASSUME DebugKey = FALSE, TypeOK, MenuInv, RowInv, [SessionNext]_allVars
  PROVE  RowInv'
<1>1. CASE /\ UNCHANGED <<scores, game>>
           /\ guiSheet' = "GameOver" \/ mGameStart'
                => guiSheet = "GameOver" \/ mGameStart
  BY <1>1 DEF RowInv, OneRowPerGame, Submitted
<1> USE DEF gui, ghosts
<1>2. CASE SceneStep
  BY <1>1, <1>2, SceneKeepsRows
<1>3. ASSUME NEW dt \in Elapsed, BeginGame(dt) PROVE RowInv'
  <2>1. game' = game + 1 /\ scores' = scores /\ game \in Nat
    BY <1>3 DEF BeginGame, ResetGame, TypeOK
  <2> QED
    BY <2>1 DEF RowInv, OneRowPerGame, Submitted
<1>4. ASSUME NEW dt \in Elapsed, KeepFading(dt) PROVE RowInv'
  BY <1>1, <1>4 DEF KeepFading, NoReset
<1>5. CASE MoveMouse \/ HandleStart \/ HandleQuit
  BY <1>1, <1>5 DEF MoveMouse, HandleStart, HandleQuit, battleVars
<1>6. CASE ClickReturn
  BY <1>1, <1>6 DEF ClickReturn, HandleReturn
<1>7. CASE ClickSend
  BY <1>7, SendKeepsRows DEF ClickSend
<1>8. CASE Fire
  BY <1>1, <1>8 DEF Fire, Shoot
<1>9. CASE EndFrame
  BY <1>1, <1>9 DEF EndFrame, NextFrame
<1>10. CASE \E escape \in BOOLEAN : StopRendering(escape)
  BY <1>1, <1>10 DEF StopRendering, battleVars
<1>11. CASE UNCHANGED allVars
  BY <1>1, <1>11 DEF allVars, battleVars
<1> QED
  BY <1>2, <1>3, <1>4, <1>5, <1>6, <1>7, <1>8, <1>9, <1>10, <1>11
     DEF SessionNext

\* A score is sent at most once, and only of a game that was played, however
\* often the player returns to the menu, starts again or clicks in one frame.
THEOREM AlwaysOneRowPerGame ==
  ASSUME DebugKey = FALSE
  PROVE  SessionSpec => []OneRowPerGame
<1>1. TypeOK /\ MenuInv /\ RowInv /\ [SessionNext]_allVars => RowInv'
  BY StepRows
<1>2. RowInv => OneRowPerGame
  BY DEF RowInv
<1> QED
  BY <1>1, <1>2, InitRows, SessionTypes, MenuInvariant, PTL DEF SessionSpec

-----------------------------------------------------------------------------
(* What the player is promised                                              *)

Games(rows) == [k \in 1..Len(rows) |-> rows[k].game]

\* A row more in the table is a game more.
LEMMA GamesAppend ==
  ASSUME NEW rows \in Seq(Rows), NEW row \in Rows
  PROVE  Games(Append(rows, row)) = Append(Games(rows), row.game)
<1> DEFINE n == Len(rows)
           more == Append(rows, row)
<1>1. /\ n \in Nat /\ Len(more) = n + 1
      /\ \A k \in 1..n : more[k] = rows[k]
      /\ more[n + 1] = row
  BY AppendProperties, LenProperties
<1>2. Games(rows) \in Seq(Nat) /\ Len(Games(rows)) = n
  <2>1. \A k \in 1..n : rows[k].game \in Nat
    <3>1. \A k \in 1..n : rows[k] \in Rows
      BY ElementOfSeq
    <3> QED
      BY <3>1 DEF Rows
  <2>2. Games(rows) \in [1..n -> Nat]
    BY <2>1 DEF Games
  <2> QED
    BY <1>1, <2>2, SeqDef, LenProperties
<1>3. row.game \in Nat
  BY DEF Rows
<1>4. /\ Append(Games(rows), row.game) \in Seq(Nat)
      /\ Len(Append(Games(rows), row.game)) = n + 1
      /\ \A k \in 1..n : Append(Games(rows), row.game)[k] = Games(rows)[k]
      /\ Append(Games(rows), row.game)[n + 1] = row.game
  BY <1>2, <1>3, AppendProperties
<1>5. DOMAIN Append(Games(rows), row.game) = 1..(n + 1)
  BY <1>4, LenProperties
<1>6. Append(Games(rows), row.game)
        = [k \in 1..(n + 1) |-> Append(Games(rows), row.game)[k]]
  BY <1>4, <1>5, LenProperties
<1>7. \A k \in 1..(n + 1) : more[k].game = Append(Games(rows), row.game)[k]
  <2> TAKE k \in 1..(n + 1)
  <2>1. CASE k \in 1..n
    BY <1>1, <1>4, <2>1 DEF Games
  <2>2. CASE k = n + 1
    BY <1>1, <1>4, <2>2
  <2>3. n \in Nat
    BY <1>1
  <2> HIDE DEF n, more
  <2>4. k \in 1..n \/ k = n + 1
    BY <2>3
  <2> QED
    BY <2>1, <2>2, <2>4
<1> QED
  BY <1>1, <1>6, <1>7 DEF Games

\* What GameFlow sees is five variables of Session and the rows.
LEMMA FlowStutters ==
  ASSUME UNCHANGED <<mGameStart, guiSheet, mDoFade, deadHouses, game, scores>>
  PROVE  UNCHANGED Flow!flowVars
BY DEF Flow!flowVars, Phase

\* createHole: in a game houses are lost, after it none is left to lose.
LEMMA LandsFlows ==
  ASSUME TypeOK, MenuInv, NEW m \in Missile, MissileLands(m), UNCHANGED mDoFade
  PROVE  [Flow!FlowNext]_Flow!flowVars
<1> USE DEF gui, ghosts
<1>1. pc = "missiles" /\ UNCHANGED <<game, scores>>
  BY DEF MissileLands
<1>2. CASE UNCHANGED <<deadHouses, mGameStart, gui>>
  BY <1>1, <1>2, FlowStutters
<1>3. ASSUME NEW hit \in SUBSET (House \ deadHouses), CreateHole(hit)
      PROVE  [Flow!FlowNext]_Flow!flowVars
  <2>1. deadHouses' = deadHouses \cup hit /\ deadHouses \subseteq House
    BY <1>3 DEF CreateHole, TypeOK
  <2>2. CASE mGameStart
    <3>1. Phase = "playing"
      BY <2>2 DEF Phase
    <3>2. (House \ deadHouses)' \in SUBSET (House \ deadHouses)
      BY <2>1
    <3>3. Phase' = IF (House \ deadHouses)' = {} THEN "lost" ELSE "playing"
      <4>1. CASE deadHouses' = House
        BY <1>3, <4>1 DEF CreateHole, GameOver, Phase
      <4>2. CASE deadHouses' # House
        <5>1. mGameStart' = TRUE
          BY <1>3, <2>2, <4>2 DEF CreateHole, TypeOK
        <5> QED
          BY <2>1, <4>2, <5>1 DEF Phase
      <4> QED
        BY <4>1, <4>2
    <3>4. Flow!LoseHouses
      BY <1>1, <3>1, <3>2, <3>3 DEF Flow!LoseHouses
    <3> QED
      BY <3>4 DEF Flow!FlowNext
  <2>3. CASE ~mGameStart
    <3>1. guiSheet = "GameOver" /\ deadHouses = House
      BY <1>1, <2>3 DEF MenuInv, InLoops, GameOverMeansLost
    <3>2. deadHouses' = House /\ guiSheet' = "GameOver" /\ mGameStart' = FALSE
      BY <1>3, <2>1, <3>1 DEF CreateHole, GameOver
    <3>3. Phase = "lost" /\ Phase' = "lost"
      BY <2>3, <3>1, <3>2 DEF Phase
    <3> QED
      BY <1>1, <3>1, <3>2, <3>3 DEF Flow!flowVars
  <2> QED
    BY <2>2, <2>3
<1> QED
  BY <1>2, <1>3 DEF MissileLands

LEMMA SceneFlows ==
  ASSUME DebugKey = FALSE, TypeOK, MenuInv, SceneStep, UNCHANGED mDoFade
  PROVE  [Flow!FlowNext]_Flow!flowVars
<1> USE DEF gui, ghosts, stats
<1>1. CASE UpdateMenuScene
  BY <1>1, FlowStutters DEF UpdateMenuScene
<1>2. CASE UpdateDifficulty
  BY <1>2, FlowStutters DEF UpdateDifficulty
<1>3. CASE \E v \in Vehicle : RemoveVehicle(v) \/ UpdateVehicle(v) \/ BulletHits(v)
  BY <1>3, FlowStutters DEF RemoveVehicle, UpdateVehicle, BulletHits
<1>4. CASE \E m \in Missile : MissileFlies(m)
  BY <1>4, FlowStutters DEF MissileFlies
<1>5. CASE \E m \in Missile : MissileLands(m)
  BY <1>5, LandsFlows
<1>6. CASE VehicleDone \/ EnemiesDone \/ BulletLost \/ BulletFlies \/ BulletsDone
  BY <1>6, FlowStutters
     DEF VehicleDone, EnemiesDone, BulletLost, BulletFlies, BulletsDone
<1> QED
  BY <1>1, <1>2, <1>3, <1>4, <1>5, <1>6 DEF SceneStep

\* handleSend and handleReturn leave a lost game.
LEMMA LeaveFlows ==
  ASSUME TypeOK, MenuInv, UNCHANGED mDoFade, HandleReturn \/ HandleSend
  PROVE  Flow!Leave
<1> USE DEF gui, ghosts
<1>1. /\ guiSheet = "GameOver" /\ guiSheet' = "MainMenu"
      /\ UNCHANGED <<mGameStart, deadHouses, game>>
      /\ UNCHANGED scores \/ scores' = Append(scores, Row)
  BY DEF HandleReturn, HandleSend
<1>2. ~mGameStart /\ ~mDoFade /\ mGameStart' = mGameStart
  BY <1>1 DEF MenuInv, GameOverMeansLost
<1>3. Phase = "lost" /\ Phase' = "menu"
  BY <1>1, <1>2 DEF Phase
<1>4. Games(scores)' \in {Games(scores), Append(Games(scores), game)}
  <2>1. scores \in Seq(Rows) /\ Row \in Rows /\ Row.game = game
    BY DEF TypeOK, Row, Rows
  <2> QED
    BY <1>1, <2>1, GamesAppend
<1> QED
  BY <1>1, <1>3, <1>4 DEF Flow!Leave, Games

LEMMA StepFlows ==
  ASSUME DebugKey = FALSE, TypeOK, MenuInv, [SessionNext]_allVars
  PROVE  [Flow!FlowNext]_Flow!flowVars
<1> USE DEF gui, ghosts, stats
<1>1. CASE SceneStep /\ UNCHANGED sessionVars
  BY <1>1, SceneFlows DEF sessionVars, fadeVars
<1>2. ASSUME NEW dt \in Elapsed, BeginGame(dt)
      PROVE  [Flow!FlowNext]_Flow!flowVars
  <2>1. /\ mDoFade /\ mGameStart' = TRUE /\ deadHouses' = {}
        /\ game' = game + 1 /\ scores' = scores
    BY <1>2 DEF BeginGame, ResetGame
  <2>2. ~mGameStart /\ guiSheet = "MainMenu"
    BY <2>1 DEF MenuInv
  <2>3. Phase = "starting" /\ Phase' = "playing"
    BY <2>1, <2>2 DEF Phase
  <2> QED
    BY <2>1, <2>3 DEF Flow!Begin, Flow!FlowNext
<1>3. ASSUME NEW dt \in Elapsed, KeepFading(dt)
      PROVE  [Flow!FlowNext]_Flow!flowVars
  BY <1>3, FlowStutters DEF KeepFading, NoReset
<1>4. CASE MoveMouse \/ HandleQuit
  BY <1>4, FlowStutters DEF MoveMouse, HandleQuit, battleVars, fadeVars
<1>5. CASE HandleStart
  <2>1. /\ guiSheet = "MainMenu" /\ menuVisible
        /\ UNCHANGED <<mGameStart, guiSheet, deadHouses, game, scores>>
    BY <1>5 DEF HandleStart, MenuButton, battleVars
  <2>2. ~mGameStart
    BY <2>1 DEF MenuInv, GameHasNoButtons
  <2>3. CASE mDoFade' = mDoFade
    BY <2>1, <2>3, FlowStutters
  <2>4. CASE ~mDoFade /\ mDoFade' = TRUE
    <3>1. Phase = "menu" /\ Phase' = "starting"
      BY <2>1, <2>2, <2>4 DEF Phase
    <3> QED
      BY <2>1, <3>1 DEF Flow!Start, Flow!FlowNext
  <2> QED
    BY <1>5, <2>3, <2>4 DEF HandleStart
<1>6. CASE ClickReturn \/ ClickSend
  BY <1>6, LeaveFlows DEF ClickReturn, ClickSend, sessionVars, fadeVars, Flow!FlowNext
<1>7. CASE Fire
  <2>1. PICK b \in Bullet \ Range(mBullets) : Shoot(b)
    BY <1>7 DEF Fire
  <2> QED
    BY <1>7, <2>1, FlowStutters DEF Fire, Shoot, sessionVars, fadeVars
<1>8. CASE EndFrame
  BY <1>8, FlowStutters DEF EndFrame, NextFrame, sessionVars, fadeVars
<1>9. CASE \E escape \in BOOLEAN : StopRendering(escape)
  BY <1>9, FlowStutters DEF StopRendering, battleVars, fadeVars
<1>10. CASE UNCHANGED allVars
  BY <1>10, FlowStutters DEF allVars, battleVars, sessionVars, fadeVars
<1> QED
  BY <1>1, <1>2, <1>3, <1>4, <1>5, <1>6, <1>7, <1>8, <1>9, <1>10 DEF SessionNext

\* Every run of the program without F5 is a run of GameFlow: the frames, the
\* fades, the nested loops and the sheets, none of which asks in what phase the
\* player is, keep to its phases for all values of the constants.
THEOREM SessionImplementsGameFlow ==
  ASSUME DebugKey = FALSE
  PROVE  SessionSpec => ImplementsGameFlow
<1>1. SessionInit => Flow!FlowInit
  <2> SUFFICES ASSUME SessionInit
               PROVE  Flow!FlowInit
    OBVIOUS
  <2>1. Phase = "menu" /\ House \ deadHouses = House /\ game = 0
    BY DEF SessionInit, Init, Phase
  <2>2. [k \in 1..Len(scores) |-> scores[k].game] = <<>>
    BY DEF SessionInit, Init
  <2> QED
    BY <2>1, <2>2 DEF Flow!FlowInit
<1>2. TypeOK /\ MenuInv /\ [SessionNext]_allVars => [Flow!FlowNext]_Flow!flowVars
  BY StepFlows
<1> QED
  BY <1>1, <1>2, SessionTypes, MenuInvariant, PTL
     DEF SessionSpec, ImplementsGameFlow, Flow!FlowSpec
===============================================================================
