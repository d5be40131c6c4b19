-------------------------------- MODULE Battle --------------------------------
(***************************************************************************)
(* The battle of src/BaseCommand/src/BaseCommandFrameListener.cpp and       *)
(* Vehicle.cpp: one thread runs frames, and a frame is a sequence of loops  *)
(* over the lists that the handlers called from inside the loops also       *)
(* change.  pc names the part of the frame that runs next:                  *)
(*                                                                          *)
(*   "frame"     frameStarted: updateGameScene or updateMenuScene           *)
(*   "enemies"   the loop of updateEnemies over gVehicles                   *)
(*   "missiles"  the loop of Vehicle::update over the missiles of one plane *)
(*   "bullets"   the loop of updateBullets over mBullets                    *)
(*   "fade"      the rest of frameStarted, where ResetGame may be called    *)
(*   "input"     frameRenderingQueued, which delivers mouse and GUI events  *)
(*                                                                          *)
(* Positions are abstracted to what happens at them: whether a bullet is in *)
(* the box of a plane, whether a missile reaches the ground and which       *)
(* houses are within 100 units of it, whether a plane is in range, are      *)
(* choices.  Sounds, particles, terrain deformation and the camera shake    *)
(* change nothing that is read here.                                        *)
(***************************************************************************)
EXTENDS Integers, Sequences, FiniteSets, SequencesExt

CONSTANTS
  Vehicle,    \* identities of planes; one erased from gVehicles may come back
  Missile,    \* identities of missiles and bombs
  House,      \* mHouses: PLAYERHOUSES of them, all built by initBase
  Bullet,     \* identities of bullets
  NoVehicle,  \* no plane is being updated
  PairWave,   \* planes spawned by spawnPlane and spawnBomber together
  FullWave,   \* the same with spawnPursuitOn
  MenuCap,    \* the 12 of updateMenuScene
  GameCap,    \* the 50 of updateDifficulty
  Garbage,    \* what a counter may hold before its first assignment
  DebugKey,   \* whether the player presses F5
  MaxShots,   \* bound: bullets fired in one game
  MaxGames,   \* bound: calls of ResetGame
  MaxRows     \* bound: rows in the table of scores

ASSUME BattleAssumption ==
  /\ House # {}
  /\ NoVehicle \notin Vehicle
  /\ Garbage \subseteq Int
  /\ DebugKey \in BOOLEAN
  /\ {PairWave, FullWave, MenuCap, GameCap} \subseteq Nat
  /\ {MaxShots, MaxGames, MaxRows} \subseteq Nat

VARIABLES
  pc,
  gVehicles,     \* planes in the list
  dead,          \* those of them whose mDead is set
  missiles,      \* mMissiles of each plane
  missileNodes,  \* missiles whose scene node hangs under the root node
  deadHouses,    \* houses whose flag dead is set
  mBullets,      \* the bullets before the iterator of updateBullets ...
  ahead,         \* ... and those from it on: outside that loop, none
  billboards,    \* the bullet shown by each billboard of mBulletBillboardSet
  mKillCount, mBulletCount,
  mGameStart,
  guiSheet,      \* the CEGUI sheet on the screen
  menuVisible,   \* mMainMenuSheet->isVisible()
  info,          \* the numbers in the text of the GameOver sheet
  scores,        \* the rows inserted in the table of scores, in order
  todo,          \* planes updateEnemies has still to visit
  cur,           \* the plane whose update runs
  left,          \* missiles of cur its update has still to visit
  i,             \* the billboard index of updateBullets
  game,          \* history: the number of calls of ResetGame
  carried        \* history: bullets in flight when ResetGame was last called

fleet  == <<gVehicles, dead, missiles, missileNodes>>
gun    == <<mBullets, ahead, billboards>>
stats  == <<mKillCount, mBulletCount>>
gui    == <<guiSheet, menuVisible, info>>
loops  == <<todo, cur, left, i>>
ghosts == <<game, carried>>

battleVars == <<pc, fleet, deadHouses, gun, stats, mGameStart, gui, scores,
                loops, ghosts>>

-----------------------------------------------------------------------------

Stats == [kills |-> mKillCount, fires |-> mBulletCount]

\* The constructor assigns mGameStart but neither of the counters.
Init ==
  /\ pc = "frame"
  /\ gVehicles = {} /\ dead = {}
  /\ missiles = [v \in Vehicle |-> {}] /\ missileNodes = {}
  /\ deadHouses = {}
  /\ mBullets = <<>> /\ ahead = <<>> /\ billboards = <<>>
  /\ mKillCount \in Garbage /\ mBulletCount \in Garbage
  /\ mGameStart = FALSE
  /\ guiSheet = "MainMenu" /\ menuVisible = TRUE
  /\ info = [kills |-> 0, fires |-> 0]
  /\ scores = <<>>
  /\ todo = {} /\ cur = NoVehicle /\ left = {} /\ i = 0
  /\ game = 0 /\ carried = 0

\* gameOver: the text shows the counters of this moment.
GameOver ==
  /\ guiSheet' = "GameOver"
  /\ info' = Stats
  /\ mGameStart' = FALSE
  /\ UNCHANGED menuVisible

\* The sets of n new planes; none when the identities run out.
Wave(n) == {W \in SUBSET (Vehicle \ gVehicles) : Cardinality(W) = n}

\* The timers and the game time, which say when a wave is due, are left out:
\* any of the waves the branches of the code can spawn may come.
MenuWaves ==
  {{}} \cup (IF Cardinality(gVehicles) < MenuCap THEN Wave(FullWave) ELSE {})
GameWaves ==
  {{}} \cup Wave(PairWave)
       \cup (IF Cardinality(gVehicles) < GameCap THEN Wave(FullWave) ELSE {})

-----------------------------------------------------------------------------
(* frameStarted                                                             *)

UpdateMenuScene ==
  /\ pc = "frame" /\ ~mGameStart
  /\ \E W \in MenuWaves : gVehicles' = gVehicles \cup W
  /\ \/ DebugKey /\ GameOver
     \/ UNCHANGED <<mGameStart, gui>>
  /\ pc' = "fade"
  /\ UNCHANGED <<dead, missiles, missileNodes, deadHouses, gun, stats, scores,
                 loops, ghosts>>

UpdateDifficulty ==
  /\ pc = "frame" /\ mGameStart
  /\ \E W \in GameWaves : gVehicles' = gVehicles \cup W
  /\ todo' = gVehicles'
  /\ pc' = "enemies"
  /\ UNCHANGED <<dead, missiles, missileNodes, deadHouses, gun, stats,
                 mGameStart, gui, scores, cur, left, i, ghosts>>

\* Mutant: the missiles still in the air are not waited for.
RemoveVehicleArmed(v) ==
  /\ pc = "enemies" /\ v \in todo
  /\ v \in dead
  /\ gVehicles' = gVehicles \ {v}
  /\ dead' = dead \ {v}
  /\ todo' = todo \ {v}
  /\ UNCHANGED <<pc, missiles, missileNodes, deadHouses, gun, stats,
                 mGameStart, gui, scores, cur, left, i, ghosts>>

\* updateEnemies erases a plane that is dead once its missiles have landed ...
RemoveVehicle(v) ==
  /\ pc = "enemies" /\ v \in todo
  /\ v \in dead /\ missiles[v] = {}
  /\ gVehicles' = gVehicles \ {v}
  /\ dead' = dead \ {v}
  /\ todo' = todo \ {v}
  /\ UNCHANGED <<pc, missiles, missileNodes, deadHouses, gun, stats,
                 mGameStart, gui, scores, cur, left, i, ghosts>>

\* fireMissile or dropBomb, or neither: the fire rate, the range and the heading
\* are left out.  A missile gets a node of its own, named by the counter mCount.
Shots == {{}} \cup {{m} : m \in Missile \ missileNodes}

\* Mutant: the iterator is not advanced.
UpdateVehicleAgain(v) ==
  /\ pc = "enemies" /\ v \in todo
  /\ v \notin dead \/ missiles[v] # {}
  /\ \E shot \in Shots :
       /\ missiles' = [missiles EXCEPT ![v] = @ \cup shot]
       /\ missileNodes' = missileNodes \cup shot
       /\ left' = missiles[v] \cup shot
  /\ cur' = v
  /\ pc' = "missiles"
  /\ UNCHANGED <<gVehicles, dead, deadHouses, gun, stats, mGameStart, gui,
                 scores, todo, i, ghosts>>

\* ... and updates every other, dead or not: update first fires or not.
UpdateVehicle(v) ==
  /\ pc = "enemies" /\ v \in todo
  /\ v \notin dead \/ missiles[v] # {}
  /\ \E shot \in Shots :
       /\ missiles' = [missiles EXCEPT ![v] = @ \cup shot]
       /\ missileNodes' = missileNodes \cup shot
       /\ left' = missiles[v] \cup shot
  /\ todo' = todo \ {v}
  /\ cur' = v
  /\ pc' = "missiles"
  /\ UNCHANGED <<gVehicles, dead, deadHouses, gun, stats, mGameStart, gui,
                 scores, i, ghosts>>

MissileFlies(m) ==
  /\ pc = "missiles" /\ m \in left
  /\ left' = left \ {m}
  /\ UNCHANGED <<pc, fleet, deadHouses, gun, stats, mGameStart, gui, scores,
                 todo, cur, i, ghosts>>

\* Mutant: the dead are counted before this hit is marked.
CreateHoleCountsFirst(hit) ==
  /\ deadHouses' = deadHouses \cup hit
  /\ IF deadHouses = House THEN GameOver ELSE UNCHANGED <<mGameStart, gui>>

\* Mutant: the first house lost ends the game.
CreateHoleAnyHouse(hit) ==
  /\ deadHouses' = deadHouses \cup hit
  /\ IF deadHouses' # {} THEN GameOver ELSE UNCHANGED <<mGameStart, gui>>

\* createHole at a point within the base: the houses in hit, all alive, die,
\* and the count of the dead is compared with the number of houses.
CreateHole(hit) ==
  /\ deadHouses' = deadHouses \cup hit
  /\ IF deadHouses' = House THEN GameOver ELSE UNCHANGED <<mGameStart, gui>>

\* Mutant: the end of the game clears the planes while they are iterated.
MissileLandsClears(m) ==
  /\ pc = "missiles" /\ m \in left
  /\ \/ UNCHANGED <<deadHouses, mGameStart, gui>>
     \/ \E hit \in SUBSET (House \ deadHouses) : CreateHole(hit)
  /\ IF mGameStart /\ ~mGameStart'
       THEN /\ gVehicles' = {} /\ dead' = {} /\ missileNodes' = {}
            /\ missiles' = [v \in Vehicle |-> {}]
       ELSE /\ missileNodes' = missileNodes \ {m}
            /\ missiles' = [missiles EXCEPT ![cur] = @ \ {m}]
            /\ UNCHANGED <<gVehicles, dead>>
  /\ left' = left \ {m}
  /\ UNCHANGED <<pc, gun, stats, scores, todo, cur, i, ghosts>>

\* A missile reaches the ground, outside the base or inside it, and is erased.
MissileLands(m) ==
  /\ pc = "missiles" /\ m \in left
  /\ \/ UNCHANGED <<deadHouses, mGameStart, gui>>
     \/ \E hit \in SUBSET (House \ deadHouses) : CreateHole(hit)
  /\ missileNodes' = missileNodes \ {m}
  /\ missiles' = [missiles EXCEPT ![cur] = @ \ {m}]
  /\ left' = left \ {m}
  /\ UNCHANGED <<pc, gVehicles, dead, gun, stats, scores, todo, cur, i, ghosts>>

VehicleDone ==
  /\ pc = "missiles" /\ left = {}
  /\ cur' = NoVehicle
  /\ pc' = "enemies"
  /\ UNCHANGED <<fleet, deadHouses, gun, stats, mGameStart, gui, scores, todo,
                 left, i, ghosts>>

\* updateBullets follows updateEnemies even when that has ended the game.
EnemiesDone ==
  /\ pc = "enemies" /\ todo = {}
  /\ mBullets' = <<>> /\ ahead' = mBullets
  /\ i' = 0
  /\ pc' = "bullets"
  /\ UNCHANGED <<fleet, deadHouses, billboards, stats, mGameStart, gui, scores,
                 todo, cur, left, ghosts>>

\* What every turn of the loop does first: billboard i gets the position of
\* the bullet at the iterator.
Repositioned == [billboards EXCEPT ![i + 1] = Head(ahead)]

\* Mutant: the bullet goes on through the plane it hits.
BulletHitsThrough(v) ==
  /\ pc = "bullets" /\ ahead # <<>>
  /\ v \in gVehicles
  /\ dead' = dead \cup {v}
  /\ mBullets' = Append(mBullets, Head(ahead))
  /\ ahead' = Tail(ahead)
  /\ billboards' = Repositioned
  /\ i' = i + 1
  /\ mKillCount' = mKillCount + 1
  /\ UNCHANGED <<pc, gVehicles, missiles, missileNodes, deadHouses,
                 mBulletCount, mGameStart, gui, scores, todo, cur, left,
                 ghosts>>

\* Mutant: the index is moved back after the removal.
BulletHitsBack(v) ==
  /\ pc = "bullets" /\ ahead # <<>>
  /\ v \in gVehicles
  /\ dead' = dead \cup {v}
  /\ ahead' = Tail(ahead)
  /\ billboards' = RemoveAt(Repositioned, i + 1)
  /\ i' = i - 1
  /\ mKillCount' = mKillCount + 1
  /\ UNCHANGED <<pc, gVehicles, missiles, missileNodes, deadHouses, mBullets,
                 mBulletCount, mGameStart, gui, scores, todo, cur, left,
                 ghosts>>

\* The bullet is in the box of plane v, which may be dead already: the plane
\* is killed, the bullet and billboard i are removed, i stays.
BulletHits(v) ==
  /\ pc = "bullets" /\ ahead # <<>>
  /\ v \in gVehicles
  /\ dead' = dead \cup {v}
  /\ ahead' = Tail(ahead)
  /\ billboards' = RemoveAt(Repositioned, i + 1)
  /\ mKillCount' = mKillCount + 1
  /\ UNCHANGED <<pc, gVehicles, missiles, missileNodes, deadHouses, mBullets,
                 mBulletCount, mGameStart, gui, scores, loops, ghosts>>

\* Mutant: no continue after the removal, so that the index moves on.
BulletLostSkips ==
  /\ pc = "bullets" /\ ahead # <<>>
  /\ ahead' = Tail(ahead)
  /\ billboards' = RemoveAt(Repositioned, i + 1)
  /\ i' = i + 1
  /\ UNCHANGED <<pc, fleet, deadHouses, mBullets, stats, mGameStart, gui,
                 scores, todo, cur, left, ghosts>>

\* The bullet is out of bounds or under the terrain.
BulletLost ==
  /\ pc = "bullets" /\ ahead # <<>>
  /\ ahead' = Tail(ahead)
  /\ billboards' = RemoveAt(Repositioned, i + 1)
  /\ UNCHANGED <<pc, fleet, deadHouses, mBullets, stats, mGameStart, gui,
                 scores, loops, ghosts>>

BulletFlies ==
  /\ pc = "bullets" /\ ahead # <<>>
  /\ mBullets' = Append(mBullets, Head(ahead))
  /\ ahead' = Tail(ahead)
  /\ billboards' = Repositioned
  /\ i' = i + 1
  /\ UNCHANGED <<pc, fleet, deadHouses, stats, mGameStart, gui, scores, todo,
                 cur, left, ghosts>>

BulletsDone ==
  /\ pc = "bullets" /\ ahead = <<>>
  /\ i' = 0
  /\ pc' = "fade"
  /\ UNCHANGED <<fleet, deadHouses, gun, stats, mGameStart, gui, scores, todo,
                 cur, left, ghosts>>

\* clearMissiles of every listed plane.
ClearMissiles ==
  /\ missileNodes' = missileNodes \ UNION {missiles[v] : v \in gVehicles}
  /\ missiles' = [v \in Vehicle |-> IF v \in gVehicles THEN {} ELSE missiles[v]]

ClearVehicles == gVehicles' = {} /\ dead' = {}

\* Mutant: the main menu is not hidden.
ResetGameMenuStays ==
  /\ mKillCount' = 0 /\ mBulletCount' = 0
  /\ mGameStart' = TRUE
  /\ deadHouses' = {}
  /\ ClearMissiles
  /\ ClearVehicles
  /\ game' = game + 1
  /\ carried' = Len(mBullets)
  /\ UNCHANGED <<gun, guiSheet, menuVisible, info, scores, loops>>

\* ResetGame clears the missiles of the planes and the planes, not the bullets.
ResetGame ==
  /\ mKillCount' = 0 /\ mBulletCount' = 0
  /\ mGameStart' = TRUE
  /\ menuVisible' = FALSE
  /\ deadHouses' = {}
  /\ ClearMissiles
  /\ ClearVehicles
  /\ game' = game + 1
  /\ carried' = Len(mBullets)
  /\ UNCHANGED <<gun, guiSheet, info, scores, loops>>

\* When the fade out is over; that this is never during a game is shown in
\* Session, where the fade is.
StartGame ==
  /\ pc = "fade" /\ ~mGameStart
  /\ game < MaxGames
  /\ ResetGame
  /\ pc' = "input"

NoReset ==
  /\ pc = "fade"
  /\ pc' = "input"
  /\ UNCHANGED <<fleet, deadHouses, gun, stats, mGameStart, gui, scores, loops,
                 ghosts>>

-----------------------------------------------------------------------------
(* frameRenderingQueued: any number of events, then the next frame          *)

\* Mutant: a click fires in the menus too.
ShootAnytime(b) ==
  /\ pc = "input"
  /\ mBulletCount < MaxShots
  /\ mBullets' = Append(mBullets, b)
  /\ billboards' = Append(billboards, b)
  /\ mBulletCount' = mBulletCount + 1
  /\ UNCHANGED <<pc, fleet, deadHouses, ahead, mKillCount, mGameStart, gui,
                 scores, loops, ghosts>>

Shoot(b) ==
  /\ pc = "input" /\ mGameStart
  /\ mBulletCount < MaxShots
  /\ mBullets' = Append(mBullets, b)
  /\ billboards' = Append(billboards, b)
  /\ mBulletCount' = mBulletCount + 1
  /\ UNCHANGED <<pc, fleet, deadHouses, ahead, mKillCount, mGameStart, gui,
                 scores, loops, ghosts>>

HandleReturn ==
  /\ pc = "input" /\ guiSheet = "GameOver"
  /\ guiSheet' = "MainMenu" /\ menuVisible' = TRUE
  /\ UNCHANGED <<pc, fleet, deadHouses, gun, stats, mGameStart, info, scores,
                 loops, ghosts>>

\* The row holds the counters of this moment, not those of the text.  Without
\* a connection, or when execute fails, whose result is ignored, there is none.
Row == [game |-> game, kills |-> mKillCount, fires |-> mBulletCount]

\* Mutant: the GameOver sheet stays after a score was sent.
HandleSendStays ==
  /\ pc = "input" /\ guiSheet = "GameOver"
  /\ \/ Len(scores) < MaxRows /\ scores' = Append(scores, Row)
     \/ UNCHANGED scores
  /\ menuVisible' = TRUE
  /\ UNCHANGED <<pc, fleet, deadHouses, gun, stats, mGameStart, guiSheet, info,
                 loops, ghosts>>

HandleSend ==
  /\ pc = "input" /\ guiSheet = "GameOver"
  /\ \/ Len(scores) < MaxRows /\ scores' = Append(scores, Row)
     \/ UNCHANGED scores
  /\ guiSheet' = "MainMenu" /\ menuVisible' = TRUE
  /\ UNCHANGED <<pc, fleet, deadHouses, gun, stats, mGameStart, info, loops,
                 ghosts>>

NextFrame ==
  /\ pc = "input"
  /\ pc' = "frame"
  /\ UNCHANGED <<fleet, deadHouses, gun, stats, mGameStart, gui, scores, loops,
                 ghosts>>

-----------------------------------------------------------------------------

\* The steps of updateGameScene and updateMenuScene.
SceneStep ==
  \/ UpdateMenuScene \/ UpdateDifficulty
  \/ \E v \in Vehicle : RemoveVehicle(v) \/ UpdateVehicle(v) \/ BulletHits(v)
  \/ \E m \in Missile : MissileFlies(m) \/ MissileLands(m)
  \/ VehicleDone \/ EnemiesDone
  \/ BulletLost \/ BulletFlies \/ BulletsDone

\* Identities of bullets in flight are not used for another.
InputStep ==
  \/ \E b \in Bullet \ Range(mBullets) : Shoot(b)
  \/ HandleReturn \/ HandleSend

Next == SceneStep \/ StartGame \/ NoReset \/ InputStep \/ NextFrame

Spec == Init /\ [][Next]_battleVars

\* frameStarted is straight-line code: once called it goes on.
FairSpec == Spec /\ WF_battleVars(SceneStep) /\ WF_battleVars(NoReset)

-----------------------------------------------------------------------------

Rows == [game : Nat, kills : Int, fires : Int]

TypeOK ==
  /\ pc \in {"frame", "enemies", "missiles", "bullets", "fade", "input"}
  /\ gVehicles \in SUBSET Vehicle /\ dead \in SUBSET Vehicle
  /\ missiles \in [Vehicle -> SUBSET Missile]
  /\ missileNodes \in SUBSET Missile
  /\ deadHouses \in SUBSET House
  /\ mBullets \in Seq(Bullet) /\ ahead \in Seq(Bullet)
  /\ billboards \in Seq(Bullet)
  /\ mKillCount \in Int /\ mBulletCount \in Int
  /\ mGameStart \in BOOLEAN
  /\ guiSheet \in {"MainMenu", "GameOver"} /\ menuVisible \in BOOLEAN
  /\ info \in [kills : Int, fires : Int]
  /\ scores \in Seq(Rows)
  /\ todo \in SUBSET Vehicle /\ cur \in Vehicle \cup {NoVehicle}
  /\ left \in SUBSET Missile /\ i \in Nat
  /\ game \in Nat /\ carried \in Nat

\* No iterator of updateEnemies and Vehicle::update outlives its element:
\* what the loops have still to visit is in the lists, though the body of the
\* inner loop reaches gameOver.
IteratorsValid ==
  /\ todo \subseteq gVehicles
  /\ pc = "missiles" => /\ cur \in gVehicles \ todo
                        /\ left \subseteq missiles[cur]

\* A missile's node hangs in the scene exactly as long as a listed plane
\* carries the missile: none is left behind when its plane is erased or the
\* game is reset, and none is taken out twice.
MissileNodesOwned ==
  /\ missileNodes = UNION {missiles[v] : v \in gVehicles}
  /\ \A v \in Vehicle \ gVehicles : missiles[v] = {}
  /\ \A v, w \in Vehicle : v # w => missiles[v] \cap missiles[w] = {}

\* updateBullets walks the list by iterator and the billboards by index; the
\* two never part, and the index is within the billboards.
BillboardsAligned ==
  /\ billboards = mBullets \o ahead
  /\ IF pc = "bullets" THEN i = Len(mBullets) ELSE i = 0 /\ ahead = <<>>

\* "The game is over once all your houses are destroyed": at once.
SomeHouseStands == mGameStart => deadHouses # House

\* A bullet scores at most once: kills and bullets in flight never exceed the
\* shots of this game and the bullets it inherited.
KillsCovered ==
  game > 0 => mKillCount + Len(mBullets) + Len(ahead) <= mBulletCount + carried

\* Every call of frameStarted returns: its loops end, though they erase from
\* the lists they walk.
FrameTerminates == pc = "frame" ~> pc = "input"
==============================================================================
