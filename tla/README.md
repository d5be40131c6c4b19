# Base Command in TLA+

Base Command is a game: the player defends eight houses with a gun against
planes that fly in, fire missiles and drop bombs.  It is a C++ program on OGRE
(rendering), CEGUI (menus), OIS (input), ETM (terrain), FMOD (sound) and MySQL++
(the table of scores).  Its own code is `src/BaseCommand/src` and
`src/BaseCommand/include`, about 2500 lines; everything under
`src/BaseCommand/lib` is third-party.

This directory models that code in TLA+, checks the models with TLC and proves
theorems about them with TLAPS.  File names below are relative to
`src/BaseCommand/src`; FL is `BaseCommandFrameListener.cpp`.

## 1. The system

The program has one thread.  OGRE's render loop calls, for every frame,
`frameStarted` (FL:165-232) and then `frameRenderingQueued` (FL:141-163), which
polls OIS; mouse and key events, and through them the clicks on CEGUI buttons,
are delivered inside that second call.  There is no lock and no second thread:
what makes the code hard is that the loops of a frame walk lists which the
handlers called from inside these loops change as well, and that counters,
flags and statics live on from one menu, fade or game into the next.

| component | source | state | operations | what makes it correct |
|---|---|---|---|---|
| Battle | FL:235-270, 377-545, 616-704, 769-816; Vehicle.cpp | `gVehicles`, the missiles of each plane and their scene nodes, `mBullets`, the billboard set, `mHouses`, `mKillCount`, `mBulletCount`, `mGameStart` | `updateGameScene`, `updateMenuScene`, `updateEnemies`, `Vehicle::update`, `createHole`, `updateBullets`, `gameOver`, `ResetGame`, `shoot` | iterators stay valid; list and billboards stay aligned; no scene node is orphaned; the game ends with the last house; a bullet scores once; every frame ends |
| Session | FL:141-232, 285-375, 818-871 | `mDoFade`, `fadeInTime`, `mQuitting`, the CEGUI sheet, the cursor, the table of scores | `handleStart`, `handleQuit`, `handleReturn`, `handleSend`, `mouseMoved`, `mousePressed` | a game is never reset while it runs; no button can be clicked in a game; one row per game; start leads to a game; quit stops |
| Fader | Fader.cpp | operation, durations, texture opacity, overlay | `startFadeIn`, `startFadeOut`, `fade` | the opacity is legal for all durations and frame times; the overlay goes away when it should and only then |
| SoundManager | SoundManager.cpp | the vector of sound instances, the array of channels, the channel variables of the callers | `CreateSound`, `FindSound`, `PlaySound`, `StopSound`, `StopAllSounds`, `FrameStarted` | an index keeps naming the same sound while the vector grows; a file is loaded once per type; a sound keeps its node while channels change hands |
| Spawning and difficulty | FL:248-270, 377-389, 476-520 | `nextSpawn` (twice), `mCurrentGameTime` | `updateDifficulty`, the `spawn...` functions | waves come at the pace of the game's age; the number of planes stays bounded; a player is always attacked again |
| Steering | SteeringBehaviors.cpp, Vehicle.cpp | waypoints, the index of the current one, the leader, `mCount` | `calculate`, `followPath`, `offsetPursuit`, the constructor of `Vehicle` | the index stays in range; a leader that left the list is still readable; leaders are placed before their followers; node names are unique |
| House placement | FL:86-139 | `mHouses` | `initBase` | eight houses, 120 units apart; whether the loop ends |
| Leaderboard | FL:21-35, 569-614, 837-872; MySQL++ | the connection, a CEGUI list box, the table of scores | `connect`, `populateLeaderboard`, `handleReturn`, `handleSend` | a score is stored and shown once; the player can see which of his were saved; a click comes back |
| Terrain and lightmap | FL:633-668, 706-715 | height map, lightmap | `createHole`, `updateLightmap` | - |
| Scene construction | BaseCommand.h, BaseCommand.cpp | OGRE objects | run once before the first frame | - |
| Particles and camera | FL:218-224, 716-757 | particle emitters, `mShakeCamera` | `createExplosion`, `igniteTrees` | - |

Interactions: Session decides through the fade when Battle is reset; Battle ends
a game by showing the GameOver sheet, from inside two nested loops
(`updateEnemies` -> `Vehicle::update` -> `createHole` -> `gameOver`); Session's
buttons are reachable only on the sheet Battle left on the screen; Session's
`handleSend` reads Battle's counters; Battle and Session play sounds.

The hazards that follow from this are listed, each with its line, in
`PROJECT.json`.

## 2. The modules

    Fader  <--INSTANCE--  Session  --EXTENDS-->  Battle
      ^                     ^   ^                  ^
    FaderProofs  SessionProofs  SessionFindings   BattleProofs
                 PlayerProofs
    MCFader      MCSession                        MCBattle

    GameFlow    <--INSTANCE--  Session       (what a player is promised)
    SoundBoard  <--INSTANCE--  SoundManager  (what a caller is promised)

    SoundManager  <--  SoundManagerProofs, SoundFindings, MCSoundManager
    Difficulty    <--  DifficultyProofs, MCDifficulty
    Formation     <--  FormationProofs, MCFormation
    Leaderboard   <--  LeaderboardProofs, MCLeaderboard

Battle and Session are the loop of the program.  Difficulty, Formation and
Leaderboard look at the same functions for what Battle and Session leave to
choice: when waves come, what becomes of a plane as an object, and what happens
between two calls to the database.  Each keeps of the rest only what it needs
(Difficulty the number of planes, Formation the bullets that kill, Leaderboard
that a game was played).

### Battle

One step is one turn of a loop, or one call that has no loop.  `pc` names the
part of the frame that runs next:

    frame --> [enemies --> missiles --> enemies ... --> bullets -->] fade --> input --> frame

| model | code |
|---|---|
| `gVehicles`, `dead`, `missiles` | the list, `mDead` and `mMissiles` of each plane in it |
| `missileNodes` | the missile and bomb nodes under the root scene node |
| `deadHouses` | the houses whose `dead` is set |
| `mBullets \o ahead` | the list `mBullets`, cut at the iterator of `updateBullets`; outside that loop `ahead` is empty |
| `billboards` | for each billboard of the set, the bullet whose position it shows |
| `i` | the index `updateBullets` counts beside its iterator |
| `todo`, `cur`, `left` | what `updateEnemies` and the missile loop of `Vehicle::update` have still to visit |
| `info` | the numbers written into the GameOver text |
| `scores` | the rows inserted by `handleSend`, each tagged with the game it came from |
| `game`, `carried` | history only: the number of calls of `ResetGame`, and the bullets in flight at the last one |

Left to choice, because only geometry or the clock decides them: whether a bullet
is in the box of a plane, out of bounds or under the terrain; whether a missile
reaches the ground, within the base or outside it, and which houses are near;
whether a plane fires; which of the waves that a branch of `updateMenuScene` or
`updateDifficulty` can spawn comes, if any.  `updateEnemies` visits the planes
of the list in any order, which includes the order of the list.  Two houses can
be hit at once although the model gives them no positions: they are 120 units
apart and a hit reaches 100.

A plane or missile identity is used again once its former bearer has left the
lists: the code never deletes a `Vehicle` and numbers every node from the static
`mCount`, so that a new one is never confused with an old one, and a model with
finitely many identities can do without the numbers.  When the identities run
out no wave comes; the list is bounded in the model where the code has no cap in
the first three minutes of a game.  Formation has the numbers, and Difficulty
what bounds the list in the code.

`mKillCount` and `mBulletCount` are not initialised by the constructor:
`Init` gives them any value of `Garbage`, and the MC modules choose 5, more than
a game of the model can fire.

Left out: sounds, particles, the deformation of the terrain, the lightmap, the
camera and its shake, `updateText`.  They write nothing that is read here.

### Fader

The fade is a record and its operations are operators from fader to fader,
because one step of `Session` makes two calls (`startFadeIn`, then `fade`).
Time is counted in ticks, so that opacity `_alpha = _current_dur / _total_dur`
is an exact fraction and is not stored; the code's is a float quotient of
doubles.  The two callbacks of the end of a fade are empty in this program and
are left out.  So are the failures of the constructor (Fader.cpp:24-28), which
leave members unset, and with them the test of `_tex_unit` (line 65): the
overlay and its material are among the program's media.

### Session

Extends `Battle` and instantiates `Fader` on its own variable `fader`.  Session
decides what Battle leaves open: `StartGame` and `NoReset` become `BeginGame(dt)`
and `KeepFading(dt)`, which count `fadeInTime` and advance the fade; the handlers
of the buttons need the cursor on a button of the sheet that is on the screen and
visible; `EndFrame` and `StopRendering` decide whether there is a next frame.

`fadeInTime` is a function-local static that is only ever compared with
`FADEOUT_TIME`, so it saturates at `FADEOUT_TIME + 1`.  It is never set back:
that is in the model (no action resets it), and `FadesOutFirst` shows what
follows.

`fadeInTime` is a `float` and the fader adds the same frames to a `double`
(FL:206-207, Fader.cpp:87), so that the two times of one fade out differ by what
the float additions round: with frames of 1 ms the double passes one second a
frame before the float does.  The model keeps the double's time exact and lets
each addition to `fadeInTime` be off by up to `Rounding` ticks either way
(`Rounded`, `CountFade`).  `Fader::fade` may then end the fade out while
`mDoFade` is still raised, and for some frames the screen is covered with no
fade running; or the game begins before the fade out has ended.

`cursor` is the button under the CEGUI cursor.  `mouseMoved` injects the centre
of the screen while a game runs; the layouts of both sheets put no button there
and no two buttons at the same place.  That a player drags a window of a sheet
to another place, which CEGUI's frame windows allow, is left out.

`DebugKey` says whether the player presses F5, which calls `gameOver` from the
menu.  It is a leftover for debugging.  The properties that a player without F5
relies on (`GameHasNoButtons`, `GameOverMeansLost`, `ScoreCoversText`,
`OneRowPerGame`) are checked with `DebugKey = FALSE` and are false with it;
everything else is checked with it.

`query.execute()` may fail and its result is ignored; the connection may not
exist.  `HandleSend` therefore inserts the row or not, and shows the menu in
both cases.  The player's name is plain data here and in Leaderboard: the
statement that a name could turn the INSERT into (FL:860-861 puts it in
unescaped) is left out, and one INSERT stores one row.

### GameFlow

The abstract specification of a session, in four variables: what the player is
doing (`menu`, `starting`, `playing`, `lost`), the houses that stand, how many
games there were, and which of them are in the table.  It has four actions:
`Start`, `Begin`, `LoseHouses` (some houses fall; with the last one the game is
lost) and `Leave` (back to the menu, the game sent once or not at all).  Session
implements it, for a player without F5, under the mapping `Phase`: a frame with
its nested loops is a stutter or a loss of houses, and every button is one
action or none.

### SoundManager

A module of its own: battle and session only ever start a sound and forget it,
so that nothing in them depends on it.  It models the class for any caller, as
its header offers it; the game itself makes two sounds at start-up and plays them
with channel variables that live for one call (`NoCaller` plays the same way).
`FrameStarted` and `StopSound` have no caller in this program; what is shown of
them is shown of the class.

| model | code |
|---|---|
| `slots`, `capacity` | `*soundInstanceVector`: the file name and type of each instance (a `Key`), from index 0 |
| `loaded` | the indices whose `fmodSound` is not null |
| `nextSoundInstanceIndex` | the same |
| `channelArray` | `channelArray[c].sceneNode` |
| `prevPosition` | the node whose place is in `channelArray[c].prevPosition`; `NoNode` for the origin that `Clear` writes |
| `playing` | FMOD's side: the sound each channel plays, 0 for none (external) |
| `channelIndex` | the variable a caller passes by address to `PlaySound` and `StopSound` |
| `issued`, `attached` | history only: the indices returned for each key, the node given with the last sound of each channel |

FMOD is external: a channel is chosen among the silent ones, or among all when
none is (`FMOD_CHANNEL_FREE`); loading and playing may fail, and playing a null
sound does; a sound may end at any time.  A position is abstracted to the node
it is the position of.  `Set3DMinMaxDistance`, `GetSoundLength` and the file
callbacks hand distances and bytes on and are left out; `getChannel`
and `isPlaying` are taken to succeed.  Vectors made by `resize` have a capacity
equal to their size, as with the compilers this project builds with; the class
relies on it (`capacity()` bounds its loops over `at()`).

### SoundBoard

The abstract specification of SoundManager: the list of files that have a
number, which of them could be loaded, the numbers handed out, and what is heard
on each channel, a file with a scene node or silence.  It has four actions:
`Reissue` and `Register` a number, `Start` a sound on a channel (on one that is
silent, unless all play) and `End` some.  It knows no capacity, no copy of a
vector and no node that stays in an array after its sound has ended.
SoundManager implements it with `names` the instances in use and `Voice` what
FMOD plays with the node in `channelArray`: the growth of the vector, a sound
that is skipped or fails, and `FrameStarted` are no step at all.

### Difficulty

One step is a frame of the menu, a frame of a game, or the start of a game.
Times are in tenths of a second, the unit in which all limits of the code are
whole numbers.  The two timers are both called `nextSpawn` and are both
function-local statics, so that a game starts with whatever time the last one
left; `menuNextSpawn` and `nextSpawn` here.  A time that is only compared
saturates one above the largest limit it is compared with.  `fleet` is
`gVehicles.size()`; how many planes were shot down in a frame is a choice, at
most those there are.  `waves` is history.  `tick` is a bit that changes with
every frame: when a frame changes nothing else (the cap holds the wave back and
all times are saturated), fairness must still mean that frames go on, not that
something changes.

### Formation

The planes as objects, in the order of `gVehicles`, which is that of their
numbers because `push_back` puts a new one last.

| model | code |
|---|---|
| `mCount`, `nodes`, `refused` | the static counter; the names given to `createChildSceneNode`; whether it has thrown |
| `heap`, `gVehicles` | planes allocated; planes in the list |
| `bombers`, `mLeader`, `mCurrentWayPoint`, `mDead`, `mMissiles` | members of the plane and of its `mSteeringBehavior` |
| `placed` | planes that were moved at least once, and so have a node with a position |
| `todo`, `pc` | the rest of the loop over the list; which loop |

`removeChild` detaches a node and destroys nothing, so that names are never
free again and planes never deleted until the destructor of the application
deletes those still in the list.  Left to choice: whether a plane has come to its
waypoint, whether it fires, which missiles land, and which planes are hit.

### Leaderboard

Several running games (`Client`), each with its connection, on one table.  Every
call to the client library that reaches the server is a step of its own, so that
between them other games write and the connection is lost.

| model | code |
|---|---|
| `pc` | the screen (`menu`, `form`) or the call that has not returned (`connect`, `insert`, `populate`, `fetch`) |
| `is_connected_` | `DBDriver::is_connected_`, which `connected()` returns: a connect succeeded |
| `link` | whether the server can still be reached (external) |
| `res` | the rows of the `use()` query not fetched yet |
| `shown`, `notice` | the rows and the message in the list box |
| `scores` | the table, a row being a game of a client |

The connection is made without exceptions (FL:5) and never again; `connected()`
only says that it was made (`dbdriver.h:108-114`), although `connection.h:217-219`
recommends it to test whether it is still up, and `handleSend` and
`populateLeaderboard` use it so.  Every statement may fail, on a connection that
is gone and on one that is up, where the server refuses or aborts it:

- an INSERT is refused, stored, or stored with its answer lost;
- a SELECT is answered (`Answered`) or not (`SelectRefused`: `query.use()` is
  false at FL:583, and `populateLeaderboard` ends with the list it has emptied);
- a result is fetched to its end (`FetchEnd`) or breaks off between any two rows
  (`FetchFails`): `fetch_row` returns the same falsy row for both.  Rows the
  library has received are still delivered when the connection is gone.

`whole` is history: the last SELECT was answered to its end.  The program does
not know it.

## 3. What the runs show

| run | question | instance |
|---|---|---|
| `fader` | Is the opacity legal and the overlay right for all durations and frame times? | durations -3..5, frames of 0..3 ticks, starts at any time |
| `battle` | Do lists, scene nodes, billboards and counters stay consistent through the nested loops? | 2 planes, 2 missiles, 2 houses, 2 bullets, waves of 1 and 2, F5, 2 games |
| `battle_live` | Does every call of `frameStarted` return? | the same with 1 house and 1 game |
| `session` | What may a player without F5 rely on across menus, fades, games and scores?  Does all of it come to what GameFlow says? | 1 plane, 1 missile, 2 houses, 2 bullets, 2 games, frames shorter and longer than a fade |
| `session_live` | Is Session an implementation of Battle, that is, is a game never reset while it runs, with F5 too?  Do start, fade in and quit lead to what they promise? | 1 of each, 2 games |
| `sounds` | Do indices, instances and channels stay right through growth, failed loads, sounds that end and channels that are taken away?  Does all of it come to what SoundBoard says? | 4 keys in a vector of 2 that grows by 1, 2 channels, 2 nodes, 2 callers |
| `difficulty` | How many waves and planes can a game bring?  Is a player always attacked again? | frames of 1.5 s and 4.5 s, 0 or 4 planes downed in a frame, games of any length |
| `formation` | Are names unique, pointers readable, leaders placed first, waypoint indices in range? | 7 numbers, paths of 2 and 1 waypoints |
| `leaderboard` | What can a player believe of the list he sees?  Do his clicks return? | 2 clients, 2 games each, connections lost anywhere, any statement refused, results broken off anywhere |
| `find_...` | three sentences of the repository that the program does not keep | 1 plane, 2 bullets, 2 games; 2 keys, 2 channels |

Bounds.  Two planes are the fewest with which the loop of `updateEnemies` has a
"before" and an "after" the erased one, and two missiles the same for the inner
loop; two bullets make `mBullets` and the billboards long enough for a removal
in the middle to shift an index; two houses are the fewest with which a hit may
or may not end the game; two games are the fewest with which something can be
carried from one to the next.  `MaxShots` bounds the shots of one game,
`MaxGames` the calls of `ResetGame`, `MaxRows` the table of scores.  In
`session` the frames are of 0, 1 and 3 ticks and a fade of 2, so that a fade can
be stepped through, ended exactly, and overshot by one frame.  `Rounding` is 1
tick: a frame of 1 can be lost on `fadeInTime` or count twice, so that it and
the fader pass the time of the fade out in either order, any number of frames
apart.  `Rounding` is 0 in the runs of findings, whose counterexamples owe
nothing to it.  In `sounds` four
keys make a vector of 2 grow three times, and two channels are too few for two
callers and a third who passes no variable.  In `difficulty` the frames are
shorter than every interval of a game and longer than every one; a frame of
length 0, which only the first one of the program can have, changes nothing that
this module is about.  Seven numbers in `formation` are a formation of five
planes and two missiles, or with the pair of a game that follows; paths of 2 and
1 waypoints stand for 6 and 4: the index wraps in both, and in one of them at
the length a follower has.  In `leaderboard` two clients interleave, and two
games each make four rows: a player can have one row saved long ago and one
just now with another player's between them, and a list can break off before
any of them.  The proofs need
none of these bounds.

Symmetry is used in the runs of safety properties only.  Deadlock is checked in
`fader`, `battle`, `battle_live`, `sounds` and `difficulty`; in Session and
Formation rendering may stop, and in Leaderboard the players may.

Fairness.  `frameStarted` is straight-line code run by the one thread, so the
steps of a frame are weakly fair (`SceneStep`, the end of the frame, the test
for quit).  Nothing the player does is fair.  `session_live` needs time to
pass: its frames are of 2 and 5 ticks and its fades of 3, with a `Rounding` of 1: no
frame is of 0, because OGRE's `timeSinceLastFrame` is positive for all but the
first, and none is rounded to nothing, because next to a sum of about one second
a float loses no frame longer than a tenth of a microsecond.  No run assumes
that a missile lands or that a bullet leaves the world, since the fairness of a
loop does not give that.  `difficulty` assumes that frames go on (`WF(Frame)`),
not that games are started or planes shot.  `leaderboard` assumes that a call
to the client library returns, in the end with an error (`WF(Handler)` for each
client), and neither that the server answers nor that the player clicks.

`BattleAssumption`, `SessionAssumption`, `FaderAssumption`, `SoundAssumption`,
`DifficultyAssumption`, `FormationAssumption` and `LeaderboardAssumption` are all
the modules ask of their constants; TLC evaluates them in every run.

## 4. What is proved

TLAPS proves, for all values of the constants that satisfy the assumptions:

| theorem | says |
|---|---|
| `BattleProofs!BattleTypeIsOK`, `SessionProofs!SessionTypeIsOK`, `TypeIsOK` of the others | the types |
| `BattleProofs!BillboardsAlwaysAligned` | the billboards are the bullets, in their order, and the index is that of the iterator |
| `BattleProofs!IteratorsAlwaysValid` | no loop visits an erased element |
| `BattleProofs!MissileNodesAlwaysOwned` | missile nodes are exactly those of listed planes |
| `BattleProofs!HouseAlwaysStands` | a running game has a house |
| `BattleProofs!KillsAlwaysCovered` | kills plus bullets in flight never exceed shots plus inherited bullets |
| `BattleProofs!FramesShrink` | if `Vehicle` and `Missile` are finite: every step of a frame before the input makes `StepsLeft` smaller |
| `BattleProofs!NewGamesAreClean` | a game begins with no plane, missile, missile node or dead house of the one before |
| `SessionProofs!SessionImplementsBattle` | `SessionSpec => Spec` of Battle |
| `SessionProofs!SessionIsSafe` | so Session has all of the above |
| `SessionProofs!SessionFramesShrink` | and its frames shrink and its games begin clean |
| `SessionProofs!ScreenNeverLeftCovered` | a covered screen has a fade that runs or a game still to begin, for any `Rounding` |
| `SessionProofs!SessionOpacityLegal` | the opacity of the fade is legal in every session |
| `SessionProofs!AlwaysFadesOutForStart` | a fade out is for a start; while a start is pending the screen is covered and no fade in runs |
| `SessionProofs!StartIsAlwaysCounted` | a pending start stays pending and its time is counted, as floats round it, until its game begins |
| `SessionProofs!CoverIsAlwaysLifted` | a fade in is disturbed by a new start alone, shortened by every frame, and uncovers the screen at its end |
| `SessionProofs!QuitIsAlwaysObeyed` | no frame begins after a click on quit, and nothing happens after the end of rendering |
| `PlayerProofs!NoButtonsInAGame`, `GameOverAlwaysMeansLost`, `ScoreAlwaysCoversText`, `AlwaysOneRowPerGame` | if `DebugKey = FALSE`: what the player relies on |
| `PlayerProofs!SessionImplementsGameFlow` | if `DebugKey = FALSE`: `SessionSpec => FlowSpec` under the mapping |
| `FaderProofs!OpacityAlwaysLegal`, `OnlyFadeInUncoversHolds` | the fade |
| `SoundManagerProofs!IndicesAlwaysStable`, `SlotsAlwaysInOrder`, `AlwaysOncePerKey` | the vector of sounds, for any initial size and growth |
| `SoundManagerProofs!SoundAlwaysKeepsItsNode`, `VelocityAlwaysOwn` | a playing sound is recorded with its own node, and its velocity computed from that node's place |
| `SoundManagerProofs!SoundManagerImplementsBoard` | `Spec => BoardSpec` under the mapping |
| `DifficultyProofs!WavesArePaced`, `FleetIsBounded` | the waves of the first three minutes and the number of planes, for frames of any length |
| `DifficultyProofs!WavesAlwaysKeepUp` | with frames of at most `D`: a game of age `t` within three minutes has had so many waves that `t <= (41 + D) * waves + nextSpawn` |
| `DifficultyProofs!SkyAlwaysFills` | under an empty sky a frame brings planes or adds its time to a timer that is within its interval |
| `FormationProofs!NamesAlwaysAccepted`, `PointersAlwaysReadable`, `LeadersAlwaysPlacedFirst` | names, pointers and the order of moves, for any number of planes and waypoints |
| `FormationProofs!PlanesAreAlwaysKept` | the planes allocated are all that were ever made; the end deletes those listed and no other |
| `LeaderboardProofs!OwnScoresAlwaysTold`, `UnsavedIsAlwaysSaid`, `AlwaysSavedAndShownOnce` | the table and the lists, for any number of players and games |
| `LeaderboardProofs!HandlersAlwaysShrink` | a handler goes on, or has a row less to fetch, and no player's step takes another's back |

The inductive invariants:

- `ListInv` (Battle): `TypeOK /\ BillboardsAligned`.  The heart is three lemmas on
  sequences cut at an iterator: overwriting billboard `i` with the bullet at the
  iterator changes nothing (`RepositionAtBoundary`), removing it is removing the
  head of what is ahead (`RemoveAtBoundary`), and passing over a bullet keeps the
  whole (`MoveBoundary`).  They fail as soon as `i` differs from the length of
  what is behind, so that the alignment must be part of the induction.
- `SceneInv`: `IteratorsValid /\ MissileNodesOwned`, with what `pc` says about the
  loop variables.  Ownership alone is not inductive: that a landing missile is
  removed from the plane that owns it follows from `left \subseteq missiles[cur]`.
- `RulesInv`: `SomeHouseStands /\ KillsCovered`, with the fact that a game runs
  only after a reset and that the bullet loop only runs with a game counted.
- `StartInv` (Session): a game is running only when `mDoFade` is down, and a raised
  `mDoFade` leaves a game to count.  `handleStart` does not ask whether a game
  runs; the invariant shows why it need not: the menu's buttons are hidden or
  out of the cursor's reach.  With it each step of Session is a step of Battle
  or a stutter.
- `FadeInv`: `NeverLeftCovered` with `FadesOutForStart`, because a fade out that
  ends leaves the screen covered, which is only right if the start it was for
  is still pending.  It speaks of no time: which of the two times of a fade out
  is ahead is not an invariant of the code.
- `MenuInv` (Session without F5): the three properties of sheets and counters, with
  the facts that the sheet is the main menu and no loop of a game runs while
  `mDoFade` is raised, and that inside the loops the game runs or has just been
  lost.  The last one is needed because a second missile of the same frame can
  call `gameOver` again.  TLC checks all parts that name a property; the rest was
  found by asking why `ResetGame`, which hides only the main menu, never runs
  under the GameOver sheet.
- `RowInv`: a game that runs or is being looked at has no row yet, and no row is of
  a later game.
- `FaderInv`: the alpha of a running fade is in `[0, 1]` after every step, which
  is why the texture, given the alpha of before, never sees another.

- `VectorInv` (SoundManager): `IndicesStable`, `SlotsUsedInOrder`, `OncePerKey` and
  `nextSoundInstanceIndex < capacity`.  An issued index is only safe because it
  is in use, hence below the index the next sound is written to
  (`SlotsUsedInOrder`), and the vector has room for that one (`GrownHasRoom`).
- `ChannelInv`: `SoundKeepsItsNode` and `VelocityIsOwn` with the types of the
  channels; a sound that plays is a loaded one, which needs that instances are
  never unloaded.

- `FlowStutters`, `LandsFlows`, `StepFlows` (GameFlow): under `MenuInv` every
  step of Session leaves the mapped variables alone or is one of the four
  actions. `Phase` reads three variables, so that the invariant is needed to
  know that `ResetGame` finds `starting` and not `lost`.
- `Inv` (Difficulty): in each minute of a game, the intervals of its waves but
  the first, plus what `nextSpawn` holds, are no more than the game's age.  The
  timer must be part of it: without it a frame with no wave would have nothing
  to say about the next.  The inherited timer is worth one wave, which is the
  "but the first". With `FleetIsOfWaves` (until the third minute a plane came
  with a wave) this bounds the list by 2 x 66 planes, and the caps keep it below
  that afterwards and in the menu.
- `Inv` (Formation): `NamesCounted` (a plane's number is below `mCount`, a
  missile's at most `mCount`) makes the two ways of counting compatible;
  `Unborn`, that nothing is set yet for numbers to come; `PlacedInTurn` and
  `LeadersAhead`, that what the loop has passed is placed and that a leader is
  before its followers or was placed before it left.
- `LeaderboardInv`: for each player, what his connection (`Offline`), the message
  (`Notices`), his games (`Games`) and his list with the rows still to be fetched
  (`Lists`) have to do with the table.  `OwnScoresAreTold` is not inductive
  because it speaks of the menu only: while rows are fetched, those shown and
  those to come together are his rows of the table, which holds although others
  insert, since only he adds his own.

- `BoardInv`: `VectorInv` and `ChannelInv` together, because `Voice` reads both
  the vector and the channels.  What plays is loaded (`SoundKeepsItsNode`),
  what is loaded is in use (`SlotsUsedInOrder`), and `Copied` keeps what is in
  use: so a new vector changes nothing that is heard (`LoadRegisters`).  That a
  channel is silent exactly when FMOD plays nothing on it (`VoiceIsHeard`) is
  what `Start` needs of FMOD's choice.  `NumberedAppends` turns the new
  instance into an `Append` to the list of files.

Only model-checked: the liveness properties.  Fairness and what follows from it
are beyond the prover, but what a step must do for them to hold is not, and is
proved as action properties:

| checked by TLC | its safety half, proved |
|---|---|
| `FrameTerminates` | `FrameShrinks`: outside the input phase the natural number `StepsLeft` falls.  It weighs the part of the frame, the turns of `updateEnemies` to come with the missiles each may have to visit, and the bullets ahead |
| `StartLeadsToGame` | `StartIsCounted` |
| `CoverGoesAway` | `CoverIsLifted` |
| `QuitStops` | `QuitIsObeyed` |
| `PlayerIsAttacked` | `SkyFills` |
| `HandlersReturn` | `HandlersShrink`, lexicographic: the part of the handler, then the rows to fetch |

What is left to TLC is that the steps are taken at all, and that their times add
up.  The sets of planes and missiles must be finite for `StepsLeft` to be a
number; the lists of the program are.  `WavesKeepUp` needs a bound on the length
of a frame, a hypothesis of the theorem and of nothing else, because a long
frame sends one wave and not several.  These action properties, `NewGameIsClean`,
`WavesKeepUp` and `PlanesAreKept` are defined in the modules of their proofs and
in no run; TLC was asked about each on the instances of section 3 before it was
proved.

No module with a theorem has a recursive operator.

## 5. What the program does not keep

Each of these is a run that ends in a counterexample, in `SessionFindings` or
`SoundFindings`.

- `AccuracyIsAPercentage`: `ResetGame` does not clear `mBullets`.  Bullets left
  from one game fly on in the next, where their hits count and their shots do not:
  an accuracy of 200 %.
- `FadesOutFirst`: `fadeInTime` is never set back, so that from the second game on
  the game begins in the first frame after the click, without a fade out.
- `ChannelsAreAboveZero`: `StopSound` and `GetSoundChannel` assert that a channel is
  above 0; `PlaySound` hands out channel 0.

The models show four more things that are odd, and that no property is stated of:

- The hit test (FL:435) does not ask `isDead()`: a second bullet in the box of a
  plane killed in the same frame counts a second kill.  `KillsCovered` still
  bounds the kills by the bullets.
- `gameOver` writes its text from inside `updateEnemies`; `updateBullets` of the
  same frame can still raise the kill count, which `handleSend` then stores.
  `ScoreCoversText` says what remains true: the stored count is at least the one
  shown.
- `CreateSound` reports a failed load once; the instance stays filled in, and the
  next request for the file returns its index.
- A connection that was lost is never noticed: the list is emptied, no message
  is shown, and scores are not saved for the rest of the session.  A SELECT that
  the server refuses, or a result that breaks off, on a connection that is up
  looks the same: an empty list or a part of one, without a message, and a
  player may see none of his saved scores.  `UnsavedIsSaid`, `OwnScoresAreTold`
  and `SavedAndShownOnce` say what holds: the message is shown exactly when
  there never was a connection, a list that was answered to its end has all the
  player's saved scores, and any list has only rows that were saved, each once.

## 6. Not modelled

- House placement (`initBase`, FL:86-139): the positions are drawn until eight are
  120 units apart.  That they are apart is the test in the loop itself; that the
  loop ends is a matter of probability (seven houses can be placed so that no
  eighth fits, and random draws practically never do), for which TLA+ has no notion.
- Terrain and lightmap, particles, the camera, scene construction: straight-line
  calls into libraries and floating-point images; nothing in the program reads
  them back but the height of the ground, which is a choice in Battle.
- The forces of steering, and so whether planes reach their waypoints or
  followers their leader: continuous geometry.  `pursuit` has no caller.
- The libraries under `src/BaseCommand/lib`, which are more than nine tenths of the
  repository's lines: data tables (the star catalogue of Caelum, character
  types of MySQL), headers of FMOD and MySQL whose code is not in the
  repository, generated templates (`ssqls.h`), and the sources of Caelum,
  PagedGeometry, ETM and MySQL++.  They are modelled where the program depends on
  what they do (channels of FMOD, names of scene nodes, connection, query and
  result of MySQL++).  What is hard in the rest does not happen here: the pages of
  PagedGeometry are loaded and dropped around a camera that moves, and this
  program's camera only turns; the pools, transactions and exceptions of
  MySQL++ are not used.

What the plan had is done: Difficulty, Formation (planned as `Vehicle` and
`Steering`), GameFlow and their proofs, and Leaderboard and SoundBoard, which
were not planned.
