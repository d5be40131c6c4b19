------------------------------- MODULE Session -------------------------------
(***************************************************************************)
(* A run of the program from the constructor of BaseCommandFrameListener to *)
(* the end of rendering: Battle, with what decides when a game starts and   *)
(* ends.  The start button raises mDoFade and starts a fade out; the frames *)
(* count fadeInTime up to FADEOUT_TIME, then reset the game and start a     *)
(* fade in; the buttons of the two GUI sheets are reached with the cursor,  *)
(* which a game holds in the centre of the screen.                          *)
(***************************************************************************)
EXTENDS Battle

CONSTANTS
  FADEIN_TIME, FADEOUT_TIME,  \* in ticks
  Elapsed,                    \* the values of timeSinceLastFrame, in ticks
  Rounding                    \* bound: ticks that adding two floats is off

ASSUME SessionAssumption ==
  /\ FADEIN_TIME \in Nat \ {0} /\ FADEOUT_TIME \in Nat \ {0}
  /\ Elapsed \subseteq Nat
  /\ Rounding \in Nat

VARIABLES
  mDoFade,
  fadeInTime,  \* the function-static counter of frameStarted
  fader,       \* *mFader
  cursor,      \* the button under the CEGUI cursor, or "centre" for none
  mQuitting,
  running      \* the render loop goes on

fadeVars    == <<mDoFade, fadeInTime, fader>>
sessionVars == <<fadeVars, cursor, mQuitting, running>>
allVars     == <<battleVars, sessionVars>>

F == INSTANCE Fader WITH Durations <- {FADEIN_TIME, FADEOUT_TIME},
                         DefaultDuration <- FADEIN_TIME

-----------------------------------------------------------------------------

SessionInit ==
  /\ Init
  /\ mDoFade = FALSE /\ fadeInTime = 0
  /\ fader = F!NewFader
  /\ cursor = "centre"
  /\ mQuitting = FALSE /\ running = TRUE

\* Only whether the counter exceeds FADEOUT_TIME is ever asked: it saturates.
Counted(t) == IF t > FADEOUT_TIME THEN FADEOUT_TIME + 1 ELSE t

\* What adding a frame of dt ticks to a float may add.  The fader adds the same
\* frames as doubles, so that the two times of one fade out drift apart.
Rounded(dt) ==
  IF dt = 0 THEN {0}
  ELSE {t \in 0..(dt + Rounding) : t >= dt - Rounding}

\* fadeInTime += timeSinceLastFrame.
CountFade(dt) == \E t \in Rounded(dt) : fadeInTime' = Counted(fadeInTime + t)

\* Whether this frame, once counted, ends the time of the fade out.
FadeOutOver == fadeInTime' > FADEOUT_TIME

\* Mutant: mDoFade is not lowered.
BeginGameAgain(dt) ==
  /\ pc = "fade" /\ mDoFade
  /\ CountFade(dt) /\ FadeOutOver
  /\ ResetGame
  /\ fader' = F!Fade(F!StartFadeIn(fader, FADEIN_TIME), dt)
  /\ pc' = "input"
  /\ UNCHANGED <<mDoFade, cursor, mQuitting, running>>

\* Mutant: the fade in is forgotten.
BeginGameCovered(dt) ==
  /\ pc = "fade" /\ mDoFade
  /\ CountFade(dt) /\ FadeOutOver
  /\ ResetGame
  /\ mDoFade' = FALSE
  /\ fader' = F!Fade(fader, dt)
  /\ pc' = "input"
  /\ UNCHANGED <<cursor, mQuitting, running>>

\* The end of frameStarted when the fade out has had its time.  The counter is
\* not set back.
BeginGame(dt) ==
  /\ pc = "fade" /\ mDoFade
  /\ CountFade(dt) /\ FadeOutOver
  /\ ResetGame
  /\ mDoFade' = FALSE
  /\ fader' = F!Fade(F!StartFadeIn(fader, FADEIN_TIME), dt)
  /\ pc' = "input"
  /\ UNCHANGED <<cursor, mQuitting, running>>

\* Mutant: the time is subtracted, as in a fade in.
KeepFadingBackwards(dt) ==
  /\ pc = "fade"
  /\ IF mDoFade THEN fadeInTime' = Counted(fadeInTime - dt) /\ ~FadeOutOver
     ELSE UNCHANGED fadeInTime
  /\ fader' = F!Fade(fader, dt)
  /\ NoReset
  /\ UNCHANGED <<mDoFade, cursor, mQuitting, running>>

\* Mutant: the time is not counted.
KeepFadingUncounted(dt) ==
  /\ pc = "fade"
  /\ UNCHANGED fadeInTime
  /\ mDoFade => ~FadeOutOver
  /\ fader' = F!Fade(fader, dt)
  /\ NoReset
  /\ UNCHANGED <<mDoFade, cursor, mQuitting, running>>

\* The end of frameStarted otherwise.  Fader::fade may find its fade out at an
\* end before fadeInTime says so.
KeepFading(dt) ==
  /\ pc = "fade"
  /\ IF mDoFade THEN CountFade(dt) /\ ~FadeOutOver ELSE UNCHANGED fadeInTime
  /\ fader' = F!Fade(fader, dt)
  /\ NoReset
  /\ UNCHANGED <<mDoFade, cursor, mQuitting, running>>

\* mouseMoved: a game injects the centre of the screen, where the layouts of the
\* two sheets put no button.
MoveMouse ==
  /\ running /\ pc = "input"
  /\ cursor' \in IF mGameStart THEN {"centre"}
                 ELSE {"start", "quit", "send", "return", "centre"}
  /\ UNCHANGED <<battleVars, fadeVars, mQuitting, running>>

\* A button takes the click when its sheet is on the screen and visible.
MenuButton(name) == /\ running /\ pc = "input"
                    /\ guiSheet = "MainMenu" /\ menuVisible
                    /\ cursor = name

HandleStart ==
  /\ MenuButton("start")
  /\ game < MaxGames
  /\ IF mDoFade THEN UNCHANGED <<mDoFade, fader>>
     ELSE mDoFade' = TRUE /\ fader' = F!StartFadeOut(fader, FADEOUT_TIME)
  /\ UNCHANGED <<battleVars, fadeInTime, cursor, mQuitting, running>>

HandleQuit ==
  /\ MenuButton("quit")
  /\ mQuitting' = TRUE
  /\ UNCHANGED <<battleVars, fadeVars, cursor, running>>

ClickReturn ==
  /\ running /\ cursor = "return"
  /\ HandleReturn
  /\ UNCHANGED sessionVars

ClickSend ==
  /\ running /\ cursor = "send"
  /\ HandleSend
  /\ UNCHANGED sessionVars

Fire == /\ running
        /\ \E b \in Bullet \ Range(mBullets) : Shoot(b)
        /\ UNCHANGED sessionVars

\* Mutant: only ESC stops rendering at once.
EndFrameQuitting ==
  /\ running
  /\ NextFrame
  /\ UNCHANGED sessionVars

\* frameRenderingQueued returns: the next frame, unless quitting or ESC.
EndFrame ==
  /\ running /\ ~mQuitting
  /\ NextFrame
  /\ UNCHANGED sessionVars

StopRendering(escape) ==
  /\ running /\ pc = "input" /\ (mQuitting \/ escape)
  /\ running' = FALSE
  /\ UNCHANGED <<battleVars, fadeVars, cursor, mQuitting>>

SessionNext ==
  \/ SceneStep /\ UNCHANGED sessionVars
  \/ \E dt \in Elapsed : BeginGame(dt) \/ KeepFading(dt)
  \/ MoveMouse \/ HandleStart \/ HandleQuit
  \/ ClickReturn \/ ClickSend \/ Fire
  \/ EndFrame \/ \E escape \in BOOLEAN : StopRendering(escape)

SessionSpec == SessionInit /\ [][SessionNext]_allVars

\* The thread runs its frames for as long as the program runs; what the player
\* does is not fair.
FairSessionSpec ==
  /\ SessionSpec
  /\ WF_allVars(SceneStep /\ UNCHANGED sessionVars)
  /\ WF_allVars(\E dt \in Elapsed : BeginGame(dt) \/ KeepFading(dt))
  /\ WF_allVars(EndFrame)
  /\ WF_allVars(StopRendering(FALSE))

-----------------------------------------------------------------------------

SessionTypeOK ==
  /\ TypeOK
  /\ mDoFade \in BOOLEAN /\ mQuitting \in BOOLEAN /\ running \in BOOLEAN
  /\ fadeInTime \in 0..FADEOUT_TIME + 1
  /\ F!TypeOK
  /\ cursor \in {"start", "quit", "send", "return", "centre"}

\* The screen is never left covered with nothing to uncover it: a fade out ends
\* on a black screen, perhaps before the float fadeInTime says that it is over,
\* but then the start it was for is still to come and fades in.
NeverLeftCovered == fader.overlay => fader.op # "NONE" \/ mDoFade

\* Without F5, nothing of a sheet can be clicked while a game runs: what the
\* player shoots at is never a button.
GameHasNoButtons == mGameStart => guiSheet = "MainMenu" /\ ~menuVisible

\* Without F5, the GameOver sheet is shown when all the houses are destroyed
\* and stays until the player leaves it: no game starts behind it.
GameOverMeansLost ==
  guiSheet = "GameOver" => deadHouses = House /\ ~mGameStart

\* Without F5, the counters a score is made of are never below those the
\* GameOver sheet shows, and the shots are the same: nothing counts in menus.
ScoreCoversText ==
  guiSheet = "GameOver" =>
    mBulletCount = info.fires /\ mKillCount >= info.kills

\* Without F5, a game is submitted at most once, and only a game that was played.
OneRowPerGame ==
  \A j, k \in 1..Len(scores) :
    /\ scores[j].game > 0
    /\ scores[j].game = scores[k].game => j = k

\* The fade and the buttons only restrict Battle: in particular a game is
\* never reset while it runs, although handleStart and ResetGame do not look.
ImplementsBattle == Spec

\* What GameFlow sees of the program.
Phase == IF mGameStart THEN "playing"
         ELSE IF guiSheet = "GameOver" THEN "lost"
         ELSE IF mDoFade THEN "starting" ELSE "menu"

Flow == INSTANCE GameFlow WITH
          phase <- Phase,
          standing <- House \ deadHouses,
          table <- [k \in 1..Len(scores) |-> scores[k].game]

\* Without F5, the frames, fades, loops and sheets come to what GameFlow
\* promises: a start, a game with all its houses, its loss, one row of it.
ImplementsGameFlow == Flow!FlowSpec

\* Once start has been clicked the game begins, unless the program is stopped.
StartLeadsToGame == mDoFade ~> mGameStart \/ ~running

\* A fade in uncovers the screen, unless another start covers it again or the
\* program is stopped.
CoverGoesAway ==
  fader.op = "IN" ~> ~fader.overlay \/ mDoFade \/ ~running

\* The quit button stops the program.
QuitStops == mQuitting ~> ~running
==============================================================================
