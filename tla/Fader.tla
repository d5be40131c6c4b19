-------------------------------- MODULE Fader --------------------------------
(***************************************************************************)
(* The full-screen fade of src/BaseCommand/src/Fader.cpp: an overlay whose  *)
(* opacity runs from 1 to 0 (fade in) or from 0 to 1 (fade out).            *)
(*                                                                          *)
(* Time is counted in ticks.  The member _alpha is always                   *)
(* _current_dur / _total_dur, so it is not a field of its own; the value    *)
(* last given to the texture, which is the alpha from BEFORE the update of  *)
(* the same frame, is kept as the fraction tex.num / tex.den.               *)
(*                                                                          *)
(* The operations are operators from a fader to a fader, so that a caller   *)
(* that makes two calls in one step (Session) can compose them.             *)
(***************************************************************************)
EXTENDS Integers

CONSTANTS
  Durations,       \* the durations a caller may ask for, possibly <= 0
  Elapsed,         \* the values timeSinceLastFrame takes
  DefaultDuration  \* the 1.0 that replaces a duration of zero

ASSUME FaderAssumption ==
  /\ Durations \subseteq Int
  /\ Elapsed \subseteq Nat
  /\ DefaultDuration \in Nat \ {0}

VARIABLE fader

-----------------------------------------------------------------------------

\* The state the constructor leaves: no fade, the overlay hidden.
NewFader == [op |-> "NONE", cur |-> 0, total |-> DefaultDuration,
             tex |-> [num |-> 0, den |-> DefaultDuration], overlay |-> FALSE]

\* Mutant: a duration of zero is passed on.
NormalisedNoDefault(d) == IF d < 0 THEN -d ELSE d

\* A negative duration is negated, a zero one replaced.
Normalised(d) == IF d = 0 THEN DefaultDuration ELSE IF d < 0 THEN -d ELSE d

StartFadeIn(f, d) ==
  [op |-> "IN", total |-> Normalised(d), cur |-> Normalised(d),
   tex |-> f.tex, overlay |-> TRUE]

StartFadeOut(f, d) ==
  [op |-> "OUT", total |-> Normalised(d), cur |-> 0,
   tex |-> f.tex, overlay |-> TRUE]

\* Mutant: the end of a fade in leaves the overlay.
FadeInStepStays(f, dt) ==
  [op |-> IF f.cur - dt < 0 THEN "NONE" ELSE "IN",
   total |-> f.total, cur |-> f.cur - dt,
   tex |-> [num |-> f.cur, den |-> f.total],
   overlay |-> f.overlay]

\* Fader::fade.  The texture gets the alpha of before this frame; the fade
\* ends when the new alpha leaves [0, 1].  Only a fade in hides the overlay.
FadeInStep(f, dt) ==
  [op |-> IF f.cur - dt < 0 THEN "NONE" ELSE "IN",
   total |-> f.total, cur |-> f.cur - dt,
   tex |-> [num |-> f.cur, den |-> f.total],
   overlay |-> f.cur - dt >= 0]

\* Mutant: the end of the fade is looked for before the update.
FadeOutStepLate(f, dt) ==
  [op |-> IF f.cur > f.total THEN "NONE" ELSE "OUT",
   total |-> f.total, cur |-> f.cur + dt,
   tex |-> [num |-> f.cur, den |-> f.total],
   overlay |-> f.overlay]

\* Mutant: the end of a fade out hides the overlay as that of a fade in does.
FadeOutStepHides(f, dt) ==
  [op |-> IF f.cur + dt > f.total THEN "NONE" ELSE "OUT",
   total |-> f.total, cur |-> f.cur + dt,
   tex |-> [num |-> f.cur, den |-> f.total],
   overlay |-> f.cur + dt <= f.total]

FadeOutStep(f, dt) ==
  [op |-> IF f.cur + dt > f.total THEN "NONE" ELSE "OUT",
   total |-> f.total, cur |-> f.cur + dt,
   tex |-> [num |-> f.cur, den |-> f.total],
   overlay |-> f.overlay]

Fade(f, dt) == CASE f.op = "NONE" -> f
                 [] f.op = "IN"   -> FadeInStep(f, dt)
                 [] f.op = "OUT"  -> FadeOutStep(f, dt)

-----------------------------------------------------------------------------

Init == fader = NewFader

CallStartFadeIn  == \E d \in Durations : fader' = StartFadeIn(fader, d)
CallStartFadeOut == \E d \in Durations : fader' = StartFadeOut(fader, d)
CallFade         == \E dt \in Elapsed : fader' = Fade(fader, dt)

Next == CallStartFadeIn \/ CallStartFadeOut \/ CallFade

Spec == Init /\ [][Next]_fader

-----------------------------------------------------------------------------

TypeOK ==
  fader \in [op : {"NONE", "IN", "OUT"}, cur : Int, total : Nat \ {0},
             tex : [num : Nat, den : Nat \ {0}], overlay : BOOLEAN]

\* While a fade runs its alpha is a legal opacity, whatever the durations and
\* the frame times were; the texture is never given anything else.
OpacityLegal ==
  /\ fader.op # "NONE" => fader.cur \in 0..fader.total
  /\ fader.tex.num \in 0..fader.tex.den

\* The overlay goes away only when a fade in ends: a fade out, however long
\* its last frame, leaves the screen covered until the next fade in.
OnlyFadeInUncovers ==
  [][fader.overlay /\ ~fader'.overlay
       => fader.op = "IN" /\ fader'.op = "NONE"]_fader
==============================================================================
