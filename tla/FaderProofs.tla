---------------------------- MODULE FaderProofs ----------------------------
(***************************************************************************)
(* The opacity of the fade is legal for every duration and frame time.      *)
(***************************************************************************)
EXTENDS Fader, TLAPS

\* OpacityLegal is inductive together with the types: the test that ends a
\* fade looks at the alpha it has just computed.
FaderInv == TypeOK /\ OpacityLegal

\* startFadeIn and startFadeOut never divide by zero: what they store as the
\* total duration is positive, whatever they are asked for (Fader.cpp 35-61).
LEMMA NormalisedPositive ==
  ASSUME NEW d \in Int
  PROVE  Normalised(d) \in Nat \ {0}
BY FaderAssumption DEF Normalised

LEMMA InitFader == Init => FaderInv
BY FaderAssumption DEF Init, NewFader, FaderInv, TypeOK, OpacityLegal

LEMMA FadePreserves ==
  ASSUME FaderInv, NEW dt \in Nat, fader' = Fade(fader, dt)
  PROVE  FaderInv'
<1> DEFINE Tex == [num |-> fader.cur, den |-> fader.total]
<1>1. CASE fader.op = "NONE"
  BY <1>1 DEF Fade, FaderInv, TypeOK, OpacityLegal
<1>2. CASE fader.op # "NONE"
  <2>1. /\ fader.total \in Nat \ {0}
        /\ fader.cur \in 0..fader.total
        /\ Tex \in [num : Nat, den : Nat \ {0}]
        /\ Tex.num \in 0..Tex.den
    BY <1>2 DEF FaderInv, TypeOK, OpacityLegal
  <2>2. CASE fader.op = "IN"
    <3>1. fader' = FadeInStep(fader, dt)
      BY <2>2 DEF Fade
    <3>2. fader'.tex = Tex /\ fader'.total = fader.total
          /\ fader'.cur = fader.cur - dt
      BY <3>1 DEF FadeInStep, FaderInv, TypeOK
    <3>3. TypeOK'
      BY <2>1, <3>1 DEF FadeInStep, FaderInv, TypeOK
    <3>4. fader'.op # "NONE" => fader.cur - dt >= 0
      BY <2>1, <3>1 DEF FadeInStep
    <3>5. OpacityLegal'
      BY <2>1, <3>2, <3>3, <3>4 DEF OpacityLegal
    <3> QED
      BY <3>3, <3>5 DEF FaderInv
  <2>3. CASE fader.op = "OUT"
    <3>1. fader' = FadeOutStep(fader, dt)
      BY <2>3 DEF Fade
    <3>2. fader'.tex = Tex /\ fader'.total = fader.total
          /\ fader'.cur = fader.cur + dt /\ fader'.overlay = fader.overlay
      BY <3>1 DEF FadeOutStep, FaderInv, TypeOK
    <3>3. TypeOK'
      BY <2>1, <3>1 DEF FadeOutStep, FaderInv, TypeOK
    <3>4. fader'.op # "NONE" => fader.cur + dt <= fader.total
      BY <2>1, <3>1 DEF FadeOutStep, FaderInv, TypeOK
    <3> QED
      BY <1>2, <2>1, <3>2, <3>3, <3>4 DEF FaderInv, OpacityLegal
  <2> QED
    BY <1>2, <2>2, <2>3 DEF FaderInv, TypeOK
<1> QED
  BY <1>1, <1>2

LEMMA StepFader == FaderInv /\ [Next]_fader => FaderInv'
<1> SUFFICES ASSUME FaderInv, [Next]_fader PROVE FaderInv'
  OBVIOUS
<1>1. CASE CallStartFadeIn
  <2>1. PICK d \in Durations : fader' = StartFadeIn(fader, d)
    BY <1>1 DEF CallStartFadeIn
  <2>2. Normalised(d) \in Nat \ {0}
    BY NormalisedPositive, FaderAssumption
  <2> QED
    BY <2>1, <2>2 DEF StartFadeIn, FaderInv, TypeOK, OpacityLegal
<1>2. CASE CallStartFadeOut
  <2>1. PICK d \in Durations : fader' = StartFadeOut(fader, d)
    BY <1>2 DEF CallStartFadeOut
  <2>2. Normalised(d) \in Nat \ {0}
    BY NormalisedPositive, FaderAssumption
  <2> QED
    BY <2>1, <2>2 DEF StartFadeOut, FaderInv, TypeOK, OpacityLegal
<1>3. CASE CallFade
  BY <1>3, FadePreserves, FaderAssumption DEF CallFade
<1>4. CASE UNCHANGED fader
  BY <1>4 DEF FaderInv, TypeOK, OpacityLegal
<1> QED
  BY <1>1, <1>2, <1>3, <1>4 DEF Next

\* For every set of durations and frame times, the alpha of a running fade and
\* of the texture stays in [0, 1]: Fader::fade (63-97) ends a fade in the very
\* frame that would take it outside.
THEOREM OpacityAlwaysLegal == Spec => []OpacityLegal
<1>1. FaderInv => OpacityLegal
  BY DEF FaderInv
<1> QED
  BY <1>1, InitFader, StepFader, PTL DEF Spec

\* The fader stays a fader; its total duration above all stays positive.
THEOREM TypeIsOK == Spec => []TypeOK
<1>1. FaderInv => TypeOK
  BY DEF FaderInv
<1> QED
  BY <1>1, InitFader, StepFader, PTL DEF Spec

\* Only the end of a fade in takes the overlay away.
THEOREM OnlyFadeInUncoversHolds == Spec => OnlyFadeInUncovers
<1>1. FaderInv /\ [Next]_fader
        => [fader.overlay /\ ~fader'.overlay
              => fader.op = "IN" /\ fader'.op = "NONE"]_fader
  <2> SUFFICES ASSUME FaderInv, Next, fader.overlay, ~fader'.overlay
               PROVE  fader.op = "IN" /\ fader'.op = "NONE"
    OBVIOUS
  <2>1. ~CallStartFadeIn /\ ~CallStartFadeOut
    BY DEF CallStartFadeIn, CallStartFadeOut, StartFadeIn, StartFadeOut,
           FaderInv, TypeOK
  <2>2. PICK dt \in Elapsed : fader' = Fade(fader, dt)
    BY <2>1 DEF Next, CallFade
  <2>3. fader.op # "NONE" /\ fader.op # "OUT"
    BY <2>2 DEF Fade, FadeOutStep, FaderInv, TypeOK
  <2>4. fader' = FadeInStep(fader, dt) /\ fader.op = "IN"
    BY <2>2, <2>3 DEF Fade, FaderInv, TypeOK
  <2> QED
    BY <2>4, FaderAssumption DEF FadeInStep, FaderInv, TypeOK
<1> QED
  BY <1>1, InitFader, StepFader, PTL DEF Spec, OnlyFadeInUncovers
============================================================================
