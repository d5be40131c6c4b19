----------------------------- MODULE BattleProofs -----------------------------
(***************************************************************************)
(* The safety properties of Battle for any number of planes, missiles,      *)
(* houses and bullets.  Three inductive invariants are built on each other: *)
(* the types with the alignment of bullets and billboards, the ownership of *)
(* missile nodes with the validity of the iterators, and the rules of the   *)
(* game.  On them rest two facts about steps: a frame has a number of steps *)
(* left that falls, and a new game finds nothing of the last one but the    *)
(* bullets in flight.                                                       *)
(***************************************************************************)
EXTENDS Battle, SequenceTheorems, FiniteSetTheorems, TLAPS

-----------------------------------------------------------------------------
(* Erasing at the iterator: the sequence operations of updateBullets        *)

\* Writing the position of the bullet at the iterator into the billboard of
\* the same index changes nothing when the two are aligned.
LEMMA RepositionAtBoundary ==
  ASSUME NEW S, NEW s \in Seq(S), NEW t \in Seq(S), t # <<>>
  PROVE  [(s \o t) EXCEPT ![Len(s) + 1] = Head(t)] = s \o t
<1> DEFINE st == s \o t
           u == [st EXCEPT ![Len(s) + 1] = Head(t)]
<1>1. /\ st \in Seq(S) /\ Len(st) = Len(s) + Len(t)
      /\ \A k \in 1..Len(s) + Len(t) :
           st[k] = IF k <= Len(s) THEN s[k] ELSE t[k - Len(s)]
  BY ConcatProperties
<1>2. Len(s) \in Nat /\ Len(t) \in Nat \ {0} /\ Head(t) \in S /\ Head(t) = t[1]
  BY EmptySeq, LenProperties, HeadTailProperties
<1>3. Len(s) + 1 \in 1..Len(st)
  BY <1>1, <1>2
<1>4. /\ u \in Seq(S) /\ Len(u) = Len(st)
      /\ \A k \in 1..Len(st) :
           u[k] = IF k = Len(s) + 1 THEN Head(t) ELSE st[k]
  <2> HIDE DEF st
  <2> QED
    BY <1>1, <1>2, <1>3, ExceptSeq
<1>5. st[Len(s) + 1] = t[1]
  BY <1>1, <1>2
<1>6. \A k \in 1..Len(u) : u[k] = st[k]
  <2> HIDE DEF u, st
  <2> QED
    BY <1>2, <1>4, <1>5
<1> HIDE DEF u, st
<1>7. u = st
  BY <1>1, <1>4, <1>6, SeqEqual
<1> QED
  BY <1>7 DEF u, st

\* Removing that billboard leaves the bullets without the one at the iterator.
LEMMA RemoveAtBoundary ==
  ASSUME NEW S, NEW s \in Seq(S), NEW t \in Seq(S), t # <<>>
  PROVE  RemoveAt(s \o t, Len(s) + 1) = s \o Tail(t)
<1> DEFINE st == s \o t
           u == SubSeq(st, 1, Len(s))
           w == SubSeq(st, Len(s) + 2, Len(s) + Len(t))
<1>1. /\ st \in Seq(S) /\ Len(st) = Len(s) + Len(t)
      /\ \A k \in 1..Len(s) + Len(t) :
           st[k] = IF k <= Len(s) THEN s[k] ELSE t[k - Len(s)]
  BY ConcatProperties
<1>2. /\ Len(s) \in Nat /\ Len(t) \in Nat \ {0}
      /\ Tail(t) \in Seq(S) /\ Len(Tail(t)) = Len(t) - 1
      /\ \A k \in 1..Len(Tail(t)) : Tail(t)[k] = t[k + 1]
  BY EmptySeq, LenProperties, HeadTailProperties
<1>3. \A k \in 1..Len(st) : st[k] \in S
  BY <1>1, ElementOfSeq
<1> HIDE DEF st
<1>4. /\ u \in Seq(S) /\ Len(u) = Len(s)
      /\ \A k \in 1..Len(s) : u[k] = st[k]
  <2>1. \A k \in 1..Len(s) : st[k] \in S
    BY <1>1, <1>2, <1>3
  <2>2. /\ SubSeq(st, 1, Len(s)) \in Seq(S)
        /\ Len(SubSeq(st, 1, Len(s))) = IF 1 <= Len(s) THEN Len(s) - 1 + 1 ELSE 0
        /\ \A k \in 1..(Len(s) - 1 + 1) :
             SubSeq(st, 1, Len(s))[k] = st[1 + k - 1]
    BY <1>2, <2>1, SubSeqProperties
  <2> QED
    BY <1>2, <2>2
<1>5. u = s
  <2>1. \A k \in 1..Len(s) : u[k] = s[k]
    BY <1>1, <1>2, <1>4
  <2> HIDE DEF u
  <2> QED
    BY <1>4, <2>1, SeqEqual
<1>6. /\ w \in Seq(S) /\ Len(w) = Len(t) - 1
      /\ \A k \in 1..Len(t) - 1 : w[k] = st[Len(s) + 1 + k]
  <2> DEFINE lo == Len(s) + 2
             hi == Len(s) + Len(t)
  <2>1. lo \in Int /\ hi \in Int /\ \A k \in lo..hi : st[k] \in S
    BY <1>1, <1>2, <1>3
  <2>2. /\ SubSeq(st, lo, hi) \in Seq(S)
        /\ Len(SubSeq(st, lo, hi)) = IF lo <= hi THEN hi - lo + 1 ELSE 0
        /\ \A k \in 1..(hi - lo + 1) : SubSeq(st, lo, hi)[k] = st[lo + k - 1]
    <3> HIDE DEF lo, hi
    <3> QED
      BY <2>1, SubSeqProperties
  <2>3. /\ (IF lo <= hi THEN hi - lo + 1 ELSE 0) = Len(t) - 1
        /\ hi - lo + 1 = Len(t) - 1
        /\ \A k \in 1..Len(t) - 1 : lo + k - 1 = Len(s) + 1 + k
    BY <1>2
  <2> QED
    BY <2>2, <2>3
<1>7. w = Tail(t)
  <2>1. \A k \in 1..Len(t) - 1 : w[k] = Tail(t)[k]
    BY <1>1, <1>2, <1>6
  <2> HIDE DEF w
  <2> QED
    BY <1>2, <1>6, <2>1, SeqEqual
<1>8. RemoveAt(st, Len(s) + 1) = u \o w
  <2>1. /\ (Len(s) + 1) - 1 = Len(s) /\ (Len(s) + 1) + 1 = Len(s) + 2
        /\ Len(st) = Len(s) + Len(t)
    BY <1>1, <1>2
  <2> QED
    BY <2>1, Zenon DEF RemoveAt
<1> QED
  BY <1>5, <1>7, <1>8 DEF st

\* Moving the iterator over a bullet keeps the list as a whole.
LEMMA MoveBoundary ==
  ASSUME NEW S, NEW s \in Seq(S), NEW t \in Seq(S), t # <<>>
  PROVE  Append(s, Head(t)) \o Tail(t) = s \o t
<1> DEFINE a == Append(s, Head(t))
<1>1. /\ Len(s) \in Nat /\ Len(t) \in Nat \ {0}
      /\ Head(t) \in S /\ Head(t) = t[1]
      /\ Tail(t) \in Seq(S) /\ Len(Tail(t)) = Len(t) - 1
      /\ \A k \in 1..Len(Tail(t)) : Tail(t)[k] = t[k + 1]
  BY EmptySeq, LenProperties, HeadTailProperties
<1>2. /\ a \in Seq(S) /\ Len(a) = Len(s) + 1
      /\ \A k \in 1..Len(s) : a[k] = s[k]
      /\ a[Len(s) + 1] = t[1]
  BY <1>1, AppendProperties
<1> HIDE DEF a
<1>3. /\ a \o Tail(t) \in Seq(S) /\ Len(a \o Tail(t)) = Len(s) + Len(t)
      /\ \A k \in 1..Len(s) + Len(t) : (a \o Tail(t))[k] =
           IF k <= Len(s) + 1 THEN a[k] ELSE Tail(t)[k - (Len(s) + 1)]
  <2>1. /\ a \o Tail(t) \in Seq(S)
        /\ Len(a \o Tail(t)) = Len(a) + Len(Tail(t))
        /\ \A k \in 1..Len(a) + Len(Tail(t)) : (a \o Tail(t))[k] =
             IF k <= Len(a) THEN a[k] ELSE Tail(t)[k - Len(a)]
    BY <1>1, <1>2, ConcatProperties
  <2>2. Len(a) + Len(Tail(t)) = Len(s) + Len(t)
    BY <1>1, <1>2
  <2> QED
    BY <1>2, <2>1, <2>2
<1>4. /\ s \o t \in Seq(S) /\ Len(s \o t) = Len(s) + Len(t)
      /\ \A k \in 1..Len(s) + Len(t) :
           (s \o t)[k] = IF k <= Len(s) THEN s[k] ELSE t[k - Len(s)]
  BY ConcatProperties
<1>5. ASSUME NEW k \in 1..Len(s) + Len(t)
      PROVE  (a \o Tail(t))[k] = (s \o t)[k]
  <2>1. CASE k <= Len(s)
    BY <1>1, <1>2, <1>3, <1>4, <2>1
  <2>2. CASE k = Len(s) + 1
    BY <1>1, <1>2, <1>3, <1>4, <2>2
  <2>3. CASE k > Len(s) + 1
    <3>1. /\ k - (Len(s) + 1) \in 1..Len(Tail(t))
          /\ (k - (Len(s) + 1)) + 1 = k - Len(s)
      BY <1>1, <2>3
    <3>2. Tail(t)[k - (Len(s) + 1)] = t[k - Len(s)]
      BY <1>1, <3>1
    <3>3. ~(k <= Len(s) + 1) /\ ~(k <= Len(s))
      BY <1>1, <2>3
    <3>4. (a \o Tail(t))[k] = Tail(t)[k - (Len(s) + 1)]
      BY <1>3, <3>3, Zenon
    <3>5. (s \o t)[k] = t[k - Len(s)]
      BY <1>4, <3>3, Zenon
    <3> QED
      BY <3>2, <3>4, <3>5, Zenon
  <2>4. k <= Len(s) \/ k = Len(s) + 1 \/ k > Len(s) + 1
    <3>1. k \in Int /\ Len(s) \in Int
      BY <1>1
    <3> QED
      BY <3>1
  <2> QED
    BY <2>1, <2>2, <2>3, <2>4, Zenon
<1>6. a \o Tail(t) = s \o t
  BY <1>3, <1>4, <1>5, SeqEqual
<1> QED
  BY <1>6 DEF a
-----------------------------------------------------------------------------
(* Bullets and billboards                                                   *)

ListInv == TypeOK /\ BillboardsAligned

\* A turn of updateBullets that erases: list and billboards lose the same.
LEMMA EraseAtIterator ==
  ASSUME ListInv, pc = "bullets", ahead # <<>>
  PROVE  /\ RemoveAt(Repositioned, i + 1) = mBullets \o Tail(ahead)
         /\ RemoveAt(Repositioned, i + 1) \in Seq(Bullet)
         /\ Tail(ahead) \in Seq(Bullet)
<1>1. /\ mBullets \in Seq(Bullet) /\ ahead \in Seq(Bullet)
      /\ billboards = mBullets \o ahead /\ i = Len(mBullets)
  BY DEF ListInv, TypeOK, BillboardsAligned
<1>2. Repositioned = mBullets \o ahead
  BY <1>1, RepositionAtBoundary DEF Repositioned
<1>3. RemoveAt(mBullets \o ahead, Len(mBullets) + 1) = mBullets \o Tail(ahead)
  BY <1>1, RemoveAtBoundary
<1>4. Tail(ahead) \in Seq(Bullet)
  BY <1>1, HeadTailProperties
<1> QED
  BY <1>1, <1>2, <1>3, <1>4, ConcatProperties

LEMMA KeepAtIterator ==
  ASSUME ListInv, pc = "bullets", ahead # <<>>
  PROVE  /\ Repositioned = Append(mBullets, Head(ahead)) \o Tail(ahead)
         /\ Repositioned \in Seq(Bullet)
         /\ Tail(ahead) \in Seq(Bullet)
         /\ Append(mBullets, Head(ahead)) \in Seq(Bullet)
         /\ Len(Append(mBullets, Head(ahead))) = i + 1
<1>1. /\ mBullets \in Seq(Bullet) /\ ahead \in Seq(Bullet)
      /\ billboards \in Seq(Bullet)
      /\ billboards = mBullets \o ahead /\ i = Len(mBullets)
  BY DEF ListInv, TypeOK, BillboardsAligned
<1>2. Repositioned = mBullets \o ahead
  BY <1>1, RepositionAtBoundary DEF Repositioned
<1>3. Head(ahead) \in Bullet /\ Tail(ahead) \in Seq(Bullet)
  BY <1>1, HeadTailProperties
<1>4. Append(mBullets, Head(ahead)) \o Tail(ahead) = mBullets \o ahead
  BY <1>1, MoveBoundary
<1> QED
  BY <1>1, <1>2, <1>3, <1>4, AppendProperties

GuiOK == /\ mGameStart \in BOOLEAN
         /\ guiSheet \in {"MainMenu", "GameOver"} /\ menuVisible \in BOOLEAN
         /\ info \in [kills : Int, fires : Int]

LEMMA InitList == Init => ListInv
<1> SUFFICES ASSUME Init PROVE ListInv
  OBVIOUS
<1>1. <<>> \in Seq(Bullet) /\ Len(<<>>) = 0 /\ <<>> \o <<>> = <<>>
  BY EmptySeq, ConcatEmptySeq
<1>2. <<>> \in Seq(Rows)
  BY EmptySeq
<1>3. TypeOK
  <2>1. GuiOK
    <3>1. info \in [kills : Int, fires : Int]
      BY DEF Init
    <3> QED
      BY <3>1 DEF Init, GuiOK
  <2>2. missiles \in [Vehicle -> SUBSET Missile]
    BY DEF Init
  <2> QED
    BY <1>1, <1>2, <2>1, <2>2, BattleAssumption DEF Init, TypeOK, GuiOK
<1>4. BillboardsAligned
  BY <1>1 DEF Init, BillboardsAligned
<1> QED
  BY <1>3, <1>4 DEF ListInv

LEMMA GameOverTypes ==
  ASSUME TypeOK, GameOver \/ UNCHANGED <<mGameStart, gui>>
  PROVE  GuiOK'
<1>1. CASE GameOver
  <2>1. Stats \in [kills : Int, fires : Int]
    BY DEF TypeOK, Stats
  <2> QED
    BY <1>1, <2>1 DEF GameOver, TypeOK, GuiOK
<1>2. CASE UNCHANGED <<mGameStart, gui>>
  BY <1>2 DEF TypeOK, GuiOK, gui
<1> QED
  BY <1>1, <1>2

LEMMA WavesAreNew ==
  \A W \in MenuWaves \cup GameWaves : W \subseteq Vehicle \ gVehicles
BY DEF MenuWaves, GameWaves, Wave

LEMMA StepList == ListInv /\ [Next]_battleVars => ListInv'
<1> SUFFICES ASSUME ListInv, [Next]_battleVars PROVE ListInv'
  OBVIOUS
<1> USE DEF ListInv, TypeOK, BillboardsAligned
<1>1. CASE UpdateMenuScene
  <2>1. GuiOK'
    BY <1>1, GameOverTypes DEF UpdateMenuScene
  <2>2. gVehicles' \in SUBSET Vehicle
    BY <1>1, WavesAreNew DEF UpdateMenuScene
  <2> QED
    BY <1>1, <2>1, <2>2
       DEF UpdateMenuScene, GuiOK, fleet, gun, stats, loops, ghosts
<1>2. CASE UpdateDifficulty
  <2>1. gVehicles' \in SUBSET Vehicle
    BY <1>2, WavesAreNew DEF UpdateDifficulty
  <2> QED
    BY <1>2, <2>1 DEF UpdateDifficulty, fleet, gun, stats, gui, loops, ghosts
<1>3. CASE \E v \in Vehicle : RemoveVehicle(v)
  BY <1>3 DEF RemoveVehicle, fleet, gun, stats, gui, loops, ghosts
<1>4. CASE \E v \in Vehicle : UpdateVehicle(v)
  BY <1>4 DEF UpdateVehicle, Shots, fleet, gun, stats, gui, loops, ghosts
<1>5. CASE \E v \in Vehicle : BulletHits(v)
  BY <1>5, EraseAtIterator DEF BulletHits, fleet, gun, stats, gui, loops, ghosts
<1>6. CASE \E m \in Missile : MissileFlies(m)
  BY <1>6 DEF MissileFlies, fleet, gun, stats, gui, loops, ghosts
<1>7. CASE \E m \in Missile : MissileLands(m)
  <2>1. PICK m \in Missile : MissileLands(m)
    BY <1>7
  <2>2. GuiOK' /\ deadHouses' \in SUBSET House
    BY <2>1, GameOverTypes DEF MissileLands, CreateHole, gui
  <2>3. missiles' \in [Vehicle -> SUBSET Missile]
    BY <2>1 DEF MissileLands
  <2> QED
    BY <2>1, <2>2, <2>3 DEF MissileLands, GuiOK, gun, stats, ghosts
<1>8. CASE VehicleDone
  BY <1>8 DEF VehicleDone, fleet, gun, stats, gui, loops, ghosts
<1>9. CASE EnemiesDone
  BY <1>9, EmptySeq DEF EnemiesDone, fleet, gun, stats, gui, loops, ghosts
<1>10. CASE BulletLost
  BY <1>10, EraseAtIterator
     DEF BulletLost, fleet, gun, stats, gui, loops, ghosts
<1>11. CASE BulletFlies
  <2>1. /\ mBullets' \in Seq(Bullet) /\ ahead' \in Seq(Bullet)
        /\ billboards' = mBullets' \o ahead' /\ billboards' \in Seq(Bullet)
        /\ i' = Len(mBullets') /\ i' \in Nat
    <3>1. pc = "bullets" /\ ahead # <<>>
      BY <1>11 DEF BulletFlies
    <3>2. /\ mBullets' = Append(mBullets, Head(ahead)) /\ ahead' = Tail(ahead)
          /\ billboards' = Repositioned /\ i' = i + 1
      BY <1>11 DEF BulletFlies
    <3>3. i + 1 \in Nat
      OBVIOUS
    <3>4. ListInv
      OBVIOUS
    <3> HIDE DEF ListInv, TypeOK, BillboardsAligned
    <3> QED
      BY <3>1, <3>2, <3>3, <3>4, KeepAtIterator
  <2> QED
    BY <1>11, <2>1 DEF BulletFlies, fleet, stats, gui, ghosts
<1>12. CASE BulletsDone
  BY <1>12 DEF BulletsDone, fleet, gun, stats, gui, loops, ghosts
<1>13. CASE StartGame
  <2>1. /\ missiles' \in [Vehicle -> SUBSET Missile]
        /\ missileNodes' \in SUBSET Missile
    BY <1>13 DEF StartGame, ResetGame, ClearMissiles, ClearVehicles
  <2>2. carried' \in Nat /\ game' \in Nat
    BY <1>13, LenProperties
       DEF StartGame, ResetGame, ClearMissiles, ClearVehicles
  <2>3. gVehicles' = {} /\ dead' = {} /\ deadHouses' = {} /\ mGameStart' = TRUE
        /\ menuVisible' = FALSE /\ mKillCount' = 0 /\ mBulletCount' = 0
        /\ pc' = "input" /\ UNCHANGED <<gun, guiSheet, info, scores, loops>>
        /\ pc = "fade"
    BY <1>13 DEF StartGame, ResetGame, ClearMissiles, ClearVehicles
  <2>4. TypeOK'
    <3>1. UNCHANGED <<mBullets, ahead, billboards, guiSheet, info, scores, todo,
                      cur, left, i>>
      BY <2>3 DEF gun, loops
    <3>2. GuiOK'
      BY <2>3, <3>1 DEF GuiOK
    <3> QED
      BY <2>1, <2>2, <2>3, <3>1, <3>2 DEF GuiOK
  <2>5. BillboardsAligned'
    BY <2>3 DEF gun, loops
  <2> QED
    BY <2>4, <2>5
<1>14. CASE NoReset
  BY <1>14 DEF NoReset, fleet, gun, stats, gui, loops, ghosts
<1>15. CASE \E b \in Bullet \ Range(mBullets) : Shoot(b)
  BY <1>15, AppendProperties DEF Shoot, fleet, gun, stats, gui, loops, ghosts
<1>16. CASE HandleReturn
  BY <1>16 DEF HandleReturn, fleet, gun, stats, gui, loops, ghosts
<1>17. CASE HandleSend
  <2>1. Row \in Rows
    BY DEF Row, Rows
  <2>2. scores' \in Seq(Rows)
    BY <1>17, <2>1, AppendProperties DEF HandleSend
  <2> QED
    BY <1>17, <2>2 DEF HandleSend, fleet, gun, stats, loops, ghosts
<1>18. CASE NextFrame
  BY <1>18 DEF NextFrame, fleet, gun, stats, gui, loops, ghosts
<1>19. CASE UNCHANGED battleVars
  BY <1>19 DEF battleVars, fleet, gun, stats, gui, loops, ghosts
<1> QED
  BY <1>1, <1>2, <1>3, <1>4, <1>5, <1>6, <1>7, <1>8, <1>9, <1>10,
     <1>11, <1>12, <1>13, <1>14, <1>15, <1>16, <1>17, <1>18, <1>19
     DEF Next, SceneStep, InputStep

-----------------------------------------------------------------------------
(* Iterators and missile nodes                                              *)

\* Outside updateEnemies nothing is left to visit, so that a call of
\* ResetGame, which empties gVehicles, comes when no iterator exists.
SceneInv ==
  /\ IteratorsValid
  /\ MissileNodesOwned
  /\ pc \notin {"enemies", "missiles"} => todo = {}

LEMMA InitScene == Init => SceneInv
BY DEF Init, SceneInv, IteratorsValid, MissileNodesOwned

LEMMA StepScene == ListInv /\ SceneInv /\ [Next]_battleVars => SceneInv'
<1> SUFFICES ASSUME TypeOK, SceneInv, [Next]_battleVars PROVE SceneInv'
  BY DEF ListInv
<1> USE DEF SceneInv, IteratorsValid, MissileNodesOwned
<1>1. CASE UpdateMenuScene
  <2>1. PICK W \in MenuWaves : gVehicles' = gVehicles \cup W
    BY <1>1 DEF UpdateMenuScene
  <2>2. \A v \in W : v \in Vehicle /\ missiles[v] = {}
    BY <2>1, WavesAreNew
  <2> QED
    BY <1>1, <2>1, <2>2 DEF UpdateMenuScene, loops
<1>2. CASE UpdateDifficulty
  <2>1. PICK W \in GameWaves : gVehicles' = gVehicles \cup W
    BY <1>2 DEF UpdateDifficulty
  <2>2. \A v \in W : v \in Vehicle /\ missiles[v] = {}
    BY <2>1, WavesAreNew
  <2> QED
    BY <1>2, <2>1, <2>2 DEF UpdateDifficulty
<1>3. CASE \E v \in Vehicle : RemoveVehicle(v)
  <2>1. PICK v \in Vehicle : RemoveVehicle(v)
    BY <1>3
  <2>2. UNION {missiles[w] : w \in gVehicles} =
          UNION {missiles[w] : w \in gVehicles \ {v}}
    BY <2>1 DEF RemoveVehicle
  <2> QED
    BY <2>1, <2>2 DEF RemoveVehicle
<1>4. CASE \E v \in Vehicle : UpdateVehicle(v)
  <2>1. PICK v \in Vehicle : UpdateVehicle(v)
    BY <1>4
  <2>2. PICK shot \in Shots :
          /\ missiles' = [missiles EXCEPT ![v] = @ \cup shot]
          /\ missileNodes' = missileNodes \cup shot
          /\ left' = missiles[v] \cup shot
    BY <2>1 DEF UpdateVehicle
  <2>3. /\ v \in gVehicles /\ UNCHANGED gVehicles
        /\ todo' = todo \ {v} /\ cur' = v /\ pc' = "missiles"
    BY <2>1 DEF UpdateVehicle
  <2>4. /\ missiles'[v] = missiles[v] \cup shot
        /\ \A w \in Vehicle \ {v} : missiles'[w] = missiles[w]
        /\ shot \cap missileNodes = {}
    BY <2>2 DEF Shots, TypeOK
  <2>5. \A w \in Vehicle : missiles[w] \subseteq missileNodes
    OBVIOUS
  <2>6. missileNodes' = UNION {missiles'[w] : w \in gVehicles}
    BY <2>2, <2>3, <2>4 DEF TypeOK
  <2>7. \A u, w \in Vehicle : u # w => missiles'[u] \cap missiles'[w] = {}
    BY <2>4, <2>5
  <2> QED
    BY <2>2, <2>3, <2>4, <2>6, <2>7 DEF Shots, TypeOK
<1>5. CASE \E v \in Vehicle : BulletHits(v)
  BY <1>5 DEF BulletHits, fleet, loops
<1>6. CASE \E m \in Missile : MissileFlies(m)
  BY <1>6 DEF MissileFlies, fleet, loops
<1>7. CASE \E m \in Missile : MissileLands(m)
  <2>1. PICK m \in Missile : MissileLands(m)
    BY <1>7
  <2>2. /\ m \in left /\ cur \in gVehicles \ todo
        /\ cur \in Vehicle /\ m \in missiles[cur]
        /\ UNCHANGED <<pc, gVehicles, todo, cur>> /\ pc = "missiles"
        /\ left' = left \ {m} /\ missileNodes' = missileNodes \ {m}
    BY <2>1 DEF MissileLands, TypeOK
  <2>3. /\ missiles'[cur] = missiles[cur] \ {m}
        /\ \A w \in Vehicle \ {cur} : /\ missiles'[w] = missiles[w]
                                     /\ m \notin missiles[w]
    BY <2>1, <2>2 DEF MissileLands, TypeOK
  <2>4. \A x : x \in missileNodes' <=> \E w \in gVehicles : x \in missiles'[w]
    <3>1. \A x : x \in missileNodes <=> \E w \in gVehicles : x \in missiles[w]
      OBVIOUS
    <3>2. gVehicles \subseteq Vehicle
      BY DEF TypeOK
    <3> QED
      BY <2>2, <2>3, <3>1, <3>2
  <2>5. missileNodes' = UNION {missiles'[w] : w \in gVehicles}
    BY <2>4
  <2> QED
    BY <2>2, <2>3, <2>5
<1>8. CASE VehicleDone
  BY <1>8 DEF VehicleDone, fleet, loops
<1>9. CASE EnemiesDone
  BY <1>9 DEF EnemiesDone, fleet, loops
<1>10. CASE BulletLost
  BY <1>10 DEF BulletLost, fleet, loops
<1>11. CASE BulletFlies
  BY <1>11 DEF BulletFlies, fleet, loops
<1>12. CASE BulletsDone
  BY <1>12 DEF BulletsDone, fleet, loops
<1>13. CASE StartGame
  <2>1. \A v \in Vehicle : missiles'[v] = {}
    BY <1>13 DEF StartGame, ResetGame, ClearMissiles, ClearVehicles
  <2>2. gVehicles' = {} /\ missileNodes' = {}
    BY <1>13 DEF StartGame, ResetGame, ClearMissiles, ClearVehicles
  <2>3. pc' = "input" /\ todo' = {}
    BY <1>13 DEF StartGame, ResetGame, ClearMissiles, ClearVehicles, loops
  <2> QED
    BY <2>1, <2>2, <2>3
<1>14. CASE NoReset
  BY <1>14 DEF NoReset, fleet, loops
<1>15. CASE \E b \in Bullet \ Range(mBullets) : Shoot(b)
  BY <1>15 DEF Shoot, fleet, loops
<1>16. CASE HandleReturn
  BY <1>16 DEF HandleReturn, fleet, loops
<1>17. CASE HandleSend
  BY <1>17 DEF HandleSend, fleet, loops
<1>18. CASE NextFrame
  BY <1>18 DEF NextFrame, fleet, loops
<1>19. CASE UNCHANGED battleVars
  BY <1>19 DEF battleVars, fleet, loops
<1> QED
  BY <1>1, <1>2, <1>3, <1>4, <1>5, <1>6, <1>7, <1>8, <1>9, <1>10,
     <1>11, <1>12, <1>13, <1>14, <1>15, <1>16, <1>17, <1>18, <1>19
     DEF Next, SceneStep, InputStep

-----------------------------------------------------------------------------
(* The rules of the game                                                    *)

\* Before the first ResetGame the counters hold garbage, but then no game has
\* run and nothing is shot or hit.
RulesInv ==
  /\ SomeHouseStands
  /\ KillsCovered
  /\ game = 0 => ~mGameStart /\ pc \notin {"enemies", "missiles", "bullets"}

LEMMA InitRules == Init => RulesInv
BY DEF Init, RulesInv, SomeHouseStands, KillsCovered

LEMMA StepRules == ListInv /\ RulesInv /\ [Next]_battleVars => RulesInv'
<1> SUFFICES ASSUME ListInv, RulesInv, [Next]_battleVars PROVE RulesInv'
  OBVIOUS
<1> USE DEF RulesInv, SomeHouseStands, KillsCovered
<1>0. /\ mKillCount \in Int /\ mBulletCount \in Int
      /\ game \in Nat /\ carried \in Nat
      /\ mBullets \in Seq(Bullet) /\ ahead \in Seq(Bullet)
      /\ Len(mBullets) \in Nat /\ Len(ahead) \in Nat
  BY LenProperties DEF ListInv, TypeOK
<1>1. CASE UpdateMenuScene
  BY <1>1 DEF UpdateMenuScene, GameOver, gun, stats, ghosts
<1>2. CASE UpdateDifficulty
  BY <1>2 DEF UpdateDifficulty, gun, stats, ghosts
<1>3. CASE \E v \in Vehicle : RemoveVehicle(v)
  BY <1>3 DEF RemoveVehicle, gun, stats, ghosts
<1>4. CASE \E v \in Vehicle : UpdateVehicle(v)
  BY <1>4 DEF UpdateVehicle, gun, stats, ghosts
<1>5. CASE \E v \in Vehicle : BulletHits(v)
  <2>1. Len(ahead') = Len(ahead) - 1
    BY <1>0, <1>5, HeadTailProperties DEF BulletHits
  <2> QED
    BY <1>0, <1>5, <2>1 DEF BulletHits, loops, ghosts, gui
<1>6. CASE \E m \in Missile : MissileFlies(m)
  BY <1>6 DEF MissileFlies, gun, stats, ghosts
<1>7. CASE \E m \in Missile : MissileLands(m)
  <2>1. PICK m \in Missile : MissileLands(m)
    BY <1>7
  <2>2. mGameStart' => mGameStart /\ deadHouses' # House
    BY <2>1 DEF MissileLands, CreateHole, GameOver
  <2> QED
    BY <2>1, <2>2 DEF MissileLands, gun, stats, ghosts
<1>8. CASE VehicleDone
  BY <1>8 DEF VehicleDone, gun, stats, ghosts
<1>9. CASE EnemiesDone
  <2>1. ahead' = mBullets /\ Len(mBullets') = 0
    BY <1>9, EmptySeq DEF EnemiesDone
  <2>2. ahead = <<>> /\ Len(ahead) = 0
    BY <1>9, EmptySeq DEF EnemiesDone, ListInv, BillboardsAligned
  <2> QED
    BY <1>0, <1>9, <2>1, <2>2 DEF EnemiesDone, stats, ghosts
<1>10. CASE BulletLost
  <2>1. Len(ahead') = Len(ahead) - 1
    BY <1>0, <1>10, HeadTailProperties DEF BulletLost
  <2> QED
    BY <1>0, <1>10, <2>1 DEF BulletLost, fleet, stats, gui, ghosts
<1>11. CASE BulletFlies
  <2>1. Len(ahead') = Len(ahead) - 1
    BY <1>0, <1>11, HeadTailProperties DEF BulletFlies
  <2>2. Len(mBullets') = Len(mBullets) + 1
    BY <1>0, <1>11, HeadTailProperties, AppendProperties DEF BulletFlies
  <2> QED
    BY <1>0, <1>11, <2>1, <2>2 DEF BulletFlies, stats, ghosts
<1>12. CASE BulletsDone
  BY <1>12 DEF BulletsDone, gun, stats, ghosts
<1>13. CASE StartGame
  <2>1. ahead = <<>> /\ Len(ahead) = 0
    BY <1>13, EmptySeq DEF StartGame, ListInv, BillboardsAligned
  <2> QED
    BY <1>0, <1>13, <2>1, BattleAssumption
       DEF StartGame, ResetGame, ClearMissiles, ClearVehicles, gun
<1>14. CASE NoReset
  BY <1>14 DEF NoReset, gun, stats, ghosts
<1>15. CASE \E b \in Bullet \ Range(mBullets) : Shoot(b)
  <2>1. PICK b \in Bullet : Shoot(b)
    BY <1>15
  <2>2. Len(mBullets') = Len(mBullets) + 1
    BY <1>0, <2>1, AppendProperties DEF Shoot
  <2> QED
    BY <1>0, <2>1, <2>2 DEF Shoot, ghosts
<1>16. CASE HandleReturn
  BY <1>16 DEF HandleReturn, gun, stats, ghosts
<1>17. CASE HandleSend
  BY <1>17 DEF HandleSend, gun, stats, ghosts
<1>18. CASE NextFrame
  BY <1>18 DEF NextFrame, gun, stats, ghosts
<1>19. CASE UNCHANGED battleVars
  BY <1>19 DEF battleVars, gun, stats, ghosts
<1> QED
  BY <1>1, <1>2, <1>3, <1>4, <1>5, <1>6, <1>7, <1>8, <1>9, <1>10,
     <1>11, <1>12, <1>13, <1>14, <1>15, <1>16, <1>17, <1>18, <1>19
     DEF Next, SceneStep, InputStep

-----------------------------------------------------------------------------

LEMMA BattleInvariant == Spec => [](ListInv /\ SceneInv /\ RulesInv)
BY InitList, StepList, InitScene, StepScene, InitRules, StepRules, PTL DEF Spec

\* The billboards of updateBullets (BaseCommandFrameListener.cpp 414-474) show
\* the bullets of the list, in its order, however many of either there are and
\* whichever turns of the loop erase.
THEOREM BillboardsAlwaysAligned == Spec => []BillboardsAligned
<1>1. ListInv => BillboardsAligned
  BY DEF ListInv
<1> QED
  BY <1>1, BattleInvariant, PTL

\* The lists, counters and sheets of the scene keep their types.
THEOREM BattleTypeIsOK == Spec => []TypeOK
<1>1. ListInv => TypeOK
  BY DEF ListInv
<1> QED
  BY <1>1, BattleInvariant, PTL

\* updateEnemies and Vehicle::update visit only elements that are still in
\* their lists, whatever createHole and gameOver do on the way.
THEOREM IteratorsAlwaysValid == Spec => []IteratorsValid
<1>1. SceneInv => IteratorsValid
  BY DEF SceneInv
<1> QED
  BY <1>1, BattleInvariant, PTL

\* No missile node is left in the scene without an owner or removed twice,
\* across deaths, erased planes and resets.
THEOREM MissileNodesAlwaysOwned == Spec => []MissileNodesOwned
<1>1. SceneInv => MissileNodesOwned
  BY DEF SceneInv
<1> QED
  BY <1>1, BattleInvariant, PTL

\* A game in progress has a house that stands, for any number of houses.
THEOREM HouseAlwaysStands == Spec => []SomeHouseStands
<1>1. RulesInv => SomeHouseStands
  BY DEF RulesInv
<1> QED
  BY <1>1, BattleInvariant, PTL

\* Kills are covered by the shots of the game and the bullets it inherited.
THEOREM KillsAlwaysCovered == Spec => []KillsCovered
<1>1. RulesInv => KillsCovered
  BY DEF RulesInv
<1> QED
  BY <1>1, BattleInvariant, PTL
-----------------------------------------------------------------------------
(* A frame comes to its end                                                 *)

\* The steps one plane may still take when the missiles of its update are all
\* there are: the call, a turn for each missile, and the return.
Turn == Cardinality(Missile) + 2

\* How many steps the frame in progress may still take.
StepsLeft ==
  CASE pc = "frame"    -> Cardinality(Vehicle) * Turn + Len(mBullets) + 4
    [] pc = "enemies"  -> Cardinality(todo) * Turn + Len(mBullets) + 3
    [] pc = "missiles" -> Cardinality(todo) * Turn + Cardinality(left)
                            + Len(mBullets) + 4
    [] pc = "bullets"  -> Len(ahead) + 2
    [] pc = "fade"     -> 1
    [] pc = "input"    -> 0

\* Every step of frameStarted leaves it fewer steps to take: no element is
\* visited twice, whatever the bodies of the loops erase, fire or end.
FrameShrinks ==
  [][pc # "input" => StepsLeft' \in Nat /\ StepsLeft' < StepsLeft]_battleVars

\* What the loops have still to visit can be counted.
LEMMA LoopsAreCounted ==
  ASSUME ListInv, IsFiniteSet(Vehicle), IsFiniteSet(Missile)
  PROVE  /\ Cardinality(Vehicle) \in Nat /\ Turn \in Nat
         /\ IsFiniteSet(todo) /\ Cardinality(todo) \in 0..Cardinality(Vehicle)
         /\ IsFiniteSet(left) /\ Cardinality(left) \in 0..Turn - 2
         /\ Len(mBullets) \in Nat /\ Len(ahead) \in Nat
<1>1. /\ Cardinality(Vehicle) \in Nat /\ Cardinality(Missile) \in Nat
  BY FS_CardinalityType
<1>2. todo \in SUBSET Vehicle /\ left \in SUBSET Missile
  BY DEF ListInv, TypeOK
<1>3. /\ IsFiniteSet(todo) /\ Cardinality(todo) <= Cardinality(Vehicle)
      /\ IsFiniteSet(left) /\ Cardinality(left) <= Cardinality(Missile)
  BY <1>2, FS_Subset
<1>4. Cardinality(todo) \in Nat /\ Cardinality(left) \in Nat
  BY <1>3, FS_CardinalityType
<1>5. Len(mBullets) \in Nat /\ Len(ahead) \in Nat
  BY LenProperties DEF ListInv, TypeOK
<1> QED
  BY <1>1, <1>3, <1>4, <1>5 DEF Turn

\* A plane less to visit is a whole turn less to take, and fewer planes take
\* no more turns.
LEMMA TurnsFall ==
  ASSUME NEW n \in Nat, NEW m \in Nat, NEW k \in Nat
  PROVE  /\ n * k \in Nat
         /\ n <= m => n * k <= m * k
         /\ n > 0 => (n - 1) * k = n * k - k
<1>1. n * k \in Nat
  OBVIOUS
<1>2. ASSUME n <= m PROVE n * k <= m * k
  <2>1. PICK d \in Nat : m = n + d
    <3>1. m - n \in Nat /\ m = n + (m - n)
      BY <1>2
    <3> QED
      BY <3>1
  <2>2. (n + d) * k = n * k + d * k /\ d * k \in Nat
    OBVIOUS
  <2> QED
    BY <1>1, <2>1, <2>2
<1>3. (n - 1) * k = n * k - k
  OBVIOUS
<1> QED
  BY <1>1, <1>2, <1>3

LEMMA StepShrinks ==
  ASSUME IsFiniteSet(Vehicle), IsFiniteSet(Missile), ListInv, Next,
         pc # "input"
  PROVE  StepsLeft' \in Nat /\ StepsLeft \in Nat /\ StepsLeft' < StepsLeft
<1> DEFINE n == Cardinality(todo)
           l == Cardinality(left)
           V == Cardinality(Vehicle)
           b == Len(mBullets)
           w == n * Turn
           W == V * Turn
<1>1. /\ V \in Nat /\ Turn \in Nat
      /\ IsFiniteSet(todo) /\ n \in 0..V
      /\ IsFiniteSet(left) /\ l \in 0..Turn - 2
      /\ b \in Nat /\ Len(ahead) \in Nat
  BY LoopsAreCounted
<1>2. w \in Nat /\ W \in Nat /\ w <= W
  BY <1>1, TurnsFall
<1>3. CASE UpdateMenuScene
  <2>1. pc = "frame" /\ pc' = "fade"
    BY <1>3 DEF UpdateMenuScene
  <2>2. StepsLeft = W + b + 4 /\ StepsLeft' = 1
    BY <2>1 DEF StepsLeft
  <2> HIDE DEF n, l, V, b, w, W
  <2> QED
    BY <1>1, <1>2, <2>2
<1>4. CASE UpdateDifficulty
  <2> DEFINE w1 == Cardinality(todo') * Turn
  <2>1. pc = "frame" /\ pc' = "enemies" /\ UNCHANGED mBullets
    BY <1>4 DEF UpdateDifficulty, gun
  <2>2. /\ StepsLeft = W + b + 4
        /\ StepsLeft' = w1 + b + 3
    BY <2>1 DEF StepsLeft
  <2>3. todo' \in SUBSET Vehicle
    BY <1>4, WavesAreNew DEF UpdateDifficulty, ListInv, TypeOK
  <2>4. Cardinality(todo') \in Nat /\ Cardinality(todo') <= V
    BY <2>3, FS_Subset, FS_CardinalityType
  <2>5. w1 \in Nat /\ w1 <= W
    BY <1>1, <2>4, TurnsFall
  <2> HIDE DEF n, l, V, b, w, W, w1
  <2> QED
    BY <1>1, <1>2, <2>2, <2>5
<1>5. ASSUME NEW v \in Vehicle, RemoveVehicle(v)
      PROVE  StepsLeft' \in Nat /\ StepsLeft \in Nat /\ StepsLeft' < StepsLeft
  <2> DEFINE w1 == Cardinality(todo') * Turn
  <2>1. /\ pc = "enemies" /\ pc' = "enemies" /\ UNCHANGED mBullets
        /\ v \in todo /\ todo' = todo \ {v}
    BY <1>5 DEF RemoveVehicle, gun
  <2>2. Cardinality(todo') = n - 1
    BY <1>1, <2>1, FS_RemoveElement
  <2>3. /\ StepsLeft = w + b + 3
        /\ StepsLeft' = w1 + b + 3
    BY <2>1 DEF StepsLeft
  <2>4. n - 1 \in Nat
    BY <1>1, <2>1, <2>2, FS_RemoveElement, FS_CardinalityType
  <2>5. w1 = w - Turn /\ w1 \in Nat
    BY <1>1, <2>2, <2>4, TurnsFall
  <2>6. Turn > 0
    BY FS_CardinalityType DEF Turn
  <2> HIDE DEF n, l, V, b, w, W, w1
  <2> QED
    BY <1>1, <1>2, <2>3, <2>5, <2>6
<1>6. ASSUME NEW v \in Vehicle, UpdateVehicle(v)
      PROVE  StepsLeft' \in Nat /\ StepsLeft \in Nat /\ StepsLeft' < StepsLeft
  <2> DEFINE w1 == Cardinality(todo') * Turn
  <2>1. /\ pc = "enemies" /\ pc' = "missiles" /\ UNCHANGED mBullets
        /\ v \in todo /\ todo' = todo \ {v}
    BY <1>6 DEF UpdateVehicle, gun
  <2>2. Cardinality(todo') = n - 1
    BY <1>1, <2>1, FS_RemoveElement
  <2>3. /\ StepsLeft = w + b + 3
        /\ StepsLeft' = w1 + Cardinality(left') + b + 4
    BY <2>1 DEF StepsLeft
  <2>4. n - 1 \in Nat
    BY <1>1, <2>1, <2>2, FS_RemoveElement, FS_CardinalityType
  <2>5. w1 = w - Turn /\ w1 \in Nat
    BY <1>1, <2>2, <2>4, TurnsFall
  <2>6. left' \in SUBSET Missile
    BY <1>6 DEF UpdateVehicle, Shots, ListInv, TypeOK
  <2>7. Cardinality(left') \in Nat /\ Cardinality(left') <= Turn - 2
    <3>1. Cardinality(left') <= Cardinality(Missile) /\ IsFiniteSet(left')
      BY <2>6, FS_Subset
    <3> QED
      BY <3>1, FS_CardinalityType DEF Turn
  <2> HIDE DEF n, l, V, b, w, W, w1
  <2> QED
    BY <1>1, <1>2, <2>3, <2>5, <2>7
<1>7. ASSUME NEW m \in Missile, MissileFlies(m) \/ MissileLands(m)
      PROVE  StepsLeft' \in Nat /\ StepsLeft \in Nat /\ StepsLeft' < StepsLeft
  <2>1. /\ pc = "missiles" /\ pc' = "missiles" /\ UNCHANGED <<mBullets, todo>>
        /\ m \in left /\ left' = left \ {m}
    BY <1>7 DEF MissileFlies, MissileLands, gun
  <2>2. Cardinality(left') = l - 1 /\ Cardinality(left') \in Nat
    BY <1>1, <2>1, FS_RemoveElement, FS_CardinalityType
  <2>3. /\ StepsLeft = w + l + b + 4
        /\ StepsLeft' = w + Cardinality(left') + b + 4
    BY <2>1 DEF StepsLeft
  <2> HIDE DEF n, l, V, b, w, W
  <2> QED
    BY <1>1, <1>2, <2>2, <2>3
<1>8. CASE VehicleDone
  <2>1. /\ pc = "missiles" /\ pc' = "enemies" /\ UNCHANGED <<mBullets, todo>>
    BY <1>8 DEF VehicleDone, gun
  <2>2. /\ StepsLeft = w + l + b + 4
        /\ StepsLeft' = w + b + 3
    BY <2>1 DEF StepsLeft
  <2> HIDE DEF n, l, V, b, w, W
  <2> QED
    BY <1>1, <1>2, <2>2
<1>9. CASE EnemiesDone
  <2>1. /\ pc = "enemies" /\ pc' = "bullets" /\ ahead' = mBullets
    BY <1>9 DEF EnemiesDone
  <2>2. StepsLeft = w + b + 3 /\ StepsLeft' = b + 2
    BY <2>1 DEF StepsLeft
  <2> HIDE DEF n, l, V, b, w, W
  <2> QED
    BY <1>1, <1>2, <2>2
<1>10. CASE BulletLost \/ BulletFlies \/ \E v \in Vehicle : BulletHits(v)
  <2>1. /\ pc = "bullets" /\ pc' = "bullets" /\ ahead # <<>>
        /\ ahead' = Tail(ahead)
    BY <1>10 DEF BulletLost, BulletFlies, BulletHits
  <2>2. Len(ahead') = Len(ahead) - 1 /\ Len(ahead') \in Nat
    BY <2>1, HeadTailProperties, LenProperties DEF ListInv, TypeOK
  <2>3. StepsLeft = Len(ahead) + 2 /\ StepsLeft' = Len(ahead') + 2
    BY <2>1 DEF StepsLeft
  <2> QED
    BY <1>1, <2>2, <2>3
<1>11. CASE BulletsDone
  <2>1. pc = "bullets" /\ pc' = "fade"
    BY <1>11 DEF BulletsDone
  <2>2. StepsLeft = Len(ahead) + 2 /\ StepsLeft' = 1
    BY <2>1 DEF StepsLeft
  <2> QED
    BY <1>1, <2>2
<1>12. CASE StartGame \/ NoReset
  <2>1. pc = "fade" /\ pc' = "input"
    BY <1>12 DEF StartGame, NoReset
  <2> QED
    BY <2>1 DEF StepsLeft
<1>13. ~InputStep /\ ~NextFrame
  BY DEF InputStep, Shoot, HandleReturn, HandleSend, NextFrame
<1> QED
  BY <1>3, <1>4, <1>5, <1>6, <1>7, <1>8, <1>9, <1>10, <1>11, <1>12, <1>13
     DEF Next, SceneStep

\* frameStarted returns after a number of steps known when it is called: at
\* most a turn for each plane and each of its missiles, and one for each bullet
\* (BaseCommandFrameListener.cpp 403-474 and 522-543, Vehicle::update).  With
\* the fairness of FairSpec this is why FrameTerminates holds of lists of any
\* length.
THEOREM FramesShrink ==
  ASSUME IsFiniteSet(Vehicle), IsFiniteSet(Missile)
  PROVE  Spec => FrameShrinks
<1>1. ListInv /\ [Next]_battleVars
        => [pc # "input" => StepsLeft' \in Nat /\ StepsLeft' < StepsLeft]_battleVars
  BY StepShrinks
<1> QED
  BY <1>1, BattleInvariant, PTL DEF Spec, FrameShrinks

-----------------------------------------------------------------------------
(* A new game                                                               *)

\* When ResetGame begins a game, nothing of the last one is in the scene or in
\* the lists, not a node of a missile whose plane had left gVehicles, and no
\* loop is in progress: only bullets and counted rows outlive a game.
NewGameIsClean ==
  [][game' # game =>
       /\ missileNodes' = {} /\ \A v \in Vehicle : missiles'[v] = {}
       /\ gVehicles' = {} /\ dead' = {} /\ deadHouses' = {}
       /\ todo' = {} /\ ahead' = <<>>]_battleVars

\* Only ResetGame begins a game.
LEMMA OnlyResetsBegin == Next /\ game' # game => StartGame
<1> SUFFICES ASSUME Next, game' # game PROVE StartGame
  OBVIOUS
<1> USE DEF ghosts
<1>1. ~SceneStep
  BY DEF SceneStep, UpdateMenuScene, UpdateDifficulty, RemoveVehicle,
         UpdateVehicle, BulletHits, MissileFlies, MissileLands, VehicleDone,
         EnemiesDone, BulletLost, BulletFlies, BulletsDone
<1>2. ~InputStep /\ ~NoReset /\ ~NextFrame
  BY DEF InputStep, Shoot, HandleReturn, HandleSend, NoReset, NextFrame
<1> QED
  BY <1>1, <1>2 DEF Next

\* ResetGame (BaseCommandFrameListener.cpp 784-813) clears the missiles of the
\* planes in the list alone; that these are all the missiles there are is what
\* MissileNodesOwned says.
THEOREM NewGamesAreClean == Spec => NewGameIsClean
<1> DEFINE Clean == /\ missileNodes' = {} /\ \A v \in Vehicle : missiles'[v] = {}
                    /\ gVehicles' = {} /\ dead' = {} /\ deadHouses' = {}
                    /\ todo' = {} /\ ahead' = <<>>
<1>1. ListInv /\ SceneInv /\ SceneInv' /\ [Next]_battleVars
        => [game' # game => Clean]_battleVars
  <2> SUFFICES ASSUME ListInv, SceneInv, SceneInv', Next, game' # game
               PROVE  Clean
    OBVIOUS
  <2>1. /\ gVehicles' = {} /\ dead' = {} /\ deadHouses' = {}
        /\ UNCHANGED <<todo, ahead>> /\ pc = "fade"
    BY OnlyResetsBegin DEF StartGame, ResetGame, ClearVehicles, gun, loops
  <2>2. todo = {} /\ ahead = <<>>
    BY <2>1 DEF SceneInv, ListInv, BillboardsAligned
  <2>3. missileNodes' = {} /\ \A v \in Vehicle : missiles'[v] = {}
    BY <2>1 DEF SceneInv, MissileNodesOwned
  <2> QED
    BY <2>1, <2>2, <2>3
<1> QED
  BY <1>1, BattleInvariant, PTL DEF Spec, NewGameIsClean
==============================================================================
