--------------------------- MODULE FormationProofs ---------------------------
(***************************************************************************)
(* The names, the pointers and the order of the planes, for any number of   *)
(* waves and missiles and paths of any length.                              *)
(***************************************************************************)
EXTENDS Formation, TLAPS

\* A plane is named before the counter moves on, a missile after.
NamesCounted ==
  \A n \in Number :
    /\ <<"planeNode", n>> \in nodes => n < mCount
    /\ <<"missileNode", n>> \in nodes \/ <<"bombNode", n>> \in nodes => n <= mCount

\* Nothing is known yet of a plane whose number has not been given.
Unborn ==
  \A v \in Number : v >= mCount =>
    /\ v \notin gVehicles /\ v \notin placed /\ v \notin bombers
    /\ mLeader[v] = NoLeader /\ mCurrentWayPoint[v] = 0

\* What the loop has left behind is placed, and only placed planes are hit.
PlacedInTurn ==
  /\ todo \subseteq gVehicles
  /\ pc \notin {"menu", "enemies"} => todo = {}
  /\ gVehicles \ todo \subseteq placed
  /\ mDead \subseteq placed

\* A leader comes before its followers, until it is gone from the list.
LeadersAhead ==
  \A v \in gVehicles : mLeader[v] # NoLeader =>
    mLeader[v] < v /\ (mLeader[v] \in placed \/ mLeader[v] \in gVehicles)

Inv ==
  /\ TypeOK /\ NamesCounted /\ NamesAccepted /\ Unborn
  /\ PlacedInTurn /\ LeadersAhead /\ LeadersPlacedFirst /\ PointersAreReadable

-----------------------------------------------------------------------------

LEMMA InitInv == Init => Inv
<1> SUFFICES ASSUME Init
             PROVE  Inv
  OBVIOUS
<1> USE FormationAssumption DEF Init, Number
<1>1. TypeOK
  <2>1. refused \in BOOLEAN /\ mGameStart \in BOOLEAN
    OBVIOUS
  <2>2. /\ mCount \in Number /\ nodes = {}
        /\ heap = {} /\ gVehicles = {} /\ todo = {}
        /\ bombers = {} /\ placed = {} /\ mDead = {}
        /\ mLeader \in [Number -> Number \cup {NoLeader}]
        /\ mMissiles \in [Number -> Nat]
        /\ mCurrentWayPoint \in [Number -> Nat]
        /\ pc = "frame"
    OBVIOUS
  <2>3. \A v \in Number :
          mCurrentWayPoint[v] < IF mLeader[v] = NoLeader THEN PathLength(v) ELSE 1
    BY DEF PathLength
  <2> QED
    BY <2>1, <2>2, <2>3 DEF TypeOK
<1>2. NamesCounted /\ NamesAccepted /\ Unborn
  BY DEF NamesCounted, NamesAccepted, Unborn
<1>3. PlacedInTurn /\ LeadersAhead /\ LeadersPlacedFirst /\ PointersAreReadable
  BY DEF PlacedInTurn, LeadersAhead, LeadersPlacedFirst, PointersAreReadable
<1> QED
  BY <1>1, <1>2, <1>3 DEF Inv

\* A wave takes the numbers from mCount on.
LEMMA BeginFrameKeepsInv ==
  ASSUME Inv, BeginFrame
  PROVE  Inv'
<1> USE FormationAssumption DEF Number
<1>1. PICK n \in {0, 2, 5} : Spawn(n)
  BY DEF BeginFrame
<1> DEFINE new == mCount .. mCount + n - 1
<1>2. /\ mCount \in Nat /\ mCount + n <= MaxCount /\ mCount' = mCount + n
      /\ n \in Nat /\ (n > 0 => n >= 2)
      /\ nodes' = nodes \cup ({"planeNode"} \X new)
      /\ refused' = (refused \/ ({"planeNode"} \X new) \cap nodes # {})
      /\ heap' = heap \cup new /\ gVehicles' = gVehicles \cup new
      /\ bombers' = IF n > 0 THEN bombers \cup {mCount + 1} ELSE bombers
      /\ mLeader' = [v \in Number |->
                       IF v \in new /\ v > mCount + 2 THEN mCount + 2
                       ELSE mLeader[v]]
      /\ placed' = placed
  BY <1>1 DEF Spawn, CreateNodes, Inv, TypeOK
<1>3. /\ todo' = gVehicles' /\ pc' \in {"enemies", "menu"} /\ pc = "frame"
      /\ UNCHANGED <<mCurrentWayPoint, mDead, mMissiles, mGameStart>>
  BY DEF BeginFrame
<1>4. new \subseteq Number /\ \A v \in new : v >= mCount /\ v < mCount + n
  BY <1>2
<1>5. \A v \in Number : v \notin new => mLeader'[v] = mLeader[v]
  BY <1>2
<1>6. \A v \in new : v <= mCount + 2 => mLeader'[v] = NoLeader
  BY <1>2, <1>4 DEF Inv, Unborn
<1>7. \A v \in new : v > mCount + 2 => mLeader'[v] = mCount + 2 /\ mCount + 2 \in new
  BY <1>2, <1>4
<1>8. \A v \in gVehicles : v \in Number /\ v < mCount /\ v \notin new
  BY <1>4, <1>2 DEF Inv, TypeOK, Unborn
<1>9. \A v \in placed : v \in Number /\ v < mCount /\ v \notin new
  BY <1>4, <1>2 DEF Inv, TypeOK, Unborn
<1> HIDE DEF new
<1>10. TypeOK'
  <2>1. mCount' \in Number /\ heap' \subseteq Number /\ gVehicles' \subseteq Number
        /\ todo' \subseteq Number /\ placed' \subseteq Number /\ mDead' \subseteq Number
    BY <1>2, <1>3, <1>4 DEF Inv, TypeOK
  <2>2. nodes' \subseteq {"planeNode", "missileNode", "bombNode"} \X Number
    BY <1>2, <1>4 DEF Inv, TypeOK
  <2>3. refused' \in BOOLEAN /\ mGameStart' \in BOOLEAN
    BY <1>2, <1>3, Zenon DEF Inv, TypeOK
  <2>4. bombers' \subseteq Number
    BY <1>2 DEF Inv, TypeOK
  <2>5. mLeader' \in [Number -> Number \cup {NoLeader}]
    BY <1>2, <1>4, <1>7 DEF Inv, TypeOK
  <2>6. mMissiles' \in [Number -> Nat] /\ mCurrentWayPoint' \in [Number -> Nat]
    BY <1>3 DEF Inv, TypeOK
  <2>7. ASSUME NEW v \in Number
        PROVE  mCurrentWayPoint'[v]
                 < IF mLeader'[v] = NoLeader THEN PathLength(v)' ELSE 1
    <3>1. mCurrentWayPoint'[v] = mCurrentWayPoint[v]
      BY <1>3
    <3>2. CASE v \notin new
      <4>1. v \in bombers' <=> v \in bombers
        <5>1. n > 0 => mCount + 1 \in new
          BY <1>2 DEF new
        <5> QED
          BY <1>2, <3>2, <5>1
      <4> QED
        BY <1>5, <3>1, <3>2, <4>1 DEF Inv, TypeOK, PathLength
    <3>3. CASE v \in new
      <4>1. mCurrentWayPoint[v] = 0
        BY <1>4, <3>3 DEF Inv, Unborn
      <4> QED
        BY <3>1, <4>1 DEF PathLength
    <3> QED
      BY <3>2, <3>3
  <2>8. pc' \in {"frame", "menu", "enemies", "bullets", "quit"}
    BY <1>3
  <2> QED
    BY <2>1, <2>2, <2>3, <2>4, <2>5, <2>6, <2>7, <2>8 DEF TypeOK
<1>11. ({"planeNode"} \X new) \cap nodes = {}
  <2> SUFFICES ASSUME NEW k \in new, <<"planeNode", k>> \in nodes
               PROVE  FALSE
    OBVIOUS
  <2>1. k < mCount
    BY <1>4 DEF Inv, NamesCounted
  <2> QED
    BY <1>2, <1>4, <2>1
<1>12. NamesAccepted'
  BY <1>2, <1>11 DEF Inv, NamesAccepted
<1>13. NamesCounted'
  <2> SUFFICES ASSUME NEW k \in Number
               PROVE  /\ <<"planeNode", k>> \in nodes' => k < mCount'
                      /\ <<"missileNode", k>> \in nodes' \/ <<"bombNode", k>> \in nodes'
                           => k <= mCount'
    BY DEF NamesCounted
  <2>1. CASE <<"planeNode", k>> \in nodes'
    BY <1>2, <1>4, <2>1 DEF Inv, NamesCounted
  <2>2. CASE <<"missileNode", k>> \in nodes' \/ <<"bombNode", k>> \in nodes'
    <3>1. <<"missileNode", k>> \in nodes \/ <<"bombNode", k>> \in nodes
      BY <1>2, <2>2
    <3> QED
      BY <1>2, <1>4, <2>1, <3>1 DEF Inv, NamesCounted
  <2> QED
    BY <2>1, <2>2
<1>14. Unborn'
  <2> SUFFICES ASSUME NEW v \in Number, v >= mCount'
               PROVE  /\ v \notin gVehicles' /\ v \notin placed' /\ v \notin bombers'
                      /\ mLeader'[v] = NoLeader /\ mCurrentWayPoint'[v] = 0
    BY DEF Unborn
  <2>1. v >= mCount /\ v \notin new /\ (n > 0 => v # mCount + 1)
    BY <1>2, <1>4
  <2> QED
    BY <1>2, <1>3, <1>5, <2>1 DEF Inv, Unborn
<1>15. PlacedInTurn'
  BY <1>2, <1>3 DEF Inv, PlacedInTurn
<1>16. LeadersAhead'
  <2> SUFFICES ASSUME NEW v \in gVehicles', mLeader'[v] # NoLeader
               PROVE  mLeader'[v] < v
                      /\ (mLeader'[v] \in placed' \/ mLeader'[v] \in gVehicles')
    BY DEF LeadersAhead
  <2>1. CASE v \in gVehicles
    <3>1. mLeader'[v] = mLeader[v]
      BY <1>5, <1>8, <2>1
    <3>2. mLeader[v] < v /\ (mLeader[v] \in placed \/ mLeader[v] \in gVehicles)
      BY <2>1, <3>1 DEF Inv, LeadersAhead
    <3> QED
      BY <1>2, <3>1, <3>2
  <2>2. CASE v \in new
    <3>1. v \in Nat /\ mCount + 2 \in Nat
      BY <1>2, <1>4, <2>2
    <3>2. v <= mCount + 2 \/ v > mCount + 2
      BY <3>1
    <3>3. v > mCount + 2
      BY <1>6, <2>2, <3>2
    <3>4. mLeader'[v] = mCount + 2 /\ mCount + 2 \in new
      BY <1>7, <2>2, <3>3
    <3> QED
      BY <1>2, <3>1, <3>3, <3>4
  <2> QED
    BY <1>2, <2>1, <2>2
<1>17. LeadersPlacedFirst'
  BY <1>2, <1>5, <1>9 DEF Inv, LeadersPlacedFirst
<1>18. PointersAreReadable'
  <2> SUFFICES ASSUME NEW v \in gVehicles'
               PROVE  v \in heap' /\ (mLeader'[v] # NoLeader => mLeader'[v] \in heap')
    BY DEF PointersAreReadable
  <2>1. CASE v \in gVehicles
    <3>1. mLeader'[v] = mLeader[v]
      BY <1>5, <1>8, <2>1
    <3>2. v \in heap /\ (mLeader[v] # NoLeader => mLeader[v] \in heap)
      BY <1>3, <2>1 DEF Inv, PointersAreReadable
    <3> QED
      BY <1>2, <3>1, <3>2
  <2>2. CASE v \in new
    <3>1. v \in Nat /\ mCount + 2 \in Nat
      BY <1>2, <1>4, <2>2
    <3>2. v <= mCount + 2 \/ v > mCount + 2
      BY <3>1
    <3>3. mLeader'[v] = NoLeader \/ mLeader'[v] \in new
      BY <1>6, <1>7, <2>2, <3>2
    <3> QED
      BY <1>2, <2>2, <3>3
  <2> QED
    BY <1>2, <2>1, <2>2
<1> QED
  BY <1>10, <1>12, <1>13, <1>14, <1>15, <1>16, <1>17, <1>18 DEF Inv

\* What a turn of either loop does to the plane at the iterator: if it follows
\* another, that one was placed in this loop or in one before.
LEMMA TurnKeepsPlaces ==
  ASSUME Inv, NEW v \in Number, AtIterator(v), UpdatePosition(v),
         pc \in {"menu", "enemies"}, mCount' \in Number, mCount <= mCount',
         todo' = todo \ {v},
         UNCHANGED <<heap, gVehicles, bombers, mLeader, mDead, pc>>
  PROVE  /\ mCurrentWayPoint' \in [Number -> Nat] /\ placed' \subseteq Number
         /\ \A u \in Number :
              mCurrentWayPoint'[u]
                < IF mLeader'[u] = NoLeader THEN PathLength(u)' ELSE 1
         /\ Unborn' /\ PlacedInTurn' /\ LeadersAhead' /\ LeadersPlacedFirst'
         /\ PointersAreReadable'
<1> USE FormationAssumption DEF Number
<1>1. v \in todo /\ v \in gVehicles /\ (\A u \in todo : v <= u)
  BY DEF AtIterator, Inv, PlacedInTurn
<1>2. v < mCount /\ mCount \in Nat
  BY <1>1 DEF Inv, Unborn, TypeOK
<1>3. placed' = placed \cup {v}
  BY DEF UpdatePosition
<1>4. /\ mCurrentWayPoint \in [Number -> Nat]
      /\ \A u \in Number :
           mCurrentWayPoint[u] < IF mLeader[u] = NoLeader THEN PathLength(u) ELSE 1
      /\ \A u \in Number : PathLength(u) \in Nat \ {0} /\ PathLength(u)' = PathLength(u)
  BY DEF Inv, TypeOK, PathLength
<1>5. mCurrentWayPoint' \in [Number -> Nat]
      /\ \A u \in Number :
           mCurrentWayPoint'[u]
             < IF mLeader'[u] = NoLeader THEN PathLength(u)' ELSE 1
  <2>1. CASE mCurrentWayPoint' = mCurrentWayPoint
    BY <1>4, <2>1
  <2>2. CASE /\ mLeader[v] = NoLeader
             /\ mCurrentWayPoint' = [mCurrentWayPoint EXCEPT ![v] = NextWayPoint(v)]
    <3>1. NextWayPoint(v) \in Nat /\ NextWayPoint(v) < PathLength(v)
      <4>1. /\ mCurrentWayPoint[v] \in Nat /\ PathLength(v) \in Nat
            /\ mCurrentWayPoint[v] < PathLength(v)
        BY <1>4, <2>2
      <4>2. CASE mCurrentWayPoint[v] + 1 = PathLength(v)
        BY <4>1, <4>2 DEF NextWayPoint
      <4>3. CASE mCurrentWayPoint[v] + 1 # PathLength(v)
        BY <4>1, <4>3 DEF NextWayPoint
      <4> QED
        BY <4>2, <4>3
    <3>2. \A u \in Number :
            mCurrentWayPoint'[u] = IF u = v THEN NextWayPoint(v) ELSE mCurrentWayPoint[u]
      BY <1>4, <2>2
    <3>3. mCurrentWayPoint' \in [Number -> Nat]
      BY <1>4, <2>2, <3>1
    <3> QED
      BY <1>4, <2>2, <3>1, <3>2, <3>3
  <2> QED
    BY <2>1, <2>2 DEF UpdatePosition
<1>6. Unborn'
  <2> SUFFICES ASSUME NEW u \in Number, u >= mCount'
               PROVE  /\ u \notin gVehicles' /\ u \notin placed' /\ u \notin bombers'
                      /\ mLeader'[u] = NoLeader /\ mCurrentWayPoint'[u] = 0
    BY DEF Unborn
  <2>1. u >= mCount /\ u # v
    BY <1>2
  <2>2. mCurrentWayPoint'[u] = mCurrentWayPoint[u]
    BY <1>4, <2>1 DEF UpdatePosition
  <2> QED
    BY <1>3, <2>1, <2>2 DEF Inv, Unborn
<1>7. PlacedInTurn'
  BY <1>1, <1>3 DEF Inv, PlacedInTurn
<1>8. LeadersAhead'
  BY <1>3 DEF Inv, LeadersAhead
<1>9. mLeader[v] # NoLeader => mLeader[v] \in placed
  <2> SUFFICES ASSUME mLeader[v] # NoLeader, mLeader[v] \notin placed
               PROVE  FALSE
    OBVIOUS
  <2>1. mLeader[v] < v /\ mLeader[v] \in gVehicles
    BY <1>1 DEF Inv, LeadersAhead
  <2>2. mLeader[v] \in todo
    BY <2>1 DEF Inv, PlacedInTurn
  <2>3. v <= mLeader[v]
    BY <1>1, <2>2
  <2>4. mLeader[v] \in Nat
    BY <2>1 DEF Inv, TypeOK
  <2> QED
    BY <2>1, <2>3, <2>4
<1>10. LeadersPlacedFirst'
  BY <1>3, <1>9 DEF Inv, LeadersPlacedFirst
<1>11. PointersAreReadable'
  BY DEF Inv, PointersAreReadable
<1> QED
  BY <1>3, <1>5, <1>6, <1>7, <1>8, <1>10, <1>11 DEF Inv, TypeOK

LEMMA MenuTurnKeepsInv ==
  ASSUME Inv, NEW v \in Number, MenuTurn(v)
  PROVE  Inv'
<1>1. /\ pc = "menu" /\ AtIterator(v) /\ UpdatePosition(v) /\ todo' = todo \ {v}
      /\ UNCHANGED <<heap, gVehicles, bombers, mLeader, mDead, pc>>
      /\ UNCHANGED <<mCount, nodes, refused, mMissiles, mGameStart>>
  BY DEF MenuTurn
<1>2. mCount' \in Number /\ mCount <= mCount'
  BY <1>1 DEF Inv, TypeOK, Number
<1>3. /\ mCurrentWayPoint' \in [Number -> Nat] /\ placed' \subseteq Number
      /\ \A u \in Number :
           mCurrentWayPoint'[u] < IF mLeader'[u] = NoLeader THEN PathLength(u)' ELSE 1
      /\ Unborn' /\ PlacedInTurn' /\ LeadersAhead' /\ LeadersPlacedFirst'
      /\ PointersAreReadable'
  BY <1>1, <1>2, TurnKeepsPlaces
<1>4. TypeOK'
  BY <1>1, <1>3 DEF Inv, TypeOK
<1>5. NamesCounted' /\ NamesAccepted'
  BY <1>1 DEF Inv, NamesCounted, NamesAccepted
<1> QED
  BY <1>3, <1>4, <1>5 DEF Inv

\* A missile is named by a number no missile has had.
LEMMA LaunchNames ==
  ASSUME Inv, NEW v \in Number, Launch(v)
  PROVE  /\ mCount' \in Number /\ mCount <= mCount'
         /\ nodes' \subseteq {"planeNode", "missileNode", "bombNode"} \X Number
         /\ NamesCounted' /\ NamesAccepted' /\ refused' \in BOOLEAN
<1> USE DEF Number
<1>1. PICK kind \in {"missileNode", "bombNode"} :
        /\ nodes' = nodes \cup {<<kind, mCount'>>}
        /\ refused' = (refused \/ nodes \cap {<<kind, mCount'>>} # {})
  BY DEF Launch, CreateNodes
<1>2. mCount \in Nat /\ mCount < MaxCount /\ mCount' = mCount + 1 /\ MaxCount \in Nat
  BY FormationAssumption DEF Launch, Inv, TypeOK
<1>3. mCount' \in Number /\ mCount <= mCount' /\ ~(mCount' <= mCount)
  BY <1>2
<1>4. <<kind, mCount'>> \notin nodes
  BY <1>3 DEF Inv, NamesCounted
<1>5. NamesAccepted'
  BY <1>1, <1>4 DEF Inv, NamesAccepted
<1>6. NamesCounted'
  <2> SUFFICES ASSUME NEW k \in Number
               PROVE  /\ <<"planeNode", k>> \in nodes' => k < mCount'
                      /\ <<"missileNode", k>> \in nodes' \/ <<"bombNode", k>> \in nodes'
                           => k <= mCount'
    BY DEF NamesCounted
  <2>1. ASSUME <<"planeNode", k>> \in nodes' PROVE k < mCount'
    <3>1. <<"planeNode", k>> \in nodes
      BY <1>1, <2>1
    <3>2. k < mCount
      BY <3>1 DEF Inv, NamesCounted
    <3> QED
      BY <1>2, <3>2
  <2>2. ASSUME <<"missileNode", k>> \in nodes' \/ <<"bombNode", k>> \in nodes'
        PROVE  k <= mCount'
    <3>1. \/ <<"missileNode", k>> \in nodes \/ <<"bombNode", k>> \in nodes
          \/ k = mCount'
      BY <1>1, <2>2
    <3>2. k <= mCount \/ k = mCount'
      BY <3>1 DEF Inv, NamesCounted
    <3> QED
      BY <1>2, <3>2
  <2> QED
    BY <2>1, <2>2
<1>7. nodes' \subseteq {"planeNode", "missileNode", "bombNode"} \X Number
  BY <1>1, <1>3 DEF Inv, TypeOK
<1> QED
  BY <1>1, <1>3, <1>5, <1>6, <1>7 DEF NamesAccepted

LEMMA EnemyTurnKeepsInv ==
  ASSUME Inv, NEW v \in Number, EnemyTurn(v)
  PROVE  Inv'
<1>1. /\ pc = "enemies" /\ AtIterator(v) /\ UpdatePosition(v) /\ todo' = todo \ {v}
      /\ UNCHANGED <<heap, gVehicles, bombers, mLeader, mDead, pc>>
      /\ Launch(v) \/ UNCHANGED <<mCount, nodes, refused>>
  BY DEF EnemyTurn
<1>2. mMissiles' \in [Number -> Nat]
  <2>1. PICK fires \in {0, 1} : \E flying \in 0 .. mMissiles[v] + fires :
          mMissiles' = [mMissiles EXCEPT ![v] = flying]
    BY DEF EnemyTurn
  <2> QED
    BY <2>1 DEF Inv, TypeOK
<1>3. mGameStart' \in BOOLEAN
  <2>1. mGameStart' = mGameStart \/ mGameStart' = FALSE
    BY DEF EnemyTurn
  <2>2. mGameStart \in BOOLEAN
    BY DEF Inv, TypeOK
  <2> QED
    BY <2>1, <2>2
<1>4. /\ mCount' \in Number /\ mCount <= mCount'
      /\ nodes' \subseteq {"planeNode", "missileNode", "bombNode"} \X Number
      /\ NamesCounted' /\ NamesAccepted' /\ refused' \in BOOLEAN
  <2>1. CASE Launch(v)
    BY <2>1, LaunchNames
  <2>2. CASE UNCHANGED <<mCount, nodes, refused>>
    <3>1. mCount' \in Number /\ mCount <= mCount'
      BY <2>2 DEF Inv, TypeOK, Number
    <3>2. nodes' \subseteq {"planeNode", "missileNode", "bombNode"} \X Number
      BY <2>2 DEF Inv, TypeOK
    <3>3. NamesCounted' /\ NamesAccepted'
      BY <2>2 DEF Inv, NamesCounted, NamesAccepted
    <3>4. refused' \in BOOLEAN
      BY <2>2 DEF Inv, TypeOK
    <3> QED
      BY <3>1, <3>2, <3>3, <3>4
  <2> QED
    BY <1>1, <2>1, <2>2
<1>5. /\ mCurrentWayPoint' \in [Number -> Nat] /\ placed' \subseteq Number
      /\ \A u \in Number :
           mCurrentWayPoint'[u] < IF mLeader'[u] = NoLeader THEN PathLength(u)' ELSE 1
      /\ Unborn' /\ PlacedInTurn' /\ LeadersAhead' /\ LeadersPlacedFirst'
      /\ PointersAreReadable'
  BY <1>1, <1>4, TurnKeepsPlaces
<1>6. TypeOK'
  BY <1>1, <1>2, <1>3, <1>4, <1>5 DEF Inv, TypeOK
<1> QED
  BY <1>4, <1>5, <1>6 DEF Inv

\* A plane that leaves the list was hit, so it was placed.
LEMMA RemoveVehicleKeepsInv ==
  ASSUME Inv, NEW v \in Number, RemoveVehicle(v)
  PROVE  Inv'
<1>1. v \in placed
  BY DEF RemoveVehicle, Inv, PlacedInTurn
<1>2. /\ gVehicles' = gVehicles \ {v} /\ todo' = todo \ {v}
      /\ pc = "enemies"
      /\ UNCHANGED <<mCount, nodes, refused, heap, bombers, mLeader, placed,
                     mCurrentWayPoint, mDead, mMissiles, mGameStart, pc>>
  BY DEF RemoveVehicle
<1>3. TypeOK'
  BY <1>2 DEF Inv, TypeOK, PathLength
<1>4. NamesCounted' /\ NamesAccepted' /\ Unborn'
  BY <1>2 DEF Inv, NamesCounted, NamesAccepted, Unborn
<1>5. PlacedInTurn' /\ LeadersAhead'
  BY <1>1, <1>2 DEF Inv, PlacedInTurn, LeadersAhead
<1>6. LeadersPlacedFirst' /\ PointersAreReadable'
  BY <1>2 DEF Inv, LeadersPlacedFirst, PointersAreReadable
<1> QED
  BY <1>3, <1>4, <1>5, <1>6 DEF Inv

LEMMA OthersKeepInv ==
  ASSUME Inv, LoopDone \/ UpdateBullets \/ ResetGame \/ Quit
  PROVE  Inv'
<1> USE DEF objects
<1>1. CASE LoopDone
  <2>1. /\ todo = {} /\ todo' = todo /\ pc' \in {"frame", "bullets"}
        /\ UNCHANGED <<mCount, nodes, refused, objects, mCurrentWayPoint, mDead,
                       mMissiles, mGameStart>>
        /\ pc # "quit"
    BY <1>1 DEF LoopDone
  <2>2. TypeOK'
    BY <2>1 DEF Inv, TypeOK, PathLength
  <2>3. NamesCounted' /\ NamesAccepted' /\ Unborn' /\ PlacedInTurn'
    BY <2>1 DEF Inv, NamesCounted, NamesAccepted, Unborn, PlacedInTurn
  <2>4. LeadersAhead' /\ LeadersPlacedFirst' /\ PointersAreReadable'
    BY <2>1 DEF Inv, LeadersAhead, LeadersPlacedFirst, PointersAreReadable
  <2> QED
    BY <2>2, <2>3, <2>4 DEF Inv
<1>2. CASE UpdateBullets
  <2>1. /\ pc = "bullets" /\ pc' = "frame"
        /\ mDead' \subseteq mDead \cup gVehicles
        /\ UNCHANGED <<mCount, nodes, refused, objects, mCurrentWayPoint,
                       mMissiles, mGameStart, todo>>
    BY <1>2 DEF UpdateBullets
  <2>2. TypeOK'
    BY <2>1 DEF Inv, TypeOK, PathLength
  <2>3. NamesCounted' /\ NamesAccepted' /\ Unborn' /\ PlacedInTurn'
    BY <2>1 DEF Inv, NamesCounted, NamesAccepted, Unborn, PlacedInTurn
  <2>4. LeadersAhead' /\ LeadersPlacedFirst' /\ PointersAreReadable'
    BY <2>1 DEF Inv, LeadersAhead, LeadersPlacedFirst, PointersAreReadable
  <2> QED
    BY <2>2, <2>3, <2>4 DEF Inv
<1>3. CASE ResetGame
  <2>1. /\ pc = "frame" /\ gVehicles' = {} /\ mGameStart' = TRUE
        /\ mMissiles' = [v \in Number |-> IF v \in gVehicles THEN 0 ELSE mMissiles[v]]
        /\ UNCHANGED <<mCount, nodes, refused, heap, bombers, mLeader, placed,
                       mCurrentWayPoint, mDead, pc, todo>>
    BY <1>3 DEF ResetGame
  <2>2. mMissiles' \in [Number -> Nat]
    BY <2>1 DEF Inv, TypeOK
  <2>3. TypeOK'
    BY <2>1, <2>2 DEF Inv, TypeOK, PathLength
  <2>4. NamesCounted' /\ NamesAccepted' /\ Unborn' /\ PlacedInTurn'
    BY <2>1 DEF Inv, NamesCounted, NamesAccepted, Unborn, PlacedInTurn
  <2>5. LeadersAhead' /\ LeadersPlacedFirst' /\ PointersAreReadable'
    BY <2>1 DEF Inv, LeadersAhead, LeadersPlacedFirst, PointersAreReadable
  <2> QED
    BY <2>3, <2>4, <2>5 DEF Inv
<1>4. CASE Quit
  <2>1. /\ pc = "frame" /\ pc' = "quit" /\ heap' \subseteq heap
        /\ UNCHANGED <<mCount, nodes, refused, gVehicles, bombers, mLeader, placed,
                       mCurrentWayPoint, mDead, mMissiles, mGameStart, todo>>
    BY <1>4 DEF Quit
  <2>2. TypeOK'
    BY <2>1 DEF Inv, TypeOK, PathLength
  <2>3. NamesCounted' /\ NamesAccepted' /\ Unborn' /\ PlacedInTurn'
    BY <2>1 DEF Inv, NamesCounted, NamesAccepted, Unborn, PlacedInTurn
  <2>4. LeadersAhead' /\ LeadersPlacedFirst' /\ PointersAreReadable'
    BY <2>1 DEF Inv, LeadersAhead, LeadersPlacedFirst, PointersAreReadable
  <2> QED
    BY <2>2, <2>3, <2>4 DEF Inv
<1> QED
  BY <1>1, <1>2, <1>3, <1>4

LEMMA InvHolds == Spec => []Inv
<1>1. Inv /\ [Next]_vars => Inv'
  <2> SUFFICES ASSUME Inv, [Next]_vars
               PROVE  Inv'
    OBVIOUS
  <2>1. CASE BeginFrame
    BY <2>1, BeginFrameKeepsInv
  <2>2. ASSUME NEW v \in Number, MenuTurn(v) \/ EnemyTurn(v) \/ RemoveVehicle(v)
        PROVE  Inv'
    BY <2>2, MenuTurnKeepsInv, EnemyTurnKeepsInv, RemoveVehicleKeepsInv
  <2>3. CASE LoopDone \/ UpdateBullets \/ ResetGame \/ Quit
    BY <2>3, OthersKeepInv
  <2>4. CASE UNCHANGED vars
    <3>1. TypeOK'
      BY <2>4 DEF vars, objects, Inv, TypeOK, PathLength
    <3>2. NamesCounted' /\ NamesAccepted' /\ Unborn' /\ PlacedInTurn'
      BY <2>4 DEF vars, objects, Inv, NamesCounted, NamesAccepted, Unborn, PlacedInTurn
    <3>3. LeadersAhead' /\ LeadersPlacedFirst' /\ PointersAreReadable'
      BY <2>4 DEF vars, objects, Inv, LeadersAhead, LeadersPlacedFirst,
                  PointersAreReadable
    <3> QED
      BY <3>1, <3>2, <3>3 DEF Inv
  <2> QED
    BY <2>1, <2>2, <2>3, <2>4 DEF Next
<1> QED
  BY <1>1, InitInv, PTL DEF Spec

\* No waypoint is read that a plane does not have; counters keep their ranges.
THEOREM TypeIsOK == Spec => []TypeOK
<1>1. Inv => TypeOK
  BY DEF Inv
<1> QED
  BY <1>1, InvHolds, PTL

\* The numbers of mCount never make the scene manager throw, however planes and
\* missiles alternate.
THEOREM NamesAlwaysAccepted == Spec => []NamesAccepted
<1>1. Inv => NamesAccepted
  BY DEF Inv
<1> QED
  BY <1>1, InvHolds, PTL

\* offsetPursuit never reads a deleted leader.
THEOREM PointersAlwaysReadable == Spec => []PointersAreReadable
<1>1. Inv => PointersAreReadable
  BY DEF Inv
<1> QED
  BY <1>1, InvHolds, PTL

\* offsetPursuit never reads a node that has no position yet.
THEOREM LeadersAlwaysPlacedFirst == Spec => []LeadersPlacedFirst
<1>1. Inv => LeadersPlacedFirst
  BY DEF Inv
<1> QED
  BY <1>1, InvHolds, PTL

-----------------------------------------------------------------------------
(* What becomes of the planes that leave the list                           *)

\* The planes ever made, by the names of their nodes.
Made == {v \in Number : <<"planeNode", v>> \in nodes}

\* No plane is deleted before the program ends, and then those still in the
\* list: each plane that updateEnemies or clearVehicles took out is never freed.
PlanesAreKept == heap = IF pc = "quit" THEN Made \ gVehicles ELSE Made

LEMMA MadeByWaves ==
  ASSUME TypeOK, PlanesAreKept, BeginFrame
  PROVE  PlanesAreKept'
<1>1. PICK n \in {0, 2, 5} : Spawn(n)
  BY DEF BeginFrame
<1> DEFINE new == mCount .. mCount + n - 1
<1>2. /\ nodes' = nodes \cup {"planeNode"} \X new
      /\ heap' = heap \cup new
      /\ mCount + n <= MaxCount
  BY <1>1 DEF Spawn, CreateNodes
<1>3. new \subseteq Number
  BY <1>2, FormationAssumption DEF TypeOK, Number
<1>4. pc # "quit" /\ pc' # "quit"
  BY DEF BeginFrame
<1> HIDE DEF new
<1>5. Made' = Made \cup new
  BY <1>2, <1>3 DEF Made
<1> QED
  BY <1>2, <1>4, <1>5 DEF PlanesAreKept

\* The node of a missile or a bomb has a name of another kind.
LEMMA LaunchMakesNoPlane ==
  ASSUME NEW v, Launch(v)
  PROVE  Made' = Made
<1>1. PICK kind \in {"missileNode", "bombNode"} : nodes' = nodes \cup {<<kind, mCount'>>}
  BY DEF Launch, CreateNodes
<1>2. \A u \in Number : <<kind, mCount'>> # <<"planeNode", u>>
  OBVIOUS
<1> QED
  BY <1>1, <1>2 DEF Made

LEMMA StepPlanes ==
  TypeOK /\ PlanesAreKept /\ [Next]_vars => PlanesAreKept'
<1> SUFFICES ASSUME TypeOK, PlanesAreKept, [Next]_vars
             PROVE  PlanesAreKept'
  OBVIOUS
<1> USE DEF objects
<1>1. CASE BeginFrame
  BY <1>1, MadeByWaves
<1>2. ASSUME NEW v \in Number, MenuTurn(v) \/ RemoveVehicle(v)
      PROVE  PlanesAreKept'
  BY <1>2 DEF MenuTurn, RemoveVehicle, UpdatePosition, PlanesAreKept, Made
<1>3. ASSUME NEW v \in Number, EnemyTurn(v)
      PROVE  PlanesAreKept'
  <2>1. Made' = Made
    <3>1. Launch(v) \/ UNCHANGED nodes
      BY <1>3 DEF EnemyTurn
    <3> QED
      BY <3>1, LaunchMakesNoPlane DEF Made
  <2>2. pc = "enemies" /\ UNCHANGED <<heap, pc>>
    BY <1>3 DEF EnemyTurn
  <2> QED
    BY <2>1, <2>2 DEF PlanesAreKept
<1>4. CASE LoopDone \/ UpdateBullets \/ ResetGame
  BY <1>4 DEF LoopDone, UpdateBullets, ResetGame, PlanesAreKept, Made
<1>5. CASE Quit
  BY <1>5 DEF Quit, PlanesAreKept, Made
<1>6. CASE UNCHANGED vars
  BY <1>6 DEF vars, PlanesAreKept, Made
<1> QED
  BY <1>1, <1>2, <1>3, <1>4, <1>5, <1>6 DEF Next

\* updateEnemies (BaseCommandFrameListener.cpp 522-543) and clearVehicles erase
\* entries of gVehicles and delete no plane, which is what the followers of a
\* leader that is gone rely on; the memory is not given back while the program
\* runs, and after the last frame that of the listed planes alone.
THEOREM PlanesAreAlwaysKept == Spec => []PlanesAreKept
<1>1. Init => PlanesAreKept
  BY DEF Init, PlanesAreKept, Made
<1> QED
  BY <1>1, StepPlanes, TypeIsOK, PTL DEF Spec
==============================================================================
