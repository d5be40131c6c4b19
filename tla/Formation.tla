------------------------------ MODULE Formation ------------------------------
(***************************************************************************)
(* The planes of src/BaseCommand/src/Vehicle.cpp and SteeringBehaviors.cpp  *)
(* as objects: the numbers mCount gives to the scene nodes of planes and    *)
(* missiles, the pointers followers keep to their leader, the waypoints.    *)
(* A plane is identified by its number.  push_back puts a new number after  *)
(* the others, so that the order of gVehicles is the order of the numbers.  *)
(* A frame is a wave, the loop of updateMenuScene or updateEnemies over the *)
(* list, and in a game the bullets that kill.                               *)
(***************************************************************************)
EXTENDS Naturals

CONSTANTS
  FighterPath, BomberPath,  \* how many waypoints they fly: 6 and 4
  NoLeader,
  MaxCount                  \* bound: the planes and missiles ever made

ASSUME FormationAssumption ==
  /\ FighterPath \in Nat \ {0} /\ BomberPath \in Nat \ {0}
  /\ MaxCount \in Nat
  /\ NoLeader \notin Nat

VARIABLES
  mCount,
  nodes,            \* the names of the scene nodes made: none is destroyed
  refused,          \* the scene manager has thrown: a name was taken
  heap,             \* planes allocated and not deleted
  gVehicles,        \* planes in the list
  bombers,          \* planes whose mType is BOMBER
  mLeader,
  mCurrentWayPoint,
  placed,           \* planes whose node was given a position they flew to
  mDead,            \* planes whose mDead is set
  mMissiles,        \* how many missiles of each plane are in the air
  mGameStart,
  pc,               \* "frame", "menu", "enemies", "bullets" or "quit"
  todo              \* planes the loop has still to visit

objects == <<heap, gVehicles, bombers, mLeader, placed>>
vars == <<mCount, nodes, refused, objects, mCurrentWayPoint, mDead, mMissiles,
          mGameStart, pc, todo>>

Number == 0 .. MaxCount

-----------------------------------------------------------------------------

Init ==
  /\ mCount = 0 /\ nodes = {} /\ refused = FALSE
  /\ heap = {} /\ gVehicles = {} /\ bombers = {} /\ placed = {} /\ mDead = {}
  /\ mLeader = [v \in Number |-> NoLeader]
  /\ mCurrentWayPoint = [v \in Number |-> 0]
  /\ mMissiles = [v \in Number |-> 0]
  /\ mGameStart = FALSE
  /\ pc = "frame" /\ todo = {}

\* createChildSceneNode throws if it is given a name it has.
CreateNodes(names) ==
  /\ nodes' = nodes \cup names
  /\ refused' = (refused \/ names \cap nodes # {})

\* The wave of spawnPlane and spawnBomber, and with five planes that of
\* spawnPursuitOn too, whose first plane leads the others.
Spawn(n) ==
  LET new == mCount .. mCount + n - 1
  IN  /\ mCount + n <= MaxCount
      /\ mCount' = mCount + n
      /\ CreateNodes({"planeNode"} \X new)
      /\ heap' = heap \cup new /\ gVehicles' = gVehicles \cup new
      /\ bombers' = IF n > 0 THEN bombers \cup {mCount + 1} ELSE bombers
      /\ mLeader' = [v \in Number |->
                       IF v \in new /\ v > mCount + 2 THEN mCount + 2
                       ELSE mLeader[v]]
      /\ UNCHANGED placed

BeginFrame ==
  /\ pc = "frame"
  /\ \E n \in IF mGameStart THEN {0, 2, 5} ELSE {0, 5} : Spawn(n)
  /\ todo' = gVehicles'
  /\ pc' = IF mGameStart THEN "enemies" ELSE "menu"
  /\ UNCHANGED <<mCurrentWayPoint, mDead, mMissiles, mGameStart>>

\* Mutant: the newest planes come first in the list.
AtIteratorReversed(v) == v \in todo /\ \A u \in todo : u <= v

\* The iterator is at v.
AtIterator(v) == v \in todo /\ \A u \in todo : v <= u

PathLength(v) == IF v \in bombers THEN BomberPath ELSE FighterPath

\* Mutant: the index is compared before it is advanced.
NextWayPointLate(v) ==
  IF mCurrentWayPoint[v] = PathLength(v) THEN 0 ELSE mCurrentWayPoint[v] + 1

\* followPath, at less than 100 units of the waypoint.
NextWayPoint(v) ==
  IF mCurrentWayPoint[v] + 1 = PathLength(v) THEN 0 ELSE mCurrentWayPoint[v] + 1

\* updatePosition: a follower steers by the node of its leader, whatever has
\* become of that plane, and never moves along its path of one waypoint.
UpdatePosition(v) ==
  /\ mCurrentWayPoint' \in
       {mCurrentWayPoint} \cup
       (IF mLeader[v] = NoLeader
          THEN {[mCurrentWayPoint EXCEPT ![v] = NextWayPoint(v)]} ELSE {})
  /\ placed' = placed \cup {v}

MenuTurn(v) ==
  /\ pc = "menu" /\ AtIterator(v)
  /\ UpdatePosition(v)
  /\ todo' = todo \ {v}
  /\ UNCHANGED <<mCount, nodes, refused, heap, gVehicles, bombers, mLeader,
                 mDead, mMissiles, mGameStart, pc>>

\* Mutant: a missile shares the number of the last one.
LaunchUncounted(v) ==
  /\ mCount < MaxCount
  /\ CreateNodes({<<IF v \in bombers THEN "bombNode" ELSE "missileNode", mCount>>})
  /\ UNCHANGED mCount

\* fireMissile, or dropBomb of a bomber: the number is advanced first.
Launch(v) ==
  /\ mCount < MaxCount
  /\ mCount' = mCount + 1
  /\ CreateNodes({<<IF v \in bombers THEN "bombNode" ELSE "missileNode", mCount'>>})

\* Vehicle::update: some of the missiles land, the last house perhaps with one.
EnemyTurn(v) ==
  /\ pc = "enemies" /\ AtIterator(v)
  /\ v \notin mDead \/ mMissiles[v] > 0
  /\ UpdatePosition(v)
  /\ \E fires \in {0, 1} :
       /\ IF fires = 1 THEN Launch(v) ELSE UNCHANGED <<mCount, nodes, refused>>
       /\ \E flying \in 0 .. mMissiles[v] + fires :
            /\ mMissiles' = [mMissiles EXCEPT ![v] = flying]
            /\ \/ UNCHANGED mGameStart
               \/ flying < mMissiles[v] + fires /\ mGameStart' = FALSE
  /\ todo' = todo \ {v}
  /\ UNCHANGED <<heap, gVehicles, bombers, mLeader, mDead, pc>>

\* Mutant: the plane is deleted with its entry.
RemoveVehicleDeletes(v) ==
  /\ pc = "enemies" /\ AtIterator(v)
  /\ v \in mDead /\ mMissiles[v] = 0
  /\ gVehicles' = gVehicles \ {v}
  /\ heap' = heap \ {v}
  /\ todo' = todo \ {v}
  /\ UNCHANGED <<mCount, nodes, refused, bombers, mLeader, placed,
                 mCurrentWayPoint, mDead, mMissiles, mGameStart, pc>>

\* updateEnemies erases the entry of the list; the plane is never deleted.
RemoveVehicle(v) ==
  /\ pc = "enemies" /\ AtIterator(v)
  /\ v \in mDead /\ mMissiles[v] = 0
  /\ gVehicles' = gVehicles \ {v}
  /\ todo' = todo \ {v}
  /\ UNCHANGED <<mCount, nodes, refused, heap, bombers, mLeader, placed,
                 mCurrentWayPoint, mDead, mMissiles, mGameStart, pc>>

LoopDone ==
  /\ pc \in {"menu", "enemies"} /\ todo = {}
  /\ pc' = IF pc = "enemies" THEN "bullets" ELSE "frame"
  /\ UNCHANGED <<mCount, nodes, refused, objects, mCurrentWayPoint, mDead,
                 mMissiles, mGameStart, todo>>

\* updateBullets kills some of the planes in the list.
UpdateBullets ==
  /\ pc = "bullets" /\ pc' = "frame"
  /\ \E hit \in SUBSET gVehicles : mDead' = mDead \cup hit
  /\ UNCHANGED <<mCount, nodes, refused, objects, mCurrentWayPoint, mMissiles,
                 mGameStart, todo>>

\* clearMissiles of the planes in the list, and clearVehicles.
ResetGame ==
  /\ pc = "frame" /\ ~mGameStart
  /\ mGameStart' = TRUE
  /\ mMissiles' = [v \in Number |-> IF v \in gVehicles THEN 0 ELSE mMissiles[v]]
  /\ gVehicles' = {}
  /\ UNCHANGED <<mCount, nodes, refused, heap, bombers, mLeader, placed,
                 mCurrentWayPoint, mDead, pc, todo>>

\* Rendering ends; the destructor of BaseCommandApp deletes what is listed.
Quit ==
  /\ pc = "frame" /\ pc' = "quit"
  /\ heap' = heap \ gVehicles
  /\ UNCHANGED <<mCount, nodes, refused, gVehicles, bombers, mLeader, placed,
                 mCurrentWayPoint, mDead, mMissiles, mGameStart, todo>>

Next ==
  \/ BeginFrame \/ LoopDone \/ UpdateBullets \/ ResetGame \/ Quit
  \/ \E v \in Number : MenuTurn(v) \/ EnemyTurn(v) \/ RemoveVehicle(v)

Spec == Init /\ [][Next]_vars

-----------------------------------------------------------------------------

\* An index is of a waypoint the plane has: followers have one.
TypeOK ==
  /\ mCount \in Number
  /\ nodes \subseteq {"planeNode", "missileNode", "bombNode"} \X Number
  /\ refused \in BOOLEAN /\ mGameStart \in BOOLEAN
  /\ heap \subseteq Number /\ gVehicles \subseteq Number /\ todo \subseteq Number
  /\ bombers \subseteq Number /\ placed \subseteq Number /\ mDead \subseteq Number
  /\ mLeader \in [Number -> Number \cup {NoLeader}]
  /\ mMissiles \in [Number -> Nat]
  /\ mCurrentWayPoint \in [Number -> Nat]
  /\ \A v \in Number :
       mCurrentWayPoint[v] < IF mLeader[v] = NoLeader THEN PathLength(v) ELSE 1
  /\ pc \in {"frame", "menu", "enemies", "bullets", "quit"}

\* One counter names planes, missiles and bombs, counted after a plane and
\* before a missile, and clearing them destroys no node: yet the scene manager
\* is never asked for a name it has, in however many games.
NamesAccepted == ~refused

\* Every plane in the list, and the leader of each, is still allocated, although
\* a leader leaves the list before its followers: offsetPursuit reads a plane.
PointersAreReadable ==
  pc # "quit" =>
    \A v \in gVehicles :
      v \in heap /\ (mLeader[v] # NoLeader => mLeader[v] \in heap)

\* A follower never steers by a node its leader has not been placed at: the
\* position in a new node is not initialised.
LeadersPlacedFirst ==
  \A v \in placed : mLeader[v] # NoLeader => mLeader[v] \in placed
==============================================================================
