---------------------------- MODULE SoundManager ----------------------------
(***************************************************************************)
(* The sounds of src/BaseCommand/src/SoundManager.cpp: a vector of sound    *)
(* instances that grows while callers hold indices into it, and an array    *)
(* that remembers, for each FMOD channel, the scene node its sound is       *)
(* attached to.  Callers keep the channel of a sound in a variable of their *)
(* own, which PlaySound and StopSound read and write; nobody tells them     *)
(* when the sound ends or FMOD gives the channel to another.                *)
(*                                                                          *)
(* A sound is asked for by file name and type; a Key is such a pair.        *)
(* A position is the node it is of.  Set3DMinMaxDistance and the callbacks  *)
(* that read files hand their data on and are left out.  The size and the   *)
(* capacity of a vector made by resize() are the same.                      *)
(***************************************************************************)
EXTENDS Integers, FiniteSets

CONSTANTS
  Key,                   \* pairs of a file name and a SOUND_TYPE
  NoKey,                 \* those of a cleared instance
  Node, NoNode,          \* scene nodes, and the null pointer
  Caller,                \* the callers that pass a variable for the channel
  NoCaller,              \* one that passes a null pointer
  INITIAL_VECTOR_SIZE,
  INCREASE_VECTOR_SIZE,
  MAX_SOUND_CHANNELS

ASSUME SoundAssumption ==
  /\ NoKey \notin Key /\ NoNode \notin Node /\ NoCaller \notin Caller
  /\ INITIAL_VECTOR_SIZE \in Nat \ {0}
  /\ INCREASE_VECTOR_SIZE \in Nat \ {0}
  /\ MAX_SOUND_CHANNELS \in Nat \ {0}

INVALID_SOUND_INDEX == 0
INVALID_SOUND_CHANNEL == -1

Channel == 0 .. MAX_SOUND_CHANNELS - 1

VARIABLES
  slots,         \* *soundInstanceVector, a function on 0 .. capacity - 1
  capacity,      \* its size
  loaded,        \* the indices whose fmodSound is not null
  nextSoundInstanceIndex,
  channelArray,  \* the scene node of each channel
  prevPosition,  \* and the node whose place was stored with it last, if any
  playing,       \* FMOD: the index of the sound each channel plays, or 0
  channelIndex,  \* the variable of each caller
  issued,        \* history: the indices returned for each key
  attached       \* history: the node given with the last sound of a channel

vector   == <<slots, capacity, loaded, nextSoundInstanceIndex>>
channels == <<channelArray, prevPosition, playing, attached>>
vars     == <<vector, channels, channelIndex, issued>>

-----------------------------------------------------------------------------

Init ==
  /\ capacity = INITIAL_VECTOR_SIZE
  /\ slots = [k \in 0 .. INITIAL_VECTOR_SIZE - 1 |-> NoKey]
  /\ loaded = {}
  /\ nextSoundInstanceIndex = 0
  /\ channelArray = [c \in Channel |-> NoNode]
  /\ prevPosition = [c \in Channel |-> NoNode]
  /\ playing = [c \in Channel |-> INVALID_SOUND_INDEX]
  /\ channelIndex = [r \in Caller |-> INVALID_SOUND_CHANNEL]
  /\ issued = [key \in Key |-> {}]
  /\ attached = [c \in Channel |-> NoNode]

\* Mutant: sounds that failed to load are not found.
FoundLoaded(key) == {k \in 0 .. capacity - 1 : slots[k] = key /\ k \in loaded}

\* FindSound returns the first of these indices.
Found(key) == {k \in 0 .. capacity - 1 : slots[k] = key}

\* Mutant: the vector grows one sound too late.
GrownLate == IF nextSoundInstanceIndex + 1 <= capacity THEN capacity
             ELSE capacity + INCREASE_VECTOR_SIZE

\* IncrementNextSoundInstanceIndex: the capacity afterwards ...
Grown == IF nextSoundInstanceIndex + 1 < capacity THEN capacity
         ELSE capacity + INCREASE_VECTOR_SIZE

\* Mutant: the last instance is not copied.
CopiedShort(n) ==
  [k \in 0 .. n - 1 |-> IF k < capacity - 1 THEN slots[k] ELSE NoKey]

\* ... and the instances, n of them: those of before and cleared ones.
Copied(n) == [k \in 0 .. n - 1 |-> IF k < capacity THEN slots[k] ELSE NoKey]

Issue(key, k) == issued' = [issued EXCEPT ![key] = @ \cup {k}]

ReuseSound(key) ==
  /\ \E k \in Found(key) : /\ \A j \in Found(key) : k <= j
                           /\ Issue(key, k)
  /\ UNCHANGED <<vector, channels, channelIndex>>

\* Mutant: the index is incremented before the file is looked for.
MissingSoundCounts(key) ==
  /\ Found(key) = {}
  /\ capacity' = Grown
  /\ slots' = Copied(Grown)
  /\ nextSoundInstanceIndex' = nextSoundInstanceIndex + 1
  /\ UNCHANGED <<loaded, channels, channelIndex, issued>>

\* The file is in no archive: INVALID_SOUND_INDEX is returned.
MissingSound(key) ==
  /\ Found(key) = {}
  /\ UNCHANGED vars

\* The instance is filled in before FMOD is asked to load the sound, and stays
\* filled in when that fails; INVALID_SOUND_INDEX is returned then.
LoadSound(key) ==
  /\ Found(key) = {}
  /\ capacity' = Grown
  /\ nextSoundInstanceIndex' = nextSoundInstanceIndex + 1
  /\ slots' = [Copied(Grown) EXCEPT ![nextSoundInstanceIndex + 1] = key]
  /\ \/ /\ loaded' = loaded \cup {nextSoundInstanceIndex + 1}
        /\ Issue(key, nextSoundInstanceIndex + 1)
     \/ UNCHANGED <<loaded, issued>>
  /\ UNCHANGED <<channels, channelIndex>>

CreateSound(key) == ReuseSound(key) \/ MissingSound(key) \/ LoadSound(key)

-----------------------------------------------------------------------------

Held(r) == IF r = NoCaller THEN INVALID_SOUND_CHANNEL ELSE channelIndex[r]

Store(r, c) ==
  channelIndex' = IF r = NoCaller THEN channelIndex
                  ELSE [channelIndex EXCEPT ![r] = c]

\* The channel c the caller passes is playing, attached to this node.
AlreadyPlaying(c, node) ==
  /\ c # INVALID_SOUND_CHANNEL
  /\ channelArray[c] # NoNode
  /\ playing[c] # INVALID_SOUND_INDEX
  /\ channelArray[c] = node

\* FMOD_CHANNEL_FREE: a channel that plays nothing, or when there is none, the
\* one FMOD takes from the sound of least priority.
Free == LET silent == {c \in Channel : playing[c] = INVALID_SOUND_INDEX}
        IN  IF silent # {} THEN silent ELSE Channel

Issued == UNION {issued[key] : key \in Key}

SkipSound(r, node) ==
  /\ AlreadyPlaying(Held(r), node)
  /\ UNCHANGED vars

\* FMOD reports an error, as it does for a null sound.
PlayFails(r, node) ==
  /\ ~AlreadyPlaying(Held(r), node)
  /\ Store(r, INVALID_SOUND_CHANNEL)
  /\ UNCHANGED <<vector, channels, issued>>

\* Mutant: the place is not stored before the first frame of the sound.
PlacedLater(c, node) == prevPosition

\* A node's place is stored; a sound without a node leaves the one before.
Placed(c, node) == IF node = NoNode THEN prevPosition
                   ELSE [prevPosition EXCEPT ![c] = node]

\* Mutant: the node is only written when there is one.
PlayStartsKeepsNode(r, k, node) ==
  /\ ~AlreadyPlaying(Held(r), node)
  /\ k \in loaded
  /\ \E c \in Free :
       /\ channelArray' =
            IF node = NoNode THEN channelArray
            ELSE [channelArray EXCEPT ![c] = node]
       /\ prevPosition' = Placed(c, node)
       /\ playing' = [playing EXCEPT ![c] = k]
       /\ attached' = [attached EXCEPT ![c] = node]
       /\ Store(r, c)
  /\ UNCHANGED <<vector, issued>>

\* PlaySound, when FMOD has found a channel for the sound.
PlayStarts(r, k, node) ==
  /\ ~AlreadyPlaying(Held(r), node)
  /\ k \in loaded
  /\ \E c \in Free :
       /\ channelArray' = [channelArray EXCEPT ![c] = node]
       /\ prevPosition' = Placed(c, node)
       /\ playing' = [playing EXCEPT ![c] = k]
       /\ attached' = [attached EXCEPT ![c] = node]
       /\ Store(r, c)
  /\ UNCHANGED <<vector, issued>>

PlaySound(r, k, node) ==
  SkipSound(r, node) \/ PlayFails(r, node) \/ PlayStarts(r, k, node)

\* A sound that is not looped comes to its end; the manager is not told.
SoundEnds(c) ==
  /\ playing[c] # INVALID_SOUND_INDEX
  /\ playing' = [playing EXCEPT ![c] = INVALID_SOUND_INDEX]
  /\ UNCHANGED <<vector, channelArray, prevPosition, attached, channelIndex, issued>>

\* Stops whatever is on the channel of caller r by now.  The assertion on the
\* index is not part of a release build.
StopSound(r) ==
  /\ channelIndex[r] # INVALID_SOUND_CHANNEL
  /\ playing' = [playing EXCEPT ![channelIndex[r]] = INVALID_SOUND_INDEX]
  /\ channelArray' = [channelArray EXCEPT ![channelIndex[r]] = NoNode]
  /\ prevPosition' = [prevPosition EXCEPT ![channelIndex[r]] = NoNode]
  /\ channelIndex' = [channelIndex EXCEPT ![r] = INVALID_SOUND_CHANNEL]
  /\ UNCHANGED <<vector, attached, issued>>

\* The variables of the callers keep their channels.
StopAllSounds ==
  /\ playing' = [c \in Channel |-> INVALID_SOUND_INDEX]
  /\ channelArray' = [c \in Channel |-> NoNode]
  /\ prevPosition' = [c \in Channel |-> NoNode]
  /\ UNCHANGED <<vector, attached, channelIndex, issued>>

\* The velocity of each sound with a node is computed from the place stored
\* last, and the place of now is stored, whether the channel plays or not.
FrameStarted ==
  /\ prevPosition' = [c \in Channel |-> IF channelArray[c] = NoNode
                                         THEN prevPosition[c] ELSE channelArray[c]]
  /\ UNCHANGED <<vector, channelArray, playing, attached, channelIndex, issued>>

Next ==
  \/ \E key \in Key : CreateSound(key)
  \/ \E r \in Caller \cup {NoCaller}, k \in Issued, node \in Node \cup {NoNode} :
       PlaySound(r, k, node)
  \/ \E c \in Channel : SoundEnds(c)
  \/ \E r \in Caller : StopSound(r)
  \/ StopAllSounds
  \/ FrameStarted

Spec == Init /\ [][Next]_vars

-----------------------------------------------------------------------------

TypeOK ==
  /\ capacity \in Nat
  /\ slots \in [0 .. capacity - 1 -> Key \cup {NoKey}]
  /\ loaded \in SUBSET Nat
  /\ nextSoundInstanceIndex \in 0 .. capacity - 1
  /\ channelArray \in [Channel -> Node \cup {NoNode}]
  /\ prevPosition \in [Channel -> Node \cup {NoNode}]
  /\ playing \in [Channel -> Nat]
  /\ channelIndex \in [Caller -> Channel \cup {INVALID_SOUND_CHANNEL}]
  /\ issued \in [Key -> SUBSET Nat]
  /\ attached \in [Channel -> Node \cup {NoNode}]

\* The instances in use are those from 1 to nextSoundInstanceIndex: index 0,
\* which means failure, names none, no file that is missing uses one up, and
\* only one in use has a sound to play.
SlotsUsedInOrder ==
  /\ \A k \in 0 .. capacity - 1 :
       slots[k] # NoKey <=> k \in 1 .. nextSoundInstanceIndex
  /\ loaded \subseteq 1 .. nextSoundInstanceIndex

\* An index, once returned, names the same file and type for ever, however
\* often IncrementNextSoundInstanceIndex replaces the vector.
IndicesStable ==
  \A key \in Key : \A k \in issued[key] :
    k \in 1 .. capacity - 1 /\ slots[k] = key

\* A file is loaded at most once per type, so that two callers who ask for it
\* share the index, also when loading it failed.
OncePerKey ==
  \A j, k \in 1 .. nextSoundInstanceIndex : slots[j] = slots[k] => j = k

\* FrameStarted moves a sound with the node in channelArray: while a sound
\* plays, that is the node it was started with, or none.  It never is the node
\* of a sound that had the channel before.
SoundKeepsItsNode ==
  \A c \in Channel :
    playing[c] # INVALID_SOUND_INDEX =>
      playing[c] \in loaded /\ channelArray[c] = attached[c]

\* The velocity FrameStarted gives a sound is that of its own node: the place
\* it is computed from is never one that another sound left in the channel.
VelocityIsOwn ==
  \A c \in Channel : channelArray[c] # NoNode => prevPosition[c] = channelArray[c]

\* What is heard on each channel.
Voice == [c \in Channel |->
            IF playing[c] = INVALID_SOUND_INDEX
            THEN [sound |-> NoKey, node |-> NoNode]
            ELSE [sound |-> slots[playing[c]], node |-> channelArray[c]]]

Board == INSTANCE SoundBoard WITH
           names <- [k \in 1 .. nextSoundInstanceIndex |-> slots[k]],
           usable <- loaded,
           voice <- Voice

\* The vector that is replaced as it grows, the nodes that are left in the
\* channels and FMOD's choice of a channel come to what SoundBoard promises: a
\* file is numbered once, and what plays keeps its file and its node.
ImplementsBoard == Board!BoardSpec
=============================================================================
